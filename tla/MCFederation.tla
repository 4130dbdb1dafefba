---------------------------- MODULE MCFederation ----------------------------
(* Federation with a few federations, sockets and users. *)
EXTENDS Federation

MCMaxOf   == [rest |-> 3, core |-> 1, peer |-> 2]
DeafMaxOf == [rest |-> 3, core |-> 0, peer |-> 2]
=============================================================================
