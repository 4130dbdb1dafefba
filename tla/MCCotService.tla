--------------------------- MODULE MCCotService ---------------------------
(* The CoT service on small instances. *)
EXTENDS CotService, TLC

CONSTANTS u1, u2, s1, s2, l1, l2

MCUid == {u1, u2}
MCSock == {s1, s2}
MCSlot == {l1, l2}
OneUid == {u1}
OneSock == {s1}
OneSlot == {l1}
\* Uids, connections and listen slots are only compared for equality.
Symmetry == Permutations(MCUid) \cup Permutations(MCSock) \cup Permutations(MCSlot)
=============================================================================
