--------------------------- MODULE MCStandingCot ----------------------------
(* The instance of StandingCot for TLC: one client, of the TCP service,    *)
(* that is near every emergency and that the private CoT names; the SSL    *)
(* service has no client and gets its own requests all the same.           *)
EXTENDS StandingCot, TLC

CONSTANTS c1, tcp, ssl

MCHome == [c \in Client |-> tcp]
MCReach == [x \in Emergency \cup Cot |-> {c1}]

WorkerSymmetry == Permutations(Worker)
=============================================================================
