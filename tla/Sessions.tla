------------------------------ MODULE Sessions ------------------------------
(***************************************************************************)
(* What the CoT service promises about its clients, seen from outside: a   *)
(* uid is in at most one session, on a connection that is in no session    *)
(* before or after; a newer connection of the uid takes the session over;  *)
(* a connection is closed by the end of its session or without ever having *)
(* had one; and data is accepted only from a connection that has had its   *)
(* turn.  The threads, the polling and the hand-over between the listener  *)
(* and the main loop are left to CotService, which implements this.        *)
(***************************************************************************)

CONSTANTS Uid, Sock, NoSock

VARIABLES session,   \* uid -> its connection, or NoSock
          conn,      \* connection -> "new", "live" or "over"
          served     \* connections that data was accepted from

Status == {"new", "live", "over"}

Init ==
    /\ session = [u \in Uid |-> NoSock]
    /\ conn = [s \in Sock |-> "new"]
    /\ served = {}

\* A connection stays as it is, or is refused before it had a session.
Kept(s) == conn'[s] = conn[s] \/ (conn[s] = "new" /\ conn'[s] = "over")

Refuse ==
    /\ UNCHANGED <<session, served>>
    /\ conn' \in [Sock -> Status]
    /\ \A s \in Sock : Kept(s)

Begin(u, s) ==
    /\ conn[s] = "new"
    /\ session' = [session EXCEPT ![u] = s]
    /\ conn' \in [Sock -> Status]
    /\ conn'[s] = "live"
    /\ \A x \in Sock \ {s} : IF x = session[u] THEN conn'[x] = "over" ELSE Kept(x)
    /\ UNCHANGED served

End(u) ==
    /\ session[u] # NoSock
    /\ session' = [session EXCEPT ![u] = NoSock]
    /\ conn' = [conn EXCEPT ![session[u]] = "over"]
    /\ UNCHANGED served

Serve(s) ==
    /\ conn[s] # "new"
    /\ served' = served \cup {s}
    /\ UNCHANGED <<session, conn>>

Shutdown ==
    /\ session' = [u \in Uid |-> NoSock]
    /\ conn' \in [Sock -> Status]
    /\ \A s \in Sock : IF conn[s] = "live" THEN conn'[s] = "over" ELSE Kept(s)
    /\ UNCHANGED served

Next ==
    \/ Refuse
    \/ \E u \in Uid, s \in Sock : Begin(u, s)
    \/ \E s \in Sock : Serve(s)
    \/ \E u \in Uid : End(u)
    \/ Shutdown

Spec == Init /\ [][Next]_<<session, conn, served>>
=============================================================================
