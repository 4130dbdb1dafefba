---------------------------- MODULE MCCotDelivery ---------------------------
EXTENDS CotDelivery

CONSTANTS tcp, ssl, rest, c1, c2, m1, m2

MCSvc == {tcp, ssl}
MCSrc == {rest}
TwoClients == {c1, c2}
TwoAtTcp == (tcp :> <<c1, c2>>) @@ (ssl :> <<>>)
MCMsg == {m1, m2}
OneMsg == {m1}
MCBody ==
    { [kind |-> "all", dests |-> {}],
      [kind |-> "room", dests |-> {c2}],
      [kind |-> "marti", dests |-> {c2}],
      [kind |-> "response", dests |-> {c1}],
      [kind |-> "response", dests |-> {}] }
=============================================================================
