---------------------------- MODULE MCSupervisor ----------------------------
(* Small instances of Supervisor.                                          *)
EXTENDS Supervisor

CONSTANTS ip1, ip2

MCIp == {ip1, ip2}

\* Every service but the federation client, and a changed address along with
\* commands for each kind of service.
MCAsks ==
    ((Service \ {"fedc"}) \X {"start", "stop"} \X {ip1})
        \cup ({"tcpdp", "ssldp"} \X {"stop"} \X {ip2})
        \cup {<<"tcpcot", "start", ip2>>}
=============================================================================
