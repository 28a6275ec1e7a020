----------------------------- MODULE MCRegistry -----------------------------
(* The registry with one peer and the loopback, so that a Local and a     *)
(* Remote game coexist, one name, and two counters so that re-hosting a   *)
(* game under the same name changes its HostCounter.                      *)
EXTENDS Registry

MCPeers == {"p1"}
MCNames == {"n1"}
MCHostCounters == {1, 2}

=============================================================================
