------------------------------ MODULE MCFabric ------------------------------
(* One overlay peer and the loopback, one game name, two HostCounters (so *)
(* that a game can be re-hosted under a new counter, and a Local and a    *)
(* Remote game can share one), one join handler.                         *)
EXTENDS Fabric, TLC

CONSTANTS h1, h2

MCPeers == {"p1"}
MCNames == {"n1"}
MCHostCounters == {h1, h2}
MCConns == {"c1"}

(* Two peers, so that two origins can host games with one HostCounter. *)
MCPeers2 == {"p1", "p2"}

(* One HostCounter, for the liveness runs: no ties between origins. *)
MCHostCounters1 == {h1}

(* No join handler: the liveness runs are about discovery only. *)
MCConns0 == {}

(* HostCounters are only compared for equality. *)
HcSymmetry == Permutations(MCHostCounters)

=============================================================================
