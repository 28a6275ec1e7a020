----------------------------- MODULE GameLeases -----------------------------
(***************************************************************************)
(* What the game registry promises its callers (spec.md 4.B and 8), with  *)
(* the game records abstracted away: a table of leases, one per key       *)
(* (origin, name), each holding the time it was last seen.                *)
(*                                                                         *)
(*  - Put(k): an Add of a game with key k renews (or creates) its lease;   *)
(*    "the keys present are exactly those added minus those removed,      *)
(*    with refresh semantics";                                            *)
(*  - Drop(k): Remove of a present key;                                   *)
(*  - Sweep: Expire with the timeout drops exactly the leases older than  *)
(*    it, and no other;                                                   *)
(*  - every change is told to the consumers at once: `told` is the set of *)
(*    keys of the last change notification.                               *)
(***************************************************************************)
EXTENDS Naturals

CONSTANTS Keys, GameTimeout, MaxTime

VARIABLES
  lease,   \* key -> time last seen, for the keys present
  told,    \* the keys of the last notified snapshot
  clock

leaseVars == <<lease, told, clock>>

Init ==
  /\ lease = [k \in {} |-> 0]
  /\ told = {}
  /\ clock = 1

(* Without the key k, or with only the keys of S. *)
Keep(f, S) == [k \in S |-> f[k]]

Put(k) ==
  /\ lease' = [j \in DOMAIN lease \cup {k} |-> IF j = k THEN clock ELSE lease[j]]
  /\ told' = DOMAIN lease'
  /\ UNCHANGED clock

Drop(k) ==
  /\ k \in DOMAIN lease
  /\ lease' = Keep(lease, DOMAIN lease \ {k})
  /\ told' = DOMAIN lease'
  /\ UNCHANGED clock

Sweep ==
  LET gone == {k \in DOMAIN lease : clock - lease[k] > GameTimeout}
  IN  /\ gone # {}
      /\ lease' = Keep(lease, DOMAIN lease \ gone)
      /\ told' = DOMAIN lease'
      /\ UNCHANGED clock

Advance ==
  /\ clock < MaxTime
  /\ clock' = clock + 1
  /\ UNCHANGED <<lease, told>>

Next ==
  \/ \E k \in Keys : Put(k) \/ Drop(k)
  \/ Sweep
  \/ Advance

Spec == Init /\ [][Next]_leaseVars

=============================================================================
