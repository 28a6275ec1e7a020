---------------------------- MODULE SpliceProofs ----------------------------
(***************************************************************************)
(* Proofs about the splice of one join handler (module Splice), for every *)
(* bound on the segments: its type invariant, and that the handler closes *)
(* the connections only once both streams have been forwarded whole,      *)
(* unless an end was reset or lost.                                       *)
(***************************************************************************)
EXTENDS Splice, TLAPS

(* A copy that has ended met a reset or a lost end on one of its two      *)
(* connections, or read the end of a stream it had forwarded whole; and   *)
(* the handler is closed only after both copies ended or the Join could   *)
(* not be written.                                                         *)
IInv ==
  /\ TypeOK
  /\ \A e \in Ends : cp[e] = "done" =>
        \/ ep[e] = "dead" \/ ep[Other(e)] = "dead"
        \/ (Finished(e) /\ fwd[e] = sent[e])
  /\ h = "closed" => (\A e \in Ends : cp[e] = "done") \/ ep["remote"] = "dead"

LEMMA OtherEnd == \A e \in Ends : Other(e) \in Ends /\ Other(e) # e
BY DEF Ends, Other

(* An end's state only moves towards "dead": a dead end stays dead, and a *)
(* finished one stays finished or dies.                                   *)
LEMMA EndsMonotone ==
  ASSUME TypeOK, [Next]_vars, NEW e \in Ends
  PROVE  /\ ep[e] = "dead" => ep'[e] = "dead"
         /\ Finished(e) => Finished(e)' \/ ep'[e] = "dead"
<1>1. CASE WriteJoin
  BY <1>1 DEF WriteJoin, TypeOK, Finished
<1>2. CASE CloseBoth \/ Returned \/ UNCHANGED vars
  BY <1>2 DEF CloseBoth, Returned, vars, Finished
<1>3. ASSUME NEW x \in Ends,
             Copy(x) \/ Send(x) \/ Shut(x) \/ Close(x) \/ Vanish(x)
      PROVE  /\ ep[e] = "dead" => ep'[e] = "dead"
             /\ Finished(e) => Finished(e)' \/ ep'[e] = "dead"
  <2>1. CASE Copy(x)
    BY <2>1, OtherEnd DEF Copy, CopyEnds, TypeOK, Finished
  <2>2. CASE Send(x) \/ Shut(x) \/ Vanish(x)
    BY <2>2 DEF Send, Shut, Vanish, TypeOK, Finished
  <2>3. CASE Close(x)
    BY <2>3 DEF Close, TypeOK, Finished, Reading
  <2>. QED  BY <1>3, <2>1, <2>2, <2>3
<1>. QED  BY <1>1, <1>2, <1>3 DEF Next

LEMMA TypeStep == TypeOK /\ [Next]_vars => TypeOK'
<1> SUFFICES ASSUME TypeOK, [Next]_vars PROVE TypeOK'
  OBVIOUS
<1> USE DEF TypeOK
<1>1. CASE WriteJoin
  BY <1>1 DEF WriteJoin
<1>2. CASE CloseBoth \/ Returned \/ UNCHANGED vars
  BY <1>2 DEF CloseBoth, Returned, vars
<1>3. ASSUME NEW x \in Ends,
             Copy(x) \/ Send(x) \/ Shut(x) \/ Close(x) \/ Vanish(x)
      PROVE  TypeOK'
  <2>1. CASE Copy(x)
    <3>1. ASSUME fwd' = [fwd EXCEPT ![x] = fwd[x] + 1], fwd[x] < sent[x],
                 UNCHANGED <<cp, ep, eof, h, sent>>
          PROVE  TypeOK'
      <4>1. fwd[x] + 1 \in 0 .. MaxSeg
        BY <3>1, SpliceAssumption DEF TypeOK
      <4>. QED  BY <3>1, <4>1
    <3>2. CASE CopyEnds(x) /\ UNCHANGED <<fwd, h, sent>>
                /\ ep' \in {ep, [ep EXCEPT ![Other(x)] = "dead"]}
      BY <3>2, OtherEnd DEF CopyEnds
    <3>. QED  BY <2>1, <3>1, <3>2 DEF Copy
  <2>2. CASE Send(x)
    BY <2>2, SpliceAssumption DEF Send
  <2>3. CASE Shut(x) \/ Close(x) \/ Vanish(x)
    BY <2>3 DEF Shut, Close, Vanish
  <2>. QED  BY <1>3, <2>1, <2>2, <2>3
<1>. QED  BY <1>1, <1>2, <1>3 DEF Next

(* The type invariant of the splice. *)
THEOREM SpliceTypeCorrect == Spec => []TypeOK
<1>1. Init => TypeOK
  BY SpliceAssumption DEF Init, TypeOK
<1>. QED  BY <1>1, TypeStep, PTL DEF Spec

(* The part of IInv about the ended copies, for one end e. *)
DoneOK(e) ==
  cp[e] = "done" =>
     \/ ep[e] = "dead" \/ ep[Other(e)] = "dead"
     \/ (Finished(e) /\ fwd[e] = sent[e])

LEMMA DoneStep ==
  ASSUME TypeOK, [Next]_vars, NEW e \in Ends, DoneOK(e)
  PROVE  DoneOK(e)'
<1>1. CASE WriteJoin
  BY <1>1 DEF WriteJoin, DoneOK, TypeOK, Finished, Reading, Ends, Other
<1>2. CASE CloseBoth \/ Returned \/ UNCHANGED vars
  BY <1>2 DEF CloseBoth, Returned, vars, DoneOK, Finished
<1>3. ASSUME NEW x \in Ends,
             Copy(x) \/ Send(x) \/ Shut(x) \/ Close(x) \/ Vanish(x)
      PROVE  DoneOK(e)'
  <2>1. CASE Copy(x) /\ x = e
    BY <2>1, OtherEnd DEF Copy, CopyEnds, DoneOK, TypeOK, Finished, Reading
  <2>2. CASE Copy(x) /\ x # e
    <3>1. x = Other(e)
      BY <2>2 DEF Ends, Other
    <3>. QED  BY <2>2, <3>1, OtherEnd DEF Copy, CopyEnds, DoneOK, TypeOK, Finished, Reading
  <2>3. CASE Send(x)
    BY <2>3, OtherEnd DEF Send, DoneOK, TypeOK, Finished
  <2>4. CASE Shut(x) \/ Close(x) \/ Vanish(x)
    BY <2>4, OtherEnd DEF Shut, Close, Vanish, DoneOK, TypeOK, Finished, Reading
  <2>. QED  BY <1>3, <2>1, <2>2, <2>3, <2>4
<1>. QED  BY <1>1, <1>2, <1>3 DEF Next

(* Once the handler is closed it stays closed, an ended copy stays ended, *)
(* and a closed handler had both copies ended or a dead origin.           *)
LEMMA ClosedStep ==
  ASSUME TypeOK, [Next]_vars,
         h = "closed" => (\A e \in Ends : cp[e] = "done") \/ ep["remote"] = "dead"
  PROVE  h' = "closed" => (\A e \in Ends : cp'[e] = "done") \/ ep'["remote"] = "dead"
<1>1. CASE WriteJoin
  BY <1>1 DEF WriteJoin, TypeOK, Ends
<1>2. CASE CloseBoth \/ Returned \/ UNCHANGED vars
  BY <1>2 DEF CloseBoth, Returned, vars
<1>3. ASSUME NEW x \in Ends,
             Copy(x) \/ Send(x) \/ Shut(x) \/ Close(x) \/ Vanish(x)
      PROVE  h' = "closed" => (\A e \in Ends : cp'[e] = "done") \/ ep'["remote"] = "dead"
  <2>1. CASE Copy(x)
    <3>1. \A e \in Ends : cp[e] = "done" => cp'[e] = "done"
      BY <2>1 DEF Copy, CopyEnds, TypeOK
    <3>2. ep["remote"] = "dead" => ep'["remote"] = "dead"
      BY <2>1, EndsMonotone DEF Ends
    <3>. QED  BY <2>1, <3>1, <3>2 DEF Copy
  <2>2. CASE Send(x) \/ Shut(x) \/ Close(x) \/ Vanish(x)
    BY <2>2 DEF Send, Shut, Close, Vanish
  <2>. QED  BY <1>3, <2>1, <2>2
<1>. QED  BY <1>1, <1>2, <1>3 DEF Next

LEMMA IInvStep == IInv /\ [Next]_vars => IInv'
<1> SUFFICES ASSUME IInv, [Next]_vars PROVE IInv'
  OBVIOUS
<1>1. TypeOK'
  BY TypeStep DEF IInv
<1>2. \A e \in Ends : DoneOK(e)'
  BY DoneStep DEF IInv, DoneOK
<1>3. h' = "closed" => (\A e \in Ends : cp'[e] = "done") \/ ep'["remote"] = "dead"
  BY ClosedStep DEF IInv
<1>. QED  BY <1>1, <1>2, <1>3 DEF IInv, DoneOK

(* spec.md 4.F step 9, for every bound on the segments: relay closes the  *)
(* two connections only after both copies forwarded everything their end  *)
(* wrote, unless an end was reset or lost (the run splice checks it).     *)
THEOREM SplicesNothingDropped == Spec => []NothingDropped
<1>1. Init => IInv
  BY SpliceAssumption DEF Init, IInv, TypeOK
<1>2. IInv => NothingDropped
  BY OtherEnd DEF IInv, NothingDropped, Ends
<1>. QED  BY <1>1, <1>2, IInvStep, PTL DEF Spec

(* Before the Join is written no copy runs and no FIN was sent; a copy    *)
(* writing to an end the proxy has half-closed has stopped.               *)
FinInv ==
  /\ TypeOK
  /\ h = "write" => \A e \in Ends : cp[e] = "idle" /\ ~eof[e]
  /\ \A e \in Ends : eof[Other(e)] => cp[e] # "run"

LEMMA FinStep == FinInv /\ [Next]_vars => FinInv'
<1> SUFFICES ASSUME FinInv, [Next]_vars PROVE FinInv'
  OBVIOUS
<1>1. TypeOK'
  BY TypeStep DEF FinInv
<1>2. CASE WriteJoin
  BY <1>1, <1>2, OtherEnd DEF WriteJoin, FinInv, TypeOK
<1>3. CASE CloseBoth \/ Returned \/ UNCHANGED vars
  BY <1>1, <1>3 DEF CloseBoth, Returned, vars, FinInv
<1>4. ASSUME NEW x \in Ends, Copy(x)
      PROVE  FinInv'
  <2>1. h # "write"
    BY <1>4 DEF Copy, FinInv, TypeOK
  <2>2. CASE UNCHANGED <<cp, eof>>
    BY <1>1, <1>4, <2>1, <2>2 DEF Copy, FinInv
  <2>3. CASE CopyEnds(x)
    BY <1>1, <1>4, <2>1, <2>3, OtherEnd DEF Copy, CopyEnds, FinInv, TypeOK, Ends, Other
  <2>. QED  BY <1>4, <2>2, <2>3 DEF Copy
<1>5. ASSUME NEW x \in Ends, Send(x) \/ Shut(x) \/ Close(x) \/ Vanish(x)
      PROVE  FinInv'
  BY <1>1, <1>5 DEF Send, Shut, Close, Vanish, FinInv
<1>. QED  BY <1>2, <1>3, <1>4, <1>5 DEF Next

(* tcp.go's copy goroutines, for every bound: no step of the proxy writes *)
(* data to an end after it has sent that end a FIN (the run splice checks *)
(* it as NoDataAfterFin).                                                 *)
THEOREM NoWriteAfterCloseWrite == Spec => NoDataAfterFin
<1>1. Init => FinInv
  BY SpliceAssumption DEF Init, FinInv, TypeOK
<1>2. FinInv /\ [Next]_vars => [\A e \in Ends : eof[Other(e)] => fwd'[e] = fwd[e]]_vars
  <2> SUFFICES ASSUME FinInv, [Next]_vars, NEW e \in Ends, eof[Other(e)]
               PROVE  fwd'[e] = fwd[e]
    BY DEF vars
  <2>1. cp[e] # "run"
    BY DEF FinInv
  <2>2. \A x \in Ends : Copy(x) => fwd' = fwd \/ (x # e /\ fwd'[e] = fwd[e])
    BY <2>1, OtherEnd DEF Copy, FinInv, TypeOK
  <2>. QED
    BY <2>2 DEF Next, WriteJoin, CloseBoth, Returned, vars, Send, Shut, Close, Vanish
<1>. QED  BY <1>1, <1>2, FinStep, PTL DEF Spec, NoDataAfterFin

=============================================================================
