------------------------------- MODULE Splice -------------------------------
(***************************************************************************)
(* The end of one join handler of the TCP proxy (src/proxy/tcp.go): once  *)
(* the dial has succeeded, handleConnection writes the client's Join to   *)
(* the origin and relay splices the two connections with two copy          *)
(* goroutines, each doing io.Copy and then CloseWrite on the connection   *)
(* it wrote to; the handler waits for both (a WaitGroup), and its deferred *)
(* Close calls close both connections.                                     *)
(*                                                                         *)
(* The two ends are the local WC3 client and the WC3 host at the origin.  *)
(* A stream is counted in segments: sent[e] written by end e into its      *)
(* connection to the proxy, fwd[e] of them read by the copy goroutine     *)
(* that reads from e and written to the other end.  An end may shut its   *)
(* write side (FIN, still reading), close (FIN, no longer reading: data   *)
(* written to it afterwards is answered by a reset) or vanish (crash,      *)
(* link loss; the proxy's reads and writes on that connection then fail,  *)
(* by reset, retransmission timeout or keep-alive).                       *)
(***************************************************************************)
EXTENDS Naturals

CONSTANT MaxSeg   \* segments each end may write

ASSUME SpliceAssumption == MaxSeg \in Nat \ {0}

VARIABLES
  h,      \* handleConnection: "write" (the Join), "relay" (in wg.Wait), "closed"
  cp,     \* end -> state of the copy goroutine reading from that end
  ep,     \* end -> "open", "shut", "closed" or "dead"
  sent,   \* end -> segments that end has written
  fwd,    \* end -> segments of that end's stream written to the other end
  eof     \* end -> the proxy has sent that end a FIN

vars == <<h, cp, ep, sent, fwd, eof>>

Ends == {"client", "remote"}
Other(e) == IF e = "client" THEN "remote" ELSE "client"

(* The end still reads what is written to it. *)
Reading(e) == ep[e] \in {"open", "shut"}
(* The end has finished its stream with a FIN. *)
Finished(e) == ep[e] \in {"shut", "closed"}

Init ==
  /\ h = "write"
  /\ cp = [e \in Ends |-> "idle"]
  /\ ep = [e \in Ends |-> "open"]
  /\ sent = [e \in Ends |-> 0]
  /\ fwd = [e \in Ends |-> 0]
  /\ eof = [e \in Ends |-> FALSE]

-----------------------------------------------------------------------------
(* handleConnection: remoteConn.Write(initialPacket); else relay starts  *)
(* both copies.  A write to an origin that no longer reads is answered by *)
(* a reset: the error return closes both connections.                     *)
WriteJoin ==
  /\ h = "write"
  /\ \/ /\ Reading("remote")
        /\ h' = "relay"
        /\ cp' = [e \in Ends |-> "run"]
        /\ UNCHANGED <<ep, eof>>
     \/ /\ ~Reading("remote")
        /\ h' = "closed"
        /\ ep' = [ep EXCEPT !["remote"] = "dead"]
        /\ eof' = [e \in Ends |-> TRUE]
        /\ UNCHANGED cp
  /\ UNCHANGED <<sent, fwd>>

(* Mutant: the copy ends without CloseWrite on the other connection. *)
CopyEndsNoHalfClose(e) ==
  /\ cp' = [cp EXCEPT ![e] = "done"]
  /\ UNCHANGED eof

(* Mutant: CloseWrite on the connection the copy read from. *)
CopyEndsWrongConn(e) ==
  /\ cp' = [cp EXCEPT ![e] = "done"]
  /\ eof' = [eof EXCEPT ![e] = TRUE]

(* The copy goroutine ends: CloseWrite on the connection it wrote to.     *)
CopyEnds(e) ==
  /\ cp' = [cp EXCEPT ![e] = "done"]
  /\ eof' = [eof EXCEPT ![Other(e)] = TRUE]

(* One turn of io.Copy(dst, src) with src the connection from e: read a    *)
(* segment and write it to the other end; a read of EOF or an error, or a *)
(* failed write, ends the copy.  A write to an end that has closed is      *)
(* answered by a reset.                                                    *)
Copy(e) ==
  /\ cp[e] = "run"
  /\ \/ /\ ep[e] # "dead"
        /\ fwd[e] < sent[e]
        /\ Reading(Other(e))
        /\ fwd' = [fwd EXCEPT ![e] = @ + 1]
        /\ UNCHANGED <<cp, ep, eof>>
     \/ /\ ep[e] # "dead"
        /\ fwd[e] < sent[e]
        /\ ~Reading(Other(e))
        /\ ep' = [ep EXCEPT ![Other(e)] = "dead"]
        /\ CopyEnds(e)
        /\ UNCHANGED fwd
     \/ /\ ep[e] = "dead" \/ (Finished(e) /\ fwd[e] = sent[e])
        /\ CopyEnds(e)
        /\ UNCHANGED <<ep, fwd>>
  /\ UNCHANGED <<h, sent>>

(* Mutant: the WaitGroup counts one goroutine, so relay returns when the *)
(* first copy ends.                                                       *)
CloseBothAfterOne ==
  /\ h = "relay"
  /\ \E e \in Ends : cp[e] = "done"
  /\ h' = "closed"
  /\ eof' = [e \in Ends |-> TRUE]
  /\ UNCHANGED <<cp, ep, sent, fwd>>

(* relay: wg.Wait returns once both copies are done, and the deferred     *)
(* Close calls of handleConnection close both connections.                *)
CloseBoth ==
  /\ h = "relay"
  /\ \A e \in Ends : cp[e] = "done"
  /\ h' = "closed"
  /\ eof' = [e \in Ends |-> TRUE]
  /\ UNCHANGED <<cp, ep, sent, fwd>>

-----------------------------------------------------------------------------
(* The two WC3 processes and the network, while the handler runs. *)

Send(e) ==
  /\ h # "closed"
  /\ ep[e] = "open"
  /\ sent[e] < MaxSeg
  /\ sent' = [sent EXCEPT ![e] = @ + 1]
  /\ UNCHANGED <<h, cp, ep, fwd, eof>>

Shut(e) ==
  /\ h # "closed"
  /\ ep[e] = "open"
  /\ ep' = [ep EXCEPT ![e] = "shut"]
  /\ UNCHANGED <<h, cp, sent, fwd, eof>>

Close(e) ==
  /\ h # "closed"
  /\ Reading(e)
  /\ ep' = [ep EXCEPT ![e] = "closed"]
  /\ UNCHANGED <<h, cp, sent, fwd, eof>>

Vanish(e) ==
  /\ h # "closed"
  /\ ep[e] # "dead"
  /\ ep' = [ep EXCEPT ![e] = "dead"]
  /\ UNCHANGED <<h, cp, sent, fwd, eof>>

(* handleConnection has returned; nothing of the splice changes. *)
Returned ==
  /\ h = "closed"
  /\ UNCHANGED vars

Next ==
  \/ WriteJoin \/ CloseBoth \/ Returned
  \/ \E e \in Ends : Copy(e) \/ Send(e) \/ Shut(e) \/ Close(e) \/ Vanish(e)

Spec == Init /\ [][Next]_vars

(* The handler and its two copy goroutines are always scheduled again; a  *)
(* WC3 process that has read the end of the other's stream closes its     *)
(* connection (the game's leave handshake).  Ends get no other fairness:   *)
(* a game may last for ever.                                               *)
Fairness ==
  /\ WF_vars(WriteJoin)
  /\ WF_vars(CloseBoth)
  /\ \A e \in Ends : WF_vars(Copy(e))
  /\ \A e \in Ends : WF_vars(eof[e] /\ Close(e))

FairSpec == Spec /\ Fairness

-----------------------------------------------------------------------------
TypeOK ==
  /\ h \in {"write", "relay", "closed"}
  /\ cp \in [Ends -> {"idle", "run", "done"}]
  /\ ep \in [Ends -> {"open", "shut", "closed", "dead"}]
  /\ sent \in [Ends -> 0 .. MaxSeg]
  /\ fwd \in [Ends -> 0 .. MaxSeg]
  /\ eof \in [Ends -> BOOLEAN]

(* spec.md 4.F step 9: the proxy loses nothing of a stream: when the      *)
(* handler closes the two connections and neither end was reset or lost,  *)
(* every segment each end wrote has reached the other (relay waits for     *)
(* both copies before handleConnection's deferred Close calls).            *)
NothingDropped ==
  (h = "closed" /\ \A e \in Ends : ep[e] # "dead") =>
     \A e \in Ends : fwd[e] = sent[e]

(* spec.md 4.F step 9 and 9 ("stream splicing with half-close"): when     *)
(* one player's side ends, the proxy tells the other side with a          *)
(* half-close, and so the handler and both connections are released; a    *)
(* handler whose ends both left does not live on.                          *)
LeaveReleasesHandler ==
  \A e \in Ends : (ep[e] # "open") ~> (h = "closed")

(* tcp.go:287-290 and 304-307: a copy goroutine calls CloseWrite on the   *)
(* connection it writes to only after its io.Copy has returned, and the   *)
(* handler closes the connections only after both copies: no step of the  *)
(* proxy writes data to an end after it has sent that end a FIN.          *)
NoDataAfterFin ==
  [][\A e \in Ends : eof[Other(e)] => fwd'[e] = fwd[e]]_vars

=============================================================================
