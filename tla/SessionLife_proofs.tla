------------------------- MODULE SessionLife_proofs -------------------------
(***************************************************************************)
(* The session implements the safety part of Lifecycle: every step of the  *)
(* detailed specification is a step of the abstract one or a stutter.      *)
(* phase is state_, listed is the map's entry, and joined is kept by the   *)
(* session id, or by the handler that is about to store it.                *)
(***************************************************************************)
EXTENDS Session_proofs

\* Each handler registers, admits, ends or unlists the session, or does none
\* of these (register_session's call, the store of authenticated, do_close).
LEMMA LifeStep ==
  ASSUME TypeOK, Inductive, ~AllocFails, [Next]_vars
  PROVE  [Life!LifeNext]_(Life!lifeVars)
<1> USE DEF TypeOK, Joined, Life!lifeVars, Life!LifeNext
<1>1. /\ Phases /\ Turns /\ (registered => Joined)
  BY DEF Inductive, Served
<1>2. ASSUME UNCHANGED <<state, registered>>, Joined' <=> Joined
      PROVE  [Life!LifeNext]_(Life!lifeVars)
  BY <1>2
<1>3. ASSUME state # "closed", state' = "closed", UNCHANGED registered,
             Joined' <=> Joined
      PROVE  [Life!LifeNext]_(Life!lifeVars)
  BY <1>3 DEF Life!End
<1>4. ASSUME registered' = FALSE, UNCHANGED state, Joined' <=> Joined
      PROVE  [Life!LifeNext]_(Life!lifeVars)
  BY <1>4 DEF Life!Leave
<1> USE DEF vars, connVars, writeVars, closeVars, regVars, dataVars
<1>5. CASE Run \/ DoRead \/ Respond \/ Rearm
  BY <1>2, <1>5 DEF Run, DoRead, Respond, Rearm
<1>6. CASE Authenticate
  <2>1. Life!Admit
    BY <1>1, <1>6 DEF Authenticate, Phases, Life!Admit
  <2> QED BY <2>1
<1>7. CASE StrandClose \/ CloseLambda
  BY <1>2, <1>3, <1>7 DEF StrandClose, CloseLambda, CloseUnlessWriting, DoClose
<1>8. CASE FinishClose
  <2>1. has_id => registered' = FALSE
    BY <1>8 DEF FinishClose
  <2> QED BY <1>2, <1>4, <1>8, <2>1 DEF FinishClose
<1>9. CASE LeaveAfterReadError
  BY <1>4, <1>9 DEF LeaveAfterReadError
<1>10. CASE Accepted
  BY <1>2, <1>3, <1>10 DEF Accepted, AcceptFails, AcceptSucceeds
<1>11. CASE ReceiveHandshake
  <2>1. ~Joined
    BY <1>1, <1>11 DEF ReceiveHandshake, Received, ReadDone, Turns
  <2>2. Life!Join
    BY <1>11, <2>1 DEF ReceiveHandshake, Received, Life!Join
  <2> QED BY <2>2
<1>12. CASE Receive /\ ~ReceiveHandshake
  BY <1>2, <1>12
  DEF Receive, ReceiveRefused, ReceiveDisconnect, ReceiveDropped, ReceiveAction,
      ReceiveReload, Received, ReadDone, Reject
<1>13. CASE ReadEnds
  BY <1>2, <1>3, <1>13 DEF ReadEnds, ReadIgnored, ReadFails, ReadDone
<1>14. CASE DoWrite
  BY <1>2, <1>14 DEF DoWrite
<1>15. CASE WriteEnds
  BY <1>2, <1>3, <1>15 DEF WriteEnds, WriteSucceeds, WriteFails, DoClose
<1>16. CASE TimerExpires \/ TimerErrors \/ TimerAgain \/ DeadlinePassed
  BY <1>2, <1>16
  DEF TimerExpires, TimerErrors, TimerAgain, TimerStep, DeadlinePassed, Reject
<1>17. CASE CloseHandshakeDone \/ PeerReads \/ Destroy \/ Gone \/ UNCHANGED vars
  BY <1>2, <1>17 DEF CloseHandshakeDone, PeerReads, Destroy, Gone
<1>18. ASSUME NEW t \in Threads, External(t)
       PROVE  [Life!LifeNext]_(Life!lifeVars)
  BY <1>2, <1>4, <1>18
  DEF External, Lookup, StopAll, ExternalSend, ExternalClose, PostClose, Release
<1> QED
  BY <1>5, <1>6, <1>7, <1>8, <1>9, <1>10, <1>11, <1>12, <1>13, <1>14, <1>15,
     <1>16, <1>17, <1>18
  DEF Next, Continue

\* While memory lasts the session lives the life Lifecycle describes, whatever
\* the threads, the peer and the timer do (register_session, unregister_session
\* and stop_all seen from the session).
THEOREM LifecycleKept ==
  ASSUME ~AllocFails
  PROVE  Spec => KeepsLifecycle
<1>1. Init => Life!LifeInit
  BY DEF Init, Life!LifeInit, Joined
<1>2. TypeOK /\ Inductive /\ [Next]_vars => [Life!LifeNext]_(Life!lifeVars)
  BY LifeStep
<1> QED
  BY <1>1, <1>2, TypeCorrect, InductiveInvariant, PTL
  DEF Spec, KeepsLifecycle, Life!LifeSafety
=============================================================================
