--------------------------- MODULE Session_proofs ---------------------------
(***************************************************************************)
(* Proofs about Session, for every set of threads and every value of the   *)
(* bounds.  First the types; then the inductive invariant, one lemma for   *)
(* each group of its conjuncts; then what follows from it.                 *)
(***************************************************************************)
EXTENDS Session, TLAPS

-----------------------------------------------------------------------------
(* Types                                                                    *)

\* handle_reload_msg's std::min keeps the stack within MAX_AMOUNT.
LEMMA LesserInRange ==
  ASSUME NEW a \in 0..MaxStack, NEW b \in Nat
  PROVE  Lesser(a + b, MaxStack) \in 0..MaxStack
  BY SessionAssumption DEF Lesser, SessionAssumption

\* The empty queue is a queue.
LEMMA EmptyQueueType == <<>> \in Seq(Messages) /\ Len(<<>>) <= MaxQueue
  BY SessionAssumption DEF SessionAssumption

\* do_write()'s pop leaves a queue.
LEMMA TailType ==
  ASSUME NEW q \in Seq(Messages), Len(q) <= MaxQueue, q # <<>>
  PROVE  Tail(q) \in Seq(Messages) /\ Len(Tail(q)) <= MaxQueue
<1>1. Tail(q) \in Seq(Messages) /\ Len(Tail(q)) = Len(q) - 1
  OBVIOUS
<1>2. Len(q) \in Nat /\ MaxQueue \in Nat
  BY SessionAssumption DEF SessionAssumption
<1> QED BY <1>1, <1>2

\* queue_message() keeps the types and the limit, whether or not it accepts.
LEMMA QueueMessageType ==
  ASSUME TypeOK, NEW m \in Messages, QueueMessage(m)
  PROVE  /\ writing' \in BOOLEAN /\ posted' \in Nat /\ inflight' \in Nat
         /\ write_queue' \in Seq(Messages) /\ Len(write_queue') <= MaxQueue
<1>1. CASE Accepts
  <2>1. write_queue' = Append(write_queue, m)
    BY <1>1 DEF QueueMessage
  <2>2. Len(write_queue) < MaxQueue /\ MaxQueue \in Nat
    BY <1>1, SessionAssumption DEF Accepts, SessionAssumption
  <2>3. write_queue' \in Seq(Messages) /\ Len(write_queue') <= MaxQueue
    BY <2>1, <2>2 DEF TypeOK
  <2> QED BY <1>1, <2>3 DEF QueueMessage, TypeOK
<1>2. CASE ~Accepts
  BY <1>2 DEF QueueMessage, writeVars, TypeOK
<1> QED BY <1>1, <1>2

\* An error message and the close() to come keep them too.
LEMMA RejectType ==
  ASSUME TypeOK, Reject
  PROVE  /\ writing' \in BOOLEAN /\ posted' \in Nat /\ inflight' \in Nat
         /\ write_queue' \in Seq(Messages) /\ Len(write_queue') <= MaxQueue
         /\ pc' \in StrandPCs
<1>1. Refusal \in Messages
  BY DEF Messages
<1>2. pc' \in StrandPCs
  BY DEF Reject, StrandPCs
<1>3. CASE QueueMessage(Refusal)
  BY <1>1, <1>2, <1>3, QueueMessageType
<1>4. CASE UNCHANGED writeVars
  BY <1>2, <1>4 DEF writeVars, TypeOK
<1> QED BY <1>3, <1>4 DEF Reject

\* do_close() leaves every flag a flag.
LEMMA DoCloseType ==
  ASSUME TypeOK, DoClose
  PROVE  /\ close_initiated' \in BOOLEAN /\ state' \in States
         /\ timer' \in TimerPCs /\ pc' \in StrandPCs
  BY DEF TypeOK, DoClose, Cancelled, States, TimerPCs, StrandPCs

\* Every variable keeps its type and the write queue its limit, whatever the
\* peer sends, the threads do and the allocator refuses (queue_message).
THEOREM TypeCorrect == Spec => []TypeOK
<1>1. Init => TypeOK
  <2> SUFFICES ASSUME Init PROVE TypeOK
    OBVIOUS
  <2>1. current_stack \in 0..MaxStack
    BY SessionAssumption DEF Init, SessionAssumption
  <2>2. write_queue \in Seq(Messages) /\ Len(write_queue) <= MaxQueue
    BY EmptyQueueType DEF Init
  <2>3. ext \in [Threads -> ExtPCs]
    BY DEF Init, ExtPCs
  <2>4. unread \in 0..SendBuffer
    BY SessionAssumption DEF Init, SessionAssumption
  <2> QED BY <2>1, <2>2, <2>3, <2>4 DEF Init, TypeOK, States, TimerPCs, StrandPCs
<1>2. TypeOK /\ [Next]_vars => TypeOK'
  <2> SUFFICES ASSUME TypeOK, [Next]_vars PROVE TypeOK'
    OBVIOUS
  <2> USE DEF TypeOK, vars, connVars, writeVars, closeVars, regVars, dataVars
  <2>1. CASE Run
    <3>1. timer' \in TimerPCs /\ state' \in States
      BY <2>1 DEF Run, TimerPCs, States
    <3>2. accepting' \in BOOLEAN /\ pc' \in StrandPCs
      BY <2>1 DEF Run, StrandPCs
    <3> QED BY <2>1, <3>1, <3>2 DEF Run
  <2>2. CASE DoRead
    BY <2>2 DEF DoRead, StrandPCs
  <2>3. CASE Respond
    <3>1. Greeting \in Messages
      BY DEF Messages
    <3>2. /\ writing' \in BOOLEAN /\ posted' \in Nat /\ inflight' \in Nat
          /\ write_queue' \in Seq(Messages) /\ Len(write_queue') <= MaxQueue
          /\ pc' \in StrandPCs
      BY <2>3, <3>1, QueueMessageType, RejectType DEF Respond, StrandPCs
    <3>3. has_id' \in BOOLEAN
      BY <2>3 DEF Respond
    <3>4. UNCHANGED <<connVars, closeVars, registered, dataVars, timer, ext>>
      BY <2>3 DEF Respond
    <3> QED BY <3>2, <3>3, <3>4
  <2>4. CASE Authenticate
    BY <2>4 DEF Authenticate, StrandPCs, States
  <2>5. CASE Rearm
    BY <2>5 DEF Rearm, Rearmed, Cancelled, StrandPCs, TimerPCs
  <2>6. CASE StrandClose
    <3>1. /\ close_initiated' \in BOOLEAN /\ state' \in States
          /\ timer' \in TimerPCs /\ pc' \in StrandPCs
      BY <2>6, DoCloseType DEF StrandClose, CloseUnlessWriting, StrandPCs
    <3>2. /\ close_requested' = TRUE
          /\ UNCHANGED <<connVars, writeVars, regVars, dataVars, close_posted, ext>>
      BY <2>6 DEF StrandClose
    <3> QED BY <3>1, <3>2
  <2>7. CASE FinishClose
    <3>1. /\ registered' \in BOOLEAN /\ pc' \in StrandPCs
          /\ stream' \in {"connecting", "open", "closing", "shut"}
      BY <2>7 DEF FinishClose, ClosesStream, StrandPCs
    <3>2. UNCHANGED <<unread, accepting, reads, alive, writeVars, closeVars, dataVars,
                      has_id, timer, ext>>
      BY <2>7 DEF FinishClose
    <3> QED BY <3>1, <3>2
  <2>8. CASE LeaveAfterReadError
    BY <2>8 DEF LeaveAfterReadError, StrandPCs
  <2>9. CASE Accepted
    <3>1. CASE AcceptFails
      BY <3>1 DEF AcceptFails, Cancelled, States, TimerPCs
    <3>2. CASE AcceptSucceeds
      BY <3>2 DEF AcceptSucceeds, StrandPCs
    <3> QED BY <2>9, <3>1, <3>2 DEF Accepted
  <2>10. CASE ReceiveRefused
    BY <2>10, RejectType DEF ReceiveRefused, Received, ReadDone
  <2>11. CASE ReceiveHandshake
    <3>1. /\ writing' \in BOOLEAN /\ posted' \in Nat /\ inflight' \in Nat
          /\ write_queue' \in Seq(Messages) /\ Len(write_queue') <= MaxQueue
          /\ pc' \in StrandPCs
      BY <2>11, RejectType DEF ReceiveHandshake, StrandPCs
    <3> QED BY <2>11, <3>1 DEF ReceiveHandshake, Received, ReadDone
  <2>12. CASE ReceiveDisconnect
    BY <2>12 DEF ReceiveDisconnect, Received, ReadDone, StrandPCs
  <2>13. CASE ReceiveDropped
    BY <2>13 DEF ReceiveDropped, Received, ReadDone, StrandPCs
  <2>14. ASSUME NEW seq \in SeqNumbers, ReceiveAction(seq)
         PROVE  TypeOK'
    <3>1. /\ writing' \in BOOLEAN /\ posted' \in Nat /\ inflight' \in Nat
          /\ write_queue' \in Seq(Messages) /\ Len(write_queue') <= MaxQueue
          /\ pc' \in StrandPCs
      BY <2>14, RejectType DEF ReceiveAction, StrandPCs
    <3>2. last_seq' \in Nat \cup {-1}
      BY <2>14, SessionAssumption DEF ReceiveAction, SessionAssumption
    <3> QED BY <2>14, <3>1, <3>2 DEF ReceiveAction, Received, ReadDone
  <2>15. ASSUME NEW amount \in Amounts, ReceiveReload(amount)
         PROVE  TypeOK'
    <3> DEFINE new_stack == Lesser(current_stack + amount, MaxStack)
    <3>1. new_stack \in 0..MaxStack
      BY LesserInRange, SessionAssumption DEF SessionAssumption
    <3>2. Reloaded(new_stack) \in Messages
      BY <3>1 DEF Messages
    <3>3. QueueMessage(Reloaded(new_stack))
      BY <2>15 DEF ReceiveReload
    <3>4. pc' \in StrandPCs /\ current_stack' \in 0..MaxStack
      BY <2>15, <3>1 DEF ReceiveReload, StrandPCs
    <3> QED BY <2>15, <3>2, <3>3, <3>4, QueueMessageType
            DEF ReceiveReload, Received, ReadDone
  <2>16. CASE ReadEnds
    BY <2>16
    DEF ReadEnds, ReadIgnored, ReadFails, ReadDone, Cancelled, States, TimerPCs,
        StrandPCs
  <2>17. CASE DoWrite
    <3>1. write_queue' \in Seq(Messages) /\ Len(write_queue') <= MaxQueue
      BY <2>17, TailType DEF DoWrite
    <3>2. posted' \in Nat
      BY <2>17 DEF DoWrite
    <3>3. inflight' \in Nat
      BY <2>17 DEF DoWrite
    <3>4. writing' \in BOOLEAN
      BY <2>17 DEF DoWrite
    <3> QED BY <2>17, <3>1, <3>2, <3>3, <3>4 DEF DoWrite, StrandPCs
  <2>18. CASE WriteSucceeds
    <3>1. posted' \in Nat
      BY <2>18 DEF WriteSucceeds
    <3>2. inflight' \in Nat
      BY <2>18 DEF WriteSucceeds
    <3>3. writing' \in BOOLEAN
      BY <2>18 DEF WriteSucceeds
    <3>4. /\ close_initiated' \in BOOLEAN /\ state' \in States
          /\ timer' \in TimerPCs /\ pc' \in StrandPCs
      BY <2>18, DoCloseType DEF WriteSucceeds
    <3>5. unread' \in 0..SendBuffer
      BY <2>18, SessionAssumption DEF WriteSucceeds, SessionAssumption
    <3> QED BY <2>18, <3>1, <3>2, <3>3, <3>4, <3>5 DEF WriteSucceeds
  <2>19. CASE WriteFails
    <3>1. write_queue' \in Seq(Messages) /\ Len(write_queue') <= MaxQueue
      BY <2>19, EmptyQueueType DEF WriteFails
    <3>2. inflight' \in Nat
      BY <2>19 DEF WriteFails
    <3>3. /\ close_initiated' \in BOOLEAN /\ state' \in States
          /\ timer' \in TimerPCs /\ pc' \in StrandPCs
      BY <2>19, DoCloseType DEF WriteFails
    <3> QED BY <2>19, <3>1, <3>2, <3>3 DEF WriteFails
  <2>20. CASE TimerExpires \/ TimerErrors \/ TimerAgain
    BY <2>20 DEF TimerExpires, TimerErrors, TimerAgain, TimerStep, TimerPCs
  <2>21. CASE DeadlinePassed
    BY <2>21, RejectType DEF DeadlinePassed, TimerPCs
  <2>22. CASE CloseLambda
    <3>1. /\ close_initiated' \in BOOLEAN /\ state' \in States
          /\ timer' \in TimerPCs /\ pc' \in StrandPCs
      BY <2>22, DoCloseType DEF CloseLambda, CloseUnlessWriting, StrandPCs
    <3> QED BY <2>22, <3>1 DEF CloseLambda
  <2>23. CASE CloseHandshakeDone \/ PeerReads
    <3>1. unread' \in 0..SendBuffer
      BY <2>23, SessionAssumption
      DEF CloseHandshakeDone, PeerReads, SessionAssumption
    <3> QED BY <2>23, <3>1 DEF CloseHandshakeDone, PeerReads
  <2>24. ASSUME NEW t \in Threads, External(t)
         PROVE  TypeOK'
    <3>1. ext' \in [Threads -> ExtPCs]
      BY <2>24
      DEF External, Lookup, StopAll, ExternalSend, ExternalClose, PostClose,
          Release, Moves, ExtPCs
    <3>2. CASE ExternalSend(t)
      <4>1. Push \in Messages
        BY DEF Messages
      <4> QED BY <3>1, <3>2, <4>1, QueueMessageType DEF ExternalSend
    <3>3. CASE Lookup(t)
      BY <3>1, <3>3 DEF Lookup
    <3>4. CASE StopAll(t)
      BY <3>1, <3>4 DEF StopAll
    <3>5. CASE ExternalClose(t)
      BY <3>1, <3>5 DEF ExternalClose
    <3>6. CASE PostClose(t)
      <4>1. close_posted' \in BOOLEAN
        BY <3>6 DEF PostClose
      <4> QED BY <3>1, <3>6, <4>1 DEF PostClose
    <3>7. CASE Release(t)
      BY <3>1, <3>7 DEF Release
    <3> QED BY <2>24, <3>2, <3>3, <3>4, <3>5, <3>6, <3>7 DEF External
  <2>25. CASE Destroy
    BY <2>25 DEF Destroy
  <2>26. CASE Gone \/ UNCHANGED vars
    BY <2>26 DEF Gone
  <2> QED
    BY <2>1, <2>2, <2>3, <2>4, <2>5, <2>6, <2>7, <2>8, <2>9, <2>10, <2>11,
       <2>12, <2>13, <2>14, <2>15, <2>16, <2>17, <2>18, <2>19, <2>20, <2>21,
       <2>22, <2>23, <2>24, <2>25, <2>26
    DEF Next, Continue, Receive, WriteEnds
<1> QED BY <1>1, <1>2, PTL DEF Spec

-----------------------------------------------------------------------------
(* The inductive invariant                                                  *)

\* Only the running handler moves state_, and it knows what it finds there.
LEMMA PhasesKept ==
  ASSUME TypeOK, Phases, [Next]_vars
  PROVE  Phases'
<1> USE DEF TypeOK, Phases, vars, connVars, writeVars, closeVars, regVars, dataVars
<1>1. CASE Continue /\ ~Respond
  BY <1>1
  DEF Continue, Run, DoRead, Authenticate, Rearm, StrandClose,
      CloseUnlessWriting, DoClose, FinishClose, LeaveAfterReadError
<1>2. CASE Accepted
  BY <1>2 DEF Accepted, AcceptFails, AcceptSucceeds
<1>3. CASE Receive
  BY <1>3
  DEF Receive, ReceiveRefused, ReceiveHandshake, ReceiveDisconnect, ReceiveDropped,
      ReceiveAction, ReceiveReload, Received, ReadDone, Reject
<1>4. CASE ReadEnds
  BY <1>4 DEF ReadEnds, ReadIgnored, ReadFails, ReadDone
<1>5. CASE DoWrite
  BY <1>5 DEF DoWrite
<1>6. CASE WriteEnds
  BY <1>6 DEF WriteEnds, WriteSucceeds, WriteFails, DoClose
<1>7. CASE TimerExpires \/ TimerErrors \/ TimerAgain \/ DeadlinePassed
  BY <1>7
  DEF TimerExpires, TimerErrors, TimerAgain, TimerStep, DeadlinePassed, Reject
<1>8. CASE CloseLambda \/ CloseHandshakeDone \/ PeerReads
  BY <1>8 DEF CloseLambda, CloseUnlessWriting, DoClose, CloseHandshakeDone, PeerReads
<1>9. ASSUME NEW t \in Threads, External(t)
      PROVE  Phases'
  BY <1>9
  DEF External, Lookup, StopAll, ExternalSend, ExternalClose, PostClose, Release
<1>10. CASE Destroy \/ Gone \/ UNCHANGED vars
  BY <1>10 DEF Destroy, Gone
<1>11. CASE Respond
  BY <1>11 DEF Respond, Reject
<1> QED
  BY <1>1, <1>2, <1>3, <1>4, <1>5, <1>6, <1>7, <1>8, <1>9, <1>10, <1>11 DEF Next

\* Whoever holds the turn to read gives it up before another takes it.
LEMMA TurnsKept ==
  ASSUME TypeOK, Phases, Turns, [Next]_vars
  PROVE  Turns'
<1> USE DEF TypeOK, Phases, Turns, Joined, ReadPCs, vars, connVars, writeVars, closeVars, regVars, dataVars
<1>1. CASE Continue /\ ~Respond
  BY <1>1
  DEF Continue, Run, DoRead, Authenticate, Rearm, StrandClose,
      CloseUnlessWriting, DoClose, FinishClose, LeaveAfterReadError
<1>2. CASE Accepted
  BY <1>2
  DEF Accepted, AcceptFails, AcceptSucceeds
<1>3. CASE Receive
  BY <1>3
  DEF Receive, ReceiveRefused, ReceiveHandshake, ReceiveDisconnect, ReceiveDropped,
      ReceiveAction, ReceiveReload, Received, ReadDone, Reject
<1>4. CASE ReadEnds
  BY <1>4
  DEF ReadEnds, ReadIgnored, ReadFails, ReadDone
<1>5. CASE DoWrite
  BY <1>5
  DEF DoWrite
<1>6. CASE WriteEnds
  BY <1>6
  DEF WriteEnds, WriteSucceeds, WriteFails, DoClose
<1>7. CASE TimerExpires \/ TimerErrors \/ TimerAgain \/ DeadlinePassed
  BY <1>7
  DEF TimerExpires, TimerErrors, TimerAgain, TimerStep, DeadlinePassed, Reject
<1>8. CASE CloseLambda \/ CloseHandshakeDone \/ PeerReads
  BY <1>8
  DEF CloseLambda, CloseUnlessWriting, DoClose, CloseHandshakeDone, PeerReads
<1>9. ASSUME NEW t \in Threads, External(t)
      PROVE  Turns'
  BY <1>9
  DEF External, Lookup, StopAll, ExternalSend, ExternalClose, PostClose, Release
<1>10. CASE Destroy \/ Gone \/ UNCHANGED vars
  BY <1>10
  DEF Destroy, Gone
<1>11. CASE Respond
  BY <1>11 DEF Respond, Reject
<1> QED
  BY <1>1, <1>2, <1>3, <1>4, <1>5, <1>6, <1>7, <1>8, <1>9, <1>10, <1>11 DEF Next

\* writing_ is raised by whoever starts a chain and lowered by its last link,
\* and a message is queued only where a chain will find it.
LEMMA WriteChainKept ==
  ASSUME TypeOK, Phases, WriteChain, PostedHasWork, QueueServed, [Next]_vars
  PROVE  WriteChain' /\ PostedHasWork' /\ QueueServed'
<1> USE DEF TypeOK, Phases, WriteChain, PostedHasWork, QueueServed, QueueMessage, Accepts, vars, connVars, writeVars, closeVars, regVars, dataVars
<1>1. CASE Continue /\ ~Respond
  BY <1>1
  DEF Continue, Run, DoRead, Authenticate, Rearm, StrandClose,
      CloseUnlessWriting, DoClose, FinishClose, LeaveAfterReadError
<1>2. CASE Accepted
  BY <1>2
  DEF Accepted, AcceptFails, AcceptSucceeds
<1>3. CASE Receive
  BY <1>3
  DEF Receive, ReceiveRefused, ReceiveHandshake, ReceiveDisconnect, ReceiveDropped,
      ReceiveAction, ReceiveReload, Received, ReadDone, Reject
<1>4. CASE ReadEnds
  BY <1>4
  DEF ReadEnds, ReadIgnored, ReadFails, ReadDone
<1>5. CASE DoWrite
  BY <1>5
  DEF DoWrite
<1>6. CASE WriteEnds
  BY <1>6
  DEF WriteEnds, WriteSucceeds, WriteFails, DoClose
<1>7. CASE TimerExpires \/ TimerErrors \/ TimerAgain \/ DeadlinePassed
  BY <1>7
  DEF TimerExpires, TimerErrors, TimerAgain, TimerStep, DeadlinePassed, Reject
<1>8. CASE CloseLambda \/ CloseHandshakeDone \/ PeerReads
  BY <1>8
  DEF CloseLambda, CloseUnlessWriting, DoClose, CloseHandshakeDone, PeerReads
<1>9. ASSUME NEW t \in Threads, External(t)
      PROVE  WriteChain' /\ PostedHasWork' /\ QueueServed'
  BY <1>9
  DEF External, Lookup, StopAll, ExternalSend, ExternalClose, PostClose, Release
<1>10. CASE Destroy \/ Gone \/ UNCHANGED vars
  BY <1>10
  DEF Destroy, Gone
<1>11. CASE Respond
  <2>1. UNCHANGED <<state, close_requested, close_initiated>>
    BY <1>11 DEF Respond
  <2>2. state = "unauthenticated"
    BY <1>11 DEF Respond
  <2>3. CASE Accepts /\ QueueMessage(Greeting)
    <3>1. /\ writing' = TRUE /\ inflight' = inflight
          /\ posted' = IF writing THEN posted ELSE posted + 1
      BY <2>3
    <3>2. write_queue' # <<>>
      BY <2>3
    <3> QED BY <2>1, <2>2, <3>1, <3>2
  <2>4. CASE ~Accepts /\ QueueMessage(Greeting)
    <3>1. UNCHANGED writeVars
      BY <2>4 DEF writeVars
    <3> QED BY <2>1, <2>2, <3>1, <1>11 DEF Respond
  <2>5. CASE Reject
    BY <2>1, <2>5 DEF Reject
  <2> QED BY <1>11, <2>3, <2>4, <2>5 DEF Respond
<1> QED
  BY <1>1, <1>2, <1>3, <1>4, <1>5, <1>6, <1>7, <1>8, <1>9, <1>10, <1>11 DEF Next

\* A handler that ends has started the next read and left a wait pending, or
\* somebody has asked for the close; so no live session is destroyed.
LEMMA LiveSessionKept ==
  ASSUME TypeOK, Phases, Turns, Listens, DeadlineArmed, DestroyedIsClosing, [Next]_vars
  PROVE  Listens' /\ DeadlineArmed' /\ DestroyedIsClosing'
<1> USE DEF TypeOK, Phases, Turns, Listens, DeadlineArmed, DestroyedIsClosing, Joined,
           ReadPCs, Unreferenced, Cancelled, Rearmed, vars, connVars, writeVars, closeVars, regVars, dataVars
<1>1. CASE Continue /\ ~Respond
  BY <1>1
  DEF Continue, Run, DoRead, Authenticate, Rearm, StrandClose,
      CloseUnlessWriting, DoClose, FinishClose, LeaveAfterReadError
<1>2. CASE Accepted
  BY <1>2
  DEF Accepted, AcceptFails, AcceptSucceeds
<1>3. CASE Receive
  BY <1>3
  DEF Receive, ReceiveRefused, ReceiveHandshake, ReceiveDisconnect, ReceiveDropped,
      ReceiveAction, ReceiveReload, Received, ReadDone, Reject
<1>4. CASE ReadEnds
  BY <1>4
  DEF ReadEnds, ReadIgnored, ReadFails, ReadDone
<1>5. CASE DoWrite
  BY <1>5
  DEF DoWrite
<1>6. CASE WriteEnds
  BY <1>6
  DEF WriteEnds, WriteSucceeds, WriteFails, DoClose
<1>7. CASE TimerExpires \/ TimerErrors \/ TimerAgain \/ DeadlinePassed
  BY <1>7
  DEF TimerExpires, TimerErrors, TimerAgain, TimerStep, DeadlinePassed, Reject
<1>8. CASE CloseLambda \/ CloseHandshakeDone \/ PeerReads
  BY <1>8
  DEF CloseLambda, CloseUnlessWriting, DoClose, CloseHandshakeDone, PeerReads
<1>9. ASSUME NEW t \in Threads, External(t)
      PROVE  Listens' /\ DeadlineArmed' /\ DestroyedIsClosing'
  BY <1>9
  DEF External, Lookup, StopAll, ExternalSend, ExternalClose, PostClose, Release
<1>10. CASE Destroy \/ Gone \/ UNCHANGED vars
  BY <1>10
  DEF Destroy, Gone
<1>11. CASE Respond
  BY <1>11 DEF Respond, Reject
<1> QED
  BY <1>1, <1>2, <1>3, <1>4, <1>5, <1>6, <1>7, <1>8, <1>9, <1>10, <1>11 DEF Next

\* Only stop_all() takes a session that is not closed out of the map.
LEMMA LeftIsClosingKept ==
  ASSUME TypeOK, Phases, Turns, LeftIsClosing, [Next]_vars
  PROVE  LeftIsClosing'
<1> USE DEF TypeOK, Phases, Turns, LeftIsClosing, Joined, ReadPCs, Moves, vars, connVars, writeVars, closeVars, regVars, dataVars
<1>1. CASE Continue /\ ~Respond
  BY <1>1
  DEF Continue, Run, DoRead, Authenticate, Rearm, StrandClose,
      CloseUnlessWriting, DoClose, FinishClose, LeaveAfterReadError
<1>2. CASE Accepted
  BY <1>2
  DEF Accepted, AcceptFails, AcceptSucceeds
<1>3. CASE Receive
  BY <1>3
  DEF Receive, ReceiveRefused, ReceiveHandshake, ReceiveDisconnect, ReceiveDropped,
      ReceiveAction, ReceiveReload, Received, ReadDone, Reject
<1>4. CASE ReadEnds
  BY <1>4
  DEF ReadEnds, ReadIgnored, ReadFails, ReadDone
<1>5. CASE DoWrite
  BY <1>5
  DEF DoWrite
<1>6. CASE WriteEnds
  BY <1>6
  DEF WriteEnds, WriteSucceeds, WriteFails, DoClose
<1>7. CASE TimerExpires \/ TimerErrors \/ TimerAgain \/ DeadlinePassed
  BY <1>7
  DEF TimerExpires, TimerErrors, TimerAgain, TimerStep, DeadlinePassed, Reject
<1>8. CASE CloseLambda \/ CloseHandshakeDone \/ PeerReads
  BY <1>8
  DEF CloseLambda, CloseUnlessWriting, DoClose, CloseHandshakeDone, PeerReads
<1>9. ASSUME NEW t \in Threads, External(t)
      PROVE  LeftIsClosing'
  BY <1>9
  DEF External, Lookup, StopAll, ExternalSend, ExternalClose, PostClose, Release
<1>10. CASE Destroy \/ Gone \/ UNCHANGED vars
  BY <1>10
  DEF Destroy, Gone
<1>11. CASE Respond
  BY <1>11 DEF Respond, Reject
<1> QED
  BY <1>1, <1>2, <1>3, <1>4, <1>5, <1>6, <1>7, <1>8, <1>9, <1>10, <1>11 DEF Next

\* While memory lasts, whoever drops a requested close hands it to another, and
\* a session enters the map only with the id that takes it out again.
LEMMA ServedKept ==
  ASSUME TypeOK, Phases, Turns, WriteChain, PostedHasWork, Served, ~AllocFails,
         [Next]_vars
  PROVE  Served'
<1> USE DEF TypeOK, Phases, Turns, WriteChain, PostedHasWork, Served, CloseServed,
           ClosedLeavesMap, QueueMessage, Accepts, Joined, ReadPCs, Moves, vars, connVars, writeVars, closeVars, regVars, dataVars
<1>1. CASE Continue /\ ~Respond
  BY <1>1
  DEF Continue, Run, DoRead, Authenticate, Rearm, StrandClose,
      CloseUnlessWriting, DoClose, FinishClose, LeaveAfterReadError
<1>2. CASE Accepted
  BY <1>2
  DEF Accepted, AcceptFails, AcceptSucceeds
<1>3. CASE Receive
  BY <1>3
  DEF Receive, ReceiveRefused, ReceiveHandshake, ReceiveDisconnect, ReceiveDropped,
      ReceiveAction, ReceiveReload, Received, ReadDone, Reject
<1>4. CASE ReadEnds
  BY <1>4
  DEF ReadEnds, ReadIgnored, ReadFails, ReadDone
<1>5. CASE DoWrite
  BY <1>5
  DEF DoWrite
<1>6. CASE WriteEnds
  BY <1>6
  DEF WriteEnds, WriteSucceeds, WriteFails, DoClose
<1>7. CASE TimerExpires \/ TimerErrors \/ TimerAgain \/ DeadlinePassed
  BY <1>7
  DEF TimerExpires, TimerErrors, TimerAgain, TimerStep, DeadlinePassed, Reject
<1>8. CASE CloseLambda \/ CloseHandshakeDone \/ PeerReads
  BY <1>8
  DEF CloseLambda, CloseUnlessWriting, DoClose, CloseHandshakeDone, PeerReads
<1>9. ASSUME NEW t \in Threads, External(t)
      PROVE  Served'
  BY <1>9
  DEF External, Lookup, StopAll, ExternalSend, ExternalClose, PostClose, Release
<1>10. CASE Destroy \/ Gone \/ UNCHANGED vars
  BY <1>10
  DEF Destroy, Gone
<1>11. CASE Respond
  BY <1>11 DEF Respond, Reject
<1> QED
  BY <1>1, <1>2, <1>3, <1>4, <1>5, <1>6, <1>7, <1>8, <1>9, <1>10, <1>11 DEF Next

\* The invariant holds when the session is constructed.
LEMMA InductiveInit == Init => Inductive
  BY DEF Init, Inductive, Phases, Turns, WriteChain, PostedHasWork, QueueServed,
         Listens, DeadlineArmed, DestroyedIsClosing, LeftIsClosing, Served,
         CloseServed, ClosedLeavesMap, Joined, ReadPCs

\* The invariant holds for ever, whatever allocations fail among those whose
\* failure the code catches (the guards of all the handlers together).
THEOREM InductiveInvariant == Spec => []Inductive
<1>1. TypeOK /\ Inductive /\ [Next]_vars => Inductive'
  <2> SUFFICES ASSUME TypeOK, Inductive, [Next]_vars PROVE Inductive'
    OBVIOUS
  <2>1. /\ Phases /\ Turns /\ WriteChain /\ PostedHasWork /\ QueueServed /\ Listens
        /\ DeadlineArmed /\ DestroyedIsClosing /\ LeftIsClosing
        /\ ~AllocFails => Served
    BY DEF Inductive
  <2>2. Phases' /\ Turns'
    BY <2>1, PhasesKept, TurnsKept
  <2>3. WriteChain' /\ PostedHasWork' /\ QueueServed'
    BY <2>1, WriteChainKept
  <2>4. Listens' /\ DeadlineArmed' /\ DestroyedIsClosing'
    BY <2>1, LiveSessionKept
  <2>5. LeftIsClosing'
    BY <2>1, LeftIsClosingKept
  <2>6. ~AllocFails => Served'
    BY <2>1, ServedKept
  <2> QED BY <2>2, <2>3, <2>4, <2>5, <2>6 DEF Inductive
<1> QED BY InductiveInit, TypeCorrect, <1>1, PTL DEF Spec

-----------------------------------------------------------------------------
(* What follows                                                             *)

\* Two async_writes never overlap and writing_ tells the truth, for any number
\* of threads that send (queue_message, do_write, on_write).
THEOREM WriteChainAlways == Spec => []WriteChain
<1>1. Inductive => WriteChain
  BY DEF Inductive
<1> QED BY <1>1, InductiveInvariant, PTL

\* A queued message is always on its way (on_write's has_more), or memory has
\* failed in a session that is to close: do_write() has just given it up, or a
\* close() was asked for and its dispatch may have been lost.
THEOREM QueueServedAlways == Spec => []QueueServed
<1>1. Inductive => QueueServed
  BY DEF Inductive
<1> QED BY <1>1, InductiveInvariant, PTL

\* There is never a second async_read (on_accept, on_read, do_read).
THEOREM OneReadAlways == Spec => []OneRead
<1>1. Inductive => OneRead
  BY DEF Inductive, Turns, OneRead, ReadPCs
<1> QED BY <1>1, InductiveInvariant, PTL

\* A live session listens to its peer (the guards before do_read()).
THEOREM ListensAlways == Spec => []Listens
<1>1. Inductive => Listens
  BY DEF Inductive
<1> QED BY <1>1, InductiveInvariant, PTL

\* A live session has a deadline (check_deadline's re-arming).
THEOREM DeadlineArmedAlways == Spec => []DeadlineArmed
<1>1. Inductive => DeadlineArmed
  BY DEF Inductive
<1> QED BY <1>1, InductiveInvariant, PTL

\* The last handler never drops a live session (shared_from_this in each
\* operation, weak_from_this in close()).
THEOREM DestroyedIsClosingAlways == Spec => []DestroyedIsClosing
<1>1. Inductive => DestroyedIsClosing
  BY DEF Inductive
<1> QED BY <1>1, InductiveInvariant, PTL

\* An authenticated session is in the map unless stop_all() closes it.
THEOREM UnlistedIsClosingAlways == Spec => []UnlistedIsClosing
<1>1. Inductive => UnlistedIsClosing
  BY DEF Inductive, Phases, LeftIsClosing, UnlistedIsClosing, Joined
<1> QED BY <1>1, InductiveInvariant, PTL

\* While memory lasts no requested close is forgotten (close, on_write).
THEOREM CloseServedAlways ==
  ASSUME ~AllocFails
  PROVE  Spec => []CloseServed
<1>1. Inductive => CloseServed
  BY DEF Inductive, Served
<1> QED BY <1>1, InductiveInvariant, PTL

\* While memory lasts a closed session leaves the map (do_close, on_read).
THEOREM ClosedLeavesMapAlways ==
  ASSUME ~AllocFails
  PROVE  Spec => []ClosedLeavesMap
<1>1. Inductive => ClosedLeavesMap
  BY DEF Inductive, Served
<1> QED BY <1>1, InductiveInvariant, PTL

\* A closed session stays closed, whatever handler was under way.
THEOREM ClosedForEver == Spec => ClosedIsFinal
<1>1. TypeOK /\ Phases /\ [Next]_vars => (state = "closed" => state' = "closed")
  <2> SUFFICES ASSUME Phases, [Next]_vars, state = "closed"
               PROVE  state' = "closed"
    OBVIOUS
  <2> USE DEF vars, closeVars
  <2>1. CASE Continue
    BY <2>1
    DEF Continue, Run, DoRead, Respond, Authenticate, Rearm, StrandClose, Phases,
        CloseUnlessWriting, DoClose, FinishClose, LeaveAfterReadError
  <2>2. CASE Accepted \/ Receive \/ ReadEnds
    BY <2>2
    DEF Accepted, AcceptFails, AcceptSucceeds, Receive, ReceiveRefused,
        ReceiveHandshake, ReceiveDisconnect, ReceiveDropped, ReceiveAction,
        ReceiveReload, Received, ReadEnds, ReadIgnored, ReadFails
  <2>3. CASE DoWrite \/ WriteEnds
    BY <2>3 DEF DoWrite, WriteEnds, WriteSucceeds, WriteFails, DoClose
  <2>4. CASE TimerExpires \/ TimerErrors \/ TimerAgain \/ DeadlinePassed
    BY <2>4 DEF TimerExpires, TimerErrors, TimerAgain, TimerStep, DeadlinePassed
  <2>5. CASE CloseLambda \/ CloseHandshakeDone \/ PeerReads \/ Destroy \/ Gone
               \/ UNCHANGED vars
    BY <2>5
    DEF CloseLambda, CloseUnlessWriting, DoClose, CloseHandshakeDone, PeerReads,
        Destroy, Gone
  <2>6. ASSUME NEW t \in Threads, External(t)
        PROVE  state' = "closed"
    BY <2>6
    DEF External, Lookup, StopAll, ExternalSend, ExternalClose, PostClose, Release
  <2> QED BY <2>1, <2>2, <2>3, <2>4, <2>5, <2>6 DEF Next
<1>2. Inductive => Phases
  BY DEF Inductive
<1> QED BY <1>1, <1>2, TypeCorrect, InductiveInvariant, PTL DEF Spec, ClosedIsFinal

\* Where do_close() finds the session unclosed, the queue is drained: the lambda
\* sees writing_ down, on_write sees the queue empty.
LEMMA DrainStep ==
  ASSUME TypeOK, TypeOK', Inductive, ~AllocFails, [Next]_vars,
         ~close_initiated, close_initiated', state # "closed"
  PROVE  posted' + inflight' = 0 /\ write_queue' = <<>>
<1> USE DEF TypeOK, vars, closeVars, writeVars
<1>1. /\ posted + inflight <= 1 /\ (writing <=> posted + inflight = 1)
      /\ write_queue # <<>> => posted + inflight > 0
  BY DEF Inductive, WriteChain, QueueServed
<1>2. CASE StrandClose \/ CloseLambda
  <2>1. ~writing /\ UNCHANGED writeVars
    BY <1>2 DEF StrandClose, CloseLambda, CloseUnlessWriting
  <2>2. posted + inflight = 0
    BY <1>1, <2>1
  <2> QED BY <1>1, <2>1, <2>2
<1>3. CASE WriteSucceeds
  <2>1. inflight > 0 /\ inflight' = inflight - 1 /\ UNCHANGED write_queue
    BY <1>3 DEF WriteSucceeds
  <2>2. write_queue = <<>> /\ UNCHANGED posted
    BY <1>3 DEF WriteSucceeds
  <2>3. posted = 0 /\ inflight = 1
    BY <1>1, <2>1
  <2> QED BY <2>1, <2>2, <2>3
<1>4. CASE WriteFails
  BY <1>1, <1>4 DEF WriteFails
<1>5. CASE ~(StrandClose \/ CloseLambda \/ WriteSucceeds \/ WriteFails)
  <2>1. ~(close_initiated' /\ ~close_initiated)
    BY <1>5
    DEF Next, Continue, Run, DoRead, Respond, Authenticate, Rearm, FinishClose,
        LeaveAfterReadError, Accepted, AcceptFails, AcceptSucceeds, Receive,
        ReceiveRefused, ReceiveHandshake, ReceiveDisconnect, ReceiveDropped,
        ReceiveAction, ReceiveReload, Received, ReadEnds, ReadIgnored, ReadFails,
        DoWrite, WriteEnds, TimerExpires, TimerErrors, TimerAgain, TimerStep,
        DeadlinePassed, CloseHandshakeDone, PeerReads, Destroy, Gone, External, Lookup,
        StopAll, ExternalSend, ExternalClose, PostClose, Release
  <2> QED BY <2>1
<1> QED BY <1>2, <1>3, <1>4, <1>5

\* While memory lasts, what was queued is written before the close frame.
THEOREM DrainedBeforeClose ==
  ASSUME ~AllocFails
  PROVE  Spec => DrainBeforeClose
<1>1. TypeOK /\ TypeOK' /\ Inductive /\ [Next]_vars =>
        (~close_initiated /\ close_initiated' /\ state # "closed"
           => posted' + inflight' = 0 /\ write_queue' = <<>>)
  BY DrainStep
<1> QED
  BY <1>1, TypeCorrect, InductiveInvariant, PTL DEF Spec, DrainBeforeClose

-----------------------------------------------------------------------------
(* The stack the peer was last told                                         *)

\* Queueing a RELOAD_RESPONSE and committing its stack agree.
LEMMA AnnounceReload ==
  ASSUME NEW q \in Seq(Messages), NEW n \in 0..MaxStack
  PROVE  Announces(Append(q, Reloaded(n)), n)
<1> DEFINE r == Append(q, Reloaded(n))
<1>1. /\ Len(r) = Len(q) + 1 /\ Len(q) \in Nat
      /\ r[Len(q) + 1] = Reloaded(n)
  BY DEF Messages
<1> HIDE DEF r
<1> SUFFICES ASSUME NEW i \in 1..Len(r),
                    \A j \in i+1..Len(r) : r[j].type # "RELOAD_RESPONSE"
             PROVE  r[i].new_stack = n
  BY DEF Announces, r
<1>2. CASE i = Len(r)
  BY <1>1, <1>2 DEF Reloaded
<1>3. CASE i # Len(r)
  <2>1. Len(r) \in i+1..Len(r)
    BY <1>1, <1>3
  <2> QED BY <1>1, <2>1 DEF Reloaded
<1> QED BY <1>2, <1>3

\* Any other message leaves the last announcement the last.
LEMMA AnnounceOther ==
  ASSUME NEW q \in Seq(Messages), NEW m \in Messages, NEW n,
         m.type # "RELOAD_RESPONSE", Announces(q, n)
  PROVE  Announces(Append(q, m), n)
<1> DEFINE r == Append(q, m)
<1>1. /\ Len(r) = Len(q) + 1 /\ Len(q) \in Nat /\ r[Len(q) + 1] = m
      /\ \A i \in 1..Len(q) : r[i] = q[i]
  OBVIOUS
<1> HIDE DEF r
<1> SUFFICES ASSUME NEW i \in 1..Len(r), r[i].type = "RELOAD_RESPONSE",
                    \A j \in i+1..Len(r) : r[j].type # "RELOAD_RESPONSE"
             PROVE  r[i].new_stack = n
  BY DEF Announces, r
<1>2. i \in 1..Len(q)
  BY <1>1
<1>3. \A j \in i+1..Len(q) : q[j].type # "RELOAD_RESPONSE"
  <2> SUFFICES ASSUME NEW j \in i+1..Len(q) PROVE q[j].type # "RELOAD_RESPONSE"
    OBVIOUS
  <2>1. j \in i+1..Len(r) /\ j \in 1..Len(q)
    BY <1>1, <1>2
  <2> QED BY <1>1, <2>1
<1> QED BY <1>1, <1>2, <1>3 DEF Announces

\* So does writing the first message.
LEMMA AnnounceTail ==
  ASSUME NEW q \in Seq(Messages), q # <<>>, NEW n, Announces(q, n)
  PROVE  Announces(Tail(q), n)
<1> DEFINE r == Tail(q)
<1>1. /\ Len(r) = Len(q) - 1 /\ Len(r) \in Nat /\ Len(q) \in Nat
      /\ \A i \in 1..Len(r) : r[i] = q[i + 1]
  OBVIOUS
<1> HIDE DEF r
<1> SUFFICES ASSUME NEW i \in 1..Len(r), r[i].type = "RELOAD_RESPONSE",
                    \A j \in i+1..Len(r) : r[j].type # "RELOAD_RESPONSE"
             PROVE  r[i].new_stack = n
  BY DEF Announces, r
<1>2. i + 1 \in 1..Len(q) /\ q[i + 1] = r[i]
  BY <1>1
<1>3. \A j \in (i + 1)+1..Len(q) : q[j].type # "RELOAD_RESPONSE"
  <2> SUFFICES ASSUME NEW j \in (i + 1)+1..Len(q)
               PROVE  q[j].type # "RELOAD_RESPONSE"
    OBVIOUS
  <2>1. j - 1 \in i+1..Len(r) /\ j - 1 \in 1..Len(r) /\ (j - 1) + 1 = j
    BY <1>1
  <2>2. r[j - 1] = q[(j - 1) + 1]
    BY <1>1, <2>1
  <2> QED BY <2>1, <2>2
<1> QED BY <1>2, <1>3 DEF Announces

\* queue_message() of anything but a reload response.
LEMMA QueueOther ==
  ASSUME TypeOK, LastReloadIsStack, NEW m \in Messages,
         m.type # "RELOAD_RESPONSE", QueueMessage(m)
  PROVE  Announces(write_queue', current_stack)
<1>1. CASE Accepts
  <2>1. write_queue' = Append(write_queue, m)
    BY <1>1 DEF QueueMessage
  <2> QED BY <2>1, AnnounceOther DEF LastReloadIsStack, TypeOK
<1>2. CASE ~Accepts
  BY <1>2 DEF QueueMessage, writeVars, LastReloadIsStack
<1> QED BY <1>1, <1>2

\* An error message does not touch what was announced.
LEMMA RejectKeepsStack ==
  ASSUME TypeOK, LastReloadIsStack, Reject
  PROVE  Announces(write_queue', current_stack)
<1>1. Refusal \in Messages /\ Refusal.type # "RELOAD_RESPONSE"
  BY DEF Messages, Refusal
<1>2. CASE QueueMessage(Refusal)
  BY <1>1, <1>2, QueueOther
<1>3. CASE UNCHANGED writeVars
  BY <1>3 DEF writeVars, LastReloadIsStack
<1> QED BY <1>2, <1>3 DEF Reject

\* The stack the server holds is the one it last announced, as long as the
\* announcement waits to be written (handle_reload_msg).
THEOREM LastReloadAlways == Spec => []LastReloadIsStack
<1>1. Init => LastReloadIsStack
  BY DEF Init, LastReloadIsStack, Announces
<1>2. TypeOK /\ LastReloadIsStack /\ [Next]_vars => LastReloadIsStack'
  <2> SUFFICES ASSUME TypeOK, LastReloadIsStack, [Next]_vars
               PROVE  Announces(write_queue', current_stack')
    BY DEF LastReloadIsStack, Announces
  <2> USE DEF vars, dataVars, writeVars
  <2>1. ASSUME UNCHANGED <<write_queue, current_stack>>
        PROVE  Announces(write_queue', current_stack')
    BY <2>1 DEF LastReloadIsStack
  <2>2. CASE Respond
    <3>1. Greeting \in Messages /\ Greeting.type # "RELOAD_RESPONSE"
      BY DEF Messages, Greeting
    <3> QED BY <2>2, <3>1, QueueOther, RejectKeepsStack DEF Respond
  <2>3. CASE Continue /\ ~Respond
    BY <2>1, <2>3
    DEF Continue, Run, DoRead, Authenticate, Rearm, StrandClose, FinishClose,
        LeaveAfterReadError
  <2>4. CASE Accepted \/ ReadEnds
    BY <2>1, <2>4
    DEF Accepted, AcceptFails, AcceptSucceeds, ReadEnds, ReadIgnored, ReadFails
  <2>5. CASE ReceiveRefused \/ DeadlinePassed
    BY <2>1, <2>5, RejectKeepsStack DEF ReceiveRefused, DeadlinePassed
  <2>6. CASE ReceiveHandshake
    BY <2>1, <2>6, RejectKeepsStack DEF ReceiveHandshake
  <2>7. CASE ReceiveDisconnect \/ ReceiveDropped
    BY <2>1, <2>7 DEF ReceiveDisconnect, ReceiveDropped
  <2>8. ASSUME NEW seq \in SeqNumbers, ReceiveAction(seq)
        PROVE  Announces(write_queue', current_stack')
    BY <2>1, <2>8, RejectKeepsStack DEF ReceiveAction
  <2>9. ASSUME NEW amount \in Amounts, ReceiveReload(amount)
        PROVE  Announces(write_queue', current_stack')
    <3> DEFINE new_stack == Lesser(current_stack + amount, MaxStack)
    <3>1. new_stack \in 0..MaxStack
      BY LesserInRange, SessionAssumption DEF SessionAssumption, TypeOK
    <3>2. CASE Accepts
      <4>1. write_queue' = Append(write_queue, Reloaded(new_stack))
        BY <2>9, <3>2 DEF ReceiveReload, QueueMessage
      <4>2. current_stack' = new_stack
        BY <2>9, <3>2 DEF ReceiveReload
      <4> QED BY <3>1, <4>1, <4>2, AnnounceReload DEF TypeOK
    <3>3. CASE ~Accepts
      BY <2>1, <2>9, <3>3 DEF ReceiveReload, QueueMessage
    <3> QED BY <3>2, <3>3
  <2>10. CASE DoWrite
    <3>1. CASE write_queue' = Tail(write_queue) /\ write_queue # <<>>
      BY <2>10, <3>1, AnnounceTail DEF DoWrite, LastReloadIsStack, TypeOK
    <3>2. CASE UNCHANGED write_queue
      BY <2>1, <2>10, <3>2 DEF DoWrite
    <3> QED BY <2>10, <3>1, <3>2 DEF DoWrite
  <2>11. CASE WriteSucceeds
    BY <2>1, <2>11 DEF WriteSucceeds
  <2>12. CASE WriteFails
    BY <2>12 DEF WriteFails, Announces
  <2>13. CASE TimerExpires \/ TimerErrors \/ TimerAgain
    BY <2>1, <2>13 DEF TimerExpires, TimerErrors, TimerAgain, TimerStep
  <2>14. CASE CloseLambda \/ CloseHandshakeDone \/ PeerReads \/ Destroy \/ Gone
                \/ UNCHANGED vars
    BY <2>1, <2>14 DEF CloseLambda, CloseHandshakeDone, PeerReads, Destroy, Gone
  <2>15. ASSUME NEW t \in Threads, External(t)
         PROVE  Announces(write_queue', current_stack')
    <3>1. CASE ExternalSend(t)
      <4>1. Push \in Messages /\ Push.type # "RELOAD_RESPONSE"
        BY DEF Messages, Push
      <4> QED BY <3>1, <4>1, QueueOther DEF ExternalSend
    <3>2. CASE ~ExternalSend(t)
      BY <2>1, <2>15, <3>2
      DEF External, Lookup, StopAll, ExternalClose, PostClose, Release
    <3> QED BY <3>1, <3>2
  <2> QED
    BY <2>2, <2>3, <2>4, <2>5, <2>6, <2>7, <2>8, <2>9, <2>10, <2>11, <2>12,
       <2>13, <2>14, <2>15
    DEF Next, Receive, WriteEnds
<1> QED BY <1>1, <1>2, TypeCorrect, PTL DEF Spec
=============================================================================
