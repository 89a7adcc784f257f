------------------------------ MODULE Session ------------------------------
(***************************************************************************)
(* One websocket_session of the cppsim server (src/server/                 *)
(* websocket_session.cpp) with everything that can touch it: its strand,   *)
(* the threads that reach it through the connection manager, its peer, its *)
(* deadline timer and the asynchronous operations it has started.          *)
(*                                                                         *)
(* A handler of the strand runs in one step up to the next point where     *)
(* another thread can see or change what it reads next; `pc` names that    *)
(* point.  Handlers start only when pc = "idle", so they never overlap     *)
(* each other, but the steps of other threads fall between any two steps.  *)
(* Handlers that are ready are run in any order.                           *)
(***************************************************************************)
EXTENDS Naturals, Integers, Sequences

CONSTANTS
  Threads,      \* threads outside the strand that call send(), close(), stop_all()
  MaxQueue,     \* config::MAX_WRITE_QUEUE_SIZE
  MaxStack,     \* protocol::MAX_AMOUNT
  Amounts,      \* values of RELOAD_REQUEST.requested_amount
  SeqNumbers,   \* values of ACTION.sequence_number
  MaxGap,       \* the configured max_sequence_gap
  SendBuffer,   \* the messages the transport takes from us before the peer reads
  TimerFails,   \* TRUE: a timer wait may end with an error of its own
  AllocFails    \* TRUE: memory allocation may fail where the code survives it

ASSUME SessionAssumption ==
  /\ MaxQueue \in Nat \ {0}
  /\ MaxStack \in Nat
  /\ Amounts \subseteq Nat \ {0}
  /\ SeqNumbers \subseteq Nat
  /\ MaxGap \in Nat \ {0}
  /\ SendBuffer \in Nat \ {0}
  /\ TimerFails \in BOOLEAN /\ AllocFails \in BOOLEAN

VARIABLES
  state,           \* state_
  close_requested, \* close_requested_
  close_initiated, \* close_initiated_
  writing,         \* writing_: the flag that says a write chain is running
  posted,          \* how many do_write() calls wait for the strand
  inflight,        \* how many async_writes are outstanding
  write_queue,     \* write_queue_
  accepting,       \* async_accept outstanding
  reads,           \* how many async_reads are outstanding
  timer,           \* the async_wait on deadline_
  stream,          \* the WebSocket stream as the server sees it
  unread,          \* how much of what was written the peer has not read
  has_id,          \* session_id_ is not empty
  registered,      \* the connection manager's map holds this session
  close_posted,    \* a lambda dispatched by close() waits for the strand
  ext,             \* where each outside thread is in its use of the session
  pc,              \* where the running handler of the strand is
  last_seq,        \* last_sequence_number_
  current_stack,   \* current_stack_
  alive            \* the object has not been destroyed

connVars   == <<accepting, reads, stream, unread, alive>>
writeVars  == <<writing, posted, inflight, write_queue>>
closeVars  == <<state, close_requested, close_initiated, close_posted>>
regVars    == <<has_id, registered>>
dataVars   == <<last_seq, current_stack>>
vars == <<connVars, writeVars, closeVars, regVars, dataVars, timer, ext, pc>>

States   == {"unauthenticated", "authenticated", "closed"}
TimerPCs == {"off", "waiting", "aborted", "error", "fired", "stale"}
StrandPCs == {"constructed", "idle", "registered", "responded", "rearm",
              "reading", "closing", "dropped", "closedTcp", "closedWs"}
ExtPCs   == {"idle", "holding", "stopping", "flagged"}

Reloaded(n) == [type |-> "RELOAD_RESPONSE", new_stack |-> n]
Greeting    == [type |-> "HANDSHAKE_RESPONSE"]
Refusal     == [type |-> "ERROR"]
Push        == [type |-> "PUSH"]     \* whatever another thread sends
Messages    == {Greeting, Refusal, Push} \cup {Reloaded(n) : n \in 0..MaxStack}

Lesser(a, b) == IF a <= b THEN a ELSE b

Init ==
  /\ state = "unauthenticated"
  /\ close_requested = FALSE /\ close_initiated = FALSE /\ close_posted = FALSE
  /\ writing = FALSE /\ posted = 0 /\ inflight = 0 /\ write_queue = <<>>
  /\ accepting = FALSE /\ reads = 0
  /\ timer = "off" /\ stream = "connecting" /\ unread = 0
  /\ has_id = FALSE /\ registered = FALSE
  /\ ext = [t \in Threads |-> "idle"] /\ pc = "constructed"
  /\ last_seq = -1 /\ current_stack = 0
  /\ alive = TRUE

-----------------------------------------------------------------------------
(* The timer.  Cancelling completes a pending wait with operation_aborted;  *)
(* a wait that has already completed keeps its result, and its handler will *)
(* still see success.  "stale" is such a success whose deadline has since   *)
(* been moved.                                                              *)

Cancelled(t) == IF t = "waiting" THEN "aborted" ELSE t
Rearmed(t)   == IF t = "fired" THEN "stale" ELSE Cancelled(t)

-----------------------------------------------------------------------------
(* Sending                                                                  *)

\* Mutant: the limit is tested with > instead of >=.
Accepts_OneTooMany ==
  state # "closed" /\ ~close_requested /\ Len(write_queue) <= MaxQueue

Accepts ==
  /\ state # "closed"
  /\ ~close_requested
  /\ Len(write_queue) < MaxQueue

\* Mutant: every message posts a do_write of its own.
QueueMessage_AlwaysPosts(m) ==
  IF Accepts
  THEN /\ write_queue' = Append(write_queue, m)
       /\ writing' = TRUE /\ posted' = posted + 1 /\ UNCHANGED inflight
  ELSE UNCHANGED writeVars

\* queue_message(m): refused, or queued with a write chain to serve it.
QueueMessage(m) ==
  IF Accepts
  THEN /\ write_queue' = Append(write_queue, m)
       /\ writing' = TRUE
       /\ posted' = IF writing THEN posted ELSE posted + 1
       /\ UNCHANGED inflight
  ELSE UNCHANGED writeVars

\* Mutant: the error is sent and the close() after it forgotten.
Reject_NoClose == QueueMessage(Refusal) /\ pc' = "idle"

\* send_protocol_error(...) followed by close(), which is the next step.
Reject ==
  /\ \/ QueueMessage(Refusal)
     \/ AllocFails /\ UNCHANGED writeVars    \* the message could not be built
  /\ pc' = "closing"

-----------------------------------------------------------------------------
(* Closing                                                                  *)

\* do_close() up to the point where the map is changed.  The two guards and
\* the state exchange are one step; `unregister and close the socket` follow.
DoClose ==
  /\ close_initiated' = TRUE
  /\ IF close_initiated \/ state = "closed"
     THEN pc' = "idle" /\ UNCHANGED <<state, timer>>
     ELSE /\ state' = "closed"
          /\ timer' = Cancelled(timer)
          /\ pc' = IF state = "unauthenticated" THEN "closedTcp" ELSE "closedWs"

\* Mutant: the lambda does not look at writing_.
CloseUnlessWriting_AtOnce == DoClose

\* The body of the lambda dispatched by close(): a running write chain is
\* left to finish, and its last on_write closes.
CloseUnlessWriting ==
  IF writing
  THEN pc' = "idle" /\ UNCHANGED <<state, timer, close_initiated>>
  ELSE DoClose

\* close() called on the strand: the dispatch runs the lambda at once, or
\* throws, and close() swallows that with its flag set and nothing done.
StrandClose ==
  /\ pc = "closing"
  /\ close_requested' = TRUE
  /\ IF state = "closed"
     THEN pc' = "idle" /\ UNCHANGED <<state, timer, close_initiated>>
     ELSE \/ CloseUnlessWriting
          \/ AllocFails /\ pc' = "idle" /\ UNCHANGED <<state, timer, close_initiated>>
  /\ UNCHANGED <<connVars, writeVars, regVars, dataVars, close_posted, ext>>

\* The lambda posted by a close() on another thread reaches the strand.
CloseLambda ==
  /\ alive /\ pc = "idle" /\ close_posted
  /\ close_posted' = FALSE
  /\ CloseUnlessWriting
  /\ UNCHANGED <<connVars, writeVars, regVars, dataVars, close_requested, ext>>

\* do_close()'s last part: the TCP socket is closed if prev_state was
\* unauthenticated or async_close() throws, else the close handshake starts.
ClosesStream ==
  stream' \in IF pc = "closedTcp" \/ stream # "open" THEN {"shut"}
             ELSE {"closing"} \cup (IF AllocFails THEN {"shut"} ELSE {})

\* Mutant: only an authenticated session is taken out of the map.
FinishClose_KeepsGuest ==
  /\ pc \in {"closedTcp", "closedWs"}
  /\ registered' = (registered /\ ~(pc = "closedWs" /\ has_id))
  /\ ClosesStream
  /\ pc' = "idle"
  /\ UNCHANGED <<unread, accepting, reads, alive, writeVars, closeVars, dataVars,
                 has_id, timer, ext>>

\* Mutant: no return after the close() in handle_handshake_message().
FinishClose_HandshakeGoesOn ==
  /\ pc \in {"closedTcp", "closedWs"}
  /\ registered' = (registered /\ ~has_id)
  /\ ClosesStream
  /\ pc' = IF pc = "closedTcp" /\ has_id THEN "responded" ELSE "idle"
  /\ UNCHANGED <<unread, accepting, reads, alive, writeVars, closeVars, dataVars,
                 has_id, timer, ext>>

\* The rest of do_close(): leave the map, then close the TCP socket of a
\* session that never authenticated, or start the WebSocket close handshake.
FinishClose ==
  /\ pc \in {"closedTcp", "closedWs"}
  /\ IF has_id
     THEN \/ registered' = FALSE
          \/ AllocFails /\ UNCHANGED registered   \* the copy of the id is empty
     ELSE UNCHANGED registered
  /\ ClosesStream
  /\ pc' = "idle"
  /\ UNCHANGED <<unread, accepting, reads, alive, writeVars, closeVars, dataVars,
                 has_id, timer, ext>>

\* async_close completes, successfully or with an error and a TCP close.
CloseHandshakeDone ==
  /\ stream = "closing" /\ pc = "idle"
  /\ stream' = "shut"
  /\ UNCHANGED <<unread, accepting, reads, alive, writeVars, closeVars, regVars,
                 dataVars, timer, ext, pc>>

-----------------------------------------------------------------------------
(* Starting                                                                 *)

\* Mutant: run() does not start the deadline.
Run_NoDeadline ==
  /\ pc = "constructed" /\ pc' = "idle" /\ accepting' = TRUE
  /\ UNCHANGED <<unread, reads, stream, alive, writeVars, closeVars, regVars, dataVars,
                 timer, ext>>

\* run(): arm the handshake deadline and start async_accept.
Run ==
  /\ pc = "constructed"
  /\ pc' = "idle"
  /\ \/ /\ timer' = "waiting"
        /\ accepting' = TRUE
        /\ UNCHANGED state
     \/ /\ AllocFails                  \* an exception, before or after the wait
        /\ timer' \in {"off", "aborted"}
        /\ state' = "closed"
        /\ UNCHANGED accepting
  /\ UNCHANGED <<unread, reads, stream, alive, writeVars, close_requested,
                 close_initiated, close_posted, regVars, dataVars, ext>>

\* on_accept(ec) with an error.
AcceptFails ==
  /\ alive /\ pc = "idle" /\ accepting
  /\ accepting' = FALSE
  /\ IF state = "closed"
     THEN UNCHANGED <<state, timer>>
     ELSE state' = "closed" /\ timer' = Cancelled(timer)
  /\ stream' = "shut"
  /\ UNCHANGED <<unread, reads, alive, writeVars, close_requested, close_initiated,
                 close_posted, regVars, dataVars, ext, pc>>

\* on_accept() without an error; if its log line or do_read() throws, it closes.
AcceptSucceeds ==
  /\ alive /\ pc = "idle" /\ accepting /\ stream = "connecting"
  /\ accepting' = FALSE
  /\ stream' = "open"
  /\ IF state = "closed" \/ close_requested
     THEN pc' = "idle"
     ELSE pc' \in {"reading"} \cup (IF AllocFails THEN {"closing"} ELSE {})
  /\ UNCHANGED <<unread, reads, alive, writeVars, closeVars, regVars, dataVars,
                 timer, ext>>

\* do_read(): its own guard, then async_read.
DoRead ==
  /\ pc = "reading"
  /\ reads' = IF state = "closed" \/ close_requested THEN reads ELSE reads + 1
  /\ pc' = "idle"
  /\ UNCHANGED <<unread, accepting, stream, alive, writeVars, closeVars, regVars,
                 dataVars, timer, ext>>

-----------------------------------------------------------------------------
(* Reading: on_read and the handlers it calls                               *)

ReadDone ==
  /\ alive /\ pc = "idle" /\ reads > 0
  /\ reads' = reads - 1

\* on_read on a session that was closed meanwhile.
ReadIgnored ==
  /\ ReadDone /\ state = "closed"
  /\ UNCHANGED <<unread, accepting, stream, alive, writeVars, closeVars, regVars,
                 dataVars, timer, ext, pc>>

\* on_read with an error or the peer's close frame.
ReadFails ==
  /\ ReadDone /\ state # "closed"
  /\ state' = "closed"
  /\ timer' = Cancelled(timer)
  /\ stream' = "shut"
  /\ \/ pc' = IF has_id THEN "dropped" ELSE "idle"
     \/ AllocFails /\ pc' = "idle"      \* logging threw before unregister
  /\ UNCHANGED <<unread, accepting, alive, writeVars, close_requested, close_initiated,
                 close_posted, regVars, dataVars, ext>>

\* unregister_session() at the end of that path.
LeaveAfterReadError ==
  /\ pc = "dropped"
  /\ registered' = FALSE
  /\ pc' = "idle"
  /\ UNCHANGED <<connVars, writeVars, closeVars, has_id, dataVars, timer, ext>>

\* A message to handle.  close_requested is not looked at here.
Received ==
  /\ ReadDone /\ state # "closed"
  /\ UNCHANGED <<unread, accepting, stream, alive, closeVars, timer, ext>>

\* Over the rate limit, in a suspicious burst, or not what this state expects:
\* a bad or incompatible handshake, a refused registration, an unknown type,
\* a body that does not parse, another session's id.
ReceiveRefused ==
  /\ Received
  /\ Reject
  /\ UNCHANGED <<regVars, dataVars>>

\* Mutant: a second handshake is handled like the first.
ReceiveHandshake_AnyState ==
  /\ Received
  /\ registered' = TRUE /\ pc' = "registered"
  /\ UNCHANGED <<writeVars, has_id, dataVars>>

\* handle_handshake_message() up to the return of register_session().
ReceiveHandshake ==
  /\ Received /\ state = "unauthenticated"
  /\ registered' = TRUE
  /\ \/ pc' = "registered" /\ UNCHANGED writeVars
     \/ AllocFails /\ Reject            \* threw after the insertion
  /\ UNCHANGED <<has_id, dataVars>>

\* Store the id and queue the response, or close if it cannot be queued.  If
\* the id's copy, the response or a log line throws, on_read() sends an error.
Respond ==
  /\ pc = "registered"
  /\ \/ /\ has_id' = TRUE
        /\ QueueMessage(Greeting)
        /\ pc' = IF Accepts THEN "responded" ELSE "closing"
     \/ AllocFails /\ has_id' \in {has_id, TRUE} /\ Reject
  /\ UNCHANGED <<connVars, closeVars, registered, dataVars, timer, ext>>

\* state_.store(authenticated).
Authenticate ==
  /\ pc = "responded"
  /\ state' = "authenticated"
  /\ pc' = "rearm"
  /\ UNCHANGED <<connVars, writeVars, close_requested, close_initiated,
                 close_posted, regVars, dataVars, timer, ext>>

\* handle_action() for an ACTION that parses and carries this session's id.
ReceiveAction(seq) ==
  /\ Received /\ state = "authenticated"
  /\ IF seq <= last_seq \/ seq - last_seq > MaxGap
     THEN Reject /\ UNCHANGED last_seq
     ELSE last_seq' = seq /\ pc' = "rearm" /\ UNCHANGED writeVars
  /\ UNCHANGED <<regVars, current_stack>>

\* Mutant: the stack changes whether or not the response was queued.
ReceiveReload_CommitsFirst(amount) ==
  LET new_stack == Lesser(current_stack + amount, MaxStack)
  IN /\ Received /\ state = "authenticated"
     /\ QueueMessage(Reloaded(new_stack))
     /\ current_stack' = new_stack
     /\ pc' = IF Accepts THEN "rearm" ELSE "closing"
     /\ UNCHANGED <<regVars, last_seq>>

\* handle_reload_msg(): the stack changes only if the response was queued.
ReceiveReload(amount) ==
  LET new_stack == Lesser(current_stack + amount, MaxStack)
  IN /\ Received /\ state = "authenticated"
     /\ QueueMessage(Reloaded(new_stack))
     /\ IF Accepts
        THEN current_stack' = new_stack /\ pc' = "rearm"
        ELSE pc' = "closing" /\ UNCHANGED current_stack
     /\ UNCHANGED <<regVars, last_seq>>

\* handle_disconnect_msg().
ReceiveDisconnect ==
  /\ Received /\ state = "authenticated"
  /\ pc' = "closing"
  /\ UNCHANGED <<writeVars, regVars, dataVars>>

\* validate_session_id() swallowed an exception: the message is dropped.
ReceiveDropped ==
  /\ AllocFails
  /\ Received /\ state = "authenticated"
  /\ pc' = "rearm"
  /\ UNCHANGED <<writeVars, regVars, dataVars>>

\* The guard at the end of on_read: a live session moves its deadline and reads.
Rearm ==
  /\ pc = "rearm"
  /\ IF state = "closed" \/ close_requested
     THEN pc' = "idle" /\ UNCHANGED timer
     ELSE pc' = "reading" /\ timer' = Rearmed(timer)
  /\ UNCHANGED <<connVars, writeVars, closeVars, regVars, dataVars, ext>>

-----------------------------------------------------------------------------
(* Writing                                                                  *)

\* Mutant: after a failed allocation writing_ stays set.
DoWrite_KeepsFlag ==
  /\ pc = "idle" /\ posted > 0
  /\ posted' = posted - 1
  /\ IF state = "closed" \/ write_queue = <<>>
     THEN writing' = FALSE /\ UNCHANGED <<inflight, write_queue, pc>>
     ELSE /\ write_queue' = Tail(write_queue)
          /\ \/ inflight' = inflight + 1 /\ UNCHANGED <<writing, pc>>
             \/ AllocFails /\ pc' = "closing" /\ UNCHANGED <<inflight, writing>>
  /\ UNCHANGED <<connVars, closeVars, regVars, dataVars, timer, ext>>

\* do_write().
DoWrite ==
  /\ pc = "idle" /\ posted > 0
  /\ posted' = posted - 1
  /\ IF state = "closed" \/ write_queue = <<>>
     THEN writing' = FALSE /\ UNCHANGED <<inflight, write_queue, pc>>
     ELSE /\ write_queue' = Tail(write_queue)
          /\ \/ inflight' = inflight + 1 /\ UNCHANGED <<writing, pc>>
             \/ /\ AllocFails           \* the popped message is lost
                /\ writing' = FALSE /\ pc' = "closing" /\ UNCHANGED inflight
  /\ UNCHANGED <<connVars, closeVars, regVars, dataVars, timer, ext>>

\* Mutant: on_write() writes on only while no close was asked for.
WriteSucceeds_StopsEarly ==
  /\ pc = "idle" /\ inflight > 0 /\ unread < SendBuffer
  /\ inflight' = inflight - 1 /\ unread' = unread + 1
  /\ writing' = (write_queue # <<>> /\ ~close_requested)
  /\ posted' = IF writing' THEN posted + 1 ELSE posted
  /\ IF write_queue = <<>> /\ close_requested
     THEN DoClose
     ELSE UNCHANGED <<state, close_initiated, timer, pc>>
  /\ UNCHANGED <<accepting, reads, stream, alive, write_queue, close_requested, close_posted,
                 regVars, dataVars, ext>>

\* Mutant: on_write() leaves the close to the lambda.
WriteSucceeds_NeverCloses ==
  /\ pc = "idle" /\ inflight > 0 /\ unread < SendBuffer
  /\ inflight' = inflight - 1 /\ unread' = unread + 1
  /\ writing' = (write_queue # <<>>)
  /\ posted' = IF writing' THEN posted + 1 ELSE posted
  /\ UNCHANGED <<accepting, reads, stream, alive, closeVars, write_queue, regVars, dataVars, timer, ext, pc>>

\* on_write() without an error: the transport had room for the message.
WriteSucceeds ==
  /\ pc = "idle" /\ inflight > 0 /\ unread < SendBuffer
  /\ inflight' = inflight - 1 /\ unread' = unread + 1
  /\ IF write_queue # <<>>
     THEN /\ writing' = TRUE
          /\ \/ posted' = posted + 1 /\ UNCHANGED <<state, close_initiated, timer, pc>>
             \/ AllocFails /\ UNCHANGED posted /\ DoClose    \* the post threw
     ELSE /\ writing' = FALSE /\ UNCHANGED posted
          /\ IF close_requested
             THEN DoClose
             ELSE UNCHANGED <<state, close_initiated, timer, pc>>
  /\ UNCHANGED <<accepting, reads, stream, alive, write_queue, close_requested, close_posted,
                 regVars, dataVars, ext>>

\* on_write() with an error: what is queued is dropped.
WriteFails ==
  /\ pc = "idle" /\ inflight > 0
  /\ inflight' = inflight - 1
  /\ writing' = FALSE /\ write_queue' = <<>>
  /\ close_requested' = TRUE
  /\ DoClose
  /\ UNCHANGED <<connVars, posted, close_posted, regVars, dataVars, ext>>

\* The peer reads a message, which makes room for another.
PeerReads ==
  /\ unread > 0 /\ unread' = unread - 1
  /\ UNCHANGED <<accepting, reads, stream, alive, writeVars, closeVars, regVars,
                 dataVars, timer, ext, pc>>

-----------------------------------------------------------------------------
(* The deadline                                                             *)

TimerStep(from, to) ==
  /\ timer = from /\ timer' = to
  /\ UNCHANGED <<connVars, writeVars, closeVars, regVars, dataVars, ext, pc>>

\* The wait completes: its handler is now queued with the result.
TimerExpires == TimerStep("waiting", "fired")
TimerErrors  == TimerFails /\ TimerStep("waiting", "error")

\* Mutant: a cancelled wait is not started again.
TimerAgain_Never ==
  /\ alive /\ pc = "idle"
  /\ \E t \in {"aborted", "error"} : TimerStep(t, "off")

\* The handler of a wait that was cancelled or failed: wait again if alive.
TimerAgain ==
  /\ alive /\ pc = "idle"
  /\ \E t \in {"aborted", "error"} :
       TimerStep(t, IF state # "closed" /\ ~close_requested THEN "waiting" ELSE "off")

\* The handler of a wait that expired: handshake timeout or idle timeout.
DeadlinePassed ==
  /\ alive /\ pc = "idle" /\ timer \in {"fired", "stale"}
  /\ timer' = "off"
  /\ IF state = "closed" THEN UNCHANGED <<writeVars, pc>> ELSE Reject
  /\ UNCHANGED <<connVars, closeVars, regVars, dataVars, ext>>

-----------------------------------------------------------------------------
(* Outside threads                                                          *)

Moves(t, from, to) == ext[t] = from /\ ext' = [ext EXCEPT ![t] = to]

\* get_session().
Lookup(t) ==
  /\ registered /\ Moves(t, "idle", "holding")
  /\ UNCHANGED <<connVars, writeVars, closeVars, regVars, dataVars, timer, pc>>

\* stop_all() has swapped the map out and is about to close its sessions.
StopAll(t) ==
  /\ registered /\ Moves(t, "idle", "stopping")
  /\ registered' = FALSE
  /\ UNCHANGED <<connVars, writeVars, closeVars, has_id, dataVars, timer, pc>>

\* send() from a thread that holds the session.
ExternalSend(t) ==
  /\ ext[t] = "holding"
  /\ QueueMessage(Push)
  /\ UNCHANGED <<connVars, closeVars, regVars, dataVars, timer, ext, pc>>

\* close() from another thread: the flag first ...
ExternalClose(t) ==
  /\ Moves(t, "holding", "flagged") \/ Moves(t, "stopping", "flagged")
  /\ close_requested' = TRUE
  /\ UNCHANGED <<connVars, writeVars, state, close_initiated, close_posted,
                 regVars, dataVars, timer, pc>>

\* ... then the dispatch, if the session is not closed.
PostClose(t) ==
  /\ Moves(t, "flagged", "idle")
  /\ \/ close_posted' = (close_posted \/ state # "closed")
     \/ AllocFails /\ UNCHANGED close_posted    \* dispatch threw
  /\ UNCHANGED <<connVars, writeVars, state, close_requested, close_initiated,
                 regVars, dataVars, timer, pc>>

\* The thread drops its shared_ptr.
Release(t) ==
  /\ Moves(t, "holding", "idle")
  /\ UNCHANGED <<connVars, writeVars, closeVars, regVars, dataVars, timer, pc>>

-----------------------------------------------------------------------------
\* Nothing holds a shared_ptr: no operation, no handler, no map, no thread.
\* A lambda posted by close() holds only a weak_ptr.
Unreferenced ==
  /\ pc = "idle"
  /\ ~accepting /\ reads = 0 /\ posted = 0 /\ inflight = 0 /\ timer = "off"
  /\ stream # "closing"
  /\ ~registered
  /\ \A t \in Threads : ext[t] = "idle"

\* ~websocket_session().
Destroy ==
  /\ alive /\ Unreferenced
  /\ alive' = FALSE
  /\ stream' = "shut"
  /\ UNCHANGED <<unread, accepting, reads, writeVars, closeVars, regVars, dataVars,
                 timer, ext, pc>>

\* Nothing is left to run.
Gone == ~alive /\ UNCHANGED vars

-----------------------------------------------------------------------------
Continue ==    \* the handler that runs goes on
  \/ Run \/ DoRead \/ Respond \/ Authenticate \/ Rearm
  \/ StrandClose \/ FinishClose \/ LeaveAfterReadError

Accepted == AcceptFails \/ AcceptSucceeds

Receive ==
  \/ ReceiveRefused \/ ReceiveHandshake \/ ReceiveDisconnect \/ ReceiveDropped
  \/ \E seq \in SeqNumbers : ReceiveAction(seq)
  \/ \E amount \in Amounts : ReceiveReload(amount)

ReadEnds == ReadIgnored \/ ReadFails

WriteEnds == WriteSucceeds \/ WriteFails

External(t) ==
  \/ Lookup(t) \/ StopAll(t) \/ ExternalSend(t)
  \/ ExternalClose(t) \/ PostClose(t) \/ Release(t)

Next ==
  \/ Continue \/ Accepted \/ Receive \/ ReadEnds
  \/ DoWrite \/ WriteEnds
  \/ TimerExpires \/ TimerErrors \/ TimerAgain \/ DeadlinePassed
  \/ CloseLambda \/ CloseHandshakeDone \/ PeerReads
  \/ \E t \in Threads : External(t)
  \/ Destroy \/ Gone

Spec == Init /\ [][Next]_vars

(***************************************************************************)
(* Fairness.  The io_context runs every handler that is ready, and a       *)
(* strand is first in first out, so a handler that waits for its turn gets *)
(* it although others run in between (SF); a started handler goes on (WF). *)
(* Timers fire.  A thread that calls close() or stop_all() finishes.       *)
(* Reads on a stream that is gone end.  Nothing makes a peer read or       *)
(* answer.  In AppSpec a write ends while the transport has room for it,   *)
(* or when the stream is gone; in FairSpec Beast's 24 hour stream timeout  *)
(* is counted on, and every write and every close handshake ends.          *)
(***************************************************************************)
Scheduling ==
  /\ WF_vars(Continue)
  /\ SF_vars(accepting /\ stream = "shut" /\ AcceptFails)
  /\ SF_vars(stream = "shut" /\ ReadIgnored)
  /\ SF_vars(DoWrite)
  /\ SF_vars(TimerExpires) /\ SF_vars(TimerAgain) /\ SF_vars(DeadlinePassed)
  /\ SF_vars(CloseLambda)
  /\ \A t \in Threads :
       WF_vars(ExternalClose(t) /\ ext[t] = "stopping") /\ WF_vars(PostClose(t))
       /\ WF_vars(Release(t))
  /\ WF_vars(Destroy)

AppSpec ==
  /\ Spec /\ Scheduling
  /\ SF_vars(unread < SendBuffer /\ WriteEnds) /\ SF_vars(stream = "shut" /\ WriteEnds)

FairSpec == Spec /\ Scheduling /\ SF_vars(WriteEnds) /\ SF_vars(CloseHandshakeDone)

-----------------------------------------------------------------------------
(* Safety                                                                   *)

\* Every variable has its type and the write queue keeps its limit
\* (queue_message's test against MAX_WRITE_QUEUE_SIZE).
TypeOK ==
  /\ state \in States
  /\ close_requested \in BOOLEAN /\ close_initiated \in BOOLEAN
  /\ close_posted \in BOOLEAN
  /\ writing \in BOOLEAN /\ posted \in Nat /\ inflight \in Nat
  /\ write_queue \in Seq(Messages) /\ Len(write_queue) <= MaxQueue
  /\ accepting \in BOOLEAN /\ reads \in Nat
  /\ timer \in TimerPCs
  /\ stream \in {"connecting", "open", "closing", "shut"} /\ unread \in 0..SendBuffer
  /\ has_id \in BOOLEAN /\ registered \in BOOLEAN
  /\ ext \in [Threads -> ExtPCs] /\ pc \in StrandPCs
  /\ last_seq \in Nat \cup {-1} /\ current_stack \in 0..MaxStack
  /\ alive \in BOOLEAN

\* There is never more than one write chain, so two async_writes never
\* overlap, and until the session is closed writing_ is set exactly while that
\* chain exists, so no flag is left that nobody will reset (queue_message,
\* do_write, on_write).
WriteChain ==
  /\ posted + inflight <= 1
  /\ state # "closed" => (writing <=> posted + inflight = 1)

\* At most one async_read is outstanding (on_accept, on_read, do_read).
OneRead ==
  /\ reads <= 1
  /\ accepting \/ pc \in {"registered", "responded", "rearm", "reading"} => reads = 0

\* A session that is not closed never sits on queued messages: a chain is
\* running that will write them (on_write's has_more, queue_message's post).
\* Only where memory fails may messages be left, and then never in a session
\* that goes on: do_write() lost a message and is about to close, or close()
\* was called and lost its dispatch.
QueueServed ==
  state # "closed" /\ write_queue # <<>> =>
    posted + inflight > 0 \/ (AllocFails /\ (pc = "closing" \/ close_requested))

\* A close() that was asked for cannot be forgotten: until the session is
\* closed somebody is left to run do_close() - the write chain, the lambda,
\* the calling thread or the running handler (close, on_write).
CloseServed ==
  alive /\ close_requested /\ state # "closed" =>
    \/ posted + inflight > 0 \/ close_posted \/ pc = "closing"
    \/ \E t \in Threads : ext[t] = "flagged"

\* A live session always listens to its peer: an accept or a read is
\* outstanding or the running handler will start one (do_read's guards).
Listens ==
  alive /\ state # "closed" /\ ~close_requested =>
    accepting \/ reads > 0 \/ pc # "idle"

\* A live session always has a deadline pending (check_deadline's re-arming
\* after every expires_after and cancel).
DeadlineArmed ==
  alive /\ state # "closed" /\ ~close_requested =>
    timer # "off" \/ pc \in {"constructed", "closing"}

\* A closed session has left the connection manager's map, except while
\* do_close() or on_read() is about to take it out.
ClosedLeavesMap ==
  registered /\ state = "closed" => pc \in {"dropped", "closedTcp", "closedWs"}

\* An authenticated session that is not in the map is one that stop_all()
\* took out, and it is being closed (register_session before authenticated).
UnlistedIsClosing ==
  state = "authenticated" /\ ~registered =>
    close_requested \/ \E t \in Threads : ext[t] = "stopping"

\* The last RELOAD_RESPONSE in q announces this stack.
Announces(q, stack) ==
  \A i \in 1..Len(q) :
    /\ q[i].type = "RELOAD_RESPONSE"
    /\ \A j \in i+1..Len(q) : q[j].type # "RELOAD_RESPONSE"
    => q[i].new_stack = stack

\* The last RELOAD_RESPONSE waiting to be written announces the stack the
\* server holds (handle_reload_msg commits only what it queued).
LastReloadIsStack == Announces(write_queue, current_stack)

\* closed is final: in particular a handshake whose response could not be
\* queued does not come back as authenticated.
ClosedIsFinal == [][state = "closed" => state' = "closed"]_vars

\* do_close() runs only when nothing is queued or being written, so what the
\* server said before it closed is on the wire ahead of the close frame.
DrainBeforeClose ==
  [][~close_initiated /\ close_initiated' /\ state # "closed"
       => posted' + inflight' = 0 /\ write_queue' = <<>>]_vars

\* A session is destroyed only closed, or after a close() was asked for: no
\* live session loses the last handler that keeps it in memory.
DestroyedIsClosing == ~alive => state = "closed" \/ close_requested

-----------------------------------------------------------------------------
(* The inductive invariant: what the properties above lean on, and they.    *)

\* The handlers that hold the turn to read: the next read is theirs to start.
ReadPCs == {"registered", "responded", "rearm", "reading"}

\* register_session() has given the session its place.
Joined == has_id \/ pc = "registered"

\* Which state each stretch of a handler runs in.
Phases ==
  /\ close_initiated => state = "closed"
  /\ pc \in {"constructed", "registered", "responded"} => state = "unauthenticated"
  /\ pc \in {"dropped", "closedTcp", "closedWs"} => state = "closed"
  /\ pc = "responded" \/ state = "authenticated" => has_id

\* An accept, a read and a handler that will start a read exclude each other,
\* and a guest that was given its id and not admitted is not read from again.
Turns ==
  /\ reads <= 1
  /\ pc \in ReadPCs \cup {"constructed"} => reads = 0 /\ ~accepting
  /\ accepting => reads = 0 /\ ~has_id
  /\ pc = "constructed" => ~has_id
  /\ Joined /\ state = "unauthenticated" => reads = 0 /\ pc \notin {"rearm", "reading"}

\* A do_write() that was posted has something to write.
PostedHasWork == posted > 0 /\ state # "closed" => write_queue # <<>>

\* A session that joined and is not in the map is being closed, or about to be.
LeftIsClosing ==
  Joined /\ state # "closed" /\ ~registered =>
    close_requested \/ \E t \in Threads : ext[t] = "stopping"

\* What holds while memory lasts.
Served ==
  /\ CloseServed /\ ClosedLeavesMap
  /\ registered => Joined

\* The inductive invariant of the session: no step of any actor, taken in a
\* state that satisfies it, leads to one that does not (the session's guards
\* seen together).
Inductive ==
  /\ Phases /\ Turns
  /\ WriteChain /\ PostedHasWork /\ QueueServed
  /\ Listens /\ DeadlineArmed /\ DestroyedIsClosing /\ LeftIsClosing
  /\ ~AllocFails => Served

-----------------------------------------------------------------------------
(* What a comment or a document says of the code, and the code does not do. *)

\* A client that completed the handshake stays connected: the deadline it met
\* is not held against it (on_read's expires_after, check_deadline's handler).
MetDeadlineIsMet ==
  [][state = "authenticated" /\ timer = "stale" /\ timer' = "off"
       => pc' # "closing"]_vars

-----------------------------------------------------------------------------
(* Liveness                                                                 *)

\* A peer that never completes the poker handshake does not keep its session.
HandshakeEnds == state = "unauthenticated" ~> (state # "unauthenticated" \/ ~alive)

\* A requested close is carried out (or the object is gone).
CloseCompletes == close_requested ~> (state = "closed" \/ ~alive)

\* A closed session is destroyed: nothing keeps its socket open for ever.
ClosedIsFreed == state = "closed" ~> ~alive

-----------------------------------------------------------------------------
(* Refinement                                                               *)

Life == INSTANCE Lifecycle WITH
  phase  <- state,
  listed <- registered,
  joined <- Joined

\* The session implements its abstract life: listed at most once, admitted
\* only after that, closed for good, and never listed for ever once closed
\* (register_session, unregister_session and stop_all seen from the session).
ImplementsLifecycle == Life!LifeSpec

\* The safety part of the same.
KeepsLifecycle == Life!LifeSafety
=============================================================================
