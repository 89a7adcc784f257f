----------------------------- MODULE AcceptLoop -----------------------------
(***************************************************************************)
(* The accept loop of websocket_server, its exponential backoff, and       *)
(* stop() called from another thread (src/server/websocket_server.cpp).    *)
(*                                                                         *)
(* on_accept and the backoff timer's handler run on the acceptor's strand, *)
(* so they do not overlap each other; `pc` is where the running one is.    *)
(* stop() runs beside them; `stop_pc` is where it is.  Between two locked  *)
(* sections, or two looks at shared state, either may be overtaken.        *)
(***************************************************************************)
EXTENDS Naturals

CONSTANTS
  Conns,        \* the connections peers make
  MaxBackoff    \* config::MAX_BACKOFF, in seconds

ASSUME LoopAssumption == MaxBackoff \in Nat \ {0}

VARIABLES
  accepts,       \* how many async_accepts are outstanding
  pc,            \* where the running handler of the acceptor's strand is
  arrived,       \* the connection in hand and those a session was started for
  stopped,       \* stopped_
  server_alive,  \* alive_
  open,          \* acceptor_.is_open()
  backoff,       \* backoff_seconds_
  has_timer,     \* backoff_timer_ is the timer of the last wait, not null
  wait,          \* the async_wait on that timer
  fatal,         \* the loop has ended with a fatal accept error, or do_accept() threw
  stop_pc,       \* where stop() is
  spawned        \* the connections a session was started for

strandVars == <<accepts, pc, arrived, backoff, fatal, spawned>>
timerVars  == <<has_timer, wait>>
stopVars   == <<stopped, server_alive, open, stop_pc>>
loopVars   == <<strandVars, timerVars, stopVars>>

LoopPCs == {"new", "idle", "backoff", "settle", "guard", "create", "retry", "accept"}
StopPCs == {"running", "flagged", "dead", "quiet", "shut", "done"}
Waits   == {"none", "waiting", "aborted", "fired"}

LoopInit ==
  /\ accepts = 0 /\ pc = "new" /\ arrived = {} /\ spawned = {}
  /\ backoff = 1 /\ has_timer = FALSE /\ wait = "none" /\ fatal = FALSE
  /\ stopped = FALSE /\ server_alive = TRUE /\ open = TRUE /\ stop_pc = "running"

-----------------------------------------------------------------------------
(* The acceptor's strand                                                    *)

\* do_accept(), from run(), from a handler, or from the timer.
DoAccept ==
  /\ pc \in {"new", "accept"}
  /\ pc' = "idle"
  /\ \/ accepts' = accepts + 1 /\ UNCHANGED fatal
     \/ fatal' = TRUE /\ UNCHANGED accepts
  /\ UNCHANGED <<arrived, backoff, spawned, timerVars, stopVars>>

Accepted ==
  /\ pc = "idle" /\ accepts > 0
  /\ accepts' = accepts - 1

\* on_accept(operation_aborted): stop() has closed the acceptor.
AcceptAborted ==
  /\ Accepted /\ ~open
  /\ UNCHANGED <<pc, arrived, backoff, fatal, spawned, timerVars, stopVars>>

\* on_accept() with an error the loop does not survive.
AcceptFatal ==
  /\ Accepted
  /\ fatal' = TRUE
  /\ UNCHANGED <<pc, arrived, backoff, spawned, timerVars, stopVars>>

\* on_accept() with any other error: give up if the acceptor is closed.
AcceptError ==
  /\ Accepted
  /\ pc' = IF open THEN "backoff" ELSE "idle"
  /\ UNCHANGED <<arrived, backoff, fatal, spawned, timerVars, stopVars>>

Lower(a, b) == IF a <= b THEN a ELSE b

\* Mutant: no return after the wait is set up.
Backoff_FallsThrough ==
  /\ pc = "backoff"
  /\ has_timer' = TRUE /\ wait' = "waiting"
  /\ backoff' = Lower(backoff * 2, MaxBackoff)
  /\ pc' = "accept"
  /\ UNCHANGED <<accepts, arrived, fatal, spawned, stopVars>>

\* Mutant: the backoff doubles without a cap.
Backoff_NoCap ==
  /\ pc = "backoff"
  /\ has_timer' = TRUE /\ wait' = "waiting"
  /\ backoff' = backoff * 2
  /\ pc' = "idle"
  /\ UNCHANGED <<accepts, arrived, fatal, spawned, stopVars>>

\* ... else wait on a new timer, twice as long each time up to the cap.
Backoff ==
  /\ pc = "backoff"
  /\ has_timer' = TRUE /\ wait' = "waiting"
  /\ backoff' = Lower(backoff * 2, MaxBackoff)
  /\ pc' = "idle"
  /\ UNCHANGED <<accepts, arrived, fatal, spawned, stopVars>>

\* on_accept() without an error: the backoff starts afresh ...
AcceptConnection(c) ==
  /\ Accepted /\ c \notin arrived
  /\ arrived' = arrived \cup {c}
  /\ backoff' = 1
  /\ pc' = "settle"
  /\ UNCHANGED <<fatal, spawned, timerVars, stopVars>>

\* ... the timer is released ...
Settle ==
  /\ pc = "settle"
  /\ has_timer' = FALSE
  /\ pc' = "guard"
  /\ UNCHANGED <<accepts, arrived, backoff, fatal, spawned, wait, stopVars>>

\* Mutant: only the timer looks at alive_; the accept handler does not.
Guard_Unchecked ==
  /\ pc = "guard" /\ pc' = "create"
  /\ UNCHANGED <<accepts, arrived, backoff, fatal, spawned, timerVars, stopVars>>

\* ... a server that is stopping drops the connection and the loop ends ...
Guard ==
  /\ pc = "guard"
  /\ pc' = IF stopped \/ ~server_alive THEN "idle" ELSE "create"
  /\ UNCHANGED <<accepts, arrived, backoff, fatal, spawned, timerVars, stopVars>>

\* Mutant: the next accept is started only by the failing branch.
CreateSession_LoopEnds(c) ==
  /\ pc = "create" /\ c \in arrived \ spawned
  /\ pc' = "idle" /\ spawned' = spawned \cup {c}
  /\ UNCHANGED <<accepts, arrived, backoff, fatal, timerVars, stopVars>>

\* ... and any other starts a session (or fails to) and accepts again.
CreateSession(c) ==
  /\ pc = "create" /\ c \in arrived \ spawned
  /\ pc' = "accept"
  /\ spawned' = spawned \cup {c}
  /\ UNCHANGED <<accepts, arrived, backoff, fatal, timerVars, stopVars>>

\* A connection without a session is dropped; its peer may make it again.
CreateFails ==
  /\ pc = "create" /\ pc' = "accept"
  /\ arrived' = spawned
  /\ UNCHANGED <<accepts, backoff, fatal, spawned, timerVars, stopVars>>

-----------------------------------------------------------------------------
(* The backoff timer                                                        *)

WaitOver ==
  /\ wait = "waiting" /\ wait' = "fired"
  /\ UNCHANGED <<strandVars, has_timer, stopVars>>

\* The handler: a cancelled wait or a server that is not alive ends the loop.
TimerHandler ==
  /\ pc = "idle" /\ wait \in {"aborted", "fired"}
  /\ wait' = "none"
  /\ pc' = IF wait = "fired" /\ server_alive THEN "retry" ELSE "idle"
  /\ UNCHANGED <<accepts, arrived, backoff, fatal, spawned, has_timer, stopVars>>

\* should_retry, under the lock.
Retry ==
  /\ pc = "retry"
  /\ pc' = IF open /\ has_timer THEN "accept" ELSE "idle"
  /\ UNCHANGED <<accepts, arrived, backoff, fatal, spawned, timerVars, stopVars>>

-----------------------------------------------------------------------------
(* stop()                                                                   *)

StopMoves(from, to) ==
  /\ stop_pc = from /\ stop_pc' = to
  /\ UNCHANGED strandVars

\* The first caller wins the exchange; every other returns at once.
StopFlag ==
  /\ StopMoves("running", "flagged") /\ ~stopped
  /\ stopped' = TRUE
  /\ UNCHANGED <<server_alive, open, timerVars>>

StopDead ==
  /\ StopMoves("flagged", "dead")
  /\ server_alive' = FALSE
  /\ UNCHANGED <<stopped, open, timerVars>>

\* Cancel the backoff timer, under the lock.
StopTimer ==
  /\ StopMoves("dead", "quiet")
  /\ has_timer' = FALSE
  /\ wait' = IF has_timer /\ wait = "waiting" THEN "aborted" ELSE wait
  /\ UNCHANGED <<stopped, server_alive, open>>

\* Mutant: the acceptor stays open.
StopAcceptor_StaysOpen ==
  StopMoves("quiet", "shut") /\ UNCHANGED <<open, stopped, server_alive, timerVars>>

\* Close the acceptor.
StopAcceptor ==
  /\ StopMoves("quiet", "shut")
  /\ open' = FALSE
  /\ UNCHANGED <<stopped, server_alive, timerVars>>

\* stop_all() and the return.
StopSessions ==
  /\ StopMoves("shut", "done")
  /\ UNCHANGED <<stopped, server_alive, open, timerVars>>

-----------------------------------------------------------------------------
Handler ==
  \/ DoAccept \/ Backoff \/ Settle \/ Guard \/ Retry \/ CreateFails
  \/ \E c \in Conns : CreateSession(c)

AcceptEnds ==
  \/ AcceptAborted \/ AcceptFatal \/ AcceptError
  \/ \E c \in Conns : AcceptConnection(c)

StopBegins == StopFlag \/ StopDead \/ StopTimer \/ StopAcceptor

LoopNext ==
  Handler \/ AcceptEnds \/ WaitOver \/ TimerHandler \/ StopBegins \/ StopSessions

\* Handlers that are ready run, timers expire, a stop() that was called
\* returns, and the close of the acceptor ends the accept it finds pending.
LoopFairness ==
  /\ WF_loopVars(Handler) /\ WF_loopVars(WaitOver) /\ WF_loopVars(TimerHandler)
  /\ WF_loopVars(AcceptAborted)
  /\ WF_loopVars(StopDead) /\ WF_loopVars(StopTimer)
  /\ WF_loopVars(StopAcceptor) /\ WF_loopVars(StopSessions)

LoopSpec == LoopInit /\ [][LoopNext]_loopVars

LoopFairSpec == LoopSpec /\ LoopFairness

-----------------------------------------------------------------------------
\* Types; the delay of the next backoff stays between one second and the cap.
LoopTypeOK ==
  /\ accepts \in Nat /\ pc \in LoopPCs
  /\ arrived \subseteq Conns /\ spawned \subseteq arrived
  /\ backoff \in 1..MaxBackoff
  /\ has_timer \in BOOLEAN /\ wait \in Waits /\ fatal \in BOOLEAN
  /\ stopped \in BOOLEAN /\ server_alive \in BOOLEAN /\ open \in BOOLEAN
  /\ stop_pc \in StopPCs

\* There is one loop: at any time an accept is outstanding, or a handler runs,
\* or a backoff wait is, never two of them (on_accept's returns, should_retry).
OneLoop ==
  /\ accepts <= 1
  /\ accepts = 1 => pc = "idle" /\ wait = "none"
  /\ pc # "idle" => wait = "none"

\* The loop does not die unnoticed: until stop() is called or an error it logs
\* as fatal ends it, something is left that will accept again, whatever became
\* of the session (on_accept's last do_accept, the backoff).
LoopGoesOn ==
  ~stopped /\ ~fatal => accepts > 0 \/ pc # "idle" \/ wait \in {"waiting", "fired"}

\* Once stop() has returned the loop winds down, so the io_context can: a timer
\* created after stop()'s cancel and an accept started after its close included.
WindsDown == stop_pc = "done" ~> [](accepts = 0 /\ pc = "idle" /\ wait = "none")

=============================================================================
