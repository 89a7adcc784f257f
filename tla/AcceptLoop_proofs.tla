-------------------------- MODULE AcceptLoop_proofs --------------------------
(***************************************************************************)
(* The accept loop keeps its types and the cap of its backoff, is one loop *)
(* and does not die, for every set of connections and every cap.           *)
(***************************************************************************)
EXTENDS AcceptLoop, TLAPS

\* What stop() has done by the time each of its marks is seen: whoever ends the
\* loop because of one of them does so in a server that is stopped, and a wait
\* that was not cancelled is the one on the timer the server still has.
Stopping ==
  /\ stop_pc = "running" <=> ~stopped
  /\ ~server_alive \/ ~open \/ wait = "aborted" => stopped
  /\ ~stopped /\ (wait # "none" \/ pc = "retry") => has_timer

LoopInductive == LoopTypeOK /\ OneLoop /\ LoopGoesOn /\ Stopping

-----------------------------------------------------------------------------
\* The delay stays between one second and the cap when it doubles (std::min).
LEMMA DoubledIsCapped ==
  ASSUME backoff \in 1..MaxBackoff
  PROVE  Lower(backoff * 2, MaxBackoff) \in 1..MaxBackoff
BY LoopAssumption DEF Lower

LEMMA InitInductive == LoopInit => LoopInductive
<1> SUFFICES ASSUME LoopInit PROVE LoopInductive
  OBVIOUS
<1> USE DEF LoopInit
<1>1. backoff \in 1..MaxBackoff
  BY LoopAssumption
<1>2. LoopTypeOK
  BY <1>1 DEF LoopTypeOK, LoopPCs, StopPCs, Waits
<1>3. OneLoop /\ LoopGoesOn /\ Stopping
  BY DEF OneLoop, LoopGoesOn, Stopping
<1> QED BY <1>2, <1>3 DEF LoopInductive

LEMMA StepInductive ==
  ASSUME LoopInductive, [LoopNext]_loopVars
  PROVE  LoopInductive'
<1> USE DEF LoopInductive, LoopTypeOK, OneLoop, LoopGoesOn, Stopping,
            LoopPCs, StopPCs, Waits
<1> USE DEF strandVars, timerVars, stopVars
<1>1. CASE DoAccept
  <2>1. accepts = 0
    BY <1>1 DEF DoAccept
  <2>2. accepts' = accepts + 1 \/ accepts' = accepts
    BY <1>1 DEF DoAccept
  <2>3. accepts' = 0 \/ accepts' = 1
    BY <2>1, <2>2
  <2>4. accepts' \in Nat
    BY <2>3
  <2>5. fatal' \in BOOLEAN
    BY <1>1 DEF DoAccept
  <2>6. accepts' = 1 \/ fatal'
    BY <1>1, <2>1 DEF DoAccept
  <2>7. LoopTypeOK'
    BY <1>1, <2>4, <2>5 DEF DoAccept
  <2>8. OneLoop'
    BY <1>1, <2>3 DEF DoAccept
  <2>9. LoopGoesOn'
    BY <1>1, <2>6 DEF DoAccept
  <2>10. Stopping'
    BY <1>1 DEF DoAccept
  <2> QED BY <2>7, <2>8, <2>9, <2>10
<1>2. CASE Backoff
  <2>1. backoff' \in 1..MaxBackoff
    BY <1>2, DoubledIsCapped DEF Backoff
  <2> QED BY <1>2, <2>1 DEF Backoff
<1>3. CASE Settle
  BY <1>3 DEF Settle
<1>4. CASE Guard
  BY <1>4 DEF Guard
<1>5. CASE Retry
  BY <1>5 DEF Retry
<1>6. CASE CreateFails
  BY <1>6 DEF CreateFails
<1>7. ASSUME NEW c \in Conns, CreateSession(c)
      PROVE  LoopInductive'
  BY <1>7 DEF CreateSession
<1>8. ASSUME Accepted
      PROVE  accepts' = 0 /\ accepts' \in Nat
  BY <1>8 DEF Accepted
<1>9. CASE AcceptAborted
  BY <1>8, <1>9 DEF AcceptAborted, Accepted
<1>10. CASE AcceptFatal
  BY <1>8, <1>10 DEF AcceptFatal, Accepted
<1>11. CASE AcceptError
  BY <1>8, <1>11 DEF AcceptError, Accepted
<1>12. ASSUME NEW c \in Conns, AcceptConnection(c)
       PROVE  LoopInductive'
  <2>1. backoff' \in 1..MaxBackoff
    BY <1>12, LoopAssumption DEF AcceptConnection
  <2> QED BY <1>8, <1>12, <2>1 DEF AcceptConnection, Accepted
<1>13. CASE WaitOver
  BY <1>13 DEF WaitOver
<1>14. CASE TimerHandler
  BY <1>14 DEF TimerHandler
<1>15. CASE StopFlag \/ StopDead
  BY <1>15 DEF StopFlag, StopDead, StopMoves
<1>16. CASE StopTimer
  BY <1>16 DEF StopTimer, StopMoves
<1>17. CASE StopAcceptor \/ StopSessions
  BY <1>17 DEF StopAcceptor, StopSessions, StopMoves
<1>18. CASE UNCHANGED loopVars
  BY <1>18 DEF loopVars
<1> QED
  BY <1>1, <1>2, <1>3, <1>4, <1>5, <1>6, <1>7, <1>9, <1>10, <1>11, <1>12, <1>13,
     <1>14, <1>15, <1>16, <1>17, <1>18
  DEF LoopNext, Handler, AcceptEnds, StopBegins

-----------------------------------------------------------------------------
LEMMA LoopInvariant == LoopSpec => []LoopInductive
<1>1. LoopInit => LoopInductive
  BY InitInductive
<1>2. LoopInductive /\ [LoopNext]_loopVars => LoopInductive'
  BY StepInductive
<1> QED BY <1>1, <1>2, PTL DEF LoopSpec

\* Every variable keeps its type, and the backoff its cap (on_accept).
THEOREM LoopTypeCorrect == LoopSpec => []LoopTypeOK
<1>1. LoopInductive => LoopTypeOK
  BY DEF LoopInductive
<1> QED BY <1>1, LoopInvariant, PTL

\* The loop never doubles, whatever retries and whatever stop() interrupts
\* (do_accept, on_accept, the timer's handler).
THEOREM OneLoopAlways == LoopSpec => []OneLoop
<1>1. LoopInductive => OneLoop
  BY DEF LoopInductive
<1> QED BY <1>1, LoopInvariant, PTL

\* Before stop() no error but a fatal one leaves the server without something
\* that will accept again (on_accept, should_retry).
THEOREM LoopGoesOnAlways == LoopSpec => []LoopGoesOn
<1>1. LoopInductive => LoopGoesOn
  BY DEF LoopInductive
<1> QED BY <1>1, LoopInvariant, PTL
=============================================================================
