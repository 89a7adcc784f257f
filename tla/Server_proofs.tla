---------------------------- MODULE Server_proofs ----------------------------
(***************************************************************************)
(* The composed server is an accept loop and a connection manager, so what *)
(* is proved of each holds of it; and what only both together ensure, for  *)
(* any number of connections.                                              *)
(***************************************************************************)
EXTENDS Server, AcceptLoop_proofs, ConnectionManager_proofs

\* How far a session is, by what the loop and the manager know of it.
Lives ==
  /\ phase \in [Conns -> Phases] /\ greeted \subseteq Conns
  /\ \A c \in Conns :
       /\ c \notin spawned => status[c] = "new" /\ c \notin greeted /\ phase[c] = "none"
       /\ status[c] \in {"drawing", "inserting"} => phase[c] = "unauthenticated"
       /\ phase[c] = "authenticated" => status[c] = "listed"
       /\ phase[c] = "unauthenticated" /\ c \in greeted => status[c] = "listed"

-----------------------------------------------------------------------------
(* The parts                                                                *)

LEMMA LoopPart == ASSUME [ServerNext]_serverVars PROVE [LoopNext]_loopVars
<1>1. CASE LoopAlone
  BY <1>1 DEF LoopAlone, LoopNext, Handler
<1>2. CASE StopSwaps
  BY <1>2 DEF StopSwaps, LoopNext
<1>3. ASSUME NEW c \in Conns, Start(c) PROVE LoopNext
  BY <1>3 DEF Start, LoopNext, Handler
<1>4. ASSUME NEW c \in Conns, SessionNext(c) \/ StopAsks(c) PROVE UNCHANGED loopVars
  BY <1>4 DEF SessionNext, Handshake, RegisterGoesOn, Greet, Admit, Ends, Leaves, StopAsks
<1>5. CASE UNCHANGED serverVars
  BY <1>5 DEF serverVars
<1> QED BY <1>1, <1>2, <1>3, <1>4, <1>5 DEF ServerNext

LEMMA ManagerPart == ASSUME [ServerNext]_serverVars PROVE [MgrNext]_mgrVars
<1> USE SameConnections
<1>1. CASE LoopAlone \/ StopSwaps
  BY <1>1 DEF LoopAlone, StopSwaps, MgrNext
<1>2. ASSUME NEW c \in Conns, Start(c) \/ Greet(c) \/ Admit(c) \/ Ends(c)
      PROVE  UNCHANGED mgrVars
  BY <1>2 DEF Start, Greet, Admit, Ends
<1>3. ASSUME NEW c \in Conns, Handshake(c) \/ RegisterGoesOn(c) \/ Leaves(c) \/ StopAsks(c)
      PROVE  MgrNext
  BY <1>3 DEF Handshake, RegisterGoesOn, Leaves, StopAsks, MgrNext, MgrStep
<1>4. CASE UNCHANGED serverVars
  BY <1>4 DEF serverVars
<1> QED BY <1>1, <1>2, <1>3, <1>4 DEF ServerNext, SessionNext

\* Beside everything else, the server's acceptor behaves as an accept loop
\* (websocket_server).
THEOREM ServerIsLoop == ServerSpec => LoopSpec
<1>1. ServerInit => LoopInit
  BY DEF ServerInit
<1>2. [ServerNext]_serverVars => [LoopNext]_loopVars
  BY LoopPart
<1> QED BY <1>1, <1>2, PTL DEF ServerSpec, LoopSpec

\* Its sessions and its stop() use the connection manager as that expects
\* (register_session and unregister_session once each).
THEOREM ServerIsManager == ServerSpec => MgrSpec
<1>1. ServerInit => MgrInit
  BY DEF ServerInit
<1>2. [ServerNext]_serverVars => [MgrNext]_mgrVars
  BY ManagerPart
<1> QED BY <1>1, <1>2, PTL DEF ServerSpec, MgrSpec

-----------------------------------------------------------------------------
LEMMA LivesInit == ServerInit => Lives
BY SameConnections DEF ServerInit, LoopInit, MgrInit, Lives, Phases

LEMMA LivesStep ==
  ASSUME Lives, MgrTypeOK, LoopTypeOK, [ServerNext]_serverVars
  PROVE  Lives'
<1> USE SameConnections DEF Lives, Phases, MgrTypeOK
<1>1. CASE LoopAlone
  <2>1. spawned' = spawned /\ UNCHANGED <<mgrVars, sessionVars>>
    BY <1>1 DEF LoopAlone, DoAccept, Backoff, Settle, Guard, Retry, CreateFails,
       AcceptEnds, AcceptAborted, AcceptFatal, AcceptError, AcceptConnection, WaitOver,
       TimerHandler, StopBegins, StopFlag, StopDead, StopTimer, StopAcceptor,
       StopMoves, strandVars
  <2> QED BY <2>1 DEF mgrVars, sessionVars
<1>2. CASE StopSwaps
  BY <1>2 DEF StopSwaps, StopSessions, StopMoves, StopAllSwap, strandVars, sessionVars
<1>3. ASSUME NEW c \in Conns, Start(c) PROVE Lives'
  BY <1>3 DEF Start, CreateSession, Becomes, mgrVars
<1>4. ASSUME NEW c \in Conns, Handshake(c) PROVE Lives'
  BY <1>4 DEF Handshake, Register, loopVars, strandVars, sessionVars
<1>5. ASSUME NEW c \in Conns, RegisterGoesOn(c) PROVE Lives'
  <2>1. /\ status[c] \in {"drawing", "inserting"}
        /\ status' \in [Sessions -> Statuses]
        /\ \A d \in Conns \ {c} : status'[d] = status[d]
    BY <1>5 DEF RegisterGoesOn, DrawId, Insert, Refuse, Collide, Enter, Statuses
  <2>2. UNCHANGED <<phase, greeted, spawned>>
    BY <1>5 DEF RegisterGoesOn, loopVars, strandVars, sessionVars
  <2> QED BY <2>1, <2>2
<1>6. ASSUME NEW c \in Conns, Greet(c) PROVE Lives'
  BY <1>6 DEF Greet, Becomes, loopVars, strandVars, mgrVars
<1>7. ASSUME NEW c \in Conns, Admit(c) PROVE Lives'
  BY <1>7 DEF Admit, Becomes, loopVars, strandVars, mgrVars
<1>8. ASSUME NEW c \in Conns, Ends(c) PROVE Lives'
  BY <1>8 DEF Ends, Becomes, loopVars, strandVars, mgrVars
<1>9. ASSUME NEW c \in Conns, Leaves(c) PROVE Lives'
  BY <1>9 DEF Leaves, Unregister, loopVars, strandVars, sessionVars
<1>10. ASSUME NEW c \in Conns, StopAsks(c) PROVE Lives'
  BY <1>10 DEF StopAsks, StopAllClose, loopVars, strandVars, sessionVars
<1>11. CASE UNCHANGED serverVars
  BY <1>11 DEF serverVars, loopVars, strandVars, mgrVars, sessionVars
<1> QED BY <1>1, <1>2, <1>3, <1>4, <1>5, <1>6, <1>7, <1>8, <1>9, <1>10, <1>11
        DEF ServerNext, SessionNext

LEMMA LivesInvariant == ServerSpec => [](Lives /\ MgrInductive)
<1>1. ServerSpec => []MgrInductive /\ []LoopTypeOK
  BY ServerIsManager, ServerIsLoop, MgrInvariant, LoopTypeCorrect, PTL
<1>2. ServerInit => Lives
  BY LivesInit
<1>3. Lives /\ MgrInductive /\ LoopTypeOK /\ [ServerNext]_serverVars => Lives'
  BY LivesStep DEF MgrInductive
<1> QED BY <1>1, <1>2, <1>3, PTL DEF ServerSpec

\* A session that serves a client is in the map, or stop_all() has taken it out
\* to close it (register_session before state_ = authenticated).
THEOREM AdmittedIsHeldAlways == ServerSpec => []AdmittedIsHeld
<1>1. Lives /\ MgrInductive => AdmittedIsHeld
  BY SameConnections DEF Lives, MgrInductive, ListedIsFound, AdmittedIsHeld, Range
<1> QED BY <1>1, LivesInvariant, PTL

\* After stop() no creation begins: at most the one that was past its guard is
\* finished (on_accept).
THEOREM OneLateAtMostAlways == ServerSpec => OneLateAtMost
<1>1. [ServerNext]_serverVars =>
        [stopped /\ pc # "create" => pc' # "create" /\ spawned' = spawned]_serverVars
  <2> SUFFICES ASSUME [LoopNext]_loopVars, stopped, pc # "create"
               PROVE  pc' # "create" /\ spawned' = spawned
    BY LoopPart
  <2> QED
    BY DEF LoopNext, Handler, DoAccept, Backoff, Settle, Guard, Retry, CreateFails,
       CreateSession, AcceptEnds, AcceptAborted, AcceptFatal, AcceptError,
       AcceptConnection, Accepted, WaitOver, TimerHandler, StopBegins, StopFlag,
       StopDead, StopTimer, StopAcceptor, StopSessions, StopMoves, strandVars,
       stopVars, timerVars, loopVars
<1> QED BY <1>1, PTL DEF ServerSpec, OneLateAtMost

\* Whatever stop() and the handshakes do at the same time, the map keeps its
\* limit (register_session).
THEOREM ServerWithinLimit == ServerSpec => []WithinLimit
BY ServerIsManager, WithinLimitAlways, PTL

\* Whatever becomes of the sessions, there is one accept loop (on_accept).
THEOREM ServerOneLoop == ServerSpec => []OneLoop
BY ServerIsLoop, OneLoopAlways, PTL

-----------------------------------------------------------------------------
(* The life of each session                                                 *)

\* What Lifecycle sees of one session.
Shown(c)  == IF phase[c] = "none" THEN "unauthenticated" ELSE phase[c]
Listed(c) == c \in Range(sessions)
Joined(c) == status[c] \in {"listed", "left"}

\* An insertion adds the session and overwrites nobody.
LEMMA EnterAddsOne ==
  ASSUME NEW s \in Conns, Enter(s), id[s] \notin DOMAIN sessions
  PROVE  Range(sessions') = Range(sessions) \cup {s}
<1>1. /\ DOMAIN sessions' = DOMAIN sessions \cup {id[s]}
      /\ sessions'[id[s]] = s
      /\ \A i \in DOMAIN sessions : sessions'[i] = sessions[i]
  BY DEF Enter
<1> QED BY <1>1 DEF Range

LEMMA ServerLifeStep ==
  ASSUME Lives, MgrInductive, ~LogFails, [ServerNext]_serverVars, NEW c \in Conns
  PROVE  [Life(c)!LifeNext]_(Life(c)!lifeVars)
<1> USE SameConnections
<1>1. ASSUME UNCHANGED <<Shown(c), Listed(c), Joined(c)>>
      PROVE  [Life(c)!LifeNext]_(Life(c)!lifeVars)
  BY <1>1 DEF Life!lifeVars, Shown, Listed, Joined
<1>2. ASSUME Shown(c) = "unauthenticated", ~Joined(c), Joined(c)', Listed(c)',
             UNCHANGED Shown(c)
      PROVE  Life(c)!LifeNext
  BY <1>2 DEF Life!LifeNext, Life!Join, Shown, Listed, Joined
<1>3. ASSUME Shown(c) = "unauthenticated", Joined(c), Shown(c)' = "authenticated",
             UNCHANGED <<Listed(c), Joined(c)>>
      PROVE  Life(c)!LifeNext
  BY <1>3 DEF Life!LifeNext, Life!Admit, Shown, Listed, Joined
<1>4. ASSUME Shown(c) # "closed", Shown(c)' = "closed", UNCHANGED <<Listed(c), Joined(c)>>
      PROVE  Life(c)!LifeNext
  BY <1>4 DEF Life!LifeNext, Life!End, Shown, Listed, Joined
<1>5. ASSUME Listed(c), ~Listed(c)', UNCHANGED <<Shown(c), Joined(c)>>
      PROVE  Life(c)!LifeNext
  BY <1>5 DEF Life!LifeNext, Life!Leave, Shown, Listed, Joined
<1>6. phase \in [Conns -> Phases] /\ status \in [Conns -> Statuses]
  BY DEF Lives, MgrInductive, MgrTypeOK
<1>7. ASSUME phase' = phase, sessions' = sessions, Joined(c)' <=> Joined(c)
      PROVE  [Life(c)!LifeNext]_(Life(c)!lifeVars)
  <2>1. UNCHANGED <<Shown(c), Listed(c), Joined(c)>>
    BY <1>7 DEF Shown, Listed, Joined
  <2> QED BY <1>1, <2>1
<1>8. ASSUME UNCHANGED mgrVars PROVE Listed(c)' = Listed(c) /\ Joined(c)' = Joined(c)
  BY <1>8 DEF mgrVars, Listed, Joined
<1>9. CASE LoopAlone \/ UNCHANGED serverVars
  <2>1. UNCHANGED <<mgrVars, phase>>
    BY <1>9 DEF LoopAlone, serverVars, sessionVars
  <2> QED BY <1>7, <1>8, <2>1 DEF mgrVars
<1>10. CASE StopSwaps
  <2>1. phase' = phase /\ status' = status /\ sessions' = EmptyMap
    BY <1>10 DEF StopSwaps, StopAllSwap, sessionVars
  <2>2. ~Listed(c)' /\ UNCHANGED <<Shown(c), Joined(c)>>
    BY <2>1 DEF Listed, Shown, Joined, Range, EmptyMap
  <2>3. CASE Listed(c)
    BY <1>5, <2>2, <2>3
  <2>4. CASE ~Listed(c)
    <3>1. Listed(c)' = Listed(c)
      BY <2>2, <2>4 DEF Listed
    <3> QED BY <1>1, <2>2, <3>1
  <2> QED BY <2>3, <2>4
<1>11. ASSUME NEW d \in Conns, Start(d)
       PROVE  [Life(c)!LifeNext]_(Life(c)!lifeVars)
  <2>1. phase[d] = "none" /\ phase' = [phase EXCEPT ![d] = "unauthenticated"]
    BY <1>11 DEF Start, CreateSession, Becomes, Lives
  <2>2. Shown(c)' = Shown(c)
    BY <1>6, <2>1 DEF Shown
  <2> QED BY <1>1, <1>8, <1>11, <2>2 DEF Start
<1>12. ASSUME NEW d \in Conns, Handshake(d) \/ StopAsks(d)
       PROVE  [Life(c)!LifeNext]_(Life(c)!lifeVars)
  <2>1. phase' = phase /\ sessions' = sessions
    BY <1>12 DEF Handshake, Register, StopAsks, StopAllClose, sessionVars
  <2>2. \/ status' = status
        \/ status[d] = "new" /\ status' = [status EXCEPT ![d] = "drawing"]
    BY <1>12 DEF Handshake, Register, StopAsks, StopAllClose
  <2>3. Joined(c)' <=> Joined(c)
    BY <1>6, <2>2 DEF Joined
  <2> QED BY <1>7, <2>1, <2>3
<1>13. ASSUME NEW d \in Conns, RegisterGoesOn(d)
       PROVE  [Life(c)!LifeNext]_(Life(c)!lifeVars)
  <2>1. status[d] \in {"drawing", "inserting"} /\ phase' = phase
    BY <1>13 DEF RegisterGoesOn, DrawId, Insert, sessionVars
  <2>2. phase[d] = "unauthenticated"
    BY <2>1 DEF Lives
  <2>3. CASE DrawId(d)
    BY <1>6, <1>7, <2>1, <2>3 DEF DrawId, Joined
  <2>4. CASE Refuse(d) \/ Collide(d)
    BY <1>6, <1>7, <2>1, <2>4 DEF Refuse, Collide, Joined
  <2>5. CASE Enter(d) /\ id[d] \notin DOMAIN sessions
    <3>1. Range(sessions') = Range(sessions) \cup {d}
      BY <2>5, EnterAddsOne
    <3>2. status' = [status EXCEPT ![d] = "listed"]
      BY <2>5 DEF Enter
    <3>3. CASE c = d
      <4>1. Listed(c)' /\ Shown(c) = "unauthenticated" /\ Shown(c)' = Shown(c)
        BY <2>1, <2>2, <3>1, <3>3 DEF Listed, Shown
      <4>2. ~Joined(c) /\ Joined(c)'
        BY <1>6, <2>1, <3>2, <3>3 DEF Joined
      <4> QED BY <1>2, <4>1, <4>2
    <3>4. CASE c # d
      <4>1. Listed(c)' = Listed(c) /\ Shown(c)' = Shown(c) /\ Joined(c)' = Joined(c)
        BY <1>6, <2>1, <3>1, <3>2, <3>4 DEF Listed, Shown, Joined
      <4> QED BY <1>1, <4>1
    <3> QED BY <3>3, <3>4
  <2> QED BY <1>13, <2>3, <2>4, <2>5 DEF RegisterGoesOn, Insert
<1>14. ASSUME NEW d \in Conns, Greet(d) \/ Ends(d)
       PROVE  [Life(c)!LifeNext]_(Life(c)!lifeVars)
  <2>1. UNCHANGED mgrVars
    BY <1>14 DEF Greet, Ends
  <2>2. \/ phase' = phase
        \/ phase[d] \in {"unauthenticated", "authenticated"} /\ Becomes(d, "closed")
    BY <1>14 DEF Greet, Ends
  <2>3. CASE phase' = phase \/ (c # d /\ Becomes(d, "closed"))
    <3>1. Shown(c)' = Shown(c)
      BY <1>6, <2>3 DEF Shown, Becomes
    <3> QED BY <1>1, <1>8, <2>1, <3>1
  <2>4. CASE phase[c] \in {"unauthenticated", "authenticated"} /\ Becomes(c, "closed")
    <3>1. Shown(c) # "closed" /\ Shown(c)' = "closed"
      BY <1>6, <2>4 DEF Shown, Becomes
    <3> QED BY <1>4, <1>8, <2>1, <3>1
  <2> QED BY <2>2, <2>3, <2>4
<1>15. ASSUME NEW d \in Conns, Admit(d)
       PROVE  [Life(c)!LifeNext]_(Life(c)!lifeVars)
  <2>1. /\ phase[d] = "unauthenticated" /\ d \in greeted /\ Becomes(d, "authenticated")
        /\ UNCHANGED mgrVars
    BY <1>15 DEF Admit
  <2>2. CASE c = d
    <3>1. Joined(c)
      BY <2>1, <2>2 DEF Lives, Joined
    <3>2. Shown(c) = "unauthenticated" /\ Shown(c)' = "authenticated"
      BY <1>6, <2>1, <2>2 DEF Shown, Becomes
    <3> QED BY <1>3, <1>8, <2>1, <3>1, <3>2
  <2>3. CASE c # d
    <3>1. Shown(c)' = Shown(c)
      BY <1>6, <2>1, <2>3 DEF Shown, Becomes
    <3> QED BY <1>1, <1>8, <2>1, <3>1
  <2> QED BY <2>2, <2>3
<1>16. ASSUME NEW d \in Conns, Leaves(d)
       PROVE  [Life(c)!LifeNext]_(Life(c)!lifeVars)
  <2>1. /\ phase' = phase /\ status[d] = "listed" /\ status' = [status EXCEPT ![d] = "left"]
        /\ DOMAIN sessions' = DOMAIN sessions \ {id[d]}
        /\ \A i \in DOMAIN sessions' : sessions'[i] = sessions[i]
    BY <1>16 DEF Leaves, Unregister, Restrict, sessionVars
  <2>2. UNCHANGED <<Shown(c), Joined(c)>>
    BY <1>6, <2>1 DEF Shown, Joined
  <2>3. Listed(c)' => Listed(c)
    BY <2>1 DEF Listed, Range
  <2>4. CASE Listed(c) /\ ~Listed(c)'
    BY <1>5, <2>2, <2>4
  <2>5. CASE Listed(c)' = Listed(c)
    BY <1>1, <2>2, <2>5
  <2> QED BY <2>3, <2>4, <2>5 DEF Listed
<1> QED
  BY <1>9, <1>10, <1>11, <1>12, <1>13, <1>14, <1>15, <1>16 DEF ServerNext, SessionNext

\* While the log line of a registration does not throw, the manager and the
\* session between them let every session live the life Lifecycle describes
\* (register_session, unregister_session, stop_all).
THEOREM LivesKeptAlways ==
  ASSUME ~LogFails
  PROVE  ServerSpec => LivesKept
<1> DEFINE Kept == \A c \in Conns : [Life(c)!LifeNext]_(Life(c)!lifeVars)
<1>1. Lives /\ MgrInductive /\ [ServerNext]_serverVars => Kept
  BY ServerLifeStep
<1>2. ServerSpec => [][Kept]_serverVars
  <2>1. Lives /\ MgrInductive /\ [ServerNext]_serverVars => [Kept]_serverVars
    BY <1>1
  <2> QED BY <2>1, LivesInvariant, PTL DEF ServerSpec
<1> QED BY <1>2 DEF LivesKept

\* So every session of the server implements the safety part of Lifecycle, from
\* before it is accepted until after stop_all() (websocket_server).
THEOREM ServerImplementsLife ==
  ASSUME ~LogFails, NEW CONSTANT c \in Conns
  PROVE  ServerSpec => Life(c)!LifeSafety
<1>1. ServerInit => Life(c)!LifeInit
  BY SameConnections DEF ServerInit, MgrInit, EmptyMap, Range, Life!LifeInit
<1>2. Lives /\ MgrInductive /\ [ServerNext]_serverVars => [Life(c)!LifeNext]_(Life(c)!lifeVars)
  BY ServerLifeStep
<1> QED BY <1>1, <1>2, LivesInvariant, PTL DEF ServerSpec, Life!LifeSafety
=============================================================================
