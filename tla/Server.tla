------------------------------- MODULE Server -------------------------------
(***************************************************************************)
(* The server as a whole: the accept loop, the connection manager and the  *)
(* sessions the loop creates, each on a strand of its own, with stop()     *)
(* running beside them (src/server/websocket_server.cpp).                  *)
(*                                                                         *)
(* AcceptLoop and ConnectionManager are taken as they are; the connections *)
(* the one accepts are the sessions the other registers.  What a session   *)
(* does in between is that part of Session that the other two can see.     *)
(***************************************************************************)
EXTENDS AcceptLoop, ConnectionManager

ASSUME SameConnections == Sessions = Conns

VARIABLES
  phase,     \* each session's state_, "none" before it is created
  greeted    \* the sessions whose HANDSHAKE_RESPONSE is queued

sessionVars == <<phase, greeted>>
serverVars  == <<loopVars, mgrVars, sessionVars>>

Phases == {"none", "unauthenticated", "authenticated", "closed"}

ServerInit ==
  /\ LoopInit /\ MgrInit
  /\ phase = [c \in Conns |-> "none"] /\ greeted = {}

Becomes(c, p) == phase' = [phase EXCEPT ![c] = p]

-----------------------------------------------------------------------------
(* The accept loop creates a session and starts it; all else it does alone. *)

Start(c) ==
  /\ CreateSession(c)
  /\ Becomes(c, "unauthenticated")
  /\ UNCHANGED <<mgrVars, greeted>>

LoopAlone ==
  /\ \/ DoAccept \/ Backoff \/ Settle \/ Guard \/ Retry \/ CreateFails
     \/ AcceptEnds \/ WaitOver \/ TimerHandler \/ StopBegins
  /\ UNCHANGED <<mgrVars, sessionVars>>

-----------------------------------------------------------------------------
(* A session's handshake                                                    *)

\* Mutant: on_read() does not look whether the session was closed meanwhile.
Handshake_AnyPhase(c) ==
  /\ phase[c] # "none"
  /\ Register(c)
  /\ UNCHANGED <<loopVars, sessionVars>>

\* handle_handshake_message() calls register_session().
Handshake(c) ==
  /\ phase[c] = "unauthenticated"
  /\ Register(c)
  /\ UNCHANGED <<loopVars, sessionVars>>

RegisterGoesOn(c) ==
  /\ DrawId(c) \/ Insert(c)
  /\ UNCHANGED <<loopVars, sessionVars>>

\* Mutant: a handshake goes on though the registration was refused.
Greet_Refused(c) ==
  /\ status[c] \in {"listed", "refused"} /\ phase[c] = "unauthenticated"
  /\ c \notin greeted \cup asked
  /\ greeted' = greeted \cup {c}
  /\ UNCHANGED <<loopVars, mgrVars, phase>>

\* The response is queued; send() refuses it once close() was called.
Greet(c) ==
  /\ status[c] = "listed" /\ phase[c] = "unauthenticated"
  /\ c \notin greeted \cup asked
  /\ greeted' = greeted \cup {c}
  /\ UNCHANGED <<loopVars, mgrVars, phase>>

\* state_.store(authenticated).
Admit(c) ==
  /\ phase[c] = "unauthenticated" /\ c \in greeted
  /\ Becomes(c, "authenticated")
  /\ UNCHANGED <<loopVars, mgrVars, greeted>>

-----------------------------------------------------------------------------
(* A session's end                                                          *)

\* The peer, a deadline, an error or close() ends the session.  One that is
\* listed may end before it is greeted: close() was called, by stop_all() or by
\* a deadline, and send() refuses the response, or building it threw.
Ends(c) ==
  /\ \/ phase[c] = "authenticated"
     \/ /\ phase[c] = "unauthenticated" /\ c \notin greeted
        /\ status[c] \in {"new", "refused", "listed"}
  /\ Becomes(c, "closed")
  /\ UNCHANGED <<loopVars, mgrVars, greeted>>

\* do_close() and on_read() take the session out of the map by its id.
Leaves(c) ==
  /\ phase[c] = "closed"
  /\ Unregister(c)
  /\ UNCHANGED <<loopVars, sessionVars>>

-----------------------------------------------------------------------------
(* stop_all(), called by stop()                                             *)

\* Mutant: stop() returns without stop_all().
StopSwaps_Skipped ==
  /\ StopSessions
  /\ UNCHANGED <<mgrVars, sessionVars>>

StopSwaps ==
  /\ StopSessions
  /\ StopAllSwap
  /\ UNCHANGED sessionVars

StopAsks(c) ==
  /\ StopAllClose(c)
  /\ UNCHANGED <<loopVars, sessionVars>>

-----------------------------------------------------------------------------
SessionNext(c) ==
  \/ Handshake(c) \/ RegisterGoesOn(c) \/ Greet(c) \/ Admit(c)
  \/ Ends(c) \/ Leaves(c)

ServerNext ==
  \/ LoopAlone \/ StopSwaps
  \/ \E c \in Conns : Start(c) \/ SessionNext(c) \/ StopAsks(c)

ServerSpec == ServerInit /\ [][ServerNext]_serverVars

\* Handlers that are ready run and stop() goes on (LoopFairness); a session
\* that started its handshake goes on with it, one that was asked to close
\* does, and what is closed leaves the map.
ServerFairness ==
  /\ LoopFairness
  /\ \A c \in Conns :
       /\ WF_serverVars(RegisterGoesOn(c)) /\ WF_serverVars(Greet(c))
       /\ WF_serverVars(Admit(c)) /\ WF_serverVars(Leaves(c))
       /\ WF_serverVars(StopAsks(c))
       /\ WF_serverVars(c \in asked /\ Ends(c))

ServerFairSpec == ServerSpec /\ ServerFairness

-----------------------------------------------------------------------------
\* An authenticated session is in the map, where stop_all() will find it, or
\* stop_all() has found it: there is no session that serves a client and that
\* nobody holds (register_session before authenticated, stop_all's swap).
AdmittedIsHeld ==
  \A c \in Conns : phase[c] = "authenticated" =>
    c \in Range(sessions) \/ Stale(id[c])

\* stop() runs beside the loop and cannot wait for it: a creation that is past
\* its guard is finished.  That is the last one: no other begins afterwards,
\* not even by way of a backoff that is still pending (on_accept's guard).
OneLateAtMost ==
  [][stopped /\ pc # "create" => pc' # "create" /\ spawned' = spawned]_serverVars

\* Whoever is in the map when stop() comes to stop_all() ends up closed, be it
\* in its handshake, serving a client or already on its way out.
StopReaches ==
  \A c \in Conns :
    stop_pc = "shut" /\ c \in Range(sessions) ~> phase[c] = "closed"

\* Every session the server runs keeps the life Lifecycle promises, with the
\* map of the connection manager as the list.
Life(c) == INSTANCE Lifecycle WITH
  phase  <- IF phase[c] = "none" THEN "unauthenticated" ELSE phase[c],
  listed <- c \in Range(sessions),
  joined <- status[c] \in {"listed", "left"}

LivesKept ==
  [][\A c \in Conns : [Life(c)!LifeNext]_(Life(c)!lifeVars)]_serverVars

=============================================================================
