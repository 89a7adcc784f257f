------------------------- MODULE ConnectionManager -------------------------
(***************************************************************************)
(* connection_manager: the map of registered sessions, the generation of   *)
(* session ids, and stop_all() (src/server/connection_manager.cpp).        *)
(*                                                                         *)
(* Each section the code runs under sessions_mutex_ is one step; drawing   *)
(* an id, which happens outside the lock, is another.  A session calls     *)
(* register_session() once and unregister_session() once, with the id it   *)
(* was given; any thread may call stop_all().                              *)
(***************************************************************************)
EXTENDS Naturals, FiniteSets, Functions

CONSTANTS
  Sessions,
  MaxConnections,   \* config::MAX_CONNECTIONS
  MaxRetries,       \* MAX_SESSION_ID_RETRIES
  CounterSpan,      \* 2^32: the bits of the counter that reach the id
  Randoms,          \* the values of the 32 random bits
  Stops,            \* TRUE: stop_all() may be called
  RngFails,         \* TRUE: seeding the generator may throw
  LogFails          \* TRUE: the insertion, or building a log line, may throw

ASSUME ManagerAssumption ==
  /\ MaxConnections \in Nat \ {0} /\ MaxRetries \in Nat \ {0}
  /\ CounterSpan \in Nat \ {0} /\ Randoms # {}
  /\ Stops \in BOOLEAN /\ RngFails \in BOOLEAN /\ LogFails \in BOOLEAN

VARIABLES
  sessions,   \* sessions_: a function from the ids in use to sessions
  counter,    \* the counter of generate_session_id()
  fallback,   \* its fallback_counter
  status,     \* how far each session's registration is
  attempt,    \* the attempt its register_session() is at
  id,         \* the id it has drawn
  to_stop,    \* sessions_to_stop: swapped out by stop_all(), not yet closed
  asked       \* sessions stop_all() has called close() on

mgrVars == <<sessions, counter, fallback, status, attempt, id, to_stop, asked>>

Statuses == {"new", "drawing", "inserting", "listed", "refused", "left"}

\* (counter << 32) ^ rnd keeps the low bits of the counter and the random
\* bits apart, so an id is the pair of them; a fallback id is never one of these.
MixedId(c, r)  == <<"mixed", c % CounterSpan, r>>
FallbackId(c)  == <<"fallback", c, 0>>
NoId           == <<"none", 0, 0>>

EmptyMap == [i \in {} |-> NoId]

MgrInit ==
  /\ sessions = EmptyMap
  /\ counter = 0 /\ fallback = 0
  /\ status = [s \in Sessions |-> "new"]
  /\ attempt = [s \in Sessions |-> 0]
  /\ id = [s \in Sessions |-> NoId]
  /\ to_stop = {} /\ asked = {}

-----------------------------------------------------------------------------
\* register_session() is called.
Register(s) ==
  /\ status[s] = "new"
  /\ status' = [status EXCEPT ![s] = "drawing"]
  /\ UNCHANGED <<sessions, counter, fallback, attempt, id, to_stop, asked>>

\* generate_session_id(): the counter is taken before the generator may throw.
DrawId(s) ==
  /\ status[s] = "drawing"
  /\ counter' = counter + 1
  /\ \/ /\ \E r \in Randoms : id' = [id EXCEPT ![s] = MixedId(counter, r)]
        /\ status' = [status EXCEPT ![s] = "inserting"]
        /\ UNCHANGED fallback
     \/ /\ RngFails
        /\ id' = [id EXCEPT ![s] = FallbackId(fallback)]
        /\ fallback' = fallback + 1
        /\ status' = [status EXCEPT ![s] = "inserting"]
     \/ /\ RngFails                     \* and so does the fallback's string
        /\ fallback' = fallback + 1
        /\ status' = [status EXCEPT ![s] = "refused"]
        /\ UNCHANGED id
  /\ UNCHANGED <<sessions, attempt, to_stop, asked>>

Refuse(s) ==
  /\ status' = [status EXCEPT ![s] = "refused"]
  /\ id' = [id EXCEPT ![s] = NoId]
  /\ UNCHANGED <<sessions, attempt>>

\* The id is taken: try again, MaxRetries times in all.
Collide(s) ==
  IF attempt[s] + 1 = MaxRetries
  THEN Refuse(s)
  ELSE /\ attempt' = [attempt EXCEPT ![s] = @ + 1]
       /\ status' = [status EXCEPT ![s] = "drawing"]
       /\ UNCHANGED <<sessions, id>>

\* try_emplace succeeded.  If building the log line throws, the caller never
\* learns the id and the entry has no owner.
Enter(s) ==
  /\ sessions' = [i \in DOMAIN sessions \cup {id[s]} |->
                    IF i = id[s] THEN s ELSE sessions[i]]
  /\ \/ status' = [status EXCEPT ![s] = "listed"] /\ UNCHANGED id
     \/ /\ LogFails
        /\ status' = [status EXCEPT ![s] = "refused"]
        /\ id' = [id EXCEPT ![s] = NoId]
  /\ UNCHANGED attempt

\* Mutant: the limit lets one more in.
Insert_OneTooMany(s) ==
  /\ status[s] = "inserting"
  /\ IF Cardinality(DOMAIN sessions) > MaxConnections
     THEN Refuse(s)
     ELSE IF id[s] \in DOMAIN sessions THEN Collide(s) ELSE Enter(s)
  /\ UNCHANGED <<counter, fallback, to_stop, asked>>

\* Mutant: sessions_[id] = session instead of try_emplace.
Insert_Overwrites(s) ==
  /\ status[s] = "inserting"
  /\ IF Cardinality(DOMAIN sessions) >= MaxConnections
     THEN Refuse(s)
     ELSE Enter(s)
  /\ UNCHANGED <<counter, fallback, to_stop, asked>>

\* The locked section of register_session() and the log line of its outcome.
\* If try_emplace or the line throws, nothing is registered.
Insert(s) ==
  /\ status[s] = "inserting"
  /\ \/ IF Cardinality(DOMAIN sessions) >= MaxConnections
        THEN Refuse(s)
        ELSE IF id[s] \in DOMAIN sessions THEN Collide(s) ELSE Enter(s)
     \/ LogFails /\ Refuse(s)
  /\ UNCHANGED <<counter, fallback, to_stop, asked>>

\* Mutant: the entry stays.
Unregister_Keeps(s) ==
  /\ status[s] = "listed"
  /\ status' = [status EXCEPT ![s] = "left"]
  /\ UNCHANGED <<sessions, counter, fallback, attempt, id, to_stop, asked>>

\* unregister_session(): by id, and no error if the id is unknown.
Unregister(s) ==
  /\ status[s] = "listed"
  /\ sessions' = Restrict(sessions, DOMAIN sessions \ {id[s]})
  /\ status' = [status EXCEPT ![s] = "left"]
  /\ UNCHANGED <<counter, fallback, attempt, id, to_stop, asked>>

\* stop_all(): the swap under the lock ...
StopAllSwap ==
  /\ Stops
  /\ to_stop' = to_stop \cup Range(sessions)
  /\ sessions' = EmptyMap
  /\ UNCHANGED <<counter, fallback, status, attempt, id, asked>>

\* ... and the close() of each session that was in the map.
StopAllClose(s) ==
  /\ s \in to_stop
  /\ to_stop' = to_stop \ {s}
  /\ asked' = asked \cup {s}
  /\ UNCHANGED <<sessions, counter, fallback, status, attempt, id>>

-----------------------------------------------------------------------------
MgrStep(s) ==
  \/ DrawId(s) \/ Insert(s) \/ Unregister(s) \/ StopAllClose(s)

MgrNext ==
  \/ StopAllSwap
  \/ \E s \in Sessions : Register(s) \/ MgrStep(s)

MgrSpec == MgrInit /\ [][MgrNext]_mgrVars

-----------------------------------------------------------------------------
\* Types, and no attempt beyond the last.
MgrTypeOK ==
  /\ sessions \in [DOMAIN sessions -> Sessions]
  /\ counter \in Nat /\ fallback \in Nat
  /\ status \in [Sessions -> Statuses]
  /\ attempt \in [Sessions -> 0..MaxRetries - 1]
  /\ DOMAIN id = Sessions
  /\ to_stop \subseteq Sessions /\ asked \subseteq Sessions

\* The map never holds more than MaxConnections (register_session's test and
\* insertion under one lock).
WithinLimit == Cardinality(DOMAIN sessions) <= MaxConnections

\* The id of a session that stop_all() took out.  Its unregister_session() comes
\* late and removes by id alone, so it is not safe to give that id out again.
Stale(i) == \E s \in to_stop \cup asked : id[s] = i

\* A registered session is found under its own id, until stop_all() takes it
\* out to close it: a collision never overwrites an entry (try_emplace).
ListedIsFound ==
  \A s \in Sessions : status[s] = "listed" /\ ~Stale(id[s]) =>
    id[s] \in DOMAIN sessions /\ sessions[id[s]] = s

\* Every entry belongs to a session that is registered under that id, so each
\* session is there once and whoever unregisters leaves nothing behind; only a
\* log line that throws after the insertion may leave an entry without an owner.
EntriesAreOwned ==
  \A i \in DOMAIN sessions :
    \/ status[sessions[i]] = "listed" /\ id[sessions[i]] = i
    \/ LogFails /\ status[sessions[i]] = "refused"

\* A session that ends takes out its own entry and nobody else's, though all
\* it hands over is a string (unregister_session).
LeavesOwnEntry ==
  [][\A s \in Sessions :
       status[s] # "left" /\ status'[s] = "left" /\ ~Stale(id[s]) =>
         \A i \in DOMAIN sessions : sessions[i] # s => i \in DOMAIN sessions']_mgrVars
=============================================================================
