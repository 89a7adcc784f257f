---------------------- MODULE ConnectionManager_proofs ----------------------
(***************************************************************************)
(* The session map stays within its limit, and every entry and every       *)
(* registered session keep to each other, for any number of sessions, any  *)
(* limit, any width of the id's counter and any random bits.               *)
(***************************************************************************)
EXTENDS ConnectionManager, FiniteSetTheorems, TLAPS

\* Only sessions whose registration is over are ever swapped out, so the id by
\* which such a session will unregister no longer changes.
SwappedAreSettled ==
  \A s \in to_stop \cup asked : status[s] \in {"listed", "refused", "left"}

MgrInductive ==
  /\ MgrTypeOK
  /\ IsFiniteSet(DOMAIN sessions) /\ WithinLimit
  /\ ListedIsFound /\ EntriesAreOwned /\ SwappedAreSettled

Ownership == ListedIsFound /\ EntriesAreOwned /\ SwappedAreSettled

-----------------------------------------------------------------------------
\* One more entry stays within a limit that was not reached (try_emplace).
LEMMA OneMoreFits ==
  ASSUME NEW S, NEW x, IsFiniteSet(S), Cardinality(S) < MaxConnections
  PROVE  IsFiniteSet(S \cup {x}) /\ Cardinality(S \cup {x}) <= MaxConnections
<1>1. Cardinality(S) \in Nat
  BY FS_CardinalityType
<1>2. Cardinality(S \cup {x}) = IF x \in S THEN Cardinality(S) ELSE Cardinality(S) + 1
  BY FS_AddElement
<1> QED BY <1>1, <1>2, FS_AddElement, ManagerAssumption

LEMMA EmptyFits == IsFiniteSet(DOMAIN EmptyMap) /\ Cardinality(DOMAIN EmptyMap) <= MaxConnections
BY FS_EmptySet, ManagerAssumption DEF EmptyMap

-----------------------------------------------------------------------------
LEMMA MgrInitInductive == MgrInit => MgrInductive
<1> SUFFICES ASSUME MgrInit PROVE MgrInductive
  OBVIOUS
<1>1. DOMAIN sessions = {}
  BY DEF MgrInit, EmptyMap
<1>2. MgrTypeOK
  BY <1>1, ManagerAssumption DEF MgrInit, MgrTypeOK, EmptyMap, Statuses
<1>3. IsFiniteSet(DOMAIN sessions) /\ WithinLimit
  BY EmptyFits DEF MgrInit, WithinLimit
<1>4. Ownership
  BY <1>1 DEF MgrInit, Ownership, ListedIsFound, EntriesAreOwned, SwappedAreSettled
<1> QED BY <1>2, <1>3, <1>4 DEF MgrInductive, Ownership

LEMMA MgrStepType ==
  ASSUME MgrTypeOK, EntriesAreOwned, [MgrNext]_mgrVars
  PROVE  MgrTypeOK'
<1> USE ManagerAssumption DEF MgrTypeOK, Statuses
<1>1. ASSUME NEW s \in Sessions, Register(s) PROVE MgrTypeOK'
  BY <1>1 DEF Register
<1>2. ASSUME NEW s \in Sessions, DrawId(s) PROVE MgrTypeOK'
  BY <1>2 DEF DrawId
<1>3. ASSUME NEW s \in Sessions, Insert(s), Refuse(s) PROVE MgrTypeOK'
  BY <1>3 DEF Insert, Refuse
<1>4. ASSUME NEW s \in Sessions, Insert(s), Collide(s) PROVE MgrTypeOK'
  BY <1>3, <1>4 DEF Insert, Collide
<1>5. ASSUME NEW s \in Sessions, Insert(s), Enter(s) PROVE MgrTypeOK'
  BY <1>5 DEF Insert, Enter
<1>6. ASSUME NEW s \in Sessions, Unregister(s) PROVE MgrTypeOK'
  BY <1>6 DEF Unregister, Restrict
<1>7. CASE StopAllSwap
  BY <1>7 DEF StopAllSwap, Range, EmptyMap
<1>8. ASSUME NEW s \in Sessions, StopAllClose(s) PROVE MgrTypeOK'
  BY <1>8 DEF StopAllClose
<1>9. CASE UNCHANGED mgrVars
  BY <1>9 DEF mgrVars
<1> QED BY <1>1, <1>2, <1>3, <1>4, <1>5, <1>6, <1>7, <1>8, <1>9
        DEF MgrNext, MgrStep, Insert

LEMMA MgrStepLimit ==
  ASSUME MgrTypeOK, IsFiniteSet(DOMAIN sessions), WithinLimit, [MgrNext]_mgrVars
  PROVE  IsFiniteSet(DOMAIN sessions') /\ WithinLimit'
<1>1. CASE UNCHANGED sessions
  BY <1>1 DEF WithinLimit
<1>2. ASSUME NEW s \in Sessions, Enter(s), Cardinality(DOMAIN sessions) < MaxConnections
      PROVE  IsFiniteSet(DOMAIN sessions') /\ WithinLimit'
  <2>1. DOMAIN sessions' = DOMAIN sessions \cup {id[s]}
    BY <1>2 DEF Enter
  <2> QED BY <1>2, <2>1, OneMoreFits DEF WithinLimit
<1>3. ASSUME NEW s \in Sessions, Unregister(s)
      PROVE  IsFiniteSet(DOMAIN sessions') /\ WithinLimit'
  <2>1. DOMAIN sessions' = DOMAIN sessions \ {id[s]}
    BY <1>3 DEF Unregister, Restrict
  <2>2. /\ IsFiniteSet(DOMAIN sessions')
        /\ Cardinality(DOMAIN sessions') <= Cardinality(DOMAIN sessions)
    BY <2>1, FS_Subset
  <2>3. Cardinality(DOMAIN sessions) \in Nat /\ Cardinality(DOMAIN sessions') \in Nat
    BY <2>2, FS_CardinalityType
  <2> QED BY <2>2, <2>3, ManagerAssumption DEF WithinLimit
<1>4. CASE StopAllSwap
  BY <1>4, EmptyFits DEF StopAllSwap, WithinLimit
<1>5. ASSUME NEW s \in Sessions, Insert(s)
      PROVE  UNCHANGED sessions
             \/ (Enter(s) /\ Cardinality(DOMAIN sessions) < MaxConnections)
  <2>1. Cardinality(DOMAIN sessions) \in Nat
    BY FS_CardinalityType
  <2>2. CASE Refuse(s) \/ Collide(s)
    BY <2>2 DEF Refuse, Collide
  <2>3. CASE Enter(s) /\ ~(Cardinality(DOMAIN sessions) >= MaxConnections)
    BY <2>1, <2>3, ManagerAssumption
  <2> QED BY <1>5, <2>2, <2>3 DEF Insert
<1> QED BY <1>1, <1>2, <1>3, <1>4, <1>5
        DEF MgrNext, MgrStep, Register, DrawId, StopAllClose, mgrVars

-----------------------------------------------------------------------------
\* A step that leaves the map and the sessions being stopped alone, and changes
\* only a session whose registration is under way, disturbs no ownership.
LEMMA RegisteringOwnsNothing ==
  ASSUME MgrTypeOK, Ownership, NEW s \in Sessions,
         status[s] \in {"new", "drawing", "inserting"},
         status' \in [Sessions -> Statuses], DOMAIN id' = Sessions,
         UNCHANGED <<sessions, to_stop, asked>>,
         \A t \in Sessions \ {s} : status'[t] = status[t] /\ id'[t] = id[t],
         status'[s] # "listed"
  PROVE  Ownership'
<1> USE DEF Ownership, MgrTypeOK
<1>1. s \notin to_stop \cup asked
  BY DEF SwappedAreSettled
<1>2. \A i \in DOMAIN sessions : sessions[i] \in Sessions \ {s}
  BY DEF EntriesAreOwned
<1>3. \A i : Stale(i) => Stale(i)'
  BY <1>1 DEF Stale
<1>4. ListedIsFound'
  BY <1>3 DEF ListedIsFound
<1>5. EntriesAreOwned'
  BY <1>2 DEF EntriesAreOwned
<1>6. SwappedAreSettled'
  BY <1>1 DEF SwappedAreSettled
<1> QED BY <1>4, <1>5, <1>6

LEMMA EnterOwnership ==
  ASSUME MgrTypeOK, Ownership, NEW s \in Sessions, status[s] = "inserting",
         id[s] \notin DOMAIN sessions, Enter(s), UNCHANGED <<to_stop, asked>>
  PROVE  Ownership'
<1> USE DEF Ownership, MgrTypeOK
<1>1. s \notin to_stop \cup asked
  BY DEF SwappedAreSettled
<1>2. \A i \in DOMAIN sessions : sessions[i] \in Sessions \ {s}
  BY DEF EntriesAreOwned
<1>3. /\ DOMAIN sessions' = DOMAIN sessions \cup {id[s]}
      /\ sessions'[id[s]] = s
      /\ \A i \in DOMAIN sessions : sessions'[i] = sessions[i]
  BY DEF Enter
<1>4. \A t \in Sessions \ {s} : status'[t] = status[t] /\ id'[t] = id[t]
  BY DEF Enter
<1>5. \/ status'[s] = "listed" /\ id'[s] = id[s]
      \/ LogFails /\ status'[s] = "refused"
  BY DEF Enter
<1>6. \A i : Stale(i) => Stale(i)'
  BY <1>1, <1>4 DEF Stale
<1>7. ListedIsFound'
  BY <1>3, <1>4, <1>5, <1>6 DEF ListedIsFound
<1>8. EntriesAreOwned'
  BY <1>2, <1>3, <1>4, <1>5 DEF EntriesAreOwned
<1>9. SwappedAreSettled'
  BY <1>1, <1>4 DEF SwappedAreSettled
<1> QED BY <1>7, <1>8, <1>9

\* Whoever leaves was found under its id, or its id is stale; either way what
\* it takes out is missed by nobody who is still owed an entry.
LEMMA UnregisterOwnership ==
  ASSUME MgrTypeOK, Ownership, NEW s \in Sessions, Unregister(s)
  PROVE  Ownership'
<1> USE DEF Ownership, MgrTypeOK
<1>1. /\ DOMAIN sessions' = DOMAIN sessions \ {id[s]}
      /\ \A i \in DOMAIN sessions' : sessions'[i] = sessions[i]
  BY DEF Unregister, Restrict
<1>2. /\ status[s] = "listed" /\ status'[s] = "left"
      /\ \A t \in Sessions \ {s} : status'[t] = status[t]
      /\ UNCHANGED <<id, to_stop, asked>>
  BY DEF Unregister
<1>3. \A i : Stale(i)' <=> Stale(i)
  BY <1>2 DEF Stale
<1>4. ListedIsFound'
  <2> SUFFICES ASSUME NEW t \in Sessions, status'[t] = "listed", ~Stale(id[t])
               PROVE  id[t] \in DOMAIN sessions' /\ sessions'[id[t]] = t
    BY <1>2, <1>3 DEF ListedIsFound
  <2>1. t # s /\ status[t] = "listed"
    BY <1>2
  <2>2. id[t] \in DOMAIN sessions /\ sessions[id[t]] = t
    BY <2>1 DEF ListedIsFound
  <2>3. id[t] # id[s]
    BY <1>2, <2>1, <2>2 DEF ListedIsFound
  <2> QED BY <1>1, <2>2, <2>3
<1>5. EntriesAreOwned'
  BY <1>1, <1>2 DEF EntriesAreOwned
<1>6. SwappedAreSettled'
  BY <1>2 DEF SwappedAreSettled
<1> QED BY <1>4, <1>5, <1>6

LEMMA SwapOwnership ==
  ASSUME MgrTypeOK, Ownership, StopAllSwap
  PROVE  Ownership'
<1> USE DEF Ownership, MgrTypeOK
<1>1. DOMAIN sessions' = {}
  BY DEF StopAllSwap, EmptyMap
<1>2. /\ to_stop' = to_stop \cup Range(sessions)
      /\ UNCHANGED <<status, id, asked>>
  BY DEF StopAllSwap
<1>3. \A i : Stale(i) => Stale(i)'
  BY <1>2 DEF Stale
<1>4. ListedIsFound'
  BY <1>2, <1>3 DEF ListedIsFound, Stale, Range
<1>5. EntriesAreOwned'
  BY <1>1 DEF EntriesAreOwned
<1>6. SwappedAreSettled'
  BY <1>2 DEF SwappedAreSettled, EntriesAreOwned, Range
<1> QED BY <1>4, <1>5, <1>6

LEMMA CloseOwnership ==
  ASSUME MgrTypeOK, Ownership, NEW s \in Sessions, StopAllClose(s)
  PROVE  Ownership'
<1>1. /\ to_stop' \cup asked' = to_stop \cup asked
      /\ UNCHANGED <<sessions, status, id>>
  BY DEF StopAllClose
<1> QED BY <1>1 DEF Ownership, ListedIsFound, EntriesAreOwned, SwappedAreSettled, Stale

LEMMA MgrStepOwnership ==
  ASSUME MgrTypeOK, Ownership, MgrTypeOK', [MgrNext]_mgrVars
  PROVE  Ownership'
<1>1. ASSUME NEW s \in Sessions, Register(s) PROVE Ownership'
  BY <1>1, RegisteringOwnsNothing DEF Register, MgrTypeOK
<1>2. ASSUME NEW s \in Sessions, DrawId(s) PROVE Ownership'
  BY <1>2, RegisteringOwnsNothing DEF DrawId, MgrTypeOK
<1>3. ASSUME NEW s \in Sessions, Insert(s) PROVE Ownership'
  <2>1. CASE Refuse(s)
    BY <1>3, <2>1, RegisteringOwnsNothing DEF Insert, Refuse, MgrTypeOK
  <2>2. CASE Collide(s)
    BY <1>3, <2>1, <2>2, RegisteringOwnsNothing DEF Insert, Collide, MgrTypeOK
  <2>3. CASE Enter(s) /\ id[s] \notin DOMAIN sessions
    BY <1>3, <2>3, EnterOwnership DEF Insert
  <2> QED BY <1>3, <2>1, <2>2, <2>3 DEF Insert
<1>4. ASSUME NEW s \in Sessions, StopAllClose(s) PROVE Ownership'
  BY <1>4, CloseOwnership
<1>5. CASE UNCHANGED mgrVars
  BY <1>5 DEF mgrVars, Ownership, ListedIsFound, EntriesAreOwned, SwappedAreSettled, Stale
<1> QED BY <1>1, <1>2, <1>3, <1>4, <1>5, UnregisterOwnership, SwapOwnership
        DEF MgrNext, MgrStep

-----------------------------------------------------------------------------
LEMMA MgrInvariant == MgrSpec => []MgrInductive
<1>1. MgrInit => MgrInductive
  BY MgrInitInductive
<1>2. MgrInductive /\ [MgrNext]_mgrVars => MgrInductive'
  BY MgrStepType, MgrStepLimit, MgrStepOwnership DEF MgrInductive, Ownership
<1> QED BY <1>1, <1>2, PTL DEF MgrSpec

\* Every variable keeps its type and no registration tries more than
\* MAX_SESSION_ID_RETRIES times (register_session).
THEOREM MgrTypeCorrect == MgrSpec => []MgrTypeOK
<1>1. MgrInductive => MgrTypeOK
  BY DEF MgrInductive
<1> QED BY <1>1, MgrInvariant, PTL

\* The map never exceeds the limit, however registrations, departures and
\* stop_all() interleave (register_session).
THEOREM WithinLimitAlways == MgrSpec => []WithinLimit
<1>1. MgrInductive => WithinLimit
  BY DEF MgrInductive
<1> QED BY <1>1, MgrInvariant, PTL

\* A registered session that stop_all() has not taken out is found under its id,
\* even if ids repeat (try_emplace, stop_all).
THEOREM ListedIsFoundAlways == MgrSpec => []ListedIsFound
<1>1. MgrInductive => ListedIsFound
  BY DEF MgrInductive
<1> QED BY <1>1, MgrInvariant, PTL

\* No entry outlives the registration it stands for, but for the one whose log
\* line threw (register_session, unregister_session).
THEOREM EntriesAreOwnedAlways == MgrSpec => []EntriesAreOwned
<1>1. MgrInductive => EntriesAreOwned
  BY DEF MgrInductive
<1> QED BY <1>1, MgrInvariant, PTL

\* A session that ends removes nobody else's entry (unregister_session).
THEOREM LeavesOwnEntryAlways == MgrSpec => LeavesOwnEntry
<1> DEFINE Leaving(s) ==
      status[s] # "left" /\ status'[s] = "left" /\ ~Stale(id[s]) =>
        \A i \in DOMAIN sessions : sessions[i] # s => i \in DOMAIN sessions'
<1>1. ASSUME MgrInductive, [MgrNext]_mgrVars, NEW s \in Sessions
      PROVE  Leaving(s)
  <2> SUFFICES ASSUME status[s] # "left", status'[s] = "left", ~Stale(id[s])
               PROVE  \A i \in DOMAIN sessions : sessions[i] # s => i \in DOMAIN sessions'
    OBVIOUS
  <2>1. Unregister(s)
    BY <1>1 DEF MgrInductive, MgrTypeOK, MgrNext, MgrStep, Register, DrawId, Insert,
                Refuse, Collide, Enter, Unregister, StopAllSwap, StopAllClose, mgrVars
  <2>2. sessions[id[s]] = s
    BY <1>1, <2>1 DEF MgrInductive, ListedIsFound, Unregister
  <2> QED BY <2>1, <2>2 DEF Unregister, Restrict
<1>2. MgrInductive /\ [MgrNext]_mgrVars => [\A s \in Sessions : Leaving(s)]_mgrVars
  BY <1>1
<1> QED BY <1>2, MgrInvariant, PTL DEF MgrSpec, LeavesOwnEntry
=============================================================================
