--------------------------- MODULE Program_proofs ---------------------------
(***************************************************************************)
(* The counters and the list of errors agree, in the tables and in every   *)
(* export, and the average time is not above the maximum, for any          *)
(* number of threads that record, export and reset, any durations and any  *)
(* number of errors that are remembered.                                   *)
(***************************************************************************)
EXTENDS Program, FiniteSetTheorems, TLAPS

\* The threads a table of places puts at one of them, and how many are there now.
Place(f, pc) == {t \in Threads : f[t] = pc}
N(pc)        == Cardinality(Place(at, pc))

\* The lock is held by whoever is between the two sections it spans.
LockHeld ==
  \A t \in Threads : at[t] \in {"read_errors", "clear_errors"} <=> export_lock = t

\* What the list and the counters are at any time while no reset() has met a
\* recording: threads that have listed an error have yet to count it.
Tally ==
  ~torn =>
    /\ N("clear_errors") = 0 \/ (N("count_all") = 0 /\ N("count_type") = 0)
    /\ N("clear_errors") = 0 =>
         /\ all = typed + N("count_type")
         /\ listed = IF all + N("count_all") <= ErrorCap
                     THEN all + N("count_all") ELSE ErrorCap
    /\ N("clear_errors") # 0 => all = 0 /\ typed = 0

\* What an export has counted it will find listed.
ExportBehind ==
  ~torn /\ N("read_errors") # 0 => exported <= listed \/ listed = ErrorCap

ErrorsInductive == MetricsTypeOK /\ LockHeld /\ Tally /\ ExportBehind /\ ExportedErrors

\* b is above the maximum and above whatever may still become the maximum.
AllBelow(b) ==
  max <= b /\ \A t \in Threads : at[t] \in Updating => time[t] <= b

\* While no reset() has met an update, the times that were added up are as many
\* as were counted or are about to be, and all of them are below such a bound.
SumBelow ==
  /\ Quiet(Updating) \/ Quiet(Zeroing)
  /\ ~Quiet(Zeroing) => total = 0
  /\ \A b \in Nat : AllBelow(b) => total <= (count + N("count_time")) * b

\* Who is about to swap the maximum has found it below its own time.
SwapsUp == \A t \in Threads : at[t] = "swap_max" => seen[t] < time[t]

TimesOK == SwapsUp /\ (~mixed => SumBelow)

MetricsStep(t) ==
  UpdateStep(t) \/ ZeroStep(t) \/ RecordStep(t) \/ ExportStep(t) \/ ClearStep(t)

-----------------------------------------------------------------------------
(* How many threads are at a place                                          *)

LEMMA PlaceIsFinite ==
  ASSUME NEW f, NEW pc
  PROVE  /\ IsFiniteSet(Place(f, pc)) /\ Cardinality(Place(f, pc)) \in Nat
         /\ Cardinality(Place(f, pc)) = 0 <=> \A t \in Threads : f[t] # pc
<1>1. Place(f, pc) \subseteq Threads
  BY DEF Place
<1>2. IsFiniteSet(Place(f, pc))
  BY <1>1, MetricsAssumption, FS_Subset
<1>3. Cardinality(Place(f, pc)) = 0 <=> Place(f, pc) = {}
  BY <1>2, FS_EmptySet
<1> QED BY <1>2, <1>3, FS_CardinalityType DEF Place

LEMMA Counts ==
  ASSUME NEW pc
  PROVE  /\ N(pc) \in Nat /\ N(pc)' \in Nat
         /\ N(pc) = 0 <=> \A t \in Threads : at[t] # pc
         /\ N(pc)' = 0 <=> \A t \in Threads : at'[t] # pc
BY PlaceIsFinite DEF N

\* A thread that goes from one place to another is one less there, one more here.
LEMMA Moves ==
  ASSUME DOMAIN at = Threads, NEW t \in Threads, NEW from, NEW here,
         at[t] = from, Goes(t, here), from # here
  PROVE  /\ N(from)' = N(from) - 1 /\ N(from) > 0
         /\ N(here)' = N(here) + 1
         /\ \A pc : pc # from /\ pc # here => N(pc)' = N(pc)
<1>1. Place(at', from) = Place(at, from) \ {t} /\ t \in Place(at, from)
  BY DEF Goes, Place
<1>2. Place(at', here) = Place(at, here) \cup {t} /\ t \notin Place(at, here)
  BY DEF Goes, Place
<1>3. \A pc : pc # from /\ pc # here => Place(at', pc) = Place(at, pc)
  BY DEF Goes, Place
<1>4. N(from)' = N(from) - 1
  BY <1>1, PlaceIsFinite, FS_RemoveElement DEF N
<1>5. N(from) > 0
  <2>1. N(from) # 0
    BY Counts
  <2> QED BY <2>1, Counts
<1>6. N(here)' = N(here) + 1
  BY <1>2, PlaceIsFinite, FS_AddElement DEF N
<1>7. \A pc : pc # from /\ pc # here => N(pc)' = N(pc)
  BY <1>3 DEF N
<1> QED BY <1>4, <1>5, <1>6, <1>7

LEMMA Stays ==
  ASSUME UNCHANGED at
  PROVE  \A pc : N(pc)' = N(pc)
BY DEF N

\* A step that is not torn has nobody recording while another clears.
LEMMA NotTorn ==
  ASSUME Tears, MetricsTypeOK, ~torn'
  PROVE  /\ ~torn
         /\ N("clear_errors")' = 0 \/ (N("count_all")' = 0 /\ N("count_type")' = 0)
<1>1. ~torn /\ ~(SomeAt(Recording) /\ SomeAt({"clear_errors"}))
  BY Zenon DEF Tears
<1>2. CASE ~SomeAt(Recording)
  <2>1. \A t \in Threads : at'[t] # "count_all" /\ at'[t] # "count_type"
    BY <1>2 DEF SomeAt, Recording
  <2>2. N("count_all")' = 0 /\ N("count_type")' = 0
    BY <2>1, Counts
  <2> QED BY <1>1, <2>2
<1>3. CASE ~SomeAt({"clear_errors"})
  <2>1. \A t \in Threads : at'[t] # "clear_errors"
    BY <1>3 DEF SomeAt
  <2> QED BY <1>1, <2>1, Counts
<1> QED BY <1>1, <1>2, <1>3

-----------------------------------------------------------------------------
(* Types                                                                    *)

Kept == {"idle", "read_errors", "clear_errors"} \cup Updating \cup Zeroing \cup Recording

\* The types of the thread table, of the times and of the errors.
AtType    == at \in [Threads -> Kept] /\ calls \in Nat
TimeType  ==
  /\ time \in [Threads -> Nat] /\ seen \in [Threads -> Nat]
  /\ total \in Nat /\ count \in Nat /\ max \in Nat /\ mixed \in BOOLEAN
ErrorType ==
  /\ all \in Nat /\ typed \in Nat /\ exported \in Nat /\ listed \in 0..ErrorCap
  /\ report \in [total : Nat, listed : 0..ErrorCap]
  /\ export_lock \in Threads \cup {None} /\ torn \in BOOLEAN

LEMMA Types == MetricsTypeOK <=> AtType /\ TimeType /\ ErrorType
BY DEF MetricsTypeOK, AtType, TimeType, ErrorType, Kept

LEMMA MixesType == ASSUME Mixes PROVE mixed' \in BOOLEAN
BY Zenon DEF Mixes

LEMMA TearsType == ASSUME Tears PROVE torn' \in BOOLEAN
BY Zenon DEF Tears

\* Where a step takes a thread from and to.
LEMMA UpdateMoves ==
  ASSUME AtType, TimeType, NEW t \in Threads, UpdateStep(t) \/ ZeroStep(t)
  PROVE  /\ AtType' /\ TimeType' /\ UNCHANGED errorVars
         /\ at[t] \in {"idle"} \cup Updating \cup Zeroing
         /\ \E here \in {"idle"} \cup Updating \cup Zeroing : Goes(t, here)
<1> USE DEF AtType, Kept, Updating, Zeroing, Goes, Steps, Calls
<1>1. CASE Update(t)
  <2>1. TimeType'
    BY <1>1, MixesType, MetricsAssumption DEF Update, TimeType
  <2> QED BY <1>1, <2>1 DEF Update
<1>2. CASE CountTime(t)
  <2>1. TimeType'
    BY <1>2, MixesType DEF CountTime, TimeType
  <2> QED BY <1>2, <2>1 DEF CountTime
<1>3. ASSUME Compare(t)
      PROVE  /\ time' \in [Threads -> Nat] /\ seen' \in [Threads -> Nat]
             /\ \E here \in {"idle", "swap_max"} : Goes(t, here)
  BY <1>3 DEF Compare, Swaps, Returns, TimeType
<1>4. CASE LoadMax(t)
  <2>1. TimeType'
    BY <1>3, <1>4, MixesType DEF LoadMax, TimeType
  <2> QED BY <1>3, <1>4, <2>1 DEF LoadMax
<1>5. CASE SwapMax(t)
  <2>1. TimeType'
    BY <1>3, <1>5, MixesType DEF SwapMax, Returns, TimeType
  <2>2. \E here \in {"idle", "swap_max"} : Goes(t, here)
    BY <1>3, <1>5 DEF SwapMax, Returns
  <2> QED BY <1>5, <2>1, <2>2 DEF SwapMax
<1>6. CASE ZeroStep(t)
  <2>1. TimeType'
    BY <1>6, MixesType DEF ZeroStep, ZeroTotal, ZeroCount, ZeroMax, TimeType
  <2> QED BY <1>6, <2>1 DEF ZeroStep, ZeroTotal, ZeroCount, ZeroMax
<1> QED BY <1>1, <1>2, <1>4, <1>5, <1>6 DEF UpdateStep

LEMMA RecordType ==
  ASSUME AtType, TimeType, ErrorType, NEW t \in Threads,
         RecordStep(t) \/ ExportStep(t) \/ ClearStep(t)
  PROVE  AtType' /\ TimeType' /\ ErrorType'
<1>1. AtType' /\ TimeType'
  BY DEF RecordStep, PushError, CountAll, CountType, ExportStep, ExportCounters,
         ExportErrors, ClearStep, ClearCounters, ClearErrors, timeVars,
         AtType, TimeType, Kept, Recording, Goes, Steps, Calls
<1>2. torn' \in BOOLEAN
  BY TearsType DEF RecordStep, PushError, CountAll, CountType, ExportStep,
     ExportCounters, ExportErrors, ClearStep, ClearCounters, ClearErrors
<1>3. ASSUME RecordStep(t) PROVE ErrorType'
  BY <1>2, <1>3, MetricsAssumption
  DEF RecordStep, PushError, CountAll, CountType, Trimmed, ErrorType
<1>4. ASSUME ExportStep(t) PROVE ErrorType'
  BY <1>2, <1>4 DEF ExportStep, ExportCounters, ExportErrors, Lock, Unlock, ErrorType
<1>5. ASSUME ClearStep(t) PROVE ErrorType'
  BY <1>2, <1>5, MetricsAssumption
  DEF ClearStep, ClearCounters, ClearErrors, Lock, Unlock, ErrorType
<1> QED BY <1>1, <1>3, <1>4, <1>5

-----------------------------------------------------------------------------
(* The lock                                                                 *)

LEMMA LockStep ==
  ASSUME MetricsTypeOK, LockHeld, NEW t \in Threads, MetricsStep(t)
  PROVE  LockHeld'
<1> USE Types DEF LockHeld, AtType
<1>1. CASE UpdateStep(t) \/ ZeroStep(t)
  <2>1. export_lock' = export_lock
    BY <1>1, UpdateMoves DEF errorVars
  <2>2. PICK here \in {"idle"} \cup Updating \cup Zeroing : Goes(t, here)
    BY <1>1, UpdateMoves
  <2>3. {at[t], here} \cap {"read_errors", "clear_errors"} = {}
    BY <1>1, <2>2, UpdateMoves DEF Updating, Zeroing
  <2> QED BY <2>1, <2>2, <2>3 DEF Goes
<1>2. CASE RecordStep(t)
  BY <1>2 DEF RecordStep, PushError, CountAll, CountType, Goes, Steps, Calls
<1>3. CASE ExportStep(t)
  BY <1>3, MetricsAssumption
  DEF ExportStep, ExportCounters, ExportErrors, Lock, Unlock, Goes, Steps
<1>4. CASE ClearStep(t)
  BY <1>4, MetricsAssumption
  DEF ClearStep, ClearCounters, ClearErrors, Lock, Unlock, Goes, Steps, Calls
<1> QED BY <1>1, <1>2, <1>3, <1>4 DEF MetricsStep

\* Between its two sections a thread has the lock for itself.
LEMMA Alone ==
  ASSUME LockHeld, AtType, NEW t \in Threads, at[t] \in {"read_errors", "clear_errors"}
  PROVE  \A u \in Threads \ {t} : at[u] \notin {"read_errors", "clear_errors"}
BY DEF LockHeld

LEMMA Unlocked ==
  ASSUME LockHeld, AtType, export_lock = None
  PROVE  N("read_errors") = 0 /\ N("clear_errors") = 0
BY MetricsAssumption, Counts DEF LockHeld

-----------------------------------------------------------------------------
(* The tally                                                                *)

ErrorsOK == Tally /\ ExportBehind /\ ExportedErrors

\* Updates and resets of the times leave the errors alone.
LEMMA UpdateErrors ==
  ASSUME MetricsTypeOK, ErrorsOK, NEW t \in Threads, UpdateStep(t) \/ ZeroStep(t)
  PROVE  ErrorsOK'
<1>1. UNCHANGED errorVars /\ DOMAIN at = Threads
  BY Types, UpdateMoves DEF AtType
<1>2. PICK here \in {"idle"} \cup Updating \cup Zeroing : Goes(t, here)
  BY Types, UpdateMoves
<1>3. ASSUME NEW pc \in {"read_errors", "clear_errors", "count_all", "count_type"}
      PROVE  N(pc)' = N(pc)
  <2>1. pc # at[t] /\ pc # here
    BY Types, UpdateMoves DEF Updating, Zeroing
  <2>2. Place(at', pc) = Place(at, pc)
    BY <1>1, <1>2, <2>1 DEF Goes, Place
  <2> QED BY <2>2 DEF N
<1> QED BY <1>1, <1>3 DEF ErrorsOK, Tally, ExportBehind, ExportedErrors, errorVars

LEMMA PushErrors ==
  ASSUME MetricsTypeOK, LockHeld, ErrorsOK, NEW t \in Threads, PushError(t)
  PROVE  ErrorsOK'
<1>1. AtType /\ ErrorType /\ DOMAIN at = Threads
  BY Types DEF AtType
<1>2. at[t] = "idle" /\ Goes(t, "count_all") /\ Tears
  BY DEF PushError, Calls
<1>3. /\ listed' = Trimmed(listed + 1)
      /\ UNCHANGED <<all, typed, exported, report>>
  BY DEF PushError
<1>4. /\ N("count_all")' = N("count_all") + 1
      /\ \A pc \in {"read_errors", "clear_errors", "count_type"} : N(pc)' = N(pc)
  BY <1>1, <1>2, Moves
<1>5. SUFFICES ASSUME ~torn' PROVE ErrorsOK'
  BY DEF ErrorsOK, Tally, ExportBehind, ExportedErrors
<1>6. ~torn /\ N("clear_errors") = 0
  <2>1. N("count_all")' # 0
    BY <1>4, Counts
  <2> QED BY <1>2, <1>4, <1>5, <2>1, NotTorn
<1>7. N("count_all") \in Nat /\ all \in Nat /\ listed \in 0..ErrorCap /\ ErrorCap \in Nat \ {0}
  BY <1>1, Counts, MetricsAssumption DEF ErrorType
<1>8. listed' = IF listed = ErrorCap THEN ErrorCap ELSE listed + 1
  BY <1>3, <1>7 DEF Trimmed
<1>9. Tally'
  BY <1>3, <1>4, <1>6, <1>7, <1>8 DEF ErrorsOK, Tally
<1>10. ExportBehind'
  BY <1>1, <1>3, <1>4, <1>6, <1>7, <1>8 DEF ErrorsOK, ExportBehind, ErrorType
<1>11. ExportedErrors'
  BY <1>3, <1>6 DEF ErrorsOK, ExportedErrors
<1> QED BY <1>9, <1>10, <1>11 DEF ErrorsOK

LEMMA CountErrors ==
  ASSUME MetricsTypeOK, LockHeld, ErrorsOK, NEW t \in Threads, CountAll(t) \/ CountType(t)
  PROVE  ErrorsOK'
<1>1. AtType /\ ErrorType /\ DOMAIN at = Threads
  BY Types DEF AtType
<1>2. UNCHANGED <<listed, exported, report>> /\ Tears
  BY DEF CountAll, CountType
<1>3. SUFFICES ASSUME ~torn' PROVE ErrorsOK'
  BY DEF ErrorsOK, Tally, ExportBehind, ExportedErrors
<1>4. ~torn
  BY <1>2, <1>3, NotTorn
<1>5. /\ N("count_all") \in Nat /\ N("count_type") \in Nat
      /\ all \in Nat /\ typed \in Nat /\ ErrorCap \in Nat
  BY <1>1, Counts, MetricsAssumption DEF ErrorType
<1>6. \A pc \in {"read_errors", "clear_errors"} : N(pc)' = N(pc)
  BY <1>1, Moves DEF CountAll, CountType, Steps
<1>7. N("clear_errors") = 0
  <2>1. N("count_all") > 0 \/ N("count_type") > 0
    BY <1>1, Moves DEF CountAll, CountType, Steps
  <2> QED BY <1>4, <2>1 DEF ErrorsOK, Tally
<1>8. CASE CountAll(t)
  <2>1. at[t] = "count_all" /\ Goes(t, "count_type") /\ all' = all + 1 /\ typed' = typed
    BY <1>8 DEF CountAll, Steps
  <2>2. /\ N("count_all")' = N("count_all") - 1
        /\ N("count_type")' = N("count_type") + 1
    BY <1>1, <2>1, Moves
  <2> QED BY <1>2, <1>4, <1>5, <1>6, <1>7, <2>1, <2>2
          DEF ErrorsOK, Tally, ExportBehind, ExportedErrors
<1>9. CASE CountType(t)
  <2>1. at[t] = "count_type" /\ Goes(t, "idle") /\ all' = all /\ typed' = typed + 1
    BY <1>9 DEF CountType, Steps
  <2>2. /\ N("count_type")' = N("count_type") - 1
        /\ N("count_all")' = N("count_all")
    BY <1>1, <2>1, Moves
  <2> QED BY <1>2, <1>4, <1>5, <1>6, <1>7, <2>1, <2>2
          DEF ErrorsOK, Tally, ExportBehind, ExportedErrors
<1> QED BY <1>8, <1>9

LEMMA ExportErrorsOK ==
  ASSUME MetricsTypeOK, LockHeld, ErrorsOK, NEW t \in Threads, ExportStep(t)
  PROVE  ErrorsOK'
<1>1. AtType /\ ErrorType /\ DOMAIN at = Threads
  BY Types DEF AtType
<1>2. UNCHANGED <<all, typed, listed>> /\ Tears
  BY DEF ExportStep, ExportCounters, ExportErrors
<1>3. SUFFICES ASSUME ~torn' PROVE ErrorsOK'
  BY DEF ErrorsOK, Tally, ExportBehind, ExportedErrors
<1>4. ~torn
  BY <1>2, <1>3, NotTorn
<1>5. \A pc \in {"clear_errors", "count_all", "count_type"} : N(pc)' = N(pc)
  BY <1>1, Moves DEF ExportStep, ExportCounters, ExportErrors, Steps
<1>6. Tally'
  BY <1>2, <1>4, <1>5 DEF ErrorsOK, Tally
<1>7. CASE ExportCounters(t)
  <2>1. exported' = all /\ report' = report /\ export_lock = None
    BY <1>7 DEF ExportCounters, Lock
  <2>2. N("clear_errors") = 0
    BY <1>1, <2>1, Unlocked
  <2>3. all <= listed \/ listed = ErrorCap
    <3>1. N("count_all") \in Nat /\ all \in Nat /\ ErrorCap \in Nat
      BY <1>1, Counts, MetricsAssumption DEF ErrorType
    <3> QED BY <1>4, <2>2, <3>1 DEF ErrorsOK, Tally
  <2> QED BY <1>2, <1>4, <1>6, <2>1, <2>3 DEF ErrorsOK, ExportBehind, ExportedErrors
<1>8. CASE ExportErrors(t)
  <2>1. /\ report' = [total |-> exported, listed |-> listed]
        /\ at[t] = "read_errors" /\ Goes(t, "idle")
    BY <1>8 DEF ExportErrors, Steps
  <2>2. exported <= listed \/ listed = ErrorCap
    BY <1>4, <2>1, Counts DEF ErrorsOK, ExportBehind
  <2>3. ExportedErrors'
    BY <2>1, <2>2 DEF ExportedErrors
  <2>4. N("read_errors")' = 0
    BY <1>1, <2>1, Alone, Counts DEF Goes
  <2> QED BY <1>6, <2>3, <2>4 DEF ErrorsOK, ExportBehind
<1> QED BY <1>7, <1>8 DEF ExportStep

LEMMA ClearErrorsOK ==
  ASSUME MetricsTypeOK, LockHeld, ErrorsOK, NEW t \in Threads, ClearStep(t)
  PROVE  ErrorsOK'
<1>1. AtType /\ ErrorType /\ DOMAIN at = Threads
  BY Types DEF AtType
<1>2. UNCHANGED <<exported, report>> /\ Tears
  BY DEF ClearStep, ClearCounters, ClearErrors
<1>3. SUFFICES ASSUME ~torn' PROVE ErrorsOK'
  BY DEF ErrorsOK, Tally, ExportBehind, ExportedErrors
<1>4. ~torn
  BY <1>2, <1>3, NotTorn
<1>5. ExportedErrors'
  BY <1>2, <1>4 DEF ErrorsOK, ExportedErrors
<1>6. CASE ClearCounters(t)
  <2>1. /\ at[t] = "idle" /\ Goes(t, "clear_errors") /\ export_lock = None
        /\ all' = 0 /\ typed' = 0
    BY <1>6 DEF ClearCounters, Calls, Lock
  <2>2. /\ N("clear_errors")' = N("clear_errors") + 1
        /\ N("read_errors")' = N("read_errors")
    BY <1>1, <2>1, Moves
  <2>3. N("clear_errors")' # 0 /\ N("read_errors")' = 0
    BY <1>1, <2>1, <2>2, Unlocked
  <2>4. N("count_all")' = 0 /\ N("count_type")' = 0
    BY <1>2, <1>3, <2>3, NotTorn
  <2> QED BY <1>5, <2>1, <2>3, <2>4 DEF ErrorsOK, Tally, ExportBehind
<1>7. CASE ClearErrors(t)
  <2>1. /\ at[t] = "clear_errors" /\ Goes(t, "idle")
        /\ listed' = 0 /\ UNCHANGED <<all, typed>>
    BY <1>7 DEF ClearErrors, Steps
  <2>2. N("clear_errors") # 0
    BY <2>1, Counts
  <2>3. \A pc \in {"count_all", "count_type"} : N(pc)' = N(pc) /\ N(pc) = 0
    BY <1>1, <1>4, <2>1, <2>2, Moves DEF ErrorsOK, Tally
  <2>4. N("clear_errors")' = 0 /\ N("read_errors")' = 0
    BY <1>1, <2>1, Alone, Counts DEF Goes
  <2>5. all = 0 /\ typed = 0
    BY <1>4, <2>2 DEF ErrorsOK, Tally
  <2> QED BY <1>5, <2>1, <2>3, <2>4, <2>5, MetricsAssumption
          DEF ErrorsOK, Tally, ExportBehind
<1> QED BY <1>6, <1>7 DEF ClearStep

-----------------------------------------------------------------------------
(* The times                                                                *)

LEMMA ProductIsNat == \A n, b \in Nat : n * b \in Nat
OBVIOUS

\* One more number below b.
LEMMA OneMoreBelow ==
  ASSUME NEW n \in Nat, NEW b \in Nat, NEW s \in Nat, NEW d \in Nat, s <= n * b, d <= b
  PROVE  s + d <= (n + 1) * b
<1>1. (n + 1) * b = n * b + b
  OBVIOUS
<1>2. n * b \in Nat
  BY ProductIsNat
<1> QED BY <1>1, <1>2

\* A step after which nothing is mixed has no update beside a reset.
LEMMA NotMixed ==
  ASSUME Mixes, ~mixed'
  PROVE  ~mixed /\ (Quiet(Updating)' \/ Quiet(Zeroing)')
<1>1. ~mixed /\ ~(SomeAt(Updating) /\ SomeAt(Zeroing))
  BY Zenon DEF Mixes
<1> QED BY <1>1, Zenon DEF SomeAt, Quiet

\* An update adds its time before it counts it.
LEMMA UpdateTimes ==
  ASSUME AtType, TimeType, TimesOK, NEW t \in Threads, Update(t)
  PROVE  TimesOK'
<1> USE DEF AtType, TimeType, Updating, Zeroing
<1>1. PICK d \in Times : total' = total + d /\ time' = [time EXCEPT ![t] = d]
  BY DEF Update
<1>2. at[t] = "idle" /\ Goes(t, "count_time") /\ Mixes /\ UNCHANGED <<seen, count, max>>
  BY DEF Update, Calls
<1>3. d \in Nat
  BY MetricsAssumption
<1>4. at'[t] = "count_time" /\ \A u \in Threads \ {t} : at'[u] = at[u] /\ time'[u] = time[u]
  BY <1>1, <1>2 DEF Goes
<1>5. SwapsUp'
  BY <1>2, <1>4 DEF TimesOK, SwapsUp
<1>6. ASSUME ~mixed' PROVE SumBelow'
  <2>1. ~mixed /\ (Quiet(Updating)' \/ Quiet(Zeroing)')
    BY <1>2, <1>6, NotMixed
  <2>2. Quiet(Zeroing)'
    BY <1>4, <2>1 DEF Quiet
  <2>3. N("count_time")' = N("count_time") + 1 /\ N("count_time") \in Nat
    BY <1>2, Moves, Counts
  <2>4. ASSUME NEW b \in Nat, AllBelow(b)'
        PROVE  total' <= (count' + N("count_time")') * b
    <3>1. AllBelow(b) /\ d <= b
      BY <1>1, <1>2, <1>4, <2>4 DEF AllBelow
    <3>2. total <= (count + N("count_time")) * b
      BY <2>1, <3>1 DEF TimesOK, SumBelow
    <3>3. count + N("count_time") \in Nat /\ total \in Nat
      BY <2>3
    <3>4. total + d <= (count + N("count_time") + 1) * b
      BY <1>3, <3>1, <3>2, <3>3, OneMoreBelow
    <3>5. count' + N("count_time")' = count + N("count_time") + 1
      BY <1>2, <2>3
    <3> QED BY <1>1, <3>4, <3>5
  <2> QED BY <2>1, <2>2, <2>4 DEF SumBelow
<1> QED BY <1>5, <1>6 DEF TimesOK

\* The rest of an update: the sum stays, and what was counted or about to be.
LEMMA SettleTimes ==
  ASSUME AtType, TimeType, TimesOK, NEW t \in Threads, NEW here,
         at[t] \in Updating, Goes(t, here), here \in Updating \cup {"idle"}, Mixes, SwapsUp',
         total' = total, count' + N("count_time")' = count + N("count_time"),
         \A b \in Nat : AllBelow(b)' => AllBelow(b)
  PROVE  TimesOK'
<1> SUFFICES ASSUME ~mixed' PROVE SumBelow'
  BY DEF TimesOK
<1>1. ~mixed /\ (Quiet(Updating)' \/ Quiet(Zeroing)')
  BY NotMixed
<1>2. ~Quiet(Zeroing)' => ~Quiet(Zeroing)
  BY DEF Quiet, Goes, AtType, Updating, Zeroing
<1> QED BY <1>1, <1>2 DEF TimesOK, SumBelow

LEMMA CountTimes ==
  ASSUME AtType, TimeType, TimesOK, NEW t \in Threads, CountTime(t)
  PROVE  TimesOK'
<1> USE DEF AtType, TimeType, Updating
<1>1. /\ at[t] = "count_time" /\ Goes(t, "load_max") /\ Mixes
      /\ count' = count + 1 /\ UNCHANGED <<time, seen, total, max>>
  BY DEF CountTime, Steps
<1>2. count' + N("count_time")' = count + N("count_time")
  <2>1. N("count_time")' = N("count_time") - 1 /\ N("count_time") \in Nat
    BY <1>1, Moves, Counts
  <2> QED BY <1>1, <2>1
<1>3. \A u \in Threads : at'[u] \in Updating <=> at[u] \in Updating
  BY <1>1 DEF Goes
<1>4. \A b \in Nat : AllBelow(b)' => AllBelow(b)
  BY <1>1, <1>3 DEF AllBelow
<1>5. SwapsUp'
  BY <1>1 DEF TimesOK, SwapsUp, Goes
<1> QED BY <1>1, <1>2, <1>4, <1>5, SettleTimes

\* What the loop makes of the maximum it has read.
LEMMA CompareTimes ==
  ASSUME AtType, TimeType, TimesOK, NEW t \in Threads, at[t] \in {"load_max", "swap_max"},
         Compare(t), Mixes, UNCHANGED <<total, count, max>>
  PROVE  TimesOK'
<1> USE DEF AtType, TimeType, Updating
<1>1. CASE time[t] > max
  <2>1. Goes(t, "swap_max") /\ seen' = [seen EXCEPT ![t] = max] /\ time' = time
    BY <1>1 DEF Compare, Swaps
  <2>2. N("count_time")' = N("count_time")
    <3>1. Place(at', "count_time") = Place(at, "count_time")
      BY <2>1 DEF Goes, Place
    <3> QED BY <3>1 DEF N
  <2>3. \A u \in Threads : at'[u] \in Updating <=> at[u] \in Updating
    BY <2>1 DEF Goes
  <2>4. \A b \in Nat : AllBelow(b)' => AllBelow(b)
    BY <2>1, <2>3 DEF AllBelow
  <2>5. SwapsUp'
    BY <1>1, <2>1 DEF TimesOK, SwapsUp, Goes
  <2> QED BY <2>1, <2>2, <2>4, <2>5, SettleTimes
<1>2. CASE ~(time[t] > max)
  <2>1. Goes(t, "idle") /\ time' = [time EXCEPT ![t] = 0] /\ seen' = [seen EXCEPT ![t] = 0]
    BY <1>2 DEF Compare, Returns
  <2>2. N("count_time")' = N("count_time")
    <3>1. Place(at', "count_time") = Place(at, "count_time")
      BY <2>1 DEF Goes, Place
    <3> QED BY <3>1 DEF N
  <2>3. \A b \in Nat : AllBelow(b)' => AllBelow(b)
    BY <1>2, <2>1 DEF AllBelow, Goes
  <2>4. SwapsUp'
    BY <2>1 DEF TimesOK, SwapsUp, Goes
  <2> QED BY <2>1, <2>2, <2>3, <2>4, SettleTimes
<1> QED BY <1>1, <1>2

\* The maximum that is swapped in is above the one it replaces.
LEMMA SwapTimes ==
  ASSUME AtType, TimeType, TimesOK, NEW t \in Threads, SwapMax(t)
  PROVE  TimesOK'
<1> USE DEF AtType, TimeType, Updating
<1>1. at[t] = "swap_max" /\ Mixes /\ UNCHANGED <<total, count>>
  BY DEF SwapMax
<1>2. CASE max # seen[t] /\ Compare(t) /\ UNCHANGED max
  BY <1>1, <1>2, CompareTimes
<1>3. CASE max = seen[t] /\ max' = time[t] /\ Returns(t)
  <2>1. Goes(t, "idle") /\ time' = [time EXCEPT ![t] = 0] /\ seen' = [seen EXCEPT ![t] = 0]
    BY <1>3 DEF Returns
  <2>2. N("count_time")' = N("count_time")
    <3>1. Place(at', "count_time") = Place(at, "count_time")
      BY <1>1, <2>1 DEF Goes, Place
    <3> QED BY <3>1 DEF N
  <2>3. max < max'
    BY <1>1, <1>3 DEF TimesOK, SwapsUp
  <2>4. \A b \in Nat : AllBelow(b)' => AllBelow(b)
    BY <1>3, <2>1, <2>3 DEF AllBelow, Goes
  <2>5. SwapsUp'
    BY <2>1 DEF TimesOK, SwapsUp, Goes
  <2> QED BY <1>1, <2>1, <2>2, <2>4, <2>5, SettleTimes
<1> QED BY <1>2, <1>3 DEF SwapMax

\* A reset that no update meets finds the sum zero after its first step.
LEMMA ZeroTimes ==
  ASSUME AtType, TimeType, TimesOK, NEW t \in Threads, ZeroStep(t), AtType', TimeType'
  PROVE  TimesOK'
<1> USE DEF AtType, TimeType, Updating, Zeroing
<1>1. Mixes /\ UNCHANGED <<time, seen>>
  BY DEF ZeroStep, ZeroTotal, ZeroCount, ZeroMax
<1>2. PICK here \in {"idle", "zero_count", "zero_max"} : Goes(t, here)
  BY DEF ZeroStep, ZeroTotal, ZeroCount, ZeroMax, Steps, Calls
<1>3. SwapsUp'
  BY <1>1, <1>2 DEF TimesOK, SwapsUp, Goes
<1>4. ASSUME ~mixed' PROVE SumBelow'
  <2>1. ~mixed /\ (Quiet(Updating)' \/ Quiet(Zeroing)')
    BY <1>1, <1>4, NotMixed
  <2>2. total' = 0
    <3>1. CASE ZeroTotal(t)
      BY <3>1 DEF ZeroTotal
    <3>2. CASE ZeroCount(t) \/ ZeroMax(t)
      <4>1. at[t] \in Zeroing /\ total' = total
        BY <3>2 DEF ZeroCount, ZeroMax, Steps
      <4> QED BY <2>1, <4>1 DEF TimesOK, SumBelow, Quiet
    <3> QED BY <3>1, <3>2 DEF ZeroStep
  <2>3. ASSUME NEW b \in Nat PROVE total' <= (count' + N("count_time")') * b
    <3>1. count' + N("count_time")' \in Nat
      BY Counts
    <3>2. (count' + N("count_time")') * b \in Nat
      BY <3>1, ProductIsNat
    <3> QED BY <2>2, <3>2
  <2> QED BY <2>1, <2>2, <2>3 DEF SumBelow
<1> QED BY <1>3, <1>4 DEF TimesOK

\* Errors, exports and their resets leave the times alone.
LEMMA ErrorTimes ==
  ASSUME AtType, TimesOK, NEW t \in Threads, RecordStep(t) \/ ExportStep(t) \/ ClearStep(t)
  PROVE  TimesOK'
<1> DEFINE Elsewhere == {"idle", "read_errors", "clear_errors"} \cup Recording
<1>1. UNCHANGED <<time, seen, total, count, max, mixed>>
  BY DEF RecordStep, PushError, CountAll, CountType, ExportStep, ExportCounters,
         ExportErrors, ClearStep, ClearCounters, ClearErrors, timeVars
<1>2. at[t] \in Elsewhere /\ \E here \in Elsewhere : Goes(t, here)
  BY DEF RecordStep, PushError, CountAll, CountType, ExportStep, ExportCounters,
         ExportErrors, ClearStep, ClearCounters, ClearErrors, Recording, Steps, Calls
<1>3. \A u \in Threads :
        at'[u] = at[u]
        \/ {at[u], at'[u]} \cap (Updating \cup Zeroing) = {}
  BY <1>2 DEF Goes, AtType, Updating, Zeroing, Recording
<1>4. \A u \in Threads :
        /\ at'[u] \in Updating <=> at[u] \in Updating
        /\ at'[u] \in Zeroing <=> at[u] \in Zeroing
        /\ \A pc \in {"count_time", "swap_max"} : at'[u] = pc <=> at[u] = pc
  BY <1>3 DEF Updating
<1>5. N("count_time")' = N("count_time")
  <2>1. Place(at', "count_time") = Place(at, "count_time")
    BY <1>4 DEF Place
  <2> QED BY <2>1 DEF N
<1>6. SwapsUp'
  BY <1>1, <1>4 DEF TimesOK, SwapsUp
<1>7. Quiet(Updating)' = Quiet(Updating) /\ Quiet(Zeroing)' = Quiet(Zeroing)
  BY <1>4 DEF Quiet
<1>8. \A b : AllBelow(b)' <=> AllBelow(b)
  BY <1>1, <1>4 DEF AllBelow
<1> QED BY <1>1, <1>5, <1>6, <1>7, <1>8 DEF TimesOK, SumBelow

LEMMA TimesStep ==
  ASSUME MetricsTypeOK, TimesOK, NEW t \in Threads, MetricsStep(t)
  PROVE  TimesOK'
<1>1. AtType /\ TimeType
  BY Types
<1>2. CASE UpdateStep(t)
  <2>1. CASE LoadMax(t)
    BY <1>1, <2>1, CompareTimes DEF LoadMax
  <2> QED BY <1>1, <1>2, <2>1, UpdateTimes, CountTimes, SwapTimes DEF UpdateStep
<1>3. CASE ZeroStep(t)
  BY <1>1, <1>3, UpdateMoves, ZeroTimes
<1>4. CASE RecordStep(t) \/ ExportStep(t) \/ ClearStep(t)
  BY <1>1, <1>4, ErrorTimes
<1> QED BY <1>2, <1>3, <1>4 DEF MetricsStep

-----------------------------------------------------------------------------
(* The program                                                              *)

\* main(), the exporter and the callers touch the metrics by their steps alone.
LEMMA ProgramSteps ==
  ASSUME [ProgramNext]_programVars
  PROVE  UNCHANGED metricsVars \/ \E t \in Threads : MetricsStep(t)
<1>1. Main \in Threads /\ Exporter \in Threads /\ Callers \subseteq Threads
  BY ProgramAssumption DEF Callers
<1>2. CASE MainStep
  BY <1>1, <1>2 DEF MainStep, Start, ProtocolError, StopContext, Return, MetricsStep
<1>3. CASE Serve \/ Signal \/ Exited \/ UNCHANGED programVars
  BY <1>3 DEF Serve, Signal, Exited, programVars
<1>4. CASE ExporterStep
  BY <1>1, <1>4 DEF ExporterStep, Wake, ExportBegins, ExportEnds, MetricsStep, ExportStep
<1>5. ASSUME NEW t \in Callers, CallerStep(t)
      PROVE  \E u \in Threads : MetricsStep(u)
  BY <1>1, <1>5 DEF CallerStep, MetricsStep
<1> QED BY <1>2, <1>3, <1>4, <1>5 DEF ProgramNext

LEMMA ErrorsInit == ProgramInit => ErrorsInductive
<1> SUFFICES ASSUME MetricsInit PROVE ErrorsInductive
  BY DEF ProgramInit
<1>1. MetricsTypeOK
  <2>1. AtType /\ TimeType
    BY DEF MetricsInit, AtType, TimeType, Kept
  <2>2. 0 \in 0..ErrorCap
    BY MetricsAssumption
  <2>3. ErrorType
    BY <2>2 DEF MetricsInit, ErrorType
  <2> QED BY <2>1, <2>3, Types
<1>2. LockHeld
  BY MetricsAssumption DEF MetricsInit, LockHeld
<1>3. \A pc : pc # "idle" => N(pc) = 0
  BY Counts DEF MetricsInit
<1>4. Tally /\ ExportBehind
  BY <1>3, MetricsAssumption DEF MetricsInit, Tally, ExportBehind
<1>5. ExportedErrors
  BY DEF MetricsInit, ExportedErrors
<1> QED BY <1>1, <1>2, <1>4, <1>5 DEF ErrorsInductive

LEMMA ErrorsStep ==
  ASSUME ErrorsInductive, [ProgramNext]_programVars
  PROVE  ErrorsInductive'
<1> USE DEF ErrorsInductive
<1>1. CASE UNCHANGED metricsVars
  <2>1. UNCHANGED <<at, calls, timeVars, errorVars>>
    BY <1>1 DEF metricsVars
  <2>2. MetricsTypeOK'
    BY <2>1, Types DEF MetricsTypeOK, timeVars, errorVars
  <2>3. LockHeld'
    BY <2>1 DEF LockHeld, errorVars
  <2>4. Tally' /\ ExportBehind' /\ ExportedErrors'
    BY <2>1, Stays DEF Tally, ExportBehind, ExportedErrors, errorVars
  <2> QED BY <2>2, <2>3, <2>4
<1>2. ASSUME NEW t \in Threads, MetricsStep(t)
      PROVE  ErrorsInductive'
  <2>1. ErrorsOK
    BY DEF ErrorsOK
  <2>2. MetricsTypeOK'
    <3>1. AtType' /\ TimeType' /\ ErrorType'
      <4>1. CASE UpdateStep(t) \/ ZeroStep(t)
        BY <4>1, Types, UpdateMoves DEF errorVars, ErrorType
      <4>2. CASE RecordStep(t) \/ ExportStep(t) \/ ClearStep(t)
        BY <4>2, Types, RecordType
      <4> QED BY <1>2, <4>1, <4>2 DEF MetricsStep
    <3> QED BY <3>1 DEF MetricsTypeOK, AtType, TimeType, ErrorType, Kept
  <2>3. LockHeld'
    BY <1>2, LockStep
  <2>4. ErrorsOK'
    BY <1>2, <2>1, UpdateErrors, PushErrors, CountErrors, ExportErrorsOK, ClearErrorsOK
    DEF MetricsStep, RecordStep
  <2> QED BY <2>2, <2>3, <2>4 DEF ErrorsOK
<1> QED BY <1>1, <1>2, ProgramSteps

LEMMA ErrorsInvariant == ProgramSpec => []ErrorsInductive
<1>1. ProgramInit => ErrorsInductive
  BY ErrorsInit
<1>2. ErrorsInductive /\ [ProgramNext]_programVars => ErrorsInductive'
  BY ErrorsStep
<1> QED BY <1>1, <1>2, PTL DEF ProgramSpec

\* Every variable keeps its type, and no more than ErrorCap errors are kept
\* (record_error).
THEOREM MetricsTypeCorrect == ProgramSpec => []MetricsTypeOK
<1>1. ErrorsInductive => MetricsTypeOK
  BY DEF ErrorsInductive
<1> QED BY <1>1, ErrorsInvariant, PTL

\* An export lists what it counts, whoever records while it runs
\* (export_metrics, record_error, reset).
THEOREM ExportedErrorsAlways == ProgramSpec => []ExportedErrors
<1>1. ErrorsInductive => ExportedErrors
  BY DEF ErrorsInductive
<1> QED BY <1>1, ErrorsInvariant, PTL

\* Once every recording has ended, the counters and the list agree
\* (record_error, reset).
THEOREM CountersAgreeAlways == ProgramSpec => []CountersAgree
<1>1. ErrorsInductive => CountersAgree
  <2> SUFFICES ASSUME ErrorsInductive, Quiet(Recording \cup {"clear_errors"}), ~torn
               PROVE  all = typed /\ listed = (IF all <= ErrorCap THEN all ELSE ErrorCap)
    BY DEF CountersAgree
  <2>1. N("count_all") = 0 /\ N("count_type") = 0 /\ N("clear_errors") = 0
    BY Counts DEF Quiet, Recording
  <2>2. all \in Nat /\ typed \in Nat
    BY Types DEF ErrorsInductive, ErrorType
  <2> QED BY <2>1, <2>2 DEF ErrorsInductive, Tally
<1> QED BY <1>1, ErrorsInvariant, PTL

LEMMA TimesInvariant == ProgramSpec => []TimesOK
<1>1. ProgramInit => TimesOK
  <2> SUFFICES ASSUME MetricsInit PROVE TimesOK
    BY DEF ProgramInit
  <2>1. SwapsUp
    BY DEF MetricsInit, SwapsUp
  <2>2. \A t \in Threads : at[t] \notin Updating \cup Zeroing
    BY DEF MetricsInit, Updating, Zeroing
  <2>3. ASSUME NEW b \in Nat PROVE total <= (count + N("count_time")) * b
    <3>1. total = 0 /\ count + N("count_time") \in Nat
      BY Counts DEF MetricsInit
    <3> QED BY <3>1, ProductIsNat
  <2> QED BY <2>1, <2>2, <2>3 DEF TimesOK, SumBelow, Quiet
<1>2. TimesOK /\ MetricsTypeOK /\ [ProgramNext]_programVars => TimesOK'
  <2> SUFFICES ASSUME TimesOK, MetricsTypeOK, [ProgramNext]_programVars PROVE TimesOK'
    OBVIOUS
  <2>1. CASE UNCHANGED metricsVars
    <3>1. UNCHANGED <<at, time, seen, total, count, max, mixed>>
      BY <2>1 DEF metricsVars, timeVars
    <3> QED BY <3>1, Stays DEF TimesOK, SwapsUp, SumBelow, AllBelow, Quiet
  <2>2. ASSUME NEW t \in Threads, MetricsStep(t) PROVE TimesOK'
    BY <2>2, TimesStep
  <2> QED BY <2>1, <2>2, ProgramSteps
<1> QED BY <1>1, <1>2, MetricsTypeCorrect, PTL DEF ProgramSpec

\* Once the updates have ended the average is not above the maximum: no time
\* that was recorded got lost to another thread's (update_processing_time).
THEOREM AverageBelowMaxAlways == ProgramSpec => []AverageBelowMax
<1>1. TimesOK /\ MetricsTypeOK => AverageBelowMax
  <2> SUFFICES ASSUME TimesOK, MetricsTypeOK, Quiet(Updating \cup Zeroing), ~mixed
               PROVE  total <= count * max
    BY DEF AverageBelowMax
  <2>1. N("count_time") = 0
    BY Counts DEF Quiet, Updating
  <2>2. max \in Nat /\ count \in Nat
    BY Types DEF TimeType
  <2>3. AllBelow(max)
    BY <2>2 DEF AllBelow, Quiet
  <2>4. total <= (count + N("count_time")) * max
    BY <2>2, <2>3 DEF TimesOK, SumBelow
  <2> QED BY <2>1, <2>2, <2>4
<1> QED BY <1>1, TimesInvariant, MetricsTypeCorrect, PTL
=============================================================================
