-------------------------------- MODULE Metrics --------------------------------
(***************************************************************************)
(* The metrics of the server, called from any thread: the atomics of       *)
(* session_metrics (src/server/session_metrics.hpp), of which an update    *)
(* touches three one after the other, and the tables of metrics_collector  *)
(* (src/server/metrics_collector.cpp), which have a lock each and one      *)
(* more that serialises export_metrics(), reset() and get_start_time().    *)
(*                                                                         *)
(* Each access to an atomic and each critical section is a step.  Of the   *)
(* tables only the errors and their counters appear, which record_error()  *)
(* keeps in step; the others are written in one section each.  Of the two  *)
(* averages of session_metrics, whose code is the same, there is one.      *)
(***************************************************************************)
EXTENDS Naturals, FiniteSets

CONSTANTS
  Threads,     \* the threads that use the metrics
  Times,       \* the durations they record
  ErrorCap,    \* the errors the collector remembers: 500
  MaxCalls,    \* the bound of their updates, errors and resets
  None

ASSUME MetricsAssumption ==
  /\ IsFiniteSet(Threads) /\ None \notin Threads
  /\ Times \subseteq Nat /\ ErrorCap \in Nat \ {0} /\ MaxCalls \in Nat

VARIABLES
  at,                 \* what each thread does next; "idle" outside of a call
  time, seen,         \* of update_processing_time(): its argument, current_max
  total, count, max,  \* total_processing_time_, processing_time_count_, max_...
  all, typed,         \* the counter "errors.total"; the sum of the others
  listed,             \* errors_.size()
  export_lock,        \* who holds export_mutex_
  exported,           \* what an export has read of the counters
  report,             \* the counter and the errors of the last export
  calls,
  (* Whether a reset() has ever met a call that was half way through *)
  mixed, torn

timeVars    == <<time, seen, total, count, max, mixed>>
errorVars   == <<all, typed, listed, export_lock, exported, report, torn>>
metricsVars == <<at, timeVars, errorVars, calls>>

MetricsInit ==
  /\ at = [t \in Threads |-> "idle"] /\ calls = 0
  /\ time = [t \in Threads |-> 0] /\ seen = [t \in Threads |-> 0]
  /\ total = 0 /\ count = 0 /\ max = 0 /\ mixed = FALSE
  /\ all = 0 /\ typed = 0 /\ listed = 0 /\ torn = FALSE
  /\ export_lock = None /\ exported = 0 /\ report = [total |-> 0, listed |-> 0]

Goes(t, pc)   == at' = [at EXCEPT ![t] = pc]
Steps(t, pc, next) == at[t] = pc /\ Goes(t, next) /\ UNCHANGED calls
Calls(t, next) ==
  /\ at[t] = "idle" /\ calls < MaxCalls
  /\ Goes(t, next) /\ calls' = calls + 1

Updating  == {"count_time", "load_max", "swap_max"}
Zeroing   == {"zero_count", "zero_max"}
Recording == {"count_all", "count_type"}

SomeAt(pcs) == \E t \in Threads : at'[t] \in pcs

-----------------------------------------------------------------------------
(* session_metrics::update_processing_time(), reset()                       *)

\* A reset and an update are both half way through.
Mixes == mixed' = (mixed \/ (SomeAt(Updating) /\ SomeAt(Zeroing)))

Update(t) ==
  \E d \in Times :
    /\ Calls(t, "count_time")
    /\ total' = total + d /\ time' = [time EXCEPT ![t] = d]
    /\ Mixes /\ UNCHANGED <<seen, count, max, errorVars>>

CountTime(t) ==
  /\ Steps(t, "count_time", "load_max")
  /\ count' = count + 1
  /\ Mixes /\ UNCHANGED <<time, seen, total, max, errorVars>>

Swaps(t) ==
  /\ Goes(t, "swap_max") /\ seen' = [seen EXCEPT ![t] = max] /\ UNCHANGED time

\* The call ends, and its locals with it.
Returns(t) ==
  /\ Goes(t, "idle")
  /\ time' = [time EXCEPT ![t] = 0] /\ seen' = [seen EXCEPT ![t] = 0]

\* What the loop does with the maximum it has read.
Compare(t) == IF time[t] > max THEN Swaps(t) ELSE Returns(t)

LoadMax(t) ==
  /\ at[t] = "load_max" /\ Compare(t)
  /\ Mixes /\ UNCHANGED <<total, count, max, calls, errorVars>>

\* Mutant: the maximum is stored, whatever it has become.
SwapMax_Stores(t) ==
  /\ at[t] = "swap_max" /\ max' = time[t] /\ Returns(t)
  /\ Mixes /\ UNCHANGED <<total, count, calls, errorVars>>

\* compare_exchange_weak(): a maximum that has changed is looked at again.
SwapMax(t) ==
  /\ at[t] = "swap_max"
  /\ \/ max = seen[t] /\ max' = time[t] /\ Returns(t)
     \/ max # seen[t] /\ Compare(t) /\ UNCHANGED max
  /\ Mixes /\ UNCHANGED <<total, count, calls, errorVars>>

ZeroTotal(t) ==
  /\ Calls(t, "zero_count")
  /\ total' = 0 /\ Mixes /\ UNCHANGED <<time, seen, count, max, errorVars>>

ZeroCount(t) ==
  /\ Steps(t, "zero_count", "zero_max")
  /\ count' = 0 /\ Mixes /\ UNCHANGED <<time, seen, total, max, errorVars>>

ZeroMax(t) ==
  /\ Steps(t, "zero_max", "idle")
  /\ max' = 0 /\ Mixes /\ UNCHANGED <<time, seen, total, count, errorVars>>

UpdateStep(t) == Update(t) \/ CountTime(t) \/ LoadMax(t) \/ SwapMax(t)
ZeroStep(t)   == ZeroTotal(t) \/ ZeroCount(t) \/ ZeroMax(t)

-----------------------------------------------------------------------------
(* metrics_collector::record_error(), export_metrics(), reset()             *)

\* A reset and a record_error() are both half way through.
Tears == torn' = (torn \/ (SomeAt(Recording) /\ SomeAt({"clear_errors"})))

\* The oldest error is dropped when there are more than ErrorCap.
Trimmed(n) == IF n > ErrorCap THEN n - 1 ELSE n

PushError(t) ==
  /\ Calls(t, "count_all")
  /\ listed' = Trimmed(listed + 1)
  /\ Tears /\ UNCHANGED <<timeVars, all, typed, export_lock, exported, report>>

CountAll(t) ==
  /\ Steps(t, "count_all", "count_type")
  /\ all' = all + 1
  /\ Tears /\ UNCHANGED <<timeVars, typed, listed, export_lock, exported, report>>

CountType(t) ==
  /\ Steps(t, "count_type", "idle")
  /\ typed' = typed + 1
  /\ Tears /\ UNCHANGED <<timeVars, all, listed, export_lock, exported, report>>

Lock(t) == export_lock = None /\ export_lock' = t
Unlock  == export_lock' = None

\* The section on the counters, and the lock around all of them before it.
ExportCounters(t) ==
  /\ Steps(t, "idle", "read_errors") /\ Lock(t)
  /\ exported' = all
  /\ Tears /\ UNCHANGED <<timeVars, all, typed, listed, report>>

ExportErrors(t) ==
  /\ Steps(t, "read_errors", "idle") /\ Unlock
  /\ report' = [total |-> exported, listed |-> listed] /\ exported' = 0
  /\ Tears /\ UNCHANGED <<timeVars, all, typed, listed>>

\* Mutant: reset() does without export_mutex_.
ClearCounters_Unlocked(t) ==
  /\ Calls(t, "clear_errors")
  /\ all' = 0 /\ typed' = 0
  /\ Tears /\ UNCHANGED <<timeVars, listed, export_lock, exported, report>>

ClearCounters(t) ==
  /\ Calls(t, "clear_errors") /\ Lock(t)
  /\ all' = 0 /\ typed' = 0
  /\ Tears /\ UNCHANGED <<timeVars, listed, exported, report>>

\* Mutant: reset() forgets the errors.
ClearErrors_Keeps(t) ==
  /\ Steps(t, "clear_errors", "idle") /\ Unlock
  /\ Tears /\ UNCHANGED <<timeVars, all, typed, listed, exported, report>>

ClearErrors(t) ==
  /\ Steps(t, "clear_errors", "idle") /\ Unlock
  /\ listed' = 0
  /\ Tears /\ UNCHANGED <<timeVars, all, typed, exported, report>>

RecordStep(t) == PushError(t) \/ CountAll(t) \/ CountType(t)
ExportStep(t) == ExportCounters(t) \/ ExportErrors(t)
ClearStep(t)  == ClearCounters(t) \/ ClearErrors(t)

-----------------------------------------------------------------------------
\* Types; the collector never remembers more than its last ErrorCap errors.
MetricsTypeOK ==
  /\ at \in [Threads -> {"idle", "read_errors", "clear_errors"}
                          \cup Updating \cup Zeroing \cup Recording]
  /\ time \in [Threads -> Nat] /\ seen \in [Threads -> Nat]
  /\ {total, count, max, all, typed, exported, calls} \subseteq Nat
  /\ listed \in 0..ErrorCap /\ report \in [total : Nat, listed : 0..ErrorCap]
  /\ export_lock \in Threads \cup {None}
  /\ {mixed, torn} \subseteq BOOLEAN

Quiet(pcs) == \A t \in Threads : at[t] \notin pcs

\* When no update is under way the average get_average_processing_time_ms()
\* returns is not above get_max_processing_time_ms(): no thread's maximum is
\* lost to another's, as long as no reset() cut through one of them.
AverageBelowMax ==
  Quiet(Updating \cup Zeroing) /\ ~mixed => total <= count * max

\* An export never counts an error it does not list, unless the list was full:
\* record_error() lists before it counts, export_metrics() reads the counters
\* before the list, and reset() waits for the export.
ExportedErrors ==
  ~torn => report.total <= report.listed \/ report.listed = ErrorCap

\* When nobody is recording or resetting the counters and the list agree.
CountersAgree ==
  Quiet(Recording \cup {"clear_errors"}) /\ ~torn =>
    all = typed /\ listed = (IF all <= ErrorCap THEN all ELSE ErrorCap)
=============================================================================
