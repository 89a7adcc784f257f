------------------------------- MODULE Intake -------------------------------
(***************************************************************************)
(* The two checks every message of a session passes before it is parsed:   *)
(* the sliding window of the rate limiter and the burst detector, against  *)
(* a clock that runs on and a configuration that is reloaded meanwhile     *)
(* (src/server/websocket_session.cpp, check_rate_limit_or_close and        *)
(* check_suspicious_activity).                                             *)
(*                                                                         *)
(* They run on the session's strand, one message after the other; each     *)
(* look at the configuration is a step, as it takes the lock anew.         *)
(***************************************************************************)
EXTENDS RuntimeConfig, Sequences, FiniteSets

CONSTANTS
  TicksPerSecond,
  BurstCount,      \* the messages after which bursts are looked for: 100
  MaxMessages      \* the bound of the messages that arrive

ASSUME IntakeAssumption ==
  TicksPerSecond \in Nat \ {0} /\ BurstCount \in Nat /\ MaxMessages \in Nat

VARIABLES
  pc,             \* where on_read() is
  arrival,        \* the time check_rate_limit_or_close() took
  stamps,         \* message_timestamps_
  last_activity,  \* last_activity_
  message_count,  \* message_count_
  (* What the client has seen, for the properties *)
  admitted,       \* the times of all messages the limiter let through
  checked,        \* the times at which the burst detector looked at one
  shortest,       \* the shortest window the limiter has applied
  largest,        \* the largest limit it has applied
  window, limit   \* what it has applied to the last message

sessionVars == <<pc, arrival, stamps, last_activity, message_count>>
seenVars    == <<admitted, checked, shortest, largest, window, limit>>
intakeVars  == <<configVars, now, sessionVars, seenVars>>

IntakeInit ==
  /\ ConfigInit
  /\ pc = "idle" /\ arrival = 0 /\ stamps = <<>> /\ last_activity = 0
  /\ message_count = 0
  /\ admitted = <<>> /\ checked = <<>> /\ largest = 0
  /\ shortest = Highest[Window] * TicksPerSecond /\ window = 0 /\ limit = 0

Lower(a, b)  == IF a <= b THEN a ELSE b
Higher(a, b) == IF a >= b THEN a ELSE b

-----------------------------------------------------------------------------
(* check_rate_limit_or_close()                                              *)

\* How far up in a set of positions one of them is, and what a sequence holds at
\* them, in their order: SelectSeq, by the positions it selects.
Rank(keep, i) == Cardinality({j \in keep : j <= i})

Kept(s, keep) ==
  [k \in 1..Cardinality(keep) |-> s[CHOOSE i \in keep : Rank(keep, i) = k]]

\* Mutant: a timestamp at the very start of the window is dropped too.
Recent_Open(start) == Kept(stamps, {i \in DOMAIN stamps : stamps[i] > start})

\* Mutant: nothing is pruned.
Recent_All(start) == stamps

\* The timestamps that are left after those before the window are erased.
Recent(start) == Kept(stamps, {i \in DOMAIN stamps : stamps[i] >= start})

\* A message: the time, and the window under the lock of the configuration.
Prune ==
  /\ pc = "idle" /\ message_count < MaxMessages
  /\ pc' = "limit" /\ arrival' = now
  /\ window' = values[Window] * TicksPerSecond
  /\ stamps' = Recent(now - window')
  /\ shortest' = Lower(shortest, window')
  /\ UNCHANGED <<configVars, now, last_activity, message_count, admitted, checked,
                 largest, limit>>

\* Mutant: one message more than the limit.
Full_OneMore(most) == Len(stamps) > most

Full(most) == Len(stamps) >= most

\* The limit, under that lock again; a message beyond it ends the session.
Admit ==
  /\ pc = "limit"
  /\ limit' = values[Limit]
  /\ largest' = Higher(largest, limit')
  /\ IF Full(limit')
     THEN pc' = "limited" /\ UNCHANGED <<stamps, admitted>>
     ELSE /\ pc' = "burst"
          /\ stamps' = Append(stamps, arrival)
          /\ admitted' = Append(admitted, arrival)
  /\ UNCHANGED <<configVars, now, arrival, last_activity, message_count, checked,
                 shortest, window>>

-----------------------------------------------------------------------------
(* check_suspicious_activity()                                              *)

\* The whole seconds since the last message.
Elapsed == (now - last_activity) \div TicksPerSecond

Suspicious == message_count' > BurstCount /\ Elapsed = 0

CheckBurst ==
  /\ pc = "burst"
  /\ message_count' = message_count + 1
  /\ last_activity' = now
  /\ pc' = IF Suspicious THEN "suspicious" ELSE "idle"
  /\ checked' = Append(checked, now)
  /\ UNCHANGED <<configVars, now, arrival, stamps, admitted,
                 shortest, largest, window, limit>>

-----------------------------------------------------------------------------
SessionStep == Prune \/ Admit \/ CheckBurst

IntakeNext ==
  \/ SessionStep
  \/ (Tick \/ ConfigNext) /\ UNCHANGED <<sessionVars, seenVars>>

IntakeSpec == IntakeInit /\ [][IntakeNext]_intakeVars

-----------------------------------------------------------------------------
\* Types, those of the configuration included; what the limiter remembers of a
\* session is bounded by the largest limit a configuration may set.
IntakeTypeOK ==
  /\ ConfigTypeOK
  /\ pc \in {"idle", "limit", "burst", "limited", "suspicious"}
  /\ arrival \in 0..now /\ last_activity \in 0..now
  /\ stamps \in Seq(0..now) /\ Len(stamps) <= Highest[Limit]
  /\ message_count \in 0..MaxMessages

\* How many of the messages up to the i-th were let through within d before it.
Load(i, d) == Cardinality({j \in 1..i : admitted[j] >= admitted[i] - d})

\* Wherever the window of the rate limit is laid, there are no more messages in
\* it than the limit: with one configuration exactly so, and while it is being
\* changed for the shortest window and the largest limit that were in force.
RateHeld == \A i \in 1..Len(admitted) : Load(i, shortest) <= largest

\* A client is refused only when it did send that many within the window: the
\* limiter forgets what is older, at the latest when the next message comes.
RefusedIsOver ==
  pc = "limited" =>
    Cardinality({j \in 1..Len(admitted) : admitted[j] >= arrival - window}) >= limit

\* The comment in check_suspicious_activity() and its log line: a burst is more
\* than BurstCount messages within one second.
BurstIsBurst ==
  pc = "suspicious" =>
    LET last == checked[Len(checked)] IN
    Cardinality({j \in 1..Len(checked) : last - checked[j] < TicksPerSecond}) > BurstCount
=============================================================================
