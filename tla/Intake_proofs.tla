---------------------------- MODULE Intake_proofs ----------------------------
(***************************************************************************)
(* The configuration a session reads is in range, consistent and of one    *)
(* file, for any number of loaders, files, fields and contents; and the    *)
(* rate limiter keeps to it, for any number of messages.                   *)
(***************************************************************************)
EXTENDS Intake, FiniteSetTheorems, TLAPS

Places == {"idle", "asked", "commit", "stamp"}

\* A loader that is about to commit has read a file, and has its path since.
CallsOK ==
  /\ files \in [Paths -> Contents \cup {NoFile}]
  /\ DOMAIN calls = Loaders
  /\ \A t \in Loaders :
       /\ calls[t] = [at |-> calls[t].at, path |-> calls[t].path,
                      since |-> calls[t].since, content |-> calls[t].content]
       /\ calls[t].at \in Places
       /\ calls[t].at # "idle" => calls[t].path \in Paths
       /\ calls[t].at = "commit" => calls[t].content \in Contents

ConfigInductive == ConfigTypeOK /\ ValuesOfOneFile /\ CallsOK

\* The types of what the client has seen.
SeenType ==
  /\ admitted \in Seq(Int) /\ window \in Int /\ limit \in Int
  /\ shortest \in Int /\ largest \in Int
  /\ pc \in {"limit", "burst"} => message_count < MaxMessages

\* How many of the messages that were let through the limiter has forgotten.
Forgotten == Len(admitted) - Len(stamps)

\* The messages were let through in the order of the clock.
InOrder ==
  /\ \A i, j \in 1..Len(admitted) : i <= j => admitted[i] <= admitted[j]
  /\ \A i \in 1..Len(admitted) : admitted[i] <= arrival

\* The limiter remembers the latest of them, and what it has forgotten no window
\* that starts now will reach.
Remembers ==
  /\ Forgotten >= 0
  /\ \A i \in 1..Len(stamps) : stamps[i] = admitted[Forgotten + i]
  /\ \A i \in 1..Forgotten : admitted[i] < arrival - shortest

\* Before it decides it remembers nothing else than the window, and it refuses
\* when that is the limit.
Decides ==
  /\ pc \in {"limit", "limited"} => \A i \in 1..Len(stamps) : stamps[i] >= arrival - window
  /\ pc = "limited" => Len(stamps) >= limit

LimiterInductive == IntakeTypeOK /\ SeenType /\ InOrder /\ Remembers /\ Decides /\ RateHeld

-----------------------------------------------------------------------------
LEMMA DefaultFits ==
  ASSUME NEW f \in Fields
  PROVE  Default[f] \in Int /\ Fits(f, Default[f])
<1>1. Default[f] \in Int
  BY RangesAssumption
<1>2. Fits(f, Default[f])
  BY RangesAssumption DEF Fits
<1> QED BY <1>1, <1>2

\* The cuts to a whole number and to an int yield one whatever the file holds.
LEMMA ReadIsInt ==
  ASSUME NEW c \in Contents, NEW f \in Fields, f \in DOMAIN c
  PROVE  ReadField(f, c[f]) \in Int
<1>1. c[f] \in Int
  BY ContentsAssumption
<1> DEFINE n == Truncated(c[f])
<1>2. n \in Int
  BY <1>1 DEF Truncated
<1> HIDE DEF n
<1>3. n % IntSpan \in Int
  BY <1>2, ConfigAssumption
<1>4. ReadField(f, c[f]) = IF f \in Narrow THEN ToInt(n) ELSE n
  BY DEF ReadField, n
<1> QED BY <1>2, <1>3, <1>4, ConfigAssumption DEF ToInt

\* The overlay is in range, and of its file or the default field by field.
LEMMA OverlayFits ==
  ASSUME NEW c \in Contents
  PROVE  /\ Overlay(c) \in [Fields -> Int]
         /\ \A f \in Fields : Fits(f, Overlay(c)[f])
         /\ \A f \in Fields :
              IF f \in DOMAIN c
              THEN Overlay(c)[f] \in {ReadField(f, c[f]), Default[f]}
              ELSE Overlay(c)[f] = Default[f]
BY DefaultFits, ReadIsInt DEF Overlay

-----------------------------------------------------------------------------
LEMMA ConfigInitInductive == ConfigInit => ConfigInductive
<1> SUFFICES ASSUME ConfigInit PROVE ConfigInductive
  OBVIOUS
<1>1. ConfigTypeOK
  <2>1. values = Default /\ config_path = "" /\ last_reload = 0 /\ now = 0
    BY DEF ConfigInit
  <2>2. values \in [Fields -> Int] /\ \A f \in Fields : Fits(f, values[f])
    BY <2>1, DefaultFits, FieldsAssumption
  <2>3. values[Queue] >= values[Limit]
    BY <2>1, ConfigAssumption
  <2>4. 0 \in 0..MaxNow
    BY ConfigAssumption
  <2> QED BY <2>1, <2>2, <2>3, <2>4 DEF ConfigTypeOK
<1>2. ValuesOfOneFile
  BY DEF ConfigInit, ValuesOfOneFile
<1>3. CallsOK
  BY ConfigAssumption DEF ConfigInit, CallsOK, Idle, Places
<1> QED BY <1>1, <1>2, <1>3 DEF ConfigInductive

\* Only Commit touches the values, and only Stamp the path and its time.
LEMMA LoadingInductive ==
  ASSUME ConfigInductive, NEW t \in Loaders,
         ReloadAsks(t) \/ ReloadReads(t) \/ \E p \in Paths : LoadReads(t, p)
  PROVE  ConfigInductive'
<1> USE DEF ConfigInductive
<1>1. UNCHANGED <<values, config_path, last_reload, files, now>>
  BY DEF ReloadAsks, ReloadReads, LoadReads
<1>2. ConfigTypeOK'
  BY <1>1 DEF ConfigTypeOK, Fits
<1>3. ValuesOfOneFile'
  BY <1>1 DEF ValuesOfOneFile
<1>4. CallsOK'
  <2> USE ConfigAssumption DEF CallsOK, Places
  <2>1. CASE ReloadAsks(t)
    BY <1>1, <2>1 DEF ReloadAsks, ConfigTypeOK
  <2>2. CASE ReloadReads(t)
    <3>1. CASE Return(t)
      BY <1>1, <3>1 DEF Return, Idle
    <3>2. CASE files[calls[t].path] # NoFile /\ Parsed(t, calls[t].path)
      <4>1. calls[t].path \in Paths
        BY <2>2 DEF ReloadReads
      <4>2. files[calls[t].path] \in Contents
        BY <3>2, <4>1
      <4> QED BY <1>1, <3>2, <4>1, <4>2 DEF Parsed
    <3> QED BY <2>2, <3>1, <3>2 DEF ReloadReads
  <2>3. CASE \E p \in Paths : LoadReads(t, p)
    <3>1. PICK p \in Paths : LoadReads(t, p)
      BY <2>3
    <3>2. files[p] \in Contents
      BY <3>1 DEF LoadReads
    <3> QED BY <1>1, <3>1, <3>2 DEF LoadReads, Parsed
  <2> QED BY <2>1, <2>2, <2>3
<1> QED BY <1>2, <1>3, <1>4

LEMMA CommitInductive ==
  ASSUME ConfigInductive, NEW t \in Loaders, Commit(t)
  PROVE  ConfigInductive'
<1> USE DEF ConfigInductive
<1> DEFINE c == calls[t].content
<1>1. c \in Contents
  BY DEF Commit, CallsOK
<1>2. UNCHANGED <<config_path, last_reload, files, now>>
  BY DEF Commit
<1>3. \/ values' = Overlay(c) /\ Consistent(Overlay(c))
      \/ UNCHANGED values
  BY DEF Commit
<1>4. ConfigTypeOK'
  <2>1. CASE UNCHANGED values
    BY <1>2, <2>1 DEF ConfigTypeOK, Fits
  <2>2. CASE values' = Overlay(c) /\ Consistent(Overlay(c))
    BY <1>1, <1>2, <2>2, OverlayFits DEF ConfigTypeOK, Fits, Consistent
  <2> QED BY <1>3, <2>1, <2>2
<1>5. ValuesOfOneFile'
  <2>1. CASE UNCHANGED values
    BY <2>1 DEF ValuesOfOneFile
  <2>2. CASE values' = Overlay(c)
    BY <1>1, <2>2, OverlayFits DEF ValuesOfOneFile
  <2> QED BY <1>3, <2>1, <2>2
<1>6. CallsOK'
  <2>1. CASE Return(t)
    BY <1>2, <2>1 DEF Return, Idle, CallsOK, Places
  <2>2. CASE GoTo(t, "stamp")
    <3>1. calls[t].at = "commit"
      BY DEF Commit
    <3>2. /\ DOMAIN calls' = Loaders
          /\ \A u \in Loaders \ {t} : calls'[u] = calls[u]
          /\ calls'[t] = [at |-> "stamp", path |-> calls[t].path,
                          since |-> calls[t].since, content |-> calls[t].content]
      BY <2>2 DEF GoTo, CallsOK
    <3> QED BY <1>2, <3>1, <3>2 DEF CallsOK, Places
  <2> QED BY <2>1, <2>2 DEF Commit
<1> QED BY <1>4, <1>5, <1>6

LEMMA StampInductive ==
  ASSUME ConfigInductive, NEW t \in Loaders, Stamp(t)
  PROVE  ConfigInductive'
<1> USE DEF ConfigInductive
<1>1. ConfigTypeOK'
  BY DEF Stamp, ConfigTypeOK, CallsOK, Fits
<1>2. ValuesOfOneFile'
  BY DEF Stamp, ValuesOfOneFile
<1>3. CallsOK'
  BY ConfigAssumption DEF Stamp, Return, Idle, CallsOK, Places
<1> QED BY <1>1, <1>2, <1>3

LEMMA OutsideInductive ==
  ASSUME ConfigInductive, Tick \/ (\E p \in Paths : Edit(p)) \/ UNCHANGED <<configVars, now>>
  PROVE  ConfigInductive'
<1> USE DEF ConfigInductive
<1>1. UNCHANGED <<values, config_path, last_reload, calls>>
  BY DEF Tick, Edit, configVars
<1>2. ConfigTypeOK'
  <2>1. MaxNow \in Nat
    BY ConfigAssumption
  <2>2. now \in 0..MaxNow
    BY DEF ConfigTypeOK
  <2>3. now' = now \/ (now < MaxNow /\ now' = now + 1)
    BY DEF Tick, Edit
  <2>4. now' \in 0..MaxNow
    BY <2>1, <2>2, <2>3
  <2> QED BY <1>1, <2>4 DEF ConfigTypeOK, Fits
<1>3. ValuesOfOneFile'
  BY <1>1 DEF ValuesOfOneFile
<1>4. CallsOK'
  BY <1>1 DEF Tick, Edit, configVars, CallsOK
<1> QED BY <1>2, <1>3, <1>4

-----------------------------------------------------------------------------
LEMMA IntakeStepInductive ==
  ASSUME ConfigInductive, [IntakeNext]_intakeVars
  PROVE  ConfigInductive'
<1>1. CASE UNCHANGED <<configVars, now>>
  BY <1>1, OutsideInductive
<1>2. CASE SessionStep
  BY <1>1, <1>2 DEF SessionStep, Prune, Admit, CheckBurst
<1>3. CASE Tick \/ ConfigNext
  BY <1>3, LoadingInductive, CommitInductive, StampInductive, OutsideInductive DEF ConfigNext
<1> QED BY <1>1, <1>2, <1>3 DEF IntakeNext, intakeVars

LEMMA ConfigInvariant == IntakeSpec => []ConfigInductive
<1>1. IntakeInit => ConfigInductive
  BY ConfigInitInductive DEF IntakeInit
<1>2. ConfigInductive /\ [IntakeNext]_intakeVars => ConfigInductive'
  BY IntakeStepInductive
<1> QED BY <1>1, <1>2, PTL DEF IntakeSpec

\* Whatever a file holds, every value stays within its range and the write
\* queue is never smaller than a window's messages (load_from_json).
THEOREM ConfigTypeCorrect == IntakeSpec => []ConfigTypeOK
<1>1. ConfigInductive => ConfigTypeOK
  BY DEF ConfigInductive
<1> QED BY <1>1, ConfigInvariant, PTL

\* Loads and reloads that overlap never mix two files (load_from_json).
THEOREM ValuesOfOneFileAlways == IntakeSpec => []ValuesOfOneFile
<1>1. ConfigInductive => ValuesOfOneFile
  BY DEF ConfigInductive
<1> QED BY <1>1, ConfigInvariant, PTL

-----------------------------------------------------------------------------
(* What is kept of an ordered sequence                                      *)

Ordered(s) == \A i, j \in 1..Len(s) : i <= j => s[i] <= s[j]

LEMMA IntervalSize ==
  ASSUME NEW a \in Int, NEW b \in Int, a <= b + 1
  PROVE  IsFiniteSet(a..b) /\ Cardinality(a..b) = b - a + 1
<1>1. IsFiniteSet(a..b) /\ Cardinality(a..b) = IF a > b THEN 0 ELSE b - a + 1
  BY FS_Interval
<1> QED BY <1>1

\* The positions from a bound on are the highest ones.
LEMMA KeepIsUpper ==
  ASSUME NEW s \in Seq(Int), Ordered(s), NEW start \in Int
  PROVE  LET keep == {i \in DOMAIN s : s[i] >= start}
             n    == Cardinality(keep)
         IN  n \in 0..Len(s) /\ keep = (Len(s) - n + 1)..Len(s)
<1> DEFINE keep == {i \in DOMAIN s : s[i] >= start}
           n    == Cardinality(keep)
<1>1. Len(s) \in Nat /\ DOMAIN s = 1..Len(s) /\ \A i \in 1..Len(s) : s[i] \in Int
  OBVIOUS
<1>2. IsFiniteSet(1..Len(s)) /\ Cardinality(1..Len(s)) = Len(s)
  <2>1. 1 \in Int /\ Len(s) \in Int /\ 1 <= Len(s) + 1
    BY <1>1
  <2>2. IsFiniteSet(1..Len(s)) /\ Cardinality(1..Len(s)) = Len(s) - 1 + 1
    BY <2>1, IntervalSize
  <2> QED BY <1>1, <2>2
<1>3. keep \in SUBSET (1..Len(s))
  BY <1>1
<1>4. IsFiniteSet(keep) /\ n \in Nat /\ n <= Len(s)
  BY <1>2, <1>3, FS_Subset, FS_CardinalityType
<1>5. ASSUME NEW i \in keep PROVE i \in (Len(s) - n + 1)..Len(s)
  <2>1. i \in 1..Len(s)
    BY <1>3
  <2>2. i..Len(s) \subseteq keep
    BY <1>1, <2>1 DEF Ordered
  <2>3. Cardinality(i..Len(s)) = Len(s) - i + 1
    BY <1>1, <2>1, IntervalSize
  <2>4. Cardinality(i..Len(s)) <= n
    BY <1>4, <2>2, FS_Subset
  <2> QED BY <1>1, <1>4, <2>1, <2>3, <2>4
<1> DEFINE upper == (Len(s) - n + 1)..Len(s)
<1>6. IsFiniteSet(upper) /\ Cardinality(upper) = n
  <2>1. /\ Len(s) - n + 1 \in Int /\ Len(s) \in Int
        /\ Len(s) - n + 1 <= Len(s) + 1
    BY <1>1, <1>4
  <2>2. IsFiniteSet(upper) /\ Cardinality(upper) = Len(s) - (Len(s) - n + 1) + 1
    BY <2>1, IntervalSize
  <2> QED BY <1>1, <1>4, <2>2
<1>7. keep \in SUBSET upper
  BY <1>5
<1>8. keep = upper
  BY <1>6, <1>7, FS_Subset
<1> QED BY <1>1, <1>4, <1>8

\* What is kept of an ordered sequence is its end, and all the rest is below.
LEMMA KeptIsSuffix ==
  ASSUME NEW s \in Seq(Int), Ordered(s), NEW start \in Int
  PROVE  LET keep == {i \in DOMAIN s : s[i] >= start}
             m    == Len(s) - Cardinality(keep)
             r    == Kept(s, keep)
         IN  /\ m \in 0..Len(s) /\ r \in Seq(Int) /\ Len(r) = Len(s) - m
             /\ \A i \in 1..Len(r) : r[i] = s[m + i] /\ r[i] >= start
             /\ \A i \in 1..m : s[i] < start
<1> DEFINE keep == {i \in DOMAIN s : s[i] >= start}
           m    == Len(s) - Cardinality(keep)
           r    == Kept(s, keep)
<1>1. Len(s) \in Nat /\ DOMAIN s = 1..Len(s) /\ \A i \in 1..Len(s) : s[i] \in Int
  OBVIOUS
<1>2. Cardinality(keep) \in 0..Len(s) /\ keep = (m + 1)..Len(s)
  BY <1>1, KeepIsUpper
<1>3. m \in 0..Len(s) /\ Cardinality(keep) = Len(s) - m
  BY <1>1, <1>2
<1>4. r = [k \in 1..(Len(s) - m) |-> s[CHOOSE i \in keep : Rank(keep, i) = k]]
  BY <1>3 DEF Kept
<1>5. \A i \in 1..m : s[i] < start
  <2> SUFFICES ASSUME NEW i \in 1..m PROVE s[i] < start
    OBVIOUS
  <2>1. i \in 1..Len(s) /\ i \notin (m + 1)..Len(s)
    BY <1>1, <1>3
  <2>2. s[i] \in Int /\ ~(s[i] >= start)
    BY <1>1, <1>2, <2>1
  <2> QED BY <2>2
<1>6. \A i \in (m + 1)..Len(s) : s[i] >= start
  BY <1>2
<1> HIDE DEF keep, m, r
<1>7. ASSUME NEW i \in keep PROVE Rank(keep, i) = i - m
  <2>1. {j \in keep : j <= i} = (m + 1)..i
    BY <1>1, <1>2, <1>3
  <2>2. m + 1 \in Int /\ i \in Int /\ m + 1 <= i + 1
    BY <1>1, <1>2, <1>3
  <2>3. Cardinality((m + 1)..i) = i - (m + 1) + 1
    BY <2>2, IntervalSize
  <2>4. Rank(keep, i) = Cardinality((m + 1)..i)
    BY <2>1, Zenon DEF Rank
  <2> QED BY <1>1, <1>3, <2>2, <2>3, <2>4
<1>8. \A k \in 1..(Len(s) - m) : r[k] = s[m + k]
  <2> SUFFICES ASSUME NEW k \in 1..(Len(s) - m) PROVE r[k] = s[m + k]
    OBVIOUS
  <2>1. m \in Nat /\ Len(s) \in Nat /\ m <= Len(s) /\ keep = (m + 1)..Len(s)
    BY <1>1, <1>2, <1>3
  <2>2. (CHOOSE i \in keep : Rank(keep, i) = k) = m + k
    <3>1. m + k \in keep /\ Rank(keep, m + k) = k
      BY <2>1, <1>7
    <3>2. \A i \in keep : Rank(keep, i) = k => i = m + k
      BY <2>1, <1>7
    <3> QED BY <3>1, <3>2, Zenon
  <2>3. r[k] = s[CHOOSE i \in keep : Rank(keep, i) = k]
    BY <1>4
  <2> QED BY <2>2, <2>3
<1>9. r = [k \in 1..(Len(s) - m) |-> s[m + k]]
  BY <1>4, <1>8
<1>10. r \in Seq(Int) /\ Len(r) = Len(s) - m
  <2>1. r \in [1..(Len(s) - m) -> Int] /\ Len(s) - m \in Nat
    BY <1>1, <1>3, <1>9
  <2> QED BY <2>1
<1>11. \A i \in 1..Len(r) : r[i] = s[m + i] /\ r[i] >= start
  <2> SUFFICES ASSUME NEW i \in 1..Len(r) PROVE r[i] = s[m + i] /\ s[m + i] >= start
    OBVIOUS
  <2>1. i \in 1..(Len(s) - m) /\ m + i \in (m + 1)..Len(s)
    BY <1>1, <1>3, <1>10
  <2> QED BY <1>6, <1>8, <2>1
<1> QED BY <1>3, <1>5, <1>10, <1>11 DEF keep, m, r

-----------------------------------------------------------------------------
(* The limiter                                                              *)

LEMMA ProductIsInt ==
  ASSUME NEW a \in Int, NEW b \in Nat
  PROVE  a * b \in Int
OBVIOUS

LEMMA SequenceOf ==
  ASSUME NEW S, NEW T, NEW s \in Seq(S), \A i \in 1..Len(s) : s[i] \in T
  PROVE  s \in Seq(T)
<1>1. s = [i \in 1..Len(s) |-> s[i]] /\ Len(s) \in Nat
  OBVIOUS
<1>2. s \in [1..Len(s) -> T]
  BY <1>1
<1> QED BY <1>1, <1>2

\* The messages up to one of them are finitely many, at most all that there are.
LEMMA LoadIsFinite ==
  ASSUME admitted \in Seq(Int), NEW i \in 1..Len(admitted), NEW d \in Int
  PROVE  /\ IsFiniteSet({j \in 1..i : admitted[j] >= admitted[i] - d})
         /\ Load(i, d) \in Nat
<1> DEFINE within == {j \in 1..i : admitted[j] >= admitted[i] - d}
<1>1. 1 \in Int /\ i \in Int /\ 1 <= i + 1
  OBVIOUS
<1>2. IsFiniteSet(1..i)
  BY <1>1, IntervalSize
<1>3. within \in SUBSET (1..i)
  OBVIOUS
<1>4. IsFiniteSet(within) /\ Cardinality(within) \in Nat
  BY <1>2, <1>3, FS_Subset, FS_CardinalityType
<1> QED BY <1>4 DEF Load

\* A shorter window holds no more messages.
LEMMA LoadShrinks ==
  ASSUME admitted \in Seq(Int), NEW i \in 1..Len(admitted),
         NEW d \in Int, NEW e \in Int, e <= d
  PROVE  Load(i, e) <= Load(i, d)
<1> DEFINE short == {j \in 1..i : admitted[j] >= admitted[i] - e}
           long  == {j \in 1..i : admitted[j] >= admitted[i] - d}
<1>1. \A j \in 1..i : admitted[j] \in Int /\ admitted[i] \in Int
  OBVIOUS
<1>2. short \in SUBSET long
  BY <1>1
<1>3. IsFiniteSet(long)
  BY LoadIsFinite
<1>4. Cardinality(short) <= Cardinality(long)
  BY <1>2, <1>3, FS_Subset
<1> QED BY <1>4 DEF Load

LEMMA LimiterInit == IntakeInit => LimiterInductive
<1> SUFFICES ASSUME IntakeInit PROVE LimiterInductive
  OBVIOUS
<1> USE DEF IntakeInit
<1>1. ConfigTypeOK /\ now = 0
  BY ConfigInitInductive DEF ConfigInductive, ConfigInit
<1>2. Highest[Window] \in Nat /\ Highest[Limit] \in Nat
  BY RangesAssumption, ConfigAssumption
<1>3. shortest \in Int
  BY <1>2, ProductIsInt, IntakeAssumption
<1>4. IntakeTypeOK
  BY <1>1, <1>2, IntakeAssumption DEF IntakeTypeOK
<1>5. SeenType
  BY <1>3 DEF SeenType
<1>6. InOrder /\ Remembers /\ Decides /\ RateHeld
  BY DEF InOrder, Remembers, Forgotten, Decides, RateHeld
<1> QED BY <1>4, <1>5, <1>6 DEF LimiterInductive

\* The clock and the configuration leave the session alone.
LEMMA OutsideLimiter ==
  ASSUME LimiterInductive, ConfigTypeOK', now' \in Int, now' >= now,
         UNCHANGED <<sessionVars, seenVars>>
  PROVE  LimiterInductive'
<1> USE DEF LimiterInductive, sessionVars, seenVars
<1>1. now \in Nat /\ now' \in Nat
  <2>1. now \in 0..MaxNow /\ now' \in 0..MaxNow
    BY Zenon DEF IntakeTypeOK, ConfigTypeOK
  <2> QED BY <2>1, ConfigAssumption
<1>2. 0..now \subseteq 0..now'
  BY <1>1
<1>3. stamps' \in Seq(0..now')
  <2>1. stamps \in Seq(0..now) /\ stamps' = stamps
    BY DEF IntakeTypeOK
  <2>2. \A i \in 1..Len(stamps) : stamps[i] \in 0..now'
    <3>1. \A i \in 1..Len(stamps) : stamps[i] \in 0..now
      BY <1>1, <2>1
    <3> QED BY <1>2, <3>1
  <2> QED BY <2>1, <2>2, SequenceOf
<1>4. IntakeTypeOK'
  BY <1>2, <1>3 DEF IntakeTypeOK
<1>5. SeenType' /\ InOrder' /\ Remembers' /\ Decides'
  BY DEF SeenType, InOrder, Remembers, Forgotten, Decides
<1>6. RateHeld'
  BY DEF RateHeld, Load
<1> QED BY <1>4, <1>5, <1>6

\* What is pruned is older than the window, and stays so as time goes on.
LEMMA PruneLimiter ==
  ASSUME LimiterInductive, Prune, ConfigTypeOK'
  PROVE  LimiterInductive'
<1> USE DEF LimiterInductive
<1> DEFINE start == now - window'
           keep  == {i \in DOMAIN stamps : stamps[i] >= start}
           m     == Len(stamps) - Cardinality(keep)
<1>1. /\ now \in Nat /\ arrival \in 0..now /\ last_activity \in 0..now
      /\ stamps \in Seq(0..now) /\ Len(stamps) \in Nat
      /\ \A i \in 1..Len(stamps) : stamps[i] \in 0..now
  <2>1. now \in 0..MaxNow
    BY DEF IntakeTypeOK, ConfigTypeOK
  <2>2. now \in Nat
    BY <2>1, ConfigAssumption
  <2> QED BY <2>2 DEF IntakeTypeOK
<1>2. /\ admitted \in Seq(Int) /\ Len(admitted) \in Nat
      /\ \A i \in 1..Len(admitted) : admitted[i] \in Int
      /\ window \in Int /\ limit \in Int /\ shortest \in Int /\ largest \in Int
  BY DEF SeenType
<1>3. /\ pc' = "limit" /\ arrival' = now /\ now' = now /\ admitted' = admitted
      /\ stamps' = Kept(stamps, keep)
      /\ message_count' = message_count /\ message_count < MaxMessages
      /\ last_activity' = last_activity
      /\ limit' = limit /\ largest' = largest
  BY DEF Prune, Recent
<1>4. window' \in Int
  <2>1. window' = values[Window] * TicksPerSecond
    BY DEF Prune
  <2>2. values[Window] \in Int /\ TicksPerSecond \in Nat
    BY ConfigAssumption, IntakeAssumption DEF IntakeTypeOK, ConfigTypeOK
  <2> QED BY <2>1, <2>2, ProductIsInt
<1>5. shortest' \in Int /\ shortest' <= shortest /\ shortest' <= window'
  BY <1>2, <1>4 DEF Prune, Lower
<1>6. /\ Forgotten \in Nat /\ Forgotten = Len(admitted) - Len(stamps)
      /\ \A i \in 1..Len(stamps) : stamps[i] = admitted[Forgotten + i]
      /\ \A i \in 1..Forgotten : admitted[i] < arrival - shortest
  BY <1>1, <1>2 DEF Remembers, Forgotten
<1>7. Ordered(stamps)
  <2> SUFFICES ASSUME NEW i \in 1..Len(stamps), NEW j \in 1..Len(stamps), i <= j
               PROVE  stamps[i] <= stamps[j]
    BY DEF Ordered
  <2>1. /\ Forgotten + i \in 1..Len(admitted) /\ Forgotten + j \in 1..Len(admitted)
        /\ Forgotten + i <= Forgotten + j
    BY <1>1, <1>2, <1>6
  <2>2. admitted[Forgotten + i] <= admitted[Forgotten + j]
    BY <2>1 DEF InOrder
  <2> QED BY <1>6, <2>2
<1>8. stamps \in Seq(Int) /\ start \in Int
  BY <1>1, <1>4
<1>9. /\ m \in 0..Len(stamps) /\ stamps' \in Seq(Int) /\ Len(stamps') = Len(stamps) - m
      /\ \A i \in 1..Len(stamps') : stamps'[i] = stamps[m + i] /\ stamps'[i] >= start
      /\ \A i \in 1..m : stamps[i] < start
  BY <1>3, <1>7, <1>8, KeptIsSuffix
<1> HIDE DEF keep, m, start
<1>10. IntakeTypeOK'
  <2>1. \A i \in 1..Len(stamps') : m + i \in 1..Len(stamps) /\ stamps'[i] \in 0..now
    <3> SUFFICES ASSUME NEW i \in 1..Len(stamps')
                 PROVE  m + i \in 1..Len(stamps) /\ stamps'[i] \in 0..now
      OBVIOUS
    <3>1. m + i \in 1..Len(stamps)
      BY <1>1, <1>9
    <3>2. stamps'[i] = stamps[m + i]
      BY <1>9
    <3> QED BY <1>1, <3>1, <3>2
  <2>2. stamps' \in Seq(0..now)
    BY <1>9, <2>1, SequenceOf
  <2>3. Highest[Limit] \in Nat
    BY RangesAssumption, ConfigAssumption
  <2>4. Len(stamps') <= Highest[Limit]
    BY <1>1, <1>9, <2>3 DEF IntakeTypeOK
  <2>5. message_count' \in 0..MaxMessages
    BY <1>3 DEF IntakeTypeOK
  <2> QED BY <1>1, <1>3, <2>2, <2>4, <2>5 DEF IntakeTypeOK
<1>11. SeenType'
  BY <1>2, <1>3, <1>4, <1>5 DEF SeenType
<1>12. InOrder'
  <2>1. \A i \in 1..Len(admitted) : admitted[i] <= now
    BY <1>1, <1>2 DEF InOrder
  <2> QED BY <1>3, <2>1 DEF InOrder
<1>13. Remembers'
  <2>1. Forgotten' = Forgotten + m
    BY <1>1, <1>2, <1>3, <1>6, <1>9 DEF Forgotten
  <2>2. \A i \in 1..Len(stamps') : stamps'[i] = admitted[Forgotten + m + i]
    <3> SUFFICES ASSUME NEW i \in 1..Len(stamps')
                 PROVE  stamps'[i] = admitted[Forgotten + m + i]
      OBVIOUS
    <3>1. m + i \in 1..Len(stamps) /\ Forgotten + (m + i) = Forgotten + m + i
      BY <1>1, <1>6, <1>9
    <3>2. stamps[m + i] = admitted[Forgotten + (m + i)]
      BY <1>6, <3>1
    <3> QED BY <1>9, <3>1, <3>2
  <2>3. ASSUME NEW i \in 1..(Forgotten + m) PROVE admitted[i] < now - shortest'
    <3>1. i \in 1..Len(admitted)
      BY <1>1, <1>2, <1>6, <1>9
    <3>2. admitted[i] \in Int
      BY <1>2, <3>1
    <3>3. CASE i \in 1..Forgotten
      BY <1>1, <1>2, <1>5, <1>6, <3>2, <3>3
    <3>4. CASE i \notin 1..Forgotten
      <4>1. i - Forgotten \in 1..m /\ i - Forgotten \in 1..Len(stamps)
        BY <1>1, <1>6, <1>9, <3>4
      <4>2. stamps[i - Forgotten] = admitted[Forgotten + (i - Forgotten)]
        BY <1>6, <4>1
      <4>3. Forgotten + (i - Forgotten) = i
        BY <1>6
      <4>4. admitted[i] < start
        BY <1>9, <4>1, <4>2, <4>3
      <4> QED BY <1>1, <1>4, <1>5, <3>2, <4>4 DEF start
    <3> QED BY <3>3, <3>4
  <2>4. Forgotten' >= 0
    BY <1>6, <1>9, <2>1
  <2> QED BY <1>3, <2>1, <2>2, <2>3, <2>4 DEF Remembers
<1>14. Decides'
  BY <1>3, <1>9 DEF Decides, start
<1>15. RateHeld'
  <2> SUFFICES ASSUME NEW i \in 1..Len(admitted) PROVE Load(i, shortest') <= largest
    BY <1>3 DEF RateHeld, Load
  <2>1. Load(i, shortest) <= largest
    BY DEF RateHeld
  <2>2. Load(i, shortest') <= Load(i, shortest)
    BY <1>2, <1>5, LoadShrinks
  <2>3. Load(i, shortest) \in Nat /\ Load(i, shortest') \in Nat
    BY <1>2, <1>5, LoadIsFinite
  <2> QED BY <1>2, <2>1, <2>2, <2>3
<1> QED BY <1>10, <1>11, <1>12, <1>13, <1>14, <1>15

\* What is admitted is the limit's last place at most.
LEMMA AdmitLimiter ==
  ASSUME LimiterInductive, Admit, ConfigTypeOK'
  PROVE  LimiterInductive'
<1> USE DEF LimiterInductive
<1> DEFINE n == Len(admitted)
           k == Len(stamps)
<1>1. /\ n \in Nat /\ \A i \in 1..n : admitted[i] \in Int
      /\ k \in Nat /\ admitted \in Seq(Int)
      /\ arrival \in 0..now /\ arrival \in Int
      /\ shortest \in Int /\ largest \in Int /\ window \in Int
  BY DEF IntakeTypeOK, SeenType
<1>2. /\ UNCHANGED <<now, arrival, shortest, window, message_count, last_activity>>
      /\ pc = "limit" /\ limit' = values[Limit] /\ largest' = Higher(largest, limit')
  BY DEF Admit
<1>3. /\ limit' \in Int /\ limit' <= Highest[Limit] /\ Highest[Limit] \in Int
      /\ largest' \in Int /\ largest' >= largest /\ largest' >= limit'
  <2>1. values[Limit] \in Int /\ Fits(Limit, values[Limit])
    BY ConfigAssumption DEF IntakeTypeOK, ConfigTypeOK
  <2>2. Highest[Limit] \in Nat
    BY RangesAssumption, ConfigAssumption
  <2> QED BY <1>1, <1>2, <2>1, <2>2 DEF Fits, Higher
<1>4. /\ Forgotten \in Nat /\ n = Forgotten + k
      /\ \A i \in 1..k : stamps[i] = admitted[Forgotten + i]
      /\ \A i \in 1..Forgotten : admitted[i] < arrival - shortest
  BY <1>1 DEF Remembers, Forgotten
<1>5. CASE Full(limit')
  <2>1. pc' = "limited" /\ UNCHANGED <<stamps, admitted>> /\ k >= limit'
    BY <1>5 DEF Admit, Full
  <2>2. IntakeTypeOK'
    BY <1>2, <2>1 DEF IntakeTypeOK
  <2>3. SeenType'
    BY <1>1, <1>2, <1>3, <2>1 DEF SeenType
  <2>4. InOrder' /\ Remembers'
    BY <1>2, <2>1 DEF InOrder, Remembers, Forgotten
  <2>5. Decides'
    BY <1>2, <2>1 DEF Decides
  <2>6. RateHeld'
    <3> SUFFICES ASSUME NEW i \in 1..n PROVE Load(i, shortest) <= largest'
      BY <1>2, <2>1 DEF RateHeld, Load
    <3>1. Load(i, shortest) <= largest
      BY DEF RateHeld
    <3>2. Load(i, shortest) \in Nat
      BY <1>1, LoadIsFinite
    <3> QED BY <1>1, <1>3, <3>1, <3>2
  <2> QED BY <2>2, <2>3, <2>4, <2>5, <2>6
<1>6. CASE ~Full(limit')
  <2>1. /\ pc' = "burst" /\ k < limit'
        /\ stamps' = Append(stamps, arrival) /\ admitted' = Append(admitted, arrival)
    BY <1>1, <1>3, <1>6 DEF Admit, Full
  <2>2. /\ admitted' \in Seq(Int) /\ Len(admitted') = n + 1
        /\ \A i \in 1..n : admitted'[i] = admitted[i]
        /\ admitted'[n + 1] = arrival
    BY <1>1, <2>1
  <2>3. /\ stamps' \in Seq(0..now) /\ Len(stamps') = k + 1
        /\ \A i \in 1..k : stamps'[i] = stamps[i]
        /\ stamps'[k + 1] = arrival
    BY <1>1, <2>1 DEF IntakeTypeOK
  <2>4. IntakeTypeOK'
    <3>1. Len(stamps') <= Highest[Limit]
      BY <1>1, <1>3, <2>1, <2>3
    <3> QED BY <1>2, <2>1, <2>3, <3>1 DEF IntakeTypeOK
  <2>5. SeenType'
    BY <1>1, <1>2, <1>3, <2>1, <2>2 DEF SeenType
  <2>6. InOrder'
    <3>1. ASSUME NEW i \in 1..(n + 1) PROVE admitted'[i] <= arrival
      <4>1. CASE i = n + 1
        BY <1>1, <2>2, <4>1
      <4>2. CASE i # n + 1
        <5>1. i \in 1..n /\ admitted[i] <= arrival
          BY <1>1, <4>2 DEF InOrder
        <5> QED BY <2>2, <5>1
      <4> QED BY <4>1, <4>2
    <3>2. ASSUME NEW i \in 1..(n + 1), NEW j \in 1..(n + 1), i <= j
          PROVE  admitted'[i] <= admitted'[j]
      <4>1. CASE j = n + 1
        BY <2>2, <3>1, <4>1
      <4>2. CASE j # n + 1
        <5>1. i \in 1..n /\ j \in 1..n
          BY <1>1, <3>2, <4>2
        <5> QED BY <2>2, <3>2, <5>1 DEF InOrder
      <4> QED BY <4>1, <4>2
    <3> QED BY <1>2, <2>2, <3>1, <3>2 DEF InOrder
  <2>7. Remembers'
    <3>1. Forgotten' = Forgotten
      BY <1>1, <2>2, <2>3 DEF Forgotten
    <3>2. ASSUME NEW i \in 1..(k + 1) PROVE stamps'[i] = admitted'[Forgotten + i]
      <4>1. CASE i = k + 1
        BY <1>1, <1>4, <2>2, <2>3, <4>1
      <4>2. CASE i # k + 1
        <5>1. i \in 1..k /\ Forgotten + i \in 1..n
          BY <1>1, <1>4, <4>2
        <5> QED BY <1>4, <2>2, <2>3, <5>1
      <4> QED BY <4>1, <4>2
    <3>3. ASSUME NEW i \in 1..Forgotten PROVE admitted'[i] < arrival - shortest
      <4>1. i \in 1..n
        BY <1>1, <1>4
      <4> QED BY <1>4, <2>2, <4>1
    <3> QED BY <1>2, <1>4, <2>3, <3>1, <3>2, <3>3 DEF Remembers
  <2>8. Decides'
    BY <2>1 DEF Decides
  <2>9. RateHeld'
    <3> SUFFICES ASSUME NEW i \in 1..(n + 1) PROVE Load(i, shortest)' <= largest'
      BY <1>2, <2>2 DEF RateHeld, Load
    <3> DEFINE within == {j \in 1..i : admitted'[j] >= admitted'[i] - shortest}
    <3>1. Load(i, shortest)' = Cardinality(within)
      BY <1>2 DEF Load
    <3>2. CASE i \in 1..n
      <4>1. Load(i, shortest) <= largest
        BY <3>2 DEF RateHeld
      <4>2. Load(i, shortest) \in Nat
        BY <1>1, <3>2, LoadIsFinite
      <4>3. within = {j \in 1..i : admitted[j] >= admitted[i] - shortest}
        <5>1. \A j \in 1..i : admitted'[j] = admitted[j]
          BY <1>1, <2>2, <3>2
        <5>2. admitted'[i] = admitted[i]
          BY <2>2, <3>2
        <5> QED BY <5>1, <5>2
      <4>4. Cardinality(within) = Load(i, shortest)
        BY <4>3, Zenon DEF Load
      <4> QED BY <1>1, <1>3, <3>1, <4>1, <4>2, <4>4
    <3>3. CASE i = n + 1
      <4> DEFINE latest == (Forgotten + 1)..(n + 1)
      <4>1. ASSUME NEW j \in within PROVE j \in latest
        <5>1. j \in 1..(n + 1) /\ admitted'[j] >= arrival - shortest
          BY <2>2, <3>3
        <5>2. j \notin 1..Forgotten
          <6>1. SUFFICES ASSUME j \in 1..Forgotten PROVE FALSE
            OBVIOUS
          <6>2. j \in 1..n
            BY <1>1, <1>4, <6>1
          <6>3. admitted'[j] = admitted[j] /\ admitted[j] \in Int
            BY <1>1, <2>2, <6>2
          <6> QED BY <1>1, <1>4, <5>1, <6>1, <6>3
        <5> QED BY <1>1, <1>4, <5>1, <5>2
      <4>2. within \in SUBSET latest
        BY <4>1
      <4>3. /\ Forgotten + 1 \in Int /\ n + 1 \in Int
            /\ Forgotten + 1 <= (n + 1) + 1
        BY <1>1, <1>4
      <4>4. IsFiniteSet(latest) /\ Cardinality(latest) = (n + 1) - (Forgotten + 1) + 1
        BY <4>3, IntervalSize
      <4>5. IsFiniteSet(within) /\ Cardinality(within) <= Cardinality(latest)
        BY <4>2, <4>4, FS_Subset
      <4>6. Cardinality(latest) = k + 1
        BY <1>1, <1>4, <4>4
      <4>7. Cardinality(within) \in Nat
        BY <4>5, FS_CardinalityType
      <4> HIDE DEF within, latest
      <4> QED BY <1>1, <1>3, <2>1, <3>1, <4>5, <4>6, <4>7
    <3> QED BY <1>1, <3>2, <3>3
  <2> QED BY <2>4, <2>5, <2>6, <2>7, <2>8, <2>9
<1> QED BY <1>5, <1>6

LEMMA BurstLimiter ==
  ASSUME LimiterInductive, CheckBurst, ConfigTypeOK'
  PROVE  LimiterInductive'
<1> USE DEF LimiterInductive
<1>1. /\ UNCHANGED <<now, arrival, stamps, admitted, shortest, largest, window, limit>>
      /\ pc = "burst" /\ pc' \in {"suspicious", "idle"}
      /\ message_count' = message_count + 1 /\ last_activity' = now
  BY DEF CheckBurst
<1>2. now \in 0..now /\ message_count' \in 0..MaxMessages
  <2>1. now \in 0..MaxNow
    BY DEF IntakeTypeOK, ConfigTypeOK
  <2>2. message_count \in 0..MaxMessages /\ message_count < MaxMessages
    BY <1>1 DEF IntakeTypeOK, SeenType
  <2> QED BY <1>1, <2>1, <2>2, ConfigAssumption, IntakeAssumption
<1>3. IntakeTypeOK'
  BY <1>1, <1>2 DEF IntakeTypeOK
<1>4. SeenType' /\ Decides'
  BY <1>1 DEF SeenType, Decides
<1>5. InOrder' /\ Remembers'
  BY <1>1 DEF InOrder, Remembers, Forgotten
<1>6. RateHeld'
  BY <1>1 DEF RateHeld, Load
<1> QED BY <1>3, <1>4, <1>5, <1>6

LEMMA LimiterStep ==
  ASSUME LimiterInductive, ConfigTypeOK', [IntakeNext]_intakeVars
  PROVE  LimiterInductive'
<1>1. now \in Nat /\ now' \in Nat
  <2>1. now \in 0..MaxNow /\ now' \in 0..MaxNow
    BY Zenon DEF LimiterInductive, IntakeTypeOK, ConfigTypeOK
  <2> QED BY <2>1, ConfigAssumption
<1>2. CASE SessionStep
  BY <1>2, PruneLimiter, AdmitLimiter, BurstLimiter DEF SessionStep
<1>3. CASE (Tick \/ ConfigNext) /\ UNCHANGED <<sessionVars, seenVars>>
  <2>1. now' = now \/ now' = now + 1
    BY <1>3 DEF Tick, ConfigNext, ReloadAsks, ReloadReads, Commit, Stamp, LoadReads, Edit
  <2> QED BY <1>1, <1>3, <2>1, OutsideLimiter
<1>4. CASE UNCHANGED intakeVars
  BY <1>1, <1>4, OutsideLimiter DEF intakeVars
<1> QED BY <1>2, <1>3, <1>4 DEF IntakeNext

LEMMA LimiterInvariant == IntakeSpec => []LimiterInductive
<1>1. LimiterInductive /\ ConfigTypeOK' /\ [IntakeNext]_intakeVars => LimiterInductive'
  BY LimiterStep
<1> QED BY <1>1, LimiterInit, ConfigTypeCorrect, PTL DEF IntakeSpec

\* Whatever is sent and however the configuration is reloaded, the limiter keeps
\* no more than the largest limit a file may set (message_timestamps_).
THEOREM IntakeTypeCorrect == IntakeSpec => []IntakeTypeOK
<1>1. LimiterInductive => IntakeTypeOK
  BY DEF LimiterInductive
<1> QED BY <1>1, LimiterInvariant, PTL

\* Wherever the window is laid, the messages let through within it are not more
\* than the limit (check_rate_limit_or_close).
THEOREM RateHeldAlways == IntakeSpec => []RateHeld
<1>1. LimiterInductive => RateHeld
  BY DEF LimiterInductive
<1> QED BY <1>1, LimiterInvariant, PTL

\* Who is refused did send as many as the limit within the window
\* (check_rate_limit_or_close).
THEOREM RefusedIsOverAlways == IntakeSpec => []RefusedIsOver
<1>1. LimiterInductive => RefusedIsOver
  <2> SUFFICES ASSUME LimiterInductive, pc = "limited"
               PROVE  Cardinality({j \in 1..Len(admitted) : admitted[j] >= arrival - window})
                        >= limit
    BY DEF RefusedIsOver
  <2> USE DEF LimiterInductive
  <2> DEFINE n      == Len(admitted)
             within == {j \in 1..n : admitted[j] >= arrival - window}
             latest == (Forgotten + 1)..n
  <2>1. n \in Nat /\ Len(stamps) \in Nat /\ limit \in Int
    BY DEF SeenType, IntakeTypeOK
  <2>2. /\ Forgotten \in Nat /\ n = Forgotten + Len(stamps)
        /\ \A i \in 1..Len(stamps) : stamps[i] = admitted[Forgotten + i]
    BY <2>1 DEF Remembers, Forgotten
  <2>3. ASSUME NEW j \in latest PROVE j \in within
    <3>1. j \in 1..n /\ j - Forgotten \in 1..Len(stamps) /\ Forgotten + (j - Forgotten) = j
      BY <2>1, <2>2
    <3>2. stamps[j - Forgotten] >= arrival - window
      BY <3>1 DEF Decides
    <3>3. stamps[j - Forgotten] = admitted[j]
      BY <2>2, <3>1
    <3> QED BY <3>1, <3>2, <3>3
  <2>4. latest \in SUBSET within /\ within \in SUBSET (1..n)
    BY <2>3
  <2>5. IsFiniteSet(within) /\ Cardinality(within) \in Nat
    <3>1. 1 \in Int /\ n \in Int /\ 1 <= n + 1
      BY <2>1
    <3> QED BY <2>4, <3>1, IntervalSize, FS_Subset, FS_CardinalityType
  <2>6. Cardinality(latest) = n - (Forgotten + 1) + 1
    <3>1. Forgotten + 1 \in Int /\ n \in Int /\ Forgotten + 1 <= n + 1
      BY <2>1, <2>2
    <3> QED BY <3>1, IntervalSize
  <2>7. Cardinality(latest) <= Cardinality(within)
    BY <2>4, <2>5, FS_Subset
  <2>8. Len(stamps) >= limit
    BY DEF Decides
  <2> QED BY <2>1, <2>2, <2>5, <2>6, <2>7, <2>8
<1> QED BY <1>1, LimiterInvariant, PTL
=============================================================================
