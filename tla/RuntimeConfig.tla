--------------------------- MODULE RuntimeConfig ---------------------------
(***************************************************************************)
(* runtime_config_manager: the values read from a configuration file, and  *)
(* load_from_file() and reload() called by several threads while others    *)
(* read single values (src/server/runtime_config_manager.cpp).             *)
(*                                                                         *)
(* A file's content gives numbers to some of the fields, in tenths, as it  *)
(* need not give whole ones; what is absent, of another kind or out of its *)
(* range gets the default.  The file is read outside the lock; the values  *)
(* are committed in one locked section, the path and the time in another.  *)
(***************************************************************************)
EXTENDS Integers

CONSTANTS
  Fields,       \* the numeric fields, by name
  Lowest, Highest, Default,   \* the range of each field and its default
  Narrow,       \* the fields that pass through an int
  IntSpan,      \* 2^32
  Contents,     \* what a configuration file may hold
  NoFile,       \* no such file, or no JSON in it
  Paths,
  Loaders,      \* the threads that load and reload
  ReloadInterval,
  MaxNow        \* the bound of the clock

Window == "rate_limit_window"
Limit  == "max_messages_per_window"
Queue  == "max_write_queue_size"

ASSUME ConfigAssumption ==
  /\ {Window, Limit, Queue} \subseteq Fields /\ Narrow \subseteq Fields
  /\ Default[Queue] >= Default[Limit]
  /\ IntSpan \in Nat \ {0} /\ MaxNow \in Nat /\ ReloadInterval \in Nat

\* A field that passes through an int has a range an int can hold.
ASSUME RangesAssumption ==
  \A f \in Fields :
    /\ {Lowest[f], Highest[f], Default[f]} \subseteq Nat
    /\ Default[f] >= Lowest[f] /\ Default[f] <= Highest[f]
    /\ f \in Narrow => 2 * Highest[f] < IntSpan

ASSUME FieldsAssumption == Default = [f \in Fields |-> Default[f]]

ASSUME ContentsAssumption == \A c \in Contents : \A f \in DOMAIN c : c[f] \in Int

VARIABLES
  values,       \* the value of each field
  config_path,  \* config_path_, "" before the first load
  last_reload,  \* last_reload_time_
  files,        \* what each file holds
  calls,        \* where each loader is, and what it has read so far
  now           \* the clock

configVars == <<values, config_path, last_reload, files, calls>>

Idle == [at |-> "idle", path |-> "", since |-> 0, content |-> NoFile]

ConfigInit ==
  /\ values = Default /\ config_path = "" /\ last_reload = 0
  /\ files \in [Paths -> Contents \cup {NoFile}]
  /\ calls = [t \in Loaders |-> Idle]
  /\ now = 0

-----------------------------------------------------------------------------
(* The overlay of a file's values over the defaults                         *)

\* static_cast<int> keeps the low 32 bits.
ToInt(n) ==
  LET low == n % IntSpan IN IF 2 * low >= IntSpan THEN low - IntSpan ELSE low

\* is_number() lets fractions pass, and get<int64_t>() cuts them off.
Truncated(tenths) == IF tenths >= 0 THEN tenths \div 10 ELSE -((-tenths) \div 10)

ReadField(f, n) == IF f \in Narrow THEN ToInt(Truncated(n)) ELSE Truncated(n)

Fits(f, n) == n >= Lowest[f] /\ n <= Highest[f]

Overlay(c) ==
  [f \in Fields |->
     IF f \in DOMAIN c /\ Fits(f, ReadField(f, c[f]))
     THEN ReadField(f, c[f]) ELSE Default[f]]

\* The check across fields.
Consistent(v) == v[Queue] >= v[Limit]

-----------------------------------------------------------------------------
(* Loading                                                                  *)

GoTo(t, place) == calls' = [calls EXCEPT ![t].at = place]
Return(t)      == calls' = [calls EXCEPT ![t] = Idle]

Parsed(t, p) ==
  calls' = [calls EXCEPT ![t] =
              [at |-> "commit", path |-> p, since |-> 0, content |-> files[p]]]

\* load_from_file(p) has parsed the file; a file that is not there is an error.
LoadReads(t, p) ==
  /\ calls[t].at = "idle" /\ files[p] # NoFile
  /\ Parsed(t, p)
  /\ UNCHANGED <<values, config_path, last_reload, files, now>>

\* reload() takes the path and the time under the lock ...
ReloadAsks(t) ==
  /\ calls[t].at = "idle" /\ config_path # ""
  /\ calls' = [calls EXCEPT ![t] =
                 [at |-> "asked", path |-> config_path, since |-> last_reload,
                  content |-> NoFile]]
  /\ UNCHANGED <<values, config_path, last_reload, files, now>>

\* ... and reads the file, unless it was loaded a moment ago or is gone.
ReloadReads(t) ==
  /\ calls[t].at = "asked"
  /\ IF now - calls[t].since < ReloadInterval \/ files[calls[t].path] = NoFile
     THEN Return(t)
     ELSE Parsed(t, calls[t].path)
  /\ UNCHANGED <<values, config_path, last_reload, files, now>>

\* Mutant: the window and the other values are committed under one lock each.
Commit_InTwoSections(t) ==
  /\ calls[t].at \in {"commit", "half"}
  /\ LET new == Overlay(calls[t].content) IN
     \/ /\ ~Consistent(new)
        /\ UNCHANGED values /\ Return(t)
     \/ /\ Consistent(new) /\ calls[t].at = "commit"
        /\ values' = [values EXCEPT ![Window] = new[Window]]
        /\ GoTo(t, "half")
     \/ /\ Consistent(new) /\ calls[t].at = "half"
        /\ values' = [new EXCEPT ![Window] = values[Window]]
        /\ GoTo(t, "stamp")
  /\ UNCHANGED <<config_path, last_reload, files, now>>

\* load_from_json() commits all values or none.
Commit(t) ==
  /\ calls[t].at = "commit"
  /\ LET new == Overlay(calls[t].content) IN
     IF Consistent(new)
     THEN values' = new /\ GoTo(t, "stamp")
     ELSE UNCHANGED values /\ Return(t)
  /\ UNCHANGED <<config_path, last_reload, files, now>>

\* The second locked section of load_from_file().
Stamp(t) ==
  /\ calls[t].at = "stamp"
  /\ config_path' = calls[t].path /\ last_reload' = now
  /\ Return(t)
  /\ UNCHANGED <<values, files, now>>

\* Someone writes, or removes, a file.
Edit(p) ==
  /\ \E c \in Contents \cup {NoFile} : files' = [files EXCEPT ![p] = c]
  /\ UNCHANGED <<values, config_path, last_reload, calls, now>>

Tick == now < MaxNow /\ now' = now + 1 /\ UNCHANGED configVars

ConfigNext ==
  \/ \E t \in Loaders :
       \/ ReloadAsks(t) \/ ReloadReads(t) \/ Commit(t) \/ Stamp(t)
       \/ \E p \in Paths : LoadReads(t, p)
  \/ \E p \in Paths : Edit(p)

-----------------------------------------------------------------------------
\* Types; every value is within its range, and the queue can hold what the rate
\* limiter admits in one window.
ConfigTypeOK ==
  /\ values \in [Fields -> Int] /\ \A f \in Fields : Fits(f, values[f])
  /\ values[Queue] >= values[Limit]
  /\ config_path \in Paths \cup {""} /\ last_reload \in 0..MaxNow /\ now \in 0..MaxNow

\* At any time the values are those of one file, with the defaults where it is
\* silent, however loads and reloads overlap: never a mixture of two, and never
\* an older value where the last file leaves one out (load_from_json).
ValuesOfOneFile ==
  \/ values = Default
  \/ \E c \in Contents : \A f \in Fields :
       IF f \in DOMAIN c
       THEN values[f] \in {ReadField(f, c[f]), Default[f]}
       ELSE values[f] = Default[f]
=============================================================================
