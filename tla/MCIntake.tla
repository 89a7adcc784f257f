------------------------------ MODULE MCIntake ------------------------------
(***************************************************************************)
(* Instances of Intake for TLC: four fields with small ranges, and files   *)
(* that change the window and the limit, name too many connections (one of *)
(* them so many that an int cannot hold it), or are inconsistent.          *)
(***************************************************************************)
EXTENDS Intake, TLC

Connections == "max_connections"
FieldNames  == {Window, Limit, Queue, Connections}

Table(connections, seconds, messages, queued) ==
  [f \in FieldNames |->
     CASE f = Connections -> connections
       [] f = Window      -> seconds
       [] f = Limit       -> messages
       [] f = Queue       -> queued]

LowestDef  == Table(1, 1, 1, 1)
HighestDef == Table(5, 2, 2, 2)
DefaultDef == Table(4, 1, 1, 1)

\* Kept is what the standard filter of a sequence yields.
ASSUME KeptIsFilter ==
  \A n \in 0..4 : \A s \in [1..n -> 0..2], start \in 0..3 :
    LET Later(t) == t >= start IN
    Kept(s, {i \in 1..n : s[i] >= start}) = SelectSeq(s, Later)

Partial(names, c) == [f \in names |-> c[f]]

\* The threads that load do not differ.
Alike == Permutations(Loaders)

\* In tenths.
ContentsDef ==
  { Partial({Connections, Window, Limit}, Table(90, 20, 10, 0)),
    Partial({Connections, Limit, Queue}, Table(170, 0, 20, 25)),
    Partial({Window, Limit}, Table(0, 9, 20, 0)) }
=============================================================================
