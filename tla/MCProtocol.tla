----------------------------- MODULE MCProtocol -----------------------------
(***************************************************************************)
(* An instance of Protocol for TLC, with integers of four bits: Half = 8.  *)
(***************************************************************************)
EXTENDS Protocol

\* Both signs, the bounds of an amount, the two sides of 2^63 and 2^64, and
\* decimals around a half cent, around the bounds and beyond the width.
Samples ==
  {Whole(n) : n \in {-8, -1, 0, 1, 3, 4, 7, 8, 9, 15}}
  \cup {Decimal(n) : n \in {-81, 5, 6, 14, 34, 35, 36, 80, 81, 1500, 8000}}
  \cup {Null, Wrong}

Action(v, s, a, n, x) ==
  [type |-> "ACTION", version |-> v, sid |-> s, action |-> a, seq |-> n, amount |-> x]

\* One field at a time is out of the ordinary.
SampleMessages ==
  Handshakes \cup Disconnects \cup Others
  \cup {Action(Ours, "own", a, Whole(n), x) :
          a \in {"FOLD", "RAISE", "BET"}, n \in {2, 4}, x \in Samples}
  \cup {Action(Ours, "own", "CALL", n, Null) : n \in Samples}
  \cup {Action(v, s, "ALL_IN", Whole(3), Whole(1)) : v \in Versions, s \in SessionIds}
  \cup [type : {"RELOAD_REQUEST"}, version : {Ours}, sid : {"own"}, amount : Samples]
  \cup [type : {"RELOAD_REQUEST"}, version : Versions, sid : SessionIds,
        amount : {Whole(1)}]
=============================================================================
