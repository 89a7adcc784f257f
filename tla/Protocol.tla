------------------------------ MODULE Protocol ------------------------------
(***************************************************************************)
(* What the server makes of the messages of one client: parsing, the       *)
(* validation of the fields and what the session does with the numbers in  *)
(* them (src/common/protocol.hpp, protocol.cpp, protocol_validation.cpp,   *)
(* and the handlers of websocket_session.cpp).                             *)
(*                                                                         *)
(* A JSON number is an integer or a decimal; the two mean different things *)
(* (cents and dollars) and are converted on different paths.  Integers     *)
(* have the width of int64_t scaled down: Half stands for 2^63.            *)
(***************************************************************************)
EXTENDS Integers

CONSTANTS
  Half,         \* 2^63
  MaxAmount,    \* MAX_AMOUNT
  MaxGap,       \* the configured max_sequence_gap
  Messages      \* what the client may send

Span == 2 * Half

\* Two valid amounts add up without overflow: handle_reload_msg relies on it.
ASSUME WidthAssumption ==
  /\ Half \in Nat /\ MaxAmount \in Nat \ {0} /\ 2 * MaxAmount < Half
  /\ MaxGap \in Nat \ {0} /\ MaxGap < Half

\* An integer, a decimal in thousandths, and null or nothing, or a wrong kind.
Whole(n)   == [kind |-> "int", n |-> n]
Decimal(n) == [kind |-> "dec", n |-> n]
Null       == [kind |-> "null", n |-> 0]
Wrong      == [kind |-> "wrong", n |-> 0]

Numbers ==
  {Whole(n) : n \in -Half..(Span - 1)} \cup {Decimal(n) : n \in -(1000 * Span)..(1000 * Span)}
  \cup {Null, Wrong}

Ours       == "v1.0"          \* PROTOCOL_VERSION
SameMajor  == {Ours, "v1.1"}  \* those that differ in the minor number at most
Versions   == SameMajor \cup {"v2.0", "missing"}
SessionIds == {"own", "another", "ill_formed"}
Texts      == {"fine", "absent", "too_long", "unprintable"}

\* A message by what tells its envelope and payload apart; "none" is a text
\* that is not JSON or has no message_type of a legal length.
Handshakes  == [type : {"HANDSHAKE"}, version : Versions,
                inner : SameMajor \cup {"v2.0", ""}, name : Texts]
Actions     == [type : {"ACTION"}, version : Versions, sid : SessionIds, action : STRING,
                seq : Numbers, amount : Numbers]
Reloads     == [type : {"RELOAD_REQUEST"}, version : Versions, sid : SessionIds,
                amount : Numbers]
Disconnects == [type : {"DISCONNECT"}, version : Versions, sid : SessionIds, reason : Texts]
Others      == [type : {"STATE_UPDATE", "none"}, version : Versions]

ASSUME MessagesAssumption ==
  Messages \subseteq Handshakes \cup Actions \cup Reloads \cup Disconnects \cup Others

VARIABLES
  phase,      \* state_: "unauthenticated", "authenticated" or "closed"
  msg,        \* the message handled last
  verdict,    \* the type it was accepted as, or the error code it was refused with
  amount,     \* the amount read from it in cents, NoAmount if none was
  last_seq,   \* last_sequence_number_
  stack       \* current_stack_

protocolVars == <<phase, msg, verdict, amount, last_seq, stack>>

Nothing  == [type |-> "nothing"]
NoAmount == -Span    \* std::nullopt

ProtocolInit ==
  /\ phase = "unauthenticated" /\ msg = Nothing /\ verdict = "none"
  /\ amount = NoAmount /\ last_seq = -1 /\ stack = 0

-----------------------------------------------------------------------------
(* Numbers.  A conversion yields the set of its outcomes: none if it throws, *)
(* several where C++ or the binary fraction leaves it open.                  *)

\* get<int64_t>() of an integer that was parsed as unsigned keeps its bits.
Wrap(n) == IF n >= Half THEN n - Span ELSE n

\* A cast of a double that does not fit is undefined: what the targets do.
Unrepresentable == {-Half, Half - 1}

\* Mutant: truncation instead of round().
Cents_Truncated(d) == {d \div 10}

\* round(dollars * 100): the nearest cent; a tie may fall either way, as the
\* binary value is rarely the tie itself.
Cents(d) ==
  LET c == d \div 10 IN
  {x \in {c, c + 1} : 10 * x - d \in -5..5}

\* The range check lets 2^63 pass: as a double it equals the int64_t maximum.
FromCents(c) ==
  IF c > Half \/ c < -Half THEN {}
  ELSE IF c = Half THEN Unrepresentable ELSE {c}

\* from_json() of an amount; the branch for unsigned numbers is never reached,
\* is_number_integer() holds for them too.
ReadAmount(j) ==
  CASE j.kind = "int" -> {Wrap(j.n)}
    [] j.kind = "dec" -> UNION {FromCents(c) : c \in Cents(j.n)}
    [] OTHER          -> {}

\* get_to() of a sequence number: a fraction is cut off towards zero.
Truncated(d) == IF d >= 0 THEN d \div 1000 ELSE -((-d) \div 1000)

ReadSequence(j) ==
  CASE j.kind = "int" -> {Wrap(j.n)}
    [] j.kind = "dec" ->
         IF Truncated(j.n) \in -Half..(Half - 1)
         THEN {Truncated(j.n)} ELSE Unrepresentable
    [] OTHER          -> {}

-----------------------------------------------------------------------------
(* Validation                                                               *)

ReadOptional(j) == IF j.kind = "null" THEN {NoAmount} ELSE ReadAmount(j)

AmountRequired  == {"RAISE", "ALL_IN"}
AmountForbidden == {"FOLD", "CHECK", "CALL"}
ActionTypes     == AmountRequired \cup AmountForbidden

\* Mutant: no upper bound.
InBounds_Unbounded(a) == a > 0

InBounds(a) == a > 0 /\ a <= MaxAmount

\* parse_from_envelope(): the envelope is there and has our version.
Enveloped(m) == m.version = Ours

\* parse_action_from_envelope(), up to the validation of what it has read.
ParseAction(m) ==
  IF Enveloped(m) THEN ReadSequence(m.seq) \X ReadOptional(m.amount) ELSE {}

\* validate_action().
ValidAction(m, seq, a) ==
  /\ m.sid # "ill_formed" /\ seq >= 0 /\ m.action \in ActionTypes
  /\ a # NoAmount => InBounds(a)
  /\ m.action \in AmountRequired => a # NoAmount
  /\ m.action \in AmountForbidden => a = NoAmount

\* parse_reload_from_envelope() and validate_reload().
ParseReload(m) == IF Enveloped(m) THEN ReadAmount(m.amount) ELSE {}

\* Mutant: a bound that is off by one.
ValidReload_Below(m, a) == m.sid # "ill_formed" /\ a > 0 /\ a < MaxAmount

ValidReload(m, a) == m.sid # "ill_formed" /\ InBounds(a)

\* validate_disconnect().
ValidDisconnect(m) ==
  Enveloped(m) /\ m.sid # "ill_formed" /\ m.reason \in {"fine", "absent"}

\* parse_handshake(): the version is compared with the envelope's, not ours.
ValidHandshake(m) ==
  /\ m.type = "HANDSHAKE" /\ m.version # "missing" /\ m.inner # ""
  /\ m.name \in {"fine", "absent"}
  /\ m.inner = m.version

-----------------------------------------------------------------------------
(* The session's handlers                                                   *)

\* send_protocol_error() and close().
Refuse(code) ==
  /\ verdict' = code /\ phase' = "closed" /\ amount' = NoAmount
  /\ UNCHANGED <<last_seq, stack>>

\* handle_handshake_message().
ReceiveHandshake(m) ==
  /\ phase = "unauthenticated"
  /\ IF ~ValidHandshake(m) THEN Refuse("MALFORMED_HANDSHAKE")
     ELSE IF m.inner # Ours THEN Refuse("INCOMPATIBLE_VERSION")
     ELSE /\ phase' = "authenticated" /\ verdict' = "HANDSHAKE"
          /\ UNCHANGED <<amount, last_seq, stack>>

\* Mutant: a cast to a narrower type.
Unsigned_Narrow(n) == n % (Half \div 2)

\* A cast to uint64_t, and the difference of two of them.
Unsigned(n) == IF n < 0 THEN n + Span ELSE n

Difference(a, b) == IF a >= b THEN a - b ELSE a - b + Span

SequenceGap(seq) == Difference(Unsigned(seq), Unsigned(last_seq))

InSequence(seq) == seq > last_seq /\ SequenceGap(seq) <= MaxGap

\* handle_action().
HandleAction(m, seq, a) ==
  IF m.sid # "own" \/ ~InSequence(seq)
  THEN Refuse("PROTOCOL_ERROR")
  ELSE /\ verdict' = "ACTION" /\ amount' = a /\ last_seq' = seq
       /\ UNCHANGED <<phase, stack>>

ReceiveAction(m) ==
  /\ phase = "authenticated" /\ m.type = "ACTION"
  /\ \/ ParseAction(m) = {} /\ Refuse("MALFORMED_MESSAGE")
     \/ \E p \in ParseAction(m) :
          IF ValidAction(m, p[1], p[2])
          THEN HandleAction(m, p[1], p[2])
          ELSE Refuse("MALFORMED_MESSAGE")

Lower(a, b) == IF a <= b THEN a ELSE b

\* handle_reload_msg(), while its response fits the write queue.  The sum is
\* one of int64_t.
HandleReload(m, a) ==
  IF m.sid # "own"
  THEN Refuse("PROTOCOL_ERROR")
  ELSE /\ verdict' = "RELOAD_REQUEST" /\ amount' = a
       /\ stack' = Lower(Wrap(stack + a), MaxAmount)
       /\ UNCHANGED <<phase, last_seq>>

ReceiveReload(m) ==
  /\ phase = "authenticated" /\ m.type = "RELOAD_REQUEST"
  /\ \/ ParseReload(m) = {} /\ Refuse("MALFORMED_MESSAGE")
     \/ \E a \in ParseReload(m) :
          IF ValidReload(m, a) THEN HandleReload(m, a) ELSE Refuse("MALFORMED_MESSAGE")

\* handle_disconnect_msg().
ReceiveDisconnect(m) ==
  /\ phase = "authenticated" /\ m.type = "DISCONNECT"
  /\ IF ~ValidDisconnect(m) THEN Refuse("MALFORMED_MESSAGE")
     ELSE IF m.sid # "own" THEN Refuse("PROTOCOL_ERROR")
     ELSE /\ verdict' = "DISCONNECT" /\ phase' = "closed"
          /\ UNCHANGED <<amount, last_seq, stack>>

\* handle_authenticated_message(), when the type is none of these.
ReceiveOther(m) ==
  /\ phase = "authenticated"
  /\ m.type \in {"HANDSHAKE", "STATE_UPDATE", "none"}
  /\ Refuse(IF m.type = "none" THEN "MALFORMED_MESSAGE" ELSE "PROTOCOL_ERROR")

-----------------------------------------------------------------------------
Receive(m) ==
  /\ msg' = m
  /\ \/ ReceiveHandshake(m) \/ ReceiveAction(m) \/ ReceiveReload(m)
     \/ ReceiveDisconnect(m) \/ ReceiveOther(m)

ProtocolNext == \E m \in Messages : Receive(m)

ProtocolSpec == ProtocolInit /\ [][ProtocolNext]_protocolVars

-----------------------------------------------------------------------------
Verdicts ==
  {"none", "HANDSHAKE", "ACTION", "RELOAD_REQUEST", "DISCONNECT", "PROTOCOL_ERROR",
   "MALFORMED_HANDSHAKE", "INCOMPATIBLE_VERSION", "MALFORMED_MESSAGE"}

\* Types; the stack of a client stays within what an amount may be.
ProtocolTypeOK ==
  /\ phase \in {"unauthenticated", "authenticated", "closed"}
  /\ msg \in Messages \cup {Nothing} /\ verdict \in Verdicts
  /\ amount \in 0..MaxAmount \cup {NoAmount}
  /\ last_seq \in -1..(Half - 1) /\ stack \in 0..MaxAmount

\* validation::is_valid_amount(), with its default bounds.
IsValidAmount(a) == ~(a <= 0) /\ ~(a > MaxAmount)

\* a is what the sender of j wrote, to the cent.
IsMeantBy(a, j) ==
  \/ j.kind = "int" /\ a = j.n
  \/ j.kind = "dec" /\ 10 * a - j.n \in -5..5

\* An amount the server acts on is the one the client sent, to the cent, and
\* one the public validator agrees to: no number is taken for another because
\* it was cut to 64 bits or did not fit a cast (from_json, validate_action).
AmountMeant ==
  verdict \in {"ACTION", "RELOAD_REQUEST"} /\ amount # NoAmount =>
    IsMeantBy(amount, msg.amount) /\ IsValidAmount(amount)

\* The amounts and the messages of a client that speaks our very version and
\* writes its numbers as protocol.hpp asks for.
SoundAmount(j) ==
  \/ j.kind = "int" /\ IsValidAmount(j.n)
  \/ j.kind = "dec" /\ j.n > 5 /\ j.n < 10 * MaxAmount + 5

SoundMessage(m) ==
  /\ m.version = Ours
  /\ \/ m.type = "RELOAD_REQUEST" /\ m.sid # "ill_formed" /\ SoundAmount(m.amount)
     \/ /\ m.type = "ACTION" /\ m.sid # "ill_formed"
        /\ m.seq.kind = "int" /\ m.seq.n \in 0..(Half - 1)
        /\ \/ m.action \in AmountForbidden /\ m.amount = Null
           \/ m.action \in AmountRequired /\ SoundAmount(m.amount)
     \/ /\ m.type = "DISCONNECT" /\ m.sid # "ill_formed"
        /\ m.reason \in {"fine", "absent"}

\* No sound message is refused as malformed, whichever way its numbers are
\* converted, and none is taken that breaks the policy on amounts, is of another
\* major version or names two versions (validate_action, validate_reload,
\* validate_disconnect, parse_handshake).  What becomes of another minor version
\* is left open: protocol.hpp calls it compatible, the handlers refuse it.
RefusedIsUnsound ==
  /\ verdict = "MALFORMED_MESSAGE" => ~SoundMessage(msg)
  /\ verdict = "ACTION" => (amount = NoAmount <=> msg.action \in AmountForbidden)
  /\ verdict \in {"HANDSHAKE", "ACTION", "RELOAD_REQUEST", "DISCONNECT"} =>
       msg.version \in SameMajor
  /\ verdict = "HANDSHAKE" => msg.inner = msg.version
  /\ verdict = "INCOMPATIBLE_VERSION" => msg.version # Ours

\* Sequence numbers go up by one to MaxGap each time, counted in true integers:
\* neither the sentinel nor the unsigned difference, nor a number that wrapped
\* round, lets an old one in (handle_action).
SequenceMeant == [][last_seq' # last_seq => last_seq' - last_seq \in 1..MaxGap]_protocolVars

\* A reload never takes chips away and never adds more than was asked for, nor
\* beyond the limit (handle_reload_msg, which adds before it compares).
StackMeant ==
  [][stack' # stack =>
       /\ verdict' = "RELOAD_REQUEST" /\ stack' > stack
       /\ stack' - stack <= amount' /\ stack' <= MaxAmount
       /\ stack' - stack < amount' => stack' = MaxAmount]_protocolVars

=============================================================================
