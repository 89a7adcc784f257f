--------------------------- MODULE Protocol_proofs ---------------------------
(***************************************************************************)
(* The amounts, the sequence numbers and the stack are what the client     *)
(* meant, for every width of the integers, every limit and every set of    *)
(* messages.                                                               *)
(***************************************************************************)
EXTENDS Protocol, TLAPS

ProtocolInductive == ProtocolTypeOK /\ AmountMeant

\* What the conversions may be given and what the session holds.
Signed == -Half..(Half - 1)

LEMMA Widths == Half \in Nat /\ Span = 2 * Half /\ MaxAmount \in 1..Half
BY WidthAssumption DEF Span

-----------------------------------------------------------------------------
(* The conversions                                                          *)

LEMMA NumberKinds ==
  ASSUME NEW j \in Numbers
  PROVE  /\ j.kind = "int" => j.n \in -Half..(Span - 1)
         /\ j.kind = "dec" => j.n \in Int
BY Widths DEF Numbers, Whole, Decimal, Null, Wrong

LEMMA WrapIsSigned == \A n \in -Half..(Span - 1) : Wrap(n) \in Signed
BY Widths DEF Wrap, Signed

LEMMA SequenceIsSigned == \A j \in Numbers : ReadSequence(j) \subseteq Signed
<1> SUFFICES ASSUME NEW j \in Numbers, NEW x \in ReadSequence(j) PROVE x \in Signed
  OBVIOUS
<1>1. CASE j.kind = "int"
  BY <1>1, NumberKinds, WrapIsSigned DEF ReadSequence
<1>2. CASE j.kind = "dec"
  BY <1>2, NumberKinds, Widths, WidthAssumption DEF ReadSequence, Unrepresentable, Signed
<1>3. CASE j.kind \notin {"int", "dec"}
  BY <1>3 DEF ReadSequence
<1> QED BY <1>1, <1>2, <1>3

\* A converted amount that is in bounds is the amount that was written: what
\* wrapped or did not fit lands outside the bounds (from_json, InBounds).
LEMMA BoundedIsMeant ==
  ASSUME NEW j \in Numbers, NEW a \in ReadAmount(j), InBounds(a)
  PROVE  a \in 1..MaxAmount /\ IsMeantBy(a, j)
<1>1. CASE j.kind = "int"
  <2>1. a = Wrap(j.n) /\ j.n \in -Half..(Span - 1)
    BY <1>1, NumberKinds DEF ReadAmount
  <2>2. a \in Int
    BY <2>1, WrapIsSigned DEF Signed
  <2>3. a = j.n
    BY <2>1, <2>2, Widths DEF Wrap, InBounds
  <2> QED BY <1>1, <2>2, <2>3, Widths DEF InBounds, IsMeantBy
<1>2. CASE j.kind = "dec"
  <2>1. j.n \in Int
    BY <1>2, NumberKinds
  <2>2. PICK c \in Cents(j.n) : a \in FromCents(c)
    BY <1>2 DEF ReadAmount
  <2>3. c \in Int /\ 10 * c - j.n \in -5..5
    BY <2>1, <2>2 DEF Cents
  <2>4. a = c \/ a \in Unrepresentable
    BY <2>2 DEF FromCents
  <2>5. a \in Int
    BY <2>3, <2>4, Widths DEF Unrepresentable
  <2>6. a = c
    BY <2>4, <2>5, Widths, WidthAssumption DEF Unrepresentable, InBounds
  <2> QED BY <1>2, <2>3, <2>5, <2>6, Widths DEF InBounds, IsMeantBy
<1>3. CASE j.kind \notin {"int", "dec"}
  BY <1>3 DEF ReadAmount
<1> QED BY <1>1, <1>2, <1>3

\* A sequence number that is let in is at most MaxGap ahead, in true integers.
LEMMA InSequenceIsAhead ==
  ASSUME last_seq \in -1..(Half - 1), NEW seq \in Signed, seq >= 0, InSequence(seq)
  PROVE  seq - last_seq \in 1..MaxGap
<1> USE DEF Signed
<1>1. SequenceGap(seq) = seq - last_seq
  BY Widths DEF InSequence, SequenceGap, Difference, Unsigned
<1> QED BY <1>1, WidthAssumption DEF InSequence

\* Two amounts within the limit add up without overflow.
LEMMA SumFits ==
  ASSUME NEW s \in 0..MaxAmount, NEW a \in 1..MaxAmount
  PROVE  /\ Lower(Wrap(s + a), MaxAmount) \in 0..MaxAmount
         /\ Lower(Wrap(s + a), MaxAmount) = s + a
            \/ (Lower(Wrap(s + a), MaxAmount) = MaxAmount /\ s + a > MaxAmount)
BY WidthAssumption DEF Wrap, Lower

-----------------------------------------------------------------------------
(* What each message does                                                   *)

LEMMA MessageFields ==
  ASSUME NEW m \in Messages
  PROVE  /\ m.type = "ACTION" => m.seq \in Numbers /\ m.amount \in Numbers
         /\ m.type = "RELOAD_REQUEST" => m.amount \in Numbers
BY MessagesAssumption DEF Handshakes, Actions, Reloads, Disconnects, Others

\* An action that is acted on is in sequence and has no amount or the one meant.
LEMMA ActionMeant ==
  ASSUME ProtocolTypeOK, NEW m \in Messages, ReceiveAction(m)
  PROVE  \/ /\ phase' = "closed" /\ amount' = NoAmount
            /\ verdict' \in {"MALFORMED_MESSAGE", "PROTOCOL_ERROR"}
            /\ UNCHANGED <<last_seq, stack>>
         \/ /\ verdict' = "ACTION"
            /\ amount' = NoAmount
               \/ (amount' \in 1..MaxAmount /\ IsMeantBy(amount', m.amount))
            /\ last_seq' \in 0..(Half - 1) /\ last_seq' - last_seq \in 1..MaxGap
            /\ UNCHANGED <<phase, stack>>
<1>1. m.seq \in Numbers /\ m.amount \in Numbers
  BY MessageFields DEF ReceiveAction
<1>2. CASE Refuse("MALFORMED_MESSAGE")
  BY <1>2 DEF Refuse
<1>3. CASE ~Refuse("MALFORMED_MESSAGE")
  <2>1. PICK p \in ParseAction(m) : ValidAction(m, p[1], p[2]) /\ HandleAction(m, p[1], p[2])
    BY <1>3 DEF ReceiveAction
  <2>2. p[1] \in ReadSequence(m.seq) /\ p[2] \in ReadOptional(m.amount)
    BY <2>1 DEF ParseAction
  <2>3. CASE Refuse("PROTOCOL_ERROR")
    BY <2>3 DEF Refuse
  <2>4. CASE ~Refuse("PROTOCOL_ERROR")
    <3>1. /\ InSequence(p[1])
          /\ verdict' = "ACTION" /\ amount' = p[2] /\ last_seq' = p[1]
          /\ UNCHANGED <<phase, stack>>
      BY <2>1, <2>4 DEF HandleAction
    <3>2. p[1] \in Signed /\ p[1] >= 0
      BY <1>1, <2>1, <2>2, SequenceIsSigned DEF ValidAction
    <3>3. p[1] - last_seq \in 1..MaxGap
      BY <3>1, <3>2, InSequenceIsAhead DEF ProtocolTypeOK
    <3>4. p[2] = NoAmount \/ (p[2] \in 1..MaxAmount /\ IsMeantBy(p[2], m.amount))
      BY <1>1, <2>1, <2>2, BoundedIsMeant DEF ReadOptional, ValidAction
    <3>5. p[1] \in 0..(Half - 1)
      BY <3>2, Widths DEF Signed
    <3> QED BY <3>1, <3>3, <3>4, <3>5
  <2> QED BY <2>3, <2>4
<1> QED BY <1>2, <1>3

\* A reload that is acted on adds the amount meant, up to the limit.
LEMMA ReloadMeant ==
  ASSUME ProtocolTypeOK, NEW m \in Messages, ReceiveReload(m)
  PROVE  \/ /\ phase' = "closed" /\ amount' = NoAmount
            /\ verdict' \in {"MALFORMED_MESSAGE", "PROTOCOL_ERROR"}
            /\ UNCHANGED <<last_seq, stack>>
         \/ /\ verdict' = "RELOAD_REQUEST"
            /\ amount' \in 1..MaxAmount /\ IsMeantBy(amount', m.amount)
            /\ stack' \in 0..MaxAmount
            /\ stack' = stack + amount' \/ (stack' = MaxAmount /\ stack + amount' > MaxAmount)
            /\ UNCHANGED <<phase, last_seq>>
<1>1. m.amount \in Numbers
  BY MessageFields DEF ReceiveReload
<1>2. CASE Refuse("MALFORMED_MESSAGE") \/ Refuse("PROTOCOL_ERROR")
  BY <1>2 DEF Refuse
<1>3. CASE ~(Refuse("MALFORMED_MESSAGE") \/ Refuse("PROTOCOL_ERROR"))
  <2>1. PICK a \in ParseReload(m) : ValidReload(m, a) /\ HandleReload(m, a)
    BY <1>3 DEF ReceiveReload
  <2>2. a \in ReadAmount(m.amount) /\ InBounds(a)
    BY <2>1 DEF ParseReload, ValidReload
  <2>3. a \in 1..MaxAmount /\ IsMeantBy(a, m.amount)
    BY <1>1, <2>2, BoundedIsMeant
  <2>4. /\ verdict' = "RELOAD_REQUEST" /\ amount' = a
        /\ stack' = Lower(Wrap(stack + a), MaxAmount)
        /\ UNCHANGED <<phase, last_seq>>
    BY <1>3, <2>1 DEF HandleReload
  <2>5. stack \in 0..MaxAmount
    BY DEF ProtocolTypeOK
  <2> QED BY <2>3, <2>4, <2>5, SumFits
<1> QED BY <1>2, <1>3

\* No other message touches the amount, the sequence number or the stack.
LEMMA RestMeant ==
  ASSUME NEW m \in Messages, ReceiveHandshake(m) \/ ReceiveDisconnect(m) \/ ReceiveOther(m)
  PROVE  /\ phase' \in {"authenticated", "closed"}
         /\ verdict' \in {"MALFORMED_HANDSHAKE", "INCOMPATIBLE_VERSION", "HANDSHAKE",
                          "MALFORMED_MESSAGE", "PROTOCOL_ERROR", "DISCONNECT"}
         /\ amount' = amount \/ amount' = NoAmount
         /\ UNCHANGED <<last_seq, stack>>
BY DEF ReceiveHandshake, ReceiveDisconnect, ReceiveOther, Refuse

-----------------------------------------------------------------------------
(* What is refused                                                          *)

\* A sound amount is read on whichever path it takes, and in bounds however its
\* half cents fall (from_json, InBounds).
LEMMA SoundIsRead ==
  ASSUME NEW j \in Numbers, SoundAmount(j)
  PROVE  ReadAmount(j) # {} /\ \A a \in ReadAmount(j) : InBounds(a) /\ a # NoAmount
<1>1. NoAmount \in Int /\ NoAmount < 0
  BY Widths, WidthAssumption DEF NoAmount
<1>2. CASE j.kind = "int"
  <2>1. j.n \in Int /\ InBounds(j.n) /\ j.n < Half
    BY <1>2, NumberKinds, Widths, WidthAssumption DEF SoundAmount, IsValidAmount, InBounds
  <2>2. ReadAmount(j) = {j.n}
    BY <1>2, <2>1, Widths DEF ReadAmount, Wrap
  <2> QED BY <1>1, <2>1, <2>2, Widths DEF InBounds
<1>3. CASE j.kind = "dec"
  <2>1. j.n \in Int /\ j.n > 5 /\ j.n < 10 * MaxAmount + 5
    BY <1>3, NumberKinds DEF SoundAmount
  <2>2. \A c \in Cents(j.n) : c \in Int /\ 10 * c - j.n \in -5..5
    BY <2>1 DEF Cents
  <2>3. \A c \in Cents(j.n) : c \in 1..MaxAmount
    BY <2>1, <2>2, Widths
  <2>4. \A c \in Cents(j.n) : FromCents(c) = {c}
    BY <2>3, Widths, WidthAssumption DEF FromCents
  <2>5. ReadAmount(j) = Cents(j.n)
    <3>1. ReadAmount(j) = UNION {FromCents(c) : c \in Cents(j.n)}
      BY <1>3 DEF ReadAmount
    <3>2. \A x : x \in ReadAmount(j) <=> \E c \in Cents(j.n) : x \in FromCents(c)
      BY <3>1, Zenon
    <3> QED BY <2>4, <3>2
  <2>6. Cents(j.n) # {}
    <3> DEFINE c == j.n \div 10
    <3>1. c \in Int /\ 10 * c <= j.n /\ j.n < 10 * c + 10
      BY <2>1
    <3>2. Cents(j.n) = {x \in {c, c + 1} : 10 * x - j.n \in -5..5}
      BY DEF Cents
    <3> HIDE DEF c
    <3>3. 10 * c - j.n \in -5..5 \/ 10 * (c + 1) - j.n \in -5..5
      BY <2>1, <3>1
    <3>4. c \in Cents(j.n) \/ c + 1 \in Cents(j.n)
      BY <3>2, <3>3
    <3> QED BY <3>4
  <2> QED BY <1>1, <2>3, <2>5, <2>6, Widths DEF InBounds
<1> QED BY <1>2, <1>3 DEF SoundAmount

\* A sound action is parsed, and whatever the conversions made of it is valid.
LEMMA SoundAction ==
  ASSUME NEW m \in Messages, m.type = "ACTION", SoundMessage(m)
  PROVE  ParseAction(m) # {} /\ \A p \in ParseAction(m) : ValidAction(m, p[1], p[2])
<1>1. m.seq \in Numbers /\ m.amount \in Numbers
  BY MessageFields
<1>2. /\ Enveloped(m) /\ m.sid # "ill_formed"
      /\ m.seq.kind = "int" /\ m.seq.n \in 0..(Half - 1)
  BY DEF SoundMessage, Enveloped
<1>3. ReadSequence(m.seq) = {m.seq.n}
  BY <1>2, Widths DEF ReadSequence, Wrap
<1>4. CASE m.action \in AmountForbidden /\ m.amount = Null
  <2>1. ParseAction(m) = {<<m.seq.n, NoAmount>>}
    BY <1>2, <1>3, <1>4 DEF ParseAction, ReadOptional, Null
  <2>2. m.action \in ActionTypes /\ m.action \notin AmountRequired
    BY <1>4 DEF ActionTypes, AmountForbidden, AmountRequired
  <2> QED BY <1>2, <1>4, <2>1, <2>2, Widths DEF ValidAction
<1>5. CASE m.action \in AmountRequired /\ SoundAmount(m.amount)
  <2>1. ParseAction(m) = {m.seq.n} \X ReadAmount(m.amount)
    BY <1>2, <1>3, <1>5 DEF ParseAction, ReadOptional, SoundAmount
  <2>2. m.action \in ActionTypes /\ m.action \notin AmountForbidden
    BY <1>5 DEF ActionTypes, AmountForbidden, AmountRequired
  <2>3. /\ ReadAmount(m.amount) # {}
        /\ \A a \in ReadAmount(m.amount) : InBounds(a) /\ a # NoAmount
    BY <1>1, <1>5, SoundIsRead
  <2>4. ASSUME NEW p \in ParseAction(m) PROVE ValidAction(m, p[1], p[2])
    <3>1. p[1] = m.seq.n /\ p[2] \in ReadAmount(m.amount)
      BY <2>1
    <3> QED BY <1>2, <1>5, <2>2, <2>3, <3>1, Widths DEF ValidAction
  <2>5. PICK a \in ReadAmount(m.amount) : TRUE
    BY <2>3
  <2>6. <<m.seq.n, a>> \in ParseAction(m)
    BY <2>1, <2>5
  <2> QED BY <2>4, <2>6
<1> QED BY <1>4, <1>5 DEF SoundMessage

\* So is a sound reload.
LEMMA SoundReload ==
  ASSUME NEW m \in Messages, m.type = "RELOAD_REQUEST", SoundMessage(m)
  PROVE  ParseReload(m) # {} /\ \A a \in ParseReload(m) : ValidReload(m, a)
<1>1. m.amount \in Numbers
  BY MessageFields
<1>2. Enveloped(m) /\ m.sid # "ill_formed" /\ SoundAmount(m.amount)
  BY DEF SoundMessage, Enveloped
<1> QED BY <1>1, <1>2, SoundIsRead DEF ParseReload, ValidReload

\* Whatever the message is, the verdict on it is just.
LEMMA VerdictIsJust ==
  ASSUME NEW m \in Messages, Receive(m)
  PROVE  RefusedIsUnsound'
<1> USE DEF RefusedIsUnsound, SameMajor
<1>1. msg' = m
  BY DEF Receive
<1>2. CASE ReceiveHandshake(m)
  BY <1>1, <1>2 DEF ReceiveHandshake, ValidHandshake, Refuse
<1>3. CASE ReceiveAction(m)
  <2>1. m.type = "ACTION"
    BY <1>3 DEF ReceiveAction
  <2>2. CASE SoundMessage(m) \/ ~Refuse("MALFORMED_MESSAGE")
    <3>1. PICK p \in ParseAction(m) : ValidAction(m, p[1], p[2]) /\ HandleAction(m, p[1], p[2])
      BY <1>3, <2>1, <2>2, SoundAction DEF ReceiveAction
    <3>2. m.version = Ours
      BY <3>1 DEF ParseAction, Enveloped
    <3>3. p[2] = NoAmount <=> m.action \in AmountForbidden
      BY <3>1 DEF ValidAction, ActionTypes
    <3>4. \/ verdict' = "PROTOCOL_ERROR"
          \/ verdict' = "ACTION" /\ amount' = p[2]
      BY <3>1 DEF HandleAction, Refuse
    <3> QED BY <1>1, <3>2, <3>3, <3>4
  <2>3. CASE ~SoundMessage(m) /\ Refuse("MALFORMED_MESSAGE")
    BY <1>1, <2>3 DEF Refuse
  <2> QED BY <2>2, <2>3
<1>4. CASE ReceiveReload(m)
  <2>1. m.type = "RELOAD_REQUEST"
    BY <1>4 DEF ReceiveReload
  <2>2. CASE SoundMessage(m) \/ ~Refuse("MALFORMED_MESSAGE")
    <3>1. PICK a \in ParseReload(m) : HandleReload(m, a)
      BY <1>4, <2>1, <2>2, SoundReload DEF ReceiveReload
    <3>2. m.version = Ours
      BY <3>1 DEF ParseReload, Enveloped
    <3> QED BY <1>1, <3>1, <3>2 DEF HandleReload, Refuse
  <2>3. CASE ~SoundMessage(m) /\ Refuse("MALFORMED_MESSAGE")
    BY <1>1, <2>3 DEF Refuse
  <2> QED BY <2>2, <2>3
<1>5. CASE ReceiveDisconnect(m)
  BY <1>1, <1>5 DEF ReceiveDisconnect, ValidDisconnect, Enveloped, SoundMessage, Refuse
<1>6. CASE ReceiveOther(m)
  BY <1>1, <1>6 DEF ReceiveOther, SoundMessage, Refuse
<1> QED BY <1>2, <1>3, <1>4, <1>5, <1>6 DEF Receive

-----------------------------------------------------------------------------
LEMMA ProtocolInitInductive == ProtocolInit => ProtocolInductive
<1> SUFFICES ASSUME ProtocolInit PROVE ProtocolInductive
  OBVIOUS
<1>1. ProtocolTypeOK
  BY Widths, WidthAssumption DEF ProtocolInit, ProtocolTypeOK, Verdicts
<1>2. AmountMeant
  BY DEF ProtocolInit, AmountMeant
<1> QED BY <1>1, <1>2 DEF ProtocolInductive

LEMMA ProtocolStepInductive ==
  ASSUME ProtocolInductive, [ProtocolNext]_protocolVars
  PROVE  ProtocolInductive'
<1> USE DEF ProtocolInductive
<1>1. CASE UNCHANGED protocolVars
  BY <1>1 DEF protocolVars, ProtocolTypeOK, AmountMeant, IsMeantBy, IsValidAmount
<1>2. ASSUME NEW m \in Messages, Receive(m)
      PROVE  ProtocolInductive'
  <2>1. msg' = m
    BY <1>2 DEF Receive
  <2>2. CASE ReceiveAction(m)
    <3>1. ProtocolTypeOK'
      BY <2>1, <2>2, ActionMeant, Widths, WidthAssumption DEF ProtocolTypeOK, Verdicts
    <3>2. AmountMeant'
      BY <2>1, <2>2, ActionMeant, WidthAssumption DEF AmountMeant, IsValidAmount
    <3> QED BY <3>1, <3>2
  <2>3. CASE ReceiveReload(m)
    <3>1. ProtocolTypeOK'
      BY <2>1, <2>3, ReloadMeant, WidthAssumption DEF ProtocolTypeOK, Verdicts
    <3>2. AmountMeant'
      BY <2>1, <2>3, ReloadMeant, WidthAssumption DEF AmountMeant, IsValidAmount
    <3> QED BY <3>1, <3>2
  <2>4. CASE ReceiveHandshake(m) \/ ReceiveDisconnect(m) \/ ReceiveOther(m)
    <3>1. ProtocolTypeOK'
      BY <2>1, <2>4, RestMeant DEF ProtocolTypeOK, Verdicts
    <3>2. AmountMeant'
      BY <2>4, RestMeant DEF AmountMeant
    <3> QED BY <3>1, <3>2
  <2> QED BY <1>2, <2>2, <2>3, <2>4 DEF Receive
<1> QED BY <1>1, <1>2 DEF ProtocolNext

LEMMA ProtocolInvariant == ProtocolSpec => []ProtocolInductive
<1>1. ProtocolInit => ProtocolInductive
  BY ProtocolInitInductive
<1>2. ProtocolInductive /\ [ProtocolNext]_protocolVars => ProtocolInductive'
  BY ProtocolStepInductive
<1> QED BY <1>1, <1>2, PTL DEF ProtocolSpec

-----------------------------------------------------------------------------
\* Every variable keeps its type and the stack stays within the amount limit
\* (handle_reload_msg).
THEOREM ProtocolTypeCorrect == ProtocolSpec => []ProtocolTypeOK
<1>1. ProtocolInductive => ProtocolTypeOK
  BY DEF ProtocolInductive
<1> QED BY <1>1, ProtocolInvariant, PTL

\* The server never acts on an amount the client did not send: no wrap, rounding
\* or undefined cast passes the bounds (from_json, validate_action).
THEOREM AmountMeantAlways == ProtocolSpec => []AmountMeant
<1>1. ProtocolInductive => AmountMeant
  BY DEF ProtocolInductive
<1> QED BY <1>1, ProtocolInvariant, PTL

\* The unsigned comparison of sequence numbers means what integers would
\* (handle_action).
THEOREM SequenceMeantAlways == ProtocolSpec => SequenceMeant
<1>1. ASSUME ProtocolInductive, [ProtocolNext]_protocolVars
      PROVE  [last_seq' # last_seq => last_seq' - last_seq \in 1..MaxGap]_protocolVars
  <2>1. CASE UNCHANGED protocolVars
    BY <2>1 DEF protocolVars
  <2>2. ASSUME NEW m \in Messages, Receive(m)
        PROVE  last_seq' # last_seq => last_seq' - last_seq \in 1..MaxGap
    BY <1>1, <2>2, ActionMeant, ReloadMeant, RestMeant DEF ProtocolInductive, Receive
  <2> QED BY <1>1, <2>1, <2>2 DEF ProtocolNext
<1> QED BY <1>1, ProtocolInvariant, PTL DEF ProtocolSpec, SequenceMeant

\* A reload moves the stack up by what was asked for, or to the limit
\* (handle_reload_msg).
THEOREM StackMeantAlways == ProtocolSpec => StackMeant
<1> DEFINE Up == stack' # stack =>
       /\ verdict' = "RELOAD_REQUEST" /\ stack' > stack
       /\ stack' - stack <= amount' /\ stack' <= MaxAmount
       /\ stack' - stack < amount' => stack' = MaxAmount
<1>1. ASSUME ProtocolInductive, [ProtocolNext]_protocolVars
      PROVE  [Up]_protocolVars
  <2>1. CASE UNCHANGED protocolVars
    BY <2>1 DEF protocolVars
  <2>2. ASSUME NEW m \in Messages, Receive(m)
        PROVE  Up
    <3>1. CASE ReceiveReload(m)
      BY <1>1, <3>1, ReloadMeant, WidthAssumption DEF ProtocolInductive, ProtocolTypeOK
    <3>2. CASE UNCHANGED stack
      BY <3>2
    <3> QED BY <1>1, <2>2, <3>1, <3>2, ActionMeant, RestMeant
            DEF ProtocolInductive, Receive
  <2> QED BY <1>1, <2>1, <2>2 DEF ProtocolNext
<1> QED BY <1>1, ProtocolInvariant, PTL DEF ProtocolSpec, StackMeant

\* What a client of our version sends is never refused as malformed, however its
\* numbers are converted, and what is accepted keeps to the amount policy and is
\* of one version with our major number (parse_*_from_envelope, validate_action,
\* validate_reload, validate_disconnect, parse_handshake).
THEOREM RefusedIsUnsoundAlways == ProtocolSpec => []RefusedIsUnsound
<1>1. ProtocolInit => RefusedIsUnsound
  BY DEF ProtocolInit, RefusedIsUnsound
<1>2. RefusedIsUnsound /\ [ProtocolNext]_protocolVars => RefusedIsUnsound'
  <2>1. CASE UNCHANGED protocolVars
    BY <2>1 DEF protocolVars, RefusedIsUnsound
  <2>2. CASE ProtocolNext
    BY <2>2, VerdictIsJust DEF ProtocolNext
  <2> QED BY <2>1, <2>2
<1> QED BY <1>1, <1>2, PTL DEF ProtocolSpec
=============================================================================
