-------------------------------- MODULE Wire --------------------------------
(***************************************************************************)
(* The wire format of des-tonic (wire.rs): unary requests and responses    *)
(* and stream frames as bytes, with lengths before what they measure.      *)
(*                                                                         *)
(* A message is encoded and arrives whole, or cut off after any byte.      *)
(***************************************************************************)
EXTENDS Integers, Sequences

CONSTANTS Texts,      \* the strings in messages, as sequences of bytes
          Payloads,   \* the payloads in messages
          Metadata,   \* the lists of keys and values in messages
          MaxSeq,     \* bound: sequence numbers
          Codes       \* the status codes in messages

Limit == 256 * 256 * 256     \* bound: numbers on the wire

WireAssumption ==
    /\ Texts \subseteq Seq(0 .. 127) /\ \A t \in Texts : Len(t) < Limit
    /\ Payloads \subseteq Seq(0 .. 255) /\ \A p \in Payloads : Len(p) < Limit
    /\ Metadata \subseteq Seq(Texts \X Texts) /\ \A md \in Metadata : Len(md) < Limit
    /\ MaxSeq \in 0 .. Limit - 1 /\ Codes \subseteq 0 .. 16

VARIABLES message,    \* [form, fields]
          arrived     \* how many of its bytes

wire_vars == <<message, arrived>>

\* put_u32_le and put_u64_le, for numbers below the limit.
LittleEndian(v, width) ==
    LET low == <<v % 256, (v \div 256) % 256, (v \div (256 * 256)) % 256>>
    IN  [i \in 1 .. width |-> IF i > 3 THEN 0 ELSE low[i]]
PutU32(v) == LittleEndian(v, 4)
PutU64(v) == LittleEndian(v, 8)

PutBytes(b) == PutU32(Len(b)) \o b
PutString(s) == PutBytes(s)
PutKv(entries) ==
    LET put[i \in 0 .. Len(entries)] ==
            IF i = 0 THEN PutU32(Len(entries))
            ELSE put[i - 1] \o (PutString(entries[i][1]) \o PutString(entries[i][2]))
    IN  put[Len(entries)]

\* What a get_ function leaves: a value and the rest of the buffer, or an error.
Got(v, rest) == [ok |-> TRUE, val |-> v, rest |-> rest]
Bad == [ok |-> FALSE]

GetNumber(b, width) ==
    IF Len(b) < width THEN Bad
    ELSE Got(b[1] + 256 * b[2] + 256 * 256 * b[3], SubSeq(b, width + 1, Len(b)))
GetU32(b) == GetNumber(b, 4)
GetU64(b) == GetNumber(b, 8)
GetU8(b) == IF Len(b) < 1 THEN Bad ELSE Got(b[1], Tail(b))

\* Mutant: a value at the very end of the buffer does not fit.
GetBytesBeforeEnd(b) ==
    LET n == GetU32(b)
    IN  IF ~n.ok THEN Bad
        ELSE IF Len(n.rest) <= n.val THEN Bad
        ELSE Got(SubSeq(n.rest, 1, n.val), SubSeq(n.rest, n.val + 1, Len(n.rest)))

GetBytes(b) ==
    LET n == GetU32(b)
    IN  IF ~n.ok THEN Bad
        ELSE IF Len(n.rest) < n.val THEN Bad
        ELSE Got(SubSeq(n.rest, 1, n.val), SubSeq(n.rest, n.val + 1, Len(n.rest)))

\* A string must be text; bytes up to 127 are.
GetString(b) ==
    LET s == GetBytes(b)
    IN  IF s.ok /\ \E i \in 1 .. Len(s.val) : s.val[i] > 127 THEN Bad ELSE s

\* A decoder reads one value after the other, and stops at the first error.
Begin(b) == [ok |-> TRUE, vals |-> <<>>, rest |-> b]
Then(r, g) ==
    IF ~r.ok THEN r
    ELSE IF ~g.ok THEN Bad
    ELSE [ok |-> TRUE, vals |-> Append(r.vals, g.val), rest |-> g.rest]

ThenString(r) == Then(r, GetString(r.rest))
ThenBytes(r) == Then(r, GetBytes(r.rest))

\* n pairs of strings.
Pairs(vals) == [i \in 1 .. Len(vals) \div 2 |-> <<vals[2 * i - 1], vals[2 * i]>>]
GetKv(b) ==
    LET n == GetU32(b)
        read[i \in 0 .. n.val] ==
            IF i = 0 THEN Begin(n.rest) ELSE ThenString(ThenString(read[i - 1]))
        all == read[n.val]
    IN  IF ~n.ok THEN Bad
        ELSE IF ~all.ok THEN Bad ELSE Got(Pairs(all.vals), all.rest)
ThenKv(r) == Then(r, GetKv(r.rest))

\* Code::from_i32: a number that is no code is Unknown.
GetCode(b) ==
    LET n == GetU32(b)
    IN  IF n.ok /\ n.val > 16 THEN Got(2, n.rest) ELSE n
GetFlag(b) == LET n == GetU8(b) IN IF n.ok /\ n.val # 0 THEN Got(1, n.rest) ELSE n

\* A status: whether it is Ok, its code and its message.
ThenFlag(r) == Then(r, GetFlag(r.rest))
ThenCode(r) == Then(r, GetCode(r.rest))
ThenStatus(r) == ThenString(ThenCode(ThenFlag(r)))

\* Bytes of the enumerations: 0 to 3 for Open, Data, Close and Cancel.
GetKind(b) == LET n == GetU8(b) IN IF n.ok /\ n.val > 3 THEN Bad ELSE n
GetDirection(b) == LET n == GetU8(b) IN IF n.ok /\ n.val > 1 THEN Bad ELSE n

-----------------------------------------------------------------------------
EncodeUnaryRequest(f) == PutString(f[1]) \o PutKv(f[2]) \o PutBytes(f[3])
DecodeUnaryRequest(b) == ThenBytes(ThenKv(ThenString(Begin(b))))

EncodeUnaryResponse(f) ==
    <<f[1]>> \o PutU32(f[2]) \o PutString(f[3]) \o PutKv(f[4]) \o PutBytes(f[5])
DecodeUnaryResponse(b) == ThenBytes(ThenKv(ThenStatus(Begin(b))))

\* A frame: stream id, direction, number, kind, method, metadata, payload, and
\* the status of Close and Cancel.  Only Open has a method, of length 1 here and
\* absent when it is <<>>.
OpenKind == 0
HasStatus(kind) == kind \in {2, 3}

EncodeStreamFrame(f) ==
    PutString(f[1]) \o <<f[2]>> \o PutU64(f[3]) \o <<f[4]>>
    \o (IF f[4] = OpenKind /\ f[5] # <<>> THEN <<1>> \o PutString(f[5][1]) ELSE <<0>>)
    \o PutKv(f[6]) \o PutBytes(f[7])
    \o (IF HasStatus(f[4]) THEN <<f[8]>> \o PutU32(f[9]) \o PutString(f[10]) ELSE <<>>)

\* The method of a frame, present or not.
GetMethod(b) ==
    LET n == GetU8(b)
        s == GetString(n.rest)
    IN  CASE ~n.ok -> Bad
        [] n.ok /\ n.val = 0 -> Got(<<>>, n.rest)
        [] n.ok /\ n.val = 1 -> IF s.ok THEN Got(<<s.val>>, s.rest) ELSE Bad
        [] OTHER -> Bad

ThenDirection(r) == Then(r, GetDirection(r.rest))
ThenNumber(r) == Then(r, GetU64(r.rest))
ThenKind(r) == Then(r, GetKind(r.rest))
ThenMethod(r) == Then(r, GetMethod(r.rest))

DecodeStreamFrame(b) ==
    LET head == ThenMethod(ThenKind(ThenNumber(ThenDirection(ThenString(Begin(b))))))
        body == ThenBytes(ThenKv(head))
    IN  IF ~head.ok \/ (head.vals[4] = OpenKind <=> head.vals[5] = <<>>) THEN Bad
        ELSE IF HasStatus(head.vals[4]) THEN ThenStatus(body)
        ELSE IF ~body.ok THEN Bad
        ELSE [ok |-> TRUE, vals |-> body.vals \o <<1, 0, <<>> >>, rest |-> body.rest]

-----------------------------------------------------------------------------
Flags == {0, 1}

Requests == [form : {"request"}, fields : Texts \X Metadata \X Payloads]
Responses ==
    [form : {"response"}, fields : Flags \X Codes \X Texts \X Metadata \X Payloads]

\* The frames that the endpoints build: with a method if they open a stream,
\* with a status if they end one, and with a payload if they are data.
Frames ==
    {[form |-> "frame", fields |-> <<id, d, n, k, m, md, p, ok, c, s>>] :
        id \in Texts, d \in Flags, n \in {0, MaxSeq}, k \in 0 .. 3,
        m \in {<<>>} \cup {<<t>> : t \in Texts}, md \in Metadata, p \in Payloads,
        ok \in Flags, c \in Codes \cup {0}, s \in Texts \cup {<<>>}}
Sensible(f) ==
    /\ f[4] # OpenKind => f[5] = <<>>
    /\ ~HasStatus(f[4]) => f[8] = 1 /\ f[9] = 0 /\ f[10] = <<>>

Encode(x) ==
    CASE x.form = "request" -> EncodeUnaryRequest(x.fields)
    [] x.form = "response" -> EncodeUnaryResponse(x.fields)
    [] x.form = "frame" -> EncodeStreamFrame(x.fields)

Decode(form, b) ==
    CASE form = "request" -> DecodeUnaryRequest(b)
    [] form = "response" -> DecodeUnaryResponse(b)
    [] form = "frame" -> DecodeStreamFrame(b)

WireInit ==
    /\ message \in Requests \cup Responses \cup {x \in Frames : Sensible(x.fields)}
    /\ arrived = Len(Encode(message))

\* The bytes are cut off.
Truncate ==
    /\ arrived > 0
    /\ arrived' = arrived - 1
    /\ UNCHANGED message

\* wire.rs: a message that arrives whole is decoded to itself, unless it opens a
\* stream without a method, and one that is cut off is refused.
WireExact ==
    LET r == Decode(message.form, SubSeq(Encode(message), 1, arrived))
        whole == arrived = Len(Encode(message))
        opens_nothing == message.form = "frame" /\ message.fields[4] = OpenKind
                         /\ message.fields[5] = <<>>
    IN  /\ r.ok <=> whole /\ ~opens_nothing
        /\ r.ok => r.vals = message.fields /\ r.rest = <<>>
=============================================================================
