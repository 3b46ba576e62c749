-------------------------------- MODULE Wire --------------------------------
(***************************************************************************)
(* The code that protoc generates for proto/*.pb.go, as three functions    *)
(* that interpret the tables of the Pb modules (S, by package and message  *)
(* type): Marshal, Size and Unmarshal.  Bytes are numbers below 256.  An   *)
(* integer field holds a 64-bit or 32-bit integer; the models use small    *)
(* ones, of either sign.  A double is its eight bytes.  A map is the set of*)
(* its entries, written in some order.  A field that holds one of several  *)
(* messages is [as, v], with the wrapper type; nil is Nil.                 *)
(***************************************************************************)
EXTENDS PbFields, Integers, SequencesExt

CONSTANT Nil

Table(S, T) == S[T[1]][T[2]]

(********************************* integers ********************************)
RECURSIVE Groups(_)
Groups(v) == IF v < 128 THEN <<v>> ELSE <<v % 128>> \o Groups(v \div 128)

(* uint64(v) in groups of seven bits, low first; ten of them if v < 0. *)
Word(v) ==
    IF v >= 0 THEN Groups(v)
    ELSE LET g == Groups(-(v + 1)) IN
         [k \in 1..10 |-> IF k = 10 THEN 1 ELSE IF k <= Len(g) THEN 127 - g[k] ELSE 127]

encodeVarint(v) ==
    LET g == Word(v) IN [k \in 1..Len(g) |-> IF k < Len(g) THEN g[k] + 128 ELSE g[k]]

RECURSIVE Len64(_)
Len64(x) == IF x = 0 THEN 0 ELSE 1 + Len64(x \div 2)

sov(x) == IF x < 0 THEN 10 ELSE (Len64(IF x = 0 THEN 1 ELSE x) + 6) \div 7

RECURSIVE Horner(_)
Horner(g) == IF g = <<>> THEN 0 ELSE Head(g) + 128 * Horner(Tail(g))

(* The groups shifted into an int64: the tenth counts with one bit. *)
AsInt64(g) ==
    IF Len(g) = 10 /\ g[10] % 2 = 1
    THEN -Horner([k \in 1..9 |-> 127 - g[k]]) - 1 ELSE Horner(g)

(* The same shifted into an int32, where higher bits are lost; 2^31 is taken
   off in halves. *)
AsInt32(g) ==
    IF Len(g) < 5 THEN Horner(g)
    ELSE Horner(SubSeq(g, 1, 4)) + (g[5] % 8) * 2^28
         + (IF (g[5] \div 8) % 2 = 1 THEN -2^30 ELSE 0)
         + (IF (g[5] \div 8) % 2 = 1 THEN -2^30 ELSE 0)

(* LittleEndian.PutUint64 and Uint64 of small integers. *)
PutUint64(v) ==
    LET w == IF v >= 0 THEN v ELSE -(v + 1)
        b == [k \in 1..8 |-> IF k <= 3 THEN (w \div 256^(k - 1)) % 256 ELSE 0]
    IN  [k \in 1..8 |-> IF v >= 0 THEN b[k] ELSE 255 - b[k]]
Uint64(b) ==
    IF b[8] = 255 THEN -((255 - b[1]) + 256 * (255 - b[2]) + 65536 * (255 - b[3])) - 1
    ELSE b[1] + 256 * b[2] + 65536 * b[3]

Zeros == [k \in 1..8 |-> 0]
MinusZero == [Zeros EXCEPT ![8] = 128]

(* Times and durations, as gogo/protobuf's types package writes them: seconds
   and nanoseconds; zero stands for time.Time{}, in the year 1. *)
ZeroTime == [zero |-> TRUE, sec |-> 0, nanos |-> 0]
YearOne == <<8, 128, 146, 184, 195, 152, 254, 255, 255, 255, 1>>
StdTimeMarshal(t) ==
    IF t.zero THEN YearOne
    ELSE (IF t.sec = 0 THEN <<>> ELSE <<8>> \o encodeVarint(t.sec))
         \o (IF t.nanos = 0 THEN <<>> ELSE <<16>> \o encodeVarint(t.nanos))

(********************************* writing *********************************)
Delimited(tag, b) == encodeVarint(tag) \o encodeVarint(Len(b)) \o b

(* A buffer of n bytes filled from its end; Panic if it is too short. *)
Panic == <<-1>>
Fit(n, b) == IF Len(b) > n THEN Panic ELSE [k \in 1..(n - Len(b)) |-> 0] \o b

RECURSIVE MarshalToSizedBuffer(_, _, _)
RECURSIVE Size(_, _, _)

RECURSIVE Sum(_)
Sum(s) == IF s = <<>> THEN 0 ELSE Head(s) + Sum(Tail(s))
Entry(kv) == <<10>> \o encodeVarint(Len(kv[1])) \o kv[1] \o <<17>> \o kv[2]

(* What MarshalToSizedBuffer writes for one field of m. *)
Written(S, r, m) ==
    LET v == m[r.f] IN
    CASE r.kind = "varint" -> IF v = 0 THEN <<>> ELSE encodeVarint(r.n) \o encodeVarint(v)
      [] r.kind = "bool" -> IF v THEN encodeVarint(r.n) \o <<1>> ELSE <<>>
      [] r.kind = "fixed64" -> IF v = 0 THEN <<>> ELSE encodeVarint(r.n) \o PutUint64(v)
      [] r.kind = "double" -> IF v \in {Zeros, MinusZero} THEN <<>> ELSE encodeVarint(r.n) \o v
      [] r.kind = "bytes" -> IF v = <<>> THEN <<>> ELSE Delimited(r.n, v)
      [] r.kind = "ptrbytes" -> IF v = Nil THEN <<>> ELSE Delimited(r.n, v)
      [] r.kind = "byteslices" -> FlattenSeq([k \in DOMAIN v |-> Delimited(r.n, v[k])])
      [] r.kind = "packed" -> IF v = <<>> THEN <<>>
                              ELSE Delimited(r.n, FlattenSeq([k \in DOMAIN v |-> encodeVarint(v[k])]))
      [] r.kind = "map" ->
            LET o == SetToSeq(v) IN FlattenSeq([k \in DOMAIN o |-> Delimited(r.n, Entry(o[k]))])
      [] r.kind = "embedded" -> Delimited(r.n, MarshalToSizedBuffer(S, r.type, v))
      [] r.kind = "pointer" -> IF v = Nil THEN <<>>
                               ELSE Delimited(r.n, MarshalToSizedBuffer(S, r.type, v))
      [] r.kind = "messages" ->
            FlattenSeq([k \in DOMAIN v |-> Delimited(r.n, MarshalToSizedBuffer(S, r.type, v[k]))])
      [] r.kind \in {"time", "duration"} -> Delimited(r.n, StdTimeMarshal(v))
      [] r.kind = "oneof" -> IF v = Nil THEN <<>>
                             ELSE Fit(Size(S, v.as, v.v), MarshalToSizedBuffer(S, v.as, v.v))
      [] r.kind = "unknown" -> v

(* MarshalToSizedBuffer: each field in front of those written before it. *)
MarshalToSizedBuffer(S, T, m) ==
    LET rows == Table(S, T).marshal IN
    FlattenSeq(Reverse([k \in DOMAIN rows |-> Written(S, rows[k], m)]))

Counted(S, r, m) ==
    LET v == m[r.f]
        l(k) == k + sov(k) + r.n IN
    CASE r.kind = "varint" -> IF v = 0 THEN 0 ELSE r.n + sov(v)
      [] r.kind = "bool" -> IF v THEN r.n ELSE 0
      [] r.kind = "fixed64" -> IF v = 0 THEN 0 ELSE r.n
      [] r.kind = "double" -> IF v \in {Zeros, MinusZero} THEN 0 ELSE r.n
      [] r.kind = "bytes" -> IF v = <<>> THEN 0 ELSE l(Len(v))
      [] r.kind = "ptrbytes" -> IF v = Nil THEN 0 ELSE l(Len(v))
      [] r.kind = "byteslices" -> Sum([k \in DOMAIN v |-> l(Len(v[k]))])
      [] r.kind = "packed" -> IF v = <<>> THEN 0 ELSE l(Sum([k \in DOMAIN v |-> sov(v[k])]))
      [] r.kind = "map" ->
            LET o == SetToSeq(v)
                entry(k) == 1 + Len(o[k][1]) + sov(Len(o[k][1])) + 1 + 8
            IN  Sum([k \in DOMAIN o |-> l(entry(k))])
      [] r.kind = "embedded" -> l(Size(S, r.type, v))
      [] r.kind = "pointer" -> IF v = Nil THEN 0 ELSE l(Size(S, r.type, v))
      [] r.kind = "messages" -> Sum([k \in DOMAIN v |-> l(Size(S, r.type, v[k]))])
      [] r.kind \in {"time", "duration"} -> l(Len(StdTimeMarshal(v)))
      [] r.kind = "oneof" -> IF v = Nil THEN 0 ELSE Size(S, v.as, v.v)
      [] r.kind = "unknown" -> Len(v)

Size(S, T, m) ==
    LET rows == Table(S, T).size IN Sum([k \in DOMAIN rows |-> Counted(S, rows[k], m)])

(* Marshal: a buffer of Size bytes, filled from its end, of which as many
   bytes as were written are returned, from the front. *)
Marshal(S, T, m) ==
    LET b == MarshalToSizedBuffer(S, T, m)
        d == Fit(Size(S, T, m), b)
    IN  IF d = Panic THEN Panic ELSE SubSeq(d, 1, Len(b))
(********************************* reading *********************************)
(* What a read returns: the value and the index after it, or an error. *)
Failed == [ok |-> FALSE]
Got(v, next) == [ok |-> TRUE, v |-> v, next |-> next]

(* A varint at index i of d, as groups: at most ten bytes. *)
RECURSIVE ReadFrom(_, _, _)
ReadFrom(d, i, g) ==
    IF Len(g) = 10 \/ i > Len(d) THEN Failed
    ELSE IF d[i] < 128 THEN Got(Append(g, d[i]), i + 1)
    ELSE ReadFrom(d, i + 1, Append(g, d[i] - 128))
ReadVarint(d, i) == ReadFrom(d, i, <<>>)

Then(x, f(_)) == IF x.ok THEN f(x) ELSE Failed

(* A length and that many bytes. *)
ReadBytes(d, i) ==
    Then(ReadVarint(d, i), LAMBDA n :
         LET l == AsInt64(n.v) IN
         IF l < 0 \/ n.next + l - 1 > Len(d) THEN Failed
         ELSE Got(SubSeq(d, n.next, n.next + l - 1), n.next + l))

(* skip: the index after the field at index i, whatever it is; a group ends
   with its own end tag. *)
Skipped(wt, d, i) ==
    CASE wt = 0 -> ReadVarint(d, i)
      [] wt = 1 -> Got(0, i + 8)
      [] wt = 2 -> Then(ReadVarint(d, i), LAMBDA n :
                        IF AsInt64(n.v) < 0 THEN Failed ELSE Got(0, n.next + AsInt64(n.v)))
      [] wt \in {3, 4} -> Got(0, i)
      [] wt = 5 -> Got(0, i + 4)
      [] OTHER -> Failed
Depth(wt, depth) == CASE wt = 3 -> depth + 1 [] wt = 4 -> depth - 1 [] OTHER -> depth

RECURSIVE skipFrom(_, _, _)
skipFrom(d, i, depth) ==
    IF i > Len(d) THEN Failed
    ELSE Then(ReadVarint(d, i), LAMBDA t :
              LET wt == t.v[1] % 8 IN
              IF Depth(wt, depth) < 0 THEN Failed
              ELSE Then(Skipped(wt, d, t.next), LAMBDA x :
                        IF Depth(wt, depth) = 0 THEN x
                        ELSE skipFrom(d, x.next, Depth(wt, depth))))
skip(d, i) == skipFrom(d, i, 0)

(* The value of a field that no case of Unmarshal has set. *)
RECURSIVE Zero(_, _)
ZeroOf(S, r) ==
    CASE r.kind \in {"int64", "int32", "uint32", "fixed64"} -> 0
      [] r.kind = "bool" -> FALSE
      [] r.kind = "double" -> Zeros
      [] r.kind = "time" -> ZeroTime
      [] r.kind = "duration" -> [ZeroTime EXCEPT !.zero = FALSE]
      [] r.kind = "embedded" -> Zero(S, r.type)
      [] r.kind = "map" -> {}
      [] r.kind \in {"pointer", "oneofmessage", "oneofbytes"} -> Nil
      [] OTHER -> <<>>
Zero(S, T) ==
    LET u == Table(S, T).unmarshal IN
    [f \in {u[k].f : k \in DOMAIN u} |-> ZeroOf(S, u[CHOOSE k \in DOMAIN u : u[k].f = f])]

StdTimeUnmarshal(b) ==
    IF b = YearOne THEN ZeroTime
    ELSE LET s == IF b # <<>> /\ b[1] = 8 THEN ReadVarint(b, 2) ELSE Got(<<0>>, 1)
             n == IF s.next <= Len(b) THEN ReadVarint(b, s.next + 1) ELSE Got(<<0>>, 1)
         IN  [zero |-> FALSE, sec |-> AsInt64(s.v), nanos |-> AsInt64(n.v)]

(* The varints of a packed field, until the index is past its end. *)
RECURSIVE ReadPacked(_, _, _, _)
ReadPacked(d, i, post, acc) ==
    IF i >= post THEN Got(acc, i)
    ELSE Then(ReadVarint(d, i), LAMBDA n :
              ReadPacked(d, n.next, post, Append(acc, AsInt64(n.v))))

(* The fields of a map entry: the last key and the last value; what is not
   there is "" or 0. *)
EntryField(d, i, post, num, next) ==
    CASE num = 1 -> ReadBytes(d, next)
      [] num = 2 -> IF next + 7 > Len(d) THEN Failed ELSE Got(SubSeq(d, next, next + 7), next + 8)
      [] OTHER -> Then(skip(d, i), LAMBDA x : IF x.next > post THEN Failed ELSE x)

RECURSIVE ReadEntry(_, _, _, _)
ReadEntry(d, i, post, kv) ==
    IF i >= post THEN Got(kv, post)
    ELSE Then(ReadVarint(d, i), LAMBDA t :
              LET num == Horner(t.v) \div 8 IN
              Then(EntryField(d, i, post, num, t.next), LAMBDA x :
                   ReadEntry(d, x.next, post,
                             IF num \in {1, 2} THEN [kv EXCEPT ![num] = x.v] ELSE kv)))

PutEntry(map, kv) == {e \in map : e[1] # kv[1]} \cup {kv}

WireTypes(kind) ==
    CASE kind \in {"int64", "int32", "uint32", "bool"} -> {0}
      [] kind \in {"fixed64", "double"} -> {1}
      [] kind = "packed" -> {0, 2}
      [] OTHER -> {2}

RECURSIVE UnmarshalFrom(_, _, _, _, _)

(* A message read into m, and one read or set as one of several. *)
Into(S, r, m, sub) == Then(UnmarshalFrom(S, r.type, m, sub.v, 1), LAMBDA x : Got(x.v, sub.next))
Holding(S, as, v) == [as |-> as, v |-> [f \in {Table(S, as).marshal[1].f} |-> v]]

(* The case of Unmarshal for field r, whose value starts at index i: the new
   value of the field.  A message that is already there is merged into. *)
AsField(r, old, g) ==
    CASE r.kind \in {"int32", "uint32"} -> AsInt32(g)
      [] r.kind = "bool" -> AsInt64(g) # 0
      [] r.kind = "packed" -> Append(old, AsInt64(g))
      [] OTHER -> AsInt64(g)
OfBytes(S, r, old, d, sub) ==
    CASE r.kind \in {"bytes", "ptrbytes"} -> sub
      [] r.kind = "byteslices" -> Got(Append(old, sub.v), sub.next)
      [] r.kind = "packed" -> ReadPacked(d, sub.next - Len(sub.v), sub.next, old)
      [] r.kind = "map" ->
            Then(ReadEntry(d, sub.next - Len(sub.v), sub.next, <<<<>>, Zeros>>),
                 LAMBDA e : Got(PutEntry(old, e.v), e.next))
      [] r.kind \in {"time", "duration"} -> Got(StdTimeUnmarshal(sub.v), sub.next)
      [] r.kind = "embedded" -> Into(S, r, old, sub)
      [] r.kind = "pointer" -> Into(S, r, IF old = Nil THEN Zero(S, r.type) ELSE old, sub)
      [] r.kind = "messages" ->
            Then(Into(S, r, Zero(S, r.type), sub), LAMBDA x : Got(Append(old, x.v), x.next))
      [] r.kind = "oneofbytes" -> Got(Holding(S, r.as, sub.v), sub.next)
      [] r.kind = "oneofmessage" ->
            Then(Into(S, r, Zero(S, r.type), sub), LAMBDA x : Got(Holding(S, r.as, x.v), x.next))
ReadField(S, r, old, d, i, wt) ==
    CASE wt \notin WireTypes(r.kind) -> Failed
      [] wt = 0 -> Then(ReadVarint(d, i), LAMBDA n : Got(AsField(r, old, n.v), n.next))
      [] wt = 1 -> IF i + 7 > Len(d) THEN Failed
                   ELSE LET b == SubSeq(d, i, i + 7) IN
                        Got(IF r.kind = "double" THEN b ELSE Uint64(b), i + 8)
      [] wt = 2 -> Then(ReadBytes(d, i), LAMBDA sub : OfBytes(S, r, old, d, sub))

(* Mutant of Unrecognized: the bytes are not kept. *)
UnrecognizedLost(S, T, m, d, i) ==
    Then(skip(d, i), LAMBDA s : IF s.next > Len(d) + 1 THEN Failed ELSE Got(m, s.next))

(* A field that is not in the table is skipped, and its bytes are kept if the
   message has a place for them. *)
Unrecognized(S, T, m, d, i) ==
    Then(skip(d, i), LAMBDA s :
         IF s.next > Len(d) + 1 THEN Failed
         ELSE Got(IF Unknown \in Range(Table(S, T).unmarshal)
                  THEN [m EXCEPT !.XXX_unrecognized = @ \o SubSeq(d, i, s.next - 1)]
                  ELSE m, s.next))

(* Unmarshal: the fields of d from index i on, into message m. *)
SetField(S, r, m, d, i, wt) ==
    Then(ReadField(S, r, m[r.f], d, i, wt), LAMBDA x : Got([m EXCEPT ![r.f] = x.v], x.next))
FieldAt(S, T, m, d, i, tag, next) ==
    LET rows == SelectSeq(Table(S, T).unmarshal, LAMBDA r : r.n = tag \div 8) IN
    IF tag % 8 = 4 \/ tag \div 8 <= 0 THEN Failed
    ELSE IF rows = <<>> THEN Unrecognized(S, T, m, d, i)
    ELSE SetField(S, rows[1], m, d, next, tag % 8)
UnmarshalFrom(S, T, m, d, i) ==
    IF i > Len(d) THEN Got(m, i)
    ELSE Then(ReadVarint(d, i), LAMBDA t :
              Then(FieldAt(S, T, m, d, i, Horner(t.v), t.next), LAMBDA x :
                   UnmarshalFrom(S, T, x.v, d, x.next)))

(* proto.Unmarshal resets the message first. *)
Unmarshal(S, T, d) == UnmarshalFrom(S, T, Zero(S, T), d, 1)

(********************************** frames *********************************)
(* WriteMsg: the length that Size says and that many bytes of the buffer. *)
WriteMsg(S, T, m) ==
    LET n == Size(S, T, m)
        b == Fit(n, MarshalToSizedBuffer(S, T, m))
    IN  IF b = Panic THEN Panic ELSE encodeVarint(n) \o b

(* Mutant of ReadMsg: io.Read in place of io.ReadFull. *)
ReadMsgShort(S, T, d, maxSize) ==
    Then(ReadVarint(d, 1), LAMBDA l :
         LET n == AsInt64(l.v)
             end == IF l.next + n - 1 > Len(d) THEN Len(d) ELSE l.next + n - 1
         IN  IF n < 0 \/ n > maxSize THEN Failed
             ELSE Then(Unmarshal(S, T, SubSeq(d, l.next, end)), LAMBDA x : Got(x.v, end + 1)))

(* ReadMsg: the next frame of the stream d; what it consumes is gone, also
   when it fails. *)
ReadMsg(S, T, d, maxSize) ==
    Then(ReadVarint(d, 1), LAMBDA l :
         LET n == AsInt64(l.v) IN
         IF n < 0 \/ n > maxSize \/ l.next + n - 1 > Len(d) THEN Failed
         ELSE Then(Unmarshal(S, T, SubSeq(d, l.next, l.next + n - 1)), LAMBDA x :
                   Got(x.v, l.next + n)))

MarshalDelimited(S, T, m) == WriteMsg(S, T, m)
UnmarshalDelimited(S, T, d) == ReadMsg(S, T, d, Len(d))
=============================================================================
