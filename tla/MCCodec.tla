------------------------------- MODULE MCCodec ------------------------------
(***************************************************************************)
(* Every message type of the Pb modules with a handful of messages each:   *)
(* the zero message, each field alone with each of two values, and two     *)
(* messages with every field set.                                          *)
(***************************************************************************)
EXTENDS Codec, FiniteSets

CONSTANT Packs   \* the packages whose messages are sent

MCOf(p) == {<<p, m>> : m \in {n \in DOMAIN Packages[p] : ~Packages[p][n].wrapper}}
MCMessageTypes == UNION {MCOf(p) : p \in Packs}

(* The value number v (1 or 2) of field r. *)
RECURSIVE Full(_, _)
Value(r, v) ==
    CASE r.kind \in {"int64", "int32"} -> <<300, -1>>[v]
      [] r.kind = "uint32" -> <<1, 128>>[v]
      [] r.kind = "bool" -> TRUE
      [] r.kind = "fixed64" -> <<2, -3>>[v]
      [] r.kind = "double" -> [Zeros EXCEPT ![1] = v, ![8] = 64]
      [] r.kind \in {"bytes", "ptrbytes"} -> << <<0>>, <<10, 200>> >>[v]
      [] r.kind = "byteslices" -> << << <<>> >>, << <<7>>, <<>> >> >>[v]
      [] r.kind = "packed" -> << <<0>>, <<1, -1>> >>[v]
      [] r.kind = "map" -> <<{<<<<1>>, Zeros>>},
                             {<<<<1>>, Zeros>>, <<<<>>, [Zeros EXCEPT ![3] = 9]>>}>>[v]
      [] r.kind \in {"time", "duration"} -> [zero |-> FALSE, sec |-> v - 1, nanos |-> 500 * (2 - v)]
      [] r.kind = "embedded" -> Full(r.type, v)
      [] r.kind = "pointer" -> IF v = 1 THEN Zero(Packages, r.type) ELSE Full(r.type, v)
      [] r.kind = "messages" -> IF v = 1 THEN <<Zero(Packages, r.type)>>
                                ELSE <<Full(r.type, 1), Zero(Packages, r.type)>>
      [] r.kind = "oneofbytes" -> Holding(Packages, r.as, <<v>>)
      [] r.kind = "oneofmessage" ->
            Holding(Packages, r.as, IF v = 1 THEN Zero(Packages, r.type) ELSE Full(r.type, 1))
      [] r.kind = "unknown" -> <<>>
Full(T, v) ==
    FoldLeft(LAMBDA m, r : [m EXCEPT ![r.f] = Value(r, v)],
             Zero(Packages, T), Table(Packages, T).unmarshal)

MCSamples(T) ==
    LET u == Table(Packages, T).unmarshal IN
    {Zero(Packages, T), Full(T, 1), Full(T, 2)}
    \cup {[Zero(Packages, T) EXCEPT ![u[k].f] = Value(u[k], v)] : k \in DOMAIN u, v \in {1, 2}}

(* Field 1000: a varint, a fixed64, bytes, a group with a field, a fixed32. *)
MCExtras ==
    {<<192, 62, 129, 1>>, <<193, 62, 1, 2, 3, 4, 5, 6, 7, 8>>, <<194, 62, 2, 8, 1>>,
     <<195, 62, 8, 1, 196, 62>>, <<197, 62, 1, 2, 3, 4>>}

(* Each sample alone, and two messages of which the second has one more field. *)
MCScripts(T) ==
    {<<[m |-> m, extra |-> <<>>]>> : m \in MCSamples(T)}
    \cup {<<[m |-> Full(T, 2), extra |-> <<>>], [m |-> Full(T, 1), extra |-> e]>> :
             e \in MCExtras \cup {<<>>}}

(* Around the beginning, the middle and the end of a frame. *)
MCCuts(n) == {0, 1, 2, n \div 2, n - 2, n - 1} \cap 0..(n - 1)

MCBlockIDs ==
    {[Hash |-> h, PartSetHeader |-> [Total |-> t, Hash |-> p]] :
        h \in {<<>>, <<1>>}, t \in {0, 1}, p \in {<<>>, <<1>>}}
MCTimes == {ZeroTime, [zero |-> FALSE, sec |-> 0, nanos |-> 0],
            [zero |-> FALSE, sec |-> 1, nanos |-> 2]}
MCContents ==
    [kind : {"vote"}, chain : {<<1>>, <<1, 2>>},
     of : [Type : {1, 2}, Height : {1}, Round : {0, 1}, BlockID : MCBlockIDs, Timestamp : MCTimes]]
    \cup [kind : {"preprepare"}, chain : {<<1>>},
          of : [Height : {1, 2}, Round : {0, 1}, PolRound : {-1, 0}, BlockID : MCBlockIDs,
                Timestamp : MCTimes]]
=============================================================================
