------------------------------ MODULE PbFields ------------------------------
(***************************************************************************)
(* How the tables of the Pb modules are written.  Each generated message   *)
(* type has three tables, one entry per field, in the order of the code:   *)
(*   M_Marshal    what MarshalToSizedBuffer writes, from the end of the    *)
(*                buffer to its beginning, with the tag;                   *)
(*   M_Size       what Size counts, with the bytes of the tag (for fields  *)
(*                of fixed size, of tag and value);                        *)
(*   M_Unmarshal  the cases of Unmarshal, with the field's number.         *)
(* The three come from three functions: that they agree is what the Codec  *)
(* module checks.  Strings are byte sequences.                             *)
(***************************************************************************)
LOCAL Row(kind, f, n, type) == [kind |-> kind, f |-> f, n |-> n, type |-> type, as |-> <<>>]

(* Integers: written as varints unless zero; read as the field's Go type. *)
Varint(f, n) == Row("varint", f, n, <<>>)
Int64(f, n) == Row("int64", f, n, <<>>)
Int32(f, n) == Row("int32", f, n, <<>>)
Uint32(f, n) == Row("uint32", f, n, <<>>)
Bool(f, n) == Row("bool", f, n, <<>>)
(* Eight bytes: integers and doubles. *)
Fixed64(f, n) == Row("fixed64", f, n, <<>>)
Double(f, n) == Row("double", f, n, <<>>)
(* Bytes and strings, written unless empty; PtrBytes unless nil. *)
Bytes(f, n) == Row("bytes", f, n, <<>>)
PtrBytes(f, n) == Row("ptrbytes", f, n, <<>>)
ByteSlices(f, n) == Row("byteslices", f, n, <<>>)
Packed(f, n) == Row("packed", f, n, <<>>)
Map(f, n) == Row("map", f, n, <<>>)
(* Messages: always written; written unless nil; repeated. *)
Embedded(f, n, type) == Row("embedded", f, n, type)
Pointer(f, n, type) == Row("pointer", f, n, type)
Messages(f, n, type) == Row("messages", f, n, type)
StdTime(f, n) == Row("time", f, n, <<>>)
StdDuration(f, n) == Row("duration", f, n, <<>>)
(* One of several: Marshal and Size call those of the wrapper type that the
   field holds; Unmarshal has a case for each wrapper. *)
OneOf(f) == Row("oneof", f, 0, <<>>)
OneOfMessage(f, n, wrapper, type) == [Row("oneofmessage", f, n, type) EXCEPT !.as = wrapper]
OneOfBytes(f, n, wrapper) == [Row("oneofbytes", f, n, <<>>) EXCEPT !.as = wrapper]
(* The bytes of fields that were not known, kept and written again. *)
Unknown == Row("unknown", "XXX_unrecognized", 0, <<>>)

(* Message types, by package. *)
types(m) == <<"types", m>>
bits(m) == <<"bits", m>>
consensus(m) == <<"consensus", m>>
crypto(m) == <<"crypto", m>>
blockchain(m) == <<"blockchain", m>>
mempool(m) == <<"mempool", m>>
gossip(m) == <<"gossip", m>>
store(m) == <<"store", m>>
state(m) == <<"state", m>>
crtrust(m) == <<"crtrust", m>>
abci(m) == <<"abci", m>>
=============================================================================
