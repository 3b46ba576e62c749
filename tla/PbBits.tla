------------------------------- MODULE PbBits -------------------------------
(***************************************************************************)
(* The messages of proto/libs/bits/bits_types.pb.go: the bit array.  For   *)
(* each message the fields its generated functions write (from the last    *)
(* byte to the first), count and read; see PbFields.                       *)
(***************************************************************************)
EXTENDS PbFields

BitArray_Marshal == <<Unknown, Packed("Elems", 18), Varint("Bits", 8)>>
BitArray_Size == <<Varint("Bits", 1), Packed("Elems", 1), Unknown>>
BitArray_Unmarshal == <<Int64("Bits", 1), Packed("Elems", 2), Unknown>>

Schema ==
    [BitArray |-> [marshal |-> BitArray_Marshal, size |-> BitArray_Size,
        unmarshal |-> BitArray_Unmarshal, wrapper |-> FALSE]]
=============================================================================
