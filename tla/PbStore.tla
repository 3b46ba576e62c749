------------------------------- MODULE PbStore ------------------------------
(***************************************************************************)
(* The messages of proto/store/store_types.pb.go: the state of the block   *)
(* store.  For each message the fields its generated functions write (from *)
(* the last byte to the first), count and read; see PbFields.              *)
(***************************************************************************)
EXTENDS PbFields

BlockStoreState_Marshal == <<Unknown, Varint("Height", 16), Varint("Base", 8)>>
BlockStoreState_Size == <<Varint("Base", 1), Varint("Height", 1), Unknown>>
BlockStoreState_Unmarshal == <<Int64("Base", 1), Int64("Height", 2), Unknown>>

Schema ==
    [BlockStoreState |-> [marshal |-> BlockStoreState_Marshal, size |-> BlockStoreState_Size,
        unmarshal |-> BlockStoreState_Unmarshal, wrapper |-> FALSE]]
=============================================================================
