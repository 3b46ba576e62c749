------------------------------ MODULE PbMempool -----------------------------
(***************************************************************************)
(* The messages of proto/mempool/mempool_types.pb.go: the message of the   *)
(* mempool reactor.  For each message the fields its generated functions   *)
(* write (from the last byte to the first), count and read; see PbFields.  *)
(***************************************************************************)
EXTENDS PbFields

Txs_Marshal == <<Unknown, ByteSlices("Txs", 10)>>
Txs_Size == <<ByteSlices("Txs", 1), Unknown>>
Txs_Unmarshal == <<ByteSlices("Txs", 1), Unknown>>

Message_Marshal == <<Unknown, OneOf("Sum")>>
Message_Size == <<OneOf("Sum"), Unknown>>
Message_Unmarshal ==
    <<OneOfMessage("Sum", 1, mempool("Message_Txs"), mempool("Txs")), Unknown>>

Message_Txs_Marshal == <<Pointer("Txs", 10, mempool("Txs"))>>
Message_Txs_Size == <<Pointer("Txs", 1, mempool("Txs"))>>

Schema ==
    [Txs |-> [marshal |-> Txs_Marshal, size |-> Txs_Size,
        unmarshal |-> Txs_Unmarshal, wrapper |-> FALSE],
     Message |-> [marshal |-> Message_Marshal, size |-> Message_Size,
        unmarshal |-> Message_Unmarshal, wrapper |-> FALSE],
     Message_Txs |-> [marshal |-> Message_Txs_Marshal, size |-> Message_Txs_Size,
        unmarshal |-> <<>>, wrapper |-> TRUE]]
=============================================================================
