---------------------------- MODULE PbBlockchain ----------------------------
(***************************************************************************)
(* The messages of proto/blockchain/blockchain_types.pb.go: the messages of*)
(* block sync.  For each message the fields its generated functions write  *)
(* (from the last byte to the first), count and read; see PbFields.        *)
(***************************************************************************)
EXTENDS PbFields

BlockRequest_Marshal == <<Unknown, Varint("Height", 8)>>
BlockRequest_Size == <<Varint("Height", 1), Unknown>>
BlockRequest_Unmarshal == <<Int64("Height", 1), Unknown>>

NoBlockResponse_Marshal == <<Unknown, Varint("Height", 8)>>
NoBlockResponse_Size == <<Varint("Height", 1), Unknown>>
NoBlockResponse_Unmarshal == <<Int64("Height", 1), Unknown>>

BlockResponse_Marshal == <<Unknown, Pointer("Block", 10, types("Block"))>>
BlockResponse_Size == <<Pointer("Block", 1, types("Block")), Unknown>>
BlockResponse_Unmarshal == <<Pointer("Block", 1, types("Block")), Unknown>>

StatusRequest_Marshal == <<Unknown>>
StatusRequest_Size == <<Unknown>>
StatusRequest_Unmarshal == <<Unknown>>

StatusResponse_Marshal == <<Unknown, Varint("Base", 16), Varint("Height", 8)>>
StatusResponse_Size == <<Varint("Height", 1), Varint("Base", 1), Unknown>>
StatusResponse_Unmarshal == <<Int64("Height", 1), Int64("Base", 2), Unknown>>

Message_Marshal == <<Unknown, OneOf("Sum")>>
Message_Size == <<OneOf("Sum"), Unknown>>
Message_Unmarshal ==
    <<OneOfMessage("Sum", 1, blockchain("Message_BlockRequest"), blockchain("BlockRequest")),
      OneOfMessage("Sum", 2, blockchain("Message_NoBlockResponse"), blockchain("NoBlockResponse")),
      OneOfMessage("Sum", 3, blockchain("Message_BlockResponse"), blockchain("BlockResponse")),
      OneOfMessage("Sum", 4, blockchain("Message_StatusRequest"), blockchain("StatusRequest")),
      OneOfMessage("Sum", 5, blockchain("Message_StatusResponse"), blockchain("StatusResponse")),
      Unknown>>

Message_BlockRequest_Marshal == <<Pointer("BlockRequest", 10, blockchain("BlockRequest"))>>
Message_BlockRequest_Size == <<Pointer("BlockRequest", 1, blockchain("BlockRequest"))>>

Message_NoBlockResponse_Marshal ==
    <<Pointer("NoBlockResponse", 18, blockchain("NoBlockResponse"))>>
Message_NoBlockResponse_Size ==
    <<Pointer("NoBlockResponse", 1, blockchain("NoBlockResponse"))>>

Message_BlockResponse_Marshal ==
    <<Pointer("BlockResponse", 26, blockchain("BlockResponse"))>>
Message_BlockResponse_Size == <<Pointer("BlockResponse", 1, blockchain("BlockResponse"))>>

Message_StatusRequest_Marshal ==
    <<Pointer("StatusRequest", 34, blockchain("StatusRequest"))>>
Message_StatusRequest_Size == <<Pointer("StatusRequest", 1, blockchain("StatusRequest"))>>

Message_StatusResponse_Marshal ==
    <<Pointer("StatusResponse", 42, blockchain("StatusResponse"))>>
Message_StatusResponse_Size ==
    <<Pointer("StatusResponse", 1, blockchain("StatusResponse"))>>

Schema ==
    [BlockRequest |-> [marshal |-> BlockRequest_Marshal, size |-> BlockRequest_Size,
        unmarshal |-> BlockRequest_Unmarshal, wrapper |-> FALSE],
     NoBlockResponse |-> [marshal |-> NoBlockResponse_Marshal, size |-> NoBlockResponse_Size,
        unmarshal |-> NoBlockResponse_Unmarshal, wrapper |-> FALSE],
     BlockResponse |-> [marshal |-> BlockResponse_Marshal, size |-> BlockResponse_Size,
        unmarshal |-> BlockResponse_Unmarshal, wrapper |-> FALSE],
     StatusRequest |-> [marshal |-> StatusRequest_Marshal, size |-> StatusRequest_Size,
        unmarshal |-> StatusRequest_Unmarshal, wrapper |-> FALSE],
     StatusResponse |-> [marshal |-> StatusResponse_Marshal, size |-> StatusResponse_Size,
        unmarshal |-> StatusResponse_Unmarshal, wrapper |-> FALSE],
     Message |-> [marshal |-> Message_Marshal, size |-> Message_Size,
        unmarshal |-> Message_Unmarshal, wrapper |-> FALSE],
     Message_BlockRequest |-> [marshal |-> Message_BlockRequest_Marshal, size |-> Message_BlockRequest_Size,
        unmarshal |-> <<>>, wrapper |-> TRUE],
     Message_NoBlockResponse |-> [marshal |-> Message_NoBlockResponse_Marshal, size |-> Message_NoBlockResponse_Size,
        unmarshal |-> <<>>, wrapper |-> TRUE],
     Message_BlockResponse |-> [marshal |-> Message_BlockResponse_Marshal, size |-> Message_BlockResponse_Size,
        unmarshal |-> <<>>, wrapper |-> TRUE],
     Message_StatusRequest |-> [marshal |-> Message_StatusRequest_Marshal, size |-> Message_StatusRequest_Size,
        unmarshal |-> <<>>, wrapper |-> TRUE],
     Message_StatusResponse |-> [marshal |-> Message_StatusResponse_Marshal, size |-> Message_StatusResponse_Size,
        unmarshal |-> <<>>, wrapper |-> TRUE]]
=============================================================================
