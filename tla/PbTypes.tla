------------------------------- MODULE PbTypes ------------------------------
(***************************************************************************)
(* The messages of proto/types/block.pb.go, proto/types/canonical.pb.go,   *)
(* proto/types/events.pb.go, proto/types/params.pb.go,                     *)
(* proto/types/types_types.pb.go, proto/types/validator.pb.go: the blocks, *)
(* votes, validators and parameters of package types.  For each message the*)
(* fields its generated functions write (from the last byte to the first), *)
(* count and read; see PbFields.                                           *)
(***************************************************************************)
EXTENDS PbFields

Block_Marshal ==
    <<Unknown, Pointer("LastReply", 26, types("Reply")),
      Embedded("Data", 18, types("Data")), Embedded("Header", 10, types("Header"))>>
Block_Size ==
    <<Embedded("Header", 1, types("Header")), Embedded("Data", 1, types("Data")),
      Pointer("LastReply", 1, types("Reply")), Unknown>>
Block_Unmarshal ==
    <<Embedded("Header", 1, types("Header")), Embedded("Data", 2, types("Data")),
      Pointer("LastReply", 3, types("Reply")), Unknown>>

CanonicalBlockID_Marshal ==
    <<Unknown, Embedded("PartSetHeader", 18, types("CanonicalPartSetHeader")),
      Bytes("Hash", 10)>>
CanonicalBlockID_Size ==
    <<Bytes("Hash", 1), Embedded("PartSetHeader", 1, types("CanonicalPartSetHeader")),
      Unknown>>
CanonicalBlockID_Unmarshal ==
    <<Bytes("Hash", 1), Embedded("PartSetHeader", 2, types("CanonicalPartSetHeader")),
      Unknown>>

CanonicalPartSetHeader_Marshal == <<Unknown, Bytes("Hash", 18), Varint("Total", 8)>>
CanonicalPartSetHeader_Size == <<Varint("Total", 1), Bytes("Hash", 1), Unknown>>
CanonicalPartSetHeader_Unmarshal == <<Uint32("Total", 1), Bytes("Hash", 2), Unknown>>

CanonicalPrePrepare_Marshal ==
    <<Unknown, Bytes("ChainID", 58), StdTime("Timestamp", 50),
      Pointer("BlockID", 42, types("CanonicalBlockID")), Varint("POLRound", 32),
      Fixed64("Round", 25), Fixed64("Height", 17), Varint("Type", 8)>>
CanonicalPrePrepare_Size ==
    <<Varint("Type", 1), Fixed64("Height", 9), Fixed64("Round", 9),
      Varint("POLRound", 1), Pointer("BlockID", 1, types("CanonicalBlockID")),
      StdTime("Timestamp", 1), Bytes("ChainID", 1), Unknown>>
CanonicalPrePrepare_Unmarshal ==
    <<Int32("Type", 1), Fixed64("Height", 2), Fixed64("Round", 3), Int64("POLRound", 4),
      Pointer("BlockID", 5, types("CanonicalBlockID")), StdTime("Timestamp", 6),
      Bytes("ChainID", 7), Unknown>>

CanonicalVote_Marshal ==
    <<Unknown, Bytes("ChainID", 50), StdTime("Timestamp", 42),
      Pointer("BlockID", 34, types("CanonicalBlockID")), Fixed64("Round", 25),
      Fixed64("Height", 17), Varint("Type", 8)>>
CanonicalVote_Size ==
    <<Varint("Type", 1), Fixed64("Height", 9), Fixed64("Round", 9),
      Pointer("BlockID", 1, types("CanonicalBlockID")), StdTime("Timestamp", 1),
      Bytes("ChainID", 1), Unknown>>
CanonicalVote_Unmarshal ==
    <<Int32("Type", 1), Fixed64("Height", 2), Fixed64("Round", 3),
      Pointer("BlockID", 4, types("CanonicalBlockID")), StdTime("Timestamp", 5),
      Bytes("ChainID", 6), Unknown>>

EventDataRoundState_Marshal ==
    <<Unknown, Bytes("Step", 26), Varint("Round", 16), Varint("Height", 8)>>
EventDataRoundState_Size ==
    <<Varint("Height", 1), Varint("Round", 1), Bytes("Step", 1), Unknown>>
EventDataRoundState_Unmarshal ==
    <<Int64("Height", 1), Int32("Round", 2), Bytes("Step", 3), Unknown>>

ConsensusParams_Marshal ==
    <<Unknown, Embedded("Validator", 18, types("ValidatorParams")),
      Embedded("Block", 10, types("BlockParams"))>>
ConsensusParams_Size ==
    <<Embedded("Block", 1, types("BlockParams")),
      Embedded("Validator", 1, types("ValidatorParams")), Unknown>>
ConsensusParams_Unmarshal ==
    <<Embedded("Block", 1, types("BlockParams")),
      Embedded("Validator", 2, types("ValidatorParams")), Unknown>>

BlockParams_Marshal == <<Unknown, Varint("TimeIotaMs", 16), Varint("MaxBytes", 8)>>
BlockParams_Size == <<Varint("MaxBytes", 1), Varint("TimeIotaMs", 1), Unknown>>
BlockParams_Unmarshal == <<Int64("MaxBytes", 1), Int64("TimeIotaMs", 2), Unknown>>

ValidatorParams_Marshal == <<Unknown, ByteSlices("PubKeyTypes", 10)>>
ValidatorParams_Size == <<ByteSlices("PubKeyTypes", 1), Unknown>>
ValidatorParams_Unmarshal == <<ByteSlices("PubKeyTypes", 1), Unknown>>

HashedParams_Marshal == <<Unknown, Varint("BlockMaxBytes", 8)>>
HashedParams_Size == <<Varint("BlockMaxBytes", 1), Unknown>>
HashedParams_Unmarshal == <<Int64("BlockMaxBytes", 1), Unknown>>

PartSetHeader_Marshal == <<Unknown, Bytes("Hash", 18), Varint("Total", 8)>>
PartSetHeader_Size == <<Varint("Total", 1), Bytes("Hash", 1), Unknown>>
PartSetHeader_Unmarshal == <<Uint32("Total", 1), Bytes("Hash", 2), Unknown>>

Part_Marshal ==
    <<Unknown, Embedded("Proof", 26, crypto("Proof")), Bytes("Bytes", 18),
      Varint("Index", 8)>>
Part_Size ==
    <<Varint("Index", 1), Bytes("Bytes", 1), Embedded("Proof", 1, crypto("Proof")),
      Unknown>>
Part_Unmarshal ==
    <<Uint32("Index", 1), Bytes("Bytes", 2), Embedded("Proof", 3, crypto("Proof")),
      Unknown>>

BlockID_Marshal ==
    <<Unknown, Embedded("PartSetHeader", 18, types("PartSetHeader")),
      Bytes("Hash", 10)>>
BlockID_Size ==
    <<Bytes("Hash", 1), Embedded("PartSetHeader", 1, types("PartSetHeader")), Unknown>>
BlockID_Unmarshal ==
    <<Bytes("Hash", 1), Embedded("PartSetHeader", 2, types("PartSetHeader")), Unknown>>

Header_Marshal ==
    <<Unknown, Bytes("ProposerAddress", 98), Bytes("LastResultsHash", 90),
      Bytes("AppHash", 82), Bytes("ConsensusHash", 74), Bytes("DataHash", 58),
      Bytes("LastCommitHash", 50), Embedded("LastBlockId", 42, types("BlockID")),
      StdTime("Time", 34), Varint("Height", 24), Bytes("ChainID", 18)>>
Header_Size ==
    <<Bytes("ChainID", 1), Varint("Height", 1), StdTime("Time", 1),
      Embedded("LastBlockId", 1, types("BlockID")), Bytes("LastCommitHash", 1),
      Bytes("DataHash", 1), Bytes("ConsensusHash", 1), Bytes("AppHash", 1),
      Bytes("LastResultsHash", 1), Bytes("ProposerAddress", 1), Unknown>>
Header_Unmarshal ==
    <<Bytes("ChainID", 2), Int64("Height", 3), StdTime("Time", 4),
      Embedded("LastBlockId", 5, types("BlockID")), Bytes("LastCommitHash", 6),
      Bytes("DataHash", 7), Bytes("ConsensusHash", 9), Bytes("AppHash", 10),
      Bytes("LastResultsHash", 11), Bytes("ProposerAddress", 12), Unknown>>

Data_Marshal == <<Unknown, ByteSlices("Txs", 10)>>
Data_Size == <<ByteSlices("Txs", 1), Unknown>>
Data_Unmarshal == <<ByteSlices("Txs", 1), Unknown>>

Vote_Marshal ==
    <<Unknown, Bytes("Signature", 66), Varint("ValidatorIndex", 56),
      Bytes("ValidatorAddress", 50), StdTime("Timestamp", 42),
      Embedded("BlockID", 34, types("BlockID")), Varint("Round", 24),
      Varint("Height", 16), Varint("Type", 8)>>
Vote_Size ==
    <<Varint("Type", 1), Varint("Height", 1), Varint("Round", 1),
      Embedded("BlockID", 1, types("BlockID")), StdTime("Timestamp", 1),
      Bytes("ValidatorAddress", 1), Varint("ValidatorIndex", 1), Bytes("Signature", 1),
      Unknown>>
Vote_Unmarshal ==
    <<Int32("Type", 1), Int64("Height", 2), Int32("Round", 3),
      Embedded("BlockID", 4, types("BlockID")), StdTime("Timestamp", 5),
      Bytes("ValidatorAddress", 6), Int32("ValidatorIndex", 7), Bytes("Signature", 8),
      Unknown>>

Reply_Marshal ==
    <<Unknown, Messages("Signatures", 34, types("ReplySig")),
      Embedded("BlockID", 26, types("BlockID")), Varint("Round", 16),
      Varint("Height", 8)>>
Reply_Size ==
    <<Varint("Height", 1), Varint("Round", 1), Embedded("BlockID", 1, types("BlockID")),
      Messages("Signatures", 1, types("ReplySig")), Unknown>>
Reply_Unmarshal ==
    <<Int64("Height", 1), Int32("Round", 2), Embedded("BlockID", 3, types("BlockID")),
      Messages("Signatures", 4, types("ReplySig")), Unknown>>

ReplySig_Marshal ==
    <<Unknown, Bytes("Signature", 34), StdTime("Timestamp", 26),
      Bytes("ValidatorAddress", 18), Varint("BlockIdFlag", 8)>>
ReplySig_Size ==
    <<Varint("BlockIdFlag", 1), Bytes("ValidatorAddress", 1), StdTime("Timestamp", 1),
      Bytes("Signature", 1), Unknown>>
ReplySig_Unmarshal ==
    <<Int32("BlockIdFlag", 1), Bytes("ValidatorAddress", 2), StdTime("Timestamp", 3),
      Bytes("Signature", 4), Unknown>>

PrePrepare_Marshal ==
    <<Unknown, Bytes("Signature", 58), StdTime("Timestamp", 50),
      Embedded("BlockID", 42, types("BlockID")), Varint("PolRound", 32),
      Varint("Round", 24), Varint("Height", 16), Varint("Type", 8)>>
PrePrepare_Size ==
    <<Varint("Type", 1), Varint("Height", 1), Varint("Round", 1), Varint("PolRound", 1),
      Embedded("BlockID", 1, types("BlockID")), StdTime("Timestamp", 1),
      Bytes("Signature", 1), Unknown>>
PrePrepare_Unmarshal ==
    <<Int32("Type", 1), Int64("Height", 2), Int32("Round", 3), Int32("PolRound", 4),
      Embedded("BlockID", 5, types("BlockID")), StdTime("Timestamp", 6),
      Bytes("Signature", 7), Unknown>>

SignedHeader_Marshal ==
    <<Unknown, Pointer("Reply", 18, types("Reply")),
      Pointer("Header", 10, types("Header"))>>
SignedHeader_Size ==
    <<Pointer("Header", 1, types("Header")), Pointer("Reply", 1, types("Reply")),
      Unknown>>
SignedHeader_Unmarshal ==
    <<Pointer("Header", 1, types("Header")), Pointer("Reply", 2, types("Reply")),
      Unknown>>

LightBlock_Marshal ==
    <<Unknown, Pointer("ValidatorSet", 18, types("ValidatorSet")),
      Pointer("SignedHeader", 10, types("SignedHeader"))>>
LightBlock_Size ==
    <<Pointer("SignedHeader", 1, types("SignedHeader")),
      Pointer("ValidatorSet", 1, types("ValidatorSet")), Unknown>>
LightBlock_Unmarshal ==
    <<Pointer("SignedHeader", 1, types("SignedHeader")),
      Pointer("ValidatorSet", 2, types("ValidatorSet")), Unknown>>

BlockMeta_Marshal ==
    <<Unknown, Varint("NumTxs", 32), Embedded("Header", 26, types("Header")),
      Varint("BlockSize", 16), Embedded("BlockID", 10, types("BlockID"))>>
BlockMeta_Size ==
    <<Embedded("BlockID", 1, types("BlockID")), Varint("BlockSize", 1),
      Embedded("Header", 1, types("Header")), Varint("NumTxs", 1), Unknown>>
BlockMeta_Unmarshal ==
    <<Embedded("BlockID", 1, types("BlockID")), Int64("BlockSize", 2),
      Embedded("Header", 3, types("Header")), Int64("NumTxs", 4), Unknown>>

TxProof_Marshal ==
    <<Unknown, Pointer("Proof", 26, crypto("Proof")), Bytes("Data", 18),
      Bytes("RootHash", 10)>>
TxProof_Size ==
    <<Bytes("RootHash", 1), Bytes("Data", 1), Pointer("Proof", 1, crypto("Proof")),
      Unknown>>
TxProof_Unmarshal ==
    <<Bytes("RootHash", 1), Bytes("Data", 2), Pointer("Proof", 3, crypto("Proof")),
      Unknown>>

ValidatorSet_Marshal ==
    <<Unknown, Pointer("Primary", 18, types("Validator")),
      Messages("Validators", 10, types("Validator"))>>
ValidatorSet_Size ==
    <<Messages("Validators", 1, types("Validator")),
      Pointer("Primary", 1, types("Validator")), Unknown>>
ValidatorSet_Unmarshal ==
    <<Messages("Validators", 1, types("Validator")),
      Pointer("Primary", 2, types("Validator")), Unknown>>

Validator_Marshal ==
    <<Unknown, Double("Trust", 41), Varint("Type", 32), Double("VotingPower", 25),
      Embedded("PubKey", 18, crypto("PublicKey")), Bytes("Address", 10)>>
Validator_Size ==
    <<Bytes("Address", 1), Embedded("PubKey", 1, crypto("PublicKey")),
      Double("VotingPower", 9), Varint("Type", 1), Double("Trust", 9), Unknown>>
Validator_Unmarshal ==
    <<Bytes("Address", 1), Embedded("PubKey", 2, crypto("PublicKey")),
      Double("VotingPower", 3), Int32("Type", 4), Double("Trust", 5), Unknown>>

SimpleValidator_Marshal == <<Unknown, Pointer("PubKey", 10, crypto("PublicKey"))>>
SimpleValidator_Size == <<Pointer("PubKey", 1, crypto("PublicKey")), Unknown>>
SimpleValidator_Unmarshal == <<Pointer("PubKey", 1, crypto("PublicKey")), Unknown>>

Schema ==
    [Block |-> [marshal |-> Block_Marshal, size |-> Block_Size,
        unmarshal |-> Block_Unmarshal, wrapper |-> FALSE],
     CanonicalBlockID |-> [marshal |-> CanonicalBlockID_Marshal, size |-> CanonicalBlockID_Size,
        unmarshal |-> CanonicalBlockID_Unmarshal, wrapper |-> FALSE],
     CanonicalPartSetHeader |-> [marshal |-> CanonicalPartSetHeader_Marshal, size |-> CanonicalPartSetHeader_Size,
        unmarshal |-> CanonicalPartSetHeader_Unmarshal, wrapper |-> FALSE],
     CanonicalPrePrepare |-> [marshal |-> CanonicalPrePrepare_Marshal, size |-> CanonicalPrePrepare_Size,
        unmarshal |-> CanonicalPrePrepare_Unmarshal, wrapper |-> FALSE],
     CanonicalVote |-> [marshal |-> CanonicalVote_Marshal, size |-> CanonicalVote_Size,
        unmarshal |-> CanonicalVote_Unmarshal, wrapper |-> FALSE],
     EventDataRoundState |-> [marshal |-> EventDataRoundState_Marshal, size |-> EventDataRoundState_Size,
        unmarshal |-> EventDataRoundState_Unmarshal, wrapper |-> FALSE],
     ConsensusParams |-> [marshal |-> ConsensusParams_Marshal, size |-> ConsensusParams_Size,
        unmarshal |-> ConsensusParams_Unmarshal, wrapper |-> FALSE],
     BlockParams |-> [marshal |-> BlockParams_Marshal, size |-> BlockParams_Size,
        unmarshal |-> BlockParams_Unmarshal, wrapper |-> FALSE],
     ValidatorParams |-> [marshal |-> ValidatorParams_Marshal, size |-> ValidatorParams_Size,
        unmarshal |-> ValidatorParams_Unmarshal, wrapper |-> FALSE],
     HashedParams |-> [marshal |-> HashedParams_Marshal, size |-> HashedParams_Size,
        unmarshal |-> HashedParams_Unmarshal, wrapper |-> FALSE],
     PartSetHeader |-> [marshal |-> PartSetHeader_Marshal, size |-> PartSetHeader_Size,
        unmarshal |-> PartSetHeader_Unmarshal, wrapper |-> FALSE],
     Part |-> [marshal |-> Part_Marshal, size |-> Part_Size,
        unmarshal |-> Part_Unmarshal, wrapper |-> FALSE],
     BlockID |-> [marshal |-> BlockID_Marshal, size |-> BlockID_Size,
        unmarshal |-> BlockID_Unmarshal, wrapper |-> FALSE],
     Header |-> [marshal |-> Header_Marshal, size |-> Header_Size,
        unmarshal |-> Header_Unmarshal, wrapper |-> FALSE],
     Data |-> [marshal |-> Data_Marshal, size |-> Data_Size,
        unmarshal |-> Data_Unmarshal, wrapper |-> FALSE],
     Vote |-> [marshal |-> Vote_Marshal, size |-> Vote_Size,
        unmarshal |-> Vote_Unmarshal, wrapper |-> FALSE],
     Reply |-> [marshal |-> Reply_Marshal, size |-> Reply_Size,
        unmarshal |-> Reply_Unmarshal, wrapper |-> FALSE],
     ReplySig |-> [marshal |-> ReplySig_Marshal, size |-> ReplySig_Size,
        unmarshal |-> ReplySig_Unmarshal, wrapper |-> FALSE],
     PrePrepare |-> [marshal |-> PrePrepare_Marshal, size |-> PrePrepare_Size,
        unmarshal |-> PrePrepare_Unmarshal, wrapper |-> FALSE],
     SignedHeader |-> [marshal |-> SignedHeader_Marshal, size |-> SignedHeader_Size,
        unmarshal |-> SignedHeader_Unmarshal, wrapper |-> FALSE],
     LightBlock |-> [marshal |-> LightBlock_Marshal, size |-> LightBlock_Size,
        unmarshal |-> LightBlock_Unmarshal, wrapper |-> FALSE],
     BlockMeta |-> [marshal |-> BlockMeta_Marshal, size |-> BlockMeta_Size,
        unmarshal |-> BlockMeta_Unmarshal, wrapper |-> FALSE],
     TxProof |-> [marshal |-> TxProof_Marshal, size |-> TxProof_Size,
        unmarshal |-> TxProof_Unmarshal, wrapper |-> FALSE],
     ValidatorSet |-> [marshal |-> ValidatorSet_Marshal, size |-> ValidatorSet_Size,
        unmarshal |-> ValidatorSet_Unmarshal, wrapper |-> FALSE],
     Validator |-> [marshal |-> Validator_Marshal, size |-> Validator_Size,
        unmarshal |-> Validator_Unmarshal, wrapper |-> FALSE],
     SimpleValidator |-> [marshal |-> SimpleValidator_Marshal, size |-> SimpleValidator_Size,
        unmarshal |-> SimpleValidator_Unmarshal, wrapper |-> FALSE]]
=============================================================================
