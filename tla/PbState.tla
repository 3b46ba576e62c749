------------------------------- MODULE PbState ------------------------------
(***************************************************************************)
(* The messages of proto/state/state_types.pb.go: what the state store     *)
(* keeps.  For each message the fields its generated functions write (from *)
(* the last byte to the first), count and read; see PbFields.              *)
(***************************************************************************)
EXTENDS PbFields

ABCIResponses_Marshal ==
    <<Unknown, Pointer("BeginBlock", 26, abci("ResponseBeginBlock")),
      Pointer("EndBlock", 18, abci("ResponseEndBlock")),
      Messages("DeliverTxs", 10, abci("ResponseDeliverTx"))>>
ABCIResponses_Size ==
    <<Messages("DeliverTxs", 1, abci("ResponseDeliverTx")),
      Pointer("EndBlock", 1, abci("ResponseEndBlock")),
      Pointer("BeginBlock", 1, abci("ResponseBeginBlock")), Unknown>>
ABCIResponses_Unmarshal ==
    <<Messages("DeliverTxs", 1, abci("ResponseDeliverTx")),
      Pointer("EndBlock", 2, abci("ResponseEndBlock")),
      Pointer("BeginBlock", 3, abci("ResponseBeginBlock")), Unknown>>

ValidatorsInfo_Marshal ==
    <<Unknown, Varint("LastHeightChanged", 16),
      Pointer("ValidatorSet", 10, types("ValidatorSet"))>>
ValidatorsInfo_Size ==
    <<Pointer("ValidatorSet", 1, types("ValidatorSet")), Varint("LastHeightChanged", 1),
      Unknown>>
ValidatorsInfo_Unmarshal ==
    <<Pointer("ValidatorSet", 1, types("ValidatorSet")), Int64("LastHeightChanged", 2),
      Unknown>>

ConsensusParamsInfo_Marshal ==
    <<Unknown, Embedded("ConsensusParams", 10, types("ConsensusParams"))>>
ConsensusParamsInfo_Size ==
    <<Embedded("ConsensusParams", 1, types("ConsensusParams")), Unknown>>
ConsensusParamsInfo_Unmarshal ==
    <<Embedded("ConsensusParams", 1, types("ConsensusParams")), Unknown>>

State_Marshal ==
    <<Unknown, Varint("InitialHeight", 112), Bytes("AppHash", 106),
      Bytes("LastResultsHash", 98),
      Embedded("ConsensusParams", 82, types("ConsensusParams")),
      Varint("LastHeightValidatorsChanged", 72),
      Pointer("LastValidators", 66, types("ValidatorSet")),
      Pointer("Validators", 58, types("ValidatorSet")),
      Pointer("NextValidators", 50, types("ValidatorSet")),
      StdTime("LastBlockTime", 42), Embedded("LastBlockID", 34, types("BlockID")),
      Varint("LastBlockHeight", 24), Bytes("ChainID", 18)>>
State_Size ==
    <<Bytes("ChainID", 1), Varint("LastBlockHeight", 1),
      Embedded("LastBlockID", 1, types("BlockID")), StdTime("LastBlockTime", 1),
      Pointer("NextValidators", 1, types("ValidatorSet")),
      Pointer("Validators", 1, types("ValidatorSet")),
      Pointer("LastValidators", 1, types("ValidatorSet")),
      Varint("LastHeightValidatorsChanged", 1),
      Embedded("ConsensusParams", 1, types("ConsensusParams")),
      Bytes("LastResultsHash", 1), Bytes("AppHash", 1), Varint("InitialHeight", 1),
      Unknown>>
State_Unmarshal ==
    <<Bytes("ChainID", 2), Int64("LastBlockHeight", 3),
      Embedded("LastBlockID", 4, types("BlockID")), StdTime("LastBlockTime", 5),
      Pointer("NextValidators", 6, types("ValidatorSet")),
      Pointer("Validators", 7, types("ValidatorSet")),
      Pointer("LastValidators", 8, types("ValidatorSet")),
      Int64("LastHeightValidatorsChanged", 9),
      Embedded("ConsensusParams", 10, types("ConsensusParams")),
      Bytes("LastResultsHash", 12), Bytes("AppHash", 13), Int64("InitialHeight", 14),
      Unknown>>

Schema ==
    [ABCIResponses |-> [marshal |-> ABCIResponses_Marshal, size |-> ABCIResponses_Size,
        unmarshal |-> ABCIResponses_Unmarshal, wrapper |-> FALSE],
     ValidatorsInfo |-> [marshal |-> ValidatorsInfo_Marshal, size |-> ValidatorsInfo_Size,
        unmarshal |-> ValidatorsInfo_Unmarshal, wrapper |-> FALSE],
     ConsensusParamsInfo |-> [marshal |-> ConsensusParamsInfo_Marshal, size |-> ConsensusParamsInfo_Size,
        unmarshal |-> ConsensusParamsInfo_Unmarshal, wrapper |-> FALSE],
     State |-> [marshal |-> State_Marshal, size |-> State_Size,
        unmarshal |-> State_Unmarshal, wrapper |-> FALSE]]
=============================================================================
