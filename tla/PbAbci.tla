------------------------------- MODULE PbAbci -------------------------------
(***************************************************************************)
(* The messages of proto/abci/abci_types.pb.go: the requests and responses *)
(* of the application interface.  For each message the fields its generated*)
(* functions write (from the last byte to the first), count and read; see  *)
(* PbFields.                                                               *)
(***************************************************************************)
EXTENDS PbFields

Request_Marshal == <<OneOf("Value")>>
Request_Size == <<OneOf("Value")>>
Request_Unmarshal ==
    <<OneOfMessage("Value", 1, abci("Request_Echo"), abci("RequestEcho")),
      OneOfMessage("Value", 2, abci("Request_Flush"), abci("RequestFlush")),
      OneOfMessage("Value", 3, abci("Request_Info"), abci("RequestInfo")),
      OneOfMessage("Value", 4, abci("Request_SetOption"), abci("RequestSetOption")),
      OneOfMessage("Value", 5, abci("Request_InitChain"), abci("RequestInitChain")),
      OneOfMessage("Value", 6, abci("Request_Query"), abci("RequestQuery")),
      OneOfMessage("Value", 7, abci("Request_BeginBlock"), abci("RequestBeginBlock")),
      OneOfMessage("Value", 8, abci("Request_CheckTx"), abci("RequestCheckTx")),
      OneOfMessage("Value", 9, abci("Request_DeliverTx"), abci("RequestDeliverTx")),
      OneOfMessage("Value", 10, abci("Request_EndBlock"), abci("RequestEndBlock")),
      OneOfMessage("Value", 11, abci("Request_Commit"), abci("RequestCommit"))>>

Request_Echo_Marshal == <<Pointer("Echo", 10, abci("RequestEcho"))>>
Request_Echo_Size == <<Pointer("Echo", 1, abci("RequestEcho"))>>

Request_Flush_Marshal == <<Pointer("Flush", 18, abci("RequestFlush"))>>
Request_Flush_Size == <<Pointer("Flush", 1, abci("RequestFlush"))>>

Request_Info_Marshal == <<Pointer("Info", 26, abci("RequestInfo"))>>
Request_Info_Size == <<Pointer("Info", 1, abci("RequestInfo"))>>

Request_SetOption_Marshal == <<Pointer("SetOption", 34, abci("RequestSetOption"))>>
Request_SetOption_Size == <<Pointer("SetOption", 1, abci("RequestSetOption"))>>

Request_InitChain_Marshal == <<Pointer("InitChain", 42, abci("RequestInitChain"))>>
Request_InitChain_Size == <<Pointer("InitChain", 1, abci("RequestInitChain"))>>

Request_Query_Marshal == <<Pointer("Query", 50, abci("RequestQuery"))>>
Request_Query_Size == <<Pointer("Query", 1, abci("RequestQuery"))>>

Request_BeginBlock_Marshal == <<Pointer("BeginBlock", 58, abci("RequestBeginBlock"))>>
Request_BeginBlock_Size == <<Pointer("BeginBlock", 1, abci("RequestBeginBlock"))>>

Request_CheckTx_Marshal == <<Pointer("CheckTx", 66, abci("RequestCheckTx"))>>
Request_CheckTx_Size == <<Pointer("CheckTx", 1, abci("RequestCheckTx"))>>

Request_DeliverTx_Marshal == <<Pointer("DeliverTx", 74, abci("RequestDeliverTx"))>>
Request_DeliverTx_Size == <<Pointer("DeliverTx", 1, abci("RequestDeliverTx"))>>

Request_EndBlock_Marshal == <<Pointer("EndBlock", 82, abci("RequestEndBlock"))>>
Request_EndBlock_Size == <<Pointer("EndBlock", 1, abci("RequestEndBlock"))>>

Request_Commit_Marshal == <<Pointer("Commit", 90, abci("RequestCommit"))>>
Request_Commit_Size == <<Pointer("Commit", 1, abci("RequestCommit"))>>

RequestEcho_Marshal == <<Bytes("Message", 10)>>
RequestEcho_Size == <<Bytes("Message", 1)>>
RequestEcho_Unmarshal == <<Bytes("Message", 1)>>

RequestFlush_Marshal == <<>>
RequestFlush_Size == <<>>
RequestFlush_Unmarshal == <<>>

RequestInfo_Marshal == <<>>
RequestInfo_Size == <<>>
RequestInfo_Unmarshal == <<>>

RequestSetOption_Marshal == <<Bytes("Value", 18), Bytes("Key", 10)>>
RequestSetOption_Size == <<Bytes("Key", 1), Bytes("Value", 1)>>
RequestSetOption_Unmarshal == <<Bytes("Key", 1), Bytes("Value", 2)>>

RequestInitChain_Marshal ==
    <<Varint("InitialHeight", 48), Bytes("AppStateBytes", 42),
      Messages("Validators", 34, abci("ValidatorUpdate")), Bytes("ChainId", 18),
      StdTime("Time", 10)>>
RequestInitChain_Size ==
    <<StdTime("Time", 1), Bytes("ChainId", 1),
      Messages("Validators", 1, abci("ValidatorUpdate")), Bytes("AppStateBytes", 1),
      Varint("InitialHeight", 1)>>
RequestInitChain_Unmarshal ==
    <<StdTime("Time", 1), Bytes("ChainId", 2),
      Messages("Validators", 4, abci("ValidatorUpdate")), Bytes("AppStateBytes", 5),
      Int64("InitialHeight", 6)>>

RequestQuery_Marshal == <<Bytes("Data", 10)>>
RequestQuery_Size == <<Bytes("Data", 1)>>
RequestQuery_Unmarshal == <<Bytes("Data", 1)>>

RequestBeginBlock_Marshal ==
    <<Embedded("LastCommitInfo", 26, abci("LastCommitInfo")),
      Embedded("Header", 18, types("Header")), Bytes("Hash", 10)>>
RequestBeginBlock_Size ==
    <<Bytes("Hash", 1), Embedded("Header", 1, types("Header")),
      Embedded("LastCommitInfo", 1, abci("LastCommitInfo"))>>
RequestBeginBlock_Unmarshal ==
    <<Bytes("Hash", 1), Embedded("Header", 2, types("Header")),
      Embedded("LastCommitInfo", 3, abci("LastCommitInfo"))>>

RequestCheckTx_Marshal == <<Varint("Type", 16), Bytes("Tx", 10)>>
RequestCheckTx_Size == <<Bytes("Tx", 1), Varint("Type", 1)>>
RequestCheckTx_Unmarshal == <<Bytes("Tx", 1), Int32("Type", 2)>>

RequestDeliverTx_Marshal == <<Bytes("Tx", 10)>>
RequestDeliverTx_Size == <<Bytes("Tx", 1)>>
RequestDeliverTx_Unmarshal == <<Bytes("Tx", 1)>>

RequestEndBlock_Marshal == <<Varint("Height", 8)>>
RequestEndBlock_Size == <<Varint("Height", 1)>>
RequestEndBlock_Unmarshal == <<Int64("Height", 1)>>

RequestCommit_Marshal == <<>>
RequestCommit_Size == <<>>
RequestCommit_Unmarshal == <<>>

Response_Marshal == <<OneOf("Value")>>
Response_Size == <<OneOf("Value")>>
Response_Unmarshal ==
    <<OneOfMessage("Value", 1, abci("Response_Exception"), abci("ResponseException")),
      OneOfMessage("Value", 2, abci("Response_Echo"), abci("ResponseEcho")),
      OneOfMessage("Value", 3, abci("Response_Flush"), abci("ResponseFlush")),
      OneOfMessage("Value", 4, abci("Response_Info"), abci("ResponseInfo")),
      OneOfMessage("Value", 5, abci("Response_SetOption"), abci("ResponseSetOption")),
      OneOfMessage("Value", 6, abci("Response_InitChain"), abci("ResponseInitChain")),
      OneOfMessage("Value", 7, abci("Response_Query"), abci("ResponseQuery")),
      OneOfMessage("Value", 8, abci("Response_BeginBlock"), abci("ResponseBeginBlock")),
      OneOfMessage("Value", 9, abci("Response_CheckTx"), abci("ResponseCheckTx")),
      OneOfMessage("Value", 10, abci("Response_DeliverTx"), abci("ResponseDeliverTx")),
      OneOfMessage("Value", 11, abci("Response_EndBlock"), abci("ResponseEndBlock")),
      OneOfMessage("Value", 12, abci("Response_Commit"), abci("ResponseCommit"))>>

Response_Exception_Marshal == <<Pointer("Exception", 10, abci("ResponseException"))>>
Response_Exception_Size == <<Pointer("Exception", 1, abci("ResponseException"))>>

Response_Echo_Marshal == <<Pointer("Echo", 18, abci("ResponseEcho"))>>
Response_Echo_Size == <<Pointer("Echo", 1, abci("ResponseEcho"))>>

Response_Flush_Marshal == <<Pointer("Flush", 26, abci("ResponseFlush"))>>
Response_Flush_Size == <<Pointer("Flush", 1, abci("ResponseFlush"))>>

Response_Info_Marshal == <<Pointer("Info", 34, abci("ResponseInfo"))>>
Response_Info_Size == <<Pointer("Info", 1, abci("ResponseInfo"))>>

Response_SetOption_Marshal == <<Pointer("SetOption", 42, abci("ResponseSetOption"))>>
Response_SetOption_Size == <<Pointer("SetOption", 1, abci("ResponseSetOption"))>>

Response_InitChain_Marshal == <<Pointer("InitChain", 50, abci("ResponseInitChain"))>>
Response_InitChain_Size == <<Pointer("InitChain", 1, abci("ResponseInitChain"))>>

Response_Query_Marshal == <<Pointer("Query", 58, abci("ResponseQuery"))>>
Response_Query_Size == <<Pointer("Query", 1, abci("ResponseQuery"))>>

Response_BeginBlock_Marshal == <<Pointer("BeginBlock", 66, abci("ResponseBeginBlock"))>>
Response_BeginBlock_Size == <<Pointer("BeginBlock", 1, abci("ResponseBeginBlock"))>>

Response_CheckTx_Marshal == <<Pointer("CheckTx", 74, abci("ResponseCheckTx"))>>
Response_CheckTx_Size == <<Pointer("CheckTx", 1, abci("ResponseCheckTx"))>>

Response_DeliverTx_Marshal == <<Pointer("DeliverTx", 82, abci("ResponseDeliverTx"))>>
Response_DeliverTx_Size == <<Pointer("DeliverTx", 1, abci("ResponseDeliverTx"))>>

Response_EndBlock_Marshal == <<Pointer("EndBlock", 90, abci("ResponseEndBlock"))>>
Response_EndBlock_Size == <<Pointer("EndBlock", 1, abci("ResponseEndBlock"))>>

Response_Commit_Marshal == <<Pointer("Commit", 98, abci("ResponseCommit"))>>
Response_Commit_Size == <<Pointer("Commit", 1, abci("ResponseCommit"))>>

ResponseException_Marshal == <<Bytes("Error", 10)>>
ResponseException_Size == <<Bytes("Error", 1)>>
ResponseException_Unmarshal == <<Bytes("Error", 1)>>

ResponseEcho_Marshal == <<Bytes("Message", 10)>>
ResponseEcho_Size == <<Bytes("Message", 1)>>
ResponseEcho_Unmarshal == <<Bytes("Message", 1)>>

ResponseFlush_Marshal == <<>>
ResponseFlush_Size == <<>>
ResponseFlush_Unmarshal == <<>>

ResponseInfo_Marshal ==
    <<Bytes("LastBlockAppHash", 42), Varint("LastBlockHeight", 32), Bytes("Data", 10)>>
ResponseInfo_Size ==
    <<Bytes("Data", 1), Varint("LastBlockHeight", 1), Bytes("LastBlockAppHash", 1)>>
ResponseInfo_Unmarshal ==
    <<Bytes("Data", 1), Int64("LastBlockHeight", 4), Bytes("LastBlockAppHash", 5)>>

ResponseSetOption_Marshal == <<Bytes("Info", 34), Bytes("Log", 26), Varint("Code", 8)>>
ResponseSetOption_Size == <<Varint("Code", 1), Bytes("Log", 1), Bytes("Info", 1)>>
ResponseSetOption_Unmarshal == <<Uint32("Code", 1), Bytes("Log", 3), Bytes("Info", 4)>>

ResponseInitChain_Marshal ==
    <<Bytes("AppHash", 26), Messages("Validators", 18, abci("ValidatorUpdate"))>>
ResponseInitChain_Size ==
    <<Messages("Validators", 1, abci("ValidatorUpdate")), Bytes("AppHash", 1)>>
ResponseInitChain_Unmarshal ==
    <<Messages("Validators", 2, abci("ValidatorUpdate")), Bytes("AppHash", 3)>>

ResponseQuery_Marshal ==
    <<Bytes("Encode", 50), Varint("Height", 40), Bytes("Value", 34), Bytes("Key", 26),
      Varint("Index", 16), Bytes("Log", 10)>>
ResponseQuery_Size ==
    <<Bytes("Log", 1), Varint("Index", 1), Bytes("Key", 1), Bytes("Value", 1),
      Varint("Height", 1), Bytes("Encode", 1)>>
ResponseQuery_Unmarshal ==
    <<Bytes("Log", 1), Int64("Index", 2), Bytes("Key", 3), Bytes("Value", 4),
      Int64("Height", 5), Bytes("Encode", 6)>>

ResponseBeginBlock_Marshal == <<Messages("Events", 10, abci("Event"))>>
ResponseBeginBlock_Size == <<Messages("Events", 1, abci("Event"))>>
ResponseBeginBlock_Unmarshal == <<Messages("Events", 1, abci("Event"))>>

ResponseCheckTx_Marshal ==
    <<Bytes("Codespace", 50), Messages("Events", 42, abci("Event")), Bytes("Info", 34),
      Bytes("Log", 26), Bytes("Data", 18), Varint("Code", 8)>>
ResponseCheckTx_Size ==
    <<Varint("Code", 1), Bytes("Data", 1), Bytes("Log", 1), Bytes("Info", 1),
      Messages("Events", 1, abci("Event")), Bytes("Codespace", 1)>>
ResponseCheckTx_Unmarshal ==
    <<Uint32("Code", 1), Bytes("Data", 2), Bytes("Log", 3), Bytes("Info", 4),
      Messages("Events", 5, abci("Event")), Bytes("Codespace", 6)>>

ResponseDeliverTx_Marshal ==
    <<Bytes("Codespace", 50), Messages("Events", 42, abci("Event")), Bytes("Info", 34),
      Bytes("Log", 26), Bytes("Data", 18), Varint("Code", 8)>>
ResponseDeliverTx_Size ==
    <<Varint("Code", 1), Bytes("Data", 1), Bytes("Log", 1), Bytes("Info", 1),
      Messages("Events", 1, abci("Event")), Bytes("Codespace", 1)>>
ResponseDeliverTx_Unmarshal ==
    <<Uint32("Code", 1), Bytes("Data", 2), Bytes("Log", 3), Bytes("Info", 4),
      Messages("Events", 5, abci("Event")), Bytes("Codespace", 6)>>

ResponseEndBlock_Marshal ==
    <<Messages("Events", 18, abci("Event")),
      Messages("ValidatorUpdates", 10, abci("ValidatorUpdate"))>>
ResponseEndBlock_Size ==
    <<Messages("ValidatorUpdates", 1, abci("ValidatorUpdate")),
      Messages("Events", 1, abci("Event"))>>
ResponseEndBlock_Unmarshal ==
    <<Messages("ValidatorUpdates", 1, abci("ValidatorUpdate")),
      Messages("Events", 2, abci("Event"))>>

ResponseCommit_Marshal == <<Bytes("Data", 18)>>
ResponseCommit_Size == <<Bytes("Data", 1)>>
ResponseCommit_Unmarshal == <<Bytes("Data", 2)>>

LastCommitInfo_Marshal == <<Messages("Votes", 18, abci("VoteInfo")), Varint("Round", 8)>>
LastCommitInfo_Size == <<Varint("Round", 1), Messages("Votes", 1, abci("VoteInfo"))>>
LastCommitInfo_Unmarshal == <<Int32("Round", 1), Messages("Votes", 2, abci("VoteInfo"))>>

Event_Marshal == <<Messages("Attributes", 18, abci("EventAttribute")), Bytes("Type", 10)>>
Event_Size == <<Bytes("Type", 1), Messages("Attributes", 1, abci("EventAttribute"))>>
Event_Unmarshal == <<Bytes("Type", 1), Messages("Attributes", 2, abci("EventAttribute"))>>

EventAttribute_Marshal == <<Bool("Index", 24), Bytes("Value", 18), Bytes("Key", 10)>>
EventAttribute_Size == <<Bytes("Key", 1), Bytes("Value", 1), Bool("Index", 2)>>
EventAttribute_Unmarshal == <<Bytes("Key", 1), Bytes("Value", 2), Bool("Index", 3)>>

TxResult_Marshal ==
    <<Embedded("Result", 34, abci("ResponseDeliverTx")), Bytes("Tx", 26),
      Varint("Index", 16), Varint("Height", 8)>>
TxResult_Size ==
    <<Varint("Height", 1), Varint("Index", 1), Bytes("Tx", 1),
      Embedded("Result", 1, abci("ResponseDeliverTx"))>>
TxResult_Unmarshal ==
    <<Int64("Height", 1), Uint32("Index", 2), Bytes("Tx", 3),
      Embedded("Result", 4, abci("ResponseDeliverTx"))>>

Validator_Marshal == <<Double("Power", 25), Bytes("Address", 10)>>
Validator_Size == <<Bytes("Address", 1), Double("Power", 9)>>
Validator_Unmarshal == <<Bytes("Address", 1), Double("Power", 3)>>

ValidatorUpdate_Marshal ==
    <<Varint("Height", 32), Varint("Type", 24), Double("Power", 17),
      Embedded("PubKey", 10, crypto("PublicKey"))>>
ValidatorUpdate_Size ==
    <<Embedded("PubKey", 1, crypto("PublicKey")), Double("Power", 9), Varint("Type", 1),
      Varint("Height", 1)>>
ValidatorUpdate_Unmarshal ==
    <<Embedded("PubKey", 1, crypto("PublicKey")), Double("Power", 2), Int32("Type", 3),
      Int64("Height", 4)>>

VoteInfo_Marshal ==
    <<Bool("SignedLastBlock", 16), Embedded("Validator", 10, abci("Validator"))>>
VoteInfo_Size == <<Embedded("Validator", 1, abci("Validator")), Bool("SignedLastBlock", 2)>>
VoteInfo_Unmarshal ==
    <<Embedded("Validator", 1, abci("Validator")), Bool("SignedLastBlock", 2)>>

Schema ==
    [Request |-> [marshal |-> Request_Marshal, size |-> Request_Size,
        unmarshal |-> Request_Unmarshal, wrapper |-> FALSE],
     Request_Echo |-> [marshal |-> Request_Echo_Marshal, size |-> Request_Echo_Size,
        unmarshal |-> <<>>, wrapper |-> TRUE],
     Request_Flush |-> [marshal |-> Request_Flush_Marshal, size |-> Request_Flush_Size,
        unmarshal |-> <<>>, wrapper |-> TRUE],
     Request_Info |-> [marshal |-> Request_Info_Marshal, size |-> Request_Info_Size,
        unmarshal |-> <<>>, wrapper |-> TRUE],
     Request_SetOption |-> [marshal |-> Request_SetOption_Marshal, size |-> Request_SetOption_Size,
        unmarshal |-> <<>>, wrapper |-> TRUE],
     Request_InitChain |-> [marshal |-> Request_InitChain_Marshal, size |-> Request_InitChain_Size,
        unmarshal |-> <<>>, wrapper |-> TRUE],
     Request_Query |-> [marshal |-> Request_Query_Marshal, size |-> Request_Query_Size,
        unmarshal |-> <<>>, wrapper |-> TRUE],
     Request_BeginBlock |-> [marshal |-> Request_BeginBlock_Marshal, size |-> Request_BeginBlock_Size,
        unmarshal |-> <<>>, wrapper |-> TRUE],
     Request_CheckTx |-> [marshal |-> Request_CheckTx_Marshal, size |-> Request_CheckTx_Size,
        unmarshal |-> <<>>, wrapper |-> TRUE],
     Request_DeliverTx |-> [marshal |-> Request_DeliverTx_Marshal, size |-> Request_DeliverTx_Size,
        unmarshal |-> <<>>, wrapper |-> TRUE],
     Request_EndBlock |-> [marshal |-> Request_EndBlock_Marshal, size |-> Request_EndBlock_Size,
        unmarshal |-> <<>>, wrapper |-> TRUE],
     Request_Commit |-> [marshal |-> Request_Commit_Marshal, size |-> Request_Commit_Size,
        unmarshal |-> <<>>, wrapper |-> TRUE],
     RequestEcho |-> [marshal |-> RequestEcho_Marshal, size |-> RequestEcho_Size,
        unmarshal |-> RequestEcho_Unmarshal, wrapper |-> FALSE],
     RequestFlush |-> [marshal |-> RequestFlush_Marshal, size |-> RequestFlush_Size,
        unmarshal |-> RequestFlush_Unmarshal, wrapper |-> FALSE],
     RequestInfo |-> [marshal |-> RequestInfo_Marshal, size |-> RequestInfo_Size,
        unmarshal |-> RequestInfo_Unmarshal, wrapper |-> FALSE],
     RequestSetOption |-> [marshal |-> RequestSetOption_Marshal, size |-> RequestSetOption_Size,
        unmarshal |-> RequestSetOption_Unmarshal, wrapper |-> FALSE],
     RequestInitChain |-> [marshal |-> RequestInitChain_Marshal, size |-> RequestInitChain_Size,
        unmarshal |-> RequestInitChain_Unmarshal, wrapper |-> FALSE],
     RequestQuery |-> [marshal |-> RequestQuery_Marshal, size |-> RequestQuery_Size,
        unmarshal |-> RequestQuery_Unmarshal, wrapper |-> FALSE],
     RequestBeginBlock |-> [marshal |-> RequestBeginBlock_Marshal, size |-> RequestBeginBlock_Size,
        unmarshal |-> RequestBeginBlock_Unmarshal, wrapper |-> FALSE],
     RequestCheckTx |-> [marshal |-> RequestCheckTx_Marshal, size |-> RequestCheckTx_Size,
        unmarshal |-> RequestCheckTx_Unmarshal, wrapper |-> FALSE],
     RequestDeliverTx |-> [marshal |-> RequestDeliverTx_Marshal, size |-> RequestDeliverTx_Size,
        unmarshal |-> RequestDeliverTx_Unmarshal, wrapper |-> FALSE],
     RequestEndBlock |-> [marshal |-> RequestEndBlock_Marshal, size |-> RequestEndBlock_Size,
        unmarshal |-> RequestEndBlock_Unmarshal, wrapper |-> FALSE],
     RequestCommit |-> [marshal |-> RequestCommit_Marshal, size |-> RequestCommit_Size,
        unmarshal |-> RequestCommit_Unmarshal, wrapper |-> FALSE],
     Response |-> [marshal |-> Response_Marshal, size |-> Response_Size,
        unmarshal |-> Response_Unmarshal, wrapper |-> FALSE],
     Response_Exception |-> [marshal |-> Response_Exception_Marshal, size |-> Response_Exception_Size,
        unmarshal |-> <<>>, wrapper |-> TRUE],
     Response_Echo |-> [marshal |-> Response_Echo_Marshal, size |-> Response_Echo_Size,
        unmarshal |-> <<>>, wrapper |-> TRUE],
     Response_Flush |-> [marshal |-> Response_Flush_Marshal, size |-> Response_Flush_Size,
        unmarshal |-> <<>>, wrapper |-> TRUE],
     Response_Info |-> [marshal |-> Response_Info_Marshal, size |-> Response_Info_Size,
        unmarshal |-> <<>>, wrapper |-> TRUE],
     Response_SetOption |-> [marshal |-> Response_SetOption_Marshal, size |-> Response_SetOption_Size,
        unmarshal |-> <<>>, wrapper |-> TRUE],
     Response_InitChain |-> [marshal |-> Response_InitChain_Marshal, size |-> Response_InitChain_Size,
        unmarshal |-> <<>>, wrapper |-> TRUE],
     Response_Query |-> [marshal |-> Response_Query_Marshal, size |-> Response_Query_Size,
        unmarshal |-> <<>>, wrapper |-> TRUE],
     Response_BeginBlock |-> [marshal |-> Response_BeginBlock_Marshal, size |-> Response_BeginBlock_Size,
        unmarshal |-> <<>>, wrapper |-> TRUE],
     Response_CheckTx |-> [marshal |-> Response_CheckTx_Marshal, size |-> Response_CheckTx_Size,
        unmarshal |-> <<>>, wrapper |-> TRUE],
     Response_DeliverTx |-> [marshal |-> Response_DeliverTx_Marshal, size |-> Response_DeliverTx_Size,
        unmarshal |-> <<>>, wrapper |-> TRUE],
     Response_EndBlock |-> [marshal |-> Response_EndBlock_Marshal, size |-> Response_EndBlock_Size,
        unmarshal |-> <<>>, wrapper |-> TRUE],
     Response_Commit |-> [marshal |-> Response_Commit_Marshal, size |-> Response_Commit_Size,
        unmarshal |-> <<>>, wrapper |-> TRUE],
     ResponseException |-> [marshal |-> ResponseException_Marshal, size |-> ResponseException_Size,
        unmarshal |-> ResponseException_Unmarshal, wrapper |-> FALSE],
     ResponseEcho |-> [marshal |-> ResponseEcho_Marshal, size |-> ResponseEcho_Size,
        unmarshal |-> ResponseEcho_Unmarshal, wrapper |-> FALSE],
     ResponseFlush |-> [marshal |-> ResponseFlush_Marshal, size |-> ResponseFlush_Size,
        unmarshal |-> ResponseFlush_Unmarshal, wrapper |-> FALSE],
     ResponseInfo |-> [marshal |-> ResponseInfo_Marshal, size |-> ResponseInfo_Size,
        unmarshal |-> ResponseInfo_Unmarshal, wrapper |-> FALSE],
     ResponseSetOption |-> [marshal |-> ResponseSetOption_Marshal, size |-> ResponseSetOption_Size,
        unmarshal |-> ResponseSetOption_Unmarshal, wrapper |-> FALSE],
     ResponseInitChain |-> [marshal |-> ResponseInitChain_Marshal, size |-> ResponseInitChain_Size,
        unmarshal |-> ResponseInitChain_Unmarshal, wrapper |-> FALSE],
     ResponseQuery |-> [marshal |-> ResponseQuery_Marshal, size |-> ResponseQuery_Size,
        unmarshal |-> ResponseQuery_Unmarshal, wrapper |-> FALSE],
     ResponseBeginBlock |-> [marshal |-> ResponseBeginBlock_Marshal, size |-> ResponseBeginBlock_Size,
        unmarshal |-> ResponseBeginBlock_Unmarshal, wrapper |-> FALSE],
     ResponseCheckTx |-> [marshal |-> ResponseCheckTx_Marshal, size |-> ResponseCheckTx_Size,
        unmarshal |-> ResponseCheckTx_Unmarshal, wrapper |-> FALSE],
     ResponseDeliverTx |-> [marshal |-> ResponseDeliverTx_Marshal, size |-> ResponseDeliverTx_Size,
        unmarshal |-> ResponseDeliverTx_Unmarshal, wrapper |-> FALSE],
     ResponseEndBlock |-> [marshal |-> ResponseEndBlock_Marshal, size |-> ResponseEndBlock_Size,
        unmarshal |-> ResponseEndBlock_Unmarshal, wrapper |-> FALSE],
     ResponseCommit |-> [marshal |-> ResponseCommit_Marshal, size |-> ResponseCommit_Size,
        unmarshal |-> ResponseCommit_Unmarshal, wrapper |-> FALSE],
     LastCommitInfo |-> [marshal |-> LastCommitInfo_Marshal, size |-> LastCommitInfo_Size,
        unmarshal |-> LastCommitInfo_Unmarshal, wrapper |-> FALSE],
     Event |-> [marshal |-> Event_Marshal, size |-> Event_Size,
        unmarshal |-> Event_Unmarshal, wrapper |-> FALSE],
     EventAttribute |-> [marshal |-> EventAttribute_Marshal, size |-> EventAttribute_Size,
        unmarshal |-> EventAttribute_Unmarshal, wrapper |-> FALSE],
     TxResult |-> [marshal |-> TxResult_Marshal, size |-> TxResult_Size,
        unmarshal |-> TxResult_Unmarshal, wrapper |-> FALSE],
     Validator |-> [marshal |-> Validator_Marshal, size |-> Validator_Size,
        unmarshal |-> Validator_Unmarshal, wrapper |-> FALSE],
     ValidatorUpdate |-> [marshal |-> ValidatorUpdate_Marshal, size |-> ValidatorUpdate_Size,
        unmarshal |-> ValidatorUpdate_Unmarshal, wrapper |-> FALSE],
     VoteInfo |-> [marshal |-> VoteInfo_Marshal, size |-> VoteInfo_Size,
        unmarshal |-> VoteInfo_Unmarshal, wrapper |-> FALSE]]
=============================================================================
