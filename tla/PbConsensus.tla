----------------------------- MODULE PbConsensus ----------------------------
(***************************************************************************)
(* The messages of proto/consensus/consensus_types.pb.go,                  *)
(* proto/consensus/wal.pb.go: the messages of the consensus reactor and the*)
(* records of the WAL.  For each message the fields its generated functions*)
(* write (from the last byte to the first), count and read; see PbFields.  *)
(***************************************************************************)
EXTENDS PbFields

NewRoundStep_Marshal ==
    <<Unknown, Varint("LastReplyRound", 40), Varint("SecondsSinceStartTime", 32),
      Varint("Step", 24), Varint("Round", 16), Varint("Height", 8)>>
NewRoundStep_Size ==
    <<Varint("Height", 1), Varint("Round", 1), Varint("Step", 1),
      Varint("SecondsSinceStartTime", 1), Varint("LastReplyRound", 1), Unknown>>
NewRoundStep_Unmarshal ==
    <<Int64("Height", 1), Int32("Round", 2), Uint32("Step", 3),
      Int64("SecondsSinceStartTime", 4), Int32("LastReplyRound", 5), Unknown>>

NewValidBlock_Marshal ==
    <<Unknown, Bool("IsReply", 40), Pointer("BlockParts", 34, bits("BitArray")),
      Embedded("BlockPartSetHeader", 26, types("PartSetHeader")), Varint("Round", 16),
      Varint("Height", 8)>>
NewValidBlock_Size ==
    <<Varint("Height", 1), Varint("Round", 1),
      Embedded("BlockPartSetHeader", 1, types("PartSetHeader")),
      Pointer("BlockParts", 1, bits("BitArray")), Bool("IsReply", 2), Unknown>>
NewValidBlock_Unmarshal ==
    <<Int64("Height", 1), Int32("Round", 2),
      Embedded("BlockPartSetHeader", 3, types("PartSetHeader")),
      Pointer("BlockParts", 4, bits("BitArray")), Bool("IsReply", 5), Unknown>>

PrePrepare_Marshal == <<Unknown, Embedded("PrePrepare", 10, types("PrePrepare"))>>
PrePrepare_Size == <<Embedded("PrePrepare", 1, types("PrePrepare")), Unknown>>
PrePrepare_Unmarshal == <<Embedded("PrePrepare", 1, types("PrePrepare")), Unknown>>

PrePreparePOL_Marshal ==
    <<Unknown, Embedded("PrePreparePol", 26, bits("BitArray")),
      Varint("PrePreparePolRound", 16), Varint("Height", 8)>>
PrePreparePOL_Size ==
    <<Varint("Height", 1), Varint("PrePreparePolRound", 1),
      Embedded("PrePreparePol", 1, bits("BitArray")), Unknown>>
PrePreparePOL_Unmarshal ==
    <<Int64("Height", 1), Int32("PrePreparePolRound", 2),
      Embedded("PrePreparePol", 3, bits("BitArray")), Unknown>>

BlockPart_Marshal ==
    <<Unknown, Embedded("Part", 26, types("Part")), Varint("Round", 16),
      Varint("Height", 8)>>
BlockPart_Size ==
    <<Varint("Height", 1), Varint("Round", 1), Embedded("Part", 1, types("Part")),
      Unknown>>
BlockPart_Unmarshal ==
    <<Int64("Height", 1), Int32("Round", 2), Embedded("Part", 3, types("Part")),
      Unknown>>

Vote_Marshal == <<Unknown, Pointer("Vote", 10, types("Vote"))>>
Vote_Size == <<Pointer("Vote", 1, types("Vote")), Unknown>>
Vote_Unmarshal == <<Pointer("Vote", 1, types("Vote")), Unknown>>

HasVote_Marshal ==
    <<Unknown, Varint("Index", 32), Varint("Type", 24), Varint("Round", 16),
      Varint("Height", 8)>>
HasVote_Size ==
    <<Varint("Height", 1), Varint("Round", 1), Varint("Type", 1), Varint("Index", 1),
      Unknown>>
HasVote_Unmarshal ==
    <<Int64("Height", 1), Int32("Round", 2), Int32("Type", 3), Int32("Index", 4),
      Unknown>>

VoteSetMaj23_Marshal ==
    <<Unknown, Embedded("BlockID", 34, types("BlockID")), Varint("Type", 24),
      Varint("Round", 16), Varint("Height", 8)>>
VoteSetMaj23_Size ==
    <<Varint("Height", 1), Varint("Round", 1), Varint("Type", 1),
      Embedded("BlockID", 1, types("BlockID")), Unknown>>
VoteSetMaj23_Unmarshal ==
    <<Int64("Height", 1), Int32("Round", 2), Int32("Type", 3),
      Embedded("BlockID", 4, types("BlockID")), Unknown>>

VoteSetBits_Marshal ==
    <<Unknown, Embedded("Votes", 42, bits("BitArray")),
      Embedded("BlockID", 34, types("BlockID")), Varint("Type", 24),
      Varint("Round", 16), Varint("Height", 8)>>
VoteSetBits_Size ==
    <<Varint("Height", 1), Varint("Round", 1), Varint("Type", 1),
      Embedded("BlockID", 1, types("BlockID")), Embedded("Votes", 1, bits("BitArray")),
      Unknown>>
VoteSetBits_Unmarshal ==
    <<Int64("Height", 1), Int32("Round", 2), Int32("Type", 3),
      Embedded("BlockID", 4, types("BlockID")), Embedded("Votes", 5, bits("BitArray")),
      Unknown>>

Message_Marshal == <<Unknown, OneOf("Sum")>>
Message_Size == <<OneOf("Sum"), Unknown>>
Message_Unmarshal ==
    <<OneOfMessage("Sum", 1, consensus("Message_NewRoundStep"), consensus("NewRoundStep")),
      OneOfMessage("Sum", 2, consensus("Message_NewValidBlock"), consensus("NewValidBlock")),
      OneOfMessage("Sum", 3, consensus("Message_PrePrepare"), consensus("PrePrepare")),
      OneOfMessage("Sum", 4, consensus("Message_PrePreparePol"), consensus("PrePreparePOL")),
      OneOfMessage("Sum", 5, consensus("Message_BlockPart"), consensus("BlockPart")),
      OneOfMessage("Sum", 6, consensus("Message_Vote"), consensus("Vote")),
      OneOfMessage("Sum", 7, consensus("Message_HasVote"), consensus("HasVote")),
      OneOfMessage("Sum", 8, consensus("Message_VoteSetMaj23"), consensus("VoteSetMaj23")),
      OneOfMessage("Sum", 9, consensus("Message_VoteSetBits"), consensus("VoteSetBits")),
      Unknown>>

Message_NewRoundStep_Marshal == <<Pointer("NewRoundStep", 10, consensus("NewRoundStep"))>>
Message_NewRoundStep_Size == <<Pointer("NewRoundStep", 1, consensus("NewRoundStep"))>>

Message_NewValidBlock_Marshal ==
    <<Pointer("NewValidBlock", 18, consensus("NewValidBlock"))>>
Message_NewValidBlock_Size == <<Pointer("NewValidBlock", 1, consensus("NewValidBlock"))>>

Message_PrePrepare_Marshal == <<Pointer("PrePrepare", 26, consensus("PrePrepare"))>>
Message_PrePrepare_Size == <<Pointer("PrePrepare", 1, consensus("PrePrepare"))>>

Message_PrePreparePol_Marshal ==
    <<Pointer("PrePreparePol", 34, consensus("PrePreparePOL"))>>
Message_PrePreparePol_Size == <<Pointer("PrePreparePol", 1, consensus("PrePreparePOL"))>>

Message_BlockPart_Marshal == <<Pointer("BlockPart", 42, consensus("BlockPart"))>>
Message_BlockPart_Size == <<Pointer("BlockPart", 1, consensus("BlockPart"))>>

Message_Vote_Marshal == <<Pointer("Vote", 50, consensus("Vote"))>>
Message_Vote_Size == <<Pointer("Vote", 1, consensus("Vote"))>>

Message_HasVote_Marshal == <<Pointer("HasVote", 58, consensus("HasVote"))>>
Message_HasVote_Size == <<Pointer("HasVote", 1, consensus("HasVote"))>>

Message_VoteSetMaj23_Marshal == <<Pointer("VoteSetMaj23", 66, consensus("VoteSetMaj23"))>>
Message_VoteSetMaj23_Size == <<Pointer("VoteSetMaj23", 1, consensus("VoteSetMaj23"))>>

Message_VoteSetBits_Marshal == <<Pointer("VoteSetBits", 74, consensus("VoteSetBits"))>>
Message_VoteSetBits_Size == <<Pointer("VoteSetBits", 1, consensus("VoteSetBits"))>>

MsgInfo_Marshal ==
    <<Unknown, Bytes("PeerID", 18), Embedded("Msg", 10, consensus("Message"))>>
MsgInfo_Size == <<Embedded("Msg", 1, consensus("Message")), Bytes("PeerID", 1), Unknown>>
MsgInfo_Unmarshal ==
    <<Embedded("Msg", 1, consensus("Message")), Bytes("PeerID", 2), Unknown>>

TimeoutInfo_Marshal ==
    <<Unknown, Varint("Step", 32), Varint("Round", 24), Varint("Height", 16),
      StdDuration("Duration", 10)>>
TimeoutInfo_Size ==
    <<StdDuration("Duration", 1), Varint("Height", 1), Varint("Round", 1),
      Varint("Step", 1), Unknown>>
TimeoutInfo_Unmarshal ==
    <<StdDuration("Duration", 1), Int64("Height", 2), Int32("Round", 3),
      Uint32("Step", 4), Unknown>>

EndHeight_Marshal == <<Unknown, Varint("Height", 8)>>
EndHeight_Size == <<Varint("Height", 1), Unknown>>
EndHeight_Unmarshal == <<Int64("Height", 1), Unknown>>

WALMessage_Marshal == <<Unknown, OneOf("Sum")>>
WALMessage_Size == <<OneOf("Sum"), Unknown>>
WALMessage_Unmarshal ==
    <<OneOfMessage("Sum", 1, consensus("WALMessage_EventDataRoundState"), types("EventDataRoundState")),
      OneOfMessage("Sum", 2, consensus("WALMessage_MsgInfo"), consensus("MsgInfo")),
      OneOfMessage("Sum", 3, consensus("WALMessage_TimeoutInfo"), consensus("TimeoutInfo")),
      OneOfMessage("Sum", 4, consensus("WALMessage_EndHeight"), consensus("EndHeight")),
      Unknown>>

WALMessage_EventDataRoundState_Marshal ==
    <<Pointer("EventDataRoundState", 10, types("EventDataRoundState"))>>
WALMessage_EventDataRoundState_Size ==
    <<Pointer("EventDataRoundState", 1, types("EventDataRoundState"))>>

WALMessage_MsgInfo_Marshal == <<Pointer("MsgInfo", 18, consensus("MsgInfo"))>>
WALMessage_MsgInfo_Size == <<Pointer("MsgInfo", 1, consensus("MsgInfo"))>>

WALMessage_TimeoutInfo_Marshal == <<Pointer("TimeoutInfo", 26, consensus("TimeoutInfo"))>>
WALMessage_TimeoutInfo_Size == <<Pointer("TimeoutInfo", 1, consensus("TimeoutInfo"))>>

WALMessage_EndHeight_Marshal == <<Pointer("EndHeight", 34, consensus("EndHeight"))>>
WALMessage_EndHeight_Size == <<Pointer("EndHeight", 1, consensus("EndHeight"))>>

TimedWALMessage_Marshal ==
    <<Unknown, Pointer("Msg", 18, consensus("WALMessage")), StdTime("Time", 10)>>
TimedWALMessage_Size ==
    <<StdTime("Time", 1), Pointer("Msg", 1, consensus("WALMessage")), Unknown>>
TimedWALMessage_Unmarshal ==
    <<StdTime("Time", 1), Pointer("Msg", 2, consensus("WALMessage")), Unknown>>

Schema ==
    [NewRoundStep |-> [marshal |-> NewRoundStep_Marshal, size |-> NewRoundStep_Size,
        unmarshal |-> NewRoundStep_Unmarshal, wrapper |-> FALSE],
     NewValidBlock |-> [marshal |-> NewValidBlock_Marshal, size |-> NewValidBlock_Size,
        unmarshal |-> NewValidBlock_Unmarshal, wrapper |-> FALSE],
     PrePrepare |-> [marshal |-> PrePrepare_Marshal, size |-> PrePrepare_Size,
        unmarshal |-> PrePrepare_Unmarshal, wrapper |-> FALSE],
     PrePreparePOL |-> [marshal |-> PrePreparePOL_Marshal, size |-> PrePreparePOL_Size,
        unmarshal |-> PrePreparePOL_Unmarshal, wrapper |-> FALSE],
     BlockPart |-> [marshal |-> BlockPart_Marshal, size |-> BlockPart_Size,
        unmarshal |-> BlockPart_Unmarshal, wrapper |-> FALSE],
     Vote |-> [marshal |-> Vote_Marshal, size |-> Vote_Size,
        unmarshal |-> Vote_Unmarshal, wrapper |-> FALSE],
     HasVote |-> [marshal |-> HasVote_Marshal, size |-> HasVote_Size,
        unmarshal |-> HasVote_Unmarshal, wrapper |-> FALSE],
     VoteSetMaj23 |-> [marshal |-> VoteSetMaj23_Marshal, size |-> VoteSetMaj23_Size,
        unmarshal |-> VoteSetMaj23_Unmarshal, wrapper |-> FALSE],
     VoteSetBits |-> [marshal |-> VoteSetBits_Marshal, size |-> VoteSetBits_Size,
        unmarshal |-> VoteSetBits_Unmarshal, wrapper |-> FALSE],
     Message |-> [marshal |-> Message_Marshal, size |-> Message_Size,
        unmarshal |-> Message_Unmarshal, wrapper |-> FALSE],
     Message_NewRoundStep |-> [marshal |-> Message_NewRoundStep_Marshal, size |-> Message_NewRoundStep_Size,
        unmarshal |-> <<>>, wrapper |-> TRUE],
     Message_NewValidBlock |-> [marshal |-> Message_NewValidBlock_Marshal, size |-> Message_NewValidBlock_Size,
        unmarshal |-> <<>>, wrapper |-> TRUE],
     Message_PrePrepare |-> [marshal |-> Message_PrePrepare_Marshal, size |-> Message_PrePrepare_Size,
        unmarshal |-> <<>>, wrapper |-> TRUE],
     Message_PrePreparePol |-> [marshal |-> Message_PrePreparePol_Marshal, size |-> Message_PrePreparePol_Size,
        unmarshal |-> <<>>, wrapper |-> TRUE],
     Message_BlockPart |-> [marshal |-> Message_BlockPart_Marshal, size |-> Message_BlockPart_Size,
        unmarshal |-> <<>>, wrapper |-> TRUE],
     Message_Vote |-> [marshal |-> Message_Vote_Marshal, size |-> Message_Vote_Size,
        unmarshal |-> <<>>, wrapper |-> TRUE],
     Message_HasVote |-> [marshal |-> Message_HasVote_Marshal, size |-> Message_HasVote_Size,
        unmarshal |-> <<>>, wrapper |-> TRUE],
     Message_VoteSetMaj23 |-> [marshal |-> Message_VoteSetMaj23_Marshal, size |-> Message_VoteSetMaj23_Size,
        unmarshal |-> <<>>, wrapper |-> TRUE],
     Message_VoteSetBits |-> [marshal |-> Message_VoteSetBits_Marshal, size |-> Message_VoteSetBits_Size,
        unmarshal |-> <<>>, wrapper |-> TRUE],
     MsgInfo |-> [marshal |-> MsgInfo_Marshal, size |-> MsgInfo_Size,
        unmarshal |-> MsgInfo_Unmarshal, wrapper |-> FALSE],
     TimeoutInfo |-> [marshal |-> TimeoutInfo_Marshal, size |-> TimeoutInfo_Size,
        unmarshal |-> TimeoutInfo_Unmarshal, wrapper |-> FALSE],
     EndHeight |-> [marshal |-> EndHeight_Marshal, size |-> EndHeight_Size,
        unmarshal |-> EndHeight_Unmarshal, wrapper |-> FALSE],
     WALMessage |-> [marshal |-> WALMessage_Marshal, size |-> WALMessage_Size,
        unmarshal |-> WALMessage_Unmarshal, wrapper |-> FALSE],
     WALMessage_EventDataRoundState |-> [marshal |-> WALMessage_EventDataRoundState_Marshal, size |-> WALMessage_EventDataRoundState_Size,
        unmarshal |-> <<>>, wrapper |-> TRUE],
     WALMessage_MsgInfo |-> [marshal |-> WALMessage_MsgInfo_Marshal, size |-> WALMessage_MsgInfo_Size,
        unmarshal |-> <<>>, wrapper |-> TRUE],
     WALMessage_TimeoutInfo |-> [marshal |-> WALMessage_TimeoutInfo_Marshal, size |-> WALMessage_TimeoutInfo_Size,
        unmarshal |-> <<>>, wrapper |-> TRUE],
     WALMessage_EndHeight |-> [marshal |-> WALMessage_EndHeight_Marshal, size |-> WALMessage_EndHeight_Size,
        unmarshal |-> <<>>, wrapper |-> TRUE],
     TimedWALMessage |-> [marshal |-> TimedWALMessage_Marshal, size |-> TimedWALMessage_Size,
        unmarshal |-> TimedWALMessage_Unmarshal, wrapper |-> FALSE]]
=============================================================================
