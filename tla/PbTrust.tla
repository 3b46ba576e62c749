------------------------------- MODULE PbTrust ------------------------------
(***************************************************************************)
(* The messages of proto/crtrust/crtrust.pb.go: the messages of the trust  *)
(* reactor.  For each message the fields its generated functions write     *)
(* (from the last byte to the first), count and read; see PbFields.        *)
(***************************************************************************)
EXTENDS PbFields

Notice_Marshal == <<Varint("Height", 24), Bytes("Src", 18)>>
Notice_Size == <<Bytes("Src", 1), Varint("Height", 1)>>
Notice_Unmarshal == <<Bytes("Src", 2), Int64("Height", 3)>>

LocalEvaluation_Marshal == <<Varint("Height", 24), Bytes("Src", 18), Map("PeerEval", 10)>>
LocalEvaluation_Size == <<Map("PeerEval", 1), Bytes("Src", 1), Varint("Height", 1)>>
LocalEvaluation_Unmarshal == <<Map("PeerEval", 1), Bytes("Src", 2), Int64("Height", 3)>>

Schema ==
    [Notice |-> [marshal |-> Notice_Marshal, size |-> Notice_Size,
        unmarshal |-> Notice_Unmarshal, wrapper |-> FALSE],
     LocalEvaluation |-> [marshal |-> LocalEvaluation_Marshal, size |-> LocalEvaluation_Size,
        unmarshal |-> LocalEvaluation_Unmarshal, wrapper |-> FALSE]]
=============================================================================
