-------------------------------- MODULE Codec -------------------------------
(***************************************************************************)
(* Messages written to a connection and read back (libs/protoio over the   *)
(* generated code of proto/), and the sign bytes of votes and proposals    *)
(* (types/canonical.go) that the signer compares with the last ones it     *)
(* signed.  A sender writes frames; it may run a newer version with a      *)
(* field the reader does not know; the connection may break off in the     *)
(* middle of a frame.                                                      *)
(***************************************************************************)
EXTENDS Wire

(* The tables of all packages under proto/, by package and message type. *)
LOCAL Types == INSTANCE PbTypes
LOCAL Bits == INSTANCE PbBits
LOCAL Consens == INSTANCE PbConsensus
LOCAL Crypto == INSTANCE PbCrypto
LOCAL BlockChain == INSTANCE PbBlockchain
LOCAL MemPool == INSTANCE PbMempool
LOCAL Gossip == INSTANCE PbGossip
LOCAL Store == INSTANCE PbStore
LOCAL State == INSTANCE PbState
LOCAL Trust == INSTANCE PbTrust
LOCAL Abci == INSTANCE PbAbci

Packages ==
    [types |-> Types!Schema, bits |-> Bits!Schema, consensus |-> Consens!Schema,
     crypto |-> Crypto!Schema, blockchain |-> BlockChain!Schema,
     mempool |-> MemPool!Schema, gossip |-> Gossip!Schema, store |-> Store!Schema,
     state |-> State!Schema, crtrust |-> Trust!Schema, abci |-> Abci!Schema]

CONSTANTS MessageTypes, \* the message types sent
          Scripts(_),  \* for a type, the sequences of [m, extra] that may be sent:
                       \* a message and, from newer software, the bytes of a field
                       \* that the reader does not know
          MaxSize,     \* the longest message that the reader takes
          Cuts(_),     \* where a frame of a given length may break off
          Contents     \* what may be signed

VARIABLES msgType,    \* of the messages on this connection; Nil for the signer
          script,  \* what is still to be sent
          sent,    \* the messages whose frames were written whole
          frames,  \* those frames
          stream,  \* the bytes that have not been read
          torn,    \* the connection broke off
          got,     \* the messages read
          closed,  \* the reader met an error
          lastSigned, nextSigned  \* two contents given to the signer, or Nil

connVars == <<msgType, script, sent, frames, stream, torn, got, closed>>
signVars == <<lastSigned, nextSigned>>
vars == <<connVars, signVars>>

(******************************** sign bytes *******************************)
(* Hashes of the right length, or empty: BlockIDFromProto refuses no other. *)
BlockIDIsZero(bid) ==
    bid.Hash = <<>> /\ bid.PartSetHeader.Total = 0 /\ bid.PartSetHeader.Hash = <<>>

CanonicalizePartSetHeader(psh) ==
    [Total |-> psh.Total, Hash |-> psh.Hash, XXX_unrecognized |-> <<>>]

CanonicalizeBlockID(bid) ==
    IF BlockIDIsZero(bid) THEN Nil
    ELSE [Hash |-> bid.Hash, PartSetHeader |-> CanonicalizePartSetHeader(bid.PartSetHeader),
          XXX_unrecognized |-> <<>>]

CanonicalizeVote(chainID, vote) ==
    [Type |-> vote.Type, Height |-> vote.Height, Round |-> vote.Round,
     BlockID |-> CanonicalizeBlockID(vote.BlockID), Timestamp |-> vote.Timestamp,
     ChainID |-> chainID, XXX_unrecognized |-> <<>>]

PrePrepareType == 32

(* Mutant of CanonicalizePrePrepare: the proof-of-lock round is left out. *)
CanonicalizeWithoutPOL(chainID, p) ==
    [Type |-> PrePrepareType, Height |-> p.Height, Round |-> p.Round, POLRound |-> 0,
     BlockID |-> CanonicalizeBlockID(p.BlockID), Timestamp |-> p.Timestamp,
     ChainID |-> chainID, XXX_unrecognized |-> <<>>]

CanonicalizePrePrepare(chainID, p) ==
    [Type |-> PrePrepareType, Height |-> p.Height, Round |-> p.Round, POLRound |-> p.PolRound,
     BlockID |-> CanonicalizeBlockID(p.BlockID), Timestamp |-> p.Timestamp,
     ChainID |-> chainID, XXX_unrecognized |-> <<>>]

VoteSignBytes(chainID, vote) ==
    MarshalDelimited(Packages, types("CanonicalVote"), CanonicalizeVote(chainID, vote))
PrePrepareSignBytes(chainID, p) ==
    MarshalDelimited(Packages, types("CanonicalPrePrepare"), CanonicalizePrePrepare(chainID, p))

SignBytes(c) ==
    IF c.kind = "vote" THEN VoteSignBytes(c.chain, c.of) ELSE PrePrepareSignBytes(c.chain, c.of)

(* Both sign bytes read back and compared with the same time in both. *)
EqualButForTime(last, new) ==
    /\ last.ok /\ new.ok
    /\ [last.v EXCEPT !.Timestamp = ZeroTime] = [new.v EXCEPT !.Timestamp = ZeroTime]
OnlyDifferByTimestamp(T, last, new) ==
    EqualButForTime(UnmarshalDelimited(Packages, T, last), UnmarshalDelimited(Packages, T, new))
checkVotesOnlyDifferByTimestamp(last, new) ==
    OnlyDifferByTimestamp(types("CanonicalVote"), last, new)
checkProposalsOnlyDifferByTimestamp(last, new) ==
    OnlyDifferByTimestamp(types("CanonicalPrePrepare"), last, new)

(********************************* machine *********************************)
Init ==
    /\ msgType \in MessageTypes \cup {Nil}
    /\ script \in IF msgType = Nil THEN {<<>>} ELSE Scripts(msgType)
    /\ sent = <<>> /\ frames = <<>> /\ stream = <<>> /\ torn = FALSE
    /\ got = <<>> /\ closed = FALSE
    /\ lastSigned = Nil /\ nextSigned = Nil

Keeps(T) == \E k \in DOMAIN Table(Packages, T).unmarshal : Table(Packages, T).unmarshal[k] = Unknown

HasMap(T) == \E k \in DOMAIN Table(Packages, T).marshal : Table(Packages, T).marshal[k].kind = "map"

(* The frame of a script's entry: WriteMsg, or what newer software writes. *)
Frame(e) ==
    IF e.extra = <<>> THEN WriteMsg(Packages, msgType, e.m)
    ELSE encodeVarint(Size(Packages, msgType, e.m) + Len(e.extra))
         \o MarshalToSizedBuffer(Packages, msgType, e.m) \o e.extra

(* What the reader should make of it. *)
Seen(e) == IF Keeps(msgType) THEN [e.m EXCEPT !.XXX_unrecognized = @ \o e.extra] ELSE e.m

Send ==
    /\ script # <<>> /\ ~torn
    /\ frames' = Append(frames, Frame(Head(script)))
    /\ stream' = stream \o Frame(Head(script))
    /\ sent' = Append(sent, Seen(Head(script)))
    /\ script' = Tail(script)
    /\ UNCHANGED <<msgType, torn, got, closed, signVars>>

(* The connection breaks off after n bytes of a frame. *)
Tear ==
    /\ script # <<>> /\ ~torn
    /\ LET f == Frame(Head(script)) IN
       \E n \in Cuts(Len(f)) : stream' = stream \o SubSeq(f, 1, n)
    /\ torn' = TRUE
    /\ UNCHANGED <<msgType, script, sent, frames, got, closed, signVars>>

(* ReadMsg, by a reader that stops at the first error.  While the connection
   is up it waits for the bytes that have not come. *)
Receive ==
    /\ ~closed
    /\ torn \/ stream # <<>>
    /\ LET x == ReadMsg(Packages, msgType, stream, MaxSize) IN
       IF x.ok THEN /\ got' = Append(got, x.v)
                    /\ stream' = SubSeq(stream, x.next, Len(stream))
                    /\ UNCHANGED closed
       ELSE closed' = TRUE /\ UNCHANGED <<got, stream>>
    /\ UNCHANGED <<msgType, script, sent, frames, torn, signVars>>

(* The signer is given one content and later another. *)
Sign(c) ==
    /\ nextSigned = Nil
    /\ IF lastSigned = Nil THEN lastSigned' = c /\ UNCHANGED nextSigned
       ELSE c.kind = lastSigned.kind /\ nextSigned' = c /\ UNCHANGED lastSigned
    /\ UNCHANGED connVars

Next ==
    \/ Send \/ Tear \/ Receive
    \/ msgType = Nil /\ \E c \in Contents : Sign(c)

Spec == Init /\ [][Next]_vars

(******************************** properties *******************************)
(* The reader gets the messages that were sent, in their order, field by
   field; of a field it does not know, at most the bytes.  Of a frame that
   broke off it gets nothing, and it meets an error only there, or at a
   message longer than it takes. *)
ReadsWhatWasSent ==
    /\ IsPrefix(got, sent)
    /\ closed => IF got = sent THEN torn
                 ELSE Len(frames[Len(got) + 1]) > MaxSize + sov(MaxSize)

(* Marshalling what was read gives the bytes that were read: block sync and
   the part sets hash blocks that way.  A message type without a place for
   unknown fields loses those alone.  The entries of a map are written in the
   order of an iteration, which is never the same.  Size counts what
   MarshalToSizedBuffer writes, so that Marshal fills its buffer and never
   runs over its beginning (a panic in the code). *)
RemarshalsTheSame ==
    /\ got # <<>> /\ ~HasMap(msgType) =>
          WriteMsg(Packages, msgType, Last(got)) =
              IF Keeps(msgType) THEN frames[Len(got)]
              ELSE WriteMsg(Packages, msgType, sent[Len(got)])
    /\ sent # <<>> =>
          /\ Size(Packages, msgType, Last(sent))
               = Len(MarshalToSizedBuffer(Packages, msgType, Last(sent)))
          /\ Last(frames) # Panic

Canonical(c) ==
    IF c.kind = "vote" THEN CanonicalizeVote(c.chain, c.of)
    ELSE [CanonicalizePrePrepare(c.chain, c.of) EXCEPT !.POLRound = c.of.PolRound]

Decides(a, b, last, new) ==
    /\ last = new <=> Canonical(a) = Canonical(b)
    /\ (IF a.kind = "vote" THEN checkVotesOnlyDifferByTimestamp(last, new)
        ELSE checkProposalsOnlyDifferByTimestamp(last, new))
       <=> [Canonical(a) EXCEPT !.Timestamp = ZeroTime]
             = [Canonical(b) EXCEPT !.Timestamp = ZeroTime]

(* What the signer decides from the sign bytes alone: they are equal only for
   the same canonical content, and pass for the same up to the time exactly
   when chain, height, round, type, block and proof-of-lock round are equal.
   A zero block id is the same as no block id. *)
SignBytesDecide ==
    nextSigned # Nil =>
        Decides(lastSigned, nextSigned, SignBytes(lastSigned), SignBytes(nextSigned))
=============================================================================
