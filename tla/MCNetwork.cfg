SPECIFICATION MCSpec
CONSTANTS
    p = p
    q = q
    NoNode = NoNode
    Nil = Nil
    Packs = {"types", "bits", "consensus", "crypto", "blockchain", "mempool", "gossip", "store", "state", "crtrust", "abci"}
    MessageTypes <- MCMessageTypes
    Scripts <- MCScripts
    MaxSize = 100
    Cuts <- MCCuts
    Contents <- MCContents
INVARIANTS
    DeliversInOrder
    ReadsWhatWasSent
    RemarshalsTheSame
    SignBytesDecide
PROPERTIES
    FailedIsStopped
    AcceptedArrives
\* A node that is stopped, a connection that is dropped and a stream that was
\* read do nothing more.
CHECK_DEADLOCK FALSE
