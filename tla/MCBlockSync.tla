---------------------------- MODULE MCBlockSync ----------------------------
(***************************************************************************)
(* The instance for TLC: a peer that answers truly and has the whole chain,*)
(* and one that may send any block, time out or disconnect, whose messages *)
(* may still be handled after its connection has ended.                    *)
(***************************************************************************)
EXTENDS BlockSync, TLC

CONSTANTS f, s

MCReports == (f :> [base |-> 1, height |-> 2]) @@ (s :> [base |-> 1, height |-> 3])
=============================================================================
