------------------------------ MODULE PbCrypto ------------------------------
(***************************************************************************)
(* The messages of proto/crypto/keys.pb.go, proto/crypto/proof.pb.go:      *)
(* public keys and Merkle proofs.  For each message the fields its         *)
(* generated functions write (from the last byte to the first), count and  *)
(* read; see PbFields.                                                     *)
(***************************************************************************)
EXTENDS PbFields

PublicKey_Marshal == <<Unknown, OneOf("Sum")>>
PublicKey_Size == <<OneOf("Sum"), Unknown>>
PublicKey_Unmarshal == <<OneOfBytes("Sum", 1, crypto("PublicKey_Ed25519")), Unknown>>

PublicKey_Ed25519_Marshal == <<PtrBytes("Ed25519", 10)>>
PublicKey_Ed25519_Size == <<PtrBytes("Ed25519", 1)>>

Proof_Marshal ==
    <<Unknown, ByteSlices("Aunts", 34), Bytes("LeafHash", 26), Varint("Index", 16),
      Varint("Total", 8)>>
Proof_Size ==
    <<Varint("Total", 1), Varint("Index", 1), Bytes("LeafHash", 1),
      ByteSlices("Aunts", 1), Unknown>>
Proof_Unmarshal ==
    <<Int64("Total", 1), Int64("Index", 2), Bytes("LeafHash", 3),
      ByteSlices("Aunts", 4), Unknown>>

ValueOp_Marshal == <<Unknown, Pointer("Proof", 18, crypto("Proof")), Bytes("Key", 10)>>
ValueOp_Size == <<Bytes("Key", 1), Pointer("Proof", 1, crypto("Proof")), Unknown>>
ValueOp_Unmarshal == <<Bytes("Key", 1), Pointer("Proof", 2, crypto("Proof")), Unknown>>

DominoOp_Marshal == <<Unknown, Bytes("Output", 26), Bytes("Input", 18), Bytes("Key", 10)>>
DominoOp_Size == <<Bytes("Key", 1), Bytes("Input", 1), Bytes("Output", 1), Unknown>>
DominoOp_Unmarshal == <<Bytes("Key", 1), Bytes("Input", 2), Bytes("Output", 3), Unknown>>

ProofOp_Marshal == <<Unknown, Bytes("Data", 26), Bytes("Key", 18), Bytes("Type", 10)>>
ProofOp_Size == <<Bytes("Type", 1), Bytes("Key", 1), Bytes("Data", 1), Unknown>>
ProofOp_Unmarshal == <<Bytes("Type", 1), Bytes("Key", 2), Bytes("Data", 3), Unknown>>

ProofOps_Marshal == <<Unknown, Messages("Ops", 10, crypto("ProofOp"))>>
ProofOps_Size == <<Messages("Ops", 1, crypto("ProofOp")), Unknown>>
ProofOps_Unmarshal == <<Messages("Ops", 1, crypto("ProofOp")), Unknown>>

Schema ==
    [PublicKey |-> [marshal |-> PublicKey_Marshal, size |-> PublicKey_Size,
        unmarshal |-> PublicKey_Unmarshal, wrapper |-> FALSE],
     PublicKey_Ed25519 |-> [marshal |-> PublicKey_Ed25519_Marshal, size |-> PublicKey_Ed25519_Size,
        unmarshal |-> <<>>, wrapper |-> TRUE],
     Proof |-> [marshal |-> Proof_Marshal, size |-> Proof_Size,
        unmarshal |-> Proof_Unmarshal, wrapper |-> FALSE],
     ValueOp |-> [marshal |-> ValueOp_Marshal, size |-> ValueOp_Size,
        unmarshal |-> ValueOp_Unmarshal, wrapper |-> FALSE],
     DominoOp |-> [marshal |-> DominoOp_Marshal, size |-> DominoOp_Size,
        unmarshal |-> DominoOp_Unmarshal, wrapper |-> FALSE],
     ProofOp |-> [marshal |-> ProofOp_Marshal, size |-> ProofOp_Size,
        unmarshal |-> ProofOp_Unmarshal, wrapper |-> FALSE],
     ProofOps |-> [marshal |-> ProofOps_Marshal, size |-> ProofOps_Size,
        unmarshal |-> ProofOps_Unmarshal, wrapper |-> FALSE]]
=============================================================================
