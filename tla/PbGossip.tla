------------------------------ MODULE PbGossip ------------------------------
(***************************************************************************)
(* The messages of proto/gossip/conn.pb.go, proto/gossip/gossip.pb.go: the *)
(* packets of a connection and the handshake of a node.  For each message  *)
(* the fields its generated functions write (from the last byte to the     *)
(* first), count and read; see PbFields.                                   *)
(***************************************************************************)
EXTENDS PbFields

PacketPing_Marshal == <<Unknown>>
PacketPing_Size == <<Unknown>>
PacketPing_Unmarshal == <<Unknown>>

PacketPong_Marshal == <<Unknown>>
PacketPong_Size == <<Unknown>>
PacketPong_Unmarshal == <<Unknown>>

PacketMsg_Marshal == <<Unknown, Bytes("Data", 26), Bool("EOF", 16), Varint("ChannelID", 8)>>
PacketMsg_Size == <<Varint("ChannelID", 1), Bool("EOF", 2), Bytes("Data", 1), Unknown>>
PacketMsg_Unmarshal == <<Int32("ChannelID", 1), Bool("EOF", 2), Bytes("Data", 3), Unknown>>

Packet_Marshal == <<Unknown, OneOf("Sum")>>
Packet_Size == <<OneOf("Sum"), Unknown>>
Packet_Unmarshal ==
    <<OneOfMessage("Sum", 1, gossip("Packet_PacketPing"), gossip("PacketPing")),
      OneOfMessage("Sum", 2, gossip("Packet_PacketPong"), gossip("PacketPong")),
      OneOfMessage("Sum", 3, gossip("Packet_PacketMsg"), gossip("PacketMsg")), Unknown>>

Packet_PacketPing_Marshal == <<Pointer("PacketPing", 10, gossip("PacketPing"))>>
Packet_PacketPing_Size == <<Pointer("PacketPing", 1, gossip("PacketPing"))>>

Packet_PacketPong_Marshal == <<Pointer("PacketPong", 18, gossip("PacketPong"))>>
Packet_PacketPong_Size == <<Pointer("PacketPong", 1, gossip("PacketPong"))>>

Packet_PacketMsg_Marshal == <<Pointer("PacketMsg", 26, gossip("PacketMsg"))>>
Packet_PacketMsg_Size == <<Pointer("PacketMsg", 1, gossip("PacketMsg"))>>

AuthSigMessage_Marshal ==
    <<Unknown, Bytes("Sig", 18), Embedded("PubKey", 10, crypto("PublicKey"))>>
AuthSigMessage_Size ==
    <<Embedded("PubKey", 1, crypto("PublicKey")), Bytes("Sig", 1), Unknown>>
AuthSigMessage_Unmarshal ==
    <<Embedded("PubKey", 1, crypto("PublicKey")), Bytes("Sig", 2), Unknown>>

NetAddress_Marshal == <<Varint("Port", 24), Bytes("IP", 18), Bytes("ID", 10)>>
NetAddress_Size == <<Bytes("ID", 1), Bytes("IP", 1), Varint("Port", 1)>>
NetAddress_Unmarshal == <<Bytes("ID", 1), Bytes("IP", 2), Uint32("Port", 3)>>

NodeInfo_Marshal ==
    <<Embedded("PubKey", 42, crypto("PublicKey")), Bytes("Channels", 34),
      Bytes("Network", 26), Bytes("ListenAddr", 18), Bytes("NodeID", 10)>>
NodeInfo_Size ==
    <<Bytes("NodeID", 1), Bytes("ListenAddr", 1), Bytes("Network", 1),
      Bytes("Channels", 1), Embedded("PubKey", 1, crypto("PublicKey"))>>
NodeInfo_Unmarshal ==
    <<Bytes("NodeID", 1), Bytes("ListenAddr", 2), Bytes("Network", 3),
      Bytes("Channels", 4), Embedded("PubKey", 5, crypto("PublicKey"))>>

Schema ==
    [PacketPing |-> [marshal |-> PacketPing_Marshal, size |-> PacketPing_Size,
        unmarshal |-> PacketPing_Unmarshal, wrapper |-> FALSE],
     PacketPong |-> [marshal |-> PacketPong_Marshal, size |-> PacketPong_Size,
        unmarshal |-> PacketPong_Unmarshal, wrapper |-> FALSE],
     PacketMsg |-> [marshal |-> PacketMsg_Marshal, size |-> PacketMsg_Size,
        unmarshal |-> PacketMsg_Unmarshal, wrapper |-> FALSE],
     Packet |-> [marshal |-> Packet_Marshal, size |-> Packet_Size,
        unmarshal |-> Packet_Unmarshal, wrapper |-> FALSE],
     Packet_PacketPing |-> [marshal |-> Packet_PacketPing_Marshal, size |-> Packet_PacketPing_Size,
        unmarshal |-> <<>>, wrapper |-> TRUE],
     Packet_PacketPong |-> [marshal |-> Packet_PacketPong_Marshal, size |-> Packet_PacketPong_Size,
        unmarshal |-> <<>>, wrapper |-> TRUE],
     Packet_PacketMsg |-> [marshal |-> Packet_PacketMsg_Marshal, size |-> Packet_PacketMsg_Size,
        unmarshal |-> <<>>, wrapper |-> TRUE],
     AuthSigMessage |-> [marshal |-> AuthSigMessage_Marshal, size |-> AuthSigMessage_Size,
        unmarshal |-> AuthSigMessage_Unmarshal, wrapper |-> FALSE],
     NetAddress |-> [marshal |-> NetAddress_Marshal, size |-> NetAddress_Size,
        unmarshal |-> NetAddress_Unmarshal, wrapper |-> FALSE],
     NodeInfo |-> [marshal |-> NodeInfo_Marshal, size |-> NodeInfo_Size,
        unmarshal |-> NodeInfo_Unmarshal, wrapper |-> FALSE]]
=============================================================================
