------------------------------ MODULE TftpLink ------------------------------
(***************************************************************************)
(* The UDP traffic between the Arduino (src/tftp.cpp) and the daemon       *)
(* c64iecd (src/tools/tftp.rb): the packets, the two directions of the     *)
(* network as FIFO channels, and what the network may do to them.          *)
(*                                                                         *)
(* Both ends use the fixed UDP port 53280 (SRCPORT, TFTP_PORT), so a       *)
(* packet carries no transfer identifier: a packet of an earlier transfer  *)
(* is not told apart from one of the current transfer.                     *)
(***************************************************************************)
EXTENDS Integers, Sequences, FiniteSets

CONSTANTS
    Name,       \* file names, with their device prefix
    Byte,       \* the bytes that files are made of
    Stale,      \* any other byte left in a buffer: a header, a file name
    BlkSize,    \* TFTP_BLKSIZE, 256 in the code
    HdrLen      \* bytes of opcode and block number, 4 in the code

ASSUME StaleAssumption == Stale \notin Byte
ASSUME BlkSizeAssumption == BlkSize \in Nat \ {0}
ASSUME HdrLenAssumption == HdrLen \in 1..BlkSize

VARIABLES
    toServer,   \* datagrams on their way to, or queued at, the daemon's socket
    toClient    \* frames on their way to, or queued in, the ENC28J60

linkVars == <<toServer, toClient>>

Octet == Byte \cup {Stale}

(* Block numbers are uint16_t on the client and two bytes on the wire. *)
BlkMod == 65536
BlkNum == 0 .. BlkMod - 1
NextBlk(n) == (n + 1) % BlkMod

(* The payload of one packet. *)
Block == {d \in Seq(Octet) : Len(d) <= BlkSize}

Request == [type : {"RRQ", "WRQ"}, name : Name]
AckPacket == [type : {"ACK"}, blk : BlkNum]
DataPacket == [type : {"DATA"}, blk : BlkNum, data : Block]
ServerPacket == Request \cup AckPacket \cup DataPacket
ClientPacket == [type : {"OACK", "DATA", "ACK", "ERR"}, blk : BlkNum,
                 data : Block]

RRQ(n) == [type |-> "RRQ", name |-> n]
WRQ(n) == [type |-> "WRQ", name |-> n]
ACK(n) == [type |-> "ACK", blk |-> n]
DATA(n, d) == [type |-> "DATA", blk |-> n, data |-> d]

(* build_packet of tftp.rb puts a block number, or an error code, behind   *)
(* every opcode, OACK included.                                            *)
Reply(t, n, d) == [type |-> t, blk |-> n, data |-> d]

LinkTypeOK ==
    /\ toServer \in Seq(ServerPacket)
    /\ toClient \in Seq(ClientPacket)

LinkInit ==
    /\ toServer = <<>>
    /\ toClient = <<>>

(* A datagram is lost on the way, or dropped by a full receive buffer. *)
LoseToServer ==
    /\ toServer # <<>>
    /\ toServer' = Tail(toServer)
    /\ UNCHANGED toClient

LoseToClient ==
    /\ toClient # <<>>
    /\ toClient' = Tail(toClient)
    /\ UNCHANGED toServer

(* The network delivers a datagram twice in a row. *)
DuplicateToClient ==
    /\ toClient # <<>>
    /\ toClient' = <<Head(toClient)>> \o toClient
    /\ UNCHANGED toServer

DuplicateToServer ==
    /\ toServer # <<>>
    /\ toServer' = <<Head(toServer)>> \o toServer
    /\ UNCHANGED toClient
=============================================================================
