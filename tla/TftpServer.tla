----------------------------- MODULE TftpServer -----------------------------
(***************************************************************************)
(* The daemon: TFTP of src/tools/tftp.rb with the file handling of         *)
(* DeviceDir and DeviceD64 (src/tools/device.rb).                          *)
(*                                                                         *)
(* TFTP.run serves one request at a time: it takes a datagram, makes a     *)
(* TFTP object for it, stays in that object's packet loop until the        *)
(* transfer ends, then closes the socket and opens another one. Any kind   *)
(* of packet is accepted in any state of the loop.                         *)
(***************************************************************************)
EXTENDS TftpLink

CONSTANTS
    RoName,     \* names on read-only devices (a D64 image, a listing)
    NoFile,     \* what the disk holds for a name without a file
    Disk0       \* the files before the first command

ASSUME RoNameAssumption == RoName \subseteq Name
ASSUME Disk0Assumption == Disk0 \in [Name -> Seq(Byte) \cup {NoFile}]
ASSUME NoFileAssumption == NoFile \notin Seq(Octet)

VARIABLES
    status,         \* waiting for a request, an ACK, or DATA; or crashed
    last_packet,    \* @last_packet: the next ACK ends the transfer
    send_empty,     \* @send_empty: an empty block is still to be sent
    file,           \* @file of the device: mode, name, contents, position
    disk,           \* the files, without what Ruby has not written out yet
    unwritten       \* bytes of a file still in Ruby's write buffer

objectVars == <<status, last_packet, send_empty>>
deviceVars == <<file, disk, unwritten>>
serverVars == <<objectVars, deviceVars>>

FileHandle == [mode : {"closed", "read", "write"}, name : Name,
               data : Seq(Octet), pos : Nat]

ServerTypeOK ==
    /\ status \in {"idle", "wait_ack", "wait_data", "crashed"}
    /\ last_packet \in BOOLEAN
    /\ send_empty \in BOOLEAN
    /\ file \in FileHandle
    /\ disk \in [Name -> Seq(Octet) \cup {NoFile}]
    /\ unwritten \in [Name -> Seq(Octet)]

ServerInit ==
    /\ status = "idle"
    /\ last_packet = FALSE
    /\ send_empty = FALSE
    /\ \E n \in Name :
         file = [mode |-> "closed", name |-> n, data |-> <<>>, pos |-> 0]
    /\ disk = Disk0
    /\ unwritten = [n \in Name |-> <<>>]
-----------------------------------------------------------------------------
Take == toServer # <<>> /\ toServer' = Tail(toServer)

(* Mutant: one TFTP object serves every request. *)
EndTransferSameObject(waiting) ==
    /\ status' = "idle"
    /\ \E k \in 0 .. Len(waiting) :
         toServer' = SubSeq(waiting, k + 1, Len(waiting))
    /\ UNCHANGED <<last_packet, send_empty>>

(* The transfer is over: the next packet meets a fresh TFTP object, and    *)
(* what has arrived on the closed socket (any number of the waiting        *)
(* packets) is gone.                                                       *)
EndTransfer(waiting) ==
    /\ status' = "idle"
    /\ last_packet' = FALSE
    /\ send_empty' = FALSE
    /\ \E k \in 0 .. Len(waiting) :
         toServer' = SubSeq(waiting, k + 1, Len(waiting))

(* An exception nobody rescues ends the process. *)
Crash ==
    /\ status' = "crashed"
    /\ Take
    /\ UNCHANGED <<last_packet, send_empty, deviceVars, toClient>>

(* packet_rrq: the client always asks for blksize, so the answer is an     *)
(* OACK, or error 1. The object's flags stay as they are.                  *)
ServeRrq ==
    /\ status # "crashed"
    /\ toServer # <<>>
    /\ LET p == Head(toServer) IN
         /\ p.type = "RRQ"
         /\ \/ /\ disk[p.name] # NoFile
               /\ file' = [mode |-> "read", name |-> p.name,
                           data |-> disk[p.name], pos |-> 0]
               /\ toClient' = Append(toClient, Reply("OACK", 0, <<>>))
               /\ status' = "wait_ack"
               /\ Take
               /\ UNCHANGED <<last_packet, send_empty>>
            \/ /\ disk[p.name] = NoFile
               /\ toClient' = Append(toClient, Reply("ERR", 1, <<>>))
               /\ EndTransfer(Tail(toServer))
               /\ UNCHANGED file
    /\ UNCHANGED <<disk, unwritten>>

(* packet_wrq: an existing file is unlinked and an empty one created; what *)
(* Ruby still buffers for the old one can only reach the unlinked file.    *)
ServeWrq ==
    /\ status # "crashed"
    /\ toServer # <<>>
    /\ LET p == Head(toServer) IN
         /\ p.type = "WRQ"
         /\ \/ /\ p.name \notin RoName
               /\ file' = [mode |-> "write", name |-> p.name,
                           data |-> <<>>, pos |-> 0]
               /\ disk' = [disk EXCEPT ![p.name] = <<>>]
               /\ unwritten' = [unwritten EXCEPT ![p.name] = <<>>]
               /\ toClient' = Append(toClient, Reply("OACK", 0, <<>>))
               /\ status' = "wait_data"
               /\ Take
               /\ UNCHANGED <<last_packet, send_empty>>
            \/ /\ p.name \in RoName
               /\ toClient' = Append(toClient, Reply("ERR", 1, <<>>))
               /\ EndTransfer(Tail(toServer))
               /\ UNCHANGED deviceVars

(* send_data: the next block of the file, or the empty one that ends a     *)
(* file of full blocks.                                                    *)
Remaining == Len(file.data) - file.pos
BlockLen == IF Remaining < BlkSize THEN Remaining ELSE BlkSize

(* Mutant: a file that ends with a full block gets no empty one. *)
SendDataNoEmpty(n) ==
    /\ toClient' = Append(toClient, Reply("DATA", n,
                      SubSeq(file.data, file.pos + 1, file.pos + BlockLen)))
    /\ last_packet' = (Remaining <= BlkSize)
    /\ send_empty' = FALSE
    /\ file' = [file EXCEPT !.pos = @ + BlockLen]
    /\ status' = "wait_ack"

SendData(n) ==
    /\ IF send_empty
       THEN /\ toClient' = Append(toClient, Reply("DATA", n, <<>>))
            /\ last_packet' = TRUE
            /\ send_empty' = FALSE
            /\ UNCHANGED file
       ELSE /\ toClient' = Append(toClient, Reply("DATA", n,
                             SubSeq(file.data, file.pos + 1, file.pos + BlockLen)))
            /\ last_packet' = (BlockLen < BlkSize)
            /\ send_empty' = (Remaining = BlkSize)
            /\ file' = [file EXCEPT !.pos = @ + BlockLen]
    /\ status' = "wait_ack"

(* close writes out what is buffered for a file open for writing. *)
CloseFile ==
    /\ file' = [file EXCEPT !.mode = "closed"]
    /\ IF file.mode = "write"
       THEN /\ disk' = [disk EXCEPT ![file.name] = @ \o unwritten[file.name]]
            /\ unwritten' = [unwritten EXCEPT ![file.name] = <<>>]
       ELSE UNCHANGED <<disk, unwritten>>

(* packet_ack: any acknowledgement sends the block after it, whatever its  *)
(* number. Without a request first there is no device, and a file opened   *)
(* for writing cannot be read: either way an exception.                    *)
ServeAck ==
    /\ status # "crashed"
    /\ toServer # <<>>
    /\ Head(toServer).type = "ACK"
    /\ \/ /\ status # "idle"
          /\ last_packet
          /\ CloseFile
          /\ EndTransfer(Tail(toServer))
          /\ UNCHANGED toClient
       \/ /\ status # "idle"
          /\ ~last_packet
          /\ send_empty \/ file.mode = "read"
          /\ SendData(NextBlk(Head(toServer).blk))
          /\ Take
          /\ UNCHANGED <<disk, unwritten>>
       \/ /\ status = "idle" \/ (~last_packet /\ ~send_empty /\ file.mode # "read")
          /\ Crash

(* packet_data: the payload is written and acknowledged; the packet is     *)
(* taken for the last one when all of it, header included, is shorter than *)
(* a block.                                                                *)
IsLast(payload) == HdrLen + Len(payload) < BlkSize

ServeData ==
    /\ status # "crashed"
    /\ toServer # <<>>
    /\ Head(toServer).type = "DATA"
    /\ LET p == Head(toServer)
           written == unwritten[file.name] \o p.data
       IN
         \/ /\ status # "idle"
            /\ file.mode = "write"
            /\ toClient' = Append(toClient, Reply("ACK", p.blk, <<>>))
            /\ \/ /\ IsLast(p.data)
                  /\ file' = [file EXCEPT !.mode = "closed"]
                  /\ disk' = [disk EXCEPT ![file.name] = @ \o written]
                  /\ unwritten' = [unwritten EXCEPT ![file.name] = <<>>]
                  /\ EndTransfer(Tail(toServer))
               \/ /\ ~IsLast(p.data)
                  /\ unwritten' = [unwritten EXCEPT ![file.name] = written]
                  /\ status' = "wait_data"
                  /\ Take
                  /\ UNCHANGED <<last_packet, send_empty, file, disk>>
         \/ /\ status = "idle" \/ file.mode # "write"
            /\ Crash

(* wait_ack, wait_data: after five seconds without a datagram the transfer *)
(* is given up. The file stays open.                                       *)
ServerTimeout ==
    /\ status \in {"wait_ack", "wait_data"}
    /\ toServer = <<>>
    /\ EndTransfer(<<>>)
    /\ UNCHANGED <<deviceVars, toClient>>

(* Ruby writes a full buffer out, collects an abandoned File object, or    *)
(* closes the open ones as the process exits.                              *)
WriteOut(n) ==
    /\ unwritten[n] # <<>>
    /\ disk' = [disk EXCEPT ![n] = @ \o unwritten[n]]
    /\ unwritten' = [unwritten EXCEPT ![n] = <<>>]
    /\ UNCHANGED <<linkVars, objectVars, file>>
=============================================================================
