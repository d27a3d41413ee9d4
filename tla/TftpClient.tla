----------------------------- MODULE TftpClient -----------------------------
(***************************************************************************)
(* The Arduino's side of LOAD and SAVE: the TFTP client of src/tftp.cpp    *)
(* and the file loops send_file and recv_file of src/c64iec.ino, with the  *)
(* C64 reduced to the commands it gives and the bytes it takes or offers.  *)
(*                                                                         *)
(* The sketch is single threaded: it takes at most one frame from the      *)
(* Ethernet chip at each ethernet_probe_for_packet() and everything else   *)
(* happens between two such calls. `phase' is the place in the code        *)
(* where it stands.                                                        *)
(***************************************************************************)
EXTENDS TftpLink

CONSTANT LongName   \* names that tftp_build_request refuses (over 20 bytes)

ASSUME LongNameAssumption == LongName \subseteq Name

VARIABLES
    \* src/tftp.cpp
    tftp_request_in_progress,
    tftp_error,
    tftp_blknum,            \* block number of the last packet seen
    tftp_lastblk,           \* block number of the last packet not ignored
    tftp_lastgot,           \* block number of the last block handed out
    tftp_data_available,
    tftp_end_of_data,
    tftp_clear_to_send,
    tftpdata,               \* the one buffer for received and sent packets
    \* src/c64iec.ino
    phase,                  \* place in setup(), loop(), send_file(), recv_file()
    iobuf,                  \* file name, then the bytes for or from the C64
    at_start,               \* send_file: nothing is held back in iobuf[0]
    unsent_data,
    a,                      \* recv_file: bytes collected in iobuf
    eoi,
    \* the C64
    job,                    \* the command it last gave
    got,                    \* LOAD: the bytes it has received
    given,                  \* SAVE: how many bytes it has given
    outcome                 \* what it has been told

tftpVars == <<tftp_request_in_progress, tftp_error, tftp_blknum, tftp_lastblk,
              tftp_lastgot, tftp_data_available, tftp_end_of_data,
              tftp_clear_to_send, tftpdata>>
loopVars == <<phase, iobuf, at_start, unsent_data, a, eoi>>
c64Vars == <<job, got, given, outcome>>
clientVars == <<tftpVars, loopVars, c64Vars>>

NoJob == [cmd |-> "none"]
LoadJob == [cmd : {"load"}, name : Name]
SaveJob == [cmd : {"save"}, name : Name, data : Seq(Byte)]

BufIdx == 0 .. BlkSize + HdrLen - 1
IoIdx == 0 .. BlkSize

TftpTypeOK ==
    /\ tftp_request_in_progress \in {"NORQ", "RRQ", "WRQ"}
    /\ tftp_error \in BOOLEAN
    /\ tftp_blknum \in BlkNum
    /\ tftp_lastblk \in BlkNum
    /\ tftp_lastgot \in BlkNum
    /\ tftp_data_available \in 0 .. BlkSize
    /\ tftp_end_of_data \in BOOLEAN
    /\ tftp_clear_to_send \in BOOLEAN
    /\ tftpdata \in [BufIdx -> Octet]

LoopTypeOK ==
    /\ phase \in {"setup", "loop", "probe", "block", "send", "recv", "byte",
                  "put", "putEmpty"}
    /\ iobuf \in [IoIdx -> Octet]
    /\ at_start \in BOOLEAN
    /\ unsent_data \in 0 .. BlkSize
    /\ a \in 0 .. BlkSize
    /\ eoi \in BOOLEAN

C64TypeOK ==
    /\ job \in {NoJob} \cup LoadJob \cup SaveJob
    /\ got \in Seq(Octet)
    /\ given \in Nat
    /\ outcome \in {"none", "busy", "eoi", "error", "saved", "aborted"}

ClientTypeOK == TftpTypeOK /\ LoopTypeOK /\ C64TypeOK

(* The static initialisers, and clear_iobuf() in setup(). *)
ClientInit ==
    /\ tftp_request_in_progress = "NORQ"
    /\ tftp_error = FALSE
    /\ tftp_blknum = 0
    /\ tftp_lastblk = BlkMod - 1
    /\ tftp_lastgot = 0
    /\ tftp_data_available = 0
    /\ tftp_end_of_data = FALSE
    /\ tftp_clear_to_send = FALSE
    /\ tftpdata = [i \in BufIdx |-> Stale]
    /\ phase = "loop"
    /\ iobuf = [i \in IoIdx |-> Stale]
    /\ at_start = TRUE
    /\ unsent_data = 0
    /\ a = 0
    /\ eoi = FALSE
    /\ job = NoJob
    /\ got = <<>>
    /\ given = 0
    /\ outcome = "none"
-----------------------------------------------------------------------------
(* C memory *)

Memcpy(buf, off, src) ==
    [i \in DOMAIN buf |-> IF i \in off .. off + Len(src) - 1
                          THEN src[i - off + 1] ELSE buf[i]]
Slice(buf, off, n) == [i \in 1 .. n |-> buf[off + i - 1]]

(* tftp_build_ack and tftp_send_data write their header over tftpdata. *)
WithHeader(buf) == [i \in DOMAIN buf |-> IF i < HdrLen THEN Stale ELSE buf[i]]

-----------------------------------------------------------------------------
(* src/tftp.cpp *)

(* An OACK is acknowledged as block 0 whenever no SAVE is in progress,     *)
(* also when nothing is.                                                   *)
RecvOack(p) ==
    /\ p.type = "OACK"
    /\ tftp_request_in_progress # "WRQ"
    /\ tftpdata' = WithHeader(tftpdata)
    /\ toServer' = Append(toServer, ACK(0))
    /\ UNCHANGED <<tftp_request_in_progress, tftp_error, tftp_data_available,
                   tftp_end_of_data, tftp_clear_to_send>>

RecvData(p) ==
    /\ p.type = "DATA"
    /\ tftp_request_in_progress = "RRQ"
    /\ tftpdata' = Memcpy(tftpdata, 0, p.data)
    /\ tftp_data_available' = Len(p.data)
    /\ tftp_end_of_data' = (tftp_end_of_data \/ Len(p.data) # BlkSize)
    /\ UNCHANGED <<tftp_request_in_progress, tftp_error, tftp_clear_to_send,
                   toServer>>

(* Mutant: only an ACK clears the way to send, not the OACK. *)
RecvAckOnly(p) ==
    /\ p.type = "ACK"
    /\ tftp_request_in_progress = "WRQ"
    /\ tftp_clear_to_send' = TRUE
    /\ UNCHANGED <<tftp_request_in_progress, tftp_error, tftp_data_available,
                   tftp_end_of_data, tftpdata, toServer>>

RecvAck(p) ==
    /\ p.type \in {"ACK", "OACK"}
    /\ tftp_request_in_progress = "WRQ"
    /\ tftp_clear_to_send' = TRUE
    /\ UNCHANGED <<tftp_request_in_progress, tftp_error, tftp_data_available,
                   tftp_end_of_data, tftpdata, toServer>>

RecvError(p) ==
    /\ p.type = "ERR"
    /\ tftp_error' = TRUE
    /\ tftp_request_in_progress' = "NORQ"
    /\ UNCHANGED <<tftp_data_available, tftp_end_of_data, tftp_clear_to_send,
                   tftpdata, toServer>>

RecvOther(p) ==
    /\ \/ p.type = "DATA" /\ tftp_request_in_progress # "RRQ"
       \/ p.type = "ACK" /\ tftp_request_in_progress # "WRQ"
    /\ UNCHANGED <<tftp_request_in_progress, tftp_error, tftp_data_available,
                   tftp_end_of_data, tftp_clear_to_send, tftpdata, toServer>>

(* The block number is stored before the packet is recognised as a repeat  *)
(* of the last one and ignored.                                            *)
tftp_recv_packet(p) ==
    /\ tftp_blknum' = p.blk
    /\ tftp_lastblk' = p.blk
    /\ \/ /\ tftp_lastblk = p.blk
          /\ UNCHANGED <<tftp_request_in_progress, tftp_error,
                         tftp_data_available, tftp_end_of_data,
                         tftp_clear_to_send, tftpdata, toServer>>
       \/ /\ tftp_lastblk # p.blk
          /\ \/ RecvOack(p) \/ RecvData(p) \/ RecvAck(p) \/ RecvError(p)
             \/ RecvOther(p)
    /\ UNCHANGED tftp_lastgot

(* ethernet_probe_for_packet() when a frame is waiting; without one it     *)
(* changes nothing.                                                        *)
Probe ==
    /\ toClient # <<>>
    /\ toClient' = Tail(toClient)
    /\ tftp_recv_packet(Head(toClient))

(* tftp_send_rrq, tftp_send_wrq and tftp_build_request: no request is sent *)
(* while another is in progress, or for a name that is too long.           *)
CanRequest(n) == tftp_request_in_progress = "NORQ" /\ n \notin LongName

SendRequest(type, req) ==
    IF CanRequest(req.name)
    THEN /\ tftp_request_in_progress' = type
         /\ tftpdata' = [i \in BufIdx |-> Stale]
         /\ toServer' = Append(toServer, req)
    ELSE UNCHANGED <<tftp_request_in_progress, tftpdata, toServer>>

tftp_get_file(n) ==
    /\ tftp_data_available' = 0
    /\ tftp_end_of_data' = FALSE
    /\ tftp_lastgot' = 0
    /\ tftp_error' = FALSE
    /\ tftp_lastblk' = BlkMod - 1
    /\ SendRequest("RRQ", RRQ(n))
    /\ UNCHANGED <<tftp_blknum, tftp_clear_to_send>>

tftp_put_file(n) ==
    /\ tftp_clear_to_send' = FALSE
    /\ tftp_error' = FALSE
    /\ tftp_lastblk' = BlkMod - 1
    /\ SendRequest("WRQ", WRQ(n))
    /\ UNCHANGED <<tftp_blknum, tftp_lastgot, tftp_data_available,
                   tftp_end_of_data>>

(* Mutant: the test of tftp_lastgot is missing. *)
NothingAvailable == tftp_data_available = 0 /\ ~tftp_end_of_data

(* The condition under which tftp_get_block returns without doing anything. *)
NothingNew ==
    \/ tftp_data_available = 0 /\ ~tftp_end_of_data
    \/ tftp_lastgot # 0 /\ tftp_lastgot >= tftp_blknum

(* Mutant: the block is copied over the byte held back in iobuf[0]. *)
GetBlockNoOffset(off) ==
    /\ iobuf' = Memcpy(iobuf, 0, Slice(tftpdata, 0, tftp_data_available))
    /\ unsent_data' = tftp_data_available
    /\ tftp_lastgot' = tftp_blknum
    /\ tftpdata' = WithHeader(tftpdata)
    /\ toServer' = Append(toServer, ACK(tftp_blknum))
    /\ tftp_request_in_progress' =
         IF tftp_end_of_data THEN "NORQ" ELSE tftp_request_in_progress
    /\ UNCHANGED <<toClient, tftp_error, tftp_blknum, tftp_lastblk,
                   tftp_data_available, tftp_end_of_data, tftp_clear_to_send>>

(* Mutant: the acknowledgement is built in tftpdata before the copy. *)
GetBlockAckFirst(off) ==
    /\ iobuf' = Memcpy(iobuf, off, Slice(WithHeader(tftpdata), 0, tftp_data_available))
    /\ unsent_data' = tftp_data_available
    /\ tftp_lastgot' = tftp_blknum
    /\ tftpdata' = WithHeader(tftpdata)
    /\ toServer' = Append(toServer, ACK(tftp_blknum))
    /\ tftp_request_in_progress' =
         IF tftp_end_of_data THEN "NORQ" ELSE tftp_request_in_progress
    /\ UNCHANGED <<toClient, tftp_error, tftp_blknum, tftp_lastblk,
                   tftp_data_available, tftp_end_of_data, tftp_clear_to_send>>

(* tftp_get_block when there is a block to hand out: it is copied, then    *)
(* acknowledged from the same buffer. tftp_data_available stays as it is.  *)
tftp_get_block(off) ==
    /\ iobuf' = Memcpy(iobuf, off, Slice(tftpdata, 0, tftp_data_available))
    /\ unsent_data' = tftp_data_available
    /\ tftp_lastgot' = tftp_blknum
    /\ tftpdata' = WithHeader(tftpdata)
    /\ toServer' = Append(toServer, ACK(tftp_blknum))
    /\ tftp_request_in_progress' =
         IF tftp_end_of_data THEN "NORQ" ELSE tftp_request_in_progress
    /\ UNCHANGED <<toClient, tftp_error, tftp_blknum, tftp_lastblk,
                   tftp_data_available, tftp_end_of_data, tftp_clear_to_send>>

(* Mutant: tftp_clear_to_send stays set. *)
PutBlockKeepClear(n) ==
    /\ tftp_clear_to_send
    /\ tftpdata' = WithHeader(Memcpy(tftpdata, HdrLen, Slice(iobuf, 0, n)))
    /\ toServer' = Append(toServer, DATA(NextBlk(tftp_blknum), Slice(iobuf, 0, n)))
    /\ tftp_request_in_progress' =
         IF n # BlkSize THEN "NORQ" ELSE tftp_request_in_progress
    /\ UNCHANGED <<toClient, tftp_error, tftp_blknum, tftp_lastblk, tftp_lastgot,
                   tftp_data_available, tftp_end_of_data, tftp_clear_to_send>>

(* Mutant: the block goes out under the number that was acknowledged. *)
PutBlockSameNumber(n) ==
    /\ tftp_clear_to_send
    /\ tftp_clear_to_send' = FALSE
    /\ tftpdata' = WithHeader(Memcpy(tftpdata, HdrLen, Slice(iobuf, 0, n)))
    /\ toServer' = Append(toServer, DATA(tftp_blknum, Slice(iobuf, 0, n)))
    /\ tftp_request_in_progress' =
         IF n # BlkSize THEN "NORQ" ELSE tftp_request_in_progress
    /\ UNCHANGED <<toClient, tftp_error, tftp_blknum, tftp_lastblk, tftp_lastgot,
                   tftp_data_available, tftp_end_of_data>>

(* tftp_put_block of the first n bytes of iobuf, once the last block has   *)
(* been acknowledged.                                                      *)
tftp_put_block(n) ==
    /\ tftp_clear_to_send
    /\ tftp_clear_to_send' = FALSE
    /\ tftpdata' = WithHeader(Memcpy(tftpdata, HdrLen, Slice(iobuf, 0, n)))
    /\ toServer' = Append(toServer, DATA(NextBlk(tftp_blknum), Slice(iobuf, 0, n)))
    /\ tftp_request_in_progress' =
         IF n # BlkSize THEN "NORQ" ELSE tftp_request_in_progress
    /\ UNCHANGED <<toClient, tftp_error, tftp_blknum, tftp_lastblk, tftp_lastgot,
                   tftp_data_available, tftp_end_of_data>>
-----------------------------------------------------------------------------
(* src/c64iec.ino *)

(* loop() polls the Ethernet chip while the C64 asks for nothing. *)
LoopProbe ==
    /\ phase = "loop"
    /\ Probe
    /\ UNCHANGED <<loopVars, c64Vars>>

(* LOAD: handle_open leaves the name in iobuf, handle_talk calls           *)
(* send_file, which requests the file and enters its loop only if a RRQ is *)
(* in progress; otherwise the C64 gets no byte at all.                     *)
StartLoad(n) ==
    /\ phase = "loop"
    /\ tftp_get_file(n)
    /\ phase' = IF CanRequest(n) THEN "probe" ELSE "loop"
    /\ outcome' = IF CanRequest(n) THEN "busy" ELSE "error"
    /\ job' = [cmd |-> "load", name |-> n]
    /\ got' = <<>>
    /\ given' = 0
    /\ iobuf' = [i \in IoIdx |-> Stale]
    /\ at_start' = TRUE
    /\ eoi' = FALSE
    /\ unsent_data' = 0
    /\ UNCHANGED <<toClient, a>>

(* send_file, inner loop: poll, then see what the packet has brought. *)
GetProbe ==
    /\ phase = "probe"
    /\ Probe
    /\ phase' = "block"
    /\ UNCHANGED <<iobuf, at_start, unsent_data, a, eoi, c64Vars>>

GetError ==
    /\ phase = "block"
    /\ tftp_error
    /\ phase' = "loop"
    /\ outcome' = "error"
    /\ UNCHANGED <<linkVars, tftpVars, iobuf, at_start, unsent_data, a, eoi,
                   job, got, given>>

GetNothing ==
    /\ phase = "block"
    /\ ~tftp_error
    /\ NothingNew
    /\ phase' = "probe"
    /\ UNCHANGED <<linkVars, tftpVars, iobuf, at_start, unsent_data, a, eoi,
                   c64Vars>>

GetBlock ==
    /\ phase = "block"
    /\ ~tftp_error
    /\ ~NothingNew
    /\ tftp_get_block(IF at_start THEN 0 ELSE 1)
    /\ eoi' = tftp_end_of_data
    /\ phase' = "send"
    /\ UNCHANGED <<at_start, a, c64Vars>>

(* Mutant: the last byte is taken without regard to the held-back one. *)
OutgoingNoHeld ==
    LET off == IF at_start THEN 0 ELSE 1
        n == IF unsent_data > 0 THEN unsent_data - 1 + off ELSE 0
        last == IF unsent_data = 0 THEN 0 ELSE unsent_data - 1
    IN  Slice(iobuf, 0, n) \o (IF eoi THEN <<iobuf[last]>> ELSE <<>>)

(* The bytes send_file hands to put_byte for the block it has fetched. The *)
(* last byte of a full block is held back in iobuf[0] until it is known    *)
(* whether more follows; without a held byte and without data (an empty    *)
(* file) iobuf[0] is still the first byte of the file name.                *)
Outgoing ==
    LET off == IF at_start THEN 0 ELSE 1
        n == IF unsent_data > 0 THEN unsent_data - 1 + off ELSE 0
        last == IF unsent_data = 0 THEN 0
                ELSE IF at_start THEN unsent_data - 1 ELSE unsent_data
    IN  Slice(iobuf, 0, n) \o (IF eoi THEN <<iobuf[last]>> ELSE <<>>)

(* The for loop of send_file and what follows it. No packet is looked at   *)
(* meanwhile.                                                              *)
SendBlock ==
    /\ phase = "send"
    /\ got' = got \o Outgoing
    /\ unsent_data' = 0
    /\ \/ /\ eoi
          /\ phase' = "loop"
          /\ outcome' = "eoi"
          /\ UNCHANGED <<iobuf, at_start>>
       \/ /\ ~eoi
          /\ phase' = "probe"
          /\ iobuf' = [iobuf EXCEPT ![0] =
                         iobuf[IF at_start THEN BlkSize - 1 ELSE BlkSize]]
          /\ at_start' = FALSE
          /\ UNCHANGED outcome
    /\ UNCHANGED <<linkVars, tftpVars, a, eoi, job, given>>

(* SAVE: handle_listen calls recv_file, which does not look at whether     *)
(* the request was sent.                                                   *)
StartSave(n, d) ==
    /\ phase = "loop"
    /\ tftp_put_file(n)
    /\ phase' = "recv"
    /\ outcome' = "busy"
    /\ job' = [cmd |-> "save", name |-> n, data |-> d]
    /\ got' = <<>>
    /\ given' = 0
    /\ iobuf' = [i \in IoIdx |-> Stale]
    /\ a' = 0
    /\ eoi' = FALSE
    /\ UNCHANGED <<toClient, at_start, unsent_data>>

(* The C64 pulls ATN before the last byte: recv_file returns 0 and leaves  *)
(* the request in progress.                                                *)
RecvAbort ==
    /\ phase = "recv"
    /\ phase' = "loop"
    /\ outcome' = "aborted"
    /\ UNCHANGED <<linkVars, tftpVars, iobuf, at_start, unsent_data, a, eoi,
                   job, got, given>>

(* One poll before each byte, which may or may not find a frame. *)
RecvProbe ==
    /\ phase = "recv"
    /\ \/ Probe
       \/ UNCHANGED <<linkVars, tftpVars>>
    /\ phase' = "byte"
    /\ UNCHANGED <<iobuf, at_start, unsent_data, a, eoi, c64Vars>>

(* Mutant: a full buffer is not sent before the end of the file. *)
RecvByteNoFlush ==
    LET last == given + 1 = Len(job.data)
        alive == tftp_request_in_progress = "WRQ" /\ ~tftp_error
    IN  /\ phase = "byte"
        /\ given' = given + 1
        /\ iobuf' = [iobuf EXCEPT ![a] = job.data[given + 1]]
        /\ a' = a + 1
        /\ eoi' = last
        /\ phase' = IF ~alive THEN "loop" ELSE IF last THEN "put" ELSE "recv"
        /\ outcome' = IF alive THEN outcome ELSE "error"
        /\ UNCHANGED <<linkVars, tftpVars, at_start, unsent_data, job, got>>

(* get_byte, and the check whether the request is still alive after it:    *)
(* if not, recv_file returns 0 and the bus lines are released.             *)
RecvByte ==
    LET last == given + 1 = Len(job.data)
        alive == tftp_request_in_progress = "WRQ" /\ ~tftp_error
    IN  /\ phase = "byte"
        /\ given' = given + 1
        /\ iobuf' = [iobuf EXCEPT ![a] = job.data[given + 1]]
        /\ a' = a + 1
        /\ eoi' = last
        /\ phase' = IF ~alive THEN "loop"
                    ELSE IF a + 1 = BlkSize \/ last THEN "put" ELSE "recv"
        /\ outcome' = IF alive THEN outcome ELSE "error"
        /\ UNCHANGED <<linkVars, tftpVars, at_start, unsent_data, job, got>>

(* while(!tftp_put_block(..)) ethernet_probe_for_packet(): nothing but     *)
(* tftp_clear_to_send ends this loop.                                      *)
PutProbe ==
    /\ phase \in {"put", "putEmpty"}
    /\ ~tftp_clear_to_send
    /\ Probe
    /\ UNCHANGED <<loopVars, c64Vars>>

(* Mutant: a last block that is full is not followed by an empty one. *)
PutBlockNoEmpty ==
    /\ phase = "put"
    /\ tftp_put_block(a)
    /\ a' = 0
    /\ phase' = IF eoi THEN "loop" ELSE "recv"
    /\ outcome' = IF eoi THEN "saved" ELSE outcome
    /\ UNCHANGED <<iobuf, at_start, unsent_data, eoi, job, got, given>>

PutBlock ==
    /\ phase = "put"
    /\ tftp_put_block(a)
    /\ IF eoi /\ a = BlkSize
       THEN phase' = "putEmpty" /\ UNCHANGED <<a, outcome>>
       ELSE /\ a' = 0
            /\ phase' = IF eoi THEN "loop" ELSE "recv"
            /\ outcome' = IF eoi THEN "saved" ELSE outcome
    /\ UNCHANGED <<iobuf, at_start, unsent_data, eoi, job, got, given>>

(* A file whose length is a multiple of the block size ends with an empty  *)
(* block.                                                                  *)
PutEmpty ==
    /\ phase = "putEmpty"
    /\ tftp_put_block(0)
    /\ a' = 0
    /\ phase' = "loop"
    /\ outcome' = "saved"
    /\ UNCHANGED <<iobuf, at_start, unsent_data, eoi, job, got, given>>

(* The Arduino is reset while idle or in the middle of a command: memory   *)
(* and the receive buffer of the Ethernet chip are initialised.            *)
ClientReset ==
    /\ tftp_request_in_progress' = "NORQ"
    /\ tftp_error' = FALSE
    /\ tftp_blknum' = 0
    /\ tftp_lastblk' = BlkMod - 1
    /\ tftp_lastgot' = 0
    /\ tftp_data_available' = 0
    /\ tftp_end_of_data' = FALSE
    /\ tftp_clear_to_send' = FALSE
    /\ tftpdata' = [i \in BufIdx |-> Stale]
    /\ phase' = "setup"
    /\ iobuf' = [i \in IoIdx |-> Stale]
    /\ at_start' = TRUE
    /\ unsent_data' = 0
    /\ a' = 0
    /\ eoi' = FALSE
    /\ toClient' = <<>>
    /\ outcome' = IF outcome = "busy" THEN "aborted" ELSE outcome
    /\ UNCHANGED <<toServer, job, got, given>>

(* Mutant: setup() handles TFTP packets as loop() does. *)
SetupAnswer ==
    /\ phase = "setup"
    /\ Probe
    /\ UNCHANGED <<loopVars, c64Vars>>

(* setup() takes frames from the chip while it waits for its DHCP lease    *)
(* and for the server's MAC address; a TFTP packet is dropped there.       *)
SetupDrop ==
    /\ phase = "setup"
    /\ toClient # <<>>
    /\ toClient' = Tail(toClient)
    /\ UNCHANGED <<toServer, clientVars>>

SetupDone ==
    /\ phase = "setup"
    /\ phase' = "loop"
    /\ UNCHANGED <<linkVars, tftpVars, iobuf, at_start, unsent_data, a, eoi,
                   c64Vars>>
=============================================================================
