------------------------- MODULE TftpTransferProofs -------------------------
(***************************************************************************)
(* Theorems about TftpTransfer for all names, files, block sizes, bounds   *)
(* and behaviours of the network.                                          *)
(***************************************************************************)
EXTENDS TftpTransfer, SequenceTheorems, TLAPS

(* recv_file's loop: the buffer is never full, nor the file exhausted,     *)
(* when the next byte is taken.                                            *)
LoopInv ==
    /\ phase \in {"recv", "byte"} =>
         job \in SaveJob /\ given < Len(job.data) /\ a < BlkSize
    /\ phase = "put" => job \in SaveJob /\ (eoi \/ given < Len(job.data))

(* The daemon writes only to files that exist. *)
FileInv ==
    /\ file.pos <= Len(file.data)
    /\ file.mode = "write" => disk[file.name] # NoFile
    /\ \A n \in Name : unwritten[n] # <<>> => disk[n] # NoFile

ClientInv == LinkTypeOK /\ ClientTypeOK /\ LoopInv
ServerInv == ServerTypeOK /\ FileInv

Inv == TypeOK /\ LoopInv /\ FileInv
-----------------------------------------------------------------------------
(* Memcpy and Slice stay inside their types. *)

LEMMA MemcpyType ==
    ASSUME NEW I \in SUBSET Int, NEW T, NEW buf \in [I -> T], NEW off \in Int,
           NEW src \in Seq(T)
    PROVE  Memcpy(buf, off, src) \in [I -> T]
BY DEF Memcpy

LEMMA SliceType ==
    ASSUME NEW m \in Nat, NEW T, NEW buf \in [0 .. m -> T],
           NEW off \in Nat, NEW n \in Nat, off + n <= m + 1
    PROVE  /\ Slice(buf, off, n) \in Seq(T)
           /\ Len(Slice(buf, off, n)) = n
BY DEF Slice

LEMMA WithHeaderType ==
    ASSUME NEW buf \in [BufIdx -> Octet]
    PROVE  WithHeader(buf) \in [BufIdx -> Octet]
BY DEF WithHeader, Octet

-----------------------------------------------------------------------------
(* The client's memory and what it sends. *)

LEMMA Sizes ==
    /\ BlkSize \in Nat
    /\ BlkSize > 0
    /\ 0 \in 0 .. BlkSize
    /\ HdrLen \in Nat
    /\ HdrLen > 0
BY BlkSizeAssumption, HdrLenAssumption

LEMMA BlkNumFacts == BlkNum \in SUBSET Nat /\ 0 \in BlkNum /\ BlkMod - 1 \in BlkNum
BY DEF BlkNum, BlkMod

LEMMA NextBlkType ==
    ASSUME NEW n \in BlkNum
    PROVE  NextBlk(n) \in BlkNum
<1>1. n + 1 \in Int /\ BlkMod \in Nat \ {0}
  BY SMTT(30) DEF BlkNum, BlkMod
<1>2. (n + 1) % BlkMod \in 0 .. BlkMod - 1
  BY <1>1
<1>3. QED
  BY SMTT(30), <1>2 DEF NextBlk, BlkNum

LEMMA BlankBuffers ==
    /\ [i \in IoIdx |-> Stale] \in [IoIdx -> Octet]
    /\ [i \in BufIdx |-> Stale] \in [BufIdx -> Octet]
BY DEF Octet

LEMMA RecvPacketType ==
    ASSUME LinkTypeOK, TftpTypeOK, NEW p \in ClientPacket, tftp_recv_packet(p)
    PROVE  TftpTypeOK' /\ toServer' \in Seq(ServerPacket)
<1>1. BlkNum \in SUBSET Nat /\ 0 \in BlkNum /\ BlkMod - 1 \in BlkNum
  BY BlkNumFacts
<1>2. /\ p.blk \in BlkNum
      /\ p.data \in Seq(Octet)
      /\ Len(p.data) \in 0 .. BlkSize
  BY DEF ClientPacket, Block
<1>3. WithHeader(tftpdata) \in [BufIdx -> Octet]
  BY WithHeaderType DEF TftpTypeOK
<1>4. Memcpy(tftpdata, 0, p.data) \in [BufIdx -> Octet]
  BY <1>2, Sizes, MemcpyType DEF TftpTypeOK, BufIdx
<1>5. ACK(0) \in ServerPacket
  BY <1>1 DEF ACK, ServerPacket, AckPacket
<1>6. tftp_blknum' \in BlkNum /\ tftp_lastblk' \in BlkNum /\ tftp_lastgot' \in BlkNum
  BY <1>2 DEF tftp_recv_packet, TftpTypeOK
<1>7. CASE UNCHANGED <<tftp_request_in_progress, tftp_error,
                       tftp_data_available, tftp_end_of_data,
                       tftp_clear_to_send, tftpdata, toServer>>
  BY <1>6, <1>7 DEF TftpTypeOK, LinkTypeOK
<1>8. CASE RecvOack(p)
  BY <1>3, <1>5, <1>6, <1>8 DEF RecvOack, TftpTypeOK, LinkTypeOK
<1>9. CASE RecvData(p)
  BY <1>2, <1>4, <1>6, <1>9 DEF RecvData, TftpTypeOK, LinkTypeOK
<1>10. CASE RecvAck(p)
  BY <1>6, <1>10 DEF RecvAck, TftpTypeOK, LinkTypeOK
<1>11. CASE RecvError(p)
  BY <1>6, <1>11 DEF RecvError, TftpTypeOK, LinkTypeOK
<1>12. CASE RecvOther(p)
  BY <1>6, <1>12 DEF RecvOther, TftpTypeOK, LinkTypeOK
<1>13. QED
  BY <1>7, <1>8, <1>9, <1>10, <1>11, <1>12 DEF tftp_recv_packet

LEMMA ProbeType ==
    ASSUME LinkTypeOK, TftpTypeOK, Probe
    PROVE  LinkTypeOK' /\ TftpTypeOK'
<1>1. Head(toClient) \in ClientPacket /\ Tail(toClient) \in Seq(ClientPacket)
  BY DEF Probe, LinkTypeOK
<1>2. QED
  BY <1>1, RecvPacketType DEF Probe, LinkTypeOK

LEMMA SendRequestType ==
    ASSUME LinkTypeOK, TftpTypeOK,
           NEW type \in {"RRQ", "WRQ"}, NEW req \in Request, SendRequest(type, req)
    PROVE  /\ tftp_request_in_progress' \in {"NORQ", "RRQ", "WRQ"}
           /\ tftpdata' \in [BufIdx -> Octet]
           /\ toServer' \in Seq(ServerPacket)
<1>1. CASE CanRequest(req.name)
  <2>1. req \in ServerPacket
    BY DEF ServerPacket
  <2>2. toServer' \in Seq(ServerPacket)
    BY SMTT(30), <1>1, <2>1 DEF SendRequest, LinkTypeOK
  <2>3. tftpdata' \in [BufIdx -> Octet]
    BY <1>1 DEF SendRequest, Octet
  <2>4. QED
    BY <1>1, <2>2, <2>3 DEF SendRequest
<1>2. CASE ~CanRequest(req.name)
  BY <1>2 DEF SendRequest, LinkTypeOK, TftpTypeOK
<1>3. QED
  BY <1>1, <1>2

-----------------------------------------------------------------------------
(* The client's steps. *)

LEMMA PollType ==
    ASSUME ClientInv, LoopProbe \/ GetProbe \/ RecvProbe \/ PutProbe
    PROVE  ClientInv'
<1>1. LinkTypeOK' /\ TftpTypeOK'
  <2>1. CASE Probe
    BY <2>1, ProbeType DEF ClientInv, ClientTypeOK
  <2>2. CASE UNCHANGED <<linkVars, tftpVars>>
    BY <2>2 DEF ClientInv, ClientTypeOK, linkVars, tftpVars, LinkTypeOK, TftpTypeOK
  <2>3. QED
    BY <2>1, <2>2 DEF LoopProbe, GetProbe, RecvProbe, PutProbe
<1>2. LoopTypeOK' /\ C64TypeOK' /\ LoopInv'
  BY DEF ClientInv, ClientTypeOK, LoopTypeOK, C64TypeOK, LoopInv, LoopProbe,
         GetProbe, RecvProbe, PutProbe, loopVars, c64Vars
<1>3. QED
  BY <1>1, <1>2 DEF ClientInv, ClientTypeOK

LEMMA StartLoadType ==
    ASSUME ClientInv, NEW n \in Name, StartLoad(n)
    PROVE  ClientInv'
<1>1. RRQ(n) \in Request /\ RRQ(n).name = n
  BY DEF RRQ, Request
<1>2. LinkTypeOK' /\ TftpTypeOK'
  <2>1. BlkMod - 1 \in BlkNum /\ 0 \in BlkNum
    BY BlkNumFacts
  <2>2. /\ tftp_request_in_progress' \in {"NORQ", "RRQ", "WRQ"}
        /\ tftpdata' \in [BufIdx -> Octet]
        /\ toServer' \in Seq(ServerPacket)
    BY <1>1, SendRequestType DEF StartLoad, tftp_get_file, ClientInv, ClientTypeOK
  <2>3. LinkTypeOK'
    BY <2>2 DEF StartLoad, ClientInv, LinkTypeOK
  <2>4. tftp_data_available' \in 0 .. BlkSize
    BY Sizes DEF StartLoad, tftp_get_file
  <2>5. QED
    BY <2>1, <2>2, <2>3, <2>4 DEF StartLoad, tftp_get_file, ClientInv, ClientTypeOK,
                                  TftpTypeOK
<1>3. LoopTypeOK' /\ LoopInv'
  BY Sizes, BlankBuffers DEF StartLoad, ClientInv, ClientTypeOK, LoopTypeOK, LoopInv
<1>4. C64TypeOK'
  BY DEF StartLoad, ClientInv, ClientTypeOK, C64TypeOK, LoadJob
<1>5. QED
  BY <1>2, <1>3, <1>4 DEF ClientInv, ClientTypeOK

LEMMA StartSaveType ==
    ASSUME ClientInv, NEW n \in Name, NEW d \in Seq(Byte) \ {<<>>}, StartSave(n, d)
    PROVE  ClientInv'
<1>1. WRQ(n) \in Request /\ WRQ(n).name = n
  BY DEF WRQ, Request
<1>2. LinkTypeOK' /\ TftpTypeOK'
  <2>1. BlkMod - 1 \in BlkNum
    BY BlkNumFacts
  <2>2. /\ tftp_request_in_progress' \in {"NORQ", "RRQ", "WRQ"}
        /\ tftpdata' \in [BufIdx -> Octet]
        /\ toServer' \in Seq(ServerPacket)
    BY <1>1, SendRequestType DEF StartSave, tftp_put_file, ClientInv, ClientTypeOK
  <2>3. QED
    BY <2>1, <2>2 DEF StartSave, tftp_put_file, ClientInv, ClientTypeOK, LinkTypeOK,
                      TftpTypeOK
<1>3. job' \in SaveJob /\ Len(job'.data) > 0
  BY DEF StartSave, SaveJob
<1>4. LoopTypeOK'
  BY Sizes, BlankBuffers DEF StartSave, ClientInv, ClientTypeOK, LoopTypeOK
<1>5. LoopInv'
  BY <1>3, Sizes DEF StartSave, LoopInv
<1>6. C64TypeOK'
  BY <1>3 DEF StartSave, ClientInv, ClientTypeOK, C64TypeOK
<1>7. QED
  BY <1>2, <1>4, <1>5, <1>6 DEF ClientInv, ClientTypeOK

LEMMA GetBlockType ==
    ASSUME ClientInv, GetBlock
    PROVE  ClientInv'
<1> DEFINE off == IF at_start THEN 0 ELSE 1
           src == Slice(tftpdata, 0, tftp_data_available)
<1>1. src \in Seq(Octet)
  BY Sizes, SliceType DEF ClientInv, ClientTypeOK, TftpTypeOK, BufIdx
<1>2. iobuf' \in [IoIdx -> Octet]
  <2>1. iobuf' = Memcpy(iobuf, off, src)
    BY DEF GetBlock, tftp_get_block
  <2>2. off \in Int /\ IoIdx \in SUBSET Int
    BY DEF IoIdx
  <2>3. QED
    BY <1>1, <2>1, <2>2, MemcpyType DEF ClientInv, ClientTypeOK, LoopTypeOK
<1>3. LoopTypeOK' /\ LoopInv' /\ C64TypeOK'
  BY <1>2 DEF GetBlock, tftp_get_block, ClientInv, ClientTypeOK, LoopTypeOK, LoopInv,
              TftpTypeOK, C64TypeOK, c64Vars
<1>4. ACK(tftp_blknum) \in ServerPacket
  BY DEF ACK, ServerPacket, AckPacket, ClientInv, ClientTypeOK, TftpTypeOK
<1>5. LinkTypeOK'
  BY <1>4 DEF GetBlock, tftp_get_block, ClientInv, LinkTypeOK
<1>6. WithHeader(tftpdata) \in [BufIdx -> Octet]
  BY WithHeaderType DEF ClientInv, ClientTypeOK, TftpTypeOK
<1>7. TftpTypeOK'
  BY <1>6 DEF GetBlock, tftp_get_block, ClientInv, ClientTypeOK, TftpTypeOK
<1>8. QED
  BY <1>3, <1>5, <1>7 DEF ClientInv, ClientTypeOK

LEMMA SendBlockType ==
    ASSUME ClientInv, SendBlock
    PROVE  ClientInv'
<1> DEFINE off == IF at_start THEN 0 ELSE 1
           n == IF unsent_data > 0 THEN unsent_data - 1 + off ELSE 0
           last == IF unsent_data = 0 THEN 0
                   ELSE IF at_start THEN unsent_data - 1 ELSE unsent_data
<1>1. n \in Nat /\ n <= BlkSize + 1 /\ last \in IoIdx
  BY Sizes DEF ClientInv, ClientTypeOK, LoopTypeOK, IoIdx
<1>2. Outgoing = Slice(iobuf, 0, n) \o (IF eoi THEN <<iobuf[last]>> ELSE <<>>)
  BY DEF Outgoing
<1> HIDE DEF n, last
<1>3. Slice(iobuf, 0, n) \in Seq(Octet)
  BY <1>1, Sizes, SliceType DEF ClientInv, ClientTypeOK, LoopTypeOK, IoIdx
<1>4. Outgoing \in Seq(Octet)
  <2>1. iobuf[last] \in Octet
    BY <1>1 DEF ClientInv, ClientTypeOK, LoopTypeOK
  <2>2. QED
    BY <1>2, <1>3, <2>1
<1>5. C64TypeOK'
  BY <1>4 DEF SendBlock, ClientInv, ClientTypeOK, C64TypeOK
<1>6. LoopTypeOK' /\ LoopInv'
  <2>1. iobuf[IF at_start THEN BlkSize - 1 ELSE BlkSize] \in Octet
    BY Sizes DEF ClientInv, ClientTypeOK, LoopTypeOK, IoIdx
  <2>2. iobuf' \in [IoIdx -> Octet]
    BY <2>1 DEF SendBlock, ClientInv, ClientTypeOK, LoopTypeOK
  <2>3. QED
    BY <2>2, Sizes DEF SendBlock, ClientInv, ClientTypeOK, LoopTypeOK, LoopInv
<1>7. LinkTypeOK' /\ TftpTypeOK'
  BY DEF SendBlock, ClientInv, ClientTypeOK, LinkTypeOK, TftpTypeOK, linkVars, tftpVars
<1>8. QED
  BY <1>5, <1>6, <1>7 DEF ClientInv, ClientTypeOK

LEMMA LoadErrorType ==
    ASSUME ClientInv, GetError \/ GetNothing
    PROVE  ClientInv'
<1>1. LinkTypeOK' /\ TftpTypeOK'
  BY DEF GetError, GetNothing, ClientInv, ClientTypeOK, LinkTypeOK, TftpTypeOK,
         linkVars, tftpVars
<1>2. LoopTypeOK' /\ C64TypeOK' /\ LoopInv'
  BY DEF GetError, GetNothing, ClientInv, ClientTypeOK, LoopTypeOK, C64TypeOK,
         LoopInv, c64Vars
<1>3. QED
  BY <1>1, <1>2 DEF ClientInv, ClientTypeOK

LEMMA RecvByteType ==
    ASSUME ClientInv, RecvByte
    PROVE  ClientInv'
<1>1. /\ job \in SaveJob
      /\ given \in Nat
      /\ given < Len(job.data)
      /\ a \in Nat
      /\ a < BlkSize
  BY DEF RecvByte, ClientInv, ClientTypeOK, LoopInv, LoopTypeOK, C64TypeOK
<1>2. job.data[given + 1] \in Octet
  BY <1>1 DEF SaveJob, Octet
<1>3. /\ iobuf' = [iobuf EXCEPT ![a] = job.data[given + 1]]
      /\ a' = a + 1
      /\ given' = given + 1
      /\ eoi' \in BOOLEAN
      /\ ~eoi' => given + 1 # Len(job.data)
      /\ phase' \in {"loop", "put", "recv"}
      /\ phase' = "recv" => a + 1 # BlkSize /\ ~eoi'
      /\ UNCHANGED <<at_start, unsent_data, job>>
  BY DEF RecvByte
<1>4. LoopTypeOK'
  <2>1. a' \in 0 .. BlkSize
    BY <1>1, <1>3, Sizes
  <2>2. iobuf' \in [IoIdx -> Octet]
    BY <1>2, <1>3 DEF ClientInv, ClientTypeOK, LoopTypeOK
  <2>3. QED
    BY <1>3, <2>1, <2>2 DEF ClientInv, ClientTypeOK, LoopTypeOK
<1>5. LoopInv'
  <2>1. Len(job.data) \in Nat
    BY <1>1 DEF SaveJob
  <2>2. ~eoi' => given' < Len(job.data)
    BY <1>1, <1>3, <2>1
  <2>3. phase' = "recv" => a' < BlkSize
    BY <1>1, <1>3, Sizes
  <2>4. QED
    BY <1>1, <1>3, <2>2, <2>3 DEF LoopInv
<1>6. C64TypeOK'
  BY <1>1 DEF RecvByte, ClientInv, ClientTypeOK, C64TypeOK
<1>7. LinkTypeOK' /\ TftpTypeOK'
  BY DEF RecvByte, ClientInv, ClientTypeOK, LinkTypeOK, TftpTypeOK, linkVars, tftpVars
<1>8. QED
  BY <1>4, <1>5, <1>6, <1>7 DEF ClientInv, ClientTypeOK

LEMMA TftpPutBlockType ==
    ASSUME LinkTypeOK, TftpTypeOK, LoopTypeOK, NEW n \in 0 .. BlkSize,
           tftp_put_block(n)
    PROVE  LinkTypeOK' /\ TftpTypeOK'
<1> DEFINE d == Slice(iobuf, 0, n)
<1>1. d \in Seq(Octet) /\ Len(d) <= BlkSize
  BY Sizes, SliceType DEF LoopTypeOK, IoIdx
<1>2. NextBlk(tftp_blknum) \in BlkNum
  BY NextBlkType DEF TftpTypeOK
<1>3. DATA(NextBlk(tftp_blknum), d) \in ServerPacket
  BY <1>1, <1>2 DEF DATA, ServerPacket, DataPacket, Block
<1>4. LinkTypeOK'
  BY <1>3 DEF tftp_put_block, LinkTypeOK
<1>5. Memcpy(tftpdata, HdrLen, d) \in [BufIdx -> Octet]
  BY <1>1, Sizes, MemcpyType DEF TftpTypeOK, BufIdx
<1>6. WithHeader(Memcpy(tftpdata, HdrLen, d)) \in [BufIdx -> Octet]
  BY <1>5, WithHeaderType
<1>7. TftpTypeOK'
  BY <1>6 DEF tftp_put_block, TftpTypeOK
<1>8. QED
  BY <1>4, <1>7

LEMMA PutType ==
    ASSUME ClientInv, PutBlock \/ PutEmpty
    PROVE  ClientInv'
<1>1. LinkTypeOK' /\ TftpTypeOK'
  BY TftpPutBlockType, Sizes DEF PutBlock, PutEmpty, ClientInv, ClientTypeOK, LoopTypeOK
<1>2. LoopTypeOK'
  BY Sizes DEF PutBlock, PutEmpty, ClientInv, ClientTypeOK, LoopTypeOK
<1>3. LoopInv'
  BY Sizes DEF PutBlock, PutEmpty, ClientInv, LoopInv
<1>4. C64TypeOK'
  BY DEF PutBlock, PutEmpty, ClientInv, ClientTypeOK, C64TypeOK
<1>5. QED
  BY <1>1, <1>2, <1>3, <1>4 DEF ClientInv, ClientTypeOK

LEMMA RecvAbortType ==
    ASSUME ClientInv, RecvAbort
    PROVE  ClientInv'
BY DEF RecvAbort, ClientInv, ClientTypeOK, LinkTypeOK, TftpTypeOK, LoopTypeOK,
       C64TypeOK, LoopInv, linkVars, tftpVars

LEMMA ResetType ==
    ASSUME ClientInv, ClientReset
    PROVE  ClientInv'
<1>1. TftpTypeOK'
  BY Sizes, BlankBuffers, BlkNumFacts DEF ClientReset, TftpTypeOK
<1>2. LinkTypeOK'
  BY DEF ClientReset, ClientInv, LinkTypeOK
<1>3. LoopTypeOK' /\ C64TypeOK' /\ LoopInv'
  BY Sizes, BlankBuffers DEF ClientReset, ClientInv, ClientTypeOK, LoopTypeOK,
                             C64TypeOK, LoopInv
<1>4. QED
  BY <1>1, <1>2, <1>3 DEF ClientInv, ClientTypeOK

LEMMA SetupType ==
    ASSUME ClientInv, SetupDrop \/ SetupDone
    PROVE  ClientInv'
<1>1. CASE SetupDrop
  BY <1>1 DEF SetupDrop, ClientInv, ClientTypeOK, LinkTypeOK, TftpTypeOK, LoopTypeOK,
              C64TypeOK, LoopInv, clientVars, tftpVars, loopVars, c64Vars
<1>2. CASE SetupDone
  BY <1>2 DEF SetupDone, ClientInv, ClientTypeOK, LinkTypeOK, TftpTypeOK, LoopTypeOK,
              C64TypeOK, LoopInv, linkVars, tftpVars, c64Vars
<1>3. QED
  BY <1>1, <1>2

-----------------------------------------------------------------------------
(* The daemon's steps. *)

LEMMA EndTransferType ==
    ASSUME NEW s \in Seq(ServerPacket), EndTransfer(s)
    PROVE  /\ status' = "idle"
           /\ last_packet' \in BOOLEAN
           /\ send_empty' \in BOOLEAN
           /\ toServer' \in Seq(ServerPacket)
<1>1. PICK k \in 0 .. Len(s) : toServer' = SubSeq(s, k + 1, Len(s))
  BY DEF EndTransfer
<1>2. SubSeq(s, k + 1, Len(s)) \in Seq(ServerPacket)
  <2>1. \A i \in k + 1 .. Len(s) : s[i] \in ServerPacket
    OBVIOUS
  <2>2. k + 1 \in Int /\ Len(s) \in Int
    OBVIOUS
  <2>3. QED
    BY <2>1, <2>2
<1>3. QED
  BY <1>1, <1>2 DEF EndTransfer

LEMMA TakeType ==
    ASSUME LinkTypeOK, Take
    PROVE  toServer' \in Seq(ServerPacket)
BY DEF Take, LinkTypeOK

LEMMA ReplyType ==
    ASSUME LinkTypeOK, NEW t \in {"OACK", "DATA", "ACK", "ERR"}, NEW n \in BlkNum,
           NEW d \in Block, toClient' = Append(toClient, Reply(t, n, d))
    PROVE  toClient' \in Seq(ClientPacket)
<1>1. Reply(t, n, d) \in ClientPacket
  BY DEF Reply, ClientPacket
<1>2. QED
  BY <1>1 DEF LinkTypeOK

LEMMA EmptyBlock == <<>> \in Block /\ 0 \in BlkNum /\ 1 \in BlkNum
BY Sizes DEF Block, BlkNum, BlkMod

LEMMA HeadType ==
    ASSUME LinkTypeOK, toServer # <<>>
    PROVE  /\ Head(toServer) \in ServerPacket
           /\ Tail(toServer) \in Seq(ServerPacket)
BY DEF LinkTypeOK

LEMMA ServeRrqType ==
    ASSUME LinkTypeOK, ServerInv, ServeRrq
    PROVE  LinkTypeOK' /\ ServerInv'
<1> DEFINE p == Head(toServer)
<1>1. p.name \in Name
  BY HeadType DEF ServeRrq, ServerPacket, Request, AckPacket, DataPacket
<1>2. toServer' \in Seq(ServerPacket)
  BY HeadType, EndTransferType, TakeType DEF ServeRrq
<1>3. toClient' \in Seq(ClientPacket)
  BY ReplyType, EmptyBlock DEF ServeRrq
<1>4. /\ status' \in {"idle", "wait_ack", "wait_data", "crashed"}
      /\ last_packet' \in BOOLEAN
      /\ send_empty' \in BOOLEAN
  BY HeadType, EndTransferType DEF ServeRrq, ServerInv, ServerTypeOK
<1>5. UNCHANGED <<disk, unwritten>>
  BY DEF ServeRrq
<1>6. /\ file' \in FileHandle
      /\ file'.pos <= Len(file'.data)
      /\ file'.mode = "write" => file' = file
  <2>1. CASE UNCHANGED file
    BY <2>1 DEF ServerInv, ServerTypeOK, FileInv
  <2>2. CASE /\ disk[p.name] # NoFile
             /\ file' = [mode |-> "read", name |-> p.name,
                         data |-> disk[p.name], pos |-> 0]
    <3>1. disk[p.name] \in Seq(Octet)
      BY <1>1, <2>2 DEF ServerInv, ServerTypeOK
    <3>2. QED
      BY <1>1, <2>2, <3>1 DEF FileHandle
  <2>3. QED
    BY <2>1, <2>2 DEF ServeRrq
<1>7. QED
  BY <1>2, <1>3, <1>4, <1>5, <1>6 DEF LinkTypeOK, ServerInv, ServerTypeOK, FileInv

LEMMA ServeWrqType ==
    ASSUME LinkTypeOK, ServerInv, ServeWrq
    PROVE  LinkTypeOK' /\ ServerInv'
<1> DEFINE p == Head(toServer)
<1>1. p.name \in Name
  BY HeadType DEF ServeWrq, ServerPacket, Request, AckPacket, DataPacket
<1>2. toServer' \in Seq(ServerPacket)
  BY HeadType, EndTransferType, TakeType DEF ServeWrq
<1>3. toClient' \in Seq(ClientPacket)
  BY ReplyType, EmptyBlock DEF ServeWrq
<1>4. /\ status' \in {"idle", "wait_ack", "wait_data", "crashed"}
      /\ last_packet' \in BOOLEAN
      /\ send_empty' \in BOOLEAN
  BY HeadType, EndTransferType DEF ServeWrq, ServerInv, ServerTypeOK
<1>5. CASE UNCHANGED deviceVars
  BY <1>2, <1>3, <1>4, <1>5 DEF LinkTypeOK, ServerInv, ServerTypeOK, FileInv, deviceVars
<1>6. CASE /\ file' = [mode |-> "write", name |-> p.name, data |-> <<>>, pos |-> 0]
           /\ disk' = [disk EXCEPT ![p.name] = <<>>]
           /\ unwritten' = [unwritten EXCEPT ![p.name] = <<>>]
  <2>1. file' \in FileHandle /\ file'.pos <= Len(file'.data)
    BY <1>1, <1>6 DEF FileHandle
  <2>2. /\ disk' \in [Name -> Seq(Octet) \cup {NoFile}]
        /\ unwritten' \in [Name -> Seq(Octet)]
    BY <1>1, <1>6 DEF ServerInv, ServerTypeOK
  <2>3. \A n \in Name : unwritten'[n] # <<>> => disk'[n] # NoFile
    BY <1>1, <1>6 DEF ServerInv, ServerTypeOK, FileInv
  <2>4. disk'[file'.name] # NoFile
    <3>1. disk'[file'.name] = <<>> /\ <<>> \in Seq(Octet)
      BY <1>1, <1>6 DEF ServerInv, ServerTypeOK
    <3>2. QED
      BY <3>1, NoFileAssumption
  <2>5. QED
    BY <1>2, <1>3, <1>4, <2>1, <2>2, <2>3, <2>4
       DEF LinkTypeOK, ServerInv, ServerTypeOK, FileInv
<1>7. QED
  BY <1>5, <1>6 DEF ServeWrq

LEMMA CrashType ==
    ASSUME LinkTypeOK, ServerInv, Crash
    PROVE  LinkTypeOK' /\ ServerInv'
BY TakeType DEF Crash, LinkTypeOK, ServerInv, ServerTypeOK, FileInv, deviceVars

LEMMA BlockType ==
    ASSUME NEW s \in Seq(Octet), NEW pos \in Nat, NEW n \in 0 .. BlkSize,
           pos + n <= Len(s)
    PROVE  SubSeq(s, pos + 1, pos + n) \in Block
<1>1. pos + 1 \in Int /\ pos + n \in Int /\ n \in Nat /\ n <= BlkSize
  BY Sizes
<1>2. \A i \in pos + 1 .. pos + n : s[i] \in Octet
  BY <1>1
<1>3. /\ SubSeq(s, pos + 1, pos + n) \in Seq(Octet)
      /\ Len(SubSeq(s, pos + 1, pos + n)) =
           IF pos + 1 <= pos + n THEN pos + n - (pos + 1) + 1 ELSE 0
  BY <1>1, <1>2, SubSeqProperties
<1>4. Len(SubSeq(s, pos + 1, pos + n)) <= BlkSize
  BY <1>1, <1>3, Sizes
<1>5. QED
  BY <1>3, <1>4 DEF Block

LEMMA SendDataType ==
    ASSUME LinkTypeOK, ServerInv, NEW n \in BlkNum, SendData(n), Take,
           UNCHANGED <<disk, unwritten>>
    PROVE  LinkTypeOK' /\ ServerInv'
<1>1. /\ file \in FileHandle
      /\ file.data \in Seq(Octet)
      /\ Len(file.data) \in Nat
      /\ file.pos \in Nat
      /\ file.pos <= Len(file.data)
  BY DEF ServerInv, ServerTypeOK, FileInv, FileHandle
<1>2. /\ BlockLen \in 0 .. BlkSize
      /\ file.pos + BlockLen <= Len(file.data)
  BY <1>1, Sizes DEF BlockLen, Remaining
<1> DEFINE d == SubSeq(file.data, file.pos + 1, file.pos + BlockLen)
<1>3. d \in Block
  BY <1>1, <1>2, BlockType
<1>4. toClient' \in Seq(ClientPacket)
  BY <1>3, ReplyType, EmptyBlock DEF SendData
<1>5. /\ file' \in FileHandle
      /\ file'.pos <= Len(file'.data)
      /\ file'.mode = file.mode
      /\ file'.name = file.name
  <2>1. CASE UNCHANGED file
    BY <1>1, <2>1
  <2>2. CASE file' = [file EXCEPT !.pos = @ + BlockLen]
    BY <1>1, <1>2, <2>2, Sizes DEF FileHandle
  <2>3. QED
    BY <2>1, <2>2 DEF SendData
<1>6. /\ last_packet' \in BOOLEAN
      /\ send_empty' \in BOOLEAN
      /\ status' = "wait_ack"
  <2>1. CASE send_empty
    BY <2>1 DEF SendData
  <2>2. CASE ~send_empty
    BY <2>2 DEF SendData
  <2>3. QED
    BY <2>1, <2>2
<1>7. QED
  BY <1>4, <1>5, <1>6, TakeType DEF LinkTypeOK, ServerInv, ServerTypeOK, FileInv

(* Writing out what is buffered for a file that exists. *)
LEMMA WriteOutType ==
    ASSUME ServerInv, NEW n \in Name, disk[n] # NoFile, NEW d \in Seq(Octet),
           disk' = [disk EXCEPT ![n] = @ \o d],
           unwritten' = [unwritten EXCEPT ![n] = <<>>]
    PROVE  /\ disk' \in [Name -> Seq(Octet) \cup {NoFile}]
           /\ unwritten' \in [Name -> Seq(Octet)]
           /\ \A m \in Name : disk[m] # NoFile => disk'[m] # NoFile
           /\ \A m \in Name : unwritten'[m] # <<>> => disk'[m] # NoFile
<1>1. disk[n] \in Seq(Octet)
  BY DEF ServerInv, ServerTypeOK
<1>2. disk[n] \o d \in Seq(Octet)
  BY <1>1
<1>3. disk' \in [Name -> Seq(Octet) \cup {NoFile}]
  BY <1>2 DEF ServerInv, ServerTypeOK
<1>4. unwritten' \in [Name -> Seq(Octet)]
  BY DEF ServerInv, ServerTypeOK
<1>5. disk'[n] # NoFile
  BY <1>2, NoFileAssumption DEF ServerInv, ServerTypeOK
<1>6. \A m \in Name : disk[m] # NoFile => disk'[m] # NoFile
  BY <1>5 DEF ServerInv, ServerTypeOK
<1>7. \A m \in Name : unwritten'[m] # <<>> => disk'[m] # NoFile
  BY <1>6 DEF ServerInv, ServerTypeOK, FileInv
<1>8. QED
  BY <1>3, <1>4, <1>6, <1>7

LEMMA CloseFileType ==
    ASSUME ServerInv, CloseFile
    PROVE  /\ file' \in FileHandle
           /\ file'.mode = "closed"
           /\ file'.pos <= Len(file'.data)
           /\ disk' \in [Name -> Seq(Octet) \cup {NoFile}]
           /\ unwritten' \in [Name -> Seq(Octet)]
           /\ \A m \in Name : unwritten'[m] # <<>> => disk'[m] # NoFile
<1>1. /\ file' \in FileHandle
      /\ file'.mode = "closed"
      /\ file'.pos <= Len(file'.data)
  BY DEF CloseFile, ServerInv, ServerTypeOK, FileInv, FileHandle
<1>2. CASE file.mode = "write"
  <2>1. file.name \in Name /\ unwritten[file.name] \in Seq(Octet)
    BY DEF ServerInv, ServerTypeOK, FileHandle
  <2>2. QED
    BY <1>1, <1>2, <2>1, WriteOutType DEF CloseFile, ServerInv, FileInv
<1>3. CASE file.mode # "write"
  BY <1>1, <1>3 DEF CloseFile, ServerInv, ServerTypeOK, FileInv
<1>4. QED
  BY <1>2, <1>3

LEMMA ServeAckType ==
    ASSUME LinkTypeOK, ServerInv, ServeAck
    PROVE  LinkTypeOK' /\ ServerInv'
<1>1. NextBlk(Head(toServer).blk) \in BlkNum
  BY HeadType, NextBlkType DEF ServeAck, ServerPacket, Request, AckPacket, DataPacket
<1>2. CASE CloseFile /\ EndTransfer(Tail(toServer)) /\ UNCHANGED toClient
  BY <1>2, HeadType, CloseFileType, EndTransferType
     DEF ServeAck, LinkTypeOK, ServerInv, ServerTypeOK, FileInv
<1>3. CASE /\ SendData(NextBlk(Head(toServer).blk))
           /\ Take
           /\ UNCHANGED <<disk, unwritten>>
  BY <1>1, <1>3, SendDataType
<1>4. CASE Crash
  BY <1>4, CrashType
<1>5. QED
  BY <1>2, <1>3, <1>4 DEF ServeAck

LEMMA ServeDataType ==
    ASSUME LinkTypeOK, ServerInv, ServeData
    PROVE  LinkTypeOK' /\ ServerInv'
<1> DEFINE p == Head(toServer)
           written == unwritten[file.name] \o p.data
<1>1. /\ p.blk \in BlkNum
      /\ p.data \in Seq(Octet)
  BY HeadType DEF ServeData, ServerPacket, Request, AckPacket, DataPacket, Block
<1>2. /\ file \in FileHandle
      /\ file.name \in Name
      /\ file.pos <= Len(file.data)
      /\ written \in Seq(Octet)
  BY SMTT(30), <1>1 DEF ServerInv, ServerTypeOK, FileInv, FileHandle
<1>3. CASE Crash
  BY <1>3, CrashType
<1>4. CASE ~Crash
  <2>1. file.mode = "write" /\ disk[file.name] # NoFile
    BY <1>4 DEF ServeData, ServerInv, FileInv
  <2>2. toClient' \in Seq(ClientPacket)
    BY <1>1, <1>4, ReplyType, EmptyBlock DEF ServeData
  <2>3. CASE /\ file' = [file EXCEPT !.mode = "closed"]
             /\ disk' = [disk EXCEPT ![file.name] = @ \o written]
             /\ unwritten' = [unwritten EXCEPT ![file.name] = <<>>]
             /\ EndTransfer(Tail(toServer))
    <3>1. /\ file' \in FileHandle
          /\ file'.mode = "closed"
          /\ file'.pos <= Len(file'.data)
      BY SMTT(30), <1>2, <2>3 DEF FileHandle
    <3>2. /\ disk' \in [Name -> Seq(Octet) \cup {NoFile}]
          /\ unwritten' \in [Name -> Seq(Octet)]
          /\ \A m \in Name : unwritten'[m] # <<>> => disk'[m] # NoFile
      BY <1>2, <2>1, <2>3, WriteOutType
    <3>3. /\ toServer' \in Seq(ServerPacket)
          /\ status' = "idle"
          /\ last_packet' \in BOOLEAN
          /\ send_empty' \in BOOLEAN
      BY <2>3, HeadType, EndTransferType DEF ServeData
    <3>4. QED
      BY <2>2, <3>1, <3>2, <3>3 DEF LinkTypeOK, ServerInv, ServerTypeOK, FileInv
  <2>4. CASE /\ unwritten' = [unwritten EXCEPT ![file.name] = written]
             /\ status' = "wait_data"
             /\ Take
             /\ UNCHANGED <<last_packet, send_empty, file, disk>>
    <3>1. unwritten' \in [Name -> Seq(Octet)]
      BY <1>2, <2>4 DEF ServerInv, ServerTypeOK
    <3>2. \A m \in Name : unwritten'[m] # <<>> => disk'[m] # NoFile
      BY <1>2, <2>1, <2>4 DEF ServerInv, ServerTypeOK, FileInv
    <3>3. QED
      BY <2>1, <2>2, <2>4, <3>1, <3>2, TakeType
         DEF LinkTypeOK, ServerInv, ServerTypeOK, FileInv
  <2>5. QED
    BY Zenon, <1>4, <2>3, <2>4 DEF ServeData
<1>5. QED
  BY SMTT(30), <1>3, <1>4

LEMMA ServerTimeoutType ==
    ASSUME LinkTypeOK, ServerInv, ServerTimeout
    PROVE  LinkTypeOK' /\ ServerInv'
<1>1. <<>> \in Seq(ServerPacket)
  OBVIOUS
<1>2. QED
  BY <1>1, EndTransferType
     DEF ServerTimeout, LinkTypeOK, ServerInv, ServerTypeOK, FileInv, deviceVars

LEMMA RubyWriteType ==
    ASSUME ServerInv, NEW n \in Name, WriteOut(n)
    PROVE  ServerInv'
<1>1. disk[n] # NoFile /\ unwritten[n] \in Seq(Octet)
  BY DEF WriteOut, ServerInv, ServerTypeOK, FileInv
<1>2. QED
  BY <1>1, WriteOutType
     DEF WriteOut, ServerInv, ServerTypeOK, FileInv, FileHandle, objectVars
-----------------------------------------------------------------------------
(* All components together. *)

LEMMA ClientStutter ==
    ASSUME ClientInv, UNCHANGED clientVars, LinkTypeOK'
    PROVE  ClientInv'
BY DEF clientVars, tftpVars, loopVars, c64Vars, ClientInv, ClientTypeOK, TftpTypeOK,
       LoopTypeOK, C64TypeOK, LoopInv

LEMMA ServerStutter ==
    ASSUME ServerInv, UNCHANGED serverVars
    PROVE  ServerInv'
BY DEF serverVars, objectVars, deviceVars, ServerInv, ServerTypeOK, FileInv

LEMMA LinkFaultType ==
    ASSUME LinkTypeOK,
           LoseToServer \/ LoseToClient \/ DuplicateToClient \/ DuplicateToServer
    PROVE  LinkTypeOK'
<1>1. toServer # <<>> => /\ Tail(toServer) \in Seq(ServerPacket)
                         /\ <<Head(toServer)>> \o toServer \in Seq(ServerPacket)
  BY DEF LinkTypeOK
<1>2. toClient # <<>> => /\ Tail(toClient) \in Seq(ClientPacket)
                         /\ <<Head(toClient)>> \o toClient \in Seq(ClientPacket)
  BY DEF LinkTypeOK
<1>3. QED
  BY <1>1, <1>2 DEF LoseToServer, LoseToClient, DuplicateToClient, DuplicateToServer,
                    LinkTypeOK

LEMMA InitInv == Init => Inv
<1> SUFFICES ASSUME Init PROVE Inv
  OBVIOUS
<1>1. LinkTypeOK
  BY DEF Init, LinkInit, LinkTypeOK
<1>2. ClientTypeOK
  <2>1. TftpTypeOK
    BY Sizes, BlankBuffers, BlkNumFacts DEF Init, ClientInit, TftpTypeOK
  <2>2. LoopTypeOK
    BY Sizes, BlankBuffers DEF Init, ClientInit, LoopTypeOK
  <2>3. C64TypeOK
    BY DEF Init, ClientInit, C64TypeOK
  <2>4. QED
    BY <2>1, <2>2, <2>3 DEF ClientTypeOK
<1>3. LoopInv
  BY DEF Init, ClientInit, LoopInv
<1>4. ServerTypeOK
  <2>1. disk \in [Name -> Seq(Octet) \cup {NoFile}]
    BY Disk0Assumption DEF Init, ServerInit, Octet
  <2>2. file \in FileHandle
    <3>1. <<>> \in Seq(Octet)
      OBVIOUS
    <3>2. QED
      BY <3>1 DEF Init, ServerInit, FileHandle
  <2>3. unwritten \in [Name -> Seq(Octet)]
    <3>1. <<>> \in Seq(Octet)
      OBVIOUS
    <3>2. QED
      BY <3>1 DEF Init, ServerInit
  <2>4. QED
    BY <2>1, <2>2, <2>3 DEF Init, ServerInit, ServerTypeOK
<1>5. FileInv
  BY DEF Init, ServerInit, FileInv
<1>6. QED
  BY <1>1, <1>2, <1>3, <1>4, <1>5 DEF Init, Inv, TypeOK

LEMMA NextInv == Inv /\ [Next]_vars => Inv'
<1> SUFFICES ASSUME ClientInv, ServerInv,
                    env \in Environments, cmds \in Nat, resets \in Nat,
                    dupToClient \in Nat, dupToServer \in Nat,
                    [Next]_vars
             PROVE  /\ ClientInv'
                    /\ ServerInv'
                    /\ env' \in Environments /\ cmds' \in Nat /\ resets' \in Nat
                    /\ dupToClient' \in Nat /\ dupToServer' \in Nat
  BY DEF Inv, TypeOK, ServerInv, ClientInv
<1> USE DEF ClientInv
<1>1. CASE Command
  <2>1. \A j \in env.jobs : j.name \in Name /\ j.data \in Seq(Byte) \ {<<>>}
    BY SaveJobsAssumption, EnvironmentAssumption DEF Environment
  <2>2. ClientInv'
    BY <1>1, <2>1, StartLoadType, StartSaveType DEF Command
  <2>3. QED
    BY <1>1, <2>2, ServerStutter DEF Command
<1>2. CASE Poll
  BY <1>2, PollType, ServerStutter DEF Poll, boundVars
<1>3. CASE LoadStep
  BY <1>3, LoadErrorType, GetBlockType, SendBlockType, ServerStutter
     DEF LoadStep, boundVars
<1>4. CASE SaveStep
  BY <1>4, RecvByteType, PutType, ServerStutter DEF SaveStep, boundVars
<1>5. CASE Abort
  BY <1>5, RecvAbortType, ServerStutter DEF Abort, boundVars
<1>6. CASE Reset
  BY <1>6, ResetType, ServerStutter DEF Reset
<1>7. CASE Setup
  BY <1>7, SetupType, ServerStutter DEF Setup, boundVars
<1>8. CASE Serve
  BY <1>8, ServeRrqType, ServeWrqType, ServeAckType, ServeDataType, ClientStutter
     DEF Serve, boundVars
<1>9. CASE Timeout
  BY <1>9, ServerTimeoutType, ClientStutter DEF Timeout, boundVars
<1>10. CASE RubyWrite
  <2>1. ServerInv'
    BY <1>10, RubyWriteType DEF RubyWrite
  <2>2. LinkTypeOK'
    BY <1>10 DEF RubyWrite, WriteOut, linkVars, LinkTypeOK
  <2>3. QED
    BY <1>10, <2>1, <2>2, ClientStutter DEF RubyWrite, boundVars
<1>11. CASE Loss
  BY <1>11, LinkFaultType, ClientStutter, ServerStutter DEF Loss, boundVars
<1>12. CASE Duplicate
  <2>1. LinkTypeOK'
    BY <1>12, LinkFaultType DEF Duplicate
  <2>2. QED
    BY <1>12, <2>1, ClientStutter, ServerStutter DEF Duplicate
<1>13. CASE UNCHANGED vars
  BY <1>13, ClientStutter, ServerStutter DEF vars, boundVars, linkVars, LinkTypeOK
<1>14. QED
  BY <1>1, <1>2, <1>3, <1>4, <1>5, <1>6, <1>7, <1>8, <1>9, <1>10, <1>11, <1>12,
     <1>13 DEF Next

(* Every variable keeps its type, whatever the network does: no index runs *)
(* out of iobuf or tftpdata, no block is longer than a buffer, the daemon  *)
(* reads and writes only files that exist.                                 *)
THEOREM TypeCorrect == Spec => []TypeOK
<1>1. Inv => TypeOK
  BY DEF Inv
<1>2. QED
  BY InitInv, NextInv, <1>1, PTL DEF Spec
-----------------------------------------------------------------------------
(* What a LOAD hands out, whatever is lost or repeated and whenever the    *)
(* Arduino is reset, as long as the user lets the network settle before    *)
(* the next command.                                                       *)

(* What is on disks and in packets are bytes of files. *)
CleanRequest == {p \in ServerPacket : p.type = "DATA" => p.data \in Seq(Byte)}
CleanReply == {p \in ClientPacket : p.data \in Seq(Byte)}

LinkBytes == toServer \in Seq(CleanRequest) /\ toClient \in Seq(CleanReply)
DiskBytes ==
    /\ file.data \in Seq(Byte)
    /\ disk \in [Name -> Seq(Byte) \cup {NoFile}]
    /\ unwritten \in [Name -> Seq(Byte)]

(* During a LOAD that has handed out block n, the client has acknowledged  *)
(* no later one, and the daemon has sent at most the next; block 0 is sent *)
(* only when the numbers wrap around.                                      *)
Upstream(n) == {p \in CleanRequest : p.type = "RRQ" \/ (p.type = "ACK" /\ p.blk <= n)}
Downstream(n) ==
    {p \in CleanReply :
        /\ p.type # "ACK"
        /\ p.type = "OACK" => p.blk = 0
        /\ p.type = "DATA" => p.blk <= n + 1 /\ (p.blk = 0 => n = BlkMod - 1)}

Loading == phase \in {"probe", "block", "send"}

LinkInv ==
    Loading => /\ toServer \in Seq(Upstream(tftp_lastgot))
               /\ toClient \in Seq(Downstream(tftp_lastgot))

(* Either everything received has been handed out, or the next block is    *)
(* in tftpdata.                                                            *)
Handed ==
    \/ tftp_lastgot = 0 /\ tftp_data_available = 0 /\ ~tftp_end_of_data
    \/ tftp_lastgot # 0 /\ tftp_lastblk <= tftp_lastgot
Fresh ==
    /\ tftp_lastblk = tftp_lastgot + 1
    /\ \A i \in 0 .. tftp_data_available - 1 : tftpdata[i] \in Byte
    /\ ~tftp_end_of_data => tftp_data_available = BlkSize

Offset == IF at_start THEN 0 ELSE 1

FetchInv ==
    /\ phase = "probe" => Handed /\ tftp_request_in_progress = "RRQ"
    /\ phase = "block" => \/ tftp_error
                          \/ /\ Handed \/ Fresh
                             /\ tftp_blknum = tftp_lastblk
                             /\ tftp_request_in_progress = "RRQ"
    /\ phase = "send" =>
         /\ tftp_lastgot # 0 /\ tftp_lastblk <= tftp_lastgot
         /\ \A i \in Offset .. Offset + unsent_data - 1 : iobuf[i] \in Byte
         /\ ~eoi => unsent_data = BlkSize /\ tftp_request_in_progress = "RRQ"

(* iobuf: the byte that send_file holds back, those that recv_file has     *)
(* collected.                                                              *)
HoldInv ==
    /\ Loading => IF at_start THEN got = <<>> ELSE iobuf[0] \in Byte
    /\ phase \in {"recv", "byte", "put"} => \A i \in 0 .. a - 1 : iobuf[i] \in Byte

GotInv ==
    \/ got \in Seq(Byte)
    \/ Len(got) = 1 /\ outcome = "eoi" /\ phase \in {"loop", "setup"}

ClientOrder == LinkBytes /\ LinkInv /\ FetchInv /\ HoldInv /\ GotInv
OrderInv == ClientOrder /\ DiskBytes
-----------------------------------------------------------------------------
(* Sequences of packets *)

LEMMA SeqMono ==
    ASSUME NEW S, NEW T, S \subseteq T, NEW s \in Seq(S)
    PROVE  s \in Seq(T)
OBVIOUS

LEMMA UpstreamMono ==
    ASSUME NEW n \in BlkNum, NEW m \in BlkNum, n <= m
    PROVE  Upstream(n) \subseteq Upstream(m)
<1>1. \A p \in ServerPacket : p.type = "ACK" => p.blk \in BlkNum
  BY DEF ServerPacket, Request, AckPacket, DataPacket
<1> QED
  BY <1>1 DEF Upstream, CleanRequest, BlkNum

LEMMA DownstreamMono ==
    ASSUME NEW n \in BlkNum, NEW m \in BlkNum, n < m
    PROVE  Downstream(n) \subseteq Downstream(m)
<1>1. \A p \in ClientPacket : p.blk \in BlkNum
  BY DEF ClientPacket
<1>2. n # BlkMod - 1
  BY DEF BlkNum
<1> QED
  BY <1>1, <1>2 DEF Downstream, CleanReply, BlkNum

(* However many datagrams the closed socket takes with it *)
LEMMA Waiting ==
    ASSUME NEW S, NEW s \in Seq(S), EndTransfer(s)
    PROVE  toServer' \in Seq(S)
<1>1. PICK k \in 0 .. Len(s) : toServer' = SubSeq(s, k + 1, Len(s))
  BY DEF EndTransfer
<1>2. \A i \in k + 1 .. Len(s) : s[i] \in S
  OBVIOUS
<1>3. k + 1 \in Int /\ Len(s) \in Int
  OBVIOUS
<1> QED
  BY <1>1, <1>2, <1>3, SubSeqProperties

LEMMA HeadIn ==
    ASSUME NEW S, NEW s \in Seq(S), s # <<>>
    PROVE  Head(s) \in S /\ Tail(s) \in Seq(S)
OBVIOUS

LEMMA Singleton ==
    ASSUME NEW S, NEW x \in S
    PROVE  <<>> \in Seq(S) /\ <<x>> \in Seq(S)
OBVIOUS

(* Losses and repetitions bring nothing new. *)
LEMMA FaultIn ==
    ASSUME NEW S, NEW T, toServer \in Seq(S), toClient \in Seq(T),
           LoseToServer \/ LoseToClient \/ DuplicateToClient \/ DuplicateToServer
    PROVE  toServer' \in Seq(S) /\ toClient' \in Seq(T)
<1>1. toServer # <<>> => /\ Tail(toServer) \in Seq(S)
                         /\ <<Head(toServer)>> \o toServer \in Seq(S)
  OBVIOUS
<1>2. toClient # <<>> => /\ Tail(toClient) \in Seq(T)
                         /\ <<Head(toClient)>> \o toClient \in Seq(T)
  OBVIOUS
<1> QED
  BY <1>1, <1>2 DEF LoseToServer, LoseToClient, DuplicateToClient, DuplicateToServer

(* All that the client sends on receiving a packet is ACK 0. *)
LEMMA RecvSends ==
    ASSUME NEW S, toServer \in Seq(S), ACK(0) \in S, NEW p, tftp_recv_packet(p)
    PROVE  toServer' \in Seq(S)
<1>1. toServer' = toServer \/ toServer' = Append(toServer, ACK(0))
  BY DEF tftp_recv_packet, RecvOack, RecvData, RecvAck, RecvError, RecvOther
<1> QED
  BY <1>1

LEMMA AckIn ==
    ASSUME NEW n \in BlkNum, NEW m \in BlkNum, m <= n
    PROVE  ACK(m) \in Upstream(n) /\ ACK(m) \in CleanRequest
BY DEF ACK, Upstream, CleanRequest, ServerPacket, AckPacket

LEMMA NumberFacts ==
    ASSUME NEW n \in BlkNum
    PROVE  /\ n \in Nat /\ n <= BlkMod - 1 /\ 0 <= n
           /\ 0 \in BlkNum
           /\ NextBlk(n) = IF n = BlkMod - 1 THEN 0 ELSE n + 1
<1>1. n \in Nat /\ n <= BlkMod - 1 /\ 0 \in BlkNum
  BY SMTT(30) DEF BlkNum, BlkMod
<1>2. CASE n = BlkMod - 1
  <2>1. (65535 + 1) % 65536 = 0
    OBVIOUS
  <2> QED
    BY <1>1, <1>2, <2>1 DEF NextBlk, BlkMod
<1>3. CASE n # BlkMod - 1
  <2>1. n + 1 < 65536 /\ n + 1 \in Nat
    BY <1>1, <1>3 DEF BlkMod
  <2>2. (n + 1) % 65536 = n + 1
    BY <2>1
  <2> QED
    BY <1>1, <1>3, <2>2 DEF NextBlk, BlkMod
<1> QED
  BY SMTT(30), <1>1, <1>2, <1>3
-----------------------------------------------------------------------------
(* The client, during a LOAD *)

StateInv == Inv /\ OrderInv

(* The types needed below *)
LEMMA Types ==
    ASSUME Inv
    PROVE  /\ LinkTypeOK /\ TftpTypeOK /\ LoopTypeOK /\ C64TypeOK /\ ServerTypeOK
           /\ tftp_lastgot \in BlkNum /\ tftp_lastblk \in BlkNum /\ tftp_blknum \in BlkNum
BY DEF Inv, TypeOK, ClientTypeOK, TftpTypeOK

(* A packet that arrives is a repeat, or no block, or an old block; or it  *)
(* is the next one and now in tftpdata.                                    *)
LEMMA RecvFetch ==
    ASSUME Inv, Handed, tftp_request_in_progress = "RRQ",
           NEW p \in Downstream(tftp_lastgot), tftp_recv_packet(p)
    PROVE  tftp_error' \/ (/\ Handed' \/ Fresh'
                           /\ tftp_blknum' = tftp_lastblk'
                           /\ tftp_request_in_progress' = "RRQ")
<1>0. /\ p.blk \in BlkNum /\ p.data \in Seq(Byte)
      /\ Len(p.data) \in Nat
      /\ p.type \in {"OACK", "DATA", "ERR"}
      /\ tftp_lastgot \in BlkNum
      /\ tftp_lastgot' = tftp_lastgot
      /\ tftp_blknum' = p.blk /\ tftp_lastblk' = p.blk
  <2>1. p \in ClientPacket /\ p.data \in Seq(Byte) /\ p.type # "ACK"
    BY DEF Downstream, CleanReply
  <2> QED
    BY <2>1, Types DEF ClientPacket, tftp_recv_packet
<1>1. CASE tftp_lastblk = p.blk
  BY <1>0, <1>1 DEF tftp_recv_packet, RecvOack, RecvData, RecvAck, RecvError, RecvOther,
                    Handed
<1>2. CASE tftp_lastblk # p.blk /\ p.type = "OACK"
  <2>1. RecvOack(p)
    BY <1>0, <1>2 DEF tftp_recv_packet, RecvData, RecvAck, RecvError, RecvOther
  <2> QED
    BY <1>0, <1>2, <2>1, NumberFacts DEF RecvOack, Handed, Downstream
<1>3. CASE tftp_lastblk # p.blk /\ p.type = "DATA"
  <2>1. RecvData(p)
    BY <1>0, <1>3 DEF tftp_recv_packet, RecvOack, RecvAck, RecvError, RecvOther
  <2>2. p.blk <= tftp_lastgot + 1 /\ (p.blk = 0 => tftp_lastgot = BlkMod - 1)
    BY <1>3 DEF Downstream
  <2>3. CASE p.blk <= tftp_lastgot
    <3>1. tftp_lastgot # 0
      BY <1>0, <2>2, <2>3, NumberFacts DEF BlkMod
    <3> QED
      BY <1>0, <2>1, <2>3, <3>1 DEF RecvData, Handed
  <2>4. CASE p.blk = tftp_lastgot + 1
    <3>1. \A i \in 0 .. Len(p.data) - 1 : i \in BufIdx /\ tftpdata'[i] = p.data[i + 1]
      <4>1. Len(p.data) <= BlkSize
        BY DEF Downstream, CleanReply, ClientPacket, Block
      <4>2. tftpdata \in [BufIdx -> Octet]
        BY Types DEF TftpTypeOK
      <4>3. \A i \in 0 .. Len(p.data) - 1 : i \in BufIdx
        BY <1>0, <4>1, Sizes DEF BufIdx
      <4>4. tftpdata' = [i \in BufIdx |-> IF i \in 0 .. 0 + Len(p.data) - 1
                                          THEN p.data[i - 0 + 1] ELSE tftpdata[i]]
        BY <2>1, <4>2 DEF RecvData, Memcpy
      <4> QED
        BY <1>0, <4>3, <4>4
    <3>2. \A i \in 0 .. Len(p.data) - 1 : tftpdata'[i] \in Byte
      <4>1. \A i \in 0 .. Len(p.data) - 1 : p.data[i + 1] \in Byte
        BY <1>0
      <4> QED
        BY <3>1, <4>1
    <3> QED
      BY <1>0, <2>1, <2>4, <3>2 DEF RecvData, Fresh
  <2> QED
    BY <1>0, <2>2, <2>3, <2>4, NumberFacts
<1>4. CASE tftp_lastblk # p.blk /\ p.type = "ERR"
  BY <1>0, <1>4 DEF tftp_recv_packet, RecvOack, RecvData, RecvAck, RecvError, RecvOther
<1> QED
  BY <1>0, <1>1, <1>2, <1>3, <1>4

LEMMA GetProbeOrder ==
    ASSUME StateInv, GetProbe
    PROVE  ClientOrder'
<1> USE DEF StateInv, OrderInv, ClientOrder
<1> DEFINE p == Head(toClient)
<1>1. /\ phase = "probe" /\ phase' = "block" /\ toClient' = Tail(toClient)
      /\ tftp_recv_packet(p) /\ tftp_lastgot' = tftp_lastgot
      /\ UNCHANGED <<iobuf, at_start, unsent_data, a, eoi, c64Vars>>
      /\ toClient # <<>>
  BY DEF GetProbe, Probe, tftp_recv_packet
<1>2. /\ toServer \in Seq(Upstream(tftp_lastgot)) /\ toServer \in Seq(CleanRequest)
      /\ toClient \in Seq(Downstream(tftp_lastgot)) /\ toClient \in Seq(CleanReply)
  BY <1>1 DEF LinkInv, Loading, LinkBytes
<1>3. tftp_lastgot \in BlkNum /\ 0 \in BlkNum /\ 0 <= tftp_lastgot
  BY Types, NumberFacts
<1>4. LinkInv'
  <2>1. toServer' \in Seq(Upstream(tftp_lastgot))
    BY <1>1, <1>2, <1>3, AckIn, RecvSends
  <2>2. toClient' \in Seq(Downstream(tftp_lastgot))
    BY <1>1, <1>2, HeadIn
  <2> QED
    BY <1>1, <2>1, <2>2 DEF LinkInv
<1>5. toServer' \in Seq(CleanRequest) /\ toClient' \in Seq(CleanReply)
  BY <1>1, <1>2, <1>3, AckIn, RecvSends, HeadIn
<1>6. FetchInv'
  <2>1. p \in Downstream(tftp_lastgot)
    BY <1>1, <1>2, HeadIn
  <2> QED
    BY <1>1, <2>1, RecvFetch DEF FetchInv
<1>7. HoldInv' /\ GotInv'
  BY <1>1 DEF HoldInv, GotInv, Loading, c64Vars
<1> QED
  BY <1>4, <1>5, <1>6, <1>7 DEF LinkBytes

(* Polls outside of a LOAD *)
LEMMA PollOrder ==
    ASSUME StateInv, LoopProbe \/ RecvProbe \/ PutProbe
    PROVE  ClientOrder'
<1> USE DEF StateInv, OrderInv, ClientOrder
<1>1. ~Loading' /\ UNCHANGED <<iobuf, a, c64Vars>>
      /\ (phase' \in {"recv", "byte", "put"} => phase \in {"recv", "byte", "put"})
      /\ (phase' \in {"loop", "setup"} <=> phase \in {"loop", "setup"})
  BY DEF LoopProbe, RecvProbe, PutProbe, Loading, loopVars, c64Vars
<1>2. LinkInv' /\ FetchInv' /\ HoldInv' /\ GotInv'
  BY <1>1 DEF LinkInv, FetchInv, HoldInv, GotInv, Loading, c64Vars
<1>3. CASE Probe
  <2>1. toServer \in Seq(CleanRequest) /\ toClient \in Seq(CleanReply)
    BY DEF LinkBytes
  <2>2. ACK(0) \in CleanRequest
    BY Types, NumberFacts, AckIn
  <2> QED
    BY <1>2, <1>3, <2>1, <2>2, RecvSends, HeadIn DEF Probe, LinkBytes
<1>4. CASE UNCHANGED linkVars
  BY <1>2, <1>4 DEF LinkBytes, linkVars
<1> QED
  BY <1>3, <1>4 DEF LoopProbe, RecvProbe, PutProbe

LEMMA StartLoadOrder ==
    ASSUME StateInv, NEW n \in Name, StartLoad(n), Quiet
    PROVE  ClientOrder'
<1> USE DEF StateInv, OrderInv, ClientOrder
<1>1. /\ toClient' = <<>> /\ got' = <<>> /\ at_start'
      /\ tftp_lastgot' = 0 /\ tftp_data_available' = 0 /\ ~tftp_end_of_data'
      /\ phase' = IF CanRequest(n) THEN "probe" ELSE "loop"
      /\ SendRequest("RRQ", RRQ(n)) /\ RRQ(n).name = n
  BY DEF StartLoad, tftp_get_file, Quiet, RRQ
<1>2. toServer' \in Seq(CleanRequest) /\ toServer' \in Seq(Upstream(0))
  <2>1. toServer' = <<>> \/ toServer' = <<RRQ(n)>>
    BY <1>1 DEF SendRequest, Quiet
  <2>2. RRQ(n) \in Upstream(0) /\ RRQ(n) \in CleanRequest
    BY DEF RRQ, Upstream, CleanRequest, ServerPacket, Request
  <2> QED
    BY <2>1, <2>2, Singleton
<1>3. LinkInv' /\ LinkBytes'
  BY <1>1, <1>2 DEF LinkInv, LinkBytes
<1>4. FetchInv'
  BY <1>1 DEF FetchInv, Handed, SendRequest
<1>5. HoldInv' /\ GotInv'
  BY <1>1 DEF HoldInv, GotInv, Loading
<1> QED
  BY <1>3, <1>4, <1>5

LEMMA StartSaveOrder ==
    ASSUME StateInv, NEW n \in Name, NEW d, StartSave(n, d)
    PROVE  ClientOrder'
<1> USE DEF StateInv, OrderInv, ClientOrder
<1>1. /\ toClient' = toClient /\ got' = <<>> /\ a' = 0 /\ phase' = "recv"
      /\ SendRequest("WRQ", WRQ(n))
  BY DEF StartSave, tftp_put_file
<1>2. toServer' \in Seq(CleanRequest)
  <2>1. WRQ(n) \in CleanRequest
    BY DEF WRQ, CleanRequest, ServerPacket, Request
  <2> QED
    BY SMTT(30), <1>1, <2>1 DEF SendRequest, LinkBytes
<1>3. LinkBytes' /\ LinkInv' /\ FetchInv' /\ HoldInv' /\ GotInv'
  BY <1>1, <1>2 DEF LinkBytes, LinkInv, FetchInv, HoldInv, GotInv, Loading
<1> QED
  BY <1>3

(* What tftp_get_block hands out is the next block. *)
LEMMA GetBlockNext ==
    ASSUME StateInv, GetBlock
    PROVE  Fresh /\ tftp_blknum = tftp_lastgot + 1 /\ tftp_lastgot' = tftp_lastgot + 1
<1> USE DEF StateInv, OrderInv, ClientOrder
<1>1. (Handed \/ Fresh) /\ tftp_blknum = tftp_lastblk /\ ~NothingNew
      /\ tftp_lastgot' = tftp_blknum
  BY DEF FetchInv, GetBlock, tftp_get_block
<1>2. ~Handed
  BY <1>1 DEF Handed, NothingNew
<1> QED
  BY <1>1, <1>2 DEF Fresh

LEMMA GetBlockOrder ==
    ASSUME StateInv, GetBlock
    PROVE  ClientOrder'
<1> USE DEF StateInv, OrderInv, ClientOrder
<1> DEFINE src == Slice(tftpdata, 0, tftp_data_available)
<1>1. /\ phase = "block" /\ phase' = "send" /\ toClient' = toClient
      /\ toServer' = Append(toServer, ACK(tftp_blknum))
      /\ iobuf' = Memcpy(iobuf, Offset, src)
      /\ unsent_data' = tftp_data_available /\ eoi' = tftp_end_of_data
      /\ tftp_request_in_progress' = IF tftp_end_of_data THEN "NORQ" ELSE tftp_request_in_progress
      /\ UNCHANGED <<tftp_lastblk, at_start, a, c64Vars>> /\ ~tftp_error
  BY DEF GetBlock, tftp_get_block, Offset
<1>2. Fresh /\ tftp_blknum = tftp_lastgot + 1 /\ tftp_lastgot' = tftp_lastgot + 1
  BY GetBlockNext
<1>3. /\ tftp_lastgot \in BlkNum /\ tftp_blknum \in BlkNum /\ tftp_lastgot \in Nat
      /\ tftp_lastgot' \in BlkNum /\ tftp_lastgot < tftp_lastgot'
  BY <1>2, Types, NumberFacts
<1>4. LinkInv'
  <2>1. toServer \in Seq(Upstream(tftp_lastgot')) /\ toClient \in Seq(Downstream(tftp_lastgot'))
    BY <1>1, <1>3, UpstreamMono, DownstreamMono, SeqMono DEF LinkInv, Loading
  <2>2. ACK(tftp_blknum) \in Upstream(tftp_lastgot')
    BY <1>2, <1>3, AckIn
  <2> QED
    BY <1>1, <2>1, <2>2 DEF LinkInv
<1>5. LinkBytes'
  <2>1. ACK(tftp_blknum) \in CleanRequest
    BY <1>3, AckIn
  <2> QED
    BY <1>1, <2>1 DEF LinkBytes
<1>6. /\ src \in Seq(Byte) /\ Len(src) = tftp_data_available
      /\ tftp_data_available \in 0 .. BlkSize
      /\ \A i \in 1 .. tftp_data_available : src[i] \in Byte
  <2>1. tftp_data_available \in Nat /\ tftp_data_available <= BlkSize
    BY Types, Sizes DEF TftpTypeOK
  <2>2. \A i \in 1 .. tftp_data_available : tftpdata[0 + i - 1] \in Byte
    BY <1>2, <2>1 DEF Fresh
  <2> QED
    BY <2>1, <2>2, Sizes DEF Slice
<1>7. iobuf' = [i \in IoIdx |-> IF i \in Offset .. Offset + tftp_data_available - 1
                                THEN src[i - Offset + 1] ELSE iobuf[i]]
  <2>1. DOMAIN iobuf = IoIdx
    BY Types DEF LoopTypeOK
  <2> QED
    BY <1>1, <1>6, <2>1 DEF Memcpy
<1>8. /\ Offset \in {0, 1} /\ Offset' = Offset /\ (Offset = 0 <=> at_start)
  BY <1>1 DEF Offset
<1> HIDE DEF src
<1>9. \A i \in Offset' .. Offset' + unsent_data' - 1 : iobuf'[i] \in Byte
  <2> SUFFICES ASSUME NEW i \in Offset .. Offset + tftp_data_available - 1
               PROVE  iobuf'[i] \in Byte
    BY <1>1, <1>8
  <2>1. i \in IoIdx /\ i - Offset + 1 \in 1 .. tftp_data_available
    BY <1>6, <1>8, Sizes DEF IoIdx
  <2> QED
    BY <1>6, <1>7, <2>1
<1>10. FetchInv'
  <2>1. tftp_lastgot' # 0 /\ tftp_lastblk' <= tftp_lastgot'
    BY <1>1, <1>2, <1>3, NumberFacts DEF Fresh
  <2>2. ~eoi' => unsent_data' = BlkSize /\ tftp_request_in_progress' = "RRQ"
    BY <1>1, <1>2 DEF Fresh, FetchInv
  <2> QED
    BY <1>1, <1>9, <2>1, <2>2 DEF FetchInv
<1>11. HoldInv'
  <2>1. ~at_start => iobuf'[0] = iobuf[0]
    <3>1. 0 \in IoIdx
      BY Sizes DEF IoIdx
    <3> QED
      BY <1>6, <1>7, <1>8, <3>1
  <2> QED
    BY <1>1, <2>1 DEF HoldInv, Loading, c64Vars
<1>12. GotInv'
  BY <1>1 DEF GotInv, c64Vars
<1> QED
  BY <1>4, <1>5, <1>10, <1>11, <1>12

LEMMA GetReturnOrder ==
    ASSUME StateInv, GetError \/ GetNothing
    PROVE  ClientOrder'
<1> USE DEF StateInv, OrderInv, ClientOrder
<1>1. LinkBytes' /\ LinkInv' /\ HoldInv'
  BY DEF GetError, GetNothing, LinkBytes, LinkInv, HoldInv, Loading, linkVars, tftpVars, c64Vars
<1>2. GotInv'
  BY DEF GetError, GetNothing, GotInv, c64Vars
<1>3. FetchInv'
  <2>1. CASE GetError
    BY <2>1 DEF GetError, FetchInv
  <2>2. CASE GetNothing
    <3>1. ~Fresh
      BY <2>2, Sizes, Types DEF GetNothing, NothingNew, FetchInv, Fresh, Handed, TftpTypeOK, BlkNum
    <3> QED
      BY <2>2, <3>1 DEF GetNothing, FetchInv, Handed, tftpVars
  <2> QED
    BY <2>1, <2>2
<1> QED
  BY <1>1, <1>2, <1>3
(* The bytes of a block are bytes of the file; without data, what is sent  *)
(* is the byte held back, or the one byte of an empty file.                *)
LEMMA SendBlockOrder ==
    ASSUME StateInv, SendBlock
    PROVE  ClientOrder'
<1> USE DEF StateInv, OrderInv, ClientOrder
<1> DEFINE n == IF unsent_data > 0 THEN unsent_data - 1 + Offset ELSE 0
           last == IF unsent_data = 0 THEN 0 ELSE unsent_data - 1 + Offset
<1>1. /\ phase = "send" /\ UNCHANGED <<linkVars, tftpVars>>
      /\ tftp_lastgot # 0 /\ tftp_lastblk <= tftp_lastgot
      /\ phase' \in {"loop", "probe"}
      /\ phase' = "probe" <=> ~eoi
  BY DEF SendBlock, FetchInv
<1>2. LinkBytes' /\ LinkInv'
  BY <1>1 DEF LinkBytes, LinkInv, Loading, linkVars, tftpVars
<1>3. FetchInv'
  BY <1>1 DEF FetchInv, Handed, tftpVars
<1>4. /\ unsent_data \in 0 .. BlkSize /\ iobuf \in [IoIdx -> Octet]
      /\ Offset \in {0, 1} /\ (Offset = 0 <=> at_start)
      /\ \A i \in Offset .. Offset + unsent_data - 1 : iobuf[i] \in Byte
      /\ ~at_start => iobuf[0] \in Byte
      /\ at_start => got = <<>>
      /\ BlkSize \in Nat /\ BlkSize > 0
  BY <1>1, Types, Sizes DEF LoopTypeOK, FetchInv, HoldInv, Loading, Offset
<1>5. HoldInv'
  <2>1. CASE phase' = "probe"
    <3>1. unsent_data = BlkSize /\ ~at_start'
          /\ iobuf' = [iobuf EXCEPT ![0] = iobuf[IF at_start THEN BlkSize - 1 ELSE BlkSize]]
      BY <1>1, <2>1 DEF SendBlock, FetchInv
    <3>2. iobuf[IF at_start THEN BlkSize - 1 ELSE BlkSize] \in Byte
      <4>1. (IF at_start THEN BlkSize - 1 ELSE BlkSize) \in Offset .. Offset + unsent_data - 1
        BY <1>4, <3>1
      <4> QED
        BY <1>4, <4>1
    <3>3. iobuf'[0] \in Byte
      <4>1. 0 \in IoIdx
        BY Sizes DEF IoIdx
      <4> QED
        BY <1>4, <3>1, <3>2, <4>1
    <3> QED
      BY <2>1, <3>1, <3>3 DEF HoldInv, Loading
  <2>2. CASE phase' = "loop"
    BY <2>2 DEF HoldInv, Loading
  <2> QED
    BY <1>1, <2>1, <2>2
<1>6. Outgoing = Slice(iobuf, 0, n) \o (IF eoi THEN <<iobuf[last]>> ELSE <<>>)
  BY <1>4 DEF Outgoing, Offset
<1>7. got \in Seq(Byte)
  BY <1>1 DEF GotInv
<1>8. \A i \in 0 .. n - 1 : iobuf[i] \in Byte
  BY <1>4
<1>9. n \in Nat
  BY <1>4
<1>10. Slice(iobuf, 0, n) \in Seq(Byte)
  <2> HIDE DEF n
  <2>1. \A i \in 1 .. n : iobuf[0 + i - 1] \in Byte
    BY <1>8, <1>9
  <2> QED
    BY <1>9, <2>1 DEF Slice
<1>11. GotInv'
  <2>1. CASE ~eoi \/ iobuf[last] \in Byte
    <3>1. Outgoing \in Seq(Byte)
      <4> HIDE DEF n, last
      <4> QED
        BY <1>6, <1>10, <2>1
    <3> QED
      BY <1>7, <3>1 DEF GotInv, SendBlock
  <2>2. CASE eoi /\ iobuf[last] \notin Byte
    <3>1. unsent_data = 0 /\ at_start
      BY <1>4, <2>2
    <3>2. got = <<>> /\ Outgoing = <<iobuf[0]>>
      <4>1. n = 0 /\ last = 0
        BY <3>1
      <4>2. Slice(iobuf, 0, 0) = <<>>
        BY DEF Slice
      <4>3. <<>> \o <<iobuf[0]>> = <<iobuf[0]>>
        OBVIOUS
      <4> HIDE DEF n, last
      <4> QED
        BY <1>4, <1>6, <2>2, <3>1, <4>1, <4>2, <4>3
    <3>3. got' = <<iobuf[0]>>
      BY <3>2 DEF SendBlock
    <3> QED
      BY <2>2, <3>3 DEF GotInv, SendBlock
  <2> QED
    BY <2>1, <2>2
<1> QED
  BY <1>2, <1>3, <1>5, <1>11
-----------------------------------------------------------------------------
(* The client, during a SAVE and when it starts *)

LEMMA RecvByteOrder ==
    ASSUME StateInv, RecvByte \/ RecvAbort
    PROVE  ClientOrder'
<1> USE DEF StateInv, OrderInv, ClientOrder
<1>1. /\ phase \in {"recv", "byte"} /\ ~Loading' /\ UNCHANGED <<linkVars, got>>
  BY DEF RecvByte, RecvAbort, Loading
<1>2. LinkBytes' /\ LinkInv' /\ FetchInv' /\ GotInv'
  BY <1>1 DEF LinkBytes, LinkInv, FetchInv, GotInv, Loading, linkVars
<1>3. HoldInv'
  <2>1. CASE RecvAbort
    BY <2>1 DEF RecvAbort, HoldInv, Loading
  <2>2. CASE RecvByte
    <3>1. /\ job \in SaveJob /\ given < Len(job.data) /\ given \in Nat
          /\ a \in 0 .. BlkSize /\ iobuf \in [IoIdx -> Octet] /\ a < BlkSize
      BY <1>1, Types DEF Inv, LoopInv, LoopTypeOK, C64TypeOK
    <3>2. job.data[given + 1] \in Byte
      BY <3>1 DEF SaveJob
    <3>3. iobuf' = [iobuf EXCEPT ![a] = job.data[given + 1]] /\ a' = a + 1
      BY <2>2 DEF RecvByte
    <3>4. \A i \in 0 .. a - 1 : iobuf[i] \in Byte
      BY <1>1, <2>2 DEF HoldInv
    <3>5. \A i \in 0 .. a' - 1 : iobuf'[i] \in Byte
      BY <3>1, <3>2, <3>3, <3>4, Sizes DEF IoIdx
    <3> QED
      BY <1>1, <3>5 DEF HoldInv
  <2> QED
    BY <2>1, <2>2
<1> QED
  BY <1>2, <1>3

LEMMA PutOrder ==
    ASSUME StateInv, PutBlock \/ PutEmpty
    PROVE  ClientOrder'
<1> USE DEF StateInv, OrderInv, ClientOrder
<1>1. /\ phase \in {"put", "putEmpty"} /\ phase' \in {"loop", "recv", "putEmpty"}
      /\ UNCHANGED <<got, toClient, iobuf>>
      /\ phase' = "recv" => a' = 0
  BY DEF PutBlock, PutEmpty, tftp_put_block
<1>2. LinkInv' /\ FetchInv' /\ HoldInv' /\ GotInv'
  BY <1>1 DEF LinkInv, FetchInv, HoldInv, GotInv, Loading
<1>3. PICK n \in 0 .. BlkSize :
        /\ toServer' = Append(toServer, DATA(NextBlk(tftp_blknum), Slice(iobuf, 0, n)))
        /\ \A i \in 0 .. n - 1 : iobuf[i] \in Byte
  <2>1. CASE PutBlock
    BY <2>1, Types DEF PutBlock, tftp_put_block, HoldInv, LoopTypeOK
  <2>2. CASE PutEmpty
    BY <2>2, Sizes DEF PutEmpty, tftp_put_block
  <2> QED
    BY <2>1, <2>2
<1>4. Slice(iobuf, 0, n) \in Seq(Byte) /\ Len(Slice(iobuf, 0, n)) = n
  <2>1. n \in Nat /\ \A i \in 1 .. n : iobuf[0 + i - 1] \in Byte
    BY <1>3, Sizes
  <2> QED
    BY <2>1 DEF Slice
<1>5. DATA(NextBlk(tftp_blknum), Slice(iobuf, 0, n)) \in CleanRequest
  <2>1. Slice(iobuf, 0, n) \in Block
    BY <1>4, SeqMono, Sizes DEF Block, Octet
  <2>2. NextBlk(tftp_blknum) \in BlkNum
    BY Types, NextBlkType
  <2> QED
    BY <1>4, <2>1, <2>2 DEF DATA, CleanRequest, ServerPacket, DataPacket
<1>6. LinkBytes'
  BY <1>1, <1>3, <1>5 DEF LinkBytes
<1> QED
  BY <1>2, <1>6

LEMMA ResetOrder ==
    ASSUME StateInv, ClientReset \/ SetupDrop \/ SetupDone
    PROVE  ClientOrder'
<1> USE DEF StateInv, OrderInv, ClientOrder
<1>1. /\ phase' \in {"setup", "loop"} /\ UNCHANGED <<toServer, got>>
      /\ toClient' \in Seq(CleanReply)
      /\ (phase \in {"loop", "setup"} => outcome' = outcome \/ outcome = "busy")
  <2>1. <<>> \in Seq(CleanReply)
    OBVIOUS
  <2> QED
    BY <2>1, HeadIn DEF ClientReset, SetupDrop, SetupDone, LinkBytes, linkVars,
       clientVars, loopVars, c64Vars
<1>2. LinkBytes' /\ LinkInv' /\ FetchInv' /\ HoldInv'
  BY <1>1 DEF LinkBytes, LinkInv, FetchInv, HoldInv, Loading
<1>3. GotInv'
  BY <1>1 DEF GotInv
<1> QED
  BY <1>2, <1>3
-----------------------------------------------------------------------------
(* The daemon *)

(* What the daemon leaves in the link, and on the disk *)
LEMMA LinkStep ==
    ASSUME StateInv, UNCHANGED clientVars,
           toServer' \in Seq(CleanRequest), toClient' \in Seq(CleanReply),
           Loading => /\ toServer' \in Seq(Upstream(tftp_lastgot))
                      /\ toClient' \in Seq(Downstream(tftp_lastgot))
    PROVE  ClientOrder'
<1> USE DEF StateInv, OrderInv, ClientOrder, clientVars, tftpVars, loopVars, c64Vars
<1>1. LinkBytes' /\ LinkInv'
  BY DEF LinkBytes, LinkInv, Loading
<1>2. FetchInv' /\ HoldInv' /\ GotInv'
  BY DEF FetchInv, HoldInv, GotInv, Loading, Handed, Fresh, Offset
<1> QED
  BY <1>1, <1>2

LEMMA ReplyIn ==
    ASSUME NEW S, NEW s \in Seq(S), NEW x \in S
    PROVE  Append(s, x) \in Seq(S)
OBVIOUS

LEMMA ControlReply ==
    ASSUME NEW m \in BlkNum
    PROVE  /\ Reply("OACK", 0, <<>>) \in CleanReply \cap Downstream(m)
           /\ Reply("ERR", 1, <<>>) \in CleanReply \cap Downstream(m)
           /\ Reply("ACK", m, <<>>) \in CleanReply
<1>1. <<>> \in Block /\ <<>> \in Seq(Byte)
  BY EmptyBlock
<1>2. 0 \in BlkNum /\ 1 \in BlkNum
  BY SMTT(30) DEF BlkNum, BlkMod
<1> QED
  BY <1>1, <1>2 DEF Reply, CleanReply, ClientPacket, Downstream

(* All that it receives during a LOAD is a request for one, or the         *)
(* acknowledgement of a block that has been handed out.                    *)
LEMMA HeadOf ==
    ASSUME StateInv, toServer # <<>>
    PROVE  /\ Head(toServer) \in CleanRequest
           /\ Tail(toServer) \in Seq(CleanRequest)
           /\ Loading => /\ Head(toServer) \in Upstream(tftp_lastgot)
                         /\ Tail(toServer) \in Seq(Upstream(tftp_lastgot))
BY HeadIn DEF StateInv, OrderInv, ClientOrder, LinkBytes, LinkInv

LEMMA ServeRrqOrder ==
    ASSUME StateInv, ServeRrq, UNCHANGED clientVars
    PROVE  ClientOrder' /\ DiskBytes'
<1> DEFINE p == Head(toServer)
<1>1. tftp_lastgot \in BlkNum
  BY Types DEF StateInv
<1>2. /\ toServer' \in Seq(CleanRequest)
      /\ Loading => toServer' \in Seq(Upstream(tftp_lastgot))
  <2>1. CASE Take
    BY <2>1, HeadOf DEF Take
  <2>2. CASE EndTransfer(Tail(toServer))
    BY <2>2, HeadOf, Waiting DEF ServeRrq
  <2> QED
    BY <2>1, <2>2 DEF ServeRrq
<1>3. /\ toClient' \in Seq(CleanReply)
      /\ Loading => toClient' \in Seq(Downstream(tftp_lastgot))
  <2>1. PICK x \in CleanReply \cap Downstream(tftp_lastgot) : toClient' = Append(toClient, x)
    BY <1>1, ControlReply DEF ServeRrq
  <2> QED
    BY <2>1, ReplyIn DEF StateInv, OrderInv, ClientOrder, LinkBytes, LinkInv
<1>4. DiskBytes'
  <2>1. p.name \in Name
    BY HeadOf DEF ServeRrq, CleanRequest, ServerPacket, Request, AckPacket, DataPacket
  <2> QED
    BY <2>1 DEF ServeRrq, StateInv, OrderInv, DiskBytes
<1> QED
  BY <1>2, <1>3, <1>4, LinkStep

LEMMA ServeWrqOrder ==
    ASSUME StateInv, ServeWrq, UNCHANGED clientVars
    PROVE  ClientOrder' /\ DiskBytes'
<1> DEFINE p == Head(toServer)
<1>0. 0 \in BlkNum
  BY BlkNumFacts
<1>1. ~Loading
  BY HeadOf DEF ServeWrq, Upstream
<1>2. toServer' \in Seq(CleanRequest)
  <2>1. CASE Take
    BY <2>1, HeadOf DEF Take
  <2>2. CASE EndTransfer(Tail(toServer))
    BY <2>2, HeadOf, Waiting DEF ServeWrq
  <2> QED
    BY <2>1, <2>2 DEF ServeWrq
<1>3. toClient' \in Seq(CleanReply)
  <2>1. PICK x \in CleanReply : toClient' = Append(toClient, x)
    BY <1>0, ControlReply DEF ServeWrq
  <2> QED
    BY <2>1, ReplyIn DEF StateInv, OrderInv, ClientOrder, LinkBytes
<1>4. DiskBytes'
  <2>1. p.name \in Name
    BY HeadOf DEF ServeWrq, CleanRequest, ServerPacket, Request, AckPacket, DataPacket
  <2>2. CASE /\ file'.data = <<>>
             /\ disk' = [disk EXCEPT ![p.name] = <<>>]
             /\ unwritten' = [unwritten EXCEPT ![p.name] = <<>>]
    <3>1. <<>> \in Seq(Byte)
      OBVIOUS
    <3> HIDE DEF p
    <3> QED
      BY <2>1, <2>2, <3>1 DEF StateInv, OrderInv, DiskBytes
  <2>3. CASE UNCHANGED deviceVars
    BY <2>3 DEF StateInv, OrderInv, DiskBytes, deviceVars
  <2> QED
    BY <2>2, <2>3 DEF ServeWrq
<1> QED
  BY <1>1, <1>2, <1>3, <1>4, LinkStep

(* The block after the one acknowledged is at most the one after the block *)
(* handed out last; it is block 0 only after block 65535.                  *)
LEMMA SendDataOrder ==
    ASSUME StateInv, NEW m \in BlkNum, Loading => m <= tftp_lastgot,
           SendData(NextBlk(m))
    PROVE  /\ toClient' \in Seq(CleanReply)
           /\ Loading => toClient' \in Seq(Downstream(tftp_lastgot))
           /\ file'.data = file.data
<1> USE DEF StateInv, OrderInv, ClientOrder
<1>1. /\ file \in FileHandle /\ file.data \in Seq(Byte)
      /\ file.pos \in Nat /\ file.pos <= Len(file.data) /\ Len(file.data) \in Nat
  BY Types DEF ServerTypeOK, FileHandle, DiskBytes, Inv, FileInv
<1>2. BlockLen \in 0 .. BlkSize /\ file.pos + BlockLen <= Len(file.data)
  BY <1>1, Sizes DEF BlockLen, Remaining
<1> DEFINE d == SubSeq(file.data, file.pos + 1, file.pos + BlockLen)
<1>3. d \in Seq(Byte) /\ d \in Block
  <2>1. d \in Seq(Byte)
    BY <1>1, <1>2, SubSeqProperties
  <2>2. file.data \in Seq(Octet)
    BY <1>1, SeqMono DEF Octet
  <2> QED
    BY <1>1, <1>2, <2>1, <2>2, BlockType
<1> HIDE DEF d
<1>4. NextBlk(m) \in BlkNum
  BY NextBlkType
<1>5. PICK x \in Seq(Byte) \cap Block :
         toClient' = Append(toClient, Reply("DATA", NextBlk(m), x))
  <2>1. <<>> \in Seq(Byte) \cap Block
    BY EmptyBlock
  <2>2. \E x \in {<<>>, d} : toClient' = Append(toClient, Reply("DATA", NextBlk(m), x))
    BY DEF SendData, d
  <2> QED
    BY <1>3, <2>1, <2>2
<1>6. Reply("DATA", NextBlk(m), x) \in CleanReply
  BY <1>4, <1>5 DEF Reply, CleanReply, ClientPacket
<1>7. toClient' \in Seq(CleanReply)
  BY <1>5, <1>6, ReplyIn DEF LinkBytes
<1>8. ASSUME Loading
      PROVE  toClient' \in Seq(Downstream(tftp_lastgot))
  <2>1. NextBlk(m) <= tftp_lastgot + 1 /\ (NextBlk(m) = 0 => tftp_lastgot = BlkMod - 1)
    BY <1>8, Types, NumberFacts DEF BlkNum
  <2>2. Reply("DATA", NextBlk(m), x) \in Downstream(tftp_lastgot)
    BY <1>6, <2>1 DEF Reply, Downstream
  <2> QED
    BY <1>5, <1>8, <2>2, ReplyIn DEF LinkInv
<1>9. file'.data = file.data
  BY <1>1 DEF SendData, FileHandle
<1> QED
  BY <1>7, <1>8, <1>9

(* What Ruby writes out are bytes of files. *)
LEMMA WriteBytes ==
    ASSUME Inv, DiskBytes, NEW n \in Name, disk[n] # NoFile, NEW d \in Seq(Byte),
           disk' = [disk EXCEPT ![n] = @ \o d],
           unwritten' = [unwritten EXCEPT ![n] = <<>>], file'.data = file.data
    PROVE  DiskBytes'
<1>1. disk[n] \o d \in Seq(Byte) /\ <<>> \in Seq(Byte)
  BY DEF DiskBytes
<1> QED
  BY <1>1 DEF DiskBytes

LEMMA CrashOrder ==
    ASSUME StateInv, Crash, UNCHANGED clientVars
    PROVE  ClientOrder' /\ DiskBytes'
<1>1. /\ toServer' \in Seq(CleanRequest) /\ toClient' = toClient
      /\ Loading => toServer' \in Seq(Upstream(tftp_lastgot))
  BY HeadOf DEF Crash, Take
<1>2. DiskBytes'
  BY DEF Crash, deviceVars, DiskBytes, StateInv, OrderInv
<1> QED
  BY <1>1, <1>2, LinkStep DEF StateInv, OrderInv, ClientOrder, LinkBytes, LinkInv

LEMMA ServeAckOrder ==
    ASSUME StateInv, ServeAck, UNCHANGED clientVars
    PROVE  ClientOrder' /\ DiskBytes'
<1> DEFINE p == Head(toServer)
<1>1. p \in CleanRequest /\ p.blk \in BlkNum /\ (Loading => p.blk <= tftp_lastgot)
  BY HeadOf DEF ServeAck, CleanRequest, ServerPacket, Request, AckPacket, DataPacket,
                Upstream
<1>2. CASE CloseFile /\ EndTransfer(Tail(toServer)) /\ UNCHANGED toClient
  <2>1. /\ toServer' \in Seq(CleanRequest)
        /\ Loading => toServer' \in Seq(Upstream(tftp_lastgot))
    BY <1>2, HeadOf, Waiting DEF ServeAck
  <2>2. DiskBytes'
    <3>1. /\ file \in FileHandle /\ file.name \in Name /\ file'.data = file.data
          /\ file.mode = "write" => disk[file.name] # NoFile
      BY <1>2, Types DEF CloseFile, StateInv, Inv, ServerTypeOK, FileHandle, FileInv
    <3>2. unwritten[file.name] \in Seq(Byte)
      BY <3>1 DEF StateInv, OrderInv, DiskBytes
    <3>3. CASE file.mode = "write"
      BY <1>2, <3>1, <3>2, <3>3, WriteBytes DEF CloseFile, StateInv, OrderInv
    <3>4. CASE file.mode # "write"
      BY <1>2, <3>1, <3>4 DEF CloseFile, StateInv, OrderInv, DiskBytes
    <3> QED
      BY <3>3, <3>4
  <2> QED
    BY <1>2, <2>1, <2>2, LinkStep DEF StateInv, OrderInv, ClientOrder, LinkBytes, LinkInv
<1>3. CASE SendData(NextBlk(p.blk)) /\ Take /\ UNCHANGED <<disk, unwritten>>
  <2>1. /\ toServer' \in Seq(CleanRequest)
        /\ Loading => toServer' \in Seq(Upstream(tftp_lastgot))
    BY <1>3, HeadOf DEF Take
  <2>2. /\ toClient' \in Seq(CleanReply)
        /\ Loading => toClient' \in Seq(Downstream(tftp_lastgot))
        /\ file'.data = file.data
    BY <1>1, <1>3, SendDataOrder
  <2>3. DiskBytes'
    BY <1>3, <2>2 DEF StateInv, OrderInv, DiskBytes
  <2> QED
    BY <2>1, <2>2, <2>3, LinkStep
<1>4. CASE Crash
  BY <1>4, CrashOrder
<1> QED
  BY <1>2, <1>3, <1>4 DEF ServeAck

LEMMA ServeDataOrder ==
    ASSUME StateInv, ServeData, UNCHANGED clientVars
    PROVE  ClientOrder' /\ DiskBytes'
<1> DEFINE p == Head(toServer)
           written == unwritten[file.name] \o p.data
<1>1. ~Loading
  BY SMTT(30), HeadOf DEF ServeData, Upstream
<1>2. p.blk \in BlkNum /\ p.data \in Seq(Byte)
  BY HeadOf DEF ServeData, CleanRequest, ServerPacket, Request, AckPacket, DataPacket
<1>3. CASE Crash
  BY <1>3, CrashOrder
<1>4. CASE ~Crash
  <2>1. toClient' \in Seq(CleanReply)
    <3>1. toClient' = Append(toClient, Reply("ACK", p.blk, <<>>))
      BY <1>4 DEF ServeData
    <3>2. Reply("ACK", p.blk, <<>>) \in CleanReply /\ toClient \in Seq(CleanReply)
      BY <1>2, ControlReply DEF StateInv, OrderInv, ClientOrder, LinkBytes
    <3> QED
      BY SMTT(30), <3>1, <3>2, ReplyIn
  <2>2. toServer' \in Seq(CleanRequest)
    <3>1. CASE Take
      BY <3>1, HeadOf DEF Take
    <3>2. CASE EndTransfer(Tail(toServer))
      BY <3>2, HeadOf, Waiting DEF ServeData
    <3> QED
      BY <1>4, <3>1, <3>2 DEF ServeData
  <2>3. /\ file \in FileHandle /\ file.name \in Name /\ file.data \in Seq(Byte)
        /\ written \in Seq(Byte) /\ disk[file.name] # NoFile
    <3>1. file \in FileHandle /\ file.name \in Name /\ disk[file.name] # NoFile
      BY <1>4, Types DEF ServeData, StateInv, Inv, ServerTypeOK, FileHandle, FileInv
    <3>2. file.data \in Seq(Byte) /\ unwritten[file.name] \in Seq(Byte)
      BY <3>1 DEF StateInv, OrderInv, DiskBytes
    <3> HIDE DEF p
    <3> QED
      BY <1>2, <3>1, <3>2
  <2>4. DiskBytes'
    <3>1. CASE /\ file' = [file EXCEPT !.mode = "closed"]
               /\ disk' = [disk EXCEPT ![file.name] = @ \o written]
               /\ unwritten' = [unwritten EXCEPT ![file.name] = <<>>]
      <4>1. file'.data = file.data
        BY <2>3, <3>1 DEF FileHandle
      <4> HIDE DEF written
      <4> QED
        BY <2>3, <3>1, <4>1, WriteBytes DEF StateInv, OrderInv
    <3>2. CASE /\ unwritten' = [unwritten EXCEPT ![file.name] = written]
               /\ UNCHANGED <<file, disk>>
      <4> HIDE DEF written
      <4> QED
        BY <2>3, <3>2 DEF StateInv, OrderInv, DiskBytes
    <3> QED
      BY <1>4, <3>1, <3>2 DEF ServeData
  <2> QED
    BY <1>1, <2>1, <2>2, <2>4, LinkStep
<1> QED
  BY SMTT(30), <1>3, <1>4

LEMMA TimeoutOrder ==
    ASSUME StateInv, ServerTimeout, UNCHANGED clientVars
    PROVE  ClientOrder' /\ DiskBytes'
<1>1. toServer' = <<>> /\ toClient' = toClient
  <2>1. PICK k \in 0 .. Len(<<>>) : toServer' = SubSeq(<<>>, k + 1, Len(<<>>))
    BY DEF ServerTimeout, EndTransfer
  <2>2. Len(<<>>) = 0 /\ SubSeq(<<>>, 1, 0) = <<>>
    OBVIOUS
  <2> QED
    BY <2>1, <2>2 DEF ServerTimeout
<1>2. toServer' \in Seq(CleanRequest) /\ toServer' \in Seq(Upstream(tftp_lastgot))
  BY <1>1
<1>3. DiskBytes'
  BY DEF ServerTimeout, deviceVars, DiskBytes, StateInv, OrderInv
<1> QED
  BY <1>1, <1>2, <1>3, LinkStep DEF StateInv, OrderInv, ClientOrder, LinkBytes, LinkInv

LEMMA RubyWriteOrder ==
    ASSUME StateInv, NEW n \in Name, WriteOut(n), UNCHANGED clientVars
    PROVE  ClientOrder' /\ DiskBytes'
<1>1. DiskBytes'
  <2>1. disk[n] # NoFile /\ unwritten[n] \in Seq(Byte)
    BY DEF WriteOut, StateInv, OrderInv, Inv, FileInv, DiskBytes
  <2> QED
    BY <2>1, WriteBytes DEF WriteOut, StateInv, OrderInv
<1>2. UNCHANGED linkVars
  BY DEF WriteOut
<1> QED
  BY <1>1, <1>2, LinkStep
     DEF linkVars, StateInv, OrderInv, ClientOrder, LinkBytes, LinkInv

LEMMA FaultOrder ==
    ASSUME StateInv, UNCHANGED clientVars,
           LoseToServer \/ LoseToClient \/ DuplicateToClient \/ DuplicateToServer
    PROVE  ClientOrder'
<1>1. toServer' \in Seq(CleanRequest) /\ toClient' \in Seq(CleanReply)
  BY FaultIn DEF StateInv, OrderInv, ClientOrder, LinkBytes
<1>2. Loading => /\ toServer' \in Seq(Upstream(tftp_lastgot))
                 /\ toClient' \in Seq(Downstream(tftp_lastgot))
  BY FaultIn DEF StateInv, OrderInv, ClientOrder, LinkInv
<1> QED
  BY <1>1, <1>2, LinkStep
-----------------------------------------------------------------------------
(* All together *)

LEMMA DiskStutter ==
    ASSUME OrderInv, UNCHANGED serverVars
    PROVE  DiskBytes'
BY DEF OrderInv, DiskBytes, serverVars, deviceVars

LEMMA InitOrder == Init => OrderInv
<1> SUFFICES ASSUME Init PROVE OrderInv
  OBVIOUS
<1> USE DEF Init
<1>1. LinkBytes /\ LinkInv /\ FetchInv /\ GotInv
  BY DEF LinkInit, ClientInit, LinkBytes, LinkInv, FetchInv, GotInv, Loading
<1>2. HoldInv
  BY DEF ClientInit, HoldInv, Loading
<1>3. DiskBytes
  <2>1. <<>> \in Seq(Byte)
    OBVIOUS
  <2>2. PICK n \in Name : file = [mode |-> "closed", name |-> n, data |-> <<>>, pos |-> 0]
    BY DEF ServerInit
  <2> QED
    BY <2>1, <2>2, Disk0Assumption DEF ServerInit, DiskBytes
<1> QED
  BY <1>1, <1>2, <1>3 DEF OrderInv, ClientOrder

LEMMA NextOrder ==
    ASSUME Orderly, StateInv, [Next]_vars
    PROVE  OrderInv'
<1> USE DEF StateInv
<1>1. CASE Command
  <2>1. Quiet
    BY <1>1 DEF Command, MayStart, Orderly
  <2>2. ClientOrder'
    <3>1. \A j \in env.jobs : j.name \in Name
      BY SaveJobsAssumption, EnvironmentAssumption DEF Environment, Inv, TypeOK
    <3> QED
      BY <1>1, <2>1, <3>1, StartLoadOrder, StartSaveOrder DEF Command
  <2> QED
    BY <1>1, <2>2, DiskStutter DEF Command, OrderInv
<1>2. CASE Poll
  BY <1>2, GetProbeOrder, PollOrder, DiskStutter DEF Poll, OrderInv
<1>3. CASE LoadStep
  BY <1>3, GetReturnOrder, GetBlockOrder, SendBlockOrder, DiskStutter DEF LoadStep, OrderInv
<1>4. CASE SaveStep
  BY <1>4, RecvByteOrder, PutOrder, DiskStutter DEF SaveStep, OrderInv
<1>5. CASE Abort
  BY <1>5, RecvByteOrder, DiskStutter DEF Abort, OrderInv
<1>6. CASE Reset
  BY <1>6, ResetOrder, DiskStutter DEF Reset, OrderInv
<1>7. CASE Setup
  BY <1>7, ResetOrder, DiskStutter DEF Setup, OrderInv
<1>8. CASE Serve
  BY <1>8, ServeRrqOrder, ServeWrqOrder, ServeAckOrder, ServeDataOrder DEF Serve, OrderInv
<1>9. CASE Timeout
  BY <1>9, TimeoutOrder DEF Timeout, OrderInv
<1>10. CASE RubyWrite
  BY <1>10, RubyWriteOrder DEF RubyWrite, OrderInv
<1>11. CASE Loss
  BY <1>11, FaultOrder, DiskStutter DEF Loss, OrderInv
<1>12. CASE Duplicate
  BY <1>12, FaultOrder, DiskStutter DEF Duplicate, OrderInv
<1>13. CASE UNCHANGED vars
  <2>1. ClientOrder'
    BY <1>13, LinkStep DEF vars, linkVars, OrderInv, ClientOrder, LinkBytes, LinkInv
  <2> QED
    BY <1>13, <2>1, DiskStutter DEF vars, OrderInv
<1> QED
  BY <1>1, <1>2, <1>3, <1>4, <1>5, <1>6, <1>7, <1>8, <1>9, <1>10, <1>11, <1>12,
     <1>13 DEF Next

(* The pace of the commands does not change. *)
LEMMA PaceKept ==
    ASSUME Orderly, [Next]_vars
    PROVE  Orderly'
<1>1. env' = env
  BY DEF Next, Command, Poll, LoadStep, SaveStep, Abort, Reset, Setup, Serve, Timeout,
         RubyWrite, Loss, Duplicate, boundVars, vars
<1> QED
  BY <1>1 DEF Orderly

LEMMA OrderlyInv == Spec /\ Orderly => []StateInv
<1>1. Init => StateInv
  BY InitInv, InitOrder DEF StateInv
<1>2. Orderly /\ StateInv /\ [Next]_vars => Orderly' /\ StateInv'
  BY NextInv, NextOrder, PaceKept DEF StateInv
<1> QED
  BY <1>1, <1>2, PTL DEF Spec

(* The C64 is given bytes of files only, never a header or a file name,    *)
(* but for the byte it is told EOI with for an empty file: whatever the    *)
(* network loses or repeats, for files of any length, as long as no        *)
(* command is given while a datagram is under way.                         *)
THEOREM BytesCorrect == Spec /\ Orderly => []OnlyFileBytes
<1>1. StateInv => OnlyFileBytes
  <2> SUFFICES ASSUME StateInv, NEW i \in DOMAIN got, got[i] = Stale
               PROVE  Len(got) = 1 /\ outcome = "eoi"
    BY DEF OnlyFileBytes
  <2>1. got \notin Seq(Byte)
    BY StaleAssumption
  <2> QED
    BY <2>1 DEF StateInv, OrderInv, ClientOrder, GotInv
<1> QED
  BY <1>1, OrderlyInv, PTL

(* Under the same condition tftp_get_block hands out the blocks of a LOAD  *)
(* one after the other, 1, 2, 3, ..., none twice and none left out.        *)
THEOREM OrderCorrect == Spec /\ Orderly => BlocksInOrder
<1>1. StateInv => [GetBlock => /\ tftp_lastgot' > tftp_lastgot
                               /\ Orderly => tftp_lastgot' = tftp_lastgot + 1]_vars
  BY GetBlockNext, Types, NumberFacts DEF StateInv
<1> QED
  BY <1>1, OrderlyInv, PTL DEF Spec, BlocksInOrder
=============================================================================
