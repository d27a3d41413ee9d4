-------------------------- MODULE TftpServiceProofs --------------------------
(***************************************************************************)
(* Proofs that LOAD and SAVE implement FileService: the C64 is given the   *)
(* file it asked for, and what it saves is stored, for files and blocks of *)
(* any size.                                                               *)
(***************************************************************************)
EXTENDS TftpTransferProofs

(* The network repeats nothing on the way to the daemon, which serves every*)
(* acknowledgement as a new one; and after a reset the user waits for the  *)
(* daemon, which would go on with the flags of the transfer broken off.    *)
Calm == Orderly /\ env.dupToServer = 0 /\ (env.pace = "idle" \/ env.resets = 0)

Saving == phase \in {"recv", "byte", "put", "putEmpty"}
InLoop == ~Loading /\ phase # "setup"
Old(p) == p.blk = tftp_lastblk
Arriving == {toClient[i] : i \in DOMAIN toClient}
AllOld == \A p \in Arriving : Old(p)
Asked(type) == toServer # <<>> /\ Head(toServer).type = type

(* At most one datagram is under way to the daemon, and then none to the   *)
(* client but repeats of the one it has seen last; nor is there anything   *)
(* new behind a new datagram.                                              *)
TurnInv ==
    /\ Len(toServer) <= 1
    /\ toServer # <<>> => AllOld
    /\ \A i, j \in DOMAIN toClient :
         i < j /\ ~Old(toClient[i]) => toClient[j] = toClient[i]

(* What is under way belongs to the job the C64 has given last. *)
JobInv ==
    /\ Loading => job.cmd = "load" /\ outcome = "busy" /\ tftp_request_in_progress # "WRQ"
    /\ Saving => job.cmd = "save" /\ outcome = "busy"
    /\ phase \in {"loop", "setup"} => outcome # "busy"
    /\ tftp_request_in_progress = "RRQ" => Loading
    /\ \A p \in Arriving : /\ p.type = "DATA" => job.cmd = "load"
                           /\ p.type = "ACK" => job.cmd = "save"
    /\ Asked("RRQ") => /\ job.cmd = "load" /\ Head(toServer).name = job.name
                       /\ got = <<>> /\ ~InLoop
    /\ Asked("ACK") => job.cmd = "load"
    /\ Asked("WRQ") => /\ job.cmd = "save" /\ Head(toServer).name = job.name
                       /\ outcome # "saved"
                       /\ InLoop => tftp_request_in_progress = "WRQ"
    /\ Asked("DATA") => job.cmd = "save"
    /\ InLoop /\ tftp_request_in_progress # "WRQ" =>
         \A p \in Arriving : p.type = "OACK" => Old(p)
-----------------------------------------------------------------------------
(* LOAD *)

Reached(k) == IF k * BlkSize <= Len(file.data) THEN k * BlkSize ELSE Len(file.data)
Chunk(k) == SubSeq(file.data, Reached(k - 1) + 1, Reached(k))

Over == last_packet \/ status \in {"idle", "crashed"}
Unflagged == ~send_empty \/ status = "crashed"

(* The daemon has sent k blocks of the file that is asked for, all of them *)
(* full if it is going to send another one.                                *)
SentBlocks(k) ==
    /\ file.name = job.name
    /\ file.pos = Reached(k)
    /\ ~Over => /\ k * BlkSize <= Len(file.data)
                /\ send_empty <=> k > 0 /\ k * BlkSize = Len(file.data)

(* The C64 has been given k full blocks, but for their last byte. *)
Delivered(k) ==
    IF k = 0 THEN at_start /\ got = <<>>
    ELSE /\ ~at_start
         /\ file.name = job.name
         /\ k * BlkSize <= Len(file.data)
         /\ got = SubSeq(file.data, 1, k * BlkSize - 1)
         /\ iobuf[0] = file.data[k * BlkSize]

(* The next block is in tftpdata, or in iobuf. *)
Received ==
    /\ SentBlocks(tftp_lastgot + 1)
    /\ toServer = <<>>
    /\ \A p \in Arriving : Old(p) /\ p.type # "ERR"
    /\ tftp_data_available = Len(Chunk(tftp_lastgot + 1))
    /\ \A i \in 1 .. tftp_data_available : tftpdata[i - 1] = Chunk(tftp_lastgot + 1)[i]
    /\ tftp_end_of_data <=> tftp_data_available # BlkSize
Fetched ==
    /\ tftp_lastgot # 0
    /\ Delivered(tftp_lastgot - 1)
    /\ file.name = job.name
    /\ unsent_data = Len(Chunk(tftp_lastgot))
    /\ \A i \in 1 .. unsent_data : iobuf[Offset + i - 1] = Chunk(tftp_lastgot)[i]
    /\ eoi <=> unsent_data # BlkSize
    /\ eoi <=> tftp_end_of_data
    /\ eoi => tftp_request_in_progress = "NORQ" /\ Over

MoreExpected == tftp_lastgot # BlkMod - 1 => ~tftp_end_of_data

(* What is under way during a LOAD *)
RequestInv ==
    /\ Asked("RRQ") => /\ phase = "probe" /\ toClient = <<>>
                       /\ tftp_lastgot = 0 /\ tftp_lastblk = BlkMod - 1
                       /\ Unflagged
    /\ Asked("ACK") => /\ Head(toServer).blk = tftp_lastgot /\ tftp_lastblk = tftp_lastgot
                       /\ SentBlocks(tftp_lastgot)
ReplyInv(p) ==
    /\ p.type = "OACK" /\ ~Old(p) =>
         tftp_lastgot = 0 /\ tftp_lastblk = BlkMod - 1 /\ SentBlocks(0)
    /\ p.type = "DATA" /\ ~Old(p) => p.blk = tftp_lastgot + 1 \/ tftp_lastgot = BlkMod - 1
    /\ p.type = "DATA" /\ p.blk = tftp_lastgot + 1 => p.data = Chunk(p.blk) /\ SentBlocks(p.blk)
    /\ p.type = "ERR" => toServer = <<>> /\ Unflagged

LoadInv == Loading =>
    /\ RequestInv
    /\ \A p \in Arriving : ReplyInv(p)
    /\ at_start /\ unsent_data = 0 => iobuf[0] = Stale
    /\ phase \in {"probe", "block"} => Delivered(tftp_lastgot) /\ unsent_data = 0
    /\ phase = "probe" => ~tftp_error /\ MoreExpected
    /\ phase = "block" /\ tftp_error => /\ toServer = <<>> /\ AllOld /\ Unflagged
                                        /\ tftp_request_in_progress = "NORQ"
    /\ phase = "block" /\ ~tftp_error => IF Fresh THEN Received ELSE MoreExpected
    /\ phase = "send" => Fetched /\ ~tftp_error

(* The flags of the TFTP object *)
FlagInv ==
    /\ status = "idle" => ~last_packet /\ ~send_empty
    /\ ~(last_packet /\ send_empty)
    /\ env.pace # "idle" /\ ~Loading => Unflagged /\ (Asked("ACK") => Over)

(* What the C64 has been given *)
GivenInv == job.cmd = "load" /\ got # <<>> =>
    /\ file.name = job.name
    /\ \/ IsPrefix(got, file.data) /\ (outcome = "eoi" => got = file.data)
       \/ EmptyFileLoad
-----------------------------------------------------------------------------
(* SAVE *)

Sent == IF phase = "putEmpty" THEN given ELSE given - a

StoredUpTo(k) ==
    /\ k \in 0 .. Len(job.data)
    /\ disk[job.name] # NoFile
    /\ Stored(job.name) = SubSeq(job.data, 1, k)
StoredSome == \E k \in 0 .. Len(job.data) : StoredUpTo(k)

CollectInv == Saving =>
    /\ a <= given
    /\ given <= Len(job.data)
    /\ phase \in {"put", "putEmpty"} /\ eoi => given = Len(job.data)
    /\ phase = "putEmpty" => eoi
    /\ phase # "putEmpty" => \A i \in 1 .. a : iobuf[i - 1] = job.data[Sent + i]

Answer(p) == ~Old(p) /\ p.type \in {"ACK", "OACK"}
MayPut == tftp_clear_to_send \/ \E p \in Arriving : Answer(p)

Pending == LET d == Head(toServer).data IN
    /\ file.name = job.name
    /\ \E k \in 0 .. Len(job.data) :
         /\ StoredUpTo(k)
         /\ k + Len(d) <= Len(job.data)
         /\ d = SubSeq(job.data, k + 1, k + Len(d))
         /\ Saving => k + Len(d) = Sent

Begun ==
    \/ tftp_clear_to_send
    \/ \E p \in Arriving : p.type \in {"ACK", "OACK"}
    \/ tftp_lastblk # BlkMod - 1 /\ ~tftp_error /\ outcome # "error"

StoreInv == job.cmd = "save" =>
    /\ Saving /\ MayPut => file.name = job.name /\ StoredUpTo(Sent)
    /\ Saving /\ tftp_clear_to_send => toServer = <<>> /\ AllOld
    /\ Asked("DATA") => Pending
    /\ Saving /\ Asked("WRQ") => Sent = 0
    /\ Begun => StoredSome
    /\ outcome = "saved" =>
         \E k \in 0 .. Len(job.data) : StoredUpTo(k) /\ Len(job.data) - k <= BlkSize

SaveInv == CollectInv /\ StoreInv

ServiceInv == TurnInv /\ JobInv /\ LoadInv /\ FlagInv /\ GivenInv /\ SaveInv
Good == Calm /\ StateInv /\ ServiceInv
-----------------------------------------------------------------------------
(* The two channels *)

Behind == \A i, j \in DOMAIN toClient :
             i < j /\ ~Old(toClient[i]) => toClient[j] = toClient[i]

(* What has been received is gone from the channel. *)
LEMMA ArriveTail ==
    ASSUME NEW S, toClient \in Seq(S), toClient # <<>>, toClient' = Tail(toClient)
    PROVE  /\ Arriving' \subseteq Arriving
           /\ Head(toClient) \in Arriving
           /\ \A i \in DOMAIN toClient' : i + 1 \in DOMAIN toClient
                                          /\ toClient'[i] = toClient[i + 1]
<1>1. \A i \in DOMAIN toClient' : i + 1 \in DOMAIN toClient
                                  /\ toClient'[i] = toClient[i + 1]
  OBVIOUS
<1>2. 1 \in DOMAIN toClient /\ Head(toClient) = toClient[1]
  OBVIOUS
<1> QED
  BY <1>1, <1>2 DEF Arriving

(* A datagram delivered twice *)
LEMMA ArriveAgain ==
    ASSUME NEW S, toClient \in Seq(S), toClient # <<>>,
           toClient' = <<Head(toClient)>> \o toClient
    PROVE  /\ Arriving' = Arriving
           /\ \A i \in DOMAIN toClient' :
                \/ i = 1 /\ toClient'[i] = toClient[1]
                \/ i - 1 \in DOMAIN toClient /\ toClient'[i] = toClient[i - 1]
<1>0. 1 \in DOMAIN toClient
  OBVIOUS
<1>1. \A i \in DOMAIN toClient' :
                \/ i = 1 /\ toClient'[i] = toClient[1]
                \/ i - 1 \in DOMAIN toClient /\ toClient'[i] = toClient[i - 1]
  OBVIOUS
<1>2. \A i \in DOMAIN toClient : i + 1 \in DOMAIN toClient' /\ toClient'[i + 1] = toClient[i]
  OBVIOUS
<1>3. \A x \in Arriving' : x \in Arriving
  BY <1>0, <1>1 DEF Arriving
<1>4. \A x \in Arriving : x \in Arriving'
  BY <1>2 DEF Arriving
<1> QED
  BY <1>1, <1>3, <1>4

(* An answer of the daemon *)
LEMMA ArriveNew ==
    ASSUME NEW S, toClient \in Seq(S), NEW x, toClient' = Append(toClient, x)
    PROVE  /\ Arriving' = Arriving \cup {x}
           /\ \A i \in DOMAIN toClient' :
                \/ i \in DOMAIN toClient /\ toClient'[i] = toClient[i]
                \/ i = Len(toClient) + 1 /\ toClient'[i] = x
<1>1. \A i \in DOMAIN toClient' :
                \/ i \in DOMAIN toClient /\ toClient'[i] = toClient[i]
                \/ i = Len(toClient) + 1 /\ toClient'[i] = x
  OBVIOUS
<1>2. \A i \in DOMAIN toClient : i \in DOMAIN toClient' /\ toClient'[i] = toClient[i]
  OBVIOUS
<1>3. Len(toClient) + 1 \in DOMAIN toClient' /\ toClient'[Len(toClient) + 1] = x
  OBVIOUS
<1> QED
  BY <1>1, <1>2, <1>3 DEF Arriving

LEMMA BehindTail ==
    ASSUME NEW S, toClient \in Seq(S), toClient # <<>>, toClient' = Tail(toClient), Behind,
           tftp_lastblk' = tftp_lastblk
    PROVE  Behind'
<1>1. \A i \in DOMAIN toClient' : i \in Int /\ i + 1 \in DOMAIN toClient
                                  /\ toClient'[i] = toClient[i + 1]
  OBVIOUS
<1> QED
  BY <1>1 DEF Behind, Old

LEMMA BehindAgain ==
    ASSUME NEW S, toClient \in Seq(S), toClient # <<>>,
           toClient' = <<Head(toClient)>> \o toClient, Behind, tftp_lastblk' = tftp_lastblk
    PROVE  Behind'
<1>1. \A i \in DOMAIN toClient' :
                \/ i = 1 /\ toClient'[i] = toClient[1]
                \/ i - 1 \in DOMAIN toClient /\ toClient'[i] = toClient[i - 1]
  BY ArriveAgain
<1>2. DOMAIN toClient \in SUBSET Int /\ DOMAIN toClient' \in SUBSET Int
      /\ 1 \in DOMAIN toClient /\ \A i \in DOMAIN toClient : i >= 1
  OBVIOUS
<1>3. SUFFICES ASSUME NEW i \in DOMAIN toClient', NEW j \in DOMAIN toClient', i < j,
                      toClient'[i].blk # tftp_lastblk'
               PROVE  toClient'[j] = toClient'[i]
  BY DEF Behind, Old
<1>4. ~Old(toClient'[i])
  BY <1>3 DEF Old
<1>5. j # 1 /\ toClient'[j] = toClient[j - 1] /\ j - 1 \in DOMAIN toClient
  BY <1>1, <1>2, <1>3
<1>6. CASE i = 1
  BY <1>1, <1>2, <1>4, <1>5, <1>6 DEF Behind
<1>7. CASE i # 1
  BY <1>1, <1>2, <1>3, <1>4, <1>5, <1>7 DEF Behind
<1> QED
  BY <1>6, <1>7

LEMMA BehindNew ==
    ASSUME NEW S, toClient \in Seq(S), NEW x, toClient' = Append(toClient, x), AllOld,
           tftp_lastblk' = tftp_lastblk
    PROVE  Behind'
<1>1. \A i, j \in DOMAIN toClient' : i < j => i \in DOMAIN toClient /\ toClient'[i] = toClient[i]
  OBVIOUS
<1> QED
  BY <1>1 DEF Behind, AllOld, Arriving, Old

(* The client has received a packet: whatever follows a new one repeats it.*)
LEMMA ReceivedNew ==
    ASSUME NEW S, toClient \in Seq(S), toClient # <<>>, toClient' = Tail(toClient), Behind,
           ~Old(Head(toClient)), tftp_lastblk' = Head(toClient).blk
    PROVE  /\ \A q \in Arriving' : q = Head(toClient)
           /\ AllOld' /\ Behind'
<1>1. \A i \in DOMAIN toClient' : i \in Int /\ i >= 1 /\ i + 1 \in DOMAIN toClient
                                  /\ toClient'[i] = toClient[i + 1]
  OBVIOUS
<1>2. 1 \in DOMAIN toClient /\ Head(toClient) = toClient[1]
  OBVIOUS
<1>3. \A i \in DOMAIN toClient' : toClient'[i] = Head(toClient)
  BY <1>1, <1>2 DEF Behind
<1> QED
  BY <1>3 DEF Behind, AllOld, Arriving, Old

LEMMA Emptied ==
    ASSUME toClient' = <<>>
    PROVE  Arriving' = {} /\ AllOld' /\ Behind'
BY DEF Arriving, AllOld, Behind

LEMMA Kept ==
    ASSUME toClient' = toClient
    PROVE  /\ Arriving' = Arriving
           /\ tftp_lastblk' = tftp_lastblk => (Behind => Behind') /\ (AllOld => AllOld')
BY DEF Arriving, AllOld, Behind, Old

(* The daemon takes the only datagram there is; the client sends one.      *)
LEMMA Served ==
    ASSUME NEW S, toServer \in Seq(S), Len(toServer) <= 1, toServer # <<>>,
           Take \/ EndTransfer(Tail(toServer))
    PROVE  toServer' = <<>>
<1>1. Tail(toServer) = <<>>
  OBVIOUS
<1>2. CASE EndTransfer(Tail(toServer))
  <2>1. PICK k \in 0 .. Len(<<>>) : toServer' = SubSeq(<<>>, k + 1, Len(<<>>))
    BY <1>1, <1>2 DEF EndTransfer
  <2>2. Len(<<>>) = 0 /\ SubSeq(<<>>, 1, 0) = <<>>
    OBVIOUS
  <2> QED
    BY <2>1, <2>2
<1> QED
  BY <1>1, <1>2 DEF Take

LEMMA SentOne ==
    ASSUME NEW x
    PROVE  Append(<<>>, x) # <<>> /\ Len(Append(<<>>, x)) = 1 /\ Head(Append(<<>>, x)) = x
OBVIOUS

(* The types needed below *)
LEMMA GoodTypes ==
    ASSUME Good
    PROVE  /\ tftp_lastgot \in BlkNum /\ tftp_lastblk \in BlkNum /\ tftp_blknum \in BlkNum
           /\ tftp_lastgot \in Nat /\ BlkMod - 1 \in BlkNum
           /\ toServer \in Seq(CleanRequest) /\ toClient \in Seq(CleanReply)
           /\ \A p \in Arriving : /\ p \in CleanReply /\ p.blk \in BlkNum
                                  /\ p.data \in Seq(Byte) /\ Len(p.data) \in 0 .. BlkSize
                                  /\ p.type \in {"OACK", "DATA", "ACK", "ERR"}
           /\ file \in FileHandle /\ file.name \in Name /\ file.pos \in Nat
           /\ file.data \in Seq(Byte) /\ Len(file.data) \in Nat /\ file.pos <= Len(file.data)
           /\ got \in Seq(Octet)
           /\ Behind /\ TurnInv
<1> USE DEF Good, StateInv, OrderInv, ClientOrder
<1>1. tftp_lastgot \in BlkNum /\ tftp_lastblk \in BlkNum /\ tftp_blknum \in BlkNum
  BY Types
<1>2. tftp_lastgot \in Nat /\ BlkMod - 1 \in BlkNum
  BY <1>1, NumberFacts, BlkNumFacts
<1>3. toServer \in Seq(CleanRequest) /\ toClient \in Seq(CleanReply)
  BY DEF LinkBytes
<1>4. \A p \in Arriving : p \in CleanReply
  BY <1>3 DEF Arriving
<1>5. \A p \in CleanReply : /\ p.blk \in BlkNum
                            /\ p.data \in Seq(Byte) /\ Len(p.data) \in 0 .. BlkSize
                            /\ p.type \in {"OACK", "DATA", "ACK", "ERR"}
  BY DEF CleanReply, ClientPacket, Block
<1>6. file \in FileHandle /\ file.name \in Name /\ file.pos \in Nat
      /\ file.data \in Seq(Byte) /\ Len(file.data) \in Nat /\ file.pos <= Len(file.data)
  BY Types DEF ServerTypeOK, FileHandle, DiskBytes, Inv, FileInv
<1>7. got \in Seq(Octet)
  BY Types DEF C64TypeOK
<1>8. Behind /\ TurnInv
  BY DEF ServiceInv, TurnInv, Behind
<1> QED
  BY <1>1, <1>2, <1>3, <1>4, <1>5, <1>6, <1>7, <1>8
-----------------------------------------------------------------------------
(* The client outside of a LOAD *)

(* A packet is a repeat and changes nothing, or it is new, and then neither*)
(* is anything on its way to the daemon nor anything new behind it.        *)
LEMMA PollFacts ==
    ASSUME Good, Probe, InLoop
    PROVE  LET p == Head(toClient) IN
           /\ toServer' = toServer
           /\ p \in Arriving /\ Arriving' \subseteq Arriving /\ Behind'
           /\ \/ /\ Old(p)
                 /\ UNCHANGED <<tftp_request_in_progress, tftp_error, tftp_clear_to_send,
                                tftp_lastblk>>
              \/ /\ ~Old(p) /\ toServer = <<>> /\ AllOld'
                 /\ tftp_clear_to_send' => tftp_clear_to_send \/ p.type \in {"ACK", "OACK"}
                 /\ \/ tftp_request_in_progress' = tftp_request_in_progress
                    \/ tftp_request_in_progress' = "NORQ"
                 /\ p.type = "ERR" => tftp_error'
<1> DEFINE p == Head(toClient)
<1>1. /\ toClient # <<>> /\ toClient' = Tail(toClient) /\ tftp_recv_packet(p)
      /\ toClient \in Seq(CleanReply) /\ Behind
  BY GoodTypes DEF Probe
<1>2. p \in Arriving /\ Arriving' \subseteq Arriving /\ p.type \in {"OACK", "DATA", "ACK", "ERR"}
  BY <1>1, ArriveTail, GoodTypes
<1>3. tftp_lastblk' = p.blk
  BY <1>1 DEF tftp_recv_packet
<1>4. tftp_request_in_progress # "RRQ"
  BY DEF Good, ServiceInv, JobInv, InLoop
<1>5. CASE Old(p)
  <2>1. UNCHANGED <<tftp_request_in_progress, tftp_error, tftp_clear_to_send,
                    tftp_lastblk, toServer>>
    BY <1>1, <1>3, <1>5 DEF tftp_recv_packet, Old
  <2> QED
    BY <1>1, <1>2, <1>5, <2>1, BehindTail
<1>6. CASE ~Old(p)
  <2>1. toServer = <<>>
    BY <1>2, <1>6, GoodTypes DEF TurnInv, AllOld
  <2>2. AllOld' /\ Behind'
    BY <1>1, <1>3, <1>6, ReceivedNew
  <2>3. p.type = "OACK" => tftp_request_in_progress = "WRQ"
    BY <1>2, <1>6 DEF Good, ServiceInv, JobInv
  <2>4. RecvOack(p) \/ RecvData(p) \/ RecvAck(p) \/ RecvError(p) \/ RecvOther(p)
    BY <1>1, <1>6 DEF tftp_recv_packet, Old
  <2>5. /\ toServer' = toServer
        /\ tftp_clear_to_send' => tftp_clear_to_send \/ p.type \in {"ACK", "OACK"}
        /\ \/ tftp_request_in_progress' = tftp_request_in_progress
           \/ tftp_request_in_progress' = "NORQ"
        /\ p.type = "ERR" => tftp_error'
    BY <1>4, <2>3, <2>4 DEF RecvOack, RecvData, RecvAck, RecvError, RecvOther
  <2> QED
    BY <1>2, <1>6, <2>1, <2>2, <2>5
<1> QED
  BY <1>5, <1>6

LEMMA PollService ==
    ASSUME Good, LoopProbe \/ RecvProbe \/ PutProbe, Probe, UNCHANGED <<serverVars, boundVars>>
    PROVE  ServiceInv'
<1> USE DEF Good, ServiceInv
<1> DEFINE p == Head(toClient)
<1>1. /\ InLoop /\ InLoop' /\ ~Loading /\ ~Loading' /\ Saving' = Saving
      /\ (phase' = "loop" <=> phase = "loop") /\ phase' # "setup"
      /\ (phase' = "putEmpty" <=> phase = "putEmpty") /\ (phase' = "put" <=> phase = "put")
      /\ UNCHANGED <<iobuf, a, eoi, job, got, given, outcome>>
      /\ UNCHANGED <<status, last_packet, send_empty, file, disk, unwritten, env>>
  BY DEF LoopProbe, RecvProbe, PutProbe, InLoop, Loading, Saving, loopVars, c64Vars,
         serverVars, objectVars, deviceVars, boundVars
<1>2. /\ toServer' = toServer
      /\ p \in Arriving /\ Arriving' \subseteq Arriving /\ Behind'
      /\ \/ /\ Old(p)
            /\ UNCHANGED <<tftp_request_in_progress, tftp_error, tftp_clear_to_send,
                           tftp_lastblk>>
         \/ /\ ~Old(p) /\ toServer = <<>> /\ AllOld'
            /\ tftp_clear_to_send' => tftp_clear_to_send \/ p.type \in {"ACK", "OACK"}
            /\ \/ tftp_request_in_progress' = tftp_request_in_progress
               \/ tftp_request_in_progress' = "NORQ"
            /\ p.type = "ERR" => tftp_error'
  BY <1>1, PollFacts
<1>3. AllOld => AllOld'
  BY <1>2 DEF AllOld, Old
<1>4. p.type \in {"OACK", "DATA", "ACK", "ERR"}
  BY <1>2, GoodTypes
<1> HIDE DEF p
<1>5. TurnInv'
  <2>1. toServer # <<>> => AllOld
    BY DEF TurnInv
  <2> QED
    BY <1>2, <1>3, <2>1 DEF TurnInv, Behind
<1>6. JobInv'
  <2>1. /\ ~Asked("RRQ")' /\ (Asked("ACK")' => Asked("ACK"))
        /\ (Asked("WRQ")' => Asked("WRQ") /\ tftp_request_in_progress' = "WRQ")
        /\ (Asked("DATA")' => Asked("DATA"))
        /\ Head(toServer') = Head(toServer)
    BY <1>1, <1>2 DEF Asked, JobInv
  <2>2. /\ Loading' => job'.cmd = "load" /\ outcome' = "busy" /\ tftp_request_in_progress' # "WRQ"
        /\ Saving' => job'.cmd = "save" /\ outcome' = "busy"
        /\ phase' \in {"loop", "setup"} => outcome' # "busy"
    BY <1>1 DEF JobInv
  <2>3. tftp_request_in_progress' = "RRQ" => Loading'
    BY <1>1, <1>2 DEF JobInv
  <2>4. \A q \in Arriving' : /\ q.type = "DATA" => job'.cmd = "load"
                             /\ q.type = "ACK" => job'.cmd = "save"
    BY <1>1, <1>2 DEF JobInv
  <2>5. /\ Asked("ACK")' => job'.cmd = "load"
        /\ Asked("WRQ")' => /\ job'.cmd = "save" /\ Head(toServer').name = job'.name
                            /\ outcome' # "saved"
                            /\ InLoop' => tftp_request_in_progress' = "WRQ"
        /\ Asked("DATA")' => job'.cmd = "save"
    BY <1>1, <2>1 DEF JobInv
  <2>6. InLoop' /\ tftp_request_in_progress' # "WRQ" =>
           \A q \in Arriving' : q.type = "OACK" => q.blk = tftp_lastblk'
    BY <1>1, <1>2 DEF JobInv, AllOld, Old
  <2> QED
    BY <2>1, <2>2, <2>3, <2>4, <2>5, <2>6 DEF JobInv, Old
<1>7. LoadInv' /\ FlagInv' /\ GivenInv'
  BY <1>1, <1>2 DEF LoadInv, FlagInv, GivenInv, Unflagged, Over, Asked, EmptyFileLoad
<1>8. CollectInv' /\ Sent' = Sent
  BY <1>1 DEF SaveInv, CollectInv, Sent, Saving
<1>9. StoreInv'
  <2> USE DEF SaveInv, StoreInv
  <2> SUFFICES ASSUME job'.cmd = "save" PROVE StoreInv'
    OBVIOUS
  <2>0. job.cmd = "save"
    BY <1>1
  <2>1. \A k : StoredUpTo(k)' <=> StoredUpTo(k)
    BY <1>1 DEF StoredUpTo, Stored
  <2>2. MayPut' /\ Saving => MayPut
    BY <1>2 DEF MayPut, Answer, Old, AllOld
  <2>3. Saving' /\ MayPut' => file'.name = job'.name /\ StoredUpTo(Sent)'
    <3>1. StoredUpTo(Sent) => StoredUpTo(Sent)'
      BY <1>1, <1>8 DEF StoredUpTo, Stored
    <3> QED
      BY <1>1, <2>0, <2>2, <3>1
  <2>4. Saving' /\ tftp_clear_to_send' => toServer' = <<>> /\ AllOld'
    BY <1>1, <1>2, <1>3, <2>0
  <2>5. Asked("DATA")' => Pending'
    BY <1>1, <1>2, <1>8, <2>0, <2>1 DEF Asked, Pending
  <2>6. Saving' /\ Asked("WRQ")' => Sent' = 0
    BY <1>1, <1>2, <1>8, <2>0 DEF Asked
  <2>7. Begun' => Begun
    <3>1. p.type # "DATA"
      BY <1>2, <2>0 DEF JobInv
    <3> QED
      BY <1>1, <1>2, <1>4, <3>1 DEF Begun
  <2>8. Begun' => StoredSome'
    BY <1>1, <2>0, <2>1, <2>7 DEF StoredSome
  <2>9. outcome' = "saved" =>
         \E k \in 0 .. Len(job'.data) : StoredUpTo(k)' /\ Len(job'.data) - k <= BlkSize
    BY <1>1, <2>0, <2>1
  <2> QED
    BY <2>3, <2>4, <2>5, <2>6, <2>8, <2>9
<1> QED
  BY <1>5, <1>6, <1>7, <1>8, <1>9 DEF SaveInv

(* recv_file goes on collecting bytes, or returns 0. *)
LEMMA CollectService ==
    ASSUME Good, Saving, InLoop', Saving' \/ phase' = "loop",
           UNCHANGED <<linkVars, tftpVars, serverVars, boundVars, job, got>>,
           Saving' => outcome' = outcome /\ Sent' = Sent,
           phase' = "loop" => outcome' \in {"error", "aborted"},
           CollectInv'
    PROVE  ServiceInv'
<1> USE DEF Good, ServiceInv
<1>1. /\ ~Loading /\ ~Loading' /\ InLoop /\ job.cmd = "save" /\ outcome = "busy"
      /\ UNCHANGED <<toServer, toClient, tftp_request_in_progress, tftp_error,
                     tftp_lastblk, tftp_clear_to_send, job, got, env,
                     status, last_packet, send_empty, file, disk, unwritten>>
      /\ (Saving' <=> phase' # "loop")
  BY DEF Saving, InLoop, Loading, JobInv, linkVars, tftpVars, serverVars, objectVars,
         deviceVars, boundVars
<1>2. Arriving' = Arriving /\ (AllOld' <=> AllOld)
  BY <1>1 DEF Arriving, AllOld, Old
<1>3. TurnInv'
  BY <1>1, <1>2 DEF TurnInv, Old
<1>4. JobInv'
  <2>1. /\ Loading' => job'.cmd = "load" /\ outcome' = "busy" /\ tftp_request_in_progress' # "WRQ"
        /\ Saving' => job'.cmd = "save" /\ outcome' = "busy"
        /\ phase' \in {"loop", "setup"} => outcome' # "busy"
        /\ tftp_request_in_progress' = "RRQ" => Loading'
    BY <1>1 DEF JobInv, InLoop
  <2>2. /\ \A p \in Arriving' : /\ p.type = "DATA" => job'.cmd = "load"
                                /\ p.type = "ACK" => job'.cmd = "save"
        /\ InLoop' /\ tftp_request_in_progress' # "WRQ" =>
               \A p \in Arriving' : p.type = "OACK" => p.blk = tftp_lastblk'
    BY <1>1, <1>2 DEF JobInv, Old
  <2>3. /\ ~Asked("RRQ")' /\ ~Asked("ACK")'
        /\ Asked("WRQ")' => /\ job'.cmd = "save" /\ Head(toServer').name = job'.name
                            /\ outcome' # "saved" /\ tftp_request_in_progress' = "WRQ"
    BY <1>1 DEF JobInv, Asked
  <2> QED
    BY <1>1, <2>1, <2>2, <2>3 DEF JobInv, Old
<1>5. LoadInv' /\ FlagInv' /\ GivenInv'
  BY <1>1 DEF LoadInv, FlagInv, GivenInv, Unflagged, Over, Asked
<1>6. StoreInv'
  <2> USE DEF SaveInv, StoreInv
  <2>1. \A k : StoredUpTo(k)' <=> StoredUpTo(k)
    BY <1>1 DEF StoredUpTo, Stored
  <2>2. Saving' => (StoredUpTo(Sent)' <=> StoredUpTo(Sent))
    BY <1>1 DEF StoredUpTo, Stored
  <2>3. /\ Saving' /\ MayPut' => file'.name = job'.name /\ StoredUpTo(Sent)'
        /\ Saving' /\ tftp_clear_to_send' => toServer' = <<>> /\ AllOld'
    <3>1. MayPut' <=> MayPut
      BY <1>1, <1>2 DEF MayPut, Answer, Old
    <3> QED
      BY <1>1, <1>2, <2>2, <3>1
  <2>4. Asked("DATA")' => Pending'
    <3> SUFFICES ASSUME Asked("DATA")' PROVE Pending'
      OBVIOUS
    <3>1. Asked("DATA") /\ Pending
      BY <1>1 DEF Asked
    <3> QED
      BY <1>1, <2>1, <3>1 DEF Pending
  <2>5. Saving' /\ Asked("WRQ")' => Sent' = 0
    BY <1>1 DEF Asked
  <2>6. Begun' => StoredSome'
    <3>1. Begun' => Begun
      BY <1>1, <1>2 DEF Begun
    <3> QED
      BY <1>1, <2>1, <3>1 DEF StoredSome
  <2>7. outcome' # "saved"
    BY <1>1
  <2> QED
    BY <2>3, <2>4, <2>5, <2>6, <2>7
<1> QED
  BY <1>3, <1>4, <1>5, <1>6 DEF SaveInv

LEMMA RecvByteService ==
    ASSUME Good, RecvByte, UNCHANGED <<serverVars, boundVars>>
    PROVE  ServiceInv'
<1> USE DEF Good, ServiceInv
<1>1. /\ phase = "byte" /\ phase' \in {"loop", "put", "recv"} /\ Saving /\ InLoop'
      /\ (Saving' <=> phase' # "loop")
      /\ UNCHANGED <<linkVars, tftpVars, job, got>>
      /\ given' = given + 1 /\ a' = a + 1 /\ iobuf' = [iobuf EXCEPT ![a] = job.data[given + 1]]
      /\ eoi' = (given + 1 = Len(job.data))
      /\ phase' = "loop" => outcome' = "error"
      /\ phase' # "loop" => outcome' = outcome
  BY DEF RecvByte, Saving, InLoop, Loading
<1>2. /\ given < Len(job.data) /\ given \in Nat /\ Len(job.data) \in Nat
      /\ a \in 0 .. BlkSize /\ iobuf \in [IoIdx -> Octet] /\ a < BlkSize
  <2>1. job \in SaveJob /\ given < Len(job.data) /\ given \in Nat
      /\ a \in 0 .. BlkSize /\ iobuf \in [IoIdx -> Octet] /\ a < BlkSize
    BY <1>1, Types DEF StateInv, Inv, LoopInv, LoopTypeOK, C64TypeOK
  <2> QED
    BY <2>1 DEF SaveJob
<1>3. Sent' = Sent /\ Sent = given - a
  BY <1>1, <1>2 DEF Sent
<1>4. CollectInv'
  <2>1. a <= given /\ \A i \in 1 .. a : iobuf[i - 1] = job.data[Sent + i]
    BY <1>1 DEF SaveInv, CollectInv
  <2>2. iobuf'[a] = job.data[given + 1] /\ \A i \in 0 .. a - 1 : iobuf'[i] = iobuf[i]
    BY <1>1, <1>2 DEF IoIdx
  <2>3. \A i \in 1 .. a + 1 : iobuf'[i - 1] = job.data[Sent + i]
    <3> SUFFICES ASSUME NEW i \in 1 .. a + 1 PROVE iobuf'[i - 1] = job.data[Sent + i]
      OBVIOUS
    <3>1. CASE i = a + 1
      BY <1>2, <1>3, <2>2, <3>1
    <3>2. CASE i # a + 1
      BY <1>2, <2>1, <2>2, <3>2
    <3> QED
      BY <3>1, <3>2
  <2>4. \A i \in 1 .. a' : iobuf'[i - 1] = job'.data[Sent' + i]
    BY <1>1, <1>3, <2>3
  <2>5. a' <= given' /\ given' <= Len(job'.data) /\ phase' # "putEmpty"
    BY <1>1, <1>2, <2>1
  <2>6. eoi' => given' = Len(job'.data)
    BY <1>1
  <2> QED
    BY <2>4, <2>5, <2>6 DEF CollectInv
<1> QED
  BY <1>1, <1>3, <1>4, CollectService

LEMMA RecvQuietService ==
    ASSUME Good, UNCHANGED <<serverVars, boundVars>>,
           RecvAbort \/ (RecvProbe /\ UNCHANGED <<linkVars, tftpVars>>)
    PROVE  ServiceInv'
<1> USE DEF Good, ServiceInv
<1>1. /\ phase = "recv" /\ Saving /\ InLoop' /\ (Saving' <=> phase' # "loop")
      /\ UNCHANGED <<linkVars, tftpVars, iobuf, a, eoi, job, got, given>>
      /\ \/ phase' = "loop" /\ outcome' = "aborted"
         \/ phase' = "byte" /\ outcome' = outcome
  BY DEF RecvAbort, RecvProbe, Saving, InLoop, Loading, c64Vars
<1>2. Sent' = Sent
  BY <1>1 DEF Sent
<1>3. CollectInv'
  BY <1>1, <1>2 DEF SaveInv, CollectInv
<1> QED
  BY <1>1, <1>2, <1>3, CollectService

(* A block goes to the daemon once it has acknowledged everything before.  *)
LEMMA PutService ==
    ASSUME Good, phase \in {"put", "putEmpty"}, NEW n \in 0 .. BlkSize, tftp_put_block(n),
           UNCHANGED <<serverVars, boundVars, job, got, given>>,
           Sent + n <= Len(job.data),
           Slice(iobuf, 0, n) = SubSeq(job.data, Sent + 1, Sent + n),
           Len(Slice(iobuf, 0, n)) = n,
           phase' \in {"loop", "recv", "putEmpty"},
           phase' # "loop" => Sent' = Sent + n /\ outcome' = outcome,
           phase' = "loop" => outcome' = "saved" /\ Len(job.data) - Sent <= BlkSize,
           CollectInv'
    PROVE  ServiceInv'
<1> USE DEF Good, ServiceInv
<1> DEFINE d == Slice(iobuf, 0, n)
           x == DATA(NextBlk(tftp_blknum), d)
<1>1. /\ Saving /\ ~Loading /\ ~Loading' /\ InLoop /\ InLoop' /\ (Saving' <=> phase' # "loop")
      /\ job.cmd = "save" /\ outcome = "busy" /\ tftp_request_in_progress # "RRQ"
      /\ tftp_clear_to_send
      /\ UNCHANGED <<toClient, tftp_error, tftp_lastblk, job, got, env,
                     status, last_packet, send_empty, file, disk, unwritten>>
      /\ ~tftp_clear_to_send' /\ toServer' = Append(toServer, x)
      /\ tftp_request_in_progress' \in {tftp_request_in_progress, "NORQ"}
  BY DEF Saving, InLoop, Loading, JobInv, tftp_put_block, serverVars, objectVars,
         deviceVars, boundVars
<1>2. /\ toServer = <<>> /\ AllOld /\ file.name = job.name /\ StoredUpTo(Sent)
  BY <1>1 DEF SaveInv, StoreInv, MayPut
<1>3. Arriving' = Arriving /\ AllOld'
  BY <1>1, <1>2, Kept
<1>4. toServer' # <<>> /\ Len(toServer') = 1 /\ Head(toServer') = x
      /\ x.type = "DATA" /\ x.data = d
  BY <1>1, <1>2, SentOne DEF DATA
<1> HIDE DEF x, d
<1>5. TurnInv'
  BY <1>1, <1>3, <1>4, GoodTypes, Kept DEF TurnInv, Behind
<1>6. JobInv'
  <2>1. ~Asked("RRQ")' /\ ~Asked("ACK")' /\ ~Asked("WRQ")'
    BY <1>4 DEF Asked
  <2>2. /\ Saving' => job'.cmd = "save" /\ outcome' = "busy"
        /\ phase' \in {"loop", "setup"} => outcome' # "busy"
        /\ tftp_request_in_progress' # "RRQ" /\ job'.cmd = "save"
    BY <1>1
  <2>3. /\ \A p \in Arriving' : /\ p.type = "DATA" => job'.cmd = "load"
                                /\ p.type = "ACK" => job'.cmd = "save"
    BY <1>1, <1>3 DEF JobInv
  <2>4. \A p \in Arriving' : p.blk = tftp_lastblk'
    BY <1>3 DEF AllOld, Old
  <2> QED
    BY <1>1, <2>1, <2>2, <2>3, <2>4 DEF JobInv, Old
<1>7. LoadInv' /\ GivenInv'
  BY <1>1 DEF LoadInv, GivenInv
<1>8. FlagInv'
  BY <1>1, <1>4 DEF FlagInv, Unflagged, Over, Asked
<1>9. StoreInv'
  <2>0. Sent \in 0 .. Len(job.data)
    BY <1>2 DEF StoredUpTo
  <2>1. PICK k \in 0 .. Len(job.data) : k = Sent
    BY <2>0
  <2>2. StoredUpTo(k)' /\ StoredSome'
    <3>1. StoredUpTo(k)
      BY <1>2, <2>1
    <3>2. StoredUpTo(k)'
      BY <1>1, <3>1 DEF StoredUpTo, Stored
    <3> QED
      BY <1>1, <3>2 DEF StoredSome
  <2>3. ~MayPut'
    BY <1>1, <1>3 DEF MayPut, Answer, AllOld, Old
  <2>4. Pending'
    <3>1. Len(d) = n /\ k + Len(d) <= Len(job.data) /\ d = SubSeq(job.data, k + 1, k + Len(d))
          /\ (Saving' => k + Len(d) = Sent')
      BY <1>1, <2>1 DEF d
    <3> QED
      BY <1>1, <1>2, <1>4, <2>2, <3>1 DEF Pending
  <2>5. ~Asked("WRQ")'
    BY <1>4 DEF Asked
  <2>6. outcome' = "saved" => Len(job'.data) - k <= BlkSize
    BY <1>1, <2>1
  <2> QED
    BY <1>1, <2>2, <2>3, <2>4, <2>5, <2>6 DEF StoreInv
<1> QED
  BY <1>5, <1>6, <1>7, <1>8, <1>9 DEF SaveInv

(* What recv_file has collected in iobuf is what the C64 gave last. *)
LEMMA Collected ==
    ASSUME Good, Saving, phase # "putEmpty"
    PROVE  /\ given \in Nat /\ a \in 0 .. BlkSize /\ a <= given /\ Sent = given - a
           /\ job.data \in Seq(Byte) /\ given <= Len(job.data)
           /\ Slice(iobuf, 0, a) = SubSeq(job.data, Sent + 1, Sent + a)
           /\ Len(Slice(iobuf, 0, a)) = a
<1>1. CollectInv /\ job.cmd = "save"
  BY DEF Good, ServiceInv, SaveInv, JobInv
<1>2. given \in Nat /\ a \in 0 .. BlkSize /\ job.data \in Seq(Byte)
  <2>1. job \in {NoJob} \cup LoadJob \cup SaveJob /\ given \in Nat /\ a \in 0 .. BlkSize
    BY Types DEF Good, StateInv, Inv, LoopTypeOK, C64TypeOK
  <2>2. job \in SaveJob
    BY <1>1, <2>1 DEF NoJob, LoadJob
  <2> QED
    BY <2>1, <2>2 DEF SaveJob
<1>3. Sent = given - a /\ a <= given /\ given <= Len(job.data)
  BY <1>1 DEF CollectInv, Sent
<1>4. \A i \in 1 .. a : iobuf[i - 1] = job.data[Sent + i]
  BY <1>1 DEF CollectInv
<1>5. Slice(iobuf, 0, a) = [i \in 1 .. a |-> iobuf[0 + i - 1]]
  BY DEF Slice
<1>6. SubSeq(job.data, Sent + 1, Sent + a) = [i \in 1 .. a |-> job.data[Sent + i]]
  BY <1>2, <1>3, Sizes
<1>7. a \in Nat
  BY <1>2, Sizes
<1>8. Slice(iobuf, 0, a) = [i \in 1 .. a |-> job.data[Sent + i]]
  BY <1>4, <1>5, <1>7
<1>9. Len(Slice(iobuf, 0, a)) = a
  BY <1>7, <1>8
<1>10. Slice(iobuf, 0, a) = SubSeq(job.data, Sent + 1, Sent + a)
  <2> HIDE DEF Sent, Slice
  <2> QED
    BY <1>6, <1>8, Zenon
<1> QED
  BY <1>2, <1>3, <1>9, <1>10

LEMMA PutBlockService ==
    ASSUME Good, PutBlock \/ PutEmpty, UNCHANGED <<serverVars, boundVars>>
    PROVE  ServiceInv'
<1> USE DEF Good, ServiceInv
<1>1. /\ Saving /\ job.cmd = "save" /\ CollectInv /\ tftp_clear_to_send
      /\ UNCHANGED <<iobuf, eoi, job, got, given>>
      /\ a <= given /\ given <= Len(job.data)
  BY DEF PutBlock, PutEmpty, Saving, SaveInv, CollectInv, JobInv, tftp_put_block
<1>2. StoredUpTo(Sent)
  BY <1>1 DEF SaveInv, StoreInv, MayPut
<1>3. /\ given \in Nat /\ a \in 0 .. BlkSize /\ BlkSize \in Nat /\ job.data \in Seq(Byte)
      /\ Len(job.data) \in Nat
  <2>1. job \in {NoJob} \cup LoadJob \cup SaveJob /\ given \in Nat /\ a \in 0 .. BlkSize
    BY Types DEF StateInv, Inv, LoopTypeOK, C64TypeOK
  <2>2. job \in SaveJob
    BY <1>1, <2>1 DEF NoJob, LoadJob
  <2> QED
    BY <2>1, <2>2, Sizes DEF SaveJob
<1>4. CASE PutBlock
  <2>1. /\ phase = "put" /\ tftp_put_block(a) /\ Sent = given - a
        /\ phase' = "putEmpty" => eoi /\ a' = a
        /\ phase' = "recv" => a' = 0
        /\ phase' \in {"loop", "recv", "putEmpty"}
        /\ phase' # "loop" => outcome' = outcome
        /\ phase' = "loop" => outcome' = "saved" /\ eoi
    BY <1>4 DEF PutBlock, Sent
  <2>2. eoi => given = Len(job.data)
    BY <1>1, <2>1 DEF CollectInv
  <2>3. Slice(iobuf, 0, a) = SubSeq(job.data, Sent + 1, Sent + a) /\ Len(Slice(iobuf, 0, a)) = a
    BY <1>1, <2>1, Collected
  <2>4. phase' # "loop" => Sent' = Sent + a
    BY <1>1, <1>3, <2>1 DEF Sent
  <2>5. CollectInv'
    <3>1. CASE phase' = "recv"
      BY <1>1, <1>3, <2>1, <3>1 DEF CollectInv
    <3>2. CASE phase' = "putEmpty"
      BY <1>1, <1>3, <2>1, <2>2, <3>2 DEF CollectInv
    <3>3. CASE phase' = "loop"
      BY <3>3 DEF CollectInv, Saving
    <3> QED
      BY <2>1, <3>1, <3>2, <3>3
  <2>6. Sent + a <= Len(job.data) /\ (eoi => Len(job.data) - Sent <= BlkSize)
    BY <1>1, <1>3, <2>1, <2>2
  <2> QED
    BY <1>1, <1>3, <2>1, <2>3, <2>4, <2>5, <2>6, PutService
<1>5. CASE PutEmpty
  <2>1. /\ phase = "putEmpty" /\ tftp_put_block(0) /\ Sent = given /\ phase' = "loop"
        /\ outcome' = "saved" /\ given = Len(job.data)
    BY <1>1, <1>5 DEF PutEmpty, Sent, CollectInv
  <2>2. Slice(iobuf, 0, 0) = <<>> /\ Len(Slice(iobuf, 0, 0)) = 0
    BY DEF Slice
  <2>3. SubSeq(job.data, Sent + 1, Sent + 0) = <<>>
    BY <1>3, <2>1
  <2>4. CollectInv'
    BY <2>1 DEF CollectInv, Saving
  <2>5. 0 \in 0 .. BlkSize /\ Sent + 0 <= Len(job.data) /\ Len(job.data) - Sent <= BlkSize
    BY <1>3, <2>1
  <2> QED
    BY <1>1, <1>3, <2>1, <2>2, <2>3, <2>4, <2>5, PutService
<1> QED
  BY <1>4, <1>5
-----------------------------------------------------------------------------
(* Commands and resets *)

LEMMA StartLoadService ==
    ASSUME Good, NEW n \in Name, StartLoad(n), MayStart,
           UNCHANGED <<serverVars, env, resets, dupToClient, dupToServer>>
    PROVE  ServiceInv'
<1> USE DEF Good, ServiceInv
<1>1. /\ toServer = <<>> /\ toClient = <<>> /\ toClient' = <<>>
      /\ phase = "loop" /\ ~Loading /\ tftp_request_in_progress # "RRQ"
      /\ UNCHANGED <<env, status, last_packet, send_empty, file, disk, unwritten>>
      /\ job' = [cmd |-> "load", name |-> n] /\ got' = <<>>
      /\ tftp_lastgot' = 0 /\ tftp_lastblk' = BlkMod - 1 /\ ~tftp_error' /\ ~tftp_end_of_data'
      /\ at_start' /\ unsent_data' = 0 /\ iobuf' = [i \in IoIdx |-> Stale]
      /\ SendRequest("RRQ", RRQ(n)) /\ RRQ(n) = [type |-> "RRQ", name |-> n]
      /\ phase' = IF CanRequest(n) THEN "probe" ELSE "loop"
      /\ outcome' = IF CanRequest(n) THEN "busy" ELSE "error"
  BY DEF StartLoad, tftp_get_file, MayStart, Quiet, Calm, Orderly, Loading, JobInv,
         serverVars, objectVars, deviceVars, RRQ
<1>2. /\ Arriving' = {} /\ AllOld' /\ Behind' /\ ~Saving'
      /\ (Loading' <=> CanRequest(n)) /\ (InLoop' <=> ~CanRequest(n))
  BY <1>1, Emptied DEF Saving, Loading, InLoop
<1>3. \/ /\ CanRequest(n) /\ tftp_request_in_progress' = "RRQ"
         /\ toServer' # <<>> /\ Len(toServer') = 1 /\ Head(toServer') = RRQ(n)
      \/ /\ ~CanRequest(n) /\ tftp_request_in_progress' # "RRQ" /\ toServer' = <<>>
  BY <1>1, SentOne DEF SendRequest
<1>4. /\ ~Asked("ACK")' /\ ~Asked("WRQ")' /\ ~Asked("DATA")'
      /\ Asked("RRQ")' => CanRequest(n) /\ Head(toServer').name = n
  BY <1>1, <1>3 DEF Asked
<1>5. Unflagged
  <2>1. env.pace = "idle" => status \in {"idle", "crashed"}
    BY DEF MayStart
  <2> QED
    BY <1>1, <2>1 DEF FlagInv, Unflagged
<1>6. TurnInv'
  <2>1. Len(<<>>) <= 1 /\ 1 <= 1
    OBVIOUS
  <2>2. Len(toServer') <= 1
    BY <1>3, <2>1
  <2> QED
    BY <1>2, <2>2 DEF TurnInv, Behind
<1>7. JobInv'
  BY <1>1, <1>2, <1>3, <1>4 DEF JobInv
<1>8. LoadInv'
  <2>1. iobuf'[0] = Stale
    BY <1>1, Sizes DEF IoIdx
  <2>2. RequestInv'
    BY <1>1, <1>2, <1>4, <1>5 DEF RequestInv, Unflagged
  <2>3. Delivered(tftp_lastgot)'
    BY <1>1 DEF Delivered
  <2>4. MoreExpected'
    BY <1>1 DEF MoreExpected
  <2>5. phase' \in {"probe", "loop"}
    BY <1>1
  <2> QED
    BY <1>1, <1>2, <2>1, <2>2, <2>3, <2>4, <2>5 DEF LoadInv
<1>9. FlagInv'
  BY <1>1, <1>4, <1>5 DEF FlagInv, Unflagged
<1>10. GivenInv' /\ SaveInv'
  BY <1>1, <1>2 DEF GivenInv, SaveInv, CollectInv, StoreInv
<1> QED
  BY <1>6, <1>7, <1>8, <1>9, <1>10

LEMMA StartSaveService ==
    ASSUME Good, NEW n \in Name, NEW d \in Seq(Byte), StartSave(n, d), MayStart,
           UNCHANGED <<serverVars, env, resets, dupToClient, dupToServer>>
    PROVE  ServiceInv'
<1> USE DEF Good, ServiceInv
<1>1. /\ toServer = <<>> /\ toClient = <<>> /\ toClient' = <<>>
      /\ phase = "loop" /\ ~Loading /\ tftp_request_in_progress # "RRQ"
      /\ UNCHANGED <<env, status, last_packet, send_empty, file, disk, unwritten>>
      /\ job' = [cmd |-> "save", name |-> n, data |-> d] /\ got' = <<>>
      /\ a' = 0 /\ given' = 0 /\ ~eoi'
      /\ tftp_lastblk' = BlkMod - 1 /\ ~tftp_clear_to_send'
      /\ SendRequest("WRQ", WRQ(n)) /\ WRQ(n) = [type |-> "WRQ", name |-> n]
      /\ phase' = "recv" /\ outcome' = "busy"
  BY DEF StartSave, tftp_put_file, MayStart, Quiet, Calm, Orderly, Loading, JobInv,
         serverVars, objectVars, deviceVars, WRQ
<1>2. Arriving' = {} /\ AllOld' /\ Behind' /\ Saving' /\ ~Loading' /\ InLoop' /\ Sent' = 0
  BY <1>1, Emptied DEF Saving, Loading, InLoop, Sent
<1>3. /\ tftp_request_in_progress' # "RRQ"
      /\ \/ /\ tftp_request_in_progress' = "WRQ" /\ toServer' # <<>>
            /\ Len(toServer') = 1 /\ Head(toServer') = WRQ(n)
         \/ toServer' = <<>>
  BY <1>1, SentOne DEF SendRequest
<1>4. /\ ~Asked("ACK")' /\ ~Asked("RRQ")' /\ ~Asked("DATA")'
      /\ Asked("WRQ")' => Head(toServer').name = n /\ tftp_request_in_progress' = "WRQ"
  BY <1>1, <1>3 DEF Asked
<1>5. TurnInv'
  <2>1. Len(<<>>) <= 1 /\ 1 <= 1
    OBVIOUS
  <2>2. Len(toServer') <= 1
    BY <1>3, <2>1
  <2> QED
    BY <1>2, <2>2 DEF TurnInv, Behind
<1>6. JobInv'
  BY <1>1, <1>2, <1>3, <1>4 DEF JobInv
<1>7. LoadInv' /\ GivenInv'
  BY <1>1, <1>2 DEF LoadInv, GivenInv
<1>8. FlagInv'
  BY <1>1, <1>4 DEF FlagInv, Unflagged
<1>9. CollectInv'
  BY <1>1 DEF CollectInv
<1>10. StoreInv'
  <2>1. ~MayPut' /\ ~Begun'
    BY <1>1, <1>2 DEF MayPut, Begun
  <2> QED
    BY <1>1, <1>2, <1>4, <2>1 DEF StoreInv
<1> QED
  BY <1>5, <1>6, <1>7, <1>8, <1>9, <1>10 DEF SaveInv

(* What is still on its way to the daemon after a reset is harmless: the   *)
(* user waits for it, and for the daemon.                                  *)
LEMMA ResetService ==
    ASSUME Good, ClientReset, env.pace = "idle", UNCHANGED <<serverVars, env>>
    PROVE  ServiceInv'
<1> USE DEF Good, ServiceInv
<1>1. /\ toClient' = <<>> /\ phase' = "setup" /\ tftp_request_in_progress' = "NORQ"
      /\ tftp_lastblk' = BlkMod - 1 /\ ~tftp_clear_to_send'
      /\ outcome' = IF outcome = "busy" THEN "aborted" ELSE outcome
      /\ UNCHANGED <<toServer, job, got, env,
                     status, last_packet, send_empty, file, disk, unwritten>>
  BY DEF ClientReset, serverVars, objectVars, deviceVars
<1>2. Arriving' = {} /\ AllOld' /\ Behind' /\ ~Saving' /\ ~Loading' /\ ~InLoop'
  BY <1>1, Emptied DEF Saving, Loading, InLoop
<1>3. TurnInv'
  BY <1>1, <1>2 DEF TurnInv, Behind
<1>4. JobInv'
  BY <1>1, <1>2 DEF JobInv, Asked
<1>5. LoadInv' /\ FlagInv' /\ CollectInv'
  BY <1>1, <1>2 DEF LoadInv, FlagInv, CollectInv
<1>6. GivenInv'
  BY <1>1 DEF GivenInv, EmptyFileLoad
<1>7. StoreInv'
  <2> USE DEF SaveInv, StoreInv
  <2>1. \A k : StoredUpTo(k)' <=> StoredUpTo(k)
    BY <1>1 DEF StoredUpTo, Stored
  <2>2. ~Begun'
    BY <1>1, <1>2 DEF Begun
  <2>3. job.cmd = "save" /\ Asked("DATA")' => Pending'
    BY <1>1, <1>2, <2>1 DEF Asked, Pending
  <2> QED
    BY <1>1, <1>2, <2>1, <2>2, <2>3
<1> QED
  BY <1>3, <1>4, <1>5, <1>6, <1>7 DEF SaveInv

LEMMA SetupService ==
    ASSUME Good, SetupDrop \/ (SetupDone /\ Quiet), UNCHANGED <<serverVars, boundVars>>
    PROVE  ServiceInv'
<1> USE DEF Good, ServiceInv
<1>1. /\ phase = "setup" /\ ~Saving /\ ~Loading /\ ~InLoop /\ ~Saving' /\ ~Loading'
      /\ UNCHANGED <<toServer, tftp_request_in_progress, tftp_error, tftp_lastblk,
                     tftp_clear_to_send, job, got, outcome, env,
                     status, last_packet, send_empty, file, disk, unwritten>>
      /\ Arriving' \subseteq Arriving /\ Behind'
      /\ \/ phase' = "setup"
         \/ phase' = "loop" /\ toServer = <<>> /\ Arriving' = {}
  <2>1. CASE SetupDrop
    <3>1. toClient # <<>> /\ toClient' = Tail(toClient) /\ UNCHANGED <<tftp_lastblk, phase>>
          /\ phase = "setup"
      BY <2>1 DEF SetupDrop, clientVars, tftpVars, loopVars
    <3>2. Arriving' \subseteq Arriving /\ Behind'
      BY <3>1, GoodTypes, ArriveTail, BehindTail
    <3> QED
      BY <2>1, <3>1, <3>2 DEF SetupDrop, clientVars, tftpVars, loopVars, c64Vars, Saving,
         Loading, InLoop, serverVars, objectVars, deviceVars, boundVars
  <2>2. CASE SetupDone /\ Quiet
    BY <2>2, Emptied DEF Quiet, SetupDone, linkVars, tftpVars, c64Vars, Saving, Loading,
       InLoop, serverVars, objectVars, deviceVars, boundVars
  <2> QED
    BY <2>1, <2>2
<1>2. AllOld => AllOld'
  BY <1>1 DEF AllOld, Old
<1>3. TurnInv'
  BY <1>1, <1>2 DEF TurnInv, Behind
<1>4. JobInv'
  BY <1>1, <1>2 DEF JobInv, Asked, InLoop
<1>5. LoadInv' /\ FlagInv' /\ CollectInv' /\ GivenInv'
  BY <1>1 DEF LoadInv, FlagInv, CollectInv, GivenInv, EmptyFileLoad, Unflagged, Over, Asked
<1>6. StoreInv'
  <2> USE DEF SaveInv, StoreInv
  <2>1. \A k : StoredUpTo(k)' <=> StoredUpTo(k)
    BY <1>1 DEF StoredUpTo, Stored
  <2>2. Begun' => Begun
    BY <1>1 DEF Begun
  <2>3. job.cmd = "save" /\ Asked("DATA")' => Pending'
    BY <1>1, <2>1 DEF Asked, Pending
  <2>4. job.cmd = "save" /\ Begun' => StoredSome'
    BY <1>1, <2>1, <2>2 DEF StoredSome
  <2> QED
    BY <1>1, <2>1, <2>3, <2>4
<1> QED
  BY <1>3, <1>4, <1>5, <1>6 DEF SaveInv
-----------------------------------------------------------------------------
(* The client during a LOAD *)

LEMMA Times ==
    ASSUME NEW k \in Nat, k # 0
    PROVE  /\ k - 1 \in Nat /\ k * BlkSize \in Nat /\ (k - 1) * BlkSize \in Nat
           /\ k * BlkSize = (k - 1) * BlkSize + BlkSize
<1>1. BlkSize \in Nat
  BY Sizes
<1> QED
  BY <1>1

(* Every block but the last one is full, the last one ends with the file.  *)
LEMMA ChunkFacts ==
    ASSUME Good, NEW k \in Nat, k # 0
    PROVE  /\ Reached(k) \in 0 .. Len(file.data) /\ Reached(k - 1) \in 0 .. Reached(k)
           /\ Chunk(k) \in Seq(Byte)
           /\ Len(Chunk(k)) = Reached(k) - Reached(k - 1) /\ Len(Chunk(k)) \in 0 .. BlkSize
           /\ \A i \in 1 .. Len(Chunk(k)) : Chunk(k)[i] = file.data[Reached(k - 1) + i]
           /\ Len(Chunk(k)) = BlkSize <=> k * BlkSize <= Len(file.data)
           /\ k * BlkSize <= Len(file.data) =>
                Reached(k) = k * BlkSize /\ Reached(k - 1) = (k - 1) * BlkSize
<1>1. /\ k - 1 \in Nat /\ k * BlkSize \in Nat /\ (k - 1) * BlkSize \in Nat
      /\ k * BlkSize = (k - 1) * BlkSize + BlkSize
      /\ BlkSize \in Nat /\ BlkSize > 0
      /\ Len(file.data) \in Nat /\ file.data \in Seq(Byte)
  BY Times, Sizes, GoodTypes
<1> DEFINE B == BlkSize
           m == (k - 1) * BlkSize
           n == k * BlkSize
           L == Len(file.data)
<1>2. /\ Reached(k) = IF n <= L THEN n ELSE L
      /\ Reached(k - 1) = IF m <= L THEN m ELSE L
  BY DEF Reached
<1> HIDE DEF m, n
<1>3. m \in Nat /\ n \in Nat /\ n = m + B
  BY <1>1 DEF m, n
<1>4. Reached(k) \in 0 .. L /\ Reached(k - 1) \in 0 .. Reached(k)
  BY <1>1, <1>2, <1>3
<1>5. /\ Reached(k) - Reached(k - 1) \in 0 .. B
      /\ Reached(k) - Reached(k - 1) = B <=> n <= L
      /\ n <= L => Reached(k) = n /\ Reached(k - 1) = m
  BY <1>1, <1>2, <1>3
<1> DEFINE u == Reached(k - 1)
           v == Reached(k)
<1>6. Chunk(k) = SubSeq(file.data, u + 1, v)
  BY DEF Chunk
<1> HIDE DEF u, v
<1>7. /\ SubSeq(file.data, u + 1, v) \in Seq(Byte)
      /\ Len(SubSeq(file.data, u + 1, v)) = v - u
      /\ \A i \in 1 .. v - u : SubSeq(file.data, u + 1, v)[i] = file.data[u + i]
  <2>1. v \in 0 .. L /\ u \in 0 .. v
    BY <1>4 DEF u, v
  <2> QED
    BY <1>1, <2>1
<1> QED
  BY <1>4, <1>5, <1>6, <1>7 DEF u, v, n, m

LEMMA HandedNotFresh ==
    ASSUME Good, Handed
    PROVE  ~Fresh
BY Types, Sizes DEF Good, StateInv, Handed, Fresh, TftpTypeOK, BlkNum

(* What does not depend on the client's buffers *)
LEMMA SameBlocks ==
    ASSUME UNCHANGED <<file, job, status, last_packet, send_empty>>
    PROVE  /\ \A k : Chunk(k)' = Chunk(k) /\ (SentBlocks(k)' <=> SentBlocks(k))
           /\ Over' = Over /\ Unflagged' = Unflagged
BY DEF Chunk, SentBlocks, Reached, Over, Unflagged

LEMMA GetErrorService ==
    ASSUME Good, GetError, UNCHANGED <<serverVars, boundVars>>
    PROVE  ServiceInv'
<1> USE DEF Good, ServiceInv
<1>1. /\ phase = "block" /\ tftp_error /\ phase' = "loop" /\ outcome' = "error"
      /\ Loading /\ ~Loading' /\ ~Saving' /\ job.cmd = "load" /\ outcome = "busy"
      /\ toServer = <<>> /\ AllOld /\ Unflagged /\ tftp_request_in_progress = "NORQ"
      /\ UNCHANGED <<toServer, toClient, tftp_request_in_progress, tftp_lastblk, job, got, env,
                     status, last_packet, send_empty, file>>
  BY DEF GetError, Loading, Saving, JobInv, LoadInv, linkVars, tftpVars, serverVars,
         objectVars, deviceVars, boundVars
<1>2. Arriving' = Arriving /\ AllOld' /\ Behind'
  BY <1>1, Kept, GoodTypes
<1>3. TurnInv'
  BY <1>1, <1>2 DEF TurnInv, Behind
<1>4. JobInv'
  BY <1>1, <1>2 DEF JobInv, Asked, AllOld, Old
<1>5. LoadInv' /\ FlagInv' /\ SaveInv'
  BY <1>1 DEF LoadInv, FlagInv, SaveInv, CollectInv, StoreInv, Unflagged, Asked
<1>6. GivenInv'
  BY <1>1 DEF GivenInv, EmptyFileLoad
<1> QED
  BY <1>3, <1>4, <1>5, <1>6

LEMMA GetNothingService ==
    ASSUME Good, GetNothing, UNCHANGED <<serverVars, boundVars>>
    PROVE  ServiceInv'
<1> USE DEF Good, ServiceInv
<1>1. /\ phase = "block" /\ ~tftp_error /\ phase' = "probe" /\ NothingNew
      /\ Loading /\ Loading' /\ ~InLoop' /\ ~Saving' /\ job.cmd = "load"
      /\ UNCHANGED <<toServer, toClient, tftpVars, iobuf, at_start, unsent_data, c64Vars,
                     env, status, last_packet, send_empty, file>>
  BY DEF GetNothing, Loading, Saving, InLoop, JobInv, linkVars, serverVars, objectVars,
         deviceVars, boundVars
<1>2. ~Fresh
  BY <1>1, Sizes, Types, HandedNotFresh
     DEF NothingNew, StateInv, OrderInv, ClientOrder, FetchInv, Fresh, TftpTypeOK, BlkNum
<1>3. Arriving' = Arriving
  BY <1>1, Kept
<1>4. TurnInv'
  BY <1>1, <1>3 DEF TurnInv, AllOld, Old, tftpVars
<1>5. ~Asked("RRQ")
  BY <1>1 DEF LoadInv, RequestInv
<1>6. JobInv'
  BY <1>1, <1>3, <1>5 DEF JobInv, Asked, tftpVars, c64Vars
<1>7. LoadInv'
  <2>1. RequestInv'
    BY <1>1, <1>5, SameBlocks DEF LoadInv, RequestInv, Asked, tftpVars, c64Vars
  <2>2. \A p \in Arriving' : ReplyInv(p)'
    BY <1>1, <1>3, SameBlocks DEF LoadInv, ReplyInv, Old, tftpVars, c64Vars
  <2>3. Delivered(tftp_lastgot)' /\ MoreExpected' /\ ~tftp_error' /\ unsent_data' = 0
        /\ (at_start' /\ unsent_data' = 0 => iobuf'[0] = Stale)
    BY <1>1, <1>2 DEF LoadInv, Delivered, MoreExpected, tftpVars, c64Vars
  <2> QED
    BY <1>1, <2>1, <2>2, <2>3 DEF LoadInv
<1>8. FlagInv' /\ GivenInv' /\ SaveInv'
  BY <1>1 DEF FlagInv, GivenInv, EmptyFileLoad, SaveInv, CollectInv, StoreInv, c64Vars
<1> QED
  BY <1>4, <1>6, <1>7, <1>8

(* The packet is a repeat, or an error, or the answer to the request, or a *)
(* block; if it is the next one it is complete in tftpdata.                *)
LEMMA GetProbeFacts ==
    ASSUME Good, GetProbe
    PROVE  LET p == Head(toClient) IN
           /\ p \in Arriving /\ Arriving' \subseteq Arriving /\ Behind'
           /\ tftp_lastblk' = p.blk
           /\ \/ /\ Old(p)
                 /\ UNCHANGED <<tftp_request_in_progress, tftp_error, tftp_lastblk, toServer,
                                tftp_data_available, tftp_end_of_data, tftpdata>>
              \/ /\ ~Old(p) /\ toServer = <<>> /\ AllOld'
                 /\ \A q \in Arriving' : q = p
                 /\ \/ /\ p.type = "OACK" /\ toServer' = Append(toServer, ACK(0))
                       /\ UNCHANGED <<tftp_request_in_progress, tftp_error,
                                      tftp_data_available, tftp_end_of_data>>
                    \/ /\ p.type = "DATA" /\ toServer' = toServer
                       /\ tftpdata' = Memcpy(tftpdata, 0, p.data)
                       /\ tftp_data_available' = Len(p.data)
                       /\ tftp_end_of_data' = (tftp_end_of_data \/ Len(p.data) # BlkSize)
                       /\ UNCHANGED <<tftp_request_in_progress, tftp_error>>
                    \/ /\ p.type = "ERR" /\ toServer' = toServer
                       /\ tftp_error' /\ tftp_request_in_progress' = "NORQ"
                       /\ UNCHANGED <<tftp_data_available, tftp_end_of_data>>
<1> DEFINE p == Head(toClient)
<1>1. /\ toClient # <<>> /\ toClient' = Tail(toClient) /\ tftp_recv_packet(p)
      /\ toClient \in Seq(CleanReply) /\ Behind /\ phase = "probe"
  BY GoodTypes DEF GetProbe, Probe
<1>2. p \in Arriving /\ Arriving' \subseteq Arriving
  BY <1>1, ArriveTail
<1>3. tftp_lastblk' = p.blk
  BY <1>1 DEF tftp_recv_packet
<1>4. tftp_request_in_progress = "RRQ" /\ p.type \in {"OACK", "DATA", "ERR"}
  <2>1. p \in Downstream(tftp_lastgot)
    BY <1>1, HeadIn DEF Good, StateInv, OrderInv, ClientOrder, LinkInv, Loading
  <2>2. p.type # "ACK"
    BY <2>1 DEF Downstream
  <2>3. p.type \in {"OACK", "DATA", "ACK", "ERR"}
    BY <1>2, GoodTypes
  <2> QED
    BY <1>1, <2>2, <2>3 DEF Good, StateInv, OrderInv, ClientOrder, FetchInv
<1>5. CASE Old(p)
  <2>1. UNCHANGED <<tftp_request_in_progress, tftp_error, tftp_lastblk, toServer,
                    tftp_data_available, tftp_end_of_data, tftpdata>>
    BY <1>1, <1>3, <1>5 DEF tftp_recv_packet, Old
  <2> QED
    BY <1>1, <1>2, <1>3, <1>5, <2>1, BehindTail
<1>6. CASE ~Old(p)
  <2>1. toServer = <<>>
    BY <1>2, <1>6, GoodTypes DEF TurnInv, AllOld
  <2>2. AllOld' /\ Behind' /\ \A q \in Arriving' : q = p
    BY <1>1, <1>3, <1>6, ReceivedNew
  <2>3. RecvOack(p) \/ RecvData(p) \/ RecvAck(p) \/ RecvError(p) \/ RecvOther(p)
    BY <1>1, <1>6 DEF tftp_recv_packet, Old
  <2> HIDE DEF p
  <2>4. CASE RecvOack(p)
    BY <1>2, <1>3, <1>6, <2>1, <2>2, <2>4 DEF RecvOack, p
  <2>5. CASE RecvData(p)
    BY <1>2, <1>3, <1>6, <2>1, <2>2, <2>5 DEF RecvData, p
  <2>6. CASE RecvError(p)
    BY <1>2, <1>3, <1>6, <2>1, <2>2, <2>6 DEF RecvError, p
  <2>7. ~RecvAck(p) /\ ~RecvOther(p)
    BY <1>4 DEF RecvAck, RecvOther
  <2> QED
    BY <2>3, <2>4, <2>5, <2>6, <2>7
<1> QED
  BY <1>5, <1>6

(* What a LOAD has handed out, and what the daemon has sent, is as it was. *)
LEMMA SameDelivery ==
    ASSUME UNCHANGED <<file, job, status, last_packet, send_empty, got, at_start, iobuf>>
    PROVE  /\ \A k : /\ Chunk(k)' = Chunk(k) /\ (SentBlocks(k)' <=> SentBlocks(k))
                     /\ Delivered(k)' <=> Delivered(k)
           /\ Over' = Over /\ Unflagged' = Unflagged
BY SameBlocks DEF Delivered

LEMMA GetProbeLoad ==
    ASSUME Good, GetProbe, UNCHANGED <<serverVars, boundVars>>
    PROVE  LoadInv'
<1> USE DEF Good, ServiceInv
<1> DEFINE p == Head(toClient)
<1>1. /\ phase = "probe" /\ phase' = "block" /\ Loading /\ Loading'
      /\ UNCHANGED <<iobuf, at_start, unsent_data, job, got, outcome, env, tftp_lastgot,
                     status, last_packet, send_empty, file>>
  BY DEF GetProbe, Probe, tftp_recv_packet, Loading, c64Vars, serverVars, objectVars,
         deviceVars, boundVars
<1>2. /\ RequestInv /\ (\A q \in Arriving : ReplyInv(q)) /\ Delivered(tftp_lastgot)
      /\ unsent_data = 0 /\ ~tftp_error /\ MoreExpected
      /\ (at_start /\ unsent_data = 0 => iobuf[0] = Stale)
  BY <1>1 DEF LoadInv
<1>3. toClient # <<>>
  BY DEF GetProbe, Probe
<1>4. ~Asked("RRQ")
  BY <1>2, <1>3 DEF RequestInv
<1>5. Delivered(tftp_lastgot)' /\ unsent_data' = 0
      /\ (at_start' /\ unsent_data' = 0 => iobuf'[0] = Stale)
  BY <1>1, <1>2, SameDelivery DEF Delivered
<1>6. SUFFICES /\ RequestInv' /\ (\A q \in Arriving' : ReplyInv(q)')
               /\ \/ ~tftp_error' /\ ~Fresh' /\ MoreExpected'
                  \/ ~tftp_error' /\ Fresh' /\ Received'
                  \/ /\ tftp_error' /\ toServer' = <<>> /\ AllOld' /\ Unflagged'
                     /\ tftp_request_in_progress' = "NORQ"
  BY <1>1, <1>5 DEF LoadInv
<1>7. /\ p \in Arriving /\ Arriving' \subseteq Arriving
      /\ tftp_lastblk' = p.blk
  BY GetProbeFacts
<1>8. ASSUME Old(p), UNCHANGED <<tftp_request_in_progress, tftp_error, tftp_lastblk, toServer,
                            tftp_data_available, tftp_end_of_data, tftpdata>>
      PROVE  /\ RequestInv' /\ (\A q \in Arriving' : ReplyInv(q)')
             /\ ~tftp_error' /\ ~Fresh' /\ MoreExpected'
  <2>1. ~Fresh
    BY <1>1, HandedNotFresh DEF StateInv, OrderInv, ClientOrder, FetchInv
  <2>2. ~tftp_error' /\ ~Fresh' /\ MoreExpected'
    BY <1>1, <1>2, <1>8, <2>1 DEF Fresh, MoreExpected
  <2>3. RequestInv'
    BY <1>1, <1>2, <1>4, <1>8, SameBlocks DEF RequestInv, Asked
  <2>4. \A q \in Arriving' : ReplyInv(q)'
    BY <1>1, <1>2, <1>7, <1>8, SameBlocks DEF ReplyInv, Old
  <2> QED
    BY <2>2, <2>3, <2>4
<1>9. ASSUME ~Old(p), toServer = <<>>, AllOld', \A q \in Arriving' : q = p,
             p.type = "OACK", toServer' = Append(toServer, ACK(0)),
             UNCHANGED <<tftp_request_in_progress, tftp_error,
                         tftp_data_available, tftp_end_of_data>>
      PROVE  /\ RequestInv' /\ (\A q \in Arriving' : ReplyInv(q)')
             /\ ~tftp_error' /\ ~Fresh' /\ MoreExpected'
  <2>1. tftp_lastgot = 0 /\ SentBlocks(0)
    BY <1>2, <1>7, <1>9 DEF ReplyInv
  <2>2. p.blk = 0
    <3>1. p \in Downstream(tftp_lastgot)
      BY <1>1, <1>3, GoodTypes, HeadIn DEF StateInv, OrderInv, ClientOrder, LinkInv
    <3> QED
      BY <1>9, <3>1 DEF Downstream
  <2>3. ~tftp_error' /\ ~Fresh' /\ MoreExpected'
    BY <1>1, <1>2, <1>7, <1>9, <2>1, <2>2 DEF Fresh, MoreExpected
  <2>4. Head(toServer') = ACK(0) /\ ACK(0).type = "ACK" /\ ACK(0).blk = 0
    BY <1>9, SentOne DEF ACK
  <2>5. RequestInv'
    BY <1>1, <1>7, <2>1, <2>2, <2>4, SameBlocks DEF RequestInv, Asked
  <2>6. \A q \in Arriving' : ReplyInv(q)'
    BY <1>7, <1>9 DEF ReplyInv, Old
  <2> QED
    BY <2>3, <2>5, <2>6
<1>10. ASSUME ~Old(p), toServer = <<>>, AllOld', \A q \in Arriving' : q = p,
              p.type = "DATA", toServer' = toServer,
              tftpdata' = Memcpy(tftpdata, 0, p.data),
              tftp_data_available' = Len(p.data),
              tftp_end_of_data' = (tftp_end_of_data \/ Len(p.data) # BlkSize),
              UNCHANGED <<tftp_request_in_progress, tftp_error>>
       PROVE  /\ RequestInv' /\ (\A q \in Arriving' : ReplyInv(q)')
              /\ ~tftp_error'
              /\ \/ ~Fresh' /\ MoreExpected'
                 \/ Fresh' /\ Received'
  <2>1. RequestInv'
    BY <1>10 DEF RequestInv, Asked
  <2>2. ReplyInv(p)
    BY <1>2, <1>7
  <2>3. \A q \in Arriving' : ReplyInv(q)'
    BY <1>1, <1>7, <1>10, <2>2, SameBlocks DEF ReplyInv, Old
  <2>4. CASE p.blk # tftp_lastgot + 1
    <3>1. ~Fresh'
      BY <1>1, <1>7, <2>4 DEF Fresh
    <3>2. tftp_lastgot = BlkMod - 1
      BY <1>10, <2>2, <2>4 DEF ReplyInv
    <3>3. MoreExpected'
      BY <1>1, <3>2 DEF MoreExpected
    <3> QED
      BY <1>2, <1>10, <2>1, <2>3, <3>1, <3>3
  <2>5. CASE p.blk = tftp_lastgot + 1
    <3>0. /\ p \in CleanReply /\ p.blk \in BlkNum /\ p.data \in Seq(Byte)
          /\ Len(p.data) \in 0 .. BlkSize /\ tftp_lastgot \in BlkNum
      BY <1>7, GoodTypes
    <3>1. p.data = Chunk(tftp_lastgot + 1) /\ SentBlocks(tftp_lastgot + 1)
      BY <1>10, <2>2, <2>5 DEF ReplyInv
    <3>2. ~tftp_end_of_data
      <4>1. tftp_lastgot # BlkMod - 1
        BY <2>5, <3>0, NumberFacts DEF BlkNum
      <4> QED
        BY <1>2, <4>1 DEF MoreExpected
    <3>3. tftp_end_of_data' <=> tftp_data_available' # BlkSize
      BY <1>10, <3>2
    <3>4. \A i \in 1 .. Len(p.data) : tftpdata'[i - 1] = p.data[i]
      <4>1. tftpdata \in [BufIdx -> Octet]
        BY Types DEF StateInv, TftpTypeOK
      <4>2. tftpdata' = [i \in BufIdx |-> IF i \in 0 .. 0 + Len(p.data) - 1
                                          THEN p.data[i - 0 + 1] ELSE tftpdata[i]]
        BY <1>10, <4>1 DEF Memcpy
      <4>3. \A i \in 1 .. Len(p.data) : i - 1 \in BufIdx /\ i - 1 \in 0 .. 0 + Len(p.data) - 1
                                        /\ i - 1 - 0 + 1 = i
        BY <3>0, Sizes DEF BufIdx
      <4> HIDE DEF p
      <4> QED
        BY <4>2, <4>3
    <3>5. Received'
      <4>1. \A q \in Arriving' : q.blk = tftp_lastblk' /\ q.type # "ERR"
        BY <1>7, <1>10
      <4>2. SentBlocks(tftp_lastgot + 1)' /\ Chunk(tftp_lastgot + 1)' = Chunk(tftp_lastgot + 1)
        BY <1>1, <3>1, SameBlocks DEF SentBlocks, Chunk, Reached, Over
      <4> HIDE DEF p
      <4> QED
        BY <1>1, <1>10, <3>1, <3>3, <3>4, <4>1, <4>2 DEF Received, Old
    <3>6. Fresh'
      <4>2. tftp_lastblk' = tftp_lastgot' + 1
        BY <1>1, <1>7, <2>5
      <4>3. \A i \in 0 .. tftp_data_available' - 1 : tftpdata'[i] \in Byte
        <5>1. \A i \in 0 .. Len(p.data) - 1 : i + 1 \in 1 .. Len(p.data) /\ i + 1 - 1 = i
          BY <3>0
        <5>2. \A i \in 1 .. Len(p.data) : p.data[i] \in Byte
          BY <3>0
        <5> HIDE DEF p
        <5> QED
          BY <1>10, <3>4, <5>1, <5>2
      <4> QED
        BY <3>3, <4>2, <4>3 DEF Fresh
    <3> QED
      BY <1>2, <1>10, <2>1, <2>3, <3>5, <3>6
  <2> QED
    BY <2>4, <2>5
<1>11. ASSUME ~Old(p), toServer = <<>>, AllOld', \A q \in Arriving' : q = p,
              p.type = "ERR", toServer' = toServer, tftp_error',
              tftp_request_in_progress' = "NORQ"
       PROVE  /\ RequestInv' /\ (\A q \in Arriving' : ReplyInv(q)')
              /\ toServer' = <<>> /\ Unflagged'
  <2>1. Unflagged
    BY <1>2, <1>7, <1>11 DEF ReplyInv
  <2> QED
    BY <1>1, <1>7, <1>11, <2>1, SameBlocks DEF ReplyInv, RequestInv, Asked, Old
<1> HIDE DEF p
<1> QED
  BY <1>8, <1>9, <1>10, <1>11, GetProbeFacts DEF p

LEMMA GetProbeService ==
    ASSUME Good, GetProbe, UNCHANGED <<serverVars, boundVars>>
    PROVE  ServiceInv'
<1> USE DEF Good, ServiceInv
<1>1. /\ phase = "probe" /\ phase' = "block" /\ Loading /\ Loading' /\ ~InLoop' /\ ~Saving'
      /\ UNCHANGED <<iobuf, at_start, unsent_data, job, got, outcome, env,
                     status, last_packet, send_empty, file>>
      /\ job.cmd = "load" /\ outcome = "busy" /\ toClient # <<>>
  BY DEF GetProbe, Probe, Loading, Saving, InLoop, JobInv, c64Vars, serverVars, objectVars,
         deviceVars, boundVars
<1>2. /\ Arriving' \subseteq Arriving /\ Behind'
      /\ tftp_request_in_progress' \in {tftp_request_in_progress, "NORQ"}
      /\ \/ toServer' = toServer /\ (AllOld => AllOld')
         \/ toServer' = toServer /\ toServer = <<>>
         \/ toServer' = Append(<<>>, ACK(0)) /\ AllOld'
  BY GetProbeFacts DEF AllOld, Old
<1>3. /\ toServer' # <<>> => AllOld'
      /\ Len(toServer') <= 1
      /\ toServer' = toServer \/ Head(toServer') = ACK(0)
  <2>1. Append(<<>>, ACK(0)) # <<>> /\ Len(Append(<<>>, ACK(0))) = 1
        /\ Head(Append(<<>>, ACK(0))) = ACK(0) /\ 1 <= 1
    BY SentOne
  <2>2. Len(toServer) <= 1 /\ (toServer # <<>> => AllOld)
    BY DEF TurnInv
  <2> QED
    BY <1>2, <2>1, <2>2
<1>4. TurnInv'
  BY <1>2, <1>3 DEF TurnInv, Behind
<1>5. ~Asked("RRQ") /\ ACK(0).type = "ACK"
  BY <1>1 DEF LoadInv, RequestInv, ACK
<1>6. JobInv'
  BY <1>1, <1>2, <1>3, <1>5 DEF JobInv, Asked
<1>7. FlagInv' /\ GivenInv' /\ SaveInv'
  BY <1>1 DEF FlagInv, GivenInv, EmptyFileLoad, SaveInv, CollectInv, StoreInv
<1> QED
  BY <1>4, <1>6, <1>7, GetProbeLoad

LEMMA GetBlockService ==
    ASSUME Good, GetBlock, UNCHANGED <<serverVars, boundVars>>
    PROVE  ServiceInv'
<1> USE DEF Good, ServiceInv
<1>0. tftp_lastgot + 1 \in Nat
  BY GoodTypes
<1> PICK k \in Nat : k = tftp_lastgot + 1
  BY <1>0
<1> DEFINE src == Slice(tftpdata, 0, tftp_data_available)
<1>1. /\ phase = "block" /\ phase' = "send" /\ Loading /\ Loading' /\ ~InLoop' /\ ~Saving'
      /\ ~tftp_error /\ ~tftp_error'
      /\ job.cmd = "load" /\ outcome = "busy" /\ tftp_request_in_progress # "WRQ"
      /\ tftp_request_in_progress' = IF tftp_end_of_data THEN "NORQ"
                                     ELSE tftp_request_in_progress
      /\ iobuf' = Memcpy(iobuf, Offset, src)
      /\ unsent_data' = tftp_data_available /\ eoi' = tftp_end_of_data
      /\ tftp_end_of_data' = tftp_end_of_data
      /\ UNCHANGED <<toClient, tftp_lastblk, at_start, job, got, outcome, env,
                     status, last_packet, send_empty, file>>
  BY DEF GetBlock, tftp_get_block, Offset, Loading, Saving, InLoop, JobInv, LoadInv, c64Vars,
         serverVars, objectVars, deviceVars, boundVars
<1>2. Fresh /\ tftp_blknum = k /\ tftp_lastgot' = k
  BY GetBlockNext
<1>3. k \in Nat /\ k # 0 /\ k - 1 = tftp_lastgot /\ tftp_lastblk = k
  BY <1>2, GoodTypes DEF Fresh
<1>4. /\ SentBlocks(k) /\ toServer = <<>> /\ AllOld /\ (\A p \in Arriving : p.type # "ERR")
      /\ tftp_data_available = Len(Chunk(k))
      /\ \A i \in 1 .. tftp_data_available : tftpdata[i - 1] = Chunk(k)[i]
      /\ tftp_end_of_data <=> tftp_data_available # BlkSize
      /\ Delivered(tftp_lastgot) /\ unsent_data = 0
      /\ (at_start => iobuf[0] = Stale)
  BY <1>1, <1>2 DEF LoadInv, Received, AllOld
<1>5. /\ toServer' = Append(<<>>, ACK(k)) /\ toServer' # <<>> /\ Len(toServer') = 1
      /\ Head(toServer') = ACK(k) /\ ACK(k).type = "ACK" /\ ACK(k).blk = k
  BY <1>2, <1>4, SentOne DEF GetBlock, tftp_get_block, ACK
<1>6. Arriving' = Arriving /\ AllOld' /\ Behind'
  BY <1>1, <1>4, Kept, GoodTypes
<1>7. /\ tftp_data_available \in 0 .. BlkSize /\ BlkSize \in Nat /\ BlkSize > 0
      /\ iobuf \in [IoIdx -> Octet]
  BY Types, Sizes DEF StateInv, TftpTypeOK, LoopTypeOK
<1>8. /\ src = [i \in 1 .. tftp_data_available |-> tftpdata[0 + i - 1]]
      /\ Len(src) = tftp_data_available
      /\ \A i \in 1 .. tftp_data_available : src[i] = Chunk(k)[i]
  <2>1. src = [i \in 1 .. tftp_data_available |-> tftpdata[0 + i - 1]]
    BY DEF Slice
  <2>2. \A i \in 1 .. tftp_data_available : 0 + i - 1 = i - 1
    OBVIOUS
  <2> HIDE DEF src
  <2>3. \A i \in 1 .. tftp_data_available : src[i] = tftpdata[i - 1]
    BY <2>1, <2>2
  <2> QED
    BY <1>4, <1>7, <2>1, <2>3
<1> HIDE DEF src
<1>9. iobuf' = [i \in IoIdx |-> IF i \in Offset .. Offset + tftp_data_available - 1
                                THEN src[i - Offset + 1] ELSE iobuf[i]]
  BY <1>1, <1>7, <1>8 DEF Memcpy
<1>10. Offset \in {0, 1} /\ (Offset = 0 <=> at_start) /\ Offset' = Offset /\ 0 \in IoIdx
  BY <1>1, <1>7 DEF Offset, IoIdx
<1>11. /\ ~at_start \/ tftp_data_available = 0 => iobuf'[0] = iobuf[0]
       /\ \A i \in 1 .. tftp_data_available : iobuf'[Offset + i - 1] = Chunk(k)[i]
  <2>1. ~at_start \/ tftp_data_available = 0 => iobuf'[0] = iobuf[0]
    BY <1>7, <1>9, <1>10
  <2>2. \A i \in 1 .. tftp_data_available :
          /\ Offset + i - 1 \in IoIdx
          /\ Offset + i - 1 \in Offset .. Offset + tftp_data_available - 1
          /\ (Offset + i - 1) - Offset + 1 = i
    BY <1>7, <1>10 DEF IoIdx
  <2>3. \A i \in 1 .. tftp_data_available : iobuf'[Offset + i - 1] = src[i]
    BY <1>9, <2>2
  <2> QED
    BY <1>8, <2>1, <2>3
<1>12. TurnInv'
  BY <1>5, <1>6 DEF TurnInv, Behind
<1>13. JobInv'
  BY <1>1, <1>5, <1>6 DEF JobInv, Asked
<1>14. RequestInv'
  BY <1>1, <1>2, <1>3, <1>4, <1>5, SameBlocks DEF RequestInv, Asked, SentBlocks, Reached, Over
<1>15. \A p \in Arriving' : ReplyInv(p)'
  <2>1. \A p \in Arriving' : p.blk = tftp_lastblk' /\ p.type # "ERR" /\ p.blk # tftp_lastgot' + 1
    BY <1>1, <1>2, <1>3, <1>4, <1>6 DEF AllOld, Old
  <2> QED
    BY <2>1 DEF ReplyInv, Old
<1>16. Delivered(k - 1)'
  BY <1>1, <1>3, <1>4, <1>11 DEF Delivered
<1>17. Fetched'
  <2>1. file'.name = job'.name /\ Chunk(k)' = Chunk(k)
    BY <1>1, <1>4, SameBlocks DEF SentBlocks
  <2>2. \A i \in 1 .. unsent_data' : iobuf'[Offset' + i - 1] = Chunk(k)'[i]
    BY <1>1, <1>10, <1>11, <2>1
  <2>3. /\ eoi' <=> unsent_data' # BlkSize
        /\ eoi' <=> tftp_end_of_data'
    BY <1>1, <1>4
  <2>4. eoi' => tftp_request_in_progress' = "NORQ" /\ Over'
    <3>1. tftp_end_of_data => Over
      BY <1>3, <1>4, ChunkFacts DEF SentBlocks
    <3> QED
      BY <1>1, <3>1, SameBlocks
  <2>5. unsent_data' = Len(Chunk(k)')
    BY <1>1, <1>4, <2>1
  <2>6. tftp_lastgot' = k /\ tftp_lastgot' # 0
    BY <1>2, <1>3
  <2>7. Delivered(tftp_lastgot - 1)'
    BY <1>16, <2>6 DEF Delivered
  <2>8. Chunk(tftp_lastgot)' = Chunk(k)'
    BY <2>6 DEF Chunk, Reached
  <2> QED
    BY <2>1, <2>2, <2>3, <2>4, <2>5, <2>6, <2>7, <2>8 DEF Fetched
<1>18. LoadInv'
  <2>1. at_start' /\ unsent_data' = 0 => iobuf'[0] = Stale
    BY <1>1, <1>4, <1>11
  <2> QED
    BY <1>1, <1>14, <1>15, <1>17, <2>1 DEF LoadInv
<1>19. FlagInv' /\ GivenInv' /\ SaveInv'
  BY <1>1 DEF FlagInv, GivenInv, EmptyFileLoad, SaveInv, CollectInv, StoreInv
<1> QED
  BY <1>12, <1>13, <1>18, <1>19

LEMMA SliceFacts ==
    ASSUME NEW S, NEW n \in Nat, \A j \in 1 .. n : iobuf[0 + j - 1] \in S
    PROVE  /\ Slice(iobuf, 0, n) \in Seq(S) /\ Len(Slice(iobuf, 0, n)) = n
           /\ \A j \in 1 .. n : Slice(iobuf, 0, n)[j] = iobuf[0 + j - 1]
<1>1. Slice(iobuf, 0, n) = [j \in 1 .. n |-> iobuf[0 + j - 1]]
  BY DEF Slice
<1>2. Slice(iobuf, 0, n) \in Seq(S) /\ Len(Slice(iobuf, 0, n)) = n
  BY <1>1
<1>3. \A j \in 1 .. n : Slice(iobuf, 0, n)[j] = iobuf[0 + j - 1]
  BY <1>1
<1> QED
  BY <1>2, <1>3

LEMMA PrefixOf ==
    ASSUME NEW S, NEW s \in Seq(S), NEW m \in 0 .. Len(s)
    PROVE  /\ IsPrefix(SubSeq(s, 1, m), s)
           /\ Len(SubSeq(s, 1, m)) = m
           /\ m = Len(s) => SubSeq(s, 1, m) = s
<1>1. Len(SubSeq(s, 1, m)) = m /\ m <= Len(s)
  OBVIOUS
<1>2. SubSeq(SubSeq(s, 1, m), 1, m) = SubSeq(s, 1, m)
  OBVIOUS
<1>3. m = Len(s) => SubSeq(s, 1, m) = s
  OBVIOUS
<1> QED
  BY <1>1, <1>2, <1>3 DEF IsPrefix

(* A sequence is continued by what comes next in the one it is a prefix of.*)
LEMMA Continue ==
    ASSUME NEW S, NEW s \in Seq(S), NEW m \in Nat, NEW c \in Nat, m + c <= Len(s),
           NEW t \in Seq(S), Len(t) = c, \A i \in 1 .. c : t[i] = s[m + i]
    PROVE  SubSeq(s, 1, m) \o t = SubSeq(s, 1, m + c)
<1>1. Len(SubSeq(s, 1, m) \o t) = m + c /\ Len(SubSeq(s, 1, m + c)) = m + c
  OBVIOUS
<1>2. \A i \in 1 .. m + c : (SubSeq(s, 1, m) \o t)[i] = s[i]
  <2> SUFFICES ASSUME NEW i \in 1 .. m + c PROVE (SubSeq(s, 1, m) \o t)[i] = s[i]
    OBVIOUS
  <2>1. CASE i <= m
    BY <2>1
  <2>2. CASE i > m
    <3>1. i - m \in 1 .. c /\ m + (i - m) = i
      BY <2>2
    <3>2. (SubSeq(s, 1, m) \o t)[i] = t[i - m]
      BY <2>2
    <3> QED
      BY <3>1, <3>2
  <2> QED
    BY <2>1, <2>2
<1>3. \A i \in 1 .. m + c : SubSeq(s, 1, m + c)[i] = s[i]
  OBVIOUS
<1>4. SubSeq(s, 1, m) \o t \in Seq(S) /\ SubSeq(s, 1, m + c) \in Seq(S)
  OBVIOUS
<1> QED
  BY <1>1, <1>2, <1>3, <1>4

(* What send_file has in iobuf goes on where the C64 has been left.        *)
LEMMA HandOut ==
    ASSUME Good, phase = "send"
    PROVE  LET base == (tftp_lastgot - 1) * BlkSize IN
           /\ base - Offset \in Nat /\ base \in Nat
           /\ base + unsent_data <= Len(file.data)
           /\ unsent_data # BlkSize => base + unsent_data = Len(file.data)
           /\ unsent_data = BlkSize => /\ tftp_lastgot * BlkSize = base + BlkSize
                                       /\ iobuf[Offset + BlkSize - 1] = file.data[base + BlkSize]
           /\ got = SubSeq(file.data, 1, base - Offset)
           /\ \A c \in 0 .. Offset + unsent_data :
                got \o Slice(iobuf, 0, c) = SubSeq(file.data, 1, base - Offset + c)
<1> USE DEF Good, ServiceInv
<1> DEFINE n == tftp_lastgot
           base == (n - 1) * BlkSize
<1>1. /\ Fetched /\ n \in Nat /\ n # 0 /\ n - 1 \in Nat
  BY GoodTypes, Times DEF LoadInv, Loading, Fetched
<1>2. /\ base \in Nat /\ n * BlkSize = base + BlkSize /\ BlkSize \in Nat /\ BlkSize > 0
      /\ Len(file.data) \in Nat /\ file.data \in Seq(Byte)
  BY <1>1, Times, Sizes, GoodTypes
<1>3. /\ Reached(n) \in 0 .. Len(file.data) /\ Reached(n - 1) \in 0 .. Reached(n)
      /\ unsent_data = Reached(n) - Reached(n - 1) /\ unsent_data \in 0 .. BlkSize
      /\ \A i \in 1 .. unsent_data : Chunk(n)[i] = file.data[Reached(n - 1) + i]
      /\ unsent_data = BlkSize <=> n * BlkSize <= Len(file.data)
      /\ n * BlkSize <= Len(file.data) => Reached(n) = n * BlkSize
  BY <1>1, ChunkFacts DEF Fetched
<1>4. /\ Offset \in {0, 1} /\ (Offset = 0 <=> at_start)
      /\ Offset = 0 => base = 0 /\ got = <<>>
      /\ Offset = 1 => /\ base <= Len(file.data) /\ base - 1 \in Nat
                       /\ got = SubSeq(file.data, 1, base - 1)
                       /\ iobuf[0] = file.data[base]
  <2>1. Delivered(n - 1) /\ Offset \in {0, 1} /\ (Offset = 0 <=> at_start)
    BY <1>1 DEF Fetched, Offset
  <2>2. CASE n - 1 = 0
    BY <1>2, <2>1, <2>2 DEF Delivered
  <2>3. CASE n - 1 # 0
    <3>1. (n - 1) * BlkSize = (n - 1 - 1) * BlkSize + BlkSize /\ (n - 1 - 1) * BlkSize \in Nat
      BY <1>1, <2>3, Times
    <3>2. base - 1 \in Nat
      BY <1>2, <3>1
    <3> QED
      BY <2>1, <2>3, <3>2 DEF Delivered
  <2> QED
    BY <2>2, <2>3
<1>5. base <= Len(file.data) /\ Reached(n - 1) = base
  BY <1>2, <1>4 DEF Reached
<1> HIDE DEF base
<1>6. /\ base - Offset \in Nat /\ base + unsent_data <= Len(file.data)
      /\ unsent_data # BlkSize => base + unsent_data = Len(file.data)
  <2>1. CASE n * BlkSize <= Len(file.data)
    BY <1>2, <1>3, <1>4, <1>5, <2>1
  <2>2. CASE ~(n * BlkSize <= Len(file.data))
    <3>1. Reached(n) = Len(file.data)
      BY <2>2 DEF Reached
    <3> QED
      BY <1>2, <1>3, <1>4, <1>5, <3>1
  <2> QED
    BY <2>1, <2>2
<1>7. got = SubSeq(file.data, 1, base - Offset)
  <2>1. SubSeq(file.data, 1, 0) = <<>>
    BY <1>2
  <2>2. CASE Offset = 0
    <3>1. base - Offset = 0
      BY <1>4, <2>2
    <3> QED
      BY <1>4, <2>1, <2>2, <3>1
  <2>3. CASE Offset = 1
    BY <1>4, <2>3
  <2> QED
    BY <1>4, <2>2, <2>3
<1>8. \A j \in 1 .. Offset + unsent_data : iobuf[0 + j - 1] = file.data[base - Offset + j]
  <2> SUFFICES ASSUME NEW j \in 1 .. Offset + unsent_data
               PROVE  iobuf[0 + j - 1] = file.data[base - Offset + j]
    OBVIOUS
  <2>1. CASE j <= Offset
    <3>1. j = 1 /\ Offset = 1 /\ 0 + j - 1 = 0 /\ base - Offset + j = base
      BY <1>2, <1>4, <2>1
    <3> QED
      BY <1>4, <3>1
  <2>2. CASE j > Offset
    <3>1. PICK i \in 1 .. unsent_data : i = j - Offset
      BY <1>3, <1>4, <2>2
    <3>2. 0 + j - 1 = Offset + i - 1 /\ base - Offset + j = base + i
      BY <1>2, <1>4, <3>1
    <3>3. iobuf[Offset + i - 1] = Chunk(n)[i]
      BY <1>1 DEF Fetched
    <3> QED
      BY <1>3, <1>5, <3>2, <3>3
  <2> QED
    BY <1>3, <1>4, <2>1, <2>2
<1>9. ASSUME NEW c \in 0 .. Offset + unsent_data
      PROVE  got \o Slice(iobuf, 0, c) = SubSeq(file.data, 1, base - Offset + c)
  <2>1. c \in Nat /\ base - Offset \in Nat /\ base - Offset + c <= Len(file.data)
    <3>1. Offset \in Int /\ unsent_data \in Int /\ base \in Int /\ Len(file.data) \in Int
      BY <1>2, <1>3, <1>4
    <3>2. base + unsent_data <= Len(file.data) /\ base - Offset \in Nat
      BY <1>6
    <3>3. c \in Nat /\ c <= Offset + unsent_data
      BY <3>1
    <3> QED
      BY <3>1, <3>2, <3>3
  <2>5. \A j \in 1 .. c : j \in 1 .. Offset + unsent_data
    BY <1>3, <1>4, <2>1
  <2>3. \A j \in 1 .. c : iobuf[0 + j - 1] = file.data[base - Offset + j]
                          /\ file.data[base - Offset + j] \in Byte
    <3>1. \A j \in 1 .. c : base - Offset + j \in 1 .. Len(file.data)
      BY <2>1
    <3> QED
      BY <1>2, <1>8, <2>5, <3>1
  <2>4. Slice(iobuf, 0, c) \in Seq(Byte) /\ Len(Slice(iobuf, 0, c)) = c
        /\ \A j \in 1 .. c : Slice(iobuf, 0, c)[j] = file.data[base - Offset + j]
    <3>1. \A j \in 1 .. c : iobuf[0 + j - 1] \in Byte
      BY <2>3
    <3> QED
      BY <2>1, <2>3, <3>1, SliceFacts
  <2> HIDE DEF n
  <2> QED
    BY ZenonT(30), <1>2, <1>7, <2>1, <2>4, Continue
<1>10. unsent_data = BlkSize => iobuf[Offset + BlkSize - 1] = file.data[base + BlkSize]
  <2> SUFFICES ASSUME unsent_data = BlkSize
               PROVE  iobuf[Offset + BlkSize - 1] = file.data[base + BlkSize]
    OBVIOUS
  <2>1. BlkSize \in 1 .. unsent_data
    BY <1>2
  <2> QED
    BY <1>1, <1>3, <1>5, <2>1 DEF Fetched
<1> QED
  BY <1>2, <1>6, <1>7, <1>9, <1>10 DEF base

LEMMA SliceOne ==
    ASSUME NEW c \in Nat, c # 0, iobuf \in [IoIdx -> Octet], c <= BlkSize + 1
    PROVE  Slice(iobuf, 0, c - 1) \o <<iobuf[c - 1]>> = Slice(iobuf, 0, c)
<1>2. c - 1 \in Nat /\ BlkSize \in Nat
  BY Sizes
<1>3. \A j \in 1 .. c : iobuf[0 + j - 1] \in Octet
  BY <1>2 DEF IoIdx
<1>4. /\ Slice(iobuf, 0, c) \in Seq(Octet) /\ Len(Slice(iobuf, 0, c)) = c
      /\ \A j \in 1 .. c : Slice(iobuf, 0, c)[j] = iobuf[0 + j - 1]
  BY <1>3, SliceFacts
<1>5. /\ Slice(iobuf, 0, c - 1) \in Seq(Octet) /\ Len(Slice(iobuf, 0, c - 1)) = c - 1
      /\ \A j \in 1 .. c - 1 : Slice(iobuf, 0, c - 1)[j] = iobuf[0 + j - 1]
  <2>1. \A j \in 1 .. c - 1 : iobuf[0 + j - 1] \in Octet
    BY <1>3
  <2> QED
    BY <1>2, <2>1, SliceFacts
<1>6. iobuf[c - 1] \in Octet /\ iobuf[c - 1] = iobuf[0 + c - 1]
  BY <1>2, <1>3
<1> DEFINE x == Slice(iobuf, 0, c - 1)
           y == Slice(iobuf, 0, c)
           z == iobuf[c - 1]
<1> HIDE DEF x, y, z
<1>7. x \o <<z>> \in Seq(Octet) /\ Len(x \o <<z>>) = c
      /\ \A j \in 1 .. c : (x \o <<z>>)[j] = IF j = c THEN z ELSE x[j]
  BY <1>5, <1>6 DEF x, z
<1>8. \A j \in 1 .. c : (x \o <<z>>)[j] = y[j]
  BY <1>4, <1>5, <1>6, <1>7 DEF x, y, z
<1> QED
  BY <1>4, <1>7, <1>8 DEF x, y, z

(* Without EOI all of the block is given to the C64 but its last byte,     *)
(* which goes to iobuf[0]; with EOI that is the end of the file.           *)
LEMMA SendBlockGives ==
    ASSUME Good, SendBlock
    PROVE  /\ file.name = job.name
           /\ eoi => got' = IF file.data = <<>> THEN <<Stale>> ELSE file.data
           /\ ~eoi => LET k == tftp_lastgot * BlkSize IN
                /\ k \in Nat /\ k # 0 /\ k <= Len(file.data) /\ Len(got) \in 0 .. k - 1
                /\ got' = SubSeq(file.data, 1, k - 1)
                /\ iobuf'[0] = file.data[k] /\ ~at_start'
<1> USE DEF Good, ServiceInv
<1> DEFINE base == (tftp_lastgot - 1) * BlkSize
           u == unsent_data
<1>1. /\ phase = "send" /\ Loading
      /\ got' = got \o Outgoing
      /\ ~eoi => ~at_start' /\ iobuf' = [iobuf EXCEPT ![0] =
                      iobuf[IF at_start THEN BlkSize - 1 ELSE BlkSize]]
  BY DEF SendBlock, Loading
<1>2. Fetched /\ (at_start /\ u = 0 => iobuf[0] = Stale) /\ file.name = job.name
      /\ (eoi <=> u # BlkSize)
  BY <1>1 DEF LoadInv, Fetched
<1>3. /\ base - Offset \in Nat /\ base \in Nat
      /\ base + u <= Len(file.data)
      /\ u # BlkSize => base + u = Len(file.data)
      /\ u = BlkSize => /\ tftp_lastgot * BlkSize = base + BlkSize
                        /\ iobuf[Offset + BlkSize - 1] = file.data[base + BlkSize]
      /\ got = SubSeq(file.data, 1, base - Offset)
      /\ \A c \in 0 .. Offset + u :
           got \o Slice(iobuf, 0, c) = SubSeq(file.data, 1, base - Offset + c)
  BY <1>1, HandOut
<1> HIDE DEF base
<1>4. /\ Offset \in {0, 1} /\ (Offset = 0 <=> at_start)
      /\ u \in 0 .. BlkSize /\ BlkSize \in Nat /\ BlkSize > 0 /\ iobuf \in [IoIdx -> Octet]
      /\ file.data \in Seq(Byte) /\ Len(file.data) \in Nat /\ 0 \in IoIdx
  BY Types, Sizes, GoodTypes DEF StateInv, LoopTypeOK, Offset, IoIdx
<1> DEFINE n == IF u > 0 THEN u - 1 + Offset ELSE 0
           last == IF u = 0 THEN 0 ELSE u - 1 + Offset
<1>5. Outgoing = Slice(iobuf, 0, n) \o (IF eoi THEN <<iobuf[last]>> ELSE <<>>)
  BY <1>4 DEF Outgoing, Offset
<1>6. ASSUME eoi, Offset + u # 0
      PROVE  got' = file.data /\ file.data # <<>>
  <2>1. n = Offset + u - 1 /\ last = Offset + u - 1 /\ Offset + u \in Nat
        /\ Offset + u <= BlkSize + 1
    BY <1>4, <1>6
  <2>2. Outgoing = Slice(iobuf, 0, Offset + u)
    BY SMTT(30), <1>4, <1>5, <1>6, <2>1, SliceOne
  <2>3. got' = SubSeq(file.data, 1, base - Offset + (Offset + u))
    BY <1>1, <1>3, <2>1, <2>2
  <2>4. base - Offset + (Offset + u) = Len(file.data) /\ Len(file.data) # 0
    BY <1>2, <1>3, <1>4, <1>6
  <2>5. SubSeq(file.data, 1, Len(file.data)) = file.data
    BY <1>4
  <2> QED
    BY <1>4, <2>3, <2>4, <2>5
<1>7. ASSUME eoi, Offset + u = 0
      PROVE  got' = <<Stale>> /\ file.data = <<>>
  <2>1. u = 0 /\ at_start /\ n = 0 /\ last = 0
    BY <1>4, <1>7
  <2>2. Slice(iobuf, 0, 0) = <<>>
    BY DEF Slice
  <2>3. base - Offset = 0 /\ Len(file.data) = 0
    <3>1. Delivered(tftp_lastgot - 1)
      BY <1>2 DEF Fetched
    <3>2. tftp_lastgot - 1 = 0
      BY <2>1, <3>1 DEF Delivered
    <3>3. base = 0
      BY <1>4, <3>2 DEF base
    <3> QED
      BY <1>2, <1>3, <1>4, <2>1, <3>3
  <2>4. got = <<>>
    BY <1>3, <1>4, <2>3
  <2>5. <<>> \o (<<>> \o <<Stale>>) = <<Stale>>
    OBVIOUS
  <2>6. Outgoing = <<>> \o <<Stale>>
    BY <1>2, <1>5, <1>7, <2>1, <2>2
  <2> QED
    BY <1>1, <1>4, <2>3, <2>4, <2>5, <2>6
<1>8. ASSUME ~eoi
      PROVE  LET k == tftp_lastgot * BlkSize IN
                /\ k \in Nat /\ k # 0 /\ k <= Len(file.data) /\ Len(got) \in 0 .. k - 1
                /\ got' = SubSeq(file.data, 1, k - 1)
                /\ iobuf'[0] = file.data[k] /\ ~at_start'
  <2> DEFINE k == tftp_lastgot * BlkSize
  <2>1. u = BlkSize /\ k = base + BlkSize /\ n = Offset + u - 1 /\ n \in 0 .. Offset + u
    BY <1>2, <1>3, <1>4, <1>8
  <2>2. k \in Nat /\ k # 0 /\ k <= Len(file.data) /\ base - Offset + n = k - 1
    BY <1>3, <1>4, <2>1
  <2>3. Outgoing = Slice(iobuf, 0, n)
    <3>1. Slice(iobuf, 0, n) \in Seq(Octet)
      <4>1. n \in Nat /\ \A j \in 1 .. n : 0 + j - 1 \in IoIdx
        BY <1>4, <2>1 DEF IoIdx
      <4> HIDE DEF n
      <4> QED
        BY <1>4, <4>1 DEF Slice
    <3>2. Slice(iobuf, 0, n) \o <<>> = Slice(iobuf, 0, n)
      <4> HIDE DEF n
      <4> QED
        BY <3>1
    <3> HIDE DEF n
    <3> QED
      BY <1>5, <1>8, <3>2
  <2>4. got' = SubSeq(file.data, 1, k - 1)
    <3> HIDE DEF n, k
    <3> QED
      BY <1>1, <1>3, <2>1, <2>2, <2>3
  <2>5. Len(got) = base - Offset
    <3>1. base - Offset \in 0 .. Len(file.data)
      BY <1>3, <1>4
    <3> QED
      BY <1>3, <1>4, <3>1
  <2>6. Len(got) \in 0 .. k - 1
    BY <1>3, <1>4, <2>1, <2>5
  <2>7. iobuf'[0] = iobuf[Offset + BlkSize - 1]
    <3>1. iobuf'[0] = iobuf[IF at_start THEN BlkSize - 1 ELSE BlkSize]
      BY <1>1, <1>4, <1>8
    <3>2. (IF at_start THEN BlkSize - 1 ELSE BlkSize) = Offset + BlkSize - 1
      BY <1>4
    <3> QED
      BY <3>1, <3>2
  <2> QED
    BY <1>1, <1>3, <1>8, <2>1, <2>2, <2>4, <2>6, <2>7
<1> QED
  BY <1>2, <1>6, <1>7, <1>8

LEMMA SendBlockService ==
    ASSUME Good, SendBlock, UNCHANGED <<serverVars, boundVars>>
    PROVE  ServiceInv'
<1> USE DEF Good, ServiceInv
<1>1. /\ phase = "send" /\ Loading /\ ~Saving' /\ job.cmd = "load" /\ outcome = "busy"
      /\ unsent_data' = 0
      /\ \/ eoi /\ phase' = "loop" /\ outcome' = "eoi" /\ InLoop' /\ ~Loading'
         \/ ~eoi /\ phase' = "probe" /\ outcome' = "busy" /\ ~InLoop' /\ Loading'
      /\ UNCHANGED <<toServer, toClient, tftpVars, eoi, job, env,
                     status, last_packet, send_empty, file>>
  BY DEF SendBlock, Loading, Saving, InLoop, JobInv, linkVars, serverVars, objectVars,
         deviceVars, boundVars
<1>2. /\ Fetched /\ RequestInv /\ (\A p \in Arriving : ReplyInv(p)) /\ ~tftp_error
      /\ ~Asked("RRQ")
  BY <1>1 DEF LoadInv, RequestInv
<1>3. Arriving' = Arriving
  BY <1>1, Kept
<1>4. TurnInv'
  BY <1>1, <1>3 DEF TurnInv, AllOld, Old, tftpVars
<1>5. JobInv'
  <2>1. /\ Asked("RRQ")' <=> Asked("RRQ")
        /\ Asked("ACK")' <=> Asked("ACK")
        /\ Asked("WRQ")' <=> Asked("WRQ")
        /\ Asked("DATA")' <=> Asked("DATA")
    BY <1>1 DEF Asked
  <2>2. phase' = "loop" => tftp_request_in_progress' = "NORQ"
    BY <1>1, <1>2 DEF Fetched, tftpVars
  <2>3. \A p \in Arriving' : p.type = "OACK" => p.blk = tftp_lastblk'
    BY <1>1, <1>2, <1>3 DEF Fetched, ReplyInv, Old, tftpVars
  <2>4. ~Asked("WRQ") /\ ~Asked("DATA")
    BY <1>1 DEF JobInv
  <2> QED
    BY <1>1, <1>2, <1>3, <2>1, <2>2, <2>3, <2>4 DEF JobInv, Old, tftpVars
<1>6. ASSUME eoi
      PROVE  LoadInv' /\ FlagInv' /\ GivenInv'
  <2>1. Over
    BY <1>2, <1>6 DEF Fetched
  <2>2. Unflagged
    BY <2>1 DEF Over, Unflagged, FlagInv
  <2>3. LoadInv' /\ FlagInv'
    BY <1>1, <1>6, <2>1, <2>2, SameBlocks DEF LoadInv, FlagInv
  <2>4. /\ file'.name = job'.name
        /\ got' = IF file'.data = <<>> THEN <<Stale>> ELSE file'.data
    BY <1>1, <1>6, SendBlockGives
  <2>5. IsPrefix(file.data, file.data)
    BY GoodTypes DEF IsPrefix
  <2> QED
    BY <1>1, <1>6, <2>3, <2>4, <2>5 DEF GivenInv, EmptyFileLoad
<1>7. ASSUME ~eoi
      PROVE  LoadInv' /\ FlagInv' /\ GivenInv'
  <2> DEFINE k == tftp_lastgot * BlkSize
  <2>1. /\ k \in Nat /\ k # 0 /\ k <= Len(file.data) /\ got' = SubSeq(file.data, 1, k - 1)
        /\ iobuf'[0] = file.data[k] /\ ~at_start' /\ file.name = job.name
    BY <1>7, SendBlockGives
  <2>2. tftp_lastgot # 0
    BY <1>2 DEF Fetched
  <2>3. Delivered(tftp_lastgot)'
    BY <1>1, <2>1, <2>2 DEF Delivered, tftpVars
  <2>4. MoreExpected'
    BY <1>1, <1>2, <1>7 DEF Fetched, MoreExpected, tftpVars
  <2>5. RequestInv'
    BY <1>1, <1>2, SameBlocks DEF RequestInv, Asked, tftpVars
  <2>6. \A p \in Arriving' : ReplyInv(p)'
    BY <1>1, <1>2, <1>3, SameBlocks DEF ReplyInv, Old, tftpVars
  <2>7. LoadInv'
    BY <1>1, <1>2, <1>7, <2>1, <2>3, <2>4, <2>5, <2>6 DEF LoadInv, tftpVars
  <2>8. FlagInv'
    BY <1>1, <1>7 DEF FlagInv
  <2>9. IsPrefix(got', file.data)
    <3>1. k - 1 \in 0 .. Len(file.data) /\ file.data \in Seq(Byte)
      BY <2>1, GoodTypes
    <3> HIDE DEF k
    <3> QED
      BY <2>1, <3>1, PrefixOf
  <2>10. GivenInv'
    BY <1>1, <1>7, <2>1, <2>9 DEF GivenInv
  <2> QED
    BY <2>7, <2>8, <2>10
<1>8. SaveInv'
  BY <1>1 DEF SaveInv, CollectInv, StoreInv
<1> QED
  BY <1>4, <1>5, <1>6, <1>7, <1>8
-----------------------------------------------------------------------------
(* The daemon and the network *)

LEMMA ClientSame ==
    ASSUME UNCHANGED clientVars
    PROVE  /\ UNCHANGED <<tftp_request_in_progress, tftp_error, tftp_lastblk, tftp_lastgot,
                          tftp_data_available, tftp_end_of_data, tftp_clear_to_send, tftpdata,
                          phase, iobuf, at_start, unsent_data, a, eoi,
                          job, got, given, outcome>>
           /\ Loading' = Loading /\ Saving' = Saving /\ InLoop' = InLoop
           /\ Sent' = Sent /\ Fresh' = Fresh /\ Offset' = Offset
           /\ MoreExpected' = MoreExpected /\ CollectInv' = CollectInv
BY DEF clientVars, tftpVars, loopVars, c64Vars, Loading, Saving, InLoop, Sent, Fresh, Offset,
       MoreExpected, CollectInv

(* The daemon ends a transfer, or dies, or a datagram is lost, or comes    *)
(* twice: nothing new is under way.                                        *)
LEMMA NothingNewService ==
    ASSUME Good, UNCHANGED <<clientVars, env>>,
           toServer' \in {toServer, <<>>},
           Arriving' \subseteq Arriving, Behind',
           toClient' = toClient \/ toClient # <<>>,
           file'.name = file.name, file'.data = file.data, file'.pos = file.pos,
           \/ UNCHANGED <<status, last_packet, send_empty>>
           \/ /\ status' \in {"idle", "crashed"} /\ Unflagged'
              /\ status' = "idle" => ~last_packet' /\ ~send_empty'
              /\ ~(last_packet' /\ send_empty')
    PROVE  TurnInv' /\ JobInv' /\ LoadInv' /\ FlagInv' /\ GivenInv'
<1> USE DEF Good, ServiceInv
<1>1. /\ UNCHANGED <<tftp_request_in_progress, tftp_error, tftp_lastblk, tftp_lastgot,
                     tftp_data_available, tftp_end_of_data, tftpdata,
                     phase, iobuf, at_start, unsent_data, eoi, job, got, outcome, env>>
      /\ Loading' = Loading /\ Saving' = Saving /\ InLoop' = InLoop
      /\ Fresh' = Fresh /\ Offset' = Offset /\ MoreExpected' = MoreExpected
  BY ClientSame
<1>2. AllOld => AllOld'
  BY <1>1 DEF AllOld, Old
<1>3. \A type \in {"RRQ", "ACK", "WRQ", "DATA"} :
         Asked(type)' => Asked(type) /\ toServer' = toServer
  BY DEF Asked
<1>4. (Over => Over') /\ (Unflagged => Unflagged')
  BY DEF Over, Unflagged
<1>5. \A k : /\ Chunk(k)' = Chunk(k) /\ (Delivered(k)' <=> Delivered(k))
             /\ SentBlocks(k) => SentBlocks(k)'
  <2>1. ~Over' => UNCHANGED <<status, last_packet, send_empty>> /\ ~Over
    BY DEF Over
  <2> QED
    BY <1>1, <2>1 DEF Chunk, Reached, Delivered, SentBlocks
<1>6. TurnInv'
  <2>1. toServer' # <<>> => AllOld
    BY DEF TurnInv
  <2>2. Len(<<>>) <= 1
    OBVIOUS
  <2>3. Len(toServer') <= 1
    BY <2>2 DEF TurnInv
  <2> QED
    BY <1>2, <2>1, <2>3 DEF TurnInv, Behind
<1>7. JobInv'
  BY <1>1, <1>3 DEF JobInv, Old
<1>8. FlagInv' /\ GivenInv'
  BY <1>1, <1>3, <1>4 DEF FlagInv, GivenInv, EmptyFileLoad
<1>9. LoadInv'
  <2> SUFFICES ASSUME Loading PROVE LoadInv'
    BY <1>1 DEF LoadInv
  <2>1. RequestInv'
    <3>1. Asked("RRQ")' => toClient' = <<>>
      BY <1>3 DEF LoadInv, RequestInv
    <3> QED
      BY <1>1, <1>3, <1>4, <1>5, <3>1 DEF LoadInv, RequestInv
  <2>2. \A p \in Arriving' : ReplyInv(p)'
    BY <1>1, <1>4, <1>5 DEF LoadInv, ReplyInv, Old
  <2>3. phase \in {"probe", "block"} => Delivered(tftp_lastgot)' /\ unsent_data' = 0
    BY <1>1, <1>5 DEF LoadInv, Delivered
  <2>4. phase = "block" /\ tftp_error =>
           toServer' = <<>> /\ AllOld' /\ Unflagged' /\ tftp_request_in_progress' = "NORQ"
    BY <1>1, <1>2, <1>4 DEF LoadInv
  <2>5. phase = "block" /\ ~tftp_error => IF Fresh' THEN Received' ELSE MoreExpected'
    <3>1. CASE Fresh
      <4>1. phase = "block" /\ ~tftp_error => Received
        BY <3>1 DEF LoadInv
      <4>2. Received => Received'
        BY <1>1, <1>5 DEF Received, Old, SentBlocks, Chunk, Reached, Over
      <4> QED
        BY <1>1, <3>1, <4>1, <4>2
    <3>2. CASE ~Fresh
      BY <1>1, <3>2 DEF LoadInv
    <3> QED
      BY <3>1, <3>2
  <2>6. phase = "send" => Fetched' /\ ~tftp_error'
    <3>1. Fetched => Fetched'
      BY <1>1, <1>4, <1>5 DEF Fetched, Delivered, Chunk, Reached
    <3> QED
      BY <1>1, <3>1 DEF LoadInv
  <2> QED
    BY <1>1, <2>1, <2>2, <2>3, <2>4, <2>5, <2>6 DEF LoadInv
<1> QED
  BY <1>6, <1>7, <1>8, <1>9

(* Nothing is stored, and nothing is answered but an error.                *)
LEMMA StoreKept ==
    ASSUME Good, UNCHANGED clientVars,
           \A n \in Name : Stored(n)' = Stored(n) /\ (disk'[n] = NoFile <=> disk[n] = NoFile),
           file'.name = file.name, toServer' \in {toServer, <<>>},
           \A p \in Arriving' : p \in Arriving \/ p.type = "ERR",
           Arriving' \subseteq Arriving \/ toServer # <<>>
    PROVE  SaveInv'
<1> USE DEF Good, ServiceInv, SaveInv
<1>1. /\ UNCHANGED <<tftp_error, tftp_lastblk, tftp_clear_to_send, job, outcome>>
      /\ Saving' = Saving /\ Sent' = Sent /\ CollectInv' = CollectInv
  BY ClientSame
<1>2. ASSUME job.cmd = "save" PROVE StoreInv'
  <2> USE DEF StoreInv
  <2>1. job.name \in Name
    <3>1. job \in {NoJob} \cup LoadJob \cup SaveJob
      BY Types DEF StateInv, C64TypeOK
    <3> QED
      BY <1>2, <3>1 DEF NoJob, LoadJob, SaveJob
  <2>2. \A k : StoredUpTo(k)' <=> StoredUpTo(k)
    BY <1>1, <2>1 DEF StoredUpTo
  <2>3. StoredUpTo(Sent)' <=> StoredUpTo(Sent)
    BY <1>1, <2>1 DEF StoredUpTo
  <2>4. MayPut' => MayPut
    BY <1>1 DEF MayPut, Answer, Old
  <2>5. Begun' => Begun
    BY <1>1 DEF Begun
  <2>6. Asked("DATA")' => Pending'
    BY <1>1, <1>2, <2>2 DEF Asked, Pending
  <2>7. Saving' /\ Asked("WRQ")' => Sent' = 0
    BY <1>1, <1>2 DEF Asked
  <2>8. Saving' /\ tftp_clear_to_send' => toServer' = <<>> /\ AllOld'
    BY <1>1, <1>2 DEF AllOld, Old
  <2>9. Begun' => StoredSome'
    BY <1>1, <1>2, <2>2, <2>5 DEF StoredSome
  <2>10. outcome' = "saved" =>
         \E k \in 0 .. Len(job'.data) : StoredUpTo(k)' /\ Len(job'.data) - k <= BlkSize
    BY <1>1, <1>2, <2>2
  <2>11. Saving' /\ MayPut' => file'.name = job'.name /\ StoredUpTo(Sent)'
    BY <1>1, <1>2, <2>3, <2>4
  <2> QED
    BY <2>6, <2>7, <2>8, <2>9, <2>10, <2>11
<1>3. job.cmd # "save" => StoreInv'
  BY <1>1 DEF StoreInv
<1> QED
  BY <1>1, <1>2, <1>3

LEMMA TimeoutService ==
    ASSUME Good, ServerTimeout, UNCHANGED <<clientVars, boundVars>>
    PROVE  ServiceInv'
<1>1. /\ toServer' = <<>> /\ toClient' = toClient
      /\ UNCHANGED <<file, disk, unwritten, env>>
      /\ status' = "idle" /\ ~last_packet' /\ ~send_empty'
  <2>1. PICK k \in 0 .. Len(<<>>) : toServer' = SubSeq(<<>>, k + 1, Len(<<>>))
    BY DEF ServerTimeout, EndTransfer
  <2>2. Len(<<>>) = 0 /\ SubSeq(<<>>, 1, 0) = <<>>
    OBVIOUS
  <2> QED
    BY <2>1, <2>2 DEF ServerTimeout, EndTransfer, deviceVars, boundVars
<1>2. Arriving' = Arriving /\ Behind' /\ Unflagged'
  BY <1>1, Kept, GoodTypes, ClientSame DEF Unflagged
<1>3. TurnInv' /\ JobInv' /\ LoadInv' /\ FlagInv' /\ GivenInv'
  BY <1>1, <1>2, NothingNewService
<1>4. SaveInv'
  BY <1>1, <1>2, StoreKept DEF Stored
<1> QED
  BY <1>3, <1>4 DEF ServiceInv

LEMMA RubyWriteService ==
    ASSUME Good, NEW n \in Name, WriteOut(n), UNCHANGED <<clientVars, boundVars>>
    PROVE  ServiceInv'
<1>1. /\ UNCHANGED <<toServer, toClient, status, last_packet, send_empty, file, env>>
      /\ disk' = [disk EXCEPT ![n] = @ \o unwritten[n]]
      /\ unwritten' = [unwritten EXCEPT ![n] = <<>>]
  BY DEF WriteOut, linkVars, objectVars, boundVars
<1>2. Arriving' = Arriving /\ Behind'
  BY <1>1, Kept, GoodTypes, ClientSame
<1>3. TurnInv' /\ JobInv' /\ LoadInv' /\ FlagInv' /\ GivenInv'
  BY <1>1, <1>2, NothingNewService
<1>4. ASSUME NEW m \in Name
      PROVE  Stored(m)' = Stored(m) /\ (disk'[m] = NoFile <=> disk[m] = NoFile)
  <2>1. /\ disk \in [Name -> Seq(Octet) \cup {NoFile}] /\ unwritten \in [Name -> Seq(Octet)]
        /\ disk[n] # NoFile
    BY Types DEF Good, StateInv, ServerTypeOK, WriteOut, Inv, FileInv
  <2>2. CASE m # n
    BY <1>1, <2>1, <2>2 DEF Stored
  <2>3. CASE m = n
    <3>1. disk[n] \in Seq(Octet) /\ unwritten[n] \in Seq(Octet)
      BY <2>1
    <3>2. disk[n] \o unwritten[n] \in Seq(Octet)
      BY <3>1
    <3>3. disk'[n] = disk[n] \o unwritten[n] /\ unwritten'[n] = <<>> /\ disk'[n] # NoFile
      BY <1>1, <2>1, <3>2, NoFileAssumption
    <3>4. disk'[n] \o <<>> = disk'[n]
      BY <3>2, <3>3
    <3> QED
      BY <2>1, <2>3, <3>3, <3>4 DEF Stored
  <2> QED
    BY <2>2, <2>3
<1>5. SaveInv'
  BY <1>1, <1>2, <1>4, StoreKept
<1> QED
  BY <1>3, <1>5 DEF ServiceInv

LEMMA FaultService ==
    ASSUME Good, UNCHANGED <<clientVars, serverVars, env>>,
           LoseToServer \/ LoseToClient \/ DuplicateToClient
    PROVE  ServiceInv'
<1>1. UNCHANGED <<status, last_packet, send_empty, file, disk, unwritten, tftp_lastblk>>
  BY ClientSame DEF serverVars, objectVars, deviceVars
<1>2. /\ toServer' \in {toServer, <<>>} /\ Arriving' \subseteq Arriving /\ Behind'
      /\ toClient' = toClient \/ toClient # <<>>
  <2>1. CASE LoseToServer
    <3>1. Tail(toServer) = <<>>
      BY <2>1, GoodTypes DEF TurnInv, LoseToServer
    <3> QED
      BY <1>1, <2>1, <3>1, Kept, GoodTypes DEF LoseToServer
  <2>2. CASE LoseToClient
    BY <1>1, <2>2, GoodTypes, ArriveTail, BehindTail DEF LoseToClient
  <2>3. CASE DuplicateToClient
    BY <1>1, <2>3, GoodTypes, ArriveAgain, BehindAgain DEF DuplicateToClient
  <2> QED
    BY <2>1, <2>2, <2>3
<1>3. TurnInv' /\ JobInv' /\ LoadInv' /\ FlagInv' /\ GivenInv'
  BY <1>1, <1>2, NothingNewService
<1>4. SaveInv'
  BY <1>1, <1>2, StoreKept DEF Stored
<1> QED
  BY <1>3, <1>4 DEF ServiceInv

(* An exception: the datagram is gone, and so is the daemon. *)
LEMMA CrashService ==
    ASSUME Good, toServer # <<>>, Crash, UNCHANGED <<clientVars, boundVars>>
    PROVE  ServiceInv'
<1>1. /\ toServer' = <<>> /\ toClient' = toClient
      /\ UNCHANGED <<file, disk, unwritten, last_packet, send_empty, env>>
      /\ status' = "crashed"
  BY GoodTypes, Served DEF Crash, TurnInv, deviceVars, boundVars
<1>2. Arriving' = Arriving /\ Behind' /\ Unflagged' /\ ~(last_packet /\ send_empty)
  BY <1>1, Kept, GoodTypes, ClientSame DEF Unflagged, Good, ServiceInv, FlagInv
<1>3. TurnInv' /\ JobInv' /\ LoadInv' /\ FlagInv' /\ GivenInv'
  BY <1>1, <1>2, NothingNewService
<1>4. SaveInv'
  BY <1>1, <1>2, StoreKept DEF Stored
<1> QED
  BY <1>3, <1>4 DEF ServiceInv

(* The answer to a RRQ: the daemon is at the start of the file, or it has  *)
(* forgotten the request.                                                  *)
LEMMA ServeRrqService ==
    ASSUME Good, ServeRrq, UNCHANGED <<clientVars, boundVars>>
    PROVE  ServiceInv'
<1> USE DEF Good, ServiceInv
<1> DEFINE h == Head(toServer)
<1>1. /\ Asked("RRQ") /\ toServer' = <<>> /\ AllOld /\ status # "crashed"
      /\ UNCHANGED <<disk, unwritten, env>>
  BY GoodTypes, Served DEF ServeRrq, Asked, TurnInv, boundVars
<1>2. /\ UNCHANGED <<tftp_request_in_progress, tftp_error, tftp_lastblk, tftp_lastgot,
                     tftp_data_available, tftp_end_of_data, tftpdata,
                     phase, iobuf, at_start, unsent_data, eoi, job, got, outcome>>
      /\ Loading' = Loading /\ Saving' = Saving /\ InLoop' = InLoop
      /\ Fresh' = Fresh /\ Offset' = Offset /\ MoreExpected' = MoreExpected
      /\ CollectInv' = CollectInv
  BY ClientSame
<1>3. job.cmd = "load" /\ h.name = job.name /\ got = <<>> /\ ~InLoop
  BY <1>1 DEF JobInv
<1>4. Loading => /\ phase = "probe" /\ toClient = <<>>
                 /\ tftp_lastgot = 0 /\ tftp_lastblk = BlkMod - 1 /\ Unflagged
  BY <1>1 DEF LoadInv, RequestInv
<1>5. env.pace # "idle" => Unflagged
  BY <1>4 DEF FlagInv
<1>6. PICK x : /\ toClient' = Append(toClient, x)
               /\ \/ /\ x = Reply("OACK", 0, <<>>)
                     /\ file' = [mode |-> "read", name |-> h.name,
                                 data |-> disk[h.name], pos |-> 0]
                     /\ status' = "wait_ack" /\ UNCHANGED <<last_packet, send_empty>>
                     /\ disk[h.name] # NoFile
                  \/ /\ x = Reply("ERR", 1, <<>>)
                     /\ file' = file
                     /\ status' = "idle" /\ ~last_packet' /\ ~send_empty'
  BY DEF ServeRrq, EndTransfer
<1> HIDE DEF h
<1>7. x.type \in {"OACK", "ERR"} /\ Arriving' = Arriving \cup {x} /\ Behind'
  BY <1>1, <1>2, <1>6, GoodTypes, ArriveNew, BehindNew DEF Reply
<1>8. ~Asked("RRQ")' /\ ~Asked("ACK")' /\ ~Asked("WRQ")' /\ ~Asked("DATA")'
  BY <1>1 DEF Asked
<1>9. TurnInv'
  <2>1. Len(<<>>) <= 1
    OBVIOUS
  <2> QED
    BY <1>1, <1>7, <2>1 DEF TurnInv, Behind
<1>10. JobInv'
  BY <1>2, <1>3, <1>7, <1>8 DEF JobInv
<1>11. LoadInv'
  <2> SUFFICES ASSUME Loading PROVE LoadInv'
    BY <1>2 DEF LoadInv
  <2>1. phase = "probe" /\ Arriving' = {x}
    BY <1>4, <1>7 DEF Arriving
  <2>2. ReplyInv(x)'
    <3>1. CASE x.type = "OACK"
      <4>1. /\ file'.name = job'.name /\ file'.pos = 0 /\ file'.data \in Seq(Octet)
            /\ status' = "wait_ack" /\ ~send_empty'
        <5>1. disk[h.name] \in Seq(Octet)
          <6>1. disk \in [Name -> Seq(Octet) \cup {NoFile}] /\ h.name \in Name
            BY Types, <1>1, HeadOf DEF StateInv, ServerTypeOK, Asked, h, CleanRequest,
                 ServerPacket, Request, AckPacket, DataPacket
          <6> QED
            BY <1>6, <3>1, <6>1 DEF Reply
        <5> QED
          BY <1>1, <1>2, <1>3, <1>4, <1>6, <3>1, <5>1 DEF Reply, Unflagged
      <4>2. 0 * BlkSize = 0 /\ 0 <= Len(file'.data)
        BY <4>1, Sizes
      <4>3. SentBlocks(0)'
        BY <4>1, <4>2 DEF SentBlocks, Reached, Over
      <4> QED
        BY <1>2, <1>4, <3>1, <4>3 DEF ReplyInv, Old
    <3>2. CASE x.type = "ERR"
      BY <1>1, <1>6, <3>2 DEF ReplyInv, Reply, Unflagged
    <3> QED
      BY <1>7, <3>1, <3>2
  <2>3. Delivered(tftp_lastgot)'
    BY <1>2, <1>4, <2>1 DEF LoadInv, Delivered
  <2> QED
    BY <1>2, <1>8, <2>1, <2>2, <2>3 DEF LoadInv, RequestInv
<1>12. FlagInv'
  BY <1>1, <1>2, <1>5, <1>6, <1>8 DEF FlagInv, Unflagged
<1>13. GivenInv' /\ SaveInv'
  BY <1>2, <1>3 DEF GivenInv, SaveInv, StoreInv
<1> QED
  BY <1>9, <1>10, <1>11, <1>12, <1>13

(* The answer to a WRQ: the daemon has an empty file now, or it has        *)
(* refused.                                                                *)
LEMMA ServeWrqService ==
    ASSUME Good, ServeWrq, UNCHANGED <<clientVars, boundVars>>
    PROVE  ServiceInv'
<1> USE DEF Good, ServiceInv
<1> DEFINE h == Head(toServer)
<1>1. /\ Asked("WRQ") /\ toServer # <<>> /\ toServer' = <<>> /\ AllOld /\ status # "crashed"
      /\ UNCHANGED env
  BY GoodTypes, Served DEF ServeWrq, Asked, TurnInv, boundVars
<1>2. /\ UNCHANGED <<tftp_request_in_progress, tftp_error, tftp_lastblk, tftp_clear_to_send,
                     phase, job, got, outcome>>
      /\ Loading' = Loading /\ Saving' = Saving /\ InLoop' = InLoop /\ Sent' = Sent
      /\ CollectInv' = CollectInv
  BY ClientSame
<1>3. /\ job.cmd = "save" /\ h.name = job.name /\ outcome # "saved"
      /\ InLoop => tftp_request_in_progress = "WRQ"
      /\ ~Loading
  BY <1>1 DEF JobInv
<1>4. /\ Saving => ~tftp_clear_to_send /\ Sent = 0
  BY <1>1, <1>3 DEF SaveInv, StoreInv
<1>5. env.pace # "idle" => ~send_empty
  BY <1>1, <1>3 DEF FlagInv, Unflagged
<1>6. PICK x : /\ toClient' = Append(toClient, x)
               /\ \/ /\ x = Reply("OACK", 0, <<>>)
                     /\ file' = [mode |-> "write", name |-> h.name,
                                 data |-> <<>>, pos |-> 0]
                     /\ disk' = [disk EXCEPT ![h.name] = <<>>]
                     /\ unwritten' = [unwritten EXCEPT ![h.name] = <<>>]
                     /\ status' = "wait_data" /\ UNCHANGED <<last_packet, send_empty>>
                  \/ /\ x = Reply("ERR", 1, <<>>)
                     /\ UNCHANGED <<file, disk, unwritten>>
                     /\ status' = "idle" /\ ~last_packet' /\ ~send_empty'
  BY DEF ServeWrq, EndTransfer, deviceVars
<1> HIDE DEF h
<1>7. x.type \in {"OACK", "ERR"} /\ Arriving' = Arriving \cup {x} /\ Behind'
  BY <1>1, <1>2, <1>6, GoodTypes, ArriveNew, BehindNew DEF Reply
<1>8. ~Asked("RRQ")' /\ ~Asked("ACK")' /\ ~Asked("WRQ")' /\ ~Asked("DATA")'
  BY <1>1 DEF Asked
<1>9. TurnInv'
  <2>1. Len(<<>>) <= 1
    OBVIOUS
  <2> QED
    BY <1>1, <1>7, <2>1 DEF TurnInv, Behind
<1>10. JobInv'
  BY <1>2, <1>3, <1>7, <1>8 DEF JobInv
<1>11. LoadInv' /\ GivenInv'
  BY <1>2, <1>3 DEF LoadInv, GivenInv
<1>12. FlagInv'
  BY <1>1, <1>2, <1>5, <1>6, <1>8 DEF FlagInv, Unflagged
<1>13. SaveInv'
  <2>1. CASE x.type = "OACK"
    <3>1. job.name \in Name /\ Len(job.data) \in Nat /\ SubSeq(job.data, 1, 0) = <<>>
      <4>1. job \in {NoJob} \cup LoadJob \cup SaveJob
        BY Types DEF StateInv, C64TypeOK
      <4>2. job.name \in Name /\ job.data \in Seq(Byte)
        BY <1>3, <4>1 DEF NoJob, LoadJob, SaveJob
      <4> QED
        BY <4>2
    <3>2. disk'[job.name] = <<>> /\ unwritten'[job.name] = <<>> /\ file'.name = job.name
      BY <1>3, <1>6, <2>1, <3>1, Types DEF StateInv, ServerTypeOK, Reply
    <3>3. <<>> # NoFile /\ <<>> \o <<>> = <<>>
      <4>1. <<>> \in Seq(Octet) /\ <<>> \o <<>> = <<>>
        OBVIOUS
      <4> QED
        BY <4>1, NoFileAssumption
    <3>4. Stored(job.name)' = <<>> /\ disk'[job.name] # NoFile
      BY <1>2, <3>2, <3>3 DEF Stored
    <3>5. StoredUpTo(0)' /\ 0 \in 0 .. Len(job.data)
      BY <1>2, <3>1, <3>4 DEF StoredUpTo
    <3>6. Saving => StoredUpTo(Sent)'
      BY <1>2, <1>4, <3>1, <3>4 DEF StoredUpTo
    <3>7. StoredSome'
      BY <1>2, <3>5 DEF StoredSome
    <3> QED
      BY <1>2, <1>3, <1>4, <1>8, <3>2, <3>6, <3>7 DEF SaveInv, StoreInv
  <2>2. CASE x.type = "ERR"
    BY <1>1, <1>6, <1>7, <2>2, StoreKept DEF Stored, Reply
  <2> QED
    BY <1>7, <2>1, <2>2
<1> QED
  BY <1>9, <1>10, <1>11, <1>12, <1>13

(* A prefix and the next piece make a longer prefix. *)
LEMMA PrefixGrows ==
    ASSUME NEW S, NEW s \in Seq(S), NEW d \in Seq(S), NEW k \in Nat, k + Len(d) <= Len(s),
           d = SubSeq(s, k + 1, k + Len(d))
    PROVE  SubSeq(s, 1, k) \o d = SubSeq(s, 1, k + Len(d))
<1>0. Len(d) \in Nat
  OBVIOUS
<1>1. PICK n \in Nat : n = Len(d)
  BY <1>0
<1>2. PICK v \in Nat : v = k + n /\ v <= Len(s)
  BY <1>1
<1>3. \A i \in 1 .. v - k : SubSeq(s, k + 1, v)[i] = s[k + i]
  BY <1>2
<1>4. v - k = n /\ d = SubSeq(s, k + 1, v)
  BY <1>1, <1>2
<1>5. \A i \in 1 .. n : d[i] = s[k + i]
  BY SMTT(30), <1>3, <1>4
<1> QED
  BY <1>1, <1>2, <1>5, Continue

(* A block of a SAVE: the daemon stores it, then acknowledges it.          *)
LEMMA ServeDataStores ==
    ASSUME Good, ServeData, ~Crash, UNCHANGED clientVars
    PROVE  LET h == Head(toServer) IN
           /\ toServer' = <<>> /\ job.cmd = "save" /\ job.name \in Name
           /\ h.data \in Seq(Byte) /\ job.data \in Seq(Byte)
           /\ toClient' = Append(toClient, Reply("ACK", h.blk, <<>>))
           /\ file'.name = job.name /\ file'.data = file.data /\ file'.pos = file.pos
           /\ \/ UNCHANGED <<last_packet, send_empty>> /\ status' = "wait_data"
              \/ ~last_packet' /\ ~send_empty' /\ status' = "idle"
           /\ \A n \in Name \ {job.name} : disk'[n] = disk[n] /\ unwritten'[n] = unwritten[n]
           /\ \E k \in 0 .. Len(job.data) :
                /\ StoredUpTo(k)
                /\ k + Len(h.data) <= Len(job.data)
                /\ Saving => k + Len(h.data) = Sent
                /\ h.data = SubSeq(job.data, k + 1, k + Len(h.data))
                /\ disk'[job.name] # NoFile
                /\ Stored(job.name)' = SubSeq(job.data, 1, k + Len(h.data))
<1> USE DEF Good, ServiceInv
<1> DEFINE h == Head(toServer)
           n == file.name
           written == unwritten[n] \o h.data
<1>1. /\ Asked("DATA") /\ h.type = "DATA" /\ toServer # <<>> /\ toServer' = <<>>
  BY GoodTypes, Served DEF ServeData, Asked, TurnInv
<1>2. UNCHANGED job /\ job.cmd = "save"
  BY <1>1, ClientSame DEF JobInv
<1>3. job.name \in Name /\ job.data \in Seq(Byte)
  <2>1. job \in {NoJob} \cup LoadJob \cup SaveJob
    BY Types DEF StateInv, C64TypeOK
  <2> QED
    BY <1>2, <2>1 DEF NoJob, LoadJob, SaveJob
<1>4. h.data \in Seq(Byte)
  BY <1>1, HeadIn, GoodTypes DEF CleanRequest
<1>5. /\ disk \in [Name -> Seq(Byte) \cup {NoFile}]
      /\ unwritten \in [Name -> Seq(Byte)]
      /\ file \in FileHandle
  BY Types DEF StateInv, OrderInv, DiskBytes, ServerTypeOK
<1>6. n = job.name /\ Pending
  BY <1>1, <1>2 DEF SaveInv, StoreInv, Pending
<1>7. PICK k \in 0 .. Len(job.data) :
           /\ StoredUpTo(k)
           /\ k + Len(h.data) <= Len(job.data)
           /\ h.data = SubSeq(job.data, k + 1, k + Len(h.data))
           /\ Saving => k + Len(h.data) = Sent
  BY <1>6 DEF Pending
<1>8. disk[n] \in Seq(Byte) /\ unwritten[n] \in Seq(Byte) /\ disk[n] # NoFile
  BY SMTT(30), <1>3, <1>5, <1>6, <1>7 DEF StoredUpTo
<1>9. /\ toClient' = Append(toClient, Reply("ACK", h.blk, <<>>))
      /\ file'.name = n /\ file'.data = file.data /\ file'.pos = file.pos
      /\ \/ UNCHANGED <<last_packet, send_empty>> /\ status' = "wait_data"
         \/ ~last_packet' /\ ~send_empty' /\ status' = "idle"
      /\ \/ /\ disk' = [disk EXCEPT ![n] = @ \o written]
            /\ unwritten' = [unwritten EXCEPT ![n] = <<>>]
         \/ /\ disk' = disk
            /\ unwritten' = [unwritten EXCEPT ![n] = written]
  <2>1. file' = file \/ file' = [file EXCEPT !.mode = "closed"]
    BY DEF ServeData
  <2>2. file'.name = n /\ file'.data = file.data /\ file'.pos = file.pos
    BY <1>5, <2>1 DEF FileHandle
  <2> QED
    BY Zenon, <2>2 DEF ServeData, EndTransfer
<1> HIDE DEF h, n
<1>10. /\ written \in Seq(Byte)
       /\ disk[n] \o written = (disk[n] \o unwritten[n]) \o h.data
       /\ disk[n] \o written \in Seq(Byte)
       /\ (disk[n] \o written) \o <<>> = disk[n] \o written
  <2>1. PICK u \in Seq(Byte), v \in Seq(Byte), w \in Seq(Byte) :
          u = disk[n] /\ v = unwritten[n] /\ w = h.data
    BY <1>4, <1>8
  <2>2. v \o w \in Seq(Byte)
    OBVIOUS
  <2>3. u \o (v \o w) = (u \o v) \o w
    BY SMTT(30)
  <2>4. u \o (v \o w) \in Seq(Byte)
    BY <2>2
  <2>5. (u \o (v \o w)) \o <<>> = u \o (v \o w)
    BY <2>4
  <2> QED
    BY <2>1, <2>2, <2>3, <2>4, <2>5
<1>11. Stored(job.name)' = Stored(job.name) \o h.data /\ disk'[job.name] # NoFile
  <2>1. Seq(Byte) \subseteq Seq(Octet)
    BY DEF Octet
  <2>2. disk[n] \o written # NoFile
    BY <1>10, <2>1, NoFileAssumption
  <2> HIDE DEF written
  <2>3. disk'[n] # NoFile /\ disk'[n] \o unwritten'[n] = (disk[n] \o unwritten[n]) \o h.data
    BY Zenon, <1>3, <1>5, <1>6, <1>8, <1>9, <1>10, <2>2
  <2> QED
    BY <1>2, <1>6, <1>8, <2>3 DEF Stored
<1>12. Stored(job.name) \o h.data = SubSeq(job.data, 1, k + Len(h.data))
  <2>1. Stored(job.name) = SubSeq(job.data, 1, k) /\ k \in Nat
    BY SMTT(30), <1>7 DEF StoredUpTo
  <2> QED
    BY <1>3, <1>4, <1>7, <2>1, PrefixGrows
<1>13. \A m \in Name \ {job.name} : disk'[m] = disk[m] /\ unwritten'[m] = unwritten[m]
  BY <1>5, <1>6, <1>9
<1> QED
  BY Zenon, <1>1, <1>2, <1>3, <1>4, <1>6, <1>7, <1>9, <1>11, <1>12, <1>13 DEF h

LEMMA ServeDataService ==
    ASSUME Good, ServeData, UNCHANGED <<clientVars, boundVars>>
    PROVE  ServiceInv'
<1> USE DEF Good, ServiceInv
<1>0. CASE Crash
  BY <1>0, CrashService DEF ServeData
<1>a. ASSUME ~Crash PROVE ServiceInv'
  <2> DEFINE d == Head(toServer).data
             x == Reply("ACK", Head(toServer).blk, <<>>)
  <2>1. /\ toServer # <<>> /\ toServer' = <<>> /\ job.cmd = "save" /\ job.data \in Seq(Byte)
        /\ d \in Seq(Byte) /\ toClient' = Append(toClient, x)
        /\ file'.name = job.name
        /\ \/ UNCHANGED <<last_packet, send_empty>> /\ status' = "wait_data"
           \/ ~last_packet' /\ ~send_empty' /\ status' = "idle"
    BY Zenon, <1>a, ServeDataStores DEF ServeData
  <2>2. PICK k \in 0 .. Len(job.data) :
          /\ StoredUpTo(k)
          /\ k + Len(d) <= Len(job.data)
          /\ Saving => k + Len(d) = Sent
          /\ disk'[job.name] # NoFile
          /\ Stored(job.name)' = SubSeq(job.data, 1, k + Len(d))
    BY <1>a, ServeDataStores
  <2>3. x.type = "ACK"
    BY DEF Reply
  <2> HIDE DEF d, x
  <2>4. /\ UNCHANGED <<tftp_request_in_progress, tftp_error, tftp_lastblk, tftp_clear_to_send,
                       phase, job, got, outcome, env>>
        /\ Loading' = Loading /\ Saving' = Saving /\ InLoop' = InLoop /\ Sent' = Sent
        /\ CollectInv' = CollectInv
    BY ClientSame DEF boundVars
  <2>5. ~Loading
    BY SMTT(30), <2>1 DEF JobInv
  <2>6. AllOld /\ status # "crashed"
    BY <2>1 DEF ServeData, TurnInv
  <2>7. Arriving' = Arriving \cup {x} /\ Behind'
    BY <2>1, <2>4, <2>6, GoodTypes, ArriveNew, BehindNew
  <2>8. ~Asked("RRQ")' /\ ~Asked("ACK")' /\ ~Asked("WRQ")' /\ ~Asked("DATA")'
    BY <2>1 DEF Asked
  <2>9. TurnInv'
    <3>1. Len(<<>>) <= 1
      OBVIOUS
    <3> QED
      BY <2>1, <2>7, <3>1 DEF TurnInv, Behind
  <2>10. JobInv'
    BY <2>1, <2>3, <2>4, <2>5, <2>7, <2>8 DEF JobInv, Old
  <2>11. LoadInv' /\ GivenInv'
    BY <2>1, <2>4, <2>5 DEF LoadInv, GivenInv
  <2>12. FlagInv'
    BY <2>1, <2>4, <2>5, <2>6, <2>8 DEF FlagInv, Unflagged
  <2>13. k + Len(d) \in 0 .. Len(job.data) /\ Len(job.data) \in Nat
    BY <2>1, <2>2
  <2>14. \E m \in 0 .. Len(job.data) : m = k + Len(d) /\ StoredUpTo(m)'
    <3>1. PICK m \in 0 .. Len(job.data) : m = k + Len(d)
      BY <2>13
    <3>2. StoredUpTo(m)'
      BY <2>2, <2>4, <3>1 DEF StoredUpTo
    <3> QED
      BY <3>1, <3>2
  <2>15. StoreInv'
    <3>1. PICK m \in 0 .. Len(job.data) : m = k + Len(d) /\ StoredUpTo(m)'
      BY <2>14
    <3>2. Saving => StoredUpTo(Sent)'
      BY <2>2, <2>4, <2>13 DEF StoredUpTo
    <3>3. Saving => ~tftp_clear_to_send
      BY <2>1 DEF SaveInv, StoreInv
    <3>4. StoredSome'
      BY <2>4, <3>1 DEF StoredSome
    <3>5. ASSUME outcome = "saved" PROVE Len(job.data) - m <= BlkSize
      <4>1. PICK j \in 0 .. Len(job.data) : StoredUpTo(j) /\ Len(job.data) - j <= BlkSize
        BY <2>1, <3>5 DEF SaveInv, StoreInv
      <4>2. SubSeq(job.data, 1, j) = SubSeq(job.data, 1, k)
        BY <2>2, <4>1 DEF StoredUpTo
      <4>3. Len(SubSeq(job.data, 1, j)) = j /\ Len(SubSeq(job.data, 1, k)) = k
        BY <2>1
      <4>4. Len(d) \in Nat /\ BlkSize \in Nat
        BY <2>1, Sizes
      <4> QED
        BY <2>13, <3>1, <4>1, <4>2, <4>3, <4>4
    <3>6. outcome' = "saved" =>
            \E j \in 0 .. Len(job'.data) : StoredUpTo(j)' /\ Len(job'.data) - j <= BlkSize
      BY <2>4, <3>1, <3>5
    <3> QED
      BY <2>1, <2>4, <2>8, <3>2, <3>3, <3>4, <3>6 DEF StoreInv
  <2> QED
    BY SMTT(30), <2>4, <2>9, <2>10, <2>11, <2>12, <2>15 DEF SaveInv
<1> QED
  BY <1>0, <1>a

(* send_data sends the block after the one that the client has got.        *)
LEMMA SendDataNext ==
    ASSUME Good, NEW n \in BlkNum, NEW m, SentBlocks(n), ~Over, SendData(m)
    PROVE  /\ toClient' = Append(toClient, Reply("DATA", m, Chunk(n + 1)))
           /\ job' = job => SentBlocks(n + 1)'
<1> DEFINE B == BlkSize
           L == Len(file.data)
           u == n * BlkSize
           v == (n + 1) * BlkSize
<1>1. /\ n + 1 \in Nat /\ n + 1 # 0 /\ (n + 1) - 1 = n /\ n \in Nat
  BY NumberFacts
<1>2. /\ u \in Nat /\ v \in Nat /\ v = u + B /\ B \in Nat /\ B > 0 /\ L \in Nat
      /\ file.data \in Seq(Byte) /\ file \in FileHandle
  BY <1>1, Times, Sizes, GoodTypes
<1>3. /\ u <= L /\ file.name = job.name
      /\ send_empty <=> n > 0 /\ u = L
      /\ file.pos = u
  BY DEF SentBlocks, Reached
<1> HIDE DEF u, v
<1>4. Reached(n + 1) = (IF v <= L THEN v ELSE L) /\ Reached(n) = u
  BY <1>1, <1>3 DEF Reached, u, v
<1>5. Chunk(n + 1) = SubSeq(file.data, u + 1, IF v <= L THEN v ELSE L)
  BY <1>1, <1>4 DEF Chunk
<1>6. \A k : file'.data = file.data => Reached(k)' = Reached(k)
  BY DEF Reached
<1>7. CASE send_empty
  <2>1. /\ toClient' = Append(toClient, Reply("DATA", m, <<>>)) /\ last_packet' /\ file' = file
    BY <1>7 DEF SendData
  <2>2. SubSeq(file.data, L + 1, L) = <<>>
    BY <1>2
  <2>3. ~(v <= L)
    BY <1>2, <1>3, <1>7
  <2>4. Chunk(n + 1) = <<>>
    BY <1>3, <1>5, <1>7, <2>2, <2>3
  <2>5. job' = job => SentBlocks(n + 1)'
    BY <1>3, <1>4, <1>6, <1>7, <2>1, <2>3 DEF SentBlocks, Over
  <2> QED
    BY <2>1, <2>4, <2>5
<1>8. CASE ~send_empty
  <2>1. /\ toClient' = Append(toClient, Reply("DATA", m,
                             SubSeq(file.data, file.pos + 1, file.pos + BlockLen)))
        /\ last_packet' = (BlockLen < BlkSize)
        /\ send_empty' = (Remaining = BlkSize)
        /\ file' = [file EXCEPT !.pos = @ + BlockLen]
        /\ status' = "wait_ack"
    BY <1>8 DEF SendData
  <2>2. Remaining = L - u /\ BlockLen = IF L - u < B THEN L - u ELSE B
    BY <1>3 DEF BlockLen, Remaining
  <2>3. /\ u + BlockLen = IF v <= L THEN v ELSE L
        /\ BlockLen < B <=> ~(v <= L)
        /\ Remaining = B <=> v = L
    BY <1>2, <1>3, <2>2
  <2>4. file'.name = file.name /\ file'.data = file.data /\ file'.pos = Reached(n + 1)
    <3>1. file'.name = file.name /\ file'.data = file.data /\ file'.pos = file.pos + BlockLen
      BY <1>2, <2>1 DEF FileHandle
    <3> QED
      BY <1>3, <1>4, <2>3, <3>1
  <2>5. Chunk(n + 1) = SubSeq(file.data, file.pos + 1, file.pos + BlockLen)
    BY <1>3, <1>5, <2>3
  <2>6. ASSUME job' = job PROVE SentBlocks(n + 1)'
    <3>1. file'.name = job'.name /\ file'.pos = Reached(n + 1)'
      BY <1>3, <1>6, <2>4, <2>6
    <3>2. ~Over' => v <= L /\ (send_empty' <=> v = L)
      BY <2>1, <2>3 DEF Over
    <3>3. n + 1 > 0
      BY <1>1
    <3> QED
      BY <2>4, <3>1, <3>2, <3>3 DEF SentBlocks, v
  <2> QED
    BY <2>1, <2>5, <2>6
<1> QED
  BY <1>7, <1>8

(* An acknowledgement ends the transfer or asks for the next block. *)
LEMMA ServeAckService ==
    ASSUME Good, ServeAck, UNCHANGED <<clientVars, boundVars>>
    PROVE  ServiceInv'
<1> USE DEF Good, ServiceInv
<1> DEFINE h == Head(toServer)
<1>1. /\ Asked("ACK") /\ toServer # <<>> /\ AllOld /\ status # "crashed" /\ UNCHANGED env
      /\ Take \/ EndTransfer(Tail(toServer)) => toServer' = <<>>
  BY GoodTypes, Served DEF ServeAck, Asked, TurnInv, boundVars
<1>2. /\ UNCHANGED <<tftp_request_in_progress, tftp_error, tftp_lastblk, tftp_lastgot,
                     tftp_data_available, tftp_end_of_data, tftpdata,
                     phase, iobuf, at_start, unsent_data, eoi, job, got, outcome>>
      /\ Loading' = Loading /\ Saving' = Saving /\ InLoop' = InLoop
      /\ Fresh' = Fresh /\ Offset' = Offset /\ MoreExpected' = MoreExpected
      /\ CollectInv' = CollectInv
  BY ClientSame
<1>3. job.cmd = "load"
  BY <1>1 DEF JobInv
<1>4. SaveInv'
  BY <1>2, <1>3 DEF SaveInv, StoreInv
<1>5. ASSUME last_packet, CloseFile, EndTransfer(Tail(toServer)), UNCHANGED toClient
      PROVE  ServiceInv'
  <2>1. /\ toServer' = <<>> /\ status' = "idle" /\ ~last_packet' /\ ~send_empty'
    BY <1>1, <1>5 DEF EndTransfer
  <2>2. file'.name = file.name /\ file'.data = file.data /\ file'.pos = file.pos
    BY <1>5, GoodTypes DEF CloseFile, FileHandle
  <2>3. Arriving' = Arriving /\ Behind' /\ Unflagged'
    BY <1>2, <1>5, <2>1, Kept, GoodTypes DEF Unflagged
  <2>4. TurnInv' /\ JobInv' /\ LoadInv' /\ FlagInv' /\ GivenInv'
    BY <1>1, <1>5, <2>1, <2>2, <2>3, NothingNewService
  <2> QED
    BY <1>4, <2>4
<1>6. ASSUME status # "idle", ~last_packet, SendData(NextBlk(h.blk)), Take
      PROVE  ServiceInv'
  <2>1. /\ toServer' = <<>> /\ ~Over
    BY <1>1, <1>6 DEF Over
  <2>2. PICK x : toClient' = Append(toClient, x) /\ x.type = "DATA" /\ x.blk = NextBlk(h.blk)
    <3>1. \A d : Reply("DATA", NextBlk(h.blk), d).type = "DATA"
                 /\ Reply("DATA", NextBlk(h.blk), d).blk = NextBlk(h.blk)
      BY DEF Reply
    <3> QED
      BY <1>6, <3>1 DEF SendData
  <2>3. Arriving' = Arriving \cup {x} /\ Behind'
    BY <1>1, <1>2, <2>2, GoodTypes, ArriveNew, BehindNew
  <2>4. ~Asked("RRQ")' /\ ~Asked("ACK")' /\ ~Asked("WRQ")' /\ ~Asked("DATA")'
    BY <2>1 DEF Asked
  <2>5. TurnInv'
    <3>1. Len(<<>>) <= 1
      OBVIOUS
    <3> QED
      BY <2>1, <2>3, <3>1 DEF TurnInv, Behind
  <2>6. JobInv'
    BY <1>2, <1>3, <2>2, <2>3, <2>4 DEF JobInv, Old
  <2>7. file'.name = file.name /\ file'.data = file.data
    BY <1>6, GoodTypes DEF SendData, FileHandle
  <2>8. GivenInv'
    BY <1>2, <2>7 DEF GivenInv, EmptyFileLoad
  <2>9. FlagInv'
    <3>1. status' = "wait_ack"
      BY <1>6 DEF SendData
    <3>2. ~(last_packet' /\ send_empty')
      <4>1. BlkSize \in Nat /\ (Remaining = BlkSize => BlockLen = BlkSize)
        BY Sizes DEF BlockLen
      <4>2. Remaining = BlkSize => ~(BlockLen < BlkSize)
        BY <4>1
      <4> QED
        BY <1>6, <4>2 DEF SendData
    <3>3. env.pace = "idle" \/ Loading
      BY <1>1, <2>1 DEF FlagInv
    <3> QED
      BY <1>1, <1>2, <3>1, <3>2, <3>3 DEF FlagInv
  <2>10. LoadInv'
    <3> SUFFICES ASSUME Loading PROVE LoadInv'
      BY <1>2 DEF LoadInv
    <3>1. PICK n \in BlkNum : n = tftp_lastgot
      BY GoodTypes
    <3>2. h.blk = n /\ tftp_lastblk = n /\ SentBlocks(n)
      BY <1>1, <3>1 DEF LoadInv, RequestInv
    <3>3. x.data = Chunk(n + 1) /\ SentBlocks(n + 1)'
      <4>1. /\ toClient' = Append(toClient, Reply("DATA", NextBlk(h.blk), Chunk(n + 1)))
            /\ SentBlocks(n + 1)'
        BY <1>2, <1>6, <2>1, <3>2, SendDataNext
      <4>2. x = Reply("DATA", NextBlk(h.blk), Chunk(n + 1))
        <5> DEFINE y == Reply("DATA", NextBlk(h.blk), Chunk(n + 1))
                   l == Len(toClient) + 1
        <5> HIDE DEF y
        <5>1. Append(toClient, x)[l] = x /\ Append(toClient, y)[l] = y
          BY GoodTypes
        <5>2. Append(toClient, x) = Append(toClient, y)
          BY <2>2, <4>1 DEF y
        <5> QED
          BY <5>1, <5>2 DEF y
      <4> QED
        BY <4>1, <4>2 DEF Reply
    <3>4. Chunk(n + 1)' = Chunk(n + 1)
      BY <2>7 DEF Chunk, Reached
    <3>5. ReplyInv(x)'
      <4>1. x.blk = n + 1 \/ n = BlkMod - 1
        BY <2>2, <3>2, NumberFacts
      <4>2. x.blk = n + 1 => x.data = Chunk(x.blk)' /\ SentBlocks(x.blk)'
        BY <3>3, <3>4
      <4> QED
        BY <1>2, <2>2, <3>1, <4>1, <4>2 DEF ReplyInv
    <3>6. ASSUME NEW p \in Arriving PROVE ReplyInv(p)'
      <4>1. p.blk = n /\ p.blk # n + 1
        BY <1>1, <3>2, NumberFacts DEF AllOld, Old
      <4>2. p.type # "ERR"
        BY <1>1 DEF LoadInv, ReplyInv
      <4> QED
        BY <1>2, <3>1, <3>2, <4>1, <4>2 DEF ReplyInv, Old
    <3>7. \A k : Chunk(k)' = Chunk(k) /\ (Delivered(k)' <=> Delivered(k))
      BY <1>2, <2>7 DEF Chunk, Reached, Delivered
    <3>8. phase \in {"probe", "block"} => Delivered(tftp_lastgot)' /\ unsent_data' = 0
      BY <1>2, <3>7 DEF LoadInv, Delivered
    <3>9. phase = "block" => ~tftp_error /\ ~Fresh /\ MoreExpected
      BY <1>1 DEF LoadInv, Received
    <3>10. phase = "send" => Fetched' /\ ~tftp_error'
      <4>1. phase = "send" => ~eoi /\ Fetched
        BY <2>1 DEF LoadInv, Fetched
      <4>2. ~eoi /\ Fetched => Fetched'
        BY <1>2, <2>7, <3>7 DEF Fetched, Delivered, Chunk, Reached
      <4> QED
        BY <1>2, <4>1, <4>2 DEF LoadInv
    <3> QED
      BY <1>2, <2>3, <2>4, <3>5, <3>6, <3>8, <3>9, <3>10 DEF LoadInv, RequestInv
  <2> QED
    BY <1>4, <2>5, <2>6, <2>8, <2>9, <2>10
<1> QED
  BY <1>1, <1>5, <1>6, CrashService DEF ServeAck
-----------------------------------------------------------------------------
(* All together *)

LEMMA InitService == Init => ServiceInv
<1> SUFFICES ASSUME Init PROVE ServiceInv
  OBVIOUS
<1>1. /\ phase = "loop" /\ outcome = "none" /\ job.cmd = "none" /\ toServer = <<>>
      /\ tftp_request_in_progress = "NORQ" /\ toClient = <<>> /\ got = <<>>
      /\ status = "idle" /\ ~last_packet /\ ~send_empty
  BY DEF Init, ClientInit, LinkInit, ServerInit, NoJob
<1>2. Arriving = {} /\ AllOld /\ Behind
  BY <1>1 DEF Arriving, AllOld, Behind
<1>3. ~Loading /\ ~Saving
  BY <1>1 DEF Loading, Saving
<1>4. Len(<<>>) <= 1
  OBVIOUS
<1>5. TurnInv /\ JobInv
  BY <1>1, <1>2, <1>3, <1>4 DEF TurnInv, Behind, JobInv, Asked
<1>6. LoadInv /\ FlagInv /\ GivenInv
  BY <1>1, <1>3 DEF LoadInv, FlagInv, GivenInv, Unflagged, Asked
<1>7. SaveInv
  BY <1>1, <1>3 DEF SaveInv, CollectInv, StoreInv
<1> QED
  BY <1>5, <1>6, <1>7 DEF ServiceInv

LEMMA StutterService ==
    ASSUME Good, UNCHANGED vars
    PROVE  ServiceInv'
<1>1. /\ UNCHANGED <<clientVars, env>>
      /\ UNCHANGED <<toServer, toClient, status, last_packet, send_empty, file, disk, unwritten>>
  BY DEF vars, linkVars, serverVars, objectVars, deviceVars, boundVars
<1>2. Arriving' = Arriving /\ Behind'
  BY <1>1, Kept, GoodTypes, ClientSame
<1>3. TurnInv' /\ JobInv' /\ LoadInv' /\ FlagInv' /\ GivenInv'
  BY <1>1, <1>2, NothingNewService
<1>4. SaveInv'
  BY <1>1, <1>2, StoreKept DEF Stored
<1> QED
  BY <1>3, <1>4 DEF ServiceInv

LEMMA CalmKept ==
    ASSUME Calm, [Next]_vars
    PROVE  Calm'
<1>1. env' = env
  BY DEF Next, Command, Poll, LoadStep, SaveStep, Abort, Reset, Setup, Serve, Timeout,
         RubyWrite, Loss, Duplicate, boundVars, vars
<1> QED
  BY <1>1 DEF Calm, Orderly

(* What the environment may do when it is calm *)
LEMMA CalmFacts ==
    ASSUME Good
    PROVE  /\ env.pace # "any" /\ env.dupToServer = 0
           /\ env.pace # "idle" => env.resets = 0
           /\ resets \in Nat /\ dupToServer \in Nat
           /\ \A j \in env.jobs : j.name \in Name /\ j.data \in Seq(Byte)
<1>1. env \in Environment /\ resets \in Nat /\ dupToServer \in Nat
  BY EnvironmentAssumption DEF Good, StateInv, Inv, TypeOK
<1>2. \A j \in env.jobs : j.name \in Name /\ j.data \in Seq(Byte)
  BY <1>1, SaveJobsAssumption DEF Environment
<1> QED
  BY <1>1, <1>2 DEF Good, Calm, Orderly

LEMMA NextService ==
    ASSUME Good, [Next]_vars
    PROVE  ServiceInv'
<1> USE DEF vars
<1>1. CASE Command
  BY <1>1, CalmFacts, StartLoadService, StartSaveService DEF Command
<1>2. CASE Poll
  <2>1. CASE RecvProbe
    BY <1>2, <2>1, PollService, RecvQuietService DEF Poll, RecvProbe
  <2>2. CASE LoopProbe \/ PutProbe
    BY <1>2, <2>2, PollService DEF Poll, LoopProbe, PutProbe
  <2>3. CASE GetProbe
    BY <1>2, <2>3, GetProbeService DEF Poll
  <2> QED
    BY <1>2, <2>1, <2>2, <2>3 DEF Poll
<1>3. CASE LoadStep
  BY <1>3, GetErrorService, GetNothingService, GetBlockService, SendBlockService DEF LoadStep
<1>4. CASE SaveStep
  BY <1>4, RecvByteService, PutBlockService DEF SaveStep
<1>5. CASE Abort
  BY <1>5, RecvQuietService DEF Abort
<1>6. CASE Reset
  <2>1. env.pace = "idle"
    BY <1>6, CalmFacts DEF Reset
  <2> QED
    BY <1>6, <2>1, ResetService DEF Reset
<1>7. CASE Setup
  BY <1>7, CalmFacts, SetupService DEF Setup
<1>8. CASE Serve
  BY <1>8, ServeRrqService, ServeWrqService, ServeAckService, ServeDataService DEF Serve
<1>9. CASE Timeout
  BY <1>9, TimeoutService DEF Timeout
<1>10. CASE RubyWrite
  BY <1>10, RubyWriteService DEF RubyWrite
<1>11. CASE Loss
  <2>1. LoseToServer \/ LoseToClient
    BY <1>11 DEF Loss
  <2>2. UNCHANGED <<clientVars, serverVars, env>>
    BY <1>11 DEF Loss, boundVars
  <2> QED
    BY <2>1, <2>2, FaultService
<1>12. CASE Duplicate
  <2>1. DuplicateToClient
    BY <1>12, CalmFacts DEF Duplicate
  <2> QED
    BY <1>12, <2>1, FaultService DEF Duplicate
<1>13. CASE UNCHANGED vars
  BY <1>13, StutterService
<1> QED
  BY <1>1, <1>2, <1>3, <1>4, <1>5, <1>6, <1>7, <1>8, <1>9, <1>10, <1>11, <1>12,
     <1>13 DEF Next

LEMMA CalmInv == Spec /\ Calm => []Good
<1>1. Init /\ Calm => Good
  BY InitInv, InitOrder, InitService DEF StateInv, Good
<1>2. Good /\ [Next]_vars => Good'
  <2> SUFFICES ASSUME Good, [Next]_vars PROVE Good'
    OBVIOUS
  <2>1. Orderly /\ StateInv
    BY DEF Good, Calm
  <2> QED
    BY <2>1, NextInv, NextOrder, NextService, CalmKept DEF Good, StateInv
<1> QED
  BY <1>1, <1>2, PTL DEF Spec

(* A LOAD gives the C64 the bytes of the file it asked for, from the first *)
(* on, none skipped, repeated or out of order, and EOI with the last one   *)
(* only: send_file, tftp_get_block and packet_ack, for files of any length *)
(* over a network that loses datagrams and repeats the daemon's.           *)
THEOREM LoadCorrect == Spec /\ Calm => []LoadIsPrefix
<1>1. Good => LoadIsPrefix
  BY DEF Good, ServiceInv, GivenInv, LoadIsPrefix
<1> QED
  BY <1>1, CalmInv, PTL

(* What the daemon has of a file that is being saved is a prefix of what   *)
(* the C64 gives, and recv_file has returned 1 only when at most one block *)
(* is missing: recv_file, tftp_put_block and packet_data, under the same   *)
(* conditions.                                                             *)
THEOREM StoreCorrect == Spec /\ Calm => []StoredIsPrefix
<1>1. Good => StoredIsPrefix
  <2> SUFFICES ASSUME Good, job.cmd = "save", Answered, outcome # "error", ~tftp_error
               PROVE  /\ IsPrefix(Stored(job.name), job.data)
                      /\ outcome = "saved" => Len(job.data) - Len(Stored(job.name)) <= BlkSize
    BY DEF StoredIsPrefix
  <2>1. job.data \in Seq(Byte)
    <3>1. job \in {NoJob} \cup LoadJob \cup SaveJob
      BY Types DEF Good, StateInv, C64TypeOK
    <3> QED
      BY <3>1 DEF NoJob, LoadJob, SaveJob
  <2>2. StoredSome
    BY DEF Good, ServiceInv, SaveInv, StoreInv, Begun, Answered
  <2>3. IsPrefix(Stored(job.name), job.data)
    BY <2>1, <2>2, PrefixOf DEF StoredSome, StoredUpTo
  <2>4. ASSUME outcome = "saved" PROVE Len(job.data) - Len(Stored(job.name)) <= BlkSize
    <3>1. PICK k \in 0 .. Len(job.data) : StoredUpTo(k) /\ Len(job.data) - k <= BlkSize
      BY <2>4 DEF Good, ServiceInv, SaveInv, StoreInv
    <3>2. Len(Stored(job.name)) = k
      BY <2>1, <3>1, PrefixOf DEF StoredUpTo
    <3> QED
      BY <3>1, <3>2
  <2> QED
    BY <2>3, <2>4
<1> QED
  BY <1>1, CalmInv, PTL
-----------------------------------------------------------------------------
(* The service that is implemented *)

Files == [n \in Name |-> IF disk[n] = NoFile THEN NoFile ELSE Stored(n)]
Dirty == {n \in Name : unwritten[n] # <<>>}
Opened == [name |-> file.name, data |-> file.data]

LEMMA SameFiles ==
    ASSUME UNCHANGED <<disk, unwritten>>
    PROVE  UNCHANGED <<Files, Dirty>>
BY DEF Files, Dirty, Stored

LEMMA SameOpened ==
    ASSUME file'.name = file.name, file'.data = file.data
    PROVE  UNCHANGED Opened
BY DEF Opened

(* Nothing of it shows. *)
LEMMA Unseen ==
    ASSUME UNCHANGED <<Files, Dirty, Opened, job, got, outcome>>
    PROVE  UNCHANGED Service!vars
BY DEF Service!vars, Files, Dirty, Opened

LEMMA Failing ==
    ASSUME UNCHANGED <<Files, Dirty, Opened, job, got>>,
           outcome = "busy", outcome' \in {"error", "aborted"}
    PROVE  Service!Next
BY DEF Service!Next, Service!Fail, Files, Dirty, Opened

LEMMA CommandStep ==
    ASSUME Good, Command
    PROVE  Service!Next
<1>1. UNCHANGED <<Files, Dirty, Opened>>
  BY SameFiles DEF Command, Opened, serverVars, deviceVars
<1>2. phase = "loop" => outcome # "busy"
  BY DEF Good, ServiceInv, JobInv
<1>3. CASE \E n \in Name : StartLoad(n)
  BY <1>1, <1>2, <1>3 DEF StartLoad, Service!Next, Service!Load, Files, Dirty, Opened
<1>4. CASE \E j \in env.jobs : StartSave(j.name, j.data)
  <2>1. env.jobs \subseteq SaveJobs
    BY EnvironmentAssumption DEF Good, StateInv, Inv, TypeOK, Environment
  <2>2. PICK j \in SaveJobs : StartSave(j.name, j.data)
    BY <1>4, <2>1
  <2>3. Service!Save(j)
    BY <1>1, <1>2, <2>2 DEF StartSave, Service!Save, Files, Dirty, Opened
  <2> QED
    BY <2>3 DEF Service!Next
<1> QED
  BY <1>3, <1>4 DEF Command

LEMMA SendBlockStep ==
    ASSUME Good, SendBlock, UNCHANGED serverVars
    PROVE  Service!Next
<1>1. UNCHANGED <<Files, Dirty, Opened>>
  BY SameFiles DEF Opened, serverVars, deviceVars
<1>2. job.cmd = "load" /\ outcome = "busy" /\ Opened.name = job.name /\ Opened.data = file.data
  BY SendBlockGives DEF Good, ServiceInv, JobInv, Loading, SendBlock, Opened
<1>3. CASE eoi
  <2>1. got' = IF Opened.data = <<>> THEN <<Stale>> ELSE Opened.data
    BY <1>2, <1>3, SendBlockGives
  <2> QED
    BY <1>1, <1>2, <1>3, <2>1 DEF SendBlock, Service!Next, Service!EndLoad, Files, Dirty, Opened
<1>4. CASE ~eoi
  <2>1. PICK k \in Nat : /\ k # 0 /\ k <= Len(file.data) /\ Len(got) \in 0 .. k - 1
                         /\ got' = SubSeq(file.data, 1, k - 1)
    BY <1>4, SendBlockGives
  <2>2. Len(file.data) \in Nat
    BY GoodTypes
  <2>3. Len(got) < Len(file.data) /\ k - 1 \in Len(got) .. Len(file.data) - 1
    BY <2>1, <2>2
  <2>4. \E m \in Len(got) .. Len(Opened.data) - 1 : got' = SubSeq(Opened.data, 1, m)
    BY <1>2, <2>1, <2>3
  <2>5. UNCHANGED <<job, outcome>> /\ Len(got) < Len(Opened.data)
    BY <1>2, <1>4, <2>3 DEF SendBlock
  <2> QED
    BY <1>1, <1>2, <2>4, <2>5
       DEF Service!Next, Service!Deliver, Service!Prefix, Files, Dirty, Opened
<1> QED
  BY <1>3, <1>4

(* The other steps of the Arduino and the faults of the network *)
LEMMA ClientStep ==
    ASSUME Good, Poll \/ LoadStep \/ SaveStep \/ Abort \/ Reset \/ Setup \/ Loss \/ Duplicate
    PROVE  [Service!Next]_(Service!vars)
<1>1. UNCHANGED serverVars
  BY DEF Poll, LoadStep, SaveStep, Abort, Reset, Setup, Loss, Duplicate
<1>2. UNCHANGED <<Files, Dirty, Opened>>
  BY <1>1, SameFiles DEF Opened, serverVars, deviceVars
<1>3. /\ Loading => outcome = "busy"
      /\ Saving => outcome = "busy" /\ job.cmd = "save"
  BY DEF Good, ServiceInv, JobInv
<1>4. CASE SendBlock
  BY <1>1, <1>4, SendBlockStep
<1>5. ASSUME UNCHANGED <<job, got, outcome>>
      PROVE  UNCHANGED Service!vars
  BY <1>2, <1>5, Unseen
<1>6. ASSUME UNCHANGED <<job, got>>, outcome = "busy", outcome' \in {"error", "aborted"}
      PROVE  Service!Next
  BY <1>2, <1>6, Failing
<1>7. ASSUME UNCHANGED <<job, got>>, Saving, outcome' = "saved"
      PROVE  Service!Next
  BY <1>2, <1>3, <1>7 DEF Service!Next, Service!EndSave, Files, Dirty, Opened
<1>8. CASE Poll \/ Setup \/ Loss \/ Duplicate
  BY <1>5, <1>8 DEF Poll, LoopProbe, GetProbe, RecvProbe, PutProbe, Setup, SetupDrop, SetupDone,
                    Loss, Duplicate, clientVars, c64Vars
<1>9. CASE GetError \/ GetNothing \/ GetBlock
  BY <1>3, <1>5, <1>6, <1>9 DEF GetError, GetNothing, GetBlock, Loading, c64Vars
<1>10. CASE SaveStep
  <2>1. Saving /\ UNCHANGED <<job, got>> /\ outcome' \in {outcome, "error", "saved"}
    BY <1>10 DEF SaveStep, RecvByte, PutBlock, PutEmpty, Saving
  <2> QED
    BY <1>3, <1>5, <1>6, <1>7, <2>1
<1>11. CASE Abort
  BY <1>3, <1>6, <1>11 DEF Abort, RecvAbort, Saving
<1>12. CASE Reset
  BY <1>5, <1>6, <1>12 DEF Reset, ClientReset
<1> QED
  BY <1>4, <1>8, <1>9, <1>10, <1>11, <1>12 DEF LoadStep

(* The name of the current job, and the types of the daemon's files *)
LEMMA FileTypes ==
    ASSUME Good
    PROVE  /\ file \in FileHandle /\ file.name \in Name
           /\ disk \in [Name -> Seq(Byte) \cup {NoFile}]
           /\ unwritten \in [Name -> Seq(Byte)]
           /\ \A n \in Name : disk[n] \in Seq(Byte) <=> disk[n] # NoFile
           /\ file.mode = "write" => disk[file.name] # NoFile
           /\ \A n \in Name : unwritten[n] # <<>> => disk[n] # NoFile
<1>1. /\ file \in FileHandle /\ file.name \in Name
      /\ disk \in [Name -> Seq(Byte) \cup {NoFile}]
      /\ unwritten \in [Name -> Seq(Byte)]
  BY GoodTypes DEF Good, StateInv, OrderInv, DiskBytes
<1>2. NoFile \notin Seq(Byte)
  <2>1. Seq(Byte) \subseteq Seq(Octet)
    BY DEF Octet
  <2> QED
    BY <2>1, NoFileAssumption
<1>3. FileInv
  BY DEF Good, StateInv, Inv
<1> QED
  BY <1>1, <1>2, <1>3 DEF FileInv

(* What Ruby writes out has been stored already. *)
LEMMA WrittenOut ==
    ASSUME Good, NEW n \in Name, disk[n] # NoFile,
           disk' = [disk EXCEPT ![n] = @ \o unwritten[n]],
           unwritten' = [unwritten EXCEPT ![n] = <<>>]
    PROVE  Files' = Files /\ Dirty' = Dirty \ {n}
<1>1. /\ disk[n] \in Seq(Byte) /\ unwritten[n] \in Seq(Byte)
      /\ disk[n] \o unwritten[n] \in Seq(Byte)
  BY FileTypes
<1>2. disk[n] \o unwritten[n] \in Seq(Octet) /\ <<>> \in Seq(Octet)
  <2>1. Seq(Byte) \subseteq Seq(Octet)
    BY DEF Octet
  <2> QED
    BY <1>1, <2>1
<1>3. disk[n] \o unwritten[n] # NoFile
  BY <1>2, NoFileAssumption
<1>4. /\ disk'[n] = disk[n] \o unwritten[n] /\ unwritten'[n] = <<>>
      /\ \A m \in Name \ {n} : disk'[m] = disk[m] /\ unwritten'[m] = unwritten[m]
  BY FileTypes
<1>5. disk'[n] \o <<>> = disk'[n]
  BY <1>1, <1>4
<1>6. ASSUME NEW m \in Name
      PROVE  Stored(m)' = Stored(m) /\ (disk'[m] = NoFile <=> disk[m] = NoFile)
  <2>1. CASE m = n
    BY <1>3, <1>4, <1>5, <2>1 DEF Stored
  <2>2. CASE m # n
    BY <1>4, <2>2 DEF Stored
  <2> QED
    BY <2>1, <2>2
<1>7. Files' = Files
  BY <1>6 DEF Files
<1>8. Dirty' = Dirty \ {n}
  BY <1>4 DEF Dirty
<1> QED
  BY <1>7, <1>8

LEMMA Completing ==
    ASSUME NEW n \in Name, Files' = Files, Dirty' = Dirty \ {n},
           UNCHANGED <<Opened, job, got, outcome>>
    PROVE  [Service!Next]_(Service!vars)
<1>1. CASE n \in Dirty
  BY <1>1 DEF Service!Next, Service!Complete, Files, Dirty, Opened
<1>2. CASE n \notin Dirty
  BY <1>2, Unseen
<1> QED
  BY <1>1, <1>2

LEMMA ServeRrqStep ==
    ASSUME Good, ServeRrq, UNCHANGED <<job, got, outcome>>
    PROVE  [Service!Next]_(Service!vars)
<1> DEFINE h == Head(toServer)
<1>1. /\ job.cmd = "load" /\ h.name = job.name /\ got = <<>>
  BY DEF ServeRrq, Asked, Good, ServiceInv, JobInv
<1>2. UNCHANGED <<Files, Dirty>>
  BY SameFiles DEF ServeRrq
<1>3. CASE UNCHANGED file
  BY <1>2, <1>3, SameOpened, Unseen
<1>4. CASE ~UNCHANGED file
  <2>1. /\ disk[job.name] # NoFile
        /\ file' = [mode |-> "read", name |-> job.name, data |-> disk[job.name], pos |-> 0]
    BY <1>1, <1>4 DEF ServeRrq
  <2>2. job.name \in Name
    <3>1. job \in {NoJob} \cup LoadJob \cup SaveJob
      BY Types DEF Good, StateInv, C64TypeOK
    <3> QED
      BY <1>1, <3>1 DEF NoJob, LoadJob, SaveJob
  <2>3. PICK d \in Seq(Byte), u \in Seq(Byte) : d = disk[job.name] /\ u = unwritten[job.name]
    BY <2>1, <2>2, FileTypes
  <2>4. Files[job.name] = d \o u /\ Files[job.name] # NoFile
    <3>1. d \o u \in Seq(Octet)
      BY DEF Octet
    <3> QED
      BY <2>1, <2>2, <2>3, <3>1, NoFileAssumption DEF Files, Stored
  <2>5. /\ Len(d) \in 0 .. Len(d \o u) /\ SubSeq(d \o u, 1, Len(d)) = d
        /\ u = <<>> => Len(d) = Len(d \o u)
    OBVIOUS
  <2>6. Opened' = [name |-> job.name, data |-> d]
    BY <2>1, <2>3 DEF Opened
  <2>7. job.name \notin Dirty => u = <<>>
    BY <2>2, <2>3 DEF Dirty
  <2>8. \E m \in 0 .. Len(Files[job.name]) :
           /\ job.name \notin Dirty => m = Len(Files[job.name])
           /\ Opened' = [name |-> job.name, data |-> SubSeq(Files[job.name], 1, m)]
    <3>1. SubSeq(Files[job.name], 1, Len(d)) = d /\ Len(d) \in 0 .. Len(Files[job.name])
      BY Zenon, <2>4, <2>5
    <3>2. job.name \notin Dirty => Len(d) = Len(Files[job.name])
      BY Zenon, <2>4, <2>5, <2>7
    <3> QED
      BY ZenonT(30), <2>6, <3>1, <3>2
  <2> QED
    BY <1>1, <1>2, <2>4, <2>8
       DEF Service!Next, Service!Open, Service!Prefix, Files, Dirty, Opened
<1> QED
  BY <1>3, <1>4

LEMMA JobName ==
    ASSUME Good, job.cmd = "save"
    PROVE  job.name \in Name /\ job.data \in Seq(Byte)
<1>1. job \in {NoJob} \cup LoadJob \cup SaveJob
  BY Types DEF Good, StateInv, C64TypeOK
<1> QED
  BY <1>1 DEF NoJob, LoadJob, SaveJob

LEMMA ServeWrqStep ==
    ASSUME Good, ServeWrq, UNCHANGED <<job, got, outcome>>
    PROVE  [Service!Next]_(Service!vars)
<1> DEFINE h == Head(toServer)
<1>1. /\ job.cmd = "save" /\ h.name = job.name /\ job.name \in Name
  BY JobName DEF ServeWrq, Asked, Good, ServiceInv, JobInv
<1>2. CASE UNCHANGED deviceVars
  BY <1>2, SameFiles, SameOpened, Unseen DEF deviceVars
<1>3. CASE ~UNCHANGED deviceVars
  <2>1. /\ file' = [mode |-> "write", name |-> job.name, data |-> <<>>, pos |-> 0]
        /\ disk' = [disk EXCEPT ![job.name] = <<>>]
        /\ unwritten' = [unwritten EXCEPT ![job.name] = <<>>]
    BY <1>1, <1>3 DEF ServeWrq
  <2>2. /\ disk'[job.name] = <<>> /\ unwritten'[job.name] = <<>>
        /\ \A m \in Name \ {job.name} : disk'[m] = disk[m] /\ unwritten'[m] = unwritten[m]
    BY <1>1, <2>1, FileTypes
  <2>3. <<>> # NoFile /\ <<>> \o <<>> = <<>>
    <3>1. <<>> \in Seq(Octet) /\ <<>> \o <<>> = <<>>
      OBVIOUS
    <3> QED
      BY <3>1, NoFileAssumption
  <2>4. Files' = [Files EXCEPT ![job.name] = <<>>]
    BY <1>1, <2>2, <2>3 DEF Files, Stored
  <2>5. Dirty' = Dirty \ {job.name} /\ Opened' = [name |-> job.name, data |-> <<>>]
    BY <1>1, <2>1, <2>2 DEF Dirty, Opened
  <2> QED
    BY <1>1, <2>4, <2>5 DEF Service!Next, Service!Replace, Files, Dirty, Opened
<1> QED
  BY <1>2, <1>3

LEMMA ServeAckStep ==
    ASSUME Good, ServeAck, UNCHANGED <<job, got, outcome>>
    PROVE  [Service!Next]_(Service!vars)
<1>1. CASE Crash
  BY <1>1, SameFiles, SameOpened, Unseen DEF Crash, deviceVars
<1>2. ASSUME SendData(NextBlk(Head(toServer).blk)), UNCHANGED <<disk, unwritten>>
      PROVE  UNCHANGED Service!vars
  <2>1. file'.name = file.name /\ file'.data = file.data
    BY <1>2, FileTypes DEF SendData, FileHandle
  <2> QED
    BY <1>2, <2>1, SameFiles, SameOpened, Unseen
<1>3. CASE CloseFile
  <2>1. UNCHANGED Opened
    <3>1. file'.name = file.name /\ file'.data = file.data
      BY <1>3, FileTypes DEF CloseFile, FileHandle
    <3> QED
      BY <3>1, SameOpened
  <2>2. CASE file.mode = "write"
    <3>1. Files' = Files /\ Dirty' = Dirty \ {file.name}
      BY <1>3, <2>2, FileTypes, WrittenOut DEF CloseFile
    <3> QED
      BY <2>1, <3>1, FileTypes, Completing
  <2>3. CASE file.mode # "write"
    BY <1>3, <2>1, <2>3, SameFiles, Unseen DEF CloseFile
  <2> QED
    BY <2>2, <2>3
<1> QED
  BY <1>1, <1>2, <1>3 DEF ServeAck

LEMMA ServeDataStep ==
    ASSUME Good, ServeData, UNCHANGED clientVars
    PROVE  [Service!Next]_(Service!vars)
<1>0. UNCHANGED <<job, got, outcome>>
  BY ClientSame
<1>1. CASE Crash
  BY <1>0, <1>1, SameFiles, SameOpened, Unseen DEF Crash, deviceVars
<1>2. CASE ~Crash
  <2> DEFINE d == Head(toServer).data
             n == job.name
  <2>1. /\ job.cmd = "save" /\ n \in Name /\ job.data \in Seq(Byte) /\ d \in Seq(Byte)
        /\ \A m \in Name \ {n} : disk'[m] = disk[m] /\ unwritten'[m] = unwritten[m]
    BY <1>2, ServeDataStores
  <2>2. PICK k \in 0 .. Len(job.data) :
          /\ StoredUpTo(k)
          /\ k + Len(d) <= Len(job.data)
          /\ disk'[n] # NoFile
          /\ Stored(n)' = SubSeq(job.data, 1, k + Len(d))
    BY <1>2, ServeDataStores
  <2>3. UNCHANGED Opened
    <3>1. file'.name = job.name /\ file'.data = file.data /\ file.name = job.name
      <4>1. Asked("DATA")
        BY DEF ServeData, Asked
      <4> QED
        BY <1>2, <2>1, <4>1, ServeDataStores DEF Good, ServiceInv, SaveInv, StoreInv, Pending
    <3> QED
      BY <3>1, SameOpened
  <2> HIDE DEF d
  <2>4. Len(d) \in Nat /\ k \in Nat /\ k + Len(d) \in k .. Len(job.data)
    BY <2>1, <2>2
  <2>5. Files[n] = SubSeq(job.data, 1, k) /\ Files[n] # NoFile /\ Len(Files[n]) = k
    <3>1. disk[n] # NoFile /\ Stored(n) = SubSeq(job.data, 1, k)
      BY <2>2 DEF StoredUpTo
    <3>2. SubSeq(job.data, 1, k) \in Seq(Octet)
      BY <2>1, <2>2 DEF Octet
    <3>3. Len(SubSeq(job.data, 1, k)) = k
      BY <2>1, <2>2
    <3> QED
      BY <2>1, <3>1, <3>2, <3>3, NoFileAssumption DEF Files
  <2>6. Files' = [Files EXCEPT ![n] = SubSeq(job.data, 1, k + Len(d))]
    <3>1. \A m \in Name \ {n} : Stored(m)' = Stored(m) /\ (disk'[m] = NoFile <=> disk[m] = NoFile)
      BY <2>1 DEF Stored
    <3>2. Files'[n] = SubSeq(job.data, 1, k + Len(d))
      BY <1>0, <2>1, <2>2 DEF Files
    <3>3. \A m \in Name \ {n} : Files'[m] = Files[m]
      BY <3>1 DEF Files
    <3>4. Files = [m \in Name |-> Files[m]] /\ Files' = [m \in Name |-> Files'[m]]
      BY DEF Files
    <3> QED
      BY <2>1, <3>2, <3>3, <3>4
  <2>7. Dirty' \in {Dirty \cup {n}, Dirty \ {n}}
    BY <2>1 DEF Dirty
  <2>8. \E m \in Len(Files[n]) .. Len(job.data) :
           /\ Files[n] = SubSeq(job.data, 1, Len(Files[n]))
           /\ Files' = [Files EXCEPT ![n] = SubSeq(job.data, 1, m)]
    BY <2>4, <2>5, <2>6
  <2> QED
    BY <1>0, <2>1, <2>3, <2>5, <2>7, <2>8
       DEF Service!Next, Service!Store, Service!Prefix, Files, Dirty, Opened
<1> QED
  BY <1>1, <1>2

LEMMA ServiceStep ==
    ASSUME Good, [Next]_vars
    PROVE  [Service!Next]_(Service!vars)
<1>1. CASE Command
  BY <1>1, CommandStep
<1>2. CASE Poll \/ LoadStep \/ SaveStep \/ Abort \/ Reset \/ Setup \/ Loss \/ Duplicate
  BY <1>2, ClientStep
<1>3. CASE Serve
  <2>1. UNCHANGED <<job, got, outcome>>
    BY <1>3 DEF Serve, clientVars, c64Vars
  <2> QED
    BY <1>3, <2>1, ServeRrqStep, ServeWrqStep, ServeAckStep, ServeDataStep DEF Serve
<1>4. CASE Timeout
  <2>1. UNCHANGED <<job, got, outcome, file, disk, unwritten>>
    BY <1>4 DEF Timeout, ServerTimeout, clientVars, c64Vars, deviceVars
  <2> QED
    BY <2>1, SameFiles, SameOpened, Unseen
<1>5. CASE RubyWrite
  <2>1. UNCHANGED <<job, got, outcome, file>>
    BY <1>5 DEF RubyWrite, WriteOut, clientVars, c64Vars
  <2>2. PICK n \in Name : WriteOut(n)
    BY <1>5 DEF RubyWrite
  <2>3. Files' = Files /\ Dirty' = Dirty \ {n}
    BY <2>2, FileTypes, WrittenOut DEF WriteOut
  <2> QED
    BY <2>1, <2>3, SameOpened, Completing
<1>6. CASE UNCHANGED vars
  <2>1. UNCHANGED <<job, got, outcome, file, disk, unwritten>>
    BY <1>6 DEF vars, clientVars, c64Vars, serverVars, deviceVars
  <2> QED
    BY <2>1, SameFiles, SameOpened, Unseen
<1> QED
  BY <1>1, <1>2, <1>3, <1>4, <1>5, <1>6 DEF Next

LEMMA ServiceStart == Init => Service!Init
<1> SUFFICES ASSUME Init PROVE Service!Init
  OBVIOUS
<1>1. /\ disk \in [Name -> Seq(Octet) \cup {NoFile}] /\ unwritten = [n \in Name |-> <<>>]
      /\ job = [cmd |-> "none"] /\ got = <<>> /\ outcome = "none"
      /\ \E n \in Name : file = [mode |-> "closed", name |-> n, data |-> <<>>, pos |-> 0]
  <2>1. Seq(Byte) \subseteq Seq(Octet)
    BY DEF Octet
  <2> QED
    BY <2>1, Disk0Assumption DEF Init, ServerInit, ClientInit, NoJob
<1>2. Files \in [Name -> Seq(Octet) \cup {NoFile}]
  <2>1. \A n \in Name : disk[n] # NoFile => disk[n] \in Seq(Octet) /\ disk[n] \o <<>> \in Seq(Octet)
    BY <1>1
  <2>2. \A n \in Name : unwritten[n] = <<>>
    BY <1>1
  <2>3. \A n \in Name : Files[n] \in Seq(Octet) \cup {NoFile}
    BY <2>1, <2>2 DEF Files, Stored
  <2> QED
    BY <2>3 DEF Files
<1>3. Dirty = {} /\ Opened \in [name : Name, data : {<<>>}]
  BY <1>1 DEF Dirty, Opened
<1> QED
  BY <1>1, <1>2, <1>3 DEF Service!Init, Files, Dirty, Opened

(* LOAD and SAVE implement FileService: every packet, poll, loss, repeat,  *)
(* timeout and reset is a step of what the service promises to the C64 and *)
(* its disk, or does not show there.                                       *)
THEOREM Refinement == Spec /\ Calm => ServiceSpec
<1>1. Init => Service!Init
  BY ServiceStart
<1>2. Good /\ [Next]_vars => [Orderly => Service!Next]_(Service!vars)
  BY ServiceStep
<1> QED
  BY <1>1, <1>2, CalmInv, PTL DEF Spec, ServiceSpec
-----------------------------------------------------------------------------
(* The exchange of single datagrams: none stops the daemon, no two are     *)
(* under way at once, each carries the block its number says, and a SAVE   *)
(* that has ended is on the disk.                                          *)

(* The daemon does not give a transfer up while the other side is about to *)
(* go on with it.                                                          *)
Prompt == Calm /\ env.patient

Reading == status = "wait_ack" /\ file.mode = "read"
Writing == status = "wait_data" /\ file.mode = "write"

(* Whoever is about to acknowledge a block finds the daemon reading the    *)
(* file, and whoever is about to send one finds it writing.                *)
PromptInv ==
    /\ status # "crashed"
    /\ Asked("ACK") => Reading
    /\ Asked("DATA") => Writing
    /\ Loading => /\ \A p \in Arriving : ~Old(p) /\ p.type \in {"OACK", "DATA"} => Reading
                  /\ phase = "block" /\ ~tftp_error /\ Fresh => Reading
    /\ Saving => /\ MayPut => Writing
                 /\ Asked("DATA") => Len(Head(toServer).data) = BlkSize
                 /\ phase = "put" => eoi \/ a = BlkSize

Faithful == Good /\ Prompt /\ PromptInv
-----------------------------------------------------------------------------
(* Who holds the datagram *)

LEMMA NothingNewPrompt ==
    ASSUME Faithful, UNCHANGED clientVars, toServer' \in {toServer, <<>>},
           Arriving' \subseteq Arriving, status' = status, file'.mode = file.mode
    PROVE  PromptInv'
<1>1. /\ UNCHANGED <<tftp_error, tftp_lastblk, tftp_clear_to_send, phase, eoi, a>>
      /\ Loading' = Loading /\ Saving' = Saving /\ Fresh' = Fresh
  BY ClientSame
<1>2. \A type \in {"ACK", "DATA"} : Asked(type)' => Asked(type) /\ toServer' = toServer
  BY DEF Asked
<1>3. Reading' = Reading /\ Writing' = Writing
  BY DEF Reading, Writing
<1>4. MayPut' => MayPut
  BY <1>1 DEF MayPut, Answer, Old
<1> QED
  BY <1>1, <1>2, <1>3, <1>4 DEF Faithful, PromptInv, Old

(* A command finds both channels empty, and sends its request at most. *)
LEMMA CommandFacts ==
    ASSUME Good, Command
    PROVE  /\ toServer = <<>> /\ toClient = <<>> /\ toClient' = <<>> /\ Arriving' = {}
           /\ ~Asked("ACK")' /\ ~Asked("DATA")'
           /\ UNCHANGED <<status, file>>
           /\ ~(phase' = "block") /\ ~(phase' = "put")
           /\ Saving' => ~tftp_clear_to_send'
<1> USE DEF Good
<1>1. /\ toServer = <<>> /\ toClient = <<>> /\ toClient' = <<>> /\ Arriving' = {}
      /\ UNCHANGED <<status, file>>
      /\ phase' \in {"probe", "loop", "recv"}
      /\ phase' = "recv" => ~tftp_clear_to_send'
  BY Emptied DEF Command, MayStart, Quiet, Calm, Orderly, StartLoad, StartSave, tftp_put_file,
                 serverVars, objectVars, deviceVars
<1>2. \/ toServer' = <<>>
      \/ \E n \in Name : toServer' = Append(<<>>, RRQ(n))
      \/ \E n \in Name : toServer' = Append(<<>>, WRQ(n))
  <2>1. \A j \in env.jobs : j.name \in Name
    BY CalmFacts
  <2> QED
    BY <1>1, <2>1 DEF Command, StartLoad, StartSave, tftp_get_file, tftp_put_file, SendRequest
<1>3. ~Asked("ACK")' /\ ~Asked("DATA")'
  BY <1>2, SentOne DEF Asked, RRQ, WRQ
<1> QED
  BY <1>1, <1>3 DEF Saving

LEMMA CommandPrompt ==
    ASSUME Faithful, Command
    PROVE  PromptInv'
<1> USE DEF Faithful
<1> QED
  BY CommandFacts DEF PromptInv, MayPut

(* Polls outside of a LOAD *)
LEMMA PollPrompt ==
    ASSUME Faithful, LoopProbe \/ RecvProbe \/ PutProbe, Probe, UNCHANGED serverVars
    PROVE  PromptInv'
<1> USE DEF Faithful, Good
<1> DEFINE p == Head(toClient)
<1>1. /\ InLoop /\ ~Loading' /\ Saving' = Saving
      /\ (phase' = "put" <=> phase = "put")
      /\ UNCHANGED <<eoi, a, status, file>>
  BY DEF LoopProbe, RecvProbe, PutProbe, InLoop, Loading, Saving, loopVars,
         serverVars, objectVars, deviceVars
<1>2. /\ toServer' = toServer
      /\ p \in Arriving /\ Arriving' \subseteq Arriving
      /\ \/ Old(p) /\ UNCHANGED <<tftp_clear_to_send, tftp_lastblk>>
         \/ /\ ~Old(p) /\ AllOld'
            /\ tftp_clear_to_send' => tftp_clear_to_send \/ p.type \in {"ACK", "OACK"}
  BY <1>1, PollFacts
<1> HIDE DEF p
<1>3. MayPut' => MayPut
  BY <1>2 DEF MayPut, Answer, Old, AllOld
<1> QED
  BY <1>1, <1>2, <1>3 DEF PromptInv, Reading, Writing, Asked

LEMMA GetProbePrompt ==
    ASSUME Faithful, GetProbe, UNCHANGED serverVars
    PROVE  PromptInv'
<1> USE DEF Faithful, Good
<1> DEFINE p == Head(toClient)
<1>1. /\ Loading /\ ~Saving' /\ phase = "probe" /\ UNCHANGED <<status, file, tftp_lastgot>>
  BY DEF GetProbe, Probe, tftp_recv_packet, Loading, Saving, serverVars, objectVars, deviceVars
<1>2. ~Fresh
  BY <1>1, HandedNotFresh DEF StateInv, OrderInv, ClientOrder, FetchInv
<1>3. Asked("ACK")' => Reading
  <2>1. Asked("ACK")' => Asked("ACK") \/ (~Old(p) /\ p.type = "OACK" /\ p \in Arriving)
    BY GetProbeFacts DEF Asked
  <2> QED
    BY <1>1, <2>1 DEF PromptInv
<1>4. Asked("DATA")' => Asked("DATA")
  <2>1. ASSUME toServer' = Append(toServer, ACK(0)), toServer = <<>>
        PROVE  ~Asked("DATA")'
    BY <2>1, SentOne DEF Asked, ACK
  <2> QED
    BY <2>1, GetProbeFacts DEF Asked
<1>5. \A q \in Arriving' : q.blk # tftp_lastblk' => q \in Arriving /\ ~Old(q)
  BY GetProbeFacts DEF AllOld, Old
<1>6. ~tftp_error' /\ Fresh' => p \in Arriving /\ ~Old(p) /\ p.type \in {"OACK", "DATA"}
  <2>1. Old(p) => (Fresh' <=> Fresh)
    BY <1>1, GetProbeFacts DEF Fresh
  <2> QED
    BY <1>2, <2>1, GetProbeFacts
<1> QED
  BY <1>1, <1>3, <1>4, <1>5, <1>6 DEF PromptInv, Reading, Writing, Old

(* The client goes on without a packet.                                    *)
LEMMA QuietPrompt ==
    ASSUME Faithful, UNCHANGED <<linkVars, serverVars>>,
           ~Loading' \/ (Loading /\ tftp_lastblk' = tftp_lastblk /\ phase' # "block"),
           ~Saving' \/ (/\ Saving /\ UNCHANGED <<tftp_clear_to_send, tftp_lastblk>>
                        /\ phase' = "put" => eoi' \/ a' = BlkSize)
    PROVE  PromptInv'
<1>1. UNCHANGED <<toServer, toClient, status, file>>
  BY DEF linkVars, serverVars, objectVars, deviceVars
<1>2. Arriving' = Arriving
  BY <1>1, Kept
<1>3. Saving' /\ MayPut' => MayPut
  BY <1>1, <1>2 DEF MayPut, Answer, Old
<1> QED
  BY <1>1, <1>2, <1>3 DEF Faithful, PromptInv, Reading, Writing, Asked, Old

LEMMA ReturnPrompt ==
    ASSUME Faithful, UNCHANGED serverVars,
           \/ GetError \/ GetNothing \/ SendBlock \/ RecvByte \/ RecvAbort \/ SetupDone
           \/ RecvProbe /\ UNCHANGED <<linkVars, tftpVars>>
    PROVE  PromptInv'
<1>1. CASE GetError \/ GetNothing \/ SendBlock
  BY <1>1, QuietPrompt DEF GetError, GetNothing, SendBlock, Loading, Saving, tftpVars
<1>2. CASE RecvByte
  BY <1>2, QuietPrompt DEF RecvByte, Loading, Saving, tftpVars
<1>3. CASE RecvAbort \/ SetupDone
  BY <1>3, QuietPrompt DEF RecvAbort, SetupDone, Loading, Saving, tftpVars
<1>4. CASE RecvProbe /\ UNCHANGED <<linkVars, tftpVars>>
  BY <1>4, QuietPrompt DEF RecvProbe, Loading, Saving, tftpVars
<1> QED
  BY <1>1, <1>2, <1>3, <1>4

LEMMA GetBlockPrompt ==
    ASSUME Faithful, GetBlock, UNCHANGED serverVars
    PROVE  PromptInv'
<1> USE DEF Faithful, Good
<1>1. /\ phase = "block" /\ ~tftp_error /\ Loading /\ phase' = "send" /\ ~Saving'
      /\ toServer' = Append(toServer, ACK(tftp_blknum))
      /\ UNCHANGED <<toClient, tftp_lastblk, status, file>>
  BY DEF GetBlock, tftp_get_block, Loading, Saving, serverVars, objectVars, deviceVars
<1>2. Fresh
  BY GetBlockNext
<1>3. Reading
  BY <1>1, <1>2 DEF PromptInv
<1>4. toServer = <<>>
  BY <1>1, <1>2 DEF ServiceInv, LoadInv, Received
<1>5. ~Asked("DATA")'
  BY <1>1, <1>4, SentOne DEF Asked, ACK
<1>6. Arriving' = Arriving
  BY <1>1, Kept
<1> QED
  BY <1>1, <1>3, <1>5, <1>6 DEF PromptInv, Reading

LEMMA PutPrompt ==
    ASSUME Faithful, PutBlock \/ PutEmpty, UNCHANGED serverVars
    PROVE  PromptInv'
<1> USE DEF Faithful, Good
<1> PICK n \in 0 .. BlkSize :
       /\ tftp_put_block(n)
       /\ phase' # "loop" => n = BlkSize
  <2>1. phase = "put" => eoi \/ a = BlkSize
    BY DEF PromptInv, Saving
  <2>2. a \in 0 .. BlkSize /\ 0 \in 0 .. BlkSize
    BY Types, Sizes DEF StateInv, LoopTypeOK
  <2> QED
    BY <2>1, <2>2 DEF PutBlock, PutEmpty
<1> DEFINE d == Slice(iobuf, 0, n)
           x == DATA(NextBlk(tftp_blknum), d)
<1>1. /\ Saving /\ tftp_clear_to_send /\ ~tftp_clear_to_send'
      /\ toServer' = Append(toServer, x)
      /\ phase' \in {"putEmpty", "recv", "loop"}
      /\ UNCHANGED <<toClient, tftp_lastblk, status, file>>
  BY DEF PutBlock, PutEmpty, tftp_put_block, Saving, serverVars, objectVars, deviceVars
<1>2. Len(d) = n
  <2>1. n \in Nat /\ d = [i \in 1 .. n |-> iobuf[0 + i - 1]]
    BY Sizes DEF Slice
  <2> QED
    BY <2>1
<1>3. toServer = <<>> /\ AllOld
  BY <1>1 DEF ServiceInv, SaveInv, StoreInv, JobInv
<1>4. Head(toServer') = x /\ x.type = "DATA" /\ x.data = d
  BY <1>1, <1>3, SentOne DEF DATA
<1> HIDE DEF x, d
<1>5. ~Asked("ACK")' /\ (Asked("DATA")' => Writing)
  BY <1>1, <1>4 DEF Asked, PromptInv, MayPut
<1>6. Arriving' = Arriving /\ AllOld'
  BY <1>1, <1>3, Kept
<1>7. ~MayPut'
  <2>1. \A p \in Arriving' : ~Answer(p)'
    BY <1>6 DEF Answer, AllOld, Old
  <2> QED
    BY <1>1, <1>6, <2>1 DEF MayPut, Answer, AllOld, Old
<1>8. ~Loading' /\ phase' # "put" /\ (Saving' => phase' # "loop")
  BY <1>1 DEF Loading, Saving
<1> QED
  BY <1>1, <1>2, <1>4, <1>5, <1>7, <1>8 DEF PromptInv, Writing

LEMMA ResetPrompt ==
    ASSUME Faithful, ClientReset \/ SetupDrop, UNCHANGED serverVars
    PROVE  PromptInv'
<1>1. /\ ~Loading' /\ ~Saving' /\ UNCHANGED <<toServer, status, file>>
  BY DEF ClientReset, SetupDrop, Loading, Saving, clientVars, loopVars, serverVars, objectVars,
         deviceVars
<1> QED
  BY <1>1 DEF Faithful, PromptInv, Asked, Reading, Writing
-----------------------------------------------------------------------------
(* The daemon *)

(* What it has served leaves no other request behind it, and nothing new   *)
(* in the channel to the client.                                           *)
LEMMA ServeFacts ==
    ASSUME Good, Serve
    PROVE  /\ toServer # <<>> /\ toServer' = <<>> /\ AllOld
           /\ ~Asked("RRQ")' /\ ~Asked("ACK")' /\ ~Asked("WRQ")' /\ ~Asked("DATA")'
           /\ UNCHANGED <<env, tftp_error, tftp_lastblk, tftp_clear_to_send, tftp_blknum,
                          phase, eoi, a, job, outcome>>
           /\ Loading' = Loading /\ Saving' = Saving /\ Fresh' = Fresh /\ Sent' = Sent
           /\ phase = "block" /\ ~tftp_error => ~Fresh
           /\ Saving => ~tftp_clear_to_send
<1>1. toServer # <<>> /\ toServer' = <<>> /\ AllOld
  BY GoodTypes, Served DEF Serve, ServeRrq, ServeWrq, ServeAck, ServeData, Crash, TurnInv
<1>2. /\ UNCHANGED <<env, tftp_error, tftp_lastblk, tftp_clear_to_send, tftp_blknum,
                     phase, eoi, a, job, outcome>>
      /\ Loading' = Loading /\ Saving' = Saving /\ Fresh' = Fresh /\ Sent' = Sent
  BY ClientSame DEF Serve, boundVars, clientVars, tftpVars
<1>3. phase = "block" /\ ~tftp_error => ~Fresh
  BY <1>1 DEF Good, ServiceInv, LoadInv, Received, Loading
<1>4. Saving => ~tftp_clear_to_send
  BY <1>1 DEF Good, ServiceInv, SaveInv, StoreInv, JobInv
<1> QED
  BY SMTT(30), <1>1, <1>2, <1>3, <1>4 DEF Asked

LEMMA AnsweredPrompt ==
    ASSUME Faithful, Serve, status' # "crashed",
           \/ toClient' = toClient
           \/ \E x : /\ toClient' = Append(toClient, x)
                     /\ Loading /\ x.type \in {"OACK", "DATA"} => Reading'
                     /\ Saving /\ x.type \in {"ACK", "OACK"} => Writing'
    PROVE  PromptInv'
<1>1. \A p \in Arriving' : \/ p.blk = tftp_lastblk
                           \/ /\ Loading /\ p.type \in {"OACK", "DATA"} => Reading'
                              /\ Saving /\ p.type \in {"ACK", "OACK"} => Writing'
  <2>1. \A p \in Arriving : p.blk = tftp_lastblk
    BY ServeFacts DEF Faithful, AllOld, Old
  <2>2. CASE toClient' = toClient
    BY <2>1, <2>2, Kept
  <2>3. ASSUME NEW x, toClient' = Append(toClient, x),
               Loading /\ x.type \in {"OACK", "DATA"} => Reading',
               Saving /\ x.type \in {"ACK", "OACK"} => Writing'
        PROVE  \A p \in Arriving' : \/ p.blk = tftp_lastblk
                           \/ /\ Loading /\ p.type \in {"OACK", "DATA"} => Reading'
                              /\ Saving /\ p.type \in {"ACK", "OACK"} => Writing'
    BY <2>1, <2>3, ArriveNew, GoodTypes DEF Faithful
  <2> QED
    BY <2>2, <2>3
<1>2. Saving /\ MayPut' => Writing'
  BY <1>1, ServeFacts DEF Faithful, MayPut, Answer, Old
<1> QED
  BY <1>1, <1>2, ServeFacts DEF Faithful, PromptInv, Old

(* No packet stops the daemon, and it answers in the state that its answer *)
(* leads the client to expect.                                             *)
LEMMA ServePrompt ==
    ASSUME Faithful, Serve
    PROVE  PromptInv'
<1> USE DEF Faithful, Good
<1>0. /\ Loading => job.cmd = "load"
      /\ Saving => job.cmd = "save"
  BY DEF ServiceInv, JobInv
<1>1. CASE ServeRrq
  <2>1. ~Saving
    BY <1>0, <1>1 DEF ServiceInv, JobInv, ServeRrq, Asked
  <2>2. \E x : /\ toClient' = Append(toClient, x) /\ status' # "crashed"
               /\ x.type = "ERR" \/ Reading'
    BY <1>1 DEF ServeRrq, EndTransfer, Reading, Reply
  <2> QED
    BY <2>1, <2>2, AnsweredPrompt
<1>2. CASE ServeWrq
  <2>1. ~Loading
    BY <1>0, <1>2 DEF ServiceInv, JobInv, ServeWrq, Asked
  <2>2. \E x : /\ toClient' = Append(toClient, x) /\ status' # "crashed"
               /\ x.type = "ERR" \/ Writing'
    BY <1>2 DEF ServeWrq, EndTransfer, Writing, Reply
  <2> QED
    BY <2>1, <2>2, AnsweredPrompt
<1>3. CASE ServeAck
  <2>1. Asked("ACK") /\ Reading /\ ~Saving
    BY <1>0, <1>3 DEF ServiceInv, JobInv, ServeAck, Asked, PromptInv
  <2>2. CASE EndTransfer(Tail(toServer)) /\ UNCHANGED toClient
    BY <2>2, AnsweredPrompt DEF EndTransfer
  <2>3. ASSUME SendData(NextBlk(Head(toServer).blk)) PROVE PromptInv'
    <3>1. status' = "wait_ack" /\ file'.mode = "read" /\ \E x : toClient' = Append(toClient, x)
      BY SMTT(30), <2>1, <2>3, GoodTypes DEF SendData, Reading, FileHandle
    <3> QED
      BY <2>1, <3>1, AnsweredPrompt DEF Reading
  <2> QED
    BY <1>3, <2>1, <2>2, <2>3 DEF ServeAck, Reading
<1>4. CASE ServeData
  <2>1. Asked("DATA") /\ Writing /\ ~Loading
    BY SMTT(30), <1>0, <1>4 DEF ServiceInv, JobInv, ServeData, Asked, PromptInv
  <2> PICK x : toClient' = Append(toClient, x) /\ x.type = "ACK"
    BY SMTT(30), <1>4, <2>1 DEF ServeData, Writing, Reply
  <2>2. Saving => ~IsLast(Head(toServer).data)
    <3>1. Saving => Len(Head(toServer).data) = BlkSize
      BY <2>1 DEF PromptInv
    <3>2. ~(HdrLen + BlkSize < BlkSize)
      BY SMTT(30), Sizes, HdrLenAssumption
    <3> QED
      BY <3>1, <3>2 DEF IsLast
  <2>3. status' # "crashed" /\ (Saving => Writing')
    BY <1>4, <2>1, <2>2 DEF ServeData, Writing, EndTransfer
  <2> QED
    BY <2>1, <2>3, AnsweredPrompt
<1> QED
  BY <1>1, <1>2, <1>3, <1>4 DEF Serve

(* The daemon gives up only when nobody is about to answer it. *)
LEMMA TimeoutPrompt ==
    ASSUME Faithful, Timeout
    PROVE  PromptInv'
<1>1. /\ toClient = <<>> /\ toClient' = toClient /\ toServer' = <<>> /\ status' = "idle"
      /\ \/ phase \in {"setup", "loop", "probe"}
         \/ phase \in {"put", "putEmpty"} /\ ~tftp_clear_to_send
  <2>1. PICK k \in 0 .. Len(<<>>) : toServer' = SubSeq(<<>>, k + 1, Len(<<>>))
    BY DEF Timeout, ServerTimeout, EndTransfer
  <2>2. Len(<<>>) = 0 /\ SubSeq(<<>>, 1, 0) = <<>>
    OBVIOUS
  <2>3. Stalled
    BY DEF Timeout, Faithful, Prompt
  <2> QED
    BY <2>1, <2>2, <2>3 DEF Timeout, ServerTimeout, EndTransfer, Stalled
<1>2. /\ UNCHANGED <<tftp_clear_to_send, phase, eoi, a>>
      /\ Loading' = Loading /\ Saving' = Saving
  BY ClientSame DEF Timeout
<1>3. Arriving' = {}
  BY <1>1, Emptied
<1>4. Saving' => ~MayPut'
  BY <1>1, <1>2, <1>3 DEF MayPut, Saving
<1> QED
  BY <1>1, <1>2, <1>3, <1>4 DEF Faithful, PromptInv, Asked, Saving
-----------------------------------------------------------------------------
(* All together *)

LEMMA FaultPrompt ==
    ASSUME Faithful, UNCHANGED <<clientVars, serverVars, env>>,
           LoseToServer \/ LoseToClient \/ DuplicateToClient
    PROVE  PromptInv'
<1> USE DEF Faithful
<1>1. UNCHANGED <<status, file>>
  BY DEF serverVars, objectVars, deviceVars
<1>2. CASE LoseToServer
  <2>1. Tail(toServer) = <<>>
    BY <1>2, GoodTypes DEF TurnInv, LoseToServer
  <2> QED
    BY <1>1, <1>2, <2>1, Kept, NothingNewPrompt DEF LoseToServer
<1>3. CASE LoseToClient
  BY <1>1, <1>3, GoodTypes, ArriveTail, NothingNewPrompt DEF LoseToClient
<1>4. CASE DuplicateToClient
  BY <1>1, <1>4, GoodTypes, ArriveAgain, NothingNewPrompt DEF DuplicateToClient
<1> QED
  BY <1>2, <1>3, <1>4

LEMMA NextPrompt ==
    ASSUME Faithful, [Next]_vars
    PROVE  PromptInv'
<1>0. Good
  BY DEF Faithful
<1>1. CASE Command
  BY <1>1, CommandPrompt
<1>2. CASE Poll
  <2>1. CASE RecvProbe
    BY <1>2, <2>1, PollPrompt, ReturnPrompt DEF Poll, RecvProbe
  <2>2. CASE LoopProbe \/ PutProbe
    BY <1>2, <2>2, PollPrompt DEF Poll, LoopProbe, PutProbe
  <2>3. CASE GetProbe
    BY <1>2, <2>3, GetProbePrompt DEF Poll
  <2> QED
    BY <1>2, <2>1, <2>2, <2>3 DEF Poll
<1>3. CASE LoadStep
  BY <1>3, ReturnPrompt, GetBlockPrompt DEF LoadStep
<1>4. CASE SaveStep
  BY <1>4, ReturnPrompt, PutPrompt DEF SaveStep
<1>5. CASE Abort
  BY <1>5, ReturnPrompt DEF Abort
<1>6. CASE Reset
  BY <1>6, ResetPrompt DEF Reset
<1>7. CASE Setup
  BY <1>7, ResetPrompt, ReturnPrompt DEF Setup
<1>8. CASE Serve
  BY <1>8, ServePrompt
<1>9. CASE Timeout
  BY <1>9, TimeoutPrompt
<1>10. CASE RubyWrite
  BY <1>10, NothingNewPrompt, Kept DEF RubyWrite, WriteOut, linkVars, objectVars
<1>11. CASE Loss
  <2>1. LoseToServer \/ LoseToClient
    BY <1>11 DEF Loss
  <2>2. UNCHANGED <<clientVars, serverVars, env>>
    BY <1>11 DEF Loss, boundVars
  <2> QED
    BY <2>1, <2>2, FaultPrompt
<1>12. CASE Duplicate
  <2>1. DuplicateToClient
    BY <1>0, <1>12, CalmFacts DEF Duplicate
  <2> QED
    BY <1>12, <2>1, FaultPrompt DEF Duplicate
<1>13. CASE UNCHANGED vars
  BY <1>13, NothingNewPrompt, Kept DEF vars, linkVars, serverVars, objectVars, deviceVars
<1> QED
  BY <1>1, <1>2, <1>3, <1>4, <1>5, <1>6, <1>7, <1>8, <1>9, <1>10, <1>11, <1>12,
     <1>13 DEF Next

LEMMA EnvKept ==
    ASSUME [Next]_vars
    PROVE  env' = env
BY DEF Next, Command, Poll, LoadStep, SaveStep, Abort, Reset, Setup, Serve, Timeout,
       RubyWrite, Loss, Duplicate, boundVars, vars

LEMMA InitPrompt == Init => PromptInv
<1> SUFFICES ASSUME Init PROVE PromptInv
  OBVIOUS
<1>1. phase = "loop" /\ toServer = <<>> /\ status = "idle"
  BY DEF Init, ClientInit, LinkInit, ServerInit
<1> QED
  BY <1>1 DEF PromptInv, Asked, Loading, Saving

LEMMA PromptAlways == Spec /\ Prompt => []Faithful
<1>1. Init /\ Prompt => Prompt /\ PromptInv
  BY InitPrompt
<1>2. Faithful /\ [Next]_vars /\ Good' => Prompt' /\ PromptInv'
  <2> SUFFICES ASSUME Faithful, [Next]_vars, Good' PROVE Prompt' /\ PromptInv'
    OBVIOUS
  <2> QED
    BY NextPrompt, EnvKept DEF Faithful, Prompt, Good
<1>3. Prompt => Calm
  BY DEF Prompt
<1>4. Faithful <=> Good /\ Prompt /\ PromptInv
  BY DEF Faithful
<1> QED
  BY <1>1, <1>2, <1>3, <1>4, CalmInv, PTL DEF Spec

(* No packet of the client stops the daemon: packet_ack and packet_data    *)
(* always meet a TFTP object with a device, and a file in the right mode,  *)
(* whatever is lost, reset or broken off, if the daemon's five seconds do  *)
(* not run out while the other side is busy with a block.                  *)
THEOREM SurvivalCorrect == Spec /\ Prompt => []ServerSurvives
<1>1. Faithful => ServerSurvives
  BY DEF Faithful, PromptInv, ServerSurvives
<1> QED
  BY <1>1, PromptAlways, PTL
-----------------------------------------------------------------------------
(* One datagram at a time *)

(* Where the network repeats nothing, a packet that is new to the client   *)
(* is the only datagram, and so is what the client sends in return.        *)
OneInv ==
    /\ Len(toServer) + Len(toClient) <= 1
    /\ phase = "block" /\ ~tftp_error /\ Fresh => toClient = <<>>
    /\ Saving /\ tftp_clear_to_send => toClient = <<>>

Single == Faithful /\ env.dupToClient = 0 /\ OneInv

LEMMA SingleFacts ==
    ASSUME Single
    PROVE  /\ toClient # <<>> => toServer = <<>> /\ Tail(toClient) = <<>>
           /\ toServer # <<>> => toClient = <<>> /\ Tail(toServer) = <<>>
<1>1. toServer \in Seq(CleanRequest) /\ toClient \in Seq(CleanReply)
  BY GoodTypes DEF Single, Faithful
<1>2. Len(toServer) + Len(toClient) <= 1
  BY DEF Single, OneInv
<1> QED
  BY <1>1, <1>2

(* Nothing is left for the client, and at most one datagram for the daemon.*)
LEMMA OneUp ==
    ASSUME toClient' = <<>>, toServer' = <<>> \/ \E x : toServer' = Append(<<>>, x)
    PROVE  OneInv'
<1>1. Len(<<>>) = 0
  OBVIOUS
<1>2. PICK n \in 0 .. 1 : Len(toServer') = n
  BY <1>1, SentOne
<1>3. n + 0 <= 1
  OBVIOUS
<1> QED
  BY <1>1, <1>2, <1>3 DEF OneInv

LEMMA PollOne ==
    ASSUME Single, Poll
    PROVE  OneInv'
<1>1. CASE Probe
  <2>1. toServer = <<>> /\ toClient' = <<>>
    BY <1>1, SingleFacts DEF Probe
  <2>2. toServer' = toServer \/ toServer' = Append(toServer, ACK(0))
    BY <1>1 DEF Probe, tftp_recv_packet, RecvOack, RecvData, RecvAck, RecvError, RecvOther
  <2> QED
    BY <2>1, <2>2, OneUp
<1>2. CASE RecvProbe /\ UNCHANGED <<linkVars, tftpVars>>
  BY <1>2 DEF RecvProbe, Single, OneInv, Saving, linkVars, tftpVars
<1> QED
  BY <1>1, <1>2 DEF Poll, LoopProbe, GetProbe, RecvProbe, PutProbe

LEMMA StepOne ==
    ASSUME Single, LoadStep \/ SaveStep \/ Abort \/ Setup
    PROVE  OneInv'
<1> USE DEF Single, Faithful, Good
<1>1. CASE GetError \/ GetNothing \/ SendBlock
  BY <1>1 DEF GetError, GetNothing, SendBlock, OneInv, Saving, linkVars, tftpVars
<1>2. CASE RecvByte
  BY <1>2 DEF RecvByte, OneInv, Saving, linkVars, tftpVars
<1>3. CASE RecvAbort \/ SetupDone
  BY <1>3 DEF RecvAbort, SetupDone, OneInv, Saving, linkVars, tftpVars
<1>4. CASE SetupDrop
  <2>1. toServer' = <<>> /\ toClient' = <<>>
    BY <1>4, SingleFacts DEF SetupDrop
  <2> QED
    BY <2>1, OneUp
<1>5. CASE GetBlock /\ UNCHANGED serverVars
  <2>1. /\ phase = "block" /\ ~tftp_error /\ Loading
        /\ toServer' = Append(toServer, ACK(tftp_blknum)) /\ toClient' = toClient
    BY <1>5 DEF GetBlock, tftp_get_block, Loading
  <2>2. Fresh
    BY <1>5, GetBlockNext
  <2>3. toServer = <<>> /\ toClient = <<>>
    BY <2>1, <2>2 DEF ServiceInv, LoadInv, Received, OneInv
  <2> QED
    BY <2>1, <2>3, OneUp
<1>6. CASE PutBlock \/ PutEmpty
  <2>1. Saving /\ tftp_clear_to_send /\ toClient' = toClient
        /\ \E x : toServer' = Append(toServer, x)
    BY <1>6 DEF PutBlock, PutEmpty, tftp_put_block, Saving
  <2>2. toServer = <<>> /\ toClient = <<>>
    BY <2>1 DEF ServiceInv, SaveInv, StoreInv, JobInv, OneInv
  <2> QED
    BY <2>1, <2>2, OneUp
<1> QED
  BY <1>1, <1>2, <1>3, <1>4, <1>5, <1>6 DEF LoadStep, SaveStep, Abort, Setup

LEMMA ServeOne ==
    ASSUME Single, Serve
    PROVE  OneInv'
<1>0. Good
  BY DEF Single, Faithful
<1>1. /\ toServer' = <<>> /\ toClient = <<>>
      /\ UNCHANGED <<tftp_error, tftp_clear_to_send, phase>>
      /\ Saving' = Saving /\ Fresh' = Fresh
      /\ phase = "block" /\ ~tftp_error => ~Fresh
      /\ Saving => ~tftp_clear_to_send
  BY SMTT(30), <1>0, ServeFacts, SingleFacts
<1>2. toClient' = toClient \/ \E x : toClient' = Append(toClient, x)
  BY DEF Serve, ServeRrq, ServeWrq, ServeAck, ServeData, SendData, Crash
<1>3. Len(<<>>) = 0
  OBVIOUS
<1>4. Len(toClient') \in 0 .. 1
  <2>1. CASE toClient' = toClient
    BY <1>1, <1>3, <2>1
  <2>2. ASSUME NEW x, toClient' = Append(<<>>, x) PROVE Len(toClient') \in 0 .. 1
    BY <2>2, SentOne
  <2> QED
    BY <1>1, <1>2, <2>1, <2>2
<1> PICK n \in 0 .. 1 : Len(toClient') = n
  BY <1>4
<1>5. 0 + n <= 1
  OBVIOUS
<1> QED
  BY <1>1, <1>3, <1>5 DEF OneInv

LEMMA NextOne ==
    ASSUME Single, [Next]_vars
    PROVE  OneInv'
<1> USE DEF Single, Faithful, Good
<1>1. CASE Command
  <2>1. toServer = <<>> /\ toClient' = <<>>
    BY <1>1 DEF Command, MayStart, Quiet, Calm, Orderly, StartLoad, StartSave, tftp_put_file
  <2>2. toServer' = toServer \/ \E x : toServer' = Append(toServer, x)
    BY <1>1 DEF Command, StartLoad, StartSave, tftp_get_file, tftp_put_file, SendRequest
  <2> QED
    BY <2>1, <2>2, OneUp
<1>2. CASE Reset
  <2>1. toClient' = <<>> /\ toServer' = toServer /\ phase' = "setup"
    BY <1>2 DEF Reset, ClientReset
  <2>2. Len(toServer) <= 1 /\ Len(toServer) \in Nat
    BY GoodTypes DEF TurnInv
  <2>3. Len(<<>>) = 0
    OBVIOUS
  <2> QED
    BY <2>1, <2>2, <2>3 DEF OneInv
<1>3. CASE Timeout
  <2>1. toServer = <<>> /\ toClient = <<>> /\ toClient' = toClient /\ UNCHANGED clientVars
    BY <1>3 DEF Timeout, ServerTimeout, Prompt, Stalled
  <2>2. PICK k \in 0 .. Len(<<>>) : toServer' = SubSeq(<<>>, k + 1, Len(<<>>))
    BY <1>3 DEF Timeout, ServerTimeout, EndTransfer
  <2>3. Len(<<>>) = 0 /\ SubSeq(<<>>, 1, 0) = <<>>
    OBVIOUS
  <2>4. toServer' = <<>>
    BY <2>2, <2>3
  <2> QED
    BY <2>1, <2>4, OneUp
<1>4. CASE RubyWrite \/ UNCHANGED vars
  <2>1. UNCHANGED <<linkVars, clientVars>>
    BY <1>4 DEF RubyWrite, WriteOut, vars
  <2> QED
    BY <2>1, ClientSame DEF OneInv, linkVars
<1>5. CASE Loss
  <2>1. UNCHANGED clientVars /\ (LoseToServer \/ LoseToClient)
    BY <1>5 DEF Loss
  <2>2. toServer' = <<>> /\ toClient' = <<>>
    BY <2>1, SingleFacts DEF LoseToServer, LoseToClient
  <2> QED
    BY <2>2, OneUp
<1>6. ~Duplicate
  BY CalmFacts, Types DEF Duplicate, StateInv, Inv, TypeOK
<1> QED
  BY <1>1, <1>2, <1>3, <1>4, <1>5, <1>6, PollOne, StepOne, ServeOne DEF Next

LEMMA InitOne == Init => OneInv
<1> SUFFICES ASSUME Init PROVE OneInv
  OBVIOUS
<1>1. phase = "loop" /\ toServer = <<>> /\ toClient = <<>>
  BY DEF Init, ClientInit, LinkInit
<1>2. Len(<<>>) = 0
  OBVIOUS
<1> QED
  BY <1>1, <1>2 DEF OneInv

LEMMA SingleAlways == Spec /\ Prompt /\ env.dupToClient = 0 => []Single
<1> DEFINE Once == env.dupToClient = 0
<1>1. Init => OneInv
  BY InitOne
<1>2. Single /\ [Next]_vars /\ Faithful' => Once' /\ OneInv'
  <2> SUFFICES ASSUME Single, [Next]_vars, Faithful' PROVE Once' /\ OneInv'
    OBVIOUS
  <2> QED
    BY NextOne, EnvKept DEF Single
<1>3. Single <=> Faithful /\ Once /\ OneInv
  BY DEF Single
<1> HIDE DEF Once
<1>4. Spec /\ Prompt /\ Once => []Single
  BY <1>1, <1>2, <1>3, PromptAlways, PTL DEF Spec
<1> QED
  BY <1>4 DEF Once

(* The exchange is a lock-step one: unless the network repeats datagrams,  *)
(* no more than one is under way, whatever is lost, reset or broken off.   *)
THEOREM TurnsCorrect == Spec /\ Prompt /\ env.dupToClient = 0 => []OneInFlight
<1> DEFINE Once == env.dupToClient = 0
<1>1. Single => OneInFlight
  BY DEF Single, OneInv, OneInFlight
<1>2. Spec /\ Prompt /\ Once => []Single
  BY SingleAlways
<1> HIDE DEF Once
<1>3. Spec /\ Prompt /\ Once => []OneInFlight
  BY <1>1, <1>2, PTL
<1> QED
  BY <1>3 DEF Once
-----------------------------------------------------------------------------
(* Numbers *)

(* A file whose blocks, the last one included, have different numbers *)
Limit == (BlkMod - 1) * BlkSize
Short(d) == Len(d) < Limit
ShortFiles == /\ \A n \in Name : Disk0[n] # NoFile => Short(Disk0[n])
              /\ \A j \in SaveJobs : Short(j.data)

ShortInv ==
    /\ \A n \in Name : Files[n] # NoFile => Short(Files[n])
    /\ Short(file.data)
    /\ job.cmd = "save" => Short(job.data)

LEMMA LimitFacts ==
    /\ Limit \in Nat /\ Limit > 0
    /\ \A k \in BlkNum : k * BlkSize \in Nat /\ (k * BlkSize < Limit => k < BlkMod - 1)
<1> DEFINE N == BlkMod - 1
<1>1. N \in Nat /\ N > 0 /\ \A k \in BlkNum : k \in Nat /\ (k < N \/ k = N)
  BY DEF BlkMod, BlkNum
<1> HIDE DEF N
<1>2. N * BlkSize \in Nat /\ N * BlkSize > 0 /\ \A k \in Nat : k * BlkSize \in Nat
  BY <1>1, BlkSizeAssumption
<1>3. ASSUME NEW k \in BlkNum, k * BlkSize < N * BlkSize PROVE k < N
  BY <1>1, <1>2, <1>3
<1> QED
  BY <1>1, <1>2, <1>3 DEF N, Limit

(* Files only ever become copies of others, prefixes of what is saved, or  *)
(* empty: that much follows from the service the transfers implement.      *)
LEMMA ShortStep ==
    ASSUME Good, ShortInv, ShortFiles, [Service!Next]_(Service!vars)
    PROVE  ShortInv'
<1> DEFINE Sv == Service!vars
<1>1. /\ \A n \in Name : Files[n] # NoFile => Files[n] \in Seq(Byte)
      /\ Files = [n \in Name |-> Files[n]] /\ Opened.data = file.data
      /\ (job.cmd \in {"load", "save"} => job.name \in Name)
      /\ (job.cmd = "save" => job.data \in Seq(Byte))
  <2>1. \A n \in Name : Files[n] # NoFile => Files[n] \in Seq(Byte)
    <3>1. \A n \in Name : disk[n] # NoFile => disk[n] \o unwritten[n] \in Seq(Byte)
      BY FileTypes
    <3> QED
      BY <3>1 DEF Files, Stored
  <2>2. job \in {NoJob} \cup LoadJob \cup SaveJob
    BY Types DEF Good, StateInv, C64TypeOK
  <2>3. /\ (job.cmd \in {"load", "save"} => job.name \in Name)
        /\ (job.cmd = "save" => job.data \in Seq(Byte))
    BY <2>2 DEF NoJob, LoadJob, SaveJob
  <2>4. Files = [n \in Name |-> Files[n]] /\ Opened.data = file.data
    BY DEF Files, Opened
  <2> QED
    BY <2>1, <2>3, <2>4
<1>2. Limit \in Nat /\ Limit > 0
  BY LimitFacts
<1>3. \A s \in Seq(Byte) : \A m \in 0 .. Len(s) : Len(SubSeq(s, 1, m)) = m
  OBVIOUS
<1>4. ASSUME NEW F, NEW O, NEW J, Files' = F, Opened' = O, job' = J,
             \A n \in Name : F[n] # NoFile => Short(F[n]),
             Short(O.data), J.cmd = "save" => Short(J.data)
      PROVE  ShortInv'
  <2>1. Opened'.data = file'.data
    BY DEF Opened
  <2> QED
    BY <1>4, <2>1 DEF ShortInv, Short, Limit
<1>5. Short(<<>>)
  BY <1>2 DEF Short
<1>6. ASSUME UNCHANGED Sv PROVE ShortInv'
  <2>1. UNCHANGED <<Files, Opened, job>>
    BY <1>6 DEF Service!vars, Files, Opened
  <2> QED
    BY <1>1, <1>4, <2>1 DEF ShortInv
<1>7. ASSUME NEW n \in Name, Service!Load(n) PROVE ShortInv'
  <2>1. UNCHANGED <<Files, Opened>> /\ job' = [cmd |-> "load", name |-> n]
    BY <1>7 DEF Service!Load, Files, Opened
  <2> QED
    BY <1>1, <1>4, <2>1 DEF ShortInv
<1>8. ASSUME NEW j \in SaveJobs, Service!Save(j) PROVE ShortInv'
  <2>1. UNCHANGED <<Files, Opened>> /\ job' = [cmd |-> "save", name |-> j.name, data |-> j.data]
    BY <1>8 DEF Service!Save, Files, Opened
  <2> QED
    BY <1>1, <1>4, <2>1 DEF ShortInv, ShortFiles
<1>9. CASE Service!Open
  <2>1. /\ UNCHANGED <<Files, job>> /\ job.cmd = "load" /\ Files[job.name] # NoFile
        /\ \E m \in 0 .. Len(Files[job.name]) :
             Opened' = [name |-> job.name, data |-> SubSeq(Files[job.name], 1, m)]
    BY <1>9 DEF Service!Open, Service!Prefix, Files, Opened
  <2>2. PICK m \in 0 .. Len(Files[job.name]) :
             Opened' = [name |-> job.name, data |-> SubSeq(Files[job.name], 1, m)]
    BY <2>1
  <2>3. Files[job.name] \in Seq(Byte) /\ Short(Files[job.name])
    BY <1>1, <2>1 DEF ShortInv
  <2>4. Short(SubSeq(Files[job.name], 1, m))
    BY <1>2, <1>3, <2>2, <2>3 DEF Short
  <2>5. Short(Opened'.data)
    BY <2>2, <2>4
  <2> QED
    BY <1>1, <1>4, <2>1, <2>5 DEF ShortInv
<1>10. CASE Service!Replace
  <2>1. /\ Files' = [Files EXCEPT ![job.name] = <<>>] /\ job' = job
        /\ Opened' = [name |-> job.name, data |-> <<>>]
    BY <1>10 DEF Service!Replace, Files, Opened
  <2>2. \A n \in Name : Files'[n] # NoFile => Short(Files'[n])
    BY <1>1, <1>5, <2>1 DEF ShortInv
  <2>3. Short(Opened'.data)
    BY <1>5, <2>1
  <2> QED
    BY <1>1, <1>4, <2>1, <2>2, <2>3 DEF ShortInv
<1>11. CASE Service!Store
  <2>1. PICK m \in Len(Files[job.name]) .. Len(job.data) :
             Files' = [Files EXCEPT ![job.name] = SubSeq(job.data, 1, m)]
    BY <1>11 DEF Service!Store, Service!Prefix, Files
  <2>2. UNCHANGED <<Opened, job>> /\ job.cmd = "save" /\ Files[job.name] # NoFile
    BY <1>11 DEF Service!Store, Files, Opened
  <2>3. m \in 0 .. Len(job.data)
    <3>1. Len(Files[job.name]) \in Nat /\ Len(job.data) \in Nat
      BY <1>1, <2>2
    <3> QED
      BY <3>1
  <2>4. Short(SubSeq(job.data, 1, m))
    BY <1>1, <1>2, <1>3, <2>2, <2>3 DEF ShortInv, Short
  <2>5. \A n \in Name : Files'[n] # NoFile => Short(Files'[n])
    BY <1>1, <2>1, <2>4 DEF ShortInv
  <2> QED
    BY <1>1, <1>4, <2>1, <2>2, <2>5 DEF ShortInv
<1>12. CASE Service!Deliver \/ Service!EndLoad \/ Service!Complete \/ Service!EndSave \/ Service!Fail
  <2>1. UNCHANGED <<Files, Opened, job>>
    BY <1>12 DEF Service!Deliver, Service!EndLoad, Service!Complete, Service!EndSave,
                 Service!Fail, Files, Opened
  <2> QED
    BY <1>1, <1>4, <2>1 DEF ShortInv
<1> QED
  BY <1>6, <1>7, <1>8, <1>9, <1>10, <1>11, <1>12 DEF Service!Next

LEMMA InitShort == ShortFiles /\ Init => ShortInv
<1> SUFFICES ASSUME ShortFiles, Init PROVE ShortInv
  OBVIOUS
<1>1. /\ disk = Disk0 /\ unwritten = [n \in Name |-> <<>>] /\ job = NoJob /\ file.data = <<>>
  BY DEF Init, ServerInit, ClientInit
<1>2. ASSUME NEW n \in Name, Files[n] # NoFile PROVE Short(Files[n])
  <2>1. disk[n] # NoFile /\ Files[n] = disk[n] \o <<>>
    BY <1>1, <1>2 DEF Files, Stored
  <2>2. disk[n] \in Seq(Byte)
    BY <1>1, <2>1, Disk0Assumption
  <2>3. disk[n] \o <<>> = disk[n]
    BY <2>2
  <2> QED
    BY <1>1, <2>1, <2>3 DEF ShortFiles
<1>3. Short(<<>>)
  BY LimitFacts DEF Short
<1> QED
  BY <1>1, <1>2, <1>3 DEF ShortInv, NoJob

(* A number says what the datagram is about: an acknowledgement, how much  *)
(* the daemon has sent or the client is to go on after; a block, which one *)
(* of the file it is.                                                      *)
NumberInv ==
    /\ Asked("ACK") => SentBlocks(Head(toServer).blk)
    /\ Asked("RRQ") \/ Asked("WRQ") => toClient = <<>>
    /\ \A p \in Arriving : p.type = "DATA" => p.blk # 0 /\ p.data = Chunk(p.blk)
    /\ Asked("DATA") => LET h == Head(toServer) IN
                        /\ h.blk # 0
                        /\ h.data = BlockOf(job.data, h.blk)
                        /\ Saving => Sent = h.blk * BlkSize
    /\ Saving => /\ tftp_clear_to_send =>
                      tftp_blknum = tftp_lastblk /\ Sent = tftp_lastblk * BlkSize
                 /\ \A p \in Arriving : Answer(p) => Sent = p.blk * BlkSize

Numbered == Faithful /\ ShortInv /\ NumberInv

(* The daemon's blocks are those of the file. *)
LEMMA ChunkIsBlock ==
    ASSUME Good, NEW k \in Nat, k # 0
    PROVE  Chunk(k) = BlockOf(file.data, k)
<1> DEFINE m == (k - 1) * BlkSize
           n == k * BlkSize
           L == Len(file.data)
           u == IF m <= L THEN m ELSE L
           v == IF n <= L THEN n ELSE L
           w == IF n < L THEN n ELSE L
<1>1. /\ m \in Nat /\ n \in Nat /\ n = m + BlkSize /\ BlkSize \in Nat
      /\ L \in Nat /\ file.data \in Seq(Byte)
  BY Times, Sizes, GoodTypes
<1>2. /\ Chunk(k) = SubSeq(file.data, u + 1, v)
      /\ BlockOf(file.data, k) = SubSeq(file.data, m + 1, w)
  BY DEF Chunk, Reached, BlockOf
<1> HIDE DEF m, n
<1>3. v = w /\ (m <= L => u = m) /\ (~(m <= L) => u = L /\ w = L)
  BY <1>1
<1>4. ~(m <= L) => SubSeq(file.data, L + 1, L) = <<>> /\ SubSeq(file.data, m + 1, L) = <<>>
  BY <1>1
<1> HIDE DEF L, u, v, w
<1> QED
  BY <1>2, <1>3, <1>4

(* So are those that recv_file sends: a full one, or what is left. *)
LEMMA SentBlock ==
    ASSUME NEW S, NEW d \in Seq(S), NEW k \in Nat, NEW n \in 0 .. BlkSize,
           k * BlkSize + n <= Len(d), n = BlkSize \/ k * BlkSize + n = Len(d)
    PROVE  SubSeq(d, k * BlkSize + 1, k * BlkSize + n) = BlockOf(d, k + 1)
<1> DEFINE u == k * BlkSize
           v == (k + 1) * BlkSize
<1>1. u \in Nat /\ v = u + BlkSize /\ BlkSize \in Nat /\ Len(d) \in Nat
  BY Sizes
<1>2. BlockOf(d, k + 1) = SubSeq(d, u + 1, IF v < Len(d) THEN v ELSE Len(d))
  <2>1. (k + 1) - 1 = k
    OBVIOUS
  <2> QED
    BY <2>1 DEF BlockOf
<1> HIDE DEF u, v
<1>3. u + n <= Len(d) /\ (n = BlkSize \/ u + n = Len(d))
  BY DEF u
<1>4. (IF v < Len(d) THEN v ELSE Len(d)) = u + n
  BY <1>1, <1>3
<1> QED
  BY <1>2, <1>4 DEF u

(* No number wraps around. *)
LEMMA NoWrap ==
    ASSUME NEW k \in BlkNum, NEW n \in Nat, k * BlkSize <= n, n < Limit
    PROVE  NextBlk(k) = k + 1 /\ NextBlk(k) # 0 /\ k + 1 \in BlkNum
<1>1. k * BlkSize < Limit
  BY LimitFacts
<1>2. k < BlkMod - 1
  BY <1>1, LimitFacts
<1>3. k \in Nat /\ NextBlk(k) = k + 1
  BY <1>2, NumberFacts DEF BlkMod
<1>4. k + 1 # 0
  BY <1>3
<1>5. k + 1 \in BlkNum
  <2>1. NextBlk(k) \in BlkNum
    BY NextBlkType
  <2> QED
    BY <1>3, <2>1
<1> QED
  BY <1>3, <1>4, <1>5

(* Nothing new is under way, and recv_file stands where it stood, or has   *)
(* received a repeat, or the acknowledgement it waits for.                 *)
LEMMA NothingNewNumber ==
    ASSUME Numbered,
           UNCHANGED <<file, job, status, last_packet, send_empty>>,
           toServer' \in {toServer, <<>>}, Arriving' \subseteq Arriving,
           toClient = <<>> => toClient' = <<>>,
           Saving' =>
             /\ Saving /\ Sent' = Sent
             /\ \/ /\ UNCHANGED <<tftp_clear_to_send, tftp_lastblk>>
                   /\ tftp_blknum' \in {tftp_blknum, tftp_lastblk}
                \/ /\ AllOld'
                   /\ tftp_clear_to_send' =>
                        tftp_blknum' = tftp_lastblk' /\ Sent' = tftp_lastblk' * BlkSize
    PROVE  NumberInv'
<1>1. \A k : Chunk(k)' = Chunk(k) /\ (SentBlocks(k)' <=> SentBlocks(k))
  BY SameBlocks
<1>2. \A type : Asked(type)' => Asked(type) /\ toServer' = toServer
  BY DEF Asked
<1>3. Asked("ACK")' => SentBlocks(Head(toServer).blk)'
  BY <1>2 DEF Numbered, NumberInv, SentBlocks, Over, Reached
<1>4. /\ Asked("RRQ")' \/ Asked("WRQ")' => toClient' = <<>>
      /\ \A p \in Arriving' : p.type = "DATA" => p.blk # 0 /\ p.data = Chunk(p.blk)'
  BY <1>1, <1>2 DEF Numbered, NumberInv
<1>5. Asked("DATA")' => LET h == Head(toServer') IN
                        /\ h.blk # 0
                        /\ h.data = BlockOf(job'.data, h.blk)
                        /\ Saving' => Sent' = h.blk * BlkSize
  BY <1>2 DEF Numbered, NumberInv
<1>6. Saving' => /\ tftp_clear_to_send' =>
                      tftp_blknum' = tftp_lastblk' /\ Sent' = tftp_lastblk' * BlkSize
                 /\ \A p \in Arriving' : Answer(p)' => Sent' = p.blk * BlkSize
  BY DEF Numbered, NumberInv, Answer, Old, AllOld
<1> QED
  BY <1>3, <1>4, <1>5, <1>6 DEF NumberInv

LEMMA CommandNumber ==
    ASSUME Numbered, Command
    PROVE  NumberInv'
<1> USE DEF Numbered, Faithful
<1> QED
  BY CommandFacts DEF NumberInv

(* Polls outside of a LOAD *)
LEMMA PollNumber ==
    ASSUME Numbered, LoopProbe \/ RecvProbe \/ PutProbe, Probe, UNCHANGED serverVars
    PROVE  NumberInv'
<1> USE DEF Numbered, Faithful, Good
<1> DEFINE p == Head(toClient)
<1>1. /\ InLoop /\ Saving' = Saving /\ Sent' = Sent /\ tftp_blknum' = p.blk /\ tftp_lastblk' = p.blk
      /\ UNCHANGED <<file, job, status, last_packet, send_empty>>
  BY DEF LoopProbe, RecvProbe, PutProbe, InLoop, Loading, Saving, Sent, loopVars, c64Vars,
         serverVars, objectVars, deviceVars, Probe, tftp_recv_packet
<1>2. /\ toServer' = toServer
      /\ p \in Arriving /\ Arriving' \subseteq Arriving
      /\ \/ Old(p) /\ UNCHANGED <<tftp_clear_to_send, tftp_lastblk>>
         \/ /\ ~Old(p) /\ AllOld'
            /\ tftp_clear_to_send' => tftp_clear_to_send \/ p.type \in {"ACK", "OACK"}
  BY <1>1, PollFacts
<1>3. toClient # <<>>
  BY DEF Probe
<1> HIDE DEF p
<1>4. Saving /\ ~Old(p) => (tftp_clear_to_send' => Sent' = p.blk * BlkSize)
  <2>1. Saving /\ ~Old(p) => ~tftp_clear_to_send
    BY <1>2 DEF ServiceInv, SaveInv, StoreInv, JobInv, AllOld
  <2> QED
    BY <1>1, <1>2, <2>1 DEF NumberInv, Answer
<1> QED
  BY <1>1, <1>2, <1>3, <1>4, NothingNewNumber

LEMMA GetProbeNumber ==
    ASSUME Numbered, GetProbe, UNCHANGED serverVars
    PROVE  NumberInv'
<1> USE DEF Numbered, Faithful, Good
<1> DEFINE p == Head(toClient)
<1>1. /\ Loading /\ ~Saving' /\ toClient # <<>>
      /\ UNCHANGED <<file, job, status, last_packet, send_empty>>
  BY DEF GetProbe, Probe, Loading, Saving, c64Vars, serverVars, objectVars, deviceVars
<1>2. CASE toServer' = toServer
  BY <1>1, <1>2, GetProbeFacts, NothingNewNumber
<1>3. CASE toServer' # toServer
  <2>1. /\ toServer = <<>> /\ toServer' = Append(toServer, ACK(0))
        /\ p.type = "OACK" /\ ~Old(p) /\ p \in Arriving /\ Arriving' \subseteq Arriving
    BY <1>3, GetProbeFacts
  <2>2. SentBlocks(0)
    BY <1>1, <2>1 DEF ServiceInv, LoadInv, ReplyInv
  <2>3. SentBlocks(0)'
    BY <1>1, <2>2, SameBlocks
  <2>4. Head(toServer') = ACK(0)
    BY <2>1, SentOne
  <2>5. \A q \in Arriving' : q.type = "DATA" => q.blk # 0 /\ q.data = Chunk(q.blk)'
    BY <1>1, <2>1, SameBlocks DEF NumberInv
  <2>6. /\ Head(toServer').blk = 0
        /\ ~Asked("RRQ")' /\ ~Asked("WRQ")' /\ ~Asked("DATA")'
    BY <2>4 DEF Asked, ACK
  <2>7. SentBlocks(Head(toServer).blk)'
    BY <2>3, <2>6 DEF SentBlocks, Reached
  <2> QED
    BY <1>1, <2>5, <2>6, <2>7 DEF NumberInv
<1> QED
  BY <1>2, <1>3

(* The client goes on without a packet. *)
LEMMA ReturnFacts ==
    ASSUME Good,
           \/ GetError \/ GetNothing \/ SendBlock \/ RecvByte \/ RecvAbort \/ SetupDone
           \/ RecvProbe /\ UNCHANGED <<linkVars, tftpVars>>
    PROVE  /\ UNCHANGED <<linkVars, tftpVars, job>>
           /\ Saving' => Saving /\ Sent' = Sent
           /\ outcome' = outcome \/ outcome' # "saved"
<1>1. /\ UNCHANGED <<linkVars, tftpVars, job>>
      /\ Saving' => Saving
      /\ outcome' = outcome \/ outcome' # "saved"
  BY DEF GetError, GetNothing, SendBlock, RecvByte, RecvAbort, SetupDone, RecvProbe, Saving, c64Vars
<1>2. Saving' => Sent' = Sent
  <2>1. CASE RecvByte
    <3>1. phase = "byte" /\ phase' # "putEmpty" /\ given' = given + 1 /\ a' = a + 1
      BY <2>1 DEF RecvByte
    <3>2. given \in Nat /\ a \in 0 .. BlkSize /\ BlkSize \in Nat
      BY Types, Sizes DEF Good, StateInv, Inv, LoopTypeOK, C64TypeOK
    <3>3. Sent = given - a /\ Sent' = (given + 1) - (a + 1)
      BY <3>1 DEF Sent
    <3> QED
      BY <3>2, <3>3
  <2>2. CASE ~RecvByte
    BY <2>2 DEF GetError, GetNothing, SendBlock, RecvAbort, SetupDone, RecvProbe, Saving, Sent,
                c64Vars
  <2> QED
    BY <2>1, <2>2
<1> QED
  BY <1>1, <1>2

LEMMA ReturnNumber ==
    ASSUME Numbered, UNCHANGED serverVars,
           \/ GetError \/ GetNothing \/ SendBlock \/ RecvByte \/ RecvAbort \/ SetupDone
           \/ RecvProbe /\ UNCHANGED <<linkVars, tftpVars>>
    PROVE  NumberInv'
<1> USE DEF Numbered, Faithful
<1>1. /\ UNCHANGED <<linkVars, tftpVars, job>>
      /\ Saving' => Saving /\ Sent' = Sent
  BY ReturnFacts
<1>2. UNCHANGED <<toServer, toClient, file, status, last_packet, send_empty,
                  tftp_clear_to_send, tftp_blknum, tftp_lastblk>>
  BY <1>1 DEF linkVars, tftpVars, serverVars, objectVars, deviceVars
<1> QED
  BY <1>1, <1>2, Kept, NothingNewNumber

LEMMA GetBlockNumber ==
    ASSUME Numbered, GetBlock, UNCHANGED serverVars
    PROVE  NumberInv'
<1> USE DEF Numbered, Faithful, Good
<1>1. /\ phase = "block" /\ ~tftp_error /\ Loading /\ ~Saving'
      /\ toServer' = Append(toServer, ACK(tftp_blknum))
      /\ UNCHANGED <<toClient, file, job, status, last_packet, send_empty>>
  BY DEF GetBlock, tftp_get_block, Loading, Saving, c64Vars, serverVars, objectVars, deviceVars
<1>2. Fresh /\ tftp_blknum = tftp_lastgot + 1
  BY GetBlockNext
<1>3. toServer = <<>> /\ SentBlocks(tftp_blknum)
  BY <1>1, <1>2 DEF ServiceInv, LoadInv, Received
<1> PICK k : k = tftp_blknum
  OBVIOUS
<1>4. Head(toServer') = ACK(k)
  BY <1>1, <1>3, SentOne
<1>5. /\ Head(toServer').blk = k
      /\ ~Asked("RRQ")' /\ ~Asked("WRQ")' /\ ~Asked("DATA")'
  BY <1>4 DEF Asked, ACK
<1>6. SentBlocks(Head(toServer).blk)'
  BY <1>1, <1>3, <1>5 DEF SentBlocks, Over, Reached
<1>7. \A q \in Arriving' : q.type = "DATA" => q.blk # 0 /\ q.data = Chunk(q.blk)'
  BY <1>1, Kept, SameBlocks DEF NumberInv
<1> QED
  BY <1>1, <1>5, <1>6, <1>7 DEF NumberInv

(* tftp_put_block is given what was collected since the last block. *)
LEMMA PutFacts ==
    ASSUME Faithful, PutBlock \/ PutEmpty
    PROVE  \E n \in 0 .. BlkSize :
             /\ tftp_put_block(n)
             /\ Slice(iobuf, 0, n) = SubSeq(job.data, Sent + 1, Sent + n)
             /\ Sent \in Nat /\ job.data \in Seq(Byte) /\ Sent + n <= Len(job.data)
             /\ n = BlkSize \/ Sent + n = Len(job.data)
             /\ phase' # "loop" => n = BlkSize /\ Sent' = Sent + n
             /\ phase' = "loop" => n # BlkSize
             /\ phase' \in {"putEmpty", "recv", "loop"}
<1> USE DEF Faithful, Good, ServiceInv
<1>1. Saving /\ CollectInv /\ job.cmd = "save" /\ BlkSize \in Nat
  BY Sizes DEF PutBlock, PutEmpty, Saving, SaveInv, JobInv
<1>2. CASE PutBlock
  <2>1. /\ phase = "put" /\ tftp_put_block(a) /\ UNCHANGED <<given, eoi>>
        /\ phase' = "putEmpty" => eoi /\ a = BlkSize /\ a' = a
        /\ phase' = "recv" => a' = 0 /\ ~eoi
        /\ phase' \in {"loop", "recv", "putEmpty"}
        /\ phase' = "loop" => a # BlkSize
    BY <1>2 DEF PutBlock
  <2>2. /\ given \in Nat /\ a \in 0 .. BlkSize /\ a <= given /\ Sent = given - a
        /\ job.data \in Seq(Byte) /\ given <= Len(job.data)
        /\ Slice(iobuf, 0, a) = SubSeq(job.data, Sent + 1, Sent + a)
    BY <1>1, <2>1, Collected
  <2>3. (eoi => given = Len(job.data)) /\ (eoi \/ a = BlkSize)
    BY <1>1, <2>1 DEF CollectInv, PromptInv
  <2>4. Sent \in Nat /\ Sent + a = given
    BY <1>1, <2>2
  <2>5. phase' # "loop" => Sent' = Sent + a /\ a = BlkSize
    BY <1>1, <2>1, <2>2, <2>3 DEF Sent
  <2> QED
    BY <2>1, <2>2, <2>3, <2>4, <2>5
<1>3. CASE PutEmpty
  <2>1. phase = "putEmpty" /\ tftp_put_block(0) /\ phase' = "loop" /\ Sent = given
    BY <1>3 DEF PutEmpty, Sent
  <2>2. given = Len(job.data)
    BY <1>1, <2>1 DEF CollectInv
  <2>3. job.data \in Seq(Byte)
    <3>1. job \in {NoJob} \cup LoadJob \cup SaveJob
      BY Types DEF StateInv, C64TypeOK
    <3> QED
      BY <1>1, <3>1 DEF NoJob, LoadJob, SaveJob
  <2>4. Slice(iobuf, 0, 0) = <<>>
    BY DEF Slice
  <2>5. SubSeq(job.data, Sent + 1, Sent + 0) = <<>>
    BY <2>1, <2>2, <2>3
  <2>6. Sent \in Nat /\ Sent + 0 = Len(job.data) /\ 0 \in 0 .. BlkSize /\ 0 # BlkSize
    BY <2>1, <2>2, <2>3, Sizes
  <2>7. Slice(iobuf, 0, 0) = SubSeq(job.data, Sent + 1, Sent + 0)
    BY <2>4, <2>5
  <2>8. Len(job.data) \in Nat /\ Sent + 0 <= Len(job.data)
    BY <2>3, <2>6
  <2> QED
    BY <2>1, <2>3, <2>6, <2>7, <2>8
<1> QED
  BY <1>2, <1>3

LEMMA PutNumber ==
    ASSUME Numbered, PutBlock \/ PutEmpty, UNCHANGED serverVars
    PROVE  NumberInv'
<1> USE DEF Numbered, Faithful, Good
<1> PICK n \in 0 .. BlkSize :
             /\ tftp_put_block(n)
             /\ Slice(iobuf, 0, n) = SubSeq(job.data, Sent + 1, Sent + n)
             /\ Sent \in Nat /\ job.data \in Seq(Byte) /\ Sent + n <= Len(job.data)
             /\ n = BlkSize \/ Sent + n = Len(job.data)
             /\ phase' # "loop" => n = BlkSize /\ Sent' = Sent + n
             /\ phase' \in {"putEmpty", "recv", "loop"}
  BY PutFacts
<1> DEFINE x == DATA(NextBlk(tftp_blknum), Slice(iobuf, 0, n))
<1>1. /\ Saving /\ tftp_clear_to_send /\ ~tftp_clear_to_send'
      /\ toServer' = Append(toServer, x)
      /\ Saving' => phase' # "loop"
      /\ UNCHANGED <<toClient, tftp_lastblk, file, job, status, last_packet, send_empty>>
  BY DEF PutBlock, PutEmpty, tftp_put_block, Saving, serverVars, objectVars, deviceVars
<1>2. toServer = <<>> /\ AllOld /\ job.cmd = "save"
  BY <1>1 DEF ServiceInv, SaveInv, StoreInv, JobInv
<1>3. PICK k \in BlkNum : k = tftp_blknum /\ Sent = k * BlkSize
  BY <1>1, GoodTypes DEF NumberInv
<1>4. /\ k \in Nat /\ k + 1 \in Nat /\ (k + 1) * BlkSize = k * BlkSize + BlkSize
      /\ k * BlkSize \in Nat /\ Len(job.data) \in Nat /\ Len(job.data) < Limit
  <2>1. k \in Nat
    BY NumberFacts
  <2>2. k + 1 \in Nat /\ (k + 1) * BlkSize = k * BlkSize + BlkSize /\ k * BlkSize \in Nat
    BY <2>1, Sizes
  <2>3. Len(job.data) \in Nat /\ Len(job.data) < Limit
    BY <1>2 DEF ShortInv, Short
  <2> QED
    BY <2>1, <2>2, <2>3
<1>5. NextBlk(k) = k + 1 /\ NextBlk(k) # 0
  <2>1. k * BlkSize <= Len(job.data)
    BY <1>3, <1>4, Sizes
  <2> QED
    BY <1>4, <2>1, NoWrap
<1>6. SubSeq(job.data, Sent + 1, Sent + n) = BlockOf(job.data, k + 1)
  BY <1>3, <1>4, SentBlock
<1>7. Head(toServer') = x
  BY <1>1, <1>2, SentOne
<1>8. x.type = "DATA" /\ x.blk = k + 1 /\ x.data = BlockOf(job.data, k + 1)
  BY <1>3, <1>5, <1>6 DEF DATA
<1> HIDE DEF x
<1>9. ~Asked("RRQ")' /\ ~Asked("WRQ")' /\ ~Asked("ACK")'
  BY <1>7, <1>8 DEF Asked
<1>10. Arriving' = Arriving /\ \A q \in Arriving' : ~Answer(q)'
  BY <1>1, <1>2, Kept DEF Answer, AllOld, Old
<1>11. \A q \in Arriving' : q.type = "DATA" => q.blk # 0 /\ q.data = Chunk(q.blk)'
  BY <1>1, <1>10, SameBlocks DEF NumberInv
<1>12. Saving' => Sent' = (k + 1) * BlkSize
  BY <1>1, <1>3, <1>4
<1>13. LET h == Head(toServer') IN
         /\ h.blk # 0
         /\ h.data = BlockOf(job'.data, h.blk)
         /\ Saving' => Sent' = h.blk * BlkSize
  BY <1>1, <1>5, <1>7, <1>8, <1>12
<1> QED
  BY <1>1, <1>9, <1>10, <1>11, <1>13 DEF NumberInv

LEMMA ResetNumber ==
    ASSUME Numbered, ClientReset \/ SetupDrop, UNCHANGED serverVars
    PROVE  NumberInv'
<1>1. /\ UNCHANGED <<toServer, job, file, status, last_packet, send_empty>> /\ ~Saving'
      /\ toClient = <<>> => toClient' = <<>>
  BY DEF ClientReset, SetupDrop, Saving, clientVars, loopVars, c64Vars, serverVars, objectVars,
         deviceVars
<1>2. Arriving' \subseteq Arriving
  <2>1. CASE ClientReset
    BY <2>1, Emptied DEF ClientReset
  <2>2. CASE SetupDrop
    BY <2>2, GoodTypes, ArriveTail DEF Numbered, Faithful, SetupDrop
  <2> QED
    BY <2>1, <2>2
<1> QED
  BY <1>1, <1>2, NothingNewNumber

(* The daemon *)

LEMMA AnsweredNumber ==
    ASSUME Numbered, Serve, UNCHANGED <<tftp_blknum, job>>, file'.data = file.data,
           \/ toClient' = toClient
           \/ \E x : /\ toClient' = Append(toClient, x)
                     /\ x.type = "DATA" => x.blk # 0 /\ x.data = Chunk(x.blk)
                     /\ Saving => Sent = x.blk * BlkSize
    PROVE  NumberInv'
<1> USE DEF Numbered, Faithful
<1>1. \A k : Chunk(k)' = Chunk(k)
  BY DEF Chunk, Reached
<1>2. \A p \in Arriving : p.blk = tftp_lastblk
  BY ServeFacts DEF AllOld, Old
<1>3. \A p \in Arriving' :
        /\ p.type = "DATA" => p.blk # 0 /\ p.data = Chunk(p.blk)
        /\ Saving => p.blk = tftp_lastblk \/ Sent = p.blk * BlkSize
  <2>1. CASE toClient' = toClient
    BY <1>2, <2>1, Kept DEF NumberInv
  <2>2. ASSUME NEW x, toClient' = Append(toClient, x),
               x.type = "DATA" => x.blk # 0 /\ x.data = Chunk(x.blk),
               Saving => Sent = x.blk * BlkSize
        PROVE  \A p \in Arriving' :
                 /\ p.type = "DATA" => p.blk # 0 /\ p.data = Chunk(p.blk)
                 /\ Saving => p.blk = tftp_lastblk \/ Sent = p.blk * BlkSize
    <3>1. Arriving' = Arriving \cup {x}
      BY <2>2, ArriveNew, GoodTypes
    <3> QED
      BY <1>2, <2>2, <3>1 DEF NumberInv
  <2> QED
    BY <2>1, <2>2
<1> QED
  BY <1>1, <1>3, ServeFacts DEF NumberInv, Answer, Old

LEMMA ServeNumber ==
    ASSUME Numbered, Serve
    PROVE  NumberInv'
<1> USE DEF Numbered, Faithful, Good
<1>0. /\ Saving => job.cmd = "save"
      /\ UNCHANGED <<tftp_blknum, job>>
      /\ 0 * BlkSize = 0
  BY ServeFacts, Sizes DEF ServiceInv, JobInv
<1>1. CASE ServeRrq \/ ServeWrq
  <2>1. toClient = <<>>
    BY <1>1 DEF ServeRrq, ServeWrq, Asked, NumberInv
  <2>2. Saving => Sent = 0 * BlkSize \/ ServeRrq
    BY <1>0, <1>1 DEF ServiceInv, SaveInv, StoreInv, ServeWrq, Asked
  <2>3. ServeRrq => ~Saving
    BY <1>0 DEF ServiceInv, JobInv, ServeRrq, Asked
  <2> PICK x : /\ toClient' = Append(toClient, x)
               /\ x.type = "ERR" \/ (x.type = "OACK" /\ x.blk = 0)
    BY <1>1 DEF ServeRrq, ServeWrq, Reply
  <2>4. Arriving = {} /\ Arriving' = Arriving \cup {x}
    <3>1. Arriving' = Arriving \cup {x}
      BY ArriveNew, GoodTypes
    <3>2. DOMAIN <<>> = {}
      OBVIOUS
    <3> QED
      BY <2>1, <3>1, <3>2 DEF Arriving
  <2> QED
    BY <2>2, <2>3, <2>4, ServeFacts DEF NumberInv, Answer
<1>2. CASE ServeAck
  <2>1. Asked("ACK") /\ ~Saving
    BY <1>0, <1>2 DEF ServiceInv, JobInv, ServeAck, Asked
  <2>2. CASE UNCHANGED toClient
    <3>1. file'.data = file.data
      BY <1>2, <2>2, GoodTypes DEF ServeAck, CloseFile, Crash, deviceVars, FileHandle, SendData
    <3> QED
      BY <1>0, <2>2, <3>1, AnsweredNumber
  <2>3. ASSUME status # "idle", ~last_packet, SendData(NextBlk(Head(toServer).blk))
        PROVE NumberInv'
    <3>1. PICK n \in BlkNum : n = Head(toServer).blk
      BY <2>1, HeadIn, GoodTypes DEF Asked, CleanRequest, ServerPacket, Request, AckPacket, DataPacket
    <3>2. SentBlocks(n) /\ ~Over
      BY <1>2, <2>1, <2>3, <3>1 DEF NumberInv, Over, ServeAck
    <3>3. NextBlk(n) = n + 1 /\ NextBlk(n) # 0
      <4>1. n * BlkSize <= Len(file.data) /\ Len(file.data) < Limit /\ Len(file.data) \in Nat
        BY <3>2, GoodTypes DEF SentBlocks, ShortInv, Short
      <4> QED
        BY <4>1, NoWrap
    <3>4. toClient' = Append(toClient, Reply("DATA", NextBlk(n), Chunk(n + 1)))
      BY <2>3, <3>1, <3>2, SendDataNext
    <3>5. file'.data = file.data
      BY <2>3, GoodTypes DEF SendData, FileHandle
    <3> DEFINE x == Reply("DATA", NextBlk(n), Chunk(n + 1))
    <3>6. x.type = "DATA" /\ x.blk # 0 /\ x.data = Chunk(x.blk)
      BY <3>3 DEF Reply
    <3> QED
      BY <1>0, <2>1, <3>4, <3>5, <3>6, AnsweredNumber
  <2> QED
    BY <1>2, <2>2, <2>3 DEF ServeAck, Crash
<1>3. CASE ServeData
  <2>1. CASE Crash
    BY <1>0, <2>1, AnsweredNumber DEF Crash, deviceVars
  <2>2. CASE ~Crash
    <3>1. /\ toClient' = Append(toClient, Reply("ACK", Head(toServer).blk, <<>>))
          /\ file'.data = file.data
      BY <1>3, <2>2, ServeDataStores DEF Serve
    <3>2. Asked("DATA")
      BY <1>3 DEF ServeData, Asked
    <3> DEFINE x == Reply("ACK", Head(toServer).blk, <<>>)
    <3>3. x.type = "ACK" /\ (Saving => Sent = x.blk * BlkSize)
      BY <3>2 DEF Reply, NumberInv
    <3> QED
      BY <1>0, <3>1, <3>3, AnsweredNumber
  <2> QED
    BY <2>1, <2>2
<1> QED
  BY <1>1, <1>2, <1>3 DEF Serve

LEMMA NextNumber ==
    ASSUME Numbered, [Next]_vars, PromptInv'
    PROVE  NumberInv'
<1> USE DEF Numbered, Faithful
<1>1. CASE Command
  BY <1>1, CommandNumber
<1>2. CASE Poll
  <2>1. CASE RecvProbe
    BY <1>2, <2>1, PollNumber, ReturnNumber DEF Poll, RecvProbe
  <2>2. CASE LoopProbe \/ PutProbe
    BY <1>2, <2>2, PollNumber DEF Poll, LoopProbe, PutProbe
  <2>3. CASE GetProbe
    BY <1>2, <2>3, GetProbeNumber DEF Poll
  <2> QED
    BY <1>2, <2>1, <2>2, <2>3 DEF Poll
<1>3. CASE LoadStep
  BY <1>3, ReturnNumber, GetBlockNumber DEF LoadStep
<1>4. CASE SaveStep
  BY <1>4, ReturnNumber, PutNumber DEF SaveStep
<1>5. CASE Abort
  BY <1>5, ReturnNumber DEF Abort
<1>6. CASE Reset
  BY <1>6, ResetNumber DEF Reset
<1>7. CASE Setup
  BY <1>7, ResetNumber, ReturnNumber DEF Setup
<1>8. CASE Serve
  BY <1>8, ServeNumber
<1>9. CASE Timeout
  <2>1. toClient = <<>> /\ toClient' = toClient /\ UNCHANGED clientVars
    BY <1>9 DEF Timeout, ServerTimeout, Prompt, Stalled
  <2>2. toServer' = <<>>
    <3>1. PICK k \in 0 .. Len(<<>>) : toServer' = SubSeq(<<>>, k + 1, Len(<<>>))
      BY <1>9 DEF Timeout, ServerTimeout, EndTransfer
    <3>2. Len(<<>>) = 0 /\ SubSeq(<<>>, 1, 0) = <<>>
      OBVIOUS
    <3> QED
      BY <3>1, <3>2
  <2>3. Arriving' = {}
    BY <2>1, Emptied
  <2>4. Saving' = Saving /\ Sent' = Sent
        /\ UNCHANGED <<tftp_clear_to_send, tftp_lastblk, tftp_blknum>>
    BY <2>1, ClientSame DEF clientVars, tftpVars
  <2> QED
    BY <2>1, <2>2, <2>3, <2>4 DEF NumberInv, Asked
<1>10. CASE RubyWrite \/ UNCHANGED vars \/ Loss \/ (Duplicate /\ DuplicateToClient)
  <2>1. /\ UNCHANGED clientVars
        /\ UNCHANGED <<file, status, last_packet, send_empty>>
    BY <1>10 DEF RubyWrite, WriteOut, Loss, Duplicate, vars, serverVars, objectVars, deviceVars
  <2>2. /\ UNCHANGED <<job, tftp_clear_to_send, tftp_lastblk, tftp_blknum>>
        /\ Saving' = Saving /\ Sent' = Sent
    BY <2>1, ClientSame DEF clientVars, tftpVars
  <2>3. /\ toServer' \in {toServer, <<>>} /\ Arriving' \subseteq Arriving
        /\ toClient = <<>> => toClient' = <<>>
    <3>1. CASE RubyWrite \/ UNCHANGED vars
      BY <3>1, Kept DEF RubyWrite, WriteOut, vars, linkVars
    <3>2. CASE LoseToServer
      BY <3>2, Kept, GoodTypes DEF LoseToServer, TurnInv
    <3>3. CASE LoseToClient
      BY <3>3, ArriveTail, GoodTypes DEF LoseToClient
    <3>4. CASE DuplicateToClient
      BY <3>4, ArriveAgain, GoodTypes DEF DuplicateToClient
    <3> QED
      BY <1>10, <3>1, <3>2, <3>3, <3>4 DEF Loss
  <2> QED
    BY <2>1, <2>2, <2>3, NothingNewNumber
<1>11. ~(Duplicate /\ DuplicateToServer) /\ (Duplicate => DuplicateToClient)
  BY CalmFacts DEF Duplicate, DuplicateToClient, DuplicateToServer
<1> QED
  BY <1>1, <1>2, <1>3, <1>4, <1>5, <1>6, <1>7, <1>8, <1>9, <1>10, <1>11 DEF Next

LEMMA InitNumber == Init => NumberInv
<1> SUFFICES ASSUME Init PROVE NumberInv
  OBVIOUS
<1>1. phase = "loop" /\ toServer = <<>> /\ toClient = <<>>
  BY DEF Init, ClientInit, LinkInit
<1>2. Arriving = {}
  <2>1. DOMAIN <<>> = {}
    OBVIOUS
  <2> QED
    BY <1>1, <2>1 DEF Arriving
<1> QED
  BY <1>1, <1>2 DEF NumberInv, Asked, Saving

LEMMA NumberedAlways == ShortFiles => (Spec /\ Prompt => []Numbered)
<1> SUFFICES ASSUME ShortFiles PROVE Spec /\ Prompt => []Numbered
  OBVIOUS
<1>1. Init => ShortInv /\ NumberInv
  BY InitShort, InitNumber
<1>2. Numbered /\ [Next]_vars /\ Faithful' => ShortInv' /\ NumberInv'
  <2> SUFFICES ASSUME Numbered, [Next]_vars, Faithful' PROVE ShortInv' /\ NumberInv'
    OBVIOUS
  <2>1. ShortInv'
    BY ServiceStep, ShortStep DEF Numbered, Faithful
  <2> QED
    BY <2>1, NextNumber DEF Faithful
<1>3. Numbered <=> Faithful /\ ShortInv /\ NumberInv
  BY DEF Numbered
<1> QED
  BY <1>1, <1>2, <1>3, PromptAlways, PTL DEF Spec

(* "Valid TFTP traffic": the datagram with DATA n carries the n-th block   *)
(* of the file, in both directions, for files short enough that no number  *)
(* comes twice.                                                            *)
THEOREM NumbersCorrect == ShortFiles => (Spec /\ Prompt => []ValidNumbering)
<1> SUFFICES ASSUME ShortFiles PROVE Spec /\ Prompt => []ValidNumbering
  OBVIOUS
<1>1. Numbered => ValidNumbering
  <2> SUFFICES ASSUME Numbered PROVE ValidNumbering
    OBVIOUS
  <2> USE DEF Numbered, Faithful
  <2>1. ASSUME NEW i \in DOMAIN toClient, toClient[i].type = "DATA"
        PROVE  /\ toClient[i].blk > 0
               /\ toClient[i].data = BlockOf(file.data, toClient[i].blk)
    <3> DEFINE p == toClient[i]
    <3>1. p \in Arriving
      BY DEF Arriving
    <3>2. p.blk \in BlkNum /\ p.blk # 0 /\ p.data = Chunk(p.blk)
      BY <2>1, <3>1, GoodTypes DEF NumberInv
    <3>3. p.blk \in Nat /\ p.blk > 0
      BY <3>2, NumberFacts
    <3> HIDE DEF p
    <3>4. p.data = BlockOf(file.data, p.blk)
      BY <3>2, <3>3, ChunkIsBlock
    <3> QED
      BY <3>3, <3>4 DEF p
  <2>2. ASSUME NEW i \in DOMAIN toServer, toServer[i].type = "DATA"
        PROVE  /\ toServer[i].blk > 0
               /\ toServer[i].data = BlockOf(job.data, toServer[i].blk)
    <3>1. toServer[i] = Head(toServer) /\ toServer # <<>> /\ Head(toServer) \in CleanRequest
      BY GoodTypes DEF TurnInv
    <3>2. Asked("DATA") /\ Head(toServer).blk \in BlkNum
      BY <2>2, <3>1 DEF Asked, CleanRequest, ServerPacket, Request, AckPacket, DataPacket
    <3>3. Head(toServer).blk # 0 /\ Head(toServer).data = BlockOf(job.data, Head(toServer).blk)
      BY <3>2 DEF NumberInv
    <3>4. Head(toServer).blk > 0
      BY <3>2, <3>3, NumberFacts
    <3> QED
      BY <3>1, <3>3, <3>4
  <2> QED
    BY <2>1, <2>2 DEF ValidNumbering
<1> QED
  BY <1>1, NumberedAlways, PTL
-----------------------------------------------------------------------------
(* The end of a SAVE *)

(* packet_data will recognise the last block of such a file. *)
Closes(d) ==
    \A q \in Nat, n \in 0 .. BlkSize - 1 : Len(d) = q * BlkSize + n => HdrLen + n < BlkSize

(* Nothing is lost, and every file that may be saved ends with a block that*)
(* the daemon recognises.                                                  *)
Certain == Prompt /\ ~env.loss /\ \A j \in env.jobs : Closes(j.data)

(* A SAVE sends full blocks until the last one. When it has ended, the last*)
(* one is under way, or stored and the file closed.                        *)
SavedInv ==
    /\ job.cmd = "save" => Closes(job.data)
    /\ outcome = "saved" => job.cmd = "save"
    /\ Saving => \E q \in Nat : Sent = q * BlkSize
    /\ outcome = "saved" =>
         IF Asked("DATA")
         THEN LET d == Head(toServer).data IN
              IsLast(d) /\ Len(Files[job.name]) + Len(d) = Len(job.data)
         ELSE disk[job.name] = job.data /\ unwritten[job.name] = <<>>

Closed == Faithful /\ Certain /\ SavedInv

LEMMA FilesUpTo ==
    ASSUME Good, job.cmd = "save", NEW k \in 0 .. Len(job.data), StoredUpTo(k)
    PROVE  job.name \in Name /\ job.data \in Seq(Byte) /\ Len(Files[job.name]) = k
<1>1. job.name \in Name /\ job.data \in Seq(Byte)
  <2>1. job \in {NoJob} \cup LoadJob \cup SaveJob
    BY Types DEF Good, StateInv, C64TypeOK
  <2> QED
    BY <2>1 DEF NoJob, LoadJob, SaveJob
<1>2. Files[job.name] = SubSeq(job.data, 1, k)
  BY <1>1 DEF Files, StoredUpTo
<1> QED
  BY <1>1, <1>2, PrefixOf

(* No block of a SAVE comes to the daemon, nor does anything else happen   *)
(* to a file.                                                              *)
LEMMA KeptClosed ==
    ASSUME Closed, UNCHANGED <<job, disk, unwritten>>,
           \/ toServer' = toServer
           \/ ~Asked("DATA") /\ ~Asked("DATA")',
           outcome' = outcome \/ outcome' # "saved",
           Saving' => Saving /\ Sent' = Sent
    PROVE  SavedInv'
<1>1. Files' = Files
  BY SameFiles
<1>2. outcome' = "saved" => (Asked("DATA")' <=> Asked("DATA"))
                            /\ (Asked("DATA") => toServer' = toServer)
  BY DEF Asked
<1> QED
  BY <1>1, <1>2 DEF Closed, SavedInv

LEMMA ClientClosed ==
    ASSUME Closed, UNCHANGED serverVars,
           \/ LoopProbe \/ GetProbe \/ RecvProbe \/ PutProbe \/ GetBlock
           \/ GetError \/ GetNothing \/ SendBlock \/ RecvByte \/ RecvAbort \/ SetupDone
           \/ SetupDrop \/ ClientReset
    PROVE  SavedInv'
<1> USE DEF Closed, Faithful
<1>0. UNCHANGED <<disk, unwritten>>
  BY DEF serverVars, deviceVars
<1>1. CASE \/ GetError \/ GetNothing \/ SendBlock \/ RecvByte \/ RecvAbort \/ SetupDone
           \/ RecvProbe /\ UNCHANGED <<linkVars, tftpVars>>
  BY <1>0, <1>1, ReturnFacts, KeptClosed DEF linkVars
<1>2. CASE SetupDrop \/ ClientReset
  <2>1. toServer' = toServer /\ ~Saving' /\ job' = job /\ (outcome' = outcome \/ outcome' # "saved")
    BY <1>2 DEF SetupDrop, ClientReset, Saving, clientVars, loopVars, c64Vars
  <2> QED
    BY <1>0, <2>1, KeptClosed
<1>3. CASE GetProbe
  <2>1. ~Saving' /\ UNCHANGED <<job, outcome>>
    BY <1>3 DEF GetProbe, Saving, c64Vars
  <2>2. \/ toServer' = toServer
        \/ ~Asked("DATA") /\ ~Asked("DATA")'
    <3>1. ASSUME toServer = <<>>, toServer' = Append(toServer, ACK(0))
          PROVE  ~Asked("DATA") /\ ~Asked("DATA")'
      BY <3>1, SentOne DEF Asked, ACK
    <3> QED
      BY <1>3, <3>1, GetProbeFacts
  <2> QED
    BY <1>0, <2>1, <2>2, KeptClosed
<1>4. CASE (LoopProbe \/ RecvProbe \/ PutProbe) /\ Probe
  <2>1. InLoop /\ Saving' = Saving /\ Sent' = Sent /\ UNCHANGED <<job, outcome>>
    BY <1>4 DEF LoopProbe, RecvProbe, PutProbe, InLoop, Loading, Saving, Sent, loopVars, c64Vars
  <2>2. toServer' = toServer
    BY <1>4, <2>1, PollFacts
  <2> QED
    BY <1>0, <2>1, <2>2, KeptClosed
<1>5. CASE GetBlock
  <2>1. /\ phase = "block" /\ ~tftp_error /\ Loading /\ ~Saving'
        /\ toServer' = Append(toServer, ACK(tftp_blknum))
        /\ UNCHANGED <<job, outcome>>
    BY <1>5 DEF GetBlock, tftp_get_block, Loading, Saving, c64Vars
  <2>2. Fresh
    BY <1>5, GetBlockNext DEF Good
  <2>3. toServer = <<>>
    BY <2>1, <2>2 DEF Good, ServiceInv, LoadInv, Received
  <2>4. ~Asked("DATA") /\ ~Asked("DATA")'
    BY <2>1, <2>3, SentOne DEF Asked, ACK
  <2> QED
    BY <1>0, <2>1, <2>4, KeptClosed
<1> QED
  BY <1>1, <1>2, <1>3, <1>4, <1>5 DEF LoopProbe, RecvProbe, PutProbe

LEMMA CommandClosed ==
    ASSUME Closed, Command
    PROVE  SavedInv'
<1> USE DEF Closed, Faithful
<1>1. outcome' # "saved"
  BY DEF Command, StartLoad, StartSave
<1>2. job'.cmd = "save" => Closes(job'.data)
  BY DEF Command, StartLoad, StartSave, Certain
<1>3. Saving' => Sent' = 0
  <2>1. Saving' => given' = 0 /\ a' = 0 /\ phase' # "putEmpty"
    BY DEF Command, StartLoad, StartSave, Saving
  <2> QED
    BY <2>1 DEF Sent
<1>4. 0 = 0 * BlkSize /\ 0 \in Nat
  BY Sizes
<1> QED
  BY <1>1, <1>2, <1>3, <1>4 DEF SavedInv

(* recv_file ends with a block that is not full. *)
LEMMA PutClosed ==
    ASSUME Closed, PutBlock \/ PutEmpty, UNCHANGED serverVars
    PROVE  SavedInv'
<1> USE DEF Closed, Faithful
<1> PICK n \in 0 .. BlkSize :
             /\ tftp_put_block(n)
             /\ Slice(iobuf, 0, n) = SubSeq(job.data, Sent + 1, Sent + n)
             /\ Sent \in Nat /\ job.data \in Seq(Byte) /\ Sent + n <= Len(job.data)
             /\ n = BlkSize \/ Sent + n = Len(job.data)
             /\ phase' # "loop" => n = BlkSize /\ Sent' = Sent + n
             /\ phase' = "loop" => n # BlkSize
             /\ phase' \in {"putEmpty", "recv", "loop"}
  BY PutFacts
<1> DEFINE d == SubSeq(job.data, Sent + 1, Sent + n)
           x == DATA(NextBlk(tftp_blknum), d)
<1>1. /\ Saving /\ tftp_clear_to_send /\ job.cmd = "save" /\ outcome = "busy"
      /\ toServer' = Append(toServer, x)
      /\ Saving' => phase' # "loop"
      /\ UNCHANGED <<job, disk, unwritten>>
      /\ outcome' = outcome \/ (outcome' = "saved" /\ phase' = "loop")
  BY DEF PutBlock, PutEmpty, tftp_put_block, Saving, serverVars, deviceVars, Good, ServiceInv, JobInv
<1>2. toServer = <<>> /\ StoredUpTo(Sent)
  BY <1>1 DEF Good, ServiceInv, SaveInv, StoreInv, MayPut
<1>3. Sent \in 0 .. Len(job.data) /\ n \in Nat /\ Len(job.data) \in Nat /\ BlkSize \in Nat
  <2>1. n \in Nat /\ BlkSize \in Nat /\ Len(job.data) \in Nat
    BY Sizes
  <2> QED
    BY <2>1
<1>4. Len(Files[job.name]) = Sent
  BY <1>1, <1>2, <1>3, FilesUpTo
<1>5. Len(d) = n
  BY <1>3
<1>6. PICK q \in Nat : Sent = q * BlkSize
  BY <1>1 DEF SavedInv
<1>7. Saving' => \E r \in Nat : Sent' = r * BlkSize
  <2>1. q + 1 \in Nat /\ (q + 1) * BlkSize = q * BlkSize + BlkSize
    BY Sizes
  <2> QED
    BY <1>1, <1>6, <2>1
<1>8. Head(toServer') = x /\ x.type = "DATA" /\ x.data = d
  BY <1>1, <1>2, SentOne DEF DATA
<1> HIDE DEF x, d
<1>9. Asked("DATA")' /\ Head(toServer').data = d
  BY <1>1, <1>2, <1>8, SentOne DEF Asked
<1>10. ASSUME outcome' = "saved"
       PROVE  IsLast(d) /\ Len(Files[job.name]) + Len(d) = Len(job.data)
  <2>1. phase' = "loop" /\ n # BlkSize
    BY <1>1, <1>10
  <2>2. n \in 0 .. BlkSize - 1 /\ Len(job.data) = q * BlkSize + n
    BY <1>3, <1>6, <2>1
  <2>3. HdrLen + n < BlkSize
    BY <1>1, <2>2 DEF SavedInv, Closes
  <2> QED
    BY <1>4, <1>5, <1>6, <2>2, <2>3 DEF IsLast
<1>11. Files' = Files
  BY <1>1, SameFiles
<1>12. ASSUME outcome' = "saved"
       PROVE  LET e == Head(toServer').data IN
              IsLast(e) /\ Len(Files'[job'.name]) + Len(e) = Len(job'.data)
  BY <1>1, <1>9, <1>10, <1>11, <1>12
<1> QED
  BY <1>1, <1>7, <1>9, <1>12 DEF SavedInv

(* The last block completes the file. *)
LEMMA ServeDataClosed ==
    ASSUME Closed, ServeData, ~Crash, UNCHANGED clientVars
    PROVE  SavedInv'
<1> USE DEF Closed, Faithful
<1> DEFINE d == Head(toServer).data
           n == job.name
<1>1. /\ toServer' = <<>> /\ UNCHANGED <<job, outcome>> /\ Saving' = Saving /\ Sent' = Sent
      /\ Asked("DATA") /\ file.name = n /\ job.cmd = "save"
  <2>1. Asked("DATA")
    BY DEF ServeData, Asked
  <2>2. toServer' = <<>> /\ job.cmd = "save"
    BY ServeDataStores
  <2> QED
    BY SMTT(30), <2>1, <2>2, ClientSame DEF Good, ServiceInv, SaveInv, StoreInv, Pending
<1>2. ~Asked("DATA")'
  BY <1>1 DEF Asked
<1>3. ASSUME outcome = "saved"
      PROVE  disk'[n] = job.data /\ unwritten'[n] = <<>>
  <2>1. IsLast(d) /\ Len(Files[n]) + Len(d) = Len(job.data)
    BY <1>1, <1>3 DEF SavedInv
  <2>2. PICK k \in 0 .. Len(job.data) :
          /\ StoredUpTo(k)
          /\ disk'[n] # NoFile
          /\ Stored(n)' = SubSeq(job.data, 1, k + Len(d))
    BY ServeDataStores
  <2>3. n \in Name /\ job.data \in Seq(Byte) /\ Len(Files[n]) = k
    BY <1>1, <2>2, FilesUpTo
  <2> HIDE DEF d
  <2>4. Stored(n)' = job.data
    <3>1. SubSeq(job.data, 1, Len(job.data)) = job.data
      BY SMTT(30), <2>3
    <3> QED
      BY <2>1, <2>2, <2>3, <3>1
  <2>5. /\ disk' = [disk EXCEPT ![n] = @ \o (unwritten[n] \o d)]
        /\ unwritten' = [unwritten EXCEPT ![n] = <<>>]
    BY <1>1, <2>1 DEF ServeData, d
  <2>6. /\ disk \in [Name -> Seq(Byte) \cup {NoFile}] /\ unwritten \in [Name -> Seq(Byte)]
        /\ disk[n] \in Seq(Byte) /\ d \in Seq(Byte)
    <3>1. d \in Seq(Byte)
      BY ServeDataStores DEF d
    <3>2. disk[n] # NoFile
      BY <2>2 DEF StoredUpTo
    <3> QED
      BY <2>3, <3>1, <3>2, FileTypes
  <2>7. unwritten'[n] = <<>> /\ disk'[n] = disk[n] \o (unwritten[n] \o d)
    BY <2>3, <2>5, <2>6
  <2>8. disk'[n] \in Seq(Byte)
    <3>1. unwritten[n] \in Seq(Byte)
      BY <2>3, <2>6
    <3>2. unwritten[n] \o d \in Seq(Byte)
      BY <2>6, <3>1
    <3>3. disk[n] \o (unwritten[n] \o d) \in Seq(Byte)
      BY SMTT(30), <2>6, <3>2
    <3> QED
      BY <2>7, <3>3
  <2>9. Stored(n)' = disk'[n] \o <<>>
    BY Zenon, <1>1, <2>2, <2>7 DEF Stored
  <2>10. disk'[n] \o <<>> = disk'[n]
    BY <2>8
  <2> QED
    BY <2>4, <2>7, <2>9, <2>10
<1> QED
  BY <1>1, <1>2, <1>3 DEF SavedInv

LEMMA ServeClosed ==
    ASSUME Closed, Serve, status' # "crashed"
    PROVE  SavedInv'
<1> USE DEF Closed, Faithful
<1>1. UNCHANGED clientVars
  BY DEF Serve
<1>2. CASE ServeData
  BY <1>1, <1>2, ServeDataClosed DEF Crash
<1>3. CASE ServeRrq \/ ServeWrq \/ ServeAck
  <2>1. outcome # "saved"
    BY <1>3 DEF ServeRrq, ServeWrq, ServeAck, Asked, SavedInv, Good, ServiceInv, JobInv
  <2>2. UNCHANGED <<job, outcome>> /\ Saving' = Saving /\ Sent' = Sent
    BY <1>1, ClientSame
  <2>3. Saving' => \E q \in Nat : Sent' = q * BlkSize
    BY <2>2 DEF SavedInv
  <2> QED
    BY <2>1, <2>2, <2>3 DEF SavedInv
<1> QED
  BY <1>2, <1>3 DEF Serve

LEMMA RubyWriteClosed ==
    ASSUME Closed, NEW n \in Name, WriteOut(n), UNCHANGED clientVars
    PROVE  SavedInv'
<1> USE DEF Closed, Faithful
<1>1. /\ toServer' = toServer /\ UNCHANGED <<job, outcome>> /\ Saving' = Saving /\ Sent' = Sent
      /\ unwritten[n] # <<>>
  BY ClientSame DEF WriteOut, linkVars
<1>2. Files' = Files
  BY FileTypes, WrittenOut DEF WriteOut
<1>3. \A m \in Name \ {n} : disk'[m] = disk[m] /\ unwritten'[m] = unwritten[m]
  BY FileTypes DEF WriteOut
<1>4. job.cmd = "save" => job.name \in Name
  <2>1. job \in {NoJob} \cup LoadJob \cup SaveJob
    BY Types DEF Good, StateInv, C64TypeOK
  <2> QED
    BY <2>1 DEF NoJob, LoadJob, SaveJob
<1>5. outcome = "saved" /\ ~Asked("DATA") => /\ disk'[job.name] = job.data
                                             /\ unwritten'[job.name] = <<>>
  BY <1>1, <1>3, <1>4 DEF SavedInv
<1> QED
  BY <1>1, <1>2, <1>5 DEF SavedInv, Asked

LEMMA NextClosed ==
    ASSUME Closed, [Next]_vars, PromptInv'
    PROVE  SavedInv'
<1> USE DEF Closed, Faithful
<1>1. CASE Command
  BY <1>1, CommandClosed
<1>2. CASE Poll
  BY <1>2, ClientClosed DEF Poll
<1>3. CASE LoadStep
  BY <1>3, ClientClosed DEF LoadStep
<1>4. CASE SaveStep
  BY <1>4, ClientClosed, PutClosed DEF SaveStep
<1>5. CASE Abort
  BY <1>5, ClientClosed DEF Abort
<1>6. CASE Reset
  BY <1>6, ClientClosed DEF Reset
<1>7. CASE Setup
  BY <1>7, ClientClosed DEF Setup
<1>8. CASE Serve
  BY <1>8, ServeClosed DEF PromptInv
<1>9. CASE Timeout
  <2>1. /\ toServer = <<>> /\ UNCHANGED <<clientVars, disk, unwritten>>
    BY <1>9 DEF Timeout, ServerTimeout, deviceVars
  <2>2. ~Asked("DATA") /\ ~Asked("DATA")'
    <3>1. toServer' = <<>>
      <4>1. PICK k \in 0 .. Len(<<>>) : toServer' = SubSeq(<<>>, k + 1, Len(<<>>))
        BY <1>9 DEF Timeout, ServerTimeout, EndTransfer
      <4>2. Len(<<>>) = 0 /\ SubSeq(<<>>, 1, 0) = <<>>
        OBVIOUS
      <4> QED
        BY <4>1, <4>2
    <3> QED
      BY <2>1, <3>1 DEF Asked
  <2> QED
    BY <2>1, <2>2, ClientSame, KeptClosed
<1>10. CASE RubyWrite
  BY <1>10, RubyWriteClosed DEF RubyWrite
<1>11. ~Loss
  BY DEF Loss, Certain
<1>12. CASE Duplicate \/ UNCHANGED vars
  <2>1. /\ UNCHANGED <<clientVars, disk, unwritten>> /\ toServer' = toServer
    BY <1>12, CalmFacts DEF Duplicate, DuplicateToClient, vars, linkVars, serverVars, deviceVars
  <2> QED
    BY <2>1, ClientSame, KeptClosed
<1> QED
  BY <1>1, <1>2, <1>3, <1>4, <1>5, <1>6, <1>7, <1>8, <1>9, <1>10, <1>11, <1>12 DEF Next

LEMMA InitClosed == Init => SavedInv
<1> SUFFICES ASSUME Init PROVE SavedInv
  OBVIOUS
<1>1. phase = "loop" /\ job = NoJob /\ outcome = "none"
  BY DEF Init, ClientInit
<1> QED
  BY <1>1 DEF SavedInv, Saving, NoJob

LEMMA ClosedAlways == Spec /\ Certain => []Closed
<1>1. Init => SavedInv
  BY InitClosed
<1>2. Closed /\ [Next]_vars /\ Faithful' => Certain' /\ SavedInv'
  <2> SUFFICES ASSUME Closed, [Next]_vars, Faithful' PROVE Certain' /\ SavedInv'
    OBVIOUS
  <2> QED
    BY NextClosed, EnvKept DEF Closed, Certain, Faithful
<1>3. Closed <=> Faithful /\ Certain /\ SavedInv
  BY DEF Closed
<1>4. Certain => Prompt
  BY DEF Certain
<1> QED
  BY <1>1, <1>2, <1>3, <1>4, PromptAlways, PTL DEF Spec

(* A SAVE that recv_file has completed is on the disk once the network is  *)
(* quiet: its last block, which packet_data must recognise for what it is, *)
(* has completed the file and closed it.                                   *)
THEOREM SavedCorrect == Spec /\ Certain => []SavedIsStored
<1>1. Closed => SavedIsStored
  BY DEF Closed, SavedInv, SavedIsStored, Asked
<1> QED
  BY <1>1, ClosedAlways, PTL
=============================================================================
