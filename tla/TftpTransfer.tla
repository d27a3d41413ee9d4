---------------------------- MODULE TftpTransfer ----------------------------
(***************************************************************************)
(* LOAD and SAVE end to end: the Arduino (TftpClient), the daemon          *)
(* (TftpServer), the network between them and the C64's user.              *)
(***************************************************************************)
EXTENDS TftpClient, TftpServer, SequencesExt

CONSTANTS
    SaveJobs,       \* [name, data] records the C64 may SAVE
    Environments,   \* see Environment: the ones to be considered
    MaxCmds         \* bound: commands given

ASSUME SaveJobsAssumption ==
    SaveJobs \subseteq [name : Name, data : Seq(Byte) \ {<<>>}]

(* What the user, the C64 and the network may do, fixed for a behaviour.   *)
Environment ==
    [pace        : {"any", "quiet", "idle"},  \* of the commands: see MayStart
     jobs        : SUBSET SaveJobs,     \* the SAVEs there may be
     abort       : BOOLEAN,     \* may the C64 break off a SAVE
     loss        : BOOLEAN,     \* may the network lose datagrams
     patient     : BOOLEAN,     \* does the daemon time out only if nothing
                                \* else can happen
     resets      : Nat,         \* bound: resets of the Arduino
     dupToClient : Nat,         \* bound: datagrams delivered twice, per
     dupToServer : Nat]         \* direction

ASSUME EnvironmentAssumption == \A e \in Environments : e \in Environment
ASSUME BoundAssumption == MaxCmds \in Nat

VARIABLES
    env,
    cmds, resets, dupToClient, dupToServer    \* what is bounded above

boundVars == <<env, cmds, resets, dupToClient, dupToServer>>
vars == <<linkVars, clientVars, serverVars, boundVars>>

TypeOK ==
    /\ LinkTypeOK
    /\ ClientTypeOK
    /\ ServerTypeOK
    /\ env \in Environments
    /\ cmds \in Nat
    /\ resets \in Nat
    /\ dupToClient \in Nat
    /\ dupToServer \in Nat

Init ==
    /\ LinkInit
    /\ ClientInit
    /\ ServerInit
    /\ env \in Environments
    /\ cmds = 0
    /\ resets = 0
    /\ dupToClient = 0
    /\ dupToServer = 0
-----------------------------------------------------------------------------
(* How much time the user leaves between two commands: none ("any"), until *)
(* no datagram is left in the network ("quiet"), or also until the daemon  *)
(* waits for a request again ("idle"), five seconds at most. Unless it is  *)
(* "any", setup() takes longer than a datagram does as well.               *)
Quiet == toServer = <<>> /\ toClient = <<>>

MayStart ==
    /\ cmds < MaxCmds
    /\ env.pace # "any" => Quiet
    /\ env.pace = "idle" => status \in {"idle", "crashed"}

Command ==
    /\ MayStart
    /\ cmds' = cmds + 1
    /\ \/ \E n \in Name : StartLoad(n)
       \/ \E j \in env.jobs : StartSave(j.name, j.data)
    /\ UNCHANGED <<serverVars, env, resets, dupToClient, dupToServer>>

Poll ==
    /\ LoopProbe \/ GetProbe \/ RecvProbe \/ PutProbe
    /\ UNCHANGED <<serverVars, boundVars>>

LoadStep ==
    /\ GetError \/ GetNothing \/ GetBlock \/ SendBlock
    /\ UNCHANGED <<serverVars, boundVars>>

SaveStep ==
    /\ RecvByte \/ PutBlock \/ PutEmpty
    /\ UNCHANGED <<serverVars, boundVars>>

Abort ==
    /\ env.abort
    /\ RecvAbort
    /\ UNCHANGED <<serverVars, boundVars>>

Reset ==
    /\ resets < env.resets
    /\ resets' = resets + 1
    /\ ClientReset
    /\ UNCHANGED <<serverVars, env, cmds, dupToClient, dupToServer>>

Setup ==
    /\ \/ SetupDrop
       \/ (env.pace # "any" => Quiet) /\ SetupDone
    /\ UNCHANGED <<serverVars, boundVars>>

Serve ==
    /\ ServeRrq \/ ServeWrq \/ ServeAck \/ ServeData
    /\ UNCHANGED <<clientVars, boundVars>>

(* Nothing moves until the daemon gives up: no datagram is under way and   *)
(* the Arduino is not about to send one.                                   *)
Stalled ==
    /\ toClient = <<>>
    /\ \/ phase \in {"setup", "loop", "probe"}
       \/ phase \in {"put", "putEmpty"} /\ ~tftp_clear_to_send

Timeout ==
    /\ env.patient => Stalled
    /\ ServerTimeout
    /\ UNCHANGED <<clientVars, boundVars>>

RubyWrite ==
    /\ \E n \in Name : WriteOut(n)
    /\ UNCHANGED <<clientVars, boundVars>>

Loss ==
    /\ env.loss
    /\ LoseToServer \/ LoseToClient
    /\ UNCHANGED <<clientVars, serverVars, boundVars>>

Duplicate ==
    /\ \/ /\ dupToClient < env.dupToClient
          /\ dupToClient' = dupToClient + 1
          /\ DuplicateToClient
          /\ UNCHANGED dupToServer
       \/ /\ dupToServer < env.dupToServer
          /\ dupToServer' = dupToServer + 1
          /\ DuplicateToServer
          /\ UNCHANGED dupToClient
    /\ UNCHANGED <<clientVars, serverVars, env, cmds, resets>>

Next ==
    \/ Command \/ Poll \/ LoadStep \/ SaveStep \/ Abort \/ Reset \/ Setup
    \/ Serve \/ Timeout \/ RubyWrite
    \/ Loss \/ Duplicate

Spec == Init /\ [][Next]_vars

(* The sketch never stops polling, a C64 that saves offers its next byte,  *)
(* the daemon's select wakes up on a datagram or after its timeout. Nothing*)
(* makes the user give another command, the network lose or repeat         *)
(* anything, or Ruby write a buffer out.                                   *)
Fairness ==
    /\ WF_vars(Poll)
    /\ WF_vars(LoadStep)
    /\ WF_vars(SaveStep)
    /\ WF_vars(Setup)
    /\ WF_vars(Serve)
    /\ WF_vars(Timeout)

FairSpec == Spec /\ Fairness
-----------------------------------------------------------------------------
(* Safety *)

(* The user leaves a transfer the time to end; or even the daemon to notice*)
(* that it has been broken off, and the daemon is not early with it.       *)
Orderly == env.pace # "any"
LockStep == env.pace = "idle" /\ env.patient

(* An empty file reaches the C64 as one byte, the stale iobuf[0].          *)
EmptyFileLoad == file.data = <<>> /\ got = <<Stale>> /\ outcome = "eoi"

(* send_file hands the C64 the bytes of the file it asked for, in order,   *)
(* none twice, none missing and none from an old buffer, whatever the      *)
(* network loses and whatever of the daemon's datagrams it repeats; and it *)
(* signals EOI (put_byte(.., 1)) only with the last byte of the file.      *)
LoadIsPrefix ==
    Orderly /\ job.cmd = "load" /\ got # <<>> =>
        /\ file.name = job.name
        /\ \/ IsPrefix(got, file.data) /\ (outcome = "eoi" => got = file.data)
           \/ EmptyFileLoad

(* What the daemon has of the file that the current SAVE writes. *)
Stored(n) == IF disk[n] = NoFile THEN <<>> ELSE disk[n] \o unwritten[n]
Answered == tftp_lastblk # BlkMod - 1

(* Once the daemon has answered the request of a SAVE, what it has stored  *)
(* is a prefix of what the C64 saves: recv_file, tftp_put_block and        *)
(* packet_data between them skip, repeat or reorder nothing. When          *)
(* recv_file returns 1 no more than the last data block, whose             *)
(* acknowledgement nobody awaits, can be missing.                          *)
StoredIsPrefix ==
    Orderly /\ job.cmd = "save" /\ Answered /\ outcome # "error" /\ ~tftp_error =>
        /\ IsPrefix(Stored(job.name), job.data)
        /\ outcome = "saved" => Len(job.data) - Len(Stored(job.name)) <= BlkSize

(* A SAVE that recv_file has completed is on the disk, all of it, once the *)
(* network is quiet: packet_data has recognised the last block and closed  *)
(* the file ("# End of data", tftp.rb:138).                                *)
SavedIsStored ==
    outcome = "saved" /\ toServer = <<>> => disk[job.name] = job.data

(* iobuf holds the file name and then data, tftpdata the packets sent and  *)
(* the data received. None of the name, the headers or the requests is     *)
(* ever handed to the C64 as file data, whatever the network does and      *)
(* however the packets of different transfers mix: but for the one byte of *)
(* an empty file, where send_file has nothing else to mark with EOI.       *)
OnlyFileBytes ==
    \A i \in DOMAIN got : got[i] = Stale => Len(got) = 1 /\ outcome = "eoi"

(* No packet of this client stops the daemon with an exception: an ACK or  *)
(* DATA never reaches a TFTP object that has no device, or a file in the   *)
(* other mode (packet_ack, packet_data).                                   *)
ServerSurvives == LockStep => status # "crashed"

(* "The data transfer is valid TFTP traffic" (README:6): DATA n carries    *)
(* the n-th block of the file.                                             *)
BlockOf(d, n) == SubSeq(d, (n - 1) * BlkSize + 1,
                        IF n * BlkSize < Len(d) THEN n * BlkSize ELSE Len(d))
ValidNumbering == LockStep =>
    /\ \A i \in DOMAIN toClient : toClient[i].type = "DATA" =>
         toClient[i].blk > 0 /\ toClient[i].data = BlockOf(file.data, toClient[i].blk)
    /\ \A i \in DOMAIN toServer : toServer[i].type = "DATA" =>
         toServer[i].blk > 0 /\ toServer[i].data = BlockOf(job.data, toServer[i].blk)

(* The transfer is a lock-step exchange: no more than one datagram is      *)
(* under way, so that the receive buffer of the ENC28J60 ("room for 2      *)
(* packets", enc28j60.cpp:235) cannot overflow.                            *)
OneInFlight == LockStep => Len(toServer) + Len(toClient) <= 1

(* However packets are repeated, or left over from another transfer, a     *)
(* LOAD never hands out the same block again, nor an older one; where      *)
(* commands wait for the network, it hands out one after the other:        *)
(* tftp_get_block's test of tftp_lastgot, the only one that tells a new    *)
(* block from an old one once its data is in tftpdata, is enough.          *)
BlocksInOrder ==
    [][GetBlock => /\ tftp_lastgot' > tftp_lastgot
                   /\ Orderly => tftp_lastgot' = tftp_lastgot + 1]_vars
-----------------------------------------------------------------------------
(* The service that the transfers implement *)

Service == INSTANCE FileService WITH
    files <- [n \in Name |-> IF disk[n] = NoFile THEN NoFile ELSE Stored(n)],
    dirty <- {n \in Name : unwritten[n] # <<>>},
    opened <- [name |-> file.name, data |-> file.data],
    Jobs <- SaveJobs

(* LOAD and SAVE through the Arduino, the network and the daemon are steps *)
(* of FileService: no packet-level step shows at the C64 or on the disk as *)
(* anything but its delivering, storing, ending or failing.                *)
ServiceSpec == Service!Init /\ [][Orderly => Service!Next]_(Service!vars)
-----------------------------------------------------------------------------
(* Liveness *)

(* Every LOAD ends, with the file or with an error. *)
LoadEnds == (job.cmd = "load" /\ outcome = "busy") ~> outcome # "busy"

(* Every SAVE ends, and when it ends well the file reaches the disk. *)
SaveEnds == (job.cmd = "save" /\ outcome = "busy") ~>
                (outcome = "saved" /\ disk[job.name] = job.data)
=============================================================================
