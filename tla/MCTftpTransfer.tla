--------------------------- MODULE MCTftpTransfer ---------------------------
(***************************************************************************)
(* Small instances of TftpTransfer: blocks of three bytes under a header   *)
(* of one, files of none to three blocks. All bytes of a file differ, so   *)
(* that a byte in the wrong place shows.                                   *)
(***************************************************************************)
EXTENDS TftpTransfer

MCByte == 1 .. 20
MCStale == 0
NoNames == {}
NoJobs == {}

File(k) == [i \in 1 .. k |-> i]
Saved(k) == [i \in 1 .. k |-> 10 + i]

(* One file of each kind: it ends with a full block, with a short one, is  *)
(* empty, is not there, has a name that is too long, is on a read-only     *)
(* device.                                                                 *)
MCName == {"full", "part", "empty", "missing", "long", "ro"}
MCLongName == {"long"}
MCRoName == {"ro"}
MCDisk == [n \in MCName |-> CASE n = "full" -> File(6)
                              [] n = "part" -> File(7)
                              [] n = "empty" -> <<>>
                              [] n = "ro" -> File(2)
                              [] OTHER -> NoFile]

(* SAVEs with last blocks of 0 and 1 bytes, which packet_data recognises   *)
(* as the last ones; one of 2 bytes, which it does not.                    *)
ClosedJobs == [name : {"full", "missing"}, data : {Saved(1), Saved(3), Saved(7)}]
OpenJobs == [name : {"missing"}, data : {Saved(2)}]

AllJobs == ClosedJobs \cup OpenJobs

FewJobs == [name : {"full"}, data : {Saved(3), Saved(7)}]

(* Losses, repetitions and an impatient daemon under a user who waits for   *)
(* the network; resets, aborts and losses under one who waits for the       *)
(* daemon as well; and everything at once under one who waits for nothing.  *)
Env(pace, jobs_, abort, loss, patient, n, toClient_, toServer_) ==
    [pace |-> pace, jobs |-> jobs_, abort |-> abort, loss |-> loss, patient |-> patient,
     resets |-> n, dupToClient |-> toClient_, dupToServer |-> toServer_]

AllKinds == {Env("quiet", AllJobs, FALSE, TRUE, FALSE, 0, 1, 0),
             Env("idle", AllJobs, TRUE, TRUE, TRUE, 1, 0, 0),
             Env("any", FewJobs, TRUE, TRUE, FALSE, 1, 1, 1)}
JustRepeats == {Env("quiet", ClosedJobs, FALSE, FALSE, TRUE, 0, 1, 0)}
NoTrouble == {Env("quiet", OpenJobs, FALSE, FALSE, TRUE, 0, 0, 0)}
=============================================================================
