------------------------------ MODULE C64Names ------------------------------
(***************************************************************************)
(* The names of the files in a directory device: what the sketch makes of  *)
(* the name typed on the C64 (create_tftp_filename), which of them it      *)
(* sends (tftp_build_request), what the daemon makes of that (C64File of   *)
(* device.rb), and the PC64 files that open_write replaces and creates.    *)
(*                                                                         *)
(* A name is a sequence of characters. create_tftp_filename writes an odd  *)
(* one as %xx, which C64File.decode undoes, as "%" is odd itself: what     *)
(* remains of it are the three places it takes in the request (strlen).    *)
(***************************************************************************)
EXTENDS Integers, Sequences, FiniteSets, FiniteSetsExt

CONSTANTS
    Names,          \* what is typed on the C64
    PlainChar,      \* the characters [0-9A-Z _.-], which need no %xx
    LocalChar,      \* the characters [0-9a-z_.-], as "x" |-> downcased
    NameLimit,      \* C64_FILE_LIMIT, 16
    RequestLimit,   \* 16+1+3, of the name in a request
    MaxCounter,     \* 99
    Given,          \* directories to start with
    MaxSaves        \* bound

ASSUME NamesAssumption == Names \subseteq Seq(STRING)
ASSUME LimitsAssumption ==
    NameLimit \in Nat /\ RequestLimit \in Nat /\ MaxCounter \in Nat /\ MaxSaves \in Nat

VARIABLES
    files,          \* of the device's directory
    saves,
    saved,          \* the number of the last SAVE typed so, 0 for none
    up              \* is the daemon running

vars == <<files, saves, saved, up>>

Space == " "
Shifted == "\\xa0"
Digit == {"0", "1", "2", "3", "4", "5", "6", "7", "8", "9"}

LastInk(s, blank) ==
    CHOOSE k \in 0 .. Len(s) :
       /\ k # 0 => s[k] \notin blank
       /\ \A i \in k + 1 .. Len(s) : s[i] \in blank
Trim(s, blank) == SubSeq(s, 1, LastInk(s, blank))

(* create_tftp_filename: no shifted spaces, no spaces at the end *)
Cut(n) == IF Len(n) <= NameLimit THEN n ELSE SubSeq(n, 1, NameLimit)
Unpadded(n) == Trim(SelectSeq(n, LAMBDA c : c # Shifted), {Space})
tftp_filename(n) == Unpadded(Cut(n))

(* With the device and a slash before it                                   *)
strlen(name) == 2 + Len(name) + 2 * Cardinality({i \in DOMAIN name : name[i] \notin PlainChar})

(* Otherwise tftp_build_request gives 0. *)
Fits(n) == strlen(tftp_filename(n)) <= RequestLimit

(* C64File.decode drops the "@0:" of an overwrite. *)
Overwrites(n) == Len(n) >= 3 /\ n[1] = "@" /\ n[2] \in Digit /\ n[3] = ":"
decode(n) == IF Overwrites(n) THEN SubSeq(n, 4, Len(n)) ELSE n

C64Name(n) == decode(tftp_filename(n))
C64Names == {C64Name(n) : n \in Names}

(* local_encode, without the counter *)
local_name(c64) ==
    LET kept == SelectSeq(c64, LAMBDA c : c \in DOMAIN LocalChar)
    IN  [i \in DOMAIN kept |-> LocalChar[kept[i]]]

(* A file is [local, ctr, header, pc64, data]: local.pNN, with the C64's    *)
(* name in its header; data is the number of the SAVE that wrote it.       *)

(* To Ruby, a name without any character but dots before .pNN has no       *)
(* extension.                                                              *)
is_pc64(f) == f.pc64 /\ \E i \in DOMAIN f.local : f.local[i] # "."
pc64_c64_filename(f) == Trim(f.header, {Space, Shifted})

(* No two files of a directory carry the same C64 name, or go by the same  *)
(* local one.                                                              *)
Distinct(dir) ==
    \A f, g \in dir :
       \/ is_pc64(f) /\ is_pc64(g) /\ pc64_c64_filename(f) = pc64_c64_filename(g)
       \/ f.local = g.local /\ f.ctr = g.ctr
       => f = g

ASSUME GivenAssumption == \A dir \in Given : Distinct(dir)

(* A header holds the name as the sketch has sent it: without blanks at    *)
(* its end, so that the padding can be told from it.                       *)
ASSUME HeaderAssumption == \A c64 \in C64Names : Trim(c64, {Space, Shifted}) = c64

(* Mutant: the header is compared as it stands. *)
find_local_Header(c64) == {f \in files : is_pc64(f) /\ f.header = c64}

(* each_child takes the files in any order. *)
find_local(c64) == {f \in files : is_pc64(f) /\ pc64_c64_filename(f) = c64}

free_counters(dir, local) ==
    {k \in 0 .. MaxCounter : \A f \in dir : ~(f.local = local /\ f.ctr = k)}

Init ==
    /\ files \in Given
    /\ saves = 0
    /\ saved = [n \in Names |-> 0]
    /\ up = TRUE
-----------------------------------------------------------------------------
(* create_local *)
Create(dir, c64) ==
    LET local == local_name(c64)
    IN  files' = dir \cup {[local |-> local, ctr |-> Min(free_counters(dir, local)),
                            header |-> c64, pc64 |-> TRUE, data |-> saves + 1]}

(* Mutant: the counter is looked for before the old file is removed. *)
SaveEarlyCounter(n) ==
    /\ up
    /\ Fits(n)
    /\ saves < MaxSaves
    /\ saves' = saves + 1
    /\ LET c64 == C64Name(n)
           old == find_local(c64)
       IN  \E gone \in IF old = {} THEN {{}} ELSE {{f} : f \in old} :
             IF free_counters(files, local_name(c64)) # {}
             THEN /\ Create(files \ gone, c64)
                  /\ saved' = [saved EXCEPT ![n] = saves + 1]
                  /\ UNCHANGED up
             ELSE /\ files' = files \ gone
                  /\ up' = FALSE
                  /\ UNCHANGED saved

(* DeviceDir#open_write. When all counters are taken, local_encode returns *)
(* nil, and creating a file of no name ends the daemon.                    *)
Save(n) ==
    /\ up
    /\ Fits(n)
    /\ saves < MaxSaves
    /\ saves' = saves + 1
    /\ LET c64 == C64Name(n)
           old == find_local(c64)
       IN  \E gone \in IF old = {} THEN {{}} ELSE {{f} : f \in old} :
             IF free_counters(files \ gone, local_name(c64)) # {}
             THEN /\ Create(files \ gone, c64)
                  /\ saved' = [saved EXCEPT ![n] = saves + 1]
                  /\ UNCHANGED up
             ELSE /\ files' = files \ gone
                  /\ up' = FALSE
                  /\ UNCHANGED saved

(* tftp_send_wrq sends nothing, recv_file gives up; the C64 is told nothing. *)
Refuse(n) ==
    /\ ~Fits(n)
    /\ saves < MaxSaves
    /\ saves' = saves + 1
    /\ saved' = [saved EXCEPT ![n] = saves + 1]
    /\ UNCHANGED <<files, up>>

(* What else happens to the directory, and to the daemon. SAVEs under the  *)
(* name of a file that the user has deleted count no more.                 *)
Delete(f) ==
    /\ files' = files \ {f}
    /\ saved' = [n \in Names |-> IF C64Name(n) = pc64_c64_filename(f) THEN 0 ELSE saved[n]]
    /\ UNCHANGED <<saves, up>>

Restart ==
    /\ ~up
    /\ up' = TRUE
    /\ UNCHANGED <<files, saves, saved>>

Next ==
    \/ \E n \in Names : Save(n) \/ Refuse(n)
    \/ \E f \in files : Delete(f)
    \/ Restart

Spec == Init /\ [][Next]_vars
-----------------------------------------------------------------------------
(* Properties *)

(* It does not matter in which order find_local meets the files, as no two *)
(* carry the same C64 name; and none is created under the local name of    *)
(* another, a PC64 file or not.                                            *)
UniqueNames == Distinct(files)

IsListing(c64) == c64 # <<>> /\ c64[1] = "$"
HasExtension(c64) == \E i \in DOMAIN local_name(c64) : local_name(c64)[i] # "."

(* What open_read finds for a name typed on the C64, if it is asked        *)
Loads(n) ==
    IF ~Fits(n) \/ IsListing(C64Name(n)) THEN {}
    ELSE {f.data : f \in find_local(C64Name(n))}

(* The file that the user means: all that has been typed counts, but for   *)
(* the padding and the "@0:".                                              *)
Means == [n \in Names |-> decode(Unpadded(n))]
Typed == {m \in Names : saved[m] # 0}
Spellings(n) == {m \in Typed : Means[m] = Means[n]}
LastOf(typed) == {m \in typed : \A o \in typed : saved[o] <= saved[m]}

(* The sketch takes NameLimit characters, "@0:" among them; a longer name  *)
(* may turn into another one.                                              *)
Whole(n) == Len(n) <= NameLimit
Uncut(n) ==
    /\ Whole(n)
    /\ \A m \in Typed : Means[m] = Means[n] \/ C64Name(m) = C64Name(n) => Whole(m)

Loadable(n) == Fits(n) /\ HasExtension(C64Name(n)) /\ ~IsListing(C64Name(n)) /\ Uncut(n)

(* LOAD of a name gets what was saved last under a name that means the     *)
(* same file and could be sent, with "@0:" or without, however padded, and *)
(* whatever was saved under other names that share its local one; unless   *)
(* it is the listing's, has nothing for a local name, or has met one that  *)
(* was cut. A SAVE that is not sent, or that finds all counters taken,     *)
(* does not cost the old file; but it is lost, so that for longer names    *)
(* "Overwrite of files is not handled correctly" (README:10-11).           *)
LoadsLastSaved ==
    \A n \in Names :
       \A m \in LastOf({m \in Spellings(n) : Fits(m)}) :
          Loadable(n) => Loads(n) = {saved[m]}
=============================================================================
