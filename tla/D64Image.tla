------------------------------ MODULE D64Image ------------------------------
(***************************************************************************)
(* The other device of the daemon, a file with the image of a disk:        *)
(* DeviceD64 of device.rb. LOAD looks for the name in the directory, which *)
(* is a chain of sectors, and follows the chain of the file.               *)
(*                                                                         *)
(* A link is a track and a sector; in the last block of a chain the track  *)
(* is 0, and the other number is the place of the last byte in use.        *)
(***************************************************************************)
EXTENDS C64Names, SequencesExt

CONSTANTS
    SECTORS,        \* of each track, with those the image does not have
    Tracks,         \* 35, of the image
    DirTrack,       \* 18
    BodySize,       \* BLKSIZE - 2, the bytes behind the link
    Slots,          \* 8, the entries of a directory block
    Layouts         \* of the disk: see Disk

ASSUME GeometryAssumption ==
    /\ Tracks \in Nat /\ Tracks <= Len(SECTORS) /\ SECTORS \in Seq(Nat)
    /\ DirTrack \in 1 .. Tracks /\ BodySize \in Nat \ {0} /\ Slots \in Nat \ {0}

VARIABLES
    device,         \* the one that is used
    layout, d64,    \* what is on the disk, and its image
    pc,             \* what the daemon is doing
    typed,          \* the name it has been asked for
    at,             \* the block that it reads next
    entries,        \* of the directory, so far
    file            \* what it will send

d64Vars == <<device, layout, d64, pc, typed, at, entries, file>>

Listing == <<"$">>
-----------------------------------------------------------------------------
(* The disk, as a 1541 writes it *)

Sectors == UNION {{<<t, s>> : s \in 0 .. SECTORS[t] - 1} : t \in 1 .. Tracks}
Before(p, q) == p[1] < q[1] \/ (p[1] = q[1] /\ p[2] < q[2])

(* A scratched file keeps its entry, but its blocks may be used again.     *)
Kept(l) == {l.slots[i].name : i \in {i \in DOMAIN l.slots : l.slots[i].type # "DEL"}}
UsedBy(l, n) == {p \in Sectors : \E i \in DOMAIN l.chain[n] : l.chain[n][i] = p}
Unused(l, t) == {p \in Sectors : p[1] = t /\ \A n \in Kept(l) : p \notin UsedBy(l, n)}

Padded(n) == [i \in 1 .. NameLimit |-> IF i <= Len(n) THEN n[i] ELSE Shifted]
Entry(l, slot) ==
    [type |-> slot.type, name |-> Padded(slot.name),
     start |-> l.chain[slot.name][1], size |-> Len(l.chain[slot.name])]

Plain == [link |-> <<0, 255>>, bytes |-> [i \in 1 .. BodySize |-> 0], entries |-> <<>>,
          free |-> <<>>]

(* Block i of a chain *)
LinkOf(chain, i, last) == IF i = Len(chain) THEN <<0, last>> ELSE chain[i + 1]

DataBlock(l, n, i) ==
    LET from == (i - 1) * BodySize
        used == Len(l.data[n]) - from
    IN  [Plain EXCEPT
            !.link = LinkOf(l.chain[n], i, used + 1),
            !.bytes = [k \in 1 .. BodySize |-> IF k <= used THEN l.data[n][from + k] ELSE 0]]

DirBlock(l, i) ==
    [Plain EXCEPT
        !.link = LinkOf(l.dir, i, 255),
        !.entries = [k \in 1 .. Slots |-> Entry(l, l.slots[(i - 1) * Slots + k])]]

BAM(l) == [Plain EXCEPT !.free = [t \in 1 .. Tracks |-> Cardinality(Unused(l, t))]]

(* The links in l.altered are not as they should be. *)
Disk(l) ==
    LET Block(p) ==
            CASE p = <<DirTrack, 0>> -> BAM(l)
              [] \E i \in DOMAIN l.dir : l.dir[i] = p ->
                    DirBlock(l, CHOOSE i \in DOMAIN l.dir : l.dir[i] = p)
              [] \E n \in Kept(l) : p \in UsedBy(l, n) ->
                    LET n == CHOOSE n \in Kept(l) : p \in UsedBy(l, n)
                    IN  DataBlock(l, n, CHOOSE i \in DOMAIN l.chain[n] : l.chain[n][i] = p)
              [] OTHER -> Plain
    IN  [p \in Sectors |->
            IF p \in DOMAIN l.altered THEN [Block(p) EXCEPT !.link = l.altered[p]]
            ELSE Block(p)]

(* Its image has the blocks one after the other. *)
ImageOf(l) ==
    [b \in 0 .. Cardinality(Sectors) - 1 |->
        Disk(l)[CHOOSE p \in Sectors : Cardinality({q \in Sectors : Before(q, p)}) = b]]
-----------------------------------------------------------------------------
(* Reading it *)

block(p) ==
    IF p[1] = 1 THEN p[2]
    ELSE FoldLeft(LAMBDA n, sectors : n + sectors, 0, SubSeq(SECTORS, 1, p[1] - 1)) + p[2]

(* Anywhere else, read_block gives nil, or there is no SECTORS[tr-1].      *)
Readable(p) == p[1] <= Len(SECTORS) + 1 /\ block(p) \in DOMAIN d64
read_block(p) == d64[block(p)]

(* Bound: in a cycle, what is read grows without end; without one no block *)
(* is read twice.                                                          *)
Bounded(s, perBlock) == SubSeq(s, 1, Min({Len(s), perBlock * Cardinality(DOMAIN d64)}))

(* Mutant: the entries of scratched files count. *)
IsUsed(e) == e.size > 0

IsProgram(e) == e.type = "PRG"
NameOf(e) == Trim(e.name, {Space, Shifted})
Found(all) == SelectSeq(all, LAMBDA e : NameOf(e) = Trim(C64Name(typed), {Space, Shifted}))

Lines(all) == [i \in DOMAIN all |-> [size |-> all[i].size, name |-> NameOf(all[i])]]
free(bam) ==
    FoldLeft(LAMBDA n, t : IF t = DirTrack THEN n ELSE n + bam[t], 0,
             [t \in 1 .. Tracks |-> t])
directory(all) == [lines |-> Lines(all), free |-> free(read_block(<<DirTrack, 0>>).free)]

(* The disk is only read: its device is readonly.                         *)
ondisk == device = "d64" /\ UNCHANGED <<device, layout, d64, files, saves, saved>>

open(n) ==
    /\ ondisk
    /\ up /\ pc = "idle"
    /\ Fits(n)
    /\ typed' = n
    /\ pc' = "entries" /\ at' = <<DirTrack, 1>>
    /\ UNCHANGED <<up, entries, file>>

(* tmp.uint8 of nothing raises an exception, which ends the daemon.        *)
Crash ==
    /\ ondisk
    /\ pc \in {"entries", "data"}
    /\ ~Readable(at)
    /\ up' = FALSE
    /\ pc' = "idle" /\ at' = <<0, 0>> /\ entries' = <<>> /\ file' = <<>>
    /\ UNCHANGED typed

(* When the last block of the directory has been read *)
EndOfEntries(all) ==
    \/ /\ C64Name(typed) = Listing
       /\ file' = directory(all)
       /\ pc' = "open" /\ at' = <<0, 0>>
    \/ /\ C64Name(typed) # Listing /\ Found(all) = <<>>
       /\ pc' = "missing" /\ at' = <<0, 0>>
       /\ UNCHANGED file
    \/ /\ C64Name(typed) # Listing /\ Found(all) # <<>>
       /\ pc' = "data" /\ at' = Found(all)[1].start
       /\ UNCHANGED file

collect_directory_entries ==
    /\ ondisk
    /\ pc = "entries"
    /\ Readable(at)
    /\ LET blk == read_block(at)
           all == Bounded(entries \o SelectSeq(blk.entries, IsProgram), Slots)
       IN  /\ entries' = all
           /\ IF blk.link[1] = 0 THEN EndOfEntries(all)
              ELSE at' = blk.link /\ UNCHANGED <<pc, file>>
    /\ UNCHANGED <<up, typed>>

read_data ==
    /\ ondisk
    /\ pc = "data"
    /\ Readable(at)
    /\ LET blk == read_block(at)
           last == Min({blk.link[2] - 1, BodySize})
       IN  IF blk.link[1] = 0
           THEN /\ file' = file \o SubSeq(blk.bytes, 1, last)
                /\ pc' = "open" /\ at' = <<0, 0>>
           ELSE /\ file' = Bounded(file \o blk.bytes, BodySize)
                /\ at' = blk.link
                /\ UNCHANGED pc
    /\ UNCHANGED <<up, typed, entries>>

close ==
    /\ ondisk
    /\ pc \in {"open", "missing"}
    /\ pc' = "idle" /\ entries' = <<>> /\ file' = <<>>
    /\ UNCHANGED <<up, typed, at>>

DevicesInit ==
    /\ Init
    /\ device \in {"dir", "d64"}
    /\ layout \in Layouts
    /\ device = "dir" => layout = CHOOSE l \in Layouts : TRUE
    /\ device = "d64" => files = {}
    /\ d64 = ImageOf(layout)
    /\ pc = "idle" /\ typed = Listing /\ at = <<0, 0>> /\ entries = <<>> /\ file = <<>>

DevicesNext ==
    \/ device = "dir" /\ Next /\ UNCHANGED d64Vars
    \/ device = "d64" /\ Restart /\ UNCHANGED d64Vars
    \/ \E n \in Names \cup {Listing} : open(n)
    \/ collect_directory_entries \/ read_data \/ Crash \/ close

allVars == <<vars, d64Vars>>

(* Once it has begun to open a file, the daemon does nothing else.         *)
DevicesSpec ==
    /\ DevicesInit /\ [][DevicesNext]_allVars
    /\ WF_allVars(collect_directory_entries) /\ WF_allVars(read_data) /\ WF_allVars(Crash)
-----------------------------------------------------------------------------
(* What the listing, or a file, should be: that of the program whose name  *)
(* it is, as it was written.                                               *)
Programs == SelectSeq(layout.slots, LAMBDA slot : slot.type = "PRG")

Right ==
    LET name == C64Name(typed)
    IN  CASE name = Listing ->
                /\ pc = "open"
                /\ file.lines = [i \in DOMAIN Programs |->
                                    [size |-> Len(layout.chain[Programs[i].name]),
                                     name |-> Programs[i].name]]
                /\ file.free = Cardinality(UNION {Unused(layout, t) :
                                                     t \in (1 .. Tracks) \ {DirTrack}})
          [] name # Listing /\ \E i \in DOMAIN Programs : Programs[i].name = name ->
                pc = "open" /\ file = layout.data[name]
          [] OTHER -> pc = "missing"

(* Where the links lead, from a block on: as far as there are blocks.      *)
After(start) ==
    LET walk[i \in 0 .. Cardinality(Sectors)] ==
            IF i = 0 THEN start
            ELSE LET p == walk[i - 1]
                 IN  IF p[1] # 0 /\ Readable(p) THEN read_block(p).link ELSE p
    IN  walk[Cardinality(Sectors)]

Ends(start) == After(start)[1] = 0 \/ ~Readable(After(start))
Acyclic ==
    /\ Ends(<<DirTrack, 1>>)
    /\ \A n \in DOMAIN layout.chain : Ends(layout.chain[n][1])

(* A LOAD from a disk image gets the file, all of it and nothing else,     *)
(* wherever the disk has its blocks: among files with names that begin     *)
(* alike, scratched ones that still have theirs in the directory, and a    *)
(* directory of more than one block; or, for "$", the programs there are   *)
(* and how many blocks are free. With links that are wrong it ends too, if *)
(* only by an exception; only a cycle of them keeps the daemon for ever.   *)
DiskLoads ==
    (pc \in {"entries", "data"} /\ Acyclic) ~>
        /\ pc \notin {"entries", "data"}
        /\ layout.altered = <<>> => Right
=============================================================================
