-------------------------------- MODULE Stash --------------------------------
(***************************************************************************)
(* The scratch memory of EtherCard.cpp: strings kept in pages of the       *)
(* Ethernet chip, of which two are held in RAM, and the message that       *)
(* prepare() describes in page 0.                                          *)
(*                                                                         *)
(* A memory is [map, bufs, chip, short]; a function of the code becomes an *)
(* operator from the memory, and a stash, before it to those after it. A   *)
(* word takes one cell of a page, like a byte.                             *)
(***************************************************************************)
EXTENDS Integers, Sequences, SequencesExt

CONSTANTS
    PageSize,       \* 64
    Pages,          \* 56, the pages of the chip; page 0 is prepare()'s
    Formats,        \* format strings, sequences of characters and $ directives
    Strings         \* strings in RAM, flash memory or EEPROM

(* $D, a number, $F ($S and $E likewise), a string, and $H, a stash *)
D == -1
F == -2
H == -3
Directives == {D, F, H}

NoPage == 255
ASSUME PageAssumption == PageSize \in Nat /\ PageSize >= 6 /\ Pages \in 2 .. NoPage

HeaderSize == 3             \* of a stash: count, first and last, in its first page
TailAt == PageSize - 2      \* shared with the last byte of a page that is full
NextAt == PageSize - 1

Head3(page) == [count |-> page[0], first |-> page[1], last |-> page[2]]

allocBlock(m) ==
    IF m.map = {} THEN [mem |-> [m EXCEPT !.short = TRUE], blk |-> 0]
    ELSE LET blk == CHOOSE b \in m.map : \A c \in m.map : b <= c
         IN  [mem |-> [m EXCEPT !.map = @ \ {blk}], blk |-> blk]

(* The chip's side: other pages are not there. *)
copyout(m, page, bytes) ==
    IF page \in DOMAIN m.chip THEN [m EXCEPT !.chip[page] = bytes] ELSE m
copyin(m, page, bytes) == IF page \in DOMAIN m.chip THEN m.chip[page] ELSE bytes
peekin(m, page, off) == IF page \in DOMAIN m.chip THEN m.chip[page][off] ELSE 0

(* Mutant: the buffer for writing is looked at last. *)
fetchByteStale(m, blk, off) ==
    CASE blk = m.bufs[1].bnum -> m.bufs[1].bytes[off]
      [] blk = m.bufs[0].bnum /\ blk # m.bufs[1].bnum -> m.bufs[0].bytes[off]
      [] OTHER -> peekin(m, blk, off)

fetchByte(m, blk, off) ==
    CASE blk = m.bufs[0].bnum -> m.bufs[0].bytes[off]
      [] blk = m.bufs[1].bnum /\ blk # m.bufs[0].bnum -> m.bufs[1].bytes[off]
      [] OTHER -> peekin(m, blk, off)

(* Buffer 0 is for writing and written back, buffer 1 for reading. *)
fetched(m, idx, blk) ==
    [m EXCEPT
        !.bufs[1].bnum = IF idx = 0 /\ blk = @ THEN NoPage ELSE @,
        !.bufs[idx] = [bnum |-> blk, bytes |-> copyin(m, blk, @.bytes)]]

load(m, idx, blk) ==
    IF blk = m.bufs[idx].bnum THEN m
    ELSE IF idx = 1 /\ blk = m.bufs[0].bnum THEN [m EXCEPT !.bufs[1] = m.bufs[0]]
    ELSE fetched(IF idx = 0 THEN copyout(m, m.bufs[0].bnum, m.bufs[0].bytes) ELSE m, idx, blk)

(* A stash: the header it was opened with, and where get() is. *)
NoStash == [count |-> 0, first |-> 0, last |-> 0, curr |-> 0, offs |-> 0]

open(m, blk) ==
    LET w == load(m, 1, blk)
        head == Head3(w.bufs[1].bytes)
    IN  [mem |-> w,
         obj |-> [count |-> head.count, first |-> head.first, last |-> head.last,
                  curr |-> blk, offs |-> HeaderSize]]

create(m) ==
    LET a == allocBlock(m)
    IN  open([load(a.mem, 0, a.blk) EXCEPT
                 !.bufs[0].bytes = [@ EXCEPT ![0] = 0, ![1] = a.blk, ![2] = a.blk,
                                             ![TailAt] = HeaderSize, ![NextAt] = 0]],
             a.blk)

save(m, s) ==
    LET w == load(m, 0, s.first)
        v == [w EXCEPT !.bufs[0].bytes =
                 [@ EXCEPT ![0] = s.count, ![1] = s.first, ![2] = s.last]]
    IN  IF v.bufs[1].bnum = s.first THEN load(v, 1, 0) ELSE v

(* The pages that release() goes through, as the chip has them linked.     *)
Links(m, first) ==
    LET page[n \in 0 .. Pages] ==
            IF n = 0 THEN first
            ELSE LET p == page[n - 1] IN IF p = 0 THEN 0 ELSE peekin(m, p, NextAt)
    IN  page
Chain(m, first) == {Links(m, first)[n] : n \in 0 .. Pages} \ {0}

(* Mutant: only the first page is freed. *)
releaseFirst(m, s) == [m EXCEPT !.map = @ \cup {s.first}]

release(m, s) == [m EXCEPT !.map = @ \cup Chain(m, s.first)]

poke(m, i, c) == [m EXCEPT !.bufs[0].bytes[i] = c]
started(m) == [m EXCEPT !.bufs[0].bytes = [@ EXCEPT ![TailAt] = 0, ![NextAt] = 0]]
put(m, s, c) ==
    LET w == load(m, 0, s.last)
        t == w.bufs[0].bytes[TailAt]
        v == poke(w, t, c)
        a == allocBlock(v)
    IN  IF t + 1 <= TailAt
        THEN [mem |-> poke(v, TailAt, t + 1), obj |-> s]
        ELSE [mem |-> started(load(poke(a.mem, NextAt, a.blk), 0, a.blk)),
              obj |-> [s EXCEPT !.last = a.blk, !.count = @ + 1]]

(* print() puts one byte after the other. *)
Prints(m, s, bytes) ==
    LET after[k \in 0 .. Len(bytes)] ==
            IF k = 0 THEN [mem |-> m, obj |-> s]
            ELSE put(after[k - 1].mem, after[k - 1].obj, bytes[k])
    IN  after
print(m, s, bytes) == Prints(m, s, bytes)[Len(bytes)]

(* c = 0 at the end *)
get(m, s) ==
    LET w == load(m, 1, s.curr)
        page == w.bufs[1].bytes
    IN  CASE s.curr = s.last /\ s.offs >= page[TailAt] -> [mem |-> w, obj |-> s, c |-> 0]
          [] s.curr # s.last /\ s.offs + 1 >= NextAt ->
                [mem |-> w, obj |-> [s EXCEPT !.curr = page[NextAt], !.offs = 0],
                 c |-> page[s.offs]]
          [] OTHER -> [mem |-> w, obj |-> [s EXCEPT !.offs = @ + 1], c |-> page[s.offs]]

(* Mutant: the last byte of a page is counted, which is the link. *)
sizeWhole(m, s) == PageSize * s.count + fetchByte(m, s.last, TailAt) - HeaderSize

size(m, s) == (PageSize - 1) * s.count + fetchByte(m, s.last, TailAt) - HeaderSize
-----------------------------------------------------------------------------
(* The message *)

(* The decimal digits of a number. *)
wtoa[value \in Nat] ==
    IF value > 9 THEN Append(wtoa[value \div 10], 48 + (value % 10)) ELSE <<48 + value>>

(* The argument of directive i of a format is in this cell of page 0. *)
ArgAt(fmt, i) == 1 + Len(SelectSeq(SubSeq(fmt, 1, i), LAMBDA p : p \in Directives))

(* What stands for one character of a format, or for a directive and its   *)
(* argument, and so for the whole format; stash is what the stash holds.   *)
Piece(p, arg, stash) ==
    CASE p = D -> wtoa[arg]
      [] p = F -> Strings[arg]
      [] p = H -> stash
      [] OTHER -> <<p>>
Rendered(f, args, stash) ==
    LET fmt == Formats[f]
    IN  FlattenSeq([i \in DOMAIN fmt |-> Piece(fmt[i], args[ArgAt(fmt, i) - 1], stash)])

(* prepare() adds the lengths up, and opens each stash for that. *)
measured(e, p, arg) ==
    LET s == open(e.mem, arg)
    IN  CASE p = D -> [e EXCEPT !.len = @ + Len(wtoa[arg])]
          [] p = F -> [e EXCEPT !.len = @ + Len(Strings[arg])]
          [] p = H -> [mem |-> s.mem, len |-> e.len + size(s.mem, s.obj)]
          [] OTHER -> [e EXCEPT !.len = @ + 1]
Measures(m, f, args) ==
    LET fmt == Formats[f]
        after[i \in 0 .. Len(fmt)] ==
            IF i = 0 THEN [mem |-> load(m, 0, 0), len |-> 0]
            ELSE measured(after[i - 1], fmt[i], args[ArgAt(fmt, i) - 1])
    IN  after

(* words[0] is the length, words[1] the format, then come the arguments. *)
prepare(m, f, args) ==
    LET end == Measures(m, f, args)[Len(Formats[f])]
        Cell(i) == CASE i = 0 -> end.len [] i = 1 -> f [] OTHER -> args[i - 1]
    IN  [end.mem EXCEPT !.bufs[0].bytes =
            [i \in DOMAIN @ |-> IF i <= 1 + Len(args) THEN Cell(i) ELSE @[i]]]

length(m) == LET w == load(m, 0, 0) IN [mem |-> w, len |-> w.bufs[0].bytes[0]]

(* extract() goes through the format a character at a time. A pending      *)
(* number or string is in text, a pending stash in obj; mode is the        *)
(* directive it is from.                                                   *)
emit(e, offset, c) ==
    [e EXCEPT !.n = @ + 1, !.out = IF e.n >= offset THEN Append(@, c) ELSE @]

literal(e, words, offset) ==
    LET fmt == Formats[words[1]]
        p == fmt[e.pos]
        arg == words[ArgAt(fmt, e.pos)]
        s == open(e.mem, arg)
        n == [e EXCEPT !.pos = @ + 1]
    IN  CASE p = D -> [n EXCEPT !.mode = p, !.text = wtoa[arg]]
          [] p = F -> [n EXCEPT !.mode = p, !.text = Strings[arg]]
          [] p = H -> [n EXCEPT !.mode = p, !.mem = s.mem, !.obj = s.obj]
          [] OTHER -> emit(n, offset, p)

pending(e, offset) ==
    IF e.text = <<>> THEN [e EXCEPT !.mode = 0]
    ELSE emit([e EXCEPT !.text = Tail(@)], offset, Head(e.text))

stashed(e, offset) ==
    LET g == get(e.mem, e.obj)
        n == [e EXCEPT !.mem = g.mem, !.obj = g.obj]
    IN  IF g.c = 0 THEN [n EXCEPT !.mode = 0] ELSE emit(n, offset, g.c)

extractStep(e, words, offset, count) ==
    CASE e.n >= offset + count \/ (e.mode = 0 /\ e.pos > Len(Formats[words[1]])) -> e
      [] e.n < offset + count /\ e.mode = 0 /\ e.pos <= Len(Formats[words[1]]) ->
            literal(e, words, offset)
      [] e.n < offset + count /\ e.mode = H -> stashed(e, offset)
      [] OTHER -> pending(e, offset)

(* As many steps as it may need. *)
Extracts(m, offset, count) ==
    LET w == load(m, 0, 0)
        words == w.bufs[0].bytes
        after[k \in 0 .. offset + count + 2 * Len(Formats[words[1]])] ==
            IF k = 0
            THEN [mem |-> w, pos |-> 1, mode |-> 0, text |-> <<>>, obj |-> NoStash,
                  n |-> 0, out |-> <<>>]
            ELSE extractStep(after[k - 1], words, offset, count)
    IN  after
extract(m, offset, count) ==
    Extracts(m, offset, count)[offset + count + 2 * Len(Formats[load(m, 0, 0).bufs[0].bytes[1]])]

freed(m, p, arg) ==
    LET s == open(m, arg)
    IN  IF p = H THEN release(s.mem, s.obj) ELSE m
Cleanups(m) ==
    LET w == load(m, 0, 0)
        words == w.bufs[0].bytes
        fmt == Formats[words[1]]
        after[i \in 0 .. Len(fmt)] ==
            IF i = 0 THEN w ELSE freed(after[i - 1], fmt[i], words[ArgAt(fmt, i)])
    IN  after
cleanup(m) == Cleanups(m)[Len(Formats[load(m, 0, 0).bufs[0].bytes[1]])]

(* What the program starts with: both buffers are page 0, and the chip     *)
(* holds anything, here what is never a sensible byte.                     *)
begin ==
    LET Page(c) == [i \in 0 .. PageSize - 1 |-> c]
    IN  [map |-> 1 .. Pages - 1, short |-> FALSE,
         bufs |-> [i \in 0 .. 1 |-> [bnum |-> 0, bytes |-> Page(0)]],
         chip |-> [p \in 0 .. Pages - 1 |-> Page(Pages - 1)]]
=============================================================================
