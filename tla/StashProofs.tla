----------------------------- MODULE StashProofs -----------------------------
(***************************************************************************)
(* Proofs about the scratch memory, for pages and chips of any size: where *)
(* the content of a page is, what a stash gives back, and what the message *)
(* is that prepare() describes.                                            *)
(***************************************************************************)
EXTENDS Stash, FiniteSetTheorems, WellFoundedInduction, TLAPS

PageNo == 0 .. Pages - 1
Memory(C) ==
    LET Bytes == [0 .. PageSize - 1 -> C]
    IN  [map : SUBSET (1 .. Pages - 1), short : BOOLEAN,
         bufs : [0 .. 1 -> [bnum : PageNo \cup {NoPage}, bytes : Bytes]],
         chip : [PageNo -> Bytes]]

(* A memory, whatever its cells hold. Buffer 0 always has a page. *)
Shape(m) == (\E C : m \in Memory(C)) /\ m.bufs[0].bnum \in PageNo

(* The content of a page, which is in buffer 0 or else in the chip; and    *)
(* is a copy of it in buffer 1 up to date?                                 *)
Page(m, p) == IF m.bufs[0].bnum = p THEN m.bufs[0].bytes ELSE m.chip[p]
Fresh(m, p) == m.bufs[1].bnum = p => m.bufs[1].bytes = Page(m, p)

SamePages(m, w) == \A p \in PageNo : Page(w, p) = Page(m, p)
SameMap(m, w) == w.map = m.map /\ w.short = m.short

(* How many bytes of a text there are before cell o of page j of its stash.*)
Pos(j, o) == (PageSize - 1) * (j - 1) + o - HeaderSize

(* The pages ch hold the text, and are linked in this order. *)
Written(m, ch, text) ==
    /\ ch \in Seq(1 .. Pages - 1) /\ Len(ch) >= 1
    /\ \A i, j \in DOMAIN ch : ch[i] = ch[j] => i = j
    /\ text \in Seq(Nat \ {0})
    /\ \A j \in 1 .. Len(ch) - 1 : Page(m, ch[j])[NextAt] = ch[j + 1]
    /\ LET last == Page(m, ch[Len(ch)])
       IN  /\ last[NextAt] = 0
           /\ last[TailAt] \in 0 .. TailAt
           /\ Len(text) = Pos(Len(ch), last[TailAt])
    /\ \A j \in DOMAIN ch : \A o \in 0 .. TailAt :
         Pos(j, o) \in 0 .. Len(text) - 1 => Page(m, ch[j])[o] = text[Pos(j, o) + 1]

(* s is an object for the stash, and get() has taken k bytes with it. *)
IsStash(s) ==
    s = [count |-> s.count, first |-> s.first, last |-> s.last, curr |-> s.curr, offs |-> s.offs]
Owns(s, ch) ==
    /\ IsStash(s)
    /\ s.count = Len(ch) - 1 /\ s.first = ch[1] /\ s.last = ch[Len(ch)]
Reading(s, ch, k) ==
    \E j \in DOMAIN ch : s.curr = ch[j] /\ s.offs \in 0 .. TailAt /\ Pos(j, s.offs) = k

(* It has been saved, so that others may open it, and read it. *)
Saved(m, ch, text) ==
    /\ Written(m, ch, text)
    /\ LET head == Head3(Page(m, ch[1]))
       IN  head.count = Len(ch) - 1 /\ head.first = ch[1] /\ head.last = ch[Len(ch)]
    /\ \A p \in Range(ch) : Fresh(m, p)
-----------------------------------------------------------------------------
(* < as a set of pairs *)
Before == {p \in Nat \X Nat : p[1] < p[2]}

(* Every set of numbers has a least one. *)
LEMMA Least ==
    ASSUME NEW T \in SUBSET Nat, T # {}
    PROVE  \E m \in T : \A k \in T : m <= k
<1>1. IsWellFoundedOn(Before, Nat)
  BY NatLessThanWellFounded DEF OpToRel, Before
<1>2. PICK m \in T : \A k \in T : ~(<<k, m>> \in Before)
  BY <1>1, WFMin
<1>3. \A k \in T : ~(k < m)
  BY <1>2 DEF Before
<1>4. QED
  BY <1>3

LEMMA PagesNat == PageSize \in Nat /\ PageSize >= 6 /\ Pages \in Nat /\ Pages >= 2 /\ Pages <= 255
BY PageAssumption DEF NoPage

LEMMA PageType ==
    ASSUME NEW C, NEW m \in Memory(C), m.bufs[0].bnum \in PageNo, NEW p \in PageNo
    PROVE  Page(m, p) \in [0 .. PageSize - 1 -> C]
BY DEF Memory, Page

(* load(0, p) writes buffer 0 back and gives it page p. *)
LEMMA LoadWrite ==
    ASSUME NEW m, Shape(m), NEW p \in PageNo, NEW w, w = load(m, 0, p)
    PROVE  /\ Shape(w) /\ SameMap(m, w) /\ SamePages(m, w)
           /\ w.bufs[0].bnum = p /\ w.bufs[0].bytes = Page(m, p)
           /\ w.bufs[1].bytes = m.bufs[1].bytes
           /\ p = m.bufs[0].bnum => w.bufs[1].bnum = m.bufs[1].bnum
           /\ p # m.bufs[0].bnum =>
                w.bufs[1].bnum = IF m.bufs[1].bnum = p THEN NoPage ELSE m.bufs[1].bnum
<1>1. PICK C : m \in Memory(C)
  BY DEF Shape
<1>2. CASE p = m.bufs[0].bnum
  <2>1. w = m
    BY <1>2 DEF load
  <2>2. QED
    BY <1>2, <2>1 DEF SameMap, SamePages, Page
<1>3. CASE p # m.bufs[0].bnum
  <2> DEFINE b == m.bufs[0].bnum
             v == [m EXCEPT !.chip[b] = m.bufs[0].bytes]
  <2>1. b \in PageNo /\ b \in DOMAIN m.chip
    BY <1>1 DEF Shape, Memory
  <2>2. v = copyout(m, b, m.bufs[0].bytes)
    BY <2>1 DEF copyout
  <2>3. /\ v \in Memory(C) /\ v.bufs = m.bufs /\ v.map = m.map /\ v.short = m.short
        /\ v.chip = [m.chip EXCEPT ![b] = m.bufs[0].bytes]
    BY <1>1, <2>1 DEF Memory
  <2>7. \A q \in PageNo : v.chip[q] = Page(m, q)
    BY <1>1, <2>1, <2>3 DEF Memory, Page
  <2> HIDE DEF v
  <2>4. copyin(v, p, m.bufs[0].bytes) = v.chip[p]
    BY <2>3 DEF copyin, Memory
  <2>15. w = fetched(v, 0, p)
    BY <1>3, <2>2 DEF load
  <2>5. w = [v EXCEPT !.bufs[1].bnum = IF p = @ THEN NoPage ELSE @,
                      !.bufs[0] = [bnum |-> p, bytes |-> v.chip[p]]]
    BY <2>3, <2>4, <2>15 DEF fetched
  <2> DEFINE old == [v.bufs[1] EXCEPT !.bnum = IF p = @ THEN NoPage ELSE @]
             new == [bnum |-> p, bytes |-> v.chip[p]]
             u == [v EXCEPT !.bufs = [[v.bufs EXCEPT ![1] = old] EXCEPT ![0] = new]]
  <2>11. w = u
    BY <2>3, <2>5 DEF Memory
  <2>12. /\ old \in [bnum : PageNo \cup {NoPage}, bytes : [0 .. PageSize - 1 -> C]]
         /\ new \in [bnum : PageNo \cup {NoPage}, bytes : [0 .. PageSize - 1 -> C]]
    BY <2>3 DEF Memory
  <2>6. /\ w \in Memory(C) /\ w.chip = v.chip /\ w.map = v.map /\ w.short = v.short
        /\ w.bufs[0] = new /\ w.bufs[1] = old
    <3> HIDE DEF old, new
    <3>1. QED
      BY <2>3, <2>11, <2>12 DEF Memory
  <2>8. /\ w.bufs[1].bytes = m.bufs[1].bytes
        /\ w.bufs[1].bnum = IF m.bufs[1].bnum = p THEN NoPage ELSE m.bufs[1].bnum
    BY <1>1, <2>3, <2>6 DEF Memory
  <2>9. SamePages(m, w)
    BY <2>6, <2>7 DEF SamePages, Page
  <2>10. QED
    BY <1>3, <2>3, <2>6, <2>7, <2>8, <2>9 DEF Shape, SameMap
<1>4. QED
  BY <1>2, <1>3

(* load(1, p) copies page p to buffer 1, unless it is there. *)
LEMMA LoadRead ==
    ASSUME NEW m, Shape(m), NEW p \in PageNo, NEW w, w = load(m, 1, p)
    PROVE  /\ Shape(w) /\ SameMap(m, w) /\ SamePages(m, w)
           /\ w.bufs[0] = m.bufs[0] /\ w.chip = m.chip
           /\ w.bufs[1].bnum = p
           /\ Fresh(m, p) => w.bufs[1].bytes = Page(m, p)
           /\ p = m.bufs[1].bnum => w = m
<1>1. PICK C : m \in Memory(C)
  BY DEF Shape
<1>2. CASE p = m.bufs[1].bnum
  <2>1. w = m
    BY <1>2 DEF load
  <2>2. QED
    BY <1>2, <2>1 DEF SameMap, SamePages, Fresh
<1>3. CASE p # m.bufs[1].bnum
  <2>1. p = m.bufs[0].bnum => w = [m EXCEPT !.bufs[1] = m.bufs[0]]
    BY <1>3 DEF load
  <2>2. copyin(m, p, m.bufs[1].bytes) = m.chip[p]
    BY <1>1 DEF copyin, Memory
  <2>3. [m EXCEPT !.bufs[1].bnum = IF 1 = 0 /\ p = @ THEN NoPage ELSE @,
                  !.bufs[1] = [bnum |-> p, bytes |-> copyin(m, p, @.bytes)]]
        = [m EXCEPT !.bufs[1] = [bnum |-> p, bytes |-> m.chip[p]]]
    BY <1>1, <2>2, Zenon DEF Memory
  <2>4. p # m.bufs[0].bnum => w = [m EXCEPT !.bufs[1] = [bnum |-> p, bytes |-> m.chip[p]]]
    <3> DEFINE v == IF 1 = 0 THEN copyout(m, m.bufs[0].bnum, m.bufs[0].bytes) ELSE m
    <3>1. p # m.bufs[0].bnum =>
            w = [v EXCEPT !.bufs[1].bnum = IF 1 = 0 /\ p = @ THEN NoPage ELSE @,
                          !.bufs[1] = [bnum |-> p, bytes |-> copyin(v, p, @.bytes)]]
      BY <1>3, Zenon DEF load, fetched
    <3>2. v = m
      OBVIOUS
    <3> HIDE DEF v
    <3>3. QED
      BY <2>3, <3>1, <3>2
  <2>5. w = [m EXCEPT !.bufs[1] = [bnum |-> p, bytes |-> Page(m, p)]]
    <3>1. p = m.bufs[0].bnum => m.bufs[0] = [bnum |-> p, bytes |-> Page(m, p)]
      BY <1>1 DEF Page, Memory
    <3>2. QED
      BY <2>1, <2>4, <3>1 DEF Page
  <2>6. Page(m, p) \in [0 .. PageSize - 1 -> C]
    BY <1>1, PageType DEF Shape
  <2>7. /\ w \in Memory(C) /\ w.chip = m.chip /\ w.map = m.map /\ w.short = m.short
        /\ w.bufs[0] = m.bufs[0] /\ w.bufs[1] = [bnum |-> p, bytes |-> Page(m, p)]
    BY <1>1, <2>5, <2>6 DEF Memory
  <2>8. QED
    BY <1>3, <2>7 DEF Shape, SameMap, SamePages, Page
<1>4. QED
  BY <1>2, <1>3

(* b is what a page may contain. *)
IsPage(b) == b = [o \in 0 .. PageSize - 1 |-> b[o]]

LEMMA PageIsPage ==
    ASSUME NEW m, Shape(m), NEW p \in PageNo
    PROVE  IsPage(Page(m, p))
BY PageType DEF Shape, IsPage

LEMMA CellWritten ==
    ASSUME NEW b, IsPage(b), NEW x, NEW c, NEW d, d = [b EXCEPT ![x] = c]
    PROVE  /\ IsPage(d)
           /\ \A o \in 0 .. PageSize - 1 : d[o] = IF o = x THEN c ELSE b[o]
BY DEF IsPage

Stored(m, b) == [m EXCEPT !.bufs[0].bytes = b]

(* What is written to buffer 0 becomes the content of its page. *)
LEMMA WriteBuffer ==
    ASSUME NEW m, Shape(m), NEW b, IsPage(b), NEW w, w = Stored(m, b)
    PROVE  /\ Shape(w) /\ SameMap(m, w)
           /\ w.bufs[0].bnum = m.bufs[0].bnum /\ w.bufs[0].bytes = b
           /\ w.bufs[1] = m.bufs[1] /\ w.chip = m.chip
           /\ \A p : Page(w, p) = IF p = m.bufs[0].bnum THEN b ELSE Page(m, p)
<1>1. PICK C : m \in Memory(C)
  BY DEF Shape
<1> DEFINE E == C \cup {b[o] : o \in 0 .. PageSize - 1}
<1>2. b \in [0 .. PageSize - 1 -> E]
  BY DEF IsPage
<1>3. m \in Memory(E)
  BY <1>1 DEF Memory
<1> HIDE DEF E
<1>4. /\ w \in Memory(E) /\ w.chip = m.chip /\ w.map = m.map /\ w.short = m.short
      /\ w.bufs[0] = [m.bufs[0] EXCEPT !.bytes = b] /\ w.bufs[1] = m.bufs[1]
  BY <1>2, <1>3 DEF Memory, Stored
<1>5. w.bufs[0].bnum = m.bufs[0].bnum /\ w.bufs[0].bytes = b
  BY <1>3, <1>4 DEF Memory
<1>6. QED
  BY <1>4, <1>5 DEF Shape, SameMap, Page

WithMap(m, S) == [m EXCEPT !.map = S]

LEMMA SetMap ==
    ASSUME NEW m, Shape(m), NEW S \in SUBSET (1 .. Pages - 1), NEW w, w = WithMap(m, S)
    PROVE  /\ Shape(w)
           /\ w.map = S /\ w.short = m.short /\ w.bufs = m.bufs /\ w.chip = m.chip
<1>1. PICK C : m \in Memory(C)
  BY DEF Shape
<1>2. /\ w \in Memory(C)
      /\ w.map = S /\ w.short = m.short /\ w.bufs = m.bufs /\ w.chip = m.chip
  BY <1>1 DEF Memory, WithMap
<1>3. QED
  BY <1>2 DEF Shape

LEMMA SetShort ==
    ASSUME NEW m, Shape(m), NEW w, w = [m EXCEPT !.short = TRUE]
    PROVE  /\ Shape(w)
           /\ w.map = m.map /\ w.short = TRUE /\ w.bufs = m.bufs /\ w.chip = m.chip
<1>1. PICK C : m \in Memory(C)
  BY DEF Shape
<1>2. /\ w \in Memory(C)
      /\ w.map = m.map /\ w.short = TRUE /\ w.bufs = m.bufs /\ w.chip = m.chip
  BY <1>1 DEF Memory
<1>3. QED
  BY <1>2 DEF Shape

LEMMA ShapeMap ==
    ASSUME NEW m, Shape(m)
    PROVE  /\ m.map \in SUBSET (1 .. Pages - 1) /\ m.short \in BOOLEAN
           /\ m.bufs[0].bnum \in PageNo /\ m.bufs[1].bnum \in PageNo \cup {NoPage}
           /\ DOMAIN m.chip = PageNo
BY DEF Shape, Memory

(* allocBlock() takes a free page, if there is one. *)
LEMMA Alloc ==
    ASSUME NEW m, Shape(m), NEW a, a = allocBlock(m)
    PROVE  /\ a.blk \in PageNo
           /\ Shape(a.mem) /\ a.mem.bufs = m.bufs /\ a.mem.chip = m.chip
           /\ a.mem.map = m.map \ {a.blk}
           /\ m.map # {} => a.blk \in m.map /\ a.mem.short = m.short
           /\ m.map = {} => a.blk = 0 /\ a.mem.short = TRUE
<1>1. m.map \in SUBSET (1 .. Pages - 1)
  BY ShapeMap
<1>2. CASE m.map = {}
  <2>1. a = [mem |-> [m EXCEPT !.short = TRUE], blk |-> 0]
    BY <1>2 DEF allocBlock
  <2>2. a.mem = [m EXCEPT !.short = TRUE] /\ a.blk = 0
    BY <2>1
  <2>3. /\ Shape(a.mem) /\ a.mem.bufs = m.bufs /\ a.mem.chip = m.chip
        /\ a.mem.map = m.map /\ a.mem.short = TRUE
    BY <2>2, SetShort
  <2>4. QED
    BY <1>2, <2>2, <2>3, PagesNat DEF PageNo
<1>3. CASE m.map # {}
  <2> DEFINE blk == CHOOSE b \in m.map : \A c \in m.map : b <= c
  <2>1. a = [mem |-> [m EXCEPT !.map = @ \ {blk}], blk |-> blk]
    BY <1>3 DEF allocBlock
  <2>2. m.map \in SUBSET Nat
    BY <1>1
  <2>3. \E b \in m.map : \A c \in m.map : b <= c
    BY <1>3, <2>2, Least
  <2>4. blk \in m.map
    BY <2>3
  <2> HIDE DEF blk
  <2>5. m.map \ {blk} \in SUBSET (1 .. Pages - 1) /\ blk \in PageNo
    BY <1>1, <2>4, PagesNat DEF PageNo
  <2>6. /\ Shape(a.mem) /\ a.mem.bufs = m.bufs /\ a.mem.chip = m.chip
        /\ a.mem.map = m.map \ {blk} /\ a.mem.short = m.short
    <3>1. a.mem = [m EXCEPT !.map = m.map \ {blk}]
      BY <2>1
    <3> DEFINE S == m.map \ {blk}
    <3>2. S \in SUBSET (1 .. Pages - 1)
      BY <2>5
    <3> HIDE DEF S
    <3>3. a.mem = WithMap(m, S)
      BY <3>1 DEF S, WithMap
    <3>4. /\ Shape(a.mem) /\ a.mem.bufs = m.bufs /\ a.mem.chip = m.chip
          /\ a.mem.map = S /\ a.mem.short = m.short
      BY <3>2, <3>3, SetMap
    <3>5. QED
      BY <3>4 DEF S
  <2>7. a.blk = blk
    BY <2>1
  <2>8. QED
    BY <1>3, <2>4, <2>5, <2>6, <2>7
<1>4. QED
  BY <1>2, <1>3

(* The same buffers and chip are the same pages. *)
LEMMA SameBuffers ==
    ASSUME NEW m, NEW w, w.bufs = m.bufs, w.chip = m.chip
    PROVE  \A p : Page(w, p) = Page(m, p) /\ (Fresh(w, p) <=> Fresh(m, p))
BY DEF Page, Fresh

NewPage(b, blk) ==
    [b EXCEPT ![0] = 0, ![1] = blk, ![2] = blk, ![TailAt] = HeaderSize, ![NextAt] = 0]

LEMMA NewPageCells ==
    ASSUME NEW b, IsPage(b), NEW blk, NEW d, d = NewPage(b, blk)
    PROVE  IsPage(d) /\ d[0] = 0 /\ d[1] = blk /\ d[2] = blk /\ d[TailAt] = HeaderSize /\ d[NextAt] = 0
<1>1. DOMAIN b = 0 .. PageSize - 1 /\ DOMAIN d = DOMAIN b
  BY DEF IsPage, NewPage
<1>2. {0, 1, 2, TailAt, NextAt} \subseteq DOMAIN b
  BY <1>1, PagesNat DEF TailAt, NextAt
<1>3. TailAt \notin {0, 1, 2, NextAt} /\ NextAt \notin {0, 1, 2}
  BY PagesNat DEF TailAt, NextAt
<1>4. d[0] = 0 /\ d[1] = blk /\ d[2] = blk /\ d[TailAt] = HeaderSize /\ d[NextAt] = 0
  BY <1>2, <1>3 DEF NewPage
<1>5. d = [o \in DOMAIN b |-> d[o]]
  BY DEF NewPage
<1>6. QED
  BY <1>1, <1>4, <1>5 DEF IsPage

NewStash(b) == [count |-> 0, first |-> b, last |-> b, curr |-> b, offs |-> HeaderSize]

(* open() reads the header, which is in buffer 1 then. *)
LEMMA Open ==
    ASSUME NEW m, Shape(m), NEW p \in PageNo, NEW s, s = open(m, p)
    PROVE  /\ Shape(s.mem) /\ SameMap(m, s.mem) /\ SamePages(m, s.mem)
           /\ s.mem.bufs[0] = m.bufs[0] /\ s.mem.chip = m.chip
           /\ s.mem.bufs[1].bnum = p
           /\ Fresh(m, p) =>
                /\ s.mem.bufs[1].bytes = Page(m, p)
                /\ s.obj = [count |-> Page(m, p)[0], first |-> Page(m, p)[1],
                            last |-> Page(m, p)[2], curr |-> p, offs |-> HeaderSize]
           /\ p = m.bufs[1].bnum => s.mem = m
<1> DEFINE w == load(m, 1, p)
<1>1. /\ s.mem = w
      /\ s.obj = [count |-> w.bufs[1].bytes[0], first |-> w.bufs[1].bytes[1],
                  last |-> w.bufs[1].bytes[2], curr |-> p, offs |-> HeaderSize]
  BY DEF open, Head3
<1> HIDE DEF w
<1>2. /\ Shape(w) /\ SameMap(m, w) /\ SamePages(m, w)
      /\ w.bufs[0] = m.bufs[0] /\ w.chip = m.chip
      /\ w.bufs[1].bnum = p
      /\ Fresh(m, p) => w.bufs[1].bytes = Page(m, p)
      /\ p = m.bufs[1].bnum => w = m
  BY LoadRead DEF w
<1>3. QED
  BY <1>1, <1>2

(* create() gives a free page, not in a buffer yet, the header of an empty *)
(* stash.                                                                  *)
LEMMA CreateIs ==
    ASSUME NEW m, Shape(m), m.bufs[0].bnum \notin m.map, m.map # {},
           NEW c, c = create(m)
    PROVE  \E b \in m.map :
             /\ Shape(c.mem) /\ c.mem.map = m.map \ {b} /\ c.mem.short = m.short
             /\ c.obj = NewStash(b)
             /\ c.mem.bufs[0].bnum = b /\ c.mem.bufs[1].bnum = b
             /\ \A p \in PageNo \ {b} : Page(c.mem, p) = Page(m, p)
             /\ Page(c.mem, b)[TailAt] = HeaderSize /\ Page(c.mem, b)[NextAt] = 0
             /\ \A p : Fresh(c.mem, p)
<1> DEFINE a == allocBlock(m)
           w == load(a.mem, 0, a.blk)
           d == NewPage(w.bufs[0].bytes, a.blk)
           v == Stored(w, d)
<1>1. c = open(v, a.blk)
  BY DEF create, NewPage, Stored
<1>2. /\ a.blk \in m.map /\ a.blk \in PageNo
      /\ Shape(a.mem) /\ a.mem.bufs = m.bufs /\ a.mem.chip = m.chip
      /\ a.mem.map = m.map \ {a.blk} /\ a.mem.short = m.short
  BY Alloc
<1> HIDE DEF a
<1>3. \A p : Page(a.mem, p) = Page(m, p)
  BY <1>2, SameBuffers
<1>4. /\ Shape(w) /\ SameMap(a.mem, w) /\ SamePages(a.mem, w)
      /\ w.bufs[0].bnum = a.blk /\ w.bufs[0].bytes = Page(a.mem, a.blk)
      /\ w.bufs[1].bnum # a.blk
  <2>1. a.blk # a.mem.bufs[0].bnum /\ a.blk # NoPage
    BY <1>2, PagesNat DEF PageNo, NoPage
  <2>2. QED
    BY <1>2, <2>1, LoadWrite
<1> HIDE DEF w
<1>5. IsPage(w.bufs[0].bytes)
  BY <1>2, <1>4, PageIsPage
<1>6. /\ IsPage(d) /\ d[0] = 0 /\ d[1] = a.blk /\ d[2] = a.blk
      /\ d[TailAt] = HeaderSize /\ d[NextAt] = 0
  BY <1>5, NewPageCells
<1> HIDE DEF d
<1>7. /\ Shape(v) /\ SameMap(w, v)
      /\ v.bufs[0].bnum = w.bufs[0].bnum /\ v.bufs[1] = w.bufs[1]
      /\ \A p : Page(v, p) = IF p = w.bufs[0].bnum THEN d ELSE Page(w, p)
  BY <1>4, <1>6, WriteBuffer
<1> HIDE DEF v
<1>8. Fresh(v, a.blk) /\ Page(v, a.blk) = d
  BY <1>4, <1>7 DEF Fresh
<1>9. /\ Shape(c.mem) /\ SameMap(v, c.mem) /\ SamePages(v, c.mem)
      /\ c.mem.bufs[0] = v.bufs[0]
      /\ c.mem.bufs[1].bnum = a.blk /\ c.mem.bufs[1].bytes = d
      /\ c.obj = [count |-> d[0], first |-> d[1], last |-> d[2], curr |-> a.blk,
                  offs |-> HeaderSize]
  BY <1>1, <1>2, <1>7, <1>8, Open
<1>10. c.obj = NewStash(a.blk)
  BY <1>6, <1>9 DEF NewStash
<1>11. Page(c.mem, a.blk) = d /\ \A p : Fresh(c.mem, p)
  BY <1>2, <1>8, <1>9 DEF SamePages, Fresh
<1>12. \A p \in PageNo \ {a.blk} : Page(c.mem, p) = Page(m, p)
  BY <1>3, <1>4, <1>7, <1>9 DEF SamePages
<1>13. QED
  BY <1>2, <1>4, <1>6, <1>7, <1>9, <1>10, <1>11, <1>12 DEF SameMap

(* When there is no page left it takes page 0, *)
LEMMA CreateShort ==
    ASSUME NEW m, Shape(m), m.map = {}, m.bufs[0].bnum = 0 => m.bufs[1].bnum # 0,
           NEW c, c = create(m)
    PROVE  Shape(c.mem) /\ c.mem.map = {} /\ c.mem.short /\ c.obj = NewStash(0)
<1> DEFINE a == allocBlock(m)
           w == load(a.mem, 0, a.blk)
           d == NewPage(w.bufs[0].bytes, a.blk)
           v == Stored(w, d)
<1>1. c = open(v, a.blk)
  BY DEF create, NewPage, Stored
<1>2. /\ a.blk = 0 /\ 0 \in PageNo
      /\ Shape(a.mem) /\ a.mem.bufs = m.bufs
      /\ a.mem.map = {} /\ a.mem.short
  BY Alloc
<1> HIDE DEF a
<1>3. /\ Shape(w) /\ SameMap(a.mem, w)
      /\ w.bufs[0].bnum = 0 /\ w.bufs[0].bytes = Page(a.mem, 0)
      /\ w.bufs[1].bnum # 0
  <2>1. 0 # NoPage
    BY DEF NoPage
  <2>2. QED
    BY <1>2, <2>1, LoadWrite
<1> HIDE DEF w
<1>4. IsPage(w.bufs[0].bytes)
  BY <1>2, <1>3, PageIsPage
<1>5. IsPage(d) /\ d[0] = 0 /\ d[1] = 0 /\ d[2] = 0
  BY <1>2, <1>4, NewPageCells
<1> HIDE DEF d
<1>6. /\ Shape(v) /\ SameMap(w, v)
      /\ v.bufs[0].bnum = w.bufs[0].bnum /\ v.bufs[1] = w.bufs[1]
      /\ \A p : Page(v, p) = IF p = w.bufs[0].bnum THEN d ELSE Page(w, p)
  BY <1>3, <1>5, WriteBuffer
<1> HIDE DEF v
<1>7. Fresh(v, 0) /\ Page(v, 0) = d
  BY <1>3, <1>6 DEF Fresh
<1>8. /\ Shape(c.mem) /\ SameMap(v, c.mem)
      /\ c.obj = [count |-> d[0], first |-> d[1], last |-> d[2], curr |-> 0,
                  offs |-> HeaderSize]
  BY <1>1, <1>2, <1>6, <1>7, Open
<1>9. QED
  BY <1>2, <1>3, <1>5, <1>6, <1>8 DEF SameMap, NewStash

LEMMA CellsCleared ==
    ASSUME NEW b, IsPage(b), NEW d, d = [b EXCEPT ![TailAt] = 0, ![NextAt] = 0]
    PROVE  IsPage(d) /\ d[TailAt] = 0 /\ d[NextAt] = 0
<1>1. DOMAIN b = 0 .. PageSize - 1 /\ DOMAIN d = DOMAIN b
  BY DEF IsPage
<1>2. TailAt \in DOMAIN b /\ NextAt \in DOMAIN b /\ TailAt # NextAt
  BY <1>1, PagesNat DEF TailAt, NextAt
<1>3. d = [o \in DOMAIN b |-> d[o]]
  OBVIOUS
<1>4. QED
  BY <1>1, <1>2, <1>3 DEF IsPage

(* What put() changes. *)
Added(b, t, c) == [b EXCEPT ![t] = c, ![TailAt] = t + 1]
Continued(b, c, next) == [b EXCEPT ![TailAt] = c, ![NextAt] = next]
Extended(s, next) == [s EXCEPT !.last = next, !.count = @ + 1]

(* put() into a page that is not full. *)
LEMMA PutInside ==
    ASSUME NEW m, Shape(m), NEW s, s.last \in PageNo, NEW c,
           NEW t \in 0 .. TailAt - 1, Page(m, s.last)[TailAt] = t,
           NEW r, r = put(m, s, c)
    PROVE  /\ Shape(r.mem) /\ SameMap(m, r.mem) /\ r.obj = s
           /\ r.mem.bufs[0].bnum = s.last
           /\ \A p \in PageNo \ {s.last} : Page(r.mem, p) = Page(m, p)
           /\ Page(r.mem, s.last) = Added(Page(m, s.last), t, c)
           /\ \A p \in PageNo \ {s.last} : Fresh(m, p) => Fresh(r.mem, p)
           /\ r.mem.bufs[1].bnum \in {m.bufs[1].bnum, NoPage}
<1> DEFINE w == load(m, 0, s.last)
           d == [w.bufs[0].bytes EXCEPT ![t] = c]
           v == Stored(w, d)
           e == [d EXCEPT ![TailAt] = t + 1]
           u == Stored(v, e)
<1>1. /\ Shape(w) /\ SameMap(m, w) /\ SamePages(m, w)
      /\ w.bufs[0].bnum = s.last /\ w.bufs[0].bytes = Page(m, s.last)
      /\ w.bufs[1].bytes = m.bufs[1].bytes
      /\ w.bufs[1].bnum \in {m.bufs[1].bnum, NoPage}
  BY LoadWrite
<1>2. w.bufs[0].bytes[TailAt] = t
  BY <1>1
<1>3. IsPage(w.bufs[0].bytes)
  BY <1>1, PageIsPage
<1>4. IsPage(d)
  BY <1>3, CellWritten
<1>5. IsPage(e)
  BY <1>4, CellWritten
<1>6. /\ Shape(v) /\ SameMap(w, v)
      /\ v.bufs[0].bnum = w.bufs[0].bnum /\ v.bufs[0].bytes = d
      /\ v.bufs[1] = w.bufs[1]
      /\ \A p : Page(v, p) = IF p = w.bufs[0].bnum THEN d ELSE Page(w, p)
  <2> HIDE DEF d, w
  <2>1. QED
    BY <1>1, <1>4, WriteBuffer
<1>7. /\ Shape(u) /\ SameMap(v, u)
      /\ u.bufs[0].bnum = v.bufs[0].bnum /\ u.bufs[1] = v.bufs[1]
      /\ \A p : Page(u, p) = IF p = v.bufs[0].bnum THEN e ELSE Page(v, p)
  <2> HIDE DEF e, v
  <2>1. QED
    BY <1>5, <1>6, WriteBuffer
<1>8. r = [mem |-> u, obj |-> s]
  <2>1. t + 1 <= TailAt
    BY PagesNat DEF TailAt
  <2>2. poke(w, t, c) = v
    BY Zenon DEF Stored, poke
  <2>3. poke(v, TailAt, t + 1) = u
    BY <1>6, Zenon DEF Stored, poke
  <2> HIDE DEF w, u, v
  <2>4. r = [mem |-> poke(poke(w, t, c), TailAt, t + 1), obj |-> s]
    BY <1>2, <2>1 DEF put, w
  <2>5. QED
    BY <2>2, <2>3, <2>4
<1>9. Page(u, s.last) = Added(Page(m, s.last), t, c)
  <2>1. Page(u, s.last) = e
    <3> HIDE DEF u, e, v, d, w
    <3>1. QED
      BY <1>1, <1>6, <1>7
  <2>2. QED
    BY <1>1, <2>1 DEF Added
<1> HIDE DEF u, e, v, d, w
<1>10. \A p \in PageNo \ {s.last} : Page(u, p) = Page(m, p)
  BY <1>1, <1>6, <1>7 DEF SamePages
<1>11. \A p \in PageNo \ {s.last} : Fresh(m, p) => Fresh(u, p)
  <2>1. NoPage \notin PageNo
    BY PagesNat DEF NoPage, PageNo
  <2>2. QED
    BY <1>1, <1>6, <1>7, <1>10, <2>1 DEF Fresh
<1>12. QED
  BY <1>1, <1>6, <1>7, <1>8, <1>9, <1>10, <1>11 DEF SameMap

(* put() of the last byte of a page, if there is another page. *)
LEMMA PutFull ==
    ASSUME NEW m, Shape(m), NEW s, IsStash(s), s.last \in PageNo \ m.map, m.map # {}, NEW c,
           Page(m, s.last)[TailAt] = TailAt,
           NEW r, r = put(m, s, c)
    PROVE  \E b \in m.map :
             /\ Shape(r.mem) /\ r.mem.map = m.map \ {b} /\ r.mem.short = m.short
             /\ r.obj = Extended(s, b)
             /\ r.mem.bufs[0].bnum = b
             /\ \A p \in PageNo \ {s.last, b} : Page(r.mem, p) = Page(m, p)
             /\ Page(r.mem, s.last) = Continued(Page(m, s.last), c, b)
             /\ Page(r.mem, b)[TailAt] = 0 /\ Page(r.mem, b)[NextAt] = 0
             /\ \A p \in PageNo \ {s.last, b} : Fresh(m, p) => Fresh(r.mem, p)
             /\ r.mem.bufs[1].bnum \in {m.bufs[1].bnum, NoPage} \ {b}
<1> DEFINE w == load(m, 0, s.last)
           d == [w.bufs[0].bytes EXCEPT ![TailAt] = c]
           v == Stored(w, d)
           a == allocBlock(v)
           e == [a.mem.bufs[0].bytes EXCEPT ![NextAt] = a.blk]
           u == Stored(a.mem, e)
           x == load(u, 0, a.blk)
           f == [x.bufs[0].bytes EXCEPT ![TailAt] = 0, ![NextAt] = 0]
           y == Stored(x, f)
<1>1. /\ Shape(w) /\ SameMap(m, w) /\ SamePages(m, w)
      /\ w.bufs[0].bnum = s.last /\ w.bufs[0].bytes = Page(m, s.last)
      /\ w.bufs[1].bytes = m.bufs[1].bytes
      /\ w.bufs[1].bnum \in {m.bufs[1].bnum, NoPage}
  BY LoadWrite
<1>2. w.bufs[0].bytes[TailAt] = TailAt
  BY <1>1
<1>3. IsPage(w.bufs[0].bytes)
  BY <1>1, PageIsPage
<1>4. IsPage(d)
  BY <1>3, CellWritten
<1>5. /\ Shape(v) /\ SameMap(w, v)
      /\ v.bufs[0].bnum = w.bufs[0].bnum /\ v.bufs[0].bytes = d
      /\ v.bufs[1] = w.bufs[1]
      /\ \A p : Page(v, p) = IF p = w.bufs[0].bnum THEN d ELSE Page(w, p)
  <2> HIDE DEF d, w
  <2>1. QED
    BY <1>1, <1>4, WriteBuffer
<1>6. r = [mem |-> y, obj |-> [s EXCEPT !.last = a.blk, !.count = @ + 1]]
  <2>1. ~(TailAt + 1 <= TailAt)
    BY PagesNat DEF TailAt
  <2>2. poke(w, TailAt, c) = v
    BY Zenon DEF Stored, poke
  <2>3. poke(a.mem, NextAt, a.blk) = u
    BY Zenon DEF Stored, poke
  <2>4. started(x) = y
    BY Zenon DEF Stored, started
  <2> DEFINE a2 == allocBlock(poke(w, TailAt, c))
  <2>5. a2 = a
    BY <2>2
  <2>6. x = load(u, 0, a.blk)
    OBVIOUS
  <2> HIDE DEF w, v, a, u, x, y
  <2>7. r = [mem |-> started(load(poke(a2.mem, NextAt, a2.blk), 0, a2.blk)),
             obj |-> [s EXCEPT !.last = a2.blk, !.count = @ + 1]]
    BY <1>2, <2>1 DEF put, w
  <2> HIDE DEF a2
  <2>8. QED
    BY <2>3, <2>4, <2>5, <2>6, <2>7
<1>7. d = [Page(m, s.last) EXCEPT ![TailAt] = c]
  BY <1>1
<1> HIDE DEF w, v
<1>8. /\ a.blk \in m.map /\ a.blk \in PageNo
      /\ Shape(a.mem) /\ a.mem.bufs = v.bufs /\ a.mem.chip = v.chip
      /\ a.mem.map = m.map \ {a.blk} /\ a.mem.short = m.short
  <2>1. Shape(v) /\ v.map = m.map /\ v.short = m.short
    BY <1>1, <1>5 DEF SameMap
  <2>2. a = allocBlock(v)
    OBVIOUS
  <2> HIDE DEF a
  <2>3. /\ a.blk \in PageNo
        /\ Shape(a.mem) /\ a.mem.bufs = v.bufs /\ a.mem.chip = v.chip
        /\ a.mem.map = v.map \ {a.blk}
        /\ v.map # {} => a.blk \in v.map /\ a.mem.short = v.short
    <3> HIDE DEF v
    <3>1. QED
      BY <2>1, <2>2, Alloc, Zenon
  <2>4. QED
    BY <2>1, <2>3
<1> HIDE DEF a
<1>9. \A p : Page(a.mem, p) = Page(v, p)
  BY <1>8, SameBuffers
<1>10. e = [d EXCEPT ![NextAt] = a.blk]
  BY <1>5, <1>8
<1> HIDE DEF d
<1>11. IsPage(e)
  BY <1>4, <1>10, CellWritten
<1> HIDE DEF e
<1>12. /\ Shape(u) /\ SameMap(a.mem, u)
       /\ u.bufs[0].bnum = s.last /\ u.bufs[1] = w.bufs[1]
       /\ \A p : Page(u, p) = IF p = s.last THEN e ELSE Page(a.mem, p)
  BY <1>1, <1>5, <1>8, <1>11, WriteBuffer
<1> HIDE DEF u
<1>13. /\ Shape(x) /\ SameMap(u, x) /\ SamePages(u, x)
       /\ x.bufs[0].bnum = a.blk /\ x.bufs[0].bytes = Page(u, a.blk)
       /\ x.bufs[1].bytes = u.bufs[1].bytes
       /\ x.bufs[1].bnum \in {u.bufs[1].bnum, NoPage} \ {a.blk}
  <2>1. a.blk # u.bufs[0].bnum /\ a.blk # NoPage
    BY <1>8, <1>12, PagesNat DEF PageNo, NoPage
  <2>2. QED
    BY <1>8, <1>12, <2>1, LoadWrite
<1> HIDE DEF x
<1>14. IsPage(x.bufs[0].bytes)
  BY <1>8, <1>12, <1>13, PageIsPage
<1>15. IsPage(f) /\ f[TailAt] = 0 /\ f[NextAt] = 0
  BY <1>14, CellsCleared
<1> HIDE DEF f
<1>16. /\ Shape(y) /\ SameMap(x, y)
       /\ y.bufs[0].bnum = a.blk /\ y.bufs[1] = x.bufs[1]
       /\ \A p : Page(y, p) = IF p = a.blk THEN f ELSE Page(x, p)
  BY <1>13, <1>15, WriteBuffer
<1> HIDE DEF y
<1>17. Page(y, s.last) = Continued(Page(m, s.last), c, a.blk)
  <2>1. s.last # a.blk
    BY <1>8
  <2>2. Page(y, s.last) = e
    BY <1>12, <1>13, <1>16, <2>1 DEF SamePages
  <2>3. QED
    BY <1>7, <1>10, <2>2 DEF Continued
<1>18. \A p \in PageNo \ {s.last, a.blk} : Page(y, p) = Page(m, p)
  BY <1>1, <1>5, <1>9, <1>12, <1>13, <1>16 DEF SamePages
<1>19. \A p \in PageNo \ {s.last, a.blk} : Fresh(m, p) => Fresh(y, p)
  <2>1. NoPage \notin PageNo
    BY PagesNat DEF NoPage, PageNo
  <2>2. QED
    BY <1>1, <1>12, <1>13, <1>16, <1>18, <2>1 DEF Fresh
<1>20. QED
  <2>1. r.mem = y /\ r.obj = Extended(s, a.blk)
    BY <1>6 DEF Extended
  <2>2. y.bufs[1].bnum \in {m.bufs[1].bnum, NoPage} \ {a.blk}
    BY <1>1, <1>12, <1>13, <1>16
  <2>3. y.map = m.map \ {a.blk} /\ y.short = m.short
    BY <1>8, <1>12, <1>13, <1>16 DEF SameMap
  <2>4. Page(y, a.blk)[TailAt] = 0 /\ Page(y, a.blk)[NextAt] = 0
    BY <1>15, <1>16
  <2>5. QED
    BY <1>8, <1>16, <1>17, <1>18, <1>19, <2>1, <2>2, <2>3, <2>4

(* Whatever is in the memory, put() keeps to its pages. *)
LEMMA PutShape ==
    ASSUME NEW m, Shape(m), NEW s, IsStash(s), s.last \in PageNo, NEW c,
           NEW r, r = put(m, s, c)
    PROVE  /\ Shape(r.mem) /\ IsStash(r.obj)
           /\ r.obj.last \in PageNo /\ r.obj.first = s.first /\ r.obj.curr = s.curr
           /\ r.mem.map \subseteq m.map
           /\ m.short => r.mem.short
           /\ m.map = {} /\ Page(m, s.last)[TailAt] = TailAt => r.mem.short
<1> DEFINE w == load(m, 0, s.last)
           t == w.bufs[0].bytes[TailAt]
           d == [w.bufs[0].bytes EXCEPT ![t] = c]
           v == Stored(w, d)
           h == [d EXCEPT ![TailAt] = t + 1]
           z == Stored(v, h)
           a == allocBlock(v)
           e == [a.mem.bufs[0].bytes EXCEPT ![NextAt] = a.blk]
           u == Stored(a.mem, e)
           x == load(u, 0, a.blk)
           f == [x.bufs[0].bytes EXCEPT ![TailAt] = 0, ![NextAt] = 0]
           y == Stored(x, f)
<1>1. Shape(w) /\ SameMap(m, w) /\ w.bufs[0].bytes = Page(m, s.last)
  BY LoadWrite
<1>2. IsPage(w.bufs[0].bytes)
  BY <1>1, PageIsPage
<1>3. IsPage(d)
  BY <1>2, CellWritten
<1>4. Shape(v) /\ SameMap(w, v) /\ v.bufs[0].bytes = d
  <2> HIDE DEF d, w
  <2>1. QED
    BY <1>1, <1>3, WriteBuffer
<1>5. IF t + 1 <= TailAt THEN r = [mem |-> z, obj |-> s]
      ELSE r = [mem |-> y, obj |-> [s EXCEPT !.last = a.blk, !.count = @ + 1]]
  <2>1. v = poke(w, t, c)
    BY Zenon DEF Stored, poke
  <2>2. z = poke(v, TailAt, t + 1)
    BY <1>4, Zenon DEF Stored, poke
  <2>3. u = poke(a.mem, NextAt, a.blk)
    BY Zenon DEF Stored, poke
  <2>4. y = started(x)
    BY Zenon DEF Stored, started
  <2> DEFINE v2 == poke(w, t, c)
             a2 == allocBlock(v2)
  <2>5. a2 = a
    BY <2>1
  <2>6. x = load(u, 0, a.blk)
    OBVIOUS
  <2> HIDE DEF w, v, a, u, x, y, z, t
  <2>7. IF t + 1 <= TailAt THEN r = [mem |-> poke(v2, TailAt, t + 1), obj |-> s]
        ELSE r = [mem |-> started(load(poke(a2.mem, NextAt, a2.blk), 0, a2.blk)),
                  obj |-> [s EXCEPT !.last = a2.blk, !.count = @ + 1]]
    BY DEF put, w, t
  <2>8. v2 = v
    BY <2>1
  <2> HIDE DEF a2, v2
  <2>9. QED
    BY <2>2, <2>3, <2>4, <2>5, <2>6, <2>7, <2>8
<1>6. t + 1 <= TailAt /\ t = TailAt => FALSE
  BY PagesNat DEF TailAt
<1> HIDE DEF w, v, d, t
<1>7. Shape(z) /\ SameMap(v, z)
  <2>1. IsPage(h)
    BY <1>3, CellWritten
  <2> HIDE DEF h
  <2>2. QED
    BY <1>4, <2>1, WriteBuffer
<1>8. /\ a.blk \in PageNo /\ Shape(a.mem) /\ a.mem.map \subseteq v.map
      /\ v.short => a.mem.short
      /\ v.map = {} => a.mem.short
  <2>1. a = allocBlock(v)
    OBVIOUS
  <2> HIDE DEF a
  <2>2. /\ a.blk \in PageNo /\ Shape(a.mem)
        /\ a.mem.map = v.map \ {a.blk}
        /\ v.map # {} => a.mem.short = v.short
        /\ v.map = {} => a.mem.short = TRUE
    BY <1>4, <2>1, Alloc
  <2>3. QED
    BY <2>2
<1> HIDE DEF z, a
<1>9. Shape(u) /\ SameMap(a.mem, u)
  <2>1. IsPage(a.mem.bufs[0].bytes)
    <3>1. a.mem.bufs[0].bytes = Page(a.mem, a.mem.bufs[0].bnum)
      BY DEF Page
    <3>2. QED
      BY <1>8, <3>1, PageIsPage DEF Shape
  <2>2. IsPage(e)
    BY <2>1, CellWritten
  <2> HIDE DEF e
  <2>3. QED
    BY <1>8, <2>2, WriteBuffer
<1> HIDE DEF u
<1>10. Shape(x) /\ SameMap(u, x) /\ x.bufs[0].bytes = Page(u, a.blk)
  BY <1>8, <1>9, LoadWrite
<1> HIDE DEF x
<1>11. Shape(y) /\ SameMap(x, y)
  <2>1. IsPage(x.bufs[0].bytes)
    BY <1>8, <1>9, <1>10, PageIsPage
  <2>2. IsPage(f)
    BY <2>1, CellsCleared
  <2> HIDE DEF f
  <2>3. QED
    BY <1>10, <2>2, WriteBuffer
<1> HIDE DEF y
<1>12. CASE t + 1 <= TailAt
  <2>1. r.mem = z /\ r.obj = s
    BY <1>5, <1>12
  <2>2. Page(m, s.last)[TailAt] # TailAt
    BY <1>1, <1>6, <1>12 DEF t
  <2>3. QED
    BY <1>1, <1>4, <1>7, <2>1, <2>2 DEF SameMap
<1>13. CASE ~(t + 1 <= TailAt)
  <2>1. r.mem = y /\ r.obj = Extended(s, a.blk)
    BY <1>5, <1>13 DEF Extended
  <2>2. /\ IsStash(r.obj) /\ r.obj.last = a.blk /\ r.obj.first = s.first
        /\ r.obj.curr = s.curr
    BY <2>1 DEF IsStash, Extended
  <2>3. QED
    BY <1>1, <1>4, <1>8, <1>9, <1>10, <1>11, <2>1, <2>2 DEF SameMap
<1>14. QED
  BY <1>12, <1>13

(* save() writes the header, and buffer 1 does not have the page then. *)
Headed(b, s) == [b EXCEPT ![0] = s.count, ![1] = s.first, ![2] = s.last]

LEMMA SaveIs ==
    ASSUME NEW m, Shape(m), NEW s, s.first \in PageNo, NEW r, r = save(m, s)
    PROVE  /\ Shape(r) /\ SameMap(m, r)
           /\ r.bufs[1].bnum \in {m.bufs[1].bnum, NoPage, 0}
           /\ s.first # 0 =>
                /\ r.bufs[0].bnum = s.first
                /\ \A p \in PageNo \ {s.first} : Page(r, p) = Page(m, p)
                /\ Page(r, s.first) = Headed(Page(m, s.first), s)
                /\ Fresh(r, s.first)
                /\ \A p \in PageNo \ {s.first} : Fresh(m, p) => Fresh(r, p)
<1> DEFINE w == load(m, 0, s.first)
           d == [w.bufs[0].bytes EXCEPT ![0] = s.count, ![1] = s.first, ![2] = s.last]
           v == Stored(w, d)
           x == load(v, 1, 0)
<1>1. /\ Shape(w) /\ SameMap(m, w) /\ SamePages(m, w)
      /\ w.bufs[0].bnum = s.first /\ w.bufs[0].bytes = Page(m, s.first)
      /\ w.bufs[1].bytes = m.bufs[1].bytes
      /\ w.bufs[1].bnum \in {m.bufs[1].bnum, NoPage}
  BY LoadWrite
<1>2. r = IF v.bufs[1].bnum = s.first THEN x ELSE v
  BY DEF save, Stored
<1>3. d = Headed(Page(m, s.first), s)
  BY <1>1 DEF Headed
<1>4. IsPage(d)
  <2>1. IsPage(Page(m, s.first))
    BY PageIsPage
  <2>2. QED
    BY <1>3, <2>1 DEF Headed, IsPage
<1>5. /\ Shape(v) /\ SameMap(w, v)
      /\ v.bufs[0].bnum = w.bufs[0].bnum /\ v.bufs[0].bytes = d
      /\ v.bufs[1] = w.bufs[1]
      /\ \A p : Page(v, p) = IF p = w.bufs[0].bnum THEN d ELSE Page(w, p)
  <2> HIDE DEF d, w
  <2>1. QED
    BY <1>1, <1>4, WriteBuffer
<1> HIDE DEF w, d, v
<1>6. 0 \in PageNo
  BY PagesNat DEF PageNo
<1>7. /\ Shape(x) /\ SameMap(v, x) /\ SamePages(v, x)
      /\ x.bufs[0] = v.bufs[0] /\ x.bufs[1].bnum = 0
  BY <1>5, <1>6, LoadRead
<1>8. v.bufs[1].bnum = s.first /\ s.first # 0 => \A p \in PageNo \ {0} : Fresh(x, p)
  BY <1>7 DEF Fresh
<1>9. v.bufs[1].bnum = s.first /\ s.first # 0 => Fresh(x, 0)
  <2>1. v.bufs[1].bnum = s.first /\ s.first # 0 => Fresh(v, 0)
    BY DEF Fresh
  <2>2. Fresh(v, 0) => x.bufs[1].bytes = Page(v, 0)
    BY <1>5, <1>6, LoadRead
  <2>3. QED
    BY <1>6, <1>7, <2>1, <2>2 DEF SamePages, Fresh
<1> HIDE DEF x
<1>10. v.bufs[1].bnum # s.first => \A p \in PageNo : Fresh(m, p) => Fresh(v, p)
  <2>1. NoPage \notin PageNo
    BY PagesNat DEF NoPage, PageNo
  <2>2. QED
    BY <1>1, <1>5, <2>1 DEF Fresh, SamePages
<1>11. v.bufs[1].bnum # s.first => Fresh(v, s.first)
  BY DEF Fresh
<1>12. /\ \A p \in PageNo \ {s.first} : Page(v, p) = Page(m, p)
       /\ Page(v, s.first) = d
  BY <1>1, <1>5 DEF SamePages
<1>13. Shape(r) /\ SameMap(m, r)
  BY <1>1, <1>2, <1>5, <1>7 DEF SameMap
<1>14. ASSUME s.first # 0
       PROVE  /\ r.bufs[0].bnum = s.first
              /\ \A p \in PageNo \ {s.first} : Page(r, p) = Page(m, p)
              /\ Page(r, s.first) = d
              /\ Fresh(r, s.first)
              /\ \A p \in PageNo \ {s.first} : Fresh(m, p) => Fresh(r, p)
  <2>1. CASE v.bufs[1].bnum = s.first
    BY <1>1, <1>2, <1>5, <1>7, <1>8, <1>9, <1>12, <1>14, <2>1 DEF SamePages
  <2>2. CASE v.bufs[1].bnum # s.first
    BY <1>1, <1>2, <1>5, <1>10, <1>11, <1>12, <2>2
  <2>3. QED
    BY <2>1, <2>2
<1>15. r.bufs[1].bnum \in {m.bufs[1].bnum, NoPage, 0}
  BY <1>1, <1>2, <1>5, <1>7
<1>16. QED
  BY <1>3, <1>13, <1>14, <1>15

(* What size() reads is the end of the last page. *)
LEMMA TailByte ==
    ASSUME NEW m, Shape(m), NEW p \in PageNo, m.bufs[0].bnum = p \/ Fresh(m, p)
    PROVE  fetchByte(m, p, TailAt) = Page(m, p)[TailAt]
BY ShapeMap DEF fetchByte, Page, Fresh, peekin

Turned(s, next) == [s EXCEPT !.curr = next, !.offs = 0]
Advanced(s) == [s EXCEPT !.offs = @ + 1]

(* get() reads page curr. *)
LEMMA GetIs ==
    ASSUME NEW m, Shape(m), NEW s, IsStash(s), s.curr \in PageNo, Fresh(m, s.curr),
           NEW b, b = Page(m, s.curr), NEW r, r = get(m, s)
    PROVE  /\ Shape(r.mem) /\ SameMap(m, r.mem) /\ SamePages(m, r.mem)
           /\ r.mem.bufs[0] = m.bufs[0] /\ r.mem.chip = m.chip
           /\ r.mem.bufs[1].bnum = s.curr
           /\ \A p \in PageNo : Fresh(r.mem, p)
           /\ s.curr = s.last /\ s.offs >= b[TailAt] => r.c = 0 /\ r.obj = s
           /\ s.curr # s.last /\ s.offs + 1 >= NextAt =>
                r.c = b[s.offs] /\ r.obj = Turned(s, b[NextAt])
           /\ ~(s.curr = s.last /\ s.offs >= b[TailAt])
              /\ ~(s.curr # s.last /\ s.offs + 1 >= NextAt) =>
                r.c = b[s.offs] /\ r.obj = Advanced(s)
<1> DEFINE w == load(m, 1, s.curr)
<1>1. /\ Shape(w) /\ SameMap(m, w) /\ SamePages(m, w)
      /\ w.bufs[0] = m.bufs[0] /\ w.chip = m.chip
      /\ w.bufs[1].bnum = s.curr /\ w.bufs[1].bytes = b
  BY LoadRead
<1>2. /\ r.mem = w
      /\ s.curr = s.last /\ s.offs >= b[TailAt] => r.c = 0 /\ r.obj = s
      /\ s.curr # s.last /\ s.offs + 1 >= NextAt =>
           r.c = b[s.offs] /\ r.obj = Turned(s, b[NextAt])
      /\ ~(s.curr = s.last /\ s.offs >= b[TailAt])
         /\ ~(s.curr # s.last /\ s.offs + 1 >= NextAt) =>
           r.c = b[s.offs] /\ r.obj = Advanced(s)
  BY <1>1 DEF get, Turned, Advanced
<1> HIDE DEF w
<1>3. \A p \in PageNo : Fresh(w, p)
  BY <1>1 DEF Fresh, SamePages
<1>4. QED
  BY <1>1, <1>2, <1>3
-----------------------------------------------------------------------------
(* Texts *)

LEMMA PosSteps ==
    ASSUME NEW j \in Nat, NEW o \in Nat
    PROVE  /\ Pos(j, o) \in Int
           /\ Pos(j, o + 1) = Pos(j, o) + 1
           /\ Pos(j + 1, 0) = Pos(j, TailAt) + 1
           /\ \A p \in Nat : Pos(j, p) = Pos(j, o) + p - o
           /\ Pos(1, o) = o - HeaderSize
<1>1. PageSize - 1 \in Nat /\ TailAt = PageSize - 2
  BY PagesNat DEF TailAt
<1> DEFINE z == PageSize - 1
<1>2. z * (j + 1 - 1) = z * (j - 1) + z
  <2>1. z \in Int /\ j \in Int
    BY <1>1
  <2> HIDE DEF z
  <2>2. QED
    BY <2>1
<1>3. z * (1 - 1) = 0
  BY <1>1
<1>4. z * (j - 1) \in Int
  BY <1>1
<1> HIDE DEF z
<1>5. \A p \in Nat : Pos(j, p) = z * (j - 1) + p - HeaderSize
  BY DEF Pos, z
<1>6. Pos(j + 1, 0) = z * (j + 1 - 1) + 0 - HeaderSize /\ Pos(1, o) = z * (1 - 1) + o - HeaderSize
  BY DEF Pos, z
<1>7. TailAt + 1 = z /\ TailAt \in Nat
  BY <1>1, PagesNat DEF z
<1>8. QED
  BY <1>2, <1>3, <1>4, <1>5, <1>6, <1>7 DEF HeaderSize

(* Pages come one after the other. *)
LEMMA PosFrom ==
    ASSUME NEW j \in Nat, NEW o \in Nat, NEW p \in Nat
    PROVE  Pos(j, p) = Pos(j, o) + p - o /\ Pos(j, o) \in Int
BY PosSteps

LEMMA PosOrder ==
    ASSUME NEW j \in Nat, NEW k \in Nat, j < k, NEW o \in 0 .. TailAt, NEW p \in Nat
    PROVE  Pos(j, o) < Pos(k, p)
<1>1. PageSize - 1 \in Nat /\ TailAt = PageSize - 2 /\ TailAt \in Nat
  BY PagesNat DEF TailAt
<1> DEFINE z == PageSize - 1
           d == k - 1 - j
<1>2. d \in Nat /\ k - 1 = j + d
  OBVIOUS
<1>3. z \in Nat /\ o < z
  <2>1. o <= TailAt /\ o \in Int
    BY <1>1
  <2>2. QED
    BY <1>1, <2>1, PagesNat
<1> HIDE DEF z, d
<1>4. z * (k - 1) = z * (j - 1) + z + z * d
  BY <1>2, <1>3
<1>5. z * d \in Nat /\ z * (j - 1) \in Int
  BY <1>2, <1>3
<1>6. Pos(j, o) = z * (j - 1) + o - HeaderSize /\ Pos(k, p) = z * (k - 1) + p - HeaderSize
  BY DEF Pos, z
<1>7. QED
  BY <1>3, <1>4, <1>5, <1>6 DEF HeaderSize

(* A stash does not depend on what other pages hold. *)
LEMMA WrittenFrame ==
    ASSUME NEW m, NEW ch, NEW text, Written(m, ch, text),
           NEW w, \A p \in Range(ch) : Page(w, p) = Page(m, p)
    PROVE  Written(w, ch, text)
<1>1. \A j \in DOMAIN ch : Page(w, ch[j]) = Page(m, ch[j])
  BY DEF Range
<1>2. DOMAIN ch = 1 .. Len(ch) /\ Len(ch) \in Nat /\ Len(ch) >= 1
  BY DEF Written
<1>3. \A j \in 1 .. Len(ch) - 1 : Page(w, ch[j]) = Page(m, ch[j])
  BY <1>1, <1>2
<1>4. Page(w, ch[Len(ch)]) = Page(m, ch[Len(ch)])
  BY <1>1, <1>2
<1>5. QED
  BY <1>1, <1>3, <1>4 DEF Written

(* The first page of a stash is a stash without text. *)
LEMMA WrittenFirst ==
    ASSUME NEW m, NEW b \in 1 .. Pages - 1,
           Page(m, b)[TailAt] = HeaderSize, Page(m, b)[NextAt] = 0
    PROVE  Written(m, <<b>>, <<>>) /\ Owns(NewStash(b), <<b>>) /\ Reading(NewStash(b), <<b>>, 0)
<1>1. HeaderSize \in 0 .. TailAt /\ HeaderSize \in Nat
  BY PagesNat DEF HeaderSize, TailAt
<1>2. Pos(1, HeaderSize) = 0
  BY <1>1, PosSteps
<1>3. Written(m, <<b>>, <<>>)
  BY <1>1, <1>2 DEF Written
<1>4. Owns(NewStash(b), <<b>>)
  BY DEF Owns, NewStash, IsStash
<1>5. Reading(NewStash(b), <<b>>, 0)
  BY <1>1, <1>2 DEF Reading, NewStash
<1>6. QED
  BY <1>3, <1>4, <1>5

LEMMA PagesOf ==
    ASSUME NEW m, NEW ch, NEW text, Written(m, ch, text)
    PROVE  /\ Len(ch) \in Nat /\ Len(ch) >= 1 /\ DOMAIN ch = 1 .. Len(ch)
           /\ \A j \in 1 .. Len(ch) : ch[j] \in 1 .. Pages - 1 /\ ch[j] \in PageNo /\ ch[j] # 0
           /\ Range(ch) = {ch[j] : j \in 1 .. Len(ch)}
           /\ Len(text) \in Nat
<1>1. ch \in Seq(1 .. Pages - 1) /\ Len(ch) >= 1 /\ text \in Seq(Nat \ {0})
  BY DEF Written
<1>2. \A j \in 1 .. Len(ch) : ch[j] \in 1 .. Pages - 1
  <2> DEFINE S == 1 .. Pages - 1
  <2>1. ch \in Seq(S)
    BY <1>1
  <2> HIDE DEF S
  <2>2. \A j \in 1 .. Len(ch) : ch[j] \in S
    BY <2>1
  <2>3. QED
    BY <2>2 DEF S
<1>3. QED
  BY <1>1, <1>2, PagesNat DEF PageNo, Range

(* size() is the length of the text. *)
LEMMA SizeIs ==
    ASSUME NEW m, Shape(m), NEW ch, NEW text, Written(m, ch, text),
           NEW s, Owns(s, ch), m.bufs[0].bnum = s.last \/ Fresh(m, s.last)
    PROVE  size(m, s) = Len(text)
<1>1. s.last \in PageNo /\ s.last = ch[Len(ch)] /\ s.count = Len(ch) - 1
  BY PagesOf DEF Owns
<1>2. fetchByte(m, s.last, TailAt) = Page(m, s.last)[TailAt]
  BY <1>1, TailByte
<1>3. QED
  BY <1>1, <1>2 DEF size, Written, Pos

(* get() gives the next byte of the text, or 0 at its end. *)
GotNext(r, ch, text, k) ==
    /\ Owns(r.obj, ch)
    /\ IF k = Len(text) THEN r.c = 0 /\ Reading(r.obj, ch, k)
       ELSE r.c = text[k + 1] /\ r.c # 0 /\ Reading(r.obj, ch, k + 1)

LEMMA GetNext ==
    ASSUME NEW m, Shape(m), NEW ch, NEW text, Written(m, ch, text),
           NEW s, Owns(s, ch), NEW k, Reading(s, ch, k), k \in 0 .. Len(text),
           Fresh(m, s.curr), NEW r, r = get(m, s)
    PROVE  GotNext(r, ch, text, k)
<1> DEFINE n == Len(ch)
           b == Page(m, s.curr)
           tail == b[TailAt]
<1>1. PICK j \in DOMAIN ch : s.curr = ch[j] /\ s.offs \in 0 .. TailAt /\ Pos(j, s.offs) = k
  BY DEF Reading
<1>2. /\ n \in Nat /\ n >= 1 /\ j \in 1 .. n /\ j \in Nat /\ TailAt \in Nat /\ NextAt = TailAt + 1
      /\ s.offs \in Nat /\ s.offs <= TailAt
      /\ s.curr \in PageNo /\ IsStash(s) /\ Len(text) \in Nat
  BY <1>1, PagesOf, PagesNat DEF TailAt, NextAt, Owns
<1>3. s.curr = s.last <=> j = n
  BY <1>1, <1>2 DEF Owns, Written
<1>4. j = n => tail \in 0 .. TailAt /\ Len(text) = Pos(n, tail)
  BY <1>1 DEF Written
<1>5. k < Len(text) => b[s.offs] = text[k + 1] /\ text[k + 1] \in Nat \ {0}
  <2>1. SUFFICES ASSUME k < Len(text) PROVE b[s.offs] = text[k + 1] /\ text[k + 1] \in Nat \ {0}
    OBVIOUS
  <2>2. /\ text \in Seq(Nat \ {0})
        /\ \A i \in DOMAIN ch : \A o \in 0 .. TailAt :
             Pos(i, o) \in 0 .. Len(text) - 1 => Page(m, ch[i])[o] = text[Pos(i, o) + 1]
    BY DEF Written
  <2>3. Pos(j, s.offs) \in 0 .. Len(text) - 1
    BY <1>1, <1>2, <2>1
  <2>4. k + 1 \in 1 .. Len(text)
    BY <1>2, <2>1
  <2>5. QED
    BY <1>1, <2>2, <2>3, <2>4
<1>6. j < n => b[NextAt] = ch[j + 1]
  <2>1. \A i \in 1 .. n - 1 : Page(m, ch[i])[NextAt] = ch[i + 1]
    BY DEF Written
  <2>2. j < n => j \in 1 .. n - 1
    BY <1>2
  <2>3. QED
    BY <1>1, <2>1, <2>2
<1>7. j < n => k < Len(text)
  <2>1. SUFFICES ASSUME j < n PROVE k < Len(text)
    OBVIOUS
  <2> DEFINE end == Page(m, ch[n])[TailAt]
  <2>2. end \in 0 .. TailAt /\ Len(text) = Pos(n, end)
    BY DEF Written
  <2> HIDE DEF end
  <2>3. QED
    BY <1>1, <1>2, <2>1, <2>2, PosOrder
<1>8. /\ s.curr = s.last /\ s.offs >= tail => r.c = 0 /\ r.obj = s
      /\ s.curr # s.last /\ s.offs + 1 >= NextAt =>
           r.c = b[s.offs] /\ r.obj = Turned(s, b[NextAt])
      /\ ~(s.curr = s.last /\ s.offs >= tail)
         /\ ~(s.curr # s.last /\ s.offs + 1 >= NextAt) =>
           r.c = b[s.offs] /\ r.obj = Advanced(s)
  <2>1. b = Page(m, s.curr)
    OBVIOUS
  <2> HIDE DEF b
  <2>2. QED
    BY <1>2, <2>1, GetIs
<1> HIDE DEF b, tail
<1>9. CASE j = n /\ s.offs >= tail
  <2>1. r.c = 0 /\ r.obj = s
    BY <1>3, <1>8, <1>9
  <2>2. k = Len(text)
    <3>1. tail \in Nat
      BY <1>2, <1>4, <1>9
    <3>2. Pos(n, s.offs) = Pos(n, tail) + s.offs - tail /\ Pos(n, tail) \in Int
      BY <1>2, <3>1, PosFrom
    <3>3. QED
      BY <1>1, <1>2, <1>4, <1>9, <3>1, <3>2
  <2>3. QED
    BY <2>1, <2>2 DEF GotNext
<1>10. CASE j # n /\ s.offs + 1 >= NextAt
  <2>1. r.c = b[s.offs] /\ r.obj = Turned(s, b[NextAt])
    BY <1>3, <1>8, <1>10
  <2>2. k < Len(text)
    BY <1>2, <1>7, <1>10
  <2>3. r.obj.curr = ch[j + 1] /\ r.obj.offs = 0
    BY <1>2, <1>6, <1>10, <2>1 DEF IsStash, Turned
  <2>7. s.offs = TailAt /\ j + 1 \in DOMAIN ch
    BY <1>1, <1>2, <1>10
  <2>4. s.offs = TailAt /\ Pos(j + 1, 0) = k + 1 /\ j + 1 \in DOMAIN ch
    BY <1>1, <1>2, <2>7, PosSteps
  <2>5. Reading(r.obj, ch, k + 1)
    BY <1>2, <2>3, <2>4 DEF Reading
  <2>6. Owns(r.obj, ch)
    BY <2>1 DEF Owns, IsStash, Turned
  <2>8. QED
    BY <1>5, <2>1, <2>2, <2>5, <2>6 DEF GotNext
<1>11. CASE ~(j = n /\ s.offs >= tail) /\ ~(j # n /\ s.offs + 1 >= NextAt)
  <2>1. r.c = b[s.offs] /\ r.obj = Advanced(s)
    BY <1>3, <1>8, <1>11
  <2>2. s.offs + 1 \in 0 .. TailAt
    BY <1>2, <1>4, <1>11
  <2>3. k < Len(text)
    <3>1. CASE j < n
      BY <1>7, <3>1
    <3>2. CASE j = n
      <4>1. tail \in Nat /\ s.offs < tail
        BY <1>2, <1>4, <1>11, <3>2
      <4>2. Pos(n, tail) = Pos(n, s.offs) + tail - s.offs /\ Pos(n, s.offs) \in Int
        BY <1>2, <4>1, PosFrom
      <4>3. QED
        BY <1>1, <1>2, <1>4, <3>2, <4>1, <4>2
    <3>3. QED
      BY <1>2, <3>1, <3>2
  <2>4. Pos(j, s.offs + 1) = k + 1
    BY <1>1, <1>2, PosSteps
  <2>5. r.obj.curr = ch[j] /\ r.obj.offs = s.offs + 1
    BY <1>1, <1>2, <2>1 DEF IsStash, Advanced
  <2>6. Reading(r.obj, ch, k + 1)
    BY <1>1, <2>2, <2>4, <2>5 DEF Reading
  <2>7. Owns(r.obj, ch)
    BY <2>1 DEF Owns, IsStash, Advanced
  <2>8. QED
    BY <1>5, <2>1, <2>3, <2>6, <2>7 DEF GotNext
<1>12. QED
  BY <1>9, <1>10, <1>11

(* What open() gives of a stash that has been saved. *)
LEMMA OpenSaved ==
    ASSUME NEW m, Shape(m), NEW ch, NEW text, Saved(m, ch, text), NEW s, s = open(m, ch[1])
    PROVE  /\ Shape(s.mem) /\ SameMap(m, s.mem) /\ SamePages(m, s.mem)
           /\ s.mem.bufs[0] = m.bufs[0] /\ s.mem.chip = m.chip
           /\ s.mem.bufs[1].bnum = ch[1]
           /\ \A p \in PageNo : Fresh(s.mem, p)
           /\ Owns(s.obj, ch) /\ Reading(s.obj, ch, 0) /\ s.obj.curr = ch[1]
<1>1. /\ ch[1] \in PageNo /\ Fresh(m, ch[1]) /\ 1 \in DOMAIN ch
      /\ Head3(Page(m, ch[1])).count = Len(ch) - 1
      /\ Head3(Page(m, ch[1])).first = ch[1]
      /\ Head3(Page(m, ch[1])).last = ch[Len(ch)]
  BY PagesOf DEF Saved
<1>2. /\ Shape(s.mem) /\ SameMap(m, s.mem) /\ SamePages(m, s.mem)
      /\ s.mem.bufs[0] = m.bufs[0] /\ s.mem.chip = m.chip
      /\ s.mem.bufs[1].bnum = ch[1]
      /\ s.mem.bufs[1].bytes = Page(m, ch[1])
      /\ s.obj = [count |-> Page(m, ch[1])[0], first |-> Page(m, ch[1])[1],
                  last |-> Page(m, ch[1])[2], curr |-> ch[1], offs |-> HeaderSize]
  BY <1>1, Open
<1>3. \A p \in PageNo : Fresh(s.mem, p)
  BY <1>1, <1>2 DEF Fresh, SamePages
<1>4. Owns(s.obj, ch) /\ s.obj.curr = ch[1] /\ s.obj.offs = HeaderSize
  BY <1>1, <1>2 DEF Owns, IsStash, Head3
<1>5. HeaderSize \in 0 .. TailAt /\ HeaderSize \in Nat
  BY PagesNat DEF HeaderSize, TailAt
<1>6. Pos(1, HeaderSize) = 0
  BY <1>5, PosSteps
<1>7. Reading(s.obj, ch, 0)
  BY <1>1, <1>4, <1>5, <1>6 DEF Reading
<1>8. QED
  BY <1>2, <1>3, <1>4, <1>7
(* In front of the end of the last page. *)
LEMMA TailOf ==
    ASSUME NEW m, NEW ch, NEW text, Written(m, ch, text), NEW n, n = Len(ch),
           NEW t, t = Page(m, ch[n])[TailAt]
    PROVE  /\ t \in 0 .. TailAt /\ t \in Nat /\ Len(text) = Pos(n, t) /\ n \in Nat /\ n >= 1
           /\ \A j \in 1 .. n : \A o \in 0 .. TailAt :
                Pos(j, o) <= Len(text) - 1 => j < n \/ o < t
<1>1. t \in 0 .. TailAt /\ Len(text) = Pos(n, t) /\ n \in Nat /\ n >= 1 /\ TailAt \in Nat
  BY PagesOf, PagesNat DEF Written, TailAt
<1>2. ASSUME NEW o \in 0 .. TailAt, Pos(n, o) <= Len(text) - 1
      PROVE  o < t
  <2>1. o \in Nat /\ t \in Nat
    BY <1>1
  <2>2. Pos(n, o) = Pos(n, t) + o - t /\ Pos(n, t) \in Int
    BY <1>1, <2>1, PosFrom
  <2>3. QED
    BY <1>1, <1>2, <2>1, <2>2
<1>3. QED
  BY <1>1, <1>2

(* put() adds to the text, *)
LEMMA WrittenInside ==
    ASSUME NEW m, NEW ch, NEW text, Written(m, ch, text), NEW c \in Nat \ {0},
           NEW n, n = Len(ch),
           NEW t \in 0 .. TailAt - 1, Page(m, ch[n])[TailAt] = t, IsPage(Page(m, ch[n])),
           NEW w, \A p \in Range(ch) \ {ch[n]} : Page(w, p) = Page(m, p),
           Page(w, ch[n]) = Added(Page(m, ch[n]), t, c)
    PROVE  Written(w, ch, Append(text, c))
<1> DEFINE b == Page(m, ch[n])
           d == Page(w, ch[n])
           new == Append(text, c)
<1>1. /\ n \in Nat /\ n >= 1 /\ Len(text) \in Nat /\ Len(text) = Pos(n, t) /\ text \in Seq(Nat \ {0})
      /\ TailAt \in Nat /\ t \in Nat /\ NextAt = TailAt + 1 /\ TailAt \in 0 .. PageSize - 1
      /\ NextAt \in 0 .. PageSize - 1 /\ DOMAIN ch = 1 .. n /\ PageSize \in Nat /\ TailAt < PageSize
  BY TailOf, PagesOf, PagesNat DEF TailAt, NextAt, Written
<1>2. \A o \in 0 .. PageSize - 1 :
         d[o] = IF o = TailAt THEN t + 1 ELSE IF o = t THEN c ELSE b[o]
  <2>1. DOMAIN b = 0 .. PageSize - 1 /\ d = [b EXCEPT ![t] = c, ![TailAt] = t + 1]
    BY DEF IsPage, Added
  <2> HIDE DEF b, d
  <2>2. QED
    BY <1>1, <2>1
<1>3. \A i, j \in DOMAIN ch : ch[i] = ch[j] => i = j
  BY DEF Written
<1>4. \A j \in 1 .. n - 1 : Page(w, ch[j]) = Page(m, ch[j])
  <2>1. \A j \in 1 .. n - 1 : j \in DOMAIN ch /\ j # n /\ n \in DOMAIN ch
    BY <1>1
  <2>2. \A j \in 1 .. n - 1 : ch[j] \in Range(ch) \ {ch[n]}
    BY <1>3, <2>1 DEF Range
  <2>3. QED
    BY <2>2
<1>5. Len(new) = Len(text) + 1 /\ new \in Seq(Nat \ {0})
      /\ new[Len(text) + 1] = c /\ \A k \in 1 .. Len(text) : new[k] = text[k]
  BY <1>1
<1>6. /\ d[NextAt] = 0 /\ d[TailAt] = t + 1 /\ t + 1 \in 0 .. TailAt
      /\ Len(new) = Pos(n, t + 1)
  <2>1. b[NextAt] = 0
    BY DEF Written
  <2>2. Pos(n, t + 1) = Pos(n, t) + 1
    BY <1>1, PosSteps
  <2>3. NextAt # TailAt /\ NextAt # t /\ t + 1 \in 0 .. TailAt
    BY <1>1
  <2> HIDE DEF b, d, new
  <2>4. QED
    BY <1>1, <1>2, <1>5, <2>1, <2>2, <2>3
<1>7. ASSUME NEW j \in DOMAIN ch, NEW o \in 0 .. TailAt, Pos(j, o) \in 0 .. Len(new) - 1
      PROVE  Page(w, ch[j])[o] = new[Pos(j, o) + 1]
  <2>1. Pos(j, o) <= Len(text) - 1 => Page(m, ch[j])[o] = text[Pos(j, o) + 1]
    <3>1. Pos(j, o) <= Len(text) - 1 => Pos(j, o) \in 0 .. Len(text) - 1
      BY <1>7
    <3>2. QED
      BY <3>1 DEF Written
  <2>2. CASE j < n
    <3>1. Pos(j, o) <= Len(text) - 1
      <4>1. Pos(j, o) < Pos(n, t) /\ Pos(j, o) \in Int
        BY <1>1, <1>7, <2>2, PosOrder
      <4>2. QED
        BY <1>1, <4>1
    <3>2. new[Pos(j, o) + 1] = text[Pos(j, o) + 1]
      BY <1>1, <1>5, <1>7, <3>1
    <3>3. Page(w, ch[j]) = Page(m, ch[j])
      BY <1>1, <1>4, <2>2
    <3>4. QED
      BY <2>1, <3>1, <3>2, <3>3
  <2>3. CASE j = n /\ Pos(j, o) <= Len(text) - 1
    <3>1. o < t
      <4>1. \A k \in 1 .. n : \A l \in 0 .. TailAt : Pos(k, l) <= Len(text) - 1 => k < n \/ l < t
        BY TailOf
      <4>2. n \in 1 .. n /\ ~(n < n)
        BY <1>1
      <4>3. QED
        BY <2>3, <4>1, <4>2
    <3>2. d[o] = b[o]
      <4>1. o \in 0 .. PageSize - 1 /\ o # t /\ o # TailAt
        BY <1>1, <3>1
      <4> HIDE DEF b, d
      <4>2. QED
        BY <1>2, <4>1
    <3>3. new[Pos(j, o) + 1] = text[Pos(j, o) + 1]
      BY <1>1, <1>5, <1>7, <2>3
    <3>4. QED
      BY <2>1, <2>3, <3>2, <3>3
  <2>4. CASE j = n /\ ~(Pos(j, o) <= Len(text) - 1)
    <3>1. Pos(n, o) = Len(text)
      BY <1>1, <1>5, <1>7, <2>4
    <3>2. o = t
      <4>1. o \in Nat
        BY <1>1
      <4>2. Pos(n, o) = Pos(n, t) + o - t /\ Pos(n, t) \in Int
        BY <1>1, <4>1, PosSteps
      <4>3. QED
        BY <1>1, <3>1, <4>1, <4>2
    <3>3. d[o] = c
      <4>1. t \in 0 .. PageSize - 1 /\ t # TailAt
        BY <1>1
      <4> HIDE DEF b, d
      <4>2. QED
        BY <1>2, <3>2, <4>1
    <3>4. QED
      BY <1>5, <2>4, <3>1, <3>3
  <2>5. j < n \/ j = n
    BY <1>1
  <2>6. QED
    BY <2>2, <2>3, <2>4, <2>5
<1>8. \A j \in 1 .. Len(ch) - 1 : Page(w, ch[j])[NextAt] = ch[j + 1]
  BY <1>1, <1>4 DEF Written
<1>9. ch \in Seq(1 .. Pages - 1) /\ Len(ch) >= 1
  BY DEF Written
<1> HIDE DEF new, b, d
<1>10. Written(w, ch, new)
  BY <1>3, <1>5, <1>6, <1>7, <1>8, <1>9 DEF Written, d
<1>11. QED
  BY <1>10 DEF new
(* and takes another page for the byte after the last of a page. *)
LEMMA WrittenFull ==
    ASSUME NEW m, NEW ch, NEW text, Written(m, ch, text), NEW c \in Nat \ {0},
           NEW n, n = Len(ch),
           Page(m, ch[n])[TailAt] = TailAt, IsPage(Page(m, ch[n])),
           NEW b \in 1 .. Pages - 1, b \notin Range(ch),
           NEW w, \A p \in Range(ch) \ {ch[n]} : Page(w, p) = Page(m, p),
           Page(w, ch[n]) = Continued(Page(m, ch[n]), c, b),
           Page(w, b)[TailAt] = 0, Page(w, b)[NextAt] = 0
    PROVE  Written(w, Append(ch, b), Append(text, c))
<1> DEFINE a == Page(m, ch[n])
           d == Page(w, ch[n])
           new == Append(text, c)
           all == Append(ch, b)
<1>1. /\ n \in Nat /\ n >= 1 /\ Len(text) \in Nat /\ Len(text) = Pos(n, TailAt)
      /\ text \in Seq(Nat \ {0})
      /\ TailAt \in Nat /\ NextAt = TailAt + 1 /\ TailAt < PageSize /\ NextAt < PageSize
      /\ DOMAIN ch = 1 .. n /\ PageSize \in Nat
  BY TailOf, PagesOf, PagesNat DEF TailAt, NextAt, Written
<1>2. \A o \in 0 .. PageSize - 1 :
         d[o] = IF o = NextAt THEN b ELSE IF o = TailAt THEN c ELSE a[o]
  <2>1. DOMAIN a = 0 .. PageSize - 1 /\ d = [a EXCEPT ![TailAt] = c, ![NextAt] = b]
    BY DEF IsPage, Continued
  <2> HIDE DEF a, d
  <2>2. QED
    BY <1>1, <2>1
<1>3. \A i, j \in DOMAIN ch : ch[i] = ch[j] => i = j
  BY DEF Written
<1>4. \A j \in 1 .. n - 1 : Page(w, ch[j]) = Page(m, ch[j])
  <2>1. \A j \in 1 .. n - 1 : j \in DOMAIN ch /\ j # n /\ n \in DOMAIN ch
    BY <1>1
  <2>2. \A j \in 1 .. n - 1 : ch[j] \in Range(ch) \ {ch[n]}
    BY <1>3, <2>1 DEF Range
  <2>3. QED
    BY <2>2
<1>5. Len(new) = Len(text) + 1 /\ new \in Seq(Nat \ {0})
      /\ new[Len(text) + 1] = c /\ \A k \in 1 .. Len(text) : new[k] = text[k]
  BY <1>1
<1>6. /\ all \in Seq(1 .. Pages - 1) /\ Len(all) = n + 1 /\ all[n + 1] = b
      /\ \A j \in 1 .. n : all[j] = ch[j]
      /\ DOMAIN all = 1 .. n + 1
  <2> DEFINE S == 1 .. Pages - 1
  <2>1. ch \in Seq(S) /\ b \in S
    BY DEF Written
  <2> HIDE DEF S
  <2>2. /\ all \in Seq(S) /\ Len(all) = n + 1 /\ all[n + 1] = b
        /\ \A j \in 1 .. n : all[j] = ch[j]
        /\ DOMAIN all = 1 .. n + 1
    BY <1>1, <2>1
  <2>3. QED
    BY <2>2 DEF S
<1>7. Len(new) = Pos(n + 1, 0)
  BY <1>1, <1>5, PosSteps
<1> HIDE DEF all
<1>8. \A i, j \in DOMAIN all : all[i] = all[j] => i = j
  <2>1. \A i \in 1 .. n : ch[i] # b
    BY <1>1 DEF Range
  <2>2. QED
    BY <1>1, <1>3, <1>6, <2>1
<1>9. \A j \in 1 .. n : Page(w, all[j])[NextAt] = all[j + 1]
  <2> SUFFICES ASSUME NEW j \in 1 .. n PROVE Page(w, all[j])[NextAt] = all[j + 1]
    OBVIOUS
  <2>1. CASE j = n
    <3>1. d[NextAt] = b
      <4>1. NextAt \in 0 .. PageSize - 1
        BY <1>1
      <4> HIDE DEF d, a
      <4>2. QED
        BY <1>2, <4>1
    <3>2. QED
      BY <1>6, <2>1, <3>1
  <2>2. CASE j # n
    <3>1. j \in 1 .. n - 1 /\ j + 1 \in 1 .. n
      BY <1>1, <2>2
    <3>2. Page(m, ch[j])[NextAt] = ch[j + 1]
      BY <3>1 DEF Written
    <3>3. QED
      BY <1>4, <1>6, <3>1, <3>2
  <2>3. QED
    BY <2>1, <2>2
<1>10. ASSUME NEW j \in 1 .. n + 1, NEW o \in 0 .. TailAt, Pos(j, o) \in 0 .. Len(new) - 1
       PROVE  Page(w, all[j])[o] = new[Pos(j, o) + 1]
  <2>1. CASE j = n + 1
    <3>1. o \in Nat /\ n + 1 \in Nat /\ 0 \in Nat
      BY <1>1
    <3> DEFINE i == n + 1
    <3>4. i \in Nat
      BY <3>1
    <3> HIDE DEF i
    <3>5. Pos(i, o) = Pos(i, 0) + o - 0 /\ Pos(i, 0) \in Int
      BY <3>1, <3>4, PosSteps
    <3>2. Pos(n + 1, o) = Pos(n + 1, 0) + o - 0
      BY <3>5 DEF i
    <3>3. QED
      BY <1>1, <1>5, <1>7, <1>10, <2>1, <3>1, <3>2
  <2>2. CASE j < n
    <3>1. Pos(j, o) < Pos(n, TailAt) /\ Pos(j, o) \in Int
      BY <1>1, <1>10, <2>2, PosOrder
    <3>2. Pos(j, o) \in 0 .. Len(text) - 1
      BY <1>1, <1>10, <3>1
    <3>3. new[Pos(j, o) + 1] = text[Pos(j, o) + 1]
      <4>1. Pos(j, o) + 1 \in 1 .. Len(text)
        BY <1>1, <3>2
      <4> HIDE DEF new
      <4>2. QED
        BY <1>5, <4>1
    <3>4. j \in DOMAIN ch /\ Page(w, ch[j]) = Page(m, ch[j]) /\ all[j] = ch[j]
      BY <1>1, <1>4, <1>6, <2>2
    <3>5. Page(m, ch[j])[o] = text[Pos(j, o) + 1]
      BY <3>2, <3>4 DEF Written
    <3>6. QED
      BY <3>3, <3>4, <3>5
  <2>3. CASE j = n
    <3>1. o \in Nat
      BY <1>1
    <3>2. Pos(n, o) = Pos(n, TailAt) + o - TailAt /\ Pos(n, TailAt) \in Int
      BY <1>1, <3>1, PosSteps
    <3>3. CASE o = TailAt
      <4>1. d[o] = c
        <5>1. o \in 0 .. PageSize - 1 /\ o # NextAt
          BY <1>1, <3>3
        <5> HIDE DEF d, a
        <5>2. QED
          BY <1>2, <3>3, <5>1
      <4>2. Pos(n, o) = Len(text)
        BY <1>1, <3>3
      <4>3. n \in 1 .. n
        BY <1>1
      <4> HIDE DEF new
      <4>4. QED
        BY <1>5, <1>6, <2>3, <4>1, <4>2, <4>3
    <3>4. CASE o # TailAt
      <4>1. d[o] = a[o]
        <5>1. o \in 0 .. PageSize - 1 /\ o # NextAt /\ o # TailAt
          BY <1>1, <3>1, <3>4
        <5> HIDE DEF d, a
        <5>2. QED
          BY <1>2, <5>1
      <4>2. Pos(n, o) \in 0 .. Len(text) - 1 /\ n \in DOMAIN ch
        BY <1>1, <1>10, <2>3, <3>1, <3>2, <3>4
      <4>3. a[o] = text[Pos(n, o) + 1]
        BY <4>2 DEF Written
      <4>4. new[Pos(n, o) + 1] = text[Pos(n, o) + 1]
        <5>1. Pos(n, o) + 1 \in 1 .. Len(text)
          BY <1>1, <4>2
        <5> HIDE DEF new
        <5>2. QED
          BY <1>5, <5>1
      <4>5. n \in 1 .. n
        BY <1>1
      <4>6. QED
        BY <1>6, <2>3, <4>1, <4>3, <4>4, <4>5
    <3>5. QED
      BY <3>3, <3>4
  <2>4. j = n + 1 \/ j < n \/ j = n
    BY <1>1
  <2>5. QED
    BY <2>1, <2>2, <2>3, <2>4
<1>11. 0 \in 0 .. TailAt
  BY <1>1
<1>12. Len(all) >= 1 /\ 1 .. Len(all) - 1 = 1 .. n
  BY <1>1, <1>6
<1> HIDE DEF new, d, a
<1>13. Written(w, all, new)
  BY <1>5, <1>6, <1>7, <1>8, <1>9, <1>10, <1>11, <1>12 DEF Written
<1>14. QED
  BY <1>13 DEF new, all
-----------------------------------------------------------------------------
(* Recursive functions are what their definitions say.                     *)

(* f is print() of the first n bytes, byte by byte. *)
Printed(f, m, s, bytes, n) ==
    f = [k \in 0 .. n |-> IF k = 0 THEN [mem |-> m, obj |-> s]
                         ELSE put(f[k - 1].mem, f[k - 1].obj, bytes[k])]

LEMMA PrintedExists ==
    ASSUME NEW m, NEW s, NEW bytes, NEW n \in Nat
    PROVE  \E f : Printed(f, m, s, bytes, n)
<1> DEFINE first == [mem |-> m, obj |-> s]
           Step(v, k) == put(v.mem, v.obj, bytes[k])
           Fn(f, l) == f = [k \in 0 .. l |-> IF k = 0 THEN first ELSE Step(f[k - 1], k)]
<1>1. SUFFICES \E f : Fn(f, n)
  BY DEF Printed
<1> HIDE DEF first, Step
<1> DEFINE T == {l \in Nat : ~\E f : Fn(f, l)}
<1>2. SUFFICES ASSUME T # {} PROVE FALSE
  OBVIOUS
<1>3. PICK l \in T : \A k \in T : l <= k
  BY <1>2, Least
<1>4. l # 0
  <2>1. Fn([k \in 0 .. 0 |-> first], 0)
    OBVIOUS
  <2>2. QED
    BY <2>1
<1>5. l - 1 \in Nat /\ l - 1 \notin T
  BY <1>3, <1>4
<1>6. PICK g : Fn(g, l - 1)
  BY <1>5
<1> DEFINE f == [k \in 0 .. l |-> IF k = l THEN Step(g[l - 1], l) ELSE g[k]]
<1>7. \A k \in 0 .. l : f[k] = IF k = 0 THEN first ELSE Step(f[k - 1], k)
  <2> TAKE k \in 0 .. l
  <2>1. CASE k = l
    BY <1>4, <1>5, <2>1
  <2>2. CASE k # l
    <3>1. k \in 0 .. l - 1 /\ k - 1 # l
      BY <2>2
    <3>2. f[k] = g[k] /\ (k # 0 => f[k - 1] = g[k - 1])
      BY <2>2, <3>1
    <3>3. QED
      BY <1>6, <3>1, <3>2
  <2>3. QED
    BY <2>1, <2>2
<1>8. f = [k \in 0 .. l |-> f[k]]
  OBVIOUS
<1> HIDE DEF f
<1>9. Fn(f, l)
  BY <1>7, <1>8
<1>10. QED
  BY <1>3, <1>9

LEMMA PrintsAre ==
    ASSUME NEW m, NEW s, NEW bytes, Len(bytes) \in Nat, NEW f, f = Prints(m, s, bytes)
    PROVE  /\ f[0] = [mem |-> m, obj |-> s]
           /\ \A k \in 1 .. Len(bytes) : f[k] = put(f[k - 1].mem, f[k - 1].obj, bytes[k])
<1>1. Printed(f, m, s, bytes, Len(bytes))
  BY PrintedExists DEF Printed, Prints
<1>2. QED
  BY <1>1 DEF Printed

(* The first n links from a page. *)
Linked(f, m, first, n) ==
    f = [k \in 0 .. n |-> IF k = 0 THEN first
                         ELSE (IF f[k - 1] = 0 THEN 0 ELSE peekin(m, f[k - 1], NextAt))]

LEMMA LinkedExists ==
    ASSUME NEW m, NEW first, NEW n \in Nat
    PROVE  \E f : Linked(f, m, first, n)
<1> DEFINE start == first
           Step(v, k) == (IF v = 0 THEN 0 ELSE peekin(m, v, NextAt))
           Fn(f, l) == f = [k \in 0 .. l |-> IF k = 0 THEN start ELSE Step(f[k - 1], k)]
<1>1. SUFFICES \E f : Fn(f, n)
  BY DEF Linked
<1> HIDE DEF start, Step
<1> DEFINE T == {l \in Nat : ~\E f : Fn(f, l)}
<1>2. SUFFICES ASSUME T # {} PROVE FALSE
  OBVIOUS
<1>3. PICK l \in T : \A k \in T : l <= k
  BY <1>2, Least
<1>4. l # 0
  <2>1. Fn([k \in 0 .. 0 |-> start], 0)
    OBVIOUS
  <2>2. QED
    BY <2>1
<1>5. l - 1 \in Nat /\ l - 1 \notin T
  BY <1>3, <1>4
<1>6. PICK g : Fn(g, l - 1)
  BY <1>5
<1> DEFINE f == [k \in 0 .. l |-> IF k = l THEN Step(g[l - 1], l) ELSE g[k]]
<1>7. \A k \in 0 .. l : f[k] = IF k = 0 THEN start ELSE Step(f[k - 1], k)
  <2> TAKE k \in 0 .. l
  <2>1. CASE k = l
    BY <1>4, <1>5, <2>1
  <2>2. CASE k # l
    <3>1. k \in 0 .. l - 1 /\ k - 1 # l
      BY <2>2
    <3>2. f[k] = g[k] /\ (k # 0 => f[k - 1] = g[k - 1])
      BY <2>2, <3>1
    <3>3. QED
      BY <1>6, <3>1, <3>2
  <2>3. QED
    BY <2>1, <2>2
<1>8. f = [k \in 0 .. l |-> f[k]]
  OBVIOUS
<1> HIDE DEF f
<1>9. Fn(f, l)
  BY <1>7, <1>8
<1>10. QED
  BY <1>3, <1>9

LEMMA LinksAre ==
    ASSUME NEW m, NEW first, NEW f, f = Links(m, first)
    PROVE  /\ f[0] = first
           /\ \A n \in 1 .. Pages :
                f[n] = IF f[n - 1] = 0 THEN 0 ELSE peekin(m, f[n - 1], NextAt)
<1>1. Linked(f, m, first, Pages) /\ Pages \in Nat
  <2>1. Pages \in Nat
    BY PagesNat
  <2>2. f = CHOOSE g : Linked(g, m, first, Pages)
    BY DEF Links, Linked
  <2>3. QED
    BY <2>1, <2>2, LinkedExists
<1> DEFINE Step(v) == IF v = 0 THEN 0 ELSE peekin(m, v, NextAt)
<1>2. f = [k \in 0 .. Pages |-> IF k = 0 THEN first ELSE Step(f[k - 1])]
  BY <1>1 DEF Linked
<1> HIDE DEF Step
<1>3. f[0] = first
  BY <1>1, <1>2
<1>5. ASSUME NEW n \in 1 .. Pages
      PROVE  f[n] = Step(f[n - 1])
  <2>1. n \in 0 .. Pages /\ n # 0
    BY <1>1
  <2>2. QED
    BY <1>2, <2>1
<1>4. QED
  BY <1>3, <1>5 DEF Step
-----------------------------------------------------------------------------
(* From memory m and stash s, with pages ch, to w and t: the stash now has *)
(* the pages all, those that it had and some that were free; nothing has   *)
(* become of the others.                                                   *)
Grown(m, s, ch, w, t, all) ==
    /\ Shape(w) /\ w.short = m.short
    /\ Len(all) >= Len(ch) /\ \A j \in 1 .. Len(ch) : all[j] = ch[j]
    /\ Range(all) \subseteq Range(ch) \cup m.map
    /\ w.map = m.map \ Range(all)
    /\ \A p \in PageNo \ Range(all) : Page(w, p) = Page(m, p) /\ (Fresh(m, p) => Fresh(w, p))
    /\ w.bufs[1].bnum \in {m.bufs[1].bnum, NoPage} \ (Range(all) \ Range(ch))
    /\ Owns(t, all) /\ t.curr = s.curr /\ t.offs = s.offs

LEMMA GrownNot ==
    ASSUME NEW m, Shape(m), NEW s, NEW ch, NEW text, Written(m, ch, text), Owns(s, ch),
           Range(ch) \cap m.map = {}
    PROVE  Grown(m, s, ch, m, s, ch)
<1>1. Len(ch) \in Nat
  BY PagesOf
<1>2. QED
  BY <1>1 DEF Grown

LEMMA GrownTwice ==
    ASSUME NEW m, Shape(m), NEW s, NEW ch, NEW w, NEW t, NEW all, Grown(m, s, ch, w, t, all),
           NEW x, NEW u, NEW more, Grown(w, t, all, x, u, more),
           Len(ch) \in Nat, Len(all) \in Nat, Len(more) \in Nat,
           DOMAIN all = 1 .. Len(all), DOMAIN more = 1 .. Len(more)
    PROVE  Grown(m, s, ch, x, u, more)
<1>1. Len(more) >= Len(ch) /\ \A j \in 1 .. Len(ch) : more[j] = ch[j]
  BY DEF Grown
<1>2. Range(all) \subseteq Range(more)
  <2>1. \A j \in DOMAIN all : j \in DOMAIN more /\ all[j] = more[j]
    BY DEF Grown
  <2>2. QED
    BY <2>1 DEF Range
<1>3. Range(more) \subseteq Range(ch) \cup m.map
  BY DEF Grown
<1>4. x.map = m.map \ Range(more)
  BY <1>2 DEF Grown
<1>5. \A p \in PageNo \ Range(more) : Page(x, p) = Page(m, p) /\ (Fresh(m, p) => Fresh(x, p))
  BY <1>2 DEF Grown
<1>6. x.bufs[1].bnum \in {m.bufs[1].bnum, NoPage} \ (Range(more) \ Range(ch))
  <2>1. /\ w.bufs[1].bnum \in {m.bufs[1].bnum, NoPage} \ (Range(all) \ Range(ch))
        /\ x.bufs[1].bnum \in {w.bufs[1].bnum, NoPage} \ (Range(more) \ Range(all))
    BY DEF Grown
  <2>2. NoPage \notin Range(all) \ Range(ch)
    <3>1. Range(all) \ Range(ch) \subseteq m.map
      BY DEF Grown
    <3>2. m.map \subseteq 1 .. Pages - 1
      BY ShapeMap
    <3>3. NoPage \notin 1 .. Pages - 1
      BY PagesNat DEF NoPage
    <3>4. QED
      BY <3>1, <3>2, <3>3
  <2>3. QED
    BY <1>3, <2>1, <2>2
<1>7. QED
  BY <1>1, <1>3, <1>4, <1>5, <1>6 DEF Grown

(* One byte: there is a page for it, or the memory is short. *)
LEMMA PutGrows ==
    ASSUME NEW m, Shape(m), NEW s, NEW ch, NEW text, Written(m, ch, text), Owns(s, ch),
           Range(ch) \cap m.map = {}, NEW c \in Nat \ {0}, NEW r, r = put(m, s, c)
    PROVE  \/ r.mem.short
           \/ \E all : /\ Grown(m, s, ch, r.mem, r.obj, all)
                       /\ Written(r.mem, all, Append(text, c))
                       /\ r.mem.bufs[0].bnum = r.obj.last
<1> DEFINE n == Len(ch)
           t == Page(m, ch[n])[TailAt]
<1>1. /\ t \in 0 .. TailAt /\ t \in Nat /\ n \in Nat /\ n >= 1 /\ TailAt \in Nat /\ DOMAIN ch = 1 .. n
      /\ n \in DOMAIN ch
  BY TailOf, PagesOf, PagesNat DEF TailAt
<1>2. /\ IsStash(s) /\ s.last = ch[n] /\ s.last \in PageNo /\ s.last \in 1 .. Pages - 1
      /\ s.first = ch[1] /\ s.count = n - 1
  BY <1>1, PagesOf DEF Owns
<1>3. IsPage(Page(m, ch[n])) /\ s.last \in Range(ch)
  BY <1>1, <1>2, PageIsPage DEF Range
<1> HIDE DEF t
<1>4. CASE t # TailAt
  <2>1. t \in 0 .. TailAt - 1 /\ Page(m, s.last)[TailAt] = t /\ Page(m, ch[n])[TailAt] = t
    BY <1>1, <1>2, <1>4 DEF t
  <2>2. /\ Shape(r.mem) /\ SameMap(m, r.mem) /\ r.obj = s
        /\ r.mem.bufs[0].bnum = s.last
        /\ \A p \in PageNo \ {s.last} : Page(r.mem, p) = Page(m, p)
        /\ Page(r.mem, s.last) = Added(Page(m, s.last), t, c)
        /\ \A p \in PageNo \ {s.last} : Fresh(m, p) => Fresh(r.mem, p)
        /\ r.mem.bufs[1].bnum \in {m.bufs[1].bnum, NoPage}
    BY <1>2, <2>1, PutInside
  <2>3. \A p \in Range(ch) : p \in PageNo
    BY PagesOf
  <2>4. \A p \in Range(ch) \ {ch[n]} : Page(r.mem, p) = Page(m, p)
    BY <1>2, <2>2, <2>3
  <2>5. Page(r.mem, ch[n]) = Added(Page(m, ch[n]), t, c)
    BY <1>2, <2>2
  <2>6. Written(r.mem, ch, Append(text, c))
    BY <1>3, <2>1, <2>4, <2>5, WrittenInside
  <2>7. Grown(m, s, ch, r.mem, r.obj, ch)
    BY <1>1, <1>3, <2>2 DEF Grown, SameMap
  <2>8. QED
    BY <2>2, <2>6, <2>7
<1>5. CASE t = TailAt /\ m.map = {}
  BY <1>2, <1>5, PutShape DEF t
<1>6. CASE t = TailAt /\ m.map # {}
  <2>1. s.last \in PageNo \ m.map /\ Page(m, s.last)[TailAt] = TailAt
    BY <1>2, <1>3, <1>6 DEF t
  <2>2. PICK b \in m.map :
             /\ Shape(r.mem) /\ r.mem.map = m.map \ {b} /\ r.mem.short = m.short
             /\ r.obj = Extended(s, b)
             /\ r.mem.bufs[0].bnum = b
             /\ \A p \in PageNo \ {s.last, b} : Page(r.mem, p) = Page(m, p)
             /\ Page(r.mem, s.last) = Continued(Page(m, s.last), c, b)
             /\ Page(r.mem, b)[TailAt] = 0 /\ Page(r.mem, b)[NextAt] = 0
             /\ \A p \in PageNo \ {s.last, b} : Fresh(m, p) => Fresh(r.mem, p)
             /\ r.mem.bufs[1].bnum \in {m.bufs[1].bnum, NoPage} \ {b}
    <3>1. IsStash(s) /\ m.map # {}
      BY <1>2, <1>6
    <3>2. QED
      BY <2>1, <3>1, PutFull
  <2>3. b \in 1 .. Pages - 1 /\ b \notin Range(ch)
    BY ShapeMap
  <2>4. \A p \in Range(ch) \ {ch[n]} : Page(r.mem, p) = Page(m, p)
    <3>1. \A p \in Range(ch) : p \in PageNo /\ p # b
      BY <2>3, PagesOf
    <3>2. QED
      BY <1>2, <2>2, <3>1
  <2>5. /\ Page(r.mem, ch[n]) = Continued(Page(m, ch[n]), c, b)
        /\ Page(m, ch[n])[TailAt] = TailAt
    BY <1>2, <2>1, <2>2
  <2> DEFINE all == Append(ch, b)
  <2>6. Written(r.mem, all, Append(text, c))
    BY <1>3, <2>2, <2>3, <2>4, <2>5, WrittenFull
  <2>7. /\ Len(all) = n + 1 /\ all[n + 1] = b /\ \A j \in 1 .. n : all[j] = ch[j]
        /\ Range(all) = Range(ch) \cup {b} /\ all[1] = ch[1]
    <3>1. \E S : ch \in Seq(S) /\ b \in S
      BY <2>3 DEF Written
    <3>2. /\ Len(all) = n + 1 /\ all[n + 1] = b /\ \A j \in 1 .. n : all[j] = ch[j]
          /\ DOMAIN all = 1 .. n + 1
      BY <1>1, <3>1
    <3>3. 1 .. n + 1 = (1 .. n) \cup {n + 1} /\ 1 \in 1 .. n
      BY <1>1
    <3> HIDE DEF all
    <3>4. QED
      BY <1>1, <3>2, <3>3 DEF Range
  <2> HIDE DEF all
  <2>8. /\ r.obj.count = n /\ r.obj.first = ch[1] /\ r.obj.last = b /\ IsStash(r.obj)
        /\ r.obj.curr = s.curr /\ r.obj.offs = s.offs
    <3>1. r.obj = Extended(s, b) /\ IsStash(s)
      BY <1>2, <2>2
    <3>2. r.obj = [count |-> s.count + 1, first |-> s.first, last |-> b,
                   curr |-> s.curr, offs |-> s.offs]
      BY <3>1 DEF IsStash, Extended
    <3>3. s.count + 1 = n
      BY <1>1, <1>2
    <3>4. QED
      BY <1>2, <3>2, <3>3 DEF IsStash
  <2>9. Owns(r.obj, all)
    BY <1>1, <2>7, <2>8 DEF Owns
  <2>10. Grown(m, s, ch, r.mem, r.obj, all)
    <3>1. r.mem.map = m.map \ Range(all)
      BY <2>2, <2>7
    <3>2. \A p \in PageNo \ Range(all) : p \in PageNo \ {s.last, b}
      BY <1>3, <2>7
    <3>3. Range(all) \ Range(ch) = {b}
      BY <2>3, <2>7
    <3>4. QED
      BY <1>1, <2>2, <2>7, <2>8, <2>9, <3>1, <3>2, <3>3 DEF Grown
  <2>11. QED
    BY <2>2, <2>6, <2>8, <2>10
<1>7. QED
  BY <1>4, <1>5, <1>6
(* Whatever is in the memory, print() keeps to its pages. *)
LEMMA PrintShape ==
    ASSUME NEW m, Shape(m), NEW s, IsStash(s), s.last \in PageNo,
           NEW bytes, Len(bytes) \in Nat, NEW f, f = Prints(m, s, bytes), NEW k \in 0 .. Len(bytes)
    PROVE  /\ Shape(f[k].mem) /\ IsStash(f[k].obj)
           /\ f[k].obj.last \in PageNo /\ f[k].obj.first = s.first /\ f[k].obj.curr = s.curr
           /\ m.short => f[k].mem.short
<1> DEFINE Good(r) == /\ Shape(r.mem) /\ IsStash(r.obj)
                      /\ r.obj.last \in PageNo /\ r.obj.first = s.first /\ r.obj.curr = s.curr
                      /\ m.short => r.mem.short
           T == {l \in 0 .. Len(bytes) : ~Good(f[l])}
<1>1. f[0] = [mem |-> m, obj |-> s]
      /\ \A l \in 1 .. Len(bytes) : f[l] = put(f[l - 1].mem, f[l - 1].obj, bytes[l])
  BY PrintsAre
<1>2. SUFFICES ASSUME T # {} PROVE FALSE
  OBVIOUS
<1>3. PICK l \in T : \A i \in T : l <= i
  <2>1. T \in SUBSET Nat
    OBVIOUS
  <2> HIDE DEF T
  <2>2. QED
    BY <1>2, <2>1, Least
<1>4. l # 0
  BY <1>1
<1>5. l - 1 \in 0 .. Len(bytes) /\ l \in 1 .. Len(bytes) /\ l - 1 \notin T
  BY <1>3, <1>4
<1>6. Good(f[l - 1])
  BY <1>5
<1> DEFINE r == f[l]
           o == f[l - 1]
<1>7. r = put(o.mem, o.obj, bytes[l])
  BY <1>1, <1>5
<1> HIDE DEF r, o, T
<1>8. /\ Shape(r.mem) /\ IsStash(r.obj)
      /\ r.obj.last \in PageNo /\ r.obj.first = o.obj.first /\ r.obj.curr = o.obj.curr
      /\ o.mem.short => r.mem.short
  BY <1>6, <1>7, PutShape DEF o
<1>9. Good(r)
  BY <1>6, <1>8 DEF o
<1>10. QED
  BY <1>3, <1>9 DEF r, T

LEMMA OneMore ==
    ASSUME NEW S, NEW a \in Seq(S), NEW R, NEW b \in Seq(R), NEW l \in 1 .. Len(b)
    PROVE  a \o SubSeq(b, 1, l) = Append(a \o SubSeq(b, 1, l - 1), b[l])
<1> DEFINE x == SubSeq(b, 1, l)
           y == SubSeq(b, 1, l - 1)
           u == a \o x
           v == a \o y
           w == Append(v, b[l])
<1>1. Len(b) \in Nat /\ l - 1 \in 0 .. Len(b) /\ l \in Nat /\ Len(a) \in Nat
  OBVIOUS
<1>2. x \in Seq(R) /\ Len(x) = l /\ \A k \in 1 .. l : x[k] = b[k]
  BY <1>1
<1>3. y \in Seq(R) /\ Len(y) = l - 1 /\ \A k \in 1 .. l - 1 : y[k] = b[k]
  BY <1>1
<1>4. b[l] \in R
  OBVIOUS
<1> HIDE DEF x, y
<1>5. /\ u \in Seq(S \cup R) /\ Len(u) = Len(a) + l
      /\ \A k \in 1 .. Len(a) + l : u[k] = IF k <= Len(a) THEN a[k] ELSE x[k - Len(a)]
  BY <1>1, <1>2
<1>6. /\ v \in Seq(S \cup R) /\ Len(v) = Len(a) + l - 1
      /\ \A k \in 1 .. Len(a) + l - 1 : v[k] = IF k <= Len(a) THEN a[k] ELSE y[k - Len(a)]
  BY <1>1, <1>3
<1> HIDE DEF u, v
<1>7. /\ w \in Seq(S \cup R) /\ Len(w) = Len(a) + l
      /\ \A k \in 1 .. Len(a) + l : w[k] = IF k = Len(a) + l THEN b[l] ELSE v[k]
  BY <1>1, <1>4, <1>6
<1> HIDE DEF w
<1>8. \A k \in 1 .. Len(a) + l : u[k] = w[k]
  <2> TAKE k \in 1 .. Len(a) + l
  <2>1. CASE k = Len(a) + l
    BY <1>1, <1>2, <1>5, <1>7, <2>1
  <2>2. CASE k # Len(a) + l
    <3>1. k \in 1 .. Len(a) + l - 1 /\ w[k] = v[k]
      <4>1. k \in 1 .. Len(a) + l - 1
        BY <1>1, <2>2
      <4>2. w[k] = v[k]
        BY <1>7, <2>2
      <4>3. QED
        BY <4>1, <4>2
    <3>2. CASE k <= Len(a)
      BY <1>5, <1>6, <3>1, <3>2
    <3>3. CASE ~(k <= Len(a))
      <4>1. k - Len(a) \in 1 .. l - 1 /\ k - Len(a) \in 1 .. l
        BY <1>1, <2>2, <3>3
      <4>2. QED
        BY <1>2, <1>3, <1>5, <1>6, <3>1, <3>3, <4>1
    <3>4. QED
      BY <3>2, <3>3
  <2>3. QED
    BY <2>1, <2>2
<1>9. u = w
  BY <1>1, <1>5, <1>7, <1>8
<1>10. QED
  BY <1>9 DEF u, w, v, x, y

(* print() adds its bytes to the text, or finds no page for them. *)
LEMMA PrintGrows ==
    ASSUME NEW m, Shape(m), NEW s, NEW ch, NEW text, Written(m, ch, text), Owns(s, ch),
           Range(ch) \cap m.map = {},
           NEW bytes \in Seq(Nat \ {0}), NEW r, r = print(m, s, bytes)
    PROVE  \/ r.mem.short
           \/ \E all : /\ Grown(m, s, ch, r.mem, r.obj, all)
                       /\ Written(r.mem, all, text \o bytes)
                       /\ bytes # <<>> => r.mem.bufs[0].bnum = r.obj.last
                       /\ bytes = <<>> => r.mem = m
<1> DEFINE n == Len(bytes)
           f == Prints(m, s, bytes)
           Said(l) == text \o SubSeq(bytes, 1, l)
           Good(l) == \E all : /\ Grown(m, s, ch, f[l].mem, f[l].obj, all)
                               /\ Written(f[l].mem, all, Said(l))
                               /\ l # 0 => f[l].mem.bufs[0].bnum = f[l].obj.last
           T == {l \in 0 .. n : ~(f[l].mem.short \/ Good(l))}
<1>1. n \in Nat /\ text \in Seq(Nat \ {0})
  BY DEF Written
<1>2. f[0] = [mem |-> m, obj |-> s]
      /\ \A l \in 1 .. n : f[l] = put(f[l - 1].mem, f[l - 1].obj, bytes[l])
  <2> HIDE DEF f
  <2>1. f = Prints(m, s, bytes)
    BY DEF f
  <2>2. QED
    BY <1>1, <2>1, PrintsAre
<1>3. Said(0) = text /\ Said(n) = text \o bytes
  BY <1>1
<1>4. \A l \in 1 .. n : Said(l) = Append(Said(l - 1), bytes[l]) /\ bytes[l] \in Nat \ {0}
  <2> TAKE l \in 1 .. n
  <2>1. bytes \in Seq(Nat \ {0}) /\ l \in 1 .. Len(bytes) /\ text \in Seq(Nat \ {0})
    BY <1>1
  <2>2. bytes[l] \in Nat \ {0}
    BY <2>1
  <2>3. text \o SubSeq(bytes, 1, l) = Append(text \o SubSeq(bytes, 1, l - 1), bytes[l])
    BY <2>1, OneMore
  <2>4. QED
    BY <2>2, <2>3
<1>5. r = f[n]
  BY DEF print
<1> HIDE DEF f, Said
<1>6. T = {}
  <2>1. SUFFICES ASSUME T # {} PROVE FALSE
    OBVIOUS
  <2>2. PICK l \in T : \A i \in T : l <= i
    <3>1. T \in SUBSET Nat
      BY <1>1
    <3> HIDE DEF T
    <3>2. QED
      BY <2>1, <3>1, Least
  <2>3. l # 0
    <3>1. Grown(m, s, ch, m, s, ch)
      BY GrownNot
    <3>2. f[0].mem = m /\ f[0].obj = s
      BY <1>2
    <3>3. Good(0)
      BY <1>3, <3>1, <3>2
    <3> HIDE DEF Good
    <3>4. QED
      BY <3>3
  <2>4. l - 1 \in 0 .. n /\ l \in 1 .. n /\ l - 1 \notin T
    <3>1. l \in 0 .. n
      OBVIOUS
    <3> HIDE DEF T
    <3>2. QED
      BY <1>1, <2>2, <2>3, <3>1
  <2>5. f[l - 1].mem.short \/ Good(l - 1)
    <3> HIDE DEF Good
    <3>1. QED
      BY <2>4
  <2> DEFINE w == f[l - 1].mem
             t == f[l - 1].obj
             x == f[l].mem
             u == f[l].obj
  <2>6. f[l] = put(w, t, bytes[l])
    BY <1>2, <2>4
  <2>7. CASE w.short
    <3>1. IsStash(s) /\ s.last \in PageNo
      BY PagesOf DEF Owns
    <3>2. f = Prints(m, s, bytes)
      BY DEF f
    <3>3. Shape(w) /\ IsStash(t) /\ t.last \in PageNo
      <4> HIDE DEF w, t
      <4>1. w = f[l - 1].mem /\ t = f[l - 1].obj
        BY DEF w, t
      <4>2. QED
        BY <1>1, <2>4, <3>1, <3>2, <4>1, PrintShape
    <3> HIDE DEF w, t
    <3>4. x.short
      BY <2>6, <2>7, <3>3, PutShape
    <3>5. QED
      BY <2>2, <3>4
  <2>8. CASE Good(l - 1)
    <3>1. PICK all : /\ Grown(m, s, ch, w, t, all)
                     /\ Written(w, all, Said(l - 1))
      BY <2>8, Zenon
    <3> HIDE DEF w, t
    <3>2. Shape(w) /\ Owns(t, all) /\ Range(all) \cap w.map = {}
      BY <3>1 DEF Grown
    <3>3. bytes[l] \in Nat \ {0} /\ Said(l) = Append(Said(l - 1), bytes[l])
      BY <1>4, <2>4
    <3>4. \/ x.short
          \/ \E more : /\ Grown(w, t, all, x, u, more)
                       /\ Written(x, more, Said(l))
                       /\ x.bufs[0].bnum = u.last
      <4> DEFINE y == f[l]
      <4>1. y = put(w, t, bytes[l])
        BY <2>6
      <4> DEFINE c == bytes[l]
                 said == Said(l - 1)
      <4>2. c \in Nat \ {0} /\ Written(w, all, said) /\ y = put(w, t, c)
        BY <3>1, <3>3, <4>1
      <4> HIDE DEF y, T, Good, c, said
      <4>3. \/ y.mem.short
            \/ \E more : /\ Grown(w, t, all, y.mem, y.obj, more)
                         /\ Written(y.mem, more, Append(said, c))
                         /\ y.mem.bufs[0].bnum = y.obj.last
        BY <3>2, <4>2, PutGrows
      <4>4. QED
        BY <3>3, <4>3 DEF y, c, said
    <3>5. CASE x.short
      BY <2>2, <3>5
    <3>6. CASE ~x.short
      <4>1. PICK more : /\ Grown(w, t, all, x, u, more)
                        /\ Written(x, more, Said(l))
                        /\ x.bufs[0].bnum = u.last
        BY <3>4, <3>6
      <4>2. /\ Len(ch) \in Nat /\ Len(all) \in Nat /\ Len(more) \in Nat
            /\ DOMAIN all = 1 .. Len(all) /\ DOMAIN more = 1 .. Len(more)
        BY <3>1, <4>1, PagesOf
      <4> HIDE DEF x, u
      <4>3. Grown(m, s, ch, x, u, more)
        BY <3>1, <4>1, <4>2, GrownTwice
      <4>4. Good(l)
        BY <4>1, <4>3 DEF x, u
      <4> HIDE DEF Good
      <4>5. QED
        BY <2>2, <4>4
    <3>7. QED
      BY <3>5, <3>6
  <2>9. QED
    BY <2>5, <2>7, <2>8
<1>7. n \in 0 .. n
  BY <1>1
<1>8. r.mem.short \/ Good(n)
  <2> HIDE DEF Good
  <2>1. QED
    BY <1>5, <1>6, <1>7
<1>9. bytes = <<>> <=> n = 0
  BY <1>1
<1>10. bytes = <<>> => r.mem = m
  BY <1>2, <1>5, <1>9
<1>11. CASE Good(n)
  <2>1. PICK all : /\ Grown(m, s, ch, f[n].mem, f[n].obj, all)
                   /\ Written(f[n].mem, all, Said(n))
                   /\ n # 0 => f[n].mem.bufs[0].bnum = f[n].obj.last
    BY <1>11
  <2>2. QED
    BY <1>3, <1>5, <1>9, <1>10, <2>1
<1>12. QED
  BY <1>8, <1>11
-----------------------------------------------------------------------------
(* A stash has no more pages than there are. *)
LEMMA PagesEnough ==
    ASSUME NEW m, NEW ch, NEW text, Written(m, ch, text)
    PROVE  Len(ch) <= Pages - 1
<1> DEFINE n == Len(ch)
           S == 1 .. n
           T == 1 .. Pages - 1
<1>1. /\ n \in Nat /\ DOMAIN ch = S /\ \A j \in S : ch[j] \in T
      /\ \A i, j \in S : ch[i] = ch[j] => i = j
  <2>1. n \in Nat /\ DOMAIN ch = S /\ \A j \in S : ch[j] \in T
    BY PagesOf
  <2>2. \A i, j \in DOMAIN ch : ch[i] = ch[j] => i = j
    BY DEF Written
  <2> HIDE DEF S, T
  <2>3. QED
    BY <2>1, <2>2
<1>2. Pages - 1 \in Nat
  BY PagesNat
<1>3. IsFiniteSet(S) /\ Cardinality(S) = n
  BY <1>1, FS_Interval
<1>4. IsFiniteSet(T) /\ Cardinality(T) = Pages - 1
  BY <1>2, FS_Interval
<1> DEFINE g == [j \in S |-> ch[j]]
<1>5. g \in [S -> T]
  BY <1>1
<1>6. \A i, j \in S : g[i] = g[j] => i = j
  BY <1>1
<1> HIDE DEF g, S, T
<1>7. g \in Injection(S, T)
  BY <1>5, <1>6 DEF Injection, IsInjective
<1>8. Cardinality(S) <= Cardinality(T)
  BY <1>4, <1>7, FS_Injection
<1>9. QED
  BY <1>3, <1>4, <1>8

(* release() frees the pages of a stash, once they have been written back. *)
LEMMA ChainIs ==
    ASSUME NEW m, Shape(m), NEW ch, NEW text, Written(m, ch, text), m.bufs[0].bnum \notin Range(ch)
    PROVE  Chain(m, ch[1]) = Range(ch)
<1> DEFINE n == Len(ch)
           f == Links(m, ch[1])
           Goes(k) == f[k] = IF k < n THEN ch[k + 1] ELSE 0
           T == {k \in 0 .. Pages : ~Goes(k)}
<1>1. /\ n \in Nat /\ n >= 1 /\ n <= Pages - 1 /\ Pages \in Nat
      /\ \A j \in 1 .. n : ch[j] \in PageNo /\ ch[j] # 0
      /\ Range(ch) = {ch[j] : j \in 1 .. n}
  BY PagesOf, PagesNat, PagesEnough
<1>2. \A j \in 1 .. n : peekin(m, ch[j], NextAt) = IF j < n THEN ch[j + 1] ELSE 0
  <2> TAKE j \in 1 .. n
  <2>1. ch[j] \in DOMAIN m.chip /\ m.bufs[0].bnum # ch[j]
    BY <1>1, ShapeMap
  <2>2. peekin(m, ch[j], NextAt) = Page(m, ch[j])[NextAt]
    BY <2>1 DEF peekin, Page
  <2>3. CASE j < n
    <3>1. j \in 1 .. n - 1
      BY <1>1, <2>3
    <3>2. Page(m, ch[j])[NextAt] = ch[j + 1]
      BY <3>1 DEF Written
    <3>3. QED
      BY <2>2, <2>3, <3>2
  <2>4. CASE ~(j < n)
    <3>1. j = n
      BY <1>1, <2>4
    <3>2. Page(m, ch[n])[NextAt] = 0
      BY DEF Written
    <3>3. QED
      BY <2>2, <2>4, <3>1, <3>2
  <2>5. QED
    BY <2>3, <2>4
<1>3. /\ f[0] = ch[1]
      /\ \A k \in 1 .. Pages : f[k] = IF f[k - 1] = 0 THEN 0 ELSE peekin(m, f[k - 1], NextAt)
  <2> DEFINE first == ch[1]
  <2>1. f = Links(m, first)
    OBVIOUS
  <2> HIDE DEF f, first
  <2>2. f[0] = first
    BY <2>1, LinksAre
  <2>3. \A k \in 1 .. Pages : f[k] = IF f[k - 1] = 0 THEN 0 ELSE peekin(m, f[k - 1], NextAt)
    BY <2>1, LinksAre
  <2>4. QED
    BY <2>2, <2>3 DEF first
<1> HIDE DEF f
<1>4. T = {}
  <2>1. SUFFICES ASSUME T # {} PROVE FALSE
    OBVIOUS
  <2>2. PICK k \in T : \A i \in T : k <= i
    <3>1. T \in SUBSET Nat
      BY <1>1
    <3> HIDE DEF T
    <3>2. QED
      BY <2>1, <3>1, Least
  <2>3. k \in 0 .. Pages /\ ~Goes(k)
    OBVIOUS
  <2>4. k # 0
    BY <1>1, <1>3, <2>3
  <2>5. k - 1 \in 0 .. Pages /\ k \in 1 .. Pages
    BY <1>1, <2>3, <2>4
  <2>6. Goes(k - 1)
    <3>1. k - 1 \notin T
      <4> HIDE DEF T
      <4>1. QED
        BY <2>2, <2>5
    <3>2. QED
      BY <2>5, <3>1
  <2>7. CASE k - 1 < n
    <3>1. f[k - 1] = ch[k] /\ k \in 1 .. n
      BY <1>1, <2>5, <2>6, <2>7
    <3>2. f[k] = peekin(m, ch[k], NextAt)
      BY <1>1, <1>3, <2>5, <3>1
    <3>3. QED
      BY <1>2, <2>3, <3>1, <3>2
  <2>8. CASE ~(k - 1 < n)
    <3>1. f[k - 1] = 0 /\ ~(k < n)
      BY <1>1, <2>5, <2>6, <2>8
    <3>2. f[k] = 0
      BY <1>3, <2>5, <3>1
    <3>3. QED
      BY <2>3, <3>1, <3>2
  <2>9. QED
    BY <2>7, <2>8
<1>5. \A k \in 0 .. Pages : Goes(k)
  BY <1>4
<1> HIDE DEF T
<1>6. Chain(m, ch[1]) = {f[k] : k \in 0 .. Pages} \ {0}
  BY DEF Chain, f
<1>7. ASSUME NEW p \in Range(ch) PROVE p \in {f[k] : k \in 0 .. Pages} \ {0}
  <2>1. PICK j \in 1 .. n : p = ch[j]
    BY <1>1
  <2>2. j - 1 \in 0 .. Pages /\ j - 1 < n /\ j - 1 + 1 = j
    BY <1>1
  <2>3. f[j - 1] = p
    BY <1>5, <2>1, <2>2
  <2>4. QED
    BY <1>1, <2>1, <2>2, <2>3
<1>8. ASSUME NEW k \in 0 .. Pages, f[k] # 0 PROVE f[k] \in Range(ch)
  <2>1. f[k] = IF k < n THEN ch[k + 1] ELSE 0
    BY <1>5
  <2>2. k < n /\ f[k] = ch[k + 1]
    BY <1>8, <2>1
  <2>3. k + 1 \in 1 .. n
    BY <1>1, <2>2
  <2>4. QED
    BY <1>1, <2>2, <2>3
<1>9. QED
  BY <1>6, <1>7, <1>8
-----------------------------------------------------------------------------
(* The first n sequences, one after the other. *)
Flattened(f, seqs, n) ==
    f = [k \in 1 .. n |-> IF k = 1 THEN seqs[k] ELSE f[k - 1] \o seqs[k]]

LEMMA FlattenedExists ==
    ASSUME NEW seqs, NEW n \in Nat
    PROVE  \E f : Flattened(f, seqs, n)
<1> DEFINE first == seqs[1]
           Step(v, k) == v \o seqs[k]
           Fn(f, l) == f = [k \in 1 .. l |-> IF k = 1 THEN first ELSE Step(f[k - 1], k)]
<1>1. SUFFICES \E f : Fn(f, n)
  BY DEF Flattened
<1> HIDE DEF first, Step
<1> DEFINE T == {l \in Nat : ~\E f : Fn(f, l)}
<1>2. SUFFICES ASSUME T # {} PROVE FALSE
  OBVIOUS
<1>3. PICK l \in T : \A k \in T : l <= k
  BY <1>2, Least
<1>4. l # 0
  <2>1. Fn([k \in 1 .. 0 |-> first], 0)
    OBVIOUS
  <2>2. QED
    BY <2>1
<1>5. l - 1 \in Nat /\ l - 1 \notin T
  <2>1. l \in Nat /\ l - 1 \in Nat
    BY <1>4
  <2> HIDE DEF T
  <2>2. QED
    BY <1>3, <2>1
<1>6. PICK g : Fn(g, l - 1)
  BY <1>5
<1> DEFINE f == [k \in 1 .. l |-> IF k # l THEN g[k] ELSE IF l = 1 THEN first ELSE Step(g[l - 1], l)]
<1>7. \A k \in 1 .. l : f[k] = IF k = 1 THEN first ELSE Step(f[k - 1], k)
  <2> TAKE k \in 1 .. l
  <2>1. CASE k = l
    <3>1. f[k] = IF l = 1 THEN first ELSE Step(g[l - 1], l)
      BY <2>1
    <3>2. l # 1 => l - 1 \in 1 .. l /\ f[l - 1] = g[l - 1]
      BY <1>5
    <3>3. QED
      BY <2>1, <3>1, <3>2
  <2>2. CASE k # l
    <3>1. k \in 1 .. l - 1 /\ k - 1 # l
      BY <2>2
    <3>2. f[k] = g[k] /\ (k # 1 => f[k - 1] = g[k - 1])
      BY <2>2, <3>1
    <3>3. QED
      BY <1>6, <3>1, <3>2
  <2>3. QED
    BY <2>1, <2>2
<1>8. f = [k \in 1 .. l |-> f[k]]
  OBVIOUS
<1> HIDE DEF f
<1>9. Fn(f, l)
  BY <1>7, <1>8
<1>10. QED
  BY <1>3, <1>9

LEMMA EmptyBefore ==
    ASSUME NEW b \in Seq(Int)
    PROVE  b = <<>> \o b
OBVIOUS

(* Where each of the sequences is in all of them. *)
Cuts(cut, seqs, text) ==
    /\ cut \in [0 .. Len(seqs) -> Nat] /\ cut[0] = 0 /\ cut[Len(seqs)] = Len(text)
    /\ \A i \in 1 .. Len(seqs) :
         /\ cut[i] = cut[i - 1] + Len(seqs[i]) /\ cut[i] <= Len(text)
         /\ \A k \in 1 .. Len(seqs[i]) : text[cut[i - 1] + k] = seqs[i][k]

LEMMA CutsExist ==
    ASSUME NEW seqs, Len(seqs) \in Nat, seqs = [i \in 1 .. Len(seqs) |-> seqs[i]],
           \A i \in 1 .. Len(seqs) : seqs[i] \in Seq(Int),
           NEW text, text = FlattenSeq(seqs)
    PROVE  text \in Seq(Int) /\ \E cut : Cuts(cut, seqs, text)
<1> DEFINE n == Len(seqs)
<1>1. CASE n = 0
  <2>1. text = seqs
    BY <1>1 DEF FlattenSeq
  <2>2. seqs = <<>>
    BY <1>1
  <2>3. Cuts([i \in 0 .. 0 |-> 0], seqs, text)
    BY <1>1, <2>1, <2>2 DEF Cuts
  <2>4. QED
    BY <2>1, <2>2, <2>3
<1>2. CASE n # 0
  <2> DEFINE f == CHOOSE g : Flattened(g, seqs, n)
  <2>1. text = f[n]
    BY <1>2 DEF FlattenSeq, Flattened
  <2>2. Flattened(f, seqs, n)
    BY FlattenedExists, Zenon
  <2>3. \A i \in 1 .. n : f[i] = IF i = 1 THEN seqs[i] ELSE f[i - 1] \o seqs[i]
    BY <2>2, Zenon DEF Flattened
  <2> HIDE DEF f
  <2> DEFINE All(i) == IF i = 0 THEN <<>> ELSE f[i]
             T == {i \in 0 .. n : ~(All(i) \in Seq(Int))}
  <2>4. \A i \in 1 .. n : All(i - 1) \in Seq(Int) => All(i) \in Seq(Int) /\ All(i) = All(i - 1) \o seqs[i]
    <3> TAKE i \in 1 .. n
    <3>1. seqs[i] \in Seq(Int)
      OBVIOUS
    <3>2. CASE i = 1
      <4>1. All(i) = seqs[i] /\ All(i - 1) = <<>>
        BY <2>3, <3>2
      <4> HIDE DEF All
      <4>2. All(i) = All(i - 1) \o seqs[i]
        BY <3>1, <4>1, EmptyBefore
      <4>3. QED
        BY <3>1, <4>1, <4>2
    <3>3. CASE i # 1
      <4>2. i # 0 /\ i - 1 # 0
        BY <3>3
      <4>4. f[i] = f[i - 1] \o seqs[i]
        BY <2>3, <3>3
      <4>3. All(i) = f[i] /\ All(i - 1) = f[i - 1] /\ f[i] = f[i - 1] \o seqs[i]
        BY <4>2, <4>4
      <4>1. All(i) = All(i - 1) \o seqs[i]
        BY <4>3
      <4> HIDE DEF All
      <4>5. QED
        BY <3>1, <4>1
    <3>4. QED
      BY <3>2, <3>3
  <2>5. All(0) = <<>> /\ All(n) = text
    BY <1>2, <2>1
  <2> HIDE DEF All
  <2>6. T = {}
    <3>1. SUFFICES ASSUME T # {} PROVE FALSE
      OBVIOUS
    <3>2. PICK i \in T : \A k \in T : i <= k
      <4>1. T \in SUBSET Nat
        OBVIOUS
      <4> HIDE DEF T
      <4>2. QED
        BY <3>1, <4>1, Least
    <3>3. i \in 0 .. n /\ ~(All(i) \in Seq(Int))
      OBVIOUS
    <3>4. i # 0
      <4>1. <<>> \in Seq(Int)
        OBVIOUS
      <4> HIDE DEF T
      <4>2. QED
        BY <2>5, <3>3, <4>1
    <3>5. i - 1 \in 0 .. n /\ i \in 1 .. n
      BY <3>3, <3>4
    <3>6. All(i - 1) \in Seq(Int)
      <4>1. i - 1 \notin T
        <5> HIDE DEF T
        <5>1. QED
          BY <3>2, <3>5
      <4>2. QED
        BY <3>5, <4>1
    <3>7. QED
      BY <2>4, <3>3, <3>5, <3>6
  <2>7. \A i \in 0 .. n : All(i) \in Seq(Int)
    BY <2>6
  <2> HIDE DEF T
  <2>8. \A i \in 1 .. n :
           /\ Len(All(i)) = Len(All(i - 1)) + Len(seqs[i])
           /\ \A k \in 1 .. Len(All(i - 1)) : All(i)[k] = All(i - 1)[k]
           /\ \A k \in 1 .. Len(seqs[i]) : All(i)[Len(All(i - 1)) + k] = seqs[i][k]
    <3> TAKE i \in 1 .. n
    <3> DEFINE a == All(i - 1)
               b == seqs[i]
    <3>1. a \in Seq(Int) /\ b \in Seq(Int) /\ All(i) = a \o b
      <4>1. i - 1 \in 0 .. n
        OBVIOUS
      <4>2. QED
        BY <2>4, <2>7, <4>1
    <3> HIDE DEF a, b
    <3>2. QED
      BY <3>1 DEF a, b
  <2> DEFINE U == {i \in 0 .. n : ~(/\ Len(All(n - i)) <= Len(text)
                                    /\ \A k \in 1 .. Len(All(n - i)) : All(n - i)[k] = text[k])}
  <2>9. U = {}
    <3>1. SUFFICES ASSUME U # {} PROVE FALSE
      OBVIOUS
    <3>2. PICK i \in U : \A k \in U : i <= k
      <4>1. U \in SUBSET Nat
        OBVIOUS
      <4> HIDE DEF U
      <4>2. QED
        BY <3>1, <4>1, Least
    <3>3. i \in 0 .. n /\ ~(/\ Len(All(n - i)) <= Len(text)
                           /\ \A k \in 1 .. Len(All(n - i)) : All(n - i)[k] = text[k])
      OBVIOUS
    <3>4. text \in Seq(Int)
      BY <2>5, <2>7
    <3>5. i # 0
      BY <2>5, <3>3, <3>4
    <3>6. i - 1 \in 0 .. n /\ i \in 1 .. n
      BY <3>3, <3>5
    <3> DEFINE j == n - (i - 1)
    <3>7. j \in 1 .. n /\ j - 1 = n - i /\ j - 1 \in 0 .. n
      BY <3>6
    <3>8. /\ Len(All(j)) <= Len(text)
          /\ \A k \in 1 .. Len(All(j)) : All(j)[k] = text[k]
      <4>1. i - 1 \notin U
        <5> HIDE DEF U
        <5>1. QED
          BY <3>2, <3>6
      <4>2. QED
        BY <3>6, <4>1
    <3> HIDE DEF j, U
    <3> DEFINE a == All(j - 1)
               b == All(j)
    <3>9. /\ Len(b) = Len(a) + Len(seqs[j])
          /\ \A k \in 1 .. Len(a) : b[k] = a[k]
      BY <2>8, <3>7
    <3>10. a \in Seq(Int) /\ b \in Seq(Int) /\ seqs[j] \in Seq(Int)
      <4>1. j \in 0 .. n
        BY <3>7
      <4>2. QED
        BY <2>7, <3>7, <4>1
    <3>11. Len(b) <= Len(text) /\ \A k \in 1 .. Len(b) : b[k] = text[k]
      BY <3>8
    <3> HIDE DEF a, b
    <3>12. Len(a) <= Len(text) /\ \A k \in 1 .. Len(a) : a[k] = text[k]
      <4> DEFINE la == Len(a)
                 lb == Len(b)
                 ls == Len(seqs[j])
                 lt == Len(text)
      <4>1. la \in Nat /\ lb \in Nat /\ ls \in Nat /\ lt \in Nat
        BY <3>4, <3>10
      <4>2. lb = la + ls /\ (\A k \in 1 .. la : b[k] = a[k])
            /\ lb <= lt /\ \A k \in 1 .. lb : b[k] = text[k]
        BY <3>9, <3>11
      <4> HIDE DEF la, lb, ls, lt
      <4>3. la <= lt /\ \A k \in 1 .. la : k \in 1 .. lb
        BY <4>1, <4>2
      <4>4. la <= lt /\ \A k \in 1 .. la : a[k] = text[k]
        BY <4>2, <4>3
      <4>5. QED
        BY <4>4 DEF la, lt
    <3>13. QED
      BY <3>3, <3>7, <3>12 DEF a
  <2>10. ASSUME NEW j \in 0 .. n
         PROVE  /\ Len(All(j)) <= Len(text)
                /\ \A k \in 1 .. Len(All(j)) : All(j)[k] = text[k]
    <3>1. n - j \in 0 .. n /\ n - (n - j) = j
      OBVIOUS
    <3>2. n - j \notin U
      BY <2>9
    <3>3. QED
      BY <3>1, <3>2
  <2> HIDE DEF U
  <2> DEFINE cut == [i \in 0 .. n |-> Len(All(i))]
  <2>11. text \in Seq(Int) /\ Len(text) \in Nat
    BY <2>5, <2>7
  <2>12. cut \in [0 .. n -> Nat] /\ cut[0] = 0 /\ cut[n] = Len(text)
    <3>1. \A i \in 0 .. n : Len(All(i)) \in Nat
      BY <2>7
    <3>2. Len(All(0)) = 0 /\ Len(All(n)) = Len(text) /\ n \in 0 .. n
      BY <2>5
    <3>3. QED
      BY <3>1, <3>2
  <2>13. ASSUME NEW i \in 1 .. n
         PROVE  /\ cut[i] = cut[i - 1] + Len(seqs[i]) /\ cut[i] <= Len(text)
                /\ \A k \in 1 .. Len(seqs[i]) : text[cut[i - 1] + k] = seqs[i][k]
    <3>1. i \in 0 .. n /\ i - 1 \in 0 .. n
      OBVIOUS
    <3>2. cut[i] = Len(All(i)) /\ cut[i - 1] = Len(All(i - 1))
      BY <3>1
    <3>3. /\ Len(All(i)) = Len(All(i - 1)) + Len(seqs[i])
          /\ \A k \in 1 .. Len(seqs[i]) : All(i)[Len(All(i - 1)) + k] = seqs[i][k]
      BY <2>8
    <3>4. Len(All(i - 1)) \in Nat /\ Len(seqs[i]) \in Nat
      BY <2>7, <3>1
    <3>5. /\ Len(All(i)) <= Len(text)
          /\ \A k \in 1 .. Len(All(i)) : All(i)[k] = text[k]
      BY <2>10, <3>1
    <3> HIDE DEF cut
    <3>6. ASSUME NEW k \in 1 .. Len(seqs[i])
          PROVE  text[cut[i - 1] + k] = seqs[i][k]
      <4>1. Len(All(i - 1)) + k \in 1 .. Len(All(i))
        BY <3>3, <3>4
      <4>2. QED
        BY <3>2, <3>3, <3>5, <4>1
    <3>7. QED
      BY <3>2, <3>3, <3>5, <3>6
  <2> HIDE DEF cut
  <2>14. Cuts(cut, seqs, text)
    BY <2>12, <2>13 DEF Cuts
  <2>15. QED
    BY <2>11, <2>14
<1>3. QED
  BY <1>1, <1>2
-----------------------------------------------------------------------------
(* f has the digits of the numbers up to n. *)
Digits(f, n) ==
    f = [v \in 0 .. n |->
            IF v > 9 THEN Append(f[v \div 10], 48 + (v % 10)) ELSE <<48 + v>>]

LEMMA DivSmaller ==
    ASSUME NEW v \in Nat, v > 9
    PROVE  v \div 10 \in Nat /\ v \div 10 < v
OBVIOUS

LEMMA DigitsExist ==
    ASSUME NEW n \in Nat
    PROVE  \E f : Digits(f, n)
<1> DEFINE More(s, v) == Append(s, 48 + (v % 10))
           Fn(f, l) == f = [v \in 0 .. l |-> IF v > 9 THEN More(f[v \div 10], v) ELSE <<48 + v>>]
<1>1. SUFFICES \E f : Fn(f, n)
  BY DEF Digits
<1> HIDE DEF More
<1> DEFINE T == {l \in Nat : ~\E f : Fn(f, l)}
<1>2. SUFFICES ASSUME T # {} PROVE FALSE
  OBVIOUS
<1>3. PICK l \in T : \A k \in T : l <= k
  BY <1>2, Least
<1>4. l # 0
  <2>1. Fn([v \in 0 .. 0 |-> <<48 + v>>], 0)
    OBVIOUS
  <2>2. QED
    BY <2>1
<1>5. l - 1 \in Nat /\ l - 1 \notin T
  <2>1. l \in Nat /\ l - 1 \in Nat
    BY <1>4
  <2> HIDE DEF T
  <2>2. QED
    BY <1>3, <2>1
<1>6. PICK g : Fn(g, l - 1)
  BY <1>5
<1> DEFINE f == [v \in 0 .. l |-> IF v # l THEN g[v]
                                  ELSE IF v > 9 THEN More(g[v \div 10], v) ELSE <<48 + v>>]
<1>7. \A v \in 0 .. l : f[v] = IF v > 9 THEN More(f[v \div 10], v) ELSE <<48 + v>>
  <2> TAKE v \in 0 .. l
  <2>1. v > 9 => v \div 10 \in 0 .. l - 1 /\ v \div 10 \in 0 .. l /\ v \div 10 # l
    BY <1>5, DivSmaller
  <2>2. v > 9 => f[v \div 10] = g[v \div 10]
    BY <2>1
  <2>3. v # l => v \in 0 .. l - 1 /\ f[v] = g[v]
    BY <1>5
  <2>4. v = l => f[v] = IF v > 9 THEN More(g[v \div 10], v) ELSE <<48 + v>>
    OBVIOUS
  <2>5. v # l => g[v] = IF v > 9 THEN More(g[v \div 10], v) ELSE <<48 + v>>
    BY <1>6, <2>3
  <2> HIDE DEF f
  <2>6. QED
    BY <2>2, <2>3, <2>4, <2>5
<1>8. f = [v \in 0 .. l |-> f[v]]
  OBVIOUS
<1> HIDE DEF f
<1>9. Fn(f, l)
  BY <1>7, <1>8
<1>10. QED
  BY <1>3, <1>9

LEMMA DigitsSame ==
    ASSUME NEW n \in Nat, NEW f, Digits(f, n), NEW m \in Nat, NEW g, Digits(g, m), m <= n
    PROVE  f[m] = g[m]
<1> DEFINE T == {v \in 0 .. m : f[v] # g[v]}
           More(s, v) == Append(s, 48 + (v % 10))
<1>1. \A v \in 0 .. m : /\ f[v] = IF v > 9 THEN More(f[v \div 10], v) ELSE <<48 + v>>
                        /\ g[v] = IF v > 9 THEN More(g[v \div 10], v) ELSE <<48 + v>>
  <2>1. \A v \in 0 .. n : f[v] = IF v > 9 THEN More(f[v \div 10], v) ELSE <<48 + v>>
    BY DEF Digits
  <2>2. \A v \in 0 .. m : g[v] = IF v > 9 THEN More(g[v \div 10], v) ELSE <<48 + v>>
    BY DEF Digits
  <2>3. \A v \in 0 .. m : v \in 0 .. n
    OBVIOUS
  <2> HIDE DEF More
  <2>4. QED
    BY <2>1, <2>2, <2>3
<1> HIDE DEF More
<1>2. SUFFICES ASSUME T # {} PROVE FALSE
  OBVIOUS
<1>3. PICK v \in T : \A k \in T : v <= k
  <2>1. T \in SUBSET Nat
    OBVIOUS
  <2> HIDE DEF T
  <2>2. QED
    BY <1>2, <2>1, Least
<1>4. v \in 0 .. m /\ f[v] # g[v] /\ v \in Nat
  OBVIOUS
<1>5. v > 9 => v \div 10 \in 0 .. m /\ v \div 10 < v
  BY <1>4, DivSmaller
<1>6. v > 9 => f[v \div 10] = g[v \div 10]
  <2>1. v > 9 => v \div 10 \notin T
    <3> HIDE DEF T
    <3>1. QED
      BY <1>3, <1>4, <1>5
  <2>2. QED
    BY <1>5, <2>1
<1>7. QED
  BY <1>1, <1>4, <1>6

LEMMA WtoaIs ==
    wtoa = [v \in Nat |-> IF v > 9 THEN Append(wtoa[v \div 10], 48 + (v % 10)) ELSE <<48 + v>>]
<1> DEFINE More(s, v) == Append(s, 48 + (v % 10))
           Good(f) == f = [v \in Nat |-> IF v > 9 THEN More(f[v \div 10], v) ELSE <<48 + v>>]
           Up(v) == CHOOSE f : Digits(f, v)
           h == [v \in Nat |-> Up(v)[v]]
<1>1. \A v \in Nat : Digits(Up(v), v)
  BY DigitsExist
<1>2. \A v \in Nat : Up(v)[v] = IF v > 9 THEN More(Up(v)[v \div 10], v) ELSE <<48 + v>>
  <2> TAKE v \in Nat
  <2>1. Digits(Up(v), v) /\ v \in 0 .. v
    BY <1>1
  <2> DEFINE f == Up(v)
  <2> HIDE DEF f
  <2>2. f[v] = IF v > 9 THEN More(f[v \div 10], v) ELSE <<48 + v>>
    BY <2>1 DEF Digits, f
  <2>3. QED
    BY <2>2 DEF f
<1>3. \A v \in Nat : v > 9 => Up(v)[v \div 10] = Up(v \div 10)[v \div 10]
  <2> TAKE v \in Nat
  <2>1. SUFFICES ASSUME v > 9 PROVE Up(v)[v \div 10] = Up(v \div 10)[v \div 10]
    OBVIOUS
  <2> DEFINE d == v \div 10
  <2>2. d \in Nat /\ d <= v
    BY <2>1, DivSmaller
  <2> HIDE DEF d
  <2>3. Digits(Up(v), v) /\ Digits(Up(d), d)
    BY <1>1, <2>2
  <2> HIDE DEF Up
  <2>4. Up(v)[d] = Up(d)[d]
    BY <2>2, <2>3, DigitsSame
  <2>5. QED
    BY <2>4 DEF d
<1> HIDE DEF Up, More
<1>4. \A v \in Nat : h[v] = IF v > 9 THEN More(h[v \div 10], v) ELSE <<48 + v>>
  <2> TAKE v \in Nat
  <2>1. v > 9 => v \div 10 \in Nat
    BY DivSmaller
  <2>2. QED
    BY <1>2, <1>3, <2>1
<1>5. h = [v \in Nat |-> h[v]]
  OBVIOUS
<1> HIDE DEF h
<1>6. Good(h)
  BY <1>4, <1>5
<1>7. wtoa = CHOOSE f : Good(f)
  BY DEF wtoa, More
<1> HIDE DEF Good
<1>8. Good(wtoa)
  BY <1>6, <1>7
<1>9. QED
  BY <1>8 DEF Good, More

(* A number has digits. *)
LEMMA WtoaType ==
    ASSUME NEW n \in Nat
    PROVE  wtoa[n] \in Seq(Int)
<1> DEFINE T == {v \in Nat : ~(wtoa[v] \in Seq(Int))}
<1>1. SUFFICES ASSUME T # {} PROVE FALSE
  OBVIOUS
<1>2. PICK v \in T : \A k \in T : v <= k
  <2>1. T \in SUBSET Nat
    OBVIOUS
  <2> HIDE DEF T
  <2>2. QED
    BY <1>1, <2>1, Least
<1>3. v \in Nat /\ ~(wtoa[v] \in Seq(Int))
  OBVIOUS
<1>4. wtoa[v] = IF v > 9 THEN Append(wtoa[v \div 10], 48 + (v % 10)) ELSE <<48 + v>>
  BY <1>3, WtoaIs
<1>5. v > 9 => wtoa[v \div 10] \in Seq(Int)
  <2>1. v > 9 => v \div 10 \in Nat /\ ~(v <= v \div 10)
    BY <1>3, DivSmaller
  <2>2. v > 9 => v \div 10 \notin T
    <3> HIDE DEF T
    <3>1. QED
      BY <1>2, <2>1
  <2>3. QED
    BY <2>1, <2>2
<1> DEFINE d == wtoa[v \div 10]
<1>6. CASE v > 9
  <2>1. d \in Seq(Int) /\ 48 + (v % 10) \in Int
    BY <1>3, <1>5, <1>6
  <2> HIDE DEF d
  <2>2. Append(d, 48 + (v % 10)) \in Seq(Int)
    BY <2>1
  <2>3. QED
    BY <1>3, <1>4, <1>6, <2>2 DEF d
<1>7. CASE ~(v > 9)
  BY <1>3, <1>4, <1>7
<1>8. QED
  BY <1>6, <1>7
-----------------------------------------------------------------------------
(* What is read, and opened for that, are the pages R. *)
Quiet(m, w, R) ==
    /\ Shape(w) /\ SameMap(m, w) /\ SamePages(m, w)
    /\ w.bufs[0] = m.bufs[0] /\ w.chip = m.chip
    /\ w.bufs[1].bnum \in {m.bufs[1].bnum} \cup R
    /\ \A p \in PageNo : Fresh(m, p) => Fresh(w, p)

LEMMA QuietNot ==
    ASSUME NEW m, Shape(m), NEW R
    PROVE  Quiet(m, m, R)
BY DEF Quiet, SameMap, SamePages

LEMMA QuietTwice ==
    ASSUME NEW m, NEW w, NEW x, NEW R, Quiet(m, w, R), Quiet(w, x, R)
    PROVE  Quiet(m, x, R)
BY DEF Quiet, SameMap, SamePages

LEMMA QuietOpen ==
    ASSUME NEW m, Shape(m), NEW p \in PageNo, NEW R, p \in R, NEW s, s = open(m, p)
    PROVE  Quiet(m, s.mem, R)
<1>1. /\ Shape(s.mem) /\ SameMap(m, s.mem) /\ SamePages(m, s.mem)
      /\ s.mem.bufs[0] = m.bufs[0] /\ s.mem.chip = m.chip
      /\ s.mem.bufs[1].bnum = p
      /\ Fresh(m, p) =>
                /\ s.mem.bufs[1].bytes = Page(m, p)
                /\ s.obj = [count |-> Page(m, p)[0], first |-> Page(m, p)[1],
                            last |-> Page(m, p)[2], curr |-> p, offs |-> HeaderSize]
  BY Open
<1>2. \A q \in PageNo : Fresh(m, q) => Fresh(s.mem, q)
  BY <1>1 DEF Fresh, SamePages
<1>3. QED
  BY <1>1, <1>2 DEF Quiet

(* A stash that has been saved remains so. *)
LEMMA SavedQuiet ==
    ASSUME NEW m, NEW ch, NEW text, Saved(m, ch, text), NEW w, NEW R, Quiet(m, w, R)
    PROVE  Saved(w, ch, text)
<1>1. \A p \in Range(ch) : p \in PageNo /\ ch[1] \in Range(ch)
  BY PagesOf DEF Saved
<1>2. \A p \in Range(ch) : Page(w, p) = Page(m, p) /\ (Fresh(m, p) => Fresh(w, p))
  BY <1>1 DEF Quiet, SamePages
<1>3. Written(w, ch, text)
  BY <1>2, WrittenFrame DEF Saved
<1>4. Page(w, ch[1]) = Page(m, ch[1])
  <2>1. ch[1] \in Range(ch)
    BY PagesOf DEF Saved
  <2>2. QED
    BY <1>2, <2>1
<1>5. QED
  BY <1>2, <1>3, <1>4 DEF Saved

(* The arguments of the directives of a format. *)
ArgsOf(fmt, args) == [i \in 1 .. Len(fmt) |-> args[ArgAt(fmt, i) - 1]]
Pieces(fmt, arg, stash) == [i \in 1 .. Len(fmt) |-> Piece(fmt[i], arg[i], stash)]
Fits(m, fmt, arg, ch, stash) ==
    \A i \in 1 .. Len(fmt) :
        /\ fmt[i] = D => arg[i] \in Nat
        /\ fmt[i] = F => Strings[arg[i]] \in Seq(Int)
        /\ fmt[i] = H => arg[i] = ch[1] /\ Saved(m, ch, stash)

LEMMA Kinds == D # F /\ D # H /\ F # H /\ D # 0 /\ F # 0 /\ H # 0
BY DEF D, F, H

LEMMA PieceIs ==
    ASSUME NEW p, NEW arg, NEW stash
    PROVE  /\ p = D => Piece(p, arg, stash) = wtoa[arg]
           /\ p = F => Piece(p, arg, stash) = Strings[arg]
           /\ p = H => Piece(p, arg, stash) = stash
           /\ p \notin Directives => Piece(p, arg, stash) = <<p>>
BY Kinds DEF Piece, Directives

LEMMA PiecesType ==
    ASSUME NEW m, NEW fmt \in Seq(Int), NEW arg, NEW ch, NEW stash, Fits(m, fmt, arg, ch, stash),
           NEW i \in 1 .. Len(fmt)
    PROVE  /\ Pieces(fmt, arg, stash)[i] = Piece(fmt[i], arg[i], stash)
           /\ Pieces(fmt, arg, stash)[i] \in Seq(Int)
<1> DEFINE p == fmt[i]
           a == arg[i]
           s == Piece(p, a, stash)
<1>1. Pieces(fmt, arg, stash)[i] = s
  BY DEF Pieces
<1>2. /\ p = D => a \in Nat
      /\ p = F => Strings[a] \in Seq(Int)
      /\ p = H => Saved(m, ch, stash)
      /\ p \in Int
  BY DEF Fits
<1>3. /\ p = D => s = wtoa[a]
      /\ p = F => s = Strings[a]
      /\ p = H => s = stash
      /\ p \notin Directives => s = <<p>>
  BY PieceIs
<1> HIDE DEF p, a, s
<1>4. p = D => s \in Seq(Int)
  BY <1>2, <1>3, WtoaType
<1>5. p = F => s \in Seq(Int)
  BY <1>2, <1>3
<1>6. ASSUME p = H
      PROVE  s \in Seq(Int)
  <2>1. stash \in Seq(Nat \ {0})
    BY <1>2, <1>6 DEF Saved, Written
  <2>2. stash \in Seq(Int)
    BY <2>1
  <2>3. QED
    BY <1>3, <1>6, <2>2
<1>7. ASSUME p \notin Directives
      PROVE  s \in Seq(Int)
  <2>1. <<p>> \in Seq(Int)
    BY <1>2
  <2>2. QED
    BY <1>3, <1>7, <2>1
<1>8. QED
  BY <1>1, <1>4, <1>5, <1>6, <1>7 DEF Directives, p, a, s

LEMMA PiecesCuts ==
    ASSUME NEW m, NEW fmt \in Seq(Int), NEW arg, NEW ch, NEW stash, Fits(m, fmt, arg, ch, stash),
           NEW text, text = FlattenSeq(Pieces(fmt, arg, stash))
    PROVE  /\ Len(Pieces(fmt, arg, stash)) = Len(fmt) /\ text \in Seq(Int)
           /\ \E cut : Cuts(cut, Pieces(fmt, arg, stash), text)
<1> DEFINE seqs == Pieces(fmt, arg, stash)
           n == Len(fmt)
<1>1. n \in Nat
  OBVIOUS
<1>2. seqs = [i \in 1 .. n |-> seqs[i]]
  BY DEF Pieces
<1>3. \A i \in 1 .. n : seqs[i] \in Seq(Int)
  BY PiecesType
<1> HIDE DEF seqs, n
<1>4. Len(seqs) = n
  <2>1. seqs \in Seq(Seq(Int)) /\ DOMAIN seqs = 1 .. n
    BY <1>1, <1>2, <1>3
  <2>2. QED
    BY <1>1, <2>1
<1>5. text = FlattenSeq(seqs)
  BY DEF seqs
<1>6. text \in Seq(Int) /\ \E cut : Cuts(cut, seqs, text)
  BY <1>1, <1>2, <1>3, <1>4, <1>5, CutsExist
<1>7. QED
  BY <1>4, <1>6 DEF seqs, n
-----------------------------------------------------------------------------
(* What prepare() has measured after n characters and directives. *)
Measured(f, m, fmt, args, n) ==
    f = [k \in 0 .. n |-> IF k = 0 THEN [mem |-> load(m, 0, 0), len |-> 0]
                         ELSE measured(f[k - 1], fmt[k], args[ArgAt(fmt, k) - 1])]

LEMMA MeasuredExists ==
    ASSUME NEW m, NEW fmt, NEW args, NEW n \in Nat
    PROVE  \E f : Measured(f, m, fmt, args, n)
<1> DEFINE first == [mem |-> load(m, 0, 0), len |-> 0]
           Step(v, k) == measured(v, fmt[k], args[ArgAt(fmt, k) - 1])
           Fn(f, l) == f = [k \in 0 .. l |-> IF k = 0 THEN first ELSE Step(f[k - 1], k)]
<1>1. SUFFICES \E f : Fn(f, n)
  BY DEF Measured
<1> HIDE DEF first, Step
<1> DEFINE T == {l \in Nat : ~\E f : Fn(f, l)}
<1>2. SUFFICES ASSUME T # {} PROVE FALSE
  OBVIOUS
<1>3. PICK l \in T : \A k \in T : l <= k
  BY <1>2, Least
<1>4. l # 0
  <2>1. Fn([k \in 0 .. 0 |-> first], 0)
    OBVIOUS
  <2>2. QED
    BY <2>1
<1>5. l - 1 \in Nat /\ l - 1 \notin T
  BY <1>3, <1>4
<1>6. PICK g : Fn(g, l - 1)
  BY <1>5
<1> DEFINE f == [k \in 0 .. l |-> IF k = l THEN Step(g[l - 1], l) ELSE g[k]]
<1>7. \A k \in 0 .. l : f[k] = IF k = 0 THEN first ELSE Step(f[k - 1], k)
  <2> TAKE k \in 0 .. l
  <2>1. CASE k = l
    BY <1>4, <1>5, <2>1
  <2>2. CASE k # l
    <3>1. k \in 0 .. l - 1 /\ k - 1 # l
      BY <2>2
    <3>2. f[k] = g[k] /\ (k # 0 => f[k - 1] = g[k - 1])
      BY <2>2, <3>1
    <3>3. QED
      BY <1>6, <3>1, <3>2
  <2>3. QED
    BY <2>1, <2>2
<1>8. f = [k \in 0 .. l |-> f[k]]
  OBVIOUS
<1> HIDE DEF f
<1>9. Fn(f, l)
  BY <1>7, <1>8
<1>10. QED
  BY <1>3, <1>9

LEMMA MeasuresDone ==
    ASSUME NEW m, NEW f, Formats[f] \in Seq(Int), NEW args, NEW g, g = Measures(m, f, args)
    PROVE  /\ g[0] = [mem |-> load(m, 0, 0), len |-> 0]
           /\ \A i \in 1 .. Len(Formats[f]) :
                g[i] = measured(g[i - 1], Formats[f][i], ArgsOf(Formats[f], args)[i])
<1> DEFINE fmt == Formats[f]
           n == Len(fmt)
<1>1. n \in Nat
  OBVIOUS
<1>2. Measured(g, m, fmt, args, n)
  <2>1. g = CHOOSE x : Measured(x, m, fmt, args, n)
    BY DEF Measured, Measures
  <2> HIDE DEF fmt, n
  <2>2. QED
    BY <1>1, <2>1, MeasuredExists
<1> HIDE DEF n, fmt
<1>3. /\ g[0] = [mem |-> load(m, 0, 0), len |-> 0]
      /\ \A i \in 1 .. n : g[i] = measured(g[i - 1], fmt[i], args[ArgAt(fmt, i) - 1])
  BY <1>1, <1>2 DEF Measured
<1>4. \A i \in 1 .. n : ArgsOf(fmt, args)[i] = args[ArgAt(fmt, i) - 1]
  BY DEF ArgsOf, n
<1>5. QED
  BY <1>3, <1>4 DEF n, fmt

(* What prepare() goes through the format with. *)
IsTally(e) == e = [mem |-> e.mem, len |-> e.len]
(* And the length of what a directive stands for is added. *)
Adds(e, r, p, arg) ==
    \A ch, stash :
        (p = H => arg = ch[1] /\ Saved(e.mem, ch, stash)) =>
        r.len = e.len + Len(Piece(p, arg, stash))
MayOpen(p, arg, R) == p = H => arg \in PageNo \cap R

LEMMA MeasuredStep ==
    ASSUME NEW e, IsTally(e), Shape(e.mem), NEW p, NEW arg,
           NEW R, MayOpen(p, arg, R), NEW r, r = measured(e, p, arg)
    PROVE  /\ IsTally(r)
           /\ Quiet(e.mem, r.mem, R)
           /\ Adds(e, r, p, arg)
<1> DEFINE s == open(e.mem, arg)
<1>1. \A stash : /\ p = D => Piece(p, arg, stash) = wtoa[arg]
                 /\ p = F => Piece(p, arg, stash) = Strings[arg]
                 /\ p = H => Piece(p, arg, stash) = stash
                 /\ p \notin Directives => Piece(p, arg, stash) = <<p>>
  BY PieceIs
<1>2. CASE p = D
  <2>1. r = [e EXCEPT !.len = @ + Len(wtoa[arg])]
    BY <1>2, Kinds DEF measured
  <2>2. r = [mem |-> e.mem, len |-> e.len + Len(wtoa[arg])]
    BY <2>1 DEF IsTally
  <2>3. Quiet(e.mem, r.mem, R)
    BY <2>2, QuietNot
  <2>4. p # H /\ \A stash : Len(Piece(p, arg, stash)) = Len(wtoa[arg])
    BY <1>1, <1>2, Kinds
  <2>5. QED
    BY <2>2, <2>3, <2>4 DEF IsTally, Adds
<1>3. CASE p = F
  <2>1. r = [e EXCEPT !.len = @ + Len(Strings[arg])]
    BY <1>3, Kinds DEF measured
  <2>2. r = [mem |-> e.mem, len |-> e.len + Len(Strings[arg])]
    BY <2>1 DEF IsTally
  <2>3. Quiet(e.mem, r.mem, R)
    BY <2>2, QuietNot
  <2>4. p # H /\ \A stash : Len(Piece(p, arg, stash)) = Len(Strings[arg])
    BY <1>1, <1>3, Kinds
  <2>5. QED
    BY <2>2, <2>3, <2>4 DEF IsTally, Adds
<1>4. CASE p \notin Directives
  <2>1. r = [e EXCEPT !.len = @ + 1]
    BY <1>4, Kinds DEF measured, Directives
  <2>2. r = [mem |-> e.mem, len |-> e.len + 1]
    BY <2>1 DEF IsTally
  <2>3. p # H /\ Len(<<p>>) = 1
    BY <1>4 DEF Directives
  <2>4. Quiet(e.mem, r.mem, R)
    BY <2>2, QuietNot
  <2>5. \A stash : Len(Piece(p, arg, stash)) = 1
    BY <1>1, <1>4, <2>3
  <2>6. r.len = e.len + 1 /\ IsTally(r)
    BY <2>2 DEF IsTally
  <2>7. Adds(e, r, p, arg)
    BY <2>5, <2>6 DEF Adds
  <2>8. QED
    BY <2>4, <2>6, <2>7
<1>5. CASE p = H
  <2>1. r = [mem |-> s.mem, len |-> e.len + size(s.mem, s.obj)]
    BY <1>5, Kinds DEF measured
  <2>2. Quiet(e.mem, s.mem, R)
    BY <1>5, QuietOpen DEF MayOpen
  <2>3. ASSUME NEW ch, NEW stash, arg = ch[1], Saved(e.mem, ch, stash)
        PROVE  size(s.mem, s.obj) = Len(stash)
    <3>1. s = open(e.mem, ch[1])
      BY <2>3
    <3> HIDE DEF s
    <3>2. Shape(s.mem) /\ Owns(s.obj, ch)
      <4>1. /\ Shape(s.mem) /\ SameMap(e.mem, s.mem) /\ SamePages(e.mem, s.mem)
            /\ s.mem.bufs[0] = e.mem.bufs[0] /\ s.mem.chip = e.mem.chip
            /\ s.mem.bufs[1].bnum = ch[1]
            /\ \A q \in PageNo : Fresh(s.mem, q)
            /\ Owns(s.obj, ch) /\ Reading(s.obj, ch, 0) /\ s.obj.curr = ch[1]
        BY <2>3, <3>1, OpenSaved
      <4>2. QED
        BY <4>1
    <3>3. Saved(s.mem, ch, stash)
      BY <2>2, <2>3, SavedQuiet
    <3>4. Written(s.mem, ch, stash) /\ Fresh(s.mem, s.obj.last)
      <4>1. Len(ch) \in DOMAIN ch
        BY <3>3, PagesOf DEF Saved
      <4>2. s.obj.last \in Range(ch)
        BY <3>2, <4>1 DEF Owns, Range
      <4>3. QED
        BY <3>3, <4>2 DEF Saved
    <3>5. QED
      BY <3>2, <3>4, SizeIs
  <2> HIDE DEF s
  <2>4. r.mem = s.mem /\ r.len = e.len + size(s.mem, s.obj) /\ IsTally(r)
    BY <2>1 DEF IsTally
  <2>5. \A stash : Piece(p, arg, stash) = stash
    BY <1>1, <1>5
  <2>6. QED
    BY <1>5, <2>2, <2>3, <2>4, <2>5 DEF Adds
<1>6. QED
  BY <1>2, <1>3, <1>4, <1>5 DEF Directives

(* prepare() reads the stashes only, and adds the pieces of the message up. *)
OpensIn(fmt, arg, R) == \A i \in 1 .. Len(fmt) : MayOpen(fmt[i], arg[i], R)
AddsUp(w, fmt, arg, len) ==
    \A ch, stash : Fits(w, fmt, arg, ch, stash) =>
        len = Len(FlattenSeq(Pieces(fmt, arg, stash)))

LEMMA MeasuresAre ==
    ASSUME NEW m, Shape(m), NEW f, Formats[f] \in Seq(Int), NEW args,
           NEW fmt, fmt = Formats[f], NEW arg, arg = ArgsOf(fmt, args), NEW R,
           OpensIn(fmt, arg, R),
           NEW w, w = load(m, 0, 0), NEW r, r = Measures(m, f, args)[Len(fmt)]
    PROVE  /\ Quiet(w, r.mem, R)
           /\ AddsUp(w, fmt, arg, r.len)
<1> DEFINE g == Measures(m, f, args)
           n == Len(fmt)
           Good(i) ==
               /\ IsTally(g[i])
               /\ Quiet(w, g[i].mem, R)
               /\ \A ch, stash, cut :
                    Fits(w, fmt, arg, ch, stash)
                    /\ Cuts(cut, Pieces(fmt, arg, stash), FlattenSeq(Pieces(fmt, arg, stash)))
                    => g[i].len = cut[i]
           T == {i \in 0 .. n : ~Good(i)}
<1>1. /\ g[0] = [mem |-> w, len |-> 0]
      /\ \A i \in 1 .. n : g[i] = measured(g[i - 1], fmt[i], arg[i])
  <2> HIDE DEF g
  <2>1. g = Measures(m, f, args)
    BY DEF g
  <2>2. /\ g[0] = [mem |-> load(m, 0, 0), len |-> 0]
        /\ \A i \in 1 .. Len(Formats[f]) :
             g[i] = measured(g[i - 1], Formats[f][i], ArgsOf(Formats[f], args)[i])
    BY <2>1, MeasuresDone
  <2>3. QED
    BY <2>2
<1>2. n \in Nat /\ r = g[n]
  OBVIOUS
<1>3. Shape(w)
  <2>1. 0 \in PageNo
    BY PagesNat DEF PageNo
  <2>2. QED
    BY <2>1, LoadWrite
<1> HIDE DEF g
<1>4. Good(0)
  <2>1. Quiet(w, w, R)
    BY <1>3, QuietNot
  <2>2. \A ch, stash, cut :
          Cuts(cut, Pieces(fmt, arg, stash), FlattenSeq(Pieces(fmt, arg, stash))) => cut[0] = 0
    BY DEF Cuts
  <2>3. g[0].mem = w /\ g[0].len = 0
    BY <1>1
  <2>4. QED
    BY <1>1, <2>1, <2>2, <2>3 DEF IsTally
<1>5. ASSUME NEW i \in 1 .. n, Good(i - 1)
      PROVE  Good(i)
  <2> DEFINE e == g[i - 1]
             y == g[i]
  <2>1. y = measured(e, fmt[i], arg[i])
    BY <1>1
  <2>2. IsTally(e) /\ Quiet(w, e.mem, R)
    BY <1>5
  <2>3. \A ch, stash, cut :
          Fits(w, fmt, arg, ch, stash)
          /\ Cuts(cut, Pieces(fmt, arg, stash), FlattenSeq(Pieces(fmt, arg, stash)))
          => e.len = cut[i - 1]
    BY <1>5
  <2> HIDE DEF e, y
  <2>4. /\ IsTally(y)
        /\ Quiet(e.mem, y.mem, R)
        /\ Adds(e, y, fmt[i], arg[i])
    <3> DEFINE p == fmt[i]
               a == arg[i]
    <3>1. MayOpen(p, a, R)
      BY DEF OpensIn
    <3>2. y = measured(e, p, a) /\ Shape(e.mem)
      BY <2>1, <2>2 DEF Quiet
    <3>5. IsTally(e)
      BY <2>2
    <3> HIDE DEF p, a, T, Good
    <3>3. /\ IsTally(y)
          /\ Quiet(e.mem, y.mem, R)
          /\ Adds(e, y, p, a)
      BY <3>1, <3>2, <3>5, MeasuredStep
    <3>4. QED
      BY <3>3 DEF p, a
  <2>5. Quiet(w, y.mem, R)
    BY <2>2, <2>4, QuietTwice
  <2>6. ASSUME NEW ch, NEW stash, NEW cut, Fits(w, fmt, arg, ch, stash),
               Cuts(cut, Pieces(fmt, arg, stash), FlattenSeq(Pieces(fmt, arg, stash)))
        PROVE  y.len = cut[i]
    <3>1. fmt[i] = H => arg[i] = ch[1] /\ Saved(w, ch, stash)
      BY <2>6 DEF Fits
    <3>2. fmt[i] = H => Saved(e.mem, ch, stash)
      BY <2>2, <3>1, SavedQuiet
    <3>3. y.len = e.len + Len(Piece(fmt[i], arg[i], stash)) /\ e.len = cut[i - 1]
      BY <2>3, <2>4, <2>6, <3>1, <3>2 DEF Adds
    <3> DEFINE seqs == Pieces(fmt, arg, stash)
               text == FlattenSeq(seqs)
    <3>4. Len(seqs) = n /\ seqs[i] = Piece(fmt[i], arg[i], stash)
      BY <2>6, PiecesType, PiecesCuts
    <3>5. Cuts(cut, seqs, text)
      BY <2>6
    <3> HIDE DEF seqs, text
    <3>6. cut[i] = cut[i - 1] + Len(seqs[i])
      BY <3>4, <3>5 DEF Cuts
    <3>7. QED
      BY <3>3, <3>4, <3>6
  <2>7. QED
    BY <2>4, <2>5, <2>6 DEF y
<1> HIDE DEF Good
<1>6. T = {}
  <2>1. SUFFICES ASSUME T # {} PROVE FALSE
    OBVIOUS
  <2>2. PICK i \in T : \A k \in T : i <= k
    <3>1. T \in SUBSET Nat
      OBVIOUS
    <3> HIDE DEF T
    <3>2. QED
      BY <2>1, <3>1, Least
  <2>3. i \in 0 .. n /\ ~Good(i)
    OBVIOUS
  <2>4. i # 0
    BY <1>4, <2>3
  <2>5. i - 1 \in 0 .. n /\ i \in 1 .. n
    BY <1>2, <2>3, <2>4
  <2>6. i - 1 \notin T
    <3> HIDE DEF T
    <3>1. QED
      BY <2>2, <2>5
  <2>7. Good(i - 1)
    BY <2>5, <2>6
  <2>8. QED
    BY <1>5, <2>3, <2>5, <2>7
<1>7. Good(n)
  <2>1. n \in 0 .. n
    BY <1>2
  <2>2. QED
    BY <1>6, <2>1
<1>8. ASSUME NEW ch, NEW stash, Fits(w, fmt, arg, ch, stash)
      PROVE  r.len = Len(FlattenSeq(Pieces(fmt, arg, stash)))
  <2> DEFINE seqs == Pieces(fmt, arg, stash)
             text == FlattenSeq(seqs)
  <2>1. Len(seqs) = n /\ \E cut : Cuts(cut, seqs, text)
    BY <1>8, PiecesCuts
  <2>2. PICK cut : Cuts(cut, seqs, text)
    BY <2>1
  <2>3. g[n].len = cut[n]
    BY <1>7, <1>8, <2>2 DEF Good
  <2> HIDE DEF seqs
  <2>4. cut[n] = Len(text)
    BY <2>1, <2>2 DEF Cuts
  <2>5. QED
    BY <1>2, <2>3, <2>4 DEF seqs
<1>9. QED
  BY <1>2, <1>7, <1>8 DEF Good, AddsUp
-----------------------------------------------------------------------------
(* Only page 0 is changed, and what is read. *)
Kept(m, w) ==
    /\ Shape(w) /\ SameMap(m, w)
    /\ \A p \in PageNo \ {0} : Page(w, p) = Page(m, p) /\ (Fresh(m, p) => Fresh(w, p))

LEMMA KeptTwice ==
    ASSUME NEW m, NEW w, NEW x, Kept(m, w), Kept(w, x)
    PROVE  Kept(m, x)
BY DEF Kept, SameMap

LEMMA KeptQuiet ==
    ASSUME NEW m, NEW w, NEW R, Quiet(m, w, R)
    PROVE  Kept(m, w)
BY DEF Kept, Quiet, SamePages

LEMMA SavedKept ==
    ASSUME NEW m, NEW ch, NEW text, Saved(m, ch, text), NEW w, Kept(m, w)
    PROVE  Saved(w, ch, text)
<1>1. \A p \in Range(ch) : p \in PageNo \ {0}
  BY PagesOf DEF Saved
<1>2. ch[1] \in Range(ch)
  BY PagesOf DEF Saved
<1>3. \A p \in Range(ch) : Page(w, p) = Page(m, p) /\ (Fresh(m, p) => Fresh(w, p))
  BY <1>1 DEF Kept
<1>4. Written(w, ch, text)
  BY <1>3, WrittenFrame DEF Saved
<1>5. Page(w, ch[1]) = Page(m, ch[1])
  BY <1>2, <1>3
<1>6. QED
  BY <1>3, <1>4, <1>5 DEF Saved

LEMMA LoadKept ==
    ASSUME NEW m, Shape(m), NEW w, w = load(m, 0, 0)
    PROVE  /\ Kept(m, w) /\ w.bufs[0].bnum = 0
           /\ w.bufs[1].bnum \in {m.bufs[1].bnum, NoPage}
           /\ w.bufs[1].bnum = 0 => m.bufs[0].bnum = 0 /\ m.bufs[1].bnum = 0
           /\ Page(w, 0) = Page(m, 0) /\ w.bufs[0].bytes = Page(m, 0)
           /\ m.bufs[0].bnum = 0 => w = m
<1>1. 0 \in PageNo
  BY PagesNat DEF PageNo
<1>2. /\ Shape(w) /\ SameMap(m, w) /\ SamePages(m, w)
      /\ w.bufs[0].bnum = 0 /\ w.bufs[0].bytes = Page(m, 0)
      /\ w.bufs[1].bytes = m.bufs[1].bytes
      /\ 0 = m.bufs[0].bnum => w.bufs[1].bnum = m.bufs[1].bnum
      /\ 0 # m.bufs[0].bnum => w.bufs[1].bnum = IF m.bufs[1].bnum = 0 THEN NoPage ELSE m.bufs[1].bnum
  BY <1>1, LoadWrite
<1>3. \A p \in PageNo : p # NoPage
  BY PagesNat DEF PageNo, NoPage
<1>4. \A p \in PageNo \ {0} : Page(w, p) = Page(m, p) /\ (Fresh(m, p) => Fresh(w, p))
  BY <1>2, <1>3 DEF SamePages, Fresh
<1>5. NoPage # 0
  BY DEF NoPage
<1>6. m.bufs[0].bnum = 0 => w = m
  BY DEF load
<1>7. QED
  BY <1>1, <1>2, <1>4, <1>5, <1>6 DEF Kept, SamePages

LEMMA FitsKept ==
    ASSUME NEW m, NEW w, Kept(m, w), NEW fmt, NEW arg, NEW ch, NEW stash,
           Fits(m, fmt, arg, ch, stash)
    PROVE  Fits(w, fmt, arg, ch, stash)
BY SavedKept DEF Fits

(* What is rendered is made of the pieces, and needs the stash for $H only.*)
LEMMA RenderedIs ==
    ASSUME NEW f, Formats[f] \in Seq(Int), NEW args, NEW stash
    PROVE  Rendered(f, args, stash)
             = FlattenSeq(Pieces(Formats[f], ArgsOf(Formats[f], args), stash))
<1> DEFINE fmt == Formats[f]
<1>1. DOMAIN fmt = 1 .. Len(fmt)
  OBVIOUS
<1> HIDE DEF fmt
<1>2. [i \in DOMAIN fmt |-> Piece(fmt[i], args[ArgAt(fmt, i) - 1], stash)]
        = Pieces(fmt, ArgsOf(fmt, args), stash)
  BY <1>1 DEF Pieces, ArgsOf
<1>3. QED
  BY <1>2 DEF Rendered, fmt

LEMMA RenderedSame ==
    ASSUME NEW f, Formats[f] \in Seq(Int), NEW args, NEW more, NEW stash,
           \A i \in 1 .. Len(Formats[f]) :
               Formats[f][i] \in {D, F} =>
                 ArgsOf(Formats[f], args)[i] = ArgsOf(Formats[f], more)[i]
    PROVE  Rendered(f, args, stash) = Rendered(f, more, stash)
<1> DEFINE fmt == Formats[f]
           a == ArgsOf(fmt, args)
           b == ArgsOf(fmt, more)
<1>1. \A i \in 1 .. Len(fmt) : fmt[i] \in {D, F} => a[i] = b[i]
  OBVIOUS
<1>2. /\ Rendered(f, args, stash) = FlattenSeq(Pieces(fmt, a, stash))
      /\ Rendered(f, more, stash) = FlattenSeq(Pieces(fmt, b, stash))
  BY RenderedIs
<1> HIDE DEF fmt, a, b
<1>3. \A i \in 1 .. Len(fmt) : Piece(fmt[i], a[i], stash) = Piece(fmt[i], b[i], stash)
  <2> TAKE i \in 1 .. Len(fmt)
  <2> DEFINE p == fmt[i]
             x == a[i]
             y == b[i]
  <2>1. p \in {D, F} => x = y
    BY <1>1
  <2>2. p \notin {D, F} => Piece(p, x, stash) = Piece(p, y, stash)
    <3> HIDE DEF p, x, y
    <3>1. p = H \/ p \notin Directives \/ p \in {D, F}
      BY DEF Directives
    <3>2. QED
      BY <3>1, PieceIs
  <2>3. QED
    BY <2>1, <2>2
<1>4. Pieces(fmt, a, stash) = Pieces(fmt, b, stash)
  BY <1>3 DEF Pieces
<1>5. QED
  BY <1>2, <1>4

(* prepare() writes page 0, and reads stashes. *)
Words(page, f, args) == page[1] = f /\ \A k \in 1 .. Len(args) : page[1 + k] = args[k]
Rewritten(m, r, R) ==
    /\ Kept(m, r) /\ r.bufs[0].bnum = 0
    /\ r.bufs[1].bnum \in {m.bufs[1].bnum, NoPage} \cup R
    /\ m.bufs[0].bnum # 0 /\ 0 \notin R => r.bufs[1].bnum # 0

LEMMA PrepareIs ==
    ASSUME NEW m, Shape(m), NEW f, Formats[f] \in Seq(Int),
           NEW args, Len(args) \in Nat, Len(args) <= 2,
           NEW fmt, fmt = Formats[f], NEW arg, arg = ArgsOf(fmt, args), NEW R,
           OpensIn(fmt, arg, R),
           NEW r, r = prepare(m, f, args)
    PROVE  /\ Rewritten(m, r, R)
           /\ Words(Page(r, 0), f, args)
           /\ AddsUp(m, fmt, arg, Page(r, 0)[0])
<1> DEFINE w == load(m, 0, 0)
           e == Measures(m, f, args)[Len(Formats[f])]
           b == e.mem.bufs[0].bytes
           Cell(i) == CASE i = 0 -> e.len [] i = 1 -> f [] OTHER -> args[i - 1]
           d == [i \in DOMAIN b |-> IF i <= 1 + Len(args) THEN Cell(i) ELSE b[i]]
<1>1. /\ Kept(m, w) /\ w.bufs[0].bnum = 0
      /\ w.bufs[1].bnum \in {m.bufs[1].bnum, NoPage}
      /\ w.bufs[1].bnum = 0 => m.bufs[0].bnum = 0 /\ m.bufs[1].bnum = 0
  BY LoadKept
<1>2. r = Stored(e.mem, d)
  BY DEF prepare, Stored
<1>3. /\ Quiet(w, e.mem, R)
      /\ AddsUp(w, fmt, arg, e.len)
  <2>1. e = Measures(m, f, args)[Len(fmt)] /\ w = load(m, 0, 0)
    OBVIOUS
  <2> HIDE DEF e, w
  <2>2. QED
    BY <2>1, MeasuresAre
<1> HIDE DEF w
<1>4. /\ Shape(e.mem) /\ Kept(w, e.mem) /\ e.mem.bufs[0] = w.bufs[0]
      /\ e.mem.bufs[1].bnum \in {w.bufs[1].bnum} \cup R
  BY <1>3, KeptQuiet DEF Quiet
<1>5. IsPage(b)
  <2>1. e.mem.bufs[0].bnum = 0 /\ 0 \in PageNo
    BY <1>1, <1>4, PagesNat DEF PageNo
  <2>2. b = Page(e.mem, 0)
    BY <2>1 DEF Page
  <2> HIDE DEF b
  <2>3. QED
    BY <1>4, <2>1, <2>2, PageIsPage
<1> HIDE DEF e
<1>6. IsPage(d) /\ d[0] = e.len /\ d[1] = f /\ \A k \in 1 .. Len(args) : d[1 + k] = args[k]
  <2>1. DOMAIN b = 0 .. PageSize - 1
    BY <1>5 DEF IsPage
  <2> HIDE DEF b
  <2>2. /\ 0 \in DOMAIN b /\ 1 \in DOMAIN b /\ \A k \in 1 .. Len(args) : 1 + k \in DOMAIN b
        /\ 0 <= 1 + Len(args) /\ 1 <= 1 + Len(args)
        /\ \A k \in 1 .. Len(args) : 1 + k <= 1 + Len(args) /\ k \in Nat /\ k >= 1
    BY <2>1, PagesNat
  <2>3. \A i \in DOMAIN b : d[i] = IF i <= 1 + Len(args) THEN Cell(i) ELSE b[i]
    OBVIOUS
  <2>4. d[0] = Cell(0) /\ d[1] = Cell(1) /\ \A k \in 1 .. Len(args) : d[1 + k] = Cell(1 + k)
    BY <2>2, <2>3
  <2>5. \A k \in 1 .. Len(args) : Cell(1 + k) = args[k]
    <3> TAKE k \in 1 .. Len(args)
    <3>1. k \in Nat /\ k >= 1 /\ 1 + k # 0 /\ 1 + k # 1 /\ (1 + k) - 1 = k
      BY <2>2
    <3>2. QED
      BY <3>1
  <2>6. IsPage(d)
    BY <2>1 DEF IsPage
  <2>7. Cell(0) = e.len /\ Cell(1) = f
    OBVIOUS
  <2>8. QED
    BY <2>4, <2>5, <2>6, <2>7
<1> HIDE DEF d
<1>7. /\ Shape(r) /\ SameMap(e.mem, r)
      /\ r.bufs[0].bnum = e.mem.bufs[0].bnum /\ r.bufs[0].bytes = d
      /\ r.bufs[1] = e.mem.bufs[1] /\ r.chip = e.mem.chip
      /\ \A p : Page(r, p) = IF p = e.mem.bufs[0].bnum THEN d ELSE Page(e.mem, p)
  BY <1>2, <1>4, <1>6, WriteBuffer
<1>8. e.mem.bufs[0].bnum = 0
  BY <1>1, <1>4
<1>9. Kept(e.mem, r)
  BY <1>7, <1>8 DEF Kept, Fresh
<1>10. Kept(m, r)
  BY <1>1, <1>4, <1>9, KeptTwice
<1>11. AddsUp(m, fmt, arg, Page(r, 0)[0])
  BY <1>1, <1>3, <1>6, <1>7, <1>8, FitsKept DEF AddsUp
<1>12. Words(Page(r, 0), f, args)
  BY <1>6, <1>7, <1>8 DEF Words
<1>13. Rewritten(m, r, R)
  BY <1>1, <1>4, <1>7, <1>8, <1>10 DEF Rewritten
<1>14. QED
  BY <1>11, <1>12, <1>13
-----------------------------------------------------------------------------
(* What extract() goes through the format with, and the steps it takes. *)
IsRun(e) ==
    e = [mem |-> e.mem, pos |-> e.pos, mode |-> e.mode, text |-> e.text, obj |-> e.obj,
         n |-> e.n, out |-> e.out]
Longer(out, n, offset, c) == IF n >= offset THEN Append(out, c) ELSE out

LEMMA EmitIs ==
    ASSUME NEW e, IsRun(e), NEW offset, NEW c, NEW r, r = emit(e, offset, c)
    PROVE  /\ IsRun(r) /\ r.mem = e.mem /\ r.pos = e.pos /\ r.mode = e.mode
           /\ r.text = e.text /\ r.obj = e.obj
           /\ r.n = e.n + 1 /\ r.out = Longer(e.out, e.n, offset, c)
<1>1. r = [mem |-> e.mem, pos |-> e.pos, mode |-> e.mode, text |-> e.text, obj |-> e.obj,
           n |-> e.n + 1, out |-> Longer(e.out, e.n, offset, c)]
  BY DEF IsRun, emit, Longer
<1>2. QED
  BY <1>1 DEF IsRun

LEMMA LiteralIs ==
    ASSUME NEW e, IsRun(e), NEW words, NEW offset, NEW fmt, fmt = Formats[words[1]],
           NEW p, p = fmt[e.pos], NEW a, a = words[ArgAt(fmt, e.pos)],
           NEW s, s = open(e.mem, a), NEW r, r = literal(e, words, offset)
    PROVE  /\ IsRun(r) /\ r.pos = e.pos + 1
           /\ p = D => /\ r.mem = e.mem /\ r.mode = D /\ r.text = wtoa[a]
                       /\ r.n = e.n /\ r.out = e.out
           /\ p = F => /\ r.mem = e.mem /\ r.mode = F /\ r.text = Strings[a]
                       /\ r.n = e.n /\ r.out = e.out
           /\ p = H => /\ r.mem = s.mem /\ r.mode = H /\ r.obj = s.obj
                       /\ r.n = e.n /\ r.out = e.out
           /\ p \notin Directives =>
                /\ r.mem = e.mem /\ r.mode = e.mode
                /\ r.n = e.n + 1 /\ r.out = Longer(e.out, e.n, offset, p)
<1> DEFINE n == [e EXCEPT !.pos = @ + 1]
<1>1. n = [mem |-> e.mem, pos |-> e.pos + 1, mode |-> e.mode, text |-> e.text, obj |-> e.obj,
           n |-> e.n, out |-> e.out]
  BY DEF IsRun
<1>2. r = CASE p = D -> [n EXCEPT !.mode = p, !.text = wtoa[a]]
            [] p = F -> [n EXCEPT !.mode = p, !.text = Strings[a]]
            [] p = H -> [n EXCEPT !.mode = p, !.mem = s.mem, !.obj = s.obj]
            [] OTHER -> emit(n, offset, p)
  BY DEF literal
<1> HIDE DEF n
<1>3. CASE p = D
  <2>1. r = [n EXCEPT !.mode = p, !.text = wtoa[a]]
    BY <1>2, <1>3, Kinds
  <2>2. r = [mem |-> e.mem, pos |-> e.pos + 1, mode |-> p, text |-> wtoa[a], obj |-> e.obj,
             n |-> e.n, out |-> e.out]
    BY <1>1, <2>1
  <2>3. p # F /\ p # H /\ p \in Directives
    BY <1>3, Kinds DEF Directives
  <2>4. QED
    BY <1>3, <2>2, <2>3 DEF IsRun
<1>4. CASE p = F
  <2>1. r = [n EXCEPT !.mode = p, !.text = Strings[a]]
    BY <1>2, <1>4, Kinds
  <2>2. r = [mem |-> e.mem, pos |-> e.pos + 1, mode |-> p, text |-> Strings[a], obj |-> e.obj,
             n |-> e.n, out |-> e.out]
    BY <1>1, <2>1
  <2>3. p # D /\ p # H /\ p \in Directives
    BY <1>4, Kinds DEF Directives
  <2>4. QED
    BY <1>4, <2>2, <2>3 DEF IsRun
<1>5. CASE p = H
  <2>1. r = [n EXCEPT !.mode = p, !.mem = s.mem, !.obj = s.obj]
    BY <1>2, <1>5, Kinds
  <2>2. r = [mem |-> s.mem, pos |-> e.pos + 1, mode |-> p, text |-> e.text, obj |-> s.obj,
             n |-> e.n, out |-> e.out]
    BY <1>1, <2>1
  <2>3. p # D /\ p # F /\ p \in Directives
    BY <1>5, Kinds DEF Directives
  <2>4. QED
    BY <1>5, <2>2, <2>3 DEF IsRun
<1>6. CASE p \notin Directives
  <2>1. p # D /\ p # F /\ p # H
    BY <1>6 DEF Directives
  <2>2. r = emit(n, offset, p)
    BY <1>2, <2>1
  <2>3. /\ IsRun(n) /\ n.mem = e.mem /\ n.pos = e.pos + 1 /\ n.mode = e.mode
        /\ n.n = e.n /\ n.out = e.out
    BY <1>1 DEF IsRun
  <2>4. /\ IsRun(r) /\ r.mem = n.mem /\ r.pos = n.pos /\ r.mode = n.mode
        /\ r.text = n.text /\ r.obj = n.obj
        /\ r.n = n.n + 1 /\ r.out = Longer(n.out, n.n, offset, p)
    BY <2>2, <2>3, EmitIs
  <2>5. QED
    BY <1>6, <2>1, <2>3, <2>4
<1>7. QED
  BY <1>3, <1>4, <1>5, <1>6 DEF Directives

LEMMA PendingIs ==
    ASSUME NEW e, IsRun(e), NEW offset, NEW r, r = pending(e, offset)
    PROVE  /\ IsRun(r) /\ r.mem = e.mem /\ r.pos = e.pos
           /\ e.text = <<>> => r.mode = 0 /\ r.n = e.n /\ r.out = e.out
           /\ e.text # <<>> =>
                /\ r.mode = e.mode /\ r.text = Tail(e.text)
                /\ r.n = e.n + 1 /\ r.out = Longer(e.out, e.n, offset, Head(e.text))
<1>1. CASE e.text = <<>>
  <2>1. r = [e EXCEPT !.mode = 0]
    BY <1>1 DEF pending
  <2>2. r = [mem |-> e.mem, pos |-> e.pos, mode |-> 0, text |-> e.text, obj |-> e.obj,
             n |-> e.n, out |-> e.out]
    BY <2>1 DEF IsRun
  <2>3. QED
    BY <1>1, <2>2 DEF IsRun
<1>2. CASE e.text # <<>>
  <2> DEFINE t == Tail(e.text)
             v == [e EXCEPT !.text = Tail(@)]
  <2>1. r = emit(v, offset, Head(e.text))
    BY <1>2 DEF pending
  <2>2. v = [e EXCEPT !.text = t]
    OBVIOUS
  <2> HIDE DEF v, t
  <2>3. v = [mem |-> e.mem, pos |-> e.pos, mode |-> e.mode, text |-> t, obj |-> e.obj,
             n |-> e.n, out |-> e.out]
    BY <2>2 DEF IsRun
  <2>4. /\ IsRun(v) /\ v.mem = e.mem /\ v.pos = e.pos /\ v.mode = e.mode /\ v.text = t
        /\ v.n = e.n /\ v.out = e.out
    BY <2>3 DEF IsRun
  <2>5. /\ IsRun(r) /\ r.mem = v.mem /\ r.pos = v.pos /\ r.mode = v.mode
        /\ r.text = v.text /\ r.obj = v.obj
        /\ r.n = v.n + 1 /\ r.out = Longer(v.out, v.n, offset, Head(e.text))
    BY <2>1, <2>4, EmitIs
  <2>6. QED
    BY <1>2, <2>4, <2>5 DEF t
<1>3. QED
  BY <1>1, <1>2

LEMMA StashedIs ==
    ASSUME NEW e, IsRun(e), NEW offset, NEW g, g = get(e.mem, e.obj), NEW r, r = stashed(e, offset)
    PROVE  /\ IsRun(r) /\ r.mem = g.mem /\ r.pos = e.pos /\ r.obj = g.obj
           /\ g.c = 0 => r.mode = 0 /\ r.n = e.n /\ r.out = e.out
           /\ g.c # 0 =>
                r.mode = e.mode /\ r.n = e.n + 1 /\ r.out = Longer(e.out, e.n, offset, g.c)
<1> DEFINE x == g.mem
           y == g.obj
           v == [e EXCEPT !.mem = x, !.obj = y]
<1>1. v = [mem |-> g.mem, pos |-> e.pos, mode |-> e.mode, text |-> e.text, obj |-> g.obj,
           n |-> e.n, out |-> e.out]
  <2>1. v = [e EXCEPT !.mem = x, !.obj = y]
    OBVIOUS
  <2> HIDE DEF v, x, y
  <2>2. v = [mem |-> x, pos |-> e.pos, mode |-> e.mode, text |-> e.text, obj |-> y,
             n |-> e.n, out |-> e.out]
    BY <2>1 DEF IsRun
  <2>3. QED
    BY <2>2 DEF x, y
<1>2. r = IF g.c = 0 THEN [v EXCEPT !.mode = 0] ELSE emit(v, offset, g.c)
  BY DEF stashed
<1> HIDE DEF v
<1>3. /\ IsRun(v) /\ v.mem = g.mem /\ v.pos = e.pos /\ v.mode = e.mode /\ v.obj = g.obj
      /\ v.n = e.n /\ v.out = e.out
  BY <1>1 DEF IsRun
<1>4. CASE g.c = 0
  <2>1. r = [mem |-> g.mem, pos |-> e.pos, mode |-> 0, text |-> e.text, obj |-> g.obj,
             n |-> e.n, out |-> e.out]
    BY <1>1, <1>2, <1>4
  <2>2. QED
    BY <1>4, <2>1 DEF IsRun
<1>5. CASE g.c # 0
  <2>1. r = emit(v, offset, g.c)
    BY <1>2, <1>5
  <2>2. /\ IsRun(r) /\ r.mem = v.mem /\ r.pos = v.pos /\ r.mode = v.mode
        /\ r.text = v.text /\ r.obj = v.obj
        /\ r.n = v.n + 1 /\ r.out = Longer(v.out, v.n, offset, g.c)
    BY <1>3, <2>1, EmitIs
  <2>3. QED
    BY <1>3, <1>5, <2>2
<1>6. QED
  BY <1>4, <1>5

(* The first n bytes of the text have been seen; out is those from offset. *)
Out(out, n, text, offset) ==
    /\ n \in 0 .. Len(text) /\ out \in Seq(Int)
    /\ Len(out) = IF n > offset THEN n - offset ELSE 0
    /\ \A j \in 1 .. Len(out) : out[j] = text[offset + j]

LEMMA OutMore ==
    ASSUME NEW text \in Seq(Int), NEW offset \in Nat, NEW out, NEW n, Out(out, n, text, offset),
           n < Len(text), NEW c, c = text[n + 1]
    PROVE  Out(Longer(out, n, offset, c), n + 1, text, offset)
<1>1. n \in Nat /\ n + 1 \in 0 .. Len(text) /\ c \in Int /\ out \in Seq(Int)
  BY DEF Out
<1>2. CASE n >= offset
  <2> DEFINE o == Append(out, c)
  <2>1. Len(out) = n - offset
    BY <1>1, <1>2 DEF Out
  <2>2. o \in Seq(Int) /\ Len(o) = n + 1 - offset
    BY <1>1, <2>1
  <2>3. \A j \in 1 .. Len(o) : o[j] = text[offset + j]
    <3> TAKE j \in 1 .. Len(o)
    <3>1. j \in 1 .. Len(out) => o[j] = out[j] /\ out[j] = text[offset + j]
      BY <1>1 DEF Out
    <3>2. j \notin 1 .. Len(out) => j = Len(out) + 1 /\ offset + j = n + 1
      BY <1>1, <2>1, <2>2
    <3>3. o[Len(out) + 1] = c
      BY <1>1
    <3>4. QED
      BY <3>1, <3>2, <3>3
  <2> HIDE DEF o
  <2>4. Longer(out, n, offset, c) = o
    BY <1>2 DEF Longer, o
  <2>5. QED
    BY <1>1, <1>2, <2>2, <2>3, <2>4 DEF Out
<1>3. CASE ~(n >= offset)
  <2>1. Longer(out, n, offset, c) = out /\ Len(out) = 0 /\ ~(n + 1 > offset)
    BY <1>1, <1>3 DEF Longer, Out
  <2>2. QED
    BY <1>1, <2>1 DEF Out
<1>4. QED
  BY <1>2, <1>3

(* t is what remains of s behind its first q bytes. *)
Rest(t, s, q) ==
    /\ t \in Seq(Int) /\ q \in 0 .. Len(s) /\ Len(t) = Len(s) - q
    /\ \A k \in 1 .. Len(t) : t[k] = s[q + k]

LEMMA RestAll ==
    ASSUME NEW s \in Seq(Int)
    PROVE  Rest(s, s, 0)
BY DEF Rest

LEMMA RestNone ==
    ASSUME NEW s \in Seq(Int), NEW t, NEW q, Rest(t, s, q), t = <<>>
    PROVE  q = Len(s)
BY DEF Rest

LEMMA RestTail ==
    ASSUME NEW s \in Seq(Int), NEW t, NEW q, Rest(t, s, q), t # <<>>
    PROVE  Head(t) = s[q + 1] /\ q \in Nat /\ q < Len(s) /\ Rest(Tail(t), s, q + 1)
<1>1. t \in Seq(Int) /\ q \in 0 .. Len(s) /\ Len(t) = Len(s) - q /\ Len(t) >= 1
  BY DEF Rest
<1>2. Head(t) = t[1] /\ t[1] = s[q + 1]
  BY <1>1 DEF Rest
<1>3. /\ Tail(t) \in Seq(Int) /\ Len(Tail(t)) = Len(t) - 1
      /\ \A k \in 1 .. Len(Tail(t)) : Tail(t)[k] = t[k + 1]
  BY <1>1
<1>4. \A k \in 1 .. Len(Tail(t)) : Tail(t)[k] = s[(q + 1) + k]
  <2> TAKE k \in 1 .. Len(Tail(t))
  <2>1. k + 1 \in 1 .. Len(t) /\ q + (k + 1) = (q + 1) + k
    BY <1>1, <1>3
  <2>2. t[k + 1] = s[q + (k + 1)]
    BY <2>1 DEF Rest
  <2>3. QED
    BY <1>3, <2>1, <2>2
<1>5. q + 1 \in 0 .. Len(s) /\ Len(Tail(t)) = Len(s) - (q + 1) /\ q < Len(s)
  BY <1>1, <1>3
<1>6. QED
  BY <1>1, <1>2, <1>3, <1>4, <1>5 DEF Rest

(* The next byte of piece i. *)
LEMMA OutPiece ==
    ASSUME NEW seqs, NEW text \in Seq(Int), NEW cut, Cuts(cut, seqs, text), Len(seqs) \in Nat,
           NEW i \in 1 .. Len(seqs), seqs[i] \in Seq(Int), NEW q \in Nat, q < Len(seqs[i]),
           NEW offset \in Nat, NEW out, NEW n, Out(out, n, text, offset),
           n = cut[i - 1] + q, NEW c, c = seqs[i][q + 1]
    PROVE  Out(Longer(out, n, offset, c), n + 1, text, offset)
<1>1. i - 1 \in 0 .. Len(seqs) /\ q + 1 \in 1 .. Len(seqs[i])
  OBVIOUS
<1>2. cut[i - 1] \in Nat
  BY <1>1 DEF Cuts
<1>3. /\ cut[i] = cut[i - 1] + Len(seqs[i]) /\ cut[i] <= Len(text)
      /\ text[cut[i - 1] + (q + 1)] = seqs[i][q + 1]
  BY <1>1 DEF Cuts
<1>4. cut[i - 1] + (q + 1) = n + 1 /\ n < Len(text)
  <2> DEFINE c0 == cut[i - 1]
             l == Len(seqs[i])
             t == Len(text)
  <2>3. l \in Nat /\ t \in Nat
    OBVIOUS
  <2>4. c0 + l <= t
    BY <1>3
  <2>1. c0 \in Nat /\ l \in Nat /\ t \in Nat /\ c0 + l <= t /\ q < l /\ n = c0 + q
    BY <1>2, <2>3, <2>4
  <2> HIDE DEF c0, l, t
  <2>2. c0 + (q + 1) = n + 1 /\ n < t
    BY <2>1
  <2>5. QED
    BY <2>2 DEF c0, t
<1>5. c = text[n + 1]
  BY <1>3, <1>4
<1>6. QED
  BY <1>4, <1>5, OutMore

(* Where extract() is: between two pieces, or in one that is not at an end.*)
Inside(e, fmt, seqs, cut, ch, i, q) ==
    /\ i \in 1 .. Len(fmt) /\ e.pos = i + 1
    /\ q \in 0 .. Len(seqs[i]) /\ e.n = cut[i - 1] + q
    /\ e.mode = fmt[i]
    /\ \/ e.mode \in {D, F} /\ Rest(e.text, seqs[i], q)
       \/ e.mode = H /\ Owns(e.obj, ch) /\ Reading(e.obj, ch, q)
Place(e, fmt, seqs, cut, ch) ==
    \/ e.mode = 0 /\ e.pos \in 1 .. Len(fmt) + 1 /\ e.n = cut[e.pos - 1]
    \/ \E i, q : Inside(e, fmt, seqs, cut, ch, i, q)
Running(e, w, fmt, seqs, cut, ch, text, offset) ==
    /\ IsRun(e) /\ Quiet(w, e.mem, Range(ch))
    /\ Out(e.out, e.n, text, offset)
    /\ Place(e, fmt, seqs, cut, ch)

(* It has finished, or each step is one of this many. *)
Done(e, fmt, limit) == e.n >= limit \/ (e.mode = 0 /\ e.pos > Len(fmt))
Work(e) == e.n + 2 * (e.pos - 1) - (IF e.mode = 0 THEN 0 ELSE 1)
Moves(e, r) == r.n \in {e.n, e.n + 1} /\ Work(r) >= Work(e) + 1

WordArgs(fmt, words) == [i \in 1 .. Len(fmt) |-> words[ArgAt(fmt, i)]]

LEMMA QuietGet ==
    ASSUME NEW m, Shape(m), NEW s, IsStash(s), NEW R, s.curr \in PageNo \cap R, Fresh(m, s.curr),
           NEW r, r = get(m, s)
    PROVE  Quiet(m, r.mem, R)
<1> DEFINE b == Page(m, s.curr)
<1>1. b = Page(m, s.curr)
  OBVIOUS
<1> HIDE DEF b
<1>2. /\ Shape(r.mem) /\ SameMap(m, r.mem) /\ SamePages(m, r.mem)
      /\ r.mem.bufs[0] = m.bufs[0] /\ r.mem.chip = m.chip
      /\ r.mem.bufs[1].bnum = s.curr
      /\ \A p \in PageNo : Fresh(r.mem, p)
  BY <1>1, GetIs
<1>3. QED
  BY <1>2 DEF Quiet

(* A message that prepare() has described: the words of page 0, the format *)
(* with its arguments, the stash, and the text with where its pieces begin.*)
Message(w, words, fmt, arg, ch, stash, seqs, text, cut) ==
    /\ Shape(w) /\ fmt = Formats[words[1]] /\ fmt \in Seq(Int)
    /\ arg = WordArgs(fmt, words) /\ Fits(w, fmt, arg, ch, stash)
    /\ seqs = Pieces(fmt, arg, stash) /\ Len(seqs) = Len(fmt)
    /\ text \in Seq(Int) /\ Cuts(cut, seqs, text)

LEMMA MessagePieces ==
    ASSUME NEW w, NEW words, NEW fmt, NEW arg, NEW ch, NEW stash, NEW seqs, NEW text, NEW cut,
           Message(w, words, fmt, arg, ch, stash, seqs, text, cut)
    PROVE  /\ \A i \in 1 .. Len(fmt) : seqs[i] \in Seq(Int)
           /\ \A i \in 1 .. Len(fmt) : fmt[i] = H => seqs[i] = stash /\ Saved(w, ch, stash)
<1>1. fmt \in Seq(Int) /\ Fits(w, fmt, arg, ch, stash) /\ seqs = Pieces(fmt, arg, stash)
  BY DEF Message
<1>2. \A i \in 1 .. Len(fmt) : seqs[i] = Piece(fmt[i], arg[i], stash) /\ seqs[i] \in Seq(Int)
  <2> TAKE i \in 1 .. Len(fmt)
  <2>1. /\ Pieces(fmt, arg, stash)[i] = Piece(fmt[i], arg[i], stash)
        /\ Pieces(fmt, arg, stash)[i] \in Seq(Int)
    BY <1>1, PiecesType
  <2>2. QED
    BY <1>1, <2>1
<1>3. ASSUME NEW i \in 1 .. Len(fmt), fmt[i] = H
      PROVE  seqs[i] = stash /\ Saved(w, ch, stash)
  <2>1. Piece(fmt[i], arg[i], stash) = stash
    BY <1>3, PieceIs
  <2>2. QED
    BY <1>1, <1>2, <1>3, <2>1 DEF Fits
<1>4. QED
  BY <1>2, <1>3

(* A character of the format that stands for itself, or a directive. *)
LEMMA LiteralStep ==
    ASSUME NEW w, NEW words, NEW fmt, NEW arg, NEW ch, NEW stash, NEW seqs, NEW text, NEW cut,
           Message(w, words, fmt, arg, ch, stash, seqs, text, cut), NEW offset \in Nat,
           NEW e, Running(e, w, fmt, seqs, cut, ch, text, offset), e.mode = 0, e.pos <= Len(fmt),
           NEW r, r = literal(e, words, offset)
    PROVE  Running(r, w, fmt, seqs, cut, ch, text, offset) /\ Moves(e, r)
<1>13. /\ fmt \in Seq(Int) /\ fmt = Formats[words[1]]
       /\ arg = WordArgs(fmt, words) /\ Fits(w, fmt, arg, ch, stash)
       /\ seqs = Pieces(fmt, arg, stash) /\ Len(seqs) = Len(fmt)
       /\ text \in Seq(Int) /\ Cuts(cut, seqs, text)
  BY DEF Message
<1> USE <1>13
<1> DEFINE i == e.pos
           p == fmt[i]
           a == arg[i]
           s == open(e.mem, a)
<1>1. IsRun(e) /\ Quiet(w, e.mem, Range(ch)) /\ Out(e.out, e.n, text, offset)
  BY DEF Running
<1>2. i \in 1 .. Len(fmt) /\ i \in Nat /\ e.n = cut[i - 1] /\ cut[i - 1] \in Nat
  <2>1. i \in 1 .. Len(fmt) + 1 /\ e.n = cut[i - 1]
    <3>1. \A j, q : ~Inside(e, fmt, seqs, cut, ch, j, q)
      BY Kinds DEF Inside
    <3>2. QED
      BY <3>1 DEF Running, Place
  <2>2. i - 1 \in 0 .. Len(seqs)
    BY <2>1
  <2>3. QED
    BY <2>1, <2>2 DEF Cuts
<1>3. a = words[ArgAt(fmt, e.pos)]
  BY <1>2 DEF WordArgs
<1>4. /\ IsRun(r) /\ r.pos = e.pos + 1
      /\ p = D => /\ r.mem = e.mem /\ r.mode = D /\ r.text = wtoa[a]
                  /\ r.n = e.n /\ r.out = e.out
      /\ p = F => /\ r.mem = e.mem /\ r.mode = F /\ r.text = Strings[a]
                  /\ r.n = e.n /\ r.out = e.out
      /\ p = H => /\ r.mem = s.mem /\ r.mode = H /\ r.obj = s.obj
                  /\ r.n = e.n /\ r.out = e.out
      /\ p \notin Directives =>
           /\ r.mem = e.mem /\ r.mode = e.mode
           /\ r.n = e.n + 1 /\ r.out = Longer(e.out, e.n, offset, p)
  <2>1. p = fmt[e.pos] /\ s = open(e.mem, a)
    OBVIOUS
  <2> HIDE DEF p, s, a, i
  <2>2. QED
    BY <1>1, <1>3, <2>1, LiteralIs
<1>5. seqs[i] = Piece(p, a, stash) /\ seqs[i] \in Seq(Int)
  <2>1. /\ fmt \in Seq(Int) /\ i \in 1 .. Len(fmt) /\ Fits(w, fmt, arg, ch, stash)
        /\ seqs = Pieces(fmt, arg, stash)
    BY <1>2 DEF Message
  <2> HIDE DEF i
  <2>2. /\ Pieces(fmt, arg, stash)[i] = Piece(fmt[i], arg[i], stash)
        /\ Pieces(fmt, arg, stash)[i] \in Seq(Int)
    BY <2>1, PiecesType
  <2>3. QED
    BY <2>1, <2>2 DEF i
<1>6. /\ p = D => seqs[i] = wtoa[a]
      /\ p = F => seqs[i] = Strings[a]
      /\ p = H => seqs[i] = stash
      /\ p \notin Directives => seqs[i] = <<p>>
  <2> HIDE DEF p, a
  <2>1. QED
    BY <1>5, PieceIs
<1>7. p = H => a = ch[1] /\ Saved(w, ch, stash)
  BY <1>2 DEF Fits
<1> HIDE DEF p, a, s, i
<1>8. r.pos = i + 1 /\ e.pos = i /\ p = fmt[i]
  BY <1>4 DEF i, p
<1>9. ASSUME p \in {D, F}
      PROVE  Running(r, w, fmt, seqs, cut, ch, text, offset) /\ Moves(e, r)
  <2>1. /\ r.mem = e.mem /\ r.mode = p /\ r.text = seqs[i] /\ r.n = e.n /\ r.out = e.out
        /\ p # 0
    BY <1>4, <1>6, <1>9, Kinds
  <2>2. Rest(seqs[i], seqs[i], 0)
    BY <1>5, RestAll
  <2>3. Inside(r, fmt, seqs, cut, ch, i, 0)
    <3>1. 0 \in 0 .. Len(seqs[i]) /\ r.n = cut[i - 1] + 0
      BY <1>2, <1>5, <2>1
    <3>2. QED
      BY <1>2, <1>8, <1>9, <2>1, <2>2, <3>1 DEF Inside
  <2>4. Moves(e, r)
    BY <1>2, <1>8, <2>1 DEF Moves, Work
  <2>5. QED
    BY <1>1, <1>4, <2>1, <2>3, <2>4 DEF Running, Place
<1>10. ASSUME p = H
       PROVE  Running(r, w, fmt, seqs, cut, ch, text, offset) /\ Moves(e, r)
  <2>1. r.mem = s.mem /\ r.mode = H /\ r.obj = s.obj /\ r.n = e.n /\ r.out = e.out
    BY <1>4, <1>10
  <2>2. Saved(e.mem, ch, stash) /\ Shape(e.mem) /\ a = ch[1]
    BY <1>1, <1>7, <1>10, SavedQuiet DEF Quiet
  <2>3. ch[1] \in PageNo /\ ch[1] \in Range(ch)
    BY <2>2, PagesOf DEF Saved
  <2>4. s = open(e.mem, ch[1])
    BY <2>2 DEF s
  <2>5. Quiet(e.mem, s.mem, Range(ch))
    BY <2>2, <2>3, <2>4, QuietOpen
  <2>6. Owns(s.obj, ch) /\ Reading(s.obj, ch, 0)
    BY <2>2, <2>4, OpenSaved
  <2>7. Quiet(w, r.mem, Range(ch))
    BY <1>1, <2>1, <2>5, QuietTwice
  <2>8. Inside(r, fmt, seqs, cut, ch, i, 0)
    <3>1. 0 \in 0 .. Len(seqs[i]) /\ r.n = cut[i - 1] + 0
      BY <1>2, <1>5, <2>1
    <3>2. QED
      BY <1>2, <1>8, <1>10, <2>1, <2>6, <3>1 DEF Inside
  <2>9. Moves(e, r)
    BY <1>2, <1>8, <2>1, Kinds DEF Moves, Work
  <2>10. QED
    BY <1>1, <1>4, <2>1, <2>7, <2>8, <2>9 DEF Running, Place
<1>11. ASSUME p \notin Directives
       PROVE  Running(r, w, fmt, seqs, cut, ch, text, offset) /\ Moves(e, r)
  <2>1. /\ r.mem = e.mem /\ r.mode = 0 /\ r.n = e.n + 1
        /\ r.out = Longer(e.out, e.n, offset, p)
    BY <1>4, <1>11
  <2>8. seqs[i] = <<p>> /\ i \in 1 .. Len(seqs) /\ Len(seqs) \in Nat
    BY <1>2, <1>6, <1>11
  <2>2. Len(seqs[i]) = 1 /\ seqs[i][0 + 1] = p /\ i \in 1 .. Len(seqs) /\ Len(seqs) \in Nat
    <3>1. Len(<<p>>) = 1 /\ <<p>>[1] = p /\ 0 + 1 = 1
      OBVIOUS
    <3>2. QED
      BY <2>8, <3>1
  <2>3. Out(r.out, r.n, text, offset)
    <3> DEFINE q == 0
               n == e.n
    <3>1. q \in Nat /\ q < Len(seqs[i]) /\ n = cut[i - 1] + q /\ p = seqs[i][q + 1]
      BY <1>2, <2>2
    <3>2. Out(e.out, n, text, offset)
      BY <1>1
    <3>5. i \in 1 .. Len(seqs) /\ Len(seqs) \in Nat /\ seqs[i] \in Seq(Int)
      BY <1>5, <2>2
    <3> HIDE DEF q, n, p
    <3>3. Out(Longer(e.out, n, offset, p), n + 1, text, offset)
      BY <3>1, <3>2, <3>5, OutPiece, Zenon
    <3>4. QED
      BY <2>1, <3>3 DEF n
  <2>4. cut[i] = cut[i - 1] + 1
    <3>1. cut[i] = cut[i - 1] + Len(seqs[i])
      BY <2>8 DEF Cuts
    <3>2. QED
      BY <2>2, <3>1
  <2>5. r.pos \in 1 .. Len(fmt) + 1 /\ r.n = cut[r.pos - 1]
    BY <1>2, <1>8, <2>1, <2>4
  <2>6. Moves(e, r)
    BY <1>2, <1>8, <2>1 DEF Moves, Work
  <2>7. QED
    BY <1>1, <1>4, <2>1, <2>3, <2>5, <2>6 DEF Running, Place
<1>12. QED
  BY <1>9, <1>10, <1>11 DEF Directives

LEMMA Sums ==
    ASSUME NEW a \in Nat, NEW q \in Nat, NEW n, n = a + q, NEW l \in Nat
    PROVE  /\ n \in Nat /\ n + 1 = a + (q + 1) /\ q + 1 \in Nat
           /\ q < l => q + 1 \in 0 .. l
OBVIOUS

LEMMA MovesIf ==
    ASSUME NEW e, NEW r, e.n \in Nat, NEW i \in Nat, e.pos = i + 1, r.pos = e.pos, e.mode # 0,
           \/ r.n = e.n /\ r.mode = 0
           \/ r.n = e.n + 1 /\ r.mode = e.mode
    PROVE  Moves(e, r)
<1>1. r.n \in {e.n, e.n + 1} /\ r.n \in Nat
  OBVIOUS
<1>2. Work(e) = e.n + 2 * ((i + 1) - 1) - 1
  BY DEF Work
<1>3. Work(r) = r.n + 2 * ((i + 1) - 1) - (IF r.mode = 0 THEN 0 ELSE 1)
  BY DEF Work
<1>4. Work(r) >= Work(e) + 1
  BY <1>2, <1>3
<1>5. QED
  BY <1>1, <1>4 DEF Moves

(* The next byte of a number or string, or its end. *)
LEMMA PendingStep ==
    ASSUME NEW w, NEW fmt \in Seq(Int), NEW ch,
           NEW seqs, Len(seqs) = Len(fmt), \A i \in 1 .. Len(fmt) : seqs[i] \in Seq(Int),
           NEW text \in Seq(Int), NEW cut, Cuts(cut, seqs, text), NEW offset \in Nat,
           NEW e, Running(e, w, fmt, seqs, cut, ch, text, offset), e.mode \in {D, F},
           NEW r, r = pending(e, offset)
    PROVE  Running(r, w, fmt, seqs, cut, ch, text, offset) /\ Moves(e, r)
<1>1. IsRun(e) /\ Quiet(w, e.mem, Range(ch)) /\ Out(e.out, e.n, text, offset)
  BY DEF Running
<1>2. PICK i, q : Inside(e, fmt, seqs, cut, ch, i, q)
  <2>1. e.mode # 0
    BY Kinds
  <2>2. QED
    BY <2>1 DEF Running, Place
<1> DEFINE s == seqs[i]
           n == e.n
<1>3. /\ i \in 1 .. Len(seqs) /\ i \in Nat /\ Len(seqs) \in Nat /\ i \in 1 .. Len(fmt)
      /\ e.pos = i + 1 /\ n = cut[i - 1] + q /\ e.mode = fmt[i] /\ e.mode # 0
      /\ s \in Seq(Int) /\ Rest(e.text, s, q)
  BY <1>2, Kinds DEF Inside
<1>4. /\ cut[i - 1] \in Nat /\ cut[i] = cut[i - 1] + Len(s) /\ q \in Nat
  <2>1. i - 1 \in 0 .. Len(seqs)
    BY <1>3
  <2>2. q \in 0 .. Len(s) /\ Len(s) \in Nat
    BY <1>3 DEF Rest
  <2>3. cut[i] = cut[i - 1] + Len(seqs[i])
    BY <1>3 DEF Cuts
  <2>4. cut[i - 1] \in Nat
    BY <2>1 DEF Cuts
  <2> HIDE DEF s
  <2>5. QED
    BY <2>2, <2>3, <2>4 DEF s
<1>9. n \in Nat /\ n + 1 = cut[i - 1] + (q + 1) /\ (q < Len(s) => q + 1 \in 0 .. Len(s))
  <2> DEFINE a == cut[i - 1]
             l == Len(s)
  <2>1. a \in Nat /\ q \in Nat /\ n = a + q /\ l \in Nat
    BY <1>3, <1>4
  <2> HIDE DEF a, l, n
  <2>2. n \in Nat /\ n + 1 = a + (q + 1) /\ (q < l => q + 1 \in 0 .. l)
    BY <2>1, Sums
  <2>3. QED
    BY <2>2 DEF a, l
<1>5. /\ IsRun(r) /\ r.mem = e.mem /\ r.pos = e.pos
      /\ e.text = <<>> => r.mode = 0 /\ r.n = e.n /\ r.out = e.out
      /\ e.text # <<>> =>
           /\ r.mode = e.mode /\ r.text = Tail(e.text)
           /\ r.n = e.n + 1 /\ r.out = Longer(e.out, e.n, offset, Head(e.text))
  BY <1>1, PendingIs
<1> HIDE DEF s, n
<1>6. CASE e.text = <<>>
  <2>1. q = Len(s)
    BY <1>3, <1>6, RestNone
  <2>2. r.mode = 0 /\ r.n = n /\ r.out = e.out
    BY <1>5, <1>6 DEF n
  <2>3. r.pos \in 1 .. Len(fmt) + 1 /\ r.n = cut[r.pos - 1]
    BY <1>3, <1>4, <1>5, <2>1, <2>2
  <2>4. Moves(e, r)
    BY <1>3, <1>5, <1>9, <2>2, MovesIf DEF n
  <2>5. QED
    BY <1>1, <1>5, <2>2, <2>3, <2>4 DEF Running, Place, n
<1>7. CASE e.text # <<>>
  <2> DEFINE c == Head(e.text)
  <2>1. c = s[q + 1] /\ q < Len(s) /\ Rest(Tail(e.text), s, q + 1)
    BY <1>3, <1>7, RestTail
  <2>2. r.mode = e.mode /\ r.text = Tail(e.text) /\ r.n = n + 1 /\ r.out = Longer(e.out, n, offset, c)
    BY <1>5, <1>7 DEF n
  <2> HIDE DEF c
  <2>3. Out(r.out, r.n, text, offset)
    <3>1. c = seqs[i][q + 1] /\ q < Len(seqs[i]) /\ seqs[i] \in Seq(Int)
      BY <1>3, <2>1 DEF s
    <3>2. Out(e.out, n, text, offset)
      BY <1>1 DEF n
    <3>3. Out(Longer(e.out, n, offset, c), n + 1, text, offset)
      BY <1>3, <1>4, <3>1, <3>2, OutPiece, Zenon
    <3>4. QED
      BY <2>2, <3>3
  <2>4. Inside(r, fmt, seqs, cut, ch, i, q + 1)
    <3>1. q + 1 \in 0 .. Len(seqs[i])
      BY <1>9, <2>1 DEF s
    <3>2. r.n = cut[i - 1] + (q + 1)
      BY <1>9, <2>2, Zenon
    <3>3. Rest(r.text, seqs[i], q + 1)
      BY <2>1, <2>2 DEF s
    <3>4. QED
      BY <1>3, <1>5, <2>2, <3>1, <3>2, <3>3 DEF Inside
  <2>5. Moves(e, r)
    BY <1>3, <1>5, <1>9, <2>2, MovesIf DEF n
  <2>6. QED
    BY <1>1, <1>5, <2>3, <2>4, <2>5 DEF Running, Place
<1>8. QED
  BY <1>6, <1>7

(* The next byte of the stash, or its end. *)
LEMMA StashStep ==
    ASSUME NEW w, NEW fmt \in Seq(Int), NEW ch, NEW stash, Saved(w, ch, stash),
           NEW seqs, Len(seqs) = Len(fmt),
           \A i \in 1 .. Len(fmt) : fmt[i] = H => seqs[i] = stash,
           NEW text \in Seq(Int), NEW cut, Cuts(cut, seqs, text), NEW offset \in Nat,
           NEW e, Running(e, w, fmt, seqs, cut, ch, text, offset), e.mode = H,
           NEW r, r = stashed(e, offset)
    PROVE  Running(r, w, fmt, seqs, cut, ch, text, offset) /\ Moves(e, r)
<1>1. IsRun(e) /\ Quiet(w, e.mem, Range(ch)) /\ Out(e.out, e.n, text, offset)
  BY DEF Running
<1>2. PICK i, q : Inside(e, fmt, seqs, cut, ch, i, q)
  <2>1. e.mode # 0
    BY Kinds
  <2>2. QED
    BY <2>1 DEF Running, Place
<1> DEFINE n == e.n
           g == get(e.mem, e.obj)
<1>3. /\ i \in 1 .. Len(seqs) /\ i \in Nat /\ Len(seqs) \in Nat /\ i \in 1 .. Len(fmt)
      /\ e.pos = i + 1 /\ n = cut[i - 1] + q /\ fmt[i] = H /\ H # 0
      /\ Owns(e.obj, ch) /\ Reading(e.obj, ch, q) /\ q \in 0 .. Len(seqs[i])
  BY <1>2, Kinds DEF Inside
<1>4. seqs[i] = stash /\ stash \in Seq(Int) /\ Len(stash) \in Nat
  <2>1. stash \in Seq(Nat \ {0})
    BY DEF Saved, Written
  <2>2. stash \in Seq(Int)
    BY <2>1
  <2>3. QED
    BY <1>3, <2>2
<1>5. /\ cut[i - 1] \in Nat /\ cut[i] = cut[i - 1] + Len(stash) /\ q \in Nat /\ q \in 0 .. Len(stash)
  <2>1. i - 1 \in 0 .. Len(seqs)
    BY <1>3
  <2>2. cut[i] = cut[i - 1] + Len(seqs[i])
    BY <1>3 DEF Cuts
  <2>3. cut[i - 1] \in Nat
    BY <2>1 DEF Cuts
  <2>4. QED
    BY <1>3, <1>4, <2>2, <2>3
<1>6. /\ Shape(e.mem) /\ Written(e.mem, ch, stash) /\ e.obj.curr \in PageNo \cap Range(ch)
      /\ Fresh(e.mem, e.obj.curr) /\ IsStash(e.obj)
  <2>1. Saved(e.mem, ch, stash) /\ Shape(e.mem)
    BY <1>1, SavedQuiet DEF Quiet
  <2>2. e.obj.curr \in PageNo \cap Range(ch)
    <3>1. PICK j \in DOMAIN ch : e.obj.curr = ch[j]
      BY <1>3 DEF Reading
    <3>2. QED
      BY <2>1, <3>1, PagesOf DEF Saved
  <2>3. QED
    BY <1>3, <2>1, <2>2 DEF Saved, Owns
<1>7. Quiet(e.mem, g.mem, Range(ch))
  BY <1>6, QuietGet
<1>8. /\ Owns(g.obj, ch)
      /\ IF q = Len(stash) THEN g.c = 0 /\ Reading(g.obj, ch, q)
         ELSE g.c = stash[q + 1] /\ g.c # 0 /\ Reading(g.obj, ch, q + 1)
  <2> DEFINE x == e.mem
             y == e.obj
  <2>1. g = get(x, y) /\ Shape(x) /\ Written(x, ch, stash) /\ Fresh(x, y.curr)
    BY <1>6
  <2>2. Owns(y, ch) /\ Reading(y, ch, q) /\ q \in 0 .. Len(stash)
    BY <1>3, <1>5
  <2> HIDE DEF g, x, y
  <2>3. GotNext(g, ch, stash, q)
    BY <2>1, <2>2, GetNext
  <2>4. QED
    BY <2>3 DEF GotNext
<1>13. n \in Nat /\ n + 1 = cut[i - 1] + (q + 1) /\ (q < Len(stash) => q + 1 \in 0 .. Len(stash))
  <2> DEFINE a == cut[i - 1]
             l == Len(stash)
  <2>1. a \in Nat /\ q \in Nat /\ n = a + q /\ l \in Nat
    BY <1>3, <1>4, <1>5
  <2> HIDE DEF a, l, n
  <2>2. n \in Nat /\ n + 1 = a + (q + 1) /\ (q < l => q + 1 \in 0 .. l)
    BY <2>1, Sums
  <2>3. QED
    BY <2>2 DEF a, l
<1>9. /\ IsRun(r) /\ r.mem = g.mem /\ r.pos = e.pos /\ r.obj = g.obj
      /\ g.c = 0 => r.mode = 0 /\ r.n = e.n /\ r.out = e.out
      /\ g.c # 0 =>
           r.mode = e.mode /\ r.n = e.n + 1 /\ r.out = Longer(e.out, e.n, offset, g.c)
  <2>1. g = get(e.mem, e.obj)
    OBVIOUS
  <2> HIDE DEF g
  <2>2. QED
    BY <1>1, <2>1, StashedIs
<1> HIDE DEF n, g
<1>10. Quiet(w, r.mem, Range(ch))
  BY <1>1, <1>7, <1>9, QuietTwice
<1>11. CASE q = Len(stash)
  <2>1. r.mode = 0 /\ r.n = n /\ r.out = e.out
    BY <1>8, <1>9, <1>11 DEF n
  <2>2. r.pos \in 1 .. Len(fmt) + 1 /\ r.n = cut[r.pos - 1]
    BY <1>3, <1>5, <1>9, <1>11, <2>1
  <2>3. Moves(e, r)
    BY <1>3, <1>9, <1>13, <2>1, MovesIf DEF n
  <2>4. QED
    BY <1>1, <1>9, <1>10, <2>1, <2>2, <2>3 DEF Running, Place, n
<1>12. CASE q # Len(stash)
  <2> DEFINE c == g.c
  <2>1. c = stash[q + 1] /\ c # 0 /\ Reading(r.obj, ch, q + 1) /\ Owns(r.obj, ch) /\ q < Len(stash)
    BY <1>4, <1>5, <1>8, <1>9, <1>12
  <2>2. r.mode = H /\ r.n = n + 1 /\ r.out = Longer(e.out, n, offset, c)
    BY <1>9, <2>1 DEF n
  <2> HIDE DEF c
  <2>3. Out(r.out, r.n, text, offset)
    <3>1. c = seqs[i][q + 1] /\ q < Len(seqs[i]) /\ seqs[i] \in Seq(Int)
      BY <1>4, <2>1
    <3>2. Out(e.out, n, text, offset)
      BY <1>1 DEF n
    <3>3. Out(Longer(e.out, n, offset, c), n + 1, text, offset)
      BY <1>3, <1>5, <3>1, <3>2, OutPiece, Zenon
    <3>4. QED
      BY <2>2, <3>3
  <2>4. Inside(r, fmt, seqs, cut, ch, i, q + 1)
    <3>1. q + 1 \in 0 .. Len(seqs[i])
      BY <1>4, <1>13, <2>1
    <3>2. r.n = cut[i - 1] + (q + 1)
      BY <1>13, <2>2, Zenon
    <3>3. QED
      BY <1>3, <1>9, <2>1, <2>2, <3>1, <3>2 DEF Inside
  <2>5. Moves(e, r)
    BY <1>3, <1>9, <1>13, <2>2, MovesIf DEF n
  <2>6. QED
    BY <1>9, <1>10, <2>3, <2>4, <2>5 DEF Running, Place
<1>14. QED
  BY <1>11, <1>12

LEMMA ExtractStep ==
    ASSUME NEW w, NEW words, NEW fmt, NEW arg, NEW ch, NEW stash, NEW seqs, NEW text, NEW cut,
           Message(w, words, fmt, arg, ch, stash, seqs, text, cut),
           NEW offset \in Nat, NEW count \in Nat, NEW limit, limit = offset + count,
           NEW e, Running(e, w, fmt, seqs, cut, ch, text, offset),
           NEW r, r = extractStep(e, words, offset, count)
    PROVE  /\ Done(e, fmt, limit) => r = e
           /\ ~Done(e, fmt, limit) =>
                Running(r, w, fmt, seqs, cut, ch, text, offset) /\ Moves(e, r)
<1> DEFINE first == e.n >= offset + count \/ (e.mode = 0 /\ e.pos > Len(Formats[words[1]]))
           second == /\ e.n < offset + count /\ e.mode = 0
                     /\ e.pos <= Len(Formats[words[1]])
           third == e.n < offset + count /\ e.mode = H
<1>1. r = CASE first -> e
            [] second -> literal(e, words, offset)
            [] third -> stashed(e, offset)
            [] OTHER -> pending(e, offset)
  BY DEF extractStep
<1>2. /\ fmt = Formats[words[1]] /\ fmt \in Seq(Int) /\ text \in Seq(Int)
      /\ Cuts(cut, seqs, text) /\ Len(seqs) = Len(fmt)
  BY DEF Message
<1>3. first <=> Done(e, fmt, limit)
  BY <1>2 DEF Done
<1>4. e.n \in Nat /\ (e.mode = 0 => e.pos \in Nat) /\ e.mode \in {0, D, F, H}
  <2>1. e.n \in Nat
    BY DEF Running, Out
  <2>2. CASE e.mode = 0 /\ e.pos \in 1 .. Len(fmt) + 1
    BY <1>2, <2>1, <2>2
  <2>3. CASE \E i, q : Inside(e, fmt, seqs, cut, ch, i, q)
    <3>1. e.mode \in {D, F, H}
      BY <2>3 DEF Inside
    <3>2. QED
      BY <2>1, <3>1, Kinds
  <2>4. QED
    BY <2>2, <2>3 DEF Running, Place
<1>5. Len(fmt) \in Nat
  BY <1>2
<1>6. ~first => e.n < offset + count /\ (e.mode = 0 => e.pos <= Len(Formats[words[1]]))
  <2>1. Len(Formats[words[1]]) \in Nat
    BY <1>2, <1>5
  <2>2. QED
    BY <1>4, <2>1
<1>7. first => r = e /\ ~second /\ ~third
  <2>1. first => r = e
    <3> HIDE DEF first, second, third
    <3>1. first /\ ~second /\ ~third => r = e
      BY <1>1
    <3>2. first => ~second /\ ~third
      <4>1. Len(Formats[words[1]]) \in Nat
        BY <1>2, <1>5
      <4>2. QED
        BY <1>4, <4>1, Kinds DEF first, second, third
    <3>3. QED
      BY <3>1, <3>2
  <2>2. first => ~second /\ ~third
    <3>1. Len(Formats[words[1]]) \in Nat
      BY <1>2, <1>5
    <3>2. QED
      BY <1>4, <3>1, Kinds
  <2>3. QED
    BY <2>1, <2>2
<1>8. ASSUME ~first
      PROVE  Running(r, w, fmt, seqs, cut, ch, text, offset) /\ Moves(e, r)
  <2>1. CASE e.mode = 0
    <3>1. second /\ ~third /\ e.pos <= Len(fmt)
      BY <1>2, <1>6, <1>8, <2>1, Kinds
    <3> HIDE DEF first, second, third
    <3>2. r = literal(e, words, offset)
      BY <1>1, <1>8, <3>1
    <3>3. QED
      BY <2>1, <3>1, <3>2, LiteralStep
  <2>2. CASE e.mode = H
    <3>1. third /\ ~second
      BY <1>6, <1>8, <2>2, Kinds
    <3> HIDE DEF first, second, third
    <3>2. r = stashed(e, offset)
      BY <1>1, <1>8, <3>1
    <3>3. PICK i, q : Inside(e, fmt, seqs, cut, ch, i, q)
      BY <2>2, Kinds DEF Running, Place
    <3>4. Saved(w, ch, stash) /\ \A j \in 1 .. Len(fmt) : fmt[j] = H => seqs[j] = stash
      <4>1. i \in 1 .. Len(fmt) /\ fmt[i] = H
        BY <2>2, <3>3 DEF Inside
      <4>2. QED
        BY <4>1, MessagePieces
    <3>5. QED
      BY <1>2, <2>2, <3>2, <3>4, StashStep
  <2>3. CASE e.mode \in {D, F}
    <3>1. ~third /\ ~second
      BY <2>3, Kinds
    <3> HIDE DEF first, second, third
    <3>2. r = pending(e, offset)
      BY <1>1, <1>8, <3>1
    <3>3. \A i \in 1 .. Len(fmt) : seqs[i] \in Seq(Int)
      BY MessagePieces
    <3>4. QED
      BY <1>2, <2>3, <3>2, <3>3, PendingStep
  <2>4. QED
    BY <1>4, <2>1, <2>2, <2>3
<1>9. QED
  BY <1>3, <1>7, <1>8

(* What extract() begins with, and has after so many steps. *)
Started(w) ==
    [mem |-> w, pos |-> 1, mode |-> 0, text |-> <<>>, obj |-> NoStash, n |-> 0, out |-> <<>>]
Extracted(f, w, words, offset, count, n) ==
    f = [k \in 0 .. n |-> IF k = 0 THEN Started(w)
                         ELSE extractStep(f[k - 1], words, offset, count)]

LEMMA ExtractedExists ==
    ASSUME NEW w, NEW words, NEW offset, NEW count, NEW n \in Nat
    PROVE  \E f : Extracted(f, w, words, offset, count, n)
<1> DEFINE first == Started(w)
           Step(v, k) == extractStep(v, words, offset, count)
           Fn(f, l) == f = [k \in 0 .. l |-> IF k = 0 THEN first ELSE Step(f[k - 1], k)]
<1>1. SUFFICES \E f : Fn(f, n)
  BY DEF Extracted
<1> HIDE DEF first, Step
<1> DEFINE T == {l \in Nat : ~\E f : Fn(f, l)}
<1>2. SUFFICES ASSUME T # {} PROVE FALSE
  OBVIOUS
<1>3. PICK l \in T : \A k \in T : l <= k
  BY <1>2, Least
<1>4. l # 0
  <2>1. Fn([k \in 0 .. 0 |-> first], 0)
    OBVIOUS
  <2>2. QED
    BY <2>1
<1>5. l - 1 \in Nat /\ l - 1 \notin T
  BY <1>3, <1>4
<1>6. PICK g : Fn(g, l - 1)
  BY <1>5
<1> DEFINE f == [k \in 0 .. l |-> IF k = l THEN Step(g[l - 1], l) ELSE g[k]]
<1>7. \A k \in 0 .. l : f[k] = IF k = 0 THEN first ELSE Step(f[k - 1], k)
  <2> TAKE k \in 0 .. l
  <2>1. CASE k = l
    BY <1>4, <1>5, <2>1
  <2>2. CASE k # l
    <3>1. k \in 0 .. l - 1 /\ k - 1 # l
      BY <2>2
    <3>2. f[k] = g[k] /\ (k # 0 => f[k - 1] = g[k - 1])
      BY <2>2, <3>1
    <3>3. QED
      BY <1>6, <3>1, <3>2
  <2>3. QED
    BY <2>1, <2>2
<1>8. f = [k \in 0 .. l |-> f[k]]
  OBVIOUS
<1> HIDE DEF f
<1>9. Fn(f, l)
  BY <1>7, <1>8
<1>10. QED
  BY <1>3, <1>9

Follows(f, w, words, offset, count, n) ==
    /\ f[0] = Started(w)
    /\ \A k \in 1 .. n : f[k] = extractStep(f[k - 1], words, offset, count)

LEMMA ExtractedSteps ==
    ASSUME NEW w, NEW words, NEW offset, NEW count, NEW n \in Nat,
           NEW f, Extracted(f, w, words, offset, count, n)
    PROVE  Follows(f, w, words, offset, count, n)
<1>1. \A k \in 0 .. n : f[k] = IF k = 0 THEN Started(w)
                               ELSE extractStep(f[k - 1], words, offset, count)
  BY DEF Extracted
<1>2. 0 \in 0 .. n /\ \A k \in 1 .. n : k \in 0 .. n /\ k # 0
  OBVIOUS
<1>3. QED
  BY <1>1, <1>2 DEF Follows

(* The bytes from offset on, as many as there are up to the limit. *)
Part(out, text, offset, limit) ==
    LET n == IF limit <= Len(text) THEN limit ELSE Len(text)
    IN  Out(out, n, text, offset)

(* extract() gives a part of the text, and reads the stash only. *)
LEMMA ExtractIs ==
    ASSUME NEW m, NEW w, w = load(m, 0, 0), NEW words, words = w.bufs[0].bytes,
           NEW fmt, NEW arg, NEW ch, NEW stash, NEW seqs, NEW text, NEW cut,
           Message(w, words, fmt, arg, ch, stash, seqs, text, cut),
           NEW offset \in Nat, NEW count \in Nat, NEW r, r = extract(m, offset, count)
    PROVE  Quiet(w, r.mem, Range(ch)) /\ Part(r.out, text, offset, offset + count)
<1> DEFINE limit == offset + count
           L == Len(fmt)
           n == limit + 2 * L
           f == Extracts(m, offset, count)
           Good(k) == /\ Running(f[k], w, fmt, seqs, cut, ch, text, offset)
                      /\ f[k].n <= limit
                      /\ Done(f[k], fmt, limit) \/ k <= Work(f[k])
           T == {k \in 0 .. n : ~Good(k)}
<1>1. /\ fmt \in Seq(Int) /\ fmt = Formats[words[1]] /\ text \in Seq(Int) /\ Shape(w)
      /\ Cuts(cut, seqs, text) /\ Len(seqs) = L
  BY Zenon DEF Message
<1>14. L \in Nat /\ Len(text) \in Nat
  BY <1>1
<1> HIDE DEF L
<1>2. limit \in Nat /\ n \in Nat /\ limit = offset + count
  BY <1>14
<1>3. /\ f[0] = Started(w)
      /\ \A k \in 1 .. n : f[k] = extractStep(f[k - 1], words, offset, count)
      /\ r = f[n]
  <2>1. n = offset + count + 2 * Len(Formats[words[1]]) /\ r = f[n]
    BY <1>1 DEF extract, L
  <2>2. f = CHOOSE g : Extracted(g, w, words, offset, count, n)
    BY <2>1, Zenon DEF Extracted, Extracts, Started
  <2> HIDE DEF n, f, Good, T
  <2>3. Extracted(f, w, words, offset, count, n)
    BY <1>2, <2>2, ExtractedExists
  <2>4. Follows(f, w, words, offset, count, n)
    BY <1>2, <2>3, ExtractedSteps
  <2>5. QED
    BY <2>1, <2>4 DEF Follows
<1> HIDE DEF f, limit, n
<1>4. Good(0)
  <2> DEFINE e == f[0]
  <2>1. /\ IsRun(e) /\ e.mem = w /\ e.pos = 1 /\ e.mode = 0 /\ e.n = 0 /\ e.out = <<>>
    BY <1>3 DEF Started, IsRun
  <2> HIDE DEF e
  <2>2. Quiet(w, w, Range(ch))
    BY <1>1, QuietNot
  <2>3. Out(<<>>, 0, text, offset)
    BY <1>14 DEF Out
  <2>4. 1 \in 1 .. L + 1 /\ cut[1 - 1] = 0
    <3>1. cut[0] = 0
      BY <1>1 DEF Cuts
    <3>2. QED
      BY <1>14, <3>1
  <2>5. Running(e, w, fmt, seqs, cut, ch, text, offset)
    BY <2>1, <2>2, <2>3, <2>4 DEF Running, Place, L
  <2>6. 0 <= Work(e) /\ 0 <= limit
    BY <1>2, <2>1 DEF Work
  <2>7. QED
    BY <2>1, <2>5, <2>6 DEF e
<1>5. ASSUME NEW k \in 1 .. n, Good(k - 1)
      PROVE  Good(k)
  <2> DEFINE e == f[k - 1]
             y == f[k]
  <2>1. y = extractStep(e, words, offset, count)
    BY <1>3
  <2>2. /\ Running(e, w, fmt, seqs, cut, ch, text, offset) /\ e.n <= limit
        /\ Done(e, fmt, limit) \/ k - 1 <= Work(e)
    BY <1>5
  <2> HIDE DEF e, y
  <2>3. /\ Done(e, fmt, limit) => y = e
        /\ ~Done(e, fmt, limit) =>
             Running(y, w, fmt, seqs, cut, ch, text, offset) /\ Moves(e, y)
    BY <1>2, <2>1, <2>2, ExtractStep
  <2>4. CASE Done(e, fmt, limit)
    BY <2>2, <2>3, <2>4 DEF e, y
  <2>5. CASE ~Done(e, fmt, limit)
    <3>1. Running(y, w, fmt, seqs, cut, ch, text, offset) /\ Moves(e, y) /\ k - 1 <= Work(e)
      BY <2>2, <2>3, <2>5
    <3>2. e.n \in Nat /\ e.n < limit
      <4>1. e.n \in Nat
        BY <2>2 DEF Running, Out
      <4>2. QED
        BY <1>2, <2>5, <4>1 DEF Done
    <3>3. y.n <= limit
      BY <1>2, <3>1, <3>2 DEF Moves
    <3>4. Work(e) \in Int /\ Work(y) \in Int
      <4>1. \A x : Running(x, w, fmt, seqs, cut, ch, text, offset) => x.n \in Nat /\ x.pos \in Nat
        <5>1. SUFFICES ASSUME NEW x, Running(x, w, fmt, seqs, cut, ch, text, offset)
                       PROVE  x.n \in Nat /\ x.pos \in Nat
          OBVIOUS
        <5>2. x.n \in Nat
          BY <5>1 DEF Running, Out
        <5>3. x.pos \in 1 .. L + 1 \/ \E i \in 1 .. L : x.pos = i + 1
          BY <5>1 DEF Running, Place, Inside, L
        <5>4. QED
          BY <1>14, <5>2, <5>3
      <4>2. QED
        BY <2>2, <3>1, <4>1 DEF Work
    <3>5. k <= Work(y)
      <4>1. Work(y) >= Work(e) + 1 /\ k \in Int
        BY <3>1 DEF Moves
      <4>2. QED
        BY <3>1, <3>4, <4>1
    <3>6. QED
      BY <3>1, <3>3, <3>5 DEF y
  <2>6. QED
    BY <2>4, <2>5
<1> HIDE DEF Good
<1>6. T = {}
  <2>1. SUFFICES ASSUME T # {} PROVE FALSE
    OBVIOUS
  <2>2. PICK k \in T : \A l \in T : k <= l
    <3>1. T \in SUBSET Nat
      BY <1>2
    <3> HIDE DEF T
    <3>2. QED
      BY <2>1, <3>1, Least
  <2>3. k \in 0 .. n /\ ~Good(k)
    OBVIOUS
  <2>4. k # 0
    BY <1>4, <2>3
  <2>5. k - 1 \in 0 .. n /\ k \in 1 .. n
    BY <1>2, <2>3, <2>4
  <2>6. k - 1 \notin T
    <3> HIDE DEF T
    <3>1. QED
      BY <2>2, <2>5
  <2>7. Good(k - 1)
    BY <2>5, <2>6
  <2>8. QED
    BY <1>5, <2>3, <2>5, <2>7
<1>7. Good(n)
  <2>1. n \in 0 .. n
    BY <1>2
  <2>2. QED
    BY <1>6, <2>1
<1>8. /\ Running(r, w, fmt, seqs, cut, ch, text, offset) /\ r.n <= limit
      /\ Done(r, fmt, limit) \/ n <= Work(r)
  BY <1>3, <1>7 DEF Good
<1>9. r.n \in 0 .. Len(text) /\ Out(r.out, r.n, text, offset) /\ Quiet(w, r.mem, Range(ch))
  BY <1>8 DEF Running, Out
<1>10. \/ r.mode = 0 /\ r.pos \in 1 .. L + 1 /\ r.n = cut[r.pos - 1]
       \/ \E i \in 1 .. L : r.pos = i + 1 /\ r.mode # 0
  BY <1>8, Kinds DEF Running, Place, Inside, L
<1>15. r.n \in Nat /\ r.n <= Len(text) /\ r.pos \in 1 .. L + 1 /\ r.pos \in Nat
  BY <1>9, <1>10, <1>14
<1>16. Done(r, fmt, limit) <=> r.n >= limit \/ (r.mode = 0 /\ r.pos > L)
  BY DEF Done, L
<1> DEFINE t == Len(text)
           z == r.n
           p == r.pos
           x == Work(r)
<1>17. /\ t \in Nat /\ z \in Nat /\ z <= t /\ p \in Nat /\ p <= L + 1
       /\ x = z + 2 * (p - 1) - (IF r.mode = 0 THEN 0 ELSE 1)
  BY <1>14, <1>15 DEF Work
<1> HIDE DEF t, z, p, x
<1>11. Done(r, fmt, limit)
  <2>1. SUFFICES ASSUME ~Done(r, fmt, limit) PROVE FALSE
    OBVIOUS
  <2>2. n <= x /\ ~(z >= limit)
    BY <1>8, <1>16, <2>1 DEF x, z
  <2>3. n = limit + 2 * L
    BY DEF n
  <2>4. x <= z + 2 * (p - 1) /\ x \in Int
    BY <1>17
  <2>5. QED
    BY <1>2, <1>14, <1>17, <2>2, <2>3, <2>4
<1>12. r.n = IF limit <= Len(text) THEN limit ELSE Len(text)
  <2>1. z >= limit => z = limit
    BY <1>2, <1>8, <1>17 DEF z
  <2>2. r.mode = 0 /\ p > L => z = t
    <3>1. SUFFICES ASSUME r.mode = 0, p > L PROVE z = t
      OBVIOUS
    <3>2. p - 1 = L /\ r.n = cut[p - 1]
      <4>1. p - 1 = L
        BY <1>14, <1>17, <3>1
      <4>2. QED
        BY <1>10, <3>1, <4>1 DEF p
    <3>3. cut[L] = t
      BY <1>1 DEF Cuts, t
    <3>4. QED
      BY <3>2, <3>3 DEF z
  <2>3. z = limit \/ z = t
    BY <1>11, <1>16, <2>1, <2>2 DEF z, p
  <2>4. z <= limit
    BY <1>8 DEF z
  <2>5. z = IF limit <= t THEN limit ELSE t
    BY <1>2, <1>17, <2>3, <2>4
  <2>6. QED
    BY <2>5 DEF z, t
<1>13. QED
  BY <1>9, <1>12, Zenon DEF Part, limit

(* Page 0 describes the message of this format, arguments and stash. *)
Prepared(m, f, args, ch, stash) ==
    /\ Page(m, 0)[1] = f /\ Page(m, 0)[0] = Len(Rendered(f, args, stash))
    /\ \A k \in 1 .. Len(args) : Page(m, 0)[1 + k] = args[k]
    /\ Fits(m, Formats[f], ArgsOf(Formats[f], args), ch, stash)

(* Each directive of the format has its argument. *)
Indexed(f, n) ==
    /\ n \in Nat /\ Formats[f] \in Seq(Int)
    /\ \A i \in 1 .. Len(Formats[f]) :
         Formats[f][i] \in Directives => ArgAt(Formats[f], i) \in 2 .. 1 + n

LEMMA PreparedArgs ==
    ASSUME NEW m, NEW f, NEW args, Indexed(f, Len(args)), NEW ch, NEW stash,
           Prepared(m, f, args, ch, stash), NEW words, words = Page(m, 0),
           NEW fmt, fmt = Formats[f]
    PROVE  /\ \A i \in 1 .. Len(fmt) : fmt[i] \in Directives =>
                WordArgs(fmt, words)[i] = ArgsOf(fmt, args)[i]
           /\ Pieces(fmt, WordArgs(fmt, words), stash) = Pieces(fmt, ArgsOf(fmt, args), stash)
<1> DEFINE x == WordArgs(fmt, words)
           y == ArgsOf(fmt, args)
<1>1. \A i \in 1 .. Len(fmt) : fmt[i] \in Directives => x[i] = y[i]
  <2> TAKE i \in 1 .. Len(fmt)
  <2> SUFFICES ASSUME fmt[i] \in Directives PROVE x[i] = y[i]
    OBVIOUS
  <2> DEFINE a == ArgAt(fmt, i)
             l == Len(args)
  <2>1. l \in Nat /\ a \in 2 .. 1 + l
    BY DEF Indexed
  <2>2. x[i] = words[a] /\ y[i] = args[a - 1]
    BY DEF WordArgs, ArgsOf
  <2> HIDE DEF x, y, a, l
  <2>3. a - 1 \in 1 .. l /\ 1 + (a - 1) = a
    BY <2>1
  <2>4. words[1 + (a - 1)] = args[a - 1]
    BY <2>3 DEF Prepared, l
  <2>5. QED
    BY <2>2, <2>3, <2>4
<1> HIDE DEF x, y
<1>2. \A i \in 1 .. Len(fmt) : Piece(fmt[i], x[i], stash) = Piece(fmt[i], y[i], stash)
  <2> TAKE i \in 1 .. Len(fmt)
  <2>1. CASE fmt[i] \in Directives
    BY <1>1, <2>1
  <2>2. CASE fmt[i] \notin Directives
    BY <2>2, PieceIs
  <2>3. QED
    BY <2>1, <2>2
<1>3. Pieces(fmt, x, stash) = Pieces(fmt, y, stash)
  BY <1>2 DEF Pieces
<1>4. QED
  BY <1>1, <1>3 DEF x, y

LEMMA PreparedMessage ==
    ASSUME NEW m, Shape(m), NEW f, NEW args, Indexed(f, Len(args)), NEW ch, NEW stash,
           Prepared(m, f, args, ch, stash), NEW w, w = load(m, 0, 0),
           NEW words, words = w.bufs[0].bytes, NEW fmt, fmt = Formats[f]
    PROVE  /\ Kept(m, w) /\ w.bufs[0].bnum = 0 /\ words = Page(m, 0)
           /\ words[0] = Len(Rendered(f, args, stash))
           /\ \E cut : Message(w, words, fmt, WordArgs(fmt, words), ch, stash,
                               Pieces(fmt, WordArgs(fmt, words), stash),
                               Rendered(f, args, stash), cut)
<1>1. /\ Kept(m, w) /\ w.bufs[0].bnum = 0 /\ words = Page(m, 0)
  BY LoadKept
<1>2. Shape(w) /\ fmt \in Seq(Int) /\ words[1] = f /\ words[0] = Len(Rendered(f, args, stash))
  BY <1>1 DEF Kept, Indexed, Prepared
<1> DEFINE x == WordArgs(fmt, words)
           y == ArgsOf(fmt, args)
           seqs == Pieces(fmt, x, stash)
           text == Rendered(f, args, stash)
<1>3. /\ \A i \in 1 .. Len(fmt) : fmt[i] \in Directives => x[i] = y[i]
      /\ seqs = Pieces(fmt, y, stash)
  <2> HIDE DEF seqs, x, y
  <2>1. /\ \A i \in 1 .. Len(fmt) : fmt[i] \in Directives =>
             WordArgs(fmt, words)[i] = ArgsOf(fmt, args)[i]
        /\ Pieces(fmt, WordArgs(fmt, words), stash) = Pieces(fmt, ArgsOf(fmt, args), stash)
    BY <1>1, PreparedArgs
  <2>2. QED
    BY <2>1 DEF seqs, x, y
<1>4. text = FlattenSeq(seqs)
  <2>1. text = FlattenSeq(Pieces(fmt, y, stash))
    BY <1>2, RenderedIs
  <2> HIDE DEF seqs, x, y
  <2>2. QED
    BY <1>3, <2>1
<1>5. Fits(w, fmt, y, ch, stash)
  <2>1. Fits(m, fmt, y, ch, stash)
    BY DEF Prepared
  <2> HIDE DEF y
  <2>2. QED
    BY <1>1, <2>1, FitsKept
<1>6. Fits(w, fmt, x, ch, stash)
  <2> HIDE DEF seqs, x, y
  <2>1. D \in Directives /\ F \in Directives /\ H \in Directives
    BY DEF Directives
  <2>2. QED
    BY <1>3, <1>5, <2>1 DEF Fits
<1>7. Len(seqs) = Len(fmt) /\ text \in Seq(Int) /\ \E cut : Cuts(cut, seqs, text)
  <2>1. text = FlattenSeq(Pieces(fmt, x, stash))
    BY <1>4
  <2> HIDE DEF text, x
  <2>2. QED
    BY <1>2, <1>6, <2>1, PiecesCuts
<1>8. \E cut : Message(w, words, fmt, x, ch, stash, seqs, text, cut)
  <2>1. x = WordArgs(fmt, words) /\ seqs = Pieces(fmt, x, stash)
    OBVIOUS
  <2> HIDE DEF text, seqs, x
  <2>2. QED
    BY <1>2, <1>6, <1>7, <2>1 DEF Message
<1>9. QED
  BY <1>1, <1>2, <1>8

LEMMA OutWhole ==
    ASSUME NEW text \in Seq(Int), NEW out, Part(out, text, 0, 0 + Len(text))
    PROVE  out = text
<1>1. Len(text) \in Nat /\ 0 + Len(text) = Len(text)
  OBVIOUS
<1>2. Out(out, Len(text), text, 0)
  BY <1>1 DEF Part
<1>3. out \in Seq(Int) /\ Len(out) = Len(text) /\ \A j \in 1 .. Len(out) : out[j] = text[0 + j]
  BY <1>1, <1>2 DEF Out
<1>4. \A j \in 1 .. Len(text) : out[j] = text[j]
  BY <1>1, <1>3
<1>5. QED
  BY <1>3, <1>4

LEMMA OutByte ==
    ASSUME NEW text \in Seq(Int), NEW k \in 0 .. Len(text), NEW out, Part(out, text, k, k + 1)
    PROVE  out = IF k = Len(text) THEN <<>> ELSE <<text[k + 1]>>
<1> DEFINE l == Len(text)
<1>1. l \in Nat /\ k \in 0 .. l
  OBVIOUS
<1>2. CASE k = l
  <2>1. ~(k + 1 <= Len(text)) /\ ~(l > k)
    BY <1>1, <1>2
  <2>2. Out(out, l, text, k)
    BY <2>1 DEF Part
  <2>3. out \in Seq(Int) /\ Len(out) = 0
    BY <2>1, <2>2 DEF Out
  <2>4. QED
    BY <1>2, <2>3
<1>3. CASE k # l
  <2>1. k + 1 <= Len(text) /\ k + 1 > k /\ k + 1 - k = 1
    BY <1>1, <1>3
  <2>2. Out(out, k + 1, text, k)
    BY <2>1 DEF Part
  <2>3. out \in Seq(Int) /\ Len(out) = 1 /\ out[1] = text[k + 1]
    BY <2>1, <2>2 DEF Out
  <2>4. QED
    BY <1>3, <2>3
<1>4. QED
  BY <1>2, <1>3
-----------------------------------------------------------------------------
(* As m, but that the pages S are free, and pages R may have been read. *)
FreedOf(m, w, S, R) ==
    /\ Shape(w) /\ w.short = m.short /\ w.map = m.map \cup S
    /\ w.bufs[0] = m.bufs[0] /\ w.chip = m.chip
    /\ w.bufs[1].bnum \in {m.bufs[1].bnum} \cup R
    /\ \A p \in PageNo : Page(w, p) = Page(m, p) /\ (Fresh(m, p) => Fresh(w, p))

LEMMA FreedTwice ==
    ASSUME NEW m, NEW w, NEW x, NEW S, NEW T, NEW R, FreedOf(m, w, S, R), FreedOf(w, x, T, R)
    PROVE  FreedOf(m, x, S \cup T, R)
BY DEF FreedOf

LEMMA SavedFreed ==
    ASSUME NEW m, NEW ch, NEW text, Saved(m, ch, text), NEW w, NEW S, NEW R, FreedOf(m, w, S, R)
    PROVE  Saved(w, ch, text)
<1>1. \A p \in Range(ch) : p \in PageNo
  BY PagesOf DEF Saved
<1>2. ch[1] \in Range(ch)
  BY PagesOf DEF Saved
<1>3. \A p \in Range(ch) : Page(w, p) = Page(m, p) /\ (Fresh(m, p) => Fresh(w, p))
  BY <1>1 DEF FreedOf
<1>4. Written(w, ch, text)
  BY <1>3, WrittenFrame DEF Saved
<1>5. Page(w, ch[1]) = Page(m, ch[1])
  BY <1>2, <1>3
<1>6. QED
  BY <1>3, <1>4, <1>5 DEF Saved

(* release() frees the pages of the stash, if none of them is in buffer 0. *)
LEMMA ReleaseIs ==
    ASSUME NEW m, Shape(m), NEW ch, NEW text, Written(m, ch, text), m.bufs[0].bnum \notin Range(ch),
           NEW s, s.first = ch[1], NEW r, r = release(m, s), NEW R
    PROVE  FreedOf(m, r, Range(ch), R)
<1>1. Chain(m, s.first) = Range(ch)
  BY ChainIs
<1> DEFINE S == m.map \cup Range(ch)
<1>2. r = WithMap(m, S)
  BY <1>1 DEF release, WithMap
<1>3. S \in SUBSET (1 .. Pages - 1)
  <2>1. m.map \in SUBSET (1 .. Pages - 1)
    BY ShapeMap
  <2>2. Range(ch) \in SUBSET (1 .. Pages - 1)
    BY PagesOf
  <2>3. QED
    BY <2>1, <2>2
<1> HIDE DEF S
<1>4. /\ Shape(r)
      /\ r.map = S /\ r.short = m.short /\ r.bufs = m.bufs /\ r.chip = m.chip
  BY <1>2, <1>3, SetMap
<1>5. \A p : Page(r, p) = Page(m, p) /\ (Fresh(r, p) <=> Fresh(m, p))
  BY <1>4, SameBuffers
<1>6. QED
  BY <1>4, <1>5 DEF FreedOf, S

LEMMA FreedStep ==
    ASSUME NEW m, Shape(m), m.bufs[0].bnum = 0, NEW p, NEW arg, NEW ch, NEW stash,
           p = H => arg = ch[1] /\ Saved(m, ch, stash), NEW r, r = freed(m, p, arg)
    PROVE  /\ FreedOf(m, r, IF p = H THEN Range(ch) ELSE {}, Range(ch))
           /\ p = H => r.bufs[1].bnum \in Range(ch)
<1>1. CASE p # H
  <2>1. r = m
    BY <1>1 DEF freed
  <2>2. QED
    BY <1>1, <2>1 DEF FreedOf
<1>2. CASE p = H
  <2> DEFINE s == open(m, ch[1])
  <2>1. s = open(m, ch[1]) /\ Saved(m, ch, stash) /\ r = release(s.mem, s.obj)
    BY <1>2 DEF freed
  <2> HIDE DEF s
  <2>2. /\ Shape(s.mem) /\ SameMap(m, s.mem) /\ SamePages(m, s.mem)
        /\ s.mem.bufs[0] = m.bufs[0] /\ s.mem.chip = m.chip
        /\ s.mem.bufs[1].bnum = ch[1]
        /\ \A q \in PageNo : Fresh(s.mem, q)
        /\ Owns(s.obj, ch) /\ Reading(s.obj, ch, 0) /\ s.obj.curr = ch[1]
    BY <2>1, OpenSaved
  <2>3. ch[1] \in Range(ch) /\ \A q \in Range(ch) : q \in PageNo /\ q # 0
    BY <2>1, PagesOf DEF Saved
  <2>4. FreedOf(m, s.mem, {}, Range(ch))
    BY <2>2, <2>3 DEF FreedOf, SameMap, SamePages
  <2>5. Written(s.mem, ch, stash)
    BY <2>1, <2>4, SavedFreed DEF Saved
  <2>6. s.obj.first = ch[1] /\ s.mem.bufs[0].bnum \notin Range(ch)
    BY <2>2, <2>3 DEF Owns
  <2>7. FreedOf(s.mem, r, Range(ch), Range(ch))
    BY <2>1, <2>2, <2>5, <2>6, ReleaseIs
  <2>8. FreedOf(m, r, {} \cup Range(ch), Range(ch))
    BY <2>4, <2>7, FreedTwice
  <2>9. {} \cup Range(ch) = Range(ch)
    OBVIOUS
  <2>10. r.bufs[1].bnum \in Range(ch)
    BY <2>2, <2>3, <2>7 DEF FreedOf
  <2>11. QED
    BY <1>2, <2>8, <2>9, <2>10
<1>3. QED
  BY <1>1, <1>2

(* What cleanup() has left after n characters and directives. *)
Emptied(f, w, fmt, words, n) ==
    f = [k \in 0 .. n |-> IF k = 0 THEN w
                          ELSE freed(f[k - 1], fmt[k], words[ArgAt(fmt, k)])]

LEMMA EmptiedExists ==
    ASSUME NEW w, NEW fmt, NEW words, NEW n \in Nat
    PROVE  \E f : Emptied(f, w, fmt, words, n)
<1> DEFINE first == w
           Step(v, k) == freed(v, fmt[k], words[ArgAt(fmt, k)])
           Fn(f, l) == f = [k \in 0 .. l |-> IF k = 0 THEN first ELSE Step(f[k - 1], k)]
<1>1. SUFFICES \E f : Fn(f, n)
  BY DEF Emptied
<1> HIDE DEF first, Step
<1> DEFINE T == {l \in Nat : ~\E f : Fn(f, l)}
<1>2. SUFFICES ASSUME T # {} PROVE FALSE
  OBVIOUS
<1>3. PICK l \in T : \A k \in T : l <= k
  BY <1>2, Least
<1>4. l # 0
  <2>1. Fn([k \in 0 .. 0 |-> first], 0)
    OBVIOUS
  <2>2. QED
    BY <2>1
<1>5. l - 1 \in Nat /\ l - 1 \notin T
  BY <1>3, <1>4
<1>6. PICK g : Fn(g, l - 1)
  BY <1>5
<1> DEFINE f == [k \in 0 .. l |-> IF k = l THEN Step(g[l - 1], l) ELSE g[k]]
<1>7. \A k \in 0 .. l : f[k] = IF k = 0 THEN first ELSE Step(f[k - 1], k)
  <2> TAKE k \in 0 .. l
  <2>1. CASE k = l
    BY <1>4, <1>5, <2>1
  <2>2. CASE k # l
    <3>1. k \in 0 .. l - 1 /\ k - 1 # l
      BY <2>2
    <3>2. f[k] = g[k] /\ (k # 0 => f[k - 1] = g[k - 1])
      BY <2>2, <3>1
    <3>3. QED
      BY <1>6, <3>1, <3>2
  <2>3. QED
    BY <2>1, <2>2
<1>8. f = [k \in 0 .. l |-> f[k]]
  OBVIOUS
<1> HIDE DEF f
<1>9. Fn(f, l)
  BY <1>7, <1>8
<1>10. QED
  BY <1>3, <1>9

Frees(f, w, fmt, words, n) ==
    /\ f[0] = w
    /\ \A k \in 1 .. n : f[k] = freed(f[k - 1], fmt[k], words[ArgAt(fmt, k)])

LEMMA EmptiedSteps ==
    ASSUME NEW w, NEW fmt, NEW words, NEW n \in Nat, NEW f, Emptied(f, w, fmt, words, n)
    PROVE  Frees(f, w, fmt, words, n)
<1>1. \A k \in 0 .. n : f[k] = IF k = 0 THEN w
                               ELSE freed(f[k - 1], fmt[k], words[ArgAt(fmt, k)])
  BY DEF Emptied
<1>2. 0 \in 0 .. n /\ \A k \in 1 .. n : k \in 0 .. n /\ k # 0
  OBVIOUS
<1>3. QED
  BY <1>1, <1>2 DEF Frees

(* cleanup() frees the pages of the stash, if the format has one. *)
HasStash(fmt, n) == \E i \in 1 .. n : fmt[i] = H

LEMMA CleanupIs ==
    ASSUME NEW m, NEW w, w = load(m, 0, 0), w.bufs[0].bnum = 0, NEW words, words = w.bufs[0].bytes,
           NEW fmt, NEW arg, NEW ch, NEW stash, NEW seqs, NEW text, NEW cut,
           Message(w, words, fmt, arg, ch, stash, seqs, text, cut), NEW r, r = cleanup(m)
    PROVE  /\ FreedOf(w, r, IF HasStash(fmt, Len(fmt)) THEN Range(ch) ELSE {}, Range(ch))
           /\ HasStash(fmt, Len(fmt)) => r.bufs[1].bnum \in Range(ch)
<1> DEFINE n == Len(fmt)
           f == Cleanups(m)
           S(i) == IF HasStash(fmt, i) THEN Range(ch) ELSE {}
           Good(i) == /\ FreedOf(w, f[i], S(i), Range(ch))
                      /\ HasStash(fmt, i) => f[i].bufs[1].bnum \in Range(ch)
           T == {i \in 0 .. n : ~Good(i)}
<1> HIDE DEF S, Good, T
<1>1. /\ fmt \in Seq(Int) /\ fmt = Formats[words[1]] /\ Shape(w)
      /\ arg = WordArgs(fmt, words) /\ Fits(w, fmt, arg, ch, stash)
  BY Zenon DEF Message
<1>2. n \in Nat
  BY <1>1
<1>3. f = CHOOSE g : Emptied(g, w, fmt, words, n)
  BY <1>1, Zenon DEF Emptied, Cleanups
<1>4. r = f[n]
  BY <1>1, Zenon DEF cleanup
<1>5. \A i \in 1 .. n : arg[i] = words[ArgAt(fmt, i)] /\ (fmt[i] = H => arg[i] = ch[1] /\ Saved(w, ch, stash))
  BY <1>1, Zenon DEF WordArgs, Fits
<1> HIDE DEF n, f
<1>6. /\ f[0] = w
      /\ \A i \in 1 .. n : f[i] = freed(f[i - 1], fmt[i], words[ArgAt(fmt, i)])
  <2>1. Emptied(f, w, fmt, words, n)
    BY <1>2, <1>3, EmptiedExists
  <2>2. Frees(f, w, fmt, words, n)
    BY <1>2, <2>1, EmptiedSteps
  <2>3. QED
    BY <2>2 DEF Frees
<1> USE DEF Good, T
<1>7. Good(0)
  <2>1. S(0) = {} /\ ~HasStash(fmt, 0)
    BY DEF S, HasStash
  <2>2. QED
    BY <1>1, <1>6, <2>1, Zenon DEF FreedOf
<1>8. ASSUME NEW i \in 1 .. n, Good(i - 1)
      PROVE  Good(i)
  <2> DEFINE e == f[i - 1]
             y == f[i]
             p == fmt[i]
             a == arg[i]
             one == IF p = H THEN Range(ch) ELSE {}
  <2>1. /\ y = freed(e, p, a) /\ FreedOf(w, e, S(i - 1), Range(ch))
        /\ HasStash(fmt, i - 1) => e.bufs[1].bnum \in Range(ch)
    BY <1>5, <1>6, <1>8
  <2>2. p = H => a = ch[1] /\ Saved(w, ch, stash)
    BY <1>5
  <2>3. S(i) = S(i - 1) \cup one /\ (HasStash(fmt, i) <=> HasStash(fmt, i - 1) \/ p = H)
    <3>1. \A j : j \in 1 .. i <=> j \in 1 .. i - 1 \/ j = i
      BY <1>2
    <3>2. HasStash(fmt, i) <=> HasStash(fmt, i - 1) \/ p = H
      BY <3>1 DEF HasStash
    <3>3. QED
      BY <3>2 DEF S, one
  <2> HIDE DEF e, y, p, a
  <2>4. p = H => Saved(e, ch, stash)
    BY <2>1, <2>2, SavedFreed
  <2>5. Shape(e) /\ e.bufs[0].bnum = 0
    BY <2>1 DEF FreedOf
  <2>6. FreedOf(e, y, one, Range(ch)) /\ (p = H => y.bufs[1].bnum \in Range(ch))
    BY <2>1, <2>2, <2>4, <2>5, FreedStep
  <2> HIDE DEF one
  <2>7. FreedOf(w, y, S(i - 1) \cup one, Range(ch))
    BY <2>1, <2>6, FreedTwice
  <2>8. HasStash(fmt, i) => y.bufs[1].bnum \in Range(ch)
    BY <2>1, <2>3, <2>6 DEF FreedOf
  <2>9. QED
    BY <2>3, <2>7, <2>8 DEF y
<1> HIDE DEF Good
<1>9. T = {}
  <2>1. SUFFICES ASSUME T # {} PROVE FALSE
    OBVIOUS
  <2>2. PICK i \in T : \A k \in T : i <= k
    <3>1. T \in SUBSET Nat
      OBVIOUS
    <3> HIDE DEF T
    <3>2. QED
      BY <2>1, <3>1, Least
  <2>3. i \in 0 .. n /\ ~Good(i)
    OBVIOUS
  <2>4. i # 0
    BY <1>7, <2>3
  <2>5. i - 1 \in 0 .. n /\ i \in 1 .. n
    BY <1>2, <2>3, <2>4
  <2>6. i - 1 \notin T
    <3> HIDE DEF T
    <3>1. QED
      BY <2>2, <2>5
  <2>7. Good(i - 1)
    BY <2>5, <2>6
  <2>8. QED
    BY <1>8, <2>3, <2>5, <2>7
<1>10. Good(n)
  <2>1. n \in 0 .. n
    BY <1>2
  <2>2. QED
    BY <1>9, <2>1
<1>11. QED
  BY <1>4, <1>10, Zenon DEF Good, S, n

(* The header of a stash is not text. *)
LEMMA WrittenHeader ==
    ASSUME NEW m, NEW ch, NEW text, Written(m, ch, text),
           NEW w, \A p \in Range(ch) \ {ch[1]} : Page(w, p) = Page(m, p),
           \A o \in HeaderSize .. NextAt : Page(w, ch[1])[o] = Page(m, ch[1])[o]
    PROVE  Written(w, ch, text)
<1> DEFINE n == Len(ch)
           l == Len(text)
<1>1. /\ n \in Nat /\ n >= 1 /\ DOMAIN ch = 1 .. n /\ l \in Nat
      /\ \A j \in 1 .. n : ch[j] \in Range(ch)
  BY PagesOf
<1>2. /\ HeaderSize = 3 /\ TailAt \in HeaderSize .. NextAt /\ NextAt \in HeaderSize .. NextAt
      /\ \A o \in 0 .. TailAt : o \in Nat /\ (o >= 3 => o \in HeaderSize .. NextAt)
  BY PagesNat DEF HeaderSize, TailAt, NextAt
<1>3. /\ ch \in Seq(1 .. Pages - 1) /\ \A i, j \in DOMAIN ch : ch[i] = ch[j] => i = j
      /\ text \in Seq(Nat \ {0})
      /\ \A j \in 1 .. n - 1 : Page(m, ch[j])[NextAt] = ch[j + 1]
      /\ Page(m, ch[n])[NextAt] = 0 /\ Page(m, ch[n])[TailAt] \in 0 .. TailAt
      /\ l = Pos(n, Page(m, ch[n])[TailAt])
      /\ \A j \in DOMAIN ch : \A o \in 0 .. TailAt :
           Pos(j, o) \in 0 .. l - 1 => Page(m, ch[j])[o] = text[Pos(j, o) + 1]
  BY DEF Written
<1> HIDE DEF n, l
<1>12. \A j \in 1 .. n : j # 1 => ch[j] # ch[1]
  <2>1. \A i, j \in DOMAIN ch : ch[i] = ch[j] => i = j
    BY Zenon DEF Written
  <2>2. 1 \in DOMAIN ch
    BY <1>1
  <2>3. QED
    BY <1>1, <2>1, <2>2, Zenon
<1>4. \A j \in 1 .. n : j # 1 => Page(w, ch[j]) = Page(m, ch[j])
  BY <1>1, <1>12
<1>5. \A j \in 1 .. n : \A o \in HeaderSize .. NextAt : Page(w, ch[j])[o] = Page(m, ch[j])[o]
  BY <1>4
<1>6. ASSUME NEW j \in DOMAIN ch, NEW o \in 0 .. TailAt, Pos(j, o) \in 0 .. l - 1
      PROVE  Page(w, ch[j])[o] = text[Pos(j, o) + 1]
  <2>1. o \in Nat /\ (o >= 3 => o \in HeaderSize .. NextAt) /\ j \in 1 .. n
    BY <1>1, <1>2
  <2>2. Page(m, ch[j])[o] = text[Pos(j, o) + 1]
    BY <1>3, <1>6
  <2>3. j = 1 => o >= 3
    <3>1. Pos(1, o) = o - HeaderSize
      BY <2>1, PosSteps
    <3>2. QED
      BY <1>1, <1>2, <1>6, <2>1, <3>1
  <2>4. QED
    BY <1>4, <1>5, <2>1, <2>2, <2>3
<1>7. \A j \in 1 .. n - 1 : j \in 1 .. n
  BY <1>1
<1>8. n \in 1 .. n
  BY <1>1
<1>9. \A j \in 1 .. n - 1 : Page(w, ch[j])[NextAt] = ch[j + 1]
  BY <1>2, <1>3, <1>5, <1>7
<1>10. /\ Page(w, ch[n])[NextAt] = 0 /\ Page(w, ch[n])[TailAt] = Page(m, ch[n])[TailAt]
  BY <1>2, <1>3, <1>5, <1>8
<1>11. QED
  BY <1>1, <1>3, <1>6, <1>9, <1>10 DEF Written, n, l

(* After save() others may open the stash. *)
LEMMA SaveStash ==
    ASSUME NEW m, Shape(m), NEW ch, NEW text, Written(m, ch, text), NEW s, Owns(s, ch),
           \A p \in Range(ch) \ {ch[1]} : Fresh(m, p), NEW r, r = save(m, s)
    PROVE  Saved(r, ch, text)
<1> DEFINE b == Page(m, ch[1])
           d == Page(r, ch[1])
<1>1. /\ s.first = ch[1] /\ s.count = Len(ch) - 1 /\ s.last = ch[Len(ch)]
      /\ \A p \in Range(ch) : p \in PageNo
      /\ ch[1] \in PageNo /\ ch[1] # 0
  BY PagesOf DEF Owns
<1>2. /\ \A p \in PageNo \ {ch[1]} : Page(r, p) = Page(m, p)
      /\ d = Headed(b, s)
      /\ Fresh(r, ch[1])
      /\ \A p \in PageNo \ {ch[1]} : Fresh(m, p) => Fresh(r, p)
  BY <1>1, SaveIs
<1>3. DOMAIN b = 0 .. PageSize - 1
  <2>1. IsPage(b)
    BY <1>1, PageIsPage
  <2>2. QED
    BY <2>1 DEF IsPage
<1> HIDE DEF b, d
<1>4. /\ 0 \in DOMAIN b /\ 1 \in DOMAIN b /\ 2 \in DOMAIN b
      /\ \A o \in HeaderSize .. NextAt : o \in DOMAIN b /\ o # 0 /\ o # 1 /\ o # 2
  BY <1>3, PagesNat DEF HeaderSize, NextAt
<1>5. d[0] = s.count /\ d[1] = s.first /\ d[2] = s.last
  BY <1>2, <1>4 DEF Headed
<1>6. \A o \in HeaderSize .. NextAt : d[o] = b[o]
  BY <1>2, <1>4 DEF Headed
<1>7. Written(r, ch, text)
  BY <1>1, <1>2, <1>6, WrittenHeader DEF b, d
<1>8. \A p \in Range(ch) : Fresh(r, p)
  BY <1>1, <1>2
<1>9. QED
  BY <1>1, <1>5, <1>7, <1>8 DEF Saved, Head3, d

(* Nothing is put. *)
LEMMA PrintNothing ==
    ASSUME NEW m, NEW s, NEW bytes, Len(bytes) = 0
    PROVE  print(m, s, bytes) = [mem |-> m, obj |-> s]
<1> DEFINE f == Prints(m, s, bytes)
<1>1. f[0] = [mem |-> m, obj |-> s]
  BY PrintsAre
<1>2. QED
  BY <1>1 DEF print
=============================================================================
