--------------------------- MODULE Enc28j60Proofs ---------------------------
(***************************************************************************)
(* Proofs about the Ethernet driver. Its receive ring: as long as no frame *)
(* ends with the last byte of the ring, the chip writes over nothing that  *)
(* has not been read, for every size of the ring and of the frames. Its    *)
(* banks: every register is accessed in its own.                           *)
(***************************************************************************)
EXTENDS Enc28j60, WellFoundedInduction, TLAPS

(* How far b is behind a, going up the ring. *)
Ahead(a, b) == IF a <= b THEN b - a ELSE b - a + RxSize

Frame == [at : 0 .. RxSize - 1, next : 0 .. RxSize - 1, size : Sizes,
          ok : BOOLEAN, torn : BOOLEAN]

(* The pointers, which are even but for ERXRDPT: it is one behind          *)
(* gNextPacketPtr, except when that is still at the start of the ring.     *)
Pointers ==
    /\ gNextPacketPtr \in 0 .. RxSize - 1 /\ gNextPacketPtr % 2 = 0
    /\ ERXWRPT \in 0 .. RxSize - 1 /\ ERXWRPT % 2 = 0
    /\ ERXRDPT = IF gNextPacketPtr = 0 THEN 0 ELSE gNextPacketPtr - 1

(* Each unread frame takes its place between gNextPacketPtr and ERXWRPT.   *)
Places ==
    \A i \in DOMAIN unread :
        LET f == unread[i]
        IN  /\ f.next > 0 /\ f.next % 2 = 0
            /\ Ahead(gNextPacketPtr, f.next) = Ahead(gNextPacketPtr, f.at) + Slot(f.size)
            /\ Ahead(gNextPacketPtr, f.next) <= Ahead(gNextPacketPtr, ERXWRPT)
            /\ ~f.torn

(* One begins where the one before ends, the first at gNextPacketPtr, and  *)
(* ERXWRPT is where the last one ends.                                     *)
Chained ==
    /\ unread = <<>> => ERXWRPT = gNextPacketPtr
    /\ unread # <<>> => unread[1].at = gNextPacketPtr /\ unread[Len(unread)].next = ERXWRPT
    /\ \A i \in DOMAIN unread : i > 1 => unread[i].at = unread[i - 1].next
    /\ \A i, j \in DOMAIN unread :
         i < j => Ahead(gNextPacketPtr, unread[i].next) <= Ahead(gNextPacketPtr, unread[j].at)

Ring == Pointers /\ Places /\ Chained

Inv ==
    /\ unread \in Seq(Frame)
    /\ pc = "off" => unread = <<>> /\ RXEN = FALSE
    /\ pc # "off" => Ring
-----------------------------------------------------------------------------
(* Lemmas: places on the ring *)

(* A frame takes some bytes of the ring, and an even number of them.       *)
LEMMA SlotType ==
    ASSUME NEW size \in Sizes
    PROVE  Slot(size) \in Nat \ {0} /\ Slot(size) % 2 = 0
BY FrameAssumption DEF Slot

(* A sum below 2n, modulo n.                                               *)
LEMMA Wraps ==
    ASSUME NEW n \in Nat \ {0}, NEW b \in Nat, NEW k \in Nat
    PROVE  /\ b + k < n => (b + k) % n = b + k
           /\ n <= b + k /\ b + k < 2 * n => (b + k) % n = b + k - n
OBVIOUS

(* Distances on the ring are below its size.                               *)
LEMMA AheadType ==
    ASSUME NEW a \in 0 .. RxSize - 1, NEW b \in 0 .. RxSize - 1
    PROVE  Ahead(a, b) \in 0 .. RxSize - 1
BY RingAssumption DEF Ahead

(* The place k behind b. *)
LEMMA Behind ==
    ASSUME NEW a \in 0 .. RxSize - 1, NEW b \in 0 .. RxSize - 1, NEW k \in Nat,
           Ahead(a, b) + k < RxSize
    PROVE  /\ (b + k) % RxSize \in 0 .. RxSize - 1
           /\ (b + k) % RxSize = b + k \/ (b + k) % RxSize = b + k - RxSize
           /\ Ahead(a, (b + k) % RxSize) = Ahead(a, b) + k
<1>1. RxSize \in Nat \ {0}
  BY RingAssumption
<1>2. b \in Nat /\ b + k < 2 * RxSize
  BY <1>1 DEF Ahead
<1>3. /\ b + k < RxSize => (b + k) % RxSize = b + k
      /\ RxSize <= b + k => (b + k) % RxSize = b + k - RxSize
  BY <1>1, <1>2, Wraps
<1>4. QED
  BY <1>1, <1>2, <1>3 DEF Ahead

(* Free, in terms of what lies between gNextPacketPtr and ERXWRPT: a byte  *)
(* less than the rest of the ring, or two.                                 *)
LEMMA FreeRoom ==
    ASSUME Pointers
    PROVE  /\ Ahead(gNextPacketPtr, ERXWRPT) + Free <= RxSize - 1
           /\ Ahead(gNextPacketPtr, ERXWRPT) + Free >= RxSize - 2
           /\ Free \in Nat
           /\ Ahead(gNextPacketPtr, ERXWRPT) % 2 = 0
BY RingAssumption DEF Pointers, Ahead, Free
-----------------------------------------------------------------------------
(* An arriving frame *)

(* A frame before ERXWRPT and one that begins there share no byte.         *)
LEMMA Disjoint ==
    ASSUME NEW f \in Frame, NEW size \in Sizes, Pointers,
           Ahead(gNextPacketPtr, f.at) + Slot(f.size) <= Ahead(gNextPacketPtr, ERXWRPT),
           Ahead(gNextPacketPtr, ERXWRPT) + Slot(size) < RxSize
    PROVE  Cells(f.at, f.size) \cap Cells(ERXWRPT, size) = {}
<1>1. RxSize \in Nat \ {0} /\ Slot(size) \in Nat /\ Slot(f.size) \in Nat
  BY RingAssumption, SlotType DEF Frame
<1> DEFINE G == gNextPacketPtr
<1>2. /\ G \in 0 .. RxSize - 1 /\ f.at \in 0 .. RxSize - 1 /\ ERXWRPT \in 0 .. RxSize - 1
      /\ Ahead(G, f.at) \in Nat /\ Ahead(G, ERXWRPT) \in Nat
  <2>1. /\ G \in 0 .. RxSize - 1 /\ f.at \in 0 .. RxSize - 1 /\ ERXWRPT \in 0 .. RxSize - 1
    BY DEF Pointers, Frame
  <2>2. /\ Ahead(G, f.at) \in 0 .. RxSize - 1 /\ Ahead(G, ERXWRPT) \in 0 .. RxSize - 1
    BY <2>1, AheadType
  <2>3. QED
    BY <2>1, <2>2, <1>1
<1>3. ASSUME NEW k \in 0 .. Slot(f.size) - 1
      PROVE  Ahead(G, (f.at + k) % RxSize) < Ahead(G, ERXWRPT)
  <2>1. k \in Nat /\ Ahead(G, f.at) + k < RxSize /\ Ahead(G, f.at) + k < Ahead(G, ERXWRPT)
    BY <1>1, <1>2
  <2>2. QED
    BY <2>1, <1>1, <1>2, Behind
<1>4. ASSUME NEW k \in 0 .. Slot(size) - 1
      PROVE  /\ Ahead(G, (ERXWRPT + k) % RxSize) \in Nat
             /\ Ahead(G, (ERXWRPT + k) % RxSize) >= Ahead(G, ERXWRPT)
  <2>1. k \in Nat /\ Ahead(G, ERXWRPT) + k < RxSize
    BY <1>1, <1>2
  <2>2. Ahead(G, (ERXWRPT + k) % RxSize) = Ahead(G, ERXWRPT) + k
    BY <2>1, <1>1, <1>2, Behind
  <2>3. QED
    BY <2>1, <2>2, <1>2
<1>5. SUFFICES ASSUME NEW c \in Cells(f.at, f.size), c \in Cells(ERXWRPT, size)
               PROVE  FALSE
  OBVIOUS
<1>6. Ahead(G, c) < Ahead(G, ERXWRPT)
  BY <1>3 DEF Cells
<1>7. Ahead(G, c) \in Nat /\ Ahead(G, c) >= Ahead(G, ERXWRPT)
  BY <1>4, <1>5 DEF Cells
<1> HIDE DEF G
<1>8. QED
  BY <1>6, <1>7, <1>2

(* The chip puts a frame behind the others, where no unread one is.        *)
LEMMA ArriveInv ==
    ASSUME Inv, Arrive, ~EndsAtTop
    PROVE  Inv'
<1> DEFINE G == gNextPacketPtr
           W == ERXWRPT
           n == Len(unread)
<1>1. PICK size \in Sizes, ok \in BOOLEAN :
        /\ Slot(size) <= Free
        /\ ERXWRPT' = (W + Slot(size)) % RxSize /\ ERXWRPT' # 0
        /\ unread' = Append([i \in DOMAIN unread |->
              [unread[i] EXCEPT !.torn =
                 @ \/ Cells(unread[i].at, unread[i].size) \cap Cells(W, size) # {}]],
              [at |-> W, next |-> ERXWRPT', size |-> size, ok |-> ok, torn |-> FALSE])
  BY DEF Arrive
<1>2. /\ RXEN /\ gNextPacketPtr' = G /\ ERXRDPT' = ERXRDPT /\ RXEN' = RXEN /\ pc' = pc
  BY DEF Arrive
<1>3. /\ unread \in Seq(Frame) /\ n \in Nat /\ DOMAIN unread = 1 .. n
      /\ \A i \in DOMAIN unread : unread[i] \in Frame
  BY DEF Inv
<1>4. pc # "off" /\ Pointers /\ Places /\ Chained
  BY <1>2 DEF Inv, Ring
<1>5. /\ RxSize \in Nat \ {0} /\ RxSize % 2 = 0 /\ Slot(size) \in Nat \ {0} /\ Slot(size) % 2 = 0
      /\ G \in 0 .. RxSize - 1 /\ W \in 0 .. RxSize - 1 /\ W % 2 = 0
  BY <1>4, RingAssumption, SlotType DEF Pointers
<1>6. Ahead(G, W) \in Nat /\ Ahead(G, W) + Slot(size) < RxSize
  <2>1. Ahead(G, W) \in 0 .. RxSize - 1
    BY <1>5, AheadType
  <2>2. Ahead(G, W) + Free <= RxSize - 1 /\ Free \in Nat
    BY <1>4, FreeRoom
  <2>3. QED
    BY SMTT(30), <1>1, <1>5, <2>1, <2>2
<1>7. ERXWRPT' \in 0 .. RxSize - 1 /\ Ahead(G, ERXWRPT') = Ahead(G, W) + Slot(size)
  BY <1>1, <1>5, <1>6, Behind
<1>8. ERXWRPT' % 2 = 0
  <2>1. W \in Nat /\ Slot(size) \in Nat
    BY <1>5
  <2>2. ERXWRPT' = W + Slot(size) \/ ERXWRPT' = W + Slot(size) - RxSize
    <3>1. \/ (W + Slot(size)) % RxSize = W + Slot(size)
          \/ (W + Slot(size)) % RxSize = W + Slot(size) - RxSize
      <4>1. /\ Slot(size) \in Nat /\ Ahead(G, W) + Slot(size) < RxSize
            /\ G \in 0 .. RxSize - 1 /\ W \in 0 .. RxSize - 1
        BY <1>5, <1>6
      <4>2. QED
        BY <4>1, Behind
    <3>2. QED
      BY <1>1, <3>1
  <2>3. QED
    BY <1>5, <2>1, <2>2
<1>9. \A i \in 1 .. n :
        /\ unread'[i] = [unread[i] EXCEPT !.torn = FALSE]
        /\ unread'[i].at = unread[i].at /\ unread'[i].next = unread[i].next
        /\ unread'[i].size = unread[i].size /\ unread'[i].torn = FALSE
        /\ unread'[i] \in Frame
  <2> SUFFICES ASSUME NEW i \in 1 .. n
               PROVE  /\ unread'[i] = [unread[i] EXCEPT !.torn = FALSE]
                      /\ unread'[i].at = unread[i].at /\ unread'[i].next = unread[i].next
                      /\ unread'[i].size = unread[i].size /\ unread'[i].torn = FALSE
                      /\ unread'[i] \in Frame
    OBVIOUS
  <2>1. unread[i] \in Frame /\ ~unread[i].torn
    BY <1>3, <1>4 DEF Places
  <2>2. Ahead(G, unread[i].at) + Slot(unread[i].size) <= Ahead(G, W)
    BY <1>3, <1>4 DEF Places
  <2>3. Cells(unread[i].at, unread[i].size) \cap Cells(W, size) = {}
    BY <1>4, <1>6, <2>1, <2>2, Disjoint
  <2>4. unread'[i] = [unread[i] EXCEPT !.torn = FALSE]
    <3>1. unread'[i] = [unread[i] EXCEPT !.torn =
                          @ \/ Cells(unread[i].at, unread[i].size) \cap Cells(W, size) # {}]
      BY <1>1, <1>3
    <3>2. unread[i].torn = FALSE
      BY <2>1 DEF Frame
    <3> HIDE DEF W
    <3>3. QED
      BY <2>3, <3>1, <3>2
  <2>5. QED
    BY <2>1, <2>4 DEF Frame
<1>10. /\ Len(unread') = n + 1 /\ DOMAIN unread' = 1 .. n + 1
       /\ unread'[n + 1] = [at |-> W, next |-> ERXWRPT', size |-> size, ok |-> ok, torn |-> FALSE]
       /\ unread'[n + 1] \in Frame
  <2>1. /\ Len(unread') = n + 1 /\ DOMAIN unread' = 1 .. n + 1
        /\ unread'[n + 1] = [at |-> W, next |-> ERXWRPT', size |-> size, ok |-> ok, torn |-> FALSE]
    BY <1>1, <1>3
  <2>2. QED
    BY <2>1, <1>5, <1>7 DEF Frame
<1>11. unread' \in Seq(Frame)
  <2>1. \A i \in 1 .. n + 1 : unread'[i] \in Frame
    <3>1. \A i \in 1 .. n + 1 : i \in 1 .. n \/ i = n + 1
      BY <1>3
    <3>2. /\ \A i \in 1 .. n : unread'[i] \in Frame
          /\ unread'[n + 1] \in Frame
      BY <1>9, <1>10
    <3> HIDE DEF n
    <3>3. QED
      BY <3>1, <3>2
  <2>2. unread' = [i \in 1 .. n + 1 |-> unread'[i]]
    BY <1>1, <1>3, <1>10
  <2>3. QED
    BY <1>3, <2>1, <2>2
<1>12. Pointers'
  BY <1>2, <1>4, <1>7, <1>8 DEF Pointers
<1>13. Places'
  <2>1. ASSUME NEW i \in 1 .. n
        PROVE  /\ unread'[i].next > 0 /\ unread'[i].next % 2 = 0
               /\ Ahead(G, unread'[i].next) = Ahead(G, unread'[i].at) + Slot(unread'[i].size)
               /\ Ahead(G, unread'[i].next) <= Ahead(G, ERXWRPT')
               /\ ~unread'[i].torn
    <3>1. /\ unread[i].next > 0 /\ unread[i].next % 2 = 0
          /\ Ahead(G, unread[i].next) = Ahead(G, unread[i].at) + Slot(unread[i].size)
          /\ Ahead(G, unread[i].next) <= Ahead(G, W)
      BY <1>3, <1>4 DEF Places
    <3>2. Ahead(G, unread[i].next) \in 0 .. RxSize - 1
      BY <1>3, <1>5, AheadType DEF Frame
    <3>3. Ahead(G, unread[i].next) <= Ahead(G, ERXWRPT')
      BY SMTT(30), <1>5, <1>6, <1>7, <3>1, <3>2
    <3>4. QED
      BY <1>9, <3>1, <3>3
  <2>2. /\ unread'[n + 1].next > 0 /\ unread'[n + 1].next % 2 = 0
        /\ Ahead(G, unread'[n + 1].next) = Ahead(G, unread'[n + 1].at) + Slot(unread'[n + 1].size)
        /\ Ahead(G, unread'[n + 1].next) <= Ahead(G, ERXWRPT')
        /\ ~unread'[n + 1].torn
    <3>1. /\ unread'[n + 1].at = W /\ unread'[n + 1].next = ERXWRPT'
          /\ unread'[n + 1].size = size /\ unread'[n + 1].torn = FALSE
      BY <1>10
    <3>2. ERXWRPT' > 0 /\ ERXWRPT' % 2 = 0
      BY <1>1, <1>5, <1>6, <1>7, <1>8
    <3>3. Ahead(G, ERXWRPT') = Ahead(G, W) + Slot(size) /\ Ahead(G, ERXWRPT') \in Int
      BY <1>5, <1>6, <1>7
    <3>4. QED
      BY <3>1, <3>2, <3>3
  <2>3. \A i \in 1 .. n + 1 : i \in 1 .. n \/ i = n + 1
    BY <1>3
  <2>4. QED
    BY <1>2, <1>10, <2>1, <2>2, <2>3 DEF Places, Ahead
<1>14. Chained'
  <2>1. unread'[1].at = G
    <3>1. CASE n = 0
      BY <1>3, <1>4, <1>10, <3>1 DEF Chained
    <3>2. CASE n > 0
      <4>1. 1 \in 1 .. n /\ unread # <<>>
        BY <1>3, <3>2
      <4>2. unread[1].at = G
        BY <1>4, <4>1 DEF Chained
      <4>3. QED
        BY <1>9, <4>1, <4>2
    <3>3. QED
      BY <1>3, <3>1, <3>2
  <2>2. unread'[n + 1].next = ERXWRPT'
    BY <1>10
  <2>3. ASSUME NEW i \in 1 .. n + 1, i > 1
        PROVE  unread'[i].at = unread'[i - 1].next
    <3>1. CASE i = n + 1
      <4>1. n \in 1 .. n /\ n \in DOMAIN unread /\ unread # <<>>
        BY <1>3, <2>3, <3>1
      <4>2. QED
        <5>1. unread'[n + 1].at = W
          BY <1>10
        <5>2. unread'[n].next = unread[n].next
          BY <1>9, <4>1
        <5>3. unread[n].next = W
          BY <1>3, <1>4, <4>1 DEF Chained
        <5>4. n + 1 - 1 = n
          BY <1>3
        <5>5. QED
          BY <3>1, <5>1, <5>2, <5>3, <5>4
    <3>2. CASE i # n + 1
      <4>1. i \in 1 .. n /\ i - 1 \in 1 .. n
        BY <1>3, <2>3, <3>2
      <4>2. unread[i].at = unread[i - 1].next
        BY <1>3, <1>4, <2>3, <4>1 DEF Chained
      <4>3. QED
        BY <1>9, <4>1, <4>2
    <3>3. QED
      BY <3>1, <3>2
  <2>4. ASSUME NEW i \in 1 .. n + 1, NEW j \in 1 .. n + 1, i < j
        PROVE  Ahead(G, unread'[i].next) <= Ahead(G, unread'[j].at)
    <3>1. i \in 1 .. n
      BY <1>3, <2>4
    <3>2. CASE j = n + 1
      <4>1. Ahead(G, unread[i].next) <= Ahead(G, W)
        BY <1>3, <1>4, <3>1 DEF Places
      <4>2. unread'[j].at = W /\ unread'[i].next = unread[i].next
        <5>1. unread'[n + 1].at = W
          BY <1>10
        <5>2. unread'[i].next = unread[i].next
          BY <1>9, <3>1
        <5>3. QED
          BY <3>2, <5>1, <5>2
      <4>3. QED
        BY <4>1, <4>2
    <3>3. CASE j # n + 1
      <4>1. j \in 1 .. n
        BY <1>3, <3>3
      <4>2. QED
        BY <1>3, <1>4, <1>9, <2>4, <3>1, <4>1 DEF Chained
    <3>4. QED
      BY <3>2, <3>3
  <2>5. unread' # <<>>
    BY <1>3, <1>10
  <2>6. QED
    BY <1>2, <1>10, <2>1, <2>2, <2>3, <2>4, <2>5 DEF Chained, Ahead
<1>15. QED
  BY <1>2, <1>4, <1>11, <1>12, <1>13, <1>14 DEF Inv, Ring
-----------------------------------------------------------------------------
(* Reading a frame *)

(* What is not before g, as seen from a, is as far from g as it should be. *)
LEMMA Rebase ==
    ASSUME NEW a \in 0 .. RxSize - 1, NEW g \in 0 .. RxSize - 1, NEW b \in 0 .. RxSize - 1,
           Ahead(a, g) <= Ahead(a, b)
    PROVE  Ahead(g, b) = Ahead(a, b) - Ahead(a, g)
BY RingAssumption DEF Ahead

(* packetReceive moves gNextPacketPtr to the second frame, which all       *)
(* distances are measured from now.                                        *)
LEMMA ReceiveInv ==
    ASSUME Inv, packetReceive
    PROVE  Inv'
<1> DEFINE G == gNextPacketPtr
           W == ERXWRPT
           n == Len(unread)
<1>1. pc = "up" /\ pc' = pc /\ RXEN' = RXEN /\ ERXWRPT' = W
  BY DEF packetReceive
<1>2. CASE unread = <<>>
  <2>1. UNCHANGED <<ringVars, RXEN, pc>>
    BY <1>1, <1>2 DEF packetReceive, ringVars
  <2>2. QED
    BY <2>1 DEF Inv, Ring, Pointers, Places, Chained, Ahead, ringVars
<1>3. CASE unread # <<>>
  <2>1. /\ unread \in Seq(Frame) /\ n \in Nat \ {0} /\ DOMAIN unread = 1 .. n
        /\ \A i \in 1 .. n : unread[i] \in Frame
        /\ 1 \in 1 .. n
    BY <1>3 DEF Inv
  <2>2. Pointers /\ Places /\ Chained
    BY <1>1 DEF Inv, Ring
  <2>3. /\ RxSize \in Nat \ {0} /\ G \in 0 .. RxSize - 1 /\ W \in 0 .. RxSize - 1
    BY <2>2, RingAssumption DEF Pointers
  <2>4. gNextPacketPtr' = unread[1].next /\ ERXRDPT' = unread[1].next - 1
    <3>1. unread[1].at = G /\ ~unread[1].torn /\ Head(unread) = unread[1]
      BY <1>3, <2>1, <2>2 DEF Chained, Places
    <3>2. unread[1].next \in 0 .. RxSize - 1 /\ unread[1].next > 0
      BY <2>1, <2>2 DEF Frame, Places
    <3>3. Headers = {[next |-> unread[1].next, size |-> unread[1].size, ok |-> unread[1].ok]}
      BY <3>1 DEF Headers
    <3>4. PICK h \in Headers : gNextPacketPtr' = h.next /\ ERXRDPT' = Release(h)
      BY <1>3 DEF packetReceive
    <3>5. h.next = unread[1].next
      BY <3>3, <3>4
    <3>6. Release(h) = h.next - 1
      <4>1. /\ h.next - 1 \in Nat /\ h.next - 1 < AddressRange /\ ~(h.next - 1 > RxSize - 1)
            /\ AddressRange \in Nat \ {0}
        BY <2>3, <3>2, <3>5, RingAssumption
      <4>2. (h.next - 1 + 0) % AddressRange = h.next - 1 + 0
        BY <4>1, Wraps
      <4>3. QED
        BY <4>1, <4>2 DEF Release
    <3>7. QED
      BY <3>4, <3>5, <3>6
  <2>5. /\ unread' = Tail(unread) /\ unread' \in Seq(Frame)
        /\ Len(unread') = n - 1 /\ DOMAIN unread' = 1 .. n - 1
        /\ \A i \in 1 .. n - 1 : unread'[i] = unread[i + 1]
    <3>1. unread' = Tail(unread)
      BY <1>3 DEF packetReceive
    <3>2. /\ Tail(unread) \in Seq(Frame) /\ Len(Tail(unread)) = n - 1
          /\ \A i \in 1 .. n - 1 : Tail(unread)[i] = unread[i + 1]
      BY <1>3, <2>1
    <3>3. DOMAIN Tail(unread) = 1 .. n - 1
      BY <3>2
    <3>4. QED
      BY <3>1, <3>2, <3>3
  <2> DEFINE H == unread[1].next
  <2>6. /\ H \in 0 .. RxSize - 1 /\ H > 0 /\ H % 2 = 0
        /\ Ahead(G, H) <= Ahead(G, W)
    BY <2>1, <2>2 DEF Frame, Places
  <2>7. Pointers'
    BY <1>1, <2>2, <2>4, <2>6 DEF Pointers
  <2>8. ASSUME NEW i \in 2 .. n
        PROVE  /\ unread[i].at \in 0 .. RxSize - 1 /\ unread[i].next \in 0 .. RxSize - 1
               /\ unread[i].next > 0 /\ unread[i].next % 2 = 0
               /\ Slot(unread[i].size) \in Nat
               /\ Ahead(G, unread[i].next) = Ahead(G, unread[i].at) + Slot(unread[i].size)
               /\ Ahead(G, unread[i].next) <= Ahead(G, W)
               /\ Ahead(G, H) <= Ahead(G, unread[i].at)
               /\ ~unread[i].torn
    <3>1. i \in 1 .. n /\ 1 < i
      BY <2>1
    <3>2. unread[i] \in Frame
      BY <2>1, <3>1
    <3>3. Ahead(G, H) <= Ahead(G, unread[i].at)
      BY <2>1, <2>2, <3>1 DEF Chained
    <3>4. /\ unread[i].next > 0 /\ unread[i].next % 2 = 0
          /\ Ahead(G, unread[i].next) = Ahead(G, unread[i].at) + Slot(unread[i].size)
          /\ Ahead(G, unread[i].next) <= Ahead(G, W)
          /\ ~unread[i].torn
      BY <2>1, <2>2, <3>1 DEF Places
    <3>5. Slot(unread[i].size) \in Nat
      BY <3>2, SlotType DEF Frame
    <3>6. QED
      BY <3>2, <3>3, <3>4, <3>5 DEF Frame
  <2>9. ASSUME NEW i \in 2 .. n
        PROVE  /\ Ahead(H, unread[i].at) = Ahead(G, unread[i].at) - Ahead(G, H)
               /\ Ahead(H, unread[i].next) = Ahead(G, unread[i].next) - Ahead(G, H)
    <3>1. /\ Ahead(G, unread[i].at) \in 0 .. RxSize - 1 /\ Ahead(G, H) \in 0 .. RxSize - 1
      BY <2>3, <2>6, <2>8, AheadType
    <3>2. Ahead(G, H) <= Ahead(G, unread[i].next)
      BY <2>3, <2>8, <3>1
    <3>3. QED
      BY <2>3, <2>6, <2>8, <3>2, Rebase
  <2>10. Ahead(H, W) = Ahead(G, W) - Ahead(G, H)
    BY <2>3, <2>6, Rebase
  <2>11. Ahead(G, W) \in Int /\ Ahead(G, H) \in Int
    BY <2>3, <2>6 DEF Ahead
  <2>12. ASSUME NEW i \in 1 .. n - 1
         PROVE  /\ i + 1 \in 2 .. n
                /\ unread'[i] = unread[i + 1]
    BY <2>1, <2>5
  <2>13. Places'
    <3>1. ASSUME NEW i \in 1 .. n - 1
          PROVE  LET f == unread'[i]
                 IN  /\ f.next > 0 /\ f.next % 2 = 0
                     /\ Ahead(H, f.next) = Ahead(H, f.at) + Slot(f.size)
                     /\ Ahead(H, f.next) <= Ahead(H, W)
                     /\ ~f.torn
      <4> DEFINE j == i + 1
      <4>1. j \in 2 .. n /\ unread'[i] = unread[j]
        BY <2>12
      <4> HIDE DEF j
      <4>2. Ahead(G, unread[j].at) \in Int
        BY SMTT(30), <2>3, <2>8, <4>1 DEF Ahead
      <4>3. /\ Ahead(H, unread[j].next) = Ahead(H, unread[j].at) + Slot(unread[j].size)
            /\ Ahead(H, unread[j].next) <= Ahead(H, W)
        BY SMTT(30), <2>8, <2>9, <2>10, <2>11, <4>1, <4>2
      <4>4. unread[j].next > 0 /\ unread[j].next % 2 = 0 /\ ~unread[j].torn
        BY <2>8, <4>1
      <4>5. QED
        BY <4>1, <4>3, <4>4
    <3>2. QED
      BY <1>1, <2>4, <2>5, <3>1 DEF Places, Ahead
  <2>14. Chained'
    <3>1. unread' = <<>> => W = H
      <4>1. unread' = <<>> => n = 1
        <5>1. Len(<<>>) = 0
          OBVIOUS
        <5>2. unread' = <<>> => n - 1 = 0
          BY <2>5, <5>1
        <5>3. n \in Nat
          BY <2>1
        <5> HIDE DEF n
        <5>4. QED
          BY <5>2, <5>3
      <4>2. QED
        BY <1>3, <2>2, <4>1 DEF Chained
    <3>2. unread' # <<>> => unread'[1].at = H /\ unread'[Len(unread')].next = W
      <4>1. SUFFICES ASSUME unread' # <<>>
                     PROVE  unread'[1].at = H /\ unread'[Len(unread')].next = W
        OBVIOUS
      <4>2. n - 1 \in 1 .. n - 1 /\ 1 \in 1 .. n - 1 /\ 2 \in 1 .. n /\ 2 - 1 = 1 /\ 2 > 1
        BY <2>1, <2>5, <4>1
      <4>3. unread[2].at = H
        BY <2>1, <2>2, <4>2 DEF Chained
      <4>4. unread[n].next = W
        BY <1>3, <2>2 DEF Chained
      <4>5. unread'[1] = unread[2] /\ unread'[n - 1] = unread[n]
        BY <2>1, <2>5, <4>2
      <4>6. QED
        BY <2>5, <4>3, <4>4, <4>5
    <3>3. ASSUME NEW i \in 1 .. n - 1, i > 1
          PROVE  unread'[i].at = unread'[i - 1].next
      <4>1. /\ i + 1 \in 1 .. n /\ i + 1 > 1 /\ (i + 1) - 1 = (i - 1) + 1
            /\ i - 1 \in 1 .. n - 1
        BY <2>1, <3>3
      <4>2. unread[i + 1].at = unread[(i + 1) - 1].next
        BY <2>1, <2>2, <4>1 DEF Chained
      <4>3. unread'[i] = unread[i + 1] /\ unread'[i - 1] = unread[(i - 1) + 1]
        BY <2>5, <4>1
      <4>4. QED
        BY <4>1, <4>2, <4>3
    <3>4. ASSUME NEW i \in 1 .. n - 1, NEW j \in 1 .. n - 1, i < j
          PROVE  Ahead(H, unread'[i].next) <= Ahead(H, unread'[j].at)
      <4> DEFINE k == i + 1
                 l == j + 1
      <4>1. k \in 2 .. n /\ l \in 2 .. n /\ k \in 1 .. n /\ l \in 1 .. n /\ k < l
        BY <2>1, <3>4
      <4>2. unread'[i] = unread[k] /\ unread'[j] = unread[l]
        BY <2>5
      <4> HIDE DEF k, l
      <4>3. Ahead(G, unread[k].next) <= Ahead(G, unread[l].at)
        BY <2>1, <2>2, <4>1 DEF Chained
      <4>4. Ahead(G, unread[k].next) \in Int /\ Ahead(G, unread[l].at) \in Int
        <5>1. unread[k].next \in 0 .. RxSize - 1 /\ unread[l].at \in 0 .. RxSize - 1
          BY <2>8, <4>1
        <5>2. /\ Ahead(G, unread[k].next) \in 0 .. RxSize - 1
              /\ Ahead(G, unread[l].at) \in 0 .. RxSize - 1
          BY <2>3, <5>1, AheadType
        <5>3. QED
          BY <2>3, <5>2
      <4>5. Ahead(H, unread[k].next) <= Ahead(H, unread[l].at)
        BY <2>9, <2>11, <4>1, <4>3, <4>4
      <4>6. QED
        BY <4>2, <4>5
    <3>5. QED
      BY <1>1, <2>4, <2>5, <3>1, <3>2, <3>3, <3>4 DEF Chained, Ahead
  <2>15. QED
    BY <1>1, <2>5, <2>7, <2>13, <2>14 DEF Inv, Ring
<1>4. QED
  BY <1>2, <1>3
-----------------------------------------------------------------------------
(* The theorems *)

(* Nothing else moves the pointers but initialize, which starts over.      *)
LEMMA InvStep ==
    ASSUME Inv, ~EndsAtTop, [Next]_vars
    PROVE  Inv'
<1>1. CASE Arrive
  BY <1>1, ArriveInv
<1>2. CASE packetReceive
  BY <1>2, ReceiveInv
<1>3. CASE initialize
  <2>1. /\ unread' = <<>> /\ ERXWRPT' = 0 /\ gNextPacketPtr' = 0 /\ ERXRDPT' = 0
        /\ pc' = "up"
    BY <1>3 DEF initialize, SoftReset, Rewind
  <2>2. 0 % 2 = 0 /\ 0 \in 0 .. RxSize - 1
    BY RingAssumption
  <2>3. unread' \in Seq(Frame) /\ DOMAIN unread' = {}
    BY <2>1
  <2>4. QED
    BY <2>1, <2>2, <2>3 DEF Inv, Ring, Pointers, Places, Chained
<1>4. CASE doBIST
  <2>1. unread' = <<>> /\ RXEN' = FALSE /\ pc' = "off"
    BY <1>4 DEF doBIST, SoftReset
  <2>2. QED
    BY <2>1 DEF Inv
<1>5. ASSUME UNCHANGED ringVars, pc # "off" \/ RXEN' = RXEN, pc = "off" <=> pc' = "off"
      PROVE  Inv'
  BY <1>5 DEF Inv, Ring, Pointers, Places, Chained, Ahead, ringVars
<1>6. CASE Transmit \/ packetSend \/ SendWait \/ SendNow \/ Touch
  <2>1. UNCHANGED <<ringVars, RXEN>> /\ (pc = "off" <=> pc' = "off")
    BY <1>6 DEF Transmit, packetSend, SendWait, SendNow, Touch
  <2>2. QED
    BY <1>5, <2>1
<1>7. CASE powerDown \/ powerUp
  <2>1. UNCHANGED ringVars /\ pc # "off" /\ pc' # "off"
    BY <1>7 DEF powerDown, powerUp
  <2>2. QED
    BY <1>5, <2>1
<1>8. CASE UNCHANGED vars
  BY <1>5, <1>8 DEF vars
<1>9. QED
  BY <1>1, <1>2, <1>3, <1>4, <1>6, <1>7, <1>8 DEF Next

(* The driver starts with the receiver off.                                *)
LEMMA InvInit == Init => Inv
<1>1. <<>> \in Seq(Frame)
  OBVIOUS
<1>2. QED
  BY <1>1 DEF Init, Inv

(* RxIntact is part of Ring; while the receiver is off, nothing is unread. *)
LEMMA InvHolds ==
    ASSUME Inv
    PROVE  RxIntact
<1>1. SUFFICES ASSUME unread # <<>>
               PROVE  /\ Head(unread).at = gNextPacketPtr
                      /\ \A i \in DOMAIN unread : ~unread[i].torn
  BY DEF RxIntact
<1>2. Places /\ Chained /\ unread \in Seq(Frame)
  BY <1>1 DEF Inv, Ring
<1>3. Head(unread) = unread[1]
  BY <1>1, <1>2
<1>4. QED
  BY <1>1, <1>2, <1>3 DEF Places, Chained

(* As long as no frame ends with the last byte of the ring, no frame is    *)
(* overwritten before packetReceive has read it, and gNextPacketPtr is at  *)
(* the oldest one.                                                         *)
THEOREM RxCorrect == ~EndsAtTop => (Spec => []RxIntact)
<1>1. Init => Inv
  BY InvInit
<1>2. ASSUME ~EndsAtTop
      PROVE  Inv /\ [Next]_vars => Inv'
  BY <1>2, InvStep
<1>3. Inv => RxIntact
  BY InvHolds
<1>4. ASSUME ~EndsAtTop
      PROVE  Spec => []RxIntact
  <2>1. Inv /\ [Next]_vars => Inv'
    BY <1>2, <1>4
  <2>2. QED
    BY <1>1, <1>3, <2>1, PTL DEF Spec
<1>5. QED
  BY <1>4

(* An empty ring has all but one or two of its bytes free.                 *)
LEMMA RoomHolds ==
    ASSUME Inv, \A size \in Sizes : Slot(size) <= RxSize - 2
    PROVE  RoomWhenEmpty
<1>1. SUFFICES ASSUME pc # "off", unread = <<>>, NEW size \in Sizes
               PROVE  Slot(size) <= Free
  BY DEF RoomWhenEmpty
<1>2. Pointers /\ ERXWRPT = gNextPacketPtr
  BY <1>1 DEF Inv, Ring, Chained
<1>3. Ahead(gNextPacketPtr, ERXWRPT) = 0
  BY <1>2 DEF Ahead, Pointers
<1>4. Free \in Nat /\ Free >= RxSize - 2
  BY <1>2, <1>3, FreeRoom
<1>5. Slot(size) \in Nat /\ RxSize \in Nat
  BY SlotType, RingAssumption
<1>6. QED
  BY <1>4, <1>5

(* When every frame has been read there is room for any frame that the     *)
(* ring could ever take: releasing a byte less than was read costs two     *)
(* bytes at most, and they do not add up.                                  *)
THEOREM RoomCorrect ==
    /\ ~EndsAtTop
    /\ \A size \in Sizes : Slot(size) <= RxSize - 2
    => (Spec => []RoomWhenEmpty)
<1>1. Init => Inv
  BY InvInit
<1>2. ASSUME ~EndsAtTop
      PROVE  Inv /\ [Next]_vars => Inv'
  BY <1>2, InvStep
<1>3. ASSUME \A size \in Sizes : Slot(size) <= RxSize - 2
      PROVE  Inv => RoomWhenEmpty
  BY <1>3, RoomHolds
<1>4. ASSUME ~EndsAtTop, \A size \in Sizes : Slot(size) <= RxSize - 2
      PROVE  Spec => []RoomWhenEmpty
  <2>1. Inv /\ [Next]_vars => Inv'
    BY <1>2, <1>4
  <2>2. Inv => RoomWhenEmpty
    BY <1>3, <1>4
  <2>3. QED
    BY <1>1, <2>1, <2>2, PTL DEF Spec
<1>5. QED
  BY <1>4
-----------------------------------------------------------------------------
(* Induction over a script, by its first access for which a statement does *)
(* not hold                                                                *)
(* < as a set of pairs *)
Before == {p \in Nat \X Nat : p[1] < p[2]}
(* The least number principle, which stands for induction here. *)
LEMMA Least ==
    ASSUME NEW T \in SUBSET Nat, T # {}
    PROVE  \E m \in T : \A k \in T : m <= k
<1>1. IsWellFoundedOn(Before, Nat)
  BY NatLessThanWellFounded DEF OpToRel, Before
<1>2. PICK m \in T : \A k \in T : ~(<<k, m>> \in Before)
  BY <1>1, WFMin
<1>3. \A k \in T : ~(k < m)
  BY <1>2 DEF Before
<1>4. QED
  BY <1>3

(* f goes through the first n accesses of a script, from s on. *)
Goes(f, n, script, s) ==
    f = [i \in 0 .. n |-> IF i = 0 THEN s ELSE Access(f[i - 1], script[i])]

(* There is such an f for every n. *)
LEMMA Exists ==
    ASSUME NEW script, NEW s, NEW n \in Nat
    PROVE  \E f : Goes(f, n, script, s)
<1> DEFINE T == {m \in Nat : ~\E f : Goes(f, m, script, s)}
<1>1. SUFFICES ASSUME T # {} PROVE FALSE
  OBVIOUS
<1>2. PICK m \in T : \A k \in T : m <= k
  BY <1>1, Least
<1>3. m # 0
  <2>1. Goes([i \in 0 .. 0 |-> s], 0, script, s)
    BY DEF Goes
  <2>2. QED
    BY <2>1
<1>4. m - 1 \in Nat /\ m - 1 \notin T
  BY <1>2, <1>3
<1>5. PICK g : Goes(g, m - 1, script, s)
  BY <1>4
<1> DEFINE f == [i \in 0 .. m |-> IF i = m THEN Access(g[m - 1], script[m]) ELSE g[i]]
<1>6. Goes(f, m, script, s)
  <2>1. \A i \in 0 .. m : f[i] = IF i = 0 THEN s ELSE Access(f[i - 1], script[i])
    <3>1. TAKE i \in 0 .. m
    <3>2. CASE i = m
      BY <3>2, <1>3, <1>4
    <3>3. CASE i # m
      <4>1. i \in 0 .. m - 1 /\ i - 1 # m
        BY <3>3
      <4>2. f[i] = g[i] /\ (i # 0 => f[i - 1] = g[i - 1])
        BY <4>1, <3>3
      <4>3. QED
        BY <4>1, <4>2, <1>5 DEF Goes
    <3>4. QED
      BY <3>2, <3>3
  <2>2. f = [i \in 0 .. m |-> f[i]]
    OBVIOUS
  <2> HIDE DEF f
  <2>3. QED
    BY <2>1, <2>2 DEF Goes
<1>7. QED
  BY <1>2, <1>6

(* What Run computes is its last value. *)
LEMMA RunIs ==
    ASSUME NEW script, NEW s, Len(script) \in Nat
    PROVE  \E f : Goes(f, Len(script), script, s) /\ Run(script, s) = f[Len(script)]
<1> DEFINE after[i \in 0 .. Len(script)] ==
            IF i = 0 THEN s ELSE Access(after[i - 1], script[i])
<1>1. Run(script, s) = after[Len(script)]
  BY DEF Run
<1>2. Goes(after, Len(script), script, s)
  BY Exists DEF Goes
<1>3. QED
  BY <1>1, <1>2

Registers == Common \cup Bank0 \cup Bank1 \cup Bank2 \cup Bank3
Touched == [reg : Registers, select : BOOLEAN]
Notes == [bank : SUBSET {0, 1}, bsel : SUBSET {0, 1}, stray : BOOLEAN]

(* The note of the bank agrees with the chip, and nothing went wrong.      *)
Settled(s) == s \in Notes /\ s.bank = s.bsel /\ ~s.stray

(* The same, just after an access of reg. *)
SettledAt(s, reg) == Settled(s) /\ (reg \notin Common => s.bank = BankOf(reg))

(* The bits of a register's bank. *)
LEMMA BankType ==
    ASSUME NEW reg \in Registers
    PROVE  BankOf(reg) \in SUBSET {0, 1}
BY DEF Registers, BankOf, Common, Bank0, Bank1, Bank2, Bank3

(* SetBank selects the bank, if the note was right before, or if the bank  *)
(* was selected already.                                                   *)
LEMMA SetBankSettles ==
    ASSUME NEW s \in Notes, NEW reg \in Registers,
           ~s.stray, s.bank = s.bsel \/ BankOf(reg) = s.bsel
    PROVE  LET t == SetBank(s, reg)
           IN  t \in Notes /\ t.bank = BankOf(reg) /\ t.bsel = BankOf(reg) /\ ~t.stray
<1>1. BankOf(reg) \in SUBSET {0, 1}
  BY BankType
<1>2. CASE BankOf(reg) = s.bank
  BY <1>1, <1>2 DEF SetBank, Notes
<1>3. CASE BankOf(reg) # s.bank
  <2>1. (s.bsel \ {0, 1}) \cup BankOf(reg) = BankOf(reg)
    BY <1>1 DEF Notes
  <2>2. SetBank(s, reg) = [s EXCEPT !.bank = BankOf(reg), !.bsel = BankOf(reg)]
    BY <1>3, <2>1 DEF SetBank, Notes
  <2>3. QED
    BY <1>1, <2>2 DEF Notes
<1>4. QED
  BY <1>2, <1>3


(* An access goes to the right bank if it selects one, or if its own was   *)
(* selected.                                                               *)
LEMMA AccessSettles ==
    ASSUME NEW s \in Notes, NEW a \in Touched, ~s.stray,
           \/ a.select /\ (s.bank = s.bsel \/ BankOf(a.reg) = s.bsel)
           \/ s.bank = s.bsel /\ (a.reg \in Common \/ BankOf(a.reg) = s.bank)
    PROVE  SettledAt(Access(s, a), a.reg)
<1> DEFINE t == IF a.select THEN SetBank(s, a.reg) ELSE s
<1>1. a.reg \in Registers /\ a.select \in BOOLEAN
  BY DEF Touched
<1>2. t \in Notes /\ t.bank = t.bsel /\ ~t.stray /\ (a.reg \notin Common => t.bank = BankOf(a.reg))
  <2>1. CASE a.select
    BY <1>1, <2>1, SetBankSettles
  <2>2. CASE ~a.select
    BY <1>1, <2>2
  <2>3. QED
    BY <2>1, <2>2
<1>3. Access(s, a) = [t EXCEPT !.stray = @ \/ (a.reg \notin Common /\ BankOf(a.reg) # t.bsel)]
  BY DEF Access
<1> HIDE DEF t
<1>4. ~(a.reg \notin Common /\ BankOf(a.reg) # t.bsel)
  BY <1>2
<1>5. Access(s, a) = [t EXCEPT !.stray = FALSE]
  BY <1>2, <1>3, <1>4
<1>6. QED
  BY <1>2, <1>5 DEF SettledAt, Settled, Notes

(* A script, after an access of reg, selects a bank where it must: it      *)
(* omits that only for registers of every bank, and for those of the bank  *)
(* of the register before.                                                 *)
Prior(script, i, reg) == IF i = 1 THEN reg ELSE script[i - 1].reg
Follows(script, reg) ==
    \A i \in DOMAIN script :
        \/ script[i].select \/ script[i].reg \in Common
        \/ LET p == Prior(script, i, reg)
           IN  p \notin Common /\ BankOf(script[i].reg) = BankOf(p)

(* Such a script begins after reg and ends with last. *)
Sound(script, reg, last) ==
    /\ script \in Seq(Touched) /\ script # <<>>
    /\ Follows(script, reg)
    /\ script[Len(script)].reg = last

(* From an access that leaves everything settled, a script goes on so.     *)
LEMMA GoesOn ==
    ASSUME NEW script \in Seq(Touched), NEW reg, Follows(script, reg), NEW s, NEW f,
           NEW n \in Nat, n = Len(script), Goes(f, n, script, s), NEW k \in 0 .. n,
           SettledAt(f[k], IF k = 0 THEN reg ELSE script[k].reg)
    PROVE  Settled(f[n])
<1> DEFINE Reg(i) == IF i = 0 THEN reg ELSE script[i].reg
           T == {i \in k .. n : ~SettledAt(f[i], Reg(i))}
<1>1. T = {}
  <2>1. SUFFICES ASSUME T # {} PROVE FALSE
    OBVIOUS
  <2>2. T \in SUBSET Nat
    OBVIOUS
  <2>3. PICK m \in T : \A i \in T : m <= i
    <3> HIDE DEF T
    <3> QED
      BY <2>1, <2>2, Least
  <2>4. m # k /\ m \in k .. n /\ m \in 1 .. n /\ m - 1 \in k .. n
    BY <2>3
  <2>5. SettledAt(f[m - 1], Reg(m - 1))
    BY <2>3, <2>4
  <2>6. f[m] = Access(f[m - 1], script[m])
    BY <2>4 DEF Goes
  <2>7. script[m] \in Touched /\ m \in DOMAIN script /\ Prior(script, m, reg) = Reg(m - 1)
    BY <2>4 DEF Prior
  <2> DEFINE s1 == f[m - 1]
             a == script[m]
             p == Reg(m - 1)
  <2>8. \/ a.select \/ a.reg \in Common
        \/ p \notin Common /\ BankOf(a.reg) = BankOf(p)
    BY <2>7 DEF Follows
  <2>9. s1 \in Notes /\ ~s1.stray /\ s1.bank = s1.bsel /\ (p \notin Common => s1.bank = BankOf(p))
    BY <2>5 DEF SettledAt, Settled
  <2>10. a \in Touched
    BY <2>7
  <2> HIDE DEF s1, a, p
  <2>11. SettledAt(Access(s1, a), a.reg)
    BY <2>8, <2>9, <2>10, AccessSettles
  <2>12. SettledAt(f[m], Reg(m))
    BY <2>4, <2>6, <2>11 DEF s1, a
  <2>13. QED
    BY <2>3, <2>12
<1>2. n \in k .. n
  OBVIOUS
<1>3. SettledAt(f[n], Reg(n))
  BY <1>1, <1>2
<1>4. QED
  BY <1>3 DEF SettledAt

(* Whatever settled state a sound script finds, it leaves one. *)
LEMMA RunSettles ==
    ASSUME NEW script, NEW last, Sound(script, "ESTAT", last), NEW s, Settled(s)
    PROVE  Settled(Run(script, s))
<1>1. script \in Seq(Touched) /\ Len(script) \in Nat /\ Follows(script, "ESTAT")
  BY DEF Sound
<1>2. PICK f : Goes(f, Len(script), script, s) /\ Run(script, s) = f[Len(script)]
  BY <1>1, RunIs
<1>3. 0 \in 0 .. Len(script) /\ f[0] = s
  BY <1>1, <1>2 DEF Goes
<1>4. "ESTAT" \in Common
  BY DEF Common
<1>5. SettledAt(f[0], "ESTAT")
  BY <1>3, <1>4 DEF SettledAt
<1>6. QED
  BY <1>1, <1>2, <1>3, <1>5, GoesOn

(* After a soft reset the first bank is selected, whatever the note says: *)
(* it has to be put right by an access of that bank that goes through      *)
(* SetBank.                                                                *)
Starts(script) ==
    /\ Len(script) >= 2
    /\ script[1] = Op("ESTAT")
    /\ script[2].select /\ BankOf(script[2].reg) = {}

LEMMA RunAfterReset ==
    ASSUME NEW script, NEW last, Sound(script, "ESTAT", last), Starts(script),
           NEW s \in Notes, ~s.stray, s.bsel = {}
    PROVE  Settled(Run(script, s))
<1> DEFINE n == Len(script)
<1>1. script \in Seq(Touched) /\ n \in Nat /\ n >= 2 /\ Follows(script, "ESTAT")
  BY DEF Sound, Starts
<1>2. PICK f : Goes(f, n, script, s) /\ Run(script, s) = f[n]
  BY <1>1, RunIs
<1>3. /\ 0 \in 0 .. n /\ 1 \in 0 .. n /\ 2 \in 0 .. n /\ 2 \in 1 .. n
      /\ script[2] \in Touched
  BY <1>1
<1> HIDE DEF n
<1>4. f[0] = s /\ f[1] = Access(s, script[1]) /\ f[2] = Access(f[1], script[2])
  <2>1. f[0] = s /\ f[1] = Access(f[1 - 1], script[1]) /\ f[2] = Access(f[2 - 1], script[2])
    BY <1>2, <1>3 DEF Goes
  <2>2. QED
    BY <2>1
<1>5. f[1] = s
  <2>1. "ESTAT" \in Common
    BY DEF Common
  <2>2. f[1] = [s EXCEPT !.stray = @ \/ ("ESTAT" \notin Common /\ BankOf("ESTAT") # s.bsel)]
    <3>1. /\ script[1].reg = "ESTAT" /\ ~script[1].select /\ f[1] = Access(s, script[1])
      BY <1>4 DEF Op, Starts
    <3> DEFINE a == script[1]
    <3> HIDE DEF a
    <3>2. a.reg = "ESTAT" /\ ~a.select /\ f[1] = Access(s, a)
      BY <3>1 DEF a
    <3>3. QED
      BY <3>2 DEF Access
  <2>3. f[1] = [s EXCEPT !.stray = FALSE]
    BY <2>1, <2>2 DEF Notes
  <2>4. QED
    BY <2>3 DEF Notes
<1>6. SettledAt(f[2], script[2].reg)
  BY <1>3, <1>4, <1>5, AccessSettles DEF Starts
<1>7. QED
  BY <1>1, <1>2, <1>3, <1>6, GoesOn DEF n

(* Sound scripts one after the other *)
LEMMA Join ==
    ASSUME NEW a, NEW b, NEW p, NEW q, NEW r, Sound(a, p, q), Sound(b, q, r)
    PROVE  Sound(a \o b, p, r) /\ (Starts(a) => Starts(a \o b))
<1> DEFINE m == Len(a)
           n == Len(b)
           c == a \o b
<1>1. /\ a \in Seq(Touched) /\ b \in Seq(Touched) /\ m \in Nat \ {0} /\ n \in Nat \ {0}
      /\ DOMAIN a = 1 .. m /\ DOMAIN b = 1 .. n
      /\ Follows(a, p) /\ Follows(b, q) /\ a[m].reg = q /\ b[n].reg = r
  BY DEF Sound
<1>2. /\ c \in Seq(Touched) /\ Len(c) = m + n /\ DOMAIN c = 1 .. m + n
      /\ \A i \in 1 .. m : c[i] = a[i]
      /\ \A i \in 1 .. n : c[m + i] = b[i]
  BY <1>1
<1> HIDE DEF m, n, c
<1>3. ASSUME NEW i \in 1 .. m + n
      PROVE  \/ c[i].select \/ c[i].reg \in Common
             \/ LET x == Prior(c, i, p)
                IN  x \notin Common /\ BankOf(c[i].reg) = BankOf(x)
  <2>1. CASE i <= m
    <3>1. i \in 1 .. m /\ c[i] = a[i]
      BY <1>1, <1>2, <2>1
    <3>2. Prior(c, i, p) = Prior(a, i, p)
      <4>1. i = 1 \/ i - 1 \in 1 .. m
        BY <1>1, <3>1
      <4>2. i # 1 => c[i - 1] = a[i - 1]
        BY <1>2, <4>1
      <4>3. QED
        BY <4>2 DEF Prior
    <3>3. QED
      BY <1>1, <3>1, <3>2 DEF Follows
  <2>2. CASE i > m
    <3> DEFINE j == i - m
    <3>1. j \in 1 .. n /\ i = m + j
      BY <1>1, <2>2
    <3> HIDE DEF j
    <3>2. c[i] = b[j]
      BY <1>2, <3>1
    <3>3. Prior(c, i, p) = Prior(b, j, q)
      <4>1. CASE j = 1
        <5>1. i # 1 /\ i - 1 = m /\ m \in 1 .. m
          BY <1>1, <3>1, <4>1
        <5>2. c[i - 1].reg = q
          BY <1>1, <1>2, <5>1
        <5>3. QED
          BY <4>1, <5>1, <5>2 DEF Prior
      <4>2. CASE j # 1
        <5>1. i # 1 /\ i - 1 = m + (j - 1) /\ j - 1 \in 1 .. n
          BY <1>1, <3>1, <4>2
        <5>2. c[i - 1] = b[j - 1]
          BY <1>2, <5>1
        <5>3. QED
          BY <4>2, <5>1, <5>2 DEF Prior
      <4>3. QED
        BY <4>1, <4>2
    <3>4. QED
      BY <1>1, <3>1, <3>2, <3>3 DEF Follows
  <2>3. QED
    BY <1>1, <2>1, <2>2
<1>4. Follows(c, p)
  BY <1>2, <1>3 DEF Follows
<1>5. c # <<>> /\ c[Len(c)].reg = r
  <2>1. n \in 1 .. n /\ Len(c) # 0
    BY <1>1, <1>2
  <2>2. c[m + n] = b[n] /\ c # <<>>
    BY <1>2, <2>1
  <2>3. QED
    BY <1>1, <1>2, <2>2
<1>6. Starts(a) => Starts(c)
  <2>1. SUFFICES ASSUME Starts(a) PROVE Starts(c)
    OBVIOUS
  <2>2. m >= 2
    BY <2>1 DEF Starts, m
  <2>3. c[1] = a[1] /\ c[2] = a[2] /\ Len(c) >= 2
    BY <1>1, <1>2, <2>2
  <2>4. QED
    BY <2>1, <2>3 DEF Starts
<1>7. QED
  BY <1>2, <1>4, <1>5, <1>6 DEF Sound, c

(* A script that begins with ESTAT, and goes on in the first bank.         *)
LEMMA Opening ==
    ASSUME NEW b \in Seq(Touched), Len(b) >= 1, b[1].select, BankOf(b[1].reg) = {}
    PROVE  Starts(<<Op("ESTAT")>> \o b)
<1> DEFINE c == <<Op("ESTAT")>> \o b
<1>1. Len(c) = 1 + Len(b) /\ c[1] = Op("ESTAT") /\ c[2] = b[1]
  <2>1. <<Op("ESTAT")>> \in Seq({Op("ESTAT")}) /\ Len(<<Op("ESTAT")>>) = 1
    OBVIOUS
  <2>2. QED
    BY <2>1
<1>2. QED
  BY <1>1 DEF Starts

(* What goes through SetBank is right everywhere. *)
LEMMA ViasSound ==
    ASSUME NEW regs \in Seq(Registers), regs # <<>>, NEW p
    PROVE  Sound(Vias(regs), p, regs[Len(regs)])
<1> DEFINE n == Len(regs)
           c == [i \in 1 .. n |-> Via(regs[i])]
<1>1. n \in Nat /\ DOMAIN regs = 1 .. n /\ n \in 1 .. n /\ \A i \in 1 .. n : regs[i] \in Registers
  OBVIOUS
<1>2. Vias(regs) = c
  BY <1>1 DEF Vias
<1>3. \A i \in 1 .. n : c[i] \in Touched /\ c[i].select = TRUE /\ c[i].reg = regs[i]
  BY <1>1 DEF Via, Touched
<1> HIDE DEF n
<1>4. c \in Seq(Touched) /\ Len(c) = n /\ DOMAIN c = 1 .. n
  BY <1>1, <1>3
<1> HIDE DEF c
<1>5. c # <<>>
  BY <1>1, <1>4
<1>6. c[Len(c)].reg = regs[n]
  BY <1>1, <1>3, <1>4
<1>7. QED
  BY <1>2, <1>3, <1>4, <1>5, <1>6 DEF Sound, Follows, n

(* What does not is right after a register of the same bank, and for those *)
(* of every bank.                                                          *)
LEMMA OpsSound ==
    ASSUME NEW regs \in Seq(Registers), regs # <<>>, NEW p,
           \A i \in 1 .. Len(regs) :
               \/ regs[i] \in Common
               \/ LET x == IF i = 1 THEN p ELSE regs[i - 1]
                  IN  x \notin Common /\ BankOf(regs[i]) = BankOf(x)
    PROVE  Sound(Ops(regs), p, regs[Len(regs)])
<1> DEFINE n == Len(regs)
           c == [i \in 1 .. n |-> Op(regs[i])]
<1>1. n \in Nat /\ DOMAIN regs = 1 .. n /\ n \in 1 .. n /\ \A i \in 1 .. n : regs[i] \in Registers
  OBVIOUS
<1>2. Ops(regs) = c
  BY <1>1 DEF Ops
<1>3. \A i \in 1 .. n : c[i] \in Touched /\ c[i].reg = regs[i]
  BY <1>1 DEF Op, Touched
<1>4. \A i \in 1 .. n : \/ regs[i] \in Common
                        \/ LET x == IF i = 1 THEN p ELSE regs[i - 1]
                           IN  x \notin Common /\ BankOf(regs[i]) = BankOf(x)
  OBVIOUS
<1> HIDE DEF n
<1>5. c \in Seq(Touched) /\ Len(c) = n /\ DOMAIN c = 1 .. n
  BY <1>1, <1>3
<1> HIDE DEF c
<1>6. \A i \in 1 .. n : Prior(c, i, p) = IF i = 1 THEN p ELSE regs[i - 1]
  <2>1. \A i \in 1 .. n : i # 1 => i - 1 \in 1 .. n
    BY <1>1
  <2>2. QED
    BY <1>3, <2>1 DEF Prior
<1>7. c # <<>>
  BY <1>1, <1>5
<1>8. c[Len(c)].reg = regs[n]
  BY <1>1, <1>3, <1>5
<1>9. Follows(c, p)
  BY <1>3, <1>4, <1>5, <1>6 DEF Follows
<1>10. QED
  BY <1>2, <1>5, <1>7, <1>8, <1>9 DEF Sound, n

(* The scripts of the driver *)

(* The registers that the scripts name, and their banks. *)
LEMMA Names ==
    /\ Common \subseteq Registers
    /\ \A reg \in {"ERXST", "ERXRDPT", "ERXND", "ETXST", "ETXND", "ERXFCON", "EPMM0", "EPMCS",
                   "MACON1", "MACON2", "MACON3", "MAIPG", "MABBIPG", "MAMXFL", "MAADR",
                   "MIREGADR", "MICMD", "MIWR", "MIRD", "MISTAT", "EREVID", "EDMAST", "EDMAND",
                   "EBSTCON", "EDMACS", "EBSTCS", "EBSTSD", "EPKTCNT", "ERDPT", "EWRPT"} :
         reg \in Registers \ Common
    /\ \A reg \in {"ESTAT", "ECON1", "ECON2", "EIE", "EIR"} : reg \in Common
    /\ BankOf("MACON3") = BankOf("MACON2")
    /\ BankOf("EBSTCS") = BankOf("EBSTCON")
    /\ BankOf("ERXST") = {} /\ BankOf("ECON1") = {}
BY DEF Registers, Common, Bank0, Bank1, Bank2, Bank3, BankOf

(* writePhy *)
LEMMA WritePhySound == ASSUME NEW p PROVE Sound(writePhy, p, "MISTAT")
<1> DEFINE regs == <<"MIREGADR", "MIWR", "MISTAT">>
<1>1. regs \in Seq(Registers) /\ regs # <<>> /\ regs[Len(regs)] = "MISTAT"
  BY Names
<1> HIDE DEF regs
<1>2. Sound(Vias(regs), p, "MISTAT")
  BY <1>1, ViasSound
<1>3. QED
  BY <1>2 DEF writePhy, regs

(* initialize *)
Setup ==
    Ops(<<"ESTAT">>)
    \o Vias(<<"ERXST", "ERXRDPT", "ERXND", "ETXST", "ETXND", "ERXFCON",
              "EPMM0", "EPMCS", "MACON1", "MACON2">>)
    \o Ops(<<"MACON3">>)
    \o Vias(<<"MAIPG", "MABBIPG", "MAMXFL", "MAADR">>)
    \o writePhy
    \o Vias(<<"ECON1">>) \o Ops(<<"EIE", "ECON1">>) \o Vias(<<"EREVID">>)

LEMMA SetupSound == Sound(Setup, "ESTAT", "EREVID") /\ Starts(Setup)
<1> DEFINE r1 == <<"ESTAT">>
           r2 == <<"ERXST", "ERXRDPT", "ERXND", "ETXST", "ETXND", "ERXFCON",
                   "EPMM0", "EPMCS", "MACON1", "MACON2">>
           r3 == <<"MACON3">>
           r4 == <<"MAIPG", "MABBIPG", "MAMXFL", "MAADR">>
           r6 == <<"ECON1">>
           r7 == <<"EIE", "ECON1">>
           r8 == <<"EREVID">>
<1>1. Sound(Ops(r1), "ESTAT", "ESTAT")
  <2>1. r1 \in Seq(Registers) /\ r1 # <<>> /\ r1[Len(r1)] = "ESTAT"
        /\ \A i \in 1 .. Len(r1) : r1[i] \in Common
    BY Names
  <2> HIDE DEF r1
  <2>2. QED
    BY <2>1, OpsSound
<1>2. Sound(Vias(r2), "ESTAT", "MACON2")
  <2>1. r2 \in Seq(Registers) /\ r2 # <<>> /\ r2[Len(r2)] = "MACON2"
    BY Names
  <2> HIDE DEF r2
  <2>2. QED
    BY <2>1, ViasSound
<1>3. Sound(Ops(r3), "MACON2", "MACON3")
  <2>1. /\ r3 \in Seq(Registers) /\ r3 # <<>> /\ r3[Len(r3)] = "MACON3"
        /\ \A i \in 1 .. Len(r3) : i = 1 /\ r3[i] = "MACON3"
    BY Names
  <2>2. "MACON2" \notin Common /\ BankOf("MACON3") = BankOf("MACON2")
    BY Names
  <2> HIDE DEF r3
  <2>3. QED
    BY <2>1, <2>2, OpsSound
<1>4. Sound(Vias(r4), "MACON3", "MAADR")
  <2>1. r4 \in Seq(Registers) /\ r4 # <<>> /\ r4[Len(r4)] = "MAADR"
    BY Names
  <2> HIDE DEF r4
  <2>2. QED
    BY <2>1, ViasSound
<1>5. Sound(writePhy, "MAADR", "MISTAT")
  BY WritePhySound
<1>6. Sound(Vias(r6), "MISTAT", "ECON1")
  <2>1. r6 \in Seq(Registers) /\ r6 # <<>> /\ r6[Len(r6)] = "ECON1"
    BY Names
  <2> HIDE DEF r6
  <2>2. QED
    BY <2>1, ViasSound
<1>7. Sound(Ops(r7), "ECON1", "ECON1")
  <2>1. /\ r7 \in Seq(Registers) /\ r7 # <<>> /\ r7[Len(r7)] = "ECON1"
        /\ \A i \in 1 .. Len(r7) : r7[i] \in Common
    BY Names
  <2> HIDE DEF r7
  <2>2. QED
    BY <2>1, OpsSound
<1>8. Sound(Vias(r8), "ECON1", "EREVID")
  <2>1. r8 \in Seq(Registers) /\ r8 # <<>> /\ r8[Len(r8)] = "EREVID"
    BY Names
  <2> HIDE DEF r8
  <2>2. QED
    BY <2>1, ViasSound
<1>9. Starts(Ops(r1) \o Vias(r2))
  <2>1. /\ Ops(r1) = <<Op("ESTAT")>> 
        /\ Vias(r2)[1] = Via("ERXST") /\ Len(Vias(r2)) = 10 /\ Vias(r2) \in Seq(Touched)
    <3>1. Ops(r1) = <<Op("ESTAT")>> 
      BY DEF Ops
    <3>2. Vias(r2)[1] = Via("ERXST")
      BY DEF Vias
    <3>3. Len(Vias(r2)) = 10
      BY DEF Vias
    <3>4. QED
      BY <1>2, <3>1, <3>2, <3>3 DEF Sound
  <2>2. Via("ERXST").select /\ Via("ERXST").reg = "ERXST"
    BY DEF Via
  <2>3. QED
    BY <2>1, <2>2, Names DEF Starts
<1> HIDE DEF r1, r2, r3, r4, r6, r7, r8
<1>10. Sound(Ops(r1) \o Vias(r2) \o Ops(r3) \o Vias(r4) \o writePhy, "ESTAT", "MISTAT")
       /\ Starts(Ops(r1) \o Vias(r2) \o Ops(r3) \o Vias(r4) \o writePhy)
  BY <1>1, <1>2, <1>3, <1>4, <1>5, <1>9, Join
<1>11. Sound(Ops(r1) \o Vias(r2) \o Ops(r3) \o Vias(r4) \o writePhy
             \o Vias(r6) \o Ops(r7) \o Vias(r8), "ESTAT", "EREVID")
       /\ Starts(Ops(r1) \o Vias(r2) \o Ops(r3) \o Vias(r4) \o writePhy
                 \o Vias(r6) \o Ops(r7) \o Vias(r8))
  <2> DEFINE front == Ops(r1) \o Vias(r2) \o Ops(r3) \o Vias(r4) \o writePhy
  <2>1. Sound(front, "ESTAT", "MISTAT") /\ Starts(front)
    BY <1>10
  <2> HIDE DEF front
  <2>2. /\ Sound(front \o Vias(r6) \o Ops(r7) \o Vias(r8), "ESTAT", "EREVID")
        /\ Starts(front \o Vias(r6) \o Ops(r7) \o Vias(r8))
    BY <1>6, <1>7, <1>8, <2>1, Join
  <2>3. QED
    BY <2>2 DEF front
<1>12. QED
  BY <1>11 DEF Setup, r1, r2, r3, r4, r6, r7, r8

(* doBIST, and its second half, which begins in the bank of EBSTCS. *)
LEMMA SelfTest1Sound == Sound(SelfTest1, "ESTAT", "EBSTCS") /\ Starts(SelfTest1)
<1> DEFINE r1 == <<"ESTAT">>
           r2 == <<"ECON1", "EDMAST", "EDMAND", "ERXND", "EBSTCON", "EBSTCON">>
           r3 == <<"EBSTCON", "EBSTCON", "ECON1">>
           r4 == <<"EDMACS">>
           r5 == <<"ECON1">>
           r6 == <<"EDMACS", "EBSTCS">>
<1>1. Sound(Ops(r1), "ESTAT", "ESTAT")
  <2>1. /\ r1 \in Seq(Registers) /\ r1 # <<>> /\ r1[Len(r1)] = "ESTAT"
        /\ \A i \in 1 .. Len(r1) : r1[i] \in Common
    BY Names
  <2> HIDE DEF r1
  <2>2. QED
    BY <2>1, OpsSound
<1>2. Sound(Vias(r2), "ESTAT", "EBSTCON")
  <2>1. r2 \in Seq(Registers) /\ r2 # <<>> /\ r2[Len(r2)] = "EBSTCON"
    BY Names
  <2> HIDE DEF r2
  <2>2. QED
    BY <2>1, ViasSound
<1>3. Sound(Ops(r3), "EBSTCON", "ECON1")
  <2>1. r3 \in Seq(Registers) /\ r3 # <<>> /\ r3[Len(r3)] = "ECON1"
    BY Names
  <2>2. \A i \in 1 .. Len(r3) :
          \/ r3[i] \in Common
          \/ r3[i] = "EBSTCON" /\ (i > 1 => r3[i - 1] = "EBSTCON")
    BY Names
  <2>3. /\ "EBSTCON" \notin Common /\ BankOf("EBSTCON") = BankOf("EBSTCON")
        /\ "EBSTCON" \notin Common
    BY Names
  <2> HIDE DEF r3
  <2>4. \A i \in 1 .. Len(r3) : i = 1 \/ i > 1
    OBVIOUS
  <2>5. QED
    BY <2>1, <2>2, <2>3, <2>4, OpsSound
<1>4. Sound(Vias(r4), "ECON1", "EDMACS")
  <2>1. r4 \in Seq(Registers) /\ r4 # <<>> /\ r4[Len(r4)] = "EDMACS"
    BY Names
  <2> HIDE DEF r4
  <2>2. QED
    BY <2>1, ViasSound
<1>5. Sound(Ops(r5), "EDMACS", "ECON1")
  <2>1. /\ r5 \in Seq(Registers) /\ r5 # <<>> /\ r5[Len(r5)] = "ECON1"
        /\ \A i \in 1 .. Len(r5) : r5[i] \in Common
    BY Names
  <2> HIDE DEF r5
  <2>2. QED
    BY <2>1, OpsSound
<1>6. Sound(Vias(r6), "ECON1", "EBSTCS")
  <2>1. r6 \in Seq(Registers) /\ r6 # <<>> /\ r6[Len(r6)] = "EBSTCS"
    BY Names
  <2> HIDE DEF r6
  <2>2. QED
    BY <2>1, ViasSound
<1>7. Starts(Ops(r1) \o Vias(r2))
  <2>1. Ops(r1) = <<Op("ESTAT")>>
    BY DEF Ops
  <2>2. Vias(r2)[1] = Via("ECON1")
    BY DEF Vias
  <2>3. Len(Vias(r2)) = 6
    BY DEF Vias
  <2>4. Via("ECON1").select /\ Via("ECON1").reg = "ECON1"
    BY DEF Via
  <2>5. Vias(r2) \in Seq(Touched)
    BY <1>2 DEF Sound
  <2> HIDE DEF r1, r2
  <2>6. QED
    BY <2>1, <2>2, <2>3, <2>4, <2>5, Names, Opening
<1> HIDE DEF r1, r2, r3, r4, r5, r6
<1>8. /\ Sound(Ops(r1) \o Vias(r2) \o Ops(r3) \o Vias(r4) \o Ops(r5) \o Vias(r6), "ESTAT", "EBSTCS")
       /\ Starts(Ops(r1) \o Vias(r2) \o Ops(r3) \o Vias(r4) \o Ops(r5) \o Vias(r6))
  BY <1>1, <1>2, <1>3, <1>4, <1>5, <1>6, <1>7, Join
<1>9. QED
  BY <1>8 DEF SelfTest1, r1, r2, r3, r4, r5, r6

LEMMA SelfTest2Sound == Sound(SelfTest2, "EBSTCS", "EBSTCS")
<1> DEFINE r1 == <<"EBSTCON">>
           r2 == <<"EBSTSD", "EBSTCON">>
           r3 == <<"EBSTCON", "EBSTCON", "ECON1">>
           r4 == <<"EDMACS">>
           r5 == <<"ECON1">>
           r6 == <<"EDMACS", "EBSTCS">>
<1>1. Sound(Ops(r1), "EBSTCS", "EBSTCON")
  <2>1. r1 \in Seq(Registers) /\ r1 # <<>> /\ r1[Len(r1)] = "EBSTCON"
    BY Names
  <2>2. \A i \in 1 .. Len(r1) :
          \/ r1[i] \in Common
          \/ r1[i] = "EBSTCON" /\ (i > 1 => r1[i - 1] = "EBSTCON")
    BY Names
  <2>3. /\ "EBSTCS" \notin Common /\ BankOf("EBSTCON") = BankOf("EBSTCS")
        /\ "EBSTCON" \notin Common
    BY Names
  <2> HIDE DEF r1
  <2>4. \A i \in 1 .. Len(r1) : i = 1 \/ i > 1
    OBVIOUS
  <2>5. QED
    BY <2>1, <2>2, <2>3, <2>4, OpsSound
<1>2. Sound(Vias(r2), "EBSTCON", "EBSTCON")
  <2>1. r2 \in Seq(Registers) /\ r2 # <<>> /\ r2[Len(r2)] = "EBSTCON"
    BY Names
  <2> HIDE DEF r2
  <2>2. QED
    BY <2>1, ViasSound
<1>3. Sound(Ops(r3), "EBSTCON", "ECON1")
  <2>1. r3 \in Seq(Registers) /\ r3 # <<>> /\ r3[Len(r3)] = "ECON1"
    BY Names
  <2>2. \A i \in 1 .. Len(r3) :
          \/ r3[i] \in Common
          \/ r3[i] = "EBSTCON" /\ (i > 1 => r3[i - 1] = "EBSTCON")
    BY Names
  <2>3. /\ "EBSTCON" \notin Common /\ BankOf("EBSTCON") = BankOf("EBSTCON")
        /\ "EBSTCON" \notin Common
    BY Names
  <2> HIDE DEF r3
  <2>4. \A i \in 1 .. Len(r3) : i = 1 \/ i > 1
    OBVIOUS
  <2>5. QED
    BY <2>1, <2>2, <2>3, <2>4, OpsSound
<1>4. Sound(Vias(r4), "ECON1", "EDMACS")
  <2>1. r4 \in Seq(Registers) /\ r4 # <<>> /\ r4[Len(r4)] = "EDMACS"
    BY Names
  <2> HIDE DEF r4
  <2>2. QED
    BY <2>1, ViasSound
<1>5. Sound(Ops(r5), "EDMACS", "ECON1")
  <2>1. /\ r5 \in Seq(Registers) /\ r5 # <<>> /\ r5[Len(r5)] = "ECON1"
        /\ \A i \in 1 .. Len(r5) : r5[i] \in Common
    BY Names
  <2> HIDE DEF r5
  <2>2. QED
    BY <2>1, OpsSound
<1>6. Sound(Vias(r6), "ECON1", "EBSTCS")
  <2>1. r6 \in Seq(Registers) /\ r6 # <<>> /\ r6[Len(r6)] = "EBSTCS"
    BY Names
  <2> HIDE DEF r6
  <2>2. QED
    BY <2>1, ViasSound
<1> HIDE DEF r1, r2, r3, r4, r5, r6
<1>7. Sound(Ops(r1) \o Vias(r2) \o Ops(r3) \o Vias(r4) \o Ops(r5) \o Vias(r6), "EBSTCS", "EBSTCS")
  BY <1>1, <1>2, <1>3, <1>4, <1>5, <1>6, Join
<1>8. QED
  BY <1>7 DEF SelfTest2, r1, r2, r3, r4, r5, r6

(* What the other functions access *)
LEMMA PhySound == Sound(readPhyByte, "ESTAT", "MIRD")
<1> DEFINE r1 == <<"MIREGADR", "MICMD", "MISTAT", "MICMD", "MIRD">>
<1>1. Sound(Vias(r1), "ESTAT", "MIRD")
  <2>1. r1 \in Seq(Registers) /\ r1 # <<>> /\ r1[Len(r1)] = "MIRD"
    BY Names
  <2> HIDE DEF r1
  <2>2. QED
    BY <2>1, ViasSound
<1> HIDE DEF r1
<1>2. Sound(Vias(r1), "ESTAT", "MIRD")
  BY <1>1, Join
<1>3. QED
  BY <1>2 DEF readPhyByte, r1

LEMMA PollSound == Sound(Vias(<<"EPKTCNT">>), "ESTAT", "EPKTCNT")
<1> DEFINE r1 == <<"EPKTCNT">>
<1>1. Sound(Vias(r1), "ESTAT", "EPKTCNT")
  <2>1. r1 \in Seq(Registers) /\ r1 # <<>> /\ r1[Len(r1)] = "EPKTCNT"
    BY Names
  <2> HIDE DEF r1
  <2>2. QED
    BY <2>1, ViasSound
<1> HIDE DEF r1
<1>2. Sound(Vias(r1), "ESTAT", "EPKTCNT")
  BY <1>1, Join
<1>3. QED
  BY <1>2 DEF r1

LEMMA ReceiveSound == Sound(Vias(<<"EPKTCNT", "ERDPT", "ERXRDPT">>) \o Ops(<<"ECON2">>), "ESTAT", "ECON2")
<1> DEFINE r1 == <<"EPKTCNT", "ERDPT", "ERXRDPT">>
           r2 == <<"ECON2">>
<1>1. Sound(Vias(r1), "ESTAT", "ERXRDPT")
  <2>1. r1 \in Seq(Registers) /\ r1 # <<>> /\ r1[Len(r1)] = "ERXRDPT"
    BY Names
  <2> HIDE DEF r1
  <2>2. QED
    BY <2>1, ViasSound
<1>2. Sound(Ops(r2), "ERXRDPT", "ECON2")
  <2>1. /\ r2 \in Seq(Registers) /\ r2 # <<>> /\ r2[Len(r2)] = "ECON2"
        /\ \A i \in 1 .. Len(r2) : r2[i] \in Common
    BY Names
  <2> HIDE DEF r2
  <2>2. QED
    BY <2>1, OpsSound
<1> HIDE DEF r1, r2
<1>3. Sound(Vias(r1) \o Ops(r2), "ESTAT", "ECON2")
  BY <1>1, <1>2, Join
<1>4. QED
  BY <1>3 DEF r1, r2

LEMMA WaitSound == Sound(Ops(<<"ECON1">>) \o Vias(<<"EIR">>), "ESTAT", "EIR")
<1> DEFINE r1 == <<"ECON1">>
           r2 == <<"EIR">>
<1>1. Sound(Ops(r1), "ESTAT", "ECON1")
  <2>1. /\ r1 \in Seq(Registers) /\ r1 # <<>> /\ r1[Len(r1)] = "ECON1"
        /\ \A i \in 1 .. Len(r1) : r1[i] \in Common
    BY Names
  <2> HIDE DEF r1
  <2>2. QED
    BY <2>1, OpsSound
<1>2. Sound(Vias(r2), "ECON1", "EIR")
  <2>1. r2 \in Seq(Registers) /\ r2 # <<>> /\ r2[Len(r2)] = "EIR"
    BY Names
  <2> HIDE DEF r2
  <2>2. QED
    BY <2>1, ViasSound
<1> HIDE DEF r1, r2
<1>3. Sound(Ops(r1) \o Vias(r2), "ESTAT", "EIR")
  BY <1>1, <1>2, Join
<1>4. QED
  BY <1>3 DEF r1, r2

LEMMA WaitResetSound == Sound(Ops(<<"ECON1">>) \o Vias(<<"EIR">>) \o Ops(<<"ECON1", "ECON1">>), "ESTAT", "ECON1")
<1> DEFINE r1 == <<"ECON1">>
           r2 == <<"EIR">>
           r3 == <<"ECON1", "ECON1">>
<1>1. Sound(Ops(r1), "ESTAT", "ECON1")
  <2>1. /\ r1 \in Seq(Registers) /\ r1 # <<>> /\ r1[Len(r1)] = "ECON1"
        /\ \A i \in 1 .. Len(r1) : r1[i] \in Common
    BY Names
  <2> HIDE DEF r1
  <2>2. QED
    BY <2>1, OpsSound
<1>2. Sound(Vias(r2), "ECON1", "EIR")
  <2>1. r2 \in Seq(Registers) /\ r2 # <<>> /\ r2[Len(r2)] = "EIR"
    BY Names
  <2> HIDE DEF r2
  <2>2. QED
    BY <2>1, ViasSound
<1>3. Sound(Ops(r3), "EIR", "ECON1")
  <2>1. /\ r3 \in Seq(Registers) /\ r3 # <<>> /\ r3[Len(r3)] = "ECON1"
        /\ \A i \in 1 .. Len(r3) : r3[i] \in Common
    BY Names
  <2> HIDE DEF r3
  <2>2. QED
    BY <2>1, OpsSound
<1> HIDE DEF r1, r2, r3
<1>4. Sound(Ops(r1) \o Vias(r2) \o Ops(r3), "ESTAT", "ECON1")
  BY <1>1, <1>2, <1>3, Join
<1>5. QED
  BY <1>4 DEF r1, r2, r3

LEMMA SendSound == Sound(Ops(<<"ECON1">>) \o Vias(<<"EWRPT", "ETXND">>) \o Ops(<<"ECON1">>), "ESTAT", "ECON1")
<1> DEFINE r1 == <<"ECON1">>
           r2 == <<"EWRPT", "ETXND">>
           r3 == <<"ECON1">>
<1>1. Sound(Ops(r1), "ESTAT", "ECON1")
  <2>1. /\ r1 \in Seq(Registers) /\ r1 # <<>> /\ r1[Len(r1)] = "ECON1"
        /\ \A i \in 1 .. Len(r1) : r1[i] \in Common
    BY Names
  <2> HIDE DEF r1
  <2>2. QED
    BY <2>1, OpsSound
<1>2. Sound(Vias(r2), "ECON1", "ETXND")
  <2>1. r2 \in Seq(Registers) /\ r2 # <<>> /\ r2[Len(r2)] = "ETXND"
    BY Names
  <2> HIDE DEF r2
  <2>2. QED
    BY <2>1, ViasSound
<1>3. Sound(Ops(r3), "ETXND", "ECON1")
  <2>1. /\ r3 \in Seq(Registers) /\ r3 # <<>> /\ r3[Len(r3)] = "ECON1"
        /\ \A i \in 1 .. Len(r3) : r3[i] \in Common
    BY Names
  <2> HIDE DEF r3
  <2>2. QED
    BY <2>1, OpsSound
<1> HIDE DEF r1, r2, r3
<1>4. Sound(Ops(r1) \o Vias(r2) \o Ops(r3), "ESTAT", "ECON1")
  BY <1>1, <1>2, <1>3, Join
<1>5. QED
  BY <1>4 DEF r1, r2, r3

LEMMA CopyoutSound == Sound(Vias(<<"EWRPT">>), "ESTAT", "EWRPT")
<1> DEFINE r1 == <<"EWRPT">>
<1>1. Sound(Vias(r1), "ESTAT", "EWRPT")
  <2>1. r1 \in Seq(Registers) /\ r1 # <<>> /\ r1[Len(r1)] = "EWRPT"
    BY Names
  <2> HIDE DEF r1
  <2>2. QED
    BY <2>1, ViasSound
<1> HIDE DEF r1
<1>2. Sound(Vias(r1), "ESTAT", "EWRPT")
  BY <1>1, Join
<1>3. QED
  BY <1>2 DEF r1

LEMMA CopyinSound == Sound(Vias(<<"ERDPT">>), "ESTAT", "ERDPT")
<1> DEFINE r1 == <<"ERDPT">>
<1>1. Sound(Vias(r1), "ESTAT", "ERDPT")
  <2>1. r1 \in Seq(Registers) /\ r1 # <<>> /\ r1[Len(r1)] = "ERDPT"
    BY Names
  <2> HIDE DEF r1
  <2>2. QED
    BY <2>1, ViasSound
<1> HIDE DEF r1
<1>2. Sound(Vias(r1), "ESTAT", "ERDPT")
  BY <1>1, Join
<1>3. QED
  BY <1>2 DEF r1

LEMMA BroadcastSound == Sound(Vias(<<"ERXFCON">>), "ESTAT", "ERXFCON")
<1> DEFINE r1 == <<"ERXFCON">>
<1>1. Sound(Vias(r1), "ESTAT", "ERXFCON")
  <2>1. r1 \in Seq(Registers) /\ r1 # <<>> /\ r1[Len(r1)] = "ERXFCON"
    BY Names
  <2> HIDE DEF r1
  <2>2. QED
    BY <2>1, ViasSound
<1> HIDE DEF r1
<1>2. Sound(Vias(r1), "ESTAT", "ERXFCON")
  BY <1>1, Join
<1>3. QED
  BY <1>2 DEF r1

LEMMA SleepSound == Sound(Ops(<<"ECON1">>) \o Vias(<<"ESTAT">>), "ESTAT", "ESTAT")
<1> DEFINE r1 == <<"ECON1">>
           r2 == <<"ESTAT">>
<1>1. Sound(Ops(r1), "ESTAT", "ECON1")
  <2>1. /\ r1 \in Seq(Registers) /\ r1 # <<>> /\ r1[Len(r1)] = "ECON1"
        /\ \A i \in 1 .. Len(r1) : r1[i] \in Common
    BY Names
  <2> HIDE DEF r1
  <2>2. QED
    BY <2>1, OpsSound
<1>2. Sound(Vias(r2), "ECON1", "ESTAT")
  <2>1. r2 \in Seq(Registers) /\ r2 # <<>> /\ r2[Len(r2)] = "ESTAT"
    BY Names
  <2> HIDE DEF r2
  <2>2. QED
    BY <2>1, ViasSound
<1> HIDE DEF r1, r2
<1>3. Sound(Ops(r1) \o Vias(r2), "ESTAT", "ESTAT")
  BY <1>1, <1>2, Join
<1>4. QED
  BY <1>3 DEF r1, r2

LEMMA AsleepSound == Sound(Vias(<<"ECON1">>) \o Ops(<<"ECON2", "ECON2">>), "ESTAT", "ECON2")
<1> DEFINE r1 == <<"ECON1">>
           r2 == <<"ECON2", "ECON2">>
<1>1. Sound(Vias(r1), "ESTAT", "ECON1")
  <2>1. r1 \in Seq(Registers) /\ r1 # <<>> /\ r1[Len(r1)] = "ECON1"
    BY Names
  <2> HIDE DEF r1
  <2>2. QED
    BY <2>1, ViasSound
<1>2. Sound(Ops(r2), "ECON1", "ECON2")
  <2>1. /\ r2 \in Seq(Registers) /\ r2 # <<>> /\ r2[Len(r2)] = "ECON2"
        /\ \A i \in 1 .. Len(r2) : r2[i] \in Common
    BY Names
  <2> HIDE DEF r2
  <2>2. QED
    BY <2>1, OpsSound
<1> HIDE DEF r1, r2
<1>3. Sound(Vias(r1) \o Ops(r2), "ESTAT", "ECON2")
  BY <1>1, <1>2, Join
<1>4. QED
  BY <1>3 DEF r1, r2

LEMMA WakeSound == Sound(Ops(<<"ECON2">>) \o Vias(<<"ESTAT">>) \o Ops(<<"ECON1">>), "ESTAT", "ECON1")
<1> DEFINE r1 == <<"ECON2">>
           r2 == <<"ESTAT">>
           r3 == <<"ECON1">>
<1>1. Sound(Ops(r1), "ESTAT", "ECON2")
  <2>1. /\ r1 \in Seq(Registers) /\ r1 # <<>> /\ r1[Len(r1)] = "ECON2"
        /\ \A i \in 1 .. Len(r1) : r1[i] \in Common
    BY Names
  <2> HIDE DEF r1
  <2>2. QED
    BY <2>1, OpsSound
<1>2. Sound(Vias(r2), "ECON2", "ESTAT")
  <2>1. r2 \in Seq(Registers) /\ r2 # <<>> /\ r2[Len(r2)] = "ESTAT"
    BY Names
  <2> HIDE DEF r2
  <2>2. QED
    BY <2>1, ViasSound
<1>3. Sound(Ops(r3), "ESTAT", "ECON1")
  <2>1. /\ r3 \in Seq(Registers) /\ r3 # <<>> /\ r3[Len(r3)] = "ECON1"
        /\ \A i \in 1 .. Len(r3) : r3[i] \in Common
    BY Names
  <2> HIDE DEF r3
  <2>2. QED
    BY <2>1, OpsSound
<1> HIDE DEF r1, r2, r3
<1>4. Sound(Ops(r1) \o Vias(r2) \o Ops(r3), "ESTAT", "ECON1")
  BY <1>1, <1>2, <1>3, Join
<1>5. QED
  BY <1>4 DEF r1, r2, r3

(* No register has been accessed in the wrong bank, and while the driver   *)
(* is in use its note of the bank is right.                                *)
Agreed ==
    /\ BSEL \in SUBSET {0, 1} /\ Enc28j60Bank \in SUBSET {0, 1} /\ stray = FALSE
    /\ pc # "off" => Enc28j60Bank = BSEL

(* A function that begins with its note right leaves it right. *)
LEMMA Accessed ==
    ASSUME NEW script, NEW last, Sound(script, "ESTAT", last),
           Agreed, pc # "off", Accesses(script, BSEL)
    PROVE  Agreed'
<1> DEFINE s == [bank |-> Enc28j60Bank, bsel |-> BSEL, stray |-> stray]
           end == Run(script, s)
<1>1. Settled(s)
  BY DEF Agreed, Settled, Notes
<1>2. Enc28j60Bank' = end.bank /\ BSEL' = end.bsel /\ stray' = end.stray
  BY DEF Accesses
<1> HIDE DEF s
<1>3. Settled(end)
  BY <1>1, RunSettles
<1> HIDE DEF end
<1>4. QED
  BY <1>2, <1>3 DEF Agreed, Settled, Notes

(* A function that resets the chip makes it right. *)
LEMMA Restarted ==
    ASSUME NEW script, NEW last, Sound(script, "ESTAT", last), Starts(script),
           Agreed, SoftReset(script)
    PROVE  Agreed'
<1> DEFINE s == [bank |-> Enc28j60Bank, bsel |-> {}, stray |-> stray]
           end == Run(script, s)
<1>1. s \in Notes /\ ~s.stray /\ s.bsel = {}
  BY DEF Agreed, Notes
<1>2. Enc28j60Bank' = end.bank /\ BSEL' = end.bsel /\ stray' = end.stray
  BY DEF SoftReset, Accesses
<1> HIDE DEF s
<1>3. Settled(end)
  BY <1>1, RunAfterReset
<1> HIDE DEF end
<1>4. QED
  BY <1>2, <1>3 DEF Agreed, Settled, Notes

(* All the functions do. *)
LEMMA AgreedStep ==
    ASSUME Agreed, [Next]_vars
    PROVE  Agreed'
<1>1. CASE initialize
  <2>1. SoftReset(Setup)
    BY <1>1 DEF initialize, Setup
  <2>2. QED
    BY <2>1, SetupSound, Restarted
<1>2. CASE doBIST
  <2>1. CASE SoftReset(SelfTest1)
    BY <2>1, SelfTest1Sound, Restarted
  <2>2. CASE SoftReset(SelfTest1 \o SelfTest2)
    <3>1. /\ Sound(SelfTest1 \o SelfTest2, "ESTAT", "EBSTCS")
          /\ Starts(SelfTest1 \o SelfTest2)
      BY SelfTest1Sound, SelfTest2Sound, Join
    <3>2. QED
      BY <2>2, <3>1, Restarted
  <2>3. QED
    BY <1>2, <2>1, <2>2 DEF doBIST
<1>3. CASE packetReceive
  <2>1. pc # "off"
    BY <1>3 DEF packetReceive
  <2>2. CASE unread = <<>>
    <3>1. Accesses(Vias(<<"EPKTCNT">>), BSEL)
      BY <1>3, <2>2 DEF packetReceive
    <3>2. QED
      BY <2>1, <3>1, PollSound, Accessed
  <2>3. CASE unread # <<>>
    <3>1. Accesses(Vias(<<"EPKTCNT", "ERDPT", "ERXRDPT">>) \o Ops(<<"ECON2">>), BSEL)
      BY <1>3, <2>3 DEF packetReceive
    <3>2. QED
      BY <2>1, <3>1, ReceiveSound, Accessed
  <2>4. QED
    BY <2>2, <2>3
<1>4. CASE SendWait
  <2>1. pc # "off"
    BY <1>4 DEF SendWait
  <2>2. CASE TXERIF
    <3>1. Accesses(Ops(<<"ECON1">>) \o Vias(<<"EIR">>) \o Ops(<<"ECON1", "ECON1">>), BSEL)
      BY <1>4, <2>2 DEF SendWait
    <3>2. QED
      BY <2>1, <3>1, WaitResetSound, Accessed
  <2>3. CASE ~TXERIF
    <3>1. Accesses(Ops(<<"ECON1">>) \o Vias(<<"EIR">>) \o <<>>, BSEL)
      BY <1>4, <2>3 DEF SendWait
    <3> DEFINE both == Ops(<<"ECON1">>) \o Vias(<<"EIR">>)
    <3>2. Sound(both, "ESTAT", "EIR")
      BY WaitSound
    <3>3. both \o <<>> = both
      <4>1. both \in Seq(Touched)
        BY <3>2 DEF Sound
      <4> HIDE DEF both
      <4>2. QED
        BY <4>1
    <3>4. Accesses(both, BSEL)
      BY <3>1, <3>3
    <3> HIDE DEF both
    <3>5. QED
      BY <2>1, <3>2, <3>4, Accessed
  <2>4. QED
    BY <2>2, <2>3
<1>5. CASE SendNow
  <2>1. pc # "off" /\ Accesses(Ops(<<"ECON1">>) \o Vias(<<"EWRPT", "ETXND">>) \o Ops(<<"ECON1">>), BSEL)
    BY <1>5 DEF SendNow
  <2>2. QED
    BY <2>1, SendSound, Accessed
<1>6. CASE Touch
  <2>1. pc # "off"
    BY <1>6 DEF Touch
  <2>2. PICK script \in {readPhyByte, Vias(<<"EWRPT">>), Vias(<<"ERDPT">>), Vias(<<"ERXFCON">>)} :
          Accesses(script, BSEL)
    BY <1>6 DEF Touch
  <2>3. \E last : Sound(script, "ESTAT", last)
    BY <2>2, PhySound, CopyoutSound, CopyinSound, BroadcastSound
  <2>4. QED
    BY <2>1, <2>2, <2>3, Accessed
<1>7. CASE powerDown
  <2>1. pc # "off"
    BY <1>7 DEF powerDown
  <2>2. \/ Accesses(Ops(<<"ECON1">>) \o Vias(<<"ESTAT">>), BSEL)
        \/ Accesses(Vias(<<"ECON1">>) \o Ops(<<"ECON2", "ECON2">>), BSEL)
    BY <1>7 DEF powerDown
  <2>3. QED
    BY <2>1, <2>2, SleepSound, AsleepSound, Accessed
<1>8. CASE powerUp
  <2>1. pc # "off" /\ Accesses(Ops(<<"ECON2">>) \o Vias(<<"ESTAT">>) \o Ops(<<"ECON1">>), BSEL)
    BY <1>8 DEF powerUp
  <2>2. QED
    BY <2>1, WakeSound, Accessed
<1>9. ASSUME UNCHANGED bankVars, pc' # "off" => pc # "off"
      PROVE  Agreed'
  BY <1>9 DEF Agreed, bankVars
<1>10. CASE Arrive \/ Transmit \/ packetSend
  <2>1. UNCHANGED bankVars /\ (pc' # "off" => pc # "off")
    BY <1>10 DEF Arrive, Transmit, packetSend
  <2>2. QED
    BY <1>9, <2>1
<1>11. CASE UNCHANGED vars
  BY <1>9, <1>11 DEF vars
<1>12. QED
  BY <1>1, <1>2, <1>3, <1>4, <1>5, <1>6, <1>7, <1>8, <1>10, <1>11 DEF Next

(* Every register is accessed in its own bank, whatever bank is selected   *)
(* at the start and whatever SetBank noted before a soft reset: the scripts *)
(* of the driver select a bank wherever they have to.                      *)
THEOREM BankCorrect == Spec => []BankRight
<1>1. Init => Agreed
  BY DEF Init, Agreed
<1>2. Agreed /\ [Next]_vars => Agreed'
  BY AgreedStep
<1>3. Agreed => BankRight
  BY DEF Agreed, BankRight
<1>4. QED
  BY <1>1, <1>2, <1>3, PTL DEF Spec
-----------------------------------------------------------------------------
(* Types *)

(* The pointers stay in the ring while the receiver is off as well, where  *)
(* Inv says nothing of them.                                               *)
Sane ==
    /\ ERXWRPT \in 0 .. RxSize - 1 /\ ERXRDPT \in 0 .. RxSize - 1
    /\ gNextPacketPtr \in 0 .. RxSize - 1
    /\ RXEN \in BOOLEAN /\ TXRTS \in BOOLEAN /\ TXERIF \in BOOLEAN
    /\ txBuffer \in Frames /\ packet \in Frames
    /\ pc \in {"off", "up", "send", "down", "asleep"}

(* While the receiver is on, the pointers are those of Inv'. *)
LEMMA SaneStep ==
    ASSUME Sane, Inv, Inv', [Next]_vars
    PROVE  Sane'
<1>1. ASSUME pc' # "off"
      PROVE  /\ ERXWRPT' \in 0 .. RxSize - 1 /\ ERXRDPT' \in 0 .. RxSize - 1
             /\ gNextPacketPtr' \in 0 .. RxSize - 1
  BY <1>1, RingAssumption DEF Inv, Ring, Pointers
<1>2. CASE initialize \/ doBIST
  <2>1. /\ ERXWRPT' = 0 /\ ERXRDPT' = 0
        /\ gNextPacketPtr' \in {0, gNextPacketPtr}
        /\ RXEN' \in BOOLEAN /\ TXRTS' = FALSE /\ TXERIF' = FALSE
        /\ txBuffer' = txBuffer /\ packet' = packet /\ pc' \in {"up", "off"}
    BY <1>2 DEF initialize, doBIST, SoftReset, Rewind
  <2>2. 0 \in 0 .. RxSize - 1
    BY RingAssumption
  <2>3. QED
    BY <2>1, <2>2 DEF Sane
<1>3. CASE Arrive \/ packetReceive
  <2>1. /\ UNCHANGED <<txVars, RXEN, pc, packet>> /\ pc # "off"
    BY <1>3 DEF Arrive, packetReceive, Inv
  <2>2. QED
    BY <1>1, <2>1 DEF Sane, txVars
<1>4. ASSUME UNCHANGED ringVars,
             TXRTS' \in BOOLEAN, TXERIF' \in BOOLEAN, RXEN' \in BOOLEAN,
             txBuffer' \in Frames, packet' \in Frames,
             pc' \in {"off", "up", "send", "down", "asleep"}
      PROVE  Sane'
  BY <1>4 DEF Sane, ringVars
<1>5. CASE Transmit
  BY <1>4, <1>5 DEF Transmit, Sane
<1>6. CASE packetSend
  BY <1>4, <1>6 DEF packetSend, Sane, txVars
<1>7. CASE SendWait
  BY <1>4, <1>7 DEF SendWait, Sane
<1>8. CASE SendNow
  BY <1>4, <1>8 DEF SendNow, Sane
<1>9. CASE Touch
  BY <1>4, <1>9 DEF Touch, Sane, txVars
<1>10. CASE powerDown \/ powerUp
  BY <1>4, <1>10 DEF powerDown, powerUp, Sane, txVars
<1>11. CASE UNCHANGED vars
  BY <1>4, <1>11 DEF vars, Sane, txVars
<1>12. QED
  BY <1>2, <1>3, <1>5, <1>6, <1>7, <1>8, <1>9, <1>10, <1>11 DEF Next

(* As long as no frame ends with the last byte of the ring, the pointers   *)
(* of the chip and of the driver stay in it, whatever is sent, received,   *)
(* reset, tested or powered down.                                          *)
THEOREM TypeCorrect == ~EndsAtTop => (Spec => []TypeOK)
<1>1. Init => Inv /\ Sane /\ Agreed
  <2>1. 0 \in 0 .. RxSize - 1
    BY RingAssumption
  <2>2. QED
    BY <2>1, InvInit DEF Init, Sane, Agreed
<1>2. ASSUME ~EndsAtTop
      PROVE  Inv /\ Sane /\ Agreed /\ [Next]_vars => (Inv /\ Sane /\ Agreed)'
  BY <1>2, InvStep, SaneStep, AgreedStep
<1>3. Inv /\ Sane /\ Agreed => TypeOK
  BY DEF Inv, Sane, Agreed, TypeOK, Frame
<1>4. ASSUME ~EndsAtTop
      PROVE  Spec => []TypeOK
  <2>1. Inv /\ Sane /\ Agreed /\ [Next]_vars => (Inv /\ Sane /\ Agreed)'
    BY <1>2, <1>4
  <2>2. QED
    BY <1>1, <1>3, <2>1, PTL DEF Spec
<1>5. QED
  BY <1>4
=============================================================================
