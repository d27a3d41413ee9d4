------------------------------ MODULE Enc28j60 ------------------------------
(***************************************************************************)
(* The driver of the Ethernet controller, enc28j60.cpp, and as much of the *)
(* ENC28J60 as it relies on: the ring into which the chip puts frames, its *)
(* transmitter, and the four banks of registers of which it shows one.     *)
(*                                                                         *)
(* A function of the driver is one step, but for the loops that wait for   *)
(* the transmitter, and meanwhile frames may arrive between any two steps. *)
(* Which registers a function touches is kept as a script.                 *)
(***************************************************************************)
EXTENDS Integers, Sequences

CONSTANTS
    RxSize,         \* RXSTOP_INIT + 1, the bytes of the ring
    AddressRange,   \* 2^13, the values of the chip's address registers
    Header,         \* 6, the bytes that the chip puts before a frame
    Sizes,          \* of the frames that arrive
    Frames,         \* what the program sends
    EndsAtTop       \* may a frame end with the last byte of the ring

ASSUME RingAssumption ==
    /\ RxSize \in Nat \ {0} /\ RxSize % 2 = 0
    /\ AddressRange \in Nat /\ RxSize < AddressRange
ASSUME FrameAssumption ==
    /\ Header \in Nat \ {0} /\ Sizes \subseteq Nat
    /\ EndsAtTop \in BOOLEAN

VARIABLES
    ERXWRPT,        \* where the chip puts the next frame
    ERXRDPT,        \* where it must stop
    unread,         \* the frames of which EPKTCNT is the number
    RXEN, TXRTS, TXERIF,
    txBuffer,       \* the frame in the transmit buffer
    BSEL,           \* the bits of ECON1 that select a bank
    stray,          \* has a register been looked for in the wrong bank
    gNextPacketPtr, Enc28j60Bank,
    pc,             \* where the driver waits, "up" outside of it
    packet          \* what packetSend is to send

ringVars == <<ERXWRPT, ERXRDPT, unread, gNextPacketPtr>>
txVars == <<TXRTS, TXERIF, txBuffer>>
bankVars == <<BSEL, stray, Enc28j60Bank>>
vars == <<ringVars, txVars, bankVars, RXEN, pc, packet>>
-----------------------------------------------------------------------------
(* Registers *)

Common == {"EIE", "EIR", "ESTAT", "ECON1", "ECON2"}     \* in every bank
Bank0 == {"ERDPT", "EWRPT", "ETXST", "ETXND", "ERXST", "ERXND", "ERXRDPT",
          "EDMAST", "EDMAND", "EDMACS"}
Bank1 == {"ERXFCON", "EPKTCNT", "EPMM0", "EPMCS"}
Bank2 == {"MACON1", "MACON2", "MACON3", "MAIPG", "MABBIPG", "MAMXFL",
          "MIREGADR", "MICMD", "MIWR", "MIRD"}
Bank3 == {"MAADR", "MISTAT", "EREVID", "EBSTCON", "EBSTSD", "EBSTCS"}

(* address & BANK_MASK, as the set of bits of BSEL *)
BankOf(reg) ==
    CASE reg \in Common \cup Bank0 -> {}
      [] reg \in Bank1 -> {0}
      [] reg \in Bank2 -> {1}
      [] reg \in Bank3 -> {0, 1}

(* Mutant: the old bits are not cleared. *)
SetBankNoClear(s, reg) ==
    IF BankOf(reg) = s.bank THEN s
    ELSE [s EXCEPT !.bank = BankOf(reg), !.bsel = @ \cup BankOf(reg)]

SetBank(s, reg) ==
    IF BankOf(reg) = s.bank THEN s
    ELSE [s EXCEPT !.bank = BankOf(reg), !.bsel = (@ \ {0, 1}) \cup BankOf(reg)]

(* readRegByte, writeRegByte and writeReg select the bank; readOp and      *)
(* writeOp take the one that is there.                                     *)
Via(reg) == [reg |-> reg, select |-> TRUE]
Op(reg) == [reg |-> reg, select |-> FALSE]
Vias(regs) == [i \in DOMAIN regs |-> Via(regs[i])]
Ops(regs) == [i \in DOMAIN regs |-> Op(regs[i])]

Access(s, a) ==
    LET t == IF a.select THEN SetBank(s, a.reg) ELSE s
    IN  [t EXCEPT !.stray = @ \/ (a.reg \notin Common /\ BankOf(a.reg) # t.bsel)]

(* What the accesses of a script make of s, one after the other. *)
Run(script, s) ==
    LET after[i \in 0 .. Len(script)] ==
            IF i = 0 THEN s ELSE Access(after[i - 1], script[i])
    IN  after[Len(script)]

Accesses(script, bsel) ==
    LET end == Run(script, [bank |-> Enc28j60Bank, bsel |-> bsel, stray |-> stray])
    IN  Enc28j60Bank' = end.bank /\ BSEL' = end.bsel /\ stray' = end.stray

readPhyByte == Vias(<<"MIREGADR", "MICMD", "MISTAT", "MICMD", "MIRD">>)
writePhy == Vias(<<"MIREGADR", "MIWR", "MISTAT">>)
-----------------------------------------------------------------------------
(* The chip *)

Free ==
    IF ERXWRPT > ERXRDPT THEN RxSize - 1 - (ERXWRPT - ERXRDPT)
    ELSE IF ERXWRPT = ERXRDPT THEN RxSize - 1
    ELSE ERXRDPT - ERXWRPT - 1

(* A frame takes an even number of bytes. *)
Slot(size) == 2 * ((Header + size + 1) \div 2)
Cells(at, size) == {(at + k) % RxSize : k \in 0 .. Slot(size) - 1}

(* A frame for which there is no room is dropped. *)
Arrive ==
    /\ RXEN
    /\ \E size \in Sizes, ok \in BOOLEAN :
         LET next == (ERXWRPT + Slot(size)) % RxSize
             Torn(f) == Cells(f.at, f.size) \cap Cells(ERXWRPT, size) # {}
         IN  /\ Slot(size) <= Free
             /\ next = 0 => EndsAtTop
             /\ unread' = Append([i \in DOMAIN unread |->
                                    [unread[i] EXCEPT !.torn = @ \/ Torn(unread[i])]],
                                 [at |-> ERXWRPT, next |-> next, size |-> size,
                                  ok |-> ok, torn |-> FALSE])
             /\ ERXWRPT' = next
    /\ UNCHANGED <<ERXRDPT, gNextPacketPtr, txVars, bankVars, RXEN, pc, packet>>

(* A transmission ends, well or not; after a late collision the            *)
(* transmitter may stall, TXRTS remaining set.                             *)
Transmit ==
    /\ TXRTS
    /\ \/ TXRTS' = FALSE /\ TXERIF' \in {TXERIF, TRUE}
       \/ TXRTS' = TRUE /\ TXERIF' = TRUE
    /\ UNCHANGED <<ringVars, txBuffer, bankVars, RXEN, pc, packet>>

(* A soft reset: the driver's note of the bank is not reset with it. *)
SoftReset(script) ==
    /\ unread' = <<>>
    /\ ERXWRPT' = 0
    /\ TXRTS' = FALSE /\ TXERIF' = FALSE
    /\ Accesses(script, {})
    /\ UNCHANGED txBuffer
-----------------------------------------------------------------------------
(* The driver *)

(* Mutant: the driver goes on where it was. *)
RewindNot == UNCHANGED gNextPacketPtr

Rewind == gNextPacketPtr' = 0

initialize ==
    /\ pc \in {"off", "up", "asleep"}
    /\ SoftReset(Ops(<<"ESTAT">>)
         \o Vias(<<"ERXST", "ERXRDPT", "ERXND", "ETXST", "ETXND", "ERXFCON",
                   "EPMM0", "EPMCS", "MACON1", "MACON2">>)
         \o Ops(<<"MACON3">>)
         \o Vias(<<"MAIPG", "MABBIPG", "MAMXFL", "MAADR">>)
         \o writePhy
         \o Vias(<<"ECON1">>) \o Ops(<<"EIE", "ECON1">>) \o Vias(<<"EREVID">>))
    /\ Rewind
    /\ ERXRDPT' = 0
    /\ RXEN' = TRUE
    /\ pc' = "up"
    /\ UNCHANGED packet

(* doBIST, meant to come before initialize *)
SelfTest1 == Ops(<<"ESTAT">>)
             \o Vias(<<"ECON1", "EDMAST", "EDMAND", "ERXND", "EBSTCON", "EBSTCON">>)
             \o Ops(<<"EBSTCON", "EBSTCON", "ECON1">>) \o Vias(<<"EDMACS">>)
             \o Ops(<<"ECON1">>) \o Vias(<<"EDMACS", "EBSTCS">>)
SelfTest2 == Ops(<<"EBSTCON">>) \o Vias(<<"EBSTSD", "EBSTCON">>)
             \o Ops(<<"EBSTCON", "EBSTCON", "ECON1">>) \o Vias(<<"EDMACS">>)
             \o Ops(<<"ECON1">>) \o Vias(<<"EDMACS", "EBSTCS">>)

doBIST ==
    /\ pc \in {"off", "up", "asleep"}
    /\ SoftReset(SelfTest1) \/ SoftReset(SelfTest1 \o SelfTest2)
    /\ ERXRDPT' = 0
    /\ RXEN' = FALSE
    /\ pc' = "off"
    /\ UNCHANGED <<gNextPacketPtr, packet>>

(* Mutant: a frame that the chip marks as bad is left in the ring. *)
ReleaseGood(h) ==
    IF ~h.ok THEN ERXRDPT
    ELSE IF h.next - 1 > RxSize - 1 THEN RxSize - 1
    ELSE (h.next - 1) % AddressRange

(* The new ERXRDPT. gNextPacketPtr is a signed int, the register has 13    *)
(* bits.                                                                   *)
Release(h) ==
    IF h.next - 1 > RxSize - 1 THEN RxSize - 1
    ELSE (h.next - 1) % AddressRange

(* Mutant: the next frame is looked for behind this one, as if the ring    *)
(* did not wrap.                                                           *)
HeadersComputed ==
    LET f == Head(unread)
    IN  {[next |-> gNextPacketPtr + Slot(f.size), size |-> f.size, ok |-> f.ok]}

(* What gNextPacketPtr points at: the oldest frame, or anything.           *)
Headers ==
    LET f == Head(unread)
    IN  IF f.at = gNextPacketPtr /\ ~f.torn
        THEN {[next |-> f.next, size |-> f.size, ok |-> f.ok]}
        ELSE [next : 0 .. AddressRange - 1, size : Sizes, ok : BOOLEAN]

packetReceive ==
    /\ pc = "up"
    /\ IF unread = <<>>
       THEN /\ Accesses(Vias(<<"EPKTCNT">>), BSEL)
            /\ UNCHANGED <<ERXRDPT, unread, gNextPacketPtr>>
       ELSE /\ \E h \in Headers :
                 /\ gNextPacketPtr' = h.next
                 /\ ERXRDPT' = Release(h)
            /\ unread' = Tail(unread)
            /\ Accesses(Vias(<<"EPKTCNT", "ERDPT", "ERXRDPT">>) \o Ops(<<"ECON2">>), BSEL)
    /\ UNCHANGED <<ERXWRPT, txVars, RXEN, pc, packet>>

(* packetSend: called with a frame, it waits for the one before. *)
packetSend ==
    /\ pc = "up"
    /\ packet' \in Frames
    /\ pc' = "send"
    /\ UNCHANGED <<ringVars, txVars, bankVars, RXEN>>

(* Mutant: the transmitter is not reset. *)
SendWaitOnly ==
    /\ pc = "send"
    /\ TXRTS
    /\ Accesses(Ops(<<"ECON1">>) \o Vias(<<"EIR">>), BSEL)
    /\ UNCHANGED <<ringVars, txVars, RXEN, pc, packet>>

SendWait ==
    /\ pc = "send"
    /\ TXRTS
    /\ TXRTS' = ~TXERIF
    /\ Accesses(Ops(<<"ECON1">>) \o Vias(<<"EIR">>)
                \o (IF TXERIF THEN Ops(<<"ECON1", "ECON1">>) ELSE <<>>), BSEL)
    /\ UNCHANGED <<ringVars, TXERIF, txBuffer, RXEN, pc, packet>>

SendNow ==
    /\ pc = "send"
    /\ ~TXRTS
    /\ txBuffer' = packet
    /\ TXRTS' = TRUE
    /\ pc' = "up"
    /\ Accesses(Ops(<<"ECON1">>) \o Vias(<<"EWRPT", "ETXND">>) \o Ops(<<"ECON1">>), BSEL)
    /\ UNCHANGED <<ringVars, TXERIF, RXEN, packet>>

(* isLinkUp, copyout, copyin or peekin, enableBroadcast or disableBroadcast*)
Touch ==
    /\ pc = "up"
    /\ \E script \in {readPhyByte, Vias(<<"EWRPT">>), Vias(<<"ERDPT">>), Vias(<<"ERXFCON">>)} :
         Accesses(script, BSEL)
    /\ UNCHANGED <<ringVars, txVars, RXEN, pc, packet>>

powerDown ==
    \/ /\ pc = "up"
       /\ RXEN' = FALSE
       /\ pc' = "down"
       /\ Accesses(Ops(<<"ECON1">>) \o Vias(<<"ESTAT">>), BSEL)
       /\ UNCHANGED <<ringVars, txVars, packet>>
    \/ /\ pc = "down"
       /\ ~TXRTS
       /\ pc' = "asleep"
       /\ Accesses(Vias(<<"ECON1">>) \o Ops(<<"ECON2", "ECON2">>), BSEL)
       /\ UNCHANGED <<ringVars, txVars, RXEN, packet>>

powerUp ==
    /\ pc = "asleep"
    /\ RXEN' = TRUE
    /\ pc' = "up"
    /\ Accesses(Ops(<<"ECON2">>) \o Vias(<<"ESTAT">>) \o Ops(<<"ECON1">>), BSEL)
    /\ UNCHANGED <<ringVars, txVars, packet>>

Init ==
    /\ ERXWRPT = 0 /\ ERXRDPT = 0 /\ unread = <<>>
    /\ RXEN = FALSE /\ TXRTS = FALSE /\ TXERIF = FALSE
    /\ txBuffer \in Frames /\ packet = txBuffer
    /\ BSEL \in SUBSET {0, 1}       \* the sketch may start without a power-up
    /\ stray = FALSE /\ Enc28j60Bank = {}
    /\ gNextPacketPtr = 0 /\ pc = "off"

Next ==
    \/ Arrive \/ Transmit
    \/ initialize \/ doBIST \/ packetReceive \/ packetSend \/ SendWait \/ SendNow
    \/ Touch \/ powerDown \/ powerUp

Spec == Init /\ [][Next]_vars

(* The driver goes on, and a transmission ends or sets TXERIF: once that   *)
(* is set the transmitter may have stalled for good.                       *)
FairSpec ==
    Spec /\ WF_vars(SendWait) /\ WF_vars(SendNow) /\ WF_vars(~TXERIF /\ Transmit)
-----------------------------------------------------------------------------
(* The pointers of the chip and of the driver stay in the ring.            *)
TypeOK ==
    /\ ERXWRPT \in 0 .. RxSize - 1
    /\ ERXRDPT \in 0 .. RxSize - 1
    /\ gNextPacketPtr \in 0 .. RxSize - 1
    /\ unread \in Seq([at : 0 .. RxSize - 1, next : 0 .. RxSize - 1, size : Sizes,
                       ok : BOOLEAN, torn : BOOLEAN])
    /\ RXEN \in BOOLEAN /\ TXRTS \in BOOLEAN /\ TXERIF \in BOOLEAN
    /\ txBuffer \in Frames /\ packet \in Frames
    /\ BSEL \subseteq {0, 1} /\ Enc28j60Bank \subseteq {0, 1} /\ stray \in BOOLEAN
    /\ pc \in {"off", "up", "send", "down", "asleep"}

(* The chip writes over no frame that has not been read, and the driver    *)
(* looks for the next one where it is: ERXRDPT, one behind gNextPacketPtr, *)
(* keeps the two apart however late frames are read.                       *)
RxIntact ==
    unread # <<>> => /\ Head(unread).at = gNextPacketPtr
                     /\ \A i \in DOMAIN unread : ~unread[i].torn

(* Once all frames have been read, good ones and bad ones, there is room   *)
(* for any frame again: none of the ring is lost for ever.                 *)
RoomWhenEmpty ==
    pc # "off" /\ unread = <<>> => \A size \in Sizes : Slot(size) <= Free

(* Every register is accessed in its own bank: the note that SetBank keeps *)
(* agrees with ECON1 when it matters, after a soft reset as well, and the  *)
(* raw operations on MACON3 and EBSTCON find their bank selected.          *)
BankRight == ~stray

(* packetSend returns, although the transmitter may stall: the reset of    *)
(* its wait loop clears TXRTS.                                             *)
SendEnds == pc = "send" ~> pc = "up"
=============================================================================
