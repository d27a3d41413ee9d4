---------------------------- MODULE IecBusProofs ----------------------------
(***************************************************************************)
(* Proofs about the serial bus, for bytes of any number of bits, any file  *)
(* and any jobs of the C64: where in its byte, its buffer or its file the  *)
(* sketch is, whatever the C64 does meanwhile; and that without faults the *)
(* two are in step from the first command to the last byte.                *)
(***************************************************************************)
EXTENDS IecBus, WellFoundedInduction, TLAPS

(* < as a set of pairs *)
Before == {p \in Nat \X Nat : p[1] < p[2]}

(* Every set of numbers has a least one. *)
LEMMA Least ==
    ASSUME NEW T \in SUBSET Nat, T # {}
    PROVE  \E m \in T : \A k \in T : m <= k
<1>1. IsWellFoundedOn(Before, Nat)
  BY NatLessThanWellFounded DEF OpToRel, Before
<1>2. PICK m \in T : \A k \in T : ~(<<k, m>> \in Before)
  BY <1>1, WFMin
<1>3. \A k \in T : ~(k < m)
  BY <1>2 DEF Before
<1>4. QED
  BY <1>3

(* f has the powers of 2 up to n. *)
Doubles(f, n) == f = [i \in 0 .. n |-> IF i = 0 THEN 1 ELSE 2 * f[i - 1]]

(* They exist, which is an induction over n. *)
LEMMA DoublesExist ==
    ASSUME NEW n \in Nat
    PROVE  \E f : Doubles(f, n)
<1> DEFINE T == {m \in Nat : ~\E f : Doubles(f, m)}
<1>1. SUFFICES ASSUME T # {} PROVE FALSE
  OBVIOUS
<1>2. PICK m \in T : \A k \in T : m <= k
  BY <1>1, Least
<1>3. m # 0
  <2>1. Doubles([i \in 0 .. 0 |-> 1], 0)
    BY DEF Doubles
  <2>2. QED
    BY <2>1
<1>4. m - 1 \in Nat /\ m - 1 \notin T
  BY <1>2, <1>3
<1>5. PICK g : Doubles(g, m - 1)
  BY <1>4
<1> DEFINE f == [i \in 0 .. m |-> IF i = m THEN 2 * g[m - 1] ELSE g[i]]
<1>6. Doubles(f, m)
  <2>1. \A i \in 0 .. m : f[i] = IF i = 0 THEN 1 ELSE 2 * f[i - 1]
    <3>1. TAKE i \in 0 .. m
    <3>2. CASE i = m
      BY <3>2, <1>3, <1>4
    <3>3. CASE i # m
      <4>1. i \in 0 .. m - 1 /\ i - 1 # m
        BY <3>3
      <4>2. f[i] = g[i] /\ (i # 0 => f[i - 1] = g[i - 1])
        BY <4>1, <3>3
      <4>3. QED
        BY <4>1, <4>2, <1>5 DEF Doubles
    <3>4. QED
      BY <3>2, <3>3
  <2>2. f = [i \in 0 .. m |-> f[i]]
    OBVIOUS
  <2> HIDE DEF f
  <2>3. QED
    BY <2>1, <2>2 DEF Doubles
<1>7. QED
  BY <1>2, <1>6

(* So Pow2 is what its definition says, *)
LEMMA Pow2Is ==
    /\ Pow2[0] = 1
    /\ \A n \in 0 .. Bits - 1 : Pow2[n + 1] = 2 * Pow2[n]
<1>1. Bits \in Nat
  BY BitsAssumption
<1>2. Doubles(Pow2, Bits)
  BY <1>1, DoublesExist DEF Pow2, Doubles
<1>3. QED
  BY <1>1, <1>2 DEF Doubles

(* positive, *)
LEMMA Pow2Type == \A n \in 0 .. Bits : Pow2[n] \in Nat \ {0}
<1> DEFINE T == {m \in 0 .. Bits : Pow2[m] \notin Nat \ {0}}
<1>1. SUFFICES ASSUME T # {} PROVE FALSE
  OBVIOUS
<1>2. T \in SUBSET Nat /\ Bits \in Nat
  BY BitsAssumption
<1>3. PICK m \in T : \A k \in T : m <= k
  BY <1>1, <1>2, Least
<1>4. m # 0
  BY Pow2Is
<1>5. m - 1 \in 0 .. Bits - 1 /\ m - 1 \notin T /\ m - 1 + 1 = m
  BY <1>2, <1>3, <1>4
<1>6. Pow2[m - 1] \in Nat \ {0}
  BY <1>2, <1>5
<1>7. Pow2[m] = 2 * Pow2[m - 1]
  BY <1>5, Pow2Is
<1>8. QED
  BY <1>3, <1>6, <1>7

(* and never more than a byte has values. *)
LEMMA Pow2Grows ==
    ASSUME NEW n \in 0 .. Bits
    PROVE  Pow2[n] <= Pow2[Bits]
<1>1. Bits \in Nat /\ \A k \in 0 .. Bits : Pow2[k] \in Nat \ {0}
  BY BitsAssumption, Pow2Type
<1>2. \A k \in 0 .. Bits - 1 : Pow2[k] <= Pow2[k + 1]
  <2>1. TAKE k \in 0 .. Bits - 1
  <2>2. Pow2[k + 1] = 2 * Pow2[k] /\ Pow2[k] \in Nat
    BY <1>1, Pow2Is
  <2>3. QED
    BY <2>2
<1> DEFINE U == {m \in 0 .. Bits : m >= n /\ ~(Pow2[n] <= Pow2[m])}
<1>3. U = {}
  <2>1. SUFFICES ASSUME U # {} PROVE FALSE
    OBVIOUS
  <2>2. U \in SUBSET Nat
    OBVIOUS
  <2>3. PICK m \in U : \A k \in U : m <= k
    <3> HIDE DEF U
    <3> QED
      BY <2>1, <2>2, Least
  <2>4. m # n /\ m - 1 \in 0 .. Bits - 1 /\ m - 1 \in 0 .. Bits /\ m - 1 >= n /\ m - 1 + 1 = m
    BY <1>1, <2>3
  <2>5. Pow2[n] <= Pow2[m - 1]
    BY <2>3, <2>4
  <2>6. Pow2[m - 1] <= Pow2[m]
    BY <1>2, <2>4
  <2>7. QED
    BY <1>1, <2>3, <2>4, <2>5, <2>6
<1>4. QED
  BY <1>1, <1>3

(* Quotient and rest make up the number, *)
LEMMA Quotient ==
    ASSUME NEW b \in Nat, NEW p \in Nat \ {0}
    PROVE  /\ b \div p \in Nat /\ b % p \in 0 .. p - 1
           /\ b = p * (b \div p) + (b % p)
OBVIOUS

(* and are the only ones that do. *)
LEMMA QuotientIs ==
    ASSUME NEW p \in Nat \ {0}, NEW q \in Nat, NEW r \in 0 .. p - 1
    PROVE  (p * q + r) \div p = q /\ (p * q + r) % p = r
OBVIOUS

(* A bit is 0 or 1, and adds its power to those below it. *)
LEMMA BitStep ==
    ASSUME NEW b \in Nat, NEW i \in 0 .. Bits - 1
    PROVE  /\ BitOf(b, i) \in {0, 1}
           /\ b % Pow2[i + 1] = (b % Pow2[i]) + BitOf(b, i) * Pow2[i]
<1> DEFINE p == Pow2[i]
           q == b \div p
           r == b % p
           u == q \div 2
           v == q % 2
<1>1. p \in Nat \ {0} /\ Pow2[i + 1] = 2 * p
  BY BitsAssumption, Pow2Type, Pow2Is
<1> HIDE DEF p
<1>2. q \in Nat /\ r \in 0 .. p - 1 /\ b = p * q + r
  BY <1>1, Quotient
<1> HIDE DEF q, r
<1>3. u \in Nat /\ v \in 0 .. 1 /\ q = 2 * u + v
  BY <1>2
<1>4. BitOf(b, i) = v
  BY DEF BitOf, p, q, v
<1> HIDE DEF u, v
<1>5. v * p \in {0, p} /\ v * p + r \in 0 .. 2 * p - 1
  BY <1>1, <1>2, <1>3
<1>6. p * q = (2 * p) * u + v * p
  BY <1>1, <1>3
<1>7. b = (2 * p) * u + (v * p + r)
  <2>1. (2 * p) * u \in Nat
    BY <1>1, <1>3
  <2>2. QED
    BY <1>1, <1>2, <1>3, <1>5, <1>6, <2>1
<1>8. b % (2 * p) = v * p + r
  <2> DEFINE m == 2 * p
             x == v * p + r
  <2>1. m \in Nat \ {0} /\ x \in 0 .. m - 1 /\ b = m * u + x
    BY <1>1, <1>5, <1>7
  <2> HIDE DEF m, x
  <2>2. (m * u + x) % m = x
    BY <1>3, <2>1, QuotientIs
  <2>3. b % m = x
    BY <2>1, <2>2
  <2>4. QED
    BY <2>3 DEF m, x
<1>9. QED
  BY <1>1, <1>2, <1>3, <1>4, <1>5, <1>8 DEF p, r
-----------------------------------------------------------------------------
(* Types *)

Getting == {"g_clock", "g_data", "g_eoi", "g_pulse", "g_pulsed", "g_low", "g_high", "g_fall", "got"}
Putting == {"put", "p_inf", "p_high", "p_low", "p_ready", "p_bit", "p_hold", "p_end", "p_ack", "sent"}

Waiting == {"a_high", "a_low", "u_atn", "o_atn", "l_atn", "t_atn"}
DevPoints == Getting \cup Putting \cup Waiting \cup {"loop", "o_next", "r_next", "turn", "send"}

(* Where get_byte and put_byte are in their byte: what has come of it has  *)
(* no more bits than have been counted.                                    *)
ByteInv ==
    /\ bit \in 0 .. Bits /\ byte \in Byte
    /\ dpc \in {"g_eoi", "g_pulse", "g_pulsed", "g_low"} => bit = 0 /\ byte = 0
    /\ dpc = "g_high" => bit < Bits /\ byte < Pow2[bit]
    /\ dpc = "g_fall" => bit < Bits /\ byte < Pow2[bit + 1]
    /\ dpc \in {"p_inf", "p_high", "p_low", "p_ready"} => bit = 0
    /\ dpc \in {"p_bit", "p_hold"} => bit < Bits

(* handle_open asks for a byte only when there is room for it, send_file   *)
(* calls put_byte only when it has one.                                    *)
BufferInv ==
    /\ device_mode \in Byte /\ secondary \in Byte
    /\ iobuf \in Seq(Byte) /\ Len(iobuf) < IobufSize
    /\ dpc = "o_next" \/ (caller = "open" /\ dpc \in Getting) => Len(iobuf) < IobufSize - 1
    /\ pos \in 0 .. Len(File)
    /\ dpc \in {"turn", "send"} \cup Putting => pos < Len(File)
    /\ stored \in Seq(Byte) /\ Len(stored) <= MaxStored

(* What TypeOK says of the sketch *)
DevInv ==
    /\ dClock \in {"in", "low", "high"} /\ dData \in {"in", "low", "high"}
    /\ dpc \in DevPoints /\ caller \in {"device", "sec", "open", "recv"}
    /\ force_eoi \in BOOLEAN /\ eoi \in 0 .. 1 /\ flag \in 0 .. 1
    /\ ByteInv /\ BufferInv

Giving == {"atn", "present", "byte", "eoi_ready", "eoi_seen", "ready", "bit", "hold", "taken", "release"}
Taking == {"r_clock", "r_start", "r_pulse", "r_high", "r_fall", "r_done"}

C64Points == Giving \cup Taking \cup {"idle", "next", "turn", "off"}

(* What the C64 does belongs to an operation of its job. *)
OperationInv ==
    /\ job \in Jobs \cup {<<>>} /\ op \in 1 .. Len(job) + 1
    /\ cpc \in Giving => /\ op <= Len(job) /\ Operation.kind \in {"command", "out"}
                         /\ cpos \in 1 .. Len(Operation.bytes)
    /\ cpc \in Taking => op <= Len(job)

(* Where it is in a byte *)
CbyteInv ==
    /\ cbit \in 0 .. Bits /\ cbyte \in Byte
    /\ cpc \in {"bit", "hold"} => cbit < Bits
    /\ cpc \in {"ready", "eoi_ready", "eoi_seen"} => cbit = 0
    /\ cpc \in {"r_start", "r_pulse"} => cbit = 0 /\ cbyte = 0
    /\ cpc = "r_high" => cbit < Bits /\ cbyte < Pow2[cbit]
    /\ cpc = "r_fall" => cbit < Bits /\ cbyte < Pow2[cbit + 1]

(* What it says of the C64 *)
C64Inv ==
    /\ cAtn \in {LOW, HIGH} /\ cClock \in {LOW, HIGH} /\ cData \in {LOW, HIGH}
    /\ cpc \in C64Points /\ cpos \in Nat /\ ceoi \in BOOLEAN /\ loaded \in Seq(Byte)
    /\ result \in {"none", "busy", "ok", "error"}
    /\ jobs \in 0 .. MaxJobs /\ resets \in 0 .. MaxResets /\ faults \in Faults
    /\ OperationInv /\ CbyteInv

(* What the assumptions say of the constants *)
LEMMA ConstantTypes ==
    /\ Bits \in Nat \ {0} /\ MaxJobs \in Nat /\ MaxResets \in Nat /\ MaxStored \in Nat
    /\ IobufSize \in Nat /\ IobufSize >= 2
    /\ Pow2[0] = 1 /\ 0 \in Byte
    /\ File \in Seq(Byte) /\ Len(File) \in Nat \ {0}
<1>1. Pow2[0] = 1 /\ Pow2[Bits] \in Nat \ {0} /\ Bits \in Nat
  BY BitsAssumption, Pow2Is, Pow2Type
<1>2. File \in Seq(Byte) /\ File # <<>>
  BY FileAssumption DEF Byte
<1>3. Len(File) \in Nat \ {0}
  BY <1>2
<1>4. QED
  BY <1>1, <1>2, <1>3, BitsAssumption, JobsAssumption, BufferAssumption DEF Byte

(* A bit more of a byte, received or given *)
LEMMA BitAdded ==
    ASSUME NEW i \in 0 .. Bits - 1, NEW b \in Byte, b < Pow2[i], NEW d \in {LOW, HIGH}
    PROVE  /\ b + d * Pow2[i] \in Byte /\ b + d * Pow2[i] < Pow2[i + 1]
<1>1. /\ Pow2[i] \in Nat /\ Pow2[i + 1] = 2 * Pow2[i] /\ Pow2[i + 1] <= Pow2[Bits]
      /\ Pow2[Bits] \in Nat
  BY BitsAssumption, Pow2Type, Pow2Is, Pow2Grows
<1>2. d * Pow2[i] \in {0, Pow2[i]}
  BY <1>1 DEF LOW, HIGH
<1>3. QED
  BY <1>1, <1>2 DEF Byte

(* A line is low or high, whoever pulls it. *)
LEMMA LineTypes == data \in {LOW, HIGH} /\ clock \in {LOW, HIGH}
BY DEF data, clock

(* get_byte stays in its byte. *)
LEMMA GetTypes ==
    ASSUME DevInv, GetReady \/ GetStart \/ GetEoi \/ GetClockLow \/ GetBit \/ GetBitEnd \/ GetTimeout
    PROVE  DevInv'
<1> USE ConstantTypes DEF DevInv, ByteInv, BufferInv, DevPoints, Getting, Putting, Waiting,
        At, Passes, TimesOut, locals, globals, drives
<1>1. CASE GetReady
  BY <1>1 DEF GetReady
<1>2. CASE GetStart
  BY <1>2 DEF GetStart
<1>3. CASE GetEoi
  BY <1>3 DEF GetEoi
<1>4. CASE GetClockLow
  BY <1>4 DEF GetClockLow
<1>5. CASE GetBit
  BY <1>5, BitAdded, LineTypes DEF GetBit
<1>6. CASE GetBitEnd
  BY <1>6 DEF GetBitEnd
<1>7. CASE GetTimeout
  BY <1>7 DEF GetTimeout
<1>8. QED
  BY <1>1, <1>2, <1>3, <1>4, <1>5, <1>6, <1>7

(* put_byte does, and takes a byte of the file. *)
LEMMA PutTypes ==
    ASSUME DevInv, PutBegin \/ PutReady \/ PutStart \/ PutBit \/ PutBitEnd \/ PutEnd \/ PutTimeout
    PROVE  DevInv'
<1> USE ConstantTypes DEF DevInv, ByteInv, BufferInv, DevPoints, Getting, Putting, Waiting,
        At, Passes, TimesOut, locals, globals, drives
<1>1. CASE PutBegin
  <2>1. dpc = "put" /\ pos + 1 \in 1 .. Len(File)
    BY <1>1 DEF PutBegin
  <2>2. File[pos + 1] \in Byte
    BY <2>1
  <2>3. QED
    BY <1>1, <2>1, <2>2 DEF PutBegin
<1>2. CASE PutReady
  BY <1>2 DEF PutReady
<1>3. CASE PutStart
  BY <1>3 DEF PutStart
<1>4. CASE PutBit
  BY <1>4 DEF PutBit, PutReturn
<1>5. CASE PutBitEnd
  BY <1>5 DEF PutBitEnd
<1>6. CASE PutEnd
  BY <1>6 DEF PutEnd, PutReturn
<1>7. CASE PutTimeout
  BY <1>7 DEF PutTimeout, PutReturn
<1>8. QED
  BY <1>1, <1>2, <1>3, <1>4, <1>5, <1>6, <1>7

(* handle_atn and what it calls stay in their buffers. *)
LEMMA LoopTypes ==
    ASSUME DevInv,
           \/ Loop \/ AtnClock \/ AtnDevice \/ AtnSecondary \/ AtnReleased
           \/ OpenNext \/ OpenByte \/ RecvNext \/ RecvByte \/ Turnaround \/ SendFile
    PROVE  DevInv'
<1> USE ConstantTypes DEF DevInv, ByteInv, BufferInv, DevPoints, Getting, Putting, Waiting,
        At, Passes, TimesOut, locals, globals, drives
<1>1. CASE Loop
  BY <1>1 DEF Loop
<1> DEFINE Kept == UNCHANGED <<dData, flag, bit, byte>>
           Stays == UNCHANGED <<dClock, caller, force_eoi, eoi>>
           Calls(who) == /\ caller' = who /\ force_eoi' \in BOOLEAN /\ eoi' = 0
                         /\ dpc' = "g_clock" /\ dClock' = "in"
<1>2. CASE AtnClock
  <2>1. Kept /\ UNCHANGED globals /\ ((dpc' = "a_low" /\ Stays) \/ Calls("device"))
    BY <1>2 DEF AtnClock, CallGetByte
  <2>2. QED
    BY <2>1
<1>3. CASE AtnDevice
  <2>1. /\ Kept /\ UNCHANGED <<secondary, iobuf, pos, stored>>
        /\ device_mode' \in {device_mode, byte}
        /\ (dpc' \in {"loop", "u_atn"} /\ Stays) \/ Calls("sec")
    BY <1>3 DEF AtnDevice, CallGetByte, Returned
  <2>2. QED
    BY <2>1
<1>4. CASE AtnSecondary
  BY <1>4 DEF AtnSecondary, Returned
<1>5. CASE AtnReleased
  <2>1. <<>> \in Seq(Byte) /\ Len(<<>>) = 0
    OBVIOUS
  <2>2. UNCHANGED <<drives, caller, locals, device_mode, secondary>>
    BY <1>5 DEF AtnReleased
  <2>3. \/ dpc' \in {"loop", "r_next"} /\ UNCHANGED <<iobuf, pos>> /\ stored' \in {stored, <<>>}
        \/ dpc' = "o_next" /\ iobuf' = <<>> /\ UNCHANGED <<pos, stored>>
        \/ dpc' = "turn" /\ pos' = 0 /\ UNCHANGED <<iobuf, stored>>
    BY <1>5 DEF AtnReleased
  <2>4. CASE dpc' \in {"loop", "r_next"} /\ UNCHANGED <<iobuf, pos>> /\ stored' \in {stored, <<>>}
    <3>1. stored' \in Seq(Byte) /\ Len(stored') <= MaxStored
      <4>1. CASE stored' = stored
        BY <4>1
      <4>2. CASE stored' = <<>>
        <5>1. Len(stored') = 0 /\ stored' \in Seq(Byte)
          BY <2>1, <4>2
        <5>2. QED
          BY <5>1
      <4>3. QED
        BY <2>4, <4>1, <4>2
    <3>2. ByteInv'
      BY <2>2, <2>4
    <3>3. BufferInv'
      BY <2>2, <2>4, <3>1
    <3>4. QED
      BY <2>2, <2>4, <3>2, <3>3
  <2>5. CASE dpc' = "o_next" /\ iobuf' = <<>> /\ UNCHANGED <<pos, stored>>
    BY <2>1, <2>2, <2>5
  <2>6. CASE dpc' = "turn" /\ pos' = 0 /\ UNCHANGED <<iobuf, stored>>
    BY <2>2, <2>6
  <2>7. QED
    BY <2>3, <2>4, <2>5, <2>6
<1>6. CASE OpenNext
  <2>1. /\ dpc = "o_next" /\ Kept /\ UNCHANGED globals
        /\ (dpc' = "loop" /\ Stays) \/ Calls("open")
    BY <1>6 DEF OpenNext, CallGetByte
  <2>2. QED
    BY <2>1
<1>7. CASE OpenByte
  <2>1. /\ Append(iobuf, byte) \in Seq(Byte) /\ Len(Append(iobuf, byte)) = Len(iobuf) + 1
        /\ Len(iobuf) \in Nat
    OBVIOUS
  <2>2. QED
    BY <1>7, <2>1 DEF OpenByte, Returned
<1>8. CASE RecvNext
  <2>1. /\ UNCHANGED <<flag, bit, byte>> /\ UNCHANGED globals
        /\ \/ dpc' = "loop" /\ dClock' = "in" /\ dData' = "in" /\ UNCHANGED <<caller, force_eoi, eoi>>
           \/ Calls("recv") /\ UNCHANGED dData
    BY <1>8 DEF RecvNext, CallGetByte
  <2>2. QED
    BY <2>1
<1>9. CASE RecvByte
  <2>1. /\ Append(stored, byte) \in Seq(Byte) /\ Len(Append(stored, byte)) = Len(stored) + 1
        /\ Len(stored) \in Nat
    OBVIOUS
  <2>2. QED
    BY <1>9, <2>1 DEF RecvByte, Returned
<1>10. CASE Turnaround
  BY <1>10 DEF Turnaround
<1>11. CASE SendFile
  BY <1>11 DEF SendFile, SendDone, IsLast
<1>12. QED
  BY <1>1, <1>2, <1>3, <1>4, <1>5, <1>6, <1>7, <1>8, <1>9, <1>10, <1>11

(* The C64 leaves the sketch alone. *)
LEMMA DevKept ==
    ASSUME DevInv, UNCHANGED devVars
    PROVE  DevInv'
BY DEF DevInv, ByteInv, BufferInv, devVars, drives, locals, globals

-----------------------------------------------------------------------------
Operations == [kind : {"command", "out"}, bytes : Seq(Byte) \ {<<>>}] \cup [kind : {"in"}]

(* A job is a sequence of operations, and an operation has bytes unless it *)
(* is to take some.                                                        *)
LEMMA JobTypes ==
    ASSUME OperationInv
    PROVE  /\ Len(job) \in Nat
           /\ op <= Len(job) =>
                /\ Operation.kind \in {"command", "out", "in"}
                /\ Operation.kind # "in" => /\ Operation.bytes \in Seq(Byte)
                                            /\ Len(Operation.bytes) \in Nat \ {0}
<1>1. job \in Seq(Operations)
  <2>1. <<>> \in Seq(Operations)
    OBVIOUS
  <2>2. QED
    BY <2>1, JobsAssumption DEF OperationInv, Operations, Byte
<1>2. Len(job) \in Nat
  BY <1>1
<1>3. ASSUME op <= Len(job)
      PROVE  Operation \in Operations
  BY <1>1, <1>2, <1>3 DEF OperationInv, Operation
<1>4. ASSUME NEW o \in Operations, o.kind # "in"
      PROVE  o.bytes \in Seq(Byte) /\ Len(o.bytes) \in Nat \ {0}
  <2>1. o.bytes \in Seq(Byte) /\ o.bytes # <<>>
    BY <1>4 DEF Operations
  <2>2. QED
    BY <2>1
<1>5. \A o \in Operations : o.kind \in {"command", "out", "in"}
  BY DEF Operations
<1>6. QED
  BY <1>2, <1>3, <1>4, <1>5

(* The C64 takes up a job or its next operation, ends, gives up or is      *)
(* reset.                                                                  *)
LEMMA JobStepTypes ==
    ASSUME C64Inv, faults' = faults, StartJob \/ NextOperation \/ EndJob \/ GiveUp \/ Reset
    PROVE  C64Inv'
<1> USE ConstantTypes DEF C64Inv, OperationInv, CbyteInv, C64Points, Giving, Taking,
        On, Sees, Release, LOW, HIGH, atnLines
<1>1. CASE StartJob
  <2>1. job' \in Seq(Operations)
    BY <1>1, JobsAssumption DEF StartJob, Operations, Byte
  <2>2. Len(job') \in Nat
    BY <2>1
  <2>3. <<>> \in Seq(Byte)
    OBVIOUS
  <2>4. QED
    BY <1>1, <2>2, <2>3 DEF StartJob
<1>2. CASE NextOperation
  <2>1. UNCHANGED <<job, op, cbit, cbyte, loaded, result, jobs, resets>> /\ op <= Len(job)
    BY <1>2 DEF NextOperation
  <2>2. /\ cAtn' \in {LOW, HIGH} /\ cClock' \in {LOW, HIGH} /\ cData' \in {LOW, HIGH}
        /\ cpos' = 1 /\ ceoi' = FALSE
        /\ \/ cpc' = "r_clock"
           \/ cpc' \in {"atn", "byte"} /\ Operation.kind \in {"command", "out"}
    BY <1>2, <2>1, JobTypes DEF NextOperation
  <2>3. Operation' = Operation
    BY <2>1 DEF Operation
  <2>4. OperationInv'
    <3>1. CASE cpc' = "r_clock"
      BY <2>1, <2>2, <3>1
    <3>2. CASE cpc' \in {"atn", "byte"} /\ Operation.kind \in {"command", "out"}
      <4>1. Operation.kind # "in"
        BY <3>2
      <4>2. Len(Operation.bytes) \in Nat \ {0}
        BY <2>1, <4>1, JobTypes
      <4>3. 1 \in 1 .. Len(Operation.bytes)
        BY <4>2
      <4>4. QED
        BY <2>1, <2>2, <2>3, <3>2, <4>3
    <3>3. QED
      BY <2>2, <3>1, <3>2
  <2>5. QED
    BY <2>1, <2>2, <2>4
<1>3. CASE EndJob
  BY <1>3 DEF EndJob
<1>4. CASE GiveUp
  BY <1>4 DEF GiveUp
<1>5. CASE Reset
  BY <1>5 DEF Reset
<1>6. QED
  BY <1>1, <1>2, <1>3, <1>4, <1>5

(* The C64 gives a byte, *)
LEMMA GiveTypes ==
    ASSUME C64Inv, faults' = faults,
           \/ AtnClockLow \/ BeginByte \/ NoDevice \/ ByteReady \/ GiveBit \/ GiveBitEnd
           \/ ByteError \/ ByteTaken \/ AtnRelease \/ TurnDone
    PROVE  C64Inv'
<1> USE ConstantTypes DEF C64Inv, OperationInv, CbyteInv, C64Points, Giving, Taking,
        On, Sees, LOW, HIGH, atnLines
<1> Len(job) \in Nat
  BY JobTypes
<1>0. job' = job /\ op' = op => Operation' = Operation
  BY DEF Operation
<1>1. CASE AtnClockLow
  BY <1>0, <1>1 DEF AtnClockLow
<1>2. CASE BeginByte
  BY <1>0, <1>2 DEF BeginByte
<1>3. CASE NoDevice
  BY <1>3, JobStepTypes DEF NoDevice
<1>4. CASE ByteReady
  BY <1>0, <1>4 DEF ByteReady
<1>5. CASE GiveBit
  <2>1. /\ cpc = "bit" /\ cpc' = "hold" /\ cClock' = HIGH
        /\ cData' = BitOf(Operation.bytes[cpos], cbit)
        /\ UNCHANGED <<cAtn, job, op, cbit, cpos, ceoi, cbyte, loaded, result, jobs, resets>>
    BY <1>5 DEF GiveBit
  <2>2. /\ Operation.bytes[cpos] \in Byte
    BY <2>1, JobTypes
  <2>3. cData' \in {LOW, HIGH}
    <3>1. Operation.bytes[cpos] \in Nat /\ cbit \in 0 .. Bits - 1
      BY <2>1, <2>2, BitsAssumption DEF Byte
    <3>2. BitOf(Operation.bytes[cpos], cbit) \in {0, 1}
      BY <3>1, BitStep
    <3>3. QED
      BY <2>1, <3>2
  <2>4. QED
    BY <1>0, <2>1, <2>3
<1>6. CASE GiveBitEnd
  BY <1>0, <1>6 DEF GiveBitEnd
<1>7. CASE ByteError
  BY <1>7, JobStepTypes DEF ByteError
<1>8. CASE ByteTaken
  <2>1. /\ cpc = "taken"
        /\ UNCHANGED <<atnLines, job, cbit, ceoi, cbyte, loaded, result, jobs, resets>>
        /\ \/ cpos < Len(Operation.bytes) /\ cpos' = cpos + 1 /\ cpc' = "byte" /\ op' = op
           \/ cpos' = cpos /\ cpc' = "release" /\ op' = op
           \/ cpos' = cpos /\ cpc' = "next" /\ op' = op + 1
    BY <1>8 DEF ByteTaken
  <2>2. Len(Operation.bytes) \in Nat
    BY <2>1, JobTypes
  <2>3. QED
    BY <1>0, <2>1, <2>2
<1>9. CASE AtnRelease
  BY <1>9 DEF AtnRelease
<1>10. CASE TurnDone
  BY <1>10 DEF TurnDone
<1>11. QED
  BY <1>1, <1>2, <1>3, <1>4, <1>5, <1>6, <1>7, <1>8, <1>9, <1>10

(* and takes one. *)
LEMMA TakeTypes ==
    ASSUME C64Inv, faults' = faults,
           TakeReady \/ TakeEoi \/ TakeError \/ TakeBit \/ TakeByte \/ TakeDone
    PROVE  C64Inv'
<1> USE ConstantTypes DEF C64Inv, OperationInv, CbyteInv, C64Points, Giving, Taking,
        On, Sees, LOW, HIGH, atnLines
<1> Len(job) \in Nat
  BY JobTypes
<1>1. CASE TakeReady
  BY <1>1 DEF TakeReady
<1>2. CASE TakeEoi
  BY <1>2 DEF TakeEoi
<1>3. CASE TakeError
  BY <1>3, JobStepTypes DEF TakeError
<1>4. CASE TakeBit
  <2>1. CASE Sees("r_start") /\ cpc' = "r_high" /\ cbit' = cbit /\ cbyte' = cbyte
    BY <1>4, <2>1 DEF TakeBit
  <2>2. CASE Sees("r_high") /\ cpc' = "r_fall" /\ cbit' = cbit /\ cbyte' = cbyte + data * Pow2[cbit]
    <3>1. cbyte' \in Byte /\ cbyte' < Pow2[cbit + 1]
      BY <2>2, BitAdded, LineTypes
    <3>2. QED
      BY <1>4, <2>2, <3>1 DEF TakeBit
  <2>3. CASE Sees("r_fall") /\ cbit + 1 < Bits /\ cpc' = "r_high" /\ cbit' = cbit + 1 /\ cbyte' = cbyte
    BY <1>4, <2>3 DEF TakeBit
  <2>4. QED
    BY <1>4, <2>1, <2>2, <2>3 DEF TakeBit
<1>5. CASE TakeByte
  <2>1. Append(loaded, cbyte) \in Seq(Byte)
    OBVIOUS
  <2>2. QED
    BY <1>5, <2>1 DEF TakeByte
<1>6. CASE TakeDone
  BY <1>6 DEF TakeDone
<1>7. QED
  BY <1>1, <1>2, <1>3, <1>4, <1>5, <1>6

(* The sketch leaves the C64 alone. *)
LEMMA C64Kept ==
    ASSUME C64Inv, UNCHANGED <<c64Vars, faults>>
    PROVE  C64Inv'
BY DEF C64Inv, OperationInv, Operation, CbyteInv, c64Vars, c64State, atnLines

(* Each of the two keeps its hands off the other's variables. *)
LEMMA Apart ==
    /\ Device => UNCHANGED c64Vars
    /\ C64 \/ Reset => UNCHANGED devVars
<1>1. ASSUME Device PROVE UNCHANGED c64Vars
  BY <1>1 DEF Device, GetReady, GetStart, GetEoi, GetClockLow, GetBit, GetBitEnd, GetTimeout,
     PutBegin, PutReady, PutStart, PutReturn, PutBit, PutBitEnd, PutEnd, PutTimeout, Loop,
     AtnClock, AtnDevice, AtnSecondary, AtnReleased, OpenNext, OpenByte, RecvNext, RecvByte,
     Turnaround, SendFile
<1>2. ASSUME C64 \/ Reset PROVE UNCHANGED devVars
  BY <1>2 DEF C64, Reset, StartJob, NextOperation, EndJob, GiveUp, AtnClockLow, BeginByte,
     NoDevice, ByteReady, GiveBit, GiveBitEnd, ByteError, ByteTaken, AtnRelease, TurnDone,
     TakeReady, TakeEoi, TakeError, TakeBit, TakeByte, TakeDone
<1>3. QED
  BY <1>1, <1>2

(* Together they hold always. *)
LEMMA TypesInv == Spec => [](DevInv /\ C64Inv)
<1>1. Init => DevInv /\ C64Inv
  <2>1. ASSUME Init PROVE DevInv
    <3>1. <<>> \in Seq(Byte) /\ Len(<<>>) = 0
      OBVIOUS
    <3>2. QED
      <4> USE <2>1, <3>1, ConstantTypes DEF Init, DevPoints, Getting, Putting, Waiting
      <4>1. ByteInv
        BY DEF ByteInv
      <4>2. BufferInv
        BY DEF BufferInv
      <4>3. dpc \in DevPoints /\ force_eoi \in BOOLEAN
        OBVIOUS
      <4>4. /\ dClock \in {"in", "low", "high"} /\ dData \in {"in", "low", "high"}
            /\ caller \in {"device", "sec", "open", "recv"} /\ eoi \in 0 .. 1 /\ flag \in 0 .. 1
        OBVIOUS
      <4>5. QED
        BY ONLY <4>1, <4>2, <4>3, <4>4 DEF DevInv
  <2>2. ASSUME Init PROVE C64Inv
    <3>1. <<>> \in Seq(Byte) /\ Len(<<>>) = 0
      OBVIOUS
    <3>2. QED
      <4> USE <2>2, <3>1, ConstantTypes DEF Init, C64Points, Giving, Taking
      <4>1. OperationInv
        BY DEF OperationInv
      <4>2. CbyteInv
        BY DEF CbyteInv
      <4>3. /\ cpc \in C64Points /\ cpos \in Nat /\ ceoi \in BOOLEAN /\ loaded \in Seq(Byte)
            /\ result \in {"none", "busy", "ok", "error"}
        OBVIOUS
      <4>4. /\ cAtn \in {LOW, HIGH} /\ cClock \in {LOW, HIGH} /\ cData \in {LOW, HIGH}
            /\ jobs \in 0 .. MaxJobs /\ resets \in 0 .. MaxResets /\ faults \in Faults
        OBVIOUS
      <4>5. QED
        BY ONLY <4>1, <4>2, <4>3, <4>4 DEF C64Inv
  <2>3. QED
    BY <2>1, <2>2
<1>2. DevInv /\ C64Inv /\ [Next]_vars => DevInv' /\ C64Inv'
  <2>1. SUFFICES ASSUME DevInv, C64Inv, [Next]_vars
                 PROVE  DevInv' /\ C64Inv'
    OBVIOUS
  <2>2. CASE Device /\ faults' = faults
    BY <2>1, <2>2, Apart, C64Kept, GetTypes, PutTypes, LoopTypes DEF Device
  <2>3. CASE C64 /\ faults' = faults
    BY <2>1, <2>3, Apart, DevKept, JobStepTypes, GiveTypes, TakeTypes DEF C64
  <2>4. CASE Reset /\ faults' = faults
    BY <2>1, <2>4, Apart, DevKept, JobStepTypes
  <2>5. CASE UNCHANGED vars
    BY <2>1, <2>5, DevKept, C64Kept DEF vars
  <2>6. QED
    BY <2>1, <2>2, <2>3, <2>4, <2>5 DEF Next, Rest
<1>3. QED
  BY <1>1, <1>2, PTL DEF Spec

(* For every file, every set of jobs and every size of a byte, no bit is   *)
(* shifted out of its byte, handle_open does not run past its buffer and   *)
(* send_file sends no byte that it does not have, whatever the C64 does    *)
(* and whenever it is reset.                                               *)
THEOREM TypeCorrect == Spec => []TypeOK
<1>1. DevInv /\ C64Inv => TypeOK
  <2>1. DevPoints = DevPc /\ C64Points = C64Pc
    BY DEF DevPoints, DevPc, Getting, Putting, Waiting, DevWait, C64Points, C64Pc, Giving, Taking,
       C64Wait
  <2>2. QED
    BY <2>1 DEF DevInv, ByteInv, BufferInv, C64Inv, OperationInv, CbyteInv, TypeOK, Putting
<1>2. QED
  BY <1>1, TypesInv, PTL

-----------------------------------------------------------------------------
(***************************************************************************)
(* The sketch and the C64 in step                                          *)
(*                                                                         *)
(* Without faults, each point of the C64 in an operation goes with a few   *)
(* points of the sketch: Lock says which, and what each of the two then    *)
(* knows of the other. The ranks rule out all else.                        *)
(***************************************************************************)
(* What the sketch drives, *)
DevLines ==
    /\ dClock = IF dpc \in {"p_inf", "p_high", "p_low", "p_hold"} THEN "high"
                ELSE IF dpc \in {"put", "send", "sent", "p_ready", "p_bit", "p_end", "p_ack"}
                THEN "low"
                ELSE "in"
    /\ dpc \in {"a_high", "a_low", "u_atn", "o_atn", "l_atn", "o_next", "r_next",
                "g_clock", "g_pulsed", "got"} => dData = "low"
    /\ dpc \in {"g_data", "g_eoi", "g_low", "g_high", "g_fall", "t_atn", "turn", "send", "put",
                "p_inf", "p_high", "p_low", "p_ready", "p_ack", "sent"} => dData = "in"
    /\ dpc = "p_hold" => dData = IF BitOf(byte, bit) = 1 THEN "high" ELSE "low"
    /\ dpc \in {"p_bit", "p_end", "g_pulse"} => dData # "low"

(* In get_byte and its return *)
Attending ==
    {"g_clock", "g_data", "g_eoi", "g_pulse", "g_pulsed", "g_low", "g_high", "g_fall", "got"}

(* and what it has set: EOI is due to force_eoi, to the C64's silence or to *)
(* the end of the file.                                                    *)
DevFlags ==
    /\ dpc \in Attending => (force_eoi <=> caller \in {"device", "sec"})
    /\ dpc \in {"g_clock", "g_data", "g_eoi"} => eoi = 0
    /\ dpc \in {"g_low", "g_pulse", "g_pulsed"} => eoi = 1
    /\ dpc \in {"g_eoi", "g_pulse", "g_pulsed"} => caller \in {"open", "recv"}
    /\ dpc \in {"g_high", "g_fall", "got"} /\ caller \in {"device", "sec"} => eoi = 1
    /\ dpc = "p_inf" => flag = eoi
    /\ dpc \in {"p_inf", "p_high", "p_low", "p_ready", "p_bit", "p_hold", "p_end", "p_ack", "sent"} =>
         (eoi = 1 <=> IsLast)

(* The next operation of the C64 *)
Now(k) == op <= Len(job) /\ Operation.kind = k

(* What the C64 pulls *)
C64Lines ==
    /\ cAtn = IF \/ cpc \in {"atn", "present", "release"}
                 \/ /\ cpc \in {"byte", "ready", "bit", "hold", "taken"}
                    /\ Operation.kind = "command"
              THEN LOW ELSE HIGH
    /\ cpc \in {"idle", "off", "eoi_ready", "eoi_seen", "ready", "hold", "turn"}
              \cup {"r_clock", "r_start", "r_pulse", "r_high", "r_fall", "r_done"} => cClock = HIGH
    /\ cpc \in {"present", "byte", "bit", "taken", "release"} => cClock = LOW
    /\ cpc = "next" /\ Now("out") => cClock = LOW
    /\ cpc = "next" /\ Now("in") => cClock = HIGH
    /\ cpc \in {"turn", "r_clock", "r_pulse", "r_done"} \/ (cpc = "next" /\ Now("in")) =>
         cData = LOW
    /\ cpc \notin {"turn", "r_clock", "r_pulse", "r_done", "hold"} /\ ~(cpc = "next" /\ Now("in")) =>
         cData = HIGH
    /\ cpc = "hold" => cData = BitOf(Operation.bytes[cpos], cbit)

(* The byte that the C64 gives *)
Sent == Operation.bytes[cpos]

(* The sketch is in loop() or on its way to it. *)
Behind ==
    \/ dpc \in {"loop", "u_atn", "a_high"}
    \/ /\ dpc = "got" /\ eoi = 1
       /\ \/ caller \in {"open", "recv"}
          \/ caller = "device" /\ Mode(byte) \in {UNLISTEN, UNTALK}
          \/ caller = "sec" /\ Mode(byte) \notin {OPEN, DATA}

(* How much of the data handle_open has put into iobuf *)
Heard == IF cpc = "next" THEN 0 ELSE IF dpc = "got" /\ cpc # "taken" THEN cpos - 2 ELSE cpos - 1

(* The sketch listens for data, or is about to, between two bytes. *)
Listens ==
    \/ /\ dpc = "got" /\ eoi = 1 /\ caller = "sec"
       /\ \/ Mode(byte) = OPEN /\ Len(Operation.bytes) < IobufSize
          \/ Mode(byte) = DATA /\ Mode(device_mode) = LISTEN /\ Address(byte) = 1
       /\ cpc # "next" => cpos = 1
    \/ dpc = "o_atn" /\ (cpc # "next" => cpos = 1) /\ Len(Operation.bytes) < IobufSize
    \/ dpc = "l_atn" /\ (cpc # "next" => cpos = 1) /\ Address(secondary) = 1
    \/ dpc = "r_next"
    \/ dpc = "g_clock" /\ caller = "recv"
    \/ dpc = "got" /\ eoi = 0 /\ caller = "recv"
    \/ /\ \/ dpc = "o_next"
          \/ dpc = "g_clock" /\ caller = "open"
          \/ dpc = "got" /\ eoi = 0 /\ caller = "open" /\ cpc # "next"
       /\ Len(iobuf) = Heard
       /\ Len(Operation.bytes) < IobufSize

(* It is in get_byte for a byte of the data. *)
Hearing ==
    \/ caller = "recv"
    \/ caller = "open" /\ Len(iobuf) = cpos - 1 /\ Len(Operation.bytes) < IobufSize

(* Nothing but EOI may come after this byte. *)
Final == Operation.kind = "command" \/ cpos = Len(Operation.bytes)

(* Both are at the same bit of the same byte, of which the sketch has what *)
(* has been given so far.                                                  *)
InStep ==
    /\ Operation.kind = "command" => /\ caller = IF cpos = 1 THEN "device" ELSE "sec"
                                     /\ cpos = 2 => device_mode = Operation.bytes[1]
    /\ Operation.kind = "out" => Hearing
    /\ dpc \notin {"g_data"} => (eoi = 1 <=> Final)
    /\ dpc = "g_data" => Operation.kind = "command" \/ ~Final
    /\ dpc = "g_low" => Final
    /\ dpc = "g_eoi" => ~Final
    /\ cpc = "bit" => \/ dpc \in {"g_data", "g_low", "g_eoi"} /\ cbit = 0
                      \/ dpc = "g_high" /\ cbit = bit /\ byte = Sent % Pow2[bit]
                      \/ dpc = "g_fall" /\ cbit = bit + 1 /\ byte = Sent % Pow2[bit + 1]
    /\ cpc = "hold" => /\ cbit = bit
                       /\ \/ dpc = "g_high" /\ byte = Sent % Pow2[bit]
                          \/ dpc = "g_fall" /\ byte = Sent % Pow2[bit + 1]
    /\ cpc = "taken" => \/ dpc = "g_fall" /\ bit + 1 = Bits /\ byte = Sent
                        \/ dpc = "got" /\ byte = Sent

(* The sketch is ready for the second byte of a command. *)
Second ==
    \/ dpc = "got" /\ caller = "device" /\ eoi = 1 /\ byte = Operation.bytes[1]
    \/ /\ caller = "sec" /\ device_mode = Operation.bytes[1]
       /\ \/ dpc = "g_clock"
          \/ cpc = "ready" /\ dpc \in {"g_data", "g_low"}

(* It has the whole command, and acts on it. *)
Released ==
    LET b == Operation.bytes IN
    IF cpos = 1
    THEN dpc = "u_atn" \/ (dpc = "got" /\ caller = "device" /\ eoi = 1 /\ byte = b[1])
    ELSE \/ dpc = "got" /\ caller = "sec" /\ eoi = 1 /\ byte = b[2] /\ device_mode = b[1]
         \/ dpc \in {"loop", "a_high"} /\ Mode(b[2]) = CLOSE
         \/ dpc = "o_atn" /\ Mode(b[2]) = OPEN
         \/ dpc = "l_atn" /\ Mode(b[2]) = DATA /\ Mode(b[1]) = LISTEN /\ secondary = b[2]
         \/ dpc = "t_atn" /\ Mode(b[2]) = DATA /\ Mode(b[1]) = TALK

(* Where the sketch is while the C64 gives a command, *)
CommandPlace ==
    /\ cpc \in {"atn", "present"} => Operation.kind = "command" /\ cpos = 1
    /\ cpc = "atn" => Behind \/ (dpc = "a_low" /\ cClock = HIGH)
    /\ cpc = "present" => Behind \/ dpc = "a_low" \/ (dpc = "g_clock" /\ caller = "device")
    /\ cpc = "ready" /\ Operation.kind = "command" /\ cpos = 1 =>
         /\ \/ Behind
            \/ dpc = "a_low"
            \/ dpc \in {"g_clock", "g_data", "g_low"} /\ caller = "device"
         /\ dpc = "loop" => dData = "low"
    /\ cpc \in {"byte", "ready"} /\ Operation.kind = "command" /\ cpos # 1 => cpos = 2 /\ Second
    /\ cpc = "byte" /\ Operation.kind = "command" => cpos = 2
    /\ cpc = "release" => Operation.kind = "command" /\ cpos = Len(Operation.bytes) /\ Released

(* while it gives data, *)
OutPlace ==
    /\ cpc = "byte" /\ Operation.kind = "out" => Listens
    /\ cpc = "ready" /\ Operation.kind = "out" =>
         IF cpos < Len(Operation.bytes)
         THEN Listens \/ (dpc \in {"g_data", "g_eoi"} /\ Hearing)
         ELSE dpc \in {"g_pulsed", "g_low"} /\ Hearing
    /\ cpc \in {"eoi_ready", "eoi_seen"} => Operation.kind = "out" /\ cpos = Len(Operation.bytes)
    /\ cpc = "eoi_ready" => Listens \/ (dpc \in {"g_data", "g_eoi"} /\ Hearing)
    /\ cpc = "eoi_seen" =>
         /\ Hearing
         /\ dpc \in {"g_data", "g_eoi", "g_pulse", "g_pulsed"}

(* while it takes data, *)
InPlace ==
    /\ cpc = "turn" => /\ Now("in")
                       /\ \/ /\ dpc = "got" /\ caller = "sec" /\ eoi = 1
                             /\ Mode(byte) = DATA /\ Mode(device_mode) = TALK
                          \/ dpc \in {"t_atn", "turn", "send"}
    /\ cpc \in {"r_clock", "r_start", "r_pulse", "r_high", "r_fall", "r_done"} =>
         Operation.kind = "in"
    /\ cpc = "r_clock" => /\ ~ceoi
                          /\ \/ dpc \in {"send", "put", "p_inf"}
                             \/ dpc \in {"p_end", "p_ack", "sent"} /\ eoi = 0
    /\ cpc = "r_start" => /\ dpc \in {"p_inf", "p_high", "p_low"} => ~ceoi
                          /\ dpc \in {"p_high", "p_low"} => eoi = 1
                          /\ dpc \in {"p_ready", "p_bit"} => (ceoi <=> eoi = 1) /\ bit = 0
                          /\ dpc \in {"p_inf", "p_high", "p_low", "p_ready", "p_bit"}
    /\ cpc = "r_pulse" => dpc \in {"p_low", "p_ready"} /\ ceoi /\ eoi = 1
    /\ cpc \in {"r_high", "r_fall"} => (ceoi <=> eoi = 1)
    /\ cpc = "r_high" => dpc \in {"p_ready", "p_bit", "p_hold"} /\ cbit = bit /\ cbyte = byte % Pow2[cbit]
    /\ cpc = "r_fall" =>
         /\ cbyte = byte % Pow2[cbit + 1]
         /\ \/ dpc = "p_hold" /\ cbit = bit
            \/ dpc = "p_bit" /\ cbit + 1 = bit
            \/ dpc = "p_end" /\ cbit + 1 = Bits
    /\ cpc = "r_done" => dpc = "loop" \/ (dpc \in {"p_end", "p_ack", "sent"} /\ eoi = 1)

(* and between two operations. *)
NextPlace ==
    /\ cpc \in {"idle", "off"} => Behind /\ dpc # "a_high"
    /\ cpc = "next" =>
         /\ op > Len(job) => Behind /\ dpc # "a_high"
         /\ Now("command") => Behind /\ (dpc = "a_high" => cClock = LOW)
         /\ Now("out") => Listens
         /\ Now("in") => dpc \in {"send", "put", "p_inf"}

Lock ==
    /\ DevLines /\ DevFlags /\ C64Lines
    /\ CommandPlace /\ OutPlace /\ InPlace /\ NextPlace
    /\ (cpc \in {"bit", "hold", "taken"} => InStep)
    /\ job = <<>> \/ KernalJob(job)

(* loop() polls in time, no file is missing, and nobody resets the C64. *)
Quiet == "slow" \notin faults /\ "reset" \notin faults /\ "missing" \notin faults

(* How long each step of the sketch takes, *)
LEMMA DevRankIs ==
    /\ dpc \in {"a_high", "g_clock", "g_high"} => DevRank = IF clock = HIGH THEN AtOnce ELSE Long
    /\ dpc \in {"a_low", "g_low", "g_fall"} => DevRank = IF clock = LOW THEN AtOnce ELSE Long
    /\ dpc \in {"u_atn", "o_atn", "l_atn", "t_atn"} => DevRank = IF cAtn = HIGH THEN AtOnce ELSE Long
    /\ dpc \in {"g_data", "p_high", "p_ready"} => DevRank = IF data = HIGH THEN AtOnce ELSE Long
    /\ dpc \in {"p_low", "p_ack"} => DevRank = IF data = LOW THEN AtOnce ELSE Long
    /\ dpc = "g_eoi" => DevRank = IF clock = LOW THEN AtOnce ELSE Short
    /\ dpc = "p_inf" => DevRank = IF data = HIGH THEN AtOnce ELSE Never
    /\ dpc = "loop" /\ "slow" \notin faults => DevRank = IF cAtn = HIGH THEN Never ELSE Delay
    /\ dpc \in {"got", "g_pulse", "g_pulsed", "put", "p_bit", "p_hold", "p_end", "sent", "o_next",
                "r_next", "turn", "send"} => DevRank = Delay
BY DEF DevRank, DevWait, RankOf

(* and each of the C64. *)
LEMMA C64RankIs ==
    /\ cpc \in {"eoi_ready", "ready"} => C64Rank = IF data = HIGH THEN AtOnce ELSE Never
    /\ cpc = "eoi_seen" => C64Rank = IF data = LOW THEN AtOnce ELSE Never
    /\ cpc = "taken" => C64Rank = IF data = LOW THEN AtOnce ELSE Ack
    /\ cpc \in {"turn", "r_fall"} => C64Rank = IF clock = LOW THEN AtOnce ELSE Never
    /\ cpc \in {"r_clock", "r_high"} => C64Rank = IF clock = HIGH THEN AtOnce ELSE Never
    /\ cpc = "r_start" => C64Rank = IF clock = LOW THEN AtOnce ELSE Short
    /\ cpc = "present" => C64Rank = Ack
    /\ cpc = "r_done" => C64Rank = Short
    /\ cpc = "off" => C64Rank = Never
    /\ cpc \in {"idle", "next", "atn", "byte", "bit", "hold", "release", "r_pulse"} => C64Rank = Delay
BY DEF C64Rank, C64Wait, RankOf

(* The invariant: types, no faults, and both in step *)
Joint == DevInv /\ C64Inv /\ Quiet /\ Lock

(* An operation is one of three kinds. *)
LEMMA KindIs == Joint /\ op <= Len(job) => Operation.kind \in {"command", "out", "in"}
BY JobTypes DEF Joint, C64Inv

(* The C64 has not yet given the first byte of its data. *)
Beginning ==
    /\ Operation.kind = "out"
    /\ \/ cpc = "next" /\ Now("out")
       \/ cpc \in {"byte", "eoi_ready"} /\ cpos = 1
       \/ cpc = "ready" /\ cpos = 1 /\ cpos < Len(Operation.bytes)

(* What a command that the C64 is at may be *)
LEMMA CommandIs ==
    ASSUME Joint, op <= Len(job), Operation.kind = "command"
    PROVE  LET b == Operation.bytes IN
           \/ Len(b) = 1 /\ Mode(b[1]) \in {UNLISTEN, UNTALK} /\ Mode(b[1]) \notin {LISTEN, TALK}
           \/ /\ Len(b) = 2 /\ Mode(b[1]) \notin {UNLISTEN, UNTALK}
              /\ \/ Mode(b[1]) = LISTEN /\ Mode(b[1]) # TALK /\ Mode(b[2]) \in {OPEN, CLOSE, DATA}
                    /\ (Mode(b[2]) = DATA => Address(b[2]) = 1)
                 \/ Mode(b[1]) = TALK /\ Mode(b[1]) # LISTEN /\ Mode(b[2]) = DATA
<1>1. op \in DOMAIN job /\ KernalJob(job)
  <2>1. <<>> \in Seq(Operations) /\ Len(<<>>) = 0
    OBVIOUS
  <2>2. job \in Seq(Operations) /\ op \in Nat \ {0}
    BY JobsAssumption DEF Joint, C64Inv, OperationInv, Operations, Byte
  <2>3. op \in DOMAIN job /\ job # <<>>
    BY <2>1, <2>2
  <2>4. QED
    BY <2>3 DEF Joint, Lock
<1>2. QED
  BY <1>1, ModeAssumption DEF KernalJob, Operation

(* The byte that the C64 is giving *)
LEMMA SentType ==
    ASSUME Joint, cpc \in Giving
    PROVE  Sent \in Byte /\ Sent \in Nat /\ Sent % Pow2[0] = 0 /\ Sent % Pow2[Bits] = Sent
<1>1. Sent \in Byte
  BY JobTypes DEF Joint, C64Inv, OperationInv, Sent
<1>2. Pow2[Bits] \in Nat \ {0} /\ Pow2[0] = 1
  BY BitsAssumption, Pow2Type, Pow2Is
<1>3. Sent \in Nat /\ Sent < Pow2[Bits]
  BY <1>1, <1>2 DEF Byte
<1>4. QED
  BY <1>1, <1>2, <1>3

(* The byte that the sketch is giving *)
LEMMA ByteType ==
    ASSUME Joint
    PROVE  byte \in Nat /\ byte % Pow2[0] = 0 /\ \A i \in 0 .. Bits - 1 : BitOf(byte, i) \in {0, 1}
<1>1. byte \in Byte
  BY DEF Joint, DevInv, ByteInv
<1>2. Pow2[Bits] \in Nat \ {0} /\ Pow2[0] = 1
  BY BitsAssumption, Pow2Type, Pow2Is
<1>3. byte \in Nat
  BY <1>1, <1>2 DEF Byte
<1>4. QED
  BY <1>2, <1>3, BitStep

(* What stays of the C64 when the sketch goes on *)
LEMMA C64Stays ==
    ASSUME Joint, UNCHANGED c64Vars
    PROVE  /\ C64Lines' /\ (job = <<>> \/ KernalJob(job))' /\ Operation' = Operation /\ Sent' = Sent /\ (Final' <=> Final) /\ (Operation.kind = "command" => Final)
           /\ \A k : Now(k)' = Now(k)
           /\ UNCHANGED <<cAtn, cClock, cData, job, op, cpc, cbit, cpos, ceoi, cbyte, loaded>>
<1>1. UNCHANGED <<cAtn, cClock, cData, job, op, cpc, cbit, cpos, ceoi, cbyte, loaded>>
  BY DEF c64Vars, c64State, atnLines
<1>2. Operation' = Operation /\ Sent' = Sent /\ (Final' <=> Final) /\ (Operation.kind = "command" => Final)
  BY <1>1 DEF Operation, Sent, Final
<1>3. \A k : Now(k)' = Now(k)
  BY <1>1, <1>2 DEF Now
<1>4. C64Lines'
  BY <1>1, <1>2, <1>3 DEF Joint, Lock, C64Lines
<1>5. (job = <<>> \/ KernalJob(job))'
  BY <1>1 DEF Joint, Lock, KernalJob
<1>6. QED
  BY <1>1, <1>2, <1>3, <1>4, <1>5

(* What stays of the sketch when the C64 goes on *)
LEMMA DevStays ==
    ASSUME Joint, UNCHANGED devVars
    PROVE  /\ DevLines' /\ DevFlags'
           /\ UNCHANGED <<dClock, dData, dpc, caller, force_eoi, eoi, flag, bit, byte, device_mode,
                           secondary, iobuf, pos, stored>>
<1>1. UNCHANGED <<dClock, dData, dpc, caller, force_eoi, eoi, flag, bit, byte, device_mode,
                  secondary, iobuf, pos, stored>>
  BY DEF devVars, drives, locals, globals
<1>2. QED
  BY <1>1 DEF Joint, Lock, DevLines, DevFlags, IsLast

(* What stays of the job *)
LEMMA JobStays ==
    ASSUME Joint, job' = job, op' = op
    PROVE  /\ Operation' = Operation /\ (job = <<>> \/ KernalJob(job))'
           /\ \A k : Now(k)' = Now(k)
<1>1. Operation' = Operation
  BY DEF Operation
<1>2. QED
  BY <1>1 DEF Joint, Lock, Now

(* The KERNAL goes on to its next operation. *)
LEMMA FollowedBy ==
    ASSUME Joint, op <= Len(job), job' = job, op' = op + 1
    PROVE  /\ (job = <<>> \/ KernalJob(job))'
           /\ Operation.kind # "command" => Now("command")'
           /\ Operation.kind = "command" =>
                LET b == Operation.bytes IN
                \/ Len(b) = 1 /\ ((op > Len(job))' \/ Now("command")')
                \/ /\ Len(b) = 2 /\ Mode(b[1]) = LISTEN /\ Mode(b[2]) = OPEN
                   /\ Now("out")' /\ Len(Operation'.bytes) < IobufSize
                \/ Len(b) = 2 /\ Mode(b[1]) = LISTEN /\ Mode(b[2]) = DATA /\ Now("out")'
                \/ Len(b) = 2 /\ Mode(b[1]) = LISTEN /\ Mode(b[2]) = CLOSE /\ Now("command")'
                \/ Len(b) = 2 /\ Mode(b[1]) = TALK /\ Mode(b[2]) = DATA /\ Now("in")'
<1>1. job # <<>> /\ op \in DOMAIN job /\ op \in Nat /\ Len(job) \in Nat
  <2>1. <<>> \in Seq(Operations) /\ Len(<<>>) = 0
    OBVIOUS
  <2>2. job \in Seq(Operations) /\ op \in Nat \ {0}
    BY JobsAssumption DEF Joint, C64Inv, OperationInv, Operations, Byte
  <2>3. QED
    BY <2>1, <2>2
<1>2. KernalJob(job)
  BY <1>1 DEF Joint, Lock
<1>3. Operation = job[op] /\ Operation' = job[op + 1]
  BY DEF Operation
<1>4. \A k : Now(k)' <=> op + 1 <= Len(job) /\ job[op + 1].kind = k
  BY <1>3 DEF Now
<1>5. \A k : op < Len(job) /\ job[op + 1].kind = k => Now(k)'
  BY <1>1, <1>4
<1>6. QED
  BY <1>1, <1>2, <1>3, <1>5 DEF KernalJob

(* get_byte has seen the clock go up: the C64 is at its first or second    *)
(* command byte or at a byte of its data.                                  *)
LEMMA GetReadyLock ==
    ASSUME Joint, GetReady
    PROVE  Lock'
<1>1. /\ dpc = "g_clock" /\ clock = HIGH /\ dData' = "in" /\ dpc' = "g_data"
      /\ UNCHANGED <<dClock, caller, locals, globals, c64Vars>>
  BY DevRankIs DEF GetReady, Passes, At, AtOnce, Long
<1>2. \/ cpc = "ready" /\ Operation.kind = "command" /\ cpos = 1 /\ caller = "device"
      \/ cpc = "ready" /\ Operation.kind = "command" /\ cpos = 2 /\ caller = "sec" /\ device_mode = Operation.bytes[1]
      \/ cpc = "ready" /\ Operation.kind = "out" /\ cpos < Len(Operation.bytes) /\ Hearing
      \/ cpc = "eoi_ready" /\ Hearing
  BY <1>1, KindIs DEF Joint, C64Inv, OperationInv, C64Points, Giving, Taking, Lock, C64Lines, Now,
     CommandPlace, OutPlace, InPlace, NextPlace, InStep, Behind, Listens, Hearing, Heard, Second,
     HIGH, LOW, clock
<1>3. DevLines'
  BY <1>1 DEF Joint, Lock, DevLines
<1>4. DevFlags'
  BY <1>1 DEF Joint, Lock, DevFlags, Attending, locals
<1>5. CommandPlace'
  BY <1>1, <1>2, C64Stays DEF CommandPlace, Second, globals
<1>6. OutPlace'
  BY <1>1, <1>2, C64Stays DEF Joint, Lock, OutPlace, Hearing, globals
<1>7. InPlace'
  BY <1>1, <1>2, C64Stays DEF InPlace
<1>8. NextPlace'
  BY <1>1, <1>2, C64Stays DEF NextPlace
<1>9. (cpc \in {"bit", "hold", "taken"} => InStep)'
  BY <1>1, <1>2, C64Stays
<1>10. QED
  BY <1>1, <1>3, <1>4, <1>5, <1>6, <1>7, <1>8, <1>9, C64Stays DEF Lock

(* DATA has gone up: whether get_byte looks for EOI agrees with whether    *)
(* this byte can be the last one.                                          *)
LEMMA GetStartLock ==
    ASSUME Joint, GetStart
    PROVE  Lock'
<1>1. /\ dpc = "g_data" /\ dpc' = (IF force_eoi THEN "g_low" ELSE "g_eoi")
      /\ eoi' = (IF force_eoi THEN 1 ELSE 0) /\ bit' = 0 /\ byte' = 0
      /\ UNCHANGED <<drives, caller, force_eoi, flag, globals, c64Vars>>
  BY DEF GetStart, Passes, At
<1>2. /\ (force_eoi <=> caller \in {"device", "sec"}) /\ dClock = "in" /\ dData = "in"
      /\ \/ cpc = "ready" /\ Operation.kind = "command" /\ cpos = 1 /\ caller = "device"
         \/ cpc = "ready" /\ Operation.kind = "command" /\ cpos = 2 /\ caller = "sec" /\ device_mode = Operation.bytes[1]
         \/ cpc = "ready" /\ Operation.kind = "out" /\ cpos < Len(Operation.bytes) /\ Hearing
         \/ cpc \in {"eoi_ready", "eoi_seen"} /\ Hearing
         \/ cpc = "bit" /\ InStep /\ Operation.kind \in {"command", "out"} /\ cbit = 0
  BY <1>1, KindIs DEF Joint, C64Inv, OperationInv, C64Points, Giving, Taking, Lock, DevLines,
     DevFlags, Attending, Now, CommandPlace, OutPlace, InPlace, NextPlace, InStep, Behind, Listens,
     Second, Released
<1>3. DevLines'
  BY <1>1, <1>2 DEF DevLines, drives
<1>4. DevFlags'
  BY <1>1, <1>2 DEF Joint, DevInv, DevFlags
<1>11. cpc = "bit" => (eoi' = 1 <=> Final)
  <2>1. ASSUME cpc = "bit", force_eoi PROVE eoi' = 1 /\ Final
    BY <1>1, <1>2, <2>1, C64Stays DEF InStep, Hearing
  <2>2. ASSUME cpc = "bit", ~force_eoi PROVE eoi' = 0 /\ ~Final
    BY <1>1, <1>2, <2>2, C64Stays DEF InStep, Hearing
  <2>3. QED
    BY <2>1, <2>2
<1>5. CommandPlace'
  BY <1>1, <1>2, C64Stays DEF CommandPlace, Second, globals
<1>6. OutPlace'
  BY <1>1, <1>2, C64Stays DEF Joint, Lock, OutPlace, Hearing, globals
<1>7. InPlace'
  BY <1>1, <1>2, C64Stays DEF InPlace
<1>8. NextPlace'
  BY <1>1, <1>2, C64Stays DEF NextPlace
<1>9. (cpc \in {"bit", "hold", "taken"} => InStep)'
  BY <1>1, <1>2, C64Stays DEF InStep, Hearing, globals
<1>10. QED
  BY <1>1, <1>3, <1>4, <1>5, <1>6, <1>7, <1>8, <1>9, C64Stays DEF Lock

(* The first bit begins. *)
LEMMA GetClockLowLock ==
    ASSUME Joint, GetClockLow
    PROVE  Lock'
<1>1. /\ dpc \in {"g_eoi", "g_low"} /\ clock = LOW /\ dpc' = "g_high"
      /\ UNCHANGED <<drives, caller, locals, globals, c64Vars>>
  BY DevRankIs DEF GetClockLow, Passes, At, AtOnce, Short, Long
<1>2. /\ dClock = "in" /\ dData = "in" /\ bit = 0 /\ byte = 0
      /\ caller \in {"device", "sec"} => eoi = 1
      /\ cpc = "bit" /\ InStep /\ cbit = 0 /\ Sent % Pow2[0] = 0
  BY Pow2Is, <1>1, DevRankIs, C64RankIs, KindIs, SentType DEF ByteInv, Joint, DevInv, C64Inv,
     OperationInv, C64Points, Giving, Taking, Lock, C64Lines, DevLines, DevFlags, Attending, Now,
     CommandPlace, OutPlace, InPlace, NextPlace, InStep, Final, Behind, Listens, Hearing, Heard,
     Second, Released, HIGH, LOW, clock, data, DevTurn, Passes, TimesOut, At, AtOnce, Delay, Short,
     Ack, Long, Never
<1>3. DevLines'
  BY <1>1, <1>2 DEF DevLines, drives
<1>4. DevFlags'
  BY <1>1 DEF Joint, Lock, DevFlags, Attending, locals
<1>5. CommandPlace'
  BY <1>1, <1>2, C64Stays DEF CommandPlace
<1>6. OutPlace'
  BY <1>1, <1>2, C64Stays DEF OutPlace
<1>7. InPlace'
  BY <1>1, <1>2, C64Stays DEF InPlace
<1>8. NextPlace'
  BY <1>1, <1>2, C64Stays DEF NextPlace
<1>9. (cpc \in {"bit", "hold", "taken"} => InStep)'
  BY <1>1, <1>2, C64Stays DEF InStep, Hearing, locals, globals
<1>10. QED
  BY <1>1, <1>3, <1>4, <1>5, <1>6, <1>7, <1>8, <1>9, C64Stays DEF Lock

(* A bit is read while the C64 holds it. *)
LEMMA GetBitLock ==
    ASSUME Joint, GetBit
    PROVE  Lock'
<1>1. /\ dpc = "g_high" /\ clock = HIGH /\ dpc' = "g_fall" /\ byte' = byte + data * Pow2[bit]
      /\ UNCHANGED <<drives, caller, force_eoi, eoi, flag, bit, globals, c64Vars>>
  BY DevRankIs DEF GetBit, Passes, At, AtOnce, Long
<1>2. /\ dClock = "in" /\ dData = "in" /\ cpc = "hold" /\ InStep
      /\ data = BitOf(Sent, bit) /\ bit \in 0 .. Bits - 1
  BY <1>1, DevRankIs, C64RankIs, KindIs, SentType, BitsAssumption DEF ByteInv, CbyteInv, Sent,
     Joint, DevInv, C64Inv, OperationInv, C64Points, Giving, Taking, Lock, C64Lines, DevLines,
     DevFlags, Attending, Now, CommandPlace, OutPlace, InPlace, NextPlace, InStep, Final, Behind,
     Listens, Hearing, Heard, Second, Released, HIGH, LOW, clock, data, DevTurn, Passes, TimesOut,
     At, AtOnce, Delay, Short, Ack, Long, Never
<1>3. DevLines'
  BY <1>1, <1>2 DEF DevLines, drives
<1>4. DevFlags'
  BY <1>1 DEF Joint, Lock, DevFlags, Attending
<1>11. byte' = Sent % Pow2[bit + 1]
  BY <1>1, <1>2, SentType, BitStep DEF InStep, Giving
<1>5. CommandPlace'
  BY <1>1, <1>2, C64Stays DEF CommandPlace
<1>6. OutPlace'
  BY <1>1, <1>2, C64Stays DEF OutPlace
<1>7. InPlace'
  BY <1>1, <1>2, C64Stays DEF InPlace
<1>8. NextPlace'
  BY <1>1, <1>2, C64Stays DEF NextPlace
<1>9. (cpc \in {"bit", "hold", "taken"} => InStep)'
  BY <1>1, <1>2, <1>11, C64Stays DEF InStep, Hearing, globals
<1>10. QED
  BY <1>1, <1>3, <1>4, <1>5, <1>6, <1>7, <1>8, <1>9, C64Stays DEF Lock

(* When the C64 takes the clock down it is at the next bit, or has given   *)
(* the last one.                                                           *)
LEMMA GetBitEndWhere ==
    ASSUME Joint, GetBitEnd
    PROVE  /\ dpc = "g_fall" /\ clock = LOW /\ bit' = bit + 1
           /\ IF bit + 1 < Bits
              THEN dpc' = "g_high" /\ UNCHANGED drives
              ELSE dpc' = "got" /\ dData' = "low" /\ dClock' = (IF eoi = 1 THEN "in" ELSE dClock)
           /\ UNCHANGED <<caller, force_eoi, eoi, flag, byte, globals, c64Vars>>
           /\ dClock = "in" /\ dData = "in" /\ InStep /\ bit \in 0 .. Bits - 1
           /\ \/ cpc = "bit" /\ bit + 1 < Bits /\ cbit = bit + 1 /\ byte = Sent % Pow2[bit + 1]
              \/ cpc = "taken" /\ ~(bit + 1 < Bits) /\ byte = Sent
<1>1. /\ dpc = "g_fall" /\ clock = LOW /\ bit' = bit + 1
      /\ IF bit + 1 < Bits
         THEN dpc' = "g_high" /\ UNCHANGED drives
         ELSE dpc' = "got" /\ dData' = "low" /\ dClock' = (IF eoi = 1 THEN "in" ELSE dClock)
      /\ UNCHANGED <<caller, force_eoi, eoi, flag, byte, globals, c64Vars>>
  BY DevRankIs DEF GetBitEnd, Passes, At, AtOnce, Long
<1>2. /\ dClock = "in" /\ dData = "in" /\ InStep /\ bit \in 0 .. Bits - 1
      /\ \/ cpc = "bit" /\ bit + 1 < Bits /\ cbit = bit + 1 /\ byte = Sent % Pow2[bit + 1]
         \/ cpc = "taken" /\ ~(bit + 1 < Bits) /\ byte = Sent
  BY <1>1, DevRankIs, C64RankIs, KindIs, BitsAssumption DEF ByteInv, CbyteInv, Joint, DevInv,
     C64Inv, OperationInv, C64Points, Giving, Taking, Lock, C64Lines, DevLines, DevFlags,
     Attending, Now, CommandPlace, OutPlace, InPlace, NextPlace, InStep, Final, Behind, Listens,
     Hearing, Heard, Second, Released, HIGH, LOW, clock, data, DevTurn, Passes, TimesOut, At,
     AtOnce, Delay, Short, Ack, Long, Never
<1>3. QED
  BY <1>1, <1>2

(* The C64 has taken the clock down after a bit. *)
LEMMA GetBitEndLock ==
    ASSUME Joint, GetBitEnd
    PROVE  Lock'
<1>1. DevLines'
  BY GetBitEndWhere DEF DevLines, drives
<1>2. DevFlags'
  BY GetBitEndWhere DEF Joint, Lock, DevFlags, Attending
<1>3. CommandPlace'
  BY GetBitEndWhere, C64Stays DEF Joint, Lock, CommandPlace, OutPlace, InPlace, NextPlace, InStep,
     Final, Behind, Listens, Hearing, Heard, Second, Released, locals, globals
<1>4. OutPlace'
  BY GetBitEndWhere, C64Stays DEF Joint, Lock, CommandPlace, OutPlace, InPlace, NextPlace, InStep,
     Final, Behind, Listens, Hearing, Heard, Second, Released, locals, globals
<1>5. InPlace'
  BY GetBitEndWhere, C64Stays DEF Joint, Lock, CommandPlace, OutPlace, InPlace, NextPlace, InStep,
     Final, Behind, Listens, Hearing, Heard, Second, Released, locals, globals
<1>6. NextPlace'
  BY GetBitEndWhere, C64Stays DEF NextPlace
<1>7. (cpc \in {"bit", "hold", "taken"} => InStep)'
  BY GetBitEndWhere, C64Stays DEF InStep, Hearing, locals, globals
<1>8. QED
  BY GetBitEndWhere, <1>1, <1>2, <1>3, <1>4, <1>5, <1>6, <1>7, C64Stays DEF Lock

(* EOI is answered while the C64 waits for just that. *)
LEMMA GetEoiLock ==
    ASSUME Joint, GetEoi
    PROVE  Lock'
<1>1. /\ \/ /\ dpc = "g_eoi" /\ clock = HIGH /\ dpc' = "g_pulse" /\ eoi' = 1 /\ dData' = "high"
         \/ dpc = "g_pulse" /\ dpc' = "g_pulsed" /\ eoi' = eoi /\ dData' = "low"
         \/ dpc = "g_pulsed" /\ dpc' = "g_low" /\ eoi' = eoi /\ dData' = "in"
      /\ DevTurn /\ UNCHANGED <<dClock, caller, force_eoi, flag, bit, byte, globals, c64Vars>>
  BY DevRankIs, LineTypes DEF GetEoi, Passes, TimesOut, At, DevTurn, AtOnce, Delay, Short, Ack,
     Long, Never, locals
<1>2. /\ Hearing /\ dClock = "in" /\ caller \in {"open", "recv"} /\ cpos = Len(Operation.bytes)
      /\ (force_eoi <=> caller \in {"device", "sec"})
      /\ \/ cpc = "eoi_seen" /\ Operation.kind = "out" /\ dpc \in {"g_eoi", "g_pulse"}
         \/ cpc = "ready" /\ Operation.kind = "out" /\ dpc = "g_pulsed"
      /\ dpc # "g_eoi" => eoi = 1
  BY <1>1, DevRankIs, C64RankIs, KindIs DEF Joint, DevInv, ByteInv, C64Inv, CbyteInv, OperationInv,
     C64Points, Giving, Taking, Lock, C64Lines, DevLines, DevFlags, Attending, Now, CommandPlace,
     OutPlace, InPlace, NextPlace, InStep, Final, Behind, Listens, Hearing, Heard, Second,
     Released, LOW, HIGH, clock, data, DevTurn, Passes, TimesOut, At, AtOnce, Delay, Short, Ack,
     Long, Never
<1>3. DevLines'
  BY <1>1, <1>2 DEF Joint, Lock, DevLines, LOW, HIGH, drives, locals, globals
<1>4. DevFlags'
  BY <1>1, <1>2 DEF Joint, DevInv, Lock, DevFlags, Attending, IsLast, drives, locals, globals
<1>5. CommandPlace'
  BY <1>1, <1>2, C64Stays DEF Joint, Lock, CommandPlace, OutPlace, InPlace, NextPlace, InStep,
     Final, Behind, Listens, Hearing, Heard, Second, Released, LOW, HIGH, locals, globals
<1>6. OutPlace'
  BY <1>1, <1>2, C64Stays DEF Joint, Lock, CommandPlace, OutPlace, InPlace, NextPlace, InStep,
     Final, Behind, Listens, Hearing, Heard, Second, Released, LOW, HIGH, locals, globals
<1>7. InPlace'
  BY <1>1, <1>2, C64Stays DEF Joint, Lock, CommandPlace, OutPlace, InPlace, NextPlace, InStep,
     Final, Behind, Listens, Hearing, Heard, Second, Released, LOW, HIGH, locals, globals
<1>8. NextPlace'
  BY <1>1, <1>2, C64Stays DEF Joint, Lock, CommandPlace, OutPlace, InPlace, NextPlace, InStep,
     Final, Behind, Listens, Hearing, Heard, Second, Released, LOW, HIGH, locals, globals
<1>9. (cpc \in {"bit", "hold", "taken"} => InStep)'
  BY <1>1, <1>2, C64Stays DEF InStep, Hearing, locals, globals
<1>10. QED
  BY <1>1, <1>3, <1>4, <1>5, <1>6, <1>7, <1>8, <1>9, C64Stays DEF Lock

(* No wait of get_byte is in vain. *)
LEMMA GetTimeoutNot ==
    ASSUME Joint
    PROVE  ~GetTimeout
<1>1. SUFFICES ASSUME GetTimeout PROVE FALSE
  OBVIOUS
<1>2. /\ DevRank = Long /\ DevRank <= C64Rank
      /\ \/ dpc \in {"g_clock", "g_high"} /\ clock = LOW
         \/ dpc \in {"g_low", "g_fall"} /\ clock = HIGH
         \/ dpc = "g_data" /\ data = LOW
  BY <1>1, DevRankIs, LineTypes DEF GetTimeout, TimesOut, At, DevTurn, AtOnce, Delay, Short, Ack,
     Long, Never
<1>3. QED
  BY <1>2, DevRankIs, C64RankIs, KindIs DEF Joint, DevInv, ByteInv, C64Inv, CbyteInv, OperationInv,
     C64Points, Giving, Taking, Lock, C64Lines, DevLines, DevFlags, Attending, Now, CommandPlace,
     OutPlace, InPlace, NextPlace, InStep, Final, Behind, Listens, Hearing, Heard, Second,
     Released, LOW, HIGH, clock, data, AtOnce, Delay, Short, Ack, Long, Never

(* put_byte begins while the C64 still holds DATA. *)
LEMMA PutBeginLock ==
    ASSUME Joint, PutBegin
    PROVE  Lock'
<1>1. /\ dpc = "put" /\ byte' = File[pos + 1] /\ eoi' = (IF IsLast THEN 1 ELSE 0)
      /\ flag' = (IF data = LOW THEN eoi' ELSE 1) /\ dClock' = "high" /\ dData' = "in" /\ bit' = 0
      /\ dpc' = (IF data = LOW THEN "p_inf" ELSE "p_high")
      /\ UNCHANGED <<caller, force_eoi, globals, c64Vars>>
  BY DevRankIs, LineTypes DEF PutBegin, Passes, TimesOut, At, DevTurn, AtOnce, Delay, Short, Ack,
     Long, Never
<1>2. /\ (cpc = "next" /\ Now("in")) \/ cpc = "r_clock"
      /\ cData = LOW /\ data = LOW
  BY <1>1, DevRankIs, C64RankIs, KindIs DEF Joint, DevInv, ByteInv, C64Inv, CbyteInv, OperationInv,
     C64Points, Giving, Taking, Lock, C64Lines, DevLines, DevFlags, Attending, Now, CommandPlace,
     OutPlace, InPlace, NextPlace, InStep, Final, Behind, Listens, Hearing, Heard, Second,
     Released, LOW, HIGH, clock, data, DevTurn, Passes, TimesOut, At, AtOnce, Delay, Short, Ack,
     Long, Never
<1>3. DevLines'
  BY <1>1, <1>2 DEF Joint, Lock, DevLines, LOW, HIGH, drives, locals, globals
<1>4. DevFlags'
  BY <1>1, <1>2 DEF Joint, DevInv, Lock, DevFlags, Attending, IsLast, drives, locals, globals
<1>5. CommandPlace'
  BY <1>1, <1>2, C64Stays DEF Joint, Lock, CommandPlace, OutPlace, InPlace, NextPlace, InStep,
     Final, Behind, Listens, Hearing, Heard, Second, Released, LOW, HIGH, locals, globals
<1>6. OutPlace'
  BY <1>1, <1>2, C64Stays DEF Joint, Lock, CommandPlace, OutPlace, InPlace, NextPlace, InStep,
     Final, Behind, Listens, Hearing, Heard, Second, Released, LOW, HIGH, locals, globals
<1>7. InPlace'
  BY <1>1, <1>2, C64Stays DEF Joint, Lock, CommandPlace, OutPlace, InPlace, NextPlace, InStep,
     Final, Behind, Listens, Hearing, Heard, Second, Released, LOW, HIGH, locals, globals
<1>8. NextPlace'
  BY <1>1, <1>2, C64Stays DEF Joint, Lock, CommandPlace, OutPlace, InPlace, NextPlace, InStep,
     Final, Behind, Listens, Hearing, Heard, Second, Released, LOW, HIGH, locals, globals
<1>9. (cpc \in {"bit", "hold", "taken"} => InStep)'
  BY <1>1, <1>2, C64Stays DEF InStep, Hearing, locals, globals
<1>10. QED
  BY <1>1, <1>3, <1>4, <1>5, <1>6, <1>7, <1>8, <1>9, C64Stays DEF Lock

(* The C64 is ready for a byte, or answers EOI. *)
LEMMA PutReadyLock ==
    ASSUME Joint, PutReady
    PROVE  Lock'
<1>1. /\ \/ dpc = "p_inf" /\ data = HIGH /\ dpc' = (IF flag = 1 THEN "p_high" ELSE "p_ready")
         \/ dpc = "p_high" /\ data = HIGH /\ dpc' = "p_low"
         \/ dpc = "p_low" /\ data = LOW /\ dpc' = "p_ready"
      /\ dClock' = (IF dpc' = "p_ready" THEN "low" ELSE dClock)
      /\ UNCHANGED <<dData, caller, locals, globals, c64Vars>>
  BY DevRankIs, LineTypes DEF PutReady, Passes, TimesOut, At, DevTurn, AtOnce, Delay, Short, Ack,
     Long, Never
<1>2. /\ dData = "in" /\ dClock = "high" /\ dClock' = (IF dpc' = "p_ready" THEN "low" ELSE "high")
      /\ bit = 0 /\ (dpc = "p_inf" => flag = eoi)
      /\ \/ dpc \in {"p_inf", "p_high"} /\ cpc = "r_start" /\ ~ceoi
         \/ dpc = "p_low" /\ cpc = "r_pulse" /\ ceoi /\ eoi = 1
      /\ dpc = "p_high" => eoi = 1
  BY <1>1, DevRankIs, C64RankIs, KindIs DEF Joint, DevInv, ByteInv, C64Inv, CbyteInv, OperationInv,
     C64Points, Giving, Taking, Lock, C64Lines, DevLines, DevFlags, Attending, Now, CommandPlace,
     OutPlace, InPlace, NextPlace, InStep, Final, Behind, Listens, Hearing, Heard, Second,
     Released, LOW, HIGH, clock, data, DevTurn, Passes, TimesOut, At, AtOnce, Delay, Short, Ack,
     Long, Never
<1>3. DevLines'
  BY <1>1, <1>2 DEF Joint, Lock, DevLines, LOW, HIGH, drives, locals, globals
<1>4. DevFlags'
  BY <1>1, <1>2 DEF Joint, DevInv, Lock, DevFlags, Attending, IsLast, drives, locals, globals
<1>5. CommandPlace'
  BY <1>1, <1>2, C64Stays DEF Joint, Lock, CommandPlace, OutPlace, InPlace, NextPlace, InStep,
     Final, Behind, Listens, Hearing, Heard, Second, Released, LOW, HIGH, locals, globals
<1>6. OutPlace'
  BY <1>1, <1>2, C64Stays DEF Joint, Lock, CommandPlace, OutPlace, InPlace, NextPlace, InStep,
     Final, Behind, Listens, Hearing, Heard, Second, Released, LOW, HIGH, locals, globals
<1>7. InPlace'
  BY <1>1, <1>2, C64Stays DEF Joint, Lock, CommandPlace, OutPlace, InPlace, NextPlace, InStep,
     Final, Behind, Listens, Hearing, Heard, Second, Released, LOW, HIGH, locals, globals
<1>8. NextPlace'
  BY <1>1, <1>2, C64Stays DEF Joint, Lock, CommandPlace, OutPlace, InPlace, NextPlace, InStep,
     Final, Behind, Listens, Hearing, Heard, Second, Released, LOW, HIGH, locals, globals
<1>9. (cpc \in {"bit", "hold", "taken"} => InStep)'
  BY <1>1, <1>2, C64Stays DEF InStep, Hearing, locals, globals
<1>10. QED
  BY <1>1, <1>3, <1>4, <1>5, <1>6, <1>7, <1>8, <1>9, C64Stays DEF Lock

LEMMA PutStartLock ==
    ASSUME Joint, PutStart
    PROVE  Lock'
<1>1. /\ dpc = "p_ready" /\ data = HIGH /\ dpc' = "p_bit"
      /\ UNCHANGED <<drives, caller, locals, globals, c64Vars>>
  BY DevRankIs, LineTypes DEF PutStart, Passes, TimesOut, At, DevTurn, AtOnce, Delay, Short, Ack,
     Long, Never
<1>2. /\ dData = "in" /\ dClock = "low" /\ bit = 0 /\ cpc \in {"r_start", "r_high"}
  BY <1>1, DevRankIs, C64RankIs, KindIs DEF Joint, DevInv, ByteInv, C64Inv, CbyteInv, OperationInv,
     C64Points, Giving, Taking, Lock, C64Lines, DevLines, DevFlags, Attending, Now, CommandPlace,
     OutPlace, InPlace, NextPlace, InStep, Final, Behind, Listens, Hearing, Heard, Second,
     Released, LOW, HIGH, clock, data, DevTurn, Passes, TimesOut, At, AtOnce, Delay, Short, Ack,
     Long, Never
<1>3. DevLines'
  BY <1>1, <1>2 DEF Joint, Lock, DevLines, LOW, HIGH, drives, locals, globals
<1>4. DevFlags'
  BY <1>1, <1>2 DEF Joint, DevInv, Lock, DevFlags, Attending, IsLast, drives, locals, globals
<1>5. CommandPlace'
  BY <1>1, <1>2, C64Stays DEF Joint, Lock, CommandPlace, OutPlace, InPlace, NextPlace, InStep,
     Final, Behind, Listens, Hearing, Heard, Second, Released, LOW, HIGH, locals, globals
<1>6. OutPlace'
  BY <1>1, <1>2, C64Stays DEF Joint, Lock, CommandPlace, OutPlace, InPlace, NextPlace, InStep,
     Final, Behind, Listens, Hearing, Heard, Second, Released, LOW, HIGH, locals, globals
<1>7. InPlace'
  BY <1>1, <1>2, C64Stays DEF Joint, Lock, CommandPlace, OutPlace, InPlace, NextPlace, InStep,
     Final, Behind, Listens, Hearing, Heard, Second, Released, LOW, HIGH, locals, globals
<1>8. NextPlace'
  BY <1>1, <1>2, C64Stays DEF Joint, Lock, CommandPlace, OutPlace, InPlace, NextPlace, InStep,
     Final, Behind, Listens, Hearing, Heard, Second, Released, LOW, HIGH, locals, globals
<1>9. (cpc \in {"bit", "hold", "taken"} => InStep)'
  BY <1>1, <1>2, C64Stays DEF InStep, Hearing, locals, globals
<1>10. QED
  BY <1>1, <1>3, <1>4, <1>5, <1>6, <1>7, <1>8, <1>9, C64Stays DEF Lock

(* A bit is put while the C64 waits for the clock to go up, *)
LEMMA PutBitLock ==
    ASSUME Joint, PutBit
    PROVE  Lock'
<1>1. /\ dpc = "p_bit" /\ DevRank = Delay /\ DevTurn
      /\ IF data = LOW
         THEN dpc' = "sent" /\ UNCHANGED <<caller, force_eoi, eoi, flag, byte, globals, c64Vars, drives, bit>>
         ELSE /\ dData' = (IF BitOf(byte, bit) = 1 THEN "high" ELSE "low") /\ dClock' = "high" /\ dpc' = "p_hold"
              /\ UNCHANGED <<caller, locals, globals, c64Vars>>
  BY DevRankIs, LineTypes DEF PutBit, Passes, TimesOut, At, DevTurn, AtOnce, Delay, Short, Ack,
     Long, Never, PutReturn
<1>2. /\ dClock = "low" /\ data = HIGH /\ cpc = "r_high" /\ cbit = bit
  BY <1>1, DevRankIs, C64RankIs, KindIs DEF Joint, DevInv, ByteInv, C64Inv, CbyteInv, OperationInv,
     C64Points, Giving, Taking, Lock, C64Lines, DevLines, DevFlags, Attending, Now, CommandPlace,
     OutPlace, InPlace, NextPlace, InStep, Final, Behind, Listens, Hearing, Heard, Second,
     Released, LOW, HIGH, clock, data, DevTurn, Passes, TimesOut, At, AtOnce, Delay, Short, Ack,
     Long, Never
<1>3. DevLines'
  BY <1>1, <1>2 DEF Joint, Lock, DevLines, LOW, HIGH, drives, locals, globals
<1>4. DevFlags'
  BY <1>1, <1>2 DEF Joint, DevInv, Lock, DevFlags, Attending, IsLast, drives, locals, globals
<1>5. CommandPlace'
  BY <1>1, <1>2, C64Stays DEF Joint, Lock, CommandPlace, OutPlace, InPlace, NextPlace, InStep,
     Final, Behind, Listens, Hearing, Heard, Second, Released, LOW, HIGH, locals, globals
<1>6. OutPlace'
  BY <1>1, <1>2, C64Stays DEF Joint, Lock, CommandPlace, OutPlace, InPlace, NextPlace, InStep,
     Final, Behind, Listens, Hearing, Heard, Second, Released, LOW, HIGH, locals, globals
<1>7. InPlace'
  BY <1>1, <1>2, C64Stays DEF Joint, Lock, CommandPlace, OutPlace, InPlace, NextPlace, InStep,
     Final, Behind, Listens, Hearing, Heard, Second, Released, LOW, HIGH, locals, globals
<1>8. NextPlace'
  BY <1>1, <1>2, C64Stays DEF Joint, Lock, CommandPlace, OutPlace, InPlace, NextPlace, InStep,
     Final, Behind, Listens, Hearing, Heard, Second, Released, LOW, HIGH, locals, globals
<1>9. (cpc \in {"bit", "hold", "taken"} => InStep)'
  BY <1>1, <1>2, C64Stays DEF InStep, Hearing, locals, globals
<1>10. QED
  BY <1>1, <1>3, <1>4, <1>5, <1>6, <1>7, <1>8, <1>9, C64Stays DEF Lock

(* and taken back when it has read it. *)
LEMMA PutBitEndLock ==
    ASSUME Joint, PutBitEnd
    PROVE  Lock'
<1>1. /\ dpc = "p_hold" /\ DevRank = Delay /\ DevTurn
      /\ dClock' = "low" /\ dData' = "high" /\ bit' = bit + 1
      /\ dpc' = (IF bit + 1 < Bits THEN "p_bit" ELSE "p_end")
      /\ UNCHANGED <<caller, force_eoi, eoi, flag, byte, globals, c64Vars>>
  BY DevRankIs, LineTypes DEF PutBitEnd, Passes, TimesOut, At, DevTurn, AtOnce, Delay, Short, Ack,
     Long, Never
<1>2. /\ dClock = "high" /\ cpc = "r_fall" /\ cbit = bit /\ bit \in 0 .. Bits - 1
      /\ bit + 1 < Bits \/ bit + 1 = Bits
  BY <1>1, DevRankIs, C64RankIs, KindIs, BitsAssumption DEF Joint, DevInv, ByteInv, C64Inv,
     CbyteInv, OperationInv, C64Points, Giving, Taking, Lock, C64Lines, DevLines, DevFlags,
     Attending, Now, CommandPlace, OutPlace, InPlace, NextPlace, InStep, Final, Behind, Listens,
     Hearing, Heard, Second, Released, LOW, HIGH, clock, data, DevTurn, Passes, TimesOut, At,
     AtOnce, Delay, Short, Ack, Long, Never
<1>3. DevLines'
  BY <1>1, <1>2 DEF Joint, Lock, DevLines, LOW, HIGH, drives, locals, globals
<1>4. DevFlags'
  BY <1>1, <1>2 DEF Joint, DevInv, Lock, DevFlags, Attending, IsLast, drives, locals, globals
<1>5. CommandPlace'
  BY <1>1, <1>2, C64Stays DEF Joint, Lock, CommandPlace, OutPlace, InPlace, NextPlace, InStep,
     Final, Behind, Listens, Hearing, Heard, Second, Released, LOW, HIGH, locals, globals
<1>6. OutPlace'
  BY <1>1, <1>2, C64Stays DEF Joint, Lock, CommandPlace, OutPlace, InPlace, NextPlace, InStep,
     Final, Behind, Listens, Hearing, Heard, Second, Released, LOW, HIGH, locals, globals
<1>7. InPlace'
  BY <1>1, <1>2, C64Stays DEF Joint, Lock, CommandPlace, OutPlace, InPlace, NextPlace, InStep,
     Final, Behind, Listens, Hearing, Heard, Second, Released, LOW, HIGH, locals, globals
<1>8. NextPlace'
  BY <1>1, <1>2, C64Stays DEF Joint, Lock, CommandPlace, OutPlace, InPlace, NextPlace, InStep,
     Final, Behind, Listens, Hearing, Heard, Second, Released, LOW, HIGH, locals, globals
<1>9. (cpc \in {"bit", "hold", "taken"} => InStep)'
  BY <1>1, <1>2, C64Stays DEF InStep, Hearing, locals, globals
<1>10. QED
  BY <1>1, <1>3, <1>4, <1>5, <1>6, <1>7, <1>8, <1>9, C64Stays DEF Lock

(* The byte is acknowledged. *)
LEMMA PutEndLock ==
    ASSUME Joint, PutEnd
    PROVE  Lock'
<1>1. /\ dpc \in {"p_end", "p_ack"} /\ DevTurn
      /\ \/ dpc = "p_end" /\ dpc' = "p_ack" /\ dData' = "in"
         \/ dpc = "p_ack" /\ dpc' = "sent" /\ dData' = dData
      /\ UNCHANGED <<dClock, caller, locals, globals, c64Vars>>
  BY DevRankIs, LineTypes DEF PutEnd, Passes, TimesOut, At, DevTurn, AtOnce, Delay, Short, Ack,
     Long, Never, PutReturn, drives, locals
<1>2. \/ cpc = "r_done" /\ eoi = 1
      \/ cpc = "r_clock" /\ eoi = 0
  BY <1>1, DevRankIs, C64RankIs, KindIs DEF Joint, DevInv, ByteInv, C64Inv, CbyteInv, OperationInv,
     C64Points, Giving, Taking, Lock, C64Lines, DevLines, DevFlags, Attending, Now, CommandPlace,
     OutPlace, InPlace, NextPlace, InStep, Final, Behind, Listens, Hearing, Heard, Second,
     Released, LOW, HIGH, clock, data, DevTurn, Passes, TimesOut, At, AtOnce, Delay, Short, Ack,
     Long, Never
<1>3. DevLines'
  BY <1>1, <1>2 DEF Joint, Lock, DevLines, LOW, HIGH, drives, locals, globals
<1>4. DevFlags'
  BY <1>1, <1>2 DEF Joint, DevInv, Lock, DevFlags, Attending, IsLast, drives, locals, globals
<1>5. CommandPlace'
  BY <1>1, <1>2, C64Stays DEF Joint, Lock, CommandPlace, OutPlace, InPlace, NextPlace, InStep,
     Final, Behind, Listens, Hearing, Heard, Second, Released, LOW, HIGH, locals, globals
<1>6. OutPlace'
  BY <1>1, <1>2, C64Stays DEF Joint, Lock, CommandPlace, OutPlace, InPlace, NextPlace, InStep,
     Final, Behind, Listens, Hearing, Heard, Second, Released, LOW, HIGH, locals, globals
<1>7. InPlace'
  BY <1>1, <1>2, C64Stays DEF Joint, Lock, CommandPlace, OutPlace, InPlace, NextPlace, InStep,
     Final, Behind, Listens, Hearing, Heard, Second, Released, LOW, HIGH, locals, globals
<1>8. NextPlace'
  BY <1>1, <1>2, C64Stays DEF Joint, Lock, CommandPlace, OutPlace, InPlace, NextPlace, InStep,
     Final, Behind, Listens, Hearing, Heard, Second, Released, LOW, HIGH, locals, globals
<1>9. (cpc \in {"bit", "hold", "taken"} => InStep)'
  BY <1>1, <1>2, C64Stays DEF InStep, Hearing, locals, globals
<1>10. QED
  BY <1>1, <1>3, <1>4, <1>5, <1>6, <1>7, <1>8, <1>9, C64Stays DEF Lock

(* No wait of put_byte is in vain. *)
LEMMA PutTimeoutNot ==
    ASSUME Joint
    PROVE  ~PutTimeout
<1>1. SUFFICES ASSUME PutTimeout PROVE FALSE
  OBVIOUS
<1>2. /\ DevRank = Long /\ DevRank <= C64Rank
      /\ \/ dpc \in {"p_high", "p_ready"} /\ data = LOW
         \/ dpc = "p_low" /\ data = HIGH
  BY <1>1, DevRankIs, LineTypes DEF PutTimeout, TimesOut, At, DevTurn, AtOnce, Delay, Short, Ack,
     Long, Never
<1>3. QED
  BY <1>2, DevRankIs, C64RankIs, KindIs DEF Joint, DevInv, ByteInv, C64Inv, CbyteInv, OperationInv,
     C64Points, Giving, Taking, Lock, C64Lines, DevLines, DevFlags, Attending, Now, CommandPlace,
     OutPlace, InPlace, NextPlace, InStep, Final, Behind, Listens, Hearing, Heard, Second,
     Released, LOW, HIGH, clock, data, AtOnce, Delay, Short, Ack, Long, Never

(* loop() sees ATN: the C64 is at the first byte of a command, or still at *)
(* the end of a CLOSE.                                                     *)
LEMMA LoopLock ==
    ASSUME Joint, Loop
    PROVE  Lock'
<1>1. /\ dpc = "loop" /\ DevTurn /\ dClock' = "in" /\ dData' = "low" /\ dpc' = "a_high"
      /\ UNCHANGED <<caller, locals, globals, c64Vars>>
  BY DevRankIs, LineTypes DEF Loop, Passes, TimesOut, At, DevTurn, AtOnce, Delay, Short, Ack, Long,
     Never
<1>2. \/ cpc \in {"atn", "present"}
      \/ cpc = "ready" /\ Operation.kind = "command" /\ cpos = 1
      \/ cpc = "release" /\ cpos # 1 /\ Mode(Operation.bytes[2]) = CLOSE
  BY <1>1, DevRankIs, C64RankIs, KindIs DEF Joint, Quiet, DevInv, ByteInv, C64Inv, CbyteInv,
     OperationInv, C64Points, Giving, Taking, Lock, C64Lines, DevLines, DevFlags, Attending, Now,
     CommandPlace, OutPlace, InPlace, NextPlace, InStep, Final, Behind, Listens, Hearing, Heard,
     Second, Released, LOW, HIGH, clock, data, DevTurn, Passes, TimesOut, At, AtOnce, Delay, Short,
     Ack, Long, Never
<1>3. DevLines'
  BY <1>1, <1>2 DEF Joint, Lock, DevLines, LOW, HIGH, drives, locals, globals
<1>4. DevFlags'
  BY <1>1, <1>2 DEF Joint, DevInv, Lock, DevFlags, Attending, IsLast, drives, locals, globals
<1>5. CommandPlace'
  BY <1>1, <1>2, C64Stays DEF Joint, Lock, CommandPlace, OutPlace, InPlace, NextPlace, InStep,
     Final, Behind, Listens, Hearing, Heard, Second, Released, LOW, HIGH, locals, globals
<1>6. OutPlace'
  BY <1>1, <1>2, C64Stays DEF Joint, Lock, CommandPlace, OutPlace, InPlace, NextPlace, InStep,
     Final, Behind, Listens, Hearing, Heard, Second, Released, LOW, HIGH, locals, globals
<1>7. InPlace'
  BY <1>1, <1>2, C64Stays DEF Joint, Lock, CommandPlace, OutPlace, InPlace, NextPlace, InStep,
     Final, Behind, Listens, Hearing, Heard, Second, Released, LOW, HIGH, locals, globals
<1>8. NextPlace'
  BY <1>1, <1>2, C64Stays DEF Joint, Lock, CommandPlace, OutPlace, InPlace, NextPlace, InStep,
     Final, Behind, Listens, Hearing, Heard, Second, Released, LOW, HIGH, locals, globals
<1>9. (cpc \in {"bit", "hold", "taken"} => InStep)'
  BY <1>1, <1>2, C64Stays DEF InStep, Hearing, locals, globals
<1>10. QED
  BY <1>1, <1>3, <1>4, <1>5, <1>6, <1>7, <1>8, <1>9, C64Stays DEF Lock

(* handle_atn waits for the clock. *)
LEMMA AtnClockLock ==
    ASSUME Joint, AtnClock
    PROVE  Lock'
<1>1. /\ DevTurn
      /\ \/ dpc = "a_high" /\ dpc' = "a_low" /\ UNCHANGED <<caller, force_eoi, eoi, dClock>>
         \/ dpc = "a_low" /\ caller' = "device" /\ force_eoi' = TRUE /\ eoi' = 0 /\ dpc' = "g_clock" /\ dClock' = "in"
      /\ UNCHANGED <<dData, flag, bit, byte, globals, c64Vars>>
  BY DevRankIs, LineTypes DEF AtnClock, Passes, TimesOut, At, DevTurn, AtOnce, Delay, Short, Ack,
     Long, Never, CallGetByte
<1>2. /\ dData = "low" /\ dClock = "in"
      /\ \/ dpc = "a_high" /\ cpc = "atn" /\ cClock = HIGH
         \/ dpc = "a_low" /\ cpc = "present"
         \/ cpc = "ready" /\ Operation.kind = "command" /\ cpos = 1
  BY <1>1, DevRankIs, C64RankIs, KindIs DEF Joint, Quiet, DevInv, ByteInv, C64Inv, CbyteInv,
     OperationInv, C64Points, Giving, Taking, Lock, C64Lines, DevLines, DevFlags, Attending, Now,
     CommandPlace, OutPlace, InPlace, NextPlace, InStep, Final, Behind, Listens, Hearing, Heard,
     Second, Released, LOW, HIGH, clock, data, DevTurn, Passes, TimesOut, At, AtOnce, Delay, Short,
     Ack, Long, Never
<1>3. DevLines'
  BY <1>1, <1>2 DEF Joint, Lock, DevLines, LOW, HIGH, drives, locals, globals
<1>4. DevFlags'
  BY <1>1, <1>2 DEF Joint, DevInv, Lock, DevFlags, Attending, IsLast, drives, locals, globals
<1>5. CommandPlace'
  BY <1>1, <1>2, C64Stays DEF Joint, Lock, CommandPlace, OutPlace, InPlace, NextPlace, InStep,
     Final, Behind, Listens, Hearing, Heard, Second, Released, LOW, HIGH, locals, globals
<1>6. OutPlace'
  BY <1>1, <1>2, C64Stays DEF Joint, Lock, CommandPlace, OutPlace, InPlace, NextPlace, InStep,
     Final, Behind, Listens, Hearing, Heard, Second, Released, LOW, HIGH, locals, globals
<1>7. InPlace'
  BY <1>1, <1>2, C64Stays DEF Joint, Lock, CommandPlace, OutPlace, InPlace, NextPlace, InStep,
     Final, Behind, Listens, Hearing, Heard, Second, Released, LOW, HIGH, locals, globals
<1>8. NextPlace'
  BY <1>1, <1>2, C64Stays DEF Joint, Lock, CommandPlace, OutPlace, InPlace, NextPlace, InStep,
     Final, Behind, Listens, Hearing, Heard, Second, Released, LOW, HIGH, locals, globals
<1>9. (cpc \in {"bit", "hold", "taken"} => InStep)'
  BY <1>1, <1>2, C64Stays DEF InStep, Hearing, locals, globals
<1>10. QED
  BY <1>1, <1>3, <1>4, <1>5, <1>6, <1>7, <1>8, <1>9, C64Stays DEF Lock

(* The first byte of a command: if it is not UNLISTEN or UNTALK, the C64   *)
(* is at the second.                                                       *)
LEMMA AtnDeviceLock ==
    ASSUME Joint, AtnDevice
    PROVE  Lock'
<1>1. /\ dpc = "got" /\ caller = "device" /\ DevTurn /\ device_mode' = (IF eoi = 1 THEN byte ELSE device_mode)
      /\ \/ /\ eoi = 0 /\ dpc' = "loop"
            /\ UNCHANGED <<dClock, caller, force_eoi, eoi>>
         \/ /\ eoi = 1 /\ Mode(byte) \in {UNLISTEN, UNTALK} /\ dpc' = "u_atn"
            /\ UNCHANGED <<dClock, caller, force_eoi, eoi>>
         \/ /\ eoi = 1 /\ Mode(byte) \notin {UNLISTEN, UNTALK}
            /\ caller' = "sec" /\ force_eoi' = TRUE /\ eoi' = 0 /\ dpc' = "g_clock" /\ dClock' = "in"
      /\ UNCHANGED <<dData, flag, bit, byte, secondary, iobuf, pos, stored, c64Vars>>
  BY DevRankIs, LineTypes DEF AtnDevice, Passes, TimesOut, At, DevTurn, AtOnce, Delay, Short, Ack,
     Long, Never, CallGetByte, Returned
<1>2. /\ dData = "low" /\ dClock = "in" /\ eoi = 1
      /\ IF Mode(byte) \in {UNLISTEN, UNTALK}
         THEN /\ dpc' = "u_atn" /\ UNCHANGED <<dClock, caller, force_eoi, eoi>>
              /\ \/ cpc \in {"idle", "off", "atn", "present"}
                 \/ cpc = "next" /\ (op > Len(job) \/ Now("command"))
                 \/ cpc = "ready" /\ Operation.kind = "command" /\ cpos = 1
                 \/ cpc = "release" /\ cpos = 1
         ELSE /\ dpc' = "g_clock" /\ caller' = "sec" /\ force_eoi' = TRUE /\ eoi' = 0 /\ dClock' = "in"
              /\ cpc \in {"byte", "ready"} /\ Operation.kind = "command" /\ cpos = 2 /\ byte = Operation.bytes[1]
  <2>1. dData = "low" /\ dClock = "in" /\ eoi = 1
    BY <1>1 DEF Joint, DevInv, Lock, DevLines, DevFlags, Attending
  <2>2. \/ /\ Mode(byte) \in {UNLISTEN, UNTALK}
           /\ \/ cpc \in {"idle", "off", "atn", "present"}
              \/ cpc = "next" /\ (op > Len(job) \/ Now("command"))
              \/ cpc = "ready" /\ Operation.kind = "command" /\ cpos = 1
        \/ /\ Operation.kind = "command" /\ byte = Operation.bytes[1] /\ op <= Len(job)
           /\ \/ cpc = "release" /\ cpos = 1 /\ Len(Operation.bytes) = 1
              \/ cpc \in {"byte", "ready"} /\ cpos = 2 /\ cpos <= Len(Operation.bytes)
    <3>1. CASE cpc \in {"idle", "off", "next"}
      BY <1>1, <2>1, <3>1, DevRankIs, C64RankIs, KindIs, JobTypes DEF Joint, Quiet, DevInv,
         ByteInv, C64Inv, CbyteInv, OperationInv, C64Points, Giving, Taking, Lock, C64Lines,
         DevLines, DevFlags, Attending, Now, CommandPlace, OutPlace, InPlace, NextPlace, InStep,
         Final, Behind, Listens, Hearing, Heard, Second, Released, LOW, HIGH, clock, data, DevTurn,
         AtOnce, Delay, Short, Ack, Long, Never
    <3>2. CASE cpc \in {"atn", "present", "release"}
      BY <1>1, <2>1, <3>2, DevRankIs, C64RankIs, KindIs, JobTypes, CommandIs DEF Joint, Quiet,
         DevInv, ByteInv, C64Inv, CbyteInv, OperationInv, C64Points, Giving, Taking, Lock,
         C64Lines, DevLines, DevFlags, Attending, Now, CommandPlace, OutPlace, InPlace, NextPlace,
         InStep, Final, Behind, Listens, Hearing, Heard, Second, Released, LOW, HIGH, clock, data,
         DevTurn, AtOnce, Delay, Short, Ack, Long, Never
    <3>3. CASE cpc \in {"byte", "ready"}
      BY <1>1, <2>1, <3>3, DevRankIs, C64RankIs, KindIs, JobTypes, CommandIs DEF Joint, Quiet,
         DevInv, ByteInv, C64Inv, CbyteInv, OperationInv, C64Points, Giving, Taking, Lock,
         C64Lines, DevLines, DevFlags, Attending, Now, CommandPlace, OutPlace, InPlace, NextPlace,
         InStep, Final, Behind, Listens, Hearing, Heard, Second, Released, LOW, HIGH, clock, data,
         DevTurn, AtOnce, Delay, Short, Ack, Long, Never
    <3>4. CASE cpc \notin {"idle", "off", "next", "atn", "present", "release", "byte", "ready"}
      BY <1>1, <2>1, <3>4, DevRankIs, C64RankIs, KindIs, JobTypes DEF Joint, Quiet, DevInv,
         ByteInv, C64Inv, CbyteInv, OperationInv, C64Points, Giving, Taking, Lock, C64Lines,
         DevLines, DevFlags, Attending, Now, CommandPlace, OutPlace, InPlace, NextPlace, InStep,
         Final, Behind, Listens, Hearing, Heard, Second, Released, LOW, HIGH, clock, data, DevTurn,
         AtOnce, Delay, Short, Ack, Long, Never
    <3>5. QED
      BY <3>1, <3>2, <3>3, <3>4
  <2>3. QED
    BY <1>1, <2>1, <2>2, CommandIs
<1>3. DevLines'
  BY <1>1, <1>2 DEF Joint, Lock, DevLines, LOW, HIGH, drives, locals, globals
<1>4. DevFlags'
  BY <1>1, <1>2 DEF Joint, DevInv, Lock, DevFlags, Attending, IsLast, drives, locals, globals
<1>5. CommandPlace'
  BY <1>1, <1>2, C64Stays DEF Joint, Lock, CommandPlace, OutPlace, InPlace, NextPlace, InStep,
     Final, Behind, Listens, Hearing, Heard, Second, Released, LOW, HIGH, locals, globals
<1>6. OutPlace'
  BY <1>1, <1>2, C64Stays DEF Joint, Lock, CommandPlace, OutPlace, InPlace, NextPlace, InStep,
     Final, Behind, Listens, Hearing, Heard, Second, Released, LOW, HIGH, locals, globals
<1>7. InPlace'
  BY <1>1, <1>2, C64Stays DEF Joint, Lock, CommandPlace, OutPlace, InPlace, NextPlace, InStep,
     Final, Behind, Listens, Hearing, Heard, Second, Released, LOW, HIGH, locals, globals
<1>8. NextPlace'
  BY <1>1, <1>2, C64Stays DEF Joint, Lock, CommandPlace, OutPlace, InPlace, NextPlace, InStep,
     Final, Behind, Listens, Hearing, Heard, Second, Released, LOW, HIGH, locals, globals
<1>9. (cpc \in {"bit", "hold", "taken"} => InStep)'
  BY <1>1, <1>2, C64Stays DEF InStep, Hearing, locals, globals
<1>10. QED
  BY <1>1, <1>3, <1>4, <1>5, <1>6, <1>7, <1>8, <1>9, C64Stays DEF Lock

(* The second byte: handle_open or handle_listen is called when data       *)
(* follow, handle_talk when the C64 turns to listening.                    *)
LEMMA AtnSecondaryLock ==
    ASSUME Joint, AtnSecondary
    PROVE  Lock'
<1>1. /\ dpc = "got" /\ caller = "sec" /\ DevTurn /\ secondary' = (IF eoi = 1 THEN byte ELSE secondary)
      /\ dpc' = (IF eoi = 0 THEN "loop"
                 ELSE IF Mode(byte) = OPEN THEN "o_atn"
                 ELSE IF Mode(byte) = DATA /\ Mode(device_mode) = LISTEN THEN "l_atn"
                 ELSE IF Mode(byte) = DATA /\ Mode(device_mode) = TALK THEN "t_atn"
                 ELSE "loop")
      /\ IF eoi = 1 /\ Mode(byte) = DATA /\ Mode(device_mode) = TALK
         THEN dClock' = "in" /\ dData' = "in"
         ELSE UNCHANGED drives
      /\ UNCHANGED <<caller, locals, device_mode, iobuf, pos, stored, c64Vars>>
  BY DevRankIs, LineTypes DEF AtnSecondary, Passes, TimesOut, At, DevTurn, AtOnce, Delay, Short,
     Ack, Long, Never, Returned
<1>2. /\ dClock' = "in"
      /\ \/ /\ dpc' = "loop" /\ dData' = "low"
            /\ \/ cpc \in {"idle", "off", "atn", "present"}
               \/ cpc = "next" /\ (op > Len(job) \/ Now("command"))
               \/ cpc = "ready" /\ Operation.kind = "command" /\ cpos = 1
               \/ cpc = "release" /\ cpos = 2 /\ Mode(Operation.bytes[2]) = CLOSE
         \/ /\ dpc' = "o_atn" /\ dData' = "low"
            /\ \/ Beginning /\ Len(Operation.bytes) < IobufSize
               \/ cpc = "release" /\ cpos = 2 /\ Mode(Operation.bytes[2]) = OPEN
         \/ /\ dpc' = "l_atn" /\ dData' = "low" /\ secondary' = byte
            /\ \/ Beginning /\ Address(byte) = 1
               \/ /\ cpc = "release" /\ cpos = 2 /\ Mode(Operation.bytes[2]) = DATA
                  /\ Mode(Operation.bytes[1]) = LISTEN /\ byte = Operation.bytes[2]
         \/ /\ dpc' = "t_atn" /\ dData' = "in"
            /\ \/ cpc = "turn"
               \/ /\ cpc = "release" /\ cpos = 2 /\ Mode(Operation.bytes[2]) = DATA
                  /\ Mode(Operation.bytes[1]) = TALK
  <2>1. dData = "low" /\ dClock = "in" /\ eoi = 1
    BY <1>1 DEF Joint, DevInv, Lock, DevLines, DevFlags, Attending
  <2>2. \/ /\ Mode(byte) \notin {OPEN, DATA}
           /\ \/ cpc \in {"idle", "off", "atn", "present"}
              \/ cpc = "next" /\ (op > Len(job) \/ Now("command"))
              \/ cpc = "ready" /\ Operation.kind = "command" /\ cpos = 1
        \/ /\ Beginning
           /\ \/ Mode(byte) = OPEN /\ Len(Operation.bytes) < IobufSize
              \/ Mode(byte) = DATA /\ Mode(device_mode) = LISTEN /\ Address(byte) = 1
        \/ cpc = "turn" /\ Mode(byte) = DATA /\ Mode(device_mode) = TALK
        \/ /\ cpc = "release" /\ cpos = 2 /\ byte = Operation.bytes[2] /\ device_mode = Operation.bytes[1]
           /\ Operation.kind = "command" /\ Len(Operation.bytes) = 2 /\ op <= Len(job)
    <3>1. CASE cpc \in {"idle", "off", "next"}
      BY <1>1, <2>1, <3>1, DevRankIs, C64RankIs, KindIs, JobTypes DEF Joint, Quiet, DevInv,
         ByteInv, C64Inv, CbyteInv, OperationInv, C64Points, Giving, Taking, Lock, C64Lines,
         DevLines, DevFlags, Attending, Now, CommandPlace, OutPlace, InPlace, NextPlace, InStep,
         Final, Behind, Listens, Hearing, Heard, Second, Released, LOW, HIGH, clock, data, DevTurn,
         AtOnce, Delay, Short, Ack, Long, Never, Beginning
    <3>2. CASE cpc \in {"atn", "present", "release"}
      BY <1>1, <2>1, <3>2, DevRankIs, C64RankIs, KindIs, JobTypes, CommandIs DEF Joint, Quiet,
         DevInv, ByteInv, C64Inv, CbyteInv, OperationInv, C64Points, Giving, Taking, Lock,
         C64Lines, DevLines, DevFlags, Attending, Now, CommandPlace, OutPlace, InPlace, NextPlace,
         InStep, Final, Behind, Listens, Hearing, Heard, Second, Released, LOW, HIGH, clock, data,
         DevTurn, AtOnce, Delay, Short, Ack, Long, Never, Beginning
    <3>3. CASE cpc \in {"byte", "ready"}
      BY <1>1, <2>1, <3>3, DevRankIs, C64RankIs, KindIs, JobTypes, CommandIs DEF Joint, Quiet,
         DevInv, ByteInv, C64Inv, CbyteInv, OperationInv, C64Points, Giving, Taking, Lock,
         C64Lines, DevLines, DevFlags, Attending, Now, CommandPlace, OutPlace, InPlace, NextPlace,
         InStep, Final, Behind, Listens, Hearing, Heard, Second, Released, LOW, HIGH, clock, data,
         DevTurn, AtOnce, Delay, Short, Ack, Long, Never, Beginning
    <3>4. CASE cpc \notin {"idle", "off", "next", "atn", "present", "release", "byte", "ready"}
      BY <1>1, <2>1, <3>4, DevRankIs, C64RankIs, KindIs, JobTypes DEF Joint, Quiet, DevInv,
         ByteInv, C64Inv, CbyteInv, OperationInv, C64Points, Giving, Taking, Lock, C64Lines,
         DevLines, DevFlags, Attending, Now, CommandPlace, OutPlace, InPlace, NextPlace, InStep,
         Final, Behind, Listens, Hearing, Heard, Second, Released, LOW, HIGH, clock, data, DevTurn,
         AtOnce, Delay, Short, Ack, Long, Never, Beginning
    <3>5. QED
      BY <3>1, <3>2, <3>3, <3>4
  <2>3. ASSUME cpc = "release", Operation.kind = "command", Len(Operation.bytes) = 2, op <= Len(job),
               byte = Operation.bytes[2], device_mode = Operation.bytes[1]
        PROVE  \/ Mode(byte) \in {OPEN, CLOSE}
               \/ Mode(byte) = DATA /\ Mode(device_mode) \in {LISTEN, TALK}
    BY <2>3, CommandIs
  <2>4. QED
    BY <1>1, <2>1, <2>2, <2>3, ModeAssumption DEF drives
<1>3. DevLines'
  BY <1>1, <1>2 DEF Joint, Lock, DevLines, LOW, HIGH, drives, locals, globals
<1>4. DevFlags'
  BY <1>1, <1>2 DEF Joint, DevInv, Lock, DevFlags, Attending, IsLast, drives, locals, globals
<1>5. CommandPlace'
  BY <1>1, <1>2, C64Stays DEF Joint, Lock, CommandPlace, OutPlace, InPlace, NextPlace, InStep,
     Final, Behind, Listens, Hearing, Heard, Second, Released, LOW, HIGH, locals, globals,
     Beginning
<1>6. OutPlace'
  BY <1>1, <1>2, C64Stays DEF Joint, Lock, CommandPlace, OutPlace, InPlace, NextPlace, InStep,
     Final, Behind, Listens, Hearing, Heard, Second, Released, LOW, HIGH, locals, globals,
     Beginning
<1>7. InPlace'
  BY <1>1, <1>2, C64Stays DEF Joint, Lock, CommandPlace, OutPlace, InPlace, NextPlace, InStep,
     Final, Behind, Listens, Hearing, Heard, Second, Released, LOW, HIGH, locals, globals,
     Beginning
<1>8. NextPlace'
  BY <1>1, <1>2, C64Stays DEF Joint, Lock, CommandPlace, OutPlace, InPlace, NextPlace, InStep,
     Final, Behind, Listens, Hearing, Heard, Second, Released, LOW, HIGH, locals, globals,
     Beginning
<1>9. (cpc \in {"bit", "hold", "taken"} => InStep)'
  BY <1>1, <1>2, C64Stays DEF InStep, Hearing, locals, globals, Beginning
<1>10. QED
  BY <1>1, <1>3, <1>4, <1>5, <1>6, <1>7, <1>8, <1>9, C64Stays DEF Lock

(* ATN goes up after a command. *)
LEMMA AtnReleasedLock ==
    ASSUME Joint, AtnReleased
    PROVE  Lock'
<1>1. /\ DevTurn
      /\ \/ dpc = "u_atn" /\ dpc' = "loop" /\ UNCHANGED <<iobuf, pos, stored>>
         \/ dpc = "o_atn" /\ dpc' = "o_next" /\ iobuf' = <<>> /\ UNCHANGED <<pos, stored>>
         \/ /\ dpc = "l_atn"
            /\ dpc' = (IF Address(secondary) = 1 THEN "r_next" ELSE "loop")
            /\ UNCHANGED <<iobuf, pos>>
         \/ dpc = "t_atn" /\ dpc' = "turn" /\ pos' = 0 /\ UNCHANGED <<iobuf, stored>>
      /\ UNCHANGED <<drives, caller, locals, device_mode, secondary, c64Vars>>
  BY DevRankIs, LineTypes DEF AtnReleased, Passes, TimesOut, At, DevTurn, AtOnce, Delay, Short,
     Ack, Long, Never, Beginning
<1>2. /\ \/ /\ dpc = "u_atn" /\ dData = "low" /\ dClock = "in"
            /\ \/ cpc \in {"idle", "off"}
               \/ cpc = "next" /\ (op > Len(job) \/ Now("command"))
               \/ cpc = "ready" /\ Operation.kind = "command" /\ cpos = 1
         \/ dpc = "o_atn" /\ dData = "low" /\ dClock = "in" /\ Len(Operation.bytes) < IobufSize /\ Beginning /\ Len(iobuf') = 0
         \/ dpc = "l_atn" /\ dData = "low" /\ dClock = "in" /\ Address(secondary) = 1 /\ Beginning
         \/ dpc = "t_atn" /\ dData = "in" /\ dClock = "in" /\ cpc = "turn"
  BY <1>1, DevRankIs, C64RankIs, KindIs DEF Joint, Quiet, DevInv, ByteInv, C64Inv, CbyteInv,
     OperationInv, C64Points, Giving, Taking, Lock, C64Lines, DevLines, DevFlags, Attending, Now,
     CommandPlace, OutPlace, InPlace, NextPlace, InStep, Final, Behind, Listens, Hearing, Heard,
     Second, Released, LOW, HIGH, Beginning, clock, data, DevTurn, Passes, TimesOut, At, AtOnce,
     Delay, Short, Ack, Long, Never
<1>3. DevLines'
  BY <1>1, <1>2 DEF Joint, Lock, DevLines, LOW, HIGH, drives, locals, globals
<1>4. DevFlags'
  BY <1>1, <1>2 DEF Joint, DevInv, Lock, DevFlags, Attending, IsLast, drives, locals, globals
<1>5. CommandPlace'
  BY <1>1, <1>2, C64Stays DEF Joint, Lock, CommandPlace, OutPlace, InPlace, NextPlace, InStep,
     Final, Behind, Listens, Hearing, Heard, Second, Released, LOW, HIGH, drives, locals, globals,
     Beginning
<1>6. OutPlace'
  BY <1>1, <1>2, C64Stays DEF Joint, Lock, CommandPlace, OutPlace, InPlace, NextPlace, InStep,
     Final, Behind, Listens, Hearing, Heard, Second, Released, LOW, HIGH, drives, locals, globals,
     Beginning
<1>7. InPlace'
  BY <1>1, <1>2, C64Stays DEF Joint, Lock, CommandPlace, OutPlace, InPlace, NextPlace, InStep,
     Final, Behind, Listens, Hearing, Heard, Second, Released, LOW, HIGH, drives, locals, globals,
     Beginning
<1>8. NextPlace'
  BY <1>1, <1>2, C64Stays DEF Joint, Lock, CommandPlace, OutPlace, InPlace, NextPlace, InStep,
     Final, Behind, Listens, Hearing, Heard, Second, Released, LOW, HIGH, drives, locals, globals,
     Beginning
<1>9. (cpc \in {"bit", "hold", "taken"} => InStep)'
  BY <1>1, <1>2, C64Stays DEF InStep, Hearing, locals, globals, Beginning
<1>10. QED
  BY <1>1, <1>3, <1>4, <1>5, <1>6, <1>7, <1>8, <1>9, C64Stays DEF Lock

(* handle_open and recv_file ask for a byte, *)
LEMMA OpenNextLock ==
    ASSUME Joint, OpenNext
    PROVE  Lock'
<1>1. /\ dpc = "o_next" /\ DevTurn
      /\ IF cAtn = LOW
         THEN dpc' = "loop" /\ UNCHANGED <<dClock, caller, force_eoi, eoi>>
         ELSE caller' = "open" /\ force_eoi' = FALSE /\ eoi' = 0 /\ dpc' = "g_clock" /\ dClock' = "in"
      /\ UNCHANGED <<dData, flag, bit, byte, globals, c64Vars>>
  BY DevRankIs, LineTypes DEF OpenNext, Passes, TimesOut, At, DevTurn, AtOnce, Delay, Short, Ack,
     Long, Never, CallGetByte
<1>2. /\ dData = "low" /\ dClock = "in" /\ cAtn = HIGH /\ Len(iobuf) = Heard /\ Len(Operation.bytes) < IobufSize
      /\ \/ cpc = "next" /\ Now("out")
         \/ cpc \in {"byte", "eoi_ready"} /\ Operation.kind = "out"
         \/ cpc = "ready" /\ Operation.kind = "out" /\ cpos < Len(Operation.bytes)
  BY <1>1, DevRankIs, C64RankIs, KindIs DEF Joint, Quiet, DevInv, ByteInv, C64Inv, CbyteInv,
     OperationInv, C64Points, Giving, Taking, Lock, C64Lines, DevLines, DevFlags, Attending, Now,
     CommandPlace, OutPlace, InPlace, NextPlace, InStep, Final, Behind, Listens, Hearing, Heard,
     Second, Released, LOW, HIGH, clock, data, DevTurn, Passes, TimesOut, At, AtOnce, Delay, Short,
     Ack, Long, Never
<1>3. DevLines'
  BY <1>1, <1>2 DEF Joint, Lock, DevLines, LOW, HIGH, drives, locals, globals
<1>4. DevFlags'
  BY <1>1, <1>2 DEF Joint, DevInv, Lock, DevFlags, Attending, IsLast, drives, locals, globals
<1>5. CommandPlace'
  BY <1>1, <1>2, C64Stays DEF Joint, Lock, CommandPlace, OutPlace, InPlace, NextPlace, InStep,
     Final, Behind, Listens, Hearing, Heard, Second, Released, LOW, HIGH, drives, locals, globals
<1>6. OutPlace'
  BY <1>1, <1>2, C64Stays DEF Joint, Lock, CommandPlace, OutPlace, InPlace, NextPlace, InStep,
     Final, Behind, Listens, Hearing, Heard, Second, Released, LOW, HIGH, drives, locals, globals
<1>7. InPlace'
  BY <1>1, <1>2, C64Stays DEF Joint, Lock, CommandPlace, OutPlace, InPlace, NextPlace, InStep,
     Final, Behind, Listens, Hearing, Heard, Second, Released, LOW, HIGH, drives, locals, globals
<1>8. NextPlace'
  BY <1>1, <1>2, C64Stays DEF Joint, Lock, CommandPlace, OutPlace, InPlace, NextPlace, InStep,
     Final, Behind, Listens, Hearing, Heard, Second, Released, LOW, HIGH, drives, locals, globals
<1>9. (cpc \in {"bit", "hold", "taken"} => InStep)'
  BY <1>1, <1>2, C64Stays DEF InStep, Hearing, locals, globals
<1>10. QED
  BY <1>1, <1>3, <1>4, <1>5, <1>6, <1>7, <1>8, <1>9, C64Stays DEF Lock

LEMMA RecvNextLock ==
    ASSUME Joint, RecvNext
    PROVE  Lock'
<1>1. /\ dpc = "r_next" /\ DevTurn
      /\ IF cAtn = LOW
         THEN dpc' = "loop" /\ dClock' = "in" /\ dData' = "in" /\ UNCHANGED <<caller, force_eoi, eoi>>
         ELSE caller' = "recv" /\ force_eoi' = FALSE /\ eoi' = 0 /\ dpc' = "g_clock" /\ dClock' = "in" /\ dData' = dData
      /\ UNCHANGED <<flag, bit, byte, globals, c64Vars>>
  BY DevRankIs, LineTypes DEF RecvNext, Passes, TimesOut, At, DevTurn, AtOnce, Delay, Short, Ack,
     Long, Never, CallGetByte
<1>2. /\ dData = "low" /\ dClock = "in" /\ cAtn = HIGH
      /\ \/ cpc = "next" /\ Now("out")
         \/ cpc \in {"byte", "eoi_ready"} /\ Operation.kind = "out"
         \/ cpc = "ready" /\ Operation.kind = "out" /\ cpos < Len(Operation.bytes)
  BY <1>1, DevRankIs, C64RankIs, KindIs DEF Joint, Quiet, DevInv, ByteInv, C64Inv, CbyteInv,
     OperationInv, C64Points, Giving, Taking, Lock, C64Lines, DevLines, DevFlags, Attending, Now,
     CommandPlace, OutPlace, InPlace, NextPlace, InStep, Final, Behind, Listens, Hearing, Heard,
     Second, Released, LOW, HIGH, clock, data, DevTurn, Passes, TimesOut, At, AtOnce, Delay, Short,
     Ack, Long, Never
<1>3. DevLines'
  BY <1>1, <1>2 DEF Joint, Lock, DevLines, LOW, HIGH, drives, locals, globals
<1>4. DevFlags'
  BY <1>1, <1>2 DEF Joint, DevInv, Lock, DevFlags, Attending, IsLast, drives, locals, globals
<1>5. CommandPlace'
  BY <1>1, <1>2, C64Stays DEF Joint, Lock, CommandPlace, OutPlace, InPlace, NextPlace, InStep,
     Final, Behind, Listens, Hearing, Heard, Second, Released, LOW, HIGH, drives, locals, globals
<1>6. OutPlace'
  BY <1>1, <1>2, C64Stays DEF Joint, Lock, CommandPlace, OutPlace, InPlace, NextPlace, InStep,
     Final, Behind, Listens, Hearing, Heard, Second, Released, LOW, HIGH, drives, locals, globals
<1>7. InPlace'
  BY <1>1, <1>2, C64Stays DEF Joint, Lock, CommandPlace, OutPlace, InPlace, NextPlace, InStep,
     Final, Behind, Listens, Hearing, Heard, Second, Released, LOW, HIGH, drives, locals, globals
<1>8. NextPlace'
  BY <1>1, <1>2, C64Stays DEF Joint, Lock, CommandPlace, OutPlace, InPlace, NextPlace, InStep,
     Final, Behind, Listens, Hearing, Heard, Second, Released, LOW, HIGH, drives, locals, globals
<1>9. (cpc \in {"bit", "hold", "taken"} => InStep)'
  BY <1>1, <1>2, C64Stays DEF InStep, Hearing, locals, globals
<1>10. QED
  BY <1>1, <1>3, <1>4, <1>5, <1>6, <1>7, <1>8, <1>9, C64Stays DEF Lock

(* and have got one: the last one of the data, or not. *)
LEMMA OpenByteLock ==
    ASSUME Joint, OpenByte
    PROVE  Lock'
<1>1. /\ dpc = "got" /\ caller = "open" /\ DevTurn
      /\ iobuf' = Append(iobuf, byte)
      /\ dpc' = (IF eoi = 0 /\ Len(iobuf') < IobufSize - 1 THEN "o_next" ELSE "loop")
      /\ UNCHANGED <<drives, caller, locals, device_mode, secondary, pos, stored, c64Vars>>
  BY DevRankIs, LineTypes DEF OpenByte, Passes, TimesOut, At, DevTurn, AtOnce, Delay, Short, Ack,
     Long, Never, Returned
<1>2. /\ dData = "low" /\ dClock = "in"
      /\ \/ /\ dpc' = "loop"
            /\ \/ cpc \in {"idle", "off", "atn", "present"}
               \/ cpc = "next" /\ (op > Len(job) \/ Now("command"))
               \/ cpc = "ready" /\ Operation.kind = "command" /\ cpos = 1
         \/ /\ dpc' = "o_next" /\ Len(iobuf') = cpos - 1 /\ Len(Operation.bytes) < IobufSize
            /\ Operation.kind = "out"
            /\ cpc \in {"byte", "eoi_ready"} \/ (cpc = "ready" /\ cpos < Len(Operation.bytes))
  <2>1. dData = "low" /\ dClock = "in" /\ Len(iobuf') = Len(iobuf) + 1 /\ Len(iobuf) \in Nat
    BY <1>1 DEF Joint, DevInv, ByteInv, BufferInv, Lock, DevLines
  <2>2. \/ /\ eoi = 1
           /\ \/ cpc \in {"idle", "off", "atn", "present"}
              \/ cpc = "next" /\ (op > Len(job) \/ Now("command"))
              \/ cpc = "ready" /\ Operation.kind = "command" /\ cpos = 1
        \/ /\ eoi = 0 /\ Len(iobuf) = cpos - 2 /\ Len(Operation.bytes) < IobufSize
           /\ Operation.kind = "out" /\ cpos \in 1 .. Len(Operation.bytes)
           /\ cpc \in {"byte", "eoi_ready"} \/ (cpc = "ready" /\ cpos < Len(Operation.bytes))
    BY <1>1, <2>1, DevRankIs, C64RankIs, KindIs, JobTypes DEF Joint, Quiet, DevInv, ByteInv,
       C64Inv, CbyteInv, OperationInv, C64Points, Giving, Taking, Lock, C64Lines, DevLines,
       DevFlags, Attending, Now, CommandPlace, OutPlace, InPlace, NextPlace, InStep, Final, Behind,
       Listens, Hearing, Heard, Second, Released, LOW, HIGH, clock, data, DevTurn, AtOnce, Delay,
       Short, Ack, Long, Never
  <2>3. eoi = 0 => Len(Operation.bytes) \in Nat /\ Len(iobuf') < IobufSize - 1
    BY <2>1, <2>2, JobTypes, BufferAssumption DEF Joint, C64Inv, OperationInv, Giving
  <2>4. QED
    BY <1>1, <2>1, <2>2, <2>3
<1>3. DevLines'
  BY <1>1, <1>2 DEF Joint, Lock, DevLines, LOW, HIGH, drives, locals, globals
<1>4. DevFlags'
  BY <1>1, <1>2 DEF Joint, DevInv, Lock, DevFlags, Attending, IsLast, drives, locals, globals
<1>5. CommandPlace'
  BY <1>1, <1>2, C64Stays DEF Joint, Lock, CommandPlace, OutPlace, InPlace, NextPlace, InStep,
     Final, Behind, Listens, Hearing, Heard, Second, Released, LOW, HIGH, drives, locals, globals
<1>6. OutPlace'
  BY <1>1, <1>2, C64Stays DEF Joint, Lock, CommandPlace, OutPlace, InPlace, NextPlace, InStep,
     Final, Behind, Listens, Hearing, Heard, Second, Released, LOW, HIGH, drives, locals, globals
<1>7. InPlace'
  BY <1>1, <1>2, C64Stays DEF Joint, Lock, CommandPlace, OutPlace, InPlace, NextPlace, InStep,
     Final, Behind, Listens, Hearing, Heard, Second, Released, LOW, HIGH, drives, locals, globals
<1>8. NextPlace'
  BY <1>1, <1>2, C64Stays DEF Joint, Lock, CommandPlace, OutPlace, InPlace, NextPlace, InStep,
     Final, Behind, Listens, Hearing, Heard, Second, Released, LOW, HIGH, drives, locals, globals
<1>9. (cpc \in {"bit", "hold", "taken"} => InStep)'
  BY <1>1, <1>2, C64Stays DEF InStep, Hearing, locals, globals
<1>10. QED
  BY <1>1, <1>3, <1>4, <1>5, <1>6, <1>7, <1>8, <1>9, C64Stays DEF Lock

LEMMA RecvByteLock ==
    ASSUME Joint, RecvByte
    PROVE  Lock'
<1>1. /\ dpc = "got" /\ caller = "recv" /\ DevTurn
      /\ dpc' = (IF eoi = 0 THEN "r_next" ELSE "loop")
      /\ UNCHANGED <<drives, caller, locals, device_mode, secondary, iobuf, pos, c64Vars>>
  BY DevRankIs, LineTypes DEF RecvByte, Passes, TimesOut, At, DevTurn, AtOnce, Delay, Short, Ack,
     Long, Never, Returned
<1>2. /\ dData = "low" /\ dClock = "in"
      /\ \/ /\ dpc' = "loop"
            /\ \/ cpc \in {"idle", "off", "atn", "present"}
               \/ cpc = "next" /\ (op > Len(job) \/ Now("command"))
               \/ cpc = "ready" /\ Operation.kind = "command" /\ cpos = 1
         \/ /\ dpc' = "r_next" /\ Operation.kind = "out"
            /\ \/ cpc = "next" /\ Now("out")
               \/ cpc \in {"byte", "eoi_ready"} \/ (cpc = "ready" /\ cpos < Len(Operation.bytes))
  BY <1>1, DevRankIs, C64RankIs, KindIs, JobTypes DEF Joint, Quiet, DevInv, ByteInv, C64Inv,
     CbyteInv, OperationInv, C64Points, Giving, Taking, Lock, C64Lines, DevLines, DevFlags,
     Attending, Now, CommandPlace, OutPlace, InPlace, NextPlace, InStep, Final, Behind, Listens,
     Hearing, Heard, Second, Released, LOW, HIGH, clock, data, DevTurn, Passes, TimesOut, At,
     AtOnce, Delay, Short, Ack, Long, Never
<1>3. DevLines'
  BY <1>1, <1>2 DEF Joint, Lock, DevLines, LOW, HIGH, drives, locals, globals
<1>4. DevFlags'
  BY <1>1, <1>2 DEF Joint, DevInv, Lock, DevFlags, Attending, IsLast, drives, locals, globals
<1>5. CommandPlace'
  BY <1>1, <1>2, C64Stays DEF Joint, Lock, CommandPlace, OutPlace, InPlace, NextPlace, InStep,
     Final, Behind, Listens, Hearing, Heard, Second, Released, LOW, HIGH, drives, locals, globals
<1>6. OutPlace'
  BY <1>1, <1>2, C64Stays DEF Joint, Lock, CommandPlace, OutPlace, InPlace, NextPlace, InStep,
     Final, Behind, Listens, Hearing, Heard, Second, Released, LOW, HIGH, drives, locals, globals
<1>7. InPlace'
  BY <1>1, <1>2, C64Stays DEF Joint, Lock, CommandPlace, OutPlace, InPlace, NextPlace, InStep,
     Final, Behind, Listens, Hearing, Heard, Second, Released, LOW, HIGH, drives, locals, globals
<1>8. NextPlace'
  BY <1>1, <1>2, C64Stays DEF Joint, Lock, CommandPlace, OutPlace, InPlace, NextPlace, InStep,
     Final, Behind, Listens, Hearing, Heard, Second, Released, LOW, HIGH, drives, locals, globals
<1>9. (cpc \in {"bit", "hold", "taken"} => InStep)'
  BY <1>1, <1>2, C64Stays DEF InStep, Hearing, locals, globals
<1>10. QED
  BY <1>1, <1>3, <1>4, <1>5, <1>6, <1>7, <1>8, <1>9, C64Stays DEF Lock

(* The sketch becomes the talker, *)
LEMMA TurnaroundLock ==
    ASSUME Joint, Turnaround
    PROVE  Lock'
<1>1. /\ dpc = "turn" /\ DevTurn /\ dData' = "in" /\ dClock' = "low" /\ dpc' = "send"
      /\ UNCHANGED <<caller, locals, globals, c64Vars>>
  BY DevRankIs, LineTypes DEF Turnaround, Passes, TimesOut, At, DevTurn, AtOnce, Delay, Short, Ack,
     Long, Never
<1>2. cpc = "turn"
  BY <1>1, DevRankIs, C64RankIs, KindIs DEF Joint, Quiet, DevInv, ByteInv, C64Inv, CbyteInv,
     OperationInv, C64Points, Giving, Taking, Lock, C64Lines, DevLines, DevFlags, Attending, Now,
     CommandPlace, OutPlace, InPlace, NextPlace, InStep, Final, Behind, Listens, Hearing, Heard,
     Second, Released, LOW, HIGH, clock, data, DevTurn, Passes, TimesOut, At, AtOnce, Delay, Short,
     Ack, Long, Never
<1>3. DevLines'
  BY <1>1, <1>2 DEF Joint, Lock, DevLines, LOW, HIGH, drives, locals, globals
<1>4. DevFlags'
  BY <1>1, <1>2 DEF Joint, DevInv, Lock, DevFlags, Attending, IsLast, drives, locals, globals
<1>5. CommandPlace'
  BY <1>1, <1>2, C64Stays DEF Joint, Lock, CommandPlace, OutPlace, InPlace, NextPlace, InStep,
     Final, Behind, Listens, Hearing, Heard, Second, Released, LOW, HIGH, drives, locals, globals
<1>6. OutPlace'
  BY <1>1, <1>2, C64Stays DEF Joint, Lock, CommandPlace, OutPlace, InPlace, NextPlace, InStep,
     Final, Behind, Listens, Hearing, Heard, Second, Released, LOW, HIGH, drives, locals, globals
<1>7. InPlace'
  BY <1>1, <1>2, C64Stays DEF Joint, Lock, CommandPlace, OutPlace, InPlace, NextPlace, InStep,
     Final, Behind, Listens, Hearing, Heard, Second, Released, LOW, HIGH, drives, locals, globals
<1>8. NextPlace'
  BY <1>1, <1>2, C64Stays DEF Joint, Lock, CommandPlace, OutPlace, InPlace, NextPlace, InStep,
     Final, Behind, Listens, Hearing, Heard, Second, Released, LOW, HIGH, drives, locals, globals
<1>9. (cpc \in {"bit", "hold", "taken"} => InStep)'
  BY <1>1, <1>2, C64Stays DEF InStep, Hearing, locals, globals
<1>10. QED
  BY <1>1, <1>3, <1>4, <1>5, <1>6, <1>7, <1>8, <1>9, C64Stays DEF Lock

(* and sends byte after byte until the C64 has taken the last one.         *)
LEMMA SendFileLock ==
    ASSUME Joint, SendFile
    PROVE  Lock'
<1>1. /\ DevTurn
      /\ \/ dpc = "send" /\ dpc' = "put" /\ UNCHANGED drives
         \/ /\ dpc = "sent"
            /\ IF IsLast THEN dpc' = "loop" /\ dData' = "in" /\ dClock' = "in" ELSE dpc' = "put" /\ UNCHANGED drives
      /\ UNCHANGED <<caller, locals, device_mode, secondary, iobuf, stored, c64Vars>>
  BY DevRankIs, LineTypes DEF SendFile, Passes, TimesOut, At, DevTurn, AtOnce, Delay, Short, Ack,
     Long, Never, SendDone, Joint, Quiet
<1>2. /\ dClock = "low" /\ dData = "in"
      /\ \/ /\ dpc' = "put" /\ UNCHANGED drives
            /\ (cpc = "next" /\ Now("in")) \/ cpc = "r_clock"
         \/ dpc' = "loop" /\ dData' = "in" /\ dClock' = "in" /\ cpc = "r_done"
  BY <1>1, DevRankIs, C64RankIs, KindIs DEF Joint, Quiet, DevInv, ByteInv, C64Inv, CbyteInv,
     OperationInv, C64Points, Giving, Taking, Lock, C64Lines, DevLines, DevFlags, Attending, Now,
     CommandPlace, OutPlace, InPlace, NextPlace, InStep, Final, Behind, Listens, Hearing, Heard,
     Second, Released, LOW, HIGH, clock, data, DevTurn, Passes, TimesOut, At, AtOnce, Delay, Short,
     Ack, Long, Never
<1>3. DevLines'
  BY <1>1, <1>2 DEF Joint, Lock, DevLines, LOW, HIGH, drives, locals, globals
<1>4. DevFlags'
  BY <1>1, <1>2 DEF Joint, DevInv, Lock, DevFlags, Attending, IsLast, drives, locals, globals
<1>5. CommandPlace'
  BY <1>1, <1>2, C64Stays DEF Joint, Lock, CommandPlace, OutPlace, InPlace, NextPlace, InStep,
     Final, Behind, Listens, Hearing, Heard, Second, Released, LOW, HIGH, drives, locals, globals
<1>6. OutPlace'
  BY <1>1, <1>2, C64Stays DEF Joint, Lock, CommandPlace, OutPlace, InPlace, NextPlace, InStep,
     Final, Behind, Listens, Hearing, Heard, Second, Released, LOW, HIGH, drives, locals, globals
<1>7. InPlace'
  BY <1>1, <1>2, C64Stays DEF Joint, Lock, CommandPlace, OutPlace, InPlace, NextPlace, InStep,
     Final, Behind, Listens, Hearing, Heard, Second, Released, LOW, HIGH, drives, locals, globals
<1>8. NextPlace'
  BY <1>1, <1>2, C64Stays DEF Joint, Lock, CommandPlace, OutPlace, InPlace, NextPlace, InStep,
     Final, Behind, Listens, Hearing, Heard, Second, Released, LOW, HIGH, drives, locals, globals
<1>9. (cpc \in {"bit", "hold", "taken"} => InStep)'
  BY <1>1, <1>2, C64Stays DEF InStep, Hearing, locals, globals
<1>10. QED
  BY <1>1, <1>3, <1>4, <1>5, <1>6, <1>7, <1>8, <1>9, C64Stays DEF Lock

(* The C64 presents a command. *)
LEMMA AtnClockLowLock ==
    ASSUME Joint, AtnClockLow
    PROVE  Lock'
<1>1. /\ cpc = "atn" /\ cClock' = LOW /\ cpc' = "present" /\ job' = job /\ op' = op
      /\ UNCHANGED <<cAtn, cData, cpos, ceoi, cbit, cbyte, devVars>>
  BY C64RankIs, LineTypes DEF AtnClockLow, On, Sees, C64Turn, AtOnce, Delay, Short, Ack, Long,
     Never
<1>2. Operation.kind = "command" /\ cpos = 1 /\ (Behind \/ dpc = "a_low")
  BY <1>1, DevRankIs, C64RankIs, KindIs DEF Joint, Quiet, Sent, DevInv, ByteInv, C64Inv, CbyteInv,
     OperationInv, C64Points, Giving, Taking, Lock, C64Lines, DevLines, DevFlags, Attending, Now,
     CommandPlace, OutPlace, InPlace, NextPlace, InStep, Final, Behind, Listens, Hearing, Heard,
     Second, Released, LOW, HIGH, clock, data, C64Turn, AtOnce, Delay, Short, Ack, Long, Never
<1>3. C64Lines'
  BY <1>1, <1>2, DevStays, JobStays DEF Joint, Lock, C64Lines, LOW, HIGH
<1>4. CommandPlace'
  BY <1>1, <1>2, DevStays, JobStays DEF Joint, Lock, CommandPlace, OutPlace, InPlace, NextPlace,
     InStep, Final, Behind, Listens, Hearing, Heard, Second, Released, LOW, HIGH
<1>5. OutPlace'
  BY <1>1, <1>2, DevStays, JobStays DEF Joint, Lock, CommandPlace, OutPlace, InPlace, NextPlace,
     InStep, Final, Behind, Listens, Hearing, Heard, Second, Released, LOW, HIGH
<1>6. InPlace'
  BY <1>1, <1>2, DevStays, JobStays DEF Joint, Lock, CommandPlace, OutPlace, InPlace, NextPlace,
     InStep, Final, Behind, Listens, Hearing, Heard, Second, Released, LOW, HIGH
<1>7. NextPlace'
  BY <1>1, <1>2, DevStays, JobStays DEF Joint, Lock, CommandPlace, OutPlace, InPlace, NextPlace,
     InStep, Final, Behind, Listens, Hearing, Heard, Second, Released, LOW, HIGH
<1>8. (cpc \in {"bit", "hold", "taken"} => InStep)'
  BY <1>1, <1>2, DevStays, JobStays DEF Joint, Lock, CommandPlace, OutPlace, InPlace, NextPlace,
     InStep, Final, Behind, Listens, Hearing, Heard, Second, Released, LOW, HIGH
<1>9. (job = <<>> \/ KernalJob(job))'
  BY <1>1, JobStays
<1>10. QED
  BY <1>1, <1>3, <1>4, <1>5, <1>6, <1>7, <1>8, <1>9, DevStays DEF Lock

(* It has found a device, and lets the clock go. *)
LEMMA BeginByteLock ==
    ASSUME Joint, BeginByte
    PROVE  Lock'
<1>1. /\ cpc \in {"present", "byte"} /\ C64Turn /\ data = LOW /\ cClock' = HIGH /\ cbit' = 0
      /\ cpc' = (IF Operation.kind = "out" /\ cpos = Len(Operation.bytes) THEN "eoi_ready" ELSE "ready")
      /\ job' = job /\ op' = op /\ UNCHANGED <<cAtn, cData, cpos, ceoi, cbyte, devVars>>
  BY C64RankIs, LineTypes DEF BeginByte, On, Sees, C64Turn, AtOnce, Delay, Short, Ack, Long, Never
<1>2. /\ dpc = "loop" => dData = "low"
      /\ \/ /\ cpc = "present" /\ Operation.kind = "command" /\ cpos = 1
            /\ Behind \/ dpc = "a_low" \/ (dpc = "g_clock" /\ caller = "device")
         \/ cpc = "byte" /\ Operation.kind = "command" /\ cpos = 2 /\ Second
         \/ cpc = "byte" /\ Operation.kind = "out" /\ Listens /\ cpos \in 1 .. Len(Operation.bytes) /\ Len(Operation.bytes) \in Nat
  BY <1>1, DevRankIs, C64RankIs, KindIs, JobTypes DEF Joint, Quiet, Sent, DevInv, ByteInv, C64Inv,
     CbyteInv, OperationInv, C64Points, Giving, Taking, Lock, C64Lines, DevLines, DevFlags,
     Attending, Now, CommandPlace, OutPlace, InPlace, NextPlace, InStep, Final, Behind, Listens,
     Hearing, Heard, Second, Released, LOW, HIGH, clock, data, C64Turn, AtOnce, Delay, Short, Ack,
     Long, Never
<1>3. C64Lines'
  BY <1>1, <1>2, DevStays, JobStays DEF Joint, Lock, C64Lines, LOW, HIGH
<1>4. CommandPlace'
  BY <1>1, <1>2, DevStays, JobStays DEF Joint, Lock, CommandPlace, OutPlace, InPlace, NextPlace,
     InStep, Final, Behind, Listens, Hearing, Heard, Second, Released, LOW, HIGH
<1>5. OutPlace'
  BY <1>1, <1>2, DevStays, JobStays DEF Joint, Lock, CommandPlace, OutPlace, InPlace, NextPlace,
     InStep, Final, Behind, Listens, Hearing, Heard, Second, Released, LOW, HIGH
<1>6. InPlace'
  BY <1>1, <1>2, DevStays, JobStays DEF Joint, Lock, CommandPlace, OutPlace, InPlace, NextPlace,
     InStep, Final, Behind, Listens, Hearing, Heard, Second, Released, LOW, HIGH
<1>7. NextPlace'
  BY <1>1, <1>2, DevStays, JobStays DEF Joint, Lock, CommandPlace, OutPlace, InPlace, NextPlace,
     InStep, Final, Behind, Listens, Hearing, Heard, Second, Released, LOW, HIGH
<1>8. (cpc \in {"bit", "hold", "taken"} => InStep)'
  BY <1>1, <1>2, DevStays, JobStays DEF Joint, Lock, CommandPlace, OutPlace, InPlace, NextPlace,
     InStep, Final, Behind, Listens, Hearing, Heard, Second, Released, LOW, HIGH
<1>9. (job = <<>> \/ KernalJob(job))'
  BY <1>1, JobStays
<1>10. QED
  BY <1>1, <1>3, <1>4, <1>5, <1>6, <1>7, <1>8, <1>9, DevStays DEF Lock

(* The device has let DATA go, or answered EOI. *)
LEMMA ByteReadyLock ==
    ASSUME Joint, ByteReady
    PROVE  Lock'
<1>1. /\ \/ cpc = "eoi_ready" /\ data = HIGH /\ cpc' = "eoi_seen" /\ cClock' = cClock
         \/ cpc = "eoi_seen" /\ data = LOW /\ cpc' = "ready" /\ cClock' = cClock
         \/ cpc = "ready" /\ data = HIGH /\ cpc' = "bit" /\ cClock' = LOW
      /\ job' = job /\ op' = op /\ UNCHANGED <<cAtn, cData, cbit, cpos, ceoi, cbyte, devVars>>
  BY C64RankIs, LineTypes DEF ByteReady, On, Sees, C64Turn, AtOnce, Delay, Short, Ack, Long, Never
<1>2. /\ \/ cpc = "eoi_ready" /\ Operation.kind = "out" /\ cpos = Len(Operation.bytes) /\ dpc \in {"g_data", "g_eoi"} /\ Hearing
         \/ cpc = "eoi_seen" /\ Operation.kind = "out" /\ cpos = Len(Operation.bytes) /\ dpc = "g_pulsed" /\ Hearing
         \/ /\ cpc = "ready" /\ Operation.kind = "command" /\ dpc \in {"g_data", "g_low"}
            /\ caller = (IF cpos = 1 THEN "device" ELSE "sec") /\ (cpos = 2 => device_mode = Operation.bytes[1])
         \/ cpc = "ready" /\ Operation.kind = "out" /\ ~Final /\ Hearing /\ dpc \in {"g_data", "g_eoi"}
         \/ cpc = "ready" /\ Operation.kind = "out" /\ Final /\ Hearing /\ dpc = "g_low"
      /\ cbit = 0
      /\ dpc = "g_eoi" => eoi = 0
      /\ dpc = "g_low" => eoi = 1
  BY <1>1, DevRankIs, C64RankIs, KindIs, JobTypes DEF Joint, Quiet, Sent, DevInv, ByteInv, C64Inv,
     CbyteInv, OperationInv, C64Points, Giving, Taking, Lock, C64Lines, DevLines, DevFlags,
     Attending, Now, CommandPlace, OutPlace, InPlace, NextPlace, InStep, Final, Behind, Listens,
     Hearing, Heard, Second, Released, LOW, HIGH, clock, data, C64Turn, AtOnce, Delay, Short, Ack,
     Long, Never
<1>3. C64Lines'
  BY <1>1, <1>2, DevStays, JobStays DEF Joint, Lock, C64Lines, LOW, HIGH
<1>4. CommandPlace'
  BY <1>1, <1>2, DevStays, JobStays DEF Joint, Lock, CommandPlace, OutPlace, InPlace, NextPlace,
     InStep, Final, Behind, Listens, Hearing, Heard, Second, Released, LOW, HIGH
<1>5. OutPlace'
  BY <1>1, <1>2, DevStays, JobStays DEF Joint, Lock, CommandPlace, OutPlace, InPlace, NextPlace,
     InStep, Final, Behind, Listens, Hearing, Heard, Second, Released, LOW, HIGH
<1>6. InPlace'
  BY <1>1, <1>2, DevStays, JobStays DEF Joint, Lock, CommandPlace, OutPlace, InPlace, NextPlace,
     InStep, Final, Behind, Listens, Hearing, Heard, Second, Released, LOW, HIGH
<1>7. NextPlace'
  BY <1>1, <1>2, DevStays, JobStays DEF Joint, Lock, CommandPlace, OutPlace, InPlace, NextPlace,
     InStep, Final, Behind, Listens, Hearing, Heard, Second, Released, LOW, HIGH
<1>8. (cpc \in {"bit", "hold", "taken"} => InStep)'
  BY <1>1, <1>2, DevStays, JobStays DEF Joint, Lock, CommandPlace, OutPlace, InPlace, NextPlace,
     InStep, Final, Behind, Listens, Hearing, Heard, Second, Released, LOW, HIGH
<1>9. (job = <<>> \/ KernalJob(job))'
  BY <1>1, JobStays
<1>10. QED
  BY <1>1, <1>3, <1>4, <1>5, <1>6, <1>7, <1>8, <1>9, DevStays DEF Lock

(* A bit is given while the sketch waits for it, *)
LEMMA GiveBitLock ==
    ASSUME Joint, GiveBit
    PROVE  Lock'
<1>1. /\ cpc = "bit" /\ C64Turn /\ cData' = BitOf(Operation.bytes[cpos], cbit) /\ cClock' = HIGH /\ cpc' = "hold" /\ data = HIGH
      /\ job' = job /\ op' = op /\ UNCHANGED <<cAtn, cbit, cpos, ceoi, cbyte, devVars>>
  BY C64RankIs, LineTypes DEF GiveBit, On, Sees, C64Turn, AtOnce, Delay, Short, Ack, Long, Never
<1>2. /\ dpc = "g_high" /\ cbit = bit /\ byte = Sent % Pow2[bit] /\ InStep /\ dClock = "in"
  BY <1>1, DevRankIs, C64RankIs, KindIs, BitsAssumption DEF Joint, Quiet, Sent, DevInv, ByteInv,
     C64Inv, CbyteInv, OperationInv, C64Points, Giving, Taking, Lock, C64Lines, DevLines, DevFlags,
     Attending, Now, CommandPlace, OutPlace, InPlace, NextPlace, InStep, Final, Behind, Listens,
     Hearing, Heard, Second, Released, LOW, HIGH, clock, data, C64Turn, AtOnce, Delay, Short, Ack,
     Long, Never
<1>3. C64Lines'
  BY <1>1, <1>2, DevStays, JobStays DEF Joint, Lock, C64Lines, LOW, HIGH, Sent
<1>4. CommandPlace'
  BY <1>1, <1>2, DevStays, JobStays DEF Joint, Lock, CommandPlace, OutPlace, InPlace, NextPlace,
     InStep, Final, Behind, Listens, Hearing, Heard, Second, Released, LOW, HIGH, Sent
<1>5. OutPlace'
  BY <1>1, <1>2, DevStays, JobStays DEF Joint, Lock, CommandPlace, OutPlace, InPlace, NextPlace,
     InStep, Final, Behind, Listens, Hearing, Heard, Second, Released, LOW, HIGH, Sent
<1>6. InPlace'
  BY <1>1, <1>2, DevStays, JobStays DEF Joint, Lock, CommandPlace, OutPlace, InPlace, NextPlace,
     InStep, Final, Behind, Listens, Hearing, Heard, Second, Released, LOW, HIGH, Sent
<1>7. NextPlace'
  BY <1>1, <1>2, DevStays, JobStays DEF Joint, Lock, CommandPlace, OutPlace, InPlace, NextPlace,
     InStep, Final, Behind, Listens, Hearing, Heard, Second, Released, LOW, HIGH, Sent
<1>8. (cpc \in {"bit", "hold", "taken"} => InStep)'
  BY <1>1, <1>2, DevStays, JobStays DEF Joint, Lock, CommandPlace, OutPlace, InPlace, NextPlace,
     InStep, Final, Behind, Listens, Hearing, Heard, Second, Released, LOW, HIGH, Sent
<1>9. (job = <<>> \/ KernalJob(job))'
  BY <1>1, JobStays
<1>10. QED
  BY <1>1, <1>3, <1>4, <1>5, <1>6, <1>7, <1>8, <1>9, DevStays DEF Lock

(* and taken back when it has been read. *)
LEMMA GiveBitEndLock ==
    ASSUME Joint, GiveBitEnd
    PROVE  Lock'
<1>1. /\ cpc = "hold" /\ C64Turn /\ cData' = HIGH /\ cClock' = LOW /\ cbit' = cbit + 1
      /\ cpc' = (IF cbit + 1 < Bits THEN "bit" ELSE "taken")
      /\ job' = job /\ op' = op /\ UNCHANGED <<cAtn, cpos, ceoi, cbyte, devVars>>
  BY C64RankIs, LineTypes DEF GiveBitEnd, On, Sees, C64Turn, AtOnce, Delay, Short, Ack, Long, Never
<1>2. /\ dpc = "g_fall" /\ cbit = bit /\ byte = Sent % Pow2[bit + 1] /\ InStep
      /\ cbit + 1 < Bits \/ cbit + 1 = Bits
      /\ Sent % Pow2[Bits] = Sent
  BY <1>1, DevRankIs, C64RankIs, KindIs, BitsAssumption, SentType DEF Joint, Quiet, Sent, DevInv,
     ByteInv, C64Inv, CbyteInv, OperationInv, C64Points, Giving, Taking, Lock, C64Lines, DevLines,
     DevFlags, Attending, Now, CommandPlace, OutPlace, InPlace, NextPlace, InStep, Final, Behind,
     Listens, Hearing, Heard, Second, Released, LOW, HIGH, clock, data, C64Turn, AtOnce, Delay,
     Short, Ack, Long, Never
<1>3. C64Lines'
  BY <1>1, <1>2, DevStays, JobStays DEF Joint, Lock, C64Lines, LOW, HIGH, Sent
<1>4. CommandPlace'
  BY <1>1, <1>2, DevStays, JobStays DEF Joint, Lock, CommandPlace, OutPlace, InPlace, NextPlace,
     InStep, Final, Behind, Listens, Hearing, Heard, Second, Released, LOW, HIGH, Sent
<1>5. OutPlace'
  BY <1>1, <1>2, DevStays, JobStays DEF Joint, Lock, CommandPlace, OutPlace, InPlace, NextPlace,
     InStep, Final, Behind, Listens, Hearing, Heard, Second, Released, LOW, HIGH, Sent
<1>6. InPlace'
  BY <1>1, <1>2, DevStays, JobStays DEF Joint, Lock, CommandPlace, OutPlace, InPlace, NextPlace,
     InStep, Final, Behind, Listens, Hearing, Heard, Second, Released, LOW, HIGH, Sent
<1>7. NextPlace'
  BY <1>1, <1>2, DevStays, JobStays DEF Joint, Lock, CommandPlace, OutPlace, InPlace, NextPlace,
     InStep, Final, Behind, Listens, Hearing, Heard, Second, Released, LOW, HIGH, Sent
<1>8. (cpc \in {"bit", "hold", "taken"} => InStep)'
  BY <1>1, <1>2, DevStays, JobStays DEF Joint, Lock, CommandPlace, OutPlace, InPlace, NextPlace,
     InStep, Final, Behind, Listens, Hearing, Heard, Second, Released, LOW, HIGH, Sent
<1>9. (job = <<>> \/ KernalJob(job))'
  BY <1>1, JobStays
<1>10. QED
  BY <1>1, <1>3, <1>4, <1>5, <1>6, <1>7, <1>8, <1>9, DevStays DEF Lock

(* The C64 never finds DATA where it should not be. *)
LEMMA NoError ==
    ASSUME Joint
    PROVE  ~NoDevice /\ ~ByteError /\ ~TakeError
<1>1. ~NoDevice
  <2>1. SUFFICES ASSUME NoDevice PROVE FALSE
    OBVIOUS
  <2>2. cpc \in {"present", "byte"} /\ data = HIGH /\ C64Turn
    BY <2>1 DEF NoDevice, On
  <2>3. QED
    BY <2>2, DevRankIs, C64RankIs, KindIs, JobTypes DEF Joint, Quiet, Sent, DevInv, ByteInv,
       C64Inv, CbyteInv, OperationInv, C64Points, Giving, Taking, Lock, C64Lines, DevLines,
       DevFlags, Attending, Now, CommandPlace, OutPlace, InPlace, NextPlace, InStep, Final, Behind,
       Listens, Hearing, Heard, Second, Released, LOW, HIGH, clock, data, C64Turn, AtOnce, Delay,
       Short, Ack, Long, Never
<1>2. ~ByteError
  <2>1. SUFFICES ASSUME ByteError PROVE FALSE
    OBVIOUS
  <2>2. C64Turn /\ data = (IF cpc = "taken" THEN HIGH ELSE LOW) /\ cpc \in {"taken", "bit"}
    BY <2>1, C64RankIs, LineTypes DEF ByteError, On, AtOnce, Delay, Short, Ack, Long, Never
  <2>3. QED
    BY <2>2, DevRankIs, C64RankIs, KindIs, JobTypes DEF Joint, Quiet, Sent, DevInv, ByteInv,
       C64Inv, CbyteInv, OperationInv, C64Points, Giving, Taking, Lock, C64Lines, DevLines,
       DevFlags, Attending, Now, CommandPlace, OutPlace, InPlace, NextPlace, InStep, Final, Behind,
       Listens, Hearing, Heard, Second, Released, LOW, HIGH, clock, data, C64Turn, AtOnce, Delay,
       Short, Ack, Long, Never
<1>3. ~TakeError
  <2>1. SUFFICES ASSUME TakeError PROVE FALSE
    OBVIOUS
  <2>2. C64Turn /\ cpc = "r_start" /\ clock = HIGH /\ ceoi
    BY <2>1, C64RankIs, LineTypes DEF TakeError, On, AtOnce, Delay, Short, Ack, Long, Never
  <2>3. QED
    BY <2>2, DevRankIs, C64RankIs, KindIs, JobTypes DEF Joint, Quiet, Sent, DevInv, ByteInv,
       C64Inv, CbyteInv, OperationInv, C64Points, Giving, Taking, Lock, C64Lines, DevLines,
       DevFlags, Attending, Now, CommandPlace, OutPlace, InPlace, NextPlace, InStep, Final, Behind,
       Listens, Hearing, Heard, Second, Released, LOW, HIGH, clock, data, C64Turn, AtOnce, Delay,
       Short, Ack, Long, Never
<1>4. QED
  BY <1>1, <1>2, <1>3

(* The C64 has become the listener, *)
LEMMA TurnDoneLock ==
    ASSUME Joint, TurnDone
    PROVE  Lock'
<1>1. /\ cpc = "turn" /\ clock = LOW /\ cpc' = "next" /\ job' = job /\ op' = op
      /\ UNCHANGED <<cAtn, cClock, cData, cbit, cpos, ceoi, cbyte, devVars>>
  BY C64RankIs, LineTypes DEF TurnDone, On, Sees, C64Turn, AtOnce, Delay, Short, Ack, Long, Never,
     atnLines
<1>2. /\ dpc = "send" /\ Now("in") /\ ~(op > Len(job)) /\ ~Now("out") /\ ~Now("command")
      /\ cAtn = HIGH /\ cClock = HIGH /\ cData = LOW
  BY <1>1, DevRankIs, C64RankIs, KindIs, JobTypes DEF Joint, Quiet, Sent, DevInv, ByteInv, C64Inv,
     CbyteInv, OperationInv, C64Points, Giving, Taking, Lock, C64Lines, DevLines, DevFlags,
     Attending, Now, CommandPlace, OutPlace, InPlace, NextPlace, InStep, Final, Behind, Listens,
     Hearing, Heard, Second, Released, LOW, HIGH, clock, data, C64Turn, AtOnce, Delay, Short, Ack,
     Long, Never
<1>3. C64Lines'
  BY <1>1, <1>2, DevStays, JobStays DEF Joint, Lock, C64Lines, LOW, HIGH
<1>4. CommandPlace'
  BY <1>1, <1>2, DevStays, JobStays DEF Joint, Lock, CommandPlace, OutPlace, InPlace, NextPlace,
     InStep, Final, Behind, Listens, Hearing, Heard, Second, Released, LOW, HIGH
<1>5. OutPlace'
  BY <1>1, <1>2, DevStays, JobStays DEF Joint, Lock, CommandPlace, OutPlace, InPlace, NextPlace,
     InStep, Final, Behind, Listens, Hearing, Heard, Second, Released, LOW, HIGH
<1>6. InPlace'
  BY <1>1, <1>2, DevStays, JobStays DEF Joint, Lock, CommandPlace, OutPlace, InPlace, NextPlace,
     InStep, Final, Behind, Listens, Hearing, Heard, Second, Released, LOW, HIGH
<1>7. NextPlace'
  BY <1>1, <1>2, DevStays, JobStays DEF Joint, Lock, CommandPlace, OutPlace, InPlace, NextPlace,
     InStep, Final, Behind, Listens, Hearing, Heard, Second, Released, LOW, HIGH
<1>8. (cpc \in {"bit", "hold", "taken"} => InStep)'
  BY <1>1, <1>2, DevStays, JobStays DEF Joint, Lock, CommandPlace, OutPlace, InPlace, NextPlace,
     InStep, Final, Behind, Listens, Hearing, Heard, Second, Released, LOW, HIGH
<1>9. (job = <<>> \/ KernalJob(job))'
  BY <1>1, JobStays
<1>10. QED
  BY <1>1, <1>3, <1>4, <1>5, <1>6, <1>7, <1>8, <1>9, DevStays DEF Lock

(* is ready for a byte, *)
LEMMA TakeReadyLock ==
    ASSUME Joint, TakeReady
    PROVE  Lock'
<1>1. /\ cpc = "r_clock" /\ clock = HIGH /\ cData' = HIGH /\ cbit' = 0 /\ cbyte' = 0 /\ cpc' = "r_start"
      /\ job' = job /\ op' = op /\ UNCHANGED <<cAtn, cClock, cpos, ceoi, devVars>>
  BY C64RankIs, LineTypes DEF TakeReady, On, Sees, C64Turn, AtOnce, Delay, Short, Ack, Long, Never
<1>2. dpc = "p_inf" /\ ~ceoi /\ Operation.kind = "in"
  BY <1>1, DevRankIs, C64RankIs, KindIs DEF Joint, Quiet, Sent, DevInv, ByteInv, C64Inv, CbyteInv,
     OperationInv, C64Points, Giving, Taking, Lock, C64Lines, DevLines, DevFlags, Attending, Now,
     CommandPlace, OutPlace, InPlace, NextPlace, InStep, Final, Behind, Listens, Hearing, Heard,
     Second, Released, LOW, HIGH, clock, data, C64Turn, AtOnce, Delay, Short, Ack, Long, Never
<1>3. C64Lines'
  BY <1>1, <1>2, DevStays, JobStays DEF Joint, Lock, C64Lines, LOW, HIGH
<1>4. CommandPlace'
  BY <1>1, <1>2, DevStays, JobStays DEF Joint, Lock, CommandPlace, OutPlace, InPlace, NextPlace,
     InStep, Final, Behind, Listens, Hearing, Heard, Second, Released, LOW, HIGH
<1>5. OutPlace'
  BY <1>1, <1>2, DevStays, JobStays DEF Joint, Lock, CommandPlace, OutPlace, InPlace, NextPlace,
     InStep, Final, Behind, Listens, Hearing, Heard, Second, Released, LOW, HIGH
<1>6. InPlace'
  BY <1>1, <1>2, DevStays, JobStays DEF Joint, Lock, CommandPlace, OutPlace, InPlace, NextPlace,
     InStep, Final, Behind, Listens, Hearing, Heard, Second, Released, LOW, HIGH
<1>7. NextPlace'
  BY <1>1, <1>2, DevStays, JobStays DEF Joint, Lock, CommandPlace, OutPlace, InPlace, NextPlace,
     InStep, Final, Behind, Listens, Hearing, Heard, Second, Released, LOW, HIGH
<1>8. (cpc \in {"bit", "hold", "taken"} => InStep)'
  BY <1>1, <1>2, DevStays, JobStays DEF Joint, Lock, CommandPlace, OutPlace, InPlace, NextPlace,
     InStep, Final, Behind, Listens, Hearing, Heard, Second, Released, LOW, HIGH
<1>9. (job = <<>> \/ KernalJob(job))'
  BY <1>1, JobStays
<1>10. QED
  BY <1>1, <1>3, <1>4, <1>5, <1>6, <1>7, <1>8, <1>9, DevStays DEF Lock

(* takes silence for EOI, *)
LEMMA TakeEoiLock ==
    ASSUME Joint, TakeEoi
    PROVE  Lock'
<1>1. /\ \/ cpc = "r_start" /\ clock = HIGH /\ ~ceoi /\ ceoi' = TRUE /\ cData' = LOW /\ cpc' = "r_pulse"
         \/ cpc = "r_pulse" /\ ceoi' = ceoi /\ cData' = HIGH /\ cpc' = "r_start"
      /\ job' = job /\ op' = op /\ C64Turn /\ UNCHANGED <<cAtn, cClock, cbit, cpos, cbyte, devVars>>
  BY C64RankIs, LineTypes DEF TakeEoi, On, Sees, C64Turn, AtOnce, Delay, Short, Ack, Long, Never
<1>2. /\ Operation.kind = "in" /\ eoi = 1 /\ bit = 0
      /\ \/ cpc = "r_start" /\ dpc = "p_low"
         \/ cpc = "r_pulse" /\ dpc = "p_ready" /\ ceoi
  BY <1>1, DevRankIs, C64RankIs, KindIs DEF Joint, Quiet, Sent, DevInv, ByteInv, C64Inv, CbyteInv,
     OperationInv, C64Points, Giving, Taking, Lock, C64Lines, DevLines, DevFlags, Attending, Now,
     CommandPlace, OutPlace, InPlace, NextPlace, InStep, Final, Behind, Listens, Hearing, Heard,
     Second, Released, LOW, HIGH, clock, data, C64Turn, AtOnce, Delay, Short, Ack, Long, Never
<1>3. C64Lines'
  BY <1>1, <1>2, DevStays, JobStays DEF Joint, Lock, C64Lines, LOW, HIGH
<1>4. CommandPlace'
  BY <1>1, <1>2, DevStays, JobStays DEF Joint, Lock, CommandPlace, OutPlace, InPlace, NextPlace,
     InStep, Final, Behind, Listens, Hearing, Heard, Second, Released, LOW, HIGH
<1>5. OutPlace'
  BY <1>1, <1>2, DevStays, JobStays DEF Joint, Lock, CommandPlace, OutPlace, InPlace, NextPlace,
     InStep, Final, Behind, Listens, Hearing, Heard, Second, Released, LOW, HIGH
<1>6. InPlace'
  BY <1>1, <1>2, DevStays, JobStays DEF Joint, Lock, CommandPlace, OutPlace, InPlace, NextPlace,
     InStep, Final, Behind, Listens, Hearing, Heard, Second, Released, LOW, HIGH
<1>7. NextPlace'
  BY <1>1, <1>2, DevStays, JobStays DEF Joint, Lock, CommandPlace, OutPlace, InPlace, NextPlace,
     InStep, Final, Behind, Listens, Hearing, Heard, Second, Released, LOW, HIGH
<1>8. (cpc \in {"bit", "hold", "taken"} => InStep)'
  BY <1>1, <1>2, DevStays, JobStays DEF Joint, Lock, CommandPlace, OutPlace, InPlace, NextPlace,
     InStep, Final, Behind, Listens, Hearing, Heard, Second, Released, LOW, HIGH
<1>9. (job = <<>> \/ KernalJob(job))'
  BY <1>1, JobStays
<1>10. QED
  BY <1>1, <1>3, <1>4, <1>5, <1>6, <1>7, <1>8, <1>9, DevStays DEF Lock

(* reads the bits while the sketch holds them, *)
LEMMA TakeBitLock ==
    ASSUME Joint, TakeBit
    PROVE  Lock'
<1>1. /\ \/ cpc = "r_start" /\ clock = LOW /\ cpc' = "r_high" /\ cbyte' = cbyte /\ cbit' = cbit
         \/ cpc = "r_high" /\ clock = HIGH /\ cpc' = "r_fall" /\ cbyte' = cbyte + data * Pow2[cbit] /\ cbit' = cbit
         \/ cpc = "r_fall" /\ clock = LOW /\ cbit + 1 < Bits /\ cbit' = cbit + 1 /\ cbyte' = cbyte /\ cpc' = "r_high"
      /\ job' = job /\ op' = op /\ UNCHANGED <<cAtn, cClock, cData, cpos, ceoi, devVars>>
  BY C64RankIs, LineTypes DEF TakeBit, On, Sees, C64Turn, AtOnce, Delay, Short, Ack, Long, Never,
     atnLines
<1>2. /\ Operation.kind = "in" /\ (ceoi <=> eoi = 1) /\ cClock = HIGH /\ cData = HIGH /\ cbit \in 0 .. Bits - 1
      /\ \/ cpc = "r_start" /\ dpc \in {"p_ready", "p_bit"} /\ cbit = bit /\ cbyte = byte % Pow2[bit]
         \/ cpc = "r_high" /\ dpc = "p_hold" /\ cbit = bit /\ cbyte = byte % Pow2[bit] /\ data = BitOf(byte, bit)
         \/ cpc = "r_fall" /\ dpc = "p_bit" /\ cbit + 1 = bit /\ cbyte = byte % Pow2[bit]
  <2>1. /\ Operation.kind = "in" /\ cClock = HIGH /\ cbit \in 0 .. Bits
        /\ cpc \in {"r_high", "r_fall"} => cbit < Bits
        /\ cpc = "r_start" => cbit = 0 /\ cbyte = 0
        /\ cpc # "r_fall" => cData = HIGH
    BY <1>1 DEF Joint, C64Inv, CbyteInv, Lock, InPlace, C64Lines
  <2>2. CASE cpc = "r_start"
    <3>1. dpc \in {"p_ready", "p_bit"} /\ (ceoi <=> eoi = 1) /\ bit = 0
      BY <1>1, <2>1, <2>2 DEF Joint, Lock, InPlace, DevLines, clock, LOW, HIGH
    <3>2. QED
      BY <1>1, <2>1, <2>2, <3>1, ByteType, BitsAssumption
  <2>3. CASE cpc = "r_high"
    <3>1. dpc = "p_hold" /\ (ceoi <=> eoi = 1) /\ cbit = bit /\ cbyte = byte % Pow2[bit]
      BY <1>1, <2>1, <2>3 DEF Joint, Lock, InPlace, DevLines, clock, LOW, HIGH
    <3>2. bit \in 0 .. Bits - 1 /\ data = BitOf(byte, bit)
      BY <2>1, <2>3, <3>1, ByteType, BitsAssumption DEF Joint, DevInv, ByteInv, Lock, DevLines, data, LOW, HIGH
    <3>3. QED
      BY <1>1, <2>1, <2>3, <3>1, <3>2
  <2>4. CASE cpc = "r_fall"
    <3>1. dpc = "p_bit" /\ (ceoi <=> eoi = 1) /\ cbit + 1 = bit /\ cbyte = byte % Pow2[cbit + 1]
      BY <1>1, <2>1, <2>4 DEF Joint, Lock, InPlace, DevLines, clock, LOW, HIGH
    <3>2. cData = HIGH
      BY <2>1, <2>4, <1>1 DEF Joint, Lock, C64Lines
    <3>3. QED
      BY <1>1, <2>1, <2>4, <3>1, <3>2, BitsAssumption
  <2>5. QED
    BY <1>1, <2>2, <2>3, <2>4
<1>11. cpc = "r_high" => cbyte' = byte % Pow2[cbit + 1]
  BY <1>1, <1>2, ByteType, BitStep
<1>3. C64Lines'
  BY <1>1, <1>2, DevStays, JobStays, <1>11 DEF Joint, Lock, C64Lines, LOW, HIGH
<1>4. CommandPlace'
  BY <1>1, <1>2, JobStays DEF CommandPlace
<1>5. OutPlace'
  BY <1>1, <1>2, JobStays DEF OutPlace
<1>6. InPlace'
  BY <1>1, <1>2, <1>11, DevStays, JobStays DEF InPlace, Joint, Lock
<1>7. NextPlace'
  BY <1>1, <1>2 DEF NextPlace
<1>8. (cpc \in {"bit", "hold", "taken"} => InStep)'
  BY <1>1, <1>2
<1>9. (job = <<>> \/ KernalJob(job))'
  BY <1>1, JobStays
<1>10. QED
  BY <1>1, <1>3, <1>4, <1>5, <1>6, <1>7, <1>8, <1>9, DevStays DEF Lock

(* When the C64 has the last bit, the sketch waits for its                 *)
(* acknowledgement.                                                        *)
LEMMA TakeByteWhere ==
    ASSUME Joint, TakeByte
    PROVE  /\ cpc = "r_fall" /\ clock = LOW /\ cbit + 1 = Bits /\ cData' = LOW
           /\ cpc' = (IF ceoi THEN "r_done" ELSE "r_clock")
           /\ job' = job /\ op' = op /\ UNCHANGED <<cAtn, cClock, cbit, cpos, ceoi, cbyte, devVars>>
           /\ Operation.kind = "in" /\ (ceoi <=> eoi = 1) /\ cClock = HIGH /\ dpc = "p_end" /\ eoi \in {0, 1}
<1>1. /\ cpc = "r_fall" /\ clock = LOW /\ cbit + 1 = Bits /\ cData' = LOW
      /\ cpc' = (IF ceoi THEN "r_done" ELSE "r_clock")
      /\ job' = job /\ op' = op /\ UNCHANGED <<cAtn, cClock, cbit, cpos, ceoi, cbyte, devVars>>
  BY C64RankIs, LineTypes DEF TakeByte, On, Sees, C64Turn, AtOnce, Delay, Short, Ack, Long, Never
<1>2. /\ Operation.kind = "in" /\ (ceoi <=> eoi = 1) /\ cClock = HIGH /\ dpc = "p_end" /\ eoi \in {0, 1}
  BY <1>1, DevRankIs, C64RankIs, KindIs, BitsAssumption DEF Joint, Quiet, Sent, DevInv, ByteInv,
     C64Inv, CbyteInv, OperationInv, C64Points, Giving, Taking, Lock, C64Lines, DevLines, DevFlags,
     Attending, Now, CommandPlace, OutPlace, InPlace, NextPlace, InStep, Final, Behind, Listens,
     Hearing, Heard, Second, Released, LOW, HIGH, clock, data, C64Turn, AtOnce, Delay, Short, Ack,
     Long, Never
<1>3. QED
  BY <1>1, <1>2

(* and acknowledges the byte. *)
LEMMA TakeByteLock ==
    ASSUME Joint, TakeByte
    PROVE  Lock'
<1>1. C64Lines'
  BY TakeByteWhere, DevStays, JobStays DEF Joint, Lock, C64Lines, LOW, HIGH
<1>2. CommandPlace'
  BY TakeByteWhere DEF CommandPlace
<1>3. OutPlace'
  BY TakeByteWhere DEF OutPlace
<1>4. InPlace'
  BY TakeByteWhere, DevStays, JobStays DEF InPlace
<1>5. NextPlace'
  BY TakeByteWhere DEF NextPlace
<1>6. (cpc \in {"bit", "hold", "taken"} => InStep)'
  BY TakeByteWhere
<1>7. (job = <<>> \/ KernalJob(job))'
  BY TakeByteWhere, JobStays
<1>8. QED
  BY TakeByteWhere, <1>1, <1>2, <1>3, <1>4, <1>5, <1>6, <1>7, DevStays DEF Lock

LEMMA EndJobLock ==
    ASSUME Joint, EndJob
    PROVE  Lock'
<1>1. /\ cpc = "next" /\ op > Len(job) /\ cAtn' = HIGH /\ cClock' = HIGH /\ cData' = HIGH /\ cpc' \in {"idle", "off"}
      /\ job' = job /\ op' = op /\ UNCHANGED <<cbit, cpos, ceoi, cbyte, devVars>>
  BY C64RankIs, LineTypes DEF EndJob, On, Sees, C64Turn, AtOnce, Delay, Short, Ack, Long, Never,
     Release
<1>2. Behind /\ dpc # "a_high"
  BY <1>1, DevRankIs, C64RankIs, KindIs DEF Joint, Quiet, Sent, DevInv, ByteInv, C64Inv, CbyteInv,
     OperationInv, C64Points, Giving, Taking, Lock, C64Lines, DevLines, DevFlags, Attending, Now,
     CommandPlace, OutPlace, InPlace, NextPlace, InStep, Final, Behind, Listens, Hearing, Heard,
     Second, Released, LOW, HIGH, clock, data, C64Turn, AtOnce, Delay, Short, Ack, Long, Never
<1>3. C64Lines'
  BY <1>1, <1>2, DevStays, JobStays DEF Joint, Lock, C64Lines, LOW, HIGH
<1>4. CommandPlace'
  BY <1>1, <1>2, DevStays, JobStays DEF Joint, Lock, CommandPlace, OutPlace, InPlace, NextPlace,
     InStep, Final, Behind, Listens, Hearing, Heard, Second, Released, LOW, HIGH
<1>5. OutPlace'
  BY <1>1, <1>2, DevStays, JobStays DEF Joint, Lock, CommandPlace, OutPlace, InPlace, NextPlace,
     InStep, Final, Behind, Listens, Hearing, Heard, Second, Released, LOW, HIGH
<1>6. InPlace'
  BY <1>1, <1>2, DevStays, JobStays DEF Joint, Lock, CommandPlace, OutPlace, InPlace, NextPlace,
     InStep, Final, Behind, Listens, Hearing, Heard, Second, Released, LOW, HIGH
<1>7. NextPlace'
  BY <1>1, <1>2, DevStays, JobStays DEF Joint, Lock, CommandPlace, OutPlace, InPlace, NextPlace,
     InStep, Final, Behind, Listens, Hearing, Heard, Second, Released, LOW, HIGH
<1>8. (cpc \in {"bit", "hold", "taken"} => InStep)'
  BY <1>1, <1>2, DevStays, JobStays DEF Joint, Lock, CommandPlace, OutPlace, InPlace, NextPlace,
     InStep, Final, Behind, Listens, Hearing, Heard, Second, Released, LOW, HIGH
<1>9. (job = <<>> \/ KernalJob(job))'
  BY <1>1, <1>2, JobStays
<1>10. QED
  BY <1>1, <1>3, <1>4, <1>5, <1>6, <1>7, <1>8, <1>9, DevStays DEF Lock

LEMMA NextOperationLock ==
    ASSUME Joint, NextOperation
    PROVE  Lock'
<1>1. /\ cpc = "next" /\ op <= Len(job) /\ cpos' = 1 /\ ceoi' = FALSE
      /\ \/ /\ Operation.kind = "command" /\ cpc' = "atn" /\ cAtn' = LOW /\ cData' = HIGH /\ cClock' \in {HIGH, cClock}
         \/ Operation.kind = "out" /\ cpc' = "byte" /\ cAtn' = cAtn /\ cClock' = cClock /\ cData' = HIGH
         \/ Operation.kind = "in" /\ cpc' = "r_clock" /\ cAtn' = cAtn /\ cClock' = HIGH /\ cData' = cData
      /\ job' = job /\ op' = op /\ UNCHANGED <<cbit, cbyte, devVars>>
  BY C64RankIs, LineTypes, KindIs DEF NextOperation, On, Sees, C64Turn, AtOnce, Delay, Short, Ack,
     Long, Never
<1>2. \/ /\ Operation.kind = "command" /\ Behind /\ cpc' = "atn" /\ cAtn' = LOW /\ cData' = HIGH
      \/ Operation.kind = "out" /\ Listens /\ cpc' = "byte" /\ cAtn' = HIGH /\ cClock' = LOW /\ cData' = HIGH
      \/ /\ Operation.kind = "in" /\ dpc \in {"send", "put", "p_inf"} /\ cpc' = "r_clock" /\ cAtn' = HIGH /\ cClock' = HIGH
         /\ cData' = LOW
  BY <1>1, DevRankIs, C64RankIs, KindIs, JobTypes DEF Joint, Quiet, Sent, DevInv, ByteInv, C64Inv,
     CbyteInv, OperationInv, C64Points, Giving, Taking, Lock, C64Lines, DevLines, DevFlags,
     Attending, Now, CommandPlace, OutPlace, InPlace, NextPlace, InStep, Final, Behind, Listens,
     Hearing, Heard, Second, Released, LOW, HIGH, clock, data, C64Turn, AtOnce, Delay, Short, Ack,
     Long, Never
<1>3. C64Lines'
  BY <1>1, <1>2, DevStays, JobStays DEF Joint, Lock, C64Lines, LOW, HIGH
<1>4. CommandPlace'
  BY <1>1, <1>2, DevStays, JobStays DEF Joint, Lock, CommandPlace, OutPlace, InPlace, NextPlace,
     InStep, Final, Behind, Listens, Hearing, Heard, Second, Released, LOW, HIGH
<1>5. OutPlace'
  BY <1>1, <1>2, DevStays, JobStays DEF Joint, Lock, CommandPlace, OutPlace, InPlace, NextPlace,
     InStep, Final, Behind, Listens, Hearing, Heard, Second, Released, LOW, HIGH
<1>6. InPlace'
  BY <1>1, <1>2, DevStays, JobStays DEF Joint, Lock, CommandPlace, OutPlace, InPlace, NextPlace,
     InStep, Final, Behind, Listens, Hearing, Heard, Second, Released, LOW, HIGH
<1>7. NextPlace'
  BY <1>1, <1>2, DevStays, JobStays DEF Joint, Lock, CommandPlace, OutPlace, InPlace, NextPlace,
     InStep, Final, Behind, Listens, Hearing, Heard, Second, Released, LOW, HIGH
<1>8. (cpc \in {"bit", "hold", "taken"} => InStep)'
  BY <1>1, <1>2, DevStays, JobStays DEF Joint, Lock, CommandPlace, OutPlace, InPlace, NextPlace,
     InStep, Final, Behind, Listens, Hearing, Heard, Second, Released, LOW, HIGH
<1>9. (job = <<>> \/ KernalJob(job))'
  BY <1>1, <1>2, JobStays
<1>10. QED
  BY <1>1, <1>3, <1>4, <1>5, <1>6, <1>7, <1>8, <1>9, DevStays DEF Lock

(* When the C64 sees the acknowledgement, the sketch has the byte and      *)
(* knows whether it is the last.                                           *)
LEMMA ByteTakenWhere ==
    ASSUME Joint, ByteTaken
    PROVE  /\ cpc = "taken" /\ data = LOW
           /\ IF cpos < Len(Operation.bytes)
              THEN cpos' = cpos + 1 /\ cpc' = "byte" /\ op' = op
              ELSE /\ cpc' = (IF Operation.kind = "command" THEN "release" ELSE "next")
                   /\ op' = (IF Operation.kind = "command" THEN op ELSE op + 1) /\ cpos' = cpos
           /\ job' = job /\ UNCHANGED <<cAtn, cClock, cData, cbit, ceoi, cbyte, devVars>>
           /\ op <= Len(job) /\ dpc = "got" /\ byte = Sent /\ InStep /\ dData = "low" /\ cClock = LOW /\ cData = HIGH
           /\ cpos \in 1 .. Len(Operation.bytes) /\ Len(Operation.bytes) \in Nat
           /\ \/ /\ Operation.kind = "command" /\ eoi = 1 /\ cAtn = LOW
                 /\ \/ Len(Operation.bytes) = 1 /\ cpos = 1 /\ caller = "device"
                    \/ Len(Operation.bytes) = 2 /\ cpos = 1 /\ caller = "device"
                    \/ Len(Operation.bytes) = 2 /\ cpos = 2 /\ caller = "sec" /\ device_mode = Operation.bytes[1]
              \/ /\ Operation.kind = "out" /\ cAtn = HIGH /\ Hearing
                 /\ eoi = (IF cpos < Len(Operation.bytes) THEN 0 ELSE 1)
<1>1. /\ cpc = "taken" /\ data = LOW
      /\ IF cpos < Len(Operation.bytes)
         THEN cpos' = cpos + 1 /\ cpc' = "byte" /\ op' = op
         ELSE /\ cpc' = (IF Operation.kind = "command" THEN "release" ELSE "next")
              /\ op' = (IF Operation.kind = "command" THEN op ELSE op + 1) /\ cpos' = cpos
      /\ job' = job /\ UNCHANGED <<cAtn, cClock, cData, cbit, ceoi, cbyte, devVars>>
  BY C64RankIs, LineTypes DEF ByteTaken, On, Sees, C64Turn, AtOnce, Delay, Short, Ack, Long, Never,
     atnLines
<1>2. /\ op <= Len(job) /\ dpc = "got" /\ byte = Sent /\ InStep /\ dData = "low" /\ cClock = LOW /\ cData = HIGH
      /\ cpos \in 1 .. Len(Operation.bytes) /\ Len(Operation.bytes) \in Nat
      /\ \/ /\ Operation.kind = "command" /\ eoi = 1 /\ cAtn = LOW
            /\ \/ Len(Operation.bytes) = 1 /\ cpos = 1 /\ caller = "device"
               \/ Len(Operation.bytes) = 2 /\ cpos = 1 /\ caller = "device"
               \/ Len(Operation.bytes) = 2 /\ cpos = 2 /\ caller = "sec" /\ device_mode = Operation.bytes[1]
         \/ /\ Operation.kind = "out" /\ cAtn = HIGH /\ Hearing
            /\ eoi = (IF cpos < Len(Operation.bytes) THEN 0 ELSE 1)
  <2>1. /\ op <= Len(job) /\ cpos \in 1 .. Len(Operation.bytes) /\ Len(Operation.bytes) \in Nat
        /\ InStep /\ cData = HIGH /\ cClock = LOW
        /\ cAtn = IF Operation.kind = "command" THEN LOW ELSE HIGH
    BY <1>1, JobTypes DEF Joint, C64Inv, OperationInv, Giving, Lock, C64Lines
  <2>2. dpc = "got" /\ byte = Sent /\ dData = "low"
    BY <1>1, <2>1 DEF Joint, Lock, DevLines, InStep, data, LOW, HIGH
  <2>3. Operation.kind \in {"command", "out"}
    BY <1>1, <2>1, KindIs DEF Joint, C64Inv, OperationInv, Giving
  <2>4. CASE Operation.kind = "command"
    <3>1. eoi = 1 /\ caller = (IF cpos = 1 THEN "device" ELSE "sec")
          /\ (cpos = 2 => device_mode = Operation.bytes[1])
      BY <2>1, <2>2, <2>4 DEF InStep, Final
    <3>2. Len(Operation.bytes) \in {1, 2}
      BY <2>1, <2>4, CommandIs
    <3>3. cAtn = LOW
      BY <2>1, <2>4
    <3>4. \/ Len(Operation.bytes) = 1 /\ cpos = 1
          \/ Len(Operation.bytes) = 2 /\ cpos = 1
          \/ Len(Operation.bytes) = 2 /\ cpos = 2
      <4>1. \A c \in 1 .. 1 : c = 1
        OBVIOUS
      <4>2. \A c \in 1 .. 2 : c = 1 \/ c = 2
        OBVIOUS
      <4>3. QED
        BY <2>1, <3>2, <4>1, <4>2, Zenon
    <3>5. cpos = 2 => cpos # 1
      OBVIOUS
    <3>6. QED
      BY <2>1, <2>2, <2>4, <3>1, <3>3, <3>4, <3>5, Zenon
  <2>5. CASE Operation.kind = "out"
    <3>1. Hearing /\ (eoi = 1 <=> cpos = Len(Operation.bytes)) /\ eoi \in {0, 1}
      BY <2>1, <2>2, <2>5 DEF InStep, Final, Joint, DevInv
    <3>2. /\ cAtn = HIGH
          /\ eoi = (IF cpos < Len(Operation.bytes) THEN 0 ELSE 1)
      BY <2>1, <2>5, <3>1
    <3>3. QED
      BY <2>1, <2>2, <2>5, <3>1, <3>2, Zenon
  <2>6. QED
    BY <2>3, <2>4, <2>5
<1>3. QED
  BY <1>1, <1>2

(* A byte is acknowledged: the sketch has the whole byte, and knows        *)
(* whether it was the last.                                                *)
LEMMA ByteTakenLock ==
    ASSUME Joint, ByteTaken
    PROVE  Lock'
<1>1. C64Lines'
  BY ByteTakenWhere, DevStays, JobStays, FollowedBy DEF Joint, Lock, C64Lines, LOW, HIGH, Now, Sent
<1>2. CommandPlace'
  <2>1. CASE cpos < Len(Operation.bytes)
    <3>1. Operation' = Operation
      BY ByteTakenWhere, <2>1, JobStays
    <3>2. ASSUME Operation.kind = "command"
          PROVE  cpos = 1 /\ Second'
      <4> DEFINE n == Len(Operation.bytes)
      <4>5. /\ cpos < n /\ eoi = 1
            /\ \/ n = 1 /\ cpos = 1 /\ caller = "device"
               \/ n = 2 /\ cpos = 1 /\ caller = "device"
               \/ n = 2 /\ cpos = 2
        BY ByteTakenWhere, <2>1, <3>2, Zenon
      <4> HIDE DEF n
      <4>1. cpos = 1 /\ caller = "device" /\ eoi = 1
        BY <4>5
      <4>2. byte = Operation.bytes[1]
        BY ByteTakenWhere, <4>1 DEF Sent
      <4>3. QED
        BY ByteTakenWhere, <3>1, <4>1, <4>2, DevStays DEF Second
    <3>3. QED
      BY ByteTakenWhere, <2>1, <3>1, <3>2, DevStays DEF CommandPlace
  <2>2. CASE ~(cpos < Len(Operation.bytes)) /\ Operation.kind = "command"
    <3>1. Operation' = Operation /\ cpos = Len(Operation.bytes)
      BY ByteTakenWhere, <2>2, JobStays
    <3>2. Released'
      <4>1. /\ dpc' = "got" /\ eoi' = 1 /\ byte' = Operation.bytes[cpos]
            /\ caller' = caller /\ device_mode' = device_mode /\ cpos' = cpos
        BY ByteTakenWhere, <2>2, DevStays DEF Sent
      <4>2. QED
        BY ByteTakenWhere, <2>2, <3>1, <4>1 DEF Released
    <3>3. cpc' = "release" /\ cpos' = cpos
      BY ByteTakenWhere, <2>2
    <3>4. QED
      BY <2>2, <3>1, <3>2, <3>3 DEF CommandPlace
  <2>3. CASE ~(cpos < Len(Operation.bytes)) /\ Operation.kind = "out"
    BY ByteTakenWhere, <2>3 DEF CommandPlace
  <2>4. QED
    BY ByteTakenWhere, <2>1, <2>2, <2>3
<1>3. OutPlace'
  BY ByteTakenWhere, DevStays, JobStays, FollowedBy DEF OutPlace, Listens, Hearing, Heard, Now
<1>4. InPlace'
  BY ByteTakenWhere DEF InPlace
<1>5. NextPlace'
  BY ByteTakenWhere, DevStays, FollowedBy DEF NextPlace, Behind, Listens, Hearing, Heard, Now
<1>6. (cpc \in {"bit", "hold", "taken"} => InStep)'
  BY ByteTakenWhere
<1>7. (job = <<>> \/ KernalJob(job))'
  BY ByteTakenWhere, JobStays, FollowedBy
<1>8. QED
  BY ByteTakenWhere, <1>1, <1>2, <1>3, <1>4, <1>5, <1>6, <1>7, DevStays DEF Lock

(* When the C64 lets ATN go, the sketch has the whole command, and data    *)
(* follow in the direction that it asks for.                               *)
LEMMA AtnReleaseWhere ==
    ASSUME Joint, AtnRelease
    PROVE  /\ cpc = "release" /\ C64Turn /\ cAtn' = HIGH /\ cClock' = (IF Turns \/ Ends THEN HIGH ELSE cClock)
           /\ cData' = (IF Turns THEN LOW ELSE cData) /\ cpc' = (IF Turns THEN "turn" ELSE "next")
           /\ op' = op + 1 /\ job' = job /\ UNCHANGED <<cbit, cpos, ceoi, cbyte, devVars>>
           /\ LET b == Operation.bytes IN
              /\ Operation.kind = "command" /\ Released /\ cClock = LOW /\ cData = HIGH /\ op <= Len(job)
              /\ \/ /\ Len(b) = 1 /\ cpos = 1 /\ cpc' = "next" /\ cData' = HIGH
                    /\ (op > Len(job))' \/ Now("command")'
                 \/ /\ Len(b) = 2 /\ cpos = 2 /\ Mode(b[1]) = LISTEN /\ Mode(b[2]) = OPEN /\ cpc' = "next" /\ cData' = HIGH /\ cClock' = LOW
                    /\ Now("out")' /\ Len(Operation'.bytes) < IobufSize
                 \/ /\ Len(b) = 2 /\ cpos = 2 /\ Mode(b[1]) = LISTEN /\ Mode(b[2]) = DATA /\ Address(b[2]) = 1 /\ cpc' = "next" /\ cData' = HIGH /\ cClock' = LOW
                    /\ Now("out")'
                 \/ /\ Len(b) = 2 /\ cpos = 2 /\ Mode(b[1]) = LISTEN /\ Mode(b[2]) = CLOSE /\ cpc' = "next" /\ cData' = HIGH /\ cClock' = LOW
                    /\ Now("command")'
                 \/ /\ Len(b) = 2 /\ cpos = 2 /\ Mode(b[1]) = TALK /\ Mode(b[2]) = DATA /\ cpc' = "turn" /\ cClock' = HIGH /\ cData' = LOW
                    /\ Now("in")'
<1>1. /\ cpc = "release" /\ C64Turn /\ cAtn' = HIGH /\ cClock' = (IF Turns \/ Ends THEN HIGH ELSE cClock)
      /\ cData' = (IF Turns THEN LOW ELSE cData) /\ cpc' = (IF Turns THEN "turn" ELSE "next")
      /\ op' = op + 1 /\ job' = job /\ UNCHANGED <<cbit, cpos, ceoi, cbyte, devVars>>
  BY C64RankIs, LineTypes DEF AtnRelease, On, Sees, C64Turn, AtOnce, Delay, Short, Ack, Long, Never
<1>2. LET b == Operation.bytes IN
      /\ Operation.kind = "command" /\ Released /\ cClock = LOW /\ cData = HIGH /\ op <= Len(job)
      /\ \/ /\ Len(b) = 1 /\ cpos = 1 /\ cpc' = "next" /\ cData' = HIGH
            /\ (op > Len(job))' \/ Now("command")'
         \/ /\ Len(b) = 2 /\ cpos = 2 /\ Mode(b[1]) = LISTEN /\ Mode(b[2]) = OPEN /\ cpc' = "next" /\ cData' = HIGH /\ cClock' = LOW
            /\ Now("out")' /\ Len(Operation'.bytes) < IobufSize
         \/ /\ Len(b) = 2 /\ cpos = 2 /\ Mode(b[1]) = LISTEN /\ Mode(b[2]) = DATA /\ Address(b[2]) = 1 /\ cpc' = "next" /\ cData' = HIGH /\ cClock' = LOW
            /\ Now("out")'
         \/ /\ Len(b) = 2 /\ cpos = 2 /\ Mode(b[1]) = LISTEN /\ Mode(b[2]) = CLOSE /\ cpc' = "next" /\ cData' = HIGH /\ cClock' = LOW
            /\ Now("command")'
         \/ /\ Len(b) = 2 /\ cpos = 2 /\ Mode(b[1]) = TALK /\ Mode(b[2]) = DATA /\ cpc' = "turn" /\ cClock' = HIGH /\ cData' = LOW
            /\ Now("in")'
  <2>1. /\ Operation.kind = "command" /\ Released /\ cClock = LOW /\ cData = HIGH /\ op <= Len(job)
        /\ cpos = Len(Operation.bytes)
    BY <1>1 DEF Joint, Quiet, Sent, DevInv, ByteInv, C64Inv, CbyteInv, OperationInv, C64Points,
       Giving, Taking, Lock, C64Lines, DevLines, DevFlags, Attending, Now, CommandPlace, OutPlace,
       InPlace, NextPlace, InStep, Final, Behind, Listens, Hearing, Heard, Second, Released, LOW,
       HIGH
  <2>2. QED
    BY <1>1, <2>1, CommandIs, FollowedBy, ModeAssumption DEF Turns, Ends
<1>3. QED
  BY <1>1, <1>2

(* ATN goes up, and what follows is what the sketch has understood.        *)
LEMMA AtnReleaseLock ==
    ASSUME Joint, AtnRelease
    PROVE  Lock'
<1>1. /\ cpc = "release" /\ C64Turn /\ cAtn' = HIGH /\ cClock' = (IF Turns \/ Ends THEN HIGH ELSE cClock)
      /\ cData' = (IF Turns THEN LOW ELSE cData) /\ cpc' = (IF Turns THEN "turn" ELSE "next")
      /\ op' = op + 1 /\ job' = job /\ UNCHANGED <<cbit, cpos, ceoi, cbyte, devVars>>
  BY AtnReleaseWhere
<1>2. LET b == Operation.bytes IN
      /\ Operation.kind = "command" /\ Released /\ cClock = LOW /\ cData = HIGH /\ op <= Len(job)
      /\ \/ /\ Len(b) = 1 /\ cpos = 1 /\ cpc' = "next" /\ cData' = HIGH
            /\ (op > Len(job))' \/ Now("command")'
         \/ /\ Len(b) = 2 /\ cpos = 2 /\ Mode(b[1]) = LISTEN /\ Mode(b[2]) = OPEN /\ cpc' = "next" /\ cData' = HIGH /\ cClock' = LOW
            /\ Now("out")' /\ Len(Operation'.bytes) < IobufSize
         \/ /\ Len(b) = 2 /\ cpos = 2 /\ Mode(b[1]) = LISTEN /\ Mode(b[2]) = DATA /\ Address(b[2]) = 1 /\ cpc' = "next" /\ cData' = HIGH /\ cClock' = LOW
            /\ Now("out")'
         \/ /\ Len(b) = 2 /\ cpos = 2 /\ Mode(b[1]) = LISTEN /\ Mode(b[2]) = CLOSE /\ cpc' = "next" /\ cData' = HIGH /\ cClock' = LOW
            /\ Now("command")'
         \/ /\ Len(b) = 2 /\ cpos = 2 /\ Mode(b[1]) = TALK /\ Mode(b[2]) = DATA /\ cpc' = "turn" /\ cClock' = HIGH /\ cData' = LOW
            /\ Now("in")'
  BY AtnReleaseWhere
<1>3. C64Lines'
  BY <1>1, <1>2, DevStays, FollowedBy, ModeAssumption DEF Joint, Lock, C64Lines, LOW, HIGH, Now
<1>0. cpc' \in {"turn", "next"}
  BY <1>1
<1>4. CommandPlace'
  BY <1>0 DEF CommandPlace
<1>5. OutPlace'
  BY <1>0 DEF OutPlace
<1>6. InPlace'
  BY <1>1, <1>2, DevStays, ModeAssumption DEF InPlace, Released
<1>7. NextPlace'
  <2> DEFINE b == Operation.bytes
  <2>1. CASE Len(b) = 1
    <3>1. Behind' /\ dpc' # "a_high"
      BY <1>1, <1>2, <2>1, CommandIs, DevStays DEF Released, Behind
    <3>2. ~Now("out")' /\ ~Now("in")'
      BY <1>1, <1>2, <2>1, JobTypes DEF Now, Joint, C64Inv, OperationInv
    <3>3. QED
      BY <1>1, <1>2, <2>1, <3>1, <3>2 DEF NextPlace
  <2>2. CASE Len(b) = 2 /\ Mode(b[1]) = LISTEN /\ Mode(b[2]) = OPEN
    <3>1. Listens'
      BY <1>1, <1>2, <2>2, DevStays, ModeAssumption DEF Released, Listens
    <3>2. QED
      BY <1>1, <1>2, <2>2, <3>1, FollowedBy, ModeAssumption DEF NextPlace, Now
  <2>3. CASE Len(b) = 2 /\ Mode(b[1]) = LISTEN /\ Mode(b[2]) = DATA
    <3>1. Listens'
      BY <1>1, <1>2, <2>3, DevStays, ModeAssumption DEF Released, Listens
    <3>2. QED
      BY <1>1, <1>2, <2>3, <3>1, FollowedBy, ModeAssumption DEF NextPlace, Now
  <2>4. CASE Len(b) = 2 /\ Mode(b[1]) = LISTEN /\ Mode(b[2]) = CLOSE
    <3>1. Behind' /\ cClock' = LOW
      BY <1>1, <1>2, <2>4, DevStays, ModeAssumption DEF Released, Behind
    <3>2. QED
      BY <1>1, <1>2, <2>4, <3>1, FollowedBy, ModeAssumption DEF NextPlace, Now
  <2>5. CASE Len(b) = 2 /\ Mode(b[1]) = TALK /\ Mode(b[2]) = DATA
    BY <1>1, <1>2, <2>5, ModeAssumption DEF NextPlace
  <2>6. QED
    BY <1>2, <2>1, <2>2, <2>3, <2>4, <2>5
<1>8. (cpc \in {"bit", "hold", "taken"} => InStep)'
  BY <1>1, <1>2, DevStays, FollowedBy, ModeAssumption DEF Joint, Lock, CommandPlace, OutPlace,
     InPlace, NextPlace, InStep, Final, Behind, Listens, Hearing, Heard, Second, Released, LOW,
     HIGH, Now
<1>9. (job = <<>> \/ KernalJob(job))'
  BY <1>1, <1>2, FollowedBy
<1>10. QED
  BY <1>1, <1>3, <1>4, <1>5, <1>6, <1>7, <1>8, <1>9, DevStays DEF Lock

(* After the last byte the sketch is back in loop(). *)
LEMMA TakeDoneLock ==
    ASSUME Joint, TakeDone
    PROVE  Lock'
<1>1. /\ cpc = "r_done" /\ C64Turn /\ cData' = HIGH /\ cClock' = HIGH /\ cpc' = "next" /\ op' = op + 1
      /\ job' = job /\ UNCHANGED <<cAtn, cbit, cpos, ceoi, cbyte, devVars>>
  BY C64RankIs, LineTypes DEF TakeDone, On, Sees, C64Turn, AtOnce, Delay, Short, Ack, Long, Never
<1>2. /\ dpc = "loop" /\ op <= Len(job) /\ Operation.kind = "in" /\ cAtn = HIGH
  BY <1>1, DevRankIs, C64RankIs, KindIs DEF Joint, Quiet, Sent, DevInv, ByteInv, C64Inv, CbyteInv,
     OperationInv, C64Points, Giving, Taking, Lock, C64Lines, DevLines, DevFlags, Attending, Now,
     CommandPlace, OutPlace, InPlace, NextPlace, InStep, Final, Behind, Listens, Hearing, Heard,
     Second, Released, LOW, HIGH, clock, data, C64Turn, AtOnce, Delay, Short, Ack, Long, Never
<1>3. C64Lines'
  BY <1>1, <1>2, DevStays, FollowedBy DEF Joint, Lock, C64Lines, LOW, HIGH, Now
<1>4. CommandPlace'
  BY <1>1, <1>2, DevStays, FollowedBy DEF Joint, Lock, CommandPlace, OutPlace, InPlace, NextPlace,
     InStep, Final, Behind, Listens, Hearing, Heard, Second, Released, LOW, HIGH, Now
<1>5. OutPlace'
  BY <1>1, <1>2, DevStays, FollowedBy DEF Joint, Lock, CommandPlace, OutPlace, InPlace, NextPlace,
     InStep, Final, Behind, Listens, Hearing, Heard, Second, Released, LOW, HIGH, Now
<1>6. InPlace'
  BY <1>1, <1>2, DevStays, FollowedBy DEF Joint, Lock, CommandPlace, OutPlace, InPlace, NextPlace,
     InStep, Final, Behind, Listens, Hearing, Heard, Second, Released, LOW, HIGH, Now
<1>7. NextPlace'
  BY <1>1, <1>2, DevStays, FollowedBy DEF Joint, Lock, CommandPlace, OutPlace, InPlace, NextPlace,
     InStep, Final, Behind, Listens, Hearing, Heard, Second, Released, LOW, HIGH, Now
<1>8. (cpc \in {"bit", "hold", "taken"} => InStep)'
  BY <1>1, <1>2, DevStays, FollowedBy DEF Joint, Lock, CommandPlace, OutPlace, InPlace, NextPlace,
     InStep, Final, Behind, Listens, Hearing, Heard, Second, Released, LOW, HIGH, Now
<1>9. (job = <<>> \/ KernalJob(job))'
  BY <1>1, <1>2, FollowedBy
<1>10. QED
  BY <1>1, <1>3, <1>4, <1>5, <1>6, <1>7, <1>8, <1>9, DevStays DEF Lock

(* A job begins with a command. *)
LEMMA StartJobLock ==
    ASSUME KernalJobs, Joint, StartJob
    PROVE  Lock'
<1>1. /\ cpc = "idle" /\ job' \in Jobs /\ op' = 1 /\ cpc' = "next"
      /\ UNCHANGED <<cAtn, cClock, cData, cbit, cpos, ceoi, cbyte, devVars>>
  BY C64RankIs, LineTypes DEF StartJob, On, Sees, C64Turn, AtOnce, Delay, Short, Ack, Long, Never,
     atnLines
<1>2. /\ Behind /\ dpc # "a_high" /\ cAtn = HIGH /\ cData = HIGH
      /\ (op > Len(job))' \/ Now("command")'
      /\ ~Now("in")' /\ ~Now("out")'
      /\ KernalJob(job')
  <2>1. Behind /\ dpc # "a_high" /\ cAtn = HIGH /\ cData = HIGH
    BY <1>1 DEF Joint, Quiet, Sent, DevInv, ByteInv, C64Inv, CbyteInv, OperationInv, C64Points,
       Giving, Taking, Lock, C64Lines, DevLines, DevFlags, Attending, Now, CommandPlace, OutPlace,
       InPlace, NextPlace, InStep, Final, Behind, Listens, Hearing, Heard, Second, Released, LOW,
       HIGH
  <2>2. KernalJob(job') /\ job' \in Seq(Operations)
    BY <1>1, JobsAssumption DEF KernalJobs, Operations, Byte
  <2>3. Len(job') \in Nat /\ (Len(job') >= 1 => job'[1].kind = "command")
    BY <2>2 DEF KernalJob
  <2>4. QED
    BY <1>1, <2>1, <2>2, <2>3 DEF Now, Operation
<1>3. C64Lines'
  BY <1>1, <1>2, DevStays DEF Joint, Lock, C64Lines, LOW, HIGH, Now
<1>4. CommandPlace'
  BY <1>1, <1>2, DevStays DEF Joint, Lock, CommandPlace, OutPlace, InPlace, NextPlace, InStep,
     Final, Behind, Listens, Hearing, Heard, Second, Released, LOW, HIGH, Now
<1>5. OutPlace'
  BY <1>1, <1>2, DevStays DEF Joint, Lock, CommandPlace, OutPlace, InPlace, NextPlace, InStep,
     Final, Behind, Listens, Hearing, Heard, Second, Released, LOW, HIGH, Now
<1>6. InPlace'
  BY <1>1, <1>2, DevStays DEF Joint, Lock, CommandPlace, OutPlace, InPlace, NextPlace, InStep,
     Final, Behind, Listens, Hearing, Heard, Second, Released, LOW, HIGH, Now
<1>7. NextPlace'
  BY <1>1, <1>2, DevStays DEF Joint, Lock, CommandPlace, OutPlace, InPlace, NextPlace, InStep,
     Final, Behind, Listens, Hearing, Heard, Second, Released, LOW, HIGH, Now
<1>8. (cpc \in {"bit", "hold", "taken"} => InStep)'
  BY <1>1, <1>2, DevStays DEF Joint, Lock, CommandPlace, OutPlace, InPlace, NextPlace, InStep,
     Final, Behind, Listens, Hearing, Heard, Second, Released, LOW, HIGH, Now
<1>9. (job = <<>> \/ KernalJob(job))'
  BY <1>1, <1>2
<1>10. QED
  BY <1>1, <1>3, <1>4, <1>5, <1>6, <1>7, <1>8, <1>9, DevStays DEF Lock

(* Together: what the sketch does, *)
LEMMA DevLock ==
    ASSUME Joint, Device
    PROVE  Lock' /\ result' = result
<1>1. result' = result
  BY Apart DEF c64Vars, c64State
<1>2. Lock'
  BY GetReadyLock, GetStartLock, GetEoiLock, GetClockLowLock, GetBitLock, GetBitEndLock,
     GetTimeoutNot, PutBeginLock, PutReadyLock, PutStartLock, PutBitLock, PutBitEndLock,
     PutEndLock, PutTimeoutNot, LoopLock, AtnClockLock, AtnDeviceLock, AtnSecondaryLock,
     AtnReleasedLock, OpenNextLock, OpenByteLock, RecvNextLock, RecvByteLock, TurnaroundLock,
     SendFileLock DEF Device
<1>3. QED
  BY <1>1, <1>2

(* and what the C64 does. *)
LEMMA C64Lock ==
    ASSUME KernalJobs, Joint, C64, result # "error"
    PROVE  Lock' /\ result' # "error"
<1>1. Lock'
  BY StartJobLock, NextOperationLock, EndJobLock, AtnClockLowLock, BeginByteLock, ByteReadyLock,
     GiveBitLock, GiveBitEndLock, ByteTakenLock, AtnReleaseLock, TurnDoneLock, TakeReadyLock,
     TakeEoiLock, TakeBitLock, TakeByteLock, TakeDoneLock, NoError DEF C64
<1>2. result' # "error"
  BY NoError DEF C64, StartJob, NextOperation, EndJob, AtnClockLow, BeginByte, ByteReady, GiveBit,
     GiveBitEnd, ByteTaken, AtnRelease, TurnDone, TakeReady, TakeEoi, TakeBit, TakeByte, TakeDone
<1>3. QED
  BY <1>1, <1>2

(* As the invariant of all behaviours *)
Undisturbed == faults = {} => Lock /\ result # "error"

(* Nothing has gone wrong, and the two are in step. *)
LEMMA UndisturbedInv ==
    ASSUME KernalJobs
    PROVE  Spec => [](DevInv /\ C64Inv /\ Undisturbed)
<1>1. Init => Lock /\ result # "error"
  BY DEF Init, Lock, DevLines, DevFlags, Attending, C64Lines, Now, CommandPlace, OutPlace, InPlace,
     NextPlace, Behind, LOW, HIGH
<1>2. DevInv /\ C64Inv /\ Undisturbed /\ [Next]_vars => Undisturbed'
  <2>1. SUFFICES ASSUME DevInv, C64Inv, Undisturbed, [Next]_vars, faults' = {}
                 PROVE  Lock' /\ result' # "error"
    BY DEF Undisturbed
  <2>2. faults = {} /\ faults' = faults
    BY <2>1 DEF Next, vars
  <2>3. Joint /\ result # "error"
    BY <2>1, <2>2 DEF Joint, Quiet, Undisturbed
  <2>4. CASE Device
    BY <2>3, <2>4, DevLock
  <2>5. CASE C64
    BY <2>3, <2>5, C64Lock
  <2>6. CASE Reset
    BY <2>2, <2>6 DEF Reset
  <2>7. CASE UNCHANGED vars
    <3>1. UNCHANGED devVars /\ UNCHANGED c64Vars /\ result' = result
      BY <2>7 DEF vars, c64Vars, c64State
    <3>2. DevLines' /\ DevFlags'
      BY <2>3, <3>1, DevStays
    <3>3. CommandPlace' /\ OutPlace' /\ InPlace' /\ NextPlace'
      <4>1. CommandPlace'
        BY <2>3, <3>1, DevStays, C64Stays DEF Joint, Lock, CommandPlace, Behind, Second, Released
      <4>2. OutPlace'
        BY <2>3, <3>1, DevStays, C64Stays DEF Joint, Lock, OutPlace, Listens, Hearing, Heard
      <4>3. InPlace'
        BY <2>3, <3>1, DevStays, C64Stays DEF Joint, Lock, InPlace
      <4>4. NextPlace'
        BY <2>3, <3>1, DevStays, C64Stays DEF Joint, Lock, NextPlace, Behind, Listens, Heard
      <4>5. QED
        BY <4>1, <4>2, <4>3, <4>4
    <3>4. (cpc \in {"bit", "hold", "taken"} => InStep)'
      BY <2>3, <3>1, DevStays, C64Stays DEF Joint, Lock, InStep, Hearing
    <3>5. QED
      BY <2>3, <3>1, <3>2, <3>3, <3>4, C64Stays DEF Lock
  <2>8. QED
    BY <2>1, <2>4, <2>5, <2>6, <2>7 DEF Next, Rest
<1>3. QED
  BY <1>1, <1>2, TypesInv, PTL DEF Spec, Undisturbed

(* A LOAD or SAVE of the KERNAL never ends with an error as long as loop() *)
(* polls in time, there is a file and the C64 is not reset: every byte     *)
(* that it gives is taken while it gives it, no wait of get_byte or        *)
(* put_byte is in vain, and the sketch and the C64 always agree on who     *)
(* talks. For bytes of any number of bits, names and files of any length   *)
(* and any number of jobs.                                                 *)
THEOREM NeverFailsCorrect ==
    ASSUME KernalJobs
    PROVE  Spec => []NeverFails
<1>1. Undisturbed => NeverFails
  BY DEF Undisturbed, NeverFails
<1>2. QED
  BY <1>1, UndisturbedInv, PTL

(* Without such faults put_byte drives CLOCK high only while the C64 has   *)
(* let it go.                                                              *)
THEOREM ClockCorrect ==
    ASSUME KernalJobs
    PROVE  Spec => []ClockNotFought
<1>1. DevInv /\ C64Inv /\ Undisturbed => ClockNotFought
  <2>1. SUFFICES ASSUME DevInv, C64Inv, Undisturbed, faults = {}, dClock = "high"
                 PROVE  cClock = HIGH
    BY DEF ClockNotFought
  <2>2. Joint
    BY <2>1 DEF Joint, Quiet, Undisturbed
  <2>3. dpc \in {"p_inf", "p_high", "p_low", "p_hold"}
    BY <2>1, <2>2 DEF Joint, Lock, DevLines
  <2>4. QED
    BY <2>2, <2>3, KindIs DEF Joint, C64Inv, OperationInv, C64Points, Giving, Taking, Lock,
       C64Lines, Now, CommandPlace, OutPlace, InPlace, NextPlace, InStep, Final, Behind, Listens,
       Hearing, Heard, Second, Released, LOW, HIGH
<1>2. QED
  BY <1>1, UndisturbedInv, PTL

-----------------------------------------------------------------------------
(***************************************************************************)
(* The bytes of a job                                                      *)
(*                                                                         *)
(* History says where the bytes are that the C64 has given or taken so     *)
(* far. It refers to Lock for the bits of the byte under way.              *)
(***************************************************************************)
(* Who asks for the bytes of an operation, where they are kept, *)
Who(i) == IF IsName(i) THEN "open" ELSE "recv"
Part(i) == IF IsName(i) THEN iobuf ELSE stored

(* and when they are asked for *)
Receives(i) ==
    \/ dpc = IF IsName(i) THEN "o_next" ELSE "r_next"
    \/ dpc \in Attending /\ caller = Who(i)

(* The sketch and the C64 mean the same operation. *)
Channel ==
    op \in Data =>
      /\ dpc \in {"o_atn", "o_next"} \/ (dpc \in Attending /\ caller = "open") => IsName(op)
      /\ dpc \in {"l_atn", "r_next"} \/ (dpc \in Attending /\ caller = "recv") => ~IsName(op)
      /\ dpc = "got" /\ caller = "sec" => (Mode(byte) = OPEN <=> IsName(op))

(* What has been given is kept, or is in byte. *)
SoFar ==
    op \in Data /\ Receives(op) =>
      /\ Len(Part(op)) = Heard
      /\ \A n \in 1 .. Heard : Part(op)[n] = Operation.bytes[n]
      /\ cpc = "next" => dpc # "got"
      /\ dpc = "got" /\ cpc # "taken" => byte = Operation.bytes[cpos - 1]

(* The last byte has been given, but is still in byte. *)
Pending(i) ==
    /\ eoi = 1
    /\ op = i + 1 /\ cpc \in {"next", "atn", "present", "ready"}
    /\ job[i].bytes = Append(Part(i), byte)

(* What has been given in full is kept, or about to be. *)
Complete ==
    \A i \in Data : i < op =>
      IF dpc = "got" /\ caller = Who(i) THEN Pending(i) ELSE job[i].bytes = Part(i)

(* What has been taken is what put_byte has put. *)
Taken ==
    /\ Len(loaded) <= Len(File) /\ \A n \in 1 .. Len(loaded) : loaded[n] = File[n]
    /\ \A i \in DOMAIN job : job[i].kind = "in" =>
         /\ i < op => loaded = File
         /\ i > op \/ (i = op /\ cpc \in {"next", "turn"}) => loaded = <<>>
         /\ i = op => IF cpc = "r_done" THEN loaded = File
                      ELSE /\ dpc \in {"turn", "send"} \cup Putting =>
                                Len(loaded) = IF cpc = "r_clock" /\ dpc \in {"p_end", "p_ack", "sent"}
                                              THEN pos + 1 ELSE pos
                           /\ dpc \in Putting \ {"put", "sent", "p_ack"} => byte = File[pos + 1]

Finished ==
    /\ cpc \in {"idle", "off"} => op > Len(job)
    /\ result = "ok" => cpc \in {"idle", "off"}

History ==
    /\ Channel /\ SoFar /\ Complete /\ Taken /\ Finished
    /\ job = <<>> \/ OneFile(job)

(* What a job is made of, *)
LEMMA JobIs ==
    ASSUME Joint
    PROVE  /\ Len(job) \in Nat /\ DOMAIN job = 1 .. Len(job) /\ op \in 1 .. Len(job) + 1
           /\ op <= Len(job) => op \in DOMAIN job
           /\ \A i \in DOMAIN job :
                /\ i \in Nat \ {0} /\ job[i].kind \in {"command", "out", "in"}
                /\ job[i].kind # "in" => job[i].bytes \in Seq(Byte) /\ Len(job[i].bytes) \in Nat \ {0}
           /\ job # <<>> => KernalJob(job)
           /\ job = <<>> => DOMAIN job = {}
<1>1. <<>> \in Seq(Operations) /\ Len(<<>>) = 0
  OBVIOUS
<1>2. job \in Seq(Operations) /\ op \in 1 .. Len(job) + 1
  BY <1>1, JobsAssumption DEF Joint, C64Inv, OperationInv, Operations, Byte
<1>3. \A i \in DOMAIN job : job[i] \in Operations
  BY <1>2
<1>4. \A o \in Operations :
        /\ o.kind \in {"command", "out", "in"}
        /\ o.kind # "in" => o.bytes \in Seq(Byte) /\ Len(o.bytes) \in Nat \ {0}
  <2>1. \A s \in Seq(Byte) \ {<<>>} : Len(s) \in Nat \ {0}
    OBVIOUS
  <2>2. QED
    BY <2>1 DEF Operations
<1>5. QED
  BY <1>1, <1>2, <1>3, <1>4 DEF Joint, Lock

(* what comes before its data, *)
LEMMA BeforeData ==
    ASSUME Joint, NEW i \in Data
    PROVE  /\ i \in DOMAIN job /\ i - 1 \in DOMAIN job
           /\ job[i - 1].kind = "command" /\ Mode(job[i - 1].bytes[2]) \in {OPEN, DATA}
<1>1. i \in DOMAIN job /\ job[i].kind = "out" /\ KernalJob(job) /\ i \in Nat \ {0}
  BY JobIs DEF Data
<1>2. i # 1 /\ i - 1 \in DOMAIN job
  BY <1>1, JobIs DEF KernalJob
<1>3. i - 1 < Len(job) /\ (i - 1) + 1 = i
  BY <1>1, <1>2, JobIs
<1>4. job[i - 1].kind = "command"
  BY <1>1, <1>2, <1>3 DEF KernalJob
<1>5. QED
  BY <1>1, <1>2, <1>3, <1>4, ModeAssumption DEF KernalJob

(* and after them. *)
LEMMA AfterData ==
    ASSUME Joint, NEW i \in DOMAIN job, job[i].kind # "command"
    PROVE  i < Len(job) /\ i + 1 \in DOMAIN job /\ job[i + 1].kind = "command"
<1>1. KernalJob(job) /\ i \in Nat
  BY JobIs
<1>2. i < Len(job) /\ job[i + 1].kind = "command"
  BY <1>1 DEF KernalJob
<1>3. QED
  BY <1>1, <1>2, JobIs

(* One name, one file *)
LEMMA Single ==
    ASSUME Joint, History, NEW i \in Data, NEW k \in Data, IsName(i) <=> IsName(k)
    PROVE  i = k
<1>1. Mode(job[i - 1].bytes[2]) = Mode(job[k - 1].bytes[2])
  BY BeforeData DEF IsName
<1>2. OneFile(job) /\ i \in DOMAIN job /\ k \in DOMAIN job /\ job[i].kind = "out" /\ job[k].kind = "out"
  BY JobIs DEF History, Data
<1>3. QED
  BY <1>1, <1>2 DEF OneFile

(* The sketch begins to take data of the operation that the C64 is at, or  *)
(* that follows its command.                                               *)
LEMMA Elsewhere ==
    ASSUME Joint, History, NEW i \in Data, i < op
    PROVE  /\ IsName(i) => dpc # "o_atn"
           /\ ~IsName(i) => dpc # "l_atn"
           /\ dpc = "g_fall" /\ cpc = "taken" => caller # Who(i)
<1>1. op \in Data \/ op \notin Data
  OBVIOUS
<1>2. CASE op \in Data
  <2>1. ~(IsName(i) <=> IsName(op))
    BY <1>2, Single, JobIs DEF Data
  <2>2. QED
    BY <1>2, <2>1 DEF History, Channel, Attending, Who
<1>3. CASE op \notin Data
  <2>1. cpc \notin {"idle", "off"} \/ dpc \notin {"o_atn", "l_atn"}
    BY DEF Joint, Lock, NextPlace, Behind
  <2>2. ASSUME dpc \in {"o_atn", "l_atn"}
        PROVE  /\ op <= Len(job) /\ Operation.kind = "command" /\ Released
                  /\ cpos # 1 /\ cpos = Len(Operation.bytes)
    <3>1. ~Now("out")
      BY <1>3, JobIs DEF Now, Data, Operation
    <3>2. cpc \in Giving
      <4>1. cpc \notin {"idle", "off", "turn"} \cup Taking
        BY <2>2 DEF Taking, Joint, Lock, NextPlace, InPlace, Behind
      <4>2. op > Len(job) \/ Now("command") \/ Now("in")
        BY <3>1, KindIs, JobIs DEF Now
      <4>3. cpc # "next"
        BY <2>2, <4>2 DEF Joint, Lock, NextPlace, Behind
      <4>4. QED
        BY <4>1, <4>3 DEF Joint, C64Inv, C64Points
    <3>3. op <= Len(job) /\ Operation.kind = "command"
      BY <3>1, <3>2 DEF Joint, C64Inv, OperationInv, Now
    <3>4. cpc \notin {"bit", "hold", "taken"}
      BY <2>2 DEF Joint, Lock, InStep
    <3>5. cpc = "release"
      BY <2>2, <3>2, <3>3, <3>4 DEF Giving, Joint, Lock, CommandPlace, OutPlace, Second, Behind
    <3>6. cpos = Len(Operation.bytes) /\ Released
      BY <3>5 DEF Joint, Lock, CommandPlace
    <3>7. QED
      BY <2>2, <3>3, <3>6 DEF Released
  <2>3. ASSUME dpc \in {"o_atn", "l_atn"}
        PROVE  op + 1 \in Data /\ (IsName(op + 1) <=> dpc = "o_atn")
    <3>1. op \in DOMAIN job /\ job[op].kind = "command" /\ KernalJob(job)
      BY <2>2, <2>3, JobIs DEF Operation
    <3>2. LET b == job[op].bytes IN
          \/ dpc = "o_atn" /\ Mode(b[2]) = OPEN
          \/ dpc = "l_atn" /\ Mode(b[2]) = DATA /\ Mode(b[1]) = LISTEN
      BY <2>2, <2>3 DEF Released, Operation
    <3>3. op < Len(job) /\ job[op + 1].kind = "out"
      <4>1. LET b == job[op].bytes IN
            /\ Len(b) # 1
            /\ \/ Len(b) = 1
               \/ /\ Mode(b[1]) = LISTEN
                  /\ \/ Mode(b[2]) \in {OPEN, DATA} /\ op < Len(job) /\ job[op + 1].kind = "out"
                     \/ Mode(b[2]) = CLOSE
               \/ Mode(b[1]) = TALK /\ Mode(b[2]) = DATA
        BY <2>2, <2>3, <3>1 DEF KernalJob, Operation, Joint, Lock, CommandPlace, C64Inv,
           OperationInv, Released
      <4>2. QED
        BY <3>2, <4>1, ModeAssumption
    <3>4. (op + 1) - 1 = op /\ op + 1 \in DOMAIN job
      BY <3>1, <3>3, JobIs
    <3>5. QED
      BY <3>2, <3>3, <3>4, ModeAssumption DEF Data, IsName
  <2>4. ASSUME dpc \in {"o_atn", "l_atn"}
        PROVE  ~(IsName(i) <=> dpc = "o_atn")
    BY <2>3, <2>4, Single, JobIs DEF Data
  <2>5. dpc = "g_fall" /\ cpc = "taken" => caller \in {"device", "sec"}
    BY <1>3, KindIs, JobIs DEF Data, Operation, Joint, C64Inv, OperationInv, Giving, Lock, InStep
  <2>6. QED
    BY <2>4, <2>5 DEF Who
<1>4. QED
  BY <1>1, <1>2, <1>3

(* The operations and their data are the same for both. *)
LEMMA SameJob ==
    ASSUME job' = job, op' = op
    PROVE  /\ Data' = Data /\ Operation' = Operation
           /\ \A i : (IsName(i)' <=> IsName(i)) /\ Who(i)' = Who(i)
BY DEF Data, Operation, IsName, Who

(* A byte of the data is put at the end of what has come so far, *)
LEMMA PartType ==
    ASSUME Joint, NEW i
    PROVE  /\ iobuf \in Seq(Byte) /\ stored \in Seq(Byte) /\ byte \in Byte
           /\ Part(i) \in Seq(Byte) /\ Len(Part(i)) \in Nat
BY DEF Joint, DevInv, BufferInv, ByteInv, Part

(* The steps of the sketch: which data it takes, *)
LEMMA DevChannel ==
    ASSUME Joint, History, Device
    PROVE  Channel'
<1>1. UNCHANGED c64Vars /\ job' = job /\ op' = op /\ cpc' = cpc /\ cpos' = cpos
  BY Apart DEF c64Vars, c64State
<1>2. Data' = Data /\ (IsName(op)' <=> IsName(op))
  BY <1>1, SameJob
<1>3. SUFFICES ASSUME op \in Data
               PROVE  /\ dpc' \in {"o_atn", "o_next"} \/ (dpc' \in Attending /\ caller' = "open") => IsName(op)
                      /\ dpc' \in {"l_atn", "r_next"} \/ (dpc' \in Attending /\ caller' = "recv") => ~IsName(op)
                      /\ dpc' = "got" /\ caller' = "sec" => (Mode(byte') = OPEN <=> IsName(op))
  BY <1>1, <1>2 DEF Channel, Mode
<1>4. /\ dpc \in {"o_atn", "o_next"} \/ (dpc \in Attending /\ caller = "open") => IsName(op)
      /\ dpc \in {"l_atn", "r_next"} \/ (dpc \in Attending /\ caller = "recv") => ~IsName(op)
      /\ dpc = "got" /\ caller = "sec" => (Mode(byte) = OPEN <=> IsName(op))
  BY <1>3 DEF History, Channel
<1>5. CASE GetReady \/ GetStart \/ GetEoi \/ GetClockLow \/ GetBit
  BY <1>4, <1>5 DEF GetReady, GetStart, GetEoi, GetClockLow, GetBit, Passes, TimesOut, At,
     Attending, locals
<1>6. CASE GetBitEnd
  <2>1. dpc = "g_fall" /\ UNCHANGED <<caller, byte>> /\ (dpc' = "g_high" \/ (dpc' = "got" /\ cpc = "taken"))
    BY <1>6, GetBitEndWhere
  <2>2. cpc = "taken" => caller # "sec"
    BY <1>3, <1>6, GetBitEndWhere DEF InStep, Hearing, Data, Operation
  <2>3. QED
    BY <1>4, <2>1, <2>2 DEF Attending
<1>7. CASE GetTimeout \/ PutTimeout
  BY <1>7, GetTimeoutNot, PutTimeoutNot
<1>8. CASE PutBegin \/ PutReady \/ PutStart \/ PutBit \/ PutBitEnd \/ PutEnd \/ Turnaround \/ SendFile
  BY <1>4, <1>8 DEF PutBegin, PutReady, PutStart, PutBit, PutBitEnd, PutEnd, PutReturn, Turnaround,
     SendFile, SendDone, Passes, At, Attending
<1>9. CASE Loop \/ AtnClock \/ AtnDevice \/ AtnSecondary \/ AtnReleased
  <2>1. LISTEN # TALK /\ OPEN # DATA
    BY ModeAssumption
  <2>2. QED
    BY <1>4, <1>9, <2>1 DEF Loop, AtnClock, AtnDevice, AtnSecondary, AtnReleased, Returned,
       CallGetByte, At, Attending, locals
<1>10. CASE OpenNext \/ OpenByte \/ RecvNext \/ RecvByte
  BY <1>4, <1>10 DEF OpenNext, OpenByte, RecvNext, RecvByte, Returned, CallGetByte, At, Attending,
     locals
<1>11. QED
  BY <1>5, <1>6, <1>7, <1>8, <1>9, <1>10 DEF Device

(* what it has taken of it, *)
LEMMA DevSoFar ==
    ASSUME Joint, History, Device
    PROVE  SoFar'
<1>1. UNCHANGED c64Vars /\ job' = job /\ op' = op /\ cpc' = cpc /\ cpos' = cpos
  BY Apart DEF c64Vars, c64State
<1>2. Data' = Data /\ (IsName(op)' <=> IsName(op)) /\ Operation' = Operation /\ Who(op)' = Who(op)
  BY <1>1, SameJob
<1>3. SUFFICES ASSUME op \in Data, Receives(op)'
               PROVE  /\ Len(Part(op)') = Heard'
                      /\ \A n \in 1 .. Heard' : Part(op)'[n] = Operation.bytes[n]
                      /\ cpc = "next" => dpc' # "got"
                      /\ dpc' = "got" /\ cpc # "taken" => byte' = Operation.bytes[cpos - 1]
  BY <1>1, <1>2 DEF SoFar
<1>4. /\ \/ dpc' = IF IsName(op) THEN "o_next" ELSE "r_next"
         \/ dpc' \in Attending /\ caller' = Who(op)
      /\ Part(op)' = IF IsName(op) THEN iobuf' ELSE stored'
      /\ Heard' = IF cpc = "next" THEN 0 ELSE IF dpc' = "got" /\ cpc # "taken" THEN cpos - 2 ELSE cpos - 1
  BY <1>1, <1>2, <1>3 DEF Receives, Part, Heard
<1>5. Receives(op) =>
        /\ Len(Part(op)) = Heard
        /\ \A n \in 1 .. Heard : Part(op)[n] = Operation.bytes[n]
        /\ cpc = "next" => dpc # "got"
        /\ dpc = "got" /\ cpc # "taken" => byte = Operation.bytes[cpos - 1]
  BY <1>3 DEF History, SoFar
<1>6. CASE GetReady \/ GetStart \/ GetEoi \/ GetClockLow \/ GetBit
  <2>1. /\ dpc # "got" /\ dpc' # "got" /\ dpc \in Attending /\ dpc' \in Attending
        /\ UNCHANGED <<caller, iobuf, stored>>
    BY <1>6 DEF GetReady, GetStart, GetEoi, GetClockLow, GetBit, Passes, TimesOut, At, Attending,
       locals, globals
  <2>2. dpc' # "o_next" /\ dpc' # "r_next"
    BY <2>1 DEF Attending
  <2>3. Receives(op) /\ Heard' = Heard /\ Part(op)' = Part(op)
    BY <1>3, <1>4, <2>1, <2>2 DEF Receives, Heard, Part
  <2>4. QED
    BY <1>5, <2>1, <2>3
<1>7. CASE GetBitEnd
  <2>1. /\ dpc = "g_fall" /\ dpc' \in {"g_high", "got"} /\ (dpc' = "got" => cpc = "taken")
        /\ UNCHANGED <<caller, iobuf, stored>>
    BY <1>7, GetBitEndWhere DEF globals
  <2>2. Receives(op) /\ Heard' = Heard /\ Part(op)' = Part(op)
    BY <1>3, <1>4, <2>1 DEF Receives, Heard, Part, Attending
  <2>3. QED
    BY <1>5, <2>1, <2>2
<1>8. CASE GetTimeout \/ PutTimeout
  BY <1>8, GetTimeoutNot, PutTimeoutNot
<1>9. CASE PutBegin \/ PutReady \/ PutStart \/ PutBit \/ PutBitEnd \/ PutEnd \/ Turnaround \/ SendFile
  BY <1>3, <1>4, <1>9 DEF PutBegin, PutReady, PutStart, PutBit, PutBitEnd, PutEnd, PutReturn,
     Turnaround, SendFile, SendDone, Passes, At, Attending
<1>10. CASE Loop \/ AtnClock \/ AtnDevice \/ AtnSecondary
  BY <1>3, <1>4, <1>10 DEF Loop, AtnClock, AtnDevice, AtnSecondary, Returned, CallGetByte, At,
     Attending, locals, Who
<1>11. CASE AtnReleased
  <2>1. /\ IsName(op) => dpc = "o_atn" /\ iobuf' = <<>> /\ dpc' = "o_next"
        /\ ~IsName(op) => dpc = "l_atn" /\ stored' = <<>> /\ dpc' = "r_next"
    BY <1>3, <1>4, <1>11 DEF AtnReleased, At, Attending
  <2>2. cpc # "next" => cpos = 1
    BY <1>3, <2>1, KindIs, JobIs DEF Data, Operation, Joint, DevInv, C64Inv, OperationInv,
       C64Points, Giving, Taking, Lock, Now, CommandPlace, OutPlace, InPlace, NextPlace, InStep,
       Behind, Listens, Hearing
  <2>3. Heard' = 0 /\ Part(op)' = <<>> /\ dpc' # "got"
    BY <1>4, <2>1, <2>2
  <2>4. QED
    BY <2>3
<1>12. CASE OpenNext \/ RecvNext
  <2>1. /\ dpc \in {"o_next", "r_next"} /\ UNCHANGED <<iobuf, stored>>
        /\ \/ dpc' = "loop"
           \/ dpc' = "g_clock" /\ caller' = IF dpc = "o_next" THEN "open" ELSE "recv"
    BY <1>12 DEF OpenNext, RecvNext, CallGetByte, At, globals
  <2>2. Receives(op) /\ Heard' = Heard /\ Part(op)' = Part(op) /\ dpc' = "g_clock"
    BY <1>3, <1>4, <2>1 DEF Receives, Heard, Part, Attending, Who
  <2>3. QED
    BY <1>5, <2>2
<1>13. CASE OpenByte \/ RecvByte
  <2>1. /\ dpc = "got" /\ DevTurn /\ caller = IF dpc' = "o_next" THEN "open" ELSE "recv"
        /\ dpc' = IF IsName(op) THEN "o_next" ELSE "r_next"
        /\ OpenByte \/ RecvByte
    BY <1>3, <1>4, <1>13 DEF OpenByte, RecvByte, Returned, At, Attending
  <2>2. cpc # "taken"
    BY <2>1, DevRankIs, C64RankIs DEF Joint, Lock, DevLines, data, DevTurn, AtOnce, Delay, LOW
  <2>3. Receives(op) /\ cpc # "next" /\ byte = Operation.bytes[cpos - 1] /\ Heard = cpos - 2
    BY <1>5, <2>1, <2>2 DEF Receives, Who, Heard, Attending
  <2>4. Len(Part(op)) = cpos - 2 /\ \A n \in 1 .. cpos - 2 : Part(op)[n] = Operation.bytes[n]
    BY <1>5, <2>3
  <2>5. cpc \in Giving /\ cpos \in 1 .. Len(Operation.bytes) /\ Len(Operation.bytes) \in Nat
    <3>1. op <= Len(job) /\ Operation.kind = "out" /\ Len(Operation.bytes) \in Nat
      BY <1>3, JobIs DEF Data, Operation
    <3>2. cpc \notin {"idle", "off", "turn"} \cup Taking
      BY <1>3, <2>1, <3>1, JobIs DEF History, Finished, Joint, Lock, InPlace, Now, Taking, Data
    <3>3. QED
      BY <2>3, <3>1, <3>2 DEF Joint, C64Inv, OperationInv, C64Points
  <2>6. Part(op)' = Append(Part(op), byte)
    <3>1. CASE IsName(op)
      BY <1>4, <2>1, <3>1 DEF Part, OpenByte, RecvByte, Returned, At
    <3>2. CASE ~IsName(op)
      <4>1. Len(Operation.bytes) <= MaxStored
        BY <1>3, JobIs DEF Data, Operation, History, OneFile
      <4>2. MaxStored \in Nat /\ Len(stored) < MaxStored
        BY <2>4, <2>5, <3>2, <4>1, BufferAssumption DEF Part
      <4>3. QED
        BY <1>4, <2>1, <3>2, <4>2 DEF Part, OpenByte, RecvByte, Returned, At
    <3>3. QED
      BY <3>1, <3>2
  <2>7. Heard' = cpos - 1 /\ dpc' # "got"
    BY <1>4, <2>1, <2>3
  <2>8. /\ Len(Append(Part(op), byte)) = cpos - 1
        /\ \A n \in 1 .. cpos - 1 : Append(Part(op), byte)[n] = Operation.bytes[n]
    BY <2>3, <2>4, <2>5, PartType
  <2>9. QED
    BY <2>6, <2>7, <2>8
<1>14. QED
  BY <1>6, <1>7, <1>8, <1>9, <1>10, <1>11, <1>12, <1>13 DEF Device

(* what it has kept, *)
LEMMA DevComplete ==
    ASSUME Joint, History, Device
    PROVE  Complete'
<1>1. UNCHANGED c64Vars /\ job' = job /\ op' = op /\ cpc' = cpc
  BY Apart DEF c64Vars, c64State
<1>2. SUFFICES ASSUME NEW i \in Data, i < op
               PROVE  IF dpc' = "got" /\ caller' = Who(i) THEN Pending(i)' ELSE job[i].bytes = Part(i)'
  BY <1>1, SameJob DEF Complete
<1>3. /\ (IsName(i)' <=> IsName(i)) /\ i \in DOMAIN job
      /\ Part(i)' = IF IsName(i) THEN iobuf' ELSE stored'
  BY <1>1, SameJob DEF Part, Data
<1>4. CASE dpc = "got" /\ caller = Who(i)
  <2>1. eoi = 1 /\ job[i].bytes = Append(Part(i), byte)
    BY <1>2, <1>4 DEF History, Complete, Pending
  <2>2. IF IsName(i) THEN OpenByte ELSE RecvByte
    BY <1>4, GetTimeoutNot, PutTimeoutNot DEF Who, Device, GetReady, GetStart, GetEoi, GetClockLow,
       GetBit, GetBitEnd, PutBegin, PutReady, PutStart, PutBit, PutBitEnd, PutEnd, Loop, AtnClock,
       AtnDevice, AtnSecondary, AtnReleased, OpenNext, OpenByte, RecvNext, RecvByte, Turnaround,
       SendFile, Returned, Passes, TimesOut, At
  <2>3. dpc' = "loop"
    BY <2>1, <2>2 DEF OpenByte, RecvByte
  <2>4. ~IsName(i) => Len(stored) < MaxStored
    <3>1. Len(job[i].bytes) <= MaxStored
      BY <1>3, JobIs DEF Data, History, OneFile
    <3>2. Len(Append(Part(i), byte)) = Len(Part(i)) + 1
      BY PartType
    <3>3. QED
      BY <2>1, <3>1, <3>2, PartType, BufferAssumption DEF Part
  <2>5. Part(i)' = Append(Part(i), byte)
    BY <1>3, <2>2, <2>4 DEF Part, OpenByte, RecvByte
  <2>6. QED
    BY <2>1, <2>3, <2>5
<1>5. CASE ~(dpc = "got" /\ caller = Who(i))
  <2>1. job[i].bytes = Part(i)
    BY <1>2, <1>5 DEF History, Complete
  <2>2. /\ IsName(i) => dpc # "o_atn"
        /\ ~IsName(i) => dpc # "l_atn"
        /\ dpc = "g_fall" /\ cpc = "taken" => caller # Who(i)
    BY <1>2, Elsewhere
  <2>3. Part(i)' = Part(i)
    <3>1. CASE IsName(i)
      <4>1. dpc # "o_atn" /\ ~(dpc = "got" /\ caller = "open")
        BY <1>5, <2>2, <3>1 DEF Who
      <4>2. iobuf' = iobuf
        BY <4>1 DEF Device, GetReady, GetStart, GetEoi, GetClockLow, GetBit, GetBitEnd, GetTimeout,
           globals, PutBegin, PutReady, PutStart, PutBit, PutBitEnd, PutEnd, PutTimeout, PutReturn,
           Loop, AtnClock, AtnDevice, AtnSecondary, AtnReleased, OpenNext, OpenByte, RecvNext,
           RecvByte, Turnaround, SendFile, Returned, At
      <4>3. QED
        BY <1>3, <3>1, <4>2 DEF Part
    <3>2. CASE ~IsName(i)
      <4>1. dpc # "l_atn" /\ ~(dpc = "got" /\ caller = "recv")
        BY <1>5, <2>2, <3>2 DEF Who
      <4>2. stored' = stored
        BY <4>1 DEF Device, GetReady, GetStart, GetEoi, GetClockLow, GetBit, GetBitEnd, GetTimeout,
           globals, PutBegin, PutReady, PutStart, PutBit, PutBitEnd, PutEnd, PutTimeout, PutReturn,
           Loop, AtnClock, AtnDevice, AtnSecondary, AtnReleased, OpenNext, OpenByte, RecvNext,
           RecvByte, Turnaround, SendFile, Returned, At
      <4>3. QED
        BY <1>3, <3>2, <4>2 DEF Part
    <3>3. QED
      BY <3>1, <3>2
  <2>4. ~(dpc' = "got" /\ caller' = Who(i))
    <3>1. CASE GetBitEnd
      BY <2>2, <3>1, GetBitEndWhere
    <3>2. CASE ~GetBitEnd
      BY <3>2, GetTimeoutNot, PutTimeoutNot DEF Device, GetReady, GetStart, GetEoi, GetClockLow,
         GetBit, PutBegin, PutReady, PutStart, PutBit, PutBitEnd, PutEnd, PutReturn, Loop,
         AtnClock, AtnDevice, AtnSecondary, AtnReleased, OpenNext, OpenByte, RecvNext, RecvByte,
         Turnaround, SendFile, SendDone, CallGetByte, Returned, Passes, TimesOut, At, Who
    <3>3. QED
      BY <3>1, <3>2
  <2>5. QED
    BY <2>1, <2>3, <2>4
<1>6. QED
  BY <1>4, <1>5

(* and what it gives. *)
LEMMA DevTaken ==
    ASSUME Joint, Lock', History, Device
    PROVE  Taken'
<1>1. UNCHANGED c64Vars /\ job' = job /\ op' = op /\ cpc' = cpc /\ loaded' = loaded
  BY Apart DEF c64Vars, c64State
<1>2. Operation' = Operation
  BY <1>1, SameJob
<1>3. SUFFICES ASSUME op \in DOMAIN job, Operation.kind = "in", cpc # "r_done"
               PROVE  /\ dpc' \in {"turn", "send"} \cup Putting =>
                           Len(loaded) = IF cpc = "r_clock" /\ dpc' \in {"p_end", "p_ack", "sent"} THEN pos' + 1 ELSE pos'
                      /\ dpc' \in Putting \ {"put", "sent", "p_ack"} => byte' = File[pos' + 1]
  BY <1>1 DEF History, Taken, Operation
<1>4. /\ dpc \in {"turn", "send"} \cup Putting =>
           Len(loaded) = IF cpc = "r_clock" /\ dpc \in {"p_end", "p_ack", "sent"} THEN pos + 1 ELSE pos
      /\ dpc \in Putting \ {"put", "sent", "p_ack"} => byte = File[pos + 1]
      /\ cpc \in {"next", "turn"} => loaded = <<>>
  BY <1>3 DEF History, Taken, Operation
<1>5. cpc \in {"next", "turn"} \cup Taking
  BY <1>3, JobIs DEF History, Finished, Joint, C64Inv, OperationInv, C64Points, Giving
<1>6. CASE GetReady \/ GetStart \/ GetEoi \/ GetClockLow \/ GetBit \/ GetBitEnd \/ GetTimeout \/ Loop \/ AtnClock
           \/ AtnDevice \/ AtnSecondary \/ OpenNext \/ OpenByte \/ RecvNext \/ RecvByte
  BY <1>6 DEF GetReady, GetStart, GetEoi, GetClockLow, GetBit, GetBitEnd, GetTimeout, Loop,
     AtnClock, AtnDevice, AtnSecondary, OpenNext, OpenByte, RecvNext, RecvByte, CallGetByte,
     Putting
<1>7. CASE PutTimeout
  BY <1>7, PutTimeoutNot
<1>8. CASE AtnReleased
  <2>1. SUFFICES ASSUME dpc = "t_atn", dpc' = "turn", pos' = 0
                 PROVE  Len(loaded) = 0
    BY <1>8 DEF AtnReleased, At, Putting
  <2>2. cpc = "turn"
    BY <1>3, <1>5, <2>1, JobIs DEF Joint, Lock, InPlace, NextPlace, Now, Taking, Behind
  <2>3. QED
    BY <1>4, <2>2
<1>9. CASE Turnaround
  BY <1>4, <1>9 DEF Turnaround, At, globals, Putting
<1>10. CASE SendFile
  <2>1. \/ dpc' = "loop"
        \/ dpc = "send" /\ dpc' = "put" /\ pos' = pos
        \/ dpc = "sent" /\ dpc' = "put" /\ pos' = pos + 1
    BY <1>10 DEF SendFile, SendDone, At
  <2>2. dpc = "sent" => cpc = "r_clock"
    BY <1>3, <1>5, JobIs DEF Joint, Lock, InPlace, NextPlace, Now, Taking
  <2>3. QED
    BY <1>4, <2>1, <2>2 DEF Putting
<1>11. CASE PutBegin
  BY <1>4, <1>11 DEF PutBegin, At, globals, Putting
<1>12. CASE PutReady \/ PutStart \/ PutEnd
  BY <1>4, <1>12 DEF PutReady, PutStart, PutEnd, PutReturn, Passes, At, locals, globals, Putting
<1>13. CASE PutBit
  <2>1. dpc = "p_bit" /\ dpc' \in {"p_hold", "sent"} /\ pos' = pos /\ byte' = byte
    BY <1>13 DEF PutBit, PutReturn, At, locals, globals
  <2>2. cpc # "r_clock"
    BY <2>1 DEF Joint, Lock, InPlace
  <2>3. QED
    BY <1>4, <2>1, <2>2 DEF Putting
<1>14. CASE PutBitEnd
  <2>1. dpc = "p_hold" /\ dpc' \in {"p_bit", "p_end"} /\ pos' = pos /\ byte' = byte
    BY <1>14 DEF PutBitEnd, At, globals
  <2>2. cpc # "r_clock"
    BY <2>1 DEF Joint, Lock, InPlace
  <2>3. QED
    BY <1>4, <2>1, <2>2 DEF Putting
<1>15. QED
  BY <1>6, <1>7, <1>8, <1>9, <1>10, <1>11, <1>12, <1>13, <1>14 DEF Device

(* The steps of the C64 within an operation leave the job alone, *)
Within ==
    \/ NextOperation \/ EndJob \/ AtnClockLow \/ BeginByte \/ ByteReady \/ GiveBit \/ GiveBitEnd \/ TurnDone
    \/ TakeReady \/ TakeEoi \/ TakeBit \/ TakeByte
    \/ ByteTaken /\ op' = op

LEMMA WithinJob ==
    ASSUME Within
    PROVE  job' = job /\ op' = op /\ UNCHANGED devVars
BY DEF Within, NextOperation, EndJob, AtnClockLow, BeginByte, ByteReady, GiveBit, GiveBitEnd,
   TurnDone, TakeReady, TakeEoi, TakeBit, TakeByte, ByteTaken

(* the others end it. *)
Ending == (ByteTaken /\ op' # op) \/ AtnRelease \/ TakeDone

(* and what follows data is a command. *)
LEMMA EndingJob ==
    ASSUME Joint, Ending
    PROVE  /\ job' = job /\ op' = op + 1 /\ UNCHANGED devVars /\ loaded' = loaded
           /\ op \in DOMAIN job /\ cpc' \in {"next", "turn"}
           /\ op' \in DOMAIN job =>
                \/ job[op'].kind = "command" /\ job[op].kind # "command"
                \/ AtnRelease /\ job[op].kind = "command"
<1>1. /\ job' = job /\ op' = op + 1 /\ UNCHANGED devVars /\ loaded' = loaded /\ cpc' \in {"next", "turn"}
      /\ AtnRelease \/ (op \in DOMAIN job /\ Operation.kind # "command")
  <2>1. CASE ByteTaken /\ op' # op
    BY <2>1, ByteTakenWhere, JobIs DEF ByteTaken
  <2>2. CASE AtnRelease
    BY <2>2 DEF AtnRelease
  <2>3. CASE TakeDone
    <3>1. cpc = "r_done"
      BY <2>3 DEF TakeDone, On
    <3>2. op \in DOMAIN job /\ Operation.kind = "in"
      BY <3>1, JobIs DEF Joint, C64Inv, OperationInv, Taking, Lock, InPlace
    <3>3. QED
      BY <2>3, <3>2 DEF TakeDone
  <2>4. QED
    BY <2>1, <2>2, <2>3 DEF Ending
<1>2. AtnRelease => op \in DOMAIN job /\ Operation.kind = "command"
  BY AtnReleaseWhere, JobIs
<1>3. QED
  BY <1>1, <1>2, AfterData DEF Operation

(* Without faults the C64 does one or the other. *)
LEMMA C64Cases ==
    ASSUME Joint, C64
    PROVE  StartJob \/ Within \/ Ending
BY NoError DEF C64, Within, Ending

(* A new job has given nothing yet. *)
LEMMA StartHistory ==
    ASSUME KernalJobs, OneFileJobs, Joint, History, StartJob
    PROVE  History'
<1>1. job' \in Jobs /\ op' = 1 /\ cpc' = "next" /\ loaded' = <<>> /\ result' = "busy"
  BY DEF StartJob
<1>2. KernalJob(job') /\ OneFile(job')
  BY <1>1 DEF KernalJobs, OneFileJobs
<1>3. /\ \A i \in DOMAIN job' : i \in Nat \ {0} /\ i # 1 => i > 1
      /\ 1 \in DOMAIN job' => job'[1].kind = "command"
  <2>1. job' \in Seq(Operations)
    BY <1>1, JobsAssumption DEF Operations, Byte
  <2>2. DOMAIN job' \subseteq Nat \ {0} /\ (job' = <<>> => DOMAIN job' = {})
    BY <2>1
  <2>3. QED
    BY <1>2, <2>2 DEF KernalJob
<1>4. op' \notin Data' /\ \A i \in Data' : ~(i < op')
  <2>1. Data' = {i \in DOMAIN job' : job'[i].kind = "out"}
    BY DEF Data
  <2>2. \A i \in DOMAIN job' : i \in Nat \ {0}
    <3>1. job' \in Seq(Operations)
      BY <1>1, JobsAssumption DEF Operations, Byte
    <3>2. QED
      BY <3>1
  <2>3. QED
    BY <1>1, <1>3, <2>1, <2>2
<1>5. Channel' /\ SoFar' /\ Complete'
  BY <1>4 DEF Channel, SoFar, Complete
<1>6. Taken'
  <2>1. Len(<<>>) = 0 /\ Len(File) \in Nat
    BY ConstantTypes
  <2>2. \A i \in DOMAIN job' : job'[i].kind = "in" => i # op' /\ ~(i < op')
    <3>1. job' \in Seq(Operations)
      BY <1>1, JobsAssumption DEF Operations, Byte
    <3>2. QED
      BY <1>1, <1>3, <3>1
  <2>3. QED
    BY <1>1, <2>1, <2>2 DEF Taken
<1>7. QED
  BY <1>1, <1>2, <1>5, <1>6 DEF History, Finished

(* The steps of the C64: which data it gives next, *)
LEMMA C64Channel ==
    ASSUME Joint, History, Within \/ Ending
    PROVE  Channel'
<1>1. CASE Within
  <2>1. job' = job /\ op' = op /\ dpc' = dpc /\ caller' = caller /\ byte' = byte
    BY <1>1, WithinJob DEF devVars, locals
  <2>2. Data' = Data /\ (IsName(op)' <=> IsName(op))
    BY <2>1, SameJob
  <2>3. QED
    BY <2>1, <2>2 DEF History, Channel, Mode
<1>2. CASE Ending
  <2>1. /\ job' = job /\ op' = op + 1 /\ dpc' = dpc /\ caller' = caller /\ byte' = byte /\ op \in DOMAIN job
        /\ op + 1 \in DOMAIN job => job[op + 1].kind = "command" \/ AtnRelease
    BY <1>2, EndingJob DEF devVars, locals
  <2>2. Data' = Data /\ op \in Nat /\ (op + 1) - 1 = op
    BY <2>1, JobIs DEF Data
  <2>3. IsName(op)' <=> Mode(Operation.bytes[2]) = OPEN
    BY <2>1, <2>2 DEF IsName, Operation, Mode
  <2>4. SUFFICES ASSUME op + 1 \in Data
                 PROVE  /\ dpc \in {"o_atn", "o_next"} \/ (dpc \in Attending /\ caller = "open") => Mode(Operation.bytes[2]) = OPEN
                        /\ dpc \in {"l_atn", "r_next"} \/ (dpc \in Attending /\ caller = "recv") => Mode(Operation.bytes[2]) # OPEN
                        /\ dpc = "got" /\ caller = "sec" => (Mode(byte) = OPEN <=> Mode(Operation.bytes[2]) = OPEN)
    BY <2>1, <2>2, <2>3 DEF Channel, Mode
  <2>5. AtnRelease /\ job[op + 1].kind = "out"
    BY <2>1, <2>4 DEF Data
  <2>6. /\ Released /\ Len(Operation.bytes) = 2 /\ cpos = 2
    <3>1. Now("out")' /\ ~Now("command")' /\ ~Now("in")' /\ ~(op > Len(job))'
      BY <2>1, <2>4, <2>5, JobIs DEF Now, Operation, Data
    <3>2. QED
      BY <2>5, <3>1, AtnReleaseWhere
  <2>7. QED
    BY <2>6, ModeAssumption DEF Released, Attending
<1>3. QED
  BY <1>1, <1>2

(* When a command has been given, the sketch has not yet acted on it. *)
LEMMA ReleaseWhere ==
    ASSUME Joint, Ending, op' \in DOMAIN job, job[op'].kind # "command"
    PROVE  dpc \in {"got", "loop", "a_high", "o_atn", "l_atn", "t_atn", "u_atn"} /\ (dpc = "got" => caller \in {"device", "sec"})
BY EndingJob, AtnReleaseWhere DEF Released

(* what it has given, *)
LEMMA C64SoFar ==
    ASSUME Joint, History, Within \/ Ending
    PROVE  SoFar'
<1>1. /\ job' = job /\ UNCHANGED <<dpc, caller, byte, iobuf, stored>>
      /\ \A i : IsName(i)' <=> IsName(i)
      /\ \A i : (Receives(i)' <=> Receives(i)) /\ Part(i)' = Part(i)
  BY WithinJob, EndingJob DEF devVars, locals, globals, IsName, Receives, Part, Who
<1>2. Data' = Data
  BY <1>1 DEF Data
<1>3. CASE Within
  <2>1. op' = op /\ Operation' = Operation
    BY <1>1, <1>3, WithinJob DEF Operation
  <2>2. SUFFICES ASSUME op \in Data, Receives(op)
                 PROVE  /\ Len(Part(op)) = Heard'
                        /\ \A n \in 1 .. Heard' : Part(op)[n] = Operation.bytes[n]
                        /\ cpc' = "next" => dpc # "got"
                        /\ dpc = "got" /\ cpc' # "taken" => byte = Operation.bytes[cpos' - 1]
    BY <1>1, <1>2, <2>1 DEF SoFar
  <2>3. /\ Len(Part(op)) = Heard
        /\ \A n \in 1 .. Heard : Part(op)[n] = Operation.bytes[n]
        /\ cpc = "next" => dpc # "got"
        /\ dpc = "got" /\ cpc # "taken" => byte = Operation.bytes[cpos - 1]
    BY <2>2 DEF History, SoFar
  <2>4. op <= Len(job) /\ Operation.kind = "out"
    BY <2>2, JobIs DEF Data, Operation
  <2>5. CASE NextOperation
    <3>1. cpc = "next" /\ cpc' = "byte" /\ cpos' = 1
      BY <2>4, <2>5 DEF NextOperation, On
    <3>2. Heard = 0 /\ Heard' = 0
      BY <1>1, <2>3, <3>1 DEF Heard
    <3>3. QED
      BY <2>3, <3>1, <3>2
  <2>6. CASE BeginByte \/ ByteReady \/ GiveBit
    <3>1. cpos' = cpos /\ cpc \notin {"next", "taken"} /\ cpc' \notin {"next", "taken"}
      BY <2>6 DEF BeginByte, ByteReady, GiveBit, On, Sees
    <3>2. Heard' = Heard
      BY <1>1, <3>1 DEF Heard
    <3>3. QED
      BY <2>3, <3>1, <3>2
  <2>7. CASE GiveBitEnd
    <3>1. cpos' = cpos /\ cpc = "hold" /\ cpc' \in {"bit", "taken"}
      BY <2>7 DEF GiveBitEnd, On, Sees
    <3>2. dpc # "got"
      BY <3>1 DEF Joint, Lock, InStep
    <3>3. Heard' = Heard
      BY <1>1, <3>1, <3>2 DEF Heard
    <3>4. QED
      BY <2>3, <3>1, <3>2, <3>3
  <2>8. CASE ByteTaken /\ op' = op
    <3>1. /\ cpc = "taken" /\ cpc' = "byte" /\ cpos' = cpos + 1 /\ cpos \in Nat
          /\ dpc = "got" /\ byte = Operation.bytes[cpos]
      <4>1. op \in Nat /\ op + 1 # op
        BY JobIs
      <4>2. cpos < Len(Operation.bytes)
        BY <2>4, <2>8, <4>1, ByteTakenWhere
      <4>3. QED
        BY <2>8, <4>2, ByteTakenWhere DEF Sent
    <3>2. Heard = cpos - 1 /\ Heard' = cpos - 1 /\ cpos' - 1 = cpos
      BY <1>1, <3>1 DEF Heard
    <3>3. QED
      BY <2>3, <3>1, <3>2
  <2>9. CASE EndJob \/ AtnClockLow \/ TurnDone \/ TakeReady \/ TakeEoi \/ TakeBit \/ TakeByte
    <3>1. op > Len(job) \/ cpc \in {"atn", "turn"} \cup Taking
      BY <2>9 DEF EndJob, AtnClockLow, TurnDone, TakeReady, TakeEoi, TakeBit, TakeByte, On, Sees,
         Taking
    <3>2. QED
      BY <2>4, <3>1, JobIs DEF Joint, Lock, CommandPlace, InPlace, Now, Taking
  <2>10. QED
    BY <1>3, <2>5, <2>6, <2>7, <2>8, <2>9 DEF Within
<1>4. CASE Ending
  <2>1. SUFFICES ASSUME op' \in Data
                 PROVE  ~Receives(op')
    BY <1>1, <1>2 DEF SoFar
  <2>2. op' \in DOMAIN job /\ job[op'].kind # "command"
    BY <2>1 DEF Data
  <2>3. QED
    BY <1>4, <2>2, ReleaseWhere DEF Receives, Attending, Who
<1>5. QED
  BY <1>3, <1>4

(* A sequence is made of its first elements and the last. *)
LEMMA AppendIs ==
    ASSUME NEW s \in Seq(Byte), NEW p \in Seq(Byte), NEW b \in Byte,
           Len(s) = Len(p) + 1, \A n \in 1 .. Len(p) : p[n] = s[n], b = s[Len(s)]
    PROVE  s = Append(p, b)
OBVIOUS

(* what it has given in full, *)
LEMMA C64Complete ==
    ASSUME Joint, History, Within \/ Ending
    PROVE  Complete'
<1>1. /\ job' = job /\ UNCHANGED <<dpc, caller, eoi, byte, iobuf, stored>> /\ Data' = Data
      /\ \A i : Part(i)' = Part(i) /\ Who(i)' = Who(i)
  BY WithinJob, EndingJob DEF devVars, locals, globals, IsName, Part, Who, Data
<1>2. SUFFICES ASSUME NEW i \in Data, i < op'
               PROVE  IF dpc = "got" /\ caller = Who(i) THEN Pending(i)' ELSE job[i].bytes = Part(i)
  BY <1>1 DEF Complete
<1>3. /\ i \in DOMAIN job /\ job[i].kind = "out" /\ i \in Nat /\ op \in Nat
      /\ i + 1 \in DOMAIN job /\ job[i + 1].kind = "command"
  BY JobIs, AfterData DEF Data
<1>4. i < op => IF dpc = "got" /\ caller = Who(i) THEN Pending(i) ELSE job[i].bytes = Part(i)
  BY DEF History, Complete
<1>5. CASE Within
  <2>1. op' = op
    BY <1>5, WithinJob
  <2>2. SUFFICES ASSUME dpc = "got", Pending(i)
                 PROVE  cpc' \in {"next", "atn", "present", "ready"}
    BY <1>1, <1>2, <1>4, <2>1 DEF Pending
  <2>3. /\ cpc \in {"next", "atn", "present", "ready"} /\ op = i + 1 /\ Operation.kind = "command"
        /\ op <= Len(job) /\ Len(job) \in Nat /\ data = LOW
    BY <1>3, <2>2, JobIs DEF Pending, Operation, Joint, Lock, DevLines, data
  <2>4. ~ByteReady
    <3>1. cpc = "ready" => C64Rank # AtOnce
      BY <2>3, C64RankIs DEF AtOnce, Never, LOW, HIGH
    <3>2. QED
      BY <2>3, <3>1 DEF ByteReady, Sees, On
  <2>5. CASE NextOperation
    BY <2>3, <2>5 DEF NextOperation
  <2>6. CASE EndJob
    BY <2>3, <2>6, JobIs DEF EndJob
  <2>7. CASE AtnClockLow \/ BeginByte
    BY <2>3, <2>7 DEF AtnClockLow, BeginByte
  <2>8. CASE GiveBit \/ GiveBitEnd \/ TurnDone \/ TakeReady \/ TakeEoi \/ TakeBit \/ TakeByte \/ ByteTaken
    BY <2>3, <2>8 DEF GiveBit, GiveBitEnd, TurnDone, TakeReady, TakeEoi, TakeBit, TakeByte,
       ByteTaken, On, Sees
  <2>9. QED
    BY <1>5, <2>4, <2>5, <2>6, <2>7, <2>8 DEF Within
<1>6. CASE Ending
  <2>1. op' = op + 1 /\ cpc \in {"taken", "release", "r_done"}
    BY <1>6, EndingJob DEF Ending, ByteTaken, AtnRelease, TakeDone, On, Sees
  <2>2. CASE i < op
    BY <1>4, <2>1, <2>2 DEF Pending
  <2>3. CASE i = op
    <3>1. ByteTaken /\ op' # op
      <4>1. Operation.kind = "out"
        BY <1>3, <2>3 DEF Operation
      <4>2. cpc \notin {"release", "r_done"}
        BY <4>1 DEF Joint, Lock, CommandPlace, InPlace
      <4>3. QED
        BY <1>6, <4>2 DEF Ending, AtnRelease, TakeDone, On
    <3>2. /\ cpc = "taken" /\ cpc' = "next" /\ dpc = "got" /\ eoi = 1 /\ Hearing
          /\ cpos \in Nat /\ byte = Operation.bytes[cpos] /\ cpos = Len(Operation.bytes)
      BY <1>3, <2>3, <3>1, ByteTakenWhere DEF Sent, Operation
    <3>3. caller = Who(i)
      BY <2>3, <3>2, <1>2 DEF Hearing, Who, History, Channel, Attending
    <3>4. Receives(op) /\ Heard = cpos - 1 /\ op \in Data
      BY <2>3, <3>2, <3>3 DEF Receives, Attending, Heard
    <3>5. /\ Len(Part(i)) = cpos - 1 /\ \A n \in 1 .. cpos - 1 : Part(i)[n] = Operation.bytes[n]
          /\ Operation.bytes = job[i].bytes
      BY <2>3, <3>4 DEF History, SoFar, Operation
    <3>6. job[i].bytes = Append(Part(i), byte)
      <4>1. job[i].bytes \in Seq(Byte) /\ Part(i) \in Seq(Byte) /\ byte \in Byte
        BY <1>3, JobIs, PartType
      <4>2. QED
        BY <3>2, <3>5, <4>1, AppendIs
    <3>7. Pending(i)'
      BY <1>1, <2>1, <2>3, <3>2, <3>6 DEF Pending
    <3>8. QED
      BY <3>2, <3>3, <3>7
  <2>4. QED
    BY <1>2, <1>3, <2>1, <2>2, <2>3
<1>7. QED
  BY <1>5, <1>6

(* and what it has taken. *)
LEMMA C64Taken ==
    ASSUME Joint, Lock', History, Within \/ Ending
    PROVE  Taken'
<1>1. /\ job' = job /\ UNCHANGED <<dpc, byte, pos>>
  BY WithinJob, EndingJob DEF devVars, locals, globals
<1>2. /\ \A i \in DOMAIN job : i \in Nat
      /\ op \in Nat /\ loaded \in Seq(Byte) /\ Len(loaded) \in Nat
      /\ File \in Seq(Byte) /\ Len(File) \in Nat
  BY JobIs, ConstantTypes DEF Joint, C64Inv
<1>3. /\ Len(loaded) <= Len(File) /\ \A n \in 1 .. Len(loaded) : loaded[n] = File[n]
      /\ \A i \in DOMAIN job : job[i].kind = "in" =>
           /\ i < op => loaded = File
           /\ i > op \/ (i = op /\ cpc \in {"next", "turn"}) => loaded = <<>>
           /\ i = op => IF cpc = "r_done" THEN loaded = File
                        ELSE /\ dpc \in {"turn", "send"} \cup Putting =>
                                  Len(loaded) = IF cpc = "r_clock" /\ dpc \in {"p_end", "p_ack", "sent"}
                                                THEN pos + 1 ELSE pos
                             /\ dpc \in Putting \ {"put", "sent", "p_ack"} => byte = File[pos + 1]
  BY DEF History, Taken
<1>4. CASE Within /\ ~TakeByte
  <2>1. op' = op /\ loaded' = loaded
    BY <1>4, WithinJob DEF Within, NextOperation, EndJob, AtnClockLow, BeginByte, ByteReady,
       GiveBit, GiveBitEnd, TurnDone, TakeReady, TakeEoi, TakeBit, ByteTaken
  <2>2. SUFFICES ASSUME op \in DOMAIN job, job[op].kind = "in"
                 PROVE  /\ cpc' \in {"next", "turn"} => cpc \in {"next", "turn"}
                        /\ cpc # "r_done" /\ cpc' # "r_done"
                        /\ dpc \in {"p_end", "p_ack", "sent"} => (cpc' = "r_clock" <=> cpc = "r_clock")
    BY <1>1, <1>3, <2>1 DEF Taken
  <2>3. Operation.kind = "in" /\ op <= Len(job) /\ Len(job) \in Nat
    BY <2>2, JobIs DEF Operation
  <2>4. CASE NextOperation
    <3>1. cpc = "next" /\ cpc' = "r_clock"
      BY <2>3, <2>4 DEF NextOperation, On
    <3>2. dpc \in {"send", "put", "p_inf"}
      BY <2>3, <3>1 DEF Joint, Lock, NextPlace, Now
    <3>3. QED
      BY <3>1, <3>2
  <2>5. CASE TurnDone
    BY <2>5 DEF TurnDone, Sees, On
  <2>6. CASE TakeReady
    <3>1. cpc = "r_clock" /\ cpc' = "r_start"
      BY <2>6 DEF TakeReady, Sees, On
    <3>2. dpc' \in {"p_inf", "p_high", "p_low", "p_ready", "p_bit"}
      BY <3>1 DEF Lock, InPlace
    <3>3. QED
      BY <1>1, <3>1, <3>2
  <2>7. CASE TakeEoi \/ TakeBit
    BY <2>7 DEF TakeEoi, TakeBit, Sees, On
  <2>8. CASE EndJob
    BY <2>3, <2>8, <1>2 DEF EndJob
  <2>9. CASE AtnClockLow \/ BeginByte \/ ByteReady \/ GiveBit \/ GiveBitEnd \/ ByteTaken
    <3>1. cpc \in Giving
      BY <2>9 DEF AtnClockLow, BeginByte, ByteReady, GiveBit, GiveBitEnd, ByteTaken, Sees, On,
         Giving
    <3>2. QED
      BY <2>3, <3>1 DEF Joint, C64Inv, OperationInv
  <2>10. QED
    BY <1>4, <2>4, <2>5, <2>6, <2>7, <2>8, <2>9 DEF Within
<1>5. CASE TakeByte
  <2>1. /\ cpc = "r_fall" /\ cbit + 1 = Bits /\ cpc' = (IF ceoi THEN "r_done" ELSE "r_clock") /\ op' = op
        /\ Operation.kind = "in" /\ (ceoi <=> eoi = 1) /\ dpc = "p_end"
        /\ loaded' = Append(loaded, cbyte)
    BY <1>5, TakeByteWhere DEF TakeByte
  <2>2. op \in DOMAIN job /\ job[op].kind = "in"
    BY <2>1, JobIs DEF Joint, C64Inv, OperationInv, Taking, Operation
  <2>3. Len(loaded) = pos /\ byte = File[pos + 1]
    BY <1>3, <2>1, <2>2 DEF Putting
  <2>4. cbyte = File[pos + 1] /\ cbyte \in Byte
    <3>1. cbyte = byte % Pow2[Bits] /\ byte \in Byte /\ cbyte \in Byte
      BY <2>1, PartType DEF Joint, Lock, InPlace, C64Inv, CbyteInv
    <3>2. byte % Pow2[Bits] = byte
      BY <3>1, Pow2Type, BitsAssumption DEF Byte
    <3>3. QED
      BY <2>3, <3>1, <3>2
  <2>5. pos \in 0 .. Len(File) /\ pos < Len(File) /\ (ceoi <=> pos + 1 = Len(File))
    <3>1. pos \in 0 .. Len(File) - 1
      BY <2>1, <1>2 DEF Joint, DevInv, BufferInv, Putting
    <3>2. eoi = 1 <=> pos + 1 = Len(File)
      BY <2>1 DEF Joint, Lock, DevFlags, IsLast
    <3>3. QED
      BY <1>2, <2>1, <3>1, <3>2
  <2>6. /\ Len(loaded') = pos + 1 /\ loaded' \in Seq(Byte)
        /\ \A n \in 1 .. Len(loaded') : loaded'[n] = File[n]
    BY <1>2, <1>3, <2>1, <2>3, <2>4, <2>5
  <2>7. ceoi => loaded' = File
    BY <1>2, <2>5, <2>6
  <2>8. \A i \in DOMAIN job : job[i].kind = "in" => i = op
    BY <2>2, JobIs DEF History, OneFile
  <2>9. QED
    BY <1>1, <1>2, <2>1, <2>3, <2>5, <2>6, <2>7, <2>8 DEF Taken
<1>6. CASE Ending
  <2>1. /\ op' = op + 1 /\ loaded' = loaded /\ op \in DOMAIN job /\ cpc' \in {"next", "turn"}
        /\ cpc \in {"taken", "release", "r_done"}
    BY <1>6, EndingJob DEF Ending, ByteTaken, AtnRelease, TakeDone, On, Sees
  <2>2. job[op].kind = "in" => cpc = "r_done"
    BY <2>1 DEF Joint, C64Inv, OperationInv, Giving, Operation
  <2>3. \A i \in DOMAIN job : job[i].kind = "in" /\ i < op' => loaded' = File
    BY <1>2, <1>3, <2>1, <2>2
  <2>4. \A i \in DOMAIN job : job[i].kind = "in" /\ (i > op' \/ i = op') => loaded' = <<>>
    BY <1>2, <1>3, <2>1
  <2>5. op' \in DOMAIN job /\ job[op'].kind = "in" => dpc \notin {"turn", "send"} \cup Putting
    BY <1>6, ReleaseWhere DEF Putting
  <2>6. QED
    BY <1>1, <1>3, <2>1, <2>3, <2>4, <2>5 DEF Taken
<1>7. QED
  BY <1>4, <1>5, <1>6 DEF Within

(* Together: no step of either breaks the history. *)
LEMMA HistoryStep ==
    ASSUME KernalJobs, OneFileJobs, Joint, Lock', History, Device \/ C64
    PROVE  History'
<1>1. CASE Device
  <2>1. UNCHANGED <<job, op, cpc, result>>
    BY <1>1, Apart DEF c64Vars, c64State
  <2>2. Finished' /\ (job = <<>> \/ OneFile(job))'
    BY <2>1 DEF History, Finished, OneFile, Mode
  <2>3. QED
    BY <1>1, <2>2, DevChannel, DevSoFar, DevComplete, DevTaken DEF History
<1>2. CASE StartJob
  BY <1>2, StartHistory
<1>3. CASE Within \/ Ending
  <2>1. job' = job /\ (EndJob \/ (cpc' \notin {"idle", "off"} /\ result' = result))
    <3>1. CASE NextOperation
      BY <3>1, KindIs DEF NextOperation
    <3>2. CASE Within /\ ~NextOperation
      BY <3>2, WithinJob DEF Within, AtnClockLow, BeginByte, ByteReady, GiveBit, GiveBitEnd,
         TurnDone, TakeReady, TakeEoi, TakeBit, TakeByte, ByteTaken
    <3>3. CASE Ending
      BY <3>3, EndingJob DEF Ending, ByteTaken, AtnRelease, TakeDone
    <3>4. QED
      BY <1>3, <3>1, <3>2, <3>3
  <2>2. cpc \notin {"idle", "off"}
    BY <1>3 DEF Within, Ending, NextOperation, EndJob, AtnClockLow, BeginByte, ByteReady, GiveBit,
       GiveBitEnd, TurnDone, TakeReady, TakeEoi, TakeBit, TakeByte, ByteTaken, AtnRelease,
       TakeDone, On, Sees
  <2>3. EndJob => op > Len(job) /\ op' = op /\ cpc' \in {"idle", "off"}
    BY DEF EndJob
  <2>4. Finished' /\ (job = <<>> \/ OneFile(job))'
    BY <2>1, <2>2, <2>3 DEF History, Finished, OneFile, Mode
  <2>5. QED
    BY <1>3, <2>4, C64Channel, C64SoFar, C64Complete, C64Taken DEF History
<1>4. QED
  BY <1>1, <1>2, <1>3, C64Cases

(* What has been given is where it should be. *)
Faithful == faults = {} => History

LEMMA FaithfulInv ==
    ASSUME KernalJobs, OneFileJobs
    PROVE  Spec => [](DevInv /\ C64Inv /\ Undisturbed /\ Faithful)
<1>1. Init => History
  <2>1. SUFFICES ASSUME Init
                 PROVE  History
    OBVIOUS
  <2>2. job = <<>> /\ op = 1 /\ loaded = <<>> /\ result = "none" /\ DOMAIN job = {} /\ Len(job) = 0 /\ Len(loaded) = 0
    BY <2>1 DEF Init
  <2>3. Data = {} /\ Len(File) \in Nat
    BY <2>2, ConstantTypes DEF Data
  <2>4. QED
    BY <2>2, <2>3 DEF History, Channel, SoFar, Complete, Taken, Finished
<1>2. DevInv /\ C64Inv /\ Undisturbed /\ Undisturbed' /\ Faithful /\ [Next]_vars => Faithful'
  <2>1. SUFFICES ASSUME DevInv, C64Inv, Undisturbed, Undisturbed', Faithful, [Next]_vars, faults' = {}
                 PROVE  History'
    BY DEF Faithful
  <2>2. faults = {}
    BY <2>1 DEF Next, vars
  <2>3. Joint /\ Lock' /\ History
    BY <2>1, <2>2 DEF Joint, Quiet, Undisturbed, Faithful
  <2>4. CASE Device \/ C64
    BY <2>3, <2>4, HistoryStep
  <2>5. CASE Reset
    BY <2>2, <2>5 DEF Reset
  <2>6. CASE UNCHANGED vars
    BY <2>3, <2>6 DEF vars, devVars, drives, locals, globals, c64Vars, c64State, atnLines, History,
       Channel, SoFar, Complete, Taken, Finished, Data, IsName, Receives, Who, Part, Heard,
       Operation, Pending, OneFile, Mode
  <2>7. QED
    BY <2>1, <2>4, <2>5, <2>6 DEF Next, Rest
<1>3. QED
  BY <1>1, <1>2, UndisturbedInv, PTL DEF Spec, Faithful

(* Without faults every LOAD gives the C64 the bytes of the file, in       *)
(* order, and a LOAD or SAVE that has ended has moved all of its bytes and *)
(* exactly its name: no bit is read twice or missed, none belongs to       *)
(* another byte, and no byte is lost when the sketch stores it. For bytes  *)
(* of any number of bits, names and files of any length and any number of  *)
(* jobs.                                                                   *)
THEOREM ExactCorrect ==
    ASSUME KernalJobs, OneFileJobs
    PROVE  Spec => [](faults = {} => Exact)
<1>1. DevInv /\ C64Inv /\ Undisturbed /\ Faithful => (faults = {} => Exact)
  <2>1. SUFFICES ASSUME DevInv, C64Inv, Undisturbed, Faithful, faults = {}
                 PROVE  Exact
    OBVIOUS
  <2>2. Joint /\ History
    BY <2>1 DEF Joint, Quiet, Undisturbed, Faithful
  <2>3. IsPrefix(loaded, File)
    BY <2>2, ConstantTypes DEF Joint, C64Inv, History, Taken, IsPrefix
  <2>4. ASSUME result = "ok", NEW i \in Data
        PROVE  job[i].bytes = IF IsName(i) THEN iobuf ELSE stored
    <3>1. cpc \in {"idle", "off"} /\ i < op
      BY <2>2, <2>4, JobIs DEF History, Finished, Data
    <3>2. QED
      BY <2>2, <3>1 DEF History, Complete, Pending, Part
  <2>5. ASSUME result = "ok", NEW i \in DOMAIN job, job[i].kind = "in"
        PROVE  loaded = File
    <3>1. i < op
      BY <2>2, <2>5, JobIs DEF History, Finished
    <3>2. QED
      BY <2>2, <2>5, <3>1 DEF History, Taken
  <2>6. QED
    BY <2>3, <2>4, <2>5 DEF Exact
<1>2. QED
  BY <1>1, FaithfulInv, PTL
=============================================================================
