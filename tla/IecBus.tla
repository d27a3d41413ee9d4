------------------------------- MODULE IecBus -------------------------------
(***************************************************************************)
(* The serial IEC bus between the C64 and the Arduino, line by line and    *)
(* edge by edge: get_byte, put_byte and the wait_* loops of c64iec.ino,    *)
(* and above them loop, handle_atn, handle_open, handle_listen and         *)
(* handle_talk. The C64 is its KERNAL, as far as these rely on it.         *)
(*                                                                         *)
(* Time is a rank per step. A poll loop whose condition holds goes on at   *)
(* once (rank 0), and a step waits until no step of a lower rank is left:  *)
(* delays of up to 200 us, the C64's 256 us and the 135 us of              *)
(* wait_clock_eoi, the C64's 1 ms, the 13 ms of the other wait loops.      *)
(***************************************************************************)
EXTENDS Integers, Sequences, SequencesExt

CONSTANTS
    Bits,               \* 8
    LowBits,            \* 4: the bits of a command below its mode
    LISTEN, UNLISTEN, TALK, UNTALK, OPEN, CLOSE, DATA,      \* modes
    OwnAddresses,       \* 8 .. 15
    IobufSize,          \* 257
    Jobs,               \* what the C64 may do: sequences of bus operations
    MaxJobs,            \* bound: jobs of a behaviour
    File,               \* the bytes that the daemon has for a LOAD
    Faults,             \* each a set of faults that a behaviour may have:
                        \*   "missing": there may be no file
                        \*   "slow": loop() may take as long as the C64 waits
                        \*   "reset": the C64 may be reset
    MaxResets,          \* bound: resets of the C64
    MaxStored           \* bound: bytes of a SAVE that are remembered

LOW == 0
HIGH == 1
AtOnce == 0
Delay == 1              \* 70 to 200 us
Short == 2              \* wait_clock_eoi, the C64's wait for a byte
Ack == 3                \* what the C64 allows for an answer, 1 ms
Long == 4               \* TIMEOUT_COUNT
Never == 5

(* 1 << n *)
Pow2[n \in 0 .. Bits] == IF n = 0 THEN 1 ELSE 2 * Pow2[n - 1]

ASSUME BitsAssumption == Bits \in Nat \ {0} /\ LowBits \in 0 .. Bits
ASSUME ModeAssumption ==
    /\ {LISTEN, TALK} \cap {UNLISTEN, UNTALK} = {} /\ LISTEN # TALK
    /\ CLOSE \notin {OPEN, DATA} /\ OPEN # DATA
ASSUME AddressAssumption == OwnAddresses \subseteq 0 .. Pow2[LowBits] - 1
ASSUME JobsAssumption ==
    /\ MaxJobs \in Nat /\ MaxResets \in Nat
    /\ \A j \in Jobs : j \in Seq([kind : {"command", "out"},
                                   bytes : Seq(0 .. Pow2[Bits] - 1) \ {<<>>}]
                                  \cup [kind : {"in"}])
ASSUME BufferAssumption == IobufSize \in Nat /\ IobufSize >= 2 /\ MaxStored \in Nat
ASSUME FaultsAssumption == Faults \subseteq SUBSET {"missing", "slow", "reset"}
ASSUME FileAssumption == File \in Seq(0 .. Pow2[Bits] - 1) /\ File # <<>>

VARIABLES
    cAtn, cClock, cData,    \* LOW where the C64 pulls
    dClock, dData,          \* "in", "low", "high": what the Arduino drives
    dpc,                    \* where the sketch is
    caller,                 \* who has called get_byte
    force_eoi, eoi, flag, bit,
    byte,                   \* *output, or value
    device_mode, secondary, iobuf,
    pos,                    \* bytes that send_file has sent
    stored,                 \* bytes that recv_file has passed on
    job, op, cpc, cbit,     \* what the C64 does
    cpos, ceoi, cbyte,
    loaded, result, jobs, resets,
    faults                  \* those that this behaviour may have, fixed

atnLines == <<cAtn, cClock, cData>>
drives == <<dClock, dData>>
locals == <<force_eoi, eoi, flag, bit, byte>>
globals == <<device_mode, secondary, iobuf, pos, stored>>
devVars == <<drives, dpc, caller, locals, globals>>
c64State == <<job, op, cpc, cbit, cpos, ceoi, cbyte, loaded, result, jobs, resets>>
c64Vars == <<atnLines, c64State>>
vars == <<devVars, c64Vars, faults>>

Byte == 0 .. Pow2[Bits] - 1
BitOf(b, i) == (b \div Pow2[i]) % 2
Mode(b) == b \div Pow2[LowBits]
Address(b) == b % Pow2[LowBits]

clock == IF cClock = LOW \/ dClock = "low" THEN LOW ELSE HIGH
data == IF cData = LOW \/ dData = "low" THEN LOW ELSE HIGH
-----------------------------------------------------------------------------
(* Who waits for what, and for how long *)

DevWait ==
    [a_high  |-> <<clock, HIGH, Long>>,  a_low   |-> <<clock, LOW, Long>>,
     u_atn   |-> <<cAtn, HIGH, Long>>,   o_atn   |-> <<cAtn, HIGH, Long>>,
     l_atn   |-> <<cAtn, HIGH, Long>>,   t_atn   |-> <<cAtn, HIGH, Long>>,
     g_clock |-> <<clock, HIGH, Long>>,  g_data  |-> <<data, HIGH, Long>>,
     g_eoi   |-> <<clock, LOW, Short>>,  g_low   |-> <<clock, LOW, Long>>,
     g_high  |-> <<clock, HIGH, Long>>,  g_fall  |-> <<clock, LOW, Long>>,
     p_inf   |-> <<data, HIGH, Never>>,  p_high  |-> <<data, HIGH, Long>>,
     p_low   |-> <<data, LOW, Long>>,    p_ready |-> <<data, HIGH, Long>>,
     p_ack   |-> <<data, LOW, Long>>]

C64Wait ==
    [eoi_ready |-> <<data, HIGH, Never>>,  eoi_seen |-> <<data, LOW, Never>>,
     ready     |-> <<data, HIGH, Never>>,  taken    |-> <<data, LOW, Ack>>,
     turn      |-> <<clock, LOW, Never>>,
     r_clock   |-> <<clock, HIGH, Never>>, r_start  |-> <<clock, LOW, Short>>,
     r_high    |-> <<clock, HIGH, Never>>, r_fall   |-> <<clock, LOW, Never>>]

RankOf(w) == IF w[1] = w[2] THEN AtOnce ELSE w[3]

DevRank ==
    IF dpc \in DOMAIN DevWait THEN RankOf(DevWait[dpc])
    ELSE IF dpc = "loop" /\ cAtn = HIGH THEN Never
    ELSE IF dpc = "loop" /\ "slow" \in faults THEN Ack
    ELSE Delay
C64Rank ==
    IF cpc \in DOMAIN C64Wait THEN RankOf(C64Wait[cpc])
    ELSE IF cpc = "present" THEN Ack
    ELSE IF cpc = "r_done" THEN Short
    ELSE IF cpc = "off" THEN Never
    ELSE Delay

DevTurn == DevRank # Never /\ DevRank <= C64Rank
C64Turn == C64Rank # Never /\ C64Rank <= DevRank

At(p) == dpc = p /\ DevTurn
Passes(p) == At(p) /\ DevRank = AtOnce
TimesOut(p) == At(p) /\ DevRank # AtOnce
-----------------------------------------------------------------------------
(* get_byte *)

(* Entry: wait_clock(HIGH) makes the clock an input. *)
CallGetByte(who, force) ==
    /\ caller' = who
    /\ force_eoi' = force
    /\ eoi' = 0
    /\ dpc' = "g_clock"
    /\ dClock' = "in"

(* Mutant: DATA is not released. *)
GetReadyHeld ==
    /\ Passes("g_clock")
    /\ dpc' = "g_data"
    /\ UNCHANGED <<drives, caller, locals, globals, c64Vars>>

GetReady ==
    /\ Passes("g_clock")
    /\ dData' = "in"
    /\ dpc' = "g_data"
    /\ UNCHANGED <<dClock, caller, locals, globals, c64Vars>>

GetStart ==
    /\ Passes("g_data")
    /\ dpc' = IF force_eoi THEN "g_low" ELSE "g_eoi"
    /\ eoi' = IF force_eoi THEN 1 ELSE 0
    /\ bit' = 0
    /\ byte' = 0
    /\ UNCHANGED <<drives, caller, force_eoi, flag, globals, c64Vars>>

(* The C64 does not go on: this is the last byte, and it wants an answer.  *)
GetEoi ==
    \/ /\ TimesOut("g_eoi")
       /\ eoi' = 1
       /\ dData' = "high"
       /\ dpc' = "g_pulse"
       /\ UNCHANGED <<dClock, caller, force_eoi, flag, bit, byte, globals, c64Vars>>
    \/ /\ At("g_pulse")
       /\ dData' = "low"
       /\ dpc' = "g_pulsed"
       /\ UNCHANGED <<dClock, caller, locals, globals, c64Vars>>
    \/ /\ At("g_pulsed")
       /\ dData' = "in"
       /\ dpc' = "g_low"
       /\ UNCHANGED <<dClock, caller, locals, globals, c64Vars>>

GetClockLow ==
    /\ Passes("g_eoi") \/ Passes("g_low")
    /\ dpc' = "g_high"
    /\ UNCHANGED <<drives, caller, locals, globals, c64Vars>>

GetBit ==
    /\ Passes("g_high")
    /\ byte' = byte + data * Pow2[bit]
    /\ dpc' = "g_fall"
    /\ UNCHANGED <<drives, caller, force_eoi, eoi, flag, bit, globals, c64Vars>>

(* Mutant: the byte is not acknowledged. *)
GetBitEndNoAck ==
    /\ Passes("g_fall")
    /\ bit' = bit + 1
    /\ dpc' = IF bit + 1 < Bits THEN "g_high" ELSE "got"
    /\ UNCHANGED <<drives, caller, force_eoi, eoi, flag, byte, globals, c64Vars>>

(* Mutant: one bit too many. *)
GetBitEndLate ==
    /\ Passes("g_fall")
    /\ bit' = bit + 1
    /\ IF bit < Bits
       THEN dpc' = "g_high" /\ UNCHANGED drives
       ELSE dpc' = "got" /\ dData' = "low" /\ UNCHANGED dClock
    /\ UNCHANGED <<caller, force_eoi, eoi, flag, byte, globals, c64Vars>>

GetBitEnd ==
    /\ Passes("g_fall")
    /\ bit' = bit + 1
    /\ IF bit + 1 < Bits
       THEN dpc' = "g_high" /\ UNCHANGED drives
       ELSE /\ dpc' = "got"
            /\ dData' = "low"
            /\ dClock' = IF eoi = 1 THEN "in" ELSE dClock
    /\ UNCHANGED <<caller, force_eoi, eoi, flag, byte, globals, c64Vars>>

(* return 0, whatever has been waited for in vain *)
GetTimeout ==
    /\ \E p \in {"g_clock", "g_data", "g_low", "g_high", "g_fall"} : TimesOut(p)
    /\ dpc' = "got"
    /\ eoi' = 0
    /\ UNCHANGED <<drives, caller, force_eoi, flag, bit, byte, globals, c64Vars>>
-----------------------------------------------------------------------------
(* put_byte, called by send_file for the next byte of the file *)

IsLast == pos + 1 = Len(File)

PutBegin ==
    /\ At("put")
    /\ byte' = File[pos + 1]
    /\ eoi' = IF IsLast THEN 1 ELSE 0
    /\ flag' = IF data = LOW THEN eoi' ELSE 1
    /\ dClock' = "high"
    /\ dData' = "in"
    /\ bit' = 0
    /\ dpc' = IF data = LOW THEN "p_inf" ELSE "p_high"
    /\ UNCHANGED <<caller, force_eoi, globals, c64Vars>>

(* The C64 is ready, or waits for the answer to its EOI signal. *)
PutReady ==
    /\ \/ Passes("p_inf") /\ dpc' = IF flag = 1 THEN "p_high" ELSE "p_ready"
       \/ Passes("p_high") /\ dpc' = "p_low"
       \/ Passes("p_low") /\ dpc' = "p_ready"
    /\ dClock' = IF dpc' = "p_ready" THEN "low" ELSE dClock
    /\ UNCHANGED <<dData, caller, locals, globals, c64Vars>>

PutStart ==
    /\ Passes("p_ready")
    /\ dpc' = "p_bit"
    /\ UNCHANGED <<drives, caller, locals, globals, c64Vars>>

PutReturn ==
    /\ dpc' = "sent"
    /\ UNCHANGED <<caller, force_eoi, eoi, flag, byte, globals, c64Vars>>

PutBit ==
    /\ At("p_bit")
    /\ IF data = LOW
       THEN PutReturn /\ UNCHANGED <<drives, bit>>
       ELSE /\ dData' = IF BitOf(byte, bit) = 1 THEN "high" ELSE "low"
            /\ dClock' = "high"
            /\ dpc' = "p_hold"
            /\ UNCHANGED <<caller, locals, globals, c64Vars>>

PutBitEnd ==
    /\ At("p_hold")
    /\ dClock' = "low"
    /\ dData' = "high"
    /\ bit' = bit + 1
    /\ dpc' = IF bit + 1 < Bits THEN "p_bit" ELSE "p_end"
    /\ UNCHANGED <<caller, force_eoi, eoi, flag, byte, globals, c64Vars>>

PutEnd ==
    \/ /\ At("p_end")
       /\ dData' = "in"
       /\ dpc' = "p_ack"
       /\ UNCHANGED <<dClock, caller, locals, globals, c64Vars>>
    \/ /\ At("p_ack")
       /\ PutReturn
       /\ UNCHANGED <<drives, bit>>

(* Mutant: the C64 is waited for without a limit everywhere. *)
PutTimeoutNever == FALSE

PutTimeout ==
    /\ \E p \in {"p_high", "p_low", "p_ready"} : TimesOut(p)
    /\ PutReturn
    /\ UNCHANGED <<drives, bit>>
-----------------------------------------------------------------------------
(* loop and handle_atn *)

Loop ==
    /\ At("loop")
    /\ dClock' = "in"
    /\ dData' = "low"
    /\ dpc' = "a_high"
    /\ UNCHANGED <<caller, locals, globals, c64Vars>>

(* The results of these two waits are not looked at. *)
AtnClock ==
    /\ \/ At("a_high") /\ dpc' = "a_low" /\ UNCHANGED <<caller, force_eoi, eoi, dClock>>
       \/ At("a_low") /\ CallGetByte("device", TRUE)
    /\ UNCHANGED <<dData, flag, bit, byte, globals, c64Vars>>

Returned(who) == At("got") /\ caller = who

(* In C, x & y < 8 is x & (y < 8), and a comparison is 0 or 1. *)
AndBool(x, b) == b /\ x % 2 = 1
IEC_DEVICE == 15
NotOurDevice(b) == AndBool(b, IEC_DEVICE < 8) \/ AndBool(b, IEC_DEVICE > 15)

AtnDevice ==
    /\ Returned("device")
    /\ device_mode' = IF eoi = 1 THEN byte ELSE device_mode
    /\ \/ /\ eoi = 0
          /\ dpc' = "loop"
          /\ UNCHANGED <<dClock, caller, force_eoi, eoi>>
       \/ /\ eoi = 1
          /\ Mode(byte) \in {UNLISTEN, UNTALK}
          /\ dpc' = "u_atn"
          /\ UNCHANGED <<dClock, caller, force_eoi, eoi>>
       \/ /\ eoi = 1
          /\ Mode(byte) \notin {UNLISTEN, UNTALK}
          /\ ~(Mode(byte) \in {LISTEN, TALK} /\ NotOurDevice(byte))
          /\ CallGetByte("sec", TRUE)
    /\ UNCHANGED <<dData, flag, bit, byte, secondary, iobuf, pos, stored, c64Vars>>

AtnSecondary ==
    /\ Returned("sec")
    /\ secondary' = IF eoi = 1 THEN byte ELSE secondary
    /\ LET talk == Mode(byte) = DATA /\ Mode(device_mode) = TALK
       IN  /\ dpc' = IF eoi = 0 THEN "loop"
                     ELSE IF Mode(byte) = OPEN THEN "o_atn"
                     ELSE IF Mode(byte) = DATA /\ Mode(device_mode) = LISTEN THEN "l_atn"
                     ELSE IF talk THEN "t_atn"
                     ELSE "loop"
           /\ IF eoi = 1 /\ talk THEN dClock' = "in" /\ dData' = "in"
                                 ELSE UNCHANGED drives
    /\ UNCHANGED <<caller, locals, device_mode, iobuf, pos, stored, c64Vars>>

(* wait_atn(HIGH), its result ignored as well *)
AtnReleased ==
    /\ \/ At("u_atn") /\ dpc' = "loop" /\ UNCHANGED <<iobuf, pos, stored>>
       \/ At("o_atn") /\ dpc' = "o_next" /\ iobuf' = <<>> /\ UNCHANGED <<pos, stored>>
       \/ /\ At("l_atn")
          /\ dpc' = IF Address(secondary) = 1 THEN "r_next" ELSE "loop"
          /\ stored' = IF Address(secondary) = 1 THEN <<>> ELSE stored
          /\ UNCHANGED <<iobuf, pos>>
       \/ At("t_atn") /\ dpc' = "turn" /\ pos' = 0 /\ UNCHANGED <<iobuf, stored>>
    /\ UNCHANGED <<drives, caller, locals, device_mode, secondary, c64Vars>>

(* handle_open: the name, byte by byte *)
OpenNext ==
    /\ At("o_next")
    /\ IF cAtn = LOW
       THEN dpc' = "loop" /\ UNCHANGED <<dClock, caller, force_eoi, eoi>>
       ELSE CallGetByte("open", FALSE)
    /\ UNCHANGED <<dData, flag, bit, byte, globals, c64Vars>>

OpenByte ==
    /\ Returned("open")
    /\ iobuf' = Append(iobuf, byte)
    /\ dpc' = IF eoi = 0 /\ Len(iobuf') < IobufSize - 1 THEN "o_next" ELSE "loop"
    /\ UNCHANGED <<drives, caller, locals, device_mode, secondary, pos, stored, c64Vars>>

(* recv_file: what ethernet_probe_for_packet and tftp_put_block take is    *)
(* part of the delay, DATA being low.                                      *)
RecvNext ==
    /\ At("r_next")
    /\ IF cAtn = LOW
       THEN /\ dpc' = "loop" /\ dClock' = "in" /\ dData' = "in"
            /\ UNCHANGED <<caller, force_eoi, eoi>>
       ELSE CallGetByte("recv", FALSE) /\ UNCHANGED dData
    /\ UNCHANGED <<flag, bit, byte, globals, c64Vars>>

(* Mutant: the byte that comes with EOI is forgotten. *)
RecvByteNoLast ==
    /\ Returned("recv")
    /\ stored' = IF eoi = 0 /\ Len(stored) < MaxStored THEN Append(stored, byte) ELSE stored
    /\ dpc' = IF eoi = 0 THEN "r_next" ELSE "loop"
    /\ UNCHANGED <<drives, caller, locals, device_mode, secondary, iobuf, pos, c64Vars>>

RecvByte ==
    /\ Returned("recv")
    /\ stored' = IF Len(stored) < MaxStored THEN Append(stored, byte) ELSE stored
    /\ dpc' = IF eoi = 0 THEN "r_next" ELSE "loop"
    /\ UNCHANGED <<drives, caller, locals, device_mode, secondary, iobuf, pos, c64Vars>>

(* handle_talk, and send_file, which returns at once if there is no file.  *)
Turnaround ==
    /\ At("turn")
    /\ dData' = "in"
    /\ dClock' = "low"
    /\ dpc' = "send"
    /\ UNCHANGED <<caller, locals, globals, c64Vars>>

(* Mutant: the lines are kept when the file has been sent. *)
SendDoneHeld == dpc' = "loop" /\ dData' = "in" /\ dClock' = "high"

SendDone == dpc' = "loop" /\ dData' = "in" /\ dClock' = "in"

SendFile ==
    /\ \/ At("send") /\ dpc' = "put" /\ UNCHANGED <<drives, pos>>
       \/ At("send") /\ "missing" \in faults /\ SendDone /\ UNCHANGED pos
       \/ /\ At("sent")
          /\ pos' = pos + 1
          /\ IF IsLast THEN SendDone ELSE dpc' = "put" /\ UNCHANGED drives
    /\ UNCHANGED <<caller, locals, device_mode, secondary, iobuf, stored, c64Vars>>

Device ==
    \/ GetReady \/ GetStart \/ GetEoi \/ GetClockLow \/ GetBit \/ GetBitEnd
    \/ GetTimeout
    \/ PutBegin \/ PutReady \/ PutStart \/ PutBit \/ PutBitEnd \/ PutEnd
    \/ PutTimeout
    \/ Loop \/ AtnClock \/ AtnDevice \/ AtnSecondary \/ AtnReleased
    \/ OpenNext \/ OpenByte \/ RecvNext \/ RecvByte
    \/ Turnaround \/ SendFile
-----------------------------------------------------------------------------
(* The C64 *)

(* What LOAD and SAVE make of a job: names that fit into the buffer, data  *)
(* to OPEN or to the channel of SAVE only, and a command after all data.   *)
KernalJob(j) ==
    /\ j # <<>> => j[1].kind = "command"
    /\ \A i \in DOMAIN j :
         LET b == j[i].bytes
             Then(k) == i < Len(j) /\ j[i + 1].kind = k
         IN  IF j[i].kind # "command" THEN Then("command")
             ELSE \/ /\ Len(b) = 1 /\ Mode(b[1]) \in {UNLISTEN, UNTALK}
                     /\ i = Len(j) \/ Then("command")
                  \/ /\ Len(b) = 2 /\ Mode(b[1]) = LISTEN
                     /\ \/ Mode(b[2]) = OPEN /\ Then("out") /\ Len(j[i + 1].bytes) < IobufSize
                        \/ Mode(b[2]) = DATA /\ Address(b[2]) = 1 /\ Then("out")
                        \/ Mode(b[2]) = CLOSE /\ Then("command")
                  \/ /\ Len(b) = 2 /\ Mode(b[1]) = TALK /\ Mode(b[2]) = DATA
                     /\ Then("in")
KernalJobs == \A j \in Jobs : KernalJob(j)

(* and of one file: one name, one transfer, within the bound of stored.    *)
OneFile(j) ==
    /\ \A i, k \in DOMAIN j : j[i].kind = "in" /\ j[k].kind = "in" => i = k
    /\ \A i, k \in DOMAIN j :
         /\ j[i].kind = "out" /\ j[k].kind = "out"
         /\ Mode(j[i - 1].bytes[2]) = Mode(j[k - 1].bytes[2])
         => i = k
    /\ \A i \in DOMAIN j : j[i].kind = "out" => Len(j[i].bytes) <= MaxStored
OneFileJobs == \A j \in Jobs : OneFile(j)

On(p) == cpc = p /\ C64Turn
Sees(p) == On(p) /\ C64Rank = AtOnce
Operation == job[op]

Release == cAtn' = HIGH /\ cClock' = HIGH /\ cData' = HIGH

StartJob ==
    /\ On("idle")
    /\ jobs < MaxJobs
    /\ jobs' = jobs + 1
    /\ job' \in Jobs
    /\ op' = 1
    /\ cpc' = "next"
    /\ loaded' = <<>>
    /\ result' = "busy"
    /\ UNCHANGED <<atnLines, cbit, cpos, ceoi, cbyte, resets, devVars>>

(* LISTEN, TALK and their opposites pull ATN, data do not. *)
NextOperation ==
    /\ On("next")
    /\ op <= Len(job)
    /\ cpos' = 1
    /\ ceoi' = FALSE
    /\ cData' = IF Operation.kind = "in" THEN cData ELSE HIGH
    /\ CASE Operation.kind = "command" ->
              /\ cClock' = IF Mode(Operation.bytes[1]) = UNLISTEN THEN HIGH ELSE cClock
              /\ cAtn' = LOW
              /\ cpc' = "atn"
         [] Operation.kind = "out" -> cpc' = "byte" /\ UNCHANGED <<cAtn, cClock>>
         [] Operation.kind = "in" ->
              cClock' = HIGH /\ cpc' = "r_clock" /\ UNCHANGED cAtn
    /\ UNCHANGED <<job, op, cbit, cbyte, loaded, result, jobs, resets, devVars>>

EndJob ==
    /\ On("next")
    /\ op > Len(job)
    /\ result' = "ok"
    /\ Release
    /\ cpc' = IF jobs < MaxJobs THEN "idle" ELSE "off"
    /\ UNCHANGED <<job, op, cbit, cpos, ceoi, cbyte, loaded, jobs, resets, devVars>>

GiveUp ==
    /\ result' = "error"
    /\ Release
    /\ cpc' = IF jobs < MaxJobs THEN "idle" ELSE "off"
    /\ UNCHANGED <<job, op, cbit, cpos, ceoi, cbyte, loaded, jobs, resets, devVars>>

AtnClockLow ==
    /\ On("atn")
    /\ cClock' = LOW
    /\ cpc' = "present"
    /\ UNCHANGED <<cAtn, cData, job, op, cbit, cpos, ceoi, cbyte, loaded, result, jobs, resets, devVars>>

(* Is anybody there? Then the byte, with EOI if it is the last of the data.*)
BeginByte ==
    /\ On("present") \/ On("byte")
    /\ data = LOW
    /\ cClock' = HIGH
    /\ cbit' = 0
    /\ cpc' = IF Operation.kind = "out" /\ cpos = Len(Operation.bytes)
              THEN "eoi_ready" ELSE "ready"
    /\ UNCHANGED <<cAtn, cData, job, op, cpos, ceoi, cbyte, loaded, result, jobs, resets, devVars>>

NoDevice ==
    /\ On("present") \/ On("byte")
    /\ data = HIGH
    /\ GiveUp

ByteReady ==
    /\ \/ Sees("eoi_ready") /\ cpc' = "eoi_seen" /\ UNCHANGED cClock
       \/ Sees("eoi_seen") /\ cpc' = "ready" /\ UNCHANGED cClock
       \/ Sees("ready") /\ cpc' = "bit" /\ cClock' = LOW
    /\ UNCHANGED <<cAtn, cData, job, op, cbit, cpos, ceoi, cbyte, loaded, result, jobs, resets, devVars>>

GiveBit ==
    /\ On("bit")
    /\ cData' = BitOf(Operation.bytes[cpos], cbit)
    /\ cClock' = HIGH
    /\ cpc' = "hold"
    /\ data = HIGH
    /\ UNCHANGED <<cAtn, job, op, cbit, cpos, ceoi, cbyte, loaded, result, jobs, resets, devVars>>

GiveBitEnd ==
    /\ On("hold")
    /\ cData' = HIGH
    /\ cClock' = LOW
    /\ cbit' = cbit + 1
    /\ cpc' = IF cbit + 1 < Bits THEN "bit" ELSE "taken"
    /\ UNCHANGED <<cAtn, job, op, cpos, ceoi, cbyte, loaded, result, jobs, resets, devVars>>

(* Nobody has taken the byte, or DATA is low between two bits. *)
ByteError ==
    /\ \/ On("taken") /\ C64Rank # AtOnce
       \/ On("bit") /\ data = LOW
    /\ GiveUp

Turns == /\ Operation.kind = "command"
         /\ Mode(Operation.bytes[1]) = TALK
Ends == /\ Operation.kind = "command"
        /\ Mode(Operation.bytes[1]) \in {UNLISTEN, UNTALK}

ByteTaken ==
    /\ Sees("taken")
    /\ IF cpos < Len(Operation.bytes)
       THEN /\ cpos' = cpos + 1
            /\ cpc' = "byte"
            /\ UNCHANGED op
       ELSE /\ cpc' = IF Operation.kind = "command" THEN "release" ELSE "next"
            /\ op' = IF Operation.kind = "command" THEN op ELSE op + 1
            /\ UNCHANGED cpos
    /\ UNCHANGED <<atnLines, job, cbit, ceoi, cbyte, loaded, result, jobs, resets, devVars>>

(* ATN goes up; after TALK the C64 becomes the listener. *)
AtnRelease ==
    /\ On("release")
    /\ cAtn' = HIGH
    /\ cClock' = IF Turns \/ Ends THEN HIGH ELSE cClock
    /\ cData' = IF Turns THEN LOW ELSE cData
    /\ cpc' = IF Turns THEN "turn" ELSE "next"
    /\ op' = op + 1
    /\ UNCHANGED <<job, cbit, cpos, ceoi, cbyte, loaded, result, jobs, resets, devVars>>

TurnDone ==
    /\ Sees("turn")
    /\ cpc' = "next"
    /\ UNCHANGED <<atnLines, job, op, cbit, cpos, ceoi, cbyte, loaded, result, jobs, resets, devVars>>

(* A byte from the drive: no clock within 256 us means EOI, a second time  *)
(* that there is nothing to come.                                          *)
TakeReady ==
    /\ Sees("r_clock")
    /\ cData' = HIGH
    /\ cbit' = 0
    /\ cbyte' = 0
    /\ cpc' = "r_start"
    /\ UNCHANGED <<cAtn, cClock, job, op, cpos, ceoi, loaded, result, jobs, resets, devVars>>

TakeEoi ==
    \/ /\ On("r_start") /\ C64Rank # AtOnce /\ ~ceoi
       /\ ceoi' = TRUE
       /\ cData' = LOW
       /\ cpc' = "r_pulse"
       /\ UNCHANGED <<cAtn, cClock, job, op, cbit, cpos, cbyte, loaded, result, jobs, resets, devVars>>
    \/ /\ On("r_pulse")
       /\ cData' = HIGH
       /\ cpc' = "r_start"
       /\ UNCHANGED <<cAtn, cClock, job, op, cbit, cpos, ceoi, cbyte, loaded, result, jobs, resets, devVars>>

TakeError ==
    /\ On("r_start") /\ C64Rank # AtOnce /\ ceoi
    /\ GiveUp

TakeBit ==
    \/ /\ Sees("r_start")
       /\ cpc' = "r_high"
       /\ UNCHANGED <<atnLines, job, op, cbit, cpos, ceoi, cbyte, loaded, result, jobs, resets, devVars>>
    \/ /\ Sees("r_high")
       /\ cbyte' = cbyte + data * Pow2[cbit]
       /\ cpc' = "r_fall"
       /\ UNCHANGED <<atnLines, job, op, cbit, cpos, ceoi, loaded, result, jobs, resets, devVars>>
    \/ /\ Sees("r_fall")
       /\ cbit + 1 < Bits
       /\ cbit' = cbit + 1
       /\ cpc' = "r_high"
       /\ UNCHANGED <<atnLines, job, op, cpos, ceoi, cbyte, loaded, result, jobs, resets, devVars>>

TakeByte ==
    /\ Sees("r_fall")
    /\ cbit + 1 = Bits
    /\ loaded' = Append(loaded, cbyte)
    /\ cData' = LOW
    /\ cpc' = IF ceoi THEN "r_done" ELSE "r_clock"
    /\ UNCHANGED <<cAtn, cClock, job, op, cbit, cpos, ceoi, cbyte, result, jobs, resets, devVars>>

TakeDone ==
    /\ On("r_done")
    /\ cData' = HIGH
    /\ cClock' = HIGH
    /\ cpc' = "next"
    /\ op' = op + 1
    /\ UNCHANGED <<cAtn, job, cbit, cpos, ceoi, cbyte, loaded, result, jobs, resets, devVars>>

(* RESET, or RUN/STOP with RESTORE, wherever the C64 is *)
Reset ==
    /\ "reset" \in faults
    /\ result = "busy"
    /\ resets < MaxResets
    /\ resets' = resets + 1
    /\ result' = "error"
    /\ Release
    /\ cpc' = IF jobs < MaxJobs THEN "idle" ELSE "off"
    /\ UNCHANGED <<job, op, cbit, cpos, ceoi, cbyte, loaded, jobs, devVars>>

C64 ==
    \/ StartJob \/ NextOperation \/ EndJob
    \/ AtnClockLow \/ BeginByte \/ NoDevice \/ ByteReady \/ GiveBit \/ GiveBitEnd
    \/ ByteError \/ ByteTaken \/ AtnRelease \/ TurnDone
    \/ TakeReady \/ TakeEoi \/ TakeError \/ TakeBit \/ TakeByte \/ TakeDone

(* After setup() *)
Init ==
    /\ cAtn = HIGH /\ cClock = HIGH /\ cData = HIGH
    /\ dClock = "in" /\ dData = "low"
    /\ dpc = "loop" /\ caller = "device" /\ force_eoi = FALSE
    /\ eoi = 0 /\ flag = 0 /\ bit = 0 /\ byte = 0
    /\ device_mode = 0 /\ secondary = 0 /\ iobuf = <<>>
    /\ pos = 0 /\ stored = <<>>
    /\ job = <<>> /\ op = 1 /\ cpc = "idle" /\ cbit = 0
    /\ cpos = 1 /\ ceoi = FALSE /\ cbyte = 0
    /\ loaded = <<>> /\ result = "none" /\ jobs = 0 /\ resets = 0
    /\ faults \in Faults

(* Nothing left to do for either. *)
Rest == cpc = "off" /\ dpc = "loop" /\ cAtn = HIGH /\ UNCHANGED vars

Next == (Device \/ C64 \/ Reset \/ Rest) /\ UNCHANGED faults

Spec == Init /\ [][Next]_vars

(* Neither program stops, as far as the lines and the clock let it go on.  *)
FairSpec == Spec /\ WF_vars(Device /\ UNCHANGED faults) /\ WF_vars(C64 /\ UNCHANGED faults)
-----------------------------------------------------------------------------
(* Properties *)

DevPc == DOMAIN DevWait \cup {"loop", "got", "g_pulse", "g_pulsed", "put", "p_bit", "p_hold",
                              "p_end", "sent", "o_next", "r_next", "turn", "send"}
C64Pc == DOMAIN C64Wait \cup {"idle", "next", "atn", "present", "byte", "bit", "hold",
                              "release", "r_pulse", "r_done", "off"}

(* No bit is shifted out of its byte, and send_file sends no byte that it  *)
(* does not have.                                                          *)
TypeOK ==
    /\ cAtn \in {LOW, HIGH} /\ cClock \in {LOW, HIGH} /\ cData \in {LOW, HIGH}
    /\ dClock \in {"in", "low", "high"} /\ dData \in {"in", "low", "high"}
    /\ dpc \in DevPc /\ caller \in {"device", "sec", "open", "recv"}
    /\ force_eoi \in BOOLEAN /\ eoi \in 0 .. 1 /\ flag \in 0 .. 1
    /\ bit \in 0 .. Bits /\ byte \in Byte
    /\ device_mode \in Byte /\ secondary \in Byte
    /\ iobuf \in Seq(Byte) /\ Len(iobuf) < IobufSize
    /\ pos \in 0 .. Len(File) /\ (dpc = "put" => pos < Len(File))
    /\ stored \in Seq(Byte) /\ Len(stored) <= MaxStored
    /\ job \in Jobs \cup {<<>>} /\ op \in 1 .. Len(job) + 1
    /\ cpc \in C64Pc /\ cbit \in 0 .. Bits /\ cpos \in Nat /\ ceoi \in BOOLEAN
    /\ cbyte \in Byte /\ loaded \in Seq(Byte)
    /\ result \in {"none", "busy", "ok", "error"}
    /\ jobs \in 0 .. MaxJobs /\ resets \in 0 .. MaxResets /\ faults \in Faults

(* The operations of the job that give data, each after a command that     *)
(* opens a channel or writes to it                                         *)
Data == {i \in DOMAIN job : job[i].kind = "out"}
IsName(i) == Mode(job[i - 1].bytes[2]) = OPEN

(* A LOAD gives the C64 the bytes of the file, in order. When a LOAD or    *)
(* SAVE has ended without an error, handle_open has read exactly the name  *)
(* that the C64 has sent in it, the LOAD has given all of the file, and    *)
(* the SAVE has given recv_file exactly its bytes.                         *)
Exact ==
    /\ IsPrefix(loaded, File)
    /\ result = "ok" =>
         /\ \A i \in Data : job[i].bytes = IF IsName(i) THEN iobuf ELSE stored
         /\ (\E i \in DOMAIN job : job[i].kind = "in") => loaded = File

(* Nothing fails as long as loop() polls in time, there is a file to load  *)
(* and the C64 is left alone, however tight the timing of the two.         *)
NeverFails == faults = {} => result # "error"

(* put_byte drives CLOCK high, which no device on the bus is to do; it     *)
(* never does while the C64 pulls it low, without such faults.             *)
ClockNotFought == faults = {} /\ dClock = "high" => cClock = HIGH

(* Every LOAD and SAVE ends: wait_data_inf and the waits of the C64, which *)
(* have no limit, are always answered where nothing fails.                 *)
JobsEnd == faults = {} /\ result = "busy" ~> result # "busy"

(* Wherever the C64 is reset, the timeouts of the wait loops bring the      *)
(* sketch back to loop(), unless it is in recv_file, to which a byte that   *)
(* never comes looks like one without EOI.                                  *)
BackInLoop == []<>(dpc = "loop" \/ caller = "recv")

(* "if defined, accept device 8-15, if not only 8" (c64iec.ino:13): the    *)
(* drive acts on no command for another device.                            *)
OnlyOwnDevices ==
    dpc \in {"o_atn", "l_atn", "t_atn"} => Address(device_mode) \in OwnAddresses
=============================================================================
