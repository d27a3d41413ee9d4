# c64iec in TLA+

c64iec turns an Arduino with an ENC28J60 Ethernet chip into a disk drive of a
C64. The drive speaks the serial IEC bus to the C64 and TFTP to a daemon,
`c64iecd`, that has the files. This directory holds TLA+ models of the program,
the TLC runs that check them on small instances, and proofs that TLAPS checks
for every value of the constants.

## 1. Inventory

### Parts, state and operations

| part | source | state | operations |
|---|---|---|---|
| sketch, IEC side | `c64iec.ino` 59-343, 431-561 | ATN, CLOCK and DATA lines, `device_mode`, `secondary`, `iobuf` | `get_byte`, `put_byte`, the `wait_*` loops, `handle_atn`, `handle_open` |
| sketch, file loops | `c64iec.ino` 345-469, 563-610 | `iobuf`, `at_start`, `iobuf_offset`, `unsent_data`, `a`, `eoi` | `send_file`, `recv_file`, `ethernet_probe_for_packet`, `setup`, `loop` |
| TFTP client | `tftp.cpp` | the `tftp_*` globals and the one packet buffer `tftpdata` | `tftp_get_file`, `tftp_put_file`, `tftp_get_block`, `tftp_put_block`, `tftp_recv_packet` |
| daemon | `tools/tftp.rb` | one `TFTP` object per request: `@status`, `@last_packet`, `@send_empty`; the socket | `run`, `packet`, `packet_*`, `send_*`, `wait_*` |
| devices | `tools/device.rb` | open file, D64 image | `open`, `read`, `write`, `close`, `eof?`, listings, sector chains |
| DHCP client | `EtherCard/dhcp.cpp` | `dhcpState`, `currentXid`, lease times, addresses | `dhcpSetup`, `dhcp_fsm`, `dhcpLease` |
| Stash | `EtherCard/EtherCard.cpp` | block map, two page buffers, pages in the chip's memory | `create`, `open`, `put`, `get`, `save`, `release`, `prepare`, `extract`, `cleanup` |
| Ethernet driver | `EtherCard/enc28j60.cpp` | register bank, `gNextPacketPtr`, receive ring | `initialize`, `packetSend`, `packetReceive`, `copyin`, `copyout`, `peekin` |
| IP, ARP, TCP | `EtherCard/tcpip.cpp` | `waitgwmac`, MAC addresses, `tcp_client_state` | `packetLoop`, `sendUdp`, `clientTcpReq` |
| DNS client | `EtherCard/dns.cpp` | id counter, `hisip` | `dnsLookup` |
| web helpers, command line, examples | `EtherCard/webutil.cpp`, `tools/c64iecd.rb`, `EtherCard/examples` | none | string conversions, option parsing |

### How they interact

The C64 pulls ATN and sends a command byte by byte; `handle_atn` decodes it and
calls `send_file` or `recv_file`. These poll the Ethernet chip between the
bytes (`ethernet_probe_for_packet`), which hands each frame first to
`tftp_recv_packet` and then to `packetLoop`. The file loops and the TFTP client
share the flags `tftp_request_in_progress`, `tftp_error`,
`tftp_data_available`, `tftp_end_of_data`, `tftp_clear_to_send` and the buffer
`tftpdata`. The sketch has no interrupts and no threads: everything it does
happens between two polls. The daemon is sequential too; it blocks in
`IO.select` for at most five seconds per packet. Client and daemon talk over
UDP with one fixed port at each end, so a packet does not say to which transfer
it belongs.

### What is hard

* Ordering and repetition of datagrams: neither side retransmits, the daemon
  does not compare block numbers, the client compares them with the last one
  only.
* Timeouts: the C64 sets the pace, the daemon gives up after five seconds.
* Restarts: a reset of the Arduino leaves the daemon in the middle of a
  transfer.
* Boundaries: empty files, files of full blocks, last blocks that miss the full
  size by a few bytes.
* Shared and reused memory: `tftpdata`, `iobuf`, the Stash pages.

`PROJECT.json` lists these hazards line by line, with the properties that
would show each of them going wrong.

## 2. Plan

| order | module | models | abstract specification | theorems |
|---|---|---|---|---|
| done | `TftpLink`, `TftpClient`, `TftpServer`, `TftpTransfer` | LOAD and SAVE end to end | `FileService` | `TypeCorrect`, `BytesCorrect`, `OrderCorrect`, `LoadCorrect`, `StoreCorrect`, `Refinement`, `SurvivalCorrect`, `TurnsCorrect`, `NumbersCorrect`, `SavedCorrect` |
| done | `Dhcp` | the DHCP client, its servers and the lease timers | | `TypeCorrect`, `LeaseCorrect` |
| done | `IecBus` | byte transfer on the IEC bus, command decoding | properties over jobs | `TypeCorrect`, `NeverFailsCorrect`, `ClockCorrect`, `ExactCorrect` |
| done | `C64Names` | names, PC64 files | what was saved last | `NamesCorrect`, `LoadsCorrect` |
| done | `Enc28j60` | receive ring, transmitter, banked registers, power | | `TypeCorrect`, `RxCorrect`, `RoomCorrect`, `BankCorrect` |
| done | `Stash` | the paged buffers and the prepared message, as operators | the text that was put in | lemmas on each function (`StashProofs`) |
| done | `PacketLoop` (uses `Stash`) | ARP for the gateway, TCP client, DNS | | |
| done | `WebClient` (uses `PacketLoop`) | the sketches `noipClient`, `pachube` and `stashTest` | what was put in, what was asked for | `TypeCorrect`, `StashCorrect`, `PagesCorrect`, `MessageCorrect`, `ReplyCorrect`, `LookupCorrect`, `FilledOnceCorrect` |
| done | `D64Image` (extends `C64Names`) | directory and sector chains of a disk image | the disk's layout | |
| next | `IecDrive` | `IecBus` composed with the flags of `TftpClient` instead of the delay that stands for it | `FileService` | |

Every safety property that a passing run checks is stated by a theorem; section 9 lists those
of them that have a hypothesis which the run does without.

## 3. LOAD and SAVE (`TftpTransfer`)

### Modules

* `TftpLink`: packets as records, `toServer` and `toClient` as FIFO channels,
  the loss and duplication of a datagram. Block numbers have their 16 bits.
* `TftpClient`: `tftp.cpp` and the file loops. `phase` is the program counter
  between two polls; each function of `tftp.cpp` is an operator of the same
  name, each stretch of `send_file` and `recv_file` between polls is an action.
  `tftpdata` and `iobuf` are modelled cell by cell, because the code reuses
  them: `Stale` stands for whatever a file name, header or request has left
  there. `job`, `got`, `given` and `outcome` record what the C64 asked for, has
  received, has given and has been told.
* `TftpServer`: the daemon. `status` says what it waits for; `last_packet` and
  `send_empty` are the fields of the current `TFTP` object, which `EndTransfer`
  replaces; `file` is the device's open file; `disk` and `unwritten` separate
  what is in the file system from what Ruby has buffered.
* `TftpTransfer`: the composition, the user's pace, resets, aborts, timeouts,
  the properties, and the refinement of `FileService`.
* `FileService`: what LOAD and SAVE promise without packets: a LOAD delivers
  one version of one file from its first byte on and marks the last byte, and
  only that, with EOI; a SAVE replaces the file by a growing prefix of what the
  C64 gives; either may fail and leaves what has been delivered or stored.
* `MCTftpTransfer`: the instances.

### Correspondence and abstractions

* `tftp_recv_packet` has no `return` after the branch that handles a packet.
  Whatever value the caller gets, `packetLoop` does nothing with a packet for
  port 53280 or with a reply that has overwritten the buffer, so the model
  leaves the value out.
* A packet of another protocol or port changes none of the modelled state.
* A file opened for reading is a snapshot; a SAVE of the same file during the
  LOAD unlinks it and creates another one, so this is what Unix does.
* Ruby's write buffer may reach the file at any time (`RubyWrite`).
* The socket that is closed after a transfer takes any number of the waiting
  datagrams with it (`EndTransfer`).
* C64 file names and PC64 headers are in `C64Names`, not in these modules: a
  name is looked up directly, listings are files that cannot be written.
* The files of a D64 image are read-only names here; how they are read is in `D64Image`.

### Environment

Which of these may happen is a record `env`, one of `Environments`, fixed for a
behaviour:

* `pace`: how long the user waits before the next command: not at all
  (`"any"`), until no datagram is in the network (`"quiet"`), or until the
  daemon has given up as well (`"idle"`). With `"quiet"` and `"idle"`, `setup()`
  also takes longer than any datagram: DHCP alone takes several round trips.
* `patient`: the daemon's five seconds run out only when nothing else can
  happen, that is, the C64 takes its bytes faster than that. With `FALSE` they
  may run out at any moment.
* `loss`, `dupToClient`, `dupToServer`: the network.
* `abort`, `resets`: ATN in the middle of a SAVE, resets.
* `jobs`: the SAVEs there are.

A property says in which of them it holds: `Orderly` are those in which commands
wait for the network, `LockStep` those in which they wait for the daemon too and it
is patient.

### Runs

| run | environments | checks | states |
|---|---|---|---|
| `transfers` | three: losses, one repetition to the client and an impatient daemon at pace `"quiet"`; losses, aborts and a reset at pace `"idle"`; everything at once at pace `"any"`; 2 commands | `TypeOK`, `LoadIsPrefix`, `StoredIsPrefix`, `ServerSurvives`, `OneInFlight`, `ValidNumbering`, `OnlyFileBytes`, `BlocksInOrder`, `ServiceSpec` | 1 160 000 |
| `transfer_live` | no losses, one repetition to the client, fairness | `SavedIsStored`, `LoadEnds`, `SaveEnds` | 9 900 |
| `end_of_data` | one SAVE whose last block is two bytes long (in the code: 252 to 255) | `SavedIsStored`, violated | |

Bounds: blocks of three bytes under a header of one, so that a last block may be
empty, recognised as short (one byte: 1 + 1 < 3), not recognised (two bytes) or
full, as with 256 and 4. Files have zero, two full, and two full plus one short
block: the first, a middle and the last block take different paths through
`send_file`, a third full block would repeat the second. Two commands are what it
takes for a transfer to meet the remains of another. One duplicate and one
reset, at any point, are enough to break what can be broken; losses are not
bounded. `CHECK_DEADLOCK` is off because the system rests when the
commands are used up.

Fairness (`FairSpec`): the sketch polls without end (`Poll`, `LoadStep`,
`SaveStep`, `Setup`), a C64 that saves offers its next byte, the daemon wakes up
for a datagram or after its timeout (`Serve`, `Timeout`). Nothing is assumed of
the user, of the network's losses and of Ruby's buffer.

### What the runs show, and what does not hold

The finding, `end_of_data`: a last block of 252 to 255 bytes is not recognised
(`tftp.rb:137` compares the packet with its header). The SAVE is reported as
done; the file is complete only when Ruby gets around to writing its buffer.

Outside the environments above the properties fail, and the environments are
as wide as the code allows:

* With a reset and pace `"quiet"`, `LoadIsPrefix` fails: a request that meets a
  daemon still waiting for an ACK is served with the `@send_empty` of the old
  transfer. The environment with resets therefore has `"idle"`.
* With an impatient daemon, `ServerSurvives` fails: the late ACK reaches a new
  `TFTP` object without a device. `tftp.rb` rescues nothing, so the daemon ends.
* With a datagram repeated towards the daemon, `LoadIsPrefix`, `StoredIsPrefix`
  and `ValidNumbering` fail: the daemon checks no block numbers. A repeated ACK
  alone makes it number all the following blocks wrongly (`tftp.rb:122`), although
  "the data transfer is valid TFTP traffic" (`src/README:5`).
* With commands at any pace, `StoredIsPrefix`, `SavedIsStored`, `OneInFlight` and
  `ServerSurvives` fail, and so does `LoadEnds`: an error packet, whose code
  stands where the block number does, is ignored as a repetition of block 1.
* After a SAVE broken off by ATN the request stays in progress and the next SAVE
  does not end.
* A SAVE to a read-only device does not end if the error arrives when
  `recv_file` is already waiting in the loop around `tftp_put_block`:
  `transfer_live` saves only to files that may be written.
* With losses nothing ends: nobody retransmits.

### Proofs (`TftpTransferProofs`, `TftpServiceProofs`)

`TypeCorrect`: `Spec => []TypeOK`, for every set of names and bytes, every block
and header size, every environment. It is more than the types of the variables:
no index leaves `iobuf` or `tftpdata`, `Outgoing` never reads beyond the data,
`recv_file` never overruns its buffer, and the daemon appends only to files that
exist. `TypeOK` is not inductive; `Inv` adds

* `LoopInv`: when `recv_file` takes the next byte there is one (`given` is less
  than the length of the job's data) and room for it (`a < BlkSize`);
* `FileInv`: the read position is within the file, and a file that is open for
  writing or has unwritten bytes exists.

The assumptions are those of the constants: `HdrLen \in 1..BlkSize`, `BlkSize`
positive, the saved data not empty.

`BytesCorrect`: `Spec /\ Orderly => []OnlyFileBytes`, and `OrderCorrect`:
`Spec /\ Orderly => BlocksInOrder`. No name or header reaches the C64 as data, and the blocks of
a LOAD are handed out as 1, 2, 3, ...: for files and blocks of any size, any losses
and repetitions, an impatient daemon and any number of resets and aborts. `Orderly` is the user
who gives no command while a datagram is under way (pace `"quiet"` or `"idle"`). The
argument, `OrderInv`:

* `LinkInv`: during a LOAD that has handed out block n, only requests for a LOAD and
  acknowledgements up to n travel to the daemon, and only blocks up to n + 1 travel to the
  client. The daemon answers each acknowledgement with the block after it, so a repeated or old
  datagram brings an old block; block 0 appears only after block 65535.
* `FetchInv`: whenever `send_file` looks for a block, all that was received has been handed out
  (`tftp_lastblk <= tftp_lastgot`) or `tftpdata` holds exactly the next block. This is why the
  test of `tftp_lastgot` is enough although a repeat of an old block overwrites the buffer.
* `HoldInv`: what is in `iobuf` between two blocks, or in `recv_file`, are bytes of a file; only
  at the start of a LOAD is `iobuf[0]` still the name, and then nothing has been sent. `GotInv`
  leaves room for the single byte of an empty file.
* `LinkBytes`, `DiskBytes`: payloads, disk and write buffers are made of file bytes.

At pace `"any"` the two properties are checked by TLC only, for short files: an old DATA or ACK
of a file of 65535 blocks, whose numbers wrap around, would meet the next LOAD.

`LoadCorrect`: `Spec /\ Calm => []LoadIsPrefix`, `StoreCorrect`: `Spec /\ Calm => []StoredIsPrefix`,
and `Refinement`: `Spec /\ Calm => ServiceSpec`. What the C64 gets is the file, what the disk gets
is what the C64 gave, and all of the protocol implements the service of `FileService`. `Calm` is
`Orderly` without what the section above shows to break them: nothing is repeated towards the
daemon (which compares no block numbers), and with resets the user waits for the daemon to give
up. Losses, repeats towards the client, aborts, resets and an impatient daemon remain. The
invariant `ServiceInv`:

* `TurnInv` says who has the turn: at most one datagram is under way to the daemon, and
  then only repeats of the block that the client saw last (`tftp_lastblk`) are under way to the client;
  behind a new datagram comes nothing but its repeats.
* `JobInv`: what is under way, and the client's request, belong to the command that the C64
  has given last.
* `LoadInv`: what the C64 has, what is in `iobuf` and `tftpdata`, the block under way and the
  daemon's read position add up to the file, block by block (`Delivered`, `Received`, `Fetched`,
  `SentBlocks`). `FlagInv` says what `@last_packet` and `@send_empty` are between two
  transfers, `GivenInv` what the C64 has been given after one.
* `SaveInv` is the same for SAVE: what is stored, unwritten, under way and in `iobuf` adds up to
  what the C64 has given.

`SurvivalCorrect`, `TurnsCorrect` and `NumbersCorrect` are about the exchange of packets, for
`Prompt`, which is `Calm` with a patient daemon (the late ACK of the section above would stop an
impatient one). `PromptInv` says that the daemon is in the state for which the one datagram is
meant; `OneInv`, when nothing is repeated (`env.dupToClient = 0`), that there is one only.
`NumbersCorrect` has the hypothesis `ShortFiles`: files and saved data of fewer than
`BlkMod - 1` blocks, 33 553 920 bytes, for with more of them a 16-bit number comes
twice and "block n" does not say which. `NumberInv` relates block numbers to the positions in the
files; that the files stay short (`ShortInv`) is taken from the refinement, in which nothing
but what the C64 gives is ever stored.

`SavedCorrect`: `Spec /\ Certain => []SavedIsStored`. `Certain` is `Prompt`, without losses, and
with saves whose last block the daemon recognises (`Closes`): the others are the finding `end_of_data`.
`SavedInv` follows the last block from `recv_file` to the daemon's `close`.

All hypotheses are about `env`, which is fixed in a behaviour, and the environments of
`transfers` and `transfer_live` include such ones. Without the hypotheses
the properties are false, as the section above lists, or are checked by TLC for small
instances only.

## 4. The DHCP client (`Dhcp`)

`setup()` calls `dhcpSetup`, which enters `dhcp_fsm`; that function blocks until
the client is bound or 20 seconds are over. The library expects the sketch to
call `dhcpLease` regularly, which moves BOUND to RENEW, REBIND and INIT and calls
`dhcp_fsm` again. c64iec itself never calls it ("No renew is sent, so the
lease-time needs to be long enough", `src/README:37`); the model is of the
library as its comments say it is used.

### Correspondence and abstractions

* Each branch of the loop in `dhcp_fsm` is an action (`FsmInit`, `FsmSelect`,
  `FsmBind`, `FsmRestart`, `FsmRenew`, `FsmSkip`), `dhcpLease` is one with a
  disjunct per state, `FsmReturn` leaves the loop.
* A server has one address for the client, so addresses are named by the server.
  `cur` in a message says whether its transaction id is the current one: INIT
  takes `millis()` for a new id, so that ids differ when two DISCOVERs are a
  millisecond apart.
* A REBIND is broadcast but names the server (option 54): only that one answers.
* Time has two scales. A `Tick` is minutes or more; what `dhcp_fsm` and the
  network do happens between two ticks. `now` and the timers of `dhcpLease` wrap
  around at `ClockMod` as `uint32_t` does; without `Rollover` the clock stops
  before that.
* `dhcp_fsm` may return at any time, or with `PatientClient` only when it is
  bound or nothing is under way any more.
* `Troubles` (losses, strays, NACKs, the link going down), `TroubleDuring` (in
  which states of the client) and `MaxTrouble` bound the environment.
* A message has its type and its sender; how `check_for_dhcp_answer` and
  `parse_dhcpoffer` find them among the options is left out. (The former skips an
  option with one byte less than it takes, `dhcp.cpp:310`, and so relies on the
  message type being the first.)

### Runs

| run | environment | checks | states |
|---|---|---|---|
| `dhcp_noisy` | two servers, every trouble three times, returns at any time | `TypeOK`, `LeaseHeld` | 530 000 |
| `dhcp_renew` | one server, losses and strays while a lease is renewed, fairness | `RenewAtHalf`, `KeepsLease`, `Binds` | 1 700 |
| `dhcp_rollover` | nothing but the clock | `RenewAtHalf`, violated | |

Bounds: a lease of eight ticks is the shortest in which 50% and 87.5% fall on
different ticks and on neither end. Two frames in the chip and two datagrams at
a server are one more than a transaction has under way. Three troubles are
enough to disturb both the first negotiation and a renewal.

Fairness (`FairSpec`): the loop of `dhcp_fsm` runs and returns, the sketch calls
`dhcpLease`, servers answer, time passes. Losses, strays and the link are not
fair. `CHECK_DEADLOCK` is off because without `Rollover` the clock stops.

### What the runs show, and what does not hold

`LeaseHeld`: whatever happens on the network, a client for which `dhcpValid()`
is true holds the lease of the address it has, provided that `dhcpLease` is
called in every tick. `KeepsLease`: a renewal that is lost or disturbed does not
cost the lease.

The finding, `dhcp_rollover`: `leaseStart + leaseTime / 2` wraps around before
`millis()` does, so that near the rollover a fresh lease is renewed over and over;
one lost renewal is then enough to lose it (`KeepsLease` fails with
`Rollover = TRUE`), and `LeaseHeld` fails.

Outside the environments above:

* One foreign datagram in SELECT, and `Binds` fails: it restarts the client under
  a new transaction id, the offer that follows answers the old one and restarts it
  again, and so on for every offer ("it should be reliable, if slow",
  `dhcp.cpp:366`).
* One lost datagram in the first negotiation, and the client never binds:
  `dhcp_fsm` sends nothing twice, and `dhcpLease` returns at once when there has
  been no lease (`dhcp.cpp:448`).
* `dhcpSetup` returns TRUE when the REQUEST or its ACK is lost: the offered address
  is already in `myip` (`dhcp.cpp:432`). In the model, `ok` is then TRUE in a state
  other than BOUND.

### Proofs (`DhcpProofs`)

`TypeCorrect`: `Spec => []TypeOK`, with or without `Rollover`. `TypeOK` is
inductive as it stands: it says that from the offer on the client has one
server, the same in `myip`, `dhcpip` and `serverip`.

`LeaseCorrect`: `~Rollover => (Spec => []LeaseHeld)`, for any number of servers,
any queues, any lease of at least eight ticks and any number of troubles.
`LeaseHeld` compares the client's state with the server's, with only datagrams
between them; the invariant `Inv` that carries it has five parts besides
`TypeOK`:

* `Requested`: a REQUEST of the current transaction waits at no server but the
  client's own, and at none while the client is in SELECT. This rests on INIT
  changing the transaction id.
* `Acked`: so an ACK that the client will take is from its own server, and that
  server keeps the address for a whole lease from now on: an ACK is taken in the
  tick it was sent in.
* `InRange`: no timer of `dhcpLease` leaves the range of the clock, so none wraps.
* `Kept`: what the server has left and what the client has used up make a whole
  lease together.
* `OnTime`: how late the client can be in each of BOUND, RENEW and REBIND when
  `dhcpLease` is called in every tick (`Slack` is one tick until it is). This is
  where 50%, 87.5% and 100% of the lease, as `dhcpLease` computes them with integer
  division, have to be in order, and where `LeaseTime >= 8` is needed.

`Kept` with `OnTime` gives `LeaseHeld`. The theorem rests on the abstraction of
time: nothing is under way across a tick. `RenewAtHalf`, `KeepsLease` and `Binds`
are checked by TLC only.

## 5. The serial bus (`IecBus`)

CLOCK and DATA are wired-and lines that either side pulls low, ATN belongs to
the C64. `get_byte` and `put_byte` follow the edges of a partner that does not
wait for them, so every edge is a step: `dpc` says in which of the `wait_*` loops
or between which two line changes the sketch is, `cpc` the same for the C64. The C64 is
external: it is its KERNAL as far as the sketch relies on it, doing `Jobs`
(LOADs, SAVEs and output to another device, each a sequence of commands and
bytes).

### Time

A model without time would let each side overtake the other. Here each step has
a rank: a poll loop whose condition holds goes on at once, a delay of 70 to 200 us
comes before the 256 us after which both sides take silence for EOI, that before
the millisecond the KERNAL allows for an acknowledgement, that before the 13 ms
of `TIMEOUT_COUNT`; `wait_data_inf` and most waits of the C64 have no end. A step
waits until no step of lower rank is left; steps of equal rank interleave.

Assumptions of this scale:

* DATA held low by one side and driven high by the other is low. This happens in
  each acknowledgement, when the sketch's `push_data` meets the C64's low.
* The C64 holds its acknowledgement of the last byte until `put_byte` has looked
  for it, 100 us after the clock edge: a matter of microseconds that the ranks
  cannot decide.
* What `recv_file` does on the Ethernet between two bytes is part of a delay, the
  C64 being held off by DATA; `send_file` has its file at hand.

### Runs

| run | environment | checks | states |
|---|---|---|---|
| `iec_bus` | two jobs, with `Faults` empty, or with missing files, a `loop()` that polls late and two resets of the C64 at any point | `TypeOK`, `Exact`, `NeverFails`, `ClockNotFought`, `JobsEnd`, `BackInLoop` | 47 800 |
| `iec_other_device` | a SAVE, then data for a printer that is off | `OnlyOwnDevices`, violated | |

`NeverFails`, `ClockNotFought` and `JobsEnd` speak of the behaviours without faults,
`Exact` and `BackInLoop` of all. `Exact` compares, at the end of a job, the bytes of
a LOAD, of a SAVE and of a name on both sides. `KernalAssumption` has TLC evaluate the
hypotheses of the theorems below on the jobs of both runs.

Bounds: bytes of three bits, of which two are the mode of a command, instead of
eight and four: the first, a middle and the last bit. Names of one and two
bytes, files of three bytes: first, middle and last byte with EOI. Two jobs are
what it takes for one to meet what an earlier one has left. `MaxStored` bounds
what is remembered of a SAVE, because a reset in it leaves `recv_file` storing
bytes that nobody sends.

Fairness: neither program stops (`WF(Device)`, `WF(C64)`); which of them is next
is up to the ranks. Resets are not fair.

### What the runs show, and what does not hold

Every LOAD and SAVE that ends without an error has moved exactly its bytes and
its name, wherever an earlier one was broken off; undisturbed jobs always
end, without fighting for CLOCK. The finding: the test of the device number is
`device & (15 < 8)` in C and never rejects a command (`iec_other_device`).

* After a reset the first command may leave the sketch in `loop()` with DATA low
  and the C64 waiting without limit: the deadlock for which
  the run says `CHECK_DEADLOCK FALSE`. On the real bus the user resets again. Without
  faults `JobsEnd` excludes it.
* A reset in a SAVE leaves `recv_file` in its loop, as `get_byte`'s timeouts look
  like bytes without EOI, until the next ATN. `BackInLoop` allows for that.

### Proofs (`IecBusProofs`)

`TypeCorrect`: `Spec => []TypeOK`, for bytes of any number of bits, any file, any buffer of two bytes or
more and any jobs, with any faults. What it says of the sketch is that no bit is shifted out
of its byte, that `handle_open` stays in `iobuf` and that `send_file` asks for no byte
behind the end of the file; the C64 may do what it likes, at any moment. The invariant is `DevInv`
with `ByteInv` (with n bits received a byte is less than 2^n) and `BufferInv` (whenever
`handle_open` waits for a byte there is room for it, whenever `put_byte` runs there is a byte), and
`C64Inv`, the same for the C64, which keeps the job's own operation. `Pow2` is a recursive function; what
it is worth (`Pow2Is`) and that it is positive and grows follows by the least number
principle, as in `Enc28j60Proofs`.

`NeverFailsCorrect` and `ClockCorrect`: `Spec => []NeverFails` and `Spec => []ClockNotFought`, under the
hypothesis `KernalJobs`: each job has the form of what LOAD and SAVE do (`KernalJob`: a command first, and after
all data; names that fit into `iobuf`; data only after OPEN and for the channel of SAVE). Jobs, bytes,
names and the file may have any size. Both properties speak of behaviours without faults.
Without the hypothesis they are false: data on a channel that the sketch does
not write to (`handle_listen` returns at once) meet nobody.

Their invariant, `Lock`, says which points of the sketch go with each point of the C64:

* `DevLines`, `DevFlags` and `C64Lines`: what each side drives at each of its points, and what `get_byte`
  and `put_byte` know of EOI;
* `CommandPlace`, `OutPlace`, `InPlace` and `NextPlace`: where the sketch can be while the C64 gives a command, gives
  or takes data or is between two operations (`Behind`: on its way back to `loop()`; `Listens`: about to
  take data; `Second`, `Released`: in the middle and at the end of a command);
* `InStep`: in a byte, both are at the same bit, of which the sketch has the value so far.

It is needed because nothing in the code acknowledges a bit: that each edge is seen follows only from
where the other side can be, and from the ranks of section "Time" (`DevRankIs`, `C64RankIs`).
Each action has a lemma (`GetBitLock`, ...); `GetTimeoutNot`, `PutTimeoutNot` and
`NoError` show that no wait times out.

`ExactCorrect`: `Spec => [](faults = {} => Exact)`, under `KernalJobs` and `OneFileJobs` (a job has one name and
one file, which fits into what `stored` remembers). The invariant `History` says where the bytes
are that have been given so far: `Channel` (the sketch puts data where the last command said),
`SoFar` (what has been given is in `iobuf` or `stored`, or is the byte that `get_byte` returns), `Complete` (after
the last byte all of it is, and nothing later touches it), `Taken` (the same for `put_byte` and
`loaded`) and `Finished`. That `Exact` holds after faults as well, for the jobs that end
nevertheless, is left to TLC.

## 6. Names and disk images (`C64Names`, `D64Image`)

### Directories

A name typed on the C64 becomes a TFTP file name (`tftp_filename`, in the code
`create_tftp_filename`), a C64 name (`decode`), and, in `local_name`, the part
before `.pNN` of a file whose header has the C64 name again. The `%xx` of an odd character is
modelled by the places it takes: `strlen` counts three for each of them, and two for the device and
its slash, and `Fits` is the test of `tftp_build_request`, 20 characters at most (`tftp.cpp:29`).
(`decode` reads each `%xx` back; a `%` in the name is odd itself, so none is taken for another.)
`Save`, of a name that fits, is `open_write` with all it calls: `find_local`, the unlinking,
`local_encode` and `create_local`. `Refuse` is SAVE of one that does not: `tftp_send_wrq` sends
nothing, `recv_file` gives up, and the daemon hears nothing of it. `Loads` is what `open_read` finds, if it
is asked. Files of other programs are there from the beginning (`Given`), the user may
delete files and start the daemon again.

`saved` is indexed by the names as they have been typed, and numbers every SAVE that was sent or
refused. Which of them concern the same file is said in `Means` by what the user has typed, all of
it, without padding and without the `@0:`; the cut to 16 characters and the 20 characters of the
request are the code's and have no part in it.

### Disk images

`D64Image` adds the other device. `layout` is what is on the disk: the entries of the
directory in any order, for each file its blocks, anywhere, and its bytes. `Disk` makes blocks of
it, as a 1541 does (external), and `ImageOf` lays them one behind the other, which is what
`block` has to undo. Opening is a step per block: `collect_directory_entries` goes
through the directory, `EndOfEntries` is the rest of `open` and `find_file`, `read_data`
follows the file. `altered` links lead anywhere, also outside the image, where
`read_block` gives nothing and the exception ends the daemon (`Crash`). A scratched file
keeps its entry, and its blocks may belong to another file.

The blocks of a file and of a listing are compared with `layout`, not with what another
reading of the image would give. The image itself is read once and kept (`read_disk`);
`d64` never changes.

### Run

| run | instance | checks | states |
|---|---|---|---|
| `devices` | a directory: five ways to type three names that all become `a`, one of 12 characters with and without `@0:`, two of more than 16, two counters, foreign files, five SAVEs; or a disk image: three tracks, a directory of two blocks, four free blocks in every arrangement, 28 wrong links | `UniqueNames`, `LoadsLastSaved`, `DiskLoads` | 137 600 |

Bounds: the lengths are those of the code, 16 and 20; the names lie on both sides of each. Two
counters and three names of one local name reach the limit of `local_encode`, which the code
has at 100: the daemon then ends, and nothing is lost. Tracks of 2, 3 and
2 sectors tell apart the offsets that `block` adds up, below, in and above the directory's
track; one more entry in `SECTORS` is a track the image does not have. Blocks of two
bytes end full or half full, files have one to three blocks, the directory two of two
entries. `Bounded` cuts what is read in a cycle, which grows without end in the code.

Fairness: a daemon that has begun to open a file goes on (`tftp.rb` calls `open` in
`packet_rrq` and does nothing else meanwhile). `CHECK_DEADLOCK` is off because the
SAVEs are used up.

### What the run shows, and what does not hold

LOAD from a directory gets what was saved last under the name, also by an overwrite with `@0:`, and
a SAVE that is refused or finds no counter does not cost the old file; from an image LOAD gets
the whole file or the listing; a wrong link that leads into no cycle gets an answer, or
ends the daemon.

`src/README:10-11` says that overwriting with the `@0:` prefix "is not handled correctly". That is
half right. The daemon does handle it: `decode` drops the prefix and `open_write` removes the old file,
and `LoadsLastSaved` and its theorem include it, for names of up to 11 plain characters (the run
types `@0:A`). Longer ones are not overwritten:

* `tftp_filename` has room for any name of 16 characters, "Odd characters are coded as %xx, hence the
  *3" (`c64iec.ino:53-55`), but `tftp_build_request` takes 20 characters with the device. `@0:`
  becomes `%400%3a`, with `8/` nine of them. SAVE of `@0:` and 12 or 13 characters sends nothing, the
  C64 is not told, and a LOAD of the name gets nothing, or the old file. The same goes for a name of 8
  characters of which six are odd. `LoadsLastSaved` fails in `devices` if refused SAVEs count
  (without `Fits(m)`); as stated, it says that they leave the directory as it was.
* The sketch cuts a name to 16 characters with the `@0:` still in it. A request of so many
  is refused anyway, except where blanks at the cut are dropped: `@0:A`, twelve spaces and `B` is
  sent as `@0:A` and replaces A. In the same way any name of more than 16 characters may turn
  into another one. `LoadsLastSaved` is stated for a name that none has been cut into (`Uncut`);
  without this it fails in `devices`.
* A cycle of links keeps the daemon in `read_data` or `collect_directory_entries` for
  ever (`device.rb:309`, `:367`): `DiskLoads` fails without `Acyclic`.
* Nothing rescues the exception of a link that leads outside of the image.
* A name of odd characters only is saved as `.p00`, which Ruby takes for a name without
  extension (`device.rb:66`); it is never found again, and `LoadsLastSaved` leaves such
  names out. A name that begins with `$` is saved and loads the listing.
* In a directory only `.p00` files are listed, so the second file of a local name can be loaded
  and is not listed. With two files of one name, put there by another program, SAVE
  replaces either and LOAD takes either (`Given` has no such directory).
* An image that is replaced while the daemon runs is not noticed.

### Proofs (`DeviceProofs`)

`NamesCorrect` and `LoadsCorrect`: `DevicesSpec => []UniqueNames` and
`DevicesSpec => []LoadsLastSaved`, for any names, any limits of their length, any number of counters
and of SAVEs, and any directories to start with. `UniqueNames` alone is preserved, by `CreateDistinct`: SAVE has
removed the one file of the name (`OneLocal`), and takes a free counter. `LoadsLastSaved` is
not: when no counter is free, the file that SAVE has removed must not be one that the C64
has saved. `Stored` says that such a file (`Holds`) has the local name that `local_encode`
gives its C64 name, so that with it gone its own counter is free; it is about the last SAVE that
was sent of each name the daemon sees (`LastSent`). That two names which mean the same file reach the
daemon as the same one, and others do not, is `WholeName`, for names that are not cut; `RefuseInv`
has the SAVEs that are not sent.

Besides the ranges of the constants there are two assumptions, which TLC evaluates in
`devices`. `GivenAssumption`: the directory has no two files of one name to begin
with. `HeaderAssumption`: a name from the sketch has no blanks at its end, so that padding a header
and trimming it again gives the name back. `create_tftp_filename` sees to that by filtering and
trimming, which is an induction over the name and so not provable here.

`DiskLoads` is a liveness property and is checked by TLC only.

## 7. The Ethernet driver (`Enc28j60`)

### Correspondence and abstractions

The module has the part of the chip that the driver relies on and the driver
itself. Frames come in at any moment (`Arrive`), as long as the receiver is on and
there is room; a transmission ends at any moment, and may stall (`Transmit`). The
chip is external, `enc28j60.cpp` is not: each of its functions is an action, except that
the loops waiting for the transmitter are steps of their own.

* The ring: `ERXWRPT` and `ERXRDPT` are the chip's pointers, `gNextPacketPtr` the
  driver's. `unread` holds the frames that have not been read, with the address of
  each; `torn` says that the chip has meanwhile written over one. When
  `gNextPacketPtr` is not where a frame begins, the driver reads any header.
* The banks: `Accesses` goes through the registers that a function touches, in the
  order of the code, `Via` with `SetBank` and `Op` without. `stray` remembers an access in
  the wrong bank. What is written to registers that are not pointers is left out.
* The transmitter: `TXRTS`, `TXERIF` and what is in its buffer.
* `copyout`, `copyin` and `peekin` only touch registers here; what they move is in
  `Stash`.

### Runs

| run | instance | checks | states |
|---|---|---|---|
| `ethernet` | a ring of 16 bytes, frames that take 4, 6 or 8 of them, good and bad; sending, sleeping, the self test and resets at any time | `TypeOK`, `RxIntact`, `RoomWhenEmpty`, `BankRight`, `SendEnds` | 34 200 |
| `rx_start` | the same, and a frame may end with the last byte of the ring | `RxIntact`, violated | |

Bounds: a ring of 16 bytes takes two of the largest frames, as the real one ("room for
2 packets", `enc28j60.cpp:235`), or three or four small ones, and a frame
may begin at every even address. The header has two bytes instead of six. Two frames are
sent, so that one can be told from the one before.

Fairness: the driver goes on (`SendWait`, `SendNow`), and a transmission ends or sets
`TXERIF`; once that flag is set nothing is assumed of the transmitter any more.
`CHECK_DEADLOCK` is off because `powerDown` waits without limit for a stalled
transmitter.

### What the runs show, and what does not hold

As long as no frame ends exactly with the ring, no frame is overwritten, the driver
finds the next one where it is, and no room is lost, bad frames and late readers
included; every register is accessed in its bank, after soft resets too; and
`packetSend` returns whatever the transmitter does.

The finding, `rx_start`: `gNextPacketPtr - 1` is computed in an `int`; for a frame at
address 0 it is -1, which is not above `RXSTOP_INIT`, and `ERXRDPT` is set to 0x1FFF,
outside of the ring.

Not in any property, and worth knowing:

* `TXERIF` is set once and never cleared: from then on the wait of `packetSend`
  (`enc28j60.cpp:432`) resets the transmitter while a frame is still going out, also
  when that one is fine.
* `!readOp(..) & ESTAT_CLKRDY` in `initialize` and `powerUp` is `(!readOp(..)) & 1`, not
  `!(readOp(..) & 1)`. In the model the clock is ready.

### Proofs (`Enc28j60Proofs`)

`RxCorrect`: `~EndsAtTop => (Spec => []RxIntact)`, and `RoomCorrect`: under the same
hypothesis, and when no frame takes more than the ring less two bytes,
`Spec => []RoomWhenEmpty`; both for every even size of the ring and any sizes of frames.
The invariant `Inv` says, while the receiver is on,

* `Pointers`: `gNextPacketPtr` and `ERXWRPT` are even addresses in the ring, and
  `ERXRDPT` is one behind the former;
* `Places`: measured upwards from `gNextPacketPtr`, each unread frame ends
  where its size says, and not behind `ERXWRPT`; none begins at 0;
* `Chained`: the first begins at `gNextPacketPtr`, each of the others where the one
  before ends, the last ends at `ERXWRPT`.

Distances (`Ahead`) rather than addresses make the wrap of the ring disappear from the
argument: a frame that arrives fits into what `Free` leaves (`FreeRoom`), so its cells
are farther from `gNextPacketPtr` than those of the others (`Disjoint`), and reading
one shortens all distances by the same amount (`Rebase`). That `ERXRDPT` is even plus
one costs at most two bytes, which is `RoomCorrect`.

`TypeCorrect`: `~EndsAtTop => (Spec => []TypeOK)`, from `Inv` and from `Sane`, which keeps the
pointers in the ring while the receiver is off.

`BankCorrect`: `Spec => []BankRight`, without a hypothesis. A script is `Sound` if each access
selects its bank, is one of a register of every bank, or follows one of the same bank; `Join`
puts sound scripts together, and each of the driver's is shown to be sound. A sound script
that begins with the note right leaves it right (`RunSettles`); after a soft reset, which
selects bank 0 behind the driver's back, the first access through `SetBank` has to be one of bank 0
(`Starts`, `RunAfterReset`), as in `initialize` and `doBIST`. What a script does is computed along
a sequence; the induction is by the least number principle (`Least`), which is a
consequence of `WFMin` in the library and needs no operator as a parameter.

## 8. Stash and the web client (`Stash`, `PacketLoop`, `WebClient`)

### Modules

* `Stash`: `Stash` of `EtherCard.cpp` as operators from a memory to a memory, which
  has the map of free pages, the two page buffers in RAM and the pages in the chip.
  A stash is a list of pages, linked through the last byte of each; the first has a
  header, in the last the byte before the link is the fill. `prepare`, `extract` and `cleanup`
  work on page 0, which has a format and its arguments. They are
  functions without state of their own; the states are in `WebClient`.
* `PacketLoop`: `packetLoop` for a client (the gateway's ARP, `client_syn`, the TCP
  states, the callbacks `tcp_datafill_cb` and `tcp_result_cb`, `tcpSend`,
  `tcpReply`) and `dnsLookup`. The network may lose whatever is sent, and delivers
  replies in any order, repeatedly and late: what may arrive (`Deliverable`) depends
  only on what servers have ever received.
* `WebClient`: three sketches that use them. `noipClient` looks up names, asks for
  the public address, and updates it, with timeouts and a limit of attempts;
  `pachube` posts a stash every ten seconds; `stashTest` uses two stashes in any order
  that its calls allow.

Contents are numbers; `request` and `conn[port].got` carry, besides the text, the number
of the request, so that a reply can be told from the reply to another one. A word takes
one cell of a page. Headers, checksums and sequence numbers are left out; `extract`'s
text is what goes into the one data segment.

### Run

| run | instance | checks | states |
|---|---|---|---|
| `web_client` | the three sketches, two requests or messages each, up to three connections | `TypeOK`, `StashExact`, `PagesAccounted`, `MessageExact`, `FilledOnce`, `ReplyIsOwn`, `LookupOwn`, `Settles`, `GatewayFound` | 170 600 |

Bounds: pages of six cells hold two bytes in the first page of a stash and five in the
others; writes of one and seven bytes end within a page, at its end, on the
next and on the one after. Five pages, of which two stashes of two or three use all.
`DelayMod` is 2, so that ARP requests are sent and skipped; `MaxSyns` is one more
than the requests, for a connection that is refused and tried again; two attempts are
the least for which one is not the last.

Fairness (`FairSpec`): the program runs and its timers go off; of the ARP requests sent again
and again one is received, and of the replies to it one arrives. Nothing is assumed
of TCP and DNS. `CHECK_DEADLOCK` is off because the operations on stashes are used up.

### What the run shows, and what does not hold

A stash gives back what was put in, `size` agrees with it, and pages are neither lost nor shared
(`StashExact`, `PagesAccounted`). A message reaches its server whole, is taken for
sending once and its pages are freed once, although it is put together only when the
SYN/ACK comes (`MessageExact`, `FilledOnce`). A sketch takes no reply or look-up for
another one's (`ReplyIsOwn`, `LookupOwn`). `noipClient` returns to `IDLE` whatever is lost
(`Settles`).

The limits of these statements, which are those of the code:

* While two stashes are written alternately, `size()` of one that has not been saved
  may be wrong: `load(0, ..)` leaves an older copy of the page in `bufs[1]`
  (`EtherCard.cpp:45-59`). `StashExact` asks it of saved stashes, or of a single one.
* `release()` follows the links in the chip: when the last page of the stash is only in
  `bufs[0]` it reads an older link. `Release` requires that page to be written back.
* `pachube` does not release the stash of a message whose SYN/ACK never came. After
  enough of them `allocBlock` returns page 0, the one of `prepare()`; the model notes
  it (`mem.short`) and goes no further.
* A FIN, RST or data segment of an older connection, in states 1 and 3, moves the client to
  state 5, and the new request is never sent or its reply is ignored; a late
  SYN/ACK of an older connection is sent the new message. Only the sender's address is
  compared (`tcpip.cpp`). `noipClient` recovers by its timeout, `pachube` loses the message.
* Nothing is sent twice within a request, and of a reply only the first
  segment is taken.
* `tcp_fd` counts modulo 8, and `result_fd` is not reset by `tcpSend`: an uncollected
  reply would answer the request eight later. `MaxSyns` ends before that.
* In `checkNoIPResponse` of `noipClient`, `done` is uninitialised (`noipClient.ino:222`) when it
  is tested after other answers (line 244); the model takes either value.
* A DNS query is sent once per look-up; `setup()` of `c64iec.ino` asks once for the
  server's MAC address and waits without limit.
* The wrap of `millis()` is left out of the timers here.

### Proofs (`StashProofs`, `WebClientProofs`)

Seven theorems, one for each safety property of the run, for pages of any size from six cells on,
two to 255 of them, any texts, any number of attempts, and whatever the network does:

* `FilledOnceCorrect`, `TypeCorrect`, `PagesCorrect`, `StashCorrect` and `MessageCorrect` without a
  hypothesis;
* `ReplyCorrect`: `Spec => [](request.n < 8 => ReplyIsOwn)`, and `LookupCorrect`:
  `Spec => [](checks <= 253 => LookupOwn)`. `tcp_fd` has three bits and `dnstid_l` eight; after that a
  late answer to an old request or query has the number of a new one.

What is assumed of the constants is what the code gives: `PageAssumption` (block numbers are bytes,
and 255 stands for no block), `SketchAssumption` (no text has a byte 0, which `get()` returns at the
end), and `FormatAssumption` (each directive of a format has an argument, of its kind, as in the
calls of the three sketches).

`StashProofs` is about the functions of `Stash`, without states. `Page(m, p)` is what page p
holds, be it in `bufs[0]` or in the chip, and `Fresh(m, p)` says that `bufs[1]` has no older copy of it.
`Written(m, ch, text)` says that the pages `ch` are linked in this order and hold the text;
`Saved` adds the header, and that there are no older copies. Around these go the lemmas:

* `load` changes no page, only where it is (`LoadWrite`, `LoadRead`); this is what the test for
  `bufs[0]` in `load(1, ..)`, and the write-back in `load(0, ..)`, are for;
* `put` lengthens the text by its byte, on the same page or with a new one (`PutGrows`), and so `print`
  (`PrintGrows`), unless pages run out; `save` writes the header (`SaveStash`);
* `get` returns the next byte of the text, also over a page's end, and 0 at its end (`GetNext`);
  `size` is the length (`SizeIs`), `Chain`, which `release` follows, the pages (`ChainIs`);
* `prepare` describes the message in page 0 and adds its length up (`PrepareIs`), `extract`
  gives any part of it (`ExtractIs`) and `cleanup` frees the stash (`CleanupIs`).

The loops of the code are recursive functions, and what they compute is shown by the least
number principle: among the steps at which the claim fails there would be a least one. For `extract`,
`Running` says how far a step is in the format and in the argument, and each step raises `Work`, so that
there are as many steps as the loop needs.

`WebClientProofs` has four invariants, each inductive with those before it:

* `ControlInv`: types, the states of `noipClient` during a look-up (`Flow`), and that a message is
  still to be taken in states 1 and 2 of the client (`Filling`). `Loop` reduces a pass of
  `packetLoop` to five cases.
* `LookupInv`: every query that a DNS server has received has an id up to the present one, and the
  present one is for the present name (`Query`); `Numbered` bounds the ids by the number of checks.
* `MemInv`: a page is free or belongs to one stash (`Owned`); in states 1 and 2 page 0 describes the text
  of `request`, over the pages that `held[1]` has (`Sending`, `Ready`); each stash of `stashTest`
  is written, saved or prepared as its phase says, and read as far as `taken` says (`Testing`,
  `One`). `Known` is the part of it that makes `size()` right for a stash that has not been saved.
  An operation on one stash spares the pages of the other (`Spares`). `Clear`: when no
  page is free the buffers are not both page 0; else `create`, which is then given page 0, would
  take the header of its stash from the old copy in `bufs[1]`.
* `MessageInv` and `ReplyInv`: what a server has received is the message of the last request or one
  with a smaller number, and the same of the session in a port; when `noipClient` waits, `result_fd` is
  not its session's before `packetLoop` has run, so a reply is looked at in the pass that it arrived in.

A memory that has run out of pages (`mem.short`) is where the model ends, and the theorems say
nothing of it, like the properties. `Settles` and `GatewayFound` are liveness and stay with TLC.

## 9. Not modelled, and why

* Liveness is checked by TLC only: it depends on fairness, which is out of the
  prover's reach (`LoadEnds`, `SaveEnds`, `DiskLoads`, `RenewAtHalf`, `KeepsLease`, `Binds`,
  `JobsEnd`, `BackInLoop`, `SendEnds`, `Settles`, `GatewayFound`). So are the safety properties of
  LOAD and SAVE outside of the hypotheses named in section 3, `LeaseHeld` with a clock that wraps
  around, what `NeverFails`, `ClockNotFought` and `Exact` say of the serial bus after a fault, and
  `ReplyIsOwn` and `LookupOwn` once their counters have begun again.
* Microseconds of the IEC bus within a rank; checksums and header layout, which no
  property tells apart; `webutil.cpp` and the command line, which keep no state.
* Of EtherCard: the answers to ping and ARP requests and the web-server side, which
  answer a frame from the frame alone; NTP, wake on LAN, `browseUrl` and `httpPost`,
  which the modelled sketches and the drive do not use; `BufferFiller`. The example
  sketches other than the three above print what one call returns.
* Of the listings, the bytes: wording, padding and link addresses, which no property tells
  apart. Which programs an image's listing has, and how many free blocks, is in `D64Image`.
* `IecBus` and `TftpClient` are not composed: each stands for the other by a delay and
  by a flag (section 2).
