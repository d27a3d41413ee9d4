-------------------------------- MODULE Dhcp --------------------------------
(***************************************************************************)
(* EtherCard's DHCP client (src/EtherCard/dhcp.cpp) among DHCP servers and *)
(* other hosts: dhcpSetup and dhcp_fsm, which blocks for up to 20 seconds, *)
(* and dhcpLease, which a sketch is to call regularly.                     *)
(*                                                                         *)
(* Time has two scales. A tick is a fraction of a lease, many minutes;     *)
(* what dhcp_fsm and the network do happens within a tick.                 *)
(***************************************************************************)
EXTENDS Integers, Sequences, FiniteSets

CONSTANTS
    Server,         \* DHCP servers; each has one address for this client
    NoAddr,         \* 0.0.0.0
    LeaseTime,      \* ticks that a lease lasts, with every server
    ClockMod,       \* millis() wraps around here
    RxCap,          \* frames that the ENC28J60 holds
    QueueCap,       \* datagrams that a server holds
    Rollover,       \* does the clock wrap around
    PatientClient,  \* do the 20 seconds last until nothing is under way
    Troubles,       \* what may go wrong around the client
    TroubleDuring,  \* states of the client in which it does
    MaxTrouble      \* bound: how often

ASSUME NoAddrAssumption == NoAddr \notin Server
ASSUME LeaseTimeAssumption == LeaseTime \in Nat /\ LeaseTime >= 8
ASSUME ClockModAssumption == ClockMod \in Nat /\ ClockMod > LeaseTime + 2
ASSUME CapAssumption == RxCap \in Nat \ {0} /\ QueueCap \in Nat \ {0}
ASSUME TroubleAssumption ==
    Troubles \subseteq {"loss", "nack", "stray", "link"} /\ MaxTrouble \in Nat

VARIABLES
    dhcpState,
    myip, dhcpip, serverip,     \* named by the server they come from
    leaseStart,                 \* 0 is "invalid"
    phase,                      \* in dhcp_fsm, or back in the sketch
    ok,                         \* what dhcpSetup or dhcpLease returned last
    polled,                     \* dhcpLease has been called in this tick
    age,                        \* ticks since the last ACK was taken
    now,                        \* millis()
    link,                       \* isLinkUp()
    inbox,                      \* frames in the ENC28J60
    pending,                    \* datagrams waiting at each server
    left,                       \* ticks for which a server keeps our address
    trouble                     \* how often something has gone wrong

clientVars == <<dhcpState, myip, dhcpip, serverip, leaseStart>>
callVars == <<phase, ok, polled>>
clockVars == <<age, now>>
netVars == <<link, trouble>>
vars == <<clientVars, callVars, clockVars, netVars, inbox, pending, left>>

State == {"INIT", "SELECT", "REQUEST", "BOUND", "RENEW", "REBIND"}

(* cur: the xid is the one in currentXid, which changes with each DISCOVER.*)
(* "udp" and "arp" stand for all other frames, with and without UDP.       *)
Frame == [type : {"OFFER", "ACK", "NACK"}, from : Server, cur : BOOLEAN]
           \cup [type : {"udp", "arp"}]
Query == [type : {"DISCOVER", "REQUEST"}, cur : BOOLEAN]

dhcpValid == dhcpState \in {"BOUND", "RENEW", "REBIND"}

(* From the offer on there is a server to talk to, and its address. *)
TypeOK ==
    /\ dhcpState \in State
    /\ myip \in Server \cup {NoAddr}
    /\ dhcpip \in Server \cup {NoAddr}
    /\ serverip \in Server \cup {NoAddr}
    /\ dhcpState = "REQUEST" \/ dhcpValid =>
         dhcpip # NoAddr /\ myip = dhcpip /\ serverip = dhcpip
    /\ leaseStart \in 0 .. ClockMod - 1
    /\ phase \in {"fsm", "idle"}
    /\ ok \in BOOLEAN
    /\ polled \in BOOLEAN
    /\ age \in 0 .. LeaseTime + 2
    /\ now \in 0 .. ClockMod - 1
    /\ link \in BOOLEAN
    /\ inbox \in Seq(Frame) /\ Len(inbox) <= RxCap
    /\ pending \in [Server -> Seq(Query)]
    /\ \A s \in Server : Len(pending[s]) <= QueueCap
    /\ left \in [Server -> 0 .. LeaseTime + 1]
    /\ trouble \in 0 .. MaxTrouble

(* setup() calls dhcpSetup, which enters dhcp_fsm in state INIT. *)
Init ==
    /\ dhcpState = "INIT"
    /\ myip = NoAddr
    /\ dhcpip = NoAddr
    /\ serverip = NoAddr
    /\ leaseStart = 0
    /\ phase = "fsm"
    /\ ok = FALSE
    /\ polled = TRUE
    /\ age = 0
    /\ now = 1
    /\ link = TRUE
    /\ inbox = <<>>
    /\ pending = [s \in Server |-> <<>>]
    /\ left = [s \in Server |-> 0]
    /\ trouble = 0
-----------------------------------------------------------------------------
(* The network *)

Enqueue(q, m, cap) == IF Len(q) < cap THEN Append(q, m) ELSE q
Outdated(q) == [i \in DOMAIN q |->
                  IF "cur" \in DOMAIN q[i] THEN [q[i] EXCEPT !.cur = FALSE] ELSE q[i]]

(* dhcp_send of a REQUEST: nothing if the link is down. It names the server*)
(* it is for (option 54), whether it is broadcast or not.                  *)
SendRequest(s) ==
    pending' = [t \in Server |->
                  IF t = s /\ link
                  THEN Enqueue(pending[t], [type |-> "REQUEST", cur |-> TRUE], QueueCap)
                  ELSE pending[t]]

Settled == inbox = <<>> /\ \A s \in Server : pending[s] = <<>>
-----------------------------------------------------------------------------
(* dhcp_fsm: one iteration of its loop *)

Running == phase = "fsm" /\ dhcpState # "BOUND" /\ link

(* Mutant: the DISCOVER goes out under the old xid. *)
InitSameXid ==
    /\ Running
    /\ dhcpState = "INIT"
    /\ myip' = NoAddr
    /\ dhcpip' = NoAddr
    /\ pending' = [s \in Server |->
                     Enqueue(pending[s], [type |-> "DISCOVER", cur |-> TRUE], QueueCap)]
    /\ dhcpState' = "SELECT"
    /\ leaseStart' = 0
    /\ UNCHANGED <<serverip, callVars, clockVars, netVars, inbox, left>>

(* A new transaction: whatever is under way belongs to an older one. *)
FsmInit ==
    /\ Running
    /\ dhcpState = "INIT"
    /\ myip' = NoAddr
    /\ dhcpip' = NoAddr
    /\ inbox' = Outdated(inbox)
    /\ pending' = [s \in Server |->
                     Enqueue(Outdated(pending[s]), [type |-> "DISCOVER", cur |-> TRUE],
                             QueueCap)]
    /\ dhcpState' = "SELECT"
    /\ leaseStart' = 0
    /\ UNCHANGED <<serverip, callVars, clockVars, netVars, left>>

(* Every other state takes a frame first. *)
Receive ==
    /\ Running
    /\ dhcpState # "INIT"
    /\ inbox # <<>>
    /\ inbox' = Tail(inbox)
    /\ UNCHANGED <<callVars, now, netVars, left>>

(* packetLoop deals with it, or it is not UDP. *)
FsmSkip ==
    /\ Receive
    /\ Head(inbox).type = "arp"
    /\ UNCHANGED <<clientVars, age, pending>>

(* check_for_dhcp_answer: a message of that type in the current transaction*)
Answer(type) == Head(inbox).type = type /\ Head(inbox).cur

(* Mutant: parse_dhcpoffer does not store the server's identifier. *)
SelectNoServerId ==
    /\ Receive
    /\ dhcpState = "SELECT"
    /\ Answer("OFFER")
    /\ myip' = Head(inbox).from
    /\ serverip' = Head(inbox).from
    /\ SendRequest(Head(inbox).from)
    /\ dhcpState' = "REQUEST"
    /\ UNCHANGED <<dhcpip, leaseStart, age>>

(* Mutant: the state does not move on. *)
SelectNoMove ==
    /\ Receive
    /\ dhcpState = "SELECT"
    /\ Answer("OFFER")
    /\ myip' = Head(inbox).from
    /\ serverip' = Head(inbox).from
    /\ dhcpip' = Head(inbox).from
    /\ SendRequest(Head(inbox).from)
    /\ UNCHANGED <<dhcpState, leaseStart, age>>

(* The offer is parsed and its address requested. *)
FsmSelect ==
    /\ Receive
    /\ dhcpState = "SELECT"
    /\ Answer("OFFER")
    /\ myip' = Head(inbox).from
    /\ serverip' = Head(inbox).from
    /\ dhcpip' = Head(inbox).from
    /\ SendRequest(Head(inbox).from)
    /\ dhcpState' = "REQUEST"
    /\ UNCHANGED <<leaseStart, age>>

FsmBind ==
    /\ Receive
    /\ dhcpState = "REQUEST"
    /\ Answer("ACK")
    /\ dhcpState' = "BOUND"
    /\ leaseStart' = now
    /\ age' = 0
    /\ UNCHANGED <<myip, dhcpip, serverip, pending>>

(* In SELECT and REQUEST any UDP datagram that is not the answer expected  *)
(* starts all over again.                                                  *)
FsmRestart ==
    /\ Receive
    /\ Head(inbox).type # "arp"
    /\ \/ dhcpState = "SELECT" /\ ~Answer("OFFER")
       \/ dhcpState = "REQUEST" /\ ~Answer("ACK")
    /\ dhcpState' = "INIT"
    /\ UNCHANGED <<myip, dhcpip, serverip, leaseStart, age, pending>>

(* Mutant: the lease starts when it did before. *)
RenewKeepStart ==
    /\ Receive
    /\ dhcpState \in {"RENEW", "REBIND"}
    /\ Head(inbox).type # "arp"
    /\ \/ /\ Answer("ACK")
          /\ dhcpState' = "BOUND"
          /\ age' = 0
       \/ /\ Answer("NACK")
          /\ dhcpState' = "INIT"
          /\ UNCHANGED age
       \/ /\ ~Answer("ACK") /\ ~Answer("NACK")
          /\ UNCHANGED <<dhcpState, age>>
    /\ UNCHANGED <<myip, dhcpip, serverip, leaseStart, pending>>

(* Mutant: a renewal is as strict as the first negotiation. *)
RenewStrict ==
    /\ Receive
    /\ dhcpState \in {"RENEW", "REBIND"}
    /\ Head(inbox).type # "arp"
    /\ IF Answer("ACK")
       THEN dhcpState' = "BOUND" /\ leaseStart' = now /\ age' = 0
       ELSE dhcpState' = "INIT" /\ UNCHANGED <<leaseStart, age>>
    /\ UNCHANGED <<myip, dhcpip, serverip, pending>>

(* A lease that is being renewed is given up for a NACK only. *)
FsmRenew ==
    /\ Receive
    /\ dhcpState \in {"RENEW", "REBIND"}
    /\ Head(inbox).type # "arp"
    /\ \/ /\ Answer("ACK")
          /\ dhcpState' = "BOUND"
          /\ leaseStart' = now
          /\ age' = 0
       \/ /\ Answer("NACK")
          /\ dhcpState' = "INIT"
          /\ UNCHANGED <<leaseStart, age>>
       \/ /\ ~Answer("ACK") /\ ~Answer("NACK")
          /\ UNCHANGED <<dhcpState, leaseStart, age>>
    /\ UNCHANGED <<myip, dhcpip, serverip, pending>>

(* dhcp_fsm returns when it is bound or its 20 seconds are over: with TRUE *)
(* if there is an address, whatever the state.                             *)
FsmReturn ==
    /\ phase = "fsm"
    /\ PatientClient => dhcpState = "BOUND" \/ (dhcpState # "INIT" /\ Settled)
    /\ phase' = "idle"
    /\ ok' = (myip # NoAddr)
    /\ UNCHANGED <<clientVars, polled, clockVars, netVars, inbox, pending, left>>
-----------------------------------------------------------------------------
(* dhcpLease: uint32_t arithmetic, with what it does about the rollover    *)

Wrap(t) == t % ClockMod
newStart == LeaseTime - ((ClockMod - 1 - leaseStart) % LeaseTime)
rolled == now < leaseStart
adjusted == rolled /\ now < newStart
renew == IF adjusted /\ now > LeaseTime \div 2
         THEN Wrap(newStart - LeaseTime \div 2)
         ELSE Wrap(leaseStart + LeaseTime \div 2)
rebind == IF adjusted /\ now > LeaseTime \div 8
          THEN Wrap(newStart - LeaseTime \div 8)
          ELSE Wrap(leaseStart + (LeaseTime \div 8) * 7)
restart == IF adjusted THEN newStart ELSE Wrap(leaseStart + LeaseTime)

LeaseInvalid ==
    /\ leaseStart = 0
    /\ ok' = FALSE
    /\ UNCHANGED <<clientVars, phase, pending>>

LeaseWait ==
    /\ dhcpState \in {"INIT", "SELECT", "REQUEST"}
    /\ ok' = TRUE
    /\ UNCHANGED <<dhcpState, phase, pending>>

LeaseBound ==
    /\ dhcpState = "BOUND"
    /\ dhcpState' = IF now > renew THEN "RENEW" ELSE "BOUND"
    /\ ok' = TRUE
    /\ UNCHANGED <<phase, pending>>

LeaseRenew ==
    /\ dhcpState = "RENEW"
    /\ dhcpState' = IF now > rebind THEN "REBIND" ELSE "RENEW"
    /\ SendRequest(dhcpip)
    /\ phase' = "fsm"
    /\ UNCHANGED ok

LeaseRebind ==
    /\ dhcpState = "REBIND"
    /\ IF now > restart
       THEN dhcpState' = "INIT" /\ UNCHANGED pending
       ELSE SendRequest(dhcpip) /\ UNCHANGED dhcpState
    /\ phase' = "fsm"
    /\ UNCHANGED ok

dhcpLease ==
    /\ phase = "idle"
    /\ polled' = TRUE
    /\ \/ LeaseInvalid
       \/ /\ leaseStart # 0
          /\ leaseStart' = IF rolled /\ ~adjusted THEN newStart ELSE leaseStart
          /\ LeaseWait \/ LeaseBound \/ LeaseRenew \/ LeaseRebind
          /\ UNCHANGED <<myip, dhcpip, serverip>>
    /\ UNCHANGED <<clockVars, netVars, inbox, left>>

(* The sketch takes frames as well, and has no use for DHCP messages. *)
SketchReceive ==
    /\ phase = "idle"
    /\ inbox # <<>>
    /\ inbox' = Tail(inbox)
    /\ UNCHANGED <<clientVars, callVars, clockVars, netVars, pending, left>>
-----------------------------------------------------------------------------
(* Servers, other hosts, time *)

Deliver(f) == inbox' = IF link THEN Enqueue(inbox, f, RxCap) ELSE inbox

Trouble(kind) ==
    /\ kind \in Troubles
    /\ trouble < MaxTrouble
    /\ dhcpState \in TroubleDuring
    /\ trouble' = trouble + 1

(* A server answers a DISCOVER with an offer, a REQUEST with an ACK that   *)
(* renews or starts the lease, or, if it has promised nothing, a NACK.     *)
ServerAnswer(s) ==
    /\ pending[s] # <<>>
    /\ pending' = [pending EXCEPT ![s] = Tail(@)]
    /\ LET q == Head(pending[s])
           Reply(type) == Deliver([type |-> type, from |-> s, cur |-> q.cur])
       IN  \/ /\ q.type = "DISCOVER"
              /\ Reply("OFFER")
              /\ UNCHANGED <<left, trouble>>
           \/ /\ q.type = "REQUEST"
              /\ Reply("ACK")
              /\ left' = [left EXCEPT ![s] = LeaseTime + 1]
              /\ UNCHANGED trouble
           \/ /\ q.type = "REQUEST"
              /\ left[s] = 0
              /\ Trouble("nack")
              /\ Reply("NACK")
              /\ UNCHANGED left
    /\ UNCHANGED <<clientVars, callVars, clockVars, link>>

Lose ==
    /\ Trouble("loss")
    /\ \/ /\ inbox # <<>>
          /\ inbox' = Tail(inbox)
          /\ UNCHANGED pending
       \/ /\ \E s \in Server : /\ pending[s] # <<>>
                               /\ pending' = [pending EXCEPT ![s] = Tail(@)]
          /\ UNCHANGED inbox
    /\ UNCHANGED <<clientVars, callVars, clockVars, link, left>>

Stray ==
    /\ Trouble("stray")
    /\ \E t \in {"udp", "arp"} : Deliver([type |-> t])
    /\ UNCHANGED <<clientVars, callVars, clockVars, link, pending, left>>

LinkChange ==
    /\ \/ link /\ Trouble("link")
       \/ ~link /\ UNCHANGED trouble
    /\ link' = ~link
    /\ UNCHANGED <<clientVars, callVars, clockVars, inbox, pending, left>>

(* A tick is long: dhcp_fsm has returned, nothing is under way, and the    *)
(* sketch has called dhcpLease since the last one.                         *)
Tick ==
    /\ phase = "idle"
    /\ Settled
    /\ polled
    /\ Rollover \/ now + LeaseTime + 2 < ClockMod
    /\ now' = Wrap(now + 1)
    /\ age' = IF age < LeaseTime + 2 THEN age + 1 ELSE age
    /\ left' = [s \in Server |-> IF left[s] > 0 THEN left[s] - 1 ELSE 0]
    /\ polled' = FALSE
    /\ UNCHANGED <<clientVars, phase, ok, netVars, inbox, pending>>

FsmStep == FsmInit \/ FsmSkip \/ FsmSelect \/ FsmBind \/ FsmRestart \/ FsmRenew

Next ==
    \/ FsmStep
    \/ FsmReturn
    \/ dhcpLease
    \/ SketchReceive
    \/ \E s \in Server : ServerAnswer(s)
    \/ Lose \/ Stray \/ LinkChange
    \/ Tick

Spec == Init /\ [][Next]_vars

(* The loop of dhcp_fsm runs and ends, the sketch calls dhcpLease, every   *)
(* server answers, and time passes.                                        *)
FairSpec ==
    /\ Spec
    /\ WF_vars(FsmStep)
    /\ WF_vars(FsmReturn)
    /\ WF_vars(dhcpLease)
    /\ WF_vars(Tick)
    /\ \A s \in Server : WF_vars(ServerAnswer(s))
-----------------------------------------------------------------------------
(* Properties *)

(* dhcpValid(): "Does the DHCP FSM have a valid lease?" While the client   *)
(* says so, the server it names still keeps the address for it, as long as *)
(* dhcpLease is called in every tick, whatever is lost and whoever answers.*)
LeaseHeld == dhcpValid /\ polled => left[dhcpip] > 0 /\ myip = dhcpip

(* "At > 50% of the lease time, move to DHCP_STATE_RENEW" (dhcp.cpp:484),  *)
(* and not before.                                                         *)
RenewAtHalf ==
    [][dhcpState = "BOUND" /\ dhcpState' = "RENEW" => 2 * age > LeaseTime]_vars

(* With a server that answers, a lease once given is kept for good.        *)
KeepsLease == [][dhcpValid => dhcpValid']_vars

(* The state machine "should be reliable, if slow" (dhcp.cpp:366): with a  *)
(* server that answers and nothing lost, it gets its lease.                *)
Binds == <>(dhcpState = "BOUND")

=============================================================================
