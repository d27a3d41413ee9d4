----------------------------- MODULE DhcpProofs -----------------------------
(***************************************************************************)
(* Proofs about the DHCP client: its variables keep their types, and, as   *)
(* long as millis() does not wrap around, it holds the lease that it says  *)
(* it holds, for every number of servers and whatever goes wrong.          *)
(***************************************************************************)
EXTENDS Dhcp, TLAPS

(* No REQUEST of the current transaction is for another server, and none   *)
(* has been sent before an offer is taken.                                 *)
Requested ==
    \A s \in Server : \A i \in DOMAIN pending[s] :
       pending[s][i].type = "REQUEST" /\ pending[s][i].cur =>
         s = dhcpip /\ dhcpState # "SELECT"

(* So an ACK that will be taken comes from our server, and the lease that  *)
(* it stands for has only just begun.                                      *)
Acked ==
    \A i \in DOMAIN inbox :
       inbox[i].type = "ACK" /\ inbox[i].cur =>
         /\ inbox[i].from = dhcpip
         /\ dhcpState # "SELECT"
         /\ left[dhcpip] = LeaseTime + 1

(* No timer of dhcpLease leaves the clock's range. *)
InRange == now >= 1 /\ now + LeaseTime + 2 <= ClockMod

(* The server keeps the address at least as long as the client thinks.     *)
Kept ==
    dhcpValid =>
      /\ 1 <= leaseStart /\ leaseStart <= now
      /\ left[dhcpip] + (now - leaseStart) >= LeaseTime + 1

(* dhcpLease, called in every tick, leaves no state too late. *)
Slack == IF polled THEN 0 ELSE 1
OnTime ==
    /\ dhcpState = "BOUND" => now - leaseStart <= LeaseTime \div 2 + Slack
    /\ dhcpState = "RENEW" => now - leaseStart <= LeaseTime - 1 + Slack
    /\ dhcpState = "REBIND" => now - leaseStart <= LeaseTime + Slack

Inv == TypeOK /\ Requested /\ Acked /\ InRange /\ Kept /\ OnTime
-----------------------------------------------------------------------------
(* Lemmas: arithmetic of the timers, queues, messages *)

LEMMA ModRange ==
    ASSUME NEW x \in Int, NEW m \in Nat \ {0}
    PROVE  x % m \in 0 .. m - 1
OBVIOUS

LEMMA Sizes ==
    /\ LeaseTime \in Nat /\ LeaseTime >= 8
    /\ ClockMod \in Nat /\ ClockMod > LeaseTime + 2
    /\ RxCap \in Nat \ {0} /\ QueueCap \in Nat \ {0}
    /\ MaxTrouble \in Nat
    /\ NoAddr \notin Server
BY NoAddrAssumption, LeaseTimeAssumption, ClockModAssumption, CapAssumption, TroubleAssumption

LEMMA WrapType ==
    ASSUME NEW t \in Int
    PROVE  Wrap(t) \in 0 .. ClockMod - 1
BY ModRange, Sizes DEF Wrap

LEMMA NewStartType ==
    ASSUME TypeOK
    PROVE  newStart \in 1 .. LeaseTime
<1>1. ClockMod - 1 - leaseStart \in Int
  BY Sizes DEF TypeOK
<1>2. LeaseTime \in Nat \ {0}
  BY Sizes
<1>3. (ClockMod - 1 - leaseStart) % LeaseTime \in 0 .. LeaseTime - 1
  BY <1>1, <1>2, ModRange
<1>4. QED
  BY <1>2, <1>3 DEF newStart

(* What is added to a queue is its last element; the others stay. *)
LEMMA EnqueueType ==
    ASSUME NEW S, NEW q \in Seq(S), NEW m \in S, NEW cap \in Nat, Len(q) <= cap
    PROVE  /\ Enqueue(q, m, cap) \in Seq(S)
           /\ Len(Enqueue(q, m, cap)) <= cap
           /\ \A i \in DOMAIN Enqueue(q, m, cap) :
                 \/ i \in DOMAIN q /\ Enqueue(q, m, cap)[i] = q[i]
                 \/ Enqueue(q, m, cap)[i] = m
<1>1. CASE Len(q) < cap
  <2>1. Enqueue(q, m, cap) = Append(q, m)
    BY <1>1 DEF Enqueue
  <2>2. Append(q, m) \in Seq(S) /\ Len(Append(q, m)) = Len(q) + 1
    OBVIOUS
  <2>3. \A i \in 1 .. Len(q) + 1 :
           \/ i \in 1 .. Len(q) /\ Append(q, m)[i] = q[i]
           \/ Append(q, m)[i] = m
    OBVIOUS
  <2>4. QED
    BY <1>1, <2>1, <2>2, <2>3
<1>2. CASE ~(Len(q) < cap)
  BY <1>2 DEF Enqueue
<1>3. QED
  BY <1>1, <1>2

LEMMA TailElements ==
    ASSUME NEW S, NEW q \in Seq(S), q # <<>>
    PROVE  /\ Tail(q) \in Seq(S)
           /\ Head(q) \in S /\ Head(q) = q[1] /\ 1 \in DOMAIN q
           /\ Len(Tail(q)) = Len(q) - 1
           /\ \A i \in DOMAIN Tail(q) : i + 1 \in DOMAIN q /\ Tail(q)[i] = q[i + 1]
OBVIOUS

(* A DISCOVER makes every message under way one of an older transaction.   *)
LEMMA OutdatedQueries ==
    ASSUME NEW q \in Seq(Query)
    PROVE  /\ Outdated(q) \in Seq(Query)
           /\ Len(Outdated(q)) = Len(q)
           /\ \A i \in DOMAIN Outdated(q) : Outdated(q)[i].cur = FALSE
<1>1. \A i \in DOMAIN q : q[i] \in Query
  OBVIOUS
<1>2. \A x \in Query : /\ "cur" \in DOMAIN x
                       /\ [x EXCEPT !.cur = FALSE] \in Query
                       /\ [x EXCEPT !.cur = FALSE].cur = FALSE
  BY DEF Query
<1>3. Outdated(q) = [i \in 1 .. Len(q) |-> [q[i] EXCEPT !.cur = FALSE]]
  BY <1>1, <1>2 DEF Outdated
<1>4. QED
  BY <1>1, <1>2, <1>3

LEMMA OutdatedFrames ==
    ASSUME NEW q \in Seq(Frame)
    PROVE  /\ Outdated(q) \in Seq(Frame)
           /\ Len(Outdated(q)) = Len(q)
           /\ \A i \in DOMAIN Outdated(q) :
                 ~(Outdated(q)[i].type = "ACK" /\ Outdated(q)[i].cur)
<1> DEFINE Old(x) == IF "cur" \in DOMAIN x THEN [x EXCEPT !.cur = FALSE] ELSE x
<1>1. \A i \in DOMAIN q : q[i] \in Frame
  OBVIOUS
<1>2. ASSUME NEW x \in Frame
      PROVE  Old(x) \in Frame /\ ~(Old(x).type = "ACK" /\ Old(x).cur)
  <2>1. CASE x \in [type : {"OFFER", "ACK", "NACK"}, from : Server, cur : BOOLEAN]
    BY <2>1 DEF Frame
  <2>2. CASE x \in [type : {"udp", "arp"}]
    BY <2>2 DEF Frame
  <2>3. QED
    BY <2>1, <2>2 DEF Frame
<1>3. Outdated(q) = [i \in 1 .. Len(q) |-> Old(q[i])]
  BY DEF Outdated
<1>4. QED
  <2> HIDE DEF Old
  <2>1. QED
    BY <1>1, <1>2, <1>3
-----------------------------------------------------------------------------
(* The type invariant, action by action *)

LEMMA FrameFacts ==
    ASSUME TypeOK, inbox # <<>>
    PROVE  /\ Head(inbox) \in Frame
           /\ Tail(inbox) \in Seq(Frame) /\ Len(Tail(inbox)) <= RxCap
           /\ Head(inbox).type \in {"OFFER", "ACK", "NACK"} => Head(inbox).from \in Server
<1>1. /\ Head(inbox) \in Frame /\ Tail(inbox) \in Seq(Frame)
      /\ Len(Tail(inbox)) = Len(inbox) - 1
  BY TailElements DEF TypeOK
<1>2. \A f \in Frame : f.type \in {"OFFER", "ACK", "NACK"} => f.from \in Server
  BY DEF Frame
<1>3. Len(inbox) \in Nat /\ Len(inbox) <= RxCap /\ RxCap \in Nat
  BY Sizes DEF TypeOK
<1>4. QED
  BY <1>1, <1>2, <1>3

PendingOK == /\ pending \in [Server -> Seq(Query)]
             /\ \A s \in Server : Len(pending[s]) <= QueueCap

(* What the client sends fits its queue; only a REQUEST to s is new.       *)
LEMMA SendRequestType ==
    ASSUME PendingOK, NEW s, SendRequest(s)
    PROVE  /\ PendingOK'
           /\ \A t \in Server : \A i \in DOMAIN pending'[t] :
                 \/ i \in DOMAIN pending[t] /\ pending'[t][i] = pending[t][i]
                 \/ t = s
<1> DEFINE req == [type |-> "REQUEST", cur |-> TRUE]
<1>1. req \in Query
  BY DEF Query
<1>2. ASSUME NEW t \in Server
      PROVE  /\ pending'[t] \in Seq(Query) /\ Len(pending'[t]) <= QueueCap
             /\ \A i \in DOMAIN pending'[t] :
                   \/ i \in DOMAIN pending[t] /\ pending'[t][i] = pending[t][i]
                   \/ t = s
  <2>1. pending[t] \in Seq(Query) /\ Len(pending[t]) <= QueueCap /\ QueueCap \in Nat
    BY Sizes DEF PendingOK
  <2>2. CASE t = s /\ link
    <3>1. pending'[t] = Enqueue(pending[t], req, QueueCap)
      BY <2>2 DEF SendRequest
    <3>2. QED
      BY <1>1, <2>1, <2>2, <3>1, EnqueueType
  <2>3. CASE ~(t = s /\ link)
    <3>1. pending'[t] = pending[t]
      BY <2>3 DEF SendRequest
    <3>2. QED
      BY <2>1, <3>1
  <2>4. QED
    BY <2>2, <2>3
<1>3. DOMAIN pending' = Server /\ pending' = [t \in Server |-> pending'[t]]
  BY DEF SendRequest
<1>4. QED
  BY <1>2, <1>3 DEF PendingOK

LEMMA FsmInitPending ==
    ASSUME TypeOK, FsmInit
    PROVE  /\ PendingOK'
           /\ \A t \in Server : \A i \in DOMAIN pending'[t] :
                 pending'[t][i].type = "DISCOVER" \/ pending'[t][i].cur = FALSE
<1> DEFINE disc == [type |-> "DISCOVER", cur |-> TRUE]
<1>1. disc \in Query
  BY DEF Query
<1>2. ASSUME NEW t \in Server
      PROVE  /\ pending'[t] \in Seq(Query) /\ Len(pending'[t]) <= QueueCap
             /\ \A i \in DOMAIN pending'[t] :
                   pending'[t][i].type = "DISCOVER" \/ pending'[t][i].cur = FALSE
  <2>1. pending[t] \in Seq(Query) /\ Len(pending[t]) <= QueueCap /\ QueueCap \in Nat
    BY Sizes DEF TypeOK
  <2>2. pending'[t] = Enqueue(Outdated(pending[t]), disc, QueueCap)
    BY DEF FsmInit
  <2>3. /\ Outdated(pending[t]) \in Seq(Query) /\ Len(Outdated(pending[t])) <= QueueCap
        /\ \A i \in DOMAIN Outdated(pending[t]) : Outdated(pending[t])[i].cur = FALSE
    BY <2>1, OutdatedQueries
  <2>4. /\ pending'[t] \in Seq(Query) /\ Len(pending'[t]) <= QueueCap
        /\ \A i \in DOMAIN pending'[t] :
              \/ i \in DOMAIN Outdated(pending[t]) /\ pending'[t][i] = Outdated(pending[t])[i]
              \/ pending'[t][i] = disc
    BY <1>1, <2>1, <2>2, <2>3, EnqueueType
  <2>5. QED
    BY <2>3, <2>4
<1>3. DOMAIN pending' = Server /\ pending' = [t \in Server |-> pending'[t]]
  BY DEF FsmInit
<1>4. QED
  BY <1>2, <1>3 DEF PendingOK

LEMMA DeliverType ==
    ASSUME TypeOK, NEW f \in Frame, Deliver(f)
    PROVE  /\ inbox' \in Seq(Frame) /\ Len(inbox') <= RxCap
           /\ \A i \in DOMAIN inbox' :
                 \/ i \in DOMAIN inbox /\ inbox'[i] = inbox[i]
                 \/ inbox'[i] = f
<1>1. inbox \in Seq(Frame) /\ Len(inbox) <= RxCap /\ RxCap \in Nat
  BY Sizes DEF TypeOK
<1>2. CASE link
  BY <1>1, <1>2, EnqueueType DEF Deliver
<1>3. CASE ~link
  BY <1>1, <1>3 DEF Deliver
<1>4. QED
  BY <1>2, <1>3

LEMMA TakenType ==
    ASSUME TypeOK, NEW s \in Server, pending[s] # <<>>,
           pending' = [pending EXCEPT ![s] = Tail(@)]
    PROVE  /\ PendingOK'
           /\ Head(pending[s]) \in Query
           /\ \A t \in Server : \A i \in DOMAIN pending'[t] :
                 \E j \in DOMAIN pending[t] : pending'[t][i] = pending[t][j]
<1>1. /\ Tail(pending[s]) \in Seq(Query) /\ Head(pending[s]) \in Query
      /\ Len(Tail(pending[s])) = Len(pending[s]) - 1
      /\ \A i \in DOMAIN Tail(pending[s]) :
            i + 1 \in DOMAIN pending[s] /\ Tail(pending[s])[i] = pending[s][i + 1]
  BY TailElements DEF TypeOK
<1>2. Len(pending[s]) \in Nat /\ Len(pending[s]) <= QueueCap /\ QueueCap \in Nat
  BY Sizes DEF TypeOK
<1>3. ASSUME NEW t \in Server
      PROVE  /\ pending'[t] \in Seq(Query) /\ Len(pending'[t]) <= QueueCap
             /\ \A i \in DOMAIN pending'[t] :
                   \E j \in DOMAIN pending[t] : pending'[t][i] = pending[t][j]
  <2>1. CASE t = s
    <3>1. pending'[t] = Tail(pending[s])
      BY <2>1 DEF TypeOK
    <3>2. QED
      BY <1>1, <1>2, <2>1, <3>1
  <2>2. CASE t # s
    <3>1. pending'[t] = pending[t]
      BY <2>2 DEF TypeOK
    <3>2. QED
      BY <3>1 DEF TypeOK
  <2>3. QED
    BY <2>1, <2>2
<1>4. pending' \in [Server -> Seq(Query)]
  BY <1>1 DEF TypeOK
<1>5. QED
  BY <1>1, <1>3, <1>4 DEF PendingOK

LEMMA FsmType ==
    ASSUME TypeOK, FsmStep
    PROVE  TypeOK'
<1> USE DEF clientVars, callVars, clockVars, netVars, Running, dhcpValid, State
<1>1. CASE FsmInit
  <2>1. inbox' \in Seq(Frame) /\ Len(inbox') <= RxCap
    BY <1>1, OutdatedFrames DEF FsmInit, TypeOK
  <2>2. PendingOK'
    BY <1>1, FsmInitPending
  <2>3. QED
    BY <1>1, <2>1, <2>2, Sizes DEF FsmInit, TypeOK, PendingOK
<1>2. ASSUME Receive
      PROVE  /\ inbox' \in Seq(Frame) /\ Len(inbox') <= RxCap
             /\ UNCHANGED <<callVars, now, netVars, left>>
             /\ Head(inbox).type \in {"OFFER", "ACK", "NACK"} => Head(inbox).from \in Server
  BY <1>2, FrameFacts DEF Receive
<1>3. CASE FsmSkip
  BY <1>2, <1>3 DEF FsmSkip, TypeOK
<1>4. CASE FsmSelect
  <2>1. Head(inbox).from \in Server /\ Receive
    BY <1>2, <1>4 DEF FsmSelect, Answer
  <2>2. PendingOK'
    BY <1>4, SendRequestType DEF FsmSelect, TypeOK, PendingOK
  <2>3. QED
    BY <1>2, <1>4, <2>1, <2>2, Sizes DEF FsmSelect, TypeOK, PendingOK
<1>5. CASE FsmBind
  BY <1>2, <1>5, Sizes DEF FsmBind, TypeOK
<1>6. CASE FsmRestart
  BY <1>2, <1>6, Sizes DEF FsmRestart, TypeOK
<1>7. CASE FsmRenew
  BY SMTT(30), <1>2, <1>7, Sizes DEF FsmRenew, TypeOK
<1>8. QED
  BY <1>1, <1>3, <1>4, <1>5, <1>6, <1>7 DEF FsmStep

LEMMA LeaseType ==
    ASSUME TypeOK, dhcpLease
    PROVE  TypeOK'
<1> USE DEF clientVars, callVars, clockVars, netVars, dhcpValid, State
<1>1. phase = "idle" /\ polled' = TRUE /\ UNCHANGED <<clockVars, netVars, inbox, left>>
  BY DEF dhcpLease
<1>2. CASE LeaseInvalid
  BY <1>1, <1>2 DEF LeaseInvalid, TypeOK
<1>3. CASE /\ leaseStart' = IF rolled /\ ~adjusted THEN newStart ELSE leaseStart
           /\ LeaseWait \/ LeaseBound \/ LeaseRenew \/ LeaseRebind
           /\ UNCHANGED <<myip, dhcpip, serverip>>
  <2>1. leaseStart' \in 0 .. ClockMod - 1
    BY <1>3, NewStartType, Sizes DEF TypeOK
  <2>2. CASE LeaseWait
    BY <1>1, <1>3, <2>1, <2>2 DEF LeaseWait, TypeOK
  <2>3. CASE LeaseBound
    BY <1>1, <1>3, <2>1, <2>3 DEF LeaseBound, TypeOK
  <2>4. CASE LeaseRenew
    <3>1. PendingOK'
      BY <2>4, SendRequestType DEF LeaseRenew, TypeOK, PendingOK
    <3>2. QED
      BY <1>1, <1>3, <2>1, <2>4, <3>1 DEF LeaseRenew, TypeOK, PendingOK
  <2>5. CASE LeaseRebind
    <3>1. PendingOK'
      BY <2>5, SendRequestType DEF LeaseRebind, TypeOK, PendingOK
    <3>2. QED
      BY <1>1, <1>3, <2>1, <2>5, <3>1 DEF LeaseRebind, TypeOK, PendingOK
  <2>6. QED
    BY <1>3, <2>2, <2>3, <2>4, <2>5
<1>4. QED
  BY <1>2, <1>3 DEF dhcpLease

(* A server's answer is a frame from it, in the transaction of the query;  *)
(* an ACK starts its lease.                                                *)
LEMMA AnswerEffect ==
    ASSUME TypeOK, NEW s \in Server, ServerAnswer(s)
    PROVE  /\ PendingOK'
           /\ inbox' \in Seq(Frame) /\ Len(inbox') <= RxCap
           /\ \A t \in Server : \A i \in DOMAIN pending'[t] :
                 \E j \in DOMAIN pending[t] : pending'[t][i] = pending[t][j]
           /\ left' \in [Server -> 0 .. LeaseTime + 1]
           /\ \A t \in Server : left'[t] >= left[t]
           /\ \A i \in DOMAIN inbox' :
                 \/ i \in DOMAIN inbox /\ inbox'[i] = inbox[i]
                 \/ inbox'[i].type # "ACK"
                 \/ /\ inbox'[i].from = s
                    /\ left'[s] = LeaseTime + 1
                    /\ pending[s] # <<>>
                    /\ inbox'[i].cur => Head(pending[s]).cur
                    /\ Head(pending[s]).type = "REQUEST"
           /\ trouble' \in 0 .. MaxTrouble
           /\ UNCHANGED <<clientVars, callVars, clockVars, link>>
<1> DEFINE q == Head(pending[s])
           Reply(type) == [type |-> type, from |-> s, cur |-> q.cur]
<1>1. /\ pending[s] # <<>> /\ pending' = [pending EXCEPT ![s] = Tail(@)]
      /\ UNCHANGED <<clientVars, callVars, clockVars, link>>
  BY DEF ServerAnswer
<1>2. /\ PendingOK' /\ q \in Query
      /\ \A t \in Server : \A i \in DOMAIN pending'[t] :
            \E j \in DOMAIN pending[t] : pending'[t][i] = pending[t][j]
  BY <1>1, TakenType
<1>3. \A type \in {"OFFER", "ACK", "NACK"} : Reply(type) \in Frame
  BY <1>2 DEF Frame, Query
<1>4. CASE /\ q.type = "DISCOVER" /\ Deliver(Reply("OFFER"))
           /\ UNCHANGED <<left, trouble>>
  BY SMTT(30), <1>1, <1>2, <1>3, <1>4, DeliverType DEF TypeOK
<1>5. CASE /\ q.type = "REQUEST" /\ Deliver(Reply("ACK"))
           /\ left' = [left EXCEPT ![s] = LeaseTime + 1] /\ UNCHANGED trouble
  <2>1. /\ left' \in [Server -> 0 .. LeaseTime + 1] /\ left'[s] = LeaseTime + 1
        /\ \A t \in Server : left'[t] >= left[t]
    BY SMTT(30), <1>5, Sizes DEF TypeOK
  <2>2. /\ inbox' \in Seq(Frame) /\ Len(inbox') <= RxCap
        /\ \A i \in DOMAIN inbox' :
              \/ i \in DOMAIN inbox /\ inbox'[i] = inbox[i]
              \/ inbox'[i] = Reply("ACK")
    BY <1>3, <1>5, DeliverType
  <2>3. trouble' \in 0 .. MaxTrouble
    BY <1>5 DEF TypeOK
  <2>4. Reply("ACK").from = s /\ Reply("ACK").cur = q.cur
    OBVIOUS
  <2>5. \A i \in DOMAIN inbox' :
           \/ i \in DOMAIN inbox /\ inbox'[i] = inbox[i]
           \/ inbox'[i].from = s /\ (inbox'[i].cur => q.cur)
    BY <2>2, <2>4
  <2>6. QED
    BY <1>1, <1>2, <1>5, <2>1, <2>2, <2>3, <2>5
<1>6. CASE /\ q.type = "REQUEST" /\ Trouble("nack") /\ Deliver(Reply("NACK"))
           /\ UNCHANGED left
  <2>1. trouble' \in 0 .. MaxTrouble
    BY <1>6, Sizes DEF Trouble, TypeOK
  <2>2. QED
    BY SMTT(30), <1>1, <1>2, <1>3, <1>6, <2>1, DeliverType DEF TypeOK
<1>7. QED
  BY <1>4, <1>5, <1>6 DEF ServerAnswer

LEMMA LoseEffect ==
    ASSUME TypeOK, Lose
    PROVE  /\ PendingOK'
           /\ inbox' \in Seq(Frame) /\ Len(inbox') <= RxCap
           /\ \A t \in Server : \A i \in DOMAIN pending'[t] :
                 \E j \in DOMAIN pending[t] : pending'[t][i] = pending[t][j]
           /\ \A i \in DOMAIN inbox' : \E j \in DOMAIN inbox : inbox'[i] = inbox[j]
           /\ trouble' \in 0 .. MaxTrouble
           /\ UNCHANGED <<clientVars, callVars, clockVars, link, left>>
<1>1. trouble' \in 0 .. MaxTrouble /\ UNCHANGED <<clientVars, callVars, clockVars, link, left>>
  BY Sizes DEF Lose, Trouble, TypeOK
<1>2. CASE inbox # <<>> /\ inbox' = Tail(inbox) /\ UNCHANGED pending
  <2>1. inbox' \in Seq(Frame) /\ Len(inbox') <= RxCap
    BY <1>2, FrameFacts
  <2>2. \A i \in DOMAIN inbox' : \E j \in DOMAIN inbox : inbox'[i] = inbox[j]
    BY <1>2, TailElements DEF TypeOK
  <2>3. QED
    BY <1>1, <1>2, <2>1, <2>2 DEF TypeOK, PendingOK
<1>3. CASE /\ UNCHANGED inbox
           /\ \E s \in Server : /\ pending[s] # <<>>
                                /\ pending' = [pending EXCEPT ![s] = Tail(@)]
  BY <1>1, <1>3, TakenType DEF TypeOK
<1>4. QED
  BY <1>2, <1>3 DEF Lose

LEMMA TypeStep ==
    ASSUME TypeOK, [Next]_vars
    PROVE  TypeOK'
<1> USE DEF clientVars, callVars, clockVars, netVars, dhcpValid
<1>1. CASE FsmReturn
  BY <1>1 DEF FsmReturn, TypeOK
<1>2. CASE SketchReceive
  BY <1>2, FrameFacts DEF SketchReceive, TypeOK
<1>3. ASSUME NEW s \in Server, ServerAnswer(s)
      PROVE  TypeOK'
  BY <1>3, AnswerEffect DEF TypeOK, PendingOK
<1>4. CASE Lose
  BY <1>4, LoseEffect DEF TypeOK, PendingOK
<1>5. CASE Stray
  <2>1. PICK t \in {"udp", "arp"} : Deliver([type |-> t])
    BY <1>5 DEF Stray
  <2>2. [type |-> t] \in Frame
    BY DEF Frame
  <2>3. inbox' \in Seq(Frame) /\ Len(inbox') <= RxCap
    BY <2>1, <2>2, DeliverType
  <2>4. QED
    BY <1>5, <2>3, Sizes DEF Stray, Trouble, TypeOK
<1>6. CASE LinkChange
  BY <1>6, Sizes DEF LinkChange, Trouble, TypeOK
<1>7. CASE Tick
  <2>1. now' \in 0 .. ClockMod - 1
    BY <1>7, WrapType DEF Tick, TypeOK
  <2>2. age' \in 0 .. LeaseTime + 2
    BY <1>7, Sizes DEF Tick, TypeOK
  <2>3. left' \in [Server -> 0 .. LeaseTime + 1]
    BY <1>7, Sizes DEF Tick, TypeOK
  <2>4. QED
    BY <1>7, <2>1, <2>2, <2>3 DEF Tick, TypeOK
<1>8. CASE UNCHANGED vars
  BY <1>8 DEF vars, TypeOK
<1>9. QED
  BY <1>1, <1>2, <1>3, <1>4, <1>5, <1>6, <1>7, <1>8, FsmType, LeaseType DEF Next

LEMMA TypeInit == Init => TypeOK
<1>1. ASSUME Init
      PROVE  TypeOK
  <2>1. inbox \in Seq(Frame) /\ Len(inbox) <= RxCap
    BY <1>1, Sizes DEF Init
  <2>2. /\ pending \in [Server -> Seq(Query)]
        /\ \A s \in Server : Len(pending[s]) <= QueueCap
    BY <1>1, Sizes DEF Init
  <2>3. 0 \in 0 .. LeaseTime + 1 /\ 0 \in 0 .. LeaseTime + 2 /\ 0 \in 0 .. MaxTrouble
        /\ 0 \in 0 .. ClockMod - 1 /\ 1 \in 0 .. ClockMod - 1
    BY Sizes
  <2>4. left \in [Server -> 0 .. LeaseTime + 1]
    BY <1>1, <2>3 DEF Init
  <2>5. QED
    BY <1>1, <2>1, <2>2, <2>3, <2>4 DEF Init, TypeOK, State, dhcpValid
<1>2. QED
  BY <1>1

(* The variables of the client keep their types. Among them: from the      *)
(* offer on it has one server, its address and identifier, to which        *)
(* REQUESTs and renewals go; neither the chip's nor a server's queue       *)
(* overflows, and no timer leaves 32 bits.                                 *)
THEOREM TypeCorrect == Spec => []TypeOK
<1>1. Init => TypeOK
  BY TypeInit
<1>2. TypeOK /\ [Next]_vars => TypeOK'
  BY TypeStep
<1>3. QED
  BY <1>1, <1>2, PTL DEF Spec
-----------------------------------------------------------------------------
(* The lease *)

LEMMA WrapId ==
    ASSUME NEW t \in 0 .. ClockMod - 1
    PROVE  Wrap(t) = t
<1>1. \A m \in Nat \ {0} : \A x \in 0 .. m - 1 : x % m = x
  OBVIOUS
<1>2. QED
  BY <1>1, Sizes DEF Wrap

(* What a step of dhcp_fsm that takes a frame leaves alone. *)
LEMMA ReceiveEffect ==
    ASSUME TypeOK, Receive
    PROVE  /\ Head(inbox) = inbox[1] /\ 1 \in DOMAIN inbox
           /\ \A i \in DOMAIN inbox' : \E j \in DOMAIN inbox : inbox'[i] = inbox[j]
           /\ UNCHANGED <<polled, now, left>>
<1>1. inbox # <<>> /\ inbox' = Tail(inbox) /\ inbox \in Seq(Frame)
  BY DEF Receive, TypeOK
<1>2. /\ Head(inbox) = inbox[1] /\ 1 \in DOMAIN inbox
      /\ \A i \in DOMAIN Tail(inbox) : i + 1 \in DOMAIN inbox /\ Tail(inbox)[i] = inbox[i + 1]
  BY <1>1, TailElements
<1>3. QED
  BY <1>1, <1>2 DEF Receive, callVars

LEMMA RequestedStep ==
    ASSUME Inv, [Next]_vars
    PROVE  Requested'
<1> USE DEF clientVars, callVars, clockVars, netVars
<1>1. TypeOK /\ Requested /\ PendingOK
  BY DEF Inv, TypeOK, PendingOK
<1>2. ASSUME \A t \in Server : \A i \in DOMAIN pending'[t] :
                \E j \in DOMAIN pending[t] : pending'[t][i] = pending[t][j],
             dhcpip' = dhcpip, dhcpState' = "SELECT" => dhcpState = "SELECT"
      PROVE  Requested'
  BY <1>1, <1>2 DEF Requested
<1>3. ASSUME UNCHANGED pending, dhcpip' = dhcpip,
             dhcpState' = "SELECT" => dhcpState = "SELECT"
      PROVE  Requested'
  BY <1>1, <1>3 DEF Requested
<1>4. CASE FsmInit
  BY <1>1, <1>4, FsmInitPending DEF Requested
<1>5. CASE FsmSkip \/ FsmBind \/ FsmRestart \/ FsmRenew
  BY <1>3, <1>5 DEF FsmSkip, FsmBind, FsmRestart, FsmRenew
<1>6. CASE FsmSelect
  <2>1. /\ SendRequest(Head(inbox).from) /\ dhcpip' = Head(inbox).from
        /\ dhcpState = "SELECT" /\ dhcpState' = "REQUEST"
    BY <1>6 DEF FsmSelect
  <2>2. \A t \in Server : \A i \in DOMAIN pending'[t] :
           \/ i \in DOMAIN pending[t] /\ pending'[t][i] = pending[t][i]
           \/ t = dhcpip'
    BY <1>1, <2>1, SendRequestType
  <2>3. QED
    BY <1>1, <2>1, <2>2 DEF Requested
<1>7. CASE FsmReturn
  BY <1>3, <1>7 DEF FsmReturn
<1>8. CASE dhcpLease
  <2>1. ASSUME SendRequest(dhcpip), dhcpip' = dhcpip, dhcpState' # "SELECT",
               dhcpState # "SELECT"
        PROVE  Requested'
    <3>1. \A t \in Server : \A i \in DOMAIN pending'[t] :
             \/ i \in DOMAIN pending[t] /\ pending'[t][i] = pending[t][i]
             \/ t = dhcpip
      BY <1>1, <2>1, SendRequestType
    <3>2. QED
      BY <1>1, <2>1, <3>1 DEF Requested
  <2>2. dhcpip' = dhcpip
    BY <1>8 DEF dhcpLease, LeaseInvalid
  <2>3. CASE LeaseInvalid
    BY <1>3, <2>2, <2>3 DEF LeaseInvalid
  <2>4. CASE LeaseWait
    BY <1>3, <2>2, <2>4 DEF LeaseWait
  <2>5. CASE LeaseBound
    BY <1>3, <2>2, <2>5 DEF LeaseBound
  <2>6. CASE LeaseRenew
    BY <2>1, <2>2, <2>6 DEF LeaseRenew
  <2>7. CASE LeaseRebind
    BY <1>3, <2>1, <2>2, <2>7 DEF LeaseRebind
  <2>8. QED
    BY <1>8, <2>3, <2>4, <2>5, <2>6, <2>7 DEF dhcpLease
<1>9. CASE SketchReceive
  BY <1>3, <1>9 DEF SketchReceive
<1>10. ASSUME NEW s \in Server, ServerAnswer(s)
       PROVE  Requested'
  BY <1>1, <1>2, <1>10, AnswerEffect
<1>11. CASE Lose
  BY <1>1, <1>2, <1>11, LoseEffect
<1>12. CASE Stray \/ LinkChange
  BY <1>3, <1>12 DEF Stray, LinkChange
<1>13. CASE Tick
  BY <1>3, <1>13 DEF Tick
<1>14. CASE UNCHANGED vars
  BY <1>3, <1>14 DEF vars
<1>15. QED
  BY <1>4, <1>5, <1>6, <1>7, <1>8, <1>9, <1>10, <1>11, <1>12, <1>13, <1>14
     DEF Next, FsmStep

LEMMA AckedStep ==
    ASSUME Inv, [Next]_vars
    PROVE  Acked'
<1> USE DEF clientVars, callVars, clockVars, netVars
<1>1. TypeOK /\ Requested /\ Acked
  BY DEF Inv
<1>2. ASSUME \A i \in DOMAIN inbox' :
                \/ \E j \in DOMAIN inbox : inbox'[i] = inbox[j]
                \/ inbox'[i].type # "ACK",
             dhcpip' = dhcpip, left' = left,
             dhcpState' = "SELECT" => dhcpState = "SELECT"
      PROVE  Acked'
  BY <1>1, <1>2 DEF Acked
<1>3. CASE FsmInit
  <2>1. \A i \in DOMAIN inbox' : ~(inbox'[i].type = "ACK" /\ inbox'[i].cur)
    BY <1>1, <1>3, OutdatedFrames DEF FsmInit, TypeOK
  <2>2. QED
    BY <2>1 DEF Acked
<1>4. CASE FsmSkip \/ FsmBind \/ FsmRestart \/ FsmRenew
  <2>1. Receive /\ dhcpip' = dhcpip /\ (dhcpState' = "SELECT" => dhcpState = "SELECT")
    BY <1>4 DEF FsmSkip, FsmBind, FsmRestart, FsmRenew
  <2>2. QED
    BY <1>1, <1>2, <2>1, ReceiveEffect
<1>5. CASE FsmSelect
  <2>1. Receive /\ dhcpState = "SELECT"
    BY <1>5 DEF FsmSelect
  <2>2. \A i \in DOMAIN inbox' : ~(inbox'[i].type = "ACK" /\ inbox'[i].cur)
    BY <1>1, <2>1, ReceiveEffect DEF Acked
  <2>3. QED
    BY <2>2 DEF Acked
<1>6. CASE FsmReturn
  BY <1>2, <1>6 DEF FsmReturn
<1>7. CASE dhcpLease
  <2>1. dhcpip' = dhcpip /\ left' = left /\ inbox' = inbox
    BY <1>7 DEF dhcpLease, LeaseInvalid
  <2>2. dhcpState' = "SELECT" => dhcpState = "SELECT"
    BY <1>7 DEF dhcpLease, LeaseInvalid, LeaseWait, LeaseBound, LeaseRenew, LeaseRebind
  <2>3. QED
    BY <1>2, <2>1, <2>2
<1>8. CASE SketchReceive
  <2>1. \A i \in DOMAIN inbox' : \E j \in DOMAIN inbox : inbox'[i] = inbox[j]
    BY <1>1, <1>8, TailElements DEF SketchReceive, TypeOK
  <2>2. QED
    BY <1>2, <1>8, <2>1 DEF SketchReceive
<1>9. ASSUME NEW s \in Server, ServerAnswer(s)
      PROVE  Acked'
  <2>1. dhcpip' = dhcpip /\ dhcpState' = dhcpState
    BY <1>1, <1>9, AnswerEffect
  <2>2. SUFFICES ASSUME NEW i \in DOMAIN inbox', inbox'[i].type = "ACK", inbox'[i].cur
                 PROVE  /\ inbox'[i].from = dhcpip
                        /\ dhcpState # "SELECT"
                        /\ left'[dhcpip] = LeaseTime + 1
    BY <2>1 DEF Acked
  <2>3. CASE i \in DOMAIN inbox /\ inbox'[i] = inbox[i]
    <3>1. /\ inbox'[i].from = dhcpip /\ dhcpState # "SELECT"
          /\ left[dhcpip] = LeaseTime + 1
      BY <1>1, <2>2, <2>3 DEF Acked
    <3>2. inbox'[i] \in Frame
      BY <1>1, <2>3 DEF TypeOK
    <3>3. dhcpip \in Server
      BY <2>2, <3>1, <3>2 DEF Frame
    <3>4. left'[dhcpip] >= left[dhcpip] /\ left'[dhcpip] \in 0 .. LeaseTime + 1
      BY <1>1, <1>9, <3>3, AnswerEffect
    <3>5. QED
      BY <3>1, <3>4, Sizes
  <2>4. CASE /\ inbox'[i].from = s /\ left'[s] = LeaseTime + 1
             /\ pending[s] # <<>> /\ Head(pending[s]).cur
             /\ Head(pending[s]).type = "REQUEST"
    <3>1. 1 \in DOMAIN pending[s] /\ Head(pending[s]) = pending[s][1]
      BY <1>1, <2>4, TailElements DEF TypeOK
    <3>2. s = dhcpip /\ dhcpState # "SELECT"
      BY <1>1, <2>4, <3>1 DEF Requested
    <3>3. QED
      BY <2>4, <3>2
  <2>5. QED
    BY <1>1, <1>9, <2>2, <2>3, <2>4, AnswerEffect
<1>10. CASE Lose
  BY <1>1, <1>2, <1>10, LoseEffect
<1>11. CASE Stray
  <2>1. PICK t \in {"udp", "arp"} : Deliver([type |-> t])
    BY <1>11 DEF Stray
  <2>2. [type |-> t] \in Frame /\ [type |-> t].type # "ACK"
    BY DEF Frame
  <2>3. \A i \in DOMAIN inbox' :
           \/ \E j \in DOMAIN inbox : inbox'[i] = inbox[j]
           \/ inbox'[i].type # "ACK"
    BY <1>1, <2>1, <2>2, DeliverType
  <2>4. QED
    BY <1>2, <1>11, <2>3 DEF Stray
<1>12. CASE LinkChange
  BY <1>2, <1>12 DEF LinkChange
<1>13. CASE Tick
  <2>1. inbox' = <<>>
    BY <1>13 DEF Tick, Settled
  <2>2. QED
    BY <2>1 DEF Acked
<1>14. CASE UNCHANGED vars
  BY <1>2, <1>14 DEF vars
<1>15. QED
  BY <1>3, <1>4, <1>5, <1>6, <1>7, <1>8, <1>9, <1>10, <1>11, <1>12, <1>13, <1>14
     DEF Next, FsmStep

Timely == InRange /\ Kept /\ OnTime

(* While the clock is in range, dhcpLease's timers are what they say.      *)
LEMMA Timers ==
    ASSUME Inv, dhcpValid
    PROVE  /\ leaseStart # 0 /\ ~rolled
           /\ renew = leaseStart + LeaseTime \div 2
           /\ rebind = leaseStart + (LeaseTime \div 8) * 7
           /\ restart = leaseStart + LeaseTime
           /\ (LeaseTime \div 8) * 7 <= LeaseTime - 1
           /\ LeaseTime \div 2 + 1 <= LeaseTime - 1
<1>1. /\ leaseStart \in Nat /\ now \in Nat /\ 1 <= leaseStart /\ leaseStart <= now
      /\ now + LeaseTime + 2 <= ClockMod
      /\ LeaseTime \in Nat /\ LeaseTime >= 8 /\ ClockMod \in Nat
  BY Sizes DEF Inv, TypeOK, Kept, InRange
<1>2. ~rolled /\ ~adjusted
  BY <1>1 DEF rolled, adjusted
<1>3. /\ LeaseTime \div 2 \in Nat /\ LeaseTime \div 2 + 1 <= LeaseTime - 1
      /\ LeaseTime \div 8 \in Nat /\ (LeaseTime \div 8) * 7 <= LeaseTime - 1
  BY <1>1
<1>4. /\ leaseStart + LeaseTime \div 2 \in 0 .. ClockMod - 1
      /\ leaseStart + (LeaseTime \div 8) * 7 \in 0 .. ClockMod - 1
      /\ leaseStart + LeaseTime \in 0 .. ClockMod - 1
  BY <1>1, <1>3
<1>5. QED
  BY <1>1, <1>2, <1>3, <1>4, WrapId DEF renew, rebind, restart

LEMMA FsmTimely ==
    ASSUME Inv, FsmStep
    PROVE  Timely'
<1> USE DEF clientVars, callVars, clockVars, netVars, dhcpValid
<1>1. TypeOK /\ Acked /\ InRange /\ Kept /\ OnTime
  BY DEF Inv
<1>2. ASSUME UNCHANGED <<now, left, polled, leaseStart, dhcpip, dhcpState>>
      PROVE  Timely'
  BY <1>1, <1>2 DEF Timely, InRange, Kept, OnTime, Slack
<1>3. ASSUME UNCHANGED now, dhcpState' \in {"INIT", "SELECT", "REQUEST"}
      PROVE  Timely'
  BY <1>1, <1>3 DEF Timely, InRange, Kept, OnTime
<1>4. ASSUME Receive, Answer("ACK"), dhcpState # "SELECT",
             dhcpState' = "BOUND", leaseStart' = now, dhcpip' = dhcpip
      PROVE  Timely'
  <2>1. left[dhcpip] = LeaseTime + 1
    BY <1>1, <1>4, ReceiveEffect DEF Acked, Answer
  <2>2. UNCHANGED <<polled, now, left>>
    BY <1>1, <1>4, ReceiveEffect
  <2>3. now \in Nat /\ LeaseTime \in Nat /\ LeaseTime \div 2 \in Nat /\ now >= 1
    BY <1>1, Sizes DEF TypeOK, InRange
  <2>4. now' - leaseStart' = 0
    BY <1>4, <2>2, <2>3
  <2>5. QED
    BY <1>1, <1>4, <2>1, <2>2, <2>3, <2>4 DEF Timely, InRange, Kept, OnTime, Slack
<1>5. CASE FsmInit
  BY <1>3, <1>5 DEF FsmInit
<1>6. CASE FsmSkip
  BY <1>1, <1>2, <1>6, ReceiveEffect DEF FsmSkip
<1>7. CASE FsmSelect
  BY <1>1, <1>3, <1>7, ReceiveEffect DEF FsmSelect
<1>8. CASE FsmBind
  BY <1>4, <1>8 DEF FsmBind
<1>9. CASE FsmRestart
  BY <1>1, <1>3, <1>9, ReceiveEffect DEF FsmRestart
<1>10. CASE FsmRenew
  BY <1>1, <1>2, <1>3, <1>4, <1>10, ReceiveEffect DEF FsmRenew
<1>11. QED
  BY <1>5, <1>6, <1>7, <1>8, <1>9, <1>10 DEF FsmStep

LEMMA LeaseTimely ==
    ASSUME Inv, dhcpLease
    PROVE  Timely'
<1> DEFINE d == now - leaseStart
<1>1. TypeOK /\ InRange /\ Kept /\ OnTime
  BY DEF Inv
<1>2. polled' = TRUE /\ UNCHANGED <<now, left, dhcpip>>
  BY DEF dhcpLease, LeaseInvalid, clockVars, clientVars
<1>3. CASE ~dhcpValid
  <2>1. ~dhcpValid'
    BY <1>3 DEF dhcpLease, LeaseInvalid, LeaseWait, LeaseBound, LeaseRenew,
                LeaseRebind, dhcpValid, clientVars
  <2>2. QED
    BY <1>1, <1>2, <2>1 DEF Timely, InRange, Kept, OnTime, dhcpValid
<1>4. CASE dhcpValid
  <2>1. /\ leaseStart # 0 /\ ~rolled
        /\ renew = leaseStart + LeaseTime \div 2
        /\ rebind = leaseStart + (LeaseTime \div 8) * 7
        /\ restart = leaseStart + LeaseTime
        /\ (LeaseTime \div 8) * 7 <= LeaseTime - 1
        /\ LeaseTime \div 2 + 1 <= LeaseTime - 1
    BY <1>4, Timers
  <2>2. leaseStart' = leaseStart /\ (LeaseWait \/ LeaseBound \/ LeaseRenew \/ LeaseRebind)
    BY <2>1 DEF dhcpLease, LeaseInvalid
  <2>3. /\ now \in Nat /\ leaseStart \in Nat /\ LeaseTime \in Nat
        /\ LeaseTime \div 2 \in Nat /\ LeaseTime \div 8 \in Nat
        /\ Slack' = 0 /\ Slack \in 0 .. 1
    BY <1>1, <1>2, Sizes DEF TypeOK, Slack
  <2>4. InRange' /\ Kept'
    BY <1>1, <1>2, <1>4, <2>2 DEF InRange, Kept
  <2>5. OnTime'
    <3>1. CASE LeaseWait
      BY <1>4, <3>1 DEF LeaseWait, dhcpValid
    <3>2. CASE LeaseBound
      BY <1>1, <1>2, <2>1, <2>2, <2>3, <3>2 DEF LeaseBound, OnTime
    <3>3. CASE LeaseRenew
      BY <1>1, <1>2, <2>1, <2>2, <2>3, <3>3 DEF LeaseRenew, OnTime
    <3>4. CASE LeaseRebind
      BY <1>1, <1>2, <2>1, <2>2, <2>3, <3>4 DEF LeaseRebind, OnTime
    <3>5. QED
      BY <2>2, <3>1, <3>2, <3>3, <3>4
  <2>6. QED
    BY <2>4, <2>5 DEF Timely
<1>5. QED
  BY <1>3, <1>4

(* A tick takes one from what is left and from what dhcpLease may be late. *)
LEMMA TickTimely ==
    ASSUME Inv, ~Rollover, Tick
    PROVE  Timely'
<1> USE DEF clientVars, callVars, clockVars, netVars
<1>1. TypeOK /\ InRange /\ Kept /\ OnTime
  BY DEF Inv
<1>2. /\ now \in Nat /\ leaseStart \in Nat /\ LeaseTime \in Nat /\ ClockMod \in Nat
      /\ LeaseTime \div 2 \in Nat /\ now + LeaseTime + 2 < ClockMod
  BY <1>1, Sizes DEF TypeOK, Tick
<1>3. now' = now + 1
  <2>1. now + 1 \in 0 .. ClockMod - 1
    BY <1>2
  <2>2. QED
    BY <2>1, WrapId DEF Tick
<1>4. Slack = 0 /\ Slack' = 1 /\ UNCHANGED <<dhcpState, leaseStart, dhcpip>>
  BY DEF Tick, Slack
<1>5. InRange'
  BY <1>1, <1>2, <1>3 DEF InRange
<1>6. OnTime'
  BY <1>1, <1>2, <1>3, <1>4 DEF OnTime
<1>7. Kept'
  <2>1. SUFFICES ASSUME dhcpValid
                 PROVE  /\ 1 <= leaseStart /\ leaseStart <= now'
                        /\ left'[dhcpip] + (now' - leaseStart) >= LeaseTime + 1
    BY <1>4 DEF Kept, dhcpValid
  <2>2. dhcpip \in Server
    BY <1>1, <2>1 DEF TypeOK
  <2>3. left[dhcpip] \in Nat /\ left'[dhcpip] \in Nat /\ left'[dhcpip] >= left[dhcpip] - 1
    BY SMTT(30), <1>1, <2>2 DEF Tick, TypeOK
  <2>4. QED
    BY <1>1, <1>2, <1>3, <2>1, <2>3 DEF Kept
<1>8. QED
  BY <1>5, <1>6, <1>7 DEF Timely

LEMMA InvStep ==
    ASSUME Inv, ~Rollover, [Next]_vars
    PROVE  Inv'
<1> USE DEF clientVars, callVars, clockVars, netVars
<1>1. TypeOK /\ InRange /\ Kept /\ OnTime
  BY DEF Inv
<1>2. ASSUME UNCHANGED <<now, left, polled, leaseStart, dhcpip, dhcpState>>
      PROVE  Timely'
  BY <1>1, <1>2 DEF Timely, InRange, Kept, OnTime, Slack, dhcpValid
<1>3. Timely'
  <2>1. CASE FsmReturn \/ SketchReceive \/ Lose \/ Stray \/ LinkChange
    BY <1>2, <2>1 DEF FsmReturn, SketchReceive, Lose, Stray, LinkChange
  <2>2. ASSUME NEW s \in Server, ServerAnswer(s)
        PROVE  Timely'
    <3>1. /\ UNCHANGED <<now, polled, leaseStart, dhcpip, dhcpState>>
          /\ left' \in [Server -> 0 .. LeaseTime + 1]
          /\ \A t \in Server : left'[t] >= left[t]
      BY <1>1, <2>2, AnswerEffect
    <3>2. InRange' /\ OnTime'
      BY <1>1, <3>1 DEF InRange, OnTime, Slack
    <3>3. Kept'
      <4>1. SUFFICES ASSUME dhcpValid
                     PROVE  left'[dhcpip] + (now - leaseStart) >= LeaseTime + 1
        BY <1>1, <3>1 DEF Kept, dhcpValid
      <4>2. dhcpip \in Server
        BY <1>1, <4>1 DEF TypeOK
      <4>3. /\ left[dhcpip] \in Nat /\ left'[dhcpip] \in Nat
            /\ left'[dhcpip] >= left[dhcpip]
            /\ now \in Nat /\ leaseStart \in Nat /\ LeaseTime \in Nat
        BY <1>1, <3>1, <4>2, Sizes DEF TypeOK
      <4>4. QED
        BY <1>1, <4>1, <4>3 DEF Kept
    <3>4. QED
      BY <3>2, <3>3 DEF Timely
  <2>3. CASE UNCHANGED vars
    BY <1>2, <2>3 DEF vars
  <2>4. QED
    BY <2>1, <2>2, <2>3, FsmTimely, LeaseTimely, TickTimely DEF Next
<1>4. TypeOK' /\ Requested' /\ Acked'
  BY <1>1, TypeStep, RequestedStep, AckedStep
<1>5. QED
  BY <1>3, <1>4 DEF Inv, Timely

LEMMA InvInit == Init => Inv
<1>1. ASSUME Init
      PROVE  Inv
  <2>1. Requested /\ Acked
    BY <1>1 DEF Init, Requested, Acked
  <2>2. InRange
    BY <1>1, Sizes DEF Init, InRange
  <2>3. Kept /\ OnTime
    BY <1>1 DEF Init, Kept, OnTime, dhcpValid
  <2>4. QED
    BY <1>1, <2>1, <2>2, <2>3, TypeInit DEF Inv
<1>2. QED
  BY <1>1

LEMMA InvHolds == Inv => LeaseHeld
<1>1. ASSUME Inv, dhcpValid, polled
      PROVE  left[dhcpip] > 0 /\ myip = dhcpip
  <2>1. /\ dhcpip \in Server /\ myip = dhcpip /\ left[dhcpip] \in Nat
        /\ now \in Nat /\ leaseStart \in Nat /\ LeaseTime \in Nat
        /\ LeaseTime \div 2 <= LeaseTime
    BY <1>1, Sizes DEF Inv, TypeOK, dhcpValid
  <2>2. now - leaseStart <= LeaseTime
    BY <1>1, <2>1 DEF Inv, OnTime, Slack, dhcpValid
  <2>3. QED
    BY <1>1, <2>1, <2>2 DEF Inv, Kept
<1>2. QED
  BY <1>1 DEF LeaseHeld

(* dhcpValid() is right while millis() does not wrap around: whatever is   *)
(* lost, late, refused or sent by other hosts, and however many servers    *)
(* answer, the server named by an ACK still keeps the address while a      *)
(* client that calls dhcpLease in every tick considers its lease valid.    *)
(* (The run dhcp_rollover shows what a wrap does to the timers.)           *)
THEOREM LeaseCorrect == ~Rollover => (Spec => []LeaseHeld)
<1>1. Init => Inv
  BY InvInit
<1>2. ASSUME ~Rollover
      PROVE  Inv /\ [Next]_vars => Inv'
  BY <1>2, InvStep
<1>3. Inv => LeaseHeld
  BY InvHolds
<1>4. ASSUME ~Rollover
      PROVE  Spec => []LeaseHeld
  <2>1. Inv /\ [Next]_vars => Inv'
    BY <1>2, <1>4
  <2>2. QED
    BY <1>1, <1>3, <2>1, PTL DEF Spec
<1>5. QED
  BY <1>4
=============================================================================
