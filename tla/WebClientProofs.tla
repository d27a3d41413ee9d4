--------------------------- MODULE WebClientProofs ---------------------------
(***************************************************************************)
(* Proofs about the web client and the sketches, for any number of pages   *)
(* and connections, any formats and texts, and whatever the network does.  *)
(***************************************************************************)
EXTENDS WebClient, StashProofs

(* The states of noipClient in which it waits for a server *)
Waiting == actual_status \in {"WAITING_FOR_PUBLIC_IP", "WAITING_FOR_NOIP"}

(* What may arrive while the servers know what they do. *)
Packets == {NoPacket} \cup Deliverable
-----------------------------------------------------------------------------
(* What the servers know of the connections is a record for each. *)
IsConn(c) ==
    c = [p \in 1 .. MaxSyns |-> [fd |-> c[p].fd, ip |-> c[p].ip, got |-> c[p].got]]

Given(c, p, x) == [c EXCEPT ![p].got = x]
Opened(c, p, a, b) == [c EXCEPT ![p] = [fd |-> a, ip |-> b, got |-> NoText]]

LEMMA ConnGiven ==
    ASSUME NEW c, IsConn(c), NEW p \in 1 .. MaxSyns, NEW x, NEW d, d = Given(c, p, x)
    PROVE  /\ IsConn(d)
           /\ \A q \in 1 .. MaxSyns : /\ d[q].fd = c[q].fd /\ d[q].ip = c[q].ip
                                      /\ d[q].got = IF q = p THEN x ELSE c[q].got
<1>1. /\ DOMAIN c = 1 .. MaxSyns
      /\ \A q \in 1 .. MaxSyns : c[q] = [fd |-> c[q].fd, ip |-> c[q].ip, got |-> c[q].got]
  BY DEF IsConn
<1>2. d = [c EXCEPT ![p] = [c[p] EXCEPT !.got = x]]
  BY DEF Given
<1>3. [c[p] EXCEPT !.got = x] = [fd |-> c[p].fd, ip |-> c[p].ip, got |-> x]
  BY <1>1
<1>4. d = [c EXCEPT ![p] = [fd |-> c[p].fd, ip |-> c[p].ip, got |-> x]]
  BY <1>2, <1>3
<1>5. \A q \in 1 .. MaxSyns :
        d[q] = IF q = p THEN [fd |-> c[p].fd, ip |-> c[p].ip, got |-> x] ELSE c[q]
  BY <1>1, <1>4
<1>6. DOMAIN d = 1 .. MaxSyns /\ d = [q \in 1 .. MaxSyns |-> d[q]]
  BY <1>1, <1>4
<1>7. \A q \in 1 .. MaxSyns : /\ d[q].fd = c[q].fd /\ d[q].ip = c[q].ip
                              /\ d[q].got = IF q = p THEN x ELSE c[q].got
  BY <1>5
<1>8. \A q \in 1 .. MaxSyns : d[q] = [fd |-> d[q].fd, ip |-> d[q].ip, got |-> d[q].got]
  BY <1>1, <1>5
<1>9. QED
  BY <1>6, <1>7, <1>8 DEF IsConn

LEMMA ConnOpened ==
    ASSUME NEW c, IsConn(c), NEW p \in 1 .. MaxSyns, NEW a, NEW b,
           NEW d, d = Opened(c, p, a, b)
    PROVE  /\ IsConn(d)
           /\ \A q \in 1 .. MaxSyns : /\ d[q].fd = IF q = p THEN a ELSE c[q].fd
                                      /\ d[q].ip = IF q = p THEN b ELSE c[q].ip
                                      /\ d[q].got = IF q = p THEN NoText ELSE c[q].got
<1>1. /\ DOMAIN c = 1 .. MaxSyns
      /\ \A q \in 1 .. MaxSyns : c[q] = [fd |-> c[q].fd, ip |-> c[q].ip, got |-> c[q].got]
  BY DEF IsConn
<1>2. \A q \in 1 .. MaxSyns :
        d[q] = IF q = p THEN [fd |-> a, ip |-> b, got |-> NoText] ELSE c[q]
  BY <1>1 DEF Opened
<1>3. DOMAIN d = 1 .. MaxSyns /\ d = [q \in 1 .. MaxSyns |-> d[q]]
  BY <1>1 DEF Opened
<1>4. \A q \in 1 .. MaxSyns : d[q] = [fd |-> d[q].fd, ip |-> d[q].ip, got |-> d[q].got]
  BY <1>1, <1>2
<1>5. \A q \in 1 .. MaxSyns : /\ d[q].fd = IF q = p THEN a ELSE c[q].fd
                              /\ d[q].ip = IF q = p THEN b ELSE c[q].ip
                              /\ d[q].got = IF q = p THEN NoText ELSE c[q].got
  BY <1>2
<1>6. QED
  BY <1>3, <1>4, <1>5 DEF IsConn

LEMMA Arrives ==
    ASSUME IsConn(conn), NEW f \in Packets
    PROVE  /\ f.proto \in {"none", "arp", "dns", "tcp"}
           /\ f.proto = "dns" =>
                \E q \in queries : f.tid = q.tid /\ f.name = q.name /\ f.ok \in BOOLEAN
           /\ f.proto = "tcp" => f.port \in 1 .. MaxSyns /\ f.data \in {NoText, conn[f.port].got}
<1>1. DOMAIN conn = 1 .. MaxSyns
  BY DEF IsConn
<1>2. CASE f = NoPacket \/ f = ArpReply
  BY <1>2 DEF NoPacket, ArpReply
<1>3. CASE f \in {Answer(q.tid, ok, q.name) : q \in queries, ok \in BOOLEAN}
  BY <1>3 DEF Answer
<1>4. ASSUME NEW p \in 1 .. MaxSyns, f \in Segments(p)
      PROVE  f.proto = "tcp" /\ f.port = p /\ f.data \in {NoText, conn[p].got}
  <2>1. \E flags, data : f = Segment(p, flags, data) /\ data \in {NoText, conn[p].got}
    BY <1>4 DEF Segments
  <2>2. QED
    BY <2>1 DEF Segment
<1>5. \/ f = NoPacket \/ f = ArpReply
      \/ f \in {Answer(q.tid, ok, q.name) : q \in queries, ok \in BOOLEAN}
      \/ \E p \in 1 .. MaxSyns : f \in Segments(p)
  BY <1>1 DEF Packets, Deliverable
<1>6. QED
  BY <1>2, <1>3, <1>4, <1>5
-----------------------------------------------------------------------------
(* What a pass of packetLoop does to the TCP client: it gives up a         *)
(* connection or nothing happens to it,                                    *)
Still ==
    /\ UNCHANGED <<mem, tcpclient_src_port_l, result_fd, filled, conn>>
    /\ \/ tcp_client_state' \in {tcp_client_state, 5}
       \/ tcp_client_state = 2 /\ tcp_client_state' = 1
(* it opens one,                                                           *)
Opens ==
    /\ UNCHANGED <<mem, result_fd, filled>>
    /\ tcp_client_state = 1 /\ tcp_client_state' = 2
    /\ tcpclient_src_port_l < MaxSyns /\ tcpclient_src_port_l' = tcpclient_src_port_l + 1
    /\ \/ conn' = conn
       \/ /\ hisip \in Name
          /\ conn' = Opened(conn, tcpclient_src_port_l + 1, tcp_fd, hisip)
(* it sends the message,                                                   *)
Fills(p) ==
    /\ ~mem.short
    /\ tcp_client_state = 2 /\ tcp_client_state' = 3
    /\ mem' = datafill.mem /\ result_fd' = BogusFd /\ filled' = filled + 1
    /\ UNCHANGED tcpclient_src_port_l
    /\ \/ conn' = conn
       \/ /\ conn' = Given(conn, p, datafill.data)
          /\ conn[p].got = NoText
(* or it takes a reply.                                                    *)
Results(p) ==
    /\ UNCHANGED <<mem, tcpclient_src_port_l, filled, conn>>
    /\ tcp_client_state = 3 /\ tcp_client_state' = 5
    /\ result_fd' = conn[p].fd
    /\ buffer' = conn[p].got /\ conn[p].got # NoText

Looped == Still \/ Opens \/ \E p \in 1 .. MaxSyns : Fills(p) \/ Results(p)

LEMMA ConnSame ==
    ASSUME NEW c, IsConn(c), NEW p \in 1 .. MaxSyns, NEW x
    PROVE  [c EXCEPT ![p].got = IF @ = NoText THEN x ELSE @] =
             IF c[p].got = NoText THEN Given(c, p, x) ELSE c
<1> DEFINE y == IF c[p].got = NoText THEN x ELSE c[p].got
           d == [c EXCEPT ![p].got = y]
<1>1. CASE c[p].got = NoText
  BY <1>1 DEF Given
<1>2. CASE c[p].got # NoText
  <2>1. /\ DOMAIN c = 1 .. MaxSyns
        /\ c[p] = [fd |-> c[p].fd, ip |-> c[p].ip, got |-> c[p].got]
    BY DEF IsConn
  <2>2. [c[p] EXCEPT !.got = c[p].got] = c[p]
    BY <2>1
  <2>3. [c EXCEPT ![p] = c[p]] = c
    BY <2>1 DEF IsConn
  <2>4. d = [c EXCEPT ![p] = [c[p] EXCEPT !.got = c[p].got]]
    BY <1>2
  <2>5. d = c
    BY <2>2, <2>3, <2>4
  <2>6. QED
    BY <1>2, <2>5
<1>3. QED
  BY <1>1, <1>2

LEMMA Loop ==
    ASSUME IsConn(conn), NEW f \in Packets, packetLoop(f)
    PROVE  Looped /\ UNCHANGED <<tcp_fd, request, dnsVars>>
<1>1. CASE f.proto = "none"
  <2>1. idle
    BY <1>1 DEF packetLoop
  <2>2. Still \/ Opens
    BY <2>1 DEF idle, client_syn, Still, Opens, Opened
  <2>3. QED
    BY <2>1, <2>2 DEF idle, Looped, dnsVars
<1>2. CASE f.proto \in {"arp", "dns"}
  BY <1>2 DEF packetLoop, storeGwMac, Looped, Still, tcpVars
<1>3. CASE f.proto = "tcp"
  <2> DEFINE p == f.port
  <2>1. p \in 1 .. MaxSyns /\ f.data \in {NoText, conn[p].got}
    BY <1>3, Arrives
  <2>2. tcpClient(f) /\ buffer' = f.data
    BY <1>3 DEF packetLoop, DataOf
  <2>3. UNCHANGED <<tcp_fd, request, dnsVars>>
    BY <2>2 DEF tcpClient
  <2>4. \/ Still
        \/ fill(f) /\ tcp_client_state = 2
        \/ /\ result(f) /\ tcp_client_state = 3 /\ f.data # NoText /\ tcp_client_state' = 5
           /\ UNCHANGED <<mem, filled, conn>>
    BY <2>2 DEF tcpClient, Still
  <2>5. CASE fill(f) /\ tcp_client_state = 2
    <3>1. UNCHANGED tcpclient_src_port_l
      BY <2>2 DEF tcpClient
    <3>2. Fills(p)
      BY <2>1, <2>5, <3>1, ConnSame DEF fill, Fills
    <3>3. QED
      BY <2>1, <2>3, <3>2 DEF Looped
  <2>6. CASE /\ result(f) /\ tcp_client_state = 3 /\ f.data # NoText /\ tcp_client_state' = 5
             /\ UNCHANGED <<mem, filled, conn>>
    <3>1. UNCHANGED tcpclient_src_port_l
      BY <2>2 DEF tcpClient
    <3>2. Results(p)
      BY <2>1, <2>2, <2>6, <3>1 DEF result, Results
    <3>3. QED
      BY <2>1, <2>3, <3>2 DEF Looped
  <2>7. QED
    BY <2>3, <2>4, <2>5, <2>6 DEF Looped
<1>4. QED
  BY <1>1, <1>2, <1>3, Arrives
-----------------------------------------------------------------------------
(* The parts of the invariant about the client and the network: types,     *)
NetTypes ==
    /\ waitgwmac \in SUBSET {InitialArp, HaveGwMac, AcceptArpReply}
    /\ delaycnt \in 0 .. DelayMod - 1 /\ asked \in BOOLEAN
    /\ tcp_client_state \in {0, 1, 2, 3, 5} /\ tcp_fd \in 0 .. 7
    /\ tcpclient_src_port_l \in 0 .. MaxSyns
    /\ result_fd \in 0 .. 7 \cup {BogusFd}
    /\ hisip \in Name \cup {NoAddr} /\ dnstid_l \in 0 .. 255
    /\ \A q \in queries : q.name \in Name
    /\ IsConn(conn) /\ \A p \in 1 .. MaxSyns : conn[p].fd \in 0 .. 7
    /\ request.n \in Nat
(* and a message that is to be sent has not been taken yet.                *)
Filling == filled \in {0, 1} /\ (tcp_client_state \in {1, 2} => filled = 0)

LEMMA DelayNext ==
    ASSUME delaycnt \in 0 .. DelayMod - 1
    PROVE  (delaycnt + 1) % DelayMod \in 0 .. DelayMod - 1
BY NetAssumption

LEMMA LoopNet ==
    ASSUME NetTypes, Filling, NEW f \in Packets, packetLoop(f)
    PROVE  NetTypes' /\ Filling'
<1>1. IsConn(conn)
  BY DEF NetTypes
<1>2. Looped /\ UNCHANGED <<tcp_fd, request, dnsVars>>
  BY <1>1, Loop
<1>3. /\ waitgwmac' \in SUBSET {InitialArp, HaveGwMac, AcceptArpReply}
      /\ delaycnt' \in 0 .. DelayMod - 1 /\ asked' \in BOOLEAN
  <2>1. CASE idle
    <3>1. delaycnt' \in 0 .. DelayMod - 1
      BY <2>1, DelayNext DEF idle, NetTypes
    <3>2. waitgwmac' \in {waitgwmac, waitgwmac \cup {AcceptArpReply}} /\ asked' \in {asked, TRUE}
      BY <2>1 DEF idle, whoHas
    <3>3. QED
      BY <3>1, <3>2 DEF NetTypes
  <2>2. CASE storeGwMac
    BY <2>2 DEF storeGwMac, NetTypes
  <2>3. CASE UNCHANGED gwVars
    BY <2>3 DEF gwVars, NetTypes
  <2>4. QED
    BY <2>1, <2>2, <2>3 DEF packetLoop, tcpClient, gwVars
<1>4. CASE Still
  BY <1>2, <1>3, <1>4 DEF Still, NetTypes, Filling, dnsVars
<1>5. CASE Opens
  <2>1. tcpclient_src_port_l + 1 \in 1 .. MaxSyns
    BY <1>5, NetAssumption DEF Opens, NetTypes
  <2>2. IsConn(conn') /\ \A p \in 1 .. MaxSyns : conn'[p].fd \in 0 .. 7
    <3>1. CASE conn' = conn
      BY <3>1 DEF NetTypes
    <3>2. CASE conn' = Opened(conn, tcpclient_src_port_l + 1, tcp_fd, hisip)
      <4>1. /\ IsConn(conn')
            /\ \A q \in 1 .. MaxSyns :
                 /\ conn'[q].fd = IF q = tcpclient_src_port_l + 1 THEN tcp_fd ELSE conn[q].fd
                 /\ conn'[q].ip = IF q = tcpclient_src_port_l + 1 THEN hisip ELSE conn[q].ip
                 /\ conn'[q].got = IF q = tcpclient_src_port_l + 1 THEN NoText ELSE conn[q].got
        BY <1>1, <2>1, <3>2, ConnOpened
      <4>2. QED
        BY <4>1 DEF NetTypes
    <3>3. QED
      BY <1>5, <3>1, <3>2 DEF Opens
  <2>3. QED
    BY <1>2, <1>3, <1>5, <2>1, <2>2 DEF Opens, NetTypes, Filling, dnsVars
<1>6. ASSUME NEW p \in 1 .. MaxSyns, Fills(p)
      PROVE  NetTypes' /\ Filling'
  <2>1. IsConn(conn') /\ \A q \in 1 .. MaxSyns : conn'[q].fd = conn[q].fd
    <3>1. CASE conn' = conn
      BY <1>1, <3>1
    <3>2. CASE conn' = Given(conn, p, datafill.data)
      <4>1. /\ IsConn(conn')
            /\ \A q \in 1 .. MaxSyns :
                 /\ conn'[q].fd = conn[q].fd /\ conn'[q].ip = conn[q].ip
                 /\ conn'[q].got = IF q = p THEN datafill.data ELSE conn[q].got
        BY <1>1, <3>2, ConnGiven
      <4>2. QED
        BY <4>1
    <3>3. QED
      BY <1>6, <3>1, <3>2 DEF Fills
  <2>2. QED
    BY <1>2, <1>3, <1>6, <2>1 DEF Fills, NetTypes, Filling, dnsVars
<1>7. ASSUME NEW p \in 1 .. MaxSyns, Results(p)
      PROVE  NetTypes' /\ Filling'
  BY <1>2, <1>3, <1>7 DEF Results, NetTypes, Filling, dnsVars
<1>8. QED
  BY <1>2, <1>4, <1>5, <1>6, <1>7 DEF Looped

LEMMA LookupNet ==
    ASSUME NetTypes, Filling, NEW f \in Packets, lookupReceive(f)
    PROVE  NetTypes' /\ Filling'
<1>1. CASE UNCHANGED netVars
  BY <1>1 DEF netVars, gwVars, tcpVars, dnsVars, NetTypes, Filling
<1>2. CASE storeGwMac
  BY <1>2 DEF storeGwMac, tcpVars, dnsVars, NetTypes, Filling
<1>3. CASE checkForDnsAnswer(f) /\ UNCHANGED <<gwVars, tcpVars, dnstid_l, queries>>
  <2>1. f.proto = "dns" => f.name \in Name
    BY Arrives DEF NetTypes
  <2>2. hisip' \in Name \cup {NoAddr}
    BY <1>3, <2>1 DEF checkForDnsAnswer, NetTypes
  <2>3. QED
    BY <1>3, <2>2 DEF gwVars, tcpVars, NetTypes, Filling
<1>4. QED
  BY <1>1, <1>2, <1>3 DEF lookupReceive
-----------------------------------------------------------------------------
(* The parts about the sketches: types, the addresses, and what the state  *)
(* of noipClient is while a name is looked up.                             *)
SketchTypes ==
    /\ sketch \in {"noipClient", "pachube", "stashTest"}
    /\ pc \in {"setup", "wait", "answer", "receive", "work"}
    /\ name \in {"get", "noip", "host"}
    /\ attempt \in 0 .. MaxAttempts /\ checks \in 0 .. MaxChecks
    /\ actual_status \in {"IDLE", "WAITING_FOR_PUBLIC_IP", "NEEDS_UPDATE", "WAITING_FOR_NOIP",
                          "ERROR"}
    /\ addr = [n \in {"get", "noip"} |-> addr[n]]
    /\ \A n \in {"get", "noip"} : addr[n] \in Name \cup {NoAddr}
Flow ==
    /\ pc = "setup" <=> sketch = "stashTest"
    /\ sketch # "noipClient" => actual_status = "IDLE" /\ name = "get"
    /\ pc \in {"wait", "answer"} =>
         IF name = "host" THEN actual_status = "WAITING_FOR_PUBLIC_IP"
         ELSE actual_status \in {"IDLE", "ERROR"}
    /\ actual_status \in {"IDLE", "NEEDS_UPDATE"} => attempt # MaxAttempts

ControlInv == NetTypes /\ Filling /\ SketchTypes /\ Flow

LEMMA ControlInit == Init => ControlInv
<1> SUFFICES ASSUME Init
             PROVE  ControlInv
  OBVIOUS
<1>1. delaycnt \in 0 .. DelayMod - 1
  BY NetAssumption DEF Init
<1>2. IsConn(conn) /\ \A p \in 1 .. MaxSyns : conn[p].fd = 0
  BY DEF Init, IsConn, NoPort
<1>3. NetTypes /\ Filling
  <2>1. /\ waitgwmac = {InitialArp} /\ asked = FALSE /\ tcp_client_state = 0 /\ tcp_fd = 0
        /\ tcpclient_src_port_l = 0 /\ result_fd = BogusFd /\ hisip = NoAddr /\ dnstid_l = 0
        /\ queries = {} /\ request.n = 0 /\ filled = 0
    BY DEF Init, NoText
  <2>2. /\ waitgwmac \in SUBSET {InitialArp, HaveGwMac, AcceptArpReply}
        /\ asked \in BOOLEAN /\ tcp_client_state \in {0, 1, 2, 3, 5} /\ Filling
    BY <2>1 DEF Filling
  <2>3. /\ tcp_fd \in 0 .. 7 /\ tcpclient_src_port_l \in 0 .. MaxSyns /\ dnstid_l \in 0 .. 255
        /\ \A p \in 1 .. MaxSyns : conn[p].fd \in 0 .. 7
    BY <1>2, <2>1, NetAssumption
  <2>4. QED
    BY <1>1, <1>2, <2>1, <2>2, <2>3 DEF NetTypes
<1>4. SketchTypes /\ Flow
  BY SketchAssumption DEF Init, SketchTypes, Flow
<1>5. QED
  BY <1>3, <1>4 DEF ControlInv

LEMMA StashTestIs ==
    ASSUME StashTest
    PROVE  stashTest /\ (request' = request \/ request'.n = 0)
<1>1. ASSUME NEW i \in 1 .. 2,
             \/ Create(i) \/ Save(i) \/ Get(i) \/ Prepare(i) \/ Cleanup(i) \/ Release(i)
             \/ \E n \in Lengths : Put(i, n)
             \/ \E k \in 0 .. Len(request.text) : Extract(i, k)
      PROVE  stashTest /\ (request' = request \/ request'.n = 0)
  <2>1. CASE Prepare(i) \/ Cleanup(i)
    BY <2>1 DEF Prepare, Cleanup, NoText
  <2>2. CASE ~(Prepare(i) \/ Cleanup(i))
    BY <1>1, <2>2 DEF Create, Put, Save, Get, Extract, Release
  <2>3. QED
    BY <2>1, <2>2
<1>2. QED
  BY <1>1 DEF StashTest

(* tcpSend *)
LEMMA SendNet ==
    ASSUME NetTypes, NEW m, NEW msg, tcpSend(m, msg), hisip' \in Name \cup {NoAddr},
           UNCHANGED <<gwVars, dnstid_l, queries>>
    PROVE  NetTypes' /\ Filling' /\ request'.n = request.n + 1
<1>1. /\ request' = [n |-> request.n + 1, text |-> msg] /\ tcp_client_state' = 1
      /\ tcp_fd' = (tcp_fd + 1) % 8 /\ filled' = 0
      /\ UNCHANGED <<tcpclient_src_port_l, result_fd, conn>>
  BY DEF tcpSend
<1>2. tcp_fd' \in 0 .. 7
  BY <1>1 DEF NetTypes
<1>3. request'.n = request.n + 1 /\ request'.n \in Nat
  BY <1>1 DEF NetTypes
<1>4. QED
  BY <1>1, <1>2, <1>3 DEF NetTypes, Filling, gwVars

LEMMA FoundFlow ==
    ASSUME ControlInv, pc \in {"wait", "answer"}, NEW ok \in BOOLEAN, Found(ok),
           UNCHANGED <<netVars, sketch, checks>>
    PROVE  ControlInv'
<1>1. NetTypes' /\ Filling'
  BY DEF ControlInv, NetTypes, Filling, netVars, gwVars, tcpVars, dnsVars
<1>2. CASE name = "get" /\ sketch = "noipClient"
  <2>1. /\ addr' \in {addr, [addr EXCEPT !["get"] = hisip]}
        /\ actual_status' \in {actual_status, "ERROR"} /\ attempt' = attempt
        /\ pc' = "wait" /\ name' = "noip"
    BY <1>2 DEF Found, dnsLookup
  <2>2. QED
    BY <1>1, <1>2, <2>1 DEF ControlInv, NetTypes, SketchTypes, Flow
<1>3. CASE name = "get" /\ sketch # "noipClient"
  BY <1>1, <1>3 DEF Found, ControlInv, SketchTypes, Flow
<1>4. CASE name = "noip"
  <2>1. /\ addr' \in {addr, [addr EXCEPT !["noip"] = hisip]}
        /\ actual_status' \in {actual_status, "ERROR"} /\ attempt' = attempt
        /\ pc' = "receive" /\ name' = name
    BY <1>4 DEF Found
  <2>2. QED
    BY <1>1, <1>4, <2>1 DEF ControlInv, NetTypes, SketchTypes, Flow
<1>5. CASE name = "host"
  <2>1. /\ addr' = addr /\ actual_status' \in {"IDLE", "NEEDS_UPDATE"} /\ attempt' = 0
        /\ pc' = "receive" /\ name' = name
    BY <1>5 DEF Found
  <2>2. QED
    BY <1>1, <1>5, <2>1, SketchAssumption DEF ControlInv, SketchTypes, Flow
<1>6. QED
  BY <1>2, <1>3, <1>4, <1>5 DEF ControlInv, SketchTypes

LEMMA NoipFlow ==
    ASSUME ControlInv, noip, NotYet \/ checkPublicIP \/ checkPublicIPResponse \/ PublicIPTimeout
                              \/ updateNoIP \/ checkNoIPResponse \/ NoIPTimeout
    PROVE  ControlInv'
<1>1. /\ pc = "work" /\ sketch = "noipClient" /\ sketch' = sketch /\ addr' = addr
      /\ addr["get"] \in Name \cup {NoAddr} /\ addr["noip"] \in Name \cup {NoAddr}
      /\ NetTypes /\ Filling /\ SketchTypes /\ Flow
  BY DEF noip, ControlInv, SketchTypes
<1>2. CASE NotYet
  BY <1>1, <1>2 DEF NotYet, netVars, gwVars, tcpVars, dnsVars, ControlInv, NetTypes, Filling,
                    SketchTypes, Flow
<1>3. CASE checkPublicIP
  <2>1. NetTypes' /\ Filling'
    BY <1>1, <1>3, SendNet DEF checkPublicIP, Request
  <2>2. /\ actual_status = "IDLE" /\ checks < MaxChecks /\ checks' = checks + 1
        /\ attempt' = attempt + 1 /\ pc' = "receive" /\ name' = name
        /\ actual_status' = "WAITING_FOR_PUBLIC_IP"
    BY <1>3 DEF checkPublicIP, Request
  <2>3. QED
    BY <1>1, <2>1, <2>2, SketchAssumption DEF ControlInv, SketchTypes, Flow
<1>4. CASE checkPublicIPResponse
  <2>1. NetTypes' /\ Filling'
    BY <1>1, <1>4 DEF checkPublicIPResponse, tcpReply, NetTypes, Filling, gwVars, dnsVars
  <2>2. QED
    BY <1>1, <1>4, <2>1 DEF checkPublicIPResponse, dnsLookup, ControlInv, SketchTypes, Flow
<1>5. ASSUME NEW next \in {"IDLE", "NEEDS_UPDATE"}, noResponse(next)
      PROVE  ControlInv'
  <2>1. /\ UNCHANGED <<netVars, name, checks>> /\ pc' = "receive"
        /\ \/ attempt = MaxAttempts /\ actual_status' = "IDLE" /\ attempt' = 0
           \/ attempt # MaxAttempts /\ actual_status' = next /\ attempt' = attempt
    BY <1>5 DEF noResponse
  <2>2. NetTypes' /\ Filling'
    BY <1>1, <2>1 DEF NetTypes, Filling, netVars, gwVars, tcpVars, dnsVars
  <2>3. QED
    BY <1>1, <2>1, <2>2, SketchAssumption DEF ControlInv, SketchTypes, Flow
<1>6. CASE updateNoIP
  <2>1. NetTypes' /\ Filling'
    BY <1>1, <1>6, SendNet DEF updateNoIP, Request
  <2>2. /\ actual_status = "NEEDS_UPDATE" /\ checks' = checks
        /\ attempt' = attempt + 1 /\ pc' = "receive" /\ name' = name
        /\ actual_status' = "WAITING_FOR_NOIP"
    BY <1>6 DEF updateNoIP, Request
  <2>3. QED
    BY <1>1, <2>1, <2>2, SketchAssumption DEF ControlInv, SketchTypes, Flow
<1>7. CASE checkNoIPResponse
  <2>1. NetTypes' /\ Filling'
    BY <1>1, <1>7 DEF checkNoIPResponse, tcpReply, NetTypes, Filling, gwVars, dnsVars
  <2>2. QED
    BY <1>1, <1>7, <2>1, SketchAssumption
       DEF checkNoIPResponse, ControlInv, SketchTypes, Flow
<1>8. QED
  BY <1>2, <1>3, <1>4, <1>5, <1>6, <1>7 DEF PublicIPTimeout, NoIPTimeout

LEMMA PachubeFlow ==
    ASSUME ControlInv, Wait \/ Post
    PROVE  ControlInv'
<1>1. /\ NetTypes /\ Filling /\ SketchTypes /\ Flow
      /\ pc = "work" /\ pc' = "receive" /\ UNCHANGED <<sketch, name, actual_status, attempt, addr>>
  BY DEF ControlInv, Wait, Post, pachube
<1>2. CASE Wait
  <2>1. UNCHANGED <<netVars, checks>>
    BY <1>2 DEF Wait
  <2>2. NetTypes' /\ Filling'
    BY <1>1, <2>1 DEF NetTypes, Filling, netVars, gwVars, tcpVars, dnsVars
  <2>3. QED
    BY <1>1, <2>1, <2>2 DEF ControlInv, SketchTypes, Flow
<1>3. CASE Post
  <2>1. checks < MaxChecks /\ checks' = checks + 1 /\ UNCHANGED <<gwVars, dnsVars>>
    BY <1>3 DEF Post
  <2>2. \E m, t : tcpSend(m, t)
    BY <1>3 DEF Post
  <2>3. NetTypes' /\ Filling'
    <3>1. PICK m, t : tcpSend(m, t)
      BY <2>2
    <3>2. hisip' \in Name \cup {NoAddr} /\ UNCHANGED <<gwVars, dnstid_l, queries>>
      BY <1>1, <2>1 DEF NetTypes, dnsVars
    <3>3. QED
      BY <1>1, <3>1, <3>2, SendNet
  <2>4. QED
    BY <1>1, <2>1, <2>3, SketchAssumption DEF ControlInv, SketchTypes, Flow
<1>4. QED
  BY <1>2, <1>3

LEMMA StashFlow ==
    ASSUME ControlInv, stashTest, request' = request \/ request'.n = 0
    PROVE  ControlInv'
<1>1. request'.n \in Nat
  BY DEF ControlInv, NetTypes
<1>2. QED
  BY <1>1 DEF ControlInv, NetTypes, Filling, SketchTypes, Flow, stashTest, gwVars, dnsVars,
              sketchVars

LEMMA ControlStep == ControlInv /\ [Next]_vars => ControlInv'
<1> SUFFICES ASSUME ControlInv, [Next]_vars
             PROVE  ControlInv'
  OBVIOUS
<1>1. NetTypes /\ Filling /\ SketchTypes /\ Flow
  BY DEF ControlInv
<1>2. CASE UNCHANGED vars
  BY <1>1, <1>2 DEF ControlInv, NetTypes, Filling, SketchTypes, Flow, vars, netVars, gwVars,
                    tcpVars, dnsVars, sketchVars
<1>3. CASE LookupWait
  <2>1. \E f \in Packets : packetLoop(f)
    BY <1>3 DEF LookupWait, Packets
  <2>2. NetTypes' /\ Filling'
    BY <1>1, <2>1, LoopNet
  <2>3. QED
    BY <1>1, <1>3, <2>2 DEF LookupWait, ControlInv, SketchTypes, Flow, sketchVars
<1>4. CASE LookupRequest
  <2>1. /\ dnsRequest(name) /\ pc = "wait" /\ pc' = "answer"
        /\ UNCHANGED <<gwVars, tcpVars, sketch, name, actual_status, attempt, checks, addr>>
    BY <1>4 DEF LookupRequest
  <2>2. /\ hisip' = NoAddr /\ dnstid_l' \in 0 .. 255
        /\ \A q \in queries' : q.name \in Name
    <3>1. name \in Name
      BY <1>1, SketchAssumption DEF SketchTypes
    <3>2. [tid |-> dnstid_l', name |-> name].name = name
      OBVIOUS
    <3>3. \A q \in queries' : q \in queries \/ q = [tid |-> dnstid_l', name |-> name]
      BY <2>1 DEF dnsRequest
    <3>4. dnstid_l' \in 0 .. 255
      BY <1>1, <2>1 DEF dnsRequest, NetTypes
    <3>5. QED
      BY <1>1, <2>1, <3>1, <3>2, <3>3, <3>4 DEF dnsRequest, NetTypes
  <2>3. NetTypes' /\ Filling'
    BY <1>1, <2>1, <2>2 DEF NetTypes, Filling, gwVars, tcpVars
  <2>4. QED
    BY <1>1, <2>1, <2>3 DEF ControlInv, SketchTypes, Flow
<1>5. CASE LookupReceive
  <2>1. \E f \in Packets : lookupReceive(f)
    BY <1>5 DEF LookupReceive, Packets
  <2>2. NetTypes' /\ Filling'
    BY <1>1, <2>1, LookupNet
  <2>3. QED
    BY <1>1, <1>5, <2>2 DEF LookupReceive, ControlInv, SketchTypes, Flow, sketchVars
<1>6. CASE LookupFound
  BY <1>6, FoundFlow DEF LookupFound
<1>7. CASE LookupTimeout
  BY <1>7, FoundFlow DEF LookupTimeout
<1>8. CASE Receive
  <2>1. \E f \in Packets : packetLoop(f)
    BY <1>8 DEF Receive, Packets
  <2>2. NetTypes' /\ Filling'
    BY <1>1, <2>1, LoopNet
  <2>3. QED
    BY <1>1, <1>8, <2>2 DEF Receive, ControlInv, SketchTypes, Flow
<1>9. CASE NotYet \/ checkPublicIP \/ checkPublicIPResponse \/ PublicIPTimeout
           \/ updateNoIP \/ checkNoIPResponse \/ NoIPTimeout
  <2>1. noip
    BY <1>9 DEF NotYet, checkPublicIP, checkPublicIPResponse, PublicIPTimeout, updateNoIP,
                checkNoIPResponse, NoIPTimeout, noResponse
  <2>2. QED
    BY <1>9, <2>1, NoipFlow
<1>10. CASE Wait \/ Post
  BY <1>10, PachubeFlow
<1>11. CASE StashTest
  BY <1>11, StashTestIs, StashFlow
<1>12. QED
  BY <1>2, <1>3, <1>4, <1>5, <1>6, <1>7, <1>8, <1>9, <1>10, <1>11 DEF Next, Sketch

(* What holds of the client, the network and the sketches' control always. *)
THEOREM ControlHolds == Spec => []ControlInv
BY ControlInit, ControlStep, PTL DEF Spec

(* A message is taken, and its stashes released, at most once, for any     *)
(* number of connections and requests.                                     *)
THEOREM FilledOnceCorrect == Spec => []FilledOnce
<1>1. ControlInv => FilledOnce
  BY DEF ControlInv, Filling, FilledOnce
<1>2. QED
  BY <1>1, ControlHolds, PTL
-----------------------------------------------------------------------------
(* How many look-ups there have been before this one, at most; the counter *)
(* dnstid_l begins again after 255.                                        *)
Before253 == checks <= 253
Numbered ==
    /\ pc = "wait" => dnstid_l <= CASE name = "get" -> 0 [] name = "noip" -> 1
                                    [] OTHER -> 1 + checks
    /\ pc = "answer" => dnstid_l <= CASE name = "get" -> 1 [] name = "noip" -> 2
                                      [] OTHER -> 2 + checks
    /\ pc \in {"setup", "receive", "work"} =>
         dnstid_l <= 2 + checks - (IF actual_status = "WAITING_FOR_PUBLIC_IP" THEN 1 ELSE 0)
Query(q) ==
    /\ q.tid \in Nat /\ q.tid <= dnstid_l
    /\ pc = "answer" /\ q.tid = dnstid_l => q.name = name
LookupInv == Before253 => Numbered /\ LookupOwn /\ \A q \in queries : Query(q)

LEMMA LookupInit == Init => LookupInv
<1> SUFFICES ASSUME Init
             PROVE  Numbered /\ LookupOwn /\ \A q \in queries : Query(q)
  BY DEF LookupInv
<1>1. dnstid_l = 0 /\ checks = 0 /\ queries = {} /\ pc \in {"setup", "wait"}
      /\ name = "get" /\ actual_status = "IDLE"
      /\ addr = [n \in {"get", "noip"} |-> NoAddr]
  BY DEF Init
<1>2. QED
  BY <1>1 DEF Numbered, LookupOwn

(* What changes none of these. *)
LEMMA LookupKept ==
    ASSUME LookupInv, UNCHANGED <<dnstid_l, queries, addr>>,
           Before253' => Before253 /\ Numbered', pc' \notin {"answer"}
    PROVE  LookupInv'
BY DEF LookupInv, LookupOwn, Query

LEMMA LookupStep == ControlInv /\ LookupInv /\ [Next]_vars => LookupInv'
<1> SUFFICES ASSUME ControlInv, LookupInv, [Next]_vars
             PROVE  LookupInv'
  OBVIOUS
<1>1. /\ NetTypes /\ SketchTypes /\ Flow
      /\ dnstid_l \in 0 .. 255 /\ checks \in Nat
  BY SketchAssumption DEF ControlInv, NetTypes, SketchTypes
<1>2. CASE UNCHANGED <<pc, name, actual_status, checks, hisip, dnstid_l, queries, addr>>
  BY <1>2 DEF LookupInv, Before253, Numbered, LookupOwn, Query
<1>3. CASE LookupWait
  <2>1. \E f \in Packets : packetLoop(f)
    BY <1>3 DEF LookupWait, Packets
  <2>2. UNCHANGED dnsVars
    BY <1>1, <2>1, Loop DEF NetTypes
  <2>3. QED
    BY <1>2, <1>3, <2>2 DEF LookupWait, dnsVars, sketchVars
<1>4. CASE LookupRequest
  <2>1. /\ dnsRequest(name) /\ pc = "wait" /\ pc' = "answer"
        /\ UNCHANGED <<name, actual_status, checks, addr>>
    BY <1>4 DEF LookupRequest
  <2> SUFFICES ASSUME Before253'
               PROVE  Numbered' /\ LookupOwn' /\ \A q \in queries' : Query(q)'
    BY DEF LookupInv
  <2>2. Before253 /\ Numbered /\ LookupOwn /\ \A q \in queries : Query(q)
    BY <2>1 DEF LookupInv, Before253
  <2>3. dnstid_l <= CASE name = "get" -> 0 [] name = "noip" -> 1 [] OTHER -> 1 + checks
    BY <2>1, <2>2 DEF Numbered
  <2>4. dnstid_l <= 254
    BY <1>1, <2>2, <2>3 DEF Before253
  <2>5. hisip' = NoAddr /\ dnstid_l' = dnstid_l + 1
    BY <1>1, <2>1, <2>4 DEF dnsRequest
  <2>6. Numbered'
    BY <1>1, <2>1, <2>3, <2>5 DEF Numbered, SketchTypes
  <2>7. LookupOwn'
    BY <2>1, <2>2, <2>5 DEF LookupOwn
  <2>8. ASSUME NEW q \in queries'
        PROVE  Query(q)'
    <3>1. CASE q \in queries
      BY <1>1, <2>2, <2>5, <3>1 DEF Query
    <3>2. CASE q = [tid |-> dnstid_l', name |-> name]
      BY <1>1, <2>1, <2>5, <3>2 DEF Query
    <3>3. QED
      BY <2>1, <2>8, <3>1, <3>2 DEF dnsRequest
  <2>9. QED
    BY <2>6, <2>7, <2>8
<1>5. CASE LookupReceive
  <2>1. /\ pc = "answer" /\ UNCHANGED <<pc, name, actual_status, checks, addr>>
        /\ hisip = NoAddr
    BY <1>5 DEF LookupReceive, sketchVars
  <2>2. PICK f \in Packets : lookupReceive(f)
    BY <1>5 DEF LookupReceive, Packets
  <2>3. UNCHANGED <<dnstid_l, queries>>
    BY <2>2 DEF lookupReceive, netVars, storeGwMac, dnsVars
  <2> SUFFICES ASSUME Before253'
               PROVE  Numbered' /\ LookupOwn' /\ \A q \in queries' : Query(q)'
    BY DEF LookupInv
  <2>4. Before253 /\ Numbered /\ LookupOwn /\ \A q \in queries : Query(q)
    BY <2>1 DEF LookupInv, Before253
  <2>5. hisip' \in {NoAddr, name}
    <3>1. hisip' = hisip \/ (f.proto = "dns" /\ f.tid = dnstid_l /\ f.ok /\ hisip' = f.name)
      BY <2>2 DEF lookupReceive, netVars, storeGwMac, dnsVars, checkForDnsAnswer
    <3>2. f.proto = "dns" => \E q \in queries : f.tid = q.tid /\ f.name = q.name
      BY <1>1, Arrives DEF NetTypes
    <3>3. QED
      BY <2>1, <2>4, <3>1, <3>2 DEF Query
  <2>6. QED
    BY <2>1, <2>3, <2>4, <2>5 DEF Numbered, LookupOwn, Query
<1>6. ASSUME NEW ok \in BOOLEAN, pc \in {"wait", "answer"}, ok => pc = "answer", Found(ok),
             UNCHANGED <<netVars, sketch, checks>>
      PROVE  LookupInv'
  <2> SUFFICES ASSUME Before253'
               PROVE  Numbered' /\ LookupOwn' /\ \A q \in queries' : Query(q)'
    BY DEF LookupInv
  <2>1. /\ UNCHANGED <<dnstid_l, queries, hisip, checks>>
        /\ Before253 /\ Numbered /\ LookupOwn /\ \A q \in queries : Query(q)
    BY <1>6 DEF netVars, dnsVars, LookupInv, Before253
  <2>2. pc' # "answer" /\ (pc' = "wait" => name = "get" /\ name' = "noip") /\ pc' # "setup"
    BY <1>6 DEF Found, dnsLookup
  <2>3. \A n \in DOMAIN addr' : addr'[n] \in {NoAddr, n}
    <3>1. \A n \in DOMAIN addr : addr[n] \in {NoAddr, n}
      BY <2>1 DEF LookupOwn
    <3>2. addr' = addr \/ (ok /\ addr' = [addr EXCEPT ![name] = hisip])
      BY <1>6 DEF Found
    <3>3. ok => hisip \in {NoAddr, name}
      BY <1>6, <2>1 DEF LookupOwn
    <3>4. QED
      BY <3>1, <3>2, <3>3
  <2>4. Numbered'
    <3>1. CASE name = "get"
      <4>1. dnstid_l <= 1 /\ actual_status' \in {"IDLE", "ERROR"}
        BY <1>1, <1>6, <2>1, <3>1 DEF Found, Numbered, Flow
      <4>2. QED
        BY <1>1, <2>1, <2>2, <4>1 DEF Numbered
    <3>2. CASE name = "noip"
      <4>1. dnstid_l <= 2 /\ actual_status' \in {"IDLE", "ERROR"} /\ pc' # "wait"
        BY <1>1, <1>6, <2>1, <3>2 DEF Found, Numbered, Flow
      <4>2. QED
        BY <1>1, <2>1, <2>2, <4>1 DEF Numbered
    <3>3. CASE name = "host"
      <4>1. dnstid_l <= 2 + checks /\ actual_status' \in {"IDLE", "NEEDS_UPDATE"} /\ pc' # "wait"
        BY <1>1, <1>6, <2>1, <3>3 DEF Found, Numbered
      <4>2. QED
        BY <1>1, <2>1, <2>2, <4>1 DEF Numbered
    <3>4. QED
      BY <1>1, <3>1, <3>2, <3>3 DEF SketchTypes
  <2>5. QED
    BY <2>1, <2>2, <2>3, <2>4 DEF LookupOwn, Query
<1>7. CASE LookupFound \/ LookupTimeout
  BY <1>6, <1>7 DEF LookupFound, LookupTimeout
<1>8. CASE Receive
  <2>1. \E f \in Packets : packetLoop(f)
    BY <1>8 DEF Receive, Packets
  <2>2. UNCHANGED dnsVars
    BY <1>1, <2>1, Loop DEF NetTypes
  <2>3. /\ pc = "receive" /\ pc' = "work"
        /\ UNCHANGED <<dnstid_l, queries, name, actual_status, checks, addr>>
    BY <1>8, <2>2 DEF Receive, dnsVars
  <2>4. Before253' => Before253 /\ Numbered'
    BY <2>3 DEF LookupInv, Before253, Numbered
  <2>5. QED
    BY <2>3, <2>4, LookupKept
<1>9. CASE NotYet \/ checkPublicIP \/ checkPublicIPResponse \/ PublicIPTimeout
           \/ updateNoIP \/ checkNoIPResponse \/ NoIPTimeout
  <2>1. /\ pc = "work" /\ UNCHANGED <<dnstid_l, queries, addr>>
        /\ \/ /\ pc' = "receive" /\ checks' = checks
              /\ actual_status' = "WAITING_FOR_PUBLIC_IP" =>
                   actual_status = "WAITING_FOR_PUBLIC_IP"
           \/ pc' = "receive" /\ checks' = checks + 1
           \/ /\ actual_status = "WAITING_FOR_PUBLIC_IP" /\ checks' = checks
              /\ pc' = "wait" /\ name' = "host"
    BY <1>9 DEF noip, NotYet, checkPublicIP, checkPublicIPResponse, PublicIPTimeout, updateNoIP,
                checkNoIPResponse, NoIPTimeout, noResponse, Request, dnsLookup, netVars, dnsVars
  <2>2. Before253' => Before253 /\ Numbered'
    BY <1>1, <2>1 DEF LookupInv, Before253, Numbered
  <2>3. QED
    BY <2>1, <2>2, LookupKept
<1>10. CASE Wait \/ Post
  <2>1. /\ pc = "work" /\ UNCHANGED <<dnstid_l, queries, addr, actual_status>>
        /\ pc' = "receive" /\ checks' \in {checks, checks + 1}
    BY <1>10 DEF Wait, Post, pachube, netVars, dnsVars
  <2>2. Before253' => Before253 /\ Numbered'
    BY <1>1, <2>1 DEF LookupInv, Before253, Numbered
  <2>3. QED
    BY <2>1, <2>2, LookupKept
<1>11. CASE StashTest
  BY <1>2, <1>11, StashTestIs DEF stashTest, sketchVars, dnsVars
<1>12. QED
  BY <1>2, <1>3, <1>4, <1>5, <1>7, <1>8, <1>9, <1>10, <1>11
     DEF Next, Sketch, vars, netVars, dnsVars, sketchVars

(* As long as the counter has not begun again, a look-up gives the address *)
(* of its own name, however late the answers to the others come.           *)
THEOREM LookupCorrect == Spec => [](checks <= 253 => LookupOwn)
<1>1. LookupInv => (checks <= 253 => LookupOwn)
  BY DEF LookupInv, Before253
<1>2. QED
  BY <1>1, LookupInit, LookupStep, ControlHolds, PTL DEF Spec
-----------------------------------------------------------------------------
(* The formats: each directive has its argument, of the right kind.        *)
Suits(m, kind, arg, ch, stash) ==
    /\ kind = D => arg \in Nat
    /\ kind = F => Strings[arg] \in Seq(Int)
    /\ kind = H => arg = ch[1] /\ Saved(m, ch, stash)

Matched(f, kinds, args) ==
    \A i \in 1 .. Len(Formats[f]) : Formats[f][i] \in Directives =>
        \E k \in 1 .. Len(kinds) : /\ Formats[f][i] = kinds[k]
                                   /\ ArgsOf(Formats[f], args)[i] = args[k]

LEMMA TakesFits ==
    ASSUME NEW f, NEW kinds, Takes(f, kinds), NEW args, Len(kinds) \in Nat, Len(args) = Len(kinds)
    PROVE  Indexed(f, Len(args)) /\ Formats[f] \in Seq(Int) /\ Matched(f, kinds, args)
<1> DEFINE fmt == Formats[f]
<1>1. /\ fmt \in Seq(Int)
      /\ \A i \in DOMAIN fmt : fmt[i] \in Directives =>
           ArgAt(fmt, i) \in 2 .. 1 + Len(kinds) /\ fmt[i] = kinds[ArgAt(fmt, i) - 1]
  BY DEF Takes
<1>2. DOMAIN fmt = 1 .. Len(fmt)
  BY <1>1
<1> HIDE DEF fmt
<1>3. Indexed(f, Len(args))
  BY <1>1, <1>2 DEF Indexed, fmt
<1>4. ASSUME NEW i \in 1 .. Len(fmt), fmt[i] \in Directives
      PROVE  \E k \in 1 .. Len(kinds) : fmt[i] = kinds[k] /\ ArgsOf(fmt, args)[i] = args[k]
  <2> DEFINE k == ArgAt(fmt, i) - 1
  <2>1. ArgAt(fmt, i) \in 2 .. 1 + Len(kinds) /\ fmt[i] = kinds[k]
    BY <1>1, <1>2, <1>4
  <2>2. k \in 1 .. Len(kinds)
    BY <2>1
  <2>3. ArgsOf(fmt, args)[i] = args[k]
    BY <1>4 DEF ArgsOf
  <2> HIDE DEF k
  <2>4. QED
    BY <2>1, <2>2, <2>3
<1>5. QED
  BY <1>1, <1>3, <1>4 DEF fmt, Matched

LEMMA FitsArgs ==
    ASSUME NEW f, NEW kinds, Takes(f, kinds), NEW args, Len(kinds) \in Nat, Len(args) = Len(kinds),
           NEW m, NEW ch, NEW stash,
           \A k \in 1 .. Len(kinds) : Suits(m, kinds[k], args[k], ch, stash)
    PROVE  Fits(m, Formats[f], ArgsOf(Formats[f], args), ch, stash)
<1> DEFINE fmt == Formats[f]
           arg == ArgsOf(fmt, args)
<1>1. ASSUME NEW i \in 1 .. Len(fmt), fmt[i] \in Directives
      PROVE  Suits(m, fmt[i], arg[i], ch, stash)
  <2>1. PICK k \in 1 .. Len(kinds) : fmt[i] = kinds[k] /\ arg[i] = args[k]
    BY <1>1, TakesFits DEF Matched
  <2>2. Suits(m, kinds[k], args[k], ch, stash)
    OBVIOUS
  <2>3. QED
    BY <2>1, <2>2
<1> HIDE DEF fmt, arg
<1>2. QED
  BY <1>1, Zenon DEF Fits, Suits, Directives, fmt, arg

(* Without $H there is no stash in it. *)
LEMMA NoStashIn ==
    ASSUME NEW f, NEW kinds, Takes(f, kinds), \A k \in DOMAIN kinds : kinds[k] # H,
           NEW args, Len(kinds) \in Nat, DOMAIN kinds = 1 .. Len(kinds), Len(args) = Len(kinds)
    PROVE  \A i \in 1 .. Len(Formats[f]) : Formats[f][i] # H
BY TakesFits DEF Matched, Directives

LEMMA StashIn ==
    ASSUME NEW f, NEW kinds, Takes(f, kinds), NEW k \in DOMAIN kinds, kinds[k] = H
    PROVE  HasStash(Formats[f], Len(Formats[f]))
<1>1. Formats[f] \in Seq(Int) /\ \E i \in DOMAIN Formats[f] : Formats[f][i] = H
  BY DEF Takes
<1>2. QED
  BY <1>1 DEF HasStash
-----------------------------------------------------------------------------
(* A memory that describes the message text, with a stash of the pages S   *)
(* or without one.                                                         *)
Ready(m, S, msg) ==
    \E f, args, ch, stash :
        /\ Indexed(f, Len(args)) /\ Prepared(m, f, args, ch, stash)
        /\ msg = Rendered(f, args, stash)
        /\ S = Range(ch) /\ (S = {} \/ HasStash(Formats[f], Len(Formats[f])))

Sends(m, l, x) == l = length(m) /\ x = extract(l.mem, 0, l.len)

(* tcp_datafill_cb takes that text, and frees the pages. *)
LEMMA MessageTaken ==
    ASSUME NEW m, Shape(m), NEW S, NEW msg, Ready(m, S, msg),
           NEW l, NEW x, Sends(m, l, x), NEW r, r = cleanup(x.mem)
    PROVE  /\ x.out = msg
           /\ Shape(r) /\ r.short = m.short /\ r.map = m.map \cup S /\ r.bufs[0].bnum = 0
           /\ r.bufs[1].bnum \in {m.bufs[1].bnum, NoPage} \cup S
           /\ r.bufs[1].bnum = 0 /\ 0 \notin S => m.bufs[0].bnum = 0 /\ m.bufs[1].bnum = 0
<1>1. PICK f, args, ch, stash :
        /\ Indexed(f, Len(args)) /\ Prepared(m, f, args, ch, stash)
        /\ msg = Rendered(f, args, stash)
        /\ S = Range(ch) /\ (S = {} \/ HasStash(Formats[f], Len(Formats[f])))
  BY DEF Ready
<1> DEFINE w == load(m, 0, 0)
           words == w.bufs[0].bytes
           fmt == Formats[f]
           arg == WordArgs(fmt, words)
           seqs == Pieces(fmt, arg, stash)
<1>2. l.mem = w /\ l.len = words[0] /\ x = extract(w, 0, words[0])
  BY DEF Sends, length
<1>3. /\ Kept(m, w) /\ w.bufs[0].bnum = 0 /\ w.bufs[1].bnum \in {m.bufs[1].bnum, NoPage}
      /\ w.bufs[1].bnum = 0 => m.bufs[0].bnum = 0 /\ m.bufs[1].bnum = 0
  BY LoadKept
<1>4. /\ words = Page(m, 0) /\ words[0] = Len(msg)
      /\ \E cut : Message(w, words, fmt, arg, ch, stash, seqs, msg, cut)
  BY <1>1, PreparedMessage
<1>5. PICK cut : Message(w, words, fmt, arg, ch, stash, seqs, msg, cut)
  BY <1>4
<1>6. Shape(w) /\ msg \in Seq(Int) /\ Fits(w, fmt, arg, ch, stash)
  BY <1>5 DEF Message
<1>7. load(w, 0, 0) = w
  BY <1>3, <1>6, LoadKept
<1>8. w = load(w, 0, 0) /\ words = w.bufs[0].bytes /\ words[0] = Len(msg) /\ Len(msg) \in Nat
  BY <1>4, <1>6, <1>7
<1> HIDE DEF w, words, fmt, arg, seqs
<1>9. Quiet(w, x.mem, Range(ch)) /\ Part(x.out, msg, 0, 0 + Len(msg))
  BY <1>2, <1>5, <1>8, ExtractIs
<1>10. x.out = msg
  BY <1>6, <1>9, OutWhole
<1>11. /\ Shape(x.mem) /\ x.mem.bufs[0] = w.bufs[0] /\ Kept(w, x.mem)
       /\ x.mem.bufs[1].bnum \in {w.bufs[1].bnum} \cup Range(ch) /\ SameMap(w, x.mem)
  BY <1>9, KeptQuiet DEF Quiet
<1>12. Fits(x.mem, fmt, arg, ch, stash)
  BY <1>6, <1>11, FitsKept
<1>13. Message(x.mem, words, fmt, arg, ch, stash, seqs, msg, cut)
  BY <1>5, <1>11, <1>12 DEF Message
<1>14. load(x.mem, 0, 0) = x.mem
  BY <1>3, <1>11, LoadKept
<1>15. FreedOf(x.mem, r, IF HasStash(fmt, Len(fmt)) THEN Range(ch) ELSE {}, Range(ch))
  BY <1>3, <1>8, <1>11, <1>13, <1>14, CleanupIs
<1>16. FreedOf(x.mem, r, S, S)
  BY <1>1, <1>15 DEF fmt
<1>17. QED
  BY <1>1, <1>3, <1>10, <1>11, <1>16 DEF FreedOf, SameMap, Kept
-----------------------------------------------------------------------------
(* From memory m to w nothing becomes of the pages O.                      *)
Spares(m, w, O) ==
    /\ Shape(w)
    /\ \A p \in O : Page(w, p) = Page(m, p) /\ (Fresh(m, p) => Fresh(w, p))
    /\ w.bufs[1].bnum = m.bufs[1].bnum \/ w.bufs[1].bnum \notin O

Others(O) == O \subseteq 1 .. Pages - 1

LEMMA OthersAre ==
    ASSUME NEW O, Others(O)
    PROVE  O \subseteq PageNo \ {0} /\ 0 \notin O /\ NoPage \notin O
BY PagesNat DEF Others, PageNo, NoPage

LEMMA SparesTwice ==
    ASSUME NEW m, NEW w, NEW x, NEW O, Spares(m, w, O), Spares(w, x, O)
    PROVE  Spares(m, x, O)
BY DEF Spares

LEMMA QuietSpares ==
    ASSUME NEW m, NEW w, NEW R, Quiet(m, w, R), NEW O, Others(O), R \cap O = {}
    PROVE  Spares(m, w, O)
BY OthersAre DEF Quiet, SamePages, Spares

LEMMA KeptSpares ==
    ASSUME NEW m, NEW w, NEW R, Kept(m, w), w.bufs[1].bnum \in {m.bufs[1].bnum, NoPage} \cup R,
           NEW O, Others(O), R \cap O = {}
    PROVE  Spares(m, w, O)
BY OthersAre DEF Kept, Spares

LEMMA FreedSpares ==
    ASSUME NEW m, NEW w, NEW S, NEW R, FreedOf(m, w, S, R), NEW O, Others(O), R \cap O = {}
    PROVE  Spares(m, w, O)
BY OthersAre DEF FreedOf, Spares

LEMMA GrownSpares ==
    ASSUME NEW m, NEW s, NEW ch, NEW w, NEW t, NEW all, Grown(m, s, ch, w, t, all),
           NEW O, Others(O), O \cap (Range(ch) \cup m.map) = {}
    PROVE  Spares(m, w, O)
BY OthersAre DEF Grown, Spares

LEMMA SaveSpares ==
    ASSUME NEW m, Shape(m), NEW s, s.first \in PageNo \ {0}, NEW r, r = save(m, s),
           NEW O, Others(O), s.first \notin O
    PROVE  Spares(m, r, O)
<1>1. O \subseteq PageNo \ {0} /\ 0 \notin O /\ NoPage \notin O
  BY OthersAre
<1>2. s.first \in PageNo /\ s.first # 0
  OBVIOUS
<1>3. /\ Shape(r) /\ SameMap(m, r)
      /\ r.bufs[1].bnum \in {m.bufs[1].bnum, NoPage, 0}
      /\ s.first # 0 =>
           /\ r.bufs[0].bnum = s.first
           /\ \A p \in PageNo \ {s.first} : Page(r, p) = Page(m, p)
           /\ Page(r, s.first) = Headed(Page(m, s.first), s)
           /\ Fresh(r, s.first)
           /\ \A p \in PageNo \ {s.first} : Fresh(m, p) => Fresh(r, p)
  BY <1>2, SaveIs
<1>4. QED
  BY <1>1, <1>2, <1>3 DEF Spares

LEMMA SavedSpared ==
    ASSUME NEW m, NEW w, NEW ch, NEW msg, Saved(m, ch, msg), Spares(m, w, Range(ch))
    PROVE  Saved(w, ch, msg)
<1>1. Written(m, ch, msg) /\ ch[1] \in Range(ch)
  BY PagesOf DEF Saved
<1>2. \A p \in Range(ch) : Page(w, p) = Page(m, p) /\ (Fresh(m, p) => Fresh(w, p))
  BY DEF Spares
<1>3. Written(w, ch, msg)
  BY <1>1, <1>2, WrittenFrame
<1>4. QED
  BY <1>1, <1>2, <1>3 DEF Saved
-----------------------------------------------------------------------------
(* A stash of stashTest in memory m: what has been done with it, the       *)
(* object, its text, how much of that has been read, and its pages.        *)
Chained(m, p, s, t, k, ch) ==
    /\ Written(m, ch, t) /\ Owns(s, ch) /\ Reading(s, ch, k) /\ k \in 0 .. Len(t)
    /\ p \in {"open", "saved", "sent"}
    /\ p = "open" => m.bufs[1].bnum \notin Range(ch) \ {ch[1]}
    /\ p # "open" => Saved(m, ch, t)
    /\ p = "sent" => Prepared(m, TestText, <<Len(t), s.first>>, ch, t)
One(m, p, s, t, k, S) ==
    IF p = "none" THEN S = {} ELSE \E ch : S = Range(ch) /\ Chained(m, p, s, t, k, ch)

(* Can size() tell how much there is in an open stash? The other one, with *)
(* the pages O, is in phase q.                                             *)
Known(m, p, s, q, O) ==
    p = "open" => \/ Fresh(m, s.first)
                  \/ m.bufs[0].bnum \in {s.last} \cup O
                  \/ q = "sent"

LEMMA OnePages ==
    ASSUME NEW m, NEW p, NEW s, NEW t, NEW k, NEW S, One(m, p, s, t, k, S)
    PROVE  /\ Others(S)
           /\ p # "none" => s.first \in S /\ s.last \in S /\ s.curr \in S /\ IsStash(s)
<1>1. CASE p = "none"
  BY <1>1 DEF One, Others
<1>2. CASE p # "none"
  <2>1. PICK ch : S = Range(ch) /\ Chained(m, p, s, t, k, ch)
    BY <1>2 DEF One
  <2>2. /\ Len(ch) \in Nat /\ Len(ch) >= 1 /\ DOMAIN ch = 1 .. Len(ch)
        /\ \A j \in 1 .. Len(ch) : ch[j] \in 1 .. Pages - 1 /\ ch[j] \in S
        /\ S = {ch[j] : j \in 1 .. Len(ch)}
    BY <2>1, PagesOf DEF Chained
  <2>3. s.first = ch[1] /\ s.last = ch[Len(ch)] /\ IsStash(s) /\ \E j \in DOMAIN ch : s.curr = ch[j]
    BY <2>1 DEF Chained, Owns, Reading
  <2>4. s.first \in S /\ s.last \in S /\ s.curr \in S
    <3> DEFINE n == Len(ch)
    <3>1. n \in Nat /\ 1 \in 1 .. n /\ n \in 1 .. n
      BY <2>2
    <3> HIDE DEF n
    <3>2. \A j \in 1 .. n : ch[j] \in S
      BY <2>2 DEF n
    <3>3. QED
      BY <2>2, <2>3, <3>1, <3>2 DEF n
  <2>5. QED
    BY <1>2, <2>2, <2>3, <2>4 DEF Others
<1>3. QED
  BY <1>1, <1>2

LEMMA PreparedSpared ==
    ASSUME NEW m, NEW w, NEW ch, NEW t, Saved(m, ch, t), Saved(w, ch, t), Page(w, 0) = Page(m, 0),
           NEW f, NEW args, Prepared(m, f, args, ch, t)
    PROVE  Prepared(w, f, args, ch, t)
BY DEF Prepared, Fits

(* Nothing becomes of a stash whose pages are spared, and page 0 too if it *)
(* is being sent.                                                          *)
LEMMA OneSpared ==
    ASSUME NEW m, NEW p, NEW s, NEW t, NEW k, NEW S, One(m, p, s, t, k, S),
           NEW w, Spares(m, w, S), p = "sent" => Page(w, 0) = Page(m, 0)
    PROVE  One(w, p, s, t, k, S)
<1>1. CASE p = "none"
  BY <1>1 DEF One
<1>2. CASE p # "none"
  <2>1. PICK ch : S = Range(ch) /\ Chained(m, p, s, t, k, ch)
    BY <1>2 DEF One
  <2>2. Written(m, ch, t) /\ \A q \in Range(ch) : Page(w, q) = Page(m, q)
    BY <2>1 DEF Spares, Chained
  <2>3. Written(w, ch, t)
    BY <2>2, WrittenFrame
  <2>4. p # "open" => Saved(m, ch, t) /\ Saved(w, ch, t)
    BY <2>1, SavedSpared DEF Chained
  <2>5. p = "open" => w.bufs[1].bnum \notin Range(ch) \ {ch[1]}
    BY <2>1 DEF Spares, Chained
  <2>6. p = "sent" => Prepared(w, TestText, <<Len(t), s.first>>, ch, t)
    BY <2>1, <2>4, PreparedSpared DEF Chained
  <2>7. Chained(w, p, s, t, k, ch)
    BY <2>1, <2>3, <2>4, <2>5, <2>6 DEF Chained
  <2>8. QED
    BY <1>2, <2>1, <2>7 DEF One
<1>3. QED
  BY <1>1, <1>2

(* size() is right if it can be. *)
LEMMA OneSize ==
    ASSUME NEW m, Shape(m), NEW p, NEW s, NEW t, NEW k, NEW S, One(m, p, s, t, k, S), p # "none",
           NEW q, NEW O, Known(m, p, s, q, O), m.bufs[0].bnum \notin O, p # "open" \/ q # "sent"
    PROVE  size(m, s) = Len(t)
<1>1. PICK ch : S = Range(ch) /\ Chained(m, p, s, t, k, ch)
  BY DEF One
<1>2. Written(m, ch, t) /\ Owns(s, ch)
  BY <1>1 DEF Chained
<1>3. s.first = ch[1] /\ s.last \in Range(ch)
  BY <1>2, PagesOf DEF Owns
<1>4. m.bufs[0].bnum = s.last \/ Fresh(m, s.last)
  <2>1. CASE p = "open"
    <3>1. CASE s.last = s.first
      BY <2>1, <3>1 DEF Known
    <3>2. CASE s.last # s.first
      BY <1>1, <1>3, <2>1, <3>2 DEF Chained, Fresh
    <3>3. QED
      BY <3>1, <3>2
  <2>2. CASE p # "open"
    BY <1>1, <1>3, <2>2 DEF Chained, Saved
  <2>3. QED
    BY <2>1, <2>2
<1>5. QED
  BY <1>2, <1>4, SizeIs
-----------------------------------------------------------------------------
(* A page is free or belongs to a stash, and buffer 0 is not a free page;  *)
(* both buffers are page 0 only if there are free pages.                   *)
Clear(m) == m.bufs[0].bnum = 0 /\ m.bufs[1].bnum = 0 => m.map # {}
Divided(m, S, O) ==
    /\ S \cap O = {} /\ m.map = (1 .. Pages - 1) \ (S \cup O)
    /\ m.bufs[0].bnum \notin m.map /\ Clear(m)

(* What each operation on a stash comes to, the other one having pages O.  *)
Result(m, w, p, s, t, k, S, O) ==
    /\ Shape(w) /\ ~w.short /\ One(w, p, s, t, k, S) /\ Divided(w, S, O) /\ Spares(m, w, O)

LEMMA CreateOp ==
    ASSUME NEW m, Shape(m), ~m.short, NEW O, Others(O), Divided(m, {}, O), NEW c, c = create(m)
    PROVE  /\ Shape(c.mem)
           /\ \/ c.mem.short
              \/ /\ Result(m, c.mem, "open", c.obj, <<>>, 0, m.map \ c.mem.map, O)
                 /\ Page(c.mem, 0) = Page(m, 0) /\ \A p : Fresh(c.mem, p)
                 /\ c.mem.bufs[0].bnum = c.obj.last
<1>1. CASE m.map = {}
  BY <1>1, CreateShort DEF Divided, Clear
<1>2. CASE m.map # {}
  <2>1. PICK b \in m.map :
          /\ Shape(c.mem) /\ c.mem.map = m.map \ {b} /\ c.mem.short = m.short
          /\ c.obj = NewStash(b)
          /\ c.mem.bufs[0].bnum = b /\ c.mem.bufs[1].bnum = b
          /\ \A p \in PageNo \ {b} : Page(c.mem, p) = Page(m, p)
          /\ Page(c.mem, b)[TailAt] = HeaderSize /\ Page(c.mem, b)[NextAt] = 0
          /\ \A p : Fresh(c.mem, p)
    BY <1>2, CreateIs DEF Divided
  <2>2. b \in 1 .. Pages - 1 /\ b \in PageNo /\ b # 0 /\ b \notin O
    BY PagesNat DEF Divided, PageNo
  <2>3. Written(c.mem, <<b>>, <<>>) /\ Owns(c.obj, <<b>>) /\ Reading(c.obj, <<b>>, 0)
    BY <2>1, <2>2, WrittenFirst
  <2>4. m.map \ c.mem.map = {b} /\ Range(<<b>>) = {b}
    BY <2>1 DEF Range
  <2>5. Chained(c.mem, "open", c.obj, <<>>, 0, <<b>>)
    BY <2>3, <2>4 DEF Chained
  <2>6. One(c.mem, "open", c.obj, <<>>, 0, {b})
    BY <2>4, <2>5 DEF One
  <2>7. Divided(c.mem, {b}, O)
    BY <2>1, <2>2 DEF Divided, Clear
  <2>8. Spares(m, c.mem, O)
    BY <2>1, <2>2, OthersAre DEF Spares
  <2>9. Page(c.mem, 0) = Page(m, 0) /\ c.obj.last = b
    BY <2>1, <2>2, PagesNat DEF PageNo, NewStash
  <2>10. QED
    BY <2>1, <2>4, <2>6, <2>7, <2>8, <2>9 DEF Result
<1>3. QED
  BY <1>1, <1>2

(* Bytes have been put into a stash, or there were none. *)
IsText(t) == t \in Seq(Nat \ {0})
PutDone(m, s, r, t, k, S, T, O) ==
    /\ Result(m, r.mem, "open", r.obj, t, k, T, O)
    /\ Page(r.mem, 0) = Page(m, 0) /\ r.obj.first = s.first
    /\ \/ r.mem.bufs[0].bnum = r.obj.last
       \/ r.mem = m /\ r.obj = s /\ T = S

LEMMA PutOp ==
    ASSUME NEW m, Shape(m), ~m.short, NEW s, NEW t, NEW k, NEW S, One(m, "open", s, t, k, S),
           NEW O, Others(O), Divided(m, S, O),
           NEW bytes, IsText(bytes), NEW r, r = print(m, s, bytes),
           NEW T, T = S \cup (m.map \ r.mem.map)
    PROVE  Shape(r.mem) /\ (r.mem.short \/ PutDone(m, s, r, t \o bytes, k, S, T, O))
<1>1. bytes \in Seq(Nat \ {0})
  BY DEF IsText
<1>2. PICK ch : S = Range(ch) /\ Chained(m, "open", s, t, k, ch)
  BY DEF One
<1>3. Written(m, ch, t) /\ Owns(s, ch) /\ Reading(s, ch, k) /\ IsStash(s) /\ k \in 0 .. Len(t)
  BY <1>2 DEF Chained, Owns
<1>4. s.last \in S /\ S \subseteq PageNo /\ Range(ch) \cap m.map = {}
  BY <1>2, OnePages, OthersAre DEF Divided
<1>5. Shape(r.mem)
  <2> DEFINE n == Len(bytes)
             f == Prints(m, s, bytes)
  <2>1. n \in Nat /\ n \in 0 .. n
    BY <1>1
  <2>2. r = f[n]
    BY DEF print
  <2>3. f = Prints(m, s, bytes) /\ n = Len(bytes)
    OBVIOUS
  <2> HIDE DEF f, n
  <2>4. s.last \in PageNo
    BY <1>4
  <2>5. Shape(f[n].mem)
    BY <1>3, <2>1, <2>3, <2>4, PrintShape
  <2>6. QED
    BY <2>2, <2>5
<1>6. CASE r.mem.short
  BY <1>5, <1>6
<1>7. ASSUME ~r.mem.short
      PROVE  PutDone(m, s, r, t \o bytes, k, S, T, O)
  <2>1. PICK all : /\ Grown(m, s, ch, r.mem, r.obj, all)
                   /\ Written(r.mem, all, t \o bytes)
                   /\ bytes # <<>> => r.mem.bufs[0].bnum = r.obj.last
                   /\ bytes = <<>> => r.mem = m
    BY <1>1, <1>3, <1>4, <1>7, PrintGrows
  <2>2. /\ Len(all) >= Len(ch) /\ \A j \in 1 .. Len(ch) : all[j] = ch[j]
        /\ Range(all) \subseteq S \cup m.map /\ r.mem.map = m.map \ Range(all)
        /\ r.mem.bufs[1].bnum \in {m.bufs[1].bnum, NoPage} \ (Range(all) \ S)
        /\ Owns(r.obj, all) /\ r.obj.curr = s.curr /\ r.obj.offs = s.offs
        /\ \A p \in PageNo \ Range(all) : Page(r.mem, p) = Page(m, p)
    BY <1>2, <2>1 DEF Grown
  <2>3. /\ Len(ch) \in Nat /\ Len(ch) >= 1 /\ DOMAIN ch = 1 .. Len(ch)
        /\ S = {ch[j] : j \in 1 .. Len(ch)}
        /\ Len(all) \in Nat /\ DOMAIN all = 1 .. Len(all)
        /\ Range(all) = {all[j] : j \in 1 .. Len(all)}
        /\ \A j \in 1 .. Len(all) : all[j] \in 1 .. Pages - 1
    BY <1>2, <1>3, <2>1, PagesOf
  <2>4. 1 \in DOMAIN ch /\ 1 \in DOMAIN all /\ DOMAIN ch \subseteq DOMAIN all
    BY <2>2, <2>3
  <2>5. S \subseteq Range(all) /\ all[1] = ch[1]
    BY <2>2, <2>3, <2>4
  <2>6. T = Range(all)
    <3>1. S \cap m.map = {}
      BY DEF Divided
    <3>2. QED
      BY <2>2, <2>5, <3>1
  <2>7. Reading(r.obj, all, k) /\ r.obj.first = s.first
    BY <1>3, <2>2, <2>3, <2>4, <2>5 DEF Reading, Owns
  <2>8. k \in 0 .. Len(t \o bytes)
    <3>1. t \in Seq(Nat \ {0})
      BY <1>3 DEF Written
    <3>2. QED
      BY <1>3, <3>1
  <2>9. r.mem.bufs[1].bnum \notin Range(all) \ {all[1]}
    <3>1. NoPage \notin Range(all)
      BY <2>3, PagesNat DEF NoPage
    <3>2. m.bufs[1].bnum \notin S \ {ch[1]}
      BY <1>2 DEF Chained
    <3>3. QED
      BY <2>2, <2>5, <3>1, <3>2
  <2>10. Chained(r.mem, "open", r.obj, t \o bytes, k, all)
    BY <2>1, <2>2, <2>7, <2>8, <2>9 DEF Chained
  <2>11. One(r.mem, "open", r.obj, t \o bytes, k, T)
    BY <2>6, <2>10 DEF One
  <2>12. Spares(m, r.mem, O)
    <3>1. O \cap (Range(ch) \cup m.map) = {}
      BY <1>2 DEF Divided
    <3>2. QED
      BY <2>1, <3>1, GrownSpares
  <2>13. 0 \notin Range(all) /\ Page(r.mem, 0) = Page(m, 0)
    <3>1. 0 \notin Range(all)
      BY <2>3
    <3>2. QED
      BY <2>2, <3>1, PagesNat DEF PageNo
  <2>14. Divided(r.mem, T, O) /\ (r.mem.bufs[0].bnum = r.obj.last \/ (r.mem = m /\ r.obj = s /\ T = S))
    <3>1. CASE bytes = <<>>
      <4>1. r = [mem |-> m, obj |-> s]
        BY <3>1, PrintNothing
      <4>2. r.mem = m /\ r.obj = s
        BY <4>1
      <4>3. T = S
        BY <4>2
      <4>4. QED
        BY <4>2, <4>3
    <3>2. CASE bytes # <<>>
      <4>1. r.mem.bufs[0].bnum = r.obj.last /\ r.obj.last \in Range(all)
        <5> DEFINE n == Len(all)
        <5>1. n \in Nat /\ n >= 1 /\ r.obj.last = all[n] /\ Range(all) = {all[j] : j \in 1 .. n}
          BY <2>2, <2>3, <2>4 DEF Owns
        <5> HIDE DEF n
        <5>2. QED
          BY <2>1, <3>2, <5>1
      <4>2. QED
        BY <2>2, <2>6, <2>13, <4>1 DEF Divided, Clear
    <3>3. QED
      BY <3>1, <3>2
  <2>15. QED
    BY <1>5, <1>7, <2>7, <2>11, <2>12, <2>13, <2>14 DEF Result, PutDone
<1>8. QED
  BY <1>5, <1>6, <1>7

LEMMA SaveOp ==
    ASSUME NEW m, Shape(m), ~m.short, NEW s, NEW t, NEW k, NEW S, One(m, "open", s, t, k, S),
           NEW O, Others(O), Divided(m, S, O), NEW r, r = save(m, s)
    PROVE  /\ Result(m, r, "saved", s, t, k, S, O)
           /\ Page(r, 0) = Page(m, 0) /\ r.bufs[0].bnum = s.first
<1>1. PICK ch : S = Range(ch) /\ Chained(m, "open", s, t, k, ch)
  BY DEF One
<1>2. Written(m, ch, t) /\ Owns(s, ch) /\ s.first = ch[1]
  BY <1>1 DEF Chained, Owns
<1>3. s.first \in S /\ S \subseteq PageNo \ {0} /\ S \cap O = {}
  BY OnePages, OthersAre DEF Divided
<1>4. \A p \in Range(ch) \ {ch[1]} : Fresh(m, p)
  BY <1>1 DEF Chained, Fresh
<1>5. Saved(r, ch, t)
  BY <1>2, <1>4, SaveStash
<1>6. s.first \in PageNo /\ s.first # 0 /\ s.first \notin O
  BY <1>3
<1>7. /\ Shape(r) /\ SameMap(m, r) /\ r.bufs[0].bnum = s.first
      /\ \A p \in PageNo \ {s.first} : Page(r, p) = Page(m, p)
  BY <1>6, SaveIs
<1>8. Chained(r, "saved", s, t, k, ch)
  BY <1>1, <1>5 DEF Chained, Saved
<1>9. One(r, "saved", s, t, k, S)
  BY <1>1, <1>8 DEF One
<1>10. Spares(m, r, O)
  BY <1>6, SaveSpares
<1>11. Divided(r, S, O)
  BY <1>3, <1>6, <1>7 DEF Divided, Clear, SameMap
<1>12. Page(r, 0) = Page(m, 0)
  BY <1>6, <1>7, PagesNat DEF PageNo
<1>13. QED
  BY <1>7, <1>9, <1>10, <1>11, <1>12 DEF Result, SameMap

(* What get() gives, and how much has been read then. *)
Gives(g, t, k, next) ==
    IF k < Len(t) THEN g.c = t[k + 1] /\ g.c # 0 /\ next = k + 1
    ELSE g.c = 0 /\ next = k

LEMMA GetOp ==
    ASSUME NEW m, Shape(m), ~m.short, NEW s, NEW t, NEW k, NEW S, One(m, "saved", s, t, k, S),
           NEW O, Others(O), Divided(m, S, O), NEW g, g = get(m, s)
    PROVE  /\ Gives(g, t, k, IF g.c = 0 THEN k ELSE k + 1)
           /\ Result(m, g.mem, "saved", g.obj, t, IF g.c = 0 THEN k ELSE k + 1, S, O)
           /\ Page(g.mem, 0) = Page(m, 0) /\ g.mem.bufs[0] = m.bufs[0]
<1>1. PICK ch : S = Range(ch) /\ Chained(m, "saved", s, t, k, ch)
  BY DEF One
<1>2. /\ Written(m, ch, t) /\ Owns(s, ch) /\ Reading(s, ch, k) /\ k \in 0 .. Len(t)
      /\ Saved(m, ch, t) /\ IsStash(s) /\ Len(t) \in Nat
  BY <1>1, PagesOf DEF Chained, Owns
<1>3. s.curr \in S /\ S \subseteq PageNo \ {0} /\ S \cap O = {}
  BY OnePages, OthersAre DEF Divided
<1>4. Fresh(m, s.curr)
  BY <1>1, <1>2, <1>3 DEF Saved
<1>5. GotNext(g, ch, t, k)
  BY <1>2, <1>4, GetNext
<1>6. s.curr \in PageNo \cap S
  BY <1>3
<1>7. Quiet(m, g.mem, S)
  BY <1>2, <1>4, <1>6, QuietGet
<1>8. g.mem.bufs[1].bnum = s.curr /\ s.curr # 0
  <2> DEFINE b == Page(m, s.curr)
  <2>1. b = Page(m, s.curr) /\ s.curr \in PageNo
    BY <1>6
  <2> HIDE DEF b
  <2>2. g.mem.bufs[1].bnum = s.curr
    BY <1>2, <1>4, <2>1, GetIs
  <2>3. QED
    BY <1>3, <2>2
<1> DEFINE next == IF g.c = 0 THEN k ELSE k + 1
<1>9. Gives(g, t, k, next) /\ Reading(g.obj, ch, next) /\ next \in 0 .. Len(t) /\ Owns(g.obj, ch)
  BY <1>2, <1>5 DEF GotNext, Gives
<1> HIDE DEF next
<1>10. Saved(g.mem, ch, t)
  BY <1>2, <1>7, SavedQuiet
<1>11. Chained(g.mem, "saved", g.obj, t, next, ch)
  BY <1>9, <1>10 DEF Chained, Saved
<1>12. One(g.mem, "saved", g.obj, t, next, S)
  BY <1>1, <1>11 DEF One
<1>13. Spares(m, g.mem, O)
  BY <1>3, <1>7, QuietSpares
<1>14. Divided(g.mem, S, O)
  BY <1>7, <1>8 DEF Divided, Clear, Quiet, SameMap
<1>15. Page(g.mem, 0) = Page(m, 0)
  BY <1>7, PagesNat DEF Quiet, SamePages, PageNo
<1>16. QED
  BY <1>7, <1>9, <1>12, <1>13, <1>14, <1>15 DEF Result, Quiet, SameMap, next

(* pachube's format and that of stashTest *)
LEMMA StashFits ==
    ASSUME NEW f, Takes(f, <<D, H>>), NEW m, NEW ch, NEW t, Saved(m, ch, t), NEW args, args = <<Len(t), ch[1]>>
    PROVE  /\ Indexed(f, 2) /\ Len(args) = 2 /\ Formats[f] \in Seq(Int)
           /\ Fits(m, Formats[f], ArgsOf(Formats[f], args), ch, t)
           /\ HasStash(Formats[f], Len(Formats[f]))
<1> DEFINE kinds == <<D, H>>
<1>1. Takes(f, kinds) /\ Len(kinds) \in Nat /\ Len(args) = Len(kinds) /\ Len(args) = 2
  OBVIOUS
<1>2. kinds[1] = D /\ kinds[2] = H /\ DOMAIN kinds = 1 .. 2 /\ args[1] = Len(t) /\ args[2] = ch[1]
  OBVIOUS
<1> HIDE DEF kinds
<1>3. Len(t) \in Nat
  BY PagesOf DEF Saved
<1>4. \A k \in 1 .. Len(kinds) : Suits(m, kinds[k], args[k], ch, t)
  BY <1>1, <1>2, <1>3, Kinds DEF Suits
<1>5. Indexed(f, Len(args)) /\ Formats[f] \in Seq(Int)
  BY <1>1, TakesFits, Zenon
<1>6. Fits(m, Formats[f], ArgsOf(Formats[f], args), ch, t)
  BY <1>1, <1>4, FitsArgs
<1>7. HasStash(Formats[f], Len(Formats[f]))
  <2>1. 2 \in DOMAIN kinds
    BY <1>2
  <2>2. QED
    BY <1>1, <1>2, <2>1, StashIn
<1>8. QED
  BY <1>1, <1>5, <1>6, <1>7

LEMMA TestFits ==
    ASSUME NEW m, NEW ch, NEW t, Saved(m, ch, t), NEW args, args = <<Len(t), ch[1]>>
    PROVE  /\ Indexed(TestText, 2) /\ Len(args) = 2 /\ Formats[TestText] \in Seq(Int)
           /\ Fits(m, Formats[TestText], ArgsOf(Formats[TestText], args), ch, t)
           /\ HasStash(Formats[TestText], Len(Formats[TestText]))
<1>1. Takes(TestText, <<D, H>>)
  BY FormatAssumption
<1>2. QED
  BY <1>1, StashFits

(* prepare() for a format that fits. *)
ReadsOnly(f, ch, R) ==
    R \subseteq PageNo /\ ((\E i \in 1 .. Len(Formats[f]) : Formats[f][i] = H) => ch[1] \in R)

LEMMA PrepareFits ==
    ASSUME NEW m, Shape(m), NEW f, NEW args, Len(args) \in Nat, Len(args) <= 2,
           Formats[f] \in Seq(Int), NEW ch, NEW t,
           Fits(m, Formats[f], ArgsOf(Formats[f], args), ch, t),
           NEW R, ReadsOnly(f, ch, R), NEW r, r = prepare(m, f, args)
    PROVE  Rewritten(m, r, R) /\ Prepared(r, f, args, ch, t)
<1> DEFINE fmt == Formats[f]
           arg == ArgsOf(fmt, args)
           msg == FlattenSeq(Pieces(fmt, arg, t))
<1>1. Rendered(f, args, t) = msg
  BY RenderedIs
<1>2. Fits(m, fmt, arg, ch, t) /\ fmt = Formats[f] /\ arg = ArgsOf(fmt, args)
  OBVIOUS
<1> HIDE DEF fmt, arg, msg
<1>3. fmt = Formats[f] /\ arg = ArgsOf(fmt, args)
  BY <1>2
<1>4. OpensIn(fmt, arg, R)
  BY <1>2 DEF OpensIn, MayOpen, Fits, ReadsOnly
<1>5. /\ Rewritten(m, r, R) /\ Kept(m, r)
      /\ Words(Page(r, 0), f, args)
      /\ AddsUp(m, fmt, arg, Page(r, 0)[0])
  <2>1. Rewritten(m, r, R) /\ Words(Page(r, 0), f, args) /\ AddsUp(m, fmt, arg, Page(r, 0)[0])
    BY <1>3, <1>4, PrepareIs
  <2>2. QED
    BY <2>1 DEF Rewritten
<1>6. Page(r, 0)[0] = Len(msg)
  BY <1>2, <1>5 DEF AddsUp, msg
<1>7. Fits(r, fmt, arg, ch, t)
  BY <1>2, <1>5, FitsKept
<1>8. Prepared(r, f, args, ch, t)
  BY <1>1, <1>2, <1>5, <1>6, <1>7 DEF Prepared, Words
<1>9. QED
  BY <1>5, <1>8

LEMMA DividedKept ==
    ASSUME NEW m, NEW S, NEW O, Divided(m, S, O), NEW R, 0 \notin R, NEW r, Rewritten(m, r, R)
    PROVE  Divided(r, S, O)
<1>1. /\ r.bufs[0].bnum = 0 /\ r.map = m.map
      /\ r.bufs[1].bnum \in {m.bufs[1].bnum, NoPage} \cup R
      /\ m.bufs[0].bnum # 0 /\ 0 \notin R => r.bufs[1].bnum # 0
  BY DEF Rewritten, Kept, SameMap
<1>2. r.bufs[1].bnum = 0 => m.bufs[0].bnum = 0 /\ m.bufs[1].bnum = 0
  BY <1>1, PagesNat DEF NoPage
<1>3. 0 \notin m.map
  BY DEF Divided
<1>4. QED
  BY <1>1, <1>2, <1>3 DEF Divided, Clear

LEMMA PrepareOp ==
    ASSUME NEW m, Shape(m), ~m.short, NEW s, NEW t, NEW k, NEW S, One(m, "saved", s, t, k, S),
           NEW O, Others(O), Divided(m, S, O),
           NEW args, args = <<Len(t), s.first>>, NEW r, r = prepare(m, TestText, args)
    PROVE  Result(m, r, "sent", s, t, k, S, O)
<1>1. PICK ch : S = Range(ch) /\ Chained(m, "saved", s, t, k, ch)
  BY DEF One
<1>2. Saved(m, ch, t) /\ s.first = ch[1] /\ args = <<Len(t), ch[1]>>
  BY <1>1 DEF Chained, Owns
<1>3. s.first \in S /\ S \subseteq PageNo \ {0} /\ S \cap O = {}
  BY OnePages, OthersAre DEF Divided
<1>4. /\ Len(args) = 2 /\ Formats[TestText] \in Seq(Int)
      /\ Fits(m, Formats[TestText], ArgsOf(Formats[TestText], args), ch, t)
  BY <1>2, TestFits
<1>5. S \subseteq PageNo /\ ch[1] \in S /\ 0 \notin S /\ Len(args) \in Nat /\ Len(args) <= 2
  BY <1>2, <1>3, <1>4
<1>6. Rewritten(m, r, S) /\ Prepared(r, TestText, args, ch, t)
  <2>1. ReadsOnly(TestText, ch, S)
    BY <1>5 DEF ReadsOnly
  <2>2. /\ Formats[TestText] \in Seq(Int) /\ Len(args) \in Nat /\ Len(args) <= 2
        /\ Fits(m, Formats[TestText], ArgsOf(Formats[TestText], args), ch, t)
    BY <1>4, <1>5
  <2>3. QED
    BY <2>1, <2>2, PrepareFits
<1>7. /\ Shape(r) /\ SameMap(m, r) /\ Kept(m, r) /\ r.bufs[0].bnum = 0
      /\ r.bufs[1].bnum \in {m.bufs[1].bnum, NoPage} \cup S
  BY <1>6 DEF Rewritten, Kept
<1>8. Saved(r, ch, t)
  BY <1>2, <1>7, SavedKept
<1>9. Chained(r, "sent", s, t, k, ch)
  BY <1>1, <1>6, <1>8 DEF Chained, Saved
<1>10. One(r, "sent", s, t, k, S)
  BY <1>1, <1>9 DEF One
<1>11. Spares(m, r, O)
  BY <1>3, <1>7, KeptSpares
<1>12. Divided(r, S, O)
  BY <1>5, <1>6, DividedKept
<1>13. QED
  BY <1>7, <1>10, <1>11, <1>12 DEF Result, SameMap

LEMMA SentReady ==
    ASSUME NEW m, NEW s, NEW t, NEW k, NEW S, One(m, "sent", s, t, k, S)
    PROVE  Ready(m, S, Rendered(TestText, <<Len(t), s.first>>, t))
<1>1. PICK ch : S = Range(ch) /\ Chained(m, "sent", s, t, k, ch)
  BY DEF One
<1> DEFINE args == <<Len(t), s.first>>
<1>2. Saved(m, ch, t) /\ s.first = ch[1] /\ Prepared(m, TestText, args, ch, t)
  BY <1>1 DEF Chained, Owns
<1>3. args = <<Len(t), ch[1]>>
  BY <1>2
<1> HIDE DEF args
<1>4. /\ Indexed(TestText, 2) /\ Len(args) = 2
      /\ HasStash(Formats[TestText], Len(Formats[TestText]))
  BY <1>2, <1>3, TestFits
<1>5. Indexed(TestText, Len(args))
  BY <1>4
<1>6. Ready(m, S, Rendered(TestText, args, t))
  BY <1>1, <1>2, <1>4, <1>5 DEF Ready
<1>7. QED
  BY <1>6 DEF args

(* Byte k of a message, or none behind its end. *)
LEMMA ReadyByte ==
    ASSUME NEW m, Shape(m), NEW S, NEW msg, Ready(m, S, msg), NEW k \in 0 .. Len(msg),
           NEW l, l = length(m), NEW x, x = extract(l.mem, k, 1)
    PROVE  /\ l.len = Len(msg)
           /\ x.out = IF k = Len(msg) THEN <<>> ELSE <<msg[k + 1]>>
           /\ Kept(m, x.mem) /\ Page(x.mem, 0) = Page(m, 0) /\ x.mem.bufs[0].bnum = 0
           /\ x.mem.bufs[1].bnum \in {m.bufs[1].bnum, NoPage} \cup S
           /\ x.mem.bufs[1].bnum = 0 /\ 0 \notin S => m.bufs[0].bnum = 0 /\ m.bufs[1].bnum = 0
<1>1. PICK f, args, ch, stash :
        /\ Indexed(f, Len(args)) /\ Prepared(m, f, args, ch, stash)
        /\ msg = Rendered(f, args, stash)
        /\ S = Range(ch) /\ (S = {} \/ HasStash(Formats[f], Len(Formats[f])))
  BY DEF Ready
<1> DEFINE w == load(m, 0, 0)
           words == w.bufs[0].bytes
           fmt == Formats[f]
           arg == WordArgs(fmt, words)
           seqs == Pieces(fmt, arg, stash)
<1>2. l.mem = w /\ l.len = words[0] /\ x = extract(w, k, 1)
  BY DEF length
<1>3. /\ Kept(m, w) /\ w.bufs[0].bnum = 0 /\ w.bufs[1].bnum \in {m.bufs[1].bnum, NoPage}
      /\ w.bufs[1].bnum = 0 => m.bufs[0].bnum = 0 /\ m.bufs[1].bnum = 0
      /\ Page(w, 0) = Page(m, 0)
  BY LoadKept
<1>4. /\ words = Page(m, 0) /\ words[0] = Len(msg)
      /\ \E cut : Message(w, words, fmt, arg, ch, stash, seqs, msg, cut)
  BY <1>1, PreparedMessage
<1>5. PICK cut : Message(w, words, fmt, arg, ch, stash, seqs, msg, cut)
  BY <1>4
<1>6. Shape(w) /\ msg \in Seq(Int)
  BY <1>5 DEF Message
<1>7. load(w, 0, 0) = w
  BY <1>3, <1>6, LoadKept
<1>8. w = load(w, 0, 0) /\ words = w.bufs[0].bytes /\ k \in Nat
  BY <1>7
<1> HIDE DEF w, words, fmt, arg, seqs
<1>9. Quiet(w, x.mem, Range(ch)) /\ Part(x.out, msg, k, k + 1)
  BY <1>2, <1>5, <1>8, ExtractIs
<1>10. x.out = IF k = Len(msg) THEN <<>> ELSE <<msg[k + 1]>>
  BY <1>6, <1>9, OutByte
<1>11. Kept(w, x.mem)
  BY <1>9, KeptQuiet
<1>12. Kept(m, x.mem)
  BY <1>3, <1>11, KeptTwice
<1>13. Page(x.mem, 0) = Page(m, 0)
  BY <1>3, <1>9, PagesNat DEF Quiet, SamePages, PageNo
<1>14. x.mem.bufs[0].bnum = 0 /\ x.mem.bufs[1].bnum \in {w.bufs[1].bnum} \cup S
  BY <1>1, <1>3, <1>9 DEF Quiet
<1>15. QED
  BY <1>2, <1>3, <1>4, <1>10, <1>12, <1>13, <1>14

LEMMA ExtractOp ==
    ASSUME NEW m, Shape(m), ~m.short, NEW s, NEW t, NEW k, NEW S, One(m, "sent", s, t, k, S),
           NEW O, Others(O), Divided(m, S, O),
           NEW msg, msg = Rendered(TestText, <<Len(t), s.first>>, t), NEW o \in 0 .. Len(msg),
           NEW l, l = length(m), NEW x, x = extract(l.mem, o, 1)
    PROVE  /\ Result(m, x.mem, "sent", s, t, k, S, O)
           /\ l.len = Len(msg)
           /\ x.out = IF o = Len(msg) THEN <<>> ELSE <<msg[o + 1]>>
<1>1. Ready(m, S, msg)
  BY SentReady
<1>2. /\ l.len = Len(msg)
      /\ x.out = IF o = Len(msg) THEN <<>> ELSE <<msg[o + 1]>>
      /\ Kept(m, x.mem) /\ Page(x.mem, 0) = Page(m, 0) /\ x.mem.bufs[0].bnum = 0
      /\ x.mem.bufs[1].bnum \in {m.bufs[1].bnum, NoPage} \cup S
      /\ x.mem.bufs[1].bnum = 0 /\ 0 \notin S => m.bufs[0].bnum = 0 /\ m.bufs[1].bnum = 0
  BY <1>1, ReadyByte
<1>3. S \cap O = {} /\ 0 \notin S /\ Others(S)
  BY OnePages, OthersAre DEF Divided
<1>4. Shape(x.mem) /\ SameMap(m, x.mem)
  BY <1>2 DEF Kept
<1>5. Spares(m, x.mem, O)
  BY <1>2, <1>3, KeptSpares
<1>6. One(x.mem, "sent", s, t, k, S)
  <2>1. PICK ch : S = Range(ch) /\ Chained(m, "sent", s, t, k, ch)
    BY DEF One
  <2>2. Saved(m, ch, t) /\ Prepared(m, TestText, <<Len(t), s.first>>, ch, t)
    BY <2>1 DEF Chained
  <2>3. Saved(x.mem, ch, t)
    BY <1>2, <2>2, SavedKept
  <2>4. Prepared(x.mem, TestText, <<Len(t), s.first>>, ch, t)
    BY <1>2, <2>2, <2>3, PreparedSpared
  <2>5. Chained(x.mem, "sent", s, t, k, ch)
    BY <2>1, <2>3, <2>4 DEF Chained, Saved
  <2>6. QED
    BY <2>1, <2>5 DEF One
<1>7. Divided(x.mem, S, O)
  <2>1. x.mem.map = m.map /\ 0 \notin m.map
    BY <1>4 DEF Divided, SameMap
  <2>2. QED
    BY <1>2, <1>3, <2>1 DEF Divided, Clear
<1>8. QED
  BY <1>2, <1>4, <1>5, <1>6, <1>7 DEF Result, SameMap

LEMMA CleanupOp ==
    ASSUME NEW m, Shape(m), ~m.short, NEW s, NEW t, NEW k, NEW S, One(m, "sent", s, t, k, S),
           NEW O, Others(O), Divided(m, S, O), NEW r, r = cleanup(m), NEW u, NEW v, NEW n
    PROVE  /\ Result(m, r, "none", u, v, n, {}, O)
           /\ r.bufs[1].bnum \in S
<1>1. PICK ch : S = Range(ch) /\ Chained(m, "sent", s, t, k, ch)
  BY DEF One
<1> DEFINE args == <<Len(t), s.first>>
           msg == Rendered(TestText, args, t)
           w == load(m, 0, 0)
           words == w.bufs[0].bytes
           fmt == Formats[TestText]
           arg == WordArgs(fmt, words)
           seqs == Pieces(fmt, arg, t)
<1>2. Saved(m, ch, t) /\ s.first = ch[1] /\ Prepared(m, TestText, args, ch, t)
  BY <1>1 DEF Chained, Owns
<1>3. args = <<Len(t), ch[1]>>
  BY <1>2
<1> HIDE DEF args
<1>4. /\ Indexed(TestText, 2) /\ Len(args) = 2 /\ HasStash(fmt, Len(fmt))
  BY <1>2, <1>3, TestFits
<1>5. Indexed(TestText, Len(args))
  BY <1>4
<1>6. \E cut : Message(w, words, fmt, arg, ch, t, seqs, msg, cut)
  BY <1>2, <1>5, PreparedMessage
<1>7. PICK cut : Message(w, words, fmt, arg, ch, t, seqs, msg, cut)
  BY <1>6
<1>8. Kept(m, w) /\ w.bufs[0].bnum = 0 /\ w.bufs[1].bnum \in {m.bufs[1].bnum, NoPage}
  BY LoadKept
<1>9. w = load(m, 0, 0) /\ words = w.bufs[0].bytes
  OBVIOUS
<1> HIDE DEF w, words, fmt, arg, seqs, msg
<1>10. /\ FreedOf(w, r, IF HasStash(fmt, Len(fmt)) THEN Range(ch) ELSE {}, Range(ch))
       /\ HasStash(fmt, Len(fmt)) => r.bufs[1].bnum \in Range(ch)
  BY <1>7, <1>8, <1>9, CleanupIs
<1>11. FreedOf(w, r, S, S) /\ r.bufs[1].bnum \in S
  BY <1>1, <1>4, <1>10
<1>12. S \cap O = {} /\ 0 \notin S /\ Others(S)
  BY OnePages, OthersAre DEF Divided
<1>13. Spares(m, w, O)
  BY <1>8, <1>12, KeptSpares
<1>14. Spares(w, r, O)
  BY <1>11, <1>12, FreedSpares
<1>15. Spares(m, r, O)
  BY <1>13, <1>14, SparesTwice
<1>16. Shape(r) /\ r.map = m.map \cup S /\ ~r.short /\ r.bufs[0].bnum = 0
  BY <1>8, <1>11 DEF Kept, SameMap, FreedOf
<1>17. Divided(r, {}, O)
  <2>1. m.map = (1 .. Pages - 1) \ (S \cup O)
    BY DEF Divided
  <2>2. r.map = (1 .. Pages - 1) \ ({} \cup O)
    BY <1>12, <1>16, <2>1 DEF Others
  <2>3. r.bufs[0].bnum \notin r.map
    BY <1>16, <2>2
  <2>4. r.bufs[1].bnum # 0
    BY <1>11, <1>12
  <2>5. QED
    BY <2>2, <2>3, <2>4 DEF Divided, Clear
<1>18. QED
  BY <1>11, <1>15, <1>16, <1>17 DEF Result, One

LEMMA ReleaseOp ==
    ASSUME NEW m, Shape(m), ~m.short, NEW s, NEW t, NEW k, NEW S, One(m, "saved", s, t, k, S),
           NEW O, Others(O), Divided(m, S, O), m.bufs[0].bnum \notin S,
           NEW r, r = release(m, s), NEW u, NEW v, NEW n
    PROVE  /\ Result(m, r, "none", u, v, n, {}, O)
           /\ Page(r, 0) = Page(m, 0) /\ r.bufs[0] = m.bufs[0]
<1>1. PICK ch : S = Range(ch) /\ Chained(m, "saved", s, t, k, ch)
  BY DEF One
<1>2. Written(m, ch, t) /\ s.first = ch[1] /\ m.bufs[0].bnum \notin Range(ch)
  BY <1>1 DEF Chained, Owns
<1>3. FreedOf(m, r, S, {})
  BY <1>1, <1>2, ReleaseIs
<1>4. /\ Shape(r) /\ ~r.short /\ r.map = m.map \cup S /\ r.bufs[0] = m.bufs[0]
      /\ r.bufs[1].bnum = m.bufs[1].bnum /\ \A p \in PageNo : Page(r, p) = Page(m, p)
  BY <1>3 DEF FreedOf
<1>5. Spares(m, r, O)
  BY <1>3, FreedSpares
<1>6. Others(S) /\ S \cap O = {}
  BY OnePages DEF Divided
<1>7. Divided(r, {}, O)
  BY <1>4, <1>6 DEF Divided, Clear, Others
<1>8. Page(r, 0) = Page(m, 0)
  BY <1>4, PagesNat DEF PageNo
<1>9. QED
  BY <1>4, <1>5, <1>7, <1>8 DEF Result, One
-----------------------------------------------------------------------------
(* The invariant of the memory. A page is free or belongs to one stash;    *)
Pair(f) == f = [x \in 1 .. 2 |-> f[x]]
Pairs == Pair(held) /\ Pair(phase) /\ Pair(obj) /\ Pair(text) /\ Pair(taken)
Owned ==
    ~mem.short => Others(held[1]) /\ Others(held[2]) /\ Divided(mem, held[1], held[2])
(* what noipClient or pachube has asked for last is in the memory until it *)
(* is sent;                                                                *)
Sending ==
    sketch # "stashTest" =>
        /\ phase[1] = "none" /\ phase[2] = "none" /\ exact
        /\ sketch = "noipClient" => ~mem.short /\ held[1] = {} /\ held[2] = {}
        /\ ~mem.short /\ tcp_client_state \in {1, 2} => Ready(mem, held[1], request.text)
        /\ sketch = "pachube" /\ pc \in {"wait", "answer"} => tcp_client_state \notin {1, 2}
(* stashTest does not use the network, and its stashes are as they ought   *)
(* to be.                                                                  *)
Offline ==
    sketch = "stashTest" =>
        /\ tcp_client_state = 0 /\ request.n = 0
        /\ \A p \in 1 .. MaxSyns : conn[p].got = NoText
TestMessage(i) == Rendered(TestText, <<Len(text[i]), obj[i].first>>, text[i])
Kept1(i, j) ==
    /\ One(mem, phase[i], obj[i], text[i], taken[i], held[i])
    /\ Known(mem, phase[i], obj[i], phase[j], held[j])
    /\ phase[i] = "sent" => phase[j] # "sent" /\ request.text = TestMessage(i)
Testing ==
    sketch = "stashTest" /\ ~mem.short => exact /\ Kept1(1, 2) /\ Kept1(2, 1)

MemInv == Shape(mem) /\ Pairs /\ puts \in Nat /\ Owned /\ Sending /\ Offline /\ Testing

LEMMA BeginShape == Shape(begin)
<1> DEFINE zero == [i \in 0 .. PageSize - 1 |-> 0]
           other == [i \in 0 .. PageSize - 1 |-> Pages - 1]
<1>1. begin = [map |-> 1 .. Pages - 1, short |-> FALSE,
               bufs |-> [i \in 0 .. 1 |-> [bnum |-> 0, bytes |-> zero]],
               chip |-> [p \in PageNo |-> other]]
  BY DEF begin, PageNo
<1>2. zero \in [0 .. PageSize - 1 -> Int] /\ other \in [0 .. PageSize - 1 -> Int] /\ 0 \in PageNo
  BY PagesNat DEF PageNo
<1> HIDE DEF zero, other
<1>3. [i \in 0 .. 1 |-> [bnum |-> 0, bytes |-> zero]]
        \in [0 .. 1 -> [bnum : PageNo \cup {NoPage}, bytes : [0 .. PageSize - 1 -> Int]]]
  BY <1>2
<1>4. [p \in PageNo |-> other] \in [PageNo -> [0 .. PageSize - 1 -> Int]]
  BY <1>2
<1>5. begin \in Memory(Int)
  BY <1>1, <1>3, <1>4 DEF Memory
<1>6. begin.bufs[0].bnum = 0
  BY <1>1
<1>7. QED
  BY <1>2, <1>5, <1>6 DEF Shape

LEMMA MemInit == Init => MemInv
<1> SUFFICES ASSUME Init
             PROVE  MemInv
  OBVIOUS
<1>1. /\ mem = begin /\ phase = <<"none", "none">> /\ obj = <<NoStash, NoStash>>
      /\ text = <<<<>>, <<>>>> /\ taken = <<0, 0>> /\ puts = 0 /\ exact /\ held = <<{}, {}>>
      /\ tcp_client_state = 0 /\ request = NoText
      /\ conn = [port \in 1 .. MaxSyns |-> [fd |-> NoPort, ip |-> NoAddr, got |-> NoText]]
  BY DEF Init
<1>2. Shape(mem)
  BY <1>1, BeginShape
<1>3. Pairs /\ puts \in Nat
  BY <1>1 DEF Pairs, Pair
<1>4. /\ ~mem.short /\ mem.map = 1 .. Pages - 1
      /\ mem.bufs[0].bnum = 0 /\ mem.bufs[1].bnum = 0
  BY <1>1 DEF begin
<1>5. /\ phase[1] = "none" /\ phase[2] = "none" /\ held[1] = {} /\ held[2] = {}
      /\ request.n = 0 /\ \A p \in 1 .. MaxSyns : conn[p].got = NoText
  BY <1>1 DEF NoText
<1>6. Owned
  <2>1. 1 \in mem.map /\ 0 \notin mem.map /\ mem.map = (1 .. Pages - 1) \ ({} \cup {})
    BY <1>4, PagesNat
  <2>2. Divided(mem, {}, {})
    BY <1>4, <2>1 DEF Divided, Clear
  <2>3. QED
    BY <1>5, <2>2 DEF Owned, Others
<1>7. Sending
  BY <1>1, <1>4, <1>5 DEF Sending
<1>8. Offline
  BY <1>1, <1>5 DEF Offline
<1>9. Testing
  BY <1>1, <1>5 DEF Testing, Kept1, One, Known
<1>10. QED
  BY <1>2, <1>3, <1>6, <1>7, <1>8, <1>9 DEF MemInv

(* What changes none of these. *)
LEMMA MemSame ==
    ASSUME MemInv, UNCHANGED <<mem, request, conn, tcp_client_state, sketch, stashVars, held>>,
           sketch = "pachube" => pc' \notin {"wait", "answer"} \/ pc \in {"wait", "answer"}
    PROVE  MemInv'
<1>1. UNCHANGED <<mem, request, conn, tcp_client_state, sketch, phase, obj, text, taken, puts,
                  exact, held>>
  BY DEF stashVars
<1>2. Shape(mem)' /\ Pairs' /\ (puts \in Nat)' /\ Owned' /\ Offline' /\ Testing'
  BY <1>1 DEF MemInv, Pairs, Pair, Owned, Offline, Testing, Kept1, TestMessage
<1>3. Sending'
  BY <1>1 DEF MemInv, Sending
<1>4. QED
  BY <1>2, <1>3 DEF MemInv
-----------------------------------------------------------------------------
(* The message that is taken is the one that was asked for. *)
LEMMA Datafill ==
    ASSUME Shape(mem), NEW S, Ready(mem, S, request.text), NEW O, Others(O), Others(S),
           Divided(mem, S, O), NEW w, w = datafill.mem
    PROVE  /\ datafill.data = [n |-> request.n, text |-> request.text]
           /\ Shape(w) /\ w.short = mem.short /\ Divided(w, {}, O)
<1> DEFINE l == length(mem)
           x == extract(l.mem, 0, l.len)
<1>1. Sends(mem, l, x) /\ w = cleanup(x.mem) /\ datafill.data = [n |-> request.n, text |-> x.out]
  BY DEF Sends, datafill
<1> HIDE DEF l, x
<1>2. /\ x.out = request.text
      /\ Shape(w) /\ w.short = mem.short /\ w.map = mem.map \cup S /\ w.bufs[0].bnum = 0
      /\ w.bufs[1].bnum = 0 /\ 0 \notin S => mem.bufs[0].bnum = 0 /\ mem.bufs[1].bnum = 0
  BY <1>1, MessageTaken
<1>3. Divided(w, {}, O)
  <2>1. mem.map = (1 .. Pages - 1) \ (S \cup O) /\ S \cap O = {} /\ 0 \notin S
    BY OthersAre DEF Divided
  <2>2. w.map = (1 .. Pages - 1) \ ({} \cup O)
    BY <1>2, <2>1 DEF Others
  <2>3. w.bufs[0].bnum \notin w.map
    BY <1>2, <2>2
  <2>4. Clear(mem) /\ mem.map \subseteq w.map
    BY <1>2 DEF Divided
  <2>5. QED
    BY <1>2, <2>1, <2>2, <2>3, <2>4 DEF Divided, Clear
<1>4. QED
  BY <1>1, <1>2, <1>3

(* A pass of packetLoop, after which the pages of a message that has been  *)
(* sent do not belong to it any more.                                      *)
LEMMA LoopMem ==
    ASSUME MemInv, IsConn(conn), NEW f \in Packets, packetLoop(f), sketch # "stashTest",
           UNCHANGED <<sketch, stashVars>>, filled \in Nat,
           Pair(held)', held'[1] = (IF filled' = filled THEN held[1] ELSE {}), held'[2] = held[2],
           pc' \in {"wait", "answer"} => pc \in {"wait", "answer"}
    PROVE  MemInv'
<1>1. Looped /\ request' = request
  BY Loop
<1>2. UNCHANGED <<phase, obj, text, taken, puts, exact>>
  BY DEF stashVars
<1>3. /\ Shape(mem) /\ Owned /\ Sending
      /\ (~mem.short => Others(held[1]) /\ Others(held[2]) /\ Divided(mem, held[1], held[2]))
      /\ phase[1] = "none" /\ phase[2] = "none" /\ exact
  BY DEF MemInv, Owned, Sending
<1>4. Pairs' /\ (puts \in Nat)' /\ Offline' /\ Testing'
  BY <1>2 DEF MemInv, Pairs, Pair, Offline, Testing
<1>5. CASE UNCHANGED <<mem, filled>> /\ (tcp_client_state' \in {1, 2} => tcp_client_state \in {1, 2})
  <2>1. held'[1] = held[1]
    BY <1>5
  <2>2. Owned'
    BY <1>3, <1>5, <2>1 DEF Owned
  <2>3. Sending'
    BY <1>1, <1>2, <1>3, <1>5, <2>1 DEF Sending
  <2>4. QED
    BY <1>3, <1>4, <1>5, <2>2, <2>3 DEF MemInv
<1>6. ASSUME NEW p \in 1 .. MaxSyns, Fills(p)
      PROVE  MemInv'
  <2>1. ~mem.short /\ tcp_client_state = 2 /\ tcp_client_state' = 3 /\ mem' = datafill.mem
        /\ filled' # filled
    BY <1>6 DEF Fills
  <2>2. Ready(mem, held[1], request.text)
    BY <1>3, <2>1 DEF Sending
  <2>3. Others(held[1]) /\ Others(held[2]) /\ Divided(mem, held[1], held[2])
    BY <1>3, <2>1
  <2>4. Shape(mem') /\ mem'.short = mem.short /\ Divided(mem', {}, held[2])
    BY <1>3, <2>1, <2>2, <2>3, Datafill
  <2>5. held'[1] = {} /\ held'[2] = held[2]
    BY <2>1
  <2>6. Owned'
    BY <2>3, <2>4, <2>5 DEF Owned, Others
  <2>7. Sending'
    BY <1>2, <1>3, <2>1, <2>4, <2>5 DEF Sending
  <2>8. QED
    BY <1>4, <2>4, <2>6, <2>7 DEF MemInv
<1>7. CASE Still \/ Opens \/ \E p \in 1 .. MaxSyns : Results(p)
  <2>1. /\ UNCHANGED <<mem, filled>>
        /\ tcp_client_state' \in {1, 2} => tcp_client_state \in {1, 2}
    BY <1>7 DEF Still, Opens, Results
  <2>2. QED
    BY <1>5, <2>1
<1>8. QED
  BY <1>1, <1>6, <1>7 DEF Looped
-----------------------------------------------------------------------------
(* noipClient's requests are made of strings only. *)
LEMMA StringsReady ==
    ASSUME NEW m, Shape(m), NEW f, NEW kinds, Takes(f, kinds),
           Len(kinds) \in Nat, Len(kinds) <= 2, DOMAIN kinds = 1 .. Len(kinds),
           \A k \in DOMAIN kinds : kinds[k] = F,
           NEW args, Len(args) = Len(kinds), \A k \in 1 .. Len(args) : Strings[args[k]] \in Seq(Int),
           NEW r, r = prepare(m, f, args)
    PROVE  Rewritten(m, r, {}) /\ Ready(r, {}, Rendered(f, args, <<>>))
<1>1. Indexed(f, Len(args)) /\ Formats[f] \in Seq(Int)
  BY TakesFits, Zenon
<1>2. \A k \in 1 .. Len(kinds) : Suits(m, kinds[k], args[k], <<>>, <<>>)
  BY Kinds DEF Suits
<1>3. Fits(m, Formats[f], ArgsOf(Formats[f], args), <<>>, <<>>)
  BY <1>2, FitsArgs
<1>4. \A i \in 1 .. Len(Formats[f]) : Formats[f][i] # H
  <2>1. \A k \in DOMAIN kinds : kinds[k] # H
    BY Kinds
  <2>2. QED
    BY <2>1, NoStashIn
<1>5. ReadsOnly(f, <<>>, {})
  BY <1>4 DEF ReadsOnly
<1>6. Len(args) \in Nat /\ Len(args) <= 2
  OBVIOUS
<1>7. Rewritten(m, r, {}) /\ Prepared(r, f, args, <<>>, <<>>)
  BY <1>1, <1>3, <1>5, <1>6, PrepareFits
<1>8. Range(<<>>) = {}
  BY DEF Range
<1>9. Ready(r, {}, Rendered(f, args, <<>>))
  BY <1>1, <1>7, <1>8 DEF Ready
<1>10. QED
  BY <1>7, <1>9

LEMMA RequestMem ==
    ASSUME MemInv, sketch = "noipClient", UNCHANGED <<sketch, stashVars, held>>,
           NEW m, NEW r, Rewritten(mem, r, {}), Ready(r, {}, m), tcpSend(r, m), pc' = "receive"
    PROVE  MemInv'
<1>1. UNCHANGED <<phase, obj, text, taken, puts, exact>>
  BY DEF stashVars
<1>2. mem' = r /\ request'.text = m
  BY DEF tcpSend
<1>3. /\ ~mem.short /\ held[1] = {} /\ held[2] = {} /\ Owned
      /\ phase[1] = "none" /\ phase[2] = "none" /\ exact
  BY DEF MemInv, Sending
<1>4. Shape(r) /\ r.short = mem.short
  BY DEF Rewritten, Kept, SameMap
<1>5. Divided(mem, {}, {})
  BY <1>3 DEF Owned
<1>6. Divided(r, {}, {})
  BY <1>5, DividedKept
<1>7. Shape(mem') /\ Pairs' /\ (puts \in Nat)' /\ Offline' /\ Testing'
  BY <1>1, <1>2, <1>4 DEF MemInv, Pairs, Pair, Offline, Testing
<1>8. Owned'
  BY <1>2, <1>3, <1>6 DEF Owned, Others
<1>9. Sending'
  BY <1>1, <1>2, <1>3, <1>4 DEF Sending
<1>10. QED
  BY <1>7, <1>8, <1>9 DEF MemInv

LEMMA NoipMem ==
    ASSUME MemInv, noip, NotYet \/ checkPublicIP \/ checkPublicIPResponse \/ PublicIPTimeout
                         \/ updateNoIP \/ checkNoIPResponse \/ NoIPTimeout
    PROVE  MemInv'
<1>1. sketch = "noipClient" /\ UNCHANGED <<sketch, stashVars, held>>
  BY DEF noip
<1>2. Shape(mem)
  BY DEF MemInv
<1>3. Strings[1] \in Seq(Int) /\ Strings[2] \in Seq(Int)
  <2>1. Strings \in Seq(Seq(Int)) /\ Len(Strings) >= 2
    BY FormatAssumption
  <2>2. QED
    BY <2>1
<1>4. CASE checkPublicIP
  <2> DEFINE kinds == <<F>>
             args == <<1>>
             r == prepare(mem, GetIp, args)
  <2>1. Takes(GetIp, kinds)
    BY FormatAssumption
  <2>2. /\ Len(kinds) \in Nat /\ Len(kinds) <= 2 /\ DOMAIN kinds = 1 .. Len(kinds)
        /\ \A k \in DOMAIN kinds : kinds[k] = F
        /\ Len(args) = Len(kinds) /\ \A k \in 1 .. Len(args) : Strings[args[k]] \in Seq(Int)
    BY <1>3
  <2>3. pc' = "receive" /\ tcpSend(r, Rendered(GetIp, args, <<>>))
    BY <1>4 DEF checkPublicIP, Request
  <2>4. r = prepare(mem, GetIp, args)
    OBVIOUS
  <2> HIDE DEF kinds, args, r
  <2>5. Rewritten(mem, r, {}) /\ Ready(r, {}, Rendered(GetIp, args, <<>>))
    BY <1>2, <2>1, <2>2, <2>4, StringsReady
  <2>6. QED
    BY <1>1, <2>3, <2>5, RequestMem
<1>5. CASE updateNoIP
  <2> DEFINE kinds == <<F, F>>
             args == <<1, 2>>
             r == prepare(mem, Update, args)
  <2>1. Takes(Update, kinds)
    BY FormatAssumption
  <2>2. /\ Len(kinds) \in Nat /\ Len(kinds) <= 2 /\ DOMAIN kinds = 1 .. Len(kinds)
        /\ \A k \in DOMAIN kinds : kinds[k] = F
        /\ Len(args) = Len(kinds) /\ \A k \in 1 .. Len(args) : Strings[args[k]] \in Seq(Int)
    BY <1>3
  <2>3. pc' = "receive" /\ tcpSend(r, Rendered(Update, args, <<>>))
    BY <1>5 DEF updateNoIP, Request
  <2>4. r = prepare(mem, Update, args)
    OBVIOUS
  <2> HIDE DEF kinds, args, r
  <2>5. Rewritten(mem, r, {}) /\ Ready(r, {}, Rendered(Update, args, <<>>))
    BY <1>2, <2>1, <2>2, <2>4, StringsReady
  <2>6. QED
    BY <1>1, <2>3, <2>5, RequestMem
<1>6. CASE NotYet \/ checkPublicIPResponse \/ PublicIPTimeout \/ checkNoIPResponse \/ NoIPTimeout
  <2>1. UNCHANGED <<mem, request, conn, tcp_client_state>>
    BY <1>6 DEF NotYet, checkPublicIPResponse, PublicIPTimeout, checkNoIPResponse, NoIPTimeout,
                noResponse, netVars, tcpVars
  <2>2. QED
    BY <1>1, <2>1, MemSame
<1>7. QED
  BY <1>4, <1>5, <1>6
-----------------------------------------------------------------------------
(* The number is the length of the stash; what is rendered does not depend *)
(* on where the stash is.                                                  *)
LEMMA StashArgs ==
    ASSUME NEW f, Takes(f, <<D, H>>), NEW args, Len(args) = 2,
           NEW i \in 1 .. Len(Formats[f])
    PROVE  /\ Formats[f][i] = D => ArgsOf(Formats[f], args)[i] = args[1]
           /\ Formats[f][i] = H => ArgsOf(Formats[f], args)[i] = args[2]
           /\ Formats[f][i] # F
<1> DEFINE kinds == <<D, H>>
<1>1. /\ Takes(f, kinds) /\ Len(kinds) \in Nat /\ Len(kinds) = 2 /\ Len(args) = Len(kinds)
      /\ kinds[1] = D /\ kinds[2] = H
  OBVIOUS
<1> HIDE DEF kinds
<1>2. Matched(f, kinds, args)
  BY <1>1, TakesFits
<1>3. Formats[f][i] \in Directives =>
        \E k \in 1 .. 2 : Formats[f][i] = kinds[k] /\ ArgsOf(Formats[f], args)[i] = args[k]
  BY <1>1, <1>2 DEF Matched
<1>4. QED
  BY <1>1, <1>3, Kinds DEF Directives

LEMMA StashRendered ==
    ASSUME NEW f, Takes(f, <<D, H>>), NEW args, NEW more, Len(args) = 2, Len(more) = 2,
           args[1] = more[1], NEW stash
    PROVE  Rendered(f, args, stash) = Rendered(f, more, stash)
<1>1. Formats[f] \in Seq(Int)
  BY DEF Takes
<1>2. ASSUME NEW i \in 1 .. Len(Formats[f]), Formats[f][i] \in {D, F}
      PROVE  ArgsOf(Formats[f], args)[i] = ArgsOf(Formats[f], more)[i]
  <2>1. Formats[f][i] = D
    BY <1>2, StashArgs
  <2>2. ArgsOf(Formats[f], args)[i] = args[1]
    BY <2>1, StashArgs
  <2>3. ArgsOf(Formats[f], more)[i] = more[1]
    BY <2>1, StashArgs
  <2>4. QED
    BY <2>2, <2>3
<1>3. QED
  BY <1>1, <1>2, RenderedSame

LEMMA NewIs ==
    ASSUME NEW m, Shape(m), NEW S, NEW O, Divided(m, S, O), NEW c, c = create(m)
    PROVE  /\ Shape(c.mem)
           /\ \E b \in PageNo : c.obj = NewStash(b)
<1>1. CASE m.map = {}
  <2>1. m.bufs[0].bnum = 0 => m.bufs[1].bnum # 0
    BY <1>1 DEF Divided, Clear
  <2>2. Shape(c.mem) /\ c.obj = NewStash(0)
    BY <1>1, <2>1, CreateShort
  <2>3. 0 \in PageNo
    BY PagesNat DEF PageNo
  <2>4. QED
    BY <2>2, <2>3
<1>2. CASE m.map # {}
  <2>1. m.bufs[0].bnum \notin m.map /\ m.map \subseteq PageNo
    BY ShapeMap, PagesNat DEF Divided, PageNo
  <2>2. \E b \in m.map : Shape(c.mem) /\ c.obj = NewStash(b)
    BY <1>2, <2>1, CreateIs
  <2>3. QED
    BY <2>1, <2>2
<1>3. QED
  BY <1>1, <1>2

(* What pachube does before it calls tcpSend. *)
Posted(m, c, r, v, payload) ==
    /\ c = create(m)
    /\ r = print(c.mem, c.obj, payload)
    /\ v = save(r.mem, r.obj)

LEMMA PostShape ==
    ASSUME NEW m, Shape(m), NEW S, NEW O, Divided(m, S, O), NEW payload, Len(payload) \in Nat,
           NEW c, NEW r, NEW v, Posted(m, c, r, v, payload),
           NEW n, NEW w, w = prepare(v, Feed, <<n, c.obj.curr>>)
    PROVE  Shape(w) /\ (c.mem.short \/ r.mem.short => w.short)
<1>1. PICK b \in PageNo : c.obj = NewStash(b)
  BY NewIs DEF Posted
<1>2. /\ Shape(c.mem) /\ IsStash(c.obj) /\ c.obj.last = b /\ c.obj.first = b /\ c.obj.curr = b
      /\ c.obj.last \in PageNo
  BY <1>1, NewIs DEF Posted, NewStash, IsStash
<1>3. Shape(r.mem) /\ r.obj.first = b /\ (c.mem.short => r.mem.short)
  <2> DEFINE k == Len(payload)
             f == Prints(c.mem, c.obj, payload)
  <2>1. r = f[k] /\ k \in 0 .. k /\ f = Prints(c.mem, c.obj, payload) /\ k = Len(payload)
    BY DEF Posted, print
  <2> HIDE DEF f, k
  <2>2. /\ Shape(f[k].mem) /\ f[k].obj.first = c.obj.first
        /\ c.mem.short => f[k].mem.short
    BY <1>2, <2>1, PrintShape
  <2>3. QED
    BY <1>2, <2>1, <2>2
<1>4. Shape(v) /\ SameMap(r.mem, v)
  <2>1. v = save(r.mem, r.obj) /\ r.obj.first \in PageNo
    BY <1>3 DEF Posted
  <2>2. QED
    BY <1>3, <2>1, SaveIs
<1>5. Rewritten(v, w, PageNo)
  <2> DEFINE args == <<n, c.obj.curr>>
             fmt == Formats[Feed]
             arg == ArgsOf(fmt, args)
  <2>1. Takes(Feed, <<D, H>>) /\ args[2] = b /\ Len(args) = 2
    BY <1>2, FormatAssumption
  <2>2. fmt = Formats[Feed] /\ arg = ArgsOf(fmt, args) /\ w = prepare(v, Feed, args)
    OBVIOUS
  <2> HIDE DEF args, fmt, arg
  <2>3. Formats[Feed] \in Seq(Int)
    BY <2>1 DEF Takes
  <2>4. ASSUME NEW i \in 1 .. Len(fmt), fmt[i] = H
        PROVE  arg[i] = b
    <3>1. i \in 1 .. Len(Formats[Feed]) /\ Formats[Feed][i] = H
      BY <2>2, <2>4
    <3>2. ArgsOf(Formats[Feed], args)[i] = args[2]
      BY <2>1, <3>1, StashArgs
    <3>3. QED
      BY <2>1, <2>2, <3>2
  <2>5. OpensIn(fmt, arg, PageNo)
    BY <2>4 DEF OpensIn, MayOpen
  <2>6. Len(args) \in Nat /\ Len(args) <= 2
    BY <2>1
  <2>7. Rewritten(v, w, PageNo) /\ Words(Page(w, 0), Feed, args)
        /\ AddsUp(v, fmt, arg, Page(w, 0)[0])
    BY <1>4, <2>2, <2>3, <2>5, <2>6, PrepareIs
  <2>8. QED
    BY <2>7
<1>6. Shape(w) /\ w.short = v.short
  BY <1>5 DEF Rewritten, Kept, SameMap
<1>7. QED
  BY <1>3, <1>4, <1>6 DEF SameMap

(* The pages T have been taken for the stash, and there were enough. *)
Enough(m, c, r, T) == ~c.mem.short /\ ~r.mem.short /\ T = m.map \ r.mem.map

LEMMA PostSaved ==
    ASSUME NEW m, Shape(m), ~m.short, NEW O, Others(O), Divided(m, {}, O),
           NEW payload, IsText(payload), NEW c, NEW r, NEW v, Posted(m, c, r, v, payload),
           NEW T, Enough(m, c, r, T)
    PROVE  /\ Result(r.mem, v, "saved", r.obj, payload, 0, T, O)
           /\ v.bufs[0].bnum = r.obj.first /\ r.obj.first = c.obj.curr
<1>1. /\ c = create(m) /\ r = print(c.mem, c.obj, payload) /\ v = save(r.mem, r.obj)
      /\ ~c.mem.short /\ ~r.mem.short /\ T = m.map \ r.mem.map
  BY DEF Posted, Enough
<1> DEFINE S == m.map \ c.mem.map
           U == S \cup (c.mem.map \ r.mem.map)
<1>2. Result(m, c.mem, "open", c.obj, <<>>, 0, S, O)
  BY <1>1, CreateOp
<1>3. c.obj.curr = c.obj.first
  <2>1. \E b \in PageNo : c.obj = NewStash(b)
    BY <1>1, NewIs
  <2>2. QED
    BY <2>1 DEF NewStash
<1>4. S = m.map \ c.mem.map /\ U = S \cup (c.mem.map \ r.mem.map)
  OBVIOUS
<1> HIDE DEF S, U
<1>5. /\ Shape(c.mem) /\ One(c.mem, "open", c.obj, <<>>, 0, S) /\ Divided(c.mem, S, O)
  BY <1>2 DEF Result
<1>6. PutDone(c.mem, c.obj, r, <<>> \o payload, 0, S, U, O)
  <2>1. r = print(c.mem, c.obj, payload)
    BY <1>1
  <2>2. r.mem.short \/ PutDone(c.mem, c.obj, r, <<>> \o payload, 0, S, U, O)
    BY <1>1, <1>4, <1>5, <2>1, PutOp
  <2>3. QED
    BY <1>1, <2>2
<1>7. /\ Result(c.mem, r.mem, "open", r.obj, payload, 0, U, O)
      /\ r.obj.first = c.obj.first
  <2>1. <<>> \o payload = payload
    BY DEF IsText
  <2>2. QED
    BY <1>6, <2>1 DEF PutDone
<1>8. /\ Shape(r.mem) /\ One(r.mem, "open", r.obj, payload, 0, U) /\ Divided(r.mem, U, O)
  BY <1>7 DEF Result
<1>9. U = T
  <2>1. m.map = (1 .. Pages - 1) \ ({} \cup O) /\ r.mem.map = (1 .. Pages - 1) \ (U \cup O)
        /\ U \cap O = {}
    BY <1>8 DEF Divided
  <2>2. U \subseteq 1 .. Pages - 1
    BY <1>8, OnePages DEF Others
  <2>3. QED
    BY <1>1, <2>1, <2>2
<1>10. Result(r.mem, v, "saved", r.obj, payload, 0, U, O) /\ v.bufs[0].bnum = r.obj.first
  BY <1>1, <1>8, SaveOp
<1>11. QED
  BY <1>3, <1>7, <1>9, <1>10

LEMMA PostOp ==
    ASSUME NEW m, Shape(m), ~m.short, NEW O, Others(O), Divided(m, {}, O),
           NEW payload, IsText(payload), NEW c, NEW r, NEW v, Posted(m, c, r, v, payload),
           NEW T, Enough(m, c, r, T),
           NEW w, w = prepare(v, Feed, <<size(v, r.obj), c.obj.curr>>)
    PROVE  /\ Shape(w) /\ Others(T) /\ Divided(w, T, O)
           /\ Ready(w, T, Rendered(Feed, <<Len(payload), 0>>, payload))
<1>1. /\ Shape(v) /\ One(v, "saved", r.obj, payload, 0, T) /\ Divided(v, T, O)
      /\ r.obj.first = c.obj.curr
  <2>1. Result(r.mem, v, "saved", r.obj, payload, 0, T, O) /\ r.obj.first = c.obj.curr
    BY PostSaved
  <2>2. QED
    BY <2>1 DEF Result
<1>2. Others(T) /\ 0 \notin T /\ T \subseteq PageNo /\ c.obj.curr \in T
  BY <1>1, OnePages, OthersAre
<1>3. size(v, r.obj) = Len(payload)
  <2>1. Known(v, "saved", r.obj, "none", {})
    BY DEF Known
  <2>2. QED
    BY <1>1, <2>1, OneSize
<1>4. PICK ch : T = Range(ch) /\ Chained(v, "saved", r.obj, payload, 0, ch)
  BY <1>1 DEF One
<1> DEFINE args == <<Len(payload), c.obj.curr>>
           more == <<Len(payload), 0>>
<1>5. Saved(v, ch, payload) /\ args = <<Len(payload), ch[1]>> /\ ch[1] \in T
  BY <1>1, <1>2, <1>4 DEF Chained, Owns
<1>6. w = prepare(v, Feed, args)
  BY <1>3
<1>7. Takes(Feed, <<D, H>>)
  BY FormatAssumption
<1>8. args[1] = more[1] /\ Len(args) = 2 /\ Len(more) = 2
  OBVIOUS
<1> HIDE DEF args, more
<1>9. /\ Indexed(Feed, 2) /\ Len(args) = 2 /\ Formats[Feed] \in Seq(Int)
      /\ Fits(v, Formats[Feed], ArgsOf(Formats[Feed], args), ch, payload)
      /\ HasStash(Formats[Feed], Len(Formats[Feed]))
  BY <1>5, <1>7, StashFits
<1>10. ReadsOnly(Feed, ch, T) /\ Len(args) \in Nat /\ Len(args) <= 2
  BY <1>2, <1>5, <1>9 DEF ReadsOnly
<1>11. Rewritten(v, w, T) /\ Prepared(w, Feed, args, ch, payload)
  BY <1>1, <1>6, <1>9, <1>10, PrepareFits
<1>12. Shape(w)
  BY <1>11 DEF Rewritten, Kept
<1>13. Divided(w, T, O)
  BY <1>1, <1>2, <1>11, DividedKept
<1>14. Indexed(Feed, Len(args))
  BY <1>9
<1>15. Ready(w, T, Rendered(Feed, args, payload))
  BY <1>4, <1>9, <1>11, <1>14 DEF Ready
<1>16. Rendered(Feed, args, payload) = Rendered(Feed, more, payload)
  BY <1>7, <1>8, StashRendered
<1>17. QED
  BY <1>2, <1>12, <1>13, <1>15, <1>16 DEF more

LEMMA PachubeMem ==
    ASSUME MemInv, sketch # "stashTest", Wait \/ Post
    PROVE  MemInv'
<1>1. CASE Wait
  <2>1. /\ UNCHANGED <<mem, request, conn, tcp_client_state, sketch, stashVars, held>>
        /\ pc' = "receive"
    BY <1>1 DEF Wait, pachube, netVars, tcpVars
  <2>2. QED
    BY <2>1, MemSame
<1>2. CASE Post
  <2>1. sketch = "pachube" /\ pc' = "receive" /\ UNCHANGED <<sketch, stashVars>> /\ ~mem.short
    BY <1>2 DEF Post, pachube
  <2>2. PICK payload \in Payloads :
          LET new == create(mem)
              full == print(new.mem, new.obj, payload)
              m == save(full.mem, full.obj)
              args == <<size(m, full.obj), new.obj.curr>>
          IN  /\ tcpSend(prepare(m, Feed, args), Rendered(Feed, <<Len(payload), 0>>, payload))
              /\ held' = <<mem.map \ full.mem.map, held[1] \cup held[2]>>
    BY <1>2 DEF Post
  <2> DEFINE c == create(mem)
             r == print(c.mem, c.obj, payload)
             v == save(r.mem, r.obj)
             T == mem.map \ r.mem.map
             O == held[1] \cup held[2]
             w == prepare(v, Feed, <<size(v, r.obj), c.obj.curr>>)
             message == Rendered(Feed, <<Len(payload), 0>>, payload)
  <2>3. tcpSend(w, message) /\ held' = <<T, O>>
    BY <2>2
  <2>4. mem' = w /\ request'.text = message /\ held'[1] = T /\ held'[2] = O /\ Pair(held)'
    BY <2>3 DEF tcpSend, Pair
  <2>5. IsText(payload) /\ Len(payload) \in Nat
    BY SketchAssumption DEF IsText
  <2>6. /\ Posted(mem, c, r, v, payload) /\ T = mem.map \ r.mem.map
        /\ w = prepare(v, Feed, <<size(v, r.obj), c.obj.curr>>)
        /\ O = held[1] \cup held[2] /\ message = Rendered(Feed, <<Len(payload), 0>>, payload)
    BY DEF Posted
  <2> HIDE DEF c, r, v, T, O, w, message
  <2>7. Shape(mem) /\ Others(held[1]) /\ Others(held[2]) /\ Divided(mem, held[1], held[2])
    BY <2>1 DEF MemInv, Owned
  <2>8. Others(O) /\ Divided(mem, {}, O)
    BY <2>6, <2>7 DEF Others, Divided
  <2>9. UNCHANGED <<phase, obj, text, taken, puts, exact>>
    BY <2>1 DEF stashVars
  <2>10. phase[1] = "none" /\ phase[2] = "none" /\ exact
    BY DEF MemInv, Sending
  <2>11. Shape(w) /\ (c.mem.short \/ r.mem.short => w.short)
    BY <2>5, <2>6, <2>7, <2>8, PostShape
  <2>12. Pairs' /\ (puts \in Nat)' /\ Offline' /\ Testing'
    BY <2>1, <2>4, <2>9 DEF MemInv, Pairs, Pair, Offline, Testing
  <2>13. CASE w.short
    <3>1. Owned' /\ Sending'
      BY <2>1, <2>4, <2>9, <2>10, <2>13 DEF Owned, Sending
    <3>2. QED
      BY <2>4, <2>11, <2>12, <3>1 DEF MemInv
  <2>14. CASE ~w.short
    <3>1. Enough(mem, c, r, T)
      BY <2>6, <2>11, <2>14 DEF Enough
    <3>2. Others(T) /\ Divided(w, T, O) /\ Ready(w, T, message)
      BY <2>1, <2>5, <2>6, <2>7, <2>8, <3>1, PostOp
    <3>3. Owned' /\ Sending'
      BY <2>1, <2>4, <2>8, <2>9, <2>10, <3>2 DEF Owned, Sending
    <3>4. QED
      BY <2>4, <2>11, <2>12, <3>3 DEF MemInv
  <2>15. QED
    BY <2>13, <2>14
<1>3. QED
  BY <1>1, <1>2
-----------------------------------------------------------------------------
(* A step of stashTest on stash i, next to stash j.                        *)
OnlyOf(i, j) ==
    /\ Pairs' /\ puts' \in Nat
    /\ held'[j] = held[j] /\ phase'[j] = phase[j] /\ obj'[j] = obj[j]
    /\ text'[j] = text[j] /\ taken'[j] = taken[j]
    /\ UNCHANGED <<sketch, tcp_client_state, conn>> /\ request'.n = 0
Proceeds(i, j) ==
    /\ exact'
    /\ Result(mem, mem', phase'[i], obj'[i], text'[i], taken'[i], held'[i], held[j])
    /\ phase[j] = "sent" => Page(mem', 0) = Page(mem, 0) /\ request' = request /\ phase'[i] # "sent"
    /\ phase'[i] = "sent" => request'.text = TestMessage(i)'
    /\ Known(mem', phase'[i], obj'[i], phase[j], held[j])
    /\ Known(mem', phase[j], obj[j], phase'[i], held'[i])

LEMMA TestNext ==
    ASSUME MemInv, sketch = "stashTest", ~mem.short, NEW i \in 1 .. 2, NEW j \in 1 .. 2, i # j,
           OnlyOf(i, j), Shape(mem'), mem'.short \/ Proceeds(i, j)
    PROVE  MemInv'
<1>1. (i = 1 /\ j = 2) \/ (i = 2 /\ j = 1)
  OBVIOUS
<1>2. Shape(mem)' /\ Pairs' /\ (puts \in Nat)' /\ Sending'
  BY DEF OnlyOf, Sending
<1>3. Offline'
  BY DEF MemInv, Offline, OnlyOf
<1>4. ASSUME Proceeds(i, j)
      PROVE  Owned' /\ Testing'
  <2>1. /\ Kept1(j, i) /\ Others(held[j])
    BY <1>1 DEF MemInv, Testing, Owned
  <2>2. One(mem', phase'[i], obj'[i], text'[i], taken'[i], held'[i]) /\ Spares(mem, mem', held[j])
        /\ Divided(mem', held'[i], held[j])
    BY <1>4 DEF Proceeds, Result
  <2>3. One(mem, phase[j], obj[j], text[j], taken[j], held[j])
    BY <2>1 DEF Kept1
  <2>4. phase[j] = "sent" => Page(mem', 0) = Page(mem, 0)
    BY <1>4 DEF Proceeds
  <2>5. One(mem', phase[j], obj[j], text[j], taken[j], held[j])
    BY <2>2, <2>3, <2>4, OneSpared
  <2>6. Others(held'[i])
    BY <2>2, OnePages
  <2>7. Divided(mem', held[j], held'[i])
    BY <2>2 DEF Divided
  <2>8. Owned'
    BY <1>1, <2>1, <2>2, <2>6, <2>7 DEF Owned, OnlyOf
  <2>9. Kept1(i, j)'
    <3>1. phase'[i] = "sent" => phase[j] # "sent" /\ request'.text = TestMessage(i)'
      BY <1>4 DEF Proceeds
    <3>2. Known(mem', phase'[i], obj'[i], phase[j], held[j])
      BY <1>4 DEF Proceeds
    <3>3. phase'[j] = phase[j] /\ held'[j] = held[j]
      BY DEF OnlyOf
    <3>4. QED
      BY <2>2, <3>1, <3>2, <3>3 DEF Kept1
  <2>10. Kept1(j, i)'
    <3>1. phase'[j] = phase[j] /\ held'[j] = held[j] /\ obj'[j] = obj[j] /\ text'[j] = text[j]
          /\ taken'[j] = taken[j]
      BY DEF OnlyOf
    <3>2. TestMessage(j)' = TestMessage(j)
      BY <3>1 DEF TestMessage
    <3>3. phase[j] = "sent" => phase'[i] # "sent" /\ request'.text = TestMessage(j)
      BY <1>4, <2>1 DEF Proceeds, Kept1
    <3>4. Known(mem', phase[j], obj[j], phase'[i], held'[i])
      BY <1>4 DEF Proceeds
    <3>5. QED
      BY <2>5, <3>1, <3>2, <3>3, <3>4 DEF Kept1
  <2>11. exact'
    BY <1>4 DEF Proceeds
  <2>12. QED
    BY <1>1, <2>8, <2>9, <2>10, <2>11 DEF Testing
<1>5. CASE mem'.short
  BY <1>2, <1>3, <1>5 DEF MemInv, Owned, Testing
<1>6. CASE Proceeds(i, j)
  BY <1>2, <1>3, <1>4, <1>6 DEF MemInv
<1>7. QED
  BY <1>5, <1>6

(* What the invariant says of the stash that a step is about, and of the   *)
(* other one.                                                              *)
LEMMA TestNow ==
    ASSUME MemInv, stashTest, NEW i \in 1 .. 2, NEW j \in 1 .. 2, i # j
    PROVE  /\ Shape(mem) /\ ~mem.short /\ exact /\ sketch = "stashTest" /\ request.n = 0
           /\ One(mem, phase[i], obj[i], text[i], taken[i], held[i])
           /\ One(mem, phase[j], obj[j], text[j], taken[j], held[j])
           /\ Known(mem, phase[i], obj[i], phase[j], held[j])
           /\ Known(mem, phase[j], obj[j], phase[i], held[i])
           /\ phase[i] = "sent" => phase[j] # "sent" /\ request.text = TestMessage(i)
           /\ phase[j] = "sent" => phase[i] # "sent" /\ request.text = TestMessage(j)
           /\ Others(held[i]) /\ Others(held[j]) /\ Divided(mem, held[i], held[j])
           /\ Pair(held) /\ Pair(phase) /\ Pair(obj) /\ Pair(text) /\ Pair(taken) /\ puts \in Nat
           /\ UNCHANGED <<sketch, tcp_client_state, conn>>
<1>1. (i = 1 /\ j = 2) \/ (i = 2 /\ j = 1)
  OBVIOUS
<1>2. ~mem.short /\ sketch = "stashTest" /\ UNCHANGED <<sketch, tcp_client_state, conn>>
  BY DEF stashTest, sketchVars
<1>3. Shape(mem) /\ Pairs /\ puts \in Nat /\ Owned /\ Offline /\ Testing
  BY DEF MemInv
<1>4. exact /\ Kept1(i, j) /\ Kept1(j, i)
  BY <1>1, <1>2, <1>3 DEF Testing
<1>5. Others(held[i]) /\ Others(held[j]) /\ Divided(mem, held[1], held[2])
  BY <1>1, <1>2, <1>3 DEF Owned
<1>6. Divided(mem, held[i], held[j])
  BY <1>1, <1>5 DEF Divided
<1>7. QED
  BY <1>2, <1>3, <1>4, <1>5, <1>6 DEF Kept1, Pairs, Offline

LEMMA CreateMem ==
    ASSUME MemInv, NEW i \in 1 .. 2, NEW j \in 1 .. 2, i # j, Create(i)
    PROVE  MemInv'
<1> DEFINE c == create(mem)
           T == mem.map \ c.mem.map
<1>1. /\ stashTest /\ phase[i] = "none" /\ puts' = puts + 1
      /\ mem' = c.mem /\ obj' = [obj EXCEPT ![i] = c.obj] /\ held' = [held EXCEPT ![i] = T]
      /\ text' = [text EXCEPT ![i] = <<>>] /\ taken' = [taken EXCEPT ![i] = 0]
      /\ phase' = [phase EXCEPT ![i] = "open"] /\ UNCHANGED <<exact, request>>
  BY DEF Create, Holds, Becomes
<1>2. c = create(mem) /\ T = mem.map \ c.mem.map
  OBVIOUS
<1> HIDE DEF c, T
<1>3. /\ Shape(mem) /\ ~mem.short /\ exact /\ sketch = "stashTest" /\ request.n = 0
      /\ One(mem, phase[i], obj[i], text[i], taken[i], held[i])
      /\ Others(held[j]) /\ Divided(mem, held[i], held[j])
      /\ Pair(held) /\ Pair(phase) /\ Pair(obj) /\ Pair(text) /\ Pair(taken) /\ puts \in Nat
      /\ UNCHANGED <<sketch, tcp_client_state, conn>>
  BY <1>1, TestNow
<1>4. Divided(mem, {}, held[j])
  BY <1>1, <1>3 DEF One
<1>5. /\ Shape(c.mem)
      /\ \/ c.mem.short
         \/ /\ Result(mem, c.mem, "open", c.obj, <<>>, 0, T, held[j])
            /\ Page(c.mem, 0) = Page(mem, 0) /\ \A p : Fresh(c.mem, p)
  BY <1>2, <1>3, <1>4, CreateOp
<1>6. /\ Pair(held') /\ held'[i] = T /\ held'[j] = held[j]
      /\ Pair(obj') /\ obj'[i] = c.obj /\ obj'[j] = obj[j]
  BY <1>1, <1>3 DEF Pair
<1>7. /\ Pair(text') /\ text'[i] = <<>> /\ text'[j] = text[j]
      /\ Pair(taken') /\ taken'[i] = 0 /\ taken'[j] = taken[j]
      /\ Pair(phase') /\ phase'[i] = "open" /\ phase'[j] = phase[j]
  BY <1>1, <1>3 DEF Pair
<1>8. OnlyOf(i, j)
  BY <1>1, <1>3, <1>6, <1>7 DEF OnlyOf, Pairs
<1>9. ASSUME ~c.mem.short
      PROVE  Proceeds(i, j)
  <2>1. Result(mem, c.mem, "open", c.obj, <<>>, 0, T, held[j])
        /\ Page(c.mem, 0) = Page(mem, 0) /\ \A p : Fresh(c.mem, p)
    BY <1>5, <1>9
  <2>2. Result(mem, mem', phase'[i], obj'[i], text'[i], taken'[i], held'[i], held[j])
    BY <1>1, <1>6, <1>7, <2>1
  <2>3. Known(mem', phase'[i], obj'[i], phase[j], held[j])
        /\ Known(mem', phase[j], obj[j], phase'[i], held'[i])
    BY <1>1, <2>1 DEF Known
  <2>4. QED
    BY <1>1, <1>3, <1>7, <2>1, <2>2, <2>3 DEF Proceeds
<1>10. QED
  BY <1>1, <1>3, <1>5, <1>8, <1>9, TestNext

LEMMA PutMem ==
    ASSUME MemInv, NEW i \in 1 .. 2, NEW j \in 1 .. 2, i # j, NEW n \in Nat, Put(i, n)
    PROVE  MemInv'
<1> DEFINE bytes == [k \in 1 .. n |-> 64 + 16 * puts + k]
           r == print(mem, obj[i], bytes)
           T == held[i] \cup (mem.map \ r.mem.map)
<1>1. /\ stashTest /\ phase[i] = "open" /\ puts' = puts + 1
      /\ mem' = r.mem /\ obj' = [obj EXCEPT ![i] = r.obj] /\ held' = [held EXCEPT ![i] = T]
      /\ text' = [text EXCEPT ![i] = text[i] \o bytes] /\ UNCHANGED <<phase, exact, request, taken>>
  <2>1. text' = [text EXCEPT ![i] = @ \o bytes]
    BY DEF Put
  <2>2. QED
    BY <2>1 DEF Put, Holds
<1>2. /\ Shape(mem) /\ ~mem.short /\ exact /\ sketch = "stashTest" /\ request.n = 0
      /\ One(mem, phase[i], obj[i], text[i], taken[i], held[i])
      /\ Known(mem, phase[i], obj[i], phase[j], held[j])
      /\ Known(mem, phase[j], obj[j], phase[i], held[i])
      /\ Others(held[j]) /\ Divided(mem, held[i], held[j])
      /\ Pair(held) /\ Pair(phase) /\ Pair(obj) /\ Pair(text) /\ Pair(taken) /\ puts \in Nat
      /\ UNCHANGED <<sketch, tcp_client_state, conn>>
  BY <1>1, TestNow
<1>3. IsText(bytes)
  <2>1. \A k \in 1 .. n : 64 + 16 * puts + k \in Nat \ {0}
    BY <1>2
  <2>2. QED
    BY <2>1 DEF IsText
<1>4. r = print(mem, obj[i], bytes) /\ T = held[i] \cup (mem.map \ r.mem.map)
  OBVIOUS
<1> HIDE DEF bytes, r, T
<1>5. Shape(r.mem) /\ (r.mem.short \/ PutDone(mem, obj[i], r, text[i] \o bytes, taken[i], held[i], T, held[j]))
  <2>1. One(mem, "open", obj[i], text[i], taken[i], held[i])
    BY <1>1, <1>2
  <2>2. QED
    BY <1>2, <1>3, <1>4, <2>1, PutOp
<1>6. /\ Pair(held') /\ held'[i] = T /\ held'[j] = held[j]
      /\ Pair(obj') /\ obj'[i] = r.obj /\ obj'[j] = obj[j]
  BY <1>1, <1>2 DEF Pair
<1>7. Pair(text') /\ text'[i] = text[i] \o bytes /\ text'[j] = text[j]
  BY <1>1, <1>2 DEF Pair
<1>8. OnlyOf(i, j)
  BY <1>1, <1>2, <1>6, <1>7 DEF OnlyOf, Pairs
<1>9. ASSUME PutDone(mem, obj[i], r, text[i] \o bytes, taken[i], held[i], T, held[j])
      PROVE  Proceeds(i, j)
  <2>1. /\ Result(mem, r.mem, "open", r.obj, text[i] \o bytes, taken[i], T, held[j])
        /\ Page(r.mem, 0) = Page(mem, 0) /\ r.obj.first = obj[i].first
        /\ \/ r.mem.bufs[0].bnum = r.obj.last
           \/ r.mem = mem /\ r.obj = obj[i] /\ T = held[i]
    BY <1>9 DEF PutDone
  <2>2. Result(mem, mem', phase'[i], obj'[i], text'[i], taken'[i], held'[i], held[j])
    BY <1>1, <1>6, <1>7, <2>1
  <2>3. r.obj.last \in T
    <3>1. One(r.mem, "open", r.obj, text[i] \o bytes, taken[i], T)
      BY <2>1 DEF Result
    <3>2. QED
      BY <3>1, OnePages
  <2>4. Known(mem', phase'[i], obj'[i], phase[j], held[j])
    BY <1>1, <1>2, <1>6, <2>1 DEF Known
  <2>5. Known(mem', phase[j], obj[j], phase'[i], held'[i])
    BY <1>1, <1>2, <1>6, <2>1, <2>3 DEF Known
  <2>6. QED
    BY <1>1, <1>2, <2>1, <2>2, <2>4, <2>5 DEF Proceeds
<1>10. QED
  BY <1>1, <1>2, <1>5, <1>8, <1>9, TestNext

LEMMA SaveMem ==
    ASSUME MemInv, NEW i \in 1 .. 2, NEW j \in 1 .. 2, i # j, Save(i)
    PROVE  MemInv'
<1>1. /\ stashTest /\ phase[i] = "open" /\ mem' = save(mem, obj[i])
      /\ phase' = [phase EXCEPT ![i] = "saved"]
      /\ UNCHANGED <<obj, text, puts, exact, held, request, taken>>
  BY DEF Save, Becomes
<1>2. /\ Shape(mem) /\ ~mem.short /\ exact /\ sketch = "stashTest" /\ request.n = 0
      /\ One(mem, phase[i], obj[i], text[i], taken[i], held[i])
      /\ Others(held[j]) /\ Divided(mem, held[i], held[j])
      /\ Pair(held) /\ Pair(phase) /\ Pair(obj) /\ Pair(text) /\ Pair(taken) /\ puts \in Nat
      /\ UNCHANGED <<sketch, tcp_client_state, conn>>
  BY <1>1, TestNow
<1>3. One(mem, "open", obj[i], text[i], taken[i], held[i])
  BY <1>1, <1>2
<1>4. /\ Result(mem, mem', "saved", obj[i], text[i], taken[i], held[i], held[j])
      /\ Page(mem', 0) = Page(mem, 0) /\ mem'.bufs[0].bnum = obj[i].first
  BY <1>1, <1>2, <1>3, SaveOp
<1>5. Pair(phase') /\ phase'[i] = "saved" /\ phase'[j] = phase[j]
  BY <1>1, <1>2 DEF Pair
<1>6. obj[i].first \in held[i]
  BY <1>3, OnePages
<1>7. OnlyOf(i, j)
  BY <1>1, <1>2, <1>5 DEF OnlyOf, Pairs
<1>8. Known(mem', phase'[i], obj'[i], phase[j], held[j]) /\ Known(mem', phase[j], obj[j], phase'[i], held'[i])
  BY <1>1, <1>4, <1>5, <1>6 DEF Known
<1>9. Proceeds(i, j)
  BY <1>1, <1>2, <1>4, <1>5, <1>8 DEF Proceeds
<1>10. Shape(mem')
  BY <1>4 DEF Result
<1>11. QED
  BY <1>1, <1>2, <1>7, <1>9, <1>10, TestNext

LEMMA OneRead ==
    ASSUME NEW m, NEW p, NEW s, NEW t, NEW k, NEW S, One(m, p, s, t, k, S), p # "none"
    PROVE  k \in Nat
<1>1. PICK ch : Written(m, ch, t) /\ k \in 0 .. Len(t)
  BY DEF One, Chained
<1>2. Len(t) \in Nat
  BY <1>1, PagesOf
<1>3. QED
  BY <1>1, <1>2

LEMMA GetMem ==
    ASSUME MemInv, NEW i \in 1 .. 2, NEW j \in 1 .. 2, i # j, Get(i)
    PROVE  MemInv'
<1> DEFINE g == get(mem, obj[i])
<1>1. /\ stashTest /\ phase[i] = "saved" /\ mem' = g.mem
      /\ obj' = [obj EXCEPT ![i] = g.obj]
      /\ exact' = (g.c = IF taken[i] < Len(text[i]) THEN text[i][taken[i] + 1] ELSE 0)
      /\ taken' = [taken EXCEPT ![i] = taken[i] + (IF g.c = 0 THEN 0 ELSE 1)]
      /\ UNCHANGED <<phase, text, puts, held, request>>
  <2>1. taken' = [taken EXCEPT ![i] = @ + (IF g.c = 0 THEN 0 ELSE 1)]
    BY DEF Get
  <2>2. QED
    BY <2>1 DEF Get
<1>2. g = get(mem, obj[i])
  OBVIOUS
<1> HIDE DEF g
<1>3. /\ Shape(mem) /\ ~mem.short /\ sketch = "stashTest" /\ request.n = 0
      /\ One(mem, phase[i], obj[i], text[i], taken[i], held[i])
      /\ One(mem, phase[j], obj[j], text[j], taken[j], held[j])
      /\ Known(mem, phase[j], obj[j], phase[i], held[i])
      /\ Others(held[j]) /\ Divided(mem, held[i], held[j])
      /\ Pair(held) /\ Pair(phase) /\ Pair(obj) /\ Pair(text) /\ Pair(taken) /\ puts \in Nat
      /\ UNCHANGED <<sketch, tcp_client_state, conn>>
  BY <1>1, TestNow
<1>4. One(mem, "saved", obj[i], text[i], taken[i], held[i]) /\ taken[i] \in Nat
  BY <1>1, <1>3, OneRead
<1>5. /\ Gives(g, text[i], taken[i], IF g.c = 0 THEN taken[i] ELSE taken[i] + 1)
      /\ Result(mem, g.mem, "saved", g.obj, text[i], IF g.c = 0 THEN taken[i] ELSE taken[i] + 1,
                held[i], held[j])
      /\ Page(g.mem, 0) = Page(mem, 0) /\ g.mem.bufs[0] = mem.bufs[0]
  BY <1>2, <1>3, <1>4, GetOp
<1>6. Pair(obj') /\ obj'[i] = g.obj /\ obj'[j] = obj[j]
  BY <1>1, <1>3 DEF Pair
<1>7. /\ Pair(taken') /\ taken'[j] = taken[j]
      /\ taken'[i] = IF g.c = 0 THEN taken[i] ELSE taken[i] + 1
  <2> DEFINE n == taken[i] + (IF g.c = 0 THEN 0 ELSE 1)
  <2>1. n = IF g.c = 0 THEN taken[i] ELSE taken[i] + 1
    BY <1>4
  <2>2. taken' = [taken EXCEPT ![i] = n]
    BY <1>1
  <2> HIDE DEF n
  <2>3. Pair(taken') /\ taken'[j] = taken[j] /\ taken'[i] = n
    BY <1>3, <2>2 DEF Pair
  <2>4. QED
    BY <2>1, <2>3
<1>8. OnlyOf(i, j)
  BY <1>1, <1>3, <1>6, <1>7 DEF OnlyOf, Pairs
<1>9. exact'
  BY <1>1, <1>5 DEF Gives
<1>10. Result(mem, mem', phase'[i], obj'[i], text'[i], taken'[i], held'[i], held[j])
  BY <1>1, <1>5, <1>6, <1>7
<1>11. phase[j] = "open" => obj[j].first \in held[j] /\ (Fresh(mem, obj[j].first) => Fresh(mem', obj[j].first))
  <2>1. phase[j] = "open" => obj[j].first \in held[j]
    BY <1>3, OnePages
  <2>2. QED
    BY <1>10, <2>1 DEF Result, Spares
<1>12. Known(mem', phase[j], obj[j], phase'[i], held'[i]) /\ Known(mem', phase'[i], obj'[i], phase[j], held[j])
  BY <1>1, <1>3, <1>5, <1>11 DEF Known
<1>13. Proceeds(i, j)
  BY <1>1, <1>5, <1>9, <1>10, <1>12 DEF Proceeds
<1>14. Shape(mem')
  BY <1>10 DEF Result
<1>15. QED
  BY <1>3, <1>8, <1>13, <1>14, TestNext

LEMMA PrepareMem ==
    ASSUME MemInv, NEW i \in 1 .. 2, NEW j \in 1 .. 2, i # j, Prepare(i)
    PROVE  MemInv'
<1> DEFINE args == <<Len(text[i]), obj[i].first>>
<1>1. /\ stashTest /\ phase[i] = "saved" /\ "sent" \notin {phase[1], phase[2]}
      /\ mem' = prepare(mem, TestText, args)
      /\ request' = [n |-> 0, text |-> Rendered(TestText, args, text[i])]
      /\ phase' = [phase EXCEPT ![i] = "sent"]
      /\ UNCHANGED <<obj, text, puts, exact, held, taken>>
  BY DEF Prepare, Becomes
<1>2. args = <<Len(text[i]), obj[i].first>>
  OBVIOUS
<1> HIDE DEF args
<1>3. /\ Shape(mem) /\ ~mem.short /\ exact /\ sketch = "stashTest"
      /\ One(mem, phase[i], obj[i], text[i], taken[i], held[i])
      /\ Others(held[j]) /\ Divided(mem, held[i], held[j])
      /\ Pair(held) /\ Pair(phase) /\ Pair(obj) /\ Pair(text) /\ Pair(taken) /\ puts \in Nat
      /\ UNCHANGED <<sketch, tcp_client_state, conn>>
  BY <1>1, TestNow
<1>4. One(mem, "saved", obj[i], text[i], taken[i], held[i])
  BY <1>1, <1>3
<1>5. Result(mem, mem', "sent", obj[i], text[i], taken[i], held[i], held[j])
  BY <1>1, <1>2, <1>3, <1>4, PrepareOp
<1>6. Pair(phase') /\ phase'[i] = "sent" /\ phase'[j] = phase[j] /\ phase[j] # "sent"
  <2>1. phase' = [phase EXCEPT ![i] = "sent"] /\ Pair(phase)
    BY <1>1, <1>3
  <2>2. Pair(phase') /\ phase'[i] = "sent" /\ phase'[j] = phase[j]
    BY <2>1 DEF Pair
  <2>3. phase[j] # "sent"
    BY <1>1
  <2>4. QED
    BY <2>2, <2>3
<1>7. request'.n = 0 /\ request'.text = TestMessage(i)'
  BY <1>1, <1>2 DEF TestMessage
<1>8. OnlyOf(i, j)
  BY <1>1, <1>3, <1>6, <1>7 DEF OnlyOf, Pairs
<1>9. Known(mem', phase'[i], obj'[i], phase[j], held[j]) /\ Known(mem', phase[j], obj[j], phase'[i], held'[i])
  BY <1>6 DEF Known
<1>10. Proceeds(i, j)
  BY <1>1, <1>3, <1>5, <1>6, <1>7, <1>9 DEF Proceeds
<1>11. Shape(mem')
  BY <1>5 DEF Result
<1>12. QED
  BY <1>3, <1>8, <1>10, <1>11, TestNext

LEMMA ExtractMem ==
    ASSUME MemInv, NEW i \in 1 .. 2, NEW j \in 1 .. 2, i # j,
           NEW k \in 0 .. Len(request.text), Extract(i, k)
    PROVE  MemInv'
<1> DEFINE l == length(mem)
           x == extract(l.mem, k, 1)
<1>1. /\ stashTest /\ phase[i] = "sent" /\ mem' = x.mem
      /\ exact' = (/\ l.len = Len(request.text)
                   /\ x.out = IF k = l.len THEN <<>> ELSE <<request.text[k + 1]>>)
      /\ UNCHANGED <<phase, obj, text, puts, held, request, taken>>
  BY DEF Extract
<1>2. l = length(mem) /\ x = extract(l.mem, k, 1)
  OBVIOUS
<1> HIDE DEF l, x
<1>3. /\ Shape(mem) /\ ~mem.short /\ sketch = "stashTest" /\ request.n = 0
      /\ One(mem, phase[i], obj[i], text[i], taken[i], held[i])
      /\ phase[i] = "sent" => phase[j] # "sent" /\ request.text = TestMessage(i)
      /\ Others(held[j]) /\ Divided(mem, held[i], held[j])
      /\ Pair(held) /\ Pair(phase) /\ Pair(obj) /\ Pair(text) /\ Pair(taken) /\ puts \in Nat
      /\ UNCHANGED <<sketch, tcp_client_state, conn>>
  BY <1>1, TestNow
<1>4. One(mem, "sent", obj[i], text[i], taken[i], held[i])
  BY <1>1, <1>3
<1>5. request.text = Rendered(TestText, <<Len(text[i]), obj[i].first>>, text[i])
  BY <1>1, <1>3 DEF TestMessage
<1>6. /\ Result(mem, x.mem, "sent", obj[i], text[i], taken[i], held[i], held[j])
      /\ l.len = Len(request.text)
      /\ x.out = IF k = Len(request.text) THEN <<>> ELSE <<request.text[k + 1]>>
  <2> DEFINE message == request.text
  <2>1. message = Rendered(TestText, <<Len(text[i]), obj[i].first>>, text[i]) /\ k \in 0 .. Len(message)
    BY <1>5
  <2> HIDE DEF message
  <2>2. /\ Result(mem, x.mem, "sent", obj[i], text[i], taken[i], held[i], held[j])
        /\ l.len = Len(message)
        /\ x.out = IF k = Len(message) THEN <<>> ELSE <<message[k + 1]>>
    BY <1>2, <1>3, <1>4, <2>1, ExtractOp
  <2>3. QED
    BY <2>2 DEF message
<1>7. OnlyOf(i, j)
  BY <1>1, <1>3 DEF OnlyOf, Pairs
<1>8. exact'
  BY <1>1, <1>6
<1>9. Known(mem', phase'[i], obj'[i], phase[j], held[j]) /\ Known(mem', phase[j], obj[j], phase'[i], held'[i])
  BY <1>1 DEF Known
<1>10. request'.text = TestMessage(i)'
  BY <1>1, <1>5 DEF TestMessage
<1>11. Proceeds(i, j)
  BY <1>1, <1>3, <1>6, <1>8, <1>9, <1>10 DEF Proceeds
<1>12. Shape(mem')
  BY <1>1, <1>6 DEF Result
<1>13. QED
  BY <1>3, <1>7, <1>11, <1>12, TestNext

(* The end of stash i, whose pages are free again. *)
LEMMA EndedMem ==
    ASSUME MemInv, NEW i \in 1 .. 2, NEW j \in 1 .. 2, i # j, stashTest, phase[i] # "none", Ended(i),
           request'.n = 0, Result(mem, mem', "none", NoStash, <<>>, 0, {}, held[j]),
           phase[j] = "sent" => Page(mem', 0) = Page(mem, 0) /\ request' = request,
           phase[j] = "open" => Fresh(mem', obj[j].first) \/ mem'.bufs[0].bnum = obj[j].last
    PROVE  MemInv'
<1>1. /\ phase' = [phase EXCEPT ![i] = "none"] /\ held' = [held EXCEPT ![i] = {}]
      /\ obj' = [obj EXCEPT ![i] = NoStash] /\ text' = [text EXCEPT ![i] = <<>>]
      /\ taken' = [taken EXCEPT ![i] = 0] /\ UNCHANGED <<puts, exact>>
  BY DEF Ended, Becomes, Holds
<1>2. /\ ~mem.short /\ exact /\ sketch = "stashTest"
      /\ Pair(held) /\ Pair(phase) /\ Pair(obj) /\ Pair(text) /\ Pair(taken) /\ puts \in Nat
      /\ UNCHANGED <<sketch, tcp_client_state, conn>>
  BY TestNow
<1>3. /\ Pair(phase') /\ phase'[i] = "none" /\ phase'[j] = phase[j]
      /\ Pair(held') /\ held'[i] = {} /\ held'[j] = held[j]
  BY <1>1, <1>2 DEF Pair
<1>4. /\ Pair(obj') /\ obj'[i] = NoStash /\ obj'[j] = obj[j]
      /\ Pair(text') /\ text'[i] = <<>> /\ text'[j] = text[j]
  BY <1>1, <1>2 DEF Pair
<1>5. Pair(taken') /\ taken'[i] = 0 /\ taken'[j] = taken[j]
  BY <1>1, <1>2 DEF Pair
<1>6. OnlyOf(i, j)
  BY <1>1, <1>2, <1>3, <1>4, <1>5 DEF OnlyOf, Pairs
<1>7. Result(mem, mem', phase'[i], obj'[i], text'[i], taken'[i], held'[i], held[j])
  BY <1>3, <1>4, <1>5
<1>8. Known(mem', phase'[i], obj'[i], phase[j], held[j]) /\ Known(mem', phase[j], obj[j], phase'[i], held'[i])
  BY <1>3 DEF Known
<1>9. Proceeds(i, j)
  BY <1>1, <1>2, <1>3, <1>7, <1>8 DEF Proceeds
<1>10. Shape(mem')
  BY DEF Result
<1>11. QED
  BY <1>2, <1>6, <1>9, <1>10, TestNext

LEMMA CleanupMem ==
    ASSUME MemInv, NEW i \in 1 .. 2, NEW j \in 1 .. 2, i # j, Cleanup(i)
    PROVE  MemInv'
<1>1. stashTest /\ phase[i] = "sent" /\ mem' = cleanup(mem) /\ request' = NoText /\ Ended(i)
  BY DEF Cleanup
<1>2. /\ Shape(mem) /\ ~mem.short
      /\ One(mem, phase[i], obj[i], text[i], taken[i], held[i])
      /\ One(mem, phase[j], obj[j], text[j], taken[j], held[j])
      /\ phase[i] = "sent" => phase[j] # "sent"
      /\ Others(held[j]) /\ Divided(mem, held[i], held[j])
  BY <1>1, TestNow
<1>3. One(mem, "sent", obj[i], text[i], taken[i], held[i])
  BY <1>1, <1>2
<1>4. /\ Result(mem, mem', "none", NoStash, <<>>, 0, {}, held[j])
      /\ mem'.bufs[1].bnum \in held[i]
  BY <1>1, <1>2, <1>3, CleanupOp
<1>5. phase[j] = "open" => Fresh(mem', obj[j].first)
  <2>1. phase[j] = "open" => obj[j].first \in held[j]
    BY <1>2, OnePages
  <2>2. held[i] \cap held[j] = {}
    BY <1>2 DEF Divided
  <2>3. QED
    BY <1>4, <2>1, <2>2 DEF Fresh
<1>6. request'.n = 0
  BY <1>1 DEF NoText
<1>7. QED
  BY <1>1, <1>2, <1>4, <1>5, <1>6, EndedMem

LEMMA ReleaseMem ==
    ASSUME MemInv, NEW i \in 1 .. 2, NEW j \in 1 .. 2, i # j, Release(i)
    PROVE  MemInv'
<1>1. /\ stashTest /\ phase[i] = "saved" /\ mem.bufs[0].bnum \notin held[i]
      /\ mem' = release(mem, obj[i]) /\ UNCHANGED request /\ Ended(i)
  BY DEF Release
<1>2. /\ Shape(mem) /\ ~mem.short /\ request.n = 0
      /\ One(mem, phase[i], obj[i], text[i], taken[i], held[i])
      /\ One(mem, phase[j], obj[j], text[j], taken[j], held[j])
      /\ Known(mem, phase[j], obj[j], phase[i], held[i])
      /\ Others(held[j]) /\ Divided(mem, held[i], held[j])
  BY <1>1, TestNow
<1>3. One(mem, "saved", obj[i], text[i], taken[i], held[i])
  BY <1>1, <1>2
<1>4. /\ Result(mem, mem', "none", NoStash, <<>>, 0, {}, held[j])
      /\ Page(mem', 0) = Page(mem, 0) /\ mem'.bufs[0] = mem.bufs[0]
  BY <1>1, <1>2, <1>3, ReleaseOp
<1>5. phase[j] = "open" => Fresh(mem', obj[j].first) \/ mem'.bufs[0].bnum = obj[j].last
  <2>1. phase[j] = "open" => obj[j].first \in held[j]
    BY <1>2, OnePages
  <2>2. phase[j] = "open" => Fresh(mem, obj[j].first) \/ mem.bufs[0].bnum = obj[j].last
    BY <1>1, <1>2 DEF Known
  <2>3. QED
    BY <1>4, <2>1, <2>2 DEF Result, Spares
<1>6. request'.n = 0
  BY <1>1, <1>2
<1>7. QED
  BY <1>1, <1>4, <1>5, <1>6, EndedMem

LEMMA TestMem ==
    ASSUME MemInv, StashTest
    PROVE  MemInv'
<1>1. PICK i \in 1 .. 2 :
        \/ Create(i) \/ Save(i) \/ Get(i) \/ Prepare(i) \/ Cleanup(i) \/ Release(i)
        \/ \E n \in Lengths : Put(i, n)
        \/ \E k \in 0 .. Len(request.text) : Extract(i, k)
  BY DEF StashTest
<1>2. PICK j \in 1 .. 2 : i # j
  BY <1>1
<1>3. CASE Create(i)
  BY <1>2, <1>3, CreateMem
<1>4. CASE Save(i)
  BY <1>2, <1>4, SaveMem
<1>5. CASE Get(i)
  BY <1>2, <1>5, GetMem
<1>6. CASE Prepare(i)
  BY <1>2, <1>6, PrepareMem
<1>7. CASE Cleanup(i)
  BY <1>2, <1>7, CleanupMem
<1>8. CASE Release(i)
  BY <1>2, <1>8, ReleaseMem
<1>9. CASE \E n \in Lengths : Put(i, n)
  BY <1>2, <1>9, SketchAssumption, PutMem
<1>10. CASE \E k \in 0 .. Len(request.text) : Extract(i, k)
  BY <1>2, <1>10, ExtractMem
<1>11. QED
  BY <1>1, <1>3, <1>4, <1>5, <1>6, <1>7, <1>8, <1>9, <1>10
-----------------------------------------------------------------------------
(* Each step keeps the invariant of the memory. *)
LEMMA WaitMem ==
    ASSUME ControlInv, MemInv, LookupWait
    PROVE  MemInv'
<1>1. PICK f \in Packets : packetLoop(f)
  BY DEF LookupWait, Packets
<1>2. pc = "wait" /\ UNCHANGED <<sketchVars, stashVars, held>>
  BY DEF LookupWait
<1>3. sketch \in {"noipClient", "pachube"} /\ IsConn(conn) /\ filled \in Nat
  BY <1>2 DEF ControlInv, NetTypes, Filling, SketchTypes, Flow
<1>4. UNCHANGED <<sketch, stashVars>> /\ pc' = "wait"
  BY <1>2 DEF sketchVars
<1>5. Pair(held)'
  BY <1>2 DEF MemInv, Pairs, Pair
<1>6. held'[2] = held[2] /\ held'[1] = IF filled' = filled THEN held[1] ELSE {}
  <2>1. held' = held
    BY <1>2
  <2>2. CASE sketch = "noipClient"
    BY <2>1, <2>2 DEF MemInv, Sending
  <2>3. CASE sketch = "pachube"
    <3>1. tcp_client_state \notin {1, 2}
      BY <1>2, <2>3 DEF MemInv, Sending
    <3>2. Looped
      BY <1>1, <1>3, Loop
    <3>3. filled' = filled
      BY <3>1, <3>2 DEF Looped, Still, Opens, Fills, Results
    <3>4. QED
      BY <2>1, <3>3
  <2>4. QED
    BY <1>3, <2>2, <2>3
<1>7. QED
  BY <1>1, <1>2, <1>3, <1>4, <1>5, <1>6, LoopMem

LEMMA ReceiveMem ==
    ASSUME ControlInv, MemInv, Receive
    PROVE  MemInv'
<1>1. PICK f \in Packets : packetLoop(f)
  BY DEF Receive, Packets
<1>2. /\ pc = "receive" /\ pc' = "work" /\ UNCHANGED <<sketch, stashVars>>
      /\ held' = [held EXCEPT ![1] = IF filled' = filled THEN @ ELSE {}]
  BY DEF Receive
<1>3. sketch # "stashTest" /\ IsConn(conn) /\ filled \in Nat
  BY <1>2 DEF ControlInv, NetTypes, Filling, Flow
<1>4. Pair(held)
  BY DEF MemInv, Pairs
<1>5. Pair(held)' /\ held'[2] = held[2] /\ held'[1] = IF filled' = filled THEN held[1] ELSE {}
  <2> DEFINE S == IF filled' = filled THEN held[1] ELSE {}
  <2>1. held' = [held EXCEPT ![1] = S]
    BY <1>2
  <2> HIDE DEF S
  <2>2. Pair(held') /\ held'[2] = held[2] /\ held'[1] = S
    <3>1. DOMAIN held = 1 .. 2
      BY <1>4 DEF Pair
    <3>2. held' = [x \in 1 .. 2 |-> IF x = 1 THEN S ELSE held[x]]
      BY <2>1, <3>1
    <3>3. QED
      BY <3>2 DEF Pair
  <2>3. QED
    BY <2>2 DEF S
<1>6. QED
  BY <1>1, <1>2, <1>3, <1>5, LoopMem

LEMMA MemStep == ControlInv /\ MemInv /\ [Next]_vars => MemInv'
<1> SUFFICES ASSUME ControlInv, MemInv, [Next]_vars
             PROVE  MemInv'
  OBVIOUS
<1>1. CASE UNCHANGED vars
  BY <1>1, MemSame DEF vars, netVars, tcpVars, sketchVars
<1>2. CASE LookupWait
  BY <1>2, WaitMem
<1>3. CASE LookupRequest
  <2>1. /\ UNCHANGED <<mem, request, conn, tcp_client_state, sketch, stashVars, held>>
        /\ pc = "wait"
    BY <1>3 DEF LookupRequest, tcpVars
  <2>2. QED
    BY <2>1, MemSame
<1>4. CASE LookupReceive
  <2>1. UNCHANGED <<sketch, stashVars, held>> /\ pc \in {"wait", "answer"}
    BY <1>4 DEF LookupReceive, sketchVars
  <2>2. UNCHANGED tcpVars
    BY <1>4 DEF LookupReceive, lookupReceive, netVars, storeGwMac
  <2>3. UNCHANGED <<mem, request, conn, tcp_client_state>>
    BY <2>2 DEF tcpVars
  <2>4. QED
    BY <2>1, <2>3, MemSame
<1>5. CASE LookupFound \/ LookupTimeout
  <2>1. /\ UNCHANGED <<mem, request, conn, tcp_client_state, sketch, stashVars, held>>
        /\ pc \in {"wait", "answer"}
    BY <1>5 DEF LookupFound, LookupTimeout, netVars, tcpVars
  <2>2. QED
    BY <2>1, MemSame
<1>6. CASE Receive
  BY <1>6, ReceiveMem
<1>7. CASE Sketch
  <2>1. CASE Wait \/ Post
    <3>1. sketch # "stashTest"
      BY <2>1 DEF Wait, Post, pachube
    <3>2. QED
      BY <2>1, <3>1, PachubeMem
  <2>2. CASE ~(Wait \/ Post)
    <3>1. NotYet \/ checkPublicIP \/ checkPublicIPResponse \/ PublicIPTimeout
          \/ updateNoIP \/ checkNoIPResponse \/ NoIPTimeout
      BY <1>7, <2>2 DEF Sketch
    <3>2. noip
      BY <3>1 DEF NotYet, checkPublicIP, checkPublicIPResponse, PublicIPTimeout, noResponse,
                  updateNoIP, checkNoIPResponse, NoIPTimeout
    <3>3. QED
      BY <3>1, <3>2, NoipMem
  <2>3. QED
    BY <2>1, <2>2
<1>8. CASE StashTest
  BY <1>8, TestMem
<1>9. QED
  BY <1>1, <1>2, <1>3, <1>4, <1>5, <1>6, <1>7, <1>8 DEF Next

(* The inductive invariant of the memory: each stash is what has been put  *)
(* into it, on pages of its own, and what is to be sent is described in    *)
(* page 0.                                                                 *)
THEOREM MemHolds == Spec => [](ControlInv /\ MemInv)
BY MemInit, MemStep, ControlHolds, PTL DEF Spec

(* The types: the number of attempts stays in its bound although it is     *)
(* compared with == only, and page 0 is never given to a stash.            *)
THEOREM TypeCorrect == Spec => []TypeOK
<1>1. ASSUME ControlInv, MemInv
      PROVE  TypeOK
  <2>1. /\ mem.map \subseteq 1 .. Pages - 1 /\ mem.short \in BOOLEAN
        /\ \A i \in 0 .. 1 : mem.bufs[i].bnum \in 0 .. Pages - 1 \cup {NoPage}
    BY <1>1, ShapeMap DEF MemInv, PageNo
  <2>2. NetTypes /\ SketchTypes
    BY <1>1 DEF ControlInv
  <2>3. QED
    BY <2>1, <2>2 DEF NetTypes, SketchTypes, TypeOK
<1>2. QED
  BY <1>1, MemHolds, PTL

(* A page is free or belongs to one stash: release() and cleanup() free    *)
(* all the pages of a stash and no other, for any number of pages and      *)
(* whatever is put into the stashes.                                       *)
THEOREM PagesCorrect == Spec => []PagesAccounted
<1>1. MemInv => PagesAccounted
  BY DEF MemInv, Owned, Divided, PagesAccounted
<1>2. QED
  BY <1>1, MemHolds, PTL

(* What get() and extract() return is what has been put into the stash,    *)
(* byte for byte and over page boundaries, and size() is its length.       *)
THEOREM StashCorrect == Spec => []StashExact
<1>1. ASSUME MemInv
      PROVE  StashExact
  <2>1. CASE mem.short
    BY <2>1 DEF StashExact
  <2>2. CASE ~mem.short /\ sketch # "stashTest"
    BY <1>1, <2>2 DEF MemInv, Sending, StashExact, Stashes
  <2>3. CASE ~mem.short /\ sketch = "stashTest"
    <3>1. exact /\ Kept1(1, 2) /\ Kept1(2, 1) /\ Shape(mem)
      BY <1>1, <2>3 DEF MemInv, Testing
    <3>2. ASSUME NEW i \in 1 .. 2, NEW j \in 1 .. 2, i # j, phase[i] # "none",
                 phase[i] # "open" \/ phase[j] = "none"
          PROVE  size(mem, obj[i]) = Len(text[i])
      <4>1. Kept1(i, j) /\ Kept1(j, i)
        BY <3>1, <3>2
      <4>2. One(mem, phase[i], obj[i], text[i], taken[i], held[i])
        BY <4>1 DEF Kept1
      <4>3. Known(mem, phase[i], obj[i], "none", {})
        <5>1. CASE phase[i] # "open"
          BY <5>1 DEF Known
        <5>2. CASE phase[j] = "none"
          <6>1. held[j] = {}
            BY <4>1, <5>2 DEF Kept1, One
          <6>2. QED
            BY <4>1, <5>2, <6>1 DEF Kept1
        <5>3. QED
          BY <3>2, <5>1, <5>2
      <4>4. mem.bufs[0].bnum \notin {}
        OBVIOUS
      <4>5. QED
        BY <3>1, <3>2, <4>2, <4>3, <4>4, OneSize
    <3>3. \A i \in Stashes : phase[i] # "open" \/ phase[3 - i] = "none" => size(mem, obj[i]) = Len(text[i])
      <4>1. ASSUME NEW i \in Stashes, phase[i] # "open" \/ phase[3 - i] = "none"
            PROVE  size(mem, obj[i]) = Len(text[i])
        <5>1. i \in 1 .. 2 /\ phase[i] # "none" /\ 3 - i \in 1 .. 2 /\ i # 3 - i
          BY DEF Stashes
        <5>2. QED
          BY <3>2, <4>1, <5>1
      <4>2. QED
        BY <4>1
    <3>4. QED
      BY <3>1, <3>3 DEF StashExact
  <2>4. QED
    BY <2>1, <2>2, <2>3
<1>2. QED
  BY <1>1, MemHolds, PTL
-----------------------------------------------------------------------------
(* What a step may do to the request and the connections: packetLoop, a    *)
(* new request, or nothing; stashTest has no connections.                  *)
LEMMA RequestSteps ==
    ASSUME ControlInv, [Next]_vars
    PROVE  \/ sketch # "stashTest" /\ \E f \in Packets : packetLoop(f)
           \/ sketch # "stashTest" /\ \E m, msg : tcpSend(m, msg)
           \/ sketch = "stashTest" /\ StashTest
           \/ UNCHANGED <<request, conn>>
<1>1. pc = "setup" <=> sketch = "stashTest"
  BY DEF ControlInv, Flow
<1>2. CASE LookupWait \/ Receive
  BY <1>1, <1>2 DEF LookupWait, Receive, Packets
<1>3. CASE checkPublicIP \/ updateNoIP
  BY <1>3 DEF checkPublicIP, updateNoIP, Request, noip
<1>4. CASE Post
  BY <1>4 DEF Post, pachube
<1>5. CASE StashTest
  BY <1>5, StashTestIs DEF stashTest
<1>6. CASE LookupReceive
  <2>1. UNCHANGED tcpVars
    BY <1>6 DEF LookupReceive, lookupReceive, netVars, storeGwMac
  <2>2. QED
    BY <2>1 DEF tcpVars
<1>7. CASE LookupRequest \/ LookupFound \/ LookupTimeout
  BY <1>7 DEF LookupRequest, LookupFound, LookupTimeout, netVars, tcpVars
<1>8. CASE NotYet \/ checkPublicIPResponse \/ PublicIPTimeout \/ checkNoIPResponse \/ NoIPTimeout \/ Wait
  BY <1>8 DEF NotYet, checkPublicIPResponse, PublicIPTimeout, noResponse, checkNoIPResponse,
              NoIPTimeout, Wait, netVars, tcpVars
<1>9. CASE UNCHANGED vars
  BY <1>9 DEF vars, netVars, tcpVars
<1>10. QED
  BY <1>2, <1>3, <1>4, <1>5, <1>6, <1>7, <1>8, <1>9 DEF Next, Sketch

(* What a server has received is the message of the request or of an       *)
(* earlier one.                                                            *)
Earlier(got, n) == got.n \in Nat /\ got.n <= n
Received(got) == got # NoText => Earlier(got, request.n) /\ (got.n = request.n => got = request)
MessageInv ==
    /\ request = [n |-> request.n, text |-> request.text]
    /\ \A p \in 1 .. MaxSyns : Received(conn[p].got)

LEMMA MessageInit == Init => MessageInv
BY DEF Init, MessageInv, Received, NoText

(* A message that is taken is that of the request. *)
LEMMA TakenIsRequest ==
    ASSUME MemInv, sketch # "stashTest", MessageInv, NEW p \in 1 .. MaxSyns, Fills(p)
    PROVE  datafill.data = request
<1>1. ~mem.short /\ tcp_client_state \in {1, 2}
  BY DEF Fills
<1>2. /\ Shape(mem) /\ Ready(mem, held[1], request.text)
      /\ Others(held[1]) /\ Others(held[2]) /\ Divided(mem, held[1], held[2])
  BY <1>1 DEF MemInv, Sending, Owned
<1>3. datafill.data = [n |-> request.n, text |-> request.text]
  BY <1>2, Datafill
<1>4. QED
  BY <1>3 DEF MessageInv

(* The connections after packetLoop. *)
Same(p) == conn'[p].fd = conn[p].fd /\ conn'[p].got = conn[p].got
LEMMA LoopConn ==
    ASSUME MemInv, sketch # "stashTest", MessageInv, IsConn(conn), NetTypes,
           NEW f \in Packets, packetLoop(f)
    PROVE  \A p \in 1 .. MaxSyns :
             \/ Same(p)
             \/ conn'[p].fd = tcp_fd /\ conn'[p].got = NoText
             \/ conn'[p].fd = conn[p].fd /\ conn'[p].got = request
<1>1. Looped
  BY Loop
<1>2. CASE conn' = conn
  BY <1>2 DEF Same
<1>3. CASE Opens /\ conn' = Opened(conn, tcpclient_src_port_l + 1, tcp_fd, hisip)
  <2>1. tcpclient_src_port_l + 1 \in 1 .. MaxSyns
    BY <1>3, NetAssumption DEF Opens, NetTypes
  <2>2. \A q \in 1 .. MaxSyns :
          /\ conn'[q].fd = IF q = tcpclient_src_port_l + 1 THEN tcp_fd ELSE conn[q].fd
          /\ conn'[q].ip = IF q = tcpclient_src_port_l + 1 THEN hisip ELSE conn[q].ip
          /\ conn'[q].got = IF q = tcpclient_src_port_l + 1 THEN NoText ELSE conn[q].got
    BY <1>3, <2>1, ConnOpened
  <2>3. QED
    BY <2>2 DEF Same
<1>4. ASSUME NEW p \in 1 .. MaxSyns, Fills(p), conn' = Given(conn, p, datafill.data)
      PROVE  \A q \in 1 .. MaxSyns : Same(q) \/ (conn'[q].fd = conn[q].fd /\ conn'[q].got = request)
  <2>1. datafill.data = request
    BY <1>4, TakenIsRequest
  <2>2. \A q \in 1 .. MaxSyns : /\ conn'[q].fd = conn[q].fd /\ conn'[q].ip = conn[q].ip
                                /\ conn'[q].got = IF q = p THEN request ELSE conn[q].got
    BY <1>4, <2>1, ConnGiven
  <2>3. QED
    BY <2>2 DEF Same
<1>5. \/ conn' = conn
      \/ Opens /\ conn' = Opened(conn, tcpclient_src_port_l + 1, tcp_fd, hisip)
      \/ \E p \in 1 .. MaxSyns : Fills(p) /\ conn' = Given(conn, p, datafill.data)
  BY <1>1 DEF Looped, Still, Opens, Fills, Results
<1>6. QED
  BY <1>2, <1>3, <1>4, <1>5

LEMMA TestRequest ==
    ASSUME StashTest, request = [n |-> request.n, text |-> request.text]
    PROVE  request' = [n |-> request'.n, text |-> request'.text]
<1>1. PICK i \in 1 .. 2 :
        \/ Create(i) \/ Save(i) \/ Get(i) \/ Prepare(i) \/ Cleanup(i) \/ Release(i)
        \/ \E n \in Lengths : Put(i, n)
        \/ \E k \in 0 .. Len(request.text) : Extract(i, k)
  BY DEF StashTest
<1>2. CASE Prepare(i)
  BY <1>2 DEF Prepare
<1>3. CASE Cleanup(i)
  BY <1>3 DEF Cleanup, NoText
<1>4. CASE ~Prepare(i) /\ ~Cleanup(i)
  BY <1>1, <1>4 DEF Create, Put, Save, Get, Extract, Release
<1>5. QED
  BY <1>2, <1>3, <1>4

LEMMA MessageStep == ControlInv /\ MemInv /\ MessageInv /\ [Next]_vars => MessageInv'
<1> SUFFICES ASSUME ControlInv, MemInv, MessageInv, [Next]_vars
             PROVE  MessageInv'
  OBVIOUS
<1>1. IsConn(conn) /\ NetTypes /\ request.n \in Nat
  BY DEF ControlInv, NetTypes
<1>2. CASE UNCHANGED <<request, conn>>
  BY <1>2 DEF MessageInv, Received
<1>3. ASSUME sketch # "stashTest", NEW f \in Packets, packetLoop(f)
      PROVE  MessageInv'
  <2>1. request' = request
    BY <1>1, <1>3, Loop
  <2>2. \A p \in 1 .. MaxSyns :
             \/ Same(p)
             \/ conn'[p].fd = tcp_fd /\ conn'[p].got = NoText
             \/ conn'[p].fd = conn[p].fd /\ conn'[p].got = request
    BY <1>1, <1>3, LoopConn
  <2>3. \A p \in 1 .. MaxSyns : conn'[p].got \in {conn[p].got, NoText, request}
    BY <2>2 DEF Same
  <2>4. Received(request) /\ Received(NoText)
    BY <1>1 DEF Received, Earlier
  <2>5. \A p \in 1 .. MaxSyns : Received(conn'[p].got)
    BY <2>3, <2>4 DEF MessageInv
  <2>6. QED
    BY <2>1, <2>5 DEF MessageInv, Received
<1>4. ASSUME NEW m, NEW text_1, tcpSend(m, text_1)
      PROVE  MessageInv'
  <2>1. request' = [n |-> request.n + 1, text |-> text_1] /\ conn' = conn
    BY <1>4 DEF tcpSend
  <2>2. request'.n = request.n + 1 /\ request' = [n |-> request'.n, text |-> request'.text]
    BY <2>1
  <2>3. ASSUME NEW got, Received(got), got # NoText
        PROVE  Earlier(got, request'.n) /\ got.n # request'.n
    BY <1>1, <2>2, <2>3 DEF Received, Earlier
  <2>4. QED
    BY <2>1, <2>2, <2>3 DEF MessageInv, Received
<1>5. CASE sketch = "stashTest" /\ StashTest
  <2>1. request' = [n |-> request'.n, text |-> request'.text]
    BY <1>5, TestRequest DEF MessageInv
  <2>2. conn' = conn
    BY <1>5, StashTestIs DEF stashTest
  <2>3. \A p \in 1 .. MaxSyns : conn'[p].got = NoText
    BY <1>5, <2>2 DEF MemInv, Offline
  <2>4. QED
    BY <2>1, <2>3 DEF MessageInv, Received
<1>6. QED
  BY <1>2, <1>3, <1>4, <1>5, RequestSteps

(* What a server receives for the last request is its message, put         *)
(* together from page 0 and the stash, for any formats and any texts.      *)
THEOREM MessageCorrect == Spec => []MessageExact
<1>1. ControlInv /\ MessageInv => MessageExact
  BY DEF ControlInv, NetTypes, IsConn, MessageInv, Received, MessageExact
<1>2. QED
  BY <1>1, MessageInit, MessageStep, MemHolds, PTL DEF Spec
-----------------------------------------------------------------------------
(* While the session numbers have not begun again, a session belongs to    *)
(* one request, and a reply is looked at in the pass that it arrived in.   *)
Before8 == request.n < 8
Sessions ==
    /\ tcp_fd = request.n
    /\ \A p \in 1 .. MaxSyns : /\ conn[p].fd <= tcp_fd
                               /\ conn[p].fd = tcp_fd => conn[p].got \in {NoText, request}
    /\ result_fd = BogusFd \/ result_fd <= tcp_fd
Pass ==
    Waiting => /\ pc = "receive" => ~HasReply(tcp_fd)
               /\ pc = "work" /\ HasReply(tcp_fd) => buffer = request
ReplyInv == Before8 => Sessions /\ Pass

LEMMA ReplyInit == Init => ReplyInv
<1> SUFFICES ASSUME Init
             PROVE  Sessions /\ Pass
  BY DEF ReplyInv
<1>1. /\ tcp_fd = 0 /\ request.n = 0 /\ result_fd = BogusFd /\ actual_status = "IDLE"
      /\ conn = [port \in 1 .. MaxSyns |-> [fd |-> NoPort, ip |-> NoAddr, got |-> NoText]]
  BY DEF Init, NoText
<1>2. Sessions
  BY <1>1 DEF Sessions, NoPort
<1>3. Pass
  BY <1>1 DEF Pass, Waiting
<1>4. QED
  BY <1>2, <1>3

(* packetLoop, before what it does to pc *)
LEMMA LoopSessions ==
    ASSUME MemInv, sketch # "stashTest", MessageInv, NetTypes, Sessions,
           NEW f \in Packets, packetLoop(f)
    PROVE  Sessions'
<1>1. IsConn(conn) /\ Looped /\ UNCHANGED <<tcp_fd, request>> /\ tcp_fd \in Nat
  <2>1. IsConn(conn) /\ tcp_fd \in Nat
    BY DEF NetTypes
  <2>2. QED
    BY <2>1, Loop
<1>2. \A p \in 1 .. MaxSyns :
        \/ Same(p)
        \/ conn'[p].fd = tcp_fd /\ conn'[p].got = NoText
        \/ conn'[p].fd = conn[p].fd /\ conn'[p].got = request
  BY <1>1, LoopConn
<1>3. \A p \in 1 .. MaxSyns : /\ conn'[p].fd <= tcp_fd
                              /\ conn'[p].fd = tcp_fd => conn'[p].got \in {NoText, request}
  BY <1>1, <1>2 DEF Sessions, Same
<1>4. result_fd' = BogusFd \/ result_fd' <= tcp_fd
  BY <1>1 DEF Looped, Still, Opens, Fills, Results, Sessions
<1>5. QED
  BY <1>1, <1>3, <1>4 DEF Sessions

(* A reply to the last request that packetLoop has taken is in the buffer. *)
LEMMA LoopReply ==
    ASSUME NetTypes, Sessions, ~HasReply(tcp_fd), NEW f \in Packets, packetLoop(f)
    PROVE  HasReply(tcp_fd)' => buffer' = request'
<1>1. IsConn(conn) /\ Looped /\ UNCHANGED <<tcp_fd, request>> /\ tcp_fd \in 0 .. 7
  <2>1. IsConn(conn) /\ tcp_fd \in 0 .. 7
    BY DEF NetTypes
  <2>2. QED
    BY <2>1, Loop
<1>2. CASE \E p \in 1 .. MaxSyns : Results(p)
  BY <1>1, <1>2 DEF Results, HasReply, Sessions
<1>3. CASE ~\E p \in 1 .. MaxSyns : Results(p)
  BY <1>1, <1>3 DEF Looped, Still, Opens, Fills, HasReply, BogusFd
<1>4. QED
  BY <1>2, <1>3

(* A new request begins a new session. *)
LEMMA SendSessions ==
    ASSUME NetTypes, Sessions, Before8', NEW m, NEW t, tcpSend(m, t)
    PROVE  Sessions' /\ ~HasReply(tcp_fd)'
<1>1. /\ request'.n = request.n + 1 /\ tcp_fd' = (tcp_fd + 1) % 8
      /\ UNCHANGED <<result_fd, conn>>
  BY DEF tcpSend
<1>2. request.n \in Nat /\ tcp_fd = request.n /\ request.n + 1 < 8
  BY <1>1 DEF NetTypes, Sessions, Before8
<1>3. tcp_fd' = tcp_fd + 1 /\ tcp_fd' = request'.n
  BY <1>1, <1>2
<1>4. \A p \in 1 .. MaxSyns : conn[p].fd \in 0 .. 7
  BY DEF NetTypes
<1>5. \A p \in 1 .. MaxSyns : conn'[p].fd <= tcp_fd' /\ conn'[p].fd # tcp_fd'
  BY <1>1, <1>2, <1>3, <1>4 DEF Sessions
<1>6. result_fd' # tcp_fd' /\ (result_fd' = BogusFd \/ result_fd' <= tcp_fd')
  BY <1>1, <1>2, <1>3 DEF Sessions, NetTypes, BogusFd
<1>7. Sessions'
  BY <1>3, <1>5, <1>6 DEF Sessions
<1>8. QED
  BY <1>6, <1>7 DEF HasReply

(* Any other step of noipClient on the network. *)
LEMMA SameSessions ==
    ASSUME Sessions, UNCHANGED <<tcp_fd, request, conn>>, result_fd' \in {result_fd, BogusFd}
    PROVE  Sessions'
BY DEF Sessions

LEMMA ReplyTaken ==
    ASSUME NetTypes, HasReply(tcp_fd), tcpReply(tcp_fd), tcp_fd' = tcp_fd
    PROVE  result_fd' = BogusFd /\ ~HasReply(tcp_fd)'
BY DEF NetTypes, tcpReply, HasReply, BogusFd

(* The number of requests only grows. *)
LEMMA RequestGrows ==
    ASSUME ControlInv, MemInv, [Next]_vars, Before8'
    PROVE  Before8
<1>1. request.n \in Nat /\ IsConn(conn)
  BY DEF ControlInv, NetTypes
<1>2. CASE request' = request
  BY <1>2 DEF Before8
<1>3. CASE \E m, t : tcpSend(m, t)
  <2>1. request'.n = request.n + 1
    BY <1>3 DEF tcpSend
  <2>2. QED
    BY <1>1, <2>1 DEF Before8
<1>4. CASE sketch = "stashTest"
  BY <1>4 DEF MemInv, Offline, Before8
<1>5. CASE \E f \in Packets : packetLoop(f)
  BY <1>1, <1>2, <1>5, Loop
<1>6. QED
  BY <1>2, <1>3, <1>4, <1>5, RequestSteps

LEMMA ReplyStep == ControlInv /\ MemInv /\ MessageInv /\ ReplyInv /\ [Next]_vars => ReplyInv'
<1> SUFFICES ASSUME ControlInv, MemInv, MessageInv, ReplyInv, [Next]_vars, Before8'
             PROVE  Sessions' /\ Pass'
  BY DEF ReplyInv
<1>1. Sessions /\ Pass /\ NetTypes /\ Flow
  BY RequestGrows DEF ReplyInv, ControlInv
<1>2. Waiting => sketch = "noipClient"
  BY <1>1 DEF Flow, Waiting
<1>3. CASE UNCHANGED vars
  BY <1>1, <1>3 DEF Sessions, Pass, Waiting, HasReply, vars, netVars, tcpVars, sketchVars
<1>4. CASE LookupWait
  <2>1. \E f \in Packets : packetLoop(f)
    BY <1>4 DEF LookupWait, Packets
  <2>2. pc = "wait" /\ pc' = "wait" /\ sketch # "stashTest"
    BY <1>1, <1>4 DEF LookupWait, sketchVars, Flow
  <2>3. Sessions'
    BY <1>1, <2>1, <2>2, LoopSessions
  <2>4. QED
    BY <2>2, <2>3 DEF Pass
<1>5. CASE LookupRequest
  <2>1. UNCHANGED <<tcp_fd, request, conn, result_fd>> /\ pc' = "answer"
    BY <1>5 DEF LookupRequest, tcpVars
  <2>2. QED
    BY <1>1, <2>1, SameSessions DEF Pass
<1>6. CASE LookupReceive
  <2>1. UNCHANGED tcpVars /\ pc' = "answer"
    BY <1>6 DEF LookupReceive, lookupReceive, netVars, storeGwMac, sketchVars
  <2>2. UNCHANGED <<tcp_fd, request, conn, result_fd>>
    BY <2>1 DEF tcpVars
  <2>3. QED
    BY <1>1, <2>1, <2>2, SameSessions DEF Pass
<1>7. CASE LookupFound \/ LookupTimeout
  <2>1. UNCHANGED <<tcp_fd, request, conn, result_fd>>
    BY <1>7 DEF LookupFound, LookupTimeout, netVars, tcpVars
  <2>2. pc \in {"wait", "answer"} /\ \E ok \in BOOLEAN : Found(ok)
    BY <1>7 DEF LookupFound, LookupTimeout
  <2>3. pc' = "wait" \/ ~Waiting'
    BY <1>1, <2>2 DEF Found, dnsLookup, Flow, Waiting
  <2>4. Sessions'
    BY <1>1, <2>1, SameSessions
  <2>5. QED
    BY <2>3, <2>4 DEF Pass
<1>8. CASE Receive
  <2>1. \E f \in Packets : packetLoop(f)
    BY <1>8 DEF Receive, Packets
  <2>2. pc = "receive" /\ pc' = "work" /\ sketch # "stashTest" /\ actual_status' = actual_status
    BY <1>1, <1>8 DEF Receive, Flow
  <2>3. Sessions'
    BY <1>1, <2>1, <2>2, LoopSessions
  <2>4. Waiting' => Waiting /\ ~HasReply(tcp_fd)
    BY <1>1, <2>2 DEF Pass, Waiting
  <2>5. Waiting' => (HasReply(tcp_fd)' => buffer' = request')
    BY <1>1, <2>1, <2>4, LoopReply
  <2>6. QED
    BY <2>2, <2>3, <2>5 DEF Pass
<1>9. CASE checkPublicIP \/ updateNoIP
  <2>1. \E m, t : tcpSend(m, t)
    BY <1>9 DEF checkPublicIP, updateNoIP, Request
  <2>2. pc' = "receive"
    BY <1>9 DEF checkPublicIP, updateNoIP, Request
  <2>3. Sessions' /\ ~HasReply(tcp_fd)'
    BY <1>1, <2>1, SendSessions
  <2>4. QED
    BY <2>2, <2>3 DEF Pass
<1>10. CASE Post
  <2>1. \E m, t : tcpSend(m, t)
    BY <1>10 DEF Post
  <2>2. pc' = "receive"
    BY <1>10 DEF Post, pachube
  <2>3. Sessions' /\ ~HasReply(tcp_fd)'
    BY <1>1, <2>1, SendSessions
  <2>4. QED
    BY <2>2, <2>3 DEF Pass
<1>11. CASE NotYet \/ PublicIPTimeout \/ NoIPTimeout
  <2>1. UNCHANGED netVars /\ pc' = "receive" /\ (Waiting' => ~HasReply(tcp_fd))
    BY <1>11 DEF NotYet, PublicIPTimeout, NoIPTimeout, noResponse, Waiting
  <2>2. UNCHANGED <<tcp_fd, request, conn, result_fd>>
    BY <2>1 DEF netVars, tcpVars
  <2>3. QED
    BY <1>1, <2>1, <2>2, SameSessions DEF Pass, HasReply
<1>12. CASE checkPublicIPResponse \/ checkNoIPResponse
  <2>1. HasReply(tcp_fd) /\ tcpReply(tcp_fd) /\ UNCHANGED <<tcp_fd, request, conn>>
    BY <1>12 DEF checkPublicIPResponse, checkNoIPResponse
  <2>2. result_fd' = BogusFd /\ ~HasReply(tcp_fd)'
    BY <1>1, <2>1, ReplyTaken
  <2>3. pc' \in {"wait", "receive"}
    BY <1>12 DEF checkPublicIPResponse, checkNoIPResponse, dnsLookup
  <2>4. QED
    BY <1>1, <2>1, <2>2, <2>3, SameSessions DEF Pass
<1>13. CASE Wait
  <2>1. UNCHANGED <<tcp_fd, request, conn, result_fd, actual_status>> /\ sketch = "pachube"
    BY <1>13 DEF Wait, pachube, netVars, tcpVars
  <2>2. QED
    BY <1>1, <1>2, <2>1, SameSessions DEF Pass, Waiting
<1>14. CASE StashTest
  <2>1. /\ UNCHANGED <<tcp_fd, conn, result_fd, actual_status>> /\ sketch = "stashTest"
        /\ request'.n = request.n
    BY <1>14, StashTestIs DEF stashTest, sketchVars, MemInv, Offline
  <2>2. \A p \in 1 .. MaxSyns : conn[p].got = NoText
    BY <2>1 DEF MemInv, Offline
  <2>3. Sessions'
    BY <1>1, <2>1, <2>2 DEF Sessions
  <2>4. QED
    BY <1>2, <2>1, <2>3 DEF Pass, Waiting
<1>15. QED
  BY <1>3, <1>4, <1>5, <1>6, <1>7, <1>8, <1>9, <1>10, <1>11, <1>12, <1>13, <1>14 DEF Next, Sketch

(* What noipClient is given as the reply answers its last request and lies *)
(* in the buffer then, for the first seven requests: tcp_fd has three bits.*)
THEOREM ReplyCorrect == Spec => [](request.n < 8 => ReplyIsOwn)
<1>1. ReplyInv => (request.n < 8 => ReplyIsOwn)
  BY DEF ReplyInv, Before8, Pass, Waiting, ReplyIsOwn
<1>2. QED
  BY <1>1, ReplyInit, ReplyStep, MessageInit, MessageStep, MemHolds, PTL DEF Spec
=============================================================================
