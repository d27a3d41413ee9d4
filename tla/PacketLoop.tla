----------------------------- MODULE PacketLoop -----------------------------
(***************************************************************************)
(* The web client of EtherCard: packetLoop and the TCP client of           *)
(* tcpip.cpp, its ARP request for the gateway, and the look-ups of         *)
(* dns.cpp, with the hosts at the other end.                               *)
(*                                                                         *)
(* A call of packetLoop is one step. The network loses what it likes of    *)
(* what is sent, and delivers the answers to the rest in any order, as     *)
(* often and as late as it likes: what may arrive is a function of what    *)
(* has been received at the other end.                                     *)
(***************************************************************************)
EXTENDS Stash, FiniteSets

CONSTANTS
    DelayMod,       \* 2^16, the values of delaycnt
    MaxSyns,        \* the number of connections opened, less than 2^5
    Name,           \* of hosts; a host's name stands for its address too
    NoAddr          \* 0.0.0.0

ASSUME NetAssumption ==
    /\ DelayMod \in Nat \ {0} /\ MaxSyns \in 1 .. 31
    /\ NoAddr \notin Name

VARIABLES
    mem,            \* the scratch memory
    buffer,         \* the data of the packet received last
    waitgwmac, delaycnt,
    tcp_client_state, tcp_fd,
    tcpclient_src_port_l,   \* of the last SYN
    result_fd,
    hisip, dnstid_l,
    request,        \* number and text of what the program has asked for last
    filled,         \* how often it has been taken for sending
    asked,          \* has the gateway received an ARP request
    conn,           \* what the servers know of each connection
    queries         \* what the DNS server has received

gwVars == <<waitgwmac, delaycnt, asked>>
tcpVars == <<mem, tcp_client_state, tcp_fd, tcpclient_src_port_l, result_fd, request,
             filled, conn>>
dnsVars == <<hisip, dnstid_l, queries>>
netVars == <<gwVars, tcpVars, dnsVars, buffer>>

InitialArp == 1
HaveGwMac == 2
AcceptArpReply == 8

BogusFd == 123
NoPort == 0
NoText == [n |-> 0, text |-> <<>>]

(* Packets *)
NoPacket == [proto |-> "none"]
ArpReply == [proto |-> "arp"]
Answer(tid, ok, name) == [proto |-> "dns", tid |-> tid, ok |-> ok, name |-> name]
Segment(port, flags, data) ==
    [proto |-> "tcp", port |-> port, flags |-> flags, data |-> data]

DataOf(f) == IF f.proto = "tcp" THEN f.data ELSE NoText

(* A server sends SYN/ACK, its answer with or without FIN, FIN or RST. The *)
(* DNS server answers, or says that it cannot.                             *)
Segments(port) ==
    {Segment(port, flags, NoText) : flags \in {{"SYN", "ACK"}, {"FIN"}, {"RST"}}}
    \cup IF conn[port].got = NoText THEN {}
         ELSE {Segment(port, flags, conn[port].got) : flags \in {{}, {"FIN"}}}

Deliverable ==
    (IF asked THEN {ArpReply} ELSE {})
    \cup {Answer(q.tid, ok, q.name) : q \in queries, ok \in BOOLEAN}
    \cup UNION {Segments(port) : port \in {p \in DOMAIN conn : conn[p].fd # NoPort}}

-----------------------------------------------------------------------------
(* Mutant: replies are not accepted from now on. *)
whoHasDeaf(up) ==
    IF InitialArp \in waitgwmac /\ delaycnt = 0 /\ up
    THEN waitgwmac' = waitgwmac /\ asked' \in {asked, TRUE}
    ELSE UNCHANGED <<waitgwmac, asked>>

(* plen = 0: the ARP request, every DelayMod-th time if the link is up,    *)
(* and the SYN.                                                            *)
whoHas(up) ==
    IF InitialArp \in waitgwmac /\ delaycnt = 0 /\ up
    THEN /\ waitgwmac' = waitgwmac \cup {AcceptArpReply}
         /\ asked' \in {asked, TRUE}
    ELSE UNCHANGED <<waitgwmac, asked>>

client_syn ==
    IF tcp_client_state = 1 /\ HaveGwMac \in waitgwmac /\ tcpclient_src_port_l < MaxSyns
    THEN /\ tcp_client_state' = 2
         /\ tcpclient_src_port_l' = tcpclient_src_port_l + 1
         /\ conn' \in {conn} \cup
                {[conn EXCEPT ![tcpclient_src_port_l'] =
                    [fd |-> tcp_fd, ip |-> hisip, got |-> NoText]] : h \in Name \cap {hisip}}
    ELSE UNCHANGED <<tcp_client_state, tcpclient_src_port_l, conn>>

idle ==
    /\ \E up \in BOOLEAN : whoHas(up)
    /\ delaycnt' = (delaycnt + 1) % DelayMod
    /\ client_syn
    /\ UNCHANGED <<buffer, mem, tcp_fd, result_fd, request, filled, dnsVars>>

(* An ARP reply from the gateway. *)
storeGwMac ==
    /\ waitgwmac' = IF AcceptArpReply \in waitgwmac THEN {HaveGwMac} ELSE waitgwmac
    /\ UNCHANGED <<delaycnt, asked, tcpVars, dnsVars>>

(* tcp_datafill_cb: the prepared message is taken and its stashes freed.   *)
datafill ==
    LET l == length(mem)
        x == extract(l.mem, 0, l.len)
    IN  [mem |-> cleanup(x.mem), data |-> [n |-> request.n, text |-> x.out]]

(* Mutant: the connection remains as it was. *)
fillAgain(f) ==
    /\ ~mem.short
    /\ tcp_client_state' = 2
    /\ mem' = datafill.mem
    /\ result_fd' = BogusFd
    /\ filled' = filled + 1
    /\ conn' \in {conn, [conn EXCEPT ![f.port].got = IF @ = NoText THEN datafill.data ELSE @]}

(* SYN/ACK: the whole message goes into one segment. What comes of a       *)
(* memory that ran out of pages is not explored.                           *)
fill(f) ==
    /\ ~mem.short
    /\ tcp_client_state' = 3
    /\ mem' = datafill.mem
    /\ result_fd' = BogusFd
    /\ filled' = filled + 1
    /\ conn' \in {conn, [conn EXCEPT ![f.port].got = IF @ = NoText THEN datafill.data ELSE @]}

(* Mutant: what arrives is taken for the answer to the last request.       *)
resultOfLast(f) == result_fd' = tcp_fd

(* tcp_result_cb: the session is the one in the port.                      *)
result(f) == result_fd' = conn[f.port].fd

(* A TCP segment for the client. Only the sender's address is compared,    *)
(* the port says to which request it belongs.                              *)
tcpClient(f) ==
    LET others == <<tcp_fd, tcpclient_src_port_l, request, gwVars, dnsVars>>
        Unfilled == UNCHANGED <<mem, filled, conn>>
    IN  /\ UNCHANGED others
        /\ \/ /\ conn[f.port].ip # hisip
              /\ Unfilled /\ UNCHANGED <<tcp_client_state, result_fd>>
           \/ /\ conn[f.port].ip = hisip /\ "RST" \in f.flags
              /\ tcp_client_state' = 5
              /\ Unfilled /\ UNCHANGED result_fd
           \/ /\ conn[f.port].ip = hisip /\ "RST" \notin f.flags
              /\ tcp_client_state = 2
              /\ IF "SYN" \in f.flags THEN fill(f)
                 ELSE tcp_client_state' = 1 /\ Unfilled /\ UNCHANGED result_fd
           \/ /\ conn[f.port].ip = hisip /\ "RST" \notin f.flags
              /\ tcp_client_state # 2
              /\ Unfilled
              /\ IF tcp_client_state = 3 /\ f.data # NoText
                 THEN result(f) /\ tcp_client_state' = 5
                 ELSE /\ UNCHANGED result_fd
                      /\ tcp_client_state' = IF "FIN" \in f.flags THEN 5
                                             ELSE tcp_client_state

packetLoop(f) ==
    \/ f.proto = "none" /\ idle
    \/ /\ f.proto # "none"
       /\ buffer' = DataOf(f)
       /\ \/ f.proto = "arp" /\ storeGwMac
          \/ f.proto = "dns" /\ UNCHANGED <<gwVars, tcpVars, dnsVars>>
          \/ f.proto = "tcp" /\ tcpClient(f)

(* tcpSend, after prepare(): memory and text are the program's.            *)
tcpSend(m, text) ==
    /\ mem' = m
    /\ tcp_client_state' = 1
    /\ tcp_fd' = (tcp_fd + 1) % 8
    /\ request' = [n |-> request.n + 1, text |-> text]
    /\ filled' = 0
    /\ UNCHANGED <<tcpclient_src_port_l, result_fd, conn>>

(* tcpReply gives the session's reply once; where it points is in buffer.  *)
HasReply(fd) == result_fd = fd
tcpReply(fd) == result_fd' = IF HasReply(fd) THEN BogusFd ELSE result_fd
-----------------------------------------------------------------------------
(* Look-ups *)

dnsRequest(name) ==
    /\ hisip' = NoAddr
    /\ dnstid_l' = (dnstid_l + 1) % 256
    /\ queries' \in {queries, queries \cup {[tid |-> dnstid_l', name |-> name]}}

(* Mutant: an answer to an earlier query will do. *)
checkAnyAnswer(f) ==
    hisip' = IF f.proto = "dns" /\ f.ok THEN f.name ELSE hisip

checkForDnsAnswer(f) ==
    hisip' = IF f.proto = "dns" /\ f.tid = dnstid_l /\ f.ok THEN f.name ELSE hisip

(* In the loop of dnsLookup a packet may be the answer; while hisip is     *)
(* NoAddr packetLoop does not change it.                                   *)
lookupReceive(f) ==
    \/ /\ f.proto = "none"
       /\ UNCHANGED netVars
    \/ /\ f.proto # "none"
       /\ buffer' = DataOf(f)
       /\ \/ f.proto = "arp" /\ storeGwMac
          \/ /\ f.proto # "arp"
             /\ checkForDnsAnswer(f)
             /\ UNCHANGED <<gwVars, tcpVars, dnstid_l, queries>>
=============================================================================
