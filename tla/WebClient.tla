------------------------------ MODULE WebClient ------------------------------
(***************************************************************************)
(* Three of EtherCard's example sketches on its scratch memory and its web *)
(* client:                                                                 *)
(*   noipClient  asks one server for the public address, looks up what its *)
(*               own name stands for, and updates it at another server;    *)
(*   pachube     posts data that it keeps in a stash, and does not wait;   *)
(*   stashTest   fills, reads, sends and releases two stashes, here in any *)
(*               order.                                                    *)
(* A pass of loop() is two steps, packetLoop and what the sketch does.     *)
(***************************************************************************)
EXTENDS PacketLoop

CONSTANTS
    Sketches,       \* of the three
    MaxChecks,      \* how often noipClient or pachube begins
    MaxAttempts,    \* MAX_ATTEMPTS
    Lengths,        \* how many bytes stashTest prints at once
    MaxPuts,        \* how often it prints or creates a stash
    Payloads        \* what pachube posts

(* 0 ends what a stash gives back, and is not put into one. *)
ASSUME SketchAssumption ==
    /\ Sketches \subseteq {"noipClient", "pachube", "stashTest"}
    /\ MaxAttempts \in Nat \ {0} /\ MaxChecks \in Nat /\ MaxPuts \in Nat
    /\ Lengths \subseteq Nat
    /\ \A payload \in Payloads : payload \in Seq(Nat \ {0})
    /\ {"get", "noip", "host"} \subseteq Name

VARIABLES
    sketch,
    pc,             \* "wait", "answer" in dnsLookup, "receive", "work" in loop()
    name,           \* that is being looked up
    actual_status, attempt, checks,
    addr,           \* getIP_address and noIP_address
    phase, obj, text,   \* of each stash: what has been done, the object, what was put
    taken,          \* and how many bytes get() has returned
    puts, exact,    \* bytes put in all; was what has been read last as it ought to be
    held            \* pages in use, by stash; pachube's second are those it has lost

sketchVars == <<sketch, pc, name, actual_status, attempt, checks, addr>>
stashVars == <<phase, obj, text, taken, puts, exact>>
vars == <<netVars, sketchVars, stashVars, held>>

(* The formats of the sketches' messages, and their texts *)
GetIp == 1
Update == 2
Feed == 3
TestText == 4
SketchFormats == <<<<71, F>>, <<85, F, F>>, <<80, D, 58, H>>, <<97, D, 98, H, 99>>>>
SketchStrings == <<<<103>>, <<110, 111>>>>

(* The arguments that a format takes, with their directives. *)
Takes(f, kinds) ==
    /\ f \in DOMAIN Formats /\ Formats[f] \in Seq(Int)
    /\ \A i \in DOMAIN Formats[f] :
         Formats[f][i] \in Directives =>
             /\ ArgAt(Formats[f], i) \in 2 .. 1 + Len(kinds)
             /\ Formats[f][i] = kinds[ArgAt(Formats[f], i) - 1]
    /\ \A k \in DOMAIN kinds : \E i \in DOMAIN Formats[f] : Formats[f][i] = kinds[k]

ASSUME FormatAssumption ==
    /\ Takes(GetIp, <<F>>) /\ Takes(Update, <<F, F>>)
    /\ Takes(Feed, <<D, H>>) /\ Takes(TestText, <<D, H>>)
    /\ Strings \in Seq(Seq(Int)) /\ Len(Strings) >= 2
-----------------------------------------------------------------------------
(* dnsLookup *)

dnsLookup(n) == pc' = "wait" /\ name' = n

(* Of what dnsLookup returns, in setup() and in checkPublicIPResponse.     *)
Found(ok) ==
    LET Resolved == addr' = IF ok THEN [addr EXCEPT ![name] = hisip] ELSE addr
        Failed == actual_status' = IF ok THEN actual_status ELSE "ERROR"
    IN  \/ /\ name = "get" /\ sketch = "noipClient"
           /\ Resolved /\ Failed
           /\ dnsLookup("noip")
           /\ UNCHANGED attempt
        \/ /\ name = "get" /\ sketch = "pachube"
           /\ pc' = "receive"
           /\ UNCHANGED <<name, addr, actual_status, attempt>>
        \/ /\ name = "noip"
           /\ Resolved /\ Failed
           /\ pc' = "receive"
           /\ UNCHANGED <<name, attempt>>
        \/ /\ name = "host"
           /\ \/ actual_status' = "IDLE"
              \/ ok /\ actual_status' = "NEEDS_UPDATE"
           /\ attempt' = 0
           /\ pc' = "receive"
           /\ UNCHANGED <<name, addr>>

(* Until the link is up and the gateway known. *)
LookupWait ==
    /\ pc = "wait"
    /\ \E f \in {NoPacket} \cup Deliverable : packetLoop(f)
    /\ UNCHANGED <<sketchVars, stashVars, held>>

LookupRequest ==
    /\ pc = "wait"
    /\ HaveGwMac \in waitgwmac
    /\ dnsRequest(name)
    /\ pc' = "answer"
    /\ UNCHANGED <<gwVars, tcpVars, buffer, sketch, name, actual_status, attempt, checks,
                   addr, stashVars, held>>

LookupReceive ==
    /\ pc = "answer"
    /\ hisip = NoAddr
    /\ \E f \in {NoPacket} \cup Deliverable : lookupReceive(f)
    /\ UNCHANGED <<sketchVars, stashVars, held>>

LookupFound ==
    /\ pc = "answer" /\ hisip # NoAddr
    /\ Found(TRUE)
    /\ UNCHANGED <<netVars, sketch, checks, stashVars, held>>

(* After 30 seconds. *)
LookupTimeout ==
    /\ pc = "wait" \/ (pc = "answer" /\ hisip = NoAddr)
    /\ Found(FALSE)
    /\ UNCHANGED <<netVars, sketch, checks, stashVars, held>>
-----------------------------------------------------------------------------
(* loop() *)

(* The pages of a message are free once it has been taken. *)
Receive ==
    /\ pc = "receive"
    /\ \E f \in {NoPacket} \cup Deliverable : packetLoop(f)
    /\ pc' = "work"
    /\ held' = [held EXCEPT ![1] = IF filled' = filled THEN @ ELSE {}]
    /\ UNCHANGED <<sketch, name, actual_status, attempt, checks, addr, stashVars>>

noip == pc = "work" /\ sketch = "noipClient" /\ UNCHANGED <<sketch, addr, stashVars, held>>

(* Neither check_ip_timer nor request_timer is up. *)
NotYet ==
    /\ noip
    /\ \/ actual_status \in {"IDLE", "ERROR"}
       \/ actual_status \in {"WAITING_FOR_PUBLIC_IP", "WAITING_FOR_NOIP"} /\ ~HasReply(tcp_fd)
    /\ pc' = "receive"
    /\ UNCHANGED <<netVars, name, actual_status, attempt, checks>>

Request(f, args, server) ==
    /\ tcpSend(prepare(mem, f, args), Rendered(f, args, <<>>))
    /\ hisip' = addr[server]
    /\ attempt' = attempt + 1
    /\ pc' = "receive"
    /\ UNCHANGED <<name, gwVars, dnstid_l, queries, buffer>>

checkPublicIP ==
    /\ noip /\ actual_status = "IDLE"
    /\ checks < MaxChecks
    /\ checks' = checks + 1
    /\ Request(GetIp, <<1>>, "get")
    /\ actual_status' = "WAITING_FOR_PUBLIC_IP"

checkPublicIPResponse ==
    /\ noip /\ actual_status = "WAITING_FOR_PUBLIC_IP"
    /\ HasReply(tcp_fd) /\ tcpReply(tcp_fd)
    /\ dnsLookup("host")
    /\ UNCHANGED <<mem, tcp_client_state, tcp_fd, tcpclient_src_port_l, request, filled, conn,
                   gwVars, dnsVars, buffer, actual_status, attempt, checks>>

(* Mutant: the number of attempts is not looked at. *)
noResponseEver(next) ==
    /\ noip /\ ~HasReply(tcp_fd)
    /\ actual_status' = next /\ attempt' = attempt
    /\ pc' = "receive"
    /\ UNCHANGED <<netVars, name, checks>>

(* Mutant: there is no other attempt. *)
noResponseStuck(next) ==
    /\ noip /\ ~HasReply(tcp_fd)
    /\ \/ attempt = MaxAttempts /\ actual_status' = "IDLE" /\ attempt' = 0
       \/ attempt # MaxAttempts /\ UNCHANGED <<actual_status, attempt>>
    /\ pc' = "receive"
    /\ UNCHANGED <<netVars, name, checks>>

(* After REQUEST_TIMEOUT: again, but MAX_ATTEMPTS times only. *)
noResponse(next) ==
    /\ noip /\ ~HasReply(tcp_fd)
    /\ \/ attempt = MaxAttempts /\ actual_status' = "IDLE" /\ attempt' = 0
       \/ attempt # MaxAttempts /\ actual_status' = next /\ UNCHANGED attempt
    /\ pc' = "receive"
    /\ UNCHANGED <<netVars, name, checks>>

PublicIPTimeout == actual_status = "WAITING_FOR_PUBLIC_IP" /\ noResponse("IDLE")

updateNoIP ==
    /\ noip /\ actual_status = "NEEDS_UPDATE"
    /\ Request(Update, <<1, 2>>, "noip")
    /\ actual_status' = "WAITING_FOR_NOIP"
    /\ UNCHANGED checks

(* "good" and "nochg" set done; nothing else does, nor was it set before.  *)
checkNoIPResponse ==
    /\ noip /\ actual_status = "WAITING_FOR_NOIP"
    /\ HasReply(tcp_fd) /\ tcpReply(tcp_fd)
    /\ \/ actual_status' = "IDLE" /\ attempt' = 0
       \/ UNCHANGED <<actual_status, attempt>>
    /\ pc' = "receive"
    /\ UNCHANGED <<mem, tcp_client_state, tcp_fd, tcpclient_src_port_l, request, filled, conn,
                   gwVars, dnsVars, buffer, name, checks>>

NoIPTimeout == actual_status = "WAITING_FOR_NOIP" /\ noResponse("NEEDS_UPDATE")

(* The loop of pachube: every 10 seconds, whether or not the last message  *)
(* has been sent.                                                          *)
pachube ==
    /\ pc = "work" /\ sketch = "pachube"
    /\ pc' = "receive"
    /\ UNCHANGED <<sketch, name, actual_status, attempt, addr, stashVars>>

Wait ==
    /\ pachube
    /\ UNCHANGED <<netVars, checks, held>>

Post ==
    /\ pachube
    /\ checks < MaxChecks /\ ~mem.short
    /\ \E payload \in Payloads :
         LET new == create(mem)
             full == print(new.mem, new.obj, payload)
             m == save(full.mem, full.obj)
             args == <<size(m, full.obj), new.obj.curr>>
         IN  /\ tcpSend(prepare(m, Feed, args), Rendered(Feed, <<Len(payload), 0>>, payload))
             /\ held' = <<mem.map \ full.mem.map, held[1] \cup held[2]>>
    /\ checks' = checks + 1
    /\ UNCHANGED <<gwVars, dnsVars, buffer>>
-----------------------------------------------------------------------------
(* stashTest *)

stashTest ==
    /\ sketch = "stashTest"
    /\ ~mem.short
    /\ UNCHANGED <<sketchVars, gwVars, dnsVars, buffer, tcp_client_state, tcp_fd,
                   tcpclient_src_port_l, result_fd, filled, conn>>

Becomes(i, p) == phase' = [phase EXCEPT ![i] = p]
Holds(i, pages) == held' = [held EXCEPT ![i] = pages]

Ended(i) ==
    /\ Becomes(i, "none") /\ Holds(i, {})
    /\ obj' = [obj EXCEPT ![i] = NoStash]
    /\ text' = [text EXCEPT ![i] = <<>>]
    /\ taken' = [taken EXCEPT ![i] = 0]
    /\ UNCHANGED <<puts, exact>>

Create(i) ==
    /\ stashTest /\ phase[i] = "none" /\ (i = 2 => phase[1] # "none")
    /\ puts < MaxPuts
    /\ puts' = puts + 1
    /\ LET s == create(mem)
       IN  /\ mem' = s.mem
           /\ obj' = [obj EXCEPT ![i] = s.obj]
           /\ Holds(i, mem.map \ s.mem.map)
    /\ text' = [text EXCEPT ![i] = <<>>]
    /\ taken' = [taken EXCEPT ![i] = 0]
    /\ Becomes(i, "open")
    /\ UNCHANGED <<exact, request>>

(* The bytes all differ. *)
Put(i, n) ==
    /\ stashTest /\ phase[i] = "open"
    /\ puts < MaxPuts
    /\ puts' = puts + 1
    /\ LET bytes == [k \in 1 .. n |-> 64 + 16 * puts + k]
           s == print(mem, obj[i], bytes)
       IN  /\ mem' = s.mem
           /\ obj' = [obj EXCEPT ![i] = s.obj]
           /\ Holds(i, held[i] \cup (mem.map \ s.mem.map))
           /\ text' = [text EXCEPT ![i] = @ \o bytes]
    /\ UNCHANGED <<phase, exact, request, taken>>

Save(i) ==
    /\ stashTest /\ phase[i] = "open"
    /\ mem' = save(mem, obj[i])
    /\ Becomes(i, "saved")
    /\ UNCHANGED <<obj, text, puts, exact, held, request, taken>>

Get(i) ==
    /\ stashTest /\ phase[i] = "saved"
    /\ LET g == get(mem, obj[i])
       IN  /\ mem' = g.mem
           /\ obj' = [obj EXCEPT ![i] = g.obj]
           /\ exact' = (g.c = IF taken[i] < Len(text[i]) THEN text[i][taken[i] + 1] ELSE 0)
           /\ taken' = [taken EXCEPT ![i] = @ + (IF g.c = 0 THEN 0 ELSE 1)]
    /\ UNCHANGED <<phase, text, puts, held, request>>

Prepare(i) ==
    /\ stashTest /\ phase[i] = "saved" /\ "sent" \notin {phase[1], phase[2]}
    /\ LET args == <<Len(text[i]), obj[i].first>>
       IN  /\ mem' = prepare(mem, TestText, args)
           /\ request' = [n |-> 0, text |-> Rendered(TestText, args, text[i])]
    /\ Becomes(i, "sent")
    /\ UNCHANGED <<obj, text, puts, exact, held, taken>>

(* Byte k of the message, or none behind its end. *)
Extract(i, k) ==
    /\ stashTest /\ phase[i] = "sent"
    /\ LET l == length(mem)
           x == extract(l.mem, k, 1)
       IN  /\ mem' = x.mem
           /\ exact' = (/\ l.len = Len(request.text)
                        /\ x.out = IF k = l.len THEN <<>> ELSE <<request.text[k + 1]>>)
    /\ UNCHANGED <<phase, obj, text, puts, held, request, taken>>

Cleanup(i) ==
    /\ stashTest /\ phase[i] = "sent"
    /\ mem' = cleanup(mem)
    /\ request' = NoText
    /\ Ended(i)

(* Its last page has been written back, as after cleanup(). *)
Release(i) ==
    /\ stashTest /\ phase[i] = "saved"
    /\ mem.bufs[0].bnum \notin held[i]
    /\ mem' = release(mem, obj[i])
    /\ UNCHANGED request
    /\ Ended(i)
-----------------------------------------------------------------------------
Init ==
    /\ sketch \in Sketches
    /\ pc = (IF sketch = "stashTest" THEN "setup" ELSE "wait") /\ name = "get"
    /\ actual_status = "IDLE" /\ attempt = 0 /\ checks = 0
    /\ addr = [n \in {"get", "noip"} |-> NoAddr]
    /\ mem = begin /\ buffer = NoText
    /\ waitgwmac = {InitialArp} /\ delaycnt = 1 % DelayMod /\ asked = FALSE
    /\ tcp_client_state = 0 /\ tcp_fd = 0 /\ tcpclient_src_port_l = 0 /\ result_fd = BogusFd
    /\ hisip = NoAddr /\ dnstid_l = 0 /\ queries = {}
    /\ request = NoText /\ filled = 0
    /\ conn = [port \in 1 .. MaxSyns |-> [fd |-> NoPort, ip |-> NoAddr, got |-> NoText]]
    /\ phase = <<"none", "none">> /\ obj = <<NoStash, NoStash>> /\ text = <<<<>>, <<>>>>
    /\ taken = <<0, 0>> /\ puts = 0 /\ exact = TRUE /\ held = <<{}, {}>>

Sketch ==
    \/ NotYet \/ checkPublicIP \/ checkPublicIPResponse \/ PublicIPTimeout
    \/ updateNoIP \/ checkNoIPResponse \/ NoIPTimeout
    \/ Wait \/ Post

StashTest ==
    \E i \in 1 .. 2 :
        \/ Create(i) \/ Save(i) \/ Get(i) \/ Prepare(i) \/ Cleanup(i) \/ Release(i)
        \/ \E n \in Lengths : Put(i, n)
        \/ \E k \in 0 .. Len(request.text) : Extract(i, k)

Next ==
    \/ LookupWait \/ LookupRequest \/ LookupReceive \/ LookupFound \/ LookupTimeout
    \/ Receive \/ Sketch \/ StashTest

Spec == Init /\ [][Next]_vars

(* The program runs on and its timers go off. A request to the gateway now *)
(* and then reaches it, and a reply to it the Arduino.                     *)
Passes == LookupWait \/ Receive
FairSpec ==
    /\ Spec
    /\ WF_vars(LookupTimeout) /\ WF_vars(LookupFound)
    /\ WF_vars(Receive) /\ WF_vars(Sketch)
    /\ SF_vars(PublicIPTimeout) /\ SF_vars(NoIPTimeout)
    /\ SF_vars(delaycnt = 0 /\ Passes /\ asked')
    /\ SF_vars(AcceptArpReply \in waitgwmac /\ asked /\ Passes /\ waitgwmac' = {HaveGwMac})
-----------------------------------------------------------------------------
Stashes == {i \in 1 .. 2 : phase[i] # "none"}

(* In particular, noipClient gives up after MAX_ATTEMPTS requests, though  *)
(* they are counted through two servers, error replies and timeouts and    *)
(* compared with == only; and page 0 is never given to a stash.            *)
TypeOK ==
    /\ mem.map \subseteq 1 .. Pages - 1 /\ mem.short \in BOOLEAN
    /\ \A i \in 0 .. 1 : mem.bufs[i].bnum \in 0 .. Pages - 1 \cup {NoPage}
    /\ waitgwmac \in SUBSET {InitialArp, HaveGwMac, AcceptArpReply}
    /\ delaycnt \in 0 .. DelayMod - 1 /\ asked \in BOOLEAN
    /\ tcp_client_state \in {0, 1, 2, 3, 5} /\ tcp_fd \in 0 .. 7
    /\ tcpclient_src_port_l \in 0 .. MaxSyns
    /\ result_fd \in 0 .. 7 \cup {BogusFd}
    /\ hisip \in Name \cup {NoAddr} /\ dnstid_l \in 0 .. 255
    /\ pc \in {"setup", "wait", "answer", "receive", "work"}
    /\ name \in {"get", "noip", "host"}
    /\ attempt \in 0 .. MaxAttempts /\ checks \in 0 .. MaxChecks
    /\ actual_status \in {"IDLE", "WAITING_FOR_PUBLIC_IP", "NEEDS_UPDATE", "WAITING_FOR_NOIP",
                          "ERROR"}

(* What a stash gives back is what was put into it. get() and extract()    *)
(* return the bytes in order, among those of the format, and size() is     *)
(* their number, whichever of the two buffers and the chip has a page at   *)
(* the time: size() once the stash has been saved, and before that if      *)
(* there is no other.                                                      *)
StashExact ==
    ~mem.short =>
        /\ exact
        /\ \A i \in Stashes :
             phase[i] # "open" \/ phase[3 - i] = "none" => size(mem, obj[i]) = Len(text[i])

(* A page is free or belongs to one stash: release() and cleanup(), which  *)
(* follow the links in the chip, free all pages of a stash and no other.   *)
(* What pachube has not sent before its next message remains in use.       *)
PagesAccounted ==
    ~mem.short => /\ held[1] \cap held[2] = {}
                  /\ mem.map = (1 .. Pages - 1) \ (held[1] \cup held[2])

(* What a server receives for the last request is its message, though it   *)
(* is put together from page 0 and the stash when the SYN/ACK comes.       *)
MessageExact ==
    \A port \in DOMAIN conn :
        conn[port].got # NoText /\ conn[port].got.n = request.n => conn[port].got = request

(* The message is taken and its stashes are released once, whatever        *)
(* arrives: late SYN/ACKs, or a connection that is refused and tried       *)
(* again.                                                                  *)
FilledOnce == filled <= 1

(* What the sketch is given as the reply to its request is what lies in    *)
(* the buffer then, and it answers that request, not an earlier one.       *)
ReplyIsOwn ==
    /\ pc = "work" /\ HasReply(tcp_fd)
    /\ actual_status \in {"WAITING_FOR_PUBLIC_IP", "WAITING_FOR_NOIP"}
    => buffer = request

(* A look-up gives the address of the name that it was for: an answer to   *)
(* an earlier query is not taken for it.                                   *)
LookupOwn ==
    /\ pc = "answer" => hisip \in {NoAddr, name}
    /\ \A n \in DOMAIN addr : addr[n] \in {NoAddr, n}

(* Whatever the network does, noipClient comes back to waiting for its     *)
(* next check.                                                             *)
Settles ==
    actual_status \in {"WAITING_FOR_PUBLIC_IP", "NEEDS_UPDATE", "WAITING_FOR_NOIP"}
        ~> actual_status = "IDLE"

(* The gateway's address is found although requests and replies are lost.  *)
GatewayFound == pc = "wait" ~> HaveGwMac \in waitgwmac
=============================================================================
