------------------------------ MODULE NetStack ------------------------------
(***************************************************************************)
(* The lower half of UwUOS networking: the receive ring of the RTL8139     *)
(* (kernel/rtl8139.c), the ARP cache (kernel/network.c), and the code of   *)
(* ping and of http_request that waits in arp_resolve_blocking while       *)
(* net_poll runs the handlers of whatever arrives.  The TCP protocol is in *)
(* HttpClient; here a connection is only what decides whether the handler  *)
(* of a segment must send an answer, for which it needs a MAC.  A MAC is   *)
(* the name of the host it belongs to.  A definition whose name extends    *)
(* the next one's is a mutation of it that a run must refute.              *)
(***************************************************************************)
EXTENDS Integers, Sequences, FiniteSets

CONSTANTS Hosts,          \* addresses on the local network, except our own
          Remote,         \* addresses behind the gateway
          gateway_ip,
          NoOne,          \* no address; no MAC
          CACHE,          \* entries of arp_cache: 256
          RING,           \* bytes of the receive ring: 8192
          MAX_POLL,       \* frames per rtl8139_poll: 16
          MIN_LEN,        \* frames that rtl8139_poll takes: from 4
          MAX_LEN,        \* to 1600 bytes
          Lengths,        \* lengths of frames, their checksum included
          MaxRequests,    \* bound: http requests made
          MaxNested       \* bound: polls inside the handler of a frame

ASSUME NetAssumption ==
  /\ gateway_ip \in Hosts /\ NoOne \notin Hosts \cup Remote
  /\ IsFiniteSet(Hosts) /\ CACHE \in Nat \ {0}
  /\ Cardinality(Hosts \ {gateway_ip}) <= CACHE     \* a /24 has at most 253 of them
  /\ RING \in Nat \ {0} /\ RING % 4 = 0
  /\ MAX_POLL \in Nat \ {0} /\ MaxRequests \in Nat /\ MaxNested \in Nat
  /\ Lengths \subseteq Nat

VARIABLES
  unread,           \* frames in the ring that the driver has not handled, oldest first
  card_pos,         \* where the card writes the next frame
  capr,             \* the card's register of what has been read, less 16
  rx_buffer_pos,
  processed,        \* frames handled by the running rtl8139_poll; NoPoll outside it
  nested,           \* polls that the handlers of frames have begun
  gateway_mac, arp_cache, arp_cache_ips, arp_cache_valid, arp_cache_idx,
  job,              \* what waits for the MAC of "target": "ping", "http" or "none"
  target,
  server,           \* tcp_http_server_ip
  port,             \* tcp_http_client_port, numbered from 1
  established,
  syn               \* the server to which a SYN went out from a port

ring  == << unread, card_pos, capr, rx_buffer_pos >>
cache == << gateway_mac, arp_cache, arp_cache_ips, arp_cache_valid, arp_cache_idx >>
http  == << server, port, established, syn >>
vars  == << ring, processed, nested, cache, job, target, http >>

NoPoll  == -1
Entries == 0..(CACHE - 1)
Ports   == 1..MaxRequests
Bodies  == [kind : {"arp"}, from : Hosts]
           \cup [kind : {"other"}]
           \cup [kind : {"synack", "data"}, from : Hosts \cup Remote, port : Ports]

Init ==
  /\ unread = << >> /\ card_pos = 0 /\ capr = (0 - 16) % RING /\ rx_buffer_pos = 0
  /\ processed = NoPoll /\ nested = 0
  /\ gateway_mac = NoOne
  /\ arp_cache = [i \in Entries |-> NoOne]
  /\ arp_cache_ips = [i \in Entries |-> NoOne]
  /\ arp_cache_valid = [i \in Entries |-> FALSE]
  /\ arp_cache_idx = 0
  /\ job = "none" /\ target = NoOne
  /\ server = NoOne /\ port = 0 /\ established = FALSE
  /\ syn = [p \in Ports |-> NoOne]

-----------------------------------------------------------------------------
(* The card, and the network behind it *)

(* Four bytes of header, the frame, and up to three to make it a multiple of *)
(* four.                                                                     *)
AfterUnaligned(pos, len) == (pos + len + 4) % RING
AfterNoWrap(pos, len) == ((pos + len + 4 + 3) \div 4) * 4
After(pos, len) == (((pos + len + 4 + 3) \div 4) * 4) % RING

Free == (capr + 16 - card_pos) % RING     \* 0: the ring is empty

(* The card stores one frame at a time, and drops one that does not fit.     *)
Arrives(body) ==
  \E len \in Lengths :
    /\ Free = 0 \/ len + 8 < Free
    /\ unread # << >> => unread[Len(unread)].rok
    /\ unread' = Append(unread, [pos |-> card_pos, len |-> len, rok |-> FALSE, body |-> body])
    /\ card_pos' = (((card_pos + len + 7) \div 4) * 4) % RING
    /\ UNCHANGED << capr, rx_buffer_pos, processed, nested, cache, job, target, http >>

(* It is stored: its header now says ROK.                                    *)
FrameStored ==
  /\ unread # << >> /\ ~unread[Len(unread)].rok
  /\ unread' = [unread EXCEPT ![Len(unread)].rok = TRUE]
  /\ UNCHANGED << card_pos, capr, rx_buffer_pos, processed, nested, cache, job, target, http >>

(* Hosts answer ARP requests, ours and, since the card is promiscuous, those *)
(* of others.                                                                *)
ArpReply == \E h \in Hosts : Arrives([kind |-> "arp", from |-> h])
OtherFrame == Arrives([kind |-> "other"])

(* A server opens a connection for a SYN.                                    *)
SynAck ==
  \E p \in Ports :
    /\ syn[p] # NoOne
    /\ Arrives([kind |-> "synack", from |-> syn[p], port |-> p])

(* A segment with data or a FIN comes from the server, or from any other     *)
(* host.                                                                     *)
Segment ==
  \E p \in Ports, h \in Hosts \cup Remote :
    Arrives([kind |-> "data", from |-> h, port |-> p])

-----------------------------------------------------------------------------
(* The ARP cache *)

EntriesOf(ip) == {i \in Entries : arp_cache_valid[i] /\ arp_cache_ips[i] = ip}

(* get_mac_for_ip(ip), and mac_known of it *)
Known(ip) ==
  IF ip = gateway_ip THEN gateway_mac # NoOne
  ELSE \E i \in EntriesOf(ip) : arp_cache[i] # NoOne

NextHop(ip) == IF ip \in Hosts THEN ip ELSE gateway_ip

NewEntry(ip, mac) ==
  LET idx == arp_cache_idx % CACHE
  IN  /\ arp_cache' = [arp_cache EXCEPT ![idx] = mac]
      /\ arp_cache_ips' = [arp_cache_ips EXCEPT ![idx] = ip]
      /\ arp_cache_valid' = [arp_cache_valid EXCEPT ![idx] = TRUE]
      /\ arp_cache_idx' = arp_cache_idx + 1

StoreMacNew(ip, mac) ==
  /\ IF ip = gateway_ip
     THEN gateway_mac' = mac
          /\ UNCHANGED << arp_cache, arp_cache_ips, arp_cache_valid, arp_cache_idx >>
     ELSE NewEntry(ip, mac) /\ UNCHANGED gateway_mac

StoreMac(ip, mac) ==
  \/ /\ ip = gateway_ip
     /\ gateway_mac' = mac
     /\ UNCHANGED << arp_cache, arp_cache_ips, arp_cache_valid, arp_cache_idx >>
  \/ /\ ip # gateway_ip /\ EntriesOf(ip) # {}
     /\ LET first == CHOOSE i \in EntriesOf(ip) : \A j \in EntriesOf(ip) : i <= j
        IN  arp_cache' = [arp_cache EXCEPT ![first] = mac]
     /\ UNCHANGED << gateway_mac, arp_cache_ips, arp_cache_valid, arp_cache_idx >>
  \/ /\ ip # gateway_ip /\ EntriesOf(ip) = {}
     /\ NewEntry(ip, mac)
     /\ UNCHANGED gateway_mac

-----------------------------------------------------------------------------
(* rtl8139_poll and net_handle_packet *)

(* The handler of this frame answers it, whoever sent it, and does not know  *)
(* where to send: arp_resolve_blocking polls again.                          *)
Blocks(body) ==
  /\ body.kind = "data" /\ body.port = port /\ established
  /\ ~Known(NextHop(body.from))

Handle(body) ==
  \/ /\ body.kind = "arp"
     /\ StoreMac(body.from, body.from)
     /\ UNCHANGED http
  \/ /\ body.kind = "synack" /\ body.port = port /\ body.from = server
     /\ established' = TRUE
     /\ UNCHANGED << cache, server, port, syn >>
  \/ /\ body.kind = "synack" /\ ~(body.port = port /\ body.from = server)
     /\ UNCHANGED << cache, http >>
  \/ /\ body.kind \in {"other", "data"}
     /\ UNCHANGED << cache, http >>

(* No poll runs, neither from the thread nor from a handler.                 *)
Idle == processed = NoPoll /\ nested = 0

PollStart ==
  /\ Idle /\ Free # 0
  /\ processed' = 0
  /\ UNCHANGED << ring, nested, cache, job, target, http >>

(* The loop of rtl8139_poll reads the header at rx_buffer_pos.               *)
AtFrame ==
  /\ processed \in 0..(MAX_POLL - 1) /\ Free # 0
  /\ unread # << >> /\ Head(unread).pos = rx_buffer_pos

Taken(frame) == frame.len \in MIN_LEN..MAX_LEN /\ frame.rok

PollFrame ==
  /\ AtFrame
  /\ LET frame == Head(unread)
         next  == After(rx_buffer_pos, frame.len)
     IN  /\ Taken(frame)
         /\ ~Blocks(frame.body)
         /\ Handle(frame.body)
         /\ unread' = Tail(unread)
         /\ rx_buffer_pos' = next
         /\ capr' = (next - 16) % RING
  /\ processed' = processed + 1
  /\ UNCHANGED << card_pos, nested, job, target >>

(* The handler polls before rx_buffer_pos has moved: that poll finds the     *)
(* same frame, whose handler polls again.                                    *)
HandlerPolls ==
  /\ AtFrame /\ Taken(Head(unread)) /\ Blocks(Head(unread).body)
  /\ nested < MaxNested
  /\ nested' = nested + 1 /\ processed' = 0
  /\ UNCHANGED << ring, cache, job, target, http >>

(* A frame that is not taken ends the poll, and waits for the next one.      *)
PollBreakRetry ==
  /\ AtFrame /\ ~Taken(Head(unread))
  /\ UNCHANGED vars

PollBreak ==
  /\ AtFrame /\ ~Taken(Head(unread))
  /\ processed' = NoPoll
  /\ UNCHANGED << ring, nested, cache, job, target, http >>

PollEnd ==
  /\ processed = MAX_POLL \/ (processed # NoPoll /\ Free = 0)
  /\ processed' = NoPoll
  /\ UNCHANGED << ring, nested, cache, job, target, http >>

-----------------------------------------------------------------------------
(* The thread, while no poll is running *)

(* icmp_send_ping: the MAC is known, or is waited for.                       *)
Ping(dest) ==
  /\ Idle /\ job = "none"
  /\ IF Known(NextHop(dest)) THEN UNCHANGED << job, target >>
     ELSE job' = "ping" /\ target' = NextHop(dest)
  /\ UNCHANGED << ring, processed, nested, cache, http >>

HttpStart(s) ==
  /\ Idle /\ job = "none" /\ port < MaxRequests
  /\ job' = "http" /\ target' = NextHop(s)
  /\ server' = s /\ port' = port + 1 /\ established' = FALSE
  /\ UNCHANGED << ring, processed, nested, cache, syn >>

(* arp_resolve_blocking has it: the echo request goes out, or the SYN.       *)
Resolved ==
  /\ Idle /\ job # "none" /\ Known(target)
  /\ job' = "none" /\ target' = NoOne
  /\ syn' = IF job = "http" THEN [syn EXCEPT ![port] = server] ELSE syn
  /\ UNCHANGED << ring, processed, nested, cache, server, port, established >>

(* Its loop has counted down.                                                *)
GivesUp ==
  /\ Idle /\ job # "none" /\ ~Known(target)
  /\ job' = "none" /\ target' = NoOne
  /\ UNCHANGED << ring, processed, nested, cache, http >>

Next ==
  \/ ArpReply \/ OtherFrame \/ SynAck \/ Segment \/ FrameStored
  \/ PollStart \/ PollFrame \/ HandlerPolls \/ PollBreak \/ PollEnd
  \/ Resolved \/ GivesUp
  \/ \E ip \in Hosts \cup Remote : Ping(ip) \/ HttpStart(ip)

Spec == Init /\ [][Next]_vars

(* The driver's loop runs to its end, and after each poll the loop of        *)
(* arp_resolve_blocking looks into the cache and counts down.                *)
FairSpec ==
  /\ Spec
  /\ WF_vars(PollFrame \/ HandlerPolls \/ PollBreak \/ PollEnd)
  /\ SF_vars(Resolved \/ GivesUp)

-----------------------------------------------------------------------------
(* Properties *)

TypeOK ==
  /\ unread \in Seq([pos : 0..(RING - 1), len : Lengths, rok : BOOLEAN, body : Bodies])
  /\ card_pos \in 0..(RING - 1) /\ capr \in 0..(RING - 1) /\ rx_buffer_pos \in 0..(RING - 1)
  /\ processed \in 0..MAX_POLL \cup {NoPoll} /\ nested \in 0..MaxNested
  /\ gateway_mac \in Hosts \cup {NoOne}
  /\ arp_cache \in [Entries -> Hosts \cup {NoOne}]
  /\ arp_cache_ips \in [Entries -> Hosts \cup {NoOne}]
  /\ arp_cache_valid \in [Entries -> BOOLEAN]
  /\ arp_cache_idx \in Nat
  /\ job \in {"none", "ping", "http"} /\ target \in Hosts \cup {NoOne}
  /\ server \in Hosts \cup Remote \cup {NoOne} /\ port \in 0..MaxRequests
  /\ established \in BOOLEAN /\ syn \in [Ports -> Hosts \cup Remote \cup {NoOne}]

(* The driver looks for the next frame where the card has put it, and tells  *)
(* the card so, whatever the lengths and however often the ring wrapped.     *)
InSync ==
  /\ capr = (rx_buffer_pos - 16) % RING
  /\ rx_buffer_pos = IF unread = << >> THEN card_pos ELSE Head(unread).pos

(* The round-robin cache holds each address once, with its own MAC.          *)
CacheIsMap ==
  \A i \in Entries : arp_cache_valid[i] =>
    /\ EntriesOf(arp_cache_ips[i]) = {i}
    /\ arp_cache[i] = arp_cache_ips[i]

(* An address whose MAC is known stays known, although the cache reuses its  *)
(* entries: the local network is not larger than the cache.                  *)
KnownStaysKnown == [][\A h \in Hosts : Known(h) => Known(h)']_vars

(* The handlers of the server's segments, and of all that come by its next   *)
(* hop, know where to send their answer.  Only a segment of another host can *)
(* make net_poll run inside a handler, and then no other frame is looked at. *)
ServerNeverBlocks ==
  /\ \A i \in 1..Len(unread) :
       Blocks(unread[i].body) => NextHop(unread[i].body.from) # NextHop(server)
  /\ nested > 0 => unread # << >> /\ Blocks(Head(unread).body)

(* ping, http_request and every poll of the card come to an end, whatever    *)
(* arrives meanwhile and however long the card takes to store it, but for    *)
(* the segment of another host for which net_poll runs inside its handler.   *)
ThreadReturns ==
  (job # "none" \/ processed # NoPoll) ~> ((job = "none" /\ processed = NoPoll) \/ nested > 0)
=============================================================================
