--------------------------- MODULE NetStackProofs ---------------------------
(***************************************************************************)
(* Proofs about NetStack, for every local network that fits the cache,     *)
(* every ring and every length of frames: the ARP cache forgets nobody,    *)
(* the server's segments are answered at once, and the driver never loses  *)
(* the card's place.                                                       *)
(***************************************************************************)
EXTENDS NetStack, FiniteSetTheorems, TLAPS

(* The cache fills from entry 0 on, with hosts that are not the gateway.     *)
CacheFilled ==
  /\ arp_cache_idx \in 0..CACHE
  /\ \A i \in Entries :
       /\ arp_cache_valid[i] <=> i < arp_cache_idx
       /\ arp_cache_valid[i] => arp_cache_ips[i] \in Hosts \ {gateway_ip}

CacheTyped ==
  /\ gateway_mac \in Hosts \cup {NoOne}
  /\ arp_cache \in [Entries -> Hosts \cup {NoOne}]
  /\ arp_cache_ips \in [Entries -> Hosts \cup {NoOne}]
  /\ arp_cache_valid \in [Entries -> BOOLEAN]

CacheInv == CacheTyped /\ CacheFilled /\ CacheIsMap

(* A SYN goes out, a server answers it and a connection is established, only *)
(* after the server's next hop was found.                                    *)
PeersKnown ==
  /\ job = "http" => /\ target = NextHop(server) /\ server \in Hosts \cup Remote
                     /\ port \in Ports
  /\ \A p \in Ports : syn[p] # NoOne => Known(NextHop(syn[p]))
  /\ \A i \in 1..Len(unread) :
       unread[i].body.kind = "synack" => Known(NextHop(unread[i].body.from))
  /\ established => server \in Hosts \cup Remote /\ Known(NextHop(server))

(* A handler that has begun to poll stays with its frame, and the thread     *)
(* waits for it.                                                             *)
HandlerStays ==
  nested > 0 => unread # << >> /\ Blocks(unread[1].body)

(* Each frame in the ring begins where the one before it ends.               *)
Frames == [pos : 0..(RING - 1), len : Lengths, rok : BOOLEAN, body : Bodies]
End(frame) == After(frame.pos, frame.len)

Chained ==
  /\ capr = (rx_buffer_pos - 16) % RING
  /\ unread = << >> => rx_buffer_pos = card_pos
  /\ unread # << >> => /\ rx_buffer_pos = unread[1].pos
                       /\ card_pos = End(unread[Len(unread)])
  /\ \A i \in 1..(Len(unread) - 1) : unread[i + 1].pos = End(unread[i])

-----------------------------------------------------------------------------
(* The cache *)

LEMMA GatewayIsHost ==
  /\ gateway_ip \in Hosts /\ NoOne \notin Hosts
  /\ \A ip \in Hosts \cup Remote : NextHop(ip) \in Hosts
BY NetAssumption DEF NextHop

(* The entries of one address: at most one, by CacheIsMap. *)
LEMMA OneEntry ==
  ASSUME CacheInv, NEW ip, NEW i \in EntriesOf(ip)
  PROVE  EntriesOf(ip) = {i} /\ i \in Entries /\ arp_cache[i] = ip
BY DEF CacheInv, CacheIsMap, EntriesOf

(* As long as an address is missing from the cache, there is a free entry:   *)
(* otherwise CACHE entries would hold different addresses, of fewer than     *)
(* CACHE.                                                                    *)
LEMMA RoomInCache ==
  ASSUME CacheInv, NEW ip \in Hosts, ip # gateway_ip, EntriesOf(ip) = {}
  PROVE  /\ arp_cache_idx \in Entries /\ arp_cache_idx % CACHE = arp_cache_idx
         /\ ~arp_cache_valid[arp_cache_idx]
<1> DEFINE Others == (Hosts \ {gateway_ip}) \ {ip}
<1>1. CACHE \in Nat \ {0} /\ IsFiniteSet(Hosts)
  BY NetAssumption
<1>2. IsFiniteSet(Hosts \ {gateway_ip}) /\ IsFiniteSet(Others)
  BY <1>1, FS_RemoveElement
<1>3. Cardinality(Others) < CACHE
  <2>1. Cardinality(Hosts \ {gateway_ip}) <= CACHE
    BY NetAssumption
  <2>2. Cardinality(Others) = Cardinality(Hosts \ {gateway_ip}) - 1
    BY <1>2, FS_RemoveElement
  <2>3. Cardinality(Hosts \ {gateway_ip}) \in Nat
    BY <1>2, FS_CardinalityType
  <2> QED BY <1>1, <2>1, <2>2, <2>3
<1>4. arp_cache_idx # CACHE
  <2> SUFFICES ASSUME arp_cache_idx = CACHE PROVE FALSE
    OBVIOUS
  <2>1. \A i \in Entries : arp_cache_valid[i]
    BY <1>1 DEF CacheInv, CacheFilled, Entries
  <2>2. ASSUME NEW i \in Entries PROVE arp_cache_ips[i] \in Others
    BY <2>1 DEF CacheInv, CacheFilled, EntriesOf
  <2>3. arp_cache_ips \in [Entries -> Others]
    BY <2>2 DEF CacheInv, CacheTyped
  <2>4. IsFiniteSet(Entries) /\ Cardinality(Entries) = CACHE
    BY <1>1, FS_Interval DEF Entries
  <2>5. PICK x, y \in Entries : x # y /\ arp_cache_ips[x] = arp_cache_ips[y]
    <3> HIDE DEF Others
    <3> QED BY <1>2, <1>3, <2>3, <2>4, FS_PigeonHole
  <2> QED BY <2>1, <2>5 DEF CacheInv, CacheIsMap, EntriesOf
<1>5. arp_cache_idx \in Entries
  BY <1>1, <1>4 DEF CacheInv, CacheFilled, Entries
<1>6. arp_cache_idx % CACHE = arp_cache_idx
  BY <1>1, <1>5 DEF Entries
<1>7. ~arp_cache_valid[arp_cache_idx]
  BY <1>5, <1>1 DEF CacheInv, CacheFilled, Entries
<1> QED BY <1>5, <1>6, <1>7

(* store_mac_for_ip keeps the cache a map, and forgets nobody. *)
LEMMA StoreKeeps ==
  ASSUME CacheInv, NEW ip \in Hosts, StoreMac(ip, ip)
  PROVE  CacheInv' /\ \A h \in Hosts : Known(h) => Known(h)'
<1>1. CASE ip = gateway_ip /\ gateway_mac' = ip
           /\ UNCHANGED << arp_cache, arp_cache_ips, arp_cache_valid, arp_cache_idx >>
  <2>1. CacheInv'
    BY <1>1 DEF CacheInv, CacheTyped, CacheFilled, CacheIsMap, EntriesOf
  <2>2. \A h \in Hosts : Known(h) => Known(h)'
    BY <1>1, GatewayIsHost DEF Known, EntriesOf
  <2> QED BY <2>1, <2>2
<1>2. CASE /\ ip # gateway_ip /\ EntriesOf(ip) # {}
           /\ LET first == CHOOSE i \in EntriesOf(ip) : \A j \in EntriesOf(ip) : i <= j
              IN  arp_cache' = [arp_cache EXCEPT ![first] = ip]
           /\ UNCHANGED << gateway_mac, arp_cache_ips, arp_cache_valid, arp_cache_idx >>
  <2> DEFINE first == CHOOSE i \in EntriesOf(ip) : \A j \in EntriesOf(ip) : i <= j
  <2>1. PICK i \in EntriesOf(ip) : TRUE
    BY <1>2
  <2>2. EntriesOf(ip) = {i} /\ i \in Entries /\ arp_cache[i] = ip
    BY OneEntry
  <2>3. i \in Int
    BY <2>2, NetAssumption DEF Entries
  <2>4. first = i
    <3>1. \E k \in EntriesOf(ip) : \A j \in EntriesOf(ip) : k <= j
      BY <2>2, <2>3
    <3>2. first \in EntriesOf(ip)
      BY <3>1
    <3> QED BY <2>2, <3>2
  <2>5. arp_cache' = arp_cache
    BY <1>2, <2>2, <2>4 DEF CacheInv, CacheTyped
  <2>6. UNCHANGED cache
    BY <1>2, <2>5 DEF cache
  <2> QED BY <2>6 DEF cache, CacheInv, CacheTyped, CacheFilled, CacheIsMap, EntriesOf, Known
<1>3. CASE ip # gateway_ip /\ EntriesOf(ip) = {} /\ NewEntry(ip, ip) /\ UNCHANGED gateway_mac
  <2> DEFINE n == arp_cache_idx
  <2>1. n \in Entries /\ n % CACHE = n /\ ~arp_cache_valid[n]
    BY <1>3, RoomInCache
  <2>2. /\ arp_cache' = [arp_cache EXCEPT ![n] = ip]
        /\ arp_cache_ips' = [arp_cache_ips EXCEPT ![n] = ip]
        /\ arp_cache_valid' = [arp_cache_valid EXCEPT ![n] = TRUE]
        /\ arp_cache_idx' = n + 1
    BY <1>3, <2>1 DEF NewEntry
  <2>3. CacheTyped'
    BY <1>3, <2>1, <2>2 DEF CacheInv, CacheTyped
  <2>4. ASSUME NEW i \in Entries, i # n
        PROVE  /\ arp_cache'[i] = arp_cache[i] /\ arp_cache_ips'[i] = arp_cache_ips[i]
               /\ arp_cache_valid'[i] = arp_cache_valid[i]
    BY <2>2, <2>4 DEF CacheInv, CacheTyped
  <2>5. arp_cache'[n] = ip /\ arp_cache_ips'[n] = ip /\ arp_cache_valid'[n] = TRUE
    BY <2>1, <2>2 DEF CacheInv, CacheTyped
  <2>6. CacheFilled'
    <3>1. n \in 0..(CACHE - 1) /\ CACHE \in Nat
      BY <2>1, NetAssumption DEF Entries
    <3>2. arp_cache_idx' \in 0..CACHE
      BY <2>2, <3>1
    <3>3. ASSUME NEW i \in Entries
          PROVE  /\ arp_cache_valid'[i] <=> i < arp_cache_idx'
                 /\ arp_cache_valid'[i] => arp_cache_ips'[i] \in Hosts \ {gateway_ip}
      <4>1. CASE i = n
        BY <1>3, <2>2, <2>5, <3>1, <4>1
      <4>2. CASE i # n
        <5>1. i \in Int
          BY <3>1 DEF Entries
        <5>2. arp_cache_valid[i] <=> i < n
          BY DEF CacheInv, CacheFilled
        <5>3. i < n + 1 <=> i < n
          BY <3>1, <4>2, <5>1
        <5> QED BY <2>2, <2>4, <4>2, <5>2, <5>3 DEF CacheInv, CacheFilled
      <4> QED BY <4>1, <4>2
    <3> QED BY <3>2, <3>3 DEF CacheFilled
  <2>7. ASSUME NEW h, h # ip PROVE EntriesOf(h)' = EntriesOf(h)
    BY <2>1, <2>4, <2>5, <2>7 DEF EntriesOf
  <2>8. EntriesOf(ip)' = {n}
    BY <1>3, <2>1, <2>4, <2>5 DEF EntriesOf
  <2>9. CacheIsMap'
    <3>1. ASSUME NEW i \in Entries, (arp_cache_valid[i])', NEW j \in Entries,
                 (arp_cache_valid[j])', (arp_cache_ips[j])' = (arp_cache_ips[i])'
          PROVE  j = i
      <4>1. CASE i = n /\ j # n
        BY <1>3, <2>4, <2>5, <3>1, <4>1 DEF EntriesOf
      <4>2. CASE i # n /\ j = n
        BY <1>3, <2>4, <2>5, <3>1, <4>2 DEF EntriesOf
      <4>3. CASE i # n /\ j # n
        <5>1. /\ arp_cache_valid[i] /\ arp_cache_valid[j]
              /\ arp_cache_ips[i] = arp_cache_ips[j]
          BY <2>4, <3>1, <4>3
        <5> QED BY <5>1 DEF CacheInv, CacheIsMap, EntriesOf
      <4> QED BY <4>1, <4>2, <4>3
    <3>2. ASSUME NEW i \in Entries, (arp_cache_valid[i])'
          PROVE  (arp_cache[i])' = (arp_cache_ips[i])'
      BY <2>4, <2>5, <3>2 DEF CacheInv, CacheIsMap
    <3>3. ASSUME NEW i \in Entries, (arp_cache_valid[i])'
          PROVE  EntriesOf(arp_cache_ips[i])' = {i}
      BY <3>1, <3>3 DEF EntriesOf
    <3> QED BY <3>2, <3>3 DEF CacheIsMap
  <2>10. ASSUME NEW h \in Hosts, Known(h) PROVE Known(h)'
    <3>1. CASE h = gateway_ip
      BY <1>3, <2>10, <3>1 DEF Known
    <3>2. CASE h # gateway_ip
      <4>1. PICK i \in EntriesOf(h) : arp_cache[i] # NoOne
        BY <2>10, <3>2 DEF Known
      <4>2. i \in Entries /\ arp_cache_valid[i] /\ arp_cache_ips[i] = h /\ i # n
        BY <2>1 DEF EntriesOf
      <4>3. i \in EntriesOf(h)' /\ arp_cache'[i] # NoOne
        BY <2>4, <4>1, <4>2 DEF EntriesOf
      <4> QED BY <3>2, <4>3 DEF Known
    <3> QED BY <3>1, <3>2
  <2> QED BY <2>3, <2>6, <2>9, <2>10 DEF CacheInv
<1> QED BY <1>1, <1>2, <1>3 DEF StoreMac

-----------------------------------------------------------------------------
(* The ring, and the inductive invariant *)

Inductive == TypeOK /\ CacheInv /\ PeersKnown /\ HandlerStays /\ Chained

LEMMA ModRange ==
  ASSUME NEW n \in Int
  PROVE  n % RING \in 0..(RING - 1)
BY NetAssumption

LEMMA AfterRange ==
  ASSUME NEW pos \in 0..(RING - 1), NEW len \in Lengths
  PROVE  /\ After(pos, len) \in 0..(RING - 1)
         /\ (((pos + len + 7) \div 4) * 4) % RING = After(pos, len)
<1>1. pos \in Nat /\ len \in Nat
  BY NetAssumption
<1>2. pos + len + 4 + 3 = pos + len + 7
  BY <1>1
<1>3. ((pos + len + 4 + 3) \div 4) * 4 \in Int
  BY <1>1
<1> QED BY <1>2, <1>3, ModRange DEF After

(* A frame arrives; a SYN+ACK only from a known next hop. *)
LEMMA ArrivalKeeps ==
  ASSUME Inductive, NEW body \in Bodies, Arrives(body),
         body.kind = "synack" => Known(NextHop(body.from))
  PROVE  Inductive'
<1>1. PICK len \in Lengths :
        /\ unread' = Append(unread, [pos |-> card_pos, len |-> len, rok |-> FALSE, body |-> body])
        /\ card_pos' = (((card_pos + len + 7) \div 4) * 4) % RING
  BY DEF Arrives
<1>2. UNCHANGED << capr, rx_buffer_pos, processed, nested, cache, job, target, http >>
  BY DEF Arrives
<1> DEFINE frame == [pos |-> card_pos, len |-> len, rok |-> FALSE, body |-> body]
<1>3. card_pos \in 0..(RING - 1) /\ unread \in Seq(Frames)
  BY DEF Inductive, TypeOK, Frames
<1>4. frame \in Frames /\ frame.pos = card_pos /\ frame.body = body
  BY <1>3 DEF Frames
<1>5. card_pos' \in 0..(RING - 1) /\ card_pos' = End(frame)
  BY <1>1, <1>3, AfterRange DEF End
<1>6. /\ unread' \in Seq(Frames) /\ Len(unread') = Len(unread) + 1 /\ Len(unread) \in Nat
      /\ unread'[Len(unread) + 1] = frame
      /\ \A i \in 1..Len(unread) : unread'[i] = unread[i]
  <2> HIDE DEF frame
  <2> QED BY <1>1, <1>3, <1>4 DEF frame
<1>7. TypeOK'
  BY <1>2, <1>5, <1>6 DEF Inductive, TypeOK, Frames, cache, http
<1>8. CacheInv'
  BY <1>2 DEF Inductive, CacheInv, CacheTyped, CacheFilled, CacheIsMap, EntriesOf, cache
<1>9. \A ip : Known(ip)' <=> Known(ip)
  BY <1>2 DEF Known, EntriesOf, cache
<1>10. PeersKnown'
  <2>1. ASSUME NEW i \in 1..Len(unread'), unread'[i].body.kind = "synack"
        PROVE  Known(NextHop(unread'[i].body.from))
    <3>1. CASE i = Len(unread) + 1
      BY <1>4, <1>6, <2>1, <3>1
    <3>2. CASE i # Len(unread) + 1
      <4>1. i \in 1..Len(unread)
        BY <1>6, <3>2
      <4> QED BY <1>6, <2>1, <4>1 DEF Inductive, PeersKnown
    <3> QED BY <3>1, <3>2
  <2> QED BY <1>2, <1>9, <2>1 DEF Inductive, PeersKnown, NextHop, http, Known, EntriesOf, cache
<1>11. Chained'
  <2>1. unread' # << >> /\ unread'[Len(unread')] = frame
    BY <1>6
  <2>2. rx_buffer_pos' = unread'[1].pos
    <3>1. CASE unread = << >>
      <4>1. Len(unread) = 0
        BY <3>1
      <4> QED BY <1>2, <1>4, <1>6, <3>1, <4>1 DEF Inductive, Chained
    <3>2. CASE unread # << >>
      <4>1. 1 \in 1..Len(unread)
        BY <1>3, <3>2
      <4> QED BY <1>2, <1>6, <3>2, <4>1 DEF Inductive, Chained
    <3> QED BY <3>1, <3>2
  <2>3. ASSUME NEW i \in 1..(Len(unread') - 1) PROVE unread'[i + 1].pos = End(unread'[i])
    <3>1. i \in 1..Len(unread) /\ unread'[i] = unread[i]
      BY <1>6
    <3>2. CASE i = Len(unread)
      <4>1. unread # << >>
        BY <3>1, <3>2
      <4> QED BY <1>4, <1>6, <3>1, <3>2, <4>1 DEF Inductive, Chained
    <3>3. CASE i # Len(unread)
      <4>1. i \in 1..(Len(unread) - 1) /\ i + 1 \in 1..Len(unread)
        BY <1>6, <3>1, <3>3
      <4> QED BY <1>6, <3>1, <4>1 DEF Inductive, Chained
    <3> QED BY <3>2, <3>3
  <2> HIDE DEF frame
  <2> QED BY <1>2, <1>5, <2>1, <2>2, <2>3 DEF Inductive, Chained, End
<1>12. HandlerStays'
  <2>1. ASSUME nested > 0
        PROVE  /\ unread # << >> /\ unread' # << >> /\ unread'[1] = unread[1]
               /\ Blocks(unread[1].body)
    <3>1. unread # << >> /\ Blocks(unread[1].body)
      BY <2>1 DEF Inductive, HandlerStays
    <3>2. 1 \in 1..Len(unread)
      BY <1>3, <3>1
    <3> QED BY <1>6, <3>1, <3>2
  <2>2. ASSUME NEW b PROVE Blocks(b)' <=> Blocks(b)
    BY <1>2, <1>9 DEF Blocks, NextHop, http, cache, Known, EntriesOf
  <2>3. nested' = nested
    BY <1>2
  <2> QED BY <2>1, <2>2, <2>3 DEF HandlerStays, Blocks, NextHop, Known, EntriesOf
<1> QED BY <1>7, <1>8, <1>10, <1>11, <1>12 DEF Inductive

(* The card has stored the newest frame. *)
LEMMA StoredKeeps ==
  ASSUME Inductive, FrameStored
  PROVE  Inductive' /\ UNCHANGED cache
<1> DEFINE n == Len(unread)
<1>1. unread \in Seq(Frames) /\ unread # << >> /\ n \in Nat \ {0}
  BY DEF Inductive, TypeOK, Frames, FrameStored
<1>2. UNCHANGED << card_pos, capr, rx_buffer_pos, processed, nested, cache, job, target, http >>
  BY DEF FrameStored
<1>3. unread' = [unread EXCEPT ![n] = [unread[n] EXCEPT !.rok = TRUE]]
  BY DEF FrameStored
<1>4. unread[n] \in Frames /\ [unread[n] EXCEPT !.rok = TRUE] \in Frames
  <2>1. unread[n] \in Frames
    BY <1>1
  <2>2. ASSUME NEW f \in Frames PROVE [f EXCEPT !.rok = TRUE] \in Frames
    BY DEF Frames
  <2> QED BY <2>1, <2>2
<1>5. /\ unread' \in Seq(Frames) /\ unread' # << >> /\ Len(unread') = n
      /\ \A i \in 1..n : /\ unread'[i].pos = unread[i].pos
                         /\ unread'[i].len = unread[i].len
                         /\ unread'[i].body = unread[i].body
  <2>1. n \in 1..n /\ \A i \in 1..n : unread[i] \in Frames
    BY <1>1
  <2>2. unread' \in Seq(Frames) /\ Len(unread') = n
    BY <1>1, <1>3, <1>4
  <2>3. ASSUME NEW i \in 1..n
        PROVE  unread'[i] = IF i = n THEN [unread[n] EXCEPT !.rok = TRUE] ELSE unread[i]
    BY <1>1, <1>3
  <2> QED BY <1>1, <2>1, <2>2, <2>3 DEF Frames
<1>6. TypeOK'
  BY <1>2, <1>5 DEF Inductive, TypeOK, Frames, cache, http
<1>7. CacheInv' /\ \A ip : Known(ip)' <=> Known(ip)
  BY <1>2 DEF Inductive, CacheInv, CacheTyped, CacheFilled, CacheIsMap, EntriesOf, Known, cache
<1>8. PeersKnown'
  BY <1>2, <1>5, <1>7 DEF Inductive, PeersKnown, NextHop, http, Known, EntriesOf, cache
<1>9. HandlerStays'
  <2>1. 1 \in 1..n
    BY <1>1
  <2>2. unread'[1].body = unread[1].body
    BY <1>5, <2>1
  <2> QED BY <1>1, <1>2, <1>5, <1>7, <2>2
      DEF Inductive, HandlerStays, Blocks, NextHop, http, Known, EntriesOf, cache
<1>10. Chained'
  <2>1. 1 \in 1..n /\ n \in 1..n /\ \A i \in 1..(n - 1) : i \in 1..n /\ i + 1 \in 1..n
    BY <1>1
  <2> QED BY <1>1, <1>2, <1>5, <2>1 DEF Inductive, Chained, End, After
<1> QED BY <1>2, <1>6, <1>7, <1>8, <1>9, <1>10 DEF Inductive

LEMMA Initially == Init => Inductive
<1> SUFFICES ASSUME Init PROVE Inductive
  OBVIOUS
<1>1. CACHE \in Nat \ {0} /\ RING \in Nat \ {0} /\ MaxRequests \in Nat /\ MAX_POLL \in Nat
  BY NetAssumption
<1>2. 0 \in 0..(RING - 1) /\ (0 - 16) % RING \in 0..(RING - 1)
  BY <1>1, ModRange
<1>3. TypeOK
  <2>1. unread \in Seq([pos : 0..(RING - 1), len : Lengths, rok : BOOLEAN, body : Bodies])
    BY DEF Init
  <2>2. /\ card_pos \in 0..(RING - 1) /\ capr \in 0..(RING - 1)
        /\ rx_buffer_pos \in 0..(RING - 1)
    BY <1>2 DEF Init
  <2>3. port \in 0..MaxRequests /\ arp_cache_idx \in Nat
    BY <1>1 DEF Init
  <2>4. nested \in 0..MaxNested /\ processed \in 0..MAX_POLL \cup {NoPoll}
    BY NetAssumption DEF Init
  <2> QED BY <2>1, <2>2, <2>3, <2>4 DEF Init, TypeOK
<1>4. CacheInv
  BY <1>1 DEF Init, CacheInv, CacheTyped, CacheFilled, CacheIsMap, Entries
<1>5. PeersKnown /\ HandlerStays
  BY <1>1 DEF Init, PeersKnown, HandlerStays
<1>6. Chained
  BY <1>1 DEF Init, Chained
<1> QED BY <1>3, <1>4, <1>5, <1>6 DEF Inductive

(* The frame at rx_buffer_pos is handled. *)
LEMMA FrameKeeps ==
  ASSUME Inductive, PollFrame
  PROVE  Inductive' /\ \A h \in Hosts : Known(h) => Known(h)'
<1> DEFINE frame == Head(unread)
<1> DEFINE body == frame.body
<1>1. unread \in Seq(Frames) /\ unread # << >>
  BY DEF Inductive, TypeOK, Frames, PollFrame, AtFrame
<1>2. /\ frame = unread[1] /\ frame \in Frames /\ Len(unread) \in Nat \ {0}
      /\ Tail(unread) \in Seq(Frames) /\ Len(Tail(unread)) = Len(unread) - 1
      /\ \A i \in 1..(Len(unread) - 1) : Tail(unread)[i] = unread[i + 1]
  BY <1>1
<1>3. /\ Handle(body) /\ unread' = Tail(unread) /\ rx_buffer_pos' = End(frame)
      /\ capr' = (rx_buffer_pos' - 16) % RING /\ processed' = processed + 1
      /\ processed \in 0..(MAX_POLL - 1)
      /\ UNCHANGED << card_pos, nested, job, target, server, port, syn >>
      /\ established' \in BOOLEAN
  <2>1. /\ unread' = Tail(unread) /\ rx_buffer_pos' = After(rx_buffer_pos, frame.len)
        /\ capr' = (rx_buffer_pos' - 16) % RING /\ processed' = processed + 1
        /\ processed \in 0..(MAX_POLL - 1)
        /\ frame.pos = rx_buffer_pos /\ UNCHANGED << card_pos, nested, job, target >>
    BY DEF PollFrame, AtFrame
  <2>2. Handle(body)
    BY DEF PollFrame
  <2>3. UNCHANGED << server, port, syn >> /\ established' \in BOOLEAN
    <3> HIDE DEF body
    <3> QED BY <2>2 DEF Handle, http, Inductive, TypeOK
  <2> QED BY <2>1, <2>2, <2>3 DEF End
<1>4. frame.pos \in 0..(RING - 1) /\ frame.len \in Lengths /\ body \in Bodies
  BY <1>2 DEF Frames
<1>5. rx_buffer_pos' \in 0..(RING - 1) /\ capr' \in 0..(RING - 1)
  <2>1. rx_buffer_pos' \in 0..(RING - 1)
    BY <1>3, <1>4, AfterRange DEF End
  <2>2. rx_buffer_pos' - 16 \in Int
    BY <2>1
  <2> QED BY <1>3, <2>1, <2>2, ModRange
<1>6. CacheInv' /\ \A h \in Hosts : Known(h) => Known(h)'
  <2>1. CASE UNCHANGED cache
    BY <2>1 DEF cache, Inductive, CacheInv, CacheTyped, CacheFilled, CacheIsMap, EntriesOf, Known
  <2>2. CASE body.kind = "arp" /\ StoreMac(body.from, body.from)
    <3>1. body.from \in Hosts
      <4> HIDE DEF body
      <4> QED BY <1>4, <2>2 DEF Bodies
    <3>2. CacheInv
      BY DEF Inductive
    <3> HIDE DEF body
    <3> QED BY <2>2, <3>1, <3>2, StoreKeeps
  <2>3. UNCHANGED cache \/ (body.kind = "arp" /\ StoreMac(body.from, body.from))
    <3> HIDE DEF body
    <3> QED BY <1>3 DEF Handle, cache, http
  <2> QED BY <2>1, <2>2, <2>3
<1>7. TypeOK'
  <2>1. CacheTyped' /\ arp_cache_idx' \in Nat
    BY <1>6, NetAssumption DEF CacheInv, CacheFilled
  <2>2. processed' \in 0..MAX_POLL
    BY <1>3, NetAssumption
  <2>3. unread' \in Seq(Frames)
    BY <1>2, <1>3
  <2> HIDE DEF frame
  <2> QED BY <1>3, <1>5, <2>1, <2>2, <2>3 DEF Inductive, TypeOK, CacheTyped, Frames
<1>8. PeersKnown'
  <2>2. ASSUME NEW p \in Ports, (syn[p] # NoOne)' PROVE Known(NextHop(syn[p]))'
    <3>1. syn' = syn /\ syn[p] # NoOne /\ syn[p] \in Hosts \cup Remote
      BY <1>3, <2>2 DEF Inductive, TypeOK
    <3>2. PICK h \in Hosts : h = NextHop(syn[p])
      BY <3>1, GatewayIsHost
    <3>3. Known(h)'
      BY <1>6, <3>1, <3>2 DEF Inductive, PeersKnown
    <3>4. h = NextHop(syn[p])'
      BY <3>1, <3>2 DEF NextHop
    <3> QED BY <3>3, <3>4 DEF Known, EntriesOf
  <2>3. ASSUME NEW i \in 1..Len(unread'), (unread[i].body.kind = "synack")'
        PROVE  Known(NextHop(unread[i].body.from))'
    <3>1. /\ unread'[i] = unread[i + 1] /\ i + 1 \in 1..Len(unread)
          /\ unread[i + 1] \in Frames
      BY <1>1, <1>2, <1>3
    <3>2. unread[i + 1].body \in Bodies /\ unread[i + 1].body.kind = "synack"
      BY <2>3, <3>1 DEF Frames
    <3>3. unread[i + 1].body.from \in Hosts \cup Remote
      BY <3>2 DEF Bodies
    <3>4. PICK h \in Hosts : h = NextHop(unread[i + 1].body.from)
      BY <3>3, GatewayIsHost
    <3>5. Known(h)'
      BY <1>6, <3>1, <3>2, <3>4 DEF Inductive, PeersKnown
    <3>6. h = NextHop(unread[i].body.from)'
      BY <3>1, <3>4 DEF NextHop
    <3> QED BY <3>5, <3>6 DEF Known, EntriesOf
  <2>4. job' = "http" => /\ target' = NextHop(server)' /\ server' \in Hosts \cup Remote
                         /\ port' \in Ports
    BY <1>3 DEF Inductive, PeersKnown, NextHop
  <2>5. ASSUME established'
        PROVE  server' \in Hosts \cup Remote /\ Known(NextHop(server))'
    <3>1. server \in Hosts \cup Remote /\ Known(NextHop(server))
      <4>1. CASE established
        BY <4>1 DEF Inductive, PeersKnown
      <4>2. CASE ~established
        <5>1. body.kind = "synack" /\ body.from = server
          <6> HIDE DEF body
          <6> QED BY <1>3, <2>5, <4>2 DEF Handle, http
        <5>2. body.from \in Hosts \cup Remote
          <6> HIDE DEF body
          <6> QED BY <1>4, <5>1 DEF Bodies
        <5>3. Known(NextHop(body.from))
          <6>1. 1 \in 1..Len(unread) /\ body = unread[1].body
            BY <1>2
          <6> HIDE DEF body
          <6> QED BY <5>1, <6>1 DEF Inductive, PeersKnown
        <5> HIDE DEF body
        <5> QED BY <5>1, <5>2, <5>3
      <4> QED BY <4>1, <4>2
    <3>2. PICK h \in Hosts : h = NextHop(server)
      BY <3>1, GatewayIsHost
    <3>3. Known(h)'
      BY <1>6, <3>1, <3>2
    <3>4. h = NextHop(server)' /\ server' = server
      BY <1>3, <3>2 DEF NextHop
    <3> QED BY <3>1, <3>3, <3>4 DEF Known, EntriesOf
  <2> QED BY <2>2, <2>3, <2>4, <2>5 DEF PeersKnown
<1>9. Chained'
  <2>1. ASSUME Tail(unread) = << >> PROVE rx_buffer_pos' = card_pos
    <3>1. Len(Tail(unread)) = 0
      BY <2>1
    <3>2. Len(Tail(unread)) = Len(unread) - 1 /\ Len(unread) \in Nat
      BY <1>2
    <3>3. Len(unread) = 1
      BY <3>1, <3>2
    <3> QED BY <1>1, <1>2, <1>3, <3>3 DEF Inductive, Chained
  <2>2. ASSUME Tail(unread) # << >>
        PROVE  /\ rx_buffer_pos' = Tail(unread)[1].pos
               /\ card_pos = End(Tail(unread)[Len(Tail(unread))])
    <3>1. Len(Tail(unread)) # 0
      BY <1>2, <2>2
    <3>2. 1 \in 1..(Len(unread) - 1) /\ Len(unread) - 1 \in 1..(Len(unread) - 1)
      BY <1>2, <3>1
    <3>3. Tail(unread)[1] = unread[2] /\ Tail(unread)[Len(Tail(unread))] = unread[Len(unread)]
      <4>1. Tail(unread)[1] = unread[1 + 1]
        BY <1>2, <3>2
      <4>2. Tail(unread)[Len(unread) - 1] = unread[(Len(unread) - 1) + 1]
        BY <1>2, <3>2
      <4>3. 1 + 1 = 2 /\ (Len(unread) - 1) + 1 = Len(unread)
        BY <1>2
      <4>4. Len(Tail(unread)) = Len(unread) - 1
        BY <1>2
      <4> HIDE DEF frame
      <4> QED BY <4>1, <4>2, <4>3, <4>4
    <3>4. unread[2].pos = End(unread[1])
      <4>1. unread[1 + 1].pos = End(unread[1])
        BY <3>2 DEF Inductive, Chained
      <4> QED BY <4>1
    <3>5. rx_buffer_pos' = End(unread[1]) /\ card_pos = End(unread[Len(unread)])
      BY <1>1, <1>2, <1>3 DEF Inductive, Chained
    <3> QED BY <3>3, <3>4, <3>5
  <2>3. ASSUME NEW i \in 1..(Len(Tail(unread)) - 1)
        PROVE  Tail(unread)[i + 1].pos = End(Tail(unread)[i])
    <3>1. i + 1 \in 1..(Len(unread) - 1) /\ i \in 1..(Len(unread) - 1)
      BY <1>2
    <3>2. unread[(i + 1) + 1].pos = End(unread[i + 1])
      BY <3>1 DEF Inductive, Chained
    <3> QED BY <1>2, <3>1, <3>2
  <2> HIDE DEF frame
  <2> QED BY <1>3, <2>1, <2>2, <2>3 DEF Chained, End
<1>10. HandlerStays'
  <2>1. ~(nested > 0)
    BY <1>2 DEF Inductive, HandlerStays, PollFrame
  <2> QED BY <1>3, <2>1 DEF HandlerStays
<1> QED BY <1>6, <1>7, <1>8, <1>9, <1>10 DEF Inductive

(* The handler of the frame polls. *)
LEMMA NestedKeeps ==
  ASSUME Inductive, HandlerPolls
  PROVE  Inductive' /\ UNCHANGED cache
<1>1. UNCHANGED << ring, cache, job, target, http >>
  BY DEF HandlerPolls
<1>2. unread \in Seq(Frames) /\ unread # << >> /\ Blocks(Head(unread).body)
  BY DEF Inductive, TypeOK, Frames, HandlerPolls, AtFrame
<1>3. TypeOK'
  <2>1. processed' \in 0..MAX_POLL \cup {NoPoll}
    BY NetAssumption DEF HandlerPolls
  <2>2. nested' \in 0..MaxNested
    BY NetAssumption DEF HandlerPolls, Inductive, TypeOK
  <2> QED BY <1>1, <2>1, <2>2 DEF Inductive, TypeOK, ring, cache, http
<1>4. CacheInv' /\ Chained' /\ \A ip : Known(ip)' <=> Known(ip)
  BY <1>1 DEF Inductive, CacheInv, CacheTyped, CacheFilled, CacheIsMap, EntriesOf, Known,
              cache, Chained, ring, End, After
<1>5. PeersKnown'
  BY <1>1 DEF Inductive, PeersKnown, NextHop, http, Known, EntriesOf, cache, ring
<1>6. HandlerStays'
  <2>1. Head(unread) = unread[1]
    BY <1>2
  <2> QED BY <1>1, <1>2, <2>1 DEF HandlerStays, Blocks, NextHop, http, Known, EntriesOf, cache, ring
<1> QED BY <1>1, <1>3, <1>4, <1>5, <1>6 DEF Inductive

(* Every other step leaves the cache alone. *)
LEMMA CacheKept ==
  ASSUME CacheInv, UNCHANGED cache
  PROVE  CacheInv' /\ \A ip : Known(ip)' <=> Known(ip)
BY DEF cache, CacheInv, CacheTyped, CacheFilled, CacheIsMap, EntriesOf, Known

LEMMA ThreadKeeps ==
  ASSUME Inductive,
         \/ PollStart \/ PollBreak \/ PollEnd \/ Resolved \/ GivesUp \/ UNCHANGED vars
         \/ \E ip \in Hosts \cup Remote : Ping(ip) \/ HttpStart(ip)
  PROVE  Inductive' /\ \A h \in Hosts : Known(h) => Known(h)'
<1>1. UNCHANGED << ring, cache >>
  BY DEF PollStart, PollBreak, PollEnd, Resolved, GivesUp, Ping, HttpStart, vars
<1>2. CacheInv' /\ \A ip : Known(ip)' <=> Known(ip)
  BY <1>1, CacheKept DEF Inductive
<1>3. Chained'
  BY <1>1 DEF Inductive, Chained, ring, End, After
<1>4. TypeOK'
  <2>1. /\ job' \in {"none", "ping", "http"}
        /\ target' \in Hosts \cup {NoOne} /\ server' \in Hosts \cup Remote \cup {NoOne}
        /\ established' \in BOOLEAN
    BY GatewayIsHost
    DEF Inductive, TypeOK, PollStart, PollBreak, PollEnd, Resolved, GivesUp, Ping, HttpStart, vars, http
  <2>3. processed' \in 0..MAX_POLL \cup {NoPoll}
    BY NetAssumption
    DEF Inductive, TypeOK, PollStart, PollBreak, PollEnd, Resolved, GivesUp, Ping, HttpStart, vars
  <2>4. syn' \in [Ports -> Hosts \cup Remote \cup {NoOne}]
    <3>1. syn' = syn \/ syn' = [syn EXCEPT ![port] = server]
      BY DEF PollStart, PollBreak, PollEnd, Resolved, GivesUp, Ping, HttpStart, vars, http
    <3> QED BY <3>1 DEF Inductive, TypeOK
  <2>2. port' \in 0..MaxRequests
    BY NetAssumption
    DEF Inductive, TypeOK, PollStart, PollBreak, PollEnd, Resolved, GivesUp, Ping, HttpStart, vars, http
  <2>5. nested' \in 0..MaxNested
    BY DEF Inductive, TypeOK, PollStart, PollBreak, PollEnd, Resolved, GivesUp, Ping, HttpStart,
        vars
  <2> QED BY <1>1, <2>1, <2>2, <2>3, <2>4, <2>5 DEF Inductive, TypeOK, ring, cache
<1>5. PeersKnown'
  <2>1. ASSUME job' = "http"
        PROVE  /\ target' = NextHop(server') /\ server' \in Hosts \cup Remote
               /\ port' \in Ports
    BY <2>1, NetAssumption
    DEF Inductive, TypeOK, PeersKnown, Ports, PollStart, PollBreak, PollEnd, Resolved, GivesUp, Ping,
        HttpStart, vars, http
  <2>2. ASSUME NEW p \in Ports, syn'[p] # NoOne PROVE Known(NextHop(syn'[p]))
    BY <2>2
    DEF Inductive, TypeOK, PeersKnown, PollStart, PollBreak, PollEnd, Resolved, GivesUp, Ping, HttpStart,
        vars, http
  <2>3. unread' = unread
    BY <1>1 DEF ring
  <2>4. ASSUME NEW p \in Ports, syn'[p] # NoOne PROVE Known(NextHop(syn[p]))'
    BY <1>2, <2>2, <2>4 DEF NextHop, Known, EntriesOf
  <2>5. ASSUME NEW i \in 1..Len(unread), unread[i].body.kind = "synack"
        PROVE  Known(NextHop(unread[i].body.from))
    BY <2>5 DEF Inductive, PeersKnown
  <2>6. ASSUME established'
        PROVE  /\ established /\ server' = server
               /\ server \in Hosts \cup Remote /\ Known(NextHop(server))
    BY <2>6
    DEF Inductive, PeersKnown, PollStart, PollBreak, PollEnd, Resolved, GivesUp, Ping,
        HttpStart, vars, http
  <2>7. established' => server' \in Hosts \cup Remote /\ Known(NextHop(server))'
    BY <1>2, <2>6 DEF NextHop, Known, EntriesOf
  <2>8. ASSUME NEW i \in 1..Len(unread), unread[i].body.kind = "synack"
        PROVE  Known(NextHop(unread[i].body.from))'
    <3>1. PICK h : h = NextHop(unread[i].body.from)
      OBVIOUS
    <3>2. Known(h)'
      BY <1>2, <2>5, <2>8, <3>1
    <3>3. h = NextHop(unread[i].body.from)'
      BY <2>3, <3>1 DEF NextHop
    <3> QED BY <3>2, <3>3 DEF Known, EntriesOf
  <2> QED BY <2>1, <2>3, <2>4, <2>7, <2>8 DEF PeersKnown, NextHop
<1>6. HandlerStays'
  <2>1. nested' = nested
    BY DEF PollStart, PollBreak, PollEnd, Resolved, GivesUp, Ping, HttpStart, vars
  <2>2. ASSUME nested > 0 PROVE UNCHANGED http
    BY <2>2 DEF PollStart, PollBreak, PollEnd, Resolved, GivesUp, Ping, HttpStart, Idle, vars
  <2>3. ASSUME nested > 0 PROVE Blocks(unread[1].body)'
    <3>1. Blocks(unread[1].body)
      BY <2>3 DEF Inductive, HandlerStays
    <3> QED BY <1>1, <2>2, <2>3, <3>1 DEF Blocks, NextHop, http, Known, EntriesOf, cache, ring
  <2> QED BY <1>1, <2>1, <2>3 DEF Inductive, HandlerStays, ring
<1> QED BY <1>2, <1>3, <1>4, <1>5, <1>6 DEF Inductive

(* Card, driver and cache agree in every reachable state.                    *)
THEOREM Invariance == Spec => []Inductive
<1>1. Inductive /\ [Next]_vars => Inductive'
  <2> SUFFICES ASSUME Inductive, [Next]_vars PROVE Inductive'
    OBVIOUS
  <2>1. CASE ArpReply
    <3>1. PICK h \in Hosts : Arrives([kind |-> "arp", from |-> h])
      BY <2>1 DEF ArpReply
    <3>2. [kind |-> "arp", from |-> h] \in Bodies
      BY DEF Bodies
    <3> QED BY <3>1, <3>2, ArrivalKeeps
  <2>2. CASE OtherFrame
    <3>1. [kind |-> "other"] \in Bodies
      BY DEF Bodies
    <3> QED BY <2>2, <3>1, ArrivalKeeps DEF OtherFrame
  <2>3. CASE SynAck
    <3>1. PICK p \in Ports :
            syn[p] # NoOne /\ Arrives([kind |-> "synack", from |-> syn[p], port |-> p])
      BY <2>3 DEF SynAck
    <3>2. syn[p] \in Hosts \cup Remote /\ Known(NextHop(syn[p]))
      BY <3>1 DEF Inductive, TypeOK, PeersKnown
    <3>3. [kind |-> "synack", from |-> syn[p], port |-> p] \in Bodies
      BY <3>2 DEF Bodies
    <3> QED BY <3>1, <3>2, <3>3, ArrivalKeeps
  <2>6. CASE Segment
    <3>1. PICK p \in Ports, h \in Hosts \cup Remote :
            Arrives([kind |-> "data", from |-> h, port |-> p])
      BY <2>6 DEF Segment
    <3>2. [kind |-> "data", from |-> h, port |-> p] \in Bodies
      BY DEF Bodies
    <3> QED BY <3>1, <3>2, ArrivalKeeps
  <2>7. CASE FrameStored \/ HandlerPolls
    BY <2>7, StoredKeeps, NestedKeeps
  <2>4. CASE PollFrame
    BY <2>4, FrameKeeps
  <2>5. CASE \/ PollStart \/ PollBreak \/ PollEnd \/ Resolved \/ GivesUp \/ UNCHANGED vars
             \/ \E ip \in Hosts \cup Remote : Ping(ip) \/ HttpStart(ip)
    BY <2>5, ThreadKeeps
  <2> QED BY <2>1, <2>2, <2>3, <2>4, <2>5, <2>6, <2>7 DEF Next
<1> QED BY Initially, <1>1, PTL DEF Spec

(* For every network that fits the cache, every ring and every frame length  *)
(* the variables keep their types: the positions stay in the ring.           *)
THEOREM TypeCorrect == Spec => []TypeOK
<1>1. Inductive => TypeOK
  BY DEF Inductive
<1> QED BY <1>1, Invariance, PTL

(* rtl8139_poll and the card agree on the next frame, for ever.              *)
THEOREM StaysInSync == Spec => []InSync
<1>1. Inductive => InSync
  <2> SUFFICES ASSUME Inductive PROVE InSync
    OBVIOUS
  <2>1. unread \in Seq(Frames)
    BY DEF Inductive, TypeOK, Frames
  <2>2. unread # << >> => Head(unread) = unread[1]
    BY <2>1
  <2> QED BY <2>2 DEF Inductive, Chained, InSync
<1> QED BY <1>1, Invariance, PTL

(* store_mac_for_ip keeps one entry for each address.                        *)
THEOREM CacheStaysMap == Spec => []CacheIsMap
<1>1. Inductive => CacheIsMap
  BY DEF Inductive, CacheInv
<1> QED BY <1>1, Invariance, PTL

(* A frame for whose answer tcp_send_raw would have to wait did not come     *)
(* from the server; and a handler that polls stays with such a frame.        *)
THEOREM ServerIsAnswered == Spec => []ServerNeverBlocks
<1>1. Inductive => ServerNeverBlocks
  <2> SUFFICES ASSUME Inductive PROVE ServerNeverBlocks
    OBVIOUS
  <2>1. ASSUME NEW i \in 1..Len(unread), Blocks(unread[i].body)
        PROVE  NextHop(unread[i].body.from) # NextHop(server)
    BY <2>1 DEF Inductive, PeersKnown, Blocks
  <2>2. unread \in Seq(Frames)
    BY DEF Inductive, TypeOK, Frames
  <2>3. nested > 0 => unread # << >> /\ Blocks(Head(unread).body)
    BY <2>2 DEF Inductive, HandlerStays
  <2> QED BY <2>1, <2>3 DEF ServerNeverBlocks
<1> QED BY <1>1, Invariance, PTL

(* No known MAC is ever evicted from the round-robin cache.                  *)
THEOREM NobodyForgotten == Spec => KnownStaysKnown
<1>1. Inductive /\ [Next]_vars => [\A h \in Hosts : Known(h) => Known(h)']_vars
  <2> SUFFICES ASSUME Inductive, [Next]_vars
               PROVE  \A h \in Hosts : Known(h) => Known(h)'
    OBVIOUS
  <2>1. CASE ArpReply \/ OtherFrame \/ SynAck \/ Segment \/ FrameStored \/ HandlerPolls
    <3>1. UNCHANGED cache
      BY <2>1
      DEF ArpReply, OtherFrame, SynAck, Segment, Arrives, FrameStored, HandlerPolls
    <3> QED BY <3>1, CacheKept DEF Inductive
  <2>2. CASE PollFrame
    BY <2>2, FrameKeeps
  <2>3. CASE \/ PollStart \/ PollBreak \/ PollEnd \/ Resolved \/ GivesUp \/ UNCHANGED vars
             \/ \E ip \in Hosts \cup Remote : Ping(ip) \/ HttpStart(ip)
    BY <2>3, ThreadKeeps
  <2> QED BY <2>1, <2>2, <2>3 DEF Next
<1> QED BY <1>1, Invariance, PTL DEF Spec, KnownStaysKnown
=============================================================================
