-------------------------- MODULE HttpClientProofs --------------------------
(***************************************************************************)
(* Proofs about HttpClient, for every range of ports, every buffer and     *)
(* every length of answers: the variables keep their types; a response     *)
(* holds no byte of another request; what the client acknowledges was      *)
(* sent, until another host's segment is taken; and without repetitions    *)
(* and such segments a FIN ends the whole answer, and http_request returns *)
(* a beginning of it.                                                      *)
(***************************************************************************)
EXTENDS HttpClient, SequenceTheorems, TLAPS

Own(bytes) == \A i \in 1..Len(bytes) : bytes[i][1] = request
Mixed(bytes, n) ==
  \A i \in 1..Len(bytes) : bytes[i][1] = request \/ (n > 0 /\ bytes[i][1] = 0)

Ours(seg) == seg.port = client_port
Ignore == UNCHANGED << flags, tcp_ack, response, up >>

(* Of the server's segments tcp_handle looks only at those for the port of   *)
(* the request.                                                              *)
LEMMA ServerSegment ==
  ASSUME NEW seg, tcp_handle("server", seg)
  PROVE  /\ Ours(seg) => TakeSynAck("server", seg) \/ TakeData("server", seg)
         /\ (fin_received \in BOOLEAN /\ up \in Seq(UpSegments) /\ ~Ours(seg)) => Ignore
<1>1. ASSUME fin_received \in BOOLEAN, up \in Seq(UpSegments), ~Ours(seg) PROVE Ignore
  <2>1. TakeData("server", seg) /\ ~FromServer("server", seg) /\ ~ToOurPort(seg)
    BY <1>1 DEF tcp_handle, TakeSynAck, FromServer, ToOurPort, Ours
  <2>2. << >> \o << >> = << >> /\ up \o << >> = up
    BY <1>1, ConcatEmptySeq
  <2> QED BY <1>1, <2>1, <2>2 DEF TakeData, Ignore, flags
<1> QED BY <1>1 DEF tcp_handle

(* Whatever has to do with the client's port belongs to its request.         *)
PortIsOurs ==
  /\ pc # "idle" => client_port # 0
  /\ client_port # 0 => request # 0
  /\ \A p \in Ports :
       /\ conns[p] = Closed \/ conns[p].request # 0
       /\ p = client_port => conns[p] = Closed \/ conns[p].request = request
  /\ \A i \in 1..Len(up) : up[i].port = client_port => up[i].of = request
  /\ \A i \in 1..Len(down) : down[i].port = client_port => Own(down[i].data)

Inductive == TypeOK /\ PortIsOurs /\ NoCrossTalk

LEMMA Constants ==
  /\ FIRST_PORT \in Ports /\ 0 \notin Ports /\ Ports \subseteq Nat
  /\ BUFFER_SIZE - 1 \in Nat /\ BUFFER_SIZE \in Nat /\ max_len \in Nat /\ max_len > 0
  /\ MaxRequests \in Nat /\ MaxDisturbances \in Nat
BY HttpAssumption DEF Ports

LEMMA ClosedType == Closed \in Connections /\ Closed.request = 0 /\ Closed.sent = 0
                    /\ Closed.state = "closed"
BY Constants DEF Closed, Connections

(* Cutting a response to the buffer keeps a prefix of it. *)
LEMMA TruncatedPrefix ==
  ASSUME NEW s \in Seq(Bytes)
  PROVE  /\ Truncated(s) \in Seq(Bytes)
         /\ Len(Truncated(s)) <= BUFFER_SIZE - 1 /\ Len(Truncated(s)) <= Len(s)
         /\ \A i \in 1..Len(Truncated(s)) : Truncated(s)[i] = s[i]
<1>1. CASE Len(s) < BUFFER_SIZE
  <2>1. SubSeq(s, 1, Len(s)) = s
    OBVIOUS
  <2>2. Truncated(s) = s
    BY <1>1, <2>1 DEF Truncated
  <2> QED BY <1>1, <2>2, Constants
<1>2. CASE ~(Len(s) < BUFFER_SIZE)
  <2> DEFINE n == BUFFER_SIZE - 1
  <2>1. Truncated(s) = SubSeq(s, 1, n)
    BY <1>2 DEF Truncated
  <2>2. n \in Int /\ 0 <= n /\ n <= Len(s) /\ \A i \in 1..n : s[i] \in Bytes
    BY <1>2, Constants
  <2> HIDE DEF n
  <2>3. /\ SubSeq(s, 1, n) \in Seq(Bytes)
        /\ Len(SubSeq(s, 1, n)) = IF 1 <= n THEN n - 1 + 1 ELSE 0
        /\ \A i \in 1..(n - 1 + 1) : SubSeq(s, 1, n)[i] = s[1 + i - 1]
    BY <2>2, SubSeqProperties
  <2>4. Len(SubSeq(s, 1, n)) = n /\ \A i \in 1..n : SubSeq(s, 1, n)[i] = s[i]
    BY <2>2, <2>3
  <2> QED BY <2>1, <2>2, <2>3, <2>4 DEF n
<1> QED BY <1>1, <1>2

(* Bytes from "from" on, of request r. *)
LEMMA AnswerBytes ==
  ASSUME NEW r \in 0..MaxRequests, NEW from \in Nat \ {0}, NEW to \in Nat, from - 1 <= to
  PROVE  /\ Answer(r, from, to) \in Seq(Bytes)
         /\ \A i \in 1..Len(Answer(r, from, to)) : Answer(r, from, to)[i][1] = r
<1>1. to - from + 1 \in Nat
  OBVIOUS
<1>2. \A i \in 1..(to - from + 1) : << r, from + i - 1 >> \in Bytes
  BY DEF Bytes
<1>3. Answer(r, from, to) \in Seq(Bytes) /\ Len(Answer(r, from, to)) = to - from + 1
  BY <1>1, <1>2 DEF Answer
<1> QED BY <1>3 DEF Answer

(* The client sends segments from its port, for its request. *)
LEMMA SegmentType ==
  ASSUME Inductive, client_port # 0, NEW seq \in Nat, NEW ack \in Nat,
         NEW kind \in {"syn", "ack", "data", "fin"}
  PROVE  Segment(kind, seq, ack) \in UpSegments /\ Segment(kind, seq, ack).of = request
BY Constants DEF Inductive, TypeOK, PortIsOurs, Segment, UpSegments

LEMMA SendKeeps ==
  ASSUME Inductive, NEW segs \in Seq(UpSegments), up' = up \o segs,
         \A i \in 1..Len(segs) : segs[i].of = request
  PROVE  /\ up' \in Seq(UpSegments)
         /\ \A i \in 1..Len(up') : up'[i].port = client_port => up'[i].of = request
<1>1. up \in Seq(UpSegments)
  BY DEF Inductive, TypeOK
<1>2. /\ up' \in Seq(UpSegments) /\ Len(up') = Len(up) + Len(segs)
      /\ \A i \in 1..(Len(up) + Len(segs)) :
           up'[i] = IF i <= Len(up) THEN up[i] ELSE segs[i - Len(up)]
  BY <1>1, ConcatProperties
<1> QED BY <1>1, <1>2 DEF Inductive, PortIsOurs

-----------------------------------------------------------------------------
(* The client *)

LEMMA Initially == Init => Inductive
<1> SUFFICES ASSUME Init PROVE Inductive
  OBVIOUS
<1>1. /\ response = << >> /\ result = << >> /\ up = << >> /\ down = << >>
      /\ Len(response) = 0 /\ Len(result) = 0 /\ Len(up) = 0 /\ Len(down) = 0
  BY DEF Init
<1>2. TypeOK
  <2>1. /\ response \in Seq(Bytes) /\ result \in Seq(Bytes)
        /\ up \in Seq(UpSegments) /\ down \in Seq(DownSegments)
    BY <1>1
  <2>2. Len(response) <= BUFFER_SIZE - 1 /\ Len(result) < max_len
    BY <1>1, Constants
  <2>3. conns \in [Ports -> Connections]
    BY ClosedType DEF Init
  <2>4. /\ request \in 0..MaxRequests /\ resends \in 0..MaxDisturbances /\ next_port \in Ports
        /\ strays \in 0..MaxDisturbances
    BY Constants DEF Init
  <2> QED BY <2>1, <2>2, <2>3, <2>4 DEF Init, TypeOK
<1>3. PortIsOurs
  BY <1>1, Constants DEF Init, PortIsOurs
<1>4. NoCrossTalk
  BY <1>1 DEF NoCrossTalk
<1> QED BY <1>2, <1>3, <1>4 DEF Inductive

(* What is left of the queue of arriving segments. *)
LEMMA RestOfDown ==
  ASSUME Inductive, down # << >>
  PROVE  /\ Head(down) \in DownSegments /\ Tail(down) \in Seq(DownSegments)
         /\ Head(down).port = client_port => Own(Head(down).data)
         /\ \A i \in 1..Len(Tail(down)) :
              Tail(down)[i].port = client_port => Own(Tail(down)[i].data)
<1>1. down \in Seq(DownSegments)
  BY DEF Inductive, TypeOK
<1>2. Head(down) = down[1] /\ 1 \in 1..Len(down)
  BY <1>1
<1>3. ASSUME NEW i \in 1..Len(Tail(down))
      PROVE  Tail(down)[i] = down[i + 1] /\ i + 1 \in 1..Len(down)
  BY <1>1
<1> QED BY <1>1, <1>2, <1>3 DEF Inductive, PortIsOurs

(* The segments that TakeData sends. *)
LEMMA DataAcks ==
  ASSUME Inductive, NEW from, NEW seg \in DownSegments, TakeData(from, seg)
  PROVE  /\ tcp_ack' \in Nat /\ up' \in Seq(UpSegments)
         /\ \A i \in 1..Len(up') : up'[i].port = client_port => up'[i].of = request
<1> DEFINE hasData == ToOurPort(seg) /\ Len(seg.data) > 0
           hasFin  == ToOurPort(seg) /\ seg.fin
           ack     == IF hasData THEN AckData(seg) ELSE tcp_ack
           first   == IF hasData THEN << Segment("ack", tcp_seq, ack) >> ELSE << >>
           second  == IF hasFin THEN << Segment("ack", tcp_seq, seg.seq + 1) >> ELSE << >>
<1>1. /\ seg.seq \in Nat /\ seg.data \in Seq(Bytes) /\ tcp_seq \in Nat /\ tcp_ack \in Nat
      /\ seg.port \in Ports /\ up \in Seq(UpSegments)
  BY DEF Inductive, TypeOK, DownSegments
<1>2. ack \in Nat
  BY <1>1 DEF AckData
<1>3. /\ tcp_ack' = IF hasFin THEN seg.seq + 1 ELSE ack
      /\ up' = IF from = "server" THEN up \o (first \o second) ELSE up
  BY DEF TakeData
<1>4. hasData \/ hasFin => client_port # 0
  BY <1>1, Constants DEF ToOurPort
<1> HIDE DEF ack
<1>5. first \in Seq(UpSegments) /\ \A i \in 1..Len(first) : first[i].of = request
  BY <1>1, <1>2, <1>4, SegmentType
<1>6. second \in Seq(UpSegments) /\ \A i \in 1..Len(second) : second[i].of = request
  BY <1>1, <1>4, SegmentType
<1> HIDE DEF first, second, hasData, hasFin
<1>7. /\ first \o second \in Seq(UpSegments)
      /\ \A i \in 1..Len(first \o second) : (first \o second)[i].of = request
  <2>1. /\ first \o second \in Seq(UpSegments)
        /\ Len(first \o second) = Len(first) + Len(second)
        /\ \A i \in 1..(Len(first) + Len(second)) :
             (first \o second)[i] = IF i <= Len(first) THEN first[i] ELSE second[i - Len(first)]
    BY <1>5, <1>6, ConcatProperties
  <2> QED BY <1>5, <1>6, <2>1
<1>8. tcp_ack' \in Nat
  BY <1>1, <1>2, <1>3
<1> DEFINE segs == first \o second
<1>9. segs \in Seq(UpSegments) /\ \A i \in 1..Len(segs) : segs[i].of = request
  BY <1>7
<1>10. up' = up \o segs \/ up' = up
  BY <1>3
<1> HIDE DEF segs
<1>11. CASE up' = up \o segs
  BY <1>8, <1>9, <1>11, SendKeeps
<1>12. CASE up' = up
  BY <1>1, <1>8, <1>12 DEF Inductive, PortIsOurs
<1> QED BY <1>10, <1>11, <1>12

(* A segment, whoever sent it, leaves a response of own and marked bytes. *)
LEMMA HandleKeeps ==
  ASSUME Inductive, NEW from, NEW seg \in DownSegments, tcp_handle(from, seg),
         strays' \in Nat, strays' >= strays, request' = request,
         ToOurPort(seg) => Mixed(seg.data, strays')
  PROVE  /\ established' \in BOOLEAN /\ synack_received' \in BOOLEAN /\ fin_received' \in BOOLEAN
         /\ tcp_ack' \in Nat /\ up' \in Seq(UpSegments)
         /\ \A i \in 1..Len(up') : up'[i].port = client_port => up'[i].of = request
         /\ response' \in Seq(Bytes) /\ Len(response') <= BUFFER_SIZE - 1
         /\ NoCrossTalk'
<1>1. seg.seq \in Nat /\ seg.data \in Seq(Bytes) /\ seg.fin \in BOOLEAN /\ seg.port \in Ports
  BY DEF DownSegments
<1>2. response \in Seq(Bytes) /\ Mixed(response, strays') /\ Len(response) <= BUFFER_SIZE - 1
  <2>1. strays \in Nat
    BY Constants DEF Inductive, TypeOK
  <2> QED BY <2>1 DEF Inductive, TypeOK, NoCrossTalk, Mixed
<1>3. CASE TakeSynAck(from, seg)
  BY <1>1, <1>2, <1>3 DEF Inductive, TypeOK, PortIsOurs, TakeSynAck, NoCrossTalk, Mixed
<1>4. CASE TakeData(from, seg)
  <2>1. /\ tcp_ack' \in Nat /\ up' \in Seq(UpSegments)
        /\ \A i \in 1..Len(up') : up'[i].port = client_port => up'[i].of = request
    BY <1>4, DataAcks
  <2>2. /\ established' \in BOOLEAN /\ synack_received' \in BOOLEAN
        /\ fin_received' \in BOOLEAN
    BY <1>1, <1>4 DEF TakeData, Inductive, TypeOK
  <2>3. CASE ToOurPort(seg) /\ Len(seg.data) > 0
    <3> DEFINE both == response \o seg.data
    <3>1. response' = Truncated(both)
      BY <1>4, <2>3 DEF TakeData
    <3>2. /\ both \in Seq(Bytes) /\ Len(both) = Len(response) + Len(seg.data)
          /\ \A i \in 1..(Len(response) + Len(seg.data)) :
               both[i] = IF i <= Len(response) THEN response[i]
                         ELSE seg.data[i - Len(response)]
      BY <1>1, <1>2, ConcatProperties
    <3> HIDE DEF both
    <3>3. Mixed(both, strays')
      BY <1>1, <1>2, <2>3, <3>2 DEF Mixed
    <3>4. /\ response' \in Seq(Bytes) /\ Len(response') <= BUFFER_SIZE - 1
          /\ Len(response') <= Len(both)
          /\ \A i \in 1..Len(response') : response'[i] = both[i]
      BY <3>1, <3>2, TruncatedPrefix
    <3>5. NoCrossTalk'
      BY <3>2, <3>3, <3>4 DEF NoCrossTalk, Mixed
    <3> QED BY <2>1, <2>2, <3>4, <3>5
  <2>4. CASE ~(ToOurPort(seg) /\ Len(seg.data) > 0)
    <3>1. response' = response
      BY <1>4, <2>4 DEF TakeData
    <3> QED BY <1>2, <2>1, <2>2, <3>1 DEF NoCrossTalk, Mixed
  <2> QED BY <2>3, <2>4
<1> QED BY <1>3, <1>4 DEF tcp_handle

LEMMA PollKeeps ==
  ASSUME Inductive, Poll
  PROVE  Inductive'
<1> DEFINE seg == Head(down)
<1>1. /\ seg \in DownSegments /\ Tail(down) \in Seq(DownSegments)
      /\ seg.port = client_port => Own(seg.data)
      /\ \A i \in 1..Len(Tail(down)) : Tail(down)[i].port = client_port => Own(Tail(down)[i].data)
  BY RestOfDown DEF Poll
<1>2. /\ tcp_handle("server", seg) /\ down' = Tail(down)
      /\ UNCHANGED << pc, client_port, next_port, tcp_seq, result, request, server >>
  BY DEF Poll
<1> HIDE DEF seg
<1>3. strays' = strays /\ strays \in Nat /\ request' = request
  BY <1>2, Constants DEF server, network, Inductive, TypeOK
<1>4. ToOurPort(seg) => Mixed(seg.data, strays')
  BY <1>1 DEF ToOurPort, Own, Mixed
<1>5. strays' \in Nat /\ strays' >= strays
  BY <1>3
<1>6. /\ established' \in BOOLEAN /\ synack_received' \in BOOLEAN /\ fin_received' \in BOOLEAN
      /\ tcp_ack' \in Nat /\ up' \in Seq(UpSegments)
      /\ \A i \in 1..Len(up') : up'[i].port = client_port => up'[i].of = request
      /\ response' \in Seq(Bytes) /\ Len(response') <= BUFFER_SIZE - 1
      /\ NoCrossTalk'
  BY <1>1, <1>2, <1>3, <1>4, <1>5, HandleKeeps
<1>7. TypeOK'
  BY <1>1, <1>2, <1>6 DEF Inductive, TypeOK, server, network
<1>8. PortIsOurs'
  BY <1>1, <1>2, <1>6 DEF Inductive, PortIsOurs, server, Own
<1> QED BY <1>6, <1>7, <1>8 DEF Inductive

(* A segment of another host has marked bytes and is counted when it is taken. *)
LEMMA Stranger ==
  ASSUME Inductive, PollStranger
  PROVE  \E seg \in DownSegments :
           /\ tcp_handle("stranger", seg) /\ Mixed(seg.data, 1)
           /\ strays' \in 0..MaxDisturbances /\ strays' >= strays
           /\ ToOurPort(seg) => strays' = strays + 1
           /\ UNCHANGED << pc, client_port, next_port, tcp_seq, result, request, down, conns,
                           resends >>
<1>1. PICK p \in Ports, seq \in StrangerSeqs, syn \in BOOLEAN, fin \in BOOLEAN, n \in 0..SegmentSize :
        LET seg == Reply(p, seq, syn, fin, Answer(0, 1, n))
        IN  /\ tcp_handle("stranger", seg)
            /\ strays' = IF ToOurPort(seg) THEN strays + 1 ELSE strays
  BY DEF PollStranger
<1> DEFINE seg == Reply(p, seq, syn, fin, Answer(0, 1, n))
<1>2. n \in Nat /\ seq \in Nat /\ 0 \in 0..MaxRequests
  BY HttpAssumption
<1>3. /\ Answer(0, 1, n) \in Seq(Bytes)
      /\ \A i \in 1..Len(Answer(0, 1, n)) : Answer(0, 1, n)[i][1] = 0
  <2>1. 1 \in Nat \ {0} /\ 1 - 1 <= n
    BY <1>2
  <2> QED BY <1>2, <2>1, AnswerBytes
<1>4. seg \in DownSegments /\ seg.data = Answer(0, 1, n)
  BY <1>2, <1>3 DEF Reply, DownSegments
<1>5. Mixed(seg.data, 1)
  BY <1>3, <1>4 DEF Mixed
<1>6. /\ strays \in 0..MaxDisturbances /\ resends \in 0..MaxDisturbances
      /\ resends + strays < MaxDisturbances /\ MaxDisturbances \in Nat
  BY Constants DEF Inductive, TypeOK, PollStranger
<1>7. /\ tcp_handle("stranger", seg)
      /\ strays' = IF ToOurPort(seg) THEN strays + 1 ELSE strays
  BY <1>1
<1> HIDE DEF seg, DownSegments
<1>8. strays' \in 0..MaxDisturbances /\ strays' >= strays
  BY <1>6, <1>7
<1> QED BY <1>4, <1>5, <1>7, <1>8 DEF PollStranger

LEMMA StrangerKeeps ==
  ASSUME Inductive, PollStranger
  PROVE  Inductive'
<1>1. PICK seg \in DownSegments :
        /\ tcp_handle("stranger", seg) /\ Mixed(seg.data, 1)
        /\ strays' \in 0..MaxDisturbances /\ strays' >= strays
        /\ ToOurPort(seg) => strays' = strays + 1
        /\ UNCHANGED << pc, client_port, next_port, tcp_seq, result, request, down, conns,
                        resends >>
  BY Stranger
<1>2. strays \in Nat /\ strays' \in Nat /\ request' = request
  BY <1>1, Constants DEF Inductive, TypeOK
<1>3. ToOurPort(seg) => Mixed(seg.data, strays')
  BY <1>1, <1>2 DEF Mixed
<1>4. /\ established' \in BOOLEAN /\ synack_received' \in BOOLEAN /\ fin_received' \in BOOLEAN
      /\ tcp_ack' \in Nat /\ up' \in Seq(UpSegments)
      /\ \A i \in 1..Len(up') : up'[i].port = client_port => up'[i].of = request
      /\ response' \in Seq(Bytes) /\ Len(response') <= BUFFER_SIZE - 1
      /\ NoCrossTalk'
  BY <1>1, <1>2, <1>3, HandleKeeps
<1>5. TypeOK'
  BY <1>1, <1>4 DEF Inductive, TypeOK
<1>6. PortIsOurs'
  BY <1>1, <1>4 DEF Inductive, PortIsOurs, Own
<1> QED BY <1>4, <1>5, <1>6 DEF Inductive

LEMMA StartKeeps ==
  ASSUME Inductive, Start
  PROVE  Inductive'
<1>1. /\ pc' = "resolve" /\ request' = request + 1 /\ request' \in 1..MaxRequests
      /\ response' = << >> /\ result' = << >> /\ client_port' = next_port
      /\ PortIsQuiet(next_port)
      /\ established' = FALSE /\ synack_received' = FALSE /\ fin_received' = FALSE
      /\ UNCHANGED << tcp_seq, tcp_ack, up, down, server >>
  BY Constants DEF Start, Inductive, TypeOK
<1>2. next_port' \in Ports /\ next_port \in Ports /\ next_port # 0
  <2>1. next_port \in Ports /\ next_port # 0
    BY Constants DEF Inductive, TypeOK
  <2> QED BY <2>1, Constants, HttpAssumption DEF Start, Ports
<1>3. Len(response') = 0 /\ Len(result') = 0 /\ response' \in Seq(Bytes) /\ result' \in Seq(Bytes)
  BY <1>1
<1>4. TypeOK'
  <2>1. Len(response') <= BUFFER_SIZE - 1 /\ Len(result') < max_len /\ request' \in 0..MaxRequests
    BY <1>1, <1>3, Constants
  <2> QED BY <1>1, <1>2, <1>3, <2>1 DEF Inductive, TypeOK, server, network
<1>5. PortIsOurs'
  BY <1>1, <1>2, Constants DEF Inductive, PortIsOurs, PortIsQuiet, server, Own
<1>6. NoCrossTalk'
  BY <1>3 DEF NoCrossTalk
<1> QED BY <1>4, <1>5, <1>6 DEF Inductive

(* The other steps of http_request send at most, and keep the response. *)
LEMMA ThreadKeeps ==
  ASSUME Inductive, ResolveFails \/ SendSyn \/ SynTimeout \/ SendRequest \/ CollectOver \/ DrainOver
  PROVE  Inductive'
<1>1. /\ pc' \in {"idle", "resolve", "syn", "collect", "drain"} /\ client_port # 0
      /\ UNCHANGED << client_port, next_port, flags, response, request, down, server >>
  BY Constants
  DEF Inductive, PortIsOurs, ResolveFails, SendSyn, SynTimeout, SendRequest, CollectOver, DrainOver
<1>2. tcp_seq' \in Nat /\ tcp_ack' \in Nat
  BY DEF Inductive, TypeOK, ResolveFails, SendSyn, SynTimeout, SendRequest, CollectOver,
         DrainOver, REQUEST_LENGTH
<1>3. result' \in Seq(Bytes) /\ Len(result') < max_len
  <2>1. CASE CollectOver
    <3>1. Len(<< >>) = 0 /\ << >> \in Seq(Bytes)
      OBVIOUS
    <3>2. result' = Result
      BY <2>1 DEF CollectOver
    <3> QED BY <3>1, <3>2, Constants DEF Inductive, TypeOK, Result
  <2>2. CASE ~CollectOver
    BY <2>2 DEF Inductive, TypeOK, ResolveFails, SendSyn, SynTimeout, SendRequest, DrainOver
  <2> QED BY <2>1, <2>2
<1>4. PICK segs \in Seq(UpSegments) :
        up' = up \o segs /\ \A i \in 1..Len(segs) : segs[i].of = request
  <2>1. tcp_seq \in Nat /\ tcp_ack \in Nat /\ up \in Seq(UpSegments)
    BY DEF Inductive, TypeOK
  <2>2. CASE up' = up
    <3>1. up' = up \o << >> /\ << >> \in Seq(UpSegments) /\ Len(<< >>) = 0
      BY <2>1, <2>2, ConcatEmptySeq
    <3> WITNESS << >> \in Seq(UpSegments)
    <3> QED BY <3>1
  <2>3. ASSUME NEW seq \in Nat, NEW ack \in Nat, NEW kind \in {"syn", "ack", "data", "fin"},
               up' = Append(up, Segment(kind, seq, ack))
        PROVE  \E segs \in Seq(UpSegments) :
                 up' = up \o segs /\ \A i \in 1..Len(segs) : segs[i].of = request
    <3> DEFINE seg == Segment(kind, seq, ack)
    <3>1. seg \in UpSegments /\ seg.of = request
      BY <1>1, SegmentType
    <3> HIDE DEF seg
    <3>2. << seg >> \in Seq(UpSegments) /\ \A i \in 1..Len(<< seg >>) : << seg >>[i].of = request
      BY <3>1
    <3>3. up' = up \o << seg >>
      BY <2>1, <2>3, <3>1, AppendIsConcat DEF seg
    <3> QED BY <3>2, <3>3
  <2>4. CASE SendRequest
    <3> DEFINE a == Segment("ack", tcp_seq, tcp_ack)
               b == Segment("data", tcp_seq, tcp_ack)
    <3>1. a \in UpSegments /\ b \in UpSegments /\ a.of = request /\ b.of = request
      BY <1>1, <2>1, SegmentType
    <3>2. up' = up \o << a, b >>
      BY <2>4 DEF SendRequest
    <3> HIDE DEF a, b
    <3>3. << a, b >> \in Seq(UpSegments) /\ \A i \in 1..Len(<< a, b >>) : << a, b >>[i].of = request
      BY <3>1
    <3> QED BY <3>2, <3>3
  <2>5. CASE SendSyn
    BY <2>3, <2>5 DEF SendSyn
  <2>6. CASE CollectOver
    BY <2>1, <2>2, <2>3, <2>6 DEF CollectOver
  <2>7. CASE ResolveFails \/ SynTimeout \/ DrainOver
    BY <2>2, <2>7 DEF ResolveFails, SynTimeout, DrainOver
  <2> QED BY <2>4, <2>5, <2>6, <2>7
<1>5. /\ up' \in Seq(UpSegments)
      /\ \A i \in 1..Len(up') : up'[i].port = client_port => up'[i].of = request
  BY <1>4, SendKeeps
<1>6. TypeOK'
  BY <1>1, <1>2, <1>3, <1>5 DEF Inductive, TypeOK, flags, server, network
<1>7. PortIsOurs'
  BY <1>1, <1>5 DEF Inductive, PortIsOurs, server, Own
<1>8. NoCrossTalk'
  BY <1>1 DEF Inductive, NoCrossTalk, server, network
<1> QED BY <1>6, <1>7, <1>8 DEF Inductive

-----------------------------------------------------------------------------
(* The server *)

(* A segment that carries bytes of its connection's request arrives. *)
LEMMA ArrivalKeeps ==
  ASSUME Inductive, NEW seg \in DownSegments, down' = Append(down, seg),
         seg.port = client_port => Own(seg.data)
  PROVE  /\ down' \in Seq(DownSegments)
         /\ \A i \in 1..Len(down') : down'[i].port = client_port => Own(down'[i].data)
<1>1. down \in Seq(DownSegments)
  BY DEF Inductive, TypeOK
<1>2. /\ down' \in Seq(DownSegments) /\ Len(down') = Len(down) + 1 /\ Len(down) \in Nat
      /\ \A i \in 1..Len(down) : down'[i] = down[i]
      /\ down'[Len(down) + 1] = seg
  BY <1>1, AppendProperties
<1>3. ASSUME NEW i \in 1..Len(down'), down'[i].port = client_port PROVE Own(down'[i].data)
  <2>1. CASE i = Len(down) + 1
    BY <1>2, <1>3, <2>1
  <2>2. CASE i # Len(down) + 1
    <3>1. i \in 1..Len(down)
      BY <1>2, <2>2
    <3> QED BY <1>2, <1>3, <3>1 DEF Inductive, PortIsOurs
  <2> QED BY <2>1, <2>2
<1> QED BY <1>2, <1>3

LEMMA ServerTakesKeeps ==
  ASSUME Inductive, ServerTakes
  PROVE  Inductive'
<1> DEFINE s == Head(up)
           k == conns[s.port]
<1>1. up \in Seq(UpSegments) /\ up # << >>
  BY DEF Inductive, TypeOK, ServerTakes
<1>2. /\ s = up[1] /\ s \in UpSegments /\ up' = Tail(up) /\ up' \in Seq(UpSegments)
      /\ Len(up') = Len(up) - 1 /\ \A i \in 1..Len(up') : up'[i] = up[i + 1]
  <2>1. up' = Tail(up)
    BY DEF ServerTakes
  <2>2. s = up[1] /\ s \in UpSegments
    BY <1>1
  <2>3. /\ Tail(up) \in Seq(UpSegments) /\ Len(Tail(up)) = Len(up) - 1
        /\ \A i \in 1..Len(Tail(up)) : Tail(up)[i] = up[i + 1]
    BY <1>1, HeadTailProperties
  <2> QED BY <2>1, <2>2, <2>3
<1>3. \A i \in 1..Len(up') : up'[i].port = client_port => up'[i].of = request
  <2>1. \A i \in 1..Len(up') : i + 1 \in 1..Len(up)
    BY <1>1, <1>2
  <2> QED BY <1>2, <2>1 DEF Inductive, PortIsOurs
<1>4. s.port \in Ports /\ s.of \in 1..MaxRequests /\ s.seq \in Nat
      /\ (s.port = client_port => s.of = request)
  <2>1. 1 \in 1..Len(up)
    BY <1>1
  <2> QED BY <1>2, <2>1 DEF UpSegments, Inductive, PortIsOurs
<1>5. UNCHANGED << client, network >>
  BY DEF ServerTakes
<1>6. conns \in [Ports -> Connections] /\ k \in Connections
  BY <1>4 DEF Inductive, TypeOK
<1>7. /\ down' \in Seq(DownSegments)
      /\ \A i \in 1..Len(down') : down'[i].port = client_port => Own(down'[i].data)
      /\ \E c \in Connections :
           /\ conns' = [conns EXCEPT ![s.port] = c] /\ c.request # 0
           /\ s.port = client_port => c.request = request
         \/ conns' = conns
  <2>1. CASE /\ s.kind = "syn"
             /\ conns' = [conns EXCEPT ![s.port] = Opened(s)]
             /\ down' = Append(down, Reply(s.port, 0, TRUE, FALSE, << >>))
    <3> DEFINE c   == Opened(s)
               seg == Reply(s.port, 0, TRUE, FALSE, << >>)
    <3>1. c \in Connections /\ c.request = s.of
      <4>1. s.of \in 0..MaxRequests /\ s.seq + 1 \in Nat
        BY <1>4, Constants
      <4> HIDE DEF s
      <4> QED BY <4>1 DEF Connections, Opened
    <3>2. seg \in DownSegments /\ seg.data = << >> /\ Len(<< >>) = 0
      BY <1>4 DEF Reply, DownSegments
    <3> HIDE DEF seg, s
    <3>3. Own(seg.data)
      BY <3>2 DEF Own
    <3>4. /\ down' \in Seq(DownSegments)
          /\ \A i \in 1..Len(down') : down'[i].port = client_port => Own(down'[i].data)
      BY <2>1, <3>2, <3>3, ArrivalKeeps DEF seg
    <3>5. c.request # 0 /\ (s.port = client_port => c.request = request)
      BY <1>4, <3>1
    <3>6. conns' = [conns EXCEPT ![s.port] = c]
      BY <2>1
    <3> HIDE DEF c
    <3> QED BY <3>1, <3>4, <3>5, <3>6
  <2>2. CASE /\ k.state = "open"
             /\ \E n \in AnswerLengths :
                  conns' = [conns EXCEPT ![s.port] = [k EXCEPT !.state = "answering",
                              !.length = n, !.rcv = s.seq + REQUEST_LENGTH]]
             /\ UNCHANGED down
    <3>1. PICK n \in AnswerLengths :
            conns' = [conns EXCEPT ![s.port] = [k EXCEPT !.state = "answering",
                        !.length = n, !.rcv = s.seq + REQUEST_LENGTH]]
      BY <2>2
    <3> DEFINE c == [k EXCEPT !.state = "answering", !.length = n, !.rcv = s.seq + REQUEST_LENGTH]
    <3>2. n \in Nat /\ s.seq + REQUEST_LENGTH \in Nat
      BY <1>4, HttpAssumption DEF REQUEST_LENGTH
    <3>3. c \in Connections /\ c.request = k.request
      BY <1>6, <3>2 DEF Connections
    <3>4. k # Closed
      BY <2>2, ClosedType
    <3>5. k.request # 0 /\ (s.port = client_port => k.request = request)
      BY <1>4, <3>4 DEF Inductive, PortIsOurs
    <3>6. conns' = [conns EXCEPT ![s.port] = c]
      BY <3>1
    <3> HIDE DEF c, s
    <3> QED BY <2>2, <3>3, <3>5, <3>6 DEF Inductive, TypeOK, PortIsOurs
  <2>3. CASE UNCHANGED << conns, down >>
    BY <2>3 DEF Inductive, TypeOK, PortIsOurs
  <2> QED BY <2>1, <2>2, <2>3 DEF ServerTakes
<1>8. /\ conns' \in [Ports -> Connections]
      /\ \A p \in Ports :
           /\ conns'[p] = Closed \/ conns'[p].request # 0
           /\ p = client_port => conns'[p] = Closed \/ conns'[p].request = request
  <2> HIDE DEF s
  <2> QED BY <1>4, <1>6, <1>7 DEF Inductive, PortIsOurs
<1> HIDE DEF s
<1>9. TypeOK'
  BY <1>2, <1>5, <1>7, <1>8 DEF Inductive, TypeOK, client, flags, network
<1>10. PortIsOurs'
  BY <1>3, <1>5, <1>7, <1>8 DEF Inductive, PortIsOurs, client, flags, Own
<1>11. NoCrossTalk'
  BY <1>5 DEF Inductive, NoCrossTalk, client, network
<1> QED BY <1>9, <1>10, <1>11 DEF Inductive

(* The bytes that a server sends are those of its connection's request. *)
LEMMA ReplyIsOwn ==
  ASSUME Inductive, NEW p \in Ports, conns[p] # Closed,
         NEW from \in Nat \ {0}, NEW to \in Nat, from - 1 <= to,
         NEW seq \in Nat, NEW fin \in BOOLEAN
  PROVE  LET seg == Reply(p, seq, FALSE, fin, Answer(conns[p].request, from, to))
         IN  seg \in DownSegments /\ (seg.port = client_port => Own(seg.data))
<1> DEFINE data == Answer(conns[p].request, from, to)
           seg  == Reply(p, seq, FALSE, fin, data)
<1>1. conns[p].request \in 1..MaxRequests /\ (p = client_port => conns[p].request = request)
  <2>1. conns[p].request \in 0..MaxRequests /\ MaxRequests \in Nat
    BY Constants DEF Inductive, TypeOK, Connections
  <2>2. conns[p].request # 0 /\ (p = client_port => conns[p].request = request)
    BY DEF Inductive, PortIsOurs
  <2> QED BY <2>1, <2>2
<1>2. data \in Seq(Bytes) /\ \A i \in 1..Len(data) : data[i][1] = conns[p].request
  <2>1. conns[p].request \in 0..MaxRequests
    BY <1>1
  <2> QED BY <2>1, AnswerBytes
<1> HIDE DEF data
<1>3. seg \in DownSegments /\ seg.port = p /\ seg.data = data
  BY <1>2 DEF Reply, DownSegments
<1>4. seg.port = client_port => Own(seg.data)
  BY <1>1, <1>2, <1>3 DEF Own
<1> QED BY <1>3, <1>4 DEF data

LEMMA ServerSendsKeeps ==
  ASSUME Inductive, NEW p \in Ports, ServerSends(p) \/ ServerResends(p) \/ ServerForgets(p)
  PROVE  Inductive'
<1> DEFINE k == conns[p]
<1>1. conns \in [Ports -> Connections] /\ k \in Connections /\ UNCHANGED << client, up, strays >>
  BY DEF Inductive, TypeOK, ServerSends, ServerResends, ServerForgets, network
<1>2. k.sent \in Nat /\ k.length \in Nat
  BY <1>1 DEF Connections
<1>3. resends' \in 0..MaxDisturbances
  <2>1. /\ resends \in 0..MaxDisturbances /\ strays \in 0..MaxDisturbances
        /\ MaxDisturbances \in Nat
    BY Constants DEF Inductive, TypeOK
  <2>2. resends' = resends \/ (resends + strays < MaxDisturbances /\ resends' = resends + 1)
    BY DEF ServerSends, ServerResends, ServerForgets, network
  <2> QED BY <2>1, <2>2
<1>4. /\ down' \in Seq(DownSegments)
      /\ \A i \in 1..Len(down') : down'[i].port = client_port => Own(down'[i].data)
      /\ conns' \in [Ports -> Connections]
      /\ \A q \in Ports :
            \/ conns'[q] = Closed \/ conns'[q] = conns[q]
            \/ conns'[q].request = conns[q].request /\ conns[q] # Closed
  <2>1. CASE ServerSends(p)
    <3>1. PICK n \in 0..SegmentSize, fin \in BOOLEAN :
            /\ down' = Append(down, Reply(p, 1 + k.sent, FALSE, fin,
                                          Answer(k.request, k.sent + 1, k.sent + n)))
            /\ conns' = [conns EXCEPT ![p].sent = k.sent + n,
                                      ![p].state = IF fin THEN "finished" ELSE "answering"]
      BY <2>1 DEF ServerSends
    <3>2. k # Closed
      BY <2>1, ClosedType DEF ServerSends
    <3>3. n \in Nat
      BY HttpAssumption
    <3>4. /\ k.sent + 1 \in Nat \ {0} /\ k.sent + n \in Nat /\ 1 + k.sent \in Nat
          /\ (k.sent + 1) - 1 <= k.sent + n
      BY <1>2, <3>3
    <3> DEFINE seg == Reply(p, 1 + k.sent, FALSE, fin, Answer(k.request, k.sent + 1, k.sent + n))
    <3>5. seg \in DownSegments /\ (seg.port = client_port => Own(seg.data))
      BY <3>2, <3>4, ReplyIsOwn
    <3>6. down' = Append(down, seg)
      BY <3>1
    <3> HIDE DEF seg
    <3>7. /\ down' \in Seq(DownSegments)
          /\ \A i \in 1..Len(down') : down'[i].port = client_port => Own(down'[i].data)
      BY <3>5, <3>6, ArrivalKeeps
    <3>8. /\ conns' \in [Ports -> Connections] /\ conns'[p].request = k.request
          /\ \A q \in Ports : q # p => conns'[q] = conns[q]
      BY <1>1, <3>1, <3>4 DEF Connections
    <3> QED BY <3>2, <3>7, <3>8
  <2>2. CASE ServerResends(p)
    <3>1. /\ down' = Append(down, Reply(p, k.sent, FALSE, k.state = "finished",
                                        Answer(k.request, k.sent, k.sent)))
          /\ conns' = conns /\ k.sent > 0
      BY <2>2 DEF ServerResends
    <3>2. k # Closed
      BY <1>2, <3>1, ClosedType
    <3>3. k.sent \in Nat \ {0} /\ k.sent - 1 <= k.sent /\ (k.state = "finished") \in BOOLEAN
      BY <1>2, <3>1
    <3> DEFINE seg == Reply(p, k.sent, FALSE, k.state = "finished", Answer(k.request, k.sent, k.sent))
    <3>4. seg \in DownSegments /\ (seg.port = client_port => Own(seg.data))
      BY <3>2, <3>3, ReplyIsOwn
    <3>5. down' = Append(down, seg)
      BY <3>1
    <3> HIDE DEF seg
    <3>6. /\ down' \in Seq(DownSegments)
          /\ \A i \in 1..Len(down') : down'[i].port = client_port => Own(down'[i].data)
      BY <3>4, <3>5, ArrivalKeeps
    <3> QED BY <1>1, <3>1, <3>6
  <2>3. CASE ServerForgets(p)
    BY <1>1, <2>3, ClosedType DEF ServerForgets, Inductive, TypeOK, PortIsOurs
  <2> QED BY <2>1, <2>2, <2>3
<1>5. \A q \in Ports :
        /\ conns'[q] = Closed \/ conns'[q].request # 0
        /\ q = client_port => conns'[q] = Closed \/ conns'[q].request = request
  BY <1>4 DEF Inductive, PortIsOurs
<1>6. TypeOK'
  BY <1>1, <1>3, <1>4 DEF Inductive, TypeOK, client, flags
<1>7. PortIsOurs'
  BY <1>1, <1>4, <1>5 DEF Inductive, PortIsOurs, client, flags, Own
<1>8. NoCrossTalk'
  BY <1>1 DEF Inductive, NoCrossTalk, client
<1> QED BY <1>6, <1>7, <1>8 DEF Inductive

-----------------------------------------------------------------------------
(* The theorems *)

LEMMA InductiveStep == Inductive /\ [Next]_vars => Inductive'
<1>1. Inductive /\ UNCHANGED vars => Inductive'
  BY DEF Inductive, TypeOK, PortIsOurs, NoCrossTalk, Own, vars, client, server, network, flags
<1> QED BY <1>1, StartKeeps, ThreadKeeps, PollKeeps, StrangerKeeps, ServerTakesKeeps,
        ServerSendsKeeps DEF Next, Thread

(* Everything that concerns the client's port is of its current request.     *)
THEOREM Invariance == Spec => []Inductive
BY Initially, InductiveStep, PTL DEF Spec

(* The response always fits http_response_buffer with its final zero, and    *)
(* what http_request returns fits the caller's buffer.                       *)
THEOREM TypeCorrect == Spec => []TypeOK
<1>1. Inductive => TypeOK
  BY DEF Inductive
<1> QED BY <1>1, Invariance, PTL

(* tcp_handle adds no byte of another request's answer to a response,        *)
(* however late its segments come; what is not of its own answer came from   *)
(* another host, in a segment that was counted.                              *)
THEOREM ResponsesNeverMix == Spec => []NoCrossTalk
<1>1. Inductive => NoCrossTalk
  BY DEF Inductive
<1> QED BY <1>1, Invariance, PTL

-----------------------------------------------------------------------------
(* The connection of the current request: it exists on the server's side     *)
(* once the SYN has arrived there, and before that nothing has come back.    *)

Live == client_port # 0 /\ conns[client_port] # Closed
Here == {i \in 1..Len(down) : down[i].port = client_port}

Quiet ==
  ~Live => Here = {} /\ ~established /\ ~synack_received /\ ~fin_received /\ response = << >>

Fresh == pc = "resolve" => ~Live /\ \A i \in 1..Len(up) : up[i].port # client_port

(* A SYN under way is the only segment of its port in either direction.      *)
SynAlone ==
  \A i \in 1..Len(up) : up[i].kind = "syn" =>
    /\ conns[up[i].port] = Closed
    /\ \A j \in 1..Len(up) : up[j].port = up[i].port => j = i
    /\ \A j \in 1..Len(down) : down[j].port # up[i].port
    /\ up[i].port = client_port => tcp_ack = 0

Opening == Quiet /\ Fresh /\ SynAlone

(* A step adds segments of the client's port, none a SYN, with these acks.   *)
UpGrows(acks) ==
  /\ Len(up') \in Nat /\ Len(up') >= Len(up)
  /\ \A i \in 1..Len(up) : up'[i] = up[i]
  /\ \A i \in (Len(up) + 1)..Len(up') :
       up'[i].port = client_port /\ up'[i].kind # "syn" /\ up'[i].ack \in acks

LEMMA GrowsBy ==
  ASSUME Inductive, NEW segs \in Seq(UpSegments), up' = up \o segs, NEW acks,
         \A i \in 1..Len(segs) :
           segs[i].port = client_port /\ segs[i].kind # "syn" /\ segs[i].ack \in acks
  PROVE  UpGrows(acks)
<1>1. up \in Seq(UpSegments) /\ Len(up) \in Nat /\ Len(segs) \in Nat
  BY DEF Inductive, TypeOK
<1>2. /\ Len(up') = Len(up) + Len(segs)
      /\ \A i \in 1..(Len(up) + Len(segs)) :
           up'[i] = IF i <= Len(up) THEN up[i] ELSE segs[i - Len(up)]
  BY <1>1, ConcatProperties
<1>3. ASSUME NEW i \in (Len(up) + 1)..Len(up')
      PROVE  up'[i].port = client_port /\ up'[i].kind # "syn" /\ up'[i].ack \in acks
  <2>1. i - Len(up) \in 1..Len(segs) /\ up'[i] = segs[i - Len(up)]
    BY <1>1, <1>2
  <2> QED BY <2>1
<1> QED BY <1>1, <1>2, <1>3 DEF UpGrows

LEMMA GrowsNot ==
  ASSUME Inductive, up' = up
  PROVE  UpGrows({})
<1>1. Len(up) \in Nat
  BY DEF Inductive, TypeOK
<1> QED BY <1>1 DEF UpGrows

LEMMA OneSegment ==
  ASSUME Inductive, client_port # 0, NEW seq \in Nat, NEW ack \in Nat,
         NEW kind \in {"syn", "ack", "data", "fin"}
  PROVE  /\ Segment(kind, seq, ack) \in UpSegments
         /\ Segment(kind, seq, ack).port = client_port
         /\ Segment(kind, seq, ack).kind = kind /\ Segment(kind, seq, ack).ack = ack
BY SegmentType DEF Segment

(* What http_request sends after the SYN: its acknowledgement is tcp_ack. *)
LEMMA ThreadSends ==
  ASSUME Inductive, Quiet,
         ResolveFails \/ SynTimeout \/ SendRequest \/ CollectOver \/ DrainOver
  PROVE  (up' = up \/ Live) /\ UpGrows({tcp_ack})
<1>1. client_port # 0 /\ tcp_seq \in Nat /\ tcp_ack \in Nat /\ up \in Seq(UpSegments)
  BY DEF Inductive, PortIsOurs, TypeOK, ResolveFails, SynTimeout, SendRequest, CollectOver,
         DrainOver
<1>2. CASE up' = up
  BY <1>2, GrowsNot DEF UpGrows
<1>3. CASE SendRequest
  <2> DEFINE a == Segment("ack", tcp_seq, tcp_ack)
             b == Segment("data", tcp_seq, tcp_ack)
  <2>1. /\ a \in UpSegments /\ b \in UpSegments /\ a.port = client_port /\ b.port = client_port
        /\ a.kind # "syn" /\ b.kind # "syn" /\ a.ack = tcp_ack /\ b.ack = tcp_ack
    BY <1>1, OneSegment
  <2>2. up' = up \o << a, b >> /\ Live
    BY <1>3 DEF SendRequest, Quiet
  <2> HIDE DEF a, b
  <2>3. << a, b >> \in Seq(UpSegments) /\ Len(<< a, b >>) = 2
    BY <2>1
  <2>4. \A i \in 1..2 : << a, b >>[i] \in {a, b}
    OBVIOUS
  <2> QED BY <2>1, <2>2, <2>3, <2>4, GrowsBy
<1>4. CASE CollectOver /\ up' # up
  <2> DEFINE a == Segment("fin", tcp_seq, tcp_ack)
  <2>1. a \in UpSegments /\ a.port = client_port /\ a.kind # "syn" /\ a.ack = tcp_ack
    BY <1>1, OneSegment
  <2>2. up' = Append(up, a) /\ Live
    BY <1>4 DEF CollectOver, Quiet
  <2> HIDE DEF a
  <2>3. up' = up \o << a >> /\ << a >> \in Seq(UpSegments) /\ Len(<< a >>) = 1
    BY <1>1, <2>1, <2>2, AppendIsConcat
  <2>4. \A i \in 1..1 : << a >>[i] = a
    OBVIOUS
  <2> QED BY <2>1, <2>2, <2>3, <2>4, GrowsBy
<1> QED BY <1>2, <1>3, <1>4 DEF ResolveFails, SynTimeout, DrainOver

(* What tcp_handle sends: the number after the data, and that after a FIN. *)
Acks(seg) == {AckData(seg)} \cup (IF seg.fin THEN {seg.seq + 1} ELSE {})

LEMMA DataSends ==
  ASSUME Inductive, client_port # 0, NEW seg \in DownSegments, Ours(seg),
         TakeData("server", seg)
  PROVE  UpGrows(Acks(seg))
<1> DEFINE hasData == ToOurPort(seg) /\ Len(seg.data) > 0
           ack     == IF hasData THEN AckData(seg) ELSE tcp_ack
           first   == IF hasData THEN << Segment("ack", tcp_seq, ack) >> ELSE << >>
           second  == IF ToOurPort(seg) /\ seg.fin
                      THEN << Segment("ack", tcp_seq, seg.seq + 1) >> ELSE << >>
           good    == {g \in UpSegments : /\ g.port = client_port /\ g.kind # "syn"
                                          /\ g.ack \in Acks(seg)}
<1>1. seg.seq + 1 \in Nat /\ AckData(seg) \in Nat /\ tcp_seq \in Nat
  <2>1. seg.seq \in Nat /\ seg.data \in Seq(Bytes)
    BY DEF DownSegments
  <2> QED BY <2>1 DEF Inductive, TypeOK, AckData
<1>2. up' = up \o (first \o second)
  BY DEF TakeData
<1>3. first \in Seq(good)
  <2>1. hasData => Segment("ack", tcp_seq, ack) \in good
    BY <1>1, OneSegment DEF Acks
  <2> HIDE DEF good, hasData
  <2> QED BY <2>1
<1>4. second \in Seq(good)
  <2>1. ToOurPort(seg) /\ seg.fin => Segment("ack", tcp_seq, seg.seq + 1) \in good
    BY <1>1, OneSegment DEF Acks
  <2> HIDE DEF good
  <2> QED BY <2>1
<1> HIDE DEF first, second
<1> DEFINE segs == first \o second
<1>5. segs \in Seq(good)
  <2> HIDE DEF good
  <2> QED BY <1>3, <1>4, ConcatProperties
<1> HIDE DEF segs
<1>6. segs \in Seq(UpSegments) /\ \A i \in 1..Len(segs) : segs[i] \in good
  <2>1. \A i \in 1..Len(segs) : segs[i] \in good
    <3> HIDE DEF good
    <3> QED BY <1>5
  <2>2. good \subseteq UpSegments
    OBVIOUS
  <2> HIDE DEF good
  <2> QED BY <1>5, <2>1, <2>2
<1> QED BY <1>2, <1>6, GrowsBy DEF segs

LEMMA QueueTails ==
  ASSUME Inductive
  PROVE  /\ Len(up) \in Nat /\ Len(down) \in Nat
         /\ up # << >> => /\ 1 \in 1..Len(up) /\ Head(up) = up[1]
                          /\ Len(Tail(up)) = Len(up) - 1
                          /\ \A i \in 1..Len(Tail(up)) :
                               Tail(up)[i] = up[i + 1] /\ i + 1 \in 1..Len(up)
         /\ down # << >> => /\ 1 \in 1..Len(down) /\ Head(down) = down[1]
                            /\ Len(Tail(down)) = Len(down) - 1
                            /\ \A i \in 1..Len(Tail(down)) :
                                 Tail(down)[i] = down[i + 1] /\ i + 1 \in 1..Len(down)
<1>1. up \in Seq(UpSegments) /\ down \in Seq(DownSegments)
  BY DEF Inductive, TypeOK
<1>2. Len(up) \in Nat /\ Len(down) \in Nat
  BY <1>1
<1>3. ASSUME up # << >>
      PROVE  /\ 1 \in 1..Len(up) /\ Head(up) = up[1] /\ Len(Tail(up)) = Len(up) - 1
             /\ \A i \in 1..Len(Tail(up)) : Tail(up)[i] = up[i + 1] /\ i + 1 \in 1..Len(up)
  <2>1. Len(up) # 0
    BY <1>1, <1>3, EmptySeq
  <2> QED BY <1>1, <1>2, <1>3, <2>1, HeadTailProperties
<1>4. ASSUME down # << >>
      PROVE  /\ 1 \in 1..Len(down) /\ Head(down) = down[1] /\ Len(Tail(down)) = Len(down) - 1
             /\ \A i \in 1..Len(Tail(down)) : Tail(down)[i] = down[i + 1] /\ i + 1 \in 1..Len(down)
  <2>1. Len(down) # 0
    BY <1>1, <1>4, EmptySeq
  <2> QED BY <1>1, <1>2, <1>4, <2>1, HeadTailProperties
<1> QED BY <1>2, <1>3, <1>4

LEMMA DownGrows ==
  ASSUME Inductive, NEW seg \in DownSegments, down' = Append(down, seg)
  PROVE  /\ Len(down') = Len(down) + 1 /\ Len(down) \in Nat /\ down'[Len(down) + 1] = seg
         /\ \A i \in 1..Len(down) : down'[i] = down[i]
         /\ Here' = IF seg.port = client_port' THEN {i \in 1..Len(down) : down[i].port = client_port'}
                                                    \cup {Len(down) + 1}
                   ELSE {i \in 1..Len(down) : down[i].port = client_port'}
<1>1. down \in Seq(DownSegments)
  BY DEF Inductive, TypeOK
<1>2. /\ Len(down') = Len(down) + 1 /\ Len(down) \in Nat /\ down'[Len(down) + 1] = seg
      /\ \A i \in 1..Len(down) : down'[i] = down[i]
  BY <1>1, AppendProperties
<1>3. 1..Len(down') = 1..Len(down) \cup {Len(down) + 1}
  BY <1>2
<1> HIDE DEF DownSegments
<1>4. Here' = {i \in 1..Len(down) \cup {Len(down) + 1} : down'[i].port = client_port'}
  BY <1>3 DEF Here
<1> QED BY <1>2, <1>4

(* What the server does with the first segment that waits for it. *)
LEMMA TakesProps ==
  ASSUME Inductive, ServerTakes
  PROVE  \E s \in UpSegments :
           /\ up # << >> /\ s = up[1] /\ up' = Tail(up) /\ s.port \in Ports
           /\ UNCHANGED << client, network >>
           /\ \/ /\ s.kind = "syn" /\ conns' = [conns EXCEPT ![s.port] = Opened(s)]
                 /\ down' = Append(down, Reply(s.port, 0, TRUE, FALSE, << >>))
              \/ /\ conns[s.port].state = "open"
                 /\ \E n \in AnswerLengths :
                      conns' = [conns EXCEPT ![s.port] = [conns[s.port] EXCEPT !.state = "answering",
                                  !.length = n, !.rcv = s.seq + REQUEST_LENGTH]]
                 /\ UNCHANGED down
              \/ UNCHANGED << conns, down >>
<1>1. up \in Seq(UpSegments) /\ up # << >> /\ 1 \in 1..Len(up) /\ Head(up) = up[1]
  BY QueueTails DEF ServerTakes, Inductive, TypeOK
<1>2. up[1] \in UpSegments
  BY <1>1
<1>3. up[1].port \in Ports
  BY <1>2 DEF UpSegments
<1> HIDE DEF UpSegments
<1> WITNESS up[1] \in UpSegments
<1> QED BY <1>1, <1>3 DEF ServerTakes

LEMMA ReplyOpen ==
  ASSUME NEW p \in Ports
  PROVE  /\ Reply(p, 0, TRUE, FALSE, << >>) \in DownSegments
         /\ Reply(p, 0, TRUE, FALSE, << >>).port = p
         /\ Reply(p, 0, TRUE, FALSE, << >>).seq = 0
         /\ Reply(p, 0, TRUE, FALSE, << >>).syn /\ ~Reply(p, 0, TRUE, FALSE, << >>).fin
         /\ Reply(p, 0, TRUE, FALSE, << >>).data = << >>
BY DEF Reply, DownSegments

LEMMA OpenedProps ==
  ASSUME NEW s
  PROVE  Opened(s) # Closed /\ Opened(s).sent = 0 /\ Opened(s).state = "open"
BY DEF Opened, Closed

(* What the server sends on a connection that is open. *)
LEMMA SendsProps ==
  ASSUME Inductive, NEW p \in Ports, ServerSends(p)
  PROVE  \E n \in Nat, fin \in BOOLEAN, seg \in DownSegments :
           LET k == conns[p]
           IN  /\ k.state = "answering" /\ k.sent \in Nat
               /\ fin => k.sent + n = k.length
               /\ seg = Reply(p, 1 + k.sent, FALSE, fin, Answer(k.request, k.sent + 1, k.sent + n))
               /\ down' = Append(down, seg)
               /\ conns' = [conns EXCEPT ![p].sent = k.sent + n,
                                         ![p].state = IF fin THEN "finished" ELSE "answering"]
               /\ UNCHANGED << client, up, network >>
<1> DEFINE k == conns[p]
<1>1. PICK n \in 0..SegmentSize, fin \in BOOLEAN :
        /\ fin => k.sent + n = k.length
        /\ down' = Append(down, Reply(p, 1 + k.sent, FALSE, fin,
                                      Answer(k.request, k.sent + 1, k.sent + n)))
        /\ conns' = [conns EXCEPT ![p].sent = k.sent + n,
                                  ![p].state = IF fin THEN "finished" ELSE "answering"]
  BY DEF ServerSends
<1>2. k \in Connections /\ k.sent \in Nat
  BY DEF Inductive, TypeOK, Connections
<1>3. n \in Nat
  BY HttpAssumption
<1>4. k # Closed /\ k.state = "answering" /\ UNCHANGED << client, up, network >>
  BY ClosedType DEF ServerSends
<1> DEFINE seg == Reply(p, 1 + k.sent, FALSE, fin, Answer(k.request, k.sent + 1, k.sent + n))
<1>5. seg \in DownSegments
  <2>1. /\ k.sent + 1 \in Nat \ {0} /\ k.sent + n \in Nat /\ 1 + k.sent \in Nat
        /\ (k.sent + 1) - 1 <= k.sent + n
    BY <1>2, <1>3
  <2> QED BY <1>4, <2>1, ReplyIsOwn
<1> HIDE DEF DownSegments
<1> QED BY <1>1, <1>2, <1>3, <1>4, <1>5

LEMMA ResendsProps ==
  ASSUME Inductive, NEW p \in Ports, ServerResends(p)
  PROVE  \E seg \in DownSegments :
           LET k == conns[p]
           IN  /\ k # Closed /\ k.sent \in Nat /\ k.sent > 0
               /\ seg = Reply(p, k.sent, FALSE, k.state = "finished", Answer(k.request, k.sent, k.sent))
               /\ down' = Append(down, seg)
               /\ resends' = resends + 1
               /\ UNCHANGED << client, up, conns, strays >>
<1> DEFINE k == conns[p]
<1>1. k \in Connections /\ k.sent \in Nat /\ k.sent > 0
  BY DEF Inductive, TypeOK, Connections, ServerResends
<1>2. k # Closed
  BY <1>1, ClosedType
<1> DEFINE seg == Reply(p, k.sent, FALSE, k.state = "finished", Answer(k.request, k.sent, k.sent))
<1>3. seg \in DownSegments
  <2>1. k.sent \in Nat \ {0} /\ k.sent - 1 <= k.sent /\ (k.state = "finished") \in BOOLEAN
    BY <1>1
  <2> QED BY <1>2, <2>1, ReplyIsOwn
<1> HIDE DEF DownSegments
<1> QED BY <1>1, <1>2, <1>3 DEF ServerResends

LEMMA OpeningInit == Init => Opening
<1> SUFFICES ASSUME Init PROVE Opening
  OBVIOUS
<1>1. up = << >> /\ down = << >> /\ Len(up) = 0 /\ Len(down) = 0
  BY DEF Init
<1> QED BY <1>1 DEF Init, Opening, Quiet, Fresh, SynAlone, Here, Live

LEMMA OpeningStart ==
  ASSUME Inductive, Opening, Start
  PROVE  Opening' /\ ~Live'
<1>1. /\ client_port' = next_port /\ PortIsQuiet(next_port)
      /\ established' = FALSE /\ synack_received' = FALSE /\ fin_received' = FALSE
      /\ response' = << >> /\ UNCHANGED << tcp_ack, up, down, conns >>
  BY DEF Start, server
<1>2. ~Live' /\ Here' = {} /\ \A i \in 1..Len(up') : up'[i].port # client_port'
  BY <1>1 DEF Live, Here, PortIsQuiet
<1>3. SynAlone'
  BY <1>1, <1>2 DEF Opening, SynAlone
<1> QED BY <1>1, <1>2, <1>3 DEF Opening, Quiet, Fresh

LEMMA OpeningSyn ==
  ASSUME Inductive, Opening, SendSyn
  PROVE  Opening' /\ ~Live /\ ~Live'
<1>1. /\ ~Live /\ client_port # 0 /\ conns[client_port] = Closed
      /\ \A i \in 1..Len(up) : up[i].port # client_port
      /\ \A i \in 1..Len(down) : down[i].port # client_port
  BY DEF SendSyn, Opening, Fresh, Quiet, Here, Inductive, PortIsOurs, Live
<1>2. /\ pc' = "syn" /\ up' = Append(up, Segment("syn", 1, 0)) /\ tcp_ack' = 0
      /\ UNCHANGED << client_port, flags, response, down, conns >>
  BY DEF SendSyn, server
<1>3. /\ Segment("syn", 1, 0) \in UpSegments /\ Segment("syn", 1, 0).port = client_port
  BY <1>1, OneSegment
<1>4. up \in Seq(UpSegments)
  BY DEF Inductive, TypeOK
<1>5. /\ Len(up') = Len(up) + 1 /\ Len(up) \in Nat /\ up'[Len(up) + 1].port = client_port
      /\ \A i \in 1..Len(up) : up'[i] = up[i]
  <2> HIDE DEF UpSegments
  <2> QED BY <1>2, <1>3, <1>4, AppendProperties
<1>6. ~Live' /\ Here' = Here
  BY <1>1, <1>2 DEF Live, Here
<1>7. \A i \in 1..Len(up') : i \in 1..Len(up) \/ i = Len(up) + 1
  BY <1>5
<1>8. SynAlone'
  BY <1>1, <1>2, <1>5, <1>7 DEF Opening, SynAlone
<1> QED BY <1>1, <1>2, <1>6, <1>8 DEF Opening, Quiet, Fresh, flags

LEMMA OpeningThread ==
  ASSUME Inductive, Opening,
         ResolveFails \/ SynTimeout \/ SendRequest \/ CollectOver \/ DrainOver
  PROVE  Opening' /\ Live' = Live /\ Here' = Here
<1>1. /\ pc' # "resolve" /\ UNCHANGED << client_port, flags, tcp_ack, response, down, conns >>
  BY DEF ResolveFails, SynTimeout, SendRequest, CollectOver, DrainOver, flags, server
<1>2. (up' = up \/ Live) /\ UpGrows({tcp_ack})
  BY ThreadSends DEF Opening
<1>3. Live' = Live /\ Here' = Here
  BY <1>1 DEF Live, Here
<1>4. Len(up) \in Nat
  BY QueueTails
<1>5. ASSUME NEW i \in 1..Len(up'), up'[i].kind = "syn"
      PROVE  /\ conns[up'[i].port] = Closed
             /\ \A j \in 1..Len(up') : up'[j].port = up'[i].port => j = i
             /\ \A j \in 1..Len(down) : down[j].port # up'[i].port
             /\ up'[i].port = client_port => tcp_ack = 0
  <2>1. i \in 1..Len(up) /\ up'[i] = up[i]
    BY <1>2, <1>4, <1>5 DEF UpGrows
  <2>2. \A j \in 1..Len(up') : j \in 1..Len(up) \/ up'[j].port = client_port
    BY <1>2, <1>4 DEF UpGrows
  <2>3. up' = up \/ up[i].port # client_port
    BY <1>2, <1>5, <2>1 DEF Opening, SynAlone, Live
  <2>4. \A j \in 1..Len(up) : up'[j] = up[j]
    BY <1>2 DEF UpGrows
  <2> QED BY <1>5, <2>1, <2>2, <2>3, <2>4 DEF Opening, SynAlone
<1>6. SynAlone'
  BY <1>1, <1>5 DEF SynAlone
<1> QED BY <1>1, <1>3, <1>6 DEF Opening, Quiet, Fresh, flags

(* An arriving segment of the client's port belongs to its connection. *)
LEMMA HeadIsLive ==
  ASSUME Inductive, Opening, Poll, Ours(Head(down))
  PROVE  Live /\ Head(down) \in DownSegments /\ client_port # 0 /\ client_port \in Ports
<1>1. 1 \in 1..Len(down) /\ Head(down) = down[1] /\ down \in Seq(DownSegments)
  BY QueueTails DEF Poll, Inductive, TypeOK
<1>2. 1 \in Here
  BY <1>1 DEF Here, Ours
<1>3. Live
  BY <1>2 DEF Opening, Quiet
<1> QED BY <1>1, <1>3 DEF Live, Inductive, TypeOK

LEMMA PollHere ==
  ASSUME Inductive, Poll
  PROVE  Here' = {i \in 1..(Len(down) - 1) : i + 1 \in Here} /\ Len(down') = Len(down) - 1
<1>1. down' = Tail(down) /\ client_port' = client_port /\ down # << >>
  BY DEF Poll
<1>2. /\ Len(Tail(down)) = Len(down) - 1 /\ Len(down) \in Nat
      /\ \A i \in 1..Len(Tail(down)) : Tail(down)[i] = down[i + 1] /\ i + 1 \in 1..Len(down)
  BY <1>1, QueueTails
<1> QED BY <1>1, <1>2 DEF Here

LEMMA OpeningPoll ==
  ASSUME Inductive, Opening, Poll
  PROVE  Opening' /\ Live' = Live
<1>1. /\ tcp_handle("server", Head(down)) /\ down' = Tail(down) /\ down # << >>
      /\ UNCHANGED << pc, client_port, conns >>
  BY DEF Poll, server
<1>2. Live' = Live
  BY <1>1 DEF Live
<1>3. \A j \in 1..Len(down') : \E m \in 1..Len(down) : down'[j] = down[m]
  BY <1>1, QueueTails
<1>4. CASE Ours(Head(down))
  <2>1. Live /\ Head(down) \in DownSegments /\ client_port # 0
    BY <1>4, HeadIsLive
  <2>2. (UpGrows({}) /\ up' = up) \/ UpGrows(Acks(Head(down)))
    BY <1>1, <1>4, <2>1, ServerSegment, DataSends, GrowsNot DEF TakeSynAck
  <2>3. /\ Len(up) \in Nat /\ \A i \in 1..Len(up) : up'[i] = up[i]
        /\ \A i \in 1..Len(up') : i \in 1..Len(up) \/ (up'[i].port = client_port /\ up'[i].kind # "syn")
    BY <2>2, QueueTails DEF UpGrows
  <2>4. \A i \in 1..Len(up) : up[i].kind = "syn" => up[i].port # client_port
    BY <2>1 DEF Opening, SynAlone, Live
  <2>5. SynAlone'
    BY <1>1, <1>3, <2>3, <2>4 DEF Opening, SynAlone
  <2>6. pc # "resolve"
    BY <2>1 DEF Opening, Fresh
  <2> QED BY <1>1, <1>2, <2>1, <2>5, <2>6 DEF Opening, Quiet, Fresh
<1>5. CASE ~Ours(Head(down))
  <2>1. UNCHANGED << flags, tcp_ack, response, up >>
    BY <1>1, <1>5, ServerSegment DEF Ignore, Inductive, TypeOK
  <2>2. Here = {} => Here' = {}
    BY PollHere
  <2>3. SynAlone'
    BY <1>1, <1>3, <2>1 DEF Opening, SynAlone
  <2> QED BY <1>1, <1>2, <2>1, <2>2, <2>3 DEF Opening, Quiet, Fresh, flags
<1> QED BY <1>2, <1>4, <1>5

LEMMA OpeningTakes ==
  ASSUME Inductive, Opening, ServerTakes
  PROVE  Opening'
<1>1. PICK s \in UpSegments :
        /\ up # << >> /\ s = up[1] /\ up' = Tail(up) /\ s.port \in Ports
        /\ UNCHANGED << client, network >>
        /\ \/ /\ s.kind = "syn" /\ conns' = [conns EXCEPT ![s.port] = Opened(s)]
              /\ down' = Append(down, Reply(s.port, 0, TRUE, FALSE, << >>))
           \/ /\ conns[s.port].state = "open"
              /\ \E n \in AnswerLengths :
                   conns' = [conns EXCEPT ![s.port] = [conns[s.port] EXCEPT !.state = "answering",
                               !.length = n, !.rcv = s.seq + REQUEST_LENGTH]]
              /\ UNCHANGED down
           \/ UNCHANGED << conns, down >>
  BY TakesProps
<1>2. UNCHANGED << pc, client_port, established, synack_received, fin_received, tcp_ack, response >>
  BY <1>1 DEF client, flags
<1>3. /\ 1 \in 1..Len(up) /\ Len(up) \in Nat /\ Len(up') = Len(up) - 1
      /\ \A i \in 1..Len(up') : up'[i] = up[i + 1] /\ i + 1 \in 1..Len(up) /\ i + 1 # 1
  <2>1. \A i \in 1..Len(Tail(up)) : i + 1 # 1
    OBVIOUS
  <2> QED BY <1>1, <2>1, QueueTails
<1>4. conns \in [Ports -> Connections] /\ (client_port # 0 => client_port \in Ports)
  BY DEF Inductive, TypeOK
<1>5. CASE /\ s.kind = "syn" /\ conns' = [conns EXCEPT ![s.port] = Opened(s)]
           /\ down' = Append(down, Reply(s.port, 0, TRUE, FALSE, << >>))
  <2>1. /\ conns[s.port] = Closed
        /\ \A j \in 1..Len(up) : up[j].port = s.port => j = 1
    BY <1>1, <1>3, <1>5 DEF Opening, SynAlone
  <2>2. \A i \in 1..Len(up') : up'[i].port # s.port
    BY <1>3, <2>1
  <2>3. \A q \in Ports \ {s.port} : conns'[q] = conns[q]
    BY <1>4, <1>5
  <2>4. conns'[s.port] # Closed
    BY <1>1, <1>4, <1>5, OpenedProps
  <2> DEFINE seg == Reply(s.port, 0, TRUE, FALSE, << >>)
  <2>5. seg \in DownSegments /\ seg.port = s.port /\ down' = Append(down, seg)
    BY <1>1, <1>5, ReplyOpen
  <2> HIDE DEF seg
  <2>6. /\ Len(down') = Len(down) + 1 /\ Len(down) \in Nat /\ down'[Len(down) + 1] = seg
        /\ \A i \in 1..Len(down) : down'[i] = down[i]
        /\ s.port # client_port => Here' = Here
    BY <1>2, <2>5, DownGrows DEF Here
  <2>7. ASSUME s.port = client_port PROVE (Quiet /\ Fresh)'
    <3>1. Live'
      BY <1>1, <1>2, <2>4, <2>7, Constants DEF Live
    <3>2. pc # "resolve"
      BY <1>1, <1>3, <2>7 DEF Opening, Fresh
    <3>3. Quiet' /\ Fresh'
      BY <1>2, <3>1, <3>2 DEF Quiet, Fresh
    <3> QED BY <3>3
  <2>8. ASSUME s.port # client_port PROVE (Quiet /\ Fresh)'
    <3>1. Live' = Live
      BY <1>2, <1>4, <2>3, <2>8 DEF Live
    <3>2. Quiet' /\ Fresh'
      BY <1>2, <1>3, <2>6, <2>8, <3>1 DEF Opening, Quiet, Fresh
    <3> QED BY <3>2
  <2>9. SynAlone'
    <3>1. SUFFICES ASSUME NEW i \in 1..Len(up'), up'[i].kind = "syn"
                   PROVE  /\ conns'[up'[i].port] = Closed
                          /\ \A j \in 1..Len(up') : up'[j].port = up'[i].port => j = i
                          /\ \A j \in 1..Len(down') : down'[j].port # up'[i].port
                          /\ up'[i].port = client_port' => tcp_ack' = 0
      BY DEF SynAlone
    <3>2. i + 1 \in 1..Len(up) /\ up'[i] = up[i + 1] /\ up[i + 1].port # s.port
      BY <1>3, <2>2
    <3>3. up[i + 1].port \in Ports
      <4>1. up \in Seq(UpSegments)
        BY DEF Inductive, TypeOK
      <4>2. up[i + 1] \in UpSegments
        BY <3>2, <4>1
      <4> QED BY <4>2 DEF UpSegments
    <3>4. \A j \in 1..Len(down') : j \in 1..Len(down) \/ down'[j].port = s.port
      BY <2>5, <2>6
    <3>5. \A j \in 1..Len(up') : up'[j].port = up'[i].port => j + 1 = i + 1
      BY <1>3, <3>1, <3>2 DEF Opening, SynAlone
    <3>6. \A j \in 1..Len(up') : j + 1 = i + 1 => j = i
      BY <1>3
    <3>7. /\ conns[up[i + 1].port] = Closed
          /\ \A j \in 1..Len(down) : down[j].port # up[i + 1].port
          /\ up[i + 1].port = client_port => tcp_ack = 0
      BY <3>1, <3>2 DEF Opening, SynAlone
    <3>8. \A j \in 1..Len(down') : down'[j].port # up[i + 1].port
      BY <2>6, <3>2, <3>4, <3>7
    <3> QED BY <1>2, <2>3, <3>2, <3>3, <3>5, <3>6, <3>7, <3>8
  <2> QED BY <2>7, <2>8, <2>9 DEF Opening
<1>6. CASE UNCHANGED down /\ \A q \in Ports : conns'[q] = Closed <=> conns[q] = Closed
  <2>1. Live' = Live /\ Here' = Here
    BY <1>2, <1>4, <1>6 DEF Live, Here
  <2>2. Quiet' /\ Fresh'
    BY <1>2, <1>3, <2>1 DEF Opening, Quiet, Fresh
  <2>3. SynAlone'
    <3>1. SUFFICES ASSUME NEW i \in 1..Len(up'), up'[i].kind = "syn"
                   PROVE  /\ conns'[up'[i].port] = Closed
                          /\ \A j \in 1..Len(up') : up'[j].port = up'[i].port => j = i
                          /\ \A j \in 1..Len(down') : down'[j].port # up'[i].port
                          /\ up'[i].port = client_port' => tcp_ack' = 0
      BY DEF SynAlone
    <3>2. i + 1 \in 1..Len(up) /\ up'[i] = up[i + 1]
      BY <1>3
    <3>3. up[i + 1].port \in Ports
      <4>1. up \in Seq(UpSegments)
        BY DEF Inductive, TypeOK
      <4>2. up[i + 1] \in UpSegments
        BY <3>2, <4>1
      <4> QED BY <4>2 DEF UpSegments
    <3>5. \A j \in 1..Len(up') : up'[j].port = up'[i].port => j + 1 = i + 1
      BY <1>3, <3>1, <3>2 DEF Opening, SynAlone
    <3>6. \A j \in 1..Len(up') : j + 1 = i + 1 => j = i
      BY <1>3
    <3>7. /\ conns[up[i + 1].port] = Closed
          /\ \A j \in 1..Len(down) : down[j].port # up[i + 1].port
          /\ up[i + 1].port = client_port => tcp_ack = 0
      BY <3>1, <3>2 DEF Opening, SynAlone
    <3> QED BY <1>2, <1>6, <3>2, <3>3, <3>5, <3>6, <3>7
  <2> QED BY <2>2, <2>3 DEF Opening
<1>7. CASE /\ conns[s.port].state = "open"
           /\ \E n \in AnswerLengths :
                conns' = [conns EXCEPT ![s.port] = [conns[s.port] EXCEPT !.state = "answering",
                            !.length = n, !.rcv = s.seq + REQUEST_LENGTH]]
           /\ UNCHANGED down
  <2>1. conns'[s.port].state = "answering" /\ \A q \in Ports \ {s.port} : conns'[q] = conns[q]
    <3> DEFINE k == conns[s.port]
    <3>1. PICK n \in AnswerLengths :
            conns' = [conns EXCEPT ![s.port] = [k EXCEPT !.state = "answering",
                        !.length = n, !.rcv = s.seq + REQUEST_LENGTH]]
      BY <1>7
    <3> DEFINE c == [k EXCEPT !.state = "answering", !.length = n, !.rcv = s.seq + REQUEST_LENGTH]
    <3>2. k \in Connections
      BY <1>1, <1>4
    <3>3. c.state = "answering"
      BY <3>2 DEF Connections
    <3>4. conns' = [conns EXCEPT ![s.port] = c]
      BY <3>1
    <3> HIDE DEF c, k
    <3> QED BY <1>1, <1>4, <3>3, <3>4
  <2>2. \A q \in Ports : conns'[q] = Closed <=> conns[q] = Closed
    BY <1>7, <2>1, ClosedType
  <2> QED BY <1>6, <1>7, <2>2
<1> QED BY <1>1, <1>5, <1>6, <1>7

LEMMA OpeningSends ==
  ASSUME Inductive, Opening, NEW p \in Ports, ServerSends(p) \/ ServerResends(p) \/ ServerForgets(p)
  PROVE  Opening' /\ Live' = Live
<1>1. /\ UNCHANGED << pc, client_port, established, synack_received, fin_received, tcp_ack,
                       response, up >>
      /\ conns \in [Ports -> Connections] /\ (client_port # 0 => client_port \in Ports)
  BY DEF ServerSends, ServerResends, ServerForgets, client, flags, Inductive, TypeOK
<1>2. ASSUME NEW seg \in DownSegments, seg.port = p, down' = Append(down, seg), conns[p] # Closed,
             \A q \in Ports : conns'[q] = Closed <=> conns[q] = Closed
      PROVE  Opening' /\ Live' = Live
  <2>1. Live' = Live
    BY <1>1, <1>2 DEF Live
  <2>2. /\ Len(down') = Len(down) + 1 /\ Len(down) \in Nat /\ down'[Len(down) + 1] = seg
        /\ \A i \in 1..Len(down) : down'[i] = down[i]
        /\ p # client_port => Here' = Here
    BY <1>1, <1>2, DownGrows DEF Here
  <2>3. Quiet' /\ Fresh'
    BY <1>1, <1>2, <2>1, <2>2, Constants DEF Opening, Quiet, Fresh, Live
  <2>4. \A j \in 1..Len(down') : j \in 1..Len(down) \/ down'[j].port = p
    BY <1>2, <2>2
  <2>5. up \in Seq(UpSegments)
    BY DEF Inductive, TypeOK
  <2>6. \A i \in 1..Len(up) : up[i].port \in Ports
    <3>1. \A i \in 1..Len(up) : up[i] \in UpSegments
      BY <2>5
    <3> QED BY <3>1 DEF UpSegments
  <2>7. SynAlone'
    BY <1>1, <1>2, <2>2, <2>4, <2>6 DEF Opening, SynAlone
  <2> QED BY <2>1, <2>3, <2>7 DEF Opening
<1>3. CASE ServerSends(p)
  <2>1. PICK n \in Nat, fin \in BOOLEAN, seg \in DownSegments :
          LET k == conns[p]
          IN  /\ k.state = "answering" /\ k.sent \in Nat
              /\ fin => k.sent + n = k.length
              /\ seg = Reply(p, 1 + k.sent, FALSE, fin, Answer(k.request, k.sent + 1, k.sent + n))
              /\ down' = Append(down, seg)
              /\ conns' = [conns EXCEPT ![p].sent = k.sent + n,
                                        ![p].state = IF fin THEN "finished" ELSE "answering"]
              /\ UNCHANGED << client, up, network >>
    BY <1>3, SendsProps
  <2>2. seg.port = p /\ conns[p] # Closed
    BY <2>1, ClosedType DEF Reply
  <2>3. conns'[p].state # "closed" /\ \A q \in Ports \ {p} : conns'[q] = conns[q]
    BY <1>1, <2>1 DEF Connections
  <2>4. \A q \in Ports : conns'[q] = Closed <=> conns[q] = Closed
    BY <2>2, <2>3, ClosedType
  <2> QED BY <1>2, <2>1, <2>2, <2>4
<1>4. CASE ServerResends(p)
  <2>1. PICK seg \in DownSegments :
          /\ conns[p] # Closed /\ down' = Append(down, seg) /\ conns' = conns
          /\ seg = Reply(p, conns[p].sent, FALSE, conns[p].state = "finished",
                         Answer(conns[p].request, conns[p].sent, conns[p].sent))
    BY <1>4, ResendsProps
  <2>2. seg.port = p
    BY <2>1 DEF Reply
  <2> QED BY <1>2, <2>1, <2>2
<1>5. CASE ServerForgets(p)
  <2>1. /\ p # client_port /\ conns' = [conns EXCEPT ![p] = Closed] /\ down' = down
    BY <1>5 DEF ServerForgets
  <2>2. Live' = Live /\ Here' = Here
    BY <1>1, <2>1 DEF Live, Here
  <2>3. \A q : conns[q] = Closed => conns'[q] = Closed
    BY <1>1, <2>1
  <2>4. SynAlone'
    BY <1>1, <2>1, <2>3 DEF Opening, SynAlone
  <2> QED BY <1>1, <2>2, <2>4 DEF Opening, Quiet, Fresh
<1> QED BY <1>3, <1>4, <1>5

(* A segment of another host finds no connection unless there is one: all it *)
(* can change is the response and the number to acknowledge.                 *)
LEMMA OpeningStranger ==
  ASSUME Inductive, Opening, PollStranger
  PROVE  Opening' /\ Live' = Live
<1>1. PICK seg \in DownSegments :
        /\ tcp_handle("stranger", seg) /\ Mixed(seg.data, 1)
        /\ strays' \in 0..MaxDisturbances /\ strays' >= strays
        /\ ToOurPort(seg) => strays' = strays + 1
        /\ UNCHANGED << pc, client_port, next_port, tcp_seq, result, request, down, conns,
                        resends >>
  BY Stranger
<1>2. TakeData("stranger", seg)
  BY <1>1 DEF tcp_handle, TakeSynAck, FromServer
<1>3. UNCHANGED << established, synack_received, up >>
  BY <1>2 DEF TakeData
<1>4. Live' = Live /\ Here' = Here
  BY <1>1 DEF Live, Here
<1>5. CASE Live
  <2>1. \A i \in 1..Len(up) : up[i].kind = "syn" => up[i].port # client_port
    BY <1>5 DEF Opening, SynAlone, Live
  <2>2. SynAlone'
    BY <1>1, <1>3, <2>1 DEF Opening, SynAlone
  <2> QED BY <1>1, <1>3, <1>4, <1>5, <2>2 DEF Opening, Quiet, Fresh
<1>6. CASE ~Live
  <2>1. fin_received \in BOOLEAN
    BY DEF Inductive, TypeOK
  <2>2. UNCHANGED << fin_received, tcp_ack, response >>
    BY <1>2, <1>6, <2>1 DEF TakeData, FromServer, ToOurPort, Opening, Quiet
  <2>3. SynAlone'
    BY <1>1, <1>3, <2>2 DEF Opening, SynAlone
  <2> QED BY <1>1, <1>3, <1>4, <2>2, <2>3 DEF Opening, Quiet, Fresh
<1> QED BY <1>4, <1>5, <1>6

LEMMA OpeningStep == Inductive /\ Opening /\ [Next]_vars => Opening'
<1>1. Opening /\ UNCHANGED vars => Opening'
  BY DEF Opening, Quiet, Fresh, SynAlone, Here, Live, vars, client, server, flags
<1> QED BY <1>1, OpeningStart, OpeningSyn, OpeningThread, OpeningPoll, OpeningStranger, OpeningTakes,
        OpeningSends DEF Next, Thread

-----------------------------------------------------------------------------
(* What is acknowledged was sent: the acknowledgements under way, the data   *)
(* that will be acknowledged, and tcp_ack are within what the server sent on *)
(* their connections.                                                        *)

End(seg) == seg.seq + Len(seg.data) + (IF seg.syn THEN 1 ELSE 0)
Sent(seg, k) == End(seg) <= k.sent + 1 /\ (seg.fin => k.state = "finished")

AcksBounded ==
  /\ \A i \in 1..Len(up) :
       conns[up[i].port] # Closed => up[i].ack <= NextNumber(conns[up[i].port])
  /\ \A i \in 1..Len(down) :
       conns[down[i].port] # Closed => Sent(down[i], conns[down[i].port])
  /\ Live => tcp_ack <= NextNumber(conns[client_port])

LEMMA Typed ==
  ASSUME Inductive
  PROVE  /\ \A i \in 1..Len(up) : up[i].port \in Ports /\ up[i].ack \in Nat
         /\ \A i \in 1..Len(down) : /\ down[i].port \in Ports /\ down[i].seq \in Nat
                                   /\ down[i].data \in Seq(Bytes) /\ Len(down[i].data) \in Nat
         /\ \A p \in Ports : /\ conns[p] \in Connections
                             /\ conns[p].sent \in Nat /\ conns[p].length \in Nat
         /\ tcp_ack \in Nat /\ conns \in [Ports -> Connections]
         /\ client_port # 0 => client_port \in Ports
<1>1. /\ up \in Seq(UpSegments) /\ down \in Seq(DownSegments) /\ conns \in [Ports -> Connections]
      /\ tcp_ack \in Nat /\ (client_port # 0 => client_port \in Ports)
  BY DEF Inductive, TypeOK
<1>2. /\ \A i \in 1..Len(up) : up[i] \in UpSegments
      /\ \A i \in 1..Len(down) : down[i] \in DownSegments
  BY <1>1
<1>3. \A i \in 1..Len(up) : up[i].port \in Ports /\ up[i].ack \in Nat
  BY <1>2 DEF UpSegments
<1>4. \A seg \in DownSegments : /\ seg.port \in Ports /\ seg.seq \in Nat
                                /\ seg.data \in Seq(Bytes) /\ Len(seg.data) \in Nat
  <2>1. \A d \in Seq(Bytes) : Len(d) \in Nat
    OBVIOUS
  <2> QED BY <2>1 DEF DownSegments
<1>5. \A p \in Ports : conns[p] \in Connections
  BY <1>1
<1>6. \A k \in Connections : k.sent \in Nat /\ k.length \in Nat
  BY DEF Connections
<1> HIDE DEF DownSegments, Connections
<1> QED BY <1>1, <1>2, <1>3, <1>4, <1>5, <1>6

LEMMA SegmentFields ==
  ASSUME NEW seg \in DownSegments
  PROVE  /\ seg.seq \in Nat /\ Len(seg.data) \in Nat /\ seg.data \in Seq(Bytes) /\ End(seg) \in Nat
         /\ seg.port \in Ports /\ seg.syn \in BOOLEAN /\ seg.fin \in BOOLEAN
<1>1. /\ seg.seq \in Nat /\ seg.data \in Seq(Bytes) /\ seg.port \in Ports
      /\ seg.syn \in BOOLEAN /\ seg.fin \in BOOLEAN
  BY DEF DownSegments
<1>2. Len(seg.data) \in Nat
  BY <1>1
<1> QED BY <1>1, <1>2 DEF End

(* What was sent on a connection stays sent. *)
LEMMA StillBelow ==
  ASSUME NEW k \in Connections, NEW next \in Connections, next.sent >= k.sent,
         k.state = "finished" => next.state = "finished"
  PROVE  /\ \A a \in Nat : a <= NextNumber(k) => a <= NextNumber(next)
         /\ \A seg \in DownSegments : Sent(seg, k) => Sent(seg, next)
<1>1. k.sent \in Nat /\ next.sent \in Nat
  BY DEF Connections
<1>2. NextNumber(k) \in Nat /\ NextNumber(next) \in Nat /\ NextNumber(k) <= NextNumber(next)
  BY <1>1 DEF NextNumber
<1>3. \A seg \in DownSegments : End(seg) \in Nat
  BY SegmentFields
<1> QED BY <1>1, <1>2, <1>3 DEF Sent

(* What tcp_handle acknowledges of a segment was sent with it. *)
LEMMA SentAcks ==
  ASSUME NEW seg \in DownSegments, NEW k \in Connections, Sent(seg, k)
  PROVE  /\ \A a \in Acks(seg) : a <= NextNumber(k)
         /\ seg.syn => seg.seq + 1 <= NextNumber(k)
<1>1. /\ seg.seq \in Nat /\ Len(seg.data) \in Nat /\ seg.syn \in BOOLEAN /\ seg.fin \in BOOLEAN
  BY SegmentFields
<1>2. k.sent \in Nat
  BY DEF Connections
<1>3. /\ seg.seq + Len(seg.data) <= k.sent + 1
      /\ seg.syn => seg.seq + Len(seg.data) + 1 <= k.sent + 1
      /\ seg.fin => k.state = "finished"
  BY <1>1, <1>2 DEF Sent, End
<1>4. 1 + k.sent <= NextNumber(k) /\ (seg.fin => 2 + k.sent = NextNumber(k)) /\ NextNumber(k) \in Nat
  BY <1>2, <1>3 DEF NextNumber
<1>5. seg.seq + Len(seg.data) <= NextNumber(k) /\ (seg.fin => seg.seq + 1 <= NextNumber(k))
  BY <1>1, <1>2, <1>3, <1>4
<1>6. seg.syn => seg.seq + 1 <= NextNumber(k)
  BY <1>1, <1>2, <1>3, <1>4
<1> QED BY <1>5, <1>6 DEF Acks, AckData

LEMMA AnswerLength ==
  ASSUME NEW r, NEW from \in Int, NEW to \in Int, to - from + 1 >= 0
  PROVE  Len(Answer(r, from, to)) = to - from + 1
<1>1. to - from + 1 \in Nat
  OBVIOUS
<1> QED BY <1>1 DEF Answer

LEMMA AcksInit == Init => AcksBounded
<1> SUFFICES ASSUME Init PROVE AcksBounded
  OBVIOUS
<1>1. up = << >> /\ down = << >> /\ Len(up) = 0 /\ Len(down) = 0
  BY DEF Init
<1> QED BY <1>1 DEF Init, AcksBounded, Live

(* The acknowledgements that a step adds are within what was sent. *)
LEMMA AcksGrow ==
  ASSUME Inductive, AcksBounded, NEW acks, UpGrows(acks), UNCHANGED << conns, client_port >>,
         \A a \in acks : a <= NextNumber(conns[client_port])
  PROVE  \A i \in 1..Len(up') : conns'[up'[i].port] # Closed => up'[i].ack <= NextNumber(conns'[up'[i].port])
<1> SUFFICES ASSUME NEW i \in 1..Len(up'), conns'[up'[i].port] # Closed
             PROVE  up'[i].ack <= NextNumber(conns'[up'[i].port])
  OBVIOUS
<1>1. conns' = conns /\ client_port' = client_port
  OBVIOUS
<1>2. Len(up) \in Nat
  BY QueueTails
<1>3. CASE i \in 1..Len(up)
  <2>1. up'[i] = up[i]
    BY <1>3 DEF UpGrows
  <2> QED BY <1>1, <1>3, <2>1 DEF AcksBounded
<1>4. CASE i \notin 1..Len(up)
  <2>1. i \in (Len(up) + 1)..Len(up')
    BY <1>2, <1>4 DEF UpGrows
  <2> QED BY <1>1, <2>1 DEF UpGrows
<1> QED BY <1>3, <1>4

LEMMA AcksPoll ==
  ASSUME Inductive, Opening, AcksBounded, Poll
  PROVE  AcksBounded'
<1> DEFINE seg == Head(down)
<1>1. /\ tcp_handle("server", seg) /\ down' = Tail(down) /\ down # << >>
      /\ UNCHANGED << client_port, conns >>
  BY DEF Poll, server
<1>2. \A i \in 1..Len(down') :
        conns'[down'[i].port] # Closed => Sent(down'[i], conns'[down'[i].port])
  <2>1. \A i \in 1..Len(down') : down'[i] = down[i + 1] /\ i + 1 \in 1..Len(down)
    BY <1>1, QueueTails
  <2> QED BY <1>1, <2>1 DEF AcksBounded
<1>3. CASE Ours(seg)
  <2>1. Live /\ client_port # 0 /\ seg \in DownSegments
    BY <1>3, HeadIsLive
  <2>2. 1 \in 1..Len(down) /\ seg = down[1] /\ seg.port = client_port
    BY <1>1, <1>3, QueueTails DEF Ours
  <2>3. Sent(seg, conns[client_port]) /\ conns[client_port] \in Connections
    BY <2>1, <2>2, Typed DEF AcksBounded, Live
  <2>4. /\ \A a \in Acks(seg) : a <= NextNumber(conns[client_port])
        /\ seg.syn => seg.seq + 1 <= NextNumber(conns[client_port])
    BY <2>1, <2>3, SentAcks
  <2>5. tcp_ack <= NextNumber(conns[client_port])
    BY <2>1 DEF AcksBounded
  <2>6. TakeSynAck("server", seg) \/ TakeData("server", seg)
    BY <1>1, <1>3, ServerSegment
  <2> HIDE DEF seg
  <2>7. tcp_ack' <= NextNumber(conns[client_port])
    <3>1. CASE TakeSynAck("server", seg)
      BY <2>4, <3>1 DEF TakeSynAck
    <3>2. CASE TakeData("server", seg)
      <4>1. tcp_ack' = tcp_ack \/ tcp_ack' \in Acks(seg)
        BY <3>2 DEF TakeData, Acks
      <4> QED BY <2>4, <2>5, <4>1
    <3> QED BY <2>6, <3>1, <3>2
  <2>8. UpGrows({}) \/ UpGrows(Acks(seg))
    BY <1>3, <2>1, <2>6, DataSends, GrowsNot DEF TakeSynAck
  <2>9. \A i \in 1..Len(up') :
          conns'[up'[i].port] # Closed => up'[i].ack <= NextNumber(conns'[up'[i].port])
    <3>1. CASE UpGrows({})
      BY <1>1, <3>1, AcksGrow
    <3>2. CASE UpGrows(Acks(seg))
      BY <1>1, <2>4, <3>2, AcksGrow
    <3> QED BY <2>8, <3>1, <3>2
  <2> QED BY <1>1, <1>2, <2>7, <2>9 DEF AcksBounded
<1>4. CASE ~Ours(seg)
  <2>1. UNCHANGED << tcp_ack, up >>
    BY <1>1, <1>4, ServerSegment DEF Ignore, Inductive, TypeOK
  <2> QED BY <1>1, <1>2, <2>1 DEF AcksBounded, Live
<1> QED BY <1>3, <1>4

LEMMA AcksThread ==
  ASSUME Inductive, Opening, AcksBounded, Thread
  PROVE  AcksBounded'
<1>1. CASE Start
  <2>1. UNCHANGED << up, down, conns >> /\ ~Live'
    BY <1>1, OpeningStart DEF Start, server
  <2> QED BY <2>1 DEF AcksBounded
<1>2. CASE SendSyn
  <2>1. ~Live /\ ~Live' /\ client_port # 0 /\ UNCHANGED << client_port, conns, down >>
    BY <1>2, OpeningSyn DEF SendSyn, server, Inductive, PortIsOurs
  <2>2. conns[client_port] = Closed
    BY <2>1 DEF Live
  <2>3. up' = Append(up, Segment("syn", 1, 0)) /\ up \in Seq(UpSegments)
    BY <1>2 DEF SendSyn, Inductive, TypeOK
  <2>4. Segment("syn", 1, 0) \in UpSegments /\ Segment("syn", 1, 0).port = client_port
    BY <2>1, OneSegment
  <2>5. /\ Len(up') = Len(up) + 1 /\ Len(up) \in Nat /\ up'[Len(up) + 1].port = client_port
        /\ \A i \in 1..Len(up) : up'[i] = up[i]
    <3> HIDE DEF UpSegments
    <3> QED BY <2>3, <2>4, AppendProperties
  <2>6. \A i \in 1..Len(up') : i \in 1..Len(up) \/ up'[i].port = client_port
    BY <2>5
  <2> QED BY <2>1, <2>2, <2>5, <2>6 DEF AcksBounded
<1>3. CASE ResolveFails \/ SynTimeout \/ SendRequest \/ CollectOver \/ DrainOver
  <2>1. UNCHANGED << client_port, conns, down, tcp_ack >>
    BY <1>3 DEF ResolveFails, SynTimeout, SendRequest, CollectOver, DrainOver, server
  <2>2. (up' = up \/ Live) /\ UpGrows({tcp_ack})
    BY <1>3, ThreadSends DEF Opening
  <2>3. CASE up' = up
    BY <2>1, <2>3 DEF AcksBounded, Live
  <2>4. CASE Live
    <3>1. \A a \in {tcp_ack} : a <= NextNumber(conns[client_port])
      BY <2>4 DEF AcksBounded
    <3>2. \A i \in 1..Len(up') :
            conns'[up'[i].port] # Closed => up'[i].ack <= NextNumber(conns'[up'[i].port])
      BY <2>1, <2>2, <3>1, AcksGrow
    <3> QED BY <2>1, <3>2 DEF AcksBounded, Live
  <2> QED BY <2>2, <2>3, <2>4
<1> QED BY <1>1, <1>2, <1>3 DEF Thread

(* A segment that the server sends is within what it then has sent. *)
LEMMA AcksSend ==
  ASSUME Inductive, AcksBounded, NEW p \in Ports, NEW seg \in DownSegments, seg.port = p,
         down' = Append(down, seg), UNCHANGED << client, up >>,
         conns'[p] # Closed => Sent(seg, conns'[p]),
         conns[p] # Closed /\ conns'[p] \in Connections /\ conns'[p].sent >= conns[p].sent,
         conns[p].state = "finished" => conns'[p].state = "finished",
         \A q \in Ports \ {p} : conns'[q] = conns[q]
  PROVE  AcksBounded'
<1>1. /\ \A i \in 1..Len(up) : up[i].port \in Ports /\ up[i].ack \in Nat
      /\ \A i \in 1..Len(down) : down[i].port \in Ports
      /\ tcp_ack \in Nat /\ (client_port # 0 => client_port \in Ports)
      /\ conns[p] \in Connections
  BY Typed
<1>2. \A i \in 1..Len(down) : down[i] \in DownSegments
  BY DEF Inductive, TypeOK
<1> HIDE DEF DownSegments, Connections
<1>3. /\ \A a \in Nat : a <= NextNumber(conns[p]) => a <= NextNumber(conns'[p])
      /\ \A g \in DownSegments : Sent(g, conns[p]) => Sent(g, conns'[p])
  BY <1>1, StillBelow
<1>4. /\ Len(down') = Len(down) + 1 /\ Len(down) \in Nat /\ down'[Len(down) + 1] = seg
      /\ \A i \in 1..Len(down) : down'[i] = down[i]
  BY DownGrows
<1>5. UNCHANGED << client_port, tcp_ack >>
  BY DEF client
<1>6. \A q \in Ports : /\ conns'[q] # Closed => conns[q] # Closed
                       /\ \A a \in Nat : a <= NextNumber(conns[q]) => a <= NextNumber(conns'[q])
                       /\ \A g \in DownSegments : Sent(g, conns[q]) => Sent(g, conns'[q])
  BY <1>3
<1>7. ASSUME NEW i \in 1..Len(up'), conns'[up'[i].port] # Closed
      PROVE  up'[i].ack <= NextNumber(conns'[up'[i].port])
  BY <1>1, <1>6, <1>7 DEF AcksBounded
<1>8. ASSUME NEW i \in 1..Len(down'), conns'[down'[i].port] # Closed
      PROVE  Sent(down'[i], conns'[down'[i].port])
  <2>1. CASE i = Len(down) + 1
    BY <1>4, <1>8, <2>1
  <2>2. CASE i # Len(down) + 1
    <3>1. i \in 1..Len(down) /\ down'[i] = down[i]
      BY <1>4, <2>2
    <3>2. down[i].port \in Ports /\ down[i] \in DownSegments /\ conns[down[i].port] # Closed
      BY <1>1, <1>2, <1>6, <1>8, <3>1
    <3>3. Sent(down[i], conns[down[i].port])
      BY <3>1, <3>2 DEF AcksBounded
    <3>4. Sent(down[i], conns'[down[i].port])
      <4>1. PICK q \in Ports, g \in DownSegments : q = down[i].port /\ g = down[i]
        BY <3>2
      <4>2. Sent(g, conns[q]) => Sent(g, conns'[q])
        BY <1>6
      <4> QED BY <3>3, <4>1, <4>2
    <3> QED BY <3>1, <3>4
  <2> QED BY <2>1, <2>2
<1>9. Live' => tcp_ack' <= NextNumber(conns'[client_port'])
  BY <1>1, <1>5, <1>6 DEF AcksBounded, Live
<1> QED BY <1>7, <1>8, <1>9 DEF AcksBounded

LEMMA AcksSends ==
  ASSUME Inductive, AcksBounded, NEW p \in Ports,
         ServerSends(p) \/ ServerResends(p) \/ ServerForgets(p)
  PROVE  AcksBounded'
<1>1. conns \in [Ports -> Connections] /\ conns[p] \in Connections /\ conns[p].sent \in Nat
  BY Typed
<1>2. CASE ServerSends(p)
  <2>1. PICK n \in Nat, fin \in BOOLEAN, seg \in DownSegments :
          LET k == conns[p]
          IN  /\ k.state = "answering" /\ k.sent \in Nat
              /\ fin => k.sent + n = k.length
              /\ seg = Reply(p, 1 + k.sent, FALSE, fin, Answer(k.request, k.sent + 1, k.sent + n))
              /\ down' = Append(down, seg)
              /\ conns' = [conns EXCEPT ![p].sent = k.sent + n,
                                        ![p].state = IF fin THEN "finished" ELSE "answering"]
              /\ UNCHANGED << client, up, network >>
    BY <1>2, SendsProps
  <2>2. /\ seg.port = p /\ seg.seq = 1 + conns[p].sent /\ ~seg.syn /\ seg.fin = fin
        /\ seg.data = Answer(conns[p].request, conns[p].sent + 1, conns[p].sent + n)
    BY <2>1 DEF Reply
  <2>3. Len(seg.data) = n
    <3>1. (conns[p].sent + n) - (conns[p].sent + 1) + 1 = n
      BY <1>1
    <3> QED BY <1>1, <2>2, <3>1, AnswerLength
  <2>4. /\ conns'[p].sent = conns[p].sent + n /\ conns'[p] \in Connections
        /\ fin => conns'[p].state = "finished"
        /\ \A q \in Ports \ {p} : conns'[q] = conns[q]
    <3>1. PICK c : c = [conns[p] EXCEPT !.sent = conns[p].sent + n,
                                        !.state = IF fin THEN "finished" ELSE "answering"]
      OBVIOUS
    <3>2. c \in Connections /\ c.sent = conns[p].sent + n /\ (fin => c.state = "finished")
      <4>1. PICK total : total = conns[p].sent + n
        OBVIOUS
      <4>2. PICK next : next = IF fin THEN "finished" ELSE "answering"
        OBVIOUS
      <4>3. total \in Nat /\ next \in {"closed", "open", "answering", "finished"}
        BY <1>1, <4>1, <4>2
      <4>4. c = [conns[p] EXCEPT !.sent = total, !.state = next]
        BY <3>1, <4>1, <4>2
      <4>5. c \in Connections /\ c.sent = total /\ c.state = next
        BY <1>1, <4>3, <4>4 DEF Connections
      <4> QED BY <4>1, <4>2, <4>5
    <3>3. conns' = [conns EXCEPT ![p] = c]
      BY <1>1, <2>1, <3>1
    <3> QED BY <1>1, <3>2, <3>3
  <2>5. conns[p] # Closed
    BY <2>1, ClosedType
  <2>6. Sent(seg, conns'[p]) /\ conns'[p].sent >= conns[p].sent
    BY <1>1, <2>2, <2>3, <2>4 DEF Sent, End
  <2> HIDE DEF DownSegments, Connections
  <2> QED BY <2>1, <2>2, <2>4, <2>5, <2>6, AcksSend
<1>3. CASE ServerResends(p)
  <2>1. PICK seg \in DownSegments :
          LET k == conns[p]
          IN  /\ k # Closed /\ k.sent \in Nat /\ k.sent > 0
              /\ seg = Reply(p, k.sent, FALSE, k.state = "finished", Answer(k.request, k.sent, k.sent))
              /\ down' = Append(down, seg)
              /\ resends' = resends + 1
              /\ UNCHANGED << client, up, conns, strays >>
    BY <1>3, ResendsProps
  <2>2. /\ seg.port = p /\ seg.seq = conns[p].sent /\ ~seg.syn
        /\ seg.fin = (conns[p].state = "finished")
        /\ seg.data = Answer(conns[p].request, conns[p].sent, conns[p].sent)
    BY <2>1 DEF Reply
  <2>3. Len(seg.data) = 1
    <3>1. conns[p].sent - conns[p].sent + 1 = 1
      BY <1>1
    <3>2. Len(Answer(conns[p].request, conns[p].sent, conns[p].sent)) = 1
      <4>1. conns[p].sent \in Int /\ conns[p].sent - conns[p].sent + 1 >= 0
        BY <1>1, <3>1
      <4> QED BY <3>1, <4>1, AnswerLength
    <3> QED BY <2>2, <3>2
  <2>4. conns' = conns /\ Sent(seg, conns[p])
    <3>1. PICK n : n = conns[p].sent /\ n \in Nat
      BY <1>1
    <3>2. seg.seq = n /\ ~seg.syn /\ Len(seg.data) = 1
      BY <2>2, <2>3, <3>1
    <3>3. End(seg) = n + 1
      BY <3>1, <3>2 DEF End
    <3>4. n + 1 <= n + 1
      BY <3>1
    <3>5. seg.fin => conns[p].state = "finished"
      BY <2>2
    <3> QED BY <2>1, <3>1, <3>3, <3>4, <3>5 DEF Sent
  <2>5. conns[p].sent >= conns[p].sent
    BY <1>1
  <2> HIDE DEF DownSegments, Connections
  <2> QED BY <1>1, <2>1, <2>2, <2>4, <2>5, AcksSend
<1>4. CASE ServerForgets(p)
  <2>1. /\ p # client_port /\ conns' = [conns EXCEPT ![p] = Closed]
        /\ UNCHANGED << client_port, tcp_ack, up, down >>
    BY <1>4 DEF ServerForgets, client
  <2>2. \A q \in Ports : conns'[q] = Closed \/ conns'[q] = conns[q]
    BY <1>1, <2>1
  <2>3. Live' = Live /\ (Live => conns'[client_port] = conns[client_port])
    BY <1>1, <2>1, Typed DEF Live
  <2> QED BY <2>1, <2>2, <2>3, Typed DEF AcksBounded
<1> QED BY <1>2, <1>3, <1>4

LEMMA AcksTakes ==
  ASSUME Inductive, Opening, AcksBounded, ServerTakes
  PROVE  AcksBounded'
<1> DEFINE Same(q) == /\ conns'[q] = Closed <=> conns[q] = Closed
                      /\ conns'[q].sent = conns[q].sent
                      /\ conns'[q].state = "finished" <=> conns[q].state = "finished"
<1>1. PICK s \in UpSegments :
        /\ up # << >> /\ s = up[1] /\ up' = Tail(up) /\ s.port \in Ports
        /\ UNCHANGED << client, network >>
        /\ \/ /\ s.kind = "syn" /\ conns' = [conns EXCEPT ![s.port] = Opened(s)]
              /\ down' = Append(down, Reply(s.port, 0, TRUE, FALSE, << >>))
           \/ /\ conns[s.port].state = "open"
              /\ \E n \in AnswerLengths :
                   conns' = [conns EXCEPT ![s.port] = [conns[s.port] EXCEPT !.state = "answering",
                               !.length = n, !.rcv = s.seq + REQUEST_LENGTH]]
              /\ UNCHANGED down
           \/ UNCHANGED << conns, down >>
  BY TakesProps
<1>2. UNCHANGED << client_port, tcp_ack >>
  BY <1>1 DEF client
<1>3. /\ 1 \in 1..Len(up) /\ Len(up) \in Nat
      /\ \A i \in 1..Len(up') : up'[i] = up[i + 1] /\ i + 1 \in 1..Len(up) /\ i + 1 # 1
  <2>1. \A i \in 1..Len(Tail(up)) : i + 1 # 1
    OBVIOUS
  <2> QED BY <1>1, <2>1, QueueTails
<1>4. /\ conns \in [Ports -> Connections] /\ (client_port # 0 => client_port \in Ports)
      /\ \A i \in 1..Len(up) : up[i].port \in Ports
      /\ \A i \in 1..Len(down) : down[i].port \in Ports
      /\ conns[s.port] \in Connections
  BY <1>1, Typed
<1>5. CASE /\ s.kind = "syn" /\ conns' = [conns EXCEPT ![s.port] = Opened(s)]
           /\ down' = Append(down, Reply(s.port, 0, TRUE, FALSE, << >>))
  <2>1. /\ \A j \in 1..Len(up) : up[j].port = s.port => j = 1
        /\ \A j \in 1..Len(down) : down[j].port # s.port
        /\ s.port = client_port => tcp_ack = 0
    BY <1>1, <1>3, <1>5 DEF Opening, SynAlone
  <2>2. /\ \A q \in Ports \ {s.port} : conns'[q] = conns[q]
        /\ conns'[s.port] = Opened(s) /\ conns'[s.port].sent = 0
    BY <1>1, <1>4, <1>5, OpenedProps
  <2> DEFINE seg == Reply(s.port, 0, TRUE, FALSE, << >>)
  <2>3. /\ seg \in DownSegments /\ seg.port = s.port /\ seg.seq = 0 /\ seg.data = << >>
        /\ seg.syn /\ ~seg.fin
    BY <1>1, ReplyOpen
  <2>4. down' = Append(down, seg)
    BY <1>5
  <2> HIDE DEF seg
  <2>5. /\ Len(down') = Len(down) + 1 /\ Len(down) \in Nat /\ down'[Len(down) + 1] = seg
        /\ \A i \in 1..Len(down) : down'[i] = down[i]
    BY <2>3, <2>4, DownGrows
  <2>6. \A i \in 1..Len(up') :
          conns'[up'[i].port] # Closed => up'[i].ack <= NextNumber(conns'[up'[i].port])
    <3>1. \A i \in 1..Len(up') : /\ up'[i] = up[i + 1] /\ i + 1 \in 1..Len(up)
                                 /\ up[i + 1].port \in Ports \ {s.port}
      BY <1>3, <1>4, <2>1
    <3> QED BY <2>2, <3>1 DEF AcksBounded
  <2>7. ASSUME NEW i \in 1..Len(down'), conns'[down'[i].port] # Closed
        PROVE  Sent(down'[i], conns'[down'[i].port])
    <3>1. CASE i = Len(down) + 1
      <4>1. Len(<< >>) = 0
        OBVIOUS
      <4>2. End(seg) = 1
        BY <2>3, <4>1 DEF End
      <4> QED BY <2>2, <2>3, <2>5, <3>1, <4>2 DEF Sent
    <3>2. CASE i # Len(down) + 1
      <4>1. i \in 1..Len(down) /\ down'[i] = down[i]
        BY <2>5, <3>2
      <4>2. down[i].port \in Ports \ {s.port}
        BY <1>4, <2>1, <4>1
      <4> QED BY <2>2, <2>7, <4>1, <4>2 DEF AcksBounded
    <3> QED BY <3>1, <3>2
  <2>8. Live' => tcp_ack' <= NextNumber(conns'[client_port'])
    <3>1. CASE s.port = client_port
      BY <1>2, <2>1, <2>2, <3>1 DEF NextNumber, Opened
    <3>2. CASE s.port # client_port
      <4>1. Live' => Live /\ conns'[client_port] = conns[client_port]
        BY <1>2, <1>4, <2>2, <3>2 DEF Live
      <4> QED BY <1>2, <4>1 DEF AcksBounded
    <3> QED BY <3>1, <3>2
  <2> QED BY <2>6, <2>7, <2>8 DEF AcksBounded
<1>6. CASE /\ UNCHANGED down
           /\ \A q \in Ports : Same(q)
  <2>1. Live' => Live /\ client_port \in Ports
    BY <1>2, <1>4, <1>6 DEF Live
  <2>5. \A q \in Ports : /\ NextNumber(conns'[q]) = NextNumber(conns[q])
                         /\ \A g : Sent(g, conns[q]) => Sent(g, conns'[q])
    BY <1>6 DEF NextNumber, Sent
  <2>2. \A i \in 1..Len(up') :
          conns'[up'[i].port] # Closed => up'[i].ack <= NextNumber(conns'[up'[i].port])
    <3>1. \A i \in 1..Len(up') : /\ up'[i] = up[i + 1] /\ i + 1 \in 1..Len(up)
                                 /\ up[i + 1].port \in Ports
      BY <1>3, <1>4
    <3> QED BY <1>6, <2>5, <3>1 DEF AcksBounded
  <2>3. \A i \in 1..Len(down') :
          conns'[down'[i].port] # Closed =>
            Sent(down'[i], conns'[down'[i].port])
    BY <1>4, <1>6, <2>5 DEF AcksBounded
  <2>4. Live' => tcp_ack' <= NextNumber(conns'[client_port'])
    BY <1>2, <1>6, <2>1, <2>5 DEF AcksBounded
  <2> QED BY <2>2, <2>3, <2>4 DEF AcksBounded
<1>7. CASE /\ conns[s.port].state = "open"
           /\ \E n \in AnswerLengths :
                conns' = [conns EXCEPT ![s.port] = [conns[s.port] EXCEPT !.state = "answering",
                            !.length = n, !.rcv = s.seq + REQUEST_LENGTH]]
           /\ UNCHANGED down
  <2> DEFINE k == conns[s.port]
  <2>1. PICK n \in AnswerLengths :
          conns' = [conns EXCEPT ![s.port] = [k EXCEPT !.state = "answering",
                      !.length = n, !.rcv = s.seq + REQUEST_LENGTH]]
    BY <1>7
  <2> DEFINE c == [k EXCEPT !.state = "answering", !.length = n, !.rcv = s.seq + REQUEST_LENGTH]
  <2>2. c.state = "answering" /\ c.sent = k.sent /\ k.state = "open"
    BY <1>4, <1>7 DEF Connections
  <2>3. conns' = [conns EXCEPT ![s.port] = c]
    BY <2>1
  <2> HIDE DEF c
  <2>4. conns'[s.port] = c /\ \A q \in Ports \ {s.port} : conns'[q] = conns[q]
    BY <1>1, <1>4, <2>3
  <2>5. \A q \in Ports : Same(q)
    <3>1. k.state = "open" /\ c.state = "answering" /\ c.sent = k.sent
      BY <2>2
    <3>2. k # Closed /\ c # Closed
      BY <3>1, ClosedType
    <3>3. conns'[s.port] = c /\ conns[s.port] = k
      BY <2>4
    <3> HIDE DEF k
    <3>4. ASSUME NEW q \in Ports
          PROVE  Same(q)
      <4>1. CASE q = s.port
        BY <3>1, <3>2, <3>3, <4>1
      <4>2. CASE q # s.port
        BY <2>4, <4>2
      <4> QED BY <4>1, <4>2
    <3> QED BY <3>4
  <2> HIDE DEF Same
  <2> QED BY <1>6, <1>7, <2>5
<1>8. conns' = conns => \A q \in Ports : Same(q)
  OBVIOUS
<1> HIDE DEF Same
<1> QED BY <1>1, <1>5, <1>6, <1>7, <1>8

(* A segment of another host that tcp_handle does not count changes nothing. *)
LEMMA StrangerIgnored ==
  ASSUME Inductive, PollStranger, strays' = 0
  PROVE  /\ UNCHANGED << client_port, established, fin_received, tcp_ack, response, result, request,
                         up, down, conns, resends >>
         /\ strays = 0
<1>1. PICK seg \in DownSegments :
        /\ tcp_handle("stranger", seg) /\ Mixed(seg.data, 1)
        /\ strays' \in 0..MaxDisturbances /\ strays' >= strays
        /\ ToOurPort(seg) => strays' = strays + 1
        /\ UNCHANGED << pc, client_port, next_port, tcp_seq, result, request, down, conns,
                        resends >>
  BY Stranger
<1>2. strays \in Nat /\ fin_received \in BOOLEAN
  BY Constants DEF Inductive, TypeOK
<1>3. strays = 0 /\ ~ToOurPort(seg)
  BY <1>1, <1>2
<1>4. TakeData("stranger", seg)
  BY <1>1 DEF tcp_handle, TakeSynAck, FromServer
<1>5. UNCHANGED << established, tcp_ack, response, up >> /\ fin_received' = (fin_received \/ FALSE)
  BY <1>3, <1>4 DEF TakeData, FromServer
<1> QED BY <1>1, <1>2, <1>3, <1>5

AcksInv == strays = 0 => AcksBounded

LEMMA AcksStep == Inductive /\ Opening /\ AcksInv /\ [Next]_vars => AcksInv'
<1> SUFFICES ASSUME Inductive, Opening, AcksInv, [Next]_vars, strays' = 0 PROVE AcksBounded'
  BY DEF AcksInv
<1>1. CASE PollStranger
  BY <1>1, StrangerIgnored DEF AcksInv, AcksBounded, Live
<1>2. CASE ~PollStranger
  <2>1. strays' = strays
    BY <1>2 DEF Next, Thread, Start, ResolveFails, SendSyn, SynTimeout, SendRequest, CollectOver,
       DrainOver, Poll, ServerTakes, ServerSends, ServerResends, ServerForgets, vars, server, network
  <2>2. AcksBounded /\ UNCHANGED vars => AcksBounded'
    BY DEF AcksBounded, Live, vars, client, server
  <2> QED BY <1>2, <2>1, <2>2, AcksThread, AcksPoll, AcksTakes, AcksSends DEF AcksInv, Next
<1> QED BY <1>1, <1>2

(* The client never acknowledges what the server has not sent on that        *)
(* connection, neither a byte nor a FIN, however often the server repeats    *)
(* itself, for every range of ports, buffer, and length of answers and of    *)
(* segments; until a segment of another host has moved tcp_ack.              *)
THEOREM AcksStayBehind == Spec => []AcksOnlySent
<1>1. AcksInv => AcksOnlySent
  BY DEF AcksInv, AcksBounded, AcksOnlySent
<1>2. Init => Opening /\ AcksInv
  BY OpeningInit, AcksInit DEF AcksInv
<1>3. Inductive /\ Opening /\ AcksInv /\ [Next]_vars => (Opening /\ AcksInv)'
  BY OpeningStep, AcksStep
<1> QED BY <1>1, <1>2, <1>3, Invariance, PTL DEF Spec

-----------------------------------------------------------------------------
(* What is under way to the client: as long as nothing disturbs the stream,  *)
(* the segments of the client's port come one after the other, without a gap *)
(* between them, between what has arrived and the first, or between the last *)
(* and what the server has sent.                                             *)

Idx(d, p) == {i \in 1..Len(d) : d[i].port = p}
Kept(r, n) == Truncated(Answer(r, 1, n))

Chain(d, p, first, last) ==
  \A i \in Idx(d, p) \cup {0}, j \in Idx(d, p) \cup {Len(d) + 1} :
    (i < j /\ \A m \in Idx(d, p) : ~(i < m /\ m < j)) =>
      (IF j = Len(d) + 1 THEN last ELSE d[j].seq) = (IF i = 0 THEN first ELSE End(d[i]))

(* A segment says where its bytes stand in the answer; a FIN is at its end.  *)
Faithful(seg, k) ==
  /\ seg.syn => seg.seq = 0 /\ seg.data = << >> /\ ~seg.fin
  /\ ~seg.syn => /\ seg.seq >= 1
                 /\ seg.data = Answer(k.request, seg.seq, seg.seq + Len(seg.data) - 1)
  /\ seg.fin => k.state = "finished" /\ End(seg) = 1 + k.length

Contents(d, p, k) ==
  \A i \in Idx(d, p) : Faithful(d[i], k) /\ (d[i].fin => \A j \in Idx(d, p) : j <= i)

Serving(k) ==
  /\ k.state \in {"open", "answering", "finished"}
  /\ k.state = "open" => k.sent = 0
  /\ k.state = "finished" => k.sent = k.length

Expected == IF established THEN tcp_ack ELSE 0

Stream ==
  Live /\ Undisturbed =>
    LET k == conns[client_port]
    IN  /\ Serving(k) /\ Contents(down, client_port, k)
        /\ established => tcp_ack > 0
        /\ fin_received => /\ Idx(down, client_port) = {} /\ k.state = "finished"
                           /\ response = Kept(k.request, k.length)
        /\ ~fin_received => /\ Chain(down, client_port, Expected, 1 + k.sent)
                            /\ response = Kept(k.request, Expected - 1)

LEMMA IdxGrows ==
  ASSUME NEW d \in Seq(DownSegments), NEW seg \in DownSegments, NEW p
  PROVE  /\ Len(d) \in Nat /\ Len(Append(d, seg)) = Len(d) + 1
         /\ Append(d, seg)[Len(d) + 1] = seg
         /\ \A i \in Idx(d, p) : i \in 1..Len(d) /\ Append(d, seg)[i] = d[i]
         /\ Idx(Append(d, seg), p) = IF seg.port = p THEN Idx(d, p) \cup {Len(d) + 1}
                                     ELSE Idx(d, p)
<1> HIDE DEF DownSegments
<1>1. /\ Len(d) \in Nat /\ Len(Append(d, seg)) = Len(d) + 1 /\ Append(d, seg)[Len(d) + 1] = seg
      /\ \A i \in 1..Len(d) : Append(d, seg)[i] = d[i]
  BY AppendProperties
<1>2. 1..Len(Append(d, seg)) = 1..Len(d) \cup {Len(d) + 1}
  BY <1>1
<1>3. Idx(Append(d, seg), p)
        = {i \in 1..Len(d) : Append(d, seg)[i].port = p}
          \cup {i \in {Len(d) + 1} : Append(d, seg)[i].port = p}
  BY <1>2 DEF Idx
<1>4. {i \in 1..Len(d) : Append(d, seg)[i].port = p} = Idx(d, p)
  BY <1>1 DEF Idx
<1>5. {i \in {Len(d) + 1} : Append(d, seg)[i].port = p}
        = IF seg.port = p THEN {Len(d) + 1} ELSE {}
  BY <1>1
<1>6. \A i \in Idx(d, p) : i \in 1..Len(d)
  BY DEF Idx
<1> QED BY <1>1, <1>3, <1>4, <1>5, <1>6

LEMMA IdxTails ==
  ASSUME NEW d \in Seq(DownSegments), d # << >>, NEW p
  PROVE  /\ Len(d) \in Nat /\ Len(d) > 0 /\ Len(Tail(d)) = Len(d) - 1
         /\ d[1] \in DownSegments /\ Head(d) = d[1]
         /\ \A i \in Idx(d, p) : i \in 1..Len(d)
         /\ \A i \in Idx(Tail(d), p) : /\ i \in 1..(Len(d) - 1) /\ i + 1 \in Idx(d, p)
                                       /\ Tail(d)[i] = d[i + 1]
         /\ \A i \in Idx(d, p) : i # 1 => i - 1 \in Idx(Tail(d), p)
         /\ 1 \in Idx(d, p) <=> d[1].port = p
<1>1. Len(d) \in Nat /\ Len(d) > 0
  BY EmptySeq
<1>2. /\ Len(Tail(d)) = Len(d) - 1 /\ Head(d) = d[1] /\ d[1] \in DownSegments
      /\ \A i \in 1..Len(Tail(d)) : Tail(d)[i] = d[i + 1]
  <2> HIDE DEF DownSegments
  <2> QED BY <1>1, HeadTailProperties
<1>3. \A i \in 1..(Len(d) - 1) : i + 1 \in 1..Len(d)
  BY <1>1
<1>4. \A i \in 1..Len(d) : i # 1 => i - 1 \in 1..(Len(d) - 1) /\ (i - 1) + 1 = i
  BY <1>1
<1>5. 1 \in 1..Len(d)
  BY <1>1
<1>6. \A i \in Idx(Tail(d), p) : /\ i \in 1..(Len(d) - 1) /\ i + 1 \in Idx(d, p)
                                 /\ Tail(d)[i] = d[i + 1]
  BY <1>2, <1>3 DEF Idx
<1>7. \A i \in Idx(d, p) : i # 1 => i - 1 \in Idx(Tail(d), p)
  BY <1>2, <1>4 DEF Idx
<1>8. 1 \in Idx(d, p) <=> d[1].port = p
  BY <1>5 DEF Idx
<1>9. \A i \in Idx(d, p) : i \in 1..Len(d)
  BY DEF Idx
<1> QED BY <1>1, <1>2, <1>6, <1>7, <1>8, <1>9

LEMMA ChainGrows ==
  ASSUME NEW d \in Seq(DownSegments), NEW seg \in DownSegments, NEW p, NEW first, NEW last,
         NEW next, Chain(d, p, first, last),
         seg.port = p => seg.seq = last /\ End(seg) = next,
         seg.port # p => next = last
  PROVE  Chain(Append(d, seg), p, first, next)
<1> DEFINE e == Append(d, seg)
           n == Len(d) + 1
<1>1. /\ Len(d) \in Nat /\ Len(e) = n /\ e[n] = seg
      /\ \A i \in Idx(d, p) : i \in 1..Len(d) /\ e[i] = d[i]
      /\ Idx(e, p) = IF seg.port = p THEN Idx(d, p) \cup {n} ELSE Idx(d, p)
  BY IdxGrows
<1> HIDE DEF e
<1> SUFFICES ASSUME NEW i \in Idx(e, p) \cup {0}, NEW j \in Idx(e, p) \cup {n + 1},
                    i < j, \A m \in Idx(e, p) : ~(i < m /\ m < j)
             PROVE  (IF j = n + 1 THEN next ELSE e[j].seq) = (IF i = 0 THEN first ELSE End(e[i]))
  BY <1>1 DEF Chain, e
<1>2. \A m \in Idx(d, p) : 1 <= m /\ m < n
  BY <1>1
<1>3. CASE seg.port = p /\ j = n + 1
  <2>1. n \in Idx(e, p) /\ n < j
    BY <1>1, <1>3
  <2>2. i = n
    BY <1>1, <1>2, <1>3, <2>1
  <2> QED BY <1>1, <1>3, <2>2
<1>4. CASE seg.port = p /\ j # n + 1
  <2>1. j \in Idx(d, p) \cup {n} /\ i # n /\ i \in Idx(d, p) \cup {0}
    BY <1>1, <1>2, <1>4
  <2>2. \A m \in Idx(d, p) : ~(i < m /\ m < j)
    BY <1>1, <1>4
  <2>3. (IF j = n THEN last ELSE d[j].seq) = (IF i = 0 THEN first ELSE End(d[i]))
    BY <2>1, <2>2 DEF Chain
  <2>4. i # 0 => e[i] = d[i]
    BY <1>1, <2>1
  <2>5. j # n => e[j] = d[j]
    BY <1>1, <2>1
  <2> QED BY <1>1, <1>4, <2>3, <2>4, <2>5
<1>5. CASE seg.port # p
  <2> DEFINE j0 == IF j = n + 1 THEN n ELSE j
  <2>1. i \in Idx(d, p) \cup {0} /\ j0 \in Idx(d, p) \cup {n} /\ i < j0 /\ (j0 = n <=> j = n + 1)
    BY <1>1, <1>2, <1>5
  <2>2. \A m \in Idx(d, p) : ~(i < m /\ m < j0)
    BY <1>1, <1>2, <1>5
  <2>3. (IF j0 = n THEN last ELSE d[j0].seq) = (IF i = 0 THEN first ELSE End(d[i]))
    <3> HIDE DEF j0
    <3> QED BY <2>1, <2>2 DEF Chain
  <2>4. i # 0 => e[i] = d[i]
    BY <1>1, <2>1
  <2>5. j0 # n => e[j] = d[j] /\ j0 = j
    BY <1>1, <1>5, <2>1
  <2> QED BY <1>5, <2>1, <2>3, <2>4, <2>5
<1> QED BY <1>3, <1>4, <1>5

LEMMA ChainTails ==
  ASSUME NEW d \in Seq(DownSegments), d # << >>, NEW p, NEW first, NEW last,
         Chain(d, p, first, last)
  PROVE  /\ d[1].port = p => d[1].seq = first /\ Chain(Tail(d), p, End(d[1]), last)
         /\ d[1].port # p => Chain(Tail(d), p, first, last)
<1> DEFINE e == Tail(d)
           n == Len(d)
           start == IF d[1].port = p THEN End(d[1]) ELSE first
<1>1. /\ n \in Nat /\ n > 0 /\ Len(e) = n - 1
      /\ \A i \in Idx(d, p) : i \in 1..n
      /\ \A i \in Idx(e, p) : i \in 1..(n - 1) /\ i + 1 \in Idx(d, p) /\ e[i] = d[i + 1]
      /\ \A i \in Idx(d, p) : i # 1 => i - 1 \in Idx(e, p)
      /\ 1 \in Idx(d, p) <=> d[1].port = p
  BY IdxTails
<1> HIDE DEF e, n
<1>2. ASSUME d[1].port = p PROVE d[1].seq = first
  <2>1. 0 < 1 /\ 1 # n + 1 /\ \A m \in Idx(d, p) : ~(0 < m /\ m < 1)
    BY <1>1
  <2> QED BY <1>1, <1>2, <2>1 DEF Chain, n
<1>3. Chain(e, p, start, last)
  <2> SUFFICES ASSUME NEW i \in Idx(e, p) \cup {0}, NEW j \in Idx(e, p) \cup {n},
                      i < j, \A m \in Idx(e, p) : ~(i < m /\ m < j)
               PROVE  (IF j = n THEN last ELSE e[j].seq) = (IF i = 0 THEN start ELSE End(e[i]))
    BY <1>1 DEF Chain
  <2>1. i \in Int /\ j \in Int /\ i >= 0 /\ j >= 1
    BY <1>1
  <2> DEFINE i0 == IF i = 0 /\ d[1].port # p THEN 0 ELSE i + 1
             j0 == j + 1
  <2>2. /\ i0 \in Idx(d, p) \cup {0} /\ j0 \in Idx(d, p) \cup {n + 1} /\ i0 < j0
        /\ (j0 = n + 1 <=> j = n) /\ i0 <= i + 1
    BY <1>1, <2>1
  <2>3. ASSUME NEW m \in Idx(d, p), i0 < m, m < j0 PROVE FALSE
    <3>1. m # 1
      BY <1>1, <2>1, <2>3
    <3>2. m - 1 \in Idx(e, p) /\ m \in Int
      BY <1>1, <3>1
    <3>3. i < m - 1 /\ m - 1 < j
      BY <1>1, <2>1, <2>3, <3>1, <3>2
    <3> QED BY <3>2, <3>3
  <2>4. (IF j0 = n + 1 THEN last ELSE d[j0].seq) = (IF i0 = 0 THEN first ELSE End(d[i0]))
    <3> HIDE DEF i0, j0
    <3> QED BY <2>2, <2>3 DEF Chain, n
  <2>5. (IF i0 = 0 THEN first ELSE End(d[i0])) = (IF i = 0 THEN start ELSE End(e[i]))
    BY <1>1, <2>1
  <2>6. (IF j0 = n + 1 THEN last ELSE d[j0].seq) = (IF j = n THEN last ELSE e[j].seq)
    BY <1>1, <2>1, <2>2
  <2> QED BY <2>4, <2>5, <2>6
<1> QED BY <1>2, <1>3 DEF e

LEMMA ChainEmpty ==
  ASSUME NEW d, NEW p, NEW first, Idx(d, p) = {}, Len(d) \in Nat
  PROVE  Chain(d, p, first, first)
BY DEF Chain

LEMMA AnswerIs ==
  ASSUME NEW r \in 1..MaxRequests, NEW from \in Nat \ {0}, NEW to \in Int, from - 1 <= to
  PROVE  /\ Answer(r, from, to) \in Seq(Bytes) /\ Len(Answer(r, from, to)) = to - from + 1
         /\ \A i \in 1..(to - from + 1) : Answer(r, from, to)[i] = << r, from + i - 1 >>
<1>1. to \in Nat /\ to - from + 1 \in Nat
  OBVIOUS
<1>2. Answer(r, from, to) \in Seq(Bytes)
  <2>1. r \in 0..MaxRequests
    BY Constants
  <2> QED BY <1>1, <2>1, AnswerBytes
<1> QED BY <1>1, <1>2, AnswerLength DEF Answer

(* What the buffer keeps of an answer is a beginning of that answer. *)
LEMMA KeptIs ==
  ASSUME NEW r \in 1..MaxRequests, NEW n \in Nat
  PROVE  Kept(r, n) = Answer(r, 1, IF n < BUFFER_SIZE THEN n ELSE BUFFER_SIZE - 1)
<1> DEFINE s == Answer(r, 1, n)
<1>1. /\ s \in Seq(Bytes) /\ Len(s) = n /\ \A i \in 1..n : s[i] = << r, 1 + i - 1 >>
  <2>1. 1 \in Nat \ {0} /\ n \in Int /\ 1 - 1 <= n /\ n - 1 + 1 = n
    OBVIOUS
  <2> HIDE DEF s
  <2>2. s = Answer(r, 1, n)
    BY DEF s
  <2> QED BY <2>1, <2>2, AnswerIs
<1> HIDE DEF s
<1>2. CASE n < BUFFER_SIZE
  <2>1. SubSeq(s, 1, Len(s)) = s
    BY <1>1
  <2> QED BY <1>1, <1>2, <2>1 DEF Kept, Truncated, s
<1>3. CASE ~(n < BUFFER_SIZE)
  <2> DEFINE m == BUFFER_SIZE - 1
             t == Answer(r, 1, m)
  <2>1. m \in Nat /\ m \in Int /\ 1 - 1 <= m /\ m - 1 + 1 = m /\ m <= n
    BY <1>3, Constants
  <2>2. Kept(r, n) = SubSeq(s, 1, m)
    BY <1>1, <1>3 DEF Kept, Truncated, s
  <2> HIDE DEF m
  <2>3. t \in Seq(Bytes) /\ Len(t) = m /\ \A i \in 1..m : t[i] = << r, 1 + i - 1 >>
    <3>1. 1 \in Nat \ {0}
      OBVIOUS
    <3> QED BY <2>1, <3>1, AnswerIs
  <2> HIDE DEF t
  <2>4. \A i \in 1..m : i \in 1..n /\ s[i] \in Bytes
    <3> HIDE DEF Bytes
    <3> QED BY <1>1, <2>1
  <2>5. /\ SubSeq(s, 1, m) \in Seq(Bytes)
        /\ Len(SubSeq(s, 1, m)) = IF 1 <= m THEN m - 1 + 1 ELSE 0
        /\ \A i \in 1..(m - 1 + 1) : SubSeq(s, 1, m)[i] = s[1 + i - 1]
    BY <2>1, <2>4, SubSeqProperties
  <2>6. Len(SubSeq(s, 1, m)) = m
    BY <2>1, <2>5
  <2>7. \A i \in 1..m : SubSeq(s, 1, m)[i] = s[i] /\ s[i] = t[i]
    BY <1>1, <2>1, <2>3, <2>4, <2>5
  <2>8. SubSeq(s, 1, m) = t
    <3> HIDE DEF Bytes
    <3> QED BY <2>3, <2>5, <2>6, <2>7, SeqEqual
  <2> QED BY <1>3, <2>2, <2>8 DEF t, m
<1> QED BY <1>2, <1>3

LEMMA KeptLength ==
  ASSUME NEW r \in 1..MaxRequests, NEW n \in Nat
  PROVE  /\ Kept(r, n) \in Seq(Bytes) /\ Kept(r, n) = Answer(r, 1, Len(Kept(r, n)))
         /\ Len(Kept(r, n)) = IF n < BUFFER_SIZE THEN n ELSE BUFFER_SIZE - 1
<1>1. PICK m \in Nat : m = IF n < BUFFER_SIZE THEN n ELSE BUFFER_SIZE - 1
  BY Constants
<1>2. Kept(r, n) = Answer(r, 1, m)
  BY <1>1, KeptIs
<1>3. 1 \in Nat \ {0} /\ 1 - 1 <= m /\ m - 1 + 1 = m /\ m \in Int
  BY <1>1
<1>4. Answer(r, 1, m) \in Seq(Bytes) /\ Len(Answer(r, 1, m)) = m
  BY <1>3, AnswerIs
<1> QED BY <1>1, <1>2, <1>4

LEMMA KeptNothing ==
  ASSUME NEW r \in 1..MaxRequests
  PROVE  Kept(r, 0) = << >> /\ Kept(r, -1) = << >>
<1>1. Len(Kept(r, 0)) = 0 /\ Kept(r, 0) \in Seq(Bytes)
  BY KeptLength, Constants
<1>2. Kept(r, 0) = << >>
  BY <1>1, EmptySeq
<1>3. Answer(r, 1, -1) = << >> /\ Answer(r, 1, 0) = << >>
  <2>1. 1..(-1 - 1 + 1) = {} /\ 1..(0 - 1 + 1) = {}
    OBVIOUS
  <2> QED BY <2>1 DEF Answer
<1> QED BY <1>2, <1>3 DEF Kept

(* The buffer holds as much when the answer comes in two pieces. *)
LEMMA KeptJoin ==
  ASSUME NEW r \in 1..MaxRequests, NEW a \in Nat, NEW b \in Nat, a <= b
  PROVE  Truncated(Kept(r, a) \o Answer(r, a + 1, b)) = Kept(r, b)
<1> DEFINE s == Kept(r, a)
           t == Answer(r, a + 1, b)
           n == IF a < BUFFER_SIZE THEN a ELSE BUFFER_SIZE - 1
           m == IF n + (b - a) < BUFFER_SIZE THEN n + (b - a) ELSE BUFFER_SIZE - 1
           u == Answer(r, 1, m)
<1>1. /\ n \in Nat /\ n <= a /\ b - a \in Nat /\ m \in Nat /\ m <= n + (b - a) /\ m < BUFFER_SIZE
      /\ n < a => m = n
      /\ m = IF b < BUFFER_SIZE THEN b ELSE BUFFER_SIZE - 1
  BY Constants
<1>2. Kept(r, b) = u
  BY <1>1, KeptIs
<1>3. /\ s \in Seq(Bytes) /\ Len(s) = n /\ \A i \in 1..n : s[i] = << r, i >>
  <2>1. s = Answer(r, 1, n)
    BY KeptIs
  <2>2. 1 \in Nat \ {0} /\ n \in Int /\ 1 - 1 <= n /\ n - 1 + 1 = n
    BY <1>1
  <2> HIDE DEF n, s
  <2>3. s \in Seq(Bytes) /\ Len(s) = n /\ \A i \in 1..n : s[i] = << r, 1 + i - 1 >>
    BY <2>1, <2>2, AnswerIs
  <2>4. \A i \in 1..n : 1 + i - 1 = i
    OBVIOUS
  <2> QED BY <2>3, <2>4
<1>4. /\ t \in Seq(Bytes) /\ Len(t) = b - a /\ \A i \in 1..(b - a) : t[i] = << r, a + i >>
  <2>1. a + 1 \in Nat \ {0} /\ b \in Int /\ (a + 1) - 1 <= b /\ b - (a + 1) + 1 = b - a
    OBVIOUS
  <2>2. /\ t \in Seq(Bytes) /\ Len(t) = b - a
        /\ \A i \in 1..(b - a) : t[i] = << r, (a + 1) + i - 1 >>
    BY <2>1, AnswerIs
  <2>3. \A i \in 1..(b - a) : (a + 1) + i - 1 = a + i
    OBVIOUS
  <2> QED BY <2>2, <2>3
<1>5. /\ u \in Seq(Bytes) /\ Len(u) = m /\ \A i \in 1..m : u[i] = << r, i >>
  <2>1. 1 \in Nat \ {0} /\ m \in Int /\ 1 - 1 <= m /\ m - 1 + 1 = m
    BY <1>1
  <2> HIDE DEF m
  <2>2. u \in Seq(Bytes) /\ Len(u) = m /\ \A i \in 1..m : u[i] = << r, 1 + i - 1 >>
    BY <2>1, AnswerIs
  <2>3. \A i \in 1..m : 1 + i - 1 = i
    OBVIOUS
  <2> QED BY <2>2, <2>3
<1> DEFINE c == s \o t
<1> HIDE DEF s, t, u, n
<1>6. /\ c \in Seq(Bytes) /\ Len(c) = n + (b - a)
      /\ \A i \in 1..(n + (b - a)) : c[i] = IF i <= n THEN s[i] ELSE t[i - n]
  <2> HIDE DEF Bytes
  <2>1. /\ c \in Seq(Bytes) /\ Len(c) = Len(s) + Len(t)
        /\ \A i \in 1..(Len(s) + Len(t)) : c[i] = IF i <= Len(s) THEN s[i] ELSE t[i - Len(s)]
    BY <1>3, <1>4, ConcatProperties
  <2> QED BY <1>3, <1>4, <2>1
<1>7. ASSUME NEW i \in 1..m PROVE c[i] = u[i]
  <2>1. i \in 1..(n + (b - a)) /\ (i > n => i - n \in 1..(b - a) /\ a = n /\ a + (i - n) = i)
    BY <1>1, <1>7
  <2>2. CASE i <= n
    <3>1. i \in 1..n /\ c[i] = s[i]
      BY <1>1, <1>6, <1>7, <2>1, <2>2
    <3> QED BY <1>3, <1>5, <1>7, <3>1
  <2>3. CASE i > n
    <3>1. c[i] = t[i - n] /\ t[i - n] = << r, a + (i - n) >>
      BY <1>1, <1>4, <1>6, <1>7, <2>1, <2>3
    <3> QED BY <1>5, <1>7, <2>1, <2>3, <3>1
  <2>4. i <= n \/ i > n
    BY <1>1, <1>7
  <2> QED BY <2>2, <2>3, <2>4
<1>8. Truncated(c) = SubSeq(c, 1, m)
  BY <1>1, <1>6 DEF Truncated
<1> HIDE DEF c, m
<1>9. /\ SubSeq(c, 1, m) \in Seq(Bytes) /\ Len(SubSeq(c, 1, m)) = m
      /\ \A i \in 1..m : SubSeq(c, 1, m)[i] = c[i]
  <2>1. 1 \in Int /\ m \in Int /\ \A i \in 1..m : i \in 1..Len(c) /\ c[i] \in Bytes
    <3> HIDE DEF Bytes
    <3> QED BY <1>1, <1>6
  <2>2. /\ SubSeq(c, 1, m) \in Seq(Bytes)
        /\ Len(SubSeq(c, 1, m)) = IF 1 <= m THEN m - 1 + 1 ELSE 0
        /\ \A i \in 1..(m - 1 + 1) : SubSeq(c, 1, m)[i] = c[1 + i - 1]
    BY <2>1, SubSeqProperties
  <2> QED BY <1>1, <2>2
<1>10. SubSeq(c, 1, m) = u
  <2> HIDE DEF Bytes
  <2> QED BY <1>5, <1>7, <1>9, SeqEqual
<1> QED BY <1>2, <1>8, <1>10 DEF c, s, t

(* The bytes of a segment that stands where the response ends. *)
LEMMA KeptSegment ==
  ASSUME NEW r \in 1..MaxRequests, NEW seq \in Nat, seq >= 1, NEW data, Len(data) \in Nat,
         data = Answer(r, seq, seq + Len(data) - 1)
  PROVE  (IF Len(data) > 0 THEN Truncated(Kept(r, seq - 1) \o data) ELSE Kept(r, seq - 1))
           = Kept(r, seq + Len(data) - 1)
<1>1. /\ seq - 1 \in Nat /\ (seq - 1) + 1 = seq /\ seq + Len(data) - 1 \in Nat
      /\ seq - 1 <= seq + Len(data) - 1
  OBVIOUS
<1>2. CASE Len(data) > 0
  BY <1>1, <1>2, KeptJoin
<1>3. CASE ~(Len(data) > 0)
  <2>1. seq + Len(data) - 1 = seq - 1
    BY <1>3
  <2> QED BY <1>3, <2>1
<1> QED BY <1>2, <1>3

LEMMA ContentsGrows ==
  ASSUME NEW d \in Seq(DownSegments), NEW seg \in DownSegments, NEW p, NEW k, NEW next,
         Contents(d, p, k), next.request = k.request,
         next = k \/ k.state # "finished", seg.port = p => k.state # "finished" /\ Faithful(seg, next)
  PROVE  Contents(Append(d, seg), p, next)
<1> DEFINE e == Append(d, seg)
           n == Len(d) + 1
<1>1. /\ Len(d) \in Nat /\ Len(e) = n /\ e[n] = seg
      /\ \A i \in Idx(d, p) : i \in 1..Len(d) /\ e[i] = d[i]
      /\ Idx(e, p) = IF seg.port = p THEN Idx(d, p) \cup {n} ELSE Idx(d, p)
  BY IdxGrows
<1> HIDE DEF e
<1>2. ASSUME NEW i \in Idx(d, p)
      PROVE  Faithful(e[i], next) /\ (e[i].fin => seg.port # p /\ \A j \in Idx(d, p) : j <= i)
  BY <1>1 DEF Contents, Faithful
<1>3. \A i \in Idx(e, p) : i <= n
  BY <1>1
<1> QED BY <1>1, <1>2, <1>3 DEF Contents, e

LEMMA ContentsStays ==
  ASSUME NEW d, NEW p, NEW k, NEW next, Contents(d, p, k), next.request = k.request,
         k.state # "finished"
  PROVE  Contents(d, p, next)
BY DEF Contents, Faithful

LEMMA ContentsTails ==
  ASSUME NEW d \in Seq(DownSegments), d # << >>, NEW p, NEW k, Contents(d, p, k)
  PROVE  /\ Contents(Tail(d), p, k)
         /\ d[1].port = p => Faithful(d[1], k) /\ (d[1].fin => Idx(Tail(d), p) = {})
<1>1. /\ \A i \in Idx(d, p) : i \in 1..Len(d)
      /\ \A i \in Idx(Tail(d), p) : /\ i \in 1..(Len(d) - 1) /\ i + 1 \in Idx(d, p)
                                    /\ Tail(d)[i] = d[i + 1]
      /\ Len(d) \in Nat /\ (1 \in Idx(d, p) <=> d[1].port = p)
  BY IdxTails
<1>2. ASSUME NEW i \in Idx(Tail(d), p)
      PROVE  /\ Faithful(Tail(d)[i], k)
             /\ Tail(d)[i].fin => \A j \in Idx(Tail(d), p) : j <= i
  <2>1. Faithful(Tail(d)[i], k) /\ (Tail(d)[i].fin => \A j \in Idx(d, p) : j <= i + 1)
    BY <1>1 DEF Contents
  <2>2. Tail(d)[i].fin => \A j \in Idx(Tail(d), p) : j + 1 <= i + 1
    BY <1>1, <2>1
  <2>3. \A j \in Idx(Tail(d), p) : j + 1 <= i + 1 => j <= i
    BY <1>1
  <2> QED BY <2>1, <2>2, <2>3
<1>3. ASSUME d[1].port = p
      PROVE  Faithful(d[1], k) /\ (d[1].fin => Idx(Tail(d), p) = {})
  <2>1. Faithful(d[1], k) /\ (d[1].fin => \A j \in Idx(d, p) : j <= 1)
    BY <1>1, <1>3 DEF Contents
  <2>2. ASSUME d[1].fin, NEW i \in Idx(Tail(d), p) PROVE FALSE
    <3>1. i + 1 <= 1 /\ i \in 1..(Len(d) - 1)
      BY <1>1, <2>1, <2>2
    <3> QED BY <1>1, <3>1
  <2> QED BY <2>1, <2>2
<1> QED BY <1>2, <1>3 DEF Contents

-----------------------------------------------------------------------------
(* The steps keep the stream whole. *)

LEMMA OwnConnection ==
  ASSUME Inductive, Live
  PROVE  /\ client_port \in Ports /\ conns[client_port] \in Connections
         /\ conns[client_port].request = request /\ request \in 1..MaxRequests
         /\ conns[client_port].sent \in Nat /\ conns[client_port].length \in Nat
         /\ conns \in [Ports -> Connections] /\ down \in Seq(DownSegments) /\ tcp_ack \in Nat
         /\ response \in Seq(Bytes)
<1>1. /\ client_port \in Ports /\ client_port # 0 /\ conns[client_port] # Closed
      /\ conns \in [Ports -> Connections] /\ request \in 0..MaxRequests
      /\ down \in Seq(DownSegments) /\ tcp_ack \in Nat /\ response \in Seq(Bytes)
  BY DEF Live, Inductive, TypeOK
<1>2. conns[client_port].request = request /\ request # 0
  BY <1>1 DEF Inductive, PortIsOurs
<1>3. request \in 1..MaxRequests
  BY <1>1, <1>2, Constants
<1>4. conns[client_port] \in Connections
  BY <1>1
<1> QED BY <1>1, <1>2, <1>3, <1>4 DEF Connections

LEMMA StreamInit == Init => Stream
BY DEF Init, Stream, Live

(* What happens to other ports does not touch the stream. *)
LEMMA StreamElsewhere ==
  ASSUME Inductive, Stream,
         UNCHANGED << client_port, established, fin_received, tcp_ack, response >>,
         Undisturbed' => Undisturbed,
         Live' => Live /\ conns'[client_port] = conns[client_port],
         \/ down' = down
         \/ \E seg \in DownSegments : seg.port # client_port /\ down' = Append(down, seg)
         \/ down # << >> /\ down[1].port # client_port /\ down' = Tail(down)
  PROVE  Stream'
<1> SUFFICES ASSUME Live', Undisturbed' PROVE Stream'
  BY DEF Stream
<1> DEFINE k == conns[client_port]
<1>1. Live /\ Undisturbed /\ conns'[client_port'] = k /\ down \in Seq(DownSegments)
  BY OwnConnection
<1>2. /\ Serving(k) /\ Contents(down, client_port, k) /\ (established => tcp_ack > 0)
      /\ fin_received => /\ Idx(down, client_port) = {} /\ k.state = "finished"
                         /\ response = Kept(k.request, k.length)
      /\ ~fin_received => /\ Chain(down, client_port, Expected, 1 + k.sent)
                          /\ response = Kept(k.request, Expected - 1)
  BY <1>1 DEF Stream
<1>3. Expected' = Expected
  BY DEF Expected
<1> DEFINE last == 1 + k.sent
           first == Expected
<1>4. /\ Contents(down', client_port, k)
      /\ Idx(down, client_port) = {} => Idx(down', client_port) = {}
      /\ Chain(down, client_port, first, last) => Chain(down', client_port, first, last)
  <2> HIDE DEF first, last, k, DownSegments
  <2>1. CASE down' = down
    BY <1>2, <2>1
  <2>2. ASSUME NEW seg \in DownSegments, seg.port # client_port, down' = Append(down, seg)
        PROVE  /\ Contents(down', client_port, k)
               /\ Idx(down, client_port) = {} => Idx(down', client_port) = {}
               /\ Chain(down, client_port, first, last) => Chain(down', client_port, first, last)
    BY <1>1, <1>2, <2>2, IdxGrows, ContentsGrows, ChainGrows
  <2>3. CASE down # << >> /\ down[1].port # client_port /\ down' = Tail(down)
    <3>1. Idx(down, client_port) = {} => Idx(down', client_port) = {}
      BY <1>1, <2>3, IdxTails
    <3> QED BY <1>1, <1>2, <2>3, <3>1, ContentsTails, ChainTails
  <2> QED BY <2>1, <2>2, <2>3
<1> HIDE DEF k
<1> QED BY <1>1, <1>2, <1>3, <1>4 DEF Stream

LEMMA StreamThread ==
  ASSUME Inductive, Opening, Stream, Thread
  PROVE  Stream'
<1>1. CASE Start \/ SendSyn
  <2>1. ~Live'
    BY <1>1, OpeningStart, OpeningSyn
  <2> QED BY <2>1 DEF Stream
<1>2. CASE ResolveFails \/ SynTimeout \/ SendRequest \/ CollectOver \/ DrainOver
  <2>1. UNCHANGED << client_port, flags, tcp_ack, response, down, conns, network >>
    BY <1>2 DEF ResolveFails, SynTimeout, SendRequest, CollectOver, DrainOver, flags, server,
           network
  <2>2. Live' = Live
    BY <2>1 DEF Live
  <2> QED BY <2>1, <2>2, StreamElsewhere DEF flags, network, Undisturbed
<1> QED BY <1>1, <1>2 DEF Thread

(* The next segment of the stream is the one that tcp_handle expects: a      *)
(* SYN+ACK before anything else, then the byte after the last one.           *)
LEMMA StreamPoll ==
  ASSUME Inductive, Opening, Stream, Poll
  PROVE  Stream'
<1>1. /\ tcp_handle("server", down[1]) /\ down' = Tail(down) /\ down # << >> /\ Head(down) = down[1]
      /\ UNCHANGED << pc, client_port, conns, resends, strays, request >>
  BY QueueTails DEF Poll, server, network
<1>2. Live' = Live
  BY OpeningPoll
<1>3. CASE down[1].port # client_port
  <2>1. UNCHANGED << flags, tcp_ack, response, up >>
    BY <1>1, <1>3, ServerSegment DEF Ignore, Ours, Inductive, TypeOK
  <2> QED BY <1>1, <1>2, <1>3, <2>1, StreamElsewhere DEF flags, Undisturbed
<1>4. CASE down[1].port = client_port /\ Undisturbed
  <2> DEFINE k == conns[client_port]
             seg == down[1]
  <2>1. Live
    BY <1>1, <1>4, HeadIsLive DEF Ours
  <2>2. /\ client_port \in Ports /\ k.request \in 1..MaxRequests /\ down \in Seq(DownSegments)
        /\ tcp_ack \in Nat /\ k.sent \in Nat /\ k.length \in Nat
    BY <2>1, OwnConnection
  <2>3. /\ Serving(k) /\ Contents(down, client_port, k) /\ (established => tcp_ack > 0)
        /\ fin_received => Idx(down, client_port) = {}
        /\ ~fin_received => /\ Chain(down, client_port, Expected, 1 + k.sent)
                            /\ response = Kept(k.request, Expected - 1)
    BY <1>4, <2>1 DEF Stream
  <2>4. seg \in DownSegments /\ 1 \in Idx(down, client_port)
    <3> HIDE DEF DownSegments
    <3> QED BY <1>1, <1>4, <2>2, IdxTails
  <2>5. ~fin_received
    BY <2>3, <2>4
  <2>6. /\ seg.seq \in Nat /\ Len(seg.data) \in Nat /\ seg.syn \in BOOLEAN /\ seg.fin \in BOOLEAN
        /\ seg.data \in Seq(Bytes)
    BY <2>4, SegmentFields
  <2>7. /\ seg.seq = Expected /\ Chain(down', client_port, End(seg), 1 + k.sent)
        /\ Contents(down', client_port, k)
        /\ Faithful(seg, k) /\ (seg.fin => Idx(down', client_port) = {})
    <3> DEFINE last == 1 + k.sent
               first == Expected
    <3> HIDE DEF first, last, k, DownSegments
    <3>1. Chain(down, client_port, first, last)
      BY <2>3, <2>5 DEF first, last
    <3>2. /\ seg.seq = first /\ Chain(Tail(down), client_port, End(seg), last)
          /\ Contents(Tail(down), client_port, k)
          /\ Faithful(seg, k) /\ (seg.fin => Idx(Tail(down), client_port) = {})
      BY <1>1, <1>4, <2>2, <2>3, <3>1, ChainTails, ContentsTails
    <3> QED BY <1>1, <3>2 DEF first, last
  <2>8. response = Kept(k.request, seg.seq - 1)
    BY <2>3, <2>5, <2>7
  <2>9. TakeSynAck("server", seg) \/ TakeData("server", seg)
    BY <1>1, <1>4, ServerSegment DEF Ours
  <2>10. /\ Live' /\ Undisturbed' /\ conns'[client_port'] = k /\ client_port' = client_port
         /\ seg.port = client_port
    BY <1>1, <1>2, <1>4, <2>1 DEF Undisturbed
  <2> HIDE DEF k, seg
  <2>11. CASE seg.syn
    <3>1. seg.seq = 0 /\ seg.data = << >> /\ Len(seg.data) = 0
      BY <2>7, <2>11 DEF Faithful
    <3>2. /\ established' = TRUE /\ tcp_ack' = seg.seq + 1
          /\ UNCHANGED << fin_received, response >>
      BY <2>9, <2>10, <2>11 DEF TakeSynAck, TakeData, FromServer
    <3>3. Expected' = 1 /\ End(seg) = 1 /\ tcp_ack' > 0
      BY <2>11, <3>1, <3>2 DEF Expected, End
    <3>4. response' = Kept(k.request, 0)
      <4>1. seg.seq - 1 = -1
        BY <3>1
      <4> QED BY <2>2, <2>8, <3>2, <4>1, KeptNothing
    <3>5. Expected' - 1 = 0 /\ ~fin_received'
      BY <2>5, <3>2, <3>3
    <3> QED BY <2>3, <2>7, <2>10, <3>3, <3>4, <3>5 DEF Stream
  <2>12. CASE ~seg.syn
    <3>1. /\ seg.seq >= 1 /\ seg.data = Answer(k.request, seg.seq, seg.seq + Len(seg.data) - 1)
      BY <2>7, <2>12 DEF Faithful
    <3>2. established /\ tcp_ack = seg.seq
      BY <2>6, <2>7, <3>1 DEF Expected
    <3>3. /\ fin_received' = seg.fin /\ established' = established
          /\ response' = IF Len(seg.data) > 0 THEN Truncated(response \o seg.data) ELSE response
          /\ tcp_ack' = IF seg.fin THEN seg.seq + 1
                        ELSE IF Len(seg.data) > 0 THEN seg.seq + Len(seg.data) ELSE tcp_ack
      BY <2>5, <2>6, <2>9, <2>10, <2>12, <3>2 DEF TakeSynAck, TakeData, AckData, FromServer, ToOurPort
    <3>4. response' = Kept(k.request, seg.seq + Len(seg.data) - 1)
      BY <2>2, <2>6, <2>8, <3>1, <3>3, KeptSegment
    <3>5. End(seg) = seg.seq + Len(seg.data)
      BY <2>6, <2>12 DEF End
    <3>6. CASE seg.fin
      <4>1. k.state = "finished" /\ seg.seq + Len(seg.data) - 1 = k.length
        <5>1. k.state = "finished" /\ End(seg) = 1 + k.length
          BY <2>7, <3>6 DEF Faithful
        <5> QED BY <2>2, <2>6, <3>5, <5>1
      <4>2. fin_received' /\ Idx(down', client_port) = {} /\ response' = Kept(k.request, k.length)
        BY <2>7, <3>3, <3>4, <3>6, <4>1
      <4>3. tcp_ack' > 0
        BY <2>6, <3>3, <3>6
      <4> QED BY <2>3, <2>7, <2>10, <4>1, <4>2, <4>3 DEF Stream
    <3>7. CASE ~seg.fin
      <4>1. tcp_ack' = seg.seq + Len(seg.data) /\ tcp_ack' > 0
        BY <2>6, <3>1, <3>2, <3>3, <3>7
      <4>2. Expected' = End(seg) /\ Expected' - 1 = seg.seq + Len(seg.data) - 1 /\ ~fin_received'
        <5>1. ~fin_received' /\ established'
          BY <3>2, <3>3, <3>7
        <5>2. Expected' = End(seg)
          BY <3>5, <4>1, <5>1 DEF Expected
        <5>3. Expected' - 1 = seg.seq + Len(seg.data) - 1
          <6>1. PICK e : e = Expected'
            OBVIOUS
          <6>2. e = seg.seq + Len(seg.data) /\ e \in Int
            BY <2>6, <3>5, <5>2, <6>1
          <6>3. e - 1 = seg.seq + Len(seg.data) - 1
            BY <2>6, <6>2
          <6> QED BY <6>1, <6>3
        <5> QED BY <5>1, <5>2, <5>3
      <4> QED BY <2>3, <2>7, <2>10, <3>4, <4>1, <4>2 DEF Stream
    <3> QED BY <3>6, <3>7
  <2> QED BY <2>11, <2>12
<1>5. CASE ~Undisturbed
  BY <1>1, <1>5 DEF Stream, Undisturbed
<1> QED BY <1>3, <1>4, <1>5

(* A connection starts with nothing sent and nothing on the way; the         *)
(* server's SYN+ACK is the first segment of the stream.                      *)
LEMMA StreamTakes ==
  ASSUME Inductive, Opening, Stream, ServerTakes
  PROVE  Stream'
<1>1. PICK s \in UpSegments :
        /\ up # << >> /\ s = up[1] /\ up' = Tail(up) /\ s.port \in Ports
        /\ UNCHANGED << client, network >>
        /\ \/ /\ s.kind = "syn" /\ conns' = [conns EXCEPT ![s.port] = Opened(s)]
              /\ down' = Append(down, Reply(s.port, 0, TRUE, FALSE, << >>))
           \/ /\ conns[s.port].state = "open"
              /\ \E n \in AnswerLengths :
                   conns' = [conns EXCEPT ![s.port] = [conns[s.port] EXCEPT !.state = "answering",
                               !.length = n, !.rcv = s.seq + REQUEST_LENGTH]]
              /\ UNCHANGED down
           \/ UNCHANGED << conns, down >>
  BY TakesProps
<1>2. /\ UNCHANGED << client_port, established, fin_received, tcp_ack, response, request, resends,
                    strays >>
      /\ conns \in [Ports -> Connections] /\ (client_port # 0 => client_port \in Ports)
      /\ down \in Seq(DownSegments)
  BY <1>1 DEF client, flags, network, Inductive, TypeOK
<1>3. CASE UNCHANGED << conns, down >>
  BY <1>2, <1>3, StreamElsewhere DEF Live, Undisturbed
<1>4. CASE /\ s.kind = "syn" /\ conns' = [conns EXCEPT ![s.port] = Opened(s)]
           /\ down' = Append(down, Reply(s.port, 0, TRUE, FALSE, << >>))
  <2> DEFINE seg == Reply(s.port, 0, TRUE, FALSE, << >>)
             k   == Opened(s)
  <2>1. /\ seg \in DownSegments /\ seg.port = s.port /\ seg.seq = 0 /\ seg.syn /\ ~seg.fin
        /\ seg.data = << >>
    BY <1>1, ReplyOpen
  <2>2. CASE s.port # client_port
    <3>1. Live' => Live /\ conns'[client_port] = conns[client_port]
      BY <1>1, <1>2, <1>4, <2>2 DEF Live
    <3> HIDE DEF seg, DownSegments
    <3>2. down' = Append(down, seg)
      BY <1>4 DEF seg
    <3> QED BY <1>2, <2>1, <2>2, <3>1, <3>2, StreamElsewhere DEF Undisturbed
  <2>3. CASE s.port = client_port
    <3>1. ~Live /\ client_port # 0
      <4>1. 1 \in 1..Len(up)
        BY <1>1, QueueTails
      <4>2. conns[client_port] = Closed
        BY <1>1, <1>4, <2>3, <4>1 DEF Opening, SynAlone
      <4> QED BY <1>1, <2>3, <4>2, Constants DEF Live
    <3>2. ~established /\ ~fin_received /\ response = << >> /\ Idx(down, client_port) = {}
      BY <3>1 DEF Opening, Quiet, Here, Idx
    <3>3. /\ conns'[client_port] = k /\ k.state = "open" /\ k.sent = 0 /\ k.request = s.of
      BY <1>1, <1>2, <1>4, <2>3 DEF Opened
    <3>4. s.of \in 1..MaxRequests
      BY <1>1 DEF UpSegments
    <3>5. Expected' = 0 /\ response' = Kept(k.request, Expected' - 1)
      <4>1. Expected' = 0 /\ 0 - 1 = -1
        BY <1>2, <3>2 DEF Expected
      <4> QED BY <1>2, <3>2, <3>3, <3>4, <4>1, KeptNothing
    <3>6. End(seg) = 1
      <4>1. Len(seg.data) = 0
        BY <2>1
      <4> HIDE DEF seg
      <4> QED BY <2>1, <4>1 DEF End
    <3> HIDE DEF seg, k, DownSegments
    <3>7. down' = Append(down, seg) /\ Len(down) \in Nat
      BY <1>4, QueueTails DEF seg
    <3>8. Contents(down', client_port, k)
      <4>1. Contents(down, client_port, k) /\ Faithful(seg, k)
        BY <2>1, <3>2 DEF Contents, Faithful
      <4> QED BY <1>2, <2>1, <3>3, <3>7, <4>1, ContentsGrows
    <3>9. Chain(down', client_port, 0, 1)
      <4>1. Chain(down, client_port, 0, 0)
        BY <3>2, <3>7, ChainEmpty
      <4> QED BY <1>2, <2>1, <2>3, <3>6, <3>7, <4>1, ChainGrows
    <3>10. Serving(k) /\ 1 + k.sent = 1
      BY <3>3 DEF Serving
    <3> QED BY <1>2, <3>2, <3>3, <3>5, <3>8, <3>9, <3>10 DEF Stream
  <2> QED BY <2>2, <2>3
<1>5. CASE /\ conns[s.port].state = "open"
           /\ \E n \in AnswerLengths :
                conns' = [conns EXCEPT ![s.port] = [conns[s.port] EXCEPT !.state = "answering",
                            !.length = n, !.rcv = s.seq + REQUEST_LENGTH]]
           /\ UNCHANGED down
  <2>1. conns[s.port] # Closed
    BY <1>5, ClosedType
  <2>2. CASE s.port # client_port
    <3>1. Live' => Live /\ conns'[client_port] = conns[client_port]
      BY <1>1, <1>2, <1>5, <2>2 DEF Live
    <3> QED BY <1>2, <1>5, <3>1, StreamElsewhere DEF Undisturbed
  <2>3. CASE s.port = client_port /\ Undisturbed
    <3>1. Live
      BY <1>1, <2>1, <2>3, Constants DEF Live
    <3> DEFINE k    == conns[client_port]
               next == conns'[client_port]
    <3>2. /\ k.state = "open" /\ k.sent = 0 /\ Contents(down, client_port, k)
          /\ (established => tcp_ack > 0)
          /\ fin_received => k.state = "finished"
          /\ ~fin_received => /\ Chain(down, client_port, Expected, 1 + k.sent)
                              /\ response = Kept(k.request, Expected - 1)
      BY <1>5, <2>3, <3>1 DEF Stream, Serving
    <3>3. next.state = "answering" /\ next.sent = k.sent /\ next.request = k.request
      <4>1. k \in Connections
        BY <3>1, OwnConnection
      <4>2. PICK n, rcv :
              conns' = [conns EXCEPT ![s.port] = [conns[s.port] EXCEPT !.state = "answering",
                          !.length = n, !.rcv = rcv]]
        BY <1>5
      <4>3. next = [k EXCEPT !.state = "answering", !.length = n, !.rcv = rcv]
        BY <1>1, <1>2, <2>3, <4>2
      <4> HIDE DEF k, next
      <4> QED BY <4>1, <4>3 DEF Connections
    <3> HIDE DEF k, next
    <3>4. Contents(down', client_port, next)
      BY <1>5, <3>2, <3>3, ContentsStays
    <3>5. Serving(next) /\ Expected' = Expected
      BY <1>2, <3>3 DEF Serving, Expected
    <3> QED BY <1>2, <1>5, <3>2, <3>3, <3>4, <3>5 DEF Stream, Undisturbed, next
  <2>4. CASE ~Undisturbed
    BY <1>2, <2>4 DEF Stream, Undisturbed
  <2> QED BY <2>2, <2>3, <2>4
<1> QED BY <1>1, <1>3, <1>4, <1>5

(* What the server sends begins where its last segment ended. *)
LEMMA StreamSends ==
  ASSUME Inductive, Opening, Stream, NEW p \in Ports,
         ServerSends(p) \/ ServerResends(p) \/ ServerForgets(p)
  PROVE  Stream'
<1>1. /\ UNCHANGED << client_port, established, fin_received, tcp_ack, response, request >>
      /\ conns \in [Ports -> Connections] /\ (client_port # 0 => client_port \in Ports)
      /\ Undisturbed' => Undisturbed
  <2>1. UNCHANGED client
    BY DEF ServerSends, ServerResends, ServerForgets
  <2>2. UNCHANGED << client_port, established, fin_received, tcp_ack, response, request >>
    BY <2>1 DEF client, flags
  <2>3. resends \in Nat /\ strays' = strays /\ (resends' = resends \/ resends' = resends + 1)
    <3>1. resends \in Nat
      BY Constants DEF Inductive, TypeOK
    <3> QED BY <3>1 DEF ServerSends, ServerResends, ServerForgets, network
  <2>4. Undisturbed' => Undisturbed
    BY <2>3 DEF Undisturbed
  <2> QED BY <2>2, <2>4 DEF Inductive, TypeOK
<1>2. Live' = Live
  BY OpeningSends
<1>3. CASE ServerSends(p)
  <2>1. PICK n \in Nat, fin \in BOOLEAN, seg \in DownSegments :
          LET k == conns[p]
          IN  /\ k.state = "answering" /\ k.sent \in Nat
              /\ fin => k.sent + n = k.length
              /\ seg = Reply(p, 1 + k.sent, FALSE, fin, Answer(k.request, k.sent + 1, k.sent + n))
              /\ down' = Append(down, seg)
              /\ conns' = [conns EXCEPT ![p].sent = k.sent + n,
                                        ![p].state = IF fin THEN "finished" ELSE "answering"]
              /\ UNCHANGED << client, up, network >>
    BY <1>3, SendsProps
  <2>2. /\ seg.port = p /\ seg.seq = 1 + conns[p].sent /\ ~seg.syn /\ seg.fin = fin
        /\ seg.data = Answer(conns[p].request, conns[p].sent + 1, conns[p].sent + n)
    BY <2>1 DEF Reply
  <2>3. CASE p # client_port
    <3>1. Live' => conns'[client_port] = conns[client_port]
      BY <1>1, <1>2, <2>1, <2>3 DEF Live
    <3> HIDE DEF DownSegments
    <3> QED BY <1>1, <1>2, <2>1, <2>2, <2>3, <3>1, StreamElsewhere
  <2>4. CASE p = client_port /\ Undisturbed /\ Live
    <3> DEFINE k    == conns[client_port]
               next == conns'[client_port]
    <3>1. /\ k.request \in 1..MaxRequests /\ k.sent \in Nat /\ k.length \in Nat
          /\ k \in Connections /\ down \in Seq(DownSegments)
      BY <2>4, OwnConnection
    <3>2. /\ k.state = "answering" /\ Contents(down, client_port, k)
          /\ (established => tcp_ack > 0)
          /\ fin_received => k.state = "finished"
          /\ ~fin_received => /\ Chain(down, client_port, Expected, 1 + k.sent)
                              /\ response = Kept(k.request, Expected - 1)
      BY <2>1, <2>4 DEF Stream
    <3>3. /\ next.state = IF fin THEN "finished" ELSE "answering"
          /\ next.sent = k.sent + n /\ next.request = k.request /\ next.length = k.length
      BY <1>1, <2>1, <2>4, <3>1 DEF Connections
    <3>4. /\ seg.seq = 1 + k.sent /\ seg.data = Answer(k.request, k.sent + 1, k.sent + n)
      BY <2>2, <2>4
    <3>5. Len(seg.data) = n
      <4>1. /\ k.sent + 1 \in Nat \ {0} /\ k.sent + n \in Int /\ (k.sent + 1) - 1 <= k.sent + n
            /\ (k.sent + n) - (k.sent + 1) + 1 = n
        <5> HIDE DEF k
        <5> QED BY <3>1
      <4> HIDE DEF k
      <4> QED BY <3>1, <3>4, <4>1, AnswerIs
    <3> HIDE DEF k, next
    <3>6. End(seg) = 1 + next.sent
      BY <2>2, <3>1, <3>3, <3>4, <3>5 DEF End
    <3>7. Faithful(seg, next)
      <4>1. seg.seq >= 1 /\ seg.data = Answer(next.request, seg.seq, seg.seq + Len(seg.data) - 1)
        <5>1. k.sent + 1 = seg.seq /\ k.sent + n = seg.seq + Len(seg.data) - 1 /\ seg.seq >= 1
          BY <3>1, <3>4, <3>5
        <5> QED BY <3>3, <3>4, <5>1
      <4>2. fin => next.state = "finished" /\ End(seg) = 1 + next.length
        BY <2>1, <2>4, <3>3, <3>6 DEF k
      <4> QED BY <2>2, <4>1, <4>2 DEF Faithful
    <3>8. Contents(down', client_port, next)
      <4> HIDE DEF DownSegments
      <4> QED BY <2>1, <3>1, <3>2, <3>3, <3>7, ContentsGrows
    <3>9. ~fin_received /\ Chain(down, client_port, Expected, 1 + k.sent)
      BY <3>2
    <3>10. Chain(down', client_port, Expected, 1 + next.sent)
      <4> DEFINE first == Expected
                 last  == 1 + k.sent
                 new   == 1 + next.sent
      <4>1. /\ down \in Seq(DownSegments) /\ Chain(down, client_port, first, last)
            /\ seg.port = client_port /\ seg.seq = last /\ End(seg) = new
            /\ down' = Append(down, seg)
        BY <2>1, <2>2, <2>4, <3>1, <3>4, <3>6, <3>9
      <4> HIDE DEF first, last, new, DownSegments
      <4>2. Chain(down', client_port, first, new)
        BY <2>1, <4>1, ChainGrows
      <4> QED BY <4>2 DEF first, new
    <3>11. Serving(next)
      <4>1. fin => next.sent = next.length
        BY <2>1, <2>4, <3>3 DEF k
      <4> QED BY <3>3, <4>1 DEF Serving
    <3>12. Expected' = Expected
      BY <1>1 DEF Expected
    <3> QED BY <1>1, <2>1, <3>2, <3>3, <3>8, <3>9, <3>10, <3>11, <3>12 DEF Stream, next
  <2>5. CASE ~Undisturbed \/ ~Live
    BY <1>1, <1>2, <2>5 DEF Stream
  <2> QED BY <2>3, <2>4, <2>5
<1>4. CASE ServerResends(p)
  <2>1. resends' # 0
    <3>1. resends \in Nat /\ resends' = resends + 1
      BY <1>4, Constants DEF ServerResends, Inductive, TypeOK
    <3> QED BY <3>1
  <2> QED BY <2>1 DEF Stream, Undisturbed
<1>5. CASE ServerForgets(p)
  <2>1. p # client_port /\ conns' = [conns EXCEPT ![p] = Closed] /\ UNCHANGED << down, resends >>
    BY <1>5 DEF ServerForgets, network
  <2>2. Live => conns'[client_port] = conns[client_port]
    BY <1>1, <2>1 DEF Live
  <2> QED BY <1>1, <1>2, <2>1, <2>2, StreamElsewhere
<1> QED BY <1>3, <1>4, <1>5

(* A segment of another host leaves the stream alone, or disturbs it. *)
LEMMA StreamStranger ==
  ASSUME Inductive, Stream, PollStranger
  PROVE  Stream'
<1>1. CASE strays' = 0
  <2>1. /\ UNCHANGED << client_port, established, fin_received, tcp_ack, response, down, conns,
                       resends >>
        /\ strays = 0
    BY <1>1, StrangerIgnored
  <2> QED BY <1>1, <2>1 DEF Stream, Live, Expected, Undisturbed
<1>2. CASE strays' # 0
  BY <1>2 DEF Stream, Undisturbed
<1> QED BY <1>1, <1>2

LEMMA StreamStep == Inductive /\ Opening /\ Stream /\ [Next]_vars => Stream'
<1>1. Stream /\ UNCHANGED vars => Stream'
  BY DEF Stream, Live, Expected, Undisturbed, vars, client, server, network, flags
<1> QED BY <1>1, StreamThread, StreamPoll, StreamStranger, StreamTakes, StreamSends DEF Next

(* Whatever is delayed or repeated, a response is a beginning of the bytes   *)
(* that the connection's server sends, without a gap, and the rest of them   *)
(* is on its way.                                                            *)
THEOREM WholeStream == Spec => [](Inductive /\ Opening /\ Stream)
<1>1. Init => Opening /\ Stream
  BY OpeningInit, StreamInit
<1>2. Inductive /\ Opening /\ Stream /\ [Next]_vars => (Opening /\ Stream)'
  BY OpeningStep, StreamStep
<1> QED BY <1>1, <1>2, Invariance, PTL DEF Spec

(* Unless the server sent something twice or another host sent to the port   *)
(* of the request, a FIN means that http_request has received the whole      *)
(* answer, as far as the buffer goes.                                        *)
THEOREM FinEndsAnswer == Spec => []FinMeansComplete
<1>1. Inductive /\ Opening /\ Stream => FinMeansComplete
  <2> SUFFICES ASSUME Inductive, Opening, Stream, fin_received, Undisturbed
               PROVE  response = Truncated(Answer(request, 1, conns[client_port].length))
    BY DEF FinMeansComplete
  <2>1. Live
    BY DEF Opening, Quiet
  <2>2. conns[client_port].request = request
    BY <2>1, OwnConnection
  <2> QED BY <2>1, <2>2 DEF Stream, Kept
<1> QED BY <1>1, WholeStream, PTL

-----------------------------------------------------------------------------
(* What http_request returns. *)

ResultInv == Undisturbed => result = Answer(request, 1, Len(result))

LEMMA EmptyAnswer == << >> = Answer(request, 1, 0) /\ Len(<< >>) = 0
BY DEF Answer

LEMMA ResponseIsPrefix ==
  ASSUME Inductive, Opening, Stream, Undisturbed
  PROVE  response = Answer(request, 1, Len(response))
<1>1. CASE ~Live
  BY <1>1, EmptyAnswer DEF Opening, Quiet
<1>2. CASE Live
  <2> DEFINE k == conns[client_port]
  <2>1. /\ k.request = request /\ request \in 1..MaxRequests /\ k.length \in Nat /\ tcp_ack \in Nat
    BY <1>2, OwnConnection
  <2>2. PICK n : response = Kept(request, n) /\ (n \in Nat \/ n = -1)
    <3>1. Expected - 1 \in Nat \/ Expected - 1 = -1
      BY <2>1 DEF Expected
    <3>2. response = Kept(request, k.length) \/ response = Kept(request, Expected - 1)
      BY <1>2, <2>1 DEF Stream
    <3> QED BY <2>1, <3>1, <3>2
  <2>3. CASE n \in Nat
    BY <2>1, <2>2, <2>3, KeptLength
  <2>4. CASE n = -1
    BY <2>1, <2>2, <2>4, KeptNothing, EmptyAnswer
  <2> QED BY <2>2, <2>3, <2>4
<1> QED BY <1>1, <1>2

LEMMA ResultStep == Inductive /\ Opening /\ Stream /\ ResultInv /\ [Next]_vars => ResultInv'
<1> SUFFICES ASSUME Inductive, Opening, Stream, ResultInv, [Next]_vars, Undisturbed'
             PROVE  result' = Answer(request', 1, Len(result'))
  BY DEF ResultInv
<1>1. Undisturbed
  <2>1. resends \in Nat /\ strays \in Nat
    BY Constants DEF Inductive, TypeOK
  <2>2. CASE PollStranger
    BY <2>2, StrangerIgnored DEF Undisturbed
  <2>3. CASE ~PollStranger
    <3>1. (resends' = resends \/ resends' = resends + 1) /\ strays' = strays
      BY <2>3 DEF Next, Thread, Start, ResolveFails, SendSyn, SynTimeout, SendRequest,
         CollectOver, DrainOver, Poll, ServerTakes, ServerSends, ServerResends, ServerForgets,
         vars, server, network
    <3> QED BY <2>1, <3>1 DEF Undisturbed
  <2> QED BY <2>2, <2>3
<1>2. CASE Start
  <2>1. result' = << >>
    BY <1>2 DEF Start
  <2>2. << >> = Answer(request', 1, 0)
    BY DEF Answer
  <2> QED BY <2>1, <2>2
<1>3. CASE CollectOver
  <2>1. (result' = response \/ result' = << >>) /\ request' = request
    BY <1>3 DEF CollectOver, Result
  <2> QED BY <1>1, <2>1, ResponseIsPrefix, EmptyAnswer
<1>4. CASE ~Start /\ ~CollectOver
  <2>1. UNCHANGED << result, request >>
    BY <1>4 DEF Next, Thread, ResolveFails, SendSyn, SynTimeout, SendRequest, DrainOver, Poll,
          PollStranger, ServerTakes, ServerSends, ServerResends, ServerForgets, vars, client
  <2> QED BY <1>1, <2>1 DEF ResultInv
<1> QED BY <1>2, <1>3, <1>4

(* Unless the server sent something twice or another host sent to the port   *)
(* of the request, http_request returns the beginning of the answer to its   *)
(* own request, or nothing, whatever the sizes of the two buffers and the    *)
(* moments its waiting loops give up.                                        *)
THEOREM ReturnsBeginning == Spec => []ResultIsPrefix
<1>1. Init => ResultInv
  <2> SUFFICES ASSUME Init PROVE ResultInv
    OBVIOUS
  <2> QED BY EmptyAnswer DEF Init, ResultInv
<1>2. ResultInv => ResultIsPrefix
  BY DEF ResultInv, ResultIsPrefix
<1> QED BY <1>1, <1>2, ResultStep, WholeStream, PTL DEF Spec

-----------------------------------------------------------------------------
(* Every request returns.                                                    *)

(* The fairness of FairSpec with the conditions written out under which its  *)
(* actions are possible: http_request does not stay for ever in a loop that  *)
(* counts down.                                                              *)
Connecting == ResolveFails \/ SendSyn \/ SynTimeout \/ SendRequest
Leaving == CollectOver \/ DrainOver

LoopsEnd ==
  /\ <>[](pc \in {"resolve", "syn"}) => []<><<Connecting>>_vars
  /\ <>[](pc \in {"collect", "drain"}) => []<><<Leaving>>_vars

(* It is what the weak fairness of FairSpec says, where these actions are    *)
(* possible in these phases.                                                 *)
LEMMA FairLoopsEnd ==
  FairSpec /\ [](/\ pc \in {"resolve", "syn"} => ENABLED <<Connecting>>_vars
                 /\ pc \in {"collect", "drain"} => ENABLED <<Leaving>>_vars)
    => Spec /\ LoopsEnd
BY PTL DEF FairSpec, LoopsEnd, Connecting, Leaving

LEMMA PhasesFollow ==
  ASSUME [Next]_vars
  PROVE  /\ pc = "resolve" => pc' \in {"resolve", "syn", "idle"}
         /\ pc = "syn" => pc' \in {"syn", "collect", "idle"}
         /\ pc = "collect" => pc' \in {"collect", "drain"}
         /\ pc = "drain" => pc' \in {"drain", "idle"}
BY DEF Next, Thread, Start, ResolveFails, SendSyn, SynTimeout, SendRequest, CollectOver,
   DrainOver, Poll, PollStranger, ServerTakes, ServerSends, ServerResends, ServerForgets, vars, client

(* Whatever the network does or leaves undone, http_request comes back to    *)
(* the shell: for every number of ports, requests and repeated segments.     *)
THEOREM RequestsReturn == Spec /\ LoopsEnd => RequestReturns
<1>1. TypeOK => \/ pc = "idle" \/ pc = "resolve" \/ pc = "syn" \/ pc = "collect" \/ pc = "drain"
  BY DEF TypeOK
<1>2. /\ pc # "idle" <=> ~(pc = "idle")
      /\ ~(pc = "resolve" /\ pc = "syn") /\ ~(pc = "collect" /\ pc = "drain")
      /\ pc \in {"resolve", "syn"} <=> pc = "resolve" \/ pc = "syn"
      /\ pc \in {"collect", "drain"} <=> pc = "collect" \/ pc = "drain"
  OBVIOUS
<1>3. [Next]_vars =>
        /\ pc = "resolve" => (pc = "resolve")' \/ (pc = "syn")' \/ (pc = "idle")'
        /\ pc = "syn" => (pc = "syn")' \/ (pc = "collect")' \/ (pc = "idle")'
        /\ pc = "collect" => (pc = "collect")' \/ (pc = "drain")'
        /\ pc = "drain" => (pc = "drain")' \/ (pc = "idle")'
  BY PhasesFollow
<1>4. <<Connecting>>_vars => /\ pc = "resolve" => ~(pc = "resolve")'
                             /\ pc = "syn" => ~(pc = "syn")'
  BY DEF Connecting, ResolveFails, SendSyn, SynTimeout, SendRequest
<1>5. <<Leaving>>_vars => /\ pc = "collect" => ~(pc = "collect")'
                          /\ pc = "drain" => ~(pc = "drain")'
  BY DEF Leaving, CollectOver, DrainOver
<1> QED BY <1>1, <1>2, <1>3, <1>4, <1>5, TypeCorrect, PTL DEF LoopsEnd, RequestReturns, Spec
=============================================================================
