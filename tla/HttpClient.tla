----------------------------- MODULE HttpClient -----------------------------
(***************************************************************************)
(* The TCP client of UwUOS (kernel/network.c, http_request and tcp_handle) *)
(* against a package server.  One request runs at a time, each from a port *)
(* of its own; net_poll hands over arriving segments whatever the kernel's *)
(* thread is doing, also between requests.  The network delivers in order  *)
(* and loses nothing, but it delivers late: segments of an old connection  *)
(* arrive during a later one, and the server may send data twice.  Other   *)
(* hosts may send segments to the same ports.  The server's sequence       *)
(* numbers are relative to its SYN.  A definition whose name extends the   *)
(* next one's is a mutation of it that a run must refute.                  *)
(***************************************************************************)
EXTENDS Integers, Sequences

CONSTANTS FIRST_PORT, LAST_PORT,    \* 50000 and 60000
          BUFFER_SIZE,              \* sizeof(http_response_buffer)
          max_len,                  \* size of the caller's buffer
          AnswerLengths,            \* how long the server's answers are
          SegmentSize,              \* bound: bytes in one segment
          MaxRequests,              \* bound: requests made
          MaxInFlight,              \* bound: segments under way in one direction
          StrangerSeqs,             \* sequence numbers in the segments of other hosts
          MaxDisturbances           \* bound: segments sent twice, or taken from other hosts

ASSUME HttpAssumption ==
  /\ FIRST_PORT \in Nat \ {0} /\ LAST_PORT \in Nat /\ FIRST_PORT <= LAST_PORT
  /\ BUFFER_SIZE \in Nat \ {0} /\ max_len \in Nat \ {0}
  /\ AnswerLengths \subseteq Nat
  /\ SegmentSize \in Nat \ {0} /\ MaxRequests \in Nat /\ MaxInFlight \in Nat
  /\ StrangerSeqs \subseteq Nat /\ MaxDisturbances \in Nat

VARIABLES pc,               \* where http_request is; "idle" outside it
          client_port, next_port,
          established, synack_received, fin_received,
          tcp_seq, tcp_ack,
          response,         \* http_response_buffer[0..http_response_len-1]
          result,           \* what the last request returned
          request,          \* number of the request, to tell its bytes from others
          up, down,         \* segments under way to the server, and from it
          conns,            \* the server's connections, by client port
          resends,          \* data segments sent twice; for every request
          strays            \* segments of other hosts taken; for every request

flags  == << established, synack_received, fin_received >>
client == << pc, client_port, next_port, flags, tcp_seq, tcp_ack, response, result, request >>
network == << resends, strays >>
server == << conns, network >>
vars   == << client, up, down, server >>

Ports == FIRST_PORT..LAST_PORT
REQUEST_LENGTH == 1                     \* the bytes of a GET request, all in one segment
Closed == [state |-> "closed", request |-> 0, length |-> 0, sent |-> 0, rcv |-> 0]

Opened(s) == [state |-> "open", request |-> s.of, length |-> 0, sent |-> 0, rcv |-> s.seq + 1]

Answer(r, from, to) == [i \in 1..(to - from + 1) |-> << r, from + i - 1 >>]

Init ==
  /\ pc = "idle"
  /\ client_port = 0 /\ next_port = FIRST_PORT
  /\ established = FALSE /\ synack_received = FALSE /\ fin_received = FALSE
  /\ tcp_seq = 1 /\ tcp_ack = 0
  /\ response = << >> /\ result = << >> /\ request = 0
  /\ up = << >> /\ down = << >>
  /\ conns = [p \in Ports |-> Closed]
  /\ resends = 0 /\ strays = 0

(* tcp_send_raw, to a server whose MAC is known.  "of" only says for which   *)
(* request the segment was sent.                                             *)
Segment(kind, seq, ack) ==
  [port |-> client_port, of |-> request, kind |-> kind, seq |-> seq, ack |-> ack]

-----------------------------------------------------------------------------
(* tcp_handle *)

Truncated(s) == SubSeq(s, 1, IF Len(s) < BUFFER_SIZE THEN Len(s) ELSE BUFFER_SIZE - 1)

(* A SYN+ACK and a FIN count only from the server of the request, data from  *)
(* whoever sends to its port: that test looks at no source.                  *)
FromServer(from, seg) == from = "server" /\ seg.port = client_port

ToAnyPort(seg) == established
ToOurPort(seg) == established /\ seg.port = client_port

AckNext(seg) == seg.seq + Len(seg.data) + 1
AckData(seg) == seg.seq + Len(seg.data)

(* A SYN+ACK only opens; a segment with data is acknowledged and stored      *)
(* without a look at its sequence number; a FIN is acknowledged after it.    *)
(* The acknowledgement goes to the host that sent the segment.               *)
TakeSynAck(from, seg) ==
  /\ FromServer(from, seg) /\ seg.syn
  /\ synack_received' = TRUE /\ established' = TRUE
  /\ tcp_ack' = seg.seq + 1
  /\ UNCHANGED << fin_received, response, up >>

TakeData(from, seg) ==
  LET hasData == ToOurPort(seg) /\ Len(seg.data) > 0
      hasFin  == ToOurPort(seg) /\ seg.fin
      ack     == IF hasData THEN AckData(seg) ELSE tcp_ack
      acks    == (IF hasData THEN << Segment("ack", tcp_seq, ack) >> ELSE << >>)
                 \o (IF hasFin THEN << Segment("ack", tcp_seq, seg.seq + 1) >> ELSE << >>)
  IN  /\ ~(FromServer(from, seg) /\ seg.syn)
      /\ fin_received' = (fin_received \/ (FromServer(from, seg) /\ seg.fin))
      /\ response' = IF hasData THEN Truncated(response \o seg.data) ELSE response
      /\ tcp_ack' = IF hasFin THEN seg.seq + 1 ELSE ack
      /\ up' = IF from = "server" THEN up \o acks ELSE up
      /\ UNCHANGED << synack_received, established >>

tcp_handle(from, seg) == TakeSynAck(from, seg) \/ TakeData(from, seg)

(* net_poll: in every waiting loop of http_request, and in keyboard_getchar. *)
Poll ==
  /\ down # << >>
  /\ tcp_handle("server", Head(down))
  /\ down' = Tail(down)
  /\ UNCHANGED << pc, client_port, next_port, tcp_seq, result, request, server >>

Reply(p, seq, syn, fin, data) ==
  [port |-> p, seq |-> seq, syn |-> syn, fin |-> fin, data |-> data]

(* net_poll again: a segment of a host that is not the server.  Its bytes    *)
(* are marked as of no request.                                              *)
PollStranger ==
  /\ resends + strays < MaxDisturbances
  /\ \E p \in Ports, seq \in StrangerSeqs, syn, fin \in BOOLEAN, n \in 0..SegmentSize :
       LET seg == Reply(p, seq, syn, fin, Answer(0, 1, n))
       IN  /\ tcp_handle("stranger", seg)
           /\ strays' = IF ToOurPort(seg) THEN strays + 1 ELSE strays
  /\ UNCHANGED << pc, client_port, next_port, tcp_seq, result, request, down, conns, resends >>

-----------------------------------------------------------------------------
(* http_request *)

(* Environment: when a port comes round again, its old connection is over.   *)
PortIsQuiet(p) ==
  /\ conns[p] = Closed
  /\ \A i \in 1..Len(down) : down[i].port # p
  /\ \A i \in 1..Len(up) : up[i].port # p

StartKeepsFin ==
  /\ pc = "idle" /\ pc' = "resolve"
  /\ request < MaxRequests /\ request' = request + 1
  /\ PortIsQuiet(next_port)
  /\ response' = << >> /\ result' = << >>
  /\ established' = FALSE /\ synack_received' = FALSE
  /\ client_port' = next_port
  /\ next_port' = IF next_port + 1 > LAST_PORT THEN FIRST_PORT ELSE next_port + 1
  /\ UNCHANGED << fin_received, tcp_seq, tcp_ack, up, down, server >>

Start ==
  /\ pc = "idle" /\ pc' = "resolve"
  /\ request < MaxRequests /\ request' = request + 1
  /\ PortIsQuiet(next_port)
  /\ response' = << >> /\ result' = << >>
  /\ established' = FALSE /\ synack_received' = FALSE /\ fin_received' = FALSE
  /\ client_port' = next_port
  /\ next_port' = IF next_port + 1 > LAST_PORT THEN FIRST_PORT ELSE next_port + 1
  /\ UNCHANGED << tcp_seq, tcp_ack, up, down, server >>

(* arp_resolve_blocking finds no MAC: response[0] = 0, return 0. *)
ResolveFails ==
  /\ pc = "resolve" /\ pc' = "idle"
  /\ UNCHANGED << client_port, next_port, flags, tcp_seq, tcp_ack, response, result, request,
                  up, down, server >>

SendSyn ==
  /\ pc = "resolve" /\ pc' = "syn"
  /\ up' = Append(up, Segment("syn", 1, 0))
  /\ tcp_seq' = 2 /\ tcp_ack' = 0
  /\ UNCHANGED << client_port, next_port, flags, response, result, request, down, server >>

SynTimeoutRetries ==
  /\ pc = "syn" /\ ~synack_received
  /\ UNCHANGED vars

(* The loops' counters may run out at any time. *)
SynTimeout ==
  /\ pc = "syn" /\ ~synack_received /\ pc' = "idle"
  /\ UNCHANGED << client_port, next_port, flags, tcp_seq, tcp_ack, response, result, request,
                  up, down, server >>

SendRequest ==
  /\ pc = "syn" /\ synack_received /\ pc' = "collect"
  /\ up' = up \o << Segment("ack", tcp_seq, tcp_ack), Segment("data", tcp_seq, tcp_ack) >>
  /\ tcp_seq' = tcp_seq + REQUEST_LENGTH
  /\ UNCHANGED << client_port, next_port, flags, tcp_ack, response, result, request,
                  down, server >>

ResultAnyLength == response
Result == IF Len(response) < max_len THEN response ELSE << >>

(* Data stopped coming, the server closed, or the time is up. *)
CollectOver ==
  /\ pc = "collect" /\ pc' = "drain"
  /\ result' = Result
  /\ up' = IF established THEN Append(up, Segment("fin", tcp_seq, tcp_ack)) ELSE up
  /\ tcp_seq' = IF established THEN tcp_seq + 1 ELSE tcp_seq
  /\ UNCHANGED << client_port, next_port, flags, tcp_ack, response, request, down, server >>

DrainOver ==
  /\ pc = "drain" /\ pc' = "idle"
  /\ UNCHANGED << client_port, next_port, flags, tcp_seq, tcp_ack, response, result, request,
                  up, down, server >>

Thread ==
  \/ Start \/ ResolveFails \/ SendSyn \/ SynTimeout \/ SendRequest \/ CollectOver \/ DrainOver

-----------------------------------------------------------------------------
(* The server: its TCP, and the program that answers one request and closes. *)

ServerTakes ==
  LET s == Head(up)
      k == conns[s.port]
  IN  /\ up # << >> /\ up' = Tail(up)
      /\ \/ /\ s.kind = "syn"
            /\ conns' = [conns EXCEPT ![s.port] = Opened(s)]
            /\ down' = Append(down, Reply(s.port, 0, TRUE, FALSE, << >>))
         \/ /\ s.kind = "data" /\ k.state = "open" /\ s.seq = k.rcv
            /\ \E n \in AnswerLengths :
                 conns' = [conns EXCEPT ![s.port] = [k EXCEPT !.state = "answering", !.length = n,
                             !.rcv = s.seq + REQUEST_LENGTH]]
            /\ UNCHANGED down
         \/ /\ s.kind \in {"ack", "fin"} \/ (s.kind = "data" /\ k.state # "open")
            /\ UNCHANGED << conns, down >>
      /\ UNCHANGED << client, network >>

(* The next bytes of the answer; the last may carry the FIN. *)
ServerSends(p) ==
  LET k == conns[p]
  IN  /\ k.state = "answering" /\ Len(down) < MaxInFlight
      /\ \E n \in 0..SegmentSize, fin \in BOOLEAN :
           /\ n > 0 \/ fin
           /\ k.sent + n <= k.length
           /\ fin => k.sent + n = k.length
           /\ down' = Append(down, Reply(p, 1 + k.sent, FALSE, fin,
                                         Answer(k.request, k.sent + 1, k.sent + n)))
           /\ conns' = [conns EXCEPT ![p].sent = k.sent + n,
                                     ![p].state = IF fin THEN "finished" ELSE "answering"]
      /\ UNCHANGED << client, up, network >>

(* The acknowledgement is late: the server sends its last byte again.        *)
ServerResends(p) ==
  LET k == conns[p]
  IN  /\ k.sent > 0 /\ Len(down) < MaxInFlight
      /\ resends + strays < MaxDisturbances /\ resends' = resends + 1
      /\ down' = Append(down, Reply(p, k.sent, FALSE, k.state = "finished",
                                    Answer(k.request, k.sent, k.sent)))
      /\ UNCHANGED << client, up, conns, strays >>

(* The server forgets a connection that the client has left behind. *)
ServerForgets(p) ==
  /\ conns[p] # Closed /\ p # client_port
  /\ conns' = [conns EXCEPT ![p] = Closed]
  /\ UNCHANGED << client, up, down, network >>

Next ==
  \/ Thread \/ Poll \/ PollStranger \/ ServerTakes
  \/ \E p \in Ports : ServerSends(p) \/ ServerResends(p) \/ ServerForgets(p)

Spec == Init /\ [][Next]_vars

(* Every waiting loop of http_request counts down: it ends, whatever the     *)
(* network does.                                                             *)
FairSpec ==
  /\ Spec
  /\ WF_vars(ResolveFails \/ SendSyn \/ SynTimeout \/ SendRequest)
  /\ WF_vars(CollectOver \/ DrainOver)

-----------------------------------------------------------------------------
(* Properties *)

Bytes == (0..MaxRequests) \X (Nat \ {0})      \* 0: from another host
UpSegments ==
  [port : Ports, of : 1..MaxRequests, kind : {"syn", "ack", "data", "fin"}, seq : Nat, ack : Nat]
DownSegments == [port : Ports, seq : Nat, syn : BOOLEAN, fin : BOOLEAN, data : Seq(Bytes)]
Connections ==
  [state : {"closed", "open", "answering", "finished"}, request : 0..MaxRequests,
   length : Nat, sent : Nat, rcv : Nat]

(* Ports and lengths stay in range: the answer always fits the buffer.       *)
TypeOK ==
  /\ pc \in {"idle", "resolve", "syn", "collect", "drain"}
  /\ client_port \in Ports \cup {0} /\ next_port \in Ports
  /\ established \in BOOLEAN /\ synack_received \in BOOLEAN /\ fin_received \in BOOLEAN
  /\ tcp_seq \in Nat /\ tcp_ack \in Nat /\ request \in 0..MaxRequests
  /\ response \in Seq(Bytes) /\ Len(response) <= BUFFER_SIZE - 1
  /\ result \in Seq(Bytes) /\ Len(result) < max_len
  /\ up \in Seq(UpSegments) /\ down \in Seq(DownSegments)
  /\ conns \in [Ports -> Connections]
  /\ resends \in 0..MaxDisturbances /\ strays \in 0..MaxDisturbances

(* No byte of an earlier answer, however late it comes, gets into the        *)
(* response of the current request; a byte that is not of its own answer     *)
(* came from another host, to the port of the request.                       *)
NoCrossTalk ==
  \A i \in 1..Len(response) :
    response[i][1] = request \/ (strays > 0 /\ response[i][1] = 0)

(* The server repeated nothing, and no other host sent to the client's port. *)
Undisturbed == resends = 0 /\ strays = 0

(* Undisturbed, a FIN means that the answer is all there, as far as the      *)
(* buffer goes.                                                              *)
FinMeansComplete ==
  (fin_received /\ established /\ Undisturbed) =>
    response = Truncated(Answer(request, 1, conns[client_port].length))

(* Undisturbed, a request returns the beginning of its own answer, or        *)
(* nothing.                                                                  *)
ResultIsPrefix ==
  (pc \in {"drain", "idle"} /\ Undisturbed) => result = Answer(request, 1, Len(result))

(* The number after the last that the server has used on a connection: its   *)
(* SYN has the first, its FIN one of its own once it is sent.                *)
NextNumber(k) == 1 + k.sent + (IF k.state = "finished" THEN 1 ELSE 0)

(* The client acknowledges nothing that the server has not sent on that      *)
(* connection, its FIN included, also when data comes twice; until another   *)
(* host's segment moves tcp_ack.                                             *)
AcksOnlySent ==
  strays = 0 =>
    \A i \in 1..Len(up) :
      LET k == conns[up[i].port]
      IN  (k # Closed /\ k.request = up[i].of) => up[i].ack <= NextNumber(k)

(* http_request always comes back to the shell.                              *)
RequestReturns == (pc # "idle") ~> (pc = "idle")
=============================================================================
