--------------------------- MODULE KeyboardProofs ---------------------------
(***************************************************************************)
(* Proofs about Keyboard, for every ring size, key map and keyboard.       *)
(***************************************************************************)
EXTENDS Keyboard, SequenceTheorems, TLAPS

-----------------------------------------------------------------------------
(* Arithmetic modulo the ring size. *)

LEMMA ModRange ==
  ASSUME NEW x \in Int
  PROVE  x % KBD_BUFFER_SIZE \in Positions
BY KeyboardAssumption, SMT DEF Positions

LEMMA DistanceProps ==
  ASSUME NEW r \in Positions, NEW w \in Positions
  PROVE  /\ Distance(r, w) \in 0..(KBD_BUFFER_SIZE - 1)
         /\ Distance(r, w) = IF w >= r THEN w - r ELSE w - r + KBD_BUFFER_SIZE
BY KeyboardAssumption, SMT DEF Positions, Distance

LEMMA DistanceZero ==
  ASSUME NEW r \in Positions, NEW w \in Positions
  PROVE  r = w <=> Distance(r, w) = 0
BY KeyboardAssumption, SMT DEF Positions, Distance

LEMMA AfterProps ==
  ASSUME NEW p \in Positions
  PROVE  /\ After(p) \in Positions
         /\ After(p) = IF p + 1 = KBD_BUFFER_SIZE THEN 0 ELSE p + 1
BY KeyboardAssumption, SMT DEF Positions, After

LEMMA WrapProps ==
  ASSUME NEW r \in Positions, NEW i \in 0..KBD_BUFFER_SIZE
  PROVE  (r + i) % KBD_BUFFER_SIZE
            = IF r + i < KBD_BUFFER_SIZE THEN r + i ELSE r + i - KBD_BUFFER_SIZE
BY KeyboardAssumption, SMT DEF Positions

-----------------------------------------------------------------------------
(* One character put into a ring [buf, pos]. *)

Rings == [buf : [Positions -> ByteValues], pos : Positions]

LEMMA PutType ==
  ASSUME NEW ch \in ByteValues, NEW r \in Rings
  PROVE  Put(r, ch) \in Rings
BY AfterProps DEF Put, Rings

LEMMA HandlerRing ==
  ASSUME TypeOK, NEW sc \in ByteValues
  PROVE  LET r0 == [buf |-> kbd_buffer, pos |-> kbd_write_pos]
         IN  /\ r0 \in Rings
             /\ PutKey(r0, sc) \in Rings
             /\ PutCtrlC(PutKey(r0, sc), sc) \in Rings
<1> DEFINE r0 == [buf |-> kbd_buffer, pos |-> kbd_write_pos]
<1>1. r0 \in Rings
  BY DEF TypeOK, Rings
<1>2. PutKey(r0, sc) \in Rings
  <2>1. CASE Mapped(sc)
    <3>1. key_map[sc] \in ByteValues
      BY <2>1, KeyboardAssumption DEF Mapped
    <3> QED BY <3>1, <1>1, <2>1, PutType DEF PutKey
  <2>2. CASE ~Mapped(sc)
    BY <1>1, <2>2 DEF PutKey
  <2> QED BY <2>1, <2>2
<1>3. PutCtrlC(PutKey(r0, sc), sc) \in Rings
  <2>1. ETX \in ByteValues
    BY DEF ETX, ByteValues
  <2> QED BY <1>2, <2>1, PutType DEF PutCtrlC
<1> QED BY <1>1, <1>2, <1>3

LEMMA CodesType ==
  ASSUME NEW k \in Keys, NEW offset \in {0, BREAK}
  PROVE  Codes(k, offset) \in Seq(ByteValues)
<1>1. k.code + offset \in ByteValues
  BY KeyboardAssumption DEF MakeCodes, ByteValues, BREAK
<1>2. EXTENDED \in ByteValues
  BY DEF EXTENDED, ByteValues
<1> QED BY <1>1, <1>2 DEF Codes

-----------------------------------------------------------------------------
(* TypeOK is inductive: the ring positions never leave the ring, every cell  *)
(* holds a byte.                                                             *)

LEMMA TypeInit == Init => TypeOK
<1>1. 0 \in Positions
  BY KeyboardAssumption DEF Positions
<1>2. 0 \in ByteValues
  BY DEF ByteValues
<1>3. << >> \in Seq(ByteValues)
  OBVIOUS
<1> QED BY <1>1, <1>2, <1>3 DEF Init, TypeOK, PCs

LEMMA TypeStep == TypeOK /\ [Next]_vars => TypeOK'
<1> SUFFICES ASSUME TypeOK, [Next]_vars PROVE TypeOK'
  OBVIOUS
<1> USE DEF TypeOK
<1>1. ASSUME NEW k \in Keys, Press(k) PROVE TypeOK'
  BY <1>1, CodesType DEF Press, ring, locals
<1>2. ASSUME NEW k \in Keys, Release(k) PROVE TypeOK'
  BY <1>2, CodesType DEF Release, ring, locals
<1>3. CASE Irq
  <2> DEFINE r0 == [buf |-> kbd_buffer, pos |-> kbd_write_pos]
             r  == PutCtrlC(PutKey(r0, Head(port)), Head(port))
  <2>1. Head(port) \in ByteValues /\ Tail(port) \in Seq(ByteValues)
    BY <1>3, HeadTailProperties DEF Irq
  <2>2. r \in Rings
    BY <2>1, HandlerRing
  <2>3. CtrlAfter(Head(port)) \in BOOLEAN
    BY DEF CtrlAfter
  <2>4. /\ kbd_buffer' = r.buf /\ kbd_write_pos' = r.pos
        /\ ctrl_pressed' = CtrlAfter(Head(port)) /\ kbd_read_pos' = kbd_read_pos
    BY <1>3 DEF Irq, keyboard_handler
  <2>5. /\ port' = Tail(port) /\ pc' \in PCs
        /\ UNCHANGED << down, loop, c, mark, ret >>
    BY <1>3 DEF Irq, PCs, locals
  <2>6. kbd_buffer' \in [Positions -> ByteValues] /\ kbd_write_pos' \in Positions
    BY <2>2, <2>4 DEF Rings
  <2> QED BY <2>1, <2>3, <2>4, <2>5, <2>6
<1>4. CASE CallGetchar \/ CheckEmpty \/ CheckReady \/ Halt \/ Poll
  BY <1>4 DEF CallGetchar, CheckEmpty, CheckReady, Halt, Poll, Jump, ring, locals, PCs
<1>7. CASE Read
  <2>1. kbd_buffer[kbd_read_pos] \in ByteValues
    OBVIOUS
  <2> QED BY <1>7, <2>1 DEF Read, Jump, ring, PCs
<1>8. CASE Advance
  <2>1. 0 \in ByteValues /\ After(kbd_read_pos) \in Positions
    BY AfterProps DEF ByteValues
  <2> QED BY <1>8, <2>1 DEF Advance, PCs
<1>5. CASE Ping
  <2>1. 0 \in Positions
    BY KeyboardAssumption DEF Positions
  <2> QED BY <1>5, <2>1 DEF Ping, PingFlushLoad, PingFlushStore, PingSend, PingAgain,
     PingWaitOver, PingSpinOver, Jump, ring, locals, PCs
<1>6. CASE UNCHANGED vars
  BY <1>6 DEF vars, ring, locals
<1> QED BY <1>1, <1>2, <1>3, <1>4, <1>5, <1>6, <1>7, <1>8
       DEF Next, Thread, Getchar

(* Every reachable state is well typed: kbd_read_pos and kbd_write_pos stay  *)
(* inside the ring for every ring size, key map and interleaving.            *)
THEOREM TypeCorrect == Spec => []TypeOK
BY TypeInit, TypeStep, PTL DEF Spec

-----------------------------------------------------------------------------
(* The ring as a sequence. *)

Cell(r, i) == (r + i - 1) % KBD_BUFFER_SIZE

LEMMA CellProps ==
  ASSUME NEW r \in Positions, NEW i \in 1..KBD_BUFFER_SIZE
  PROVE  /\ Cell(r, i) \in Positions
         /\ Cell(r, i) = IF r + i - 1 < KBD_BUFFER_SIZE THEN r + i - 1
                         ELSE r + i - 1 - KBD_BUFFER_SIZE
BY KeyboardAssumption, SMT DEF Cell, Positions

(* A position is the cell after the last one waiting, and none of those; a   *)
(* ring is full when N - 1 cells wait.                                       *)
LEMMA RoomProps ==
  ASSUME NEW r \in Positions, NEW w \in Positions
  PROVE  /\ After(w) # r <=> Distance(r, w) < KBD_BUFFER_SIZE - 1
         /\ After(w) # r => Distance(r, After(w)) = Distance(r, w) + 1
         /\ Cell(r, Distance(r, w) + 1) = w
         /\ \A i \in 1..Distance(r, w) : Cell(r, i) # w
<1>1. After(w) \in Positions /\ After(w) = IF w + 1 = KBD_BUFFER_SIZE THEN 0 ELSE w + 1
  BY AfterProps
<1>2. /\ Distance(r, w) \in 0..(KBD_BUFFER_SIZE - 1)
      /\ Distance(r, w) = IF w >= r THEN w - r ELSE w - r + KBD_BUFFER_SIZE
      /\ Distance(r, After(w)) = IF After(w) >= r THEN After(w) - r
                                 ELSE After(w) - r + KBD_BUFFER_SIZE
  BY <1>1, DistanceProps
<1>3. \A i \in 1..KBD_BUFFER_SIZE :
         Cell(r, i) = IF r + i - 1 < KBD_BUFFER_SIZE THEN r + i - 1
                      ELSE r + i - 1 - KBD_BUFFER_SIZE
  BY CellProps
<1> HIDE DEF After, Distance, Cell
<1>4. After(w) # r <=> Distance(r, w) < KBD_BUFFER_SIZE - 1
  BY <1>1, <1>2, KeyboardAssumption DEF Positions
<1>5. After(w) # r => Distance(r, After(w)) = Distance(r, w) + 1
  BY <1>1, <1>2, KeyboardAssumption DEF Positions
<1>6. Cell(r, Distance(r, w) + 1) = w
  BY <1>2, <1>3, KeyboardAssumption DEF Positions
<1>7. \A i \in 1..Distance(r, w) : Cell(r, i) # w
  BY <1>2, <1>3, KeyboardAssumption DEF Positions
<1> QED BY <1>4, <1>5, <1>6, <1>7

LEMMA ContentsProps ==
  ASSUME NEW buf \in [Positions -> ByteValues], NEW r \in Positions, NEW w \in Positions
  PROVE  /\ ContentsOf(buf, r, w) \in Seq(ByteValues)
         /\ Len(ContentsOf(buf, r, w)) = Distance(r, w)
         /\ Distance(r, w) \in 0..(KBD_BUFFER_SIZE - 1)
         /\ \A i \in 1..Distance(r, w) : ContentsOf(buf, r, w)[i] = buf[Cell(r, i)]
<1> DEFINE n == Distance(r, w)
<1>1. n \in 0..(KBD_BUFFER_SIZE - 1)
  BY DistanceProps
<1>2. \A i \in 1..n : buf[Cell(r, i)] \in ByteValues
  BY <1>1, CellProps, KeyboardAssumption
<1>3. ContentsOf(buf, r, w) = [i \in 1..n |-> buf[Cell(r, i)]]
  BY DEF ContentsOf, Cell
<1> HIDE DEF n
<1>4. /\ [i \in 1..n |-> buf[Cell(r, i)]] \in Seq(ByteValues)
      /\ Len([i \in 1..n |-> buf[Cell(r, i)]]) = n
  BY <1>1, <1>2
<1> QED BY <1>1, <1>3, <1>4 DEF n

(* Storing at w and advancing it appends. *)
LEMMA StoreAppends ==
  ASSUME NEW buf \in [Positions -> ByteValues], NEW r \in Positions, NEW w \in Positions,
         NEW ch \in ByteValues, After(w) # r
  PROVE  ContentsOf([buf EXCEPT ![w] = ch], r, After(w)) = Append(ContentsOf(buf, r, w), ch)
<1> DEFINE n    == Distance(r, w)
           q    == ContentsOf(buf, r, w)
           buf2 == [buf EXCEPT ![w] = ch]
           w2   == After(w)
           q2   == ContentsOf(buf2, r, w2)
<1>1. /\ buf2 \in [Positions -> ByteValues]
      /\ buf2[w] = ch
      /\ \A p \in Positions \ {w} : buf2[p] = buf[p]
  OBVIOUS
<1>2. w2 \in Positions /\ Distance(r, w2) = n + 1
  BY AfterProps, RoomProps
<1>3. /\ q \in Seq(ByteValues) /\ Len(q) = n /\ n \in 0..(KBD_BUFFER_SIZE - 1)
      /\ \A i \in 1..n : q[i] = buf[Cell(r, i)]
  BY ContentsProps
<1>4. /\ Cell(r, n + 1) = w
      /\ \A i \in 1..n : Cell(r, i) # w
  BY RoomProps
<1>5. \A i \in 1..n : Cell(r, i) \in Positions
  BY <1>3, CellProps, KeyboardAssumption
<1> HIDE DEF buf2, w2
<1>6. /\ q2 \in Seq(ByteValues) /\ Len(q2) = n + 1
      /\ \A i \in 1..(n + 1) : q2[i] = buf2[Cell(r, i)]
  BY <1>1, <1>2, ContentsProps
<1> HIDE DEF q2, q, n
<1>7. \A i \in 1..n : q2[i] = q[i]
  BY <1>1, <1>3, <1>4, <1>5, <1>6
<1>8. q2[n + 1] = ch
  BY <1>1, <1>3, <1>4, <1>6
<1>9. q2 = Append(q, ch)
  BY <1>3, <1>6, <1>7, <1>8
<1> QED BY <1>9 DEF buf2, w2, q2, q

(* Put appends to the queue, or leaves a full one as it is. *)
LEMMA PutContents ==
  ASSUME TypeOK, NEW ch \in ByteValues, NEW r \in Rings
  PROVE  ContentsOf(Put(r, ch).buf, kbd_read_pos, Put(r, ch).pos)
           = Queue!Put(ContentsOf(r.buf, kbd_read_pos, r.pos), ch)
<1> DEFINE q == ContentsOf(r.buf, kbd_read_pos, r.pos)
<1>1. r.pos \in Positions /\ kbd_read_pos \in Positions /\ r.buf \in [Positions -> ByteValues]
  BY DEF Rings, TypeOK
<1>2. /\ Len(q) = Distance(kbd_read_pos, r.pos)
      /\ HasRoom(r.pos) <=> Len(q) < KBD_BUFFER_SIZE - 1
  <2>1. Len(q) = Distance(kbd_read_pos, r.pos)
    BY <1>1, ContentsProps
  <2>2. After(r.pos) # kbd_read_pos <=> Distance(kbd_read_pos, r.pos) < KBD_BUFFER_SIZE - 1
    BY <1>1, RoomProps
  <2> QED BY <2>1, <2>2 DEF HasRoom
<1>3. CASE HasRoom(r.pos)
  <2>1. Put(r, ch) = [buf |-> [r.buf EXCEPT ![r.pos] = ch], pos |-> After(r.pos)]
    BY <1>3 DEF Put
  <2>2. ContentsOf([r.buf EXCEPT ![r.pos] = ch], kbd_read_pos, After(r.pos)) = Append(q, ch)
    BY <1>1, <1>3, StoreAppends DEF HasRoom
  <2>3. Queue!Put(q, ch) = Append(q, ch)
    BY <1>2, <1>3 DEF Queue!Put
  <2> QED BY <2>1, <2>2, <2>3
<1>4. CASE ~HasRoom(r.pos)
  <2>1. Put(r, ch) = r
    BY <1>4 DEF Put
  <2>2. Queue!Put(q, ch) = q
    BY <1>2, <1>4 DEF Queue!Put
  <2> QED BY <2>1, <2>2
<1> QED BY <1>3, <1>4

(* Advancing the read position to one of the cells that wait drops a prefix. *)
LEMMA SkipDrops ==
  ASSUME NEW buf \in [Positions -> ByteValues], NEW r \in Positions, NEW w \in Positions,
         NEW m \in Positions, Distance(r, m) <= Distance(r, w)
  PROVE  ContentsOf(buf, m, w)
           = SubSeq(ContentsOf(buf, r, w), Distance(r, m) + 1, Distance(r, w))
<1> DEFINE d  == Distance(r, m)
           n  == Distance(r, w)
           q  == ContentsOf(buf, r, w)
           q2 == ContentsOf(buf, m, w)
           s  == SubSeq(q, d + 1, n)
<1>1. d \in 0..n /\ n \in 0..(KBD_BUFFER_SIZE - 1) /\ d \in Nat
  BY DistanceProps
<1>2. Distance(m, w) = n - d
  <2>1. /\ d = IF m >= r THEN m - r ELSE m - r + KBD_BUFFER_SIZE
        /\ n = IF w >= r THEN w - r ELSE w - r + KBD_BUFFER_SIZE
        /\ Distance(m, w) = IF w >= m THEN w - m ELSE w - m + KBD_BUFFER_SIZE
        /\ d <= n
    BY DistanceProps
  <2> HIDE DEF d, n
  <2> QED BY <2>1, KeyboardAssumption DEF Positions
<1>3. \A i \in 1..(n - d) : Cell(m, i) = Cell(r, d + i)
  <2>1. d = IF m >= r THEN m - r ELSE m - r + KBD_BUFFER_SIZE
    BY DistanceProps
  <2>2. SUFFICES ASSUME NEW i \in 1..(n - d) PROVE Cell(m, i) = Cell(r, d + i)
    OBVIOUS
  <2>3. i \in 1..KBD_BUFFER_SIZE /\ d + i \in 1..KBD_BUFFER_SIZE
    BY <1>1, KeyboardAssumption
  <2>4. /\ Cell(m, i) = IF m + i - 1 < KBD_BUFFER_SIZE THEN m + i - 1
                        ELSE m + i - 1 - KBD_BUFFER_SIZE
        /\ Cell(r, d + i) = IF r + (d + i) - 1 < KBD_BUFFER_SIZE THEN r + (d + i) - 1
                            ELSE r + (d + i) - 1 - KBD_BUFFER_SIZE
    BY <2>3, CellProps
  <2> HIDE DEF d, n
  <2> QED BY <1>1, <2>1, <2>3, <2>4, KeyboardAssumption DEF Positions
<1>4. /\ q \in Seq(ByteValues) /\ Len(q) = n
      /\ \A i \in 1..n : q[i] = buf[Cell(r, i)]
  BY ContentsProps
<1>5. /\ q2 \in Seq(ByteValues) /\ Len(q2) = n - d
      /\ \A i \in 1..(n - d) : q2[i] = buf[Cell(m, i)]
  BY <1>2, ContentsProps
<1> HIDE DEF d, n, q, q2
<1>6. /\ s \in Seq(ByteValues) /\ Len(s) = n - d
      /\ \A i \in 1..(n - d) : s[i] = q[d + i]
  <2>1. \A i \in (d + 1)..n : q[i] \in ByteValues
    BY <1>1, <1>4
  <2>2. /\ s \in Seq(ByteValues)
        /\ Len(s) = IF d + 1 <= n THEN n - (d + 1) + 1 ELSE 0
        /\ \A i \in 1..(n - (d + 1) + 1) : s[i] = q[(d + 1) + i - 1]
    BY <1>1, <2>1, SubSeqProperties
  <2>3. n - (d + 1) + 1 = n - d /\ \A i \in 1..(n - d) : (d + 1) + i - 1 = d + i
    BY <1>1
  <2> HIDE DEF s
  <2> QED BY <1>1, <2>2, <2>3
<1> HIDE DEF s
<1>7. \A i \in 1..(n - d) : q2[i] = s[i]
  <2>1. \A i \in 1..(n - d) : d + i \in 1..n
    BY <1>1
  <2> QED BY <1>3, <1>4, <1>5, <1>6, <2>1
<1>8. q2 = s
  BY <1>1, <1>5, <1>6, <1>7, SeqEqual
<1> QED BY <1>8 DEF d, n, q, q2, s

LEMMA EmptyProps ==
  ASSUME TypeOK
  PROVE  /\ Contents \in Seq(ByteValues) /\ Len(Contents) = Waiting
         /\ Waiting \in 0..(KBD_BUFFER_SIZE - 1)
         /\ Empty <=> Waiting = 0
         /\ ~Empty => Contents[1] = kbd_buffer[kbd_read_pos]
<1>1. /\ Contents \in Seq(ByteValues) /\ Len(Contents) = Waiting
      /\ Waiting \in 0..(KBD_BUFFER_SIZE - 1)
      /\ \A i \in 1..Waiting : Contents[i] = kbd_buffer[Cell(kbd_read_pos, i)]
  BY ContentsProps DEF TypeOK, Contents, Waiting
<1>2. Empty <=> Waiting = 0
  BY DistanceZero DEF TypeOK, Empty, Waiting
<1>3. Cell(kbd_read_pos, 1) = kbd_read_pos
  BY CellProps, KeyboardAssumption DEF TypeOK, Positions
<1> QED BY <1>1, <1>2, <1>3

-----------------------------------------------------------------------------
(* The interrupt handler types. *)

LEMMA PutSeq ==
  ASSUME NEW S, NEW q \in Seq(S), NEW ch \in S
  PROVE  /\ Queue!Put(q, ch) \in Seq(S)
         /\ Len(Queue!Put(q, ch)) >= Len(q)
         /\ \A i \in 1..Len(q) : Queue!Put(q, ch)[i] = q[i]
<1>1. CASE Len(q) < KBD_BUFFER_SIZE - 1
  <2>1. Queue!Put(q, ch) = Append(q, ch)
    BY <1>1 DEF Queue!Put
  <2>2. /\ Append(q, ch) \in Seq(S) /\ Len(Append(q, ch)) = Len(q) + 1
        /\ \A i \in 1..Len(q) : Append(q, ch)[i] = q[i]
    BY AppendProperties
  <2> QED BY <2>1, <2>2
<1>2. CASE ~(Len(q) < KBD_BUFFER_SIZE - 1)
  BY <1>2 DEF Queue!Put
<1> QED BY <1>1, <1>2

LEMMA CharsProps ==
  /\ Chars \subseteq ByteValues /\ ETX \in Chars
  /\ \A sc : Mapped(sc) => key_map[sc] \in Chars
BY KeyboardAssumption DEF Chars, KbdChars, ETX, ByteValues, Mapped

LEMMA HandlerTypes ==
  ASSUME TypeOK, NEW sc \in ByteValues, keyboard_handler(sc)
  PROVE  \/ Contents' = Contents
         \/ \E ch \in Chars : Contents' \in {Queue!Put(Contents, ch),
                                             Queue!Put(Queue!Put(Contents, ch), ETX)}
<1> DEFINE r0 == [buf |-> kbd_buffer, pos |-> kbd_write_pos]
           r1 == PutKey(r0, sc)
           r2 == PutCtrlC(r1, sc)
           Q(r) == ContentsOf(r.buf, kbd_read_pos, r.pos)
<1>1. r0 \in Rings /\ r1 \in Rings /\ r2 \in Rings
  BY HandlerRing
<1>2. Q(r0) = Contents /\ Contents' = Q(r2)
  BY DEF keyboard_handler, Contents
<1>3. ETX \in ByteValues /\ ETX \in Chars
  BY CharsProps
<1>4. /\ Mapped(sc) => key_map[sc] \in Chars /\ Q(r1) = Queue!Put(Q(r0), key_map[sc])
      /\ ~Mapped(sc) => r1 = r0
  <2>1. CASE Mapped(sc)
    <3>1. key_map[sc] \in Chars /\ key_map[sc] \in ByteValues
      BY <2>1, CharsProps
    <3>2. r1 = Put(r0, key_map[sc])
      BY <2>1 DEF PutKey
    <3> QED BY <3>1, <3>2, <2>1, <1>1, PutContents
  <2>2. CASE ~Mapped(sc)
    BY <2>2 DEF PutKey
  <2> QED BY <2>1, <2>2
<1>5. r2 = r1 \/ Q(r2) = Queue!Put(Q(r1), ETX)
  <2>1. r2 = r1 \/ r2 = Put(r1, ETX)
    BY DEF PutCtrlC
  <2> QED BY <2>1, <1>1, <1>3, PutContents
<1> HIDE DEF r0, r1, r2
<1> QED BY <1>2, <1>3, <1>4, <1>5

-----------------------------------------------------------------------------
(* The inductive invariant: what waits was typed, and the reader's program   *)
(* point agrees with the ring.                                               *)

IInv == TypeOK /\ OnlyTypedChars /\ ReaderInv

LEMMA IInvInit == Init => IInv
<1> SUFFICES ASSUME Init PROVE IInv
  OBVIOUS
<1>1. TypeOK
  BY TypeInit
<1>2. Empty /\ pc = "app"
  BY DEF Init, Empty
<1>3. Waiting = 0
  BY <1>1, <1>2, EmptyProps
<1> QED BY <1>1, <1>2, <1>3 DEF IInv, OnlyTypedChars, ReaderInv

(* A step that leaves the ring alone, and starts a read only on a ring with a character. *)
LEMMA RingUnchanged ==
  ASSUME IInv, UNCHANGED ring,
         pc' = "read" => pc = "read" \/ ~Empty,
         pc' = "advance" => \/ pc = "read" /\ c' = kbd_buffer[kbd_read_pos]
                            \/ pc = "advance" /\ c' = c,
         pc' = "flush" => \/ pc = "flush" /\ mark' = mark
                          \/ mark' = kbd_write_pos
  PROVE  (OnlyTypedChars /\ ReaderInv)'
<1>1. Contents' = Contents /\ Waiting' = Waiting /\ Empty' = Empty
  BY DEF ring, Contents, Waiting, Empty
<1>2. pc' = "advance" => ~Empty /\ c' = Contents[1]
  BY EmptyProps DEF IInv, OnlyTypedChars, ReaderInv
<1>3. ~Empty => Contents[1] \in Chars
  BY EmptyProps DEF IInv, OnlyTypedChars
<1>4. OnlyTypedChars'
  BY <1>1, <1>2, <1>3 DEF IInv, OnlyTypedChars
<1>5. pc' = "flush" => Distance(kbd_read_pos', mark') <= Waiting'
  <2>1. CASE pc = "flush" /\ mark' = mark
    BY <2>1, <1>1 DEF IInv, ReaderInv, ring
  <2>2. CASE mark' = kbd_write_pos
    <3>1. Distance(kbd_read_pos', mark') = Waiting
      BY <2>2 DEF Waiting, ring
    <3> QED BY <3>1, <1>1, EmptyProps DEF IInv
  <2> QED BY <2>1, <2>2
<1>6. ReaderInv'
  BY <1>1, <1>5 DEF ReaderInv, IInv
<1> QED BY <1>4, <1>6

(* Typing keeps the characters that wait and adds typed ones after them. *)
LEMMA TypedKeepsInv ==
  ASSUME IInv, TypeOK', UNCHANGED << kbd_read_pos, c, mark >>,
         pc' = pc \/ pc' \notin {"read", "advance", "flush"},
         \/ Contents' = Contents
         \/ \E ch \in Chars : Contents' \in {Queue!Put(Contents, ch),
                                             Queue!Put(Queue!Put(Contents, ch), ETX)}
  PROVE  (OnlyTypedChars /\ ReaderInv)'
<1>1. /\ Len(Contents) = Waiting /\ Waiting \in Nat
      /\ Contents \in Seq(Chars)
  <2>1. /\ Contents \in Seq(ByteValues) /\ Len(Contents) = Waiting /\ Waiting \in Nat
        /\ \A i \in 1..Waiting : Contents[i] \in Chars
    BY EmptyProps DEF IInv, OnlyTypedChars
  <2> HIDE DEF Contents, Waiting
  <2> QED BY <2>1
<1>2. /\ Contents' \in Seq(Chars) /\ Len(Contents') >= Len(Contents)
      /\ \A i \in 1..Len(Contents) : Contents'[i] = Contents[i]
  <2>1. CASE Contents' = Contents
    BY <2>1, <1>1
  <2>2. ASSUME NEW ch \in Chars, Contents' = Queue!Put(Contents, ch)
        PROVE  <1>2!1 /\ <1>2!2
    BY <2>2, <1>1, PutSeq
  <2>3. ASSUME NEW ch \in Chars, Contents' = Queue!Put(Queue!Put(Contents, ch), ETX)
        PROVE  <1>2!1 /\ <1>2!2
    <3> DEFINE q1 == Queue!Put(Contents, ch)
    <3>1. /\ q1 \in Seq(Chars) /\ Len(q1) >= Len(Contents)
          /\ \A i \in 1..Len(Contents) : q1[i] = Contents[i]
      BY <1>1, PutSeq
    <3>2. ETX \in Chars
      BY CharsProps
    <3> HIDE DEF q1
    <3>3. /\ Contents' \in Seq(Chars) /\ Len(Contents') >= Len(q1)
          /\ \A i \in 1..Len(q1) : Contents'[i] = q1[i]
      BY <2>3, <3>1, <3>2, PutSeq DEF q1
    <3> QED BY <1>1, <3>1, <3>3
  <2> QED BY <2>1, <2>2, <2>3
<1>3. Len(Contents') = Waiting' /\ (Empty' <=> Waiting' = 0) /\ Waiting' \in Nat
  <2>1. /\ kbd_buffer' \in [Positions -> ByteValues]
        /\ kbd_read_pos' \in Positions /\ kbd_write_pos' \in Positions
    BY DEF TypeOK
  <2>2. Len(Contents') = Waiting' /\ Waiting' \in 0..(KBD_BUFFER_SIZE - 1)
    BY <2>1, ContentsProps DEF Contents, Waiting
  <2>3. Empty' <=> Waiting' = 0
    BY <2>1, DistanceZero DEF Empty, Waiting
  <2> QED BY <2>2, <2>3
<1>4. ~Empty => ~Empty' /\ Contents'[1] = Contents[1]
  <2>1. ~Empty => Waiting # 0
    BY EmptyProps DEF IInv
  <2> QED BY <1>1, <1>2, <1>3, <2>1
<1>5. OnlyTypedChars'
  <2>1. \A i \in 1..Waiting' : Contents'[i] \in Chars
    BY <1>2, <1>3
  <2>2. pc' = "advance" => pc = "advance" /\ c' = c
    OBVIOUS
  <2> QED BY <2>1, <2>2, <1>4 DEF IInv, OnlyTypedChars
<1>6. ReaderInv'
  <2>1. pc' = "read" => ~Empty'
    BY <1>4 DEF IInv, ReaderInv
  <2>2. pc' = "flush" => Distance(kbd_read_pos', mark') <= Waiting
    BY DEF IInv, ReaderInv
  <2>3. Distance(kbd_read_pos', mark') \in Nat
    <3>1. kbd_read_pos' \in Positions /\ mark' \in Positions
      BY DEF TypeOK
    <3> QED BY <3>1, DistanceProps
  <2> QED BY <2>1, <2>2, <2>3, <1>1, <1>2, <1>3 DEF ReaderInv
<1> QED BY <1>5, <1>6

(* Taking the oldest character: the queue loses its head. *)
LEMMA AdvanceTakes ==
  ASSUME IInv, Advance
  PROVE  /\ Contents # << >> /\ Contents \in Seq(Chars)
         /\ Contents' = Tail(Contents)
         /\ ret' = Head(Contents)
<1>1. ~Empty /\ c = Contents[1]
  BY DEF IInv, OnlyTypedChars, Advance
<1>2. /\ Contents \in Seq(ByteValues) /\ Len(Contents) = Waiting /\ Waiting # 0
      /\ Waiting \in 0..(KBD_BUFFER_SIZE - 1)
  BY <1>1, EmptyProps DEF IInv
<1>3. Contents # << >> /\ Contents \in Seq(Chars)
  <2>1. \A i \in 1..Waiting : Contents[i] \in Chars
    BY DEF IInv, OnlyTypedChars
  <2> HIDE DEF Contents, Waiting
  <2> QED BY <1>2, <2>1
<1>4. /\ kbd_read_pos \in Positions /\ kbd_write_pos \in Positions
      /\ kbd_buffer \in [Positions -> ByteValues]
      /\ After(kbd_read_pos) \in Positions
  BY AfterProps DEF IInv, TypeOK
<1>5. Distance(kbd_read_pos, After(kbd_read_pos)) = 1
  <2>1. After(kbd_read_pos) = IF kbd_read_pos + 1 = KBD_BUFFER_SIZE THEN 0 ELSE kbd_read_pos + 1
    BY <1>4, AfterProps
  <2>2. Distance(kbd_read_pos, After(kbd_read_pos))
          = IF After(kbd_read_pos) >= kbd_read_pos THEN After(kbd_read_pos) - kbd_read_pos
            ELSE After(kbd_read_pos) - kbd_read_pos + KBD_BUFFER_SIZE
    BY <1>4, DistanceProps
  <2> QED BY <1>4, <2>1, <2>2, KeyboardAssumption DEF Positions
<1>6. ContentsOf(kbd_buffer, After(kbd_read_pos), kbd_write_pos)
        = SubSeq(Contents, 2, Len(Contents))
  BY <1>2, <1>4, <1>5, SkipDrops DEF Contents, Waiting
<1>7. Contents' = SubSeq(Contents, 2, Len(Contents))
  BY <1>6 DEF Advance, Contents
<1>8. SubSeq(Contents, 2, Len(Contents)) = Tail(Contents)
  BY <1>2, <1>3, TailIsSubSeq
<1>9. ret' = Head(Contents)
  BY <1>1, <1>3 DEF Advance
<1> QED BY <1>3, <1>7, <1>8, <1>9

(* The flush of ping drops the characters that waited when it was loaded. *)
LEMMA FlushDiscards ==
  ASSUME IInv, PingFlushStore
  PROVE  /\ Contents \in Seq(Chars) /\ Marked \in 0..Len(Contents)
         /\ Contents' = SubSeq(Contents, Marked + 1, Len(Contents))
<1>1. /\ Contents \in Seq(ByteValues) /\ Len(Contents) = Waiting
      /\ Waiting \in 0..(KBD_BUFFER_SIZE - 1)
  BY EmptyProps DEF IInv
<1>2. /\ kbd_read_pos \in Positions /\ kbd_write_pos \in Positions /\ mark \in Positions
      /\ kbd_buffer \in [Positions -> ByteValues]
  BY DEF IInv, TypeOK
<1>3. Distance(kbd_read_pos, mark) <= Waiting
  BY DEF IInv, ReaderInv, PingFlushStore, Jump
<1>4. Distance(kbd_read_pos, mark) \in 0..Len(Contents)
  BY <1>1, <1>2, <1>3, DistanceProps
<1>8. Marked = Distance(kbd_read_pos, mark)
  BY DEF PingFlushStore, Jump, Marked
<1>5. Contents' = ContentsOf(kbd_buffer, mark, kbd_write_pos)
  BY DEF PingFlushStore, Contents
<1>6. ContentsOf(kbd_buffer, mark, kbd_write_pos)
        = SubSeq(Contents, Distance(kbd_read_pos, mark) + 1, Len(Contents))
  BY <1>1, <1>2, <1>3, SkipDrops DEF Contents, Waiting
<1>7. Contents \in Seq(Chars)
  <2>1. \A i \in 1..Waiting : Contents[i] \in Chars
    BY DEF IInv, OnlyTypedChars
  <2> HIDE DEF Contents, Waiting
  <2> QED BY <1>1, <2>1
<1> QED BY <1>4, <1>5, <1>6, <1>7, <1>8

(* What remains of the queue after a prefix is dropped was typed too. *)
LEMMA DroppedKeepsInv ==
  ASSUME IInv, TypeOK', Contents \in Seq(Chars), pc' \notin {"read", "advance", "flush"},
         NEW n \in 0..Len(Contents), Contents' = SubSeq(Contents, n + 1, Len(Contents))
  PROVE  (OnlyTypedChars /\ ReaderInv)'
<1>1. \A i \in (n + 1)..Len(Contents) : Contents[i] \in Chars
  BY ElementOfSeq
<1>2. Contents' \in Seq(Chars)
  BY <1>1, SubSeqProperties
<1>3. Len(Contents') = Waiting'
  BY ContentsProps DEF TypeOK, Contents, Waiting
<1>4. \A i \in 1..Waiting' : Contents'[i] \in Chars
  BY <1>2, <1>3, ElementOfSeq
<1> QED BY <1>4 DEF OnlyTypedChars, ReaderInv

LEMMA IInvStep == IInv /\ [Next]_vars => IInv'
<1> SUFFICES ASSUME IInv, [Next]_vars PROVE IInv'
  OBVIOUS
<1>1. TypeOK'
  BY TypeStep DEF IInv
<1>2. SUFFICES (OnlyTypedChars /\ ReaderInv)'
  BY <1>1 DEF IInv
<1>3. ASSUME NEW k \in Keys, Press(k) \/ Release(k)
      PROVE  (OnlyTypedChars /\ ReaderInv)'
  BY <1>3, RingUnchanged DEF Press, Release, locals
<1>4. CASE Irq
  <2>1. Head(port) \in ByteValues
    BY <1>4, HeadTailProperties DEF Irq, IInv, TypeOK
  <2>2. /\ keyboard_handler(Head(port)) /\ UNCHANGED << kbd_read_pos, c, mark >>
        /\ pc' = pc \/ pc' = "poll"
    BY <1>4 DEF Irq, keyboard_handler, locals
  <2>3. \/ Contents' = Contents
        \/ \E ch \in Chars : Contents' \in {Queue!Put(Contents, ch),
                                            Queue!Put(Queue!Put(Contents, ch), ETX)}
    BY <2>1, <2>2, HandlerTypes DEF IInv
  <2> QED BY <1>1, <2>2, <2>3, TypedKeepsInv
<1>5. CASE CallGetchar \/ CheckEmpty \/ CheckReady \/ Halt \/ Poll \/ Read
  BY <1>5, RingUnchanged DEF CallGetchar, CheckEmpty, CheckReady, Halt, Poll, Read, Jump,
     locals, ring
<1>6. CASE Advance
  <2>1. Contents # << >> /\ Contents \in Seq(Chars) /\ Contents' = Tail(Contents)
    BY <1>6, AdvanceTakes
  <2>2. Tail(Contents) = SubSeq(Contents, 2, Len(Contents)) /\ 1 \in 0..Len(Contents)
    BY <2>1, TailIsSubSeq, EmptySeq
  <2>3. pc' \in {"app", "again"}
    BY <1>6 DEF Advance
  <2> QED BY <1>1, <2>1, <2>2, <2>3, DroppedKeepsInv
<1>7. CASE PingFlushStore
  BY <1>1, <1>7, FlushDiscards, DroppedKeepsInv DEF PingFlushStore, Jump
<1>8. CASE PingFlushLoad \/ PingSend \/ PingAgain \/ PingWaitOver \/ PingSpinOver
  BY <1>8, RingUnchanged DEF PingFlushLoad, PingSend, PingAgain, PingWaitOver, PingSpinOver,
     Jump, locals, ring
<1>9. CASE UNCHANGED vars
  BY <1>9, RingUnchanged DEF vars, locals, IInv, OnlyTypedChars, ReaderInv
<1> QED BY <1>3, <1>4, <1>5, <1>6, <1>7, <1>8, <1>9 DEF Next, Thread, Getchar, Ping

(* Types, typed characters and the reader's promise hold together.           *)
THEOREM Invariance == Spec => []IInv
BY IInvInit, IInvStep, PTL DEF Spec

(* Whatever the interleaving of interrupt and reader, keyboard_getchar and   *)
(* ping only ever see characters that a key press stored.                    *)
THEOREM TypedOnly == Spec => []OnlyTypedChars
<1>1. IInv => OnlyTypedChars
  BY DEF IInv
<1> QED BY <1>1, Invariance, PTL

(* At every point of its loops the thread knows what it may assume of the    *)
(* ring it does not lock.                                                    *)
THEOREM ReaderAgrees == Spec => []ReaderInv
<1>1. IInv => ReaderInv
  BY DEF IInv
<1> QED BY <1>1, Invariance, PTL

-----------------------------------------------------------------------------
(* The ring implements the bounded FIFO of KbdQueue. *)

LEMMA QueueInit == Init => Queue!Init
<1> SUFFICES ASSUME Init PROVE Queue!Init
  OBVIOUS
<1>1. TypeOK /\ Empty
  BY TypeInit DEF Init, Empty
<1>2. Contents \in Seq(ByteValues) /\ Len(Contents) = 0
  BY <1>1, EmptyProps
<1>3. Contents = << >>
  BY <1>2, EmptySeq
<1> QED BY <1>3 DEF Queue!Init, Queue!NoFlush, Init, Marked

(* Outside a flush, and while one waits for its store, the mark stays. *)
LEMMA MarkedStays ==
  ASSUME UNCHANGED << kbd_read_pos, mark >>, pc' = "flush" <=> pc = "flush"
  PROVE  Marked' = Marked
BY DEF Marked

LEMMA QueueStep == IInv /\ [Next]_vars => [Queue!Next]_Queue!vars
<1> SUFFICES ASSUME IInv, [Next]_vars PROVE [Queue!Next]_Queue!vars
  OBVIOUS
<1>1. CASE Irq
  <2>1. Head(port) \in ByteValues /\ keyboard_handler(Head(port)) /\ ret' = ret
    BY <1>1, HeadTailProperties DEF Irq, IInv, TypeOK
  <2>2. Marked' = Marked
    BY <1>1, <2>1, MarkedStays DEF Irq, keyboard_handler, locals
  <2>3. Contents' = Contents \/ Queue!Type
    BY <2>1, <2>2, HandlerTypes DEF IInv, Queue!Type
  <2> QED BY <2>1, <2>2, <2>3 DEF Queue!Next, Queue!vars
<1>2. CASE Advance
  <2>1. Marked = Queue!NoFlush /\ Marked' = Queue!NoFlush
    BY <1>2 DEF Advance, Marked, Queue!NoFlush
  <2> QED BY <1>2, <2>1, AdvanceTakes DEF Queue!Next, Queue!Take
<1>3. CASE PingFlushStore
  <2>1. ret' = ret /\ Marked' = Queue!NoFlush
    BY <1>3 DEF PingFlushStore, Jump, Marked, Queue!NoFlush
  <2>2. Marked # Queue!NoFlush
    BY <1>3, FlushDiscards DEF Queue!NoFlush
  <2> QED BY <1>3, <2>1, <2>2, FlushDiscards DEF Queue!Next, Queue!Discard
<1>9. CASE PingFlushLoad
  <2>1. Contents' = Contents /\ ret' = ret
    BY <1>9 DEF PingFlushLoad, ring, Contents
  <2>2. Marked = Queue!NoFlush
    BY <1>9 DEF PingFlushLoad, Jump, Marked, Queue!NoFlush
  <2>3. Marked' = Len(Contents)
    <3>1. Marked' = Waiting
      BY <1>9 DEF PingFlushLoad, Jump, Marked, Waiting, ring
    <3> QED BY <3>1, EmptyProps DEF IInv
  <2> QED BY <2>1, <2>2, <2>3 DEF Queue!Next, Queue!FlushBegin
<1>4. CASE UNCHANGED << ring, ret >> /\ UNCHANGED mark /\ (pc' = "flush" <=> pc = "flush")
  <2>1. Marked' = Marked
    BY <1>4, MarkedStays DEF ring
  <2> QED BY <1>4, <2>1 DEF ring, Contents, Queue!vars
<1>5. ASSUME NEW k \in Keys, Press(k) \/ Release(k)
      PROVE  [Queue!Next]_Queue!vars
  BY <1>4, <1>5 DEF Press, Release, locals
<1>6. CASE CallGetchar \/ CheckEmpty \/ CheckReady \/ Halt \/ Poll \/ Read
  BY <1>4, <1>6 DEF CallGetchar, CheckEmpty, CheckReady, Halt, Poll, Read, Jump, locals
<1>7. CASE PingSend \/ PingAgain \/ PingWaitOver \/ PingSpinOver
  BY <1>4, <1>7 DEF PingSend, PingAgain, PingWaitOver, PingSpinOver, Jump, locals
<1>8. CASE UNCHANGED vars
  BY <1>4, <1>8 DEF vars, locals
<1> QED BY <1>1, <1>2, <1>3, <1>4, <1>5, <1>6, <1>7, <1>8, <1>9 DEF Next, Thread, Getchar, Ping

(* The ring shared by an interrupt handler and an unlocked reader behaves as *)
(* a bounded FIFO for every ring size of at least two.                       *)
THEOREM Refinement == Spec => IsQueue
<1>1. Init => Queue!Init
  BY QueueInit
<1>2. IInv /\ [Next]_vars => [Queue!Next]_Queue!vars
  BY QueueStep
<1> QED BY <1>1, <1>2, Invariance, PTL DEF Spec, IsQueue, Queue!Spec

-----------------------------------------------------------------------------
(* The codes in the port tell which key went down last, and the flag what it *)
(* will be once they are delivered.                                          *)

LastCode == port[Len(port)]

CodesInv ==
  /\ Len(port) <= 2
  /\ Len(port) = 2 => port[1] = EXTENDED
  /\ port # << >> /\ LastCode \in MakeCodes => \E k \in down : k.code = LastCode
  /\ ctrl_pressed /\ (port = << >> \/ LastCode # CTRL + BREAK) => \E k \in down : k.code = CTRL

LEMMA CodesInit == Init => CodesInv
BY DEF Init, CodesInv

LEMMA CodesProps ==
  ASSUME NEW k \in Keys, NEW offset \in {0, BREAK}
  PROVE  /\ Len(Codes(k, offset)) \in {1, 2}
         /\ Len(Codes(k, offset)) = 2 => Codes(k, offset)[1] = EXTENDED
         /\ Codes(k, offset)[Len(Codes(k, offset))] = k.code + offset
         /\ Codes(k, offset) # << >>
BY DEF Codes

(* Delivering a code leaves the one after it, or nothing.                    *)
LEMMA PortTail ==
  ASSUME TypeOK, CodesInv, port # << >>
  PROVE  \/ Len(port) = 1 /\ Tail(port) = << >> /\ Head(port) = LastCode
         \/ /\ Len(port) = 2 /\ Head(port) = EXTENDED /\ Tail(port) # << >>
            /\ Len(Tail(port)) = 1 /\ Tail(port)[1] = LastCode
<1>1. port \in Seq(ByteValues) /\ Len(port) \in {1, 2} /\ Len(port) \in Nat
  <2>1. port \in Seq(ByteValues) /\ Len(port) <= 2
    BY DEF TypeOK, CodesInv
  <2>2. Len(port) \in Nat /\ Len(port) # 0
    BY <2>1, EmptySeq
  <2>3. \A n \in Nat : n # 0 /\ n <= 2 => n \in {1, 2}
    OBVIOUS
  <2> QED BY <2>1, <2>2, <2>3
<1>2. /\ Head(port) = port[1] /\ Len(Tail(port)) = Len(port) - 1
      /\ Tail(port) \in Seq(ByteValues)
      /\ \A i \in 1..Len(Tail(port)) : Tail(port)[i] = port[i + 1]
  BY <1>1, HeadTailProperties
<1>3. CASE Len(port) = 1
  <2>1. Len(Tail(port)) = 0 /\ Tail(port) \in Seq(ByteValues)
    BY <1>2, <1>3
  <2>2. Tail(port) = << >>
    BY <2>1, EmptySeq
  <2> QED BY <1>2, <1>3, <2>2 DEF LastCode
<1>4. CASE Len(port) = 2
  <2>1. Len(Tail(port)) = 1 /\ Tail(port)[1] = port[2] /\ Head(port) = EXTENDED
    BY <1>2, <1>4 DEF CodesInv
  <2>2. Tail(port) # << >>
    <3>1. Tail(port) \in Seq(ByteValues)
      BY <1>2
    <3>2. Tail(port) = << >> <=> Len(Tail(port)) = 0
      BY <3>1, EmptySeq
    <3> QED BY <2>1, <3>2
  <2> QED BY <1>4, <2>1, <2>2 DEF LastCode
<1> QED BY <1>1, <1>3, <1>4

LEMMA CtrlKept == CtrlAfter(EXTENDED) = ctrl_pressed
BY DEF CtrlAfter, CTRL, BREAK, EXTENDED

LEMMA CodesStep == TypeOK /\ CodesInv /\ [Next]_vars => CodesInv'
<1> SUFFICES ASSUME TypeOK, CodesInv, [Next]_vars PROVE CodesInv'
  OBVIOUS
<1>1. ASSUME NEW k \in Keys, Press(k) PROVE CodesInv'
  <2>1. /\ port' = Codes(k, 0) /\ down' = down \cup {k} /\ ctrl_pressed' = ctrl_pressed
        /\ port = << >>
    BY <1>1 DEF Press
  <2>2. /\ Len(port') \in {1, 2} /\ (Len(port') = 2 => port'[1] = EXTENDED)
        /\ port'[Len(port')] = k.code + 0 /\ port' # << >>
    BY <2>1, CodesProps
  <2>3. k.code + 0 = k.code /\ CTRL # k.code + BREAK
    BY KeyboardAssumption DEF MakeCodes, BREAK, CTRL
  <2> QED BY <2>1, <2>2, <2>3 DEF CodesInv, LastCode
<1>2. ASSUME NEW k \in Keys, Release(k) PROVE CodesInv'
  <2>1. /\ port' = Codes(k, BREAK) /\ down' = down \ {k} /\ ctrl_pressed' = ctrl_pressed
        /\ port = << >>
    BY <1>2 DEF Release
  <2>2. /\ Len(port') \in {1, 2} /\ (Len(port') = 2 => port'[1] = EXTENDED)
        /\ port'[Len(port')] = k.code + BREAK /\ port' # << >>
    BY <2>1, CodesProps
  <2>3. k.code + BREAK \notin MakeCodes /\ (k.code + BREAK = CTRL + BREAK <=> k.code = CTRL)
    BY KeyboardAssumption DEF MakeCodes, BREAK, CTRL
  <2> QED BY <2>1, <2>2, <2>3 DEF CodesInv, LastCode
<1>3. CASE Irq
  <2>1. /\ port # << >> /\ port' = Tail(port) /\ down' = down
        /\ ctrl_pressed' = CtrlAfter(Head(port))
    BY <1>3 DEF Irq, keyboard_handler
  <2>2. CASE Len(port) = 1 /\ Tail(port) = << >> /\ Head(port) = LastCode
    <3>1. port' = << >> /\ Len(port') = 0
      BY <2>1, <2>2
    <3>2. ctrl_pressed' => LastCode = CTRL \/ (ctrl_pressed /\ LastCode # CTRL + BREAK)
      BY <2>1, <2>2 DEF CtrlAfter
    <3>3. CTRL \in MakeCodes
      BY DEF CTRL, MakeCodes
    <3> QED BY <2>1, <3>1, <3>2, <3>3 DEF CodesInv
  <2>3. CASE /\ Len(port) = 2 /\ Head(port) = EXTENDED /\ Tail(port) # << >>
             /\ Len(Tail(port)) = 1 /\ Tail(port)[1] = LastCode
    <3>1. Len(port') = 1 /\ LastCode' = LastCode /\ port' # << >>
      BY <2>1, <2>3 DEF LastCode
    <3>2. ctrl_pressed' = ctrl_pressed
      BY <2>1, <2>3, CtrlKept
    <3>3. port # << >> /\ (LastCode \in MakeCodes => \E k \in down : k.code = LastCode)
      BY <2>1 DEF CodesInv
    <3>4. Len(port') <= 2 /\ Len(port') # 2
      BY <3>1
    <3>6. LastCode' \in MakeCodes => \E k \in down' : k.code = LastCode'
      <4>1. LastCode \in MakeCodes => \E k \in down : k.code = LastCode
        BY <3>3
      <4> HIDE DEF LastCode
      <4> QED BY <2>1, <3>1, <4>1
    <3>5. ctrl_pressed' /\ (port' = << >> \/ LastCode' # CTRL + BREAK)
            => \E k \in down' : k.code = CTRL
      BY <2>1, <3>1, <3>2 DEF CodesInv
    <3> QED BY <3>4, <3>5, <3>6 DEF CodesInv
  <2> QED BY <2>1, <2>2, <2>3, PortTail
<1>4. CASE UNCHANGED << port, down, ctrl_pressed >>
  BY <1>4 DEF CodesInv, LastCode
<1>5. CASE Thread \/ UNCHANGED vars
  BY <1>4, <1>5 DEF Thread, Getchar, Ping, CallGetchar, CheckEmpty, CheckReady, Halt, Poll,
     Read, Advance, PingFlushLoad, PingFlushStore, PingSend, PingAgain, PingWaitOver,
     PingSpinOver, vars
<1> QED BY <1>1, <1>2, <1>3, <1>5 DEF Next

LEMMA CodesInvariance == Spec => [](TypeOK /\ CodesInv)
BY TypeInit, TypeStep, CodesInit, CodesStep, PTL DEF Spec

(* Once the port is empty ctrl_pressed means that a Ctrl key is held down,   *)
(* for every keyboard: with two Ctrl keys and one flag the handler may think *)
(* too early that Ctrl was let go, but never too late, so no key is taken    *)
(* for Ctrl+C without a Ctrl key.                                            *)
THEOREM CtrlStaysDown == Spec => []CtrlIsDown
<1>1. TypeOK /\ CodesInv => CtrlIsDown
  BY DEF CodesInv, CtrlIsDown
<1> QED BY <1>1, CodesInvariance, PTL

-----------------------------------------------------------------------------
(* A wakeup that came between the loop's test and hlt. *)

(* Only the code of a key that goes down puts a character into the ring.     *)
LEMMA OnlyMakeFills ==
  ASSUME NEW sc, keyboard_handler(sc), Empty, ~Empty'
  PROVE  sc \in MakeCodes
<1> SUFFICES ASSUME sc \notin MakeCodes PROVE FALSE
  OBVIOUS
<1>1. ~Mapped(sc) /\ sc # C_KEY
  BY DEF Mapped, C_KEY, MakeCodes
<1>2. kbd_write_pos' = kbd_write_pos /\ kbd_read_pos' = kbd_read_pos
  BY <1>1 DEF keyboard_handler, PutCtrlC, PutKey
<1> QED BY <1>2 DEF Empty

LEMMA WakeupStep ==
  ShortWindow /\ TypeOK /\ CodesInv /\ LostWakeupHasRelease /\ [Next]_vars
    => LostWakeupHasRelease'
<1> SUFFICES ASSUME ShortWindow, TypeOK, CodesInv, LostWakeupHasRelease, [Next]_vars,
                    pc' \in {"halt", "asleep"}, ~Empty'
             PROVE  port' # << >> \/ down' # {}
  BY DEF LostWakeupHasRelease
<1>1. ASSUME NEW k \in Keys, Press(k) PROVE port' # << >> \/ down' # {}
  BY <1>1 DEF Press
<1>2. ASSUME NEW k \in Keys, Release(k) PROVE port' # << >> \/ down' # {}
  BY <1>2, CodesProps DEF Release
<1>3. CASE Irq
  <2>1. /\ pc = "halt" /\ Empty /\ port # << >> /\ down' = down
        /\ keyboard_handler(Head(port)) /\ port' = Tail(port)
    BY <1>3 DEF Irq
  <2>2. Head(port) \in MakeCodes
    BY <2>1, OnlyMakeFills
  <2>3. CASE Head(port) = LastCode
    BY <2>1, <2>2, <2>3 DEF CodesInv
  <2>4. CASE Tail(port) # << >>
    BY <2>1, <2>4
  <2> QED BY <2>1, <2>3, <2>4, PortTail
<1>4. CASE CheckEmpty
  BY <1>4 DEF CheckEmpty, Empty, ring
<1>5. CASE Halt
  BY <1>5 DEF Halt, Jump, Empty, ring, LostWakeupHasRelease
<1>6. CASE CallGetchar \/ CheckReady \/ Poll \/ Read \/ Advance
  BY <1>6 DEF CallGetchar, CheckReady, Poll, Read, Advance, Jump
<1>7. CASE Ping
  BY <1>7 DEF Ping, PingFlushLoad, PingFlushStore, PingSend, PingAgain, PingWaitOver,
     PingSpinOver, Jump
<1>8. CASE UNCHANGED vars
  BY <1>8 DEF vars, ring, Empty, LostWakeupHasRelease
<1> QED BY <1>1, <1>2, <1>3, <1>4, <1>5, <1>6, <1>7, <1>8 DEF Next, Thread, Getchar

(* A thread that halts although a character came between its test and hlt    *)
(* is woken at the latest when the key is let go, as long as no two          *)
(* interrupts fall into that window of two instructions.                     *)
THEOREM LostWakeupIsMadeUp == ShortWindow /\ Spec => []LostWakeupHasRelease
<1>1. ASSUME ShortWindow PROVE Spec => []LostWakeupHasRelease
  <2>1. Init => LostWakeupHasRelease
    BY DEF Init, LostWakeupHasRelease
  <2>2. TypeOK /\ CodesInv /\ LostWakeupHasRelease /\ [Next]_vars => LostWakeupHasRelease'
    BY <1>1, WakeupStep
  <2> QED BY <2>1, <2>2, CodesInvariance, PTL DEF Spec
<1> QED BY <1>1

-----------------------------------------------------------------------------
(* A waiting character is returned.                                          *)

(* The conditions of Fairness written out: a thread that is not asleep goes  *)
(* on, a code is delivered, a key is let go.                                 *)
CanInterrupt == port # << >> /\ (ShortWindow => ~(pc = "halt" /\ ~Empty))
CanRelease == port = << >> /\ down # {}
KeyReleased == \E k \in Keys : Release(k)

ThreadAndKeysGoOn ==
  /\ <>[](pc # "asleep") => []<><<Thread>>_vars
  /\ <>[]CanInterrupt => []<><<Irq>>_vars
  /\ <>[]CanRelease => []<><<KeyReleased>>_vars

(* It is what Fairness says, where the three are possible on these           *)
(* conditions.                                                               *)
LEMMA FairGoesOn ==
  FairSpec /\ [](/\ pc # "asleep" => ENABLED <<Thread>>_vars
                 /\ CanInterrupt => ENABLED <<Irq>>_vars
                 /\ CanRelease => ENABLED <<KeyReleased>>_vars)
    => Spec /\ ThreadAndKeysGoOn
BY PTL DEF FairSpec, Fairness, ThreadAndKeysGoOn, KeyReleased

(* The handler adds characters and takes none. *)
LEMMA HandlerKeepsWaiting ==
  ASSUME NEW sc, ~Empty, keyboard_handler(sc)
  PROVE  ~Empty'
<1>1. \A r, ch : r.pos # kbd_read_pos => Put(r, ch).pos # kbd_read_pos
  BY DEF Put, HasRoom
<1>2. \A r : r.pos # kbd_read_pos => PutKey(r, sc).pos # kbd_read_pos
  BY <1>1 DEF PutKey
<1>3. \A r : r.pos # kbd_read_pos => PutCtrlC(r, sc).pos # kbd_read_pos
  BY <1>1 DEF PutCtrlC
<1>4. kbd_write_pos # kbd_read_pos
  BY DEF Empty
<1>5. kbd_write_pos' # kbd_read_pos /\ kbd_read_pos' = kbd_read_pos
  BY <1>2, <1>3, <1>4 DEF keyboard_handler
<1> QED BY <1>5 DEF Empty

(* keyboard_getchar at this point of its loop. *)
InGetchar(point) == loop = "getchar" /\ pc = point
Has(point) == InGetchar(point) /\ ~Empty
PortWaits == port # << >>

LEMMA GetcharSteps ==
  ASSUME [Next]_vars
  PROVE  /\ Has("check") => Has("check")' \/ InGetchar("read")'
         /\ Has("halt") => Has("halt")' \/ Has("asleep")'
         /\ Has("asleep") => Has("asleep")' \/ Has("poll")'
         /\ Has("poll") => Has("poll")' \/ Has("check")'
         /\ InGetchar("read") => InGetchar("read")' \/ InGetchar("advance")'
         /\ InGetchar("advance") => InGetchar("advance")' \/ (pc = "app")'
         /\ Has("asleep") /\ PortWaits => PortWaits' \/ Has("poll")'
<1>1. ASSUME NEW k \in Keys, Press(k) \/ Release(k)
      PROVE  UNCHANGED << ring, pc, loop >> /\ PortWaits'
  BY <1>1, CodesProps DEF Press, Release, PortWaits
<1>2. CASE Irq
  <2>1. /\ pc' = IF pc = "asleep" THEN "poll" ELSE pc
        /\ loop' = loop /\ keyboard_handler(Head(port))
    BY <1>2 DEF Irq
  <2>2. ~Empty => ~Empty'
    BY <2>1, HandlerKeepsWaiting
  <2> QED BY <2>1, <2>2 DEF Has, InGetchar
<1>3. CASE Getchar
  BY <1>3 DEF Getchar, CallGetchar, CheckEmpty, CheckReady, Halt, Poll, Read, Advance, Jump,
     Has, InGetchar, Empty, ring, PortWaits
<1>4. CASE Ping
  BY <1>4 DEF Ping, PingFlushLoad, PingFlushStore, PingSend, PingAgain, PingWaitOver,
     PingSpinOver, Jump, Has, InGetchar
<1>5. CASE UNCHANGED vars
  BY <1>5 DEF vars, ring, Has, InGetchar, Empty, PortWaits
<1>6. ASSUME UNCHANGED << ring, pc, loop >>, PortWaits'
      PROVE  /\ \A point : Has(point) => Has(point)'
             /\ \A point : InGetchar(point) => InGetchar(point)'
  BY <1>6 DEF ring, Has, InGetchar, Empty
<1> QED BY <1>1, <1>2, <1>3, <1>4, <1>5, <1>6 DEF Next, Thread

(* A character that waits while keyboard_getchar runs is returned, also when *)
(* it came between the loop's test and hlt: for every size of the ring and   *)
(* every key map.                                                            *)
THEOREM CharsAreReturned == ShortWindow /\ Spec /\ ThreadAndKeysGoOn => CharIsReturned
<1> DEFINE Start == loop = "getchar" /\ ~Empty /\ pc \in {"check", "halt", "asleep", "poll"}
<1>1. [Next]_vars =>
         /\ Has("check") => Has("check")' \/ InGetchar("read")'
         /\ Has("halt") => Has("halt")' \/ Has("asleep")'
         /\ Has("asleep") => Has("asleep")' \/ Has("poll")'
         /\ Has("poll") => Has("poll")' \/ Has("check")'
         /\ InGetchar("read") => InGetchar("read")' \/ InGetchar("advance")'
         /\ InGetchar("advance") => InGetchar("advance")' \/ (pc = "app")'
         /\ Has("asleep") /\ PortWaits => PortWaits' \/ Has("poll")'
  BY GetcharSteps
<1>2. Start => Has("check") \/ Has("halt") \/ Has("asleep") \/ Has("poll")
  BY DEF Has, InGetchar
<1>3. /\ Has("check") => pc # "asleep" /\ ~Has("poll") /\ ~Has("halt") /\ ~Has("asleep")
      /\ Has("poll") => pc # "asleep" /\ ~Has("asleep") /\ ~Has("halt")
      /\ Has("halt") => pc # "asleep" /\ ~Has("asleep")
      /\ InGetchar("read") => pc # "asleep" /\ ~InGetchar("advance")
      /\ InGetchar("advance") => pc # "asleep"
  BY DEF Has, InGetchar
<1>4. <<Thread>>_vars => /\ Has("check") => ~Has("check")'
                         /\ Has("halt") => ~Has("halt")'
                         /\ Has("poll") => ~Has("poll")'
                         /\ InGetchar("read") => ~InGetchar("read")'
                         /\ InGetchar("advance") => ~InGetchar("advance")'
  BY DEF Thread, Getchar, CallGetchar, CheckEmpty, CheckReady, Halt, Poll, Read, Advance, Ping,
     PingFlushLoad, PingFlushStore, PingSend, PingAgain, PingWaitOver, PingSpinOver, Jump,
     Has, InGetchar
<1>5. <<Irq>>_vars => (Has("asleep") => ~Has("asleep")')
  BY DEF Irq, Has, InGetchar
<1>6. <<KeyReleased>>_vars => PortWaits'
  BY CodesProps DEF KeyReleased, Release, PortWaits
<1>7. LostWakeupHasRelease => (Has("asleep") => PortWaits \/ CanRelease)
  BY DEF LostWakeupHasRelease, Has, InGetchar, PortWaits, CanRelease
<1>8. Has("asleep") /\ PortWaits => CanInterrupt
  BY DEF Has, InGetchar, PortWaits, CanInterrupt
<1> HIDE DEF Start
<1>9. ShortWindow => (Spec /\ ThreadAndKeysGoOn => (Start ~> (pc = "app")))
  BY <1>1, <1>2, <1>3, <1>4, <1>5, <1>6, <1>7, <1>8, LostWakeupIsMadeUp, PTL
     DEF Spec, ThreadAndKeysGoOn
<1> QED BY <1>9, PTL DEF CharIsReturned, Start
=============================================================================
