------------------------------ MODULE Keyboard ------------------------------
(***************************************************************************)
(* The keyboard of UwUOS: the ring buffer that the interrupt handler       *)
(* keyboard_handler fills and that the kernel's only thread empties, in    *)
(* keyboard_getchar and in the polling loops of the shell's ping command   *)
(* (kernel/kernel.c).  The handler runs through an interrupt gate          *)
(* (kernel/irq.c, flags 0x8E), so it is one step; the thread is            *)
(* interrupted between any two accesses to the ring, so each access is a   *)
(* step of its own.  A definition whose name extends the next one's        *)
(* (HasRoomNoTest, HasRoom) is a mutation of it that the runs must refute. *)
(***************************************************************************)
EXTENDS KeyMap, FiniteSets

CONSTANTS KBD_BUFFER_SIZE,
          key_map,          \* scan code -> character, 0 for none
          Keys,             \* the keys of the keyboard: [code, ext]
          MaxDown,          \* bound: keys held down at the same time
          ShortWindow       \* TRUE: no second interrupt between test and hlt

ASSUME KeyboardAssumption ==
  /\ KBD_BUFFER_SIZE \in Nat /\ KBD_BUFFER_SIZE >= 2
  /\ key_map \in [MakeCodes -> ByteValues]
  /\ Keys \subseteq [code : MakeCodes, ext : BOOLEAN]
  /\ MaxDown \in Nat
  /\ ShortWindow \in BOOLEAN

VARIABLES kbd_buffer, kbd_read_pos, kbd_write_pos,
          ctrl_pressed,     \* the handler's static flag
          down,             \* the keys held down
          port,             \* scan codes the controller has not delivered yet
          pc,               \* where the kernel's thread is
          loop,             \* the loop that reads: getchar, or ping's two
          c, mark,          \* locals: the character read, the flush's copy of write_pos
          ret               \* the last character taken from the ring

ring   == << kbd_buffer, kbd_read_pos, kbd_write_pos >>
locals == << c, mark >>
vars   == << ring, ctrl_pressed, down, port, pc, loop, locals, ret >>

Positions == 0..(KBD_BUFFER_SIZE - 1)
After(p)  == (p + 1) % KBD_BUFFER_SIZE
Chars     == KbdChars(key_map)

Init ==
  /\ kbd_buffer = [p \in Positions |-> 0]
  /\ kbd_read_pos = 0 /\ kbd_write_pos = 0
  /\ ctrl_pressed = FALSE
  /\ down = {} /\ port = << >>
  /\ pc = "app" /\ loop = "getchar"
  /\ c = 0 /\ mark = 0 /\ ret = 0

-----------------------------------------------------------------------------
(* The keyboard: a key goes down (or repeats) and up; its codes wait in the port. *)

Codes(k, offset) == IF k.ext THEN << EXTENDED, k.code + offset >> ELSE << k.code + offset >>

Press(k) ==
  /\ port = << >>
  /\ down' = down \cup {k}
  /\ Cardinality(down') <= MaxDown
  /\ port' = Codes(k, 0)
  /\ UNCHANGED << ring, ctrl_pressed, pc, loop, locals, ret >>

Release(k) ==
  /\ port = << >> /\ k \in down
  /\ down' = down \ {k}
  /\ port' = Codes(k, BREAK)
  /\ UNCHANGED << ring, ctrl_pressed, pc, loop, locals, ret >>

-----------------------------------------------------------------------------
(* keyboard_handler: one interrupt, one scan code. *)

HasRoomNoTest(w) == w \in Positions
HasRoom(w) == After(w) # kbd_read_pos

Put(r, ch) ==
  IF HasRoom(r.pos) THEN [buf |-> [r.buf EXCEPT ![r.pos] = ch], pos |-> After(r.pos)] ELSE r

Mapped(sc) == sc \in MakeCodes /\ key_map[sc] # 0

CtrlAfterNoClear(sc) == ctrl_pressed \/ sc = CTRL
CtrlAfter(sc) == IF sc = CTRL THEN TRUE
                 ELSE IF sc = CTRL + BREAK THEN FALSE ELSE ctrl_pressed

PutKey(r, sc)  == IF Mapped(sc) THEN Put(r, key_map[sc]) ELSE r
PutCtrlC(r, sc) == IF CtrlAfter(sc) /\ sc = C_KEY THEN Put(r, ETX) ELSE r

keyboard_handler(sc) ==
  LET r == PutCtrlC(PutKey([buf |-> kbd_buffer, pos |-> kbd_write_pos], sc), sc)
  IN  /\ kbd_buffer' = r.buf
      /\ kbd_write_pos' = r.pos
      /\ ctrl_pressed' = CtrlAfter(sc)
      /\ UNCHANGED kbd_read_pos

Empty == kbd_read_pos = kbd_write_pos

(* The interrupt is taken wherever the thread is, and wakes it out of hlt. *)
Irq ==
  /\ port # << >>
  /\ ShortWindow => ~(pc = "halt" /\ ~Empty)
  /\ keyboard_handler(Head(port))
  /\ port' = Tail(port)
  /\ pc' = IF pc = "asleep" THEN "poll" ELSE pc
  /\ UNCHANGED << down, loop, locals, ret >>

-----------------------------------------------------------------------------
(* The kernel's thread. *)

Jump(from, to) == pc = from /\ pc' = to

(* A prompt, the editor or the paint program calls keyboard_getchar. *)
CallGetchar ==
  /\ Jump("app", "check")
  /\ loop' = "getchar"
  /\ UNCHANGED << ring, ctrl_pressed, down, port, locals, ret >>

(* The loop test: getchar is about to halt on an empty ring, ping goes round. *)
CheckEmpty ==
  /\ pc = "check" /\ Empty
  /\ pc' = IF loop = "getchar" THEN "halt" ELSE "again"
  /\ UNCHANGED << ring, ctrl_pressed, down, port, loop, locals, ret >>

CheckReady ==
  /\ Jump("check", "read") /\ ~Empty
  /\ UNCHANGED << ring, ctrl_pressed, down, port, loop, locals, ret >>

Halt ==
  /\ Jump("halt", "asleep")
  /\ UNCHANGED << ring, ctrl_pressed, down, port, loop, locals, ret >>

(* net_poll, which leaves the keyboard alone, and back to the test. *)
PollNoTest ==
  /\ Jump("poll", "halt")
  /\ UNCHANGED << ring, ctrl_pressed, down, port, loop, locals, ret >>

Poll ==
  /\ Jump("poll", "check")
  /\ UNCHANGED << ring, ctrl_pressed, down, port, loop, locals, ret >>

Read ==
  /\ Jump("read", "advance")
  /\ c' = kbd_buffer[kbd_read_pos]
  /\ UNCHANGED << ring, ctrl_pressed, down, port, loop, mark, ret >>

(* The character is the caller's; ping stops on Ctrl+C and drops the others. *)
AdvanceNoStop ==
  /\ pc = "advance"
  /\ kbd_read_pos' = After(kbd_read_pos)
  /\ ret' = c /\ c' = 0
  /\ pc' = IF loop = "getchar" THEN "app" ELSE "again"
  /\ UNCHANGED << kbd_buffer, kbd_write_pos, ctrl_pressed, down, port, loop, mark >>

Advance ==
  /\ pc = "advance"
  /\ kbd_read_pos' = After(kbd_read_pos)
  /\ ret' = c /\ c' = 0
  /\ pc' = IF loop = "getchar" \/ c = ETX THEN "app" ELSE "again"
  /\ UNCHANGED << kbd_buffer, kbd_write_pos, ctrl_pressed, down, port, loop, mark >>

(* ping: kbd_read_pos = kbd_write_pos, a load and a store. *)
PingFlushLoad ==
  /\ Jump("app", "flush")
  /\ mark' = kbd_write_pos
  /\ UNCHANGED << ring, ctrl_pressed, down, port, loop, c, ret >>

PingFlushStoreLate ==
  /\ Jump("flush", "send")
  /\ kbd_read_pos' = kbd_write_pos /\ mark' = 0
  /\ UNCHANGED << kbd_buffer, kbd_write_pos, ctrl_pressed, down, port, loop, c, ret >>

PingFlushStore ==
  /\ Jump("flush", "send")
  /\ kbd_read_pos' = mark /\ mark' = 0
  /\ UNCHANGED << kbd_buffer, kbd_write_pos, ctrl_pressed, down, port, loop, c, ret >>

(* 2000 polls and icmp_send_ping: the ring is left alone. *)
PingSend ==
  /\ Jump("send", "check")
  /\ loop' = "wait"
  /\ UNCHANGED << ring, ctrl_pressed, down, port, locals, ret >>

(* Both waiting loops read at least once before their counters run out. *)
PingAgain ==
  /\ Jump("again", "check")
  /\ UNCHANGED << ring, ctrl_pressed, down, port, loop, locals, ret >>

PingWaitOver ==
  /\ Jump("again", "check") /\ loop = "wait"
  /\ loop' = "spin"
  /\ UNCHANGED << ring, ctrl_pressed, down, port, locals, ret >>

PingSpinOver ==
  /\ Jump("again", "send") /\ loop = "spin"
  /\ UNCHANGED << ring, ctrl_pressed, down, port, loop, locals, ret >>

Getchar == CallGetchar \/ CheckEmpty \/ CheckReady \/ Halt \/ Poll \/ Read \/ Advance

Ping == PingFlushLoad \/ PingFlushStore \/ PingSend \/ PingAgain \/ PingWaitOver \/ PingSpinOver

Thread == Getchar \/ Ping

Next ==
  \/ \E k \in Keys : Press(k) \/ Release(k)
  \/ Irq
  \/ Thread

Spec == Init /\ [][Next]_vars

(***************************************************************************)
(* The thread runs whenever it is not asleep, interrupts are enabled, and  *)
(* a key held down is eventually let go.  Nothing makes the user press one.*)
(***************************************************************************)
Fairness ==
  /\ WF_vars(Thread)
  /\ WF_vars(Irq)
  /\ WF_vars(\E k \in Keys : Release(k))

FairSpec == Spec /\ Fairness

-----------------------------------------------------------------------------
(* Properties *)

PCs == {"app", "check", "halt", "asleep", "poll", "read", "advance",
        "flush", "send", "again"}

(* Every variable has its C type: positions never leave the ring. *)
TypeOK ==
  /\ kbd_buffer \in [Positions -> ByteValues]
  /\ kbd_read_pos \in Positions /\ kbd_write_pos \in Positions
  /\ ctrl_pressed \in BOOLEAN
  /\ down \subseteq Keys
  /\ port \in Seq(ByteValues)
  /\ pc \in PCs /\ loop \in {"getchar", "wait", "spin"}
  /\ c \in ByteValues /\ mark \in Positions /\ ret \in ByteValues

(***************************************************************************)
(* The characters that wait in the ring, and the queue they implement.     *)
(***************************************************************************)
Distance(r, w) == (w - r) % KBD_BUFFER_SIZE

ContentsOf(buf, r, w) == [i \in 1..Distance(r, w) |-> buf[(r + i - 1) % KBD_BUFFER_SIZE]]

Waiting  == Distance(kbd_read_pos, kbd_write_pos)
Contents == ContentsOf(kbd_buffer, kbd_read_pos, kbd_write_pos)

(* How many of them the running flush will drop: those it saw at its load. *)
Marked == IF pc = "flush" THEN Distance(kbd_read_pos, mark) ELSE -1

Queue == INSTANCE KbdQueue WITH Capacity <- KBD_BUFFER_SIZE - 1, Interrupt <- ETX,
                                queue <- Contents, marked <- Marked

(* The ring with its unlocked reader is a bounded FIFO: a full ring drops    *)
(* the new character, never an old one, no character is read twice, and a    *)
(* flush drops what waited when it loaded kbd_write_pos, not what the        *)
(* handler stores before the flush moves kbd_read_pos.                       *)
IsQueue == Queue!Spec

(* A waiting character, and one read but not yet passed by kbd_read_pos, is  *)
(* one the handler stored: never 0, never a stale cell, never ESC.           *)
OnlyTypedChars ==
  /\ \A i \in 1..Waiting : Contents[i] \in Chars
  /\ pc = "advance" => c \in Chars /\ ~Empty /\ c = Contents[1]

(* The reader's position in its loop agrees with the ring: it reads only a   *)
(* character that waits, and a flush skips only what waits.                  *)
ReaderInv ==
  /\ pc = "read" => ~Empty
  /\ pc = "flush" => Distance(kbd_read_pos, mark) <= Waiting

(* When all codes are delivered, ctrl_pressed means some Ctrl key is down,   *)
(* although left and right Ctrl share the flag.                              *)
CtrlIsDown ==
  (ctrl_pressed /\ port = << >>) => \E k \in down : k.code = CTRL

(* A thread that halts or sleeps while a character waits (it came between    *)
(* the test and hlt) has a key whose release will wake it.                   *)
LostWakeupHasRelease ==
  (pc \in {"halt", "asleep"} /\ ~Empty) => port # << >> \/ down # {}

(* A character that waits while keyboard_getchar runs is returned.           *)
CharIsReturned ==
  (loop = "getchar" /\ ~Empty /\ pc \in {"check", "halt", "asleep", "poll"}) ~> (pc = "app")

Pinging == pc \in {"send", "again"} \/ (loop # "getchar" /\ pc \in {"check", "read", "advance"})

(* A 0x03 that waits in the ring stops a running ping, however many keys the *)
(* user goes on typing.                                                      *)
CtrlCStopsPing ==
  (Pinging /\ \E i \in 1..Waiting : Contents[i] = ETX) ~> (pc = "app")
=============================================================================
