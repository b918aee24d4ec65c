# Verification of UwUOS and the UwU-C compiler

The repository holds two programs. `kernel/` is UwUOS, a single-threaded x86
kernel with a shell: keyboard and screen, an in-memory file system, user
accounts, a small network stack with ping and an HTTP client for packages.
`src/` is `uwucc`, a compiler from UwU-C to x86-64 or ARM64 assembly, with a C library
(`stdlib/`) behind the programs it produces. This directory models the core of
both in TLA+, checks the models with TLC and proves the central invariants with
TLAPS. `PROJECT.json` maps every definition to the lines it translates and lists
the runs, their mutations, the hazards of the code and the findings.

Contents: [components](#components), [how the modules are built](#how-the-modules-are-built),
[module by module](#module-by-module), [runs](#runs-bounds-and-what-they-show),
[fairness](#fairness), [proofs](#proofs), [findings](#findings),
[what is only model-checked](#only-model-checked), [not modelled](#not-modelled),
[plan](#plan).

## Components

| component (code) | state it keeps | operations | talks to | what is hard | what makes it correct |
|---|---|---|---|---|---|
| keyboard driver (`kernel/kernel.c` 205-272, `irq.c`) | `kbd_buffer`, two positions, `ctrl_pressed` | interrupt handler; `keyboard_getchar`; the two polling loops of `ping` | filled by the interrupt, emptied by the only thread, which polls the network while it waits | the handler runs between any two instructions of the reader; test-then-`hlt`; full ring | it is a bounded FIFO; nothing untyped is returned; waiting keys are returned; Ctrl+C ends ping |
| console (`terminal_*`, `shell_loop`) | VGA memory, cursor, line buffer | put a character, scroll, edit a line, prompt, start a program | `net_poll` prints into it in the middle of a line | wrapping and scrolling; backspace over a row; replies between two keys | the cursor stays on the screen; the line shown is the line returned |
| editor and paint (`text_editor`, `paint_app`) | page, canvas, brush | one action per key | shell, keyboard, screen | page, position and cursor move separately; exit on one character, which no key has | the screen shows what the program holds |
| users (`user_*`, shell) | table of slots, `current_user_id`, `next_uid` | first boot, login, logout, useradd, userdel, passwd | shell commands test the session | slots are reused with old contents; uid of a deleted session | a map from names to accounts; root stays; no session without account |
| file system (`fs.c`, shell) | table, data array, watermark | create, write, delete, read | shell, package install | slots reused; bytes not reserved, nothing reclaimed, the end of the array not looked at | unique names, right count, disjoint extents, `cat` shows what was written |
| network, lower half (`rtl8139.c`, `network.c`) | receive ring, ARP cache, gateway MAC | poll, frame handlers, ARP wait, ping | card, remote hosts, TCP | card stores while driver walks; frames that are not taken; handler that polls inside a poll; eviction | driver and card in step; cache is a map; a segment of the server makes no handler wait; every wait ends |
| HTTP client (`http_request`, `tcp_handle`) | port, flags, sequence numbers, response buffer | start, connect, collect, drain; segment handler | server, ARP, shell | late and repeated segments, segments of other hosts, buffer limits, one-shot SYN | no byte of another answer; a FIN means complete; every request returns |
| network cards (`rtl8139.c`, `e1000.c`) | rings and registers | init, send, poll | PCI, hardware | descriptors, DMA | see lower half; the transmit side is not modelled |
| paths (`construct_path`, `fs_normalize_path`, `fs_list`) | `current_path` | cd, ls, mkdir, touch, rm | file table | files are found by comparing texts | one text per directory; a command goes where its argument means; ls shows the children |
| package manager (`kernel.c` 890-1069, `server.py`) | none of its own | pkg test, list, install | HTTP client, file system, server | answers cut anywhere; results of the file system are ignored; two requests for one package | "installed" means installed; no error page is kept; other packages stay |
| lexer (`src/lexer.c`) | position in the source | next token | parser | the longest operator, comments, strings, characters that run together | tokens are those that were written |
| parser (`src/parser_new.c`) | current and previous token, one token of lookahead | one function per construct | lexer, AST | ten nested levels; dangling `nowu` | builds the tree that was written |
| name resolution (`src/semantic.c`) | scopes, next stack offset | declare, look up, check | AST | two passes over a block, shadowing | every use gets the slot of its variable |
| IR generator (`src/ir.c`) | instruction list, three counters, frame size | one case per node | AST, code generator | label and temporary numbering, clauses by position | control flow as written |
| code generator (`src/codegen.c`) | none | one case per instruction, for two processors | IR, assembler | stack layout, alignment, callee-saved registers, the link register | the process does what the source means |
| JIT (`src/jit_engine.c`) | | | | includes `ssa_ir.h`, which does not exist: it cannot be built | |
| standard library (`stdlib/`) | allocation table | read, print, allocate, free, report | compiled programs, libc | libc hands out an address again whose old entry is still in the table | the leak report is exact; libc never sees a double free |
| boot code (`*.asm`, `isr.c`, `idt.c`) | descriptor tables | set up once | hardware | | not modelled |

The kernel has one thread and interrupts. Only the keyboard interrupt touches
state the thread uses; the network is polled, from `keyboard_getchar` and from
the waiting loops of ping, ARP and HTTP. So concurrency means: the keyboard
handler between any two ring accesses; frame handlers at every poll; the card
and the servers at any time.

## How the modules are built

* One action per operation, named after its C function or shell command.
  Constants of the code (`KBD_BUFFER_SIZE`, `FS_MAX_FILES`, `CACHE`, ...) are
  CONSTANTS with named assumptions.
* Data is abstracted to what the properties tell apart: a MAC is the name of its
  host, a byte of an answer is the pair (request, position), paths and passwords
  are model values. Arithmetic on positions is kept as in the code.
* A definition in front of another one whose name it extends
  (`RaisedNot`, `Raised`) is a mutation that a run must refute. The mutations are
  listed in `PROJECT.json`; nothing uses them.
* Abstract specifications (`KbdQueue`, `Accounts`, `FileStore`) say what a
  component promises; the detailed module instantiates them with a refinement
  mapping.
* Proofs are in a `...Proofs` module next to the model; `ConsoleProofs` has those of
  `Readline` and of `Apps`, `FilesProofs` those of `FileSystem` and of `Packages`, which extends
  it. Loops over texts and tables in the kernel's modules are recursive functions, which can be
  reasoned about; only the modules of the compiler use RECURSIVE operators, and nothing is
  proved about them.

## Module by module

**KeyMap, Keyboard, KbdQueue.** `KeyMap` is the table `key_map` and the
characters the handler stores. `Keyboard` has the ring, the keys held down, the
scan codes on their way (`port`) and the program counter of the thread.
`keyboard_handler` is one step, because its gate disables interrupts; every access
of the thread to the ring is one step (`CheckEmpty`, `Halt`, `Poll`, `Read`,
`Advance`, `PingFlushLoad`, `PingFlushStore`, ...). `IsQueue` maps the ring to the FIFO of
`KbdQueue`. That queue loses a character in two ways only: `Put` drops the new one when
there is no room, and `Discard` drops what waited when the flush began (`marked`), so a key
typed between load and store of `kbd_read_pos = kbd_write_pos` stays. `Marked` maps the
thread's loaded position to it. The loops of ping that drop other characters take them one by
one. The ring is full at `KBD_BUFFER_SIZE - 1`.

**Screen, Readline.** `Screen` translates `terminal_putc` (newline, wrap,
scroll), clearing and the backspace of `terminal_readline`. `Readline` is the shell
loop: a command prints, the prompt is shown, keys edit the line. `ReplyPrinted` is
the one thing that happens in between: an echo reply that `net_poll` received
while the shell waits prints its own line. `clean` remembers whether one did.

**Apps.** Extends `Readline`: `text_editor` and `paint_app` are commands that keep the
screen until they return. `StartEditor` and `StartPaint` are their beginnings,
`EditorEnter`, `EditorBackspace`, `EditorType` and `PaintKey` the branches of their
loops, `Quit` the way out. Replies are printed into them too (`ReplyIntoProgram`), at
the cursor the editor goes on with. The character of a key comes from `key_map`, a
constant here. With the kernel's own table no program ever ends (`EscExits`, the run
`console_esc`, see [findings](#findings)). The invariants hold for any table, and the run
`console` checks them with one that differs from the kernel's in the ESC key alone, so that
the way out and what follows it occur too.

**Users, Accounts.** The table `users` with its reusable slots; each shell
command is one action with all its tests. `Accounts` is a map from names to
password and right, plus the name of the session.

**FileSystem, FileStore.** `fs_create`, `fs_write`, `fs_delete`, `fs_exists`,
`fs_find` under `touch`, `mkdir`, `rm` and `write`. `Shown` is what `cat` prints:
the bytes of the array at the file's offset. `FileStore` is the promise, a map
from names to contents, in which a write leaves exactly the bytes it was given: `call`
records what was asked for, and nothing in the model reads it. `fs_write` does not compare the
end of what it stores with the end of the array. A write that passes it (`WriteBehind`) sets
`spilled`, and the model ends, because what it overwrites C does not define; the invariants
speak of the states up to there. `Careful` restricts the user to writes that keep extents
apart: a file may grow only while it ends at the watermark (an empty new file as long as no
other was written since). With `Careful = FALSE` the promise is broken (see findings).
`KeepingSpec` is the same program under a user who removes nothing.

**Paths.** A path is a sequence of slashes and names; `current_path` and the names of
the file table are such paths. `construct_path`, `fs_normalize_path`, `fs_create`
and `fs_list` are translated as they work on the text, with `ParentPath` leaving the doubled
slash that the code leaves. `Without` is the loop of `fs_normalize_path`, which copies a path
without some of its characters; `Listed` is one round of the loop of `fs_list`, which stops at the
first line that does not fit. A name is as long as it can be: in a path, another one comes only
after a slash (`Separated`). `Components` and `Meaning` say what a path
means to a user; the properties compare the two. The contents of files are in
`FileSystem`.

**Packages.** Extends `FileSystem` with the commands of `pkg`. `FetchMeta` and
`FetchSource` are the two requests of an install; an answer is any beginning of what
the server sends (the contract `ResultIsPrefix` of `HttpClient`, which is for requests
in which the server repeats nothing and no other host sends to the port), cut to the caller's
buffer. Every call of the file system is a step (`FsCall`), its result ignored.
`FileAnswer` is `handle_client` of `server.py`; `Publish` changes what the server
holds, also between the two requests.

**NetStack.** The card appends frames to the ring at `card_pos`, and a frame may
stand there before it is all stored (`rok`, `FrameStored`). `PollStart`, `PollFrame` and
`PollEnd` are the loop of `rtl8139_poll`; a frame that is still being stored, shorter than 4 or
longer than 1600 bytes ends it without a step forward (`PollBreak`). `Handle` is
`net_handle_packet` for ARP, ICMP and TCP frames, as far as it stores a MAC or has to send. A
SYN+ACK comes from the server of the request, a segment with data from any host to any port,
because `tcp_handle` looks at no source there. `Ping` and `HttpStart` enter
`arp_resolve_blocking`, which polls until `Resolved` or `GivesUp`. A frame whose handler has to
answer and has no MAC to send to `Blocks`: then `HandlerPolls`, inside the handler and with
`rx_buffer_pos` still at that frame, and polls again (`nested` counts that up to a bound).

**HttpClient.** The thread's phases (`resolve`, `syn`, `collect`, `drain`) and
`tcp_handle`, which runs at any poll, also between requests. Its two tests are kept apart:
`FromServer` (address and port, for a SYN+ACK and the FIN flag) and `ToOurPort` (the client's
port and `established`, for data and its acknowledgement). The server side
(`ServerTakes`, `ServerSends`, `ServerResends`, `ServerForgets`) and the queues are
the environment: in order, without loss, but late, and with repeated segments.
`PollStranger` is a segment of another host; its bytes are marked as of request 0. One bound,
`MaxDisturbances`, is for both. Whether a MAC is known for the sender is `NetStack`'s concern.

**Heap.** `uwu_allocs` and `uwu_alloc_count`, and libc below them: `blocks` are the
blocks in use, and any free address may be handed out next. `held` are the addresses
the program ever got, which it may free again. `FirstOf` is the search from the
front of the table, `Marked` and `TrackAlloc` what `uwu_track_free` and
`uwu_track_alloc` leave behind.

**Lexer, Parser, Semantic, IR, Codegen, Compiler, Language.** Each of the first five
translates one stage as an operator, one definition per C function or case:
`lexer_next_token`, `parse`, `semantic_analyze`, `ir_generate`, `codegen_emit_asm`. A
source is a sequence of pieces, marks, digits, blanks and words, which run together
as the characters of a file do. `Compiler` is the state machine of `main.c` that
applies the stages one after the other and then of the processor that runs the
result, an action per kind of instruction, with registers, stack words and the calls
of the library, which may destroy every register that is not callee-saved and every
word below the stack pointer. A program says for which of the two processors it is
compiled; the ARM64 one keeps the return address in `x30` (`BranchLink`, `RetLink`)
and saves registers in pairs. `Language` is an interpreter of
trees, written from docs/syntax.md and C, that shares nothing with the stages: its `&&` and
`||` leave the right side out when the left one decides. A
run in it may go wrong (reading an unset variable, division by zero, ...), and then
nothing is claimed. `MCCompiler` builds trees, and writes them down as text with as few
parentheses as C needs, so that the parser's levels and grouping are put to
the test. Integers are small enough that 64 bits and 32 bits do not matter;
negative numbers are not read and not shifted. Sources outside `Supported`, or without a
meaning, are only parsed (`CompiledOrParsed`).

## Runs, bounds and what they show

| run | module | shows | bounds, and why they are enough |
|---|---|---|---|
| `keyboard` | MCKeyboard | Ctrl flag, no lost wake-up for good, FIFO, getchar returns, Ctrl+C stops ping | ring of 3 (holds 2: full, empty and wrapped all occur), keys C, both Ctrl, ESC, three held at once; `ShortWindow`: no second interrupt between test and `hlt` |
| `console` | MCConsole | cursor on screen and behind its line, line shown = line returned, programs shown | 3x3 screen, buffer 4: the line wraps, scrolls and fills the buffer; page of 2 lines of 3 columns, canvas of 2 rows: first and last line and column; a table with an ESC key, so that programs also return; 96 thousand states |
| `console_esc` | MCConsole | **violation**: ESC leaves neither editor nor paint program | as above, with the kernel's own `key_map` |
| `users` | Users | distinct accounts, root stays, valid session, refinement of `Accounts` | 3 slots, 3 names, 2 passwords, 3 accounts created: full table, reuse of a slot, deletion of each kind; uids do not wrap |
| `fs` | MCFileSystem | table sound (count, unique names, watermark) up to a write behind the array, disjoint extents, refinement of `FileStore` under `Careful` | 3 slots, all of which can become files once the directories made at boot are removed, files of at most 2 bytes, an array of 6, 2 byte values; symmetry over bytes, and a view that hides bytes no file can show; 442 thousand states |
| `fs_shared` | FileSystem | **violation**: without `Careful` one write changes another file | the same, 4 names, no symmetry |
| `http` | HttpClient | no cross-talk, FIN means complete, result is a prefix, only sent data acknowledged, requests return | 2 ports, 2 requests, buffer 4 against answers of 2 and 4 (one fits, one does not), 2 segments in flight, one segment that the server repeats or that another host sends (with data, FIN, SYN or none, to either port); 1.2 million states |
| `net` | NetStack | ring in step, the server's segments never make a handler wait, known MACs stay, waits end | gateway, 2 hosts, 1 remote, cache of 2 (full), ring of 28 bytes with frames of 5 (unaligned, wrapping) and 11 (longer than the driver takes), each also still being stored, 2 frames per poll, 1 nested poll; 1.8 million states |
| `packages` | MCPackages | "installed" means as served, nothing kept but what a file's name says, other packages untouched | 2 commands, 2 packages of 3 versions (an ordinary one, one too long for the buffers, one without an entry), 8 slots of which two packages need more; 544 thousand states |
| `paths` | MCPaths | one text per directory, ls shows the children, commands go where arguments mean | 4 slots of which 2 are free at the start, arguments of each form the code tests (`..`, `.`, absolute, with a trailing and a doubled slash), names of at most 6 pieces, a listing buffer that two names fill |
| `heap` | Heap | leak report exact, no double free in libc | 3 addresses, 2 sizes, table of 4: every address reused, stale addresses freed, the table full |
| `compiler` | MCCompiler | tree as written, process computes the meaning, every process ends | three thousand sources, of which the supported ones with a meaning go on to the code generator: every pair of operators in both groupings, every operator over and under a unary one, two statements nested in every if and loop, 4 to 8 arguments (register and stack, with and without padding), an empty function, each token of a program missing in turn, sources with strange characters and open strings, programs packed and spread over commented lines, and one of each form for ARM64; only parsed: `!`, assigning operators, `bweak` and `continyue`, parameters, and the forms of docs/syntax.md:39 and :76 that are refused; 12 loop rounds |

`fs`, `http`, `net`, `packages`, `heap` and `compiler` do not check deadlock: after a
write behind the data array, after the bounded number of requests, commands or nested polls, and
after a process has ended, there is nothing left to do. In
`compiler` a stuck processor (a jump to nowhere, a misaligned call) shows as a
violation of `Finishes` instead.

`Compiler!Supported` names the fragment for which `ComputesMeaning` is claimed.
What it leaves out, the compiler gets wrong or drops: `bweak`, `continyue`, an
assignment as increment of a `fow`, a `fow` with a clause left out or with
declarations, the same name declared twice, a declaration without a value,
`!`, `&&` and `||` of anything but comparisons (they become `&` and `|`, with both sides
evaluated, ir.c:112-132), `+=` and its like, functions besides `main` that do anything, and functions
behind `main`. Those are not modelling limits: the stages translate them as the
code does, the meaning differs, and dropping a line of `Supported` gives the
counterexample. Each was reproduced with the compiler itself. `SupportedOnArm` is
what remains on ARM64: no call with more than one argument (each argument is loaded
into `x0` on its way, so the first one is lost, codegen.c:486), and a temporary in
every function (else slots 0 and 1 lie on the saved `x29` and `x30`). These were read
from the assembly; the two processors agree on the rest.

Some properties leave out what the code does not achieve, and say so in their
guards. `EchoIsBuffer` and `ProgramIsShown` hold until a reply is printed (`clean`).
`FinMeansComplete` and `ResultIsPrefix` are for an undisturbed exchange (`Undisturbed`), and
`AcksOnlySent` holds until another host's segment moves `tcp_ack`. `ThreadReturns` holds until a
handler polls. `Packages!overgrown` is set when a file is written that no longer fits in
its place: an install that replaces a version by a longer one runs into the next
file, the cause shown by `fs_shared`. `InstalledIsServed` speaks of complete answers
only: an answer longer than `http_response_buffer` or the caller's buffer is cut and
installed as it is.

## Fairness

* Keyboard: the thread runs (WF on its steps), interrupts are served (WF on `Irq`),
  and a key that is down is released at some time. The last one is what saves a
  wake-up lost between test and `hlt`: the release is an interrupt too.
* Apps, in `console_esc` only: a program handles the character that waits and finishes
  printing a reply (WF on each); keys are never obliged to come.
* HttpClient: WF on the loops of `http_request`, which count down. Neither
  server nor network is fair.
* NetStack: WF on the poll loop, which takes at most `MAX_POLL` frames, with its end at a
  frame that is not taken and its call from a handler; none on the card, which may never
  finish storing a frame. SF on the end of an ARP wait, because each poll is followed by the test of the cache and
  the countdown, so that a wait that is possible again and again cannot be
  passed over for ever.
* Compiler: WF on the processor.
* Users, FileSystem, Paths, Packages, Heap, Readline: none, and no liveness is stated.

## Proofs

All proofs are for arbitrary values of the constants under the named assumptions
of the modules (`KeyboardAssumption`, `ScreenAssumption`, `ReadlineAssumption`,
`AppsAssumption`, `UsersAssumption`, `FileSystemAssumption`, `PathsAssumption`,
`PackagesAssumption`, `PackageNames`, `PackageBytes`, `HttpAssumption`, `NetAssumption`, `HeapAssumption`); there
are no other ones. TLC evaluates each of them on the values of the runs.

* **KeyboardProofs.** `IInv`: `TypeOK /\ OnlyTypedChars /\ ReaderInv`.
  `ReaderInv` is needed because the reader's position is a promise about the ring
  (at `read` it is not empty; what a flush has marked still waits when it stores). Modular arithmetic on
  positions is kept in a few lemmas about `Distance` and `ContentsOf`. On top of it
  `Refinement`: every step is a step of `KbdQueue` or changes neither queue, mark nor
  returned character; `MarkedStays` says that the interrupt handler, which moves only the
  other position, leaves the mark alone. `CtrlIsDown` and `LostWakeupHasRelease` speak of an empty or a
  non-empty `port` and are not inductive; `CodesInv` says what the scan codes on their way
  mean: the last one, if it is a press, is of a key that is down, and a Ctrl key is down
  as long as the handler believes so and no release of one is on its way. With
  `ShortWindow` a thread that halts beside a waiting character therefore has either a code
  on its way or a key whose release is still to come.
* **ConsoleProofs**, Readline. `TypeOK /\ CursorAfterLine`: backspace can go up a row only
  because the cursor is at least as many cells from the top as the line is long;
  scrolling keeps that because a line and its prompt fit above the last row.
  `LineIsEchoed` rests on `Ends`, that the cells before the cursor are a given text: `EndsPutc`
  and `EndsRubout` show that a character lengthens it and a backspace shortens it, where `PutcCells`
  treats wrapping and scrolling as one shift of all positions. `Echoed` is that
  invariant at each point of the loop, also while a prompt is being printed.
* **ConsoleProofs**, Apps. The same invariants hold with the programs around the prompt
  (`ConsoleInv`), and `Programs` says at each key that the screen is the program's page or
  brush, with the cursor where the program thinks it is, until a reply is printed.
* **UsersProofs.** `IInv` adds to the four checked invariants that before the first
  boot nobody exists and nobody is logged in, and that every account has a name
  (`Named`), so that the empty name of nobody is no account's. `AccountsDistinct` needs its second
  half, that uids in the table, deleted ones included, are below `next_uid`. From it
  `AccountsStayDistinct`, `RootStaysAdmin`, `SessionStaysValid`, and `TableIsAccounts`: each
  command is a step of `Accounts` on the map that the table in use spells out.
* **FilesProofs**, FileSystem. `Sound`: types, count, unique names, extents below the watermark, kept
  by every operation whatever the user does, up to a write behind the array; and each operation
  but a careless write keeps extents disjoint, by cases over writing an old and a new file.
  `ArraySuffices` is about that end: while nothing is removed, each entry was made when there
  was at least one entry fewer, so it begins at most `num_files - 1` times `FS_MAX_FILESIZE`
  bytes into the array (`Roomy`), and a write to it ends inside. One removal lowers
  `num_files` and not the watermark, which breaks this, as it does in the code.
  `CarefulFilesAreAStore`: with disjoint extents the bytes that `Shown` reads of another
  file are not those that are written, so every operation is a step of `FileStore`.
* **FilesProofs**, Packages. Uses the same lemmas with `~overgrown` in the place
  of `Careful`. `InstallInv`: each call that an install has still to make is for the
  right name and carries bytes that `Fits` its name (`Plan`); what is no longer waiting
  has been written, or had no room (`Progress`). Cutting an answer anywhere keeps that
  (`KeepsBody`, `ErrorIsSeen`), and `OnlyName` frames each call: the entries and bytes of
  all other names stay. With the plan known, each call is one that a user could have typed
  (`CallIsCommand`), so `PackagesUseFiles`: a behaviour of `pkg` is one of the file system. What
  is proved of the table for any user holds for installs at once (`PackagesKeepTable`). The
  store of independent files is not such a property, because installs are not careful;
  `PackagesUseStore` shows it step by step until `overgrown` is set.
* **PathsProofs.** A path has any length, so facts about it need induction, and the library's
  induction theorems cannot be used here (they take an operator). `NumbersInduction` and
  `PathsInduction` say the same of sets: a set that has 0 and successors has every number, one that
  has the empty path and is closed under `Append` has every path; both follow from
  `WFMin`. With them `Without` is a function of its path (`SomeFills`, `FillsAgree`) and grows with it
  (`WithoutAppend`). `Canonical` paths are normal and separated; squeezing makes a path normal
  (`SqueezedIsNormal`) and changes no component, a canonical path is the root or a name in a
  canonical path (`CanonicalShape`), so that two with the same components are the same text
  (`OneText`). `IInv`: types, every name begins at the root (`NamesFromRoot`: `ls` and `rm` meet names
  from `touch` that are not normal), names differ, directories and the current path
  are canonical. It is needed because `..` is cut out of the current path: only in a canonical
  one is what remains before the last name the parent's text (`ParentOfCanonical`). Names
  differ because `fs_create` looks first; without that `fs_is_directory` could look at another
  entry of the same name. For `ls`, a name shown is the current path with one more name
  (`ShownIsOneMore`), and `SomeLists` follows the loop through the buffer.
* **HeapProofs.** `Inv`: types, no misuse of libc, an entry for every address the program
  holds, and `Exact` until an abort: the unmarked entries are the blocks in use, one each.
  `Exact` speaks of any table and heap, so that the half-way states of `uwu_realloc`,
  between `uwu_track_free` and `uwu_track_alloc`, can be named. `uwu_track_free` marks the
  first entry of an address; that this is the right one follows because a program whose
  first entry is marked is aborted, and an unmarked one is the only one.
* **NetStackProofs.** `Inductive`: types, the cache filled from entry 0 without
  holes and a map (`CacheInv`), the server of every SYN+ACK that waits and of an
  established connection known (`PeersKnown`), the frames lying in the ring one behind the
  other (`Chained`), and a handler that polls staying with the frame it was called for
  (`HandlerStays`). `ServerIsAnswered` follows for segments of any host to any port: the
  answer goes to the sender's next hop, which is known if it is the server's. `NobodyForgotten` is a pigeonhole argument: an entry is reused only
  when all are full, and then all local hosts are in the cache already.
* **HttpClientProofs.** `Inductive`: types and `PortIsOurs`, that a segment on its
  way to the port of the current request carries bytes of that request, give
  `ResponsesNeverMix`. `Opening` describes a connection before its first data: nothing is
  on its way to an unused port, and a SYN is alone. `AcksBounded` compares the
  acknowledgement with what the server sent, on every connection, the FIN's number only once
  the FIN is sent, as long as no other host sent to the port, and gives `AcksStayBehind`. `Stream` is for a server that did not repeat itself: what has been received is
  a beginning of the answer (`Kept`), and the segments still on their way continue it
  without a gap (`Chain`), the last one with the FIN. From it `FinEndsAnswer`, and with
  `ResultInv` on what `http_request` copies to its caller `ReturnsBeginning`.
  The environment assumption `PortIsQuiet` (the server has forgotten a port by the time
  the numbers come round to it, 10001 requests later) is part of `Start`.
* **Liveness.** The prover has no ENABLED, so what weak fairness means is written
  out: an action for which a stated condition stays true is taken again and again (`LoopsEnd` in
  `HttpClientProofs`, `ThreadAndKeysGoOn` in `KeyboardProofs`). `FairLoopsEnd` and `FairGoesOn` prove that the
  fairness of the specification gives this wherever the condition implies ENABLED; that it
  does so in every reachable state was found by TLC with the constants of the runs. From it
  `RequestsReturn` follows along the phases of `http_request`, and `CharsAreReturned` along those of
  `keyboard_getchar`: with `LostWakeupIsMadeUp`, a thread asleep beside a waiting character has a code
  on its way, or a key whose release puts one there, and the interrupt wakes it.

| theorem | says |
|---|---|
| `KeyboardProofs!TypeCorrect`, `TypedOnly`, `Refinement` | positions stay in the ring; only typed characters; the ring is a FIFO |
| `KeyboardProofs!CtrlStaysDown`, `LostWakeupIsMadeUp` | Ctrl is believed down only when it is; a lost wake-up has a release coming |
| `KeyboardProofs!CharsAreReturned`, `HttpClientProofs!RequestsReturn` | waiting characters and requests return, from fairness written out |
| `ConsoleProofs!TypeCorrect`, `CursorStaysAfterLine`, `LineIsEchoed` | cursor on the screen, behind its line; the line shown is the line returned |
| `ConsoleProofs!ConsoleTypeCorrect`, `ConsoleLineIsEchoed`, `ScreenIsProgram` | the same around the programs, whose page or brush is shown |
| `UsersProofs!TypeCorrect`, `AccountsStayDistinct`, `RootStaysAdmin`, `SessionStaysValid`, `TableIsAccounts` | the account invariants; the table refines `Accounts` |
| `FilesProofs!TypeCorrect`, `TableStaysSound`, `ArraySuffices`, `CarefulFilesDisjoint`, `CarefulFilesAreAStore` | the file table invariants; the array is large enough until a removal; under careful use it refines `FileStore` |
| `FilesProofs!InstallsWhatIsServed`, `KeepsWhatItsNameSays`, `OthersStay` | "installed" means as served; no error page is kept; other packages stay |
| `FilesProofs!PackagesUseFiles`, `PackagesKeepTable`, `PackagesUseStore` | `pkg` is a user of the file system; the table stays sound; the files are a store until one has outgrown its place |
| `PathsProofs!PathsInvariance`, `DirectoriesHaveOneText`, `CommandsGoWhereTheyMean`, `ListsShowChildren` | one text per directory; commands go where arguments mean; ls shows the children |
| `HeapProofs!TypeCorrect`, `ReportStaysExact`, `LibcSeesNoDoubleFree` | the leak report and libc |
| `NetStackProofs!TypeCorrect`, `StaysInSync`, `CacheStaysMap`, `ServerIsAnswered`, `NobodyForgotten` | ring and cache |
| `HttpClientProofs!TypeCorrect`, `ResponsesNeverMix`, `AcksStayBehind`, `FinEndsAnswer`, `ReturnsBeginning` | buffer limits; no cross-talk; acknowledgements; a FIN ends the answer; results are beginnings |

## Findings

Two are shown by runs:

* Two files can own the same bytes (`fs_shared`).
* ESC leaves neither the editor nor the paint program, although both tell the user that it
  does: `key_map` has no 27 (kernel.c:216; `console_esc`).

Others were met while modelling; the models have them, and no property claims the
contrary:

* After a file has been removed, writes within every limit the code tests end behind the data
  array: `fs_delete` gives no bytes back and `fs_write` does not look (fs.c:126-135;
  `WriteBehind`, `ArraySuffices`).
* Data is taken from whatever host sends to the client's port (network.c:446-448,
  `PollStranger`). The handler answers that host; when its MAC is not known, the handler polls
  before `rx_buffer_pos` has moved, and that poll meets the same segment, without end
  (network.c:451; `HandlerPolls`).
* A FIN that comes with data is acknowledged as `seq + 1`, below the data just acknowledged
  (network.c:464; `TakeData`).
* `bweak` and `continyue` generate no code (ir.c:371), although docs/syntax.md:110 says that
  `bweak` leaves the loop.
* `&&` and `||` become the bitwise instructions (ir.c:129): `1 && 2` is 0.
* docs/syntax.md:39 writes parameters with the name first and :76 declares a `const`; the parser
  asks for a type first (parser_new.c:775) and refuses both. The run `compiler` has both
  among the sources that must be refused.
* What SPACE draws is blanked by the next key (`PaintKey`), so a drawing is one brush.
* `pkg test` compares the first characters of the answer with "200" (kernel.c:913), the
  server begins with "HTTP/1.0", and the command says "failed" in every case (`PkgTest`).
* A correct program may be stopped with "double free detected": when libc hands out an
  address again, its second free meets the old entry of the first (`Freed`).
* `cd ../x` looks for a directory named `..`; `rm` removes the current directory and
  directories that are not empty; `touch ..` and `touch a/` make files whose names no
  `cat` of a normal path reaches (`construct_path`, `Rm`, `Touch`).
* A variable without a value, several `fow` forms and some operators, see
  `Supported`; on ARM64 calls with several arguments, see `SupportedOnArm`.

## Only model-checked

* That the written-out fairness is the one the runs assume: ENABLED is out of the prover's
  reach. `CharIsReturned` and `RequestReturns` under `FairSpec` itself are TLC's.
* `CtrlCStopsPing` and `ThreadReturns`: they end after a number of
  rounds, or of waiting keys, that grows with the constants, and an induction on that number is over a
  temporal formula, which neither a set nor a lemma's parameter can hold.
* `Finishes`: the same, and its module reaches RECURSIVE operators.
* The compiler (`ParsedAsWritten`, `ComputesMeaning`): stages and interpreter are
  RECURSIVE operators over texts and trees.

## Not modelled

* The transmit side of the cards, and the E1000 driver, which nothing calls.
* JIT: cannot be built. `parser_legacy.c`: not compiled in.
* Types and type annotations of the compiler: nothing reads them.
* Releasing the syntax tree: `ast_node_free` frees types that nodes share; it runs
  after the output has been linked and changes nothing before it.
* Options of the compiler driver, its search for the library and its calls of gcc.
* Wrappers of libc functions without state in the standard library.
* Boot code, descriptor tables, interrupt stubs: run once, keep no state.
* What a write behind the end of the file system's data array overwrites (`spilled`), uid
  wrap-around, the wrap of the client's ports after 10001 requests onto a connection
  the server still has: outside the bounds. So are calls with more than 15 arguments: the
  sixteenth has no place among the 16 operands of an instruction and is dropped (ir.c:26), and
  `gen_args` has none of the writes past `args[16]` that a seventeenth causes (ir.c:174-179).

## Plan

1. Done: keyboard, console and its programs, users, files, paths, packages, network, the
   whole compiler with both back ends, the allocation tracker; proofs about all but the
   compiler.
2. Model next, if at all: the transmit ring of the RTL8139 with a card that sends late.
3. Proved: every safety property of the kernel's runs and of the allocation tracker, the
   refinements `IsQueue`, `IsAccounts` and `IsFileStore`, and two of the liveness properties.
   Next: the lexer as a recursive function over positions, the first stage of the compiler
   about which something could be proved.
4. Runs stay few: one per question. A new component replaces or extends a run
   rather than adding a variant of one.
