-------------------------------- MODULE Heap --------------------------------
(***************************************************************************)
(* The allocation tracker of the UwU standard library                      *)
(* (stdlib/uwu_stdlib.c): a table with one entry per allocation, never     *)
(* reused, searched from the front, under uwu_malloc, uwu_calloc,          *)
(* uwu_realloc, uwu_free and uwu_exit.  libc hands out an address again    *)
(* once it is free.  A definition whose name extends the next one's is a   *)
(* mutation of it that a run must refute.                                  *)
(***************************************************************************)
EXTENDS Integers, FiniteSets

CONSTANTS Addresses, Sizes,     \* what libc hands out, and what programs ask for
          UWU_MAX_ALLOCS

ASSUME HeapAssumption == UWU_MAX_ALLOCS \in Nat /\ Sizes \subseteq Nat /\ 0 \notin Sizes

VARIABLES uwu_alloc_count, uwu_allocs,  \* the table; entries 1..uwu_alloc_count
          blocks,       \* libc: the blocks in use, address -> size
          held,         \* addresses the program got, also the stale ones
          state,        \* "running", or how the program ended
          misused       \* libc's free was called on no block

vars == << uwu_alloc_count, uwu_allocs, blocks, held, state, misused >>

Table(n) == [1..n -> [ptr : Addresses, size : Sizes, freed : BOOLEAN]]
Heaps == UNION {[S -> Sizes] : S \in SUBSET Addresses}

Init ==
  /\ uwu_alloc_count = 0 /\ uwu_allocs \in Table(0)
  /\ blocks \in [{} -> Sizes] /\ held = {}
  /\ state = "running" /\ misused = FALSE

Live == DOMAIN blocks
Entries == 1..uwu_alloc_count
Without(p) == [a \in Live \ {p} |-> blocks[a]]
With(heap, p, size) == [a \in DOMAIN heap \cup {p} |-> IF a = p THEN size ELSE heap[a]]

(* The first entry of the address. *)
EntriesOf(p) == {i \in Entries : uwu_allocs[i].ptr = p}
First(S) == CHOOSE i \in S : \A j \in S : i <= j
FirstOf(p) == First(EntriesOf(p))

(* uwu_track_free aborts *)
FreedNever(p) == FALSE
Freed(p) == EntriesOf(p) # {} /\ uwu_allocs[FirstOf(p)].freed

(* the table after uwu_track_free has not aborted *)
MarkedNot(p) == uwu_allocs
Marked(p) ==
  IF EntriesOf(p) = {} THEN uwu_allocs ELSE [uwu_allocs EXCEPT ![FirstOf(p)].freed = TRUE]
(* uwu_track_alloc, on the table that uwu_track_free left; it aborts when    *)
(* the table is full.                                                        *)
TrackAlloc(table, p, size) ==
  IF uwu_alloc_count >= UWU_MAX_ALLOCS
  THEN /\ state' = "allocation tracker overflow"
       /\ uwu_allocs' = table /\ UNCHANGED uwu_alloc_count
  ELSE /\ uwu_alloc_count' = uwu_alloc_count + 1
       /\ uwu_allocs' = [i \in 1..(uwu_alloc_count + 1) |->
                           IF i \in Entries THEN table[i]
                           ELSE [ptr |-> p, size |-> size, freed |-> FALSE]]
       /\ UNCHANGED state

Abort ==
  /\ state' = "double free detected"
  /\ UNCHANGED << uwu_alloc_count, uwu_allocs >>

(* uwu_malloc, uwu_calloc, uwu_strdup, and uwu_realloc of NULL; when libc    *)
(* has no memory nothing changes.                                            *)
uwu_malloc(size) ==
  /\ state = "running"
  /\ \E p \in Addresses \ Live :
       /\ blocks' = With(blocks, p, size) /\ held' = held \cup {p}
       /\ TrackAlloc(uwu_allocs, p, size)
  /\ UNCHANGED misused

(* libc's realloc comes first: in place, moved, or (size 0) a free.  The     *)
(* program owns the block: what realloc does to a stale one is undefined     *)
(* before the tracker sees it.                                               *)
uwu_realloc(p, size) ==
  /\ state = "running" /\ p \in Live
  /\ \E q \in (Addresses \ Live) \cup {p} :
       /\ blocks' = With(Without(p), q, size) /\ held' = held \cup {q}
       /\ IF Freed(p) THEN Abort ELSE TrackAlloc(Marked(p), q, size)
  /\ UNCHANGED misused

uwu_realloc_0(p) ==
  /\ state = "running" /\ p \in Live
  /\ blocks' = Without(p)
  /\ IF Freed(p) THEN Abort
     ELSE uwu_allocs' = Marked(p) /\ UNCHANGED << uwu_alloc_count, state >>
  /\ UNCHANGED << held, misused >>

(* Also of an address that the program has freed before. *)
uwu_free(p) ==
  /\ state = "running" /\ p \in held
  /\ IF Freed(p)
     THEN Abort /\ UNCHANGED << blocks, misused >>
     ELSE /\ uwu_allocs' = Marked(p) /\ UNCHANGED << uwu_alloc_count, state >>
          /\ blocks' = Without(p)
          /\ misused' = (misused \/ p \notin Live)
  /\ UNCHANGED held

(* uwu_exit, uwu_abort and uwu_cleanup: uwu_report_leaks, then the end. *)
uwu_exit ==
  /\ state = "running" /\ state' = "ended"
  /\ UNCHANGED << uwu_alloc_count, uwu_allocs, blocks, held, misused >>

Next ==
  \/ \E size \in Sizes : uwu_malloc(size)
  \/ \E p \in Addresses :
       \/ \E size \in Sizes : uwu_realloc(p, size)
       \/ uwu_realloc_0(p) \/ uwu_free(p)
  \/ uwu_exit

Spec == Init /\ [][Next]_vars

-----------------------------------------------------------------------------
(* Properties *)

(* Table, heap and program stay within what they are made of.                *)
TypeOK ==
  /\ uwu_alloc_count \in 0..UWU_MAX_ALLOCS
  /\ uwu_allocs \in Table(uwu_alloc_count)
  /\ blocks \in Heaps /\ held \subseteq Addresses
  /\ state \in {"running", "ended", "double free detected", "allocation tracker overflow"}
  /\ misused \in BOOLEAN

(* What uwu_report_leaks prints: the entries that are not freed.             *)
Reported == {i \in Entries : ~uwu_allocs[i].freed}

(* The report is exact: it has one line for each block in use, of its size,  *)
(* and none for another, however often libc hands out the same address and   *)
(* wherever a realloc moves a block.                                         *)
ReportIsExact ==
  state \in {"running", "ended"} =>
    /\ {uwu_allocs[i].ptr : i \in Reported} = Live
    /\ \A i \in Reported : uwu_allocs[i].size = blocks[uwu_allocs[i].ptr]
    /\ \A i, j \in Reported : uwu_allocs[i].ptr = uwu_allocs[j].ptr => i = j

(* The program may free an address twice; libc never sees the second free.   *)
DoubleFreeNeverReachesLibc == ~misused
=============================================================================
