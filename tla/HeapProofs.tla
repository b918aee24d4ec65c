----------------------------- MODULE HeapProofs -----------------------------
(***************************************************************************)
(* Proofs about Heap, for every table size and every set of addresses: the *)
(* leak report is exact, and libc's free is only called on blocks.         *)
(***************************************************************************)
EXTENDS Heap, WellFoundedInduction, TLAPS

-----------------------------------------------------------------------------
(* The first match of uwu_track_free's loop. *)

Less == {ss \in Nat \X Nat : ss[1] < ss[2]}

LEMMA FirstIn ==
  ASSUME NEW S \in SUBSET Nat, S # {}
  PROVE  First(S) \in S
<1>1. OpToRel(<, Nat) = Less
  BY Zenon DEF OpToRel, Less
<1>2. IsWellFoundedOn(Less, Nat)
  BY <1>1, NatLessThanWellFounded, Zenon
<1>3. PICK x \in S : \A y \in S : ~(<<y, x>> \in Less)
  BY <1>2, WFMin
<1>4. ASSUME NEW y \in S PROVE x <= y
  <2>1. x \in Nat /\ y \in Nat /\ <<y, x>> \notin Less
    BY <1>3
  <2>2. y < x => <<y, x>> \in Less
    BY <2>1, Zenon DEF Less
  <2> QED BY <2>1, <2>2
<1> QED BY <1>4 DEF First

LEMMA FirstEntry ==
  ASSUME TypeOK, NEW p, EntriesOf(p) # {}
  PROVE  FirstOf(p) \in Entries /\ uwu_allocs[FirstOf(p)].ptr = p
<1>1. \A i \in 1..uwu_alloc_count : i \in Nat
  <2>1. uwu_alloc_count \in 0..UWU_MAX_ALLOCS
    BY DEF TypeOK
  <2> QED BY <2>1, HeapAssumption
<1>2. EntriesOf(p) \in SUBSET Nat
  BY <1>1 DEF EntriesOf, Entries
<1> QED BY <1>2, FirstIn DEF FirstOf, EntriesOf

-----------------------------------------------------------------------------
(* ReportIsExact for any table and heap, so that the half-way states of      *)
(* uwu_realloc can be spoken about.                                          *)

Exact(n, table, heap) ==
  /\ \A i \in 1..n : ~table[i].freed =>
       table[i].ptr \in DOMAIN heap /\ table[i].size = heap[table[i].ptr]
  /\ \A p \in DOMAIN heap : \E i \in 1..n : ~table[i].freed /\ table[i].ptr = p
  /\ \A i, j \in 1..n :
       (~table[i].freed /\ ~table[j].freed /\ table[i].ptr = table[j].ptr) => i = j

(* The inductive invariant: what the program holds has an entry, so that a   *)
(* second free finds one, and it is freed.                                   *)
Inv ==
  /\ TypeOK /\ ~misused
  /\ state \in {"running", "ended"} => Exact(uwu_alloc_count, uwu_allocs, blocks)
  /\ state = "running" => \A p \in held : EntriesOf(p) # {}

LEMMA ExactReport == Inv => ReportIsExact
<1> SUFFICES ASSUME Inv, state \in {"running", "ended"}
             PROVE  /\ {uwu_allocs[i].ptr : i \in Reported} = Live
                    /\ \A i \in Reported : uwu_allocs[i].size = blocks[uwu_allocs[i].ptr]
                    /\ \A i, j \in Reported : uwu_allocs[i].ptr = uwu_allocs[j].ptr => i = j
  BY DEF ReportIsExact
<1>1. Exact(uwu_alloc_count, uwu_allocs, blocks)
  BY DEF Inv
<1> QED BY <1>1 DEF Exact, Reported, Entries, Live

LEMMA HeapTypes ==
  ASSUME TypeOK
  PROVE  /\ uwu_alloc_count \in Nat
         /\ uwu_allocs \in [1..uwu_alloc_count -> [ptr : Addresses, size : Sizes, freed : BOOLEAN]]
         /\ Live \in SUBSET Addresses /\ blocks \in [Live -> Sizes]
<1>1. uwu_alloc_count \in Nat
  <2>1. uwu_alloc_count \in 0..UWU_MAX_ALLOCS
    BY DEF TypeOK
  <2> QED BY <2>1, HeapAssumption
<1>2. PICK S \in SUBSET Addresses : blocks \in [S -> Sizes]
  BY DEF TypeOK, Heaps
<1>3. Live = S
  BY <1>2 DEF Live
<1>4. uwu_allocs \in [1..uwu_alloc_count -> [ptr : Addresses, size : Sizes, freed : BOOLEAN]]
  BY DEF TypeOK, Table
<1> QED BY <1>1, <1>2, <1>3, <1>4

LEMMA WithoutHeap ==
  ASSUME TypeOK, NEW p
  PROVE  Without(p) \in Heaps /\ DOMAIN Without(p) = Live \ {p}
<1>1. Live \in SUBSET Addresses /\ blocks \in [Live -> Sizes]
  BY HeapTypes
<1>2. Without(p) \in [Live \ {p} -> Sizes]
  BY <1>1 DEF Without
<1>3. Live \ {p} \in SUBSET Addresses
  BY <1>1
<1> QED BY <1>2, <1>3 DEF Heaps

LEMMA WithHeap ==
  ASSUME NEW heap \in Heaps, NEW p \in Addresses, NEW size \in Sizes
  PROVE  With(heap, p, size) \in Heaps /\ DOMAIN With(heap, p, size) = DOMAIN heap \cup {p}
<1>1. PICK S \in SUBSET Addresses : heap \in [S -> Sizes]
  BY DEF Heaps
<1>2. With(heap, p, size) \in [S \cup {p} -> Sizes]
  BY <1>1 DEF With
<1> QED BY <1>1, <1>2 DEF Heaps

(* uwu_track_free removes the one line of the block from the report. *)
LEMMA MarkedTable ==
  ASSUME TypeOK, NEW p
  PROVE  Marked(p) \in Table(uwu_alloc_count)
<1>1. CASE EntriesOf(p) = {}
  BY <1>1 DEF Marked, TypeOK
<1>2. CASE EntriesOf(p) # {}
  <2>1. Marked(p) = [uwu_allocs EXCEPT ![FirstOf(p)].freed = TRUE]
    BY <1>2 DEF Marked
  <2>2. FirstOf(p) \in 1..uwu_alloc_count
    BY <1>2, FirstEntry DEF Entries
  <2>3. uwu_allocs \in [1..uwu_alloc_count ->
                          [ptr : Addresses, size : Sizes, freed : BOOLEAN]]
    BY HeapTypes
  <2> QED BY <2>1, <2>2, <2>3 DEF Table
<1> QED BY <1>1, <1>2

LEMMA MarkedExact ==
  ASSUME TypeOK, Exact(uwu_alloc_count, uwu_allocs, blocks), NEW p \in Live, ~Freed(p)
  PROVE  Exact(uwu_alloc_count, Marked(p), Without(p))
<1> DEFINE f == FirstOf(p)
<1>0. /\ uwu_allocs \in [1..uwu_alloc_count -> [ptr : Addresses, size : Sizes, freed : BOOLEAN]]
      /\ Entries = 1..uwu_alloc_count /\ Live = DOMAIN blocks
  BY HeapTypes DEF Entries, Live
<1>1. EntriesOf(p) # {}
  BY <1>0 DEF Exact, EntriesOf
<1>2. f \in Entries /\ uwu_allocs[f].ptr = p /\ ~uwu_allocs[f].freed
  BY <1>1, FirstEntry DEF Freed
<1>3. ASSUME NEW i \in Entries
      PROVE  /\ Marked(p)[i].ptr = uwu_allocs[i].ptr /\ Marked(p)[i].size = uwu_allocs[i].size
             /\ ~Marked(p)[i].freed <=> (~uwu_allocs[i].freed /\ i # f)
  BY <1>0, <1>1, <1>2 DEF Marked
<1>4. DOMAIN Without(p) = Live \ {p} /\ \A a \in Live \ {p} : Without(p)[a] = blocks[a]
  BY DEF Without
<1>5. ASSUME NEW i \in Entries, ~Marked(p)[i].freed
      PROVE  /\ Marked(p)[i].ptr \in Live \ {p}
             /\ Marked(p)[i].size = Without(p)[Marked(p)[i].ptr]
  <2>1. ~uwu_allocs[i].freed /\ i # f
    BY <1>3, <1>5
  <2>2. uwu_allocs[i].ptr # p
    BY <2>1, <1>0, <1>2 DEF Exact
  <2>3. uwu_allocs[i].ptr \in Live /\ uwu_allocs[i].size = blocks[uwu_allocs[i].ptr]
    BY <2>1, <1>0 DEF Exact
  <2> QED BY <2>2, <2>3, <1>3, <1>4
<1>6. ASSUME NEW a \in Live \ {p}
      PROVE  \E i \in Entries : ~Marked(p)[i].freed /\ Marked(p)[i].ptr = a
  <2>1. PICK i \in Entries : ~uwu_allocs[i].freed /\ uwu_allocs[i].ptr = a
    BY <1>0 DEF Exact
  <2>2. i # f
    BY <2>1, <1>2
  <2> QED BY <2>1, <2>2, <1>3
<1>7. ASSUME NEW i \in Entries, NEW j \in Entries, ~Marked(p)[i].freed, ~Marked(p)[j].freed,
             Marked(p)[i].ptr = Marked(p)[j].ptr
      PROVE  i = j
  <2>1. ~uwu_allocs[i].freed /\ ~uwu_allocs[j].freed /\ uwu_allocs[i].ptr = uwu_allocs[j].ptr
    BY <1>3, <1>7
  <2> QED BY <2>1, <1>0 DEF Exact
<1> QED BY <1>0, <1>4, <1>5, <1>6, <1>7 DEF Exact

(* uwu_track_alloc adds the one line of a new block. *)
Longer(n, table, p, size) ==
  [i \in 1..(n + 1) |->
     IF i \in 1..n THEN table[i] ELSE [ptr |-> p, size |-> size, freed |-> FALSE]]

LEMMA LongerExact ==
  ASSUME NEW n \in Nat, NEW table \in Table(n), NEW heap, Exact(n, table, heap),
         NEW p \in Addresses, p \notin DOMAIN heap, NEW size \in Sizes
  PROVE  Exact(n + 1, Longer(n, table, p, size), With(heap, p, size))
<1> DEFINE T == Longer(n, table, p, size)
           W == With(heap, p, size)
<1>1. \A i \in 1..n : i \in 1..(n + 1) /\ T[i] = table[i]
  BY DEF Longer
<1>2. n + 1 \in 1..(n + 1) /\ n + 1 \notin 1..n
  OBVIOUS
<1>3. T[n + 1] = [ptr |-> p, size |-> size, freed |-> FALSE]
  BY <1>2 DEF Longer
<1>4. \A i \in 1..(n + 1) : i \in 1..n \/ i = n + 1
  OBVIOUS
<1>5. /\ DOMAIN W = DOMAIN heap \cup {p} /\ W[p] = size
      /\ \A a \in DOMAIN heap : W[a] = heap[a]
  BY DEF With
<1> HIDE DEF T, W
<1>6. ASSUME NEW i \in 1..(n + 1), ~T[i].freed
      PROVE  T[i].ptr \in DOMAIN W /\ T[i].size = W[T[i].ptr]
  <2>1. CASE i = n + 1
    BY <2>1, <1>3, <1>5
  <2>2. CASE i \in 1..n
    <3>1. T[i] = table[i]
      BY <2>2, <1>1
    <3>2. table[i].ptr \in DOMAIN heap /\ table[i].size = heap[table[i].ptr]
      BY <2>2, <3>1, <1>6 DEF Exact
    <3> QED BY <3>1, <3>2, <1>5
  <2> QED BY <2>1, <2>2, <1>4
<1>7. ASSUME NEW a \in DOMAIN W
      PROVE  \E i \in 1..(n + 1) : ~T[i].freed /\ T[i].ptr = a
  <2>1. CASE a = p
    <3>1. ~T[n + 1].freed /\ T[n + 1].ptr = a
      BY <2>1, <1>3
    <3> QED BY <3>1, <1>2
  <2>2. CASE a \in DOMAIN heap
    <3>1. PICK i \in 1..n : ~table[i].freed /\ table[i].ptr = a
      BY <2>2 DEF Exact
    <3>2. ~T[i].freed /\ T[i].ptr = a /\ i \in 1..(n + 1)
      BY <3>1, <1>1
    <3> QED BY <3>2
  <2> QED BY <2>1, <2>2, <1>5
<1>8. ASSUME NEW i \in 1..(n + 1), NEW j \in 1..(n + 1),
             ~T[i].freed, ~T[j].freed, T[i].ptr = T[j].ptr
      PROVE  i = j
  <2>1. \A k \in 1..n : ~T[k].freed => T[k].ptr # p
    BY <1>1 DEF Exact
  <2>2. CASE i \in 1..n /\ j \in 1..n
    BY <2>2, <1>1, <1>8 DEF Exact
  <2>3. CASE i = n + 1 /\ j \in 1..n
    BY <2>1, <2>3, <1>3, <1>8
  <2>4. CASE j = n + 1 /\ i \in 1..n
    BY <2>1, <2>4, <1>3, <1>8
  <2> QED BY <2>2, <2>3, <2>4, <1>4
<1>9. Exact(n + 1, T, W)
  BY <1>6, <1>7, <1>8 DEF Exact
<1> QED BY <1>9 DEF T, W

LEMMA LongerTable ==
  ASSUME NEW n \in Nat, NEW table \in Table(n), NEW p \in Addresses, NEW size \in Sizes
  PROVE  Longer(n, table, p, size) \in Table(n + 1)
BY DEF Longer, Table

-----------------------------------------------------------------------------
(* One lemma per operation. *)

LEMMA TrackAllocStep ==
  ASSUME TypeOK, state = "running", NEW table \in Table(uwu_alloc_count),
         NEW heap \in Heaps, Exact(uwu_alloc_count, table, heap),
         NEW p \in Addresses, p \notin DOMAIN heap, NEW size \in Sizes,
         \A i \in Entries : table[i].ptr = uwu_allocs[i].ptr,
         \A a \in held : EntriesOf(a) # {},
         TrackAlloc(table, p, size), blocks' = With(heap, p, size), held' = held \cup {p},
         ~misused, UNCHANGED misused
  PROVE  Inv'
<1>1. blocks' \in Heaps /\ held' \subseteq Addresses /\ misused' \in BOOLEAN
  BY WithHeap DEF TypeOK
<1>2. uwu_alloc_count \in Nat /\ UWU_MAX_ALLOCS \in Nat /\ uwu_alloc_count \in 0..UWU_MAX_ALLOCS
  BY HeapAssumption DEF TypeOK
<1>3. CASE uwu_alloc_count >= UWU_MAX_ALLOCS
  <2>1. /\ state' = "allocation tracker overflow"
        /\ uwu_allocs' = table /\ uwu_alloc_count' = uwu_alloc_count
    BY <1>3 DEF TrackAlloc
  <2> QED BY <1>1, <1>2, <2>1 DEF Inv, TypeOK
<1>4. CASE ~(uwu_alloc_count >= UWU_MAX_ALLOCS)
  <2>1. /\ uwu_alloc_count' = uwu_alloc_count + 1 /\ state' = state
        /\ uwu_allocs' = Longer(uwu_alloc_count, table, p, size)
    BY <1>4 DEF TrackAlloc, Longer, Entries
  <2>2. uwu_alloc_count' \in 0..UWU_MAX_ALLOCS
    BY <1>2, <1>4, <2>1
  <2>3. uwu_allocs' \in Table(uwu_alloc_count')
    BY <1>2, <2>1, LongerTable
  <2>4. Exact(uwu_alloc_count', uwu_allocs', blocks')
    BY <1>2, <2>1, LongerExact
  <2>5. ASSUME NEW a \in held' PROVE EntriesOf(a)' # {}
    <3>1. /\ \A i \in Entries : i \in Entries' /\ uwu_allocs'[i].ptr = uwu_allocs[i].ptr
          /\ uwu_alloc_count + 1 \in Entries' /\ uwu_allocs'[uwu_alloc_count + 1].ptr = p
      BY <1>2, <2>1 DEF Longer, Entries
    <3>2. CASE a = p
      BY <3>1, <3>2 DEF EntriesOf
    <3>3. CASE a \in held
      <4>1. PICK i \in Entries : uwu_allocs[i].ptr = a
        BY <3>3 DEF EntriesOf
      <4> QED BY <4>1, <3>1 DEF EntriesOf
    <3> QED BY <3>2, <3>3
  <2> QED BY <1>1, <2>1, <2>2, <2>3, <2>4, <2>5 DEF Inv, TypeOK
<1> QED BY <1>3, <1>4

LEMMA MallocStep ==
  ASSUME Inv, NEW size \in Sizes, uwu_malloc(size)
  PROVE  Inv'
<1>1. PICK p \in Addresses \ Live :
        /\ blocks' = With(blocks, p, size) /\ held' = held \cup {p}
        /\ TrackAlloc(uwu_allocs, p, size)
  BY DEF uwu_malloc
<1>2. /\ TypeOK /\ state = "running" /\ uwu_allocs \in Table(uwu_alloc_count) /\ blocks \in Heaps
      /\ Exact(uwu_alloc_count, uwu_allocs, blocks) /\ p \notin DOMAIN blocks
      /\ \A a \in held : EntriesOf(a) # {}
      /\ ~misused /\ misused' = misused
  BY <1>1 DEF Inv, TypeOK, uwu_malloc, Live
<1> QED BY <1>1, <1>2, TrackAllocStep

(* The abort leaves a state of which only types are claimed. *)
LEMMA AbortStep ==
  ASSUME Inv, Abort, blocks' \in Heaps, held' \subseteq Addresses, UNCHANGED misused
  PROVE  Inv'
BY DEF Inv, Abort, TypeOK

LEMMA MarkedPtr ==
  ASSUME TypeOK, NEW p, NEW i \in Entries
  PROVE  Marked(p)[i].ptr = uwu_allocs[i].ptr
<1>1. CASE EntriesOf(p) = {}
  BY <1>1 DEF Marked
<1>2. CASE EntriesOf(p) # {}
  BY <1>2, FirstEntry, HeapTypes DEF Marked, Entries
<1> QED BY <1>1, <1>2

LEMMA ReallocStep ==
  ASSUME Inv, NEW p \in Addresses, NEW size \in Sizes, uwu_realloc(p, size)
  PROVE  Inv'
<1>1. /\ TypeOK /\ state = "running" /\ p \in Live
      /\ Exact(uwu_alloc_count, uwu_allocs, blocks)
      /\ \A a \in held : EntriesOf(a) # {}
      /\ ~misused /\ misused' = misused
  BY DEF Inv, uwu_realloc
<1>2. PICK q \in (Addresses \ Live) \cup {p} :
        /\ blocks' = With(Without(p), q, size) /\ held' = held \cup {q}
        /\ IF Freed(p) THEN Abort ELSE TrackAlloc(Marked(p), q, size)
  BY DEF uwu_realloc
<1>3. Without(p) \in Heaps /\ q \in Addresses /\ q \notin DOMAIN Without(p)
  BY <1>1, WithoutHeap
<1>4. CASE Freed(p)
  <2>1. blocks' \in Heaps /\ held' \subseteq Addresses
    BY <1>1, <1>2, <1>3, WithHeap DEF TypeOK
  <2> QED BY <1>1, <1>2, <1>4, <2>1, AbortStep
<1>5. CASE ~Freed(p)
  <2>1. Exact(uwu_alloc_count, Marked(p), Without(p))
    BY <1>1, <1>5, MarkedExact
  <2>2. Marked(p) \in Table(uwu_alloc_count)
    BY <1>1, MarkedTable
  <2>3. \A i \in Entries : Marked(p)[i].ptr = uwu_allocs[i].ptr
    BY <1>1, MarkedPtr
  <2>4. TrackAlloc(Marked(p), q, size)
    BY <1>2, <1>5
  <2> QED BY <1>1, <1>2, <1>3, <2>1, <2>2, <2>3, <2>4, TrackAllocStep
<1> QED BY <1>4, <1>5

LEMMA Realloc0Step ==
  ASSUME Inv, NEW p \in Addresses, uwu_realloc_0(p)
  PROVE  Inv'
<1>1. /\ TypeOK /\ state = "running" /\ p \in Live
      /\ Exact(uwu_alloc_count, uwu_allocs, blocks)
      /\ \A a \in held : EntriesOf(a) # {}
      /\ ~misused /\ misused' = misused /\ blocks' = Without(p) /\ held' = held
  BY DEF Inv, uwu_realloc_0
<1>2. blocks' \in Heaps /\ held' \subseteq Addresses
  BY <1>1, WithoutHeap DEF TypeOK
<1>3. CASE Freed(p)
  BY <1>1, <1>2, <1>3, AbortStep DEF uwu_realloc_0
<1>4. CASE ~Freed(p)
  <2>1. uwu_allocs' = Marked(p) /\ uwu_alloc_count' = uwu_alloc_count /\ state' = state
    BY <1>4 DEF uwu_realloc_0
  <2>2. Exact(uwu_alloc_count, uwu_allocs, blocks)'
    BY <1>1, <1>4, <2>1, MarkedExact
  <2>3. TypeOK'
    BY <1>1, <1>2, <2>1, MarkedTable DEF TypeOK
  <2>4. \A a \in held' : EntriesOf(a)' # {}
    BY <1>1, <2>1, MarkedPtr DEF EntriesOf, Entries
  <2> QED BY <1>1, <2>2, <2>3, <2>4 DEF Inv
<1> QED BY <1>3, <1>4

(* An address of no block has only freed entries: the second free aborts. *)
LEMMA FreeStep ==
  ASSUME Inv, NEW p \in Addresses, uwu_free(p)
  PROVE  Inv'
<1>1. /\ TypeOK /\ state = "running" /\ p \in held
      /\ Exact(uwu_alloc_count, uwu_allocs, blocks)
      /\ \A a \in held : EntriesOf(a) # {}
      /\ ~misused /\ held' = held
  BY DEF Inv, uwu_free
<1>2. CASE Freed(p)
  <2>1. Abort /\ blocks' = blocks /\ misused' = misused
    BY <1>2 DEF uwu_free
  <2> QED BY <1>1, <2>1, AbortStep DEF TypeOK
<1>3. CASE ~Freed(p)
  <2>1. /\ uwu_allocs' = Marked(p) /\ uwu_alloc_count' = uwu_alloc_count /\ state' = state
        /\ blocks' = Without(p) /\ misused' = (misused \/ p \notin Live)
    BY <1>3 DEF uwu_free
  <2>2. p \in Live
    <3>1. FirstOf(p) \in Entries /\ uwu_allocs[FirstOf(p)].ptr = p
      BY <1>1, FirstEntry
    <3>2. ~uwu_allocs[FirstOf(p)].freed
      BY <1>1, <1>3 DEF Freed
    <3> QED BY <1>1, <3>1, <3>2 DEF Exact, Entries, Live
  <2>3. Exact(uwu_alloc_count, uwu_allocs, blocks)'
    BY <1>1, <1>3, <2>1, <2>2, MarkedExact
  <2>4. misused' = FALSE
    BY <1>1, <2>1, <2>2
  <2>5. TypeOK'
    BY <1>1, <2>1, <2>4, MarkedTable, WithoutHeap DEF TypeOK
  <2>6. \A a \in held' : EntriesOf(a)' # {}
    BY <1>1, <2>1, MarkedPtr DEF EntriesOf, Entries
  <2> QED BY <2>3, <2>4, <2>5, <2>6 DEF Inv
<1> QED BY <1>2, <1>3

LEMMA Initially == Init => Inv
<1> SUFFICES ASSUME Init PROVE Inv
  OBVIOUS
<1>1. blocks \in Heaps /\ DOMAIN blocks = {}
  BY DEF Init, Heaps
<1>2. Exact(uwu_alloc_count, uwu_allocs, blocks)
  BY <1>1 DEF Init, Exact
<1>3. uwu_alloc_count = 0 /\ uwu_alloc_count \in 0..UWU_MAX_ALLOCS
  BY HeapAssumption DEF Init
<1>4. uwu_allocs \in Table(uwu_alloc_count) /\ held \subseteq Addresses
  BY <1>3 DEF Init
<1>5. TypeOK
  BY <1>1, <1>3, <1>4 DEF Init, TypeOK
<1> QED BY <1>2, <1>5 DEF Init, Inv

LEMMA Stays == Inv /\ [Next]_vars => Inv'
<1> SUFFICES ASSUME Inv, [Next]_vars PROVE Inv'
  OBVIOUS
<1>1. ASSUME NEW size \in Sizes, uwu_malloc(size) PROVE Inv'
  BY <1>1, MallocStep
<1>2. ASSUME NEW p \in Addresses, NEW size \in Sizes, uwu_realloc(p, size) PROVE Inv'
  BY <1>2, ReallocStep
<1>3. ASSUME NEW p \in Addresses, uwu_realloc_0(p) PROVE Inv'
  BY <1>3, Realloc0Step
<1>4. ASSUME NEW p \in Addresses, uwu_free(p) PROVE Inv'
  BY <1>4, FreeStep
<1>5. CASE uwu_exit
  BY <1>5 DEF uwu_exit, Inv, TypeOK
<1>6. CASE UNCHANGED vars
  BY <1>6 DEF vars, Inv, TypeOK, EntriesOf, Entries
<1> QED BY <1>1, <1>2, <1>3, <1>4, <1>5, <1>6 DEF Next

LEMMA Always == Spec => []Inv
<1>1. Init => Inv
  BY Initially
<1>2. Inv /\ [Next]_vars => Inv'
  BY Stays
<1> QED BY <1>1, <1>2, PTL DEF Spec

(* The table stays within UWU_MAX_ALLOCS and describes blocks (uwu_allocs,   *)
(* uwu_alloc_count).                                                         *)
THEOREM TypeCorrect == Spec => []TypeOK
<1>1. Inv => TypeOK
  BY DEF Inv
<1> QED BY <1>1, Always, PTL

(* uwu_report_leaks prints exactly the blocks in use.                        *)
THEOREM ReportStaysExact == Spec => []ReportIsExact
BY Always, ExactReport, PTL

(* uwu_free calls libc's free on blocks in use only, whatever the program    *)
(* frees twice.                                                              *)
THEOREM LibcSeesNoDoubleFree == Spec => []DoubleFreeNeverReachesLibc
<1>1. Inv => DoubleFreeNeverReachesLibc
  BY DEF Inv, DoubleFreeNeverReachesLibc
<1> QED BY <1>1, Always, PTL
=============================================================================
