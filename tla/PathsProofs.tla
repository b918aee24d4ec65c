---------------------------- MODULE PathsProofs ----------------------------
(***************************************************************************)
(* Proofs about Paths, for every set of arguments and every table and      *)
(* buffer size: a directory has one text, commands go where their          *)
(* arguments mean, ls shows the children.  Paths have any length, so the   *)
(* lemmas about them are inductions; each is over a set of numbers or of   *)
(* paths that is shown to hold all of them.                                *)
(***************************************************************************)
EXTENDS Paths, FiniteSetTheorems, SequenceTheorems, WellFoundedInduction, TLAPS

-----------------------------------------------------------------------------
(* Induction. *)

LEMMA NumbersInduction ==
  ASSUME NEW S, 0 \in S, \A n \in Nat : n \in S => n + 1 \in S
  PROVE  Nat \subseteq S
<1> DEFINE T == Nat \ S
           R == OpToRel(<, Nat)
<1>1. SUFFICES ASSUME T # {} PROVE FALSE
  OBVIOUS
<1>2. IsWellFoundedOn(R, Nat)
  BY NatLessThanWellFounded
<1>3. PICK x \in T : \A y \in T : ~(<< y, x >> \in R)
  <2>1. T \subseteq Nat
    OBVIOUS
  <2> HIDE DEF T, R
  <2> QED BY <1>1, <1>2, <2>1, WFMin
<1>4. x # 0 /\ x - 1 \in Nat /\ x - 1 \in T
  OBVIOUS
<1>5. << x - 1, x >> \in R
  BY <1>4 DEF OpToRel
<1> QED BY <1>3, <1>4, <1>5

LEMMA PathsInduction ==
  ASSUME NEW V, NEW T, << >> \in T,
         \A s \in Seq(V), e \in V : s \in T => Append(s, e) \in T
  PROVE  Seq(V) \subseteq T
<1> DEFINE S == {n \in Nat : \A s \in Seq(V) : Len(s) = n => s \in T}
<1>1. 0 \in S
  OBVIOUS
<1>2. ASSUME NEW n \in Nat, n \in S PROVE n + 1 \in S
  <2>1. ASSUME NEW s \in Seq(V), Len(s) = n + 1 PROVE s \in T
    <3>1. s # << >>
      BY <2>1
    <3>2. PICK t \in Seq(V), e \in V : s = Append(t, e)
      BY <3>1, SequenceEmptyOrAppend
    <3>3. Len(t) = n
      BY <2>1, <3>2
    <3> QED BY <1>2, <3>2, <3>3
  <2> QED BY <2>1
<1>3. Nat \subseteq S
  <2> HIDE DEF S
  <2> QED BY <1>1, <1>2, NumbersInduction
<1>4. \A s \in Seq(V) : Len(s) \in S
  BY <1>3
<1> QED BY <1>4

-----------------------------------------------------------------------------
(* Leaving positions of a path out. *)

Step(g, path, dropped, n) ==
  IF n = 0 THEN << >>
  ELSE IF n \in dropped THEN g[n - 1] ELSE Append(g[n - 1], path[n])

Fills(g, path, dropped, k) == g = [n \in 0..k |-> Step(g, path, dropped, n)]

LEMMA SomeFills ==
  ASSUME NEW path, NEW dropped
  PROVE  \A k \in Nat : \E g : Fills(g, path, dropped, k)
<1> DEFINE S == {k \in Nat : \E g : Fills(g, path, dropped, k)}
<1>1. 0 \in S
  <2>1. Fills([n \in 0..0 |-> << >>], path, dropped, 0)
    BY DEF Fills, Step
  <2> QED BY <2>1
<1>2. ASSUME NEW k \in Nat, k \in S PROVE k + 1 \in S
  <2>1. PICK g : Fills(g, path, dropped, k)
    BY <1>2
  <2> DEFINE h == [n \in 0..(k + 1) |-> IF n <= k THEN g[n] ELSE Step(g, path, dropped, n)]
  <2>2. ASSUME NEW n \in 0..(k + 1) PROVE h[n] = Step(h, path, dropped, n)
    <3>1. n # 0 => h[n - 1] = g[n - 1]
      OBVIOUS
    <3>2. Step(h, path, dropped, n) = Step(g, path, dropped, n)
      BY <3>1 DEF Step
    <3>3. n <= k => g[n] = Step(g, path, dropped, n)
      BY <2>1 DEF Fills
    <3> QED BY <3>2, <3>3
  <2>3. Fills(h, path, dropped, k + 1)
    BY <2>2 DEF Fills
  <2> QED BY <2>3
<1>3. Nat \subseteq S
  <2> HIDE DEF S
  <2> QED BY <1>1, <1>2, NumbersInduction
<1> QED BY <1>3

LEMMA WithoutFills ==
  ASSUME NEW path, NEW dropped, Len(path) \in Nat
  PROVE  \E g : Fills(g, path, dropped, Len(path)) /\ Without(path, dropped) = g[Len(path)]
<1>1. \E g : Fills(g, path, dropped, Len(path))
  BY SomeFills
<1> DEFINE kept[n \in 0..Len(path)] ==
             IF n = 0 THEN << >>
             ELSE IF n \in dropped THEN kept[n - 1] ELSE Append(kept[n - 1], path[n])
<1>2. Fills(kept, path, dropped, Len(path))
  BY <1>1, Zenon DEF Fills, Step
<1>3. Without(path, dropped) = kept[Len(path)]
  BY Zenon DEF Without
<1> QED BY <1>2, <1>3, Zenon

(* Only the part of the path that is looked at counts. *)
Agree(p, d, q, e, m) == \A n \in 1..m : p[n] = q[n] /\ (n \in d <=> n \in e)

LEMMA FillsAgree ==
  ASSUME NEW p, NEW d, NEW k \in Nat, NEW g, Fills(g, p, d, k),
         NEW q, NEW e, NEW l \in Nat, NEW h, Fills(h, q, e, l),
         NEW m \in Nat, m <= k, m <= l, Agree(p, d, q, e, m)
  PROVE  g[m] = h[m]
<1> DEFINE S == {n \in Nat : n <= m => g[n] = h[n]}
<1>1. \A n \in 0..k : g[n] = Step(g, p, d, n)
  BY DEF Fills
<1>2. \A n \in 0..l : h[n] = Step(h, q, e, n)
  BY DEF Fills
<1>3. 0 \in S
  BY <1>1, <1>2 DEF Step
<1>4. ASSUME NEW n \in Nat, n \in S PROVE n + 1 \in S
  <2>1. SUFFICES ASSUME n + 1 <= m PROVE g[n + 1] = h[n + 1]
    OBVIOUS
  <2>2. g[n] = h[n] /\ (n + 1) - 1 = n /\ n + 1 # 0
    BY <1>4, <2>1
  <2>3. p[n + 1] = q[n + 1] /\ (n + 1 \in d <=> n + 1 \in e)
    BY <2>1 DEF Agree
  <2>4. g[n + 1] = Step(g, p, d, n + 1) /\ h[n + 1] = Step(h, q, e, n + 1)
    BY <1>1, <1>2, <2>1
  <2> QED BY <2>2, <2>3, <2>4 DEF Step
<1>5. Nat \subseteq S
  <2> HIDE DEF S
  <2> QED BY <1>3, <1>4, NumbersInduction
<1> QED BY <1>5

LEMMA WithoutEmpty == ASSUME NEW d PROVE Without(<< >>, d) = << >>
<1>1. Len(<< >>) = 0
  OBVIOUS
<1>2. PICK g : Fills(g, << >>, d, 0) /\ Without(<< >>, d) = g[0]
  BY <1>1, WithoutFills
<1>3. g[0] = Step(g, << >>, d, 0)
  BY <1>2 DEF Fills
<1> QED BY <1>2, <1>3 DEF Step

(* What one more character adds. *)
LEMMA WithoutAppend ==
  ASSUME NEW V, NEW s \in Seq(V), NEW c \in V, NEW d, NEW e,
         \A n \in 1..Len(s) : n \in d <=> n \in e
  PROVE  Without(Append(s, c), e) = IF Len(s) + 1 \in e THEN Without(s, d)
                                    ELSE Append(Without(s, d), c)
<1> DEFINE t == Append(s, c)
           k == Len(s)
<1>1. /\ k \in Nat /\ Len(t) = k + 1 /\ t[k + 1] = c
      /\ \A n \in 1..k : t[n] = s[n]
  OBVIOUS
<1>2. PICK g : Fills(g, s, d, k) /\ Without(s, d) = g[k]
  BY <1>1, WithoutFills
<1>3. PICK h : Fills(h, t, e, Len(t)) /\ Without(t, e) = h[Len(t)]
  <2>1. Len(t) \in Nat
    BY <1>1
  <2> HIDE DEF t
  <2> QED BY <2>1, WithoutFills, Zenon
<1>4. h[k] = g[k]
  <2>1. Fills(h, t, e, k + 1)
    BY <1>1, <1>3
  <2>2. Agree(s, d, t, e, k)
    BY <1>1 DEF Agree
  <2>3. k + 1 \in Nat /\ k <= k /\ k <= k + 1
    BY <1>1
  <2>4. k \in Nat /\ Fills(g, s, d, k)
    BY <1>1, <1>2
  <2> HIDE DEF k, t
  <2> QED BY <2>1, <2>2, <2>3, <2>4, FillsAgree
<1>5. h[k + 1] = Step(h, t, e, k + 1)
  BY <1>1, <1>3 DEF Fills
<1>6. (k + 1) - 1 = k /\ k + 1 # 0
  BY <1>1
<1> QED BY <1>1, <1>2, <1>3, <1>4, <1>5, <1>6 DEF Step

-----------------------------------------------------------------------------
(* The components of a path. *)

LEMMA SlashIsPiece == SLASH \in Pieces
<1>1. PackagesDir[1] = SLASH /\ 1 \in DOMAIN PackagesDir
  BY DEF PackagesDir
<1> QED BY <1>1 DEF Pieces, Range

LEMMA ComponentsEmpty == Components(<< >>) = << >>
BY WithoutEmpty DEF Components

LEMMA ComponentsAppend ==
  ASSUME NEW s \in Seq(Pieces), NEW c \in Pieces
  PROVE  Components(Append(s, c)) = IF c = SLASH THEN Components(s)
                                    ELSE Append(Components(s), c)
<1> DEFINE t == Append(s, c)
           d == {n \in 1..Len(s) : s[n] = SLASH}
           e == {n \in 1..Len(t) : t[n] = SLASH}
<1>1. /\ Len(s) \in Nat /\ Len(t) = Len(s) + 1 /\ t[Len(s) + 1] = c
      /\ \A n \in 1..Len(s) : t[n] = s[n]
  OBVIOUS
<1>2. \A n \in 1..Len(s) : n \in d <=> n \in e
  BY <1>1
<1>3. Len(s) + 1 \in e <=> c = SLASH
  BY <1>1
<1>4. Without(t, e) = IF Len(s) + 1 \in e THEN Without(s, d) ELSE Append(Without(s, d), c)
  <2> HIDE DEF d, e
  <2> QED BY <1>2, WithoutAppend
<1> QED BY <1>3, <1>4 DEF Components

LEMMA ComponentsType ==
  ASSUME NEW p \in Seq(Pieces)
  PROVE  Components(p) \in Seq(Pieces)
<1> DEFINE T == {s \in Seq(Pieces) : Components(s) \in Seq(Pieces)}
<1>1. << >> \in T
  BY EmptySeq, ComponentsEmpty
<1>2. ASSUME NEW s \in Seq(Pieces), NEW c \in Pieces, s \in T PROVE Append(s, c) \in T
  BY <1>2, ComponentsAppend, AppendProperties
<1>3. Seq(Pieces) \subseteq T
  <2> HIDE DEF T
  <2> QED BY <1>1, <1>2, PathsInduction
<1> QED BY <1>3

LEMMA ComponentsConcat ==
  ASSUME NEW p \in Seq(Pieces), NEW q \in Seq(Pieces)
  PROVE  Components(p \o q) = Components(p) \o Components(q)
<1> DEFINE T == {s \in Seq(Pieces) : Components(p \o s) = Components(p) \o Components(s)}
<1>1. << >> \in T
  <2>1. p \o << >> = p /\ Components(p) \o << >> = Components(p)
    BY ConcatEmptySeq, ComponentsType
  <2> QED BY <2>1, ComponentsEmpty, EmptySeq
<1>2. ASSUME NEW s \in Seq(Pieces), NEW c \in Pieces, s \in T PROVE Append(s, c) \in T
  <2>1. p \o Append(s, c) = Append(p \o s, c) /\ p \o s \in Seq(Pieces)
    OBVIOUS
  <2>2. Components(p) \in Seq(Pieces) /\ Components(s) \in Seq(Pieces)
    BY ComponentsType
  <2>3. Components(p) \o Append(Components(s), c) = Append(Components(p) \o Components(s), c)
    BY <2>2
  <2>4. Components(p \o s) = Components(p) \o Components(s)
    BY <1>2
  <2>5. Components(Append(p \o s, c)) = Components(p) \o Components(Append(s, c))
    BY <2>1, <2>3, <2>4, ComponentsAppend
  <2> QED BY <2>1, <2>5, AppendProperties
<1>3. Seq(Pieces) \subseteq T
  <2> HIDE DEF T
  <2> QED BY <1>1, <1>2, PathsInduction
<1> QED BY <1>3

-----------------------------------------------------------------------------
(* fs_normalize_path *)

LEMMA SqueezedEmpty == Squeezed(<< >>) = << >>
BY WithoutEmpty DEF Squeezed

LEMMA SqueezedAppend ==
  ASSUME NEW s \in Seq(Pieces), NEW c \in Pieces
  PROVE  Squeezed(Append(s, c)) = IF s # << >> /\ Last(s) = SLASH /\ c = SLASH
                                  THEN Squeezed(s) ELSE Append(Squeezed(s), c)
<1> DEFINE t == Append(s, c)
           d == {n \in 2..Len(s) : s[n] = SLASH /\ s[n - 1] = SLASH}
           e == {n \in 2..Len(t) : t[n] = SLASH /\ t[n - 1] = SLASH}
<1>1. /\ Len(s) \in Nat /\ Len(t) = Len(s) + 1 /\ t[Len(s) + 1] = c
      /\ \A n \in 1..Len(s) : t[n] = s[n]
      /\ s = << >> <=> Len(s) = 0
  OBVIOUS
<1>2. \A n \in 1..Len(s) : n \in d <=> n \in e
  BY <1>1
<1>3. Len(s) + 1 \in e <=> s # << >> /\ s[Len(s)] = SLASH /\ c = SLASH
  BY <1>1
<1>4. Without(t, e) = IF Len(s) + 1 \in e THEN Without(s, d) ELSE Append(Without(s, d), c)
  <2> HIDE DEF d, e
  <2> QED BY <1>2, WithoutAppend
<1> QED BY <1>3, <1>4 DEF Squeezed, Last

NoDouble(path) == \A i \in 1..(Len(path) - 1) : ~(path[i] = SLASH /\ path[i + 1] = SLASH)

(* A squeezed path means the same, has the same ends and no doubled slash. *)
Squeezes(s) ==
  /\ Squeezed(s) \in Seq(Pieces)
  /\ Components(Squeezed(s)) = Components(s)
  /\ s # << >> => /\ Squeezed(s) # << >>
                  /\ Squeezed(s)[1] = s[1]
                  /\ Last(Squeezed(s)) = Last(s)
  /\ s = << >> => Squeezed(s) = << >>
  /\ NoDouble(Squeezed(s))
  /\ Separated(s) => Separated(Squeezed(s))

LEMMA SqueezedIsNormal ==
  ASSUME NEW p \in Seq(Pieces)
  PROVE  Squeezes(p)
<1> DEFINE T == {s \in Seq(Pieces) : Squeezes(s)}
<1>1. << >> \in T
  <2>1. << >> \in Seq(Pieces) /\ Len(<< >>) = 0
    BY EmptySeq
  <2>2. NoDouble(<< >>)
    BY <2>1 DEF NoDouble
  <2>3. Squeezes(<< >>)
    BY <2>1, <2>2, SqueezedEmpty DEF Squeezes
  <2> QED BY <2>1, <2>3
<1>2. ASSUME NEW s \in Seq(Pieces), NEW c \in Pieces, s \in T PROVE Append(s, c) \in T
  <2> DEFINE t == Append(s, c)
             q == Squeezed(s)
  <2>1. Squeezes(s) /\ q \in Seq(Pieces)
    BY <1>2 DEF Squeezes
  <2>2. /\ t \in Seq(Pieces) /\ t # << >> /\ Last(t) = c
        /\ t[1] = IF s = << >> THEN c ELSE s[1]
    BY DEF Last
  <2>3. Separated(t) => Separated(s)
    BY DEF Separated
  <2>4. Separated(t) /\ s # << >> => Last(s) = SLASH \/ c = SLASH
    BY DEF Separated, Last
  <2> SUFFICES Squeezes(t)
    BY <2>2
  <2>5. CASE s # << >> /\ Last(s) = SLASH /\ c = SLASH
    <3>1. Squeezed(t) = q
      BY <2>5, SqueezedAppend
    <3>2. Components(t) = Components(s)
      BY <2>5, ComponentsAppend
    <3> HIDE DEF t
    <3> QED BY <2>1, <2>2, <2>3, <2>5, <3>1, <3>2 DEF Squeezes
  <2>6. CASE ~(s # << >> /\ Last(s) = SLASH /\ c = SLASH)
    <3>1. Squeezed(t) = Append(q, c)
      BY <2>6, SqueezedAppend
    <3>2. Components(Append(q, c)) = Components(t)
      BY <2>1, ComponentsAppend DEF Squeezes
    <3>3. q = << >> <=> s = << >>
      BY <2>1 DEF Squeezes
    <3>4. s # << >> => q[1] = s[1] /\ q[Len(q)] = Last(s)
      BY <2>1 DEF Squeezes, Last
    <3>5. /\ Append(q, c) \in Seq(Pieces) /\ Append(q, c) # << >>
          /\ Append(q, c)[1] = IF q = << >> THEN c ELSE q[1]
          /\ Last(Append(q, c)) = c
      BY <2>1 DEF Last
    <3>6. NoDouble(Append(q, c))
      BY <2>1, <2>6, <3>3, <3>4 DEF Squeezes, NoDouble
    <3>7. Separated(t) => Separated(Append(q, c))
      BY <2>1, <2>3, <2>4, <3>3, <3>4 DEF Squeezes, Separated
    <3> HIDE DEF t
    <3> QED BY <2>2, <3>1, <3>2, <3>3, <3>4, <3>5, <3>6, <3>7 DEF Squeezes
  <2> QED BY <2>5, <2>6
<1>3. Seq(Pieces) \subseteq T
  <2> HIDE DEF T
  <2> QED BY <1>1, <1>2, PathsInduction
<1> QED BY <1>3

-----------------------------------------------------------------------------
(* The text of a directory. *)

Canonical == {p \in Seq(Pieces) : Normal(p) /\ Separated(p)}

LEMMA RootIsCanonical == Root \in Canonical /\ Components(Root) = << >>
<1>1. Root \in Seq(Pieces) /\ Len(Root) = 1 /\ Root[1] = SLASH /\ Root = Append(<< >>, SLASH)
  BY SlashIsPiece DEF Root
<1>2. Components(Root) = << >>
  BY <1>1, SlashIsPiece, EmptySeq, ComponentsAppend, ComponentsEmpty
<1> QED BY <1>1, <1>2 DEF Canonical, Normal, Separated, Last

(* A directory other than the root is a name in a directory. *)
Below(q, n) == Append(Append(q, n), SLASH)

LEMMA CanonicalShape ==
  ASSUME NEW p \in Canonical, p # Root
  PROVE  \E q \in Canonical, n \in Pieces :
           /\ n # SLASH /\ p = Below(q, n)
           /\ q = SubSeq(p, 1, Len(p) - 2) /\ Len(p) > 2
<1> DEFINE l == Len(p)
           q == SubSeq(p, 1, l - 2)
           n == p[l - 1]
<1>1. /\ p \in Seq(Pieces) /\ l \in Nat /\ l > 0 /\ p[1] = SLASH /\ p[l] = SLASH
      /\ \A i \in 1..(l - 1) : ~(p[i] = SLASH /\ p[i + 1] = SLASH)
      /\ \A i \in 1..(l - 1) : p[i] = SLASH \/ p[i + 1] = SLASH
  BY DEF Canonical, Normal, Separated, Last
<1>0. l \in Nat /\ l > 0
  BY <1>1
<1>2. l # 1
  <2>1. l = 1 => p = << p[1] >>
    BY <1>1
  <2> QED BY <1>1, <2>1 DEF Root
<1>3. l # 2
  BY <1>1
<1>4. l > 2 /\ n # SLASH /\ n \in Pieces /\ p[l - 2] = SLASH
  <2>1. l > 2 /\ l - 1 \in 1..(l - 1) /\ l - 2 \in 1..(l - 1) /\ (l - 1) + 1 = l /\ (l - 2) + 1 = l - 1
    <3> HIDE DEF l
    <3> QED BY <1>0, <1>2, <1>3
  <2> QED BY <1>1, <2>1
<1>5. /\ q \in Seq(Pieces) /\ Len(q) = l - 2
      /\ \A i \in 1..(l - 2) : q[i] = p[i]
  BY <1>1, <1>4
<1>6. q \in Canonical
  <2>1. q # << >> /\ Head(q) = SLASH /\ q[Len(q)] = SLASH
    <3>1. 1 \in 1..(l - 2) /\ l - 2 \in 1..(l - 2)
      BY <1>0, <1>4
    <3>2. q[1] = SLASH /\ q[l - 2] = SLASH /\ Len(q) # 0
      BY <1>0, <1>1, <1>4, <1>5, <3>1
    <3>3. q \in Seq(Pieces) /\ q[Len(q)] = SLASH
      BY <1>5, <3>2
    <3>4. q # << >>
      BY <3>2, EmptySeq
    <3> HIDE DEF q
    <3> QED BY <3>2, <3>3, <3>4
  <2>2. \A i \in 1..(Len(q) - 1) : q[i] = p[i] /\ q[i + 1] = p[i + 1] /\ i \in 1..(l - 1)
    BY <1>1, <1>4, <1>5
  <2> HIDE DEF q
  <2> QED BY <1>1, <1>5, <2>1, <2>2 DEF Canonical, Normal, Separated, Last
<1>7. p = Below(q, n)
  <2> DEFINE r == Append(Append(q, n), SLASH)
  <2>1. r \in Seq(Pieces) /\ Len(r) = l
    BY <1>4, <1>5, SlashIsPiece
  <2>2. ASSUME NEW i \in 1..l PROVE r[i] = p[i]
    <3>1. i \in 1..(l - 2) \/ i = l - 1 \/ i = l
      BY <1>0
    <3>2. Append(q, n) \in Seq(Pieces) /\ Len(Append(q, n)) = l - 1
      BY <1>0, <1>4, <1>5, AppendProperties
    <3>3. p[l - 1] = n /\ p[l] = SLASH
      BY <1>1
    <3> HIDE DEF q, n, l
    <3> QED BY <1>0, <1>4, <1>5, <3>1, <3>2, <3>3
  <2>3. p = r
    <3> HIDE DEF r
    <3> QED BY <1>1, <2>1, <2>2, SeqEqual
  <2> QED BY <2>3 DEF Below
<1>8. q = SubSeq(p, 1, Len(p) - 2) /\ Len(p) > 2
  BY <1>4
<1> HIDE DEF q, n
<1> QED BY <1>4, <1>6, <1>7, <1>8

LEMMA BelowCanonical ==
  ASSUME NEW q \in Canonical, NEW n \in Pieces, n # SLASH
  PROVE  /\ Components(Append(q, n)) = Append(Components(q), n)
         /\ Components(Below(q, n)) = Append(Components(q), n)
         /\ Append(Components(q), n) # << >>
         /\ Front(Append(Components(q), n)) = Components(q)
<1> DEFINE r == Append(q, n)
<1>1. q \in Seq(Pieces) /\ r \in Seq(Pieces)
  BY AppendProperties DEF Canonical
<1>2. Components(q) \in Seq(Pieces)
  BY <1>1, ComponentsType
<1>3. Components(r) = Append(Components(q), n)
  BY <1>1, ComponentsAppend
<1>4. Components(Append(r, SLASH)) = Components(r)
  <2> HIDE DEF r
  <2> QED BY <1>1, SlashIsPiece, ComponentsAppend
<1>5. Components(Below(q, n)) = Append(Components(q), n)
  BY <1>3, <1>4, Zenon DEF Below
<1>6. Front(Append(Components(q), n)) = Components(q) /\ Append(Components(q), n) # << >>
  BY <1>2, AppendProperties DEF Front
<1> QED BY <1>3, <1>5, <1>6

(* Two texts of one directory are the same. *)
LEMMA OneText ==
  ASSUME NEW p \in Canonical, NEW q \in Canonical, Components(p) = Components(q)
  PROVE  p = q
<1> DEFINE S == {k \in Nat : \A s, t \in Canonical :
                              Len(s) <= k /\ Components(s) = Components(t) => s = t}
<1>1. ASSUME NEW s \in Canonical PROVE s \in Seq(Pieces) /\ Len(s) \in Nat /\ Len(s) > 0
  BY DEF Canonical, Normal
<1>2. 0 \in S
  BY <1>1
<1>3. ASSUME NEW k \in Nat, k \in S PROVE k + 1 \in S
  <2>1. SUFFICES ASSUME NEW s \in Canonical, NEW t \in Canonical, Len(s) <= k + 1,
                        Components(s) = Components(t)
                 PROVE  s = t
    OBVIOUS
  <2>2. CASE s = Root
    <3>1. SUFFICES ASSUME t # Root PROVE FALSE
      BY <2>2
    <3>2. PICK u \in Canonical, n \in Pieces : n # SLASH /\ t = Below(u, n)
      BY <3>1, CanonicalShape
    <3>3. Components(t) # << >>
      BY <3>2, BelowCanonical, Zenon
    <3> QED BY <2>1, <2>2, <3>3, RootIsCanonical
  <2>3. CASE s # Root
    <3>1. PICK u \in Canonical, n \in Pieces :
            n # SLASH /\ s = Below(u, n) /\ u = SubSeq(s, 1, Len(s) - 2)
      BY <2>3, CanonicalShape
    <3>2. t # Root
      BY <2>1, <3>1, BelowCanonical, RootIsCanonical
    <3>3. PICK v \in Canonical, m \in Pieces : m # SLASH /\ t = Below(v, m)
      BY <3>2, CanonicalShape
    <3>4. Append(Components(u), n) = Append(Components(v), m)
      <4>1. Components(s) = Append(Components(u), n)
        BY <3>1, BelowCanonical, Zenon
      <4>2. Components(t) = Append(Components(v), m)
        BY <3>3, BelowCanonical, Zenon
      <4> QED BY <2>1, <4>1, <4>2
    <3>5. Components(u) \in Seq(Pieces) /\ Components(v) \in Seq(Pieces)
      BY <1>1, ComponentsType
    <3>6. Components(u) = Components(v) /\ n = m
      BY <3>4, <3>5, AppendInjective
    <3>7. Len(u) <= k
      <4>1. Len(Below(u, n)) = Len(u) + 2
        BY <1>1, SlashIsPiece DEF Below
      <4> QED BY <1>1, <2>1, <3>1, <4>1
    <3>8. u = v
      BY <1>3, <3>6, <3>7
    <3> QED BY <3>1, <3>3, <3>6, <3>8
  <2> QED BY <2>2, <2>3
<1>4. Nat \subseteq S
  <2> HIDE DEF S
  <2> QED BY <1>2, <1>3, NumbersInduction
<1> QED BY <1>1, <1>4

-----------------------------------------------------------------------------
(* construct_path and what the commands make of it. *)

Rooted(p) == p \in Seq(Pieces) /\ p # << >> /\ p[1] = SLASH /\ Separated(p)

LEMMA CanonicalIsRooted ==
  ASSUME NEW p \in Canonical
  PROVE  Rooted(p) /\ Last(p) = SLASH /\ WithSlash(p) = p
BY DEF Canonical, Normal, Rooted, WithSlash

LEMMA WithSlashMeansTheSame ==
  ASSUME NEW p \in Seq(Pieces)
  PROVE  WithSlash(p) \in Seq(Pieces) /\ Components(WithSlash(p)) = Components(p)
BY SlashIsPiece, ComponentsAppend, AppendProperties DEF WithSlash

(* Between a slash and an argument, or in front of a slash, no names meet.   *)
LEMMA SeparatedAppend ==
  ASSUME NEW p \in Seq(Pieces), Separated(p)
  PROVE  Separated(Append(p, SLASH))
<1> DEFINE t == Append(p, SLASH)
<1>1. Len(p) \in Nat /\ Len(t) = Len(p) + 1 /\ t[Len(p) + 1] = SLASH
      /\ \A i \in 1..Len(p) : t[i] = p[i]
  OBVIOUS
<1>2. ASSUME NEW i \in 1..(Len(t) - 1) PROVE t[i] = SLASH \/ t[i + 1] = SLASH
  <2>1. i = Len(p) \/ (i \in 1..(Len(p) - 1) /\ t[i] = p[i] /\ t[i + 1] = p[i + 1])
    BY <1>1
  <2> HIDE DEF t
  <2> QED BY <1>1, <2>1 DEF Separated
<1> QED BY <1>2 DEF Separated

LEMMA SeparatedConcat ==
  ASSUME NEW p \in Seq(Pieces), p # << >>, Last(p) = SLASH, Separated(p),
         NEW q \in Seq(Pieces), Separated(q)
  PROVE  Separated(p \o q)
<1> DEFINE t == p \o q
           l == Len(p)
<1>1. /\ l \in Nat \ {0} /\ Len(q) \in Nat /\ Len(t) = l + Len(q)
      /\ \A i \in 1..l : t[i] = p[i]
      /\ \A i \in (l + 1)..(l + Len(q)) : t[i] = q[i - l]
  OBVIOUS
<1>2. p[l] = SLASH
  BY DEF Last
<1>3. ASSUME NEW i \in 1..(Len(t) - 1) PROVE t[i] = SLASH \/ t[i + 1] = SLASH
  <2>1. CASE i < l
    <3>1. i \in 1..(l - 1) /\ t[i] = p[i] /\ t[i + 1] = p[i + 1]
      BY <1>1, <2>1
    <3> HIDE DEF t
    <3> QED BY <3>1 DEF Separated
  <2>2. CASE i = l
    BY <1>1, <1>2, <2>2
  <2>3. CASE i > l
    <3>1. /\ i - l \in 1..(Len(q) - 1) /\ (i + 1) - l = (i - l) + 1
          /\ t[i] = q[i - l] /\ t[i + 1] = q[(i + 1) - l]
      BY <1>1, <2>3
    <3> HIDE DEF t, l
    <3> QED BY <3>1 DEF Separated
  <2> HIDE DEF t, l
  <2> QED BY <1>1, <2>1, <2>2, <2>3
<1> QED BY <1>3 DEF Separated

(* ".." goes to the directory that holds the current one.                    *)
LEMMA ParentOfCanonical ==
  ASSUME NEW q \in Canonical, NEW n \in Pieces, n # SLASH
  PROVE  ParentPath(Below(q, n)) = Append(q, SLASH)
<1> DEFINE r == Append(q, n)
           p == Append(r, SLASH)
           l == Len(q)
<1>1. /\ q \in Seq(Pieces) /\ l \in Nat /\ l > 0 /\ q[l] = SLASH
  BY DEF Canonical, Normal, Last
<1>2. /\ r \in Seq(Pieces) /\ Len(r) = l + 1 /\ r[l + 1] = n
      /\ \A i \in 1..l : r[i] = q[i]
  BY <1>1
<1>3. Len(p) = l + 2 /\ Last(p) = SLASH /\ Front(p) = r
  <2> HIDE DEF r, l
  <2> QED BY <1>1, <1>2, SlashIsPiece DEF Last, Front
<1>4. WithoutSlash(p) = r /\ Len(p) > 1
  <2> HIDE DEF p, l
  <2> QED BY <1>1, <1>3 DEF WithoutSlash
<1>5. ToLastSlash(r) = q
  <2> DEFINE P(k) == /\ k = 1 \/ r[k] = SLASH
                     /\ \A m \in (k + 1)..Len(r) : r[m] # SLASH
  <2>1. l \in 1..Len(r) /\ r[l] = SLASH
    BY <1>1, <1>2
  <2>2. \A m \in (l + 1)..Len(r) : r[m] # SLASH
    BY <1>1, <1>2
  <2>3. ASSUME NEW k \in 1..Len(r), P(k) PROVE k = l
    <3>1. k <= l + 1 /\ k \in Nat
      BY <1>1, <1>2
    <3>2. k # l + 1
      BY <1>1, <1>2, <2>3
    <3>3. ~(k < l)
      <4>1. k < l => l \in (k + 1)..Len(r)
        BY <1>1, <1>2, <3>1
      <4> QED BY <2>1, <2>3, <4>1
    <3> HIDE DEF l
    <3> QED BY <1>1, <3>1, <3>2, <3>3
  <2>4. (CHOOSE k \in 1..Len(r) : P(k)) = l
    <3> HIDE DEF l, r
    <3> QED BY <2>1, <2>2, <2>3
  <2>5. SubSeq(r, 1, l) = q
    BY <1>1
  <2>6. ToLastSlash(r) = SubSeq(r, 1, CHOOSE k \in 1..Len(r) : P(k))
    BY DEF ToLastSlash
  <2> HIDE DEF P, l, r
  <2> QED BY <2>4, <2>5, <2>6
<1>6. ParentPath(p) = Append(q, SLASH)
  <2> HIDE DEF p
  <2> QED BY <1>4, <1>5 DEF ParentPath
<1> QED BY <1>6 DEF Below

LEMMA ConstructedPath ==
  ASSUME current_path \in Canonical, NEW arg \in Args
  PROVE  Rooted(construct_path(arg)) /\ Components(construct_path(arg)) = Meaning(arg)
<1> DEFINE cp == current_path
<1>1. arg \in Seq(Pieces) /\ arg # << >> /\ Separated(arg)
  BY PathsAssumption
<1>2. Rooted(cp) /\ Last(cp) = SLASH /\ WithSlash(cp) = cp
  BY CanonicalIsRooted
<1>3. CASE Head(arg) = SLASH
  BY <1>1, <1>3 DEF construct_path, Meaning, Rooted
<1>4. CASE Head(arg) # SLASH /\ arg = << ".." >>
  <2>1. construct_path(arg) = ParentPath(cp)
    BY <1>4 DEF construct_path
  <2>2. Meaning(arg) = IF Components(cp) = << >> THEN << >> ELSE Front(Components(cp))
    BY <1>4 DEF Meaning
  <2>3. CASE cp = Root
    <3>1. ParentPath(cp) = Root
      BY <2>3 DEF ParentPath, Root
    <3>2. Rooted(Root)
      BY RootIsCanonical, CanonicalIsRooted
    <3> QED BY <2>1, <2>2, <2>3, <3>1, <3>2, RootIsCanonical
  <2>4. CASE cp # Root
    <3>1. PICK q \in Canonical, n \in Pieces : n # SLASH /\ cp = Below(q, n)
      BY <2>4, CanonicalShape
    <3>2. ParentPath(cp) = Append(q, SLASH)
      BY <3>1, ParentOfCanonical
    <3>3. q \in Seq(Pieces) /\ Rooted(q)
      BY CanonicalIsRooted DEF Rooted
    <3>4. Components(Append(q, SLASH)) = Components(q)
      BY <3>3, SlashIsPiece, ComponentsAppend
    <3>5. Components(cp) # << >> /\ Front(Components(cp)) = Components(q)
      BY <3>1, BelowCanonical, Zenon
    <3>6. Rooted(Append(q, SLASH))
      BY <3>3, SlashIsPiece, SeparatedAppend DEF Rooted
    <3> QED BY <2>1, <2>2, <3>2, <3>4, <3>5, <3>6
  <2> QED BY <2>3, <2>4
<1>5. CASE Head(arg) # SLASH /\ arg # << ".." >> /\ arg = << "." >>
  BY <1>2, <1>5 DEF construct_path, Meaning
<1>6. CASE Head(arg) # SLASH /\ arg # << ".." >> /\ arg # << "." >>
  <2>1. construct_path(arg) = cp \o arg /\ Meaning(arg) = Components(cp) \o Components(arg)
    BY <1>2, <1>6 DEF construct_path, Meaning
  <2>2. Components(cp \o arg) = Components(cp) \o Components(arg)
    BY <1>1, <1>2, ComponentsConcat DEF Rooted
  <2>3. Separated(cp \o arg)
    BY <1>1, <1>2, SeparatedConcat DEF Rooted
  <2>4. cp \o arg \in Seq(Pieces) /\ cp \o arg # << >> /\ (cp \o arg)[1] = SLASH
    BY <1>1, <1>2 DEF Rooted
  <2> QED BY <2>1, <2>2, <2>3, <2>4 DEF Rooted
<1> QED BY <1>3, <1>4, <1>5, <1>6

LEMMA DirectoryPath ==
  ASSUME current_path \in Canonical, NEW arg \in Args
  PROVE  DirPath(arg) \in Canonical /\ Components(DirPath(arg)) = Meaning(arg)
<1> DEFINE p == construct_path(arg)
           s == Squeezed(p)
<1>1. Rooted(p) /\ Components(p) = Meaning(arg)
  BY ConstructedPath
<1>2. Squeezes(p)
  BY <1>1, SqueezedIsNormal DEF Rooted
<1>3. Rooted(s) /\ Components(s) = Meaning(arg) /\ NoDouble(s)
  BY <1>1, <1>2 DEF Rooted, Squeezes
<1>4. DirPath(arg) = WithSlash(WithoutSlash(s))
  BY DEF DirPath, fs_normalize_path
<1>5. WithSlash(WithoutSlash(s)) = WithSlash(s)
  <2> HIDE DEF s
  <2>1. CASE Last(s) = SLASH /\ Len(s) > 1
    <3> DEFINE f == Front(s)
    <3>1. /\ s \in Seq(Pieces) /\ f \in Seq(Pieces) /\ Len(f) = Len(s) - 1 /\ Len(s) \in Nat
          /\ \A i \in 1..Len(f) : f[i] = s[i]
      BY <1>3, <2>1 DEF Rooted, Front
    <3>2. Last(f) # SLASH
      <4>1. Len(s) - 1 \in 1..(Len(s) - 1) /\ (Len(s) - 1) + 1 = Len(s)
        BY <2>1, <3>1
      <4>2. s[Len(s) - 1] # SLASH
        BY <1>3, <2>1, <4>1 DEF NoDouble, Last
      <4> HIDE DEF f
      <4> QED BY <3>1, <4>1, <4>2 DEF Last
    <3>3. Append(f, SLASH) = s
      <4>1. Append(f, SLASH) \in Seq(Pieces) /\ Len(Append(f, SLASH)) = Len(s)
        BY <3>1, SlashIsPiece, AppendProperties
      <4>2. ASSUME NEW i \in 1..Len(s) PROVE Append(f, SLASH)[i] = s[i]
        <5>1. i \in 1..Len(f) \/ i = Len(f) + 1
          BY <3>1
        <5> HIDE DEF f
        <5> QED BY <2>1, <3>1, <5>1 DEF Last
      <4> HIDE DEF f
      <4> QED BY <3>1, <4>1, <4>2, SeqEqual
    <3>4. WithoutSlash(s) = f
      BY <2>1 DEF WithoutSlash
    <3>5. WithSlash(f) = s /\ WithSlash(s) = s
      <4> HIDE DEF f
      <4> QED BY <2>1, <3>2, <3>3 DEF WithSlash
    <3> QED BY <3>4, <3>5
  <2>2. CASE ~(Last(s) = SLASH /\ Len(s) > 1)
    BY <2>2 DEF WithoutSlash
  <2> QED BY <2>1, <2>2
<1>6. WithSlash(s) \in Canonical /\ Components(WithSlash(s)) = Meaning(arg)
  <2> HIDE DEF s
  <2>1. CASE Last(s) = SLASH
    BY <1>3, <2>1 DEF WithSlash, Canonical, Normal, NoDouble, Rooted
  <2>2. CASE Last(s) # SLASH
    <3> DEFINE t == Append(s, SLASH)
    <3>1. /\ s \in Seq(Pieces) /\ Len(s) \in Nat \ {0} /\ t \in Seq(Pieces) /\ t # << >>
          /\ Len(t) = Len(s) + 1 /\ t[Len(s) + 1] = SLASH
          /\ \A i \in 1..Len(s) : t[i] = s[i]
      BY <1>3, SlashIsPiece DEF Rooted
    <3>2. Head(t) = SLASH /\ Last(t) = SLASH
      <4> HIDE DEF t
      <4> QED BY <1>3, <3>1 DEF Rooted, Last
    <3>3. ASSUME NEW i \in 1..(Len(t) - 1) PROVE ~(t[i] = SLASH /\ t[i + 1] = SLASH)
      <4>1. i = Len(s) \/ (i \in 1..(Len(s) - 1) /\ i + 1 \in 1..Len(s))
        BY <3>1
      <4> HIDE DEF t
      <4> QED BY <1>3, <2>2, <3>1, <4>1 DEF NoDouble, Last
    <3>4. Separated(t)
      BY <1>3, SeparatedAppend DEF Rooted
    <3>5. WithSlash(s) = t
      BY <2>2 DEF WithSlash
    <3>6. t \in Canonical
      <4> HIDE DEF t
      <4> QED BY <3>1, <3>2, <3>3, <3>4 DEF Canonical, Normal
    <3> HIDE DEF t
    <3> QED BY <1>3, <3>5, <3>6, WithSlashMeansTheSame DEF Rooted
  <2> QED BY <2>1, <2>2
<1> QED BY <1>4, <1>5, <1>6

-----------------------------------------------------------------------------
(* The inductive invariant: every name in the table is a path from the root, *)
(* those of directories and the current path are canonical, and no two slots *)
(* have one name, so that the first slot found is the only one.              *)

TypeOK == files \in [Slots -> [name : Seq(Pieces), is_directory : BOOLEAN]]

NamesFromRoot ==
  \A i \in Used : Rooted(files[i].name) /\ (files[i].is_directory => files[i].name \in Canonical)

UniqueNames == \A i, j \in Used : files[i].name = files[j].name => i = j

IInv == TypeOK /\ NamesFromRoot /\ UniqueNames /\ current_path \in Canonical

LEMMA PackagesDirIsCanonical == PackagesDir \in Canonical /\ PackagesDir # Root
<1>1. PackagesDir[2] = "packages" /\ 2 \in DOMAIN PackagesDir
  BY DEF PackagesDir
<1>2. "packages" \in Pieces
  BY <1>1 DEF Pieces, Range
<1>3. /\ PackagesDir \in Seq(Pieces) /\ Len(PackagesDir) = 3
      /\ PackagesDir[1] = SLASH /\ PackagesDir[2] # SLASH /\ PackagesDir[3] = SLASH
  BY <1>2, SlashIsPiece DEF PackagesDir, SLASH
<1>4. PackagesDir # Root
  BY <1>3 DEF Root
<1>5. \A i \in 1..(Len(PackagesDir) - 1) : i = 1 \/ i = 2
  BY <1>3
<1>6. Separated(PackagesDir)
  BY <1>3, <1>5 DEF Separated
<1>7. Normal(PackagesDir)
  <2>1. PackagesDir # << >> /\ Head(PackagesDir) = SLASH
    BY <1>3, EmptySeq
  <2> QED BY <1>3, <1>5, <2>1 DEF Normal, Last
<1> QED BY <1>3, <1>4, <1>6, <1>7 DEF Canonical

LEMMA InitIInv == Init => IInv
<1> SUFFICES ASSUME Init PROVE IInv
  OBVIOUS
<1>1. Root \in Canonical /\ PackagesDir \in Canonical /\ PackagesDir # Root
  BY RootIsCanonical, PackagesDirIsCanonical
<1>2. Root \in Seq(Pieces) /\ PackagesDir \in Seq(Pieces) /\ << >> \in Seq(Pieces)
  BY <1>1, EmptySeq DEF Canonical
<1>3. TypeOK
  BY <1>2 DEF Init, TypeOK, File, Free
<1>4. \A i \in Used : \/ i = 1 /\ files[i] = File(Root, TRUE)
                      \/ i = 2 /\ files[i] = File(PackagesDir, TRUE)
  BY DEF Init, Used
<1>5. NamesFromRoot
  BY <1>1, <1>4, CanonicalIsRooted DEF NamesFromRoot, File
<1>6. UniqueNames
  BY <1>1, <1>4 DEF UniqueNames, File
<1> QED BY <1>1, <1>3, <1>5, <1>6 DEF Init, IInv

LEMMA CreateKeeps ==
  ASSUME IInv, NEW name, Rooted(name), NEW dir \in BOOLEAN, dir => name \in Canonical,
         fs_create(name, dir)
  PROVE  /\ TypeOK' /\ NamesFromRoot' /\ UniqueNames'
         /\ \E i \in Used' : files'[i] = File(name, dir)
<1>1. PICK i \in Slots \ Used : files' = [files EXCEPT ![i] = File(name, dir)]
  BY DEF fs_create
<1>2. name \notin Names /\ name \in Seq(Pieces) /\ name # << >>
  BY DEF fs_create, Rooted
<1>3. TypeOK'
  BY <1>1, <1>2 DEF IInv, TypeOK, File
<1>4. /\ files'[i] = File(name, dir) /\ File(name, dir) # Free
      /\ File(name, dir).name = name /\ File(name, dir).is_directory = dir
      /\ \A j \in Slots : j # i => files'[j] = files[j]
  BY <1>1, <1>2 DEF IInv, TypeOK, File, Free
<1>5. \A j \in Slots : j \in Used' <=> (j \in Used \/ j = i)
  BY <1>1, <1>4 DEF Used
<1>6. Used' \subseteq Slots /\ i \in Used'
  BY <1>5 DEF Used
<1>7. NamesFromRoot'
  BY <1>4, <1>5, <1>6 DEF IInv, NamesFromRoot
<1>8. UniqueNames'
  BY <1>2, <1>4, <1>5, <1>6 DEF IInv, UniqueNames, Names
<1> QED BY <1>3, <1>4, <1>6, <1>7, <1>8

LEMMA NextIInv == IInv /\ [Next]_vars => IInv'
<1> SUFFICES ASSUME IInv, [Next]_vars PROVE IInv'
  OBVIOUS
<1>1. ASSUME NEW arg \in Args, Cd(arg) PROVE IInv'
  <2>1. DirPath(arg) \in Canonical
    BY DirectoryPath DEF IInv
  <2>2. current_path' \in Canonical
    BY <1>1, <2>1 DEF Cd
  <2> QED BY <1>1, <2>2 DEF Cd, IInv, TypeOK, NamesFromRoot, UniqueNames, Used
<1>2. ASSUME NEW arg \in Args, Mkdir(arg) PROVE IInv'
  <2>1. DirPath(arg) \in Canonical /\ Rooted(DirPath(arg))
    BY DirectoryPath, CanonicalIsRooted DEF IInv
  <2>2. TypeOK' /\ NamesFromRoot' /\ UniqueNames'
    BY <1>2, <2>1, CreateKeeps DEF Mkdir
  <2> QED BY <1>2, <2>2 DEF Mkdir, IInv
<1>3. ASSUME NEW arg \in Args, Touch(arg) PROVE IInv'
  <2>1. Rooted(construct_path(arg))
    BY ConstructedPath DEF IInv
  <2>2. TypeOK' /\ NamesFromRoot' /\ UniqueNames'
    BY <1>3, <2>1, CreateKeeps DEF Touch
  <2> QED BY <1>3, <2>2 DEF Touch, IInv
<1>4. ASSUME NEW arg \in Args, Rm(arg) PROVE IInv'
  <2> DEFINE k == Slot(construct_path(arg))
  <2>1. files' = [files EXCEPT ![k] = Free] /\ current_path' = current_path
    BY <1>4 DEF Rm
  <2>2. TypeOK'
    BY <2>1, EmptySeq DEF IInv, TypeOK, Free
  <2>3. \A j \in Used' : j \in Used /\ files'[j] = files[j]
    BY <2>1 DEF IInv, TypeOK, Used
  <2>4. NamesFromRoot' /\ UniqueNames'
    BY <2>3 DEF IInv, NamesFromRoot, UniqueNames
  <2> QED BY <2>1, <2>2, <2>4 DEF IInv
<1>5. CASE UNCHANGED vars
  BY <1>5 DEF vars, IInv, TypeOK, NamesFromRoot, UniqueNames, Used
<1> QED BY <1>1, <1>2, <1>3, <1>4, <1>5 DEF Next

(* Whatever the user types, names stay paths from the root and no two are    *)
(* equal (fs_create, fs_delete).                                             *)
THEOREM PathsInvariance == Spec => []IInv
BY InitIInv, NextIInv, PTL DEF Spec

(* The current path and the names of directories are the one text their      *)
(* directory has, after any commands (construct_path, fs_normalize_path).    *)
THEOREM DirectoriesHaveOneText == Spec => []OneTextPerDirectory
<1>1. IInv => OneTextPerDirectory
  BY DEF IInv, NamesFromRoot, OneTextPerDirectory, Canonical
<1> QED BY <1>1, PathsInvariance, PTL

LEMMA DirectoryIsFound ==
  ASSUME IInv, NEW arg \in Args, Meaning(arg) \in Directories
  PROVE  IsDirectory(DirPath(arg))
<1>1. PICK i \in Used : files[i].is_directory /\ Components(files[i].name) = Meaning(arg)
  BY DEF Directories
<1>2. DirPath(arg) \in Canonical /\ Components(DirPath(arg)) = Meaning(arg)
  BY DirectoryPath DEF IInv
<1>3. files[i].name = DirPath(arg)
  BY <1>1, <1>2, OneText DEF IInv, NamesFromRoot
<1>4. Slot(DirPath(arg)) = i
  BY <1>3 DEF Slot, IInv, UniqueNames
<1> QED BY <1>1, <1>3, <1>4 DEF IsDirectory, Names

LEMMA DirectoryIsMade ==
  ASSUME IInv, NEW arg \in Args, Mkdir(arg)
  PROVE  Meaning(arg) \in Directories'
<1>1. DirPath(arg) \in Canonical /\ Components(DirPath(arg)) = Meaning(arg)
  BY DirectoryPath DEF IInv
<1>2. PICK i \in Used' : files'[i] = File(DirPath(arg), TRUE)
  BY <1>1, CreateKeeps, CanonicalIsRooted DEF Mkdir
<1> QED BY <1>1, <1>2 DEF Directories, File

(* cd goes where its argument means, mkdir makes that directory, and a       *)
(* directory that is there is found under every argument that means it.      *)
THEOREM CommandsGoWhereTheyMean == Spec => CommandsMeanPaths
<1> DEFINE A == /\ \A arg \in Args : Cd(arg) => Components(current_path') = Meaning(arg)
                /\ \A arg \in Args : (Mkdir(arg) /\ ~Touch(arg)) => Meaning(arg) \in Directories'
                /\ \A arg \in Args : Meaning(arg) \in Directories => IsDirectory(DirPath(arg))
<1>1. IInv => A
  <2> SUFFICES ASSUME IInv PROVE A
    OBVIOUS
  <2>1. ASSUME NEW arg \in Args, Cd(arg) PROVE Components(current_path') = Meaning(arg)
    BY <2>1, DirectoryPath DEF Cd, IInv
  <2> QED BY <2>1, DirectoryIsMade, DirectoryIsFound
<1>2. IInv /\ [Next]_vars => [A]_vars
  BY <1>1
<1> QED BY <1>2, PathsInvariance, PTL DEF Spec, CommandsMeanPaths

-----------------------------------------------------------------------------
(* ls *)

LEMMA SlashesAreFinite ==
  ASSUME NEW rel \in Seq(Pieces)
  PROVE  IsFiniteSet({i \in 1..Len(rel) : rel[i] = SLASH})
<1>1. Len(rel) \in Int /\ 1 \in Int
  OBVIOUS
<1>2. IsFiniteSet(1..Len(rel))
  BY <1>1, FS_Interval
<1>3. {i \in 1..Len(rel) : rel[i] = SLASH} \subseteq 1..Len(rel)
  OBVIOUS
<1> QED BY <1>2, <1>3, FS_Subset

LEMMA NoSlashes ==
  ASSUME NEW rel \in Seq(Pieces)
  PROVE  Slashes(rel) = 0 <=> \A i \in 1..Len(rel) : rel[i] # SLASH
<1> DEFINE S == {i \in 1..Len(rel) : rel[i] = SLASH}
<1>1. IsFiniteSet(S)
  BY SlashesAreFinite
<1>2. Cardinality(S) = 0 <=> S = {}
  <2> HIDE DEF S
  <2> QED BY <1>1, FS_EmptySet
<1> QED BY <1>2 DEF Slashes

LEMMA OneSlash ==
  ASSUME NEW rel \in Seq(Pieces)
  PROVE  Slashes(rel) = 1 <=>
           \E j \in 1..Len(rel) : rel[j] = SLASH /\ \A i \in 1..Len(rel) : rel[i] = SLASH => i = j
<1> DEFINE S == {i \in 1..Len(rel) : rel[i] = SLASH}
<1>1. IsFiniteSet(S)
  BY SlashesAreFinite
<1>2. Cardinality(S) = 1 <=> \E j : S = {j}
  <2> HIDE DEF S
  <2> QED BY <1>1, FS_Singleton
<1>3. ASSUME NEW j, S = {j}
      PROVE  j \in 1..Len(rel) /\ rel[j] = SLASH /\ \A i \in 1..Len(rel) : rel[i] = SLASH => i = j
  <2>1. j \in S /\ \A i \in S : i = j
    BY <1>3
  <2> QED BY <2>1
<1>4. ASSUME NEW j \in 1..Len(rel), rel[j] = SLASH, \A i \in 1..Len(rel) : rel[i] = SLASH => i = j
      PROVE  S = {j}
  BY <1>4
<1> HIDE DEF S
<1>5. Slashes(rel) = Cardinality(S)
  BY DEF Slashes, S
<1> QED BY <1>2, <1>3, <1>4, <1>5

(* What fs_list compares, for a directory and a name without doubled         *)
(* slashes: the name is the directory's with one more component.             *)
OneMore(path, name) == \E n \in Pieces \ {SLASH} : name = Append(path, n) \/ name = Below(path, n)

LEMMA RestOfOneMore ==
  ASSUME NEW path \in Canonical, NEW name \in Seq(Pieces), OneMore(path, name)
  PROVE  ShownIn(path, name)
<1> DEFINE l == Len(path)
           rel == SubSeq(name, l + 1, Len(name))
<1>1. path \in Seq(Pieces) /\ l \in Nat /\ l > 0
  BY DEF Canonical, Normal
<1>2. PICK n \in Pieces \ {SLASH} : name = Append(path, n) \/ name = Below(path, n)
  BY DEF OneMore
<1>3. /\ Len(name) = l + 1 \/ (Len(name) = l + 2 /\ name[l + 2] = SLASH)
      /\ name[l + 1] = n
      /\ \A i \in 1..l : name[i] = path[i]
  BY <1>1, <1>2, SlashIsPiece DEF Below
<1>4. /\ rel \in Seq(Pieces) /\ Len(rel) = Len(name) - l
      /\ \A i \in 1..Len(rel) : rel[i] = name[l + i]
  BY <1>1, <1>3
<1>5. IsPrefix(path, name) /\ name # path
  <2>1. SubSeq(path, 1, l) = SubSeq(name, 1, l)
    BY <1>1, <1>3
  <2> QED BY <1>1, <1>3, <2>1 DEF IsPrefix
<1>6. rel[1] = n /\ n # SLASH /\ Len(rel) > 0
  BY <1>1, <1>3, <1>4
<1>7. RelativeTo(path, name) = rel
  <2>1. Head(rel) # SLASH
    <3> HIDE DEF rel
    <3> QED BY <1>4, <1>6
  <2> QED BY <2>1 DEF RelativeTo
<1>8. Slashes(rel) = 0 \/ (Slashes(rel) = 1 /\ Last(rel) = SLASH)
  <2>1. CASE Len(name) = l + 1
    <3>1. \A i \in 1..Len(rel) : i = 1
      BY <1>1, <1>4, <2>1
    <3> HIDE DEF rel
    <3> QED BY <1>4, <1>6, <3>1, NoSlashes
  <2>2. CASE Len(name) = l + 2 /\ name[l + 2] = SLASH
    <3>1. Len(rel) = 2 /\ rel[2] = SLASH
      BY <1>1, <1>4, <2>2
    <3> HIDE DEF rel
    <3>2. 2 \in 1..Len(rel) /\ \A i \in 1..Len(rel) : rel[i] = SLASH => i = 2
      BY <1>6, <3>1
    <3> QED BY <1>4, <3>1, <3>2, OneSlash DEF Last
  <2> QED BY <1>3, <2>1, <2>2
<1> QED BY <1>5, <1>7, <1>8 DEF ShownIn

LEMMA ShownIsOneMore ==
  ASSUME NEW path \in Canonical, NEW name, Rooted(name), Normal(WithSlash(name)),
         ShownIn(path, name)
  PROVE  OneMore(path, name)
<1> DEFINE l == Len(path)
           m == Len(name)
           rel == SubSeq(name, l + 1, m)
<1>1. /\ path \in Seq(Pieces) /\ l \in Nat /\ l > 0 /\ path[l] = SLASH
      /\ name \in Seq(Pieces) /\ m \in Nat /\ m > 0
  BY DEF Canonical, Normal, Last, Rooted
<1>2. /\ l <= m /\ SubSeq(path, 1, l) = SubSeq(name, 1, l) /\ name # path
  BY DEF ShownIn, IsPrefix
<1>3. \A i \in 1..l : name[i] = path[i]
  <2>1. ASSUME NEW i \in 1..l PROVE name[i] = path[i]
    <3>1. SubSeq(path, 1, l)[i] = path[i] /\ SubSeq(name, 1, l)[i] = name[i]
      BY <1>1, <1>2
    <3> QED BY <1>2, <3>1
  <2> QED BY <2>1
<1>4. l < m
  <2>1. l = m => name = path
    BY <1>1, <1>3, SeqEqual
  <2> QED BY <1>1, <1>2, <2>1
<1>5. name[l] = SLASH /\ name[l + 1] # SLASH
  <2> DEFINE w == WithSlash(name)
  <2>1. /\ Len(w) \in Nat /\ m <= Len(w) /\ \A i \in 1..m : w[i] = name[i]
    BY <1>1, SlashIsPiece DEF WithSlash
  <2>2. l \in 1..(Len(w) - 1) /\ l \in 1..m /\ l + 1 \in 1..m /\ l \in 1..l
    <3> HIDE DEF w, m, l
    <3> QED BY <1>1, <1>4, <2>1
  <2>3. ~(w[l] = SLASH /\ w[l + 1] = SLASH)
    BY <2>2 DEF Normal
  <2> HIDE DEF w
  <2> QED BY <1>1, <1>3, <2>1, <2>2, <2>3
<1>6. /\ rel \in Seq(Pieces) /\ Len(rel) = m - l
      /\ \A i \in 1..Len(rel) : rel[i] = name[l + i]
  BY <1>1, <1>4
<1>7. rel[1] # SLASH /\ Len(rel) > 0
  BY <1>1, <1>4, <1>5, <1>6
<1>8. RelativeTo(path, name) = rel
  <2>1. Head(rel) # SLASH
    <3> HIDE DEF rel
    <3> QED BY <1>6, <1>7
  <2> QED BY <2>1 DEF RelativeTo
<1>9. m > l + 1 => name[l + 2] = SLASH
  <2>1. m > l + 1 => l + 1 \in 1..(m - 1) /\ (l + 1) + 1 = l + 2
    <3> HIDE DEF l, m
    <3> QED BY <1>1
  <2> QED BY <1>5, <2>1 DEF Rooted, Separated
<1>10. m = l + 1 \/ (m = l + 2 /\ name[l + 2] = SLASH)
  <2>1. SUFFICES ASSUME m > l + 1 PROVE m = l + 2
    <3> HIDE DEF l, m
    <3> QED BY <1>1, <1>4, <1>9
  <2>2. 2 \in 1..Len(rel) /\ rel[2] = SLASH
    <3>1. 2 \in 1..Len(rel)
      BY <1>1, <1>6, <2>1
    <3> HIDE DEF rel
    <3> QED BY <1>6, <1>9, <2>1, <3>1
  <2>3. Slashes(rel) = 1 /\ Last(rel) = SLASH
    <3>1. Slashes(rel) # 0
      <4> HIDE DEF rel
      <4> QED BY <1>6, <2>2, NoSlashes
    <3> QED BY <1>8, <3>1 DEF ShownIn
  <2>4. Len(rel) = 2
    <3> HIDE DEF rel
    <3>1. Len(rel) \in 1..Len(rel) /\ rel[Len(rel)] = SLASH
      BY <1>6, <1>7, <2>3 DEF Last
    <3>2. PICK j \in 1..Len(rel) : \A i \in 1..Len(rel) : rel[i] = SLASH => i = j
      BY <1>6, <2>3, OneSlash
    <3> QED BY <2>2, <3>1, <3>2
  <2> QED BY <1>1, <1>6, <2>4
<1>11. name[l + 1] \in Pieces \ {SLASH}
  BY <1>1, <1>4, <1>5
<1> DEFINE n == name[l + 1]
<1>12. CASE m = l + 1
  <2> DEFINE t == Append(path, n)
  <2>1. t \in Seq(Pieces) /\ Len(t) = l + 1 /\ t[l + 1] = n /\ \A i \in 1..l : t[i] = path[i]
    BY <1>1, <1>11, AppendProperties
  <2>2. ASSUME NEW i \in 1..m PROVE t[i] = name[i]
    <3>1. i \in 1..l \/ i = l + 1
      BY <1>1, <1>12
    <3> HIDE DEF t
    <3> QED BY <1>3, <2>1, <3>1
  <2>3. t = name
    <3> HIDE DEF t
    <3> QED BY <1>1, <1>12, <2>1, <2>2, SeqEqual
  <2> QED BY <1>11, <2>3 DEF OneMore
<1>13. CASE m = l + 2 /\ name[l + 2] = SLASH
  <2> DEFINE t == Append(Append(path, n), SLASH)
  <2>1. /\ t \in Seq(Pieces) /\ Len(t) = l + 2 /\ t[l + 1] = n /\ t[l + 2] = SLASH
        /\ \A i \in 1..l : t[i] = path[i]
    BY <1>1, <1>11, SlashIsPiece, AppendProperties
  <2>2. ASSUME NEW i \in 1..m PROVE t[i] = name[i]
    <3>1. i \in 1..l \/ i = l + 1 \/ i = l + 2
      BY <1>1, <1>13
    <3> HIDE DEF t
    <3> QED BY <1>3, <1>13, <2>1, <3>1
  <2>3. t = name
    <3> HIDE DEF t
    <3> QED BY <1>1, <1>13, <2>1, <2>2, SeqEqual
  <2> QED BY <1>11, <2>3 DEF OneMore, Below
<1> QED BY <1>10, <1>12, <1>13

LEMMA OneMoreIsChild ==
  ASSUME NEW path \in Canonical, NEW name, OneMore(path, name)
  PROVE  IsChild(path, name)
<1>1. PICK n \in Pieces : n # SLASH /\ (name = Append(path, n) \/ name = Below(path, n))
  BY DEF OneMore
<1>2. Components(name) = Append(Components(path), n)
  BY <1>1, BelowCanonical, Zenon
<1>3. Append(Components(path), n) # << >> /\ Front(Append(Components(path), n)) = Components(path)
  BY <1>1, BelowCanonical, Zenon
<1> QED BY <1>2, <1>3, Zenon DEF IsChild

LEMMA ChildIsOneMore ==
  ASSUME NEW path \in Canonical, NEW name, Rooted(name), Normal(WithSlash(name)),
         IsChild(path, name)
  PROVE  OneMore(path, name)
<1> DEFINE w == WithSlash(name)
<1>1. name \in Seq(Pieces) /\ name # << >> /\ Separated(name)
  BY DEF Rooted
<1>2. w \in Canonical /\ Components(w) = Components(name)
  <2>1. Separated(w)
    BY <1>1, SeparatedAppend DEF WithSlash
  <2> QED BY <1>1, <2>1, WithSlashMeansTheSame DEF Canonical
<1>3. Components(w) # << >> /\ Front(Components(w)) = Components(path)
  BY <1>2 DEF IsChild
<1>4. w # Root
  BY <1>3, RootIsCanonical
<1>5. PICK q \in Canonical, n \in Pieces : n # SLASH /\ w = Below(q, n)
  BY <1>2, <1>4, CanonicalShape
<1>6. Components(q) = Components(path)
  <2>1. Components(w) = Append(Components(q), n)
    BY <1>5, BelowCanonical, Zenon
  <2>2. Front(Append(Components(q), n)) = Components(q)
    BY <1>5, BelowCanonical, Zenon
  <2> QED BY <1>3, <2>1, <2>2, Zenon
<1>7. q = path
  BY <1>6, OneText
<1>8. CASE w = name
  BY <1>5, <1>7, <1>8 DEF OneMore
<1>9. CASE w = Append(name, SLASH)
  <2>1. Append(path, n) \in Seq(Pieces)
    BY AppendProperties DEF Canonical
  <2>2. Append(name, SLASH) = Append(Append(path, n), SLASH)
    BY <1>5, <1>7, <1>9, Zenon DEF Below
  <2>3. name = Append(path, n)
    <3> DEFINE r == Append(path, n)
    <3>1. r \in Seq(Pieces) /\ Append(name, SLASH) = Append(r, SLASH)
      BY <2>1, <2>2
    <3> HIDE DEF r
    <3>2. name = r
      BY <1>1, <3>1, SlashIsPiece, AppendInjective
    <3> QED BY <3>2 DEF r
  <2> QED BY <1>5, <2>3 DEF OneMore
<1> QED BY <1>8, <1>9 DEF WithSlash

(* The buffer after each slot: full, or with a line for every name shown in  *)
(* the slots so far.                                                         *)
ListStep(g, path, i) ==
  IF i = 0 THEN Nothing
  ELSE IF ShownIn(path, files[i].name) /\ ~g[i - 1].over
  THEN Listed(g[i - 1], RelativeTo(path, files[i].name))
  ELSE g[i - 1]

Lists(g, path, k) == g = [i \in 0..k |-> ListStep(g, path, i)]

LEMMA SomeLists ==
  ASSUME NEW path
  PROVE  \A k \in Nat : \E g : Lists(g, path, k)
<1> DEFINE S == {k \in Nat : \E g : Lists(g, path, k)}
<1>1. 0 \in S
  <2>1. Lists([i \in 0..0 |-> Nothing], path, 0)
    BY DEF Lists, ListStep
  <2> QED BY <2>1
<1>2. ASSUME NEW k \in Nat, k \in S PROVE k + 1 \in S
  <2>1. PICK g : Lists(g, path, k)
    BY <1>2
  <2> DEFINE h == [i \in 0..(k + 1) |-> IF i <= k THEN g[i] ELSE ListStep(g, path, i)]
  <2>2. ASSUME NEW i \in 0..(k + 1) PROVE h[i] = ListStep(h, path, i)
    <3>1. i # 0 => h[i - 1] = g[i - 1]
      OBVIOUS
    <3>2. ListStep(h, path, i) = ListStep(g, path, i)
      BY <3>1 DEF ListStep
    <3>3. i <= k => g[i] = ListStep(g, path, i)
      BY <2>1 DEF Lists
    <3> QED BY <3>2, <3>3
  <2>3. Lists(h, path, k + 1)
    BY <2>2 DEF Lists
  <2> QED BY <2>3
<1>3. Nat \subseteq S
  <2> HIDE DEF S
  <2> QED BY <1>1, <1>2, NumbersInduction
<1> QED BY <1>3

LEMMA RelativeToType ==
  ASSUME NEW path \in Canonical, NEW name \in Seq(Pieces), ShownIn(path, name)
  PROVE  RelativeTo(path, name) \in Seq(Pieces)
<1> DEFINE rel == SubSeq(name, Len(path) + 1, Len(name))
<1>1. /\ Len(path) \in Nat /\ Len(path) > 0 /\ Len(path) <= Len(name) /\ Len(name) \in Nat
  BY DEF Canonical, Normal, ShownIn, IsPrefix
<1>2. rel \in Seq(Pieces)
  BY <1>1
<1>3. rel # << >>
  <2>1. Len(path) = Len(name) => path = name
    <3>1. SubSeq(path, 1, Len(path)) = path /\ SubSeq(name, 1, Len(name)) = name
      BY SubSeqFull DEF Canonical
    <3> QED BY <3>1 DEF ShownIn, IsPrefix
  <2>2. Len(path) < Len(name)
    BY <1>1, <2>1 DEF ShownIn
  <2>3. Len(rel) # 0
    BY <1>1, <2>2
  <2> QED BY <2>3, EmptySeq
<1>4. RelativeTo(path, name) = rel \/ RelativeTo(path, name) = Tail(rel)
  BY DEF RelativeTo
<1> QED BY <1>2, <1>3, <1>4, HeadTailProperties

LEMMA ListHasShown ==
  ASSUME TypeOK, NEW path \in Canonical, NEW j \in Slots, ShownIn(path, files[j].name)
  PROVE  fs_list(path).over \/ RelativeTo(path, files[j].name) \in fs_list(path).lines
<1> DEFINE F == FS_MAX_FILES
           Has(b) == b.over \/ RelativeTo(path, files[j].name) \in b.lines
<1>1. F \in Nat
  BY PathsAssumption
<1>2. PICK g : Lists(g, path, F) /\ fs_list(path) = g[F]
  <2> DEFINE listed[i \in 0..F] ==
               IF i = 0 THEN Nothing
               ELSE IF ShownIn(path, files[i].name) /\ ~listed[i - 1].over
               THEN Listed(listed[i - 1], RelativeTo(path, files[i].name))
               ELSE listed[i - 1]
  <2>1. \E g : Lists(g, path, F)
    BY <1>1, SomeLists
  <2>2. Lists(listed, path, F)
    BY <2>1, Zenon DEF Lists, ListStep
  <2>3. fs_list(path) = listed[F]
    BY Zenon DEF fs_list
  <2> QED BY <2>2, <2>3, Zenon
<1>3. \A i \in 0..F : g[i] = ListStep(g, path, i)
  BY <1>2 DEF Lists
<1> DEFINE R == [lines : SUBSET Seq(Pieces), pos : Nat, over : BOOLEAN]
<1> DEFINE S == {i \in Nat : i <= F => g[i] \in R /\ (j <= i => Has(g[i]))}
<1>4. 0 \in S
  <2>1. g[0] = Nothing
    BY <1>1, <1>3 DEF ListStep
  <2>2. ~(j <= 0)
    BY <1>1 DEF Slots
  <2>3. Nothing \in R
    BY DEF Nothing
  <2> HIDE DEF R
  <2> QED BY <2>1, <2>2, <2>3
<1>5. ASSUME NEW i \in Nat, i \in S PROVE i + 1 \in S
  <2>1. SUFFICES ASSUME i + 1 <= F
                 PROVE  g[i + 1] \in R /\ (j <= i + 1 => Has(g[i + 1]))
    OBVIOUS
  <2> DEFINE b == g[i]
             rel == RelativeTo(path, files[i + 1].name)
  <2>2. b \in R /\ (j <= i => Has(b))
    BY <1>1, <1>5, <2>1
  <2>3. i + 1 \in Slots /\ i \in 0..F
    BY <1>1, <2>1 DEF Slots
  <2>4. g[i + 1] = IF ShownIn(path, files[i + 1].name) /\ ~b.over THEN Listed(b, rel) ELSE b
    BY <1>1, <1>3, <2>1 DEF ListStep
  <2>5. j <= i + 1 => j <= i \/ j = i + 1
    BY <1>1 DEF Slots
  <2>6. CASE ~(ShownIn(path, files[i + 1].name) /\ ~b.over)
    <3>1. g[i + 1] = b
      BY <2>4, <2>6
    <3>2. j = i + 1 => b.over
      BY <2>6
    <3> HIDE DEF R
    <3> QED BY <2>2, <2>5, <3>1, <3>2
  <2>7. CASE ShownIn(path, files[i + 1].name) /\ ~b.over
    <3>1. g[i + 1] = Listed(b, rel)
      BY <2>4, <2>7
    <3>2. CASE b.pos + Len(rel) + 2 >= LIST_SIZE
      <4>1. g[i + 1] = [b EXCEPT !.over = TRUE]
        BY <3>1, <3>2 DEF Listed
      <4> QED BY <2>2, <4>1
    <3>3. CASE ~(b.pos + Len(rel) + 2 >= LIST_SIZE)
      <4>1. g[i + 1] = [lines |-> b.lines \cup {rel}, pos |-> b.pos + Len(rel) + 1, over |-> FALSE]
        BY <3>1, <3>3 DEF Listed
      <4>2. rel \in Seq(Pieces)
        BY <2>3, <2>7, RelativeToType DEF TypeOK
      <4>3. Len(rel) \in Nat
        <5> HIDE DEF rel
        <5> QED BY <4>2
      <4>4. g[i + 1] \in R
        <5> HIDE DEF rel, b
        <5> QED BY <2>2, <4>1, <4>2, <4>3
      <4>5. g[i + 1].lines = b.lines \cup {rel}
        BY <4>1
      <4> QED BY <2>2, <2>5, <2>7, <4>4, <4>5
    <3> QED BY <3>2, <3>3
  <2> QED BY <2>6, <2>7
<1>6. Nat \subseteq S
  <2> HIDE DEF S
  <2> QED BY <1>4, <1>5, NumbersInduction
<1>7. j <= F
  BY <1>1 DEF Slots
<1> QED BY <1>1, <1>2, <1>6, <1>7

(* ls shows the names directly in the current directory, unless its buffer   *)
(* is full, and no others (fs_list).                                         *)
THEOREM ListsShowChildren == Spec => []LsShowsChildren
<1>1. ASSUME IInv, NEW i \in Used, Normal(WithSlash(files[i].name))
      PROVE  ShownIn(current_path, files[i].name) <=> IsChild(current_path, files[i].name)
  <2>1. current_path \in Canonical /\ Rooted(files[i].name) /\ files[i].name \in Seq(Pieces)
    BY <1>1 DEF IInv, NamesFromRoot, Rooted
  <2> QED BY <1>1, <2>1, ShownIsOneMore, OneMoreIsChild, ChildIsOneMore, RestOfOneMore
<1>2. IInv => LsShowsChildren
  BY <1>1, ListHasShown DEF LsShowsChildren, Used, IInv
<1> QED BY <1>2, PathsInvariance, PTL
=============================================================================
