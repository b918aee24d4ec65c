----------------------------- MODULE UsersProofs ----------------------------
(***************************************************************************)
(* Proofs about Users, for every table size and all names and passwords.   *)
(***************************************************************************)
EXTENDS Users, FiniteSetTheorems, WellFoundedInduction, TLAPS

-----------------------------------------------------------------------------
(* The first match of the code's loops over the table. *)

Less == {ss \in Nat \X Nat : ss[1] < ss[2]}

LEMMA FirstProps ==
  ASSUME NEW S, S \subseteq Nat, S # {}
  PROVE  First(S) \in S /\ \A j \in S : First(S) <= j
<1>1. OpToRel(<, Nat) = Less
  BY Zenon DEF OpToRel, Less
<1>2. IsWellFoundedOn(Less, Nat)
  BY <1>1, NatLessThanWellFounded, Zenon
<1>3. PICK x \in S : \A y \in S : ~(<<y, x>> \in Less)
  BY <1>2, WFMin
<1>4. ASSUME NEW y \in S PROVE x <= y
  <2>1. x \in Nat /\ y \in Nat
    OBVIOUS
  <2>2. <<y, x>> \notin Less
    BY <1>3
  <2>3. y < x => <<y, x>> \in Less
    BY <2>1, Zenon DEF Less
  <2> QED BY <2>1, <2>2, <2>3
<1> QED BY <1>4 DEF First

LEMMA FirstSlot ==
  ASSUME NEW S \in SUBSET Slots, S # {}
  PROVE  First(S) \in S
<1>1. S \subseteq Nat
  BY UsersAssumption DEF Slots
<1> QED BY <1>1, FirstProps

-----------------------------------------------------------------------------
(* The inductive invariant adds what holds before the first boot, and that   *)
(* every account has a name.                                                 *)

Named == \A i \in Active : users[i].username # Empty

IInv ==
  /\ TypeOK /\ AccountsDistinct /\ RootStays /\ SessionValid /\ Named
  /\ ~booted => Active = {} /\ current_user_id = NoUser

LEMMA IInvInit == Init => IInv
<1> SUFFICES ASSUME Init PROVE IInv
  OBVIOUS
<1> DEFINE u == [username |-> Empty, password |-> Empty, is_active |-> FALSE,
                 uid |-> 0, is_admin |-> FALSE]
<1>1. 0 \in Uids /\ NoUser \in Uids /\ 1 \in 1..(MaxCreated + 1)
  BY UsersAssumption DEF Uids, NoUser
<1>2. u \in User
  BY <1>1 DEF User
<1>3. users = [i \in Slots |-> u]
  BY DEF Init
<1>4. u.uid = 0 /\ u.is_active = FALSE
  OBVIOUS
<1> HIDE DEF u
<1>5. TypeOK
  BY <1>1, <1>2, <1>3 DEF Init, TypeOK
<1>6. Active = {} /\ AccountsDistinct
  BY <1>3, <1>4 DEF Init, Active, AccountsDistinct
<1> QED BY <1>5, <1>6 DEF IInv, Init, RootStays, SessionValid, Named

(* Slot i gets the contents u, and no other slot changes. *)
LEMMA TableUpdate ==
  ASSUME TypeOK, NEW i \in Slots, NEW u \in User
  PROVE  /\ [users EXCEPT ![i] = u] \in [Slots -> User]
         /\ [users EXCEPT ![i] = u][i] = u
         /\ \A j \in Slots \ {i} : [users EXCEPT ![i] = u][j] = users[j]
BY DEF TypeOK

LEMMA SetupStep ==
  ASSUME IInv, setup_root_user
  PROVE  IInv'
<1>1. PICK pw \in Passwords :
        users' = [users EXCEPT ![0] = [username |-> Root, password |-> pw, is_active |-> TRUE,
                                       uid |-> 0, is_admin |-> TRUE]]
  BY DEF setup_root_user
<1> DEFINE u == [username |-> Root, password |-> pw, is_active |-> TRUE,
                 uid |-> 0, is_admin |-> TRUE]
<1>2. 0 \in Slots /\ u \in User
  BY UsersAssumption DEF Slots, User, Uids
<1>3. /\ users' \in [Slots -> User] /\ users'[0] = u
      /\ \A j \in Slots \ {0} : users'[j] = users[j]
  BY <1>1, <1>2, TableUpdate DEF IInv
<1>4. /\ ~booted /\ booted' /\ Active = {} /\ next_uid' = next_uid
      /\ current_user_id' = NoUser
  BY DEF setup_root_user, IInv
<1>5. Active' = {0}
  BY <1>2, <1>3, <1>4 DEF Active
<1>6. TypeOK'
  BY <1>3, <1>4 DEF IInv, TypeOK, setup_root_user
<1>7. AccountsDistinct'
  BY <1>3, <1>4, <1>5 DEF IInv, AccountsDistinct, TypeOK
<1>8. Named'
  BY <1>3, <1>5, UsersAssumption DEF Named
<1> QED BY <1>2, <1>3, <1>4, <1>6, <1>7, <1>8 DEF IInv, RootStays, SessionValid

LEMMA CreateStep ==
  ASSUME IInv, booted, NEW name \in Names, NEW pw \in Passwords, NEW admin \in BOOLEAN,
         user_create(name, pw, admin), UNCHANGED << current_user_id, booted >>
  PROVE  IInv'
<1> DEFINE i == First(Slots \ Active)
           u == [username |-> name, password |-> pw, is_active |-> TRUE,
                 uid |-> next_uid, is_admin |-> admin]
<1>1. i \in Slots /\ i \notin Active
  BY FirstSlot DEF user_create
<1>2. /\ next_uid \in 1..MaxCreated /\ next_uid' = next_uid + 1
      /\ u \in User
  <2>1. next_uid \in 1..MaxCreated /\ next_uid + 1 \in 0..(UID_VALUES - 1)
    BY UsersAssumption DEF user_create, IInv, TypeOK
  <2>2. (next_uid + 1) % UID_VALUES = next_uid + 1
    BY <2>1, UsersAssumption, SMT
  <2>3. next_uid \in Uids
    BY <2>1, UsersAssumption DEF Uids
  <2>4. u \in User
    BY <2>3 DEF User
  <2>5. next_uid' = next_uid + 1
    BY <2>2 DEF user_create
  <2> QED BY <2>1, <2>4, <2>5
<1>3. users' = [users EXCEPT ![i] = u] /\ Found(name) = {}
  BY DEF user_create
<1> HIDE DEF i
<1>4. /\ users' \in [Slots -> User] /\ users'[i] = u
      /\ \A j \in Slots \ {i} : users'[j] = users[j]
  BY <1>1, <1>2, <1>3, TableUpdate DEF IInv
<1>5. Active' = Active \cup {i}
  BY <1>1, <1>4 DEF Active
<1>6. TypeOK'
  <2>1. next_uid' \in 1..(MaxCreated + 1)
    BY <1>2, UsersAssumption
  <2> QED BY <1>4, <2>1 DEF IInv, TypeOK
<1>7. AccountsDistinct'
  <2>1. \A j \in Active : users[j].username # name /\ users[j].uid < next_uid /\ j \in Slots
    BY <1>3 DEF Found, Active, IInv, AccountsDistinct
  <2>2. \A j \in Active : users[j].uid # next_uid
    BY <2>1, <1>2 DEF IInv, TypeOK, User, Uids
  <2>3. \A j, k \in Active' : j # k => /\ users'[j].username # users'[k].username
                                       /\ users'[j].uid # users'[k].uid
    BY <1>1, <1>4, <1>5, <2>1, <2>2 DEF IInv, AccountsDistinct
  <2>4. \A j \in Slots : users'[j].uid < next_uid'
    <3>1. \A j \in Slots : users[j].uid \in Int /\ users[j].uid < next_uid
      BY UsersAssumption DEF IInv, AccountsDistinct, TypeOK, User, Uids
    <3> QED BY <1>1, <1>2, <1>4, <3>1
  <2> QED BY <2>3, <2>4 DEF AccountsDistinct
<1>8. RootStays'
  <2>1. 0 \in Active /\ 0 \in Slots
    BY UsersAssumption DEF IInv, RootStays, Active, Slots
  <2> QED BY <1>1, <1>4, <2>1 DEF IInv, RootStays
<1>9. SessionValid'
  <2>1. CurrentSlots \subseteq CurrentSlots'
    BY <1>1, <1>4, <1>5 DEF CurrentSlots, Active
  <2> QED BY <2>1 DEF IInv, SessionValid, NoUser
<1>10. Named'
  <2>1. name # Empty /\ \A j \in Active : j \in Slots \ {i}
    BY <1>1, UsersAssumption DEF Active
  <2> QED BY <1>4, <1>5, <2>1 DEF IInv, Named
<1> QED BY <1>6, <1>7, <1>8, <1>9, <1>10 DEF IInv

LEMMA DeleteStep ==
  ASSUME IInv, booted, NEW name \in Names, user_delete(name),
         UNCHANGED << current_user_id, next_uid, booted >>
  PROVE  IInv'
<1> DEFINE i == First(Found(name))
           u == [users[i] EXCEPT !.is_active = FALSE]
<1>1. i \in Slots /\ i \in Active /\ users[i].username = name
  BY FirstSlot DEF user_delete, Found, Active
<1>2. u \in User /\ u.username = name /\ u.uid = users[i].uid /\ ~u.is_active
  BY <1>1 DEF IInv, TypeOK, User
<1>3. /\ users' = [users EXCEPT ![i] = u]
      /\ name # Root /\ users[i].uid # current_user_id
  BY DEF user_delete
<1> HIDE DEF i, u
<1>4. /\ users' \in [Slots -> User] /\ users'[i] = u
      /\ \A j \in Slots \ {i} : users'[j] = users[j]
  BY <1>1, <1>2, <1>3, TableUpdate DEF IInv
<1>5. Active' = Active \ {i}
  BY <1>1, <1>2, <1>4 DEF Active
<1>6. TypeOK'
  BY <1>4 DEF IInv, TypeOK
<1>7. AccountsDistinct'
  <2>1. \A j \in Active' : j \in Active /\ j \in Slots /\ users'[j] = users[j]
    BY <1>4, <1>5 DEF Active
  <2>2. \A j \in Slots : users'[j].uid = users[j].uid
    BY <1>2, <1>4
  <2> QED BY <2>1, <2>2 DEF IInv, AccountsDistinct
<1>8. RootStays'
  <2>1. i # 0 /\ 0 \in Slots
    BY <1>1, <1>3, UsersAssumption DEF IInv, RootStays, Slots
  <2> QED BY <1>4, <2>1 DEF IInv, RootStays
<1>9. SessionValid'
  <2>1. CurrentSlots \subseteq CurrentSlots'
    BY <1>3, <1>4, <1>5 DEF CurrentSlots, Active
  <2> QED BY <2>1 DEF IInv, SessionValid, NoUser
<1>10. Named'
  <2>1. \A j \in Active' : j \in Active /\ users'[j] = users[j]
    BY <1>4, <1>5 DEF Active
  <2> QED BY <2>1 DEF IInv, Named
<1> QED BY <1>6, <1>7, <1>8, <1>9, <1>10 DEF IInv

LEMMA PasswdStep ==
  ASSUME IInv, booted, NEW name, NEW pw \in Passwords, user_passwd(name, pw),
         UNCHANGED << current_user_id, next_uid, booted >>
  PROVE  IInv'
<1> DEFINE i == First(Found(name))
           u == [users[i] EXCEPT !.password = pw]
<1>1. i \in Slots
  BY FirstSlot DEF user_passwd, Found, Active
<1>2. /\ u \in User /\ u.username = users[i].username /\ u.uid = users[i].uid
      /\ u.is_active = users[i].is_active /\ u.is_admin = users[i].is_admin
  BY <1>1 DEF IInv, TypeOK, User
<1>3. users' = [users EXCEPT ![i] = u]
  BY DEF user_passwd
<1> HIDE DEF i, u
<1>4. /\ users' \in [Slots -> User] /\ users'[i] = u
      /\ \A j \in Slots \ {i} : users'[j] = users[j]
  BY <1>1, <1>2, <1>3, TableUpdate DEF IInv
<1>5. \A j \in Slots : /\ users'[j].username = users[j].username /\ users'[j].uid = users[j].uid
                       /\ users'[j].is_active = users[j].is_active
                       /\ users'[j].is_admin = users[j].is_admin
  BY <1>2, <1>4
<1>6. Active' = Active /\ CurrentSlots' = CurrentSlots
  BY <1>5 DEF Active, CurrentSlots
<1>7. TypeOK'
  BY <1>4 DEF IInv, TypeOK
<1>8. AccountsDistinct'
  BY <1>5, <1>6 DEF IInv, AccountsDistinct, Active
<1>9. RootStays'
  <2>1. 0 \in Slots
    BY UsersAssumption DEF Slots
  <2> QED BY <1>5, <2>1 DEF IInv, RootStays
<1>10. Named'
  BY <1>5, <1>6 DEF IInv, Named, Active
<1> QED BY <1>6, <1>7, <1>8, <1>9, <1>10 DEF IInv, SessionValid, NoUser

LEMMA LoginStep ==
  ASSUME IInv, NEW name, NEW pw, Login(name, pw)
  PROVE  IInv'
<1> DEFINE i == First(Found(name))
<1>1. i \in Active /\ i \in Slots
  BY FirstSlot DEF Login, Found, Active
<1>2. current_user_id' = users[i].uid /\ UNCHANGED << users, next_uid, booted >>
  BY DEF Login
<1> HIDE DEF i
<1>3. i \in CurrentSlots'
  BY <1>1, <1>2 DEF CurrentSlots, Active
<1>4. TypeOK'
  BY <1>1, <1>2 DEF IInv, TypeOK, User
<1> QED BY <1>2, <1>3, <1>4 DEF IInv, AccountsDistinct, RootStays, SessionValid, Named,
        Active, Login

LEMMA LogoutStep ==
  ASSUME IInv, Logout
  PROVE  IInv'
<1>1. NoUser \in Uids
  BY UsersAssumption DEF NoUser, Uids
<1> QED BY <1>1 DEF IInv, Logout, TypeOK, AccountsDistinct, RootStays, SessionValid, Named,
           Active, NoUser

LEMMA IInvStep == IInv /\ [Next]_vars => IInv'
<1> SUFFICES ASSUME IInv, [Next]_vars PROVE IInv'
  OBVIOUS
<1>1. CASE setup_root_user
  BY <1>1, SetupStep
<1>2. CASE Logout
  BY <1>2, LogoutStep
<1>3. ASSUME NEW name \in Names, NEW pw \in Passwords, Login(name, pw) PROVE IInv'
  BY <1>3, LoginStep
<1>4. ASSUME NEW name \in Names, NEW pw \in Passwords, NEW admin \in BOOLEAN,
             UserAdd(name, pw, admin)
      PROVE  IInv'
  BY <1>4, CreateStep DEF UserAdd
<1>5. ASSUME NEW name \in Names, UserDel(name) PROVE IInv'
  BY <1>5, DeleteStep DEF UserDel
<1>6. ASSUME NEW name \in Names, NEW pw \in Passwords, PasswdOther(name, pw) PROVE IInv'
  BY <1>6, PasswdStep DEF PasswdOther
<1>7. ASSUME NEW pw \in Passwords, PasswdOwn(pw) PROVE IInv'
  BY <1>7, PasswdStep DEF PasswdOwn
<1>8. CASE UNCHANGED vars
  BY <1>8 DEF vars, IInv, TypeOK, AccountsDistinct, RootStays, SessionValid, Named,
     Active, CurrentSlots, NoUser
<1> QED BY <1>1, <1>2, <1>3, <1>4, <1>5, <1>6, <1>7, <1>8 DEF Next

(* The account invariants hold together in every reachable state.            *)
THEOREM Invariance == Spec => []IInv
BY IInvInit, IInvStep, PTL DEF Spec

(* Names and uids identify accounts, for every sequence of commands that     *)
(* creates at most MaxCreated of them.                                       *)
THEOREM AccountsStayDistinct == Spec => []AccountsDistinct
<1>1. IInv => AccountsDistinct
  BY DEF IInv
<1> QED BY <1>1, Invariance, PTL

(* Nobody can remove root or take its admin flag.                            *)
THEOREM RootStaysAdmin == Spec => []RootStays
<1>1. IInv => RootStays
  BY DEF IInv
<1> QED BY <1>1, Invariance, PTL

(* The logged-in account is never deleted under its session, and a session   *)
(* never becomes that of another account.                                    *)
THEOREM SessionStaysValid == Spec => []SessionValid
<1>1. IInv => SessionValid
  BY DEF IInv
<1> QED BY <1>1, Invariance, PTL

-----------------------------------------------------------------------------
(* The table of reused slots implements the accounts.                        *)

Known == {users[j].username : j \in Active}
Session == IF CurrentSlots = {} THEN Empty ELSE users[First(CurrentSlots)].username

(* What the accounts say of a name is what the one active slot with it says. *)
Looked ==
  /\ DOMAIN ByName = Known
  /\ ByName = [n \in Known |-> ByName[n]]
  /\ \A j \in Active : ByName[users[j].username] =
                         [password |-> users[j].password, admin |-> users[j].is_admin]

LEMMA Lookup == IInv => Looked
<1> SUFFICES ASSUME IInv PROVE Looked
  OBVIOUS
<1>1. ASSUME NEW j \in Active PROVE Slot(users[j].username) = j
  <2>1. Found(users[j].username) = {j}
    BY DEF Found, IInv, AccountsDistinct
  <2>2. Found(users[j].username) \in SUBSET Slots
    BY DEF Found, Active
  <2> QED BY <2>1, <2>2, FirstSlot DEF Slot
<1>2. DOMAIN ByName = Known
  BY DEF ByName, Known
<1>3. ASSUME NEW j \in Active
      PROVE  ByName[users[j].username] = [password |-> users[j].password,
                                          admin |-> users[j].is_admin]
  <2>1. users[j].username \in Known
    BY DEF Known
  <2> QED BY <1>1, <2>1 DEF ByName, Known
<1>4. ByName = [n \in Known |-> ByName[n]]
  BY <1>2 DEF ByName
<1> QED BY <1>2, <1>3, <1>4 DEF Looked

(* The session is that of the one active slot with the current uid.          *)
Owned ==
  /\ CurrentSlots = {} <=> current_user_id = NoUser
  /\ CurrentSlots = {} <=> Session = Empty
  /\ \A j \in CurrentSlots : Session = users[j].username

LEMMA Owner == IInv => Owned
<1> SUFFICES ASSUME IInv PROVE Owned
  OBVIOUS
<1>1. CurrentSlots \subseteq Active /\ Active \subseteq Slots
  BY DEF CurrentSlots, Active
<1>2. \A j \in Slots : users[j].uid # NoUser
  <2>1. ASSUME NEW j \in Slots PROVE users[j].uid # NoUser
    <3>1. users[j].uid \in Uids /\ users[j].uid < next_uid /\ next_uid \in 1..(MaxCreated + 1)
      BY DEF IInv, AccountsDistinct, TypeOK, User
    <3> QED BY <3>1, UsersAssumption DEF Uids, NoUser
  <2> QED BY <2>1
<1>3. CurrentSlots = {} <=> current_user_id = NoUser
  BY <1>1, <1>2 DEF IInv, SessionValid, CurrentSlots
<1>4. \A j \in CurrentSlots : CurrentSlots = {j}
  BY <1>1 DEF CurrentSlots, IInv, AccountsDistinct
<1>5. \A j \in CurrentSlots : First(CurrentSlots) = j
  BY <1>1, <1>4, FirstSlot
<1>6. \A j \in CurrentSlots : Session = users[j].username /\ Session # Empty
  BY <1>1, <1>5 DEF Session, IInv, Named
<1> QED BY <1>3, <1>6 DEF Owned, Session

(* The shell's test for an admin is that of the accounts. *)
LEMMA AdminIsAdmin ==
  ASSUME IInv
  PROVE  is_admin <=> (Session # Empty /\ ByName[Session].admin)
<1>1. Owned /\ Looked
  BY Owner, Lookup
<1>2. CurrentSlots \subseteq Active /\ Active \subseteq Slots
  BY DEF CurrentSlots, Active
<1>3. CASE CurrentSlots = {}
  BY <1>1, <1>3 DEF is_admin, Owned
<1>4. CASE CurrentSlots # {}
  <2>1. PICK j \in CurrentSlots : j = First(CurrentSlots)
    BY <1>2, <1>4, FirstSlot
  <2>2. Session = users[j].username /\ j \in Active
    BY <1>1, <1>2, <2>1 DEF Owned
  <2>3. ByName[users[j].username] = [password |-> users[j].password,
                                     admin |-> users[j].is_admin]
    BY <1>1, <2>2 DEF Looked
  <2>4. ByName[users[j].username].admin = users[j].is_admin
    BY <2>3
  <2> QED BY <1>1, <1>4, <2>1, <2>2, <2>4 DEF is_admin, Owned
<1> QED BY <1>3, <1>4

(* A free slot is room for a name. *)
LEMMA KnownFits ==
  ASSUME Slots \ Active # {}
  PROVE  Cardinality(Known) < MAX_USERS
<1>1. IsFiniteSet(Slots) /\ Cardinality(Slots) = MAX_USERS
  BY UsersAssumption, FS_Interval, SMT DEF Slots
<1>2. Active \subseteq Slots /\ Active # Slots
  BY DEF Active
<1>3. /\ IsFiniteSet(Active) /\ Cardinality(Active) <= Cardinality(Slots)
      /\ Cardinality(Slots) = Cardinality(Active) => Slots = Active
  BY <1>1, <1>2, FS_Subset
<1> DEFINE f == [j \in Active |-> users[j].username]
<1>4. f \in Surjection(Active, Known)
  BY DEF Surjection, Known
<1>5. Cardinality(Known) <= Cardinality(Active) /\ IsFiniteSet(Known)
  BY <1>3, <1>4, FS_Surjection
<1>6. Cardinality(Known) \in Nat /\ Cardinality(Active) \in Nat
  BY <1>3, <1>5, FS_CardinalityType
<1> QED BY <1>1, <1>2, <1>3, <1>5, <1>6, UsersAssumption

(* The Cardinality that Accounts takes from its own FiniteSets. *)
LEMMA SameCardinality ==
  ASSUME NEW S PROVE Table!Cardinality(S) = Cardinality(S)
BY Zenon DEF Table!Cardinality, Cardinality

(* One slot gets a name, or keeps it, and the other slots stay.              *)
LEMMA EntryStored ==
  ASSUME IInv, IInv', NEW i \in Slots, NEW n,
         i \in Active', users'[i].username = n,
         \A j \in Slots \ {i} : users'[j] = users[j],
         (i \in Active /\ users[i].username = n) \/ (i \notin Active /\ n \notin Known)
  PROVE  ByName' = Table!With(n, users'[i].password, users'[i].is_admin)
<1>1. Looked /\ Looked'
  <2>1. IInv' => Looked'
    BY Lookup, PTL
  <2> QED BY <2>1, Lookup
<1>2. Active' = Active \cup {i} /\ Active \subseteq Slots
  BY DEF Active
<1>3. Known' = Known \cup {n}
  BY <1>2 DEF Known
<1>4. ByName'[n] = [password |-> users'[i].password, admin |-> users'[i].is_admin]
  BY <1>1 DEF Looked
<1>5. ASSUME NEW m \in Known', m # n PROVE ByName'[m] = ByName[m]
  <2>1. PICK j \in Active' : m = users'[j].username
    BY DEF Known
  <2>2. j # i /\ j \in Active
    BY <1>2, <1>5, <2>1
  <2>3. users'[j] = users[j]
    BY <1>2, <2>2
  <2>4. ByName'[users'[j].username] = [password |-> users'[j].password,
                                       admin |-> users'[j].is_admin]
    BY <1>1, <2>1 DEF Looked
  <2>5. ByName[users[j].username] = [password |-> users[j].password,
                                     admin |-> users[j].is_admin]
    BY <1>1, <2>2 DEF Looked
  <2> QED BY <2>1, <2>3, <2>4, <2>5
<1>6. ByName' = [m \in Known' |-> ByName'[m]]
  BY <1>1 DEF Looked
<1>7. DOMAIN ByName = Known
  BY <1>1 DEF Looked
<1> QED BY <1>3, <1>4, <1>5, <1>6, <1>7 DEF Table!With, Table!Known

(* The session stays while its slot keeps its name and uid. *)
LEMMA SessionKept ==
  ASSUME IInv, IInv', current_user_id' = current_user_id,
         \A j \in CurrentSlots : /\ j \in Active' /\ users'[j].username = users[j].username
                                 /\ users'[j].uid = users[j].uid
  PROVE  Session' = Session
<1>1. Owned /\ Owned'
  <2>1. IInv' => Owned'
    BY Owner, PTL
  <2> QED BY <2>1, Owner
<1>2. NoUser' = NoUser
  BY DEF NoUser
<1>3. CASE CurrentSlots = {}
  BY <1>1, <1>2, <1>3 DEF Owned
<1>4. CASE CurrentSlots # {}
  <2>1. PICK j \in CurrentSlots : TRUE
    BY <1>4
  <2>2. j \in CurrentSlots'
    BY <2>1 DEF CurrentSlots
  <2> QED BY <1>1, <2>1, <2>2 DEF Owned
<1> QED BY <1>3, <1>4

LEMMA TableInit == Init => Table!Init
<1> SUFFICES ASSUME Init PROVE Table!Init
  OBVIOUS
<1>1. IInv
  BY IInvInit
<1>2. Active = {} /\ Known = {} /\ CurrentSlots = {}
  BY <1>1 DEF Init, IInv, Known, CurrentSlots
<1>3. Session = Empty /\ DOMAIN ByName = Known
  BY <1>1, <1>2, Owner, Lookup DEF Owned, Looked
<1> QED BY <1>2, <1>3 DEF Table!Init, Table!Known, Session

LEMMA SetupIsTableStep ==
  ASSUME IInv, IInv', setup_root_user
  PROVE  Table!FirstBoot
<1>1. PICK pw \in Passwords :
        users' = [users EXCEPT ![0] = [username |-> Root, password |-> pw, is_active |-> TRUE,
                                       uid |-> 0, is_admin |-> TRUE]]
  BY DEF setup_root_user
<1>2. 0 \in Slots /\ DOMAIN users = Slots /\ Active = {} /\ Known = {}
  BY UsersAssumption DEF Slots, IInv, TypeOK, setup_root_user, Known
<1>3. /\ users'[0].username = Root /\ users'[0].password = pw /\ users'[0].is_admin = TRUE
      /\ 0 \in Active' /\ \A j \in Slots \ {0} : users'[j] = users[j]
  BY <1>1, <1>2 DEF Active
<1>4. ByName' = Table!With(Root, pw, TRUE)
  BY <1>2, <1>3, EntryStored
<1>5. Session' = Session
  <2>1. CurrentSlots = {} /\ current_user_id' = current_user_id
    BY <1>2 DEF CurrentSlots, setup_root_user, IInv
  <2> QED BY <2>1, SessionKept
<1>6. DOMAIN ByName = {}
  BY <1>2, Lookup DEF Looked
<1> QED BY <1>4, <1>5, <1>6 DEF Table!FirstBoot, Table!Known, Session

LEMMA LoginIsTableStep ==
  ASSUME IInv, IInv', NEW name, NEW pw, Login(name, pw)
  PROVE  Table!Login
<1>1. Found(name) \in SUBSET Slots /\ Found(name) # {}
  BY DEF Login, Found, Active
<1>2. PICK i \in Found(name) : i = First(Found(name))
  BY <1>1, FirstSlot
<1>3. /\ i \in Active /\ users[i].username = name
      /\ users' = users /\ current_user_id' = users[i].uid
  BY <1>2 DEF Found, Login
<1>4. i \in CurrentSlots'
  BY <1>3 DEF CurrentSlots, Active
<1>5. Owned'
  <2>1. IInv' => Owned'
    BY Owner, PTL
  <2> QED BY <2>1
<1>6. Session' = name
  BY <1>3, <1>4, <1>5 DEF Owned
<1>7. name \in DOMAIN ByName
  BY <1>3, Lookup DEF Looked, Known
<1>8. ByName' = ByName
  BY <1>3 DEF ByName, Slot, Found, First, Active
<1> QED BY <1>6, <1>7, <1>8 DEF Table!Login, Table!Known, Session

LEMMA LogoutIsTableStep ==
  ASSUME IInv, IInv', Logout
  PROVE  Table!Logout
<1>1. Owned'
  <2>1. IInv' => Owned'
    BY Owner, PTL
  <2> QED BY <2>1
<1>2. Session' = Empty
  BY <1>1 DEF Owned, Logout, NoUser
<1>3. ByName' = ByName
  BY DEF Logout, ByName, Slot, Found, First, Active
<1> QED BY <1>2, <1>3 DEF Table!Logout, Session

LEMMA AddIsTableStep ==
  ASSUME IInv, IInv', NEW name \in Names, NEW pw \in Passwords, NEW admin \in BOOLEAN,
         UserAdd(name, pw, admin)
  PROVE  Table!Add
<1>1. Slots \ Active \in SUBSET Slots /\ Slots \ Active # {}
  BY DEF UserAdd, user_create
<1>2. PICK i \in Slots \ Active : i = First(Slots \ Active)
  BY <1>1, FirstSlot
<1>3. /\ users' = [users EXCEPT ![i] = [username |-> name, password |-> pw,
                     is_active |-> TRUE, uid |-> next_uid, is_admin |-> admin]]
      /\ DOMAIN users = Slots
  BY <1>2 DEF UserAdd, user_create, IInv, TypeOK
<1>4. /\ users'[i].username = name /\ users'[i].password = pw /\ users'[i].is_admin = admin
      /\ i \in Active' /\ \A j \in Slots \ {i} : users'[j] = users[j]
  BY <1>2, <1>3 DEF Active
<1>5. name \notin Known
  BY DEF UserAdd, user_create, Found, Known
<1>6. ByName' = Table!With(name, pw, admin)
  BY <1>2, <1>4, <1>5, EntryStored
<1>7. Session' = Session
  <2>1. \A j \in CurrentSlots : j \in Slots \ {i} /\ users'[j] = users[j] /\ j \in Active
    BY <1>2, <1>4 DEF CurrentSlots, Active
  <2>2. \A j \in CurrentSlots : j \in Active'
    BY <2>1 DEF Active
  <2> QED BY <2>1, <2>2, SessionKept DEF UserAdd
<1>8. Cardinality(Known) < MAX_USERS /\ DOMAIN ByName = Known
  BY <1>1, KnownFits, Lookup DEF Looked
<1>9. Session # Empty /\ ByName[Session].admin
  BY AdminIsAdmin DEF UserAdd
<1> QED BY <1>5, <1>6, <1>7, <1>8, <1>9, SameCardinality
        DEF Table!Add, Table!Admin, Table!Known, Session

LEMMA RemoveIsTableStep ==
  ASSUME IInv, IInv', NEW name \in Names, UserDel(name)
  PROVE  Table!Remove
<1>1. Found(name) \in SUBSET Slots /\ Found(name) # {}
  BY DEF UserDel, user_delete, Found, Active
<1>2. PICK i \in Found(name) : i = First(Found(name))
  BY <1>1, FirstSlot
<1>3. /\ i \in Active /\ i \in Slots /\ users[i].username = name /\ DOMAIN users = Slots
      /\ users[i].uid # current_user_id /\ name # Root
      /\ users' = [users EXCEPT ![i].is_active = FALSE]
  BY <1>2 DEF Found, Active, UserDel, user_delete, IInv, TypeOK
<1>4. users[i] \in User
  BY <1>3 DEF IInv, TypeOK
<1>5. ~users'[i].is_active /\ \A j \in Slots \ {i} : users'[j] = users[j]
  BY <1>3, <1>4 DEF User
<1>6. Active' = Active \ {i}
  BY <1>3, <1>5 DEF Active
<1>7. \A j \in Active \ {i} : users'[j] = users[j] /\ users[j].username # name
  BY <1>3, <1>5 DEF IInv, AccountsDistinct, Active
<1>8. name \in Known /\ Known' = Known \ {name}
  BY <1>3, <1>6, <1>7 DEF Known
<1>9. Looked /\ Looked'
  <2>1. IInv' => Looked'
    BY Lookup, PTL
  <2> QED BY <2>1, Lookup
<1>10. ASSUME NEW m \in Known \ {name} PROVE ByName'[m] = ByName[m]
  <2>1. PICK j \in Active \ {i} : m = users[j].username
    BY <1>3 DEF Known
  <2>2. users'[j] = users[j] /\ j \in Active'
    BY <1>6, <1>7, <2>1
  <2>3. ByName'[users'[j].username] = [password |-> users'[j].password,
                                       admin |-> users'[j].is_admin]
    BY <1>9, <2>2 DEF Looked
  <2>4. ByName[users[j].username] = [password |-> users[j].password,
                                     admin |-> users[j].is_admin]
    BY <1>9, <2>1 DEF Looked
  <2> QED BY <2>1, <2>2, <2>3, <2>4
<1>11. ByName' = [m \in Known \ {name} |-> ByName[m]]
  <2>1. ByName' = [m \in Known' |-> ByName'[m]]
    BY <1>9 DEF Looked
  <2> QED BY <1>8, <1>10, <2>1
<1>12. \A j \in CurrentSlots : j \in Active \ {i}
  BY <1>3 DEF CurrentSlots
<1>13. Session' = Session
  BY <1>6, <1>7, <1>12, SessionKept DEF UserDel
<1>14. Session # Empty /\ ByName[Session].admin
  BY AdminIsAdmin DEF UserDel
<1>15. name # Session
  <2>1. Owned /\ CurrentSlots # {}
    BY <1>14, Owner DEF Owned
  <2> QED BY <1>7, <1>12, <2>1 DEF Owned
<1>16. DOMAIN ByName = Known
  BY <1>9 DEF Looked
<1> QED BY <1>3, <1>8, <1>11, <1>13, <1>14, <1>15, <1>16
        DEF Table!Remove, Table!Admin, Table!Known, Session

LEMMA PasswdIsTableStep ==
  ASSUME IInv, IInv', NEW name, NEW pw \in Passwords, user_passwd(name, pw),
         current_user_id' = current_user_id, is_admin \/ Session = name, Session # Empty
  PROVE  Table!ChangePassword
<1>1. Found(name) \in SUBSET Slots /\ Found(name) # {}
  BY DEF user_passwd, Found, Active
<1>2. PICK i \in Found(name) : i = First(Found(name))
  BY <1>1, FirstSlot
<1>3. /\ i \in Active /\ i \in Slots /\ users[i].username = name /\ DOMAIN users = Slots
      /\ users' = [users EXCEPT ![i].password = pw]
  BY <1>2 DEF Found, Active, user_passwd, IInv, TypeOK
<1>4. users[i] \in User
  BY <1>3 DEF IInv, TypeOK
<1>5. /\ users'[i].username = name /\ users'[i].password = pw
      /\ users'[i].is_admin = users[i].is_admin /\ users'[i].uid = users[i].uid
      /\ users'[i].is_active
      /\ \A j \in Slots \ {i} : users'[j] = users[j]
  BY <1>3, <1>4 DEF User, Active
<1>6. i \in Active' /\ Active' = Active
  BY <1>3, <1>5 DEF Active
<1>7. ByName' = Table!With(name, pw, users[i].is_admin)
  BY <1>3, <1>5, <1>6, EntryStored
<1>8. Looked
  BY Lookup
<1>9. ByName[name].admin = users[i].is_admin /\ name \in DOMAIN ByName
  <2>1. ByName[users[i].username] = [password |-> users[i].password,
                                     admin |-> users[i].is_admin]
    BY <1>3, <1>8 DEF Looked
  <2> QED BY <1>3, <1>8, <2>1 DEF Looked, Known
<1>10. Session' = Session
  <2>1. \A j \in CurrentSlots : j \in Active /\ j \in Slots
    BY DEF CurrentSlots, Active
  <2> QED BY <1>3, <1>5, <1>6, <2>1, SessionKept
<1>11. is_admin <=> (Session # Empty /\ ByName[Session].admin)
  BY AdminIsAdmin
<1> QED BY <1>7, <1>9, <1>10, <1>11 DEF Table!ChangePassword, Table!Admin, Table!Known, Session

LEMMA TableStep ==
  ASSUME IInv, IInv', [Next]_vars
  PROVE  [Table!Next]_Table!vars
<1>1. CASE setup_root_user
  BY <1>1, SetupIsTableStep DEF Table!Next
<1>2. CASE Logout
  BY <1>2, LogoutIsTableStep DEF Table!Next
<1>3. ASSUME NEW name \in Names, NEW pw \in Passwords, Login(name, pw) PROVE Table!Next
  BY <1>3, LoginIsTableStep DEF Table!Next
<1>4. ASSUME NEW name \in Names, NEW pw \in Passwords, NEW admin \in BOOLEAN,
             UserAdd(name, pw, admin)
      PROVE  Table!Next
  BY <1>4, AddIsTableStep DEF Table!Next
<1>5. ASSUME NEW name \in Names, UserDel(name) PROVE Table!Next
  BY <1>5, RemoveIsTableStep DEF Table!Next
<1>6. ASSUME NEW name \in Names, NEW pw \in Passwords, PasswdOther(name, pw)
      PROVE  Table!Next
  <2>1. Session # Empty
    BY <1>6, AdminIsAdmin DEF PasswdOther
  <2> QED BY <1>6, <2>1, PasswdIsTableStep DEF PasswdOther, Table!Next
<1>7. ASSUME NEW pw \in Passwords, PasswdOwn(pw) PROVE Table!Next
  <2>1. Session # Empty /\ Session = users[First(CurrentSlots)].username
    BY <1>7, Owner DEF PasswdOwn, Owned, Session
  <2> QED BY <1>7, <2>1, PasswdIsTableStep DEF PasswdOwn, Table!Next
<1>8. CASE UNCHANGED vars
  <2>1. ByName' = ByName
    BY <1>8 DEF vars, ByName, Slot, Found, First, Active
  <2>2. Session' = Session
    BY <1>8 DEF vars, Session, CurrentSlots, First, Active
  <2> QED BY <2>1, <2>2 DEF Table!vars, Session
<1> QED BY <1>1, <1>2, <1>3, <1>4, <1>5, <1>6, <1>7, <1>8 DEF Next

(* The user table of kernel/kernel.c, whose slots are reused and keep the    *)
(* names and uids of deleted accounts, behaves as a map from names to        *)
(* accounts, and the uid in the session as the name of who logged in: only   *)
(* an admin adds and removes accounts, never root or its own, and others     *)
(* change only their own password.                                           *)
THEOREM TableIsAccounts == Spec => IsAccounts
<1>1. Init => Table!Init
  BY TableInit
<1>2. IInv /\ IInv' /\ [Next]_vars => [Table!Next]_Table!vars
  BY TableStep
<1> QED BY <1>1, <1>2, Invariance, PTL DEF Spec, IsAccounts, Table!Spec

(* The table keeps its shape and no uid wraps around.                        *)
THEOREM TypeCorrect == Spec => []TypeOK
<1>1. IInv => TypeOK
  BY DEF IInv
<1> QED BY <1>1, Invariance, PTL
=============================================================================
