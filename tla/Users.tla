-------------------------------- MODULE Users -------------------------------
(***************************************************************************)
(* The user table and the session of kernel/kernel.c, with the shell's     *)
(* commands on them: login, logout, useradd, userdel, passwd.  Names and   *)
(* passwords fit their arrays.  A definition whose name extends the next   *)
(* one's is a mutation of it that a run must refute.                       *)
(***************************************************************************)
EXTENDS Integers, FiniteSets

CONSTANTS MAX_USERS,
          Names, Passwords,     \* the non-empty ones
          Empty, Root,          \* the empty string, "root"
          UID_VALUES,           \* how many values a uid has: 2^32
          MaxCreated            \* bound: accounts ever created by useradd

ASSUME UsersAssumption ==
  /\ MAX_USERS \in Nat \ {0}
  /\ Root \in Names /\ Empty \notin Names /\ Empty \notin Passwords
  /\ UID_VALUES \in Nat /\ MaxCreated \in Nat
  /\ MaxCreated + 2 <= UID_VALUES

Slots == 0..(MAX_USERS - 1)
Uids  == 0..(UID_VALUES - 1)
NoUser == UID_VALUES - 1            \* (u32)-1

VARIABLES users,                    \* the table, slot by slot
          current_user_id, next_uid,
          booted                    \* kernel_main has run setup_root_user

vars == << users, current_user_id, next_uid, booted >>

User == [username : Names \cup {Empty}, password : Passwords \cup {Empty},
         is_active : BOOLEAN, uid : Uids, is_admin : BOOLEAN]

(* user_init *)
Init ==
  /\ users = [i \in Slots |-> [username |-> Empty, password |-> Empty,
                               is_active |-> FALSE, uid |-> 0, is_admin |-> FALSE]]
  /\ current_user_id = NoUser /\ next_uid = 1
  /\ booted = FALSE

Active == {i \in Slots : users[i].is_active}
Found(name) == {i \in Active : users[i].username = name}
First(S) == CHOOSE i \in S : \A j \in S : i <= j

(* The active slot of the session's uid. *)
CurrentSlots == {i \in Active : users[i].uid = current_user_id}

is_admin ==
  /\ current_user_id # NoUser /\ CurrentSlots # {}
  /\ users[First(CurrentSlots)].is_admin

(* First boot: the root account takes slot 0. *)
setup_root_user ==
  /\ ~booted /\ booted' = TRUE
  /\ \E pw \in Passwords :
       users' = [users EXCEPT ![0] = [username |-> Root, password |-> pw, is_active |-> TRUE,
                                      uid |-> 0, is_admin |-> TRUE]]
  /\ current_user_id' = NoUser
  /\ UNCHANGED next_uid

Login(name, pw) ==
  /\ booted /\ Found(name) # {}
  /\ users[First(Found(name))].password = pw
  /\ current_user_id' = users[First(Found(name))].uid
  /\ UNCHANGED << users, next_uid, booted >>

Logout ==
  /\ booted
  /\ current_user_id' = NoUser
  /\ UNCHANGED << users, next_uid, booted >>

UserCreateNoDuplicateTest(name, pw, admin) ==
  LET free == Slots \ Active
  IN  /\ free # {} /\ next_uid <= MaxCreated
      /\ users' = [users EXCEPT ![First(free)] = [username |-> name, password |-> pw,
                     is_active |-> TRUE, uid |-> next_uid, is_admin |-> admin]]
      /\ next_uid' = (next_uid + 1) % UID_VALUES

user_create(name, pw, admin) ==
  LET free == Slots \ Active
  IN  /\ Found(name) = {} /\ free # {} /\ next_uid <= MaxCreated
      /\ users' = [users EXCEPT ![First(free)] = [username |-> name, password |-> pw,
                     is_active |-> TRUE, uid |-> next_uid, is_admin |-> admin]]
      /\ next_uid' = (next_uid + 1) % UID_VALUES

UserAdd(name, pw, admin) ==
  /\ booted /\ is_admin
  /\ user_create(name, pw, admin)
  /\ UNCHANGED << current_user_id, booted >>

UserDeleteRoot(name) ==
  /\ Found(name) # {}
  /\ users[First(Found(name))].uid # current_user_id
  /\ users' = [users EXCEPT ![First(Found(name))].is_active = FALSE]

UserDeleteCurrent(name) ==
  /\ name # Root /\ Found(name) # {}
  /\ users' = [users EXCEPT ![First(Found(name))].is_active = FALSE]

user_delete(name) ==
  /\ name # Root /\ Found(name) # {}
  /\ users[First(Found(name))].uid # current_user_id
  /\ users' = [users EXCEPT ![First(Found(name))].is_active = FALSE]

UserDel(name) ==
  /\ booted /\ is_admin
  /\ user_delete(name)
  /\ UNCHANGED << current_user_id, next_uid, booted >>

user_passwd(name, pw) ==
  /\ Found(name) # {}
  /\ users' = [users EXCEPT ![First(Found(name))].password = pw]

(* passwd <name> <password>: whose password an admin changes. *)
PasswdOther(name, pw) ==
  /\ booted /\ is_admin
  /\ user_passwd(name, pw)
  /\ UNCHANGED << current_user_id, next_uid, booted >>

(* passwd <password> by anyone else: the account of the session. *)
PasswdOwn(pw) ==
  /\ booted /\ ~is_admin /\ CurrentSlots # {}
  /\ user_passwd(users[First(CurrentSlots)].username, pw)
  /\ UNCHANGED << current_user_id, next_uid, booted >>

Next ==
  \/ setup_root_user
  \/ Logout
  \/ \E name \in Names, pw \in Passwords :
       \/ Login(name, pw)
       \/ \E admin \in BOOLEAN : UserAdd(name, pw, admin)
       \/ PasswdOther(name, pw)
  \/ \E name \in Names : UserDel(name)
  \/ \E pw \in Passwords : PasswdOwn(pw)

Spec == Init /\ [][Next]_vars

-----------------------------------------------------------------------------
(* Properties *)

(* The table holds what its C types say, and no uid has wrapped around.      *)
TypeOK ==
  /\ users \in [Slots -> User]
  /\ current_user_id \in Uids
  /\ next_uid \in 1..(MaxCreated + 1)
  /\ booted \in BOOLEAN

(* Two active accounts differ in name and uid, although slots are reused and *)
(* keep the names and uids of deleted accounts; every uid in the table was   *)
(* handed out.                                                               *)
AccountsDistinct ==
  /\ \A i, j \in Active : i # j => /\ users[i].username # users[j].username
                                   /\ users[i].uid # users[j].uid
  /\ \A i \in Slots : users[i].uid < next_uid

(* From first boot on there is an admin who can be logged in: root, slot 0.  *)
RootStays ==
  booted => /\ users[0].is_active /\ users[0].username = Root
            /\ users[0].uid = 0 /\ users[0].is_admin

(* The session is nobody's, or that of an account that still exists.         *)
SessionValid == current_user_id = NoUser \/ CurrentSlots # {}

-----------------------------------------------------------------------------
(* The table as accounts by name. *)

Slot(name) == First(Found(name))
ByName == [n \in {users[i].username : i \in Active} |->
             [password |-> users[Slot(n)].password, admin |-> users[Slot(n)].is_admin]]

Table == INSTANCE Accounts WITH
           Capacity <- MAX_USERS, Nobody <- Empty,
           accounts <- ByName,
           session <- IF CurrentSlots = {} THEN Empty ELSE users[First(CurrentSlots)].username

(* The table of reused slots behaves as a map from names to accounts.        *)
IsAccounts == Table!Spec
=============================================================================
