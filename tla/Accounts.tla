------------------------------ MODULE Accounts ------------------------------
(***************************************************************************)
(* What the user table of kernel/kernel.c promises: accounts that are told *)
(* apart by their names, at most Capacity of them, managed by admins, and  *)
(* one session that belongs to an existing account or to nobody.           *)
(***************************************************************************)
EXTENDS Integers, FiniteSets

CONSTANTS Names, Passwords, Capacity, Root, Nobody

VARIABLES accounts,     \* name -> [password, admin]
          session       \* the name logged in, or Nobody

vars == << accounts, session >>

Known == DOMAIN accounts
Admin == session # Nobody /\ accounts[session].admin
With(n, pw, adm) == [m \in Known \cup {n} |->
                       IF m = n THEN [password |-> pw, admin |-> adm] ELSE accounts[m]]

Init == Known = {} /\ session = Nobody

FirstBoot ==
  /\ Known = {} /\ \E pw \in Passwords : accounts' = With(Root, pw, TRUE)
  /\ UNCHANGED session

Login ==
  /\ session' \in Known /\ UNCHANGED accounts

Logout == session' = Nobody /\ UNCHANGED accounts

Add ==
  /\ Admin /\ Cardinality(Known) < Capacity
  /\ \E n \in Names \ Known, pw \in Passwords, adm \in BOOLEAN : accounts' = With(n, pw, adm)
  /\ UNCHANGED session

Remove ==
  /\ Admin
  /\ \E n \in Known \ {Root, session} : accounts' = [m \in Known \ {n} |-> accounts[m]]
  /\ UNCHANGED session

ChangePassword ==
  /\ session # Nobody
  /\ \E n \in Known, pw \in Passwords :
       /\ Admin \/ n = session
       /\ accounts' = With(n, pw, accounts[n].admin)
  /\ UNCHANGED session

Next == FirstBoot \/ Login \/ Logout \/ Add \/ Remove \/ ChangePassword

Spec == Init /\ [][Next]_vars
=============================================================================
