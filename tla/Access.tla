------------------------------- MODULE Access -------------------------------
(***************************************************************************)
(* What device protection promises, without its sessions, challenges and   *)
(* stamps: the book of passwords and roles changes at the hand of somebody *)
(* who is signed in and holds Admin, or changes the own password; a        *)
(* restart signs everybody out and keeps what was saved.                   *)
(***************************************************************************)
CONSTANTS
  Callers,  \* addresses of control points
  Names,    \* user names and identity names
  Secrets,  \* what a password amounts to
  Nobody    \* no name, no record

VARIABLES
  who,      \* for each caller the user name and the identity it signed in with
  book,     \* [users, acl]: who has which password and which roles
  saved,    \* the book on disk
  lost      \* whether the last write failed

vars == <<who, book, saved, lost>>

SignedOut == [user |-> Nobody, cp |-> Nobody]

RolesOfUser(n) ==
  IF n # Nobody /\ book.users[n] # Nobody THEN book.users[n].roles ELSE {}

RolesOfCp(n) ==
  IF n # Nobody /\ book.acl[n] # Nobody /\ book.acl[n].cp THEN book.acl[n].roles ELSE {}

IsAdmin(c) ==
  /\ who[c].user # Nobody
  /\ "Admin" \in RolesOfUser(who[c].user) \cup RolesOfCp(who[c].cp)

Init == /\ who = [c \in Callers |-> SignedOut]
        /\ saved = book
        /\ lost = FALSE

(* Both the user and the identity a caller signs in with are in the book. *)
SignIn(c) ==
  /\ \E n, k \in Names :
       /\ book.users[n] # Nobody
       /\ book.acl[k] # Nobody /\ book.acl[k].cp
       /\ who' = [who EXCEPT ![c] = [user |-> n, cp |-> k]]
  /\ UNCHANGED <<book, saved, lost>>

SignOut(c) ==
  /\ who' = [who EXCEPT ![c] = SignedOut]
  /\ UNCHANGED <<book, saved, lost>>

(* Whatever the book becomes is written; only a failing write is lost. *)
Written == \/ saved' = book' /\ lost' = FALSE
           \/ saved' = saved /\ lost' = TRUE

ByAdmin(c) == IsAdmin(c) /\ Written /\ UNCHANGED who

OwnPassword(c) ==
  LET n == who[c].user
  IN /\ n # Nobody /\ book.users[n] # Nobody
     /\ \E s \in Secrets : book' = [book EXCEPT !.users[n].stored = s]
     /\ Written
     /\ UNCHANGED who

Restart ==
  /\ who' = [c \in Callers |-> SignedOut]
  /\ book' = saved
  /\ lost' = FALSE
  /\ UNCHANGED saved

Next == \/ \E c \in Callers : SignIn(c) \/ SignOut(c) \/ ByAdmin(c) \/ OwnPassword(c)
        \/ Restart

Spec == Init /\ [][Next]_vars
=============================================================================
