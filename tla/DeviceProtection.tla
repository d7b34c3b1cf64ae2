-------------------------- MODULE DeviceProtection --------------------------
(***************************************************************************)
(* The DeviceProtection service: user records and the ACL, which dp.tsv    *)
(* keeps, and one session per address of a control point, which only the   *)
(* memory keeps.  A control point asks for a challenge, answers it with an *)
(* authenticator over a password and an identity of the ACL, and from then *)
(* on holds the roles that user and that identity have now.  Every handler *)
(* takes the state's lock once, so a handler is one action.                *)
(***************************************************************************)
EXTENDS Naturals

CONSTANTS
  Callers,     \* addresses of control points
  Names,       \* user names and identity names
  Secrets,     \* STORED values: what a password and a salt amount to
  Nobody,      \* no name, no record, no session
  Books,       \* the configurations dp.tsv can hold at the first boot
  FailureLimit,  \* DP_LOGIN_FAILURE_LIMIT
  Ttl,         \* DP_SESSION_TTL_SECS in ticks of this clock
  RoleLists,   \* the RoleLists a request can carry
  Budgets,     \* bounds of a behaviour: who logs in, how many changes, who asks
               \* for mappings and how often
  SaveCanFail  \* whether the write of dp.tsv can fail

Roles == {"Basic", "Admin"}
User == [stored: Secrets, roles: SUBSET Roles]
Identity == [cp: BOOLEAN, roles: SUBSET Roles]
Book == [users: [Names -> User \cup {Nobody}], acl: [Names -> Identity \cup {Nobody}]]
Session == [pending: Names \cup {Nobody}, user: Names \cup {Nobody},
            cp: Names \cup {Nobody}, failures: 0 .. FailureLimit - 1, idle: 0 .. Ttl + 1]

ASSUME BookAssumption == Books \subseteq Book
ASSUME NobodyAssumption == Nobody \notin Names \cup User \cup Identity \cup Session
ASSUME LimitAssumption == FailureLimit \in Nat \ {0} /\ Ttl \in Nat
ASSUME RoleListAssumption == RoleLists \subseteq SUBSET Roles
Budget == [speakers: SUBSET Callers, changes: Nat, askers: SUBSET Callers, requests: Nat]
ASSUME BudgetAssumption == Budgets \subseteq Budget
ASSUME SaveAssumption == SaveCanFail \in BOOLEAN

VARIABLES
  book,     \* DpState.users and DpState.acl
  session,  \* DpState.sessions; idle is now - last_seen, up to Ttl + 1
  disk,     \* dp.tsv
  stale,    \* history: the last write of dp.tsv failed
  quiet,    \* history: ticks since the caller's last request, up to Ttl + 1
  budget    \* what is left of the bounds

dpVars == <<book, session, disk, stale, quiet, budget>>

Fresh == [pending |-> Nobody, user |-> Nobody, cp |-> Nobody, failures |-> 0, idle |-> 0]

DpInit == /\ book \in Books
          /\ session = [c \in Callers |-> Nobody]
          /\ disk = book
          /\ stale = FALSE
          /\ quiet = [c \in Callers |-> 0]
          /\ budget \in Budgets

-----------------------------------------------------------------------------
(* A higher role satisfies a requirement for a lower one. *)
Level(r) == IF r = "Admin" THEN 1 ELSE 0
Authorize(held, needed) == \E r \in held : Level(r) >= Level(needed)

UserRoles(n) ==
  IF n # Nobody /\ book.users[n] # Nobody THEN book.users[n].roles ELSE {}

IdentityRoles(n) ==
  IF n # Nobody /\ book.acl[n] # Nobody /\ book.acl[n].cp THEN book.acl[n].roles ELSE {}

(* Fault: the idle ceiling is forgotten. *)
LiveForEver(c) == session[c] # Nobody /\ session[c].user # Nobody

(* Somebody is logged in at this address and has not been idle for too long. *)
Live(c) == /\ session[c] # Nobody
           /\ session[c].user # Nobody
           /\ session[c].idle <= Ttl

(* The roles are read from the book, not from the login. *)
SessionRoles(c) ==
  IF Live(c) THEN UserRoles(session[c].user) \cup IdentityRoles(session[c].cp) ELSE {}

Enforced(c, needed) == Authorize(SessionRoles(c), needed)

Heard(c) == quiet' = [quiet EXCEPT ![c] = 0]

-----------------------------------------------------------------------------
(* GetUserLoginChallenge: the new challenge replaces the one before; who   *)
(* is logged in stays logged in.                                           *)
GetUserLoginChallenge(c, n) ==
  /\ book.users[n] # Nobody
  /\ LET s == IF session[c] = Nobody THEN Fresh ELSE session[c]
     IN session' = [session EXCEPT ![c] =
                      [s EXCEPT !.pending = n, !.failures = 0, !.idle = 0]]
  /\ Heard(c)
  /\ UNCHANGED <<book, disk, stale, budget>>

(* The authenticator is a MAC under the user's STORED over this challenge  *)
(* and the binary id of an identity: proof names the two it was made with. *)
Verified(n, proof) ==
  /\ book.users[n].stored = proof.stored
  /\ book.acl[proof.cp] # Nobody /\ book.acl[proof.cp].cp

Proof == [stored: Secrets, cp: Names]

(* UserLogin without a pending challenge, or with a challenge that is not  *)
(* the pending one: only the stamp moves.                                  *)
LoginStray(c) ==
  /\ session[c] # Nobody
  /\ session' = [session EXCEPT ![c].idle = 0]
  /\ Heard(c)
  /\ UNCHANGED <<book, disk, stale, budget>>

Attempt(c) == session[c] # Nobody /\ session[c].pending # Nobody

(* UserLogin with an authenticator that verifies.  The challenge stays.  The *)
(* branches for a challenge at the failure limit and for a user without a    *)
(* record are dead: SessionInv rules them out.                               *)
LoginPasses(c, proof) ==
  /\ Attempt(c)
  /\ Verified(session[c].pending, proof)
  /\ session' = [session EXCEPT ![c] =
                   [@ EXCEPT !.user = session[c].pending, !.cp = proof.cp,
                             !.failures = 0, !.idle = 0]]
  /\ Heard(c)
  /\ UNCHANGED <<book, disk, stale, budget>>

(* Fault: a challenge is never freed. *)
FailedOnce(s) == [s EXCEPT !.failures = @ + 1, !.idle = 0]

(* UserLogin with another authenticator: one more failure, and the         *)
(* challenge is freed at the limit.                                        *)
Failed(s) == IF s.failures + 1 >= FailureLimit
               THEN [s EXCEPT !.pending = Nobody, !.failures = 0, !.idle = 0]
               ELSE [s EXCEPT !.failures = @ + 1, !.idle = 0]

LoginFails(c, proof) ==
  /\ Attempt(c)
  /\ ~Verified(session[c].pending, proof)
  /\ session' = [session EXCEPT ![c] = Failed(@)]
  /\ Heard(c)
  /\ UNCHANGED <<book, disk, stale, budget>>

UserLogin(c) == LoginStray(c) \/ \E proof \in Proof : LoginPasses(c, proof) \/ LoginFails(c, proof)

UserLogout(c) ==
  /\ session' = [session EXCEPT ![c] = Fresh]
  /\ Heard(c)
  /\ UNCHANGED <<book, disk, stale, budget>>

(* Any request that is answered with an error or only reads. *)
Refused(c) == Heard(c) /\ UNCHANGED <<book, session, disk, stale, budget>>

-----------------------------------------------------------------------------
(* dp_save writes the whole book; a failure is not reported. *)
Save == \/ disk' = book' /\ stale' = FALSE
        \/ SaveCanFail /\ disk' = disk /\ stale' = TRUE

Change(c, b) ==
  /\ budget.changes > 0 /\ budget' = [budget EXCEPT !.changes = @ - 1]
  /\ book' = b
  /\ Save
  /\ Heard(c)
  /\ UNCHANGED session

(* An identity added by a control point has no binary id and no role. *)
AddIdentityList(c, n) ==
  /\ Enforced(c, "Admin")
  /\ Change(c, IF book.acl[n] # Nobody THEN book
               ELSE [book EXCEPT !.acl[n] = [cp |-> FALSE, roles |-> {}]])

(* The user record of that name and the sessions stay. *)
RemoveIdentity(c, n) ==
  /\ Enforced(c, "Admin")
  /\ book.acl[n] # Nobody
  /\ Change(c, [book EXCEPT !.acl[n] = Nobody])

(* A record is created for the name of an identity, or for any name while  *)
(* some identity has a binary id.                                          *)
Recordable(n) == \/ book.acl[n] # Nobody
                 \/ \E k \in Names : book.acl[k] # Nobody /\ book.acl[k].cp

SetUserLoginPassword(c, n, s) ==
  /\ (Live(c) /\ session[c].user = n) \/ Enforced(c, "Admin")
  /\ \/ /\ book.users[n] # Nobody
        /\ Change(c, [book EXCEPT !.users[n].stored = s])
     \/ /\ book.users[n] = Nobody
        /\ Recordable(n)
        /\ Change(c, [book EXCEPT !.users[n] = [stored |-> s, roles |-> {}]])

(* A user record of the name takes precedence over the identity. *)
WithRoles(n, rs) ==
  IF book.users[n] # Nobody
    THEN [book EXCEPT !.users[n].roles = rs]
    ELSE [book EXCEPT !.acl[n].roles = rs]

RolesNow(n) == IF book.users[n] # Nobody THEN book.users[n].roles ELSE book.acl[n].roles

Named(n) == book.users[n] # Nobody \/ book.acl[n] # Nobody

AddRolesForIdentity(c, n, rs) ==
  /\ Enforced(c, "Admin") /\ Named(n)
  /\ Change(c, WithRoles(n, RolesNow(n) \cup rs))

RemoveRolesForIdentity(c, n, rs) ==
  /\ Enforced(c, "Admin") /\ Named(n)
  /\ Change(c, WithRoles(n, RolesNow(n) \ rs))

-----------------------------------------------------------------------------
(* A later, authorized request of this address keeps the session alive. *)
Touch(c) ==
  session' = IF session[c] = Nobody THEN session ELSE [session EXCEPT ![c].idle = 0]

Older(t) == IF t > Ttl THEN t ELSE t + 1

Tick ==
  /\ session' = [c \in Callers |-> IF session[c] = Nobody THEN Nobody
                                   ELSE [session[c] EXCEPT !.idle = Older(@)]]
  /\ quiet' = [c \in Callers |-> Older(quiet[c])]
  /\ UNCHANGED <<book, disk, stale, budget>>

(* Fault: the sessions outlive the restart, the book does not. *)
RestartKeepsSessions == book' = disk /\ stale' = FALSE /\ UNCHANGED <<session, disk, quiet, budget>>

(* Stop and start: the book is read from dp.tsv, the sessions are gone. *)
Restart ==
  /\ book' = disk
  /\ session' = [c \in Callers |-> Nobody]
  /\ stale' = FALSE
  /\ UNCHANGED <<disk, quiet, budget>>

Login(c) == \/ \E n \in Names : GetUserLoginChallenge(c, n)
            \/ UserLogin(c)
            \/ UserLogout(c)

Administer(c) ==
  \E n \in Names :
    \/ AddIdentityList(c, n)
    \/ RemoveIdentity(c, n)
    \/ \E s \in Secrets : SetUserLoginPassword(c, n, s)
    \/ \E rs \in RoleLists : AddRolesForIdentity(c, n, rs) \/ RemoveRolesForIdentity(c, n, rs)

Speak(c) == Login(c) \/ Administer(c) \/ Refused(c)

DpNext == \/ \E c \in budget.speakers : Speak(c)
          \/ Tick
          \/ Restart

DpSpec == DpInit /\ [][DpNext]_dpVars

-----------------------------------------------------------------------------
TypeOK == /\ book \in Book /\ disk \in Book
          /\ session \in [Callers -> Session \cup {Nobody}]
          /\ stale \in BOOLEAN
          /\ quiet \in [Callers -> Nat]
          /\ budget \in Budget

(* A pending challenge and a login are for names that have a record.  With *)
(* the bound on failures in TypeOK it makes two branches of login (dp.rs)  *)
(* dead: the one for a challenge at the failure limit and the one for a    *)
(* name without a record.                                                  *)
SessionInv ==
  \A c \in Callers : session[c] # Nobody =>
    \A n \in {session[c].pending, session[c].user} : n # Nobody => book.users[n] # Nobody

(* A caller that sent nothing for longer than the idle ceiling holds no    *)
(* role, whatever the other callers and the administrators do meanwhile.   *)
IdleHoldsNothing == \A c \in Callers : quiet[c] > Ttl => SessionRoles(c) = {}

(* Only somebody signed in who holds Admin changes the book, or the own    *)
(* password; every change is written, and a restart forgets every login    *)
(* and keeps the book: the abstract access rule.                           *)
Abstract == INSTANCE Access WITH
  who <- [c \in Callers |-> IF session[c] = Nobody THEN [user |-> Nobody, cp |-> Nobody]
                            ELSE [user |-> session[c].user, cp |-> session[c].cp]],
  saved <- disk,
  lost <- stale
AccessRule == Abstract!Spec
=============================================================================
