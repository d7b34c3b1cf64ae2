---------------------------- MODULE ControlProofs ----------------------------
(***************************************************************************)
(* Device protection implements its access rule, for every set of callers, *)
(* names, stored values and books, any failure limit and idle ceiling, and *)
(* beside any number of requests for mappings.                             *)
(***************************************************************************)
EXTENDS Control, TLAPS

(* A session is never less idle than its caller is quiet. *)
IdleInv == \A c \in Callers :
             /\ quiet[c] \in 0 .. Ttl + 1
             /\ session[c] # Nobody => session[c].idle >= quiet[c]

DpInv == TypeOK /\ SessionInv /\ IdleInv

(* The part of a gated request that device protection sees. *)
GateStep(c) == /\ session' = session \/ Touch(c)
               /\ Heard(c)
               /\ budget.requests > 0 /\ budget' = [budget EXCEPT !.requests = @ - 1]
               /\ UNCHANGED <<book, disk, stale>>

(* Every step of the composition is one of device protection, or the gate's. *)
DpStep == \/ \E c \in Callers : Speak(c) \/ GateStep(c)
          \/ Tick
          \/ Restart
          \/ UNCHANGED dpVars

LEMMA StepsAreSteps == TypeOK /\ [Next]_vars => DpStep
<1> SUFFICES ASSUME TypeOK, [Next]_vars PROVE DpStep
  OBVIOUS
<1> budget.speakers \subseteq Callers /\ budget.askers \subseteq Callers
  BY DEF TypeOK, Budget
<1>1. CASE UNCHANGED vars
  BY <1>1 DEF vars, DpStep
<1>2. CASE \E c \in budget.speakers : Speak(c)
  BY <1>2 DEF DpStep
<1>3. CASE Tick \/ Reboot
  BY <1>3 DEF DpStep, Reboot
<1>4. ASSUME NEW w \in Conns, Serve(w) PROVE DpStep
  <2>1. ASSUME NEW c \in budget.askers, NEW op, NEW v2, Gate(w, c, op, v2) PROVE DpStep
    BY <2>1 DEF Gate, GateStep, DpStep
  <2>2. CASE View(w) \/ Read(w) \/ End(w)
    BY <2>2 DEF View, Read, End, DpStep
  <2>3. CASE Admit(w) \/ Grant(w)
    BY <2>3 DEF Admit, Grant, DpStep
  <2>4. CASE AskDelete(w) \/ AskRange(w) \/ Judge(w) \/ Retain(w)
    BY <2>4 DEF AskDelete, AskRange, Judge, Retain, DpStep
  <2> QED BY <1>4, <2>1, <2>2, <2>3, <2>4 DEF Serve
<1> QED BY <1>1, <1>2, <1>3, <1>4 DEF Next

-----------------------------------------------------------------------------
(* The stamps and the login of a session.                                  *)

LEMMA FreshIsSession == Fresh \in Session /\ Fresh # Nobody
BY NobodyAssumption, LimitAssumption DEF Fresh, Session

(* The rewritings the handlers make of a session.                          *)
LEMMA Rewritten ==
  ASSUME NEW s \in Session, NEW n \in Names, NEW k \in Names
  PROVE  /\ [s EXCEPT !.pending = n, !.failures = 0, !.idle = 0] \in Session
         /\ [s EXCEPT !.user = n, !.cp = k, !.failures = 0, !.idle = 0] \in Session
         /\ Failed(s) \in Session
         /\ Failed(s).pending \in {s.pending, Nobody}
         /\ Failed(s).user = s.user /\ Failed(s).cp = s.cp
<1>1. 0 \in 0 .. FailureLimit - 1 /\ 0 \in 0 .. Ttl + 1
  BY LimitAssumption
<1>2. CASE s.failures + 1 >= FailureLimit
  BY <1>1, <1>2 DEF Session, Failed
<1>3. CASE ~(s.failures + 1 >= FailureLimit)
  <2>1. s.failures + 1 \in 0 .. FailureLimit - 1
    BY <1>3, LimitAssumption DEF Session
  <2> QED BY <1>1, <1>3, <2>1 DEF Session, Failed
<1> QED BY <1>2, <1>3

LEMMA InitInv == Init => DpInv
<1> SUFFICES ASSUME Init PROVE DpInv
  OBVIOUS
<1>1. TypeOK
  BY BookAssumption, BudgetAssumption DEF Init, DpInit, TypeOK
<1>2. SessionInv
  BY DEF Init, DpInit, SessionInv
<1>3. IdleInv
  <2>1. 0 \in 0 .. Ttl + 1
    BY LimitAssumption
  <2> QED BY <2>1 DEF Init, DpInit, IdleInv
<1> QED BY <1>1, <1>2, <1>3 DEF DpInv

(* What a handler may make of the session of one caller.                   *)
OneSession(c, s) ==
  /\ s \in Session
  /\ s.pending = Nobody \/ book.users[s.pending] # Nobody
  /\ s.user = Nobody \/ book.users[s.user] # Nobody
  /\ session' = [session EXCEPT ![c] = s]
  /\ Heard(c)
  /\ UNCHANGED <<book, disk, stale>>
  /\ budget' \in Budget

LEMMA OneSessionKeeps ==
  ASSUME DpInv, NEW c \in Callers, NEW s, OneSession(c, s)
  PROVE  DpInv'
<1> s \in Session /\ s # Nobody
  BY NobodyAssumption DEF OneSession
<1>1. TypeOK'
  BY DEF DpInv, TypeOK, OneSession, Heard
<1>2. SessionInv'
  BY DEF DpInv, TypeOK, SessionInv, OneSession
<1>3. IdleInv'
  BY LimitAssumption DEF DpInv, TypeOK, IdleInv, OneSession, Heard, Session
<1> QED BY <1>1, <1>2, <1>3 DEF DpInv

(* A request that leaves the sessions alone.                               *)
LEMMA HeardKeeps ==
  ASSUME DpInv, NEW c \in Callers, Heard(c), UNCHANGED session,
         book' \in Book, disk' \in Book, stale' \in BOOLEAN, budget' \in Budget,
         \A n \in Names : book.users[n] # Nobody => book'.users[n] # Nobody
  PROVE  DpInv'
<1>1. TypeOK'
  BY DEF DpInv, TypeOK, Heard
<1>2. SessionInv'
  BY DEF DpInv, TypeOK, SessionInv, Session
<1>3. IdleInv'
  <2> SUFFICES ASSUME NEW d \in Callers
               PROVE  quiet'[d] \in 0 .. Ttl + 1
                      /\ (session'[d] # Nobody => session'[d].idle >= quiet'[d])
    BY DEF IdleInv
  <2>1. session[d] # Nobody => session[d].idle \in Nat
    BY LimitAssumption DEF DpInv, TypeOK, Session
  <2>2. quiet'[d] = IF d = c THEN 0 ELSE quiet[d]
    BY DEF DpInv, TypeOK, Heard
  <2> QED BY <2>1, <2>2, LimitAssumption DEF DpInv, IdleInv
<1> QED BY <1>1, <1>2, <1>3 DEF DpInv

-----------------------------------------------------------------------------
(* Logging in.                                                             *)

LEMMA LoginIsOneSession ==
  ASSUME DpInv, NEW c \in Callers, Login(c)
  PROVE  DpInv'
<1> USE LimitAssumption, NobodyAssumption
<1>1. session[c] \in Session \cup {Nobody} /\ budget \in Budget
  BY DEF DpInv, TypeOK
<1>2. session[c] # Nobody =>
        /\ session[c].pending = Nobody \/ book.users[session[c].pending] # Nobody
        /\ session[c].user = Nobody \/ book.users[session[c].user] # Nobody
  BY DEF DpInv, SessionInv
<1>3. ASSUME NEW n \in Names, GetUserLoginChallenge(c, n) PROVE DpInv'
  <2> DEFINE s == IF session[c] = Nobody THEN Fresh ELSE session[c]
             t == [s EXCEPT !.pending = n, !.failures = 0, !.idle = 0]
  <2>1. s \in Session /\ (s.user = Nobody \/ book.users[s.user] # Nobody)
    BY <1>1, <1>2, FreshIsSession DEF Fresh
  <2>2. t \in Session /\ t.pending = n /\ t.user = s.user
    <3> HIDE DEF s
    <3>1. t \in Session
      BY <2>1, Rewritten
    <3> QED BY <2>1, <3>1 DEF Session
  <2>3. OneSession(c, t)
    BY <1>1, <1>3, <2>1, <2>2 DEF GetUserLoginChallenge, OneSession
  <2> QED BY <2>3, OneSessionKeeps
<1>4. CASE LoginStray(c)
  <2> DEFINE t == [session[c] EXCEPT !.idle = 0]
  <2>1. session[c] \in Session /\ session[c] # Nobody
    BY <1>1, <1>4 DEF LoginStray
  <2>2. t \in Session /\ t.pending = session[c].pending /\ t.user = session[c].user
    BY <2>1 DEF Session
  <2>3. session' = [session EXCEPT ![c] = t]
    BY <1>4 DEF LoginStray
  <2>4. OneSession(c, t)
    BY <1>1, <1>2, <1>4, <2>1, <2>2, <2>3 DEF LoginStray, OneSession
  <2> QED BY <2>4, OneSessionKeeps
<1>5. ASSUME NEW p \in Proof, LoginPasses(c, p) PROVE DpInv'
  <2> DEFINE t == [session[c] EXCEPT !.user = session[c].pending, !.cp = p.cp,
                                     !.failures = 0, !.idle = 0]
  <2>1. session[c] \in Session /\ session[c] # Nobody /\ session[c].pending # Nobody
    BY <1>1, <1>5 DEF LoginPasses, Attempt
  <2>2. t \in Session /\ t.pending = session[c].pending /\ t.user = session[c].pending
    BY <2>1, Rewritten DEF Session, Proof
  <2>3. session' = [session EXCEPT ![c] = t]
    BY <1>5 DEF LoginPasses
  <2>4. OneSession(c, t)
    BY <1>1, <1>2, <1>5, <2>1, <2>2, <2>3 DEF LoginPasses, OneSession
  <2> QED BY <2>4, OneSessionKeeps
<1>6. ASSUME NEW p \in Proof, LoginFails(c, p) PROVE DpInv'
  <2> DEFINE t == Failed(session[c])
  <2>1. session[c] \in Session /\ session[c] # Nobody /\ session[c].pending \in Names
    BY <1>1, <1>6 DEF LoginFails, Attempt, Session
  <2>2. t \in Session /\ t.pending \in {session[c].pending, Nobody} /\ t.user = session[c].user
    BY <2>1, Rewritten
  <2>3. session' = [session EXCEPT ![c] = t]
    BY <1>6 DEF LoginFails
  <2>4. OneSession(c, t)
    BY <1>1, <1>2, <1>6, <2>1, <2>2, <2>3 DEF LoginFails, OneSession
  <2> QED BY <2>4, OneSessionKeeps
<1>7. CASE UserLogout(c)
  <2>1. OneSession(c, Fresh)
    BY <1>1, <1>7, FreshIsSession DEF UserLogout, OneSession, Fresh
  <2> QED BY <2>1, OneSessionKeeps
<1> QED BY <1>3, <1>4, <1>5, <1>6, <1>7 DEF Login, UserLogin

-----------------------------------------------------------------------------
(* The administrative actions.                                             *)

(* No change takes a user record away; what it writes is a book.           *)
Successor(b) == /\ b \in Book
                /\ \A n \in Names : book.users[n] # Nobody => b.users[n] # Nobody

LEMMA ChangeKeeps ==
  ASSUME DpInv, NEW c \in Callers, NEW b, Successor(b), Change(c, b)
  PROVE  DpInv'
<1>1. book' = b /\ (disk' = b \/ disk' = disk) /\ stale' \in BOOLEAN
  BY DEF Change, Save
<1>2. budget' \in Budget
  BY DEF DpInv, TypeOK, Change, Budget
<1> QED BY <1>1, <1>2, HeardKeeps DEF Change, Successor, DpInv, TypeOK

LEMMA RolesWritten ==
  ASSUME book \in Book, NEW n \in Names, Named(n), NEW rs \in SUBSET Roles
  PROVE  Successor(WithRoles(n, rs))
<1> USE NobodyAssumption
<1>1. CASE book.users[n] # Nobody
  <2>1. book.users[n] \in User
    BY <1>1 DEF Book
  <2>2. [book.users[n] EXCEPT !.roles = rs] \in User
    BY <2>1 DEF User
  <2> QED BY <1>1, <2>2 DEF WithRoles, Successor, Book
<1>2. CASE book.users[n] = Nobody
  <2>1. book.acl[n] \in Identity
    BY <1>2 DEF Book, Named
  <2>2. [book.acl[n] EXCEPT !.roles = rs] \in Identity
    BY <2>1 DEF Identity
  <2> QED BY <1>2, <2>2 DEF WithRoles, Successor, Book
<1> QED BY <1>1, <1>2

LEMMA RolesNowTyped ==
  ASSUME book \in Book, NEW n \in Names, Named(n)
  PROVE  RolesNow(n) \in SUBSET Roles
BY DEF Book, User, Identity, RolesNow, Named

(* Each administrative action is a change of the book to a successor.      *)
LEMMA Administered ==
  ASSUME DpInv, NEW c \in Callers, Administer(c)
  PROVE  \E b : Successor(b) /\ Change(c, b)
<1> USE NobodyAssumption
<1> book \in Book
  BY DEF DpInv, TypeOK
<1>1. ASSUME NEW n \in Names, AddIdentityList(c, n) PROVE \E b : Successor(b) /\ Change(c, b)
  <2>1. [cp |-> FALSE, roles |-> {}] \in Identity
    BY DEF Identity
  <2>2. Successor([book EXCEPT !.acl[n] = [cp |-> FALSE, roles |-> {}]]) /\ Successor(book)
    BY <2>1 DEF Successor, Book
  <2> QED BY <1>1, <2>2 DEF AddIdentityList
<1>2. ASSUME NEW n \in Names, RemoveIdentity(c, n) PROVE \E b : Successor(b) /\ Change(c, b)
  <2>1. Successor([book EXCEPT !.acl[n] = Nobody])
    BY DEF Successor, Book
  <2> QED BY <1>2, <2>1 DEF RemoveIdentity
<1>3. ASSUME NEW n \in Names, NEW s \in Secrets, SetUserLoginPassword(c, n, s)
      PROVE  \E b : Successor(b) /\ Change(c, b)
  <2>1. CASE book.users[n] # Nobody
    <3>1. [book.users[n] EXCEPT !.stored = s] \in User
      BY <2>1 DEF Book, User
    <3>2. Successor([book EXCEPT !.users[n].stored = s])
      BY <2>1, <3>1 DEF Successor, Book
    <3> QED BY <1>3, <2>1, <3>2 DEF SetUserLoginPassword
  <2>2. CASE book.users[n] = Nobody
    <3>1. [stored |-> s, roles |-> {}] \in User
      BY DEF User
    <3>2. Successor([book EXCEPT !.users[n] = [stored |-> s, roles |-> {}]])
      BY <3>1 DEF Successor, Book
    <3> QED BY <1>3, <2>2, <3>2 DEF SetUserLoginPassword
  <2> QED BY <2>1, <2>2
<1>4. ASSUME NEW n \in Names, NEW rs \in RoleLists,
             AddRolesForIdentity(c, n, rs) \/ RemoveRolesForIdentity(c, n, rs)
      PROVE  \E b : Successor(b) /\ Change(c, b)
  <2>1. Named(n)
    BY <1>4 DEF AddRolesForIdentity, RemoveRolesForIdentity
  <2>2. RolesNow(n) \cup rs \in SUBSET Roles /\ RolesNow(n) \ rs \in SUBSET Roles
    BY <2>1, RolesNowTyped, RoleListAssumption
  <2>3. Successor(WithRoles(n, RolesNow(n) \cup rs)) /\ Successor(WithRoles(n, RolesNow(n) \ rs))
    BY <2>1, <2>2, RolesWritten
  <2> QED BY <1>4, <2>3 DEF AddRolesForIdentity, RemoveRolesForIdentity
<1> QED BY <1>1, <1>2, <1>3, <1>4 DEF Administer

-----------------------------------------------------------------------------
(* Time, restarts and the gate; then the invariant as a whole.             *)

LEMMA TickKeeps == DpInv /\ Tick => DpInv'
<1> SUFFICES ASSUME DpInv, Tick PROVE DpInv'
  OBVIOUS
<1>1. \A t \in 0 .. Ttl + 1 : Older(t) \in 0 .. Ttl + 1 /\ Older(t) >= t
  BY LimitAssumption DEF Older
<1>2. \A s, t \in 0 .. Ttl + 1 : s >= t => Older(s) >= Older(t)
  BY LimitAssumption DEF Older
<1> HIDE DEF Older
<1>3. ASSUME NEW c \in Callers
      PROVE  /\ session'[c] \in Session \cup {Nobody}
             /\ session[c] = Nobody => session'[c] = Nobody
             /\ session[c] # Nobody =>
                  /\ session[c] \in Session
                  /\ session'[c].pending = session[c].pending
                  /\ session'[c].user = session[c].user
                  /\ session'[c].idle = Older(session[c].idle)
             /\ quiet'[c] = Older(quiet[c])
  <2>1. CASE session[c] = Nobody
    BY <2>1 DEF Tick
  <2>2. CASE session[c] # Nobody
    <3>1. session[c] \in Session
      BY <2>2 DEF DpInv, TypeOK
    <3>2. session'[c] = [session[c] EXCEPT !.idle = Older(@)]
      BY <2>2 DEF Tick
    <3> QED BY <1>1, <2>2, <3>1, <3>2 DEF Session, Tick
  <2> QED BY <2>1, <2>2
<1>4. TypeOK'
  <2>1. session' \in [Callers -> Session \cup {Nobody}]
    BY <1>3 DEF Tick
  <2>2. quiet' \in [Callers -> Nat]
    BY <1>1, LimitAssumption DEF Tick, DpInv, IdleInv
  <2> QED BY <2>1, <2>2 DEF DpInv, TypeOK, Tick
<1>5. SessionInv'
  BY <1>3 DEF DpInv, SessionInv, Tick
<1>6. IdleInv'
  <2> SUFFICES ASSUME NEW c \in Callers
               PROVE  /\ quiet'[c] \in 0 .. Ttl + 1
                      /\ session'[c] # Nobody => session'[c].idle >= quiet'[c]
    BY DEF IdleInv
  <2>1. session[c] # Nobody => session[c].idle \in 0 .. Ttl + 1
    BY <1>3 DEF Session
  <2> QED BY <1>1, <1>2, <1>3, <2>1 DEF DpInv, IdleInv
<1> QED BY <1>4, <1>5, <1>6 DEF DpInv

LEMMA RestartKeeps == DpInv /\ Restart => DpInv'
<1> SUFFICES ASSUME DpInv, Restart PROVE DpInv'
  OBVIOUS
<1>1. TypeOK'
  BY DEF DpInv, TypeOK, Restart
<1>2. SessionInv' /\ IdleInv'
  BY DEF DpInv, SessionInv, IdleInv, Restart
<1> QED BY <1>1, <1>2 DEF DpInv

LEMMA GateKeeps ==
  ASSUME DpInv, NEW c \in Callers, GateStep(c)
  PROVE  DpInv'
<1>1. budget' \in Budget
  BY DEF DpInv, TypeOK, GateStep, Budget
<1>2. CASE session' = session
  BY <1>1, <1>2, HeardKeeps DEF GateStep, DpInv, TypeOK
<1>3. CASE session[c] # Nobody /\ Touch(c)
  <2> DEFINE t == [session[c] EXCEPT !.idle = 0]
  <2>1. session[c] \in Session
    BY <1>3 DEF DpInv, TypeOK
  <2>2. t \in Session /\ t.pending = session[c].pending /\ t.user = session[c].user
    BY <2>1, LimitAssumption DEF Session
  <2>3. session' = [session EXCEPT ![c] = t]
    BY <1>3 DEF Touch
  <2>4. OneSession(c, t)
    BY <1>1, <1>3, <2>2, <2>3 DEF GateStep, OneSession, DpInv, SessionInv
  <2> QED BY <2>4, OneSessionKeeps
<1> QED BY <1>2, <1>3 DEF GateStep, Touch

LEMMA StepKeepsInv == DpInv /\ DpStep => DpInv'
<1> SUFFICES ASSUME DpInv, DpStep PROVE DpInv'
  OBVIOUS
<1>1. ASSUME NEW c \in Callers, Speak(c) PROVE DpInv'
  <2>1. CASE Login(c)
    BY <2>1, LoginIsOneSession
  <2>2. CASE Administer(c)
    <3>1. PICK b : Successor(b) /\ Change(c, b)
      BY <2>2, Administered
    <3> QED BY <3>1, ChangeKeeps
  <2>3. CASE Refused(c)
    BY <2>3, HeardKeeps DEF Refused, DpInv, TypeOK
  <2> QED BY <1>1, <2>1, <2>2, <2>3 DEF Speak
<1>2. ASSUME NEW c \in Callers, GateStep(c) PROVE DpInv'
  BY <1>2, GateKeeps
<1>3. CASE UNCHANGED dpVars
  BY <1>3 DEF dpVars, DpInv, TypeOK, SessionInv, IdleInv
<1> QED BY <1>1, <1>2, <1>3, TickKeeps, RestartKeeps DEF DpStep

LEMMA InvHolds == Spec => []DpInv
<1>1. DpInv /\ [Next]_vars => DpInv'
  BY StepsAreSteps, StepKeepsInv DEF DpInv
<1> QED BY InitInv, <1>1, PTL DEF Spec

-----------------------------------------------------------------------------
(* Types; and every pending challenge and every login is for a user that   *)
(* has a record, so that two branches of login (dp.rs) are dead: the one   *)
(* for a challenge at the failure limit and the one for a missing record.  *)
THEOREM LoginsHaveRecords == Spec => [](TypeOK /\ SessionInv)
<1>1. DpInv => TypeOK /\ SessionInv
  BY DEF DpInv
<1> QED BY InvHolds, <1>1, PTL

(* A caller that was quiet for longer than the ceiling holds no role: no   *)
(* failed login, no challenge, no administrator and no request of another  *)
(* caller revives the roles of session_roles (dp.rs) for it.               *)
THEOREM QuietHoldsNothing == Spec => []IdleHoldsNothing
<1>1. DpInv => IdleHoldsNothing
  <2> SUFFICES ASSUME DpInv, NEW c \in Callers, quiet[c] > Ttl PROVE SessionRoles(c) = {}
    BY DEF IdleHoldsNothing
  <2>1. session[c] # Nobody => session[c].idle \in Nat /\ session[c].idle >= quiet[c]
    BY LimitAssumption DEF DpInv, TypeOK, IdleInv, Session
  <2>2. ~Live(c)
    BY <2>1, LimitAssumption DEF Live, DpInv, IdleInv
  <2> QED BY <2>2 DEF SessionRoles
<1> QED BY InvHolds, <1>1, PTL

-----------------------------------------------------------------------------
(* The refinement: device protection implements Access.                    *)

Who(s) == [c \in Callers |-> IF s[c] = Nobody THEN [user |-> Nobody, cp |-> Nobody]
                             ELSE [user |-> s[c].user, cp |-> s[c].cp]]

(* Whoever passes enforce for Admin is an administrator there.             *)
LEMMA EnforcedIsAdmin ==
  ASSUME NEW c \in Callers, Enforced(c, "Admin")
  PROVE  Abstract!IsAdmin(c)
<1>1. Live(c) /\ \E r \in SessionRoles(c) : Level(r) >= 1
  BY DEF Enforced, Authorize, SessionRoles, Level
<1>2. "Admin" \in SessionRoles(c)
  BY <1>1 DEF Level
<1> QED BY <1>1, <1>2 DEF Live, SessionRoles, UserRoles, IdentityRoles, Abstract!IsAdmin,
        Abstract!RolesOfUser, Abstract!RolesOfCp

(* A handler that leaves the login of every caller alone is a stutter.     *)
LEMMA SameLogin ==
  ASSUME NEW c \in Callers, NEW t, session \in [Callers -> Session \cup {Nobody}],
         session' = [session EXCEPT ![c] = t], t \in Session,
         IF session[c] = Nobody THEN t.user = Nobody /\ t.cp = Nobody
                                ELSE t.user = session[c].user /\ t.cp = session[c].cp
  PROVE  Who(session)' = Who(session)
<1> \A d \in Callers :
      IF session'[d] = Nobody
        THEN session[d] = Nobody
        ELSE /\ session[d] = Nobody => session'[d].user = Nobody /\ session'[d].cp = Nobody
             /\ session[d] # Nobody => session'[d].user = session[d].user /\ session'[d].cp = session[d].cp
  BY NobodyAssumption
<1> QED BY NobodyAssumption DEF Who

(* The steps that sign nobody in or out and leave the book alone.          *)
Stutter == Who(session)' = Who(session) /\ UNCHANGED <<book, disk, stale>>

LEMMA LoginImplements ==
  ASSUME DpInv, NEW c \in Callers, Login(c)
  PROVE  Stutter \/ Abstract!SignIn(c) \/ Abstract!SignOut(c)
<1> USE NobodyAssumption
<1>1. session \in [Callers -> Session \cup {Nobody}]
  BY DEF DpInv, TypeOK
<1>2. ASSUME NEW n \in Names, GetUserLoginChallenge(c, n) PROVE Stutter
  <2> DEFINE s == IF session[c] = Nobody THEN Fresh ELSE session[c]
             t == [s EXCEPT !.pending = n, !.failures = 0, !.idle = 0]
  <2>1. s \in Session
    BY <1>1, FreshIsSession
  <2>2. /\ session[c] = Nobody => s.user = Nobody /\ s.cp = Nobody
        /\ session[c] # Nobody => s = session[c]
    BY DEF Fresh
  <2>3. session' = [session EXCEPT ![c] = t] /\ UNCHANGED <<book, disk, stale>>
    BY <1>2 DEF GetUserLoginChallenge
  <2> HIDE DEF s
  <2>4. t \in Session /\ t.user = s.user /\ t.cp = s.cp
    <3>1. t \in Session
      BY <2>1, Rewritten
    <3> QED BY <2>1, <3>1 DEF Session
  <2>5. Who(session)' = Who(session)
    BY <1>1, <2>2, <2>3, <2>4, SameLogin
  <2> QED BY <2>3, <2>5 DEF Stutter
<1>3. CASE LoginStray(c)
  <2> DEFINE t == [session[c] EXCEPT !.idle = 0]
  <2>1. session[c] \in Session /\ session[c] # Nobody
    BY <1>1, <1>3 DEF LoginStray
  <2>2. t \in Session /\ t.user = session[c].user /\ t.cp = session[c].cp
    BY <2>1, LimitAssumption DEF Session
  <2>3. session' = [session EXCEPT ![c] = t] /\ UNCHANGED <<book, disk, stale>>
    BY <1>3 DEF LoginStray
  <2>4. Who(session)' = Who(session)
    BY <1>1, <2>1, <2>2, <2>3, SameLogin
  <2> QED BY <2>3, <2>4 DEF Stutter
<1>4. ASSUME NEW p \in Proof, LoginFails(c, p) PROVE Stutter
  <2> DEFINE t == Failed(session[c])
  <2>1. session[c] \in Session /\ session[c] # Nobody /\ session[c].pending \in Names
    BY <1>1, <1>4 DEF LoginFails, Attempt, Session
  <2>2. t \in Session /\ t.user = session[c].user /\ t.cp = session[c].cp
    BY <2>1, Rewritten
  <2>3. session' = [session EXCEPT ![c] = t] /\ UNCHANGED <<book, disk, stale>>
    BY <1>4 DEF LoginFails
  <2>4. Who(session)' = Who(session)
    BY <1>1, <2>1, <2>2, <2>3, SameLogin
  <2> QED BY <2>3, <2>4 DEF Stutter
<1>5. ASSUME NEW p \in Proof, LoginPasses(c, p) PROVE Abstract!SignIn(c)
  <2> DEFINE n == session[c].pending
             t == [session[c] EXCEPT !.user = n, !.cp = p.cp, !.failures = 0, !.idle = 0]
  <2>1. session[c] \in Session /\ n \in Names /\ p.cp \in Names
    BY <1>1, <1>5 DEF LoginPasses, Attempt, Session, Proof
  <2>2. t \in Session /\ t.user = n /\ t.cp = p.cp
    <3>1. t \in Session
      BY <2>1, Rewritten
    <3> QED BY <2>1, <3>1 DEF Session
  <2>3. session' = [session EXCEPT ![c] = t] /\ UNCHANGED <<book, disk, stale>>
    BY <1>5 DEF LoginPasses
  <2>4. Who(session)' = [Who(session) EXCEPT ![c] = [user |-> n, cp |-> p.cp]]
    <3> HIDE DEF t, n
    <3>1. t # Nobody
      BY <2>2
    <3> QED BY <1>1, <2>2, <2>3, <3>1 DEF Who
  <2>5. book.users[n] # Nobody /\ book.acl[p.cp] # Nobody /\ book.acl[p.cp].cp
    BY <1>5 DEF LoginPasses, Attempt, Verified, DpInv, SessionInv
  <2> HIDE DEF n
  <2> QED BY <2>1, <2>3, <2>4, <2>5 DEF Abstract!SignIn, Who
<1>6. CASE UserLogout(c)
  <2>1. session' = [session EXCEPT ![c] = Fresh] /\ UNCHANGED <<book, disk, stale>>
    BY <1>6 DEF UserLogout
  <2>2. Who(session)' = [Who(session) EXCEPT ![c] = [user |-> Nobody, cp |-> Nobody]]
    BY <1>1, <2>1, FreshIsSession DEF Who, Fresh
  <2> QED BY <2>1, <2>2 DEF Abstract!SignOut, Abstract!SignedOut, Who
<1> QED BY <1>2, <1>3, <1>4, <1>5, <1>6 DEF Login, UserLogin

(* Whoever changes the book is an administrator, or changes the own        *)
(* password: a login without a user record, who could make one under the   *)
(* own name, does not exist (SessionInv).                                  *)
LEMMA AdministerImplements ==
  ASSUME DpInv, NEW c \in Callers, Administer(c)
  PROVE  Abstract!ByAdmin(c) \/ Abstract!OwnPassword(c)
<1>1. PICK b : Change(c, b)
  BY Administered
<1>2. Abstract!Written /\ UNCHANGED session
  BY <1>1 DEF Change, Save, Abstract!Written
<1>3. CASE Enforced(c, "Admin")
  BY <1>2, <1>3, EnforcedIsAdmin DEF Abstract!ByAdmin
<1>4. CASE ~Enforced(c, "Admin")
  <2>1. PICK n \in Names, s \in Secrets : SetUserLoginPassword(c, n, s)
    BY <1>4 DEF Administer, AddIdentityList, RemoveIdentity, AddRolesForIdentity,
                RemoveRolesForIdentity
  <2>2. Live(c) /\ session[c] # Nobody /\ session[c].user = n
    BY <1>4, <2>1 DEF SetUserLoginPassword, Live
  <2>3. n # Nobody /\ book.users[n] # Nobody
    BY <2>2 DEF Live, DpInv, SessionInv
  <2>4. book' = [book EXCEPT !.users[n].stored = s]
    BY <2>1, <2>3 DEF SetUserLoginPassword, Change
  <2> QED BY <1>2, <2>2, <2>3, <2>4 DEF Abstract!OwnPassword
<1> QED BY <1>3, <1>4

LEMMA TickImplements == DpInv /\ Tick => Stutter
<1> SUFFICES ASSUME DpInv, Tick PROVE Stutter
  OBVIOUS
<1>1. ASSUME NEW c \in Callers
      PROVE  IF session[c] = Nobody THEN session'[c] = Nobody
             ELSE /\ session'[c] # Nobody
                  /\ session'[c].user = session[c].user /\ session'[c].cp = session[c].cp
  <2>1. CASE session[c] # Nobody
    <3>1. session[c] \in Session
      BY <2>1 DEF DpInv, TypeOK
    <3>2. session'[c] = [session[c] EXCEPT !.idle = Older(@)]
      BY <2>1 DEF Tick
    <3>3. Older(session[c].idle) \in 0 .. Ttl + 1
      BY <3>1, LimitAssumption DEF Older, Session
    <3>4. session'[c] \in Session
      BY <3>1, <3>2, <3>3 DEF Session
    <3> QED BY <2>1, <3>1, <3>2, <3>4, NobodyAssumption DEF Session
  <2> QED BY <2>1 DEF Tick
<1>2. Who(session)' = Who(session)
  BY <1>1 DEF Who
<1> QED BY <1>2 DEF Stutter, Tick

LEMMA StepImplements == DpInv /\ DpStep => [Abstract!Next]_(Abstract!vars)
<1> SUFFICES ASSUME DpInv, DpStep PROVE Abstract!Next \/ UNCHANGED Abstract!vars
  OBVIOUS
<1>1. Stutter => UNCHANGED Abstract!vars
  BY DEF Stutter, Who, Abstract!vars
<1>2. ASSUME NEW c \in Callers, Speak(c) PROVE Abstract!Next \/ UNCHANGED Abstract!vars
  <2>1. CASE Login(c)
    BY <1>1, <2>1, LoginImplements DEF Abstract!Next
  <2>2. CASE Administer(c)
    BY <2>2, AdministerImplements DEF Abstract!Next
  <2>3. CASE Refused(c)
    BY <2>3 DEF Refused, Abstract!vars
  <2> QED BY <1>2, <2>1, <2>2, <2>3 DEF Speak
<1>3. ASSUME NEW c \in Callers, GateStep(c) PROVE UNCHANGED Abstract!vars
  <2>1. CASE session' = session
    BY <1>3, <2>1 DEF GateStep, Abstract!vars
  <2>2. CASE session[c] # Nobody /\ Touch(c)
    <3> DEFINE t == [session[c] EXCEPT !.idle = 0]
    <3>1. session \in [Callers -> Session \cup {Nobody}]
      BY DEF DpInv, TypeOK
    <3>2. t \in Session /\ t.user = session[c].user /\ t.cp = session[c].cp
      BY <2>2, <3>1, LimitAssumption DEF Session
    <3>3. session' = [session EXCEPT ![c] = t]
      BY <2>2 DEF Touch
    <3>4. Who(session)' = Who(session)
      BY <2>2, <3>1, <3>2, <3>3, SameLogin
    <3> QED BY <1>1, <1>3, <3>4 DEF GateStep, Stutter
  <2> QED BY <1>3, <2>1, <2>2 DEF GateStep, Touch
<1>4. CASE Restart
  <2>1. [c \in Callers |-> [user |-> Nobody, cp |-> Nobody]]
          = (Who(session))'
    BY <1>4 DEF Restart, Who
  <2> QED BY <1>4, <2>1 DEF Restart, Who, Abstract!Next, Abstract!Restart, Abstract!SignedOut
<1>5. CASE UNCHANGED dpVars
  BY <1>5 DEF dpVars, Abstract!vars
<1> QED BY <1>1, <1>2, <1>3, <1>4, <1>5, TickImplements DEF DpStep

(* Device protection, with requests running beside it, implements Access:  *)
(* the book of dp.rs changes at the hand of a signed-in administrator or   *)
(* for the own password only, every change is written, and a restart signs *)
(* everybody out.                                                          *)
THEOREM ProtectionImplementsAccess == Spec => AccessRule
<1>1. Init => Abstract!Init
  BY DEF Init, DpInit, Abstract!Init, Abstract!SignedOut
<1>2. DpInv /\ [Next]_vars => [Abstract!Next]_(Abstract!vars)
  BY StepsAreSteps, StepImplements DEF DpInv
<1> QED BY <1>1, <1>2, InvHolds, PTL DEF Spec, AccessRule, Abstract!Spec

-----------------------------------------------------------------------------
(* The requests: what one is about to do lies within its view. *)
Stages == {"idle", "gated", "viewed", "granted", "deleting", "deleted", "shown"}
Key == [owner: Callers, ext: Nat]
Request == [at: Stages, by: Callers \cup {Nobody}, op: Adders \cup Deleters \cup Readers \cup {"none"},
            v2: BOOLEAN, lift: BOOLEAN, mapping: Entry \cup {NoEntry}, todo: SUBSET Key,
            slot: Entry \cup {NoEntry}, key: Key \cup {NoKey}, shown: SUBSET Entry]

Contained(r) ==
  /\ Touched(r) \subseteq Entry
  /\ \A e \in Touched(r) :
       ~r.lift => /\ e.owner = r.by
                  /\ r.at = "granted" => e.client = r.by
                  /\ r.v2 => e.ext >= Floor /\ e.int >= Floor

RequestsInv == /\ entries \subseteq Entry
               /\ req \in [Conns -> Request]
               /\ \A w \in Conns : /\ ~Serving(w, "idle") => req[w].by \in Callers
                                   /\ Contained(req[w])

LEMMA IdleIsContained == Idle \in Request /\ Contained(Idle) /\ Idle.at = "idle"
BY DEF Idle, Request, Stages, Contained, Touched

(* One request moves on. *)
LEMMA OneRequestMoves ==
  ASSUME RequestsInv, entries' \subseteq Entry, NEW w \in Conns, NEW r \in Request,
         r.at # "idle" => r.by \in Callers, Contained(r), Continue(w, r)
  PROVE  RequestsInv'
<1>1. req' = [req EXCEPT ![w] = r]
  BY DEF Continue
<1>2. \A v \in Conns : req'[v] = IF v = w THEN r ELSE req[v]
  BY <1>1 DEF RequestsInv
<1>3. req' \in [Conns -> Request]
  BY <1>1 DEF RequestsInv
<1>4. \A v \in Conns : /\ req'[v].at # "idle" => req'[v].by \in Callers
                       /\ Contained(req'[v])
  BY <1>2 DEF RequestsInv, Serving
<1> QED BY <1>3, <1>4 DEF RequestsInv, Serving

(* A step that touches nothing yet. *)
LEMMA UntouchedIsContained ==
  ASSUME NEW r, r.at \in {"idle", "gated", "viewed", "deleting"}
  PROVE  Contained(r)
BY DEF Contained, Touched

LEMMA ServeContains == ASSUME TypeOK, RequestsInv, NEW w \in Conns, Serve(w) PROVE RequestsInv'
<1> DEFINE q == req[w]
<1>1. q \in Request /\ entries \subseteq Entry /\ (q.at # "idle" => q.by \in Callers)
  BY DEF RequestsInv, Serving
<1>2. ASSUME NEW c \in budget.askers, NEW op \in Adders \cup Deleters \cup Readers,
             NEW v2 \in BOOLEAN, Gate(w, c, op, v2)
      PROVE  RequestsInv'
  <2> DEFINE r == [Idle EXCEPT !.at = "gated", !.by = c, !.op = op, !.v2 = v2]
  <2>1. c \in Callers
    BY DEF TypeOK, Budget
  <2>2. r \in Request /\ r.at = "gated" /\ r.by = c
    <3>1. Idle \in Request /\ "gated" \in Stages
      BY IdleIsContained DEF Stages
    <3> QED BY <2>1, <3>1 DEF Request
  <2>3. Continue(w, r) /\ UNCHANGED entries
    BY <1>2 DEF Gate
  <2> HIDE DEF r
  <2> QED BY <1>1, <2>1, <2>2, <2>3, UntouchedIsContained, OneRequestMoves
<1>3. CASE View(w)
  <2> DEFINE r == [q EXCEPT !.at = "viewed", !.lift = HoldsLift(q.by)]
  <2>1. HoldsLift(q.by) \in BOOLEAN
    BY DEF HoldsLift, Enforced, Authorize
  <2>2. r \in Request /\ r.at = "viewed" /\ r.by = q.by
    BY <1>1, <2>1 DEF Request, Stages
  <2>3. Continue(w, r) /\ UNCHANGED entries /\ q.at = "gated"
    BY <1>3 DEF View, Serving
  <2> HIDE DEF r
  <2> QED BY <1>1, <2>2, <2>3, UntouchedIsContained, OneRequestMoves
<1>4. CASE Admit(w)
  <2>1. PICK client \in Callers, ext \in ExtPorts, int \in IntPorts, p \in 1 .. MaxPort :
          /\ RequestWithin(q, client, ext, int)
          /\ PreferredPort(ext, p)
          /\ Continue(w, [q EXCEPT !.at = "granted",
                                   !.mapping = [owner |-> q.by, client |-> client,
                                                ext |-> p, int |-> int]])
    BY <1>4 DEF Admit
  <2> DEFINE m == [owner |-> q.by, client |-> client, ext |-> p, int |-> int]
             r == [q EXCEPT !.at = "granted", !.mapping = m]
  <2>2. q.by \in Callers /\ UNCHANGED entries
    BY <1>1, <1>4 DEF Admit, Serving
  <2>3. p \in Nat /\ ext \in Nat /\ int \in Nat
    BY PortAssumption
  <2>4. m \in Entry
    BY <2>2, <2>3 DEF Entry
  <2>5. /\ r \in Request /\ r.at = "granted" /\ r.mapping = m /\ r.by = q.by
        /\ r.lift = q.lift /\ r.v2 = q.v2
    <3> HIDE DEF m
    <3> QED BY <1>1, <2>4 DEF Request, Stages
  <2>6. PreferredPort(ext, p) /\ ext = 0 => p >= Floor
    BY <2>3, PortAssumption DEF PreferredPort, IsFreeRequestedPort
  <2>7. ~q.lift => /\ client = q.by
                   /\ q.v2 => p >= Floor /\ int >= Floor
    BY <2>1, <2>6 DEF RequestWithin, PreferredPort
  <2>8. m.owner = q.by /\ m.client = client /\ m.ext = p /\ m.int = int
    OBVIOUS
  <2>9. Continue(w, r)
    BY <2>1
  <2> HIDE DEF m, r
  <2>10. Contained(r)
    <3>1. Touched(r) = {m}
      BY <2>5 DEF Touched
    <3> QED BY <2>4, <2>5, <2>7, <2>8, <3>1 DEF Contained
  <2> QED BY <1>1, <2>2, <2>5, <2>9, <2>10, OneRequestMoves
<1>5. CASE Grant(w)
  <2>1. Continue(w, Idle) /\ entries' \in Applied(q.mapping) /\ q.at = "granted"
    BY <1>5 DEF Grant, Done, Serving
  <2>2. q.mapping \in Entry
    BY <2>1 DEF RequestsInv, Contained, Touched
  <2>3. entries' \subseteq Entry
    BY <1>1, <2>1, <2>2 DEF Applied, SameInternal, SameLabel, Entry
  <2> QED BY <1>1, <2>1, <2>3, IdleIsContained, OneRequestMoves
<1>6. ASSUME NEW todo \in SUBSET Key, Continue(w, [q EXCEPT !.at = "deleting", !.todo = todo]),
             q.at # "idle", UNCHANGED entries
      PROVE  RequestsInv'
  <2> DEFINE r == [q EXCEPT !.at = "deleting", !.todo = todo]
  <2>1. r \in Request /\ r.at = "deleting" /\ r.by = q.by
    BY <1>1 DEF Request, Stages
  <2>2. Continue(w, r)
    BY <1>6
  <2> HIDE DEF r
  <2> QED BY <1>1, <1>6, <2>1, <2>2, UntouchedIsContained, OneRequestMoves
<1>7. ASSUME NEW rest \in SUBSET Key, Pass(w, rest), q.at # "idle", entries' \subseteq Entry
      PROVE  RequestsInv'
  <2>1. CASE Continue(w, Idle)
    BY <1>7, <2>1, IdleIsContained, OneRequestMoves
  <2> DEFINE r == [q EXCEPT !.at = "deleting", !.todo = rest]
  <2>2. CASE Continue(w, r)
    <3>1. r \in Request /\ r.at = "deleting" /\ r.by = q.by
      BY <1>1 DEF Request, Stages
    <3> HIDE DEF r
    <3> QED BY <1>1, <1>7, <2>2, <3>1, UntouchedIsContained, OneRequestMoves
  <2> QED BY <1>7, <2>1, <2>2 DEF Pass, Done
<1>8. CASE AskDelete(w)
  <2>1. PICK ext \in ExtPorts \ {0} :
          Continue(w, [q EXCEPT !.at = "deleting", !.todo = {[owner |-> q.by, ext |-> ext]}])
    BY <1>8 DEF AskDelete
  <2>2. q.at = "viewed" /\ UNCHANGED entries /\ q.by \in Callers /\ ext \in Nat
    BY <1>1, <1>8, PortAssumption DEF AskDelete, Serving
  <2>3. {[owner |-> q.by, ext |-> ext]} \in SUBSET Key
    BY <2>2 DEF Key
  <2> HIDE DEF q
  <2> QED BY <1>6, <2>1, <2>2, <2>3
<1>9. CASE AskRange(w)
  <2>1. PICK hits \in SUBSET entries :
          Continue(w, [q EXCEPT !.at = "deleting",
                                !.todo = {[owner |-> e.owner, ext |-> e.ext] : e \in hits}])
    BY <1>9 DEF AskRange
  <2>2. q.at = "viewed" /\ UNCHANGED entries
    BY <1>9 DEF AskRange, Serving
  <2>3. {[owner |-> e.owner, ext |-> e.ext] : e \in hits} \in SUBSET Key
    BY <1>1 DEF Key, Entry
  <2> HIDE DEF q
  <2> QED BY <1>6, <2>1, <2>2, <2>3
<1>10. CASE Judge(w)
  <2>1. PICK key \in q.todo :
          \/ Pass(w, q.todo \ {key})
          \/ \E e \in SameLabel(key) :
               IF Judged(q, e)
                 THEN Continue(w, [q EXCEPT !.at = "deleted", !.todo = q.todo \ {key},
                                            !.slot = e, !.key = key])
                 ELSE Pass(w, q.todo \ {key})
    BY <1>10 DEF Judge
  <2>2. q.at = "deleting" /\ UNCHANGED entries /\ q.todo \ {key} \in SUBSET Key /\ key \in Key
    BY <1>1, <1>10 DEF Judge, Serving, Request
  <2>3. CASE Pass(w, q.todo \ {key})
    BY <1>1, <1>7, <2>2, <2>3
  <2>4. ASSUME NEW e \in SameLabel(key), Judged(q, e),
               Continue(w, [q EXCEPT !.at = "deleted", !.todo = q.todo \ {key},
                                     !.slot = e, !.key = key])
        PROVE  RequestsInv'
    <3> DEFINE r == [q EXCEPT !.at = "deleted", !.todo = q.todo \ {key}, !.slot = e, !.key = key]
    <3>1. e \in Entry
      BY <1>1 DEF SameLabel
    <3>2. /\ r \in Request /\ r.at = "deleted" /\ r.slot = e /\ r.by = q.by
          /\ r.lift = q.lift /\ r.v2 = q.v2
      BY <1>1, <2>2, <3>1 DEF Request, Stages
    <3>3. Continue(w, r)
      BY <2>4
    <3> HIDE DEF r
    <3>4. Touched(r) = {e}
      BY <3>2 DEF Touched
    <3>5. Contained(r)
      BY <2>4, <3>1, <3>2, <3>4 DEF Contained, Judged, EntryWithin
    <3> QED BY <1>1, <2>2, <3>2, <3>3, <3>5, OneRequestMoves
  <2> QED BY <2>1, <2>3, <2>4
<1>11. CASE Retain(w)
  <2>1. Pass(w, q.todo) /\ entries' \subseteq entries /\ q.at = "deleted"
    BY <1>11 DEF Retain, Serving
  <2>2. q.todo \in SUBSET Key
    BY <1>1 DEF Request
  <2> HIDE DEF q
  <2> QED BY <1>1, <1>7, <2>1, <2>2
<1>12. CASE Read(w)
  <2>1. PICK E \in SUBSET Seen(q) : Continue(w, [q EXCEPT !.at = "shown", !.shown = E])
    BY <1>12 DEF Read, GetSpecific, GetGeneric, GetList, Show
  <2>2. q.at = "viewed" /\ UNCHANGED entries
    BY <1>12 DEF Read, Serving
  <2> DEFINE r == [q EXCEPT !.at = "shown", !.shown = E]
  <2>3. /\ r \in Request /\ r.at = "shown" /\ r.shown = E /\ r.by = q.by
        /\ r.lift = q.lift /\ r.v2 = q.v2
    BY <1>1 DEF Request, Stages, Seen
  <2>4. Continue(w, r)
    BY <2>1
  <2> HIDE DEF r
  <2>5. Touched(r) = E
    BY <2>3 DEF Touched
  <2>6. Contained(r)
    BY <1>1, <2>3, <2>5 DEF Contained, Seen, EntryWithin
  <2> QED BY <1>1, <2>2, <2>3, <2>4, <2>6, OneRequestMoves
<1>13. CASE End(w)
  BY <1>1, <1>13, IdleIsContained, OneRequestMoves DEF End, Done
<1> QED BY <1>2, <1>3, <1>4, <1>5, <1>8, <1>9, <1>10, <1>11, <1>12, <1>13 DEF Serve

(* A caller without the lift grants to its own host only, deletes only its *)
(* own and is shown only its own, whatever others do between the view of   *)
(* handle_soap (upnpsvc.rs) and the effect; a range judges every entry     *)
(* again when its turn comes.                                              *)
THEOREM RequestsStayContained == Spec => []StaysContained
<1>1. Init => RequestsInv
  <2> SUFFICES ASSUME Init PROVE RequestsInv
    OBVIOUS
  <2>1. entries \subseteq Entry
    BY RestoredAssumption DEF Init
  <2>2. req = [w \in Conns |-> Idle]
    BY DEF Init
  <2> QED BY <2>1, <2>2, IdleIsContained DEF RequestsInv, Serving
<1>2. TypeOK /\ RequestsInv /\ [Next]_vars => RequestsInv'
  <2> SUFFICES ASSUME TypeOK, RequestsInv, [Next]_vars PROVE RequestsInv'
    OBVIOUS
  <2>1. CASE UNCHANGED ctlVars
    BY <2>1 DEF ctlVars, RequestsInv, Serving, Contained, Touched
  <2>2. CASE Reboot
    <3>1. req' = [w \in Conns |-> Idle] /\ UNCHANGED entries
      BY <2>2 DEF Reboot
    <3> QED BY <3>1, IdleIsContained DEF RequestsInv, Serving
  <2> QED BY <2>1, <2>2, ServeContains DEF Next, vars
<1>3. DpInv => TypeOK
  BY DEF DpInv
<1>4. RequestsInv => StaysContained
  BY DEF RequestsInv, Contained, StaysContained
<1> QED BY InvHolds, <1>1, <1>2, <1>3, <1>4, PTL DEF Spec
=============================================================================
