---------------------------- MODULE Identity_proofs ----------------------------
(***************************************************************************)
(* The safety properties of who may use the system: of Sessions for every  *)
(* number of requests, users, sessions, tokens, versions and passwords, of *)
(* AdminProvisioning for every number of operators and users, of           *)
(* Registration for every number of clients, keys and failures, and of     *)
(* ApiKeys for every number of rotations, setups, tenants and keys.        *)
(*                                                                         *)
(* Sessions.                                                               *)
(* A writer of users looks once, when it gets the tenant row, and writes   *)
(* much later.  The inductive invariant says what it may rely on until     *)
(* then: the user it has read stays, the families it must revoke are all   *)
(* there is of that user (FamiliesOK), a verified password is still the    *)
(* user's (LoginOK).  Both need that nobody else writes users or inserts   *)
(* families while it holds the tenant (Exclusive).  Refresh and logout     *)
(* rely on the family they hold (RefreshOK).                               *)
(***************************************************************************)
EXTENDS Sessions, AdminProvisioning, Registration, ApiKeys, SequenceTheorems, FiniteSetTheorems, TLAPS

States == {"current", "used"}

FamilyHolders == {"refreshRead", "logoutRead", "insert", "familyCommit"}

\* What a transaction holds at each statement.
LocksOK(t) ==
    /\ t.tenant = CASE t.pc \in {"loginCommit", "families"} -> "update"
                    [] t.pc = "familyCommit" -> "share"
                    [] OTHER -> "none"
    /\ t.pc \in FamilyHolders => t.locks = {t.family}
    /\ t.pc \notin FamilyHolders \cup {"families"} => t.locks = {}
    /\ t.pc \in FamilyHolders \cup {"refresh", "logout"} => t.family \in Families

\* A verified password is one, and under the lock it is still the user's.
LoginOK(t, us) ==
    /\ t.pc \in {"loginBegin", "login", "loginCommit"} => t.seen.password # 0
    /\ t.pc = "loginCommit" => /\ us[t.user].active
                               /\ us[t.user].password = t.seen.password

\* What a request asks of a user.
PatchOK(t) ==
    /\ t.pc \in {"create", "patch"} => t.next.role \in Roles
    /\ t.pc = "patch" => t.seen.version < MaxVersions

Keeps(old, new) ==
    /\ new.role = old.role /\ new.password = old.password
    /\ old.active => new.active

Admin(u) == u.role = "tenant_admin" /\ u.active

\* What a writer of users relies on while it locks the families.
FamiliesOK(t, us, fam) ==
    t.pc = "families" =>
        /\ t.next.active => t.next.role \in Roles
        /\ t.reason \in {"none", "user_inactive", "role_changed", "password_reset"}
        /\ \A f \in t.todo \cup t.locks : fam[f].user = t.user /\ fam[f].state # "absent"
        /\ t.reason = "none" =>
               /\ t.todo = {} /\ t.locks = {}
               /\ \A f \in Families : fam[f].state = "live" /\ fam[f].user = t.user =>
                      Keeps(us[t.user], t.next)
        /\ t.reason # "none" =>
               \A f \in Families : fam[f].state = "live" /\ fam[f].user = t.user =>
                   f \in t.todo \cup t.locks
        /\ \E u \in Users : Admin(IF u = t.user THEN t.next ELSE us[u])

RefreshReasons == {"logout", "reuse_detected", "user_inactive", "tenant_inactive", "rotate"}

\* What a refresh or a logout relies on.
RefreshOK(t, fam, tok) ==
    /\ t.pc \in FamilyHolders \cup {"refresh", "logout"} =>
           t.token \in 1 .. Len(tok[t.family])
    /\ t.pc \in {"refresh", "refreshRead"} => t.token < MaxTokens
    /\ t.pc \in {"insert", "familyCommit"} =>
           /\ t.reason \in RefreshReasons
           /\ fam[t.family].state = "live"
           /\ t.reason = "rotate" => /\ t.token < MaxTokens
                                     /\ tok[t.family][t.token] = "current"

TxOK(t, us, fam, tok) ==
    /\ LocksOK(t) /\ LoginOK(t, us) /\ PatchOK(t)
    /\ FamiliesOK(t, us, fam) /\ RefreshOK(t, fam, tok)

\* Locks that two transactions can hold at the same time.
Compatible(t, s) ==
    /\ t.tenant = "update" => s.tenant = "none"
    /\ s.tenant = "update" => t.tenant = "none"
    /\ t.locks \cap s.locks = {}

Exclusive == \A p, q \in Processes : p # q => Compatible(tx[p], tx[q])

\* An active user has a role, and a family has tokens from the start.
RowsOK ==
    /\ \A u \in Users : user[u].active => user[u].role \in Roles
    /\ \A f \in Families : family[f].state = "absent" <=> Len(tokens[f]) = 0

IInv ==
    /\ SessionsAssumption
    /\ TypeOK
    /\ RowsOK
    /\ \A p \in Processes : TxOK(tx[p], user, family, tokens)
    /\ Exclusive
    /\ LiveSessionIsCurrent
    /\ OneCurrentToken
    /\ LifetimeIsBounded
    /\ AdminRemains

-----------------------------------------------------------------------------
(* States *)

LEMMA IdleFits ==
    ASSUME SessionsAssumption, NEW us, NEW fam, NEW tok
    PROVE  /\ AnyUser \in Users /\ NewUser \in User
           /\ Idle \in Transaction /\ TxOK(Idle, us, fam, tok)
           /\ Idle.tenant = "none" /\ Idle.locks = {} /\ Idle.pc = "idle"
<1>1. AnyUser \in Users
  <2>1. \E u \in Users : TRUE
    BY DEF SessionsAssumption
  <2>2. QED
    BY <2>1 DEF AnyUser
<1>2. NewUser \in User
  BY DEF SessionsAssumption, NewUser, User
<1>3. Idle \in Transaction
  BY <1>1, <1>2 DEF SessionsAssumption, Idle, Transaction
<1>4. TxOK(Idle, us, fam, tok)
  BY DEF Idle, TxOK, LocksOK, LoginOK, PatchOK, FamiliesOK, RefreshOK, FamilyHolders
<1>5. QED
  BY <1>1, <1>2, <1>3, <1>4 DEF Idle

LEMMA FailedFits ==
    ASSUME SessionsAssumption, NEW us, NEW fam, NEW tok, NEW t, t = [Idle EXCEPT !.pc = "failed"]
    PROVE  /\ t \in Transaction /\ TxOK(t, us, fam, tok)
           /\ t.tenant = "none" /\ t.locks = {} /\ t.pc = "failed"
<1>1. t \in Transaction
  BY IdleFits DEF Transaction
<1>2. t.pc = "failed" /\ t.tenant = "none" /\ t.locks = {}
  BY DEF Idle
<1>3. TxOK(t, us, fam, tok)
  BY <1>2 DEF TxOK, LocksOK, LoginOK, PatchOK, FamiliesOK, RefreshOK, FamilyHolders
<1>4. QED
  BY <1>1, <1>2, <1>3

LEMMA InitIInv == Init => IInv
<1> SUFFICES ASSUME Init PROVE IInv
  OBVIOUS
<1> USE SessionsAssumption
<1>1. \A p \in Processes : tx[p] = Idle
  BY DEF Init
<1>2. \A f \in Families : /\ tokens[f] = <<>> /\ Len(tokens[f]) = 0
                          /\ tokens[f] \in Seq(States)
                          /\ family[f].state = "absent" /\ ~family[f].absolute
  <2> SUFFICES ASSUME NEW f \in Families
               PROVE  /\ tokens[f] = <<>> /\ Len(tokens[f]) = 0 /\ tokens[f] \in Seq(States)
                      /\ family[f].state = "absent" /\ ~family[f].absolute
    OBVIOUS
  <2>1. tokens[f] = <<>>
    BY DEF Init
  <2>2. Len(tokens[f]) = 0 /\ tokens[f] \in Seq(States)
    BY <2>1, EmptySeq
  <2>3. family[f].state = "absent" /\ ~family[f].absolute
    BY DEF Init
  <2>4. QED
    BY <2>1, <2>2, <2>3
<1>3. TypeOK
  <2>1. user \in [Users -> User]
    <3> DEFINE first == [role |-> "tenant_admin", active |-> TRUE, version |-> 1, password |-> 1]
    <3>1. 1 \in 0 .. MaxVersions /\ 1 \in 0 .. MaxPasswords
      BY DEF SessionsAssumption
    <3>2. first \in User
      BY <3>1 DEF User, Roles
    <3>3. NewUser \in User
      BY IdleFits
    <3>4. user = [u \in Users |-> IF u \in FirstAdmins THEN first ELSE NewUser]
      BY DEF Init
    <3> HIDE DEF first
    <3>5. QED
      BY <3>2, <3>3, <3>4
  <2>2. family \in [Families -> Family]
    <3> DEFINE none == [user |-> AnyUser, state |-> "absent", role |-> "tenant_admin",
                        password |-> 0, absolute |-> FALSE]
    <3>1. none \in Family
      BY IdleFits DEF Family, Roles, SessionsAssumption
    <3>2. family = [f \in Families |-> none]
      BY DEF Init
    <3> HIDE DEF none
    <3>3. QED
      BY <3>1, <3>2
  <2>3. tx \in [Processes -> Transaction] /\ expired = {}
    BY IdleFits DEF Init
  <2>4. tokens \in [Families -> Seq({"current", "used"})]
    <3>1. <<>> \in Seq({"current", "used"})
      BY EmptySeq
    <3>2. QED
      BY <3>1 DEF Init
  <2>5. \A f \in Families : Len(tokens[f]) <= MaxTokens
    BY <1>2 DEF SessionsAssumption
  <2>6. QED
    BY <2>1, <2>2, <2>3, <2>4, <2>5 DEF TypeOK
<1>4. RowsOK
  BY <1>2 DEF Init, RowsOK, NewUser, Roles
<1>5. \A p \in Processes : TxOK(tx[p], user, family, tokens)
  BY <1>1, IdleFits
<1>6. Exclusive
  BY <1>1, IdleFits DEF Exclusive, Compatible
<1>7. LiveSessionIsCurrent /\ OneCurrentToken /\ LifetimeIsBounded
  BY <1>2 DEF LiveSessionIsCurrent, OneCurrentToken, LifetimeIsBounded
<1>8. AdminRemains
  <2>1. PICK u \in FirstAdmins : u \in Users
    BY DEF SessionsAssumption
  <2>2. u \in ActiveAdmins
    BY <2>1 DEF Init, ActiveAdmins
  <2>3. QED
    BY <2>2 DEF AdminRemains
<1>9. QED
  BY <1>3, <1>4, <1>5, <1>6, <1>7, <1>8 DEF IInv

-----------------------------------------------------------------------------
(* Steps that write nothing yet *)

\* What the invariant says of a transaction depends neither on who is older nor on
\* what is younger.
Alike(t, s) ==
    /\ s \in Transaction
    /\ s.pc = t.pc /\ s.user = t.user /\ s.seen = t.seen /\ s.next = t.next
    /\ s.reason = t.reason /\ s.family = t.family /\ s.token = t.token
    /\ s.csrf = t.csrf /\ s.tenant = t.tenant /\ s.locks = t.locks /\ s.todo = t.todo

LEMMA AlikeFits ==
    ASSUME NEW t, NEW s, Alike(t, s), NEW us, NEW fam, NEW tok
    PROVE  TxOK(t, us, fam, tok) => TxOK(s, us, fam, tok)
BY DEF Alike, TxOK, LocksOK, LoginOK, PatchOK, FamiliesOK, RefreshOK

\* The transactions after a step of p, which is then at t.
Moved(p, t) ==
    /\ tx' \in [Processes -> Transaction]
    /\ tx'[p] = t
    /\ \A q \in Processes \ {p} : Alike(tx[q], tx'[q])

LEMMA MoveAlone ==
    ASSUME TypeOK, NEW p \in Processes, NEW t \in Transaction, tx' = [tx EXCEPT ![p] = t]
    PROVE  Moved(p, t)
BY DEF TypeOK, Moved, Alike

\* A transaction with other processes older or rows younger.
LEMMA SetAges ==
    ASSUME NEW t \in Transaction, NEW o \in SUBSET Processes,
           NEW y \in SUBSET (Families \cup Users)
    PROVE  Alike(t, [t EXCEPT !.older = o, !.younger = y])
<1> DEFINE s == [t EXCEPT !.older = o, !.younger = y]
<1>1. s \in Transaction
  BY DEF Transaction
<1>2. /\ s.pc = t.pc /\ s.user = t.user /\ s.seen = t.seen /\ s.next = t.next
      /\ s.reason = t.reason /\ s.family = t.family /\ s.token = t.token
      /\ s.csrf = t.csrf /\ s.tenant = t.tenant /\ s.locks = t.locks /\ s.todo = t.todo
  BY DEF Transaction
<1>3. QED
  BY <1>1, <1>2 DEF Alike

LEMMA MoveLeaving ==
    ASSUME TypeOK, NEW p \in Processes, NEW t \in Transaction,
           NEW rows \in SUBSET (Families \cup Users), Leave(p, t, rows)
    PROVE  Moved(p, t)
<1> DEFINE s(q) == [tx[q] EXCEPT !.older = @ \ {p},
                          !.younger = IF q \in tx[p].older THEN @ \cup rows ELSE @]
<1>1. ASSUME NEW q \in Processes PROVE Alike(tx[q], s(q))
  <2>1. tx[q] \in Transaction
    BY DEF TypeOK
  <2>2. tx[q].older \ {p} \in SUBSET Processes
    BY <2>1 DEF Transaction
  <2>3. (IF q \in tx[p].older THEN tx[q].younger \cup rows ELSE tx[q].younger)
            \in SUBSET (Families \cup Users)
    BY <2>1 DEF Transaction
  <2>4. QED
    BY <2>1, <2>2, <2>3, SetAges
<1>2. tx' = [q \in Processes |-> IF q = p THEN t ELSE s(q)]
  BY DEF Leave
<1> HIDE DEF s
<1>3. QED
  BY <1>1, <1>2 DEF Moved, Alike

\* The invariant of the transactions after a step of p.
LEMMA TransactionsFit ==
    ASSUME IInv, NEW p \in Processes, NEW t, Moved(p, t),
           TxOK(t, user', family', tokens'),
           \A q \in Processes \ {p} : Compatible(t, tx[q]),
           \A q \in Processes \ {p} : TxOK(tx[q], user', family', tokens')
    PROVE  (\A q \in Processes : TxOK(tx[q], user, family, tokens))' /\ Exclusive'
<1>1. ASSUME NEW q \in Processes PROVE TxOK(tx'[q], user', family', tokens')
  <2>1. CASE q = p
    BY <2>1 DEF Moved
  <2>2. CASE q # p
    BY <2>2, AlikeFits DEF Moved
  <2>3. QED
    BY <2>1, <2>2
<1>2. ASSUME NEW q \in Processes, NEW r \in Processes, q # r
      PROVE  Compatible(tx'[q], tx'[r])
  <2>1. CASE q # p /\ r # p
    BY <1>2, <2>1 DEF IInv, Exclusive, Compatible, Moved, Alike
  <2>2. CASE q = p
    BY <1>2, <2>2 DEF Compatible, Moved, Alike
  <2>3. CASE r = p
    BY <1>2, <2>3 DEF Compatible, Moved, Alike
  <2>4. QED
    BY <2>1, <2>2, <2>3
<1>3. QED
  BY <1>1, <1>2 DEF Exclusive

\* A step of p that changes no row.
LEMMA LocalStep ==
    ASSUME IInv, NEW p \in Processes, NEW t, Moved(p, t),
           UNCHANGED <<user, family, tokens, expired>>,
           TxOK(t, user, family, tokens),
           \A q \in Processes \ {p} : Compatible(t, tx[q])
    PROVE  IInv'
<1>1. TypeOK'
  BY DEF IInv, TypeOK, Moved
<1>2. (\A q \in Processes : TxOK(tx[q], user, family, tokens))' /\ Exclusive'
  BY TransactionsFit DEF IInv
<1>3. RowsOK' /\ AdminRemains'
  BY DEF IInv, RowsOK, AdminRemains, ActiveAdmins
<1>4. LiveSessionIsCurrent' /\ OneCurrentToken' /\ LifetimeIsBounded'
  BY DEF IInv, LiveSessionIsCurrent, OneCurrentToken, LifetimeIsBounded
<1>5. QED
  BY <1>1, <1>2, <1>3, <1>4 DEF IInv, SessionsAssumption

\* Without locks a transaction is compatible with every other.
LEMMA Unlocked ==
    ASSUME NEW t, NEW s, t.tenant = "none", t.locks = {}
    PROVE  Compatible(t, s)
BY DEF Compatible

LEMMA StopInv ==
    ASSUME IInv, NEW p \in Processes, End(p) \/ Fail(p),
           UNCHANGED <<user, family, tokens, expired>>
    PROVE  IInv'
<1> DEFINE failed == [Idle EXCEPT !.pc = "failed"]
<1>0. SessionsAssumption /\ TypeOK /\ {} \in SUBSET (Families \cup Users)
  BY DEF IInv
<1>1. CASE End(p)
  <2>1. Moved(p, Idle)
    BY <1>0, <1>1, IdleFits, MoveLeaving DEF End
  <2>2. QED
    BY <1>0, <2>1, IdleFits, Unlocked, LocalStep
<1>2. CASE Fail(p)
  <2>1. failed \in Transaction /\ failed.tenant = "none" /\ failed.locks = {}
        /\ TxOK(failed, user, family, tokens)
    BY <1>0, FailedFits
  <2>2. Moved(p, failed)
    BY <1>0, <1>2, <2>1, MoveLeaving DEF Fail
  <2> HIDE DEF failed
  <2>3. QED
    BY <2>1, <2>2, Unlocked, LocalStep
<1>3. QED
  BY <1>1, <1>2

\* A step of p to t.
LEMMA AloneInv ==
    ASSUME IInv, NEW p \in Processes, NEW t \in Transaction, tx' = [tx EXCEPT ![p] = t],
           UNCHANGED <<user, family, tokens, expired>>,
           TxOK(t, user, family, tokens),
           \A q \in Processes \ {p} : Compatible(t, tx[q])
    PROVE  IInv'
<1>1. Moved(p, t)
  BY MoveAlone DEF IInv
<1>2. QED
  BY <1>1, LocalStep

LEMMA BeginInv ==
    ASSUME IInv, NEW p \in Processes, NEW t \in Transaction, Begin(p, t),
           UNCHANGED <<user, family, tokens, expired>>,
           TxOK(t, user, family, tokens), t.tenant = "none", t.locks = {}
    PROVE  IInv'
<1> DEFINE older == {q \in Processes : UnderWay(q)}
           s == [t EXCEPT !.older = older]
<1>1. tx' = [tx EXCEPT ![p] = s]
  BY DEF Begin
<1>2. older \in SUBSET Processes
  OBVIOUS
<1> HIDE DEF older
<1>3. s \in Transaction /\ Alike(t, s)
  BY <1>2 DEF Transaction, Alike
<1>4. s.tenant = "none" /\ s.locks = {}
  BY <1>3 DEF Alike
<1>5. TxOK(s, user, family, tokens)
  BY <1>3, AlikeFits
<1> HIDE DEF s
<1>6. QED
  BY <1>1, <1>3, <1>4, <1>5, Unlocked, AloneInv

LEMMA FindCandidateInv ==
    ASSUME IInv, NEW p \in Processes, NEW u \in Users, FindCandidate(p, u)
    PROVE  IInv'
<1> DEFINE read == [NewUser EXCEPT !.password = user[u].password]
           t == [Idle EXCEPT !.pc = "loginBegin", !.user = u, !.seen = read]
<1>1. read \in User /\ read.password # 0
  BY IdleFits DEF FindCandidate, IInv, TypeOK, User, NewUser
<1>2. tx' = [tx EXCEPT ![p] = t] /\ UNCHANGED <<user, family, tokens, expired>>
  BY DEF FindCandidate
<1> HIDE DEF read
<1>3. t \in Transaction
  BY <1>1, IdleFits DEF IInv, Transaction
<1>4. t.pc = "loginBegin" /\ t.tenant = "none" /\ t.locks = {} /\ t.seen = read
  BY DEF Idle
<1> HIDE DEF t
<1>5. TxOK(t, user, family, tokens)
  BY <1>1, <1>4 DEF TxOK, LocksOK, LoginOK, PatchOK, FamiliesOK, RefreshOK, FamilyHolders
<1>6. QED
  BY <1>2, <1>3, <1>4, <1>5, Unlocked, AloneInv

LEMMA LoginBeginInv == ASSUME IInv, NEW p \in Processes, LoginBegin(p) PROVE IInv'
<1> DEFINE t == [tx[p] EXCEPT !.pc = "login"]
<1>1. tx[p] \in Transaction /\ TxOK(tx[p], user, family, tokens) /\ tx[p].pc = "loginBegin"
  BY DEF IInv, TypeOK, LoginBegin
<1>2. Begin(p, t) /\ UNCHANGED <<user, family, tokens, expired>>
  BY DEF LoginBegin
<1>3. /\ t \in Transaction
      /\ t.pc = "login" /\ t.tenant = tx[p].tenant /\ t.locks = tx[p].locks
      /\ t.seen = tx[p].seen
  BY <1>1 DEF Transaction
<1>4. t.tenant = "none" /\ t.locks = {}
  BY <1>1, <1>3 DEF TxOK, LocksOK, FamilyHolders
<1> HIDE DEF t
<1>5. TxOK(t, user, family, tokens)
  BY <1>1, <1>3, <1>4
     DEF TxOK, LocksOK, LoginOK, PatchOK, FamiliesOK, RefreshOK, FamilyHolders
<1>6. QED
  BY <1>2, <1>3, <1>4, <1>5, BeginInv

\* The proof is checked under the lock, which nobody else can have.
LEMMA LoginLockInv == ASSUME IInv, NEW p \in Processes, LoginLock(p) PROVE IInv'
<1> DEFINE u == user[tx[p].user]
           t == [tx[p] EXCEPT !.pc = "loginCommit", !.tenant = "update"]
<1>1. /\ tx[p] \in Transaction /\ TxOK(tx[p], user, family, tokens) /\ tx[p].pc = "login"
      /\ UNCHANGED <<user, family, tokens, expired>>
  BY DEF IInv, TypeOK, LoginLock
<1>2. CASE End(p)
  BY <1>1, <1>2, StopInv
<1>3. CASE /\ u.password = tx[p].seen.password /\ u.active /\ NewFamily
           /\ tx' = [tx EXCEPT ![p].pc = "loginCommit", ![p].tenant = "update"]
  <2>1. tx' = [tx EXCEPT ![p] = t]
    BY <1>3 DEF LoginLock, IInv, TypeOK
  <2>2. /\ t \in Transaction
        /\ t.pc = "loginCommit" /\ t.tenant = "update" /\ t.locks = tx[p].locks
        /\ t.seen = tx[p].seen /\ t.user = tx[p].user
    BY <1>1 DEF Transaction
  <2> HIDE DEF t
  <2>3. TxOK(t, user, family, tokens)
    BY <1>1, <1>3, <2>2
       DEF TxOK, LocksOK, LoginOK, PatchOK, FamiliesOK, RefreshOK, FamilyHolders
  <2>4. \A q \in Processes \ {p} : Compatible(t, tx[q])
    BY <1>1, <2>2 DEF LoginLock, TenantFree, Compatible, TxOK, LocksOK, FamilyHolders
  <2>5. QED
    BY <1>1, <2>1, <2>2, <2>3, <2>4, AloneInv
<1>4. QED
  BY <1>2, <1>3 DEF LoginLock

LEMMA BeginCreateInv ==
    ASSUME IInv, NEW p \in Processes, NEW u \in Users, NEW role \in Roles,
           NEW active \in BOOLEAN, BeginCreate(p, u, role, active)
    PROVE  IInv'
<1> DEFINE next == [NewUser EXCEPT !.role = role, !.active = active, !.version = 1]
           t == [Idle EXCEPT !.pc = "create", !.user = u, !.next = next]
<1>0. 1 \in 0 .. MaxVersions
  BY DEF IInv, SessionsAssumption
<1>1. next \in User /\ next.role \in Roles
  BY <1>0, IdleFits DEF IInv, User, NewUser
<1>2. Begin(p, t) /\ UNCHANGED <<user, family, tokens, expired>>
  BY DEF BeginCreate
<1> HIDE DEF next
<1>3. t \in Transaction
  BY <1>1, IdleFits DEF IInv, Transaction
<1>4. t.pc = "create" /\ t.tenant = "none" /\ t.locks = {} /\ t.next = next
  BY DEF Idle
<1> HIDE DEF t
<1>5. TxOK(t, user, family, tokens)
  BY <1>1, <1>4 DEF TxOK, LocksOK, LoginOK, PatchOK, FamiliesOK, RefreshOK, FamilyHolders
<1>6. QED
  BY <1>2, <1>3, <1>4, <1>5, BeginInv

LEMMA BeginPatchInv ==
    ASSUME IInv, NEW p \in Processes, NEW u \in Users, NEW role \in Roles,
           NEW active \in BOOLEAN, BeginPatch(p, u, role, active)
    PROVE  IInv'
<1> DEFINE next == [NewUser EXCEPT !.role = role, !.active = active]
           read == [NewUser EXCEPT !.version = user[u].version]
           t == [Idle EXCEPT !.pc = "patch", !.user = u, !.seen = read, !.next = next]
<1>1. next \in User /\ next.role \in Roles
  BY IdleFits DEF IInv, User, NewUser
<1>2. read \in User /\ read.version < MaxVersions
  BY IdleFits DEF IInv, TypeOK, User, NewUser, BeginPatch
<1>3. Begin(p, t) /\ UNCHANGED <<user, family, tokens, expired>>
  BY DEF BeginPatch
<1> HIDE DEF next, read
<1>4. t \in Transaction
  BY <1>1, <1>2, IdleFits DEF IInv, Transaction
<1>5. /\ t.pc = "patch" /\ t.tenant = "none" /\ t.locks = {}
      /\ t.next = next /\ t.seen = read
  BY DEF Idle
<1> HIDE DEF t
<1>6. TxOK(t, user, family, tokens)
  BY <1>1, <1>2, <1>5
     DEF TxOK, LocksOK, LoginOK, PatchOK, FamiliesOK, RefreshOK, FamilyHolders
<1>7. QED
  BY <1>3, <1>4, <1>5, <1>6, BeginInv

LEMMA BeginPasswordInv ==
    ASSUME IInv, NEW p \in Processes, NEW u \in Users, BeginPassword(p, u)
    PROVE  IInv'
<1> DEFINE t == [Idle EXCEPT !.pc = "password", !.user = u]
<1>1. Begin(p, t) /\ UNCHANGED <<user, family, tokens, expired>>
  BY DEF BeginPassword
<1>2. t \in Transaction
  BY IdleFits DEF IInv, Transaction
<1>3. t.pc = "password" /\ t.tenant = "none" /\ t.locks = {}
  BY DEF Idle
<1> HIDE DEF t
<1>4. TxOK(t, user, family, tokens)
  BY <1>3 DEF TxOK, LocksOK, LoginOK, PatchOK, FamiliesOK, RefreshOK, FamilyHolders
<1>5. QED
  BY <1>1, <1>2, <1>3, <1>4, BeginInv

\* A refresh of the last token leaves room for its child.
LEMMA BeginRefreshInv ==
    ASSUME IInv, NEW p \in Processes, NEW f \in Families, NEW i \in 1 .. MaxTokens,
           NEW csrf \in BOOLEAN, BeginRefresh(p, f, i, csrf)
    PROVE  IInv'
<1> DEFINE valid == <<f, i>> \notin expired /\ ~family[f].absolute
           t == [Idle EXCEPT !.pc = "refresh", !.family = f, !.token = i, !.csrf = csrf,
                             !.valid = valid]
<1>1. Begin(p, t) /\ UNCHANGED <<user, family, tokens, expired>>
  BY DEF BeginRefresh
<1>2. valid \in BOOLEAN
  OBVIOUS
<1>3. /\ MaxTokens \in Nat /\ tokens[f] \in Seq(States) /\ Len(tokens[f]) \in Nat
      /\ Len(tokens[f]) <= MaxTokens
  BY LenProperties DEF IInv, TypeOK, SessionsAssumption, States
<1>4. i \in 1 .. Len(tokens[f]) /\ i < MaxTokens /\ i \in 0 .. MaxTokens
  BY <1>3 DEF BeginRefresh
<1> HIDE DEF valid
<1>5. t \in Transaction
  BY <1>2, <1>4, IdleFits DEF IInv, Transaction
<1>6. /\ t.pc = "refresh" /\ t.tenant = "none" /\ t.locks = {}
      /\ t.family = f /\ t.token = i
  BY DEF Idle
<1> HIDE DEF t
<1>7. TxOK(t, user, family, tokens)
  BY <1>4, <1>6 DEF TxOK, LocksOK, LoginOK, PatchOK, FamiliesOK, RefreshOK, FamilyHolders
<1>8. QED
  BY <1>1, <1>5, <1>6, <1>7, BeginInv

LEMMA BeginLogoutInv ==
    ASSUME IInv, NEW p \in Processes, NEW f \in Families, NEW i \in 1 .. MaxTokens,
           NEW csrf \in BOOLEAN, BeginLogout(p, f, i, csrf)
    PROVE  IInv'
<1> DEFINE t == [Idle EXCEPT !.pc = "logout", !.family = f, !.token = i, !.csrf = csrf]
<1>1. Begin(p, t) /\ UNCHANGED <<user, family, tokens, expired>>
  BY DEF BeginLogout
<1>2. Len(tokens[f]) \in Nat /\ MaxTokens \in Nat
  BY LenProperties DEF IInv, TypeOK, SessionsAssumption
<1>3. i \in 1 .. Len(tokens[f]) /\ i \in 0 .. MaxTokens
  BY <1>2 DEF BeginLogout
<1>4. t \in Transaction
  BY <1>3, IdleFits DEF IInv, Transaction
<1>5. /\ t.pc = "logout" /\ t.tenant = "none" /\ t.locks = {}
      /\ t.family = f /\ t.token = i
  BY DEF Idle
<1> HIDE DEF t
<1>6. TxOK(t, user, family, tokens)
  BY <1>3, <1>5 DEF TxOK, LocksOK, LoginOK, PatchOK, FamiliesOK, RefreshOK, FamilyHolders
<1>7. QED
  BY <1>1, <1>4, <1>5, <1>6, BeginInv

\* A transaction waiting for the tenant gets it: it holds nothing, and nobody else
\* does.
LEMMA TenantLock ==
    ASSUME IInv, NEW p \in Processes, TenantFree(p), tx[p].locks = {},
           NEW t, t.locks = {}
    PROVE  \A q \in Processes \ {p} : Compatible(t, tx[q])
BY DEF TenantFree, Compatible

LEMMA SetDecision ==
    ASSUME NEW t \in Transaction, NEW next \in User,
           NEW reason \in Reasons \cup {"none", "rotate"}, NEW todo \in SUBSET Families
    PROVE  [t EXCEPT !.pc = "families", !.tenant = "update", !.next = next,
                     !.reason = reason, !.todo = todo] \in Transaction
BY DEF Transaction

\* The step that decides what a writer of users is going to write.
LEMMA DecideInv ==
    ASSUME IInv, NEW p \in Processes, TenantFree(p),
           tx[p].pc \in {"patch", "password"},
           NEW next \in User,
           NEW reason \in {"none", "user_inactive", "role_changed", "password_reset"},
           NEW todo \in SUBSET Families,
           tx' = [tx EXCEPT ![p].pc = "families", ![p].tenant = "update",
                            ![p].next = next, ![p].reason = reason, ![p].todo = todo],
           UNCHANGED <<user, family, tokens, expired>>,
           next.active => next.role \in Roles,
           todo = IF reason = "none" THEN {} ELSE LiveFamilies(tx[p].user),
           reason = "none" =>
               \A f \in LiveFamilies(tx[p].user) : Keeps(user[tx[p].user], next),
           \E u \in Users : Admin(IF u = tx[p].user THEN next ELSE user[u])
    PROVE  IInv'
<1> DEFINE t == [tx[p] EXCEPT !.pc = "families", !.tenant = "update", !.next = next,
                              !.reason = reason, !.todo = todo]
<1>1. tx[p] \in Transaction /\ TxOK(tx[p], user, family, tokens)
  BY DEF IInv, TypeOK
<1>2. tx[p].locks = {}
  BY <1>1 DEF TxOK, LocksOK, FamilyHolders
<1>3. tx' = [tx EXCEPT ![p] = t]
  BY DEF IInv, TypeOK
<1>4. reason \in Reasons \cup {"none", "rotate"}
  BY DEF Reasons
<1>5. /\ t \in Transaction
      /\ t.pc = "families" /\ t.tenant = "update" /\ t.next = next /\ t.reason = reason
      /\ t.todo = todo /\ t.locks = {} /\ t.user = tx[p].user
  <2>1. t \in Transaction
    BY <1>1, <1>4, SetDecision
  <2>2. t.pc = "families" /\ t.tenant = "update" /\ t.next = next /\ t.reason = reason
    BY <1>1 DEF Transaction
  <2>3. t.todo = todo /\ t.locks = {} /\ t.user = tx[p].user
    BY <1>1, <1>2 DEF Transaction
  <2>4. QED
    BY <2>1, <2>2, <2>3
<1> HIDE DEF t
<1>6. LocksOK(t) /\ LoginOK(t, user) /\ PatchOK(t) /\ RefreshOK(t, family, tokens)
  BY <1>5 DEF LocksOK, LoginOK, PatchOK, RefreshOK, FamilyHolders
<1>7. FamiliesOK(t, user, family)
  BY <1>5 DEF FamiliesOK, LiveFamilies
<1>8. \A q \in Processes \ {p} : Compatible(t, tx[q])
  BY <1>2, <1>5, TenantLock
<1>9. QED
  BY <1>3, <1>5, <1>6, <1>7, <1>8, AloneInv DEF TxOK

\* An administrator is only removed while there is another.
LEMMA PatchUserInv == ASSUME IInv, NEW p \in Processes, PatchUser(p) PROVE IInv'
<1> DEFINE u == tx[p].user
           next == [user[u] EXCEPT !.role = tx[p].next.role, !.active = tx[p].next.active,
                                   !.version = @ + 1]
           reason == FamilyRevocationReason(user[u], next)
           todo == IF reason = "none" THEN {} ELSE LiveFamilies(u)
           stale == user[u].version # tx[p].seen.version
           lastAdmin == /\ u \in ActiveAdmins
                        /\ ~(next.role = "tenant_admin" /\ next.active)
                        /\ Cardinality(ActiveAdmins) <= 1
<1>1. /\ tx[p] \in Transaction /\ TxOK(tx[p], user, family, tokens) /\ tx[p].pc = "patch"
      /\ UNCHANGED <<user, family, tokens, expired>> /\ TenantFree(p)
      /\ u \in Users /\ user[u] \in User
  BY DEF IInv, TypeOK, PatchUser, Transaction
<1>2. CASE stale \/ lastAdmin
  BY <1>1, <1>2, StopInv DEF PatchUser
<1>3. CASE ~(stale \/ lastAdmin)
  <2>1. tx' = [tx EXCEPT ![p].pc = "families", ![p].tenant = "update",
                         ![p].next = next, ![p].reason = reason, ![p].todo = todo]
    BY <1>3 DEF PatchUser
  <2>2. user[u].version + 1 \in 0 .. MaxVersions
    BY <1>1, <1>3 DEF TxOK, PatchOK, User, Transaction, IInv, SessionsAssumption
  <2>3. tx[p].next.role \in Roles /\ tx[p].next.active \in BOOLEAN
    BY <1>1 DEF TxOK, PatchOK, Transaction, User
  <2>4. /\ next \in User
        /\ next.role \in Roles /\ next.password = user[u].password
    BY <1>1, <2>2, <2>3 DEF User
  <2>5. reason \in {"none", "user_inactive", "role_changed", "password_reset"}
    BY DEF FamilyRevocationReason
  <2>6. reason = "none" => Keeps(user[u], next)
    BY <1>1, <2>4 DEF FamilyRevocationReason, Keeps, User
  <2>7. \E v \in Users : Admin(IF v = u THEN next ELSE user[v])
    <3>1. CASE Admin(next)
      BY <1>1, <3>1
    <3>2. CASE ~Admin(next)
      <4>1. PICK v \in ActiveAdmins : v # u
        <5>1. CASE u \notin ActiveAdmins
          BY <5>1 DEF IInv, AdminRemains
        <5>2. CASE u \in ActiveAdmins
          <6>1. ~(Cardinality(ActiveAdmins) <= 1)
            BY <1>3, <3>2, <5>2 DEF Admin
          <6>2. Cardinality({u}) = 1
            BY FS_Singleton
          <6>3. ActiveAdmins # {u}
            BY <6>1, <6>2
          <6>4. QED
            BY <5>2, <6>3
        <5>3. QED
          BY <5>1, <5>2
      <4>2. QED
        BY <4>1 DEF ActiveAdmins, Admin
    <3>3. QED
      BY <3>1, <3>2
  <2>8. todo \in SUBSET Families
    BY DEF LiveFamilies
  <2>9. /\ todo = IF reason = "none" THEN {} ELSE LiveFamilies(u)
        /\ reason = "none" => \A f \in LiveFamilies(u) : Keeps(user[u], next)
    BY <2>6
  <2> HIDE DEF next, reason, todo, stale, lastAdmin
  <2>10. QED
    BY <1>1, <2>1, <2>4, <2>5, <2>7, <2>8, <2>9, DecideInv
<1>4. QED
  BY <1>2, <1>3

LEMMA SetPasswordInv == ASSUME IInv, NEW p \in Processes, SetPassword(p) PROVE IInv'
<1> DEFINE u == tx[p].user
           next == [user[u] EXCEPT !.password = @ + 1]
           todo == LiveFamilies(u)
<1>1. /\ tx[p] \in Transaction /\ tx[p].pc = "password"
      /\ UNCHANGED <<user, family, tokens, expired>> /\ TenantFree(p)
      /\ u \in Users /\ user[u] \in User
  BY DEF IInv, TypeOK, SetPassword, Transaction
<1>2. CASE u \in tx[p].younger \/ user[u].password = MaxPasswords
  BY <1>1, <1>2, StopInv DEF SetPassword
<1>3. CASE ~(u \in tx[p].younger \/ user[u].password = MaxPasswords)
  <2>1. tx' = [tx EXCEPT ![p].pc = "families", ![p].tenant = "update",
                         ![p].next = next, ![p].reason = "password_reset", ![p].todo = todo]
    BY <1>3 DEF SetPassword
  <2>2. user[u].password + 1 \in 0 .. MaxPasswords
    BY <1>1, <1>3 DEF User, IInv, SessionsAssumption
  <2>3. /\ next \in User
        /\ next.role = user[u].role /\ next.active = user[u].active
    BY <1>1, <2>2 DEF User
  <2>4. next.active => next.role \in Roles
    BY <1>1, <2>3 DEF IInv, RowsOK
  <2>5. \E v \in Users : Admin(IF v = u THEN next ELSE user[v])
    BY <2>3 DEF IInv, AdminRemains, ActiveAdmins, Admin
  <2>6. todo \in SUBSET Families
    BY DEF LiveFamilies
  <2>7. todo = LiveFamilies(u)
    OBVIOUS
  <2> HIDE DEF next, todo
  <2>8. QED
    BY <1>1, <2>1, <2>3, <2>4, <2>5, <2>6, <2>7, DecideInv
<1>4. QED
  BY <1>2, <1>3

-----------------------------------------------------------------------------
(* Families *)

\* The writer of users locks one family more.
LEMMA RevokeNextInv ==
    ASSUME IInv, NEW p \in Processes, NEW f \in Families, RevokeNext(p, f)
    PROVE  IInv'
<1> DEFINE todo == tx[p].todo \ {f}
           locks == tx[p].locks \cup {f}
           t == [tx[p] EXCEPT !.todo = todo, !.locks = locks]
<1>1. /\ tx[p] \in Transaction /\ TxOK(tx[p], user, family, tokens)
      /\ tx[p].pc = "families" /\ f \in tx[p].todo
      /\ FamilyFree(p, f) /\ UNCHANGED <<user, family, tokens, expired>>
  BY DEF IInv, TypeOK, RevokeNext
<1>2. CASE family[f].state = "live" /\ f \in tx[p].younger
  BY <1>1, <1>2, StopInv DEF RevokeNext
<1>3. CASE ~(family[f].state = "live" /\ f \in tx[p].younger)
  <2>1. tx' = [tx EXCEPT ![p] = t]
    BY <1>3 DEF RevokeNext, IInv, TypeOK
  <2>2. todo \in SUBSET Families /\ locks \in SUBSET Families
    BY <1>1 DEF Transaction
  <2>3. todo \cup locks = tx[p].todo \cup tx[p].locks
    BY <1>1
  <2>4. tx[p].reason # "none"
    BY <1>1 DEF TxOK, FamiliesOK
  <2>5. \A q \in Processes \ {p} : locks \cap tx[q].locks = {}
    BY <1>1 DEF IInv, Exclusive, Compatible, FamilyFree, Holds
  <2> HIDE DEF todo, locks
  <2>6. /\ t \in Transaction
        /\ t.pc = "families" /\ t.tenant = tx[p].tenant /\ t.next = tx[p].next
        /\ t.reason = tx[p].reason /\ t.user = tx[p].user
        /\ t.todo = todo /\ t.locks = locks
    BY <1>1, <2>2 DEF Transaction
  <2> HIDE DEF t
  <2>7. LocksOK(t) /\ LoginOK(t, user) /\ PatchOK(t) /\ RefreshOK(t, family, tokens)
    BY <1>1, <2>6 DEF TxOK, LocksOK, LoginOK, PatchOK, RefreshOK, FamilyHolders
  <2>8. FamiliesOK(t, user, family)
    BY <1>1, <2>3, <2>4, <2>6 DEF TxOK, FamiliesOK
  <2>9. \A q \in Processes \ {p} : Compatible(t, tx[q])
    BY <2>5, <2>6 DEF IInv, Exclusive, Compatible
  <2>10. QED
    BY <1>1, <2>1, <2>6, <2>7, <2>8, <2>9, AloneInv DEF TxOK
<1>4. QED
  BY <1>2, <1>3

LEMMA LockFamilyInv == ASSUME IInv, NEW p \in Processes, LockFamily(p) PROVE IInv'
<1> DEFINE pc == IF tx[p].pc = "refresh" THEN "refreshRead" ELSE "logoutRead"
           t == [tx[p] EXCEPT !.pc = pc, !.locks = {tx[p].family}]
<1>1. /\ tx[p] \in Transaction /\ TxOK(tx[p], user, family, tokens)
      /\ tx[p].pc \in {"refresh", "logout"}
      /\ FamilyFree(p, tx[p].family) /\ UNCHANGED <<user, family, tokens, expired>>
      /\ tx' = [tx EXCEPT ![p] = t]
  BY DEF IInv, TypeOK, LockFamily
<1>2. /\ tx[p].family \in Families /\ tx[p].tenant = "none"
      /\ tx[p].token \in 1 .. Len(tokens[tx[p].family])
      /\ tx[p].pc = "refresh" => tx[p].token < MaxTokens
  BY <1>1 DEF TxOK, LocksOK, RefreshOK
<1>3. /\ pc \in {"refreshRead", "logoutRead"}
      /\ pc = "refreshRead" => tx[p].pc = "refresh"
  OBVIOUS
<1> HIDE DEF pc
<1>4. /\ t \in Transaction
      /\ t.pc = pc /\ t.tenant = "none" /\ t.locks = {t.family}
      /\ t.family = tx[p].family /\ t.token = tx[p].token
  BY <1>1, <1>2, <1>3 DEF Transaction
<1> HIDE DEF t
<1>5. TxOK(t, user, family, tokens)
  BY <1>2, <1>3, <1>4
     DEF TxOK, LocksOK, LoginOK, PatchOK, FamiliesOK, RefreshOK, FamilyHolders
<1>6. \A q \in Processes \ {p} : Compatible(t, tx[q])
  BY <1>1, <1>2, <1>4 DEF Compatible, FamilyFree, Holds
<1>7. QED
  BY <1>1, <1>4, <1>5, <1>6, AloneInv

\* What refresh and logout decide, they decide of the family they hold.
LEMMA InsertInv ==
    ASSUME IInv, NEW p \in Processes, tx[p].pc \in {"refreshRead", "logoutRead"},
           NEW reason \in RefreshReasons,
           Insert(p, reason),
           UNCHANGED <<user, family, tokens, expired>>,
           family[tx[p].family].state = "live",
           reason = "rotate" => /\ tx[p].token < MaxTokens
                                /\ tokens[tx[p].family][tx[p].token] = "current"
    PROVE  IInv'
<1> DEFINE t == [tx[p] EXCEPT !.pc = "insert", !.reason = reason]
<1>1. /\ tx[p] \in Transaction /\ TxOK(tx[p], user, family, tokens)
      /\ tx' = [tx EXCEPT ![p] = t]
  BY DEF IInv, TypeOK, Insert
<1>2. reason \in Reasons \cup {"none", "rotate"}
  BY DEF Reasons, RefreshReasons
<1>3. /\ t \in Transaction
      /\ t.pc = "insert" /\ t.reason = reason /\ t.tenant = tx[p].tenant
      /\ t.locks = tx[p].locks /\ t.family = tx[p].family /\ t.token = tx[p].token
  BY <1>1, <1>2 DEF Transaction
<1> HIDE DEF t
<1>4. LocksOK(t) /\ LoginOK(t, user) /\ PatchOK(t) /\ FamiliesOK(t, user, family)
  BY <1>1, <1>3 DEF TxOK, LocksOK, LoginOK, PatchOK, FamiliesOK, FamilyHolders
<1>5. RefreshOK(t, family, tokens)
  BY <1>1, <1>3 DEF TxOK, RefreshOK, FamilyHolders
<1>6. \A q \in Processes \ {p} : Compatible(t, tx[q])
  BY <1>3 DEF IInv, Exclusive, Compatible
<1>7. QED
  BY <1>1, <1>3, <1>4, <1>5, <1>6, AloneInv DEF TxOK

LEMMA EvaluateRefreshInv ==
    ASSUME IInv, NEW p \in Processes, EvaluateRefresh(p) PROVE IInv'
<1> DEFINE f == tx[p].family
           i == tx[p].token
           live == family[f].state = "live"
           ended == ~tx[p].csrf \/ ~live
           active == user[family[f].user].active
           used == tokens[f][i] = "used"
<1>1. /\ tx[p].pc = "refreshRead" /\ UNCHANGED <<user, family, tokens, expired>>
      /\ IF ended THEN End(p)
         ELSE \/ Insert(p, "tenant_inactive")
              \/ IF ~active THEN Insert(p, "user_inactive")
                 ELSE IF used THEN Insert(p, "reuse_detected")
                 ELSE IF ~tx[p].valid THEN End(p)
                 ELSE Insert(p, "rotate")
  BY DEF EvaluateRefresh
<1>2. i < MaxTokens /\ tokens[f][i] \in States
  <2>1. f \in Families /\ i \in 1 .. Len(tokens[f]) /\ i < MaxTokens
    BY <1>1 DEF IInv, TxOK, LocksOK, RefreshOK, FamilyHolders
  <2>2. tokens[f] \in Seq(States)
    BY <2>1 DEF IInv, TypeOK, States
  <2> HIDE DEF f, i
  <2>3. QED
    BY <2>1, <2>2, ElementOfSeq
<1>3. CASE End(p)
  BY <1>1, <1>3, StopInv
<1>4. CASE ~ended /\ (Insert(p, "tenant_inactive") \/ Insert(p, "user_inactive"))
  BY <1>1, <1>4, InsertInv DEF RefreshReasons
<1>5. CASE ~ended /\ Insert(p, "reuse_detected")
  BY <1>1, <1>5, InsertInv DEF RefreshReasons
<1>6. CASE ~ended /\ ~used /\ Insert(p, "rotate")
  <2>1. tokens[f][i] = "current"
    BY <1>2, <1>6 DEF States
  <2>2. QED
    BY <1>1, <1>2, <1>6, <2>1, InsertInv DEF RefreshReasons
<1> HIDE DEF ended, active, used
<1>7. QED
  BY <1>1, <1>3, <1>4, <1>5, <1>6

LEMMA EvaluateLogoutInv == ASSUME IInv, NEW p \in Processes, EvaluateLogout(p) PROVE IInv'
<1>1. tx[p].pc = "logoutRead" /\ UNCHANGED <<user, family, tokens, expired>>
  BY DEF EvaluateLogout
<1>2. CASE End(p)
  BY <1>1, <1>2, StopInv
<1>3. CASE family[tx[p].family].state = "live" /\ Insert(p, "logout")
  BY <1>1, <1>3, InsertInv DEF RefreshReasons
<1>4. QED
  BY <1>2, <1>3 DEF EvaluateLogout

LEMMA ForeignKeysInv == ASSUME IInv, NEW p \in Processes, ForeignKeys(p) PROVE IInv'
<1> DEFINE t == [tx[p] EXCEPT !.pc = "familyCommit", !.tenant = "share"]
<1>1. /\ tx[p] \in Transaction /\ TxOK(tx[p], user, family, tokens)
      /\ tx[p].pc = "insert" /\ TenantShareable(p)
      /\ UNCHANGED <<user, family, tokens, expired>>
      /\ tx' = [tx EXCEPT ![p] = t]
  BY DEF IInv, TypeOK, ForeignKeys
<1>2. /\ t \in Transaction
      /\ t.pc = "familyCommit" /\ t.tenant = "share" /\ t.locks = tx[p].locks
      /\ t.reason = tx[p].reason /\ t.family = tx[p].family /\ t.token = tx[p].token
  BY <1>1 DEF Transaction
<1> HIDE DEF t
<1>3. LocksOK(t) /\ LoginOK(t, user) /\ PatchOK(t) /\ FamiliesOK(t, user, family)
  BY <1>1, <1>2 DEF TxOK, LocksOK, LoginOK, PatchOK, FamiliesOK, FamilyHolders
<1>4. RefreshOK(t, family, tokens)
  BY <1>1, <1>2 DEF TxOK, RefreshOK, FamilyHolders
<1>5. \A q \in Processes \ {p} : Compatible(t, tx[q])
  BY <1>1, <1>2 DEF IInv, Exclusive, Compatible, TenantShareable
<1>6. QED
  BY <1>1, <1>2, <1>3, <1>4, <1>5, AloneInv DEF TxOK

-----------------------------------------------------------------------------
(* Commits *)

\* Nobody else is about to write users or insert a family while p holds the tenant.
LEMMA Excluded ==
    ASSUME IInv, NEW p \in Processes, TenantFree(p) \/ tx[p].tenant # "none",
           NEW q \in Processes \ {p}
    PROVE  tx[q].pc \notin {"loginCommit", "families"}
<1>1. tx[q].tenant # "update"
  BY DEF TenantFree, IInv, Exclusive, Compatible
<1>2. LocksOK(tx[q])
  BY DEF IInv, TxOK
<1>3. QED
  BY <1>1, <1>2 DEF LocksOK

\* Any other transaction relies on the rows of the family it holds only.
LEMMA OtherFits ==
    ASSUME NEW t, NEW us, NEW fam, NEW tok, TxOK(t, user, family, tokens),
           t.pc \notin {"loginCommit", "families"},
           t.pc \in FamilyHolders \cup {"refresh", "logout"} => t.token \in 1 .. Len(tok[t.family]),
           t.pc \in FamilyHolders => /\ fam[t.family].state = family[t.family].state
                                     /\ tok[t.family] = tokens[t.family]
    PROVE  TxOK(t, us, fam, tok)
<1>1. LocksOK(t) /\ PatchOK(t)
  BY DEF TxOK
<1>2. LoginOK(t, us) /\ FamiliesOK(t, us, fam)
  BY DEF TxOK, LoginOK, FamiliesOK
<1>3. RefreshOK(t, fam, tok)
  BY DEF TxOK, RefreshOK, FamilyHolders
<1>4. QED
  BY <1>1, <1>2, <1>3 DEF TxOK

LEMMA CommitInv ==
    ASSUME IInv, NEW p \in Processes, NEW rows \in SUBSET (Families \cup Users),
           Leave(p, Idle, rows),
           user' \in [Users -> User], family' \in [Families -> Family],
           tokens' \in [Families -> Seq(States)],
           \A f \in Families : Len(tokens'[f]) <= MaxTokens,
           expired' \subseteq Families \X (1 .. MaxTokens),
           \A q \in Processes \ {p} : TxOK(tx[q], user', family', tokens'),
           RowsOK', LiveSessionIsCurrent', OneCurrentToken', LifetimeIsBounded', AdminRemains'
    PROVE  IInv'
<1>1. SessionsAssumption /\ TypeOK
  BY DEF IInv
<1>2. /\ Idle \in Transaction /\ TxOK(Idle, user', family', tokens')
      /\ Idle.tenant = "none" /\ Idle.locks = {}
  BY <1>1, IdleFits
<1>3. Moved(p, Idle)
  BY <1>1, <1>2, MoveLeaving
<1>4. \A q \in Processes \ {p} : Compatible(Idle, tx[q])
  BY <1>2, Unlocked
<1>5. (\A q \in Processes : TxOK(tx[q], user, family, tokens))' /\ Exclusive'
  BY <1>2, <1>3, <1>4, TransactionsFit
<1>6. TypeOK'
  BY <1>3 DEF TypeOK, Moved, States
<1>7. QED
  BY <1>1, <1>5, <1>6 DEF IInv, SessionsAssumption

\* The password is the user's until the session is there.
LEMMA LoginCommitInv ==
    ASSUME IInv, NEW p \in Processes, NEW f \in Families, LoginCommit(p, f)
    PROVE  IInv'
<1> DEFINE u == tx[p].user
           row == [user |-> u, state |-> "live", role |-> user[u].role,
                   password |-> tx[p].seen.password, absolute |-> FALSE]
           token == <<"current">>
<1>1. /\ tx[p] \in Transaction /\ TxOK(tx[p], user, family, tokens)
      /\ tx[p].pc = "loginCommit" /\ family[f].state = "absent"
      /\ family' = [family EXCEPT ![f] = row] /\ tokens' = [tokens EXCEPT ![f] = token]
      /\ Leave(p, Idle, {f}) /\ UNCHANGED <<user, expired>>
      /\ u \in Users /\ user[u] \in User
  BY DEF IInv, TypeOK, LoginCommit, Transaction
<1>2. /\ user[u].active /\ user[u].password = tx[p].seen.password
      /\ user[u].role \in Roles /\ tx[p].tenant = "update"
  BY <1>1 DEF TxOK, LoginOK, LocksOK, IInv, RowsOK
<1>3. /\ row \in Family /\ row.state = "live" /\ row.user = u
      /\ row.role = user[u].role /\ row.password = tx[p].seen.password /\ ~row.absolute
  BY <1>1, <1>2 DEF Family, Transaction, User
<1>4. token \in Seq(States) /\ Len(token) = 1 /\ token[1] = "current"
  BY DEF States
<1>5. /\ family \in [Families -> Family]
      /\ family' \in [Families -> Family] /\ family'[f] = row
      /\ \A g \in Families \ {f} : family'[g] = family[g]
  BY <1>1, <1>3 DEF IInv, TypeOK
<1>6. \A g \in Families : tokens'[g] = IF g = f THEN token ELSE tokens[g]
  BY <1>1 DEF IInv, TypeOK
<1>7. \A q \in Processes \ {p} : TxOK(tx[q], user', family', tokens')
  <2> SUFFICES ASSUME NEW q \in Processes \ {p} PROVE TxOK(tx[q], user', family', tokens')
    OBVIOUS
  <2>1. TxOK(tx[q], user, family, tokens) /\ tx[q].pc \notin {"loginCommit", "families"}
    BY <1>2, Excluded DEF IInv
  <2>2. ASSUME tx[q].pc \in FamilyHolders \cup {"refresh", "logout"}
        PROVE  /\ tx[q].family \in Families \ {f}
               /\ tx[q].token \in 1 .. Len(tokens[tx[q].family])
    <3>1. tx[q].family \in Families /\ tx[q].token \in 1 .. Len(tokens[tx[q].family])
      BY <2>1, <2>2 DEF TxOK, LocksOK, RefreshOK
    <3>2. Len(tokens[f]) = 0
      BY <1>1 DEF IInv, RowsOK
    <3>3. QED
      BY <3>1, <3>2
  <2> HIDE DEF token
  <2>3. QED
    BY <1>5, <1>6, <2>1, <2>2, OtherFits
<1> HIDE DEF row, token
<1>8. RowsOK'
  <2>1. RowsOK /\ user' = user
    BY <1>1 DEF IInv
  <2>2. family'[f].state # "absent" /\ Len(tokens'[f]) # 0
    <3>1. family'[f] = row /\ tokens'[f] = token
      BY <1>5, <1>6
    <3>2. family'[f].state = "live"
      BY <1>3, <3>1
    <3>3. Len(tokens'[f]) = 1
      BY <1>4, <3>1
    <3>4. QED
      BY <3>2, <3>3
  <2>3. \A g \in Families \ {f} : family'[g] = family[g] /\ tokens'[g] = tokens[g]
    BY <1>5, <1>6
  <2>4. QED
    BY <2>1, <2>2, <2>3 DEF RowsOK
<1>9. LiveSessionIsCurrent'
  BY <1>1, <1>2, <1>3, <1>5 DEF IInv, LiveSessionIsCurrent
<1>10. OneCurrentToken'
  <2> SUFFICES ASSUME NEW g \in Families, NEW i \in 1 .. Len(tokens'[g])
               PROVE  tokens'[g][i] = "current" <=> i = Len(tokens'[g])
    BY DEF OneCurrentToken
  <2>1. CASE g = f
    <3>1. tokens'[g] = token
      BY <1>6, <2>1
    <3>2. Len(tokens'[g]) = 1 /\ tokens'[g][1] = "current"
      BY <1>4, <3>1
    <3>3. i = 1
      BY <3>2
    <3>4. QED
      BY <3>2, <3>3
  <2>2. CASE g # f
    <3>1. tokens'[g] = tokens[g]
      BY <1>6, <2>2
    <3>2. QED
      BY <3>1 DEF IInv, OneCurrentToken
  <2>3. QED
    BY <2>1, <2>2
<1>11. LifetimeIsBounded'
  <2>1. \A g \in Families \ {f} : tokens'[g] = tokens[g] /\ family'[g] = family[g]
    BY <1>5, <1>6
  <2>2. QED
    BY <1>1, <1>3, <1>5, <2>1 DEF IInv, LifetimeIsBounded
<1>12. /\ tokens' \in [Families -> Seq(States)]
       /\ \A g \in Families : Len(tokens'[g]) <= MaxTokens
  <2>1. /\ tokens \in [Families -> Seq(States)]
        /\ \A g \in Families : Len(tokens[g]) <= MaxTokens
        /\ MaxTokens \in Nat \ {0}
    BY DEF IInv, TypeOK, States, SessionsAssumption
  <2>2. tokens' \in [Families -> Seq(States)]
    BY <1>1, <1>4, <2>1
  <2>3. ASSUME NEW g \in Families PROVE Len(tokens'[g]) <= MaxTokens
    <3>1. CASE g = f
      <4>1. Len(tokens'[g]) = 1
        BY <1>4, <1>6, <3>1
      <4>2. QED
        BY <2>1, <4>1
    <3>2. CASE g # f
      <4>1. tokens'[g] = tokens[g]
        BY <1>6, <3>2
      <4>2. QED
        BY <2>1, <4>1
    <3>3. QED
      BY <3>1, <3>2
  <2>4. QED
    BY <2>2, <2>3
<1>13. AdminRemains' /\ user' \in [Users -> User] /\ expired' \subseteq Families \X (1 .. MaxTokens)
  BY <1>1 DEF IInv, TypeOK, AdminRemains, ActiveAdmins
<1>14. QED
  BY <1>1, <1>5, <1>7, <1>8, <1>9, <1>10, <1>11, <1>12, <1>13, CommitInv

\* A new user had no session and was no administrator.
LEMMA CreateUserInv == ASSUME IInv, NEW p \in Processes, CreateUser(p) PROVE IInv'
<1> DEFINE u == tx[p].user
           next == tx[p].next
<1>1. /\ tx[p] \in Transaction /\ TxOK(tx[p], user, family, tokens) /\ tx[p].pc = "create"
      /\ TenantFree(p) /\ End(p) /\ UNCHANGED <<family, tokens, expired>>
      /\ user' = IF user[u].role = "absent" THEN [user EXCEPT ![u] = next] ELSE user
  BY DEF IInv, TypeOK, CreateUser
<1>2. CASE user[u].role # "absent"
  BY <1>1, <1>2, StopInv
<1>3. CASE user[u].role = "absent"
  <2>1. /\ u \in Users /\ user[u] \in User /\ next \in User /\ next.role \in Roles
        /\ ~user[u].active
    BY <1>1, <1>3 DEF IInv, TypeOK, RowsOK, Transaction, TxOK, PatchOK, Roles, User
  <2>2. /\ user' \in [Users -> User] /\ user'[u] = next
        /\ \A v \in Users \ {u} : user'[v] = user[v]
    BY <1>1, <1>3, <2>1 DEF IInv, TypeOK
  <2> HIDE DEF next
  <2>3. \A q \in Processes \ {p} : TxOK(tx[q], user', family', tokens')
    <3> SUFFICES ASSUME NEW q \in Processes \ {p} PROVE TxOK(tx[q], user', family', tokens')
      OBVIOUS
    <3>1. TxOK(tx[q], user, family, tokens) /\ tx[q].pc \notin {"loginCommit", "families"}
      BY <1>1, Excluded DEF IInv
    <3>2. tx[q].pc \in FamilyHolders \cup {"refresh", "logout"} =>
              tx[q].token \in 1 .. Len(tokens[tx[q].family])
      BY <3>1 DEF TxOK, RefreshOK
    <3>3. QED
      BY <1>1, <3>1, <3>2, OtherFits
  <2>4. RowsOK'
    BY <1>1, <2>1, <2>2 DEF IInv, RowsOK
  <2>5. LiveSessionIsCurrent'
    <3> SUFFICES ASSUME NEW f \in Families, family[f].state = "live"
                 PROVE  LET v == user'[family[f].user] IN
                        v.active /\ v.role = family[f].role /\ v.password = family[f].password
      BY <1>1 DEF LiveSessionIsCurrent
    <3>1. LET v == user[family[f].user] IN
          v.active /\ v.role = family[f].role /\ v.password = family[f].password
      BY DEF IInv, LiveSessionIsCurrent
    <3>2. family[f].user \in Users \ {u}
      BY <2>1, <3>1 DEF IInv, TypeOK, Family
    <3>3. QED
      BY <2>2, <3>1, <3>2
  <2>6. OneCurrentToken' /\ LifetimeIsBounded'
    BY <1>1 DEF IInv, OneCurrentToken, LifetimeIsBounded
  <2>7. AdminRemains'
    <3>1. PICK v \in Users : user[v].role = "tenant_admin" /\ user[v].active
      BY DEF IInv, AdminRemains, ActiveAdmins
    <3>2. user'[v] = user[v]
      BY <2>1, <2>2, <3>1
    <3>3. QED
      BY <3>1, <3>2 DEF AdminRemains, ActiveAdmins
  <2>8. /\ family' \in [Families -> Family] /\ tokens' \in [Families -> Seq(States)]
        /\ \A f \in Families : Len(tokens'[f]) <= MaxTokens
        /\ expired' \subseteq Families \X (1 .. MaxTokens)
    BY <1>1 DEF IInv, TypeOK, States
  <2>9. Leave(p, Idle, {}) /\ {} \in SUBSET (Families \cup Users)
    BY <1>1 DEF End
  <2>10. QED
    BY <2>2, <2>3, <2>4, <2>5, <2>6, <2>7, <2>8, <2>9, CommitInv
<1>4. QED
  BY <1>2, <1>3

\* When the families are locked, every live one of the user is among them, or the
\* update takes nothing from its sessions.
LEMMA UserCommitInv == ASSUME IInv, NEW p \in Processes, UserCommit(p) PROVE IInv'
<1> DEFINE u == tx[p].user
           next == tx[p].next
           locks == tx[p].locks
           reason == tx[p].reason
           rows == IF user[u].password = 0 /\ next.password # 0 THEN {u} ELSE {}
           revoked(f) == [family[f] EXCEPT !.state = reason]
           ends(f) == f \in locks /\ family[f].state = "live"
<1>1. /\ tx[p] \in Transaction /\ TxOK(tx[p], user, family, tokens)
      /\ tx[p].pc = "families" /\ tx[p].todo = {}
      /\ user' = [user EXCEPT ![u] = next]
      /\ family' = [f \in Families |-> IF ends(f) THEN revoked(f) ELSE family[f]]
      /\ Leave(p, Idle, rows) /\ UNCHANGED <<tokens, expired>>
      /\ u \in Users /\ next \in User /\ locks \in SUBSET Families
  BY DEF IInv, TypeOK, UserCommit, Transaction
<1>2. /\ next.active => next.role \in Roles
      /\ reason \in {"none", "user_inactive", "role_changed", "password_reset"}
      /\ \A f \in locks : family[f].user = u /\ family[f].state # "absent"
      /\ reason = "none" =>
             /\ locks = {}
             /\ \A f \in Families : family[f].state = "live" /\ family[f].user = u =>
                    Keeps(user[u], next)
      /\ reason # "none" =>
             \A f \in Families : family[f].state = "live" /\ family[f].user = u => f \in locks
      /\ \E v \in Users : Admin(IF v = u THEN next ELSE user[v])
      /\ tx[p].tenant = "update"
  BY <1>1 DEF TxOK, FamiliesOK, LocksOK
<1>3. rows \in SUBSET (Families \cup Users)
  BY <1>1
<1>4. /\ user' \in [Users -> User] /\ user'[u] = next
      /\ \A v \in Users \ {u} : user'[v] = user[v]
  BY <1>1 DEF IInv, TypeOK
<1>5. ASSUME NEW f \in Families
      PROVE  /\ family'[f] \in Family
             /\ family'[f].user = family[f].user /\ family'[f].role = family[f].role
             /\ family'[f].password = family[f].password
             /\ family'[f].absolute = family[f].absolute
             /\ family'[f].state = "absent" <=> family[f].state = "absent"
             /\ family'[f].state = "live" => family[f].state = "live" /\ f \notin locks
             /\ f \notin locks => family'[f] = family[f]
  <2>1. family[f] \in Family
    BY DEF IInv, TypeOK
  <2>2. CASE ends(f)
    <3>1. family'[f] = revoked(f)
      BY <1>1, <2>2
    <3>2. reason \in Reasons
      BY <1>2, <2>2 DEF Reasons
    <3>3. reason # "live" /\ reason # "absent"
      BY <1>2
    <3>4. revoked(f) \in Family
      BY <2>1, <3>2 DEF Family
    <3>5. /\ revoked(f).user = family[f].user /\ revoked(f).role = family[f].role
          /\ revoked(f).password = family[f].password
          /\ revoked(f).absolute = family[f].absolute /\ revoked(f).state = reason
      BY <2>1 DEF Family
    <3> HIDE DEF revoked
    <3>6. QED
      BY <2>2, <3>1, <3>3, <3>4, <3>5
  <2>3. CASE ~ends(f)
    <3>1. family'[f] = family[f]
      BY <1>1, <2>3
    <3>2. QED
      BY <2>1, <2>3, <3>1
  <2>4. QED
    BY <2>2, <2>3
<1>6. family' \in [Families -> Family]
  <2>1. family' = [f \in Families |-> family'[f]]
    BY <1>1
  <2>2. QED
    BY <1>5, <2>1
<1> HIDE DEF u, next, locks, reason, rows, revoked, ends
<1>7. \A q \in Processes \ {p} : TxOK(tx[q], user', family', tokens')
  <2> SUFFICES ASSUME NEW q \in Processes \ {p} PROVE TxOK(tx[q], user', family', tokens')
    OBVIOUS
  <2>1. TxOK(tx[q], user, family, tokens) /\ tx[q].pc \notin {"loginCommit", "families"}
    BY <1>2, Excluded DEF IInv
  <2>2. tx[q].pc \in FamilyHolders \cup {"refresh", "logout"} =>
            tx[q].token \in 1 .. Len(tokens[tx[q].family])
    BY <2>1 DEF TxOK, RefreshOK
  <2>3. ASSUME tx[q].pc \in FamilyHolders PROVE family'[tx[q].family] = family[tx[q].family]
    <3>1. tx[q].family \in Families /\ tx[q].locks = {tx[q].family}
      BY <2>1, <2>3 DEF TxOK, LocksOK
    <3>2. locks \cap tx[q].locks = {}
      BY DEF IInv, Exclusive, Compatible, locks
    <3>3. QED
      BY <1>5, <3>1, <3>2
  <2>4. QED
    BY <1>1, <2>1, <2>2, <2>3, OtherFits
<1>8. RowsOK'
  <2>1. \A v \in Users : user'[v].active => user'[v].role \in Roles
    BY <1>2, <1>4 DEF IInv, RowsOK
  <2>2. \A f \in Families : family'[f].state = "absent" <=> Len(tokens'[f]) = 0
    BY <1>1, <1>5 DEF IInv, RowsOK
  <2>3. QED
    BY <2>1, <2>2 DEF RowsOK
<1>9. LiveSessionIsCurrent'
  <2> DEFINE current(us, row) == /\ us[row.user].active /\ us[row.user].role = row.role
                                 /\ us[row.user].password = row.password
  <2> SUFFICES ASSUME NEW f \in Families, family'[f].state = "live"
               PROVE  current(user', family'[f])
    BY DEF LiveSessionIsCurrent
  <2>1. family[f].state = "live" /\ f \notin locks /\ family'[f] = family[f]
    BY <1>5
  <2>2. current(user, family[f]) /\ family[f].user \in Users
    BY <2>1 DEF IInv, LiveSessionIsCurrent, TypeOK, Family
  <2>3. CASE family[f].user # u
    BY <1>4, <2>1, <2>2, <2>3
  <2>4. CASE family[f].user = u
    <3>1. Keeps(user[u], next)
      BY <1>2, <2>1, <2>4
    <3>2. QED
      BY <1>4, <2>1, <2>2, <2>4, <3>1 DEF Keeps
  <2>5. QED
    BY <2>3, <2>4
<1>10. OneCurrentToken' /\ LifetimeIsBounded'
  BY <1>1, <1>5 DEF IInv, OneCurrentToken, LifetimeIsBounded
<1>11. AdminRemains'
  <2>1. PICK v \in Users : Admin(IF v = u THEN next ELSE user[v])
    BY <1>2
  <2>2. user'[v] = IF v = u THEN next ELSE user[v]
    BY <1>4
  <2>3. QED
    BY <2>1, <2>2 DEF Admin, AdminRemains, ActiveAdmins
<1>12. /\ tokens' \in [Families -> Seq(States)]
       /\ \A f \in Families : Len(tokens'[f]) <= MaxTokens
       /\ expired' \subseteq Families \X (1 .. MaxTokens)
  BY <1>1 DEF IInv, TypeOK, States
<1>13. QED
  BY <1>1, <1>3, <1>4, <1>6, <1>7, <1>8, <1>9, <1>10, <1>11, <1>12, CommitInv

\* What every commit of a refresh or a logout finds.
LEMMA FamilyHeld ==
    ASSUME IInv, NEW p \in Processes, tx[p].pc = "familyCommit"
    PROVE  /\ tx[p].family \in Families
           /\ tx[p].tenant = "share"
           /\ tx[p].token \in 1 .. Len(tokens[tx[p].family])
           /\ tx[p].reason \in RefreshReasons
           /\ family[tx[p].family].state = "live"
           /\ tx[p].reason = "rotate" =>
                  tx[p].token < MaxTokens /\ tokens[tx[p].family][tx[p].token] = "current"
           /\ \A q \in Processes \ {p} :
                  tx[q].pc \in FamilyHolders => tx[q].family \in Families \ {tx[p].family}
<1>1. TxOK(tx[p], user, family, tokens)
  BY DEF IInv
<1>2. tx[p].locks = {tx[p].family}
  BY <1>1 DEF TxOK, LocksOK, FamilyHolders
<1>3. ASSUME NEW q \in Processes \ {p}, tx[q].pc \in FamilyHolders
      PROVE  tx[q].family \in Families \ {tx[p].family}
  <2>1. tx[q].family \in Families /\ tx[q].locks = {tx[q].family}
    BY <1>3 DEF IInv, TxOK, LocksOK
  <2>2. tx[p].locks \cap tx[q].locks = {}
    BY DEF IInv, Exclusive, Compatible
  <2>3. QED
    BY <1>2, <2>1, <2>2
<1>4. QED
  BY <1>1, <1>3 DEF TxOK, LocksOK, RefreshOK, FamilyHolders

LEMMA RevokeInv ==
    ASSUME IInv, NEW p \in Processes, tx[p].pc = "familyCommit", Revoke(p), End(p),
           UNCHANGED user
    PROVE  IInv'
<1> DEFINE g == tx[p].family
           row == [family[g] EXCEPT !.state = tx[p].reason]
<1>1. /\ g \in Families /\ family[g] \in Family /\ family[g].state = "live"
      /\ tx[p].reason \in RefreshReasons \ {"rotate"}
      /\ family' = [family EXCEPT ![g] = row] /\ UNCHANGED <<tokens, expired>>
      /\ Leave(p, Idle, {})
  BY FamilyHeld DEF IInv, TypeOK, Revoke, End
<1>2. /\ row \in Family /\ row.state \notin {"live", "absent"}
      /\ row.absolute = family[g].absolute
  BY <1>1 DEF Family, Reasons, RefreshReasons
<1>3. /\ family' \in [Families -> Family] /\ family'[g] = row
      /\ \A f \in Families \ {g} : family'[f] = family[f]
  BY <1>1, <1>2 DEF IInv, TypeOK
<1> HIDE DEF row
<1>4. \A q \in Processes \ {p} : TxOK(tx[q], user', family', tokens')
  <2> SUFFICES ASSUME NEW q \in Processes \ {p} PROVE TxOK(tx[q], user', family', tokens')
    OBVIOUS
  <2>1. TxOK(tx[q], user, family, tokens) /\ tx[q].pc \notin {"loginCommit", "families"}
    BY FamilyHeld, Excluded DEF IInv
  <2>2. tx[q].pc \in FamilyHolders \cup {"refresh", "logout"} =>
            tx[q].token \in 1 .. Len(tokens[tx[q].family])
    BY <2>1 DEF TxOK, RefreshOK
  <2>3. tx[q].pc \in FamilyHolders => family'[tx[q].family] = family[tx[q].family]
    BY <1>3, FamilyHeld
  <2>4. QED
    BY <1>1, <2>1, <2>2, <2>3, OtherFits
<1>5. RowsOK' /\ AdminRemains' /\ LiveSessionIsCurrent'
  BY <1>1, <1>2, <1>3
     DEF IInv, RowsOK, AdminRemains, ActiveAdmins, LiveSessionIsCurrent
<1>6. OneCurrentToken' /\ LifetimeIsBounded'
  BY <1>1, <1>2, <1>3 DEF IInv, OneCurrentToken, LifetimeIsBounded
<1>7. /\ user' \in [Users -> User] /\ tokens' \in [Families -> Seq(States)]
      /\ \A f \in Families : Len(tokens'[f]) <= MaxTokens
      /\ expired' \subseteq Families \X (1 .. MaxTokens)
  BY <1>1 DEF IInv, TypeOK, States
<1>8. {} \in SUBSET (Families \cup Users)
  OBVIOUS
<1>9. QED
  BY <1>1, <1>3, <1>4, <1>5, <1>6, <1>7, <1>8, CommitInv

\* The token that is exchanged is still the current one, and so the last.
LEMMA RotateInv ==
    ASSUME IInv, NEW p \in Processes, tx[p].pc = "familyCommit", RotateCurrent(p), End(p),
           UNCHANGED user
    PROVE  IInv'
<1> DEFINE g == tx[p].family
           i == tx[p].token
           old == tokens[g]
           marked == [old EXCEPT ![i] = "used"]
           new == Append(marked, "current")
<1>1. /\ g \in Families /\ i \in 1 .. Len(old) /\ i < MaxTokens /\ old[i] = "current"
      /\ old \in Seq(States) /\ Len(old) \in Nat
      /\ tokens' = [tokens EXCEPT ![g] = new]
      /\ expired' = IF family[g].absolute THEN expired \cup {<<g, i + 1>>} ELSE expired
      /\ UNCHANGED <<user, family>> /\ Leave(p, Idle, {})
  <2>1. tx[p].reason = "rotate"
    BY DEF RotateCurrent
  <2>2. g \in Families /\ i \in 1 .. Len(old) /\ i < MaxTokens /\ old[i] = "current"
    BY <2>1, FamilyHeld
  <2>3. old \in Seq(States)
    BY <2>2 DEF IInv, TypeOK, States
  <2>4. QED
    BY <2>2, <2>3, LenProperties DEF RotateCurrent, End
<1>2. i = Len(old) /\ MaxTokens \in Nat
  BY <1>1 DEF IInv, OneCurrentToken, SessionsAssumption
<1>3. /\ new \in Seq(States) /\ Len(new) = i + 1 /\ new[i + 1] = "current"
      /\ \A j \in 1 .. i : new[j] = IF j = i THEN "used" ELSE old[j]
  <2>1. "used" \in States /\ "current" \in States
    BY DEF States
  <2> HIDE DEF old, g, i
  <2>2. /\ marked \in Seq(States) /\ Len(marked) = Len(old)
        /\ \A j \in 1 .. Len(old) : marked[j] = IF j = i THEN "used" ELSE old[j]
    BY <1>1, <2>1, ExceptSeq
  <2> HIDE DEF marked
  <2>3. QED
    BY <1>2, <2>1, <2>2, AppendProperties
<1> HIDE DEF new
<1>4. \A f \in Families : tokens'[f] = IF f = g THEN new ELSE tokens[f]
  BY <1>1 DEF IInv, TypeOK
<1>5. i + 1 \in 1 .. MaxTokens /\ i \in Nat
  BY <1>1, <1>2
<1>6. \A q \in Processes \ {p} : TxOK(tx[q], user', family', tokens')
  <2> SUFFICES ASSUME NEW q \in Processes \ {p} PROVE TxOK(tx[q], user', family', tokens')
    OBVIOUS
  <2>1. TxOK(tx[q], user, family, tokens) /\ tx[q].pc \notin {"loginCommit", "families"}
    BY FamilyHeld, Excluded DEF IInv
  <2>2. ASSUME tx[q].pc \in FamilyHolders \cup {"refresh", "logout"}
        PROVE  tx[q].token \in 1 .. Len(tokens'[tx[q].family])
    <3>1. tx[q].family \in Families /\ tx[q].token \in 1 .. Len(tokens[tx[q].family])
      BY <2>1, <2>2 DEF TxOK, LocksOK, RefreshOK
    <3>2. CASE tx[q].family = g
      <4>1. tx[q].token \in 1 .. i
        BY <1>2, <3>1, <3>2
      <4>2. Len(tokens'[tx[q].family]) = i + 1
        BY <1>1, <1>3, <1>4, <3>2
      <4>3. QED
        BY <1>5, <4>1, <4>2
    <3>3. CASE tx[q].family # g
      BY <1>4, <3>1, <3>3
    <3>4. QED
      BY <3>2, <3>3
  <2>3. tx[q].pc \in FamilyHolders => tokens'[tx[q].family] = tokens[tx[q].family]
    BY <1>4, FamilyHeld
  <2>4. QED
    BY <1>1, <2>1, <2>2, <2>3, OtherFits
<1> HIDE DEF old, g, i
<1>7. RowsOK'
  <2>1. ASSUME NEW f \in Families
        PROVE  family'[f].state = "absent" <=> Len(tokens'[f]) = 0
    <3>1. CASE f = g
      <4>1. Len(tokens'[f]) # 0 /\ Len(tokens[f]) # 0
        BY <1>1, <1>2, <1>3, <1>4, <1>5, <3>1 DEF old
      <4>2. QED
        BY <1>1, <4>1 DEF IInv, RowsOK
    <3>2. CASE f # g
      BY <1>1, <1>4, <3>2 DEF IInv, RowsOK
    <3>3. QED
      BY <3>1, <3>2
  <2>2. QED
    BY <1>1, <2>1 DEF IInv, RowsOK
<1>8. LiveSessionIsCurrent' /\ AdminRemains'
  BY <1>1 DEF IInv, LiveSessionIsCurrent, AdminRemains, ActiveAdmins
<1>9. OneCurrentToken'
  <2> SUFFICES ASSUME NEW f \in Families, NEW j \in 1 .. Len(tokens'[f])
               PROVE  tokens'[f][j] = "current" <=> j = Len(tokens'[f])
    BY DEF OneCurrentToken
  <2>1. CASE f = g
    <3>1. tokens'[f] = new /\ j \in 1 .. (i + 1)
      BY <1>3, <1>4, <2>1
    <3>2. CASE j = i + 1
      BY <1>3, <3>1, <3>2
    <3>3. CASE j = i
      BY <1>3, <1>5, <3>1, <3>3
    <3>4. CASE j \in 1 .. i /\ j # i
      <4>1. new[j] = old[j] /\ j \in 1 .. Len(old) /\ j # Len(old)
        BY <1>2, <1>3, <3>4
      <4>2. old[j] # "current"
        BY <1>1, <4>1 DEF IInv, OneCurrentToken, old
      <4>3. QED
        BY <1>3, <1>5, <3>1, <3>4, <4>1, <4>2
    <3>5. QED
      BY <1>5, <3>1, <3>2, <3>3, <3>4
  <2>2. CASE f # g
    <3>1. tokens'[f] = tokens[f]
      BY <1>4, <2>2
    <3>2. QED
      BY <3>1 DEF IInv, OneCurrentToken
  <2>3. QED
    BY <2>1, <2>2
<1>10. LifetimeIsBounded'
  <2> SUFFICES ASSUME NEW f \in Families, family'[f].absolute, NEW j \in 1 .. Len(tokens'[f])
               PROVE  <<f, j>> \in expired'
    BY DEF LifetimeIsBounded
  <2>1. expired \subseteq expired' /\ family[f].absolute
    BY <1>1
  <2>2. CASE f = g /\ j = i + 1
    BY <1>1, <2>1, <2>2
  <2>3. CASE ~(f = g /\ j = i + 1)
    <3>1. j \in 1 .. Len(tokens[f])
      <4>1. CASE f = g
        <5>1. j \in 1 .. (i + 1)
          BY <1>3, <1>4, <4>1
        <5>2. Len(tokens[f]) = i
          BY <1>2, <4>1 DEF old
        <5>3. QED
          BY <1>5, <2>3, <4>1, <5>1, <5>2
      <4>2. CASE f # g
        BY <1>4, <4>2
      <4>3. QED
        BY <4>1, <4>2
    <3>2. QED
      BY <2>1, <3>1 DEF IInv, LifetimeIsBounded
  <2>4. QED
    BY <2>2, <2>3
<1>11. tokens' \in [Families -> Seq(States)]
  BY <1>1, <1>3 DEF IInv, TypeOK, States
<1>12. ASSUME NEW f \in Families PROVE Len(tokens'[f]) <= MaxTokens
  <2>1. CASE f = g
    BY <1>3, <1>4, <1>5, <2>1
  <2>2. CASE f # g
    <3>1. tokens'[f] = tokens[f]
      BY <1>4, <2>2
    <3>2. QED
      BY <3>1 DEF IInv, TypeOK
  <2>3. QED
    BY <2>1, <2>2
<1>13. /\ user' \in [Users -> User] /\ family' \in [Families -> Family]
       /\ expired' \subseteq Families \X (1 .. MaxTokens)
       /\ {} \in SUBSET (Families \cup Users)
  BY <1>1, <1>5 DEF IInv, TypeOK
<1>14. QED
  BY <1>1, <1>6, <1>7, <1>8, <1>9, <1>10, <1>11, <1>12, <1>13, CommitInv

-----------------------------------------------------------------------------
(* Time *)

\* A step that changes neither users nor what a transaction relies on.
LEMMA TimeInv ==
    ASSUME IInv, UNCHANGED <<user, tokens, tx>>,
           family' \in [Families -> Family],
           \A f \in Families : /\ family'[f].state = family[f].state
                               /\ family'[f].user = family[f].user
                               /\ family'[f].role = family[f].role
                               /\ family'[f].password = family[f].password,
           expired' \subseteq Families \X (1 .. MaxTokens),
           LifetimeIsBounded'
    PROVE  IInv'
<1>1. TypeOK' /\ RowsOK' /\ Exclusive'
  BY DEF IInv, TypeOK, RowsOK, Exclusive
<1>2. (\A p \in Processes : TxOK(tx[p], user, family, tokens))'
  <2> SUFFICES ASSUME NEW p \in Processes PROVE TxOK(tx[p], user, family', tokens)
    OBVIOUS
  <2>1. TxOK(tx[p], user, family, tokens) /\ tx[p] \in Transaction
    BY DEF IInv, TypeOK
  <2>2. LocksOK(tx[p]) /\ LoginOK(tx[p], user) /\ PatchOK(tx[p])
    BY <2>1 DEF TxOK
  <2>3. FamiliesOK(tx[p], user, family')
    <3>1. tx[p].todo \in SUBSET Families /\ tx[p].locks \in SUBSET Families
      BY <2>1 DEF Transaction
    <3>2. QED
      BY <2>1, <3>1 DEF TxOK, FamiliesOK
  <2>4. RefreshOK(tx[p], family', tokens)
    <3>1. tx[p].pc \in FamilyHolders => tx[p].family \in Families
      BY <2>1 DEF TxOK, LocksOK
    <3>2. QED
      BY <2>1, <3>1 DEF TxOK, RefreshOK, FamilyHolders
  <2>5. QED
    BY <2>2, <2>3, <2>4 DEF TxOK
<1>3. LiveSessionIsCurrent' /\ OneCurrentToken' /\ AdminRemains'
  BY DEF IInv, LiveSessionIsCurrent, OneCurrentToken, AdminRemains, ActiveAdmins
<1>4. QED
  BY <1>1, <1>2, <1>3 DEF IInv, SessionsAssumption

LEMMA IdleExpiresInv ==
    ASSUME IInv, NEW f \in Families, NEW i \in 1 .. MaxTokens, IdleExpires(f, i)
    PROVE  IInv'
<1>1. LifetimeIsBounded'
  BY DEF IInv, LifetimeIsBounded, IdleExpires
<1>2. expired' \subseteq Families \X (1 .. MaxTokens) /\ family' \in [Families -> Family]
  BY DEF IInv, TypeOK, IdleExpires
<1>3. QED
  BY <1>1, <1>2, TimeInv DEF IdleExpires

\* The end of a family ends its tokens.
LEMMA AbsoluteExpiresInv ==
    ASSUME IInv, NEW f \in Families, AbsoluteExpires(f) PROVE IInv'
<1> DEFINE row == [family[f] EXCEPT !.absolute = TRUE]
           over == {<<f, i>> : i \in 1 .. Len(tokens[f])}
<1>1. /\ family' = [family EXCEPT ![f] = row] /\ expired' = expired \cup over
      /\ UNCHANGED <<user, tokens, tx>>
      /\ family[f] \in Family /\ Len(tokens[f]) \in Nat /\ Len(tokens[f]) <= MaxTokens
      /\ MaxTokens \in Nat
  BY LenProperties DEF AbsoluteExpires, IInv, TypeOK, SessionsAssumption
<1>2. /\ row \in Family /\ row.state = family[f].state /\ row.user = family[f].user
      /\ row.role = family[f].role /\ row.password = family[f].password
  BY <1>1 DEF Family
<1>3. over \subseteq Families \X (1 .. MaxTokens)
  BY <1>1
<1>4. \A i \in 1 .. Len(tokens[f]) : <<f, i>> \in over
  OBVIOUS
<1> HIDE DEF row, over
<1>5. /\ family' \in [Families -> Family] /\ family'[f] = row
      /\ \A g \in Families \ {f} : family'[g] = family[g]
  BY <1>1, <1>2 DEF IInv, TypeOK
<1>6. expired' \subseteq Families \X (1 .. MaxTokens)
  BY <1>1, <1>3 DEF IInv, TypeOK
<1>7. LifetimeIsBounded'
  BY <1>1, <1>4, <1>5 DEF IInv, LifetimeIsBounded
<1>8. QED
  BY <1>1, <1>2, <1>5, <1>6, <1>7, TimeInv

-----------------------------------------------------------------------------
(* The invariant *)

LEMMA NextIInv == IInv /\ [Next]_vars => IInv'
<1> SUFFICES ASSUME IInv, [Next]_vars PROVE IInv'
  OBVIOUS
<1>1. CASE UNCHANGED vars
  BY <1>1 DEF vars, IInv, SessionsAssumption, TypeOK, RowsOK, Exclusive, LiveSessionIsCurrent,
              OneCurrentToken, LifetimeIsBounded, AdminRemains, ActiveAdmins
<1>2. ASSUME NEW p \in Processes, Request(p) PROVE IInv'
  <2>1. ASSUME NEW u \in Users, FindCandidate(p, u) \/ BeginPassword(p, u) PROVE IInv'
    BY <2>1, FindCandidateInv, BeginPasswordInv
  <2>2. ASSUME NEW u \in Users, NEW role \in Roles, NEW active \in BOOLEAN,
               BeginCreate(p, u, role, active) \/ BeginPatch(p, u, role, active)
        PROVE  IInv'
    BY <2>2, BeginCreateInv, BeginPatchInv
  <2>3. ASSUME NEW f \in Families, NEW i \in 1 .. MaxTokens, NEW csrf \in BOOLEAN,
               BeginRefresh(p, f, i, csrf) \/ BeginLogout(p, f, i, csrf)
        PROVE  IInv'
    BY <2>3, BeginRefreshInv, BeginLogoutInv
  <2>4. QED
    BY <1>2, <2>1, <2>2, <2>3 DEF Request
<1>3. ASSUME NEW p \in Processes, Step(p) PROVE IInv'
  <2>1. CASE LoginBegin(p) \/ LoginLock(p)
    BY <2>1, LoginBeginInv, LoginLockInv
  <2>2. CASE CreateUser(p) \/ PatchUser(p) \/ SetPassword(p) \/ UserCommit(p)
    BY <2>2, CreateUserInv, PatchUserInv, SetPasswordInv, UserCommitInv
  <2>3. ASSUME NEW f \in Families, LoginCommit(p, f) \/ RevokeNext(p, f) PROVE IInv'
    BY <2>3, LoginCommitInv, RevokeNextInv
  <2>4. CASE LockFamily(p) \/ EvaluateRefresh(p) \/ EvaluateLogout(p) \/ ForeignKeys(p)
    BY <2>4, LockFamilyInv, EvaluateRefreshInv, EvaluateLogoutInv, ForeignKeysInv
  <2>5. CASE FamilyCommit(p)
    BY <2>5, RevokeInv, RotateInv DEF FamilyCommit
  <2>6. CASE DetectDeadlock(p)
    BY <2>6, StopInv DEF DetectDeadlock
  <2>7. QED
    BY <1>3, <2>1, <2>2, <2>3, <2>4, <2>5, <2>6 DEF Step
<1>4. ASSUME NEW p \in Processes, FailTransaction(p) PROVE IInv'
  BY <1>4, StopInv DEF FailTransaction
<1>5. ASSUME NEW f \in Families, AbsoluteExpires(f) PROVE IInv'
  BY <1>5, AbsoluteExpiresInv
<1>6. ASSUME NEW f \in Families, NEW i \in 1 .. MaxTokens, IdleExpires(f, i) PROVE IInv'
  BY <1>6, IdleExpiresInv
<1>7. QED
  BY <1>1, <1>2, <1>3, <1>4, <1>5, <1>6 DEF Next

\* In every reachable state each transaction relies on nothing that another can
\* have changed since it looked.
THEOREM Invariant == Spec => []IInv
BY InitIInv, NextIInv, PTL DEF Spec

-----------------------------------------------------------------------------
(* Deadlocks *)

\* Who waits and is waited for holds a row: it writes users or it has a family.
LEMMA CrossedOrders == IInv => OnlyCrossedOrders
<1> SUFFICES ASSUME IInv, NEW S \in SUBSET Processes, Deadlock(S), NEW p \in S
             PROVE  tx[p].pc \in {"families", "insert"}
  BY DEF OnlyCrossedOrders
<1>1. p \in Processes /\ Blockers(p) # {}
  BY DEF Deadlock
<1>2. PICK q \in S : p \in Blockers(q)
  BY DEF Deadlock
<1>3. q \in Processes
  OBVIOUS
<1>4. tx[p].tenant # "none" \/ \E f \in Families : Holds(p, f)
  <2>1. tx[q] \in Transaction /\ TxOK(tx[q], user, family, tokens)
    BY <1>3 DEF IInv, TypeOK
  <2>2. tx[q].pc \in {"refresh", "logout"} => tx[q].family \in Families
    BY <2>1 DEF TxOK, LocksOK
  <2>3. tx[q].todo \in SUBSET Families
    BY <2>1 DEF Transaction
  <2>4. QED
    BY <1>2, <2>2, <2>3 DEF Blockers
<1>5. tx[p].pc \in {"loginCommit", "families", "refreshRead", "logoutRead", "insert",
                   "familyCommit"}
  <2>1. LocksOK(tx[p])
    BY <1>1 DEF IInv, TxOK
  <2>2. QED
    BY <1>4, <2>1 DEF LocksOK, Holds, FamilyHolders
<1>6. tx[p].pc \in {"login", "create", "patch", "password", "insert", "refresh", "logout",
                   "families"}
  BY <1>1 DEF Blockers
<1>7. QED
  BY <1>5, <1>6

\* For every number of requests, users and sessions: a live session has the role and
\* the password its user has now, only the last token of a session is current,
\* no token outlives its family, an administrator remains, and no transactions wait
\* for each other but a writer of users and a refresh or logout.
THEOREM Soundness == Spec => []SessionsAreSound
<1>1. IInv => SessionsAreSound
  BY CrossedOrders DEF IInv, SessionsAreSound
<1>2. QED
  BY <1>1, Invariant, PTL

-----------------------------------------------------------------------------
(* Ended sessions *)

\* Steps that write no family and no token.
Reads(p) ==
    \/ Request(p) \/ FailTransaction(p) \/ DetectDeadlock(p)
    \/ LoginBegin(p) \/ LoginLock(p) \/ CreateUser(p) \/ PatchUser(p) \/ SetPassword(p)
    \/ \E f \in Families : RevokeNext(p, f)
    \/ LockFamily(p) \/ EvaluateRefresh(p) \/ EvaluateLogout(p) \/ ForeignKeys(p)

LEMMA ReadsKeep == ASSUME NEW p \in Processes, Reads(p) PROVE UNCHANGED <<family, tokens>>
<1>1. ASSUME Request(p) PROVE UNCHANGED <<family, tokens>>
  BY <1>1 DEF Request, FindCandidate, BeginPassword, BeginCreate, BeginPatch, BeginRefresh,
              BeginLogout
<1>2. ASSUME FailTransaction(p) \/ DetectDeadlock(p) \/ LoginBegin(p) \/ LoginLock(p)
             \/ CreateUser(p) \/ PatchUser(p) \/ SetPassword(p)
      PROVE  UNCHANGED <<family, tokens>>
  BY <1>2 DEF FailTransaction, DetectDeadlock, LoginBegin, LoginLock, CreateUser, PatchUser,
              SetPassword
<1>3. ASSUME \/ \E f \in Families : RevokeNext(p, f)
             \/ LockFamily(p) \/ EvaluateRefresh(p) \/ EvaluateLogout(p) \/ ForeignKeys(p)
      PROVE  UNCHANGED <<family, tokens>>
  BY <1>3 DEF RevokeNext, LockFamily, EvaluateRefresh, EvaluateLogout, ForeignKeys
<1>4. QED
  BY <1>1, <1>2, <1>3 DEF Reads

\* Only these steps write a family or its tokens.
LEMMA Writers ==
    ASSUME [Next]_vars
    PROVE  \/ UNCHANGED <<family, tokens>>
           \/ \E p \in Processes : UserCommit(p) \/ FamilyCommit(p)
           \/ \E p \in Processes, f \in Families : LoginCommit(p, f)
           \/ \E f \in Families : AbsoluteExpires(f)
<1>1. CASE UNCHANGED vars
  BY <1>1 DEF vars
<1>2. ASSUME NEW p \in Processes, Request(p) \/ Step(p) \/ FailTransaction(p)
      PROVE  \/ Reads(p) \/ UserCommit(p) \/ FamilyCommit(p)
             \/ \E f \in Families : LoginCommit(p, f)
  BY <1>2 DEF Step, Reads
<1>3. ASSUME NEW f \in Families, \E i \in 1 .. MaxTokens : IdleExpires(f, i)
      PROVE  UNCHANGED <<family, tokens>>
  BY <1>3 DEF IdleExpires
<1>4. QED
  BY <1>1, <1>2, <1>3, ReadsKeep DEF Next

LEMMA RowsEnd ==
    ASSUME IInv, [Next]_vars PROVE RotationNeedsLiveFamily /\ RevocationIsFinal
<1> SUFFICES ASSUME NEW f \in Families
             PROVE  /\ tokens'[f] # tokens[f] /\ tokens[f] # <<>> => family[f].state = "live"
                    /\ family[f].state \in Reasons => family'[f].state = family[f].state
  BY DEF RotationNeedsLiveFamily, RevocationIsFinal
<1>1. /\ family \in [Families -> Family] /\ tokens \in [Families -> Seq(States)]
      /\ family[f].state = "absent" => tokens[f] = <<>>
  <2>1. family \in [Families -> Family] /\ tokens \in [Families -> Seq(States)]
    BY DEF IInv, TypeOK, States
  <2>2. family[f].state = "absent" => Len(tokens[f]) = 0
    BY DEF IInv, RowsOK
  <2>3. tokens[f] # <<>> => Len(tokens[f]) \in Nat \ {0}
    BY <2>1, EmptySeq
  <2>4. QED
    BY <2>1, <2>2, <2>3
<1>2. CASE UNCHANGED <<family, tokens>>
  BY <1>2
<1>3. ASSUME NEW p \in Processes, UserCommit(p)
      PROVE  /\ UNCHANGED tokens
             /\ family[f].state \in Reasons => family'[f].state = family[f].state
  BY <1>3 DEF UserCommit, Reasons
<1>4. ASSUME NEW p \in Processes, FamilyCommit(p)
      PROVE  /\ tokens'[f] # tokens[f] => family[f].state = "live"
             /\ family[f].state \in Reasons => family'[f].state = family[f].state
  <2>1. /\ tx[p].pc = "familyCommit" /\ tx[p].family \in Families
        /\ family[tx[p].family].state = "live"
    BY <1>4, FamilyHeld DEF FamilyCommit
  <2>2. CASE f = tx[p].family
    BY <2>1, <2>2 DEF Reasons
  <2>3. CASE f # tx[p].family
    <3>1. CASE Revoke(p)
      BY <1>1, <2>3, <3>1 DEF Revoke
    <3>2. CASE RotateCurrent(p)
      BY <1>1, <2>3, <3>2 DEF RotateCurrent
    <3>3. QED
      BY <1>4, <3>1, <3>2 DEF FamilyCommit
  <2>4. QED
    BY <2>2, <2>3
<1>5. ASSUME NEW p \in Processes, NEW g \in Families, LoginCommit(p, g)
      PROVE  /\ tokens'[f] # tokens[f] => tokens[f] = <<>>
             /\ family[f].state \in Reasons => family'[f].state = family[f].state
  <2>1. CASE f = g
    BY <1>1, <1>5, <2>1 DEF LoginCommit, Reasons
  <2>2. CASE f # g
    <3>1. tokens'[f] = tokens[f] /\ family'[f] = family[f]
      BY <1>1, <1>5, <2>2 DEF LoginCommit
    <3>2. QED
      BY <3>1
  <2>3. QED
    BY <2>1, <2>2
<1>6. ASSUME NEW g \in Families, AbsoluteExpires(g)
      PROVE  UNCHANGED tokens /\ family'[f].state = family[f].state
  BY <1>1, <1>6 DEF AbsoluteExpires, Family
<1>7. QED
  BY <1>2, <1>3, <1>4, <1>5, <1>6, Writers

\* A transaction is only ended by a step of its own.
LEMMA OwnSteps ==
    ASSUME TypeOK, NEW q \in Processes, Request(q) \/ Step(q) \/ FailTransaction(q),
           NEW p \in Processes, p # q
    PROVE  tx'[p].pc = tx[p].pc
<1>1. ASSUME NEW t, NEW rows, Leave(q, t, rows) PROVE tx'[p].pc = tx[p].pc
  BY <1>1 DEF Leave, TypeOK, Transaction
<1>2. ASSUME NEW t, tx' = [tx EXCEPT ![q] = t] PROVE tx'[p].pc = tx[p].pc
  BY <1>2 DEF TypeOK
<1>3. CASE Request(q)
  BY <1>2, <1>3 DEF Request, FindCandidate, BeginPassword, BeginCreate, BeginPatch, BeginRefresh,
                    BeginLogout, Begin
<1>4. CASE FailTransaction(q) \/ DetectDeadlock(q)
  BY <1>1, <1>4 DEF FailTransaction, DetectDeadlock, Fail
<1>5. CASE LoginBegin(q) \/ LoginLock(q)
  BY <1>1, <1>2, <1>5 DEF LoginBegin, LoginLock, Begin, End, TypeOK
<1>6. CASE CreateUser(q) \/ PatchUser(q) \/ SetPassword(q)
  BY <1>1, <1>6 DEF CreateUser, PatchUser, SetPassword, End, Fail, TypeOK
<1>7. CASE UserCommit(q) \/ \E f \in Families : LoginCommit(q, f)
  BY <1>1, <1>7 DEF UserCommit, LoginCommit
<1>8. CASE \E f \in Families : RevokeNext(q, f)
  BY <1>1, <1>8 DEF RevokeNext, Fail, TypeOK
<1>9. CASE LockFamily(q) \/ ForeignKeys(q)
  BY <1>9 DEF LockFamily, ForeignKeys, TypeOK
<1>10. CASE EvaluateRefresh(q) \/ EvaluateLogout(q) \/ FamilyCommit(q)
  BY <1>1, <1>10 DEF EvaluateRefresh, EvaluateLogout, FamilyCommit, End, Insert, TypeOK
<1>11. QED
  BY <1>3, <1>4, <1>5, <1>6, <1>7, <1>8, <1>9, <1>10 DEF Step

\* A replay that has not failed goes on to revoke the family.
LEMMA ReplayEnds == ASSUME IInv, [Next]_vars PROVE ReuseEndsSession
<1> SUFFICES ASSUME NEW p \in Processes, Replay(p), tx'[p].pc = "idle"
             PROVE  family'[tx[p].family].state # "live"
  BY DEF ReuseEndsSession
<1>1. /\ tx[p].pc \in {"refreshRead", "insert", "familyCommit"} /\ tx[p].csrf
      /\ family[tx[p].family].state = "live"
      /\ tokens[tx[p].family][tx[p].token] = "used"
      /\ tx \in [Processes -> Transaction] /\ TypeOK
  BY DEF Replay, IInv, TypeOK
<1>2. tx'[p].pc # tx[p].pc
  BY <1>1
<1>3. Request(p) \/ Step(p) \/ FailTransaction(p)
  <2>1. ~(UNCHANGED vars)
    BY <1>2 DEF vars
  <2>2. ASSUME NEW f \in Families,
               AbsoluteExpires(f) \/ \E i \in 1 .. MaxTokens : IdleExpires(f, i)
        PROVE  FALSE
    BY <1>2, <2>2 DEF AbsoluteExpires, IdleExpires
  <2>3. PICK q \in Processes : Request(q) \/ Step(q) \/ FailTransaction(q)
    BY <2>1, <2>2 DEF Next
  <2>4. QED
    BY <1>1, <1>2, <2>3, OwnSteps
<1>4. ASSUME Request(p) PROVE FALSE
  BY <1>1, <1>4 DEF Request, Free, FindCandidate, BeginPassword, BeginCreate, BeginPatch,
                    BeginRefresh, BeginLogout
<1>5. ASSUME FailTransaction(p) \/ DetectDeadlock(p) PROVE FALSE
  <2>1. Leave(p, [Idle EXCEPT !.pc = "failed"], {})
    BY <1>5 DEF FailTransaction, DetectDeadlock, Fail
  <2>2. tx'[p] = [Idle EXCEPT !.pc = "failed"]
    BY <2>1 DEF Leave
  <2>3. tx'[p].pc = "failed"
    BY <2>2 DEF Idle
  <2>4. QED
    BY <2>3
<1>6. ASSUME EvaluateRefresh(p) PROVE FALSE
  <2>1. \E reason \in Reasons : Insert(p, reason)
    BY <1>1, <1>6 DEF EvaluateRefresh, Reasons
  <2>2. tx'[p].pc = "insert"
    BY <1>1, <2>1 DEF Insert, Transaction
  <2>3. QED
    BY <2>2
<1>7. ASSUME ForeignKeys(p) PROVE FALSE
  BY <1>1, <1>7 DEF ForeignKeys, Transaction
<1>8. ASSUME FamilyCommit(p) PROVE family'[tx[p].family].state # "live"
  <2>1. /\ tx[p].pc = "familyCommit" /\ tx[p].family \in Families
        /\ tx[p].reason \in RefreshReasons
        /\ tx[p].reason = "rotate" => tokens[tx[p].family][tx[p].token] = "current"
    BY <1>8, FamilyHeld DEF FamilyCommit
  <2>2. Revoke(p)
    BY <1>1, <1>8, <2>1 DEF FamilyCommit, RotateCurrent
  <2>3. family \in [Families -> Family]
    BY <1>1 DEF TypeOK
  <2>4. QED
    BY <2>1, <2>2, <2>3 DEF Revoke, Family, RefreshReasons
<1>9. ASSUME Step(p), ~EvaluateRefresh(p), ~ForeignKeys(p), ~FamilyCommit(p), ~DetectDeadlock(p)
      PROVE  FALSE
  BY <1>1, <1>9 DEF Step, LoginBegin, LoginLock, CreateUser, PatchUser, SetPassword, UserCommit,
                    LoginCommit, RevokeNext, LockFamily, EvaluateLogout
<1>10. QED
  BY <1>3, <1>4, <1>5, <1>6, <1>7, <1>8, <1>9

\* No step brings an ended session back, rotates a token of one, or lets a replayed
\* token go without ending its session.
THEOREM Finality == Spec => SessionsStayEnded
<1>1. IInv /\ [Next]_vars => [EndIsFinal]_vars
  BY RowsEnd, ReplayEnds DEF EndIsFinal
<1>2. QED
  BY <1>1, Invariant, PTL DEF Spec, SessionsStayEnded

-----------------------------------------------------------------------------
(***************************************************************************)
(* AdminProvisioning.                                                      *)
(* The row lock of the tenant belongs to the one run that is between its   *)
(* select and its commit (RowLockExclusive), so that what the run found is *)
(* still so when it commits (StillSo).                                     *)
(***************************************************************************)

RowLockExclusive == \A o \in Operators : step[o] \in {"select", "commit"} => tenantLock = o

\* What selectExactTarget found for e.
Exact(m, e) ==
  \/ m = "created" /\ Admins = {} /\ member[e] = None
  \/ m = "exact_provisioned" /\ Admins = {e} /\ member[e].active /\ credential[e] = None

StillSo == \A o \in Operators : step[o] = "commit" => Exact(mode[o], target[o])

ProvisioningInv == ProvisioningTypeOK /\ RowLockExclusive /\ StillSo /\ ProvisionedIsAudited

-----------------------------------------------------------------------------
LEMMA ProvisioningInitInv == ProvisioningInit => ProvisioningInv
<1> SUFFICES ASSUME ProvisioningInit PROVE ProvisioningInv
  OBVIOUS
<1> USE AdminProvisioningAssumption
<1>1. ProvisioningTypeOK
  BY DEF ProvisioningInit, ProvisioningTypeOK, Member
<1>2. RowLockExclusive /\ StillSo
  BY DEF ProvisioningInit, RowLockExclusive, StillSo
<1>3. ProvisionedIsAudited
  BY DEF ProvisioningInit, ProvisionedIsAudited
<1>4. QED
  BY <1>1, <1>2, <1>3 DEF ProvisioningInv

LEMMA LockTenantInv ==
  ASSUME ProvisioningInv, NEW o \in Operators, LockActiveTenant(o)
  PROVE  ProvisioningInv'
<1> USE DEF ProvisioningInv
<1>0. /\ UNCHANGED <<member, credential, bootstraps, target, mode>>
      /\ step[o] = "new" /\ tenantLock = None /\ tenantLock' = o
      /\ step' = [step EXCEPT ![o] = "select"]
  BY DEF LockActiveTenant, GoOn
<1>1. ProvisioningTypeOK'
  BY <1>0 DEF ProvisioningTypeOK
<1>2. \A p \in Operators : step[p] \notin {"select", "commit"}
  BY <1>0, AdminProvisioningAssumption DEF RowLockExclusive
<1>3. RowLockExclusive' /\ StillSo'
  BY <1>0, <1>2 DEF ProvisioningTypeOK, RowLockExclusive, StillSo
<1>4. ProvisionedIsAudited'
  BY <1>0 DEF ProvisionedIsAudited
<1>5. QED
  BY <1>1, <1>3, <1>4

\* A run ends without a commit.
LEMMA FailedRunInv ==
  ASSUME ProvisioningInv, NEW o \in Operators, step[o] # "end", Failed(o),
         UNCHANGED <<member, credential, bootstraps, target>>,
         NEW m \in {"created", "exact_provisioned", None}, mode' = [mode EXCEPT ![o] = m]
  PROVE  ProvisioningInv'
<1> USE DEF ProvisioningInv
<1>0. /\ step' = [step EXCEPT ![o] = "end"]
      /\ tenantLock' = IF tenantLock = o THEN None ELSE tenantLock
  BY DEF Failed, GoOn
<1>1. ProvisioningTypeOK'
  BY <1>0 DEF ProvisioningTypeOK
<1>2. \A p \in Operators : step'[p] \in {"select", "commit"} =>
        p # o /\ step'[p] = step[p] /\ mode'[p] = mode[p]
  BY <1>0 DEF ProvisioningTypeOK
<1>3. RowLockExclusive'
  BY <1>0, <1>2 DEF RowLockExclusive
<1>4. StillSo'
  <2> SUFFICES ASSUME NEW p \in Operators, step'[p] = "commit" PROVE Exact(mode[p], target[p])'
    BY DEF StillSo
  <2>1. Exact(mode[p], target[p])
    BY <1>2 DEF StillSo
  <2>2. mode'[p] = mode[p] /\ target'[p] = target[p]
    BY <1>2
  <2>3. QED
    BY <2>1, <2>2 DEF Exact, Admins
<1>5. ProvisionedIsAudited'
  BY DEF ProvisionedIsAudited
<1>6. QED
  BY <1>1, <1>3, <1>4, <1>5

LEMMA SelectInv ==
  ASSUME ProvisioningInv, NEW o \in Operators, SelectExactTarget(o)
  PROVE  ProvisioningInv'
<1> USE DEF ProvisioningInv
<1> DEFINE t == target[o]
           found == CASE Admins = {} /\ member[t] = None -> "created"
                      [] Admins = {t} /\ member[t].active /\ credential[t] = None ->
                           "exact_provisioned"
                      [] OTHER -> None
<1>0. /\ UNCHANGED <<member, credential, bootstraps, target>> /\ step[o] = "select"
      /\ mode' = [mode EXCEPT ![o] = found]
      /\ IF found = None THEN Failed(o) ELSE GoOn(o, "commit") /\ UNCHANGED <<outcome, tenantLock>>
  BY DEF SelectExactTarget
<1>1. /\ found \in {"created", "exact_provisioned", None}
      /\ found = "created" => Admins = {} /\ member[t] = None
      /\ found = "exact_provisioned" => Admins = {t} /\ member[t].active /\ credential[t] = None
  <2> DEFINE none == Admins = {} /\ member[t] = None
             exact == Admins = {t} /\ member[t].active /\ credential[t] = None
  <2>1. found = CASE none -> "created" [] exact -> "exact_provisioned" [] OTHER -> None
    OBVIOUS
  <2>2. none => ~exact
    OBVIOUS
  <2> HIDE DEF none, exact, found
  <2>3. /\ found \in {"created", "exact_provisioned", None}
        /\ found = "created" => none
        /\ found = "exact_provisioned" => exact
    BY <2>1, <2>2, AdminProvisioningAssumption
  <2>4. QED
    BY <2>3 DEF none, exact
<1> HIDE DEF found
<1>2. CASE found = None
  BY <1>0, <1>1, <1>2, FailedRunInv
<1>3. CASE found # None
  <2>0. step' = [step EXCEPT ![o] = "commit"] /\ UNCHANGED tenantLock
    BY <1>0, <1>3 DEF GoOn
  <2>1. Exact(found, t)
    BY <1>1, <1>3 DEF Exact
  <2>2. ProvisioningTypeOK'
    BY <1>0, <1>1, <2>0 DEF ProvisioningTypeOK
  <2>3. RowLockExclusive'
    BY <1>0, <2>0 DEF ProvisioningTypeOK, RowLockExclusive
  <2>4. StillSo'
    <3> SUFFICES ASSUME NEW p \in Operators, step'[p] = "commit" PROVE Exact(mode[p], target[p])'
      BY DEF StillSo
    <3>1. CASE p = o
      <4>1. mode'[p] = found /\ target'[p] = t
        BY <1>0, <3>1 DEF ProvisioningTypeOK
      <4>2. QED
        BY <1>0, <2>1, <4>1 DEF Exact, Admins
    <3>2. CASE p # o
      <4>1. step[p] = "commit" /\ mode'[p] = mode[p] /\ target'[p] = target[p]
        BY <1>0, <2>0, <3>2 DEF ProvisioningTypeOK
      <4>2. Exact(mode[p], target[p])
        BY <4>1 DEF StillSo
      <4>3. QED
        BY <1>0, <4>1, <4>2 DEF Exact, Admins
    <3>3. QED
      BY <3>1, <3>2
  <2>5. ProvisionedIsAudited'
    BY <1>0 DEF ProvisionedIsAudited
  <2>6. QED
    BY <2>2, <2>3, <2>4, <2>5
<1>4. QED
  BY <1>2, <1>3

\* What a commit leaves: the target is the only administrator, active, and had no credential.
LEMMA CommitTarget ==
  ASSUME ProvisioningInv, NEW o \in Operators, CommitProvisioning(o)
  PROVE  /\ member' \in [Emails -> Member \cup {None}]
         /\ Admins' = {target[o]} /\ member'[target[o]].active /\ member'[target[o]] # None
         /\ credential[target[o]] = None
         /\ \A e \in Emails : e # target[o] => member'[e] = member[e]
         /\ mode[o] \in {"created", "exact_provisioned"}
<1> USE DEF ProvisioningInv
<1> DEFINE t == target[o]
           new == [role |-> "tenant_admin", active |-> TRUE]
<1>0. /\ step[o] = "commit"
      /\ member' = IF mode[o] = "created" THEN [member EXCEPT ![t] = new] ELSE member
  BY DEF CommitProvisioning
<1>1. t \in Emails /\ Exact(mode[o], t)
  BY <1>0 DEF ProvisioningTypeOK, StillSo
<1>2. new \in Member /\ new # None
  <2>1. new \in Member
    BY DEF Member
  <2>2. QED
    BY <2>1, AdminProvisioningAssumption
<1>3. CASE mode[o] = "created"
  <2>1. Admins = {} /\ member[t] = None
    BY <1>1, <1>3 DEF Exact
  <2>2. member' = [member EXCEPT ![t] = new]
    BY <1>0, <1>3
  <2>3. member'[t] = new /\ \A e \in Emails : e # t => member'[e] = member[e]
    BY <1>1, <2>2 DEF ProvisioningTypeOK
  <2>4. member' \in [Emails -> Member \cup {None}]
    BY <1>2, <2>2 DEF ProvisioningTypeOK
  <2>5. Admins' = {t}
    BY <1>1, <1>2, <2>1, <2>3 DEF Admins
  <2>6. credential[t] = None
    BY <1>1, <2>1 DEF ProvisioningTypeOK
  <2>7. QED
    BY <1>2, <1>3, <2>3, <2>4, <2>5, <2>6
<1>4. CASE mode[o] = "exact_provisioned"
  <2>1. member' = member /\ Admins = {t} /\ member[t].active /\ credential[t] = None
    BY <1>0, <1>1, <1>4 DEF Exact
  <2>2. member[t] # None
    BY <2>1 DEF Admins
  <2>3. QED
    BY <1>4, <2>1, <2>2 DEF ProvisioningTypeOK, Admins
<1>5. QED
  BY <1>1, <1>3, <1>4 DEF Exact

LEMMA CommitProvisioningInv ==
  ASSUME ProvisioningInv, NEW o \in Operators, CommitProvisioning(o)
  PROVE  ProvisioningInv'
<1> USE DEF ProvisioningInv
<1>0. /\ step[o] = "commit" /\ step' = [step EXCEPT ![o] = "end"]
      /\ credential' = [credential EXCEPT ![target[o]] = o]
      /\ bootstraps' = bootstraps \cup {<<o, target[o], mode[o]>>}
      /\ tenantLock' = IF tenantLock = o THEN None ELSE tenantLock
      /\ UNCHANGED <<target, mode>>
  BY DEF CommitProvisioning, GoOn
<1>1. /\ member' \in [Emails -> Member \cup {None}]
      /\ member'[target[o]] # None /\ target[o] \in Emails
      /\ \A e \in Emails : e # target[o] => member'[e] = member[e]
      /\ mode[o] \in {"created", "exact_provisioned"}
  BY CommitTarget DEF ProvisioningTypeOK
<1>2. ProvisioningTypeOK'
  BY <1>0, <1>1 DEF ProvisioningTypeOK
<1>3. \A p \in Operators : step'[p] \notin {"select", "commit"}
  BY <1>0 DEF ProvisioningTypeOK, RowLockExclusive
<1>4. RowLockExclusive' /\ StillSo'
  BY <1>3 DEF RowLockExclusive, StillSo
<1>5. ProvisionedIsAudited'
  BY <1>0, <1>1 DEF ProvisioningTypeOK, ProvisionedIsAudited
<1>6. QED
  BY <1>2, <1>4, <1>5

LEMMA RunAgainInv == ASSUME ProvisioningInv, NEW o \in Operators, RunAgain(o) PROVE ProvisioningInv'
<1> USE DEF ProvisioningInv
<1>0. /\ UNCHANGED <<member, credential, bootstraps, tenantLock>> /\ step[o] = "end"
      /\ step' = [step EXCEPT ![o] = "new"] /\ mode' = [mode EXCEPT ![o] = None]
  BY DEF RunAgain, GoOn
<1>1. PICK e \in Emails : target' = [target EXCEPT ![o] = e]
  BY DEF RunAgain
<1>2. ProvisioningTypeOK'
  BY <1>0, <1>1 DEF ProvisioningTypeOK
<1>3. \A p \in Operators : step'[p] \in {"select", "commit"} =>
        step'[p] = step[p] /\ mode'[p] = mode[p] /\ target'[p] = target[p]
  BY <1>0, <1>1 DEF ProvisioningTypeOK
<1>4. RowLockExclusive'
  BY <1>0, <1>3 DEF RowLockExclusive
<1>5. StillSo'
  BY <1>0, <1>3 DEF StillSo, Exact, Admins
<1>6. ProvisionedIsAudited'
  BY <1>0 DEF ProvisionedIsAudited
<1>7. QED
  BY <1>2, <1>4, <1>5, <1>6

\* The transactions of the API find the tenant's row free, so no run is inside.
LEMMA ApiInv ==
  ASSUME ProvisioningInv, NEW e \in Emails, ApiCreates(e) \/ ApiPatches(e) \/ ApiResets(e)
  PROVE  ProvisioningInv'
<1> USE DEF ProvisioningInv
<1> USE AdminProvisioningAssumption
<1>0. tenantLock = None /\ UNCHANGED <<bootstraps, tenantLock, step, target, mode>>
  BY DEF ApiCreates, ApiPatches, ApiResets, ByApi
<1>1. \A p \in Operators : step[p] \notin {"select", "commit"}
  BY <1>0 DEF RowLockExclusive
<1>2. CASE \E u \in Member : member' = [member EXCEPT ![e] = u] /\ UNCHANGED credential
  <2>1. ProvisioningTypeOK'
    BY <1>0, <1>2 DEF ProvisioningTypeOK
  <2>2. ProvisionedIsAudited'
    BY <1>0, <1>2 DEF ProvisionedIsAudited
  <2>3. QED
    BY <1>0, <1>1, <2>1, <2>2 DEF RowLockExclusive, StillSo
<1>3. CASE member[e] # None /\ credential' = [credential EXCEPT ![e] = "reset"] /\ UNCHANGED member
  <2>1. ProvisioningTypeOK'
    BY <1>0, <1>3 DEF ProvisioningTypeOK
  <2>2. ProvisionedIsAudited'
    BY <1>0, <1>3 DEF ProvisioningTypeOK, ProvisionedIsAudited
  <2>3. QED
    BY <1>0, <1>1, <2>1, <2>2 DEF RowLockExclusive, StillSo
<1>4. QED
  BY <1>2, <1>3 DEF ApiCreates, ApiPatches, ApiResets, ByApi

LEMMA AbortInv == ASSUME ProvisioningInv, NEW o \in Operators, Abort(o) PROVE ProvisioningInv'
<1>1. mode' = [mode EXCEPT ![o] = mode[o]] /\ mode[o] \in {"created", "exact_provisioned", None}
  BY DEF ProvisioningInv, ProvisioningTypeOK, Abort
<1>2. QED
  BY <1>1, FailedRunInv DEF Abort

LEMMA StutterInv == ASSUME ProvisioningInv, UNCHANGED provisioningVars PROVE ProvisioningInv'
BY DEF ProvisioningInv, provisioningVars, ProvisioningTypeOK, RowLockExclusive, StillSo, Exact,
       Admins, ProvisionedIsAudited

LEMMA ProvisioningNextInv ==
  ASSUME ProvisioningInv, [ProvisioningNext]_provisioningVars PROVE ProvisioningInv'
<1>1. ASSUME NEW o \in Operators, Provision(o) PROVE ProvisioningInv'
  BY <1>1, LockTenantInv, SelectInv, CommitProvisioningInv, AbortInv, RunAgainInv DEF Provision
<1>2. QED
  BY <1>1, ApiInv, StutterInv DEF ProvisioningNext

-----------------------------------------------------------------------------
\* Types, and every credential belongs to a user.
THEOREM ProvisioningTypes == ProvisioningSpec => []ProvisioningTypeOK
<1>1. ProvisioningInv => ProvisioningTypeOK
  BY DEF ProvisioningInv
<1>2. QED
  BY <1>1, ProvisioningInitInv, ProvisioningNextInv, PTL DEF ProvisioningSpec

\* Every credential that provisionFirstAdmin wrote has the audit row of its transaction.
THEOREM Audited == ProvisioningSpec => []ProvisionedIsAudited
<1>1. ProvisioningInv => ProvisionedIsAudited
  BY DEF ProvisioningInv
<1>2. QED
  BY <1>1, ProvisioningInitInv, ProvisioningNextInv, PTL DEF ProvisioningSpec

\* Which credentials a step can write: a commit that of its target, a reset any.
LEMMA CredentialWrites ==
  ASSUME ProvisioningInv, [ProvisioningNext]_provisioningVars
  PROVE  \/ UNCHANGED credential
         \/ \E o \in Operators : CommitProvisioning(o)
         \/ \E e \in Emails : credential' = [credential EXCEPT ![e] = "reset"]
BY DEF ProvisioningNext, provisioningVars, Provision, LockActiveTenant, SelectExactTarget, Abort,
       RunAgain, ApiCreates, ApiPatches, ApiResets

\* provisionFirstAdmin gives a password only to the tenant's only administrator, who is
\* active and had none.
THEOREM FirstAdminOnly == ProvisioningSpec => OnlyTheFirstAdmin
<1> DEFINE P(e) == credential'[e] \in Operators /\ credential'[e] # credential[e] =>
                     Admins' = {e} /\ AdminsInForce' = {e} /\ credential[e] = None
<1>1. ASSUME ProvisioningInv, [ProvisioningNext]_provisioningVars, NEW e \in Emails PROVE P(e)
  <2>1. CASE UNCHANGED credential
    BY <2>1
  <2>2. ASSUME NEW o \in Operators, CommitProvisioning(o) PROVE P(e)
    <3>1. credential' = [credential EXCEPT ![target[o]] = o]
      BY <2>2 DEF CommitProvisioning
    <3>2. Admins' = {target[o]} /\ member'[target[o]].active /\ credential[target[o]] = None
      BY <1>1, <2>2, CommitTarget
    <3>3. AdminsInForce' = {target[o]}
      BY <3>2 DEF AdminsInForce
    <3>4. credential'[e] # credential[e] => e = target[o]
      BY <1>1, <3>1 DEF ProvisioningInv, ProvisioningTypeOK
    <3>5. QED
      BY <3>2, <3>3, <3>4
  <2>3. ASSUME NEW d \in Emails, credential' = [credential EXCEPT ![d] = "reset"] PROVE P(e)
    BY <1>1, <2>3, AdminProvisioningAssumption DEF ProvisioningInv, ProvisioningTypeOK
  <2>4. QED
    BY <1>1, <2>1, <2>2, <2>3, CredentialWrites
<1>2. ASSUME ProvisioningInv, [ProvisioningNext]_provisioningVars
      PROVE  [\A e \in Emails : P(e)]_provisioningVars
  BY <1>1, <1>2
<1>3. QED
  BY <1>2, ProvisioningInitInv, ProvisioningNextInv, PTL DEF ProvisioningSpec, OnlyTheFirstAdmin

\* A password once there is replaced by a reset only.
THEOREM PasswordsStay == ProvisioningSpec => CredentialsStay
<1> DEFINE P(e) == credential[e] # None => credential'[e] \in {credential[e], "reset"}
<1>1. ASSUME ProvisioningInv, [ProvisioningNext]_provisioningVars, NEW e \in Emails PROVE P(e)
  <2>1. CASE UNCHANGED credential
    BY <2>1
  <2>2. ASSUME NEW o \in Operators, CommitProvisioning(o) PROVE P(e)
    <3>1. credential' = [credential EXCEPT ![target[o]] = o] /\ credential[target[o]] = None
      BY <1>1, <2>2, CommitTarget DEF CommitProvisioning
    <3>2. QED
      BY <1>1, <3>1 DEF ProvisioningInv, ProvisioningTypeOK
  <2>3. ASSUME NEW d \in Emails, credential' = [credential EXCEPT ![d] = "reset"] PROVE P(e)
    BY <1>1, <2>3 DEF ProvisioningInv, ProvisioningTypeOK
  <2>4. QED
    BY <1>1, <2>1, <2>2, <2>3, CredentialWrites
<1>2. ASSUME ProvisioningInv, [ProvisioningNext]_provisioningVars
      PROVE  [\A e \in Emails : P(e)]_provisioningVars
  BY <1>1, <1>2
<1>3. QED
  BY <1>2, ProvisioningInitInv, ProvisioningNextInv, PTL DEF ProvisioningSpec, CredentialsStay

-----------------------------------------------------------------------------
(***************************************************************************)
(* Registration.                                                           *)
(* Whoever has seen that its key has no row holds the advisory lock of the *)
(* key until it has committed the row or has given up (LockHeld), so the   *)
(* row it writes is the first (NoRowYet), its identifiers are its own      *)
(* (FreshKeys), and only it can show the credential (NotShownYet).         *)
(***************************************************************************)

Writing == {"absent", "pending", "tenant", "api_key", "closed"}

LockHeld == \A c \in Clients :
  /\ serving[c].pc \in Writing \cup {"locked"} => advisory[Lock(c)] = c
  /\ serving[c].pc # "none" => Valid(c)

NoRowYet == \A c \in Clients : serving[c].pc \in Writing => ledger[Key(c)] = NoRow

\* Identifiers are generated one after the other.
IdsInOrder == \A c \in Clients :
  /\ serving[c].pc \in {"tenant", "api_key", "closed", "committed"} => serving[c].tenant \in Ids
  /\ serving[c].pc \in {"api_key", "closed", "committed"} => serving[c].apiKey \in Ids

\* No two rows, committed or not, have one API key.
FreshKeys ==
  /\ \A k, l \in Keys :
       ledger[k] # NoRow /\ ledger[l] # NoRow /\ ledger[k].apiKey = ledger[l].apiKey => k = l
  /\ \A c \in Clients : serving[c].pc \in {"api_key", "closed"} =>
       /\ \A k \in Keys : ledger[k] # NoRow => ledger[k].apiKey # serving[c].apiKey
       /\ \A d \in Clients \ {c} : serving[d].pc \in {"api_key", "closed"} =>
            serving[d].apiKey # serving[c].apiKey

RowOf(c) ==
  [digest |-> Digest(c), tenant |-> serving[c].tenant, apiKey |-> serving[c].apiKey]

\* Between COMMIT and the reply nobody else has the credential.
NotShownYet == \A c \in Clients : serving[c].pc = "committed" =>
  /\ ledger[Key(c)] = RowOf(c)
  /\ \A s \in shown : Key(s.client) # Key(c)
  /\ \A d \in Clients \ {c} : serving[d].pc = "committed" => Key(d) # Key(c)

ShownRows ==
  /\ shown \subseteq [client : Clients, apiKey : Ids]
  /\ \A s \in shown : /\ Key(s.client) \in Keys
                      /\ ledger[Key(s.client)] # NoRow
                      /\ ledger[Key(s.client)].apiKey = s.apiKey
  /\ \A s, t \in shown : Key(s.client) = Key(t.client) => s = t

\* What the answer a says of the request of c is so.
Truthful(c, a) ==
  /\ a.code \in {"created", "not_replayable", "key_reused"} =>
       Key(c) \in Keys /\ ledger[Key(c)] # NoRow
  /\ a.code \in {"created", "not_replayable"} =>
       ledger[Key(c)] = [digest |-> Digest(c), tenant |-> a.tenant, apiKey |-> a.apiKey]
  /\ a.code = "key_reused" => ledger[Key(c)].digest # Digest(c)

AnswersAreTrue == \A c \in Clients : Truthful(c, answer[c])

RegistrationInv ==
  /\ RegistrationTypeOK /\ AllOrNothing /\ AnswersAreTrue
  /\ LockHeld /\ NoRowYet /\ IdsInOrder /\ FreshKeys /\ NotShownYet /\ ShownRows

LEMMA RegistrationInitInv == RegistrationInit => RegistrationInv
<1> SUFFICES ASSUME RegistrationInit PROVE RegistrationInv
  OBVIOUS
<1> USE RegistrationAssumption
<1>1. RegistrationTypeOK
  BY DEF RegistrationInit, RegistrationTypeOK, Serving, NoTransaction, Pc, Answer, Told, Codes
<1>2. \A c \in Clients : serving[c].pc = "none" /\ answer[c].code = "waiting"
  BY DEF RegistrationInit, NoTransaction, Told
<1>3. \A k \in Keys : ledger[k] = NoRow
  BY DEF RegistrationInit
<1>4. tenants = {} /\ apiKeys = {} /\ shown = {}
  BY DEF RegistrationInit
<1>5. AllOrNothing
  BY <1>3, <1>4 DEF AllOrNothing
<1>6. AnswersAreTrue
  BY <1>2 DEF AnswersAreTrue, Truthful
<1>7. LockHeld /\ NoRowYet /\ IdsInOrder
  BY <1>2 DEF LockHeld, NoRowYet, IdsInOrder, Writing
<1>8. FreshKeys
  BY <1>2, <1>3 DEF FreshKeys
<1>9. NotShownYet /\ ShownRows
  BY <1>2, <1>4 DEF NotShownYet, ShownRows
<1>10. QED
  BY <1>1, <1>5, <1>6, <1>7, <1>8, <1>9 DEF RegistrationInv

\* The transaction of c gets one statement further, without a commit.
LEMMA ServingInv ==
  ASSUME RegistrationInv, NEW c \in Clients, NEW t \in Serving,
         serving' = [serving EXCEPT ![c] = t],
         UNCHANGED <<sent, ledger, tenants, apiKeys, answer, shown, failures>>,
         advisory' \in [{LockOf[k] : k \in Keys} -> Clients \cup {Nobody}],
         \A d \in Clients \ {c} : advisory[Lock(d)] = d => advisory'[Lock(d)] = d,
         advisory'[Lock(c)] = c, Valid(c),
         t.pc \in Writing \cup {"locked"},
         t.pc \in Writing => ledger[Key(c)] = NoRow,
         t.pc \in {"tenant", "api_key", "closed"} => t.tenant \in Ids,
         t.pc \in {"api_key", "closed"} =>
           /\ t.apiKey \in Ids
           /\ \A k \in Keys : ledger[k] # NoRow => ledger[k].apiKey # t.apiKey
           /\ \A d \in Clients \ {c} : serving[d].pc \in {"api_key", "closed"} =>
                serving[d].apiKey # t.apiKey
  PROVE  RegistrationInv'
<1> USE DEF RegistrationInv
<1>0. /\ \A d \in Clients : Key(d)' = Key(d) /\ Digest(d)' = Digest(d) /\ Lock(d)' = Lock(d)
                            /\ Valid(d)' = Valid(d)
      /\ serving \in [Clients -> Serving]
      /\ serving'[c] = t /\ \A d \in Clients \ {c} : serving'[d] = serving[d]
      /\ t.pc # "committed"
  BY DEF Key, Digest, Lock, Valid, RegistrationTypeOK, Writing
<1>1. RegistrationTypeOK'
  BY <1>0 DEF RegistrationTypeOK
<1>2. AllOrNothing'
  BY DEF AllOrNothing
<1>3. AnswersAreTrue'
  BY <1>0 DEF AnswersAreTrue, Truthful
<1>4. LockHeld'
  BY <1>0 DEF LockHeld
<1>5. NoRowYet'
  BY <1>0 DEF NoRowYet
<1>6. IdsInOrder'
  BY <1>0 DEF IdsInOrder
<1>7. FreshKeys'
  <2>1. \A d \in Clients : serving'[d].pc \in {"api_key", "closed"} =>
          \A k \in Keys : ledger[k] # NoRow => ledger[k].apiKey # serving'[d].apiKey
    BY <1>0 DEF FreshKeys
  <2>2. \A d, e \in Clients :
          /\ d # e /\ serving'[d].pc \in {"api_key", "closed"}
          /\ serving'[e].pc \in {"api_key", "closed"}
          => serving'[e].apiKey # serving'[d].apiKey
    BY <1>0 DEF FreshKeys
  <2>3. QED
    BY <2>1, <2>2 DEF FreshKeys
<1>8. NotShownYet'
  <2>1. \A d \in Clients \ {c} : RowOf(d)' = RowOf(d)
    BY <1>0 DEF RowOf
  <2>2. \A s \in shown : Key(s.client)' = Key(s.client)
    BY DEF Key
  <2>3. QED
    BY <1>0, <2>1, <2>2 DEF NotShownYet
<1>9. ShownRows'
  BY DEF ShownRows, Key
<1>10. QED
  BY <1>1, <1>2, <1>3, <1>4, <1>5, <1>6, <1>7, <1>8, <1>9

\* The transaction of c ends without its writes.
LEMMA RefuseInv ==
  ASSUME RegistrationInv, NEW c \in Clients, NEW reply \in Answer, Refuse(c, reply),
         Truthful(c, reply), failures' \in 0 .. MaxFailures
  PROVE  RegistrationInv'
<1> USE DEF RegistrationInv
<1>0. /\ \A d \in Clients : Key(d)' = Key(d) /\ Digest(d)' = Digest(d) /\ Lock(d)' = Lock(d)
                            /\ Valid(d)' = Valid(d)
      /\ serving \in [Clients -> Serving] /\ answer \in [Clients -> Answer]
      /\ serving' = [serving EXCEPT ![c] = NoTransaction]
      /\ answer' = [answer EXCEPT ![c] = reply] /\ advisory' = Release(c)
      /\ UNCHANGED <<sent, ledger, tenants, apiKeys, shown>>
  BY DEF Key, Digest, Lock, Valid, RegistrationTypeOK, Refuse
<1>1. /\ serving'[c].pc = "none" /\ \A d \in Clients \ {c} : serving'[d] = serving[d]
      /\ answer'[c] = reply /\ \A d \in Clients \ {c} : answer'[d] = answer[d]
  BY <1>0 DEF NoTransaction
<1>2. /\ advisory' \in [{LockOf[k] : k \in Keys} -> Clients \cup {Nobody}]
      /\ \A d \in Clients \ {c} : Valid(d) /\ advisory[Lock(d)] = d => advisory'[Lock(d)] = d
  <2>1. \A d \in Clients : Valid(d) => Lock(d) \in {LockOf[k] : k \in Keys}
    BY DEF Valid, Lock, Key, RegistrationTypeOK, RegistrationRequest
  <2>2. QED
    BY <1>0, <2>1 DEF Release, RegistrationTypeOK
<1>3. RegistrationTypeOK'
  <2>1. NoTransaction \in Serving
    BY DEF NoTransaction, Serving, Pc
  <2>2. QED
    BY <1>0, <1>2, <2>1 DEF RegistrationTypeOK
<1>4. AllOrNothing'
  BY <1>0 DEF AllOrNothing
<1>5. AnswersAreTrue'
  BY <1>0, <1>1 DEF AnswersAreTrue, Truthful
<1>6. LockHeld'
  BY <1>0, <1>1, <1>2 DEF LockHeld, Writing
<1>7. NoRowYet' /\ IdsInOrder'
  BY <1>0, <1>1 DEF NoRowYet, IdsInOrder, Writing
<1>8. FreshKeys'
  BY <1>0, <1>1 DEF FreshKeys
<1>9. NotShownYet'
  <2>1. \A d \in Clients \ {c} : RowOf(d)' = RowOf(d)
    BY <1>0, <1>1 DEF RowOf
  <2>2. \A s \in shown : Key(s.client)' = Key(s.client)
    BY <1>0 DEF Key
  <2>3. QED
    BY <1>0, <1>1, <2>1, <2>2 DEF NotShownYet
<1>10. ShownRows'
  BY <1>0 DEF ShownRows, Key
<1>11. QED
  BY <1>3, <1>4, <1>5, <1>6, <1>7, <1>8, <1>9, <1>10

\* A code without identifiers that settles nothing is no lie.
LEMMA ToldIsTrue ==
  ASSUME NEW c, NEW code \in Codes \ {"created", "not_replayable", "key_reused"}
  PROVE  Told(code) \in Answer /\ Truthful(c, Told(code))
BY DEF Told, Answer, Truthful

LEMMA AcquireInv ==
  ASSUME RegistrationInv, NEW c \in Clients, AcquireRegistrationLock(c) PROVE RegistrationInv'
<1> USE RegistrationAssumption
<1>1. ASSUME advisory[Lock(c)] = Nobody, serving' = [serving EXCEPT ![c].pc = "locked"],
             advisory' = [advisory EXCEPT ![Lock(c)] = c],
             UNCHANGED <<sent, ledger, tenants, apiKeys, answer, shown, failures>>
      PROVE  RegistrationInv'
  <2> DEFINE t == [serving[c] EXCEPT !.pc = "locked"]
  <2>1. RegistrationTypeOK /\ Valid(c) /\ serving[c] \in Serving
    BY DEF RegistrationInv, RegistrationTypeOK, AcquireRegistrationLock
  <2>2. Lock(c) \in {LockOf[k] : k \in Keys}
    BY <2>1 DEF Valid, Lock, Key, RegistrationTypeOK, RegistrationRequest
  <2>3. t \in Serving /\ t.pc = "locked" /\ serving' = [serving EXCEPT ![c] = t]
    BY <1>1, <2>1 DEF Serving, Pc
  <2>4. /\ advisory' \in [{LockOf[k] : k \in Keys} -> Clients \cup {Nobody}]
        /\ advisory'[Lock(c)] = c
        /\ \A d \in Clients \ {c} : advisory[Lock(d)] = d => advisory'[Lock(d)] = d
    BY <1>1, <2>1, <2>2 DEF RegistrationTypeOK
  <2> HIDE DEF t
  <2>5. QED
    BY <1>1, <2>1, <2>3, <2>4, ServingInv DEF Writing
<1>2. CASE Refuse(c, Told("in_progress")) /\ UNCHANGED failures
  BY <1>2, RefuseInv, ToldIsTrue DEF RegistrationInv, RegistrationTypeOK, Codes
<1>3. QED
  BY <1>1, <1>2 DEF AcquireRegistrationLock

\* A statement of c that writes nothing others see: its lock and its row are as before.
LEMMA StatementInv ==
  ASSUME RegistrationInv, NEW c \in Clients, NEW t \in Serving,
         serving[c].pc \in Writing \cup {"locked"}, t.pc \in Writing,
         serving' = [serving EXCEPT ![c] = t],
         UNCHANGED <<sent, ledger, tenants, apiKeys, advisory, answer, shown, failures>>,
         ledger[Key(c)] = NoRow,
         t.pc \in {"tenant", "api_key", "closed"} => t.tenant \in Ids,
         t.pc \in {"api_key", "closed"} =>
           /\ t.apiKey \in Ids
           /\ \A k \in Keys : ledger[k] # NoRow => ledger[k].apiKey # t.apiKey
           /\ \A d \in Clients \ {c} : serving[d].pc \in {"api_key", "closed"} =>
                serving[d].apiKey # t.apiKey
  PROVE  RegistrationInv'
<1>1. /\ advisory' \in [{LockOf[k] : k \in Keys} -> Clients \cup {Nobody}]
      /\ advisory'[Lock(c)] = c /\ Valid(c) /\ t.pc \in Writing \cup {"locked"}
      /\ \A d \in Clients \ {c} : advisory[Lock(d)] = d => advisory'[Lock(d)] = d
  BY DEF RegistrationInv, RegistrationTypeOK, LockHeld, Writing
<1>2. QED
  BY <1>1, ServingInv

LEMMA RejectExistingInv ==
  ASSUME RegistrationInv, NEW c \in Clients, RejectExisting(c) PROVE RegistrationInv'
<1>0. /\ serving[c].pc = "locked" /\ serving[c] \in Serving /\ Key(c) \in Keys
      /\ ledger[Key(c)] \in Row \cup {NoRow}
  <2>1. Valid(c)
    BY DEF RegistrationInv, LockHeld, RejectExisting
  <2>2. QED
    BY <2>1 DEF RegistrationInv, RegistrationTypeOK, RejectExisting, Valid, Key, RegistrationRequest
<1>1. ASSUME ledger[Key(c)] = NoRow, serving' = [serving EXCEPT ![c].pc = "absent"],
             UNCHANGED <<sent, ledger, tenants, apiKeys, advisory, answer, shown, failures>>
      PROVE  RegistrationInv'
  <2> DEFINE t == [serving[c] EXCEPT !.pc = "absent"]
  <2>1. t \in Serving /\ t.pc = "absent" /\ serving' = [serving EXCEPT ![c] = t]
    BY <1>0, <1>1 DEF Serving, Pc
  <2> HIDE DEF t
  <2>2. QED
    BY <1>0, <1>1, <2>1, StatementInv DEF Writing
<1>2. ASSUME ledger[Key(c)] # NoRow, Refuse(c, Verdict(c, ledger[Key(c)])), UNCHANGED failures
      PROVE  RegistrationInv'
  <2> DEFINE row == ledger[Key(c)]
  <2>1. row \in Row
    BY <1>0, <1>2
  <2>2. Verdict(c, row) \in Answer /\ Truthful(c, Verdict(c, row))
    <3>1. CASE row.digest # Digest(c)
      BY <1>0, <1>2, <3>1 DEF Verdict, Told, Answer, Codes, Truthful
    <3>2. CASE row.digest = Digest(c)
      BY <1>0, <1>2, <2>1, <3>2 DEF Verdict, Answer, Codes, Truthful, Row
    <3>3. QED
      BY <3>1, <3>2
  <2>3. failures' \in 0 .. MaxFailures
    BY <1>2 DEF RegistrationInv, RegistrationTypeOK
  <2>4. QED
    BY <1>2, <2>2, <2>3, RefuseInv
<1>3. QED
  BY <1>1, <1>2 DEF RejectExisting

LEMMA InsertPendingInv ==
  ASSUME RegistrationInv, NEW c \in Clients, InsertPending(c) PROVE RegistrationInv'
<1>1. ASSUME ledger[Key(c)] = NoRow, serving' = [serving EXCEPT ![c].pc = "pending"],
             UNCHANGED <<sent, ledger, tenants, apiKeys, advisory, answer, shown, failures>>
      PROVE  RegistrationInv'
  <2> DEFINE t == [serving[c] EXCEPT !.pc = "pending"]
  <2>1. serving[c].pc = "absent" /\ serving[c] \in Serving
    BY DEF RegistrationInv, RegistrationTypeOK, InsertPending
  <2>2. t \in Serving /\ t.pc = "pending" /\ serving' = [serving EXCEPT ![c] = t]
    BY <1>1, <2>1 DEF Serving, Pc
  <2> HIDE DEF t
  <2>3. QED
    BY <1>1, <2>1, <2>2, StatementInv DEF Writing
<1>2. CASE Refuse(c, Told("unavailable")) /\ UNCHANGED failures
  BY <1>2, RefuseInv, ToldIsTrue DEF RegistrationInv, RegistrationTypeOK, Codes
<1>3. QED
  BY <1>1, <1>2 DEF InsertPending

LEMMA InsertTenantInv ==
  ASSUME RegistrationInv, NEW c \in Clients, InsertTenant(c) PROVE RegistrationInv'
<1>1. PICK i \in Fresh : serving' = [serving EXCEPT ![c].pc = "tenant", ![c].tenant = i]
  BY DEF InsertTenant
<1> DEFINE t == [serving[c] EXCEPT !.pc = "tenant", !.tenant = i]
<1>2. serving[c].pc = "pending" /\ serving[c] \in Serving /\ i \in Ids
  BY DEF RegistrationInv, RegistrationTypeOK, InsertTenant, Fresh
<1>3. t \in Serving /\ t.pc = "tenant" /\ t.tenant = i /\ serving' = [serving EXCEPT ![c] = t]
  BY <1>1, <1>2 DEF Serving, Pc
<1>4. UNCHANGED <<sent, ledger, tenants, apiKeys, advisory, answer, shown, failures>>
  BY DEF InsertTenant
<1>5. ledger[Key(c)] = NoRow
  BY <1>2 DEF RegistrationInv, NoRowYet, Writing
<1> HIDE DEF t
<1>6. QED
  BY <1>2, <1>3, <1>4, <1>5, StatementInv DEF Writing

\* The identifier of a committed row is that of a committed API key, so none is fresh.
LEMMA FreshIsNew ==
  ASSUME RegistrationInv, NEW i \in Fresh
  PROVE  /\ i \in Ids
         /\ \A k \in Keys : ledger[k] # NoRow => ledger[k].apiKey # i
         /\ \A d \in Clients : serving[d].apiKey # i
<1>1. ASSUME NEW k \in Keys, ledger[k] # NoRow PROVE ledger[k].apiKey # i
  <2>1. [id |-> ledger[k].apiKey, tenant |-> ledger[k].tenant] \in apiKeys
    BY <1>1 DEF RegistrationInv, AllOrNothing
  <2>2. QED
    BY <2>1 DEF Fresh
<1>2. QED
  BY <1>1 DEF Fresh

LEMMA InsertApiKeyInv ==
  ASSUME RegistrationInv, NEW c \in Clients, InsertApiKey(c) PROVE RegistrationInv'
<1>1. PICK i \in Fresh : serving' = [serving EXCEPT ![c].pc = "api_key", ![c].apiKey = i]
  BY DEF InsertApiKey
<1> DEFINE t == [serving[c] EXCEPT !.pc = "api_key", !.apiKey = i]
<1>2. /\ serving[c].pc = "tenant" /\ serving[c] \in Serving /\ i \in Ids
      /\ serving[c].tenant \in Ids
  BY DEF RegistrationInv, RegistrationTypeOK, InsertApiKey, Fresh, IdsInOrder
<1>3. /\ t \in Serving /\ t.pc = "api_key" /\ t.apiKey = i /\ t.tenant = serving[c].tenant
      /\ serving' = [serving EXCEPT ![c] = t]
  BY <1>1, <1>2 DEF Serving, Pc
<1>4. UNCHANGED <<sent, ledger, tenants, apiKeys, advisory, answer, shown, failures>>
  BY DEF InsertApiKey
<1>5. ledger[Key(c)] = NoRow
  BY <1>2 DEF RegistrationInv, NoRowYet, Writing
<1> HIDE DEF t
<1>6. QED
  BY <1>2, <1>3, <1>4, <1>5, FreshIsNew, StatementInv DEF Writing

LEMMA SucceedLedgerInv ==
  ASSUME RegistrationInv, NEW c \in Clients, SucceedLedger(c) PROVE RegistrationInv'
<1> DEFINE t == [serving[c] EXCEPT !.pc = "closed"]
<1>1. /\ serving[c].pc = "api_key" /\ serving[c] \in Serving
      /\ serving[c].tenant \in Ids /\ serving[c].apiKey \in Ids
      /\ ledger[Key(c)] = NoRow
  BY DEF RegistrationInv, RegistrationTypeOK, SucceedLedger, IdsInOrder, NoRowYet, Writing
<1>2. /\ t \in Serving /\ t.pc = "closed" /\ t.apiKey = serving[c].apiKey
      /\ t.tenant = serving[c].tenant /\ serving' = [serving EXCEPT ![c] = t]
  BY <1>1 DEF SucceedLedger, Serving, Pc
<1>3. UNCHANGED <<sent, ledger, tenants, apiKeys, advisory, answer, shown, failures>>
  BY DEF SucceedLedger
<1>4. /\ \A k \in Keys : ledger[k] # NoRow => ledger[k].apiKey # serving[c].apiKey
      /\ \A d \in Clients \ {c} : serving[d].pc \in {"api_key", "closed"} =>
           serving[d].apiKey # serving[c].apiKey
  BY <1>1 DEF RegistrationInv, FreshKeys
<1> HIDE DEF t
<1>5. QED
  BY <1>1, <1>2, <1>3, <1>4, StatementInv DEF Writing

\* COMMIT: the row is the first of its key, and names the tenant and the API key
\* that are committed with it.
LEMMA CommitRegistrationInv ==
  ASSUME RegistrationInv, NEW c \in Clients, Commit(c) PROVE RegistrationInv'
<1> USE RegistrationAssumption
<1> DEFINE k0 == Key(c)
           row == RowOf(c)
<1>0. /\ serving[c].pc = "closed" /\ serving[c] \in Serving /\ Valid(c)
      /\ serving[c].tenant \in Ids /\ serving[c].apiKey \in Ids
      /\ k0 \in Keys /\ sent[c].body \in Bodies /\ ledger[k0] = NoRow
      /\ \A d \in Clients : Key(d)' = Key(d) /\ Digest(d)' = Digest(d) /\ Lock(d)' = Lock(d)
                            /\ Valid(d)' = Valid(d)
      /\ \A s \in shown : Key(s.client)' = Key(s.client)
  BY DEF RegistrationInv, RegistrationTypeOK, Commit, LockHeld, IdsInOrder, NoRowYet, Writing,
         Valid, Key, Digest, Lock, RegistrationRequest
<1>1. /\ ledger' = [ledger EXCEPT ![k0] = row]
      /\ tenants' = tenants \cup {[id |-> row.tenant, digest |-> row.digest]}
      /\ apiKeys' = apiKeys \cup {[id |-> row.apiKey, tenant |-> row.tenant]}
      /\ serving' = [serving EXCEPT ![c].pc = "committed"] /\ advisory' = Release(c)
      /\ UNCHANGED <<sent, answer, shown, failures>>
  BY DEF Commit, RowOf
<1>2. row \in Row /\ row # NoRow /\ row.apiKey = serving[c].apiKey
  BY <1>0 DEF RowOf, Row, Digest
<1>3. /\ serving'[c].pc = "committed" /\ RowOf(c)' = row
      /\ serving'[c].tenant \in Ids /\ serving'[c].apiKey \in Ids /\ serving'[c] \in Serving
      /\ \A d \in Clients \ {c} : serving'[d] = serving[d]
  BY <1>0, <1>1 DEF RegistrationInv, RegistrationTypeOK, Serving, Pc, RowOf
<1>4. ledger'[k0] = row /\ \A k \in Keys \ {k0} : ledger'[k] = ledger[k]
  BY <1>0, <1>1 DEF RegistrationInv, RegistrationTypeOK
<1> HIDE DEF row, k0
<1>5. /\ advisory' \in [{LockOf[k] : k \in Keys} -> Clients \cup {Nobody}]
      /\ \A d \in Clients \ {c} : Valid(d) /\ advisory[Lock(d)] = d => advisory'[Lock(d)] = d
  <2>1. \A d \in Clients : Valid(d) => Lock(d) \in {LockOf[k] : k \in Keys}
    BY DEF Valid, Lock, Key, RegistrationInv, RegistrationTypeOK, RegistrationRequest
  <2>2. QED
    BY <1>1, <2>1 DEF Release, RegistrationInv, RegistrationTypeOK
\* Nobody else with this key is between its look at the row and its commit.
<1>6. \A d \in Clients \ {c} : serving[d].pc \in Writing => Key(d) # k0
  <2>1. advisory[Lock(c)] = c
    BY <1>0 DEF RegistrationInv, LockHeld, Writing
  <2>2. QED
    BY <2>1 DEF RegistrationInv, LockHeld, Lock, k0
<1>7. RegistrationTypeOK'
  <2>1. /\ [id |-> row.tenant, digest |-> row.digest] \in Tenant
        /\ [id |-> row.apiKey, tenant |-> row.tenant] \in ApiKey
    BY <1>2 DEF Row, Tenant, ApiKey
  <2>2. ledger' \in [Keys -> Row \cup {NoRow}] /\ serving' \in [Clients -> Serving]
    BY <1>0, <1>1, <1>2, <1>3 DEF RegistrationInv, RegistrationTypeOK
  <2>3. QED
    BY <1>1, <1>5, <2>1, <2>2 DEF RegistrationInv, RegistrationTypeOK
<1>8. AllOrNothing'
  <2> DEFINE rows == {ledger[k] : k \in Keys} \ {NoRow}
  <2>1. rows' = rows \cup {row}
    BY <1>0, <1>2, <1>4 DEF k0
  <2>2. /\ tenants = {[id |-> r.tenant, digest |-> r.digest] : r \in rows}
        /\ apiKeys = {[id |-> r.apiKey, tenant |-> r.tenant] : r \in rows}
    BY DEF RegistrationInv, AllOrNothing
  <2> HIDE DEF rows
  <2>3. /\ tenants' = {[id |-> r.tenant, digest |-> r.digest] : r \in rows'}
        /\ apiKeys' = {[id |-> r.apiKey, tenant |-> r.tenant] : r \in rows'}
    BY <1>1, <2>1, <2>2
  <2>4. QED
    BY <2>3 DEF AllOrNothing, rows
<1>9. AnswersAreTrue'
  <2> SUFFICES ASSUME NEW d \in Clients PROVE Truthful(d, answer[d])'
    BY DEF AnswersAreTrue
  <2>1. /\ Truthful(d, answer[d]) /\ answer'[d] = answer[d]
        /\ Key(d)' = Key(d) /\ Digest(d)' = Digest(d)
    BY <1>0, <1>1 DEF RegistrationInv, AnswersAreTrue
  <2>2. CASE answer[d].code \notin {"created", "not_replayable", "key_reused"}
    BY <2>1, <2>2 DEF Truthful
  <2>3. CASE answer[d].code \in {"created", "not_replayable", "key_reused"}
    <3>1. Key(d) \in Keys \ {k0}
      BY <1>0, <2>1, <2>3 DEF Truthful
    <3>2. ledger'[Key(d)] = ledger[Key(d)]
      BY <1>4, <3>1
    <3>3. QED
      BY <2>1, <3>2 DEF Truthful
  <2>4. QED
    BY <2>2, <2>3
<1>10. LockHeld'
  BY <1>0, <1>3, <1>5 DEF RegistrationInv, LockHeld, Writing
<1>11. NoRowYet'
  <2> SUFFICES ASSUME NEW d \in Clients, serving'[d].pc \in Writing PROVE ledger'[Key(d)] = NoRow
    BY <1>0 DEF NoRowYet
  <2>1. d # c /\ serving'[d] = serving[d]
    BY <1>3 DEF Writing
  <2>2. Key(d) \in Keys \ {k0} /\ ledger[Key(d)] = NoRow
    BY <1>6, <2>1 DEF RegistrationInv, RegistrationTypeOK, LockHeld, NoRowYet, Writing, Valid, Key,
                      RegistrationRequest
  <2>3. QED
    BY <1>4, <2>2
<1>12. IdsInOrder'
  BY <1>3 DEF RegistrationInv, IdsInOrder
<1>13. FreshKeys'
  <2>1. /\ \A k \in Keys : ledger[k] # NoRow => ledger[k].apiKey # row.apiKey
        /\ \A d \in Clients \ {c} : serving[d].pc \in {"api_key", "closed"} =>
             serving[d].apiKey # row.apiKey
    BY <1>0, <1>2 DEF RegistrationInv, FreshKeys
  <2>2. ASSUME NEW k \in Keys, NEW l \in Keys, ledger'[k] # NoRow, ledger'[l] # NoRow,
               ledger'[k].apiKey = ledger'[l].apiKey
        PROVE  k = l
    <3>1. CASE k = k0 \/ l = k0
      BY <1>4, <2>1, <2>2, <3>1
    <3>2. CASE k # k0 /\ l # k0
      BY <1>4, <2>2, <3>2 DEF RegistrationInv, FreshKeys
    <3>3. QED
      BY <3>1, <3>2
  <2>3. ASSUME NEW d \in Clients, serving'[d].pc \in {"api_key", "closed"}
        PROVE  /\ d # c /\ serving'[d] = serving[d]
               /\ \A k \in Keys : ledger'[k] # NoRow => ledger'[k].apiKey # serving[d].apiKey
    <3>1. d # c /\ serving'[d] = serving[d]
      BY <1>3, <2>3
    <3>2. \A k \in Keys : ledger[k] # NoRow => ledger[k].apiKey # serving[d].apiKey
      BY <2>3, <3>1 DEF RegistrationInv, FreshKeys
    <3>3. QED
      BY <1>4, <2>1, <2>3, <3>1, <3>2
  <2>4. QED
    BY <2>2, <2>3 DEF RegistrationInv, FreshKeys
<1>14. NotShownYet'
  <2>1. \A s \in shown : Key(s.client) \in Keys \ {k0}
    BY <1>0 DEF RegistrationInv, ShownRows
  <2>2. ASSUME NEW d \in Clients \ {c}, serving'[d].pc = "committed"
        PROVE  /\ serving'[d] = serving[d] /\ RowOf(d)' = RowOf(d) /\ Key(d) \in Keys \ {k0}
               /\ ledger[Key(d)] = RowOf(d)
    <3>1. serving'[d] = serving[d] /\ RowOf(d)' = RowOf(d)
      BY <1>0, <1>3 DEF RowOf
    <3>2. ledger[Key(d)] = RowOf(d) /\ Key(d) \in Keys
      BY <2>2, <3>1 DEF RegistrationInv, RegistrationTypeOK, NotShownYet, LockHeld, Valid, Key,
                        RegistrationRequest
    <3>3. RowOf(d) # NoRow
      <4>1. RowOf(d) \in Row
        BY <2>2, <3>1 DEF RegistrationInv, RegistrationTypeOK, IdsInOrder, RowOf, Row, Digest,
                          RegistrationRequest
      <4>2. QED
        BY <4>1
    <3>4. QED
      BY <1>0, <3>1, <3>2, <3>3
  <2>3. ASSUME NEW d \in Clients, serving'[d].pc = "committed"
        PROVE  /\ ledger'[Key(d)] = RowOf(d)'
               /\ \A s \in shown : Key(s.client) # Key(d)
               /\ \A e \in Clients \ {d} : serving'[e].pc = "committed" => Key(e) # Key(d)
    <3>1. CASE d = c
      BY <1>3, <1>4, <2>1, <2>2, <3>1 DEF k0
    <3>2. CASE d # c
      <4>1. ledger'[Key(d)] = RowOf(d)'
        BY <1>4, <2>2, <2>3, <3>2
      <4>2. \A s \in shown : Key(s.client) # Key(d)
        BY <2>2, <2>3, <3>2 DEF RegistrationInv, NotShownYet
      <4>3. ASSUME NEW e \in Clients \ {d}, serving'[e].pc = "committed" PROVE Key(e) # Key(d)
        <5>1. CASE e = c
          BY <2>2, <2>3, <3>2, <5>1 DEF k0
        <5>2. CASE e # c
          BY <2>2, <2>3, <3>2, <4>3, <5>2 DEF RegistrationInv, NotShownYet
        <5>3. QED
          BY <5>1, <5>2
      <4>4. QED
        BY <4>1, <4>2, <4>3
    <3>3. QED
      BY <3>1, <3>2
  <2>4. QED
    BY <1>0, <1>1, <2>3 DEF NotShownYet
<1>15. ShownRows'
  <2>1. \A s \in shown : Key(s.client) \in Keys \ {k0}
    BY <1>0 DEF RegistrationInv, ShownRows
  <2>2. QED
    BY <1>0, <1>1, <1>4, <2>1 DEF RegistrationInv, ShownRows
<1>16. QED
  BY <1>7, <1>8, <1>9, <1>10, <1>11, <1>12, <1>13, <1>14, <1>15 DEF RegistrationInv

LEMMA ReplyInv == ASSUME RegistrationInv, NEW c \in Clients, Reply(c) PROVE RegistrationInv'
<1> DEFINE said == [code |-> "created", tenant |-> serving[c].tenant, apiKey |-> serving[c].apiKey]
           new == [client |-> c, apiKey |-> serving[c].apiKey]
<1>0. /\ \A d \in Clients : Key(d)' = Key(d) /\ Digest(d)' = Digest(d) /\ Lock(d)' = Lock(d)
                            /\ Valid(d)' = Valid(d)
      /\ serving \in [Clients -> Serving] /\ answer \in [Clients -> Answer]
      /\ serving[c].pc = "committed" /\ serving' = [serving EXCEPT ![c] = NoTransaction]
      /\ answer' = [answer EXCEPT ![c] = said] /\ shown' = shown \cup {new}
      /\ UNCHANGED <<sent, ledger, tenants, apiKeys, advisory, failures>>
      /\ \A s \in shown' : Key(s.client)' = Key(s.client)
  BY DEF Key, Digest, Lock, Valid, RegistrationInv, RegistrationTypeOK, Reply
<1>1. /\ Key(c) \in Keys /\ ledger[Key(c)] = RowOf(c) /\ sent[c].body \in Bodies
      /\ serving[c].tenant \in Ids /\ serving[c].apiKey \in Ids
      /\ \A s \in shown : Key(s.client) # Key(c)
  BY <1>0 DEF RegistrationInv, RegistrationTypeOK, NotShownYet, LockHeld, Valid, Key, IdsInOrder,
              RegistrationRequest
<1>2. RowOf(c) # NoRow /\ RowOf(c).apiKey = serving[c].apiKey
  <2>1. RowOf(c) \in Row
    BY <1>1 DEF RowOf, Row, Digest
  <2>2. QED
    BY <2>1, RegistrationAssumption DEF RowOf
<1>3. said \in Answer /\ new \in [client : Clients, apiKey : Ids] /\ NoTransaction \in Serving
  BY <1>1 DEF Answer, Codes, NoTransaction, Serving, Pc
<1>4. /\ serving'[c].pc = "none" /\ \A d \in Clients \ {c} : serving'[d] = serving[d]
      /\ answer'[c] = said /\ \A d \in Clients \ {c} : answer'[d] = answer[d]
  BY <1>0 DEF NoTransaction
<1>5. RegistrationTypeOK'
  BY <1>0, <1>3 DEF RegistrationInv, RegistrationTypeOK
<1>6. AllOrNothing'
  BY <1>0 DEF RegistrationInv, AllOrNothing
<1>7. AnswersAreTrue'
  <2>1. Truthful(c, said)
    BY <1>1, <1>2 DEF Truthful, RowOf
  <2> HIDE DEF said
  <2>2. QED
    BY <1>0, <1>4, <2>1 DEF RegistrationInv, AnswersAreTrue, Truthful
<1>8. LockHeld' /\ NoRowYet' /\ IdsInOrder'
  BY <1>0, <1>4 DEF RegistrationInv, LockHeld, NoRowYet, IdsInOrder, Writing
<1>9. FreshKeys'
  BY <1>0, <1>4 DEF RegistrationInv, FreshKeys
<1>10. NotShownYet'
  <2>1. \A d \in Clients \ {c} : serving[d].pc = "committed" => RowOf(d)' = RowOf(d)
    BY <1>0, <1>4 DEF RowOf
  <2>2. \A d \in Clients \ {c} : serving[d].pc = "committed" =>
          /\ Key(d) # Key(c) /\ ledger[Key(d)] = RowOf(d)
          /\ \A s \in shown : Key(s.client) # Key(d)
          /\ \A e \in Clients \ {d} : serving[e].pc = "committed" => Key(e) # Key(d)
    BY <1>0 DEF RegistrationInv, NotShownYet
  <2>3. \A s \in shown' : s \in shown \/ s.client = c
    BY <1>0
  <2>4. QED
    BY <1>0, <1>4, <2>1, <2>2, <2>3 DEF NotShownYet
<1>11. ShownRows'
  <2>1. shown' \subseteq [client : Clients, apiKey : Ids]
    BY <1>0, <1>3 DEF RegistrationInv, ShownRows
  <2>2. new.client = c /\ new.apiKey = serving[c].apiKey
    OBVIOUS
  <2> HIDE DEF new
  <2>3. \A s \in shown' : /\ Key(s.client) \in Keys /\ ledger[Key(s.client)] # NoRow
                          /\ ledger[Key(s.client)].apiKey = s.apiKey
    BY <1>0, <1>1, <1>2, <2>2 DEF RegistrationInv, ShownRows
  <2>4. \A s, t \in shown' : Key(s.client) = Key(t.client) => s = t
    BY <1>0, <1>1, <2>2 DEF RegistrationInv, ShownRows
  <2>5. QED
    BY <1>0, <2>1, <2>3, <2>4 DEF ShownRows
<1>12. QED
  BY <1>5, <1>6, <1>7, <1>8, <1>9, <1>10, <1>11 DEF RegistrationInv

LEMMA RetryInv == ASSUME RegistrationInv, NEW c \in Clients, Retry(c) PROVE RegistrationInv'
<1>1. /\ answer' = [answer EXCEPT ![c] = Told("waiting")]
      /\ UNCHANGED <<sent, ledger, tenants, apiKeys, advisory, serving, shown, failures>>
  BY DEF Retry
<1>2. Told("waiting") \in Answer /\ Told("waiting").code = "waiting"
  BY DEF Told, Answer, Codes
<1>3. RegistrationTypeOK'
  BY <1>1, <1>2 DEF RegistrationInv, RegistrationTypeOK
<1>4. AnswersAreTrue'
  BY <1>1, <1>2 DEF RegistrationInv, RegistrationTypeOK, AnswersAreTrue, Truthful, Key, Digest
<1>5. AllOrNothing'
  BY <1>1 DEF RegistrationInv, AllOrNothing
<1>6. LockHeld' /\ NoRowYet' /\ IdsInOrder' /\ FreshKeys'
  BY <1>1 DEF RegistrationInv, LockHeld, NoRowYet, IdsInOrder, FreshKeys, Lock, Key, Valid, Digest
<1>7. NotShownYet' /\ ShownRows'
  BY <1>1 DEF RegistrationInv, NotShownYet, ShownRows, RowOf, Key, Digest
<1>8. QED
  BY <1>3, <1>4, <1>5, <1>6, <1>7 DEF RegistrationInv

LEMMA RefusalsInv ==
  ASSUME RegistrationInv, NEW c \in Clients, Reject(c) \/ CallFails(c) PROVE RegistrationInv'
<1>1. CASE Reject(c)
  BY <1>1, RefuseInv, ToldIsTrue DEF Reject, RegistrationInv, RegistrationTypeOK, Codes
<1>2. CASE CallFails(c)
  <2>1. failures' \in 0 .. MaxFailures
    BY <1>2, RegistrationAssumption
       DEF CallFails, QueryFails, ReplyLost, RegistrationInv, RegistrationTypeOK
  <2>2. Refuse(c, Told("unavailable")) \/ Refuse(c, Told("lost"))
    BY <1>2 DEF CallFails, QueryFails, ReplyLost
  <2>3. QED
    BY <2>1, <2>2, RefuseInv, ToldIsTrue DEF Codes
<1>3. QED
  BY <1>1, <1>2

LEMMA RegistrationStutter ==
  ASSUME RegistrationInv, UNCHANGED registrationVars PROVE RegistrationInv'
<1>1. UNCHANGED <<sent, ledger, tenants, apiKeys, advisory, serving, answer, shown, failures>>
  BY DEF registrationVars
<1>2. RegistrationTypeOK' /\ AllOrNothing'
  BY <1>1 DEF RegistrationInv, RegistrationTypeOK, AllOrNothing
<1>3. AnswersAreTrue' /\ LockHeld' /\ NoRowYet' /\ IdsInOrder' /\ FreshKeys'
  BY <1>1 DEF RegistrationInv, AnswersAreTrue, Truthful, LockHeld, NoRowYet, IdsInOrder, FreshKeys,
              Lock, Key, Valid, Digest
<1>4. NotShownYet' /\ ShownRows'
  BY <1>1 DEF RegistrationInv, NotShownYet, ShownRows, RowOf, Key, Digest
<1>5. QED
  BY <1>2, <1>3, <1>4 DEF RegistrationInv

LEMMA RegistrationNextInv ==
  ASSUME RegistrationInv, [RegistrationNext]_registrationVars PROVE RegistrationInv'
<1>1. ASSUME NEW c \in Clients, Serve(c) PROVE RegistrationInv'
  BY <1>1, RefusalsInv, AcquireInv, RejectExistingInv, InsertPendingInv, InsertTenantInv,
     InsertApiKeyInv, SucceedLedgerInv, CommitRegistrationInv, ReplyInv DEF Serve
<1>2. QED
  BY <1>1, RefusalsInv, RetryInv, RegistrationStutter DEF RegistrationNext

\* For every number of clients and failures, and however keys collide in their locks: the
\* committed tenants and API keys are those of the ledger, no client is told a lie, and a
\* credential is shown once.
THEOREM HonestRegistration == RegistrationSpec => []RegistrationIsHonest
<1>1. RegistrationInv => RegistrationIsHonest
  <2> SUFFICES ASSUME RegistrationInv PROVE RegistrationIsHonest
    OBVIOUS
  <2>1. ToldTheTruth
    BY DEF RegistrationInv, AnswersAreTrue, Truthful, ToldTheTruth
  <2>2. ShownOnce
    <3> SUFFICES ASSUME NEW s \in shown, NEW t \in shown,
                        s.apiKey = t.apiKey \/ Key(s.client) = Key(t.client)
                 PROVE  s = t
      BY DEF ShownOnce
    <3>1. /\ Key(s.client) \in Keys /\ ledger[Key(s.client)] # NoRow
          /\ Key(t.client) \in Keys /\ ledger[Key(t.client)] # NoRow
          /\ ledger[Key(s.client)].apiKey = s.apiKey /\ ledger[Key(t.client)].apiKey = t.apiKey
          /\ Key(s.client) = Key(t.client) => s = t
      BY DEF RegistrationInv, ShownRows
    <3>2. QED
      BY <3>1 DEF RegistrationInv, FreshKeys
  <2>3. QED
    BY <2>1, <2>2 DEF RegistrationInv, RegistrationIsHonest
<1>2. QED
  BY <1>1, RegistrationInitInv, RegistrationNextInv, PTL DEF RegistrationSpec
-----------------------------------------------------------------------------
(***************************************************************************)
(* API keys.                                                               *)
(* A rotation links a key to a younger one of its tenant, and no other     *)
(* rotation has either of the two.  So a walk goes up in time and does not *)
(* return, and going down from any key one comes to an origin.             *)
(***************************************************************************)

LEMMA LeastNatural ==
  ASSUME NEW S, S \subseteq Nat, S # {}
  PROVE  \E n \in S : \A m \in S : n <= m
<1> DEFINE less == OpToRel(<, Nat)
<1>1. IsWellFoundedOn(less, Nat)
  BY NatLessThanWellFounded
<1>2. \A x, y \in Nat : x < y => <<x, y>> \in less
  BY DEF OpToRel
<1> HIDE DEF less
<1>3. PICK n \in S : \A m \in S : ~ (<<m, n>> \in less)
  BY <1>1, WFMin
<1>4. ASSUME NEW m \in S PROVE n <= m
  <2>1. m \in Nat /\ n \in Nat
    OBVIOUS
  <2>2. ~(m < n)
    BY <1>2, <1>3, <2>1
  <2> QED  BY <2>1, <2>2
<1> QED  BY <1>4

\* The key that follows k, or k.
After(out, k) == IF k \in DOMAIN out THEN out[k] ELSE k

\* f is a walk of m steps from k.
Steps(f, k, m, out) ==
  f = [n \in 0 .. m |-> IF n = 0 THEN k
                        ELSE IF f[n - 1] \in DOMAIN out THEN out[f[n - 1]] ELSE f[n - 1]]

\* The same, step by step.
Stepwise(f, k, m, out) ==
  /\ f = [n \in 0 .. m |-> f[n]]
  /\ f[0] = k /\ \A n \in 1 .. m : f[n] = After(out, f[n - 1])

LEMMA StepsAre ==
  ASSUME NEW f, NEW k, NEW m \in Nat, NEW out
  PROVE  Steps(f, k, m, out) <=> Stepwise(f, k, m, out)
<1>1. ASSUME Steps(f, k, m, out)
      PROVE  /\ f = [n \in 0 .. m |-> f[n]]
             /\ f[0] = k /\ \A n \in 1 .. m : f[n] = After(out, f[n - 1])
  <2> DEFINE e(n) == IF n = 0 THEN k
                     ELSE IF f[n - 1] \in DOMAIN out THEN out[f[n - 1]] ELSE f[n - 1]
  <2>1. f = [n \in 0 .. m |-> e(n)]
    BY <1>1 DEF Steps
  <2>2. e(0) = k /\ \A n \in 1 .. m : e(n) = After(out, f[n - 1])
    BY DEF After
  <2> HIDE DEF e
  <2>3. 0 \in 0 .. m /\ \A n \in 1 .. m : n \in 0 .. m
    OBVIOUS
  <2>4. \A n \in 0 .. m : f[n] = e(n)
    BY <2>1
  <2>5. f = [n \in 0 .. m |-> f[n]]
    BY <2>1
  <2> QED  BY <2>2, <2>3, <2>4, <2>5
<1>2. ASSUME f = [n \in 0 .. m |-> f[n]], f[0] = k, \A n \in 1 .. m : f[n] = After(out, f[n - 1])
      PROVE  Steps(f, k, m, out)
  <2> DEFINE e(n) == IF n = 0 THEN k
                     ELSE IF f[n - 1] \in DOMAIN out THEN out[f[n - 1]] ELSE f[n - 1]
  <2>1. \A n \in 0 .. m : f[n] = e(n)
    <3> TAKE n \in 0 .. m
    <3>1. CASE n = 0
      BY <1>2, <3>1
    <3>2. CASE n # 0
      <4>1. n \in 1 .. m
        BY <3>2
      <4>2. f[n] = After(out, f[n - 1])
        BY <1>2, <4>1
      <4> QED  BY <3>2, <4>2 DEF After
    <3> QED  BY <3>1, <3>2
  <2> HIDE DEF e
  <2>2. f = [n \in 0 .. m |-> e(n)]
    BY <1>2, <2>1
  <2> QED  BY <2>2 DEF e, Steps
<1> QED  BY <1>1, <1>2 DEF Stepwise

\* There are walks of any length.
LEMMA StepsExist ==
  ASSUME NEW k, NEW out, NEW m \in Nat
  PROVE  \E f : Steps(f, k, m, out)
<1> DEFINE S == {n \in Nat : ~ \E f : Steps(f, k, n, out)}
<1> SUFFICES ASSUME S # {} PROVE FALSE
  OBVIOUS
<1>1. PICK l \in S : \A n \in S : l <= n
  BY LeastNatural
<1>2. CASE l = 0
  <2> DEFINE f == [n \in 0 .. 0 |-> k]
  <2>1. f[0] = k /\ f = [n \in 0 .. 0 |-> f[n]]
    OBVIOUS
  <2>2. \A n \in 1 .. 0 : FALSE
    OBVIOUS
  <2> HIDE DEF f
  <2>3. Steps(f, k, 0, out)
    BY <2>1, <2>2, StepsAre DEF Stepwise
  <2> QED  BY <1>1, <1>2, <2>3
<1>3. CASE l # 0
  <2>1. l \in Nat /\ l - 1 \in Nat /\ ~ (l <= l - 1)
    BY <1>3
  <2>2. l - 1 \notin S
    BY <1>1, <2>1
  <2>3. PICK f : Steps(f, k, l - 1, out)
    BY <2>1, <2>2
  <2>4. f[0] = k /\ \A n \in 1 .. l - 1 : f[n] = After(out, f[n - 1])
    BY <2>1, <2>3, StepsAre DEF Stepwise
  <2> DEFINE g == [n \in 0 .. l |-> IF n = l THEN After(out, f[l - 1]) ELSE f[n]]
  <2>5. /\ g = [n \in 0 .. l |-> g[n]] /\ g[0] = f[0] /\ g[l] = After(out, f[l - 1])
        /\ \A n \in 0 .. l - 1 : g[n] = f[n]
    BY <2>1, <1>3
  <2> HIDE DEF g
  <2>6. \A n \in 1 .. l : g[n] = After(out, g[n - 1])
    <3> TAKE n \in 1 .. l
    <3>1. n - 1 \in 0 .. l - 1
      BY <2>1
    <3>2. CASE n = l
      BY <2>5, <3>1, <3>2
    <3>3. CASE n # l
      <4>1. n \in 1 .. l - 1 /\ n \in 0 .. l - 1
        BY <2>1, <3>3
      <4> QED  BY <2>4, <2>5, <3>1, <4>1
    <3> QED  BY <3>2, <3>3
  <2>7. Steps(g, k, l, out)
    <3>1. g = [n \in 0 .. l |-> g[n]]
      BY <2>5
    <3>2. Stepwise(g, k, l, out)
      BY <2>4, <2>5, <2>6, <3>1 DEF Stepwise
    <3> QED  BY <2>1, <3>2, StepsAre
  <2> QED  BY <1>1, <2>7
<1> QED  BY <1>2, <1>3

LEMMA WalkIs ==
  ASSUME NEW k, NEW ks, NEW out, IsFiniteSet(DOMAIN ks)
  PROVE  LET w == Walk(k, ks, out)
             N == Cardinality(DOMAIN ks)
         IN N \in Nat /\ w[0] = k /\ \A n \in 1 .. N : w[n] = After(out, w[n - 1])
<1> DEFINE N == Cardinality(DOMAIN ks)
           w == Walk(k, ks, out)
<1>1. N \in Nat
  BY FS_CardinalityType
<1>2. w = CHOOSE f : Steps(f, k, N, out)
  BY DEF Walk, Steps
<1> HIDE DEF N, w
<1>3. \E f : Steps(f, k, N, out)
  BY <1>1, StepsExist
<1>4. Steps(w, k, N, out)
  BY <1>2, <1>3, Zenon
<1>5. w[0] = k /\ \A n \in 1 .. N : w[n] = After(out, w[n - 1])
  BY <1>1, <1>4, StepsAre DEF Stepwise
<1> QED  BY <1>1, <1>5 DEF N, w

\* Each link leads to a key of its own, within a tenant.
LEMMA LinksAreOneToOne ==
  ASSUME NEW ks, NEW rows, \A a \in rows : CanonicalLink(a, ks),
         \A a, b \in rows : a.old = b.old \/ a.new = b.new => a = b
  PROVE  LET out == Outgoing(rows) IN
         /\ DOMAIN out = Replaced(rows) /\ DOMAIN out \subseteq DOMAIN ks
         /\ \A a \in rows : out[a.old] = a.new
         /\ \A x \in DOMAIN out :
              /\ out[x] \in DOMAIN ks /\ ks[out[x]].tenant = ks[x].tenant
              /\ \E a \in rows : x = a.old /\ out[x] = a.new
         /\ \A x, y \in DOMAIN out : out[x] = out[y] => x = y
<1> DEFINE out == Outgoing(rows)
<1>1. DOMAIN out = Replaced(rows)
  BY DEF Outgoing
<1>2. ASSUME NEW a \in rows PROVE out[a.old] = a.new
  <2>1. a.old \in Replaced(rows)
    BY DEF Replaced
  <2>2. PICK b \in rows : b.old = a.old /\ b = CHOOSE c \in rows : c.old = a.old
    OBVIOUS
  <2>3. b = a
    BY <2>2
  <2> QED  BY <2>1, <2>2, <2>3 DEF Outgoing
<1>3. ASSUME NEW x \in DOMAIN out
      PROVE  \E a \in rows : x = a.old /\ out[x] = a.new
  BY <1>1, <1>2 DEF Replaced
<1> HIDE DEF out
<1>4. \A a \in rows : /\ a.old \in DOMAIN ks /\ a.new \in DOMAIN ks
                      /\ ks[a.new].tenant = ks[a.old].tenant
  BY DEF CanonicalLink
<1>5. \A x \in DOMAIN out :
        x \in DOMAIN ks /\ out[x] \in DOMAIN ks /\ ks[out[x]].tenant = ks[x].tenant
  <2> TAKE x \in DOMAIN out
  <2>1. PICK a \in rows : x = a.old /\ out[x] = a.new
    BY <1>3
  <2> QED  BY <1>4, <2>1
<1>6. \A x, y \in DOMAIN out : out[x] = out[y] => x = y
  <2> SUFFICES ASSUME NEW x \in DOMAIN out, NEW y \in DOMAIN out, out[x] = out[y] PROVE x = y
    OBVIOUS
  <2>1. PICK a \in rows : x = a.old /\ out[x] = a.new
    BY <1>3
  <2>2. PICK b \in rows : y = b.old /\ out[y] = b.new
    BY <1>3
  <2>3. a = b
    BY <2>1, <2>2
  <2> QED  BY <2>1, <2>2, <2>3
<1> QED  BY <1>1, <1>2, <1>3, <1>5, <1>6 DEF out

\* No set of keys of a forest was only ever replaced by itself.
LEMMA ForestsAreGrounded ==
  ASSUME NEW roots, NEW ks, NEW rows, IsForest(roots, ks, rows),
         NEW S, S \subseteq DOMAIN ks, S # {}
  PROVE  \E c \in S : \A x \in S \cap DOMAIN Outgoing(rows) : Outgoing(rows)[x] # c
<1>1. PICK c \in S : \A a \in rows : a.new = c => a.old \notin S
  BY DEF IsForest
<1>2. \A x \in DOMAIN Outgoing(rows) : \E a \in rows : x = a.old /\ Outgoing(rows)[x] = a.new
  BY LinksAreOneToOne DEF IsForest
<1> QED  BY <1>1, <1>2

\* A walk from an origin stays with its tenant and ends.
LEMMA WalksEnd ==
  ASSUME NEW roots, NEW ks, NEW rows, IsFiniteSet(DOMAIN ks), IsForest(roots, ks, rows),
         NEW o \in roots
  PROVE  LET w == Walk(o.key, ks, Outgoing(rows))
             N == Cardinality(DOMAIN ks)
         IN /\ \A n \in 0 .. N : w[n] \in DOMAIN ks /\ ks[w[n]].tenant = o.tenant
            /\ w[N] \notin DOMAIN Outgoing(rows)
<1> DEFINE out == Outgoing(rows)
           w == Walk(o.key, ks, out)
           N == Cardinality(DOMAIN ks)
<1>1. N \in Nat /\ w[0] = o.key /\ \A n \in 1 .. N : w[n] = After(out, w[n - 1])
  BY WalkIs
<1>2. \A x \in DOMAIN out : out[x] \in DOMAIN ks /\ ks[out[x]].tenant = ks[x].tenant
  BY LinksAreOneToOne DEF IsForest
<1>3. o.key \in DOMAIN ks /\ ks[o.key].tenant = o.tenant
  BY DEF IsForest
<1>4. \A S : S \subseteq DOMAIN ks /\ S # {} =>
        \E c \in S : \A x \in S \cap DOMAIN out : out[x] # c
  BY ForestsAreGrounded
<1> HIDE DEF out, w, N
<1>5. ASSUME NEW n \in 0 .. N PROVE w[n] \in DOMAIN ks /\ ks[w[n]].tenant = o.tenant
  <2> DEFINE S == {m \in 0 .. N : ~(w[m] \in DOMAIN ks /\ ks[w[m]].tenant = o.tenant)}
  <2> SUFFICES ASSUME S # {} PROVE FALSE
    BY <1>5
  <2>0. S \subseteq Nat
    BY <1>1
  <2>1. PICK m \in S : \A l \in S : m <= l
    <3> HIDE DEF S
    <3> QED  BY <2>0, LeastNatural
  <2>2. m # 0 /\ m \in 1 .. N /\ m - 1 \in 0 .. N /\ ~(m <= m - 1)
    BY <1>1, <1>3, <2>1
  <2>3. w[m - 1] \in DOMAIN ks /\ ks[w[m - 1]].tenant = o.tenant
    BY <2>1, <2>2
  <2>4. w[m] = After(out, w[m - 1])
    BY <1>1, <2>2
  <2> QED  BY <1>2, <2>1, <2>3, <2>4 DEF After
<1>6. ASSUME w[N] \in DOMAIN out PROVE FALSE
  <2>1. ASSUME NEW n \in 0 .. N PROVE w[n] \in DOMAIN out
    <3> DEFINE S == {m \in 0 .. N : w[N - m] \notin DOMAIN out}
    <3>1. ASSUME S # {} PROVE FALSE
      <4>0. S \subseteq Nat
        BY <1>1
      <4>1. PICK m \in S : \A l \in S : m <= l
        <5> HIDE DEF S
        <5> QED  BY <3>1, <4>0, LeastNatural
      <4>2. m # 0 /\ m - 1 \in 0 .. N /\ ~(m <= m - 1) /\ N - m + 1 \in 1 .. N
            /\ N - (m - 1) = N - m + 1 /\ (N - m + 1) - 1 = N - m
        BY <1>1, <1>6, <4>1
      <4>3. w[N - m + 1] \in DOMAIN out
        BY <4>1, <4>2
      <4>4. w[N - m + 1] = After(out, w[N - m])
        BY <1>1, <4>2
      <4> QED  BY <4>1, <4>3, <4>4 DEF After
    <3>2. N - n \in 0 .. N /\ N - (N - n) = n
      BY <1>1
    <3> QED  BY <3>1, <3>2
  <2>2. ASSUME NEW n \in 1 .. N
        PROVE  n - 1 \in 0 .. N /\ w[n - 1] \in DOMAIN out /\ w[n] = out[w[n - 1]]
    <3>1. n - 1 \in 0 .. N
      BY <1>1
    <3> QED  BY <1>1, <2>1, <3>1 DEF After
  <2>3. ASSUME NEW m \in 0 .. N, NEW n \in 0 .. N, m < n, w[m] = w[n] PROVE FALSE
    <3> DEFINE S == {w[i] : i \in m + 1 .. n}
    <3>1. n \in m + 1 .. n /\ m + 1 .. n \subseteq 1 .. N
      BY <1>1, <2>3
    <3>2. S \subseteq DOMAIN ks /\ S # {}
      BY <1>5, <3>1
    <3>3. PICK c \in S : \A x \in S \cap DOMAIN out : out[x] # c
      <4> HIDE DEF S
      <4> QED  BY <1>4, <3>2
    <3>4. PICK i \in m + 1 .. n : c = w[i]
      OBVIOUS
    <3>5. w[i - 1] \in DOMAIN out /\ w[i] = out[w[i - 1]]
      BY <2>2, <3>1
    <3>6. i - 1 = m \/ i - 1 \in m + 1 .. n
      BY <1>1, <2>3
    <3>7. w[i - 1] \in S
      BY <2>3, <3>1, <3>6
    <3> QED  BY <3>3, <3>4, <3>5, <3>7
  <2> DEFINE f == [n \in 0 .. N |-> w[n]]
  <2>5. f \in [0 .. N -> DOMAIN ks]
    BY <1>5
  <2>6. IsFiniteSet(0 .. N) /\ Cardinality(0 .. N) = N + 1
    <3>1. 0 \in Int /\ N \in Int /\ 0 <= N
      BY <1>1
    <3>2. IsFiniteSet(0 .. N) /\ Cardinality(0 .. N) = IF 0 > N THEN 0 ELSE N - 0 + 1
      BY <3>1, FS_Interval, Zenon
    <3> QED  BY <3>1, <3>2
  <2>7. N < N + 1
    BY <1>1
  <2>8. PICK m, n \in 0 .. N : m # n /\ f[m] = f[n]
    <3>1. Cardinality(DOMAIN ks) < Cardinality(0 .. N)
      BY <2>6, <2>7 DEF N
    <3> HIDE DEF f
    <3> QED  BY <1>1, <2>5, <2>6, <3>1, FS_PigeonHole
  <2>9. w[m] = w[n] /\ (m < n \/ n < m)
    BY <1>1, <2>8
  <2> QED  BY <2>3, <2>9
<1> QED  BY <1>5, <1>6 DEF out, w, N

\* What a walk from an origin visits.
LEMMA VisitedIs ==
  ASSUME NEW roots, NEW ks, NEW rows, IsFiniteSet(DOMAIN ks), IsForest(roots, ks, rows),
         NEW o \in roots
  PROVE  LET out == Outgoing(rows)
             V == Visited(o.key, ks, out)
         IN /\ o.key \in V /\ V \subseteq DOMAIN ks
            /\ \A y \in V : y = o.key \/ \E x \in V \cap DOMAIN out : y = out[x]
            /\ \A x \in V \cap DOMAIN out : out[x] \in V
            /\ LastOf(o.key, ks, out) \in V /\ LastOf(o.key, ks, out) \notin DOMAIN out
            /\ \A y \in V : ks[y].tenant = o.tenant
<1> DEFINE out == Outgoing(rows)
           w == Walk(o.key, ks, out)
           N == Cardinality(DOMAIN ks)
           V == Visited(o.key, ks, out)
<1>1. N \in Nat /\ w[0] = o.key /\ \A n \in 1 .. N : w[n] = After(out, w[n - 1])
  BY WalkIs
<1>2. /\ \A n \in 0 .. N : w[n] \in DOMAIN ks /\ ks[w[n]].tenant = o.tenant
      /\ w[N] \notin DOMAIN out
  BY WalksEnd
<1>3. V = {w[n] : n \in 0 .. N} /\ LastOf(o.key, ks, out) = w[N]
  BY DEF Visited, LastOf
<1> HIDE DEF out, w, N, V
<1>4. 0 \in 0 .. N /\ N \in 0 .. N
  BY <1>1
<1>5. ASSUME NEW y \in V PROVE y = o.key \/ \E x \in V \cap DOMAIN out : y = out[x]
  <2> DEFINE S == {n \in 0 .. N : w[n] = y}
  <2>1. S \subseteq Nat /\ S # {}
    BY <1>1, <1>3
  <2>2. PICK n \in S : \A m \in S : n <= m
    <3> HIDE DEF S
    <3> QED  BY <2>1, LeastNatural
  <2>3. CASE n = 0
    BY <1>1, <2>2, <2>3
  <2>4. CASE n # 0
    <3>1. n \in 1 .. N /\ n - 1 \in 0 .. N /\ ~(n <= n - 1)
      BY <1>1, <2>2, <2>4
    <3>2. w[n - 1] # y
      BY <2>2, <3>1
    <3>3. y = After(out, w[n - 1])
      BY <1>1, <2>2, <3>1
    <3>4. w[n - 1] \in DOMAIN out /\ y = out[w[n - 1]]
      BY <3>2, <3>3 DEF After
    <3>5. w[n - 1] \in V
      BY <1>3, <3>1
    <3> QED  BY <3>4, <3>5
  <2> QED  BY <2>3, <2>4
<1>6. ASSUME NEW x \in V, x \in DOMAIN out PROVE out[x] \in V
  <2>1. PICK n \in 0 .. N : x = w[n]
    BY <1>3
  <2>2. n # N
    BY <1>2, <1>6, <2>1
  <2>3. n + 1 \in 1 .. N /\ n + 1 \in 0 .. N /\ (n + 1) - 1 = n
    BY <1>1, <2>2
  <2>4. w[n + 1] = After(out, w[n])
    BY <1>1, <2>3
  <2>5. w[n + 1] = out[x]
    BY <1>6, <2>1, <2>4 DEF After
  <2> QED  BY <1>3, <2>3, <2>5
<1>7. V \subseteq DOMAIN ks /\ \A y \in V : ks[y].tenant = o.tenant
  BY <1>2, <1>3
<1>8. o.key \in V /\ w[N] \in V
  BY <1>1, <1>3, <1>4
<1> QED  BY <1>2, <1>3, <1>5, <1>6, <1>7, <1>8 DEF out, V

\* Two origins share no key.
LEMMA WalksDoNotMeet ==
  ASSUME NEW roots, NEW ks, NEW rows, IsFiniteSet(DOMAIN ks), IsForest(roots, ks, rows),
         NEW o \in roots, NEW p \in roots, o # p
  PROVE  Visited(o.key, ks, Outgoing(rows)) \cap Visited(p.key, ks, Outgoing(rows)) = {}
<1> DEFINE out == Outgoing(rows)
           V == Visited(o.key, ks, out)
           W == Visited(p.key, ks, out)
           S == V \cap W
<1> SUFFICES ASSUME S # {} PROVE FALSE
  OBVIOUS
<1>1. /\ o.key \in V /\ V \subseteq DOMAIN ks
      /\ \A y \in V : y = o.key \/ \E x \in V \cap DOMAIN out : y = out[x]
  BY VisitedIs
<1>2. /\ p.key \in W
      /\ \A y \in W : y = p.key \/ \E x \in W \cap DOMAIN out : y = out[x]
  BY VisitedIs
<1>3. /\ \A x \in DOMAIN out : \E a \in rows : x = a.old /\ out[x] = a.new
      /\ \A x, y \in DOMAIN out : out[x] = out[y] => x = y
  BY LinksAreOneToOne DEF IsForest
<1>4. o.key \notin Replacements(rows) /\ p.key \notin Replacements(rows) /\ o.key # p.key
  BY DEF IsForest
<1>5. \A x \in DOMAIN out : out[x] # o.key /\ out[x] # p.key
  BY <1>3, <1>4 DEF Replacements
<1>6. \A T : T \subseteq DOMAIN ks /\ T # {} =>
        \E c \in T : \A x \in T \cap DOMAIN out : out[x] # c
  BY ForestsAreGrounded
<1> HIDE DEF out, V, W
<1>7. PICK c \in S : \A x \in S \cap DOMAIN out : out[x] # c
  <2>1. S \subseteq DOMAIN ks
    BY <1>1
  <2> HIDE DEF S
  <2> QED  BY <1>6, <2>1
<1>8. c # o.key
  BY <1>2, <1>4, <1>5, <1>7
<1>9. c # p.key
  BY <1>1, <1>4, <1>5, <1>7
<1>10. PICK x \in V \cap DOMAIN out : c = out[x]
  BY <1>1, <1>7, <1>8
<1>11. PICK y \in W \cap DOMAIN out : c = out[y]
  BY <1>2, <1>7, <1>9
<1>12. x = y
  BY <1>3, <1>10, <1>11
<1> QED  BY <1>7, <1>10, <1>11, <1>12

\* Every key is on the walk from some origin.
LEMMA WalksVisitAll ==
  ASSUME NEW roots, NEW ks, NEW rows, IsFiniteSet(DOMAIN ks), IsForest(roots, ks, rows),
         NEW k \in DOMAIN ks
  PROVE  \E o \in roots : k \in Visited(o.key, ks, Outgoing(rows))
<1> DEFINE out == Outgoing(rows)
           V(o) == Visited(o.key, ks, out)
           S == {c \in DOMAIN ks : \A o \in roots : c \notin V(o)}
<1> SUFFICES ASSUME S # {} PROVE FALSE
  OBVIOUS
<1>1. \A o \in roots : o.key \in V(o) /\ \A x \in V(o) \cap DOMAIN out : out[x] \in V(o)
  BY VisitedIs
<1>2. DOMAIN out = Replaced(rows) /\ \A a \in rows : out[a.old] = a.new
  <2>1. /\ \A a \in rows : CanonicalLink(a, ks)
        /\ \A a, b \in rows : a.old = b.old \/ a.new = b.new => a = b
    BY DEF IsForest
  <2> QED  BY <2>1, LinksAreOneToOne
<1>3. /\ \A c \in DOMAIN ks : c \in {o.key : o \in roots} \cup Replacements(rows)
      /\ \A a \in rows : a.old \in DOMAIN ks
  BY DEF IsForest, CanonicalLink
<1>4. \A T : T \subseteq DOMAIN ks /\ T # {} =>
        \E c \in T : \A a \in rows : a.new = c => a.old \notin T
  BY DEF IsForest
<1> HIDE DEF out, V
<1>5. PICK c \in S : \A a \in rows : a.new = c => a.old \notin S
  <2>1. S \subseteq DOMAIN ks
    OBVIOUS
  <2> HIDE DEF S
  <2> QED  BY <1>4, <2>1
<1>6. c \notin {o.key : o \in roots}
  BY <1>1, <1>5
<1>7. PICK a \in rows : c = a.new
  BY <1>3, <1>5, <1>6 DEF Replacements
<1>8. PICK o \in roots : a.old \in V(o)
  BY <1>3, <1>5, <1>7
<1>9. a.old \in DOMAIN out
  BY <1>2 DEF Replaced
<1> QED  BY <1>1, <1>2, <1>5, <1>7, <1>8, <1>9

\* A setup accepts a forest of keys.
LEMMA ForestIsAccepted ==
  ASSUME NEW roots, NEW ks, NEW rows, IsFiniteSet(DOMAIN ks), IsForest(roots, ks, rows)
  PROVE  ChainsAccepted(roots, ks, rows)
<1> DEFINE out == Outgoing(rows)
<1>1. DOMAIN out = Replaced(rows)
  BY LinksAreOneToOne DEF IsForest
<1>2. ASSUME NEW o \in roots
      PROVE  /\ LastOf(o.key, ks, out) \notin DOMAIN out
             /\ ks[LastOf(o.key, ks, out)].revoked = NotRevoked
             /\ ks[LastOf(o.key, ks, out)].tenant = o.tenant
             /\ Visited(o.key, ks, out) \subseteq DOMAIN ks
  <2>1. /\ Visited(o.key, ks, out) \subseteq DOMAIN ks
        /\ LastOf(o.key, ks, out) \in Visited(o.key, ks, out)
        /\ LastOf(o.key, ks, out) \notin DOMAIN out
        /\ \A y \in Visited(o.key, ks, out) : ks[y].tenant = o.tenant
    BY VisitedIs
  <2> HIDE DEF out
  <2> QED  BY <1>1, <2>1 DEF IsForest
<1>3. \A o, p \in roots : o # p =>
        Visited(o.key, ks, out) \cap Visited(p.key, ks, out) = {}
  BY WalksDoNotMeet
<1>4. UNION {Visited(o.key, ks, out) : o \in roots} = DOMAIN ks
  <2>1. \A k \in DOMAIN ks : \E o \in roots : k \in Visited(o.key, ks, out)
    BY WalksVisitAll
  <2> HIDE DEF out
  <2> QED  BY <1>2, <2>1
<1>5. SoundWalks(roots, ks, out)
  <2> HIDE DEF out
  <2> QED  BY <1>2, <1>3, <1>4 DEF SoundWalks
<1>6. ValidDegrees(roots, ks, rows)
  BY DEF IsForest, ValidDegrees
<1> QED  BY <1>5, <1>6 DEF IsForest, ChainsAccepted

\* A walk enters no set of keys that only keys of the set were replaced by: the
\* origin is a replacement of none, and a first key of the set has the one before it.
LEMMA AcceptedIsGrounded ==
  ASSUME NEW roots, NEW ks, NEW rows, IsFiniteSet(DOMAIN ks), ChainsAccepted(roots, ks, rows),
         NEW S, S \subseteq DOMAIN ks, S # {}
  PROVE  \E k \in S : \A a \in rows : a.new = k => a.old \notin S
<1> SUFFICES ASSUME \A k \in S : \E a \in rows : a.new = k /\ a.old \in S PROVE FALSE
  OBVIOUS
<1> DEFINE out == Outgoing(rows)
           N == Cardinality(DOMAIN ks)
<1>1. /\ DOMAIN out = Replaced(rows)
      /\ \A a \in rows : out[a.old] = a.new
      /\ \A x, y \in DOMAIN out : out[x] = out[y] => x = y
  BY LinksAreOneToOne DEF ChainsAccepted
<1>2. PICK o \in roots : \E k \in S : k \in Visited(o.key, ks, out)
  <2>1. UNION {Visited(o.key, ks, out) : o \in roots} = DOMAIN ks
    BY DEF ChainsAccepted, SoundWalks
  <2> HIDE DEF out
  <2> QED  BY <2>1
<1> DEFINE w == Walk(o.key, ks, out)
<1>3. N \in Nat /\ w[0] = o.key /\ \A n \in 1 .. N : w[n] = After(out, w[n - 1])
  BY WalkIs
<1>4. \E n \in 0 .. N : w[n] \in S
  BY <1>2 DEF Visited
<1>5. o.key \notin Replacements(rows)
  BY DEF ChainsAccepted, ValidDegrees
<1> HIDE DEF out, N, w
<1> DEFINE T == {n \in 0 .. N : w[n] \in S}
<1>6. PICK n \in T : \A m \in T : n <= m
  <2>1. T \subseteq Nat /\ T # {}
    BY <1>3, <1>4
  <2> HIDE DEF T
  <2> QED  BY <2>1, LeastNatural
<1>7. PICK a \in rows : a.new = w[n] /\ a.old \in S
  BY <1>6
<1>8. n # 0
  BY <1>3, <1>5, <1>7 DEF Replacements
<1>9. n \in 1 .. N /\ n - 1 \in 0 .. N /\ ~(n <= n - 1)
  BY <1>3, <1>6, <1>8
<1>10. w[n - 1] \notin S
  BY <1>6, <1>9
<1>11. w[n - 1] \in DOMAIN out /\ out[w[n - 1]] = w[n]
  BY <1>3, <1>6, <1>9, <1>10 DEF After
<1>12. a.old \in DOMAIN out /\ out[a.old] = w[n]
  BY <1>1, <1>7 DEF Replaced
<1>13. w[n - 1] = a.old
  BY <1>1, <1>11, <1>12
<1> QED  BY <1>7, <1>10, <1>13

\* A repeated setup accepts the API keys it finds exactly when the audited
\* rotations make a forest of them: with walks of bounded length from the origins,
\* validateApiKeyRotationChains finds every cycle, fork, gap and orphan, however
\* many keys there are.
THEOREM OnlyForestsAreAccepted ==
  ASSUME NEW roots, NEW ks, NEW rows, IsFiniteSet(DOMAIN ks)
  PROVE  ChainsAccepted(roots, ks, rows) <=> IsForest(roots, ks, rows)
<1>1. ASSUME ChainsAccepted(roots, ks, rows) PROVE IsForest(roots, ks, rows)
  <2>1. /\ \A o, p \in roots : o.key = p.key => o = p
        /\ \A a \in rows : CanonicalLink(a, ks)
        /\ \A a, b \in rows : a.old = b.old \/ a.new = b.new => a = b
        /\ ValidDegrees(roots, ks, rows)
    BY <1>1 DEF ChainsAccepted
  <2>2. Replaced(rows) = {k \in DOMAIN ks : ks[k].revoked # NotRevoked}
    <3>1. Replaced(rows) \subseteq DOMAIN ks
      BY <2>1 DEF Replaced, CanonicalLink
    <3>2. \A k \in DOMAIN ks : (ks[k].revoked = NotRevoked) # (k \in Replaced(rows))
      BY <2>1 DEF ValidDegrees
    <3> QED  BY <3>1, <3>2
  <2>3. Replacements(rows) = DOMAIN ks \ {o.key : o \in roots}
    <3>1. Replacements(rows) \subseteq DOMAIN ks
      BY <2>1 DEF Replacements, CanonicalLink
    <3>2. /\ \A o \in roots : o.key \notin Replacements(rows)
          /\ \A k \in DOMAIN ks : k \in {o.key : o \in roots} \cup Replacements(rows)
      BY <2>1 DEF ValidDegrees
    <3> QED  BY <3>1, <3>2
  <2>4. ASSUME NEW S \in (SUBSET DOMAIN ks) \ {{}}
        PROVE  \E k \in S : \A a \in rows : a.new = k => a.old \notin S
    <3>1. S \subseteq DOMAIN ks /\ S # {}
      OBVIOUS
    <3> QED  BY <1>1, <3>1, AcceptedIsGrounded, Zenon
  <2>5. \A o \in roots : o.key \in DOMAIN ks /\ ks[o.key].tenant = o.tenant
    BY <2>1 DEF ValidDegrees
  <2> QED  BY <2>1, <2>2, <2>3, <2>4, <2>5 DEF IsForest
<1> QED  BY <1>1, ForestIsAccepted

\* Some key of a set of keys is as old as any.
LEMMA OldestKey ==
  ASSUME NEW ks, NEW S, S # {}, \A k \in S : ks[k].created \in Nat
  PROVE  \E c \in S : \A d \in S : ks[c].created <= ks[d].created
<1> DEFINE T == {ks[k].created : k \in S}
<1>1. T \subseteq Nat /\ T # {} /\ \A k \in S : ks[k].created \in T
  OBVIOUS
<1>2. PICK n \in T : \A m \in T : n <= m
  <2> HIDE DEF T
  <2> QED  BY <1>1, LeastNatural
<1> QED  BY <1>1, <1>2

\* What rotations make of keys: links from a key to a younger one of its tenant, one to one.
Linked(roots, ks, rows) ==
  /\ IsFiniteSet(DOMAIN ks) /\ \A k \in DOMAIN ks : ks[k].created \in Nat
  /\ \A o, p \in roots : o.key = p.key => o = p
  /\ \A a \in rows : CanonicalLink(a, ks) /\ ks[a.old].created < ks[a.new].created
  /\ \A a, b \in rows : a.old = b.old \/ a.new = b.new => a = b
  /\ ValidDegrees(roots, ks, rows)

\* A linked history is a forest: an oldest key of a set replaced none of the set.
LEMMA LinkedIsAccepted ==
  ASSUME NEW roots, NEW ks, NEW rows, Linked(roots, ks, rows)
  PROVE  ChainsAccepted(roots, ks, rows)
<1>1. /\ \A o, p \in roots : o.key = p.key => o = p
      /\ \A a \in rows : CanonicalLink(a, ks)
      /\ \A a, b \in rows : a.old = b.old \/ a.new = b.new => a = b
      /\ ValidDegrees(roots, ks, rows)
  BY DEF Linked
<1>2. /\ Replaced(rows) = {k \in DOMAIN ks : ks[k].revoked # NotRevoked}
      /\ Replacements(rows) = DOMAIN ks \ {o.key : o \in roots}
      /\ \A o \in roots : o.key \in DOMAIN ks /\ ks[o.key].tenant = o.tenant
  <2>1. Replaced(rows) \subseteq DOMAIN ks /\ Replacements(rows) \subseteq DOMAIN ks
    BY <1>1 DEF Replaced, Replacements, CanonicalLink
  <2>2. /\ \A k \in DOMAIN ks : (ks[k].revoked = NotRevoked) # (k \in Replaced(rows))
        /\ \A o \in roots : o.key \notin Replacements(rows)
        /\ \A k \in DOMAIN ks : k \in {o.key : o \in roots} \cup Replacements(rows)
        /\ \A o \in roots : o.key \in DOMAIN ks /\ ks[o.key].tenant = o.tenant
    BY <1>1 DEF ValidDegrees
  <2> QED  BY <2>1, <2>2
<1>3. ASSUME NEW S \in (SUBSET DOMAIN ks) \ {{}}
      PROVE  \E k \in S : \A a \in rows : a.new = k => a.old \notin S
  <2>1. /\ \A k \in S : ks[k].created \in Nat
        /\ \A a \in rows : ks[a.old].created < ks[a.new].created
    BY DEF Linked
  <2>2. PICK k \in S : \A d \in S : ks[k].created <= ks[d].created
    BY <2>1, OldestKey
  <2>3. \A a \in rows : ks[a.old].created \in Nat /\ ks[a.new].created \in Nat
    BY DEF Linked, CanonicalLink
  <2> QED  BY <2>1, <2>2, <2>3
<1>4. IsForest(roots, ks, rows)
  BY <1>1, <1>2, <1>3 DEF IsForest
<1> QED  BY <1>4, ForestIsAccepted DEF Linked

\* The current key of an origin is in force for its tenant.
LEMMA CurrentIsInForce ==
  ASSUME NEW roots, NEW ks, NEW rows, IsFiniteSet(DOMAIN ks), ChainsAccepted(roots, ks, rows),
         NEW o \in roots
  PROVE  CurrentKey(o.key, ks, rows) \in InForce(ks, o.tenant)
<1> DEFINE c == CurrentKey(o.key, ks, rows)
           out == Outgoing(rows)
<1>1. ks[c].revoked = NotRevoked /\ ks[c].tenant = o.tenant
  BY DEF ChainsAccepted, SoundWalks, CurrentKey
<1>2. Cardinality(DOMAIN ks) \in 0 .. Cardinality(DOMAIN ks)
  BY FS_CardinalityType
<1>3. c \in Visited(o.key, ks, out)
  BY <1>2 DEF CurrentKey, LastOf, Visited
<1>4. UNION {Visited(p.key, ks, out) : p \in roots} = DOMAIN ks
  BY DEF ChainsAccepted, SoundWalks
<1>5. c \in DOMAIN ks
  <2> HIDE DEF c, out
  <2> QED  BY <1>3, <1>4
<1> HIDE DEF c
<1> QED  BY <1>1, <1>5 DEF InForce, c

-----------------------------------------------------------------------------
(***************************************************************************)
(* The invariant of the API keys.  The origins are the keys of the runs    *)
(* that made a first tenant and those of registrations, also when          *)
(* rotations have copied the marker note; a setup that reads a well-formed *)
(* database finds just these.                                              *)
(***************************************************************************)
Origins(ms, ks, regs) ==
  {[key |-> k, tenant |-> ks[k].tenant, source |-> "marker"] : k \in ms} \cup
  {[key |-> o.key, tenant |-> o.tenant, source |-> "registration"] : o \in regs}

RotationRecord ==
  [pc : {"none", "begun", "locked", "written"}, key : KeyIds \cup {NoKeyId},
   note : Notes \cup {Marker, InitialNote}, time : 0 .. MaxTime, new : KeyIds \cup {NoKeyId}]

Holding == {"locked", "fresh", "origins", "keys", "audits", "verify"}
Ended == {"none", "created", "existing", "ambiguous", "failed"}

SetupRecord(x) ==
  /\ x = [pc |-> x.pc, origins |-> x.origins, keys |-> x.keys, audits |-> x.audits, key |-> x.key]
  /\ x.pc \in Holding \cup Ended

KeysTypes ==
  /\ ApiKeysTypeOK
  /\ rotation \in [Rotators -> RotationRecord]
  /\ setup = [s \in Setups |-> setup[s]] /\ \A s \in Setups : SetupRecord(setup[s])
  /\ quiet \in [Setups -> BOOLEAN] /\ seen \in [Setups -> SUBSET KeyIds]
  /\ \A s \in Setups : lockHolder = s <=> setup[s].pc \in Holding

\* An identifier that was generated and is not yet visible is nobody else's.
ReservedIds ==
  /\ \A r \in Rotators : /\ rotation[r].pc = "written" => rotation[r].new \in KeyIds \ DOMAIN keys
                         /\ rotation[r].pc # "written" => rotation[r].new = NoKeyId
  /\ \A r, q \in Rotators : r # q /\ rotation[r].pc = "written" /\ rotation[q].pc = "written"
       => rotation[r].new # rotation[q].new
  /\ \A s \in Setups : setup[s].pc = "fresh" =>
       /\ setup[s].key \in KeyIds \ DOMAIN keys
       /\ \A r \in Rotators : rotation[r].new # setup[s].key

\* A rotation is younger than its key, and holds a row in force alone.
Locking == {"locked", "written"}
RotationsSound ==
  /\ \A r \in Rotators : rotation[r].pc # "none" =>
       /\ rotation[r].key \in DOMAIN keys /\ rotation[r].time <= clock
       /\ keys[rotation[r].key].created < rotation[r].time
  /\ \A r \in Rotators : rotation[r].pc \in Locking => keys[rotation[r].key].revoked = NotRevoked
  /\ \A r, q \in Rotators :
       r # q /\ rotation[r].pc \in Locking /\ rotation[q].pc \in Locking
         => rotation[r].key # rotation[q].key
  /\ \A k \in DOMAIN keys : keys[k].created <= clock

DatabaseSound ==
  /\ IsFiniteSet(owners) /\ IsFiniteSet(registered) /\ IsFiniteSet(created)
  /\ \A k \in DOMAIN keys : keys[k].tenant \in owners
  /\ \A t \in owners : \E k \in DOMAIN keys : InForce(keys, t) = {k}
  /\ \A o \in registered : /\ o.key \in DOMAIN keys /\ keys[o.key].tenant = o.tenant
                           /\ keys[o.key].note = InitialNote
  /\ created \subseteq Markers(keys) /\ \A k, l \in created : k = l
  /\ Cardinality(owners) = Cardinality(registered) + Cardinality(created)
  /\ Linked(Origins(created, keys, registered), keys, audits)

\* What a setup has read, against what is there and what was there since it began.
SnapshotSound(x, sn) ==
  /\ x.pc \in {"keys", "audits", "verify"} =>
       \A o \in x.origins : o.source = "marker" => o.tenant \in FirstTenants(keys)
  /\ x.pc \in {"audits", "verify"} =>
       /\ IsFiniteSet(DOMAIN x.keys)
       /\ \A o \in x.origins : o.source = "marker" => InForce(x.keys, o.tenant) \subseteq sn
  /\ x.pc = "existing" => x.key \in sn
SnapshotExact(x) ==
  /\ WellFormed
  /\ x.pc \in {"keys", "audits", "verify"} => x.origins = Origins(created, keys, registered)
  /\ x.pc \in {"audits", "verify"} => x.keys = keys
  /\ x.pc = "verify" => x.audits = audits

FirstInForce == UNION {InForce(keys, t) : t \in FirstTenants(keys)}

SetupsSound ==
  \A s \in Setups :
    /\ FirstInForce \subseteq seen[s]
    /\ setup[s].pc = "fresh" => created = {}
    /\ SnapshotSound(setup[s], seen[s])
    /\ quiet[s] /\ setup[s].pc \in Holding => SnapshotExact(setup[s])
    /\ setup[s].pc = "ambiguous" => ~quiet[s]

KeysInv == KeysTypes /\ ReservedIds /\ RotationsSound /\ DatabaseSound /\ SetupsSound

-----------------------------------------------------------------------------
(* What commits make of the links *)

\* A key of its own, of a new tenant, is a new origin.
LEMMA LinkedWithOrigin ==
  ASSUME NEW roots, NEW ks, NEW rows, Linked(roots, ks, rows),
         NEW i, i \notin DOMAIN ks, NEW o, o.key = i,
         NEW ls, DOMAIN ls = DOMAIN ks \cup {i}, \A l \in DOMAIN ks : ls[l] = ks[l],
         ls[i].tenant = o.tenant, ls[i].created \in Nat, ls[i].revoked = NotRevoked
  PROVE  Linked(roots \cup {o}, ls, rows)
<1> DEFINE more == roots \cup {o}
<1>1. /\ IsFiniteSet(DOMAIN ks) /\ \A k \in DOMAIN ks : ks[k].created \in Nat
      /\ \A p, q \in roots : p.key = q.key => p = q
      /\ \A a \in rows : CanonicalLink(a, ks) /\ ks[a.old].created < ks[a.new].created
      /\ \A a, b \in rows : a.old = b.old \/ a.new = b.new => a = b
      /\ ValidDegrees(roots, ks, rows)
  BY DEF Linked
<1>2. /\ \A p \in roots : p.key \in DOMAIN ks /\ ks[p.key].tenant = p.tenant
                          /\ p.key \notin Replacements(rows)
      /\ \A k \in DOMAIN ks : (ks[k].revoked = NotRevoked) # (k \in Replaced(rows))
      /\ \A k \in DOMAIN ks : k \in {p.key : p \in roots} \cup Replacements(rows)
  BY <1>1 DEF ValidDegrees
<1>3. IsFiniteSet(DOMAIN ls)
  BY <1>1, FS_AddElement
<1>4. \A a \in rows : a.old \in DOMAIN ks /\ a.new \in DOMAIN ks
  BY <1>1 DEF CanonicalLink
<1>5. \A a \in rows : CanonicalLink(a, ls) /\ ls[a.old].created < ls[a.new].created
  BY <1>1, <1>4 DEF CanonicalLink
<1>6. i \notin Replaced(rows) /\ i \notin Replacements(rows)
  BY <1>4 DEF Replaced, Replacements
<1>7. \A p, q \in more : p.key = q.key => p = q
  BY <1>1, <1>2
<1>8. ValidDegrees(more, ls, rows)
  <2>1. \A p \in more : p.key \in DOMAIN ls /\ ls[p.key].tenant = p.tenant
                        /\ p.key \notin Replacements(rows)
    BY <1>2, <1>6
  <2>2. \A k \in DOMAIN ls : (ls[k].revoked = NotRevoked) # (k \in Replaced(rows))
    BY <1>2, <1>6
  <2>3. \A k \in DOMAIN ls : k \in {p.key : p \in more} \cup Replacements(rows)
    BY <1>2
  <2> QED  BY <2>1, <2>2, <2>3 DEF ValidDegrees
<1>9. \A k \in DOMAIN ls : ls[k].created \in Nat
  BY <1>1
<1> QED  BY <1>1, <1>3, <1>5, <1>7, <1>8, <1>9 DEF Linked

\* What a rotation at that time makes of a key in force, and what its row tells.
Rotated(ks, ls, k, i, time) ==
  /\ k \in DOMAIN ks /\ ks[k].revoked = NotRevoked /\ i \notin DOMAIN ks
  /\ time \in Nat /\ ks[k].created < time /\ time # NotRevoked
  /\ DOMAIN ls = DOMAIN ks \cup {i} /\ \A l \in DOMAIN ks : l # k => ls[l] = ks[l]
  /\ ls[k].tenant = ks[k].tenant /\ ls[k].created = ks[k].created /\ ls[k].revoked = time
  /\ ls[i].tenant = ks[k].tenant /\ ls[i].created = time /\ ls[i].revoked = NotRevoked
TellsOf(row, ks, k, i, time) ==
  /\ row.old = k /\ row.new = i /\ row.tenant = ks[k].tenant
  /\ row.oldCreated = ks[k].created /\ row.newCreated = time
  /\ row.revoked = time /\ row.at = time

\* A rotation of a key in force is one link more.
LEMMA LinkedWithRotation ==
  ASSUME NEW roots, NEW ks, NEW rows, Linked(roots, ks, rows),
         NEW k, NEW i, NEW time, NEW ls, Rotated(ks, ls, k, i, time),
         NEW row, TellsOf(row, ks, k, i, time)
  PROVE  Linked(roots, ls, rows \cup {row})
<1> USE DEF Rotated, TellsOf
<1> DEFINE more == rows \cup {row}
<1>1. /\ IsFiniteSet(DOMAIN ks) /\ \A l \in DOMAIN ks : ks[l].created \in Nat
      /\ \A p, q \in roots : p.key = q.key => p = q
      /\ \A a \in rows : CanonicalLink(a, ks) /\ ks[a.old].created < ks[a.new].created
      /\ \A a, b \in rows : a.old = b.old \/ a.new = b.new => a = b
      /\ ValidDegrees(roots, ks, rows)
  BY DEF Linked
<1>2. /\ \A p \in roots : p.key \in DOMAIN ks /\ ks[p.key].tenant = p.tenant
                          /\ p.key \notin Replacements(rows)
      /\ \A l \in DOMAIN ks : (ks[l].revoked = NotRevoked) # (l \in Replaced(rows))
      /\ \A l \in DOMAIN ks : l \in {p.key : p \in roots} \cup Replacements(rows)
  BY <1>1 DEF ValidDegrees
<1>3. IsFiniteSet(DOMAIN ls)
  BY <1>1, FS_AddElement
<1>4. k \notin Replaced(rows)
  BY <1>2
<1>5. \A a \in rows : a.old \in DOMAIN ks /\ a.new \in DOMAIN ks /\ a.old # k
  BY <1>1, <1>4 DEF CanonicalLink, Replaced
<1>6. /\ \A l \in DOMAIN ks : ls[l].tenant = ks[l].tenant /\ ls[l].created = ks[l].created
      /\ \A a \in rows : ls[a.old] = ks[a.old]
  BY <1>5
<1>7. \A a \in rows : CanonicalLink(a, ls) /\ ls[a.old].created < ls[a.new].created
  BY <1>1, <1>5, <1>6 DEF CanonicalLink
<1>8. CanonicalLink(row, ls) /\ ls[row.old].created < ls[row.new].created
  BY DEF CanonicalLink
<1>9. \A a, b \in more : a.old = b.old \/ a.new = b.new => a = b
  BY <1>1, <1>5
<1>10. ValidDegrees(roots, ls, more)
  <2>1. /\ Replaced(more) = Replaced(rows) \cup {k}
        /\ Replacements(more) = Replacements(rows) \cup {i}
    BY DEF Replaced, Replacements
  <2>2. i \notin Replaced(rows) /\ i # k
    BY <1>5 DEF Replaced
  <2>3. \A p \in roots : p.key \in DOMAIN ls /\ ls[p.key].tenant = p.tenant
                         /\ p.key \notin Replacements(more)
    BY <1>2, <1>6, <2>1
  <2>4. \A l \in DOMAIN ls : (ls[l].revoked = NotRevoked) # (l \in Replaced(more))
    <3> TAKE l \in DOMAIN ls
    <3>1. CASE l = i
      BY <2>1, <2>2, <3>1
    <3>2. CASE l = k
      BY <2>1, <3>2
    <3>3. CASE l # i /\ l # k
      <4>1. l \in DOMAIN ks /\ ls[l] = ks[l] /\ (l \in Replaced(more) <=> l \in Replaced(rows))
        BY <2>1, <3>3
      <4> QED  BY <1>2, <4>1
    <3> QED  BY <3>1, <3>2, <3>3
  <2>5. \A l \in DOMAIN ls : l \in {p.key : p \in roots} \cup Replacements(more)
    BY <1>2, <2>1
  <2> QED  BY <2>3, <2>4, <2>5 DEF ValidDegrees
<1>11. \A l \in DOMAIN ls : ls[l].created \in Nat
  BY <1>1, <1>6
<1> QED  BY <1>1, <1>3, <1>7, <1>8, <1>9, <1>10, <1>11 DEF Linked

-----------------------------------------------------------------------------
(* What the invariant says *)

LEMMA KeysInvInit == ASSUME ApiKeysAssumption, ApiKeysInit PROVE KeysInv
<1>1. keys = NoKeys /\ DOMAIN keys = {}
  BY DEF ApiKeysInit, NoKeys
<1>2. ApiKeysTypeOK
  BY <1>1 DEF ApiKeysAssumption, ApiKeysInit, ApiKeysTypeOK, IdleSetup
<1>3. KeysTypes
  <2>1. IdleRotation \in RotationRecord
    BY DEF ApiKeysAssumption, IdleRotation, RotationRecord
  <2>2. rotation \in [Rotators -> RotationRecord]
    BY <2>1 DEF ApiKeysInit
  <2>3. SetupRecord(IdleSetup) /\ IdleSetup.pc \notin Holding
    BY DEF SetupRecord, IdleSetup, Holding, Ended
  <2>4. setup = [s \in Setups |-> setup[s]] /\ \A s \in Setups : setup[s] = IdleSetup
    BY DEF ApiKeysInit
  <2>5. quiet \in [Setups -> BOOLEAN] /\ seen \in [Setups -> SUBSET KeyIds]
    BY DEF ApiKeysInit
  <2>6. \A s \in Setups : lockHolder = s <=> setup[s].pc \in Holding
    BY <2>3, <2>4 DEF ApiKeysInit, ApiKeysAssumption
  <2> QED  BY <1>2, <2>2, <2>3, <2>4, <2>5, <2>6 DEF KeysTypes
<1>4. ReservedIds
  BY DEF ApiKeysInit, ReservedIds, IdleRotation, IdleSetup
<1>5. RotationsSound
  BY <1>1 DEF ApiKeysInit, RotationsSound, IdleRotation, Locking
<1>6. DatabaseSound
  <2>1. IsFiniteSet({}) /\ Cardinality({}) = 0
    BY FS_EmptySet
  <2>2. Origins({}, keys, {}) = {}
    BY DEF Origins
  <2>3. Linked({}, keys, {})
    BY <1>1, <2>1 DEF Linked, ValidDegrees
  <2>4. owners = {} /\ registered = {} /\ created = {} /\ audits = {}
    BY DEF ApiKeysInit
  <2>5. Linked(Origins(created, keys, registered), keys, audits)
    BY <2>2, <2>3, <2>4
  <2>6. Cardinality(owners) = Cardinality(registered) + Cardinality(created)
    BY <2>1, <2>4
  <2> QED  BY <1>1, <2>1, <2>4, <2>5, <2>6 DEF DatabaseSound
<1>7. SetupsSound
  <2>1. FirstInForce = {}
    BY <1>1 DEF FirstInForce, FirstTenants, Markers, InForce
  <2>2. \A s \in Setups : setup[s].pc = "none" /\ ~quiet[s]
    BY DEF ApiKeysInit, IdleSetup
  <2> QED  BY <2>1, <2>2 DEF SetupsSound, SnapshotSound, Holding
<1> QED  BY <1>3, <1>4, <1>5, <1>6, <1>7 DEF KeysInv

LEMMA KeysInvSays == ASSUME KeysInv PROVE KeysAreSound
<1>1. ApiKeysTypeOK
  BY DEF KeysInv, KeysTypes
<1>2. OneKeyInForce
  <2>1. \A t \in owners : \E k : InForce(keys, t) = {k}
    BY DEF KeysInv, DatabaseSound
  <2>2. \A k : Cardinality({k}) = 1
    BY FS_Singleton
  <2> QED  BY <2>1, <2>2 DEF OneKeyInForce
<1>3. CreatedOnce
  <2>1. \A k, l \in created : k = l
    BY DEF KeysInv, DatabaseSound
  <2>2. CASE created = {}
    BY <2>2, FS_EmptySet DEF CreatedOnce
  <2>3. CASE created # {}
    <3>1. PICK k : created = {k}
      BY <2>1, <2>3
    <3>2. Cardinality({k}) = 1
      BY FS_Singleton
    <3> QED  BY <3>1, <3>2 DEF CreatedOnce
  <2> QED  BY <2>2, <2>3
<1>4. ReportsCurrentKey
  BY DEF KeysInv, SetupsSound, SnapshotSound, ReportsCurrentKey
<1>5. AcceptsHistory
  BY DEF KeysInv, SetupsSound, AcceptsHistory
<1> QED  BY <1>1, <1>2, <1>3, <1>4, <1>5 DEF KeysAreSound

-----------------------------------------------------------------------------
(* Steps that commit nothing *)

\* What such a step leaves alone stays sound.
LEMMA DatabaseKept ==
  ASSUME DatabaseSound, UNCHANGED database, UNCHANGED created
  PROVE  DatabaseSound'
<1> QED  BY DEF DatabaseSound, database

\* A rotation's request moves on.
LEMMA RotationMoves ==
  ASSUME ApiKeysAssumption, KeysInv, NEW r \in Rotators,
         rotation' = [q \in Rotators |-> rotation'[q]],
         \A q \in Rotators : q # r => rotation'[q] = rotation[q],
         rotation'[r] \in RotationRecord,
         UNCHANGED <<database, lockHolder, setup, ghosts>>,
         clock' \in 0 .. MaxTime, clock <= clock', losses' \in 0 .. MaxLosses,
         rotation'[r].pc = "written" => rotation'[r].new \in FreshIds \/ rotation'[r] = rotation[r],
         rotation'[r].pc # "written" => rotation'[r].new = NoKeyId,
         rotation'[r].pc # "none" =>
           /\ rotation'[r].key \in DOMAIN keys /\ rotation'[r].time <= clock'
           /\ keys[rotation'[r].key].created < rotation'[r].time,
         rotation'[r].pc \in Locking =>
           /\ keys[rotation'[r].key].revoked = NotRevoked
           /\ \A q \in Rotators :
                q # r /\ rotation[q].pc \in Locking => rotation[q].key # rotation'[r].key
  PROVE  KeysInv'
<1>1. KeysTypes /\ ReservedIds /\ RotationsSound /\ DatabaseSound /\ SetupsSound
  BY DEF KeysInv
<1>2. /\ keys' = keys /\ owners' = owners /\ registered' = registered /\ audits' = audits
      /\ admins' = admins /\ lockHolder' = lockHolder /\ setup' = setup /\ quiet' = quiet
      /\ seen' = seen /\ created' = created
  BY DEF database, ghosts
<1>3. KeysTypes'
  <2>1. ApiKeysTypeOK'
    BY <1>1, <1>2 DEF KeysTypes, ApiKeysTypeOK, KeyRow
  <2>2. rotation' \in [Rotators -> RotationRecord]
    <3>1. \A q \in Rotators : rotation'[q] \in RotationRecord
      BY <1>1 DEF KeysTypes
    <3> QED  BY <3>1
  <2>3. \A s \in Setups : SetupRecord(setup'[s])
    BY <1>1, <1>2 DEF KeysTypes
  <2>4. RotationRecord' = RotationRecord
    BY DEF RotationRecord
  <2> QED  BY <1>1, <1>2, <2>1, <2>2, <2>3, <2>4 DEF KeysTypes
<1>4. ReservedIds'
  <2>1. \A q \in Rotators : rotation'[q].pc = "written" => rotation'[q].new \in KeyIds \ DOMAIN keys
    BY <1>1 DEF ReservedIds, FreshIds
  <2>2. \A p, q \in Rotators : p # q /\ rotation'[p].pc = "written" /\ rotation'[q].pc = "written"
          => rotation'[p].new # rotation'[q].new
    BY <1>1 DEF ReservedIds, FreshIds
  <2>3. \A s \in Setups : setup[s].pc = "fresh" => \A q \in Rotators : rotation'[q].new # setup[s].key
    <3> TAKE s \in Setups
    <3> HAVE setup[s].pc = "fresh"
    <3>1. setup[s].key \in KeyIds /\ \A q \in Rotators : rotation[q].new # setup[s].key
      BY <1>1 DEF ReservedIds
    <3>2. rotation'[r].new # setup[s].key
      BY <3>1 DEF FreshIds, ApiKeysAssumption
    <3> QED  BY <3>1, <3>2
  <2> QED  BY <1>1, <1>2, <2>1, <2>2, <2>3 DEF ReservedIds
<1>5. RotationsSound'
  <2>1. \A q \in Rotators : rotation'[q].pc # "none" =>
          /\ rotation'[q].key \in DOMAIN keys /\ rotation'[q].time <= clock'
          /\ keys[rotation'[q].key].created < rotation'[q].time
    <3> TAKE q \in Rotators
    <3>1. CASE q # r
      <4>1. clock \in Nat /\ clock' \in Nat /\ rotation[q].time \in Nat
        BY <1>1 DEF KeysTypes, ApiKeysTypeOK, RotationRecord, ApiKeysAssumption
      <4> QED  BY <1>1, <3>1, <4>1 DEF RotationsSound
    <3> QED  BY <3>1
  <2>2. \A q \in Rotators : rotation'[q].pc \in Locking => keys[rotation'[q].key].revoked = NotRevoked
    BY <1>1 DEF RotationsSound
  <2>3. \A p, q \in Rotators :
          p # q /\ rotation'[p].pc \in Locking /\ rotation'[q].pc \in Locking
            => rotation'[p].key # rotation'[q].key
    BY <1>1 DEF RotationsSound
  <2>4. \A k \in DOMAIN keys : keys[k].created <= clock'
    <3>1. clock \in Nat /\ clock' \in Nat /\ \A k \in DOMAIN keys : keys[k].created \in Nat
      BY <1>1 DEF KeysTypes, ApiKeysTypeOK, KeyRow, ApiKeysAssumption
    <3> QED  BY <1>1, <3>1 DEF RotationsSound
  <2> QED  BY <1>2, <2>1, <2>2, <2>3, <2>4 DEF RotationsSound, Locking
<1>6. DatabaseSound'
  BY <1>1, <1>2, DatabaseKept
<1>7. SetupsSound'
  BY <1>1, <1>2 DEF SetupsSound, FirstInForce, SnapshotSound, SnapshotExact, WellFormed
<1> QED  BY <1>3, <1>4, <1>5, <1>6, <1>7 DEF KeysInv

LEMMA RotationEnds ==
  ASSUME ApiKeysAssumption, KeysInv, NEW r \in Rotators,
         rotation' = [rotation EXCEPT ![r] = IdleRotation], losses' \in 0 .. MaxLosses,
         UNCHANGED <<database, clock, lockHolder, setup, ghosts>>
  PROVE  KeysInv'
<1>1. rotation \in [Rotators -> RotationRecord] /\ clock \in 0 .. MaxTime
  BY DEF KeysInv, KeysTypes, ApiKeysTypeOK
<1>2. /\ rotation' = [q \in Rotators |-> rotation'[q]] /\ rotation'[r] = IdleRotation
      /\ \A q \in Rotators : q # r => rotation'[q] = rotation[q]
  BY <1>1
<1>3. /\ IdleRotation \in RotationRecord /\ IdleRotation.pc = "none" /\ IdleRotation.new = NoKeyId
      /\ IdleRotation.pc \notin Locking
  BY DEF IdleRotation, RotationRecord, ApiKeysAssumption, Locking
<1>4. clock' \in 0 .. MaxTime /\ clock <= clock'
  BY <1>1 DEF ApiKeysAssumption
<1> QED  BY <1>2, <1>3, <1>4, RotationMoves

LEMMA BeginRotationKeeps ==
  ASSUME ApiKeysAssumption, KeysInv, NEW r \in Rotators, BeginRotation(r)
  PROVE  KeysInv'
<1>1. /\ rotation \in [Rotators -> RotationRecord] /\ clock \in 0 .. MaxTime
      /\ DOMAIN keys \subseteq KeyIds /\ losses \in 0 .. MaxLosses
      /\ \A k \in DOMAIN keys : keys[k].created <= clock /\ keys[k].created \in Nat
  BY DEF KeysInv, KeysTypes, ApiKeysTypeOK, RotationsSound, KeyRow
<1>2. PICK k \in DOMAIN keys, note \in Notes :
        rotation' = [rotation EXCEPT ![r] =
          [pc |-> "begun", key |-> k, note |-> note, time |-> clock + 1, new |-> NoKeyId]]
  BY DEF BeginRotation
<1> DEFINE x == [pc |-> "begun", key |-> k, note |-> note, time |-> clock + 1, new |-> NoKeyId]
<1>3. /\ clock' = clock + 1 /\ clock + 1 \in 0 .. MaxTime /\ clock < MaxTime
      /\ UNCHANGED <<database, lockHolder, setup, ghosts, losses>>
  BY <1>1 DEF BeginRotation, ApiKeysAssumption
<1>4. /\ rotation' = [q \in Rotators |-> rotation'[q]] /\ rotation'[r] = x
      /\ \A q \in Rotators : q # r => rotation'[q] = rotation[q]
  BY <1>1, <1>2
<1>5. x \in RotationRecord /\ x.pc = "begun" /\ x.new = NoKeyId /\ x.key = k /\ x.time = clock + 1
  BY <1>1, <1>3 DEF RotationRecord
<1>6. x.pc \notin Locking
  BY <1>5 DEF Locking
<1>7. clock <= clock' /\ x.time <= clock' /\ keys[k].created < x.time
  BY <1>1, <1>3, <1>5 DEF ApiKeysAssumption
<1> HIDE DEF x
<1> QED  BY <1>1, <1>3, <1>4, <1>5, <1>6, <1>7, RotationMoves

LEMMA LockSelectedKeyKeeps ==
  ASSUME ApiKeysAssumption, KeysInv, NEW r \in Rotators, LockSelectedKey(r)
  PROVE  KeysInv'
<1>1. /\ rotation \in [Rotators -> RotationRecord] /\ clock \in 0 .. MaxTime
      /\ losses \in 0 .. MaxLosses
  BY DEF KeysInv, KeysTypes, ApiKeysTypeOK
<1>2. /\ UNCHANGED <<database, clock, lockHolder, setup, ghosts, losses>>
      /\ rotation[r].pc = "begun" /\ ~RowLocked(rotation[r].key)
  BY DEF LockSelectedKey
<1>3. CASE Selectable(rotation[r].key, keys)
  <2> DEFINE x == [rotation[r] EXCEPT !.pc = "locked"]
  <2>1. rotation' = [rotation EXCEPT ![r] = x]
    BY <1>3 DEF LockSelectedKey
  <2>2. /\ rotation' = [q \in Rotators |-> rotation'[q]] /\ rotation'[r] = x
        /\ \A q \in Rotators : q # r => rotation'[q] = rotation[q]
    BY <1>1, <2>1
  <2>3. /\ x \in RotationRecord /\ x.pc = "locked" /\ x.new = rotation[r].new
        /\ x.key = rotation[r].key /\ x.time = rotation[r].time
    BY <1>1 DEF RotationRecord
  <2> HIDE DEF x
  <2>4. /\ rotation[r].new = NoKeyId
        /\ rotation[r].key \in DOMAIN keys /\ rotation[r].time <= clock
        /\ keys[rotation[r].key].created < rotation[r].time
    BY <1>2 DEF KeysInv, ReservedIds, RotationsSound
  <2>5. \A q \in Rotators : q # r /\ rotation[q].pc \in Locking => rotation[q].key # x.key
    BY <1>2, <2>3 DEF RowLocked, Locking
  <2>6. keys[x.key].revoked = NotRevoked
    BY <1>3, <2>3 DEF Selectable
  <2>7. clock' \in 0 .. MaxTime /\ clock <= clock' /\ losses' \in 0 .. MaxLosses
    BY <1>1, <1>2 DEF ApiKeysAssumption
  <2> QED  BY <1>2, <2>2, <2>3, <2>4, <2>5, <2>6, <2>7, RotationMoves
<1>4. CASE ~Selectable(rotation[r].key, keys)
  <2>1. rotation' = [rotation EXCEPT ![r] = IdleRotation]
    BY <1>4 DEF LockSelectedKey
  <2> QED  BY <1>1, <1>2, <2>1, RotationEnds
<1> QED  BY <1>3, <1>4

LEMMA WriteRotationKeeps ==
  ASSUME ApiKeysAssumption, KeysInv, NEW r \in Rotators, WriteRotation(r)
  PROVE  KeysInv'
<1>1. /\ rotation \in [Rotators -> RotationRecord] /\ clock \in 0 .. MaxTime
      /\ losses \in 0 .. MaxLosses
  BY DEF KeysInv, KeysTypes, ApiKeysTypeOK
<1>2. /\ UNCHANGED <<database, clock, lockHolder, setup, ghosts, losses>>
      /\ rotation[r].pc = "locked" /\ rotation[r].pc \in Locking
  BY DEF WriteRotation, Locking
<1>3. PICK i \in FreshIds : rotation' = [rotation EXCEPT ![r].pc = "written", ![r].new = i]
  BY DEF WriteRotation
<1>4. i \in KeyIds
  BY DEF FreshIds
<1>5. /\ rotation' = [q \in Rotators |-> rotation'[q]]
      /\ \A q \in Rotators : q # r => rotation'[q] = rotation[q]
      /\ rotation'[r] \in RotationRecord
      /\ rotation'[r].pc = "written" /\ rotation'[r].new = i
      /\ rotation'[r].key = rotation[r].key /\ rotation'[r].time = rotation[r].time
  BY <1>1, <1>3, <1>4 DEF RotationRecord
<1>6. /\ rotation[r].key \in DOMAIN keys /\ rotation[r].time <= clock
      /\ keys[rotation[r].key].created < rotation[r].time
      /\ keys[rotation[r].key].revoked = NotRevoked
      /\ \A q \in Rotators : q # r /\ rotation[q].pc \in Locking => rotation[q].key # rotation[r].key
  BY <1>2 DEF KeysInv, RotationsSound
<1>7. clock' \in 0 .. MaxTime /\ clock <= clock' /\ losses' \in 0 .. MaxLosses
  BY <1>1, <1>2 DEF ApiKeysAssumption
<1>8. rotation'[r].new \in FreshIds
  BY <1>5
<1> QED  BY <1>2, <1>5, <1>6, <1>7, <1>8, RotationMoves

LEMMA RotationFailsKeeps ==
  ASSUME ApiKeysAssumption, KeysInv, NEW r \in Rotators, RotationFails(r)
  PROVE  KeysInv'
<1>1. losses' \in 0 .. MaxLosses
  BY DEF KeysInv, KeysTypes, ApiKeysTypeOK, RotationFails, ApiKeysAssumption
<1> QED  BY <1>1, RotationEnds DEF RotationFails

-----------------------------------------------------------------------------
(* Commits *)

\* A commit makes no key disappear or change hands.
KeysStay == /\ DOMAIN keys \subseteq DOMAIN keys'
            /\ \A k \in DOMAIN keys : keys'[k].tenant = keys[k].tenant /\ keys'[k].note = keys[k].note

\* What a setup has read stays explained by what was seen since it began.
LEMMA SetupsAfterCommit ==
  ASSUME KeysInv, Committed, KeysStay, SetupsSound,
         \A s \in Setups : setup'[s] = setup[s] \/ setup'[s].pc = "created",
         created' = created \/ \A s \in Setups : setup'[s].pc # "fresh"
  PROVE  SetupsSound'
<1>1. FirstTenants(keys) \subseteq FirstTenants(keys')
  BY DEF KeysStay, FirstTenants, Markers
<1>2. \A s \in Setups : quiet'[s] = FALSE /\ seen'[s] = seen[s] \cup FirstInForce'
  BY DEF Committed, FirstInForce
<1> SUFFICES ASSUME NEW s \in Setups
             PROVE  /\ FirstInForce' \subseteq seen'[s]
                    /\ setup'[s].pc = "fresh" => created' = {}
                    /\ SnapshotSound(setup[s], seen[s])'
                    /\ quiet'[s] /\ setup'[s].pc \in Holding => SnapshotExact(setup[s])'
                    /\ setup'[s].pc = "ambiguous" => ~quiet'[s]
  BY DEF SetupsSound, Holding
<1>3. SnapshotSound(setup[s], seen[s]) /\ (setup[s].pc = "fresh" => created = {})
  BY DEF SetupsSound
<1>4. SnapshotSound(setup[s], seen[s])'
  <2>1. CASE setup'[s] = setup[s]
    BY <1>1, <1>2, <1>3, <2>1 DEF SnapshotSound
  <2>2. CASE setup'[s].pc = "created"
    BY <2>2 DEF SnapshotSound
  <2> QED  BY <2>1, <2>2
<1>5. setup'[s].pc = "fresh" => created' = {}
  BY <1>3
<1> QED  BY <1>2, <1>4, <1>5

LEMMA CommitTypes ==
  ASSUME KeysTypes, Committed, DOMAIN keys' \subseteq KeyIds
  PROVE  quiet' \in [Setups -> BOOLEAN] /\ seen' \in [Setups -> SUBSET KeyIds]
<1>1. UNION {InForce(keys', t) : t \in FirstTenants(keys')} \subseteq KeyIds
  BY DEF InForce
<1>2. \A s \in Setups : seen[s] \subseteq KeyIds
  BY DEF KeysTypes
<1> QED  BY <1>1, <1>2 DEF Committed

LEMMA OriginsSame ==
  ASSUME NEW ms, NEW ks, NEW ls, NEW regs, \A k \in ms : ls[k].tenant = ks[k].tenant
  PROVE  Origins(ms, ls, regs) = Origins(ms, ks, regs)
<1> QED  BY DEF Origins

LEMMA CommitRotationKeeps ==
  ASSUME ApiKeysAssumption, KeysInv, NEW r \in Rotators, CommitRotation(r)
  PROVE  KeysInv'
<1> DEFINE x == rotation[r]
<1>1. KeysTypes /\ ReservedIds /\ RotationsSound /\ DatabaseSound /\ SetupsSound
  BY DEF KeysInv
<1>2. /\ x \in RotationRecord /\ clock \in 0 .. MaxTime /\ DOMAIN keys \subseteq KeyIds
      /\ \A k \in DOMAIN keys : keys[k] \in KeyRow
  BY <1>1 DEF KeysTypes, ApiKeysTypeOK
<1>3. /\ UNCHANGED <<owners, registered, admins, clock, lockHolder, setup, created, losses>>
      /\ Committed /\ keys' = KeysAfter(x) /\ x.pc = "written"
      /\ rotation' = [rotation EXCEPT ![r] = IdleRotation]
      /\ audits' = audits \cup {RotationAudit(x, x.time)}
  BY DEF CommitRotation
<1>4. /\ x.key \in DOMAIN keys /\ x.time <= clock /\ keys[x.key].created < x.time
      /\ keys[x.key].revoked = NotRevoked /\ x.new \in KeyIds \ DOMAIN keys
      /\ \A q \in Rotators : q # r /\ rotation[q].pc \in Locking => rotation[q].key # x.key
  BY <1>1, <1>3 DEF RotationsSound, ReservedIds, Locking
<1>5. /\ x.time \in 0 .. MaxTime /\ x.time # NotRevoked /\ x.note \in Notes \cup {Marker, InitialNote}
      /\ x.time \in Nat
  BY <1>2 DEF RotationRecord, ApiKeysAssumption
<1> HIDE DEF x
<1>6. /\ DOMAIN keys' = DOMAIN keys \cup {x.new}
      /\ \A k \in DOMAIN keys : k # x.key => keys'[k] = keys[k]
      /\ keys'[x.new] = [tenant |-> keys[x.key].tenant, note |-> x.note,
                         created |-> x.time, revoked |-> NotRevoked]
      /\ keys'[x.key] = [keys[x.key] EXCEPT !.revoked = x.time]
  <2>1. x.new # x.key
    BY <1>4
  <2> QED  BY <1>3, <1>4, <2>1 DEF KeysAfter
<1>7. /\ keys'[x.new].tenant = keys[x.key].tenant /\ keys'[x.new].created = x.time
      /\ keys'[x.new].revoked = NotRevoked /\ keys'[x.new] \in KeyRow
  BY <1>2, <1>4, <1>5, <1>6 DEF KeyRow
<1>8. /\ keys'[x.key].tenant = keys[x.key].tenant /\ keys'[x.key].created = keys[x.key].created
      /\ keys'[x.key].note = keys[x.key].note
      /\ keys'[x.key].revoked = x.time /\ keys'[x.key] \in KeyRow
  BY <1>2, <1>4, <1>5, <1>6 DEF KeyRow
<1>9. \A k \in DOMAIN keys : /\ keys'[k].tenant = keys[k].tenant /\ keys'[k].note = keys[k].note
                             /\ keys'[k].created = keys[k].created
  BY <1>6, <1>8
<1>10. /\ rotation' = [q \in Rotators |-> rotation'[q]] /\ rotation'[r] = IdleRotation
       /\ \A q \in Rotators : q # r => rotation'[q] = rotation[q]
       /\ IdleRotation.pc = "none" /\ IdleRotation.new = NoKeyId /\ IdleRotation \in RotationRecord
  <2>1. IdleRotation.pc = "none" /\ IdleRotation.new = NoKeyId /\ IdleRotation \in RotationRecord
    BY DEF IdleRotation, RotationRecord, ApiKeysAssumption
  <2>2. rotation \in [Rotators -> RotationRecord]
    BY <1>1 DEF KeysTypes
  <2> QED  BY <1>3, <2>1, <2>2
<1>11. KeysTypes'
  <2>1. DOMAIN keys' \subseteq KeyIds /\ \A k \in DOMAIN keys' : keys'[k] \in KeyRow
    BY <1>2, <1>4, <1>6, <1>7, <1>8
  <2>2. quiet' \in [Setups -> BOOLEAN] /\ seen' \in [Setups -> SUBSET KeyIds]
    BY <1>1, <1>3, <2>1, CommitTypes
  <2>3. rotation' \in [Rotators -> RotationRecord]
    <3>1. \A q \in Rotators : rotation'[q] \in RotationRecord
      BY <1>1, <1>10 DEF KeysTypes
    <3> QED  BY <1>10, <3>1
  <2>4. ApiKeysTypeOK'
    BY <1>1, <1>3, <2>1, <2>2 DEF KeysTypes, ApiKeysTypeOK, KeyRow
  <2> QED  BY <1>1, <1>3, <2>2, <2>3, <2>4 DEF KeysTypes, RotationRecord
<1>12. ReservedIds'
  <2>1. \A q \in Rotators : rotation'[q].pc = "written" =>
          q # r /\ rotation'[q].new \in KeyIds \ DOMAIN keys'
    BY <1>1, <1>3, <1>6, <1>10 DEF ReservedIds, x
  <2>2. \A q \in Rotators : rotation'[q].pc # "written" => rotation'[q].new = NoKeyId
    BY <1>1, <1>10 DEF ReservedIds
  <2>3. \A p, q \in Rotators : p # q /\ rotation'[p].pc = "written" /\ rotation'[q].pc = "written"
          => rotation'[p].new # rotation'[q].new
    BY <1>1, <1>10, <2>1 DEF ReservedIds
  <2>4. \A s \in Setups : setup'[s].pc = "fresh" =>
          /\ setup'[s].key \in KeyIds \ DOMAIN keys'
          /\ \A q \in Rotators : rotation'[q].new # setup'[s].key
    <3> SUFFICES ASSUME NEW s \in Setups, setup[s].pc = "fresh"
                 PROVE  /\ setup[s].key \in KeyIds \ DOMAIN keys'
                        /\ \A q \in Rotators : rotation'[q].new # setup[s].key
      BY <1>3
    <3>1. /\ setup[s].key \in KeyIds \ DOMAIN keys
          /\ \A q \in Rotators : rotation[q].new # setup[s].key
      BY <1>1 DEF ReservedIds
    <3>2. x.new # setup[s].key
      BY <3>1 DEF x
    <3> QED  BY <1>6, <1>10, <3>1, <3>2 DEF ApiKeysAssumption
  <2> QED  BY <2>1, <2>2, <2>3, <2>4 DEF ReservedIds
<1>13. RotationsSound'
  <2>1. \A q \in Rotators : rotation'[q].pc # "none" =>
          /\ rotation'[q].key \in DOMAIN keys' /\ rotation'[q].time <= clock'
          /\ keys'[rotation'[q].key].created < rotation'[q].time
    BY <1>1, <1>3, <1>6, <1>9, <1>10 DEF RotationsSound
  <2>2. \A q \in Rotators : rotation'[q].pc \in Locking => keys'[rotation'[q].key].revoked = NotRevoked
    <3> SUFFICES ASSUME NEW q \in Rotators, rotation'[q].pc \in Locking
                 PROVE  keys'[rotation'[q].key].revoked = NotRevoked
      OBVIOUS
    <3>1. q # r /\ rotation'[q] = rotation[q]
      BY <1>10 DEF Locking
    <3>2. rotation[q].pc # "none"
      BY <3>1 DEF Locking
    <3>3. rotation[q].key \in DOMAIN keys /\ rotation[q].key # x.key
      BY <1>1, <1>4, <3>1, <3>2 DEF RotationsSound
    <3> QED  BY <1>1, <1>6, <3>1, <3>3 DEF RotationsSound
  <2>3. \A p, q \in Rotators :
          p # q /\ rotation'[p].pc \in Locking /\ rotation'[q].pc \in Locking
            => rotation'[p].key # rotation'[q].key
    BY <1>1, <1>10 DEF RotationsSound, Locking
  <2>4. \A k \in DOMAIN keys' : keys'[k].created <= clock'
    BY <1>1, <1>3, <1>4, <1>6, <1>7, <1>9 DEF RotationsSound
  <2> QED  BY <2>1, <2>2, <2>3, <2>4 DEF RotationsSound, Locking
<1>14. DatabaseSound'
  <2>1. created \subseteq Markers(keys) /\ \A k, l \in created : k = l
    BY <1>1 DEF DatabaseSound
  <2>2. created \subseteq Markers(keys')
    BY <1>6, <1>9, <2>1 DEF Markers
  <2>3. \A k \in DOMAIN keys' : keys'[k].tenant \in owners
    BY <1>1, <1>4, <1>6, <1>7, <1>9 DEF DatabaseSound
  <2>4. \A t \in owners : \E k \in DOMAIN keys' : InForce(keys', t) = {k}
    <3> TAKE t \in owners
    <3>1. PICK j \in DOMAIN keys : InForce(keys, t) = {j}
      BY <1>1 DEF DatabaseSound
    <3>2. CASE t = keys[x.key].tenant
      <4>1. x.key \in InForce(keys, t)
        BY <1>4, <3>2 DEF InForce
      <4>2. \A k \in DOMAIN keys : keys[k].tenant = t /\ keys[k].revoked = NotRevoked => k = x.key
        BY <3>1, <4>1 DEF InForce
      <4>3. InForce(keys', t) = {x.new}
        BY <1>4, <1>5, <1>6, <1>7, <1>8, <3>2, <4>2 DEF InForce
      <4> QED  BY <1>6, <4>3
    <3>3. CASE t # keys[x.key].tenant
      <4>1. InForce(keys', t) = InForce(keys, t)
        BY <1>4, <1>6, <1>7, <1>8, <3>3 DEF InForce
      <4> QED  BY <1>6, <3>1, <4>1
    <3> QED  BY <3>2, <3>3
  <2>5. \A o \in registered : /\ o.key \in DOMAIN keys' /\ keys'[o.key].tenant = o.tenant
                              /\ keys'[o.key].note = InitialNote
    BY <1>1, <1>6, <1>9 DEF DatabaseSound
  <2>6. Origins(created, keys', registered) = Origins(created, keys, registered)
    <3>1. \A k \in created : keys'[k].tenant = keys[k].tenant
      BY <1>9, <2>1 DEF Markers
    <3> QED  BY <3>1, OriginsSame
  <2>7. Linked(Origins(created, keys, registered), keys', audits')
    <3> DEFINE row == RotationAudit(x, x.time)
    <3>1. TellsOf(row, keys, x.key, x.new, x.time)
      BY DEF RotationAudit, TellsOf
    <3>4. Rotated(keys, keys', x.key, x.new, x.time)
      BY <1>4, <1>5, <1>6, <1>7, <1>8 DEF Rotated
    <3>2. Linked(Origins(created, keys, registered), keys, audits)
      BY <1>1 DEF DatabaseSound
    <3> HIDE DEF row
    <3>3. Linked(Origins(created, keys, registered), keys', audits \cup {row})
      BY <3>1, <3>2, <3>4, LinkedWithRotation
    <3> QED  BY <1>3, <3>3 DEF row
  <2> QED  BY <1>1, <1>3, <2>1, <2>2, <2>3, <2>4, <2>5, <2>6, <2>7 DEF DatabaseSound
<1>15. SetupsSound'
  <2>1. KeysStay
    BY <1>6, <1>9 DEF KeysStay
  <2> QED  BY <1>1, <1>3, <2>1, SetupsAfterCommit
<1> QED  BY <1>11, <1>12, <1>13, <1>14, <1>15 DEF KeysInv

LEMMA OriginsMore ==
  ASSUME NEW ms, NEW ks, NEW regs, NEW p, NEW more, more = regs \cup {p}, NEW o,
         o = [key |-> p.key, tenant |-> p.tenant, source |-> "registration"]
  PROVE  Origins(ms, ks, more) = Origins(ms, ks, regs) \cup {o}
<1> DEFINE of(q) == [key |-> q.key, tenant |-> q.tenant, source |-> "registration"]
<1>1. of(p) = o
  OBVIOUS
<1>2. {of(q) : q \in more} = {of(q) : q \in regs} \cup {of(p)}
  <2> HIDE DEF of
  <2> QED  OBVIOUS
<1> QED  BY <1>1, <1>2 DEF Origins

\* How a run of setup ends.
LEMMA EndedRecord ==
  ASSUME NEW pc \in Ended, NEW key
  PROVE  LET x == [IdleSetup EXCEPT !.pc = pc, !.key = key]
         IN x.pc = pc /\ x.key = key /\ SetupRecord(x) /\ pc \notin Holding
<1> DEFINE x == [IdleSetup EXCEPT !.pc = pc, !.key = key]
<1>1. x = [pc |-> pc, origins |-> {}, keys |-> NoKeys, audits |-> {}, key |-> key]
  <2> DEFINE y == [IdleSetup EXCEPT !.pc = pc]
  <2>1. y = [pc |-> pc, origins |-> {}, keys |-> NoKeys, audits |-> {}, key |-> NoKeyId]
    BY DEF IdleSetup
  <2>2. x = [y EXCEPT !.key = key]
    BY Zenon DEF IdleSetup
  <2> HIDE DEF y
  <2> QED  BY <2>1, <2>2
<1> HIDE DEF x
<1>2. pc \notin Holding
  BY DEF Ended, Holding
<1>3. x.pc = pc /\ x.key = key /\ x.origins = {} /\ x.keys = NoKeys /\ x.audits = {}
  BY <1>1
<1> QED  BY <1>1, <1>2, <1>3 DEF SetupRecord, x

\* A new tenant, t, and its key, i.
WithKey(ks, i, t, note) ==
  [k \in DOMAIN ks \cup {i} |->
     IF k = i THEN [tenant |-> t, note |-> note, created |-> 0, revoked |-> NotRevoked] ELSE ks[k]]

NewTenant(t, i, note) ==
  /\ t \in Tenants \ owners /\ i \in KeyIds \ DOMAIN keys
  /\ \A r \in Rotators : rotation[r].new # i
  /\ note \in {Marker, InitialNote}
  /\ owners' = owners \cup {t} /\ keys' = WithKey(keys, i, t, note)
  /\ Committed
  /\ UNCHANGED <<audits, clock, rotation, losses>>

LEMMA NewTenantIs ==
  ASSUME ApiKeysAssumption, KeysInv, NEW t, NEW i, NEW note, NewTenant(t, i, note)
  PROVE  /\ DOMAIN keys' = DOMAIN keys \cup {i} /\ \A k \in DOMAIN keys : k # i /\ keys'[k] = keys[k]
         /\ keys'[i].tenant = t /\ keys'[i].created = 0 /\ keys'[i].revoked = NotRevoked
         /\ keys'[i].note = note
         /\ owners' \subseteq Tenants
         /\ DOMAIN keys' \subseteq KeyIds /\ \A k \in DOMAIN keys' : keys'[k] \in KeyRow
         /\ quiet' \in [Setups -> BOOLEAN] /\ seen' \in [Setups -> SUBSET KeyIds]
         /\ RotationsSound' /\ KeysStay
         /\ \A k \in DOMAIN keys' : keys'[k].tenant \in owners'
         /\ \A u \in owners' : \E k \in DOMAIN keys' : InForce(keys', u) = {k}
         /\ IsFiniteSet(owners') /\ Cardinality(owners') = Cardinality(owners) + 1
<1>1. KeysTypes /\ ReservedIds /\ RotationsSound /\ DatabaseSound /\ SetupsSound
  BY DEF KeysInv
<1>2. /\ t \in Tenants \ owners /\ i \in KeyIds \ DOMAIN keys /\ note \in {Marker, InitialNote}
      /\ owners' = owners \cup {t} /\ keys' = WithKey(keys, i, t, note) /\ Committed
      /\ UNCHANGED <<audits, clock, rotation, losses>>
  BY DEF NewTenant
<1>3. /\ DOMAIN keys' = DOMAIN keys \cup {i} /\ \A k \in DOMAIN keys : k # i /\ keys'[k] = keys[k]
      /\ keys'[i] = [tenant |-> t, note |-> note, created |-> 0, revoked |-> NotRevoked]
  BY <1>2 DEF WithKey
<1>4. /\ keys'[i].tenant = t /\ keys'[i].created = 0 /\ keys'[i].revoked = NotRevoked
      /\ keys'[i].note = note
  BY <1>3
<1>5. keys'[i] \in KeyRow
  <2>1. 0 \in 0 .. MaxTime
    BY DEF ApiKeysAssumption
  <2> QED  BY <1>2, <1>3, <2>1 DEF KeyRow
<1>6. /\ DOMAIN keys' \subseteq KeyIds /\ \A k \in DOMAIN keys' : keys'[k] \in KeyRow
      /\ owners' \subseteq Tenants
  BY <1>1, <1>2, <1>3, <1>5 DEF KeysTypes, ApiKeysTypeOK
<1>7. quiet' \in [Setups -> BOOLEAN] /\ seen' \in [Setups -> SUBSET KeyIds]
  BY <1>1, <1>2, <1>6, CommitTypes
<1>8. KeysStay
  BY <1>3 DEF KeysStay
<1>9. RotationsSound'
  <2>1. \A q \in Rotators : rotation[q].pc \in Locking => rotation[q].pc # "none"
    BY DEF Locking
  <2>2. \A q \in Rotators : rotation[q].pc # "none" => rotation[q].key \in DOMAIN keys
    BY <1>1 DEF RotationsSound
  <2>3. \A q \in Rotators : rotation[q].pc # "none" =>
          /\ rotation[q].key \in DOMAIN keys' /\ rotation[q].time <= clock
          /\ keys'[rotation[q].key].created < rotation[q].time
    BY <1>1, <1>3 DEF RotationsSound
  <2>4. \A q \in Rotators : rotation[q].pc \in Locking => keys'[rotation[q].key].revoked = NotRevoked
    BY <1>1, <1>3, <2>1, <2>2 DEF RotationsSound
  <2>5. \A k \in DOMAIN keys' : keys'[k].created <= clock
    <3>1. clock \in Nat
      BY <1>1 DEF KeysTypes, ApiKeysTypeOK, ApiKeysAssumption
    <3> QED  BY <1>1, <1>3, <1>4, <3>1 DEF RotationsSound
  <2> QED  BY <1>1, <1>2, <2>3, <2>4, <2>5 DEF RotationsSound, Locking
<1>10. \A k \in DOMAIN keys' : keys'[k].tenant \in owners'
  BY <1>1, <1>2, <1>3, <1>4 DEF DatabaseSound
<1>11. \A u \in owners' : \E k \in DOMAIN keys' : InForce(keys', u) = {k}
  <2> TAKE u \in owners'
  <2>1. \A k \in DOMAIN keys : keys[k].tenant # t
    BY <1>1, <1>2 DEF DatabaseSound
  <2>2. CASE u = t
    <3>1. InForce(keys', u) = {i}
      BY <1>3, <1>4, <2>1, <2>2 DEF InForce
    <3> QED  BY <1>3, <3>1
  <2>3. CASE u # t
    <3>1. PICK k \in DOMAIN keys : InForce(keys, u) = {k}
      BY <1>1, <1>2, <2>3 DEF DatabaseSound
    <3>2. InForce(keys', u) = InForce(keys, u)
      BY <1>3, <1>4, <2>3 DEF InForce
    <3> QED  BY <1>3, <3>1, <3>2
  <2> QED  BY <2>2, <2>3
<1>12. IsFiniteSet(owners') /\ Cardinality(owners') = Cardinality(owners) + 1
  <2>1. IsFiniteSet(owners)
    BY <1>1 DEF DatabaseSound
  <2> QED  BY <1>2, <2>1, FS_AddElement
<1> QED  BY <1>3, <1>4, <1>6, <1>7, <1>8, <1>9, <1>10, <1>11, <1>12

LEMMA RegisterKeeps == ASSUME ApiKeysAssumption, KeysInv, Register PROVE KeysInv'
<1>1. KeysTypes /\ ReservedIds /\ RotationsSound /\ DatabaseSound /\ SetupsSound
  BY DEF KeysInv
<1>2. PICK t \in Tenants \ owners, i \in FreshIds :
        /\ owners' = owners \cup {t} /\ keys' = WithKey(keys, i, t, InitialNote)
        /\ registered' = registered \cup {[key |-> i, tenant |-> t]}
  BY DEF Register, WithKey
<1>3. /\ Committed
      /\ UNCHANGED <<audits, admins, clock, rotation, lockHolder, setup, created, losses>>
  BY DEF Register
<1>4. NewTenant(t, i, InitialNote)
  BY <1>2, <1>3 DEF NewTenant, FreshIds
<1>5. /\ DOMAIN keys' = DOMAIN keys \cup {i} /\ \A k \in DOMAIN keys : k # i /\ keys'[k] = keys[k]
      /\ keys'[i].tenant = t /\ keys'[i].created = 0 /\ keys'[i].revoked = NotRevoked
      /\ keys'[i].note = InitialNote
      /\ owners' \subseteq Tenants
      /\ DOMAIN keys' \subseteq KeyIds /\ \A k \in DOMAIN keys' : keys'[k] \in KeyRow
      /\ quiet' \in [Setups -> BOOLEAN] /\ seen' \in [Setups -> SUBSET KeyIds]
      /\ RotationsSound' /\ KeysStay
      /\ \A k \in DOMAIN keys' : keys'[k].tenant \in owners'
      /\ \A u \in owners' : \E k \in DOMAIN keys' : InForce(keys', u) = {k}
      /\ IsFiniteSet(owners') /\ Cardinality(owners') = Cardinality(owners) + 1
  BY <1>4, NewTenantIs
<1>6. i \in KeyIds /\ i \notin DOMAIN keys
  BY DEF FreshIds
<1>7. KeysTypes'
  <2>1. registered' \subseteq [key : KeyIds, tenant : Tenants]
    BY <1>1, <1>2, <1>6 DEF KeysTypes, ApiKeysTypeOK
  <2>2. ApiKeysTypeOK'
    BY <1>1, <1>3, <1>5, <2>1 DEF KeysTypes, ApiKeysTypeOK, KeyRow
  <2> QED  BY <1>1, <1>3, <1>5, <2>2 DEF KeysTypes, RotationRecord
<1>8. ReservedIds'
  BY <1>1, <1>3, <1>5 DEF ReservedIds, FreshIds
<1>9. DatabaseSound'
  <2>1. /\ IsFiniteSet(registered) /\ IsFiniteSet(created)
        /\ \A o \in registered : /\ o.key \in DOMAIN keys /\ keys[o.key].tenant = o.tenant
                                 /\ keys[o.key].note = InitialNote
        /\ created \subseteq Markers(keys) /\ \A k, l \in created : k = l
        /\ Cardinality(owners) = Cardinality(registered) + Cardinality(created)
        /\ Linked(Origins(created, keys, registered), keys, audits)
    BY <1>1 DEF DatabaseSound
  <2>2. [key |-> i, tenant |-> t] \notin registered
    BY <1>6, <2>1
  <2>3. IsFiniteSet(registered') /\ Cardinality(registered') = Cardinality(registered) + 1
    BY <1>2, <2>1, <2>2, FS_AddElement
  <2>4. Cardinality(owners') = Cardinality(registered') + Cardinality(created)
    BY <1>5, <2>1, <2>3, FS_CardinalityType
  <2>5. \A o \in registered' : /\ o.key \in DOMAIN keys' /\ keys'[o.key].tenant = o.tenant
                               /\ keys'[o.key].note = InitialNote
    BY <1>2, <1>5, <2>1
  <2>6. created \subseteq Markers(keys')
    BY <1>5, <2>1 DEF Markers
  <2>7. Linked(Origins(created, keys', registered'), keys', audits)
    <3> DEFINE o == [key |-> i, tenant |-> t, source |-> "registration"]
    <3>1. Origins(created, keys', registered) = Origins(created, keys, registered)
      <4>1. \A k \in created : keys'[k].tenant = keys[k].tenant
        BY <1>5, <2>1 DEF Markers
      <4> QED  BY <4>1, OriginsSame
    <3>2. Origins(created, keys', registered') = Origins(created, keys', registered) \cup {o}
      <4> DEFINE p == [key |-> i, tenant |-> t]
      <4>1. registered' = registered \cup {p}
        BY <1>2
      <4>2. o = [key |-> p.key, tenant |-> p.tenant, source |-> "registration"]
        OBVIOUS
      <4> HIDE DEF o, p
      <4> QED  BY <4>1, <4>2, OriginsMore
    <3>3. o.key = i /\ o.tenant = t
      OBVIOUS
    <3> HIDE DEF o
    <3>4. Linked(Origins(created, keys, registered) \cup {o}, keys', audits)
      BY <1>5, <1>6, <2>1, <3>3, LinkedWithOrigin
    <3> QED  BY <3>1, <3>2, <3>4
  <2> QED  BY <1>3, <1>5, <2>1, <2>3, <2>4, <2>5, <2>6, <2>7 DEF DatabaseSound
<1>10. SetupsSound'
  BY <1>1, <1>3, <1>5, SetupsAfterCommit
<1> QED  BY <1>5, <1>7, <1>8, <1>9, <1>10 DEF KeysInv

LEMMA ChangeAdministratorsKeeps ==
  ASSUME ApiKeysAssumption, KeysInv, ChangeAdministrators PROVE KeysInv'
<1>1. KeysTypes /\ ReservedIds /\ RotationsSound /\ DatabaseSound /\ SetupsSound
  BY DEF KeysInv
<1>2. /\ Committed /\ admins' \subseteq Administrators
      /\ UNCHANGED <<owners, keys, registered, audits, clock, rotation, lockHolder, setup, created,
                     losses>>
  BY DEF ChangeAdministrators
<1>3. KeysTypes'
  <2>1. DOMAIN keys' \subseteq KeyIds
    BY <1>1, <1>2 DEF KeysTypes, ApiKeysTypeOK
  <2>2. quiet' \in [Setups -> BOOLEAN] /\ seen' \in [Setups -> SUBSET KeyIds]
    BY <1>1, <1>2, <2>1, CommitTypes
  <2>3. ApiKeysTypeOK'
    BY <1>1, <1>2, <2>2 DEF KeysTypes, ApiKeysTypeOK, KeyRow
  <2> QED  BY <1>1, <1>2, <2>2, <2>3 DEF KeysTypes, RotationRecord
<1>4. ReservedIds' /\ RotationsSound' /\ DatabaseSound'
  BY <1>1, <1>2 DEF ReservedIds, RotationsSound, DatabaseSound
<1>5. SetupsSound'
  BY <1>1, <1>2, SetupsAfterCommit DEF KeysStay
<1> QED  BY <1>3, <1>4, <1>5 DEF KeysInv

LEMMA CreateStateKeeps ==
  ASSUME ApiKeysAssumption, KeysInv, NEW s \in Setups, CreateState(s) PROVE KeysInv'
<1> DEFINE i == setup[s].key
<1>1. KeysTypes /\ ReservedIds /\ RotationsSound /\ DatabaseSound /\ SetupsSound
  BY DEF KeysInv
<1>2. PICK t \in Tenants \ owners :
        /\ owners' = owners \cup {t} /\ keys' = WithKey(keys, i, t, Marker)
        /\ admins' = {Configured}
  BY DEF CreateState, WithKey
<1>3. /\ Committed /\ EndSetup(s, "created", i) /\ created' = created \cup {i}
      /\ UNCHANGED <<registered, audits, clock, rotation, losses>> /\ setup[s].pc = "fresh"
  BY DEF CreateState
<1>4. /\ i \in KeyIds \ DOMAIN keys /\ \A r \in Rotators : rotation[r].new # i
      /\ created = {}
  BY <1>1, <1>3 DEF ReservedIds, SetupsSound
<1> DEFINE x == [IdleSetup EXCEPT !.pc = "created", !.key = i]
<1>5. x.pc = "created" /\ x.key = i /\ SetupRecord(x) /\ "created" \notin Holding
  <2>1. "created" \in Ended
    BY DEF Ended
  <2> QED  BY <2>1, EndedRecord
<1>6. setup' = [setup EXCEPT ![s] = x] /\ lockHolder' = NoSetup
  BY <1>3 DEF EndSetup
<1> HIDE DEF i, x
<1>7. /\ setup' = [p \in Setups |-> setup'[p]] /\ setup'[s] = x
      /\ \A p \in Setups : p # s => setup'[p] = setup[p]
  BY <1>1, <1>6 DEF KeysTypes
<1>8. NewTenant(t, i, Marker)
  BY <1>2, <1>3, <1>4 DEF NewTenant
<1>9. /\ DOMAIN keys' = DOMAIN keys \cup {i} /\ \A k \in DOMAIN keys : k # i /\ keys'[k] = keys[k]
      /\ keys'[i].tenant = t /\ keys'[i].created = 0 /\ keys'[i].revoked = NotRevoked
      /\ keys'[i].note = Marker
      /\ owners' \subseteq Tenants
      /\ DOMAIN keys' \subseteq KeyIds /\ \A k \in DOMAIN keys' : keys'[k] \in KeyRow
      /\ quiet' \in [Setups -> BOOLEAN] /\ seen' \in [Setups -> SUBSET KeyIds]
      /\ RotationsSound' /\ KeysStay
      /\ \A k \in DOMAIN keys' : keys'[k].tenant \in owners'
      /\ \A u \in owners' : \E k \in DOMAIN keys' : InForce(keys', u) = {k}
      /\ IsFiniteSet(owners') /\ Cardinality(owners') = Cardinality(owners) + 1
  BY <1>8, NewTenantIs
<1>10. \A p \in Setups : lockHolder = p <=> setup[p].pc \in Holding
  BY <1>1 DEF KeysTypes
<1>11. lockHolder = s /\ \A p \in Setups : setup'[p].pc \notin Holding
  BY <1>3, <1>5, <1>7, <1>10 DEF Holding
<1>12. KeysTypes'
  <2>1. \A p \in Setups : SetupRecord(setup'[p]) /\ setup'[p].key \in KeyIds \cup {NoKeyId}
    BY <1>1, <1>4, <1>5, <1>7 DEF KeysTypes, ApiKeysTypeOK
  <2>2. \A p \in Setups : lockHolder' = p <=> setup'[p].pc \in Holding
    BY <1>6, <1>11 DEF ApiKeysAssumption
  <2>3. ApiKeysTypeOK'
    BY <1>1, <1>2, <1>3, <1>6, <1>9, <2>1 DEF KeysTypes, ApiKeysTypeOK, KeyRow, ApiKeysAssumption
  <2> QED  BY <1>1, <1>3, <1>7, <1>9, <2>1, <2>2, <2>3 DEF KeysTypes, RotationRecord
<1>13. \A p \in Setups : setup'[p].pc # "fresh"
  BY <1>11 DEF Holding
<1>14. ReservedIds'
  BY <1>1, <1>3, <1>4, <1>9, <1>13 DEF ReservedIds
<1>15. DatabaseSound'
  <2>1. /\ IsFiniteSet(registered) /\ IsFiniteSet(created)
        /\ \A o \in registered : /\ o.key \in DOMAIN keys /\ keys[o.key].tenant = o.tenant
                                 /\ keys[o.key].note = InitialNote
        /\ Cardinality(owners) = Cardinality(registered) + Cardinality(created)
        /\ Linked(Origins(created, keys, registered), keys, audits)
    BY <1>1 DEF DatabaseSound
  <2>2. created' = {i} /\ IsFiniteSet({i}) /\ Cardinality({i}) = 1 /\ Cardinality({}) = 0
    BY <1>3, <1>4, FS_Singleton, FS_EmptySet
  <2>3. Cardinality(owners') = Cardinality(registered) + Cardinality(created')
    BY <1>4, <1>9, <2>1, <2>2, FS_CardinalityType
  <2>4. \A o \in registered : /\ o.key \in DOMAIN keys' /\ keys'[o.key].tenant = o.tenant
                              /\ keys'[o.key].note = InitialNote
    BY <1>9, <2>1
  <2>5. created' \subseteq Markers(keys')
    BY <1>9, <2>2 DEF Markers
  <2>6. Linked(Origins(created', keys', registered), keys', audits)
    <3> DEFINE o == [key |-> i, tenant |-> t, source |-> "marker"]
    <3>1. Origins(created', keys', registered) = Origins(created, keys, registered) \cup {o}
      BY <1>4, <1>9, <2>2 DEF Origins
    <3>2. o.key = i /\ o.tenant = t
      OBVIOUS
    <3> HIDE DEF o
    <3>3. Linked(Origins(created, keys, registered) \cup {o}, keys', audits)
      BY <1>4, <1>9, <2>1, <3>2, LinkedWithOrigin
    <3> QED  BY <3>1, <3>3
  <2> QED  BY <1>3, <1>9, <2>1, <2>2, <2>3, <2>4, <2>5, <2>6 DEF DatabaseSound
<1>16. SetupsSound'
  <2>1. \A p \in Setups : setup'[p] = setup[p] \/ setup'[p].pc = "created"
    BY <1>5, <1>7
  <2> QED  BY <1>1, <1>3, <1>9, <1>13, <2>1, SetupsAfterCommit
<1> QED  BY <1>9, <1>12, <1>14, <1>15, <1>16 DEF KeysInv

-----------------------------------------------------------------------------
(* Steps of setup *)

LEMMA SetupMoves ==
  ASSUME ApiKeysAssumption, KeysInv, NEW s \in Setups,
         setup' = [p \in Setups |-> setup'[p]],
         \A p \in Setups : p # s => setup'[p] = setup[p] /\ quiet'[p] = quiet[p] /\ seen'[p] = seen[p],
         UNCHANGED <<database, clock, rotation, created>>, losses' \in 0 .. MaxLosses,
         SetupRecord(setup'[s]), setup'[s].key \in KeyIds \cup {NoKeyId},
         setup[s].pc \in Holding \/ lockHolder = NoSetup, lockHolder' \in {s, NoSetup},
         lockHolder' = s <=> setup'[s].pc \in Holding,
         quiet' \in [Setups -> BOOLEAN], seen' \in [Setups -> SUBSET KeyIds],
         FirstInForce \subseteq seen'[s],
         setup'[s].pc = "fresh" => created = {} /\ setup'[s].key \in FreshIds,
         SnapshotSound(setup'[s], seen'[s]),
         quiet'[s] /\ setup'[s].pc \in Holding => SnapshotExact(setup'[s]),
         setup'[s].pc = "ambiguous" => ~quiet'[s]
  PROVE  KeysInv'
<1>1. KeysTypes /\ ReservedIds /\ RotationsSound /\ DatabaseSound /\ SetupsSound
  BY DEF KeysInv
<1>2. /\ keys' = keys /\ owners' = owners /\ registered' = registered /\ audits' = audits
      /\ admins' = admins /\ clock' = clock /\ rotation' = rotation /\ created' = created
  BY DEF database
<1>3. \A p \in Setups : p # s => setup[p].pc \notin Holding /\ lockHolder # p
  BY <1>1 DEF KeysTypes, ApiKeysAssumption
<1>4. KeysTypes'
  <2>1. \A p \in Setups : SetupRecord(setup'[p]) /\ setup'[p].key \in KeyIds \cup {NoKeyId}
    BY <1>1 DEF KeysTypes, ApiKeysTypeOK
  <2>2. \A p \in Setups : lockHolder' = p <=> setup'[p].pc \in Holding
    BY <1>3 DEF ApiKeysAssumption
  <2>3. ApiKeysTypeOK'
    BY <1>1, <1>2, <2>1 DEF KeysTypes, ApiKeysTypeOK, KeyRow
  <2> QED  BY <1>1, <1>2, <2>1, <2>2, <2>3 DEF KeysTypes, RotationRecord
<1>5. ReservedIds'
  <2>1. \A p \in Setups : setup'[p].pc = "fresh" =>
          /\ setup'[p].key \in KeyIds \ DOMAIN keys
          /\ \A r \in Rotators : rotation[r].new # setup'[p].key
    BY <1>1 DEF ReservedIds, FreshIds
  <2> QED  BY <1>1, <1>2, <2>1 DEF ReservedIds
<1>6. RotationsSound' /\ DatabaseSound'
  BY <1>1, <1>2 DEF RotationsSound, DatabaseSound
<1>7. SetupsSound'
  <2> SUFFICES ASSUME NEW p \in Setups
               PROVE  /\ FirstInForce \subseteq seen'[p]
                      /\ setup'[p].pc = "fresh" => created = {}
                      /\ SnapshotSound(setup'[p], seen'[p])
                      /\ quiet'[p] /\ setup'[p].pc \in Holding => SnapshotExact(setup'[p])
                      /\ setup'[p].pc = "ambiguous" => ~quiet'[p]
    BY <1>2 DEF SetupsSound, FirstInForce, SnapshotSound, SnapshotExact, WellFormed
  <2>1. CASE p = s
    BY <2>1
  <2>2. CASE p # s
    BY <1>1, <2>2 DEF SetupsSound
  <2> QED  BY <2>1, <2>2
<1> QED  BY <1>4, <1>5, <1>6, <1>7 DEF KeysInv

\* A run that only changes what it holds leaves the ghosts alone.
LEMMA GhostsKept ==
  ASSUME KeysInv, NEW s \in Setups, UNCHANGED ghosts
  PROVE  /\ \A p \in Setups : quiet'[p] = quiet[p] /\ seen'[p] = seen[p]
         /\ quiet' \in [Setups -> BOOLEAN] /\ seen' \in [Setups -> SUBSET KeyIds]
         /\ FirstInForce \subseteq seen'[s] /\ created' = created
<1> QED  BY DEF ghosts, KeysInv, KeysTypes, SetupsSound

LEMMA FirstInForceTyped == ASSUME KeysInv PROVE FirstInForce \subseteq KeyIds
<1> QED  BY DEF KeysInv, KeysTypes, ApiKeysTypeOK, FirstInForce, InForce

\* A run that ends reports nothing, or a key that was seen, or a disturbance.
LEMMA EndSetupKeeps ==
  ASSUME ApiKeysAssumption, KeysInv, NEW s \in Setups, NEW pc \in Ended, NEW key,
         EndSetup(s, pc, key), setup[s].pc \in Holding, key \in KeyIds \cup {NoKeyId},
         UNCHANGED <<database, clock, rotation, ghosts>>, losses' \in 0 .. MaxLosses,
         pc = "existing" => key \in seen[s], pc = "ambiguous" => ~quiet[s]
  PROVE  KeysInv'
<1> DEFINE x == [IdleSetup EXCEPT !.pc = pc, !.key = key]
<1>1. x.pc = pc /\ x.key = key /\ SetupRecord(x) /\ pc \notin Holding
  BY EndedRecord
<1>2. setup' = [setup EXCEPT ![s] = x] /\ lockHolder' = NoSetup
  BY DEF EndSetup
<1> HIDE DEF x
<1>3. /\ setup' = [p \in Setups |-> setup'[p]] /\ setup'[s] = x
      /\ \A p \in Setups : p # s => setup'[p] = setup[p]
  BY <1>2 DEF KeysInv, KeysTypes
<1>4. /\ \A p \in Setups : quiet'[p] = quiet[p] /\ seen'[p] = seen[p]
      /\ quiet' \in [Setups -> BOOLEAN] /\ seen' \in [Setups -> SUBSET KeyIds]
      /\ FirstInForce \subseteq seen'[s] /\ created' = created
  BY GhostsKept
<1>5. x.pc \notin {"locked", "fresh", "origins", "keys", "audits", "verify"}
  BY <1>1 DEF Holding
<1>6. SnapshotSound(x, seen'[s])
  BY <1>1, <1>4, <1>5 DEF SnapshotSound
<1>7. lockHolder' = s <=> x.pc \in Holding
  BY <1>1, <1>2 DEF ApiKeysAssumption
<1>8. UNCHANGED <<database, clock, rotation, created>>
  BY <1>4
<1>9. x.pc # "fresh"
  BY <1>5
<1>10. lockHolder' \in {s, NoSetup}
  BY <1>2
<1>11. x.pc = "ambiguous" => ~quiet'[s]
  BY <1>1, <1>4
<1> QED  BY <1>1, <1>3, <1>4, <1>6, <1>7, <1>8, <1>9, <1>10, <1>11, SetupMoves

LEMMA LockInitializationKeeps ==
  ASSUME ApiKeysAssumption, KeysInv, NEW s \in Setups, LockInitialization(s) PROVE KeysInv'
<1> DEFINE x == [IdleSetup EXCEPT !.pc = "locked"]
<1>1. /\ x.pc = "locked" /\ x.key = NoKeyId /\ SetupRecord(x) /\ x.pc \in Holding
  <2>1. x = [pc |-> "locked", origins |-> {}, keys |-> NoKeys, audits |-> {}, key |-> NoKeyId]
    BY DEF IdleSetup
  <2> HIDE DEF x
  <2> QED  BY <2>1 DEF SetupRecord, Holding
<1>2. /\ setup' = [setup EXCEPT ![s] = x] /\ lockHolder = NoSetup /\ lockHolder' = s
      /\ quiet' = [quiet EXCEPT ![s] = WellFormed] /\ seen' = [seen EXCEPT ![s] = FirstInForce]
      /\ UNCHANGED <<database, clock, rotation, created, losses>>
  BY DEF LockInitialization, FirstInForce
<1> HIDE DEF x
<1>3. KeysTypes
  BY DEF KeysInv
<1>4. /\ setup' = [p \in Setups |-> setup'[p]] /\ setup'[s] = x
      /\ \A p \in Setups : p # s => setup'[p] = setup[p]
  BY <1>2, <1>3 DEF KeysTypes
<1>5. WellFormed \in BOOLEAN
  BY Zenon DEF WellFormed
<1>6. /\ quiet' \in [Setups -> BOOLEAN] /\ quiet'[s] = WellFormed
      /\ \A p \in Setups : p # s => quiet'[p] = quiet[p]
  <2> HIDE DEF WellFormed
  <2> QED  BY <1>2, <1>3, <1>5 DEF KeysTypes
<1>7. /\ seen' \in [Setups -> SUBSET KeyIds] /\ seen'[s] = FirstInForce
      /\ \A p \in Setups : p # s => seen'[p] = seen[p]
  <2>1. FirstInForce \subseteq KeyIds
    BY FirstInForceTyped
  <2> QED  BY <1>2, <1>3, <2>1 DEF KeysTypes
<1>8. SnapshotSound(x, seen'[s])
  BY <1>1 DEF SnapshotSound
<1>9. quiet'[s] => SnapshotExact(x)
  BY <1>1, <1>6 DEF SnapshotExact
<1>10. losses' \in 0 .. MaxLosses
  BY <1>2, <1>3 DEF KeysTypes, ApiKeysTypeOK
<1>11. lockHolder' \in {s, NoSetup} /\ (lockHolder' = s <=> x.pc \in Holding)
  BY <1>1, <1>2
<1> QED  BY <1>1, <1>2, <1>4, <1>6, <1>7, <1>8, <1>9, <1>10, <1>11, SetupMoves

\* A run goes on reading.
LEMMA HeldMoves ==
  ASSUME ApiKeysAssumption, KeysInv, NEW s \in Setups, setup[s].pc \in Holding,
         setup' = [p \in Setups |-> setup'[p]], \A p \in Setups : p # s => setup'[p] = setup[p],
         UNCHANGED <<database, clock, rotation, lockHolder, ghosts, losses>>,
         SetupRecord(setup'[s]), setup'[s].key \in KeyIds \cup {NoKeyId}, setup'[s].pc \in Holding,
         setup'[s].pc = "fresh" => created = {} /\ setup'[s].key \in FreshIds,
         SnapshotSound(setup'[s], seen[s]), quiet[s] => SnapshotExact(setup'[s])
  PROVE  KeysInv'
<1>1. /\ \A p \in Setups : quiet'[p] = quiet[p] /\ seen'[p] = seen[p]
      /\ quiet' \in [Setups -> BOOLEAN] /\ seen' \in [Setups -> SUBSET KeyIds]
      /\ FirstInForce \subseteq seen'[s] /\ created' = created
  BY GhostsKept
<1>2. lockHolder = s /\ losses' \in 0 .. MaxLosses
  BY DEF KeysInv, KeysTypes, ApiKeysTypeOK
<1>3. lockHolder' \in {s, NoSetup} /\ (lockHolder' = s <=> setup'[s].pc \in Holding)
  BY <1>2
<1>4. setup'[s].pc # "ambiguous"
  BY DEF Holding
<1>5. SnapshotSound(setup'[s], seen'[s])
  BY <1>1
<1>6. UNCHANGED <<database, clock, rotation, created>>
  BY <1>1
<1> QED  BY <1>1, <1>2, <1>3, <1>4, <1>5, <1>6, SetupMoves

\* In a well-formed database the counts agree.
LEMMA CountsOfWellFormed == ASSUME KeysInv, WellFormed PROVE CountsAgree
<1>1. DatabaseSound
  BY DEF KeysInv
<1>2. PICK k : created = {k}
  BY <1>1 DEF DatabaseSound, WellFormed
<1>3. Markers(keys) = {k} /\ Cardinality({k}) = 1
  BY <1>2, FS_Singleton DEF WellFormed
<1>4. Cardinality(registered) \in Nat /\ Cardinality(owners) = 1 + Cardinality(registered)
  BY <1>1, <1>2, <1>3, FS_CardinalityType DEF DatabaseSound
<1>5. Cardinality(DOMAIN keys) >= Cardinality(owners)
  <2> DEFINE of == [j \in DOMAIN keys |-> keys[j].tenant]
  <2>1. \A t \in owners : \E j \in DOMAIN keys : keys[j].tenant = t
    <3> TAKE t \in owners
    <3>1. PICK j \in DOMAIN keys : InForce(keys, t) = {j}
      BY <1>1 DEF DatabaseSound
    <3> QED  BY <3>1 DEF InForce
  <2>2. of \in Surjection(DOMAIN keys, owners)
    BY <1>1, <2>1 DEF DatabaseSound, Surjection
  <2>3. IsFiniteSet(DOMAIN keys)
    BY <1>1 DEF DatabaseSound, Linked
  <2> HIDE DEF of
  <2>4. Cardinality(owners) <= Cardinality(DOMAIN keys)
    BY <2>2, <2>3, FS_Surjection
  <2>5. Cardinality(DOMAIN keys) \in Nat
    BY <2>3, FS_CardinalityType
  <2> QED  BY <1>4, <2>4, <2>5
<1> QED  BY <1>3, <1>4, <1>5 DEF CountsAgree

LEMMA ReadCountsKeeps ==
  ASSUME ApiKeysAssumption, KeysInv, NEW s \in Setups, ReadCounts(s) PROVE KeysInv'
<1>1. /\ setup[s].pc = "locked" /\ setup[s].pc \in Holding
      /\ UNCHANGED <<database, clock, rotation, ghosts, losses>>
  BY DEF ReadCounts, Holding
<1>2. /\ setup = [p \in Setups |-> setup[p]] /\ SetupRecord(setup[s])
      /\ setup[s].key \in KeyIds \cup {NoKeyId} /\ losses \in 0 .. MaxLosses
      /\ quiet[s] => WellFormed
  BY <1>1 DEF KeysInv, KeysTypes, ApiKeysTypeOK, SetupsSound, SnapshotExact
<1>3. CASE /\ IsFresh /\ UNCHANGED lockHolder
           /\ \E i \in FreshIds : setup' = [setup EXCEPT ![s].pc = "fresh", ![s].key = i]
  <2>1. PICK i \in FreshIds : setup' = [setup EXCEPT ![s].pc = "fresh", ![s].key = i]
    BY <1>3
  <2>2. /\ setup' = [p \in Setups |-> setup'[p]]
        /\ \A p \in Setups : p # s => setup'[p] = setup[p]
        /\ setup'[s] = [setup[s] EXCEPT !.pc = "fresh", !.key = i]
    BY <1>2, <2>1
  <2>3. SetupRecord(setup'[s]) /\ setup'[s].pc = "fresh" /\ setup'[s].key = i
    BY <1>2, <2>2 DEF SetupRecord, Holding
  <2>4. created = {}
    <3>1. DOMAIN keys = {}
      BY <1>3 DEF IsFresh, NoKeys
    <3> QED  BY <3>1 DEF KeysInv, DatabaseSound, Markers
  <2>5. SnapshotSound(setup'[s], seen[s])
    BY <2>3 DEF SnapshotSound
  <2>6. quiet[s] => SnapshotExact(setup'[s])
    BY <1>2, <2>4 DEF WellFormed
  <2>7. i \in KeyIds
    BY DEF FreshIds
  <2>8. "fresh" \in Holding /\ UNCHANGED <<database, clock, rotation, lockHolder, ghosts, losses>>
    BY <1>1, <1>3 DEF Holding
  <2> QED  BY <1>1, <2>2, <2>3, <2>4, <2>5, <2>6, <2>7, <2>8, HeldMoves
<1>4. CASE /\ ~IsFresh /\ CountsAgree /\ UNCHANGED lockHolder
           /\ setup' = [setup EXCEPT ![s].pc = "origins"]
  <2>1. /\ setup' = [p \in Setups |-> setup'[p]]
        /\ \A p \in Setups : p # s => setup'[p] = setup[p]
        /\ setup'[s] = [setup[s] EXCEPT !.pc = "origins"]
    BY <1>2, <1>4
  <2>2. SetupRecord(setup'[s]) /\ setup'[s].pc = "origins" /\ setup'[s].key = setup[s].key
    BY <1>2, <2>1 DEF SetupRecord, Holding
  <2>3. SnapshotSound(setup'[s], seen[s]) /\ (quiet[s] => SnapshotExact(setup'[s]))
    BY <1>2, <2>2 DEF SnapshotSound, SnapshotExact
  <2>4. "origins" \in Holding /\ UNCHANGED <<database, clock, rotation, lockHolder, ghosts, losses>>
    BY <1>1, <1>4 DEF Holding
  <2> QED  BY <1>1, <1>2, <2>1, <2>2, <2>3, <2>4, HeldMoves
<1>5. CASE ~IsFresh /\ ~CountsAgree /\ EndSetup(s, "ambiguous", NoKeyId)
  <2>1. ~quiet[s]
    BY <1>2, <1>5, CountsOfWellFormed
  <2>2. "ambiguous" \in Ended /\ losses' \in 0 .. MaxLosses
    BY <1>1, <1>2 DEF Ended
  <2> QED  BY <1>1, <1>5, <2>1, <2>2, EndSetupKeeps
<1> QED  BY <1>3, <1>4, <1>5 DEF ReadCounts

LEMMA ReadOriginsKeeps ==
  ASSUME ApiKeysAssumption, KeysInv, NEW s \in Setups, ReadOrigins(s) PROVE KeysInv'
<1>1. /\ setup[s].pc = "origins" /\ setup[s].pc \in Holding /\ "keys" \in Holding
      /\ UNCHANGED <<database, clock, rotation, lockHolder, ghosts, losses>>
      /\ setup' = [setup EXCEPT ![s].pc = "keys", ![s].origins = Origins(Markers(keys), keys, registered)]
  BY DEF ReadOrigins, Holding, Origins
<1>2. /\ setup = [p \in Setups |-> setup[p]] /\ SetupRecord(setup[s])
      /\ setup[s].key \in KeyIds \cup {NoKeyId}
      /\ quiet[s] => WellFormed
  BY <1>1 DEF KeysInv, KeysTypes, ApiKeysTypeOK, SetupsSound, SnapshotExact
<1>3. /\ setup' = [p \in Setups |-> setup'[p]]
      /\ \A p \in Setups : p # s => setup'[p] = setup[p]
      /\ setup'[s] = [setup[s] EXCEPT !.pc = "keys", !.origins = Origins(Markers(keys), keys, registered)]
  BY <1>1, <1>2
<1>4. /\ SetupRecord(setup'[s]) /\ setup'[s].pc = "keys" /\ setup'[s].key = setup[s].key
      /\ setup'[s].origins = Origins(Markers(keys), keys, registered)
  BY <1>1, <1>2, <1>3 DEF SetupRecord
<1>5. \A o \in Origins(Markers(keys), keys, registered) :
        o.source = "marker" => o.tenant \in FirstTenants(keys)
  BY DEF Origins, FirstTenants
<1>6. SnapshotSound(setup'[s], seen[s])
  BY <1>4, <1>5 DEF SnapshotSound
<1>7. quiet[s] => SnapshotExact(setup'[s])
  BY <1>2, <1>4 DEF SnapshotExact, WellFormed
<1> QED  BY <1>1, <1>2, <1>3, <1>4, <1>6, <1>7, HeldMoves

LEMMA ReadKeysKeeps ==
  ASSUME ApiKeysAssumption, KeysInv, NEW s \in Setups, ReadKeys(s) PROVE KeysInv'
<1>1. /\ setup[s].pc = "keys" /\ setup[s].pc \in Holding /\ "audits" \in Holding
      /\ UNCHANGED <<database, clock, rotation, lockHolder, ghosts, losses>>
      /\ setup' = [setup EXCEPT ![s].pc = "audits", ![s].keys = keys]
  BY DEF ReadKeys, Holding
<1>2. /\ setup = [p \in Setups |-> setup[p]] /\ SetupRecord(setup[s])
      /\ setup[s].key \in KeyIds \cup {NoKeyId}
      /\ quiet[s] => SnapshotExact(setup[s])
      /\ FirstInForce \subseteq seen[s] /\ IsFiniteSet(DOMAIN keys)
  BY <1>1 DEF KeysInv, KeysTypes, ApiKeysTypeOK, SetupsSound, DatabaseSound, Linked
<1>3. SnapshotSound(setup[s], seen[s])
  BY DEF KeysInv, SetupsSound
<1>4. /\ setup' = [p \in Setups |-> setup'[p]]
      /\ \A p \in Setups : p # s => setup'[p] = setup[p]
      /\ setup'[s] = [setup[s] EXCEPT !.pc = "audits", !.keys = keys]
  BY <1>1, <1>2
<1>5. /\ SetupRecord(setup'[s]) /\ setup'[s].pc = "audits" /\ setup'[s].key = setup[s].key
      /\ setup'[s].origins = setup[s].origins /\ setup'[s].keys = keys
  BY <1>1, <1>2, <1>4 DEF SetupRecord
<1>6. \A o \in setup[s].origins : o.source = "marker" =>
        o.tenant \in FirstTenants(keys) /\ InForce(keys, o.tenant) \subseteq seen[s]
  BY <1>1, <1>2, <1>3 DEF SnapshotSound, FirstInForce
<1>7. SnapshotSound(setup'[s], seen[s])
  BY <1>2, <1>5, <1>6 DEF SnapshotSound
<1>8. quiet[s] => SnapshotExact(setup'[s])
  BY <1>1, <1>2, <1>5 DEF SnapshotExact
<1> QED  BY <1>1, <1>2, <1>4, <1>5, <1>7, <1>8, HeldMoves

LEMMA ReadAuditsKeeps ==
  ASSUME ApiKeysAssumption, KeysInv, NEW s \in Setups, ReadAudits(s) PROVE KeysInv'
<1>1. /\ setup[s].pc = "audits" /\ setup[s].pc \in Holding /\ "verify" \in Holding
      /\ UNCHANGED <<database, clock, rotation, lockHolder, ghosts, losses>>
      /\ setup' = [setup EXCEPT ![s].pc = "verify", ![s].audits = audits]
  BY DEF ReadAudits, Holding
<1>2. /\ setup = [p \in Setups |-> setup[p]] /\ SetupRecord(setup[s])
      /\ setup[s].key \in KeyIds \cup {NoKeyId}
      /\ quiet[s] => SnapshotExact(setup[s])
  BY <1>1 DEF KeysInv, KeysTypes, ApiKeysTypeOK, SetupsSound
<1>3. SnapshotSound(setup[s], seen[s])
  BY DEF KeysInv, SetupsSound
<1>4. /\ setup' = [p \in Setups |-> setup'[p]]
      /\ \A p \in Setups : p # s => setup'[p] = setup[p]
      /\ setup'[s] = [setup[s] EXCEPT !.pc = "verify", !.audits = audits]
  BY <1>1, <1>2
<1>5. /\ SetupRecord(setup'[s]) /\ setup'[s].pc = "verify" /\ setup'[s].key = setup[s].key
      /\ setup'[s].origins = setup[s].origins /\ setup'[s].keys = setup[s].keys
      /\ setup'[s].audits = audits
  BY <1>1, <1>2, <1>4 DEF SetupRecord
<1>6. SnapshotSound(setup'[s], seen[s])
  BY <1>1, <1>3, <1>5 DEF SnapshotSound
<1>7. quiet[s] => SnapshotExact(setup'[s])
  BY <1>1, <1>2, <1>5 DEF SnapshotExact
<1> QED  BY <1>1, <1>2, <1>4, <1>5, <1>6, <1>7, HeldMoves

\* What a setup has read of an undisturbed database is accepted.
LEMMA ExactIsVerified ==
  ASSUME KeysInv, NEW x, x.pc = "verify", SnapshotExact(x)
  PROVE  /\ ChainsAccepted(x.origins, x.keys, x.audits)
         /\ \E o \in x.origins : /\ {p \in x.origins : p.source = "marker"} = {o}
                                 /\ VerifySingleState(CurrentKey(o.key, x.keys, x.audits))
<1>1. /\ x.origins = Origins(created, keys, registered) /\ x.keys = keys /\ x.audits = audits
      /\ WellFormed
  BY DEF SnapshotExact
<1>2. /\ Linked(Origins(created, keys, registered), keys, audits)
      /\ \A k, l \in created : k = l
  BY DEF KeysInv, DatabaseSound
<1>3. ChainsAccepted(Origins(created, keys, registered), keys, audits)
  BY <1>2, LinkedIsAccepted
<1>4. PICK k : created = {k}
  BY <1>1, <1>2 DEF WellFormed
<1> DEFINE o == [key |-> k, tenant |-> keys[k].tenant, source |-> "marker"]
           current == CurrentKey(o.key, keys, audits)
<1>5. /\ o \in Origins(created, keys, registered)
      /\ {p \in Origins(created, keys, registered) : p.source = "marker"} = {o}
  BY <1>4 DEF Origins
<1>6. IsFiniteSet(DOMAIN keys)
  BY <1>2 DEF Linked
<1>7. o.tenant = keys[k].tenant /\ o.tenant \in FirstTenants(keys)
  BY <1>1, <1>4 DEF WellFormed, FirstTenants
<1> HIDE DEF o
<1>8. current \in InForce(keys, o.tenant)
  BY <1>3, <1>5, <1>6, CurrentIsInForce
<1>9. VerifySingleState(current)
  BY <1>1, <1>7, <1>8 DEF VerifySingleState, InForce, WellFormed
<1> QED  BY <1>1, <1>3, <1>5, <1>9

LEMMA VerifyKeeps ==
  ASSUME ApiKeysAssumption, KeysInv, NEW s \in Setups, Verify(s) PROVE KeysInv'
<1> DEFINE x == setup[s]
           markers == {o \in x.origins : o.source = "marker"}
           current(o) == CurrentKey(o.key, x.keys, x.audits)
<1>1. /\ x.pc = "verify" /\ x.pc \in Holding
      /\ UNCHANGED <<database, clock, rotation, ghosts, losses>>
  BY DEF Verify, Holding
<1>2. /\ losses' \in 0 .. MaxLosses /\ seen[s] \subseteq KeyIds
      /\ SnapshotSound(x, seen[s]) /\ (quiet[s] => SnapshotExact(x))
  BY <1>1 DEF KeysInv, KeysTypes, ApiKeysTypeOK, SetupsSound
<1>3. \/ /\ ChainsAccepted(x.origins, x.keys, x.audits)
         /\ \E o \in markers : /\ markers = {o} /\ VerifySingleState(current(o))
                               /\ EndSetup(s, "existing", current(o))
      \/ /\ \/ ~ChainsAccepted(x.origins, x.keys, x.audits)
            \/ \A o \in markers : markers # {o} \/ ~VerifySingleState(current(o))
         /\ EndSetup(s, "ambiguous", NoKeyId)
  BY DEF Verify
<1>4. CASE /\ ChainsAccepted(x.origins, x.keys, x.audits)
           /\ \E o \in markers : EndSetup(s, "existing", current(o))
  <2>1. PICK o \in markers : EndSetup(s, "existing", current(o))
    BY <1>4
  <2>2. IsFiniteSet(DOMAIN x.keys) /\ InForce(x.keys, o.tenant) \subseteq seen[s]
    BY <1>1, <1>2 DEF SnapshotSound
  <2>3. o \in x.origins
    OBVIOUS
  <2> HIDE DEF x, markers
  <2>4. current(o) \in InForce(x.keys, o.tenant)
    BY <1>4, <2>2, <2>3, CurrentIsInForce
  <2>5. current(o) \in seen[s] /\ current(o) \in KeyIds
    BY <1>2, <2>2, <2>4
  <2>6. "existing" \in Ended
    BY DEF Ended
  <2> HIDE DEF current
  <2>7. setup[s].pc \in Holding
    BY <1>1 DEF x
  <2> QED  BY <1>1, <1>2, <2>1, <2>5, <2>6, <2>7, EndSetupKeeps
<1>5. CASE /\ \/ ~ChainsAccepted(x.origins, x.keys, x.audits)
              \/ \A o \in markers : markers # {o} \/ ~VerifySingleState(current(o))
           /\ EndSetup(s, "ambiguous", NoKeyId)
  <2>1. ~quiet[s]
    <3> SUFFICES ASSUME quiet[s] PROVE FALSE
      OBVIOUS
    <3> HIDE DEF x
    <3>1. /\ ChainsAccepted(x.origins, x.keys, x.audits)
          /\ \E o \in x.origins : /\ {p \in x.origins : p.source = "marker"} = {o}
                                  /\ VerifySingleState(CurrentKey(o.key, x.keys, x.audits))
      BY <1>1, <1>2, ExactIsVerified
    <3> QED  BY <1>5, <3>1
  <2>2. "ambiguous" \in Ended
    BY DEF Ended
  <2> QED  BY <1>1, <1>2, <1>5, <2>1, <2>2, EndSetupKeeps
<1> QED  BY <1>3, <1>4, <1>5

LEMMA SetupFailsKeeps ==
  ASSUME ApiKeysAssumption, KeysInv, NEW s \in Setups, SetupFails(s) PROVE KeysInv'
<1>1. /\ UNCHANGED <<database, clock, rotation, ghosts>> /\ EndSetup(s, "failed", NoKeyId)
      /\ lockHolder = s
  BY DEF SetupFails
<1>2. losses' \in 0 .. MaxLosses /\ setup[s].pc \in Holding
  BY <1>1 DEF SetupFails, KeysInv, KeysTypes, ApiKeysTypeOK, ApiKeysAssumption
<1>3. "failed" \in Ended
  BY DEF Ended
<1> QED  BY <1>1, <1>2, <1>3, EndSetupKeeps

-----------------------------------------------------------------------------
\* Rotations are one transaction each and setups share a lock: every tenant keeps one key
\* in force, there is one first tenant, and a repeated setup accepts what setup,
\* registrations and rotations have made and reports the key in force, for any number of
\* concurrent rotations and setups.
THEOREM KeysStaySound == ApiKeysSpec => []KeysAreSound
<1>1. ApiKeysInit => KeysInv
  BY ApiKeysAssumption, KeysInvInit
<1>2. KeysInv /\ [ApiKeysNext]_apiKeyVars => KeysInv'
  <2> SUFFICES ASSUME KeysInv, [ApiKeysNext]_apiKeyVars PROVE KeysInv'
    OBVIOUS
  <2>1. ASSUME NEW r \in Rotators, BeginRotation(r) PROVE KeysInv'
    BY <2>1, ApiKeysAssumption, BeginRotationKeeps
  <2>2. ASSUME NEW r \in Rotators, LockSelectedKey(r) PROVE KeysInv'
    BY <2>2, ApiKeysAssumption, LockSelectedKeyKeeps
  <2>3. ASSUME NEW r \in Rotators, WriteRotation(r) PROVE KeysInv'
    BY <2>3, ApiKeysAssumption, WriteRotationKeeps
  <2>4. ASSUME NEW r \in Rotators, CommitRotation(r) PROVE KeysInv'
    BY <2>4, ApiKeysAssumption, CommitRotationKeeps
  <2>5. ASSUME NEW r \in Rotators, RotationFails(r) PROVE KeysInv'
    BY <2>5, ApiKeysAssumption, RotationFailsKeeps
  <2>6. CASE Register
    BY <2>6, ApiKeysAssumption, RegisterKeeps
  <2>7. CASE ChangeAdministrators
    BY <2>7, ApiKeysAssumption, ChangeAdministratorsKeeps
  <2>8. ASSUME NEW s \in Setups, LockInitialization(s) PROVE KeysInv'
    BY <2>8, ApiKeysAssumption, LockInitializationKeeps
  <2>9. ASSUME NEW s \in Setups, ReadCounts(s) PROVE KeysInv'
    BY <2>9, ApiKeysAssumption, ReadCountsKeeps
  <2>10. ASSUME NEW s \in Setups, CreateState(s) PROVE KeysInv'
    BY <2>10, ApiKeysAssumption, CreateStateKeeps
  <2>11. ASSUME NEW s \in Setups, ReadOrigins(s) PROVE KeysInv'
    BY <2>11, ApiKeysAssumption, ReadOriginsKeeps
  <2>12. ASSUME NEW s \in Setups, ReadKeys(s) PROVE KeysInv'
    BY <2>12, ApiKeysAssumption, ReadKeysKeeps
  <2>13. ASSUME NEW s \in Setups, ReadAudits(s) PROVE KeysInv'
    BY <2>13, ApiKeysAssumption, ReadAuditsKeeps
  <2>14. ASSUME NEW s \in Setups, Verify(s) PROVE KeysInv'
    BY <2>14, ApiKeysAssumption, VerifyKeeps
  <2>15. ASSUME NEW s \in Setups, SetupFails(s) PROVE KeysInv'
    BY <2>15, ApiKeysAssumption, SetupFailsKeeps
  <2>16. CASE UNCHANGED apiKeyVars
    <3>1. UNCHANGED <<database, ghosts, clock, rotation, lockHolder, setup, losses>>
      BY <2>16 DEF apiKeyVars, database, ghosts
    <3> QED  BY <3>1 DEF KeysInv, KeysTypes, ApiKeysTypeOK, KeyRow, RotationRecord, ReservedIds,
               RotationsSound, DatabaseSound, SetupsSound, FirstInForce, SnapshotSound,
               SnapshotExact, WellFormed, database, ghosts
  <2> QED  BY <2>1, <2>2, <2>3, <2>4, <2>5, <2>6, <2>7, <2>8, <2>9, <2>10, <2>11, <2>12, <2>13,
              <2>14, <2>15, <2>16 DEF ApiKeysNext
<1>3. KeysInv => KeysAreSound
  BY KeysInvSays
<1> QED  BY <1>1, <1>2, <1>3, PTL DEF ApiKeysSpec
=============================================================================
