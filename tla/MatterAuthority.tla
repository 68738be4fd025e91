-------------------------- MODULE MatterAuthority --------------------------
(***************************************************************************)
(* Who may act: reviewer accounts and matter memberships, and the          *)
(* operations that change them, each one PostgreSQL transaction (READ      *)
(* COMMITTED) taken lock by lock.  A matter is in the hands of its         *)
(* effective Seniors: active Senior members whose account is active too.   *)
(*                                                                         *)
(* The locks, in the order each operation takes them (s: shared, the lock  *)
(* a foreign key takes on the row it refers to):                           *)
(*   set, remove          the matter's members, [index place, matter (s),  *)
(*                        account (s)], audit, actor (s), subject (s)      *)
(*   suspend, reinstate   every Senior account, the account, for each      *)
(*                        affected matter its members, audit, actor (s),   *)
(*                        subject (s)                                      *)
(*   provision            user name, audit, actor (s), subject (s)         *)
(*   open                 actor (s)                                        *)
(*   restore              restore, matter, member or [index place,         *)
(*                        account (s)]                                     *)
(* Rows that one statement locks are those its snapshot shows, in the      *)
(* order of their identifiers.                                             *)
(***************************************************************************)
EXTENDS ReviewRules, Sequences

CONSTANTS
  Reviewers,    \* who may have an account: numbers, rows are locked in their order
  Matters,      \* the matters there may be: numbers
  Deployments,  \* whether row-level security applies: to production's runtime
                \* role it does, to the owner of the schema it does not
  Opening,      \* the accounts and memberships to begin with
  NoRole,       \* a membership call that names no role
  Requests,     \* the requests in flight, one transaction each
  Calls         \* what they may ask for

VARIABLES
  secured,  \* whether row-level security applies
  account,  \* the accounts: their global role and whether they are active
  matters,  \* the matters opened
  member,   \* the memberships <<matter, reviewer>>: matter role, active or not
  log,      \* the account audit chain: each event and its predecessor
  req,      \* what each request is doing
  held      \* the locks each request holds until its transaction ends

rows == <<account, matters, member, log>>
vars == <<secured, rows, req, held>>

\* An account, and a membership: a role, and whether it is active.
AccountRow == [role : ReviewerRoles, active : BOOLEAN]
SeniorRow  == [role |-> SeniorCounsel, active |-> TRUE]

\* What may be asked for.
CallRecords ==
  [op : {"set"}, by : Reviewers, matter : Matters, target : Reviewers,
   role : ReviewerRoles \cup {NoRole}] \cup
  [op : {"remove"}, by : Reviewers, matter : Matters, target : Reviewers] \cup
  [op : {"suspend", "reinstate"}, by : Reviewers, target : Reviewers] \cup
  [op : {"provision"}, by : Reviewers, target : Reviewers, role : ReviewerRoles] \cup
  [op : {"open"}, by : Reviewers] \cup
  [op : {"restore"}, matter : Matters, target : Reviewers]

ASSUME AuthorityAssumption ==
  /\ Reviewers \subseteq Nat /\ IsFiniteSet(Reviewers)
  /\ Matters \subseteq Nat /\ IsFiniteSet(Matters)
  /\ Deployments \subseteq BOOLEAN
  /\ NoRole \notin ReviewerRoles
  /\ Calls \subseteq CallRecords

\* The accounts and memberships to begin with are tables of rows, and an active
\* Senior is among them (the first account is provisioned as one).
ASSUME OpeningAssumption ==
  /\ \E accounts \in SUBSET Reviewers : Opening.account \in [accounts -> AccountRow]
  /\ \E members \in SUBSET (Matters \X DOMAIN Opening.account) :
       Opening.member \in [members -> AccountRow]
  /\ \E v \in DOMAIN Opening.account :
       Opening.account[v].active /\ Opening.account[v].role = SeniorCounsel

-----------------------------------------------------------------------------
(***************************************************************************)
(* Transactions and locks.                                                 *)
(***************************************************************************)

NoRows == [x \in {} |-> x]

\* One row of a table: v under the identifier k.
Only(k, v) == [x \in {k} |-> v]

\* The rows of a table with some of them changed or added.
Overlay(table, changes) ==
  [x \in DOMAIN table \cup DOMAIN changes |->
     IF x \in DOMAIN changes THEN changes[x] ELSE table[x]]

\* What a transaction has written and not committed, and what it relies on:
\* `todo' are the locks it is taking, `then' what it does when it has them,
\* `locked' the reviewers whose memberships it locked last, `seniors' the Senior
\* accounts it locked, `affected' the matters it still has to look at.
NoChanges ==
  [todo |-> <<>>, then |-> "commit", locked |-> {}, seniors |-> {},
   affected |-> <<>>, role |-> NoRole, account |-> NoRows, matters |-> {},
   member |-> NoRows, log |-> <<>>]

Idle == [at |-> "idle", call |-> [op |-> "none"], tx |-> NoChanges, reply |-> "none"]

At(r, label) == req[r].at = label
Call(r) == req[r].call
Tx(r) == req[r].tx

AccountLock(v)   == <<"account", v, 0>>
MemberLock(k, v) == <<"member", k, v>>
PlaceLock(k, v)  == <<"place", k, v>>    \* the place of a membership in its unique index
MatterLock(k)    == <<"matter", k, 0>>
NameLock(v)      == <<"name", v, 0>>     \* the place of an account in that of user names
AuditLock        == <<"audit", 0, 0>>
RestoreLock      == <<"restore", 0, 0>>

Exclusive(lock) == [lock |-> lock, mode |-> "exclusive"]
Shared(lock)    == [lock |-> lock, mode |-> "shared"]

Conflicting(a, b) == a.lock = b.lock /\ "exclusive" \in {a.mode, b.mode}

\* The transactions that keep r from a lock.
Blockers(want, r) ==
  {q \in Requests \ {r} : \E have \in held[q] : Conflicting(have, want)}

WaitsFor(r) == IF At(r, "lock") THEN Blockers(Head(Tx(r).todo), r) ELSE {}

\* Every request of a set waits for another of the set.
Cycle(D) == D # {} /\ \A q \in D : WaitsFor(q) \cap D # {}
Deadlocked(r) == \E D \in SUBSET Requests : r \in D /\ Cycle(D)

\* A set of numbers as the sequence ORDER BY makes of it.
InOrder(S) ==
  CHOOSE s \in [1 .. Cardinality(S) -> S] :
    \A i, j \in 1 .. Cardinality(S) : i < j => s[i] < s[j]

\* The locks of a statement on some accounts, and on some memberships of a matter.
AccountLocks(S)   == [i \in 1 .. Cardinality(S) |-> Exclusive(AccountLock(InOrder(S)[i]))]
MemberLocks(k, S) == [i \in 1 .. Cardinality(S) |-> Exclusive(MemberLock(k, InOrder(S)[i]))]

\* Go on at a label, with these changes.
Proceed(r, tx, label) ==
  /\ req' = [req EXCEPT ![r].at = label, ![r].tx = tx]
  /\ UNCHANGED <<secured, rows, held>>

\* Go on at a label once these locks are taken, one after the other.
Acquire(r, tx, todo, label) ==
  Proceed(r, [tx EXCEPT !.todo = todo, !.then = label],
          IF todo = <<>> THEN label ELSE "lock")

\* The transaction ends without a trace.
Abort(r, reply) ==
  /\ req' = [req EXCEPT ![r] = [Idle EXCEPT !.at = "done", !.call = Call(r), !.reply = reply]]
  /\ held' = [held EXCEPT ![r] = {}]
  /\ UNCHANGED <<secured, rows>>

\* The next lock is granted.
TakeLock(r) ==
  LET todo == Tx(r).todo
  IN  /\ At(r, "lock")
      /\ Blockers(Head(todo), r) = {}
      /\ held' = [held EXCEPT ![r] = @ \cup {Head(todo)}]
      /\ req'  = [req EXCEPT ![r].tx.todo = Tail(todo),
                             ![r].at = IF Tail(todo) = <<>> THEN Tx(r).then ELSE "lock"]
      /\ UNCHANGED <<secured, rows>>

-----------------------------------------------------------------------------
(***************************************************************************)
(* Authority.                                                              *)
(***************************************************************************)

MembersOf(k) == {v \in Reviewers : <<k, v>> \in DOMAIN member}
ActiveMember(k, v) == v \in MembersOf(k) /\ member[<<k, v>>].active
ActiveSeniorMember(k, v) == ActiveMember(k, v) /\ member[<<k, v>>].role = SeniorCounsel

ActiveSenior(v) ==
  v \in DOMAIN account /\ account[v].active /\ account[v].role = SeniorCounsel

\* Those who can administer the matter now.
EffectiveSeniors(k) == {v \in Reviewers : ActiveSeniorMember(k, v) /\ ActiveSenior(v)}

\* Row-level security shows the memberships of a matter to its active members.
Sees(v, k) == ~secured \/ ActiveMember(k, v)

\* The call carries the session of an active global Senior, who for a change of
\* membership is an active member of the matter too.
Submittable(call) ==
  \/ call.op = "restore" /\ call.matter \in matters
  \/ /\ call.op # "restore"
     /\ ActiveSenior(call.by)
     /\ CASE call.op = "set"    -> ActiveMember(call.matter, call.by)
          [] call.op = "remove" -> /\ call.by # call.target
                                   /\ ActiveMember(call.matter, call.by)
                                   /\ call.target \in MembersOf(call.matter)
          [] call.op = "suspend"   -> call.by # call.target
          [] call.op = "reinstate" -> TRUE
          [] call.op = "provision" -> call.target \notin DOMAIN account
          [] call.op = "open"      -> TRUE
          [] OTHER                 -> FALSE

FirstStep(op) ==
  CASE op \in {"set", "remove"}        -> "members"
    [] op \in {"suspend", "reinstate"} -> "seniors"
    [] OTHER                           -> op

\* A removal reads the matter role it will write back.
RoleNamed(call) ==
  CASE call.op = "set"    -> call.role
    [] call.op = "remove" -> member[<<call.matter, call.target>>].role
    [] OTHER              -> NoRole

Arrive(r, call) ==
  /\ At(r, "idle")
  /\ Submittable(call)
  /\ req' = [req EXCEPT
       ![r].call = call,
       ![r].at   = FirstStep(call.op),
       ![r].tx   = [NoChanges EXCEPT
         !.role     = RoleNamed(call),
         !.affected = IF call.op \in {"set", "remove"} THEN <<call.matter>> ELSE <<>>]]
  /\ UNCHANGED <<secured, rows, held>>

-----------------------------------------------------------------------------
(***************************************************************************)
(* Memberships.                                                            *)
(***************************************************************************)

Matter(r) == Head(Tx(r).affected)

\* The step that follows the locking of a matter's memberships.
AfterMembers(r) == IF Call(r).op \in {"set", "remove"} THEN "decide" ELSE "replacement"

\* MUTANT: memberships are locked in whatever order the index yields them.
FindMembersInAnyOrder(r) ==
  LET seen == IF Sees(Call(r).by, Matter(r)) THEN MembersOf(Matter(r)) ELSE {}
  IN  /\ At(r, "members")
      /\ \E order \in [1 .. Cardinality(seen) -> seen] :
           /\ {order[i] : i \in DOMAIN order} = seen
           /\ Acquire(r, [Tx(r) EXCEPT !.locked = seen],
                      [i \in DOMAIN order |-> Exclusive(MemberLock(Matter(r), order[i]))],
                      AfterMembers(r))

\* SELECT ... FOR UPDATE of a matter's memberships: the rows the statement's
\* snapshot shows are locked in order; a row inserted meanwhile is not seen.
FindMembers(r) ==
  LET seen == IF Sees(Call(r).by, Matter(r)) THEN MembersOf(Matter(r)) ELSE {}
  IN  /\ At(r, "members")
      /\ Acquire(r, [Tx(r) EXCEPT !.locked = seen],
                 MemberLocks(Matter(r), seen), AfterMembers(r))

\* An omitted role is the membership's, and for a first join the account's.
RoleGiven(r) ==
  LET v == Call(r).target
  IN  IF Tx(r).role # NoRole       THEN Tx(r).role
      ELSE IF v \in Tx(r).locked   THEN member[<<Matter(r), v>>].role
      ELSE account[v].role

\* MUTANT: the target is counted as he was.
RemainingBefore(r, row) ==
  {v \in Tx(r).locked : ActiveSeniorMember(Matter(r), v) /\ ActiveSenior(v)}
    \cup (IF row.active /\ row.role = SeniorCounsel THEN {Call(r).target} ELSE {})

\* The effective Seniors a matter keeps when the target's membership becomes row.
RemainingSeniors(r, row) ==
  {v \in Tx(r).locked \ {Call(r).target} : ActiveSeniorMember(Matter(r), v) /\ ActiveSenior(v)}
    \cup (IF row.active /\ row.role = SeniorCounsel THEN {Call(r).target} ELSE {})

\* The account of the target may be the one the session was resolved to, read
\* when the request arrived.
TargetIsActive(r) == Call(r).target = Call(r).by \/ account[Call(r).target].active

\* What set_case_member_admin insists on under the membership locks.
MayBecome(r, row) ==
  LET v == Call(r).target
  IN  /\ Call(r).by \in Tx(r).locked /\ ActiveMember(Matter(r), Call(r).by)
      /\ v \in DOMAIN account
      /\ row.active => TargetIsActive(r)
      /\ row.role = SeniorCounsel => account[v].role = SeniorCounsel
      /\ RemainingSeniors(r, row) # {}

DecideMembership(r) ==
  LET k   == Matter(r)
      v   == Call(r).target
      row == [role |-> RoleGiven(r), active |-> Call(r).op = "set"]
      tx  == [Tx(r) EXCEPT !.member = Only(<<k, v>>, row)]
  IN  /\ At(r, "decide")
      /\ IF v \notin DOMAIN account \/ ~MayBecome(r, row) THEN Abort(r, "refused")
         ELSE IF v \in Tx(r).locked THEN Proceed(r, tx, "audit")
         ELSE Acquire(r, tx, <<Exclusive(PlaceLock(k, v))>>, "insert")

\* The insertion of a membership waits for one of the same reviewer in flight,
\* then for the rows its foreign keys refer to.
InsertMembership(r) ==
  LET k == Call(r).matter
      v == Call(r).target
  IN  /\ At(r, "insert")
      /\ IF v \in MembersOf(k) THEN Abort(r, "index violated")
         ELSE Acquire(r, Tx(r), <<Shared(MatterLock(k)), Shared(AccountLock(v))>>,
                      IF Call(r).op = "restore" THEN "commit" ELSE "audit")

-----------------------------------------------------------------------------
(***************************************************************************)
(* Accounts.                                                               *)
(***************************************************************************)

\* MUTANT: the Senior accounts are read and not locked.
ReadSeniors(r) ==
  /\ At(r, "seniors")
  /\ Proceed(r, [Tx(r) EXCEPT !.seniors = {v \in DOMAIN account : account[v].role = SeniorCounsel}],
             "authority")

\* SELECT ... FOR UPDATE of every Senior account.
FindSeniors(r) ==
  LET seniors == {v \in DOMAIN account : account[v].role = SeniorCounsel}
  IN  /\ At(r, "seniors")
      /\ Acquire(r, [Tx(r) EXCEPT !.seniors = seniors],
                 AccountLocks(seniors), "authority")

\* MUTANT: the administrator is as he was when the request arrived.
TrustTheSession(r) ==
  LET v == Call(r).target
  IN  /\ At(r, "authority")
      /\ IF v \notin DOMAIN account THEN Abort(r, "refused")
         ELSE Acquire(r, Tx(r), IF v \in Tx(r).seniors THEN <<>> ELSE <<Exclusive(AccountLock(v))>>,
                      "account")

\* The administrator is looked at again under the locks; then the account to
\* change is locked, unless it was among the Seniors.
CheckAuthority(r) ==
  LET v == Call(r).target
  IN  /\ At(r, "authority")
      /\ IF \/ Call(r).by \notin Tx(r).seniors
            \/ ~account[Call(r).by].active
            \/ v \notin DOMAIN account
         THEN Abort(r, "refused")
         ELSE Acquire(r, Tx(r), IF v \in Tx(r).seniors THEN <<>> ELSE <<Exclusive(AccountLock(v))>>,
                      "account")

\* The account is the last active Senior one among those locked.
LastSenior(r) ==
  /\ Call(r).target \in Tx(r).seniors
  /\ Cardinality({v \in Tx(r).seniors : account[v].active}) <= 1

\* The matters the account is an active Senior of, as far as the administrator
\* who asks sees them.
AffectedMatters(r) ==
  {k \in matters : Sees(Call(r).by, k) /\ ActiveSeniorMember(k, Call(r).target)}

AfterMatter(affected) == IF affected = <<>> THEN "write" ELSE "members"

CheckAccount(r) ==
  LET suspending == Call(r).op = "suspend" /\ account[Call(r).target].active
      affected   == IF suspending THEN InOrder(AffectedMatters(r)) ELSE <<>>
  IN  /\ At(r, "account")
      /\ IF suspending /\ LastSenior(r) THEN Abort(r, "refused")
         ELSE Proceed(r, [Tx(r) EXCEPT !.affected = affected], AfterMatter(affected))

\* Another effective Senior takes over the matter.
CheckReplacement(r) ==
  LET replacement ==
        {v \in Tx(r).locked \ {Call(r).target} :
           ActiveSeniorMember(Matter(r), v) /\ v \in Tx(r).seniors /\ account[v].active}
      rest == Tail(Tx(r).affected)
  IN  /\ At(r, "replacement")
      /\ IF replacement = {} THEN Abort(r, "refused")
         ELSE Proceed(r, [Tx(r) EXCEPT !.affected = rest], AfterMatter(rest))

WriteAccount(r) ==
  LET v == Call(r).target
  IN  /\ At(r, "write")
      /\ Proceed(r, [Tx(r) EXCEPT
           !.account = Only(v, [account[v] EXCEPT !.active = (Call(r).op = "reinstate")])], "audit")

\* The insertion of an account waits for one of the same user name in flight.
ProvisionAccount(r) ==
  LET v == Call(r).target
  IN  \/ /\ At(r, "provision")
         /\ Acquire(r, Tx(r), <<Exclusive(NameLock(v))>>, "named")
      \/ /\ At(r, "named")
         /\ IF v \in DOMAIN account THEN Abort(r, "refused")
            ELSE Proceed(r, [Tx(r) EXCEPT
                   !.account = Only(v, [role |-> Call(r).role, active |-> TRUE])], "audit")

-----------------------------------------------------------------------------
(***************************************************************************)
(* Matters.                                                                *)
(***************************************************************************)

\* atlas_argus_create_matter looks at the creator's account, then inserts the
\* matter and the membership, whose foreign key waits for the account's row.
OpenMatter(r) ==
  LET v == Call(r).by
  IN  /\ At(r, "open")
      /\ IF ~ActiveSenior(v) THEN Abort(r, "refused")
         ELSE \E k \in Matters \ (matters \cup UNION {Tx(q).matters : q \in Requests}) :
                Acquire(r, [Tx(r) EXCEPT
                    !.matters = {k},
                    !.member  = Only(<<k, v>>, SeniorRow)],
                  <<Shared(AccountLock(v))>>, "commit")

\* The operator's command, which row-level security does not blind: the matter
\* must have no effective Senior, and the reviewer be an active global one.
RestoreAccess(r) ==
  LET k  == Call(r).matter
      v  == Call(r).target
      tx == [Tx(r) EXCEPT !.member = Only(<<k, v>>, SeniorRow)]
  IN  \/ /\ At(r, "restore")
         /\ Acquire(r, Tx(r), <<Exclusive(RestoreLock), Exclusive(MatterLock(k))>>, "examine")
      \/ /\ At(r, "examine")
         /\ IF ~ActiveSenior(v) \/ EffectiveSeniors(k) # {} THEN Abort(r, "refused")
            ELSE IF v \in MembersOf(k)
                 THEN Acquire(r, tx, <<Exclusive(MemberLock(k, v))>>, "commit")
                 ELSE Acquire(r, tx, <<Exclusive(PlaceLock(k, v))>>, "insert")

-----------------------------------------------------------------------------
(***************************************************************************)
(* The audit event and the end of a transaction.                           *)
(***************************************************************************)

\* MUTANT: an event is appended without the lock of the chain.
NoLocks == <<>>

ChainLocks == <<Exclusive(AuditLock)>>

LockAccountAudit(r) ==
  /\ At(r, "audit")
  /\ Acquire(r, Tx(r), ChainLocks, "append")

\* The event is chained to the last one committed; its foreign keys refer to the
\* accounts of the actor and of the subject.
AppendAccountAudit(r) ==
  /\ At(r, "append")
  /\ Acquire(r, [Tx(r) EXCEPT !.log = <<[prev |-> Len(log)]>>],
             <<Shared(AccountLock(Call(r).by)), Shared(AccountLock(Call(r).target))>>, "commit")

Commit(r) ==
  /\ At(r, "commit")
  /\ account' = Overlay(account, Tx(r).account)
  /\ matters' = matters \cup Tx(r).matters
  /\ member'  = Overlay(member, Tx(r).member)
  /\ log'     = log \o Tx(r).log
  /\ req'     = [req EXCEPT ![r] = [Idle EXCEPT !.at = "done", !.call = Call(r), !.reply = "ok"]]
  /\ held'    = [held EXCEPT ![r] = {}]
  /\ UNCHANGED secured

\* PostgreSQL finds a deadlock and cancels one of the transactions in it.
CancelDeadlocked(r) ==
  /\ Deadlocked(r)
  /\ Abort(r, "deadlock")

-----------------------------------------------------------------------------
Init ==
  /\ secured \in Deployments
  /\ account = Opening.account
  /\ member  = Opening.member
  /\ matters = {m[1] : m \in DOMAIN Opening.member}
  /\ log     = <<>>
  /\ req     = [r \in Requests |-> Idle]
  /\ held    = [r \in Requests |-> {}]

Step(r) ==
  \/ TakeLock(r)
  \/ FindMembers(r)
  \/ DecideMembership(r)
  \/ InsertMembership(r)
  \/ FindSeniors(r)
  \/ CheckAuthority(r)
  \/ CheckAccount(r)
  \/ CheckReplacement(r)
  \/ WriteAccount(r)
  \/ ProvisionAccount(r)
  \/ OpenMatter(r)
  \/ RestoreAccess(r)
  \/ LockAccountAudit(r)
  \/ AppendAccountAudit(r)
  \/ Commit(r)
  \/ CancelDeadlocked(r)

Next == \E r \in Requests : (\E call \in Calls : Arrive(r, call)) \/ Step(r)

Spec == Init /\ [][Next]_vars

\* A request that arrived is executed.
FairSpec == Spec /\ \A r \in Requests : WF_vars(Step(r))

-----------------------------------------------------------------------------
(***************************************************************************)
(* Properties.                                                             *)
(***************************************************************************)

TypeOK ==
  /\ secured \in Deployments
  /\ DOMAIN account \subseteq Reviewers
  /\ \A v \in DOMAIN account : account[v] \in AccountRow
  /\ matters \subseteq Matters
  /\ DOMAIN member \subseteq matters \X DOMAIN account
  /\ \A m \in DOMAIN member : member[m] \in AccountRow
  /\ \A r \in Requests : At(r, "lock") => Tx(r).todo # <<>>

\* However administrators suspend one another, an active Senior account remains
\* (set_reviewer_active_admin).
AnAccountRemains == \E v \in DOMAIN account : ActiveSenior(v)

\* An account is suspended or reinstated by an administrator whose own account is
\* active at that moment, not only when his request arrived
\* (set_reviewer_active_admin, locked_actor).
AccountsAreRuledByTheActive ==
  [][\A r \in Requests :
       At(r, "commit") /\ Call(r).op \in {"suspend", "reinstate"} /\ req'[r].reply = "ok"
         => ActiveSenior(Call(r).by)]_vars

\* A suspension does not look at a matter it should: row-level security hides those
\* the suspending administrator is not in, and the operator may restore one to either
\* of the two after the suspension looked.
Overlooks(q, k) ==
  /\ Call(q).op = "suspend"
  /\ \/ ~Sees(Call(q).by, k)
     \/ \E p \in Requests : /\ Call(p).op = "restore" /\ Call(p).matter = k
                            /\ Call(p).target \in {Call(q).by, Call(q).target}

\* A change of membership about to be committed counts on v to keep the matter.
CountsOn(r, v, k) ==
  /\ At(r, "commit") /\ Call(r).op \in {"set", "remove"} /\ Call(r).matter = k
  /\ v \in Tx(r).locked \ {Call(r).target} /\ ActiveSeniorMember(k, v)

\* No demotion, removal, suspension or reinstatement, however they interleave,
\* takes the last effective Senior from a matter, unless a suspension overlooks the
\* matter: the one that is committed, or one of a Senior whom the demotion or removal
\* that is committed still counted on (set_case_member_admin,
\* set_reviewer_active_admin).
MattersKeepASenior ==
  [][\A k \in matters :
       EffectiveSeniors(k) # {} /\ EffectiveSeniors(k)' = {} =>
         \E q \in Requests :
           /\ Overlooks(q, k)
           /\ \/ At(q, "commit")
              \/ req[q].reply = "ok" /\ \E r \in Requests : CountsOn(r, Call(q).target, k)]_vars

\* The account audit chain never forks (_append_account_audit).
AccountChainNeverForks == \A i \in DOMAIN log : log[i].prev = i - 1

\* The account a suspension or reinstatement is to change, which it waits for alone,
\* became a Senior's after it had locked those there were.
ProvisionedSince(q) ==
  /\ Call(q).op \in {"suspend", "reinstate"}
  /\ Call(q).target \notin Tx(q).seniors
  /\ Head(Tx(q).todo) = Exclusive(AccountLock(Call(q).target))
  /\ account[Call(q).target].role = SeniorCounsel

\* Membership changes alone never wait for one another in a circle, nor do
\* suspensions alone: each cycle has a request that waits for an account a
\* suspension or reinstatement has locked, or for a matter being restored, or is
\* about an account provisioned meanwhile, whose number may be smaller than those
\* it has locked (set_case_member_admin, set_reviewer_active_admin).
CyclesNeedAnAccount ==
  \A D \in SUBSET Requests : Cycle(D) =>
    \E q \in D : \/ Head(Tx(q).todo) \in {Shared(AccountLock(v)) : v \in Reviewers}
                                         \cup {Shared(MatterLock(k)) : k \in Matters}
                 \/ ProvisionedSince(q)

\* A member narrowed on a matter becomes its Senior again only when a call names
\* that role, or the operator restores the matter (set_case_member_admin).
NarrowedStaysNarrowed ==
  [][\A m \in DOMAIN member :
       member[m].role # SeniorCounsel /\ member'[m].role = SeniorCounsel =>
         \E r \in Requests :
           /\ At(r, "commit")
           /\ \/ Call(r).op = "restore"
              \/ Call(r).op = "set" /\ Call(r).role = SeniorCounsel]_vars
=============================================================================
