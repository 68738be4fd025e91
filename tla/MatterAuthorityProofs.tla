------------------------ MODULE MatterAuthorityProofs ------------------------
(***************************************************************************)
(* Proofs about MatterAuthority.                                           *)
(*                                                                         *)
(* The invariant says of each request what it has locked, what it has      *)
(* checked and what it has written, in terms of the committed rows as they *)
(* are now.  It survives the commits of other requests because of the      *)
(* locks: whoever holds the row of an account keeps it, and also keeps the *)
(* account's memberships, since the audit event of a change refers to the  *)
(* account.  Only the operator's command does not look at accounts.        *)
(* The order in which requests take their locks is an invariant of its     *)
(* own, from which follows where the deadlocks come from.                  *)
(***************************************************************************)
EXTENDS MatterAuthority, FiniteSetTheorems, SequenceTheorems, TLAPS

-----------------------------------------------------------------------------
(***************************************************************************)
(* What is committed.                                                      *)
(***************************************************************************)

\* The memberships the operator restores, or has restored.
Restored ==
  {<<Call(p).matter, Call(p).target>> : p \in {q \in Requests : Call(q).op = "restore"}}

MembersIn(M, k)    == {v \in Reviewers : <<k, v>> \in DOMAIN M.member}
MemberIn(M, k, v)  == <<k, v>> \in DOMAIN M.member /\ M.member[<<k, v>>].active
SeniorOn(M, k, v)  == MemberIn(M, k, v) /\ M.member[<<k, v>>].role = SeniorCounsel
SeniorRole(M, v)   == v \in DOMAIN M.account /\ M.account[v].role = SeniorCounsel
SeniorIn(M, v)     == SeniorRole(M, v) /\ M.account[v].active
Effective(M, k, v) == SeniorOn(M, k, v) /\ SeniorIn(M, v)

\* The suspension x does not look at matter k.
Overlooked(x, M, k) ==
  \/ M.secured /\ ~MemberIn(M, k, x.call.by)
  \/ <<k, x.call.by>> \in M.restored
  \/ <<k, x.call.target>> \in M.restored

Committed ==
  [secured |-> secured, account |-> account, matters |-> matters, member |-> member,
   logged |-> Len(log), restored |-> Restored]

\* The matters k and Seniors v such that v was suspended without a look at k.
Unseen ==
  {m \in Matters \X Reviewers :
     \E q \in Requests :
       /\ Call(q).op = "suspend" /\ req[q].reply = "ok" /\ Call(q).target = m[2]
       /\ Overlooked(req[q], Committed, m[1])}

Rows ==
  [secured |-> secured, account |-> account, matters |-> matters, member |-> member,
   logged |-> Len(log), restored |-> Restored, unseen |-> Unseen]

-----------------------------------------------------------------------------
(***************************************************************************)
(* What is true of a request x that holds the locks H, operation by        *)
(* operation.                                                              *)
(***************************************************************************)

Listed(todo) == {todo[i] : i \in DOMAIN todo}

\* The step the request has got to, once it has the locks it waits for.
Stage(x) == IF x.at = "lock" THEN x.tx.then ELSE x.at

Claimed(x, H) == H \cup (IF x.at = "lock" THEN Listed(x.tx.todo) ELSE {})

MemberClaims(k, S) == {Exclusive(MemberLock(k, v)) : v \in S}
AccountClaims(S)   == {Exclusive(AccountLock(v)) : v \in S}

Audited == {"audit", "append", "commit"}
Settled == {"insert", "audit", "append", "commit"}

\* The account audit event is the next one, and refers to two accounts.
Auditing(x, H, M) ==
  /\ Stage(x) = "append" => Exclusive(AuditLock) \in Claimed(x, H)
  /\ Stage(x) = "commit" =>
       /\ Exclusive(AuditLock) \in H
       /\ x.tx.log = <<[prev |-> M.logged]>>
       /\ Shared(AccountLock(x.call.by)) \in Claimed(x, H)
       /\ Shared(AccountLock(x.call.target)) \in Claimed(x, H)
  /\ Stage(x) # "commit" => x.tx.log = <<>>

\* Besides the target, whose row is to be `row', an effective Senior is counted on: one
\* who is there, or whose suspension overlooked the matter.
Counted(x, M, row) ==
  \/ row = SeniorRow
  \/ \E w \in x.tx.locked \ {x.call.target} :
       /\ SeniorOn(M, x.call.matter, w) /\ SeniorRole(M, w)
       /\ M.account[w].active \/ <<x.call.matter, w>> \in M.unseen

Changing(x, H, M) ==
  LET k == x.call.matter
      v == x.call.target
  IN  /\ Stage(x) \in {"members", "decide"} \cup Settled
      /\ k \in M.matters
      /\ x.tx.affected = <<k>> /\ x.tx.account = NoRows /\ x.tx.matters = {}
      /\ x.tx.role \in ReviewerRoles \cup {NoRole}
      /\ x.tx.locked \subseteq MembersIn(M, k)
      /\ Stage(x) = "decide" => MemberClaims(k, x.tx.locked) \subseteq Claimed(x, H)
      /\ Stage(x) \notin Settled => x.tx.member = NoRows
      /\ Stage(x) \in Settled =>
           /\ x.call.by \in x.tx.locked /\ MemberClaims(k, x.tx.locked) \subseteq H
           /\ v \in DOMAIN M.account
           /\ \E row \in AccountRow : x.tx.member = Only(<<k, v>>, row) /\ Counted(x, M, row)
           /\ v \notin x.tx.locked => Exclusive(PlaceLock(k, v)) \in Claimed(x, H)
           /\ v \notin x.tx.locked /\ Stage(x) # "insert" =>
                Exclusive(PlaceLock(k, v)) \in H /\ <<k, v>> \notin DOMAIN M.member
      /\ Auditing(x, H, M)

\* Another effective Senior takes over matter k from the one who is suspended.
Replaced(x, H, M, k) ==
  /\ Exclusive(MemberLock(k, x.call.target)) \in H
  /\ \E u \in x.tx.seniors \ {x.call.target} : Effective(M, k, u)

Ruled == {"members", "replacement", "write"} \cup Audited

Ruling(x, H, M) ==
  LET v == x.call.target
  IN  /\ Stage(x) \in {"seniors", "authority", "account"} \cup Ruled
      /\ x.call.op = "suspend" => v # x.call.by
      /\ x.tx.member = NoRows /\ x.tx.matters = {}
      /\ x.tx.affected \in Seq(Matters)
      /\ Stage(x) # "seniors" =>
           /\ \A u \in x.tx.seniors : SeniorRole(M, u)
           /\ AccountClaims(x.tx.seniors) \subseteq Claimed(x, H)
      /\ Stage(x) \in {"account"} \cup Ruled =>
           /\ x.call.by \in x.tx.seniors /\ M.account[x.call.by].active
           /\ AccountClaims(x.tx.seniors) \subseteq H
           /\ v \in DOMAIN M.account
           /\ Exclusive(AccountLock(v)) \in Claimed(x, H)
      /\ Stage(x) \in Ruled =>
           /\ Exclusive(AccountLock(v)) \in H
           /\ x.call.op = "suspend" =>
                \A k \in M.matters : Effective(M, k, v) =>
                  \/ k \in Listed(x.tx.affected)
                  \/ Replaced(x, H, M, k)
                  \/ Overlooked(x, M, k)
      /\ Stage(x) \in {"members", "replacement"} => x.tx.affected # <<>>
      /\ Stage(x) \in {"write"} \cup Audited => x.tx.affected = <<>>
      /\ Stage(x) = "replacement" =>
           LET k == Head(x.tx.affected)
           IN  /\ MemberClaims(k, x.tx.locked) \subseteq Claimed(x, H)
               /\ \/ x.tx.locked = {}
                  \/ v \in x.tx.locked
                  \/ ~Effective(M, k, v)
                  \/ Overlooked(x, M, k)
      /\ x.tx.account = IF Stage(x) \in Audited
                        THEN Only(v, [M.account[v] EXCEPT !.active = (x.call.op = "reinstate")])
                        ELSE NoRows
      /\ Auditing(x, H, M)

Provisioning(x, H, M) ==
  LET v == x.call.target
  IN  /\ Stage(x) \in {"provision", "named"} \cup Audited
      /\ x.tx.member = NoRows /\ x.tx.matters = {}
      /\ Stage(x) = "named" => Exclusive(NameLock(v)) \in Claimed(x, H)
      /\ Stage(x) \in Audited => Exclusive(NameLock(v)) \in H /\ v \notin DOMAIN M.account
      /\ x.tx.account = IF Stage(x) \in Audited
                        THEN Only(v, [role |-> x.call.role, active |-> TRUE])
                        ELSE NoRows
      /\ Auditing(x, H, M)

Founding(x, H, M) ==
  LET v == x.call.by
  IN  /\ Stage(x) \in {"open", "commit"}
      /\ x.tx.account = NoRows /\ x.tx.log = <<>>
      /\ Stage(x) = "open" => x.tx.member = NoRows /\ x.tx.matters = {}
      /\ Stage(x) = "commit" =>
           /\ \E k \in Matters \ M.matters :
                x.tx.matters = {k} /\ x.tx.member = Only(<<k, v>>, SeniorRow)
           /\ v \in DOMAIN M.account
           /\ Shared(AccountLock(v)) \in Claimed(x, H)

Restoring(x, H, M) ==
  LET k == x.call.matter
      v == x.call.target
  IN  /\ Stage(x) \in {"restore", "examine", "insert", "commit"}
      /\ k \in M.matters /\ <<k, v>> \in M.restored
      /\ x.tx.account = NoRows /\ x.tx.matters = {} /\ x.tx.log = <<>>
      /\ Stage(x) \in {"restore", "examine"} => x.tx.member = NoRows
      /\ Stage(x) \in {"insert", "commit"} =>
           /\ v \in DOMAIN M.account
           /\ x.tx.member = Only(<<k, v>>, SeniorRow)
      /\ Stage(x) = "insert" => Exclusive(PlaceLock(k, v)) \in Claimed(x, H)
      /\ Stage(x) = "commit" =>
           \/ /\ Exclusive(MemberLock(k, v)) \in Claimed(x, H)
              /\ <<k, v>> \in DOMAIN M.member
           \/ /\ Exclusive(PlaceLock(k, v)) \in H
              /\ <<k, v>> \notin DOMAIN M.member
              /\ Shared(AccountLock(v)) \in Claimed(x, H)

Local(x, H, M) ==
  /\ x.at \in {"idle", "done"} => x.tx = NoChanges
  /\ x.at # "done" => x.reply = "none"
  /\ x.at = "lock" => x.tx.todo \in Seq(Listed(x.tx.todo)) /\ x.tx.todo # <<>>
  /\ x.at \notin {"idle", "done"} =>
       /\ x.call \in CallRecords
       /\ x.call.op \in {"set", "remove"}        => Changing(x, H, M)
       /\ x.call.op \in {"suspend", "reinstate"} => Ruling(x, H, M)
       /\ x.call.op = "provision"                => Provisioning(x, H, M)
       /\ x.call.op = "open"                     => Founding(x, H, M)
       /\ x.call.op = "restore"                  => Restoring(x, H, M)

-----------------------------------------------------------------------------
(***************************************************************************)
(* The invariant.                                                          *)
(***************************************************************************)

Orderly == \A r \in Requests : Local(req[r], held[r], Rows)

\* A record is a function on its fields, a table one on its identifiers.
HasFields(x, names) == DOMAIN x = names /\ x = [f \in names |-> x[f]]
IsTable(f) == f = [id \in DOMAIN f |-> f[id]]

IsRequest(x) ==
  /\ HasFields(x, {"at", "call", "tx", "reply"})
  /\ HasFields(x.tx, {"todo", "then", "locked", "seniors", "affected", "role", "account",
                      "matters", "member", "log"})

Shaped ==
  /\ req = [r \in Requests |-> req[r]]
  /\ held = [r \in Requests |-> held[r]]
  /\ \A r \in Requests : IsRequest(req[r]) /\ (req[r].at = "idle" => req[r] = Idle)

RowsTyped(M) ==
  /\ M.secured \in Deployments
  /\ DOMAIN M.account \subseteq Reviewers /\ IsTable(M.account)
  /\ \A v \in DOMAIN M.account : M.account[v] \in AccountRow
  /\ M.matters \subseteq Matters
  /\ DOMAIN M.member \subseteq M.matters \X DOMAIN M.account /\ IsTable(M.member)
  /\ \A m \in DOMAIN M.member : M.member[m] \in AccountRow

Apart(G, H) == \A a \in G, b \in H : ~Conflicting(a, b)

LocksExclusive == \A q, r \in Requests : q # r => Apart(held[q], held[r])

\* No two requests open one matter.
MattersApart == \A q, r \in Requests : q # r => Tx(q).matters \cap Tx(r).matters = {}

\* Of two changes of a matter's memberships, one has locked all that the other has.
Changes(x, k) == x.call.op \in {"set", "remove"} /\ x.call.matter = k
Nested ==
  \A k \in Matters : \A q, r \in Requests : Changes(req[q], k) /\ Changes(req[r], k) =>
    Tx(q).locked \subseteq Tx(r).locked \/ Tx(r).locked \subseteq Tx(q).locked

Chained == log \in Seq([prev : Nat]) /\ AccountChainNeverForks

IInv ==
  /\ Shaped /\ RowsTyped(Rows) /\ Orderly /\ LocksExclusive /\ MattersApart /\ Nested
  /\ Chained /\ AnAccountRemains


-----------------------------------------------------------------------------
(***************************************************************************)
(* ORDER BY: a finite set of numbers has a sequence in order, and the      *)
(* sequence has all of it.                                                 *)
(***************************************************************************)

\* How many of S are no greater than x.
Rank(S, x) == Cardinality({y \in S : y <= x})

\* Greater members of a set have greater ranks (SELECT ... ORDER BY).
LEMMA RankGrows ==
  ASSUME NEW S, S \subseteq Nat, IsFiniteSet(S), NEW x \in S, NEW y \in S, x < y
  PROVE  Rank(S, x) < Rank(S, y)
<1> DEFINE A == {z \in S : z <= x}
<1> DEFINE B == {z \in S : z <= y}
<1>1. x \in Nat /\ y \in Nat
  OBVIOUS
<1>2. A \in SUBSET B /\ B \in SUBSET S
  <2>1. ASSUME NEW z \in A PROVE z \in B
    BY <1>1, <2>1
  <2> QED
    BY <2>1
<1>3. y \in B /\ y \notin A
  BY <1>1
<1>4. IsFiniteSet(B)
  BY ONLY <1>2, FS_Subset, IsFiniteSet(S)
<1>5. Cardinality(A) <= Cardinality(B) /\ Cardinality(A) # Cardinality(B)
  <2> HIDE DEF A, B
  <2>1. Cardinality(A) <= Cardinality(B) /\ (Cardinality(B) = Cardinality(A) => B = A)
    BY ONLY <1>2, <1>4, FS_Subset
  <2> QED
    BY ONLY <2>1, <1>3
<1>6. Cardinality(A) \in Nat /\ Cardinality(B) \in Nat
  <2> HIDE DEF A, B
  <2> QED
    BY ONLY <1>2, <1>4, FS_Subset, FS_CardinalityType
<1>7. Rank(S, x) = Cardinality(A) /\ Rank(S, y) = Cardinality(B)
  BY DEF Rank
<1> HIDE DEF A, B
<1> QED
  BY ONLY <1>5, <1>6, <1>7

\* The ranks of a set are the numbers up to its cardinality (SELECT ... ORDER BY).
LEMMA RanksFill ==
  ASSUME NEW S, S \subseteq Nat, IsFiniteSet(S)
  PROVE  /\ \A x \in S : Rank(S, x) \in 1 .. Cardinality(S)
         /\ \A i \in 1 .. Cardinality(S) : \E x \in S : Rank(S, x) = i
<1> DEFINE n == Cardinality(S)
<1> DEFINE f == [x \in S |-> Rank(S, x)]
<1>0. n \in Nat
  BY FS_CardinalityType
<1>1. ASSUME NEW x \in S
      PROVE  Rank(S, x) \in 1 .. n
  <2> DEFINE A == {y \in S : y <= x}
  <2>0. x \in Nat
    OBVIOUS
  <2>1. A \in SUBSET S /\ x \in A
    BY <2>0
  <2>2. Rank(S, x) = Cardinality(A)
    BY DEF Rank
  <2> HIDE DEF A
  <2>3. IsFiniteSet(A) /\ Cardinality(A) <= n
    BY <2>1, FS_Subset
  <2>4. Cardinality(A) \in Nat /\ Cardinality(A) # 0
    BY ONLY <2>1, <2>3, FS_CardinalityType, FS_EmptySet
  <2> HIDE DEF n
  <2> QED
    BY ONLY <1>0, <2>2, <2>3, <2>4
<1>2. ASSUME NEW x \in S, NEW y \in S, Rank(S, x) = Rank(S, y)
      PROVE  x = y
  <2>1. x \in Nat /\ y \in Nat
    OBVIOUS
  <2>2. Rank(S, x) \in Nat /\ Rank(S, y) \in Nat
    <3> HIDE DEF n
    <3> QED
      BY ONLY <1>1, <1>0
  <2>3. ~ (x < y) /\ ~ (y < x)
    <3>1. x < y => Rank(S, x) < Rank(S, y)
      BY RankGrows, Zenon
    <3>2. y < x => Rank(S, y) < Rank(S, x)
      BY RankGrows, Zenon
    <3> QED
      BY ONLY <3>1, <3>2, <1>2, <2>2
  <2> QED
    BY ONLY <2>1, <2>3
<1>3. f \in Injection(S, 1 .. n)
  <2> HIDE DEF n
  <2> QED
    BY <1>1, <1>2 DEF Injection, IsInjective
<1>4. IsFiniteSet(1 .. n) /\ Cardinality(1 .. n) = n
  <2> HIDE DEF n
  <2> QED
    BY ONLY <1>0, FS_Interval
<1>5. f \in Surjection(S, 1 .. n)
  <2> HIDE DEF f
  <2> QED
    BY ONLY <1>3, <1>4, FS_Injection
<1>6. ASSUME NEW i \in 1 .. n
      PROVE  \E x \in S : Rank(S, x) = i
  <2>1. \E x \in S : f[x] = i
    <3> HIDE DEF f, n
    <3> QED
      BY <1>5 DEF Surjection
  <2> QED
    BY <2>1
<1> QED
  BY <1>1, <1>6

\* The sequence ORDER BY makes of a finite set of numbers: it is in order and has
\* every member of the set (SELECT ... ORDER BY).
LEMMA InOrderOrders ==
  ASSUME NEW S, S \subseteq Nat, IsFiniteSet(S)
  PROVE  /\ InOrder(S) \in [1 .. Cardinality(S) -> S]
         /\ Listed(InOrder(S)) = S
         /\ \A i, j \in 1 .. Cardinality(S) : i < j => InOrder(S)[i] < InOrder(S)[j]
<1> DEFINE n == Cardinality(S)
<1> DEFINE Sorted(s) == \A i, j \in 1 .. n : i < j => s[i] < s[j]
<1> DEFINE s0 == [i \in 1 .. n |-> CHOOSE x \in S : Rank(S, x) = i]
<1>0. n \in Nat
  BY FS_CardinalityType
<1>1. \A i \in 1 .. n : s0[i] \in S /\ Rank(S, s0[i]) = i
  <2> HIDE DEF n
  <2> QED
    BY RanksFill DEF n
<1>2. s0 \in [1 .. n -> S]
  <2> HIDE DEF n
  <2> QED
    BY <1>1
<1> HIDE DEF s0
<1>3. Sorted(s0)
  <2> SUFFICES ASSUME NEW i \in 1 .. n, NEW j \in 1 .. n, i < j, ~ (s0[i] < s0[j])
               PROVE  FALSE
    OBVIOUS
  <2> HIDE DEF n
  <2>0. s0[i] \in S /\ s0[j] \in S /\ s0[i] \in Nat /\ s0[j] \in Nat
    BY <1>1
  <2>1. s0[j] < s0[i] \/ s0[j] = s0[i]
    BY <2>0
  <2>2. CASE s0[j] < s0[i]
    <3>1. Rank(S, s0[j]) < Rank(S, s0[i])
      BY ONLY <2>0, <2>2, RankGrows, S \subseteq Nat, IsFiniteSet(S)
    <3>2. j < i
      BY ONLY <3>1, <1>1, i \in 1 .. n, j \in 1 .. n
    <3> QED
      BY ONLY <3>2, <1>0, i < j, i \in 1 .. n, j \in 1 .. n
  <2>3. CASE s0[j] = s0[i]
    <3>1. i = j
      BY ONLY <2>3, <1>1, i \in 1 .. n, j \in 1 .. n
    <3> QED
      BY ONLY <3>1, <1>0, i < j, i \in 1 .. n, j \in 1 .. n
  <2> QED
    BY <2>1, <2>2, <2>3
<1> DEFINE t == InOrder(S)
<1>4. t \in [1 .. n -> S] /\ Sorted(t)
  <2>1. t = CHOOSE s \in [1 .. n -> S] : Sorted(s)
    BY DEF InOrder
  <2> HIDE DEF t, Sorted, n
  <2> QED
    BY <1>2, <1>3, <2>1
<1> HIDE DEF t
<1>5. t \in Injection(1 .. n, S)
  <2> SUFFICES ASSUME NEW i \in 1 .. n, NEW j \in 1 .. n, t[i] = t[j]
               PROVE  i = j
    BY <1>4 DEF Injection, IsInjective
  <2> HIDE DEF n
  <2>1. i \in Nat /\ j \in Nat /\ t[i] \in Nat /\ t[j] \in Nat
    <3>1. t[i] \in S /\ t[j] \in S
      BY ONLY <1>4, i \in 1 .. n, j \in 1 .. n
    <3>2. i \in Nat /\ j \in Nat
      BY ONLY <1>0, i \in 1 .. n, j \in 1 .. n
    <3> QED
      BY <3>1, <3>2
  <2>2. ~ (i < j) /\ ~ (j < i)
    BY <1>4, <2>1
  <2> QED
    BY ONLY <2>1, <2>2
<1>6. t \in Surjection(1 .. n, S)
  <2>1. Cardinality(1 .. n) = n
    <3> HIDE DEF n
    <3> QED
      BY ONLY <1>0, FS_Interval
  <2> QED
    BY ONLY <1>5, <2>1, FS_Injection, IsFiniteSet(S)
<1>7. Listed(t) = S
  <2>1. DOMAIN t = 1 .. n
    BY <1>4
  <2> HIDE DEF n
  <2> QED
    BY <1>4, <1>6, <2>1 DEF Surjection, Listed
<1> QED
  BY <1>4, <1>7 DEF t

-----------------------------------------------------------------------------
(***************************************************************************)
(* The locks of a statement.                                               *)
(***************************************************************************)

\* The locks of a short list (_get_or_404_for_update takes one).
LEMMA ListedFew ==
  /\ Listed(<<>>) = {} /\ <<>> \in Seq(Listed(<<>>))
  /\ \A a : Listed(<<a>>) = {a} /\ <<a>> \in Seq(Listed(<<a>>)) /\ <<a>> # <<>>
  /\ \A a, b : /\ Listed(<<a, b>>) = {a, b} /\ <<a, b>> \in Seq(Listed(<<a, b>>))
               /\ <<a, b>> # <<>>
<1>1. Listed(<<>>) = {}
  BY DEF Listed
<1>2. ASSUME NEW a PROVE Listed(<<a>>) = {a}
  <2>1. DOMAIN <<a>> = {1}
    OBVIOUS
  <2> QED
    BY <2>1 DEF Listed
<1>3. ASSUME NEW a, NEW b PROVE Listed(<<a, b>>) = {a, b}
  <2>1. DOMAIN <<a, b>> = {1, 2}
    OBVIOUS
  <2> QED
    BY <2>1 DEF Listed
<1>4. \A a : <<a>> \in Seq({a}) /\ <<a>> # <<>>
  OBVIOUS
<1>5. \A a, b : <<a, b>> \in Seq({a, b}) /\ <<a, b>> # <<>>
  OBVIOUS
<1> QED
  BY <1>1, <1>2, <1>3, <1>4, <1>5

\* A list of locks, one for each place of a list of rows.
LEMMA ListedEach ==
  ASSUME NEW S, S \subseteq Nat, IsFiniteSet(S), NEW k
  PROVE  /\ Listed(MemberLocks(k, S)) = MemberClaims(k, S)
         /\ MemberLocks(k, S) \in Seq(Listed(MemberLocks(k, S)))
         /\ Listed(AccountLocks(S)) = AccountClaims(S)
         /\ AccountLocks(S) \in Seq(Listed(AccountLocks(S)))
<1> DEFINE n == Cardinality(S)
<1> DEFINE s == InOrder(S)
<1>0. n \in Nat /\ s \in [1 .. n -> S] /\ Listed(s) = S
  BY InOrderOrders, FS_CardinalityType
<1>1. /\ MemberLocks(k, S) = [i \in 1 .. n |-> Exclusive(MemberLock(k, s[i]))]
      /\ AccountLocks(S) = [i \in 1 .. n |-> Exclusive(AccountLock(s[i]))]
  BY DEF MemberLocks, AccountLocks
<1> HIDE DEF n, s
<1>2. S = {s[i] : i \in 1 .. n}
  BY <1>0 DEF Listed
<1>3. Listed(MemberLocks(k, S)) = MemberClaims(k, S)
  <2>1. Listed(MemberLocks(k, S)) = {Exclusive(MemberLock(k, s[i])) : i \in 1 .. n}
    BY <1>1 DEF Listed
  <2> QED
    BY <2>1, <1>2 DEF MemberClaims
<1>4. Listed(AccountLocks(S)) = AccountClaims(S)
  <2>1. Listed(AccountLocks(S)) = {Exclusive(AccountLock(s[i])) : i \in 1 .. n}
    BY <1>1 DEF Listed
  <2> QED
    BY <2>1, <1>2 DEF AccountClaims
<1>5. MemberLocks(k, S) \in [1 .. n -> MemberClaims(k, S)]
  BY <1>0, <1>1 DEF MemberClaims
<1>6. AccountLocks(S) \in [1 .. n -> AccountClaims(S)]
  BY <1>0, <1>1 DEF AccountClaims
<1> QED
  BY <1>0, <1>3, <1>4, <1>5, <1>6, SeqDef

\* The first lock of a list, and the others.
LEMMA LocksTaken ==
  ASSUME NEW todo, todo \in Seq(Listed(todo)), todo # <<>>
  PROVE  /\ Listed(todo) = {Head(todo)} \cup Listed(Tail(todo))
         /\ Tail(todo) \in Seq(Listed(Tail(todo)))
<1> DEFINE S == Listed(todo)
<1> DEFINE n == Len(todo)
<1> DEFINE t == Tail(todo)
<1>0. todo \in Seq(S)
  OBVIOUS
<1>1. S = {todo[i] : i \in DOMAIN todo}
  BY DEF Listed
<1> HIDE DEF S
<1>2. /\ n \in Nat \ {0} /\ DOMAIN todo = 1 .. n /\ Head(todo) = todo[1]
      /\ t \in Seq(S) /\ Len(t) = n - 1 /\ DOMAIN t = 1 .. (n - 1)
      /\ \A i \in 1 .. (n - 1) : t[i] = todo[i + 1]
  <2>1. n \in Nat /\ DOMAIN todo = 1 .. n /\ n # 0
    BY <1>0, EmptySeq, LenProperties
  <2>2. Head(todo) = todo[1]
    BY <1>0
  <2>3. t \in Seq(S) /\ Len(t) = n - 1 /\ \A i \in 1 .. Len(t) : t[i] = todo[i + 1]
    BY <1>0, HeadTailProperties
  <2>4. DOMAIN t = 1 .. Len(t)
    BY <2>3, LenProperties
  <2> QED
    BY <2>1, <2>2, <2>3, <2>4
<1> HIDE DEF t, n
<1>3. Listed(t) = {t[i] : i \in 1 .. (n - 1)}
  BY <1>2 DEF Listed
<1>4. S = {Head(todo)} \cup Listed(t)
  <2>1. ASSUME NEW i \in 1 .. n PROVE todo[i] \in {Head(todo)} \cup Listed(t)
    <3>1. CASE i = 1
      BY <3>1, <1>2
    <3>2. CASE i # 1
      <4>1. i - 1 \in 1 .. (n - 1) /\ (i - 1) + 1 = i
        BY <3>2, <1>2
      <4> QED
        BY <4>1, <1>2, <1>3
    <3> QED
      BY <3>1, <3>2
  <2>2. ASSUME NEW i \in 1 .. (n - 1) PROVE t[i] \in S
    <3>1. i + 1 \in 1 .. n
      BY <1>2
    <3> QED
      BY <3>1, <1>1, <1>2
  <2>3. Head(todo) \in S
    BY <1>1, <1>2
  <2> QED
    BY <2>1, <2>2, <2>3, <1>1, <1>2, <1>3
<1>5. t \in [1 .. (n - 1) -> Listed(t)]
  <2>1. t = [i \in 1 .. (n - 1) |-> t[i]]
    BY <1>2
  <2> QED
    BY <2>1, <1>3
<1>6. n - 1 \in Nat
  BY <1>2
<1>7. t \in Seq(Listed(t))
  BY ONLY <1>5, <1>6, SeqDef
<1> QED
  BY <1>4, <1>7 DEF S, t

-----------------------------------------------------------------------------
(***************************************************************************)
(* The steps of a request.                                                 *)
(***************************************************************************)

TxFields == {"todo", "then", "locked", "seniors", "affected", "role", "account", "matters",
             "member", "log"}

\* x becomes y: it gets to a stage with what tx says, and claims the locks L.
Reaches(x, y, H, tx, stage, L) ==
  /\ y.call = x.call /\ y.reply = x.reply
  /\ y.at \notin {"idle", "done"}
  /\ y.at = "lock" => y.tx.todo \in Seq(Listed(y.tx.todo)) /\ y.tx.todo # <<>>
  /\ Stage(y) = stage /\ Claimed(y, H) = H \cup L
  /\ y.tx.locked = tx.locked /\ y.tx.seniors = tx.seniors /\ y.tx.affected = tx.affected
  /\ y.tx.role = tx.role /\ y.tx.account = tx.account /\ y.tx.matters = tx.matters
  /\ y.tx.member = tx.member /\ y.tx.log = tx.log

\* Proceed: x goes on at a label.
LEMMA Proceeded ==
  ASSUME NEW x, NEW y, NEW H, NEW tx, NEW label,
         IsRequest(x), HasFields(tx, TxFields), label \notin {"idle", "done", "lock"},
         y = [x EXCEPT !.at = label, !.tx = tx]
  PROVE  IsRequest(y) /\ Reaches(x, y, H, tx, label, {})
<1>1. IsRequest(y) /\ y.at = label /\ y.tx = tx /\ y.call = x.call /\ y.reply = x.reply
  BY DEF IsRequest, HasFields, TxFields
<1> QED
  BY <1>1 DEF Reaches, Stage, Claimed

\* Acquire: x goes on at a label once it has some locks.
LEMMA Acquired ==
  ASSUME NEW x, NEW y, NEW H, NEW tx, NEW todo, NEW label,
         IsRequest(x), HasFields(tx, TxFields), label \notin {"idle", "done", "lock"},
         todo \in Seq(Listed(todo)),
         y = [x EXCEPT !.at = IF todo = <<>> THEN label ELSE "lock",
                       !.tx = [tx EXCEPT !.todo = todo, !.then = label]]
  PROVE  IsRequest(y) /\ Reaches(x, y, H, tx, label, Listed(todo))
<1> DEFINE t == [tx EXCEPT !.todo = todo, !.then = label]
<1>1. /\ HasFields(t, TxFields) /\ t.todo = todo /\ t.then = label
      /\ t.locked = tx.locked /\ t.seniors = tx.seniors /\ t.affected = tx.affected
      /\ t.role = tx.role /\ t.account = tx.account /\ t.matters = tx.matters
      /\ t.member = tx.member /\ t.log = tx.log
  BY DEF HasFields, TxFields
<1> HIDE DEF t
<1>2. /\ IsRequest(y) /\ y.at = (IF todo = <<>> THEN label ELSE "lock") /\ y.tx = t
      /\ y.call = x.call /\ y.reply = x.reply
  BY <1>1 DEF IsRequest, HasFields, TxFields, t
<1>3. Stage(y) = label
  BY <1>1, <1>2 DEF Stage
<1>4. Claimed(y, H) = H \cup Listed(todo)
  BY <1>1, <1>2, ListedFew DEF Claimed
<1> QED
  BY <1>1, <1>2, <1>3, <1>4 DEF Reaches

\* x has become y, with more locks and no further.
Holds(x, y, H, G) ==
  /\ y.call = x.call /\ y.reply = x.reply
  /\ H \subseteq G /\ Stage(y) = Stage(x) /\ Claimed(y, G) = Claimed(x, H)
  /\ y.tx.locked = x.tx.locked /\ y.tx.seniors = x.tx.seniors
  /\ y.tx.affected = x.tx.affected /\ y.tx.role = x.tx.role
  /\ y.tx.account = x.tx.account /\ y.tx.matters = x.tx.matters
  /\ y.tx.member = x.tx.member /\ y.tx.log = x.tx.log

\* More locks do not take away what a request relies on.
LEMMA HoldsKeeps ==
  ASSUME NEW x, NEW y, NEW H, NEW G, NEW M, Holds(x, y, H, G)
  PROVE  /\ Changing(x, H, M) => Changing(y, G, M)
         /\ Ruling(x, H, M) => Ruling(y, G, M)
         /\ Provisioning(x, H, M) => Provisioning(y, G, M)
         /\ Founding(x, H, M) => Founding(y, G, M)
         /\ Restoring(x, H, M) => Restoring(y, G, M)
<1>1. Auditing(x, H, M) => Auditing(y, G, M)
  BY DEF Holds, Auditing
<1>2. \A row : Counted(x, M, row) => Counted(y, M, row)
  BY DEF Holds, Counted
<1>3. Changing(x, H, M) => Changing(y, G, M)
  BY <1>1, <1>2 DEF Holds, Changing
<1>4. Ruling(x, H, M) => Ruling(y, G, M)
  <2>1. \A k : Replaced(x, H, M, k) => Replaced(y, G, M, k)
    BY DEF Holds, Replaced
  <2>2. \A k : Overlooked(x, M, k) => Overlooked(y, M, k)
    BY DEF Holds, Overlooked
  <2> QED
    BY <1>1, <2>1, <2>2 DEF Holds, Ruling
<1>5. Provisioning(x, H, M) => Provisioning(y, G, M)
  BY <1>1 DEF Holds, Provisioning
<1>6. Founding(x, H, M) => Founding(y, G, M)
  BY DEF Holds, Founding
<1>7. Restoring(x, H, M) => Restoring(y, G, M)
  BY DEF Holds, Restoring
<1> QED
  BY <1>3, <1>4, <1>5, <1>6, <1>7

\* What the operation of a request says of it.
Working(x, H, M) ==
  /\ x.call \in CallRecords
  /\ x.call.op \in {"set", "remove"}        => Changing(x, H, M)
  /\ x.call.op \in {"suspend", "reinstate"} => Ruling(x, H, M)
  /\ x.call.op = "provision"                => Provisioning(x, H, M)
  /\ x.call.op = "open"                     => Founding(x, H, M)
  /\ x.call.op = "restore"                  => Restoring(x, H, M)

\* The request before it arrives, at work, and when it is over.
LEMMA LocalOf ==
  ASSUME NEW x, NEW H, NEW M
  PROVE  Local(x, H, M) <=>
           /\ x.at \in {"idle", "done"} => x.tx = NoChanges
           /\ x.at # "done" => x.reply = "none"
           /\ x.at = "lock" => x.tx.todo \in Seq(Listed(x.tx.todo)) /\ x.tx.todo # <<>>
           /\ x.at \notin {"idle", "done"} => Working(x, H, M)
BY DEF Local, Working

\* The operations.
Operations == {"set", "remove", "suspend", "reinstate", "provision", "open", "restore"}

\* A call names whom and what its operation takes (the administration endpoints).
LEMMA CallFields ==
  ASSUME NEW c \in CallRecords
  PROVE  /\ c.op \in Operations
         /\ c.op # "restore" => c.by \in Reviewers
         /\ c.op # "open" => c.target \in Reviewers
         /\ c.op \in {"set", "remove", "restore"} => c.matter \in Matters
         /\ c.op = "set" => c.role \in ReviewerRoles \cup {NoRole}
         /\ c.op = "provision" => c.role \in ReviewerRoles
BY DEF CallRecords, Operations

\* No stage is called "lock": it is what a request gets to.
LEMMA StagesNamed ==
  ASSUME NEW x, NEW H, NEW M, Working(x, H, M)
  PROVE  Stage(x) \notin {"lock", "idle", "done"}
<1>1. x.call.op \in Operations
  BY CallFields DEF Working
<1>2. CASE x.call.op \in {"set", "remove"}
  BY <1>2 DEF Working, Changing, Settled
<1>3. CASE x.call.op \in {"suspend", "reinstate"}
  BY <1>3 DEF Working, Ruling, Ruled, Audited
<1>4. CASE x.call.op = "provision"
  BY <1>4 DEF Working, Provisioning, Audited
<1>5. CASE x.call.op = "open"
  BY <1>5 DEF Working, Founding
<1>6. CASE x.call.op = "restore"
  BY <1>6 DEF Working, Restoring
<1> QED
  BY <1>1, <1>2, <1>3, <1>4, <1>5, <1>6 DEF Operations

\* TakeLock: a request gets the first of the locks it waits for.
LEMMA TookLock ==
  ASSUME NEW x, NEW y, NEW H, NEW M, IsRequest(x), Local(x, H, M), x.at = "lock",
         y = [x EXCEPT !.tx.todo = Tail(x.tx.todo),
                       !.at = IF Tail(x.tx.todo) = <<>> THEN x.tx.then ELSE "lock"]
  PROVE  IsRequest(y) /\ Local(y, H \cup {Head(x.tx.todo)}, M)
<1> DEFINE G == H \cup {Head(x.tx.todo)}
<1>1. /\ IsRequest(y) /\ y.tx.todo = Tail(x.tx.todo) /\ y.tx.then = x.tx.then
      /\ y.at = (IF Tail(x.tx.todo) = <<>> THEN x.tx.then ELSE "lock")
      /\ y.call = x.call /\ y.reply = x.reply
      /\ y.tx.locked = x.tx.locked /\ y.tx.seniors = x.tx.seniors
      /\ y.tx.affected = x.tx.affected /\ y.tx.role = x.tx.role
      /\ y.tx.account = x.tx.account /\ y.tx.matters = x.tx.matters
      /\ y.tx.member = x.tx.member /\ y.tx.log = x.tx.log
  BY DEF IsRequest, HasFields
<1>2. /\ x.tx.todo \in Seq(Listed(x.tx.todo)) /\ x.tx.todo # <<>>
      /\ Working(x, H, M) /\ x.reply = "none"
  BY LocalOf
<1>3. Stage(x) = x.tx.then /\ x.tx.then \notin {"lock", "idle", "done"}
  BY <1>2, StagesNamed DEF Stage
<1>4. /\ Listed(x.tx.todo) = {Head(x.tx.todo)} \cup Listed(y.tx.todo)
      /\ y.tx.todo \in Seq(Listed(y.tx.todo))
  <2>1. /\ Listed(x.tx.todo) = {Head(x.tx.todo)} \cup Listed(Tail(x.tx.todo))
        /\ Tail(x.tx.todo) \in Seq(Listed(Tail(x.tx.todo)))
    BY <1>2, LocksTaken, Zenon
  <2> QED
    BY ONLY <2>1, <1>1
<1>5. Claimed(y, G) = Claimed(x, H)
  <2>1. Claimed(x, H) = H \cup Listed(x.tx.todo)
    BY DEF Claimed
  <2>2. CASE y.tx.todo = <<>>
    <3>1. Listed(y.tx.todo) = {} /\ y.at # "lock"
      BY <2>2, <1>1, <1>3, ListedFew
    <3>2. Claimed(y, G) = G
      BY <3>1 DEF Claimed
    <3> QED
      BY <2>1, <3>1, <3>2, <1>4
  <2>3. CASE y.tx.todo # <<>>
    <3>1. y.at = "lock"
      BY <2>3, <1>1
    <3>2. Claimed(y, G) = G \cup Listed(y.tx.todo)
      BY <3>1 DEF Claimed
    <3> QED
      BY <2>1, <3>2, <1>4
  <2> QED
    BY <2>2, <2>3
<1>6. Stage(y) = Stage(x)
  BY <1>1, <1>3 DEF Stage
<1>7. Holds(x, y, H, G)
  BY <1>1, <1>5, <1>6 DEF Holds
<1>8. Working(y, G, M)
  <2>1. /\ Changing(x, H, M) => Changing(y, G, M)
        /\ Ruling(x, H, M) => Ruling(y, G, M)
        /\ Provisioning(x, H, M) => Provisioning(y, G, M)
        /\ Founding(x, H, M) => Founding(y, G, M)
        /\ Restoring(x, H, M) => Restoring(y, G, M)
    <3> HIDE DEF G
    <3> QED
      BY ONLY <1>7, HoldsKeeps
  <2>2. Working(x, H, M) /\ y.call = x.call
    BY <1>1, <1>2
  <2> QED
    BY ONLY <2>1, <2>2 DEF Working
<1>9. y.at \notin {"idle", "done"}
  BY <1>1, <1>3
<1>10. y.at = "lock" => y.tx.todo # <<>>
  BY <1>1, <1>3
<1> QED
  BY <1>1, <1>2, <1>4, <1>8, <1>9, <1>10, LocalOf

-----------------------------------------------------------------------------
(***************************************************************************)
(* The steps of a change of membership.                                    *)
(***************************************************************************)

\* A request that waits for no lock is at its stage, and has what it claims.
LEMMA AtStage ==
  ASSUME NEW x, NEW H, x.at # "lock"
  PROVE  Stage(x) = x.at /\ Claimed(x, H) = H
BY DEF Stage, Claimed

\* set_case_member_admin has found the matter's memberships (FindMembers).
LEMMA ChangeFoundMembers ==
  ASSUME NEW x, NEW y, NEW H, NEW M, NEW seen, IsRequest(x), x.at = "members",
         Changing(x, H, M), seen \subseteq MembersIn(M, x.call.matter),
         Reaches(x, y, H, [x.tx EXCEPT !.locked = seen], "decide",
                 MemberClaims(x.call.matter, seen))
  PROVE  Changing(y, H, M)
<1>1. Stage(x) = "members" /\ Claimed(x, H) = H
  BY AtStage
<1>2. /\ y.call = x.call /\ Stage(y) = "decide" /\ Claimed(y, H) = H \cup MemberClaims(x.call.matter, seen)
      /\ y.tx.locked = seen /\ y.tx.affected = x.tx.affected /\ y.tx.role = x.tx.role
      /\ y.tx.account = x.tx.account /\ y.tx.matters = x.tx.matters
      /\ y.tx.member = x.tx.member /\ y.tx.log = x.tx.log
  BY DEF Reaches, IsRequest, HasFields
<1>3. Auditing(y, H, M)
  BY <1>1, <1>2 DEF Changing, Auditing
<1> QED
  BY <1>1, <1>2, <1>3 DEF Changing, Settled

\* set_case_member_admin has settled on the membership's new row (DecideMembership).
LEMMA ChangeDecided ==
  ASSUME NEW x, NEW y, NEW H, NEW M, NEW row \in AccountRow, NEW stage, NEW L,
         IsRequest(x), x.at = "decide", Changing(x, H, M),
         x.call.by \in x.tx.locked, x.call.target \in DOMAIN M.account, Counted(x, M, row),
         Reaches(x, y, H,
                 [x.tx EXCEPT !.member = Only(<<x.call.matter, x.call.target>>, row)], stage, L),
         \/ x.call.target \in x.tx.locked /\ stage = "audit"
         \/ /\ x.call.target \notin x.tx.locked /\ stage = "insert"
            /\ Exclusive(PlaceLock(x.call.matter, x.call.target)) \in L
  PROVE  Changing(y, H, M)
<1>1. Stage(x) = "decide" /\ Claimed(x, H) = H
  BY AtStage
<1>2. /\ y.call = x.call /\ Stage(y) = stage /\ Claimed(y, H) = H \cup L
      /\ y.tx.locked = x.tx.locked /\ y.tx.affected = x.tx.affected /\ y.tx.role = x.tx.role
      /\ y.tx.account = x.tx.account /\ y.tx.matters = x.tx.matters
      /\ y.tx.member = Only(<<x.call.matter, x.call.target>>, row) /\ y.tx.log = x.tx.log
  BY DEF Reaches, IsRequest, HasFields
<1>3. Auditing(y, H, M)
  BY <1>1, <1>2 DEF Changing, Auditing
<1>4. Counted(y, M, row)
  BY <1>2 DEF Counted
<1>5. stage \in Settled \ {"commit"}
  BY DEF Settled
<1> QED
  BY <1>1, <1>2, <1>3, <1>4, <1>5 DEF Changing, Settled

\* The membership has its place in the index (InsertMembership).
LEMMA ChangeInserted ==
  ASSUME NEW x, NEW y, NEW H, NEW M, NEW L, IsRequest(x), x.at = "insert", Changing(x, H, M),
         <<x.call.matter, x.call.target>> \notin DOMAIN M.member,
         Reaches(x, y, H, x.tx, "audit", L)
  PROVE  Changing(y, H, M)
<1>1. Stage(x) = "insert" /\ Claimed(x, H) = H
  BY AtStage
<1>2. /\ y.call = x.call /\ Stage(y) = "audit" /\ Claimed(y, H) = H \cup L
      /\ y.tx.locked = x.tx.locked /\ y.tx.affected = x.tx.affected /\ y.tx.role = x.tx.role
      /\ y.tx.account = x.tx.account /\ y.tx.matters = x.tx.matters
      /\ y.tx.member = x.tx.member /\ y.tx.log = x.tx.log
  BY DEF Reaches
<1>3. Auditing(y, H, M)
  BY <1>1, <1>2 DEF Changing, Auditing
<1>4. \A row : Counted(x, M, row) => Counted(y, M, row)
  BY <1>2 DEF Counted
<1> QED
  BY <1>1, <1>2, <1>3, <1>4 DEF Changing, Settled

-----------------------------------------------------------------------------
(***************************************************************************)
(* The audit event.                                                        *)
(***************************************************************************)

\* _append_account_audit has the lock of the chain (LockAccountAudit).
LEMMA AuditLocked ==
  ASSUME NEW x, NEW y, NEW H, NEW M, NEW L, IsRequest(x), x.at = "audit",
         Exclusive(AuditLock) \in L, Reaches(x, y, H, x.tx, "append", L)
  PROVE  /\ Changing(x, H, M) => Changing(y, H, M)
         /\ Ruling(x, H, M) => Ruling(y, H, M)
         /\ Provisioning(x, H, M) => Provisioning(y, H, M)
<1>1. Stage(x) = "audit" /\ Claimed(x, H) = H
  BY AtStage
<1>2. /\ y.call = x.call /\ Stage(y) = "append" /\ Claimed(y, H) = H \cup L
      /\ y.tx.locked = x.tx.locked /\ y.tx.seniors = x.tx.seniors
      /\ y.tx.affected = x.tx.affected /\ y.tx.role = x.tx.role
      /\ y.tx.account = x.tx.account /\ y.tx.matters = x.tx.matters
      /\ y.tx.member = x.tx.member /\ y.tx.log = x.tx.log
  BY DEF Reaches
<1>3. Auditing(x, H, M) => Auditing(y, H, M)
  BY <1>1, <1>2 DEF Auditing
<1>4. \A row : Counted(x, M, row) => Counted(y, M, row)
  BY <1>2 DEF Counted
<1>5. Changing(x, H, M) => Changing(y, H, M)
  BY <1>1, <1>2, <1>3, <1>4 DEF Changing, Settled
<1>6. Ruling(x, H, M) => Ruling(y, H, M)
  <2>1. \A k : Replaced(x, H, M, k) => Replaced(y, H, M, k)
    BY <1>2 DEF Replaced
  <2>2. \A k : Overlooked(x, M, k) => Overlooked(y, M, k)
    BY <1>2 DEF Overlooked
  <2> QED
    BY <1>1, <1>2, <1>3, <2>1, <2>2 DEF Ruling, Ruled, Audited
<1>7. Provisioning(x, H, M) => Provisioning(y, H, M)
  BY <1>1, <1>2, <1>3 DEF Provisioning, Audited
<1> QED
  BY <1>5, <1>6, <1>7

\* _append_account_audit has linked the event to the last one, and waits for the
\* accounts it refers to (AppendAccountAudit).
LEMMA AuditAppended ==
  ASSUME NEW x, NEW y, NEW H, NEW M, NEW L, IsRequest(x), x.at = "append",
         Shared(AccountLock(x.call.by)) \in L, Shared(AccountLock(x.call.target)) \in L,
         Reaches(x, y, H, [x.tx EXCEPT !.log = <<[prev |-> M.logged]>>], "commit", L)
  PROVE  /\ Changing(x, H, M) => Changing(y, H, M)
         /\ Ruling(x, H, M) => Ruling(y, H, M)
         /\ Provisioning(x, H, M) => Provisioning(y, H, M)
<1>1. Stage(x) = "append" /\ Claimed(x, H) = H
  BY AtStage
<1>2. /\ y.call = x.call /\ Stage(y) = "commit" /\ Claimed(y, H) = H \cup L
      /\ y.tx.locked = x.tx.locked /\ y.tx.seniors = x.tx.seniors
      /\ y.tx.affected = x.tx.affected /\ y.tx.role = x.tx.role
      /\ y.tx.account = x.tx.account /\ y.tx.matters = x.tx.matters
      /\ y.tx.member = x.tx.member /\ y.tx.log = <<[prev |-> M.logged]>>
  BY DEF Reaches, IsRequest, HasFields
<1>3. Auditing(x, H, M) => Auditing(y, H, M)
  BY <1>1, <1>2 DEF Auditing
<1>4. \A row : Counted(x, M, row) => Counted(y, M, row)
  BY <1>2 DEF Counted
<1>5. Changing(x, H, M) => Changing(y, H, M)
  BY <1>1, <1>2, <1>3, <1>4 DEF Changing, Settled
<1>6. Ruling(x, H, M) => Ruling(y, H, M)
  <2>1. \A k : Replaced(x, H, M, k) => Replaced(y, H, M, k)
    BY <1>2 DEF Replaced
  <2>2. \A k : Overlooked(x, M, k) => Overlooked(y, M, k)
    BY <1>2 DEF Overlooked
  <2> QED
    BY <1>1, <1>2, <1>3, <2>1, <2>2 DEF Ruling, Ruled, Audited
<1>7. Provisioning(x, H, M) => Provisioning(y, H, M)
  BY <1>1, <1>2, <1>3 DEF Provisioning, Audited
<1> QED
  BY <1>5, <1>6, <1>7

-----------------------------------------------------------------------------
(***************************************************************************)
(* The steps of a suspension or reinstatement.                             *)
(***************************************************************************)

\* set_reviewer_active_admin has found the Senior accounts (FindSeniors).
LEMMA RulingFoundSeniors ==
  ASSUME NEW x, NEW y, NEW H, NEW M, NEW S, IsRequest(x), x.at = "seniors", Ruling(x, H, M),
         \A u \in S : SeniorRole(M, u),
         Reaches(x, y, H, [x.tx EXCEPT !.seniors = S], "authority", AccountClaims(S))
  PROVE  Ruling(y, H, M)
<1>1. Stage(x) = "seniors" /\ Claimed(x, H) = H
  BY AtStage
<1>2. /\ y.call = x.call /\ Stage(y) = "authority" /\ Claimed(y, H) = H \cup AccountClaims(S)
      /\ y.tx.locked = x.tx.locked /\ y.tx.affected = x.tx.affected /\ y.tx.seniors = S
      /\ y.tx.account = x.tx.account /\ y.tx.matters = x.tx.matters
      /\ y.tx.member = x.tx.member /\ y.tx.log = x.tx.log
  BY DEF Reaches, IsRequest, HasFields
<1>3. Auditing(y, H, M)
  BY <1>1, <1>2 DEF Ruling, Auditing
<1> QED
  BY <1>1, <1>2, <1>3 DEF Ruling, Ruled, Audited

\* It has looked at the administrator again under the locks (CheckAuthority).
LEMMA RulingCheckedAuthority ==
  ASSUME NEW x, NEW y, NEW H, NEW M, NEW L, IsRequest(x), x.at = "authority", Ruling(x, H, M),
         x.call.by \in x.tx.seniors, M.account[x.call.by].active,
         x.call.target \in DOMAIN M.account,
         x.call.target \in x.tx.seniors \/ Exclusive(AccountLock(x.call.target)) \in L,
         Reaches(x, y, H, x.tx, "account", L)
  PROVE  Ruling(y, H, M)
<1>1. Stage(x) = "authority" /\ Claimed(x, H) = H
  BY AtStage
<1>2. /\ y.call = x.call /\ Stage(y) = "account" /\ Claimed(y, H) = H \cup L
      /\ y.tx.locked = x.tx.locked /\ y.tx.affected = x.tx.affected
      /\ y.tx.seniors = x.tx.seniors
      /\ y.tx.account = x.tx.account /\ y.tx.matters = x.tx.matters
      /\ y.tx.member = x.tx.member /\ y.tx.log = x.tx.log
  BY DEF Reaches
<1>3. Auditing(y, H, M)
  BY <1>1, <1>2 DEF Ruling, Auditing
<1>4. AccountClaims(x.tx.seniors) \subseteq H
  BY <1>1 DEF Ruling
<1>5. Exclusive(AccountLock(x.call.target)) \in H \cup L
  BY <1>4 DEF AccountClaims
<1> QED
  BY <1>1, <1>2, <1>3, <1>4, <1>5 DEF Ruling, Ruled, Audited

\* It has listed the matters the account is a Senior of (CheckAccount).
LEMMA RulingCheckedAccount ==
  ASSUME NEW x, NEW y, NEW H, NEW M, NEW list \in Seq(Matters), NEW stage,
         IsRequest(x), x.at = "account", Ruling(x, H, M),
         x.call.op = "suspend" =>
           \A k \in M.matters : Effective(M, k, x.call.target) =>
             k \in Listed(list) \/ Overlooked(x, M, k),
         stage = IF list = <<>> THEN "write" ELSE "members",
         Reaches(x, y, H, [x.tx EXCEPT !.affected = list], stage, {})
  PROVE  Ruling(y, H, M)
<1>1. Stage(x) = "account" /\ Claimed(x, H) = H
  BY AtStage
<1>2. /\ y.call = x.call /\ Stage(y) = stage /\ Claimed(y, H) = H
      /\ y.tx.locked = x.tx.locked /\ y.tx.affected = list
      /\ y.tx.seniors = x.tx.seniors
      /\ y.tx.account = x.tx.account /\ y.tx.matters = x.tx.matters
      /\ y.tx.member = x.tx.member /\ y.tx.log = x.tx.log
  BY DEF Reaches, IsRequest, HasFields
<1>3. Auditing(y, H, M)
  BY <1>1, <1>2 DEF Ruling, Auditing
<1>4. \A k : Overlooked(x, M, k) => Overlooked(y, M, k)
  BY <1>2 DEF Overlooked
<1> QED
  BY <1>1, <1>2, <1>3, <1>4 DEF Ruling, Ruled, Audited

\* It has found the memberships of the next matter (FindMembers).
LEMMA RulingFoundMembers ==
  ASSUME NEW x, NEW y, NEW H, NEW M, NEW seen, NEW k, IsRequest(x), x.at = "members",
         Ruling(x, H, M), k = Head(x.tx.affected),
         seen = {} \/ x.call.target \in seen \/ ~Effective(M, k, x.call.target),
         Reaches(x, y, H, [x.tx EXCEPT !.locked = seen], "replacement", MemberClaims(k, seen))
  PROVE  Ruling(y, H, M)
<1>1. Stage(x) = "members" /\ Claimed(x, H) = H
  BY AtStage
<1>2. /\ y.call = x.call /\ Stage(y) = "replacement"
      /\ Claimed(y, H) = H \cup MemberClaims(k, seen)
      /\ y.tx.locked = seen /\ y.tx.affected = x.tx.affected
      /\ y.tx.seniors = x.tx.seniors
      /\ y.tx.account = x.tx.account /\ y.tx.matters = x.tx.matters
      /\ y.tx.member = x.tx.member /\ y.tx.log = x.tx.log
  BY DEF Reaches, IsRequest, HasFields
<1>3. Auditing(y, H, M)
  BY <1>1, <1>2 DEF Ruling, Auditing
<1>4. \A j : Overlooked(x, M, j) => Overlooked(y, M, j)
  BY <1>2 DEF Overlooked
<1>5. \A j : Replaced(x, H, M, j) => Replaced(y, H, M, j)
  BY <1>2 DEF Replaced
<1> QED
  BY <1>1, <1>2, <1>3, <1>4, <1>5 DEF Ruling, Ruled, Audited

\* A list of matters is a list of its own members.
LEMMA ListedMatters ==
  ASSUME NEW list \in Seq(Matters), list # <<>>
  PROVE  /\ Tail(list) \in Seq(Matters)
         /\ Listed(list) = {Head(list)} \cup Listed(Tail(list))
<1>1. DOMAIN list = 1 .. Len(list) /\ Len(list) \in Nat
  BY LenProperties
<1>2. list \in [1 .. Len(list) -> Listed(list)]
  <2>1. list = [i \in 1 .. Len(list) |-> list[i]]
    BY <1>1, LenProperties
  <2> QED
    BY <2>1, <1>1 DEF Listed
<1>3. list \in Seq(Listed(list))
  BY ONLY <1>1, <1>2, SeqDef
<1>4. Tail(list) \in Seq(Matters)
  BY HeadTailProperties
<1> QED
  BY <1>3, <1>4, LocksTaken

\* It has found another Senior for the matter (CheckReplacement).
LEMMA RulingCheckedReplacement ==
  ASSUME NEW x, NEW y, NEW H, NEW M, NEW k, NEW u, NEW rest, NEW stage, IsRequest(x),
         x.at = "replacement", Ruling(x, H, M), k = Head(x.tx.affected),
         x.tx.affected # <<>>,
         u \in x.tx.locked \ {x.call.target}, SeniorOn(M, k, u), u \in x.tx.seniors,
         M.account[u].active, rest = Tail(x.tx.affected),
         stage = IF rest = <<>> THEN "write" ELSE "members",
         Reaches(x, y, H, [x.tx EXCEPT !.affected = rest], stage, {})
  PROVE  Ruling(y, H, M)
<1>1. Stage(x) = "replacement" /\ Claimed(x, H) = H
  BY AtStage
<1>2. /\ y.call = x.call /\ Stage(y) = stage /\ Claimed(y, H) = H
      /\ y.tx.locked = x.tx.locked /\ y.tx.affected = rest
      /\ y.tx.seniors = x.tx.seniors
      /\ y.tx.account = x.tx.account /\ y.tx.matters = x.tx.matters
      /\ y.tx.member = x.tx.member /\ y.tx.log = x.tx.log
  BY DEF Reaches, IsRequest, HasFields
<1>3. Auditing(y, H, M)
  BY <1>1, <1>2 DEF Ruling, Auditing
<1>4. \A j : Overlooked(x, M, j) => Overlooked(y, M, j)
  BY <1>2 DEF Overlooked
<1>5. \A j : Replaced(x, H, M, j) => Replaced(y, H, M, j)
  BY <1>2 DEF Replaced
<1>6. x.tx.affected \in Seq(Matters)
  BY DEF Ruling
<1>7. rest \in Seq(Matters) /\ Listed(x.tx.affected) = {k} \cup Listed(rest)
  BY <1>6, ListedMatters
<1>8. Effective(M, k, x.call.target) => Replaced(x, H, M, k) \/ Overlooked(x, M, k)
  <2>1. SeniorRole(M, u)
    BY <1>1 DEF Ruling
  <2>2. Effective(M, k, u)
    BY <2>1 DEF Effective, SeniorIn
  <2>3. MemberClaims(k, x.tx.locked) \subseteq H
    BY <1>1 DEF Ruling
  <2>4. x.call.target \in x.tx.locked => Exclusive(MemberLock(k, x.call.target)) \in H
    BY <2>3 DEF MemberClaims
  <2>5. x.call.target \in x.tx.locked \/ ~Effective(M, k, x.call.target) \/ Overlooked(x, M, k)
    BY <1>1 DEF Ruling
  <2> QED
    BY <2>2, <2>4, <2>5 DEF Replaced
<1>9. x.call.op = "suspend" =>
        \A j \in M.matters : Effective(M, j, x.call.target) =>
          j \in Listed(rest) \/ Replaced(y, H, M, j) \/ Overlooked(y, M, j)
  <2>1. x.call.op = "suspend" =>
          \A j \in M.matters : Effective(M, j, x.call.target) =>
            j \in Listed(x.tx.affected) \/ Replaced(x, H, M, j) \/ Overlooked(x, M, j)
    BY <1>1 DEF Ruling, Ruled
  <2> QED
    BY <2>1, <1>4, <1>5, <1>7, <1>8
<1>10. stage \in {"write", "members"} /\ (stage = "write" <=> rest = <<>>)
  OBVIOUS
<1> QED
  BY <1>1, <1>2, <1>3, <1>7, <1>9, <1>10 DEF Ruling, Ruled, Audited

\* It has written the account (WriteAccount).
LEMMA RulingWrote ==
  ASSUME NEW x, NEW y, NEW H, NEW M, IsRequest(x), x.at = "write", Ruling(x, H, M),
         Reaches(x, y, H,
                 [x.tx EXCEPT !.account =
                    Only(x.call.target, [M.account[x.call.target] EXCEPT
                                           !.active = (x.call.op = "reinstate")])], "audit", {})
  PROVE  Ruling(y, H, M)
<1>1. Stage(x) = "write" /\ Claimed(x, H) = H
  BY AtStage
<1>2. /\ y.call = x.call /\ Stage(y) = "audit" /\ Claimed(y, H) = H
      /\ y.tx.locked = x.tx.locked /\ y.tx.affected = x.tx.affected
      /\ y.tx.seniors = x.tx.seniors
      /\ y.tx.account = Only(x.call.target, [M.account[x.call.target] EXCEPT
                                               !.active = (x.call.op = "reinstate")])
      /\ y.tx.matters = x.tx.matters
      /\ y.tx.member = x.tx.member /\ y.tx.log = x.tx.log
  BY DEF Reaches, IsRequest, HasFields
<1>3. Auditing(y, H, M)
  BY <1>1, <1>2 DEF Ruling, Auditing
<1>4. \A j : Overlooked(x, M, j) => Overlooked(y, M, j)
  BY <1>2 DEF Overlooked
<1>5. \A j : Replaced(x, H, M, j) => Replaced(y, H, M, j)
  BY <1>2 DEF Replaced
<1> QED
  BY <1>1, <1>2, <1>3, <1>4, <1>5 DEF Ruling, Ruled, Audited

-----------------------------------------------------------------------------
(***************************************************************************)
(* The steps of the other operations.                                      *)
(***************************************************************************)

\* create_reviewer waits for the user name (ProvisionAccount).
LEMMA ProvisionNamed ==
  ASSUME NEW x, NEW y, NEW H, NEW M, IsRequest(x), x.at = "provision", Provisioning(x, H, M),
         Reaches(x, y, H, x.tx, "named", {Exclusive(NameLock(x.call.target))})
  PROVE  Provisioning(y, H, M)
<1>1. Stage(x) = "provision" /\ Claimed(x, H) = H
  BY AtStage
<1>2. /\ y.call = x.call /\ Stage(y) = "named"
      /\ Claimed(y, H) = H \cup {Exclusive(NameLock(x.call.target))}
      /\ y.tx.account = x.tx.account /\ y.tx.matters = x.tx.matters
      /\ y.tx.member = x.tx.member /\ y.tx.log = x.tx.log
  BY DEF Reaches
<1>3. Auditing(y, H, M)
  BY <1>1, <1>2 DEF Provisioning, Auditing
<1> QED
  BY <1>1, <1>2, <1>3 DEF Provisioning, Audited

\* The user name is free (ProvisionAccount).
LEMMA ProvisionWrote ==
  ASSUME NEW x, NEW y, NEW H, NEW M, IsRequest(x), x.at = "named", Provisioning(x, H, M),
         x.call.target \notin DOMAIN M.account,
         Reaches(x, y, H,
                 [x.tx EXCEPT !.account =
                    Only(x.call.target, [role |-> x.call.role, active |-> TRUE])], "audit", {})
  PROVE  Provisioning(y, H, M)
<1>1. Stage(x) = "named" /\ Claimed(x, H) = H
  BY AtStage
<1>2. /\ y.call = x.call /\ Stage(y) = "audit" /\ Claimed(y, H) = H
      /\ y.tx.account = Only(x.call.target, [role |-> x.call.role, active |-> TRUE])
      /\ y.tx.matters = x.tx.matters
      /\ y.tx.member = x.tx.member /\ y.tx.log = x.tx.log
  BY DEF Reaches, IsRequest, HasFields
<1>3. Auditing(y, H, M)
  BY <1>1, <1>2 DEF Provisioning, Auditing
<1> QED
  BY <1>1, <1>2, <1>3 DEF Provisioning, Audited

\* atlas_argus_create_matter has inserted the matter (OpenMatter).
LEMMA MatterOpened ==
  ASSUME NEW x, NEW y, NEW H, NEW M, NEW k \in Matters \ M.matters, IsRequest(x), x.at = "open",
         Founding(x, H, M), x.call.by \in DOMAIN M.account,
         Reaches(x, y, H,
                 [x.tx EXCEPT !.matters = {k}, !.member = Only(<<k, x.call.by>>, SeniorRow)],
                 "commit", {Shared(AccountLock(x.call.by))})
  PROVE  Founding(y, H, M) /\ y.tx.matters = {k}
<1>1. Stage(x) = "open" /\ Claimed(x, H) = H
  BY AtStage
<1>2. /\ y.call = x.call /\ Stage(y) = "commit"
      /\ Claimed(y, H) = H \cup {Shared(AccountLock(x.call.by))}
      /\ y.tx.account = x.tx.account /\ y.tx.matters = {k}
      /\ y.tx.member = Only(<<k, x.call.by>>, SeniorRow) /\ y.tx.log = x.tx.log
  BY DEF Reaches, IsRequest, HasFields
<1> QED
  BY <1>1, <1>2 DEF Founding

\* The operator's command has its locks (RestoreAccess).
LEMMA RestoreExamines ==
  ASSUME NEW x, NEW y, NEW H, NEW M, NEW L, IsRequest(x), x.at = "restore",
         Restoring(x, H, M), Reaches(x, y, H, x.tx, "examine", L)
  PROVE  Restoring(y, H, M)
<1>1. Stage(x) = "restore" /\ Claimed(x, H) = H
  BY AtStage
<1>2. /\ y.call = x.call /\ Stage(y) = "examine"
      /\ y.tx.account = x.tx.account /\ y.tx.matters = x.tx.matters
      /\ y.tx.member = x.tx.member /\ y.tx.log = x.tx.log
  BY DEF Reaches
<1> QED
  BY <1>1, <1>2 DEF Restoring

\* It has written the membership, there already or not (RestoreAccess).
LEMMA RestoreWrote ==
  ASSUME NEW x, NEW y, NEW H, NEW M, NEW stage, NEW L, IsRequest(x), x.at = "examine",
         Restoring(x, H, M), x.call.target \in DOMAIN M.account,
         \/ /\ <<x.call.matter, x.call.target>> \in DOMAIN M.member
            /\ stage = "commit" /\ L = {Exclusive(MemberLock(x.call.matter, x.call.target))}
         \/ stage = "insert" /\ L = {Exclusive(PlaceLock(x.call.matter, x.call.target))},
         Reaches(x, y, H,
                 [x.tx EXCEPT !.member = Only(<<x.call.matter, x.call.target>>, SeniorRow)],
                 stage, L)
  PROVE  Restoring(y, H, M)
<1>1. Stage(x) = "examine" /\ Claimed(x, H) = H
  BY AtStage
<1>2. /\ y.call = x.call /\ Stage(y) = stage /\ Claimed(y, H) = H \cup L
      /\ y.tx.account = x.tx.account /\ y.tx.matters = x.tx.matters
      /\ y.tx.member = Only(<<x.call.matter, x.call.target>>, SeniorRow)
      /\ y.tx.log = x.tx.log
  BY DEF Reaches, IsRequest, HasFields
<1> QED
  BY <1>1, <1>2 DEF Restoring

\* The membership has its place in the index (InsertMembership).
LEMMA RestoreInserted ==
  ASSUME NEW x, NEW y, NEW H, NEW M, NEW L, IsRequest(x), x.at = "insert",
         Restoring(x, H, M), <<x.call.matter, x.call.target>> \notin DOMAIN M.member,
         Shared(AccountLock(x.call.target)) \in L, Reaches(x, y, H, x.tx, "commit", L)
  PROVE  Restoring(y, H, M)
<1>1. Stage(x) = "insert" /\ Claimed(x, H) = H
  BY AtStage
<1>2. /\ y.call = x.call /\ Stage(y) = "commit" /\ Claimed(y, H) = H \cup L
      /\ y.tx.account = x.tx.account /\ y.tx.matters = x.tx.matters
      /\ y.tx.member = x.tx.member /\ y.tx.log = x.tx.log
  BY DEF Reaches
<1> QED
  BY <1>1, <1>2 DEF Restoring

-----------------------------------------------------------------------------
(***************************************************************************)
(* What the others do to a request x that holds the locks H: the committed *)
(* rows become N from M.                                                   *)
(***************************************************************************)

\* The membership of v in k is as it was, or the operator has restored it.
MemberKept(M, N, k, v) ==
  \/ /\ <<k, v>> \in DOMAIN N.member <=> <<k, v>> \in DOMAIN M.member
     /\ <<k, v>> \in DOMAIN M.member => N.member[<<k, v>>] = M.member[<<k, v>>]
  \/ /\ <<k, v>> \in N.restored /\ <<k, v>> \in DOMAIN N.member
     /\ N.member[<<k, v>>] = SeniorRow

Grown(M, N) ==
  /\ N.secured = M.secured /\ M.restored \subseteq N.restored
  /\ M.matters \subseteq N.matters
  /\ DOMAIN M.account \subseteq DOMAIN N.account /\ DOMAIN M.member \subseteq DOMAIN N.member
  /\ \A v \in DOMAIN M.account : N.account[v].role = M.account[v].role

\* The locks H have kept the rows they are on.
Guarded(H, M, N) ==
  /\ Exclusive(AuditLock) \in H => N.logged = M.logged
  /\ \A v : Exclusive(NameLock(v)) \in H /\ v \notin DOMAIN M.account =>
       v \notin DOMAIN N.account
  /\ \A v : Exclusive(AccountLock(v)) \in H =>
       /\ v \in DOMAIN M.account => N.account[v] = M.account[v]
       /\ \A k : MemberKept(M, N, k, v)
  /\ \A k, v : Exclusive(PlaceLock(k, v)) \in H /\ k \in M.matters /\ <<k, v>> \notin DOMAIN M.member =>
       <<k, v>> \notin DOMAIN N.member
  /\ \A k, v : Exclusive(MemberLock(k, v)) \in H /\ <<k, v>> \in DOMAIN M.member =>
       /\ N.member[<<k, v>>] = M.member[<<k, v>>]
       /\ Effective(M, k, v) => N.account[v].active \/ <<k, v>> \in N.unseen

\* The matter x opens is still not there; what a change of memberships has not to
\* look at it has not to look at now.
Spared(x, M, N) ==
  /\ x.tx.matters \cap N.matters \subseteq M.matters
  /\ x.call.op \in {"set", "remove"} /\ Stage(x) \in Settled =>
       \A w : <<x.call.matter, w>> \in M.unseen => <<x.call.matter, w>> \in N.unseen

Unharmed(x, H, M, N) == Grown(M, N) /\ Guarded(H, M, N) /\ Spared(x, M, N)

\* A change of membership is unharmed (set_case_member_admin).
LEMMA ChangingKept ==
  ASSUME NEW x, NEW H, NEW M, NEW N, Unharmed(x, H, M, N), Changing(x, H, M),
         x.call.op \in {"set", "remove"}
  PROVE  Changing(x, H, N)
<1> DEFINE k == x.call.matter
<1> DEFINE v == x.call.target
<1>1. Auditing(x, H, M) => Auditing(x, H, N)
  BY DEF Auditing, Unharmed, Guarded
<1>2. k \in N.matters /\ MembersIn(M, k) \subseteq MembersIn(N, k)
  BY DEF Changing, Unharmed, Grown, MembersIn
<1>3. v \in DOMAIN M.account => v \in DOMAIN N.account
  BY DEF Unharmed, Grown
<1>4. Exclusive(PlaceLock(k, v)) \in H /\ <<k, v>> \notin DOMAIN M.member =>
        <<k, v>> \notin DOMAIN N.member
  BY DEF Changing, Unharmed, Guarded
<1>5. ASSUME NEW row, Counted(x, M, row), Stage(x) \in Settled
      PROVE  Counted(x, N, row)
  <2>1. CASE row = SeniorRow
    BY <2>1 DEF Counted
  <2>2. CASE row # SeniorRow
    <3>1. PICK w \in x.tx.locked \ {v} :
            /\ SeniorOn(M, k, w) /\ SeniorRole(M, w)
            /\ M.account[w].active \/ <<k, w>> \in M.unseen
      BY <2>2, <1>5 DEF Counted
    <3>2. Exclusive(MemberLock(k, w)) \in H
      BY <1>5, <3>1 DEF Changing, MemberClaims
    <3>3. <<k, w>> \in DOMAIN M.member /\ <<k, w>> \in DOMAIN N.member
      BY <3>1 DEF SeniorOn, MemberIn, Unharmed, Grown
    <3>4. /\ N.member[<<k, w>>] = M.member[<<k, w>>]
          /\ Effective(M, k, w) => N.account[w].active \/ <<k, w>> \in N.unseen
      BY <3>2, <3>3 DEF Unharmed, Guarded
    <3>5. SeniorOn(N, k, w)
      BY <3>1, <3>3, <3>4 DEF SeniorOn, MemberIn
    <3>6. SeniorRole(N, w)
      BY <3>1 DEF SeniorRole, Unharmed, Grown
    <3>7. <<k, w>> \in M.unseen => <<k, w>> \in N.unseen
      BY <1>5 DEF Unharmed, Spared
    <3>8. M.account[w].active => Effective(M, k, w)
      BY <3>1 DEF Effective, SeniorIn
    <3>9. N.account[w].active \/ <<k, w>> \in N.unseen
      BY <3>1, <3>4, <3>7, <3>8
    <3> QED
      BY <3>1, <3>5, <3>6, <3>9 DEF Counted
  <2> QED
    BY <2>1, <2>2
<1> QED
  BY <1>1, <1>2, <1>3, <1>4, <1>5 DEF Changing

\* A suspension or reinstatement is unharmed (set_reviewer_active_admin).
LEMMA RulingKept ==
  ASSUME NEW x, NEW H, NEW M, NEW N, RowsTyped(M), RowsTyped(N), Unharmed(x, H, M, N),
         Ruling(x, H, M)
  PROVE  Ruling(x, H, N)
<1> DEFINE v == x.call.target
<1>1. Auditing(x, H, M) => Auditing(x, H, N)
  BY DEF Auditing, Unharmed, Guarded
<1>2. \A u : SeniorRole(M, u) => SeniorRole(N, u)
  BY DEF SeniorRole, Unharmed, Grown
<1>3. \A u : Exclusive(AccountLock(u)) \in H /\ u \in DOMAIN M.account =>
        u \in DOMAIN N.account /\ N.account[u] = M.account[u]
  BY DEF Unharmed, Grown, Guarded
<1>4. \A u, k : Exclusive(AccountLock(u)) \in H => MemberKept(M, N, k, u)
  BY DEF Unharmed, Guarded
<1>5. \A u \in x.tx.seniors : Stage(x) # "seniors" => u \in DOMAIN M.account
  BY DEF Ruling, SeniorRole
<1>6. ASSUME Stage(x) \in {"account"} \cup Ruled
      PROVE  \A u \in x.tx.seniors : Exclusive(AccountLock(u)) \in H
  BY <1>6 DEF Ruling, Ruled, Audited, AccountClaims
<1>7. Stage(x) \in {"account"} \cup Ruled =>
        x.call.by \in DOMAIN N.account /\ N.account[x.call.by] = M.account[x.call.by]
  BY <1>3, <1>5, <1>6 DEF Ruling, Ruled, Audited
<1>8. ASSUME Stage(x) \in Ruled, NEW k, Overlooked(x, M, k)
      PROVE  Overlooked(x, N, k)
  <2>1. x.call.by \in x.tx.seniors
    BY <1>8 DEF Ruling
  <2>2. MemberKept(M, N, k, x.call.by)
    BY <1>4, <1>6, <1>8, <2>1
  <2>3. N.secured = M.secured /\ M.restored \subseteq N.restored
    BY DEF Unharmed, Grown
  <2>4. ~MemberIn(M, k, x.call.by) => ~MemberIn(N, k, x.call.by) \/ <<k, x.call.by>> \in N.restored
    BY <2>2 DEF MemberKept, MemberIn
  <2> QED
    BY <1>8, <2>3, <2>4 DEF Overlooked
<1>9. ASSUME Stage(x) \in Ruled, NEW k, Effective(N, k, v)
      PROVE  \/ k \in M.matters /\ Effective(M, k, v)
             \/ Overlooked(x, N, k)
  <2>1. Exclusive(AccountLock(v)) \in H /\ v \in DOMAIN M.account
    BY <1>9 DEF Ruling
  <2>2. MemberKept(M, N, k, v) /\ N.account[v] = M.account[v]
    BY <2>1, <1>3, <1>4
  <2>3. CASE <<k, v>> \in N.restored
    BY <2>3 DEF Overlooked
  <2>4. CASE <<k, v>> \notin N.restored
    <3>1. <<k, v>> \in DOMAIN M.member /\ N.member[<<k, v>>] = M.member[<<k, v>>]
      BY <2>2, <2>4, <1>9 DEF MemberKept, Effective, SeniorOn, MemberIn
    <3>2. k \in M.matters
      BY <3>1 DEF RowsTyped
    <3> QED
      BY <1>9, <2>1, <2>2, <3>1, <3>2
         DEF Effective, SeniorOn, MemberIn, SeniorIn, SeniorRole
  <2> QED
    BY <2>3, <2>4
<1>10. ASSUME Stage(x) \in Ruled, NEW k, Replaced(x, H, M, k)
       PROVE  Replaced(x, H, N, k)
  <2>1. PICK u \in x.tx.seniors \ {v} : Effective(M, k, u)
    BY <1>10 DEF Replaced
  <2>2. Exclusive(AccountLock(u)) \in H /\ u \in DOMAIN M.account
    BY <2>1, <1>6, <1>10 DEF Effective, SeniorIn, SeniorRole
  <2>3. MemberKept(M, N, k, u) /\ N.account[u] = M.account[u] /\ u \in DOMAIN N.account
    BY <2>2, <1>3, <1>4
  <2>4. SeniorOn(N, k, u)
    BY <2>1, <2>3 DEF MemberKept, Effective, SeniorOn, MemberIn, SeniorRow
  <2>5. SeniorIn(N, u)
    BY <2>1, <2>3 DEF Effective, SeniorIn, SeniorRole
  <2> QED
    BY <1>10, <2>1, <2>4, <2>5 DEF Replaced, Effective
<1>11. Stage(x) \in Ruled /\ x.call.op = "suspend" =>
         \A k \in N.matters : Effective(N, k, v) =>
           k \in Listed(x.tx.affected) \/ Replaced(x, H, N, k) \/ Overlooked(x, N, k)
  BY <1>8, <1>9, <1>10 DEF Ruling
<1>12. Stage(x) = "replacement" =>
         LET k == Head(x.tx.affected)
         IN  /\ MemberClaims(k, x.tx.locked) \subseteq Claimed(x, H)
             /\ \/ x.tx.locked = {}
                \/ v \in x.tx.locked
                \/ ~Effective(N, k, v)
                \/ Overlooked(x, N, k)
  BY <1>8, <1>9 DEF Ruling, Ruled
<1>13. Stage(x) \in Audited => N.account[v] = M.account[v]
  BY <1>3 DEF Ruling, Ruled
<1>14. Stage(x) \in {"account"} \cup Ruled => v \in DOMAIN N.account
  BY DEF Ruling, Unharmed, Grown
<1> QED
  BY <1>1, <1>2, <1>7, <1>11, <1>12, <1>13, <1>14 DEF Ruling

\* So are the other operations (create_reviewer, atlas_argus_create_matter,
\* restore_matter_access).
LEMMA OthersKept ==
  ASSUME NEW x, NEW H, NEW M, NEW N, Unharmed(x, H, M, N)
  PROVE  /\ Provisioning(x, H, M) => Provisioning(x, H, N)
         /\ Founding(x, H, M) => Founding(x, H, N)
         /\ Restoring(x, H, M) => Restoring(x, H, N)
<1>1. Auditing(x, H, M) => Auditing(x, H, N)
  BY DEF Auditing, Unharmed, Guarded
<1>2. DOMAIN M.account \subseteq DOMAIN N.account /\ M.matters \subseteq N.matters
      /\ DOMAIN M.member \subseteq DOMAIN N.member /\ M.restored \subseteq N.restored
  BY DEF Unharmed, Grown
<1>3. Provisioning(x, H, M) => Provisioning(x, H, N)
  <2>1. \A v : Exclusive(NameLock(v)) \in H /\ v \notin DOMAIN M.account =>
          v \notin DOMAIN N.account
    BY DEF Unharmed, Guarded
  <2> QED
    BY <1>1, <2>1 DEF Provisioning
<1>4. Founding(x, H, M) => Founding(x, H, N)
  <2>1. x.tx.matters \cap N.matters \subseteq M.matters
    BY DEF Unharmed, Spared
  <2>2. \A k \in Matters \ M.matters : x.tx.matters = {k} => k \in Matters \ N.matters
    BY <2>1
  <2> QED
    BY <1>2, <2>2 DEF Founding
<1>5. Restoring(x, H, M) => Restoring(x, H, N)
  <2>1. \A k \in M.matters : \A v :
          Exclusive(PlaceLock(k, v)) \in H /\ <<k, v>> \notin DOMAIN M.member =>
            <<k, v>> \notin DOMAIN N.member
    BY DEF Unharmed, Guarded
  <2> QED
    BY <1>2, <2>1 DEF Restoring
<1> QED
  BY <1>3, <1>4, <1>5

\* What a request relies on survives what the others do.
LEMMA LocalKept ==
  ASSUME NEW x, NEW H, NEW M, NEW N, RowsTyped(M), RowsTyped(N), Unharmed(x, H, M, N),
         Local(x, H, M)
  PROVE  Local(x, H, N)
<1>1. Working(x, H, M) => Working(x, H, N)
  BY ChangingKept, RulingKept, OthersKept DEF Working
<1> QED
  BY <1>1, LocalOf

-----------------------------------------------------------------------------
(***************************************************************************)
(* The commit of a request x that holds the locks H, as another request    *)
(* that holds the locks G sees it.                                         *)
(***************************************************************************)

\* The rows once x has committed.
Merged(x, M, N) ==
  /\ N.secured = M.secured /\ N.restored = M.restored
  /\ N.account = Overlay(M.account, x.tx.account)
  /\ N.matters = M.matters \cup x.tx.matters
  /\ N.member = Overlay(M.member, x.tx.member)
  /\ N.logged = M.logged + Len(x.tx.log)
  /\ x.call.op = "suspend" =>
       \A k \in M.matters : Overlooked(x, M, k) => <<k, x.call.target>> \in N.unseen
  /\ \A k \in M.matters : \A w : <<k, w>> \in M.unseen => <<k, w>> \in N.unseen \/ Changes(x, k)

\* A table overlaid with nothing is what it was (UPDATE of other tables).
LEMMA OverlayNone ==
  ASSUME NEW f, IsTable(f)
  PROVE  Overlay(f, NoRows) = f
<1>1. DOMAIN NoRows = {}
  BY DEF NoRows
<1>2. Overlay(f, NoRows) = [j \in DOMAIN f |-> f[j]]
  BY <1>1 DEF Overlay
<1> QED
  BY <1>2 DEF IsTable

\* Requests whose locks are apart do not lock one row.
LEMMA ApartMeans ==
  ASSUME NEW G, NEW H, Apart(G, H), NEW L, Exclusive(L) \in G
  PROVE  Exclusive(L) \notin H /\ Shared(L) \notin H
BY DEF Apart, Conflicting, Exclusive, Shared

\* The commit of a change of membership (set_case_member_admin).
LEMMA CommitChanging ==
  ASSUME NEW x, NEW H, NEW G, NEW M, NEW N, RowsTyped(M), M.logged \in Nat,
         x.at = "commit", Merged(x, M, N), Apart(G, H), x.call \in CallRecords,
         x.call.op \in {"set", "remove"}, Changing(x, H, M)
  PROVE  RowsTyped(N) /\ Grown(M, N) /\ Guarded(G, M, N)
<1> DEFINE k == x.call.matter
<1> DEFINE v == x.call.target
<1>1. Stage(x) = "commit" /\ Claimed(x, H) = H
  BY AtStage
<1>2. /\ k \in M.matters /\ v \in DOMAIN M.account
      /\ x.tx.account = NoRows /\ x.tx.matters = {}
      /\ Exclusive(AuditLock) \in H /\ Shared(AccountLock(v)) \in H
  BY <1>1 DEF Changing, Auditing, Settled
<1>3. \/ Exclusive(PlaceLock(k, v)) \in H /\ <<k, v>> \notin DOMAIN M.member
      \/ Exclusive(MemberLock(k, v)) \in H /\ <<k, v>> \in DOMAIN M.member
  <2>1. CASE v \in x.tx.locked
    BY <1>1, <2>1 DEF Changing, Settled, MemberClaims, MembersIn
  <2>2. CASE v \notin x.tx.locked
    BY <1>1, <2>2 DEF Changing, Settled
  <2> QED
    BY <2>1, <2>2
<1>4. PICK row \in AccountRow : x.tx.member = Only(<<k, v>>, row)
  BY <1>1 DEF Changing, Settled
<1>5. N.account = M.account /\ N.matters = M.matters
  BY <1>2, OverlayNone DEF Merged, RowsTyped
<1>6. /\ DOMAIN N.member = DOMAIN M.member \cup {<<k, v>>}
      /\ N.member[<<k, v>>] = row /\ IsTable(N.member)
      /\ \A m \in DOMAIN M.member : m # <<k, v>> => N.member[m] = M.member[m]
  <2>1. IsTable(M.member) /\ N.member = Overlay(M.member, Only(<<k, v>>, row))
    BY <1>4 DEF Merged, RowsTyped
  <2> QED
    BY ONLY <2>1 DEF Overlay, Only, IsTable
<1>7. Grown(M, N)
  BY <1>5, <1>6 DEF Grown, Merged
<1>8. RowsTyped(N)
  <2>1. DOMAIN N.member \subseteq N.matters \X DOMAIN N.account
    BY <1>2, <1>5, <1>6 DEF RowsTyped
  <2>2. \A m \in DOMAIN N.member : N.member[m] \in AccountRow
    BY <1>6, <1>4 DEF RowsTyped
  <2> QED
    BY <1>5, <1>6, <2>1, <2>2 DEF RowsTyped, Merged
<1>9. Guarded(G, M, N)
  <2>1. Exclusive(AuditLock) \notin G /\ Exclusive(AccountLock(v)) \notin G
    BY <1>2, ApartMeans
  <2>2. ASSUME NEW w, Exclusive(AccountLock(w)) \in G, NEW j
        PROVE  MemberKept(M, N, j, w)
    <3>1. <<j, w>> # <<k, v>>
      BY <2>1, <2>2
    <3> QED
      BY <3>1, <1>6 DEF MemberKept
  <2>3. ASSUME NEW j, NEW w, Exclusive(PlaceLock(j, w)) \in G, <<j, w>> \notin DOMAIN M.member
        PROVE  <<j, w>> \notin DOMAIN N.member
    <3>1. <<j, w>> # <<k, v>>
      <4>1. CASE Exclusive(PlaceLock(k, v)) \in H
        BY <4>1, <2>3, ApartMeans
      <4>2. CASE <<k, v>> \in DOMAIN M.member
        BY <4>2, <2>3
      <4> QED
        BY <4>1, <4>2, <1>3
    <3> QED
      BY <3>1, <1>6, <2>3
  <2>4. ASSUME NEW j, NEW w, Exclusive(MemberLock(j, w)) \in G, <<j, w>> \in DOMAIN M.member
        PROVE  N.member[<<j, w>>] = M.member[<<j, w>>]
    <3>1. <<j, w>> # <<k, v>>
      <4>1. CASE Exclusive(MemberLock(k, v)) \in H
        BY <4>1, <2>4, ApartMeans
      <4>2. CASE <<k, v>> \notin DOMAIN M.member
        BY <4>2, <2>4
      <4> QED
        BY <4>1, <4>2, <1>3
    <3> QED
      BY <3>1, <1>6, <2>4
  <2>5. \A j, w : Effective(M, j, w) => N.account[w].active
    BY <1>5 DEF Effective, SeniorIn
  <2> QED
    BY <1>5, <2>1, <2>2, <2>3, <2>4, <2>5 DEF Guarded
<1> QED
  BY <1>7, <1>8, <1>9

\* The commit of a suspension or reinstatement (set_reviewer_active_admin).
LEMMA CommitRuling ==
  ASSUME NEW x, NEW H, NEW G, NEW M, NEW N, RowsTyped(M), M.logged \in Nat,
         x.at = "commit", Merged(x, M, N), Apart(G, H), x.call \in CallRecords,
         x.call.op \in {"suspend", "reinstate"}, Ruling(x, H, M)
  PROVE  RowsTyped(N) /\ Grown(M, N) /\ Guarded(G, M, N)
<1> DEFINE v == x.call.target
<1> DEFINE row == [M.account[v] EXCEPT !.active = (x.call.op = "reinstate")]
<1>1. Stage(x) = "commit" /\ Claimed(x, H) = H
  BY AtStage
<1>2. /\ v \in DOMAIN M.account /\ Exclusive(AccountLock(v)) \in H
      /\ x.tx.member = NoRows /\ x.tx.matters = {} /\ x.tx.account = Only(v, row)
      /\ Exclusive(AuditLock) \in H /\ x.tx.affected = <<>>
  BY <1>1 DEF Ruling, Ruled, Audited, Auditing
<1>3. /\ row \in AccountRow /\ row.role = M.account[v].role
      /\ row.active = (x.call.op = "reinstate")
  <2>1. M.account[v] \in AccountRow
    BY <1>2 DEF RowsTyped
  <2> QED
    BY <2>1 DEF AccountRow
<1> HIDE DEF row
<1>4. N.member = M.member /\ N.matters = M.matters
  BY <1>2, OverlayNone DEF Merged, RowsTyped
<1>5. /\ DOMAIN N.account = DOMAIN M.account /\ N.account[v] = row /\ IsTable(N.account)
      /\ \A w \in DOMAIN M.account : w # v => N.account[w] = M.account[w]
  <2>1. IsTable(M.account) /\ N.account = Overlay(M.account, Only(v, row))
    BY <1>2 DEF Merged, RowsTyped, row
  <2>2. DOMAIN M.account \cup {v} = DOMAIN M.account
    BY <1>2
  <2> QED
    BY ONLY <2>1, <2>2 DEF Overlay, Only, IsTable
<1>6. Grown(M, N)
  BY <1>2, <1>3, <1>4, <1>5 DEF Grown, Merged
<1>7. RowsTyped(N)
  <2>1. \A w \in DOMAIN N.account : N.account[w] \in AccountRow
    BY <1>3, <1>5 DEF RowsTyped
  <2> QED
    BY <1>4, <1>5, <2>1 DEF RowsTyped, Merged
<1>8. Guarded(G, M, N)
  <2>1. Exclusive(AuditLock) \notin G /\ Exclusive(AccountLock(v)) \notin G
    BY <1>2, ApartMeans
  <2>2. ASSUME NEW j, NEW w, Exclusive(MemberLock(j, w)) \in G, <<j, w>> \in DOMAIN M.member,
               Effective(M, j, w)
        PROVE  N.account[w].active \/ <<j, w>> \in N.unseen
    <3>1. j \in M.matters /\ w \in DOMAIN M.account
      BY <2>2 DEF RowsTyped
    <3>2. CASE w # v
      BY <2>2, <3>1, <3>2, <1>5 DEF Effective, SeniorIn
    <3>3. CASE w = v /\ x.call.op = "reinstate"
      BY <3>3, <1>3, <1>5
    <3>4. CASE w = v /\ x.call.op = "suspend"
      <4>1. \/ j \in Listed(x.tx.affected) \/ Replaced(x, H, M, j) \/ Overlooked(x, M, j)
        BY <3>1, <3>4, <2>2, <1>1 DEF Ruling, Ruled, Audited
      <4>2. j \notin Listed(x.tx.affected)
        BY <1>2, ListedFew
      <4>3. ~Replaced(x, H, M, j)
        BY <2>2, <3>4, ApartMeans DEF Replaced
      <4> QED
        BY <4>1, <4>2, <4>3, <3>1, <3>4 DEF Merged
    <3> QED
      BY <3>2, <3>3, <3>4
  <2>3. \A j, w : MemberKept(M, N, j, w)
    BY <1>4 DEF MemberKept
  <2>4. \A w : Exclusive(AccountLock(w)) \in G /\ w \in DOMAIN M.account =>
          N.account[w] = M.account[w]
    BY <2>1, <1>5
  <2> QED
    BY <1>4, <1>5, <2>1, <2>2, <2>3, <2>4 DEF Guarded
<1> QED
  BY <1>6, <1>7, <1>8

\* The commit of a new account (create_reviewer).
LEMMA CommitProvisioning ==
  ASSUME NEW x, NEW H, NEW G, NEW M, NEW N, RowsTyped(M), M.logged \in Nat,
         x.at = "commit", Merged(x, M, N), Apart(G, H), x.call \in CallRecords,
         x.call.op = "provision", Provisioning(x, H, M)
  PROVE  RowsTyped(N) /\ Grown(M, N) /\ Guarded(G, M, N)
<1> DEFINE v == x.call.target
<1> DEFINE row == [role |-> x.call.role, active |-> TRUE]
<1>1. Stage(x) = "commit" /\ Claimed(x, H) = H
  BY AtStage
<1>2. /\ v \notin DOMAIN M.account /\ Exclusive(NameLock(v)) \in H
      /\ x.tx.member = NoRows /\ x.tx.matters = {} /\ x.tx.account = Only(v, row)
      /\ Exclusive(AuditLock) \in H
  BY <1>1 DEF Provisioning, Audited, Auditing
<1>3. row \in AccountRow /\ v \in Reviewers
  BY CallFields DEF AccountRow
<1> HIDE DEF row
<1>4. N.member = M.member /\ N.matters = M.matters
  BY <1>2, OverlayNone DEF Merged, RowsTyped
<1>5. /\ DOMAIN N.account = DOMAIN M.account \cup {v} /\ N.account[v] = row
      /\ IsTable(N.account)
      /\ \A w \in DOMAIN M.account : N.account[w] = M.account[w]
  <2>1. IsTable(M.account) /\ N.account = Overlay(M.account, Only(v, row))
    BY <1>2 DEF Merged, RowsTyped
  <2> QED
    BY ONLY <2>1, <1>2 DEF Overlay, Only, IsTable
<1>6. Grown(M, N)
  BY <1>4, <1>5 DEF Grown, Merged
<1>7. RowsTyped(N)
  <2>1. \A w \in DOMAIN N.account : N.account[w] \in AccountRow
    BY <1>3, <1>5 DEF RowsTyped
  <2>2. DOMAIN N.account \subseteq Reviewers /\ DOMAIN N.member \subseteq N.matters \X DOMAIN N.account
    BY <1>3, <1>4, <1>5 DEF RowsTyped
  <2> QED
    BY <1>4, <1>5, <2>1, <2>2 DEF RowsTyped, Merged
<1>8. Guarded(G, M, N)
  <2>1. Exclusive(AuditLock) \notin G /\ Exclusive(NameLock(v)) \notin G
    BY <1>2, ApartMeans
  <2>2. \A j, w : MemberKept(M, N, j, w)
    BY <1>4 DEF MemberKept
  <2>3. \A j, w : Effective(M, j, w) => N.account[w].active
    BY <1>5 DEF Effective, SeniorIn, SeniorRole
  <2> QED
    BY <1>4, <1>5, <2>1, <2>2, <2>3 DEF Guarded
<1> QED
  BY <1>6, <1>7, <1>8

\* The commit of a new matter (atlas_argus_create_matter).
LEMMA CommitFounding ==
  ASSUME NEW x, NEW H, NEW G, NEW M, NEW N, RowsTyped(M), M.logged \in Nat,
         x.at = "commit", Merged(x, M, N), Apart(G, H), x.call \in CallRecords,
         x.call.op = "open", Founding(x, H, M)
  PROVE  RowsTyped(N) /\ Grown(M, N) /\ Guarded(G, M, N)
<1> DEFINE v == x.call.by
<1>1. Stage(x) = "commit" /\ Claimed(x, H) = H
  BY AtStage
<1>2. /\ v \in DOMAIN M.account /\ Shared(AccountLock(v)) \in H
      /\ x.tx.account = NoRows /\ x.tx.log = <<>>
  BY <1>1 DEF Founding
<1>3. PICK k \in Matters \ M.matters :
        x.tx.matters = {k} /\ x.tx.member = Only(<<k, v>>, SeniorRow)
  BY <1>1 DEF Founding
<1>4. N.account = M.account /\ N.matters = M.matters \cup {k}
  BY <1>2, <1>3, OverlayNone DEF Merged, RowsTyped
<1>5. N.logged = M.logged
  BY <1>2 DEF Merged
<1>6. <<k, v>> \notin DOMAIN M.member
  BY <1>3 DEF RowsTyped
<1>7. /\ DOMAIN N.member = DOMAIN M.member \cup {<<k, v>>}
      /\ N.member[<<k, v>>] = SeniorRow /\ IsTable(N.member)
      /\ \A m \in DOMAIN M.member : N.member[m] = M.member[m]
  <2>1. IsTable(M.member) /\ N.member = Overlay(M.member, Only(<<k, v>>, SeniorRow))
    BY <1>3 DEF Merged, RowsTyped
  <2> QED
    BY ONLY <2>1, <1>6 DEF Overlay, Only, IsTable
<1>8. Grown(M, N)
  BY <1>4, <1>7 DEF Grown, Merged
<1>9. RowsTyped(N)
  <2>1. DOMAIN N.member \subseteq N.matters \X DOMAIN N.account
    BY <1>2, <1>4, <1>7 DEF RowsTyped
  <2>2. SeniorRow \in AccountRow
    BY DEF SeniorRow, AccountRow, ReviewerRoles
  <2>3. \A m \in DOMAIN N.member : N.member[m] \in AccountRow
    BY <1>7, <2>2 DEF RowsTyped
  <2> QED
    BY <1>3, <1>4, <1>7, <2>1, <2>3 DEF RowsTyped, Merged
<1>10. Guarded(G, M, N)
  <2>1. Exclusive(AccountLock(v)) \notin G
    BY <1>2, ApartMeans
  <2>2. ASSUME NEW w, Exclusive(AccountLock(w)) \in G, NEW j
        PROVE  MemberKept(M, N, j, w)
    <3>1. <<j, w>> # <<k, v>>
      BY <2>1, <2>2
    <3> QED
      BY <3>1, <1>7 DEF MemberKept
  <2>3. \A j \in M.matters : \A w : <<j, w>> \notin DOMAIN M.member => <<j, w>> \notin DOMAIN N.member
    BY <1>3, <1>7
  <2>4. \A j, w : Effective(M, j, w) => N.account[w].active
    BY <1>4 DEF Effective, SeniorIn
  <2> QED
    BY <1>4, <1>5, <1>7, <2>2, <2>3, <2>4 DEF Guarded
<1> QED
  BY <1>8, <1>9, <1>10

\* The commit of a restored membership (restore_matter_access).
LEMMA CommitRestoring ==
  ASSUME NEW x, NEW H, NEW G, NEW M, NEW N, RowsTyped(M), M.logged \in Nat,
         x.at = "commit", Merged(x, M, N), Apart(G, H), x.call \in CallRecords,
         x.call.op = "restore", Restoring(x, H, M)
  PROVE  RowsTyped(N) /\ Grown(M, N) /\ Guarded(G, M, N)
<1> DEFINE k == x.call.matter
<1> DEFINE v == x.call.target
<1>1. Stage(x) = "commit" /\ Claimed(x, H) = H
  BY AtStage
<1>2. /\ k \in M.matters /\ v \in DOMAIN M.account /\ <<k, v>> \in M.restored
      /\ x.tx.account = NoRows /\ x.tx.matters = {} /\ x.tx.log = <<>>
      /\ x.tx.member = Only(<<k, v>>, SeniorRow)
  BY <1>1 DEF Restoring
<1>3. \/ Exclusive(PlaceLock(k, v)) \in H /\ <<k, v>> \notin DOMAIN M.member
      \/ Exclusive(MemberLock(k, v)) \in H /\ <<k, v>> \in DOMAIN M.member
  BY <1>1 DEF Restoring
<1>4. N.account = M.account /\ N.matters = M.matters
  BY <1>2, OverlayNone DEF Merged, RowsTyped
<1>5. N.logged = M.logged
  BY <1>2 DEF Merged
<1>6. /\ DOMAIN N.member = DOMAIN M.member \cup {<<k, v>>}
      /\ N.member[<<k, v>>] = SeniorRow /\ IsTable(N.member)
      /\ \A m \in DOMAIN M.member : m # <<k, v>> => N.member[m] = M.member[m]
  <2>1. IsTable(M.member) /\ N.member = Overlay(M.member, Only(<<k, v>>, SeniorRow))
    BY <1>2 DEF Merged, RowsTyped
  <2> QED
    BY ONLY <2>1 DEF Overlay, Only, IsTable
<1>7. Grown(M, N)
  BY <1>4, <1>6 DEF Grown, Merged
<1>8. RowsTyped(N)
  <2>1. DOMAIN N.member \subseteq N.matters \X DOMAIN N.account
    BY <1>2, <1>4, <1>6 DEF RowsTyped
  <2>2. SeniorRow \in AccountRow
    BY DEF SeniorRow, AccountRow, ReviewerRoles
  <2>3. \A m \in DOMAIN N.member : N.member[m] \in AccountRow
    BY <1>6, <2>2 DEF RowsTyped
  <2> QED
    BY <1>4, <1>6, <2>1, <2>3 DEF RowsTyped, Merged
<1>9. Guarded(G, M, N)
  <2>1. ASSUME NEW w, NEW j
        PROVE  MemberKept(M, N, j, w)
    <3>1. CASE <<j, w>> = <<k, v>>
      BY <3>1, <1>2, <1>6 DEF MemberKept, Merged
    <3>2. CASE <<j, w>> # <<k, v>>
      BY <3>2, <1>6 DEF MemberKept
    <3> QED
      BY <3>1, <3>2
  <2>2. ASSUME NEW j, NEW w, Exclusive(PlaceLock(j, w)) \in G, <<j, w>> \notin DOMAIN M.member
        PROVE  <<j, w>> \notin DOMAIN N.member
    <3>1. <<j, w>> # <<k, v>>
      <4>1. CASE Exclusive(PlaceLock(k, v)) \in H
        BY <4>1, <2>2, ApartMeans
      <4>2. CASE <<k, v>> \in DOMAIN M.member
        BY <4>2, <2>2
      <4> QED
        BY <4>1, <4>2, <1>3
    <3> QED
      BY <3>1, <1>6, <2>2
  <2>3. ASSUME NEW j, NEW w, Exclusive(MemberLock(j, w)) \in G, <<j, w>> \in DOMAIN M.member
        PROVE  N.member[<<j, w>>] = M.member[<<j, w>>]
    <3>1. <<j, w>> # <<k, v>>
      <4>1. CASE Exclusive(MemberLock(k, v)) \in H
        BY <4>1, <2>3, ApartMeans
      <4>2. CASE <<k, v>> \notin DOMAIN M.member
        BY <4>2, <2>3
      <4> QED
        BY <4>1, <4>2, <1>3
    <3> QED
      BY <3>1, <1>6, <2>3
  <2>4. \A j, w : Effective(M, j, w) => N.account[w].active
    BY <1>4 DEF Effective, SeniorIn
  <2> QED
    BY <1>4, <1>5, <2>1, <2>2, <2>3, <2>4 DEF Guarded
<1> QED
  BY <1>7, <1>8, <1>9

\* The commit of any request.
LEMMA CommitGuards ==
  ASSUME NEW x, NEW H, NEW G, NEW M, NEW N, RowsTyped(M), M.logged \in Nat,
         x.at = "commit", Merged(x, M, N), Apart(G, H), Working(x, H, M)
  PROVE  RowsTyped(N) /\ Grown(M, N) /\ Guarded(G, M, N)
<1>1. x.call \in CallRecords /\ x.call.op \in Operations
  BY CallFields DEF Working
<1>2. CASE x.call.op \in {"set", "remove"}
  BY <1>1, <1>2, CommitChanging DEF Working
<1>3. CASE x.call.op \in {"suspend", "reinstate"}
  BY <1>1, <1>3, CommitRuling DEF Working
<1>4. CASE x.call.op = "provision"
  BY <1>1, <1>4, CommitProvisioning DEF Working
<1>5. CASE x.call.op = "open"
  BY <1>1, <1>5, CommitFounding DEF Working
<1>6. CASE x.call.op = "restore"
  BY <1>1, <1>6, CommitRestoring DEF Working
<1> QED
  BY <1>1, <1>2, <1>3, <1>4, <1>5, <1>6 DEF Operations

\* The commit of x leaves another request z with what it relies on: two changes of
\* one matter's memberships have both locked a member, and cannot both be decided.
LEMMA CommitUnharmed ==
  ASSUME NEW x, NEW H, NEW z, NEW G, NEW M, NEW N, RowsTyped(M), M.logged \in Nat,
         x.at = "commit", Merged(x, M, N), Apart(G, H), Working(x, H, M), Local(z, G, M),
         x.tx.matters \cap z.tx.matters = {},
         \A k \in Matters : Changes(x, k) /\ Changes(z, k) =>
           x.tx.locked \subseteq z.tx.locked \/ z.tx.locked \subseteq x.tx.locked
  PROVE  Unharmed(z, G, M, N)
<1>1. z.tx.matters \cap N.matters \subseteq M.matters
  BY DEF Merged
<1>2. ASSUME z.call.op \in {"set", "remove"}, Stage(z) \in Settled,
             NEW w, <<z.call.matter, w>> \in M.unseen
      PROVE  <<z.call.matter, w>> \in N.unseen
  <2> DEFINE k == z.call.matter
  <2>1. z.at \notin {"idle", "done"}
    BY <1>2 DEF Stage, Settled
  <2>2. Changing(z, G, M) /\ k \in M.matters /\ k \in Matters
    BY <1>2, <2>1, LocalOf DEF Working, Changing, RowsTyped
  <2>3. z.call.by \in z.tx.locked /\ MemberClaims(k, z.tx.locked) \subseteq G
    BY <1>2, <2>2 DEF Changing
  <2>4. ASSUME Changes(x, k)
        PROVE  FALSE
    <3>1. x.call.op \in {"set", "remove"} /\ x.call.matter = k
      BY <2>4 DEF Changes
    <3>2. x.call.by \in x.tx.locked /\ MemberClaims(k, x.tx.locked) \subseteq H
      BY <3>1 DEF Working, Changing, Stage, Settled
    <3>3. x.tx.locked \subseteq z.tx.locked \/ z.tx.locked \subseteq x.tx.locked
      BY <1>2, <2>2, <2>4 DEF Changes
    <3>4. PICK u : u \in x.tx.locked /\ u \in z.tx.locked
      BY <2>3, <3>2, <3>3
    <3>5. Exclusive(MemberLock(k, u)) \in G /\ Exclusive(MemberLock(k, u)) \in H
      BY <2>3, <3>2, <3>4 DEF MemberClaims
    <3> QED
      BY <3>5, ApartMeans
  <2> QED
    BY <1>2, <2>2, <2>4 DEF Merged
<1> QED
  BY <1>1, <1>2, CommitGuards DEF Unharmed, Spared

-----------------------------------------------------------------------------
(***************************************************************************)
(* The steps of the specification.                                         *)
(***************************************************************************)

\* Nothing is committed, and no request comes or succeeds: the rows stay.
LEMMA RowsStay ==
  ASSUME UNCHANGED <<secured, rows>>,
         \A q \in Requests : /\ Call(q)' = Call(q)
                             /\ req'[q].reply = "ok" <=> req[q].reply = "ok"
  PROVE  Rows' = Rows
<1>1. Restored' = Restored
  BY DEF Restored
<1>2. Committed' = Committed
  BY <1>1 DEF Committed, rows
<1>3. Unseen' = Unseen
  <2>1. \A q \in Requests : \A k : Overlooked(req'[q], Committed, k) <=> Overlooked(req[q], Committed, k)
    BY DEF Overlooked, Call
  <2>2. \A q \in Requests : \A k : Overlooked(req[q], Committed, k)' <=> Overlooked(req[q], Committed, k)
    BY <1>2, <2>1
  <2>3. \A m \in Matters \X Reviewers : \A q \in Requests :
          /\ Call(q).op = "suspend" /\ req[q].reply = "ok" /\ Call(q).target = m[2]
          /\ Overlooked(req[q], Committed, m[1])
          <=> (/\ Call(q).op = "suspend" /\ req[q].reply = "ok" /\ Call(q).target = m[2]
               /\ Overlooked(req[q], Committed, m[1]))'
    BY <2>2
  <2> QED
    BY <2>3 DEF Unseen
<1> QED
  BY <1>1, <1>3 DEF Rows, rows

\* A request moves, with its own locks, and commits nothing.
LEMMA MoveKeeps ==
  ASSUME IInv, NEW r \in Requests, UNCHANGED <<secured, rows>>,
         req' = [req EXCEPT ![r] = req'[r]], held' = [held EXCEPT ![r] = held'[r]],
         IsRequest(req'[r]), req'[r].at # "idle", req'[r].call = req[r].call,
         req'[r].reply # "ok", req[r].reply # "ok", Local(req'[r], held'[r], Rows),
         \A q \in Requests \ {r} : /\ Apart(held'[r], held[q]) /\ Apart(held[q], held'[r])
                                   /\ req'[r].tx.matters \cap Tx(q).matters = {},
         \A k \in Matters : \A q \in Requests \ {r} : Changes(req[r], k) /\ Changes(req[q], k) =>
           req'[r].tx.locked \subseteq Tx(q).locked \/ Tx(q).locked \subseteq req'[r].tx.locked
  PROVE  IInv'
<1>0. /\ req = [q \in Requests |-> req[q]] /\ held = [q \in Requests |-> held[q]]
      /\ \A q \in Requests : IsRequest(req[q]) /\ (req[q].at = "idle" => req[q] = Idle)
  BY DEF IInv, Shaped
<1>1. \A q \in Requests : q # r => req'[q] = req[q] /\ held'[q] = held[q]
  BY <1>0
<1>2. Rows' = Rows
  <2>1. \A q \in Requests : Call(q)' = Call(q)
    BY <1>1 DEF Call
  <2>2. \A q \in Requests : req'[q].reply = "ok" <=> req[q].reply = "ok"
    BY <1>1
  <2> QED
    BY <2>1, <2>2, RowsStay
<1>3. Shaped'
  <2>1. req' = [q \in Requests |-> req'[q]] /\ held' = [q \in Requests |-> held'[q]]
    BY <1>0
  <2>2. \A q \in Requests : IsRequest(req'[q]) /\ (req'[q].at = "idle" => req'[q] = Idle)
    BY <1>0, <1>1
  <2> QED
    BY <2>1, <2>2 DEF Shaped
<1>4. RowsTyped(Rows)' /\ Orderly'
  <2>1. RowsTyped(Rows) /\ \A q \in Requests : Local(req[q], held[q], Rows)
    BY DEF IInv, Orderly
  <2>2. \A q \in Requests : Local(req'[q], held'[q], Rows)
    BY <2>1, <1>1
  <2> QED
    BY <1>2, <2>1, <2>2 DEF Orderly
<1>5. LocksExclusive'
  <2>1. \A p, q \in Requests : p # q => Apart(held[p], held[q])
    BY DEF IInv, LocksExclusive
  <2>2. \A p, q \in Requests : p # q => Apart(held'[p], held'[q])
    BY <2>1, <1>1
  <2> QED
    BY <2>2 DEF LocksExclusive
<1>6. MattersApart'
  <2>1. \A p, q \in Requests : p # q => Tx(p).matters \cap Tx(q).matters = {}
    BY DEF IInv, MattersApart
  <2>2. \A q \in Requests \ {r} : Tx(q)' = Tx(q)
    BY <1>1 DEF Tx
  <2>3. Tx(r)' = req'[r].tx
    BY DEF Tx
  <2>4. \A p, q \in Requests : p # q => (Tx(p).matters \cap Tx(q).matters = {})'
    BY <2>1, <2>2, <2>3
  <2> QED
    BY <2>4 DEF MattersApart
<1>7. Nested'
  <2>1. \A k \in Matters : \A p, q \in Requests : Changes(req[p], k) /\ Changes(req[q], k) =>
          Tx(p).locked \subseteq Tx(q).locked \/ Tx(q).locked \subseteq Tx(p).locked
    BY DEF IInv, Nested
  <2>2. \A q \in Requests \ {r} : Tx(q)' = Tx(q)
    BY <1>1 DEF Tx
  <2>3. Tx(r)' = req'[r].tx
    BY DEF Tx
  <2>4. \A q \in Requests : \A k : Changes(req'[q], k) <=> Changes(req[q], k)
    BY <1>1 DEF Changes
  <2>5. \A k \in Matters : \A p, q \in Requests : Changes(req'[p], k) /\ Changes(req'[q], k) =>
          Tx(p)'.locked \subseteq Tx(q)'.locked \/ Tx(q)'.locked \subseteq Tx(p)'.locked
    BY <2>1, <2>2, <2>3, <2>4
  <2> QED
    BY <2>5 DEF Nested
<1>8. Chained' /\ AnAccountRemains'
  <2>1. Chained /\ AnAccountRemains
    BY DEF IInv
  <2> QED
    BY <2>1 DEF Chained, AccountChainNeverForks, AnAccountRemains, ActiveSenior, rows
<1> QED
  BY <1>3, <1>4, <1>5, <1>6, <1>7, <1>8 DEF IInv

\* What is known of a request at work.
LEMMA AtWork ==
  ASSUME IInv, NEW r \in Requests, req[r].at \notin {"idle", "done"}
  PROVE  /\ IsRequest(req[r]) /\ HasFields(Tx(r), TxFields) /\ req[r].reply = "none"
         /\ Working(req[r], held[r], Rows) /\ Call(r) \in CallRecords
         /\ RowsTyped(Rows)
<1>1. Local(req[r], held[r], Rows) /\ IsRequest(req[r]) /\ RowsTyped(Rows)
  BY DEF IInv, Orderly, Shaped
<1> QED
  BY <1>1, LocalOf DEF IsRequest, TxFields, Tx, Call, Working

\* Proceed and Acquire: the request gets to its next stage.
LEMMA Proceeds ==
  ASSUME IInv, NEW r \in Requests, NEW tx, NEW label, Proceed(r, tx, label),
         HasFields(tx, TxFields), label \notin {"idle", "done", "lock"}
  PROVE  /\ IsRequest(req'[r]) /\ Reaches(req[r], req'[r], held[r], tx, label, {})
         /\ UNCHANGED <<secured, rows, held>> /\ req' = [req EXCEPT ![r] = req'[r]]
<1>1. req = [q \in Requests |-> req[q]] /\ IsRequest(req[r])
  BY DEF IInv, Shaped
<1>2. req' = [req EXCEPT ![r].at = label, ![r].tx = tx]
  BY DEF Proceed
<1>3. req'[r] = [req[r] EXCEPT !.at = label, !.tx = tx] /\ req' = [req EXCEPT ![r] = req'[r]]
  BY <1>1, <1>2
<1> QED
  BY <1>1, <1>3, Proceeded DEF Proceed

\* The request waits for the locks a statement takes before it does.
LEMMA Acquires ==
  ASSUME IInv, NEW r \in Requests, NEW tx, NEW todo, NEW label, Acquire(r, tx, todo, label),
         HasFields(tx, TxFields), label \notin {"idle", "done", "lock"},
         todo \in Seq(Listed(todo))
  PROVE  /\ IsRequest(req'[r]) /\ Reaches(req[r], req'[r], held[r], tx, label, Listed(todo))
         /\ UNCHANGED <<secured, rows, held>> /\ req' = [req EXCEPT ![r] = req'[r]]
<1> DEFINE new == [tx EXCEPT !.todo = todo, !.then = label]
<1> DEFINE at == IF todo = <<>> THEN label ELSE "lock"
<1>1. req = [q \in Requests |-> req[q]] /\ IsRequest(req[r])
  BY DEF IInv, Shaped
<1>2. req' = [req EXCEPT ![r].at = at, ![r].tx = new]
  BY DEF Acquire, Proceed
<1>3. req'[r] = [req[r] EXCEPT !.at = at, !.tx = new] /\ req' = [req EXCEPT ![r] = req'[r]]
  <2> HIDE DEF at, new
  <2> QED
    BY <1>1, <1>2
<1>4. UNCHANGED <<secured, rows, held>>
  BY DEF Acquire, Proceed
<1> QED
  BY <1>1, <1>3, <1>4, Acquired

\* A request gets to a stage with no other matter opened.
LEMMA StageKeeps ==
  ASSUME IInv, NEW r \in Requests, req[r].at \notin {"idle", "done"}, NEW tx, NEW label, NEW L,
         UNCHANGED <<secured, rows, held>>, req' = [req EXCEPT ![r] = req'[r]],
         IsRequest(req'[r]), Reaches(req[r], req'[r], held[r], tx, label, L),
         Working(req[r], held[r], Rows) => Working(req'[r], held[r], Rows),
         \A q \in Requests \ {r} : tx.matters \cap Tx(q).matters = {},
         \A k \in Matters : \A q \in Requests \ {r} : Changes(req[r], k) /\ Changes(req[q], k) =>
           tx.locked \subseteq Tx(q).locked \/ Tx(q).locked \subseteq tx.locked
  PROVE  IInv'
<1>1. req[r].reply = "none" /\ Working(req'[r], held[r], Rows)
  BY AtWork
<1>2. /\ req'[r].call = req[r].call /\ req'[r].reply = "none"
      /\ req'[r].at \notin {"idle", "done"}
      /\ req'[r].at = "lock" => /\ req'[r].tx.todo \in Seq(Listed(req'[r].tx.todo))
                                /\ req'[r].tx.todo # <<>>
      /\ req'[r].tx.locked = tx.locked /\ req'[r].tx.matters = tx.matters
  BY <1>1 DEF Reaches
<1>3. held' = [held EXCEPT ![r] = held'[r]] /\ held'[r] = held[r]
  BY DEF IInv, Shaped
<1>4. Local(req'[r], held[r], Rows)
  BY <1>1, <1>2, LocalOf
<1>5. \A q \in Requests \ {r} : Apart(held[r], held[q]) /\ Apart(held[q], held[r])
  BY DEF IInv, LocksExclusive
<1>6. UNCHANGED <<secured, rows>>
  OBVIOUS
<1> QED
  BY <1>1, <1>2, <1>3, <1>4, <1>5, <1>6, MoveKeeps

\* A request gets to a stage with what it has locked and opened before.
LEMMA PlainKeeps ==
  ASSUME IInv, NEW r \in Requests, req[r].at \notin {"idle", "done"}, NEW tx, NEW label, NEW L,
         UNCHANGED <<secured, rows, held>>, req' = [req EXCEPT ![r] = req'[r]],
         IsRequest(req'[r]), Reaches(req[r], req'[r], held[r], tx, label, L),
         Working(req[r], held[r], Rows) => Working(req'[r], held[r], Rows),
         tx.matters = Tx(r).matters, tx.locked = Tx(r).locked
  PROVE  IInv'
<1>1. \A q \in Requests \ {r} : tx.matters \cap Tx(q).matters = {}
  BY DEF IInv, MattersApart
<1>2. \A k \in Matters : \A q \in Requests \ {r} : Changes(req[r], k) /\ Changes(req[q], k) =>
        tx.locked \subseteq Tx(q).locked \/ Tx(q).locked \subseteq tx.locked
  BY DEF IInv, Nested
<1> QED
  BY <1>1, <1>2, StageKeeps

\* NoChanges is a transaction's record.
LEMMA NoChangesFields ==
  /\ HasFields(NoChanges, TxFields) /\ NoChanges.locked = {} /\ NoChanges.matters = {}
  /\ NoChanges.seniors = {} /\ NoChanges.affected = <<>> /\ NoChanges.role = NoRole
  /\ NoChanges.account = NoRows /\ NoChanges.member = NoRows /\ NoChanges.log = <<>>
  /\ NoChanges.todo = <<>> /\ NoChanges.then = "commit"
BY DEF NoChanges, HasFields, TxFields

\* A request that is over (the response is sent).
Over(call, reply) == [Idle EXCEPT !.at = "done", !.call = call, !.reply = reply]

\* A request that is over has no transaction any more (short_request_session).
LEMMA OverFields ==
  ASSUME NEW call, NEW reply
  PROVE  /\ IsRequest(Over(call, reply))
         /\ Over(call, reply).at = "done" /\ Over(call, reply).call = call
         /\ Over(call, reply).reply = reply /\ Over(call, reply).tx = NoChanges
<1>1. /\ HasFields(Idle, {"at", "call", "tx", "reply"}) /\ Idle.tx = NoChanges
  BY DEF Idle, HasFields
<1> QED
  BY <1>1, NoChangesFields DEF Over, IsRequest, HasFields, TxFields

\* Abort: a request is over without a trace.
LEMMA AbortKeeps ==
  ASSUME IInv, NEW r \in Requests, req[r].at \notin {"idle", "done"},
         NEW reply, reply # "ok", Abort(r, reply)
  PROVE  IInv'
<1>1. req = [q \in Requests |-> req[q]] /\ held = [q \in Requests |-> held[q]]
  BY DEF IInv, Shaped
<1>2. /\ req'[r] = [Idle EXCEPT !.at = "done", !.call = Call(r), !.reply = reply]
      /\ req' = [req EXCEPT ![r] = req'[r]]
      /\ held'[r] = {} /\ held' = [held EXCEPT ![r] = held'[r]]
      /\ UNCHANGED <<secured, rows>>
  BY <1>1 DEF Abort
<1>3. /\ IsRequest(req'[r]) /\ req'[r].at = "done" /\ req'[r].call = req[r].call
      /\ req'[r].reply # "ok" /\ req'[r].tx = NoChanges
  <2>1. /\ IsRequest(req'[r]) /\ req'[r].at = "done" /\ req'[r].call = Call(r)
        /\ req'[r].reply = reply /\ req'[r].tx = NoChanges
    <3>1. req'[r] = Over(Call(r), reply)
      BY <1>2 DEF Over
    <3> QED
      BY ONLY <3>1, OverFields
  <2> QED
    BY <2>1 DEF Call
<1>4. Local(req'[r], held'[r], Rows)
  BY <1>3, LocalOf
<1>5. req[r].reply # "ok"
  BY AtWork
<1>6. \A q \in Requests \ {r} : /\ Apart(held'[r], held[q]) /\ Apart(held[q], held'[r])
                                /\ req'[r].tx.matters \cap Tx(q).matters = {}
  BY <1>2, <1>3, NoChangesFields DEF Apart
<1>7. \A q \in Requests : req'[r].tx.locked \subseteq Tx(q).locked
  BY <1>3, NoChangesFields
<1> QED
  BY <1>2, <1>3, <1>4, <1>5, <1>6, <1>7, MoveKeeps

-----------------------------------------------------------------------------
(***************************************************************************)
(* The actions.                                                            *)
(***************************************************************************)

\* The authority operators look at the committed rows.
LEMMA Looks ==
  ASSUME RowsTyped(Rows)
  PROVE  /\ \A k : MembersOf(k) = MembersIn(Rows, k)
         /\ \A k, v : ActiveMember(k, v) <=> MemberIn(Rows, k, v)
         /\ \A k, v : ActiveSeniorMember(k, v) <=> SeniorOn(Rows, k, v)
         /\ \A v : ActiveSenior(v) <=> SeniorIn(Rows, v)
         /\ \A k, v : v \in EffectiveSeniors(k) <=> Effective(Rows, k, v)
         /\ \A k, v : Sees(v, k) <=> ~secured \/ MemberIn(Rows, k, v)
<1>1. /\ Rows.member = member /\ Rows.account = account /\ Rows.matters = matters
      /\ Rows.secured = secured
  BY DEF Rows
<1>2. DOMAIN member \subseteq matters \X DOMAIN account /\ DOMAIN account \subseteq Reviewers
  BY <1>1 DEF RowsTyped
<1>3. \A k, v : <<k, v>> \in DOMAIN member => v \in Reviewers
  BY <1>2
<1>4. \A k : MembersOf(k) = MembersIn(Rows, k)
  BY <1>1 DEF MembersOf, MembersIn
<1>5. \A k, v : ActiveMember(k, v) <=> MemberIn(Rows, k, v)
  BY <1>1, <1>3 DEF ActiveMember, MemberIn, MembersOf
<1>6. \A k, v : ActiveSeniorMember(k, v) <=> SeniorOn(Rows, k, v)
  BY <1>1, <1>5 DEF ActiveSeniorMember, SeniorOn
<1>7. \A v : ActiveSenior(v) <=> SeniorIn(Rows, v)
  BY <1>1 DEF ActiveSenior, SeniorIn, SeniorRole
<1>8. \A k, v : v \in EffectiveSeniors(k) <=> Effective(Rows, k, v)
  <2>1. \A k, v : Effective(Rows, k, v) => v \in Reviewers
    BY <1>1, <1>2 DEF Effective, SeniorIn, SeniorRole
  <2> QED
    BY <1>6, <1>7, <2>1 DEF EffectiveSeniors, Effective
<1>9. \A k, v : Sees(v, k) <=> ~secured \/ MemberIn(Rows, k, v)
  BY <1>5 DEF Sees
<1> QED
  BY <1>4, <1>5, <1>6, <1>7, <1>8, <1>9

\* The members of a matter are finitely many reviewers, who are numbers.
LEMMA MembersCounted ==
  ASSUME NEW M, NEW k
  PROVE  MembersIn(M, k) \subseteq Nat /\ IsFiniteSet(MembersIn(M, k))
<1>1. MembersIn(M, k) \in SUBSET Reviewers
  BY DEF MembersIn
<1>2. Reviewers \subseteq Nat /\ IsFiniteSet(Reviewers)
  BY AuthorityAssumption
<1> QED
  BY <1>1, <1>2, FS_Subset

\* Which operations a stage belongs to.
LEMMA StageOps ==
  ASSUME NEW x, NEW H, NEW M, Working(x, H, M)
  PROVE  /\ x.call.op \in Operations
         /\ Stage(x) = "members" => x.call.op \in {"set", "remove", "suspend", "reinstate"}
         /\ Stage(x) = "decide" => x.call.op \in {"set", "remove"}
         /\ Stage(x) = "insert" => x.call.op \in {"set", "remove", "restore"}
         /\ Stage(x) \in {"seniors", "authority", "account", "replacement", "write"} =>
              x.call.op \in {"suspend", "reinstate"}
         /\ Stage(x) \in {"audit", "append"} =>
              x.call.op \in {"set", "remove", "suspend", "reinstate", "provision"}
         /\ Stage(x) \in {"provision", "named"} => x.call.op = "provision"
         /\ Stage(x) = "open" => x.call.op = "open"
         /\ Stage(x) \in {"restore", "examine"} => x.call.op = "restore"
<1>1. x.call.op \in Operations
  BY CallFields DEF Working
<1>2. CASE x.call.op \in {"set", "remove"}
  BY <1>2 DEF Working, Changing, Settled, Operations
<1>3. CASE x.call.op \in {"suspend", "reinstate"}
  BY <1>3 DEF Working, Ruling, Ruled, Audited, Operations
<1>4. CASE x.call.op = "provision"
  BY <1>4 DEF Working, Provisioning, Audited, Operations
<1>5. CASE x.call.op = "open"
  BY <1>5 DEF Working, Founding, Operations
<1>6. CASE x.call.op = "restore"
  BY <1>6 DEF Working, Restoring, Operations
<1> QED
  BY <1>1, <1>2, <1>3, <1>4, <1>5, <1>6 DEF Operations

\* A lock is granted (TakeLock).
LEMMA TakeLockKeeps ==
  ASSUME IInv, NEW r \in Requests, TakeLock(r)
  PROVE  IInv'
<1> DEFINE x == req[r]
<1> DEFINE a == Head(x.tx.todo)
<1>1. /\ req = [q \in Requests |-> req[q]] /\ held = [q \in Requests |-> held[q]]
      /\ IsRequest(x) /\ Local(x, held[r], Rows)
  BY DEF IInv, Shaped, Orderly
<1>2. x.at = "lock" /\ Blockers(a, r) = {} /\ UNCHANGED <<secured, rows>>
  BY DEF TakeLock, At, Tx
<1>3. held'[r] = held[r] \cup {a} /\ held' = [held EXCEPT ![r] = held'[r]]
  BY <1>1 DEF TakeLock, Tx
<1>4. /\ req'[r] = [x EXCEPT !.tx.todo = Tail(x.tx.todo),
                             !.at = IF Tail(x.tx.todo) = <<>> THEN x.tx.then ELSE "lock"]
      /\ req' = [req EXCEPT ![r] = req'[r]]
  BY <1>1 DEF TakeLock, Tx
<1>5. IsRequest(req'[r]) /\ Local(req'[r], held'[r], Rows)
  <2>1. IsRequest(req'[r]) /\ Local(req'[r], held[r] \cup {Head(x.tx.todo)}, Rows)
    BY <1>1, <1>2, <1>4, TookLock
  <2> QED
    BY <2>1, <1>3
<1>6. /\ req'[r].call = x.call /\ req'[r].reply = x.reply
      /\ req'[r].tx.locked = x.tx.locked /\ req'[r].tx.matters = x.tx.matters
  BY <1>1, <1>4 DEF IsRequest, HasFields
<1>7. req'[r].at # "idle"
  <2>1. x.tx.then \notin {"lock", "idle", "done"}
    BY <1>1, <1>2, LocalOf, StagesNamed DEF Stage
  <2>2. req'[r].at \in {x.tx.then, "lock"}
    BY <1>1, <1>4 DEF IsRequest, HasFields
  <2> QED
    BY <2>1, <2>2
<1>8. x.reply = "none"
  BY <1>1, <1>2, LocalOf
<1>9. \A q \in Requests \ {r} : /\ Apart(held'[r], held[q]) /\ Apart(held[q], held'[r])
                                /\ req'[r].tx.matters \cap Tx(q).matters = {}
  <2>1. ASSUME NEW q \in Requests \ {r}
        PROVE  /\ Apart(held'[r], held[q]) /\ Apart(held[q], held'[r])
               /\ req'[r].tx.matters \cap Tx(q).matters = {}
    <3>1. \A b \in held[q] : ~Conflicting(b, a)
      BY <1>2 DEF Blockers
    <3>2. \A b \in held[q] : ~Conflicting(a, b)
      BY <3>1 DEF Conflicting
    <3>3. Apart(held[r], held[q]) /\ Apart(held[q], held[r])
      BY DEF IInv, LocksExclusive
    <3>4. Tx(r).matters \cap Tx(q).matters = {}
      BY DEF IInv, MattersApart
    <3> QED
      BY <1>3, <1>6, <3>1, <3>2, <3>3, <3>4 DEF Apart, Tx
  <2> QED
    BY <2>1
<1>10. \A k \in Matters : \A q \in Requests \ {r} : Changes(req[r], k) /\ Changes(req[q], k) =>
         req'[r].tx.locked \subseteq Tx(q).locked \/ Tx(q).locked \subseteq req'[r].tx.locked
  BY <1>6 DEF IInv, Nested, Tx
<1> QED
  BY <1>2, <1>3, <1>4, <1>5, <1>6, <1>7, <1>8, <1>9, <1>10, MoveKeeps

\* SELECT ... FOR UPDATE of a matter's memberships (FindMembers): whoever has locked
\* some of them before, those are among the ones there are now.
LEMMA FindMembersKeeps ==
  ASSUME IInv, NEW r \in Requests, FindMembers(r)
  PROVE  IInv'
<1> DEFINE x == req[r]
<1> DEFINE k == Matter(r)
<1> DEFINE seen == IF Sees(Call(r).by, Matter(r)) THEN MembersOf(Matter(r)) ELSE {}
<1> DEFINE tx == [Tx(r) EXCEPT !.locked = seen]
<1>1. x.at = "members" /\ Acquire(r, tx, MemberLocks(k, seen), AfterMembers(r))
  BY DEF FindMembers, At
<1> HIDE DEF seen
<1>2. /\ IsRequest(x) /\ HasFields(Tx(r), TxFields) /\ Working(x, held[r], Rows)
      /\ RowsTyped(Rows)
  BY <1>1, AtWork
<1>3. Stage(x) = "members" /\ x.call.op \in {"set", "remove", "suspend", "reinstate"}
  BY <1>1, <1>2, AtStage, StageOps
<1>4. seen = {} \/ seen = MembersIn(Rows, k)
  BY <1>2, Looks DEF seen
<1>5. seen \subseteq Nat /\ IsFiniteSet(seen) /\ seen \subseteq MembersIn(Rows, k)
  BY <1>4, MembersCounted, FS_EmptySet
<1>6. /\ HasFields(tx, TxFields) /\ tx.locked = seen /\ tx.matters = Tx(r).matters
  BY <1>2 DEF HasFields, TxFields
<1>7. AfterMembers(r) \in {"decide", "replacement"}
  BY DEF AfterMembers
<1>8. /\ IsRequest(req'[r])
      /\ Reaches(x, req'[r], held[r], tx, AfterMembers(r), MemberClaims(k, seen))
      /\ UNCHANGED <<secured, rows, held>> /\ req' = [req EXCEPT ![r] = req'[r]]
  <2>1. /\ Listed(MemberLocks(k, seen)) = MemberClaims(k, seen)
        /\ MemberLocks(k, seen) \in Seq(Listed(MemberLocks(k, seen)))
    BY <1>5, ListedEach
  <2> HIDE DEF tx, k
  <2> QED
    BY <1>1, <1>6, <1>7, <2>1, Acquires
<1>9. Working(x, held[r], Rows) => Working(req'[r], held[r], Rows)
  <2>1. req'[r].call = x.call
    BY <1>8 DEF Reaches
  <2>2. CASE x.call.op \in {"set", "remove"}
    <3>1. Changing(x, held[r], Rows)
      BY <1>2, <2>2 DEF Working
    <3>2. k = x.call.matter /\ AfterMembers(r) = "decide"
      BY <2>2, <3>1 DEF Matter, Tx, AfterMembers, Call, Changing
    <3>3. Changing(req'[r], held[r], Rows)
      BY <1>1, <1>2, <1>5, <1>8, <3>1, <3>2, ChangeFoundMembers DEF Tx
    <3> QED
      BY <1>2, <2>1, <2>2, <3>3 DEF Working
  <2>3. CASE x.call.op \in {"suspend", "reinstate"}
    <3>1. Ruling(x, held[r], Rows)
      BY <1>2, <2>3 DEF Working
    <3>2. k = Head(x.tx.affected) /\ AfterMembers(r) = "replacement"
      BY <2>3 DEF Matter, Tx, AfterMembers, Call
    <3>3. seen = {} \/ x.call.target \in seen \/ ~Effective(Rows, k, x.call.target)
      <4>1. Effective(Rows, k, x.call.target) => x.call.target \in MembersIn(Rows, k)
        BY <1>2 DEF Effective, SeniorOn, MemberIn, MembersIn, SeniorIn, SeniorRole, RowsTyped
      <4> QED
        BY <1>4, <4>1
    <3>4. Ruling(req'[r], held[r], Rows)
      BY <1>1, <1>2, <1>8, <3>1, <3>2, <3>3, RulingFoundMembers DEF Tx
    <3> QED
      BY <1>2, <2>1, <2>3, <3>4 DEF Working
  <2> QED
    BY <1>3, <2>2, <2>3
<1>10. \A q \in Requests \ {r} : tx.matters \cap Tx(q).matters = {}
  BY <1>6 DEF IInv, MattersApart
<1>11. \A j \in Matters : \A q \in Requests \ {r} : Changes(req[r], j) /\ Changes(req[q], j) =>
         tx.locked \subseteq Tx(q).locked \/ Tx(q).locked \subseteq tx.locked
  <2> SUFFICES ASSUME NEW j \in Matters, NEW q \in Requests \ {r},
                      Changes(req[r], j), Changes(req[q], j)
               PROVE  Tx(q).locked \subseteq MembersIn(Rows, j) /\ k = j
    BY <1>4, <1>6
  <2>1. Local(req[q], held[q], Rows)
    BY DEF IInv, Orderly
  <2>2. Tx(q).locked \subseteq MembersIn(Rows, j)
    <3>1. CASE req[q].at \in {"idle", "done"}
      BY <2>1, <3>1, LocalOf, NoChangesFields DEF Tx
    <3>2. CASE req[q].at \notin {"idle", "done"}
      <4>1. Working(req[q], held[q], Rows)
        BY <2>1, <3>2, LocalOf
      <4> QED
        BY <4>1 DEF Working, Changing, Changes, Tx
    <3> QED
      BY <3>1, <3>2
  <2>3. k = j
    BY <1>2 DEF Working, Changing, Changes, Matter, Tx
  <2> QED
    BY <2>2, <2>3
<1> HIDE DEF tx, k
<1> QED
  BY <1>1, <1>8, <1>9, <1>10, <1>11, StageKeeps

\* The membership's new row is decided on (DecideMembership).
LEMMA DecideMembershipKeeps ==
  ASSUME IInv, NEW r \in Requests, DecideMembership(r)
  PROVE  IInv'
<1> DEFINE x == req[r]
<1> DEFINE k == Matter(r)
<1> DEFINE v == Call(r).target
<1> DEFINE row == [role |-> RoleGiven(r), active |-> Call(r).op = "set"]
<1> DEFINE tx == [Tx(r) EXCEPT !.member = Only(<<k, v>>, row)]
<1>1. x.at = "decide"
  BY DEF DecideMembership, At
<1>2. /\ IsRequest(x) /\ HasFields(Tx(r), TxFields) /\ Working(x, held[r], Rows)
      /\ RowsTyped(Rows) /\ x.call \in CallRecords
  BY <1>1, AtWork DEF Call
<1>3. Stage(x) = "decide" /\ x.call.op \in {"set", "remove"} /\ Changing(x, held[r], Rows)
  BY <1>1, <1>2, AtStage, StageOps DEF Working
<1>4. k = x.call.matter
  BY <1>3 DEF Matter, Tx, Changing
<1>5. CASE Abort(r, "refused")
  BY <1>1, <1>5, AbortKeeps
<1>6. CASE /\ v \in DOMAIN account /\ MayBecome(r, row)
           /\ \/ v \in Tx(r).locked /\ Proceed(r, tx, "audit")
              \/ v \notin Tx(r).locked /\ Acquire(r, tx, <<Exclusive(PlaceLock(k, v))>>, "insert")
  <2>1. /\ Call(r).by \in Tx(r).locked /\ RemainingSeniors(r, row) # {}
    BY <1>6 DEF MayBecome
  <2>2. row \in AccountRow
    <3>1. x.tx.role \in ReviewerRoles \cup {NoRole} /\ x.tx.locked \subseteq MembersIn(Rows, k)
      BY <1>3, <1>4 DEF Changing
    <3>2. RoleGiven(r) \in ReviewerRoles
      <4>1. CASE Tx(r).role # NoRole
        <5>1. RoleGiven(r) = Tx(r).role
          BY <4>1 DEF RoleGiven
        <5> QED
          BY <4>1, <5>1, <3>1 DEF Tx
      <4>2. CASE Tx(r).role = NoRole /\ v \in Tx(r).locked
        <5>1. <<k, v>> \in DOMAIN member
          BY <4>2, <3>1 DEF MembersIn, Tx, Rows
        <5>2. member[<<k, v>>] \in AccountRow
          BY <5>1, <1>2 DEF RowsTyped, Rows
        <5> QED
          BY <4>2, <5>2 DEF RoleGiven, AccountRow
      <4>3. CASE Tx(r).role = NoRole /\ v \notin Tx(r).locked
        <5>1. account[v] \in AccountRow
          BY <1>6, <1>2 DEF RowsTyped, Rows
        <5> QED
          BY <4>3, <5>1 DEF RoleGiven, AccountRow
      <4> QED
        BY <4>1, <4>2, <4>3
    <3> QED
      BY <3>2 DEF AccountRow
  <2>3. Counted(x, Rows, row)
    <3>1. PICK w : w \in RemainingSeniors(r, row)
      BY <2>1
    <3>2. CASE /\ w \in Tx(r).locked \ {v} /\ ActiveSeniorMember(k, w) /\ ActiveSenior(w)
      <4>1. SeniorOn(Rows, k, w) /\ SeniorIn(Rows, w)
        BY <3>2, <1>2, Looks
      <4> QED
        BY <3>2, <4>1, <1>4 DEF Counted, SeniorIn, Tx, Call
    <3>3. CASE row.active /\ row.role = SeniorCounsel
      <4>1. row = SeniorRow
        BY <3>3 DEF SeniorRow
      <4> QED
        BY <4>1 DEF Counted
    <3> QED
      BY <3>1, <3>2, <3>3 DEF RemainingSeniors
  <2> HIDE DEF row
  <2>4. HasFields(tx, TxFields) /\ tx.locked = Tx(r).locked /\ tx.matters = Tx(r).matters
    BY <1>2 DEF HasFields, TxFields
  <2>5. ASSUME NEW stage, NEW L, IsRequest(req'[r]),
               Reaches(x, req'[r], held[r], tx, stage, L),
               UNCHANGED <<secured, rows, held>>, req' = [req EXCEPT ![r] = req'[r]],
               \/ v \in Tx(r).locked /\ stage = "audit"
               \/ v \notin Tx(r).locked /\ stage = "insert" /\ Exclusive(PlaceLock(k, v)) \in L
        PROVE  IInv'
    <3>1. req'[r].call = x.call
      BY <2>5 DEF Reaches
    <3>2. Changing(req'[r], held[r], Rows)
      <4>1. x.call.by \in x.tx.locked /\ x.call.target \in DOMAIN Rows.account
        BY <2>1, <1>6 DEF Call, Tx, Rows
      <4>2. Reaches(x, req'[r], held[r],
                    [x.tx EXCEPT !.member = Only(<<x.call.matter, x.call.target>>, row)], stage, L)
        BY <2>5, <1>4 DEF Call, Tx
      <4>3. \/ x.call.target \in x.tx.locked /\ stage = "audit"
            \/ /\ x.call.target \notin x.tx.locked /\ stage = "insert"
               /\ Exclusive(PlaceLock(x.call.matter, x.call.target)) \in L
        BY <2>5, <1>4 DEF Call, Tx
      <4> QED
        BY <1>1, <1>2, <1>3, <2>2, <2>3, <4>1, <4>2, <4>3, ChangeDecided
    <3>3. Working(req'[r], held[r], Rows)
      BY <1>2, <1>3, <3>1, <3>2 DEF Working
    <3> HIDE DEF tx
    <3> QED
      BY <1>1, <2>4, <2>5, <3>3, PlainKeeps
  <2>6. CASE v \in Tx(r).locked /\ Proceed(r, tx, "audit")
    <3> HIDE DEF tx, v
    <3> QED
      BY <2>4, <2>5, <2>6, Proceeds
  <2>7. CASE v \notin Tx(r).locked /\ Acquire(r, tx, <<Exclusive(PlaceLock(k, v))>>, "insert")
    <3> HIDE DEF tx, v, k
    <3> QED
      BY <2>4, <2>5, <2>7, Acquires, ListedFew
  <2> QED
    BY <1>6, <2>6, <2>7
<1> QED
  BY <1>5, <1>6 DEF DecideMembership

\* A membership is inserted (InsertMembership).
LEMMA InsertMembershipKeeps ==
  ASSUME IInv, NEW r \in Requests, InsertMembership(r)
  PROVE  IInv'
<1> DEFINE x == req[r]
<1> DEFINE k == Call(r).matter
<1> DEFINE v == Call(r).target
<1> DEFINE next == IF Call(r).op = "restore" THEN "commit" ELSE "audit"
<1> DEFINE todo == <<Shared(MatterLock(k)), Shared(AccountLock(v))>>
<1>1. x.at = "insert"
  BY DEF InsertMembership, At
<1>2. /\ IsRequest(x) /\ HasFields(Tx(r), TxFields) /\ Working(x, held[r], Rows)
      /\ RowsTyped(Rows) /\ x.call \in CallRecords
  BY <1>1, AtWork DEF Call
<1>3. Stage(x) = "insert" /\ x.call.op \in {"set", "remove", "restore"}
  BY <1>1, <1>2, AtStage, StageOps
<1>4. CASE Abort(r, "index violated")
  BY <1>1, <1>4, AbortKeeps
<1>5. CASE v \notin MembersOf(k) /\ Acquire(r, Tx(r), todo, next)
  <2>1. <<k, v>> \notin DOMAIN member
    <3>1. v \in Reviewers
      BY <1>2, <1>3, CallFields DEF Call
    <3> QED
      BY <1>5, <3>1 DEF MembersOf
  <2>2. /\ IsRequest(req'[r]) /\ Reaches(x, req'[r], held[r], Tx(r), next, Listed(todo))
        /\ UNCHANGED <<secured, rows, held>> /\ req' = [req EXCEPT ![r] = req'[r]]
    <3>1. todo \in Seq(Listed(todo)) /\ next \notin {"idle", "done", "lock"}
      BY ListedFew
    <3> HIDE DEF todo, next
    <3> QED
      BY <1>2, <1>5, <3>1, Acquires
  <2>3. Shared(AccountLock(v)) \in Listed(todo)
    BY ListedFew
  <2> HIDE DEF todo
  <2>4. req'[r].call = x.call
    BY <2>2 DEF Reaches
  <2>5. Working(req'[r], held[r], Rows)
    <3>1. <<x.call.matter, x.call.target>> \notin DOMAIN Rows.member
      BY <2>1 DEF Rows, Call
    <3>2. CASE x.call.op \in {"set", "remove"}
      <4>1. Reaches(x, req'[r], held[r], x.tx, "audit", Listed(todo))
        BY <2>2, <3>2 DEF Tx, Call
      <4>2. Changing(req'[r], held[r], Rows)
        BY <1>1, <1>2, <3>1, <3>2, <4>1, ChangeInserted DEF Working
      <4> QED
        BY <1>2, <2>4, <3>2, <4>2 DEF Working
    <3>3. CASE x.call.op = "restore"
      <4>1. Reaches(x, req'[r], held[r], x.tx, "commit", Listed(todo))
        BY <2>2, <3>3 DEF Tx, Call
      <4>2. Restoring(req'[r], held[r], Rows)
        BY <1>1, <1>2, <2>3, <3>1, <3>3, <4>1, RestoreInserted DEF Working, Call
      <4> QED
        BY <1>2, <2>4, <3>3, <4>2 DEF Working
    <3> QED
      BY <1>3, <3>2, <3>3
  <2> HIDE DEF next
  <2> QED
    BY <1>1, <2>2, <2>5, PlainKeeps
<1> QED
  BY <1>4, <1>5 DEF InsertMembership

\* SELECT ... FOR UPDATE of the Senior accounts (FindSeniors).
LEMMA FindSeniorsKeeps ==
  ASSUME IInv, NEW r \in Requests, FindSeniors(r)
  PROVE  IInv'
<1> DEFINE x == req[r]
<1> DEFINE seniors == {v \in DOMAIN account : account[v].role = SeniorCounsel}
<1> DEFINE tx == [Tx(r) EXCEPT !.seniors = seniors]
<1>1. x.at = "seniors" /\ Acquire(r, tx, AccountLocks(seniors), "authority")
  BY DEF FindSeniors, At
<1>2. /\ IsRequest(x) /\ HasFields(Tx(r), TxFields) /\ Working(x, held[r], Rows)
      /\ RowsTyped(Rows) /\ x.call \in CallRecords
  BY <1>1, AtWork DEF Call
<1>3. Stage(x) = "seniors" /\ x.call.op \in {"suspend", "reinstate"} /\ Ruling(x, held[r], Rows)
  BY <1>1, <1>2, AtStage, StageOps DEF Working
<1>4. \A u \in seniors : SeniorRole(Rows, u)
  BY DEF SeniorRole, Rows
<1>5. seniors \subseteq Nat /\ IsFiniteSet(seniors)
  <2>1. seniors \in SUBSET Reviewers
    BY <1>2 DEF RowsTyped, Rows
  <2> HIDE DEF seniors
  <2> QED
    BY <2>1, AuthorityAssumption, FS_Subset
<1> HIDE DEF seniors
<1>6. HasFields(tx, TxFields) /\ tx.locked = Tx(r).locked /\ tx.matters = Tx(r).matters
  BY <1>2 DEF HasFields, TxFields
<1>7. /\ IsRequest(req'[r])
      /\ Reaches(x, req'[r], held[r], tx, "authority", AccountClaims(seniors))
      /\ UNCHANGED <<secured, rows, held>> /\ req' = [req EXCEPT ![r] = req'[r]]
  <2>1. /\ Listed(AccountLocks(seniors)) = AccountClaims(seniors)
        /\ AccountLocks(seniors) \in Seq(Listed(AccountLocks(seniors)))
    BY <1>5, ListedEach
  <2> HIDE DEF tx
  <2> QED
    BY <1>1, <1>6, <2>1, Acquires
<1>8. Working(req'[r], held[r], Rows)
  <2>1. req'[r].call = x.call
    BY <1>7 DEF Reaches
  <2>2. Ruling(req'[r], held[r], Rows)
    BY <1>1, <1>2, <1>3, <1>4, <1>7, RulingFoundSeniors DEF Tx
  <2> QED
    BY <1>2, <1>3, <2>1, <2>2 DEF Working
<1> HIDE DEF tx
<1> QED
  BY <1>1, <1>6, <1>7, <1>8, PlainKeeps

\* The administrator is looked at again (CheckAuthority).
LEMMA CheckAuthorityKeeps ==
  ASSUME IInv, NEW r \in Requests, CheckAuthority(r)
  PROVE  IInv'
<1> DEFINE x == req[r]
<1> DEFINE v == Call(r).target
<1> DEFINE todo == IF v \in Tx(r).seniors THEN <<>> ELSE <<Exclusive(AccountLock(v))>>
<1>1. x.at = "authority"
  BY DEF CheckAuthority, At
<1>2. /\ IsRequest(x) /\ HasFields(Tx(r), TxFields) /\ Working(x, held[r], Rows)
      /\ RowsTyped(Rows) /\ x.call \in CallRecords
  BY <1>1, AtWork DEF Call
<1>3. Stage(x) = "authority" /\ x.call.op \in {"suspend", "reinstate"} /\ Ruling(x, held[r], Rows)
  BY <1>1, <1>2, AtStage, StageOps DEF Working
<1>4. CASE Abort(r, "refused")
  BY <1>1, <1>4, AbortKeeps
<1>5. CASE /\ Call(r).by \in Tx(r).seniors /\ account[Call(r).by].active /\ v \in DOMAIN account
           /\ Acquire(r, Tx(r), todo, "account")
  <2>1. /\ todo \in Seq(Listed(todo))
        /\ v \in Tx(r).seniors \/ Exclusive(AccountLock(v)) \in Listed(todo)
    BY ListedFew
  <2> HIDE DEF todo
  <2>2. /\ IsRequest(req'[r]) /\ Reaches(x, req'[r], held[r], Tx(r), "account", Listed(todo))
        /\ UNCHANGED <<secured, rows, held>> /\ req' = [req EXCEPT ![r] = req'[r]]
    BY <1>2, <1>5, <2>1, Acquires
  <2>3. req'[r].call = x.call
    BY <2>2 DEF Reaches
  <2>4. Ruling(req'[r], held[r], Rows)
    <3>1. /\ x.call.by \in x.tx.seniors /\ Rows.account[x.call.by].active
          /\ x.call.target \in DOMAIN Rows.account
          /\ x.call.target \in x.tx.seniors \/ Exclusive(AccountLock(x.call.target)) \in Listed(todo)
      BY <1>5, <2>1 DEF Rows, Call, Tx
    <3>2. Reaches(x, req'[r], held[r], x.tx, "account", Listed(todo))
      BY <2>2 DEF Tx
    <3> QED
      BY <1>1, <1>2, <1>3, <3>1, <3>2, RulingCheckedAuthority
  <2>5. Working(req'[r], held[r], Rows)
    BY <1>2, <1>3, <2>3, <2>4 DEF Working
  <2> QED
    BY <1>1, <2>2, <2>5, PlainKeeps
<1> QED
  BY <1>4, <1>5 DEF CheckAuthority

\* The matters of the account are listed (CheckAccount).
LEMMA CheckAccountKeeps ==
  ASSUME IInv, NEW r \in Requests, CheckAccount(r)
  PROVE  IInv'
<1> DEFINE x == req[r]
<1> DEFINE suspending == Call(r).op = "suspend" /\ account[Call(r).target].active
<1> DEFINE list == IF suspending THEN InOrder(AffectedMatters(r)) ELSE <<>>
<1> DEFINE tx == [Tx(r) EXCEPT !.affected = list]
<1>1. x.at = "account"
  BY DEF CheckAccount, At
<1>2. /\ IsRequest(x) /\ HasFields(Tx(r), TxFields) /\ Working(x, held[r], Rows)
      /\ RowsTyped(Rows) /\ x.call \in CallRecords
  BY <1>1, AtWork DEF Call
<1>3. Stage(x) = "account" /\ x.call.op \in {"suspend", "reinstate"} /\ Ruling(x, held[r], Rows)
  BY <1>1, <1>2, AtStage, StageOps DEF Working
<1>4. CASE Abort(r, "refused")
  BY <1>1, <1>4, AbortKeeps
<1>5. CASE Proceed(r, tx, AfterMatter(list))
  <2>1. /\ AffectedMatters(r) \in SUBSET Matters /\ AffectedMatters(r) \subseteq Nat
        /\ IsFiniteSet(AffectedMatters(r))
    <3>1. AffectedMatters(r) \in SUBSET Matters
      BY <1>2 DEF AffectedMatters, RowsTyped, Rows
    <3> QED
      BY <3>1, AuthorityAssumption, FS_Subset
  <2>2. InOrder(AffectedMatters(r)) \in Seq(Matters)
        /\ Listed(InOrder(AffectedMatters(r))) = AffectedMatters(r)
    <3>1. /\ InOrder(AffectedMatters(r)) \in [1 .. Cardinality(AffectedMatters(r)) -> AffectedMatters(r)]
          /\ Listed(InOrder(AffectedMatters(r))) = AffectedMatters(r)
      BY <2>1, InOrderOrders
    <3>2. Cardinality(AffectedMatters(r)) \in Nat
      BY <2>1, FS_CardinalityType
    <3>3. InOrder(AffectedMatters(r)) \in [1 .. Cardinality(AffectedMatters(r)) -> Matters]
      BY <2>1, <3>1
    <3> QED
      BY ONLY <3>1, <3>2, <3>3, SeqDef
  <2>3. list \in Seq(Matters)
    BY <2>2, EmptySeq
  <2>4. x.call.op = "suspend" =>
          \A k \in Rows.matters : Effective(Rows, k, x.call.target) =>
            k \in Listed(list) \/ Overlooked(x, Rows, k)
    <3> SUFFICES ASSUME x.call.op = "suspend", NEW k \in Rows.matters,
                        Effective(Rows, k, x.call.target), ~Overlooked(x, Rows, k)
                 PROVE  k \in Listed(list)
      OBVIOUS
    <3>1. suspending
      BY DEF Effective, SeniorIn, Rows, Call
    <3>2. Sees(Call(r).by, k)
      <4>1. ~Rows.secured \/ MemberIn(Rows, k, x.call.by)
        BY DEF Overlooked
      <4> QED
        BY <1>2, <4>1, Looks DEF Rows, Call
    <3>3. ActiveSeniorMember(k, Call(r).target)
      BY <1>2, Looks DEF Effective, Call
    <3>4. k \in matters
      BY DEF Rows
    <3>5. k \in AffectedMatters(r)
      BY <3>2, <3>3, <3>4 DEF AffectedMatters
    <3> QED
      BY <2>2, <3>1, <3>5
  <2> HIDE DEF list
  <2>5. /\ HasFields(tx, TxFields) /\ tx.locked = Tx(r).locked /\ tx.matters = Tx(r).matters
    BY <1>2 DEF HasFields, TxFields
  <2>6. AfterMatter(list) = IF list = <<>> THEN "write" ELSE "members"
    BY DEF AfterMatter
  <2>7. /\ IsRequest(req'[r]) /\ Reaches(x, req'[r], held[r], tx, AfterMatter(list), {})
        /\ UNCHANGED <<secured, rows, held>> /\ req' = [req EXCEPT ![r] = req'[r]]
    <3>1. AfterMatter(list) \notin {"idle", "done", "lock"}
      BY <2>6
    <3> HIDE DEF tx
    <3> QED
      BY <1>5, <2>5, <3>1, Proceeds
  <2>8. req'[r].call = x.call
    BY <2>7 DEF Reaches
  <2>9. Ruling(req'[r], held[r], Rows)
    BY <1>1, <1>2, <1>3, <2>3, <2>4, <2>6, <2>7, RulingCheckedAccount DEF Tx
  <2>10. Working(req'[r], held[r], Rows)
    BY <1>2, <1>3, <2>8, <2>9 DEF Working
  <2> HIDE DEF tx
  <2> QED
    BY <1>1, <2>5, <2>7, <2>10, PlainKeeps
<1> QED
  BY <1>4, <1>5 DEF CheckAccount

\* Another Senior is looked for (CheckReplacement).
LEMMA CheckReplacementKeeps ==
  ASSUME IInv, NEW r \in Requests, CheckReplacement(r)
  PROVE  IInv'
<1> DEFINE x == req[r]
<1> DEFINE k == Head(x.tx.affected)
<1> DEFINE rest == Tail(x.tx.affected)
<1> DEFINE tx == [Tx(r) EXCEPT !.affected = rest]
<1>1. x.at = "replacement"
  BY DEF CheckReplacement, At
<1>2. /\ IsRequest(x) /\ HasFields(Tx(r), TxFields) /\ Working(x, held[r], Rows)
      /\ RowsTyped(Rows) /\ x.call \in CallRecords
  BY <1>1, AtWork DEF Call
<1>3. Stage(x) = "replacement" /\ x.call.op \in {"suspend", "reinstate"} /\ Ruling(x, held[r], Rows)
  BY <1>1, <1>2, AtStage, StageOps DEF Working
<1>4. CASE Abort(r, "refused")
  BY <1>1, <1>4, AbortKeeps
<1>5. CASE /\ \E u \in Tx(r).locked \ {Call(r).target} :
                ActiveSeniorMember(k, u) /\ u \in Tx(r).seniors /\ account[u].active
           /\ Proceed(r, tx, AfterMatter(rest))
  <2>1. PICK u \in x.tx.locked \ {x.call.target} :
          SeniorOn(Rows, k, u) /\ u \in x.tx.seniors /\ Rows.account[u].active
    BY <1>2, <1>5, Looks DEF Rows, Tx, Call
  <2>2. x.tx.affected # <<>>
    BY <1>3 DEF Ruling
  <2>3. /\ HasFields(tx, TxFields) /\ tx.locked = Tx(r).locked /\ tx.matters = Tx(r).matters
    BY <1>2 DEF HasFields, TxFields
  <2>4. AfterMatter(rest) = IF rest = <<>> THEN "write" ELSE "members"
    BY DEF AfterMatter
  <2>5. /\ IsRequest(req'[r]) /\ Reaches(x, req'[r], held[r], tx, AfterMatter(rest), {})
        /\ UNCHANGED <<secured, rows, held>> /\ req' = [req EXCEPT ![r] = req'[r]]
    <3>1. AfterMatter(rest) \notin {"idle", "done", "lock"}
      BY <2>4
    <3> HIDE DEF tx, rest
    <3> QED
      BY <1>5, <2>3, <3>1, Proceeds
  <2>6. req'[r].call = x.call
    BY <2>5 DEF Reaches
  <2>7. Ruling(req'[r], held[r], Rows)
    BY <1>1, <1>2, <1>3, <2>1, <2>2, <2>4, <2>5, RulingCheckedReplacement DEF Tx
  <2>8. Working(req'[r], held[r], Rows)
    BY <1>2, <1>3, <2>6, <2>7 DEF Working
  <2> HIDE DEF tx
  <2> QED
    BY <1>1, <2>3, <2>5, <2>8, PlainKeeps
<1> QED
  BY <1>4, <1>5 DEF CheckReplacement, Matter, Tx

\* The account is written (WriteAccount).
LEMMA WriteAccountKeeps ==
  ASSUME IInv, NEW r \in Requests, WriteAccount(r)
  PROVE  IInv'
<1> DEFINE x == req[r]
<1> DEFINE v == Call(r).target
<1> DEFINE tx == [Tx(r) EXCEPT
                    !.account = Only(v, [account[v] EXCEPT !.active = (Call(r).op = "reinstate")])]
<1>1. x.at = "write" /\ Proceed(r, tx, "audit")
  BY DEF WriteAccount, At
<1>2. /\ IsRequest(x) /\ HasFields(Tx(r), TxFields) /\ Working(x, held[r], Rows)
      /\ RowsTyped(Rows) /\ x.call \in CallRecords
  BY <1>1, AtWork DEF Call
<1>3. Stage(x) = "write" /\ x.call.op \in {"suspend", "reinstate"} /\ Ruling(x, held[r], Rows)
  BY <1>1, <1>2, AtStage, StageOps DEF Working
<1>4. /\ HasFields(tx, TxFields) /\ tx.locked = Tx(r).locked /\ tx.matters = Tx(r).matters
  BY <1>2 DEF HasFields, TxFields
<1>5. /\ IsRequest(req'[r]) /\ Reaches(x, req'[r], held[r], tx, "audit", {})
      /\ UNCHANGED <<secured, rows, held>> /\ req' = [req EXCEPT ![r] = req'[r]]
  <2> HIDE DEF tx
  <2> QED
    BY <1>1, <1>4, Proceeds
<1>6. req'[r].call = x.call
  BY <1>5 DEF Reaches
<1>7. Ruling(req'[r], held[r], Rows)
  <2>1. Reaches(x, req'[r], held[r],
                [x.tx EXCEPT !.account =
                   Only(x.call.target, [Rows.account[x.call.target] EXCEPT
                                          !.active = (x.call.op = "reinstate")])], "audit", {})
    BY <1>5 DEF Tx, Call, Rows
  <2> QED
    BY <1>1, <1>2, <1>3, <2>1, RulingWrote
<1>8. Working(req'[r], held[r], Rows)
  BY <1>2, <1>3, <1>6, <1>7 DEF Working
<1> HIDE DEF tx
<1> QED
  BY <1>1, <1>4, <1>5, <1>8, PlainKeeps

\* An account is provisioned (ProvisionAccount).
LEMMA ProvisionAccountKeeps ==
  ASSUME IInv, NEW r \in Requests, ProvisionAccount(r)
  PROVE  IInv'
<1> DEFINE x == req[r]
<1> DEFINE v == Call(r).target
<1> DEFINE tx == [Tx(r) EXCEPT !.account = Only(v, [role |-> Call(r).role, active |-> TRUE])]
<1>1. x.at \in {"provision", "named"}
  BY DEF ProvisionAccount, At
<1>2. /\ IsRequest(x) /\ HasFields(Tx(r), TxFields) /\ Working(x, held[r], Rows)
      /\ RowsTyped(Rows) /\ x.call \in CallRecords
  BY <1>1, AtWork DEF Call
<1>3. Stage(x) = x.at /\ x.call.op = "provision" /\ Provisioning(x, held[r], Rows)
  BY <1>1, <1>2, AtStage, StageOps DEF Working
<1>4. CASE Abort(r, "refused")
  BY <1>1, <1>4, AbortKeeps
<1>5. CASE x.at = "provision" /\ Acquire(r, Tx(r), <<Exclusive(NameLock(v))>>, "named")
  <2>1. /\ IsRequest(req'[r])
        /\ Reaches(x, req'[r], held[r], Tx(r), "named", {Exclusive(NameLock(v))})
        /\ UNCHANGED <<secured, rows, held>> /\ req' = [req EXCEPT ![r] = req'[r]]
    <3> DEFINE todo == <<Exclusive(NameLock(v))>>
    <3>1. todo \in Seq(Listed(todo)) /\ Listed(todo) = {Exclusive(NameLock(v))}
      BY ListedFew
    <3> HIDE DEF todo
    <3>2. Acquire(r, Tx(r), todo, "named")
      BY <1>5 DEF todo
    <3> HIDE DEF v
    <3>3. /\ IsRequest(req'[r]) /\ Reaches(x, req'[r], held[r], Tx(r), "named", Listed(todo))
          /\ UNCHANGED <<secured, rows, held>> /\ req' = [req EXCEPT ![r] = req'[r]]
      BY <1>2, <3>1, <3>2, Acquires
    <3> QED
      BY <3>1, <3>3
  <2>2. req'[r].call = x.call
    BY <2>1 DEF Reaches
  <2>3. Provisioning(req'[r], held[r], Rows)
    BY <1>2, <1>3, <1>5, <2>1, ProvisionNamed DEF Tx, Call
  <2>4. Working(req'[r], held[r], Rows)
    BY <1>2, <1>3, <2>2, <2>3 DEF Working
  <2> QED
    BY <1>1, <2>1, <2>4, PlainKeeps
<1>6. CASE x.at = "named" /\ v \notin DOMAIN account /\ Proceed(r, tx, "audit")
  <2>1. /\ HasFields(tx, TxFields) /\ tx.locked = Tx(r).locked /\ tx.matters = Tx(r).matters
    BY <1>2 DEF HasFields, TxFields
  <2>2. /\ IsRequest(req'[r]) /\ Reaches(x, req'[r], held[r], tx, "audit", {})
        /\ UNCHANGED <<secured, rows, held>> /\ req' = [req EXCEPT ![r] = req'[r]]
    <3> HIDE DEF tx
    <3> QED
      BY <1>6, <2>1, Proceeds
  <2>3. req'[r].call = x.call
    BY <2>2 DEF Reaches
  <2>4. Provisioning(req'[r], held[r], Rows)
    BY <1>2, <1>3, <1>6, <2>2, ProvisionWrote DEF Tx, Call, Rows
  <2>5. Working(req'[r], held[r], Rows)
    BY <1>2, <1>3, <2>3, <2>4 DEF Working
  <2> HIDE DEF tx
  <2> QED
    BY <1>1, <2>1, <2>2, <2>5, PlainKeeps
<1> QED
  BY <1>4, <1>5, <1>6 DEF ProvisionAccount, At

\* A matter is opened, one that no other request opens (OpenMatter).
LEMMA OpenMatterKeeps ==
  ASSUME IInv, NEW r \in Requests, OpenMatter(r)
  PROVE  IInv'
<1> DEFINE x == req[r]
<1> DEFINE v == Call(r).by
<1>1. x.at = "open"
  BY DEF OpenMatter, At
<1>2. /\ IsRequest(x) /\ HasFields(Tx(r), TxFields) /\ Working(x, held[r], Rows)
      /\ RowsTyped(Rows) /\ x.call \in CallRecords
  BY <1>1, AtWork DEF Call
<1>3. Stage(x) = "open" /\ x.call.op = "open" /\ Founding(x, held[r], Rows)
  BY <1>1, <1>2, AtStage, StageOps DEF Working
<1>4. CASE Abort(r, "refused")
  BY <1>1, <1>4, AbortKeeps
<1>5. CASE /\ ActiveSenior(v)
           /\ \E k \in Matters \ (matters \cup UNION {Tx(q).matters : q \in Requests}) :
                Acquire(r, [Tx(r) EXCEPT !.matters = {k}, !.member = Only(<<k, v>>, SeniorRow)],
                        <<Shared(AccountLock(v))>>, "commit")
  <2>1. PICK k \in Matters \ (matters \cup UNION {Tx(q).matters : q \in Requests}) :
          Acquire(r, [Tx(r) EXCEPT !.matters = {k}, !.member = Only(<<k, v>>, SeniorRow)],
                  <<Shared(AccountLock(v))>>, "commit")
    BY <1>5
  <2> DEFINE tx == [Tx(r) EXCEPT !.matters = {k}, !.member = Only(<<k, v>>, SeniorRow)]
  <2> DEFINE todo == <<Shared(AccountLock(v))>>
  <2>2. /\ HasFields(tx, TxFields) /\ tx.locked = Tx(r).locked /\ tx.matters = {k}
    BY <1>2 DEF HasFields, TxFields
  <2>3. todo \in Seq(Listed(todo)) /\ Listed(todo) = {Shared(AccountLock(v))}
    BY ListedFew
  <2>4. /\ IsRequest(req'[r]) /\ Reaches(x, req'[r], held[r], tx, "commit", Listed(todo))
        /\ UNCHANGED <<secured, rows, held>> /\ req' = [req EXCEPT ![r] = req'[r]]
    <3> HIDE DEF tx, todo
    <3>1. Acquire(r, tx, todo, "commit")
      BY <2>1 DEF tx, todo
    <3> QED
      BY <2>2, <2>3, <3>1, Acquires
  <2>5. req'[r].call = x.call
    BY <2>4 DEF Reaches
  <2>6. Founding(req'[r], held[r], Rows)
    <3>1. x.call.by \in DOMAIN Rows.account /\ k \in Matters \ Rows.matters
      BY <1>5, <2>1 DEF ActiveSenior, Rows, Call
    <3>2. Reaches(x, req'[r], held[r],
                  [x.tx EXCEPT !.matters = {k}, !.member = Only(<<k, x.call.by>>, SeniorRow)],
                  "commit", {Shared(AccountLock(x.call.by))})
      <4> HIDE DEF todo
      <4> QED
        BY <2>3, <2>4 DEF Tx, Call
    <3> QED
      BY <1>1, <1>2, <1>3, <3>1, <3>2, MatterOpened
  <2>7. Working(req'[r], held[r], Rows)
    BY <1>2, <1>3, <2>5, <2>6 DEF Working
  <2>8. \A q \in Requests \ {r} : tx.matters \cap Tx(q).matters = {}
    <3> HIDE DEF tx
    <3> QED
      BY <2>1, <2>2
  <2>9. \A j \in Matters : ~Changes(req[r], j)
    BY <1>3 DEF Changes
  <2> HIDE DEF tx, todo
  <2> QED
    BY <1>1, <2>4, <2>7, <2>8, <2>9, StageKeeps
<1> QED
  BY <1>4, <1>5 DEF OpenMatter

\* The operator's command (RestoreAccess).
LEMMA RestoreAccessKeeps ==
  ASSUME IInv, NEW r \in Requests, RestoreAccess(r)
  PROVE  IInv'
<1> DEFINE x == req[r]
<1> DEFINE k == Call(r).matter
<1> DEFINE v == Call(r).target
<1> DEFINE tx == [Tx(r) EXCEPT !.member = Only(<<k, v>>, SeniorRow)]
<1>1. x.at \in {"restore", "examine"}
  BY DEF RestoreAccess, At
<1>2. /\ IsRequest(x) /\ HasFields(Tx(r), TxFields) /\ Working(x, held[r], Rows)
      /\ RowsTyped(Rows) /\ x.call \in CallRecords
  BY <1>1, AtWork DEF Call
<1>3. Stage(x) = x.at /\ x.call.op = "restore" /\ Restoring(x, held[r], Rows)
  BY <1>1, <1>2, AtStage, StageOps DEF Working
<1>4. CASE Abort(r, "refused")
  BY <1>1, <1>4, AbortKeeps
<1>5. CASE /\ x.at = "restore"
           /\ Acquire(r, Tx(r), <<Exclusive(RestoreLock), Exclusive(MatterLock(k))>>, "examine")
  <2> DEFINE todo == <<Exclusive(RestoreLock), Exclusive(MatterLock(k))>>
  <2>1. /\ IsRequest(req'[r]) /\ Reaches(x, req'[r], held[r], Tx(r), "examine", Listed(todo))
        /\ UNCHANGED <<secured, rows, held>> /\ req' = [req EXCEPT ![r] = req'[r]]
    <3>1. todo \in Seq(Listed(todo))
      BY ListedFew
    <3> HIDE DEF todo
    <3>2. Acquire(r, Tx(r), todo, "examine")
      BY <1>5 DEF todo
    <3> QED
      BY <1>2, <3>1, <3>2, Acquires
  <2> HIDE DEF todo
  <2>2. req'[r].call = x.call
    BY <2>1 DEF Reaches
  <2>3. Restoring(req'[r], held[r], Rows)
    BY <1>2, <1>3, <1>5, <2>1, RestoreExamines DEF Tx
  <2>4. Working(req'[r], held[r], Rows)
    BY <1>2, <1>3, <2>2, <2>3 DEF Working
  <2> QED
    BY <1>1, <2>1, <2>4, PlainKeeps
<1>6. ASSUME NEW stage, NEW L, NEW lock, x.at = "examine", ActiveSenior(v),
             Acquire(r, tx, <<lock>>, stage), L = {lock}, stage \in {"commit", "insert"},
             \/ /\ <<x.call.matter, x.call.target>> \in DOMAIN Rows.member
                /\ stage = "commit" /\ L = {Exclusive(MemberLock(x.call.matter, x.call.target))}
             \/ stage = "insert" /\ L = {Exclusive(PlaceLock(x.call.matter, x.call.target))}
      PROVE  IInv'
  <2>1. /\ HasFields(tx, TxFields) /\ tx.locked = Tx(r).locked /\ tx.matters = Tx(r).matters
    BY <1>2 DEF HasFields, TxFields
  <2>2. /\ IsRequest(req'[r]) /\ Reaches(x, req'[r], held[r], tx, stage, L)
        /\ UNCHANGED <<secured, rows, held>> /\ req' = [req EXCEPT ![r] = req'[r]]
    <3> DEFINE todo == <<lock>>
    <3>1. todo \in Seq(Listed(todo)) /\ Listed(todo) = L
      BY <1>6, ListedFew
    <3> HIDE DEF todo, tx
    <3>2. Acquire(r, tx, todo, stage) /\ stage \notin {"idle", "done", "lock"}
      BY <1>6 DEF todo
    <3> QED
      BY <2>1, <3>1, <3>2, Acquires
  <2>3. req'[r].call = x.call
    BY <2>2 DEF Reaches
  <2>4. Restoring(req'[r], held[r], Rows)
    <3>1. x.call.target \in DOMAIN Rows.account
      BY <1>6 DEF ActiveSenior, Rows, Call
    <3>2. Reaches(x, req'[r], held[r],
                  [x.tx EXCEPT !.member = Only(<<x.call.matter, x.call.target>>, SeniorRow)],
                  stage, L)
      BY <2>2 DEF Tx, Call
    <3> QED
      BY <1>2, <1>3, <1>6, <3>1, <3>2, RestoreWrote
  <2>5. Working(req'[r], held[r], Rows)
    BY <1>2, <1>3, <2>3, <2>4 DEF Working
  <2> HIDE DEF tx
  <2> QED
    BY <1>1, <2>1, <2>2, <2>5, PlainKeeps
<1>7. CASE /\ x.at = "examine" /\ ActiveSenior(v) /\ v \in MembersOf(k)
           /\ Acquire(r, tx, <<Exclusive(MemberLock(k, v))>>, "commit")
  <2>1. <<x.call.matter, x.call.target>> \in DOMAIN Rows.member
    BY <1>7 DEF MembersOf, Rows, Call
  <2> HIDE DEF tx
  <2> QED
    BY <1>6, <1>7, <2>1 DEF Call
<1>8. CASE /\ x.at = "examine" /\ ActiveSenior(v)
           /\ Acquire(r, tx, <<Exclusive(PlaceLock(k, v))>>, "insert")
  <2> HIDE DEF tx
  <2> QED
    BY <1>6, <1>8 DEF Call
<1> QED
  BY <1>4, <1>5, <1>7, <1>8 DEF RestoreAccess, At

\* The lock of the account audit chain (LockAccountAudit).
LEMMA LockAccountAuditKeeps ==
  ASSUME IInv, NEW r \in Requests, LockAccountAudit(r)
  PROVE  IInv'
<1> DEFINE x == req[r]
<1>1. x.at = "audit" /\ Acquire(r, Tx(r), ChainLocks, "append")
  BY DEF LockAccountAudit, At
<1>2. /\ IsRequest(x) /\ HasFields(Tx(r), TxFields) /\ Working(x, held[r], Rows)
      /\ RowsTyped(Rows) /\ x.call \in CallRecords
  BY <1>1, AtWork DEF Call
<1>3. /\ Stage(x) = "audit"
      /\ x.call.op \in {"set", "remove", "suspend", "reinstate", "provision"}
  BY <1>1, <1>2, AtStage, StageOps
<1>4. ChainLocks \in Seq(Listed(ChainLocks)) /\ Exclusive(AuditLock) \in Listed(ChainLocks)
  BY ListedFew DEF ChainLocks
<1>5. /\ IsRequest(req'[r]) /\ Reaches(x, req'[r], held[r], Tx(r), "append", Listed(ChainLocks))
      /\ UNCHANGED <<secured, rows, held>> /\ req' = [req EXCEPT ![r] = req'[r]]
  BY <1>1, <1>2, <1>4, Acquires
<1>6. req'[r].call = x.call
  BY <1>5 DEF Reaches
<1>7. /\ Changing(x, held[r], Rows) => Changing(req'[r], held[r], Rows)
      /\ Ruling(x, held[r], Rows) => Ruling(req'[r], held[r], Rows)
      /\ Provisioning(x, held[r], Rows) => Provisioning(req'[r], held[r], Rows)
  BY <1>1, <1>2, <1>4, <1>5, AuditLocked DEF Tx
<1>8. Working(req'[r], held[r], Rows)
  BY <1>2, <1>3, <1>6, <1>7 DEF Working
<1> QED
  BY <1>1, <1>5, <1>8, PlainKeeps

\* The event is appended (AppendAccountAudit).
LEMMA AppendAccountAuditKeeps ==
  ASSUME IInv, NEW r \in Requests, AppendAccountAudit(r)
  PROVE  IInv'
<1> DEFINE x == req[r]
<1> DEFINE tx == [Tx(r) EXCEPT !.log = <<[prev |-> Len(log)]>>]
<1> DEFINE todo == <<Shared(AccountLock(Call(r).by)), Shared(AccountLock(Call(r).target))>>
<1>1. x.at = "append" /\ Acquire(r, tx, todo, "commit")
  BY DEF AppendAccountAudit, At
<1>2. /\ IsRequest(x) /\ HasFields(Tx(r), TxFields) /\ Working(x, held[r], Rows)
      /\ RowsTyped(Rows) /\ x.call \in CallRecords
  BY <1>1, AtWork DEF Call
<1>3. /\ Stage(x) = "append"
      /\ x.call.op \in {"set", "remove", "suspend", "reinstate", "provision"}
  BY <1>1, <1>2, AtStage, StageOps
<1>4. /\ todo \in Seq(Listed(todo)) /\ Shared(AccountLock(Call(r).by)) \in Listed(todo)
      /\ Shared(AccountLock(Call(r).target)) \in Listed(todo)
  BY ListedFew
<1> HIDE DEF todo
<1>5. HasFields(tx, TxFields) /\ tx.locked = Tx(r).locked /\ tx.matters = Tx(r).matters
  BY <1>2 DEF HasFields, TxFields
<1>6. /\ IsRequest(req'[r]) /\ Reaches(x, req'[r], held[r], tx, "commit", Listed(todo))
      /\ UNCHANGED <<secured, rows, held>> /\ req' = [req EXCEPT ![r] = req'[r]]
  <2> HIDE DEF tx
  <2> QED
    BY <1>1, <1>4, <1>5, Acquires
<1>7. req'[r].call = x.call
  BY <1>6 DEF Reaches
<1>8. /\ Changing(x, held[r], Rows) => Changing(req'[r], held[r], Rows)
      /\ Ruling(x, held[r], Rows) => Ruling(req'[r], held[r], Rows)
      /\ Provisioning(x, held[r], Rows) => Provisioning(req'[r], held[r], Rows)
  <2>1. Reaches(x, req'[r], held[r], [x.tx EXCEPT !.log = <<[prev |-> Rows.logged]>>],
                "commit", Listed(todo))
    BY <1>6 DEF Tx, Rows
  <2> QED
    BY <1>1, <1>2, <1>4, <2>1, AuditAppended DEF Call
<1>9. Working(req'[r], held[r], Rows)
  BY <1>2, <1>3, <1>7, <1>8 DEF Working
<1> HIDE DEF tx
<1> QED
  BY <1>1, <1>5, <1>6, <1>9, PlainKeeps

\* PostgreSQL cancels a transaction of a deadlock (CancelDeadlocked).
LEMMA CancelDeadlockedKeeps ==
  ASSUME IInv, NEW r \in Requests, CancelDeadlocked(r)
  PROVE  IInv'
<1>1. req[r].at = "lock"
  <2>1. WaitsFor(r) # {}
    BY DEF CancelDeadlocked, Deadlocked, Cycle
  <2> QED
    BY <2>1 DEF WaitsFor, At
<1>2. Abort(r, "deadlock")
  BY DEF CancelDeadlocked
<1> QED
  BY <1>1, <1>2, AbortKeeps

-----------------------------------------------------------------------------
(***************************************************************************)
(* A request arrives, and a transaction is committed.                      *)
(***************************************************************************)

\* A request comes or is over: the rows may change, and the others are unharmed.
LEMMA EndsKeep ==
  ASSUME IInv, NEW r \in Requests,
         req' = [req EXCEPT ![r] = req'[r]], held' = [held EXCEPT ![r] = held'[r]],
         held'[r] \subseteq held[r], IsRequest(req'[r]), req'[r].at # "idle",
         req'[r].tx.locked = {}, req'[r].tx.matters = {},
         RowsTyped(Rows'), Local(req'[r], held'[r], Rows'),
         \A q \in Requests \ {r} : Unharmed(req[q], held[q], Rows, Rows'),
         Chained', AnAccountRemains'
  PROVE  IInv'
<1>0. /\ req = [q \in Requests |-> req[q]] /\ held = [q \in Requests |-> held[q]]
      /\ \A q \in Requests : IsRequest(req[q]) /\ (req[q].at = "idle" => req[q] = Idle)
  BY DEF IInv, Shaped
<1>1. \A q \in Requests : q # r => req'[q] = req[q] /\ held'[q] = held[q]
  BY <1>0
<1>2. Shaped'
  <2>1. req' = [q \in Requests |-> req'[q]] /\ held' = [q \in Requests |-> held'[q]]
    BY <1>0
  <2>2. \A q \in Requests : IsRequest(req'[q]) /\ (req'[q].at = "idle" => req'[q] = Idle)
    BY <1>0, <1>1
  <2> QED
    BY <2>1, <2>2 DEF Shaped
<1>3. RowsTyped(Rows)'
  OBVIOUS
<1>4. Orderly'
  <2>1. RowsTyped(Rows) /\ \A q \in Requests : Local(req[q], held[q], Rows)
    BY DEF IInv, Orderly
  <2>2. ASSUME NEW q \in Requests PROVE Local(req'[q], held'[q], Rows')
    <3>1. CASE q = r
      BY <3>1
    <3>2. CASE q # r
      <4>1. Local(req[q], held[q], Rows')
        BY <2>1, <3>2, LocalKept
      <4> QED
        BY <4>1, <3>2, <1>1
    <3> QED
      BY <3>1, <3>2
  <2> QED
    BY <2>2 DEF Orderly
<1>5. LocksExclusive'
  <2>1. \A p, q \in Requests : p # q => Apart(held[p], held[q])
    BY DEF IInv, LocksExclusive
  <2>2. \A q \in Requests : held'[q] \subseteq held[q]
    BY <1>1
  <2>3. \A p, q \in Requests : p # q => Apart(held'[p], held'[q])
    BY <2>1, <2>2 DEF Apart
  <2> QED
    BY <2>3 DEF LocksExclusive
<1>6. \A q \in Requests : /\ q # r => Tx(q)' = Tx(q)
                          /\ Tx(r)'.locked = {} /\ Tx(r)'.matters = {}
  BY <1>1 DEF Tx
<1>7. MattersApart'
  <2>1. \A p, q \in Requests : p # q => Tx(p).matters \cap Tx(q).matters = {}
    BY DEF IInv, MattersApart
  <2>2. \A p, q \in Requests : p # q => Tx(p)'.matters \cap Tx(q)'.matters = {}
    BY <2>1, <1>6
  <2> QED
    BY <2>2 DEF MattersApart
<1>8. Nested'
  <2>1. \A k \in Matters : \A p, q \in Requests : Changes(req[p], k) /\ Changes(req[q], k) =>
          Tx(p).locked \subseteq Tx(q).locked \/ Tx(q).locked \subseteq Tx(p).locked
    BY DEF IInv, Nested
  <2>2. ASSUME NEW k \in Matters, NEW p \in Requests, NEW q \in Requests,
               Changes(req'[p], k), Changes(req'[q], k)
        PROVE  Tx(p)'.locked \subseteq Tx(q)'.locked \/ Tx(q)'.locked \subseteq Tx(p)'.locked
    <3>1. CASE p = r \/ q = r
      BY <3>1, <1>6
    <3>2. CASE p # r /\ q # r
      BY <3>2, <2>1, <2>2, <1>1, <1>6
    <3> QED
      BY <3>1, <3>2
  <2> QED
    BY <2>2 DEF Nested
<1> QED
  BY <1>2, <1>3, <1>4, <1>5, <1>7, <1>8 DEF IInv

\* The transaction of a request that has arrived, and its fields.
Fresh(role, list) == [NoChanges EXCEPT !.role = role, !.affected = list]

\* A transaction that begins has locked, read and written nothing (Session.begin).
LEMMA FreshFields ==
  ASSUME NEW role, NEW list
  PROVE  LET tx == Fresh(role, list)
         IN  /\ HasFields(tx, TxFields) /\ tx.role = role /\ tx.affected = list
             /\ tx.locked = {} /\ tx.matters = {} /\ tx.account = NoRows /\ tx.member = NoRows
             /\ tx.log = <<>> /\ tx.seniors = {}
BY NoChangesFields DEF HasFields, TxFields, Fresh

\* A request arrives: what a restoration makes exempt only adds to what is.
LEMMA ArriveSpares ==
  ASSUME IInv, NEW r \in Requests, req[r] = Idle, UNCHANGED <<secured, rows>>,
         \A q \in Requests \ {r} : req'[q] = req[q]
  PROVE  /\ Restored \subseteq Restored'
         /\ RowsTyped(Rows') /\ \A x, H : Unharmed(x, H, Rows, Rows')
<1>1. Idle.call.op = "none" /\ Idle.reply = "none"
  BY DEF Idle
<1>2. Restored \subseteq Restored'
  <2>1. ASSUME NEW p \in Requests, Call(p).op = "restore"
        PROVE  p \in Requests \ {r} /\ Call(p)' = Call(p)
    BY <1>1, <2>1 DEF Call
  <2> QED
    BY <2>1 DEF Restored
<1>3. Unseen \subseteq Unseen'
  <2> SUFFICES ASSUME NEW m \in Matters \X Reviewers, NEW q \in Requests,
                      Call(q).op = "suspend", req[q].reply = "ok", Call(q).target = m[2],
                      Overlooked(req[q], Committed, m[1])
               PROVE  m \in Unseen'
    BY DEF Unseen
  <2>1. req'[q] = req[q] /\ Call(q)' = Call(q)
    BY <1>1 DEF Call
  <2>2. Overlooked(req'[q], Committed', m[1])
    BY <1>2, <2>1 DEF Overlooked, Committed, MemberIn, rows
  <2>3. (/\ Call(q).op = "suspend" /\ req[q].reply = "ok" /\ Call(q).target = m[2]
         /\ Overlooked(req[q], Committed, m[1]))'
    BY <2>1, <2>2
  <2> QED
    BY <2>3 DEF Unseen
<1>4. /\ Rows'.secured = Rows.secured /\ Rows'.account = Rows.account
      /\ Rows'.matters = Rows.matters /\ Rows'.member = Rows.member
      /\ Rows'.logged = Rows.logged /\ Rows.restored \subseteq Rows'.restored
      /\ Rows.unseen \subseteq Rows'.unseen
  BY <1>2, <1>3 DEF Rows, rows
<1>5. RowsTyped(Rows')
  BY <1>4 DEF IInv, RowsTyped
<1>6. ASSUME NEW x, NEW H
      PROVE  Unharmed(x, H, Rows, Rows')
  <2>1. Grown(Rows, Rows')
    BY <1>4 DEF Grown
  <2>2. Guarded(H, Rows, Rows')
    BY <1>4 DEF Guarded, MemberKept, Effective, SeniorIn
  <2>3. Spared(x, Rows, Rows')
    BY <1>4 DEF Spared
  <2> QED
    BY <2>1, <2>2, <2>3 DEF Unharmed
<1> QED
  BY <1>2, <1>5, <1>6

\* A request arrives (Arrive): what it may ask for.
LEMMA ArriveKeeps ==
  ASSUME IInv, NEW r \in Requests, NEW call \in Calls, Arrive(r, call)
  PROVE  IInv'
<1> DEFINE y == req'[r]
<1> DEFINE list == IF call.op \in {"set", "remove"} THEN <<call.matter>> ELSE <<>>
<1> DEFINE tx == Fresh(RoleNamed(call), list)
<1>1. /\ req = [q \in Requests |-> req[q]] /\ held = [q \in Requests |-> held[q]]
      /\ req[r] = Idle /\ RowsTyped(Rows)
  BY DEF IInv, Shaped, Arrive, At
<1>2. UNCHANGED <<secured, rows, held>> /\ Submittable(call)
  BY DEF Arrive
<1>3. /\ y = [Idle EXCEPT !.call = call, !.at = FirstStep(call.op), !.tx = tx]
      /\ req' = [req EXCEPT ![r] = req'[r]] /\ \A q \in Requests \ {r} : req'[q] = req[q]
  BY <1>1 DEF Arrive, Fresh
<1>4. /\ HasFields(tx, TxFields) /\ tx.role = RoleNamed(call) /\ tx.affected = list
      /\ tx.locked = {} /\ tx.matters = {} /\ tx.account = NoRows /\ tx.member = NoRows
      /\ tx.log = <<>> /\ tx.seniors = {}
  <2> HIDE DEF list
  <2> QED
    BY FreshFields
<1> HIDE DEF tx
<1>5. /\ IsRequest(y) /\ y.call = call /\ y.at = FirstStep(call.op) /\ y.tx = tx
      /\ y.reply = "none"
  <2>1. HasFields(Idle, {"at", "call", "tx", "reply"}) /\ Idle.reply = "none"
    BY DEF Idle, HasFields
  <2> QED
    BY <1>3, <1>4, <2>1 DEF IsRequest, HasFields, TxFields
<1>6. /\ Restored \subseteq Restored' /\ RowsTyped(Rows')
      /\ \A x, H : Unharmed(x, H, Rows, Rows')
  BY <1>1, <1>2, <1>3, ArriveSpares
<1>7. call \in CallRecords /\ call.op \in Operations
  BY AuthorityAssumption, CallFields
<1>8. FirstStep(call.op) \notin {"lock", "idle", "done"}
  BY <1>7 DEF FirstStep, Operations
<1>9. Stage(y) = FirstStep(call.op) /\ Claimed(y, held[r]) = held[r]
  BY <1>5, <1>8, AtStage
<1>10. /\ Rows'.account = account /\ Rows'.matters = matters /\ Rows'.member = member
       /\ Rows'.restored = Restored'
  BY <1>2 DEF Rows, rows
<1>11. Working(y, held[r], Rows')
  <2>1. CASE call.op \in {"set", "remove"}
    <3>1. FirstStep(call.op) = "members" /\ list = <<call.matter>>
      BY <2>1 DEF FirstStep
    <3>2. call.matter \in matters
      <4>1. ActiveMember(call.matter, call.by)
        BY <1>2, <2>1 DEF Submittable
      <4>2. <<call.matter, call.by>> \in DOMAIN member
        BY <4>1 DEF ActiveMember, MembersOf
      <4> QED
        BY <1>1, <4>2 DEF RowsTyped, Rows
    <3>3. RoleNamed(call) \in ReviewerRoles \cup {NoRole}
      <4>1. CASE call.op = "set"
        <5>1. RoleNamed(call) = call.role
          BY <4>1 DEF RoleNamed
        <5> QED
          BY <5>1, <4>1, <1>7, CallFields
      <4>2. CASE call.op = "remove"
        <5>1. RoleNamed(call) = member[<<call.matter, call.target>>].role
          BY <4>2 DEF RoleNamed
        <5>2. call.target \in MembersOf(call.matter)
          BY <4>2, <1>2 DEF Submittable
        <5>3. member[<<call.matter, call.target>>] \in AccountRow
          BY <5>2, <1>1 DEF MembersOf, RowsTyped, Rows
        <5> QED
          BY <5>1, <5>3 DEF AccountRow
      <4> QED
        BY <2>1, <4>1, <4>2
    <3>4. Changing(y, held[r], Rows')
      BY <1>4, <1>5, <1>9, <1>10, <3>1, <3>2, <3>3 DEF Changing, Settled, Auditing
    <3> QED
      BY <1>5, <1>7, <2>1, <3>4 DEF Working
  <2>2. CASE call.op \in {"suspend", "reinstate"}
    <3>1. FirstStep(call.op) = "seniors" /\ list = <<>>
      BY <2>2 DEF FirstStep
    <3>2. call.op = "suspend" => call.target # call.by
      BY <1>2 DEF Submittable
    <3>3. Ruling(y, held[r], Rows')
      BY <1>4, <1>5, <1>9, <3>1, <3>2, EmptySeq DEF Ruling, Ruled, Audited, Auditing
    <3> QED
      BY <1>5, <1>7, <2>2, <3>3 DEF Working
  <2>3. CASE call.op = "provision"
    <3>1. FirstStep(call.op) = "provision"
      BY <2>3 DEF FirstStep
    <3>2. Provisioning(y, held[r], Rows')
      BY <1>4, <1>5, <1>9, <3>1 DEF Provisioning, Audited, Auditing
    <3> QED
      BY <1>5, <1>7, <2>3, <3>2 DEF Working
  <2>4. CASE call.op = "open"
    <3>1. FirstStep(call.op) = "open"
      BY <2>4 DEF FirstStep
    <3>2. Founding(y, held[r], Rows')
      BY <1>4, <1>5, <1>9, <3>1 DEF Founding
    <3> QED
      BY <1>5, <1>7, <2>4, <3>2 DEF Working
  <2>5. CASE call.op = "restore"
    <3>1. FirstStep(call.op) = "restore" /\ call.matter \in matters
      BY <2>5, <1>2 DEF FirstStep, Submittable
    <3>2. <<call.matter, call.target>> \in Restored'
      <4>1. Call(r)' = call
        BY <1>5 DEF Call
      <4> QED
        BY <2>5, <4>1 DEF Restored
    <3>3. Restoring(y, held[r], Rows')
      BY <1>4, <1>5, <1>9, <1>10, <3>1, <3>2 DEF Restoring
    <3> QED
      BY <1>5, <1>7, <2>5, <3>3 DEF Working
  <2> QED
    BY <1>7, <2>1, <2>2, <2>3, <2>4, <2>5 DEF Operations
<1>12. Local(y, held[r], Rows')
  BY <1>5, <1>8, <1>11, LocalOf
<1>13. Chained' /\ AnAccountRemains'
  BY <1>2 DEF IInv, Chained, AccountChainNeverForks, AnAccountRemains, ActiveSenior, rows
<1>14. held' = [held EXCEPT ![r] = held'[r]] /\ held'[r] = held[r]
  BY <1>1, <1>2
<1> QED
  BY <1>3, <1>4, <1>5, <1>6, <1>8, <1>12, <1>13, <1>14, EndsKeep

-----------------------------------------------------------------------------
(***************************************************************************)
(* The commit.                                                             *)
(***************************************************************************)

\* A transaction commits one event of the account audit chain or none, and the event
\* is chained to the last one committed (_append_account_audit).
LEMMA CommitLog ==
  ASSUME NEW x, NEW H, NEW M, x.at = "commit", Working(x, H, M)
  PROVE  x.tx.log = <<>> \/ x.tx.log = <<[prev |-> M.logged]>>
<1>1. Stage(x) = "commit" /\ x.call.op \in Operations
  BY AtStage, CallFields DEF Working
<1>2. CASE x.call.op \in {"set", "remove"}
  BY <1>1, <1>2 DEF Working, Changing, Auditing
<1>3. CASE x.call.op \in {"suspend", "reinstate"}
  BY <1>1, <1>3 DEF Working, Ruling, Auditing
<1>4. CASE x.call.op = "provision"
  BY <1>1, <1>4 DEF Working, Provisioning, Auditing
<1>5. CASE x.call.op \in {"open", "restore"}
  BY <1>1, <1>5 DEF Working, Founding, Restoring
<1> QED
  BY <1>1, <1>2, <1>3, <1>4, <1>5 DEF Operations

\* Who is a member of a matter afterwards was one before, unless the transaction
\* changes the matter's memberships or restores that one.
LEMMA MembersElsewhere ==
  ASSUME NEW x, NEW H, NEW M, NEW N, RowsTyped(M), x.at = "commit", Working(x, H, M),
         N.member = Overlay(M.member, x.tx.member), NEW k \in M.matters, ~Changes(x, k),
         NEW w, MemberIn(N, k, w)
  PROVE  MemberIn(M, k, w) \/ <<k, w>> \in M.restored
<1>1. /\ Stage(x) = "commit" /\ x.call.op \in Operations
      /\ <<k, w>> \in DOMAIN N.member /\ N.member[<<k, w>>].active
  BY AtStage, CallFields DEF Working, MemberIn
<1>2. \/ <<k, w>> \in DOMAIN x.tx.member
      \/ <<k, w>> \in DOMAIN M.member /\ N.member[<<k, w>>] = M.member[<<k, w>>]
  BY <1>1 DEF Overlay
<1>3. ASSUME <<k, w>> \in DOMAIN x.tx.member
      PROVE  <<k, w>> \in M.restored
  <2>1. CASE x.call.op \in {"set", "remove"}
    <3>1. PICK row : x.tx.member = Only(<<x.call.matter, x.call.target>>, row)
      BY <1>1, <2>1 DEF Working, Changing, Settled
    <3>2. k = x.call.matter
      BY <3>1, <1>3 DEF Only
    <3> QED
      BY <3>2, <2>1 DEF Changes
  <2>2. CASE x.call.op \in {"suspend", "reinstate", "provision"}
    <3>1. x.tx.member = NoRows
      BY <2>2 DEF Working, Ruling, Provisioning
    <3> QED
      BY <3>1, <1>3 DEF NoRows
  <2>3. CASE x.call.op = "open"
    <3>1. PICK j \in Matters \ M.matters : x.tx.member = Only(<<j, x.call.by>>, SeniorRow)
      BY <1>1, <2>3 DEF Working, Founding
    <3>2. k = j
      BY <3>1, <1>3 DEF Only
    <3> QED
      BY <3>1, <3>2
  <2>4. CASE x.call.op = "restore"
    <3>1. /\ x.tx.member = Only(<<x.call.matter, x.call.target>>, SeniorRow)
          /\ <<x.call.matter, x.call.target>> \in M.restored
      BY <1>1, <2>4 DEF Working, Restoring
    <3> QED
      BY <3>1, <1>3 DEF Only
  <2> QED
    BY <1>1, <2>1, <2>2, <2>3, <2>4 DEF Operations
<1> QED
  BY <1>1, <1>2, <1>3 DEF MemberIn

\* An active Senior account remains: who suspends another stays himself
\* (set_reviewer_active_admin).
LEMMA AccountsRemain ==
  ASSUME NEW x, NEW H, NEW M, NEW N, RowsTyped(M), x.at = "commit", Working(x, H, M),
         N.account = Overlay(M.account, x.tx.account), NEW u, SeniorIn(M, u)
  PROVE  \E v : SeniorIn(N, v)
<1>1. Stage(x) = "commit" /\ x.call.op \in Operations
  BY AtStage, CallFields DEF Working
<1>2. ASSUME NEW w, w \in DOMAIN M.account, w \notin DOMAIN x.tx.account
      PROVE  w \in DOMAIN N.account /\ N.account[w] = M.account[w]
  BY <1>2 DEF Overlay
<1>3. CASE x.call.op \in {"set", "remove", "open", "restore"}
  <2>1. DOMAIN x.tx.account = {}
    BY <1>3 DEF Working, Changing, Founding, Restoring, NoRows
  <2> QED
    BY <1>2, <2>1 DEF SeniorIn, SeniorRole
<1>4. CASE x.call.op = "provision"
  <2>1. u \notin DOMAIN x.tx.account
    <3>1. /\ x.call.target \notin DOMAIN M.account
          /\ x.tx.account = Only(x.call.target, [role |-> x.call.role, active |-> TRUE])
      BY <1>1, <1>4 DEF Working, Provisioning, Audited
    <3> QED
      BY <3>1 DEF Only, SeniorIn, SeniorRole
  <2> QED
    BY <1>2, <2>1 DEF SeniorIn, SeniorRole
<1>5. CASE x.call.op = "suspend"
  <2>1. /\ x.call.by # x.call.target /\ SeniorRole(M, x.call.by) /\ M.account[x.call.by].active
        /\ \E row : x.tx.account = Only(x.call.target, row)
    BY <1>1, <1>5 DEF Working, Ruling, Ruled, Audited
  <2>2. x.call.by \in DOMAIN M.account /\ x.call.by \notin DOMAIN x.tx.account
    BY <2>1 DEF Only, SeniorRole
  <2>3. SeniorIn(N, x.call.by)
    BY <1>2, <2>1, <2>2 DEF SeniorIn, SeniorRole
  <2> QED
    BY <2>3
<1>6. CASE x.call.op = "reinstate"
  <2> DEFINE v == x.call.target
  <2>1. /\ v \in DOMAIN M.account
        /\ x.tx.account = Only(v, [M.account[v] EXCEPT !.active = (x.call.op = "reinstate")])
    BY <1>1, <1>6 DEF Working, Ruling, Ruled, Audited
  <2>2. CASE u # v
    <3>1. u \notin DOMAIN x.tx.account
      BY <2>1, <2>2 DEF Only
    <3> QED
      BY <1>2, <3>1 DEF SeniorIn, SeniorRole
  <2>3. CASE u = v
    <3> DEFINE row == [M.account[v] EXCEPT !.active = (x.call.op = "reinstate")]
    <3>1. row.active /\ row.role = M.account[v].role
      <4>1. M.account[v] \in AccountRow
        BY <2>1 DEF RowsTyped
      <4> QED
        BY <4>1, <1>6 DEF AccountRow
    <3> HIDE DEF row
    <3>2. v \in DOMAIN N.account /\ N.account[v] = row
      <4>1. x.tx.account = Only(v, row)
        BY <2>1 DEF row
      <4> QED
        BY <4>1 DEF Overlay, Only
    <3>3. SeniorIn(N, v)
      BY <3>1, <3>2, <2>3 DEF SeniorIn, SeniorRole
    <3> QED
      BY <3>3
  <2> QED
    BY <2>2, <2>3
<1> QED
  BY <1>1, <1>3, <1>4, <1>5, <1>6 DEF Operations

\* A chain that never forks is extended by an event chained to its last one.
LEMMA ChainGrows ==
  ASSUME NEW c \in Seq([prev : Nat]), \A i \in DOMAIN c : c[i].prev = i - 1,
         NEW e, e = <<>> \/ e = <<[prev |-> Len(c)]>>
  PROVE  /\ c \o e \in Seq([prev : Nat]) /\ Len(c \o e) = Len(c) + Len(e)
         /\ \A i \in DOMAIN (c \o e) : (c \o e)[i].prev = i - 1
<1>1. CASE e = <<>>
  BY <1>1
<1>2. CASE e = <<[prev |-> Len(c)]>>
  <2> DEFINE d == [prev |-> Len(c)]
  <2>1. d \in [prev : Nat] /\ d.prev = Len(c)
    OBVIOUS
  <2> HIDE DEF d
  <2>2. e = <<d>>
    BY <1>2 DEF d
  <2>3. e \in Seq([prev : Nat]) /\ Len(e) = 1 /\ e[1] = d
    BY <2>1, <2>2
  <2>4. c \o e \in Seq([prev : Nat]) /\ Len(c \o e) = Len(c) + 1
    <3> DEFINE S == [prev : Nat]
    <3>1. c \in Seq(S) /\ e \in Seq(S) /\ Len(e) = 1
      BY <2>3
    <3> HIDE DEF S
    <3>2. c \o e \in Seq(S) /\ Len(c \o e) = Len(c) + 1
      <4>1. c \o e \in Seq(S) /\ Len(c \o e) = Len(c) + Len(e)
        BY ONLY <3>1, ConcatProperties, Zenon
      <4> QED
        BY <4>1, <3>1
    <3> QED
      BY <3>2 DEF S
  <2>5. ASSUME NEW i \in DOMAIN (c \o e)
        PROVE  (c \o e)[i].prev = i - 1
    <3>1. i \in 1 .. (Len(c) + 1) /\ DOMAIN c = 1 .. Len(c) /\ Len(c) \in Nat
      BY <2>4
    <3>2. CASE i \in 1 .. Len(c)
      <4>1. (c \o e)[i] = c[i]
        BY <3>1, <3>2, <2>3
      <4> QED
        BY <4>1, <3>1, <3>2
    <3>3. CASE i = Len(c) + 1
      <4>1. (c \o e)[i] = e[1]
        BY <3>1, <3>3, <2>3
      <4> QED
        BY <4>1, <3>1, <3>3, <2>1, <2>3
    <3> QED
      BY <3>1, <3>2, <3>3
  <2> QED
    BY <2>3, <2>4, <2>5
<1> QED
  BY <1>1, <1>2

\* What a commit makes of the rows: the suspensions that overlook a matter do so as
\* before, and one that is committed is among them.
LEMMA CommitMerges ==
  ASSUME IInv, NEW r \in Requests, Commit(r)
  PROVE  /\ Merged(req[r], Rows, Rows') /\ Chained'
         /\ req' = [req EXCEPT ![r] = req'[r]] /\ req'[r] = Over(Call(r), "ok")
         /\ held' = [held EXCEPT ![r] = held'[r]] /\ held'[r] = {}
<1> DEFINE x == req[r]
<1>1. /\ req = [q \in Requests |-> req[q]] /\ held = [q \in Requests |-> held[q]]
      /\ x.at = "commit" /\ Chained
  BY DEF IInv, Shaped, Commit, At
<1>2. /\ Working(x, held[r], Rows) /\ Call(r) \in CallRecords /\ x.reply = "none"
      /\ RowsTyped(Rows)
  BY <1>1, AtWork
<1>3. /\ req' = [req EXCEPT ![r] = req'[r]] /\ req'[r] = Over(Call(r), "ok")
      /\ held' = [held EXCEPT ![r] = held'[r]] /\ held'[r] = {}
  BY <1>1 DEF Commit, Over
<1>4. /\ account' = Overlay(account, x.tx.account) /\ matters' = matters \cup x.tx.matters
      /\ member' = Overlay(member, x.tx.member) /\ log' = log \o x.tx.log
      /\ secured' = secured
  BY DEF Commit, Tx
<1>5. /\ \A q \in Requests : Call(q)' = Call(q)
      /\ \A q \in Requests \ {r} : req'[q] = req[q]
      /\ req'[r].reply = "ok"
  BY <1>1, <1>3, OverFields DEF Call
<1>6. Restored' = Restored
  BY <1>5 DEF Restored
<1>7. Chained' /\ Len(log') = Len(log) + Len(x.tx.log)
  <2>1. log \in Seq([prev : Nat]) /\ \A i \in DOMAIN log : log[i].prev = i - 1
    BY <1>1 DEF Chained, AccountChainNeverForks
  <2>2. x.tx.log = <<>> \/ x.tx.log = <<[prev |-> Len(log)]>>
    BY <1>1, <1>2, CommitLog DEF Rows
  <2>3. /\ log' \in Seq([prev : Nat]) /\ Len(log') = Len(log) + Len(x.tx.log)
        /\ \A i \in DOMAIN log' : log'[i].prev = i - 1
    BY <2>1, <2>2, <1>4, ChainGrows
  <2> QED
    BY <2>3 DEF Chained, AccountChainNeverForks
<1>8. /\ Rows.secured = secured /\ Rows.account = account /\ Rows.matters = matters
      /\ Rows.member = member /\ Rows.restored = Restored /\ Rows.unseen = Unseen
      /\ Rows.logged = Len(log)
      /\ Rows'.secured = secured' /\ Rows'.account = account' /\ Rows'.matters = matters'
      /\ Rows'.member = member' /\ Rows'.restored = Restored' /\ Rows'.unseen = Unseen'
      /\ Rows'.logged = Len(log')
  BY DEF Rows
<1>9. \A y, k : /\ Overlooked(y, Committed, k) <=> Overlooked(y, Rows, k)
                /\ Overlooked(y, Committed', k) <=> Overlooked(y, Rows', k)
  BY DEF Overlooked, MemberIn, Committed, Rows
<1>10. ASSUME x.call.op = "suspend", NEW k \in matters, Overlooked(x, Rows, k)
       PROVE  <<k, x.call.target>> \in Unseen'
  <2>1. x.tx.member = NoRows
    BY <1>2, <1>10 DEF Working, Ruling
  <2>2. member' = member
    BY <2>1, <1>2, <1>4, <1>8, OverlayNone DEF RowsTyped
  <2>3. Overlooked(req'[r], Rows', k)
    BY <1>4, <1>5, <1>6, <1>8, <1>10, <2>2 DEF Overlooked, MemberIn, Call
  <2>4. k \in Matters /\ x.call.target \in Reviewers
    BY <1>2, <1>8, <1>10, CallFields DEF RowsTyped, Call
  <2>5. /\ Call(r)'.op = "suspend" /\ req'[r].reply = "ok" /\ Call(r)'.target = x.call.target
        /\ Overlooked(req'[r], Committed', k)
    BY <1>5, <1>9, <1>10, <2>3 DEF Call
  <2>6. \E q \in Requests :
          /\ Call(q)'.op = "suspend" /\ req'[q].reply = "ok"
          /\ Call(q)'.target = <<k, x.call.target>>[2]
          /\ Overlooked(req'[q], Committed', <<k, x.call.target>>[1])
    BY <2>5
  <2> QED
    BY <2>4, <2>6 DEF Unseen
<1>11. ASSUME NEW k \in matters, NEW w, <<k, w>> \in Unseen, ~Changes(x, k)
       PROVE  <<k, w>> \in Unseen'
  <2>1. PICK q \in Requests :
          /\ Call(q).op = "suspend" /\ req[q].reply = "ok" /\ Call(q).target = w
          /\ Overlooked(req[q], Committed, k)
    BY <1>11 DEF Unseen
  <2>2. q # r /\ req'[q] = req[q]
    BY <2>1, <1>2, <1>5
  <2>3. Overlooked(req[q], Rows', k)
    <3> DEFINE u == req[q].call.by
    <3>1. Overlooked(req[q], Rows, k)
      BY <2>1, <1>9
    <3>2. ASSUME MemberIn(Rows', k, u)
          PROVE  MemberIn(Rows, k, u) \/ <<k, u>> \in Restored
      <4>1. k \in Rows.matters /\ Rows'.member = Overlay(Rows.member, x.tx.member)
        BY <1>4, <1>8
      <4> HIDE DEF u, x
      <4>2. MemberIn(Rows, k, u) \/ <<k, u>> \in Rows.restored
        BY <3>2, <4>1, <1>1, <1>2, <1>11, MembersElsewhere
      <4> QED
        BY <4>2, <1>8
    <3> QED
      BY <3>1, <3>2, <1>4, <1>6, <1>8 DEF Overlooked
  <2>4. \E p \in Requests :
          /\ Call(p)'.op = "suspend" /\ req'[p].reply = "ok" /\ Call(p)'.target = <<k, w>>[2]
          /\ Overlooked(req'[p], Committed', <<k, w>>[1])
    BY <2>1, <2>2, <2>3, <1>5, <1>9
  <2> QED
    BY <2>4, <1>11 DEF Unseen
<1>12. Merged(x, Rows, Rows')
  BY <1>4, <1>6, <1>7, <1>8, <1>10, <1>11 DEF Merged
<1> QED
  BY <1>3, <1>7, <1>12

\* A transaction is committed (Commit).
LEMMA CommitKeeps ==
  ASSUME IInv, NEW r \in Requests, Commit(r)
  PROVE  IInv'
<1> DEFINE x == req[r]
<1>1. x.at = "commit" /\ Chained /\ AnAccountRemains
  BY DEF IInv, Commit, At
<1>2. /\ Working(x, held[r], Rows) /\ Call(r) \in CallRecords /\ RowsTyped(Rows)
  BY <1>1, AtWork
<1>3. /\ Merged(x, Rows, Rows') /\ Chained'
      /\ req' = [req EXCEPT ![r] = req'[r]] /\ req'[r] = Over(Call(r), "ok")
      /\ held' = [held EXCEPT ![r] = held'[r]] /\ held'[r] = {}
  BY CommitMerges
<1>4. /\ IsRequest(req'[r]) /\ req'[r].at = "done" /\ req'[r].tx = NoChanges
      /\ NoChanges.locked = {} /\ NoChanges.matters = {}
  BY <1>3, OverFields, NoChangesFields
<1>5. Rows.logged \in Nat
  BY <1>1 DEF Chained, Rows
<1> HIDE DEF x
<1>6. RowsTyped(Rows')
  <2>1. Apart({}, held[r])
    BY DEF Apart
  <2> QED
    BY <2>1, <1>1, <1>2, <1>3, <1>5, CommitGuards
<1>7. Local(req'[r], held'[r], Rows')
  BY <1>4, LocalOf
<1>8. ASSUME NEW q \in Requests \ {r}
      PROVE  Unharmed(req[q], held[q], Rows, Rows')
  <2>1. /\ Apart(held[q], held[r]) /\ Local(req[q], held[q], Rows)
        /\ x.tx.matters \cap req[q].tx.matters = {}
        /\ \A k \in Matters : Changes(x, k) /\ Changes(req[q], k) =>
             x.tx.locked \subseteq req[q].tx.locked \/ req[q].tx.locked \subseteq x.tx.locked
    BY DEF IInv, LocksExclusive, Orderly, MattersApart, Nested, Tx, x
  <2> QED
    BY <2>1, <1>1, <1>2, <1>3, <1>5, CommitUnharmed
<1>9. AnAccountRemains'
  <2>1. PICK u : SeniorIn(Rows, u)
    BY <1>1, <1>2, Looks DEF AnAccountRemains
  <2>2. PICK v : SeniorIn(Rows', v)
    BY <2>1, <1>1, <1>2, <1>3, AccountsRemain DEF Merged
  <2>3. v \in DOMAIN account' /\ account'[v].active /\ account'[v].role = SeniorCounsel
    BY <2>2 DEF SeniorIn, SeniorRole, Rows
  <2> QED
    BY <2>3 DEF AnAccountRemains, ActiveSenior
<1> QED
  BY <1>3, <1>4, <1>6, <1>7, <1>8, <1>9, EndsKeep

-----------------------------------------------------------------------------
(***************************************************************************)
(* The invariant of the specification.                                     *)
(***************************************************************************)

\* The invariant holds at the start, when the accounts and memberships to begin with
\* are there and no request has arrived.
LEMMA InitKeeps ==
  ASSUME Init
  PROVE  IInv
<1>1. /\ req = [r \in Requests |-> Idle] /\ held = [r \in Requests |-> {}] /\ log = <<>>
      /\ account = Opening.account /\ member = Opening.member /\ secured \in Deployments
      /\ matters = {m[1] : m \in DOMAIN member}
  BY DEF Init
<1>2. /\ IsRequest(Idle) /\ Idle.at = "idle" /\ Idle.tx = NoChanges
      /\ Idle.reply = "none" /\ Idle.call = [op |-> "none"]
  <2>1. HasFields(Idle, {"at", "call", "tx", "reply"}) /\ Idle.tx = NoChanges
    BY DEF Idle, HasFields
  <2> QED
    BY <2>1, NoChangesFields DEF Idle, IsRequest, TxFields
<1>3. Shaped
  BY <1>1, <1>2 DEF Shaped
<1>4. RowsTyped(Rows) /\ AnAccountRemains
  <2>1. PICK accounts \in SUBSET Reviewers : Opening.account \in [accounts -> AccountRow]
    BY OpeningAssumption
  <2>2. PICK members \in SUBSET (Matters \X DOMAIN Opening.account) :
          Opening.member \in [members -> AccountRow]
    BY OpeningAssumption
  <2>3. /\ DOMAIN account \subseteq Reviewers /\ IsTable(account)
        /\ \A v \in DOMAIN account : account[v] \in AccountRow
    BY <2>1, <1>1 DEF IsTable
  <2>4. /\ DOMAIN member \subseteq Matters \X DOMAIN account /\ IsTable(member)
        /\ \A m \in DOMAIN member : member[m] \in AccountRow
    BY <2>2, <1>1 DEF IsTable
  <2>5. matters \subseteq Matters /\ DOMAIN member \subseteq matters \X DOMAIN account
    BY <2>4, <1>1
  <2>6. AnAccountRemains
    BY <1>1, OpeningAssumption DEF AnAccountRemains, ActiveSenior
  <2> QED
    BY <1>1, <2>3, <2>4, <2>5, <2>6 DEF RowsTyped, Rows
<1>5. Orderly
  <2>1. \A r \in Requests : Local(req[r], held[r], Rows)
    BY <1>1, <1>2, LocalOf
  <2> QED
    BY <2>1 DEF Orderly
<1>6. LocksExclusive /\ MattersApart
  BY <1>1, <1>2, NoChangesFields DEF LocksExclusive, Apart, MattersApart, Tx
<1>7. Nested
  BY <1>1, <1>2 DEF Nested, Changes
<1>8. Chained
  BY <1>1 DEF Chained, AccountChainNeverForks
<1> QED
  BY <1>3, <1>4, <1>5, <1>6, <1>7, <1>8 DEF IInv

\* Every step keeps the invariant.
LEMMA NextKeeps ==
  ASSUME IInv, [Next]_vars
  PROVE  IInv'
<1>1. ASSUME NEW r \in Requests, NEW call \in Calls, Arrive(r, call) PROVE IInv'
  BY <1>1, ArriveKeeps
<1>2. ASSUME NEW r \in Requests, Step(r) PROVE IInv'
  <2>1. CASE TakeLock(r)
    BY <2>1, TakeLockKeeps
  <2>2. CASE FindMembers(r)
    BY <2>2, FindMembersKeeps
  <2>3. CASE DecideMembership(r)
    BY <2>3, DecideMembershipKeeps
  <2>4. CASE InsertMembership(r)
    BY <2>4, InsertMembershipKeeps
  <2>5. CASE FindSeniors(r)
    BY <2>5, FindSeniorsKeeps
  <2>6. CASE CheckAuthority(r)
    BY <2>6, CheckAuthorityKeeps
  <2>7. CASE CheckAccount(r)
    BY <2>7, CheckAccountKeeps
  <2>8. CASE CheckReplacement(r)
    BY <2>8, CheckReplacementKeeps
  <2>9. CASE WriteAccount(r)
    BY <2>9, WriteAccountKeeps
  <2>10. CASE ProvisionAccount(r)
    BY <2>10, ProvisionAccountKeeps
  <2>11. CASE OpenMatter(r)
    BY <2>11, OpenMatterKeeps
  <2>12. CASE RestoreAccess(r)
    BY <2>12, RestoreAccessKeeps
  <2>13. CASE LockAccountAudit(r)
    BY <2>13, LockAccountAuditKeeps
  <2>14. CASE AppendAccountAudit(r)
    BY <2>14, AppendAccountAuditKeeps
  <2>15. CASE Commit(r)
    BY <2>15, CommitKeeps
  <2>16. CASE CancelDeadlocked(r)
    BY <2>16, CancelDeadlockedKeeps
  <2> QED
    BY <1>2, <2>1, <2>2, <2>3, <2>4, <2>5, <2>6, <2>7, <2>8, <2>9, <2>10, <2>11, <2>12,
       <2>13, <2>14, <2>15, <2>16 DEF Step
<1>3. CASE UNCHANGED vars
  <2>1. UNCHANGED <<secured, account, matters, member, log, req, held>>
    BY <1>3 DEF vars, rows
  <2>2. Rows' = Rows
    BY <2>1 DEF Rows, Restored, Unseen, Committed, Call
  <2> QED
    BY <2>1, <2>2 DEF IInv, Shaped, Orderly, LocksExclusive, MattersApart, Nested, Tx,
                      Chained, AccountChainNeverForks, AnAccountRemains, ActiveSenior
<1> QED
  BY <1>1, <1>2, <1>3 DEF Next

\* Whatever requests arrive and however they interleave, each knows what it has
\* locked, and what it has checked is still so.
THEOREM Invariance == Spec => []IInv
<1>1. Init => IInv
  BY InitKeeps
<1>2. IInv /\ [Next]_vars => IInv'
  BY NextKeeps
<1> QED
  BY <1>1, <1>2, PTL DEF Spec

\* The rows are of their tables' columns, a membership refers to a matter and an
\* account that are there, and who waits waits for a lock (db/models.py).
THEOREM AuthorityTyped == Spec => []TypeOK
<1>1. IInv => TypeOK
  <2>1. ASSUME IInv PROVE TypeOK
    <3>1. RowsTyped(Rows) /\ \A r \in Requests : Local(req[r], held[r], Rows)
      BY <2>1 DEF IInv, Orderly
    <3>2. \A r \in Requests : At(r, "lock") => Tx(r).todo # <<>>
      BY <3>1, LocalOf DEF At, Tx
    <3> QED
      BY <3>1, <3>2 DEF TypeOK, RowsTyped, Rows
  <2> QED
    BY <2>1
<1> QED
  BY <1>1, Invariance, PTL

\* However administrators suspend one another, an active Senior account remains
\* (set_reviewer_active_admin): who commits a suspension has his own account locked.
THEOREM AccountRemains == Spec => []AnAccountRemains
<1>1. IInv => AnAccountRemains
  BY DEF IInv
<1> QED
  BY <1>1, Invariance, PTL

\* The account audit chain never forks (_append_account_audit).
THEOREM AccountChain == Spec => []AccountChainNeverForks
<1>1. IInv => AccountChainNeverForks
  BY DEF IInv, Chained
<1> QED
  BY <1>1, Invariance, PTL

-----------------------------------------------------------------------------
(***************************************************************************)
(* What a step may never do.                                               *)
(***************************************************************************)

\* An account is suspended or reinstated by an administrator whose own account is
\* active at that moment (set_reviewer_active_admin, locked_actor): he is among the
\* Seniors whose rows the request has locked.
THEOREM RuledByTheActive == Spec => AccountsAreRuledByTheActive
<1>1. IInv /\ [Next]_vars =>
        \A r \in Requests :
          At(r, "commit") /\ Call(r).op \in {"suspend", "reinstate"} /\ req'[r].reply = "ok"
            => ActiveSenior(Call(r).by)
  <2> SUFFICES ASSUME IInv, NEW r \in Requests,
                      At(r, "commit"), Call(r).op \in {"suspend", "reinstate"}
               PROVE  ActiveSenior(Call(r).by)
    OBVIOUS
  <2>1. Working(req[r], held[r], Rows) /\ RowsTyped(Rows) /\ Stage(req[r]) = "commit"
    BY AtWork, AtStage DEF At
  <2>2. Ruling(req[r], held[r], Rows)
    BY <2>1 DEF Working, Call
  <2>3. SeniorRole(Rows, Call(r).by) /\ Rows.account[Call(r).by].active
    BY <2>1, <2>2 DEF Ruling, Ruled, Audited, Call
  <2> QED
    BY <2>1, <2>3, Looks DEF SeniorIn
<1> QED
  BY <1>1, Invariance, PTL DEF Spec, AccountsAreRuledByTheActive

\* Only a commit changes the rows.
LEMMA OnlyCommits ==
  ASSUME [Next]_vars
  PROVE  UNCHANGED <<secured, rows>> \/ \E r \in Requests : Commit(r)
<1>1. ASSUME NEW r \in Requests, Step(r), ~Commit(r)
      PROVE  UNCHANGED <<secured, rows>>
  <2>1. CASE TakeLock(r) \/ CancelDeadlocked(r)
    BY <2>1 DEF TakeLock, CancelDeadlocked, Abort
  <2>2. CASE FindMembers(r) \/ DecideMembership(r) \/ InsertMembership(r)
    BY <2>2 DEF FindMembers, DecideMembership, InsertMembership, Acquire, Proceed, Abort
  <2>3. CASE FindSeniors(r) \/ CheckAuthority(r) \/ CheckAccount(r) \/ CheckReplacement(r)
    BY <2>3 DEF FindSeniors, CheckAuthority, CheckAccount, CheckReplacement, Acquire, Proceed,
                Abort
  <2>4. CASE WriteAccount(r) \/ ProvisionAccount(r) \/ OpenMatter(r) \/ RestoreAccess(r)
    BY <2>4 DEF WriteAccount, ProvisionAccount, OpenMatter, RestoreAccess, Acquire, Proceed,
                Abort
  <2>5. CASE LockAccountAudit(r) \/ AppendAccountAudit(r)
    BY <2>5 DEF LockAccountAudit, AppendAccountAudit, Acquire, Proceed
  <2> QED
    BY <1>1, <2>1, <2>2, <2>3, <2>4, <2>5 DEF Step
<1>2. ASSUME NEW r \in Requests, NEW call \in Calls, Arrive(r, call)
      PROVE  UNCHANGED <<secured, rows>>
  BY <1>2 DEF Arrive
<1>3. CASE UNCHANGED vars
  BY <1>3 DEF vars, rows
<1> QED
  BY <1>1, <1>2, <1>3 DEF Next

\* A commit makes an effective Senior of a matter one no longer only by suspending
\* him, or by demoting or removing him there.
LEMMA LosesASenior ==
  ASSUME NEW x, NEW H, NEW M, NEW N, RowsTyped(M), x.at = "commit", Working(x, H, M),
         Merged(x, M, N), NEW k \in M.matters, NEW w, Effective(M, k, w), ~Effective(N, k, w)
  PROVE  /\ x.call.target = w
         /\ \/ x.call.op = "suspend"
            \/ Changes(x, k) /\ x.tx.member[<<k, w>>] # SeniorRow
<1>1. /\ Stage(x) = "commit" /\ x.call.op \in Operations
      /\ <<k, w>> \in DOMAIN M.member /\ w \in DOMAIN M.account
      /\ N.account = Overlay(M.account, x.tx.account)
      /\ N.member = Overlay(M.member, x.tx.member)
  BY AtStage, CallFields DEF Working, Merged, Effective, SeniorOn, SeniorIn, SeniorRole, MemberIn
<1>2. /\ <<k, w>> \in DOMAIN N.member
      /\ N.member[<<k, w>>] = IF <<k, w>> \in DOMAIN x.tx.member THEN x.tx.member[<<k, w>>]
                              ELSE M.member[<<k, w>>]
      /\ w \in DOMAIN N.account
      /\ N.account[w] = IF w \in DOMAIN x.tx.account THEN x.tx.account[w] ELSE M.account[w]
  BY <1>1 DEF Overlay
<1>3. \/ <<k, w>> \in DOMAIN x.tx.member /\ x.tx.member[<<k, w>>] # SeniorRow
      \/ w \in DOMAIN x.tx.account
  BY <1>2 DEF Effective, SeniorOn, SeniorIn, SeniorRole, MemberIn, SeniorRow
<1>4. CASE x.call.op \in {"set", "remove"}
  <2>1. /\ DOMAIN x.tx.account = {}
        /\ \E row : x.tx.member = Only(<<x.call.matter, x.call.target>>, row)
    BY <1>1, <1>4 DEF Working, Changing, Settled, NoRows
  <2> QED
    BY <1>3, <1>4, <2>1 DEF Only, Changes
<1>5. CASE x.call.op \in {"suspend", "reinstate"}
  <2> DEFINE v == x.call.target
  <2>1. /\ DOMAIN x.tx.member = {} /\ v \in DOMAIN M.account
        /\ x.tx.account = Only(v, [M.account[v] EXCEPT !.active = (x.call.op = "reinstate")])
    BY <1>1, <1>5 DEF Working, Ruling, Ruled, Audited, NoRows
  <2>2. w = v
    BY <1>3, <2>1 DEF Only
  <2>3. ASSUME x.call.op = "reinstate"
        PROVE  FALSE
    <3> DEFINE row == [M.account[v] EXCEPT !.active = (x.call.op = "reinstate")]
    <3>1. row.active /\ row.role = M.account[v].role
      <4>1. M.account[v] \in AccountRow
        BY <2>1 DEF RowsTyped
      <4> QED
        BY <4>1, <2>3 DEF AccountRow
    <3>2. x.tx.account = Only(v, row)
      BY <2>1
    <3> HIDE DEF row
    <3>3. N.account[w] = row /\ N.member[<<k, w>>] = M.member[<<k, w>>]
      BY <1>2, <2>1, <2>2, <3>2 DEF Only
    <3> QED
      BY <3>1, <3>3, <1>2, <2>2 DEF Effective, SeniorOn, SeniorIn, SeniorRole, MemberIn
  <2> QED
    BY <1>5, <2>2, <2>3
<1>6. CASE x.call.op = "provision"
  <2>1. /\ DOMAIN x.tx.member = {} /\ x.call.target \notin DOMAIN M.account
        /\ \E row : x.tx.account = Only(x.call.target, row)
    BY <1>1, <1>6 DEF Working, Provisioning, Audited, NoRows
  <2> QED
    BY <1>1, <1>3, <2>1 DEF Only
<1>7. CASE x.call.op = "open"
  <2>1. /\ DOMAIN x.tx.account = {}
        /\ \E j \in Matters \ M.matters : x.tx.member = Only(<<j, x.call.by>>, SeniorRow)
    BY <1>1, <1>7 DEF Working, Founding, NoRows
  <2> QED
    BY <1>3, <2>1 DEF Only
<1>8. CASE x.call.op = "restore"
  <2>1. /\ DOMAIN x.tx.account = {}
        /\ x.tx.member = Only(<<x.call.matter, x.call.target>>, SeniorRow)
    BY <1>1, <1>8 DEF Working, Restoring, NoRows
  <2> QED
    BY <1>3, <2>1 DEF Only
<1> QED
  BY <1>1, <1>4, <1>5, <1>6, <1>7, <1>8 DEF Operations

\* What the invariant calls overlooked is overlooked.
LEMMA OverlookedOverlooks ==
  ASSUME RowsTyped(Rows), NEW q \in Requests, NEW k, Call(q).op = "suspend",
         Overlooked(req[q], Rows, k)
  PROVE  Overlooks(q, k)
<1>1. \/ secured /\ ~MemberIn(Rows, k, Call(q).by)
      \/ <<k, Call(q).by>> \in Restored \/ <<k, Call(q).target>> \in Restored
  BY DEF Overlooked, Rows, Call
<1>2. secured /\ ~MemberIn(Rows, k, Call(q).by) => ~Sees(Call(q).by, k)
  BY Looks
<1>3. \A v : <<k, v>> \in Restored =>
        \E p \in Requests : Call(p).op = "restore" /\ Call(p).matter = k /\ Call(p).target = v
  BY DEF Restored
<1> QED
  BY <1>1, <1>2, <1>3 DEF Overlooks

\* No demotion, removal, suspension or reinstatement takes the last effective Senior
\* from a matter, unless a suspension overlooks it (set_case_member_admin,
\* set_reviewer_active_admin).  A change of membership has locked the one it counts
\* on, and a suspension the one who replaces the Senior it suspends; neither can be
\* demoted or removed meanwhile, and he can be suspended only by a request that
\* finds another, or overlooks the matter.
THEOREM MattersKept == Spec => MattersKeepASenior
<1>1. ASSUME IInv, [Next]_vars, NEW k \in matters,
             EffectiveSeniors(k) # {}, EffectiveSeniors(k)' = {}
      PROVE  \E q \in Requests :
               /\ Overlooks(q, k)
               /\ \/ At(q, "commit")
                  \/ req[q].reply = "ok" /\ \E r \in Requests : CountsOn(r, Call(q).target, k)
  <2>1. PICK r \in Requests : Commit(r)
    <3>1. UNCHANGED <<secured, rows>> => EffectiveSeniors(k)' = EffectiveSeniors(k)
      BY DEF EffectiveSeniors, ActiveSeniorMember, ActiveMember, MembersOf, ActiveSenior, rows
    <3> QED
      BY <1>1, <3>1, OnlyCommits
  <2> DEFINE x == req[r]
  <2>2. x.at = "commit" /\ IInv'
    BY <1>1, <2>1, CommitKeeps DEF Commit, At
  <2>3. /\ Working(x, held[r], Rows) /\ RowsTyped(Rows) /\ RowsTyped(Rows') /\ k \in Rows.matters
        /\ Stage(x) = "commit" /\ Claimed(x, held[r]) = held[r]
    BY <1>1, <2>2, AtWork, AtStage DEF IInv, Rows
  <2>4. Merged(x, Rows, Rows')
    BY <1>1, <2>1, CommitMerges
  <2>5. \A w : ~Effective(Rows', k, w)
    <3>1. ASSUME NEW w, Effective(Rows', k, w)
          PROVE  w \in EffectiveSeniors(k)'
      <4>1. w \in Reviewers
        BY <2>3, <3>1 DEF RowsTyped, Effective, SeniorIn, SeniorRole
      <4> QED
        BY <4>1, <3>1 DEF EffectiveSeniors, ActiveSeniorMember, ActiveMember, MembersOf,
                          ActiveSenior, Effective, SeniorOn, MemberIn, SeniorIn, SeniorRole, Rows
    <3> QED
      BY <1>1, <3>1
  <2>6. PICK v : Effective(Rows, k, v)
    BY <1>1, <2>3, Looks
  <2> HIDE DEF x
  <2>7. /\ \A w : Effective(Rows, k, w) => w = x.call.target
        /\ \/ x.call.op = "suspend"
           \/ Changes(x, k) /\ x.tx.member[<<k, v>>] # SeniorRow
    <3>1. ASSUME NEW w, Effective(Rows, k, w)
          PROVE  /\ x.call.target = w
                 /\ \/ x.call.op = "suspend"
                    \/ Changes(x, k) /\ x.tx.member[<<k, w>>] # SeniorRow
      <4>1. ~Effective(Rows', k, w)
        BY <2>5
      <4> QED
        BY <4>1, <3>1, <2>2, <2>3, <2>4, LosesASenior
    <3> QED
      BY <3>1, <2>6
  <2>8. CASE x.call.op = "suspend"
    <3>1. /\ x.tx.affected = <<>> /\ Effective(Rows, k, x.call.target)
          /\ \A j \in Rows.matters : Effective(Rows, j, x.call.target) =>
               \/ j \in Listed(x.tx.affected)
               \/ Replaced(x, held[r], Rows, j)
               \/ Overlooked(x, Rows, j)
      BY <2>3, <2>6, <2>7, <2>8 DEF Working, Ruling, Ruled, Audited
    <3>2. ~Replaced(x, held[r], Rows, k)
      BY <2>7 DEF Replaced
    <3>3. Overlooked(x, Rows, k)
      BY <2>3, <3>1, <3>2, ListedFew
    <3>4. Overlooks(r, k)
      BY <2>3, <2>8, <3>3, OverlookedOverlooks DEF x, Call
    <3> QED
      BY <2>2, <3>4 DEF At, x
  <2>9. CASE Changes(x, k) /\ x.tx.member[<<k, v>>] # SeniorRow
    <3>1. /\ x.call.op \in {"set", "remove"} /\ x.call.matter = k /\ x.call.target = v
          /\ Changing(x, held[r], Rows)
      BY <2>3, <2>6, <2>7, <2>9 DEF Changes, Working
    <3>2. PICK row : x.tx.member = Only(<<k, v>>, row) /\ Counted(x, Rows, row)
      BY <2>3, <3>1 DEF Changing, Settled
    <3>3. row # SeniorRow
      BY <2>9, <3>2 DEF Only
    <3>4. PICK w \in x.tx.locked \ {v} :
            /\ SeniorOn(Rows, k, w) /\ SeniorRole(Rows, w)
            /\ Rows.account[w].active \/ <<k, w>> \in Rows.unseen
      BY <3>1, <3>2, <3>3 DEF Counted
    <3>5. ~Rows.account[w].active
      BY <2>7, <3>1, <3>4 DEF Effective, SeniorIn
    <3>6. PICK q \in Requests :
            /\ Call(q).op = "suspend" /\ req[q].reply = "ok" /\ Call(q).target = w
            /\ Overlooked(req[q], Committed, k)
      BY <3>4, <3>5 DEF Rows, Unseen
    <3>7. Overlooked(req[q], Rows, k)
      BY <3>6 DEF Overlooked, MemberIn, Committed, Rows
    <3>8. Overlooks(q, k)
      BY <2>3, <3>6, <3>7, OverlookedOverlooks
    <3>9. CountsOn(r, Call(q).target, k)
      BY <2>2, <2>3, <3>1, <3>4, <3>6, Looks DEF CountsOn, At, Call, Tx, x
    <3> QED
      BY <3>6, <3>8, <3>9
  <2> QED
    BY <2>7, <2>8, <2>9
<1>2. IInv /\ [Next]_vars =>
        \A k \in matters :
          EffectiveSeniors(k) # {} /\ EffectiveSeniors(k)' = {} =>
            \E q \in Requests :
              /\ Overlooks(q, k)
              /\ \/ At(q, "commit")
                 \/ req[q].reply = "ok" /\ \E r \in Requests : CountsOn(r, Call(q).target, k)
  BY <1>1
<1> QED
  BY <1>2, Invariance, PTL DEF Spec, MattersKeepASenior

-----------------------------------------------------------------------------
(***************************************************************************)
(* The order of locks.                                                     *)
(***************************************************************************)

\* Every lock has a level, and a request that waits has locked nothing above the level
\* of what it waits for; accounts and memberships are ordered among themselves.
Level(l) ==
  CASE l.lock[1] \in {"restore", "name"} -> 1
    [] l.lock[1] = "matter"              -> 2
    [] l.lock[1] = "account"             -> 3
    [] l.lock[1] = "member"              -> 4
    [] l.lock[1] = "place"               -> 5
    [] OTHER                             -> 6

AccountNames == {AccountLock(v) : v \in Reviewers}
MemberNames  == {MemberLock(k, v) : k \in Matters, v \in Reviewers}
OtherNames ==
  {PlaceLock(k, v) : k \in Matters, v \in Reviewers} \cup {MatterLock(k) : k \in Matters}
    \cup {NameLock(v) : v \in Reviewers} \cup {AuditLock, RestoreLock}

Locks == {Exclusive(name) : name \in AccountNames \cup MemberNames \cup OtherNames}

SharedLocks ==
  {Shared(AccountLock(v)) : v \in Reviewers} \cup {Shared(MatterLock(k)) : k \in Matters}

\* A request that changes account v and has locked the Senior accounts S may hold a
\* while it waits for b.
Precedes(v, S, a, b) ==
  \/ b.mode = "shared"
  \/ Level(a) < Level(b)
  \/ /\ Level(a) = 4 /\ Level(b) = 4
     /\ \/ a.lock[2] < b.lock[2]
        \/ a.lock[2] = b.lock[2] /\ a.lock[3] < b.lock[3]
  \/ /\ Level(a) = 3 /\ Level(b) = 3
     /\ \/ a.lock[2] < b.lock[2]
        \/ v \notin S /\ b.lock[2] = v /\ a.lock[2] \in S

Ascending(list) == \A i, j \in DOMAIN list : i < j => list[i] < list[j]

\* What a request has claimed when it gets to a stage: the locks C.
Climbed(stage, v, S, list, C) ==
  /\ stage \in {"seniors", "provision", "open", "restore"} => C = {}
  /\ stage = "authority" => C \subseteq AccountClaims(S)
  /\ stage = "account" => C \subseteq AccountClaims(S \cup {v})
  /\ stage = "members" =>
       \A c \in C : Level(c) # 3 =>
         Level(c) = 4 /\ c.lock[2] \in Matters /\ c.lock[2] < Head(list)
  /\ stage = "replacement" =>
       \A c \in C : Level(c) # 3 =>
         Level(c) = 4 /\ c.lock[2] \in Matters /\ c.lock[2] <= Head(list)
  /\ stage \in {"members", "replacement"} => Ascending(list)
  /\ stage \in {"decide", "write"} => \A c \in C : Level(c) \in {3, 4}
  /\ stage \in {"named", "examine"} => \A c \in C : Level(c) \in {1, 2}
  /\ stage \in {"insert", "audit"} => \A c \in C : Level(c) < 6

\* The locks a request waits for, one after the other, on its way to a stage.
Sought(stage, v, S, H, todo) ==
  /\ Listed(todo) \subseteq Locks \cup SharedLocks
  /\ \A a \in H : \A b \in Listed(todo) : Precedes(v, S, a, b)
  /\ \A i, j \in DOMAIN todo : i < j => Precedes(v, S, todo[i], todo[j])
  /\ \A b \in Listed(todo) : b.mode = "exclusive" /\ Level(b) = 3 =>
       \/ stage = "authority" /\ b.lock[2] \in S
       \/ stage = "account" /\ b.lock[2] = v /\ v \notin S

Climb(x, H) ==
  /\ x.at \in {"idle", "done"} => H = {}
  /\ x.at \notin {"idle", "done"} =>
       Climbed(Stage(x), x.call.target, x.tx.seniors, x.tx.affected, Claimed(x, H))
  /\ x.at = "lock" => Sought(Stage(x), x.call.target, x.tx.seniors, H, x.tx.todo)

Climbing == \A r \in Requests : Climb(req[r], held[r])

\* The levels of the locks there are.
LEMMA Levels ==
  /\ \A l : Level(l) \in 1 .. 6
  /\ \A v : Level(Exclusive(AccountLock(v))) = 3 /\ Level(Shared(AccountLock(v))) = 3
  /\ \A k : Level(Exclusive(MatterLock(k))) = 2 /\ Level(Shared(MatterLock(k))) = 2
  /\ \A k, v : /\ Level(Exclusive(MemberLock(k, v))) = 4
               /\ Level(Exclusive(PlaceLock(k, v))) = 5
  /\ \A v : Level(Exclusive(NameLock(v))) = 1
  /\ Level(Exclusive(AuditLock)) = 6 /\ Level(Exclusive(RestoreLock)) = 1
BY DEF Level, Exclusive, Shared, AccountLock, MatterLock, MemberLock, PlaceLock, NameLock,
       AuditLock, RestoreLock

\* What a lock is the lock of.
LEMMA LockParts ==
  /\ \A v : /\ Exclusive(AccountLock(v)).lock[2] = v
            /\ Exclusive(AccountLock(v)).mode = "exclusive"
            /\ Shared(AccountLock(v)).mode = "shared"
  /\ \A k, v : /\ Exclusive(MemberLock(k, v)).lock[2] = k
               /\ Exclusive(MemberLock(k, v)).lock[3] = v
  /\ \A k : Shared(MatterLock(k)).mode = "shared"
BY DEF Exclusive, Shared, AccountLock, MatterLock, MemberLock

\* The locks of the accounts of some reviewers.
LEMMA AccountClaimed ==
  ASSUME NEW S, NEW c \in AccountClaims(S)
  PROVE  Level(c) = 3 /\ c.lock[2] \in S /\ c.mode = "exclusive"
<1>1. PICK v \in S : c = Exclusive(AccountLock(v))
  BY DEF AccountClaims
<1> QED
  BY <1>1, Levels, LockParts

\* The locks of some memberships of a matter.
LEMMA MemberClaimed ==
  ASSUME NEW S, NEW k, NEW c \in MemberClaims(k, S)
  PROVE  Level(c) = 4 /\ c.lock[2] = k /\ c.lock[3] \in S
<1>1. PICK v \in S : c = Exclusive(MemberLock(k, v))
  BY DEF MemberClaims
<1> QED
  BY <1>1, Levels, LockParts

\* The greatest of finitely many numbers.
LEMMA Greatest ==
  ASSUME NEW S, S \subseteq Nat, IsFiniteSet(S), S # {}
  PROVE  \E x \in S : \A y \in S : y <= x
<1> DEFINE n == Cardinality(S)
<1>1. n \in Nat /\ n # 0
  BY FS_CardinalityType, FS_EmptySet
<1>2. n \in 1 .. n
  BY <1>1
<1>3. /\ \A x \in S : Rank(S, x) \in 1 .. n
      /\ \A i \in 1 .. n : \E x \in S : Rank(S, x) = i
  BY RanksFill
<1> HIDE DEF n
<1>4. PICK x \in S : Rank(S, x) = n
  BY <1>2, <1>3
<1>5. ASSUME NEW y \in S, ~ (y <= x) PROVE FALSE
  <2>1. x \in Nat /\ y \in Nat
    OBVIOUS
  <2>2. x < y
    BY <1>5, <2>1
  <2>3. Rank(S, x) < Rank(S, y)
    BY ONLY <2>2, x \in S, y \in S, S \subseteq Nat, IsFiniteSet(S), RankGrows
  <2>4. Rank(S, y) \in 1 .. n
    BY <1>3
  <2> QED
    BY <1>1, <1>4, <2>3, <2>4
<1> QED
  BY <1>4, <1>5

\* The locks of a statement are taken in the order of what they lock
\* (SELECT ... ORDER BY ... FOR UPDATE).
LEMMA LocksAscend ==
  ASSUME NEW S, S \subseteq Nat, IsFiniteSet(S), NEW k \in Nat, NEW v, NEW T
  PROVE  /\ \A i, j \in DOMAIN AccountLocks(S) : i < j =>
              Precedes(v, T, AccountLocks(S)[i], AccountLocks(S)[j])
         /\ \A i, j \in DOMAIN MemberLocks(k, S) : i < j =>
              Precedes(v, T, MemberLocks(k, S)[i], MemberLocks(k, S)[j])
         /\ Ascending(InOrder(S))
<1> DEFINE n == Cardinality(S)
<1> DEFINE s == InOrder(S)
<1>0. n \in Nat /\ s \in [1 .. n -> S] /\ \A i, j \in 1 .. n : i < j => s[i] < s[j]
  BY InOrderOrders, FS_CardinalityType
<1>1. /\ MemberLocks(k, S) = [i \in 1 .. n |-> Exclusive(MemberLock(k, s[i]))]
      /\ AccountLocks(S) = [i \in 1 .. n |-> Exclusive(AccountLock(s[i]))]
  BY DEF MemberLocks, AccountLocks
<1>2. Ascending(s)
  BY <1>0 DEF Ascending
<1> HIDE DEF n, s
<1>3. ASSUME NEW i \in 1 .. n, NEW j \in 1 .. n, i < j
      PROVE  Precedes(v, T, Exclusive(AccountLock(s[i])), Exclusive(AccountLock(s[j])))
  <2>1. s[i] < s[j]
    BY <1>0, <1>3
  <2> QED
    BY <2>1, Levels, LockParts DEF Precedes
<1>4. ASSUME NEW i \in 1 .. n, NEW j \in 1 .. n, i < j
      PROVE  Precedes(v, T, Exclusive(MemberLock(k, s[i])), Exclusive(MemberLock(k, s[j])))
  <2>1. s[i] < s[j]
    BY <1>0, <1>4
  <2> QED
    BY <2>1, Levels, LockParts DEF Precedes
<1> QED
  BY <1>1, <1>2, <1>3, <1>4 DEF s

\* A request waits for the locks a statement takes (Acquire), in the order of locks.
LEMMA ClimbsToLocks ==
  ASSUME IInv, NEW r \in Requests, NEW tx, NEW todo, NEW label, Acquire(r, tx, todo, label),
         HasFields(tx, TxFields), label \notin {"idle", "done", "lock"},
         todo \in Seq(Listed(todo)),
         Sought(label, Call(r).target, tx.seniors, held[r], todo),
         Climbed(label, Call(r).target, tx.seniors, tx.affected, held[r] \cup Listed(todo))
  PROVE  Climb(req'[r], held'[r])
<1> DEFINE y == req'[r]
<1>1. /\ Reaches(req[r], y, held[r], tx, label, Listed(todo))
      /\ held'[r] = held[r]
  BY Acquires
<1>2. y.at = "lock" => y.tx.todo = todo
  <2>1. req = [q \in Requests |-> req[q]] /\ IsRequest(req[r])
    BY DEF IInv, Shaped
  <2> DEFINE new == [tx EXCEPT !.todo = todo, !.then = label]
  <2> DEFINE at == IF todo = <<>> THEN label ELSE "lock"
  <2>2. new.todo = todo
    BY DEF HasFields, TxFields
  <2>3. req' = [req EXCEPT ![r].at = at, ![r].tx = new]
    BY DEF Acquire, Proceed
  <2> HIDE DEF new, at
  <2>4. y.tx = new
    BY <2>1, <2>3 DEF IsRequest, HasFields
  <2> QED
    BY <2>2, <2>4
<1>3. /\ y.call = Call(r) /\ y.at \notin {"idle", "done"} /\ Stage(y) = label
      /\ Claimed(y, held[r]) = held[r] \cup Listed(todo)
      /\ y.tx.seniors = tx.seniors /\ y.tx.affected = tx.affected
  BY <1>1 DEF Reaches, Call
<1> HIDE DEF y
<1> QED
  BY <1>1, <1>2, <1>3 DEF Climb, y

\* A request goes on at a label (Proceed) with the locks it has.
LEMMA ClimbsOn ==
  ASSUME IInv, NEW r \in Requests, NEW tx, NEW label, Proceed(r, tx, label),
         HasFields(tx, TxFields), label \notin {"idle", "done", "lock"},
         Climbed(label, Call(r).target, tx.seniors, tx.affected, held[r])
  PROVE  Climb(req'[r], held'[r])
<1> DEFINE y == req'[r]
<1>1. Reaches(req[r], y, held[r], tx, label, {}) /\ held'[r] = held[r]
  BY Proceeds
<1>2. y.at = label
  <2>1. req = [q \in Requests |-> req[q]] /\ IsRequest(req[r])
    BY DEF IInv, Shaped
  <2>2. req' = [req EXCEPT ![r].at = label, ![r].tx = tx]
    BY DEF Proceed
  <2> QED
    BY <2>1, <2>2 DEF IsRequest, HasFields
<1>3. /\ y.call = Call(r) /\ y.at \notin {"idle", "done"} /\ Stage(y) = label
      /\ Claimed(y, held[r]) = held[r]
      /\ y.tx.seniors = tx.seniors /\ y.tx.affected = tx.affected
  BY <1>1 DEF Reaches, Call
<1> HIDE DEF y
<1> QED
  BY <1>1, <1>2, <1>3 DEF Climb, y

\* What is known of a request that carries on at a stage.
LEMMA ClimbAt ==
  ASSUME IInv, Climbing, NEW r \in Requests, req[r].at \notin {"idle", "done", "lock"}
  PROVE  /\ HasFields(Tx(r), TxFields) /\ Call(r) \in CallRecords
         /\ Stage(req[r]) = req[r].at /\ Working(req[r], held[r], Rows)
         /\ Climbed(req[r].at, Call(r).target, Tx(r).seniors, Tx(r).affected, held[r])
<1>1. Climb(req[r], held[r])
  BY DEF Climbing
<1>2. Stage(req[r]) = req[r].at /\ Claimed(req[r], held[r]) = held[r]
  BY DEF Stage, Claimed
<1> QED
  BY <1>1, <1>2, AtWork DEF Climb, Call, Tx

\* Who waits for nothing in particular order: the locks of foreign keys.
LEMMA SharedSought ==
  ASSUME NEW v \in Reviewers, NEW w, w \in Reviewers \/ w \in Matters, NEW todo,
         \/ todo = <<Shared(AccountLock(v))>>
         \/ todo = <<Shared(MatterLock(w)), Shared(AccountLock(v))>> /\ w \in Matters
         \/ todo = <<Shared(AccountLock(w)), Shared(AccountLock(v))>> /\ w \in Reviewers,
         NEW stage, NEW t, NEW S, NEW H
  PROVE  /\ todo \in Seq(Listed(todo)) /\ Sought(stage, t, S, H, todo)
         /\ \A b \in Listed(todo) : Level(b) < 6
<1>1. /\ todo \in Seq(Listed(todo))
      /\ Listed(todo) \subseteq {Shared(AccountLock(v)), Shared(MatterLock(w)), Shared(AccountLock(w))}
      /\ Listed(todo) \subseteq SharedLocks
  <2> DEFINE a == Shared(AccountLock(v))
  <2> DEFINE m == Shared(MatterLock(w))
  <2> DEFINE b == Shared(AccountLock(w))
  <2>1. /\ a \in SharedLocks
        /\ w \in Matters => m \in SharedLocks
        /\ w \in Reviewers => b \in SharedLocks
    BY DEF SharedLocks
  <2>2. \/ todo = <<a>>
        \/ todo = <<m, a>> /\ w \in Matters
        \/ todo = <<b, a>> /\ w \in Reviewers
    OBVIOUS
  <2> HIDE DEF a, m, b
  <2>3. /\ Listed(<<a>>) = {a} /\ <<a>> \in Seq(Listed(<<a>>))
        /\ Listed(<<m, a>>) = {m, a} /\ <<m, a>> \in Seq(Listed(<<m, a>>))
        /\ Listed(<<b, a>>) = {b, a} /\ <<b, a>> \in Seq(Listed(<<b, a>>))
    BY ListedFew, Zenon
  <2>4. todo \in Seq(Listed(todo)) /\ Listed(todo) \subseteq {a, m, b}
        /\ Listed(todo) \subseteq SharedLocks
    <3>1. CASE todo = <<a>>
      BY ONLY <2>1, <2>3, <3>1
    <3>2. CASE todo = <<m, a>> /\ w \in Matters
      BY ONLY <2>1, <2>3, <3>2
    <3>3. CASE todo = <<b, a>> /\ w \in Reviewers
      BY ONLY <2>1, <2>3, <3>3
    <3> QED
      BY <2>2, <3>1, <3>2, <3>3
  <2> QED
    BY <2>4 DEF a, m, b
<1>2. \A b \in Listed(todo) : b.mode = "shared" /\ Level(b) < 6
  BY <1>1, LockParts, Levels
<1>3. \A i \in DOMAIN todo : todo[i] \in Listed(todo)
  BY DEF Listed
<1> QED
  BY <1>1, <1>2, <1>3 DEF Sought, Precedes

\* Who waits for one lock, above all it has.
LEMMA OneSought ==
  ASSUME NEW name \in MemberNames \cup OtherNames, NEW H,
         \A a \in H : Level(a) < Level(Exclusive(name)),
         NEW stage, NEW t, NEW S
  PROVE  /\ <<Exclusive(name)>> \in Seq(Listed(<<Exclusive(name)>>))
         /\ Listed(<<Exclusive(name)>>) = {Exclusive(name)}
         /\ Sought(stage, t, S, H, <<Exclusive(name)>>)
<1>1. Level(Exclusive(name)) # 3 /\ Exclusive(name) \in Locks
  BY Levels DEF MemberNames, OtherNames, Locks
<1>2. \A i, j \in DOMAIN <<Exclusive(name)>> : ~ (i < j)
  OBVIOUS
<1> QED
  BY <1>1, <1>2, ListedFew DEF Sought, Precedes

\* A lock is granted (TakeLock).
LEMMA TakeLockClimbs ==
  ASSUME IInv, Climbing, NEW r \in Requests, TakeLock(r)
  PROVE  Climb(req'[r], held'[r])
<1> DEFINE x == req[r]
<1> DEFINE y == req'[r]
<1> DEFINE a == Head(x.tx.todo)
<1> DEFINE rest == Tail(x.tx.todo)
<1>1. /\ req = [q \in Requests |-> req[q]] /\ held = [q \in Requests |-> held[q]]
      /\ IsRequest(x) /\ Local(x, held[r], Rows) /\ Climb(x, held[r])
  BY DEF IInv, Shaped, Orderly, Climbing
<1>2. x.at = "lock"
  BY DEF TakeLock, At
<1>3. held'[r] = held[r] \cup {a}
  BY <1>1 DEF TakeLock, Tx
<1>4. y = [x EXCEPT !.tx.todo = rest, !.at = IF rest = <<>> THEN x.tx.then ELSE "lock"]
  BY <1>1 DEF TakeLock, Tx
<1>5. /\ y.at = (IF rest = <<>> THEN x.tx.then ELSE "lock") /\ y.call = x.call
      /\ y.tx.todo = rest /\ y.tx.then = x.tx.then
      /\ y.tx.seniors = x.tx.seniors /\ y.tx.affected = x.tx.affected
  BY <1>1, <1>4 DEF IsRequest, HasFields
<1>6. /\ x.tx.todo \in Seq(Listed(x.tx.todo)) /\ x.tx.todo # <<>>
      /\ x.tx.then \notin {"lock", "idle", "done"}
  BY <1>1, <1>2, LocalOf, StagesNamed DEF Stage
<1> HIDE DEF y
<1>7. Listed(x.tx.todo) = {a} \cup Listed(rest)
  BY <1>6, LocksTaken
<1>8. Stage(y) = Stage(x) /\ Claimed(y, held'[r]) = Claimed(x, held[r])
      /\ y.at \notin {"idle", "done"}
  <2>1. rest = <<>> => Listed(rest) = {}
    BY ListedFew
  <2> HIDE DEF a, rest
  <2> QED
    BY <1>2, <1>3, <1>5, <1>6, <1>7, <2>1 DEF Stage, Claimed
<1>9. Climbed(Stage(y), y.call.target, y.tx.seniors, y.tx.affected, Claimed(y, held'[r]))
  BY <1>1, <1>2, <1>5, <1>8 DEF Climb
<1>10. Sought(Stage(y), y.call.target, y.tx.seniors, held'[r], rest)
  <2> DEFINE todo == x.tx.todo
  <2> DEFINE t == x.call.target
  <2> DEFINE S == x.tx.seniors
  <2>1. Sought(Stage(x), t, S, held[r], todo)
    BY <1>1, <1>2 DEF Climb
  <2>2. /\ DOMAIN rest \subseteq Nat /\ 1 \in DOMAIN todo /\ a = todo[1]
        /\ \A i \in DOMAIN rest : i > 0 /\ i + 1 \in DOMAIN todo /\ rest[i] = todo[i + 1]
    <3>1. todo \in Seq(Listed(todo)) /\ todo # <<>>
      BY <1>6
    <3> DEFINE n == Len(todo)
    <3>2. n \in Nat /\ DOMAIN todo = 1 .. n /\ n # 0
      BY <3>1, EmptySeq, LenProperties
    <3>3. /\ rest \in Seq(Listed(todo)) /\ Len(rest) = n - 1
          /\ \A i \in 1 .. Len(rest) : rest[i] = todo[i + 1]
      BY <3>1, HeadTailProperties
    <3>4. DOMAIN rest = 1 .. (n - 1)
      BY <3>3, LenProperties
    <3>5. a = todo[1]
      BY <3>1
    <3> HIDE DEF rest, a, todo
    <3> QED
      BY <3>2, <3>3, <3>4, <3>5
  <2>3. \A b \in Listed(rest) : \E i \in DOMAIN rest : b = rest[i]
    BY DEF Listed
  <2> HIDE DEF rest, a, todo, t, S
  <2>4. \A b \in Listed(rest) : Precedes(t, S, a, b)
    <3> SUFFICES ASSUME NEW i \in DOMAIN rest PROVE Precedes(t, S, a, rest[i])
      BY <2>3
    <3>1. i + 1 \in DOMAIN todo /\ rest[i] = todo[i + 1] /\ 1 \in DOMAIN todo /\ 1 < i + 1
      BY <2>2
    <3> QED
      BY <2>1, <2>2, <3>1 DEF Sought
  <2>5. \A i, j \in DOMAIN rest : i < j => Precedes(t, S, rest[i], rest[j])
    <3> SUFFICES ASSUME NEW i \in DOMAIN rest, NEW j \in DOMAIN rest, i < j
                 PROVE  Precedes(t, S, rest[i], rest[j])
      OBVIOUS
    <3>1. /\ i + 1 \in DOMAIN todo /\ j + 1 \in DOMAIN todo /\ i + 1 < j + 1
          /\ rest[i] = todo[i + 1] /\ rest[j] = todo[j + 1]
      BY <2>2
    <3> QED
      BY <2>1, <3>1 DEF Sought
  <2>6. Listed(todo) = {a} \cup Listed(rest)
    BY <1>7 DEF todo
  <2>7. Sought(Stage(x), t, S, held[r] \cup {a}, rest)
    BY <2>1, <2>4, <2>5, <2>6 DEF Sought
  <2> QED
    BY <1>3, <1>5, <1>8, <2>7 DEF t, S
<1> QED
  BY <1>5, <1>8, <1>9, <1>10 DEF Climb, y

\* A transaction is over, and holds nothing (Abort, Commit).
LEMMA OverClimbs ==
  ASSUME NEW x, NEW H, H = {}, x.at = "done"
  PROVE  Climb(x, H)
BY DEF Climb

\* A transaction that is cancelled or refused holds nothing (Abort).
LEMMA AbortClimbs ==
  ASSUME IInv, NEW r \in Requests, NEW reply, Abort(r, reply)
  PROVE  Climb(req'[r], held'[r])
<1>1. req = [q \in Requests |-> req[q]] /\ held = [q \in Requests |-> held[q]]
  BY DEF IInv, Shaped
<1>2. req'[r] = Over(Call(r), reply) /\ held'[r] = {}
  BY <1>1 DEF Abort, Over
<1> QED
  BY <1>2, OverFields, OverClimbs

\* The head and the tail of a list of matters in order.
LEMMA AscendingTail ==
  ASSUME NEW list \in Seq(Matters), list # <<>>, Ascending(list)
  PROVE  /\ Head(list) \in Matters /\ Ascending(Tail(list))
         /\ Tail(list) # <<>> => Head(list) < Head(Tail(list))
<1> DEFINE n == Len(list)
<1> DEFINE t == Tail(list)
<1>1. n \in Nat /\ DOMAIN list = 1 .. n /\ n # 0
  BY EmptySeq, LenProperties
<1>2. /\ t \in Seq(Matters) /\ Len(t) = n - 1
      /\ \A i \in 1 .. Len(t) : t[i] = list[i + 1]
  BY HeadTailProperties
<1>3. DOMAIN t = 1 .. (n - 1)
  BY <1>2, LenProperties
<1>4. Head(list) = list[1] /\ Head(list) \in Matters
  BY <1>1
<1>5. t # <<>> => Head(t) = t[1] /\ 1 \in 1 .. (n - 1)
  <2>1. t # <<>> => Len(t) # 0 /\ Head(t) = t[1]
    BY <1>2, EmptySeq
  <2> HIDE DEF t, n
  <2> QED
    BY <2>1, <1>1, <1>2
<1> HIDE DEF t, n
<1>6. ASSUME NEW i \in 1 .. (n - 1), NEW j \in 1 .. (n - 1), i < j PROVE t[i] < t[j]
  <2>1. i + 1 \in DOMAIN list /\ j + 1 \in DOMAIN list /\ i + 1 < j + 1
    BY <1>1, <1>6
  <2>2. list[i + 1] < list[j + 1]
    BY <2>1 DEF Ascending
  <2> QED
    BY <2>2, <1>2
<1>7. Ascending(t)
  BY <1>3, <1>6 DEF Ascending
<1>8. t # <<>> => list[1] < t[1]
  <2> SUFFICES ASSUME t # <<>> PROVE list[1] < t[1]
    OBVIOUS
  <2>1. 1 \in DOMAIN list /\ 2 \in DOMAIN list /\ 1 < 2 /\ t[1] = list[2]
    BY <1>1, <1>2, <1>5
  <2> QED
    BY <2>1 DEF Ascending
<1> QED
  BY <1>4, <1>5, <1>7, <1>8 DEF t

\* The memberships of a matter are locked after all accounts, and after those of the
\* matters before (FindMembers).
LEMMA FindMembersClimbs ==
  ASSUME IInv, Climbing, NEW r \in Requests, FindMembers(r)
  PROVE  Climb(req'[r], held'[r])
<1> DEFINE x == req[r]
<1> DEFINE k == Matter(r)
<1> DEFINE seen == IF Sees(Call(r).by, Matter(r)) THEN MembersOf(Matter(r)) ELSE {}
<1> DEFINE tx == [Tx(r) EXCEPT !.locked = seen]
<1> DEFINE label == AfterMembers(r)
<1> DEFINE todo == MemberLocks(k, seen)
<1> DEFINE t == Call(r).target
<1>1. x.at = "members" /\ Acquire(r, tx, todo, label)
  BY DEF FindMembers, At
<1>2. /\ HasFields(Tx(r), TxFields) /\ Stage(x) = "members" /\ Working(x, held[r], Rows)
      /\ Climbed("members", t, Tx(r).seniors, Tx(r).affected, held[r])
  BY <1>1, ClimbAt
<1>3. /\ \A c \in held[r] : Level(c) # 3 => Level(c) = 4 /\ c.lock[2] < k
      /\ Ascending(Tx(r).affected) /\ k = Head(Tx(r).affected)
  BY <1>2 DEF Climbed, Matter
<1>4. seen \subseteq Nat /\ IsFiniteSet(seen) /\ seen \subseteq Reviewers
  <2>1. seen = {} \/ seen = MembersIn(Rows, k)
    BY DEF MembersOf, MembersIn, Rows
  <2>2. seen \subseteq Reviewers
    BY DEF MembersOf
  <2> QED
    BY <2>1, <2>2, MembersCounted, FS_EmptySet
<1>5. k \in Matters /\ k \in Nat
  <2>1. Working(x, held[r], Rows) /\ x.call \in CallRecords
    BY <1>2 DEF Working
  <2>2. CASE x.call.op \in {"set", "remove"}
    <3>1. x.tx.affected = <<x.call.matter>> /\ x.call.matter \in Matters
      BY <2>1, <2>2, CallFields DEF Working, Changing
    <3>2. k = x.call.matter
      BY <3>1 DEF Matter, Tx
    <3> HIDE DEF k
    <3> QED
      BY ONLY <3>1, <3>2, AuthorityAssumption
  <2>3. CASE x.call.op \in {"suspend", "reinstate"}
    <3>1. x.tx.affected \in Seq(Matters) /\ x.tx.affected # <<>>
      BY <1>2, <2>1, <2>3 DEF Working, Ruling
    <3>2. Head(x.tx.affected) \in Matters
      BY <3>1
    <3>3. k \in Matters
      BY <3>2 DEF Matter, Tx
    <3> HIDE DEF k
    <3> QED
      BY ONLY <3>3, AuthorityAssumption
  <2> QED
    BY <1>2, <2>1, <2>2, <2>3, StageOps
<1> HIDE DEF seen, k, t
<1>6. /\ HasFields(tx, TxFields) /\ tx.seniors = Tx(r).seniors
      /\ tx.affected = Tx(r).affected
  BY <1>2 DEF HasFields, TxFields
<1>7. label \in {"decide", "replacement"}
  BY DEF AfterMembers
<1>8. /\ Listed(todo) = MemberClaims(k, seen) /\ todo \in Seq(Listed(todo))
      /\ \A i, j \in DOMAIN todo : i < j => Precedes(t, tx.seniors, todo[i], todo[j])
  BY <1>4, <1>5, ListedEach, LocksAscend
<1>9. /\ Listed(todo) \subseteq Locks
      /\ \A b \in Listed(todo) : Level(b) = 4 /\ b.lock[2] = k
  <2>1. \A b \in MemberClaims(k, seen) : Level(b) = 4 /\ b.lock[2] = k
    BY MemberClaimed
  <2>2. MemberClaims(k, seen) \subseteq Locks
    BY <1>4, <1>5 DEF MemberClaims, Locks, MemberNames
  <2> QED
    BY <2>1, <2>2, <1>8
<1> HIDE DEF todo, label, tx
<1>10. Sought(label, t, tx.seniors, held[r], todo)
  <2>1. \A a \in held[r] : \A b \in Listed(todo) : Precedes(t, tx.seniors, a, b)
    BY <1>3, <1>9 DEF Precedes
  <2> QED
    BY <2>1, <1>8, <1>9 DEF Sought
<1>11. Climbed(label, t, tx.seniors, tx.affected, held[r] \cup Listed(todo))
  <2>1. \A c \in held[r] : Level(c) # 3 =>
          Level(c) = 4 /\ c.lock[2] \in Matters /\ c.lock[2] < k
    BY <1>2, <1>3 DEF Climbed
  <2>4. \A i \in Matters : i \in Nat
    BY AuthorityAssumption
  <2>5. \A c \in held[r] \cup Listed(todo) : Level(c) # 3 =>
          Level(c) = 4 /\ c.lock[2] \in Matters /\ c.lock[2] <= k
    <3> SUFFICES ASSUME NEW c \in held[r] \cup Listed(todo), Level(c) # 3
                 PROVE  Level(c) = 4 /\ c.lock[2] \in Matters /\ c.lock[2] <= k
      OBVIOUS
    <3>1. CASE c \in held[r]
      <4>1. Level(c) = 4 /\ c.lock[2] \in Matters /\ c.lock[2] < k
        BY ONLY <2>1, <3>1, Level(c) # 3
      <4>2. \A i, j \in Nat : i < j => i <= j
        OBVIOUS
      <4>3. c.lock[2] \in Nat
        BY ONLY <4>1, <2>4, Zenon
      <4>4. c.lock[2] <= k
        BY ONLY <4>1, <4>2, <4>3, <1>5, Zenon
      <4> QED
        BY ONLY <4>1, <4>4
    <3>2. CASE c \in Listed(todo)
      <4>1. Level(c) = 4 /\ c.lock[2] = k
        BY ONLY <1>9, <3>2
      <4> QED
        BY ONLY <4>1, <1>5
    <3> QED
      BY ONLY <3>1, <3>2, c \in held[r] \cup Listed(todo)
  <2>6. \A c \in held[r] \cup Listed(todo) : Level(c) \in {3, 4}
    BY <2>5
  <2>2. CASE label = "decide"
    BY ONLY <2>6, <2>2 DEF Climbed
  <2>3. CASE label = "replacement"
    BY <2>5, <2>3, <1>3, <1>6 DEF Climbed
  <2> QED
    BY <1>7, <2>2, <2>3
<1> QED
  BY <1>1, <1>6, <1>7, <1>8, <1>10, <1>11, ClimbsToLocks DEF t

\* A new membership's place is locked after the memberships (DecideMembership).
LEMMA DecideMembershipClimbs ==
  ASSUME IInv, Climbing, NEW r \in Requests, DecideMembership(r)
  PROVE  Climb(req'[r], held'[r])
<1> DEFINE x == req[r]
<1> DEFINE k == Matter(r)
<1> DEFINE v == Call(r).target
<1> DEFINE row == [role |-> RoleGiven(r), active |-> Call(r).op = "set"]
<1> DEFINE tx == [Tx(r) EXCEPT !.member = Only(<<k, v>>, row)]
<1>1. x.at = "decide"
  BY DEF DecideMembership, At
<1>2. /\ HasFields(Tx(r), TxFields) /\ Stage(x) = "decide" /\ Working(x, held[r], Rows)
      /\ Climbed("decide", v, Tx(r).seniors, Tx(r).affected, held[r])
      /\ Call(r) \in CallRecords
  BY <1>1, ClimbAt
<1>3. x.call.op \in {"set", "remove"} /\ Changing(x, held[r], Rows)
  BY <1>2, StageOps DEF Working
<1>4. k \in Matters /\ v \in Reviewers
  <2>1. k = x.call.matter
    BY <1>3 DEF Matter, Tx, Changing
  <2> QED
    BY <2>1, <1>2, <1>3, CallFields DEF Call
<1>5. \A c \in held[r] : Level(c) \in {3, 4}
  BY <1>2 DEF Climbed
<1> HIDE DEF row
<1>6. HasFields(tx, TxFields)
  BY <1>2 DEF HasFields, TxFields
<1> HIDE DEF tx, k
<1>7. CASE Abort(r, "refused")
  BY <1>7, AbortClimbs
<1>8. CASE Proceed(r, tx, "audit")
  <2>1. Climbed("audit", v, tx.seniors, tx.affected, held[r])
    BY <1>5 DEF Climbed
  <2> QED
    BY <1>6, <1>8, <2>1, ClimbsOn
<1>9. CASE Acquire(r, tx, <<Exclusive(PlaceLock(k, v))>>, "insert")
  <2> DEFINE todo == <<Exclusive(PlaceLock(k, v))>>
  <2>1. PlaceLock(k, v) \in OtherNames
    BY <1>4 DEF OtherNames
  <2>2. Level(Exclusive(PlaceLock(k, v))) = 5
    BY Levels
  <2>3. /\ todo \in Seq(Listed(todo)) /\ Listed(todo) = {Exclusive(PlaceLock(k, v))}
        /\ Sought("insert", v, tx.seniors, held[r], todo)
    BY <1>5, <2>1, <2>2, OneSought
  <2>4. Climbed("insert", v, tx.seniors, tx.affected, held[r] \cup Listed(todo))
    BY <1>5, <2>2, <2>3 DEF Climbed
  <2> HIDE DEF todo
  <2>5. Acquire(r, tx, todo, "insert")
    BY <1>9 DEF todo
  <2> QED
    BY <1>6, <2>3, <2>4, <2>5, ClimbsToLocks
<1> QED
  BY <1>7, <1>8, <1>9 DEF DecideMembership, tx, k, row

\* Any stage may be followed by waiting for the rows of foreign keys.
LEMMA SharedClimbs ==
  ASSUME IInv, NEW r \in Requests, NEW tx, NEW todo, NEW label, Acquire(r, tx, todo, label),
         HasFields(tx, TxFields), label \in {"audit", "commit"},
         label = "audit" => \A c \in held[r] : Level(c) < 6,
         NEW v \in Reviewers, NEW w, w \in Reviewers \/ w \in Matters,
         \/ todo = <<Shared(AccountLock(v))>>
         \/ todo = <<Shared(MatterLock(w)), Shared(AccountLock(v))>> /\ w \in Matters
         \/ todo = <<Shared(AccountLock(w)), Shared(AccountLock(v))>> /\ w \in Reviewers
  PROVE  Climb(req'[r], held'[r])
<1>1. /\ todo \in Seq(Listed(todo)) /\ Sought(label, Call(r).target, tx.seniors, held[r], todo)
      /\ \A b \in Listed(todo) : Level(b) < 6
  BY SharedSought
<1>2. Climbed(label, Call(r).target, tx.seniors, tx.affected, held[r] \cup Listed(todo))
  BY <1>1 DEF Climbed
<1> QED
  BY <1>1, <1>2, ClimbsToLocks

\* An insertion waits for the rows its foreign keys refer to (InsertMembership).
LEMMA InsertMembershipClimbs ==
  ASSUME IInv, Climbing, NEW r \in Requests, InsertMembership(r)
  PROVE  Climb(req'[r], held'[r])
<1> DEFINE x == req[r]
<1> DEFINE k == Call(r).matter
<1> DEFINE v == Call(r).target
<1> DEFINE todo == <<Shared(MatterLock(k)), Shared(AccountLock(v))>>
<1> DEFINE next == IF Call(r).op = "restore" THEN "commit" ELSE "audit"
<1>1. x.at = "insert"
  BY DEF InsertMembership, At
<1>2. /\ HasFields(Tx(r), TxFields) /\ Stage(x) = "insert" /\ Working(x, held[r], Rows)
      /\ Climbed("insert", v, Tx(r).seniors, Tx(r).affected, held[r])
      /\ Call(r) \in CallRecords
  BY <1>1, ClimbAt
<1>3. k \in Matters /\ v \in Reviewers
  BY <1>2, StageOps, CallFields DEF Call
<1>4. \A c \in held[r] : Level(c) < 6
  BY <1>2 DEF Climbed
<1>5. next \in {"audit", "commit"}
  OBVIOUS
<1>6. CASE Abort(r, "index violated")
  BY <1>6, AbortClimbs
<1>7. CASE Acquire(r, Tx(r), todo, next)
  <2> HIDE DEF next
  <2> QED
    BY <1>2, <1>3, <1>4, <1>5, <1>7, SharedClimbs
<1> QED
  BY <1>6, <1>7 DEF InsertMembership

\* The Senior accounts are the first that a suspension locks (FindSeniors).
LEMMA FindSeniorsClimbs ==
  ASSUME IInv, Climbing, NEW r \in Requests, FindSeniors(r)
  PROVE  Climb(req'[r], held'[r])
<1> DEFINE x == req[r]
<1> DEFINE seniors == {v \in DOMAIN account : account[v].role = SeniorCounsel}
<1> DEFINE tx == [Tx(r) EXCEPT !.seniors = seniors]
<1> DEFINE todo == AccountLocks(seniors)
<1> DEFINE t == Call(r).target
<1>1. x.at = "seniors" /\ Acquire(r, tx, todo, "authority")
  BY DEF FindSeniors, At
<1>2. /\ HasFields(Tx(r), TxFields)
      /\ Climbed("seniors", t, Tx(r).seniors, Tx(r).affected, held[r])
  BY <1>1, ClimbAt
<1>3. held[r] = {}
  BY <1>2 DEF Climbed
<1>4. seniors \subseteq Nat /\ IsFiniteSet(seniors) /\ seniors \subseteq Reviewers
  <2>1. RowsTyped(Rows)
    BY DEF IInv
  <2>2. seniors \in SUBSET Reviewers
    BY <2>1 DEF RowsTyped, Rows
  <2> HIDE DEF seniors
  <2> QED
    BY <2>2, AuthorityAssumption, FS_Subset
<1> HIDE DEF seniors
<1>5. HasFields(tx, TxFields) /\ tx.seniors = seniors
  BY <1>2 DEF HasFields, TxFields
<1>6. 0 \in Nat
  OBVIOUS
<1>7. /\ Listed(todo) = AccountClaims(seniors) /\ todo \in Seq(Listed(todo))
      /\ \A i, j \in DOMAIN todo : i < j => Precedes(t, tx.seniors, todo[i], todo[j])
  BY <1>4, <1>6, ListedEach, LocksAscend
<1>8. /\ Listed(todo) \subseteq Locks
      /\ \A b \in Listed(todo) : b.lock[2] \in seniors
  <2>1. \A b \in AccountClaims(seniors) : b.lock[2] \in seniors
    BY AccountClaimed
  <2>2. AccountClaims(seniors) \subseteq Locks
    BY <1>4 DEF AccountClaims, Locks, AccountNames
  <2> QED
    BY <2>1, <2>2, <1>7
<1> HIDE DEF todo, tx, t
<1>9. Sought("authority", t, tx.seniors, held[r], todo)
  BY <1>3, <1>5, <1>7, <1>8 DEF Sought
<1>10. Climbed("authority", t, tx.seniors, tx.affected, held[r] \cup Listed(todo))
  BY <1>3, <1>5, <1>7 DEF Climbed
<1> QED
  BY <1>1, <1>5, <1>7, <1>9, <1>10, ClimbsToLocks DEF t

\* The account to change is locked after the Seniors', if it is none of theirs
\* (CheckAuthority).
LEMMA CheckAuthorityClimbs ==
  ASSUME IInv, Climbing, NEW r \in Requests, CheckAuthority(r)
  PROVE  Climb(req'[r], held'[r])
<1> DEFINE x == req[r]
<1> DEFINE v == Call(r).target
<1> DEFINE S == Tx(r).seniors
<1> DEFINE one == <<Exclusive(AccountLock(v))>>
<1>1. x.at = "authority"
  BY DEF CheckAuthority, At
<1>2. /\ HasFields(Tx(r), TxFields) /\ Stage(x) = "authority" /\ Working(x, held[r], Rows)
      /\ Climbed("authority", v, S, Tx(r).affected, held[r]) /\ Call(r) \in CallRecords
  BY <1>1, ClimbAt
<1>3. v \in Reviewers
  BY <1>2, StageOps, CallFields DEF Call
<1>4. held[r] \subseteq AccountClaims(S)
  BY <1>2 DEF Climbed
<1>5. \A c \in held[r] : Level(c) = 3 /\ c.lock[2] \in S
  BY <1>4, AccountClaimed
<1> HIDE DEF v, S
<1>6. CASE Abort(r, "refused")
  BY <1>6, AbortClimbs
<1>7. CASE v \in S /\ Acquire(r, Tx(r), <<>>, "account")
  <2>1. /\ Listed(<<>>) = {} /\ <<>> \in Seq(Listed(<<>>))
        /\ Sought("account", v, S, held[r], <<>>)
    <3>1. DOMAIN <<>> = {}
      OBVIOUS
    <3> QED
      BY <3>1, ListedFew DEF Sought
  <2>2. Climbed("account", v, S, Tx(r).affected, held[r] \cup Listed(<<>>))
    BY <1>4, <2>1 DEF Climbed, AccountClaims
  <2> QED
    BY <1>2, <1>7, <2>1, <2>2, ClimbsToLocks DEF v, S
<1>8. CASE v \notin S /\ Acquire(r, Tx(r), one, "account")
  <2> DEFINE b == Exclusive(AccountLock(v))
  <2>1. Level(b) = 3 /\ b.lock[2] = v /\ b \in Locks
    BY <1>3, Levels, LockParts DEF Locks, AccountNames
  <2>2. Listed(one) = {b} /\ one \in Seq(Listed(one))
    BY ListedFew
  <2>3. \A i, j \in DOMAIN one : ~ (i < j)
    OBVIOUS
  <2>4. b \in AccountClaims(S \cup {v}) /\ AccountClaims(S) \subseteq AccountClaims(S \cup {v})
    BY DEF AccountClaims
  <2> HIDE DEF one, b
  <2>5. Sought("account", v, S, held[r], one)
    BY <1>5, <1>8, <2>1, <2>2, <2>3 DEF Sought, Precedes
  <2>6. Climbed("account", v, S, Tx(r).affected, held[r] \cup Listed(one))
    BY <1>4, <2>2, <2>4 DEF Climbed
  <2> QED
    BY <1>2, <1>8, <2>2, <2>5, <2>6, ClimbsToLocks DEF v, S
<1> QED
  BY <1>6, <1>7, <1>8 DEF CheckAuthority, v, S

\* The matters are listed in order, before any membership is locked (CheckAccount).
LEMMA CheckAccountClimbs ==
  ASSUME IInv, Climbing, NEW r \in Requests, CheckAccount(r)
  PROVE  Climb(req'[r], held'[r])
<1> DEFINE x == req[r]
<1> DEFINE v == Call(r).target
<1> DEFINE suspending == Call(r).op = "suspend" /\ account[Call(r).target].active
<1> DEFINE list == IF suspending THEN InOrder(AffectedMatters(r)) ELSE <<>>
<1> DEFINE tx == [Tx(r) EXCEPT !.affected = list]
<1>1. x.at = "account"
  BY DEF CheckAccount, At
<1>2. /\ HasFields(Tx(r), TxFields) /\ RowsTyped(Rows)
      /\ Climbed("account", v, Tx(r).seniors, Tx(r).affected, held[r])
  BY <1>1, ClimbAt, AtWork
<1>3. \A c \in held[r] : Level(c) = 3
  BY <1>2, AccountClaimed DEF Climbed
<1>4. CASE Abort(r, "refused")
  BY <1>4, AbortClimbs
<1>5. CASE Proceed(r, tx, AfterMatter(list))
  <2>1. Ascending(list)
    <3>1. AffectedMatters(r) \in SUBSET Matters
      BY <1>2 DEF AffectedMatters, RowsTyped, Rows
    <3>2. AffectedMatters(r) \subseteq Nat /\ IsFiniteSet(AffectedMatters(r)) /\ 0 \in Nat
      BY <3>1, AuthorityAssumption, FS_Subset
    <3>3. Ascending(InOrder(AffectedMatters(r)))
      BY <3>2, LocksAscend
    <3>4. Ascending(<<>>)
      BY DEF Ascending
    <3> QED
      BY <3>3, <3>4
  <2> HIDE DEF list
  <2>2. HasFields(tx, TxFields) /\ tx.affected = list
    BY <1>2 DEF HasFields, TxFields
  <2>3. AfterMatter(list) \in {"write", "members"}
    BY DEF AfterMatter
  <2> HIDE DEF tx
  <2>4. Climbed(AfterMatter(list), v, tx.seniors, tx.affected, held[r])
    BY <1>3, <2>1, <2>2, <2>3 DEF Climbed
  <2> QED
    BY <1>5, <2>2, <2>3, <2>4, ClimbsOn
<1> QED
  BY <1>4, <1>5 DEF CheckAccount

\* The next matter is greater than those before (CheckReplacement).
LEMMA CheckReplacementClimbs ==
  ASSUME IInv, Climbing, NEW r \in Requests, CheckReplacement(r)
  PROVE  Climb(req'[r], held'[r])
<1> DEFINE x == req[r]
<1> DEFINE v == Call(r).target
<1> DEFINE list == Tx(r).affected
<1> DEFINE rest == Tail(list)
<1> DEFINE tx == [Tx(r) EXCEPT !.affected = rest]
<1>1. x.at = "replacement"
  BY DEF CheckReplacement, At
<1>2. /\ HasFields(Tx(r), TxFields) /\ Stage(x) = "replacement" /\ Working(x, held[r], Rows)
      /\ Climbed("replacement", v, Tx(r).seniors, list, held[r])
  BY <1>1, ClimbAt
<1>3. list \in Seq(Matters) /\ list # <<>>
  BY <1>2, StageOps DEF Working, Ruling, Tx
<1>4. /\ \A c \in held[r] : Level(c) # 3 =>
           Level(c) = 4 /\ c.lock[2] \in Matters /\ c.lock[2] <= Head(list)
      /\ Ascending(list)
  BY <1>2 DEF Climbed
<1>5. CASE Abort(r, "refused")
  BY <1>5, AbortClimbs
<1>6. CASE Proceed(r, tx, AfterMatter(rest))
  <2>1. /\ Head(list) \in Matters /\ Ascending(rest) /\ rest \in Seq(Matters)
        /\ rest # <<>> => Head(list) < Head(rest)
    BY <1>3, <1>4, AscendingTail, ListedMatters
  <2>2. HasFields(tx, TxFields) /\ tx.affected = rest
    BY <1>2 DEF HasFields, TxFields
  <2>3. rest # <<>> => Head(rest) \in Matters
    BY <2>1
  <2> HIDE DEF rest, tx, list
  <2>4. \A c \in held[r] : Level(c) # 3 =>
          Level(c) = 4 /\ c.lock[2] \in Matters /\ (rest # <<>> => c.lock[2] < Head(rest))
    <3>1. \A i, j, k \in Nat : i <= j /\ j < k => i < k
      OBVIOUS
    <3>2. \A k \in Matters : k \in Nat
      BY AuthorityAssumption
    <3> SUFFICES ASSUME NEW c \in held[r], Level(c) # 3
                 PROVE  Level(c) = 4 /\ c.lock[2] \in Matters
                        /\ (rest # <<>> => c.lock[2] < Head(rest))
      OBVIOUS
    <3>3. Level(c) = 4 /\ c.lock[2] \in Matters /\ c.lock[2] <= Head(list)
      BY <1>4
    <3>4. c.lock[2] \in Nat /\ Head(list) \in Nat /\ (rest # <<>> => Head(rest) \in Nat)
      BY ONLY <3>2, <3>3, <2>1, <2>3, Zenon
    <3>5. rest # <<>> => c.lock[2] < Head(rest)
      BY ONLY <3>1, <3>3, <3>4, <2>1, Zenon
    <3> QED
      BY ONLY <3>3, <3>5
  <2>5. \A c \in held[r] : Level(c) \in {3, 4}
    BY <2>4
  <2>6. Climbed(AfterMatter(rest), v, tx.seniors, tx.affected, held[r])
    <3>1. CASE rest = <<>>
      <4>1. AfterMatter(rest) = "write"
        BY <3>1 DEF AfterMatter
      <4> QED
        BY ONLY <2>5, <4>1 DEF Climbed
    <3>2. CASE rest # <<>>
      <4>1. AfterMatter(rest) = "members"
        BY <3>2 DEF AfterMatter
      <4> QED
        BY ONLY <2>1, <2>2, <2>4, <3>2, <4>1 DEF Climbed
    <3> QED
      BY <3>1, <3>2
  <2>7. AfterMatter(rest) \in {"write", "members"}
    BY DEF AfterMatter
  <2> QED
    BY <1>6, <2>2, <2>6, <2>7, ClimbsOn
<1> QED
  BY <1>5, <1>6 DEF CheckReplacement

\* The account is written with the locks there are (WriteAccount).
LEMMA WriteAccountClimbs ==
  ASSUME IInv, Climbing, NEW r \in Requests, WriteAccount(r)
  PROVE  Climb(req'[r], held'[r])
<1> DEFINE v == Call(r).target
<1> DEFINE tx == [Tx(r) EXCEPT
                    !.account = Only(v, [account[v] EXCEPT !.active = (Call(r).op = "reinstate")])]
<1>1. req[r].at = "write" /\ Proceed(r, tx, "audit")
  BY DEF WriteAccount, At
<1>2. HasFields(Tx(r), TxFields) /\ Climbed("write", v, Tx(r).seniors, Tx(r).affected, held[r])
  BY <1>1, ClimbAt
<1>3. HasFields(tx, TxFields)
  BY <1>2 DEF HasFields, TxFields
<1> HIDE DEF tx
<1>4. Climbed("audit", v, tx.seniors, tx.affected, held[r])
  BY <1>2 DEF Climbed
<1> QED
  BY <1>1, <1>3, <1>4, ClimbsOn

\* A request waits for one lock, above all it has.
LEMMA OneClimbs ==
  ASSUME IInv, NEW r \in Requests, NEW tx, NEW name \in MemberNames \cup OtherNames, NEW label,
         Acquire(r, tx, <<Exclusive(name)>>, label), HasFields(tx, TxFields),
         label \in {"named", "insert", "append", "commit"},
         \A a \in held[r] : Level(a) < Level(Exclusive(name)),
         label = "named" => held[r] = {} /\ Level(Exclusive(name)) = 1,
         label = "insert" => Level(Exclusive(name)) < 6
  PROVE  Climb(req'[r], held'[r])
<1> DEFINE todo == <<Exclusive(name)>>
<1>1. /\ todo \in Seq(Listed(todo)) /\ Listed(todo) = {Exclusive(name)}
      /\ Sought(label, Call(r).target, tx.seniors, held[r], todo)
  BY OneSought
<1>2. \A l : Level(l) \in Nat
  BY Levels
<1>3. Acquire(r, tx, todo, label)
  OBVIOUS
<1> HIDE DEF todo
<1>4. label = "insert" => \A c \in held[r] \cup Listed(todo) : Level(c) < 6
  BY <1>1, <1>2
<1>5. label = "named" => \A c \in held[r] \cup Listed(todo) : Level(c) \in {1, 2}
  BY <1>1
<1>6. Climbed(label, Call(r).target, tx.seniors, tx.affected, held[r] \cup Listed(todo))
  BY ONLY <1>4, <1>5, label \in {"named", "insert", "append", "commit"} DEF Climbed
<1> QED
  BY <1>1, <1>3, <1>6, ClimbsToLocks

\* A user name is the first that a provisioning locks (ProvisionAccount).
LEMMA ProvisionAccountClimbs ==
  ASSUME IInv, Climbing, NEW r \in Requests, ProvisionAccount(r)
  PROVE  Climb(req'[r], held'[r])
<1> DEFINE x == req[r]
<1> DEFINE v == Call(r).target
<1> DEFINE tx == [Tx(r) EXCEPT !.account = Only(v, [role |-> Call(r).role, active |-> TRUE])]
<1>1. x.at \in {"provision", "named"}
  BY DEF ProvisionAccount, At
<1>2. /\ HasFields(Tx(r), TxFields) /\ Stage(x) = x.at /\ Working(x, held[r], Rows)
      /\ Climbed(x.at, v, Tx(r).seniors, Tx(r).affected, held[r]) /\ Call(r) \in CallRecords
  BY <1>1, ClimbAt
<1>3. v \in Reviewers
  BY <1>1, <1>2, StageOps, CallFields DEF Call
<1>4. HasFields(tx, TxFields)
  BY <1>2 DEF HasFields, TxFields
<1> HIDE DEF tx
<1>5. CASE Abort(r, "refused")
  BY <1>5, AbortClimbs
<1>6. CASE x.at = "provision" /\ Acquire(r, Tx(r), <<Exclusive(NameLock(v))>>, "named")
  <2>1. held[r] = {}
    BY <1>2, <1>6 DEF Climbed
  <2>2. NameLock(v) \in OtherNames /\ Level(Exclusive(NameLock(v))) = 1
    BY <1>3, Levels DEF OtherNames
  <2> HIDE DEF v
  <2> QED
    BY <1>2, <1>6, <2>1, <2>2, OneClimbs
<1>7. CASE x.at = "named" /\ Proceed(r, tx, "audit")
  <2>1. \A c \in held[r] : Level(c) \in {1, 2}
    BY <1>2, <1>7 DEF Climbed
  <2>2. \A c \in held[r] : Level(c) < 6
    BY <2>1
  <2>3. Climbed("audit", v, tx.seniors, tx.affected, held[r])
    BY ONLY <2>2 DEF Climbed
  <2> QED
    BY <1>4, <1>7, <2>3, ClimbsOn
<1> QED
  BY <1>5, <1>6, <1>7 DEF ProvisionAccount, At, tx

\* The creator of a matter locks nothing alone (OpenMatter).
LEMMA OpenMatterClimbs ==
  ASSUME IInv, Climbing, NEW r \in Requests, OpenMatter(r)
  PROVE  Climb(req'[r], held'[r])
<1> DEFINE v == Call(r).by
<1>1. req[r].at = "open"
  BY DEF OpenMatter, At
<1>2. /\ HasFields(Tx(r), TxFields) /\ Stage(req[r]) = "open"
      /\ Working(req[r], held[r], Rows) /\ Call(r) \in CallRecords
  BY <1>1, ClimbAt
<1>3. v \in Reviewers
  BY <1>2, StageOps, CallFields DEF Call
<1>4. CASE Abort(r, "refused")
  BY <1>4, AbortClimbs
<1>5. ASSUME NEW k \in Matters,
             Acquire(r, [Tx(r) EXCEPT !.matters = {k}, !.member = Only(<<k, v>>, SeniorRow)],
                     <<Shared(AccountLock(v))>>, "commit")
      PROVE  Climb(req'[r], held'[r])
  <2> DEFINE tx == [Tx(r) EXCEPT !.matters = {k}, !.member = Only(<<k, v>>, SeniorRow)]
  <2>1. HasFields(tx, TxFields) /\ Acquire(r, tx, <<Shared(AccountLock(v))>>, "commit")
    BY <1>2, <1>5 DEF HasFields, TxFields
  <2> HIDE DEF tx, v
  <2> QED
    BY <1>3, <2>1, SharedClimbs
<1> QED
  BY <1>4, <1>5 DEF OpenMatter

\* The operator's command locks the matter before a membership (RestoreAccess).
LEMMA RestoreAccessClimbs ==
  ASSUME IInv, Climbing, NEW r \in Requests, RestoreAccess(r)
  PROVE  Climb(req'[r], held'[r])
<1> DEFINE x == req[r]
<1> DEFINE k == Call(r).matter
<1> DEFINE v == Call(r).target
<1> DEFINE S == Tx(r).seniors
<1> DEFINE tx == [Tx(r) EXCEPT !.member = Only(<<k, v>>, SeniorRow)]
<1>1. x.at \in {"restore", "examine"}
  BY DEF RestoreAccess, At
<1>2. /\ HasFields(Tx(r), TxFields) /\ Stage(x) = x.at /\ Working(x, held[r], Rows)
      /\ Climbed(x.at, v, S, Tx(r).affected, held[r]) /\ Call(r) \in CallRecords
  BY <1>1, ClimbAt
<1>3. k \in Matters /\ v \in Reviewers
  BY <1>1, <1>2, StageOps, CallFields DEF Call
<1>4. HasFields(tx, TxFields)
  BY <1>2 DEF HasFields, TxFields
<1> HIDE DEF tx
<1>5. CASE Abort(r, "refused")
  BY <1>5, AbortClimbs
<1>6. CASE /\ x.at = "restore"
           /\ Acquire(r, Tx(r), <<Exclusive(RestoreLock), Exclusive(MatterLock(k))>>, "examine")
  <2> DEFINE a == Exclusive(RestoreLock)
  <2> DEFINE b == Exclusive(MatterLock(k))
  <2> DEFINE todo == <<a, b>>
  <2>1. held[r] = {}
    BY <1>2, <1>6 DEF Climbed
  <2>2. Level(a) = 1 /\ Level(b) = 2 /\ a \in Locks /\ b \in Locks
    BY <1>3, Levels DEF Locks, OtherNames
  <2> HIDE DEF a, b
  <2>3. /\ Listed(todo) = {a, b} /\ todo \in Seq(Listed(todo))
        /\ \A i, j \in DOMAIN todo : i < j => todo[i] = a /\ todo[j] = b
    <3>1. DOMAIN todo = {1, 2} /\ todo[1] = a /\ todo[2] = b
      OBVIOUS
    <3> HIDE DEF todo
    <3>2. \A i, j \in DOMAIN todo : i < j => todo[i] = a /\ todo[j] = b
      BY <3>1
    <3> QED
      BY <3>2, ListedFew DEF todo
  <2> HIDE DEF todo
  <2>4. Sought("examine", v, S, held[r], todo)
    BY <2>1, <2>2, <2>3 DEF Sought, Precedes
  <2>5. Climbed("examine", v, S, Tx(r).affected, held[r] \cup Listed(todo))
    BY <2>1, <2>2, <2>3 DEF Climbed
  <2>6. Acquire(r, Tx(r), todo, "examine")
    BY <1>6 DEF todo, a, b
  <2> QED
    BY <1>2, <2>3, <2>4, <2>5, <2>6, ClimbsToLocks
<1>7. CASE x.at = "examine"
  <2>1. \A c \in held[r] : Level(c) \in {1, 2}
    BY <1>2, <1>7 DEF Climbed
  <2>2. /\ MemberLock(k, v) \in MemberNames /\ Level(Exclusive(MemberLock(k, v))) = 4
        /\ PlaceLock(k, v) \in OtherNames /\ Level(Exclusive(PlaceLock(k, v))) = 5
    BY <1>3, Levels DEF MemberNames, OtherNames
  <2> HIDE DEF k, v
  <2>3. CASE Acquire(r, tx, <<Exclusive(MemberLock(k, v))>>, "commit")
    <3>1. \A c \in held[r] : Level(c) < Level(Exclusive(MemberLock(k, v)))
      BY <2>1, <2>2
    <3> QED
      BY <1>4, <2>2, <2>3, <3>1, OneClimbs
  <2>4. CASE Acquire(r, tx, <<Exclusive(PlaceLock(k, v))>>, "insert")
    <3>1. \A c \in held[r] : Level(c) < Level(Exclusive(PlaceLock(k, v)))
      BY <2>1, <2>2
    <3>2. Level(Exclusive(PlaceLock(k, v))) < 6
      BY <2>2
    <3> QED
      BY <1>4, <2>2, <2>4, <3>1, <3>2, OneClimbs
  <2> QED
    BY <1>5, <1>7, <2>3, <2>4 DEF RestoreAccess, At, tx, k, v
<1> QED
  BY <1>1, <1>5, <1>6, <1>7 DEF RestoreAccess, At

\* The audit chain is the last that is locked alone (LockAccountAudit).
LEMMA LockAccountAuditClimbs ==
  ASSUME IInv, Climbing, NEW r \in Requests, LockAccountAudit(r)
  PROVE  Climb(req'[r], held'[r])
<1>1. req[r].at = "audit" /\ Acquire(r, Tx(r), <<Exclusive(AuditLock)>>, "append")
  BY DEF LockAccountAudit, At, ChainLocks
<1>2. /\ HasFields(Tx(r), TxFields)
      /\ Climbed("audit", Call(r).target, Tx(r).seniors, Tx(r).affected, held[r])
  BY <1>1, ClimbAt
<1>3. \A c \in held[r] : Level(c) < Level(Exclusive(AuditLock))
  BY <1>2, Levels DEF Climbed
<1>4. AuditLock \in OtherNames
  BY DEF OtherNames
<1> QED
  BY <1>1, <1>2, <1>3, <1>4, OneClimbs

\* The event waits for the accounts it refers to (AppendAccountAudit).
LEMMA AppendAccountAuditClimbs ==
  ASSUME IInv, Climbing, NEW r \in Requests, AppendAccountAudit(r)
  PROVE  Climb(req'[r], held'[r])
<1> DEFINE by == Call(r).by
<1> DEFINE v == Call(r).target
<1> DEFINE tx == [Tx(r) EXCEPT !.log = <<[prev |-> Len(log)]>>]
<1>1. /\ req[r].at = "append"
      /\ Acquire(r, tx, <<Shared(AccountLock(by)), Shared(AccountLock(v))>>, "commit")
  BY DEF AppendAccountAudit, At
<1>2. /\ HasFields(Tx(r), TxFields) /\ Stage(req[r]) = "append"
      /\ Working(req[r], held[r], Rows) /\ Call(r) \in CallRecords
  BY <1>1, ClimbAt
<1>3. by \in Reviewers /\ v \in Reviewers
  BY <1>2, StageOps, CallFields DEF Call
<1>4. HasFields(tx, TxFields)
  BY <1>2 DEF HasFields, TxFields
<1> HIDE DEF tx, by, v
<1> QED
  BY <1>1, <1>3, <1>4, SharedClimbs

\* A request that arrives has locked nothing (Arrive).
LEMMA ArriveClimbs ==
  ASSUME IInv, Climbing, NEW r \in Requests, NEW call \in Calls, Arrive(r, call)
  PROVE  Climb(req'[r], held'[r])
<1> DEFINE y == req'[r]
<1> DEFINE list == IF call.op \in {"set", "remove"} THEN <<call.matter>> ELSE <<>>
<1> DEFINE tx == Fresh(RoleNamed(call), list)
<1>1. /\ req = [q \in Requests |-> req[q]] /\ req[r] = Idle /\ Climb(req[r], held[r])
  BY DEF IInv, Shaped, Arrive, At, Climbing
<1>2. HasFields(Idle, {"at", "call", "tx", "reply"}) /\ Idle.at = "idle"
  BY DEF Idle, HasFields
<1>3. held'[r] = {}
  BY <1>1, <1>2 DEF Climb, Arrive
<1>4. y = [Idle EXCEPT !.call = call, !.at = FirstStep(call.op), !.tx = tx]
  BY <1>1 DEF Arrive, Fresh
<1>5. tx.affected = list
  <2> HIDE DEF list
  <2> QED
    BY FreshFields
<1> HIDE DEF tx
<1>6. y.at = FirstStep(call.op) /\ y.tx.affected = list
  BY <1>2, <1>4, <1>5 DEF HasFields
<1>7. FirstStep(call.op) \in {"members", "seniors", "provision", "open", "restore"}
  <2>1. call.op \in Operations
    BY AuthorityAssumption, CallFields
  <2> QED
    BY <2>1 DEF FirstStep, Operations
<1>8. Ascending(list)
  <2>1. \A k : Ascending(<<k>>)
    <3>1. \A k : DOMAIN <<k>> = {1}
      OBVIOUS
    <3> QED
      BY <3>1 DEF Ascending
  <2>2. Ascending(<<>>)
    BY DEF Ascending
  <2> QED
    BY <2>1, <2>2
<1> HIDE DEF y, list
<1>9. y.at \notin {"idle", "done", "lock"} /\ Stage(y) = y.at /\ Claimed(y, {}) = {}
  BY <1>6, <1>7 DEF Stage, Claimed
<1>10. Climbed(y.at, y.call.target, y.tx.seniors, y.tx.affected, {})
  BY ONLY <1>6, <1>7, <1>8 DEF Climbed
<1> QED
  BY <1>3, <1>9, <1>10 DEF Climb, y

\* A committed transaction holds nothing (Commit).
LEMMA CommitClimbs ==
  ASSUME IInv, NEW r \in Requests, Commit(r)
  PROVE  Climb(req'[r], held'[r])
<1>1. req = [q \in Requests |-> req[q]] /\ held = [q \in Requests |-> held[q]]
  BY DEF IInv, Shaped
<1>2. req'[r] = Over(Call(r), "ok") /\ held'[r] = {}
  BY <1>1 DEF Commit, Over
<1> QED
  BY <1>2, OverFields, OverClimbs

\* A step of a request leaves the others as they are.
LEMMA OthersStay ==
  ASSUME IInv, NEW r \in Requests, NEW q \in Requests, q # r,
         Step(r) \/ \E call \in Calls : Arrive(r, call)
  PROVE  req'[q] = req[q] /\ held'[q] = held[q]
<1>0. req = [p \in Requests |-> req[p]] /\ held = [p \in Requests |-> held[p]]
  BY DEF IInv, Shaped
<1> DEFINE Stays == req'[q] = req[q] /\ held'[q] = held[q]
<1>1. ASSUME NEW tx, NEW label, Proceed(r, tx, label) PROVE Stays
  BY <1>0, <1>1 DEF Proceed
<1>2. ASSUME NEW tx, NEW todo, NEW label, Acquire(r, tx, todo, label) PROVE Stays
  BY <1>0, <1>2 DEF Acquire, Proceed
<1>3. ASSUME NEW reply, Abort(r, reply) PROVE Stays
  BY <1>0, <1>3 DEF Abort
<1>4. CASE TakeLock(r)
  BY <1>0, <1>4 DEF TakeLock
<1>5. CASE Commit(r)
  BY <1>0, <1>5 DEF Commit
<1>6. CASE \E call \in Calls : Arrive(r, call)
  BY <1>0, <1>6 DEF Arrive
<1>7. CASE FindMembers(r)
  BY <1>2, <1>7 DEF FindMembers
<1>8. CASE DecideMembership(r)
  BY <1>1, <1>2, <1>3, <1>8 DEF DecideMembership
<1>9. CASE InsertMembership(r)
  BY <1>2, <1>3, <1>9 DEF InsertMembership
<1>10. CASE FindSeniors(r)
  BY <1>2, <1>10 DEF FindSeniors
<1>11. CASE CheckAuthority(r)
  BY <1>2, <1>3, <1>11 DEF CheckAuthority
<1>12. CASE CheckAccount(r)
  BY <1>1, <1>3, <1>12 DEF CheckAccount
<1>13. CASE CheckReplacement(r)
  BY <1>1, <1>3, <1>13 DEF CheckReplacement
<1>14. CASE WriteAccount(r)
  BY <1>1, <1>14 DEF WriteAccount
<1>15. CASE ProvisionAccount(r)
  BY <1>1, <1>2, <1>3, <1>15 DEF ProvisionAccount
<1>16. CASE OpenMatter(r)
  BY <1>2, <1>3, <1>16 DEF OpenMatter
<1>17. CASE RestoreAccess(r)
  BY <1>2, <1>3, <1>17 DEF RestoreAccess
<1>18. CASE LockAccountAudit(r)
  BY <1>2, <1>18 DEF LockAccountAudit
<1>19. CASE AppendAccountAudit(r)
  BY <1>2, <1>19 DEF AppendAccountAudit
<1>20. CASE CancelDeadlocked(r)
  BY <1>3, <1>20 DEF CancelDeadlocked
<1> QED
  BY <1>4, <1>5, <1>6, <1>7, <1>8, <1>9, <1>10, <1>11, <1>12, <1>13, <1>14, <1>15, <1>16,
     <1>17, <1>18, <1>19, <1>20 DEF Step

\* Every step keeps the order of locks.
LEMMA NextClimbs ==
  ASSUME IInv, Climbing, [Next]_vars
  PROVE  Climbing'
<1>1. ASSUME NEW r \in Requests, Step(r) PROVE Climb(req'[r], held'[r])
  <2>1. CASE TakeLock(r)
    BY <2>1, TakeLockClimbs
  <2>2. CASE FindMembers(r)
    BY <2>2, FindMembersClimbs
  <2>3. CASE DecideMembership(r)
    BY <2>3, DecideMembershipClimbs
  <2>4. CASE InsertMembership(r)
    BY <2>4, InsertMembershipClimbs
  <2>5. CASE FindSeniors(r)
    BY <2>5, FindSeniorsClimbs
  <2>6. CASE CheckAuthority(r)
    BY <2>6, CheckAuthorityClimbs
  <2>7. CASE CheckAccount(r)
    BY <2>7, CheckAccountClimbs
  <2>8. CASE CheckReplacement(r)
    BY <2>8, CheckReplacementClimbs
  <2>9. CASE WriteAccount(r)
    BY <2>9, WriteAccountClimbs
  <2>10. CASE ProvisionAccount(r)
    BY <2>10, ProvisionAccountClimbs
  <2>11. CASE OpenMatter(r)
    BY <2>11, OpenMatterClimbs
  <2>12. CASE RestoreAccess(r)
    BY <2>12, RestoreAccessClimbs
  <2>13. CASE LockAccountAudit(r)
    BY <2>13, LockAccountAuditClimbs
  <2>14. CASE AppendAccountAudit(r)
    BY <2>14, AppendAccountAuditClimbs
  <2>15. CASE Commit(r)
    BY <2>15, CommitClimbs
  <2>16. CASE CancelDeadlocked(r)
    BY <2>16, AbortClimbs DEF CancelDeadlocked
  <2> QED
    BY <1>1, <2>1, <2>2, <2>3, <2>4, <2>5, <2>6, <2>7, <2>8, <2>9, <2>10, <2>11, <2>12,
       <2>13, <2>14, <2>15, <2>16 DEF Step
<1>2. ASSUME NEW r \in Requests, Step(r) \/ \E call \in Calls : Arrive(r, call)
      PROVE  Climbing'
  <2>1. Climb(req'[r], held'[r])
    BY <1>1, <1>2, ArriveClimbs
  <2>2. ASSUME NEW q \in Requests PROVE Climb(req'[q], held'[q])
    <3>1. CASE q = r
      BY <2>1, <3>1
    <3>2. CASE q # r
      BY <1>2, <3>2, OthersStay DEF Climbing
    <3> QED
      BY <3>1, <3>2
  <2> QED
    BY <2>2 DEF Climbing
<1>3. CASE UNCHANGED vars
  BY <1>3 DEF vars, Climbing
<1> QED
  BY <1>2, <1>3 DEF Next

\* Whoever waits has locked only what comes before.
LEMMA Climbs == Spec => []Climbing
<1>1. Init => Climbing
  <2> SUFFICES ASSUME Init, NEW r \in Requests PROVE Climb(req[r], held[r])
    BY DEF Climbing
  <2>1. req[r] = Idle /\ held[r] = {} /\ Idle.at = "idle"
    BY DEF Init, Idle
  <2> QED
    BY <2>1 DEF Climb
<1>2. IInv /\ Climbing /\ [Next]_vars => Climbing'
  BY NextClimbs
<1> QED
  BY <1>1, <1>2, Invariance, PTL DEF Spec

-----------------------------------------------------------------------------
(***************************************************************************)
(* Cycles.                                                                 *)
(***************************************************************************)

\* What a request waits for.
Want(q) == Head(Tx(q).todo)

\* Who locks an account or a membership, locks one there may be.
LEMMA LockNumbers ==
  ASSUME NEW l \in Locks
  PROVE  /\ l.mode = "exclusive"
         /\ Level(l) = 3 => l.lock[2] \in Reviewers /\ l = Exclusive(AccountLock(l.lock[2]))
         /\ Level(l) = 4 => l.lock[2] \in Matters /\ l.lock[3] \in Reviewers
<1>1. PICK name \in AccountNames \cup MemberNames \cup OtherNames : l = Exclusive(name)
  BY DEF Locks
<1>2. l.mode = "exclusive"
  BY <1>1 DEF Exclusive
<1>3. CASE name \in AccountNames
  <2>1. PICK v \in Reviewers : name = AccountLock(v)
    BY <1>3 DEF AccountNames
  <2>2. Level(l) = 3 /\ l.lock[2] = v
    BY <1>1, <2>1, Levels, LockParts
  <2> QED
    BY <1>1, <1>2, <2>1, <2>2
<1>4. CASE name \in MemberNames
  <2>1. PICK k \in Matters, v \in Reviewers : name = MemberLock(k, v)
    BY <1>4 DEF MemberNames
  <2>2. Level(l) = 4 /\ l.lock[2] = k /\ l.lock[3] = v
    BY <1>1, <2>1, Levels, LockParts
  <2> QED
    BY <1>2, <2>2
<1>5. CASE name \in OtherNames
  <2>1. Level(l) \notin {3, 4}
    BY <1>1, <1>5, Levels DEF OtherNames
  <2> QED
    BY <1>2, <2>1
<1> QED
  BY <1>1, <1>3, <1>4, <1>5

\* In a cycle, what each request waits for is locked by another, which waits for
\* something that comes after it.
Rising(D) ==
  \A q \in D :
    /\ Want(q) \in Locks
    /\ \E p \in D : \E a \in held[p] :
         /\ a.lock = Want(q).lock /\ Level(a) = Level(Want(q))
         /\ Precedes(Call(p).target, Tx(p).seniors, a, Want(p))

\* Who waits in a cycle for a lock of his own (pg_blocking_pids).
LEMMA CyclesRise ==
  ASSUME IInv, Climbing, NEW D \in SUBSET Requests, Cycle(D),
         \A q \in D : Want(q) \notin SharedLocks
  PROVE  /\ Rising(D)
         /\ \A q \in D : /\ req[q].at = "lock" /\ Want(q) \in Listed(Tx(q).todo)
                         /\ Sought(Stage(req[q]), Call(q).target, Tx(q).seniors, held[q],
                                   Tx(q).todo)
<1>1. ASSUME NEW q \in D
      PROVE  /\ req[q].at = "lock" /\ Want(q) \in Listed(Tx(q).todo) /\ Want(q) \in Locks
             /\ Sought(Stage(req[q]), Call(q).target, Tx(q).seniors, held[q], Tx(q).todo)
  <2>1. req[q].at = "lock"
    BY DEF Cycle, WaitsFor, At
  <2>2. Local(req[q], held[q], Rows) /\ Climb(req[q], held[q])
    BY DEF IInv, Orderly, Climbing
  <2>3. Tx(q).todo \in Seq(Listed(Tx(q).todo)) /\ Tx(q).todo # <<>>
    BY <2>1, <2>2, LocalOf DEF Tx
  <2>4. Want(q) \in Listed(Tx(q).todo)
    BY <2>3, LocksTaken DEF Want
  <2>5. Sought(Stage(req[q]), Call(q).target, Tx(q).seniors, held[q], Tx(q).todo)
    BY <2>1, <2>2 DEF Climb, Call, Tx
  <2>6. Want(q) \in Locks
    BY <2>4, <2>5 DEF Sought
  <2> QED
    BY <2>1, <2>4, <2>5, <2>6
<1>2. ASSUME NEW q \in D
      PROVE  \E p \in D : \E a \in held[p] :
               /\ a.lock = Want(q).lock /\ Level(a) = Level(Want(q))
               /\ Precedes(Call(p).target, Tx(p).seniors, a, Want(p))
  <2>1. PICK p \in D : p \in WaitsFor(q)
    BY DEF Cycle
  <2>2. PICK a \in held[p] : Conflicting(a, Want(q))
    BY <1>1, <2>1 DEF WaitsFor, Blockers, Want, At
  <2>3. a.lock = Want(q).lock
    BY <2>2 DEF Conflicting
  <2>4. Level(a) = Level(Want(q))
    BY <2>3 DEF Level
  <2>5. Precedes(Call(p).target, Tx(p).seniors, a, Want(p))
    BY <1>1 DEF Sought
  <2> QED
    BY <2>3, <2>4, <2>5
<1> QED
  BY <1>1, <1>2 DEF Rising

\* Nobody in a cycle waits for the audit chain, a place in the index or a membership.
LEMMA NoneAboveAccounts ==
  ASSUME NEW D, Rising(D), NEW q \in D
  PROVE  Level(Want(q)) < 4
<1>1. \A l : Level(l) \in 1 .. 6
  BY Levels
<1>2. ASSUME NEW p \in D
      PROVE  Want(p).mode = "exclusive" /\ Want(p) \in Locks
  BY LockNumbers DEF Rising
<1>3. ASSUME NEW p \in D PROVE Level(Want(p)) # 6
  BY <1>1, <1>2 DEF Rising, Precedes
<1>4. ASSUME NEW p \in D PROVE Level(Want(p)) # 5
  BY <1>1, <1>2, <1>3 DEF Rising, Precedes
<1> DEFINE E == {p \in D : Level(Want(p)) = 4}
<1>5. ASSUME NEW p \in E
      PROVE  /\ Want(p).lock[2] \in Matters /\ Want(p).lock[2] \in Nat
             /\ Want(p).lock[3] \in Reviewers /\ Want(p).lock[3] \in Nat
  <2>1. Want(p) \in Locks /\ Level(Want(p)) = 4
    BY <1>2, <1>5
  <2> QED
    BY <2>1, LockNumbers, AuthorityAssumption
<1>6. ASSUME NEW p \in E
      PROVE  \E o \in E : \/ Want(p).lock[2] < Want(o).lock[2]
                          \/ /\ Want(p).lock[2] = Want(o).lock[2]
                             /\ Want(p).lock[3] < Want(o).lock[3]
  <2>1. PICK o \in D : \E a \in held[o] :
          /\ a.lock = Want(p).lock /\ Level(a) = Level(Want(p))
          /\ Precedes(Call(o).target, Tx(o).seniors, a, Want(o))
    BY DEF Rising
  <2>2. PICK a \in held[o] :
          /\ a.lock = Want(p).lock /\ Level(a) = Level(Want(p))
          /\ Precedes(Call(o).target, Tx(o).seniors, a, Want(o))
    BY <2>1
  <2>3. Level(a) = 4
    BY <2>2
  <2>4. ~ (4 < Level(Want(o)))
    BY <1>1, <1>3, <1>4
  <2>5. /\ Level(Want(o)) = 4
        /\ \/ a.lock[2] < Want(o).lock[2]
           \/ a.lock[2] = Want(o).lock[2] /\ a.lock[3] < Want(o).lock[3]
    BY <1>2, <2>2, <2>3, <2>4 DEF Precedes
  <2> QED
    BY <2>2, <2>5
<1> HIDE DEF E
<1>7. E = {}
  <2> SUFFICES ASSUME E # {} PROVE FALSE
    OBVIOUS
  <2> DEFINE K == {Want(p).lock[2] : p \in E}
  <2>1. K \in SUBSET Matters /\ K \subseteq Nat /\ K # {}
    BY <1>5
  <2>2. IsFiniteSet(K)
    BY <2>1, AuthorityAssumption, FS_Subset
  <2> HIDE DEF K
  <2>3. PICK k \in K : \A i \in K : i <= k
    BY <2>1, <2>2, Greatest
  <2> DEFINE V == {Want(p).lock[3] : p \in {o \in E : Want(o).lock[2] = k}}
  <2>4. V \in SUBSET Reviewers /\ V \subseteq Nat /\ V # {}
    BY <1>5, <2>3 DEF K
  <2>5. IsFiniteSet(V)
    <3> HIDE DEF V
    <3> QED
      BY <2>4, AuthorityAssumption, FS_Subset
  <2> HIDE DEF V
  <2>6. PICK v \in V : \A i \in V : i <= v
    BY <2>4, <2>5, Greatest
  <2>7. PICK p \in E : Want(p).lock[2] = k /\ Want(p).lock[3] = v
    BY <2>6 DEF V
  <2>8. PICK o \in E : \/ k < Want(o).lock[2]
                       \/ k = Want(o).lock[2] /\ v < Want(o).lock[3]
    BY <1>6, <2>7
  <2>9. /\ Want(o).lock[2] \in Nat /\ Want(o).lock[3] \in Nat /\ k \in Nat /\ v \in Nat
        /\ Want(o).lock[2] \in K
    BY <1>5, <2>1, <2>4 DEF K
  <2>10. k = Want(o).lock[2] /\ v < Want(o).lock[3]
    BY <2>3, <2>8, <2>9
  <2>11. Want(o).lock[3] \in V
    BY <2>10 DEF V
  <2> QED
    BY <2>6, <2>9, <2>10, <2>11
<1>8. Level(Want(q)) # 4
  BY <1>7 DEF E
<1> QED
  BY <1>1, <1>3, <1>4, <1>8

\* Nobody in a cycle waits alone for an account that a suspension or reinstatement has
\* not locked with the Seniors', unless it became a Senior's meanwhile.
LEMMA NoneForTheTarget ==
  ASSUME IInv, Climbing, NEW D \in SUBSET Requests, Cycle(D),
         \A q \in D : Want(q) \notin SharedLocks,
         \A q \in D : ~ProvisionedSince(q),
         NEW q \in D, Level(Want(q)) = 3
  PROVE  Want(q).lock[2] \in Tx(q).seniors
<1>1. /\ Rising(D)
      /\ \A p \in D : /\ req[p].at = "lock" /\ Want(p) \in Listed(Tx(p).todo)
                      /\ Sought(Stage(req[p]), Call(p).target, Tx(p).seniors, held[p],
                                Tx(p).todo)
  BY CyclesRise
<1>2. \A p \in D : Want(p) \in Locks /\ Level(Want(p)) < 4 /\ Want(p).mode = "exclusive"
  BY <1>1, NoneAboveAccounts, LockNumbers DEF Rising
<1>3. \A p \in D : Level(Want(p)) = 3 =>
        \/ Stage(req[p]) = "authority" /\ Want(p).lock[2] \in Tx(p).seniors
        \/ /\ Stage(req[p]) = "account" /\ Want(p).lock[2] = Call(p).target
           /\ Call(p).target \notin Tx(p).seniors
  BY <1>1, <1>2 DEF Sought
<1> DEFINE n == Want(q).lock[2]
<1> SUFFICES ASSUME n \notin Tx(q).seniors PROVE FALSE
  OBVIOUS
<1>4. Stage(req[q]) = "account" /\ n = Call(q).target /\ n \in Reviewers
      /\ Want(q) = Exclusive(AccountLock(n))
  BY <1>2, <1>3, LockNumbers
<1>5. PICK p \in D : \E a \in held[p] :
        /\ a.lock = Want(q).lock /\ Level(a) = Level(Want(q))
        /\ Precedes(Call(p).target, Tx(p).seniors, a, Want(p))
  BY <1>1 DEF Rising
<1>6. PICK a \in held[p] :
        /\ a.lock = Want(q).lock /\ Level(a) = 3
        /\ Precedes(Call(p).target, Tx(p).seniors, a, Want(p))
  BY <1>5
<1>7. a.lock[2] = n
  BY <1>6
<1> DEFINE v == Call(p).target
<1> DEFINE S == Tx(p).seniors
<1>8. /\ Level(Want(p)) = 3
      /\ \/ a.lock[2] < Want(p).lock[2]
         \/ v \notin S /\ Want(p).lock[2] = v /\ a.lock[2] \in S
  <2>1. \A l : Level(l) \in Nat
    BY Levels
  <2>2. Level(a) = 3 /\ Want(p).mode # "shared" /\ Level(Want(p)) < 4
    BY <1>2, <1>6
  <2>3. \/ Level(a) < Level(Want(p))
        \/ /\ Level(Want(p)) = 3
           /\ \/ a.lock[2] < Want(p).lock[2]
              \/ v \notin S /\ Want(p).lock[2] = v /\ a.lock[2] \in S
    BY ONLY <1>6, <2>2 DEF Precedes
  <2>4. ~ (Level(a) < Level(Want(p)))
    BY ONLY <2>1, <2>2
  <2> QED
    BY ONLY <2>3, <2>4
<1>9. /\ Working(req[p], held[p], Rows) /\ Working(req[q], held[q], Rows)
      /\ Climbed(Stage(req[p]), v, S, Tx(p).affected, Claimed(req[p], held[p]))
  <2>1. req[p].at = "lock" /\ req[q].at = "lock"
    BY <1>1
  <2>2. Climb(req[p], held[p])
    BY DEF Climbing
  <2> QED
    BY <2>1, <2>2, AtWork DEF Climb, Tx, Call
<1>10. CASE n \in S
  <2>1. Ruling(req[p], held[p], Rows) /\ Stage(req[p]) # "seniors"
    BY <1>3, <1>8, <1>9, StageOps DEF Working
  <2>2. SeniorRole(Rows, n)
    BY <2>1, <1>10 DEF Ruling, Tx
  <2>3. account[n].role = SeniorCounsel
    BY <2>2 DEF SeniorRole, Rows
  <2>4. Call(q).op \in {"suspend", "reinstate"}
    BY <1>4, <1>9, StageOps DEF Call
  <2>5. ProvisionedSince(q)
    BY <1>4, <2>3, <2>4 DEF ProvisionedSince, Want
  <2> QED
    BY <2>5
<1>11. CASE n \notin S
  <2>1. Stage(req[p]) = "account" /\ n = v /\ Want(p).lock[2] = v
    <3>1. a \in Claimed(req[p], held[p])
      BY <1>6 DEF Claimed
    <3>2. CASE Stage(req[p]) = "authority"
      <4>1. a \in AccountClaims(S)
        BY <1>9, <3>1, <3>2 DEF Climbed
      <4> QED
        BY <4>1, <1>7, <1>11, AccountClaimed
    <3>3. CASE Stage(req[p]) = "account"
      <4>1. a \in AccountClaims(S \cup {v})
        BY <1>9, <3>1, <3>3 DEF Climbed
      <4>2. a.lock[2] \in S \cup {v}
        BY <4>1, AccountClaimed
      <4> QED
        BY <4>2, <1>3, <1>7, <1>8, <1>11, <3>3
    <3> QED
      BY <1>3, <1>8, <3>2, <3>3
  <2>2. n \in Nat
    BY <1>4, AuthorityAssumption
  <2> QED
    BY <1>7, <1>8, <1>11, <2>1, <2>2
<1> QED
  BY <1>10, <1>11

\* Nobody in a cycle waits for an account at all.
LEMMA NoneForAccounts ==
  ASSUME IInv, Climbing, NEW D \in SUBSET Requests, Cycle(D),
         \A q \in D : Want(q) \notin SharedLocks,
         \A q \in D : ~ProvisionedSince(q),
         NEW r \in D
  PROVE  Level(Want(r)) < 3
<1>1. /\ Rising(D)
      /\ \A p \in D : /\ req[p].at = "lock" /\ Want(p) \in Listed(Tx(p).todo)
                      /\ Sought(Stage(req[p]), Call(p).target, Tx(p).seniors, held[p],
                                Tx(p).todo)
  BY CyclesRise
<1>2. \A p \in D : Want(p) \in Locks /\ Level(Want(p)) < 4 /\ Want(p).mode = "exclusive"
  BY <1>1, NoneAboveAccounts, LockNumbers DEF Rising
<1>3. \A p \in D : Level(Want(p)) = 3 => Want(p).lock[2] \in Tx(p).seniors
  BY NoneForTheTarget
<1>4. \A l : Level(l) \in Nat
  BY Levels
<1> DEFINE E == {p \in D : Level(Want(p)) = 3}
<1>5. ASSUME NEW q \in E
      PROVE  /\ Want(q).lock[2] \in Reviewers /\ Want(q).lock[2] \in Nat
             /\ \E p \in E : Want(q).lock[2] < Want(p).lock[2]
  <2>1. Want(q).lock[2] \in Reviewers
    BY <1>2, LockNumbers
  <2>2. Want(q).lock[2] \in Nat
    BY <2>1, AuthorityAssumption
  <2>3. PICK p \in D : \E a \in held[p] :
          /\ a.lock = Want(q).lock /\ Level(a) = Level(Want(q))
          /\ Precedes(Call(p).target, Tx(p).seniors, a, Want(p))
    BY <1>1 DEF Rising
  <2>4. PICK a \in held[p] :
          /\ a.lock = Want(q).lock /\ Level(a) = 3
          /\ Precedes(Call(p).target, Tx(p).seniors, a, Want(p))
    BY <2>3
  <2>5. /\ Level(Want(p)) = 3
        /\ \/ a.lock[2] < Want(p).lock[2]
           \/ /\ Call(p).target \notin Tx(p).seniors /\ Want(p).lock[2] = Call(p).target
              /\ a.lock[2] \in Tx(p).seniors
    BY <1>2, <1>4, <2>4 DEF Precedes
  <2>6. a.lock[2] < Want(p).lock[2]
    BY <1>3, <2>5
  <2> QED
    BY <2>1, <2>2, <2>4, <2>5, <2>6
<1> HIDE DEF E
<1>6. E = {}
  <2> SUFFICES ASSUME E # {} PROVE FALSE
    OBVIOUS
  <2> DEFINE V == {Want(p).lock[2] : p \in E}
  <2>1. V \in SUBSET Reviewers /\ V \subseteq Nat /\ V # {}
    BY <1>5
  <2>2. IsFiniteSet(V)
    <3> HIDE DEF V
    <3> QED
      BY <2>1, AuthorityAssumption, FS_Subset
  <2> HIDE DEF V
  <2>3. PICK v \in V : \A i \in V : i <= v
    BY <2>1, <2>2, Greatest
  <2>4. PICK q \in E : Want(q).lock[2] = v
    BY <2>3 DEF V
  <2>5. PICK p \in E : v < Want(p).lock[2]
    BY <1>5, <2>4
  <2>6. Want(p).lock[2] \in V /\ Want(p).lock[2] \in Nat /\ v \in Nat
    BY <1>5, <2>1 DEF V
  <2> QED
    BY <2>3, <2>5, <2>6
<1> QED
  BY <1>2, <1>4, <1>6 DEF E

\* Each cycle of requests that wait for one another has one that waits for the row of
\* a foreign key, which is locked for an account's or a matter's sake, or that is to
\* change an account provisioned as a Senior's after it locked the Seniors'
\* (set_case_member_admin, set_reviewer_active_admin): all other locks are taken in
\* order, the lesser account or membership first.
THEOREM CyclesHaveAnAccount == Spec => []CyclesNeedAnAccount
<1>1. IInv /\ Climbing => CyclesNeedAnAccount
  <2> SUFFICES ASSUME IInv, Climbing, NEW D \in SUBSET Requests, Cycle(D),
                      \A q \in D : Want(q) \notin SharedLocks,
                      \A q \in D : ~ProvisionedSince(q)
               PROVE  FALSE
    BY DEF CyclesNeedAnAccount, SharedLocks, Want
  <2>1. \A q \in D : Level(Want(q)) < 3
    BY NoneForAccounts
  <2>2. Rising(D) /\ \A l : Level(l) \in 1 .. 6
    BY CyclesRise, Levels
  <2>3. ASSUME NEW q \in D
        PROVE  \E p \in D : Level(Want(q)) < Level(Want(p))
    <3>1. PICK p \in D : \E a \in held[p] :
            /\ a.lock = Want(q).lock /\ Level(a) = Level(Want(q))
            /\ Precedes(Call(p).target, Tx(p).seniors, a, Want(p))
      BY <2>2 DEF Rising
    <3>2. Want(p).mode = "exclusive"
      BY <2>2, LockNumbers DEF Rising
    <3>3. Level(Want(q)) \notin {3, 4}
      BY <2>1, <2>2
    <3> QED
      BY <3>1, <3>2, <3>3 DEF Precedes
  <2>4. \A q \in D : Level(Want(q)) # 2
    BY <2>1, <2>2, <2>3
  <2>5. \A q \in D : Level(Want(q)) # 1
    BY <2>1, <2>2, <2>3, <2>4
  <2>6. \A q \in D : FALSE
    BY <2>1, <2>2, <2>4, <2>5
  <2> QED
    BY <2>6 DEF Cycle
<1> QED
  BY <1>1, Invariance, Climbs, PTL
=============================================================================
