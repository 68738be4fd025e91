----------------------- MODULE ReviewerSecurityProofs -----------------------
(***************************************************************************)
(* Proofs about ReviewerSecurity.                                          *)
(*                                                                         *)
(* The invariant says of each request, operation by operation and step by  *)
(* step, which locks it has, what it has found and what it has written, in *)
(* terms of the committed rows as they are now.  It survives the commits   *)
(* of other requests because of the locks: who has the account's row has   *)
(* the account as it is and keeps new sessions of its reviewer out, who    *)
(* has a session's row has the session as it is.  A throttle row is no     *)
(* such thing for who had its lock before the row was there: two may hold  *)
(* the lock of a row, but only while the row is one that one of them       *)
(* inserts.  So what a request relies on is that the row it looks at is    *)
(* its own, or committed and locked.                                       *)
(***************************************************************************)
EXTENDS ReviewerSecurity, TLAPS

-----------------------------------------------------------------------------
(***************************************************************************)
(* What is true of a request x that holds the locks H when the committed   *)
(* rows, the time and the tokens handed out are M.                         *)
(***************************************************************************)

Rows ==
  [account |-> account, sessions |-> sessions, throttle |-> throttle,
   accepted |-> accepted, now |-> now, issued |-> issued]

\* The step a request has got to, once it has the locks and the row it waits for.
Stage(x) == IF x.at \in {"lock", "upsert", "row"} THEN x.tx.then ELSE x.at

Claimed(x, H) == H \cup x.tx.want

RowLock(key) == Exclusive(ThrottleLock(key))

SessionLocks(T) == {Exclusive(SessionLock(t)) : t \in T}
ThrottleLocks   == {RowLock(key) : key \in ThrottleKey}
SeniorLocks     == {Exclusive(AccountLock(s)) : s \in Seniors}
ActorLocks      == {Shared(AccountLock(s)) : s \in Seniors}

\* The operations that change the credentials of an account, and those among them
\* that revoke its sessions.
Revokers == {"change", "reset password", "reset factor", "suspend"}
Owners   == {"enroll", "enable", "verify", "reinstate"} \cup Revokers

NothingWritten(x) == x.tx.account = None /\ x.tx.sessions = None /\ x.tx.accepted = {}

\* The throttle rows written are rows, and locked or to be locked but for those of
\* codes; a code's is deleted only once the code cannot be presented any more, and
\* written with a time that keeps it until then.
ThrottleWritten(x, H, M) ==
  \A key \in DOMAIN x.tx.throttle :
    LET row == x.tx.throttle[key]
    IN  /\ key \in ThrottleKey
        /\ key[1] # "used" => RowLock(key) \in Claimed(x, H)
        /\ row = Gone \/ (row \in ThrottleRow /\ row.updated <= M.now)
        /\ key[1] = "used" =>
             /\ row = Gone => key[3] + MfaWindow < M.now
             /\ row # Gone => key[3] <= row.updated + MfaWindow

\* A login minted the session t.
Minted(x, t) == t \in DOMAIN x.tx.sessions /\ x.tx.sessions[t] # Gone

MintedWell(x, H, M, t) ==
  LET row == x.tx.sessions[t]
  IN  /\ Stage(x) = "commit"
      /\ x.tx.who \in Reviewers /\ Shared(AccountLock(x.tx.who)) \in H
      /\ t \in M.issued \ DOMAIN M.sessions
      /\ row \in SessionRow
      /\ row.by = x.tx.who /\ row.verified = 0 /\ ~row.revoked
      /\ row.opened <= M.account[x.tx.who].password

\* The request has the row it looks at: one of its own, or a committed one locked.
HasRow(x, H, M) ==
  /\ RowLock(x.tx.key) \in H
  /\ \/ x.tx.key \in DOMAIN x.tx.throttle /\ x.tx.throttle[x.tx.key] # Gone
     \/ x.tx.key \in DOMAIN M.throttle \ DOMAIN x.tx.throttle

SigningIn(x, H, M) ==
  LET v == x.call.name
  IN  /\ Stage(x) \in {"purge", "purged", "sweep", "swept", "admit", "check", "read", "hash",
                       "mint", "commit"}
      /\ x.at = "lock" => x.tx.then \in {"purged", "swept", "mint"}
      /\ x.at \in {"upsert", "row"} => x.tx.then \in {"admit", "check"}
      /\ x.tx.who = v
      /\ x.tx.account = None /\ x.tx.accepted = {}
      /\ Claimed(x, H) \subseteq SessionLocks(Tokens) \cup ThrottleLocks \cup {Shared(AccountLock(v))}
      /\ Stage(x) = "purged" =>
           x.tx.found \subseteq M.issued /\ SessionLocks(x.tx.found) \subseteq Claimed(x, H)
      /\ Stage(x) \in {"purge", "purged"} => x.tx.sessions = None
      /\ Stage(x) \in {"purge", "purged", "sweep", "swept"} => x.tx.throttle = None
      /\ \A t \in DOMAIN x.tx.sessions :
           \/ x.tx.sessions[t] = Gone /\ t \in M.issued /\ Exclusive(SessionLock(t)) \in H
           \/ MintedWell(x, H, M, t)
      /\ \A t, u \in DOMAIN x.tx.sessions : Minted(x, t) /\ Minted(x, u) => t = u
      /\ Stage(x) = "admit" => x.tx.key = SourceKey(x.call.source)
      /\ Stage(x) \in {"check", "read", "hash"} => x.tx.key = NameKey(v)
      /\ x.at = "row" => x.tx.key \notin DOMAIN x.tx.throttle
      /\ x.at \in {"admit", "check", "read", "hash"} => HasRow(x, H, M)
      /\ x.at \in {"read", "hash"} /\ NameKey(v) \in DOMAIN M.throttle =>
           ~Locked(M.throttle[NameKey(v)], M.now)
      /\ \A key \in DOMAIN x.tx.throttle :
           /\ RowLock(key) \in H
           /\ key[1] = "login" /\ key \in DOMAIN M.throttle => ~Locked(M.throttle[key], M.now)
      /\ Stage(x) = "mint" => v \in Reviewers /\ Shared(AccountLock(v)) \in Claimed(x, H)
      /\ Stage(x) \in {"hash", "mint"} /\ v \in Reviewers =>
           x.tx.seen.password \in Nat /\ x.tx.seen.password <= M.account[v].password

\* The sessions a request is about, other than a login.
Concerns(x, H) ==
  x.tx.found \cup {t \in Tokens : Exclusive(SessionLock(t)) \in Claimed(x, H)}
             \cup (IF x.call.op \in OfSession THEN {x.call.token} ELSE {})

HasAccount(x, H) == Exclusive(AccountLock(x.tx.who)) \in H

\* The Seniors' accounts are taken one after the other.
Climbing(x, H) ==
  /\ Claimed(x, H) \subseteq SeniorLocks
  /\ \A s, u \in Seniors :
       Exclusive(AccountLock(s)) \in Claimed(x, H) /\ u < s => Exclusive(AccountLock(u)) \in H

\* The audit event is there, and its foreign key waits.
Recording(x) ==
  /\ x.at = "lock" /\ x.tx.then = "commit" /\ x.call.op \in OfAdministrator
  /\ x.tx.want = {Shared(AccountLock(x.call.by))}

\* Whatever an operation on an account does: it takes the account's row first, a
\* suspension after those of the Seniors, and then only sessions of its reviewer, his
\* factor's throttle row, the chain and a share of the administrator's row.
First(op) == IF op \in {"suspend", "reinstate"} THEN "find account" ELSE "secure"

Owning(x, H, M) ==
  LET v == x.tx.who
  IN  /\ v \in Reviewers
      /\ \A t \in Concerns(x, H) : t \in M.issued /\ (t \in DOMAIN M.sessions => M.sessions[t].by = v)
      /\ Claimed(x, H) \subseteq
           {Exclusive(SecurityLock(v)), Exclusive(AccountLock(v)), Exclusive(AuditLock),
            RowLock(FactorKey(v))} \cup SessionLocks(Tokens) \cup SeniorLocks \cup ActorLocks
      /\ Exclusive(SecurityLock(v)) \notin x.tx.want
      /\ \A key \in DOMAIN x.tx.throttle : key[1] \in {"mfa", "used"} /\ key[2] = v
      /\ x.at \in {"upsert", "row"} =>
           x.tx.key = FactorKey(v) /\ x.tx.throttle = None /\ x.tx.then = "attempt"
      /\ Stage(x) \in {"audit", "record"} => x.call.op \in OfAdministrator
      /\ Exclusive(AuditLock) \in H => x.at \in {"record", "commit"} \/ Recording(x)
      /\ Exclusive(AuditLock) \in x.tx.want =>
           Stage(x) = "record" /\ x.tx.want = {Exclusive(AuditLock)}
      /\ x.tx.want \cap ActorLocks # {} => Recording(x)
      /\ Stage(x) = First(x.call.op) =>
           /\ x.tx.throttle = None /\ NothingWritten(x)
           /\ IF First(x.call.op) = "find account" THEN Climbing(x, H) ELSE Claimed(x, H) = {}
      /\ Stage(x) = x.call.op =>
           /\ NothingWritten(x) /\ x.tx.throttle = None
           /\ IF x.at = "lock"
              THEN /\ x.tx.want = {Exclusive(AccountLock(v))}
                   /\ IF First(x.call.op) = "find account" THEN H = SeniorLocks
                      ELSE H \subseteq {Exclusive(SecurityLock(v))}
              ELSE HasAccount(x, H) /\ x.at = x.call.op
      /\ Stage(x) \notin {First(x.call.op), x.call.op} =>
           /\ HasAccount(x, H)
           /\ x.tx.want \cap (SeniorLocks \cup {Exclusive(AccountLock(v))}) = {}

Enrolling(x, H, M) ==
  LET v   == x.tx.who
      row == M.account[v]
  IN  /\ Stage(x) \in {"secure", "enroll", "commit"}
      /\ Stage(x) = "commit" =>
           /\ x.tx.sessions = None /\ x.tx.accepted = {}
           /\ \/ x.tx.account = None
              \/ /\ row.factor = 0
                 /\ x.tx.account = Only(v, [row EXCEPT !.factor = row.minted + 1, !.minted = @ + 1])

\* A code is accepted: it was not before, and its record is written with it.
Accepting(x, H, M) ==
  LET v    == x.tx.who
      code == <<v, x.call.period>>
  IN  /\ x.tx.accepted = {code} /\ code \notin M.accepted /\ x.call.period \in Periods
      /\ UsedKey(v, x.call.period) \in DOMAIN x.tx.throttle
      /\ x.tx.throttle[UsedKey(v, x.call.period)] # Gone
      /\ x.tx.account = IF x.call.op = "enable"
                        THEN Only(v, [M.account[v] EXCEPT !.enabled = TRUE]) ELSE None

Proving(x, H, M) ==
  LET v   == x.tx.who
      t   == x.call.token
      row == M.account[v]
  IN  /\ Stage(x) \in {"secure", x.call.op, "attempt", "mark", "commit"}
      /\ Stage(x) \in {"attempt", "mark"} =>
           IF x.call.op = "enable" THEN row.factor # 0 ELSE row.enabled
      /\ Stage(x) = "attempt" =>
           /\ NothingWritten(x) /\ x.tx.key = FactorKey(v)
           /\ x.at # "lock" /\ (x.at = "attempt" => HasRow(x, H, M))
      /\ Stage(x) = "mark" =>
           /\ Accepting(x, H, M) /\ x.tx.sessions = None
           /\ Exclusive(SessionLock(t)) \in Claimed(x, H)
      /\ Stage(x) = "commit" =>
           \/ NothingWritten(x)
           \/ /\ Accepting(x, H, M)
              /\ IF x.call.op = "enable" THEN row.factor # 0 ELSE row.enabled
              /\ t \in DOMAIN M.sessions /\ Exclusive(SessionLock(t)) \in H
              /\ x.tx.sessions = Only(t, [M.sessions[t] EXCEPT !.verified = row.factor])

\* The account's row after an operation that revokes sessions, and which it spares.
NewRow(op, row) ==
  IF op = "change" THEN [row EXCEPT !.password = @ + 1, !.mustChange = FALSE]
  ELSE IF op = "reset password" THEN [row EXCEPT !.password = @ + 1, !.mustChange = TRUE]
  ELSE IF op = "reset factor" THEN [row EXCEPT !.factor = 0, !.enabled = FALSE]
  ELSE [row EXCEPT !.active = FALSE]

Keeps(x) == IF x.call.op = "change" THEN {x.call.token} ELSE {}

Revoking(x, H, M) ==
  LET v    == x.tx.who
      done == {"revoke", "audit", "record", "commit"}
  IN  /\ Stage(x) \in {First(x.call.op), x.call.op} \cup done
      /\ Stage(x) \in done =>
           /\ x.tx.account = Only(v, NewRow(x.call.op, M.account[v])) /\ x.tx.accepted = {}
           /\ x.call.op = "reset factor" => M.account[v].enabled
      /\ Stage(x) = "revoke" =>
           /\ x.tx.sessions = None
           /\ x.tx.found \cap Keeps(x) = {}
           /\ SessionLocks(x.tx.found) \subseteq Claimed(x, H)
           /\ \A t \in DOMAIN M.sessions :
                M.sessions[t].by = v => t \in x.tx.found \cup Keeps(x) \/ M.sessions[t].revoked
      /\ Stage(x) \in {"audit", "record", "commit"} =>
           /\ \A t \in DOMAIN x.tx.sessions :
                /\ t \in DOMAIN M.sessions \ Keeps(x) /\ Exclusive(SessionLock(t)) \in H
                /\ x.tx.sessions[t] = [M.sessions[t] EXCEPT !.revoked = TRUE]
           /\ \A t \in DOMAIN M.sessions :
                M.sessions[t].by = v =>
                  t \in DOMAIN x.tx.sessions \cup Keeps(x) \/ M.sessions[t].revoked

Reinstating(x, H, M) ==
  LET v == x.tx.who
  IN  /\ Stage(x) \in {"find account", "reinstate", "audit", "record", "commit"}
      /\ Stage(x) \in {"audit", "record", "commit"} =>
           /\ x.tx.account = Only(v, [M.account[v] EXCEPT !.active = TRUE])
           /\ x.tx.sessions = None /\ x.tx.accepted = {}

SigningOut(x, H, M) ==
  LET t == x.call.token
  IN  /\ Stage(x) \in {"sign out", "signed out", "commit"}
      /\ x.tx.account = None /\ x.tx.accepted = {} /\ x.tx.throttle = None /\ x.tx.found = {}
      /\ x.at \notin {"upsert", "row"}
      /\ t \in M.issued
      /\ x.tx.who \in Reviewers
      /\ t \in DOMAIN M.sessions => M.sessions[t].by = x.tx.who
      /\ Claimed(x, H) \subseteq SessionLocks({t})
      /\ Stage(x) # "commit" => x.tx.sessions = None
      /\ Stage(x) = "signed out" => Exclusive(SessionLock(t)) \in Claimed(x, H)
      /\ x.at \in {"sign out", "lock"} => H = {}
      /\ x.at = "lock" => x.tx.then = "signed out"
      /\ Stage(x) = "commit" =>
           /\ x.tx.want = {}
           /\ t \in DOMAIN M.sessions /\ Exclusive(SessionLock(t)) \in H
           /\ x.tx.sessions = Only(t, [M.sessions[t] EXCEPT !.revoked = TRUE])

Working(x, H, M) ==
  /\ x.call \in CallRecord
  /\ x.tx.time <= M.now /\ x.tx.time \in Nat
  /\ Stage(x) \notin {"lock", "upsert", "row", "idle", "done"}
  /\ ThrottleWritten(x, H, M)
  /\ x.call.op = "login"                => SigningIn(x, H, M)
  /\ x.call.op \in Owners               => Owning(x, H, M)
  /\ x.call.op = "enroll"               => Enrolling(x, H, M)
  /\ x.call.op \in {"enable", "verify"} => Proving(x, H, M)
  /\ x.call.op \in Revokers             => Revoking(x, H, M)
  /\ x.call.op = "reinstate"            => Reinstating(x, H, M)
  /\ x.call.op = "logout"               => SigningOut(x, H, M)

Local(x, H, M) ==
  /\ x.at \in {"idle", "done"} => x.tx = NoChanges /\ H = {} /\ x.call = Idle.call
  /\ x.at = "lock" <=> x.tx.want # {}
  /\ x.at \notin {"idle", "done"} => Working(x, H, M)

-----------------------------------------------------------------------------
(***************************************************************************)
(* The invariant.                                                          *)
(***************************************************************************)

Orderly == \A r \in Requests : Local(req[r], held[r], Rows)

\* A record is a function on its fields, a table one on its identifiers.
HasFields(x, names) == DOMAIN x = names /\ x = [f \in names |-> x[f]]
IsTable(f) == f = [id \in DOMAIN f |-> f[id]]

IsRequest(x) ==
  /\ HasFields(x, {"at", "call", "tx", "reply"})
  /\ HasFields(x.tx, {"time", "seen", "who", "want", "then", "key", "found", "account",
                      "sessions", "throttle", "accepted", "reply"})

Shaped ==
  /\ req = [r \in Requests |-> req[r]]
  /\ held = [r \in Requests |-> held[r]]
  /\ \A r \in Requests : IsRequest(req[r])

RowsTyped(M) ==
  /\ M.account \in [Reviewers -> Credential]
  /\ DOMAIN M.sessions \subseteq M.issued /\ M.issued \subseteq Tokens
  /\ M.sessions \in [DOMAIN M.sessions -> SessionRow]
  /\ DOMAIN M.throttle \subseteq ThrottleKey
  /\ M.throttle \in [DOMAIN M.throttle -> ThrottleRow]
  /\ \A key \in DOMAIN M.throttle : M.throttle[key].updated <= M.now
  /\ M.accepted \subseteq Reviewers \X Periods
  /\ M.now \in Nat

ScopeTyped ==
  /\ scope.calls \subseteq CallRecord
  /\ scope.time \in 0 .. MaxTime /\ now <= scope.time

\* A code accepted is on record for as long as it could be presented again.
CodesRecorded(M) ==
  /\ \A key \in DOMAIN M.throttle :
       key[1] = "used" => key[3] <= M.throttle[key].updated + MfaWindow
  /\ \A code \in M.accepted :
       UsedKey(code[1], code[2]) \in DOMAIN M.throttle \/ code[2] + MfaWindow < M.now

\* Of two requests x and z, the locks they have are apart but for those of a throttle
\* row: two have the lock of one only when there is no row but the one that one of them
\* inserts.  (The other may have waited for a row that is gone.)
LocksApart(x, H, z, G, M) ==
  /\ \A a \in H, b \in G : Conflicting(a, b) => a.lock[1] = "throttle"
  /\ \A key \in ThrottleKey :
       key[1] # "used" /\ RowLock(key) \in H /\ RowLock(key) \in G =>
         /\ key \notin DOMAIN M.throttle
         /\ key \in DOMAIN x.tx.throttle <=> key \notin DOMAIN z.tx.throttle

\* The sessions a request mints, and those it is about.
Mints(x) == {t \in DOMAIN x.tx.sessions : x.call.op = "login" /\ Minted(x, t)}
Touches(x, H) ==
  IF x.call.op = "login" THEN DOMAIN x.tx.sessions
  ELSE IF x.call.op \in Owners \cup {"logout"} THEN Concerns(x, H)
  ELSE {}

\* A session that is minted is nobody else's concern, and one that is has one owner.
SessionsApart(x, H, z, G) ==
  /\ Mints(x) \cap Touches(z, G) = {}
  /\ "login" \notin {x.call.op, z.call.op} =>
       \A t \in Touches(x, H) \cap Touches(z, G) : x.tx.who = z.tx.who

Apart(x, H, z, G, M) == LocksApart(x, H, z, G, M) /\ SessionsApart(x, H, z, G)

Together == \A q, r \in Requests : q # r => Apart(req[q], held[q], req[r], held[r], Rows)

Hashing == hashing = {r \in Requests : At(r, "hash")}

FactorsThere == \A v \in Reviewers : account[v].enabled => account[v].factor # 0

IInv ==
  /\ Shaped /\ RowsTyped(Rows) /\ ScopeTyped /\ CodesRecorded(Rows) /\ Orderly
  /\ Together /\ Hashing
  /\ FactorsThere /\ VerifiedByCurrentFactor

-----------------------------------------------------------------------------
(***************************************************************************)
(* Rows, locks and records.                                                *)
(***************************************************************************)

\* A row is not the mark of a deleted one (DELETE, INSERT).
LEMMA RowsAreThere ==
  /\ \A row \in Credential : row # Gone
  /\ \A row \in SessionRow : row # Gone
  /\ \A row \in ThrottleRow : row # Gone
<1>1. DOMAIN Gone = {"gone"}
  BY DEF Gone
<1>2. ASSUME NEW row \in Credential PROVE "password" \in DOMAIN row
  BY DEF Credential
<1>3. ASSUME NEW row \in SessionRow PROVE "by" \in DOMAIN row
  BY DEF SessionRow
<1>4. ASSUME NEW row \in ThrottleRow PROVE "until" \in DOMAIN row
  BY DEF ThrottleRow
<1> QED
  BY <1>1, <1>2, <1>3, <1>4

\* The constants that count are numbers (config.py).
LEMMA Numbers ==
  /\ MaxFailedLogins \in Nat /\ MfaMaxFailures \in Nat /\ SourceMaxAttempts \in Nat
  /\ Lockout \in Nat /\ SourceWindow \in Nat /\ StaleWindow \in Nat /\ SessionTTL \in Nat
  /\ MfaWindow \in Nat /\ MaxTime \in Nat /\ StaleWindow >= 2 * MfaWindow
  /\ Reviewers \subseteq Names /\ Tokens \subseteq Nat \ {0} /\ 0 \in Periods
  /\ Periods \subseteq Nat
BY SecurityAssumption DEF Periods

\* A throttle row's key tells what it is of, and whose (ReviewerLoginThrottle).
LEMMA Keys ==
  /\ \A n \in Names : NameKey(n) \in ThrottleKey /\ NameKey(n)[1] = "login"
  /\ \A s \in Sources : SourceKey(s) \in ThrottleKey /\ SourceKey(s)[1] = "source"
  /\ \A v \in Reviewers : /\ FactorKey(v) \in ThrottleKey /\ FactorKey(v)[1] = "mfa"
                          /\ FactorKey(v)[2] = v
  /\ \A v \in Reviewers, c \in Periods : /\ UsedKey(v, c) \in ThrottleKey
                                         /\ UsedKey(v, c)[1] = "used"
                                         /\ UsedKey(v, c)[2] = v /\ UsedKey(v, c)[3] = c
BY Numbers DEF NameKey, SourceKey, FactorKey, UsedKey, ThrottleKey

\* Locks of different rows are different (SELECT ... FOR UPDATE).
LEMMA LockNames ==
  /\ \A a, b : Exclusive(a) = Exclusive(b) => a = b
  /\ \A a, b : Exclusive(a) # Shared(b)
  /\ \A a : Exclusive(a).lock = a /\ Shared(a).lock = a
  /\ \A a, b : Conflicting(Exclusive(a), Exclusive(b)) <=> a = b
  /\ \A a, b : Conflicting(Exclusive(a), Shared(b)) <=> a = b
  /\ \A a, b : Conflicting(Shared(a), Exclusive(b)) <=> a = b
  /\ \A v, w : AccountLock(v) = AccountLock(w) => v = w
  /\ \A v, w : SecurityLock(v) = SecurityLock(w) => v = w
  /\ \A t, u : SessionLock(t) = SessionLock(u) => t = u
  /\ \A k, l : ThrottleLock(k) = ThrottleLock(l) => k = l
  /\ \A v : /\ AccountLock(v)[1] = "account" /\ SecurityLock(v)[1] = "security"
            /\ SessionLock(v)[1] = "session" /\ ThrottleLock(v)[1] = "throttle"
  /\ AuditLock[1] = "audit"
BY DEF Exclusive, Shared, Conflicting, AccountLock, SecurityLock, SessionLock, ThrottleLock,
       AuditLock

TxFields == {"time", "seen", "who", "want", "then", "key", "found", "account", "sessions",
             "throttle", "accepted", "reply"}

\* x becomes y: it goes on with what tx says, at a label or waiting for the locks L or
\* the row it needs to get to a stage.
Goes(x, y, tx, at, stage, L) ==
  /\ IsRequest(y) /\ y.call = x.call /\ y.at = at /\ Stage(y) = stage /\ y.tx.want = L
  /\ y.tx.time = tx.time /\ y.tx.seen = tx.seen /\ y.tx.who = tx.who
  /\ y.tx.key = tx.key /\ y.tx.found = tx.found /\ y.tx.account = tx.account
  /\ y.tx.sessions = tx.sessions /\ y.tx.throttle = tx.throttle
  /\ y.tx.accepted = tx.accepted
  /\ at \in {"lock", "upsert", "row"} => y.tx.then = stage

\* Proceed: x goes on at a label.
LEMMA Proceeded ==
  ASSUME NEW x, NEW y, NEW tx, NEW label,
         IsRequest(x), HasFields(tx, TxFields), label \notin {"lock", "upsert", "row"},
         y = [x EXCEPT !.at = label, !.tx = tx]
  PROVE  Goes(x, y, tx, label, label, tx.want)
<1>1. IsRequest(y) /\ y.at = label /\ y.tx = tx /\ y.call = x.call
  BY DEF IsRequest, HasFields, TxFields
<1> QED
  BY <1>1 DEF Goes, Stage

\* Acquire: x goes on at a label once it has some locks.
LEMMA Acquired ==
  ASSUME NEW x, NEW y, NEW tx, NEW want, NEW label,
         IsRequest(x), HasFields(tx, TxFields), label \notin {"lock", "upsert", "row"},
         y = [x EXCEPT !.at = IF want = {} THEN label ELSE "lock",
                       !.tx = [tx EXCEPT !.want = want, !.then = label]]
  PROVE  Goes(x, y, tx, IF want = {} THEN label ELSE "lock", label, want)
<1> DEFINE t == [tx EXCEPT !.want = want, !.then = label]
<1>1. /\ HasFields(t, TxFields) /\ t.want = want /\ t.then = label
      /\ t.time = tx.time /\ t.seen = tx.seen /\ t.who = tx.who
      /\ t.key = tx.key /\ t.found = tx.found /\ t.account = tx.account
      /\ t.sessions = tx.sessions /\ t.throttle = tx.throttle /\ t.accepted = tx.accepted
  BY DEF HasFields, TxFields
<1> HIDE DEF t
<1>2. /\ IsRequest(y) /\ y.at = (IF want = {} THEN label ELSE "lock") /\ y.tx = t
      /\ y.call = x.call
  BY <1>1 DEF IsRequest, HasFields, TxFields, t
<1> QED
  BY <1>1, <1>2 DEF Goes, Stage

\* WithRow: x goes on at a label with a throttle row.
LEMMA Upserting ==
  ASSUME NEW x, NEW y, NEW tx, NEW key, NEW label,
         IsRequest(x), HasFields(tx, TxFields), label \notin {"lock", "upsert", "row"},
         y = [x EXCEPT !.at = "upsert", !.tx = [tx EXCEPT !.key = key, !.then = label]]
  PROVE  Goes(x, y, [tx EXCEPT !.key = key], "upsert", label, tx.want)
<1> DEFINE t == [tx EXCEPT !.key = key, !.then = label]
<1> DEFINE u == [tx EXCEPT !.key = key]
<1>1. /\ HasFields(t, TxFields) /\ t.want = tx.want /\ t.then = label
      /\ t.time = u.time /\ t.seen = u.seen /\ t.who = u.who
      /\ t.key = u.key /\ t.found = u.found /\ t.account = u.account
      /\ t.sessions = u.sessions /\ t.throttle = u.throttle /\ t.accepted = u.accepted
  BY DEF HasFields, TxFields
<1> HIDE DEF t, u
<1>2. IsRequest(y) /\ y.at = "upsert" /\ y.tx = t /\ y.call = x.call
  BY <1>1 DEF IsRequest, HasFields, TxFields, t
<1>3. Goes(x, y, u, "upsert", label, tx.want)
  BY <1>1, <1>2 DEF Goes, Stage
<1> QED
  BY <1>3 DEF u

\* A transaction's record with some of its fields changed is one.
LEMMA TxChanged ==
  ASSUME NEW tx, HasFields(tx, TxFields)
  PROVE  /\ \A e : HasFields([tx EXCEPT !.found = e], TxFields)
         /\ \A e : HasFields([tx EXCEPT !.sessions = e], TxFields)
         /\ \A e : HasFields([tx EXCEPT !.throttle = e], TxFields)
         /\ \A e : HasFields([tx EXCEPT !.account = e], TxFields)
         /\ \A e : HasFields([tx EXCEPT !.reply = e], TxFields)
         /\ \A e : HasFields([tx EXCEPT !.key = e], TxFields)
BY DEF HasFields, TxFields

-----------------------------------------------------------------------------
(***************************************************************************)
(* What the others do to a request x that holds the locks H: the committed *)
(* rows become N from M.                                                   *)
(***************************************************************************)

Grown(M, N) ==
  /\ M.now \in Nat /\ N.now \in Nat /\ M.now <= N.now /\ M.issued \subseteq N.issued
  /\ \A v \in Reviewers : /\ M.account[v].password \in Nat /\ N.account[v].password \in Nat
                          /\ M.account[v].password <= N.account[v].password
  /\ \A t \in DOMAIN M.sessions \cap DOMAIN N.sessions :
       /\ N.sessions[t].by = M.sessions[t].by
       /\ M.sessions[t].revoked => N.sessions[t].revoked

\* The locks H have kept the rows they are on.
Guarded(H, M, N) ==
  /\ \A v \in Reviewers : Exclusive(AccountLock(v)) \in H =>
       /\ N.account[v] = M.account[v]
       /\ \A t \in DOMAIN N.sessions : N.sessions[t].by = v => t \in DOMAIN M.sessions
       /\ \A c : <<v, c>> \in N.accepted => <<v, c>> \in M.accepted
  /\ \A t \in DOMAIN M.sessions : Exclusive(SessionLock(t)) \in H =>
       t \in DOMAIN N.sessions /\ N.sessions[t] = M.sessions[t]

\* A throttle row is as it was.
SameRow(key, M, N) ==
  /\ key \in DOMAIN N.throttle <=> key \in DOMAIN M.throttle
  /\ key \in DOMAIN M.throttle => N.throttle[key] = M.throttle[key]

\* A throttle row of its own, or committed and locked, is as it was; the session x
\* mints is still its own, and those it is about have not come back.
Spared(x, H, M, N) ==
  /\ \A key \in ThrottleKey :
       /\ key[1] # "used" /\ RowLock(key) \in H
       /\ key \in DOMAIN M.throttle \/ key \in DOMAIN x.tx.throttle
       => SameRow(key, M, N)
  /\ Mints(x) \cap DOMAIN N.sessions = {}
  /\ x.call.op # "login" => Touches(x, H) \cap DOMAIN N.sessions \subseteq DOMAIN M.sessions

Unharmed(x, H, M, N) == Grown(M, N) /\ Guarded(H, M, N) /\ Spared(x, H, M, N)

\* A row that is not locked does not become so by itself.
LEMMA UnlockedStays ==
  ASSUME NEW row \in ThrottleRow, NEW s \in Nat, NEW t \in Nat, s <= t, ~Locked(row, s)
  PROVE  ~Locked(row, t)
BY DEF Locked, ThrottleRow

\* What a request has written of the throttle rows stays so.
LEMMA ThrottleKept ==
  ASSUME NEW x, NEW H, NEW M, NEW N, Grown(M, N), ThrottleWritten(x, H, M)
  PROVE  ThrottleWritten(x, H, N)
<1> SUFFICES ASSUME NEW key \in DOMAIN x.tx.throttle
             PROVE  LET row == x.tx.throttle[key]
                    IN  /\ key \in ThrottleKey
                        /\ key[1] # "used" => RowLock(key) \in Claimed(x, H)
                        /\ row = Gone \/ (row \in ThrottleRow /\ row.updated <= N.now)
                        /\ key[1] = "used" =>
                             /\ row = Gone => key[3] + MfaWindow < N.now
                             /\ row # Gone => key[3] <= row.updated + MfaWindow
  BY DEF ThrottleWritten
<1> DEFINE row == x.tx.throttle[key]
<1>1. /\ key \in ThrottleKey
      /\ key[1] # "used" => RowLock(key) \in Claimed(x, H)
      /\ row = Gone \/ (row \in ThrottleRow /\ row.updated <= M.now)
      /\ key[1] = "used" =>
           /\ row = Gone => key[3] + MfaWindow < M.now
           /\ row # Gone => key[3] <= row.updated + MfaWindow
  BY DEF ThrottleWritten
<1>2. M.now \in Nat /\ N.now \in Nat /\ M.now <= N.now
  BY DEF Grown
<1>3. key[3] \in Nat /\ MfaWindow \in Nat
  BY <1>1, Numbers DEF ThrottleKey
<1>4. row \in ThrottleRow => row.updated \in Nat
  BY DEF ThrottleRow
<1> HIDE DEF row
<1>5. row = Gone \/ (row \in ThrottleRow /\ row.updated <= N.now)
  BY <1>1, <1>2, <1>4
<1>6. row = Gone /\ key[1] = "used" => key[3] + MfaWindow < N.now
  BY <1>1, <1>2, <1>3
<1> QED
  BY <1>1, <1>5, <1>6 DEF row

\* A sign-in is unharmed (login).
LEMMA SigningInKept ==
  ASSUME NEW x, NEW H, NEW M, NEW N, RowsTyped(M), Unharmed(x, H, M, N),
         ThrottleWritten(x, H, M), x.call \in CallRecord, x.call.op = "login",
         SigningIn(x, H, M)
  PROVE  SigningIn(x, H, N)
<1> DEFINE v == x.call.name
<1>1. M.issued \subseteq N.issued /\ M.now \in Nat /\ N.now \in Nat /\ M.now <= N.now
  BY DEF Unharmed, Grown
<1>2. v \in Names /\ NameKey(v) \in ThrottleKey /\ NameKey(v)[1] # "used"
  BY Keys DEF CallRecord, OfAdministrator
<1>3. \A key \in ThrottleKey :
        /\ key[1] # "used" /\ RowLock(key) \in H
        /\ key \in DOMAIN M.throttle \/ key \in DOMAIN x.tx.throttle
        => SameRow(key, M, N)
  BY DEF Unharmed, Spared
<1>4. ASSUME NEW t \in DOMAIN x.tx.sessions, MintedWell(x, H, M, t)
      PROVE  MintedWell(x, H, N, t)
  <2>1. x.tx.sessions[t] \in SessionRow /\ x.tx.who \in Reviewers
    BY <1>4 DEF MintedWell
  <2>2. t \in Mints(x)
    BY <2>1, RowsAreThere DEF Mints, Minted
  <2>3. t \notin DOMAIN N.sessions
    BY <2>2 DEF Unharmed, Spared
  <2>4. x.tx.sessions[t].opened <= N.account[x.tx.who].password
    <3>1. x.tx.sessions[t].opened \in Nat
      BY <2>1 DEF SessionRow
    <3>2. x.tx.sessions[t].opened <= M.account[x.tx.who].password
      BY <1>4 DEF MintedWell
    <3> QED
      BY <3>1, <3>2, <2>1 DEF Unharmed, Grown
  <2> QED
    BY <1>1, <1>4, <2>3, <2>4 DEF MintedWell
<1>5. ASSUME x.at \in {"admit", "check", "read", "hash"}
      PROVE  HasRow(x, H, N) /\ SameRow(x.tx.key, M, N)
  <2>1. HasRow(x, H, M)
    BY <1>5 DEF SigningIn
  <2>2. x.tx.key \in ThrottleKey /\ x.tx.key[1] # "used"
    <3>1. Stage(x) = x.at
      BY <1>5 DEF Stage
    <3>2. x.call.source \in Sources
      BY DEF CallRecord, OfAdministrator
    <3> QED
      BY <1>2, <1>5, <3>1, <3>2, Keys DEF SigningIn
  <2>3. SameRow(x.tx.key, M, N)
    BY <1>3, <2>1, <2>2 DEF HasRow
  <2> QED
    BY <2>1, <2>3 DEF HasRow, SameRow
<1>6. ASSUME NEW key \in ThrottleKey, SameRow(key, M, N), key \in DOMAIN N.throttle,
             key \in DOMAIN M.throttle => ~Locked(M.throttle[key], M.now)
      PROVE  ~Locked(N.throttle[key], N.now)
  <2>1. N.throttle[key] \in ThrottleRow /\ ~Locked(N.throttle[key], M.now)
    BY <1>6 DEF SameRow, RowsTyped
  <2> QED
    BY <1>1, <2>1, UnlockedStays
<1>7. x.at \in {"read", "hash"} /\ NameKey(v) \in DOMAIN N.throttle =>
        ~Locked(N.throttle[NameKey(v)], N.now)
  <2> SUFFICES ASSUME x.at \in {"read", "hash"}, NameKey(v) \in DOMAIN N.throttle
               PROVE  ~Locked(N.throttle[NameKey(v)], N.now)
    OBVIOUS
  <2>1. x.tx.key = NameKey(v)
    BY DEF SigningIn, Stage
  <2>2. NameKey(v) \in DOMAIN M.throttle => ~Locked(M.throttle[NameKey(v)], M.now)
    BY DEF SigningIn
  <2> QED
    BY <1>2, <1>5, <1>6, <2>1, <2>2
<1>8. ASSUME NEW key \in DOMAIN x.tx.throttle
      PROVE  /\ RowLock(key) \in H
             /\ key[1] = "login" /\ key \in DOMAIN N.throttle => ~Locked(N.throttle[key], N.now)
  <2>1. /\ RowLock(key) \in H /\ key \in ThrottleKey
        /\ key[1] = "login" /\ key \in DOMAIN M.throttle => ~Locked(M.throttle[key], M.now)
    BY <1>8 DEF SigningIn, ThrottleWritten
  <2>2. key[1] = "login" => SameRow(key, M, N)
    BY <1>3, <1>8, <2>1
  <2> QED
    BY <1>6, <2>1, <2>2
<1>9. Stage(x) \in {"hash", "mint"} /\ v \in Reviewers =>
        x.tx.seen.password \in Nat /\ x.tx.seen.password <= N.account[v].password
  BY DEF SigningIn, Unharmed, Grown
<1>10. \A t \in DOMAIN x.tx.sessions :
         \/ x.tx.sessions[t] = Gone /\ t \in N.issued /\ Exclusive(SessionLock(t)) \in H
         \/ MintedWell(x, H, N, t)
  BY <1>1, <1>4 DEF SigningIn
<1>11. Stage(x) = "purged" =>
         x.tx.found \subseteq N.issued /\ SessionLocks(x.tx.found) \subseteq Claimed(x, H)
  BY <1>1 DEF SigningIn
<1> HIDE DEF v
<1> QED
  BY <1>5, <1>7, <1>8, <1>9, <1>10, <1>11 DEF SigningIn, v

\* What the sessions of Concerns are of a request that is not a login.
LEMMA TouchesOwn ==
  ASSUME NEW x, NEW H
  PROVE  /\ x.call.op \in Owners \cup {"logout"} => Touches(x, H) = Concerns(x, H) /\ x.call.op # "login"
         /\ x.call.op = "login" => Touches(x, H) = DOMAIN x.tx.sessions
BY DEF Touches, Owners, Revokers

\* A request that is not a login has nothing to say of the sessions that are minted.
LEMMA MintsNothing ==
  ASSUME NEW x, x.call.op # "login"
  PROVE  Mints(x) = {}
BY DEF Mints

\* An operation on an account is unharmed: the account is as it is, and keeps to its
\* sessions (lock_reviewer_security, set_reviewer_active_admin).
LEMMA OwningKept ==
  ASSUME NEW x, NEW H, NEW M, NEW N, Unharmed(x, H, M, N), x.call.op \in Owners,
         Owning(x, H, M)
  PROVE  Owning(x, H, N)
<1>1. \A t \in Concerns(x, H) :
        t \in N.issued /\ (t \in DOMAIN N.sessions => N.sessions[t].by = x.tx.who)
  <2> SUFFICES ASSUME NEW t \in Concerns(x, H)
               PROVE  t \in N.issued /\ (t \in DOMAIN N.sessions => N.sessions[t].by = x.tx.who)
    OBVIOUS
  <2>1. t \in M.issued /\ (t \in DOMAIN M.sessions => M.sessions[t].by = x.tx.who)
    BY DEF Owning
  <2>2. t \in DOMAIN N.sessions => t \in DOMAIN M.sessions
    BY TouchesOwn DEF Unharmed, Spared
  <2> QED
    BY <2>1, <2>2 DEF Unharmed, Grown
<1> QED
  BY <1>1 DEF Owning

\* Who has the account's row, and so the account as it is.
LEMMA HasIts ==
  ASSUME NEW x, NEW H, NEW M, NEW N, Unharmed(x, H, M, N), x.call.op \in Owners,
         Owning(x, H, M), Stage(x) \notin {First(x.call.op), x.call.op}
  PROVE  /\ x.tx.who \in Reviewers /\ N.account[x.tx.who] = M.account[x.tx.who]
         /\ \A t \in DOMAIN N.sessions : N.sessions[t].by = x.tx.who => t \in DOMAIN M.sessions
         /\ \A c : <<x.tx.who, c>> \in N.accepted => <<x.tx.who, c>> \in M.accepted
BY DEF Owning, HasAccount, Unharmed, Guarded

\* Enrollment, and the check of a code, are unharmed (start_mfa_enrollment,
\* _verify_mfa_attempt).
LEMMA ProvingKept ==
  ASSUME NEW x, NEW H, NEW M, NEW N, RowsTyped(M), Unharmed(x, H, M, N),
         x.call.op \in {"enroll", "enable", "verify"}, Owning(x, H, M)
  PROVE  /\ x.call.op = "enroll" /\ Enrolling(x, H, M) => Enrolling(x, H, N)
         /\ x.call.op # "enroll" /\ Proving(x, H, M) => Proving(x, H, N)
<1>1. x.call.op \in Owners /\ First(x.call.op) = "secure"
  BY DEF Owners, First
<1>2. ASSUME x.call.op = "enroll", Enrolling(x, H, M)
      PROVE  Enrolling(x, H, N)
  <2>1. Stage(x) = "commit" => N.account[x.tx.who] = M.account[x.tx.who]
    BY <1>1, <1>2, HasIts
  <2> QED
    BY <1>2, <2>1 DEF Enrolling
<1>3. ASSUME x.call.op # "enroll", Proving(x, H, M)
      PROVE  Proving(x, H, N)
  <2>1. Stage(x) \in {"attempt", "mark", "commit"} =>
          /\ N.account[x.tx.who] = M.account[x.tx.who]
          /\ \A c : <<x.tx.who, c>> \in N.accepted => <<x.tx.who, c>> \in M.accepted
    BY <1>1, <1>3, HasIts
  <2>2. Stage(x) \in {"mark", "commit"} /\ Accepting(x, H, M) => Accepting(x, H, N)
    BY <2>1 DEF Accepting
  <2>3. \A t \in DOMAIN M.sessions : Exclusive(SessionLock(t)) \in H =>
          t \in DOMAIN N.sessions /\ N.sessions[t] = M.sessions[t]
    BY DEF Unharmed, Guarded
  <2>4. x.at = "attempt" => HasRow(x, H, N)
    <3> SUFFICES ASSUME x.at = "attempt"
                 PROVE  HasRow(x, H, N)
      OBVIOUS
    <3>1. Stage(x) = "attempt"
      BY DEF Stage
    <3>2. HasRow(x, H, M) /\ x.tx.key = FactorKey(x.tx.who) /\ x.tx.who \in Reviewers
      BY <1>3, <3>1 DEF Proving, Owning
    <3>3. SameRow(x.tx.key, M, N)
      BY <3>2, Keys DEF HasRow, Unharmed, Spared
    <3> QED
      BY <3>2, <3>3 DEF HasRow, SameRow
  <2> QED
    BY <1>3, <2>1, <2>2, <2>3, <2>4 DEF Proving
<1> QED
  BY <1>2, <1>3

\* Who revokes sessions has them locked, and no other of the reviewer's comes
\* (revoke_reviewer_sessions).
LEMMA RevokingKept ==
  ASSUME NEW x, NEW H, NEW M, NEW N, RowsTyped(M), Unharmed(x, H, M, N),
         x.call.op \in Revokers, Owning(x, H, M), Revoking(x, H, M)
  PROVE  Revoking(x, H, N)
<1> DEFINE v == x.tx.who
<1>1. x.call.op \in Owners
  BY DEF Owners
<1>2. Stage(x) \in {"revoke", "audit", "record", "commit"} =>
        /\ N.account[v] = M.account[v]
        /\ \A t \in DOMAIN N.sessions : N.sessions[t].by = v => t \in DOMAIN M.sessions
  <2>1. Stage(x) \in {"revoke", "audit", "record", "commit"} => Stage(x) \notin {First(x.call.op), x.call.op}
    BY DEF First, Revokers
  <2> QED
    BY <1>1, <2>1, HasIts
<1>3. \A t \in DOMAIN M.sessions \cap DOMAIN N.sessions :
        N.sessions[t].by = M.sessions[t].by /\ (M.sessions[t].revoked => N.sessions[t].revoked)
  BY DEF Unharmed, Grown
<1>4. \A t \in DOMAIN M.sessions : Exclusive(SessionLock(t)) \in H =>
        t \in DOMAIN N.sessions /\ N.sessions[t] = M.sessions[t]
  BY DEF Unharmed, Guarded
<1>5. Stage(x) = "revoke" =>
        \A t \in DOMAIN N.sessions :
          N.sessions[t].by = v => t \in x.tx.found \cup Keeps(x) \/ N.sessions[t].revoked
  BY <1>2, <1>3 DEF Revoking
<1>6. Stage(x) \in {"audit", "record", "commit"} =>
        \A t \in DOMAIN N.sessions :
          N.sessions[t].by = v =>
            t \in DOMAIN x.tx.sessions \cup Keeps(x) \/ N.sessions[t].revoked
  BY <1>2, <1>3 DEF Revoking
<1>7. Stage(x) \in {"audit", "record", "commit"} =>
        \A t \in DOMAIN x.tx.sessions :
          /\ t \in DOMAIN N.sessions \ Keeps(x) /\ Exclusive(SessionLock(t)) \in H
          /\ x.tx.sessions[t] = [N.sessions[t] EXCEPT !.revoked = TRUE]
  BY <1>4 DEF Revoking
<1> QED
  BY <1>2, <1>5, <1>6, <1>7 DEF Revoking

\* So are a reinstatement and a sign-out (set_reviewer_active_admin, logout).
LEMMA OthersKept ==
  ASSUME NEW x, NEW H, NEW M, NEW N, RowsTyped(M), Unharmed(x, H, M, N)
  PROVE  /\ x.call.op = "reinstate" /\ Owning(x, H, M) /\ Reinstating(x, H, M) =>
              Reinstating(x, H, N)
         /\ x.call.op = "logout" /\ SigningOut(x, H, M) => SigningOut(x, H, N)
<1>1. ASSUME x.call.op = "reinstate", Owning(x, H, M), Reinstating(x, H, M)
      PROVE  Reinstating(x, H, N)
  <2>1. x.call.op \in Owners /\ First(x.call.op) = "find account"
    BY <1>1 DEF Owners, First
  <2>2. Stage(x) \in {"audit", "record", "commit"} => N.account[x.tx.who] = M.account[x.tx.who]
    BY <1>1, <2>1, HasIts
  <2> QED
    BY <1>1, <2>2 DEF Reinstating
<1>2. ASSUME x.call.op = "logout", SigningOut(x, H, M)
      PROVE  SigningOut(x, H, N)
  <2> DEFINE t == x.call.token
  <2>1. t \in Touches(x, H)
    BY <1>2, TouchesOwn DEF Concerns, OfSession
  <2>2. t \in DOMAIN N.sessions => t \in DOMAIN M.sessions /\ N.sessions[t].by = M.sessions[t].by
    BY <1>2, <2>1 DEF Unharmed, Spared, Grown
  <2>3. t \in DOMAIN M.sessions /\ Exclusive(SessionLock(t)) \in H =>
          t \in DOMAIN N.sessions /\ N.sessions[t] = M.sessions[t]
    BY DEF Unharmed, Guarded
  <2>4. t \in M.issued => t \in N.issued
    BY DEF Unharmed, Grown
  <2> QED
    BY <1>2, <2>2, <2>3, <2>4 DEF SigningOut
<1> QED
  BY <1>1, <1>2

\* What a request relies on survives what the others do.
LEMMA LocalKept ==
  ASSUME NEW x, NEW H, NEW M, NEW N, RowsTyped(M), Unharmed(x, H, M, N), Local(x, H, M)
  PROVE  Local(x, H, N)
<1>1. Working(x, H, M) => Working(x, H, N)
  <2> SUFFICES ASSUME Working(x, H, M) PROVE Working(x, H, N)
    OBVIOUS
  <2>1. /\ x.call \in CallRecord /\ x.tx.time \in Nat /\ x.tx.time <= M.now
        /\ ThrottleWritten(x, H, M)
    BY DEF Working
  <2>2. Grown(M, N) /\ M.now \in Nat /\ N.now \in Nat /\ M.now <= N.now
    BY DEF Unharmed, Grown
  <2>3. ThrottleWritten(x, H, N)
    BY <2>1, <2>2, ThrottleKept
  <2>4. x.tx.time <= N.now
    BY <2>1, <2>2
  <2>5. x.call.op = "login" => SigningIn(x, H, N)
    BY <2>1, SigningInKept DEF Working
  <2>6. x.call.op \in Owners => Owning(x, H, N)
    BY OwningKept DEF Working
  <2>7. x.call.op = "enroll" => Enrolling(x, H, N)
    BY ProvingKept DEF Working, Owners
  <2>8. x.call.op \in {"enable", "verify"} => Proving(x, H, N)
    BY ProvingKept DEF Working, Owners
  <2>9. x.call.op \in Revokers => Revoking(x, H, N)
    BY RevokingKept DEF Working, Owners
  <2>10. x.call.op = "reinstate" => Reinstating(x, H, N)
    BY OthersKept DEF Working, Owners
  <2>11. x.call.op = "logout" => SigningOut(x, H, N)
    BY OthersKept DEF Working
  <2> QED
    BY <2>1, <2>3, <2>4, <2>5, <2>6, <2>7, <2>8, <2>9, <2>10, <2>11 DEF Working
<1> QED
  BY <1>1 DEF Local

-----------------------------------------------------------------------------
(***************************************************************************)
(* A lock is granted, and a throttle row is there.                         *)
(***************************************************************************)

\* The operations (the endpoints of api/routes.py that this module is about).
LEMMA CallOps ==
  ASSUME NEW c \in CallRecord
  PROVE  /\ c.op \in {"login", "logout"} \cup Owners
         /\ c.op = "login" => c.name \in Names /\ c.source \in Sources /\ c.password \in Nat
         /\ c.op \in OfSession => c.token \in Tokens
         /\ c.op \in {"enable", "verify"} => c.period \in Nat /\ c.factor \in Nat
         /\ c.op \in OfAdministrator => c.target \in Reviewers /\ c.by \in Seniors
BY DEF CallRecord, OfAdministrator, OfSession, Owners, Revokers

\* x has become y: it has one more of the locks it waits for, and goes on with the last.
Gets(x, y, a) ==
  /\ IsRequest(y) /\ y.call = x.call /\ x.at = "lock" /\ a \in x.tx.want
  /\ y.tx.want = x.tx.want \ {a} /\ y.tx.then = x.tx.then
  /\ y.at = IF x.tx.want = {a} THEN x.tx.then ELSE "lock"
  /\ y.tx.time = x.tx.time /\ y.tx.seen = x.tx.seen /\ y.tx.who = x.tx.who
  /\ y.tx.key = x.tx.key /\ y.tx.found = x.tx.found /\ y.tx.account = x.tx.account
  /\ y.tx.sessions = x.tx.sessions /\ y.tx.throttle = x.tx.throttle
  /\ y.tx.accepted = x.tx.accepted

\* It claims what it did, and has got no further.
LEMMA GetsClaims ==
  ASSUME NEW x, NEW y, NEW H, NEW a, Gets(x, y, a),
         Stage(x) \notin {"lock", "upsert", "row"}
  PROVE  /\ Stage(y) = Stage(x) /\ Claimed(y, H \cup {a}) = Claimed(x, H)
         /\ Stage(x) = x.tx.then /\ y.at \in {"lock", x.tx.then}
         /\ y.at = "lock" <=> y.tx.want # {}
<1>1. Stage(x) = x.tx.then /\ x.tx.then \notin {"lock", "upsert", "row"}
  BY DEF Gets, Stage
<1>2. Claimed(y, H \cup {a}) = Claimed(x, H)
  BY DEF Gets, Claimed
<1>3. x.tx.want = {a} <=> y.tx.want = {}
  BY DEF Gets
<1> QED
  BY <1>1, <1>2, <1>3 DEF Gets, Stage

\* What a sign-in relies on is still there.
LEMMA GetsSigningIn ==
  ASSUME NEW x, NEW y, NEW H, NEW M, NEW a, Gets(x, y, a), SigningIn(x, H, M),
         Stage(x) \notin {"lock", "upsert", "row"}
  PROVE  SigningIn(y, H \cup {a}, M)
<1>1. /\ Stage(y) = Stage(x) /\ Claimed(y, H \cup {a}) = Claimed(x, H)
      /\ y.at \in {"lock", "purged", "swept", "mint"} /\ y.tx.then = x.tx.then
      /\ x.tx.then \in {"purged", "swept", "mint"}
  BY GetsClaims DEF SigningIn, Gets
<1>2. \A t \in DOMAIN x.tx.sessions : MintedWell(x, H, M, t) => MintedWell(y, H \cup {a}, M, t)
  BY <1>1 DEF MintedWell, Gets
<1>3. \A t : Minted(y, t) <=> Minted(x, t)
  BY DEF Minted, Gets
<1> QED
  BY <1>1, <1>2, <1>3 DEF SigningIn, Gets

\* What an operation on an account relies on is still there.
LEMMA GetsOwning ==
  ASSUME NEW x, NEW y, NEW H, NEW M, NEW a, Gets(x, y, a), Owning(x, H, M),
         Stage(x) \notin {"lock", "upsert", "row"}
  PROVE  Owning(y, H \cup {a}, M)
<1> DEFINE v == x.tx.who
<1>1. /\ Stage(y) = Stage(x) /\ Claimed(y, H \cup {a}) = Claimed(x, H)
      /\ y.at \in {"lock", x.tx.then} /\ Stage(x) = x.tx.then
  BY ONLY Gets(x, y, a), Stage(x) \notin {"lock", "upsert", "row"}, GetsClaims
<1>2. Concerns(y, H \cup {a}) = Concerns(x, H)
  BY <1>1 DEF Concerns, Gets
<1>3. Exclusive(AuditLock) \in H \cup {a} => y.at \in {"record", "commit"}
  <2>1. Exclusive(AuditLock) \in H => x.tx.want = {a} /\ x.tx.then = "commit"
    BY DEF Owning, Gets, Recording
  <2>2. a = Exclusive(AuditLock) => x.tx.want = {a} /\ x.tx.then = "record"
    BY <1>1 DEF Owning, Gets
  <2> QED
    BY <2>1, <2>2 DEF Gets
<1>4. Stage(x) = First(x.call.op) =>
        /\ y.tx.throttle = None /\ NothingWritten(y)
        /\ IF First(x.call.op) = "find account" THEN Climbing(y, H \cup {a})
           ELSE Claimed(y, H \cup {a}) = {}
  <2>1. Climbing(x, H) => Climbing(y, H \cup {a})
    BY <1>1 DEF Climbing
  <2>2. x.tx.throttle = None /\ NothingWritten(x) => y.tx.throttle = None /\ NothingWritten(y)
    BY DEF Gets, NothingWritten
  <2> QED
    BY <1>1, <2>1, <2>2 DEF Owning
<1>5. Stage(x) = x.call.op =>
        /\ y.at = x.call.op /\ HasAccount(y, H \cup {a})
        /\ NothingWritten(y) /\ y.tx.throttle = None
  BY <1>1 DEF Owning, Gets, HasAccount, NothingWritten
<1>6. Stage(x) \notin {First(x.call.op), x.call.op} =>
        /\ HasAccount(y, H \cup {a})
        /\ y.tx.want \cap (SeniorLocks \cup {Exclusive(AccountLock(v))}) = {}
  BY DEF Owning, Gets, HasAccount
<1>7. Exclusive(AuditLock) \notin y.tx.want /\ y.tx.want \cap ActorLocks = {}
  BY DEF Owning, Gets, Recording
<1>8. Exclusive(SecurityLock(v)) \notin y.tx.want
  BY DEF Owning, Gets
<1>9. y.at \notin {"upsert", "row"} /\ y.call = x.call /\ y.tx.who = v /\ y.tx.throttle = x.tx.throttle
  BY <1>1 DEF Gets
<1>10. /\ v \in Reviewers
       /\ \A t \in Concerns(x, H) : t \in M.issued /\ (t \in DOMAIN M.sessions => M.sessions[t].by = v)
       /\ Claimed(x, H) \subseteq
            {Exclusive(SecurityLock(v)), Exclusive(AccountLock(v)), Exclusive(AuditLock),
             RowLock(FactorKey(v))} \cup SessionLocks(Tokens) \cup SeniorLocks \cup ActorLocks
       /\ \A key \in DOMAIN x.tx.throttle : key[1] \in {"mfa", "used"} /\ key[2] = v
       /\ Stage(x) \in {"audit", "record"} => x.call.op \in OfAdministrator
  BY DEF Owning
<1>11. Stage(x) = x.call.op => y.at # "lock"
  BY <1>5, <1>1
<1> QED
  BY ONLY <1>1, <1>2, <1>3, <1>4, <1>5, <1>6, <1>7, <1>8, <1>9, <1>10, <1>11 DEF Owning

\* What any request relies on is still there.
LEMMA GetsLocal ==
  ASSUME NEW x, NEW y, NEW H, NEW M, NEW a, Gets(x, y, a), Local(x, H, M)
  PROVE  Local(y, H \cup {a}, M)
<1>1. Working(x, H, M) /\ Stage(x) \notin {"lock", "upsert", "row", "idle", "done"}
  BY DEF Local, Gets, Working
<1>2. /\ Stage(y) = Stage(x) /\ Claimed(y, H \cup {a}) = Claimed(x, H)
      /\ Stage(x) = x.tx.then /\ y.at \in {"lock", x.tx.then}
      /\ y.at = "lock" <=> y.tx.want # {}
  BY <1>1, GetsClaims
<1>3. x.call.op = "login" => SigningIn(y, H \cup {a}, M)
  BY <1>1, GetsSigningIn DEF Working
<1>4. x.call.op \in Owners => Owning(y, H \cup {a}, M)
  BY <1>1, GetsOwning DEF Working
<1>5. x.call.op = "enroll" => Enrolling(y, H \cup {a}, M)
  BY <1>1, <1>2 DEF Working, Enrolling, Gets
<1>6. x.call.op \in {"enable", "verify"} => Proving(y, H \cup {a}, M)
  <2> SUFFICES ASSUME x.call.op \in {"enable", "verify"} PROVE Proving(y, H \cup {a}, M)
    OBVIOUS
  <2>1. Proving(x, H, M) /\ x.at = "lock"
    BY <1>1 DEF Working, Gets
  <2>2. Accepting(x, H, M) => Accepting(y, H \cup {a}, M)
    BY DEF Accepting, Gets
  <2>3. NothingWritten(x) => NothingWritten(y)
    BY DEF NothingWritten, Gets
  <2>4. Stage(x) # "attempt"
    BY <2>1 DEF Proving
  <2> QED
    BY <1>2, <2>1, <2>2, <2>3, <2>4 DEF Proving, Gets
<1>7. x.call.op \in Revokers => Revoking(y, H \cup {a}, M)
  <2> SUFFICES ASSUME x.call.op \in Revokers PROVE Revoking(y, H \cup {a}, M)
    OBVIOUS
  <2>1. Revoking(x, H, M)
    BY <1>1 DEF Working
  <2>2. /\ y.call = x.call /\ y.tx.who = x.tx.who /\ y.tx.found = x.tx.found
        /\ y.tx.account = x.tx.account /\ y.tx.sessions = x.tx.sessions
        /\ y.tx.accepted = x.tx.accepted
    BY DEF Gets
  <2> QED
    BY ONLY <1>2, <2>1, <2>2 DEF Revoking, Keeps
<1>8. x.call.op = "reinstate" => Reinstating(y, H \cup {a}, M)
  BY <1>1, <1>2 DEF Working, Reinstating, Gets
<1>9. x.call.op = "logout" => SigningOut(y, H \cup {a}, M)
  <2> SUFFICES ASSUME x.call.op = "logout" PROVE SigningOut(y, H \cup {a}, M)
    OBVIOUS
  <2>1. SigningOut(x, H, M)
    BY <1>1 DEF Working
  <2>2. x.tx.want \subseteq {Exclusive(SessionLock(x.call.token))} /\ a \in x.tx.want
    BY <2>1 DEF SigningOut, Gets, Claimed, SessionLocks
  <2>3. x.tx.want = {a} /\ a = Exclusive(SessionLock(x.call.token)) /\ y.at = x.tx.then
    BY <2>2 DEF Gets
  <2>4. Stage(x) = "signed out"
    BY <1>2, <2>1 DEF SigningOut, Gets
  <2> QED
    BY <1>2, <2>1, <2>3, <2>4 DEF SigningOut, Gets
<1>10. ThrottleWritten(y, H \cup {a}, M)
  BY <1>1, <1>2 DEF Working, ThrottleWritten, Gets
<1>11. Working(y, H \cup {a}, M)
  BY <1>1, <1>2, <1>3, <1>4, <1>5, <1>6, <1>7, <1>8, <1>9, <1>10 DEF Working, Gets
<1> QED
  BY <1>1, <1>2, <1>11 DEF Local

\* x has become y, but for what it has written of the throttle rows.
Same(x, y) ==
  /\ IsRequest(y) /\ y.call = x.call
  /\ y.tx.want = x.tx.want /\ y.tx.then = x.tx.then
  /\ y.tx.time = x.tx.time /\ y.tx.seen = x.tx.seen /\ y.tx.who = x.tx.who
  /\ y.tx.key = x.tx.key /\ y.tx.found = x.tx.found /\ y.tx.account = x.tx.account
  /\ y.tx.sessions = x.tx.sessions /\ y.tx.accepted = x.tx.accepted

\* Who is after a throttle row is a sign-in, or is to check a code.
LEMMA AfterARow ==
  ASSUME NEW x, NEW H, NEW M, Local(x, H, M), x.at \in {"upsert", "row"}
  PROVE  /\ Working(x, H, M) /\ x.tx.want = {} /\ Stage(x) = x.tx.then
         /\ x.tx.then \notin {"lock", "upsert", "row", "idle", "done"}
         /\ x.call.op \in {"login", "enable", "verify"}
         /\ x.call.op = "login" => x.tx.then \in {"admit", "check"}
         /\ x.call.op # "login" => x.tx.then = "attempt" /\ x.tx.throttle = None
         /\ x.tx.key \in ThrottleKey /\ x.tx.key[1] # "used"
<1>1. /\ Working(x, H, M) /\ x.tx.want = {} /\ Stage(x) = x.tx.then
      /\ x.tx.then \notin {"lock", "upsert", "row", "idle", "done"}
  BY DEF Local, Working, Stage
<1>2. x.call \in CallRecord /\ x.call.op \in {"login", "logout"} \cup Owners
  BY <1>1, CallOps DEF Working
<1>3. x.call.op # "logout"
  BY <1>1 DEF Working, SigningOut
<1>4. CASE x.call.op = "login"
  <2>1. x.tx.then \in {"admit", "check"}
    BY <1>1, <1>4 DEF Working, SigningIn
  <2>2. x.tx.key \in {SourceKey(x.call.source), NameKey(x.call.name)}
    BY <1>1, <1>4, <2>1 DEF Working, SigningIn
  <2>3. x.tx.key \in ThrottleKey /\ x.tx.key[1] # "used"
    BY <1>2, <1>4, <2>2, CallOps, Keys
  <2> QED
    BY <1>1, <1>4, <2>1, <2>3
<1>5. CASE x.call.op \in Owners
  <2>1. x.tx.then = "attempt" /\ x.tx.throttle = None /\ x.tx.key = FactorKey(x.tx.who)
        /\ x.tx.who \in Reviewers
    BY <1>1, <1>5 DEF Working, Owning
  <2>2. x.call.op # "enroll"
    BY <1>1, <2>1 DEF Working, Enrolling
  <2>3. x.call.op # "reinstate"
    BY <1>1, <2>1 DEF Working, Reinstating
  <2>4. x.call.op \notin Revokers
    BY <1>1, <2>1 DEF Working, Revoking, First, Revokers
  <2>5. x.call.op \in {"enable", "verify"}
    BY <1>5, <2>2, <2>3, <2>4 DEF Owners
  <2> QED
    BY <1>1, <2>1, <2>5, Keys
<1> QED
  BY <1>2, <1>3, <1>4, <1>5

\* The upsert finds the row there: it is to be locked (_throttle_row).
LEMMA RowFound ==
  ASSUME NEW x, NEW y, NEW H, NEW M, Local(x, H, M), x.at = "upsert", Same(x, y),
         y.at = "row", y.tx.throttle = x.tx.throttle, x.tx.key \notin DOMAIN x.tx.throttle
  PROVE  Local(y, H, M)
<1>1. /\ Working(x, H, M) /\ x.tx.want = {} /\ Stage(x) = x.tx.then
      /\ x.tx.then \notin {"lock", "upsert", "row", "idle", "done"}
      /\ x.call.op \in {"login", "enable", "verify"}
      /\ x.call.op # "login" => x.tx.then = "attempt" /\ x.tx.throttle = None
  BY AfterARow
<1>2. Stage(y) = Stage(x) /\ Claimed(y, H) = Claimed(x, H) /\ Concerns(y, H) = Concerns(x, H)
  BY <1>1 DEF Stage, Claimed, Concerns, Same
<1>3. x.call.op = "login" => SigningIn(y, H, M)
  <2>1. \A t \in DOMAIN x.tx.sessions : MintedWell(x, H, M, t) => MintedWell(y, H, M, t)
    BY <1>2 DEF MintedWell, Same
  <2>2. \A t : Minted(y, t) <=> Minted(x, t)
    BY DEF Minted, Same
  <2> QED
    BY <1>1, <1>2, <2>1, <2>2 DEF Working, SigningIn, Same
<1>4. x.call.op \in {"enable", "verify"} => Owning(y, H, M) /\ Proving(y, H, M)
  <2> SUFFICES ASSUME x.call.op \in {"enable", "verify"} PROVE Owning(y, H, M) /\ Proving(y, H, M)
    OBVIOUS
  <2>1. Owning(x, H, M) /\ Proving(x, H, M) /\ Stage(x) = "attempt"
    BY <1>1 DEF Working, Owners
  <2>2. Owning(y, H, M)
    <3>1. First(x.call.op) = "secure" /\ x.call.op # "attempt"
      BY DEF First
    <3>2. /\ y.call = x.call /\ y.tx.who = x.tx.who /\ y.tx.key = x.tx.key /\ x.tx.want = {}
          /\ y.tx.want = {} /\ y.tx.then = x.tx.then /\ y.tx.throttle = x.tx.throttle
          /\ y.at = "row" /\ x.at = "upsert"
      BY <1>1 DEF Same
    <3>3. HasAccount(x, H) /\ Exclusive(AuditLock) \notin H
      BY <2>1, <3>1, <3>2 DEF Owning, Recording
    <3>4. HasAccount(y, H)
      BY <3>2, <3>3 DEF HasAccount
    <3> QED
      BY ONLY <1>2, <2>1, <3>1, <3>2, <3>3, <3>4 DEF Owning
  <2>3. Proving(y, H, M)
    BY <1>2, <2>1 DEF Proving, Same, NothingWritten
  <2> QED
    BY <2>2, <2>3
<1>5. ThrottleWritten(y, H, M)
  BY <1>1, <1>2 DEF Working, ThrottleWritten, Same
<1>6. Working(y, H, M)
  BY <1>1, <1>2, <1>3, <1>4, <1>5 DEF Working, Same, Owners, Revokers
<1> QED
  BY <1>1, <1>6 DEF Local, Same

\* A fresh row is one.
LEMMA FreshRow ==
  ASSUME NEW t \in Nat
  PROVE  /\ Fresh(t) \in ThrottleRow /\ Fresh(t) # Gone /\ Fresh(t).updated = t
         /\ Fresh(t).until = 0 /\ Fresh(t).failures = 0
<1>1. Fresh(t) \in ThrottleRow
  BY DEF Fresh, ThrottleRow
<1> QED
  BY <1>1, RowsAreThere DEF Fresh

\* What is put into a table.
LEMMA PutRow ==
  ASSUME NEW f, NEW k, NEW row
  PROVE  /\ DOMAIN Put(f, k, row) = DOMAIN f \cup {k} /\ Put(f, k, row)[k] = row
         /\ \A j \in DOMAIN f : j # k => Put(f, k, row)[j] = f[j]
BY DEF Put

\* The request has the row it is after: one it has inserted, or one committed that it
\* has locked (_throttle_row).
LEMMA RowGot ==
  ASSUME NEW x, NEW y, NEW H, NEW M, RowsTyped(M), Local(x, H, M), x.at \in {"upsert", "row"},
         Same(x, y), y.at = x.tx.then,
         \/ /\ y.tx.throttle = x.tx.throttle
            /\ x.tx.key \in DOMAIN M.throttle \ DOMAIN x.tx.throttle
         \/ /\ y.tx.throttle = Put(x.tx.throttle, x.tx.key, Fresh(M.now))
            /\ x.tx.key \in DOMAIN M.throttle => x.tx.key \in DOMAIN x.tx.throttle
  PROVE  Local(y, H \cup {RowLock(x.tx.key)}, M)
<1> DEFINE key == x.tx.key
<1> DEFINE G == H \cup {RowLock(key)}
<1>1. /\ Working(x, H, M) /\ x.tx.want = {} /\ Stage(x) = x.tx.then
      /\ x.tx.then \notin {"lock", "upsert", "row", "idle", "done"}
      /\ x.call.op \in {"login", "enable", "verify"}
      /\ x.call.op = "login" => x.tx.then \in {"admit", "check"}
      /\ x.call.op # "login" => x.tx.then = "attempt" /\ x.tx.throttle = None
      /\ key \in ThrottleKey /\ key[1] # "used"
  BY AfterARow
<1>2. M.now \in Nat /\ Fresh(M.now) \in ThrottleRow /\ Fresh(M.now) # Gone /\ Fresh(M.now).updated = M.now
  BY FreshRow DEF RowsTyped
<1>3. Stage(y) = Stage(x) /\ Claimed(y, G) = G /\ Claimed(x, H) = H
  BY <1>1 DEF Stage, Claimed, Same
<1>a. /\ y.tx.key = key
      /\ \A k \in DOMAIN y.tx.throttle :
           \/ k \in DOMAIN x.tx.throttle /\ y.tx.throttle[k] = x.tx.throttle[k]
           \/ /\ k = key /\ y.tx.throttle[k] = Fresh(M.now)
              /\ key \in DOMAIN M.throttle => key \in DOMAIN x.tx.throttle
      /\ \/ key \in DOMAIN y.tx.throttle /\ y.tx.throttle[key] # Gone
         \/ key \in DOMAIN M.throttle \ DOMAIN y.tx.throttle
  <2>1. /\ DOMAIN Put(x.tx.throttle, key, Fresh(M.now)) = DOMAIN x.tx.throttle \cup {key}
        /\ Put(x.tx.throttle, key, Fresh(M.now))[key] = Fresh(M.now)
        /\ \A j \in DOMAIN x.tx.throttle :
             j # key => Put(x.tx.throttle, key, Fresh(M.now))[j] = x.tx.throttle[j]
    BY ONLY TRUE DEF Put
  <2>2. y.tx.key = key
    BY DEF Same
  <2>3. CASE y.tx.throttle = x.tx.throttle /\ key \in DOMAIN M.throttle \ DOMAIN x.tx.throttle
    BY ONLY <2>2, <2>3
  <2>4. CASE /\ y.tx.throttle = Put(x.tx.throttle, key, Fresh(M.now))
             /\ key \in DOMAIN M.throttle => key \in DOMAIN x.tx.throttle
    <3> HIDE DEF key
    <3> QED
      BY ONLY <1>2, <2>1, <2>2, <2>4
  <2> QED
    BY <2>3, <2>4
<1>4. HasRow(y, G, M)
  <2>1. RowLock(key) \in G
    OBVIOUS
  <2> HIDE DEF G, key
  <2> QED
    BY ONLY <1>a, <2>1 DEF HasRow
<1>5. ThrottleWritten(y, G, M)
  <2> SUFFICES ASSUME NEW k \in DOMAIN y.tx.throttle
               PROVE  LET row == y.tx.throttle[k]
                      IN  /\ k \in ThrottleKey
                          /\ k[1] # "used" => RowLock(k) \in Claimed(y, G)
                          /\ row = Gone \/ (row \in ThrottleRow /\ row.updated <= M.now)
                          /\ k[1] = "used" =>
                               /\ row = Gone => k[3] + MfaWindow < M.now
                               /\ row # Gone => k[3] <= row.updated + MfaWindow
    BY DEF ThrottleWritten
  <2>1. ThrottleWritten(x, H, M)
    BY <1>1 DEF Working
  <2>2. CASE k \in DOMAIN x.tx.throttle /\ y.tx.throttle[k] = x.tx.throttle[k]
    BY <2>1, <2>2, <1>3 DEF ThrottleWritten
  <2>3. CASE k = key /\ y.tx.throttle[k] = Fresh(M.now)
    <3>1. RowLock(k) \in G
      BY <2>3
    <3>2. Fresh(M.now).updated <= M.now
      BY <1>2
    <3> QED
      BY ONLY <1>1, <1>2, <1>3, <2>3, <3>1, <3>2
  <2>4. \/ k \in DOMAIN x.tx.throttle /\ y.tx.throttle[k] = x.tx.throttle[k]
        \/ k = key /\ y.tx.throttle[k] = Fresh(M.now)
    BY <1>a
  <2> QED
    BY <2>2, <2>3, <2>4
<1> HIDE DEF G
<1>6. H \subseteq G /\ G \subseteq H \cup {RowLock(key)}
  BY DEF G
<1>7. x.call.op = "login" => SigningIn(y, G, M)
  <2> SUFFICES ASSUME x.call.op = "login" PROVE SigningIn(y, G, M)
    OBVIOUS
  <2>0. SigningIn(x, H, M) /\ y.at \in {"admit", "check"} /\ x.tx.then \in {"admit", "check"}
    BY <1>1 DEF Working
  <2>1. \A t \in DOMAIN x.tx.sessions : MintedWell(x, H, M, t) => MintedWell(y, G, M, t)
    BY <1>3, <1>6 DEF MintedWell, Same
  <2>2. \A t : Minted(y, t) <=> Minted(x, t)
    BY DEF Minted, Same
  <2>3. ASSUME NEW k \in DOMAIN y.tx.throttle
        PROVE  /\ RowLock(k) \in G
               /\ k[1] = "login" /\ k \in DOMAIN M.throttle => ~Locked(M.throttle[k], M.now)
    <3>1. \A j \in DOMAIN x.tx.throttle :
            /\ RowLock(j) \in H
            /\ j[1] = "login" /\ j \in DOMAIN M.throttle => ~Locked(M.throttle[j], M.now)
      BY <2>0 DEF SigningIn
    <3>2. k \in DOMAIN x.tx.throttle \/ (k = key /\ (key \in DOMAIN M.throttle => key \in DOMAIN x.tx.throttle))
      BY <1>a
    <3> QED
      BY <1>6, <3>1, <3>2 DEF G
  <2>4. RowLock(key) \in ThrottleLocks
    BY <1>1 DEF ThrottleLocks
  <2>5. Claimed(y, G) \subseteq
          SessionLocks(Tokens) \cup ThrottleLocks \cup {Shared(AccountLock(x.call.name))}
    BY <1>3, <1>6, <2>0, <2>4 DEF SigningIn
  <2> QED
    <3>1. Stage(y) \in {"admit", "check"} /\ Stage(x) = Stage(y)
      BY ONLY <1>1, <1>3, <2>0
    <3>2. /\ y.call = x.call /\ y.tx.who = x.tx.who /\ y.tx.account = x.tx.account
          /\ y.tx.accepted = x.tx.accepted /\ y.tx.sessions = x.tx.sessions
          /\ y.tx.key = x.tx.key
      BY DEF Same
    <3> QED
      BY ONLY <1>4, <1>6, <2>0, <2>1, <2>2, <2>3, <2>5, <3>1, <3>2 DEF SigningIn
<1>8. x.call.op \in {"enable", "verify"} => Owning(y, G, M) /\ Proving(y, G, M)
  <2> SUFFICES ASSUME x.call.op \in {"enable", "verify"} PROVE Owning(y, G, M) /\ Proving(y, G, M)
    OBVIOUS
  <2>1. Owning(x, H, M) /\ Proving(x, H, M) /\ y.at = "attempt" /\ Stage(x) = "attempt"
        /\ x.tx.throttle = None
    BY <1>1 DEF Working, Owners
  <2>2. key = FactorKey(x.tx.who) /\ x.tx.who \in Reviewers
    BY <2>1 DEF Owning
  <2>3. \A k \in DOMAIN y.tx.throttle : k[1] \in {"mfa", "used"} /\ k[2] = x.tx.who
    <3>1. \A k \in DOMAIN y.tx.throttle : k = key
      BY <1>a, <2>1 DEF None
    <3> QED
      BY <2>2, <3>1, Keys
  <2>4. Concerns(y, G) = Concerns(x, H)
    <3>1. \A t : Exclusive(SessionLock(t)) # RowLock(key)
      BY LockNames DEF RowLock
    <3> QED
      BY <1>3, <1>6, <3>1 DEF Concerns, Same
  <2>5. Exclusive(AuditLock) # RowLock(key)
    BY LockNames DEF RowLock
  <2>6. Owning(y, G, M)
    <3>1. First(x.call.op) = "secure" /\ x.call.op # "attempt"
      BY DEF First
    <3>2. /\ y.call = x.call /\ y.tx.who = x.tx.who /\ x.tx.want = {} /\ y.tx.want = {}
          /\ x.at \in {"upsert", "row"} /\ y.at = "attempt" /\ Stage(y) = "attempt"
      BY <1>1, <1>3, <2>1 DEF Same
    <3>3. HasAccount(x, H) /\ Exclusive(AuditLock) \notin H
      BY <2>1, <3>1, <3>2 DEF Owning, Recording
    <3>4. HasAccount(y, G) /\ Exclusive(AuditLock) \notin G
      BY <1>6, <2>5, <3>2, <3>3 DEF HasAccount
    <3>5. /\ \A t \in Concerns(x, H) :
               t \in M.issued /\ (t \in DOMAIN M.sessions => M.sessions[t].by = x.tx.who)
          /\ Claimed(x, H) \subseteq
               {Exclusive(SecurityLock(x.tx.who)), Exclusive(AccountLock(x.tx.who)),
                Exclusive(AuditLock), RowLock(FactorKey(x.tx.who))}
                 \cup SessionLocks(Tokens) \cup SeniorLocks \cup ActorLocks
      BY <2>1 DEF Owning
    <3>6. Claimed(y, G) \subseteq Claimed(x, H) \cup {RowLock(FactorKey(x.tx.who))}
      BY <1>1, <1>6, <2>2, <3>2 DEF Claimed
    <3> QED
      BY ONLY <2>2, <2>3, <2>4, <3>1, <3>2, <3>4, <3>5, <3>6 DEF Owning
  <2>7. Proving(y, G, M)
    BY <1>3, <1>4, <2>1 DEF Proving, Same, NothingWritten
  <2> QED
    BY <2>6, <2>7
<1>9. Working(y, G, M)
  BY <1>1, <1>3, <1>5, <1>7, <1>8 DEF Working, Same, Owners, Revokers
<1> QED
  BY <1>1, <1>9 DEF Local, Same, G

-----------------------------------------------------------------------------
(***************************************************************************)
(* A request x that holds the locks H goes on and becomes y, and holds G.  *)
(***************************************************************************)

\* It says no more than it did of sessions and of throttle rows that are not there: its
\* new sessions are as before, what it touches it touched or is there, and a row it
\* writes anew is one that is there.
Quiet(x, H, y, G, M) ==
  /\ y.call = x.call /\ y.tx.who = x.tx.who
  /\ Mints(y) \subseteq Mints(x)
  /\ Touches(y, G) \subseteq Touches(x, H) \cup DOMAIN M.sessions
  /\ \A key \in ThrottleKey :
       key[1] # "used" /\ RowLock(key) \in H /\ key \notin DOMAIN M.throttle =>
         (key \in DOMAIN y.tx.throttle <=> key \in DOMAIN x.tx.throttle)

\* Where a request is tells of its operation (the statements each executes).
LEMMA AtTells ==
  ASSUME NEW x, NEW H, NEW M, Local(x, H, M), x.at \notin {"idle", "done"}
  PROVE  /\ Working(x, H, M) /\ x.call \in CallRecord
         /\ x.call.op \in {"login", "logout"} \cup Owners
         /\ x.at \in {"purge", "purged", "sweep", "swept", "admit", "check", "read", "hash", "mint"} =>
              x.call.op = "login"
         /\ x.at \in {"sign out", "signed out"} => x.call.op = "logout"
         /\ x.at = "secure" => x.call.op \in Owners \ {"suspend", "reinstate"}
         /\ x.at = "find account" => x.call.op \in {"suspend", "reinstate"}
         /\ x.at \in Owners => x.call.op = x.at
         /\ x.at \in {"attempt", "mark"} => x.call.op \in {"enable", "verify"}
         /\ x.at = "revoke" => x.call.op \in Revokers
         /\ x.at \in {"audit", "record"} =>
              x.call.op \in Revokers \cup {"reinstate"} /\ x.call.op \in OfAdministrator
<1>1. Working(x, H, M) /\ x.call \in CallRecord /\ x.call.op \in {"login", "logout"} \cup Owners
  <2>1. Working(x, H, M)
    BY DEF Local
  <2> QED
    BY <2>1, CallOps DEF Working
<1>2. x.at \notin {"lock", "upsert", "row"} => Stage(x) = x.at
  BY DEF Stage
<1>3. x.call.op = "login" =>
        x.at \in {"lock", "upsert", "row", "purge", "purged", "sweep", "swept", "admit", "check",
                  "read", "hash", "mint", "commit"}
  BY <1>1, <1>2 DEF Working, SigningIn
<1>4. x.call.op = "logout" => x.at \in {"lock", "upsert", "row", "sign out", "signed out", "commit"}
  BY <1>1, <1>2 DEF Working, SigningOut
<1>5. x.call.op = "enroll" => x.at \in {"lock", "upsert", "row", "secure", "enroll", "commit"}
  BY <1>1, <1>2 DEF Working, Enrolling
<1>6. x.call.op \in {"enable", "verify"} =>
        x.at \in {"lock", "upsert", "row", "secure", x.call.op, "attempt", "mark", "commit"}
  BY <1>1, <1>2 DEF Working, Proving
<1>7. x.call.op \in Revokers =>
        x.at \in {"lock", "upsert", "row", First(x.call.op), x.call.op, "revoke", "audit", "record",
                  "commit"}
  BY <1>1, <1>2 DEF Working, Revoking
<1>8. x.call.op = "reinstate" =>
        x.at \in {"lock", "upsert", "row", "find account", "reinstate", "audit", "record", "commit"}
  BY <1>1, <1>2 DEF Working, Reinstating
<1>9. x.call.op \in Owners /\ x.at \in {"audit", "record"} => x.call.op \in OfAdministrator
  BY <1>1, <1>2 DEF Working, Owning
<1> QED
  BY <1>1, <1>3, <1>4, <1>5, <1>6, <1>7, <1>8, <1>9 DEF Owners, Revokers, First

\* A sign-in that is as it should be, is.
LEMMA LoginWorks ==
  ASSUME NEW x, NEW y, NEW H, NEW G, NEW M, Working(x, H, M), x.call.op = "login",
         y.call = x.call, y.tx.time = x.tx.time, y.at = "lock" <=> y.tx.want # {},
         y.at \notin {"idle", "done"}, ThrottleWritten(y, G, M), SigningIn(y, G, M)
  PROVE  Local(y, G, M)
BY DEF Local, Working, SigningIn, Owners, Revokers

\* The sign-in deletes the dead sessions it finds, once it has them, and looks at the
\* throttle rows (login).
LEMMA PurgeMoves ==
  ASSUME NEW x, NEW y, NEW H, NEW M, NEW D, IsRequest(x), RowsTyped(M), Local(x, H, M),
         x.at = "purge", D \subseteq DOMAIN M.sessions,
         Goes(x, y, [x.tx EXCEPT !.found = D],
              IF SessionLocks(D) = {} THEN "purged" ELSE "lock", "purged", SessionLocks(D))
  PROVE  Local(y, H, M) /\ Quiet(x, H, y, H, M)
<1>1. Working(x, H, M) /\ x.call.op = "login" /\ x.call \in CallRecord
  BY AtTells
<1>2. /\ y.call = x.call /\ y.tx.time = x.tx.time /\ y.tx.who = x.tx.who /\ y.tx.found = D
      /\ y.tx.account = x.tx.account /\ y.tx.sessions = x.tx.sessions
      /\ y.tx.throttle = x.tx.throttle /\ y.tx.accepted = x.tx.accepted
      /\ y.tx.want = SessionLocks(D) /\ Stage(y) = "purged"
      /\ y.at = IF SessionLocks(D) = {} THEN "purged" ELSE "lock"
      /\ y.at = "lock" => y.tx.then = "purged"
  BY DEF Goes, IsRequest, HasFields
<1>3. x.tx.want = {} /\ Claimed(x, H) = H /\ Claimed(y, H) = H \cup SessionLocks(D)
      /\ Stage(x) = "purge"
  BY <1>2 DEF Local, Claimed, Stage
<1>4. SigningIn(x, H, M) /\ x.tx.sessions = None /\ x.tx.throttle = None
  BY <1>1, <1>3 DEF Working, SigningIn
<1>5. D \subseteq M.issued /\ SessionLocks(D) \subseteq SessionLocks(Tokens)
  BY DEF RowsTyped, SessionLocks
<1>6. SigningIn(y, H, M)
  BY <1>2, <1>3, <1>4, <1>5 DEF SigningIn, Minted, None
<1>7. ThrottleWritten(y, H, M)
  BY <1>2, <1>4 DEF ThrottleWritten, None
<1>8. Local(y, H, M)
  BY <1>1, <1>2, <1>6, <1>7, LoginWorks
<1>9. Touches(y, H) = {} /\ Mints(y) = {}
  BY <1>1, <1>2, <1>4 DEF Touches, Mints, None
<1> QED
  BY <1>2, <1>8, <1>9 DEF Quiet

LEMMA PurgedMoves ==
  ASSUME NEW x, NEW y, NEW H, NEW M, NEW D, IsRequest(x), RowsTyped(M), Local(x, H, M),
         x.at = "purged", D \subseteq DOMAIN M.sessions,
         Goes(x, y, [x.tx EXCEPT !.sessions = [t \in x.tx.found \cap D |-> Gone]],
              "sweep", "sweep", x.tx.want)
  PROVE  Local(y, H, M) /\ Quiet(x, H, y, H, M)
<1>1. Working(x, H, M) /\ x.call.op = "login" /\ x.call \in CallRecord
  BY AtTells
<1>2. /\ y.call = x.call /\ y.tx.time = x.tx.time /\ y.tx.who = x.tx.who
      /\ y.tx.account = x.tx.account /\ y.tx.sessions = [t \in x.tx.found \cap D |-> Gone]
      /\ y.tx.throttle = x.tx.throttle /\ y.tx.accepted = x.tx.accepted
      /\ y.tx.want = x.tx.want /\ Stage(y) = "sweep" /\ y.at = "sweep"
  BY DEF Goes, IsRequest, HasFields
<1>3. /\ x.tx.want = {} /\ Claimed(x, H) = H /\ Claimed(y, H) = H
      /\ Stage(x) = "purged"
  BY <1>2 DEF Local, Claimed, Stage
<1>4. SigningIn(x, H, M) /\ x.tx.throttle = None
  BY <1>1, <1>3 DEF Working, SigningIn
<1>5. \A t \in DOMAIN y.tx.sessions :
        y.tx.sessions[t] = Gone /\ t \in M.issued /\ Exclusive(SessionLock(t)) \in H
        /\ t \in DOMAIN M.sessions
  BY <1>2, <1>3, <1>4 DEF SigningIn, SessionLocks
<1>6. SigningIn(y, H, M)
  BY <1>2, <1>3, <1>4, <1>5 DEF SigningIn, Minted, None
<1>7. ThrottleWritten(y, H, M)
  BY <1>2, <1>4 DEF ThrottleWritten, None
<1>8. Local(y, H, M)
  BY <1>1, <1>2, <1>3, <1>6, <1>7, LoginWorks
<1>9. Touches(y, H) \subseteq DOMAIN M.sessions /\ Mints(y) = {}
  BY <1>1, <1>2, <1>5 DEF Touches, Mints, Minted
<1> QED
  BY <1>2, <1>8, <1>9 DEF Quiet

\* The stale throttle rows are swept, and the source's is next (login).
LEMMA SweepMoves ==
  ASSUME NEW x, NEW y, NEW H, NEW M, NEW D, IsRequest(x), RowsTyped(M), Local(x, H, M),
         x.at = "sweep", D \subseteq DOMAIN M.throttle,
         Goes(x, y, x.tx, IF {RowLock(key) : key \in D} = {} THEN "swept" ELSE "lock", "swept",
              {RowLock(key) : key \in D})
  PROVE  Local(y, H, M) /\ Quiet(x, H, y, H, M)
<1> DEFINE L == {RowLock(key) : key \in D}
<1>1. Working(x, H, M) /\ x.call.op = "login" /\ x.call \in CallRecord
  BY AtTells
<1>2. /\ y.call = x.call /\ y.tx.time = x.tx.time /\ y.tx.who = x.tx.who
      /\ y.tx.account = x.tx.account /\ y.tx.sessions = x.tx.sessions
      /\ y.tx.throttle = x.tx.throttle /\ y.tx.accepted = x.tx.accepted
      /\ y.tx.want = L /\ Stage(y) = "swept" /\ y.at = IF L = {} THEN "swept" ELSE "lock"
      /\ y.at = "lock" => y.tx.then = "swept"
  BY DEF Goes
<1>3. x.tx.want = {} /\ Claimed(x, H) = H /\ Claimed(y, H) = H \cup L /\ Stage(x) = "sweep"
  BY <1>2 DEF Local, Claimed, Stage
<1>4. SigningIn(x, H, M) /\ x.tx.throttle = None
  BY <1>1, <1>3 DEF Working, SigningIn
<1>5. L \subseteq ThrottleLocks
  BY DEF RowsTyped, ThrottleLocks
<1> HIDE DEF L
<1>6. \A t \in DOMAIN x.tx.sessions :
        ~MintedWell(x, H, M, t) /\ x.tx.sessions[t] = Gone /\ t \in M.issued
        /\ Exclusive(SessionLock(t)) \in H
  BY <1>3, <1>4 DEF SigningIn, MintedWell
<1>7. SigningIn(y, H, M)
  BY <1>2, <1>3, <1>4, <1>5, <1>6 DEF SigningIn, Minted, None
<1>8. ThrottleWritten(y, H, M)
  BY <1>2, <1>4 DEF ThrottleWritten, None
<1>9. Local(y, H, M)
  BY <1>1, <1>2, <1>7, <1>8, LoginWorks
<1>10. Touches(y, H) = Touches(x, H) /\ Mints(y) = Mints(x)
  BY <1>1, <1>2 DEF Touches, Mints, Minted
<1> QED
  BY <1>2, <1>9, <1>10 DEF Quiet

\* A row that is swept is not locked, and a code's cannot be presented any more.
LEMMA SweptMoves ==
  ASSUME NEW x, NEW y, NEW H, NEW M, NEW D, IsRequest(x), RowsTyped(M), CodesRecorded(M),
         Local(x, H, M), x.at = "swept", D \subseteq DOMAIN M.throttle,
         \A key \in D :
           /\ M.throttle[key].updated + StaleWindow < M.now
           /\ M.throttle[key].until = 0 \/ M.throttle[key].until < M.now
           /\ RowLock(key) \in H,
         Goes(x, y, [[x.tx EXCEPT !.throttle = [key \in D |-> Gone]]
                       EXCEPT !.key = SourceKey(x.call.source)],
              "upsert", "admit", x.tx.want)
  PROVE  Local(y, H, M) /\ Quiet(x, H, y, H, M)
<1>1. Working(x, H, M) /\ x.call.op = "login" /\ x.call \in CallRecord
  BY AtTells
<1>2. /\ y.call = x.call /\ y.tx.time = x.tx.time /\ y.tx.who = x.tx.who
      /\ y.tx.account = x.tx.account /\ y.tx.sessions = x.tx.sessions
      /\ y.tx.throttle = [key \in D |-> Gone] /\ y.tx.accepted = x.tx.accepted
      /\ y.tx.want = x.tx.want /\ Stage(y) = "admit" /\ y.at = "upsert" /\ y.tx.then = "admit"
      /\ y.tx.key = SourceKey(x.call.source)
  BY DEF Goes, IsRequest, HasFields
<1>3. x.tx.want = {} /\ Claimed(x, H) = H /\ Claimed(y, H) = H /\ Stage(x) = "swept"
  BY <1>2 DEF Local, Claimed, Stage
<1>4. SigningIn(x, H, M) /\ x.tx.throttle = None
  BY <1>1, <1>3 DEF Working, SigningIn
<1>5. ASSUME NEW key \in D
      PROVE  /\ key \in ThrottleKey /\ RowLock(key) \in H
             /\ ~Locked(M.throttle[key], M.now)
             /\ key[1] = "used" => key[3] + MfaWindow < M.now
  <2>1. key \in ThrottleKey /\ M.throttle[key] \in ThrottleRow /\ M.now \in Nat
    BY DEF RowsTyped
  <2>2. M.throttle[key].updated \in Nat /\ M.throttle[key].until \in Nat
    BY <2>1 DEF ThrottleRow
  <2>3. key[3] \in Nat
    BY <2>1, Numbers DEF ThrottleKey
  <2>4. key[1] = "used" => key[3] <= M.throttle[key].updated + MfaWindow
    BY DEF CodesRecorded
  <2>5. key[1] = "used" => key[3] + MfaWindow < M.now
    BY <2>1, <2>2, <2>3, <2>4, Numbers
  <2>6. ~Locked(M.throttle[key], M.now)
    BY <2>1, <2>2 DEF Locked
  <2> QED
    BY <2>1, <2>5, <2>6
<1>6. \A t \in DOMAIN x.tx.sessions :
        ~MintedWell(x, H, M, t) /\ x.tx.sessions[t] = Gone /\ t \in M.issued
        /\ Exclusive(SessionLock(t)) \in H
  BY <1>3, <1>4 DEF SigningIn, MintedWell
<1>7. SigningIn(y, H, M)
  BY <1>2, <1>3, <1>4, <1>5, <1>6 DEF SigningIn, Minted
<1>8. ThrottleWritten(y, H, M)
  BY <1>2, <1>3, <1>5 DEF ThrottleWritten
<1>9. Local(y, H, M)
  BY <1>1, <1>2, <1>3, <1>7, <1>8, LoginWorks
<1>10. Touches(y, H) = Touches(x, H) /\ Mints(y) = Mints(x)
  BY <1>1, <1>2 DEF Touches, Mints, Minted
<1> QED
  BY <1>2, <1>4, <1>9, <1>10 DEF Quiet, None

\* The row a request looks at, as it sees it, is a row.
SeenRow(x, M) ==
  IF x.tx.key \in DOMAIN x.tx.throttle THEN x.tx.throttle[x.tx.key] ELSE M.throttle[x.tx.key]

LEMMA SeenRowIsOne ==
  ASSUME NEW x, NEW H, NEW M, RowsTyped(M), ThrottleWritten(x, H, M), HasRow(x, H, M)
  PROVE  /\ SeenRow(x, M) \in ThrottleRow /\ SeenRow(x, M).updated <= M.now
         /\ SeenRow(x, M).updated \in Nat /\ SeenRow(x, M).failures \in Nat
         /\ x.tx.key \in DOMAIN x.tx.throttle \/ x.tx.key \in DOMAIN M.throttle
         /\ x.tx.key \in ThrottleKey /\ RowLock(x.tx.key) \in H
<1>1. CASE x.tx.key \in DOMAIN x.tx.throttle
  BY <1>1 DEF ThrottleWritten, HasRow, SeenRow, ThrottleRow
<1>2. CASE x.tx.key \notin DOMAIN x.tx.throttle
  BY <1>2 DEF RowsTyped, HasRow, SeenRow, ThrottleRow
<1> QED
  BY <1>1, <1>2

\* Writing the row it has is quiet, when the row is a row.
LEMMA WritesItsRow ==
  ASSUME NEW x, NEW y, NEW H, NEW M, NEW row, RowsTyped(M), ThrottleWritten(x, H, M),
         HasRow(x, H, M), y.tx.throttle = Put(x.tx.throttle, x.tx.key, row),
         x.tx.key[1] # "used", row = Gone \/ (row \in ThrottleRow /\ row.updated <= M.now),
         H \subseteq Claimed(y, H), Claimed(x, H) = H
  PROVE  /\ ThrottleWritten(y, H, M)
         /\ \A key \in ThrottleKey :
              key[1] # "used" /\ RowLock(key) \in H /\ key \notin DOMAIN M.throttle =>
                (key \in DOMAIN y.tx.throttle <=> key \in DOMAIN x.tx.throttle)
         /\ \A key \in DOMAIN y.tx.throttle : key \in DOMAIN x.tx.throttle \/ key = x.tx.key
<1> DEFINE k == x.tx.key
<1>1. /\ DOMAIN y.tx.throttle = DOMAIN x.tx.throttle \cup {k} /\ y.tx.throttle[k] = row
      /\ \A j \in DOMAIN x.tx.throttle : j # k => y.tx.throttle[j] = x.tx.throttle[j]
  BY DEF Put
<1>2. /\ k \in ThrottleKey /\ RowLock(k) \in H
      /\ k \in DOMAIN x.tx.throttle \/ k \in DOMAIN M.throttle
  BY SeenRowIsOne
<1> HIDE DEF k
<1>3. k[1] # "used"
  BY DEF k
<1>4. ASSUME NEW j \in DOMAIN y.tx.throttle
      PROVE  LET new == y.tx.throttle[j]
             IN  /\ j \in ThrottleKey
                 /\ j[1] # "used" => RowLock(j) \in Claimed(y, H)
                 /\ new = Gone \/ (new \in ThrottleRow /\ new.updated <= M.now)
                 /\ j[1] = "used" =>
                      /\ new = Gone => j[3] + MfaWindow < M.now
                      /\ new # Gone => j[3] <= new.updated + MfaWindow
  <2>1. CASE j = k
    BY <1>1, <1>2, <1>3, <2>1
  <2>2. CASE j # k
    BY <1>1, <1>4, <2>2 DEF ThrottleWritten
  <2> QED
    BY <2>1, <2>2
<1>5. ThrottleWritten(y, H, M)
  BY <1>4 DEF ThrottleWritten
<1>6. x.tx.key = k
  BY DEF k
<1> QED
  BY ONLY <1>1, <1>2, <1>5, <1>6

\* A sign-in that has a throttle row goes on, having written that row or not.
LEMMA LoginGoesOn ==
  ASSUME NEW x, NEW y, NEW H, NEW M, RowsTyped(M), Local(x, H, M),
         x.at \in {"admit", "check", "read", "hash"},
         y.call = x.call, y.tx.time = x.tx.time, y.tx.who = x.tx.who,
         y.tx.account = x.tx.account, y.tx.accepted = x.tx.accepted,
         y.tx.sessions = x.tx.sessions,
         \/ y.tx.throttle = x.tx.throttle
         \/ \E row : /\ y.tx.throttle = Put(x.tx.throttle, x.tx.key, row)
                     /\ row = Gone \/ (row \in ThrottleRow /\ row.updated <= M.now)
                     /\ x.at # "hash" => x.tx.key[1] = "source",
         y.tx.want \subseteq {Shared(AccountLock(x.tx.who))},
         y.at = "lock" <=> y.tx.want # {}, y.at \notin {"idle", "done", "row"},
         Stage(y) \in {"check", "read", "hash", "mint", "commit"},
         y.at = "lock" => Stage(y) = "mint", y.at = "upsert" => Stage(y) = "check",
         Stage(y) # y.at => Stage(y) = y.tx.then,
         Stage(y) \in {"check", "read", "hash"} => y.tx.key = NameKey(x.call.name),
         y.at \in {"check", "read", "hash"} => HasRow(y, H, M),
         y.at \in {"read", "hash"} /\ NameKey(x.call.name) \in DOMAIN M.throttle =>
           ~Locked(M.throttle[NameKey(x.call.name)], M.now),
         Stage(y) = "mint" => x.call.name \in Reviewers /\ Shared(AccountLock(x.call.name)) \in y.tx.want,
         Stage(y) \in {"hash", "mint"} /\ x.call.name \in Reviewers =>
           y.tx.seen.password \in Nat /\ y.tx.seen.password <= M.account[x.call.name].password
  PROVE  Local(y, H, M) /\ Quiet(x, H, y, H, M)
<1>1. Working(x, H, M) /\ x.call.op = "login" /\ x.call \in CallRecord
  BY AtTells
<1>2. x.tx.want = {} /\ Claimed(x, H) = H /\ Stage(x) = x.at
      /\ Claimed(y, H) = H \cup y.tx.want
  BY DEF Local, Claimed, Stage
<1>3. SigningIn(x, H, M) /\ HasRow(x, H, M) /\ ThrottleWritten(x, H, M)
  BY <1>1 DEF Working, SigningIn
<1>4. x.call.name \in Names /\ x.call.source \in Sources
  BY <1>1, CallOps
<1>5. /\ x.tx.key \in ThrottleKey /\ x.tx.key[1] # "used" /\ RowLock(x.tx.key) \in H
      /\ x.at = "hash" => x.tx.key = NameKey(x.call.name)
  <2>1. x.tx.key = SourceKey(x.call.source) \/ x.tx.key = NameKey(x.call.name)
    BY <1>2, <1>3 DEF SigningIn
  <2>2. x.at = "hash" => x.tx.key = NameKey(x.call.name)
    BY <1>2, <1>3 DEF SigningIn
  <2>3. RowLock(x.tx.key) \in H
    BY <1>3 DEF HasRow
  <2> QED
    BY <1>4, <2>1, <2>2, <2>3, Keys
<1>6. /\ ThrottleWritten(y, H, M)
      /\ \A key \in ThrottleKey :
           key[1] # "used" /\ RowLock(key) \in H /\ key \notin DOMAIN M.throttle =>
             (key \in DOMAIN y.tx.throttle <=> key \in DOMAIN x.tx.throttle)
      /\ \A key \in DOMAIN y.tx.throttle :
           \/ key \in DOMAIN x.tx.throttle
           \/ key = x.tx.key /\ (x.at # "hash" => x.tx.key[1] = "source")
  <2>1. CASE y.tx.throttle = x.tx.throttle
    BY <1>2, <1>3, <2>1 DEF ThrottleWritten
  <2>2. ASSUME NEW row, y.tx.throttle = Put(x.tx.throttle, x.tx.key, row),
               row = Gone \/ (row \in ThrottleRow /\ row.updated <= M.now),
               x.at # "hash" => x.tx.key[1] = "source"
        PROVE  <1>6!1 /\ <1>6!2 /\ <1>6!3
    <3>1. H \subseteq Claimed(y, H)
      BY <1>2
    <3> QED
      BY <1>2, <1>3, <1>5, <2>2, <3>1, WritesItsRow
  <2> QED
    BY <2>1, <2>2
<1>7. ASSUME NEW key \in DOMAIN y.tx.throttle
      PROVE  /\ RowLock(key) \in H
             /\ key[1] = "login" /\ key \in DOMAIN M.throttle => ~Locked(M.throttle[key], M.now)
  <2>1. CASE key \in DOMAIN x.tx.throttle
    BY <1>3, <2>1 DEF SigningIn
  <2>2. CASE key = x.tx.key /\ x.at # "hash" /\ x.tx.key[1] = "source"
    BY <1>5, <2>2
  <2>3. CASE key = x.tx.key /\ x.at = "hash"
    BY <1>3, <1>5, <2>3 DEF SigningIn
  <2> QED
    BY <1>6, <1>7, <2>1, <2>2, <2>3
<1>8. \A t \in DOMAIN x.tx.sessions :
        ~MintedWell(x, H, M, t) /\ x.tx.sessions[t] = Gone /\ t \in M.issued
        /\ Exclusive(SessionLock(t)) \in H
  BY <1>2, <1>3 DEF SigningIn, MintedWell
<1>9. Claimed(y, H) \subseteq
        SessionLocks(Tokens) \cup ThrottleLocks \cup {Shared(AccountLock(x.call.name))}
  BY <1>2, <1>3 DEF SigningIn
<1>10. SigningIn(y, H, M)
  <2>1. x.tx.who = x.call.name
    BY <1>3 DEF SigningIn
  <2>2. x.tx.account = None /\ x.tx.accepted = {}
    BY <1>3 DEF SigningIn
  <2>3. /\ \A t \in DOMAIN y.tx.sessions :
             y.tx.sessions[t] = Gone /\ t \in M.issued /\ Exclusive(SessionLock(t)) \in H
        /\ \A t, u \in DOMAIN y.tx.sessions : Minted(y, t) /\ Minted(y, u) => t = u
    BY <1>8 DEF Minted
  <2>4. y.at \in {"check", "read", "hash"} => HasRow(y, H, M)
    OBVIOUS
  <2>5. y.at # "admit"
    BY DEF Stage
  <2>6. Stage(y) = "mint" =>
          x.call.name \in Reviewers /\ Shared(AccountLock(x.call.name)) \in Claimed(y, H)
    BY <1>2
  <2> QED
    BY <1>7, <1>9, <2>1, <2>2, <2>3, <2>4, <2>5, <2>6 DEF SigningIn
<1>11. Local(y, H, M)
  BY <1>1, <1>6, <1>10, LoginWorks
<1>12. Touches(y, H) = Touches(x, H) /\ Mints(y) = Mints(x)
  BY <1>1 DEF Touches, Mints, Minted
<1> QED
  BY <1>6, <1>11, <1>12 DEF Quiet

-----------------------------------------------------------------------------
(***************************************************************************)
(* A request goes on while the committed rows stay as they are.            *)
(***************************************************************************)

\* The sessions that a request touches have been handed out, and who is not a login is
\* the reviewer of those that are there.
LEMMA TouchesBy ==
  ASSUME NEW z, NEW K, NEW M, RowsTyped(M), Local(z, K, M)
  PROVE  /\ Touches(z, K) \subseteq M.issued
         /\ Mints(z) \cap DOMAIN M.sessions = {} /\ Mints(z) \subseteq M.issued
         /\ z.call.op # "login" =>
              \A t \in Touches(z, K) \cap DOMAIN M.sessions : M.sessions[t].by = z.tx.who
<1>1. CASE z.at \in {"idle", "done"}
  <2>0. z.call = [op |-> "none"]
    BY <1>1 DEF Local, Idle
  <2>1. Touches(z, K) = {} /\ Mints(z) = {}
    BY <2>0 DEF Touches, Mints, Owners, Revokers
  <2> QED
    BY <2>1
<1>2. CASE z.at \notin {"idle", "done"}
  <2>1. Working(z, K, M) /\ z.call.op \in {"login", "logout"} \cup Owners
    BY <1>2, AtTells
  <2>2. CASE z.call.op = "login"
    <3>1. SigningIn(z, K, M) /\ Touches(z, K) = DOMAIN z.tx.sessions
      BY <2>1, <2>2 DEF Working, Touches
    <3>2. \A t \in DOMAIN z.tx.sessions :
            /\ t \in M.issued
            /\ Minted(z, t) => t \notin DOMAIN M.sessions
      BY <3>1 DEF SigningIn, MintedWell, Minted
    <3> QED
      BY <2>2, <3>1, <3>2 DEF Mints
  <2>3. CASE z.call.op \in Owners
    BY <2>1, <2>3, TouchesOwn, MintsNothing DEF Working, Owning
  <2>4. CASE z.call.op = "logout"
    <3>1. SigningOut(z, K, M) /\ Touches(z, K) = Concerns(z, K)
      BY <2>1, <2>4, TouchesOwn DEF Working
    <3>2. Concerns(z, K) = {z.call.token}
      <4>1. z.tx.found = {} /\ Claimed(z, K) \subseteq {Exclusive(SessionLock(z.call.token))}
        BY <3>1 DEF SigningOut, SessionLocks
      <4>2. \A t : Exclusive(SessionLock(t)) = Exclusive(SessionLock(z.call.token)) =>
                    t = z.call.token
        BY LockNames
      <4>3. z.call.op \in OfSession
        BY <2>4 DEF OfSession
      <4> QED
        BY <4>1, <4>2, <4>3 DEF Concerns
    <3> QED
      BY <2>4, <3>1, <3>2, MintsNothing DEF SigningOut
  <2> QED
    BY <2>1, <2>2, <2>3, <2>4
<1> QED
  BY <1>1, <1>2

\* Sessions stay apart.
LEMMA SessionsStayApart ==
  ASSUME NEW x, NEW H, NEW y, NEW G, NEW z, NEW K, NEW M, RowsTyped(M),
         Local(x, H, M), Local(y, G, M), Local(z, K, M),
         SessionsApart(x, H, z, K), SessionsApart(z, K, x, H),
         Mints(y) \subseteq Mints(x),
         \A t \in Touches(y, G) :
           \/ t \in DOMAIN M.sessions
           \/ t \in Touches(x, H) /\ y.call = x.call /\ y.tx.who = x.tx.who
  PROVE  SessionsApart(y, G, z, K) /\ SessionsApart(z, K, y, G)
<1>1. Mints(z) \cap DOMAIN M.sessions = {}
  BY TouchesBy
<1>2. Mints(y) \cap Touches(z, K) = {} /\ Mints(z) \cap Touches(y, G) = {}
  BY <1>1 DEF SessionsApart
<1>3. ASSUME "login" \notin {y.call.op, z.call.op}, NEW t \in Touches(y, G) \cap Touches(z, K)
      PROVE  y.tx.who = z.tx.who
  <2>1. CASE t \in DOMAIN M.sessions
    BY <1>3, <2>1, TouchesBy
  <2>2. CASE t \in Touches(x, H) /\ y.call = x.call /\ y.tx.who = x.tx.who
    BY <1>3, <2>2 DEF SessionsApart
  <2> QED
    BY <1>3, <2>1, <2>2
<1> QED
  BY <1>2, <1>3 DEF SessionsApart

\* So do locks, when there is no new one.
LEMMA SameLocks ==
  ASSUME NEW x, NEW H, NEW y, NEW z, NEW K, NEW M, LocksApart(x, H, z, K, M),
         \A key \in ThrottleKey :
           key[1] # "used" /\ RowLock(key) \in H /\ key \notin DOMAIN M.throttle =>
             (key \in DOMAIN y.tx.throttle <=> key \in DOMAIN x.tx.throttle)
  PROVE  LocksApart(y, H, z, K, M)
BY DEF LocksApart

\* So do they when a lock is granted that nobody is in the way of.
LEMMA LockGranted ==
  ASSUME NEW x, NEW H, NEW y, NEW z, NEW K, NEW M, NEW a, LocksApart(x, H, z, K, M),
         \A have \in K : ~Conflicting(have, a), y.tx.throttle = x.tx.throttle
  PROVE  LocksApart(y, H \cup {a}, z, K, M)
<1>1. \A have \in K : ~Conflicting(a, have)
  BY DEF Conflicting
<1>2. \A key : RowLock(key) \in K => RowLock(key) # a
  BY <1>1, LockNames DEF RowLock
<1> QED
  BY <1>1, <1>2 DEF LocksApart

LEMMA LocksApartBothWays ==
  ASSUME NEW x, NEW H, NEW z, NEW K, NEW M, LocksApart(x, H, z, K, M)
  PROVE  LocksApart(z, K, x, H, M)
<1>1. \A a, b : Conflicting(a, b) <=> Conflicting(b, a)
  BY DEF Conflicting
<1>2. ASSUME NEW a \in K, NEW b \in H, Conflicting(a, b)
      PROVE  a.lock[1] = "throttle"
  BY <1>1, <1>2 DEF LocksApart, Conflicting
<1> QED
  BY <1>2 DEF LocksApart

\* Only r goes on.
OnlyFor(r) ==
  /\ req' = [q \in Requests |-> req'[q]] /\ held' = [q \in Requests |-> held'[q]]
  /\ \A q \in Requests \ {r} : req'[q] = req[q] /\ held'[q] = held[q]

\* The rows stay as they are, and what r goes on with is as it should be: so is all.
LEMMA Moves ==
  ASSUME IInv, NEW r \in Requests, OnlyFor(r), UNCHANGED <<scope, now, rows, issued>>,
         IsRequest(req'[r]), Local(req'[r], held'[r], Rows), Hashing',
         \A q \in Requests \ {r} : /\ Apart(req'[r], held'[r], req[q], held[q], Rows)
                                   /\ Apart(req[q], held[q], req'[r], held'[r], Rows)
  PROVE  IInv'
<1>1. Rows' = Rows
  BY DEF Rows, rows
<1>2. Shaped'
  BY DEF IInv, Shaped, OnlyFor
<1>3. RowsTyped(Rows') /\ CodesRecorded(Rows')
  BY <1>1 DEF IInv
<1>4. ScopeTyped'
  BY DEF IInv, ScopeTyped
<1>5. Orderly'
  <2> SUFFICES ASSUME NEW q \in Requests PROVE Local(req'[q], held'[q], Rows')
    BY DEF Orderly
  <2>1. CASE q = r
    BY <1>1, <2>1
  <2>2. CASE q # r
    <3>1. Local(req[q], held[q], Rows)
      BY DEF IInv, Orderly
    <3> QED
      BY <1>1, <2>2, <3>1 DEF OnlyFor
  <2> QED
    BY <2>1, <2>2
<1>6. Together'
  <2> SUFFICES ASSUME NEW p \in Requests, NEW q \in Requests, p # q
               PROVE  Apart(req'[p], held'[p], req'[q], held'[q], Rows')
    BY DEF Together
  <2>1. CASE p = r
    BY <1>1, <2>1 DEF OnlyFor
  <2>2. CASE q = r
    BY <1>1, <2>2 DEF OnlyFor
  <2>3. CASE p # r /\ q # r
    <3>1. Apart(req[p], held[p], req[q], held[q], Rows)
      BY DEF IInv, Together
    <3> QED
      BY <1>1, <2>3, <3>1 DEF OnlyFor
  <2> QED
    BY <2>1, <2>2, <2>3
<1>7. FactorsThere' /\ VerifiedByCurrentFactor'
  BY DEF IInv, FactorsThere, VerifiedByCurrentFactor, Promised!VerifiedByCurrentFactor, PromisedSessions, rows
<1> QED
  BY <1>2, <1>3, <1>4, <1>5, <1>6, <1>7 DEF IInv

\* In particular when it goes on quietly.
LEMMA QuietMoves ==
  ASSUME IInv, NEW r \in Requests, OnlyFor(r), UNCHANGED <<scope, now, rows, issued>>,
         held'[r] = held[r], IsRequest(req'[r]), Local(req'[r], held[r], Rows), Hashing',
         Quiet(req[r], held[r], req'[r], held[r], Rows)
  PROVE  IInv'
<1>1. ASSUME NEW q \in Requests \ {r}
      PROVE  /\ Apart(req'[r], held'[r], req[q], held[q], Rows)
             /\ Apart(req[q], held[q], req'[r], held'[r], Rows)
  <2>1. /\ Apart(req[r], held[r], req[q], held[q], Rows)
        /\ Apart(req[q], held[q], req[r], held[r], Rows)
        /\ Local(req[r], held[r], Rows) /\ Local(req[q], held[q], Rows) /\ RowsTyped(Rows)
    BY DEF IInv, Together, Orderly
  <2> DEFINE x == req[r]
             y == req'[r]
             H == held[r]
             z == req[q]
             K == held[q]
             M == Rows
  <2>2. LocksApart(y, H, z, K, M)
    <3>1. LocksApart(x, H, z, K, M)
      BY <2>1 DEF Apart
    <3>2. \A key \in ThrottleKey :
            key[1] # "used" /\ RowLock(key) \in H /\ key \notin DOMAIN M.throttle =>
              (key \in DOMAIN y.tx.throttle <=> key \in DOMAIN x.tx.throttle)
      BY DEF Quiet
    <3> HIDE DEF x, y, H, z, K, M
    <3> QED
      BY ONLY <3>1, <3>2, SameLocks
  <2>3. SessionsApart(y, H, z, K) /\ SessionsApart(z, K, y, H)
    <3>1. /\ RowsTyped(M) /\ Local(x, H, M) /\ Local(y, H, M) /\ Local(z, K, M)
          /\ SessionsApart(x, H, z, K) /\ SessionsApart(z, K, x, H)
      BY <2>1 DEF Apart
    <3>2. /\ Mints(y) \subseteq Mints(x) /\ y.call = x.call /\ y.tx.who = x.tx.who
          /\ Touches(y, H) \subseteq Touches(x, H) \cup DOMAIN M.sessions
      BY DEF Quiet
    <3> HIDE DEF x, y, H, z, K, M
    <3> QED
      BY ONLY <3>1, <3>2, SessionsStayApart
  <2>4. Apart(y, H, z, K, M) /\ Apart(z, K, y, H, M)
    <3> HIDE DEF x, y, H, z, K, M
    <3> QED
      BY <2>2, <2>3, LocksApartBothWays DEF Apart
  <2> QED
    BY <2>4
<1>2. Local(req'[r], held'[r], Rows)
  OBVIOUS
<1> QED
  BY <1>1, <1>2, Moves

\* What Proceed does.
LEMMA Proceeding ==
  ASSUME IInv, NEW r \in Requests, NEW tx, NEW label, Proceed(r, tx, label)
  PROVE  /\ OnlyFor(r) /\ UNCHANGED <<scope, now, rows, issued>> /\ hashing' = hashing
         /\ held'[r] = held[r] /\ held' = held
         /\ req'[r] = [req[r] EXCEPT !.at = label, !.tx = tx]
         /\ req[r].at # "hash" /\ label # "hash" => Hashing'
<1>1. /\ UNCHANGED <<scope, now, rows, issued>> /\ hashing' = hashing /\ held' = held
      /\ req' = [req EXCEPT ![r].at = label, ![r].tx = tx]
  BY DEF Proceed
<1>2. Shaped /\ Hashing
  BY DEF IInv
<1>3. /\ req'[r] = [req[r] EXCEPT !.at = label, !.tx = tx]
      /\ \A q \in Requests \ {r} : req'[q] = req[q]
      /\ req' = [q \in Requests |-> req'[q]]
  BY <1>1, <1>2 DEF Shaped
<1>4. OnlyFor(r)
  BY <1>1, <1>2, <1>3 DEF OnlyFor, Shaped
<1>5. IsRequest(req[r])
  BY <1>2 DEF Shaped
<1>6. req'[r].at = label
  BY <1>3, <1>5 DEF IsRequest, HasFields
<1>7. req[r].at # "hash" /\ label # "hash" => Hashing'
  BY <1>1, <1>2, <1>3, <1>6 DEF Hashing, At
<1> QED
  BY <1>1, <1>3, <1>4, <1>7

\* On at a label, with locks, or with a throttle row.
LEMMA GoesOn ==
  ASSUME IInv, NEW r \in Requests, NEW tx, HasFields(tx, TxFields), NEW label,
         label \notin {"lock", "upsert", "row"}
  PROVE  /\ Proceed(r, tx, label) => Goes(req[r], req'[r], tx, label, label, tx.want)
         /\ \A want : Acquire(r, tx, want, label) =>
              Goes(req[r], req'[r], tx, IF want = {} THEN label ELSE "lock", label, want)
         /\ \A key : WithRow(r, tx, key, label) =>
              Goes(req[r], req'[r], [tx EXCEPT !.key = key], "upsert", label, tx.want)
<1>1. IsRequest(req[r])
  BY DEF IInv, Shaped
<1>2. ASSUME Proceed(r, tx, label)
      PROVE  Goes(req[r], req'[r], tx, label, label, tx.want)
  <2>1. req'[r] = [req[r] EXCEPT !.at = label, !.tx = tx]
    BY <1>2, Proceeding
  <2> QED
    BY <1>1, <2>1, Proceeded
<1>3. ASSUME NEW want, Acquire(r, tx, want, label)
      PROVE  Goes(req[r], req'[r], tx, IF want = {} THEN label ELSE "lock", label, want)
  <2>1. req'[r] = [req[r] EXCEPT !.at = IF want = {} THEN label ELSE "lock",
                                 !.tx = [tx EXCEPT !.want = want, !.then = label]]
    BY <1>3, Proceeding DEF Acquire
  <2> QED
    BY <1>1, <2>1, Acquired
<1>4. ASSUME NEW key, WithRow(r, tx, key, label)
      PROVE  Goes(req[r], req'[r], [tx EXCEPT !.key = key], "upsert", label, tx.want)
  <2>1. req'[r] = [req[r] EXCEPT !.at = "upsert", !.tx = [tx EXCEPT !.key = key, !.then = label]]
    BY <1>4, Proceeding DEF WithRow
  <2> QED
    BY <1>1, <2>1, Upserting
<1> QED
  BY <1>2, <1>3, <1>4

\* Each of them is quiet when what it goes on with is.
LEMMA QuietlyOn ==
  ASSUME IInv, NEW r \in Requests, NEW tx, NEW label, req[r].at # "hash", label # "hash",
         \/ Proceed(r, tx, label)
         \/ \E want : Acquire(r, tx, want, label)
         \/ \E key : WithRow(r, tx, key, label),
         IsRequest(req'[r]), Local(req'[r], held[r], Rows),
         Quiet(req[r], held[r], req'[r], held[r], Rows)
  PROVE  IInv'
<1>1. \E t, l : Proceed(r, t, l) /\ l # "hash"
  <2>1. CASE Proceed(r, tx, label)
    BY <2>1
  <2>2. ASSUME NEW want, Acquire(r, tx, want, label) PROVE \E t, l : Proceed(r, t, l) /\ l # "hash"
    <3>1. (IF want = {} THEN label ELSE "lock") # "hash"
      OBVIOUS
    <3> QED
      BY <2>2, <3>1 DEF Acquire
  <2>3. ASSUME NEW key, WithRow(r, tx, key, label) PROVE \E t, l : Proceed(r, t, l) /\ l # "hash"
    <3>1. "upsert" # "hash"
      OBVIOUS
    <3> QED
      BY <2>3, <3>1 DEF WithRow
  <2> QED
    BY <2>1, <2>2, <2>3
<1>2. PICK t, l : Proceed(r, t, l) /\ l # "hash"
  BY <1>1
<1>3. /\ OnlyFor(r) /\ UNCHANGED <<scope, now, rows, issued>> /\ held'[r] = held[r] /\ Hashing'
  BY <1>2, Proceeding
<1> QED
  BY <1>3, QuietMoves

\* What is known of a request before its step.
LEMMA Before ==
  ASSUME IInv, NEW r \in Requests
  PROVE  /\ IsRequest(req[r]) /\ HasFields(Tx(r), TxFields)
         /\ Local(req[r], held[r], Rows) /\ RowsTyped(Rows) /\ CodesRecorded(Rows)
         /\ Rows.account = account /\ Rows.sessions = sessions /\ Rows.throttle = throttle
         /\ Rows.accepted = accepted /\ Rows.now = now /\ Rows.issued = issued
BY DEF IInv, Shaped, Orderly, IsRequest, TxFields, Tx, Rows

\* Dead sessions are found and locked, and deleted.
LEMMA PurgeStep ==
  ASSUME IInv, NEW r \in Requests, PurgeDeadSessions(r)
  PROVE  IInv'
<1>1. /\ IsRequest(req[r]) /\ HasFields(Tx(r), TxFields)
      /\ Local(req[r], held[r], Rows) /\ RowsTyped(Rows) /\ Rows.sessions = sessions
  BY Before
<1>2. Dead \subseteq DOMAIN Rows.sessions
  BY <1>1 DEF Dead
<1>3. CASE /\ At(r, "purge")
           /\ Acquire(r, [Tx(r) EXCEPT !.found = Dead],
                      {Exclusive(SessionLock(t)) : t \in Dead}, "purged")
  <2>1. HasFields([Tx(r) EXCEPT !.found = Dead], TxFields)
    BY <1>1, TxChanged
  <2>2. Goes(req[r], req'[r], [Tx(r) EXCEPT !.found = Dead],
             IF SessionLocks(Dead) = {} THEN "purged" ELSE "lock", "purged", SessionLocks(Dead))
    BY <1>3, <2>1, GoesOn DEF SessionLocks
  <2>3. Local(req'[r], held[r], Rows) /\ Quiet(req[r], held[r], req'[r], held[r], Rows)
    BY <1>1, <1>2, <1>3, <2>2, PurgeMoves DEF At, Tx
  <2>4. IsRequest(req'[r])
    BY <2>2 DEF Goes
  <2> QED
    BY <1>3, <2>3, <2>4, QuietlyOn DEF At
<1>4. CASE /\ At(r, "purged")
           /\ Proceed(r, [Tx(r) EXCEPT !.sessions = [t \in Tx(r).found \cap Dead |-> Gone]], "sweep")
  <2> DEFINE tx == [Tx(r) EXCEPT !.sessions = [t \in Tx(r).found \cap Dead |-> Gone]]
  <2>1. HasFields(tx, TxFields) /\ tx.want = Tx(r).want
    BY <1>1, TxChanged DEF HasFields, TxFields
  <2>2. Goes(req[r], req'[r], tx, "sweep", "sweep", Tx(r).want)
    BY <1>4, <2>1, GoesOn
  <2>3. Local(req'[r], held[r], Rows) /\ Quiet(req[r], held[r], req'[r], held[r], Rows)
    BY <1>1, <1>2, <1>4, <2>2, PurgedMoves DEF At, Tx
  <2>4. IsRequest(req'[r])
    BY <2>2 DEF Goes
  <2> QED
    BY <1>4, <2>3, <2>4, QuietlyOn DEF At
<1> QED
  BY <1>3, <1>4 DEF PurgeDeadSessions

\* Stale throttle rows are found and locked, and deleted.
LEMMA SweepStep ==
  ASSUME IInv, NEW r \in Requests, SweepStaleThrottle(r)
  PROVE  IInv'
<1> DEFINE stale == {key \in DOMAIN throttle : Stale(key)}
           D == {k \in stale : Exclusive(ThrottleLock(k)) \in held[r]}
<1>1. /\ IsRequest(req[r]) /\ HasFields(Tx(r), TxFields) /\ CodesRecorded(Rows)
      /\ Local(req[r], held[r], Rows) /\ RowsTyped(Rows) /\ Rows.throttle = throttle
      /\ Rows.now = now
  BY Before
<1>2. CASE /\ At(r, "sweep")
           /\ Acquire(r, Tx(r), {Exclusive(ThrottleLock(key)) : key \in stale}, "swept")
  <2>1. {Exclusive(ThrottleLock(key)) : key \in stale} = {RowLock(key) : key \in stale}
    BY DEF RowLock
  <2>2. Goes(req[r], req'[r], Tx(r),
             IF {RowLock(key) : key \in stale} = {} THEN "swept" ELSE "lock", "swept",
             {RowLock(key) : key \in stale})
    BY <1>1, <1>2, <2>1, GoesOn
  <2>3. stale \subseteq DOMAIN Rows.throttle
    BY <1>1
  <2>4. Local(req'[r], held[r], Rows) /\ Quiet(req[r], held[r], req'[r], held[r], Rows)
    <3> HIDE DEF stale
    <3> QED
      BY <1>1, <1>2, <2>2, <2>3, SweepMoves DEF At, Tx
  <2>5. IsRequest(req'[r])
    BY <2>2 DEF Goes
  <2> QED
    BY <1>2, <2>4, <2>5, QuietlyOn DEF At
<1>3. CASE /\ At(r, "swept")
           /\ WithRow(r, [Tx(r) EXCEPT !.throttle = [key \in D |-> Gone]],
                      SourceKey(Call(r).source), "admit")
  <2> DEFINE tx == [Tx(r) EXCEPT !.throttle = [key \in D |-> Gone]]
  <2>1. HasFields(tx, TxFields) /\ tx.want = Tx(r).want
    BY <1>1, TxChanged DEF HasFields, TxFields
  <2>2. Goes(req[r], req'[r], [tx EXCEPT !.key = SourceKey(Call(r).source)], "upsert", "admit",
             Tx(r).want)
    BY <1>3, <2>1, GoesOn
  <2>3. /\ D \subseteq DOMAIN Rows.throttle
        /\ \A key \in D :
             /\ Rows.throttle[key].updated + StaleWindow < Rows.now
             /\ Rows.throttle[key].until = 0 \/ Rows.throttle[key].until < Rows.now
             /\ RowLock(key) \in held[r]
    BY <1>1 DEF Stale, RowLock
  <2>4. Local(req'[r], held[r], Rows) /\ Quiet(req[r], held[r], req'[r], held[r], Rows)
    <3> HIDE DEF D
    <3> QED
      BY <1>1, <1>3, <2>2, <2>3, SweptMoves DEF At, Tx, Call
  <2>5. IsRequest(req'[r])
    BY <2>2 DEF Goes
  <2> QED
    BY <1>3, <2>4, <2>5, QuietlyOn DEF At
<1> QED
  BY <1>2, <1>3 DEF SweepStaleThrottle

\* What a sign-in that has a row has.
LEMMA WithItsRow ==
  ASSUME IInv, NEW r \in Requests, req[r].at \in {"admit", "check", "read", "hash"}
  PROVE  /\ Local(req[r], held[r], Rows) /\ Working(req[r], held[r], Rows)
         /\ req[r].call.op = "login" /\ req[r].call \in CallRecord /\ Call(r).name \in Names
         /\ Tx(r).want = {} /\ Who(r) = Call(r).name /\ Tx(r).time <= now /\ Tx(r).time \in Nat
         /\ SigningIn(req[r], held[r], Rows) /\ HasRow(req[r], held[r], Rows)
         /\ Tx(r).key = IF req[r].at = "admit" THEN SourceKey(Call(r).source) ELSE NameKey(Call(r).name)
         /\ Row(r, Tx(r).key) = SeenRow(req[r], Rows)
         /\ Row(r, Tx(r).key) \in ThrottleRow /\ Row(r, Tx(r).key).updated <= now
         /\ Tx(r).key[1] = IF req[r].at = "admit" THEN "source" ELSE "login"
<1>1. /\ IsRequest(req[r]) /\ Local(req[r], held[r], Rows) /\ RowsTyped(Rows)
      /\ Rows.throttle = throttle /\ Rows.now = now
  BY Before
<1>2. Working(req[r], held[r], Rows) /\ req[r].call.op = "login" /\ req[r].call \in CallRecord
  BY <1>1, AtTells
<1>3. Call(r).name \in Names /\ Call(r).source \in Sources
  BY <1>2, CallOps DEF Call
<1>4. Tx(r).want = {} /\ Stage(req[r]) = req[r].at
  BY <1>1 DEF Local, Stage, Tx
<1>5. /\ SigningIn(req[r], held[r], Rows) /\ ThrottleWritten(req[r], held[r], Rows)
      /\ Tx(r).time <= now /\ Tx(r).time \in Nat
  BY <1>1, <1>2 DEF Working, Tx
<1>6. HasRow(req[r], held[r], Rows) /\ Who(r) = Call(r).name
  BY <1>5 DEF SigningIn, Who, Tx, Call
<1>7. Tx(r).key = IF req[r].at = "admit" THEN SourceKey(Call(r).source) ELSE NameKey(Call(r).name)
  BY <1>4, <1>5 DEF SigningIn, Tx, Call
<1>8. Row(r, Tx(r).key) = SeenRow(req[r], Rows)
  BY <1>1 DEF Row, SeenRow, Tx
<1>9. SeenRow(req[r], Rows) \in ThrottleRow /\ SeenRow(req[r], Rows).updated <= now
  BY <1>1, <1>5, <1>6, SeenRowIsOne
<1>10. Tx(r).key[1] = IF req[r].at = "admit" THEN "source" ELSE "login"
  BY <1>3, <1>7, Keys
<1> QED
  BY <1>1, <1>2, <1>3, <1>4, <1>5, <1>6, <1>7, <1>8, <1>9, <1>10

\* A sign-in that has its row commits, having written that row or not.
LEMMA LoginCommits ==
  ASSUME IInv, NEW r \in Requests, req[r].at \in {"admit", "check", "read"}, NEW row, NEW tx,
         HasFields(tx, TxFields), tx.want = Tx(r).want, tx.time = Tx(r).time, tx.who = Tx(r).who,
         tx.account = Tx(r).account, tx.accepted = Tx(r).accepted,
         tx.sessions = Tx(r).sessions,
         \/ tx.throttle = Tx(r).throttle
         \/ /\ tx.throttle = Put(Tx(r).throttle, Tx(r).key, row) /\ req[r].at = "admit"
            /\ row \in ThrottleRow /\ row.updated <= now,
         Proceed(r, tx, "commit")
  PROVE  IInv'
<1>1. Goes(req[r], req'[r], tx, "commit", "commit", tx.want)
  BY GoesOn
<1> DEFINE x == req[r]
           y == req'[r]
<1>2. /\ y.call = x.call /\ y.tx.time = x.tx.time /\ y.tx.who = x.tx.who
      /\ y.tx.account = x.tx.account /\ y.tx.accepted = x.tx.accepted
      /\ y.tx.sessions = x.tx.sessions /\ y.at = "commit" /\ Stage(y) = "commit"
      /\ y.tx.throttle = tx.throttle /\ y.tx.want = {} /\ IsRequest(y)
  BY <1>1, WithItsRow DEF Goes, Tx
<1>3. \/ y.tx.throttle = x.tx.throttle
      \/ \E w : /\ y.tx.throttle = Put(x.tx.throttle, x.tx.key, w)
                /\ w = Gone \/ (w \in ThrottleRow /\ w.updated <= Rows.now)
                /\ x.at # "hash" => x.tx.key[1] = "source"
  BY <1>2, WithItsRow, Before DEF Tx
<1>4. x.at \in {"admit", "check", "read", "hash"} /\ Local(x, held[r], Rows) /\ RowsTyped(Rows)
  BY Before
<1>5. Local(y, held[r], Rows) /\ Quiet(x, held[r], y, held[r], Rows)
  <2> HIDE DEF x, y
  <2> QED
    BY ONLY <1>2, <1>3, <1>4, LoginGoesOn
<1> QED
  BY <1>2, <1>5, QuietlyOn

\* The source is admitted or not (_throttle_row, login).
LEMMA AdmitStep ==
  ASSUME IInv, NEW r \in Requests, AdmitSource(r)
  PROVE  IInv'
<1> DEFINE key  == SourceKey(Call(r).source)
           row  == Row(r, key)
           anew == IF Elapsed(row, now) \/ now - row.updated >= SourceWindow THEN Fresh(now)
                   ELSE row
           once == [anew EXCEPT !.failures = @ + 1]
           much == [once EXCEPT !.until = now + Lockout]
<1>1. /\ HasFields(Tx(r), TxFields) /\ RowsTyped(Rows) /\ Rows.now = now /\ now \in Nat
      /\ IsRequest(req[r])
  BY Before DEF RowsTyped
<1>2. req[r].at = "admit"
  BY DEF AdmitSource, At
<1>3. /\ Tx(r).key = key /\ row \in ThrottleRow /\ row.updated <= now /\ Tx(r).want = {}
      /\ key[1] = "source" /\ Call(r).name \in Names
  BY <1>2, WithItsRow
<1>4. once \in ThrottleRow /\ once.updated <= now /\ much \in ThrottleRow /\ much.updated <= now
  <2>1. anew \in ThrottleRow /\ anew.updated <= now
    <3> HIDE DEF row
    <3> QED
      BY <1>1, <1>3, FreshRow
  <2> HIDE DEF anew
  <2>2. once \in ThrottleRow /\ once.updated <= now
    BY <2>1 DEF ThrottleRow
  <2> HIDE DEF once
  <2>3. much \in ThrottleRow /\ much.updated <= now
    BY <1>1, <2>2, Numbers DEF ThrottleRow
  <2> QED
    BY <2>2, <2>3
<1>5. CASE Answer(r, Tx(r), "limited")
  <2> DEFINE tx == [Tx(r) EXCEPT !.reply = "limited"]
  <2>1. /\ HasFields(tx, TxFields) /\ tx.want = Tx(r).want /\ tx.time = Tx(r).time
        /\ tx.who = Tx(r).who /\ tx.account = Tx(r).account /\ tx.accepted = Tx(r).accepted
        /\ tx.sessions = Tx(r).sessions /\ tx.throttle = Tx(r).throttle
    BY <1>1, TxChanged DEF HasFields, TxFields
  <2>2. Proceed(r, tx, "commit")
    BY <1>5 DEF Answer
  <2> HIDE DEF tx
  <2> QED
    BY <1>2, <2>1, <2>2, LoginCommits
<1>6. CASE Answer(r, Write(Tx(r), key, much), "limited")
  <2> DEFINE tx == [Write(Tx(r), key, much) EXCEPT !.reply = "limited"]
  <2> HIDE DEF much, key
  <2>1. /\ HasFields(tx, TxFields) /\ tx.want = Tx(r).want /\ tx.time = Tx(r).time
        /\ tx.who = Tx(r).who /\ tx.account = Tx(r).account /\ tx.accepted = Tx(r).accepted
        /\ tx.sessions = Tx(r).sessions /\ tx.throttle = Put(Tx(r).throttle, key, much)
    BY <1>1, TxChanged DEF HasFields, TxFields, Write
  <2>2. Proceed(r, tx, "commit")
    BY <1>6 DEF Answer
  <2> HIDE DEF tx
  <2> QED
    BY <1>2, <1>3, <1>4, <2>1, <2>2, LoginCommits
<1>7. CASE WithRow(r, Write(Tx(r), key, once), NameKey(Call(r).name), "check")
  <2> DEFINE tx == Write(Tx(r), key, once)
             x  == req[r]
             y  == req'[r]
  <2> HIDE DEF once, key
  <2>1. /\ HasFields(tx, TxFields) /\ tx.want = Tx(r).want /\ tx.time = Tx(r).time
        /\ tx.who = Tx(r).who /\ tx.account = Tx(r).account /\ tx.accepted = Tx(r).accepted
        /\ tx.sessions = Tx(r).sessions /\ tx.throttle = Put(Tx(r).throttle, key, once)
    BY <1>1, TxChanged DEF HasFields, TxFields, Write
  <2> HIDE DEF tx
  <2>2. Goes(x, y, [tx EXCEPT !.key = NameKey(Call(r).name)], "upsert", "check", tx.want)
    BY <1>7, <2>1, GoesOn DEF tx
  <2>3. /\ y.call = x.call /\ y.tx.time = x.tx.time /\ y.tx.who = x.tx.who
        /\ y.tx.account = x.tx.account /\ y.tx.accepted = x.tx.accepted
        /\ y.tx.sessions = x.tx.sessions /\ y.at = "upsert" /\ Stage(y) = "check"
        /\ y.tx.then = "check"
        /\ y.tx.throttle = Put(x.tx.throttle, x.tx.key, once) /\ y.tx.want = {} /\ IsRequest(y)
        /\ y.tx.key = NameKey(x.call.name)
    BY <1>3, <2>1, <2>2 DEF Goes, Tx, Call, HasFields, TxFields
  <2>4. /\ once = Gone \/ (once \in ThrottleRow /\ once.updated <= Rows.now)
        /\ x.at # "hash" => x.tx.key[1] = "source"
    BY <1>1, <1>3, <1>4 DEF Tx
  <2>5. x.at = "admit" /\ Local(x, held[r], Rows) /\ RowsTyped(Rows)
    BY <1>2, Before
  <2>6. Local(y, held[r], Rows) /\ Quiet(x, held[r], y, held[r], Rows)
    <3> HIDE DEF x, y
    <3> QED
      BY ONLY <2>3, <2>4, <2>5, LoginGoesOn
  <2> QED
    BY <1>2, <1>7, <2>3, <2>6, QuietlyOn
<1> QED
  BY <1>5, <1>6, <1>7 DEF AdmitSource

\* The name is not locked when its password is to be verified: its row is the
\* request's own, or was not locked when the request came (login).
LEMMA CheckStep ==
  ASSUME IInv, NEW r \in Requests, CheckName(r)
  PROVE  IInv'
<1> DEFINE x == req[r]
           y == req'[r]
           key == NameKey(Call(r).name)
<1>1. /\ HasFields(Tx(r), TxFields) /\ RowsTyped(Rows) /\ Rows.now = now /\ now \in Nat
      /\ Rows.throttle = throttle /\ IsRequest(req[r]) /\ Local(x, held[r], Rows)
  BY Before DEF RowsTyped
<1>2. x.at = "check"
  BY DEF CheckName, At
<1>3. /\ Tx(r).key = key /\ Tx(r).want = {} /\ Tx(r).time \in Nat /\ Tx(r).time <= now
      /\ SigningIn(x, held[r], Rows) /\ HasRow(x, held[r], Rows)
      /\ x.tx.key = key /\ key[1] = "login"
  BY <1>2, WithItsRow DEF Tx
<1>4. CASE Answer(r, Tx(r), "limited")
  <2> DEFINE tx == [Tx(r) EXCEPT !.reply = "limited"]
  <2>1. /\ HasFields(tx, TxFields) /\ tx.want = Tx(r).want /\ tx.time = Tx(r).time
        /\ tx.who = Tx(r).who /\ tx.account = Tx(r).account /\ tx.accepted = Tx(r).accepted
        /\ tx.sessions = Tx(r).sessions /\ tx.throttle = Tx(r).throttle
    BY <1>1, TxChanged DEF HasFields, TxFields
  <2>2. Proceed(r, tx, "commit")
    BY <1>4 DEF Answer
  <2> HIDE DEF tx
  <2> QED
    BY <1>2, <2>1, <2>2, LoginCommits
<1>5. CASE ~Locked(Row(r, key), Tx(r).time) /\ Proceed(r, Tx(r), "read")
  <2>1. Goes(x, y, Tx(r), "read", "read", {})
    BY <1>1, <1>3, <1>5, GoesOn
  <2>2. /\ y.call = x.call /\ y.tx.time = x.tx.time /\ y.tx.who = x.tx.who
        /\ y.tx.account = x.tx.account /\ y.tx.accepted = x.tx.accepted
        /\ y.tx.sessions = x.tx.sessions /\ y.at = "read" /\ Stage(y) = "read"
        /\ y.tx.throttle = x.tx.throttle /\ y.tx.want = {} /\ IsRequest(y)
        /\ y.tx.key = NameKey(x.call.name)
    BY <1>3, <2>1 DEF Goes, Tx, Call
  <2>3. HasRow(y, held[r], Rows)
    BY <1>3, <2>2 DEF HasRow, Call
  <2>4. key \in DOMAIN throttle => ~Locked(throttle[key], now)
    <3> SUFFICES ASSUME key \in DOMAIN throttle PROVE ~Locked(throttle[key], now)
      OBVIOUS
    <3>1. CASE key \in DOMAIN x.tx.throttle
      BY <1>1, <1>3, <3>1 DEF SigningIn
    <3>2. CASE key \notin DOMAIN x.tx.throttle
      <4>1. ~Locked(throttle[key], Tx(r).time)
        BY <1>5, <3>2 DEF Row, Tx
      <4>2. throttle[key] \in ThrottleRow
        BY <1>1 DEF RowsTyped
      <4> QED
        BY <1>1, <1>3, <4>1, <4>2, UnlockedStays
    <3> QED
      BY <3>1, <3>2
  <2>5. NameKey(x.call.name) \in DOMAIN Rows.throttle =>
          ~Locked(Rows.throttle[NameKey(x.call.name)], Rows.now)
    BY <1>1, <2>4 DEF Call
  <2>6. Local(y, held[r], Rows) /\ Quiet(x, held[r], y, held[r], Rows)
    <3> HIDE DEF x, y
    <3> QED
      BY ONLY <1>1, <1>2, <2>2, <2>3, <2>5, LoginGoesOn
  <2> QED
    BY <1>2, <1>5, <2>2, <2>6, QuietlyOn
<1> QED
  BY <1>4, <1>5 DEF CheckName

\* One request is changed, and its locks.
LEMMA OnlyOne ==
  ASSUME Shaped, NEW r \in Requests, NEW y, NEW G,
         req' = [req EXCEPT ![r] = y], held' = [held EXCEPT ![r] = G] \/ (held' = held /\ G = held[r])
  PROVE  OnlyFor(r) /\ req'[r] = y /\ held'[r] = G
<1>1. req = [q \in Requests |-> req[q]] /\ held = [q \in Requests |-> held[q]]
  BY DEF Shaped
<1>2. /\ req'[r] = y /\ req' = [q \in Requests |-> req'[q]]
      /\ \A q \in Requests \ {r} : req'[q] = req[q]
  BY <1>1
<1>3. /\ held'[r] = G /\ held' = [q \in Requests |-> held'[q]]
      /\ \A q \in Requests \ {r} : held'[q] = held[q]
  BY <1>1
<1> QED
  BY <1>2, <1>3 DEF OnlyFor

\* The account is read, and the password is to be verified (login).
LEMMA ReadStep ==
  ASSUME IInv, NEW r \in Requests, StartHashing(r)
  PROVE  IInv'
<1> DEFINE x == req[r]
           y == req'[r]
           seen == IF Who(r) \in Reviewers THEN account[Who(r)] ELSE None
<1>1. /\ HasFields(Tx(r), TxFields) /\ RowsTyped(Rows) /\ IsRequest(x)
      /\ Local(x, held[r], Rows) /\ Rows.account = account
      /\ Shaped /\ Hashing
  BY Before DEF IInv
<1>2. x.at = "read"
  BY DEF StartHashing, At
<1>3. /\ Tx(r).want = {} /\ Who(r) = x.call.name
      /\ SigningIn(x, held[r], Rows) /\ HasRow(x, held[r], Rows)
      /\ x.tx.key = NameKey(x.call.name)
  BY <1>2, WithItsRow DEF Tx, Call
<1>4. CASE Answer(r, Tx(r), "limited")
  <2> DEFINE tx == [Tx(r) EXCEPT !.reply = "limited"]
  <2>1. /\ HasFields(tx, TxFields) /\ tx.want = Tx(r).want /\ tx.time = Tx(r).time
        /\ tx.who = Tx(r).who /\ tx.account = Tx(r).account /\ tx.accepted = Tx(r).accepted
        /\ tx.sessions = Tx(r).sessions /\ tx.throttle = Tx(r).throttle
    BY <1>1, TxChanged DEF HasFields, TxFields
  <2>2. Proceed(r, tx, "commit")
    BY <1>4 DEF Answer
  <2> HIDE DEF tx
  <2> QED
    BY <1>2, <2>1, <2>2, LoginCommits
<1>5. CASE /\ req' = [req EXCEPT ![r].at = "hash", ![r].tx.seen = seen]
           /\ hashing' = hashing \cup {r}
           /\ UNCHANGED <<scope, now, rows, issued, held>>
  <2> DEFINE w == [x EXCEPT !.at = "hash", !.tx = [x.tx EXCEPT !.seen = seen]]
  <2>1. req' = [req EXCEPT ![r] = w]
    BY <1>1, <1>5 DEF Shaped, IsRequest, HasFields
  <2>2. OnlyFor(r) /\ y = w /\ held'[r] = held[r]
    <3> HIDE DEF w
    <3> QED
      BY <1>1, <1>5, <2>1, OnlyOne
  <2>3. /\ y.call = x.call /\ y.tx.time = x.tx.time /\ y.tx.who = x.tx.who
        /\ y.tx.account = x.tx.account /\ y.tx.accepted = x.tx.accepted
        /\ y.tx.sessions = x.tx.sessions /\ y.at = "hash"
        /\ y.tx.throttle = x.tx.throttle /\ y.tx.want = {} /\ IsRequest(y)
        /\ y.tx.key = NameKey(x.call.name) /\ y.tx.seen = seen
    <3> HIDE DEF seen
    <3> DEFINE tx == [x.tx EXCEPT !.seen = seen]
    <3>1. /\ HasFields(tx, TxFields) /\ tx.time = x.tx.time /\ tx.who = x.tx.who
          /\ tx.account = x.tx.account /\ tx.accepted = x.tx.accepted /\ tx.want = x.tx.want
          /\ tx.sessions = x.tx.sessions /\ tx.throttle = x.tx.throttle /\ tx.key = x.tx.key
          /\ tx.seen = seen
      BY <1>1 DEF HasFields, TxFields, Tx
    <3>a. y = [x EXCEPT !.at = "hash", !.tx = tx]
      BY <2>2
    <3> HIDE DEF tx, x, y
    <3>2. IsRequest(y) /\ y.at = "hash" /\ y.tx = tx /\ y.call = x.call
      BY ONLY <1>1, <3>1, <3>a DEF IsRequest, HasFields, TxFields
    <3>3. x.tx.want = {} /\ x.tx.key = NameKey(x.call.name)
      BY <1>3 DEF Tx, x
    <3> QED
      BY ONLY <3>1, <3>2, <3>3
  <2>4. Stage(y) = "hash" /\ Stage(x) = "read"
    BY <1>2, <2>3 DEF Stage
  <2>5. HasRow(y, held[r], Rows)
    BY <1>3, <2>3 DEF HasRow
  <2>6. /\ NameKey(x.call.name) \in DOMAIN Rows.throttle =>
             ~Locked(Rows.throttle[NameKey(x.call.name)], Rows.now)
        /\ x.call.name \in Reviewers =>
             y.tx.seen.password \in Nat /\ y.tx.seen.password <= Rows.account[x.call.name].password
    <3>1. x.call.name \in Reviewers => account[x.call.name] \in Credential
      BY <1>1 DEF RowsTyped
    <3>2. x.call.name \in Reviewers => account[x.call.name].password \in Nat
      BY <3>1 DEF Credential
    <3> QED
      BY <1>1, <1>2, <1>3, <2>3, <3>2 DEF SigningIn
  <2>7. Local(y, held[r], Rows) /\ Quiet(x, held[r], y, held[r], Rows)
    <3> HIDE DEF x, y
    <3> QED
      BY ONLY <1>1, <1>2, <2>3, <2>4, <2>5, <2>6, LoginGoesOn
  <2>8. Hashing'
    BY <1>1, <1>5, <2>2, <2>3 DEF Hashing, OnlyFor, At
  <2>9. UNCHANGED <<scope, now, rows, issued>>
    BY <1>5
  <2> QED
    BY <2>2, <2>3, <2>7, <2>8, <2>9, QuietMoves
<1> QED
  BY <1>4, <1>5 DEF StartHashing

\* The password has been verified (login).
LEMMA HashStep ==
  ASSUME IInv, NEW r \in Requests, FinishHashing(r)
  PROVE  IInv'
<1> DEFINE x == req[r]
           y == req'[r]
           key == NameKey(Call(r).name)
           failed == Failed(Row(r, key), MaxFailedLogins)
           ok  == [Write(Tx(r), key, Gone) EXCEPT
                     !.want = {Shared(AccountLock(Who(r)))}, !.then = "mint"]
           bad == [Write(Tx(r), key, failed) EXCEPT !.reply = "unauthorized"]
           w == [x EXCEPT !.at = IF PasswordAccepted(r) THEN "lock" ELSE "commit",
                          !.tx = IF PasswordAccepted(r) THEN ok ELSE bad]
<1>1. /\ HasFields(Tx(r), TxFields) /\ RowsTyped(Rows) /\ IsRequest(x) /\ now \in Nat
      /\ Local(x, held[r], Rows) /\ Rows.now = now
      /\ Shaped /\ Hashing
  BY Before DEF IInv, RowsTyped
<1>2. x.at = "hash"
  BY DEF FinishHashing, At
<1>3. /\ Tx(r).want = {} /\ Who(r) = x.call.name /\ Who(r) = Tx(r).who
      /\ SigningIn(x, held[r], Rows) /\ HasRow(x, held[r], Rows)
      /\ x.tx.key = key /\ key = NameKey(x.call.name) /\ Row(r, key) \in ThrottleRow
      /\ Tx(r) = x.tx
  BY <1>2, WithItsRow DEF Tx, Call, Who
<1>4. failed \in ThrottleRow /\ failed.updated <= now
  <2>1. Row(r, key).failures \in Nat
    BY <1>3 DEF ThrottleRow
  <2> QED
    BY <1>1, <2>1, Numbers DEF Failed, ThrottleRow
<1>5. UNCHANGED <<scope, now, rows, issued, held>> /\ hashing' = hashing \ {r}
  BY DEF FinishHashing
<1>6. req' = [req EXCEPT ![r] = w]
  <2> HIDE DEF failed, key
  <2>1. req' = [req EXCEPT ![r].at = IF PasswordAccepted(r) THEN "lock" ELSE "commit",
                           ![r].tx = IF PasswordAccepted(r) THEN ok ELSE bad]
    BY DEF FinishHashing, failed, key
  <2> HIDE DEF ok, bad
  <2> QED
    BY <1>1, <2>1 DEF Shaped
<1>7. OnlyFor(r) /\ y = w /\ held'[r] = held[r]
  <2> HIDE DEF w
  <2> QED
    BY <1>1, <1>5, <1>6, OnlyOne
<1>8. CASE PasswordAccepted(r)
  <2>1. /\ y.call = x.call /\ y.tx.time = x.tx.time /\ y.tx.who = x.tx.who
        /\ y.tx.account = x.tx.account /\ y.tx.accepted = x.tx.accepted
        /\ y.tx.sessions = x.tx.sessions /\ y.at = "lock" /\ y.tx.then = "mint"
        /\ y.tx.throttle = Put(x.tx.throttle, x.tx.key, Gone) /\ IsRequest(y)
        /\ y.tx.want = {Shared(AccountLock(x.tx.who))} /\ y.tx.seen = x.tx.seen
    <3>1. /\ HasFields(ok, TxFields) /\ ok.time = x.tx.time /\ ok.who = x.tx.who
          /\ ok.account = x.tx.account /\ ok.accepted = x.tx.accepted
          /\ ok.want = {Shared(AccountLock(Who(r)))} /\ ok.then = "mint"
          /\ ok.sessions = x.tx.sessions /\ ok.throttle = Put(x.tx.throttle, key, Gone)
          /\ ok.seen = x.tx.seen
      <4> HIDE DEF key
      <4> QED
        BY <1>1, <1>3 DEF HasFields, TxFields, Write
    <3> HIDE DEF ok
    <3>2. y = [x EXCEPT !.at = "lock", !.tx = ok]
      BY <1>7, <1>8
    <3> HIDE DEF x, y
    <3>3. IsRequest(y) /\ y.at = "lock" /\ y.tx = ok /\ y.call = x.call
      BY ONLY <1>1, <3>1, <3>2 DEF IsRequest, HasFields, TxFields
    <3> QED
      BY <1>3, <3>1, <3>3
  <2>2. Stage(y) = "mint" /\ Stage(x) = "hash"
    BY <1>2, <2>1 DEF Stage
  <2>3. /\ x.call.name \in Reviewers /\ x.tx.who = x.call.name
        /\ y.tx.seen.password \in Nat /\ y.tx.seen.password <= Rows.account[x.call.name].password
    BY <1>3, <1>8, <2>1, <2>2 DEF SigningIn, PasswordAccepted
  <2>a. /\ \/ y.tx.throttle = x.tx.throttle
           \/ \E row : /\ y.tx.throttle = Put(x.tx.throttle, x.tx.key, row)
                       /\ row = Gone \/ (row \in ThrottleRow /\ row.updated <= Rows.now)
                       /\ x.at # "hash" => x.tx.key[1] = "source"
        /\ y.at = "lock" <=> y.tx.want # {}
        /\ y.at \notin {"idle", "done", "row", "upsert", "check", "read", "hash"}
        /\ Stage(y) \in {"check", "read", "hash", "mint", "commit"}
        /\ Stage(y) \notin {"check", "read", "hash"}
        /\ y.tx.want # {} /\ Shared(AccountLock(x.call.name)) \in y.tx.want
        /\ y.tx.want \subseteq {Shared(AccountLock(x.tx.who))}
        /\ Stage(y) = y.tx.then
    <3> HIDE DEF x, y
    <3> QED
      BY ONLY <1>2, <2>1, <2>2, <2>3
  <2>4. Local(y, held[r], Rows) /\ Quiet(x, held[r], y, held[r], Rows)
    <3> HIDE DEF x, y
    <3> QED
      BY ONLY <1>1, <1>2, <2>1, <2>2, <2>3, <2>a, LoginGoesOn
  <2>5. Hashing'
    <3>1. OnlyFor(r) /\ req'[r].at = "lock"
      BY <1>7, <2>1
    <3>2. Hashing /\ hashing' = hashing \ {r}
      BY <1>1, <1>5
    <3> QED
      BY ONLY <3>1, <3>2, r \in Requests DEF Hashing, OnlyFor, At
  <2> QED
    BY <1>5, <1>7, <2>1, <2>4, <2>5, QuietMoves
<1>9. CASE ~PasswordAccepted(r)
  <2>1. /\ y.call = x.call /\ y.tx.time = x.tx.time /\ y.tx.who = x.tx.who
        /\ y.tx.account = x.tx.account /\ y.tx.accepted = x.tx.accepted
        /\ y.tx.sessions = x.tx.sessions /\ y.at = "commit"
        /\ y.tx.throttle = Put(x.tx.throttle, x.tx.key, failed) /\ IsRequest(y)
        /\ y.tx.want = {}
    <3>1. /\ HasFields(bad, TxFields) /\ bad.time = x.tx.time /\ bad.who = x.tx.who
          /\ bad.account = x.tx.account /\ bad.accepted = x.tx.accepted
          /\ bad.want = {}
          /\ bad.sessions = x.tx.sessions /\ bad.throttle = Put(x.tx.throttle, key, failed)
      <4> HIDE DEF key, failed
      <4> QED
        BY <1>1, <1>3 DEF HasFields, TxFields, Write
    <3> HIDE DEF bad
    <3>2. y = [x EXCEPT !.at = "commit", !.tx = bad]
      BY <1>7, <1>9
    <3> HIDE DEF x, y
    <3>3. IsRequest(y) /\ y.at = "commit" /\ y.tx = bad /\ y.call = x.call
      BY ONLY <1>1, <3>1, <3>2 DEF IsRequest, HasFields, TxFields
    <3> HIDE DEF failed
    <3> QED
      BY <1>3, <3>1, <3>3
  <2>2. Stage(y) = "commit"
    BY <2>1 DEF Stage
  <2>3. failed = Gone \/ (failed \in ThrottleRow /\ failed.updated <= Rows.now)
    BY <1>1, <1>4
  <2>4. Local(y, held[r], Rows) /\ Quiet(x, held[r], y, held[r], Rows)
    <3> HIDE DEF x, y, failed
    <3> QED
      BY ONLY <1>1, <1>2, <2>1, <2>2, <2>3, LoginGoesOn
  <2>5. Hashing'
    BY <1>1, <1>5, <1>7, <2>1 DEF Hashing, OnlyFor, At
  <2> QED
    BY <1>5, <1>7, <2>1, <2>4, <2>5, QuietMoves
<1> QED
  BY <1>8, <1>9

\* The sessions a request is about that are its reviewer's, in so far as they are there.
Hers(x, H, M) == Concerns(x, H) \cup {t \in DOMAIN M.sessions : M.sessions[t].by = x.tx.who}

\* What is particular to the operation on an account.
Particular(x, H, M) ==
  /\ x.call.op = "enroll"               => Enrolling(x, H, M)
  /\ x.call.op \in {"enable", "verify"} => Proving(x, H, M)
  /\ x.call.op \in Revokers             => Revoking(x, H, M)
  /\ x.call.op = "reinstate"            => Reinstating(x, H, M)

\* An operation on an account that is as it should be, is.
LEMMA OwnerWorks ==
  ASSUME NEW x, NEW y, NEW H, NEW G, NEW M, Working(x, H, M), x.call.op \in Owners,
         y.call = x.call, y.tx.time = x.tx.time, y.at = "lock" <=> y.tx.want # {},
         y.at \notin {"idle", "done"}, Stage(y) \notin {"lock", "upsert", "row", "idle", "done"},
         ThrottleWritten(y, G, M), Owning(y, G, M), Particular(y, G, M)
  PROVE  Local(y, G, M)
<1>1. x.call.op \notin {"login", "logout"}
  BY DEF Owners, Revokers
<1> QED
  BY <1>1 DEF Local, Working, Particular

\* The locks L that an operation asks for once it has the account's row, to get to a
\* stage: those of sessions and of the factor's throttle row, then the chain's, then a
\* share of the administrator's row.
InTurn(x, L, stage) ==
  /\ L \subseteq {Exclusive(AuditLock), RowLock(FactorKey(x.tx.who))} \cup SessionLocks(Tokens)
                  \cup ActorLocks
  /\ Exclusive(AuditLock) \in L => stage = "record" /\ L = {Exclusive(AuditLock)}
  /\ L \cap ActorLocks # {} =>
       stage = "commit" /\ x.call.op \in OfAdministrator /\ L = {Shared(AccountLock(x.call.by))}
  /\ stage \in {"audit", "record"} => x.call.op \in OfAdministrator
  /\ x.at = "record" => L \cap ActorLocks # {}

\* Locks of sessions and of the factor's throttle row are in turn (revoke_reviewer_sessions,
\* reset_reviewer_mfa).
LEMMA RowsInTurn ==
  ASSUME NEW x, NEW L, NEW stage, x.at # "record", stage \notin {"audit", "record"},
         L \subseteq {RowLock(FactorKey(x.tx.who))} \cup SessionLocks(Tokens)
  PROVE  InTurn(x, L, stage)
<1>1. /\ \A t : Exclusive(SessionLock(t)) # Exclusive(AuditLock)
      /\ \A k : RowLock(k) # Exclusive(AuditLock)
      /\ \A t, s : Exclusive(SessionLock(t)) # Shared(AccountLock(s))
      /\ \A k, s : RowLock(k) # Shared(AccountLock(s))
  BY ONLY LockNames DEF RowLock
<1>2. Exclusive(AuditLock) \notin L /\ L \cap ActorLocks = {}
  BY <1>1 DEF SessionLocks, ActorLocks
<1> QED
  BY <1>2 DEF InTurn

\* An operation that has the account's row goes on, and takes its locks in turn.
LEMMA OwnerGoesOn ==
  ASSUME NEW x, NEW y, NEW H, NEW M, RowsTyped(M), Local(x, H, M), x.call.op \in Owners,
         x.at \notin {"lock", "upsert", "row", "idle", "done", "commit", First(x.call.op)},
         y.call = x.call, y.tx.time = x.tx.time, y.tx.who = x.tx.who,
         y.at = "lock" <=> y.tx.want # {}, y.at \notin {"idle", "done"},
         Stage(y) \notin {"lock", "upsert", "row", "idle", "done", First(x.call.op), x.call.op},
         InTurn(x, y.tx.want, Stage(y)),
         \A t : Exclusive(SessionLock(t)) \in y.tx.want => t \in Hers(x, H, M),
         y.tx.found \subseteq Hers(x, H, M),
         \A key \in DOMAIN y.tx.throttle : key[1] \in {"mfa", "used"} /\ key[2] = x.tx.who,
         y.at \in {"upsert", "row"} =>
           y.tx.key = FactorKey(x.tx.who) /\ y.tx.throttle = None /\ y.tx.then = "attempt",
         \A key \in ThrottleKey :
           key[1] # "used" /\ RowLock(key) \in H /\ key \notin DOMAIN M.throttle =>
             (key \in DOMAIN y.tx.throttle <=> key \in DOMAIN x.tx.throttle),
         ThrottleWritten(y, H, M), Particular(y, H, M)
  PROVE  Local(y, H, M) /\ Quiet(x, H, y, H, M)
<1> DEFINE v == x.tx.who
<1>1. Working(x, H, M) /\ Owning(x, H, M)
  BY DEF Local, Working
<1>2. Stage(x) = x.at /\ x.tx.want = {} /\ Claimed(x, H) = H /\ Claimed(y, H) = H \cup y.tx.want
  BY DEF Local, Stage, Claimed
<1>3. HasAccount(x, H) /\ (Exclusive(AuditLock) \in H => x.at = "record")
  BY <1>1, <1>2 DEF Owning, Recording
<1>4. /\ y.tx.want \cap (SeniorLocks \cup {Exclusive(AccountLock(v))}) = {}
      /\ Exclusive(SecurityLock(v)) \notin y.tx.want
  <2>1. /\ \A w : Exclusive(AccountLock(w)) # Exclusive(AuditLock)
        /\ \A w, k : Exclusive(AccountLock(w)) # RowLock(k)
        /\ \A w, t : Exclusive(AccountLock(w)) # Exclusive(SessionLock(t))
        /\ \A w, s : Exclusive(AccountLock(w)) # Shared(AccountLock(s))
        /\ Exclusive(SecurityLock(v)) # Exclusive(AuditLock)
        /\ \A k : Exclusive(SecurityLock(v)) # RowLock(k)
        /\ \A t : Exclusive(SecurityLock(v)) # Exclusive(SessionLock(t))
        /\ \A s : Exclusive(SecurityLock(v)) # Shared(AccountLock(s))
    BY ONLY LockNames DEF RowLock
  <2>2. y.tx.want \subseteq {Exclusive(AuditLock), RowLock(FactorKey(v))} \cup SessionLocks(Tokens)
                             \cup ActorLocks
    BY DEF InTurn
  <2> QED
    BY ONLY <2>1, <2>2 DEF SessionLocks, ActorLocks, SeniorLocks
<1>5. Concerns(y, H) \subseteq Hers(x, H, M)
  BY <1>2 DEF Concerns, Hers
<1>6. v \in Reviewers
  BY <1>1 DEF Owning
<1>7. \A t \in Hers(x, H, M) : t \in M.issued /\ (t \in DOMAIN M.sessions => M.sessions[t].by = v)
  BY <1>1 DEF Owning, RowsTyped, Hers
<1> DEFINE All == {Exclusive(SecurityLock(v)), Exclusive(AccountLock(v)), Exclusive(AuditLock),
                   RowLock(FactorKey(v))} \cup SessionLocks(Tokens) \cup SeniorLocks \cup ActorLocks
<1>8. Claimed(y, H) \subseteq All
  <2>1. H \subseteq All
    BY <1>1, <1>2 DEF Owning
  <2>2. y.tx.want \subseteq All
    BY DEF InTurn
  <2> QED
    BY ONLY <1>2, <2>1, <2>2
<1>9. Owning(y, H, M)
  <2>1. \A t \in Concerns(y, H) :
          t \in M.issued /\ (t \in DOMAIN M.sessions => M.sessions[t].by = y.tx.who)
    BY <1>5, <1>7
  <2>2. HasAccount(y, H) /\ y.tx.who = v /\ y.call = x.call
    BY <1>3 DEF HasAccount
  <2>3. /\ Stage(y) \in {"audit", "record"} => y.call.op \in OfAdministrator
        /\ Exclusive(AuditLock) \in y.tx.want =>
             Stage(y) = "record" /\ y.tx.want = {Exclusive(AuditLock)}
    BY DEF InTurn
  <2>4. y.tx.want \cap ActorLocks # {} => Recording(y)
    BY DEF InTurn, Recording, Stage
  <2>5. Exclusive(AuditLock) \in H => Recording(y)
    BY <1>3, <2>4 DEF InTurn
  <2>6. /\ Stage(y) \notin {First(y.call.op), y.call.op}
        /\ \A key \in DOMAIN y.tx.throttle : key[1] \in {"mfa", "used"} /\ key[2] = y.tx.who
        /\ y.at \in {"upsert", "row"} =>
             y.tx.key = FactorKey(y.tx.who) /\ y.tx.throttle = None /\ y.tx.then = "attempt"
    OBVIOUS
  <2> HIDE DEF v
  <2> QED
    BY ONLY <1>4, <1>6, <1>8, <2>1, <2>2, <2>3, <2>4, <2>5, <2>6 DEF Owning
<1>10. Local(y, H, M)
  BY <1>1, <1>9, OwnerWorks
<1>11. Mints(y) = {} /\ Touches(y, H) \subseteq Touches(x, H) \cup DOMAIN M.sessions
  <2>1. Touches(x, H) = Concerns(x, H)
    BY TouchesOwn
  <2>2. y.call.op \in Owners
    OBVIOUS
  <2>3. Touches(y, H) = Concerns(y, H) /\ y.call.op # "login"
    BY <2>2, TouchesOwn
  <2> QED
    BY <1>5, <2>1, <2>3, MintsNothing DEF Hers
<1> QED
  BY <1>10, <1>11 DEF Quiet

-----------------------------------------------------------------------------
(***************************************************************************)
(* Transactions that are rolled back.                                      *)
(***************************************************************************)

\* What has ended is as it should be (BEGIN ... ROLLBACK).
LEMMA Ended ==
  ASSUME NEW reply, NEW M
  PROVE  LET y == [Idle EXCEPT !.at = "done", !.reply = reply]
         IN  IsRequest(y) /\ Local(y, {}, M) /\ y.at = "done" /\ Mints(y) = {} /\ Touches(y, {}) = {}
<1> DEFINE y == [Idle EXCEPT !.at = "done", !.reply = reply]
<1>1. /\ HasFields(Idle, {"at", "call", "tx", "reply"})
      /\ Idle.call = [op |-> "none"] /\ Idle.tx = NoChanges
  BY DEF Idle, HasFields
<1>2. y.at = "done" /\ y.call = [op |-> "none"] /\ y.tx = NoChanges
  BY <1>1 DEF HasFields
<1>3. HasFields(y, {"at", "call", "tx", "reply"})
  BY <1>1 DEF HasFields
<1> HIDE DEF y
<1>a. y.call.op = "none"
  BY <1>2
<1>4. HasFields(NoChanges, {"time", "seen", "who", "want", "then", "key", "found", "account",
                            "sessions", "throttle", "accepted", "reply"})
  BY DEF HasFields, NoChanges
<1>5. IsRequest(y)
  BY <1>2, <1>3, <1>4 DEF IsRequest
<1>6. Local(y, {}, M)
  <2>1. NoChanges.want = {} /\ Idle.call = [op |-> "none"]
    BY DEF NoChanges, Idle
  <2> QED
    BY <1>2, <2>1 DEF Local
<1>7. Mints(y) = {} /\ Touches(y, {}) = {}
  BY <1>a DEF Mints, Touches, Owners, Revokers
<1> QED
  BY <1>2, <1>5, <1>6, <1>7 DEF y

\* A request ends without a trace.
LEMMA AbortStep ==
  ASSUME IInv, NEW r \in Requests, NEW reply, req[r].at # "hash", Abort(r, reply)
  PROVE  IInv'
<1> DEFINE y == [Idle EXCEPT !.at = "done", !.reply = reply]
<1>1. /\ req' = [req EXCEPT ![r] = y] /\ held' = [held EXCEPT ![r] = {}]
      /\ UNCHANGED <<scope, now, rows, issued>> /\ hashing' = hashing
  BY DEF Abort
<1>2. IsRequest(y) /\ Local(y, {}, Rows) /\ y.at = "done" /\ Mints(y) = {} /\ Touches(y, {}) = {}
  BY Ended
<1> HIDE DEF y
<1>3. OnlyFor(r) /\ req'[r] = y /\ held'[r] = {}
  BY <1>1, OnlyOne DEF IInv
<1>4. Hashing'
  BY <1>1, <1>2, <1>3 DEF IInv, Hashing, OnlyFor, At
<1>5. ASSUME NEW q \in Requests \ {r}
      PROVE  /\ Apart(y, {}, req[q], held[q], Rows)
             /\ Apart(req[q], held[q], y, {}, Rows)
  <2>1. LocksApart(y, {}, req[q], held[q], Rows) /\ LocksApart(req[q], held[q], y, {}, Rows)
    BY DEF LocksApart
  <2>2. SessionsApart(y, {}, req[q], held[q]) /\ SessionsApart(req[q], held[q], y, {})
    BY <1>2 DEF SessionsApart
  <2> QED
    BY <2>1, <2>2 DEF Apart
<1> QED
  BY <1>1, <1>2, <1>3, <1>4, <1>5, Moves

-----------------------------------------------------------------------------
(***************************************************************************)
(* Locks and throttle rows are granted.                                    *)
(***************************************************************************)

\* Nobody holds a lock that is in the way of one without blockers.
LEMMA Unblocked ==
  ASSUME NEW want, NEW r \in Requests, Blockers(want, r) = {}, NEW q \in Requests \ {r}
  PROVE  \A have \in held[q] : ~Conflicting(have, want)
BY DEF Blockers

\* A request gets a lock that nobody is in the way of.
LEMMA Granted ==
  ASSUME IInv, NEW r \in Requests, NEW a, OnlyFor(r), held'[r] = held[r] \cup {a},
         Blockers(a, r) = {}, UNCHANGED <<scope, now, rows, issued>>,
         IsRequest(req'[r]), Local(req'[r], held[r] \cup {a}, Rows), Hashing',
         req'[r].call = req[r].call, req'[r].tx.who = req[r].tx.who,
         req'[r].tx.throttle = req[r].tx.throttle, Mints(req'[r]) = Mints(req[r]),
         Touches(req'[r], held[r] \cup {a}) = Touches(req[r], held[r])
  PROVE  IInv'
<1>1. ASSUME NEW q \in Requests \ {r}
      PROVE  /\ Apart(req'[r], held'[r], req[q], held[q], Rows)
             /\ Apart(req[q], held[q], req'[r], held'[r], Rows)
  <2> DEFINE x == req[r]
             y == req'[r]
             H == held[r]
             z == req[q]
             K == held[q]
             M == Rows
  <2>1. /\ Apart(x, H, z, K, M) /\ Apart(z, K, x, H, M) /\ Local(z, K, M)
        /\ Local(x, H, M) /\ RowsTyped(M)
    BY Before DEF IInv, Together, Orderly
  <2>2. \A have \in K : ~Conflicting(have, a)
    BY Unblocked
  <2>3. /\ y.tx.throttle = x.tx.throttle /\ y.call = x.call /\ y.tx.who = x.tx.who
        /\ Mints(y) = Mints(x) /\ Touches(y, H \cup {a}) = Touches(x, H)
        /\ Local(y, H \cup {a}, M)
    OBVIOUS
  <2> HIDE DEF x, y, H, z, K, M
  <2>4. LocksApart(y, H \cup {a}, z, K, M)
    BY ONLY <2>1, <2>2, <2>3, LockGranted DEF Apart
  <2>5. SessionsApart(y, H \cup {a}, z, K) /\ SessionsApart(z, K, y, H \cup {a})
    BY ONLY <2>1, <2>3, SessionsStayApart DEF Apart
  <2>6. Apart(y, H \cup {a}, z, K, M) /\ Apart(z, K, y, H \cup {a}, M)
    BY ONLY <2>4, <2>5, LocksApartBothWays DEF Apart
  <2> QED
    BY <2>6 DEF x, y, H, z, K, M
<1>2. Local(req'[r], held'[r], Rows)
  OBVIOUS
<1> QED
  BY <1>1, <1>2, Moves

\* A lock is granted (SELECT ... FOR UPDATE).
LEMMA TakeStep ==
  ASSUME IInv, NEW r \in Requests, TakeLock(r)
  PROVE  IInv'
<1> DEFINE x == req[r]
           y == req'[r]
           H == held[r]
<1>1. /\ Shaped /\ Hashing /\ IsRequest(x) /\ Local(x, H, Rows) /\ RowsTyped(Rows)
  BY Before DEF IInv
<1>2. PICK a \in Tx(r).want :
        /\ Blockers(a, r) = {}
        /\ held' = [held EXCEPT ![r] = @ \cup {a}]
        /\ req' = [req EXCEPT
             ![r].tx.want = @ \ {a},
             ![r].at      = IF Tx(r).want = {a} THEN Tx(r).then ELSE "lock"]
  BY DEF TakeLock
<1>3. x.at = "lock" /\ UNCHANGED <<scope, now, rows, issued, hashing>> /\ a \in x.tx.want
  BY <1>2 DEF TakeLock, At, Tx
<1> DEFINE tx == [x.tx EXCEPT !.want = @ \ {a}]
           w  == [x EXCEPT !.tx = tx, !.at = IF x.tx.want = {a} THEN x.tx.then ELSE "lock"]
<1>4. req' = [req EXCEPT ![r] = w] /\ held' = [held EXCEPT ![r] = H \cup {a}]
  BY <1>1, <1>2 DEF Shaped, IsRequest, HasFields, Tx
<1>5. OnlyFor(r) /\ y = w /\ held'[r] = H \cup {a}
  <2> HIDE DEF w
  <2> QED
    BY <1>1, <1>4, OnlyOne
<1>6. Gets(x, y, a)
  <2>1. /\ HasFields(tx, TxFields) /\ tx.time = x.tx.time /\ tx.who = x.tx.who
        /\ tx.account = x.tx.account /\ tx.accepted = x.tx.accepted /\ tx.want = x.tx.want \ {a}
        /\ tx.sessions = x.tx.sessions /\ tx.throttle = x.tx.throttle /\ tx.key = x.tx.key
        /\ tx.seen = x.tx.seen /\ tx.then = x.tx.then /\ tx.found = x.tx.found
    BY <1>1 DEF IsRequest, HasFields, TxFields
  <2> DEFINE at == IF x.tx.want = {a} THEN x.tx.then ELSE "lock"
  <2>2. y = [x EXCEPT !.tx = tx, !.at = at]
    BY <1>5
  <2> HIDE DEF tx, at, x, y
  <2>3. IsRequest(y) /\ y.at = at /\ y.tx = tx /\ y.call = x.call
    BY ONLY <1>1, <2>1, <2>2 DEF IsRequest, HasFields, TxFields
  <2> QED
    BY ONLY <1>3, <2>1, <2>3 DEF Gets, at
<1> HIDE DEF w, tx
<1>7. Local(y, H \cup {a}, Rows)
  BY ONLY <1>1, <1>6, GetsLocal
<1>8. Working(x, H, Rows) /\ Stage(x) \notin {"lock", "upsert", "row"}
  BY <1>1, <1>3 DEF Local, Working
<1>9. Mints(y) = Mints(x) /\ Touches(y, H \cup {a}) = Touches(x, H)
  <2>1. Claimed(y, H \cup {a}) = Claimed(x, H)
    BY ONLY <1>6, <1>8, GetsClaims
  <2>2. /\ y.call = x.call /\ y.tx.sessions = x.tx.sessions /\ y.tx.found = x.tx.found
    BY <1>6 DEF Gets
  <2> HIDE DEF x, y, H
  <2> QED
    BY ONLY <2>1, <2>2 DEF Mints, Minted, Touches, Concerns
<1>10. y.at # "hash"
  <2>1. x.tx.then # "hash"
    <3> SUFFICES ASSUME x.tx.then = "hash" PROVE FALSE
      OBVIOUS
    <3>1. Stage(x) = "hash"
      BY <1>3 DEF Stage
    <3>2. x.call.op \in {"login", "logout"} \cup Owners
      BY <1>1, <1>3, AtTells
    <3>3. x.call.op = "login" => FALSE
      BY <1>3, <1>8, <3>1 DEF Working, SigningIn
    <3>4. x.call.op = "logout" => FALSE
      BY <1>8, <3>1 DEF Working, SigningOut
    <3>5. x.call.op \in {"enroll", "enable", "verify"} => FALSE
      BY <1>8, <3>1 DEF Working, Enrolling, Proving
    <3>6. x.call.op \in Revokers => FALSE
      BY <1>8, <3>1 DEF Working, Revoking, Revokers, First
    <3>7. x.call.op = "reinstate" => FALSE
      BY <1>8, <3>1 DEF Working, Reinstating
    <3> QED
      BY <3>2, <3>3, <3>4, <3>5, <3>6, <3>7 DEF Owners
  <2> QED
    BY <1>6, <2>1 DEF Gets
<1>11. Hashing'
  <2>1. Hashing /\ hashing' = hashing /\ x.at = "lock" /\ y.at # "hash" /\ OnlyFor(r)
    BY <1>1, <1>3, <1>5, <1>10
  <2> QED
    BY ONLY <2>1, r \in Requests DEF Hashing, OnlyFor, At
<1>12. /\ IsRequest(y) /\ y.call = x.call /\ y.tx.who = x.tx.who
       /\ y.tx.throttle = x.tx.throttle
  BY <1>6 DEF Gets
<1>13. UNCHANGED <<scope, now, rows, issued>> /\ Blockers(a, r) = {}
  BY <1>2, <1>3
<1> QED
  BY <1>5, <1>7, <1>9, <1>11, <1>12, <1>13, Granted

\* The throttle row a request is after is there, or another's insert is waited for
\* no more (_throttle_row).
LEMMA UpsertStep ==
  ASSUME IInv, NEW r \in Requests, UpsertThrottleRow(r)
  PROVE  IInv'
<1> DEFINE x == req[r]
           y == req'[r]
           H == held[r]
           M == Rows
           key == Tx(r).key
<1>1. /\ Shaped /\ Hashing /\ IsRequest(x) /\ Local(x, H, M) /\ RowsTyped(M)
      /\ M.now = now /\ M.throttle = throttle
  BY Before DEF IInv
<1>2. x.at = "upsert" /\ Writers(key, r) = {} /\ key = x.tx.key /\ Tx(r) = x.tx
  BY DEF UpsertThrottleRow, At, Tx
<1>3. /\ Working(x, H, M) /\ x.tx.want = {} /\ Stage(x) = x.tx.then
      /\ x.tx.then \notin {"lock", "upsert", "row", "idle", "done"}
      /\ x.call.op \in {"login", "enable", "verify"}
      /\ x.call.op = "login" => x.tx.then \in {"admit", "check"}
      /\ x.call.op # "login" => x.tx.then = "attempt"
      /\ x.tx.key \in ThrottleKey /\ x.tx.key[1] # "used"
  <2> HIDE DEF x, H, M
  <2> QED
    BY ONLY <1>1, <1>2, AfterARow
<1>4. CASE key \in DOMAIN throttle \ DOMAIN Tx(r).throttle /\ Proceed(r, Tx(r), "row")
  <2>1. /\ OnlyFor(r) /\ UNCHANGED <<scope, now, rows, issued>> /\ held'[r] = H /\ Hashing'
        /\ y = [x EXCEPT !.at = "row", !.tx = x.tx]
    <3>1. Proceed(r, Tx(r), "row") /\ req[r].at # "hash" /\ "row" # "hash"
      BY <1>2, <1>4
    <3>2. /\ OnlyFor(r) /\ UNCHANGED <<scope, now, rows, issued>> /\ held'[r] = held[r]
          /\ Hashing' /\ req'[r] = [req[r] EXCEPT !.at = "row", !.tx = Tx(r)]
      BY ONLY IInv, r \in Requests, <3>1, Proceeding
    <3> QED
      BY <1>2, <3>2
  <2>2. Same(x, y) /\ y.at = "row" /\ y.tx = x.tx
    <3> HIDE DEF x, y
    <3> QED
      BY ONLY <1>1, <2>1 DEF Same, IsRequest, HasFields
  <2>3. Local(y, H, M)
    <3>1. x.tx.key \notin DOMAIN x.tx.throttle
      BY <1>2, <1>4
    <3> HIDE DEF x, y, H, M
    <3> QED
      BY ONLY <1>1, <1>2, <2>2, <3>1, RowFound
  <2>4. Quiet(x, H, y, H, M)
    <3> HIDE DEF x, y, H, M
    <3> QED
      BY ONLY <2>2 DEF Same, Quiet, Mints, Minted, Touches, Concerns, Claimed
  <2>5. IsRequest(y)
    BY <2>2 DEF Same
  <2> QED
    BY <2>1, <2>3, <2>4, <2>5, QuietMoves
<1>5. CASE /\ key \notin DOMAIN throttle \ DOMAIN Tx(r).throttle
           /\ req'  = [req EXCEPT ![r].at = Tx(r).then,
                                  ![r].tx = Write(Tx(r), key, Fresh(now))]
           /\ held' = [held EXCEPT ![r] = @ \cup {Exclusive(ThrottleLock(key))}]
           /\ UNCHANGED <<scope, now, rows, issued, hashing>>
  <2> DEFINE tx == Write(x.tx, x.tx.key, Fresh(now))
             w  == [x EXCEPT !.at = x.tx.then, !.tx = tx]
             G  == H \cup {RowLock(x.tx.key)}
  <2>1. req' = [req EXCEPT ![r] = w] /\ held' = [held EXCEPT ![r] = G]
    <3>1. req' = [req EXCEPT ![r].at = x.tx.then, ![r].tx = tx]
      BY <1>2, <1>5
    <3>2. held' = [held EXCEPT ![r] = G]
      BY <1>2, <1>5 DEF RowLock
    <3> HIDE DEF tx
    <3> QED
      BY <1>1, <3>1, <3>2 DEF Shaped
  <2>2. OnlyFor(r) /\ y = w /\ held'[r] = G
    <3> HIDE DEF w, G
    <3> QED
      BY <1>1, <2>1, OnlyOne
  <2>3. /\ HasFields(tx, TxFields) /\ tx.time = x.tx.time /\ tx.who = x.tx.who
        /\ tx.account = x.tx.account /\ tx.accepted = x.tx.accepted /\ tx.want = x.tx.want
        /\ tx.sessions = x.tx.sessions /\ tx.key = x.tx.key
        /\ tx.seen = x.tx.seen /\ tx.then = x.tx.then /\ tx.found = x.tx.found
        /\ tx.throttle = Put(x.tx.throttle, x.tx.key, Fresh(M.now))
    BY <1>1 DEF IsRequest, HasFields, TxFields, Write
  <2> HIDE DEF tx
  <2>4. Same(x, y) /\ y.at = x.tx.then /\ y.tx = tx
    <3>1. y = [x EXCEPT !.at = x.tx.then, !.tx = tx]
      BY <2>2
    <3> HIDE DEF x, y
    <3>2. IsRequest(y) /\ y.at = x.tx.then /\ y.tx = tx /\ y.call = x.call
      BY ONLY <1>1, <2>3, <3>1 DEF IsRequest, HasFields, TxFields
    <3> QED
      BY ONLY <2>3, <3>2 DEF Same
  <2> HIDE DEF w
  <2>5. x.tx.key \in DOMAIN M.throttle => x.tx.key \in DOMAIN x.tx.throttle
    BY <1>1, <1>2, <1>5
  <2>6. y.tx.throttle = Put(x.tx.throttle, x.tx.key, Fresh(M.now))
    BY <2>3, <2>4
  <2>7. Local(y, G, M)
    <3> HIDE DEF x, y, H, M
    <3> QED
      BY ONLY <1>1, <1>2, <2>4, <2>5, <2>6, RowGot DEF G
  <2>8. Hashing'
    <3>1. Hashing /\ hashing' = hashing /\ x.at = "upsert" /\ y.at # "hash" /\ OnlyFor(r)
      BY <1>1, <1>2, <1>3, <1>5, <2>2, <2>4
    <3> QED
      BY ONLY <3>1, r \in Requests DEF Hashing, OnlyFor, At
  <2>9. Mints(y) = Mints(x) /\ Touches(y, G) = Touches(x, H)
    <3>1. \A t : Exclusive(SessionLock(t)) # RowLock(x.tx.key)
      BY LockNames DEF RowLock
    <3> HIDE DEF x, y, H
    <3> QED
      BY ONLY <2>4, <3>1 DEF Same, Mints, Minted, Touches, Concerns, Claimed, G
  <2>10. ASSUME NEW q \in Requests \ {r}
         PROVE  /\ Apart(y, G, req[q], held[q], Rows)
                /\ Apart(req[q], held[q], y, G, Rows)
    <3> DEFINE z == req[q]
               K == held[q]
    <3>1. Apart(x, H, z, K, M) /\ Apart(z, K, x, H, M) /\ Local(z, K, M)
      BY Before DEF IInv, Together, Orderly
    <3>2. x.tx.key \notin DOMAIN z.tx.throttle
      BY <1>2 DEF Writers, Tx
    <3>3. DOMAIN y.tx.throttle = DOMAIN x.tx.throttle \cup {x.tx.key}
      BY <2>6 DEF Put
    <3>4. x.tx.key \in DOMAIN M.throttle => G = H
      <4> SUFFICES ASSUME x.tx.key \in DOMAIN M.throttle PROVE RowLock(x.tx.key) \in H
        OBVIOUS
      <4>1. RowLock(x.tx.key) \in Claimed(x, H)
        BY <1>3, <2>5 DEF Working, ThrottleWritten
      <4> QED
        BY <1>3, <4>1 DEF Claimed
    <3>5. \A k : RowLock(k) = RowLock(x.tx.key) => k = x.tx.key
      BY LockNames DEF RowLock
    <3>6. RowLock(x.tx.key).lock[1] = "throttle"
      BY LockNames DEF RowLock
    <3> HIDE DEF x, y, H, z, K, M
    <3>7. LocksApart(y, G, z, K, M)
      <4>1. LocksApart(x, H, z, K, M)
        BY <3>1 DEF Apart
      <4>2. \A a \in G, b \in K : Conflicting(a, b) => a.lock[1] = "throttle"
        BY <3>6, <4>1 DEF LocksApart, G
      <4>3. ASSUME NEW k \in ThrottleKey, k[1] # "used", RowLock(k) \in G, RowLock(k) \in K
            PROVE  /\ k \notin DOMAIN M.throttle
                   /\ k \in DOMAIN y.tx.throttle <=> k \notin DOMAIN z.tx.throttle
        <5>1. CASE k = x.tx.key
          <6>1. x.tx.key \in DOMAIN M.throttle => FALSE
            BY <3>4, <4>1, <4>3, <5>1 DEF LocksApart
          <6> QED
            BY <3>2, <3>3, <5>1, <6>1
        <5>2. CASE k # x.tx.key
          <6>1. RowLock(k) \in H
            BY <3>5, <4>3, <5>2 DEF G
          <6> QED
            BY <3>3, <4>1, <4>3, <5>2, <6>1 DEF LocksApart
        <5> QED
          BY <5>1, <5>2
      <4> QED
        BY <4>2, <4>3 DEF LocksApart
    <3>8. RowsTyped(M) /\ Local(x, H, M) /\ y.call = x.call /\ y.tx.who = x.tx.who
      BY ONLY <1>1, <2>4 DEF Same
    <3>9. SessionsApart(y, G, z, K) /\ SessionsApart(z, K, y, G)
      <4> HIDE DEF G
      <4> QED
        BY ONLY <2>7, <2>9, <3>1, <3>8, SessionsStayApart DEF Apart
    <3> QED
      BY <3>7, <3>9, LocksApartBothWays DEF Apart, z, K, M
  <2>11. IsRequest(y)
    BY <2>4 DEF Same
  <2>12. UNCHANGED <<scope, now, rows, issued>>
    BY <1>5
  <2> HIDE DEF G
  <2> QED
    BY <2>2, <2>7, <2>8, <2>10, <2>11, <2>12, Moves
<1> QED
  BY <1>4, <1>5 DEF UpsertThrottleRow

\* The row is locked, or gone while its lock was waited for (_throttle_row).
LEMMA RowStep ==
  ASSUME IInv, NEW r \in Requests, LockThrottleRow(r)
  PROVE  IInv'
<1> DEFINE x == req[r]
           y == req'[r]
           H == held[r]
           M == Rows
           a == RowLock(x.tx.key)
<1>1. /\ Shaped /\ Hashing /\ IsRequest(x) /\ Local(x, H, M) /\ RowsTyped(M)
      /\ M.throttle = throttle
  BY Before DEF IInv
<1>2. x.at = "row" /\ Tx(r) = x.tx /\ a = Exclusive(ThrottleLock(Tx(r).key))
  BY DEF LockThrottleRow, At, Tx, RowLock
<1>3. /\ Working(x, H, M) /\ x.tx.want = {} /\ Stage(x) = x.tx.then
      /\ x.tx.then \notin {"lock", "upsert", "row", "idle", "done"}
      /\ x.call.op \in {"login", "enable", "verify"}
      /\ x.call.op = "login" => x.tx.then \in {"admit", "check"}
      /\ x.call.op # "login" => x.tx.then = "attempt" /\ x.tx.throttle = None
  <2> HIDE DEF x, H, M
  <2> QED
    BY ONLY <1>1, <1>2, AfterARow
<1>4. x.tx.key \notin DOMAIN x.tx.throttle
  BY <1>2, <1>3 DEF Working, SigningIn, None
<1>5. CASE Abort(r, "no row")
  BY <1>2, <1>5, AbortStep
<1>6. CASE /\ Blockers(a, r) = {} /\ x.tx.key \in DOMAIN throttle
           /\ req'  = [req EXCEPT ![r].at = x.tx.then]
           /\ held' = [held EXCEPT ![r] = @ \cup {a}]
           /\ UNCHANGED <<scope, now, rows, issued, hashing>>
  <2> DEFINE w == [x EXCEPT !.at = x.tx.then]
  <2>1. req' = [req EXCEPT ![r] = w] /\ held' = [held EXCEPT ![r] = H \cup {a}]
    BY <1>1, <1>6 DEF Shaped
  <2>2. OnlyFor(r) /\ y = w /\ held'[r] = H \cup {a}
    <3> HIDE DEF w, a
    <3> QED
      BY <1>1, <2>1, OnlyOne
  <2>3. Same(x, y) /\ y.at = x.tx.then /\ y.tx = x.tx
    <3>1. y = [x EXCEPT !.at = x.tx.then]
      BY <2>2
    <3> HIDE DEF x, y
    <3> QED
      BY ONLY <1>1, <3>1 DEF Same, IsRequest, HasFields
  <2> HIDE DEF w
  <2>4. Local(y, H \cup {a}, M)
    <3>1. x.tx.key \in DOMAIN M.throttle \ DOMAIN x.tx.throttle
      BY <1>1, <1>4, <1>6
    <3> HIDE DEF x, y, H, M
    <3> QED
      BY ONLY <1>1, <1>2, <2>3, <3>1, RowGot DEF a
  <2>5. Hashing'
    <3>1. Hashing /\ hashing' = hashing /\ x.at = "row" /\ y.at # "hash" /\ OnlyFor(r)
      BY <1>1, <1>2, <1>3, <1>6, <2>2, <2>3
    <3> QED
      BY ONLY <3>1, r \in Requests DEF Hashing, OnlyFor, At
  <2>6. Mints(y) = Mints(x) /\ Touches(y, H \cup {a}) = Touches(x, H)
    <3>1. \A t : Exclusive(SessionLock(t)) # RowLock(x.tx.key)
      BY LockNames DEF RowLock
    <3> HIDE DEF x, y, H
    <3> QED
      BY ONLY <2>3, <3>1 DEF Same, Mints, Minted, Touches, Concerns, Claimed, a
  <2>7. /\ IsRequest(y) /\ y.call = x.call /\ y.tx.who = x.tx.who
        /\ y.tx.throttle = x.tx.throttle
    BY <2>3 DEF Same
  <2>8. UNCHANGED <<scope, now, rows, issued>> /\ Blockers(a, r) = {}
    BY <1>6
  <2> HIDE DEF a
  <2> QED
    BY <2>2, <2>4, <2>5, <2>6, <2>7, <2>8, Granted
<1> QED
  BY <1>2, <1>5, <1>6 DEF LockThrottleRow

\* The advisory lock is there for the asking or not at all; the account's row is
\* waited for (lock_reviewer_security).
LEMMA SecureStep ==
  ASSUME IInv, NEW r \in Requests, LockReviewerSecurity(r)
  PROVE  IInv'
<1> DEFINE x == req[r]
           y == req'[r]
           H == held[r]
           M == Rows
           v == x.tx.who
           a == Exclusive(SecurityLock(v))
           L == {Exclusive(AccountLock(v))}
<1>1. /\ Shaped /\ Hashing /\ IsRequest(x) /\ Local(x, H, M) /\ RowsTyped(M)
  BY Before DEF IInv
<1>2. x.at = "secure" /\ Who(r) = v
  BY DEF LockReviewerSecurity, At, Who, Tx
<1>3. /\ Working(x, H, M) /\ x.call.op \in Owners \ {"suspend", "reinstate"}
      /\ Owning(x, H, M) /\ First(x.call.op) = "secure" /\ x.tx.want = {} /\ Stage(x) = "secure"
  <2>1. Working(x, H, M) /\ x.call.op \in Owners \ {"suspend", "reinstate"}
    BY <1>1, <1>2, AtTells
  <2> QED
    BY <1>1, <1>2, <2>1 DEF Working, First, Stage, Local
<1>4. H = {} /\ x.tx.throttle = None /\ NothingWritten(x)
  BY <1>3 DEF Owning, Claimed
<1>5. CASE Abort(r, "conflict")
  BY <1>2, <1>5, AbortStep
<1>6. CASE /\ Blockers(a, r) = {}
           /\ held' = [held EXCEPT ![r] = @ \cup {a}]
           /\ req'  = [req EXCEPT
                ![r].at      = IF AccountRow(v) = {} THEN Call(r).op ELSE "lock",
                ![r].tx.want = AccountRow(v), ![r].tx.then = Call(r).op]
           /\ UNCHANGED <<scope, now, rows, issued, hashing>>
  <2> DEFINE tx == [x.tx EXCEPT !.want = L, !.then = x.call.op]
             w  == [x EXCEPT !.at = "lock", !.tx = tx]
  <2>1. req' = [req EXCEPT ![r] = w] /\ held' = [held EXCEPT ![r] = H \cup {a}]
    <3>1. AccountRow(v) = L /\ L # {} /\ Call(r).op = x.call.op
      BY DEF AccountRow, Call
    <3>2. held' = [held EXCEPT ![r] = H \cup {a}]
      BY <1>6
    <3>3. req'  = [req EXCEPT ![r].at = "lock", ![r].tx.want = L, ![r].tx.then = x.call.op]
      BY <1>6, <3>1
    <3> HIDE DEF L, a
    <3> QED
      BY <1>1, <3>2, <3>3 DEF Shaped, IsRequest, HasFields
  <2>2. OnlyFor(r) /\ y = w /\ held'[r] = H \cup {a}
    <3> HIDE DEF w, a
    <3> QED
      BY <1>1, <2>1, OnlyOne
  <2>3. /\ HasFields(tx, TxFields) /\ tx.time = x.tx.time /\ tx.who = x.tx.who
        /\ tx.account = x.tx.account /\ tx.accepted = x.tx.accepted /\ tx.want = L
        /\ tx.sessions = x.tx.sessions /\ tx.key = x.tx.key
        /\ tx.then = x.call.op /\ tx.found = x.tx.found /\ tx.throttle = x.tx.throttle
    <3> HIDE DEF L
    <3> QED
      BY <1>1 DEF IsRequest, HasFields, TxFields
  <2> HIDE DEF tx
  <2>4. IsRequest(y) /\ y.at = "lock" /\ y.tx = tx /\ y.call = x.call
    <3>1. y = [x EXCEPT !.at = "lock", !.tx = tx]
      BY <2>2
    <3> HIDE DEF x, y
    <3> QED
      BY ONLY <1>1, <2>3, <3>1 DEF IsRequest, HasFields, TxFields
  <2> HIDE DEF w
  <2>5. Stage(y) = x.call.op /\ x.call.op \notin {"lock", "upsert", "row", "idle", "done", "secure"}
    BY <1>3, <2>3, <2>4 DEF Stage, Owners, Revokers
  <2>6. Concerns(y, {a}) = Concerns(x, {}) /\ Claimed(y, {a}) = {a} \cup L
    <3>1. \A t : Exclusive(SessionLock(t)) \notin {a} \cup L
      BY LockNames
    <3> HIDE DEF L, a
    <3> QED
      BY <1>3, <2>3, <2>4, <3>1 DEF Concerns, Claimed
  <2>7. Owning(y, {a}, M)
    <3>1. y.tx.who = v /\ y.tx.want = L /\ y.tx.throttle = None /\ NothingWritten(y)
      BY <1>4, <2>3, <2>4 DEF NothingWritten
    <3>2. /\ Exclusive(AuditLock) \notin {a} \cup L /\ Exclusive(SecurityLock(v)) \notin L
          /\ L \cap ActorLocks = {}
      BY LockNames DEF ActorLocks
    <3>3. \A t \in Concerns(y, {a}) :
            t \in M.issued /\ (t \in DOMAIN M.sessions => M.sessions[t].by = v)
      BY <1>3, <1>4, <2>6 DEF Owning
    <3>4. /\ v \in Reviewers /\ DOMAIN y.tx.throttle = {} /\ y.at = "lock" /\ y.call = x.call
          /\ Stage(y) = y.call.op /\ First(y.call.op) = "secure" /\ y.call.op # "secure"
          /\ Stage(y) \notin {"audit", "record"}
      BY <1>3, <2>4, <2>5, <3>1 DEF Owning, None, Owners, Revokers
    <3> QED
      BY ONLY <2>6, <3>1, <3>2, <3>3, <3>4 DEF Owning
  <2>8. Particular(y, {a}, M)
    <3> HIDE DEF a, L
    <3> QED
      BY <1>3, <2>4, <2>5 DEF Particular, Enrolling, Proving, Revoking, Reinstating, Revokers,
                              Owners, First
  <2>9. ThrottleWritten(y, {a}, M)
    BY <1>4, <2>3, <2>4 DEF ThrottleWritten, None
  <2>10. Local(y, {a}, M)
    <3>1. /\ y.call = x.call /\ y.tx.time = x.tx.time /\ y.at = "lock" /\ y.tx.want # {}
      BY <2>3, <2>4
    <3> HIDE DEF x, y, H, M, a
    <3> QED
      BY ONLY <1>3, <2>5, <2>7, <2>8, <2>9, <3>1, OwnerWorks
  <2>11. Hashing'
    <3>1. Hashing /\ hashing' = hashing /\ x.at = "secure" /\ y.at # "hash" /\ OnlyFor(r)
      BY <1>1, <1>2, <1>6, <2>2, <2>4
    <3> QED
      BY ONLY <3>1, r \in Requests DEF Hashing, OnlyFor, At
  <2>12. Mints(y) = Mints(x) /\ Touches(y, H \cup {a}) = Touches(x, H)
    <3>1. /\ x.call.op \in Owners /\ y.call.op \in Owners
      BY <1>3, <2>4
    <3>2. Touches(y, {a}) = Concerns(y, {a}) /\ Touches(x, {}) = Concerns(x, {}) /\ x.call.op # "login"
      BY ONLY <3>1, TouchesOwn
    <3> QED
      BY <1>4, <2>4, <2>6, <3>2, MintsNothing
  <2>13. /\ y.call = x.call /\ y.tx.who = x.tx.who /\ y.tx.throttle = x.tx.throttle
    BY <2>3, <2>4
  <2>14. UNCHANGED <<scope, now, rows, issued>> /\ Blockers(a, r) = {} /\ H \cup {a} = {a}
    BY <1>4, <1>6
  <2> HIDE DEF a
  <2> QED
    BY <2>2, <2>4, <2>10, <2>11, <2>12, <2>13, <2>14, Granted
<1> QED
  BY <1>2, <1>5, <1>6 DEF LockReviewerSecurity

-----------------------------------------------------------------------------
(***************************************************************************)
(* Time passes, a token is handed out, a request comes.                    *)
(***************************************************************************)

\* When the time goes on and tokens are handed out, and no row changes, nobody is harmed.
LEMMA OnlyTime ==
  ASSUME NEW z, NEW K, NEW M, NEW N, RowsTyped(M), Local(z, K, M),
         N.account = M.account, N.sessions = M.sessions, N.throttle = M.throttle,
         N.accepted = M.accepted, N.now \in Nat, M.now <= N.now, M.issued \subseteq N.issued
  PROVE  Local(z, K, N)
<1>1. Grown(M, N)
  <2>1. \A v \in Reviewers : M.account[v].password \in Nat
    BY DEF RowsTyped, Credential
  <2> QED
    BY <2>1 DEF Grown, RowsTyped
<1>2. Guarded(K, M, N)
  BY DEF Guarded
<1>3. Spared(z, K, M, N)
  <2>1. Mints(z) \cap DOMAIN M.sessions = {}
    BY TouchesBy
  <2> QED
    BY <2>1 DEF Spared, SameRow
<1> QED
  BY <1>1, <1>2, <1>3, LocalKept DEF Unharmed

\* Apartness is about the throttle rows there are, and nothing else of the tables.
LEMMA ApartStays ==
  ASSUME NEW x, NEW H, NEW z, NEW K, NEW M, NEW N, Apart(x, H, z, K, M), N.throttle = M.throttle
  PROVE  Apart(x, H, z, K, N)
BY DEF Apart, LocksApart

\* Time passes.
LEMMA TickStep ==
  ASSUME IInv, Tick
  PROVE  IInv'
<1>1. /\ UNCHANGED <<scope, rows, issued, hashing, req, held>> /\ now < scope.time
      /\ now' = now + 1
  BY DEF Tick
<1> DEFINE M == Rows
           N == Rows'
<1>2. /\ N.account = M.account /\ N.sessions = M.sessions /\ N.throttle = M.throttle
      /\ N.accepted = M.accepted /\ N.issued = M.issued /\ N.now = now' /\ M.now = now
  BY <1>1 DEF Rows, rows
<1>3. M.now \in Nat /\ N.now \in Nat /\ N.now = M.now + 1 /\ RowsTyped(M) /\ CodesRecorded(M)
  BY <1>1, <1>2 DEF IInv, RowsTyped
<1>4. scope.time \in Nat /\ ScopeTyped
  BY Numbers DEF IInv, ScopeTyped
<1>5. ScopeTyped'
  BY <1>1, <1>2, <1>3, <1>4 DEF ScopeTyped
<1> HIDE DEF M, N
<1>6. RowsTyped(N)
  <2>1. \A key \in DOMAIN M.throttle : M.throttle[key].updated \in Nat
    BY <1>3 DEF RowsTyped, ThrottleRow
  <2>2. \A key \in DOMAIN N.throttle : N.throttle[key].updated <= N.now
    BY <1>2, <1>3, <2>1 DEF RowsTyped
  <2> QED
    BY <1>2, <1>3, <2>2 DEF RowsTyped
<1>7. CodesRecorded(N)
  <2>1. \A code \in M.accepted : code[2] \in Nat
    BY <1>3, Numbers DEF RowsTyped
  <2>2. ASSUME NEW code \in M.accepted
        PROVE  UsedKey(code[1], code[2]) \in DOMAIN N.throttle \/ code[2] + MfaWindow < N.now
    <3>1. UsedKey(code[1], code[2]) \in DOMAIN M.throttle \/ code[2] + MfaWindow < M.now
      BY <1>3 DEF CodesRecorded
    <3> QED
      BY <1>2, <1>3, <2>1, <3>1, Numbers
  <2> QED
    BY <1>2, <1>3, <2>2 DEF CodesRecorded
<1>8. \A q \in Requests : Local(req[q], held[q], N)
  <2> SUFFICES ASSUME NEW q \in Requests PROVE Local(req[q], held[q], N)
    OBVIOUS
  <2>1. Local(req[q], held[q], M)
    BY DEF IInv, Orderly, M
  <2>2. M.now <= N.now
    BY <1>3
  <2> QED
    BY <1>2, <1>3, <2>1, <2>2, OnlyTime
<1>9. \A p, q \in Requests : p # q => Apart(req[p], held[p], req[q], held[q], N)
  BY <1>2, ApartStays DEF IInv, Together, M
<1>10. Orderly' /\ Together'
  BY <1>1, <1>8, <1>9 DEF Orderly, Together, N
<1>11. Shaped' /\ Hashing' /\ FactorsThere' /\ VerifiedByCurrentFactor'
  BY <1>1 DEF IInv, Shaped, Hashing, At, FactorsThere, VerifiedByCurrentFactor,
              Promised!VerifiedByCurrentFactor, PromisedSessions, rows
<1> QED
  BY <1>5, <1>6, <1>7, <1>10, <1>11 DEF IInv, N

\* A session is minted (login, _create_session).
LEMMA MintMoves ==
  ASSUME NEW x, NEW y, NEW H, NEW M, NEW N, NEW t, RowsTyped(M), Local(x, H, M), x.at = "mint",
         N.account = M.account, N.sessions = M.sessions, N.throttle = M.throttle,
         N.now = M.now, N.issued = M.issued \cup {t}, t \in Tokens, t \notin M.issued,
         y.call = x.call, y.at = "commit", y.tx.time = x.tx.time, y.tx.who = x.tx.who,
         y.tx.account = x.tx.account, y.tx.accepted = x.tx.accepted,
         y.tx.throttle = x.tx.throttle, y.tx.want = x.tx.want,
         y.tx.sessions =
           Put(x.tx.sessions, t, [by |-> x.tx.who, opened |-> x.tx.seen.password, verified |-> 0,
                                  revoked |-> FALSE, expires |-> x.tx.time + SessionTTL])
  PROVE  /\ Local(y, H, N) /\ Mints(y) = {t} /\ Touches(y, H) = Touches(x, H) \cup {t}
         /\ x.call.op = "login" /\ Mints(x) = {}
<1>1. Working(x, H, M) /\ x.call.op = "login" /\ x.call \in CallRecord
  BY AtTells
<1>2. x.tx.want = {} /\ Claimed(x, H) = H /\ Stage(x) = "mint" /\ Claimed(y, H) = H
      /\ Stage(y) = "commit"
  BY DEF Local, Stage, Claimed
<1>3. SigningIn(x, H, M) /\ ThrottleWritten(x, H, M) /\ x.tx.time \in Nat
  BY <1>1 DEF Working
<1>4. /\ x.tx.who \in Reviewers /\ x.tx.who = x.call.name
      /\ Shared(AccountLock(x.tx.who)) \in H
      /\ x.tx.seen.password \in Nat /\ x.tx.seen.password <= M.account[x.tx.who].password
  BY <1>2, <1>3 DEF SigningIn
<1> DEFINE row == [by |-> x.tx.who, opened |-> x.tx.seen.password, verified |-> 0,
                   revoked |-> FALSE, expires |-> x.tx.time + SessionTTL]
<1>5. row \in SessionRow
  BY <1>3, <1>4, Numbers DEF SessionRow
<1>6. /\ row.by = x.tx.who /\ row.verified = 0 /\ row.revoked = FALSE
      /\ row.opened = x.tx.seen.password /\ row # Gone
  BY <1>5, RowsAreThere
<1>7. y.tx.sessions = Put(x.tx.sessions, t, row)
  OBVIOUS
<1> HIDE DEF row
<1>8. /\ DOMAIN y.tx.sessions = DOMAIN x.tx.sessions \cup {t} /\ y.tx.sessions[t] = row
      /\ \A u \in DOMAIN x.tx.sessions : u # t => y.tx.sessions[u] = x.tx.sessions[u]
  BY <1>7 DEF Put
<1>9. \A u \in DOMAIN x.tx.sessions :
        x.tx.sessions[u] = Gone /\ u \in M.issued /\ Exclusive(SessionLock(u)) \in H
  BY <1>2, <1>3 DEF SigningIn, MintedWell
<1>10. MintedWell(y, H, N, t)
  <2>1. t \in N.issued \ DOMAIN N.sessions
    BY DEF RowsTyped
  <2> QED
    BY <1>2, <1>4, <1>5, <1>6, <1>8, <2>1 DEF MintedWell
<1>11. \A u \in DOMAIN y.tx.sessions :
         u = t \/ (y.tx.sessions[u] = Gone /\ u \in N.issued /\ Exclusive(SessionLock(u)) \in H)
  BY <1>8, <1>9
<1>12. SigningIn(y, H, N)
  <2>1. \A u \in DOMAIN y.tx.sessions : Minted(y, u) => u = t
    BY <1>11 DEF Minted
  <2>2. \A key \in DOMAIN y.tx.throttle :
          /\ RowLock(key) \in H
          /\ key[1] = "login" /\ key \in DOMAIN N.throttle => ~Locked(N.throttle[key], N.now)
    BY <1>3 DEF SigningIn
  <2>3. /\ y.tx.who = y.call.name /\ y.tx.account = None /\ y.tx.accepted = {}
        /\ Claimed(y, H) \subseteq
             SessionLocks(Tokens) \cup ThrottleLocks \cup {Shared(AccountLock(y.call.name))}
    BY <1>2, <1>3 DEF SigningIn
  <2> QED
    BY <1>2, <1>10, <1>11, <2>1, <2>2, <2>3 DEF SigningIn
<1>13. ThrottleWritten(y, H, N)
  BY <1>2, <1>3 DEF ThrottleWritten
<1>14. Working(y, H, N)
  <2>1. y.tx.time <= N.now /\ y.tx.time \in Nat /\ y.call \in CallRecord /\ y.call.op = "login"
    BY <1>1 DEF Working
  <2>2. "login" \notin Owners \cup {"enroll", "enable", "verify", "reinstate", "logout"} \cup Revokers
    BY DEF Owners, Revokers
  <2> QED
    BY <1>2, <1>12, <1>13, <2>1, <2>2 DEF Working
<1>15. Local(y, H, N)
  BY <1>2, <1>14 DEF Local, Claimed
<1>16. Mints(x) = {}
  BY <1>9 DEF Mints, Minted
<1>17. Mints(y) = {t}
  BY <1>1, <1>6, <1>8, <1>11 DEF Mints, Minted
<1>18. Touches(y, H) = Touches(x, H) \cup {t}
  BY <1>1, <1>8 DEF Touches
<1> QED
  BY <1>1, <1>15, <1>16, <1>17, <1>18

\* The rows change as r goes on, and everybody is still as he should be.
LEMMA RowsMove ==
  ASSUME IInv, NEW r \in Requests, OnlyFor(r), RowsTyped(Rows'), CodesRecorded(Rows'),
         ScopeTyped', IsRequest(req'[r]), Local(req'[r], held'[r], Rows'), Hashing',
         \A q \in Requests \ {r} : /\ Local(req[q], held[q], Rows')
                                   /\ Apart(req'[r], held'[r], req[q], held[q], Rows')
                                   /\ Apart(req[q], held[q], req'[r], held'[r], Rows'),
         \A p, q \in Requests \ {r} : p # q => Apart(req[p], held[p], req[q], held[q], Rows'),
         FactorsThere', VerifiedByCurrentFactor'
  PROVE  IInv'
<1>1. Shaped'
  BY DEF IInv, Shaped, OnlyFor
<1>2. Orderly'
  BY DEF Orderly, OnlyFor
<1>3. Together'
  <2> SUFFICES ASSUME NEW p \in Requests, NEW q \in Requests, p # q
               PROVE  Apart(req'[p], held'[p], req'[q], held'[q], Rows')
    BY DEF Together
  <2>1. CASE p = r
    BY <2>1 DEF OnlyFor
  <2>2. CASE q = r
    BY <2>2 DEF OnlyFor
  <2>3. CASE p # r /\ q # r
    BY <2>3 DEF OnlyFor
  <2> QED
    BY <2>1, <2>2, <2>3
<1> QED
  BY <1>1, <1>2, <1>3 DEF IInv

\* A session is minted with a token nobody has had (_create_session).
LEMMA MintStep ==
  ASSUME IInv, NEW r \in Requests, MintSession(r)
  PROVE  IInv'
<1> DEFINE x == req[r]
           y == req'[r]
           H == held[r]
           M == Rows
           N == Rows'
<1>1. x.at = "mint" /\ UNCHANGED <<scope, now, rows, hashing, held>>
  BY DEF MintSession, At
<1>2. PICK t \in Tokens \ issued :
        /\ issued' = issued \cup {t}
        /\ req' = [req EXCEPT
             ![r].at = "commit",
             ![r].tx.sessions = Put(@, t, [by |-> Who(r), opened |-> Tx(r).seen.password,
                                           verified |-> 0, revoked |-> FALSE,
                                           expires |-> Tx(r).time + SessionTTL])]
  BY DEF MintSession
<1>3. /\ Shaped /\ Hashing /\ IsRequest(x) /\ Local(x, H, M) /\ RowsTyped(M) /\ CodesRecorded(M)
  BY Before DEF IInv
<1>4. /\ N.account = M.account /\ N.sessions = M.sessions /\ N.throttle = M.throttle
      /\ N.accepted = M.accepted /\ N.now = M.now /\ N.issued = M.issued \cup {t}
      /\ t \in Tokens /\ t \notin M.issued /\ M.now \in Nat
  BY <1>1, <1>2, <1>3 DEF Rows, rows, RowsTyped
<1> DEFINE row == [by |-> x.tx.who, opened |-> x.tx.seen.password, verified |-> 0,
                   revoked |-> FALSE, expires |-> x.tx.time + SessionTTL]
           new == Put(x.tx.sessions, t, row)
           tx  == [x.tx EXCEPT !.sessions = new]
           w   == [x EXCEPT !.at = "commit", !.tx = tx]
<1>5. req' = [req EXCEPT ![r] = w]
  <2>1. req' = [req EXCEPT ![r].at = "commit", ![r].tx.sessions = Put(@, t, row)]
    BY <1>2 DEF Who, Tx
  <2> HIDE DEF row
  <2> QED
    BY <1>3, <2>1 DEF Shaped, IsRequest, HasFields
<1>6. OnlyFor(r) /\ y = w /\ held'[r] = H
  <2> HIDE DEF w
  <2> QED
    BY <1>1, <1>3, <1>5, OnlyOne
<1>7. /\ HasFields(tx, TxFields) /\ tx.time = x.tx.time /\ tx.who = x.tx.who
      /\ tx.account = x.tx.account /\ tx.accepted = x.tx.accepted /\ tx.want = x.tx.want
      /\ tx.throttle = x.tx.throttle /\ tx.sessions = new
  <2> HIDE DEF new
  <2> QED
    BY <1>3 DEF IsRequest, HasFields, TxFields
<1> HIDE DEF tx
<1>8. IsRequest(y) /\ y.at = "commit" /\ y.tx = tx /\ y.call = x.call
  <2>1. y = [x EXCEPT !.at = "commit", !.tx = tx]
    BY <1>6
  <2> HIDE DEF x, y
  <2> QED
    BY ONLY <1>3, <1>7, <2>1 DEF IsRequest, HasFields, TxFields
<1> HIDE DEF w
<1>9. /\ Local(y, H, N) /\ Mints(y) = {t} /\ Touches(y, H) = Touches(x, H) \cup {t}
      /\ x.call.op = "login" /\ Mints(x) = {}
  <2>1. /\ y.tx.time = x.tx.time /\ y.tx.who = x.tx.who
        /\ y.tx.account = x.tx.account /\ y.tx.accepted = x.tx.accepted
        /\ y.tx.throttle = x.tx.throttle /\ y.tx.want = x.tx.want
        /\ y.tx.sessions =
             Put(x.tx.sessions, t, [by |-> x.tx.who, opened |-> x.tx.seen.password, verified |-> 0,
                                    revoked |-> FALSE, expires |-> x.tx.time + SessionTTL])
    BY <1>7, <1>8
  <2> HIDE DEF x, y, H, M, N, row, new
  <2> QED
    BY ONLY <1>1, <1>3, <1>4, <1>8, <2>1, MintMoves
<1>10. Hashing'
  <2>1. Hashing /\ hashing' = hashing /\ x.at = "mint" /\ y.at # "hash" /\ OnlyFor(r)
    BY <1>1, <1>3, <1>6, <1>8
  <2> QED
    BY ONLY <2>1, r \in Requests DEF Hashing, OnlyFor, At
<1>11. RowsTyped(N) /\ CodesRecorded(N) /\ ScopeTyped'
  <2>1. ScopeTyped'
    BY <1>1 DEF IInv, ScopeTyped
  <2> HIDE DEF M, N
  <2> QED
    BY <1>3, <1>4, <2>1 DEF RowsTyped, CodesRecorded
<1>12. FactorsThere' /\ VerifiedByCurrentFactor'
  BY <1>1 DEF IInv, FactorsThere, VerifiedByCurrentFactor, Promised!VerifiedByCurrentFactor, PromisedSessions, rows
<1>13. \A p, q \in Requests : p # q => Apart(req[p], held[p], req[q], held[q], N)
  <2> SUFFICES ASSUME NEW p \in Requests, NEW q \in Requests, p # q
               PROVE  Apart(req[p], held[p], req[q], held[q], N)
    OBVIOUS
  <2>1. Apart(req[p], held[p], req[q], held[q], M)
    BY DEF IInv, Together
  <2> HIDE DEF M, N
  <2> QED
    BY <1>4, <2>1, ApartStays
<1>14. ASSUME NEW q \in Requests \ {r}
       PROVE  /\ Local(req[q], held[q], N)
              /\ Apart(y, H, req[q], held[q], N) /\ Apart(req[q], held[q], y, H, N)
  <2> DEFINE z == req[q]
             K == held[q]
  <2>1. Local(z, K, M)
    BY DEF IInv, Orderly
  <2>2. Apart(x, H, z, K, N) /\ Apart(z, K, x, H, N)
    BY <1>13
  <2>3. y.tx.throttle = x.tx.throttle /\ y.call.op = "login"
    BY <1>7, <1>8, <1>9
  <2> HIDE DEF x, y, z, H, K, M, N
  <2>4. Local(z, K, N)
    <3>1. N.now \in Nat /\ M.now <= N.now /\ M.issued \subseteq N.issued
      BY <1>4
    <3> QED
      BY ONLY <1>3, <1>4, <2>1, <3>1, OnlyTime
  <2>5. Touches(z, K) \subseteq M.issued /\ Mints(z) \subseteq M.issued
    BY <1>3, <2>1, TouchesBy
  <2>6. SessionsApart(y, H, z, K) /\ SessionsApart(z, K, y, H)
    BY <1>4, <1>9, <2>2, <2>3, <2>5 DEF Apart, SessionsApart
  <2>7. LocksApart(y, H, z, K, N) /\ LocksApart(z, K, y, H, N)
    BY <2>2, <2>3 DEF Apart, LocksApart
  <2> QED
    BY <2>4, <2>6, <2>7 DEF Apart, z, K
<1> QED
  <2>1. held'[r] = H
    BY <1>6
  <2> QED
    BY <1>6, <1>8, <1>9, <1>10, <1>11, <1>12, <1>13, <1>14, <2>1, RowsMove

\* What is asked is of somebody's session that is there, of an account there is, or a
\* sign-in (the endpoints' dependencies).
LEMMA Submitted ==
  ASSUME IInv, NEW call \in CallRecord, Submittable(call),
         NEW who, who = CASE call.op \in OfSession       -> sessions[call.token].by
                          [] call.op \in OfAdministrator -> call.target
                          [] OTHER                       -> call.name
  PROVE  /\ call.op = "login" => who = call.name
         /\ call.op # "login" => who \in Reviewers
         /\ call.op \in OfSession =>
              call.token \in DOMAIN sessions /\ sessions[call.token].by = who
         /\ call.op \in {"login", "logout"} \cup Owners
<1>1. call.op \in {"login", "logout"} \cup Owners
  BY CallOps
<1>2. "login" \notin OfSession \cup OfAdministrator
  BY DEF OfSession, OfAdministrator
<1>3. call.op # "login" => call.op \in OfSession \cup OfAdministrator
  BY <1>1 DEF Owners, Revokers, OfSession, OfAdministrator
<1>4. OfSession \cap OfAdministrator = {}
  BY DEF OfSession, OfAdministrator
<1>5. CASE call.op \in OfSession
  <2>1. call.token \in DOMAIN sessions /\ who = sessions[call.token].by
    BY <1>2, <1>4, <1>5 DEF Submittable, Live
  <2>2. sessions[call.token] \in SessionRow
    BY <2>1 DEF IInv, RowsTyped, Rows
  <2> QED
    BY <1>1, <1>2, <1>5, <2>1, <2>2 DEF SessionRow
<1>6. CASE call.op \in OfAdministrator
  BY <1>1, <1>2, <1>4, <1>6, CallOps
<1>7. CASE call.op = "login"
  BY <1>1, <1>2, <1>7
<1> QED
  BY <1>3, <1>5, <1>6, <1>7

\* A request begins as it should.
LEMMA Begins ==
  ASSUME NEW y, NEW M, RowsTyped(M), y.call \in CallRecord, y.at = FirstStep(y.call.op),
         y.tx.time = M.now, y.tx.want = {}, y.tx.throttle = None, y.tx.found = {},
         NothingWritten(y),
         y.call.op \in {"login", "logout"} \cup Owners,
         y.call.op = "login" => y.tx.who = y.call.name,
         y.call.op # "login" => y.tx.who \in Reviewers,
         y.call.op \in OfSession =>
           y.call.token \in DOMAIN M.sessions /\ M.sessions[y.call.token].by = y.tx.who
  PROVE  Local(y, {}, M) /\ Mints(y) = {} /\ Touches(y, {}) \subseteq DOMAIN M.sessions
<1>1. /\ y.at \in {"purge", "sign out", "find account", "secure"} /\ Stage(y) = y.at
      /\ y.call.op = "login" => y.at = "purge"
      /\ y.call.op = "logout" => y.at = "sign out"
      /\ y.call.op \in Owners => y.at = First(y.call.op)
  BY DEF FirstStep, First, Stage, Owners, Revokers
<1>2. Claimed(y, {}) = {} /\ DOMAIN None = {} /\ y.tx.sessions = None
  BY DEF Claimed, None, NothingWritten
<1>3. Concerns(y, {}) \subseteq DOMAIN M.sessions
        /\ \A t \in Concerns(y, {}) : t \in M.issued /\ M.sessions[t].by = y.tx.who
  BY <1>2 DEF Concerns, RowsTyped
<1>4. ThrottleWritten(y, {}, M)
  BY <1>2 DEF ThrottleWritten
<1>8. /\ y.call \in CallRecord /\ y.tx.time <= M.now /\ y.tx.time \in Nat
      /\ Stage(y) \notin {"lock", "upsert", "row", "idle", "done"}
  <2>1. M.now \in Nat
    BY DEF RowsTyped
  <2>2. M.now <= M.now
    BY <2>1
  <2> QED
    BY <1>1, <2>1, <2>2
<1>5. CASE y.call.op = "login"
  <2>1. SigningIn(y, {}, M)
    <3>1. /\ y.at = "purge" /\ Stage(y) = "purge" /\ y.tx.who = y.call.name
          /\ y.tx.account = None /\ y.tx.accepted = {} /\ y.tx.sessions = None
          /\ y.tx.throttle = None /\ Claimed(y, {}) = {}
          /\ DOMAIN y.tx.sessions = {} /\ DOMAIN y.tx.throttle = {}
      BY <1>1, <1>2, <1>5 DEF NothingWritten
    <3> QED
      BY ONLY <3>1 DEF SigningIn
  <2>2. y.call.op \notin {"logout"} \cup Owners \cup Revokers
    BY <1>5 DEF Owners, Revokers
  <2>3. Working(y, {}, M)
    BY ONLY <1>4, <1>5, <1>8, <2>1, <2>2 DEF Working, Owners
  <2> QED
    BY <1>1, <1>2, <1>5, <2>3 DEF Local, Mints, Touches
<1>6. CASE y.call.op = "logout"
  <2>1. "logout" \in OfSession
    BY DEF OfSession
  <2>2. SigningOut(y, {}, M)
    <3>1. /\ y.at = "sign out" /\ Stage(y) = "sign out" /\ y.tx.who \in Reviewers
          /\ y.tx.account = None /\ y.tx.accepted = {} /\ y.tx.sessions = None
          /\ y.tx.throttle = None /\ Claimed(y, {}) = {} /\ y.tx.found = {}
      BY <1>1, <1>2, <1>6 DEF NothingWritten
    <3>2. y.call.token \in M.issued /\ M.sessions[y.call.token].by = y.tx.who
      BY <1>6, <2>1 DEF RowsTyped
    <3> QED
      BY ONLY <3>1, <3>2 DEF SigningOut
  <2>3. y.call.op \notin {"login"} \cup Owners \cup Revokers
    BY <1>6 DEF Owners, Revokers
  <2>4. Working(y, {}, M)
    BY ONLY <1>4, <1>6, <1>8, <2>2, <2>3 DEF Working, Owners
  <2> QED
    BY <1>1, <1>2, <1>3, <1>6, <2>4, TouchesOwn, MintsNothing DEF Local
<1>7. CASE y.call.op \in Owners
  <2>1. /\ y.call.op \notin {"login", "logout"} /\ y.at # y.call.op
        /\ First(y.call.op) # y.call.op /\ y.at \notin {"lock", "upsert", "row", "commit"}
    BY <1>1, <1>7 DEF Owners, Revokers, First
  <2>2. Owning(y, {}, M)
    <3>1. /\ y.at = First(y.call.op) /\ Stage(y) = First(y.call.op) /\ y.tx.who \in Reviewers
          /\ NothingWritten(y) /\ y.tx.throttle = None /\ Claimed(y, {}) = {} /\ y.tx.want = {}
          /\ DOMAIN y.tx.throttle = {}
      BY <1>1, <1>2, <1>7, <2>1
    <3>2. /\ y.at \notin {"lock", "upsert", "row", "commit", "audit", "record"}
          /\ First(y.call.op) # y.call.op
      BY <1>1, <1>7, <2>1 DEF First
    <3>3. Climbing(y, {})
      BY <3>1 DEF Climbing
    <3> QED
      BY ONLY <1>3, <3>1, <3>2, <3>3 DEF Owning
  <2>3. Particular(y, {}, M)
    BY <1>1, <1>7, <2>1 DEF Particular, Enrolling, Proving, Revoking, Reinstating, Revokers,
                            Owners, First
  <2>4. Working(y, {}, M)
    BY ONLY <1>4, <1>7, <1>8, <2>1, <2>2, <2>3 DEF Working, Particular
  <2> QED
    BY <1>1, <1>2, <1>3, <1>7, <2>1, <2>4, TouchesOwn, MintsNothing DEF Local
<1> QED
  BY <1>5, <1>6, <1>7

\* A request comes.
LEMMA ArriveStep ==
  ASSUME IInv, NEW r \in Requests, NEW call \in scope.calls, Arrive(r, call)
  PROVE  IInv'
<1> DEFINE x == req[r]
           y == req'[r]
           H == held[r]
           M == Rows
           who == CASE call.op \in OfSession       -> sessions[call.token].by
                    [] call.op \in OfAdministrator -> call.target
                    [] OTHER                       -> call.name
           tx == [NoChanges EXCEPT !.time = now, !.who = who]
           w  == [x EXCEPT !.call = call, !.at = FirstStep(call.op), !.tx = tx]
<1>1. /\ Shaped /\ Hashing /\ IsRequest(x) /\ Local(x, H, M) /\ RowsTyped(M)
      /\ M.sessions = sessions /\ M.now = now
  BY Before DEF IInv
<1>2. /\ x.at = "idle" /\ Submittable(call) /\ UNCHANGED <<scope, now, rows, issued, hashing, held>>
      /\ call \in CallRecord
      /\ req' = [req EXCEPT ![r].call = call, ![r].at = FirstStep(call.op), ![r].tx = tx]
  BY DEF Arrive, At, IInv, ScopeTyped
<1>3. H = {} /\ x.tx = NoChanges /\ x.call = [op |-> "none"]
  BY <1>1, <1>2 DEF Local, Idle
<1>4. req' = [req EXCEPT ![r] = w]
  <2> HIDE DEF tx
  <2> QED
    BY <1>1, <1>2 DEF Shaped, IsRequest, HasFields
<1>5. OnlyFor(r) /\ y = w /\ held'[r] = {}
  <2> HIDE DEF w
  <2> QED
    BY <1>1, <1>2, <1>3, <1>4, OnlyOne
<1>6. /\ call.op = "login" => who = call.name
      /\ call.op # "login" => who \in Reviewers
      /\ call.op \in OfSession => call.token \in DOMAIN sessions /\ sessions[call.token].by = who
      /\ call.op \in {"login", "logout"} \cup Owners
  BY <1>2, Submitted
<1> HIDE DEF who
<1>7. /\ HasFields(tx, TxFields) /\ tx.time = now /\ tx.who = who
      /\ tx.account = None /\ tx.accepted = {} /\ tx.want = {}
      /\ tx.throttle = None /\ tx.sessions = None /\ tx.found = {}
  BY DEF HasFields, TxFields, NoChanges
<1> HIDE DEF tx
<1>8. IsRequest(y) /\ y.at = FirstStep(call.op) /\ y.tx = tx /\ y.call = call
  <2>1. y = [x EXCEPT !.call = call, !.at = FirstStep(call.op), !.tx = tx]
    BY <1>5
  <2> HIDE DEF x, y
  <2> QED
    BY ONLY <1>1, <1>7, <2>1 DEF IsRequest, HasFields, TxFields
<1> HIDE DEF w
<1>9. Local(y, {}, M) /\ Mints(y) = {} /\ Touches(y, {}) \subseteq DOMAIN M.sessions
  <2>1. /\ y.tx.time = M.now /\ y.tx.want = {} /\ y.tx.throttle = None /\ y.tx.found = {}
        /\ NothingWritten(y) /\ y.tx.who = who
    BY <1>1, <1>7, <1>8 DEF NothingWritten
  <2>2. /\ y.call.op = "login" => y.tx.who = y.call.name
        /\ y.call.op # "login" => y.tx.who \in Reviewers
        /\ y.call.op \in OfSession =>
             y.call.token \in DOMAIN M.sessions /\ M.sessions[y.call.token].by = y.tx.who
        /\ y.call.op \in {"login", "logout"} \cup Owners
        /\ y.call \in CallRecord /\ y.at = FirstStep(y.call.op)
    BY <1>1, <1>2, <1>6, <1>8, <2>1
  <2> HIDE DEF y, M
  <2> QED
    BY ONLY <1>1, <2>1, <2>2, Begins
<1>10. Hashing'
  <2>1. y.at # "hash"
    BY <1>8 DEF FirstStep
  <2>2. Hashing /\ hashing' = hashing /\ x.at = "idle" /\ y.at # "hash" /\ OnlyFor(r)
    BY <1>1, <1>2, <1>5, <2>1
  <2> QED
    BY ONLY <2>2, r \in Requests DEF Hashing, OnlyFor, At
<1>11. ASSUME NEW q \in Requests \ {r}
       PROVE  Apart(y, {}, req[q], held[q], M) /\ Apart(req[q], held[q], y, {}, M)
  <2> DEFINE z == req[q]
             K == held[q]
  <2>1. Local(z, K, M) /\ Apart(x, {}, z, K, M) /\ Apart(z, K, x, {}, M)
    BY <1>3 DEF IInv, Orderly, Together
  <2>2. Local(x, {}, M)
    BY <1>1, <1>3
  <2> HIDE DEF x, y, z, H, K, M
  <2>3. SessionsApart(y, {}, z, K) /\ SessionsApart(z, K, y, {})
    BY <1>1, <1>9, <2>1, <2>2, SessionsStayApart DEF Apart
  <2>4. LocksApart(y, {}, z, K, M) /\ LocksApart(z, K, y, {}, M)
    BY DEF LocksApart
  <2> QED
    BY <2>3, <2>4 DEF Apart, z, K
<1> QED
  <2>1. UNCHANGED <<scope, now, rows, issued>>
    BY <1>2
  <2> QED
    BY <1>5, <1>8, <1>9, <1>10, <1>11, <2>1, Moves

-----------------------------------------------------------------------------
(***************************************************************************)
(* Signing out.                                                            *)
(***************************************************************************)

\* A sign-out goes on (logout).
LEMMA SignOutMoves ==
  ASSUME NEW x, NEW y, NEW H, NEW M, Local(x, H, M), x.at \in {"sign out", "signed out"},
         y.call = x.call, y.tx.time = x.tx.time, y.tx.who = x.tx.who, y.tx.account = x.tx.account,
         y.tx.accepted = x.tx.accepted, y.tx.throttle = x.tx.throttle, y.tx.found = x.tx.found,
         LET t == x.call.token
         IN  \/ /\ x.at = "sign out" /\ y.at = "lock" /\ Stage(y) = "signed out"
                /\ y.tx.then = "signed out"
                /\ y.tx.want = {Exclusive(SessionLock(t))} /\ y.tx.sessions = x.tx.sessions
             \/ /\ x.at = "signed out" /\ y.at = "commit" /\ Stage(y) = "commit"
                /\ y.tx.want = {} /\ t \in DOMAIN M.sessions
                /\ y.tx.sessions = Only(t, [M.sessions[t] EXCEPT !.revoked = TRUE])
  PROVE  Local(y, H, M) /\ Quiet(x, H, y, H, M)
<1> DEFINE t == x.call.token
<1>1. /\ Working(x, H, M) /\ x.call.op = "logout" /\ x.call \in CallRecord
      /\ ThrottleWritten(x, H, M) /\ SigningOut(x, H, M)
  BY AtTells DEF Working
<1>2. /\ x.tx.want = {} /\ Claimed(x, H) = H /\ Stage(x) = x.at
      /\ Claimed(y, H) = H \cup y.tx.want
  BY DEF Local, Stage, Claimed
<1>3. /\ x.tx.account = None /\ x.tx.accepted = {} /\ x.tx.throttle = None /\ x.tx.found = {}
      /\ t \in M.issued /\ x.tx.who \in Reviewers
      /\ t \in DOMAIN M.sessions => M.sessions[t].by = x.tx.who
      /\ H \subseteq SessionLocks({t}) /\ x.tx.sessions = None
      /\ x.at = "sign out" => H = {}
      /\ x.at = "signed out" => Exclusive(SessionLock(t)) \in H
  BY <1>1, <1>2 DEF SigningOut
<1>4. ThrottleWritten(y, H, M)
  BY <1>3 DEF ThrottleWritten, None
<1>5. Claimed(y, H) \subseteq SessionLocks({t})
  BY <1>2, <1>3 DEF SessionLocks
<1>6. SigningOut(y, H, M)
  <2>1. /\ y.tx.account = None /\ y.tx.accepted = {} /\ y.tx.throttle = None /\ y.tx.found = {}
        /\ y.tx.who \in Reviewers /\ y.call.token = t
        /\ t \in DOMAIN M.sessions => M.sessions[t].by = y.tx.who
    BY <1>3
  <2>2. CASE x.at = "sign out"
    <3>1. /\ y.at = "lock" /\ Stage(y) = "signed out" /\ y.tx.then = "signed out" /\ H = {}
          /\ y.tx.sessions = None /\ Exclusive(SessionLock(t)) \in Claimed(y, H)
      BY <1>2, <1>3, <2>2
    <3> QED
      BY ONLY <1>3, <1>5, <2>1, <3>1 DEF SigningOut
  <2>3. CASE x.at = "signed out"
    <3>1. /\ y.at = "commit" /\ Stage(y) = "commit" /\ y.tx.want = {} /\ t \in DOMAIN M.sessions
          /\ y.tx.sessions = Only(t, [M.sessions[t] EXCEPT !.revoked = TRUE])
          /\ Exclusive(SessionLock(t)) \in H
      BY <1>3, <2>3
    <3> QED
      BY ONLY <1>3, <1>5, <2>1, <3>1 DEF SigningOut
  <2> QED
    BY <2>2, <2>3
<1>7. Local(y, H, M)
  <2>1. "logout" \notin {"login", "enroll", "enable", "verify", "reinstate"} \cup Owners \cup Revokers
    BY DEF Owners, Revokers
  <2>2. /\ y.call \in CallRecord /\ y.tx.time <= M.now /\ y.tx.time \in Nat /\ y.call.op = "logout"
        /\ Stage(y) \notin {"lock", "upsert", "row", "idle", "done"}
    BY <1>1 DEF Working
  <2>3. Working(y, H, M)
    BY ONLY <1>4, <1>6, <2>1, <2>2 DEF Working
  <2>4. y.at \notin {"idle", "done"} /\ (y.at = "lock" <=> y.tx.want # {})
    OBVIOUS
  <2> QED
    BY <2>3, <2>4 DEF Local
<1>8. Touches(y, H) = Concerns(y, H) /\ Touches(x, H) = Concerns(x, H) /\ Mints(y) = {}
  BY <1>1, TouchesOwn, MintsNothing
<1>9. Concerns(y, H) \subseteq {t} /\ t \in Concerns(x, H)
  <2>1. ASSUME NEW u, Exclusive(SessionLock(u)) \in Claimed(y, H) PROVE u = t
    <3>1. Exclusive(SessionLock(u)) = Exclusive(SessionLock(t))
      BY ONLY <1>5, <2>1 DEF SessionLocks
    <3> QED
      BY ONLY <3>1, LockNames
  <2>2. y.call = x.call /\ x.call.op \in OfSession /\ y.tx.found = {}
    BY <1>1, <1>3 DEF OfSession
  <2> QED
    BY <2>1, <2>2 DEF Concerns
<1> QED
  BY <1>7, <1>8, <1>9 DEF Quiet

LEMMA SignOutStep ==
  ASSUME IInv, NEW r \in Requests, SignOut(r)
  PROVE  IInv'
<1> DEFINE x == req[r]
           y == req'[r]
           H == held[r]
           M == Rows
           t == Call(r).token
<1>1. /\ HasFields(Tx(r), TxFields) /\ Local(x, H, M) /\ M.sessions = sessions
      /\ Tx(r) = x.tx /\ Call(r) = x.call
  BY Before DEF Tx, Call
<1>2. CASE /\ At(r, "sign out")
           /\ Acquire(r, Tx(r), {Exclusive(SessionLock(t))}, "signed out")
  <2>1. Goes(x, y, Tx(r), "lock", "signed out", {Exclusive(SessionLock(t))})
    BY <1>1, <1>2, GoesOn
  <2>2. /\ y.call = x.call /\ y.tx.time = x.tx.time /\ y.tx.who = x.tx.who
        /\ y.tx.account = x.tx.account /\ y.tx.accepted = x.tx.accepted
        /\ y.tx.throttle = x.tx.throttle /\ y.tx.found = x.tx.found /\ IsRequest(y)
        /\ x.at = "sign out" /\ y.at = "lock" /\ Stage(y) = "signed out"
        /\ y.tx.then = "signed out"
        /\ y.tx.want = {Exclusive(SessionLock(x.call.token))} /\ y.tx.sessions = x.tx.sessions
    BY <1>1, <1>2, <2>1 DEF Goes, At
  <2>3. Local(y, H, M) /\ Quiet(x, H, y, H, M)
    <3> HIDE DEF x, y, H, M
    <3> QED
      BY ONLY <1>1, <2>2, SignOutMoves
  <2> QED
    BY <1>2, <2>2, <2>3, QuietlyOn
<1>3. CASE At(r, "signed out") /\ t \notin DOMAIN sessions /\ Abort(r, "error")
  BY <1>3, AbortStep DEF At
<1>4. CASE /\ At(r, "signed out") /\ t \in DOMAIN sessions
           /\ Proceed(r, [Tx(r) EXCEPT !.sessions =
                   Only(t, [sessions[t] EXCEPT !.revoked = TRUE])], "commit")
  <2> DEFINE new == Only(t, [sessions[t] EXCEPT !.revoked = TRUE])
             tx == [Tx(r) EXCEPT !.sessions = new]
  <2>1. /\ HasFields(tx, TxFields) /\ tx.time = x.tx.time /\ tx.who = x.tx.who
        /\ tx.account = x.tx.account /\ tx.accepted = x.tx.accepted
        /\ tx.throttle = x.tx.throttle /\ tx.found = x.tx.found
        /\ tx.sessions = new /\ tx.want = x.tx.want
    <3> HIDE DEF new
    <3> QED
      BY <1>1, TxChanged DEF HasFields, TxFields
  <2>2. x.tx.want = {} /\ x.at = "signed out"
    BY <1>1, <1>4 DEF At, Local
  <2> HIDE DEF tx
  <2>3. Goes(x, y, tx, "commit", "commit", x.tx.want)
    BY <1>4, <2>1, GoesOn DEF tx
  <2>4. /\ y.call = x.call /\ y.tx.time = x.tx.time /\ y.tx.who = x.tx.who
        /\ y.tx.account = x.tx.account /\ y.tx.accepted = x.tx.accepted
        /\ y.tx.throttle = x.tx.throttle /\ y.tx.found = x.tx.found /\ IsRequest(y)
        /\ x.at = "signed out" /\ y.at = "commit" /\ Stage(y) = "commit"
        /\ y.tx.want = {} /\ x.call.token \in DOMAIN M.sessions
        /\ y.tx.sessions = Only(x.call.token, [M.sessions[x.call.token] EXCEPT !.revoked = TRUE])
    BY <1>1, <1>4, <2>1, <2>2, <2>3 DEF Goes
  <2>5. Local(y, H, M) /\ Quiet(x, H, y, H, M)
    <3> HIDE DEF x, y, H, M
    <3> QED
      BY ONLY <1>1, <2>4, SignOutMoves
  <2> QED
    BY <1>4, <2>2, <2>4, <2>5, QuietlyOn
<1> QED
  BY <1>2, <1>3, <1>4 DEF SignOut

-----------------------------------------------------------------------------
(***************************************************************************)
(* Changes of credentials.                                                 *)
(***************************************************************************)

\* An operation that has the account's row goes on, at a label or with locks.
LEMMA OwnerProceeds ==
  ASSUME IInv, NEW r \in Requests, NEW tx, NEW L, NEW label, Call(r).op \in Owners,
         req[r].at \notin
           {"lock", "upsert", "row", "idle", "done", "commit", "hash", First(Call(r).op)},
         HasFields(tx, TxFields), tx.time = Tx(r).time, tx.who = Who(r),
         label \notin
           {"lock", "upsert", "row", "idle", "done", "hash", First(Call(r).op), Call(r).op},
         (Proceed(r, tx, label) /\ tx.want = {} /\ L = {}) \/ Acquire(r, tx, L, label),
         InTurn(req[r], L, label),
         \A t : Exclusive(SessionLock(t)) \in L => t \in Hers(req[r], held[r], Rows),
         tx.found \subseteq Hers(req[r], held[r], Rows),
         \A key \in DOMAIN tx.throttle : key[1] \in {"mfa", "used"} /\ key[2] = Who(r),
         \A key \in ThrottleKey :
           key[1] # "used" /\ RowLock(key) \in held[r] /\ key \notin DOMAIN throttle =>
             (key \in DOMAIN tx.throttle <=> key \in DOMAIN Tx(r).throttle),
         \A y : Goes(req[r], y, tx, IF L = {} THEN label ELSE "lock", label, L) =>
                  ThrottleWritten(y, held[r], Rows) /\ Particular(y, held[r], Rows)
  PROVE  IInv'
<1> DEFINE x == req[r]
           y == req'[r]
           H == held[r]
           M == Rows
<1>1. /\ Local(x, H, M) /\ RowsTyped(M) /\ M.throttle = throttle
      /\ Tx(r) = x.tx /\ Call(r) = x.call /\ Who(r) = x.tx.who
  BY Before DEF Tx, Call, Who
<1>2. Goes(x, y, tx, IF L = {} THEN label ELSE "lock", label, L)
  BY GoesOn
<1>3. ThrottleWritten(y, H, M) /\ Particular(y, H, M)
  BY <1>2
<1>4. /\ y.call = x.call /\ y.tx.time = x.tx.time /\ y.tx.who = x.tx.who /\ IsRequest(y)
      /\ y.tx.want = L /\ y.tx.found = tx.found /\ y.tx.throttle = tx.throttle
      /\ Stage(y) = label /\ y.at = IF L = {} THEN label ELSE "lock"
  BY <1>1, <1>2 DEF Goes
<1>5. Local(y, H, M) /\ Quiet(x, H, y, H, M)
  <2>1. /\ x.call.op \in Owners
        /\ x.at \notin {"lock", "upsert", "row", "idle", "done", "commit", First(x.call.op)}
        /\ y.at = "lock" <=> y.tx.want # {}
        /\ y.at \notin {"idle", "done"}
        /\ y.at \notin {"upsert", "row"}
        /\ Stage(y) \notin {"lock", "upsert", "row", "idle", "done", First(x.call.op), x.call.op}
    BY <1>1, <1>4
  <2>2. /\ InTurn(x, y.tx.want, Stage(y))
        /\ \A t : Exclusive(SessionLock(t)) \in y.tx.want => t \in Hers(x, H, M)
        /\ y.tx.found \subseteq Hers(x, H, M)
    BY <1>1, <1>4
  <2>3. /\ \A key \in DOMAIN y.tx.throttle : key[1] \in {"mfa", "used"} /\ key[2] = x.tx.who
        /\ \A key \in ThrottleKey :
             key[1] # "used" /\ RowLock(key) \in H /\ key \notin DOMAIN M.throttle =>
               (key \in DOMAIN y.tx.throttle <=> key \in DOMAIN x.tx.throttle)
    BY <1>1, <1>4
  <2> HIDE DEF x, y, H, M
  <2> QED
    BY ONLY <1>1, <1>3, <1>4, <2>1, <2>2, <2>3, OwnerGoesOn
<1> QED
  BY <1>4, <1>5, QuietlyOn

\* An operation that is at its own step has the account's row, and has done nothing yet.
LEMMA AtOperation ==
  ASSUME IInv, NEW r \in Requests, req[r].at \in Owners
  PROVE  /\ Call(r).op = req[r].at /\ Call(r) \in CallRecord /\ Call(r) = req[r].call
         /\ req[r].at \notin
              {"lock", "upsert", "row", "idle", "done", "commit", "hash", "record",
               First(Call(r).op)}
         /\ Who(r) \in Reviewers /\ account[Who(r)] \in Credential /\ Who(r) = req[r].tx.who
         /\ Tx(r).account = None /\ Tx(r).sessions = None /\ Tx(r).accepted = {}
         /\ Tx(r).throttle = None /\ Tx(r).want = {}
         /\ Tx(r).found \subseteq Hers(req[r], held[r], Rows) /\ Tx(r) = req[r].tx
         /\ Claimed(req[r], held[r]) = held[r] /\ HasAccount(req[r], held[r])
         /\ Working(req[r], held[r], Rows) /\ Owning(req[r], held[r], Rows)
<1> DEFINE x == req[r]
           H == held[r]
           M == Rows
<1>1. /\ Local(x, H, M) /\ RowsTyped(M) /\ M.account = account
      /\ Tx(r) = x.tx /\ Call(r) = x.call /\ Who(r) = x.tx.who
  BY Before DEF Tx, Call, Who
<1>2. x.at \notin {"lock", "upsert", "row", "idle", "done", "commit", "hash", "record", First(x.at)}
  BY DEF Owners, Revokers, First
<1> HIDE DEF x, H, M
<1>a. x.at \in Owners
  BY DEF x
<1>3. Working(x, H, M) /\ x.call \in CallRecord /\ x.call.op = x.at
  BY <1>1, <1>2, <1>a, AtTells
<1>4. Owning(x, H, M) /\ Stage(x) = x.at /\ x.tx.want = {} /\ Claimed(x, H) = H
  BY <1>1, <1>2, <1>3, <1>a DEF Working, Stage, Local, Claimed
<1>5. NothingWritten(x) /\ x.tx.throttle = None /\ HasAccount(x, H) /\ x.tx.who \in Reviewers
  BY <1>2, <1>3, <1>4 DEF Owning
<1>6. account[x.tx.who] \in Credential
  BY <1>1, <1>5 DEF RowsTyped
<1>7. x.tx.found \subseteq Hers(x, H, M)
  BY DEF Hers, Concerns
<1> QED
  BY <1>1, <1>2, <1>3, <1>4, <1>5, <1>6, <1>7 DEF NothingWritten, x, H, M

\* A factor is prepared, or shown again, or there is one already (start_mfa_enrollment).
LEMMA EnrollStep ==
  ASSUME IInv, NEW r \in Requests, StartMfaEnrollment(r)
  PROVE  IInv'
<1> DEFINE v   == Who(r)
           row == account[v]
           new == [row EXCEPT !.factor = row.minted + 1, !.minted = @ + 1]
<1>1. req[r].at = "enroll" /\ "enroll" \in Owners
  BY DEF StartMfaEnrollment, At, Owners
<1>2. /\ Call(r).op = "enroll" /\ Call(r) = req[r].call
      /\ req[r].at \notin
              {"lock", "upsert", "row", "idle", "done", "commit", "hash", "record",
               First(Call(r).op)}
      /\ Tx(r).account = None /\ Tx(r).sessions = None /\ Tx(r).accepted = {}
      /\ Tx(r).throttle = None /\ Tx(r).want = {}
      /\ Tx(r).found \subseteq Hers(req[r], held[r], Rows)
      /\ Tx(r) = req[r].tx /\ v = req[r].tx.who
  BY <1>1, AtOperation
<1>3. HasFields(Tx(r), TxFields) /\ Rows.account = account
  BY Before
<1>4. CASE Abort(r, "refused")
  BY <1>1, <1>4, AbortStep
<1>5. ASSUME NEW tx, Proceed(r, tx, "commit"), HasFields(tx, TxFields),
             tx.time = Tx(r).time, tx.who = v, tx.want = {}, tx.throttle = None,
             tx.found = Tx(r).found, tx.sessions = None, tx.accepted = {},
             tx.account = None \/ (row.factor = 0 /\ tx.account = Only(v, new))
      PROVE  IInv'
  <2>1. ASSUME NEW y, Goes(req[r], y, tx, "commit", "commit", {})
        PROVE  ThrottleWritten(y, held[r], Rows) /\ Particular(y, held[r], Rows)
    <3>1. /\ Stage(y) = "commit" /\ y.call.op = "enroll" /\ y.tx.sessions = None
          /\ y.tx.accepted = {} /\ y.tx.throttle = None /\ y.tx.who = v
          /\ y.tx.account = tx.account
      BY <1>2, <1>5, <2>1 DEF Goes
    <3>2. Enrolling(y, held[r], Rows)
      <4>1. Rows.account[y.tx.who] = row
        BY <1>3, <3>1
      <4>2. \/ y.tx.account = None
            \/ (row.factor = 0 /\ y.tx.account = Only(y.tx.who, new))
        BY <1>5, <3>1
      <4> HIDE DEF row
      <4> QED
        BY ONLY <3>1, <4>1, <4>2 DEF Enrolling
    <3>3. "enroll" \notin {"enable", "verify", "reinstate"} \cup Revokers
      BY DEF Revokers
    <3> QED
      BY <3>1, <3>2, <3>3 DEF Particular, ThrottleWritten, None
  <2>2. "commit" \notin
           {"lock", "upsert", "row", "idle", "done", "hash", First(Call(r).op), Call(r).op}
    BY <1>2 DEF First
  <2>3. DOMAIN tx.throttle = {}
    BY <1>5 DEF None
  <2>4. /\ \A t : Exclusive(SessionLock(t)) \in {} => t \in Hers(req[r], held[r], Rows)
        /\ InTurn(req[r], {}, "commit")
    BY <1>2, RowsInTurn
  <2> QED
    BY <1>1, <1>2, <1>5, <2>1, <2>2, <2>3, <2>4, OwnerProceeds
<1>6. CASE Proceed(r, Tx(r), "commit")
  BY <1>2, <1>3, <1>5, <1>6 DEF Who
<1>7. CASE row.factor = 0 /\ Proceed(r, Change(Tx(r), v, new), "commit")
  <2> HIDE DEF new
  <2> DEFINE tx == Change(Tx(r), v, new)
  <2>1. /\ HasFields(tx, TxFields) /\ tx.time = Tx(r).time /\ tx.who = Tx(r).who
        /\ tx.want = Tx(r).want /\ tx.throttle = Tx(r).throttle /\ tx.found = Tx(r).found
        /\ tx.sessions = Tx(r).sessions /\ tx.accepted = Tx(r).accepted
        /\ tx.account = Only(v, new)
    BY <1>3, TxChanged DEF Change, HasFields, TxFields
  <2> HIDE DEF tx
  <2>2. Proceed(r, tx, "commit") /\ Tx(r).who = v /\ row.factor = 0
    BY <1>7 DEF tx, Who
  <2> QED
    BY <1>2, <1>5, <2>1, <2>2
<1> QED
  BY <1>4, <1>6, <1>7 DEF StartMfaEnrollment

\* The sessions of the reviewer are found and locked, to be revoked: no other can come
\* while the account's row is held (revoke_reviewer_sessions).
LEMMA FindsSessions ==
  ASSUME IInv, NEW r \in Requests, req[r].at \in Revokers, NEW tx, HasFields(tx, TxFields),
         NEW locks, tx.time = Tx(r).time, tx.who = Who(r), tx.sessions = None, tx.accepted = {},
         tx.account = Only(Who(r), NewRow(Call(r).op, account[Who(r)])),
         Call(r).op = "reset factor" => account[Who(r)].enabled,
         \/ tx.throttle = None /\ locks = {}
         \/ /\ DOMAIN tx.throttle = {FactorKey(Who(r))} /\ tx.throttle[FactorKey(Who(r))] = Gone
            /\ FactorKey(Who(r)) \in DOMAIN throttle
            /\ locks = {Exclusive(ThrottleLock(FactorKey(Who(r))))},
         FindSessions(r, tx, Keeps(req[r]), locks)
  PROVE  IInv'
<1> DEFINE x == req[r]
           H == held[r]
           M == Rows
           v == Who(r)
           found == ToRevoke(v, Keeps(x))
           L == {Exclusive(SessionLock(t)) : t \in found} \cup locks
           ty == [tx EXCEPT !.found = found]
<1>1. /\ Call(r).op = x.at /\ Call(r).op = x.call.op /\ Call(r).op \in Owners
      /\ x.at \notin {"lock", "upsert", "row", "idle", "done", "commit", "hash", "record",
                      First(Call(r).op)}
      /\ Tx(r).throttle = None /\ Tx(r) = x.tx /\ v = x.tx.who /\ v \in Reviewers
      /\ Claimed(x, H) = H
  <2>1. x.at \in Owners
    BY DEF Owners
  <2> QED
    BY <2>1, AtOperation
<1>2. /\ M.account = account /\ M.sessions = sessions /\ M.throttle = throttle /\ RowsTyped(M)
  BY Before
<1>3. found \subseteq {t \in DOMAIN M.sessions : M.sessions[t].by = v} \ Keeps(x)
      /\ \A t \in DOMAIN M.sessions :
           M.sessions[t].by = v => t \in found \cup Keeps(x) \/ M.sessions[t].revoked
  BY <1>2 DEF ToRevoke, SessionsOf
<1> HIDE DEF found
<1>4. /\ HasFields(ty, TxFields) /\ ty.time = tx.time /\ ty.who = tx.who
      /\ ty.sessions = tx.sessions /\ ty.accepted = tx.accepted /\ ty.account = tx.account
      /\ ty.throttle = tx.throttle /\ ty.found = found
  BY TxChanged DEF HasFields, TxFields
<1>5. Acquire(r, ty, L, "revoke")
  BY DEF FindSessions, found
<1> HIDE DEF ty
<1>6. FactorKey(v) \in ThrottleKey /\ FactorKey(v)[1] = "mfa" /\ FactorKey(v)[2] = v
  BY <1>1, Keys
<1>7. DOMAIN ty.throttle \subseteq {FactorKey(v)}
      /\ \A key \in DOMAIN ty.throttle : ty.throttle[key] = Gone /\ RowLock(key) \in L
                                         /\ key \in DOMAIN throttle
  BY <1>4 DEF None, RowLock
<1>8. /\ L \subseteq {RowLock(FactorKey(v))} \cup SessionLocks(Tokens)
      /\ \A t : Exclusive(SessionLock(t)) \in L => t \in found
      /\ SessionLocks(found) \subseteq L
  <2>1. found \subseteq Tokens
    BY <1>2, <1>3 DEF RowsTyped
  <2>2. locks \subseteq {RowLock(FactorKey(v))}
    BY DEF RowLock
  <2>5. \A a \in L : (\E t \in found : a = Exclusive(SessionLock(t))) \/ a = RowLock(FactorKey(v))
    BY <2>2
  <2>6. /\ \A t, k : Exclusive(SessionLock(t)) # RowLock(k)
        /\ \A t, u : Exclusive(SessionLock(t)) = Exclusive(SessionLock(u)) => t = u
    BY ONLY LockNames DEF RowLock
  <2>4. \A t : Exclusive(SessionLock(t)) \in L => t \in found
    BY ONLY <2>5, <2>6
  <2> QED
    BY <2>1, <2>2, <2>4 DEF SessionLocks
<1>9. found \subseteq Hers(x, H, M)
  BY <1>1, <1>3 DEF Hers
<1>10. ASSUME NEW y, Goes(x, y, ty, IF L = {} THEN "revoke" ELSE "lock", "revoke", L)
       PROVE  ThrottleWritten(y, H, M) /\ Particular(y, H, M)
  <2>1. /\ Stage(y) = "revoke" /\ y.call = x.call /\ y.tx.sessions = None /\ y.tx.accepted = {}
        /\ y.tx.throttle = ty.throttle /\ y.tx.who = v /\ y.tx.account = tx.account
        /\ y.tx.found = found /\ Claimed(y, H) = H \cup L
    BY <1>1, <1>4, <1>10 DEF Goes, Claimed
  <2>2. ThrottleWritten(y, H, M)
    <3>1. \A key \in DOMAIN y.tx.throttle :
            /\ key \in ThrottleKey /\ key[1] = "mfa" /\ y.tx.throttle[key] = Gone
            /\ RowLock(key) \in Claimed(y, H)
      BY <1>6, <1>7, <2>1
    <3> QED
      BY ONLY <3>1 DEF ThrottleWritten
  <2>3. Revoking(y, H, M)
    <3>1. /\ y.tx.account = Only(y.tx.who, NewRow(y.call.op, M.account[y.tx.who]))
          /\ y.call.op = "reset factor" => M.account[y.tx.who].enabled
      BY <1>1, <1>2, <2>1
    <3>2. Keeps(y) = Keeps(x) /\ SessionLocks(y.tx.found) \subseteq Claimed(y, H)
      BY <1>8, <2>1 DEF Keeps
    <3>3. y.tx.found \cap Keeps(y) = {}
      BY <1>3, <2>1, <3>2
    <3>4. \A t \in DOMAIN M.sessions :
            M.sessions[t].by = y.tx.who => t \in y.tx.found \cup Keeps(y) \/ M.sessions[t].revoked
      BY <1>3, <2>1, <3>2
    <3> QED
      BY ONLY <2>1, <3>1, <3>2, <3>3, <3>4 DEF Revoking
  <2>4. y.call.op \in Revokers /\ y.call.op \notin {"enroll", "enable", "verify", "reinstate"}
    BY <1>1, <2>1 DEF Revokers
  <2> QED
    BY <2>2, <2>3, <2>4 DEF Particular
<1>11. "revoke" \notin
         {"lock", "upsert", "row", "idle", "done", "hash", First(Call(r).op), Call(r).op}
  BY <1>1 DEF First, Revokers
<1>12. \A key \in DOMAIN ty.throttle : key[1] \in {"mfa", "used"} /\ key[2] = v
  BY <1>6, <1>7
<1>13. \A key \in ThrottleKey :
         key[1] # "used" /\ RowLock(key) \in H /\ key \notin DOMAIN throttle =>
           (key \in DOMAIN ty.throttle <=> key \in DOMAIN Tx(r).throttle)
  BY <1>1, <1>7 DEF None
<1>14. \A t : Exclusive(SessionLock(t)) \in L => t \in Hers(x, H, M)
  BY <1>8, <1>9
<1>16. InTurn(x, L, "revoke")
  BY <1>1, <1>8, RowsInTurn
<1> HIDE DEF L, x, H, M, v
<1>15. ty.time = Tx(r).time /\ ty.who = v /\ ty.found \subseteq Hers(x, H, M)
  BY <1>4, <1>9 DEF v
<1> QED
  BY <1>1, <1>4, <1>5, <1>10, <1>11, <1>12, <1>13, <1>14, <1>15, <1>16, OwnerProceeds DEF x, H, M, v

\* A change of the account, of none or all its sessions.
LEMMA AccountChanged ==
  ASSUME NEW tx, HasFields(tx, TxFields), NEW v, NEW row
  PROVE  /\ HasFields(Change(tx, v, row), TxFields) /\ Change(tx, v, row).time = tx.time
         /\ Change(tx, v, row).who = tx.who /\ Change(tx, v, row).sessions = tx.sessions
         /\ Change(tx, v, row).accepted = tx.accepted /\ Change(tx, v, row).want = tx.want
         /\ Change(tx, v, row).throttle = tx.throttle /\ Change(tx, v, row).found = tx.found
         /\ Change(tx, v, row).account = Only(v, row)
<1> DEFINE new == Only(v, row)
<1> HIDE DEF new
<1>1. Change(tx, v, row) = [tx EXCEPT !.account = new]
  BY DEF Change, new
<1>2. [tx EXCEPT !.account = new].account = new
  BY DEF HasFields, TxFields
<1> QED
  BY <1>1, <1>2, TxChanged DEF new, HasFields, TxFields

\* The password is changed (change_password).
LEMMA ChangeStep ==
  ASSUME IInv, NEW r \in Requests, ChangePassword(r)
  PROVE  IInv'
<1> DEFINE row == account[Who(r)]
           new == [row EXCEPT !.password = @ + 1, !.mustChange = FALSE]
           tx  == Change(Tx(r), Who(r), new)
<1>1. req[r].at = "change" /\ "change" \in Owners /\ "change" \in Revokers
  BY DEF ChangePassword, At, Owners, Revokers
<1>2. /\ Call(r).op = "change" /\ Call(r) = req[r].call
      /\ Tx(r).sessions = None /\ Tx(r).accepted = {} /\ Tx(r).throttle = None
  BY <1>1, AtOperation
<1>3. HasFields(Tx(r), TxFields)
  BY Before
<1>4. CASE Abort(r, "unauthorized")
  BY <1>1, <1>4, AbortStep
<1>5. CASE FindSessions(r, tx, {Call(r).token}, {})
  <2>1. new = NewRow(Call(r).op, row) /\ Keeps(req[r]) = {Call(r).token}
    BY <1>2 DEF NewRow, Keeps
  <2> HIDE DEF new
  <2>2. /\ HasFields(tx, TxFields) /\ tx.time = Tx(r).time /\ tx.who = Who(r)
        /\ tx.sessions = None /\ tx.accepted = {} /\ tx.throttle = None
        /\ tx.account = Only(Who(r), new)
    BY <1>2, <1>3, AccountChanged DEF Who
  <2> HIDE DEF tx
  <2> QED
    BY <1>1, <1>2, <1>5, <2>1, <2>2, FindsSessions
<1> QED
  BY <1>4, <1>5 DEF ChangePassword

\* It is reset (reset_reviewer_password).
LEMMA ResetPasswordStep ==
  ASSUME IInv, NEW r \in Requests, ResetPassword(r)
  PROVE  IInv'
<1> DEFINE row == account[Who(r)]
           new == [row EXCEPT !.password = @ + 1, !.mustChange = TRUE]
           tx  == Change(Tx(r), Who(r), new)
<1>1. /\ req[r].at = "reset password" /\ "reset password" \in Owners
      /\ "reset password" \in Revokers
  BY DEF ResetPassword, At, Owners, Revokers
<1>2. /\ Call(r).op = "reset password" /\ Call(r) = req[r].call
      /\ Tx(r).sessions = None /\ Tx(r).accepted = {} /\ Tx(r).throttle = None
  BY <1>1, AtOperation
<1>3. HasFields(Tx(r), TxFields)
  BY Before
<1>4. FindSessions(r, tx, {}, {})
  BY DEF ResetPassword
<1>5. new = NewRow(Call(r).op, row) /\ Keeps(req[r]) = {}
  BY <1>2 DEF NewRow, Keeps
<1>a. Who(r) = Tx(r).who
  BY DEF Who
<1> HIDE DEF new
<1>6. /\ HasFields(tx, TxFields) /\ tx.time = Tx(r).time /\ tx.who = Who(r)
      /\ tx.sessions = None /\ tx.accepted = {} /\ tx.throttle = None
      /\ tx.account = Only(Who(r), new)
  <2>1. /\ HasFields(tx, TxFields) /\ tx.time = Tx(r).time /\ tx.who = Tx(r).who
        /\ tx.sessions = Tx(r).sessions /\ tx.accepted = Tx(r).accepted
        /\ tx.throttle = Tx(r).throttle /\ tx.account = Only(Who(r), new)
    BY ONLY <1>3, AccountChanged
  <2> HIDE DEF tx
  <2> QED
    BY ONLY <1>2, <1>a, <2>1
<1> HIDE DEF tx
<1> QED
  BY <1>1, <1>2, <1>4, <1>5, <1>6, FindsSessions

\* The factor is reset, and its throttle row goes with it (reset_reviewer_mfa).
LEMMA ResetFactorStep ==
  ASSUME IInv, NEW r \in Requests, ResetFactor(r)
  PROVE  IInv'
<1> DEFINE row == account[Who(r)]
           key == FactorKey(Who(r))
           new == [row EXCEPT !.factor = 0, !.enabled = FALSE]
           tx  == Change(Tx(r), Who(r), new)
<1>1. req[r].at = "reset factor" /\ "reset factor" \in Owners /\ "reset factor" \in Revokers
  BY DEF ResetFactor, At, Owners, Revokers
<1>2. /\ Call(r).op = "reset factor" /\ Call(r) = req[r].call
      /\ Tx(r).sessions = None /\ Tx(r).accepted = {} /\ Tx(r).throttle = None
  BY <1>1, AtOperation
<1>3. HasFields(Tx(r), TxFields)
  BY Before
<1>4. CASE Abort(r, "refused")
  BY <1>1, <1>4, AbortStep
<1>5. new = NewRow(Call(r).op, row) /\ Keeps(req[r]) = {}
  BY <1>2 DEF NewRow, Keeps
<1>a. Who(r) = Tx(r).who
  BY DEF Who
<1> HIDE DEF new, key
<1>6. /\ HasFields(tx, TxFields) /\ tx.time = Tx(r).time /\ tx.who = Who(r)
      /\ tx.sessions = None /\ tx.accepted = {} /\ tx.throttle = None
      /\ tx.account = Only(Who(r), new)
  <2>1. /\ HasFields(tx, TxFields) /\ tx.time = Tx(r).time /\ tx.who = Tx(r).who
        /\ tx.sessions = Tx(r).sessions /\ tx.accepted = Tx(r).accepted
        /\ tx.throttle = Tx(r).throttle /\ tx.account = Only(Who(r), new)
    BY ONLY <1>3, AccountChanged
  <2> HIDE DEF tx
  <2> QED
    BY ONLY <1>2, <1>a, <2>1
<1> HIDE DEF tx
<1>7. CASE row.enabled /\ FindSessions(r, tx, {}, {})
  BY <1>1, <1>2, <1>5, <1>6, <1>7, FindsSessions
<1>8. CASE /\ row.enabled /\ key \in DOMAIN throttle
           /\ FindSessions(r, Write(tx, key, Gone), {}, {Exclusive(ThrottleLock(key))})
  <2> DEFINE ty == Write(tx, key, Gone)
  <2>1. /\ HasFields(ty, TxFields) /\ ty.time = tx.time /\ ty.who = tx.who
        /\ ty.sessions = tx.sessions /\ ty.accepted = tx.accepted /\ ty.account = tx.account
        /\ ty.throttle = Put(tx.throttle, key, Gone)
    BY <1>6, TxChanged DEF Write, HasFields, TxFields
  <2> HIDE DEF ty
  <2>2. DOMAIN ty.throttle = {key} /\ ty.throttle[key] = Gone
    <3>1. DOMAIN tx.throttle = {}
      BY <1>6 DEF None
    <3> QED
      BY <2>1, <3>1 DEF Put
  <2>3. FindSessions(r, ty, {}, {Exclusive(ThrottleLock(key))})
    BY <1>8 DEF ty
  <2> QED
    BY <1>1, <1>2, <1>5, <1>6, <1>8, <2>1, <2>2, <2>3, FindsSessions DEF key
<1>9. \/ Abort(r, "refused") \/ (row.enabled /\ FindSessions(r, tx, {}, {}))
      \/ /\ row.enabled /\ key \in DOMAIN throttle
         /\ FindSessions(r, Write(tx, key, Gone), {}, {Exclusive(ThrottleLock(key))})
  BY DEF ResetFactor, tx, key, new
<1> QED
  BY <1>4, <1>7, <1>8, <1>9

\* An operation past its own step has the account's row.
LEMMA PastOperation ==
  ASSUME IInv, NEW r \in Requests, req[r].at \in {"revoke", "audit", "record", "mark", "attempt"}
  PROVE  /\ Call(r).op \in Owners /\ Call(r) \in CallRecord /\ Call(r) = req[r].call
         /\ req[r].at \notin
              {"lock", "upsert", "row", "idle", "done", "commit", "hash", First(Call(r).op)}
         /\ Who(r) \in Reviewers /\ Who(r) = req[r].tx.who /\ Tx(r) = req[r].tx
         /\ Tx(r).want = {} /\ Tx(r).found \subseteq Hers(req[r], held[r], Rows)
         /\ Claimed(req[r], held[r]) = held[r] /\ Stage(req[r]) = req[r].at
         /\ HasAccount(req[r], held[r])
         /\ Owning(req[r], held[r], Rows) /\ ThrottleWritten(req[r], held[r], Rows)
         /\ Particular(req[r], held[r], Rows)
         /\ \A key \in DOMAIN Tx(r).throttle : key[1] \in {"mfa", "used"} /\ key[2] = Who(r)
         /\ req[r].at = "revoke" => Call(r).op \in Revokers
         /\ req[r].at \in {"audit", "record"} =>
              Call(r).op \in Revokers \cup {"reinstate"} /\ Call(r).op \in OfAdministrator
         /\ req[r].at \in {"mark", "attempt"} => Call(r).op \in {"enable", "verify"}
<1> DEFINE x == req[r]
           H == held[r]
           M == Rows
<1>1. Local(x, H, M) /\ Tx(r) = x.tx /\ Call(r) = x.call /\ Who(r) = x.tx.who
  BY Before DEF Tx, Call, Who
<1>2. x.at \in {"revoke", "audit", "record", "mark", "attempt"}
  OBVIOUS
<1> HIDE DEF x, H, M
<1>3. /\ Working(x, H, M) /\ x.call \in CallRecord
      /\ x.at = "revoke" => x.call.op \in Revokers
      /\ x.at \in {"audit", "record"} =>
           x.call.op \in Revokers \cup {"reinstate"} /\ x.call.op \in OfAdministrator
      /\ x.at \in {"mark", "attempt"} => x.call.op \in {"enable", "verify"}
  BY <1>1, <1>2, AtTells
<1>4. x.call.op \in Owners /\ x.at \notin {First(x.call.op), x.call.op}
  BY <1>2, <1>3 DEF Owners, Revokers, First
<1>5. Stage(x) = x.at /\ x.tx.want = {} /\ Claimed(x, H) = H
  BY <1>1, <1>2 DEF Local, Stage, Claimed
<1>6. Owning(x, H, M) /\ ThrottleWritten(x, H, M) /\ Particular(x, H, M)
  BY <1>3, <1>4 DEF Working, Particular
<1>7. /\ HasAccount(x, H) /\ x.tx.who \in Reviewers
      /\ \A key \in DOMAIN x.tx.throttle : key[1] \in {"mfa", "used"} /\ key[2] = x.tx.who
  BY <1>4, <1>5, <1>6 DEF Owning
<1>8. x.tx.found \subseteq Hers(x, H, M)
  BY DEF Hers, Concerns
<1> QED
  BY <1>1, <1>2, <1>3, <1>4, <1>5, <1>6, <1>7, <1>8 DEF x, H, M

\* An operation past its own step goes on, and leaves the throttle rows as they are.
LEMMA PastProceeds ==
  ASSUME IInv, NEW r \in Requests, req[r].at \in {"revoke", "audit", "record", "mark"},
         NEW tx, HasFields(tx, TxFields), tx.time = Tx(r).time, tx.who = Who(r), tx.want = {},
         tx.found = Tx(r).found, tx.throttle = Tx(r).throttle,
         NEW L, \A t : Exclusive(SessionLock(t)) \notin L,
         NEW label, label \in {"audit", "record", "commit"}, InTurn(req[r], L, label),
         (Proceed(r, tx, label) /\ L = {}) \/ Acquire(r, tx, L, label),
         \A y : Goes(req[r], y, tx, IF L = {} THEN label ELSE "lock", label, L) =>
                  Particular(y, held[r], Rows)
  PROVE  IInv'
<1> DEFINE x == req[r]
           H == held[r]
           M == Rows
<1>1. /\ Call(r).op \in Owners /\ Call(r) = x.call
      /\ x.at \notin {"lock", "upsert", "row", "idle", "done", "commit", "hash", First(Call(r).op)}
      /\ Tx(r) = x.tx /\ Tx(r).found \subseteq Hers(x, H, M) /\ Claimed(x, H) = H
      /\ ThrottleWritten(x, H, M)
      /\ \A key \in DOMAIN Tx(r).throttle : key[1] \in {"mfa", "used"} /\ key[2] = Who(r)
  BY PastOperation
<1>2. ASSUME NEW y, Goes(x, y, tx, IF L = {} THEN label ELSE "lock", label, L)
      PROVE  ThrottleWritten(y, H, M) /\ Particular(y, H, M)
  <2>1. y.tx.throttle = x.tx.throttle /\ H \subseteq Claimed(y, H)
    BY <1>1, <1>2 DEF Goes, Claimed
  <2>2. ThrottleWritten(y, H, M)
    BY <1>1, <2>1 DEF ThrottleWritten
  <2> QED
    BY <1>2, <2>2
<1>3. InTurn(req[r], L, label) /\ \A t : Exclusive(SessionLock(t)) \notin L
  OBVIOUS
<1>4. label \notin
        {"lock", "upsert", "row", "idle", "done", "hash", First(Call(r).op), Call(r).op}
  BY <1>1 DEF Owners, Revokers, First
<1>5. /\ \A key \in DOMAIN tx.throttle : key[1] \in {"mfa", "used"} /\ key[2] = Who(r)
      /\ DOMAIN tx.throttle = DOMAIN Tx(r).throttle
  BY <1>1
<1> HIDE DEF x, H, M
<1> QED
  BY <1>1, <1>2, <1>3, <1>4, <1>5, OwnerProceeds DEF x, H, M

\* The sessions found are revoked (revoke_reviewer_sessions).
LEMMA RevokeStep ==
  ASSUME IInv, NEW r \in Requests, RevokeSessions(r)
  PROVE  IInv'
<1> DEFINE x == req[r]
           H == held[r]
           M == Rows
           S == [t \in Tx(r).found \cap DOMAIN sessions |-> [sessions[t] EXCEPT !.revoked = TRUE]]
           tx == [Tx(r) EXCEPT !.sessions = S]
           label == IF Call(r).op = "change" THEN "commit" ELSE "audit"
<1>1. x.at = "revoke" /\ Proceed(r, tx, label)
  BY DEF RevokeSessions, At
<1>2. /\ Call(r).op \in Revokers /\ Call(r) = x.call /\ Stage(x) = "revoke"
      /\ Who(r) = x.tx.who /\ Tx(r) = x.tx /\ Tx(r).want = {} /\ Claimed(x, H) = H
      /\ Particular(x, H, M)
  BY <1>1, PastOperation
<1>3. Revoking(x, H, M)
  BY <1>2 DEF Particular
<1>4. HasFields(Tx(r), TxFields) /\ M.sessions = sessions
  BY Before
<1>5. /\ x.tx.account = Only(x.tx.who, NewRow(x.call.op, M.account[x.tx.who])) /\ x.tx.accepted = {}
      /\ x.call.op = "reset factor" => M.account[x.tx.who].enabled
      /\ x.tx.found \cap Keeps(x) = {}
      /\ SessionLocks(x.tx.found) \subseteq H
      /\ \A t \in DOMAIN M.sessions :
           M.sessions[t].by = x.tx.who => t \in x.tx.found \cup Keeps(x) \/ M.sessions[t].revoked
  BY <1>2, <1>3 DEF Revoking
<1>6. /\ DOMAIN S = x.tx.found \cap DOMAIN M.sessions
      /\ \A t \in DOMAIN S : S[t] = [M.sessions[t] EXCEPT !.revoked = TRUE]
  BY <1>2, <1>4
<1> HIDE DEF S
<1>7. /\ HasFields(tx, TxFields) /\ tx.time = Tx(r).time /\ tx.who = Tx(r).who
      /\ tx.want = Tx(r).want /\ tx.found = Tx(r).found /\ tx.throttle = Tx(r).throttle
      /\ tx.sessions = S /\ tx.account = Tx(r).account /\ tx.accepted = Tx(r).accepted
  BY <1>4, TxChanged DEF HasFields, TxFields
<1> HIDE DEF tx
<1>8. ASSUME NEW y, Goes(x, y, tx, label, label, {})
      PROVE  Particular(y, H, M)
  <2>1. /\ y.call = x.call /\ Stage(y) \in {"audit", "commit"} /\ y.tx.who = x.tx.who
        /\ y.tx.account = x.tx.account /\ y.tx.accepted = {} /\ y.tx.sessions = S
        /\ Keeps(y) = Keeps(x)
    BY <1>2, <1>5, <1>7, <1>8 DEF Goes, Keeps
  <2>2. \A t \in DOMAIN y.tx.sessions :
          /\ t \in DOMAIN M.sessions \ Keeps(y) /\ Exclusive(SessionLock(t)) \in H
          /\ y.tx.sessions[t] = [M.sessions[t] EXCEPT !.revoked = TRUE]
    BY <1>5, <1>6, <2>1 DEF SessionLocks
  <2>3. \A t \in DOMAIN M.sessions :
          M.sessions[t].by = y.tx.who =>
            t \in DOMAIN y.tx.sessions \cup Keeps(y) \/ M.sessions[t].revoked
    BY <1>5, <1>6, <2>1
  <2>4. Revoking(y, H, M)
    <3> HIDE DEF x, H, M
    <3> QED
      BY ONLY <1>5, <2>1, <2>2, <2>3 DEF Revoking
  <2>5. y.call.op \in Revokers /\ y.call.op \notin {"enroll", "enable", "verify", "reinstate"}
    BY <1>2, <2>1 DEF Revokers
  <2> QED
    BY <2>4, <2>5 DEF Particular
<1>9. tx.who = Who(r) /\ tx.want = {} /\ label \in {"audit", "commit"}
  BY <1>2, <1>7
<1>11. InTurn(req[r], {}, label)
  BY <1>1, <1>2 DEF InTurn, Revokers, OfAdministrator
<1>12. label \in {"audit", "record", "commit"} /\ x.at \in {"revoke", "audit", "record", "mark"}
  BY <1>1
<1> HIDE DEF label, x, H, M
<1>10. \A y : Goes(req[r], y, tx, IF {} = {} THEN label ELSE "lock", label, {}) =>
                Particular(y, held[r], Rows)
  BY <1>8 DEF x, H, M
<1> QED
  BY <1>1, <1>7, <1>9, <1>10, <1>11, <1>12, PastProceeds DEF x

\* The chain is locked, and the event appended with the commit (append_account_audit).
LEMMA AuditStep ==
  ASSUME IInv, NEW r \in Requests, AppendAccountAudit(r)
  PROVE  IInv'
<1> DEFINE x == req[r]
           H == held[r]
           M == Rows
<1>1. /\ x.at \in {"audit", "record"} /\ x.at \in {"revoke", "audit", "record", "mark"}
      /\ \/ x.at = "audit" /\ Acquire(r, Tx(r), {Exclusive(AuditLock)}, "record")
         \/ x.at = "record" /\ Acquire(r, Tx(r), {Shared(AccountLock(Call(r).by))}, "commit")
  BY DEF AppendAccountAudit, At
<1>2. /\ Call(r).op \in Revokers \cup {"reinstate"} /\ Call(r).op \in OfAdministrator
      /\ Call(r) = x.call /\ Stage(x) = x.at /\ Call(r) \in CallRecord
      /\ Who(r) = x.tx.who /\ Tx(r) = x.tx /\ Tx(r).want = {} /\ Particular(x, H, M)
  BY <1>1, PastOperation
<1>3. HasFields(Tx(r), TxFields) /\ Tx(r).who = Who(r)
  BY Before DEF Who
<1>4. ASSUME NEW y, NEW at, NEW label \in {"record", "commit"}, NEW L,
             Goes(x, y, Tx(r), at, label, L)
      PROVE  Particular(y, H, M)
  <2>1. /\ y.call = x.call /\ Stage(y) \in {"record", "commit"} /\ y.tx.who = x.tx.who
        /\ y.tx.account = x.tx.account /\ y.tx.accepted = x.tx.accepted
        /\ y.tx.sessions = x.tx.sessions /\ Keeps(y) = Keeps(x)
        /\ Stage(x) \in {"audit", "record"}
    BY <1>1, <1>2, <1>4 DEF Goes, Keeps
  <2> HIDE DEF x, H, M
  <2>2. CASE x.call.op \in Revokers
    <3>1. Revoking(x, H, M) /\ x.call.op \notin {"enroll", "enable", "verify", "reinstate"}
      BY <1>2, <2>2 DEF Particular, Revokers
    <3>2. Revoking(y, H, M)
      BY ONLY <2>1, <3>1 DEF Revoking
    <3> QED
      BY <2>1, <3>1, <3>2 DEF Particular
  <2>3. CASE x.call.op = "reinstate"
    <3>1. Reinstating(x, H, M) /\ x.call.op \notin {"enroll", "enable", "verify"} \cup Revokers
      BY <1>2, <2>3 DEF Particular, Revokers
    <3>2. Reinstating(y, H, M)
      BY ONLY <2>1, <3>1 DEF Reinstating
    <3> QED
      BY <2>1, <3>1, <3>2 DEF Particular
  <2> QED
    BY <1>2, <2>2, <2>3
<1>5. ASSUME NEW L, NEW label \in {"record", "commit"}, Acquire(r, Tx(r), L, label),
             \A t : Exclusive(SessionLock(t)) \notin L, InTurn(x, L, label)
      PROVE  IInv'
  <2>1. \A y : Goes(x, y, Tx(r), IF L = {} THEN label ELSE "lock", label, L) => Particular(y, H, M)
    BY <1>4
  <2>2. label \in {"audit", "record", "commit"}
    OBVIOUS
  <2> HIDE DEF x, H, M
  <2>3. \A y : Goes(req[r], y, Tx(r), IF L = {} THEN label ELSE "lock", label, L) =>
                 Particular(y, held[r], Rows)
    BY <2>1 DEF x, H, M
  <2> QED
    BY <1>1, <1>2, <1>3, <1>5, <2>2, <2>3, PastProceeds DEF x
<1>6. CASE x.at = "audit" /\ Acquire(r, Tx(r), {Exclusive(AuditLock)}, "record")
  <2> DEFINE L == {Exclusive(AuditLock)}
  <2>1. (\A t : Exclusive(SessionLock(t)) \notin L) /\ L \cap ActorLocks = {}
    BY ONLY LockNames DEF ActorLocks
  <2>2. InTurn(x, L, "record")
    BY <1>2, <1>6, <2>1 DEF InTurn
  <2>3. Acquire(r, Tx(r), L, "record")
    BY <1>6
  <2> HIDE DEF L, x
  <2> QED
    BY <1>5, <2>1, <2>2, <2>3
<1>7. CASE x.at = "record" /\ Acquire(r, Tx(r), {Shared(AccountLock(Call(r).by))}, "commit")
  <2> DEFINE L == {Shared(AccountLock(Call(r).by))}
  <2>1. (\A t : Exclusive(SessionLock(t)) \notin L) /\ Exclusive(AuditLock) \notin L
    BY ONLY LockNames
  <2>2. L \subseteq ActorLocks
    BY <1>2, CallOps DEF ActorLocks
  <2>3. InTurn(x, L, "commit")
    <3>1. L \cap ActorLocks # {} /\ L = {Shared(AccountLock(x.call.by))}
      BY <1>2, <2>2
    <3> HIDE DEF L
    <3> QED
      BY <1>2, <2>1, <2>2, <3>1 DEF InTurn
  <2>4. Acquire(r, Tx(r), L, "commit")
    BY <1>7
  <2> HIDE DEF L, x
  <2> QED
    BY <1>5, <2>1, <2>3, <2>4
<1> QED
  BY <1>1, <1>6, <1>7

\* The session is marked verified by the factor there is (verify_mfa_code, enable_mfa).
LEMMA MarkStep ==
  ASSUME IInv, NEW r \in Requests, MarkMfaVerified(r)
  PROVE  IInv'
<1> DEFINE x == req[r]
           H == held[r]
           M == Rows
           t == Call(r).token
           new == Only(t, [sessions[t] EXCEPT !.verified = account[Who(r)].factor])
           tx == [Tx(r) EXCEPT !.sessions = new]
<1>1. x.at = "mark"
  BY DEF MarkMfaVerified, At
<1>2. /\ Call(r).op \in {"enable", "verify"} /\ Call(r) = x.call /\ Stage(x) = "mark"
      /\ Who(r) = x.tx.who /\ Tx(r) = x.tx /\ Tx(r).want = {} /\ Particular(x, H, M)
      /\ Claimed(x, H) = H
  BY <1>1, PastOperation
<1>3. HasFields(Tx(r), TxFields) /\ M.sessions = sessions /\ M.account = account
  BY Before
<1>4. CASE Abort(r, "error")
  BY <1>1, <1>4, AbortStep
<1>5. CASE t \in DOMAIN sessions /\ Proceed(r, tx, "commit")
  <2>1. Proving(x, H, M)
    BY <1>2 DEF Particular
  <2>2. /\ Accepting(x, H, M) /\ Exclusive(SessionLock(t)) \in H
        /\ IF x.call.op = "enable" THEN M.account[x.tx.who].factor # 0 ELSE M.account[x.tx.who].enabled
    BY <1>2, <2>1 DEF Proving
  <2>3. /\ HasFields(tx, TxFields) /\ tx.time = Tx(r).time /\ tx.who = Tx(r).who
        /\ tx.want = Tx(r).want /\ tx.found = Tx(r).found /\ tx.throttle = Tx(r).throttle
        /\ tx.sessions = new /\ tx.account = Tx(r).account /\ tx.accepted = Tx(r).accepted
    <3> HIDE DEF new
    <3> QED
      BY <1>3, TxChanged DEF HasFields, TxFields
  <2> HIDE DEF tx
  <2>4. ASSUME NEW y, Goes(x, y, tx, "commit", "commit", {})
        PROVE  Particular(y, H, M)
    <3>1. /\ y.call = x.call /\ Stage(y) = "commit" /\ y.tx.who = x.tx.who
          /\ y.tx.account = x.tx.account /\ y.tx.accepted = x.tx.accepted
          /\ y.tx.throttle = x.tx.throttle
      BY <1>2, <2>3, <2>4 DEF Goes
    <3>2. /\ y.tx.sessions =
               Only(y.call.token,
                    [M.sessions[y.call.token] EXCEPT !.verified = M.account[y.tx.who].factor])
          /\ y.call.token \in DOMAIN M.sessions /\ Exclusive(SessionLock(y.call.token)) \in H
          /\ y.call.op \in {"enable", "verify"}
      BY <1>2, <1>3, <1>5, <2>2, <2>3, <2>4, <3>1 DEF Goes
    <3> HIDE DEF x, H, M
    <3>3. Accepting(y, H, M)
      BY ONLY <2>2, <3>1 DEF Accepting
    <3>4. IF y.call.op = "enable" THEN M.account[y.tx.who].factor # 0 ELSE M.account[y.tx.who].enabled
      BY ONLY <2>2, <3>1
    <3>5. Proving(y, H, M)
      BY ONLY <3>1, <3>2, <3>3, <3>4 DEF Proving
    <3>6. y.call.op \notin {"enroll", "reinstate"} \cup Revokers
      BY <3>2 DEF Revokers
    <3> QED
      BY <3>2, <3>5, <3>6 DEF Particular
  <2>5. tx.who = Who(r) /\ tx.want = {}
    BY <1>2, <2>3
  <2>7. InTurn(req[r], {}, "commit") /\ x.at \in {"revoke", "audit", "record", "mark"}
    BY <1>1, RowsInTurn
  <2> HIDE DEF x, H, M
  <2>6. \A y : Goes(req[r], y, tx, IF {} = {} THEN "commit" ELSE "lock", "commit", {}) =>
                 Particular(y, held[r], Rows)
    BY <2>4 DEF x, H, M
  <2> QED
    BY <1>1, <1>5, <2>3, <2>5, <2>6, <2>7, PastProceeds DEF x
<1> QED
  BY <1>4, <1>5 DEF MarkMfaVerified

\* The Seniors' rows are wanted one by one, then the account's (set_reviewer_active_admin).
LEMMA FindAccountMoves ==
  ASSUME NEW x, NEW y, NEW H, NEW M, Local(x, H, M), x.at = "find account", NEW L, NEW label,
         Goes(x, y, x.tx, IF L = {} THEN label ELSE "lock", label, L),
         \/ /\ label = "find account"
            /\ \E s \in Seniors :
                 /\ L = {Exclusive(AccountLock(s))}
                 /\ \A u \in Seniors : u < s => Exclusive(AccountLock(u)) \in H
         \/ /\ label = x.call.op /\ SeniorLocks \subseteq H
            /\ L = {Exclusive(AccountLock(x.tx.who))} \ H
  PROVE  Local(y, H, M) /\ Quiet(x, H, y, H, M)
<1> DEFINE v == x.tx.who
           All == {Exclusive(SecurityLock(v)), Exclusive(AccountLock(v)), Exclusive(AuditLock),
                   RowLock(FactorKey(v))} \cup SessionLocks(Tokens) \cup SeniorLocks \cup ActorLocks
<1>1. Working(x, H, M) /\ x.call.op \in {"suspend", "reinstate"}
  BY AtTells
<1>2. /\ x.call.op \in Owners /\ First(x.call.op) = "find account" /\ Stage(x) = "find account"
      /\ x.call.op # "find account" /\ x.call.op \notin {"login", "logout"}
      /\ label \in {"find account", x.call.op}
      /\ label \notin {"lock", "upsert", "row", "idle", "done", "audit", "record"}
  BY <1>1 DEF Owners, Revokers, First, Stage
<1>3. Owning(x, H, M) /\ ThrottleWritten(x, H, M) /\ x.tx.want = {}
  BY <1>1, <1>2 DEF Working, Local
<1>4. /\ Climbing(x, H) /\ x.tx.throttle = None /\ NothingWritten(x) /\ v \in Reviewers
      /\ Claimed(x, H) = H
  BY <1>2, <1>3 DEF Owning, Claimed
<1>5. /\ y.call = x.call /\ Stage(y) = label /\ y.tx.want = L
      /\ y.at = IF L = {} THEN label ELSE "lock"
      /\ y.tx.who = v /\ y.tx.time = x.tx.time /\ y.tx.found = x.tx.found
      /\ y.tx.throttle = None /\ NothingWritten(y)
  BY <1>4 DEF Goes, NothingWritten
<1>6. Claimed(y, H) = H \cup L
  BY <1>5 DEF Claimed
<1>7. L \subseteq SeniorLocks \cup {Exclusive(AccountLock(v))} /\ H \subseteq SeniorLocks
  BY <1>4 DEF Climbing, SeniorLocks
<1>a. /\ \A t : Exclusive(SessionLock(t)) \notin H \cup L
      /\ Exclusive(AuditLock) \notin H \cup L /\ Exclusive(SecurityLock(v)) \notin L
      /\ L \cap ActorLocks = {}
  <2>1. /\ \A w, t : Exclusive(AccountLock(w)) # Exclusive(SessionLock(t))
        /\ \A w : Exclusive(AccountLock(w)) # Exclusive(AuditLock)
        /\ \A w, u : Exclusive(AccountLock(w)) # Exclusive(SecurityLock(u))
        /\ \A w, s : Exclusive(AccountLock(w)) # Shared(AccountLock(s))
    BY ONLY LockNames
  <2> QED
    BY ONLY <1>7, <2>1 DEF SeniorLocks, ActorLocks
<1>b. Concerns(y, H) = Concerns(x, H)
  BY <1>4, <1>5, <1>6, <1>a DEF Concerns
<1>c. label = "find account" => Climbing(y, H)
  <2> SUFFICES ASSUME label = "find account" PROVE Climbing(y, H)
    OBVIOUS
  <2>1. PICK s \in Seniors :
          /\ L = {Exclusive(AccountLock(s))}
          /\ \A u \in Seniors : u < s => Exclusive(AccountLock(u)) \in H
    BY <1>2
  <2>2. \A w : Exclusive(AccountLock(w)) = Exclusive(AccountLock(s)) => w = s
    BY ONLY LockNames
  <2>3. \A w, u \in Seniors :
          Exclusive(AccountLock(w)) \in H \cup L /\ u < w => Exclusive(AccountLock(u)) \in H
    BY <1>4, <2>1, <2>2 DEF Climbing
  <2> QED
    BY <1>6, <1>7, <2>1, <2>3 DEF Climbing, SeniorLocks
<1>d. label = x.call.op =>
        IF y.at = "lock" THEN y.tx.want = {Exclusive(AccountLock(v))} /\ H = SeniorLocks
        ELSE HasAccount(y, H) /\ y.at = y.call.op
  BY <1>2, <1>5, <1>7 DEF HasAccount
<1>8. Owning(y, H, M)
  <2>1. \A t \in Concerns(y, H) :
          t \in M.issued /\ (t \in DOMAIN M.sessions => M.sessions[t].by = v)
    BY <1>3, <1>4, <1>b DEF Owning
  <2>2. DOMAIN y.tx.throttle = {} /\ y.at \notin {"upsert", "row"}
    BY <1>2, <1>5 DEF None
  <2>3. Claimed(y, H) \subseteq All
    BY <1>6, <1>7
  <2>4. /\ First(y.call.op) = "find account" /\ y.call.op # "find account"
        /\ Stage(y) \in {"find account", y.call.op} /\ Stage(y) \notin {"audit", "record"}
        /\ Stage(y) = label /\ label = "find account" => Climbing(y, H)
        /\ Stage(y) = y.call.op =>
             IF y.at = "lock" THEN y.tx.want = {Exclusive(AccountLock(v))} /\ H = SeniorLocks
             ELSE HasAccount(y, H) /\ y.at = y.call.op
    BY <1>2, <1>5, <1>c, <1>d
  <2> HIDE DEF v
  <2> QED
    BY ONLY <1>4, <1>5, <1>a, <1>c, <2>1, <2>2, <2>3, <2>4 DEF Owning
<1>9. Particular(y, H, M)
  BY <1>1, <1>2, <1>5 DEF Particular, Revoking, Reinstating, Revokers, First
<1>10. ThrottleWritten(y, H, M)
  BY <1>5 DEF ThrottleWritten, None
<1>11. Local(y, H, M)
  <2>1. /\ y.call = x.call /\ y.tx.time = x.tx.time
        /\ y.at = "lock" <=> y.tx.want # {}
        /\ y.at \notin {"idle", "done"}
        /\ Stage(y) \notin {"lock", "upsert", "row", "idle", "done"}
    BY <1>2, <1>5
  <2> QED
    BY ONLY <1>1, <1>2, <1>8, <1>9, <1>10, <2>1, OwnerWorks
<1>12. Touches(y, H) = Touches(x, H) /\ Mints(y) = {}
  <2>1. y.call.op \in Owners /\ y.call.op # "login"
    BY <1>2, <1>5
  <2>2. Touches(y, H) = Concerns(y, H) /\ Touches(x, H) = Concerns(x, H)
    BY ONLY <1>2, <2>1, TouchesOwn
  <2> QED
    BY <1>b, <2>1, <2>2, MintsNothing
<1> QED
  BY <1>4, <1>5, <1>11, <1>12 DEF Quiet

\* The account is found, and suspended or reinstated (set_reviewer_active_admin).
LEMMA ActiveStep ==
  ASSUME IInv, NEW r \in Requests, SetReviewerActive(r)
  PROVE  IInv'
<1> DEFINE x == req[r]
           y == req'[r]
           H == held[r]
           M == Rows
           row == account[Who(r)]
           active == Call(r).op = "reinstate"
           new == [row EXCEPT !.active = active]
           tx == Change(Tx(r), Who(r), new)
<1>1. /\ HasFields(Tx(r), TxFields) /\ Local(x, H, M) /\ M.account = account
      /\ Tx(r) = x.tx /\ Call(r) = x.call /\ Who(r) = x.tx.who
  BY Before DEF Tx, Call, Who
<1> DEFINE left == {s \in Seniors : Exclusive(AccountLock(s)) \notin H}
<1>a. ASSUME NEW L, NEW label, At(r, "find account"), Acquire(r, Tx(r), L, label),
             \/ /\ label = "find account"
                /\ \E s \in Seniors :
                     /\ L = {Exclusive(AccountLock(s))}
                     /\ \A u \in Seniors : u < s => Exclusive(AccountLock(u)) \in H
             \/ /\ label = x.call.op /\ SeniorLocks \subseteq H
                /\ L = {Exclusive(AccountLock(x.tx.who))} \ H
      PROVE  IInv'
  <2>1. x.at = "find account"
    BY <1>a DEF At
  <2>2. x.call.op \in {"suspend", "reinstate"}
    BY <1>1, <2>1, AtTells
  <2>3. label \notin {"lock", "upsert", "row", "hash"}
    BY <1>a, <2>2
  <2>4. Goes(x, y, x.tx, IF L = {} THEN label ELSE "lock", label, L)
    BY <1>1, <1>a, <2>3, GoesOn
  <2>5. Local(y, H, M) /\ Quiet(x, H, y, H, M) /\ IsRequest(y)
    <3> HIDE DEF x, y, H, M
    <3> QED
      BY ONLY <1>1, <1>a, <2>1, <2>4, FindAccountMoves DEF Goes
  <2> QED
    BY <1>1, <1>a, <2>1, <2>3, <2>5, QuietlyOn
<1>2. CASE At(r, "find account")
           /\ \E s \in FirstOf(left) : Acquire(r, Tx(r), {Exclusive(AccountLock(s))}, "find account")
  <2>1. PICK s \in left :
          /\ \A u \in left : s <= u
          /\ Acquire(r, Tx(r), {Exclusive(AccountLock(s))}, "find account")
    BY <1>2 DEF FirstOf
  <2>2. s \in Seniors /\ \A u \in Seniors : u < s => Exclusive(AccountLock(u)) \in H
    <3>1. /\ s \in Seniors /\ Seniors \subseteq Nat
          /\ \A u \in Seniors : Exclusive(AccountLock(u)) \in H \/ u \in left
      BY SecurityAssumption
    <3> HIDE DEF x, H, left
    <3>2. \A u \in left : s <= u
      BY <2>1
    <3> QED
      BY ONLY <3>1, <3>2
  <2> HIDE DEF x, H, left
  <2> QED
    BY <1>2, <1>a, <2>1, <2>2
<1>6. CASE At(r, "find account") /\ Abort(r, "denied")
  BY <1>6, AbortStep DEF At
<1>7. CASE /\ At(r, "find account") /\ left = {}
           /\ Acquire(r, Tx(r), {Exclusive(AccountLock(Who(r)))} \ H, Call(r).op)
  <2>1. SeniorLocks \subseteq H
    BY <1>7 DEF SeniorLocks
  <2> DEFINE L == {Exclusive(AccountLock(x.tx.who))} \ H
  <2>2. Acquire(r, Tx(r), L, x.call.op)
    BY <1>1, <1>7
  <2> HIDE DEF x, H, left
  <2> QED
    BY <1>7, <1>a, <2>1, <2>2
<1>8. CASE At(r, "suspend") /\ Abort(r, "refused")
  BY <1>8, AbortStep DEF At
<1> HIDE DEF new
<1>3. /\ HasFields(tx, TxFields) /\ tx.time = Tx(r).time /\ tx.who = Tx(r).who
      /\ tx.sessions = Tx(r).sessions /\ tx.accepted = Tx(r).accepted
      /\ tx.throttle = Tx(r).throttle /\ tx.account = Only(Who(r), new)
      /\ tx.found = Tx(r).found /\ tx.want = Tx(r).want
  BY ONLY <1>1, AccountChanged
<1>4. CASE At(r, "suspend") /\ FindSessions(r, tx, {}, {})
  <2>1. x.at = "suspend" /\ "suspend" \in Owners /\ "suspend" \in Revokers
    BY <1>4 DEF At, Owners, Revokers
  <2>2. /\ Call(r).op = "suspend"
        /\ Tx(r).sessions = None /\ Tx(r).accepted = {} /\ Tx(r).throttle = None
    BY <2>1, AtOperation
  <2>3. new = NewRow(Call(r).op, row) /\ Keeps(x) = {}
    <3>1. active = FALSE
      BY <2>2
    <3>2. new = [row EXCEPT !.active = FALSE]
      BY <3>1 DEF new
    <3> QED
      BY <1>1, <2>2, <3>2 DEF NewRow, Keeps
  <2> HIDE DEF tx
  <2> QED
    BY <1>1, <1>3, <1>4, <2>1, <2>2, <2>3, FindsSessions
<1>5. CASE At(r, "reinstate") /\ Proceed(r, tx, "audit")
  <2>1. x.at = "reinstate" /\ "reinstate" \in Owners
    BY <1>5 DEF At, Owners
  <2>2. /\ Call(r).op = "reinstate" /\ Call(r).op \in Owners
        /\ x.at \notin
                {"lock", "upsert", "row", "idle", "done", "commit", "hash", "record",
                 First(Call(r).op)}
        /\ Tx(r).sessions = None /\ Tx(r).accepted = {} /\ Tx(r).throttle = None
        /\ Tx(r).want = {} /\ Tx(r).found \subseteq Hers(x, H, M)
    BY <2>1, AtOperation
  <2>3. new = [row EXCEPT !.active = TRUE]
    <3>1. active = TRUE
      BY <2>2
    <3> QED
      BY <3>1 DEF new
  <2> HIDE DEF tx
  <2>4. ASSUME NEW z, Goes(x, z, tx, "audit", "audit", {})
        PROVE  ThrottleWritten(z, H, M) /\ Particular(z, H, M)
    <3>1. /\ Stage(z) = "audit" /\ z.call.op = "reinstate" /\ z.tx.sessions = None
          /\ z.tx.accepted = {} /\ z.tx.throttle = None /\ z.tx.who = x.tx.who
          /\ z.tx.account = Only(x.tx.who, new)
      BY <1>1, <1>3, <2>2, <2>4 DEF Goes
    <3>2. Only(z.tx.who, [M.account[z.tx.who] EXCEPT !.active = TRUE]) = Only(x.tx.who, new)
      BY <1>1, <2>3, <3>1
    <3>3. Reinstating(z, H, M)
      BY ONLY <3>1, <3>2 DEF Reinstating
    <3>4. "reinstate" \notin {"enroll", "enable", "verify"} \cup Revokers
      BY DEF Revokers
    <3> QED
      BY <3>1, <3>3, <3>4 DEF Particular, ThrottleWritten, None
  <2>5. "audit" \notin
           {"lock", "upsert", "row", "idle", "done", "hash", First(Call(r).op), Call(r).op}
    BY <2>2 DEF First
  <2>6. DOMAIN tx.throttle = {} /\ tx.throttle = Tx(r).throttle /\ tx.found = Tx(r).found
        /\ tx.want = {} /\ tx.who = Who(r) /\ tx.time = Tx(r).time /\ HasFields(tx, TxFields)
    BY <1>1, <1>3, <2>2 DEF None
  <2>7. /\ \A t : Exclusive(SessionLock(t)) \in {} => t \in Hers(x, H, M)
        /\ InTurn(req[r], {}, "audit")
    <3>1. req[r].at # "record" /\ req[r].call.op \in OfAdministrator
      BY <1>1, <2>1, <2>2 DEF OfAdministrator
    <3> QED
      BY <3>1 DEF InTurn
  <2> HIDE DEF x, H, M
  <2> QED
    BY <1>5, <2>2, <2>4, <2>5, <2>6, <2>7, OwnerProceeds DEF x, H, M
<1> QED
  BY <1>2, <1>4, <1>5, <1>6, <1>7, <1>8 DEF SetReviewerActive, new

\* A factor there is, is to be tried (enable_mfa, verify_mfa_code).
LEMMA CheckFactorStep ==
  ASSUME IInv, NEW r \in Requests, CheckFactor(r)
  PROVE  IInv'
<1> DEFINE x == req[r]
           y == req'[r]
           H == held[r]
           M == Rows
           row == account[Who(r)]
           v == Who(r)
<1>1. /\ HasFields(Tx(r), TxFields) /\ Local(x, H, M) /\ M.account = account /\ RowsTyped(M)
      /\ Tx(r) = x.tx
  BY Before DEF Tx
<1>2. x.at \in {"enable", "verify"} /\ x.at \in Owners /\ x.at # "hash"
  BY DEF CheckFactor, At, Owners
<1>3. /\ Call(r).op = x.at /\ Call(r) = x.call /\ v = x.tx.who
      /\ x.at \notin {"lock", "upsert", "row", "idle", "done", "commit", "hash", "record",
                      First(Call(r).op)}
      /\ NothingWritten(x) /\ x.tx.throttle = None /\ Tx(r).want = {}
      /\ Tx(r).found \subseteq Hers(x, H, M)
  BY <1>2, AtOperation DEF NothingWritten
<1>4. CASE Abort(r, "refused")
  BY <1>2, <1>4, AbortStep
<1>5. CASE /\ IF x.at = "enable" THEN row.factor # 0 ELSE row.enabled
           /\ WithRow(r, Tx(r), FactorKey(v), "attempt")
  <2> DEFINE tx == [Tx(r) EXCEPT !.key = FactorKey(v)]
  <2>1. Goes(x, y, tx, "upsert", "attempt", Tx(r).want)
    BY <1>1, <1>5, GoesOn
  <2>2. /\ tx.time = Tx(r).time /\ tx.who = Tx(r).who /\ tx.found = Tx(r).found
        /\ tx.throttle = Tx(r).throttle /\ tx.sessions = Tx(r).sessions
        /\ tx.account = Tx(r).account /\ tx.accepted = Tx(r).accepted /\ tx.key = FactorKey(v)
    BY <1>1 DEF HasFields, TxFields
  <2> HIDE DEF tx
  <2>3. /\ y.call = x.call /\ y.tx.time = x.tx.time /\ y.tx.who = x.tx.who /\ IsRequest(y)
        /\ y.at = "upsert" /\ Stage(y) = "attempt" /\ y.tx.then = "attempt" /\ y.tx.want = {}
        /\ y.tx.key = FactorKey(x.tx.who) /\ y.tx.throttle = None /\ NothingWritten(y)
        /\ y.tx.found = x.tx.found
    BY <1>1, <1>3, <2>1, <2>2 DEF Goes, NothingWritten
  <2>4. Proving(y, H, M)
    <3>1. /\ y.call.op \in {"enable", "verify"} /\ y.call.op = x.at
          /\ IF y.call.op = "enable" THEN M.account[y.tx.who].factor # 0
                                     ELSE M.account[y.tx.who].enabled
          /\ y.tx.key = FactorKey(y.tx.who)
      BY <1>1, <1>2, <1>3, <1>5, <2>3
    <3> QED
      BY ONLY <2>3, <3>1 DEF Proving
  <2>5. Particular(y, H, M) /\ ThrottleWritten(y, H, M)
    BY <1>2, <1>3, <2>3, <2>4 DEF Particular, Revokers, ThrottleWritten, None
  <2>6. Local(y, H, M) /\ Quiet(x, H, y, H, M)
    <3>1. /\ x.call.op \in Owners
          /\ x.at \notin {"lock", "upsert", "row", "idle", "done", "commit", First(x.call.op)}
          /\ y.at = "lock" <=> y.tx.want # {}
          /\ y.at \notin {"idle", "done"}
          /\ Stage(y) \notin {"lock", "upsert", "row", "idle", "done", First(x.call.op), x.call.op}
      BY <1>2, <1>3, <2>3 DEF First
    <3>2. /\ InTurn(x, y.tx.want, Stage(y))
          /\ \A t : Exclusive(SessionLock(t)) \in y.tx.want => t \in Hers(x, H, M)
          /\ y.tx.found \subseteq Hers(x, H, M)
      BY <1>1, <1>3, <2>3, RowsInTurn
    <3>3. /\ DOMAIN y.tx.throttle = {} /\ y.tx.throttle = x.tx.throttle
      BY <1>3, <2>3 DEF None
    <3> HIDE DEF x, y, H, M, v
    <3> QED
      BY ONLY <1>1, <2>3, <2>5, <3>1, <3>2, <3>3, OwnerGoesOn
  <2> QED
    BY <1>2, <1>5, <2>3, <2>6, QuietlyOn
<1> QED
  BY <1>2, <1>4, <1>5 DEF CheckFactor, At

\* What is known of a code that is attempted: the factor is there, and its throttle row is
\* seen as a row (_verify_mfa_attempt).
LEMMA Attempting ==
  ASSUME IInv, NEW r \in Requests, req[r].at = "attempt"
  PROVE  /\ Call(r).op \in {"enable", "verify"} /\ Call(r).token \in Tokens
         /\ Call(r).period \in Nat /\ NothingWritten(req[r])
         /\ req[r].tx.key = FactorKey(Who(r))
         /\ FactorKey(Who(r)) \in ThrottleKey /\ FactorKey(Who(r))[1] = "mfa"
         /\ FactorKey(Who(r))[2] = Who(r)
         /\ HasRow(req[r], held[r], Rows)
         /\ Row(r, FactorKey(Who(r))) = SeenRow(req[r], Rows)
         /\ Row(r, FactorKey(Who(r))) \in ThrottleRow
         /\ IF Call(r).op = "enable" THEN account[Who(r)].factor # 0 ELSE account[Who(r)].enabled
<1> DEFINE x == req[r]
           H == held[r]
           M == Rows
<1>1. /\ Call(r).op \in {"enable", "verify"} /\ Call(r) = x.call /\ Who(r) = x.tx.who
      /\ Who(r) \in Reviewers /\ Stage(x) = "attempt" /\ Particular(x, H, M)
      /\ Call(r) \in CallRecord /\ Tx(r) = x.tx /\ ThrottleWritten(x, H, M)
  BY PastOperation
<1>2. M.account = account /\ M.throttle = throttle /\ RowsTyped(M)
  BY Before
<1>3. Proving(x, H, M)
  BY <1>1 DEF Particular
<1>4. /\ NothingWritten(x) /\ x.tx.key = FactorKey(x.tx.who) /\ HasRow(x, H, M)
      /\ IF x.call.op = "enable" THEN M.account[x.tx.who].factor # 0
                                 ELSE M.account[x.tx.who].enabled
  BY <1>1, <1>3 DEF Proving
<1>5. Call(r).op \in OfSession
  BY <1>1 DEF OfSession
<1>6. Call(r).token \in Tokens /\ Call(r).period \in Nat
  BY <1>1, <1>5, CallOps
<1>7. Row(r, FactorKey(Who(r))) = SeenRow(x, M)
  BY <1>1, <1>2, <1>4 DEF Row, SeenRow
<1>8. SeenRow(x, M) \in ThrottleRow
  BY <1>1, <1>2, <1>4, SeenRowIsOne
<1>9. /\ FactorKey(Who(r)) \in ThrottleKey /\ FactorKey(Who(r))[1] = "mfa"
      /\ FactorKey(Who(r))[2] = Who(r)
  BY <1>1, Keys
<1> QED
  BY <1>1, <1>2, <1>4, <1>6, <1>7, <1>8, <1>9

\* An attempt that fails commits, and may have counted (_verify_mfa_attempt).
LEMMA AttemptFails ==
  ASSUME IInv, NEW r \in Requests, req[r].at = "attempt", NEW tx, HasFields(tx, TxFields),
         tx.time = Tx(r).time, tx.who = Who(r), tx.want = {}, tx.found = Tx(r).found,
         tx.account = None, tx.sessions = None, tx.accepted = {}, NEW row,
         \/ tx.throttle = Tx(r).throttle
         \/ /\ tx.throttle = Put(Tx(r).throttle, FactorKey(Who(r)), row)
            /\ row \in ThrottleRow /\ row.updated <= now,
         Proceed(r, tx, "commit")
  PROVE  IInv'
<1> DEFINE x == req[r]
           H == held[r]
           M == Rows
           key == FactorKey(Who(r))
<1>1. /\ Call(r).op \in Owners /\ Call(r) = x.call
      /\ x.at \notin {"lock", "upsert", "row", "idle", "done", "commit", "hash", First(Call(r).op)}
      /\ Tx(r) = x.tx /\ Tx(r).found \subseteq Hers(x, H, M) /\ Claimed(x, H) = H
      /\ ThrottleWritten(x, H, M)
      /\ \A k \in DOMAIN Tx(r).throttle : k[1] \in {"mfa", "used"} /\ k[2] = Who(r)
  BY PastOperation
<1>2. /\ Call(r).op \in {"enable", "verify"} /\ x.tx.key = key /\ key \in ThrottleKey
      /\ key[1] = "mfa" /\ key[2] = Who(r) /\ HasRow(x, H, M)
  BY Attempting
<1>3. RowsTyped(M) /\ M.throttle = throttle /\ M.now = now
  BY Before
<1> HIDE DEF key, x, H, M
<1>4. ASSUME NEW y, Goes(x, y, tx, "commit", "commit", {})
      PROVE  /\ ThrottleWritten(y, H, M) /\ Particular(y, H, M)
             /\ \A k \in ThrottleKey :
                  k[1] # "used" /\ RowLock(k) \in H /\ k \notin DOMAIN throttle =>
                    (k \in DOMAIN tx.throttle <=> k \in DOMAIN Tx(r).throttle)
             /\ \A k \in DOMAIN tx.throttle : k[1] \in {"mfa", "used"} /\ k[2] = Who(r)
  <2>1. /\ y.call = x.call /\ Stage(y) = "commit" /\ NothingWritten(y)
        /\ y.tx.throttle = tx.throttle /\ Claimed(y, H) = H
    BY <1>4 DEF Goes, NothingWritten, Claimed
  <2>2. Particular(y, H, M)
    <3>1. Proving(y, H, M)
      BY <1>1, <1>2, <2>1 DEF Proving
    <3>2. y.call.op \notin {"enroll", "reinstate"} \cup Revokers
      BY <1>1, <1>2, <2>1 DEF Revokers
    <3> QED
      BY <3>1, <3>2 DEF Particular
  <2>3. CASE tx.throttle = Tx(r).throttle
    <3>1. ThrottleWritten(y, H, M)
      BY <1>1, <2>1, <2>3 DEF ThrottleWritten
    <3> QED
      BY <1>1, <2>2, <2>3, <3>1
  <2>4. CASE /\ tx.throttle = Put(Tx(r).throttle, FactorKey(Who(r)), row)
             /\ row \in ThrottleRow /\ row.updated <= now
    <3>1. /\ y.tx.throttle = Put(x.tx.throttle, x.tx.key, row) /\ x.tx.key[1] # "used"
          /\ row = Gone \/ (row \in ThrottleRow /\ row.updated <= M.now)
          /\ H \subseteq Claimed(y, H)
      BY <1>1, <1>2, <1>3, <2>1, <2>4 DEF key
    <3>2. /\ ThrottleWritten(y, H, M)
          /\ \A k \in ThrottleKey :
               k[1] # "used" /\ RowLock(k) \in H /\ k \notin DOMAIN M.throttle =>
                 (k \in DOMAIN y.tx.throttle <=> k \in DOMAIN x.tx.throttle)
          /\ \A k \in DOMAIN y.tx.throttle : k \in DOMAIN x.tx.throttle \/ k = x.tx.key
      BY ONLY <1>1, <1>2, <1>3, <3>1, WritesItsRow
    <3> QED
      BY <1>1, <1>2, <1>3, <2>1, <2>2, <3>2
  <2> QED
    BY <2>3, <2>4
<1>5. "commit" \notin
        {"lock", "upsert", "row", "idle", "done", "hash", First(Call(r).op), Call(r).op}
  BY <1>2 DEF First
<1>6. /\ \A t : Exclusive(SessionLock(t)) \in {} => t \in Hers(x, H, M)
      /\ InTurn(req[r], {}, "commit")
  BY RowsInTurn
<1>7. /\ \A k \in ThrottleKey :
           k[1] # "used" /\ RowLock(k) \in H /\ k \notin DOMAIN throttle =>
             (k \in DOMAIN tx.throttle <=> k \in DOMAIN Tx(r).throttle)
      /\ \A k \in DOMAIN tx.throttle : k[1] \in {"mfa", "used"} /\ k[2] = Who(r)
  <2>1. Goes(x, req'[r], tx, "commit", "commit", tx.want)
    BY GoesOn DEF x
  <2> QED
    BY <1>4, <2>1
<1>8. \A y : Goes(req[r], y, tx, IF {} = {} THEN "commit" ELSE "lock", "commit", {}) =>
               ThrottleWritten(y, held[r], Rows) /\ Particular(y, held[r], Rows)
  BY <1>4 DEF x, H, M
<1> QED
  BY <1>1, <1>5, <1>6, <1>7, <1>8, OwnerProceeds DEF x, H, M

\* A code that is consumed: its record is new, and it was not accepted before.
LEMMA CodeConsumed ==
  ASSUME IInv, NEW r \in Requests, req[r].at = "attempt", NEW tx, HasFields(tx, TxFields),
         tx.time = Tx(r).time, tx.who = Who(r), tx.found = Tx(r).found, tx.sessions = None,
         tx.accepted = {<<Who(r), Call(r).period>>},
         tx.account = IF Call(r).op = "enable"
                      THEN Only(Who(r), [account[Who(r)] EXCEPT !.enabled = TRUE]) ELSE None,
         tx.throttle = Put(Put(Tx(r).throttle, FactorKey(Who(r)), Gone),
                           UsedKey(Who(r), Call(r).period), Fresh(now)),
         Call(r).period <= now + MfaWindow, now <= Call(r).period + MfaWindow,
         UsedKey(Who(r), Call(r).period) \notin DOMAIN throttle,
         Acquire(r, tx, {Exclusive(SessionLock(Call(r).token))}, "mark")
  PROVE  IInv'
<1> DEFINE x == req[r]
           H == held[r]
           M == Rows
           v == Who(r)
           t == Call(r).token
           key == FactorKey(v)
           used == UsedKey(v, Call(r).period)
           L == {Exclusive(SessionLock(t))}
<1>1. /\ Call(r).op \in Owners /\ Call(r) = x.call /\ v \in Reviewers /\ v = x.tx.who
      /\ x.at \notin {"lock", "upsert", "row", "idle", "done", "commit", "hash", First(Call(r).op)}
      /\ Tx(r) = x.tx /\ Tx(r).found \subseteq Hers(x, H, M) /\ Claimed(x, H) = H
      /\ ThrottleWritten(x, H, M)
      /\ \A k \in DOMAIN Tx(r).throttle : k[1] \in {"mfa", "used"} /\ k[2] = Who(r)
  BY PastOperation
<1>2. /\ Call(r).op \in {"enable", "verify"} /\ x.tx.key = key /\ key \in ThrottleKey
      /\ key[1] = "mfa" /\ key[2] = Who(r) /\ HasRow(x, H, M) /\ t \in Tokens
      /\ Call(r).period \in Nat
      /\ IF Call(r).op = "enable" THEN account[v].factor # 0 ELSE account[v].enabled
  BY Attempting
<1>3. /\ RowsTyped(M) /\ M.throttle = throttle /\ M.now = now /\ M.account = account
      /\ CodesRecorded(M) /\ now \in Nat
  BY Before DEF RowsTyped
<1>4. Call(r).period \in Periods
  <2>1. now <= MaxTime
    BY <1>3, Numbers DEF IInv, ScopeTyped
  <2> QED
    BY <1>2, <1>3, <2>1, Numbers DEF Periods
<1>5. /\ used \in ThrottleKey /\ used[1] = "used" /\ used[2] = v /\ used[3] = Call(r).period
  BY <1>1, <1>4, Keys
<1>6. <<v, Call(r).period>> \notin M.accepted
  <2> SUFFICES ASSUME <<v, Call(r).period>> \in M.accepted PROVE FALSE
    OBVIOUS
  <2>1. used \in DOMAIN M.throttle \/ Call(r).period + MfaWindow < M.now
    BY <1>3 DEF CodesRecorded
  <2> QED
    BY <1>2, <1>3, <2>1, Numbers
<1>7. Fresh(now) \in ThrottleRow /\ Fresh(now) # Gone /\ Fresh(now).updated = now
  BY <1>3, FreshRow
<1> HIDE DEF key, used
<1>8. /\ DOMAIN tx.throttle = DOMAIN x.tx.throttle \cup {key, used}
      /\ tx.throttle[used] = Fresh(now) /\ tx.throttle[key] = Gone
      /\ \A k \in DOMAIN x.tx.throttle : k \notin {key, used} => tx.throttle[k] = x.tx.throttle[k]
  <2>1. key # used
    BY <1>2, <1>5
  <2>2. tx.throttle = Put(Put(x.tx.throttle, key, Gone), used, Fresh(now))
    BY <1>1 DEF key, used
  <2> QED
    BY <2>1, <2>2 DEF Put
<1>9. RowLock(key) \in H /\ (key \in DOMAIN x.tx.throttle \/ key \in DOMAIN throttle)
  BY <1>2, <1>3 DEF HasRow
<1>10. ASSUME NEW y, Goes(x, y, tx, "lock", "mark", L)
       PROVE  ThrottleWritten(y, H, M) /\ Particular(y, H, M)
  <2>1. /\ y.call = x.call /\ Stage(y) = "mark" /\ y.tx.who = v /\ y.tx.sessions = None
        /\ y.tx.throttle = tx.throttle /\ Claimed(y, H) = H \cup L
        /\ y.tx.accepted = {<<v, Call(r).period>>} /\ y.tx.account = tx.account
    BY <1>1, <1>10 DEF Goes, Claimed
  <2>2. ThrottleWritten(y, H, M)
    <3>1. ASSUME NEW k \in DOMAIN y.tx.throttle
          PROVE  LET new == y.tx.throttle[k]
                 IN  /\ k \in ThrottleKey
                     /\ k[1] # "used" => RowLock(k) \in Claimed(y, H)
                     /\ new = Gone \/ (new \in ThrottleRow /\ new.updated <= M.now)
                     /\ k[1] = "used" =>
                          /\ new = Gone => k[3] + MfaWindow < M.now
                          /\ new # Gone => k[3] <= new.updated + MfaWindow
      <4>1. CASE k = key
        BY <1>2, <1>5, <1>8, <1>9, <2>1, <4>1
      <4>2. CASE k = used
        BY <1>3, <1>5, <1>7, <1>8, <2>1, <4>2
      <4>3. CASE k \notin {key, used}
        <5>1. k \in DOMAIN x.tx.throttle /\ y.tx.throttle[k] = x.tx.throttle[k]
          BY <1>8, <2>1, <3>1, <4>3
        <5> QED
          BY <1>1, <2>1, <5>1 DEF ThrottleWritten
      <4> QED
        BY <4>1, <4>2, <4>3
    <3> QED
      BY <3>1 DEF ThrottleWritten
  <2>3. Accepting(y, H, M)
    <3>1. y.tx.account = IF y.call.op = "enable"
                         THEN Only(y.tx.who, [M.account[y.tx.who] EXCEPT !.enabled = TRUE]) ELSE None
      BY <1>1, <1>3, <2>1
    <3>2. /\ y.call.period = Call(r).period /\ y.call.period \in Periods
          /\ <<y.tx.who, y.call.period>> \notin M.accepted
          /\ UsedKey(y.tx.who, y.call.period) = used
          /\ y.tx.accepted = {<<y.tx.who, y.call.period>>}
      BY <1>1, <1>4, <1>6, <2>1 DEF used
    <3>3. used \in DOMAIN y.tx.throttle /\ y.tx.throttle[used] # Gone
      BY <1>7, <1>8, <2>1
    <3> QED
      BY ONLY <3>1, <3>2, <3>3 DEF Accepting
  <2>4. Proving(y, H, M)
    <3>1. /\ IF y.call.op = "enable" THEN M.account[y.tx.who].factor # 0
                                     ELSE M.account[y.tx.who].enabled
          /\ Exclusive(SessionLock(y.call.token)) \in Claimed(y, H)
          /\ y.call.op \in {"enable", "verify"}
      BY <1>1, <1>2, <1>3, <2>1
    <3> QED
      BY ONLY <2>1, <2>3, <3>1 DEF Proving
  <2>5. y.call.op \in {"enable", "verify"} /\ y.call.op \notin {"enroll", "reinstate"} \cup Revokers
    BY <1>1, <1>2, <2>1 DEF Revokers
  <2> QED
    BY <2>2, <2>4, <2>5 DEF Particular
<1>11. "mark" \notin
         {"lock", "upsert", "row", "idle", "done", "hash", First(Call(r).op), Call(r).op}
  BY <1>2 DEF First
<1>12. /\ \A u : Exclusive(SessionLock(u)) \in L => u \in Hers(x, H, M)
       /\ InTurn(req[r], L, "mark") /\ L # {}
  <2>1. t \in Hers(x, H, M)
    BY <1>1, <1>2 DEF Hers, Concerns, OfSession
  <2>2. \A u : Exclusive(SessionLock(u)) \in L => u = t
    BY ONLY LockNames
  <2>3. L \subseteq SessionLocks(Tokens)
    BY <1>2 DEF SessionLocks
  <2>4. InTurn(req[r], L, "mark")
    BY <2>3, RowsInTurn
  <2> QED
    BY <2>1, <2>2, <2>4
<1>13. /\ \A k \in ThrottleKey :
            k[1] # "used" /\ RowLock(k) \in H /\ k \notin DOMAIN throttle =>
              (k \in DOMAIN tx.throttle <=> k \in DOMAIN Tx(r).throttle)
       /\ \A k \in DOMAIN tx.throttle : k[1] \in {"mfa", "used"} /\ k[2] = Who(r)
  BY <1>1, <1>2, <1>5, <1>8, <1>9
<1> HIDE DEF x, H, M, L
<1>14. \A y : Goes(req[r], y, tx, IF L = {} THEN "mark" ELSE "lock", "mark", L) =>
                ThrottleWritten(y, held[r], Rows) /\ Particular(y, held[r], Rows)
  BY <1>10, <1>12 DEF x, H, M
<1>15. Acquire(r, tx, L, "mark")
  BY DEF L
<1> QED
  BY <1>1, <1>11, <1>12, <1>13, <1>14, <1>15, OwnerProceeds DEF x, H, M

\* A code is consumed, or counts as a failure (_verify_mfa_attempt).
LEMMA AttemptStep ==
  ASSUME IInv, NEW r \in Requests, AttemptCode(r)
  PROVE  IInv'
<1> DEFINE v == Who(r)
           key == FactorKey(v)
           row == Row(r, key)
           anew == IF Elapsed(row, now) THEN Fresh(now) ELSE row
           fail == Failed(anew, MfaMaxFailures)
           used == UsedKey(v, Call(r).period)
<1>1. req[r].at = "attempt"
  BY DEF AttemptCode, At
<1>2. /\ NothingWritten(req[r]) /\ row \in ThrottleRow
  BY <1>1, Attempting
<1>3. /\ HasFields(Tx(r), TxFields) /\ Tx(r) = req[r].tx /\ now \in Nat
  BY Before DEF Tx, RowsTyped
<1>4. Tx(r).account = None /\ Tx(r).sessions = None /\ Tx(r).accepted = {} /\ Tx(r).want = {}
  BY <1>1, <1>2, <1>3, PastOperation DEF NothingWritten
<1>5. fail \in ThrottleRow /\ fail.updated = now
  <2>1. anew \in ThrottleRow
    BY <1>2, <1>3, FreshRow
  <2> HIDE DEF anew
  <2> QED
    BY <1>3, <2>1, Numbers DEF Failed, ThrottleRow
<1> HIDE DEF fail, row, key, anew
<1>6. CASE Answer(r, Tx(r), "limited")
  <2> DEFINE tx == [Tx(r) EXCEPT !.reply = "limited"]
  <2>1. /\ HasFields(tx, TxFields) /\ tx.time = Tx(r).time /\ tx.who = Tx(r).who
        /\ tx.want = Tx(r).want /\ tx.found = Tx(r).found /\ tx.throttle = Tx(r).throttle
        /\ tx.sessions = Tx(r).sessions /\ tx.account = Tx(r).account
        /\ tx.accepted = Tx(r).accepted
    BY <1>3, TxChanged DEF HasFields, TxFields
  <2>2. Proceed(r, tx, "commit") /\ Tx(r).who = Who(r)
    BY <1>6 DEF Answer, Who
  <2> HIDE DEF tx
  <2> QED
    BY <1>1, <1>4, <2>1, <2>2, AttemptFails
<1>7. ASSUME NEW reply, Answer(r, Write(Tx(r), key, fail), reply)
      PROVE  IInv'
  <2> DEFINE tx == [Write(Tx(r), key, fail) EXCEPT !.reply = reply]
             new == Put(Tx(r).throttle, key, fail)
  <2>1. Proceed(r, tx, "commit") /\ Tx(r).who = Who(r)
    BY <1>7 DEF Answer, Who
  <2>a. Write(Tx(r), key, fail) = [Tx(r) EXCEPT !.throttle = new]
    BY DEF Write
  <2> HIDE DEF new
  <2>2. /\ HasFields(tx, TxFields) /\ tx.time = Tx(r).time /\ tx.who = Tx(r).who
        /\ tx.want = Tx(r).want /\ tx.found = Tx(r).found /\ tx.throttle = new
        /\ tx.sessions = Tx(r).sessions /\ tx.account = Tx(r).account
        /\ tx.accepted = Tx(r).accepted
    BY <1>3, <2>a DEF HasFields, TxFields
  <2> HIDE DEF tx
  <2>3. tx.throttle = Put(Tx(r).throttle, FactorKey(Who(r)), fail) /\ fail.updated <= now
    BY <1>3, <1>5, <2>2 DEF new, key
  <2> QED
    BY <1>1, <1>4, <1>5, <2>1, <2>2, <2>3, AttemptFails
<1>8. CASE Abort(r, "refused")
  BY <1>1, <1>8, AbortStep
<1> DEFINE rows2 == Put(Put(Tx(r).throttle, key, Gone), used, Fresh(now))
           code  == {<<v, Call(r).period>>}
           acc   == IF Call(r).op = "enable"
                    THEN Only(v, [account[v] EXCEPT !.enabled = TRUE]) ELSE Tx(r).account
           tx    == [Tx(r) EXCEPT !.throttle = rows2, !.accepted = code, !.account = acc]
<1>9. CASE /\ Matching(r) /\ Unused(used)
           /\ Acquire(r, tx, {Exclusive(SessionLock(Call(r).token))}, "mark")
  <2>1. /\ Call(r).period <= now + MfaWindow /\ now <= Call(r).period + MfaWindow
        /\ used \notin DOMAIN throttle
    BY <1>9 DEF Matching, Unused
  <2> HIDE DEF rows2, code, acc, used
  <2>2. /\ HasFields(tx, TxFields) /\ tx.time = Tx(r).time /\ tx.who = Tx(r).who
        /\ tx.found = Tx(r).found /\ tx.throttle = rows2
        /\ tx.sessions = Tx(r).sessions /\ tx.account = acc
        /\ tx.accepted = code
    BY <1>3 DEF HasFields, TxFields
  <2>3. Acquire(r, tx, {Exclusive(SessionLock(Call(r).token))}, "mark") /\ Tx(r).who = Who(r)
    BY <1>9 DEF Who
  <2> HIDE DEF tx
  <2>4. /\ tx.throttle = Put(Put(Tx(r).throttle, FactorKey(Who(r)), Gone),
                             UsedKey(Who(r), Call(r).period), Fresh(now))
        /\ tx.accepted = {<<Who(r), Call(r).period>>}
        /\ tx.account = IF Call(r).op = "enable"
                        THEN Only(Who(r), [account[Who(r)] EXCEPT !.enabled = TRUE]) ELSE None
        /\ UsedKey(Who(r), Call(r).period) \notin DOMAIN throttle
    BY <1>4, <2>1, <2>2 DEF rows2, code, acc, used, key
  <2> QED
    BY <1>1, <1>4, <2>1, <2>2, <2>3, <2>4, CodeConsumed
<1>10. \/ Answer(r, Tx(r), "limited")
       \/ \E reply : Answer(r, Write(Tx(r), key, fail), reply)
       \/ Abort(r, "refused")
       \/ /\ Matching(r) /\ Unused(used)
          /\ Acquire(r, tx, {Exclusive(SessionLock(Call(r).token))}, "mark")
  BY DEF AttemptCode, fail, key, row, anew
<1> QED
  BY <1>6, <1>7, <1>8, <1>9, <1>10

-----------------------------------------------------------------------------
(***************************************************************************)
(* A transaction commits.                                                  *)
(***************************************************************************)

\* A table that something is written to.
LEMMA AppliedTo ==
  ASSUME NEW table, NEW written
  PROVE  LET new == Applied(table, written)
         IN  /\ IsTable(new)
             /\ \A a : a \in DOMAIN new <=>
                  \/ a \in DOMAIN table /\ a \notin DOMAIN written
                  \/ a \in DOMAIN written /\ written[a] # Gone
             /\ \A a \in DOMAIN table \ DOMAIN written : new[a] = table[a]
             /\ \A a \in DOMAIN written : written[a] # Gone => new[a] = written[a]
BY DEF Applied, Kept, IsTable

\* Nothing, or one row, is written.
LEMMA AppliedFew ==
  ASSUME NEW I, NEW table, table = [a \in I |-> table[a]]
  PROVE  /\ Applied(table, None) = table
         /\ \A a \in I : \A row : row # Gone => Applied(table, Only(a, row)) = [table EXCEPT ![a] = row]
<1>1. Applied(table, None) = table
  BY DEF Applied, Kept, None
<1>2. ASSUME NEW a \in I, NEW row, row # Gone
      PROVE  Applied(table, Only(a, row)) = [table EXCEPT ![a] = row]
  <2>1. DOMAIN Only(a, row) = {a} /\ Only(a, row)[a] = row /\ Kept(Only(a, row)) = {a}
    BY <1>2 DEF Only, Kept
  <2>2. (DOMAIN table \ {a}) \cup {a} = I
    OBVIOUS
  <2>3. Applied(table, Only(a, row)) = [b \in I |-> IF b = a THEN row ELSE table[b]]
    BY <2>1, <2>2 DEF Applied
  <2> QED
    BY <2>3
<1> QED
  BY <1>1, <1>2

\* A session kept is changed: verified or revoked, or neither.
Altered(x, H, M, t) ==
  /\ t \in DOMAIN M.sessions /\ Exclusive(SessionLock(t)) \in H
  /\ x.tx.sessions[t] \in SessionRow
  /\ x.tx.sessions[t].by = M.sessions[t].by
  /\ M.sessions[t].revoked => x.tx.sessions[t].revoked

\* What a request that commits has written: rows that it has the locks of, but for a
\* session that it minted under a share of the account's row, and the record of a code
\* under the account's row.
Writes(x, H, M) ==
  LET v == x.tx.who
  IN  /\ ThrottleWritten(x, H, M)
      /\ \/ x.tx.account = None
         \/ /\ v \in Reviewers /\ HasAccount(x, H)
            /\ \E row \in Credential :
                 x.tx.account = Only(v, row) /\ row.password >= M.account[v].password
      /\ \A t \in DOMAIN x.tx.sessions :
           \/ /\ x.tx.sessions[t] = Gone /\ x.call.op = "login"
              /\ t \in M.issued /\ Exclusive(SessionLock(t)) \in H
           \/ t \in Mints(x) /\ MintedWell(x, H, M, t)
           \/ Altered(x, H, M, t)
      /\ \/ x.tx.accepted = {}
         \/ \E c \in Periods :
              /\ v \in Reviewers /\ HasAccount(x, H)
              /\ x.tx.accepted = {<<v, c>>}
              /\ UsedKey(v, c) \in DOMAIN x.tx.throttle
              /\ x.tx.throttle[UsedKey(v, c)] # Gone

\* A row with some of its fields changed is a row.
LEMMA RowsChanged ==
  /\ \A row \in SessionRow, n \in Nat :
       LET new == [row EXCEPT !.verified = n]
       IN  new \in SessionRow /\ new.by = row.by /\ new.revoked = row.revoked
  /\ \A row \in SessionRow :
       LET new == [row EXCEPT !.revoked = TRUE]
       IN  new \in SessionRow /\ new.by = row.by /\ new.revoked
  /\ \A row \in Credential :
       /\ row.password \in Nat /\ row.factor \in Nat
       /\ LET new == [row EXCEPT !.factor = row.minted + 1, !.minted = @ + 1]
          IN  new \in Credential /\ new.password = row.password
       /\ LET new == [row EXCEPT !.enabled = TRUE]
          IN  new \in Credential /\ new.password = row.password
       /\ LET new == [row EXCEPT !.active = TRUE]
          IN  new \in Credential /\ new.password = row.password
       /\ \A op : NewRow(op, row) \in Credential /\ NewRow(op, row).password >= row.password
<1>1. \A row \in SessionRow, n \in Nat :
        LET new == [row EXCEPT !.verified = n]
        IN  new \in SessionRow /\ new.by = row.by /\ new.revoked = row.revoked
  BY DEF SessionRow
<1>2. \A row \in SessionRow :
        LET new == [row EXCEPT !.revoked = TRUE]
        IN  new \in SessionRow /\ new.by = row.by /\ new.revoked
  BY DEF SessionRow
<1>0. \A row \in Credential : row.password \in Nat /\ row.factor \in Nat /\ row.minted \in Nat
  BY DEF Credential
<1>3. ASSUME NEW row \in Credential
      PROVE  /\ LET new == [row EXCEPT !.enabled = TRUE]
                IN  new \in Credential /\ new.password = row.password
             /\ LET new == [row EXCEPT !.active = TRUE]
                IN  new \in Credential /\ new.password = row.password
  BY DEF Credential
<1>4. ASSUME NEW row \in Credential
      PROVE  LET new == [row EXCEPT !.factor = row.minted + 1, !.minted = @ + 1]
             IN  new \in Credential /\ new.password = row.password
  <2>1. PICK n \in Nat : n = row.minted + 1
    BY <1>0
  <2>2. [row EXCEPT !.factor = row.minted + 1, !.minted = @ + 1]
          = [row EXCEPT !.factor = n, !.minted = n]
    BY <2>1
  <2>3. LET new == [row EXCEPT !.factor = n, !.minted = n]
        IN  new \in Credential /\ new.password = row.password
    BY DEF Credential
  <2> QED
    BY <2>2, <2>3
<1>5. ASSUME NEW row \in Credential, NEW op
      PROVE  NewRow(op, row) \in Credential /\ NewRow(op, row).password >= row.password
  <2>1. PICK n \in Nat : n = row.password + 1 /\ n >= row.password
    BY <1>0
  <2>2. /\ [row EXCEPT !.password = @ + 1, !.mustChange = FALSE]
             = [row EXCEPT !.password = n, !.mustChange = FALSE]
        /\ [row EXCEPT !.password = @ + 1, !.mustChange = TRUE]
             = [row EXCEPT !.password = n, !.mustChange = TRUE]
    BY <2>1
  <2>3. /\ [row EXCEPT !.password = n, !.mustChange = FALSE] \in Credential
        /\ [row EXCEPT !.password = n, !.mustChange = FALSE].password = n
        /\ [row EXCEPT !.password = n, !.mustChange = TRUE] \in Credential
        /\ [row EXCEPT !.password = n, !.mustChange = TRUE].password = n
    BY DEF Credential
  <2>4. /\ [row EXCEPT !.factor = 0, !.enabled = FALSE] \in Credential
        /\ [row EXCEPT !.factor = 0, !.enabled = FALSE].password = row.password
        /\ [row EXCEPT !.active = FALSE] \in Credential
        /\ [row EXCEPT !.active = FALSE].password = row.password
    BY DEF Credential
  <2>8. row.password >= row.password
    BY <1>0
  <2>5. CASE op = "change"
    BY <2>1, <2>2, <2>3, <2>5 DEF NewRow
  <2>6. CASE op = "reset password"
    BY <2>1, <2>2, <2>3, <2>6 DEF NewRow
  <2>7. CASE op \notin {"change", "reset password"}
    BY <2>4, <2>7, <2>8 DEF NewRow
  <2> QED
    BY <2>5, <2>6, <2>7
<1> QED
  BY <1>0, <1>1, <1>2, <1>3, <1>4, <1>5

\* Whatever the operation, that is what it has written.
LEMMA CommitWrites ==
  ASSUME NEW x, NEW H, NEW M, RowsTyped(M), Local(x, H, M), x.at = "commit"
  PROVE  x.tx.want = {} /\ Claimed(x, H) = H /\ Writes(x, H, M)
<1>1. /\ Working(x, H, M) /\ x.call \in CallRecord
      /\ x.call.op \in {"login", "logout"} \cup Owners /\ Stage(x) = "commit"
      /\ x.tx.want = {} /\ Claimed(x, H) = H
  BY AtTells DEF Local, Stage, Claimed
<1>2. /\ M.account \in [Reviewers -> Credential] /\ M.sessions \in [DOMAIN M.sessions -> SessionRow]
      /\ ThrottleWritten(x, H, M)
  BY <1>1 DEF Working, RowsTyped
<1>3. CASE x.call.op = "login"
  <2>1. SigningIn(x, H, M)
    BY <1>1, <1>3 DEF Working
  <2>2. \A t \in DOMAIN x.tx.sessions :
          \/ /\ x.tx.sessions[t] = Gone /\ x.call.op = "login"
             /\ t \in M.issued /\ Exclusive(SessionLock(t)) \in H
          \/ t \in Mints(x) /\ MintedWell(x, H, M, t)
    <3>1. ASSUME NEW t \in DOMAIN x.tx.sessions, MintedWell(x, H, M, t)
          PROVE  t \in Mints(x)
      <4>1. x.tx.sessions[t] # Gone
        BY <3>1, RowsAreThere DEF MintedWell
      <4> QED
        BY <1>3, <4>1 DEF Mints, Minted
    <3> QED
      BY <1>3, <2>1, <3>1 DEF SigningIn
  <2> QED
    BY <1>1, <1>2, <2>1, <2>2 DEF Writes, SigningIn
<1>4. CASE x.call.op = "logout"
  <2>1. SigningOut(x, H, M)
    BY <1>1, <1>4 DEF Working
  <2> DEFINE t == x.call.token
             row == [M.sessions[t] EXCEPT !.revoked = TRUE]
  <2>2. /\ t \in DOMAIN M.sessions /\ Exclusive(SessionLock(t)) \in H
        /\ x.tx.sessions = Only(t, row) /\ x.tx.account = None /\ x.tx.accepted = {}
    BY <1>1, <2>1 DEF SigningOut
  <2>3. row \in SessionRow /\ row.by = M.sessions[t].by /\ row.revoked
    BY <1>2, <2>2, RowsChanged
  <2> HIDE DEF row
  <2>4. DOMAIN x.tx.sessions = {t} /\ x.tx.sessions[t] = row
    BY <2>2 DEF Only
  <2>5. Altered(x, H, M, t)
    BY <2>2, <2>3, <2>4 DEF Altered
  <2> QED
    BY <1>1, <1>2, <2>2, <2>4, <2>5 DEF Writes
<1>5. CASE x.call.op \in Owners
  <2> DEFINE v == x.tx.who
  <2>1. Owning(x, H, M) /\ v \in Reviewers /\ HasAccount(x, H) /\ M.account[v] \in Credential
    BY <1>1, <1>2, <1>5 DEF Working, Owning, Owners, Revokers, First
  <2>2. CASE x.call.op = "enroll"
    <3>1. /\ x.tx.sessions = None /\ x.tx.accepted = {}
          /\ \/ x.tx.account = None
             \/ x.tx.account =
                  Only(v, [M.account[v] EXCEPT !.factor = M.account[v].minted + 1, !.minted = @ + 1])
      BY <1>1, <2>2 DEF Working, Enrolling
    <3>2. DOMAIN x.tx.sessions = {}
      BY <3>1 DEF None
    <3>3. \/ x.tx.account = None
          \/ \E row \in Credential :
               x.tx.account = Only(v, row) /\ row.password >= M.account[v].password
      <4> DEFINE new == [M.account[v] EXCEPT !.factor = M.account[v].minted + 1, !.minted = @ + 1]
      <4>1. new \in Credential /\ new.password >= M.account[v].password
        <5>1. M.account[v].password \in Nat /\ new \in Credential /\ new.password = M.account[v].password
          BY <2>1, RowsChanged
        <5> HIDE DEF new
        <5> QED
          BY <5>1
      <4> HIDE DEF new
      <4> QED
        BY <3>1, <4>1 DEF new
    <3> QED
      BY <1>1, <1>2, <2>1, <3>1, <3>2, <3>3 DEF Writes
  <2>3. CASE x.call.op \in {"enable", "verify"}
    <3>1. Proving(x, H, M)
      BY <1>1, <2>3 DEF Working
    <3>2. CASE NothingWritten(x)
      BY <1>1, <1>2, <3>2 DEF Writes, NothingWritten, None
    <3>3. CASE ~NothingWritten(x)
      <4> DEFINE t == x.call.token
                 c == x.call.period
                 row == [M.sessions[t] EXCEPT !.verified = M.account[v].factor]
                 new == [M.account[v] EXCEPT !.enabled = TRUE]
      <4>1. /\ Accepting(x, H, M) /\ t \in DOMAIN M.sessions /\ Exclusive(SessionLock(t)) \in H
            /\ x.tx.sessions = Only(t, row)
        BY <1>1, <3>1, <3>3 DEF Proving
      <4>2. row \in SessionRow /\ row.by = M.sessions[t].by /\ row.revoked = M.sessions[t].revoked
        BY <1>2, <2>1, <4>1, RowsChanged
      <4>3. new \in Credential /\ new.password >= M.account[v].password
        <5>1. M.account[v].password \in Nat /\ new \in Credential /\ new.password = M.account[v].password
          BY <2>1, RowsChanged
        <5> HIDE DEF new
        <5> QED
          BY <5>1
      <4> HIDE DEF row
      <4>4. DOMAIN x.tx.sessions = {t} /\ x.tx.sessions[t] = row
        BY <4>1 DEF Only
      <4>5. Altered(x, H, M, t)
        BY <4>1, <4>2, <4>4 DEF Altered
      <4>6. /\ c \in Periods /\ x.tx.accepted = {<<v, c>>} /\ UsedKey(v, c) \in DOMAIN x.tx.throttle
            /\ x.tx.throttle[UsedKey(v, c)] # Gone
            /\ x.tx.account = None \/ x.tx.account = Only(v, new)
        BY <4>1 DEF Accepting
      <4> HIDE DEF new
      <4> QED
        BY <1>1, <1>2, <2>1, <4>3, <4>4, <4>5, <4>6 DEF Writes
    <3> QED
      BY <3>2, <3>3
  <2>4. CASE x.call.op \in Revokers
    <3>1. Revoking(x, H, M)
      BY <1>1, <2>4 DEF Working
    <3> DEFINE new == NewRow(x.call.op, M.account[v])
    <3>2. x.tx.account = Only(v, new) /\ x.tx.accepted = {}
      BY <1>1, <3>1 DEF Revoking
    <3>3. new \in Credential /\ new.password >= M.account[v].password
      BY <2>1, RowsChanged
    <3> HIDE DEF new
    <3>4. ASSUME NEW t \in DOMAIN x.tx.sessions
          PROVE  Altered(x, H, M, t)
      <4>1. /\ t \in DOMAIN M.sessions /\ Exclusive(SessionLock(t)) \in H
            /\ x.tx.sessions[t] = [M.sessions[t] EXCEPT !.revoked = TRUE]
        BY <1>1, <3>1 DEF Revoking
      <4> QED
        BY <1>2, <4>1, RowsChanged DEF Altered
    <3> QED
      BY <1>1, <1>2, <2>1, <3>2, <3>3, <3>4 DEF Writes
  <2>5. CASE x.call.op = "reinstate"
    <3> DEFINE new == [M.account[v] EXCEPT !.active = TRUE]
    <3>1. x.tx.account = Only(v, new) /\ x.tx.sessions = None /\ x.tx.accepted = {}
      BY <1>1, <2>5 DEF Working, Reinstating
    <3>2. new \in Credential /\ new.password >= M.account[v].password
      <4>1. M.account[v].password \in Nat /\ new \in Credential /\ new.password = M.account[v].password
        BY <2>1, RowsChanged
      <4> HIDE DEF new
      <4> QED
        BY <4>1
    <3> HIDE DEF new
    <3>3. DOMAIN x.tx.sessions = {}
      BY <3>1 DEF None
    <3> QED
      BY <1>1, <1>2, <2>1, <3>1, <3>2, <3>3 DEF Writes
  <2> QED
    BY <1>5, <2>2, <2>3, <2>4, <2>5 DEF Owners
<1> QED
  BY <1>1, <1>3, <1>4, <1>5

\* The committed rows are N, once x has committed what it wrote, and were M.
Committed(x, M, N) ==
  /\ N.account  = Applied(M.account, x.tx.account)
  /\ N.sessions = Applied(M.sessions, x.tx.sessions)
  /\ N.throttle = Applied(M.throttle, x.tx.throttle)
  /\ N.accepted = M.accepted \cup x.tx.accepted
  /\ N.now = M.now /\ N.issued = M.issued

\* The accounts as x leaves them: its own may be changed.
LEMMA CommittedAccount ==
  ASSUME NEW x, NEW H, NEW M, NEW N, RowsTyped(M), Writes(x, H, M), Committed(x, M, N)
  PROVE  /\ N.account \in [Reviewers -> Credential]
         /\ \A v \in Reviewers :
              /\ M.account[v].password \in Nat /\ N.account[v].password \in Nat
              /\ M.account[v].password <= N.account[v].password
              /\ \/ N.account[v] = M.account[v]
                 \/ v = x.tx.who /\ HasAccount(x, H)
<1>1. M.account \in [Reviewers -> Credential] /\ M.account = [v \in Reviewers |-> M.account[v]]
  BY DEF RowsTyped
<1>2. \A row \in Credential : row.password \in Nat
  BY DEF Credential
<1>3. CASE x.tx.account = None
  <2>1. N.account = M.account
    BY <1>1, <1>3, AppliedFew DEF Committed
  <2>2. ASSUME NEW v \in Reviewers PROVE M.account[v].password \in Nat
    BY <1>1, <1>2
  <2>3. \A n \in Nat : n <= n
    OBVIOUS
  <2> QED
    BY <1>1, <2>1, <2>2, <2>3
<1>4. CASE x.tx.account # None
  <2>1. x.tx.who \in Reviewers /\ HasAccount(x, H)
    BY <1>4 DEF Writes
  <2>2. PICK row \in Credential :
          x.tx.account = Only(x.tx.who, row) /\ row.password >= M.account[x.tx.who].password
    BY <1>4 DEF Writes
  <2>3. row # Gone
    BY RowsAreThere
  <2>4. N.account = [M.account EXCEPT ![x.tx.who] = row]
    BY <1>1, <2>1, <2>2, <2>3, AppliedFew DEF Committed
  <2>5. /\ N.account \in [Reviewers -> Credential] /\ N.account[x.tx.who] = row
        /\ \A v \in Reviewers \ {x.tx.who} : N.account[v] = M.account[v]
    BY <1>1, <2>1, <2>4
  <2>6. \A v \in Reviewers : M.account[v].password \in Nat /\ N.account[v].password \in Nat
    BY <1>1, <1>2, <2>5
  <2>7. \A v \in Reviewers : M.account[v].password <= N.account[v].password
    BY <2>2, <2>5, <2>6
  <2> QED
    BY <2>1, <2>5, <2>6, <2>7
<1> QED
  BY <1>3, <1>4

\* The sessions: some are gone, changed or minted.
LEMMA CommittedSessions ==
  ASSUME NEW x, NEW H, NEW M, NEW N, RowsTyped(M), Writes(x, H, M), Committed(x, M, N)
  PROVE  /\ IsTable(N.sessions)
         /\ \A t \in DOMAIN M.sessions :
              \/ t \in DOMAIN N.sessions /\ N.sessions[t] = M.sessions[t]
              \/ t \in DOMAIN x.tx.sessions /\ Exclusive(SessionLock(t)) \in H
         /\ \A t \in DOMAIN N.sessions :
              \/ t \in DOMAIN M.sessions /\ N.sessions[t] = M.sessions[t]
              \/ Altered(x, H, M, t) /\ N.sessions[t] = x.tx.sessions[t]
              \/ t \in Mints(x) /\ MintedWell(x, H, M, t) /\ N.sessions[t] = x.tx.sessions[t]
         /\ \A t \in DOMAIN x.tx.sessions :
              x.tx.sessions[t] # Gone => t \in DOMAIN N.sessions /\ N.sessions[t] = x.tx.sessions[t]
<1>1. /\ IsTable(N.sessions)
      /\ \A t : t \in DOMAIN N.sessions <=>
           \/ t \in DOMAIN M.sessions /\ t \notin DOMAIN x.tx.sessions
           \/ t \in DOMAIN x.tx.sessions /\ x.tx.sessions[t] # Gone
      /\ \A t \in DOMAIN M.sessions \ DOMAIN x.tx.sessions : N.sessions[t] = M.sessions[t]
      /\ \A t \in DOMAIN x.tx.sessions : x.tx.sessions[t] # Gone => N.sessions[t] = x.tx.sessions[t]
  <2> DEFINE S == M.sessions
             W == x.tx.sessions
  <2>1. N.sessions = Applied(S, W)
    BY DEF Committed
  <2> HIDE DEF S, W
  <2>2. /\ IsTable(Applied(S, W))
        /\ \A t : t \in DOMAIN Applied(S, W) <=> \/ t \in DOMAIN S /\ t \notin DOMAIN W
                                                 \/ t \in DOMAIN W /\ W[t] # Gone
        /\ \A t \in DOMAIN S \ DOMAIN W : Applied(S, W)[t] = S[t]
        /\ \A t \in DOMAIN W : W[t] # Gone => Applied(S, W)[t] = W[t]
    BY ONLY AppliedTo
  <2> QED
    BY ONLY <2>1, <2>2 DEF S, W
<1>2. \A t \in DOMAIN x.tx.sessions :
        \/ x.tx.sessions[t] = Gone /\ Exclusive(SessionLock(t)) \in H
        \/ t \in Mints(x) /\ MintedWell(x, H, M, t)
        \/ Altered(x, H, M, t)
  BY DEF Writes
<1>3. ASSUME NEW t \in DOMAIN M.sessions, t \in DOMAIN x.tx.sessions
      PROVE  Exclusive(SessionLock(t)) \in H
  BY <1>2, <1>3 DEF MintedWell, Altered
<1>4. \A t \in DOMAIN N.sessions :
        \/ t \in DOMAIN M.sessions /\ N.sessions[t] = M.sessions[t]
        \/ Altered(x, H, M, t) /\ N.sessions[t] = x.tx.sessions[t]
        \/ t \in Mints(x) /\ MintedWell(x, H, M, t) /\ N.sessions[t] = x.tx.sessions[t]
  BY <1>1, <1>2
<1> QED
  BY <1>1, <1>3, <1>4

\* The throttle rows.
LEMMA CommittedThrottle ==
  ASSUME NEW x, NEW M, NEW N, Committed(x, M, N)
  PROVE  /\ IsTable(N.throttle)
         /\ \A key : key \in DOMAIN N.throttle <=>
              \/ key \in DOMAIN M.throttle /\ key \notin DOMAIN x.tx.throttle
              \/ key \in DOMAIN x.tx.throttle /\ x.tx.throttle[key] # Gone
         /\ \A key \in DOMAIN N.throttle :
              \/ /\ key \in DOMAIN M.throttle /\ key \notin DOMAIN x.tx.throttle
                 /\ N.throttle[key] = M.throttle[key]
              \/ /\ key \in DOMAIN x.tx.throttle /\ x.tx.throttle[key] # Gone
                 /\ N.throttle[key] = x.tx.throttle[key]
<1> DEFINE S == M.throttle
           W == x.tx.throttle
<1>1. N.throttle = Applied(S, W)
  BY DEF Committed
<1> HIDE DEF S, W
<1>2. /\ IsTable(Applied(S, W))
      /\ \A key : key \in DOMAIN Applied(S, W) <=> \/ key \in DOMAIN S /\ key \notin DOMAIN W
                                                   \/ key \in DOMAIN W /\ W[key] # Gone
      /\ \A key \in DOMAIN S \ DOMAIN W : Applied(S, W)[key] = S[key]
      /\ \A key \in DOMAIN W : W[key] # Gone => Applied(S, W)[key] = W[key]
  BY ONLY AppliedTo
<1> QED
  BY ONLY <1>1, <1>2 DEF S, W

\* The tables are tables still, and no account or session has gone back.
LEMMA CommittedTyped ==
  ASSUME NEW x, NEW H, NEW M, NEW N, RowsTyped(M), Writes(x, H, M), Committed(x, M, N)
  PROVE  RowsTyped(N) /\ Grown(M, N)
<1>1. /\ N.account \in [Reviewers -> Credential]
      /\ \A v \in Reviewers : /\ M.account[v].password \in Nat /\ N.account[v].password \in Nat
                              /\ M.account[v].password <= N.account[v].password
  BY CommittedAccount
<1>2. /\ N.now = M.now /\ N.issued = M.issued /\ M.now \in Nat /\ N.accepted = M.accepted \cup x.tx.accepted
      /\ DOMAIN M.sessions \subseteq M.issued /\ M.issued \subseteq Tokens
      /\ M.sessions \in [DOMAIN M.sessions -> SessionRow]
      /\ M.accepted \subseteq Reviewers \X Periods
  BY DEF RowsTyped, Committed
<1>3. ASSUME NEW t \in DOMAIN N.sessions
      PROVE  /\ t \in M.issued /\ N.sessions[t] \in SessionRow
             /\ t \in DOMAIN M.sessions =>
                  /\ N.sessions[t].by = M.sessions[t].by
                  /\ M.sessions[t].revoked => N.sessions[t].revoked
  <2>1. \/ t \in DOMAIN M.sessions /\ N.sessions[t] = M.sessions[t]
        \/ Altered(x, H, M, t) /\ N.sessions[t] = x.tx.sessions[t]
        \/ MintedWell(x, H, M, t) /\ N.sessions[t] = x.tx.sessions[t]
    BY CommittedSessions
  <2> QED
    BY <1>2, <2>1 DEF Altered, MintedWell
<1>4. N.sessions \in [DOMAIN N.sessions -> SessionRow] /\ DOMAIN N.sessions \subseteq N.issued
  BY <1>2, <1>3, CommittedSessions DEF IsTable
<1>5. ASSUME NEW key \in DOMAIN N.throttle
      PROVE  key \in ThrottleKey /\ N.throttle[key] \in ThrottleRow /\ N.throttle[key].updated <= N.now
  <2>1. \/ key \in DOMAIN M.throttle /\ N.throttle[key] = M.throttle[key]
        \/ /\ key \in DOMAIN x.tx.throttle /\ x.tx.throttle[key] # Gone
           /\ N.throttle[key] = x.tx.throttle[key]
    BY CommittedThrottle
  <2>2. CASE key \in DOMAIN M.throttle /\ N.throttle[key] = M.throttle[key]
    BY <1>2, <2>2 DEF RowsTyped
  <2>3. CASE /\ key \in DOMAIN x.tx.throttle /\ x.tx.throttle[key] # Gone
             /\ N.throttle[key] = x.tx.throttle[key]
    BY <1>2, <2>3 DEF Writes, ThrottleWritten
  <2> QED
    BY <2>1, <2>2, <2>3
<1>6. N.throttle \in [DOMAIN N.throttle -> ThrottleRow]
  BY <1>5, CommittedThrottle DEF IsTable
<1>7. N.accepted \subseteq Reviewers \X Periods
  BY <1>2 DEF Writes
<1>8. RowsTyped(N)
  BY <1>1, <1>2, <1>4, <1>5, <1>6, <1>7 DEF RowsTyped
<1> QED
  BY <1>1, <1>2, <1>3, <1>8 DEF Grown

\* Codes stay on record.
LEMMA CommittedCodes ==
  ASSUME NEW x, NEW H, NEW M, NEW N, RowsTyped(M), CodesRecorded(M), Writes(x, H, M),
         Committed(x, M, N)
  PROVE  CodesRecorded(N)
<1>1. N.now = M.now /\ N.accepted = M.accepted \cup x.tx.accepted
  BY DEF Committed
<1>2. ASSUME NEW key \in DOMAIN N.throttle, key[1] = "used"
      PROVE  key[3] <= N.throttle[key].updated + MfaWindow
  <2>1. \/ key \in DOMAIN M.throttle /\ N.throttle[key] = M.throttle[key]
        \/ /\ key \in DOMAIN x.tx.throttle /\ x.tx.throttle[key] # Gone
           /\ N.throttle[key] = x.tx.throttle[key]
    BY CommittedThrottle
  <2> QED
    BY <1>2, <2>1 DEF CodesRecorded, Writes, ThrottleWritten
<1>3. ASSUME NEW code \in N.accepted
      PROVE  UsedKey(code[1], code[2]) \in DOMAIN N.throttle \/ code[2] + MfaWindow < N.now
  <2> DEFINE key == UsedKey(code[1], code[2])
  <2>1. key[1] = "used" /\ key[3] = code[2]
    BY DEF UsedKey
  <2> HIDE DEF key
  <2>2. CASE code \in M.accepted
    <3>1. key \in DOMAIN M.throttle \/ code[2] + MfaWindow < M.now
      BY <2>2 DEF CodesRecorded, key
    <3>2. CASE key \in DOMAIN x.tx.throttle /\ x.tx.throttle[key] = Gone
      BY <1>1, <2>1, <3>2 DEF Writes, ThrottleWritten, key
    <3>3. CASE key \in DOMAIN x.tx.throttle /\ x.tx.throttle[key] # Gone
      BY <3>3, CommittedThrottle DEF key
    <3>4. CASE key \notin DOMAIN x.tx.throttle
      BY <1>1, <3>1, <3>4, CommittedThrottle DEF key
    <3> QED
      BY <3>2, <3>3, <3>4
  <2>3. CASE code \in x.tx.accepted
    <3>1. PICK c \in Periods : /\ x.tx.accepted = {<<x.tx.who, c>>}
                               /\ UsedKey(x.tx.who, c) \in DOMAIN x.tx.throttle
                               /\ x.tx.throttle[UsedKey(x.tx.who, c)] # Gone
      BY <2>3 DEF Writes
    <3>2. key = UsedKey(x.tx.who, c)
      BY <2>3, <3>1 DEF key
    <3> QED
      BY <3>1, <3>2, CommittedThrottle DEF key
  <2> QED
    BY <1>1, <2>2, <2>3
<1> QED
  BY <1>2, <1>3 DEF CodesRecorded

\* What the others rely on is as it was.
LEMMA CommitSpares ==
  ASSUME NEW x, NEW H, NEW z, NEW K, NEW M, NEW N, RowsTyped(M), Writes(x, H, M), Claimed(x, H) = H,
         Committed(x, M, N), Local(z, K, M), Apart(x, H, z, K, M), Apart(z, K, x, H, M)
  PROVE  Local(z, K, N)
<1>1. RowsTyped(N) /\ Grown(M, N)
  BY CommittedTyped
<1>2. /\ \A a \in H, b \in K : Conflicting(a, b) => a.lock[1] = "throttle"
      /\ \A key \in ThrottleKey :
           key[1] # "used" /\ RowLock(key) \in H /\ RowLock(key) \in K =>
             /\ key \notin DOMAIN M.throttle
             /\ key \in DOMAIN x.tx.throttle <=> key \notin DOMAIN z.tx.throttle
      /\ Mints(x) \cap Touches(z, K) = {} /\ Mints(z) \cap Touches(x, H) = {}
  BY DEF Apart, LocksApart, SessionsApart
<1>3. ASSUME NEW v, Exclusive(AccountLock(v)) \in K
      PROVE  Exclusive(AccountLock(v)) \notin H /\ Shared(AccountLock(v)) \notin H
  <2>1. /\ Exclusive(AccountLock(v)).lock[1] = "account" /\ Shared(AccountLock(v)).lock[1] = "account"
        /\ Conflicting(Exclusive(AccountLock(v)), Exclusive(AccountLock(v)))
        /\ Conflicting(Shared(AccountLock(v)), Exclusive(AccountLock(v)))
    BY ONLY LockNames
  <2> QED
    BY <1>2, <1>3, <2>1
<1>4. ASSUME NEW t, Exclusive(SessionLock(t)) \in K
      PROVE  Exclusive(SessionLock(t)) \notin H
  <2>1. /\ Exclusive(SessionLock(t)).lock[1] = "session"
        /\ Conflicting(Exclusive(SessionLock(t)), Exclusive(SessionLock(t)))
    BY ONLY LockNames
  <2> QED
    BY <1>2, <1>4, <2>1
<1>5. Guarded(K, M, N)
  <2>1. ASSUME NEW v \in Reviewers, Exclusive(AccountLock(v)) \in K
        PROVE  /\ N.account[v] = M.account[v]
               /\ \A t \in DOMAIN N.sessions : N.sessions[t].by = v => t \in DOMAIN M.sessions
               /\ \A c : <<v, c>> \in N.accepted => <<v, c>> \in M.accepted
    <3>1. N.account[v] = M.account[v]
      BY <1>3, <2>1, CommittedAccount DEF HasAccount
    <3>2. ASSUME NEW t \in DOMAIN N.sessions, N.sessions[t].by = v
          PROVE  t \in DOMAIN M.sessions
      <4>1. \/ t \in DOMAIN M.sessions
            \/ Altered(x, H, M, t)
            \/ MintedWell(x, H, M, t) /\ N.sessions[t] = x.tx.sessions[t]
        BY CommittedSessions
      <4> QED
        BY <1>3, <2>1, <3>2, <4>1 DEF Altered, MintedWell
    <3>3. ASSUME NEW c, <<v, c>> \in N.accepted
          PROVE  <<v, c>> \in M.accepted
      <4>1. <<v, c>> \in M.accepted \/ <<v, c>> \in x.tx.accepted
        BY <3>3 DEF Committed
      <4>2. ASSUME <<v, c>> \in x.tx.accepted
            PROVE  v = x.tx.who /\ HasAccount(x, H)
        BY <4>2 DEF Writes
      <4> QED
        BY <1>3, <2>1, <4>1, <4>2 DEF HasAccount
    <3> QED
      BY <3>1, <3>2, <3>3
  <2>2. ASSUME NEW t \in DOMAIN M.sessions, Exclusive(SessionLock(t)) \in K
        PROVE  t \in DOMAIN N.sessions /\ N.sessions[t] = M.sessions[t]
    BY <1>4, <2>2, CommittedSessions
  <2> QED
    BY <2>1, <2>2 DEF Guarded
<1>6. Spared(z, K, M, N)
  <2>1. ASSUME NEW key \in ThrottleKey, key[1] # "used", RowLock(key) \in K,
               key \in DOMAIN M.throttle \/ key \in DOMAIN z.tx.throttle
        PROVE  SameRow(key, M, N)
    <3>1. key \notin DOMAIN x.tx.throttle
      <4>1. ASSUME key \in DOMAIN x.tx.throttle PROVE RowLock(key) \in H
        BY <2>1, <4>1 DEF Writes, ThrottleWritten
      <4> QED
        BY <1>2, <2>1, <4>1
    <3> QED
      BY <3>1, CommittedThrottle DEF SameRow
  <2>2. DOMAIN N.sessions \subseteq DOMAIN M.sessions \cup Mints(x)
    BY CommittedSessions DEF Altered
  <2>3. Mints(z) \cap DOMAIN M.sessions = {}
    BY TouchesBy
  <2>4. Mints(x) \subseteq Touches(x, H)
    BY DEF Mints, Touches
  <2>5. Mints(z) \cap DOMAIN N.sessions = {}
    BY <1>2, <2>2, <2>3, <2>4
  <2>6. Touches(z, K) \cap DOMAIN N.sessions \subseteq DOMAIN M.sessions
    BY <1>2, <2>2
  <2> QED
    BY <2>1, <2>5, <2>6 DEF Spared
<1> QED
  BY <1>1, <1>5, <1>6, LocalKept DEF Unharmed

\* The locks of two others stay apart.
LEMMA CommitParts ==
  ASSUME NEW x, NEW H, NEW p, NEW P, NEW q, NEW Q, NEW M, NEW N, Writes(x, H, M),
         Claimed(x, H) = H, Committed(x, M, N),
         Apart(x, H, p, P, M), Apart(x, H, q, Q, M), Apart(p, P, q, Q, M)
  PROVE  Apart(p, P, q, Q, N)
<1>1. ASSUME NEW key \in ThrottleKey, key[1] # "used", RowLock(key) \in P, RowLock(key) \in Q
      PROVE  key \notin DOMAIN N.throttle
  <2>1. /\ key \notin DOMAIN M.throttle
        /\ key \in DOMAIN p.tx.throttle <=> key \notin DOMAIN q.tx.throttle
    BY <1>1 DEF Apart, LocksApart
  <2>2. ASSUME key \in DOMAIN x.tx.throttle PROVE FALSE
    <3>1. RowLock(key) \in H
      BY <1>1, <2>2 DEF Writes, ThrottleWritten
    <3>2. key \notin DOMAIN p.tx.throttle /\ key \notin DOMAIN q.tx.throttle
      BY <1>1, <2>2, <3>1 DEF Apart, LocksApart
    <3> QED
      BY <2>1, <3>2
  <2> QED
    BY <2>1, <2>2, CommittedThrottle
<1> QED
  BY <1>1 DEF Apart, LocksApart

-----------------------------------------------------------------------------
(***************************************************************************)
(* What ReviewerSessions promises: a session counts as verified only with  *)
(* the factor its owner has enabled now.  The invariant adds that an       *)
(* enabled factor is there.                                                *)
(***************************************************************************)

\* What ReviewerSessions promises holds for any reviewers, sessions and codes.
PromiseInv == Promised!TypeOK /\ FactorsThere /\ Promised!VerifiedByCurrentFactor

\* At the start nobody has a factor, and there is no session.
LEMMA PromiseInitially == Promised!Init => PromiseInv
  <1> SUFFICES ASSUME Promised!Init PROVE PromiseInv
    OBVIOUS
  <1>1. Promised!TypeOK
    <2>1. ASSUME NEW v \in Reviewers PROVE account[v] \in Promised!Credentials
      <3>1. account[v] \in
              [password : Nat, mustChange : BOOLEAN, factor : {0}, enabled : {FALSE},
               minted : {0}, active : BOOLEAN]
        BY DEF Promised!Init
      <3>2. {0} \subseteq Nat /\ {FALSE} \subseteq BOOLEAN
        OBVIOUS
      <3> QED
        BY <3>1, <3>2 DEF Promised!Credentials
    <2> QED
      BY <2>1 DEF Promised!Init, Promised!TypeOK
  <1>2. FactorsThere
    BY DEF Promised!Init, FactorsThere
  <1>3. Promised!VerifiedByCurrentFactor
    BY DEF Promised!Init, Promised!VerifiedByCurrentFactor
  <1> QED
    BY <1>1, <1>2, <1>3 DEF PromiseInv

\* Revocation changes sessions in one field, and revokes more of them.
LEMMA RevokedStay ==
  ASSUME Promised!TypeOK, NEW v, NEW kept, PromisedSessions' = Promised!Revoked(v, kept)
  PROVE  /\ DOMAIN PromisedSessions' = DOMAIN PromisedSessions
         /\ PromisedSessions' \in [DOMAIN PromisedSessions' -> Promised!SessionRow]
         /\ \A t \in DOMAIN PromisedSessions :
              /\ PromisedSessions'[t].by = PromisedSessions[t].by
              /\ PromisedSessions'[t].verified = PromisedSessions[t].verified
              /\ PromisedSessions[t].revoked => PromisedSessions'[t].revoked
              /\ PromisedSessions[t].by = v /\ t \notin kept => PromisedSessions'[t].revoked
  <1>1. DOMAIN PromisedSessions' = DOMAIN PromisedSessions
    BY DEF Promised!Revoked
  <1>2. ASSUME NEW t \in DOMAIN PromisedSessions
        PROVE  /\ PromisedSessions'[t] \in Promised!SessionRow
               /\ PromisedSessions'[t].by = PromisedSessions[t].by
               /\ PromisedSessions'[t].verified = PromisedSessions[t].verified
               /\ PromisedSessions[t].revoked => PromisedSessions'[t].revoked
               /\ PromisedSessions[t].by = v /\ t \notin kept => PromisedSessions'[t].revoked
    <2>1. PromisedSessions[t] \in Promised!SessionRow
      BY DEF Promised!TypeOK
    <2>2. PromisedSessions'[t] =
            [PromisedSessions[t] EXCEPT !.revoked = @ \/ (PromisedSessions[t].by = v /\ t \notin kept)]
      BY DEF Promised!Revoked
    <2> QED
      BY <2>1, <2>2 DEF Promised!SessionRow
  <1> QED
    BY <1>1, <1>2 DEF Promised!Revoked

\* An account's row changed in its fields stays one.
LEMMA CredentialsStep ==
  ASSUME Promised!TypeOK, NEW v \in Reviewers, NEW row \in Promised!Credentials,
         account' = [account EXCEPT ![v] = row]
  PROVE  /\ account' \in [Reviewers -> Promised!Credentials]
         /\ account'[v] = row
         /\ \A w \in Reviewers \ {v} : account'[w] = account[w]
  BY DEF Promised!TypeOK

\* A change that revokes the reviewer's sessions, but for some whose verification
\* it leaves in force, keeps the invariant.
LEMMA RevokingStep ==
  ASSUME PromiseInv, NEW v \in Reviewers, NEW row \in Promised!Credentials, NEW kept,
         account' = [account EXCEPT ![v] = row],
         PromisedSessions' = Promised!Revoked(v, kept), UNCHANGED accepted,
         row.enabled => row.factor # 0,
         \/ kept = {}
         \/ row.factor = account[v].factor /\ row.enabled = account[v].enabled
  PROVE  PromiseInv'
  <1>1. /\ Promised!TypeOK /\ FactorsThere /\ Promised!VerifiedByCurrentFactor
        /\ account \in [Reviewers -> Promised!Credentials]
        /\ PromisedSessions \in [DOMAIN PromisedSessions -> Promised!SessionRow]
    BY DEF PromiseInv, Promised!TypeOK
  <1>2. /\ account' \in [Reviewers -> Promised!Credentials]
        /\ account'[v] = row
        /\ \A w \in Reviewers \ {v} : account'[w] = account[w]
    BY <1>1, CredentialsStep
  <1>3. /\ DOMAIN PromisedSessions' = DOMAIN PromisedSessions
        /\ PromisedSessions' \in [DOMAIN PromisedSessions' -> Promised!SessionRow]
        /\ \A t \in DOMAIN PromisedSessions :
             /\ PromisedSessions'[t].by = PromisedSessions[t].by
             /\ PromisedSessions'[t].verified = PromisedSessions[t].verified
             /\ PromisedSessions[t].revoked => PromisedSessions'[t].revoked
             /\ PromisedSessions[t].by = v /\ t \notin kept => PromisedSessions'[t].revoked
    BY <1>1, RevokedStay
  <1>4. Promised!TypeOK'
    BY <1>1, <1>2, <1>3 DEF Promised!TypeOK
  <1>5. FactorsThere'
    BY <1>1, <1>2 DEF FactorsThere
  <1>6. Promised!VerifiedByCurrentFactor'
    <2> SUFFICES ASSUME NEW t \in DOMAIN PromisedSessions, ~PromisedSessions'[t].revoked,
                        PromisedSessions'[t].verified # 0
                 PROVE  /\ account'[PromisedSessions'[t].by].enabled
                        /\ PromisedSessions'[t].verified = account'[PromisedSessions'[t].by].factor
      BY <1>3 DEF Promised!VerifiedByCurrentFactor
    <2>1. /\ ~PromisedSessions[t].revoked /\ PromisedSessions[t].verified # 0
          /\ PromisedSessions[t].by \in Reviewers
      BY <1>1, <1>3 DEF Promised!SessionRow
    <2>2. /\ account[PromisedSessions[t].by].enabled
          /\ PromisedSessions[t].verified = account[PromisedSessions[t].by].factor
      BY <1>1, <2>1 DEF Promised!VerifiedByCurrentFactor
    <2>3. CASE PromisedSessions[t].by = v
      <3>1. t \in kept
        BY <1>3, <2>3
      <3> QED
        BY <1>2, <1>3, <2>2, <2>3, <3>1
    <2>4. CASE PromisedSessions[t].by # v
      BY <1>2, <1>3, <2>1, <2>2, <2>4
    <2> QED
      BY <2>3, <2>4
  <1> QED
    BY <1>4, <1>5, <1>6 DEF PromiseInv

\* Steps that leave the accounts alone, and keep of each session its owner, its
\* verification and its revocation, or add one that is not verified.
LEMMA SessionsStep ==
  ASSUME PromiseInv, UNCHANGED <<account, accepted>>,
         DOMAIN PromisedSessions' \subseteq Tokens,
         PromisedSessions' \in [DOMAIN PromisedSessions' -> Promised!SessionRow],
         \A t \in DOMAIN PromisedSessions' :
           \/ PromisedSessions'[t].verified = 0
           \/ PromisedSessions'[t].revoked
           \/ t \in DOMAIN PromisedSessions /\ PromisedSessions'[t] = PromisedSessions[t]
  PROVE  PromiseInv'
  BY DEF PromiseInv, Promised!TypeOK, FactorsThere, Promised!VerifiedByCurrentFactor

LEMMA OpeningStep ==
  ASSUME PromiseInv, NEW v \in Reviewers, NEW t \in Tokens, NEW T, Promised!SignIn(v, t, T)
  PROVE  PromiseInv'
  <1>1. account \in [Reviewers -> Promised!Credentials] /\ DOMAIN PromisedSessions \subseteq Tokens
        /\ PromisedSessions \in [DOMAIN PromisedSessions -> Promised!SessionRow]
    BY DEF PromiseInv, Promised!TypeOK
  <1>2. account[v].password \in Nat
    BY <1>1 DEF Promised!Credentials
  <1>3. PICK p \in 0 .. account[v].password :
          PromisedSessions' = [u \in (DOMAIN PromisedSessions \ T) \cup {t} |->
            IF u = t THEN [by |-> v, opened |-> p, verified |-> 0, revoked |-> FALSE]
            ELSE PromisedSessions[u]]
    BY DEF Promised!SignIn
  <1>4. [by |-> v, opened |-> p, verified |-> 0, revoked |-> FALSE] \in Promised!SessionRow
    BY <1>2 DEF Promised!SessionRow
  <1>5. DOMAIN PromisedSessions' = (DOMAIN PromisedSessions \ T) \cup {t}
    BY <1>3
  <1>6. \A u \in DOMAIN PromisedSessions' :
          /\ PromisedSessions'[u] \in Promised!SessionRow
          /\ \/ PromisedSessions'[u].verified = 0
             \/ u \in DOMAIN PromisedSessions /\ PromisedSessions'[u] = PromisedSessions[u]
    BY <1>1, <1>3, <1>4, <1>5
  <1>7. PromisedSessions' \in [DOMAIN PromisedSessions' -> Promised!SessionRow]
    BY <1>3, <1>5, <1>6
  <1> QED
    BY <1>1, <1>5, <1>6, <1>7, SessionsStep DEF Promised!SignIn

LEMMA PurgingStep ==
  ASSUME PromiseInv, NEW T, Promised!Purge(T)
  PROVE  PromiseInv'
  BY SessionsStep DEF Promised!Purge, PromiseInv, Promised!TypeOK

LEMMA ClosingStep ==
  ASSUME PromiseInv, NEW t \in DOMAIN PromisedSessions, Promised!SignOut(t)
  PROVE  PromiseInv'
  <1>1. /\ PromisedSessions \in [DOMAIN PromisedSessions -> Promised!SessionRow] /\ DOMAIN PromisedSessions \subseteq Tokens
        /\ PromisedSessions' = [PromisedSessions EXCEPT ![t].revoked = TRUE]
    BY DEF PromiseInv, Promised!TypeOK, Promised!SignOut
  <1>2. DOMAIN PromisedSessions' = DOMAIN PromisedSessions
    BY <1>1
  <1>3. \A u \in DOMAIN PromisedSessions :
          PromisedSessions'[u] \in Promised!SessionRow /\ (PromisedSessions'[u].revoked \/ PromisedSessions'[u] = PromisedSessions[u])
    BY <1>1 DEF Promised!SessionRow
  <1>4. PromisedSessions' \in [DOMAIN PromisedSessions' -> Promised!SessionRow]
    BY <1>1, <1>2, <1>3
  <1> QED
    BY <1>1, <1>2, <1>3, <1>4, SessionsStep DEF Promised!SignOut

\* A code is accepted for a session whose owner's factor is, then, enabled.
LEMMA AcceptStep ==
  ASSUME PromiseInv, NEW t \in DOMAIN PromisedSessions, NEW c \in Periods,
         NEW row \in Promised!Credentials, row.enabled, row.factor # 0,
         row.factor = account[PromisedSessions[t].by].factor,
         account' = [account EXCEPT ![PromisedSessions[t].by] = row], Promised!Accept(t, c)
  PROVE  PromiseInv'
  <1> DEFINE v == PromisedSessions[t].by
  <1>1. /\ Promised!TypeOK /\ FactorsThere /\ Promised!VerifiedByCurrentFactor
        /\ account \in [Reviewers -> Promised!Credentials]
        /\ PromisedSessions \in [DOMAIN PromisedSessions -> Promised!SessionRow]
        /\ PromisedSessions' = [PromisedSessions EXCEPT ![t].verified = account[v].factor]
        /\ accepted' = accepted \cup {<<v, c>>}
    BY DEF PromiseInv, Promised!TypeOK, Promised!Accept
  <1>2. v \in Reviewers
    BY <1>1 DEF Promised!SessionRow
  <1>3. /\ account' \in [Reviewers -> Promised!Credentials]
        /\ account'[v] = row
        /\ \A w \in Reviewers \ {v} : account'[w] = account[w]
    BY <1>1, <1>2, CredentialsStep
  <1>4. account[v].factor \in Nat
    BY <1>1, <1>2 DEF Promised!Credentials
  <1>5. /\ DOMAIN PromisedSessions' = DOMAIN PromisedSessions
        /\ PromisedSessions'[t] = [PromisedSessions[t] EXCEPT !.verified = account[v].factor]
        /\ \A u \in DOMAIN PromisedSessions \ {t} : PromisedSessions'[u] = PromisedSessions[u]
    BY <1>1
  <1>6. PromisedSessions'[t] \in Promised!SessionRow /\ PromisedSessions'[t].by = v /\ PromisedSessions'[t].verified = row.factor
    BY <1>1, <1>4, <1>5 DEF Promised!SessionRow
  <1>7. PromisedSessions' \in [DOMAIN PromisedSessions' -> Promised!SessionRow]
    BY <1>1, <1>5, <1>6
  <1>8. Promised!TypeOK'
    BY <1>1, <1>2, <1>3, <1>5, <1>7 DEF Promised!TypeOK
  <1>9. FactorsThere'
    BY <1>1, <1>3 DEF FactorsThere
  <1>10. Promised!VerifiedByCurrentFactor'
    <2> SUFFICES ASSUME NEW u \in DOMAIN PromisedSessions, ~PromisedSessions'[u].revoked,
                        PromisedSessions'[u].verified # 0
                 PROVE  /\ account'[PromisedSessions'[u].by].enabled
                        /\ PromisedSessions'[u].verified = account'[PromisedSessions'[u].by].factor
      BY <1>5 DEF Promised!VerifiedByCurrentFactor
    <2>1. CASE u = t
      BY <1>3, <1>6, <2>1
    <2>2. CASE u # t
      <3>1. /\ account[PromisedSessions[u].by].enabled
            /\ PromisedSessions[u].verified = account[PromisedSessions[u].by].factor
            /\ PromisedSessions[u].by \in Reviewers
        BY <1>1, <1>5, <2>2 DEF Promised!VerifiedByCurrentFactor, Promised!SessionRow
      <3> QED
        BY <1>3, <1>5, <2>2, <3>1
    <2> QED
      BY <2>1, <2>2
  <1> QED
    BY <1>8, <1>9, <1>10 DEF PromiseInv

LEMMA OfSessionStep ==
  ASSUME PromiseInv, NEW t \in DOMAIN PromisedSessions, Promised!OfSession(t)
  PROVE  PromiseInv'
  <1> DEFINE v == PromisedSessions[t].by
  <1>1. /\ account \in [Reviewers -> Promised!Credentials] /\ v \in Reviewers
        /\ FactorsThere
    BY DEF PromiseInv, Promised!TypeOK, Promised!SessionRow
  <1>2. account[v] \in Promised!Credentials
    BY <1>1
  <1>3. ASSUME NEW c \in Periods, Promised!Enable(t, c)
        PROVE  PromiseInv'
    <2> DEFINE row == [account[v] EXCEPT !.enabled = TRUE]
    <2>1. row \in Promised!Credentials /\ row.enabled /\ row.factor = account[v].factor
      BY <1>2 DEF Promised!Credentials
    <2>2. account' = [account EXCEPT ![v] = row] /\ account[v].factor # 0 /\ Promised!Accept(t, c)
      BY <1>1, <1>3 DEF Promised!Enable
    <2> QED
      BY <2>1, <2>2, AcceptStep
  <1>4. ASSUME NEW c \in Periods, Promised!Verify(t, c)
        PROVE  PromiseInv'
    <2>1. account' = [account EXCEPT ![v] = account[v]] /\ account[v].enabled /\ Promised!Accept(t, c)
      BY <1>1, <1>4 DEF Promised!Verify
    <2>2. account[v].factor # 0
      BY <1>1, <2>1 DEF FactorsThere
    <2> QED
      BY <1>2, <2>1, <2>2, AcceptStep
  <1> QED
    BY <1>3, <1>4, ClosingStep DEF Promised!OfSession

LEMMA OfAccountStep ==
  ASSUME PromiseInv, NEW v \in Reviewers, Promised!OfAccount(v)
  PROVE  PromiseInv'
  <1>1. /\ account \in [Reviewers -> Promised!Credentials] /\ account[v] \in Promised!Credentials
        /\ Promised!TypeOK /\ FactorsThere /\ Promised!VerifiedByCurrentFactor
    BY DEF PromiseInv, Promised!TypeOK
  <1>2. ASSUME NEW t \in Tokens, Promised!ChangePassword(v, t)
        PROVE  PromiseInv'
    <2>1. PICK p \in Nat : p = account[v].password + 1
      BY <1>1 DEF Promised!Credentials
    <2> DEFINE row == [account[v] EXCEPT !.password = p, !.mustChange = FALSE]
    <2>2. /\ row \in Promised!Credentials /\ row.enabled = account[v].enabled
          /\ row.factor = account[v].factor
      BY <1>1 DEF Promised!Credentials
    <2>3. /\ account' = [account EXCEPT ![v] = row]
          /\ PromisedSessions' = Promised!Revoked(v, {t}) /\ UNCHANGED accepted
      BY <1>1, <1>2, <2>1 DEF Promised!ChangePassword
    <2>4. row.enabled => row.factor # 0
      BY <1>1, <2>2 DEF FactorsThere
    <2> HIDE DEF row
    <2> QED
      BY <2>2, <2>3, <2>4, RevokingStep
  <1>3. CASE Promised!ResetPassword(v)
    <2>1. PICK p \in Nat : p = account[v].password + 1
      BY <1>1 DEF Promised!Credentials
    <2> DEFINE row == [account[v] EXCEPT !.password = p, !.mustChange = TRUE]
    <2>2. /\ row \in Promised!Credentials /\ row.enabled = account[v].enabled
          /\ row.factor = account[v].factor
      BY <1>1 DEF Promised!Credentials
    <2>3. /\ account' = [account EXCEPT ![v] = row]
          /\ PromisedSessions' = Promised!Revoked(v, {}) /\ UNCHANGED accepted
      BY <1>1, <1>3, <2>1 DEF Promised!ResetPassword
    <2>4. row.enabled => row.factor # 0
      BY <1>1, <2>2 DEF FactorsThere
    <2> HIDE DEF row
    <2> QED
      BY <2>2, <2>3, <2>4, RevokingStep
  <1>4. CASE Promised!ResetFactor(v)
    <2> DEFINE row == [account[v] EXCEPT !.factor = 0, !.enabled = FALSE]
    <2>1. row \in Promised!Credentials
      BY <1>1 DEF Promised!Credentials
    <2>2. /\ account' = [account EXCEPT ![v] = row]
          /\ PromisedSessions' = Promised!Revoked(v, {}) /\ UNCHANGED accepted
      BY <1>1, <1>4 DEF Promised!ResetFactor
    <2>3. row.enabled => row.factor # 0
      BY <1>1 DEF Promised!Credentials
    <2> HIDE DEF row
    <2> QED
      BY <2>1, <2>2, <2>3, RevokingStep
  <1>5. CASE Promised!Suspend(v)
    <2> DEFINE row == [account[v] EXCEPT !.active = FALSE]
    <2>1. /\ row \in Promised!Credentials /\ row.enabled = account[v].enabled
          /\ row.factor = account[v].factor
      BY <1>1 DEF Promised!Credentials
    <2>2. /\ account' = [account EXCEPT ![v] = row]
          /\ PromisedSessions' = Promised!Revoked(v, {}) /\ UNCHANGED accepted
      BY <1>1, <1>5 DEF Promised!Suspend
    <2>3. row.enabled => row.factor # 0
      BY <1>1, <2>1 DEF FactorsThere
    <2> HIDE DEF row
    <2> QED
      BY <2>1, <2>2, <2>3, RevokingStep
  <1>6. ASSUME Promised!Enroll(v) \/ Promised!Reinstate(v)
        PROVE  PromiseInv'
    <2>1. PICK row \in Promised!Credentials :
            /\ account' = [account EXCEPT ![v] = row]
            /\ row.enabled = account[v].enabled
            /\ \/ row.factor = account[v].factor
               \/ account[v].factor = 0 /\ row.factor # 0
      <3>1. CASE Promised!Enroll(v)
        <4>1. PICK p \in Nat : p = account[v].minted + 1 /\ p # 0
          BY <1>1 DEF Promised!Credentials
        <4> DEFINE new == [account[v] EXCEPT !.factor = p, !.minted = p]
        <4>2. new \in Promised!Credentials /\ new.enabled = account[v].enabled /\ new.factor # 0
          BY <1>1, <4>1 DEF Promised!Credentials
        <4>3. account' = [account EXCEPT ![v] = new] /\ account[v].factor = 0
          BY <1>1, <3>1, <4>1 DEF Promised!Enroll
        <4> HIDE DEF new
        <4> QED
          BY <4>2, <4>3
      <3>2. CASE Promised!Reinstate(v)
        <4> DEFINE new == [account[v] EXCEPT !.active = TRUE]
        <4>1. /\ new \in Promised!Credentials /\ new.enabled = account[v].enabled
              /\ new.factor = account[v].factor
          BY <1>1 DEF Promised!Credentials
        <4>2. account' = [account EXCEPT ![v] = new]
          BY <1>1, <3>2 DEF Promised!Reinstate
        <4> HIDE DEF new
        <4> QED
          BY <4>1, <4>2
      <3> QED
        BY <1>6, <3>1, <3>2
    <2>2. /\ account' \in [Reviewers -> Promised!Credentials]
          /\ account'[v] = row
          /\ \A w \in Reviewers \ {v} : account'[w] = account[w]
      BY <1>1, <2>1, CredentialsStep
    <2>3. UNCHANGED <<PromisedSessions, accepted>>
      BY <1>6 DEF Promised!Enroll, Promised!Reinstate
    <2>4. Promised!TypeOK'
      BY <1>1, <2>2, <2>3 DEF Promised!TypeOK
    <2>5. FactorsThere'
      BY <1>1, <2>1, <2>2 DEF FactorsThere
    <2>6. Promised!VerifiedByCurrentFactor'
      <3> SUFFICES ASSUME NEW t \in DOMAIN PromisedSessions, ~PromisedSessions[t].revoked,
                          PromisedSessions[t].verified # 0
                   PROVE  /\ account'[PromisedSessions[t].by].enabled
                          /\ PromisedSessions[t].verified = account'[PromisedSessions[t].by].factor
        BY <2>3 DEF Promised!VerifiedByCurrentFactor
      <3>1. PromisedSessions[t].by \in Reviewers
        BY <1>1 DEF Promised!TypeOK, Promised!SessionRow
      <3>2. /\ account[PromisedSessions[t].by].enabled
            /\ PromisedSessions[t].verified = account[PromisedSessions[t].by].factor
        BY <1>1 DEF Promised!VerifiedByCurrentFactor
      <3> QED
        BY <2>1, <2>2, <3>1, <3>2
    <2> QED
      BY <2>4, <2>5, <2>6 DEF PromiseInv
  <1> QED
    BY <1>2, <1>3, <1>4, <1>5, <1>6, OpeningStep DEF Promised!OfAccount

LEMMA PromiseStepwise == PromiseInv /\ [Promised!Next]_(Promised!vars) => PromiseInv'
  <1> SUFFICES ASSUME PromiseInv, [Promised!Next]_(Promised!vars) PROVE PromiseInv'
    OBVIOUS
  <1>1. CASE UNCHANGED Promised!vars
    BY <1>1 DEF PromiseInv, Promised!TypeOK, FactorsThere, Promised!VerifiedByCurrentFactor,
                Promised!vars
  <1> QED
    BY <1>1, OfAccountStep, OfSessionStep, PurgingStep DEF Promised!Next

\* Credentials, sessions and codes keep their types.
THEOREM SessionsTyped == Promised!Spec => []Promised!TypeOK
  <1>1. PromiseInv => Promised!TypeOK
    BY DEF PromiseInv
  <1> QED
    BY <1>1, PromiseInitially, PromiseStepwise, PTL DEF Promised!Spec

\* A session counts as verified only with the factor its owner has enabled now,
\* whatever is changed, reset or verified in between, for any number of reviewers
\* and sessions.
THEOREM FactorCorrect == Promised!Spec => []Promised!VerifiedByCurrentFactor
  <1>1. PromiseInv => Promised!VerifiedByCurrentFactor
    BY DEF PromiseInv
  <1> QED
    BY <1>1, PromiseInitially, PromiseStepwise, PTL DEF Promised!Spec

-----------------------------------------------------------------------------
(***************************************************************************)
(* What a transaction commits is a step of ReviewerSessions, or none.      *)
(***************************************************************************)

Stutters == UNCHANGED Promised!vars

\* Sessions that are not written stay, and so do accounts and codes.
LEMMA SessionsStay ==
  ASSUME sessions' = sessions
  PROVE  [t \in DOMAIN sessions |->
            [by |-> sessions[t].by, opened |-> sessions[t].opened,
             verified |-> sessions[t].verified, revoked |-> sessions[t].revoked]]'
         = [t \in DOMAIN sessions |->
              [by |-> sessions[t].by, opened |-> sessions[t].opened,
               verified |-> sessions[t].verified, revoked |-> sessions[t].revoked]]
OBVIOUS

\* What a commit changes.
LEMMA CommitChanges ==
  ASSUME IInv, NEW r \in Requests, Commit(r)
  PROVE  LET x == req[r]
         IN  /\ x.at = "commit" /\ Committed(x, Rows, Rows')
             /\ Local(x, held[r], Rows) /\ RowsTyped(Rows) /\ Writes(x, held[r], Rows)
             /\ Claimed(x, held[r]) = held[r] /\ x.tx.want = {}
             /\ accepted' = accepted \cup x.tx.accepted
             /\ x.tx.account = None => account' = account
             /\ \A v \in Reviewers : \A row \in Credential :
                  x.tx.account = Only(v, row) => account' = [account EXCEPT ![v] = row]
             /\ x.tx.sessions = None => sessions' = sessions
             /\ \A t \in DOMAIN sessions : \A row \in SessionRow :
                  x.tx.sessions = Only(t, row) => sessions' = [sessions EXCEPT ![t] = row]
<1> DEFINE x == req[r]
           H == held[r]
<1>1. x.at = "commit" /\ Local(x, H, Rows) /\ RowsTyped(Rows)
  BY Before DEF Commit, At
<1>2. x.tx.want = {} /\ Claimed(x, H) = H /\ Writes(x, H, Rows)
  <2> HIDE DEF x, H
  <2> QED
    BY <1>1, CommitWrites
<1>3. Committed(x, Rows, Rows')
  BY DEF Commit, Tx, Rows, Committed
<1>4. /\ account' = Applied(account, x.tx.account) /\ sessions' = Applied(sessions, x.tx.sessions)
      /\ accepted' = accepted \cup x.tx.accepted
  BY DEF Commit, Tx
<1>5. /\ account = [v \in Reviewers |-> account[v]]
      /\ sessions = [t \in DOMAIN sessions |-> sessions[t]]
  <2>1. Rows.account = account /\ Rows.sessions = sessions
    BY Before
  <2>2. Rows.account \in [Reviewers -> Credential] /\ Rows.sessions \in [DOMAIN Rows.sessions -> SessionRow]
    BY <1>1 DEF RowsTyped
  <2>3. account \in [Reviewers -> Credential] /\ sessions \in [DOMAIN sessions -> SessionRow]
    BY ONLY <2>1, <2>2
  <2> QED
    BY ONLY <2>3
<1> HIDE DEF x, H
<1>6. /\ x.tx.account = None => account' = account
      /\ \A v \in Reviewers : \A row \in Credential :
           x.tx.account = Only(v, row) => account' = [account EXCEPT ![v] = row]
  <2>1. Applied(account, None) = account
    BY ONLY <1>5, AppliedFew
  <2>2. ASSUME NEW v \in Reviewers, NEW row \in Credential
        PROVE  Applied(account, Only(v, row)) = [account EXCEPT ![v] = row]
    <3>1. row # Gone
      BY RowsAreThere
    <3> QED
      BY ONLY <1>5, <3>1, v \in Reviewers, AppliedFew
  <2> QED
    BY ONLY <1>4, <2>1, <2>2
<1>7. /\ x.tx.sessions = None => sessions' = sessions
      /\ \A t \in DOMAIN sessions : \A row \in SessionRow :
           x.tx.sessions = Only(t, row) => sessions' = [sessions EXCEPT ![t] = row]
  <2>1. Applied(sessions, None) = sessions
    BY ONLY <1>5, AppliedFew
  <2>2. ASSUME NEW t \in DOMAIN sessions, NEW row \in SessionRow
        PROVE  Applied(sessions, Only(t, row)) = [sessions EXCEPT ![t] = row]
    <3>1. row # Gone
      BY RowsAreThere
    <3> QED
      BY ONLY <1>5, <3>1, t \in DOMAIN sessions, AppliedFew
  <2> QED
    BY ONLY <1>4, <2>1, <2>2
<1> QED
  BY <1>1, <1>2, <1>3, <1>4, <1>6, <1>7 DEF x, H

\* A sign-in purges dead sessions, and opens one (login).
LEMMA LoginPromised ==
  ASSUME IInv, NEW r \in Requests, Commit(r), Call(r).op = "login"
  PROVE  Promised!Next
<1> DEFINE x == req[r]
           H == held[r]
           M == Rows
<1>1. /\ x.at = "commit" /\ Committed(x, M, M') /\ Local(x, H, M) /\ RowsTyped(M)
      /\ Writes(x, H, M) /\ Claimed(x, H) = H /\ x.call.op = "login"
      /\ accepted' = accepted \cup x.tx.accepted
      /\ x.tx.account = None => account' = account
  BY CommitChanges DEF Call
<1>2. SigningIn(x, H, M) /\ Stage(x) = "commit"
  BY <1>1, AtTells DEF Working, Stage
<1>3. account' = account /\ accepted' = accepted
  BY <1>1, <1>2 DEF SigningIn
<1>4. M.sessions = sessions /\ M'.sessions = sessions' /\ M.account = account /\ M.issued \subseteq Tokens
  BY <1>1 DEF RowsTyped, Rows
<1> HIDE DEF x, H, M
<1>5. \A t \in DOMAIN x.tx.sessions :
        \/ x.tx.sessions[t] = Gone /\ t \in M.issued
        \/ x.tx.sessions[t] # Gone /\ MintedWell(x, H, M, t)
  <2>1. \A t : MintedWell(x, H, M, t) => x.tx.sessions[t] # Gone
    BY RowsAreThere DEF MintedWell
  <2> QED
    BY <1>2, <2>1 DEF SigningIn
<1>6. PICK T \in SUBSET Tokens : T = {t \in DOMAIN x.tx.sessions : x.tx.sessions[t] = Gone}
  BY <1>4, <1>5
<1>7. /\ \A t : t \in DOMAIN sessions' <=>
           \/ t \in DOMAIN sessions \ T
           \/ t \in DOMAIN x.tx.sessions /\ x.tx.sessions[t] # Gone
      /\ \A t \in DOMAIN sessions \ T : sessions'[t] = sessions[t]
      /\ \A t \in DOMAIN x.tx.sessions : x.tx.sessions[t] # Gone => sessions'[t] = x.tx.sessions[t]
  <2>1. sessions' = Applied(sessions, x.tx.sessions)
    BY <1>1, <1>4 DEF Committed
  <2>2. \A t \in DOMAIN x.tx.sessions : x.tx.sessions[t] # Gone => t \notin DOMAIN sessions
    BY <1>4, <1>5 DEF MintedWell
  <2> DEFINE W == x.tx.sessions
  <2>3. /\ \A t : t \in DOMAIN Applied(sessions, W) <=>
             \/ t \in DOMAIN sessions /\ t \notin DOMAIN W
             \/ t \in DOMAIN W /\ W[t] # Gone
        /\ \A t \in DOMAIN sessions \ DOMAIN W : Applied(sessions, W)[t] = sessions[t]
        /\ \A t \in DOMAIN W : W[t] # Gone => Applied(sessions, W)[t] = W[t]
    <3> HIDE DEF W
    <3> QED
      BY ONLY AppliedTo
  <2> QED
    BY <1>6, <2>1, <2>2, <2>3
<1>8. CASE \A t \in DOMAIN x.tx.sessions : x.tx.sessions[t] = Gone
  <2>1. DOMAIN sessions' = DOMAIN sessions \ T
    BY <1>6, <1>7, <1>8
  <2>2. Promised!Purge(T)
    BY <1>3, <1>7, <2>1 DEF PromisedSessions, Promised!Purge
  <2> QED
    BY <2>2 DEF PromisedSessions, Promised!Next
<1>9. CASE \E t \in DOMAIN x.tx.sessions : x.tx.sessions[t] # Gone
  <2>1. PICK t \in DOMAIN x.tx.sessions : x.tx.sessions[t] # Gone
    BY <1>9
  <2> DEFINE row == x.tx.sessions[t]
  <2>a. PICK v \in Reviewers : v = x.tx.who
    BY <1>5, <2>1 DEF MintedWell
  <2>2. /\ t \in M.issued /\ t \notin DOMAIN sessions
        /\ row \in SessionRow /\ row.by = v /\ row.verified = 0 /\ ~row.revoked
        /\ row.opened <= account[v].password
    BY <1>4, <1>5, <2>1, <2>a DEF MintedWell
  <2>3. \A u \in DOMAIN x.tx.sessions : x.tx.sessions[u] # Gone => u = t
    BY <1>2, <2>1 DEF SigningIn, Minted
  <2>4. DOMAIN sessions' = (DOMAIN sessions \ T) \cup {t}
    BY <1>7, <2>1, <2>3
  <2>5. sessions'[t] = row /\ t \in Tokens
    BY <1>4, <1>7, <2>1, <2>2
  <2>6. row.opened \in 0 .. account[v].password /\ row.revoked = FALSE
    <3>1. row.opened \in Nat /\ row.revoked \in BOOLEAN
      BY <2>2 DEF SessionRow
    <3>2. account[v].password \in Nat
      BY <1>1, <1>4, <2>2 DEF RowsTyped, Credential
    <3> QED
      BY <2>2, <3>1, <3>2
  <2>7. Promised!SignIn(v, t, T)
    <3> HIDE DEF row
    <3>1. PICK p \in 0 .. account[v].password : p = row.opened
      BY <2>6
    <3> DEFINE new == [by |-> v, opened |-> p, verified |-> 0, revoked |-> FALSE]
               was == [u \in DOMAIN sessions |->
                         [by |-> sessions[u].by, opened |-> sessions[u].opened,
                          verified |-> sessions[u].verified, revoked |-> sessions[u].revoked]]
    <3>2. [by |-> row.by, opened |-> row.opened, verified |-> row.verified, revoked |-> row.revoked]
            = new
      BY <2>2, <2>6, <3>1
    <3>3. was' = [u \in (DOMAIN was \ T) \cup {t} |-> IF u = t THEN new ELSE was[u]]
      <4> HIDE DEF new
      <4> QED
        BY <1>7, <2>2, <2>4, <2>5, <3>2
    <3> QED
      BY <1>3, <2>2, <3>3 DEF PromisedSessions, Promised!SignIn
  <2>8. Promised!OfAccount(v)
    BY <2>5, <2>7 DEF PromisedSessions, Promised!OfAccount
  <2> QED
    BY <2>8 DEF PromisedSessions, Promised!Next
<1> QED
  BY <1>8, <1>9

\* A session is signed out (logout).
LEMMA LogoutPromised ==
  ASSUME IInv, NEW r \in Requests, Commit(r), Call(r).op = "logout"
  PROVE  Promised!Next
<1> DEFINE x == req[r]
           H == held[r]
           M == Rows
           t == x.call.token
           row == [sessions[t] EXCEPT !.revoked = TRUE]
<1>1. /\ x.at = "commit" /\ Local(x, H, M) /\ RowsTyped(M) /\ x.call.op = "logout"
      /\ accepted' = accepted \cup x.tx.accepted
      /\ x.tx.account = None => account' = account
      /\ \A u \in DOMAIN sessions : \A new \in SessionRow :
           x.tx.sessions = Only(u, new) => sessions' = [sessions EXCEPT ![u] = new]
  BY CommitChanges DEF Call
<1>2. SigningOut(x, H, M) /\ Stage(x) = "commit" /\ M.sessions = sessions
  BY <1>1, AtTells DEF Working, Stage, Rows
<1>3. /\ t \in DOMAIN sessions /\ x.tx.sessions = Only(t, row)
      /\ account' = account /\ accepted' = accepted
  BY <1>1, <1>2 DEF SigningOut
<1>4. sessions[t] \in SessionRow /\ row \in SessionRow
  BY <1>1, <1>2, <1>3, RowsChanged DEF RowsTyped
<1>5. sessions' = [sessions EXCEPT ![t] = row]
  <2> HIDE DEF row
  <2> QED
    BY <1>1, <1>3, <1>4
<1> HIDE DEF x, H, M
<1>6. /\ DOMAIN sessions' = DOMAIN sessions /\ row.by = sessions[t].by /\ row.opened = sessions[t].opened
      /\ row.verified = sessions[t].verified /\ row.revoked = TRUE
      /\ sessions'[t] = row
      /\ \A u \in DOMAIN sessions \ {t} : sessions'[u] = sessions[u]
  <2>1. row.by = sessions[t].by /\ row.opened = sessions[t].opened
        /\ row.verified = sessions[t].verified /\ row.revoked = TRUE
    BY <1>4 DEF SessionRow
  <2> HIDE DEF row
  <2> QED
    BY <1>3, <1>5, <2>1
<1> HIDE DEF row
<1>7. PICK u \in DOMAIN sessions : u = t
  BY <1>3
<1>8. Promised!SignOut(u)
  <2> HIDE DEF t
  <2> QED
    BY <1>3, <1>6, <1>7 DEF PromisedSessions, Promised!SignOut
<1> QED
  BY <1>8 DEF PromisedSessions, Promised!Next, Promised!OfSession

\* An operation on an account commits what it knows of the account as it is.
LEMMA OwnerCommits ==
  ASSUME IInv, NEW r \in Requests, Commit(r), Call(r).op \in Owners
  PROVE  LET x == req[r]
             v == x.tx.who
         IN  /\ Owning(x, held[r], Rows) /\ Working(x, held[r], Rows) /\ Stage(x) = "commit"
             /\ x.call.op = Call(r).op /\ x.call \in CallRecord
             /\ v \in Reviewers /\ account[v] \in Credential /\ Rows.account = account
             /\ Rows.sessions = sessions /\ sessions \in [DOMAIN sessions -> SessionRow]
             /\ Rows.accepted = accepted
             /\ \A t \in DOMAIN sessions :
                  Exclusive(SessionLock(t)) \in held[r] => sessions[t].by = v
             /\ x.call.op \in OfSession /\ x.call.token \in DOMAIN sessions =>
                  sessions[x.call.token].by = v
<1> DEFINE x == req[r]
           H == held[r]
           M == Rows
<1>1. /\ x.at = "commit" /\ Local(x, H, M) /\ RowsTyped(M) /\ Claimed(x, H) = H
      /\ x.call.op = Call(r).op
  BY CommitChanges DEF Call
<1>2. /\ M.account = account /\ M.sessions = sessions /\ M.accepted = accepted
  BY DEF Rows
<1> HIDE DEF x, H, M
<1>3. /\ Working(x, H, M) /\ Stage(x) = "commit" /\ Owning(x, H, M) /\ x.call \in CallRecord
  BY <1>1, AtTells DEF Working, Stage
<1>4. /\ x.tx.who \in Reviewers
      /\ \A t \in Concerns(x, H) : t \in DOMAIN M.sessions => M.sessions[t].by = x.tx.who
  BY <1>3 DEF Owning
<1>5. /\ M.account \in [Reviewers -> Credential] /\ M.sessions \in [DOMAIN M.sessions -> SessionRow]
      /\ DOMAIN M.sessions \subseteq Tokens
  BY <1>1 DEF RowsTyped
<1>6. ASSUME NEW t \in DOMAIN sessions, Exclusive(SessionLock(t)) \in H
      PROVE  sessions[t].by = x.tx.who
  BY <1>1, <1>2, <1>4, <1>5, <1>6 DEF Concerns
<1>7. x.call.op \in OfSession /\ x.call.token \in DOMAIN sessions =>
        sessions[x.call.token].by = x.tx.who
  BY <1>2, <1>4 DEF Concerns
<1> QED
  BY <1>1, <1>2, <1>3, <1>4, <1>5, <1>6, <1>7 DEF x, H, M

\* A factor is prepared, or shown again (start_mfa_enrollment).
LEMMA EnrollPromised ==
  ASSUME IInv, NEW r \in Requests, Commit(r), Call(r).op = "enroll"
  PROVE  Promised!Next \/ Stutters
<1> DEFINE x == req[r]
<1>0. PICK v : v = x.tx.who
  OBVIOUS
<1> DEFINE row == account[v]
           new == [row EXCEPT !.factor = row.minted + 1, !.minted = @ + 1]
<1>1. /\ x.call.op = "enroll" /\ v \in Reviewers /\ row \in Credential /\ Stage(x) = "commit"
      /\ Working(x, held[r], Rows) /\ Rows.account = account
  BY <1>0, OwnerCommits DEF Owners
<1>2. /\ accepted' = accepted \cup x.tx.accepted
      /\ x.tx.account = None => account' = account
      /\ \A w \in Reviewers : \A c \in Credential :
           x.tx.account = Only(w, c) => account' = [account EXCEPT ![w] = c]
      /\ x.tx.sessions = None => sessions' = sessions
  BY CommitChanges
<1>3. /\ x.tx.sessions = None /\ x.tx.accepted = {}
      /\ x.tx.account = None \/ (row.factor = 0 /\ x.tx.account = Only(v, new))
  BY <1>0, <1>1 DEF Working, Enrolling
<1>4. sessions' = sessions /\ accepted' = accepted
  BY <1>2, <1>3
<1>5. CASE x.tx.account = None
  BY <1>2, <1>4, <1>5, SessionsStay DEF PromisedSessions, Stutters, Promised!vars
<1>6. CASE row.factor = 0 /\ x.tx.account = Only(v, new)
  <2>1. new \in Credential
    BY <1>1, RowsChanged
  <2>2. account' = [account EXCEPT ![v] = new]
    <3> HIDE DEF new
    <3> QED
      BY <1>1, <1>2, <1>6, <2>1
  <2>3. account' = [account EXCEPT ![v].factor = account[v].minted + 1, ![v].minted = @ + 1]
    BY <2>2
  <2>4. Promised!Enroll(v)
    <3> HIDE DEF row, new, x
    <3> QED
      BY <1>4, <1>6, <2>3, SessionsStay DEF PromisedSessions, Promised!Enroll, row
  <2>5. Promised!OfAccount(v)
    BY <2>4 DEF PromisedSessions, Promised!OfAccount
  <2> QED
    BY <1>1, <2>5 DEF PromisedSessions, Promised!Next
<1> QED
  BY <1>3, <1>5, <1>6

\* A reviewer is reinstated (set_reviewer_active_admin).
LEMMA ReinstatePromised ==
  ASSUME IInv, NEW r \in Requests, Commit(r), Call(r).op = "reinstate"
  PROVE  Promised!Next
<1> DEFINE x == req[r]
<1>0. PICK v : v = x.tx.who
  OBVIOUS
<1> DEFINE new == [account[v] EXCEPT !.active = TRUE]
<1>1. /\ x.call.op = "reinstate" /\ v \in Reviewers /\ account[v] \in Credential /\ Stage(x) = "commit"
      /\ Working(x, held[r], Rows) /\ Rows.account = account
  BY <1>0, OwnerCommits DEF Owners
<1>2. /\ accepted' = accepted \cup x.tx.accepted
      /\ \A w \in Reviewers : \A c \in Credential :
           x.tx.account = Only(w, c) => account' = [account EXCEPT ![w] = c]
      /\ x.tx.sessions = None => sessions' = sessions
  BY CommitChanges
<1>3. x.tx.sessions = None /\ x.tx.accepted = {} /\ x.tx.account = Only(v, new)
  BY <1>0, <1>1 DEF Working, Reinstating
<1>4. new \in Credential
  BY <1>1, RowsChanged
<1>5. account' = [account EXCEPT ![v] = new] /\ sessions' = sessions /\ accepted' = accepted
  <2> HIDE DEF new
  <2> QED
    BY <1>1, <1>2, <1>3, <1>4
<1>6. Promised!Reinstate(v)
  <2> HIDE DEF x
  <2> QED
    BY <1>5, SessionsStay DEF PromisedSessions, Promised!Reinstate
<1>7. Promised!OfAccount(v)
  BY <1>6 DEF PromisedSessions, Promised!OfAccount
<1> QED
  BY <1>1, <1>7 DEF PromisedSessions, Promised!Next

\* A code is accepted, or nothing but a failure is on record (_verify_mfa_attempt).
LEMMA CodePromised ==
  ASSUME IInv, NEW r \in Requests, Commit(r), Call(r).op \in {"enable", "verify"}
  PROVE  Promised!Next \/ Stutters
<1> DEFINE x == req[r]
           H == held[r]
<1>0. PICK v, t, c : v = x.tx.who /\ t = x.call.token /\ c = x.call.period
  OBVIOUS
<1> DEFINE row == account[v]
           new == [row EXCEPT !.enabled = TRUE]
           session == [sessions[t] EXCEPT !.verified = row.factor]
<1>1. /\ x.call.op = Call(r).op /\ v \in Reviewers /\ row \in Credential /\ Stage(x) = "commit"
      /\ Working(x, H, Rows) /\ Rows.account = account /\ Rows.sessions = sessions
      /\ Rows.accepted = accepted /\ sessions \in [DOMAIN sessions -> SessionRow]
      /\ t \in DOMAIN sessions => sessions[t].by = v
  BY <1>0, OwnerCommits DEF Owners, OfSession
<1>2. /\ accepted' = accepted \cup x.tx.accepted
      /\ x.tx.account = None => account' = account
      /\ \A w \in Reviewers : \A cr \in Credential :
           x.tx.account = Only(w, cr) => account' = [account EXCEPT ![w] = cr]
      /\ x.tx.sessions = None => sessions' = sessions
      /\ \A u \in DOMAIN sessions : \A s \in SessionRow :
           x.tx.sessions = Only(u, s) => sessions' = [sessions EXCEPT ![u] = s]
  BY CommitChanges
<1> HIDE DEF x, H
<1>3. Proving(x, H, Rows)
  BY <1>1 DEF Working
<1>4. CASE NothingWritten(x)
  <2>1. account' = account /\ sessions' = sessions /\ accepted' = accepted
    BY <1>2, <1>4 DEF NothingWritten
  <2> QED
    BY <2>1, SessionsStay DEF PromisedSessions, Stutters, Promised!vars
<1>5. CASE ~NothingWritten(x)
  <2>1. /\ x.tx.accepted = {<<v, c>>} /\ <<v, c>> \notin accepted /\ c \in Periods
        /\ x.tx.account = IF x.call.op = "enable" THEN Only(v, new) ELSE None
        /\ IF x.call.op = "enable" THEN row.factor # 0 ELSE row.enabled
        /\ t \in DOMAIN sessions /\ x.tx.sessions = Only(t, session)
    BY <1>0, <1>1, <1>3, <1>5 DEF Proving, Accepting
  <2>2. /\ session \in SessionRow /\ session.by = v /\ session.opened = sessions[t].opened
        /\ session.verified = row.factor /\ session.revoked = sessions[t].revoked
        /\ sessions[t].by = v
    BY <1>1, <2>1 DEF SessionRow, Credential
  <2>3. sessions' = [sessions EXCEPT ![t] = session]
    <3> HIDE DEF session
    <3> QED
      BY <1>2, <2>1, <2>2
  <2>4. /\ DOMAIN sessions' = DOMAIN sessions /\ sessions'[t] = session
        /\ \A u \in DOMAIN sessions \ {t} : sessions'[u] = sessions[u]
    <3> HIDE DEF session
    <3> QED
      BY <2>1, <2>3
  <2>5. Promised!Accept(t, c)
    <3> HIDE DEF session
    <3>1. accepted' = accepted \cup {<<v, c>>}
      BY <1>2, <2>1
    <3> DEFINE was == [u \in DOMAIN sessions |->
                         [by |-> sessions[u].by, opened |-> sessions[u].opened,
                          verified |-> sessions[u].verified, revoked |-> sessions[u].revoked]]
    <3>2. was[t].by = v /\ <<v, c>> \notin accepted
      BY <2>1, <2>2
    <3>3. was' = [was EXCEPT ![t].verified = row.factor]
      BY <2>1, <2>2, <2>4
    <3>4. account[was[t].by] = row
      BY <3>2
    <3> HIDE DEF was
    <3>5. /\ <<was[t].by, c>> \notin accepted
          /\ accepted' = accepted \cup {<<was[t].by, c>>}
          /\ was' = [was EXCEPT ![t].verified = account[was[t].by].factor]
      BY <3>1, <3>2, <3>3, <3>4
    <3> QED
      BY <3>5 DEF PromisedSessions, Promised!Accept, was
  <2>6. account[[u \in DOMAIN sessions |->
                   [by |-> sessions[u].by, opened |-> sessions[u].opened,
                    verified |-> sessions[u].verified, revoked |-> sessions[u].revoked]][t].by] = row
    BY <2>1, <2>2
  <2>7. CASE x.call.op = "enable"
    <3>1. new \in Credential
      BY <1>1, RowsChanged
    <3>2. account' = [account EXCEPT ![v] = new] /\ row.factor # 0
      <4> HIDE DEF new
      <4> QED
        BY <1>1, <1>2, <2>1, <2>7, <3>1
    <3>3. Promised!Enable(t, c)
      BY <2>1, <2>2, <2>5, <2>6, <3>2 DEF PromisedSessions, Promised!Enable
    <3>4. Promised!OfSession(t)
      BY <2>1, <3>3 DEF PromisedSessions, Promised!OfSession
    <3> QED
      BY <2>1, <3>4 DEF PromisedSessions, Promised!Next
  <2>8. CASE x.call.op # "enable"
    <3>1. account' = account /\ row.enabled
      BY <1>2, <2>1, <2>8
    <3>2. Promised!Verify(t, c)
      BY <2>5, <2>6, <3>1 DEF PromisedSessions, Promised!Verify
    <3>3. Promised!OfSession(t)
      BY <2>1, <3>2 DEF PromisedSessions, Promised!OfSession
    <3> QED
      BY <2>1, <3>3 DEF PromisedSessions, Promised!Next
  <2> QED
    BY <2>7, <2>8
<1> QED
  BY <1>4, <1>5

\* Sessions are revoked: those of the reviewer that are not spared (_revoke_sessions).
LEMMA RevokedAsPromised ==
  ASSUME NEW v, NEW kept, sessions \in [DOMAIN sessions -> SessionRow],
         DOMAIN sessions' = DOMAIN sessions,
         \A t \in DOMAIN sessions :
           IF sessions[t].by = v /\ t \notin kept
           THEN \/ sessions'[t] = [sessions[t] EXCEPT !.revoked = TRUE]
                \/ sessions'[t] = sessions[t] /\ sessions[t].revoked
           ELSE sessions'[t] = sessions[t]
  PROVE  [t \in DOMAIN sessions |->
            [by |-> sessions[t].by, opened |-> sessions[t].opened,
             verified |-> sessions[t].verified, revoked |-> sessions[t].revoked]]'
         = Promised!Revoked(v, kept)
<1> DEFINE shown(s) == [by |-> s.by, opened |-> s.opened, verified |-> s.verified,
                        revoked |-> s.revoked]
<1>1. ASSUME NEW t \in DOMAIN sessions
      PROVE  shown(sessions'[t]) =
               [shown(sessions[t]) EXCEPT !.revoked = @ \/ (sessions[t].by = v /\ t \notin kept)]
  <2>1. PICK s \in SessionRow : s = sessions[t]
    OBVIOUS
  <2>2. s.revoked \in BOOLEAN
    BY DEF SessionRow
  <2>3. CASE sessions[t].by = v /\ t \notin kept
    <3>1. \/ sessions'[t] = [s EXCEPT !.revoked = TRUE]
          \/ sessions'[t] = s /\ s.revoked = TRUE
      BY <2>1, <2>2, <2>3
    <3>2. LET z == [s EXCEPT !.revoked = TRUE]
          IN  z.by = s.by /\ z.opened = s.opened /\ z.verified = s.verified /\ z.revoked = TRUE
      BY DEF SessionRow
    <3>3. shown(sessions'[t]) = [by |-> s.by, opened |-> s.opened, verified |-> s.verified,
                                 revoked |-> TRUE]
      BY <3>1, <3>2
    <3>4. (s.revoked \/ (sessions[t].by = v /\ t \notin kept)) = TRUE
      BY <2>3
    <3>5. [shown(s) EXCEPT !.revoked = @ \/ (sessions[t].by = v /\ t \notin kept)]
            = [by |-> s.by, opened |-> s.opened, verified |-> s.verified, revoked |-> TRUE]
      <4> DEFINE b == s.revoked \/ (sessions[t].by = v /\ t \notin kept)
      <4>1. [shown(s) EXCEPT !.revoked = @ \/ (sessions[t].by = v /\ t \notin kept)]
              = [by |-> s.by, opened |-> s.opened, verified |-> s.verified, revoked |-> b]
        <5> HIDE DEF shown
        <5>1. shown(s).revoked = s.revoked
          BY DEF shown
        <5>2. [shown(s) EXCEPT !.revoked = @ \/ (sessions[t].by = v /\ t \notin kept)]
                = [shown(s) EXCEPT !.revoked = b]
          BY <5>1
        <5> HIDE DEF b
        <5> QED
          BY <5>2 DEF shown
      <4> QED
        BY <3>4, <4>1
    <3> QED
      BY <2>1, <3>3, <3>5
  <2>4. CASE ~(sessions[t].by = v /\ t \notin kept)
    <3>1. sessions'[t] = s
      BY <2>1, <2>4
    <3>2. (s.revoked \/ (sessions[t].by = v /\ t \notin kept)) = s.revoked
      BY <2>2, <2>4
    <3>3. [shown(s) EXCEPT !.revoked = @ \/ (sessions[t].by = v /\ t \notin kept)] = shown(s)
      BY <3>2
    <3> QED
      BY <2>1, <3>1, <3>3
  <2> QED
    BY <2>3, <2>4
<1>2. \A t \in DOMAIN sessions : sessions[t].by = shown(sessions[t]).by
  OBVIOUS
<1> QED
  BY <1>1, <1>2 DEF PromisedSessions, Promised!Revoked

\* A change of password, of factor or of standing commits with every other session of
\* the reviewer revoked (change_password, reset_reviewer_password_admin,
\* reset_reviewer_mfa_admin, set_reviewer_active_admin).
LEMMA RevokerPromised ==
  ASSUME IInv, NEW r \in Requests, Commit(r), Call(r).op \in Revokers
  PROVE  Promised!Next
<1> DEFINE x == req[r]
           H == held[r]
<1>0. PICK v, kept : v = x.tx.who /\ kept = Keeps(x)
  OBVIOUS
<1> DEFINE row == account[v]
           new == NewRow(x.call.op, row)
<1>1. /\ x.call.op = Call(r).op /\ v \in Reviewers /\ row \in Credential /\ Stage(x) = "commit"
      /\ x.call \in CallRecord
      /\ Working(x, H, Rows) /\ Rows.account = account /\ Rows.sessions = sessions
      /\ sessions \in [DOMAIN sessions -> SessionRow]
      /\ \A t \in DOMAIN sessions : Exclusive(SessionLock(t)) \in H => sessions[t].by = v
  BY <1>0, OwnerCommits DEF Owners
<1>2. /\ accepted' = accepted \cup x.tx.accepted
      /\ \A w \in Reviewers : \A c \in Credential :
           x.tx.account = Only(w, c) => account' = [account EXCEPT ![w] = c]
      /\ RowsTyped(Rows) /\ Writes(x, H, Rows) /\ Committed(x, Rows, Rows')
  BY CommitChanges
<1> HIDE DEF x, H
<1>3. Revoking(x, H, Rows)
  BY <1>1 DEF Working
<1>4. /\ x.tx.account = Only(v, new) /\ x.tx.accepted = {}
      /\ x.call.op = "reset factor" => row.enabled
      /\ \A t \in DOMAIN x.tx.sessions :
           /\ t \in DOMAIN sessions \ kept /\ Exclusive(SessionLock(t)) \in H
           /\ x.tx.sessions[t] = [sessions[t] EXCEPT !.revoked = TRUE]
      /\ \A t \in DOMAIN sessions :
           sessions[t].by = v => t \in DOMAIN x.tx.sessions \cup kept \/ sessions[t].revoked
  BY <1>0, <1>1, <1>3 DEF Revoking
<1>5. account' = [account EXCEPT ![v] = new] /\ accepted' = accepted
  <2>1. new \in Credential
    BY <1>1, RowsChanged
  <2> HIDE DEF new
  <2> QED
    BY <1>1, <1>2, <1>4, <2>1
<1>6. [t \in DOMAIN sessions |->
         [by |-> sessions[t].by, opened |-> sessions[t].opened,
          verified |-> sessions[t].verified, revoked |-> sessions[t].revoked]]'
      = Promised!Revoked(v, kept)
  <2> DEFINE W == x.tx.sessions
  <2>1. sessions' = Applied(sessions, W)
    BY <1>1, <1>2 DEF Committed, Rows
  <2>2. ASSUME NEW t \in DOMAIN W
        PROVE  W[t] # Gone /\ t \in DOMAIN sessions
    <3>1. [sessions[t] EXCEPT !.revoked = TRUE] \in SessionRow
      BY <1>1, <1>4, RowsChanged
    <3> QED
      BY <1>4, <3>1, RowsAreThere
  <2>3. /\ \A t : t \in DOMAIN Applied(sessions, W) <=>
             \/ t \in DOMAIN sessions /\ t \notin DOMAIN W
             \/ t \in DOMAIN W /\ W[t] # Gone
        /\ \A t \in DOMAIN sessions \ DOMAIN W : Applied(sessions, W)[t] = sessions[t]
        /\ \A t \in DOMAIN W : W[t] # Gone => Applied(sessions, W)[t] = W[t]
    <3> HIDE DEF W
    <3> QED
      BY ONLY AppliedTo
  <2>4. DOMAIN sessions' = DOMAIN sessions
    BY <2>1, <2>2, <2>3
  <2>5. ASSUME NEW t \in DOMAIN sessions
        PROVE  IF sessions[t].by = v /\ t \notin kept
               THEN \/ sessions'[t] = [sessions[t] EXCEPT !.revoked = TRUE]
                    \/ sessions'[t] = sessions[t] /\ sessions[t].revoked
               ELSE sessions'[t] = sessions[t]
    <3>1. CASE t \in DOMAIN W
      <4>1. sessions'[t] = [sessions[t] EXCEPT !.revoked = TRUE]
        BY <1>4, <2>1, <2>2, <2>3, <3>1
      <4>2. sessions[t].by = v /\ t \notin kept
        BY <1>1, <1>4, <3>1
      <4> QED
        BY <4>1, <4>2
    <3>2. CASE t \notin DOMAIN W
      <4>1. sessions'[t] = sessions[t]
        BY <2>1, <2>3, <3>2
      <4> QED
        BY <1>4, <3>2, <4>1
    <3> QED
      BY <3>1, <3>2
  <2> QED
    BY ONLY <1>1, <2>4, <2>5, RevokedAsPromised
<1>7. CASE x.call.op = "change"
  <2>1. PICK t \in Tokens : t = x.call.token /\ kept = {t}
    BY <1>0, <1>1, <1>7, CallOps DEF OfSession, Keeps
  <2>2. account' = [account EXCEPT ![v].password = @ + 1, ![v].mustChange = FALSE]
    BY <1>5, <1>7 DEF NewRow
  <2>3. Promised!ChangePassword(v, t)
    BY <1>5, <1>6, <2>1, <2>2 DEF PromisedSessions, Promised!ChangePassword
  <2>4. Promised!OfAccount(v)
    BY <2>3 DEF PromisedSessions, Promised!OfAccount
  <2> QED
    BY <1>1, <2>4 DEF PromisedSessions, Promised!Next
<1>8. CASE x.call.op # "change"
  <2>1. kept = {} /\ x.call.op \in {"reset password", "reset factor", "suspend"}
    BY <1>0, <1>1, <1>8 DEF Keeps, Revokers
  <2>2. ASSUME x.call.op = "reset password"
        PROVE  Promised!OfAccount(v)
    <3>1. account' = [account EXCEPT ![v].password = @ + 1, ![v].mustChange = TRUE]
      BY <1>5, <2>2 DEF NewRow
    <3>2. Promised!ResetPassword(v)
      BY <1>5, <1>6, <2>1, <3>1 DEF PromisedSessions, Promised!ResetPassword
    <3> QED
      BY <3>2 DEF PromisedSessions, Promised!OfAccount
  <2>3. ASSUME x.call.op = "reset factor"
        PROVE  Promised!OfAccount(v)
    <3>1. account' = [account EXCEPT ![v].factor = 0, ![v].enabled = FALSE]
      BY <1>5, <2>3 DEF NewRow
    <3>2. account[v].enabled
      BY <1>4, <2>3
    <3>3. Promised!ResetFactor(v)
      BY <1>5, <1>6, <2>1, <3>1, <3>2 DEF PromisedSessions, Promised!ResetFactor
    <3> QED
      BY <3>3 DEF PromisedSessions, Promised!OfAccount
  <2>4. ASSUME x.call.op = "suspend"
        PROVE  Promised!OfAccount(v)
    <3>1. account' = [account EXCEPT ![v].active = FALSE]
      BY <1>5, <2>4 DEF NewRow
    <3>2. Promised!Suspend(v)
      BY <1>5, <1>6, <2>1, <3>1 DEF PromisedSessions, Promised!Suspend
    <3> QED
      BY <3>2 DEF PromisedSessions, Promised!OfAccount
  <2>5. Promised!OfAccount(v)
    BY <2>1, <2>2, <2>3, <2>4 DEF PromisedSessions, Promised!OfAccount
  <2> QED
    BY <1>1, <2>5 DEF PromisedSessions, Promised!Next
<1> QED
  BY <1>7, <1>8

\* Whatever is committed, it is what ReviewerSessions promises.
LEMMA CommitPromised ==
  ASSUME IInv, NEW r \in Requests, Commit(r)
  PROVE  Promised!Next \/ Stutters
<1>1. Call(r).op \in {"login", "logout"} \cup Owners
  <2>1. req[r].at = "commit" /\ Local(req[r], held[r], Rows)
    BY CommitChanges
  <2> DEFINE x == req[r]
             H == held[r]
             M == Rows
  <2>2. x.call.op \in {"login", "logout"} \cup Owners
    <3> HIDE DEF x, H, M
    <3> QED
      BY <2>1, AtTells DEF x, H, M
  <2> QED
    BY <2>2 DEF Call
<1> QED
  BY <1>1, LoginPromised, LogoutPromised, EnrollPromised, CodePromised, RevokerPromised,
     ReinstatePromised DEF Owners

\* What is promised keeps verifications to factors that are enabled.
LEMMA PromisesKept ==
  ASSUME IInv, Promised!Next \/ Stutters
  PROVE  FactorsThere' /\ VerifiedByCurrentFactor'
<1>1. Promised!TypeOK
  <2>1. RowsTyped(Rows)
    BY DEF IInv
  <2>2. /\ account \in [Reviewers -> Credential] /\ sessions \in [DOMAIN sessions -> SessionRow]
        /\ DOMAIN sessions \subseteq Tokens /\ accepted \subseteq Reviewers \X Periods
    BY <2>1 DEF RowsTyped, Rows
  <2>3. DOMAIN PromisedSessions = DOMAIN sessions
    BY DEF PromisedSessions
  <2>4. PromisedSessions \in [DOMAIN PromisedSessions ->
                                [by : Reviewers, opened : Nat, verified : Nat, revoked : BOOLEAN]]
    BY <2>2, <2>3 DEF PromisedSessions, SessionRow
  <2> QED
    BY <2>2, <2>3, <2>4 DEF Promised!TypeOK, Promised!Credentials, Promised!SessionRow, Credential
<1>2. PromiseInv
  BY <1>1 DEF IInv, VerifiedByCurrentFactor, PromiseInv
<1>3. PromiseInv'
  BY <1>2, PromiseStepwise DEF Stutters, Promised!vars
<1> QED
  BY <1>3 DEF PromiseInv, VerifiedByCurrentFactor

\* A transaction commits (COMMIT).
LEMMA CommitStep ==
  ASSUME IInv, NEW r \in Requests, Commit(r)
  PROVE  IInv'
<1> DEFINE x == req[r]
           H == held[r]
           M == Rows
           N == Rows'
           y == [Idle EXCEPT !.at = "done", !.reply = Tx(r).reply]
<1>1. /\ x.at = "commit" /\ Committed(x, M, N) /\ Local(x, H, M) /\ RowsTyped(M)
      /\ Writes(x, H, M) /\ Claimed(x, H) = H
  BY CommitChanges
<1>2. /\ req' = [req EXCEPT ![r] = y] /\ held' = [held EXCEPT ![r] = {}]
      /\ UNCHANGED <<scope, now, issued, hashing>>
  BY DEF Commit
<1>3. IsRequest(y) /\ Local(y, {}, N) /\ y.at = "done" /\ Mints(y) = {} /\ Touches(y, {}) = {}
  BY Ended
<1> HIDE DEF y
<1>4. OnlyFor(r) /\ req'[r] = y /\ held'[r] = {}
  BY <1>2, OnlyOne DEF IInv
<1>5. Hashing'
  <2>1. Hashing /\ hashing' = hashing /\ x.at = "commit" /\ req'[r].at # "hash" /\ OnlyFor(r)
    BY <1>1, <1>2, <1>3, <1>4 DEF IInv
  <2> QED
    BY ONLY <2>1, r \in Requests DEF Hashing, OnlyFor, At
<1>6. ScopeTyped'
  BY <1>2 DEF IInv, ScopeTyped
<1>7. RowsTyped(N) /\ CodesRecorded(N)
  <2>1. CodesRecorded(M)
    BY DEF IInv
  <2> HIDE DEF x, H, M, N
  <2> QED
    BY <1>1, <2>1, CommittedTyped, CommittedCodes
<1>8. FactorsThere' /\ VerifiedByCurrentFactor'
  BY CommitPromised, PromisesKept
<1>9. ASSUME NEW q \in Requests \ {r}
      PROVE  /\ Local(req[q], held[q], N)
             /\ Apart(y, {}, req[q], held[q], N)
             /\ Apart(req[q], held[q], y, {}, N)
  <2>1. /\ Local(req[q], held[q], M)
        /\ Apart(x, H, req[q], held[q], M) /\ Apart(req[q], held[q], x, H, M)
    BY DEF IInv, Orderly, Together
  <2>2. Local(req[q], held[q], N)
    <3> DEFINE z == req[q]
               K == held[q]
    <3> HIDE DEF x, H, M, N, z, K
    <3>1. Local(z, K, M) /\ Apart(x, H, z, K, M) /\ Apart(z, K, x, H, M)
      BY <2>1 DEF z, K
    <3>2. Local(z, K, N)
      BY ONLY <1>1, <3>1, CommitSpares
    <3> QED
      BY <3>2 DEF z, K
  <2>3. LocksApart(y, {}, req[q], held[q], N) /\ LocksApart(req[q], held[q], y, {}, N)
    BY DEF LocksApart
  <2>4. SessionsApart(y, {}, req[q], held[q]) /\ SessionsApart(req[q], held[q], y, {})
    BY <1>3 DEF SessionsApart
  <2> QED
    BY <2>2, <2>3, <2>4 DEF Apart
<1>10. ASSUME NEW p \in Requests \ {r}, NEW q \in Requests \ {r}, p # q
       PROVE  Apart(req[p], held[p], req[q], held[q], N)
  <2> DEFINE a == req[p]
             A == held[p]
             b == req[q]
             B == held[q]
  <2>1. Apart(x, H, a, A, M) /\ Apart(x, H, b, B, M) /\ Apart(a, A, b, B, M)
    BY <1>10 DEF IInv, Together
  <2> HIDE DEF x, H, M, N, a, b, A, B
  <2>2. Apart(a, A, b, B, N)
    BY ONLY <1>1, <2>1, CommitParts
  <2> QED
    BY <2>2 DEF a, A, b, B
<1> QED
  <2> HIDE DEF N
  <2>1. /\ IsRequest(req'[r]) /\ Local(req'[r], held'[r], N)
        /\ \A q \in Requests \ {r} : /\ Local(req[q], held[q], N)
                                     /\ Apart(req'[r], held'[r], req[q], held[q], N)
                                     /\ Apart(req[q], held[q], req'[r], held'[r], N)
    BY <1>3, <1>4, <1>9
  <2> QED
    BY <1>4, <1>5, <1>6, <1>7, <1>8, <1>10, <2>1, RowsMove DEF N

-----------------------------------------------------------------------------
(***************************************************************************)
(* The invariant holds.                                                    *)
(***************************************************************************)

\* To begin with nobody has asked for anything.
LEMMA Initially == Init => IInv
<1> SUFFICES ASSUME Init PROVE IInv
  OBVIOUS
<1>1. PICK o \in Openings :
        /\ account = o.account /\ sessions = o.sessions /\ throttle = o.throttle
        /\ accepted = o.accepted /\ issued = DOMAIN o.sessions /\ scope = o.scope
  BY DEF Init
<1>2. /\ now = 0 /\ hashing = {}
      /\ req = [r \in Requests |-> Idle] /\ held = [r \in Requests |-> {}]
  BY DEF Init
<1>3. /\ account \in [Reviewers -> Credential]
      /\ DOMAIN sessions \subseteq Tokens /\ sessions \in [DOMAIN sessions -> SessionRow]
      /\ DOMAIN throttle \subseteq ThrottleKey
      /\ throttle \in [DOMAIN throttle -> [failures : Nat, until : Nat, updated : {0}]]
      /\ accepted \subseteq Reviewers \X Periods
      /\ \A v \in Reviewers : account[v].enabled => account[v].factor # 0
      /\ \A t \in DOMAIN sessions :
           ~sessions[t].revoked /\ sessions[t].verified # 0 =>
             /\ account[sessions[t].by].enabled
             /\ sessions[t].verified = account[sessions[t].by].factor
      /\ \A code \in accepted : UsedKey(code[1], code[2]) \in DOMAIN throttle
      /\ \A key \in DOMAIN throttle : key[1] = "used" => key[3] <= MfaWindow
      /\ scope.calls \subseteq CallRecord
      /\ scope.time \in 0 .. MaxTime
  BY <1>1, OpeningAssumption
<1>4. /\ HasFields(Idle, {"at", "call", "tx", "reply"})
      /\ Idle.call = [op |-> "none"] /\ Idle.tx = NoChanges /\ Idle.at = "idle"
      /\ HasFields(NoChanges, {"time", "seen", "who", "want", "then", "key", "found", "account",
                               "sessions", "throttle", "accepted", "reply"})
      /\ NoChanges.want = {}
  BY DEF Idle, NoChanges, HasFields
<1>5. Shaped
  <2>1. IsRequest(Idle)
    BY <1>4 DEF IsRequest
  <2> HIDE DEF Idle
  <2> QED
    BY <1>2, <2>1 DEF Shaped
<1>6. RowsTyped(Rows)
  <2>1. ASSUME NEW key \in DOMAIN throttle
        PROVE  throttle[key] \in ThrottleRow /\ throttle[key].updated <= 0
    <3>1. throttle[key] \in [failures : Nat, until : Nat, updated : {0}]
      BY <1>3
    <3> QED
      BY <3>1 DEF ThrottleRow
  <2>2. throttle \in [DOMAIN throttle -> ThrottleRow]
    BY <1>3, <2>1
  <2> QED
    BY <1>1, <1>2, <1>3, <2>1, <2>2 DEF RowsTyped, Rows
<1>7. ScopeTyped
  BY <1>2, <1>3, Numbers DEF ScopeTyped
<1>8. CodesRecorded(Rows)
  <2>1. \A key \in DOMAIN throttle : throttle[key].updated = 0
    BY <1>3
  <2>2. ASSUME NEW key \in DOMAIN throttle, key[1] = "used"
        PROVE  key[3] <= throttle[key].updated + MfaWindow
    BY <1>3, <2>1, <2>2, Numbers
  <2> QED
    BY <1>3, <2>2 DEF CodesRecorded, Rows
<1>9. Orderly
  <2>1. Local(Idle, {}, Rows)
    BY <1>4 DEF Local
  <2> QED
    BY <1>2, <2>1 DEF Orderly
<1>10. Together
  <2>1. Mints(Idle) = {} /\ Touches(Idle, {}) = {}
    BY <1>4 DEF Mints, Touches, Owners, Revokers
  <2>2. Apart(Idle, {}, Idle, {}, Rows)
    BY <2>1 DEF Apart, LocksApart, SessionsApart
  <2> QED
    BY <1>2, <2>2 DEF Together
<1>11. Hashing
  BY <1>2, <1>4 DEF Hashing, At
<1>12. FactorsThere /\ VerifiedByCurrentFactor
  BY <1>3 DEF PromisedSessions, FactorsThere, VerifiedByCurrentFactor, Promised!VerifiedByCurrentFactor
<1> QED
  BY <1>5, <1>6, <1>7, <1>8, <1>9, <1>10, <1>11, <1>12 DEF IInv

\* A deadlock is broken (CancelDeadlocked): who waits does not verify a password.
LEMMA CancelStep ==
  ASSUME IInv, NEW r \in Requests, CancelDeadlocked(r)
  PROVE  IInv'
<1>1. PICK D \in SUBSET Waiting : r \in D
  BY DEF CancelDeadlocked, Deadlocked
<1>2. WaitsFor(r) # {}
  BY <1>1 DEF Waiting
<1>3. req[r].at \in {"lock", "upsert", "row"}
  BY <1>2 DEF WaitsFor, At
<1> QED
  BY <1>3, AbortStep DEF CancelDeadlocked

\* Each step of a request keeps the invariant.
LEMMA RequestStep ==
  ASSUME IInv, NEW r \in Requests, Step(r)
  PROVE  IInv'
BY TakeStep, UpsertStep, RowStep, PurgeStep, SweepStep, AdmitStep, CheckStep, ReadStep, HashStep,
   MintStep, SignOutStep, SecureStep, EnrollStep, CheckFactorStep, AttemptStep, MarkStep,
   ChangeStep, ResetPasswordStep, ResetFactorStep, RevokeStep, ActiveStep, AuditStep, CommitStep,
   CancelStep DEF Step

\* So does any step, and none.
LEMMA Stepwise == IInv /\ [Next]_vars => IInv'
<1> SUFFICES ASSUME IInv, [Next]_vars PROVE IInv'
  OBVIOUS
<1>1. CASE UNCHANGED vars
  <2>1. UNCHANGED <<scope, now, account, sessions, throttle, accepted, issued, hashing, req, held>>
    BY <1>1 DEF vars, rows
  <2>2. Rows' = Rows
    BY <2>1 DEF Rows
  <2> QED
    BY <2>1, <2>2 DEF PromisedSessions, IInv, Shaped, ScopeTyped, Orderly, Together, Hashing, At, FactorsThere,
                      VerifiedByCurrentFactor, Promised!VerifiedByCurrentFactor
<1>2. CASE Tick
  BY <1>2, TickStep
<1>3. ASSUME NEW r \in Requests, NEW call \in scope.calls, Arrive(r, call)
      PROVE  IInv'
  BY <1>3, ArriveStep
<1>4. ASSUME NEW r \in Requests, Step(r)
      PROVE  IInv'
  BY <1>4, RequestStep
<1> QED
  BY <1>1, <1>2, <1>3, <1>4 DEF Next

LEMMA Always == Spec => []IInv
BY Initially, Stepwise, PTL DEF Spec

-----------------------------------------------------------------------------
(***************************************************************************)
(* What follows: for any reviewers, sessions, requests and times.          *)
(***************************************************************************)

\* The tables stay tables, sessions are ones handed out, and who waits for locks has
\* some to wait for (auth.py).
THEOREM SecurityTyped == Spec => []TypeOK
<1>1. IInv => TypeOK
  <2> SUFFICES ASSUME IInv PROVE TypeOK
    OBVIOUS
  <2>1. RowsTyped(Rows) /\ ScopeTyped
    BY DEF IInv
  <2>2. now \in 0 .. MaxTime
    BY <2>1, Numbers DEF RowsTyped, ScopeTyped, Rows
  <2>3. \A r \in Requests : At(r, "lock") <=> Tx(r).want # {}
    BY DEF IInv, Orderly, Local, At, Tx
  <2> QED
    BY <2>1, <2>2, <2>3 DEF TypeOK, RowsTyped, Rows
<1> QED
  BY <1>1, Always, PTL

\* A session counts as verified only with the factor its owner has enabled now, however
\* a verification and a reset of the factor interleave (verify_mfa_code,
\* reset_reviewer_mfa_admin).
THEOREM FactorsCurrent == Spec => []VerifiedByCurrentFactor
<1>1. IInv => VerifiedByCurrentFactor
  BY DEF IInv
<1> QED
  BY <1>1, Always, PTL

\* While a password is being verified its name is not locked, however many sign-ins try
\* it at once and from wherever (login, _throttle_row): what counts is the name's row,
\* which each has and keeps from before it looks at it.
THEOREM GuessesCounted == Spec => []NoGuessWhileLocked
<1>1. IInv => NoGuessWhileLocked
  <2> SUFFICES ASSUME IInv, NEW r \in hashing, NameKey(Call(r).name) \in DOMAIN throttle
               PROVE  ~Locked(throttle[NameKey(Call(r).name)], now)
    BY DEF NoGuessWhileLocked
  <2>1. r \in Requests /\ req[r].at = "hash"
    BY DEF IInv, Hashing, At
  <2> DEFINE x == req[r]
             H == held[r]
             M == Rows
  <2>2. Local(x, H, M) /\ M.throttle = throttle /\ M.now = now
    BY <2>1, Before
  <2>3. x.at = "hash" /\ x.call = Call(r)
    BY <2>1 DEF Call
  <2> HIDE DEF x, H, M
  <2>4. SigningIn(x, H, M)
    BY <2>2, <2>3, AtTells DEF Working
  <2> QED
    BY <2>2, <2>3, <2>4 DEF SigningIn
<1> QED
  BY <1>1, Always, PTL

\* Until it commits, a request leaves the tables alone.
LEMMA OnlyCommitsWrite ==
  ASSUME NEW r \in Requests, Step(r), ~Commit(r)
  PROVE  UNCHANGED rows
<1>1. \A tx, label : Proceed(r, tx, label) => UNCHANGED rows
  BY DEF Proceed
<1>2. \A reply : Abort(r, reply) => UNCHANGED rows
  BY DEF Abort
<1>3. /\ \A tx, want, label : Acquire(r, tx, want, label) => UNCHANGED rows
      /\ \A tx, reply : Answer(r, tx, reply) => UNCHANGED rows
      /\ \A tx, key, label : WithRow(r, tx, key, label) => UNCHANGED rows
  BY <1>1 DEF Acquire, Answer, WithRow
<1>4. \A tx, kept, locks : FindSessions(r, tx, kept, locks) => UNCHANGED rows
  BY <1>3 DEF FindSessions
<1>5. TakeLock(r) \/ UpsertThrottleRow(r) \/ LockThrottleRow(r) => UNCHANGED rows
  BY <1>1, <1>2 DEF TakeLock, UpsertThrottleRow, LockThrottleRow
<1>6. PurgeDeadSessions(r) \/ SweepStaleThrottle(r) \/ AdmitSource(r) \/ CheckName(r) => UNCHANGED rows
  BY <1>1, <1>3 DEF PurgeDeadSessions, SweepStaleThrottle, AdmitSource, CheckName
<1>7. StartHashing(r) \/ FinishHashing(r) \/ MintSession(r) \/ SignOut(r) => UNCHANGED rows
  BY <1>1, <1>2, <1>3 DEF StartHashing, FinishHashing, MintSession, SignOut
<1>8. LockReviewerSecurity(r) \/ StartMfaEnrollment(r) \/ CheckFactor(r) \/ AttemptCode(r) => UNCHANGED rows
  BY <1>1, <1>2, <1>3 DEF LockReviewerSecurity, StartMfaEnrollment, CheckFactor, AttemptCode
<1>9. MarkMfaVerified(r) \/ ChangePassword(r) \/ ResetPassword(r) \/ ResetFactor(r) => UNCHANGED rows
  BY <1>1, <1>2, <1>4 DEF MarkMfaVerified, ChangePassword, ResetPassword, ResetFactor
<1>10. RevokeSessions(r) \/ SetReviewerActive(r) \/ AppendAccountAudit(r) \/ CancelDeadlocked(r)
         => UNCHANGED rows
  BY <1>1, <1>2, <1>3, <1>4 DEF RevokeSessions, SetReviewerActive, AppendAccountAudit,
                                CancelDeadlocked
<1> QED
  BY <1>5, <1>6, <1>7, <1>8, <1>9, <1>10 DEF Step

\* Sign-in keeps its promises: whatever requests do side by side, what they commit is
\* what ReviewerSessions does step by step.
THEOREM SecurityRefines == Spec => ImplementsReviewerSessions
<1>1. IInv /\ [Next]_vars => [Promised!Next]_(Promised!vars)
  <2> SUFFICES ASSUME IInv, [Next]_vars PROVE Promised!Next \/ Stutters
    BY DEF Stutters
  <2>1. ASSUME UNCHANGED rows PROVE Stutters
    BY <2>1, SessionsStay DEF PromisedSessions, rows, Stutters, Promised!vars
  <2>2. CASE UNCHANGED vars
    BY <2>1, <2>2 DEF vars
  <2>3. CASE Tick
    BY <2>1, <2>3 DEF Tick
  <2>4. ASSUME NEW r \in Requests, NEW call \in scope.calls, Arrive(r, call)
        PROVE  Stutters
    BY <2>1, <2>4 DEF Arrive
  <2>5. ASSUME NEW r \in Requests, Step(r)
        PROVE  Promised!Next \/ Stutters
    <3>1. CASE Commit(r)
      BY <3>1, CommitPromised
    <3>2. CASE ~Commit(r)
      BY <2>1, <2>5, <3>2, OnlyCommitsWrite
    <3> QED
      BY <3>1, <3>2
  <2> QED
    BY <2>2, <2>3, <2>4, <2>5 DEF Next
<1> QED
  BY <1>1, Always, PTL DEF Spec, ImplementsReviewerSessions

-----------------------------------------------------------------------------
(***************************************************************************)
(* Deadlocks.                                                              *)
(***************************************************************************)

\* An operation that has its account's row, and waits for more.
Past(q) ==
  LET x == req[q]
  IN  /\ Owning(x, held[q], Rows) /\ x.call.op \in Owners
      /\ HasAccount(x, held[q])
      /\ x.tx.want \cap (SeniorLocks \cup {Exclusive(AccountLock(x.tx.who))}) = {}
      /\ Claimed(x, held[q]) = held[q] \cup x.tx.want
      /\ x.at \in {"lock", "upsert", "row"}

\* A suspension or reinstatement that has Seniors' rows, one after the other, and waits for
\* the next row.
Climber(q) ==
  LET x == req[q]
  IN  /\ x.call.op \in {"suspend", "reinstate"} /\ x.tx.throttle = None
      /\ held[q] # {} /\ held[q] \subseteq SeniorLocks
      /\ \A s, u \in Seniors :
           Exclusive(AccountLock(s)) \in held[q] /\ u < s => Exclusive(AccountLock(u)) \in held[q]

\* A request has at most its advisory lock, that nobody waits for.
Light(q) ==
  (\A have \in held[q] : have.lock[1] = "security") /\ req[q].tx.throttle = None

\* What those that wait want, and have, if they are not sign-ins: who signs out has
\* nothing, and an operation has at most its advisory lock, or Seniors' rows, or its
\* account's row.
LEMMA WaitersWant ==
  ASSUME IInv, NEW q \in Requests, WaitsFor(q) # {}, Call(q).op # "login"
  PROVE  /\ \A a \in req[q].tx.want : a.lock[1] # "security"
         /\ Past(q) \/ Climber(q) \/ Light(q)
<1> DEFINE x == req[q]
           H == held[q]
           M == Rows
<1>1. x.at \in {"lock", "upsert", "row"} /\ Local(x, H, M) /\ x.call.op # "login"
  BY Before DEF WaitsFor, At, Call
<1>p. /\ Past(q) <=> /\ Owning(x, H, M) /\ x.call.op \in Owners
                     /\ HasAccount(x, H)
                     /\ x.tx.want \cap (SeniorLocks \cup {Exclusive(AccountLock(x.tx.who))}) = {}
                     /\ Claimed(x, H) = H \cup x.tx.want
                     /\ x.at \in {"lock", "upsert", "row"}
      /\ Climber(q) <=> /\ x.call.op \in {"suspend", "reinstate"} /\ x.tx.throttle = None
                        /\ H # {} /\ H \subseteq SeniorLocks
                        /\ \A s, u \in Seniors :
                             Exclusive(AccountLock(s)) \in H /\ u < s =>
                               Exclusive(AccountLock(u)) \in H
      /\ Light(q) <=> (\A have \in H : have.lock[1] = "security") /\ x.tx.throttle = None
  BY DEF Past, Climber, Light
<1> HIDE DEF x, H, M
<1>2. Working(x, H, M) /\ x.call.op \in {"logout"} \cup Owners /\ Claimed(x, H) = H \cup x.tx.want
  BY <1>1, AtTells DEF Claimed
<1>3. CASE x.call.op = "logout"
  <2>1. SigningOut(x, H, M)
    BY <1>2, <1>3 DEF Working
  <2>2. x.at = "lock" /\ H = {} /\ x.tx.throttle = None /\ x.tx.want \subseteq SessionLocks({x.call.token})
    BY <1>1, <1>2, <2>1 DEF SigningOut
  <2>3. \A a \in x.tx.want : a.lock[1] = "session"
    BY <2>2, LockNames DEF SessionLocks
  <2> QED
    BY <1>p, <2>2, <2>3 DEF x
<1>4. CASE x.call.op \in Owners
  <2>1. Owning(x, H, M)
    BY <1>2, <1>4 DEF Working
  <2> DEFINE v == x.tx.who
  <2>2. \A a \in x.tx.want : a.lock[1] # "security"
    <3>1. \A a \in x.tx.want :
            \/ a \in {Exclusive(AccountLock(v)), Exclusive(AuditLock), RowLock(FactorKey(v))}
            \/ a \in SessionLocks(Tokens) \cup SeniorLocks \cup ActorLocks
      BY <1>2, <2>1 DEF Owning
    <3>2. /\ Exclusive(AccountLock(v)).lock[1] # "security" /\ Exclusive(AuditLock).lock[1] # "security"
          /\ RowLock(FactorKey(v)).lock[1] # "security"
      BY LockNames DEF RowLock
    <3>3. \A a \in SessionLocks(Tokens) \cup SeniorLocks \cup ActorLocks : a.lock[1] \in {"session", "account"}
      BY LockNames DEF SessionLocks, SeniorLocks, ActorLocks
    <3> QED
      BY <3>1, <3>2, <3>3
  <2>3. CASE First(x.call.op) = "find account" /\ Stage(x) \in {First(x.call.op), x.call.op}
    <3>1. x.call.op \in {"suspend", "reinstate"}
      BY <2>3 DEF First
    <3>2. x.tx.throttle = None /\ H \subseteq SeniorLocks
      BY <1>1, <1>2, <2>1, <2>3, <3>1 DEF Owning, Climbing
    <3>3. \A s, u \in Seniors :
            Exclusive(AccountLock(s)) \in H /\ u < s => Exclusive(AccountLock(u)) \in H
      <4>1. Climbing(x, H) \/ H = SeniorLocks
        BY <1>1, <2>1, <2>3, <3>1 DEF Owning
      <4>2. ASSUME H = SeniorLocks, NEW u \in Seniors PROVE Exclusive(AccountLock(u)) \in H
        BY <4>2 DEF SeniorLocks
      <4> QED
        BY <1>2, <4>1, <4>2 DEF Climbing
    <3>4. H = {} => \A have \in H : have.lock[1] = "security"
      OBVIOUS
    <3> QED
      BY <1>p, <2>2, <3>1, <3>2, <3>3, <3>4 DEF x
  <2>4. CASE Stage(x) = First(x.call.op) /\ First(x.call.op) = "secure"
    <3>1. x.at # "lock" /\ x.tx.want = {}
      BY <1>1, <1>2, <2>1, <2>4 DEF Owning, Local
    <3>2. x.tx.then = "attempt"
      BY <1>1, <2>1, <3>1 DEF Owning
    <3> QED
      BY <1>1, <2>4, <3>2 DEF Stage
  <2>5. CASE Stage(x) = x.call.op /\ First(x.call.op) = "secure"
    <3>1. H \subseteq {Exclusive(SecurityLock(v))} /\ x.tx.throttle = None
      BY <1>1, <1>4, <2>1, <2>5 DEF Owning, Owners, Revokers
    <3>2. \A have \in H : have.lock[1] = "security"
      BY <3>1, LockNames
    <3> QED
      BY <1>p, <2>2, <3>1, <3>2 DEF x
  <2>6. CASE Stage(x) \notin {First(x.call.op), x.call.op}
    BY <1>1, <1>2, <1>4, <1>p, <2>1, <2>2, <2>6 DEF Owning, x
  <2>7. First(x.call.op) \in {"find account", "secure"}
    BY DEF First
  <2> QED
    BY <2>3, <2>4, <2>5, <2>6, <2>7
<1> QED
  BY <1>2, <1>3, <1>4

\* Why one waits for another: the other has a lock in the way of one that it is to take, or
\* has written the throttle row that it is after.
LEMMA WhyWait ==
  ASSUME NEW p \in Requests, NEW q \in Requests, q \in WaitsFor(p)
  PROVE  /\ p # q
         /\ LET x == req[p]
            IN  \/ x.at = "lock" /\ \E a \in x.tx.want, have \in held[q] : Conflicting(have, a)
                \/ x.at = "upsert" /\ x.tx.key \in DOMAIN req[q].tx.throttle
                \/ x.at = "row" /\ \E have \in held[q] : Conflicting(have, RowLock(x.tx.key))
BY DEF WaitsFor, Blockers, Writers, Tx, At, RowLock

\* Who is waited for, and waits, has its account's row, or Seniors' rows.
LEMMA BlockersArePast ==
  ASSUME IInv, NEW p \in Requests, NEW q \in Requests, q \in WaitsFor(p),
         WaitsFor(q) # {}, Call(p).op # "login", Call(q).op # "login"
  PROVE  Past(q) \/ Climber(q)
<1>1. /\ \A a \in req[p].tx.want : a.lock[1] # "security"
      /\ Past(q) \/ Climber(q) \/ Light(q)
  BY WaitersWant
<1> SUFFICES ASSUME Light(q) PROVE FALSE
  BY <1>1
<1>2. \/ \E a \in req[p].tx.want, have \in held[q] : Conflicting(have, a)
      \/ req[p].tx.key \in DOMAIN req[q].tx.throttle
      \/ \E have \in held[q] : Conflicting(have, RowLock(req[p].tx.key))
  BY WhyWait
<1>3. RowLock(req[p].tx.key).lock[1] = "throttle"
  BY LockNames DEF RowLock
<1>4. DOMAIN None = {}
  BY DEF None
<1> QED
  BY <1>1, <1>2, <1>3, <1>4 DEF Conflicting, Light

\* Of two that take the Seniors' rows in their order, one has none
\* (set_reviewer_active_admin).
LEMMA ClimbersAreOne ==
  ASSUME IInv, NEW p \in Requests, NEW q \in Requests, Climber(p), Climber(q)
  PROVE  p = q
<1> SUFFICES ASSUME p # q PROVE FALSE
  OBVIOUS
<1>1. PICK s, u \in Seniors :
        Exclusive(AccountLock(s)) \in held[p] /\ Exclusive(AccountLock(u)) \in held[q]
  BY DEF Climber, SeniorLocks
<1>2. \E w \in Seniors :
        Exclusive(AccountLock(w)) \in held[p] /\ Exclusive(AccountLock(w)) \in held[q]
  <2>1. s < u \/ u < s \/ s = u
    BY SecurityAssumption
  <2>2. s < u => Exclusive(AccountLock(s)) \in held[q]
    BY <1>1 DEF Climber
  <2>3. u < s => Exclusive(AccountLock(u)) \in held[p]
    BY <1>1 DEF Climber
  <2> QED
    BY <1>1, <2>1, <2>2, <2>3
<1>3. \A a \in held[p], b \in held[q] : Conflicting(a, b) => a.lock[1] = "throttle"
  BY DEF IInv, Together, Apart, LocksApart
<1>4. \A w : /\ Conflicting(Exclusive(AccountLock(w)), Exclusive(AccountLock(w)))
             /\ Exclusive(AccountLock(w)).lock[1] = "account"
  BY LockNames
<1> QED
  BY <1>2, <1>3, <1>4

\* Who has his account's row, and does not wait for the chain or the administrator's row,
\* waits for sessions of his or for his factor's throttle row.
LEMMA PastWants ==
  ASSUME NEW p \in Requests, Past(p), ~Recording(req[p]),
         Exclusive(AuditLock) \notin req[p].tx.want
  PROVE  LET x == req[p]
         IN  /\ x.tx.want \subseteq {RowLock(FactorKey(x.tx.who))} \cup SessionLocks(Tokens)
             /\ x.at \in {"upsert", "row"} => x.tx.key = FactorKey(x.tx.who)
             /\ x.tx.who \in Reviewers
<1> DEFINE x == req[p]
           H == held[p]
<1>1. Owning(x, H, Rows) /\ Claimed(x, H) = H \cup x.tx.want
      /\ x.tx.want \cap (SeniorLocks \cup {Exclusive(AccountLock(x.tx.who))}) = {}
  BY DEF Past
<1>2. x.tx.want \cap ActorLocks = {}
  BY <1>1 DEF Owning
<1> HIDE DEF x, H
<1> QED
  BY <1>1, <1>2 DEF Owning, x

\* Nobody with rows of accounts only keeps such a one waiting.
LEMMA ClimbersDoNotBlock ==
  ASSUME NEW p \in Requests, NEW q \in Requests, Past(p), ~Recording(req[p]),
         Exclusive(AuditLock) \notin req[p].tx.want, Climber(q)
  PROVE  q \notin WaitsFor(p)
<1> SUFFICES ASSUME q \in WaitsFor(p) PROVE FALSE
  OBVIOUS
<1>1. req[p].tx.want \subseteq {RowLock(FactorKey(req[p].tx.who))} \cup SessionLocks(Tokens)
  BY PastWants
<1>2. \A a \in req[p].tx.want : a.lock[1] \in {"throttle", "session"}
  BY <1>1, LockNames DEF RowLock, SessionLocks
<1>3. \A have \in held[q] : have.lock[1] = "account"
  BY LockNames DEF Climber, SeniorLocks
<1>4. RowLock(req[p].tx.key).lock[1] = "throttle"
  BY LockNames DEF RowLock
<1>5. DOMAIN req[q].tx.throttle = {}
  BY DEF Climber, None
<1> QED
  BY <1>2, <1>3, <1>4, <1>5, WhyWait DEF Conflicting

\* Nor does another who has his account's row and waits.
LEMMA PastDoNotBlock ==
  ASSUME IInv, NEW p \in Requests, NEW q \in Requests, Past(p), Past(q), ~Recording(req[p]),
         Exclusive(AuditLock) \notin req[p].tx.want
  PROVE  q \notin WaitsFor(p)
<1> SUFFICES ASSUME q \in WaitsFor(p) PROVE FALSE
  OBVIOUS
<1> DEFINE x == req[p]
           z == req[q]
           H == held[p]
           K == held[q]
           v == x.tx.who
           w == z.tx.who
<1>1. /\ HasAccount(x, H) /\ Claimed(x, H) = H \cup x.tx.want /\ x.call.op \in Owners
      /\ Owning(z, K, Rows) /\ HasAccount(z, K) /\ Claimed(z, K) = K \cup z.tx.want
      /\ z.call.op \in Owners
  BY DEF Past
<1>2. p # q
  BY WhyWait
<1>3. /\ \A a \in H, b \in K : Conflicting(a, b) => a.lock[1] = "throttle"
      /\ "login" \notin {x.call.op, z.call.op} =>
           \A t \in Touches(x, H) \cap Touches(z, K) : v = w
  BY <1>2 DEF IInv, Together, Apart, LocksApart, SessionsApart
<1>4. \/ \E a \in x.tx.want, have \in K : Conflicting(have, a)
      \/ x.at = "upsert" /\ x.tx.key \in DOMAIN z.tx.throttle
      \/ x.at = "row" /\ \E have \in K : Conflicting(have, RowLock(x.tx.key))
  BY WhyWait
<1>5. /\ x.tx.want \subseteq {RowLock(FactorKey(v))} \cup SessionLocks(Tokens)
      /\ x.at \in {"upsert", "row"} => x.tx.key = FactorKey(v)
      /\ v \in Reviewers
  BY PastWants
<1> HIDE DEF x, z, H, K
<1>6. v # w
  <2>1. /\ Conflicting(Exclusive(AccountLock(v)), Exclusive(AccountLock(v)))
        /\ Exclusive(AccountLock(v)).lock[1] = "account"
    BY LockNames
  <2> QED
    BY <1>1, <1>3, <2>1 DEF HasAccount
<1>7. /\ w \in Reviewers
      /\ K \subseteq {Exclusive(SecurityLock(w)), Exclusive(AccountLock(w)), Exclusive(AuditLock),
                      RowLock(FactorKey(w))} \cup SessionLocks(Tokens) \cup SeniorLocks \cup ActorLocks
      /\ \A key \in DOMAIN z.tx.throttle : key[2] = w
  BY <1>1 DEF Owning
<1>8. FactorKey(v) # FactorKey(w) /\ FactorKey(v)[2] = v
  BY <1>5, <1>6, <1>7, Keys
<1>9. \A have \in K :
        have.lock[1] \in {"security", "account", "audit"} \/ have = RowLock(FactorKey(w))
        \/ have \in SessionLocks(Tokens)
  <2>1. /\ Exclusive(SecurityLock(w)).lock[1] = "security"
        /\ Exclusive(AccountLock(w)).lock[1] = "account" /\ Exclusive(AuditLock).lock[1] = "audit"
        /\ \A b \in SeniorLocks \cup ActorLocks : b.lock[1] = "account"
    BY LockNames DEF SeniorLocks, ActorLocks
  <2> QED
    BY <1>7, <2>1
<1>10. /\ \A b \in SessionLocks(Tokens) : b.lock[1] = "session"
       /\ \A k : RowLock(k).lock[1] = "throttle" /\ RowLock(k).lock = ThrottleLock(k)
       /\ \A k, l : ThrottleLock(k) = ThrottleLock(l) => k = l
  BY LockNames DEF SessionLocks, RowLock
<1>11. ASSUME NEW have \in K, Conflicting(have, RowLock(FactorKey(v)))
       PROVE  FALSE
  <2>1. have.lock = ThrottleLock(FactorKey(v)) /\ have.lock[1] = "throttle"
    BY <1>10, <1>11 DEF Conflicting
  <2> QED
    BY <1>8, <1>9, <1>10, <2>1
<1>12. ASSUME NEW a \in x.tx.want, NEW have \in K, Conflicting(have, a)
       PROVE  FALSE
  <2>1. a \in SessionLocks(Tokens) /\ have.lock = a.lock
    BY <1>5, <1>11, <1>12 DEF Conflicting
  <2>2. have \in SessionLocks(Tokens)
    BY <1>9, <1>10, <2>1
  <2>3. a = have
    BY <2>1, <2>2, LockNames DEF SessionLocks
  <2>4. PICK t \in Tokens : a = Exclusive(SessionLock(t))
    BY <2>1 DEF SessionLocks
  <2>5. t \in Concerns(x, H) /\ t \in Concerns(z, K)
    BY <1>1, <1>12, <2>3, <2>4 DEF Concerns
  <2>6. "login" \notin {x.call.op, z.call.op} /\ t \in Touches(x, H) \cap Touches(z, K)
    BY <1>1, <2>5, TouchesOwn
  <2> QED
    BY <1>3, <1>6, <2>6
<1> QED
  BY <1>4, <1>5, <1>6, <1>7, <1>8, <1>11, <1>12

\* Who has his account's row and is in a cycle without sign-ins is about to append his
\* audit event, or has, and is an administrator's (append_account_audit).
LEMMA PastRecord ==
  ASSUME IInv, NEW p \in Requests, NEW q \in Requests, Past(p), Past(q) \/ Climber(q),
         q \in WaitsFor(p)
  PROVE  /\ Recording(req[p]) \/ req[p].tx.want = {Exclusive(AuditLock)}
         /\ Call(p).op \in OfAdministrator
<1>1. Recording(req[p]) \/ Exclusive(AuditLock) \in req[p].tx.want
  BY PastDoNotBlock, ClimbersDoNotBlock
<1>2. Owning(req[p], held[p], Rows)
  BY DEF Past
<1>3. Exclusive(AuditLock) \in req[p].tx.want =>
        req[p].tx.want = {Exclusive(AuditLock)} /\ req[p].call.op \in OfAdministrator
  BY <1>2 DEF Owning
<1> QED
  BY <1>1, <1>3 DEF Recording, Call

\* Who keeps another from the chain waits for an administrator's row (append_account_audit).
LEMMA ChainIsHeldRecording ==
  ASSUME NEW p \in Requests, NEW q \in Requests, q \in WaitsFor(p),
         req[p].at = "lock", req[p].tx.want = {Exclusive(AuditLock)}, Past(q) \/ Climber(q)
  PROVE  Past(q) /\ Recording(req[q])
<1>1. PICK have \in held[q] : Conflicting(have, Exclusive(AuditLock))
  BY WhyWait
<1>2. have.lock = AuditLock /\ have.lock[1] = "audit"
  BY <1>1, LockNames DEF Conflicting
<1>3. ~Climber(q)
  BY <1>2, LockNames DEF Climber, SeniorLocks
<1>4. /\ Owning(req[q], held[q], Rows) /\ req[q].at \in {"lock", "upsert", "row"}
      /\ Claimed(req[q], held[q]) = held[q] \cup req[q].tx.want
  BY <1>3 DEF Past
<1>5. have = Exclusive(AuditLock)
  <2> DEFINE w == req[q].tx.who
  <2>1. have \in {Exclusive(SecurityLock(w)), Exclusive(AccountLock(w)), Exclusive(AuditLock),
                  RowLock(FactorKey(w))} \cup SessionLocks(Tokens) \cup SeniorLocks \cup ActorLocks
    BY <1>4 DEF Owning
  <2>2. /\ Exclusive(SecurityLock(w)).lock[1] = "security"
        /\ Exclusive(AccountLock(w)).lock[1] = "account" /\ RowLock(FactorKey(w)).lock[1] = "throttle"
        /\ \A b \in SessionLocks(Tokens) : b.lock[1] = "session"
        /\ \A b \in SeniorLocks \cup ActorLocks : b.lock[1] = "account"
    BY LockNames DEF RowLock, SessionLocks, SeniorLocks, ActorLocks
  <2> QED
    BY <1>2, <2>1, <2>2
<1>6. Recording(req[q])
  BY <1>4, <1>5 DEF Owning
<1> QED
  BY <1>3, <1>6

\* Who keeps one from an administrator's row has it, and is an administrator's
\* (append_account_audit, lock_reviewer_security).
LEMMA ActorIsHeld ==
  ASSUME NEW p \in Requests, NEW q \in Requests, q \in WaitsFor(p),
         Recording(req[p]), Past(q) \/ Climber(q)
  PROVE  Exclusive(AccountLock(Call(p).by)) \in held[q]
<1> DEFINE s == Call(p).by
<1>1. PICK have \in held[q] : Conflicting(have, Shared(AccountLock(s)))
  BY WhyWait DEF Recording, Call
<1>2. /\ have.lock = AccountLock(s) /\ have.lock[1] = "account" /\ have.mode = "exclusive"
  <2>1. Shared(AccountLock(s)).lock = AccountLock(s) /\ Shared(AccountLock(s)).mode = "shared"
    BY DEF Shared
  <2> QED
    BY <1>1, <2>1, LockNames DEF Conflicting
<1>3. CASE Climber(q)
  <2>1. PICK u \in Seniors : have = Exclusive(AccountLock(u))
    BY <1>3 DEF Climber, SeniorLocks
  <2> QED
    BY <1>2, <2>1, LockNames
<1>4. CASE Past(q)
  <2> DEFINE w == req[q].tx.who
  <2>1. /\ Owning(req[q], held[q], Rows)
        /\ Claimed(req[q], held[q]) = held[q] \cup req[q].tx.want
    BY <1>4 DEF Past
  <2>2. have \in {Exclusive(SecurityLock(w)), Exclusive(AccountLock(w)), Exclusive(AuditLock),
                  RowLock(FactorKey(w))} \cup SessionLocks(Tokens) \cup SeniorLocks \cup ActorLocks
    BY <2>1 DEF Owning
  <2>3. /\ Exclusive(SecurityLock(w)).lock[1] = "security" /\ Exclusive(AuditLock).lock[1] = "audit"
        /\ RowLock(FactorKey(w)).lock[1] = "throttle"
        /\ \A b \in SessionLocks(Tokens) : b.lock[1] = "session"
    BY LockNames DEF RowLock, SessionLocks
  <2>4. \A b \in ActorLocks : b.mode = "shared"
    BY DEF ActorLocks, Shared
  <2>5. have \in {Exclusive(AccountLock(w))} \cup SeniorLocks
    BY <1>2, <2>2, <2>3, <2>4
  <2>6. \E u : have = Exclusive(AccountLock(u))
    BY <2>5 DEF SeniorLocks
  <2> QED
    BY <1>2, <2>6, LockNames
<1> QED
  BY <1>3, <1>4

\* Changes of credentials wait for one another in a circle (lock_reviewer_security) only
\* through a sign-in, or through an administrator's row that an audit event's foreign key
\* waits for (_append_account_audit) and a request of another administrator holds.
THEOREM CyclesHaveASignInOrAnActor == Spec => []CyclesNeedASignInOrAnActor
<1>1. IInv => CyclesNeedASignInOrAnActor
  <2> SUFFICES ASSUME IInv, NEW D \in SUBSET Waiting, Cycle(D),
                      \A q \in D : Call(q).op # "login"
               PROVE  \E p, q \in D :
                        /\ AwaitsActor(q)
                        /\ Call(p).op \in OfAdministrator
                        /\ Exclusive(AccountLock(Call(q).by)) \in held[p]
    BY DEF CyclesNeedASignInOrAnActor
  <2> DEFINE Hindering == {q \in D : \E p \in D : q \in WaitsFor(p)}
  <2>1. /\ D # {} /\ \A q \in D : WaitsFor(q) \cap D # {}
        /\ \A q \in D : q \in Requests /\ WaitsFor(q) # {} /\ Call(q).op # "login"
    BY DEF Cycle, Waiting
  <2>2. /\ \A q \in Hindering : q \in D /\ q \in Requests /\ (Past(q) \/ Climber(q))
        /\ \A q \in Hindering : \E p \in Hindering : p \in WaitsFor(q)
        /\ Hindering # {}
    BY <2>1, BlockersArePast
  <2> HIDE DEF Hindering
  <2>3. ASSUME NEW q \in Hindering
        PROVE  /\ Call(q).op \in OfAdministrator
               /\ Past(q) => Recording(req[q]) \/ req[q].tx.want = {Exclusive(AuditLock)}
    <3>1. Climber(q) => Call(q).op \in OfAdministrator
      BY DEF Climber, OfAdministrator, Call
    <3> QED
      BY <2>2, <3>1, PastRecord
  <2>4. \E q \in Hindering : Past(q)
    <3>1. PICK q \in Hindering : TRUE
      BY <2>2
    <3>2. PICK p \in Hindering : p \in WaitsFor(q)
      BY <2>2
    <3>3. p # q
      BY <2>2, <3>2, WhyWait
    <3> QED
      BY <2>2, <3>3, ClimbersAreOne
  <2>5. \E q \in Hindering : Recording(req[q])
    <3>1. PICK q \in Hindering : Past(q)
      BY <2>4
    <3>2. CASE req[q].tx.want = {Exclusive(AuditLock)}
      <4>1. req[q].at = "lock"
        BY <2>2, <3>2, Before DEF Local
      <4>2. PICK p \in Hindering : p \in WaitsFor(q)
        BY <2>2
      <4> QED
        BY <2>2, <3>2, <4>1, <4>2, ChainIsHeldRecording
    <3> QED
      BY <2>3, <3>1, <3>2
  <2>6. PICK q \in Hindering : Recording(req[q])
    BY <2>5
  <2>7. PICK p \in Hindering : p \in WaitsFor(q)
    BY <2>2
  <2>8. AwaitsActor(q)
    BY <2>6 DEF Recording, AwaitsActor, At, Call, Tx
  <2>9. Exclusive(AccountLock(Call(q).by)) \in held[p]
    BY <2>2, <2>6, <2>7, ActorIsHeld
  <2> QED
    BY <2>2, <2>3, <2>8, <2>9
<1> QED
  BY <1>1, Always, PTL
=============================================================================
