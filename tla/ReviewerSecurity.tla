------------------------- MODULE ReviewerSecurity -------------------------
(***************************************************************************)
(* Sign-in, one-time codes and credential changes as requests carry them   *)
(* out: each is one PostgreSQL transaction (READ COMMITTED) of several     *)
(* statements that wait for one another's rows, while time passes.         *)
(*                                                                         *)
(* What each takes, in its order (s: the share of an account's row that a  *)
(* foreign key takes, of a session or of an audit event):                  *)
(*   login                dead sessions, stale throttle rows, the source's *)
(*                        throttle row, the name's, account (s)            *)
(*   enroll               [credentials, account]                           *)
(*   enable, verify       [credentials, account], factor's throttle row,   *)
(*                        session                                          *)
(*   change               [credentials, account], the other sessions       *)
(*   reset password,      [credentials, account], sessions, (factor's      *)
(*   reset factor         throttle row,) audit, administrator's account (s)*)
(*   suspend, reinstate   the Seniors' accounts, account, sessions, audit, *)
(*                        administrator's account (s)                      *)
(*   logout               session                                          *)
(* [credentials, account] is lock_reviewer_security: an advisory lock that *)
(* is tried and never waited for, then the account's row.                  *)
(***************************************************************************)
EXTENDS Naturals, FiniteSets

CONSTANTS
  Reviewers,          \* the accounts: numbers
  Seniors,            \* the accounts of Senior Aviation Counsel, who administer the others;
                      \* an account's role never changes
  Names,              \* the user names tried: accounts, and names that are none
  Sources,            \* where sign-ins come from
  Tokens,             \* the sessions there may be: numbers, above 0
  Requests,           \* the requests in flight, one transaction each
  Openings,           \* the accounts, sessions, throttle rows and codes to begin with, and
                      \* what is asked then: the calls, by how many requests at most, with
                      \* how many sign-ins, until when (bounds of the model)
  MaxFailedLogins,    \* failures that lock a name
  MfaMaxFailures,     \* failures that lock a factor
  SourceMaxAttempts,  \* attempts a source is admitted in a window
  HashSlots,          \* passwords verified at a time
  Lockout,            \* how long a lock lasts; time is counted in code periods
  SourceWindow,       \* how long a source's attempts are counted
  StaleWindow,        \* how long a throttle row that is not locked is kept
  SessionTTL,         \* how long a session lasts
  MfaWindow,          \* periods a clock may be off
  MaxTime             \* the end of time (a bound of the model)

VARIABLES
  scope,     \* what is asked, once chosen
  now,       \* the time
  account,   \* the accounts
  sessions,  \* the sessions kept
  throttle,  \* the throttle rows, those of accepted codes among them
  accepted,  \* the codes accepted: reviewer and period
  issued,    \* the tokens handed out
  hashing,   \* the requests that verify a password
  req,       \* what each request is doing
  held       \* the locks each request holds until its transaction ends

rows == <<account, sessions, throttle, accepted>>
vars == <<scope, now, rows, issued, hashing, req, held>>

-----------------------------------------------------------------------------
(***************************************************************************)
(* The rows, the calls and what may be there to begin with.                *)
(***************************************************************************)

\* The periods of the codes that can be accepted.
Periods == 0 .. MaxTime + MfaWindow

\* Passwords and factors are numbered in the order they were set; factor 0 is none.
Credential ==
  [password : Nat, mustChange : BOOLEAN, factor : Nat, enabled : BOOLEAN,
   minted : Nat, active : BOOLEAN]

SessionRow ==
  [by : Reviewers, opened : Nat, verified : Nat, revoked : BOOLEAN, expires : Nat]

ThrottleKey == {"login", "source", "mfa", "used"} \X (Names \cup Sources) \X Periods

ThrottleRow == [failures : Nat, until : Nat, updated : Nat]

\* The operations on a reviewer's credentials, and who may ask for them: the
\* reviewer from a session of his; a Senior from a session that MatterAuthority is
\* about, with the calls as they come with it.
OfSession == {"enroll", "enable", "verify", "change", "logout"}
OfAdministrator == {"reset password", "reset factor", "suspend", "reinstate"}

CallRecord ==
  [op : {"login"}, name : Names, password : Nat, source : Sources]
    \cup [op : {"enable", "verify"}, token : Tokens, factor : Nat, period : Nat]
    \cup [op : {"change"}, token : Tokens, password : Nat]
    \cup [op : {"enroll", "logout"}, token : Tokens]
    \cup [op : OfAdministrator, by : Seniors, target : Reviewers]

NameKey(name)  == <<"login", name, 0>>
SourceKey(s)   == <<"source", s, 0>>
FactorKey(v)   == <<"mfa", v, 0>>
UsedKey(v, c)  == <<"used", v, c>>

\* Codes stay recorded for as long as they could be presented again.
ASSUME SecurityAssumption ==
  /\ Reviewers \subseteq Names /\ Reviewers \subseteq Nat /\ Seniors \subseteq Reviewers
  /\ Tokens \subseteq Nat \ {0}
  /\ {MaxFailedLogins, MfaMaxFailures, SourceMaxAttempts, HashSlots} \subseteq Nat \ {0}
  /\ {Lockout, SourceWindow, StaleWindow, SessionTTL, MfaWindow, MaxTime} \subseteq Nat
  /\ StaleWindow >= 2 * MfaWindow

\* To begin with the tables are tables, a factor that is enabled is there, a session
\* counts as verified with it, and the codes accepted are on record.
ASSUME OpeningAssumption ==
  \A o \in Openings :
    /\ o.account \in [Reviewers -> Credential]
    /\ DOMAIN o.sessions \subseteq Tokens /\ o.sessions \in [DOMAIN o.sessions -> SessionRow]
    /\ DOMAIN o.throttle \subseteq ThrottleKey
    /\ o.throttle \in [DOMAIN o.throttle -> [failures : Nat, until : Nat, updated : {0}]]
    /\ o.accepted \subseteq Reviewers \X Periods
    /\ \A v \in Reviewers : o.account[v].enabled => o.account[v].factor # 0
    /\ \A t \in DOMAIN o.sessions :
         LET row == o.sessions[t]
         IN  ~row.revoked /\ row.verified # 0 =>
               o.account[row.by].enabled /\ row.verified = o.account[row.by].factor
    /\ \A code \in o.accepted : UsedKey(code[1], code[2]) \in DOMAIN o.throttle
    /\ \A key \in DOMAIN o.throttle : key[1] = "used" => key[3] <= MfaWindow
    /\ o.scope.calls \subseteq CallRecord
    /\ o.scope.time \in 0 .. MaxTime

-----------------------------------------------------------------------------
(***************************************************************************)
(* Transactions and locks.                                                 *)
(***************************************************************************)

None == [x \in {} |-> x]
Only(x, row) == [y \in {x} |-> row]
Put(table, x, row) == [y \in DOMAIN table \cup {x} |-> IF y = x THEN row ELSE table[y]]
Gone == [gone |-> TRUE]    \* a row deleted

\* What a transaction has written and not committed, and what it relies on:
\* `time' and `seen' are what it read, `who' the reviewer it is about, `want'
\* the locks it is taking and `then' what it does next, `key' the throttle row
\* it is about, `found' the sessions its last statement found.
NoChanges ==
  [time |-> 0, seen |-> None, who |-> 0, want |-> {}, then |-> "commit", key |-> <<>>,
   found |-> {}, account |-> None, sessions |-> None, throttle |-> None,
   accepted |-> {}, reply |-> "ok"]

Idle == [at |-> "idle", call |-> [op |-> "none"], tx |-> NoChanges, reply |-> "none"]

At(r, label) == req[r].at = label
Call(r) == req[r].call
Tx(r) == req[r].tx
Who(r) == Tx(r).who

AccountLock(v)   == <<"account", v>>
SecurityLock(v)  == <<"security", v>>
SessionLock(t)   == <<"session", t>>
ThrottleLock(k)  == <<"throttle", k>>
AuditLock        == <<"audit">>

Exclusive(lock) == [lock |-> lock, mode |-> "exclusive"]
Shared(lock)    == [lock |-> lock, mode |-> "shared"]

Conflicting(a, b) == a.lock = b.lock /\ "exclusive" \in {a.mode, b.mode}

\* The requests that keep r from a lock.
Blockers(want, r) ==
  {q \in Requests \ {r} : \E have \in held[q] : Conflicting(have, want)}

\* The requests that have written, and not committed, a throttle row.
Writers(key, r) == {q \in Requests \ {r} : key \in DOMAIN Tx(q).throttle}

WaitsFor(r) ==
  CASE At(r, "lock") /\ \A want \in Tx(r).want : Blockers(want, r) # {} ->
         UNION {Blockers(want, r) : want \in Tx(r).want}
    [] At(r, "upsert") -> Writers(Tx(r).key, r)
    [] At(r, "row")    -> Blockers(Exclusive(ThrottleLock(Tx(r).key)), r)
    [] OTHER           -> {}

\* Every request of a set waits for another of the set.
Cycle(D) == D # {} /\ \A q \in D : WaitsFor(q) \cap D # {}
Waiting == {q \in Requests : WaitsFor(q) # {}}
Deadlocked(r) == \E D \in SUBSET Waiting : r \in D /\ Cycle(D)

\* Go on at a label, with these changes.
Proceed(r, tx, label) ==
  /\ req' = [req EXCEPT ![r].at = label, ![r].tx = tx]
  /\ UNCHANGED <<scope, now, rows, issued, hashing, held>>

\* Go on at a label once these locks are taken, in whatever order.
Acquire(r, tx, want, label) ==
  Proceed(r, [tx EXCEPT !.want = want, !.then = label], IF want = {} THEN label ELSE "lock")

\* Commit what the transaction wrote and answer so: a DomainError of a sign-in or
\* of a code keeps its side effects.
Answer(r, tx, reply) == Proceed(r, [tx EXCEPT !.reply = reply], "commit")

\* The transaction ends without a trace.
Abort(r, reply) ==
  /\ req' = [req EXCEPT ![r] = [Idle EXCEPT !.at = "done", !.reply = reply]]
  /\ held' = [held EXCEPT ![r] = {}]
  /\ UNCHANGED <<scope, now, rows, issued, hashing>>

TakeLock(r) ==
  /\ At(r, "lock")
  /\ \E want \in Tx(r).want :
       /\ Blockers(want, r) = {}
       /\ held' = [held EXCEPT ![r] = @ \cup {want}]
       /\ req'  = [req EXCEPT
            ![r].tx.want = @ \ {want},
            ![r].at      = IF Tx(r).want = {want} THEN Tx(r).then ELSE "lock"]
  /\ UNCHANGED <<scope, now, rows, issued, hashing>>

-----------------------------------------------------------------------------
(***************************************************************************)
(* Throttle rows (_throttle_row): an upsert that does nothing to a row     *)
(* there is, and waits for one in flight; then a locking read of the row.  *)
(***************************************************************************)

Fresh(time) == [failures |-> 0, until |-> 0, updated |-> time]

\* A row as its transaction sees it.
Row(r, key) == IF key \in DOMAIN Tx(r).throttle THEN Tx(r).throttle[key] ELSE throttle[key]

Write(tx, key, row) == [tx EXCEPT !.throttle = Put(@, key, row)]

Locked(row, time) == row.until # 0 /\ time < row.until
Elapsed(row, time) == row.until # 0 /\ time >= row.until

\* One failure more; with the last one allowed the row is locked.
Failed(row, max) ==
  [failures |-> row.failures + 1,
   until    |-> IF row.failures + 1 >= max THEN now + Lockout ELSE 0,
   updated  |-> now]

\* Go on at a label with the throttle row of this key.
WithRow(r, tx, key, label) == Proceed(r, [tx EXCEPT !.key = key, !.then = label], "upsert")

UpsertThrottleRow(r) ==
  LET key == Tx(r).key
  IN  /\ At(r, "upsert")
      /\ Writers(key, r) = {}
      /\ IF key \in DOMAIN throttle \ DOMAIN Tx(r).throttle    \* not swept just now
         THEN Proceed(r, Tx(r), "row")
         ELSE /\ req'  = [req EXCEPT ![r].at = Tx(r).then,
                                     ![r].tx = Write(Tx(r), key, Fresh(now))]
              /\ held' = [held EXCEPT ![r] = @ \cup {Exclusive(ThrottleLock(key))}]
              /\ UNCHANGED <<scope, now, rows, issued, hashing>>

\* MUTANT: the row is read without its lock.
ReadThrottleRow(r) ==
  /\ At(r, "row")
  /\ IF Tx(r).key \in DOMAIN throttle THEN Proceed(r, Tx(r), Tx(r).then)
     ELSE Abort(r, "no row")

\* A row deleted while the read waited for it is not found: scalar_one raises.
LockThrottleRow(r) ==
  LET lock == Exclusive(ThrottleLock(Tx(r).key))
  IN  /\ At(r, "row")
      /\ Blockers(lock, r) = {}
      /\ IF Tx(r).key \in DOMAIN throttle
         THEN /\ req'  = [req EXCEPT ![r].at = Tx(r).then]
              /\ held' = [held EXCEPT ![r] = @ \cup {lock}]
              /\ UNCHANGED <<scope, now, rows, issued, hashing>>
         ELSE Abort(r, "no row")

-----------------------------------------------------------------------------
(***************************************************************************)
(* Sessions.                                                               *)
(***************************************************************************)

Expired(t) == sessions[t].expires < now

SessionsOf(v) == {t \in DOMAIN sessions : sessions[t].by = v}

\* The session resolves to its reviewer (resolve_session).
Live(t) ==
  /\ t \in DOMAIN sessions
  /\ ~sessions[t].revoked
  /\ ~Expired(t)
  /\ account[sessions[t].by].active

Dead == {t \in DOMAIN sessions : sessions[t].revoked \/ Expired(t)}

\* Bounds of the model.
TokensLeft ==
  Cardinality(issued) + Cardinality({q \in Requests : Call(q).op = "login"}) < scope.tokens

RequestsLeft == Cardinality({q \in Requests : ~At(q, "idle")}) < scope.requests

Submittable(call) ==
  \/ call.op = "login" /\ TokensLeft
  \/ /\ call.op \in OfAdministrator
     /\ account[call.by].active
     /\ call.op = "reset factor" => call.by # call.target
  \/ /\ call.op \in OfSession
     /\ Live(call.token)
     /\ LET row == account[sessions[call.token].by]
        IN  /\ call.op \in {"enroll", "enable"} => ~row.mustChange
            /\ call.op = "change" /\ row.enabled => sessions[call.token].verified # 0

FirstStep(op) ==
  CASE op = "login"                  -> "purge"
    [] op = "logout"                 -> "sign out"
    [] op \in {"suspend", "reinstate"} -> "find account"
    [] OTHER                         -> "secure"

Arrive(r, call) ==
  /\ At(r, "idle")
  /\ RequestsLeft
  /\ Submittable(call)
  /\ req' = [req EXCEPT
       ![r].call = call,
       ![r].at   = FirstStep(call.op),
       ![r].tx   = [NoChanges EXCEPT
         !.time = now,
         !.who  = CASE call.op \in OfSession       -> sessions[call.token].by
                    [] call.op \in OfAdministrator -> call.target
                    [] OTHER                       -> call.name]]
  /\ UNCHANGED <<scope, now, rows, issued, hashing, held>>

-----------------------------------------------------------------------------
(***************************************************************************)
(* Sign-in.                                                                *)
(***************************************************************************)

\* Dead sessions are deleted: found, locked, and looked at again.
PurgeDeadSessions(r) ==
  \/ /\ At(r, "purge")
     /\ Acquire(r, [Tx(r) EXCEPT !.found = Dead],
                {Exclusive(SessionLock(t)) : t \in Dead}, "purged")
  \/ /\ At(r, "purged")
     /\ Proceed(r, [Tx(r) EXCEPT !.sessions = [t \in Tx(r).found \cap Dead |-> Gone]], "sweep")

\* The throttle rows that are not locked and have been quiet.
Stale(key) ==
  /\ throttle[key].updated + StaleWindow < now
  /\ throttle[key].until = 0 \/ throttle[key].until < now

SweepStaleThrottle(r) ==
  LET stale == {key \in DOMAIN throttle : Stale(key)}
  IN  \/ /\ At(r, "sweep")
         /\ Acquire(r, Tx(r), {Exclusive(ThrottleLock(key)) : key \in stale}, "swept")
      \/ /\ At(r, "swept")
         /\ WithRow(r,
              [Tx(r) EXCEPT !.throttle =
                 [key \in {k \in stale : Exclusive(ThrottleLock(k)) \in held[r]} |-> Gone]],
              SourceKey(Call(r).source), "admit")

\* One source is admitted so many times in a window (its row, once locked or out
\* of its window, starts anew).
AdmitSource(r) ==
  LET key  == SourceKey(Call(r).source)
      row  == Row(r, key)
      anew == IF Elapsed(row, now) \/ now - row.updated >= SourceWindow THEN Fresh(now) ELSE row
      once == [anew EXCEPT !.failures = @ + 1]
  IN  /\ At(r, "admit")
      /\ IF Locked(row, now) THEN Answer(r, Tx(r), "limited")
         ELSE IF once.failures > SourceMaxAttempts
         THEN Answer(r, Write(Tx(r), key, [once EXCEPT !.until = now + Lockout]), "limited")
         ELSE WithRow(r, Write(Tx(r), key, once), NameKey(Call(r).name), "check")

\* The lock of the name is judged by the time at which the request came.
CheckName(r) ==
  /\ At(r, "check")
  /\ IF Locked(Row(r, NameKey(Call(r).name)), Tx(r).time) THEN Answer(r, Tx(r), "limited")
     ELSE Proceed(r, Tx(r), "read")

FreeSlots == HashSlots - Cardinality(hashing)

\* The account is read, and not locked; then the password is verified, if there
\* is a slot for it.
StartHashing(r) ==
  /\ At(r, "read")
  /\ IF FreeSlots = 0 THEN Answer(r, Tx(r), "limited")
     ELSE /\ req' = [req EXCEPT
               ![r].at = "hash",
               ![r].tx.seen = IF Who(r) \in Reviewers THEN account[Who(r)] ELSE None]
          /\ hashing' = hashing \cup {r}
          /\ UNCHANGED <<scope, now, rows, issued, held>>

PasswordAccepted(r) ==
  /\ Who(r) \in Reviewers
  /\ Call(r).password = Tx(r).seen.password
  /\ Tx(r).seen.active

\* A failure counts against the name; a success clears it, and takes a share of
\* the account's row for the session's foreign key.
FinishHashing(r) ==
  LET key == NameKey(Call(r).name)
  IN  /\ At(r, "hash")
      /\ hashing' = hashing \ {r}
      /\ req' = [req EXCEPT
           ![r].at = IF PasswordAccepted(r) THEN "lock" ELSE "commit",
           ![r].tx = IF PasswordAccepted(r)
                     THEN [Write(Tx(r), key, Gone) EXCEPT
                             !.want = {Shared(AccountLock(Who(r)))}, !.then = "mint"]
                     ELSE [Write(Tx(r), key, Failed(Row(r, key), MaxFailedLogins)) EXCEPT
                             !.reply = "unauthorized"]]
      /\ UNCHANGED <<scope, now, rows, issued, held>>

\* A session is minted for the password that was verified.
MintSession(r) ==
  /\ At(r, "mint")
  /\ \E t \in Tokens \ issued :
       /\ \A u \in Tokens \ issued : t <= u
       /\ issued' = issued \cup {t}
       /\ req' = [req EXCEPT
            ![r].at = "commit",
            ![r].tx.sessions = Put(@, t, [by |-> Who(r), opened |-> Tx(r).seen.password,
                                          verified |-> 0, revoked |-> FALSE,
                                          expires |-> Tx(r).time + SessionTTL])]
  /\ UNCHANGED <<scope, now, rows, hashing, held>>

\* The session's row, as the request read it, is marked revoked.
SignOut(r) ==
  LET t == Call(r).token
  IN  \/ /\ At(r, "sign out")
         /\ Acquire(r, Tx(r), {Exclusive(SessionLock(t))}, "signed out")
      \/ /\ At(r, "signed out")
         /\ IF t \notin DOMAIN sessions THEN Abort(r, "error")
            ELSE Proceed(r, [Tx(r) EXCEPT !.sessions =
                   Only(t, [sessions[t] EXCEPT !.revoked = TRUE])], "commit")

-----------------------------------------------------------------------------
(***************************************************************************)
(* Credentials: one change at a time for each reviewer.                    *)
(***************************************************************************)

AccountRow(v) == {Exclusive(AccountLock(v))}

\* lock_reviewer_security: the advisory lock is tried, the account's row waited for.
LockReviewerSecurity(r) ==
  LET lock == Exclusive(SecurityLock(Who(r)))
  IN  /\ At(r, "secure")
      /\ IF Blockers(lock, r) # {} THEN Abort(r, "conflict")
         ELSE /\ held' = [held EXCEPT ![r] = @ \cup {lock}]
              /\ req'  = [req EXCEPT ![r].at      = IF AccountRow(Who(r)) = {} THEN Call(r).op ELSE "lock",
                                     ![r].tx.want = AccountRow(Who(r)),
                                     ![r].tx.then = Call(r).op]
              /\ UNCHANGED <<scope, now, rows, issued, hashing>>

Change(tx, v, row) == [tx EXCEPT !.account = Only(v, row)]

\* MUTANT: a factor is prepared anew whatever the account has.
EnrollAnew(r) ==
  LET row == account[Who(r)]
  IN  /\ At(r, "enroll")
      /\ Proceed(r, Change(Tx(r), Who(r), [row EXCEPT !.factor = row.minted + 1, !.minted = @ + 1]),
                 "commit")

\* An enabled factor is never replaced, one prepared is shown again.
StartMfaEnrollment(r) ==
  LET row == account[Who(r)]
  IN  /\ At(r, "enroll")
      /\ IF row.enabled THEN Abort(r, "refused")
         ELSE IF row.factor # 0 THEN Proceed(r, Tx(r), "commit")
         ELSE Proceed(r, Change(Tx(r), Who(r),
                [row EXCEPT !.factor = row.minted + 1, !.minted = @ + 1]), "commit")

\* enable_mfa needs a factor prepared, verify_mfa_code one enabled.
CheckFactor(r) ==
  LET row == account[Who(r)]
  IN  /\ At(r, "enable") \/ At(r, "verify")
      /\ IF IF At(r, "enable") THEN row.factor = 0 ELSE ~row.enabled
         THEN Abort(r, "refused")
         ELSE WithRow(r, Tx(r), FactorKey(Who(r)), "attempt")

\* The code is the factor's for a period near the present.
Matching(r) ==
  /\ Call(r).factor = account[Who(r)].factor
  /\ Call(r).period <= now + MfaWindow
  /\ now <= Call(r).period + MfaWindow

\* MUTANT: a code may be used again.
AlwaysUnused(key) == TRUE

Unused(key) == key \notin DOMAIN throttle

\* _verify_mfa_attempt: a code is consumed, or counts as a failure.
AttemptCode(r) ==
  LET v    == Who(r)
      key  == FactorKey(v)
      row  == Row(r, key)
      anew == IF Elapsed(row, now) THEN Fresh(now) ELSE row
      used == UsedKey(v, Call(r).period)
      tx   == [Tx(r) EXCEPT
                 !.throttle = Put(Put(@, key, Gone), used, Fresh(now)),
                 !.accepted = {<<v, Call(r).period>>},
                 !.account  = IF Call(r).op = "enable"
                              THEN Only(v, [account[v] EXCEPT !.enabled = TRUE]) ELSE @]
      fail == Failed(anew, MfaMaxFailures)
  IN  /\ At(r, "attempt")
      /\ IF Locked(row, now) THEN Answer(r, Tx(r), "limited")
         ELSE IF ~Matching(r) \/ ~Unused(used)
         THEN Answer(r, Write(Tx(r), key, fail), IF fail.until # 0 THEN "limited" ELSE "invalid")
         ELSE IF Call(r).token \in DOMAIN sessions /\ Expired(Call(r).token)
         THEN Abort(r, "refused")
         ELSE Acquire(r, tx, {Exclusive(SessionLock(Call(r).token))}, "mark")

\* The session's row, as the request read it, is marked verified.
MarkMfaVerified(r) ==
  LET t == Call(r).token
  IN  /\ At(r, "mark")
      /\ IF t \notin DOMAIN sessions THEN Abort(r, "error")
         ELSE Proceed(r, [Tx(r) EXCEPT !.sessions =
                Only(t, [sessions[t] EXCEPT !.verified = account[Who(r)].factor])], "commit")

\* The sessions a statement finds to revoke: those committed and not revoked.
ToRevoke(v, kept) == {t \in SessionsOf(v) \ kept : ~sessions[t].revoked}

\* Find the reviewer's sessions and lock them, to revoke them.
FindSessions(r, tx, kept, locks) ==
  LET found == ToRevoke(Who(r), kept)
  IN  Acquire(r, [tx EXCEPT !.found = found],
              {Exclusive(SessionLock(t)) : t \in found} \cup locks, "revoke")

RevokeSessions(r) ==
  /\ At(r, "revoke")
  /\ Proceed(r, [Tx(r) EXCEPT !.sessions =
       [t \in Tx(r).found \cap DOMAIN sessions |-> [sessions[t] EXCEPT !.revoked = TRUE]]],
       IF Call(r).op = "change" THEN "commit" ELSE "audit")

\* change_password: the session that asks is kept.
ChangePassword(r) ==
  LET row == account[Who(r)]
      new == [row EXCEPT !.password = @ + 1, !.mustChange = FALSE]
  IN  /\ At(r, "change")
      /\ IF Call(r).password # row.password THEN Abort(r, "unauthorized")
         ELSE FindSessions(r, Change(Tx(r), Who(r), new), {Call(r).token}, {})

ResetPassword(r) ==
  LET row == account[Who(r)]
      new == [row EXCEPT !.password = @ + 1, !.mustChange = TRUE]
  IN  /\ At(r, "reset password")
      /\ FindSessions(r, Change(Tx(r), Who(r), new), {}, {})

\* The factor's throttle row goes with the factor.
ResetFactor(r) ==
  LET row == account[Who(r)]
      key == FactorKey(Who(r))
      tx  == Change(Tx(r), Who(r), [row EXCEPT !.factor = 0, !.enabled = FALSE])
  IN  /\ At(r, "reset factor")
      /\ IF ~row.enabled THEN Abort(r, "refused")
         ELSE IF key \in DOMAIN throttle
         THEN FindSessions(r, Write(tx, key, Gone), {}, {Exclusive(ThrottleLock(key))})
         ELSE FindSessions(r, tx, {}, {})

\* MUTANT: the Seniors' accounts are locked in any order.
AnyFirst(left) == left

\* The account locked next, of those left: the first in order of id.
FirstOf(left) == {s \in left : \A u \in left : s <= u}

\* set_reviewer_active_admin: every Senior's account is locked, in order, and the
\* administrator looked at again; then the account, if it is no Senior's, and for a
\* suspension its sessions.  (Whether a suspension would leave a matter without a
\* Senior, MatterAuthority models; the memberships it locks for that only suspensions
\* lock, one at a time.)
SetReviewerActive(r) ==
  LET v    == Who(r)
      left == {s \in Seniors : Exclusive(AccountLock(s)) \notin held[r]}
      tx   == Change(Tx(r), v, [account[v] EXCEPT !.active = Call(r).op = "reinstate"])
  IN  \/ /\ At(r, "find account")
         /\ \E s \in FirstOf(left) :
              Acquire(r, Tx(r), {Exclusive(AccountLock(s))}, "find account")
      \/ /\ At(r, "find account") /\ left = {}
         /\ IF account[Call(r).by].active
            THEN Acquire(r, Tx(r), {Exclusive(AccountLock(v))} \ held[r], Call(r).op)
            ELSE Abort(r, "denied")
      \/ /\ At(r, "suspend")
         /\ v = Call(r).by \/ account[v].active
         /\ Abort(r, "refused")
      \/ /\ At(r, "suspend") /\ v # Call(r).by
         /\ FindSessions(r, tx, {}, {})
      \/ /\ At(r, "reinstate")
         /\ Proceed(r, tx, "audit")

\* The account audit event, appended under the lock of its chain; its foreign keys
\* share the rows of the account, which the request has, and of the administrator's.
AppendAccountAudit(r) ==
  \/ /\ At(r, "audit")
     /\ Acquire(r, Tx(r), {Exclusive(AuditLock)}, "record")
  \/ /\ At(r, "record")
     /\ Acquire(r, Tx(r), {Shared(AccountLock(Call(r).by))}, "commit")

-----------------------------------------------------------------------------
Kept(written) == {x \in DOMAIN written : written[x] # Gone}

\* What a table is once this is written to it.
Applied(table, written) ==
  [x \in (DOMAIN table \ DOMAIN written) \cup Kept(written) |->
     IF x \in DOMAIN written THEN written[x] ELSE table[x]]

Commit(r) ==
  /\ At(r, "commit")
  /\ account'  = Applied(account, Tx(r).account)
  /\ sessions' = Applied(sessions, Tx(r).sessions)
  /\ throttle' = Applied(throttle, Tx(r).throttle)
  /\ accepted' = accepted \cup Tx(r).accepted
  /\ req'  = [req EXCEPT ![r] = [Idle EXCEPT !.at = "done", !.reply = Tx(r).reply]]
  /\ held' = [held EXCEPT ![r] = {}]
  /\ UNCHANGED <<scope, now, issued, hashing>>

\* PostgreSQL finds a deadlock and cancels one of the transactions in it.
CancelDeadlocked(r) == Deadlocked(r) /\ Abort(r, "deadlock")

Tick ==
  /\ now < scope.time    \* a bound of the model
  /\ now' = now + 1
  /\ UNCHANGED <<scope, rows, issued, hashing, req, held>>

Init ==
  /\ now = 0
  /\ \E opening \in Openings :
       /\ account = opening.account
       /\ sessions = opening.sessions
       /\ throttle = opening.throttle
       /\ accepted = opening.accepted
       /\ issued = DOMAIN opening.sessions
       /\ scope = opening.scope
  /\ hashing = {}
  /\ req = [r \in Requests |-> Idle]
  /\ held = [r \in Requests |-> {}]

Step(r) ==
  \/ TakeLock(r)
  \/ UpsertThrottleRow(r)
  \/ LockThrottleRow(r)
  \/ PurgeDeadSessions(r)
  \/ SweepStaleThrottle(r)
  \/ AdmitSource(r)
  \/ CheckName(r)
  \/ StartHashing(r)
  \/ FinishHashing(r)
  \/ MintSession(r)
  \/ SignOut(r)
  \/ LockReviewerSecurity(r)
  \/ StartMfaEnrollment(r)
  \/ CheckFactor(r)
  \/ AttemptCode(r)
  \/ MarkMfaVerified(r)
  \/ ChangePassword(r)
  \/ ResetPassword(r)
  \/ ResetFactor(r)
  \/ RevokeSessions(r)
  \/ SetReviewerActive(r)
  \/ AppendAccountAudit(r)
  \/ Commit(r)
  \/ CancelDeadlocked(r)

Next == Tick \/ \E r \in Requests : (\E call \in scope.calls : Arrive(r, call)) \/ Step(r)

Spec == Init /\ [][Next]_vars

-----------------------------------------------------------------------------
(***************************************************************************)
(* Properties.                                                             *)
(***************************************************************************)

\* The tables are tables, a session kept was handed out, and who waits for locks
\* has some to wait for.
TypeOK ==
  /\ account \in [Reviewers -> Credential]
  /\ sessions \in [DOMAIN sessions -> SessionRow]
  /\ DOMAIN sessions \subseteq issued /\ issued \subseteq Tokens
  /\ throttle \in [DOMAIN throttle -> ThrottleRow] /\ DOMAIN throttle \subseteq ThrottleKey
  /\ accepted \subseteq Reviewers \X Periods
  /\ now \in 0 .. MaxTime
  /\ \A r \in Requests : At(r, "lock") <=> Tx(r).want # {}

\* The sessions as ReviewerSessions has them, without their times.
PromisedSessions ==
  [t \in DOMAIN sessions |->
     [by |-> sessions[t].by, opened |-> sessions[t].opened,
      verified |-> sessions[t].verified, revoked |-> sessions[t].revoked]]

\* Sign-in keeps its promises: what requests do side by side is what
\* ReviewerSessions does step by step.  A code is accepted once, an enabled factor
\* is never replaced, and a change of password, of factor or of standing commits
\* with every other session of the reviewer revoked.
Promised == INSTANCE ReviewerSessions WITH Counters <- Periods, sessions <- PromisedSessions

ImplementsReviewerSessions == [][Promised!Next]_(Promised!vars)

\* A session counts as verified only with the factor its owner has enabled now,
\* however a verification and a reset of the factor interleave.
VerifiedByCurrentFactor == Promised!VerifiedByCurrentFactor

\* While a password is being verified its name is not locked, however many
\* sign-ins try the name at once and from wherever (login, _throttle_row).
NoGuessWhileLocked ==
  \A r \in hashing :
    LET key == NameKey(Call(r).name)
    IN  key \in DOMAIN throttle => ~Locked(throttle[key], now)

\* The request waits, for its audit event's foreign key, for the administrator's row.
AwaitsActor(q) ==
  /\ At(q, "lock") /\ Call(q).op \in OfAdministrator
  /\ Tx(q).want = {Shared(AccountLock(Call(q).by))}

\* Changes of credentials wait for one another in a circle only through a sign-in,
\* whose purge holds what they want while it waits for an account's row, or through
\* administrators: one's audit event, appended, waits for his own account's row, that
\* a request of another holds.
CyclesNeedASignInOrAnActor ==
  \A D \in SUBSET Waiting : Cycle(D) =>
    \/ \E q \in D : Call(q).op = "login"
    \/ \E p, q \in D :
         /\ AwaitsActor(q)
         /\ Call(p).op \in OfAdministrator
         /\ Exclusive(AccountLock(Call(q).by)) \in held[p]
=============================================================================
