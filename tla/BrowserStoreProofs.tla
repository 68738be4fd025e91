------------------------- MODULE BrowserStoreProofs -------------------------
(***************************************************************************)
(* Proofs about BrowserStore, for any number of reviewers, matters,        *)
(* operations and sessions: what is on screen is what was asked for last,  *)
(* the cookie is the page's, and nobody waits for an answer that no        *)
(* operation awaits.                                                       *)
(*                                                                         *)
(* An answer ends its operation or sends it on, and does one of a few      *)
(* things to the page; each of these kinds of step, and each of the        *)
(* reviewer's, is shown to preserve the parts of the invariant.            *)
(***************************************************************************)
EXTENDS BrowserStore, SequenceTheorems, TLAPS

-----------------------------------------------------------------------------
(***************************************************************************)
(* The invariant.                                                          *)
(***************************************************************************)
Kinds == {"boot", "login", "switch", "create", "change", "password", "check", "logout"}
Labels == {"session", "login", "cases", "case", "post", "refresh", "create", "password",
           "check", "logout"}
Matters == Cases \cup {NoCase}
Scope == [auth : Nat, session : Nat, epoch : Nat, case : Matters]

Sent == [kind : Kinds, at : Labels \cup {"none"}, scope : Scope, forced : BOOLEAN, closed : BOOLEAN,
         unseen : BOOLEAN, sid : Nat, good : BOOLEAN]

Epochs == [auth : Nat, session : Nat, signedIn : BOOLEAN, case : Nat, asked : Matters,
           leaving : BOOLEAN, checking : Nat]

Page == [status : {"loading", "unauthenticated", "ready", "error"},
         reviewer : Reviewers \cup {Nobody}, sid : Nat,
         gate : {"none", "voluntary", "forced"}, case : Matters,
         held : SUBSET [session : Nat, case : Matters]]

Known == [by : Reviewers, standing : {"live", "revoked", "expired"}, must : BOOLEAN]

Typed ==
  /\ page \in Page /\ seen \in Page
  /\ form \in BOOLEAN /\ tabs \in SUBSET {"in", "out"}
  /\ epochs \in Epochs
  /\ ops \in Seq(Sent)
  /\ session \in Seq(Known)
  /\ cookie \in 0 .. Len(session)

\* Of a page: with nobody signed in it holds nothing, and it knows its session.
PageShape(p) ==
  /\ p.reviewer = Nobody =>
       p.case = NoCase /\ p.held = {} /\ p.status # "ready" /\ p.gate # "forced"
  /\ p.status = "unauthenticated" => p.reviewer = Nobody
  /\ p.reviewer # Nobody => p.sid \in 1 .. Len(session)

\* Of an operation: so many sessions there are, so far the epochs have come.
OpShape(op, sessions, auth, current) ==
  /\ op.sid <= sessions
  /\ op.good => op.sid # 0
  /\ op.scope.auth <= auth /\ op.scope.session <= current
  /\ op.at = "login" => op.kind = "login"
  /\ op.at = "session" => op.kind = "boot"
  /\ op.at = "password" => op.kind = "password"

OpsShaped ==
  \A o \in 1 .. Len(ops) : OpShape(ops[o], Len(session), epochs.auth, epochs.session)

Shaped ==
  /\ PageShape(page) /\ PageShape(seen)
  /\ OpsShaped
  /\ epochs.signedIn <=> page.reviewer # Nobody
  /\ \A i \in 1 .. Len(session) : session[i].must => session[i].by \in Temporary

Booting(o) == ops[o].at = "session" /\ AuthCurrent(o)

OneAt(at) == \A o, p \in 1 .. Len(ops) : ops[o].at = at /\ ops[p].at = at => o = p

\* While a sign-in is under way nothing else changes who is signed in.
SignInAlone ==
  /\ OneAt("login")
  /\ \A o \in 1 .. Len(ops) : ops[o].at = "login" =>
       /\ page.status = "unauthenticated" /\ seen.status = "unauthenticated"
       /\ form /\ ~ops[o].closed /\ AuthCurrent(o) /\ ~epochs.leaving

\* The same of a sign-out.
SignOutAlone ==
  /\ OneAt("logout")
  /\ epochs.leaving <=> \E o \in 1 .. Len(ops) : ops[o].at = "logout"
  /\ epochs.leaving =>
       /\ page.status = "loading" /\ page.reviewer = Nobody
       /\ ~(seen.status = "error" /\ seen.gate = "none")
       /\ \A o \in 1 .. Len(ops) : ~Booting(o)

\* With no sign-in elsewhere the last session is the one opened here.
OpenedHere ==
  "in" \notin tabs =>
    cookie \in {0, Len(session)} /\ (page.reviewer # Nobody => page.sid = Len(session))

\* The session asked for when the page starts is the one the cookie names.
BootsHere ==
  \A o \in 1 .. Len(ops) : Booting(o) =>
    /\ page.status # "unauthenticated"
    /\ "in" \notin tabs => CookieNames(ops[o].sid) /\ ops[o].sid \in {0, Len(session)}
    /\ page.reviewer = Nobody => page.gate = "none" /\ ~Open(seen) /\ seen.gate # "voluntary"

NamesThisSession ==
  \A o \in 1 .. Len(ops) :
    ops[o].at \in {"check", "password"} /\ SessionCurrent(o) /\ "in" \notin tabs =>
      ops[o].sid \in {0, Len(session)}

FormIsShown == seen.status = "unauthenticated" /\ ~form => page.status = "unauthenticated"

GateWasAsked == page.gate = "voluntary" => seen.gate = "voluntary" \/ Open(seen)

\* The form that asks for a new password cannot be left without one.
ForcedIsShut ==
  page.gate = "forced" /\ ~RotationElsewhere =>
    /\ ~Open(seen)
    /\ ~(Changing(seen) /\ seen.gate = "voluntary")
    /\ \A o \in 1 .. Len(ops) : ops[o].at = "password" /\ SessionCurrent(o) => ops[o].forced

MustIsForced ==
  "in" \notin tabs /\ page.reviewer # Nobody => (session[page.sid].must => page.gate = "forced")

\* The operation loads a matter and reports it when that fails.
Loads(o) ==
  \/ ops[o].at = "cases" /\ SessionCurrent(o) /\ ops[o].kind # "create"
  \/ ops[o].at = "case" /\ CaseCurrent(o)

Awaited ==
  page.status = "loading" =>
    \E o \in 1 .. Len(ops) : Loads(o) \/ Booting(o) \/ ops[o].at = "logout"

Belongs ==
  /\ page.case = epochs.asked
  /\ \A s \in page.held : s = [session |-> epochs.session, case |-> page.case]

ReadyBelongs ==
  page.status = "ready" /\ page.gate # "forced" /\ ~RotationElsewhere =>
    (\E o \in 1 .. Len(ops) : Loads(o)) \/ Belongs

IInv ==
  /\ Typed /\ Shaped
  /\ SignInAlone /\ SignOutAlone /\ OpenedHere /\ BootsHere /\ NamesThisSession
  /\ FormIsShown /\ GateWasAsked /\ ForcedIsShut /\ MustIsForced
  /\ Awaited /\ ReadyBelongs /\ CookieIsOfThePage

-----------------------------------------------------------------------------
(***************************************************************************)
(* The invariant says what the properties say.                             *)
(***************************************************************************)
LEMMA LoadsAreUnderWay ==
  ASSUME NEW o \in 1 .. Len(ops), Loads(o)
  PROVE  LoadUnderWay
  BY DEF Loads, LoadUnderWay

LEMMA ShownFollows == IInv => ShownBelongsHere
  BY LoadsAreUnderWay
  DEF IInv, Shaped, PageShape, ReadyBelongs, Belongs, ShownBelongsHere, Open

LEMMA LoadingFollows == IInv => LoadingIsAwaited
  BY LoadsAreUnderWay DEF IInv, Awaited, SignOutAlone, Booting, LoadingIsAwaited

-----------------------------------------------------------------------------
(***************************************************************************)
(* What becomes of the operations under way.                               *)
(***************************************************************************)

\* Where an operation was before the o-th one ended.
Before(o, i) == IF i < o THEN i ELSE i + 1

\* The o-th operation is over; the others are what they were.
Ends(o) ==
  /\ ops' \in Seq(Sent)
  /\ \A i \in 1 .. Len(ops') :
       Before(o, i) \in (1 .. Len(ops)) \ {o} /\ ops'[i] = ops[Before(o, i)]
  /\ \A j \in 1 .. Len(ops) : j # o => \E i \in 1 .. Len(ops') : ops'[i] = ops[j]

\* A request of this kind goes out as this place's.
SentAs(op, old, at, scope) ==
  /\ op.kind = old.kind /\ op.at = at /\ op.scope = scope
  /\ op.forced = old.forced /\ op.closed = old.closed
  /\ op.sid = cookie'
  /\ op.good => cookie' # 0

\* The o-th operation goes on; the others are what they were.
GoesOn(o, at, scope) ==
  /\ ops' \in Seq(Sent) /\ Len(ops') = Len(ops)
  /\ \A i \in 1 .. Len(ops) : i # o => ops'[i] = ops[i]
  /\ SentAs(ops'[o], ops[o], at, scope)

\* One more is started.
Starts(op, at) ==
  /\ ops' \in Seq(Sent) /\ Len(ops') = Len(ops) + 1
  /\ \A i \in 1 .. Len(ops) : ops'[i] = ops[i]
  /\ SentAs(ops'[Len(ops) + 1], op, at, op.scope)

LEMMA EndEnds ==
  ASSUME Typed, NEW o \in 1 .. Len(ops), End(o)
  PROVE  Ends(o)
  <1> DEFINE front == SubSeq(ops, 1, o - 1)
             back  == SubSeq(ops, o + 1, Len(ops))
  <1>1. ops \in Seq(Sent) /\ Len(ops) \in Nat /\ o \in Nat /\ o >= 1 /\ o <= Len(ops)
    BY DEF Typed
  <1>2. front \in Seq(Sent) /\ Len(front) = o - 1
    BY <1>1
  <1>3. back \in Seq(Sent) /\ Len(back) = Len(ops) - o
    BY <1>1
  <1>4. ops' = front \o back
    BY DEF End
  <1>5. \A i \in 1 .. Len(front) : front[i] = ops[i]
    BY <1>1, <1>2
  <1>6. \A i \in 1 .. Len(back) : back[i] = ops[o + i]
    BY <1>1, <1>3
  <1> HIDE DEF front, back
  <1>7. /\ ops' \in Seq(Sent) /\ Len(ops') = Len(front) + Len(back)
        /\ \A i \in 1 .. Len(front) + Len(back) :
             ops'[i] = IF i <= Len(front) THEN front[i] ELSE back[i - Len(front)]
    BY <1>2, <1>3, <1>4, ConcatProperties
  <1>8. ops' \in Seq(Sent) /\ Len(ops') = Len(ops) - 1
    BY <1>1, <1>2, <1>3, <1>7
  <1>9. ASSUME NEW i \in 1 .. Len(ops')
        PROVE  Before(o, i) \in (1 .. Len(ops)) \ {o} /\ ops'[i] = ops[Before(o, i)]
    <2> DEFINE f == Len(front)
               b == Len(back)
    <2>1. f \in Nat /\ b \in Nat /\ f = o - 1 /\ b = Len(ops) - o /\ i \in 1 .. f + b
      BY <1>1, <1>2, <1>3, <1>8
    <2>2. ops'[i] = IF i <= f THEN front[i] ELSE back[i - f]
      BY <1>7, <2>1
    <2>3. CASE i <= f
      BY <1>1, <1>5, <2>1, <2>2, <2>3 DEF Before
    <2>4. CASE i > f
      <3>1. i - f \in 1 .. b /\ o + (i - f) = i + 1 /\ ~(i <= f) /\ i + 1 \in (1 .. Len(ops)) \ {o}
        BY <1>1, <2>1, <2>4
      <3>2. ops'[i] = ops[i + 1]
        BY <1>6, <2>2, <3>1
      <3> QED
        BY <1>1, <2>1, <2>4, <3>1, <3>2 DEF Before
    <2> QED
      BY <2>1, <2>3, <2>4
  <1>10. ASSUME NEW j \in 1 .. Len(ops), j # o
        PROVE  \E i \in 1 .. Len(ops') : ops'[i] = ops[j]
    <2>1. CASE j < o
      <3>1. j \in 1 .. Len(ops') /\ Before(o, j) = j
        BY <1>1, <1>8, <2>1 DEF Before
      <3> QED
        BY <1>9, <3>1
    <2>2. CASE j > o
      <3>1. j - 1 \in 1 .. Len(ops') /\ Before(o, j - 1) = j
        BY <1>1, <1>8, <2>2 DEF Before
      <3> QED
        BY <1>9, <3>1
    <2> QED
      BY <1>1, <1>10, <2>1, <2>2
  <1> QED
    BY <1>8, <1>9, <1>10 DEF Ends

\* What a request is once it is out.
LEMMA RequestIsSent ==
  ASSUME cookie' \in Nat, NEW old \in Sent, NEW at \in Labels, NEW scope \in Scope,
         NEW op, op = Request([old EXCEPT !.scope = scope], at)
  PROVE  op \in Sent /\ SentAs(op, old, at, scope)
  <1>1. (page' # seen) \in BOOLEAN
    OBVIOUS
  <1>2. (cookie' # 0 /\ session'[cookie'].standing = "live") \in BOOLEAN
    OBVIOUS
  <1> QED
    BY <1>1, <1>2 DEF Request, Sent, SentAs

LEMMA SendGoesOn ==
  ASSUME Typed, cookie' \in Nat, NEW o \in 1 .. Len(ops), NEW at \in Labels,
         NEW scope \in Scope, Send(o, at, scope)
  PROVE  GoesOn(o, at, scope)
  <1> DEFINE new == Request([ops[o] EXCEPT !.scope = scope], at)
  <1>1. ops[o] \in Sent
    BY DEF Typed
  <1>2. new \in Sent /\ SentAs(new, ops[o], at, scope)
    BY <1>1, RequestIsSent
  <1>3. ops' = [ops EXCEPT ![o] = new]
    BY DEF Send
  <1> HIDE DEF new
  <1> QED
    BY <1>2, <1>3 DEF GoesOn, Typed

LEMMA StartStarts ==
  ASSUME Typed, cookie' \in Nat, NEW op \in Sent, NEW at \in Labels, Start(op, at)
  PROVE  Starts(op, at)
  <1> DEFINE new == Request(op, at)
  <1>1. op = [op EXCEPT !.scope = op.scope] /\ op.scope \in Scope
    BY DEF Sent
  <1>2. new \in Sent /\ SentAs(new, op, at, op.scope)
    BY <1>1, RequestIsSent
  <1>3. ops' = Append(ops, new)
    BY DEF Start
  <1> HIDE DEF new
  <1> QED
    BY <1>2, <1>3 DEF Starts, Typed

-----------------------------------------------------------------------------
(***************************************************************************)
(* Answers that end their operation.                                       *)
(***************************************************************************)

\* The sessions are those that were, some of them over or with a new password.
SessionsGoOn ==
  /\ session' \in Seq(Known) /\ Len(session') = Len(session)
  /\ \A i \in 1 .. Len(session) :
       session'[i].by = session[i].by /\ (session'[i].must => session[i].must)

\* The epochs are those that were; a check may be over.
EpochsStay ==
  /\ epochs' \in Epochs
  /\ epochs'.auth = epochs.auth /\ epochs'.session = epochs.session
  /\ epochs'.signedIn = epochs.signedIn /\ epochs'.case = epochs.case
  /\ epochs'.asked = epochs.asked /\ epochs'.leaving = epochs.leaving

\* While the epochs stay an operation is as current as it was.
Alike(i, j) ==
  /\ ops'[i] = ops[j]
  /\ Loads(i)' <=> Loads(j)
  /\ Booting(i)' <=> Booting(j)
  /\ AuthCurrent(i)' <=> AuthCurrent(j)
  /\ SessionCurrent(i)' <=> SessionCurrent(j)

LEMMA StayAlike ==
  ASSUME EpochsStay, NEW i, NEW j, ops'[i] = ops[j]
  PROVE  Alike(i, j)
  BY DEF EpochsStay, Alike, Loads, Booting, AuthCurrent, SessionCurrent, CaseCurrent

LEMMA EndsAlike ==
  ASSUME EpochsStay, NEW o, Ends(o)
  PROVE  /\ \A i \in 1 .. Len(ops') :
              Before(o, i) \in (1 .. Len(ops)) \ {o} /\ Alike(i, Before(o, i))
         /\ \A j \in 1 .. Len(ops) : j # o => \E i \in 1 .. Len(ops') : Alike(i, j)
  BY StayAlike DEF Ends

LEMMA EndsApart ==
  ASSUME NEW o \in 1 .. Len(ops), Ends(o), NEW at, OneAt(at)
  PROVE  OneAt(at)'
  <1> SUFFICES ASSUME NEW i \in 1 .. Len(ops'), NEW k \in 1 .. Len(ops'),
                      ops'[i].at = at, ops'[k].at = at
               PROVE  i = k
    BY DEF OneAt
  <1>1. /\ Before(o, i) \in 1 .. Len(ops) /\ Before(o, k) \in 1 .. Len(ops)
        /\ ops[Before(o, i)].at = at /\ ops[Before(o, k)].at = at
    BY DEF Ends
  <1>2. Before(o, i) = Before(o, k)
    BY <1>1 DEF OneAt
  <1> QED
    BY <1>2 DEF Before

\* What holds of the operations when one ends and the epochs stay.
LEMMA EndsShaped ==
  ASSUME IInv, NEW o \in 1 .. Len(ops), Ends(o), EpochsStay, SessionsGoOn,
         UNCHANGED <<cookie, tabs>>, page' \in Page, UNCHANGED <<seen, form>>
  PROVE  /\ Typed' /\ OpsShaped'
         /\ OneAt("login")' /\ OneAt("logout")'
         /\ RotationElsewhere' <=> RotationElsewhere
         /\ \A i \in 1 .. Len(ops') :
              Before(o, i) \in (1 .. Len(ops)) \ {o} /\ Alike(i, Before(o, i))
         /\ \A j \in 1 .. Len(ops) : j # o => \E i \in 1 .. Len(ops') : Alike(i, j)
         /\ \A i \in 1 .. Len(session') : session'[i].must => session'[i].by \in Temporary
  <1>1. Typed'
    BY DEF IInv, Typed, Ends, EpochsStay, SessionsGoOn
  <1>2. OpsShaped'
    BY DEF IInv, Shaped, OpsShaped, Ends, EpochsStay, SessionsGoOn
  <1>3. OneAt("login")' /\ OneAt("logout")'
    BY EndsApart DEF IInv, SignInAlone, SignOutAlone
  <1>4. RotationElsewhere' <=> RotationElsewhere
    BY DEF RotationElsewhere, SessionsGoOn
  <1>5. \A i \in 1 .. Len(session') : session'[i].must => session'[i].by \in Temporary
    BY DEF IInv, Shaped, SessionsGoOn
  <1> QED
    BY <1>1, <1>2, <1>3, <1>4, <1>5, EndsAlike

\* One that signs nobody out leaves the sign-out under way.
LEMMA SignOutGoesOn ==
  ASSUME IInv, NEW o \in 1 .. Len(ops), Ends(o), ops[o].at # "logout"
  PROVE  epochs.leaving <=> \E i \in 1 .. Len(ops') : ops'[i].at = "logout"
  <1>1. ASSUME NEW i \in 1 .. Len(ops'), ops'[i].at = "logout"
        PROVE  epochs.leaving
    BY <1>1 DEF Ends, IInv, SignOutAlone
  <1>2. ASSUME epochs.leaving
        PROVE  \E i \in 1 .. Len(ops') : ops'[i].at = "logout"
    <2>1. PICK j \in 1 .. Len(ops) : ops[j].at = "logout"
      BY <1>2 DEF IInv, SignOutAlone
    <2> QED
      BY <2>1 DEF Ends
  <1> QED
    BY <1>1, <1>2

\* An answer nobody waits for, or one that changes nothing.
LEMMA GivesUp ==
  ASSUME IInv, NEW o \in 1 .. Len(ops), Ends(o),
         ~Booting(o), ~Loads(o), ops[o].at # "logout",
         EpochsStay, SessionsGoOn, UNCHANGED <<page, seen, form, cookie, tabs>>
  PROVE  IInv'
  <1>1. /\ Typed' /\ OpsShaped'
        /\ OneAt("login")' /\ OneAt("logout")'
        /\ RotationElsewhere' <=> RotationElsewhere
        /\ \A i \in 1 .. Len(ops') :
             Before(o, i) \in (1 .. Len(ops)) \ {o} /\ Alike(i, Before(o, i))
        /\ \A j \in 1 .. Len(ops) : j # o => \E i \in 1 .. Len(ops') : Alike(i, j)
        /\ \A i \in 1 .. Len(session') : session'[i].must => session'[i].by \in Temporary
    BY EndsShaped DEF IInv, Typed
  <1>2. Shaped'
    BY <1>1 DEF IInv, Shaped, PageShape, EpochsStay, SessionsGoOn
  <1>3. SignInAlone'
    <2>1. ASSUME NEW i \in 1 .. Len(ops'), ops'[i].at = "login"
          PROVE  ~ops'[i].closed /\ AuthCurrent(i)' /\ \E j \in 1 .. Len(ops) : ops[j].at = "login"
      <3>1. Before(o, i) \in 1 .. Len(ops) /\ Alike(i, Before(o, i))
        BY <1>1
      <3> QED
        BY <2>1, <3>1 DEF IInv, SignInAlone, Alike
    <2> QED
      BY <1>1, <2>1 DEF IInv, SignInAlone, EpochsStay
  <1>4. SignOutAlone'
    BY <1>1, SignOutGoesOn DEF IInv, SignOutAlone, Alike, EpochsStay
  <1>5. BootsHere'
    BY <1>1 DEF IInv, BootsHere, CookieNames, Alike, Open, SessionsGoOn
  <1>6. NamesThisSession'
    BY <1>1 DEF IInv, NamesThisSession, Alike, SessionsGoOn
  <1>7. FormIsShown' /\ GateWasAsked' /\ CookieIsOfThePage' /\ OpenedHere'
    BY DEF IInv, FormIsShown, GateWasAsked, Open, CookieIsOfThePage, CookieNames, OpenedHere,
      SessionsGoOn
  <1>8. ForcedIsShut'
    BY <1>1 DEF IInv, ForcedIsShut, Open, Changing, Alike
  <1>9. MustIsForced'
    BY DEF IInv, MustIsForced, Shaped, PageShape, SessionsGoOn
  <1>10. Awaited'
    BY <1>1 DEF IInv, Awaited, Alike
  <1>11. ReadyBelongs'
    BY <1>1 DEF IInv, ReadyBelongs, Belongs, Alike, EpochsStay
  <1> QED
    BY <1>1, <1>2, <1>3, <1>4, <1>5, <1>6, <1>7, <1>8, <1>9, <1>10, <1>11 DEF IInv

\* Who answers a current boot, or goes on in the session, is not a guest.
SignedOn(o) == Booting(o) \/ SessionCurrent(o)

LEMMA SignedOnAlone ==
  ASSUME IInv, NEW o \in 1 .. Len(ops), SignedOn(o), ops[o].at # "login"
  PROVE  /\ page.status # "unauthenticated" /\ ~epochs.leaving
         /\ \A i \in 1 .. Len(ops) : ops[i].at \notin {"login", "logout"}
  <1>1. page.status # "unauthenticated"
    BY DEF IInv, SignedOn, BootsHere, CookieNames, SessionCurrent, Shaped, PageShape
  <1>2. ~epochs.leaving
    BY DEF IInv, SignedOn, SignOutAlone, SessionCurrent, Shaped
  <1> QED
    BY <1>1, <1>2 DEF IInv, SignInAlone, SignOutAlone

\* The page cannot be loaded.
LEMMA Fails ==
  ASSUME IInv, NEW o \in 1 .. Len(ops), Ends(o), SignedOn(o), ops[o].at # "login",
         EpochsStay, page' = [page EXCEPT !.status = "error"],
         UNCHANGED <<seen, form, cookie, session, tabs>>
  PROVE  IInv'
  <1> USE DEF Page
  <1>0. /\ page' \in Page /\ page'.status = "error" /\ page'.reviewer = page.reviewer
        /\ page'.sid = page.sid /\ page'.gate = page.gate /\ page'.case = page.case
        /\ page'.held = page.held
        /\ SessionsGoOn
    BY DEF IInv, Typed, SessionsGoOn
  <1>1. /\ Typed' /\ OpsShaped'
        /\ OneAt("login")' /\ OneAt("logout")'
        /\ RotationElsewhere' <=> RotationElsewhere
        /\ \A i \in 1 .. Len(ops') :
             Before(o, i) \in (1 .. Len(ops)) \ {o} /\ Alike(i, Before(o, i))
        /\ \A j \in 1 .. Len(ops) : j # o => \E i \in 1 .. Len(ops') : Alike(i, j)
        /\ \A i \in 1 .. Len(session') : session'[i].must => session'[i].by \in Temporary
    BY <1>0, EndsShaped
  <1>2. /\ page.status # "unauthenticated" /\ ~epochs.leaving
        /\ \A i \in 1 .. Len(ops) : ops[i].at \notin {"login", "logout"}
    BY SignedOnAlone
  <1>3. Shaped'
    BY <1>0, <1>1 DEF IInv, Shaped, PageShape, EpochsStay
  <1>4. SignInAlone' /\ SignOutAlone'
    BY <1>1, <1>2 DEF SignInAlone, SignOutAlone, Alike, EpochsStay
  <1>5. BootsHere'
    <2> SUFFICES ASSUME NEW i \in 1 .. Len(ops'), Booting(i)'
                 PROVE  /\ "in" \notin tabs =>
                             CookieNames(ops[i].sid)' /\ ops'[i].sid \in {0, Len(session)}
                        /\ page.reviewer = Nobody =>
                             page.gate = "none" /\ ~Open(seen) /\ seen.gate # "voluntary"
      BY <1>0 DEF BootsHere, Open
    <2>1. PICK j \in 1 .. Len(ops) : ops'[i] = ops[j] /\ Booting(j)
      BY <1>1 DEF Alike
    <2> QED
      BY <2>1 DEF IInv, BootsHere, CookieNames
  <1>6. NamesThisSession'
    BY <1>1 DEF IInv, NamesThisSession, Alike
  <1>7. FormIsShown' /\ GateWasAsked' /\ CookieIsOfThePage' /\ OpenedHere'
    BY <1>0, <1>2
    DEF IInv, FormIsShown, GateWasAsked, Open, CookieIsOfThePage, CookieNames, OpenedHere
  <1>8. ForcedIsShut'
    BY <1>0, <1>1 DEF IInv, ForcedIsShut, Open, Changing, Alike
  <1>9. MustIsForced'
    BY <1>0 DEF IInv, MustIsForced
  <1>10. Awaited' /\ ReadyBelongs'
    BY <1>0 DEF Awaited, ReadyBelongs
  <1> QED
    BY <1>1, <1>3, <1>4, <1>5, <1>6, <1>7, <1>8, <1>9, <1>10 DEF IInv

\* The session is over: its page is cleared and its operations are forgotten.
EpochsClear ==
  /\ epochs' \in Epochs
  /\ epochs'.auth = epochs.auth + 1 /\ epochs'.session = epochs.session + 1
  /\ ~epochs'.signedIn /\ ~epochs'.leaving

Forgotten(i) == ~AuthCurrent(i)' /\ ~SessionCurrent(i)'

LEMMA ClearForgets ==
  ASSUME IInv, NEW j \in 1 .. Len(ops), NEW i, ops'[i] = ops[j],
         epochs'.auth = epochs.auth + 1, epochs'.session = epochs.session + 1
  PROVE  Forgotten(i)
  <1>0. ops[j] \in Sent
    BY DEF IInv, Typed
  <1>1. /\ ops[j].scope.auth \in Nat /\ ops[j].scope.session \in Nat
        /\ epochs.auth \in Nat /\ epochs.session \in Nat
    BY <1>0 DEF IInv, Typed, Sent, Scope, Epochs
  <1>2. ops[j].scope.auth <= epochs.auth /\ ops[j].scope.session <= epochs.session
    BY DEF IInv, Shaped, OpsShaped, OpShape
  <1> QED
    BY <1>1, <1>2 DEF Forgotten, AuthCurrent, SessionCurrent

\* The shapes last when sessions are added and the epochs go on.
LEMMA ShapeLasts ==
  ASSUME NEW op \in Sent, NEW n \in Nat, NEW m \in Nat, NEW a \in Nat, NEW b \in Nat,
         NEW c \in Nat, NEW d \in Nat, n <= m, a <= b, c <= d, OpShape(op, n, a, c)
  PROVE  OpShape(op, m, b, d)
  <1>1. op.sid \in Nat /\ op.scope.auth \in Nat /\ op.scope.session \in Nat
    BY DEF Sent, Scope
  <1> QED
    BY <1>1 DEF OpShape

LEMMA OpsLast ==
  ASSUME IInv, session' \in Seq(Known), Len(session) <= Len(session'), epochs' \in Epochs,
         epochs.auth <= epochs'.auth, epochs.session <= epochs'.session
  PROVE  \A j \in 1 .. Len(ops) :
           OpShape(ops[j], Len(session'), epochs'.auth, epochs'.session)
  <1>1. ASSUME NEW j \in 1 .. Len(ops)
        PROVE  ops[j] \in Sent /\ OpShape(ops[j], Len(session), epochs.auth, epochs.session)
    BY DEF IInv, Typed, Shaped, OpsShaped
  <1>2. /\ Len(session) \in Nat /\ Len(session') \in Nat /\ epochs.auth \in Nat
        /\ epochs'.auth \in Nat /\ epochs.session \in Nat /\ epochs'.session \in Nat
    BY DEF IInv, Typed, Epochs
  <1> QED
    BY <1>1, <1>2, ShapeLasts

LEMMA ClearedIsSafe ==
  ASSUME IInv, Typed', OpsShaped', page' = Cleared, ~epochs'.signedIn, ~epochs'.leaving,
         \A i \in 1 .. Len(ops') : ~Booting(i)' /\ ops'[i].at \notin {"login", "logout"},
         SessionsGoOn, cookie' \in {0, cookie}, UNCHANGED <<seen, form, tabs>>
  PROVE  IInv'
  <1>1. /\ page'.status = "unauthenticated" /\ page'.reviewer = Nobody
        /\ page'.gate = "none" /\ page'.case = NoCase /\ page'.held = {}
    BY DEF Cleared
  <1>2. Shaped'
    BY <1>1 DEF IInv, Shaped, PageShape, SessionsGoOn
  <1>3. SignInAlone' /\ SignOutAlone'
    BY DEF SignInAlone, SignOutAlone, OneAt
  <1>4. BootsHere' /\ NamesThisSession'
    BY DEF BootsHere, NamesThisSession, SessionCurrent
  <1>5. OpenedHere'
    BY <1>1 DEF IInv, OpenedHere, SessionsGoOn
  <1> QED
    BY <1>1, <1>2, <1>3, <1>4, <1>5
    DEF IInv, FormIsShown, GateWasAsked, ForcedIsShut, MustIsForced, Awaited, ReadyBelongs,
        CookieIsOfThePage

LEMMA ClearedIsTyped == Cleared \in Page
  BY DEF Cleared, Page, Matters

\* An answer says that the session is over.
LEMMA Clears ==
  ASSUME IInv, NEW o \in 1 .. Len(ops), Ends(o), SignedOn(o), ops[o].at # "login",
         page' = Cleared, EpochsClear,
         UNCHANGED <<seen, form, cookie, session, tabs>>
  PROVE  IInv'
  <1>1. Typed'
    BY ClearedIsTyped DEF IInv, Typed, Ends, EpochsClear
  <1>2. epochs.auth <= epochs'.auth /\ epochs.session <= epochs'.session
    BY DEF IInv, Typed, Epochs, EpochsClear
  <1>3. OpsShaped'
    <2>1. \A j \in 1 .. Len(ops) :
            OpShape(ops[j], Len(session'), epochs'.auth, epochs'.session)
      BY <1>2, OpsLast DEF IInv, Typed, EpochsClear
    <2> QED
      BY <2>1 DEF OpsShaped, Ends
  <1>4. \A i \in 1 .. Len(ops') : Forgotten(i) /\ ops'[i].at \notin {"login", "logout"}
    BY ClearForgets, SignedOnAlone DEF Ends, EpochsClear
  <1>5. SessionsGoOn
    BY DEF IInv, Typed, SessionsGoOn
  <1> QED
    BY <1>1, <1>3, <1>4, <1>5, ClearedIsSafe DEF EpochsClear, Forgotten, Booting

\* The time is over for which the session was opened.
LEMMA RunsOut ==
  ASSUME IInv, epochs.signedIn, page' = Cleared, EpochsClear,
         UNCHANGED <<ops, seen, form, cookie, session, tabs>>
  PROVE  IInv'
  <1>1. Typed'
    BY ClearedIsTyped DEF IInv, Typed, EpochsClear
  <1>2. epochs.auth <= epochs'.auth /\ epochs.session <= epochs'.session
    BY DEF IInv, Typed, Epochs, EpochsClear
  <1>3. OpsShaped'
    BY <1>1, <1>2, OpsLast DEF OpsShaped, Typed, IInv
  <1>4. \A i \in 1 .. Len(ops) : Forgotten(i) /\ ops[i].at \notin {"login", "logout"}
    BY ClearForgets DEF EpochsClear, IInv, SignInAlone, SignOutAlone, Shaped, PageShape
  <1>5. SessionsGoOn
    BY DEF IInv, Typed, SessionsGoOn
  <1> QED
    BY <1>1, <1>3, <1>4, <1>5, ClearedIsSafe DEF EpochsClear, Forgotten, Booting

-----------------------------------------------------------------------------
(***************************************************************************)
(* A session is known.                                                     *)
(***************************************************************************)

\* The scopes an operation can have.
LEMMA SessionScopeIs ==
  ASSUME epochs' \in Epochs
  PROVE  /\ SessionScope \in Scope
         /\ SessionScope.auth = 0 /\ SessionScope.session = epochs'.session
  BY DEF SessionScope, NoScope, Scope, Epochs, Matters

LEMMA CaseScopeIs ==
  ASSUME epochs' \in Epochs, NEW c \in Matters
  PROVE  /\ CaseScope(c) \in Scope
         /\ CaseScope(c).auth = 0 /\ CaseScope(c).session = epochs'.session
         /\ CaseScope(c).epoch = epochs'.case /\ CaseScope(c).case = c
  BY SessionScopeIs DEF CaseScope, SessionScope, NoScope, Scope, Epochs, Matters

LEMMA NextSessionIs ==
  ASSUME NEW e \in Epochs
  PROVE  /\ NextSession(e) \in Epochs
         /\ NextSession(e).auth = e.auth /\ NextSession(e).session = e.session + 1
         /\ NextSession(e).signedIn = e.signedIn /\ NextSession(e).leaving = e.leaving
         /\ NextSession(e).asked = NoCase
  <1>1. NoCase \in Matters
    BY DEF Matters
  <1>2. e.session + 1 \in Nat /\ e.case + 1 \in Nat
    BY DEF Epochs
  <1>3. NextSession(e) \in Epochs
    BY <1>1, <1>2 DEF NextSession, Epochs
  <1> QED
    BY <1>3 DEF NextSession, Epochs

\* An operation that goes on is in shape if it was and its new scope is the page's.
LEMMA GoesOnShaped ==
  ASSUME IInv, NEW o \in 1 .. Len(ops), NEW at \in Labels, NEW scope \in Scope,
         GoesOn(o, at, scope), at \notin {"login", "session", "password"},
         session' \in Seq(Known), Len(session) <= Len(session'), epochs' \in Epochs,
         epochs.auth <= epochs'.auth, epochs.session <= epochs'.session,
         cookie' \in 0 .. Len(session'),
         scope.auth <= epochs'.auth, scope.session <= epochs'.session
  PROVE  OpsShaped'
  <1>1. OpShape(ops'[o], Len(session'), epochs'.auth, epochs'.session)
    <2>1. /\ ops'[o].at = at /\ ops'[o].scope = scope
          /\ ops'[o].sid = cookie'
          /\ ops'[o].good => cookie' # 0
      BY DEF GoesOn, SentAs
    <2>2. cookie' <= Len(session')
      OBVIOUS
    <2> QED
      BY <2>1, <2>2 DEF OpShape
  <1>2. \A j \in 1 .. Len(ops) : OpShape(ops[j], Len(session'), epochs'.auth, epochs'.session)
    BY OpsLast
  <1> QED
    BY <1>1, <1>2 DEF OpsShaped, GoesOn

LEMMA Establishes ==
  ASSUME IInv, NEW o \in 1 .. Len(ops), ops[o].at \in {"session", "login"}, AuthCurrent(o),
         session' \in Seq(Known), Len(session) <= Len(session'),
         \A i \in 1 .. Len(session') : session'[i].must => session'[i].by \in Temporary,
         NEW sid \in 1 .. Len(session'), Establish(o, sid, session'),
         cookie' \in 0 .. Len(session'), sid = Len(session') \/ "in" \in tabs,
         cookie' = sid \/ "in" \in tabs \/ ("out" \in tabs /\ cookie' = 0),
         ops[o].at = "session" => cookie' = cookie /\ Len(session') = Len(session),
         session'[sid].must /\ ~RotationElsewhere' =>
           ~Open(seen) /\ ~(Changing(seen) /\ seen.gate = "voluntary"),
         UNCHANGED <<seen, form, tabs>>
  PROVE  IInv'
  <1> DEFINE must == session'[sid].must
  <1>1. /\ epochs' \in Epochs /\ epochs'.auth = epochs.auth
        /\ epochs'.session = epochs.session + 1 /\ epochs'.signedIn
        /\ epochs'.leaving = epochs.leaving
        /\ epochs.auth <= epochs'.auth /\ epochs.session <= epochs'.session
    <2>1. epochs' = [NextSession(epochs) EXCEPT !.signedIn = TRUE]
      BY DEF Establish, BeginSession
    <2>2. epochs \in Epochs /\ epochs.auth \in Nat /\ epochs.session \in Nat
      BY DEF IInv, Typed, Epochs
    <2> DEFINE next == NextSession(epochs)
    <2>3. /\ next \in Epochs /\ next.auth = epochs.auth
          /\ next.session = epochs.session + 1 /\ next.leaving = epochs.leaving
      BY <2>2, NextSessionIs
    <2> HIDE DEF next
    <2>4. /\ epochs' \in Epochs /\ epochs'.signedIn
          /\ epochs'.auth = next.auth /\ epochs'.session = next.session
          /\ epochs'.leaving = next.leaving
      BY <2>1, <2>3 DEF Epochs, next
    <2> QED
      BY <2>2, <2>3, <2>4
  <1>2. must \in BOOLEAN /\ session'[sid].by \in Reviewers
    <2>1. session'[sid] \in Known
      OBVIOUS
    <2> QED
      BY <2>1 DEF Known
  <1>3. /\ page' \in Page
        /\ page'.status = IF must THEN "ready"
                          ELSE IF ops[o].kind = "login" THEN "loading" ELSE page.status
        /\ page'.reviewer \in Reviewers /\ page'.reviewer # Nobody
        /\ page'.sid = sid
        /\ page'.gate = IF must THEN "forced" ELSE "none"
    <2>1. page' = [page EXCEPT
            !.status = IF must THEN "ready"
                       ELSE IF ops[o].kind = "login" THEN "loading" ELSE page.status,
            !.reviewer = session'[sid].by, !.sid = sid,
            !.gate = IF must THEN "forced" ELSE "none"]
      BY DEF Establish
    <2>2. page \in Page /\ sid \in Nat
      BY DEF IInv, Typed
    <2> HIDE DEF must
    <2>3. page' \in Page
      BY <1>2, <2>1, <2>2 DEF Page
    <2> QED
      BY <1>2, <2>1, <2>2, <2>3, BrowserAssumption DEF Page
  <1>4. /\ must => Ends(o)
        /\ ~must => GoesOn(o, "cases", SessionScope)
    BY <1>1, EndEnds, SendGoesOn, SessionScopeIs DEF Establish, Labels, IInv
  <1>5. Typed'
    <2>1. ops' \in Seq(Sent)
      BY <1>2, <1>4 DEF Ends, GoesOn
    <2> QED
      BY <1>1, <1>3, <2>1 DEF Typed, IInv
  <1>6. OpsShaped'
    <2>1. CASE must
      BY <1>1, <1>4, <2>1, OpsLast DEF Ends, OpsShaped
    <2>2. CASE ~must
      <3>1. 0 <= epochs'.auth /\ epochs'.session <= epochs'.session
        BY <1>1 DEF Epochs
      <3> QED
        BY <1>1, <1>4, <2>2, <3>1, SessionScopeIs, GoesOnShaped DEF Labels
    <2> QED
      BY <1>2, <2>1, <2>2
  <1>7. /\ ~epochs.leaving
        /\ \A i \in 1 .. Len(ops) : i # o => ops[i].at \notin {"login", "logout"}
        /\ ops[o].at = "session" => page.status # "unauthenticated"
        /\ ops[o].at = "login" =>
             page.status = "unauthenticated" /\ form /\ \A p \in 1 .. Len(ops) : ~Booting(p)
    <2>1. CASE ops[o].at = "session"
      <3>1. SignedOn(o) /\ ops[o].at # "login"
        BY <2>1 DEF SignedOn, Booting
      <3> QED
        BY <2>1, <3>1, SignedOnAlone
    <2>2. CASE ops[o].at = "login"
      BY <2>2 DEF IInv, SignInAlone, OneAt, SignOutAlone, BootsHere
    <2> QED
      BY <2>1, <2>2
  <1>8. page'.status # "unauthenticated"
    BY <1>2, <1>3, <1>7 DEF IInv, Shaped, OpsShaped, OpShape
  <1>9. \A i \in 1 .. Len(ops') : ops'[i].at \notin {"login", "logout"}
    BY <1>2, <1>4, <1>7 DEF Ends, GoesOn, SentAs
  <1>10. \A i \in 1 .. Len(ops'), j \in 1 .. Len(ops) :
           ops'[i] = ops[j] => ~SessionCurrent(i)' /\ (Booting(i)' <=> Booting(j))
    <2> SUFFICES ASSUME NEW i \in 1 .. Len(ops'), NEW j \in 1 .. Len(ops), ops'[i] = ops[j]
                 PROVE  ~SessionCurrent(i)' /\ (Booting(i)' <=> Booting(j))
      OBVIOUS
    <2>1. ops[j].scope.session <= epochs.session
      BY DEF IInv, Shaped, OpsShaped, OpShape
    <2>2. ops[j] \in Sent
      BY DEF IInv, Typed
    <2>3. ops[j].scope.session \in Nat /\ epochs.session \in Nat
      BY <2>2 DEF Sent, Scope, IInv, Typed, Epochs
    <2> QED
      BY <1>1, <2>1, <2>3 DEF SessionCurrent, Booting, AuthCurrent
  <1>11. Shaped'
    BY <1>1, <1>3, <1>6, <1>8 DEF IInv, Typed, Shaped, PageShape
  <1>12. SignInAlone' /\ SignOutAlone'
    BY <1>1, <1>7, <1>9 DEF SignInAlone, SignOutAlone, OneAt
  <1>13. BootsHere'
    <2> SUFFICES ASSUME NEW i \in 1 .. Len(ops'), Booting(i)', "in" \notin tabs
                 PROVE  CookieNames(ops[i].sid)' /\ ops'[i].sid \in {0, Len(session')}
      BY <1>3, <1>8 DEF BootsHere, CookieNames
    <2>1. PICK j \in 1 .. Len(ops) : ops'[i] = ops[j] /\ Booting(j)
      <3>1. CASE must
        BY <1>4, <1>10, <3>1 DEF Ends
      <3>2. CASE ~must /\ i # o
        BY <1>4, <1>10, <3>2 DEF GoesOn
      <3>3. CASE ~must /\ i = o
        BY <1>4, <3>3 DEF GoesOn, SentAs, Booting
      <3> QED
        BY <1>2, <3>1, <3>2, <3>3
    <2> QED
      BY <1>7, <2>1 DEF IInv, BootsHere, CookieNames
  <1>14. \A i \in 1 .. Len(ops') : ops'[i].at \in {"check", "password"} => ~SessionCurrent(i)'
    <2> SUFFICES ASSUME NEW i \in 1 .. Len(ops'), ops'[i].at \in {"check", "password"}
                 PROVE  ~SessionCurrent(i)'
      OBVIOUS
    <2>1. CASE must
      BY <1>4, <1>10, <2>1 DEF Ends
    <2>2. CASE ~must
      BY <1>4, <1>10, <2>2 DEF GoesOn, SentAs
    <2> QED
      BY <1>2, <2>1, <2>2
  <1>15. NamesThisSession'
    BY <1>14 DEF NamesThisSession
  <1>16. FormIsShown' /\ GateWasAsked' /\ CookieIsOfThePage' /\ OpenedHere'
    BY <1>2, <1>3, <1>7
    DEF IInv, FormIsShown, GateWasAsked, CookieIsOfThePage, CookieNames, OpenedHere
  <1>17. ForcedIsShut'
    BY <1>2, <1>3, <1>14 DEF ForcedIsShut, Open, Changing
  <1>18. MustIsForced'
    BY <1>3 DEF MustIsForced
  <1>19. ~must => Loads(o)' /\ o \in 1 .. Len(ops')
    <2> SUFFICES ASSUME ~must
                 PROVE  Loads(o)' /\ o \in 1 .. Len(ops')
      OBVIOUS
    <2>1. ops[o].kind \in {"boot", "login"}
      BY DEF IInv, Shaped, OpsShaped, OpShape
    <2> QED
      BY <1>1, <1>4, <2>1, SessionScopeIs DEF GoesOn, SentAs, Loads, SessionCurrent
  <1>20. Awaited' /\ ReadyBelongs'
    BY <1>2, <1>3, <1>19 DEF Awaited, ReadyBelongs
  <1> QED
    BY <1>5, <1>11, <1>12, <1>13, <1>15, <1>16, <1>17, <1>18, <1>20 DEF IInv

-----------------------------------------------------------------------------
(***************************************************************************)
(* Answers within a session.                                               *)
(***************************************************************************)

\* The same session goes on; another matter may be asked for.
EpochsGoOn ==
  /\ epochs' \in Epochs
  /\ epochs'.auth = epochs.auth /\ epochs'.session = epochs.session
  /\ epochs'.signedIn = epochs.signedIn /\ epochs'.leaving = epochs.leaving

\* The operation is over, or goes on to load.
GoesToLoad(o) ==
  \E at \in {"cases", "case", "refresh"}, scope \in Scope :
    GoesOn(o, at, scope) /\ scope.auth <= epochs.auth /\ scope.session <= epochs.session

OverOrLoading(o) == Ends(o) \/ GoesToLoad(o)

Loading == {"cases", "case", "refresh"}

\* Operations that do not load are as they were.
AsBefore(i, j) ==
  /\ ops'[i] = ops[j]
  /\ Booting(i)' <=> Booting(j)
  /\ SessionCurrent(i)' <=> SessionCurrent(j)

LEMMA OthersAsBefore ==
  ASSUME NEW o \in 1 .. Len(ops), OverOrLoading(o), EpochsGoOn,
         NEW i \in 1 .. Len(ops'), ops'[i].at \notin Loading
  PROVE  \E j \in 1 .. Len(ops) : j # o /\ AsBefore(i, j)
  <1>1. PICK j \in 1 .. Len(ops) : j # o /\ ops'[i] = ops[j]
    <2>1. CASE Ends(o)
      BY <2>1 DEF Ends
    <2>2. CASE GoesToLoad(o)
      BY <2>2 DEF GoesToLoad, GoesOn, SentAs, Loading
    <2> QED
      BY <2>1, <2>2 DEF OverOrLoading
  <1> QED
    BY <1>1 DEF AsBefore, EpochsGoOn, Booting, AuthCurrent, SessionCurrent

LEMMA OpsStayShaped ==
  ASSUME IInv, NEW o \in 1 .. Len(ops), OverOrLoading(o), EpochsGoOn,
         session' \in Seq(Known), Len(session') = Len(session), UNCHANGED cookie
  PROVE  ops' \in Seq(Sent) /\ OpsShaped'
  <1>1. /\ epochs.auth <= epochs'.auth /\ epochs.session <= epochs'.session
        /\ Len(session) <= Len(session') /\ cookie' \in 0 .. Len(session')
    BY DEF IInv, Typed, Epochs, EpochsGoOn
  <1>2. CASE Ends(o)
    BY <1>1, <1>2, OpsLast DEF Ends, OpsShaped, EpochsGoOn
  <1>3. CASE GoesToLoad(o)
    <2>1. PICK at \in {"cases", "case", "refresh"}, scope \in Scope :
            GoesOn(o, at, scope) /\ scope.auth <= epochs.auth /\ scope.session <= epochs.session
      BY <1>3 DEF GoesToLoad
    <2>2. at \in Labels /\ at \notin {"login", "session", "password"}
      BY DEF Labels
    <2>3. scope.auth <= epochs'.auth /\ scope.session <= epochs'.session /\ epochs' \in Epochs
      BY <2>1 DEF EpochsGoOn
    <2>4. OpsShaped'
      BY <1>1, <2>1, <2>2, <2>3, GoesOnShaped
    <2> QED
      BY <2>1, <2>4 DEF GoesOn
  <1> QED
    BY <1>2, <1>3 DEF OverOrLoading

\* The form that asks for a new password stays shut.
LEMMA StaysShut ==
  ASSUME IInv, NEW o \in 1 .. Len(ops), OverOrLoading(o), EpochsGoOn, SessionsGoOn,
         UNCHANGED <<seen, tabs>>,
         page'.gate = "forced" /\ ~RotationElsewhere => page.gate = "forced"
  PROVE  ForcedIsShut'
  <1>1. RotationElsewhere' <=> RotationElsewhere
    BY DEF RotationElsewhere, SessionsGoOn
  <1>2. ASSUME page.gate = "forced", ~RotationElsewhere,
               NEW i \in 1 .. Len(ops'), ops'[i].at = "password", SessionCurrent(i)'
        PROVE  ops'[i].forced
    <2>1. PICK j \in 1 .. Len(ops) : AsBefore(i, j)
      BY <1>2, OthersAsBefore DEF Loading
    <2> QED
      BY <1>2, <2>1 DEF IInv, ForcedIsShut, AsBefore
  <1> QED
    BY <1>1, <1>2 DEF IInv, ForcedIsShut, Open, Changing

\* An answer changes the page, in the session it was asked in.
LEMMA StaysSignedOn ==
  ASSUME IInv, NEW o \in 1 .. Len(ops), SessionCurrent(o), ops[o].at # "login",
         OverOrLoading(o), EpochsGoOn, SessionsGoOn,
         page' \in Page, page'.status # "unauthenticated", page'.reviewer = page.reviewer,
         page'.sid \in 1 .. Len(session),
         UNCHANGED <<seen, form, cookie, tabs>>,
         GateWasAsked', ForcedIsShut', MustIsForced', CookieIsOfThePage',
         OpenedHere', Awaited', ReadyBelongs'
  PROVE  IInv'
  <1>1. /\ page.status # "unauthenticated" /\ ~epochs.leaving
        /\ \A i \in 1 .. Len(ops) : ops[i].at \notin {"login", "logout"}
    BY SignedOnAlone DEF SignedOn
  <1>2. page.reviewer # Nobody
    BY DEF IInv, Shaped, SessionCurrent
  <1>3. ops' \in Seq(Sent) /\ OpsShaped'
    BY OpsStayShaped DEF SessionsGoOn
  <1>4. Typed'
    BY <1>3 DEF IInv, Typed, EpochsGoOn, SessionsGoOn
  <1>5. \A i \in 1 .. Len(ops') : ops'[i].at \notin Loading =>
          \E j \in 1 .. Len(ops) : j # o /\ AsBefore(i, j)
    BY OthersAsBefore
  <1>6. Shaped'
    BY <1>2, <1>3 DEF IInv, Shaped, PageShape, EpochsGoOn, SessionsGoOn
  <1>7. \A i \in 1 .. Len(ops') : ops'[i].at \notin {"login", "logout"}
    BY <1>1, <1>5 DEF Loading, AsBefore
  <1>8. SignInAlone' /\ SignOutAlone'
    BY <1>1, <1>7 DEF SignInAlone, SignOutAlone, OneAt, EpochsGoOn
  <1>9. BootsHere'
    <2> SUFFICES ASSUME NEW i \in 1 .. Len(ops'), Booting(i)', "in" \notin tabs
                 PROVE  CookieNames(ops[i].sid)' /\ ops'[i].sid \in {0, Len(session')}
      BY <1>2 DEF BootsHere, CookieNames
    <2>1. ops'[i].at \notin Loading
      BY DEF Booting, Loading
    <2>2. PICK j \in 1 .. Len(ops) : AsBefore(i, j)
      BY <1>5, <2>1
    <2> QED
      BY <2>2 DEF IInv, BootsHere, CookieNames, AsBefore, SessionsGoOn
  <1>10. NamesThisSession'
    <2> SUFFICES ASSUME NEW i \in 1 .. Len(ops'), ops'[i].at \in {"check", "password"},
                        SessionCurrent(i)', "in" \notin tabs
                 PROVE  ops'[i].sid \in {0, Len(session')}
      BY DEF NamesThisSession
    <2>1. PICK j \in 1 .. Len(ops) : AsBefore(i, j)
      BY <1>5 DEF Loading
    <2> QED
      BY <2>1 DEF IInv, NamesThisSession, AsBefore, SessionsGoOn
  <1>11. FormIsShown'
    BY <1>1 DEF IInv, FormIsShown
  <1> QED
    BY <1>4, <1>6, <1>8, <1>9, <1>10, <1>11 DEF IInv

LEMMA TurnsPage ==
  ASSUME IInv, NEW o \in 1 .. Len(ops), SessionCurrent(o), ops[o].at # "login",
         OverOrLoading(o), EpochsGoOn,
         page' \in Page, page'.status # "unauthenticated", page'.reviewer = page.reviewer,
         page'.sid = page.sid, page'.gate = page.gate,
         UNCHANGED <<seen, form, cookie, session, tabs>>,
         Awaited', ReadyBelongs'
  PROVE  IInv'
  <1>1. SessionsGoOn
    BY DEF IInv, Typed, SessionsGoOn
  <1>2. page'.sid \in 1 .. Len(session)
    BY DEF IInv, Shaped, PageShape, SessionCurrent
  <1>3. GateWasAsked' /\ MustIsForced' /\ CookieIsOfThePage' /\ OpenedHere'
    BY DEF IInv, GateWasAsked, MustIsForced, CookieIsOfThePage, CookieNames, OpenedHere, Open
  <1>4. ForcedIsShut'
    BY <1>1, StaysShut
  <1> QED
    BY <1>1, <1>2, <1>3, <1>4, StaysSignedOn

\* A check or a change of password was sent with the session of the page.
LEMMA AskedHere ==
  ASSUME IInv, NEW o \in 1 .. Len(ops), ops[o].at \in {"check", "password"},
         SessionCurrent(o), "in" \notin tabs
  PROVE  page.reviewer # Nobody /\ ops[o].sid \in {0, page.sid}
  BY DEF IInv, NamesThisSession, OpenedHere, Shaped, SessionCurrent

\* A session is not what it was, but still its reviewer's.
LEMMA SessionGoesOn ==
  ASSUME session \in Seq(Known), NEW sid \in 1 .. Len(session), NEW new \in Known,
         new.by = session[sid].by, new.must => session[sid].must,
         session' = [session EXCEPT ![sid] = new]
  PROVE  SessionsGoOn /\ session'[sid] = new
  <1>1. session' \in Seq(Known) /\ Len(session') = Len(session)
    OBVIOUS
  <1>2. \A i \in 1 .. Len(session) : session'[i] = IF i = sid THEN new ELSE session[i]
    OBVIOUS
  <1> QED
    BY <1>1, <1>2 DEF SessionsGoOn

LEMMA PasswordIsNew ==
  ASSUME session \in Seq(Known), NEW sid \in 1 .. Len(session),
         session' = [session EXCEPT ![sid].must = FALSE]
  PROVE  SessionsGoOn /\ ~session'[sid].must
  <1> DEFINE new == [session[sid] EXCEPT !.must = FALSE]
  <1>1. session[sid] \in Known
    OBVIOUS
  <1>2. new \in Known /\ new.by = session[sid].by /\ ~new.must
    BY <1>1 DEF Known
  <1>3. session' = [session EXCEPT ![sid] = new]
    OBVIOUS
  <1> HIDE DEF new
  <1> QED
    BY <1>2, <1>3, SessionGoesOn

\* The password is the one asked for.
LEMMA TakesPassword ==
  ASSUME IInv, NEW o \in 1 .. Len(ops), ops[o].at = "password", SessionCurrent(o), ops[o].good,
         session' = [session EXCEPT ![ops[o].sid].must = FALSE], UNCHANGED epochs,
         page' = [page EXCEPT !.gate = "none",
                              !.status = IF ops[o].forced THEN "loading" ELSE @],
         IF ops[o].forced THEN GoesOn(o, "cases", ops[o].scope) ELSE Ends(o),
         UNCHANGED <<seen, form, cookie, tabs>>
  PROVE  IInv'
  <1> DEFINE sid == ops[o].sid
  <1>0. /\ ops[o] \in Sent /\ sid \in 1 .. Len(session) /\ ops[o].scope \in Scope
        /\ ops[o].scope.auth <= epochs.auth /\ ops[o].scope.session <= epochs.session
        /\ ops[o].kind = "password" /\ session \in Seq(Known)
    <2>1. ops[o] \in Sent
      BY DEF IInv, Typed
    <2>2. OpShape(ops[o], Len(session), epochs.auth, epochs.session)
      BY DEF IInv, Shaped, OpsShaped
    <2> QED
      BY <2>1, <2>2 DEF OpShape, Sent, IInv, Typed
  <1>1. SessionsGoOn /\ ~session'[sid].must
    BY <1>0, PasswordIsNew
  <1>2. /\ page.reviewer # Nobody /\ page.status # "unauthenticated"
        /\ page.sid \in 1 .. Len(session)
    BY DEF IInv, Shaped, PageShape, SessionCurrent
  <1>3. /\ page' \in Page /\ page'.gate = "none" /\ page'.reviewer = page.reviewer
        /\ page'.sid = page.sid /\ page'.case = page.case /\ page'.held = page.held
        /\ page'.status = IF ops[o].forced THEN "loading" ELSE page.status
    BY DEF IInv, Typed, Page
  <1>4. EpochsGoOn /\ EpochsStay
    BY DEF IInv, Typed, EpochsGoOn, EpochsStay
  <1>5. ops[o].forced \in BOOLEAN
    BY <1>0 DEF Sent
  <1>6. OverOrLoading(o)
    BY <1>0, <1>5 DEF OverOrLoading, GoesToLoad
  <1>7. GateWasAsked' /\ ForcedIsShut' /\ CookieIsOfThePage' /\ OpenedHere'
    BY <1>1, <1>3
    DEF GateWasAsked, ForcedIsShut, IInv, CookieIsOfThePage, CookieNames, OpenedHere, SessionsGoOn
  <1>8. MustIsForced'
    BY <1>0, <1>1, <1>3, AskedHere DEF MustIsForced
  <1>9. Awaited' /\ ReadyBelongs'
    <2>1. CASE ops[o].forced
      <3>1. o \in 1 .. Len(ops') /\ ops'[o].at = "cases" /\ ops'[o].kind = ops[o].kind
            /\ ops'[o].scope = ops[o].scope
        BY <2>1 DEF GoesOn, SentAs
      <3>2. Loads(o)'
        BY <1>0, <3>1 DEF Loads, SessionCurrent
      <3> QED
        BY <1>3, <2>1, <3>1, <3>2 DEF Awaited, ReadyBelongs
    <2>2. CASE ~ops[o].forced
      <3>1. \A j \in 1 .. Len(ops) : j # o => \E i \in 1 .. Len(ops') : Alike(i, j)
        BY <1>4, <2>2, EndsAlike
      <3>2. ~Loads(o) /\ ~Booting(o)
        BY DEF Loads, Booting
      <3>3. RotationElsewhere' <=> RotationElsewhere
        BY <1>1 DEF RotationElsewhere, SessionsGoOn
      <3>4. page.gate = "forced" => RotationElsewhere
        BY <2>2 DEF IInv, ForcedIsShut
      <3>5. Awaited'
        BY <1>3, <2>2, <3>1, <3>2 DEF IInv, Awaited, Alike
      <3>6. ReadyBelongs'
        BY <1>3, <2>2, <3>1, <3>2, <3>3, <3>4 DEF IInv, ReadyBelongs, Belongs, Alike
      <3> QED
        BY <3>5, <3>6
    <2> QED
      BY <1>5, <2>1, <2>2
  <1> QED
    BY <1>1, <1>2, <1>3, <1>4, <1>5, <1>6, <1>7, <1>8, <1>9, StaysSignedOn

\* The session has been looked at again, and goes on.
LEMMA Rechecks ==
  ASSUME IInv, NEW o \in 1 .. Len(ops), ops[o].at = "check", SessionCurrent(o),
         Ends(o), EpochsStay, ops[o].sid \in 1 .. Len(session),
         page' = [page EXCEPT
           !.sid = ops[o].sid,
           !.status = IF session[ops[o].sid].must THEN "ready" ELSE @,
           !.gate = IF session[ops[o].sid].must THEN "forced" ELSE @],
         UNCHANGED <<seen, form, cookie, session, tabs>>
  PROVE  IInv'
  <1> DEFINE sid == ops[o].sid
             must == session[sid].must
  <1>1. /\ page.reviewer # Nobody /\ page.status # "unauthenticated"
        /\ session[sid] \in Known
    BY DEF IInv, Shaped, PageShape, SessionCurrent, Typed
  <1>2. must \in BOOLEAN /\ (must => session[sid].by \in Temporary)
    BY <1>1 DEF Known, IInv, Shaped
  <1>3. /\ page' \in Page /\ page'.reviewer = page.reviewer /\ page'.sid = sid
        /\ page'.case = page.case /\ page'.held = page.held
        /\ page'.status = IF must THEN "ready" ELSE page.status
        /\ page'.gate = IF must THEN "forced" ELSE page.gate
    <2>1. page \in Page /\ sid \in Nat
      BY DEF IInv, Typed
    <2>2. page' = [page EXCEPT !.sid = sid, !.status = IF must THEN "ready" ELSE page.status,
                               !.gate = IF must THEN "forced" ELSE page.gate]
      OBVIOUS
    <2> HIDE DEF sid, must
    <2> QED
      BY <1>2, <2>1, <2>2 DEF Page
  <1>4. EpochsGoOn /\ SessionsGoOn /\ OverOrLoading(o)
    BY DEF IInv, Typed, EpochsGoOn, EpochsStay, SessionsGoOn, OverOrLoading
  <1>5. "in" \notin tabs => page.sid = sid
    BY AskedHere DEF IInv, Typed
  <1>6. must /\ ~RotationElsewhere => page.gate = "forced"
    BY <1>1, <1>2, <1>5 DEF IInv, MustIsForced, RotationElsewhere
  <1>7. ForcedIsShut'
    BY <1>2, <1>3, <1>4, <1>6, StaysShut
  <1>8. GateWasAsked' /\ MustIsForced' /\ CookieIsOfThePage' /\ OpenedHere'
    BY <1>1, <1>2, <1>3, <1>5
    DEF IInv, GateWasAsked, MustIsForced, CookieIsOfThePage, CookieNames, OpenedHere, Open
  <1>9. Awaited' /\ ReadyBelongs'
    <2>1. \A j \in 1 .. Len(ops) : j # o => \E i \in 1 .. Len(ops') : Alike(i, j)
      BY EndsAlike
    <2>2. ~Loads(o) /\ ~Booting(o)
      BY DEF Loads, Booting
    <2>3. RotationElsewhere' <=> RotationElsewhere
      BY DEF RotationElsewhere
    <2>4. Awaited'
      BY <1>2, <1>3, <2>1, <2>2 DEF IInv, Awaited, Alike
    <2>5. ReadyBelongs'
      BY <1>2, <1>3, <2>1, <2>2, <2>3 DEF IInv, ReadyBelongs, Belongs, Alike, EpochsStay
    <2> QED
      BY <2>4, <2>5
  <1> HIDE DEF must
  <1> QED
    BY <1>1, <1>2, <1>3, <1>4, <1>7, <1>8, <1>9, StaysSignedOn

-----------------------------------------------------------------------------
(***************************************************************************)
(* Signing out.                                                            *)
(***************************************************************************)
LEMMA SignsOut ==
  ASSUME IInv, NEW o \in 1 .. Len(ops), ops[o].at = "logout", Ends(o), SessionsGoOn,
         cookie' \in {0, cookie}, epochs' = [epochs EXCEPT !.leaving = FALSE],
         page' = IF epochs.signedIn THEN page ELSE Cleared,
         UNCHANGED <<seen, form, tabs>>
  PROVE  IInv'
  <1>1. /\ epochs.leaving /\ ~epochs.signedIn /\ page.reviewer = Nobody
        /\ page.status = "loading" /\ \A i \in 1 .. Len(ops) : ~Booting(i)
        /\ \A i \in 1 .. Len(ops) : ops[i].at # "login"
    BY DEF IInv, SignOutAlone, Shaped, SignInAlone
  <1>2. /\ epochs' \in Epochs /\ ~epochs'.signedIn /\ ~epochs'.leaving
        /\ epochs'.auth = epochs.auth /\ epochs'.session = epochs.session
    BY <1>1 DEF IInv, Typed, Epochs
  <1>3. page' = Cleared
    BY <1>1
  <1>4. cookie' \in 0 .. Len(session')
    BY DEF IInv, Typed, SessionsGoOn
  <1>5. Typed'
    BY <1>2, <1>3, <1>4, ClearedIsTyped DEF IInv, Typed, Ends, SessionsGoOn
  <1>6. OpsShaped'
    BY <1>2 DEF IInv, Shaped, OpsShaped, Ends, SessionsGoOn
  <1>7. \A i \in 1 .. Len(ops') : ~Booting(i)' /\ ops'[i].at \notin {"login", "logout"}
    <2> SUFFICES ASSUME NEW i \in 1 .. Len(ops')
                 PROVE  ~Booting(i)' /\ ops'[i].at \notin {"login", "logout"}
      OBVIOUS
    <2>1. /\ Before(o, i) \in (1 .. Len(ops)) \ {o} /\ ops'[i] = ops[Before(o, i)]
      BY DEF Ends
    <2>2. ops'[i].at # "logout"
      BY <2>1 DEF IInv, SignOutAlone, OneAt
    <2> QED
      BY <1>1, <1>2, <2>1, <2>2 DEF Booting, AuthCurrent
  <1> QED
    BY <1>2, <1>3, <1>5, <1>6, <1>7, ClearedIsSafe

-----------------------------------------------------------------------------
(***************************************************************************)
(* What the reviewer starts.                                               *)
(***************************************************************************)
LEMMA StartsShaped ==
  ASSUME IInv, NEW op \in Sent, NEW at \in Labels, Starts(op, at),
         at = "login" => op.kind = "login", at = "session" => op.kind = "boot",
         at = "password" => op.kind = "password",
         op.scope.auth <= epochs'.auth, op.scope.session <= epochs'.session,
         epochs' \in Epochs, epochs.auth <= epochs'.auth, epochs.session <= epochs'.session,
         UNCHANGED <<session, cookie>>
  PROVE  OpsShaped'
  <1>1. \A j \in 1 .. Len(ops) : OpShape(ops[j], Len(session'), epochs'.auth, epochs'.session)
    BY OpsLast DEF IInv, Typed
  <1>2. OpShape(ops'[Len(ops) + 1], Len(session'), epochs'.auth, epochs'.session)
    <2>1. cookie <= Len(session)
      BY DEF IInv, Typed
    <2> QED
      BY <2>1 DEF Starts, SentAs, OpShape
  <1>3. Len(ops) \in Nat
    BY DEF IInv, Typed
  <1> QED
    BY <1>1, <1>2, <1>3 DEF Starts, OpsShaped

\* Where the operations are after one more was started.
LEMMA StartsWhere ==
  ASSUME Typed, NEW op, NEW at, Starts(op, at)
  PROVE  /\ \A i \in 1 .. Len(ops') : i \in 1 .. Len(ops) \/ i = Len(ops) + 1
         /\ \A i \in 1 .. Len(ops) : i \in 1 .. Len(ops') /\ i # Len(ops) + 1
         /\ Len(ops) + 1 \in 1 .. Len(ops')
  BY DEF Typed, Starts

LEMMA AnotherAuth ==
  ASSUME epochs \in Epochs, epochs' = [epochs EXCEPT !.auth = @ + 1]
  PROVE  /\ epochs' \in Epochs /\ epochs'.auth = epochs.auth + 1
         /\ epochs'.session = epochs.session /\ epochs'.signedIn = epochs.signedIn
         /\ epochs'.case = epochs.case /\ epochs'.asked = epochs.asked
         /\ epochs'.leaving = epochs.leaving
         /\ epochs.auth \in Nat /\ epochs.auth <= epochs'.auth
         /\ epochs.session <= epochs'.session
  <1>1. epochs.auth \in Nat /\ epochs.auth + 1 \in Nat /\ epochs.session \in Nat
    BY DEF Epochs
  <1>2. epochs' \in Epochs
    BY <1>1 DEF Epochs
  <1>3. /\ epochs'.auth = epochs.auth + 1
        /\ epochs'.session = epochs.session /\ epochs'.signedIn = epochs.signedIn
        /\ epochs'.case = epochs.case /\ epochs'.asked = epochs.asked
        /\ epochs'.leaving = epochs.leaving
    BY DEF Epochs
  <1> QED
    BY <1>1, <1>2, <1>3

\* A boot or a sign-in before is given up.
LEMMA ClearsBoots ==
  ASSUME IInv, NEW i \in 1 .. Len(ops), ops'[i] = ops[i], epochs'.auth = epochs.auth + 1
  PROVE  ~Booting(i)'
  <1>1. ops[i] \in Sent /\ ops[i].scope.auth <= epochs.auth /\ epochs.auth \in Nat
    BY DEF IInv, Typed, Shaped, OpsShaped, OpShape, Epochs
  <1> QED
    BY <1>1 DEF Booting, AuthCurrent, Sent, Scope

\* The reviewer tries again.
LEMMA Retries ==
  ASSUME IInv, Retry
  PROVE  IInv'
  <1> PICK n \in Nat : n = Len(ops) + 1
    BY DEF IInv, Typed
  <1>1. /\ epochs' \in Epochs /\ epochs'.auth = epochs.auth + 1
        /\ epochs'.session = epochs.session /\ epochs'.signedIn = epochs.signedIn
        /\ epochs'.case = epochs.case /\ epochs'.asked = epochs.asked
        /\ epochs'.leaving = epochs.leaving
        /\ epochs.auth \in Nat /\ epochs.auth <= epochs'.auth
        /\ epochs.session <= epochs'.session
    <2>1. epochs \in Epochs /\ epochs' = [epochs EXCEPT !.auth = @ + 1]
      BY DEF IInv, Typed, Retry
    <2> QED
      BY <2>1, AnotherAuth
  <1>2. /\ page' \in Page /\ page'.status = "loading" /\ page'.reviewer = page.reviewer
        /\ page'.gate = page.gate /\ page'.sid = page.sid
        /\ page'.case = page.case /\ page'.held = page.held
    BY DEF IInv, Typed, Page, Retry
  <1>3. /\ seen.status = "error" /\ seen.gate = "none"
        /\ UNCHANGED <<seen, form, timer, cookie, session, tabs>>
    BY DEF Retry, UnchangedWorld
  <1>4. Operation("boot", AuthScope) \in Sent /\ AuthScope \in Scope
        /\ AuthScope.auth = epochs'.auth /\ AuthScope.session = 0
    BY <1>1 DEF Operation, Sent, AuthScope, NoScope, Scope, Epochs, Kinds, Matters
  <1> DEFINE op == Operation("boot", AuthScope)
  <1>5. op.kind = "boot" /\ op.scope = AuthScope
    BY DEF Operation
  <1>6. Starts(op, "session")
    <2>1. cookie' \in Nat /\ "session" \in Labels
      BY <1>3 DEF IInv, Typed, Labels
    <2> QED
      BY <1>4, <2>1, StartStarts DEF Retry, IInv
  <1> HIDE DEF op
  <1>7. OpsShaped' /\ ops' \in Seq(Sent)
    <2>1. /\ op.scope.auth <= epochs'.auth /\ op.scope.session <= epochs'.session
          /\ "session" \in Labels /\ op \in Sent
      BY <1>1, <1>4, <1>5 DEF Epochs, Labels, op
    <2> QED
      BY <1>1, <1>3, <1>5, <1>6, <2>1, StartsShaped DEF Starts
  <1>8. Typed'
    BY <1>1, <1>2, <1>3, <1>7 DEF IInv, Typed
  <1>9. Shaped'
    BY <1>1, <1>2, <1>3, <1>7 DEF IInv, Shaped, PageShape
  <1>10. ~epochs.leaving /\ \A i \in 1 .. Len(ops) : ops[i].at \notin {"login", "logout"}
    BY <1>3 DEF IInv, SignInAlone, SignOutAlone
  <1>11. /\ \A i \in 1 .. Len(ops') : i \in 1 .. Len(ops) \/ i = n
         /\ \A i \in 1 .. Len(ops) : i \in 1 .. Len(ops') /\ i # n
         /\ n \in 1 .. Len(ops')
    BY <1>6, StartsWhere DEF IInv
  <1>12. /\ ops'[n].at = "session" /\ ops'[n].sid = cookie /\ Booting(n)'
         /\ \A i \in 1 .. Len(ops) : ops'[i] = ops[i]
    <2>1. SentAs(ops'[n], op, "session", op.scope)
      BY <1>6 DEF Starts
    <2>2. ops'[n].at = "session" /\ ops'[n].sid = cookie /\ ops'[n].scope = AuthScope
      BY <1>3, <1>5, <2>1 DEF SentAs
    <2>3. Booting(n)'
      BY <1>4, <2>2 DEF Booting, AuthCurrent
    <2>4. \A i \in 1 .. Len(ops) : ops'[i] = ops[i]
      BY <1>6 DEF Starts
    <2> QED
      BY <2>2, <2>3, <2>4
  <1>13. \A i \in 1 .. Len(ops) : SessionCurrent(i)' <=> SessionCurrent(i)
    BY <1>1, <1>12 DEF SessionCurrent
  <1>14. SignInAlone' /\ SignOutAlone'
    BY <1>1, <1>10, <1>11, <1>12 DEF SignInAlone, SignOutAlone, OneAt
  <1>15. BootsHere'
    <2>1. \A i \in 1 .. Len(ops) : ~Booting(i)'
      BY <1>1, <1>12, ClearsBoots
    <2>2. page.reviewer = Nobody => page.gate = "none"
      BY <1>3 DEF IInv, Typed, Page, Shaped, PageShape, GateWasAsked, Open
    <2> QED
      BY <1>2, <1>3, <1>11, <1>12, <2>1, <2>2 DEF IInv, BootsHere, CookieNames, OpenedHere, Open
  <1>16. NamesThisSession'
    BY <1>3, <1>11, <1>12, <1>13 DEF IInv, NamesThisSession
  <1>17. FormIsShown' /\ GateWasAsked' /\ CookieIsOfThePage' /\ MustIsForced' /\ OpenedHere'
    BY <1>2, <1>3
    DEF IInv, FormIsShown, GateWasAsked, CookieIsOfThePage, CookieNames, MustIsForced, OpenedHere,
        Open
  <1>18. ForcedIsShut'
    BY <1>2, <1>3, <1>11, <1>12, <1>13
    DEF IInv, ForcedIsShut, Open, Changing, RotationElsewhere
  <1>19. Awaited' /\ ReadyBelongs'
    BY <1>2, <1>11, <1>12 DEF Awaited, ReadyBelongs
  <1> QED
    BY <1>8, <1>9, <1>14, <1>15, <1>16, <1>17, <1>18, <1>19 DEF IInv

\* The reviewer signs in.
LEMMA SignsIn ==
  ASSUME IInv, Login
  PROVE  IInv'
  <1> PICK n \in Nat : n = Len(ops) + 1
    BY DEF IInv, Typed
  <1>1. /\ epochs' \in Epochs /\ epochs'.auth = epochs.auth + 1
        /\ epochs'.session = epochs.session /\ epochs'.signedIn = epochs.signedIn
        /\ epochs'.case = epochs.case /\ epochs'.asked = epochs.asked
        /\ epochs'.leaving = epochs.leaving
        /\ epochs.auth \in Nat /\ epochs.auth <= epochs'.auth
        /\ epochs.session <= epochs'.session
    <2>1. epochs \in Epochs /\ epochs' = [epochs EXCEPT !.auth = @ + 1]
      BY DEF IInv, Typed, Login
    <2> QED
      BY <2>1, AnotherAuth
  <1>2. /\ seen.status = "unauthenticated" /\ ~form /\ form' /\ form' \in BOOLEAN
        /\ ~epochs.leaving /\ UNCHANGED <<page, seen, cookie, session, tabs>>
    BY DEF Login
  <1>3. page.status = "unauthenticated" /\ page.reviewer = Nobody /\ ~epochs.signedIn
    BY <1>2 DEF IInv, FormIsShown, Shaped, PageShape
  <1> DEFINE op == Operation("login", AuthScope)
  <1>4. /\ op \in Sent /\ op.kind = "login" /\ op.scope = AuthScope /\ ~op.closed
        /\ AuthScope.auth = epochs'.auth /\ AuthScope.session = 0
    <2>1. /\ AuthScope \in Scope /\ AuthScope.auth = epochs'.auth /\ AuthScope.session = 0
      BY <1>1 DEF AuthScope, NoScope, Scope, Epochs, Matters
    <2> QED
      BY <2>1 DEF Operation, Sent, Kinds
  <1>5. Starts(op, "login")
    <2>1. cookie' \in Nat /\ "login" \in Labels
      BY <1>2 DEF IInv, Typed, Labels
    <2> QED
      BY <1>4, <2>1, StartStarts DEF Login, IInv
  <1> HIDE DEF op
  <1>6. OpsShaped' /\ ops' \in Seq(Sent)
    <2>1. /\ op.scope.auth <= epochs'.auth /\ op.scope.session <= epochs'.session
          /\ "login" \in Labels
      BY <1>1, <1>4 DEF Epochs, Labels
    <2> QED
      BY <1>1, <1>2, <1>4, <1>5, <2>1, StartsShaped DEF Starts
  <1>7. Typed' /\ Shaped'
    BY <1>1, <1>2, <1>3, <1>6 DEF IInv, Typed, Shaped, PageShape
  <1>8. \A i \in 1 .. Len(ops) : ops[i].at \notin {"login", "logout"}
    BY <1>2 DEF IInv, SignInAlone, SignOutAlone
  <1>9. /\ \A i \in 1 .. Len(ops') : i \in 1 .. Len(ops) \/ i = n
        /\ \A i \in 1 .. Len(ops) : i \in 1 .. Len(ops') /\ i # n
        /\ n \in 1 .. Len(ops')
    BY <1>5, StartsWhere DEF IInv
  <1>10. /\ SentAs(ops'[n], op, "login", op.scope)
         /\ \A i \in 1 .. Len(ops) : ops'[i] = ops[i]
    BY <1>5 DEF Starts
  <1>11. ops'[n].at = "login" /\ ~ops'[n].closed /\ AuthCurrent(n)'
    BY <1>4, <1>10 DEF SentAs, AuthCurrent
  <1>12. SignInAlone' /\ SignOutAlone'
    BY <1>1, <1>2, <1>3, <1>8, <1>9, <1>10, <1>11 DEF SignInAlone, SignOutAlone, OneAt
  <1>13. BootsHere'
    <2>1. \A i \in 1 .. Len(ops) : ~Booting(i)'
      BY <1>10, ClearsBoots, <1>1
    <2> QED
      BY <1>9, <1>11, <2>1 DEF BootsHere, Booting
  <1>14. NamesThisSession'
    BY <1>1, <1>3 DEF NamesThisSession, SessionCurrent
  <1> QED
    BY <1>2, <1>3, <1>7, <1>12, <1>13, <1>14
    DEF IInv, FormIsShown, GateWasAsked, Open, CookieIsOfThePage, OpenedHere, MustIsForced,
        ForcedIsShut, Awaited, ReadyBelongs, Shaped, PageShape

\* The reviewer asks for something within the session.
LEMMA Asks ==
  ASSUME IInv, NEW op \in Sent, NEW at \in {"case", "create", "post", "password", "check"},
         Starts(op, at), EpochsGoOn, epochs.signedIn, seen.status # "unauthenticated",
         op.scope.auth = 0, op.scope.session = epochs.session,
         at = "password" => op.kind = "password" /\ op.forced = (seen.gate = "forced"),
         at = "password" => Changing(seen),
         page' \in Page, page'.status # "unauthenticated", page'.reviewer = page.reviewer,
         page'.sid = page.sid, page'.gate = page.gate,
         form' \in BOOLEAN, UNCHANGED <<seen, cookie, session, tabs>>,
         Awaited', ReadyBelongs'
  PROVE  IInv'
  <1> PICK n \in Nat : n = Len(ops) + 1
    BY DEF IInv, Typed
  <1>1. page.reviewer # Nobody /\ ~epochs.leaving
        /\ \A i \in 1 .. Len(ops) : ops[i].at \notin {"login", "logout"}
    BY DEF IInv, Shaped, PageShape, SignInAlone, SignOutAlone
  <1>2. /\ at \in Labels /\ at \notin {"login", "session", "logout"}
        /\ epochs.auth \in Nat /\ epochs.session \in Nat
        /\ epochs.auth <= epochs'.auth /\ epochs.session <= epochs'.session
        /\ 0 <= epochs'.auth /\ epochs' \in Epochs
    BY DEF Labels, IInv, Typed, Epochs, EpochsGoOn
  <1>3. OpsShaped' /\ ops' \in Seq(Sent)
    BY <1>2, StartsShaped DEF Starts
  <1>4. Typed' /\ Shaped'
    BY <1>1, <1>2, <1>3 DEF IInv, Typed, Shaped, PageShape, EpochsGoOn
  <1>5. /\ \A i \in 1 .. Len(ops') : i \in 1 .. Len(ops) \/ i = n
        /\ \A i \in 1 .. Len(ops) : i \in 1 .. Len(ops') /\ i # n
        /\ n \in 1 .. Len(ops')
    BY StartsWhere DEF IInv
  <1>6. /\ SentAs(ops'[n], op, at, op.scope)
        /\ \A i \in 1 .. Len(ops) : ops'[i] = ops[i]
    BY DEF Starts
  <1>7. /\ ops'[n].at = at /\ ops'[n].sid = cookie /\ ops'[n].forced = op.forced
        /\ \A i \in 1 .. Len(ops) : AsBefore(i, i)
    BY <1>6 DEF SentAs, AsBefore, EpochsGoOn, Booting, AuthCurrent, SessionCurrent
  <1>8. SignInAlone' /\ SignOutAlone'
    BY <1>1, <1>2, <1>5, <1>6, <1>7 DEF SignInAlone, SignOutAlone, OneAt, EpochsGoOn
  <1>9. BootsHere'
    <2> SUFFICES ASSUME NEW i \in 1 .. Len(ops'), Booting(i)', "in" \notin tabs
                 PROVE  CookieNames(ops[i].sid)' /\ ops'[i].sid \in {0, Len(session')}
      BY <1>1 DEF BootsHere, CookieNames
    <2>1. i \in 1 .. Len(ops)
      BY <1>2, <1>5, <1>7 DEF Booting
    <2> QED
      BY <1>7, <2>1 DEF IInv, BootsHere, CookieNames, AsBefore
  <1>10. NamesThisSession'
    <2> SUFFICES ASSUME NEW i \in 1 .. Len(ops'), ops'[i].at \in {"check", "password"},
                        SessionCurrent(i)', "in" \notin tabs
                 PROVE  ops'[i].sid \in {0, Len(session')}
      BY DEF NamesThisSession
    <2> QED
      BY <1>5, <1>7 DEF IInv, NamesThisSession, OpenedHere, AsBefore
  <1>11. FormIsShown' /\ GateWasAsked' /\ CookieIsOfThePage' /\ MustIsForced' /\ OpenedHere'
    BY DEF IInv, FormIsShown, GateWasAsked, Open, CookieIsOfThePage, CookieNames, MustIsForced,
      OpenedHere
  <1>12. ForcedIsShut'
    <2>1. RotationElsewhere' <=> RotationElsewhere
      BY DEF RotationElsewhere
    <2>2. ASSUME page.gate = "forced", ~RotationElsewhere,
                 NEW i \in 1 .. Len(ops'), ops'[i].at = "password", SessionCurrent(i)'
          PROVE  ops'[i].forced
      <3>1. CASE i \in 1 .. Len(ops)
        BY <1>7, <2>2, <3>1 DEF IInv, ForcedIsShut, AsBefore
      <3>2. CASE i = n
        <4>1. at = "password" /\ Changing(seen) /\ seen.gate \in {"none", "voluntary", "forced"}
          BY <1>7, <2>2, <3>2 DEF IInv, Typed, Page
        <4>2. seen.gate = "forced"
          BY <2>2, <4>1 DEF IInv, ForcedIsShut, Changing
        <4> QED
          BY <1>7, <3>2, <4>1, <4>2
      <3> QED
        BY <1>5, <3>1, <3>2
    <2> QED
      BY <2>1, <2>2 DEF IInv, ForcedIsShut, Open, Changing
  <1> QED
    BY <1>4, <1>8, <1>9, <1>10, <1>11, <1>12 DEF IInv

\* What is asked for leaves the page as it is.
LEMMA StaysAwaited ==
  ASSUME IInv, NEW op, NEW at, Starts(op, at), EpochsStay, UNCHANGED <<page, session, tabs>>
  PROVE  Awaited' /\ ReadyBelongs'
  <1>1. \A i \in 1 .. Len(ops) : Alike(i, i) /\ i \in 1 .. Len(ops')
    BY StayAlike, StartsWhere DEF Starts, IInv
  <1>2. RotationElsewhere' <=> RotationElsewhere
    BY DEF RotationElsewhere
  <1>3. Awaited'
    BY <1>1 DEF IInv, Awaited, Alike
  <1>4. ReadyBelongs'
    BY <1>1, <1>2 DEF IInv, ReadyBelongs, Belongs, Alike, EpochsStay
  <1> QED
    BY <1>3, <1>4

\* The form to change the password is asked for or given up.
LEMMA TurnsGate ==
  ASSUME IInv, Open(seen) \/ (Changing(seen) /\ seen.gate = "voluntary"),
         NEW gate \in {"none", "voluntary"}, gate = "voluntary" => Open(seen),
         page' = [page EXCEPT !.gate = gate],
         UNCHANGED <<seen, form, epochs, ops, cookie, session, tabs>>
  PROVE  IInv'
  <1>1. /\ page' \in Page /\ page'.gate = gate /\ page'.status = page.status
        /\ page'.reviewer = page.reviewer /\ page'.sid = page.sid
        /\ page'.case = page.case /\ page'.held = page.held
    BY DEF IInv, Typed, Page
  <1>2. page.gate = "forced" => RotationElsewhere
    BY DEF IInv, ForcedIsShut
  <1>3. Typed' /\ Shaped'
    BY <1>1 DEF IInv, Typed, Shaped, PageShape, OpsShaped
  <1>4. SignInAlone' /\ SignOutAlone'
    BY <1>1 DEF IInv, SignInAlone, SignOutAlone, OneAt, Booting, AuthCurrent
  <1>5. BootsHere' /\ NamesThisSession'
    BY <1>1
    DEF IInv, BootsHere, CookieNames, NamesThisSession, Booting, AuthCurrent, SessionCurrent, Open
  <1>6. FormIsShown' /\ GateWasAsked' /\ CookieIsOfThePage' /\ OpenedHere' /\ ForcedIsShut'
    BY <1>1 DEF IInv, FormIsShown, GateWasAsked, Open, CookieIsOfThePage, CookieNames, OpenedHere,
      ForcedIsShut
  <1>7. MustIsForced'
    BY <1>1, <1>2 DEF IInv, MustIsForced, RotationElsewhere
  <1>8. Awaited' /\ ReadyBelongs'
    BY <1>1, <1>2 DEF IInv, Awaited, ReadyBelongs, Belongs, RotationElsewhere, Loads, Booting,
      AuthCurrent, SessionCurrent, CaseCurrent
  <1> QED
    BY <1>3, <1>4, <1>5, <1>6, <1>7, <1>8 DEF IInv

\* What becomes of the epochs when the session is over.
LEMMA ClearedEpochsAre ==
  ASSUME epochs \in Epochs
  PROVE  /\ ClearedEpochs \in Epochs /\ ~ClearedEpochs.signedIn
         /\ ClearedEpochs.auth = epochs.auth + 1
         /\ ClearedEpochs.session = epochs.session + 1
         /\ ClearedEpochs.leaving = epochs.leaving
  <1> DEFINE next == NextSession(epochs)
  <1>1. /\ next \in Epochs /\ next.auth = epochs.auth
        /\ next.session = epochs.session + 1 /\ next.leaving = epochs.leaving
    BY NextSessionIs
  <1>2. ClearedEpochs = [next EXCEPT !.auth = @ + 1, !.signedIn = FALSE]
    BY DEF ClearedEpochs
  <1> HIDE DEF next
  <1>3. next.auth + 1 \in Nat
    BY <1>1 DEF Epochs
  <1> QED
    BY <1>1, <1>2, <1>3 DEF Epochs

\* The reviewer signs out.
LEMMA Leaves ==
  ASSUME IInv, Logout
  PROVE  IInv'
  <1> PICK n \in Nat : n = Len(ops) + 1
    BY DEF IInv, Typed
  <1>1. /\ epochs' \in Epochs /\ epochs'.auth = epochs.auth + 1
        /\ epochs'.session = epochs.session + 1 /\ ~epochs'.signedIn /\ epochs'.leaving
        /\ epochs.auth <= epochs'.auth /\ epochs.session <= epochs'.session
        /\ 0 <= epochs'.auth /\ 0 <= epochs'.session
    <2> DEFINE cleared == ClearedEpochs
    <2>1. /\ cleared \in Epochs /\ ~cleared.signedIn
          /\ cleared.auth = epochs.auth + 1 /\ cleared.session = epochs.session + 1
      BY ClearedEpochsAre DEF IInv, Typed
    <2>2. epochs' = [cleared EXCEPT !.leaving = TRUE]
      BY DEF Logout
    <2> HIDE DEF cleared
    <2>3. epochs.auth \in Nat /\ epochs.session \in Nat
      BY DEF IInv, Typed, Epochs
    <2>4. /\ epochs' \in Epochs /\ epochs'.leaving
          /\ epochs'.auth = cleared.auth /\ epochs'.session = cleared.session
          /\ epochs'.signedIn = cleared.signedIn
      BY <2>1, <2>2 DEF Epochs
    <2> QED
      BY <2>1, <2>3, <2>4
  <1>2. /\ page' \in Page /\ page'.status = "loading" /\ page'.reviewer = Nobody
        /\ page'.gate = "none" /\ page'.case = NoCase /\ page'.held = {}
    <2>1. page' = [Cleared EXCEPT !.status = "loading"]
      BY DEF Logout
    <2> QED
      BY <2>1, ClearedIsTyped DEF Cleared, Page
  <1>3. /\ seen.status # "unauthenticated" /\ ~(seen.status = "error" /\ seen.gate = "none")
        /\ ~epochs.leaving
        /\ UNCHANGED <<seen, form, cookie, session, tabs>>
    BY DEF Logout, UnchangedWorld, Open, Changing
  <1> DEFINE op == Operation("logout", NoScope)
  <1>4. /\ op \in Sent /\ op.kind = "logout"
        /\ op.scope.auth = 0 /\ op.scope.session = 0
    BY DEF Operation, Sent, Kinds, NoScope, Scope, Matters
  <1>5. Starts(op, "logout")
    <2>1. cookie' \in Nat /\ "logout" \in Labels
      BY <1>3 DEF IInv, Typed, Labels
    <2> QED
      BY <1>4, <2>1, StartStarts DEF Logout, IInv
  <1> HIDE DEF op
  <1>6. OpsShaped' /\ ops' \in Seq(Sent)
    <2>1. "logout" \in Labels
      BY DEF Labels
    <2> QED
      BY <1>1, <1>3, <1>4, <1>5, <2>1, StartsShaped DEF Starts
  <1>7. Typed' /\ Shaped'
    BY <1>1, <1>2, <1>3, <1>6 DEF IInv, Typed, Shaped, PageShape
  <1>8. \A i \in 1 .. Len(ops) : ops[i].at \notin {"login", "logout"}
    BY <1>3 DEF IInv, SignInAlone, SignOutAlone
  <1>9. /\ \A i \in 1 .. Len(ops') : i \in 1 .. Len(ops) \/ i = n
        /\ \A i \in 1 .. Len(ops) : i \in 1 .. Len(ops') /\ i # n
        /\ n \in 1 .. Len(ops')
    BY <1>5, StartsWhere DEF IInv
  <1>10. /\ SentAs(ops'[n], op, "logout", op.scope)
         /\ \A i \in 1 .. Len(ops) : ops'[i] = ops[i]
    BY <1>5 DEF Starts
  <1>11. ops'[n].at = "logout" /\ \A i \in 1 .. Len(ops') : ~Booting(i)'
    <2>1. \A i \in 1 .. Len(ops) : ~Booting(i)'
      BY <1>1, <1>10, ClearsBoots
    <2>2. ops'[n].at = "logout"
      BY <1>10 DEF SentAs
    <2>3. ~Booting(n)'
      BY <2>2 DEF Booting
    <2> QED
      BY <1>9, <2>1, <2>2, <2>3
  <1>12. SignInAlone' /\ SignOutAlone'
    BY <1>1, <1>2, <1>3, <1>8, <1>9, <1>10, <1>11 DEF SignInAlone, SignOutAlone, OneAt
  <1>13. BootsHere'
    BY <1>11 DEF BootsHere
  <1>14. NamesThisSession'
    BY <1>1 DEF NamesThisSession, SessionCurrent
  <1>15. Awaited'
    BY <1>9, <1>11 DEF Awaited
  <1> QED
    BY <1>2, <1>3, <1>7, <1>12, <1>13, <1>14, <1>15
    DEF IInv, FormIsShown, GateWasAsked, CookieIsOfThePage, OpenedHere, MustIsForced,
        ForcedIsShut, ReadyBelongs

-----------------------------------------------------------------------------
(***************************************************************************)
(* Rendering and the rest of the world.                                    *)
(***************************************************************************)
LEMMA Renders ==
  ASSUME IInv, Render
  PROVE  IInv'
  <1>1. /\ seen' = page /\ UNCHANGED <<page, epochs, cookie, session, tabs>>
        /\ form' = (form /\ FormWaits')
    BY DEF Render
  <1>2. /\ ops' \in Seq(Sent) /\ Len(ops') = Len(ops)
        /\ \A i \in 1 .. Len(ops) :
             /\ ops'[i].kind = ops[i].kind /\ ops'[i].at = ops[i].at
             /\ ops'[i].scope = ops[i].scope /\ ops'[i].forced = ops[i].forced
             /\ ops'[i].sid = ops[i].sid /\ ops'[i].good = ops[i].good
             /\ ops'[i].closed = \/ ops[i].closed
                                 \/ ops[i].kind = "login" /\ page.status # "unauthenticated"
                                 \/ ops[i].kind = "password" /\ ~Changing(page)
    <2> DEFINE closed(i) == \/ ops[i].closed
                            \/ ops[i].kind = "login" /\ page.status # "unauthenticated"
                            \/ ops[i].kind = "password" /\ ~Changing(page)
               new(i) == [ops[i] EXCEPT !.unseen = FALSE, !.closed = closed(i)]
    <2>1. ops' = [i \in 1 .. Len(ops) |-> new(i)]
      BY DEF Render
    <2>2. ASSUME NEW i \in 1 .. Len(ops)
          PROVE  /\ new(i) \in Sent
                 /\ new(i).kind = ops[i].kind /\ new(i).at = ops[i].at
                 /\ new(i).scope = ops[i].scope /\ new(i).forced = ops[i].forced
                 /\ new(i).sid = ops[i].sid /\ new(i).good = ops[i].good
                 /\ new(i).closed = closed(i)
      <3>1. ops[i] \in Sent
        BY DEF IInv, Typed
      <3>2. closed(i) \in BOOLEAN
        BY <3>1 DEF Sent
      <3> HIDE DEF closed
      <3> QED
        BY <3>1, <3>2 DEF Sent
    <2> HIDE DEF new
    <2>3. Len(ops) \in Nat
      BY DEF IInv, Typed
    <2>4. ops' \in [1 .. Len(ops) -> Sent] /\ DOMAIN ops' = 1 .. Len(ops)
      BY <2>1, <2>2
    <2>5. ops' \in Seq(Sent)
      BY <2>3, <2>4, SeqDef
    <2>6. Len(ops') = Len(ops)
      BY <2>3, <2>4, <2>5, LenProperties
    <2>7. \A i \in 1 .. Len(ops) : ops'[i] = new(i)
      BY <2>1
    <2> QED
      BY <2>2, <2>5, <2>6, <2>7
  <1>3. \A i \in 1 .. Len(ops) :
          /\ Loads(i)' <=> Loads(i)
          /\ Booting(i)' <=> Booting(i)
          /\ AuthCurrent(i)' <=> AuthCurrent(i)
          /\ SessionCurrent(i)' <=> SessionCurrent(i)
    BY <1>1, <1>2 DEF Loads, Booting, AuthCurrent, SessionCurrent, CaseCurrent
  <1>4. form' \in BOOLEAN
    BY <1>1 DEF IInv, Typed
  <1>5. Typed' /\ Shaped'
    <2>1. Typed'
      BY <1>1, <1>2, <1>4 DEF IInv, Typed
    <2>2. OpsShaped'
      <3>1. ASSUME NEW i \in 1 .. Len(ops)
            PROVE  OpShape(ops'[i], Len(session), epochs.auth, epochs.session)
        <4>1. OpShape(ops[i], Len(session), epochs.auth, epochs.session)
          BY DEF IInv, Shaped, OpsShaped
        <4>2. /\ ops'[i].kind = ops[i].kind /\ ops'[i].at = ops[i].at
              /\ ops'[i].scope = ops[i].scope /\ ops'[i].sid = ops[i].sid
              /\ ops'[i].good = ops[i].good
          BY <1>2
        <4> QED
          BY <4>1, <4>2 DEF OpShape
      <3> QED
        BY <1>1, <1>2, <3>1 DEF OpsShaped
    <2> QED
      BY <1>1, <2>1, <2>2 DEF IInv, Shaped, PageShape
  <1>6. SignInAlone'
    <2>1. OneAt("login")'
      BY <1>2 DEF IInv, SignInAlone, OneAt
    <2>2. ASSUME NEW o \in 1 .. Len(ops'), ops'[o].at = "login"
          PROVE  /\ page.status = "unauthenticated" /\ form' /\ ~ops'[o].closed
                 /\ AuthCurrent(o)' /\ ~epochs.leaving
      <3>1. /\ o \in 1 .. Len(ops) /\ ops[o].at = "login" /\ ops[o].kind = "login"
            /\ page.status = "unauthenticated" /\ form /\ ~ops[o].closed /\ AuthCurrent(o)
            /\ ~epochs.leaving
        BY <1>2, <2>2 DEF IInv, SignInAlone, Shaped, OpsShaped, OpShape
      <3>2. ~ops'[o].closed /\ ops'[o].kind = "login"
        BY <1>2, <3>1
      <3> QED
        BY <1>1, <1>3, <2>2, <3>1, <3>2 DEF FormWaits
    <2> QED
      BY <1>1, <2>1, <2>2 DEF SignInAlone
  <1>7. SignOutAlone'
    BY <1>1, <1>2, <1>3 DEF IInv, SignOutAlone, OneAt
  <1>8. BootsHere'
    BY <1>1, <1>2, <1>3 DEF IInv, BootsHere, CookieNames, Shaped, PageShape, Open
  <1>9. NamesThisSession'
    BY <1>1, <1>2, <1>3 DEF IInv, NamesThisSession
  <1>10. FormIsShown' /\ GateWasAsked' /\ CookieIsOfThePage' /\ OpenedHere' /\ MustIsForced'
    BY <1>1 DEF IInv, FormIsShown, GateWasAsked, CookieIsOfThePage, CookieNames, OpenedHere,
      MustIsForced
  <1>11. ForcedIsShut'
    BY <1>1, <1>2, <1>3 DEF IInv, ForcedIsShut, Open, Changing, RotationElsewhere
  <1>12. Awaited' /\ ReadyBelongs'
    BY <1>1, <1>2, <1>3 DEF IInv, Awaited, ReadyBelongs, Belongs, RotationElsewhere
  <1> QED
    BY <1>5, <1>6, <1>7, <1>8, <1>9, <1>10, <1>11, <1>12 DEF IInv

\* A session is not what it was: the page does not know yet.
LEMMA SessionsMove ==
  ASSUME IInv, SessionsGoOn, UNCHANGED <<page, seen, form, epochs, ops, cookie, tabs>>
  PROVE  IInv'
  <1>1. RotationElsewhere' <=> RotationElsewhere
    BY DEF RotationElsewhere, SessionsGoOn
  <1>2. Typed' /\ Shaped'
    BY DEF IInv, Typed, Shaped, PageShape, OpsShaped, SessionsGoOn
  <1>3. SignInAlone' /\ SignOutAlone'
    BY DEF IInv, SignInAlone, SignOutAlone, OneAt, AuthCurrent, Booting
  <1>4. BootsHere' /\ NamesThisSession' /\ OpenedHere'
    BY DEF IInv, BootsHere, CookieNames, NamesThisSession, OpenedHere, SessionsGoOn, Booting,
      AuthCurrent, SessionCurrent, Open
  <1>5. FormIsShown' /\ GateWasAsked' /\ CookieIsOfThePage'
    BY DEF IInv, FormIsShown, GateWasAsked, CookieIsOfThePage, CookieNames, Open
  <1>6. MustIsForced'
    BY DEF IInv, MustIsForced, Shaped, PageShape, SessionsGoOn
  <1>7. ForcedIsShut'
    BY <1>1 DEF IInv, ForcedIsShut, Open, Changing, SessionCurrent
  <1>8. Awaited' /\ ReadyBelongs'
    BY <1>1 DEF IInv, Awaited, ReadyBelongs, Belongs, Loads, Booting, AuthCurrent,
      SessionCurrent, CaseCurrent
  <1> QED
    BY <1>2, <1>3, <1>4, <1>5, <1>6, <1>7, <1>8 DEF IInv

\* A session is over.
LEMMA EndsElsewhere ==
  ASSUME IInv, NEW sid \in 1 .. Len(session), SessionEnds(sid)
  PROVE  IInv'
  <1>1. PICK how \in {"revoked", "expired"} :
          session' = [session EXCEPT ![sid].standing = how]
    BY DEF SessionEnds
  <1> DEFINE new == [session[sid] EXCEPT !.standing = how]
  <1>2. session[sid] \in Known
    BY DEF IInv, Typed
  <1>3. new \in Known /\ new.by = session[sid].by /\ new.must = session[sid].must
    BY <1>2 DEF Known
  <1>4. session' = [session EXCEPT ![sid] = new]
    BY <1>1
  <1> HIDE DEF new
  <1>5. SessionsGoOn
    BY <1>3, <1>4, SessionGoesOn DEF IInv, Typed
  <1> QED
    BY <1>5, SessionsMove DEF SessionEnds

\* The password was changed in another tab.
LEMMA PasswordElsewhere ==
  ASSUME IInv, NEW sid \in 1 .. Len(session), OtherTabChangesPassword(sid)
  PROVE  IInv'
  BY PasswordIsNew, SessionsMove DEF OtherTabChangesPassword, IInv, Typed

\* Another tab signs out: the cookie is gone, whatever session it named.
LEMMA SignsOutElsewhere ==
  ASSUME IInv, OtherTabSignsOut
  PROVE  IInv'
  <1>1. /\ cookie' = 0 /\ tabs' = tabs \cup {"out"}
        /\ UNCHANGED <<page, seen, form, epochs, ops, session>>
    BY DEF OtherTabSignsOut
  <1>2. /\ "in" \in tabs' <=> "in" \in tabs
        /\ "out" \in tabs' /\ tabs' \in SUBSET {"in", "out"}
    BY <1>1 DEF IInv, Typed
  <1>3. RotationElsewhere' <=> RotationElsewhere
    BY <1>1, <1>2 DEF RotationElsewhere
  <1>4. Typed' /\ Shaped'
    BY <1>1, <1>2 DEF IInv, Typed, Shaped, PageShape, OpsShaped
  <1>5. SignInAlone' /\ SignOutAlone'
    BY <1>1 DEF IInv, SignInAlone, SignOutAlone, OneAt, AuthCurrent, Booting
  <1>6. BootsHere' /\ NamesThisSession' /\ OpenedHere'
    BY <1>1, <1>2 DEF IInv, BootsHere, CookieNames, NamesThisSession, OpenedHere, Booting,
      AuthCurrent, SessionCurrent, Open
  <1>7. FormIsShown' /\ GateWasAsked' /\ CookieIsOfThePage' /\ MustIsForced'
    BY <1>1, <1>2 DEF IInv, FormIsShown, GateWasAsked, CookieIsOfThePage, CookieNames, Open,
      MustIsForced
  <1>8. ForcedIsShut'
    BY <1>1, <1>3 DEF IInv, ForcedIsShut, Open, Changing, SessionCurrent
  <1>9. Awaited' /\ ReadyBelongs'
    BY <1>1, <1>3 DEF IInv, Awaited, ReadyBelongs, Belongs, Loads, Booting, AuthCurrent,
      SessionCurrent, CaseCurrent
  <1> QED
    BY <1>4, <1>5, <1>6, <1>7, <1>8, <1>9 DEF IInv

\* One more session is there.
LEMMA OpenedIs ==
  ASSUME session \in Seq(Known), NEW by \in Reviewers, session' = Opened(by),
         \A i \in 1 .. Len(session) : session[i].must => session[i].by \in Temporary
  PROVE  /\ session' \in Seq(Known) /\ Len(session') = Len(session) + 1
         /\ Len(session) <= Len(session')
         /\ \A i \in 1 .. Len(session) : session'[i] = session[i]
         /\ \A i \in 1 .. Len(session') : session'[i].must => session'[i].by \in Temporary
         /\ Len(session') \in 1 .. Len(session')
         /\ session'[Len(session')].must = (by \in Temporary)
         /\ session'[Len(session')].by = by
  <1> DEFINE new == [by |-> by, standing |-> "live", must |-> by \in Temporary]
  <1>1. new \in Known /\ new.must = (by \in Temporary) /\ new.by = by
    BY DEF Known
  <1>2. session' = Append(session, new)
    BY DEF Opened
  <1> HIDE DEF new
  <1>3. /\ session' \in Seq(Known) /\ Len(session') = Len(session) + 1
        /\ Len(session) \in Nat
        /\ \A i \in 1 .. Len(session) : session'[i] = session[i]
        /\ session'[Len(session) + 1] = new
    BY <1>1, <1>2
  <1>4. Len(session) <= Len(session') /\ Len(session') \in 1 .. Len(session')
    BY <1>3
  <1>5. ASSUME NEW i \in 1 .. Len(session'), session'[i].must
        PROVE  session'[i].by \in Temporary
    <2>1. i \in 1 .. Len(session) \/ i = Len(session) + 1
      BY <1>3
    <2> QED
      BY <1>1, <1>3, <1>5, <2>1
  <1> QED
    BY <1>1, <1>3, <1>4, <1>5

\* Another tab signs in.
LEMMA SignsInElsewhere ==
  ASSUME IInv, OtherTabSignsIn
  PROVE  IInv'
  <1>1. PICK by \in Reviewers : session' = Opened(by)
    BY DEF OtherTabSignsIn
  <1>2. /\ tabs' = tabs \cup {"in"} /\ cookie' = Len(session')
        /\ UNCHANGED <<page, seen, form, epochs, ops>>
    BY DEF OtherTabSignsIn
  <1>3. /\ session' \in Seq(Known) /\ Len(session') = Len(session) + 1
        /\ Len(session) <= Len(session')
        /\ \A i \in 1 .. Len(session) : session'[i] = session[i]
        /\ \A i \in 1 .. Len(session') : session'[i].must => session'[i].by \in Temporary
        /\ Len(session) \in Nat
    BY <1>1, OpenedIs DEF IInv, Typed, Shaped
  <1>4. epochs' \in Epochs /\ epochs.auth <= epochs'.auth /\ epochs.session <= epochs'.session
    BY <1>2 DEF IInv, Typed, Epochs
  <1>5. OpsShaped'
    BY <1>2, <1>3, <1>4, OpsLast DEF OpsShaped
  <1>6. Typed' /\ Shaped'
    BY <1>2, <1>3, <1>5 DEF IInv, Typed, Shaped, PageShape
  <1>7. RotationElsewhere => RotationElsewhere'
    BY <1>2, <1>3 DEF RotationElsewhere
  <1>8. SignInAlone' /\ SignOutAlone'
    BY <1>2 DEF IInv, SignInAlone, SignOutAlone, OneAt, AuthCurrent, Booting
  <1>9. BootsHere' /\ NamesThisSession' /\ OpenedHere'
    BY <1>2 DEF IInv, BootsHere, NamesThisSession, OpenedHere, Booting, AuthCurrent, Open
  <1>10. FormIsShown' /\ GateWasAsked' /\ CookieIsOfThePage' /\ MustIsForced'
    BY <1>2 DEF IInv, FormIsShown, GateWasAsked, CookieIsOfThePage, Open, MustIsForced
  <1>11. ForcedIsShut'
    BY <1>2, <1>7 DEF IInv, ForcedIsShut, Open, Changing, SessionCurrent
  <1>12. Awaited' /\ ReadyBelongs'
    BY <1>2, <1>7 DEF IInv, Awaited, ReadyBelongs, Belongs, Loads, Booting, AuthCurrent,
      SessionCurrent, CaseCurrent
  <1> QED
    BY <1>6, <1>8, <1>9, <1>10, <1>11, <1>12 DEF IInv

-----------------------------------------------------------------------------
(***************************************************************************)
(* Each answer does one of these.                                          *)
(***************************************************************************)
LEMMA SameStays ==
  ASSUME IInv
  PROVE  /\ UNCHANGED epochs => EpochsStay /\ EpochsGoOn
         /\ UNCHANGED session => SessionsGoOn
  BY DEF IInv, Typed, EpochsStay, EpochsGoOn, SessionsGoOn

LEMMA ClearsEpochs ==
  ASSUME IInv, ClearServerSession, ~epochs.leaving
  PROVE  page' = Cleared /\ EpochsClear
  <1>1. /\ ClearedEpochs \in Epochs /\ ~ClearedEpochs.signedIn
        /\ ClearedEpochs.auth = epochs.auth + 1
        /\ ClearedEpochs.session = epochs.session + 1
        /\ ClearedEpochs.leaving = epochs.leaving
    BY ClearedEpochsAre DEF IInv, Typed
  <1> QED
    BY <1>1 DEF ClearServerSession, EpochsClear

\* Whom an answer tells that the session goes on.
LEMMA AnswersOk ==
  ASSUME IInv, NEW o \in 1 .. Len(ops), "ok" \in Answers(o)
  PROVE  ops[o].good /\ ops[o].sid \in 1 .. Len(session)
  <1>1. ops[o] \in Sent /\ OpShape(ops[o], Len(session), epochs.auth, epochs.session)
    BY DEF IInv, Typed, Shaped, OpsShaped
  <1>2. ops[o].good
    BY DEF Answers
  <1> QED
    BY <1>1, <1>2 DEF OpShape, Sent, IInv, Typed

\* Nobody waits for it, and nothing changes.
LEMMA GivesUpHere ==
  ASSUME IInv, NEW o \in 1 .. Len(ops), End(o), ~Booting(o), ~Loads(o), ops[o].at # "logout",
         UNCHANGED <<page, seen, form, epochs, cookie, session, tabs>>
  PROVE  IInv'
  BY SameStays, EndEnds, GivesUp DEF IInv

LEMMA ClearsHere ==
  ASSUME IInv, NEW o \in 1 .. Len(ops), End(o), SignedOn(o), ops[o].at # "login",
         ClearServerSession, UNCHANGED <<seen, form, cookie, session, tabs>>
  PROVE  IInv'
  BY SignedOnAlone, ClearsEpochs, EndEnds, Clears DEF IInv

LEMMA FailsHere ==
  ASSUME IInv, NEW o \in 1 .. Len(ops), End(o), SignedOn(o), ops[o].at # "login",
         page' = [page EXCEPT !.status = "error"],
         UNCHANGED <<seen, form, epochs, cookie, session, tabs>>
  PROVE  IInv'
  BY SameStays, EndEnds, Fails DEF IInv

LEMMA BootPreserves ==
  ASSUME IInv, NEW o \in 1 .. Len(ops), BootAnswered(o)
  PROVE  IInv'
  <1>1. ops[o].at = "session" /\ UNCHANGED <<seen, form, cookie, session, tabs>>
    BY DEF BootAnswered, At
  <1>2. ~Loads(o)
    BY <1>1 DEF Loads
  <1> PICK answer \in Answers(o) :
        IF ~AuthCurrent(o) THEN End(o) /\ UNCHANGED <<page, epochs>>
        ELSE \/ answer = "ok" /\ ~Expired(ops[o].sid) /\ Establish(o, ops[o].sid, session)
             \/ answer = "ok" /\ Expired(ops[o].sid) /\ ClearServerSession /\ End(o)
             \/ answer = "unauthorized" /\ ClearServerSession /\ End(o)
             \/ /\ answer = "error"
                /\ page' = [page EXCEPT !.status = "error"]
                /\ End(o) /\ UNCHANGED epochs
    BY DEF BootAnswered
  <1>3. CASE ~AuthCurrent(o)
    BY <1>1, <1>2, <1>3, GivesUpHere DEF Booting
  <1>4. CASE AuthCurrent(o) /\ answer = "ok" /\ Establish(o, ops[o].sid, session)
    <2> PICK sid : sid = ops[o].sid
      OBVIOUS
    <2>1. sid \in 1 .. Len(session) /\ Booting(o)
      BY <1>1, <1>4, AnswersOk DEF Booting
    <2>2. session[sid].must => session[sid].by \in Temporary
      BY <2>1 DEF IInv, Shaped
    <2>3. session[sid].must /\ ~RotationElsewhere =>
            ~Open(seen) /\ ~(Changing(seen) /\ seen.gate = "voluntary")
      <3> SUFFICES ASSUME session[sid].must, ~RotationElsewhere
                   PROVE  ~Open(seen) /\ ~(Changing(seen) /\ seen.gate = "voluntary")
        OBVIOUS
      <3>1. "in" \notin tabs
        BY <2>1, <2>2 DEF RotationElsewhere
      <3>2. sid = Len(session)
        BY <2>1, <3>1 DEF IInv, BootsHere
      <3>3. CASE page.reviewer = Nobody
        BY <2>1, <3>3 DEF IInv, BootsHere
      <3>4. CASE page.reviewer # Nobody
        BY <3>1, <3>2, <3>4 DEF IInv, OpenedHere, MustIsForced, ForcedIsShut
      <3> QED
        BY <3>3, <3>4
    <2>4. Establish(o, sid, session')
      BY <1>1, <1>4 DEF Establish
    <2>5. /\ sid = Len(session') \/ "in" \in tabs
          /\ cookie' = sid \/ "in" \in tabs \/ ("out" \in tabs /\ cookie' = 0)
          /\ cookie' = cookie /\ Len(session') = Len(session)
      BY <1>1, <2>1 DEF IInv, BootsHere, CookieNames
    <2>6. RotationElsewhere' <=> RotationElsewhere
      BY <1>1 DEF RotationElsewhere
    <2>7. /\ session' \in Seq(Known) /\ Len(session) <= Len(session')
          /\ cookie' \in 0 .. Len(session')
          /\ \A i \in 1 .. Len(session') : session'[i].must => session'[i].by \in Temporary
      BY <1>1 DEF IInv, Typed, Shaped
    <2> QED
      BY <1>1, <1>4, <2>1, <2>3, <2>4, <2>5, <2>6, <2>7, Establishes
  <1>5. CASE AuthCurrent(o) /\ ClearServerSession /\ End(o)
    BY <1>1, <1>5, ClearsHere DEF SignedOn, Booting
  <1>6. CASE AuthCurrent(o) /\ answer = "error" /\ page' = [page EXCEPT !.status = "error"]
             /\ End(o) /\ UNCHANGED epochs
    BY <1>1, <1>6, FailsHere DEF SignedOn, Booting
  <1> QED
    BY <1>3, <1>4, <1>5, <1>6

LEMMA LoginPreserves ==
  ASSUME IInv, NEW o \in 1 .. Len(ops), LoginAnswered(o)
  PROVE  IInv'
  <1>1. ops[o].at = "login" /\ UNCHANGED <<seen, form, tabs>>
    BY DEF LoginAnswered, At
  <1>2. /\ AuthCurrent(o) /\ seen.status = "unauthenticated"
        /\ ~Loads(o) /\ ~Booting(o)
    BY <1>1 DEF IInv, SignInAlone, Loads, Booting
  <1>3. CASE End(o) /\ UNCHANGED <<page, epochs, cookie, session>>
    BY <1>1, <1>2, <1>3, GivesUpHere
  <1>4. ASSUME NEW by \in Reviewers, session' = Opened(by), cookie' = Len(session'),
               Establish(o, cookie', session')
        PROVE  IInv'
    <2>1. /\ session' \in Seq(Known) /\ Len(session) <= Len(session')
          /\ \A i \in 1 .. Len(session') : session'[i].must => session'[i].by \in Temporary
          /\ Len(session') \in 1 .. Len(session')
      BY <1>4, OpenedIs DEF IInv, Typed, Shaped
    <2> PICK sid : sid = cookie'
      OBVIOUS
    <2>2. sid \in 1 .. Len(session') /\ Establish(o, sid, session')
          /\ cookie' \in 0 .. Len(session') /\ sid = Len(session') /\ cookie' = sid
      BY <1>4, <2>1
    <2>3. ~Open(seen) /\ ~Changing(seen)
      BY <1>2 DEF Open, Changing
    <2> QED
      BY <1>1, <1>2, <2>1, <2>2, <2>3, Establishes
  <1> QED
    BY <1>2, <1>3, <1>4 DEF LoginAnswered

\* Another matter is asked for.
LEMMA BeginsToLoad ==
  ASSUME IInv, NEW o \in 1 .. Len(ops), NEW c \in Matters, SessionCurrent(o),
         BeginCaseRequest(o, c), UNCHANGED <<cookie, session>>
  PROVE  OverOrLoading(o) /\ EpochsGoOn /\ Loads(o)' /\ o \in 1 .. Len(ops')
  <1>1. /\ epochs' \in Epochs
        /\ epochs'.auth = epochs.auth /\ epochs'.session = epochs.session
        /\ epochs'.signedIn = epochs.signedIn /\ epochs'.leaving = epochs.leaving
        /\ epochs'.asked = c
    <2>1. epochs \in Epochs /\ epochs.case + 1 \in Nat
      BY DEF IInv, Typed, Epochs
    <2>2. epochs' = [epochs EXCEPT !.case = epochs.case + 1, !.asked = c]
      BY DEF BeginCaseRequest
    <2> QED
      BY <2>1, <2>2 DEF Epochs
  <1> PICK scope : scope = CaseScope(c)
    OBVIOUS
  <1>2. /\ scope \in Scope /\ scope.auth = 0 /\ scope.session = epochs'.session
        /\ scope.epoch = epochs'.case /\ scope.case = c
    BY <1>1, CaseScopeIs
  <1>3. GoesOn(o, "case", scope)
    <2>1. cookie' \in Nat /\ "case" \in Labels
      BY DEF IInv, Typed, Labels
    <2> QED
      BY <1>2, <2>1, SendGoesOn DEF BeginCaseRequest, IInv
  <1>4. scope.auth <= epochs.auth /\ scope.session <= epochs.session
    BY <1>1, <1>2 DEF IInv, Typed, Epochs
  <1>5. OverOrLoading(o)
    BY <1>2, <1>3, <1>4 DEF OverOrLoading, GoesToLoad
  <1>6. o \in 1 .. Len(ops') /\ ops'[o].at = "case" /\ ops'[o].scope = scope
    BY <1>3 DEF GoesOn, SentAs
  <1> QED
    BY <1>1, <1>2, <1>5, <1>6 DEF EpochsGoOn, Loads, CaseCurrent, SessionCurrent

LEMMA CasesPreserve ==
  ASSUME IInv, NEW o \in 1 .. Len(ops), CasesAnswered(o)
  PROVE  IInv'
  <1>1. ops[o].at = "cases" /\ UNCHANGED <<seen, form, cookie, session, tabs>>
    BY DEF CasesAnswered, At
  <1>2. ~Booting(o)
    BY <1>1 DEF Booting
  <1> PICK answer \in Answers(o) :
        IF ~SessionCurrent(o) THEN End(o) /\ UNCHANGED <<page, epochs>>
        ELSE \/ answer = "ok" /\ CasesListed(o)
             \/ /\ answer # "ok" /\ ops[o].kind = "create"
                /\ End(o) /\ UNCHANGED <<page, epochs>>
             \/ /\ answer = "unauthorized" /\ ops[o].kind # "create"
                /\ ClearServerSession /\ End(o)
             \/ /\ answer = "error" /\ ops[o].kind # "create"
                /\ page' = [page EXCEPT !.status = "error"]
                /\ End(o) /\ UNCHANGED epochs
    BY DEF CasesAnswered
  <1>3. CASE ~Loads(o) /\ End(o) /\ UNCHANGED <<page, epochs>>
    BY <1>1, <1>2, <1>3, GivesUpHere
  <1>4. CASE SessionCurrent(o) /\ ClearServerSession /\ End(o)
    BY <1>1, <1>4, ClearsHere DEF SignedOn
  <1>5. CASE SessionCurrent(o) /\ page' = [page EXCEPT !.status = "error"]
             /\ End(o) /\ UNCHANGED epochs
    BY <1>1, <1>5, FailsHere DEF SignedOn
  <1>6. CASE SessionCurrent(o) /\ CasesListed(o)
    <2>1. page.reviewer # Nobody /\ page.status # "unauthenticated" /\ page \in Page
      BY <1>6 DEF IInv, Typed, SessionCurrent, Shaped, PageShape
    <2>2. ops[o].scope.case \in Matters
      <3>1. ops[o] \in Sent
        BY DEF IInv, Typed
      <3> QED
        BY <3>1 DEF Sent, Scope
    <2>3. ASSUME NEW c \in Matters, BeginCaseRequest(o, c),
                 UNCHANGED page \/ page' = [page EXCEPT !.status = "loading"]
          PROVE  IInv'
      <3>1. /\ page' \in Page /\ page'.status # "unauthenticated"
            /\ page'.reviewer = page.reviewer /\ page'.sid = page.sid
            /\ page'.gate = page.gate
        BY <2>1, <2>3 DEF Page
      <3>2. OverOrLoading(o) /\ EpochsGoOn /\ Loads(o)' /\ o \in 1 .. Len(ops')
        BY <1>1, <1>6, <2>3, BeginsToLoad
      <3>3. Awaited' /\ ReadyBelongs'
        BY <3>2 DEF Awaited, ReadyBelongs
      <3> QED
        BY <1>1, <1>6, <3>1, <3>2, <3>3, TurnsPage
    <2>4. ASSUME epochs' = [epochs EXCEPT !.case = @ + 1, !.asked = NoCase], End(o),
                 Merge([page EXCEPT !.status = "ready", !.case = NoCase, !.held = {}])
          PROVE  IInv'
      <3>1. /\ page' \in Page /\ page'.status = "ready"
            /\ page'.reviewer = page.reviewer /\ page'.sid = page.sid
            /\ page'.gate = page.gate /\ page'.case = NoCase /\ page'.held = {}
        <4>1. page' = [page EXCEPT !.status = "ready", !.case = NoCase, !.held = {}]
          BY <2>1, <2>4 DEF Merge
        <4> QED
          BY <2>1, <4>1 DEF Page, Matters
      <3>2. EpochsGoOn /\ epochs'.asked = NoCase
        <4>1. epochs \in Epochs /\ epochs.case + 1 \in Nat /\ NoCase \in Matters
          BY DEF IInv, Typed, Epochs, Matters
        <4> QED
          BY <2>4, <4>1 DEF Epochs, EpochsGoOn
      <3>3. OverOrLoading(o)
        BY <2>4, EndEnds DEF OverOrLoading, IInv
      <3>4. Awaited' /\ ReadyBelongs'
        BY <3>1, <3>2 DEF Awaited, ReadyBelongs, Belongs
      <3> QED
        BY <1>1, <1>6, <3>1, <3>2, <3>3, <3>4, TurnsPage
    <2> QED
      BY <1>6, <2>2, <2>3, <2>4 DEF CasesListed, Matters
  <1>7. ~SessionCurrent(o) \/ ops[o].kind = "create" => ~Loads(o)
    BY <1>1 DEF Loads
  <1> QED
    BY <1>3, <1>4, <1>5, <1>6, <1>7

\* The matter on screen is the one that was asked for.
LEMMA ShowsAnswer ==
  ASSUME IInv, NEW o \in 1 .. Len(ops), CaseCurrent(o), ops[o].at \in {"case", "refresh"},
         Merge([page EXCEPT !.status = "ready", !.case = ops[o].scope.case,
                            !.held = {Stamp(o)}]),
         End(o), UNCHANGED <<seen, form, epochs, cookie, session, tabs>>
  PROVE  IInv'
  <1>1. page.reviewer # Nobody /\ page \in Page /\ SessionCurrent(o)
    BY DEF IInv, Typed, CaseCurrent, SessionCurrent, Shaped
  <1>2. /\ ops[o].scope.case \in Matters
        /\ Stamp(o) \in [session : Nat, case : Matters]
        /\ Stamp(o) = [session |-> epochs.session, case |-> ops[o].scope.case]
        /\ ops[o].scope.case = epochs.asked
    <2>1. ops[o] \in Sent
      BY DEF IInv, Typed
    <2> QED
      BY <2>1 DEF Sent, Scope, Stamp, CaseCurrent, SessionCurrent
  <1>3. page' = [page EXCEPT !.status = "ready", !.case = ops[o].scope.case,
                             !.held = {Stamp(o)}]
    BY <1>1 DEF Merge
  <1>4. /\ page' \in Page /\ page'.status = "ready"
        /\ page'.reviewer = page.reviewer /\ page'.sid = page.sid
        /\ page'.gate = page.gate /\ page'.case = epochs.asked /\ page'.held = {Stamp(o)}
    BY <1>1, <1>2, <1>3 DEF Page
  <1>5. EpochsGoOn /\ OverOrLoading(o)
    BY SameStays, EndEnds DEF OverOrLoading, IInv
  <1>6. Awaited' /\ ReadyBelongs'
    BY <1>2, <1>4 DEF Awaited, ReadyBelongs, Belongs
  <1> QED
    BY <1>1, <1>4, <1>5, <1>6, TurnsPage

LEMMA CasePreserves ==
  ASSUME IInv, NEW o \in 1 .. Len(ops), CaseAnswered(o)
  PROVE  IInv'
  <1>1. /\ ops[o].at = "case" /\ End(o) /\ UNCHANGED <<seen, form, cookie, session, tabs>>
    BY DEF CaseAnswered, At
  <1>2. ~Booting(o) /\ (Loads(o) => CaseCurrent(o)) /\ (CaseCurrent(o) => SignedOn(o))
    BY <1>1 DEF Booting, Loads, CaseCurrent, SignedOn
  <1>3. CASE ~CaseCurrent(o) /\ UNCHANGED <<page, epochs>>
    BY <1>1, <1>2, <1>3, GivesUpHere
  <1>4. CASE /\ CaseCurrent(o) /\ UNCHANGED epochs
             /\ Merge([page EXCEPT !.status = "ready", !.case = ops[o].scope.case,
                                   !.held = {Stamp(o)}])
    BY <1>1, <1>4, ShowsAnswer
  <1>5. CASE CaseCurrent(o) /\ ClearServerSession
    BY <1>1, <1>2, <1>5, ClearsHere
  <1>6. CASE CaseCurrent(o) /\ page' = [page EXCEPT !.status = "error"] /\ UNCHANGED epochs
    BY <1>1, <1>2, <1>6, FailsHere
  <1> QED
    BY <1>3, <1>4, <1>5, <1>6 DEF CaseAnswered

LEMMA RefreshPreserves ==
  ASSUME IInv, NEW o \in 1 .. Len(ops), RefreshAnswered(o)
  PROVE  IInv'
  <1>1. /\ ops[o].at = "refresh" /\ End(o) /\ UNCHANGED <<seen, form, cookie, session, tabs>>
    BY DEF RefreshAnswered, At
  <1>2. ~Booting(o) /\ ~Loads(o) /\ (CaseCurrent(o) => SignedOn(o))
    BY <1>1 DEF Booting, Loads, CaseCurrent, SignedOn
  <1>3. CASE UNCHANGED <<page, epochs>>
    BY <1>1, <1>2, <1>3, GivesUpHere
  <1>4. CASE /\ CaseCurrent(o) /\ UNCHANGED epochs
             /\ Merge([page EXCEPT !.status = "ready", !.case = ops[o].scope.case,
                                   !.held = {Stamp(o)}])
    BY <1>1, <1>4, ShowsAnswer
  <1>5. CASE CaseCurrent(o) /\ ClearServerSession
    BY <1>1, <1>2, <1>5, ClearsHere
  <1> QED
    BY <1>3, <1>4, <1>5 DEF RefreshAnswered

\* The operation goes on, and the page is left as it is.
LEMMA GoesOnHere ==
  ASSUME IInv, NEW o \in 1 .. Len(ops), SessionCurrent(o), ops[o].at \in {"post", "create"},
         NEW at \in {"refresh", "cases"}, Send(o, at, ops[o].scope),
         UNCHANGED <<page, seen, form, epochs, cookie, session, tabs>>
  PROVE  IInv'
  <1>1. page.reviewer # Nobody /\ page.status # "unauthenticated" /\ page \in Page
    BY DEF IInv, Typed, SessionCurrent, Shaped, PageShape
  <1>2. /\ ops[o].scope \in Scope
        /\ ops[o].scope.auth <= epochs.auth /\ ops[o].scope.session <= epochs.session
    <2>1. ops[o] \in Sent /\ OpShape(ops[o], Len(session), epochs.auth, epochs.session)
      BY DEF IInv, Typed, Shaped, OpsShaped
    <2> QED
      BY <2>1 DEF Sent, OpShape
  <1>3. GoesOn(o, at, ops[o].scope)
    <2>1. cookie' \in Nat /\ at \in Labels
      BY DEF IInv, Typed, Labels
    <2> QED
      BY <1>2, <2>1, SendGoesOn DEF IInv
  <1>4. OverOrLoading(o)
    BY <1>2, <1>3 DEF OverOrLoading, GoesToLoad
  <1>5. EpochsStay /\ EpochsGoOn
    BY SameStays
  <1>6. \A j \in 1 .. Len(ops) : j # o => Alike(j, j) /\ j \in 1 .. Len(ops')
    BY <1>3, <1>5, StayAlike DEF GoesOn
  <1>7. ~Loads(o) /\ ~Booting(o) /\ ops[o].at # "logout"
    BY DEF Loads, Booting
  <1>8. Awaited'
    BY <1>6, <1>7 DEF IInv, Awaited, Alike
  <1>9. ReadyBelongs'
    BY <1>6, <1>7 DEF IInv, ReadyBelongs, Belongs, Alike, RotationElsewhere
  <1> QED
    BY <1>1, <1>4, <1>5, <1>8, <1>9, TurnsPage

\* The rows of a change are merged.
LEMMA MergesRows ==
  ASSUME IInv, NEW o \in 1 .. Len(ops), CaseCurrent(o), ops[o].at = "post",
         Merge([page EXCEPT !.held = @ \cup {Stamp(o)}]),
         End(o), UNCHANGED <<seen, form, epochs, cookie, session, tabs>>
  PROVE  IInv'
  <1>1. /\ page.reviewer # Nobody /\ page.status # "unauthenticated" /\ page \in Page
        /\ SessionCurrent(o)
    BY DEF IInv, Typed, CaseCurrent, SessionCurrent, Shaped, PageShape
  <1>2. /\ Stamp(o) \in [session : Nat, case : Matters]
        /\ Stamp(o) = [session |-> epochs.session, case |-> epochs.asked]
    <2>1. ops[o] \in Sent
      BY DEF IInv, Typed
    <2> QED
      BY <2>1 DEF Sent, Scope, Stamp, CaseCurrent, SessionCurrent
  <1>3. page' = [page EXCEPT !.held = page.held \cup {Stamp(o)}]
    BY <1>1 DEF Merge
  <1>4. /\ page' \in Page /\ page'.status = page.status
        /\ page'.reviewer = page.reviewer /\ page'.sid = page.sid
        /\ page'.gate = page.gate /\ page'.case = page.case
        /\ page'.held = page.held \cup {Stamp(o)}
    BY <1>1, <1>2, <1>3 DEF Page
  <1>5. EpochsStay /\ EpochsGoOn /\ Ends(o) /\ OverOrLoading(o)
    BY SameStays, EndEnds DEF OverOrLoading, IInv
  <1>6. \A j \in 1 .. Len(ops) : j # o => \E i \in 1 .. Len(ops') : Alike(i, j)
    BY <1>5, EndsAlike
  <1>7. ~Loads(o) /\ ~Booting(o) /\ ops[o].at # "logout"
    BY DEF Loads, Booting
  <1>8. Awaited'
    BY <1>4, <1>6, <1>7 DEF IInv, Awaited, Alike
  <1>9. ReadyBelongs'
    BY <1>2, <1>4, <1>6, <1>7 DEF IInv, ReadyBelongs, Belongs, Alike, RotationElsewhere
  <1> QED
    BY <1>1, <1>4, <1>5, <1>8, <1>9, TurnsPage

LEMMA PostPreserves ==
  ASSUME IInv, NEW o \in 1 .. Len(ops), PostAnswered(o)
  PROVE  IInv'
  <1>1. /\ ops[o].at = "post" /\ UNCHANGED <<seen, form, cookie, session, tabs>>
    BY DEF PostAnswered, At
  <1>2. ~Booting(o) /\ ~Loads(o) /\ (CaseCurrent(o) => SignedOn(o) /\ SessionCurrent(o))
    BY <1>1 DEF Booting, Loads, CaseCurrent, SignedOn
  <1>3. CASE End(o) /\ UNCHANGED <<page, epochs>>
    BY <1>1, <1>2, <1>3, GivesUpHere
  <1>4. CASE /\ CaseCurrent(o) /\ End(o) /\ UNCHANGED epochs
             /\ Merge([page EXCEPT !.held = @ \cup {Stamp(o)}])
    BY <1>1, <1>4, MergesRows
  <1>5. CASE CaseCurrent(o) /\ ClearServerSession /\ End(o)
    BY <1>1, <1>2, <1>5, ClearsHere
  <1>6. CASE CaseCurrent(o) /\ UNCHANGED <<page, epochs>> /\ Send(o, "refresh", ops[o].scope)
    BY <1>1, <1>2, <1>6, GoesOnHere
  <1> QED
    BY <1>3, <1>4, <1>5, <1>6 DEF PostAnswered

LEMMA CreatePreserves ==
  ASSUME IInv, NEW o \in 1 .. Len(ops), CreateAnswered(o)
  PROVE  IInv'
  <1>1. /\ ops[o].at = "create"
        /\ UNCHANGED <<page, seen, form, epochs, cookie, session, tabs>>
    BY DEF CreateAnswered, At
  <1>2. ~Booting(o) /\ ~Loads(o)
    BY <1>1 DEF Booting, Loads
  <1>3. CASE End(o)
    BY <1>1, <1>2, <1>3, GivesUpHere
  <1>4. CASE SessionCurrent(o) /\ Send(o, "cases", ops[o].scope)
    BY <1>1, <1>4, GoesOnHere
  <1> QED
    BY <1>3, <1>4 DEF CreateAnswered

LEMMA PasswordPreserves ==
  ASSUME IInv, NEW o \in 1 .. Len(ops), PasswordAnswered(o)
  PROVE  IInv'
  <1>1. /\ ops[o].at = "password" /\ UNCHANGED <<seen, form, cookie, tabs>>
    BY DEF PasswordAnswered, At
  <1>2. ~Booting(o) /\ ~Loads(o)
    BY <1>1 DEF Booting, Loads
  <1> PICK answer \in Answers(o) :
        /\ session' = IF answer = "ok" THEN [session EXCEPT ![ops[o].sid].must = FALSE] ELSE session
        /\ IF ~SessionCurrent(o) THEN End(o) /\ UNCHANGED <<page, epochs>>
           ELSE \/ /\ answer = "ok" /\ UNCHANGED epochs
                   /\ page' = [page EXCEPT !.gate = "none",
                                           !.status = IF ops[o].forced THEN "loading" ELSE @]
                   /\ IF ops[o].forced THEN Send(o, "cases", ops[o].scope) ELSE End(o)
                \/ answer = "unauthorized" /\ ClearServerSession /\ End(o)
                \/ answer = "error" /\ End(o) /\ UNCHANGED <<page, epochs>>
    BY DEF PasswordAnswered
  <1>3. SessionsGoOn
    <2>1. CASE answer = "ok"
      <3> PICK sid : sid = ops[o].sid
        OBVIOUS
      <3>1. sid \in 1 .. Len(session) /\ session' = [session EXCEPT ![sid].must = FALSE]
        BY <2>1, AnswersOk
      <3> QED
        BY <3>1, PasswordIsNew DEF IInv, Typed
    <2>2. CASE answer # "ok"
      BY <2>2, SameStays
    <2> QED
      BY <2>1, <2>2
  <1>4. CASE End(o) /\ UNCHANGED <<page, epochs>>
    BY <1>1, <1>2, <1>3, <1>4, SameStays, EndEnds, GivesUp DEF IInv
  <1>5. CASE SessionCurrent(o) /\ answer = "unauthorized" /\ ClearServerSession /\ End(o)
    BY <1>1, <1>5, ClearsHere DEF SignedOn
  <1>6. CASE /\ SessionCurrent(o) /\ answer = "ok" /\ UNCHANGED epochs
             /\ page' = [page EXCEPT !.gate = "none",
                                     !.status = IF ops[o].forced THEN "loading" ELSE @]
             /\ IF ops[o].forced THEN Send(o, "cases", ops[o].scope) ELSE End(o)
    <2>1. ops[o].good /\ session' = [session EXCEPT ![ops[o].sid].must = FALSE]
      BY <1>6, AnswersOk
    <2>2. ops[o] \in Sent /\ ops[o].scope \in Scope /\ cookie' \in Nat /\ "cases" \in Labels
      <3>1. ops[o] \in Sent /\ cookie' \in Nat
        BY <1>1 DEF IInv, Typed
      <3> QED
        BY <3>1 DEF Sent, Labels
    <2>3. IF ops[o].forced THEN GoesOn(o, "cases", ops[o].scope) ELSE Ends(o)
      BY <1>6, <2>2, SendGoesOn, EndEnds DEF IInv
    <2> QED
      BY <1>1, <1>6, <2>1, <2>3, TakesPassword
  <1> QED
    BY <1>4, <1>5, <1>6

LEMMA CheckPreserves ==
  ASSUME IInv, NEW o \in 1 .. Len(ops), CheckAnswered(o)
  PROVE  IInv'
  <1> DEFINE kept == [epochs EXCEPT !.checking = IF @ = ops[o].scope.session THEN 0 ELSE @]
             ends == [ClearedEpochs EXCEPT !.checking = kept.checking]
             sid == ops[o].sid
  <1>1. /\ ops[o].at = "check" /\ End(o) /\ UNCHANGED <<seen, form, cookie, session, tabs>>
    BY DEF CheckAnswered, At
  <1>2. ~Booting(o) /\ ~Loads(o) /\ Ends(o) /\ SessionsGoOn
    BY <1>1, EndEnds, SameStays DEF Booting, Loads, IInv
  <1>3. kept \in Epochs /\ (epochs' = kept => EpochsStay)
    <2>1. epochs \in Epochs
      BY DEF IInv, Typed
    <2>2. (IF epochs.checking = ops[o].scope.session THEN 0 ELSE epochs.checking) \in Nat
      BY <2>1 DEF Epochs
    <2>3. kept = [epochs EXCEPT !.checking =
                    IF epochs.checking = ops[o].scope.session THEN 0 ELSE epochs.checking]
      OBVIOUS
    <2> HIDE DEF kept
    <2> QED
      BY <2>1, <2>2, <2>3 DEF Epochs, EpochsStay
  <1>4. ~epochs.leaving /\ epochs' = ends => EpochsClear
    <2> DEFINE cleared == ClearedEpochs
    <2>1. /\ cleared \in Epochs /\ ~cleared.signedIn
          /\ cleared.auth = epochs.auth + 1 /\ cleared.session = epochs.session + 1
          /\ cleared.leaving = epochs.leaving
      BY ClearedEpochsAre DEF IInv, Typed
    <2>2. ends = [cleared EXCEPT !.checking = kept.checking]
      OBVIOUS
    <2>3. kept.checking \in Nat
      BY <1>3 DEF Epochs
    <2> HIDE DEF cleared, kept, ends
    <2> QED
      BY <2>1, <2>2, <2>3 DEF Epochs, EpochsClear
  <1> HIDE DEF kept, ends
  <1> PICK answer \in Answers(o) :
        IF ~SessionCurrent(o) THEN epochs' = kept /\ UNCHANGED page
        ELSE \/ /\ answer = "ok" /\ (Expired(sid) \/ session[sid].by # page.reviewer)
                /\ epochs' = ends /\ page' = Cleared
             \/ /\ answer = "ok" /\ ~Expired(sid) /\ session[sid].by = page.reviewer
                /\ page' = [page EXCEPT
                     !.sid = sid,
                     !.status = IF session[sid].must THEN "ready" ELSE @,
                     !.gate = IF session[sid].must THEN "forced" ELSE @]
                /\ epochs' = kept
             \/ answer = "unauthorized" /\ epochs' = ends /\ page' = Cleared
             \/ answer = "error" /\ epochs' = kept /\ UNCHANGED page
    BY DEF CheckAnswered, kept, ends
  <1>5. CASE epochs' = kept /\ UNCHANGED page
    BY <1>1, <1>2, <1>3, <1>5, GivesUp
  <1>6. CASE SessionCurrent(o) /\ epochs' = ends /\ page' = Cleared
    <2>1. SignedOn(o) /\ ~epochs.leaving
      BY <1>1, <1>6, SignedOnAlone DEF SignedOn
    <2> QED
      BY <1>1, <1>2, <1>4, <1>6, <2>1, Clears
  <1>7. CASE /\ SessionCurrent(o) /\ answer = "ok" /\ epochs' = kept
             /\ page' = [page EXCEPT
                  !.sid = sid,
                  !.status = IF session[sid].must THEN "ready" ELSE @,
                  !.gate = IF session[sid].must THEN "forced" ELSE @]
    BY <1>1, <1>2, <1>3, <1>7, AnswersOk, Rechecks
  <1> QED
    BY <1>5, <1>6, <1>7

LEMMA LogoutPreserves ==
  ASSUME IInv, NEW o \in 1 .. Len(ops), LogoutAnswered(o)
  PROVE  IInv'
  <1> PICK sid : sid = ops[o].sid
    OBVIOUS
  <1>1. /\ ops[o].at = "logout" /\ End(o) /\ UNCHANGED <<seen, form, tabs>>
        /\ epochs' = [epochs EXCEPT !.leaving = FALSE]
        /\ page' = IF epochs.signedIn THEN page ELSE Cleared
        /\ cookie' \in {0, cookie}
    BY DEF LogoutAnswered, At
  <1>2. \/ UNCHANGED session
        \/ /\ sid # 0
           /\ session' = [session EXCEPT ![sid].standing = IF @ = "live" THEN "revoked" ELSE @]
    BY DEF LogoutAnswered
  <1>3. SessionsGoOn
    <2>1. CASE UNCHANGED session
      BY <2>1, SameStays
    <2>2. CASE /\ sid # 0
               /\ session' = [session EXCEPT ![sid].standing = IF @ = "live" THEN "revoked" ELSE @]
      <3>1. sid \in 1 .. Len(session)
        <4>1. ops[o] \in Sent /\ OpShape(ops[o], Len(session), epochs.auth, epochs.session)
          BY DEF IInv, Typed, Shaped, OpsShaped
        <4> QED
          BY <2>2, <4>1 DEF OpShape, Sent, IInv, Typed
      <3> DEFINE new == [session[sid] EXCEPT !.standing = IF @ = "live" THEN "revoked" ELSE @]
      <3>2. session[sid] \in Known
        BY <3>1 DEF IInv, Typed
      <3>3. new \in Known /\ new.by = session[sid].by /\ new.must = session[sid].must
        BY <3>2 DEF Known
      <3>4. session' = [session EXCEPT ![sid] = new]
        BY <2>2
      <3> HIDE DEF new
      <3> QED
        BY <3>1, <3>3, <3>4, SessionGoesOn DEF IInv, Typed
    <2> QED
      BY <1>2, <2>1, <2>2
  <1> QED
    BY <1>1, <1>3, EndEnds, SignsOut DEF IInv

LEMMA AnswerPreserves ==
  ASSUME IInv, NEW o \in 1 .. Len(ops), Answered(o)
  PROVE  IInv'
  BY BootPreserves, LoginPreserves, CasesPreserve, CasePreserves, PostPreserves,
     RefreshPreserves, CreatePreserves, PasswordPreserves, CheckPreserves, LogoutPreserves
  DEF Answered

-----------------------------------------------------------------------------
(***************************************************************************)
(* What the reviewer does.                                                 *)
(***************************************************************************)
LEMMA SwitchPreserves ==
  ASSUME IInv, NEW c \in Cases, SwitchCase(c)
  PROVE  IInv'
  <1> PICK n \in Nat : n = Len(ops) + 1
    BY DEF IInv, Typed
  <1>1. /\ seen.status # "unauthenticated" /\ epochs.signedIn
        /\ UNCHANGED <<seen, form, cookie, session, tabs>>
        /\ page' = [page EXCEPT !.status = "loading"]
        /\ epochs' = [epochs EXCEPT !.case = @ + 1, !.asked = c]
    BY DEF SwitchCase, Open, UnchangedWorld
  <1>2. EpochsGoOn /\ epochs'.asked = c
    <2>1. epochs \in Epochs /\ epochs.case + 1 \in Nat /\ c \in Matters
      BY DEF IInv, Typed, Epochs, Matters
    <2> QED
      BY <1>1, <2>1 DEF Epochs, EpochsGoOn
  <1> PICK scope : scope = CaseScope(c)
    OBVIOUS
  <1>3. /\ scope \in Scope /\ scope.auth = 0 /\ scope.session = epochs'.session
        /\ scope.epoch = epochs'.case /\ scope.case = c
    BY <1>2, CaseScopeIs DEF EpochsGoOn, Matters
  <1> PICK op : op = Operation("switch", scope)
    OBVIOUS
  <1>4. op \in Sent /\ op.scope = scope
    BY <1>3 DEF Operation, Sent, Kinds
  <1>5. Starts(op, "case")
    <2>1. cookie' \in Nat /\ "case" \in Labels
      BY <1>1 DEF IInv, Typed, Labels
    <2> QED
      BY <1>4, <2>1, StartStarts DEF SwitchCase, IInv
  <1>6. /\ page' \in Page /\ page'.status = "loading" /\ page'.reviewer = page.reviewer
        /\ page'.sid = page.sid /\ page'.gate = page.gate
    BY <1>1 DEF IInv, Typed, Page
  <1>7. n \in 1 .. Len(ops') /\ Loads(n)'
    <2>1. n \in 1 .. Len(ops') /\ SentAs(ops'[n], op, "case", op.scope)
      BY <1>5, StartsWhere DEF Starts, IInv
    <2>2. ops'[n].at = "case" /\ ops'[n].scope = scope
      BY <1>4, <2>1 DEF SentAs
    <2> QED
      BY <1>1, <1>2, <1>3, <2>1, <2>2 DEF Loads, CaseCurrent, SessionCurrent, EpochsGoOn
  <1>8. Awaited' /\ ReadyBelongs'
    BY <1>6, <1>7 DEF Awaited, ReadyBelongs
  <1> QED
    BY <1>1, <1>2, <1>3, <1>4, <1>5, <1>6, <1>8, Asks DEF EpochsGoOn, IInv, Typed

\* What leaves the page as it is for now.
LEMMA AsksQuietly ==
  ASSUME IInv, NEW op \in Sent, NEW at \in {"create", "post", "password", "check"},
         Start(op, at), EpochsStay, epochs.signedIn, seen.status # "unauthenticated",
         op.scope.auth = 0, op.scope.session = epochs.session,
         at = "password" => op.kind = "password" /\ op.forced = (seen.gate = "forced"),
         at = "password" => Changing(seen),
         form' \in BOOLEAN, UNCHANGED <<page, seen, cookie, session, tabs>>
  PROVE  IInv'
  <1>1. Starts(op, at) /\ at \in Labels
    <2>1. cookie' \in Nat /\ at \in Labels
      BY DEF IInv, Typed, Labels
    <2> QED
      BY <2>1, StartStarts DEF IInv
  <1>2. EpochsGoOn
    BY DEF EpochsStay, EpochsGoOn
  <1>3. Awaited' /\ ReadyBelongs'
    BY <1>1, StaysAwaited
  <1>4. page \in Page /\ page.status # "unauthenticated"
    BY DEF IInv, Typed, Shaped, PageShape
  <1> QED
    BY <1>1, <1>2, <1>3, <1>4, Asks

\* Scopes within the session as it is.
LEMMA ScopesHere ==
  ASSUME IInv, EpochsStay
  PROVE  /\ SessionScope \in Scope
         /\ SessionScope.auth = 0 /\ SessionScope.session = epochs.session
         /\ \A c \in Matters : /\ CaseScope(c) \in Scope
                               /\ CaseScope(c).auth = 0
                               /\ CaseScope(c).session = epochs.session
  BY SessionScopeIs, CaseScopeIs DEF EpochsStay

LEMMA CreateMatterPreserves ==
  ASSUME IInv, NEW c \in Cases, CreateMatter(c)
  PROVE  IInv'
  <1>1. /\ seen.status # "unauthenticated" /\ epochs.signedIn
        /\ UNCHANGED <<page, epochs, seen, form, cookie, session, tabs>>
    BY DEF CreateMatter, Open, UnchangedWorld
  <1>2. EpochsStay
    BY <1>1, SameStays
  <1> PICK scope : scope = [SessionScope EXCEPT !.case = c]
    OBVIOUS
  <1>3. scope \in Scope /\ scope.auth = 0 /\ scope.session = epochs.session
    BY <1>2, ScopesHere DEF Scope, Matters
  <1> PICK op : op = Operation("create", scope)
    OBVIOUS
  <1>4. op \in Sent /\ op.scope = scope /\ Start(op, "create")
    BY <1>3 DEF Operation, Sent, Kinds, CreateMatter
  <1> QED
    BY <1>1, <1>2, <1>3, <1>4, AsksQuietly DEF IInv, Typed

LEMMA ChangePreserves ==
  ASSUME IInv, Change
  PROVE  IInv'
  <1>1. /\ seen.status # "unauthenticated" /\ epochs.signedIn
        /\ UNCHANGED <<page, epochs, seen, form, cookie, session, tabs>>
    BY DEF Change, Open, UnchangedWorld
  <1>2. EpochsStay
    BY <1>1, SameStays
  <1> PICK scope : scope = CaseScope(seen.case)
    OBVIOUS
  <1>3. scope \in Scope /\ scope.auth = 0 /\ scope.session = epochs.session
    <2>1. seen.case \in Matters
      BY DEF IInv, Typed, Page
    <2> QED
      BY <1>2, <2>1, ScopesHere
  <1> PICK op : op = Operation("change", scope)
    OBVIOUS
  <1>4. op \in Sent /\ op.scope = scope /\ Start(op, "post")
    BY <1>3 DEF Operation, Sent, Kinds, Change
  <1> QED
    BY <1>1, <1>2, <1>3, <1>4, AsksQuietly DEF IInv, Typed

LEMMA ChangePasswordPreserves ==
  ASSUME IInv, ChangePassword
  PROVE  IInv'
  <1>1. /\ Changing(seen) /\ epochs.signedIn /\ form'
        /\ UNCHANGED <<page, epochs, seen, cookie, session, tabs>>
    BY DEF ChangePassword
  <1>2. EpochsStay /\ seen.status # "unauthenticated"
    BY <1>1, SameStays DEF Changing
  <1> PICK scope : scope = SessionScope
    OBVIOUS
  <1>3. scope \in Scope /\ scope.auth = 0 /\ scope.session = epochs.session
    BY <1>2, ScopesHere
  <1> PICK forced \in BOOLEAN : forced = (seen.gate = "forced")
    OBVIOUS
  <1> PICK op : op = [Operation("password", scope) EXCEPT !.forced = forced]
    OBVIOUS
  <1>4. op \in Sent /\ op.scope = scope /\ op.kind = "password" /\ op.forced = forced
    BY <1>3 DEF Operation, Sent, Kinds
  <1>5. Start(op, "password")
    BY DEF ChangePassword
  <1> QED
    BY <1>1, <1>2, <1>3, <1>4, <1>5, AsksQuietly

LEMMA RevalidatePreserves ==
  ASSUME IInv, Revalidate
  PROVE  IInv'
  <1>1. /\ seen.status # "unauthenticated" /\ epochs.signedIn
        /\ UNCHANGED <<page, seen, form, cookie, session, tabs>>
        /\ epochs' = [epochs EXCEPT !.checking = epochs.session]
    BY DEF Revalidate, Open, UnchangedWorld
  <1>2. EpochsStay
    <2>1. epochs \in Epochs /\ epochs.session \in Nat
      BY DEF IInv, Typed, Epochs
    <2> QED
      BY <1>1, <2>1 DEF Epochs, EpochsStay
  <1> PICK scope : scope = SessionScope
    OBVIOUS
  <1>3. scope \in Scope /\ scope.auth = 0 /\ scope.session = epochs.session
    BY <1>2, ScopesHere
  <1> PICK op : op = Operation("check", scope)
    OBVIOUS
  <1>4. op \in Sent /\ op.scope = scope /\ Start(op, "check")
    BY <1>3 DEF Operation, Sent, Kinds, Revalidate
  <1> QED
    BY <1>1, <1>2, <1>3, <1>4, AsksQuietly DEF IInv, Typed

LEMMA GatePreserves ==
  ASSUME IInv, RequestPasswordChange \/ DismissPasswordChange
  PROVE  IInv'
  BY TurnsGate DEF RequestPasswordChange, DismissPasswordChange, UnchangedWorld

LEMMA ReviewerPreserves ==
  ASSUME IInv, ReviewerActs
  PROVE  IInv'
  BY Retries, SignsIn, Leaves, RevalidatePreserves, ChangePreserves, GatePreserves,
     ChangePasswordPreserves, SwitchPreserves, CreateMatterPreserves
  DEF ReviewerActs

LEMMA TimerPreserves ==
  ASSUME IInv, TimerFires
  PROVE  IInv'
  <1>1. epochs.signedIn /\ UNCHANGED <<ops, seen, form, cookie, session, tabs>>
    BY DEF TimerFires, UnchangedWorld
  <1>2. ~epochs.leaving
    BY <1>1 DEF IInv, Shaped, SignOutAlone
  <1>3. page' = Cleared /\ EpochsClear
    BY <1>2, ClearsEpochs DEF TimerFires
  <1> QED
    BY <1>1, <1>3, RunsOut

-----------------------------------------------------------------------------
(***************************************************************************)
(* The theorems.                                                           *)
(***************************************************************************)
LEMMA InitHolds == Init => IInv
  <1> SUFFICES ASSUME Init
               PROVE  IInv
    OBVIOUS
  <1>1. /\ session \in Seq(Known) /\ Len(session) \in {0, 1}
        /\ \A i \in 1 .. Len(session) : session[i].must => session[i].by \in Temporary
        /\ cookie = Len(session)
    <2>1. CASE session = <<>>
      BY <2>1 DEF Init
    <2>2. ASSUME NEW r \in Reviewers,
                 session = <<[by |-> r, standing |-> "live", must |-> r \in Temporary]>>
          PROVE  /\ session \in Seq(Known) /\ Len(session) = 1
                 /\ \A i \in 1 .. 1 : session[i].must => session[i].by \in Temporary
      <3> DEFINE new == [by |-> r, standing |-> "live", must |-> r \in Temporary]
      <3>1. new \in Known /\ new.must = (r \in Temporary) /\ new.by = r
        BY DEF Known
      <3> HIDE DEF new
      <3>2. session = <<new>>
        BY <2>2 DEF new
      <3>3. session \in Seq(Known) /\ Len(session) = 1 /\ session[1] = new
        BY <3>1, <3>2
      <3>4. \A i \in 1 .. 1 : i = 1
        OBVIOUS
      <3> QED
        BY <3>1, <3>3, <3>4
    <2> QED
      BY <2>1, <2>2 DEF Init
  <1>2. /\ page \in Page /\ page.status = "loading" /\ page.reviewer = Nobody
        /\ page.gate = "none" /\ page.case = NoCase /\ page.held = {} /\ seen = page
    <2>1. page = [Cleared EXCEPT !.status = "loading"] /\ seen = page
      BY DEF Init
    <2> QED
      BY <2>1, ClearedIsTyped DEF Cleared, Page
  <1>3. /\ epochs \in Epochs /\ epochs.auth = 1 /\ epochs.session = 0 /\ ~epochs.signedIn
        /\ ~epochs.leaving
    BY DEF Init, Epochs, Matters
  <1> PICK op : op = [Operation("boot", [NoScope EXCEPT !.auth = 1]) EXCEPT
                        !.at = "session", !.sid = cookie, !.good = cookie # 0]
    OBVIOUS
  <1>4. /\ op \in Sent /\ op.at = "session" /\ op.kind = "boot" /\ op.sid = cookie
        /\ (op.good => op.sid # 0) /\ op.scope.auth = 1 /\ op.scope.session = 0
    <2>1. cookie \in Nat /\ (cookie # 0) \in BOOLEAN
      BY <1>1
    <2>2. [NoScope EXCEPT !.auth = 1] \in Scope
      BY DEF NoScope, Scope, Matters
    <2> QED
      BY <2>1, <2>2 DEF Operation, Sent, Kinds, Labels, NoScope
  <1>5. ops = <<op>>
    BY DEF Init
  <1>6. /\ ops \in Seq(Sent) /\ 1 \in 1 .. Len(ops)
        /\ \A i \in 1 .. Len(ops) : i = 1 /\ ops[i] = op
    BY <1>4, <1>5
  <1>7. Typed
    <2>1. form = FALSE /\ tabs = {}
      BY DEF Init
    <2>2. cookie \in 0 .. Len(session)
      BY <1>1
    <2> QED
      BY <1>1, <1>2, <1>3, <1>6, <2>1, <2>2 DEF Typed
  <1> HIDE DEF Init
  <1>8. OpsShaped
    <2>1. OpShape(op, Len(session), epochs.auth, epochs.session)
      BY <1>1, <1>3, <1>4 DEF OpShape
    <2> QED
      BY <1>6, <2>1 DEF OpsShaped
  <1>9. Shaped
    BY <1>1, <1>2, <1>3, <1>8 DEF Shaped, PageShape
  <1>10. SignInAlone /\ SignOutAlone
    <2>1. \A i \in 1 .. Len(ops) : ops[i].at = "session"
      BY <1>4, <1>6
    <2>2. OneAt("login") /\ OneAt("logout")
      BY <2>1 DEF OneAt
    <2> QED
      BY <1>3, <2>1, <2>2 DEF SignInAlone, SignOutAlone
  <1>11. BootsHere /\ NamesThisSession /\ OpenedHere
    <2>1. \A i \in 1 .. Len(ops) : ops[i].at = "session" /\ ops[i].sid = cookie
      BY <1>4, <1>6
    <2> QED
      BY <1>1, <1>2, <2>1 DEF BootsHere, CookieNames, NamesThisSession, OpenedHere, Open
  <1>12. Booting(1) /\ 1 \in 1 .. Len(ops)
    BY <1>3, <1>4, <1>6 DEF Booting, AuthCurrent
  <1> QED
    BY <1>2, <1>7, <1>9, <1>10, <1>11, <1>12
    DEF IInv, FormIsShown, GateWasAsked, ForcedIsShut, MustIsForced, Awaited, ReadyBelongs,
        CookieIsOfThePage

LEMMA NextPreserves == IInv /\ [Next]_vars => IInv'
  <1> SUFFICES ASSUME IInv, [Next]_vars
               PROVE  IInv'
    OBVIOUS
  <1>1. CASE UNCHANGED vars
    BY <1>1 DEF vars, IInv, Typed, Shaped, PageShape, OpsShaped, OpShape, SignInAlone,
      SignOutAlone, OneAt, BootsHere, Booting, NamesThisSession, FormIsShown, GateWasAsked,
      ForcedIsShut, MustIsForced, Awaited, Loads, ReadyBelongs, Belongs, CookieIsOfThePage,
      CookieNames, OpenedHere, AuthCurrent, SessionCurrent, CaseCurrent, Open, Changing, RotationElsewhere
  <1>2. CASE Next
    BY <1>2, AnswerPreserves, ReviewerPreserves, Renders, TimerPreserves, EndsElsewhere,
      PasswordElsewhere, SignsInElsewhere, SignsOutElsewhere DEF Next
  <1> QED
    BY <1>1, <1>2

LEMMA AlwaysIInv == Spec => []IInv
  BY InitHolds, NextPreserves, PTL DEF Spec

\* What the store, its operations and the sessions are made of.
THEOREM StoreTyped == Spec => []Typed
  BY AlwaysIInv, PTL DEF IInv

\* Once nothing is being loaded any more, the matter on screen is the one asked for
\* last, and all that is held of it was answered to requests made in this session for
\* this matter (isCaseScopeCurrent, reducer), whatever the reviewer has opened, left
\* and come back to while answers were out, and however often he signed in again.
THEOREM ShownIsWhatBelongs == Spec => []ShownBelongsHere
  BY AlwaysIInv, ShownFollows, PTL

\* The cookie names the session of the reviewer on the page as long as no other tab has
\* signed in or out, and is never another session's before one has signed in: a sign-in
\* waits for the sign-out of the page before it (logout, login).
THEOREM CookieStays == Spec => []CookieIsOfThePage
  <1>1. IInv => CookieIsOfThePage
    BY DEF IInv
  <1> QED
    BY <1>1, AlwaysIInv, PTL

\* A page that says that it loads awaits an answer that it will take (boot_loading):
\* no answer that is given up leaves the reviewer before an empty screen.
THEOREM LoadingIsForSomething == Spec => []LoadingIsAwaited
  BY AlwaysIInv, LoadingFollows, PTL

=============================================================================
