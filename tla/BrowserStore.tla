---------------------------- MODULE BrowserStore ----------------------------
(***************************************************************************)
(* The browser's store in server mode (src/state/store.tsx): what the page *)
(* holds, the epochs that decide whether an answer still belongs to it, and *)
(* the operations under way, each of which awaits one answer after another  *)
(* while the reviewer signs out, signs in and changes matters.             *)
(*                                                                         *)
(* The page is rendered some time after it changes: what the reviewer sees *)
(* and what an operation reads when it starts is "seen", the epochs are    *)
(* always up to date.  The server and the cookie are external: an answer is *)
(* one the server may have given between the sending of the request and    *)
(* now.                                                                    *)
(***************************************************************************)
EXTENDS Naturals, Sequences

CONSTANTS
  Reviewers,    \* those who sign in here
  Temporary,    \* those whose password an administrator has set
  Cases,        \* the matters
  Nobody,       \* stands for no reviewer
  NoCase,       \* stands for no matter
  MaxOps,       \* bound on the operations started, here and in other tabs
  MaxSessions   \* bound on the sessions the server opens

VARIABLES
  page,     \* the state of the store, as of the last dispatch
  seen,     \* the state as last rendered
  form,     \* the form on screen still waits for what it has submitted
  epochs,   \* the refs: epochs, matter asked for, flags
  ops,      \* the operations under way, in the order they started
  started,  \* how many operations there have been, here and in other tabs
  timer,    \* the expiry the page waits for, and for which session it does
  cookie,   \* the session the browser's cookie names, 0 for none
  session,  \* the server's sessions, in the order they were opened
  tabs      \* what other tabs have done: "in" they signed in, "out" they signed out

vars == <<page, seen, form, epochs, ops, started, timer, cookie, session, tabs>>

ASSUME BrowserAssumption == Nobody \notin Reviewers

-----------------------------------------------------------------------------
(***************************************************************************)
(* The page and the epochs.                                                *)
(***************************************************************************)

\* What the page holds once a session is cleared (session_cleared).
Cleared ==
  [status |-> "unauthenticated", reviewer |-> Nobody, sid |-> 0, gate |-> "none",
   case |-> NoCase, held |-> {}]

\* The reviewer sees a matter, or that there is none (App).
Open(p) == p.status = "ready" /\ p.gate = "none"

\* The form on screen is the one to change the password (App).
Changing(p) == p.status \in {"ready", "error"} /\ p.gate # "none"

\* A matter's data is dropped when nobody is signed in (reducer).
Merge(new) == page' = IF page.reviewer = Nobody THEN page ELSE new

\* What an operation goes on only in: its authentication, its session, its matter
\* (captureSessionScope, captureCaseScope).
NoScope == [auth |-> 0, session |-> 0, epoch |-> 0, case |-> NoCase]

AuthScope == [NoScope EXCEPT !.auth = epochs'.auth]

SessionScope == [NoScope EXCEPT !.session = epochs'.session]

CaseScope(c) == [SessionScope EXCEPT !.epoch = epochs'.case, !.case = c]

\* A request goes out with the cookie the browser has by then.  When it was caused
\* by a change of the page, the change is rendered before the answer is there.
Request(op, at) ==
  [op EXCEPT !.at = at, !.sid = cookie', !.unseen = page' # seen,
             !.good = cookie' # 0 /\ session'[cookie'].standing = "live"]

Operation(kind, scope) ==
  [kind |-> kind, at |-> "none", scope |-> scope, forced |-> FALSE, closed |-> FALSE,
   unseen |-> FALSE, sid |-> 0, good |-> FALSE]

Start(op, at) ==
  /\ started < MaxOps
  /\ started' = started + 1
  /\ ops' = Append(ops, Request(op, at))

Send(o, at, scope) == ops' = [ops EXCEPT ![o] = Request([@ EXCEPT !.scope = scope], at)]

End(o) == ops' = SubSeq(ops, 1, o - 1) \o SubSeq(ops, o + 1, Len(ops))

AuthCurrent(o) == epochs.auth = ops[o].scope.auth

SessionCurrent(o) == epochs.signedIn /\ epochs.session = ops[o].scope.session

\* MUTANT: an answer is taken while the session lasts, whatever matter it is for.
SessionOnly(o) == SessionCurrent(o)

CaseCurrent(o) ==
  /\ SessionCurrent(o)
  /\ epochs.case = ops[o].scope.epoch
  /\ epochs.asked = ops[o].scope.case

NextSession(e) == [e EXCEPT !.session = @ + 1, !.case = @ + 1, !.asked = NoCase]

BeginSession == epochs' = [NextSession(epochs) EXCEPT !.signedIn = TRUE]

ClearedEpochs == [NextSession(epochs) EXCEPT !.auth = @ + 1, !.signedIn = FALSE]

ClearServerSession ==
  /\ epochs' = ClearedEpochs
  /\ page' = Cleared

\* The matter asked for is another from now on, and so are its requests.
BeginCaseRequest(o, c) ==
  /\ epochs' = [epochs EXCEPT !.case = @ + 1, !.asked = c]
  /\ Send(o, "case", CaseScope(c))

-----------------------------------------------------------------------------
(***************************************************************************)
(* The answers.  A request is answered as one with the session it named,   *)
(* as one without, or not at all: refused, or lost, or late.               *)
(***************************************************************************)
At(o, at) == o \in 1 .. Len(ops) /\ ops[o].at = at /\ ~ops[o].unseen

Answers(o) ==
  {"error"} \cup (IF ops[o].good THEN {"ok"} ELSE {})
            \cup (IF ops[o].sid = 0 THEN {"unauthorized"}
                  ELSE IF session[ops[o].sid].standing # "live" THEN {"unauthorized"} ELSE {})

Expired(sid) == session[sid].standing = "expired"

Opened(by) == Append(session, [by |-> by, standing |-> "live", must |-> by \in Temporary])

\* A session is known: the page belongs to its reviewer from now on
\* (session_established, and boot_loading after a sign-in).
Establish(o, sid, s) ==
  /\ BeginSession
  /\ page' = [page EXCEPT
       !.status = IF s[sid].must THEN "ready" ELSE IF ops[o].kind = "login" THEN "loading" ELSE @,
       !.reviewer = s[sid].by, !.sid = sid,
       !.gate = IF s[sid].must THEN "forced" ELSE "none"]
  /\ IF s[sid].must THEN End(o) ELSE Send(o, "cases", SessionScope)

BootAnswered(o) ==
  /\ At(o, "session")
  /\ UNCHANGED <<cookie, session>>
  /\ \E answer \in Answers(o) :
       IF ~AuthCurrent(o) THEN End(o) /\ UNCHANGED <<page, epochs>>
       ELSE \/ answer = "ok" /\ ~Expired(ops[o].sid) /\ Establish(o, ops[o].sid, session)
            \/ answer = "ok" /\ Expired(ops[o].sid) /\ ClearServerSession /\ End(o)
            \/ answer = "unauthorized" /\ ClearServerSession /\ End(o)
            \/ /\ answer = "error"
               /\ page' = [page EXCEPT !.status = "error"]
               /\ End(o) /\ UNCHANGED epochs
  /\ UNCHANGED <<seen, form, started, timer, tabs>>

\* A sign-in's answer brings the cookie, whoever still waits for it.
LoginAnswered(o) ==
  /\ At(o, "login")
  /\ \/ /\ Len(session) < MaxSessions
        /\ \E by \in Reviewers : session' = Opened(by)
        /\ cookie' = Len(session')
        /\ IF AuthCurrent(o) THEN Establish(o, cookie', session')
           ELSE End(o) /\ UNCHANGED <<page, epochs>>
     \/ End(o) /\ UNCHANGED <<page, epochs, cookie, session>>
  /\ UNCHANGED <<seen, form, started, timer, tabs>>

\* The list of matters is known; the first one, or the one just opened, is loaded.
CasesListed(o) ==
  \/ /\ ops[o].kind = "create"
     /\ page' = [page EXCEPT !.status = "loading"]
     /\ BeginCaseRequest(o, ops[o].scope.case)
  \/ /\ ops[o].kind # "create"
     /\ \/ UNCHANGED page /\ \E c \in Cases : BeginCaseRequest(o, c)
        \/ /\ epochs' = [epochs EXCEPT !.case = @ + 1, !.asked = NoCase]
           /\ Merge([page EXCEPT !.status = "ready", !.case = NoCase, !.held = {}])
           /\ End(o)

CasesAnswered(o) ==
  /\ At(o, "cases")
  /\ UNCHANGED <<cookie, session>>
  /\ \E answer \in Answers(o) :
       IF ~SessionCurrent(o) THEN End(o) /\ UNCHANGED <<page, epochs>>
       ELSE \/ answer = "ok" /\ CasesListed(o)
            \/ /\ answer # "ok" /\ ops[o].kind = "create"
               /\ End(o) /\ UNCHANGED <<page, epochs>>
            \/ /\ answer = "unauthorized" /\ ops[o].kind # "create"
               /\ ClearServerSession /\ End(o)
            \/ /\ answer = "error" /\ ops[o].kind # "create"
               /\ page' = [page EXCEPT !.status = "error"]
               /\ End(o) /\ UNCHANGED epochs
  /\ UNCHANGED <<seen, form, started, timer, tabs>>

\* What a matter's answer is for: the session and the matter it was asked in.
Stamp(o) == [session |-> ops[o].scope.session, case |-> ops[o].scope.case]

CaseAnswered(o) ==
  /\ At(o, "case")
  /\ \E answer \in Answers(o) :
       IF ~CaseCurrent(o) THEN UNCHANGED <<page, epochs>>
       ELSE \/ /\ answer = "ok"
               /\ Merge([page EXCEPT !.status = "ready", !.case = ops[o].scope.case,
                                     !.held = {Stamp(o)}])
               /\ UNCHANGED epochs
            \/ answer = "unauthorized" /\ ClearServerSession
            \/ answer = "error" /\ page' = [page EXCEPT !.status = "error"] /\ UNCHANGED epochs
  /\ End(o)
  /\ UNCHANGED <<seen, form, started, timer, cookie, session, tabs>>

\* A change was carried out and its rows are merged; or another came first, and
\* the matter is loaded again (staleWriteFailure).
PostAnswered(o) ==
  /\ At(o, "post")
  /\ UNCHANGED <<cookie, session>>
  /\ \E answer \in Answers(o) :
       IF ~CaseCurrent(o) THEN End(o) /\ UNCHANGED <<page, epochs>>
       ELSE \/ /\ answer = "ok"
               /\ Merge([page EXCEPT !.held = @ \cup {Stamp(o)}])
               /\ End(o) /\ UNCHANGED epochs
            \/ /\ answer = "ok"
               /\ UNCHANGED <<page, epochs>>
               /\ Send(o, "refresh", ops[o].scope)
            \/ answer = "unauthorized" /\ ClearServerSession /\ End(o)
            \/ answer = "error" /\ End(o) /\ UNCHANGED <<page, epochs>>
  /\ UNCHANGED <<seen, form, started, timer, tabs>>

RefreshAnswered(o) ==
  /\ At(o, "refresh")
  /\ \E answer \in Answers(o) :
       IF ~CaseCurrent(o) THEN UNCHANGED <<page, epochs>>
       ELSE \/ /\ answer = "ok"
               /\ Merge([page EXCEPT !.status = "ready", !.case = ops[o].scope.case,
                                     !.held = {Stamp(o)}])
               /\ UNCHANGED epochs
            \/ answer = "unauthorized" /\ ClearServerSession
            \/ answer = "error" /\ UNCHANGED <<page, epochs>>
  /\ End(o)
  /\ UNCHANGED <<seen, form, started, timer, cookie, session, tabs>>

\* MUTANT: the screen waits for the new matter before it is clear who asked.
CreatedLoadsFirst(o) ==
  /\ At(o, "create")
  /\ UNCHANGED <<epochs, cookie, session>>
  /\ \E answer \in Answers(o) :
       IF answer = "ok"
       THEN /\ page' = [page EXCEPT !.status = "loading"]
            /\ IF SessionCurrent(o) THEN Send(o, "cases", ops[o].scope) ELSE End(o)
       ELSE UNCHANGED page /\ End(o)
  /\ UNCHANGED <<seen, form, started, timer, tabs>>

CreateAnswered(o) ==
  /\ At(o, "create")
  /\ UNCHANGED <<page, epochs, cookie, session>>
  /\ \E answer \in Answers(o) :
       IF answer = "ok" /\ SessionCurrent(o) THEN Send(o, "cases", ops[o].scope) ELSE End(o)
  /\ UNCHANGED <<seen, form, started, timer, tabs>>

PasswordAnswered(o) ==
  /\ At(o, "password")
  /\ UNCHANGED cookie
  /\ \E answer \in Answers(o) :
       /\ session' = IF answer = "ok" THEN [session EXCEPT ![ops[o].sid].must = FALSE] ELSE session
       /\ IF ~SessionCurrent(o) THEN End(o) /\ UNCHANGED <<page, epochs>>
          ELSE \/ /\ answer = "ok" /\ UNCHANGED epochs
                  /\ page' = [page EXCEPT !.gate = "none",
                                          !.status = IF ops[o].forced THEN "loading" ELSE @]
                  /\ IF ops[o].forced THEN Send(o, "cases", ops[o].scope) ELSE End(o)
               \/ answer = "unauthorized" /\ ClearServerSession /\ End(o)
               \/ answer = "error" /\ End(o) /\ UNCHANGED <<page, epochs>>
  /\ UNCHANGED <<seen, form, started, timer, tabs>>

\* The session was looked at again: it is over, it is another's, or it goes on.
CheckAnswered(o) ==
  LET sid == ops[o].sid
      kept == [epochs EXCEPT !.checking = IF @ = ops[o].scope.session THEN 0 ELSE @]
      ends == [ClearedEpochs EXCEPT !.checking = kept.checking]
  IN
  /\ At(o, "check")
  /\ \E answer \in Answers(o) :
       IF ~SessionCurrent(o) THEN epochs' = kept /\ UNCHANGED page
       ELSE \/ /\ answer = "ok" /\ (Expired(sid) \/ session[sid].by # page.reviewer)
               /\ epochs' = ends /\ page' = Cleared
            \/ /\ answer = "ok" /\ ~Expired(sid) /\ session[sid].by = page.reviewer
               /\ page' = [page EXCEPT
                    !.sid = sid,
                    !.status = IF session[sid].must THEN "ready" ELSE @,
                    !.gate = IF session[sid].must THEN "forced" ELSE @]
               /\ epochs' = kept
            \/ answer = "unauthorized" /\ epochs' = ends /\ page' = Cleared
            \/ answer = "error" /\ epochs' = kept /\ UNCHANGED page
  /\ End(o)
  /\ UNCHANGED <<seen, form, started, timer, cookie, session, tabs>>

\* The server may have ended the session even when its answer is lost.
LogoutAnswered(o) ==
  LET sid == ops[o].sid
  IN
  /\ At(o, "logout")
  /\ \E reached \in BOOLEAN, heard \in BOOLEAN :
       /\ heard => reached
       /\ session' = IF reached /\ sid # 0
                     THEN [session EXCEPT ![sid].standing = IF @ = "live" THEN "revoked" ELSE @]
                     ELSE session
       /\ cookie' = IF heard THEN 0 ELSE cookie
  /\ epochs' = [epochs EXCEPT !.leaving = FALSE]
  /\ page' = IF epochs.signedIn THEN page ELSE Cleared
  /\ End(o)
  /\ UNCHANGED <<seen, form, started, timer, tabs>>

-----------------------------------------------------------------------------
(***************************************************************************)
(* What the reviewer does, on the page as rendered.                        *)
(***************************************************************************)
UnchangedWorld == UNCHANGED <<seen, form, timer, cookie, session, tabs>>

Retry ==
  /\ seen.status = "error" /\ seen.gate = "none"
  /\ epochs' = [epochs EXCEPT !.auth = @ + 1]
  /\ page' = [page EXCEPT !.status = "loading"]
  /\ UnchangedWorld
  /\ Start(Operation("boot", AuthScope), "session")

\* One sign-in at a time (LoginPage), and none while a sign-out is under way.
Login ==
  /\ seen.status = "unauthenticated"
  /\ ~form /\ form' = TRUE
  /\ ~epochs.leaving
  /\ epochs' = [epochs EXCEPT !.auth = @ + 1]
  /\ UNCHANGED <<page, seen, timer, cookie, session, tabs>>
  /\ Start(Operation("login", AuthScope), "login")

SwitchCase(c) ==
  /\ Open(seen) /\ epochs.signedIn
  /\ page' = [page EXCEPT !.status = "loading"]
  /\ epochs' = [epochs EXCEPT !.case = @ + 1, !.asked = c]
  /\ UnchangedWorld
  /\ Start(Operation("switch", CaseScope(c)), "case")

CreateMatter(c) ==
  /\ Open(seen) /\ epochs.signedIn
  /\ UNCHANGED <<page, epochs>>
  /\ UnchangedWorld
  /\ Start(Operation("create", [SessionScope EXCEPT !.case = c]), "create")

\* A change of the matter on screen: a decision, a claim, a flag, a revision, an
\* approval.
Change ==
  /\ Open(seen) /\ epochs.signedIn
  /\ seen.case # NoCase /\ epochs.asked = seen.case
  /\ UNCHANGED <<page, epochs>>
  /\ UnchangedWorld
  /\ Start(Operation("change", CaseScope(seen.case)), "post")

RequestPasswordChange ==
  /\ Open(seen)
  /\ page' = [page EXCEPT !.gate = "voluntary"]
  /\ page' # page
  /\ UNCHANGED <<epochs, ops, started>>
  /\ UnchangedWorld

DismissPasswordChange ==
  /\ Changing(seen) /\ seen.gate = "voluntary"
  /\ page' = [page EXCEPT !.gate = "none"]
  /\ page' # page
  /\ UNCHANGED <<epochs, ops, started>>
  /\ UnchangedWorld

\* A form submits one change at a time (ChangePasswordPage).
ChangePassword ==
  /\ Changing(seen) /\ epochs.signedIn
  /\ ~form /\ form' = TRUE
  /\ UNCHANGED <<page, epochs, seen, timer, cookie, session, tabs>>
  /\ Start([Operation("password", SessionScope) EXCEPT !.forced = seen.gate = "forced"],
           "password")

\* MUTANT: the sign-in form is there at once, and signs in at once.
LogoutAtOnce ==
  /\ Open(seen) \/ (Changing(seen) /\ seen.gate = "forced")
  /\ ClearServerSession
  /\ UnchangedWorld
  /\ Start(Operation("logout", NoScope), "logout")

Logout ==
  /\ Open(seen) \/ (Changing(seen) /\ seen.gate = "forced")
  /\ ~epochs.leaving
  /\ epochs' = [ClearedEpochs EXCEPT !.leaving = TRUE]
  /\ page' = [Cleared EXCEPT !.status = "loading"]
  /\ UnchangedWorld
  /\ Start(Operation("logout", NoScope), "logout")

\* The window comes to the front, or five minutes have passed.
Revalidate ==
  /\ Open(seen) /\ seen.reviewer # Nobody
  /\ epochs.signedIn /\ epochs.checking # epochs.session
  /\ epochs' = [epochs EXCEPT !.checking = epochs.session]
  /\ UNCHANGED page
  /\ UnchangedWorld
  /\ Start(Operation("check", SessionScope), "check")

-----------------------------------------------------------------------------
(***************************************************************************)
(* Rendering, time, and the rest of the world.                             *)
(***************************************************************************)
NoTimer == [sid |-> 0, session |-> 0]

\* The form on screen has heard nothing yet of what it has submitted; one that has
\* left the screen knows nothing of it when it comes back.
FormWaits == \E o \in 1 .. Len(ops) : ops[o].kind \in {"login", "password"} /\ ~ops[o].closed

Render ==
  /\ seen # page \/ (form /\ ~FormWaits)
  /\ seen' = page
  /\ ops' = [o \in 1 .. Len(ops) |->
       [ops[o] EXCEPT !.unseen = FALSE,
          !.closed = \/ @
                     \/ ops[o].kind = "login" /\ page.status # "unauthenticated"
                     \/ ops[o].kind = "password" /\ ~Changing(page)]]
  /\ form' = (form /\ FormWaits')
  /\ timer' = IF page.reviewer = Nobody THEN NoTimer
              ELSE [sid |-> page.sid, session |-> epochs.session]
  /\ UNCHANGED <<page, epochs, started, cookie, session, tabs>>

TimerFires ==
  /\ timer.sid # 0
  /\ Expired(timer.sid)
  /\ epochs.signedIn /\ epochs.session = timer.session
  /\ ClearServerSession
  /\ UNCHANGED <<ops, started>>
  /\ UnchangedWorld

SessionEnds(sid) ==
  /\ session[sid].standing = "live"
  /\ \E how \in {"revoked", "expired"} : session' = [session EXCEPT ![sid].standing = how]
  /\ UNCHANGED <<page, seen, form, epochs, ops, started, timer, cookie, tabs>>

\* The tabs of a browser run the same store and share its cookie.
OtherTabSignsIn ==
  /\ started < MaxOps /\ Len(session) < MaxSessions
  /\ started' = started + 1
  /\ tabs' = tabs \cup {"in"}
  /\ \E by \in Reviewers : session' = Opened(by)
  /\ cookie' = Len(session')
  /\ UNCHANGED <<page, seen, form, epochs, ops, timer>>

\* The answer takes the cookie, whatever session it names by then; the server has
\* revoked the one the request named, if that was live (SessionEnds).
OtherTabSignsOut ==
  /\ started < MaxOps
  /\ started' = started + 1
  /\ tabs' = tabs \cup {"out"}
  /\ cookie' = 0
  /\ UNCHANGED <<page, seen, form, epochs, ops, timer, session>>

OtherTabChangesPassword(sid) ==
  /\ session[sid].must
  /\ session' = [session EXCEPT ![sid].must = FALSE]
  /\ UNCHANGED <<page, seen, form, epochs, ops, started, timer, cookie, tabs>>

-----------------------------------------------------------------------------
Init ==
  /\ session \in {<<>>} \cup {<<[by |-> r, standing |-> "live", must |-> r \in Temporary]>> :
                                r \in Reviewers}
  /\ cookie = Len(session)
  /\ page = [Cleared EXCEPT !.status = "loading"]
  /\ seen = page
  /\ form = FALSE
  /\ epochs = [auth |-> 1, session |-> 0, signedIn |-> FALSE, case |-> 0, asked |-> NoCase,
               leaving |-> FALSE, checking |-> 0]
  /\ ops = <<[Operation("boot", [NoScope EXCEPT !.auth = 1]) EXCEPT
                !.at = "session", !.sid = cookie, !.good = cookie # 0]>>
  /\ timer = NoTimer
  /\ tabs = {}
  /\ started = 1

Answered(o) ==
  \/ BootAnswered(o) \/ LoginAnswered(o) \/ CasesAnswered(o) \/ CaseAnswered(o)
  \/ PostAnswered(o) \/ RefreshAnswered(o) \/ CreateAnswered(o) \/ PasswordAnswered(o)
  \/ CheckAnswered(o) \/ LogoutAnswered(o)

ReviewerActs ==
  \/ Retry \/ Login \/ Logout \/ Revalidate \/ Change
  \/ RequestPasswordChange \/ DismissPasswordChange \/ ChangePassword
  \/ \E c \in Cases : SwitchCase(c) \/ CreateMatter(c)

Next ==
  \/ \E o \in 1 .. Len(ops) : Answered(o)
  \/ ReviewerActs
  \/ Render
  \/ TimerFires
  \/ \E sid \in 1 .. Len(session) : SessionEnds(sid) \/ OtherTabChangesPassword(sid)
  \/ OtherTabSignsIn \/ OtherTabSignsOut

Spec == Init /\ [][Next]_vars

-----------------------------------------------------------------------------
(***************************************************************************)
(* Properties.                                                             *)
(***************************************************************************)

\* A matter is being loaded for the page as it is now.
LoadUnderWay ==
  \E o \in 1 .. Len(ops) :
    \/ ops[o].at = "cases" /\ SessionCurrent(o)
    \/ ops[o].at = "case" /\ CaseCurrent(o)

\* A session opened in another tab has, or had, to have its password changed: when
\* the page goes over to it, a click or an answer meant for the page before it may
\* take away the form that asks for the change.
RotationElsewhere == "in" \in tabs /\ \E i \in 1 .. Len(session) : session[i].by \in Temporary

\* Once nothing is being loaded any more, the matter on screen is the one asked for
\* last, and all that is held of it was answered to a request made in this session
\* for this matter; with nobody signed in nothing is held at all
\* (isCaseScopeCurrent, reducer).
ShownBelongsHere ==
  /\ page.reviewer = Nobody => page.held = {} /\ page.case = NoCase
  /\ Open(page) /\ ~LoadUnderWay /\ ~RotationElsewhere =>
       /\ page.case = epochs.asked
       /\ \A s \in page.held : s = [session |-> epochs.session, case |-> page.case]

\* The cookie names this session, or a sign-out in another tab has taken it.
CookieNames(sid) == cookie = sid \/ ("out" \in tabs /\ cookie = 0)

\* Unless another tab has signed in, the browser's cookie names the session of the
\* reviewer on the page, or none once another tab has signed out: no late answer to a
\* sign-out of this page takes its new session away (logout).
CookieIsOfThePage ==
  "in" \notin tabs /\ page.reviewer # Nobody => CookieNames(page.sid)

\* The reviewer never waits before an empty screen for nothing: while the page says
\* that it loads, a request is out whose answer it still takes, and every request
\* is answered or given up (boot_loading, REQUEST_TIMEOUT_MS).
LoadingIsAwaited ==
  page.status = "loading" =>
    \/ LoadUnderWay
    \/ \E o \in 1 .. Len(ops) :
         \/ ops[o].at = "session" /\ AuthCurrent(o)
         \/ ops[o].at = "logout" /\ epochs.leaving
=============================================================================
