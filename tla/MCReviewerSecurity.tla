------------------------ MODULE MCReviewerSecurity ------------------------
(***************************************************************************)
(* Instances of ReviewerSecurity for TLC.  Reviewer 1 is the one whose     *)
(* credentials change, 2 and 3 are Seniors; nobody has user name 9.        *)
(***************************************************************************)
EXTENDS ReviewerSecurity, TLC

CONSTANTS r1, r2, r3   \* requests, as model values

Symmetric == Permutations(Requests)

Wrong == 99   \* a password that is never right

Account(factor, enabled) ==
  [password |-> 0, mustChange |-> FALSE, factor |-> factor, enabled |-> enabled,
   minted |-> factor, active |-> TRUE]

Session(verified, expires) ==
  [by |-> 1, opened |-> 0, verified |-> verified, revoked |-> FALSE, expires |-> expires]

\* Reviewer 1 has a factor, a verified session, and one about to expire.
Enrolled ==
  [account  |-> [v \in Reviewers |-> Account(1, TRUE)],
   sessions |-> (1 :> Session(1, 3)) @@ (2 :> Session(0, 0)),
   throttle |-> None, accepted |-> {}]

\* He has two sessions and no factor yet.
NotEnrolled ==
  [account  |-> [v \in Reviewers |-> Account(0, FALSE)],
   sessions |-> (1 :> Session(0, 3)) @@ (2 :> Session(0, 3)),
   throttle |-> None, accepted |-> {}]

\* He has failed to sign in once, and has presented the code of period 1.
SignedOut ==
  [Enrolled EXCEPT
     !.throttle = (NameKey(1) :> [failures |-> 1, until |-> 0, updated |-> 0])
                    @@ (UsedKey(1, 1) :> Fresh(0)),
     !.accepted = {<<1, 1>>},
     !.sessions[1].verified = 0]

-----------------------------------------------------------------------------
Login(name, password, source) ==
  [op |-> "login", name |-> name, password |-> password, source |-> source]
Code(op, t, factor, period) == [op |-> op, token |-> t, factor |-> factor, period |-> period]
ChangeTo(t, password) == [op |-> "change", token |-> t, password |-> password]
Own(op, t) == [op |-> op, token |-> t]
Admin(op, by, v) == [op |-> op, by |-> by, target |-> v]

\* Sign-ins from two sources, right and wrong, and under a name nobody has,
\* beside changes of credentials.
SignIns ==
  {Login(1, 0, 51), Login(1, Wrong, 51), Login(1, Wrong, 52),
   Login(9, Wrong, 52), Code("verify", 1, 1, 1), Own("logout", 2)}

\* Everything else, beside a sign-in: of an account with a factor, of one without.
CredentialCalls ==
  {Login(1, 0, 51), ChangeTo(1, 0), Own("enroll", 2), Code("verify", 2, 1, 1)}

EnrolledCalls ==
  CredentialCalls \cup
  {Code("verify", 1, 1, 1), Code("verify", 2, 2, 1), Admin("reset password", 2, 1),
   Admin("reset factor", 2, 1)}

NotEnrolledCalls ==
  CredentialCalls \cup {Code("enable", 1, 1, 1), Own("logout", 1), Admin("suspend", 2, 1)}

\* Two Seniors who change each other's account and a third, beside a sign-in.
AdministratorCalls ==
  {Login(2, 0, 51), Admin("reset password", 2, 3), Admin("reset factor", 3, 2),
   Admin("suspend", 2, 3), Admin("suspend", 3, 2), Admin("suspend", 3, 1),
   Admin("reinstate", 2, 1), Admin("reset password", 2, 2)}

-----------------------------------------------------------------------------
(***************************************************************************)
(* The openings: three changes of credentials at once, at most one of them *)
(* a sign-in, within a code period of each other; the same of Seniors; and *)
(* two sign-ins over more time.                                            *)
(***************************************************************************)
With(opening, calls, requests, tokens, time) ==
  [account |-> opening.account, sessions |-> opening.sessions,
   throttle |-> opening.throttle, accepted |-> opening.accepted,
   scope |-> [calls |-> calls, requests |-> requests, tokens |-> tokens, time |-> time]]

AllOpenings ==
  {With(Enrolled, EnrolledCalls, 3, 3, 1), With(NotEnrolled, NotEnrolledCalls, 3, 3, 1),
   With(Enrolled, AdministratorCalls, 3, 3, 0), With(SignedOut, SignIns, 2, 4, 3)}
=============================================================================
