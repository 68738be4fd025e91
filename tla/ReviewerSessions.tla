------------------------- MODULE ReviewerSessions -------------------------
(***************************************************************************)
(* What sign-in promises: reviewers' credentials, the sessions opened with *)
(* them and the one-time codes accepted, each operation one step.          *)
(* ReviewerSecurity shows how requests carry these steps out side by side. *)
(*                                                                         *)
(* Passwords and factors are numbered in the order they were set; factor 0 *)
(* is none.  Time is left out: sessions are purged, dead by then, at any   *)
(* time.                                                                   *)
(***************************************************************************)
EXTENDS Naturals

CONSTANTS
  Reviewers,  \* the accounts
  Tokens,     \* the sessions there may be
  Counters    \* the periods one-time codes are made for

VARIABLES
  account,   \* the credentials of each account
  sessions,  \* the sessions kept
  accepted   \* the one-time codes accepted: reviewer and period

vars == <<account, sessions, accepted>>

-----------------------------------------------------------------------------
Init ==
  /\ account \in [Reviewers ->
       [password : Nat, mustChange : BOOLEAN, factor : {0}, enabled : {FALSE},
        minted : {0}, active : BOOLEAN]]
  /\ sessions = [t \in {} |-> t]
  /\ accepted = {}

\* The sessions after those of v, but for the ones in kept, are revoked.
Revoked(v, kept) ==
  [t \in DOMAIN sessions |->
     [sessions[t] EXCEPT !.revoked = @ \/ (sessions[t].by = v /\ t \notin kept)]]

\* Dead sessions are purged.
Purge(T) ==
  /\ sessions' = [t \in DOMAIN sessions \ T |-> sessions[t]]
  /\ UNCHANGED <<account, accepted>>

\* A session is opened with a password the account has, or had while the
\* request that signs in was on its way, and is not verified; dead ones are purged.
SignIn(v, t, T) ==
  /\ t \notin DOMAIN sessions
  /\ \E p \in 0 .. account[v].password :
       sessions' = [u \in (DOMAIN sessions \ T) \cup {t} |->
         IF u = t THEN [by |-> v, opened |-> p, verified |-> 0, revoked |-> FALSE]
         ELSE sessions[u]]
  /\ UNCHANGED <<account, accepted>>

SignOut(t) ==
  /\ sessions' = [sessions EXCEPT ![t].revoked = TRUE]
  /\ UNCHANGED <<account, accepted>>

\* A factor is prepared for an account that has none.
Enroll(v) ==
  /\ account[v].factor = 0
  /\ account' = [account EXCEPT ![v].factor = account[v].minted + 1,
                                ![v].minted = @ + 1]
  /\ UNCHANGED <<sessions, accepted>>

\* A code of the factor is accepted, once, for a session of its owner.
Accept(t, c) ==
  /\ <<sessions[t].by, c>> \notin accepted
  /\ accepted' = accepted \cup {<<sessions[t].by, c>>}
  /\ sessions' = [sessions EXCEPT ![t].verified = account[sessions[t].by].factor]

\* The first code accepted, of a factor prepared, enables it.
Enable(t, c) ==
  /\ account[sessions[t].by].factor # 0
  /\ account' = [account EXCEPT ![sessions[t].by].enabled = TRUE]
  /\ Accept(t, c)

Verify(t, c) ==
  /\ account[sessions[t].by].enabled
  /\ Accept(t, c)
  /\ UNCHANGED account

\* A reviewer sets a new password from one of his sessions, which he keeps.
ChangePassword(v, t) ==
  /\ account' = [account EXCEPT ![v].password = @ + 1, ![v].mustChange = FALSE]
  /\ sessions' = Revoked(v, {t})
  /\ UNCHANGED accepted

\* An administrator sets one.
ResetPassword(v) ==
  /\ account' = [account EXCEPT ![v].password = @ + 1, ![v].mustChange = TRUE]
  /\ sessions' = Revoked(v, {})
  /\ UNCHANGED accepted

ResetFactor(v) ==
  /\ account[v].enabled
  /\ account' = [account EXCEPT ![v].factor = 0, ![v].enabled = FALSE]
  /\ sessions' = Revoked(v, {})
  /\ UNCHANGED accepted

Suspend(v) ==
  /\ account' = [account EXCEPT ![v].active = FALSE]
  /\ sessions' = Revoked(v, {})
  /\ UNCHANGED accepted

Reinstate(v) ==
  /\ account' = [account EXCEPT ![v].active = TRUE]
  /\ UNCHANGED <<sessions, accepted>>

OfAccount(v) ==
  \/ \E t \in Tokens : ChangePassword(v, t) \/ \E T \in SUBSET Tokens : SignIn(v, t, T)
  \/ Enroll(v)
  \/ ResetPassword(v)
  \/ ResetFactor(v)
  \/ Suspend(v)
  \/ Reinstate(v)

OfSession(t) == SignOut(t) \/ \E c \in Counters : Enable(t, c) \/ Verify(t, c)

Next ==
  \/ \E v \in Reviewers : OfAccount(v)
  \/ \E t \in DOMAIN sessions : OfSession(t)
  \/ \E T \in SUBSET Tokens : Purge(T)

Spec == Init /\ [][Next]_vars

-----------------------------------------------------------------------------
Credentials ==
  [password : Nat, mustChange : BOOLEAN, factor : Nat, enabled : BOOLEAN,
   minted : Nat, active : BOOLEAN]

SessionRow ==
  [by : Reviewers, opened : Nat, verified : Nat, revoked : BOOLEAN]

TypeOK ==
  /\ account \in [Reviewers -> Credentials]
  /\ DOMAIN sessions \subseteq Tokens
  /\ sessions \in [DOMAIN sessions -> SessionRow]
  /\ accepted \subseteq Reviewers \X Counters

\* A session counts as verified only with the factor its owner has enabled now:
\* no verification outlives the factor's reset (reset_reviewer_mfa_admin).
VerifiedByCurrentFactor ==
  \A t \in DOMAIN sessions :
    ~sessions[t].revoked /\ sessions[t].verified # 0 =>
      /\ account[sessions[t].by].enabled
      /\ sessions[t].verified = account[sessions[t].by].factor
=============================================================================
