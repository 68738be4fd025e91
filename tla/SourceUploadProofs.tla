------------------------ MODULE SourceUploadProofs ------------------------
(***************************************************************************)
(* Proofs about SourceUpload, for any number of requests, reviewers, keys  *)
(* and documents: the admissions count the requests that hold a place; a   *)
(* document is stored only on a decision that stands; the loser of a race  *)
(* is told of the winner; and uploading keeps what KeyedUploads promises.  *)
(*                                                                         *)
(* Every step but a change of access and a stop of the server is a step of *)
(* one request; each is one of six kinds (Moves), and each part of the     *)
(* invariant is shown of the kinds.                                        *)
(***************************************************************************)
EXTENDS SourceUpload, FiniteSetTheorems, TLAPS

Labels == {"idle", "admit", "body", "authorize", "look up", "place", "extract",
           "authorize again", "insert", "audit", "commit", "respond", "resolve",
           "look again", "done"}

Request == [at : Labels, call : Calls \cup {Nobody}, id : Nat, row : BOOLEAN, audit : BOOLEAN,
            lost : BOOLEAN, reply : Replies, told : Nat]

\* An answer is given when the request ends; who has not asked has no call; the key
\* is what the race was lost on; the row is there from the insert to the commit, and
\* its identifier until the answer.
RequestShape(r) ==
  /\ r \in Request
  /\ r.at = "idle" => r = Idle
  /\ r.at # "idle" => r.call \in Calls
  /\ r.at # "done" => r.reply = "none"
  /\ r.reply # "too many documents"
  /\ r.row <=> r.at \in {"audit", "commit"}
  /\ r.at \notin {"audit", "commit", "respond"} => r.id = 0
  /\ r.at \in {"resolve", "look again"} => r.call.key # NoKey

Shaped ==
  /\ req \in [Uploads -> Request]
  /\ \A u \in Uploads : RequestShape(req[u])
  /\ access \in [Reviewers -> Access]
  /\ lastId \in Nat

\* The places taken, request by request.
In(S) == {u \in Uploads : req[u].at \in S}

Counted ==
  /\ uploading = Cardinality(In(InBody))
  /\ ingesting = Cardinality(In(InExtraction))
  /\ uploading <= Slots

-----------------------------------------------------------------------------
(***************************************************************************)
(* The kinds of step of one request.                                       *)
(***************************************************************************)

\* It goes on; nothing is written.
Walks ==
  {<<"admit", "body">>, <<"body", "authorize">>, <<"authorize", "look up">>, <<"look up", "place">>,
   <<"place", "extract">>, <<"extract", "authorize again">>, <<"authorize again", "insert">>,
   <<"insert", "resolve">>, <<"resolve", "look again">>}

Walk(u, label) ==
  /\ <<req[u].at, label>> \in Walks
  /\ req' = [req EXCEPT ![u] = [@ EXCEPT !.at = label]]
  /\ label = "insert" => IsMember(Call(u).by)
  /\ label = "resolve" => Duplicate(u)
  /\ UNCHANGED <<stored, lastId>>

\* It ends with this reply: told of a source, only of one it is shown under its key
\* or the one it has committed.
Ended(u, reply, told) ==
  /\ req[u].at \notin {"idle", "done"}
  /\ req' = [req EXCEPT ![u] =
       [Idle EXCEPT !.at = "done", !.call = Call(u), !.reply = reply, !.told = told]]
  /\ reply \in Replies \ {"none", "too many documents"} /\ told \in Nat
  /\ reply = "created" => req[u].at = "respond" /\ told = req[u].id
  /\ reply = "replayed" =>
       Key(u) # NoKey /\ told \in Found(u) /\ stored[told].print = Call(u).print
  /\ reply = "not reconciled" => req[u].at = "look again" /\ Found(u) = {}
  /\ UNCHANGED <<stored, lastId>>

\* It comes, and is let in or not.
Came(u, call) ==
  /\ req[u].at = "idle" /\ call \in Calls
  /\ \/ req' = [req EXCEPT ![u] = [Idle EXCEPT !.at = "admit", !.call = call]]
     \/ req' = [req EXCEPT ![u] =
                  [Idle EXCEPT !.at = "done", !.call = call, !.reply = "forbidden"]]
  /\ UNCHANGED <<stored, lastId>>

\* It inserts its file, under a key no other has stored or is storing.
Inserts(u) ==
  /\ req[u].at = "insert"
  /\ \A w \in SameKey(u) : ~req[w].row
  /\ ~Duplicate(u)
  /\ lastId' = lastId + 1
  /\ req' = [req EXCEPT ![u] = [@ EXCEPT !.at = "audit", !.id = lastId + 1, !.row = TRUE]]
  /\ UNCHANGED stored

Audits(u) ==
  /\ req[u].at = "audit"
  /\ req' = [req EXCEPT ![u] = [@ EXCEPT !.at = "commit", !.audit = TRUE]]
  /\ UNCHANGED <<stored, lastId>>

Commits(u) ==
  /\ req[u].at = "commit"
  /\ req' = [req EXCEPT ![u] = [@ EXCEPT !.at = "respond", !.row = FALSE, !.audit = FALSE]]
  /\ stored' = [id \in DOMAIN stored \cup {req[u].id} |->
       IF id = req[u].id THEN [upload |-> u, key |-> Key(u), print |-> Call(u).print]
       ELSE stored[id]]
  /\ UNCHANGED lastId

Counts(n, from, to, S) ==
  IF from \in S <=> to \in S THEN n ELSE IF to \in S THEN n + 1 ELSE n - 1

\* The places of the request are taken and given back as it goes.
PlacesFollow(u) ==
  /\ uploading' = Counts(uploading, req[u].at, req'[u].at, InBody)
  /\ ingesting' = Counts(ingesting, req[u].at, req'[u].at, InExtraction)
  /\ req[u].at = "admit" /\ req'[u].at = "body" => uploading < Slots

Moves(u) ==
  /\ \/ \E label \in Labels : Walk(u, label)
     \/ \E reply \in Replies, told \in Nat : Ended(u, reply, told)
     \/ \E call \in Calls : Came(u, call)
     \/ Inserts(u)
     \/ Audits(u)
     \/ Commits(u)
  /\ PlacesFollow(u)
  /\ UNCHANGED <<access, changes, stops>>

-----------------------------------------------------------------------------
(***************************************************************************)
(* The invariant.                                                          *)
(***************************************************************************)

\* Each source is that of a request which has committed it, and says what it asked.
SourcesAreTheirs ==
  /\ DOMAIN stored \subseteq 1 .. lastId
  /\ \A id \in DOMAIN stored :
       /\ stored[id].upload \in Uploads
       /\ req[stored[id].upload].at \in {"respond", "done"}
       /\ stored[id].key = Key(stored[id].upload)
       /\ stored[id].print = Call(stored[id].upload).print

\* A row that is not committed has an identifier of its own, and its key to itself.
RowsApart ==
  /\ \A u \in Uploads : req[u].row =>
       /\ req[u].id \in 1 .. lastId
       /\ req[u].id \notin DOMAIN stored
       /\ ~Duplicate(u)
  /\ \A u, w \in Uploads : req[u].row /\ req[w].row /\ u # w =>
       /\ req[u].id # req[w].id
       /\ Key(u) = Key(w) => Key(u) = NoKey

CommittedHasSource ==
  \A u \in Uploads : req[u].at = "respond" =>
    req[u].id \in DOMAIN stored /\ stored[req[u].id].upload = u

RaceHasWinner == \A u \in Uploads : req[u].at \in {"resolve", "look again"} => Duplicate(u)

\* Each identifier went to a request that has passed its insert.
IdsSuffice == lastId <= Cardinality(In({"audit", "commit", "respond", "done"}))

DecisionStands ==
  \A u \in Uploads : req[u].lost =>
    req[u].at \in {"extract", "authorize again"} /\ ~IsMember(Call(u).by)

IInv ==
  /\ Shaped /\ Counted /\ SourcesAreTheirs /\ RowsApart /\ CommittedHasSource
  /\ RaceHasWinner /\ IdsSuffice /\ DecisionStands

-----------------------------------------------------------------------------
(***************************************************************************)
(* Counting requests.                                                      *)
(***************************************************************************)

LEMMA InFinite ==
  ASSUME NEW S
  PROVE  IsFiniteSet(In(S)) /\ Cardinality(In(S)) \in Nat
  <1>1. IsFiniteSet(Uploads) /\ In(S) \in SUBSET Uploads
    BY UploadAssumption DEF In
  <1>2. IsFiniteSet(In(S))
    BY <1>1, FS_Subset
  <1> QED
    BY <1>2, FS_CardinalityType

\* When one request moves, a count changes by it alone.
LEMMA CountFollows ==
  ASSUME NEW S, NEW u \in Uploads, NEW r, req \in [Uploads -> Request],
         req' = [req EXCEPT ![u] = r]
  PROVE  Cardinality(In(S)') = Counts(Cardinality(In(S)), req[u].at, r.at, S)
  <1>1. IsFiniteSet(In(S)) /\ Cardinality(In(S)) \in Nat
    BY InFinite
  <1>2. \A w \in Uploads : req'[w] = IF w = u THEN r ELSE req[w]
    OBVIOUS
  <1>3. CASE req[u].at \in S /\ r.at \notin S
    <2>1. In(S)' = In(S) \ {u} /\ u \in In(S)
      BY <1>2, <1>3 DEF In
    <2>2. Cardinality(In(S) \ {u}) = Cardinality(In(S)) - 1
      BY <1>1, <2>1, FS_RemoveElement
    <2> QED
      BY <1>1, <1>3, <2>1, <2>2 DEF Counts
  <1>4. CASE req[u].at \notin S /\ r.at \in S
    <2>1. In(S)' = In(S) \cup {u} /\ u \notin In(S)
      BY <1>2, <1>4 DEF In
    <2>2. Cardinality(In(S) \cup {u}) = Cardinality(In(S)) + 1
      BY <1>1, <2>1, FS_AddElement
    <2> QED
      BY <1>1, <1>4, <2>1, <2>2 DEF Counts
  <1>5. CASE (req[u].at \in S) <=> (r.at \in S)
    <2>1. In(S)' = In(S)
      BY <1>2, <1>5 DEF In
    <2> QED
      BY <1>1, <1>5, <2>1 DEF Counts
  <1> QED
    BY <1>3, <1>4, <1>5

LEMMA CountsTyped ==
  ASSUME IInv
  PROVE  uploading \in Nat /\ ingesting \in Nat /\ lastId \in Nat
  BY InFinite DEF IInv, Counted, Shaped

\* Who has a body but no place for its extraction finds one: there are as many
\* places, and whoever holds one of them holds one of the first too.
LEMMA PlaceFound ==
  ASSUME IInv, NEW u \in Uploads, At(u, "place")
  PROVE  ingesting < Slots
  <1> DEFINE A == In(InExtraction)
             B == In(InBody)
  <1>1. IsFiniteSet(A) /\ IsFiniteSet(B) /\ Cardinality(A) \in Nat /\ Cardinality(B) \in Nat
    BY InFinite
  <1>2. u \notin A /\ A \cup {u} \in SUBSET B
    BY DEF At, In, InBody, InExtraction
  <1>3. Cardinality(A \cup {u}) = Cardinality(A) + 1
    BY <1>1, <1>2, FS_AddElement
  <1>4. Cardinality(A \cup {u}) <= Cardinality(B)
    BY <1>1, <1>2, FS_Subset
  <1>5. ingesting = Cardinality(A) /\ uploading = Cardinality(B) /\ uploading <= Slots
    BY DEF IInv, Counted
  <1> HIDE DEF A, B
  <1> QED
    BY <1>1, <1>3, <1>4, <1>5, UploadAssumption

-----------------------------------------------------------------------------
(***************************************************************************)
(* Every step of a request is of one of the kinds.                         *)
(***************************************************************************)

LEMMA GotoMoves ==
  ASSUME IInv, NEW u \in Uploads, NEW label \in Labels,
         <<req[u].at, label>> \in Walks \ {<<"admit", "body">>, <<"place", "extract">>},
         Goto(u, label),
         label = "insert" => IsMember(Call(u).by),
         label = "resolve" => Duplicate(u)
  PROVE  Moves(u)
  <1>1. req \in [Uploads -> Request] /\ uploading \in Nat /\ ingesting \in Nat
    BY CountsTyped DEF IInv, Shaped
  <1>2. req' = [req EXCEPT ![u] = [@ EXCEPT !.at = label]]
    BY DEF Goto
  <1>3. req'[u].at = label
    BY <1>1, <1>2 DEF Request
  <1>4. /\ (req[u].at \in InBody) <=> (label \in InBody)
        /\ (req[u].at \in InExtraction) <=> (label \in InExtraction)
        /\ ~(req[u].at = "admit" /\ label = "body")
    BY DEF Walks, InBody, InExtraction
  <1>5. PlacesFollow(u)
    <2>1. uploading' = uploading /\ ingesting' = ingesting
      BY DEF Goto, slots
    <2> QED
      BY <1>1, <1>3, <1>4, <2>1 DEF PlacesFollow, Counts
  <1>6. Walk(u, label)
    BY <1>2 DEF Walk, Goto
  <1> QED
    BY <1>5, <1>6 DEF Moves, Goto

LEMMA GivenBack ==
  ASSUME IInv, NEW u \in Uploads, NEW reply, PlacesGivenBack(u, reply), req'[u].at = "done"
  PROVE  PlacesFollow(u)
  <1>1. uploading \in Nat /\ ingesting \in Nat
    BY CountsTyped
  <1>2. "done" \notin InBody /\ "done" \notin InExtraction
    BY DEF InBody, InExtraction
  <1>3. uploading' = IF req[u].at \in InBody THEN uploading - 1 ELSE uploading
    BY <1>1 DEF PlacesGivenBack
  <1>4. ingesting' = IF req[u].at \in InExtraction THEN ingesting - 1 ELSE ingesting
    BY <1>1 DEF PlacesGivenBack
  <1> QED
    BY <1>2, <1>3, <1>4 DEF PlacesFollow, Counts

LEMMA EndMoves ==
  ASSUME IInv, NEW u \in Uploads, NEW reply \in Replies, NEW told \in Nat,
         req[u].at \notin {"idle", "done"},
         reply \notin {"none", "too many documents"},
         reply = "created" => req[u].at = "respond" /\ told = req[u].id,
         reply = "replayed" =>
           Key(u) # NoKey /\ told \in Found(u) /\ stored[told].print = Call(u).print,
         reply = "not reconciled" => req[u].at = "look again" /\ Found(u) = {},
         End(u, reply, told)
  PROVE  Moves(u)
  <1>1. req \in [Uploads -> Request]
    BY DEF IInv, Shaped
  <1>2. Ended(u, reply, told)
    BY DEF End, Ended
  <1>3. req'[u].at = "done"
    BY <1>1 DEF End, Idle
  <1>4. PlacesFollow(u)
    BY <1>3, GivenBack DEF End
  <1> QED
    BY <1>2, <1>4 DEF Moves, End

LEMMA RefuseMoves ==
  ASSUME IInv, NEW u \in Uploads, NEW reply \in Replies,
         req[u].at \notin {"idle", "done"},
         reply \notin {"none", "too many documents", "created", "replayed", "not reconciled"},
         Refuse(u, reply)
  PROVE  Moves(u)
  BY EndMoves DEF Refuse

\* A replay ends the request, or there is none.
LEMMA ReplayMoves ==
  ASSUME IInv, NEW u \in Uploads, NEW otherwise, req[u].at \notin {"idle", "done"},
         Key(u) # NoKey, Replay(u, otherwise)
  PROVE  Moves(u) \/ (Found(u) = {} /\ otherwise)
  <1>1. CASE Found(u) = {}
    BY <1>1 DEF Replay
  <1>2. CASE Found(u) # {}
    <2> DEFINE id == CHOOSE x \in Found(u) : TRUE
    <2>1. id \in Found(u)
      BY <1>2
    <2>2. id \in DOMAIN stored /\ id \in Nat
      BY <2>1 DEF Found, IInv, SourcesAreTheirs, Shaped
    <2>3. \/ stored[id].print = Call(u).print /\ End(u, "replayed", id)
          \/ Refuse(u, "conflict")
      BY <1>2 DEF Replay
    <2> HIDE DEF id
    <2>4. {"replayed", "conflict"} \subseteq Replies
      BY DEF Replies
    <2>5. CASE stored[id].print = Call(u).print /\ End(u, "replayed", id)
      BY <2>1, <2>2, <2>4, <2>5, EndMoves
    <2> QED
      BY <2>3, <2>4, <2>5, RefuseMoves
  <1> QED
    BY <1>1, <1>2

LEMMA AdmissionMoves ==
  ASSUME IInv, NEW u \in Uploads, TakeBodyPlace(u) \/ TakeIngestionPlace(u)
  PROVE  Moves(u)
  <1>1. req \in [Uploads -> Request] /\ uploading \in Nat /\ ingesting \in Nat /\ Slots \in Nat
    BY CountsTyped, UploadAssumption DEF IInv, Shaped
  <1>2. ASSUME TakeBodyPlace(u), uploading >= Slots PROVE Moves(u)
    BY <1>2, RefuseMoves DEF TakeBodyPlace, At, Replies
  <1>3. ASSUME TakeBodyPlace(u), ~(uploading >= Slots) PROVE Moves(u)
    <2>1. /\ req[u].at = "admit" /\ uploading < Slots
          /\ req' = [req EXCEPT ![u] = [@ EXCEPT !.at = "body"]]
          /\ uploading' = uploading + 1
          /\ UNCHANGED <<access, stored, lastId, ingesting, changes, stops>>
      BY <1>1, <1>3 DEF TakeBodyPlace, At
    <2>2. req'[u].at = "body"
      BY <1>1, <2>1 DEF Request
    <2>3. PlacesFollow(u)
      BY <2>1, <2>2 DEF PlacesFollow, Counts, InBody, InExtraction
    <2>4. Walk(u, "body")
      BY <2>1 DEF Walk, Walks
    <2> QED
      BY <2>1, <2>3, <2>4 DEF Moves, Labels
  <1>4. ASSUME TakeIngestionPlace(u) PROVE Moves(u)
    <2>1. At(u, "place") /\ ~(ingesting >= Slots)
      <3>1. At(u, "place")
        BY <1>4 DEF TakeIngestionPlace
      <3>2. ingesting < Slots
        BY <3>1, PlaceFound
      <3> QED
        BY <1>1, <3>1, <3>2
    <2>2. /\ req[u].at = "place"
          /\ req' = [req EXCEPT ![u] = [@ EXCEPT !.at = "extract"]]
          /\ ingesting' = ingesting + 1
          /\ UNCHANGED <<access, stored, lastId, uploading, changes, stops>>
      BY <1>4, <2>1 DEF TakeIngestionPlace, At
    <2>3. req'[u].at = "extract"
      BY <1>1, <2>2 DEF Request
    <2>4. PlacesFollow(u)
      BY <2>2, <2>3 DEF PlacesFollow, Counts, InBody, InExtraction
    <2>5. Walk(u, "extract")
      BY <2>2 DEF Walk, Walks
    <2> QED
      BY <2>2, <2>4, <2>5 DEF Moves, Labels
  <1> QED
    BY <1>2, <1>3, <1>4

LEMMA EarlyMoves ==
  ASSUME IInv, NEW u \in Uploads,
         ReceiveBody(u) \/ Authorize(u) \/ LookUp(u) \/ Extract(u) \/ AuthorizeAgain(u)
           \/ AuthorizeLoser(u)
  PROVE  Moves(u)
  <1>1. CASE ReceiveBody(u)
    <2>1. CASE Goto(u, "authorize")
      BY <1>1, <2>1, GotoMoves DEF ReceiveBody, At, Labels, Walks
    <2>2. CASE Refuse(u, "bad body")
      BY <1>1, <2>2, RefuseMoves DEF ReceiveBody, At, Replies
    <2> QED
      BY <1>1, <2>1, <2>2 DEF ReceiveBody
  <1>2. CASE Authorize(u)
    <2>1. CASE Goto(u, "look up")
      BY <1>2, <2>1, GotoMoves DEF Authorize, At, Labels, Walks
    <2>2. CASE Refuse(u, "forbidden")
      BY <1>2, <2>2, RefuseMoves DEF Authorize, At, Replies
    <2> QED
      BY <1>2, <2>1, <2>2 DEF Authorize
  <1>3. CASE LookUp(u)
    <2>1. CASE Goto(u, "place")
      BY <1>3, <2>1, GotoMoves DEF LookUp, At, Labels, Walks
    <2>2. CASE Key(u) # NoKey /\ Replay(u, Goto(u, "place"))
      <3>1. req[u].at \notin {"idle", "done"}
        BY <1>3 DEF LookUp, At
      <3>2. Moves(u) \/ Goto(u, "place")
        BY <2>2, <3>1, ReplayMoves
      <3> QED
        BY <2>1, <3>2
    <2> QED
      BY <1>3, <2>1, <2>2 DEF LookUp
  <1>4. CASE Extract(u)
    <2>1. CASE Goto(u, "authorize again")
      BY <1>4, <2>1, GotoMoves DEF Extract, At, Labels, Walks
    <2>2. CASE Refuse(u, "error")
      BY <1>4, <2>2, RefuseMoves DEF Extract, At, Replies
    <2> QED
      BY <1>4, <2>1, <2>2 DEF Extract
  <1>5. CASE AuthorizeAgain(u)
    <2>1. CASE IsMember(Call(u).by) /\ Goto(u, "insert")
      BY <1>5, <2>1, GotoMoves DEF AuthorizeAgain, At, Labels, Walks
    <2>2. CASE Refuse(u, "forbidden")
      BY <1>5, <2>2, RefuseMoves DEF AuthorizeAgain, At, Replies
    <2> QED
      BY <1>5, <2>1, <2>2 DEF AuthorizeAgain
  <1>6. CASE AuthorizeLoser(u)
    <2>1. CASE Goto(u, "look again")
      BY <1>6, <2>1, GotoMoves DEF AuthorizeLoser, At, Labels, Walks
    <2>2. CASE Refuse(u, "forbidden")
      BY <1>6, <2>2, RefuseMoves DEF AuthorizeLoser, At, Replies
    <2> QED
      BY <1>6, <2>1, <2>2 DEF AuthorizeLoser
  <1> QED
    BY <1>1, <1>2, <1>3, <1>4, <1>5, <1>6

LEMMA InsertMoves ==
  ASSUME IInv, NEW u \in Uploads, InsertFile(u)
  PROVE  Moves(u)
  <1>1. req \in [Uploads -> Request] /\ req[u].at = "insert"
    BY DEF IInv, Shaped, InsertFile, At
  <1>2. CASE Refuse(u, "error")
    BY <1>1, <1>2, RefuseMoves DEF Replies
  <1>3. CASE Duplicate(u) /\ Goto(u, "resolve")
    BY <1>1, <1>3, GotoMoves DEF Labels, Walks
  <1>4. CASE (\A w \in SameKey(u) : ~req[w].row) /\ ~Duplicate(u) /\ Inserted(u)
    <2>1. /\ req' = [req EXCEPT ![u] = [@ EXCEPT !.at = "audit", !.id = lastId + 1, !.row = TRUE]]
          /\ lastId' = lastId + 1
          /\ UNCHANGED <<access, stored, uploading, ingesting, changes, stops>>
      BY <1>4 DEF Inserted, slots
    <2>2. req'[u].at = "audit"
      BY <1>1, <2>1 DEF Request
    <2>3. PlacesFollow(u)
      BY <1>1, <2>1, <2>2 DEF PlacesFollow, Counts, InBody, InExtraction
    <2>4. Inserts(u)
      BY <1>1, <1>4, <2>1 DEF Inserts
    <2> QED
      BY <2>1, <2>3, <2>4 DEF Moves
  <1> QED
    BY <1>2, <1>3, <1>4 DEF InsertFile

LEMMA LateMoves ==
  ASSUME IInv, NEW u \in Uploads, AppendAudit(u) \/ Commit(u) \/ Respond(u) \/ ResolveRace(u)
  PROVE  Moves(u)
  <1>1. req \in [Uploads -> Request] /\ RequestShape(req[u])
    BY DEF IInv, Shaped
  <1>2. CASE AppendAudit(u)
    <2>1. /\ req[u].at = "audit"
          /\ req' = [req EXCEPT ![u] = [@ EXCEPT !.at = "commit", !.audit = TRUE]]
          /\ UNCHANGED <<access, stored, lastId, uploading, ingesting, changes, stops>>
      BY <1>2 DEF AppendAudit, At, slots
    <2>2. req'[u].at = "commit"
      BY <1>1, <2>1 DEF Request
    <2>3. PlacesFollow(u)
      BY <2>1, <2>2 DEF PlacesFollow, Counts, InBody, InExtraction
    <2> QED
      BY <2>1, <2>3 DEF Moves, Audits
  <1>3. CASE Commit(u)
    <2>1. /\ req[u].at = "commit"
          /\ req' = [req EXCEPT ![u] = [@ EXCEPT !.at = "respond", !.row = FALSE, !.audit = FALSE]]
          /\ ingesting' = ingesting - 1
          /\ UNCHANGED <<access, lastId, uploading, changes, stops>>
      BY <1>3 DEF Commit, At
    <2>2. req'[u].at = "respond"
      BY <1>1, <2>1 DEF Request
    <2>3. PlacesFollow(u)
      BY <2>1, <2>2 DEF PlacesFollow, Counts, InBody, InExtraction
    <2>4. Commits(u)
      BY <1>3, <2>1 DEF Commit, Commits
    <2> QED
      BY <2>1, <2>3, <2>4 DEF Moves
  <1>4. CASE Respond(u)
    <2>1. req[u].at = "respond" /\ End(u, "created", req[u].id) /\ req[u].id \in Nat
      BY <1>1, <1>4 DEF Respond, At, Request
    <2>2. /\ "created" \in Replies
          /\ req[u].at \notin {"idle", "done"}
      BY <2>1 DEF Replies
    <2>3. PICK told \in Nat : told = req[u].id
      BY <2>1
    <2>4. End(u, "created", told)
      BY <2>1, <2>3
    <2> QED
      BY <2>1, <2>2, <2>3, <2>4, EndMoves
  <1>5. CASE ResolveRace(u)
    <2>1. /\ req[u].at = "look again" /\ Key(u) # NoKey
          /\ req[u].at \notin {"idle", "done"}
      BY <1>1, <1>5 DEF ResolveRace, At, RequestShape, Key, Call
    <2>2. CASE Found(u) = {}
      <3>1. End(u, "not reconciled", 0)
        BY <1>5, <2>2 DEF ResolveRace, Replay, Refuse
      <3>2. "not reconciled" \in Replies /\ 0 \in Nat
        BY DEF Replies
      <3> QED
        BY <2>1, <2>2, <3>1, <3>2, EndMoves
    <2>3. CASE Found(u) # {}
      <3>1. Replay(u, FALSE)
        BY <1>5, <2>3 DEF ResolveRace, Replay
      <3> QED
        BY <2>1, <3>1, ReplayMoves
    <2> QED
      BY <2>2, <2>3
  <1> QED
    BY <1>2, <1>3, <1>4, <1>5

LEMMA ArrivalMoves ==
  ASSUME IInv, NEW u \in Uploads, NEW call \in Calls, Arrive(u, call)
  PROVE  Moves(u)
  <1>1. req \in [Uploads -> Request] /\ req[u].at = "idle"
    BY DEF IInv, Shaped, Arrive, At
  <1>2. Came(u, call)
    BY <1>1 DEF Arrive, Came
  <1>3. req'[u].at \in {"admit", "done"}
    BY <1>1, <1>2 DEF Came, Idle
  <1>4. PlacesFollow(u)
    <2>1. uploading' = uploading /\ ingesting' = ingesting
      BY DEF Arrive, slots
    <2> QED
      BY <1>1, <1>3, <2>1 DEF PlacesFollow, Counts, InBody, InExtraction
  <1> QED
    BY <1>2, <1>4 DEF Moves, Arrive

LEMMA StepsMove ==
  ASSUME IInv, NEW u \in Uploads,
         Step(u) \/ FailStatement(u) \/ \E call \in Calls : Arrive(u, call)
  PROVE  Moves(u)
  <1>1. CASE FailStatement(u)
    BY <1>1, RefuseMoves DEF FailStatement, InDatabase, Replies
  <1> QED
    BY <1>1, AdmissionMoves, EarlyMoves, InsertMoves, LateMoves, ArrivalMoves DEF Step

-----------------------------------------------------------------------------
(***************************************************************************)
(* The invariant is kept by every kind of step of a request.               *)
(***************************************************************************)

\* What a step makes of its own request, and that it leaves the others alone.
LEMMA MovedAlone ==
  ASSUME IInv, NEW u \in Uploads, Moves(u)
  PROVE  /\ req' = [req EXCEPT ![u] = req'[u]]
         /\ \A w \in Uploads \ {u} : req'[w] = req[w]
         /\ RequestShape(req[u]) /\ RequestShape(req'[u])
  <1>1. req \in [Uploads -> Request] /\ RequestShape(req[u]) /\ lastId \in Nat
    BY DEF IInv, Shaped
  <1>2. CASE \E label \in Labels : Walk(u, label)
    <2>1. PICK label \in Labels : Walk(u, label)
      BY <1>2
    <2>2. req' = [req EXCEPT ![u] = [@ EXCEPT !.at = label]] /\ <<req[u].at, label>> \in Walks
      BY <2>1 DEF Walk
    <2>3. req'[u] = [req[u] EXCEPT !.at = label]
      BY <1>1, <2>2
    <2>4. label = "resolve" => Key(u) # NoKey
      BY <2>1 DEF Walk, Duplicate
    <2>5. /\ req[u].at \notin {"idle", "done", "audit", "commit", "respond"}
          /\ label \notin {"idle", "done", "audit", "commit", "respond"}
          /\ label = "look again" => req[u].at = "resolve"
      BY <2>2 DEF Walks
    <2>6. RequestShape(req'[u])
      BY <1>1, <2>3, <2>4, <2>5 DEF RequestShape, Request, Key, Call
    <2> QED
      BY <1>1, <2>2, <2>6
  <1>3. CASE \E reply \in Replies, told \in Nat : Ended(u, reply, told)
    <2>1. PICK reply \in Replies, told \in Nat : Ended(u, reply, told)
      BY <1>3
    <2>2. /\ req' = [req EXCEPT ![u] =
               [Idle EXCEPT !.at = "done", !.call = Call(u), !.reply = reply, !.told = told]]
          /\ req[u].at \notin {"idle", "done"}
      BY <2>1 DEF Ended
    <2>3. req'[u] =
            [Idle EXCEPT !.at = "done", !.call = Call(u), !.reply = reply, !.told = told]
      BY <1>1, <2>2
    <2>4. Call(u) \in Calls
      BY <1>1, <2>2 DEF RequestShape, Call
    <2>5. reply # "too many documents"
      BY <2>1 DEF Ended
    <2>6. RequestShape(req'[u])
      <3>1. req'[u] = [at |-> "done", call |-> Call(u), id |-> 0, row |-> FALSE, audit |-> FALSE,
                       lost |-> FALSE, reply |-> reply, told |-> told]
        BY <2>3 DEF Idle
      <3>2. "done" \in Labels
        BY DEF Labels
      <3>3. req'[u] \in Request
        BY <2>4, <3>1, <3>2 DEF Request
      <3>4. /\ req'[u].at = "done" /\ req'[u].call = Call(u) /\ req'[u].row = FALSE
            /\ req'[u].reply = reply /\ req'[u].id = 0
        BY <3>1
      <3> QED
        BY <2>4, <2>5, <3>3, <3>4 DEF RequestShape
    <2> QED
      BY <1>1, <2>2, <2>6
  <1>4. CASE \E call \in Calls : Came(u, call)
    <2>1. PICK call \in Calls : Came(u, call)
      BY <1>4
    <2>2. PICK r : /\ req' = [req EXCEPT ![u] = r]
                   /\ \/ r = [Idle EXCEPT !.at = "admit", !.call = call]
                      \/ r = [Idle EXCEPT !.at = "done", !.call = call, !.reply = "forbidden"]
      BY <2>1 DEF Came
    <2>3. RequestShape(r)
      <3>1. PICK label \in {"admit", "done"}, reply \in {"none", "forbidden"} :
              /\ r = [at |-> label, call |-> call, id |-> 0, row |-> FALSE, audit |-> FALSE,
                       lost |-> FALSE, reply |-> reply, told |-> 0]
              /\ label # "done" => reply = "none"
        BY <2>2 DEF Idle
      <3>2. label \in Labels /\ reply \in Replies
        BY DEF Labels, Replies
      <3>3. r \in Request
        BY <3>1, <3>2 DEF Request
      <3> QED
        BY <3>1, <3>3 DEF RequestShape
    <2> QED
      BY <1>1, <2>2, <2>3
  <1>5. CASE Inserts(u)
    <2>1. /\ req' = [req EXCEPT ![u] = [@ EXCEPT !.at = "audit", !.id = lastId + 1, !.row = TRUE]]
          /\ req[u].at = "insert"
      BY <1>5 DEF Inserts
    <2>2. req'[u] = [req[u] EXCEPT !.at = "audit", !.id = lastId + 1, !.row = TRUE]
      BY <1>1, <2>1
    <2>3. lastId + 1 \in Nat /\ "audit" \in Labels
      BY <1>1 DEF Labels
    <2>4. RequestShape(req'[u])
      BY <1>1, <2>1, <2>2, <2>3 DEF RequestShape, Request
    <2> QED
      BY <1>1, <2>1, <2>4
  <1>6. CASE Audits(u)
    <2>1. /\ req' = [req EXCEPT ![u] = [@ EXCEPT !.at = "commit", !.audit = TRUE]]
          /\ req[u].at = "audit"
      BY <1>6 DEF Audits
    <2>2. req'[u] = [req[u] EXCEPT !.at = "commit", !.audit = TRUE]
      BY <1>1, <2>1
    <2>3. "commit" \in Labels /\ req[u] \in Request /\ req'[u].at = "commit"
      BY <1>1, <2>2 DEF Labels, RequestShape, Request
    <2>4. req'[u] \in Request
      BY <2>2, <2>3 DEF Request
    <2>5. RequestShape(req'[u])
      BY <1>1, <2>1, <2>2, <2>3, <2>4 DEF RequestShape, Request
    <2> QED
      BY <1>1, <2>1, <2>5
  <1>7. CASE Commits(u)
    <2>1. /\ req' = [req EXCEPT ![u] = [@ EXCEPT !.at = "respond", !.row = FALSE, !.audit = FALSE]]
          /\ req[u].at = "commit"
      BY <1>7 DEF Commits
    <2>2. req'[u] = [req[u] EXCEPT !.at = "respond", !.row = FALSE, !.audit = FALSE]
      BY <1>1, <2>1
    <2>3. "respond" \in Labels /\ req[u] \in Request /\ req'[u].at = "respond"
      BY <1>1, <2>2 DEF Labels, RequestShape, Request
    <2>4. req'[u] \in Request
      BY <2>2, <2>3 DEF Request
    <2>5. RequestShape(req'[u])
      BY <1>1, <2>1, <2>2, <2>3, <2>4 DEF RequestShape, Request
    <2> QED
      BY <1>1, <2>1, <2>5
  <1> QED
    BY <1>2, <1>3, <1>4, <1>5, <1>6, <1>7 DEF Moves

LEMMA ShapedMove ==
  ASSUME IInv, NEW u \in Uploads, Moves(u)
  PROVE  Shaped'
  <1>1. /\ req \in [Uploads -> Request] /\ \A w \in Uploads : RequestShape(req[w])
        /\ access \in [Reviewers -> Access] /\ lastId \in Nat
    BY DEF IInv, Shaped
  <1>2. /\ req' = [req EXCEPT ![u] = req'[u]]
        /\ \A w \in Uploads \ {u} : req'[w] = req[w]
        /\ RequestShape(req'[u])
    BY MovedAlone
  <1>3. \A w \in Uploads : RequestShape(req'[w])
    BY <1>1, <1>2
  <1>4. req' \in [Uploads -> Request]
    BY <1>1, <1>2 DEF RequestShape
  <1>5. access' = access /\ lastId' \in {lastId, lastId + 1}
    BY DEF Moves, Walk, Ended, Came, Inserts, Audits, Commits
  <1>6. access' \in [Reviewers -> Access] /\ lastId' \in Nat
    BY <1>1, <1>5
  <1>7. \A w \in Uploads : RequestShape(req[w])'
    BY <1>3 DEF RequestShape
  <1> QED
    BY <1>4, <1>6, <1>7 DEF Shaped

LEMMA CountedMove ==
  ASSUME IInv, NEW u \in Uploads, Moves(u)
  PROVE  Counted'
  <1>1. /\ req \in [Uploads -> Request]
        /\ uploading = Cardinality(In(InBody)) /\ ingesting = Cardinality(In(InExtraction))
        /\ uploading <= Slots
    BY DEF IInv, Shaped, Counted
  <1>2. PICK r : req' = [req EXCEPT ![u] = r] /\ r = req'[u]
    BY MovedAlone
  <1>3. /\ Cardinality(In(InBody)') = Counts(uploading, req[u].at, r.at, InBody)
        /\ Cardinality(In(InExtraction)') = Counts(ingesting, req[u].at, r.at, InExtraction)
    <2>1. Cardinality(In(InBody)') = Counts(Cardinality(In(InBody)), req[u].at, r.at, InBody)
      BY <1>1, <1>2, CountFollows
    <2>2. Cardinality(In(InExtraction)')
            = Counts(Cardinality(In(InExtraction)), req[u].at, r.at, InExtraction)
      BY <1>1, <1>2, CountFollows
    <2> QED
      BY <1>1, <2>1, <2>2
  <1>4. PlacesFollow(u)
    BY DEF Moves
  <1>5. uploading' = Cardinality(In(InBody)') /\ ingesting' = Cardinality(In(InExtraction)')
    BY <1>2, <1>3, <1>4 DEF PlacesFollow
  <1>6. req[u].at \notin InBody /\ req'[u].at \in InBody =>
          req[u].at = "admit" /\ req'[u].at = "body"
    <2>1. CASE \E label \in Labels : Walk(u, label)
      <3>1. PICK label \in Labels : Walk(u, label)
        BY <2>1
      <3>2. req'[u].at = label /\ <<req[u].at, label>> \in Walks
        BY <1>1, <3>1 DEF Walk, Request
      <3> QED
        BY <3>2 DEF Walks, InBody, InExtraction
    <2>2. CASE \E reply \in Replies, told \in Nat : Ended(u, reply, told)
      <3>1. req'[u].at = "done"
        BY <1>1, <2>2 DEF Ended, Idle
      <3> QED
        BY <3>1 DEF InBody, InExtraction
    <2>3. CASE \E call \in Calls : Came(u, call)
      <3>1. req'[u].at \in {"admit", "done"}
        BY <1>1, <2>3 DEF Came, Idle
      <3> QED
        BY <3>1 DEF InBody, InExtraction
    <2>4. CASE Inserts(u) \/ Audits(u) \/ Commits(u)
      BY <2>4 DEF Inserts, Audits, Commits, InBody, InExtraction
    <2> QED
      BY <2>1, <2>2, <2>3, <2>4 DEF Moves
  <1>7. uploading' <= Slots
    <2>1. uploading \in Nat /\ Slots \in Nat
      BY CountsTyped, UploadAssumption
    <2>2. CASE req[u].at \notin InBody /\ req'[u].at \in InBody
      <3>1. uploading < Slots
        BY <1>4, <1>6, <2>2 DEF PlacesFollow
      <3>2. uploading' = uploading + 1
        BY <1>4, <2>2 DEF PlacesFollow, Counts
      <3> QED
        BY <2>1, <3>1, <3>2
    <2>3. CASE ~(req[u].at \notin InBody /\ req'[u].at \in InBody)
      <3>1. uploading' = uploading \/ uploading' = uploading - 1
        BY <1>4, <2>3 DEF PlacesFollow, Counts
      <3> QED
        BY <1>1, <2>1, <3>1
    <2> QED
      BY <2>2, <2>3
  <1> QED
    BY <1>5, <1>7 DEF Counted

\* A step that writes nothing and leaves its request without a row.
Quiet(u) ==
  /\ UNCHANGED <<stored, lastId>>
  /\ ~req'[u].row /\ req'[u].at # "respond"
  /\ req[u].at \in {"respond", "done"} => req'[u].at = "done" /\ req'[u].call = req[u].call
  /\ req[u].at \in {"audit", "commit"} => req'[u].at = "done"
  /\ req'[u].at \in {"resolve", "look again"} => Duplicate(u) /\ req'[u].call = req[u].call
  /\ req'[u].lost =>
       /\ req[u].lost /\ req'[u].call = req[u].call
       /\ req'[u].at \in {"extract", "authorize again"}

LEMMA WalksAreQuiet ==
  ASSUME IInv, NEW u \in Uploads, NEW label \in Labels, Walk(u, label)
  PROVE  Quiet(u)
  <1>1. /\ req \in [Uploads -> Request] /\ req[u] \in Request
        /\ req[u].row <=> req[u].at \in {"audit", "commit"}
        /\ req[u].at \in {"resolve", "look again"} => Duplicate(u)
        /\ req[u].lost => req[u].at \in {"extract", "authorize again"} /\ ~IsMember(Call(u).by)
    BY DEF IInv, Shaped, RequestShape, RaceHasWinner, DecisionStands
  <1>2. req'[u] = [req[u] EXCEPT !.at = label] /\ <<req[u].at, label>> \in Walks
    BY <1>1 DEF Walk
  <1>3. /\ req'[u].at = label /\ req'[u].row = req[u].row /\ req'[u].call = req[u].call
        /\ req'[u].lost = req[u].lost
    BY <1>1, <1>2 DEF Request
  <1>4. /\ req[u].at \notin {"audit", "commit", "respond", "done"} /\ label # "respond"
        /\ label = "look again" => req[u].at = "resolve"
        /\ req[u].at \in {"extract", "authorize again"} => label \in {"authorize again", "insert"}
    BY <1>2 DEF Walks
  <1>5. label \in {"resolve", "look again"} => Duplicate(u)
    BY <1>1, <1>4 DEF Walk
  <1>6. req[u].lost => label \in {"extract", "authorize again"}
    BY <1>1, <1>4 DEF Walk
  <1>7. UNCHANGED <<stored, lastId>>
    BY DEF Walk
  <1> QED
    BY <1>1, <1>3, <1>4, <1>5, <1>6, <1>7 DEF Quiet

LEMMA EndsAreQuiet ==
  ASSUME IInv, NEW u \in Uploads,
         \/ \E reply \in Replies, told \in Nat : Ended(u, reply, told)
         \/ \E call \in Calls : Came(u, call)
  PROVE  Quiet(u)
  <1>1. req \in [Uploads -> Request]
    BY DEF IInv, Shaped
  <1>2. ASSUME NEW reply \in Replies, NEW told \in Nat, Ended(u, reply, told)
        PROVE  Quiet(u)
    <2>1. /\ req'[u].at = "done" /\ req'[u].call = req[u].call
          /\ req'[u].row = FALSE /\ req'[u].lost = FALSE
      BY <1>1, <1>2 DEF Ended, Idle, Call
    <2>2. UNCHANGED <<stored, lastId>>
      BY <1>2 DEF Ended
    <2> QED
      BY <2>1, <2>2 DEF Quiet
  <1>3. ASSUME NEW call \in Calls, Came(u, call)
        PROVE  Quiet(u)
    <2>1. /\ req[u].at = "idle" /\ req'[u].at \in {"admit", "done"}
          /\ req'[u].row = FALSE /\ req'[u].lost = FALSE
      <3>1. PICK r : /\ req' = [req EXCEPT ![u] = r]
                     /\ \/ r = [Idle EXCEPT !.at = "admit", !.call = call]
                        \/ r = [Idle EXCEPT !.at = "done", !.call = call, !.reply = "forbidden"]
        BY <1>3 DEF Came
      <3>2. req'[u] = r
        BY <1>1, <3>1
      <3>3. req[u].at = "idle"
        BY <1>3 DEF Came
      <3>4. r.at \in {"admit", "done"} /\ r.row = FALSE /\ r.lost = FALSE
        BY <3>1 DEF Idle
      <3> QED
        BY <3>2, <3>3, <3>4
    <2>2. UNCHANGED <<stored, lastId>>
      BY <1>3 DEF Came
    <2> QED
      BY <2>1, <2>2 DEF Quiet
  <1> QED
    BY <1>2, <1>3

LEMMA MovesAre ==
  ASSUME IInv, NEW u \in Uploads, Moves(u)
  PROVE  Quiet(u) \/ Inserts(u) \/ Audits(u) \/ Commits(u)
  BY WalksAreQuiet, EndsAreQuiet DEF Moves

LEMMA InsertEffect ==
  ASSUME IInv, NEW u \in Uploads, Inserts(u)
  PROVE  /\ req[u].at = "insert" /\ req'[u].at = "audit" /\ req'[u].call = req[u].call
         /\ req'[u].id = lastId + 1 /\ ~req'[u].lost
         /\ \A w \in SameKey(u) : ~req[w].row
         /\ ~Duplicate(u)
         /\ stored' = stored /\ lastId' = lastId + 1
  <1>1. /\ req \in [Uploads -> Request] /\ req[u] \in Request /\ req[u].at = "insert"
        /\ ~req[u].lost
    BY DEF IInv, Shaped, DecisionStands, Inserts
  <1>2. req'[u] = [req[u] EXCEPT !.at = "audit", !.id = lastId + 1, !.row = TRUE]
    BY <1>1 DEF Inserts
  <1>3. /\ req'[u].at = "audit" /\ req'[u].call = req[u].call /\ req'[u].id = lastId + 1
        /\ req'[u].lost = req[u].lost
    BY <1>1, <1>2 DEF Request
  <1> QED
    BY <1>1, <1>3 DEF Inserts

LEMMA AuditEffect ==
  ASSUME IInv, NEW u \in Uploads, Audits(u)
  PROVE  /\ req[u].at = "audit" /\ req'[u].at = "commit" /\ req'[u].call = req[u].call
         /\ req'[u].id = req[u].id /\ req[u].row /\ ~req'[u].lost
         /\ stored' = stored /\ lastId' = lastId
  <1>1. /\ req \in [Uploads -> Request] /\ req[u] \in Request /\ req[u].at = "audit"
        /\ ~req[u].lost /\ req[u].row
    BY DEF IInv, Shaped, RequestShape, DecisionStands, Audits
  <1>2. req'[u] = [req[u] EXCEPT !.at = "commit", !.audit = TRUE]
    BY <1>1 DEF Audits
  <1>3. /\ req'[u].at = "commit" /\ req'[u].call = req[u].call /\ req'[u].id = req[u].id
        /\ req'[u].lost = req[u].lost
    BY <1>1, <1>2 DEF Request
  <1> QED
    BY <1>1, <1>3 DEF Audits

LEMMA CommitEffect ==
  ASSUME IInv, NEW u \in Uploads, Commits(u)
  PROVE  /\ req[u].at = "commit" /\ req'[u].at = "respond" /\ req'[u].call = req[u].call
         /\ req'[u].id = req[u].id /\ req[u].row /\ ~req'[u].row /\ ~req'[u].lost
         /\ req[u].id \in 1 .. lastId /\ req[u].id \notin DOMAIN stored /\ ~Duplicate(u)
         /\ DOMAIN stored' = DOMAIN stored \cup {req[u].id}
         /\ stored'[req[u].id] = [upload |-> u, key |-> Key(u), print |-> Call(u).print]
         /\ \A id \in DOMAIN stored : stored'[id] = stored[id]
         /\ lastId' = lastId
  <1>1. /\ req \in [Uploads -> Request] /\ req[u] \in Request /\ req[u].at = "commit"
        /\ ~req[u].lost /\ req[u].row
    BY DEF IInv, Shaped, RequestShape, DecisionStands, Commits
  <1>2. req[u].id \in 1 .. lastId /\ req[u].id \notin DOMAIN stored /\ ~Duplicate(u)
    BY <1>1 DEF IInv, RowsApart
  <1>3. req'[u] = [req[u] EXCEPT !.at = "respond", !.row = FALSE, !.audit = FALSE]
    BY <1>1 DEF Commits
  <1>4. /\ req'[u].at = "respond" /\ req'[u].call = req[u].call /\ req'[u].id = req[u].id
        /\ req'[u].lost = req[u].lost /\ ~req'[u].row
    BY <1>1, <1>3 DEF Request
  <1> DEFINE row == [upload |-> u, key |-> Key(u), print |-> Call(u).print]
  <1>5. /\ stored' = [id \in DOMAIN stored \cup {req[u].id} |->
                        IF id = req[u].id THEN row ELSE stored[id]]
        /\ lastId' = lastId
    BY DEF Commits
  <1> HIDE DEF row
  <1>6. /\ DOMAIN stored' = DOMAIN stored \cup {req[u].id}
        /\ stored'[req[u].id] = row
        /\ \A id \in DOMAIN stored : stored'[id] = stored[id]
    BY <1>2, <1>5
  <1> QED
    BY <1>1, <1>2, <1>4, <1>5, <1>6 DEF row

LEMMA SourcesMove ==
  ASSUME IInv, NEW u \in Uploads, Moves(u)
  PROVE  SourcesAreTheirs'
  <1>1. SourcesAreTheirs /\ lastId \in Nat /\ \A w \in Uploads \ {u} : req'[w] = req[w]
    BY MovedAlone DEF IInv, Shaped
  <1>2. CASE Quiet(u) \/ Inserts(u) \/ Audits(u)
    <2>1. /\ stored' = stored /\ lastId' \in {lastId, lastId + 1}
          /\ req[u].at \in {"respond", "done"} => req'[u].at = "done" /\ req'[u].call = req[u].call
      BY <1>2, InsertEffect, AuditEffect DEF Quiet
    <2>2. DOMAIN stored' \subseteq 1 .. lastId'
      BY <1>1, <2>1 DEF SourcesAreTheirs
    <2>3. ASSUME NEW id \in DOMAIN stored'
          PROVE  /\ stored'[id].upload \in Uploads
                 /\ req'[stored'[id].upload].at \in {"respond", "done"}
                 /\ stored'[id].key = req'[stored'[id].upload].call.key
                 /\ stored'[id].print = req'[stored'[id].upload].call.print
      BY <1>1, <2>1 DEF SourcesAreTheirs, Key, Call
    <2> QED
      BY <2>2, <2>3 DEF SourcesAreTheirs, Key, Call
  <1>3. CASE Commits(u)
    <2>1. /\ req[u].at = "commit" /\ req'[u].at = "respond" /\ req'[u].call = req[u].call
          /\ req[u].id \in 1 .. lastId
          /\ DOMAIN stored' = DOMAIN stored \cup {req[u].id}
          /\ stored'[req[u].id] = [upload |-> u, key |-> Key(u), print |-> Call(u).print]
          /\ \A id \in DOMAIN stored : stored'[id] = stored[id]
          /\ lastId' = lastId
      BY <1>3, CommitEffect
    <2>2. DOMAIN stored' \subseteq 1 .. lastId'
      BY <1>1, <2>1 DEF SourcesAreTheirs
    <2>3. ASSUME NEW id \in DOMAIN stored'
          PROVE  /\ stored'[id].upload \in Uploads
                 /\ req'[stored'[id].upload].at \in {"respond", "done"}
                 /\ stored'[id].key = req'[stored'[id].upload].call.key
                 /\ stored'[id].print = req'[stored'[id].upload].call.print
      <3>1. CASE id = req[u].id
        BY <2>1, <3>1 DEF Key, Call
      <3>2. CASE id \in DOMAIN stored
        <4>1. stored[id].upload # u
          BY <1>1, <2>1, <3>2 DEF SourcesAreTheirs
        <4> QED
          BY <1>1, <2>1, <3>2, <4>1 DEF SourcesAreTheirs, Key, Call
      <3> QED
        BY <2>1, <3>1, <3>2
    <2> QED
      BY <2>2, <2>3 DEF SourcesAreTheirs, Key, Call
  <1> QED
    BY <1>2, <1>3, MovesAre

\* A duplicate of a key stays one: sources are not taken away.
LEMMA DuplicatesStay ==
  ASSUME IInv, NEW u \in Uploads, Moves(u)
  PROVE  /\ DOMAIN stored \subseteq DOMAIN stored'
         /\ \A id \in DOMAIN stored : stored'[id] = stored[id]
         /\ \A w \in Uploads : Duplicate(w) /\ req'[w].call = req[w].call => Duplicate(w)'
  <1>1. DOMAIN stored \subseteq DOMAIN stored' /\ \A id \in DOMAIN stored : stored'[id] = stored[id]
    BY MovesAre, InsertEffect, AuditEffect, CommitEffect DEF Quiet
  <1> QED
    BY <1>1 DEF Duplicate, Key, Call

LEMMA RowsMove ==
  ASSUME IInv, NEW u \in Uploads, Moves(u)
  PROVE  RowsApart'
  <1>1. /\ RowsApart /\ SourcesAreTheirs /\ lastId \in Nat
        /\ \A w \in Uploads \ {u} : req'[w] = req[w]
    BY MovedAlone DEF IInv, Shaped
  <1> DEFINE Own(w) == /\ req'[w].id \in 1 .. lastId'
                       /\ req'[w].id \notin DOMAIN stored'
                       /\ ~(/\ req'[w].call.key # NoKey
                            /\ \E id \in DOMAIN stored' : stored'[id].key = req'[w].call.key)
             Apart(v, w) == /\ req'[v].id # req'[w].id
                            /\ req'[v].call.key = req'[w].call.key => req'[v].call.key = NoKey
  <1>2. CASE Quiet(u)
    <2>1. stored' = stored /\ lastId' = lastId /\ ~req'[u].row
      BY <1>2 DEF Quiet
    <2>2. \A w \in Uploads : req'[w].row => w # u
      BY <2>1
    <2>3. \A w \in Uploads : req'[w].row => Own(w)
      BY <1>1, <2>1, <2>2 DEF RowsApart, Duplicate, Key, Call
    <2>4. \A v, w \in Uploads : req'[v].row /\ req'[w].row /\ v # w => Apart(v, w)
      BY <1>1, <2>2 DEF RowsApart, Key, Call
    <2> QED
      BY <2>3, <2>4 DEF RowsApart, Duplicate, Key, Call
  <1>3. CASE Inserts(u)
    <2>1. /\ req'[u].call = req[u].call /\ req'[u].id = lastId + 1
          /\ \A w \in SameKey(u) : ~req[w].row
          /\ ~Duplicate(u)
          /\ stored' = stored /\ lastId' = lastId + 1
      BY <1>3, InsertEffect
    <2>2. \A w \in Uploads : req'[w].row => Own(w)
      <3>1. Own(u)
        BY <1>1, <2>1 DEF SourcesAreTheirs, Duplicate, Key, Call
      <3>2. ASSUME NEW w \in Uploads \ {u}, req'[w].row PROVE Own(w)
        BY <1>1, <2>1, <3>2 DEF RowsApart, Duplicate, Key, Call
      <3> QED
        BY <3>1, <3>2
    <2>3. ASSUME NEW w \in Uploads \ {u}, req'[w].row PROVE Apart(u, w) /\ Apart(w, u)
      <3>1. req[w].row /\ req'[w] = req[w] /\ req[w].id \in 1 .. lastId
        BY <1>1, <2>3 DEF RowsApart
      <3>2. w \notin SameKey(u)
        BY <2>1, <3>1
      <3>3. req[w].call.key = req[u].call.key => req[u].call.key = NoKey
        BY <3>2 DEF SameKey, Key, Call
      <3> QED
        BY <1>1, <2>1, <3>1, <3>3
    <2>4. \A v, w \in Uploads : req'[v].row /\ req'[w].row /\ v # w => Apart(v, w)
      <3>1. ASSUME NEW v \in Uploads \ {u}, NEW w \in Uploads \ {u},
                   req'[v].row, req'[w].row, v # w
            PROVE  Apart(v, w)
        BY <1>1, <3>1 DEF RowsApart, Key, Call
      <3> QED
        BY <2>3, <3>1
    <2> QED
      BY <2>2, <2>4 DEF RowsApart, Duplicate, Key, Call
  <1>4. CASE Audits(u)
    <2>1. /\ req'[u].call = req[u].call /\ req'[u].id = req[u].id /\ req[u].row
          /\ stored' = stored /\ lastId' = lastId
      BY <1>4, AuditEffect
    <2>2. \A w \in Uploads :
            /\ req'[w].call = req[w].call /\ req'[w].id = req[w].id
            /\ req'[w].row => req[w].row
      BY <1>1, <2>1
    <2>3. \A w \in Uploads : req'[w].row => Own(w)
      BY <1>1, <2>1, <2>2 DEF RowsApart, Duplicate, Key, Call
    <2>4. \A v, w \in Uploads : req'[v].row /\ req'[w].row /\ v # w => Apart(v, w)
      BY <1>1, <2>2 DEF RowsApart, Key, Call
    <2> QED
      BY <2>3, <2>4 DEF RowsApart, Duplicate, Key, Call
  <1>5. CASE Commits(u)
    <2>1. /\ req[u].row /\ ~req'[u].row
          /\ DOMAIN stored' = DOMAIN stored \cup {req[u].id}
          /\ stored'[req[u].id].key = req[u].call.key
          /\ \A id \in DOMAIN stored : stored'[id] = stored[id]
          /\ lastId' = lastId
      <3>1. /\ req[u].row /\ ~req'[u].row /\ lastId' = lastId
            /\ DOMAIN stored' = DOMAIN stored \cup {req[u].id}
            /\ \A id \in DOMAIN stored : stored'[id] = stored[id]
        BY <1>5, CommitEffect
      <3>2. stored'[req[u].id] = [upload |-> u, key |-> Key(u), print |-> Call(u).print]
        BY <1>5, CommitEffect
      <3> QED
        BY <3>1, <3>2 DEF Key, Call
    <2>2. \A w \in Uploads : req'[w].row => w # u
      BY <2>1
    <2>3. ASSUME NEW w \in Uploads, req'[w].row PROVE Own(w)
      <3>1. w # u /\ req'[w] = req[w] /\ req[w].row
        BY <1>1, <2>2, <2>3
      <3>2. /\ req[w].id # req[u].id
            /\ req[w].call.key = req[u].call.key => req[w].call.key = NoKey
            /\ req[w].id \in 1 .. lastId /\ req[w].id \notin DOMAIN stored
            /\ ~(req[w].call.key # NoKey
                   /\ \E id \in DOMAIN stored : stored[id].key = req[w].call.key)
        BY <1>1, <2>1, <3>1 DEF RowsApart, Duplicate, Key, Call
      <3> QED
        BY <2>1, <3>1, <3>2
    <2>4. \A v, w \in Uploads : req'[v].row /\ req'[w].row /\ v # w => Apart(v, w)
      BY <1>1, <2>2 DEF RowsApart, Key, Call
    <2> QED
      BY <2>3, <2>4 DEF RowsApart, Duplicate, Key, Call
  <1> QED
    BY <1>2, <1>3, <1>4, <1>5, MovesAre

LEMMA RacesMove ==
  ASSUME IInv, NEW u \in Uploads, Moves(u)
  PROVE  CommittedHasSource' /\ RaceHasWinner'
  <1>1. /\ CommittedHasSource /\ RaceHasWinner
        /\ \A w \in Uploads \ {u} : req'[w] = req[w]
        /\ DOMAIN stored \subseteq DOMAIN stored'
        /\ \A id \in DOMAIN stored : stored'[id] = stored[id]
        /\ \A w \in Uploads : Duplicate(w) /\ req'[w].call = req[w].call => Duplicate(w)'
    BY MovedAlone, DuplicatesStay DEF IInv
  <1>2. req'[u].at = "respond" =>
          req'[u].id \in DOMAIN stored' /\ stored'[req'[u].id].upload = u
    <2>1. CASE Quiet(u) \/ Inserts(u) \/ Audits(u)
      BY <2>1, InsertEffect, AuditEffect DEF Quiet
    <2>2. CASE Commits(u)
      <3>1. /\ req'[u].id = req[u].id /\ req[u].id \in DOMAIN stored'
            /\ stored'[req[u].id] = [upload |-> u, key |-> Key(u), print |-> Call(u).print]
        BY <2>2, CommitEffect
      <3> QED
        BY <3>1
    <2> QED
      BY <2>1, <2>2, MovesAre
  <1>3. req'[u].at \in {"resolve", "look again"} => Duplicate(u) /\ req'[u].call = req[u].call
    BY MovesAre, InsertEffect, AuditEffect, CommitEffect DEF Quiet
  <1>4. CommittedHasSource'
    BY <1>1, <1>2 DEF CommittedHasSource
  <1>5. \A w \in Uploads : req'[w].at \in {"resolve", "look again"} => Duplicate(w)'
    BY <1>1, <1>3 DEF RaceHasWinner
  <1>6. RaceHasWinner'
    BY <1>5 DEF RaceHasWinner, Duplicate, Key, Call
  <1> QED
    BY <1>4, <1>6

LEMMA IdsMove ==
  ASSUME IInv, NEW u \in Uploads, Moves(u)
  PROVE  IdsSuffice'
  <1> DEFINE S == {"audit", "commit", "respond", "done"}
  <1>1. req \in [Uploads -> Request] /\ lastId \in Nat /\ lastId <= Cardinality(In(S))
    BY DEF IInv, Shaped, IdsSuffice
  <1>2. PICK r : req' = [req EXCEPT ![u] = r] /\ r = req'[u]
    BY MovedAlone
  <1>3. Cardinality(In(S)') = Counts(Cardinality(In(S)), req[u].at, r.at, S)
    BY <1>1, <1>2, CountFollows
  <1>4. Cardinality(In(S)) \in Nat
    BY InFinite
  <1>5. CASE Inserts(u)
    <2>1. req[u].at \notin S /\ r.at \in S /\ lastId' = lastId + 1
      BY <1>2, <1>5, InsertEffect
    <2>2. Cardinality(In(S)') = Cardinality(In(S)) + 1
      BY <1>3, <2>1 DEF Counts
    <2>3. lastId' <= Cardinality(In(S)')
      BY <1>1, <1>4, <2>1, <2>2
    <2> QED
      BY <2>3 DEF IdsSuffice
  <1>6. CASE Quiet(u) \/ Audits(u) \/ Commits(u)
    <2>1. lastId' = lastId /\ (req[u].at \in S => r.at \in S)
      BY <1>2, <1>6, AuditEffect, CommitEffect DEF Quiet
    <2>2. \/ Cardinality(In(S)') = Cardinality(In(S)) + 1
          \/ Cardinality(In(S)') = Cardinality(In(S))
      BY <1>3, <2>1 DEF Counts
    <2>3. lastId' <= Cardinality(In(S)')
      BY <1>1, <1>4, <2>1, <2>2
    <2> QED
      BY <2>3 DEF IdsSuffice
  <1> QED
    BY <1>5, <1>6, MovesAre

LEMMA DecisionsMove ==
  ASSUME IInv, NEW u \in Uploads, Moves(u)
  PROVE  DecisionStands'
  <1>1. /\ DecisionStands /\ access' = access
        /\ \A w \in Uploads \ {u} : req'[w] = req[w]
    BY MovedAlone DEF IInv, Moves
  <1>2. req'[u].lost =>
          /\ req[u].lost /\ req'[u].call = req[u].call
          /\ req'[u].at \in {"extract", "authorize again"}
    BY MovesAre, InsertEffect, AuditEffect, CommitEffect DEF Quiet
  <1>3. ASSUME NEW w \in Uploads, req'[w].lost
        PROVE  /\ req'[w].at \in {"extract", "authorize again"}
               /\ ~IsMember(req'[w].call.by)
    BY <1>1, <1>2, <1>3 DEF DecisionStands, Call
  <1> QED
    BY <1>1, <1>3 DEF DecisionStands, Call, IsMember

-----------------------------------------------------------------------------
(***************************************************************************)
(* The other steps.                                                        *)
(***************************************************************************)

LEMMA Initially == Init => IInv
  <1> SUFFICES ASSUME Init PROVE IInv
    OBVIOUS
  <1>1. /\ \A u \in Uploads : req[u] = Idle
        /\ stored = None /\ lastId = 0 /\ uploading = 0 /\ ingesting = 0
    BY DEF Init
  <1>2. /\ Idle.at = "idle" /\ Idle.row = FALSE /\ Idle.lost = FALSE /\ Idle.reply = "none"
        /\ Idle.id = 0
    BY DEF Idle
  <1>3. Idle \in Request
    BY DEF Idle, Request, Labels, Replies
  <1>4. Shaped
    <2>1. RequestShape(Idle)
      BY <1>2, <1>3 DEF RequestShape
    <2> QED
      BY <1>1, <1>3, <2>1, UploadAssumption DEF Init, Shaped
  <1>5. \A u \in Uploads : req[u].at = "idle" /\ ~req[u].row /\ ~req[u].lost
    BY <1>1, <1>2
  <1>6. Counted
    <2>1. In(InBody) = {} /\ In(InExtraction) = {}
      BY <1>5 DEF In, InBody, InExtraction
    <2> QED
      BY <1>1, <2>1, FS_EmptySet, UploadAssumption DEF Counted
  <1>7. IdsSuffice
    BY <1>1, InFinite DEF IdsSuffice
  <1>8. SourcesAreTheirs
    BY <1>1 DEF SourcesAreTheirs, None
  <1> QED
    BY <1>4, <1>5, <1>6, <1>7, <1>8
       DEF IInv, RowsApart, CommittedHasSource, RaceHasWinner, DecisionStands

\* A change of access leaves the requests where they are; it counts for those that
\* have been authorized and have not been again.
LEMMA AccessChangeKeeps ==
  ASSUME IInv, NEW v \in Reviewers, NEW now \in Access, ChangeAccess(v, now)
  PROVE  IInv'
  <1>1. /\ req \in [Uploads -> Request] /\ \A u \in Uploads : RequestShape(req[u])
        /\ access \in [Reviewers -> Access]
    BY DEF IInv, Shaped
  <1>2. /\ access' = [access EXCEPT ![v] = now]
        /\ UNCHANGED <<stored, lastId, uploading, ingesting>>
    BY DEF ChangeAccess, slots
  <1>3. \A u \in Uploads : \E lost \in BOOLEAN :
          /\ req'[u] = [req[u] EXCEPT !.lost = lost]
          /\ lost = IF Call(u).by = v /\ req[u].at \in {"extract", "authorize again"}
                    THEN ~(now.signedIn /\ now.role # "none") ELSE req[u].lost
    <2>1. ASSUME NEW u \in Uploads PROVE req[u].lost \in BOOLEAN
      BY <1>1 DEF Request
    <2> QED
      BY <1>1, <2>1 DEF ChangeAccess
  <1>4. \A u \in Uploads :
          /\ req'[u].at = req[u].at /\ req'[u].call = req[u].call /\ req'[u].id = req[u].id
          /\ req'[u].row = req[u].row /\ req'[u].reply = req[u].reply
          /\ req'[u] \in Request
    <2> SUFFICES ASSUME NEW u \in Uploads
                 PROVE  /\ req'[u].at = req[u].at /\ req'[u].call = req[u].call
                        /\ req'[u].id = req[u].id /\ req'[u].row = req[u].row
                        /\ req'[u].reply = req[u].reply /\ req'[u] \in Request
      OBVIOUS
    <2>1. PICK lost \in BOOLEAN : req'[u] = [req[u] EXCEPT !.lost = lost]
      BY <1>3
    <2>2. req[u] \in Request
      BY <1>1
    <2> QED
      BY <2>1, <2>2 DEF Request
  <1>5. \A u \in Uploads : req[u].at = "idle" => req'[u] = Idle
    <2> SUFFICES ASSUME NEW u \in Uploads, req[u].at = "idle" PROVE req'[u] = Idle
      OBVIOUS
    <2>1. req[u] = Idle /\ req'[u] = [req[u] EXCEPT !.lost = req[u].lost]
      BY <1>1, <1>3 DEF RequestShape
    <2> QED
      BY <2>1 DEF Idle
  <1>6. Shaped'
    <2>1. \A u \in Uploads : RequestShape(req'[u])
      <3> SUFFICES ASSUME NEW u \in Uploads PROVE RequestShape(req'[u])
        OBVIOUS
      <3>1. RequestShape(req[u])
        BY <1>1
      <3>2. /\ req'[u].at = req[u].at /\ req'[u].call = req[u].call
            /\ req'[u].row = req[u].row /\ req'[u].reply = req[u].reply
            /\ req'[u].id = req[u].id /\ req'[u] \in Request
            /\ req[u].at = "idle" => req'[u] = Idle
        BY <1>4, <1>5
      <3> QED
        BY <3>1, <3>2 DEF RequestShape
    <2>2. req' \in [Uploads -> Request]
      BY <1>4 DEF ChangeAccess
    <2>3. access' \in [Reviewers -> Access] /\ lastId' \in Nat
      BY <1>1, <1>2 DEF IInv, Shaped
    <2> QED
      BY <2>1, <2>2, <2>3 DEF Shaped, RequestShape
  <1>7. /\ In(InBody)' = In(InBody) /\ In(InExtraction)' = In(InExtraction)
        /\ In({"audit", "commit", "respond", "done"})' = In({"audit", "commit", "respond", "done"})
    BY <1>4 DEF In
  <1>8. Counted' /\ IdsSuffice'
    BY <1>2, <1>7 DEF IInv, Counted, IdsSuffice
  <1>9. SourcesAreTheirs'
    BY <1>2, <1>4 DEF IInv, SourcesAreTheirs, Key, Call
  <1>10. RowsApart'
    BY <1>2, <1>4 DEF IInv, RowsApart, Duplicate, Key, Call
  <1>11. CommittedHasSource' /\ RaceHasWinner'
    BY <1>2, <1>4 DEF IInv, CommittedHasSource, RaceHasWinner, Duplicate, Key, Call
  <1>12. DecisionStands'
    <2> SUFFICES ASSUME NEW u \in Uploads, req'[u].lost
                 PROVE  /\ req'[u].at \in {"extract", "authorize again"}
                        /\ ~(access'[req'[u].call.by].signedIn
                               /\ access'[req'[u].call.by].role # "none")
      BY DEF DecisionStands, IsMember, Call
    <2>1. PICK lost \in BOOLEAN :
            /\ req'[u] = [req[u] EXCEPT !.lost = lost]
            /\ lost = IF Call(u).by = v /\ req[u].at \in {"extract", "authorize again"}
                      THEN ~(now.signedIn /\ now.role # "none") ELSE req[u].lost
      BY <1>3
    <2>2. lost
      BY <1>1, <2>1 DEF Request
    <2>3. CASE Call(u).by = v /\ req[u].at \in {"extract", "authorize again"}
      BY <1>1, <1>2, <1>4, <2>1, <2>2, <2>3 DEF Call
    <2>4. CASE ~(Call(u).by = v /\ req[u].at \in {"extract", "authorize again"})
      <3>1. req[u].lost
        BY <2>1, <2>2, <2>4
      <3>2. req[u].at \in {"extract", "authorize again"} /\ ~IsMember(Call(u).by)
        BY <3>1 DEF IInv, DecisionStands
      <3>3. Call(u).by # v
        BY <2>4, <3>2
      <3>4. access'[Call(u).by] = access[Call(u).by]
        BY <1>1, <1>2, <3>3
      <3> QED
        BY <1>4, <3>2, <3>4 DEF IsMember, Call
    <2> QED
      BY <2>3, <2>4
  <1> QED
    BY <1>6, <1>8, <1>9, <1>10, <1>11, <1>12 DEF IInv

\* When the server stops no request is left under way, and no source is lost.
LEMMA StopKeeps ==
  ASSUME IInv, StopServer
  PROVE  IInv'
  <1>1. /\ req \in [Uploads -> Request] /\ \A u \in Uploads : RequestShape(req[u])
        /\ access \in [Reviewers -> Access] /\ lastId \in Nat
    BY DEF IInv, Shaped
  <1>2. uploading' = 0 /\ ingesting' = 0 /\ UNCHANGED <<access, stored, lastId>>
    BY DEF StopServer
  <1>3. \A u \in Uploads :
          \/ req[u].at \in {"idle", "done"} /\ req'[u] = req[u]
          \/ /\ req[u].at \notin {"idle", "done"}
             /\ req'[u] = [at |-> "done", call |-> Call(u), id |-> 0, row |-> FALSE,
                           audit |-> FALSE, lost |-> FALSE, reply |-> "lost", told |-> 0]
    BY DEF StopServer, Idle
  <1>4. \A u \in Uploads : RequestShape(req'[u])
    <2> SUFFICES ASSUME NEW u \in Uploads, req[u].at \notin {"idle", "done"}
                 PROVE  RequestShape(req'[u])
      BY <1>1, <1>3
    <2>1. req'[u] = [at |-> "done", call |-> Call(u), id |-> 0, row |-> FALSE,
                     audit |-> FALSE, lost |-> FALSE, reply |-> "lost", told |-> 0]
      BY <1>3
    <2>2. Call(u) \in Calls /\ "done" \in Labels /\ "lost" \in Replies
      BY <1>1 DEF RequestShape, Call, Labels, Replies
    <2>3. req'[u] \in Request
      BY <2>1, <2>2 DEF Request
    <2> QED
      BY <2>1, <2>2, <2>3 DEF RequestShape
  <1>5. \A u \in Uploads :
          /\ req'[u].at \in {"idle", "done"}
          /\ req[u].at # "idle" => req'[u].at = "done" /\ req'[u].call = req[u].call
    <2> SUFFICES ASSUME NEW u \in Uploads
                 PROVE  /\ req'[u].at \in {"idle", "done"}
                        /\ req[u].at # "idle" =>
                             req'[u].at = "done" /\ req'[u].call = req[u].call
      OBVIOUS
    <2>1. CASE req[u].at \in {"idle", "done"} /\ req'[u] = req[u]
      BY <2>1
    <2>2. CASE req'[u] = [at |-> "done", call |-> Call(u), id |-> 0, row |-> FALSE,
                          audit |-> FALSE, lost |-> FALSE, reply |-> "lost", told |-> 0]
      BY <2>2 DEF Call
    <2> QED
      BY <1>3, <2>1, <2>2
  <1>6. Shaped'
    <2>1. \A u \in Uploads : RequestShape(req[u])'
      BY <1>4 DEF RequestShape
    <2>2. req' \in [Uploads -> Request]
      BY <1>4 DEF StopServer, RequestShape
    <2> QED
      BY <1>1, <1>2, <2>1, <2>2 DEF Shaped
  <1>7. \A u \in Uploads : ~req'[u].row /\ ~req'[u].lost
    <2> SUFFICES ASSUME NEW u \in Uploads PROVE ~req'[u].row /\ ~req'[u].lost
      OBVIOUS
    <2>1. CASE req[u].at \in {"idle", "done"} /\ req'[u] = req[u]
      <3>1. ~req[u].row /\ ~req[u].lost
        BY <1>1, <2>1 DEF RequestShape, IInv, DecisionStands
      <3> QED
        BY <2>1, <3>1
    <2>2. CASE req'[u] = [at |-> "done", call |-> Call(u), id |-> 0, row |-> FALSE,
                          audit |-> FALSE, lost |-> FALSE, reply |-> "lost", told |-> 0]
      BY <2>2
    <2> QED
      BY <1>3, <2>1, <2>2
  <1>8. Counted'
    <2>1. In(InBody)' = {} /\ In(InExtraction)' = {}
      BY <1>5 DEF In, InBody, InExtraction
    <2> QED
      BY <1>2, <2>1, FS_EmptySet, UploadAssumption DEF Counted
  <1>9. IdsSuffice'
    <2> DEFINE S == {"audit", "commit", "respond", "done"}
    <2>1. In(S) \in SUBSET In(S)' /\ In(S)' \in SUBSET Uploads
      BY <1>5 DEF In
    <2>2. IsFiniteSet(In(S)')
      BY <2>1, FS_Subset, UploadAssumption
    <2>3. Cardinality(In(S)) <= Cardinality(In(S)')
      BY <2>1, <2>2, FS_Subset
    <2>4. Cardinality(In(S)) \in Nat /\ Cardinality(In(S)') \in Nat
      BY <2>2, InFinite, FS_CardinalityType
    <2>5. lastId <= Cardinality(In(S))
      BY DEF IInv, IdsSuffice
    <2>6. lastId' <= Cardinality(In(S)')
      BY <1>1, <1>2, <2>3, <2>4, <2>5
    <2> QED
      BY <2>6 DEF IdsSuffice
  <1>10. SourcesAreTheirs'
    BY <1>2, <1>5 DEF IInv, SourcesAreTheirs, Key, Call
  <1>11. RowsApart' /\ DecisionStands'
    BY <1>7 DEF RowsApart, DecisionStands
  <1>12. CommittedHasSource' /\ RaceHasWinner'
    BY <1>5 DEF CommittedHasSource, RaceHasWinner
  <1> QED
    BY <1>6, <1>8, <1>9, <1>10, <1>11, <1>12 DEF IInv

LEMMA Stepwise == IInv /\ [Next]_vars => IInv'
  <1> SUFFICES ASSUME IInv, [Next]_vars PROVE IInv'
    OBVIOUS
  <1>1. ASSUME NEW u \in Uploads, Moves(u) PROVE IInv'
    BY <1>1, ShapedMove, CountedMove, SourcesMove, RowsMove, RacesMove, IdsMove, DecisionsMove
       DEF IInv
  <1>2. ASSUME NEW change \in AccessChanges, ChangeAccess(change[1], change[2]) PROVE IInv'
    <2>1. change[1] \in Reviewers /\ change[2] \in Access
      BY UploadAssumption
    <2> QED
      BY <1>2, <2>1, AccessChangeKeeps
  <1>3. CASE UNCHANGED vars
    <2>1. UNCHANGED <<access, stored, lastId, uploading, ingesting, req>>
      BY <1>3 DEF vars, slots
    <2>2. Shaped' /\ Counted' /\ IdsSuffice'
      BY <2>1 DEF IInv, Shaped, RequestShape, Counted, IdsSuffice, In
    <2>3. SourcesAreTheirs' /\ RowsApart' /\ CommittedHasSource' /\ RaceHasWinner'
      BY <2>1 DEF IInv, SourcesAreTheirs, RowsApart, CommittedHasSource, RaceHasWinner,
                  Duplicate, Key, Call
    <2>4. DecisionStands'
      BY <2>1 DEF IInv, DecisionStands, Call, IsMember
    <2> QED
      BY <2>2, <2>3, <2>4 DEF IInv
  <1> QED
    BY <1>1, <1>2, <1>3, StepsMove, StopKeeps DEF Next

LEMMA Invariance == Spec => []IInv
  BY Initially, Stepwise, PTL DEF Spec

-----------------------------------------------------------------------------
\* Access, sources, counts and answers keep their types, with any number of uploads.
THEOREM UploadsTyped == Spec => []TypeOK
  <1>1. IInv => TypeOK
    <2> SUFFICES ASSUME IInv PROVE TypeOK
      OBVIOUS
    <2>1. /\ access \in [Reviewers -> Access] /\ lastId \in Nat
          /\ req \in [Uploads -> Request]
          /\ DOMAIN stored \subseteq 1 .. lastId
      BY DEF IInv, Shaped, SourcesAreTheirs
    <2>2. uploading \in 0 .. Slots /\ ingesting \in 0 .. Slots
      <3>1. /\ uploading \in Nat /\ ingesting \in Nat /\ Slots \in Nat
            /\ uploading <= Slots
        BY CountsTyped, UploadAssumption DEF IInv, Counted
      <3>2. ingesting <= uploading
        <4>1. In(InExtraction) \in SUBSET In(InBody) /\ IsFiniteSet(In(InBody))
          BY InFinite DEF In, InBody
        <4> QED
          BY <4>1, FS_Subset DEF IInv, Counted
      <3> QED
        BY <3>1, <3>2
    <2>3. ASSUME NEW u \in Uploads PROVE req[u].reply \in Replies /\ req[u].id \in 0 .. lastId
      <3>1. req[u] \in Request
        BY <2>1
      <3>2. req[u].id = 0 \/ req[u].id \in 1 .. lastId
        BY <2>1 DEF IInv, Shaped, RequestShape, RowsApart, CommittedHasSource
      <3> QED
        BY <2>1, <3>1, <3>2 DEF Request
    <2> QED
      BY <2>1, <2>2, <2>3 DEF TypeOK
  <1> QED
    BY <1>1, Invariance, PTL

\* Each admission counts the requests that hold a place of it, whichever way requests
\* end and the server stops; and whoever has a body in finds a place to extract it.
THEOREM PlacesCorrect == Spec => []PlacesAreHeld
  <1>1. IInv => PlacesAreHeld
    BY DEF IInv, Shaped, RequestShape, Counted, In, PlacesAreHeld
  <1> QED
    BY <1>1, Invariance, PTL

\* A reviewer who lost his access while his document was extracted, and did not get it
\* back, has nothing stored: what is committed stands on a decision that held.
THEOREM DecisionsCorrect == Spec => []NothingStoredOnAStaleDecision
  <1>1. IInv => NothingStoredOnAStaleDecision
    BY DEF IInv, DecisionStands, NothingStoredOnAStaleDecision
  <1> QED
    BY <1>1, Invariance, PTL

-----------------------------------------------------------------------------
(***************************************************************************)
(* Answers, and the refinement of KeyedUploads.                            *)
(***************************************************************************)

\* A request that moves has no answer yet, and gets one, or is turned away at the
\* door, or still has none.
LEMMA AnswersMove ==
  ASSUME IInv, NEW u \in Uploads, Moves(u)
  PROVE  /\ req[u].reply = "none"
         /\ req'[u].reply \notin {"none", "forbidden"} =>
              /\ req[u].at # "idle" /\ req'[u].call = req[u].call
              /\ Ended(u, req'[u].reply, req'[u].told)
  <1>1. /\ req \in [Uploads -> Request] /\ RequestShape(req[u]) /\ RequestShape(req'[u])
    BY MovedAlone DEF IInv, Shaped
  <1>2. CASE \E label \in Labels : Walk(u, label)
    <2>1. PICK label \in Labels : Walk(u, label)
      BY <1>2
    <2>2. req'[u] = [req[u] EXCEPT !.at = label] /\ <<req[u].at, label>> \in Walks
      BY <1>1, <2>1 DEF Walk
    <2>3. req'[u].at = label /\ req[u] \in Request
      BY <1>1, <2>2 DEF Request
    <2>4. req[u].at # "done" /\ label # "done"
      BY <2>2 DEF Walks
    <2> QED
      BY <1>1, <2>3, <2>4 DEF RequestShape
  <1>3. ASSUME NEW reply \in Replies, NEW told \in Nat, Ended(u, reply, told)
        PROVE  /\ req[u].at \notin {"idle", "done"} /\ req'[u].call = req[u].call
               /\ Ended(u, req'[u].reply, req'[u].told)
    <2>1. /\ req'[u].reply = reply /\ req'[u].told = told /\ req'[u].call = req[u].call
      BY <1>1, <1>3 DEF Ended, Idle, Call
    <2>2. req[u].at \notin {"idle", "done"}
      BY <1>3 DEF Ended
    <2> QED
      BY <1>3, <2>1, <2>2
  <1>4. ASSUME NEW call \in Calls, Came(u, call)
        PROVE  req[u].at = "idle" /\ req'[u].reply \in {"none", "forbidden"}
    <2>1. PICK r : /\ req' = [req EXCEPT ![u] = r]
                   /\ \/ r = [Idle EXCEPT !.at = "admit", !.call = call]
                      \/ r = [Idle EXCEPT !.at = "done", !.call = call, !.reply = "forbidden"]
      BY <1>4 DEF Came
    <2>2. req'[u] = r
      BY <1>1, <2>1
    <2>3. r.reply \in {"none", "forbidden"}
      BY <2>1 DEF Idle
    <2>4. req[u].at = "idle"
      BY <1>4 DEF Came
    <2> QED
      BY <2>2, <2>3, <2>4
  <1>5. CASE Inserts(u) \/ Audits(u) \/ Commits(u)
    <2>1. req[u].at # "done" /\ req'[u].at # "done"
      BY <1>5, InsertEffect, AuditEffect, CommitEffect
    <2> QED
      BY <1>1, <2>1 DEF RequestShape
  <1>6. req[u].reply = "none"
    BY <1>1, <1>2, <1>3, <1>4, <1>5 DEF Moves, RequestShape
  <1>7. req'[u].reply \notin {"none", "forbidden"} =>
          /\ req[u].at # "idle" /\ req'[u].call = req[u].call
          /\ Ended(u, req'[u].reply, req'[u].told)
    BY <1>2, <1>3, <1>4, <1>5 DEF Moves
  <1> QED
    BY <1>6, <1>7

\* The steps that are no request's answer none; and where they end requests, they say
\* "lost".
LEMMA AnswersElsewhere ==
  ASSUME IInv, NEW u \in Uploads,
         StopServer \/ \E v \in Reviewers, now \in Access : ChangeAccess(v, now)
  PROVE  /\ req'[u].reply \in {req[u].reply, "lost"}
         /\ req'[u].reply # req[u].reply => req[u].reply = "none"
         /\ req[u].reply # "none" => req'[u].told = req[u].told
         /\ (req'[u].at = "idle") <=> (req[u].at = "idle")
         /\ req'[u].call = req[u].call
         /\ stored' = stored
  <1>1. req \in [Uploads -> Request] /\ req[u] \in Request /\ RequestShape(req[u])
    BY DEF IInv, Shaped
  <1>2. CASE StopServer
    <2>1. \/ req[u].at \in {"idle", "done"} /\ req'[u] = req[u]
          \/ /\ req[u].at \notin {"idle", "done"}
             /\ req'[u] = [at |-> "done", call |-> Call(u), id |-> 0, row |-> FALSE,
                           audit |-> FALSE, lost |-> FALSE, reply |-> "lost", told |-> 0]
      BY <1>2 DEF StopServer, Idle
    <2>2. stored' = stored
      BY <1>2 DEF StopServer
    <2>3. CASE req[u].at \in {"idle", "done"} /\ req'[u] = req[u]
      BY <2>2, <2>3
    <2>4. CASE /\ req[u].at \notin {"idle", "done"}
               /\ req'[u] = [at |-> "done", call |-> Call(u), id |-> 0, row |-> FALSE,
                             audit |-> FALSE, lost |-> FALSE, reply |-> "lost", told |-> 0]
      <3>1. req[u].reply = "none" /\ req[u].at # "idle"
        BY <1>1, <2>4 DEF RequestShape
      <3>2. req'[u].reply = "lost" /\ req'[u].at = "done" /\ req'[u].call = req[u].call
        BY <2>4 DEF Call
      <3> QED
        BY <2>2, <3>1, <3>2
    <2> QED
      BY <2>1, <2>3, <2>4
  <1>3. ASSUME NEW v \in Reviewers, NEW now \in Access, ChangeAccess(v, now)
        PROVE  /\ req'[u].reply = req[u].reply /\ req'[u].told = req[u].told
               /\ req'[u].at = req[u].at /\ req'[u].call = req[u].call
               /\ stored' = stored
    <2>1. PICK lost : req'[u] = [req[u] EXCEPT !.lost = lost]
      BY <1>3 DEF ChangeAccess
    <2>2. stored' = stored
      BY <1>3 DEF ChangeAccess
    <2> QED
      BY <1>1, <2>1, <2>2 DEF Request
  <1> QED
    BY <1>2, <1>3

\* The loser of a race on a key is told that it could not be reconciled only when the
\* source stored under that key is hidden from him: there is a winner, and it is never
\* one that was rolled back.
THEOREM LosersReconciled == Spec => LoserIsReconciled
  <1>1. IInv /\ [Next]_vars =>
          [\A u \in Uploads : req'[u].reply = "not reconciled" /\ req[u].reply # "not reconciled" =>
             \E id \in DOMAIN stored :
               stored[id].key = Key(u) /\ ~MaySee(Call(u).by, stored[id].print)]_vars
    <2> SUFFICES ASSUME IInv, Next, NEW u \in Uploads,
                        req'[u].reply = "not reconciled", req[u].reply # "not reconciled"
                 PROVE  \E id \in DOMAIN stored :
                          stored[id].key = Key(u) /\ ~MaySee(Call(u).by, stored[id].print)
      OBVIOUS
    <2>1. ASSUME NEW w \in Uploads, Moves(w)
          PROVE  \E id \in DOMAIN stored :
                   stored[id].key = Key(u) /\ ~MaySee(Call(u).by, stored[id].print)
      <3>1. w = u
        BY <2>1, MovedAlone
      <3>2. Ended(u, "not reconciled", req'[u].told)
        BY <2>1, <3>1, AnswersMove
      <3>3. req[u].at = "look again" /\ Found(u) = {}
        BY <3>2 DEF Ended
      <3>4. PICK id \in DOMAIN stored : stored[id].key = Key(u)
        BY <3>3 DEF IInv, RaceHasWinner, Duplicate
      <3> QED
        BY <3>3, <3>4 DEF Found
    <2>2. ASSUME NEW change \in AccessChanges, ChangeAccess(change[1], change[2])
          PROVE  FALSE
      <3>1. change[1] \in Reviewers /\ change[2] \in Access
        BY UploadAssumption
      <3> QED
        BY <2>2, <3>1, AnswersElsewhere
    <2> QED
      BY <2>1, <2>2, StepsMove, AnswersElsewhere DEF Next
  <1> QED
    BY <1>1, Invariance, PTL DEF Spec, LoserIsReconciled

\* What KeyedUploads sees of a state.
Asked == [u \in {w \in Uploads : ~At(w, "idle")} |-> [key |-> Key(u), print |-> Call(u).print]]
Answers == [u \in Answered |-> req[u].told]

LEMMA MappedInit == Init => Promised!Init
  <1> SUFFICES ASSUME Init PROVE Promised!Init
    OBVIOUS
  <1>1. \A u \in Uploads : req[u].at = "idle" /\ req[u].reply = "none"
    BY DEF Init, Idle
  <1>2. {w \in Uploads : ~At(w, "idle")} = {} /\ Answered = {}
    BY <1>1 DEF At, Answered
  <1>3. Asked = [x \in {} |-> 0] /\ Answers = [x \in {} |-> 0]
    BY <1>2 DEF Asked, Answers
  <1>4. stored = [x \in {} |-> 0]
    BY DEF Init, None
  <1> QED
    BY <1>3, <1>4 DEF Promised!Init, Promised!Empty, Asked, Answers

\* A request that comes is asked for.
LEMMA CameMaps ==
  ASSUME IInv, NEW u \in Uploads, Moves(u), req[u].at = "idle"
  PROVE  Promised!Ask(u)
  <1>1. req \in [Uploads -> Request]
    BY DEF IInv, Shaped
  <1>2. PICK call \in Calls : Came(u, call)
    <2>1. /\ \A label \in Labels : ~Walk(u, label)
          /\ \A reply \in Replies, told \in Nat : ~Ended(u, reply, told)
          /\ ~Inserts(u) /\ ~Audits(u) /\ ~Commits(u)
      BY DEF Walk, Walks, Ended, Inserts, Audits, Commits
    <2> QED
      BY <2>1 DEF Moves
  <1>3. PICK r : /\ req' = [req EXCEPT ![u] = r]
                 /\ \/ r = [Idle EXCEPT !.at = "admit", !.call = call]
                    \/ r = [Idle EXCEPT !.at = "done", !.call = call, !.reply = "forbidden"]
    BY <1>2 DEF Came
  <1>4. r.at # "idle" /\ r.call = call /\ r.reply \in {"none", "forbidden"}
    BY <1>3 DEF Idle
  <1>5. req'[u] = r /\ \A w \in Uploads \ {u} : req'[w] = req[w]
    BY <1>1, <1>3
  <1>6. req[u].reply = "none" /\ stored' = stored
    BY <1>2, AnswersMove DEF Came
  <1>7. /\ DOMAIN Asked' = DOMAIN Asked \cup {u} /\ u \notin DOMAIN Asked
        /\ \A w \in DOMAIN Asked : Asked'[w] = Asked[w]
        /\ Asked'[u] = [key |-> call.key, print |-> call.print]
    BY <1>4, <1>5 DEF Asked, At, Key, Call
  <1>8. Asked' = [x \in DOMAIN Asked \cup {u} |->
                    IF x = u THEN [key |-> call.key, print |-> call.print] ELSE Asked[x]]
    BY <1>7 DEF Asked
  <1>9. Answered' = Answered /\ \A w \in Answered : req'[w] = req[w]
    BY <1>4, <1>5, <1>6 DEF Answered
  <1>10. Answers' = Answers
    BY <1>9 DEF Answers
  <1>11. call.key \in Keys \cup {NoKey} /\ call.print \in Prints
    BY UploadAssumption
  <1> QED
    BY <1>6, <1>7, <1>8, <1>10, <1>11 DEF Promised!Ask, Asked, Answers

\* What a request asked does not change while it goes on.
LEMMA AskedStays ==
  ASSUME \A w \in Uploads :
           /\ req'[w].at = "idle" <=> req[w].at = "idle"
           /\ req'[w].call = req[w].call
  PROVE  Asked' = Asked
  BY DEF Asked, At, Key, Call

LEMMA AnswersStay ==
  ASSUME \A w \in Uploads :
           /\ req'[w].reply \in {"created", "replayed"} <=> req[w].reply \in {"created", "replayed"}
           /\ req[w].reply \in {"created", "replayed"} => req'[w].told = req[w].told
  PROVE  Answers' = Answers
  <1>1. Answered' = Answered
    BY DEF Answered
  <1> QED
    BY <1>1 DEF Answers, Answered

LEMMA OwnCallStays ==
  ASSUME IInv, NEW u \in Uploads, Moves(u), req[u].at # "idle"
  PROVE  Asked' = Asked
  <1>1. req \in [Uploads -> Request] /\ req'[u].at # "idle" /\ req'[u].call = req[u].call
    <2>1. req \in [Uploads -> Request] /\ req[u] \in Request
      BY DEF IInv, Shaped
    <2>2. ASSUME NEW label \in Labels, Walk(u, label)
          PROVE  req'[u].at # "idle" /\ req'[u].call = req[u].call
      <3>1. req'[u] = [req[u] EXCEPT !.at = label] /\ <<req[u].at, label>> \in Walks
        BY <2>1, <2>2 DEF Walk
      <3>2. req'[u].at = label /\ req'[u].call = req[u].call
        BY <2>1, <3>1 DEF Request
      <3> QED
        BY <3>1, <3>2 DEF Walks
    <2>3. ASSUME NEW reply \in Replies, NEW told \in Nat, Ended(u, reply, told)
          PROVE  req'[u].at # "idle" /\ req'[u].call = req[u].call
      BY <2>1, <2>3 DEF Ended, Idle, Call
    <2>4. ASSUME NEW call \in Calls PROVE ~Came(u, call)
      BY DEF Came
    <2> QED
      BY <2>1, <2>2, <2>3, <2>4, InsertEffect, AuditEffect, CommitEffect DEF Moves
  <1>2. \A w \in Uploads \ {u} : req'[w] = req[w]
    BY MovedAlone
  <1> QED
    BY <1>1, <1>2, AskedStays

\* A request that commits stores its source, under a key that has none.
LEMMA CommitMaps ==
  ASSUME IInv, NEW u \in Uploads, Moves(u), Commits(u)
  PROVE  \E id \in Ids : Promised!Store(u, id)
  <1> DEFINE id == req[u].id
  <1>1. /\ req[u].at = "commit" /\ req'[u].at = "respond"
        /\ id \in 1 .. lastId /\ id \notin DOMAIN stored /\ ~Duplicate(u)
    BY CommitEffect
  <1>2. stored' = [x \in DOMAIN stored \cup {id} |->
          IF x = id THEN [upload |-> u, key |-> Key(u), print |-> Call(u).print] ELSE stored[x]]
    BY DEF Commits
  <1>3. id \in Ids
    <2>1. In({"audit", "commit", "respond", "done"}) \in SUBSET Uploads
      BY DEF In
    <2>2. Cardinality(In({"audit", "commit", "respond", "done"})) <= Cardinality(Uploads)
      BY <2>1, FS_Subset, UploadAssumption
    <2>3. /\ lastId <= Cardinality(In({"audit", "commit", "respond", "done"})) /\ lastId \in Nat
          /\ Cardinality(In({"audit", "commit", "respond", "done"})) \in Nat
          /\ Cardinality(Uploads) \in Nat
      BY InFinite, FS_CardinalityType, UploadAssumption DEF IInv, IdsSuffice, Shaped
    <2>4. id \in 1 .. Cardinality(Uploads)
      BY <1>1, <2>2, <2>3
    <2> QED
      BY <2>4, UploadAssumption
  <1>4. /\ u \in DOMAIN Asked
        /\ Asked[u].key = Key(u) /\ Asked[u].print = Call(u).print
    BY <1>1 DEF Asked, At
  <1>5. \A x \in DOMAIN stored : stored[x].upload # u /\ (Key(u) # NoKey => stored[x].key # Key(u))
    BY <1>1 DEF IInv, SourcesAreTheirs, Duplicate
  <1>6. Asked' = Asked
    BY <1>1, OwnCallStays
  <1>7. Answers' = Answers
    <2>1. /\ req[u].reply = "none"
          /\ req'[u].reply = "none"
          /\ \A w \in Uploads \ {u} : req'[w] = req[w]
      BY <1>1, MovedAlone, AnswersMove DEF RequestShape
    <2> QED
      BY <2>1, AnswersStay
  <1> HIDE DEF id
  <1>8. Promised!Store(u, id)
    BY <1>1, <1>2, <1>4, <1>5, <1>6, <1>7 DEF Promised!Store, Asked, Answers
  <1> QED
    BY <1>3, <1>8

\* A request that is answered is told of the source that is its own.
LEMMA AnswerMaps ==
  ASSUME IInv, NEW u \in Uploads, Moves(u), req'[u].reply \in {"created", "replayed"}
  PROVE  \E id \in Ids : Promised!Reply(u, id)
  <1>0. PICK id : id = req'[u].told
    OBVIOUS
  <1>1. /\ req[u].reply = "none" /\ req[u].at # "idle"
        /\ Ended(u, req'[u].reply, id)
    BY <1>0, AnswersMove
  <1>2. stored' = stored
    BY <1>1 DEF Ended
  <1>3. /\ id \in DOMAIN stored /\ stored[id].print = Call(u).print
        /\ stored[id].upload = u \/ (Key(u) # NoKey /\ stored[id].key = Key(u))
    <2>1. CASE req'[u].reply = "created"
      <3>1. req[u].at = "respond" /\ id = req[u].id
        BY <1>1, <2>1 DEF Ended
      <3> QED
        BY <3>1 DEF IInv, CommittedHasSource, SourcesAreTheirs
    <2>2. CASE req'[u].reply = "replayed"
      BY <1>1, <2>2 DEF Ended, Found
    <2> QED
      BY <2>1, <2>2
  <1>4. id \in Ids
    <2>1. In({"audit", "commit", "respond", "done"}) \in SUBSET Uploads
      BY DEF In
    <2>2. Cardinality(In({"audit", "commit", "respond", "done"})) <= Cardinality(Uploads)
      BY <2>1, FS_Subset, UploadAssumption
    <2>3. /\ lastId <= Cardinality(In({"audit", "commit", "respond", "done"})) /\ lastId \in Nat
          /\ Cardinality(In({"audit", "commit", "respond", "done"})) \in Nat
          /\ Cardinality(Uploads) \in Nat
      BY InFinite, FS_CardinalityType, UploadAssumption DEF IInv, IdsSuffice, Shaped
    <2>4. id \in 1 .. lastId
      BY <1>3 DEF IInv, SourcesAreTheirs
    <2>5. id \in 1 .. Cardinality(Uploads)
      BY <2>2, <2>3, <2>4
    <2> QED
      BY <2>5, UploadAssumption
  <1>5. Asked' = Asked
    BY <1>1, OwnCallStays
  <1>6. /\ u \in DOMAIN Asked
        /\ Asked[u].key = Key(u) /\ Asked[u].print = Call(u).print
    BY <1>1 DEF Asked, At
  <1>7. /\ u \notin DOMAIN Answers
        /\ Answers' = [x \in DOMAIN Answers \cup {u} |-> IF x = u THEN id ELSE Answers[x]]
    <2>1. \A w \in Uploads \ {u} : req'[w] = req[w]
      BY MovedAlone
    <2>2. Answered' = Answered \cup {u} /\ u \notin Answered
      BY <1>1, <2>1 DEF Answered
    <2>3. \A w \in Answered : req'[w] = req[w]
      BY <2>1, <2>2 DEF Answered
    <2> QED
      BY <1>0, <2>2, <2>3 DEF Answers
  <1>8. Promised!Reply(u, id)
    BY <1>2, <1>3, <1>5, <1>6, <1>7 DEF Promised!Reply, Promised!Matches, Asked, Answers
  <1> QED
    BY <1>4, <1>8

LEMMA MovesMap ==
  ASSUME IInv, NEW u \in Uploads, Moves(u)
  PROVE  Promised!Next \/ UNCHANGED <<Asked, stored, Answers>>
  <1>1. CASE req[u].at = "idle"
    BY <1>1, CameMaps DEF Promised!Next
  <1>2. CASE Commits(u)
    BY <1>2, CommitMaps DEF Promised!Next
  <1>3. CASE req'[u].reply \in {"created", "replayed"}
    BY <1>3, AnswerMaps DEF Promised!Next
  <1>4. CASE req[u].at # "idle" /\ ~Commits(u) /\ req'[u].reply \notin {"created", "replayed"}
    <2>1. Asked' = Asked
      BY <1>4, OwnCallStays
    <2>2. stored' = stored
      BY <1>4, MovesAre, InsertEffect, AuditEffect DEF Quiet
    <2>3. req[u].reply = "none" /\ \A w \in Uploads \ {u} : req'[w] = req[w]
      BY AnswersMove, MovedAlone
    <2>4. Answers' = Answers
      BY <1>4, <2>3, AnswersStay
    <2> QED
      BY <2>1, <2>2, <2>4
  <1> QED
    BY <1>1, <1>2, <1>3, <1>4

LEMMA StepsMap == IInv /\ [Next]_vars => [Promised!Next]_(Promised!vars)
  <1> SUFFICES ASSUME IInv, [Next]_vars
               PROVE  Promised!Next \/ UNCHANGED <<Asked, stored, Answers>>
    BY DEF Promised!vars, Asked, Answers
  <1>1. ASSUME NEW u \in Uploads, Moves(u)
        PROVE  Promised!Next \/ UNCHANGED <<Asked, stored, Answers>>
    BY <1>1, MovesMap
  <1>2. ASSUME StopServer \/ \E v \in Reviewers, now \in Access : ChangeAccess(v, now)
        PROVE  UNCHANGED <<Asked, stored, Answers>>
    <2>1. \A u \in Uploads :
            /\ req'[u].reply \in {req[u].reply, "lost"}
            /\ req'[u].reply # req[u].reply => req[u].reply = "none"
            /\ req[u].reply # "none" => req'[u].told = req[u].told
            /\ (req'[u].at = "idle") <=> (req[u].at = "idle")
            /\ req'[u].call = req[u].call
      BY <1>2, AnswersElsewhere
    <2>2. Asked' = Asked
      BY <2>1, AskedStays
    <2>3. Answers' = Answers
      BY <2>1, AnswersStay
    <2>4. stored' = stored
      BY <1>2 DEF StopServer, ChangeAccess
    <2> QED
      BY <2>2, <2>3, <2>4
  <1>3. ASSUME NEW change \in AccessChanges, ChangeAccess(change[1], change[2])
        PROVE  UNCHANGED <<Asked, stored, Answers>>
    <2>1. change[1] \in Reviewers /\ change[2] \in Access
      BY UploadAssumption
    <2> QED
      BY <1>2, <1>3, <2>1
  <1>4. CASE UNCHANGED vars
    BY <1>4 DEF vars, slots, Asked, Answers, Answered, At, Key, Call
  <1> QED
    BY <1>1, <1>2, <1>3, <1>4, StepsMove DEF Next

\* Requests, retries, failures and restarts together do what KeyedUploads does step by
\* step: they ask, store the first source of a key, and are told of it.
THEOREM UploadsKeepPromise == Spec => ImplementsKeyedUploads
  BY StepsMap, Invariance, PTL DEF Spec, ImplementsKeyedUploads

\* The whole specification implements the abstract one, from its initial states on.
THEOREM UploadsImplement == Spec => Promised!Spec
  BY MappedInit, StepsMap, Invariance, PTL DEF Spec, Promised!Spec

-----------------------------------------------------------------------------
(***************************************************************************)
(* What is promised keeps a key to one source, and so does what the server *)
(* carries out.                                                            *)
(***************************************************************************)

\* A source carries the key of the upload it was stored for.
StoredForAnUpload ==
  \A id \in DOMAIN stored :
    /\ stored[id].upload \in DOMAIN Asked
    /\ stored[id].key = Asked[stored[id].upload].key

\* No two sources have one key.
KeysAreUnique ==
  \A id, other \in DOMAIN stored :
    stored[id].key = stored[other].key /\ stored[id].key # NoKey => id = other

Matched(u, id) ==
  /\ stored[id].print = Asked[u].print
  /\ \/ stored[id].upload = u
     \/ Asked[u].key # NoKey /\ stored[id].key = Asked[u].key

AnswersMatch ==
  \A u \in DOMAIN Answers :
    /\ u \in DOMAIN Asked
    /\ Answers[u] \in DOMAIN stored
    /\ Matched(u, Answers[u])

KeyInv == StoredForAnUpload /\ KeysAreUnique /\ AnswersMatch

\* An answer that matches names the source stored under the key.
LEMMA AnsweredByKey ==
  ASSUME KeyInv, NEW u \in DOMAIN Answers, Asked[u].key # NoKey
  PROVE  /\ Answers[u] \in DOMAIN stored
         /\ stored[Answers[u]].key = Asked[u].key
         /\ stored[Answers[u]].print = Asked[u].print
  <1>1. Answers[u] \in DOMAIN stored /\ Matched(u, Answers[u])
    BY DEF KeyInv, AnswersMatch
  <1>2. CASE stored[Answers[u]].upload = u
    BY <1>1, <1>2 DEF Matched, KeyInv, StoredForAnUpload
  <1>3. CASE stored[Answers[u]].key = Asked[u].key
    BY <1>1, <1>3 DEF Matched
  <1> QED
    BY <1>1, <1>2, <1>3 DEF Matched

LEMMA OneSourceFollows == KeyInv => Promised!OneSourcePerKey
  <1>1. ASSUME KeyInv, NEW u \in DOMAIN Answers, NEW w \in DOMAIN Answers,
               Asked[u].key = Asked[w].key, Asked[u].key # NoKey
        PROVE  Answers[u] = Answers[w] /\ Asked[u].print = Asked[w].print
    <2>1. /\ Answers[u] \in DOMAIN stored /\ Answers[w] \in DOMAIN stored
          /\ stored[Answers[u]].key = Asked[u].key
          /\ stored[Answers[w]].key = Asked[u].key
      BY <1>1, AnsweredByKey
    <2>2. Answers[u] = Answers[w]
      BY <1>1, <2>1 DEF KeyInv, KeysAreUnique
    <2> QED
      BY <1>1, <2>2, AnsweredByKey
  <1> QED
    BY <1>1 DEF Promised!OneSourcePerKey, Asked, Answers

LEMMA KeysStartApart == Promised!Init => KeyInv
  BY DEF Promised!Init, Promised!Empty, Asked, Answers, KeyInv, StoredForAnUpload,
         KeysAreUnique, AnswersMatch

\* A question leaves those before it, and their answers, as they are.
LEMMA AskPreserves ==
  ASSUME KeyInv, NEW u \in Uploads, Promised!Ask(u)
  PROVE  KeyInv'
  <1>1. /\ DOMAIN Asked \subseteq DOMAIN Asked'
        /\ \A x \in DOMAIN Asked : Asked'[x] = Asked[x]
        /\ UNCHANGED <<stored, Answers>>
    BY DEF Promised!Ask, Asked, Answers
  <1>2. StoredForAnUpload'
    BY <1>1 DEF KeyInv, StoredForAnUpload
  <1>3. KeysAreUnique'
    BY <1>1 DEF KeyInv, KeysAreUnique
  <1>4. AnswersMatch'
    BY <1>1 DEF KeyInv, AnswersMatch, Matched
  <1> QED
    BY <1>2, <1>3, <1>4 DEF KeyInv

\* A source is stored only under a key that has none.
LEMMA StorePreserves ==
  ASSUME KeyInv, NEW u \in Uploads, NEW id \in Ids, Promised!Store(u, id)
  PROVE  KeyInv'
  <1>1. /\ u \in DOMAIN Asked /\ id \notin DOMAIN stored
        /\ \A x \in DOMAIN stored : Asked[u].key # NoKey => stored[x].key # Asked[u].key
        /\ DOMAIN stored' = DOMAIN stored \cup {id}
        /\ \A x \in DOMAIN stored : stored'[x] = stored[x]
        /\ stored'[id] = [upload |-> u, key |-> Asked[u].key, print |-> Asked[u].print]
        /\ UNCHANGED <<Asked, Answers>>
    BY DEF Promised!Store, Asked, Answers
  <1>2. StoredForAnUpload'
    BY <1>1 DEF KeyInv, StoredForAnUpload
  <1>3. KeysAreUnique'
    <2> SUFFICES ASSUME NEW a \in DOMAIN stored', NEW b \in DOMAIN stored',
                        stored'[a].key = stored'[b].key, stored'[a].key # NoKey
                 PROVE  a = b
      BY DEF KeysAreUnique
    <2>1. CASE a = id /\ b = id
      BY <2>1
    <2>2. CASE a \in DOMAIN stored /\ b \in DOMAIN stored
      BY <1>1, <2>2 DEF KeyInv, KeysAreUnique
    <2>3. CASE a = id /\ b \in DOMAIN stored
      BY <1>1, <2>3
    <2>4. CASE a \in DOMAIN stored /\ b = id
      BY <1>1, <2>4
    <2> QED
      BY <1>1, <2>1, <2>2, <2>3, <2>4
  <1>4. AnswersMatch'
    BY <1>1 DEF KeyInv, AnswersMatch, Matched
  <1> QED
    BY <1>2, <1>3, <1>4 DEF KeyInv

LEMMA ReplyPreserves ==
  ASSUME KeyInv, NEW u \in Uploads, NEW id \in Ids, Promised!Reply(u, id)
  PROVE  KeyInv'
  <1>1. /\ u \in DOMAIN Asked /\ u \notin DOMAIN Answers
        /\ id \in DOMAIN stored /\ Matched(u, id)
        /\ DOMAIN Answers' = DOMAIN Answers \cup {u}
        /\ \A x \in DOMAIN Answers : Answers'[x] = Answers[x]
        /\ Answers'[u] = id
        /\ UNCHANGED <<Asked, stored>>
    BY DEF Promised!Reply, Promised!Matches, Matched, Asked, Answers
  <1>2. StoredForAnUpload' /\ KeysAreUnique'
    BY <1>1 DEF KeyInv, StoredForAnUpload, KeysAreUnique
  <1>3. AnswersMatch'
    BY <1>1 DEF KeyInv, AnswersMatch, Matched
  <1> QED
    BY <1>2, <1>3 DEF KeyInv

\* Whatever does as it is promised answers everyone under one key with one source,
\* who asked for one document (KeyedUploads).
THEOREM OneSourceCorrect == Promised!Spec => []Promised!OneSourcePerKey
  <1>1. Promised!Init => KeyInv
    BY KeysStartApart
  <1>2. KeyInv /\ [Promised!Next]_(Promised!vars) => KeyInv'
    <2> SUFFICES ASSUME KeyInv, [Promised!Next]_(Promised!vars) PROVE KeyInv'
      OBVIOUS
    <2>1. CASE Promised!Next
      BY <2>1, AskPreserves, StorePreserves, ReplyPreserves DEF Promised!Next
    <2>2. CASE UNCHANGED Promised!vars
      <3>1. UNCHANGED <<Asked, stored, Answers>>
        BY <2>2 DEF Promised!vars, Asked, Answers
      <3> QED
        BY <3>1 DEF KeyInv, StoredForAnUpload, KeysAreUnique, AnswersMatch, Matched
    <2> QED
      BY <2>1, <2>2
  <1>3. KeyInv => Promised!OneSourcePerKey
    BY OneSourceFollows
  <1> QED
    BY <1>1, <1>2, <1>3, PTL DEF Promised!Spec

\* However uploads interleave, fail, are asked for again and outlive the server, those
\* that are answered under one key are told one source and asked for one document.
THEOREM OneSourceUploaded == Spec => []Promised!OneSourcePerKey
  BY UploadsImplement, OneSourceCorrect, PTL
=============================================================================
