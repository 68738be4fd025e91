--------------------------- MODULE SourceUpload ---------------------------
(***************************************************************************)
(* Uploads as the server carries them out, several at a time: admission    *)
(* before the body is read, one transaction to check the request, the      *)
(* extraction with no transaction at all, and another transaction that     *)
(* checks the reviewer again and stores the document.  Meanwhile access is *)
(* withdrawn and given back, a database statement fails, a client asks     *)
(* again with the same key, and the server stops and is started again.     *)
(*                                                                         *)
(* The extraction itself is IsolatedExtraction.                            *)
(***************************************************************************)
EXTENDS Naturals, FiniteSets

CONSTANTS
  Uploads,      \* the requests: numbers
  Calls,        \* what they may ask for: by whom, under which key, which document
  Reviewers,
  Keys, NoKey, Prints, Ids,   \* as in KeyedUploads; identifiers are numbers
  Withheld,     \* the documents whose privilege withholds them
  Slots,        \* max_concurrent_source_ingestions
  FirstAccess,  \* the access each reviewer begins with
  AccessChanges, \* the changes of access there may be: whose, and to what
  MaxChanges,   \* bounds of the model: changes of access, stops of the server
  MaxStops

VARIABLES
  access,     \* what each reviewer may do in the matter now
  stored,     \* the committed sources and their files
  lastId,     \* the last identifier taken from the sequence
  uploading,  \* source_body_admission: its count of requests in flight
  ingesting,  \* ingestion_admission: its count
  req,        \* what each request is doing
  changes,    \* how often access has changed
  stops       \* how often the server has stopped

slots == <<uploading, ingesting>>
vars  == <<access, stored, lastId, slots, req, changes, stops>>

Access == [signedIn : BOOLEAN, role : {"none", "member", "cleared"}]

\* There are identifiers for all that may be stored (a sequence gives them out).
ASSUME UploadAssumption ==
  /\ Uploads \subseteq Nat /\ IsFiniteSet(Uploads)
  /\ 1 .. Cardinality(Uploads) \subseteq Ids
  /\ Calls \subseteq [by : Reviewers, key : Keys \cup {NoKey}, print : Prints]
  /\ NoKey \notin Keys
  /\ Slots \in Nat \ {0}
  /\ FirstAccess \in [Reviewers -> Access]
  /\ AccessChanges \subseteq Reviewers \X Access
  /\ MaxChanges \in Nat /\ MaxStops \in Nat

-----------------------------------------------------------------------------
(***************************************************************************)
(* Requests.                                                               *)
(***************************************************************************)

None == [x \in {} |-> 0]
Nobody == [by |-> 0, key |-> NoKey, print |-> 0]

\* `row' is the file a transaction has inserted and not committed, `id' the source
\* it is of, `lost' that access was withdrawn since the extraction and has not come
\* back, `told' the source the client is told.
Idle ==
  [at |-> "idle", call |-> Nobody, id |-> 0, row |-> FALSE, audit |-> FALSE, lost |-> FALSE,
   reply |-> "none", told |-> 0]

At(u, label) == req[u].at = label
Call(u) == req[u].call
Key(u) == Call(u).key

Goto(u, label) ==
  /\ req' = [req EXCEPT ![u].at = label]
  /\ UNCHANGED <<access, stored, lastId, slots, changes, stops>>

\* The steps at which a request holds a place of each admission (_slot's try and
\* finally; the middleware's around the whole request).
InExtraction == {"extract", "authorize again", "insert", "audit", "commit", "resolve", "look again"}
InBody == InExtraction \cup {"body", "authorize", "look up", "place", "respond"}

\* MUTANT: a request that fails in the extraction keeps its place.
PlacesGivenBackUnlessFailed(u, reply) ==
  /\ uploading' = uploading - (IF req[u].at \in InBody THEN 1 ELSE 0)
  /\ ingesting' = ingesting - (IF req[u].at \in InExtraction /\ reply # "error" THEN 1 ELSE 0)

\* The places a request holds are given back however it ends.
PlacesGivenBack(u, reply) ==
  /\ uploading' = uploading - (IF req[u].at \in InBody THEN 1 ELSE 0)
  /\ ingesting' = ingesting - (IF req[u].at \in InExtraction THEN 1 ELSE 0)

\* The request ends, and what its transaction wrote is rolled back.
End(u, reply, told) ==
  /\ req' = [req EXCEPT ![u] =
       [Idle EXCEPT !.at = "done", !.call = Call(u), !.reply = reply, !.told = told]]
  /\ PlacesGivenBack(u, reply)
  /\ UNCHANGED <<access, stored, lastId, changes, stops>>

Refuse(u, reply) == End(u, reply, 0)

-----------------------------------------------------------------------------
(***************************************************************************)
(* Access and what it shows.                                               *)
(***************************************************************************)

\* He has a session, verified, and is an active member of the matter.
IsMember(v) == access[v].signedIn /\ access[v].role # "none"

\* The privilege a document claims lets the member see it (_source_visible_to, and the
\* row-level policy of the file, which agree).
MaySee(v, print) ==
  \/ access[v].role = "cleared"
  \/ access[v].role = "member" /\ print \notin Withheld

\* The file of a key, as the database shows it to the reviewer.
Found(u) == {id \in DOMAIN stored :
               /\ stored[id].key = Key(u)
               /\ MaySee(Call(u).by, stored[id].print)}

\* _idempotent_replay: the source of the key if it is the same upload.
Replay(u, otherwise) ==
  IF Found(u) = {} THEN otherwise
  ELSE LET id == CHOOSE x \in Found(u) : TRUE
       IN  IF stored[id].print = Call(u).print THEN End(u, "replayed", id) ELSE Refuse(u, "conflict")

-----------------------------------------------------------------------------
(***************************************************************************)
(* Before the extraction.                                                  *)
(***************************************************************************)

\* Requests are numbered in the order they come.  BodySizeLimitMiddleware refuses
\* who may not upload, and who finds no place.
Arrive(u, call) ==
  /\ At(u, "idle")
  /\ \A w \in Uploads : w < u => ~At(w, "idle")
  /\ req' = [req EXCEPT ![u] =
       IF IsMember(call.by) THEN [Idle EXCEPT !.at = "admit", !.call = call]
       ELSE [Idle EXCEPT !.at = "done", !.call = call, !.reply = "forbidden"]]
  /\ UNCHANGED <<access, stored, lastId, slots, changes, stops>>

TakeBodyPlace(u) ==
  /\ At(u, "admit")
  /\ IF uploading >= Slots THEN Refuse(u, "uploads in progress")
     ELSE /\ uploading' = uploading + 1
          /\ req' = [req EXCEPT ![u].at = "body"]
          /\ UNCHANGED <<access, stored, lastId, ingesting, changes, stops>>

\* The body comes whole, or is too long, too late or broken off.
ReceiveBody(u) ==
  /\ At(u, "body")
  /\ Goto(u, "authorize") \/ Refuse(u, "bad body")

\* Phase 1: the reviewer, the membership, and the privilege the upload claims.
Authorize(u) ==
  /\ At(u, "authorize")
  /\ IF IsMember(Call(u).by) /\ MaySee(Call(u).by, Call(u).print)
     THEN Goto(u, "look up") ELSE Refuse(u, "forbidden")

LookUp(u) ==
  /\ At(u, "look up")
  /\ IF Key(u) = NoKey THEN Goto(u, "place") ELSE Replay(u, Goto(u, "place"))

TakeIngestionPlace(u) ==
  /\ At(u, "place")
  /\ IF ingesting >= Slots THEN Refuse(u, "too many documents")
     ELSE /\ ingesting' = ingesting + 1
          /\ req' = [req EXCEPT ![u].at = "extract"]
          /\ UNCHANGED <<access, stored, lastId, uploading, changes, stops>>

\* Phase 2: a result, or an exception nobody catches.
Extract(u) ==
  /\ At(u, "extract")
  /\ Goto(u, "authorize again") \/ Refuse(u, "error")

-----------------------------------------------------------------------------
(***************************************************************************)
(* After the extraction: create_source_op in a transaction of its own.     *)
(***************************************************************************)

\* MUTANT: the decision made before the extraction stands.
TrustFirstDecision(u) ==
  /\ At(u, "authorize again")
  /\ Goto(u, "insert")

\* The session and the membership once more.
AuthorizeAgain(u) ==
  /\ At(u, "authorize again")
  /\ IF ~IsMember(Call(u).by) THEN Refuse(u, "forbidden") ELSE Goto(u, "insert")

SameKey(u) == {w \in Uploads \ {u} : Key(w) = Key(u) /\ Key(u) # NoKey}
Duplicate(u) == Key(u) # NoKey /\ \E id \in DOMAIN stored : stored[id].key = Key(u)

\* The source takes the next identifier, and its file is inserted.
Inserted(u) ==
  /\ lastId' = lastId + 1
  /\ req' = [req EXCEPT ![u].at = "audit", ![u].id = lastId + 1, ![u].row = TRUE]
  /\ UNCHANGED <<access, stored, slots, changes, stops>>

\* MUTANT: the file has no unique key.
InsertAnyFile(u) ==
  /\ At(u, "insert")
  /\ IF ~MaySee(Call(u).by, Call(u).print) THEN Refuse(u, "error") ELSE Inserted(u)

\* MUTANT: a row of the key that is not committed yet counts as a duplicate.
InsertWithoutWaiting(u) ==
  /\ At(u, "insert")
  /\ IF ~MaySee(Call(u).by, Call(u).print) THEN Refuse(u, "error")
     ELSE IF Duplicate(u) \/ \E w \in SameKey(u) : req[w].row THEN Goto(u, "resolve")
     ELSE Inserted(u)

\* MUTANT: an upload waits for every other that is being stored under its key.
InsertAfterAllOthers(u) ==
  /\ At(u, "insert")
  /\ \A w \in SameKey(u) : req[w].at \notin {"insert", "audit", "commit"}
  /\ IF ~MaySee(Call(u).by, Call(u).print) THEN Refuse(u, "error")
     ELSE IF Duplicate(u) THEN Goto(u, "resolve") ELSE Inserted(u)

\* The row-level policy comes first; then the unique key of the matter, which waits
\* for a row in flight and finds a committed one: the race is lost and rolled back.
InsertFile(u) ==
  /\ At(u, "insert")
  /\ IF ~MaySee(Call(u).by, Call(u).print) THEN Refuse(u, "error")
     ELSE /\ \A w \in SameKey(u) : ~req[w].row
          /\ IF Duplicate(u) THEN Goto(u, "resolve") ELSE Inserted(u)

\* The pages and the activation are its own; the audit event needs the matter's lock.
AppendAudit(u) ==
  /\ At(u, "audit")
  /\ \A w \in Uploads : ~req[w].audit
  /\ req' = [req EXCEPT ![u].at = "commit", ![u].audit = TRUE]
  /\ UNCHANGED <<access, stored, lastId, slots, changes, stops>>

Commit(u) ==
  /\ At(u, "commit")
  /\ stored' = [id \in DOMAIN stored \cup {req[u].id} |->
       IF id = req[u].id THEN [upload |-> u, key |-> Key(u), print |-> Call(u).print]
       ELSE stored[id]]
  /\ req' = [req EXCEPT ![u].at = "respond", ![u].row = FALSE, ![u].audit = FALSE]
  /\ ingesting' = ingesting - 1
  /\ UNCHANGED <<access, lastId, uploading, changes, stops>>

Respond(u) ==
  /\ At(u, "respond")
  /\ End(u, "created", req[u].id)

\* The loser of a race, in a third transaction (resolve_idempotent_race).
AuthorizeLoser(u) ==
  /\ At(u, "resolve")
  /\ IF ~IsMember(Call(u).by) THEN Refuse(u, "forbidden") ELSE Goto(u, "look again")

ResolveRace(u) ==
  /\ At(u, "look again")
  /\ Replay(u, Refuse(u, "not reconciled"))

-----------------------------------------------------------------------------
(***************************************************************************)
(* What else happens.                                                      *)
(***************************************************************************)

InDatabase == {"authorize", "look up", "authorize again", "insert", "audit", "commit",
               "resolve", "look again"}

\* A statement fails.
FailStatement(u) ==
  /\ req[u].at \in InDatabase
  /\ Refuse(u, "error")

\* A session is revoked, a membership withdrawn or given again, a role changed.
ChangeAccess(v, now) ==
  /\ changes < MaxChanges
  /\ access[v] # now
  /\ access' = [access EXCEPT ![v] = now]
  /\ changes' = changes + 1
  /\ req' = [u \in Uploads |->
       [req[u] EXCEPT !.lost = IF Call(u).by = v /\ req[u].at \in {"extract", "authorize again"}
                               THEN ~(now.signedIn /\ now.role # "none") ELSE @]]
  /\ UNCHANGED <<stored, lastId, slots, stops>>

\* The server stops and is started again: its requests end, PostgreSQL rolls back
\* what they had not committed, and the counts begin at zero.
StopServer ==
  /\ stops < MaxStops
  /\ stops' = stops + 1
  /\ req' = [u \in Uploads |->
       IF req[u].at \in {"idle", "done"} THEN req[u]
       ELSE [Idle EXCEPT !.at = "done", !.call = Call(u), !.reply = "lost"]]
  /\ uploading' = 0 /\ ingesting' = 0
  /\ UNCHANGED <<access, stored, lastId, changes>>

-----------------------------------------------------------------------------
Init ==
  /\ access = FirstAccess
  /\ stored = None /\ lastId = 0
  /\ uploading = 0 /\ ingesting = 0
  /\ req = [u \in Uploads |-> Idle]
  /\ changes = 0 /\ stops = 0

Step(u) ==
  \/ TakeBodyPlace(u)
  \/ ReceiveBody(u)
  \/ Authorize(u)
  \/ LookUp(u)
  \/ TakeIngestionPlace(u)
  \/ Extract(u)
  \/ AuthorizeAgain(u)
  \/ InsertFile(u)
  \/ AppendAudit(u)
  \/ Commit(u)
  \/ Respond(u)
  \/ AuthorizeLoser(u)
  \/ ResolveRace(u)

Next ==
  \/ \E u \in Uploads : Step(u) \/ FailStatement(u) \/ \E call \in Calls : Arrive(u, call)
  \/ \E change \in AccessChanges : ChangeAccess(change[1], change[2])
  \/ StopServer

Spec == Init /\ [][Next]_vars

\* Every wait of a request is bounded: for the body by its deadline, for the
\* extraction by its timeouts (IsolatedExtraction), for a row or a lock by the end
\* of the transaction that has it.  That some request goes on is all that is assumed.
FairSpec == Spec /\ WF_vars(\E u \in Uploads : Step(u))

-----------------------------------------------------------------------------
(***************************************************************************)
(* Properties.                                                             *)
(***************************************************************************)

Replies == {"none", "forbidden", "uploads in progress", "bad body", "conflict", "too many documents",
            "error", "not reconciled", "lost", "created", "replayed"}

TypeOK ==
  /\ access \in [Reviewers -> Access]
  /\ DOMAIN stored \subseteq 1 .. lastId
  /\ uploading \in 0 .. Slots /\ ingesting \in 0 .. Slots
  /\ \A u \in Uploads : req[u].reply \in Replies /\ req[u].id \in 0 .. lastId

\* What requests, retries, failures and restarts do together is what KeyedUploads
\* does step by step: a key has one source, and an answer names it.
Answered == {u \in Uploads : req[u].reply \in {"created", "replayed"}}

Promised == INSTANCE KeyedUploads WITH
  asked  <- [u \in {w \in Uploads : ~At(w, "idle")} |->
               [key |-> Key(u), print |-> Call(u).print]],
  answer <- [u \in Answered |-> req[u].told]

ImplementsKeyedUploads == [][Promised!Next]_(Promised!vars)

\* Each admission counts the requests that hold a place of it, whichever way those
\* before them ended: no place is lost and none is given back twice (_slot).  And who
\* has been admitted with a body finds a place for its extraction: both admissions
\* have one limit, and the first is held around the second.
PlacesAreHeld ==
  /\ uploading = Cardinality({u \in Uploads : req[u].at \in InBody})
  /\ ingesting = Cardinality({u \in Uploads : req[u].at \in InExtraction})
  /\ \A u \in Uploads : req[u].reply # "too many documents"

\* Access withdrawn while the document was extracted, and not given back, stops the
\* write (create_case_source).
NothingStoredOnAStaleDecision ==
  \A u \in Uploads : req[u].at \in {"commit", "respond"} => ~req[u].lost

\* The loser of a race on a key finds the winner's source, unless that is there and
\* hidden from him now; a winner that was rolled back leaves no loser
\* (resolve_idempotent_race, uq_source_file_idempotency).
LoserIsReconciled ==
  [][\A u \in Uploads : req'[u].reply = "not reconciled" /\ req[u].reply # "not reconciled" =>
       \E id \in DOMAIN stored :
         stored[id].key = Key(u) /\ ~MaySee(Call(u).by, stored[id].print)]_vars

\* Every upload ends: again and again there is none under way.
EveryUploadEnds == []<>(\A u \in Uploads : At(u, "idle") \/ At(u, "done"))
=============================================================================
