--------------------------- MODULE KeyedUploads ---------------------------
(***************************************************************************)
(* What uploading promises.  An upload may carry a key, which its client   *)
(* repeats when it asks again: however often a key is asked for, at most   *)
(* one source is stored under it, and whoever is answered gets that one.   *)
(***************************************************************************)
EXTENDS Naturals

CONSTANTS
  Uploads,   \* the requests there are
  Keys,      \* the keys clients use
  NoKey,     \* what stands for none
  Prints,    \* the documents, as their fingerprints tell them apart
  Ids        \* the identifiers of sources

VARIABLES
  asked,   \* for each upload made: its key and its document
  stored,  \* the sources: for whom, under which key, which document
  answer   \* the source each answered upload was told

vars == <<asked, stored, answer>>

\* The source is the one this upload asks for.
Matches(u, id) ==
  /\ stored[id].print = asked[u].print
  /\ \/ stored[id].upload = u
     \/ asked[u].key # NoKey /\ stored[id].key = asked[u].key

Ask(u) ==
  /\ u \notin DOMAIN asked
  /\ \E key \in Keys \cup {NoKey}, print \in Prints :
       asked' = [x \in DOMAIN asked \cup {u} |->
                   IF x = u THEN [key |-> key, print |-> print] ELSE asked[x]]
  /\ UNCHANGED <<stored, answer>>

\* A source is stored for an upload: the first of its key.
Store(u, id) ==
  /\ u \in DOMAIN asked
  /\ id \notin DOMAIN stored
  /\ \A x \in DOMAIN stored :
       stored[x].upload # u /\ (asked[u].key # NoKey => stored[x].key # asked[u].key)
  /\ stored' = [x \in DOMAIN stored \cup {id} |->
       IF x = id THEN [upload |-> u, key |-> asked[u].key, print |-> asked[u].print]
       ELSE stored[x]]
  /\ UNCHANGED <<asked, answer>>

\* An upload is answered with the source that is its own.
Reply(u, id) ==
  /\ u \in DOMAIN asked \ DOMAIN answer
  /\ id \in DOMAIN stored
  /\ Matches(u, id)
  /\ answer' = [x \in DOMAIN answer \cup {u} |-> IF x = u THEN id ELSE answer[x]]
  /\ UNCHANGED <<asked, stored>>

Empty == [x \in {} |-> 0]

Init ==
  /\ asked = Empty
  /\ stored = Empty
  /\ answer = Empty

Next == \E u \in Uploads : Ask(u) \/ \E id \in Ids : Store(u, id) \/ Reply(u, id)

Spec == Init /\ [][Next]_vars

-----------------------------------------------------------------------------
TypeOK ==
  /\ DOMAIN asked \subseteq Uploads
  /\ \A u \in DOMAIN asked : asked[u] \in [key : Keys \cup {NoKey}, print : Prints]
  /\ DOMAIN stored \subseteq Ids
  /\ \A id \in DOMAIN stored :
       stored[id] \in [upload : DOMAIN asked, key : Keys \cup {NoKey}, print : Prints]
  /\ DOMAIN answer \subseteq DOMAIN asked
  /\ \A u \in DOMAIN answer : answer[u] \in DOMAIN stored

\* Uploads that were made under the same key and answered were told one source,
\* and they asked for the same document.
OneSourcePerKey ==
  \A u, w \in DOMAIN answer :
    asked[u].key = asked[w].key /\ asked[u].key # NoKey =>
      answer[u] = answer[w] /\ asked[u].print = asked[w].print
=============================================================================
