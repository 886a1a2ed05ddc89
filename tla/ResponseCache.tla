---------------------------- MODULE ResponseCache ----------------------------
(***************************************************************************)
(* The response cache of an agent handler, from the HTTP handler QueryAgent *)
(* (internal/handler/agent.go) through BigQueryHandler.Handle and back (the *)
(* PostgresHandler keeps one of its own in the same way).                  *)
(*                                                                         *)
(* The cache maps a key to a POINTER to the response of the request whose  *)
(* pipeline made it; the requests that hit it, and the maker itself, write *)
(* their labels into the response's one agent_metadata map after the       *)
(* cache's lock is released, and serialize it later still.  A response is  *)
(* named by its maker.  The pipeline between the cache's miss and its set  *)
(* is one step here (AgentPipeline has its inside).  Time is left out: an  *)
(* entry may expire at any moment.  Definitions named for a slip           *)
(* (KeyWithoutStyle, ...) are what the mutation runs swap in.              *)
(***************************************************************************)
EXTENDS FiniteSets

CONSTANTS
  Requests, Users, Prompts, Datasets, Styles, Personas, Servers,
  StyleOf,      \* prompt style of a user's persona ("" is one of Styles)
  PersonaOf,    \* persona name of a user
  ServerOf,     \* the database server behind a user's squad
  NoPersona,    \* of a user without one
  NoQuery,      \* of a request that has not come yet
  NoResponse,   \* nil
  Refused       \* no answer, see ResponseMemo

ASSUME ResponseCacheAssumption ==
  /\ StyleOf \in [Users -> Styles]
  /\ PersonaOf \in [Users -> Personas \cup {NoPersona}]
  /\ ServerOf \in [Users -> Servers]
  /\ NoResponse \notin Requests
  /\ Refused \notin Requests \cup {NoResponse}
  /\ NoQuery \notin [user : Users, prompt : Prompts, dataset : Datasets,
                     dry : BOOLEAN]

VARIABLES
  pc,       \* where each request is
  query,    \* its user, prompt, dataset and dry_run flag
  cache,    \* respCache.store
  held,     \* the *AgentResponse a request holds
  tag,      \* agent_metadata["response_cache"] of each response
  persona,  \* agent_metadata["persona"] of each response
  sent,     \* the two labels in the body a client received
  shared,   \* history: requests that held a response together with another
  retired   \* history: responses made before the last flush

vars == <<pc, query, cache, held, tag, persona, sent, shared, retired>>

Queries == [user : Users, prompt : Prompts, dataset : Datasets, dry : BOOLEAN]

KeyWithoutStyle(q) == <<q.prompt, q.dataset>>

\* responseCacheKey.  The three parts are joined with bars and hashed; a tuple
\* stands for that where dataset ids and styles have no bar in them: the styles
\* of system_prompts.go have none, nor have the ids BigQuery allows.
Key(q) == <<q.prompt, q.dataset, StyleOf[q.user]>>

Keys == {Key(q) : q \in Queries}

Labels == [tag : {"none", "miss", "hit"}, persona : Personas \cup {NoPersona}]

\* Where a request can write to or read from the response it holds.
Writing == {"hit", "answered"}
Touching == Writing \cup {"labelled"}

\* The requests whose pipeline produced a response.
Ran == {r \in Requests : held[r] = r}

\* A request holds a response exactly from the moment it found or made one, and
\* a response that is held or cached has been made.
HeldOK ==
  /\ \A r \in Requests :
       /\ pc[r] \in Touching \cup {"sent"} => held[r] # NoResponse
       /\ pc[r] \in {"idle", "arrived", "running", "failed"} =>
            held[r] = NoResponse
       /\ pc[r] # "idle" <=> query[r] # NoQuery
       /\ held[r] # NoResponse => held[r] \in Ran
  /\ \A k \in Keys : cache[k] # NoResponse => cache[k] \in Ran

\* Types, and what holds what.
TypeOK ==
  /\ pc \in [Requests -> {"idle", "arrived", "running", "sent", "failed",
                          "lost"} \cup Touching]
  /\ query \in [Requests -> Queries \cup {NoQuery}]
  /\ cache \in [Keys -> Requests \cup {NoResponse}]
  /\ held \in [Requests -> Requests \cup {NoResponse}]
  /\ tag \in [Requests -> {"none", "miss", "hit"}]
  /\ persona \in [Requests -> Personas \cup {NoPersona}]
  /\ sent \in [Requests -> Labels]
  /\ shared \in SUBSET Requests
  /\ retired \in SUBSET Requests
  /\ HeldOK

Init ==
  /\ pc = [r \in Requests |-> "idle"]
  /\ query = [r \in Requests |-> NoQuery]
  /\ cache = [k \in Keys |-> NoResponse]
  /\ held = [r \in Requests |-> NoResponse]
  /\ tag = [r \in Requests |-> "none"]
  /\ persona = [r \in Requests |-> NoPersona]
  /\ sent = [r \in Requests |-> [tag |-> "none", persona |-> NoPersona]]
  /\ shared = {}
  /\ retired = {}

\* A request moves on to a place.
Go(r, place) == pc' = [pc EXCEPT ![r] = place]

Arrive(r, q) ==
  /\ pc[r] = "idle"
  /\ query' = [query EXCEPT ![r] = q]
  /\ Go(r, "arrived")
  /\ UNCHANGED <<cache, held, tag, persona, sent, shared, retired>>

\* Bad body, persona, squad, PII or prompt: an error before the cache is asked.
Reject(r) ==
  /\ pc[r] = "arrived"
  /\ Go(r, "failed")
  /\ UNCHANGED <<query, cache, held, tag, persona, sent, shared, retired>>

(***************************************************************************)
(* The first look into the cache.                                          *)
(***************************************************************************)
HitUnchecked(q) == ~q.dry

\* The lookup of a query finds an entry; a dry run does not look.
Hit(q) == ~q.dry /\ cache[Key(q)] # NoResponse

\* The others that can still touch response o.
With(r, o) == {s \in Requests \ {r} : pc[s] \in Touching /\ held[s] = o}

LookupHit(r) ==
  /\ pc[r] = "arrived"
  /\ Hit(query[r])
  /\ LET o == cache[Key(query[r])]
     IN  /\ held' = [held EXCEPT ![r] = o]
         /\ shared' = IF With(r, o) = {} THEN shared
                      ELSE shared \cup With(r, o) \cup {r}
  /\ Go(r, "hit")
  /\ UNCHANGED <<query, cache, tag, persona, sent, retired>>

LookupMiss(r) ==
  /\ pc[r] = "arrived"
  /\ ~Hit(query[r])
  /\ tag' = [tag EXCEPT ![r] = IF query[r].dry THEN "none" ELSE "miss"]
  /\ Go(r, "running")
  /\ UNCHANGED <<query, cache, held, persona, sent, shared, retired>>

MarkForgotten(r) ==
  /\ pc[r] = "hit"
  /\ Go(r, "answered")
  /\ UNCHANGED <<query, cache, held, tag, persona, sent, shared, retired>>

\* cached.AgentMetadata["response_cache"] = "hit", without the lock.
MarkHit(r) ==
  /\ pc[r] = "hit"
  /\ tag' = [tag EXCEPT ![held[r]] = "hit"]
  /\ Go(r, "answered")
  /\ UNCHANGED <<query, cache, held, persona, sent, shared, retired>>

(***************************************************************************)
(* The pipeline ends.                                                      *)
(***************************************************************************)
StoredAlways(r) == [cache EXCEPT ![Key(query[r])] = r]

\* respCache.set, for what is not a dry run.
StoredFor(r) ==
  IF query[r].dry THEN cache ELSE [cache EXCEPT ![Key(query[r])] = r]

RunSucceeds(r) ==
  /\ pc[r] = "running"
  /\ held' = [held EXCEPT ![r] = r]
  /\ cache' = StoredFor(r)
  /\ Go(r, "answered")
  /\ UNCHANGED <<query, tag, persona, sent, shared, retired>>

\* The agent loop fails or the SQL is refused: an error, which is not stored.
RunFails(r) ==
  /\ pc[r] = "running"
  /\ Go(r, "failed")
  /\ UNCHANGED <<query, cache, held, tag, persona, sent, shared, retired>>

(***************************************************************************)
(* Back in QueryAgent.                                                     *)
(***************************************************************************)
\* The routing labels, and the user's persona where there is one.
Label(r) ==
  /\ pc[r] = "answered"
  /\ persona' = [persona EXCEPT ![held[r]] =
                   IF PersonaOf[query[r].user] = NoPersona THEN @
                   ELSE PersonaOf[query[r].user]]
  /\ Go(r, "labelled")
  /\ UNCHANGED <<query, cache, held, tag, sent, shared, retired>>

\* WriteJSON.
Encode(r) ==
  /\ pc[r] = "labelled"
  /\ sent' = [sent EXCEPT ![r] = [tag |-> tag[held[r]],
                                  persona |-> persona[held[r]]]]
  /\ Go(r, "sent")
  /\ UNCHANGED <<query, cache, held, tag, persona, shared, retired>>

(***************************************************************************)
(* Flushes, expiry, and the fatal error of a map used by two goroutines.   *)
(***************************************************************************)
Emptied == [k \in Keys |-> NoResponse]

FlushOfACopy ==
  /\ retired' = Ran
  /\ UNCHANGED <<pc, query, cache, held, tag, persona, sent, shared>>

Flush ==
  /\ cache' = Emptied
  /\ retired' = Ran
  /\ UNCHANGED <<pc, query, held, tag, persona, sent, shared>>

\* The TTL of an entry runs out.
Expire(k) ==
  /\ cache[k] # NoResponse
  /\ cache' = [cache EXCEPT ![k] = NoResponse]
  /\ UNCHANGED <<pc, query, held, tag, persona, sent, shared, retired>>

\* Two goroutines are in one metadata map and one of them writes: the runtime
\* may stop the process ("concurrent map writes", or "concurrent map iteration
\* and map write" under the JSON encoder).  recover() does not catch it.  All
\* requests at work are lost; the process starts again with an empty cache.
Fault(r, s) ==
  /\ r # s
  /\ pc[r] \in Writing /\ pc[s] \in Touching
  /\ held[r] = held[s]
  /\ pc' = [x \in Requests |->
              IF pc[x] \in {"arrived", "running"} \cup Touching THEN "lost"
              ELSE pc[x]]
  /\ cache' = Emptied
  /\ UNCHANGED <<query, held, tag, persona, sent, shared, retired>>

Next ==
  \/ \E r \in Requests, q \in Queries : Arrive(r, q)
  \/ \E r \in Requests :
       \/ Reject(r)
       \/ LookupHit(r)
       \/ LookupMiss(r)
       \/ MarkHit(r)
       \/ RunSucceeds(r)
       \/ RunFails(r)
       \/ Label(r)
       \/ Encode(r)
  \/ \E r, s \in Requests : Fault(r, s)
  \/ Flush
  \/ \E k \in Keys : Expire(k)

Spec == Init /\ [][Next]_vars

(***************************************************************************)
(* Properties.                                                             *)
(***************************************************************************)
\* What is in the cache under a key was made for a query of that key that was
\* no dry run ("dry_run=true and error responses are never cached"), by a
\* pipeline that had begun on a miss: whoever hits gets the answer to its own
\* question.
CachedForItsKey ==
  \A k \in Keys : cache[k] # NoResponse =>
    LET q == query[cache[k]]
    IN  q \in Queries /\ Key(q) = k /\ ~q.dry

\* A response that was complete when an admin flushed the cache is never handed
\* out by a lookup after the flush.  (One whose pipeline was still running then
\* is stored afterwards, and may be.)
FlushHonoured ==
  [][\A r \in Requests :
       pc[r] = "arrived" /\ pc'[r] = "hit" => held'[r] \notin retired]_vars

\* The label a request should see: whether its own lookup hit.
OwnTag(r) ==
  IF query[r].dry THEN "none" ELSE IF held[r] = r THEN "miss" ELSE "hit"

\* A client is told hit or miss as its own lookup went and, where its user has
\* a persona, that persona, if nobody else was writing to the same response
\* between its getting hold of it and its sending it.
OwnLabelsUnlessShared ==
  \A r \in Requests : pc[r] = "sent" /\ r \notin shared =>
    /\ sent[r].tag = OwnTag(r)
    /\ PersonaOf[query[r].user] # NoPersona =>
         sent[r].persona = PersonaOf[query[r].user]

\* What README and the cache's SPEC.md say, without that condition: a client is
\* told "hit" if and only if its own lookup hit.
OwnTagAlways ==
  \A r \in Requests : pc[r] = "sent" => sent[r].tag = OwnTag(r)

\* "The three fields that uniquely identify an agent query": requests that get
\* the same answer asked the same server.
AnswerFromOwnServer ==
  \A r \in Requests : pc[r] = "sent" =>
    ServerOf[query[held[r]].user] = ServerOf[query[r].user]

\* The cache is only an optimisation: what clients receive is what ResponseMemo
\* allows, for the key the README gives.
ReadmeKey(q) == <<q.prompt, q.dataset, StyleOf[q.user]>>

Live(q) == ~q.dry

Received == [r \in Requests |->
  IF pc[r] = "sent" THEN held[r]
  ELSE IF pc[r] \in {"failed", "lost"} THEN Refused
  ELSE NoResponse]

Memo == INSTANCE ResponseMemo
  WITH asked <- query, ran <- Ran, answer <- Received,
       NoAnswer <- NoResponse, Key <- ReadmeKey, Reusable <- Live

ImplementsMemo == Memo!Spec

=============================================================================
