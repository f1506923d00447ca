-------------------------- MODULE KnowledgeQueries --------------------------
(***************************************************************************)
(* The knowledge queries of the gateway (vendor4, app/main.py) and the     *)
(* invalidation of their cache.                                            *)
(*                                                                         *)
(* Granularity.  The endpoints are plain functions that the web framework  *)
(* runs on threads, and they take no lock: one step per access to STORE,   *)
(* one per row of the scan.  STORE lives in memory; a restart empties it,  *)
(* the revoked sources and held claims included, and is Init again.        *)
(*                                                                         *)
(* Abstractions.  One project, and scopes that match but for the revision. *)
(* A claim is usable until its source is revoked or it is held, which the  *)
(* code treats alike.  Ranking, texts and hashes are left out.             *)
(***************************************************************************)
EXTENDS Integers, FiniteSets

CONSTANTS
  Threads, Claims,
  Keys,        \* idempotency keys
  MaxRevision, \* bound
  MaxClears,   \* bound on clears, when an invalidation begins
  Nothing

Revisions == 1..MaxRevision

VARIABLES
  revision, \* STORE.revision
  blocked,  \* STORE.revoked_sources and STORE.hold_claims, as claims
  cache,    \* STORE.cache: per revision of the key, an entry
  idem,     \* STORE.idempotency: per key, the claims it was answered with
  stage,
  query,    \* per thread, the locals of its query or invalidation
  clears,   \* invalidations that have cleared the cache
  clearedAt \* per claim, which of them was the first to clear after it was blocked

shared == <<revision, blocked, cache, idem>>
ghosts == <<clears, clearedAt>>
vars == <<shared, stage, query, ghosts>>

(* began: clears when the query computed its key; during: the revisions that  *)
(* were in force from then until it had read the last row.                    *)
Entries ==
  [rev : Revisions, claims : SUBSET Claims, began : Nat, during : SUBSET Revisions, stored : Nat]

Init ==
  /\ revision = 1
  /\ blocked = {}
  /\ cache = [r \in Revisions |-> Nothing]
  /\ idem = [k \in Keys |-> Nothing]
  /\ stage = [t \in Threads |-> "idle"]
  /\ query = [t \in Threads |-> Nothing]
  /\ clears = 0
  /\ clearedAt = [c \in Claims |-> 0]

Goto(t, l) == stage' = [stage EXCEPT ![t] = l]
Return(t) == Goto(t, "idle") /\ query' = [query EXCEPT ![t] = Nothing]

----------------------------------------------------------------------------
(* idem_get answers (or refuses) a key that has an answer; two queries of   *)
(* one key may both get past it.  cache_key reads the revision when        *)
(* the query names none (0).                                               *)
Ask(t, k, asked) ==
  /\ stage[t] = "idle"
  /\ k # Nothing => idem[k] = Nothing
  /\ query' = [query EXCEPT ![t] =
       [key |-> k, asked |-> asked, ck |-> IF asked = 0 THEN revision ELSE asked,
        began |-> clears, during |-> {revision}, todo |-> Claims, claims |-> {}]]
  /\ Goto(t, "lookup")
  /\ UNCHANGED <<shared, ghosts>>

(* STORE.cache.get, and the entry's revision against STORE.revision. *)
Lookup(t) ==
  LET e == cache[query[t].ck] IN
  /\ stage[t] = "lookup"
  /\ IF e # Nothing /\ e.rev = revision
     THEN /\ query' = [query EXCEPT ![t].claims = e.claims]
          /\ Goto(t, "put")
     ELSE /\ Goto(t, "scan")
          /\ UNCHANGED query
  /\ UNCHANGED <<shared, ghosts>>

(* A mutant: the revision a query names is not compared. *)
ScopeAny(t) == TRUE
ScopeMatch(t) == query[t].asked \in {0, revision}

(* A mutant: a row's status is not looked at. *)
UsableAny(c) == TRUE
Usable(c) == c \notin blocked

Scan(t) ==
  /\ stage[t] = "scan"
  /\ \E c \in query[t].todo :
       query' = [query EXCEPT ![t].todo = @ \ {c},
                              ![t].claims = IF ScopeMatch(t) /\ Usable(c) THEN @ \cup {c} ELSE @]
  /\ Goto(t, IF Cardinality(query[t].todo) = 1 THEN "store" ELSE "scan")
  /\ UNCHANGED <<shared, ghosts>>

(* The entry bears the revision STORE has by now. *)
Store(t) ==
  LET q == query[t] IN
  /\ stage[t] = "store"
  /\ cache' = [cache EXCEPT ![q.ck] = [rev |-> revision, claims |-> q.claims, began |-> q.began,
                                       during |-> q.during, stored |-> clears]]
  /\ Goto(t, "reread")
  /\ UNCHANGED <<revision, blocked, idem, query, ghosts>>

(* The answer is read back out of the cache: a KeyError, and no answer,    *)
(* when an invalidation came between.                                      *)
Reread(t) ==
  LET e == cache[query[t].ck] IN
  /\ stage[t] = "reread"
  /\ IF e = Nothing
     THEN Return(t)
     ELSE /\ query' = [query EXCEPT ![t].claims = e.claims]
          /\ Goto(t, "put")
  /\ UNCHANGED <<shared, ghosts>>

Put(t) ==
  /\ stage[t] = "put"
  /\ idem' = IF query[t].key = Nothing THEN idem
             ELSE [idem EXCEPT ![query[t].key] = query[t].claims]
  /\ Return(t)
  /\ UNCHANGED <<revision, blocked, cache, ghosts>>

----------------------------------------------------------------------------
(* invalidate: first the revision, whichever the request names, then the   *)
(* claim, then the cache.  Queries that are reading learn of the revision. *)
Reading == {u \in Threads : stage[u] \in {"lookup", "scan"}}

InvalidateBegin(t) ==
  /\ stage[t] = "idle"
  /\ clears < MaxClears
  /\ \E r \in Revisions :
       /\ revision' = r
       /\ query' = [u \in Threads |-> IF u \in Reading THEN [query[u] EXCEPT !.during = @ \cup {r}]
                                      ELSE query[u]]
  /\ Goto(t, "block")
  /\ UNCHANGED <<blocked, cache, idem, ghosts>>

Block(t) ==
  /\ stage[t] = "block"
  /\ \E B \in {{}} \cup {{c} : c \in Claims} : blocked' = blocked \cup B
  /\ Goto(t, "clear")
  /\ UNCHANGED <<revision, cache, idem, query, ghosts>>

(* A mutant: only the entry of the current revision is dropped. *)
DropCurrent == [cache EXCEPT ![revision] = Nothing]
Dropped == [r \in Revisions |-> Nothing]

Clear(t) ==
  /\ stage[t] = "clear"
  /\ cache' = Dropped
  /\ clears' = clears + 1
  /\ clearedAt' = [c \in Claims |-> IF clearedAt[c] = 0 /\ c \in blocked THEN clears' ELSE clearedAt[c]]
  /\ Goto(t, "idle")
  /\ UNCHANGED <<revision, blocked, idem, query>>

(* A request with none of the three reasons and no project leaves it alone. *)
Leave(t) ==
  /\ stage[t] = "clear"
  /\ Goto(t, "idle")
  /\ UNCHANGED <<shared, query, ghosts>>

Query(t) == Lookup(t) \/ Scan(t) \/ Store(t) \/ Reread(t) \/ Put(t)

Next ==
  \E t \in Threads :
    \/ \E k \in Keys \cup {Nothing}, asked \in 0..MaxRevision : Ask(t, k, asked)
    \/ Query(t)
    \/ InvalidateBegin(t) \/ Block(t) \/ Clear(t) \/ Leave(t)

Spec == Init /\ [][Next]_vars

----------------------------------------------------------------------------
Locals == [key : Keys \cup {Nothing}, asked : 0..MaxRevision, ck : Revisions, began : Nat,
           during : SUBSET Revisions, todo : SUBSET Claims, claims : SUBSET Claims]

(* Types; exactly the threads inside a query hold its locals. *)
TypeOK ==
  /\ revision \in Revisions
  /\ blocked \subseteq Claims
  /\ cache \in [Revisions -> Entries \cup {Nothing}]
  /\ idem \in [Keys -> (SUBSET Claims) \cup {Nothing}]
  /\ stage \in [Threads -> {"idle", "lookup", "scan", "store", "reread", "put", "block", "clear"}]
  /\ query \in [Threads -> Locals \cup {Nothing}]
  /\ \A t \in Threads : query[t] = Nothing <=> stage[t] \in {"idle", "block", "clear"}
  /\ clears \in Nat
  /\ clearedAt \in [Claims -> Nat]

(* ACCEPTANCE_MATRIX.md:27, K23: once a revocation has cleared the cache,   *)
(* an entry holds the claim only if a query that had begun before then put  *)
(* it back: neither an older entry nor a later query serves it.             *)
StaleOnlyInFlight ==
  \A r \in Revisions :
    cache[r] # Nothing =>
      \A c \in cache[r].claims : clearedAt[c] > 0
        => cache[r].began < clearedAt[c] /\ clearedAt[c] <= cache[r].stored

(* ACCEPTANCE_MATRIX.md:26, K22: claims are cached under a revision only by *)
(* a query in whose time it was the one in force, whichever revision others *)
(* set and go back to meanwhile.                                            *)
RevisionScoped ==
  \A r \in Revisions :
    cache[r] # Nothing /\ cache[r].claims # {} => r \in cache[r].during

(* ACCEPTANCE_MATRIX.md:27, K23, "Lần đọc sau bị chặn", a later read is     *)
(* blocked: what a query would be answered from now holds no claim that was *)
(* blocked when the cache was cleared.  Violated: a query that had read the *)
(* claim before stores it afterwards (main.py:233).                         *)
RevokedStayOut ==
  \A r \in Revisions :
    cache[r] # Nothing /\ cache[r].rev = revision =>
      \A c \in cache[r].claims : clearedAt[c] = 0

(* What the cache may hold, across revocations and across revisions.       *)
CacheSound == StaleOnlyInFlight /\ RevisionScoped
=============================================================================
