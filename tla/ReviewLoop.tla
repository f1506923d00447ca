------------------------------ MODULE ReviewLoop ------------------------------
(***************************************************************************)
(* The review of extracted claims (src/notebooks/20_claims_score_notion.py *)
(* over kf_pilot's claims.py and notion_sync.py): runs of the notebook,    *)
(* the cache of model answers, the cards in Notion and the people who      *)
(* decide on them.                                                         *)
(*                                                                         *)
(* Granularity.  One step per evidence chunk, per request to Notion and    *)
(* per human edit.  The notebook is started by hand: one run at a time.    *)
(*                                                                         *)
(* External.  Notion: a query sees every card; a request that answers 5xx, *)
(* 529 or nothing may have been carried out, one that answers 429 was not. *)
(*                                                                         *)
(* Abstractions.  Products and knowledge are two lists, each cut at        *)
(* max_rows and synced to a table of its own; here they are one, for their *)
(* cards are written alike but for fields that nothing reads back, like    *)
(* the Status.  The id of a candidate is a hash of it: a candidate of a    *)
(* template or of the canonical knowledge comes out with the same id every *)
(* time; one of the model has the hashes of the request and the response   *)
(* in it, and those are put on the parsed answer only after it went to the *)
(* cache, so the same answer has another id when it is read back.  Nobody  *)
(* uses manual_decisions.csv.                                              *)
(***************************************************************************)
EXTENDS Integers, Sequences, FiniteSets

CONSTANTS
  Stable,    \* candidates of templates and of the knowledge pipeline
  Chunks,    \* evidence chunks the model is asked about
  RunIds,    \* extraction runs the notebook is given
  MaxRows,   \* max_rows of the configuration: a run syncs no more
  MaxFaults  \* bound on requests with no good answer, and deaths

Ids == (Stable \X {"same"}) \cup (Chunks \X {"live", "cached"})
States == {"REVIEW_REQUIRED", "HOLD"}

VARIABLES
  cache,    \* chunks llm_cache.jsonl has a SUCCESS for
  torn,     \* a line of it was not written to its end
  cards,    \* Notion: the cards, and in `word` what a person last said on each
  at,       \* what the notebook does next: idle, extract, find, write, pull
  run,      \* its run id
  todo,     \* its locals: what is left to extract, then to sync
  rows,     \* the candidates it validated
  sent,     \* those of them it syncs
  row,      \* the one it is syncing
  found,    \* the card it found for it, 0 for none
  exported, \* approved_product_attributes and approved_knowledge_items
  resent,   \* ids whose creation answered 529 and was sent again
  faults

locals == <<run, todo, rows, sent, row, found>>
vars == <<cache, torn, cards, at, locals, exported, resent, faults>>

NoRun == "none"
NoRow == [id |-> <<>>, state |-> "none"]

Init ==
  /\ cache = {} /\ torn = FALSE
  /\ cards = <<>>
  /\ at = "idle"
  /\ run = NoRun /\ todo = {} /\ rows = {} /\ sent = {} /\ row = NoRow /\ found = 0
  /\ exported = {} /\ resent = {}
  /\ faults = 0

(* The notebook ends, well or not; only files and cards outlive it. *)
End ==
  /\ at' = "idle"
  /\ run' = NoRun /\ todo' = {} /\ rows' = {} /\ sent' = {} /\ row' = NoRow /\ found' = 0

Begin(r) ==
  /\ at = "idle"
  /\ at' = "extract"
  /\ run' = r
  /\ todo' = Stable \cup Chunks
  /\ UNCHANGED <<cache, torn, cards, rows, sent, row, found, exported, resent, faults>>

----------------------------------------------------------------------------
(* Extraction.  The gates decide anew in every run: a candidate may be     *)
(* missing in one and held in the next.                                    *)

Row(id) ==
  \/ UNCHANGED rows
  \/ \E s \in States : rows' = rows \cup {[id |-> id, state |-> s]}

Template(i) ==
  /\ at = "extract" /\ i \in todo \cap Stable
  /\ Row(<<i, "same">>)
  /\ todo' = todo \ {i}
  /\ UNCHANGED <<cache, torn, cards, at, run, sent, row, found, exported, resent, faults>>

(* load_llm_cache reads the whole file for every chunk, and raises at a    *)
(* line it cannot parse; nothing but a person mends the file.              *)
CacheTorn ==
  /\ at = "extract" /\ todo \cap Chunks # {} /\ torn
  /\ End
  /\ UNCHANGED <<cache, torn, cards, exported, resent, faults>>

Cached(c) ==
  /\ at = "extract" /\ c \in todo \cap cache /\ ~ torn
  /\ Row(<<c, "cached">>)
  /\ todo' = todo \ {c}
  /\ UNCHANGED <<cache, torn, cards, at, run, sent, row, found, exported, resent, faults>>

(* The model is asked; an answer that parses is cached, any other leaves a *)
(* FAILED line and no candidate.                                           *)
Asked(c) ==
  /\ at = "extract" /\ c \in (todo \cap Chunks) \ cache /\ ~ torn
  /\ todo' = todo \ {c}
  /\ \/ cache' = cache \cup {c} /\ Row(<<c, "live">>)
     \/ UNCHANGED <<cache, rows>>
  /\ UNCHANGED <<torn, cards, at, run, sent, row, found, exported, resent, faults>>

(* head(max_rows) of the rows, whose order the model leaves open.  The     *)
(* others are neither written nor tagged with this run, and still join in  *)
(* the export.                                                             *)
Heads == {h \in SUBSET rows : Cardinality(h) <= MaxRows /\ (h = rows \/ Cardinality(h) = MaxRows)}

Extracted ==
  /\ at = "extract" /\ todo = {}
  /\ at' = "find"
  /\ \E h \in Heads : sent' = h /\ todo' = h
  /\ UNCHANGED <<cache, torn, cards, run, rows, row, found, exported, resent, faults>>

----------------------------------------------------------------------------
(* The upsert of one row after the other: a query by id, then one write.   *)

CardsOf(id) == {n \in DOMAIN cards : cards[n].id = id}

(* Two cards of one id are an error, and end the run. *)
Find(r) ==
  /\ at = "find" /\ r \in todo
  /\ IF Cardinality(CardsOf(r.id)) > 1
     THEN End
     ELSE /\ row' = r
          /\ found' = IF CardsOf(r.id) = {} THEN 0 ELSE CHOOSE n \in CardsOf(r.id) : TRUE
          /\ todo' = todo \ {r}
          /\ at' = "write"
          /\ UNCHANGED <<run, rows, sent>>
  /\ UNCHANGED <<cache, torn, cards, exported, resent, faults>>

Card(r) ==
  [id |-> r.id, run |-> run, word |-> "none",
   decision |-> IF r.state = "HOLD" THEN "HOLD" ELSE "PENDING"]

(* A mutant: what a run found replaces what a person decided. *)
MergedOver(n) == [Card(row) EXCEPT !.word = cards[n].word]

(* preserve_review *)
Merged(n) == [cards[n] EXCEPT !.run = run]

Upsert == IF found = 0 THEN Append(cards, Card(row)) ELSE [cards EXCEPT ![found] = Merged(found)]

Write ==
  /\ at = "write"
  /\ cards' = Upsert
  /\ at' = "find"
  /\ row' = NoRow /\ found' = 0
  /\ UNCHANGED <<cache, torn, run, todo, rows, sent, exported, resent, faults>>

Fault == faults < MaxFaults /\ faults' = faults + 1

(* A request that answers 429 or 529 is sent again, whatever it is, and a  *)
(* PATCH after 500 to 504 too.  One that was carried out after all is      *)
(* carried out twice: the second time changes nothing of a PATCH.          *)
Resend ==
  /\ at = "write"
  /\ Fault
  /\ \/ UNCHANGED <<cards, resent>>
     \/ /\ cards' \in {cards, Upsert}
        /\ resent' = IF found = 0 THEN resent \cup {row.id} ELSE resent
  /\ UNCHANGED <<cache, torn, at, locals, exported>>

(* A mutant: a creation that may have been carried out is sent again after *)
(* 500 to 504 or a timeout, like a PATCH.                                  *)
AmbiguousRetried ==
  /\ at = "write"
  /\ Fault
  /\ cards' \in {cards, Upsert}
  /\ UNCHANGED <<cache, torn, at, locals, exported, resent>>

(* Anything else ends the run, carried out or not: a creation that answers *)
(* 500 to 504, no answer at all, the fifth bad answer in a row.            *)
Ambiguous ==
  /\ at = "write"
  /\ Fault
  /\ cards' \in {cards, Upsert}
  /\ End
  /\ UNCHANGED <<cache, torn, exported, resent>>

Synced ==
  /\ at = "find" /\ todo = {}
  /\ at' = "pull"
  /\ UNCHANGED <<cache, torn, cards, locals, exported, resent, faults>>

----------------------------------------------------------------------------
Passed == {r.id : r \in {x \in rows : x.state = "REVIEW_REQUIRED"}}

(* A mutant: the gates of this run are not looked at again. *)
ApprovedStale == {cards[n].id : n \in {m \in DOMAIN cards : cards[m].run = run /\ cards[m].decision = "APPROVED"}}

(* The candidates that pass the gates, merged with the decisions on the    *)
(* cards of this run id.                                                   *)
Approved ==
  {cards[n].id : n \in {m \in DOMAIN cards : cards[m].run = run /\ cards[m].decision = "APPROVED"}}
    \cap Passed

(* With KF_PULL_NOTION_DECISIONS; else nothing is approved. *)
Pull ==
  /\ at = "pull"
  /\ exported' = Approved
  /\ End
  /\ UNCHANGED <<cache, torn, cards, resent, faults>>

NoPull ==
  /\ at = "pull"
  /\ exported' = {}
  /\ End
  /\ UNCHANGED <<cache, torn, cards, resent, faults>>

(* A run that dies; in the middle of a line of the cache, it stays torn. *)
Die ==
  /\ at # "idle"
  /\ Fault
  /\ torn' \in {torn, torn \/ (at = "extract" /\ todo \cap Chunks # {})}
  /\ End
  /\ UNCHANGED <<cache, cards, exported, resent>>

(* A person decides on a card, at any time. *)
Decide(n, d) ==
  /\ cards' = [cards EXCEPT ![n].decision = d, ![n].word = d]
  /\ UNCHANGED <<cache, torn, at, locals, exported, resent, faults>>

Next ==
  \/ \E r \in RunIds : Begin(r)
  \/ \E i \in Stable : Template(i)
  \/ \E c \in Chunks : Cached(c) \/ Asked(c)
  \/ at = "find" /\ \E r \in todo : Find(r)
  \/ \E n \in DOMAIN cards : \E d \in {"APPROVED", "REJECTED"} : Decide(n, d)
  \/ CacheTorn \/ Extracted \/ Write \/ Resend \/ Ambiguous \/ Synced \/ Pull \/ NoPull \/ Die

Spec == Init /\ [][Next]_vars

----------------------------------------------------------------------------
(* notion_sync.py:85-86: a run that ends on a creation with no answer, or   *)
(* dies, leaves no second card of one id behind it: the next looks first.   *)
(* The one way to two is the code's own: a creation that answered 529 and   *)
(* was carried out all the same is sent again.                              *)
CardsUnique ==
  \A n, m \in DOMAIN cards : cards[n].id = cards[m].id => n = m \/ cards[n].id \in resent

(* What people approved, by their word, of what passed. *)
Said == {id \in Passed : \E n \in CardsOf(id) : cards[n].word = "APPROVED"}

(* notebook 20:242-267: what is exported as approved passed the gates of    *)
(* this very run and was approved by a person, in whatever run its card was *)
(* made; and of the rows this run synced nothing approved is left out: no   *)
(* sync since then has put the word aside.  A row beyond max_rows may be    *)
(* left out, its card being of another run.                                 *)
ExportFaithful ==
  [][Pull => Said \cap {r.id : r \in sent} \subseteq exported' /\ exported' \subseteq Said]_vars

=============================================================================
