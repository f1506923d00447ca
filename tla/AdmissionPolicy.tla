--------------------------- MODULE AdmissionPolicy ---------------------------
(***************************************************************************)
(* What machine admission lets into its draft: candidates and decide of     *)
(* policy.py, generate and preview of pipeline.py, in a run that reads the  *)
(* legacy records while people put holds on them and take them off.         *)
(*                                                                          *)
(* A document is its source's scope and the mentions in it, in order; a     *)
(* mention is plain when its line has no word decide wants interpreted.     *)
(* The store the run commits to is AdmissionStore, and the records of a     *)
(* replay are those generated here.  Checks that cannot fail on candidates  *)
(* just cut from the document (spans, hashes, dates) are left out, and so   *)
(* are the queue for people and predicates without a pattern.               *)
(***************************************************************************)
EXTENDS Integers, FiniteSets, Sequences

CONSTANTS
  Manifests, \* what acquisition.json may hold: a set of sets of fetched sources
  Legacy,    \* legacy records
  About,     \* their aliases, predicate and subject
  MaxRuns, MaxEvents \* bounds: runs; holds put or taken off and documents damaged

VARIABLES
  sources, \* acquisition.json
  plan,    \* legacy records held by projected_record_plan.json (hashed by invariant)
  status,  \* legacy records held by claim_versions.jsonl (not hashed)
  damaged, \* sources whose raw document changed on disk
  initial, \* invariants-before.json, {"none"} before the first run
  stage, pinned, read, records, \* of the run
  shown,   \* preview.json
  basis,   \* history: the holds the draft shown was made under
  lifted,  \* history: the holds taken off the plan since the run began
  vouched, \* history: the holds the run that made the draft passed under, or {"none"}
  runs, events

policy == <<sources, plan, status, damaged, initial, stage, pinned, read, records,
            shown, basis, lifted, vouched, runs, events>>

PolicyInit ==
  /\ sources = {} /\ plan = {} /\ status = {} /\ damaged = {} /\ initial = {"none"}
  /\ stage = "off" /\ pinned = {} /\ read = {} /\ records = {}
  /\ shown = {} /\ basis = {} /\ lifted = {} /\ vouched = {"none"}
  /\ runs = 0 /\ events = 0

-----------------------------------------------------------------------------
(* One candidate for each value a document mentions: the first mention counts. *)
Candidates(s) ==
  {[scope |-> s.scope, predicate |-> s.mentions[i].predicate, value |-> s.mentions[i].value,
    plain |-> s.mentions[i].plain, source |-> s.id] :
   i \in {j \in DOMAIN s.mentions :
           \A k \in 1..(j - 1) : \/ s.mentions[k].predicate # s.mentions[j].predicate
                                 \/ s.mentions[k].value # s.mentions[j].value}}

(* The entity is named by scope, predicate and value; it may be an alias of a legacy
   record, or say something of what the record is about. *)
Touches(c, old) ==
  \/ <<c.scope, c.predicate, c.value>> \in About[old].aliases
  \/ c.predicate = About[old].predicate /\ About[old].subject \in {c.scope, "chain hoist"}

Decide(c, s, held) ==
  IF \E old \in held : Touches(c, old) THEN "HUMAN_HOLD"
  ELSE IF s.kind = "oem" /\ c.plain THEN "MACHINE_ACCEPTED"
  ELSE "NEEDS_EVIDENCE"

(* Mutant: only what would be admitted competes. *)
CompetingAdmitted(c, all) ==
  /\ c.predicate = "housing_material" /\ c.plain
  /\ \E d \in all : d.scope = c.scope /\ d.predicate = c.predicate /\ d.value # c.value /\ d.plain

(* The housing has one material: two values within a scope hold each other up. *)
Competing(c, all) ==
  /\ c.predicate = "housing_material"
  /\ \E d \in all : d.scope = c.scope /\ d.predicate = c.predicate /\ d.value # c.value

Read(all) == {s \in all : s.kind # "pdf"}

Generated(all, held) ==
  LET cs == UNION {Candidates(s) : s \in Read(all)}
  IN {[claim |-> c,
       state |-> IF Competing(c, cs) THEN "REVIEW_EXCEPTION"
                 ELSE Decide(c, CHOOSE s \in all : s.id = c.source, held)] : c \in cs}

(* One item for an entity, from the first source that has it admitted. *)
Draft(all) ==
  LET admitted == {r.claim : r \in {x \in all : x.state = "MACHINE_ACCEPTED"}}
      Same(c, d) == c.scope = d.scope /\ c.predicate = d.predicate /\ c.value = d.value
  IN {c \in admitted : \A d \in admitted : Same(c, d) => c.source <= d.source}

-----------------------------------------------------------------------------
Tampered == \E s \in Read(sources) : s.id \in damaged

World == UNCHANGED <<sources, plan, status, damaged, lifted, events>>
Draftless == UNCHANGED <<shown, basis>>

(* The run raises; what it wrote stays. *)
Raises == stage' = "off" /\ UNCHANGED <<initial, pinned, read, records, vouched, runs>> /\ World /\ Draftless

(* The sources are fetched, or there from an earlier run; some legacy records may be on
   hold at the first. *)
Start ==
  /\ stage = "off" /\ runs < MaxRuns
  /\ IF runs = 0 THEN sources' \in Manifests /\ plan' \in SUBSET Legacy ELSE UNCHANGED <<sources, plan>>
  /\ runs' = runs + 1 /\ lifted' = {}
  /\ stage' = "before"
  /\ UNCHANGED <<status, damaged, initial, pinned, read, records, shown, basis, vouched, events>>

(* What invariant hashes of the legacy files: the plan is among them, the versions not. *)
Hashed == plan

(* The hashes are compared with the first run's. *)
Before ==
  /\ stage = "before"
  /\ IF initial \in {{"none"}, Hashed}
     THEN /\ initial' = Hashed /\ pinned' = Hashed /\ stage' = "legacy"
          /\ UNCHANGED <<read, records, vouched, runs>> /\ World /\ Draftless
     ELSE Raises

ReadLegacy ==
  /\ stage = "legacy"
  /\ read' = plan \cup status
  /\ stage' = "generate"
  /\ UNCHANGED <<initial, pinned, records, vouched, runs>> /\ World /\ Draftless

Generate ==
  /\ stage = "generate"
  /\ IF Tampered THEN Raises
     ELSE /\ records' = Generated(sources, read)
          /\ stage' = "recompute"
          /\ UNCHANGED <<initial, pinned, read, vouched, runs>> /\ World /\ Draftless

(* All is generated again, and the draft written if it comes out the same. *)
Preview ==
  /\ stage = "recompute"
  /\ IF Tampered \/ Generated(sources, read) # records THEN Raises
     ELSE /\ shown' = Draft(records) /\ basis' = read /\ vouched' = {"none"}
          /\ stage' = "after"
          /\ UNCHANGED <<initial, pinned, read, records, runs>> /\ World

(* The legacy files must be what they were before. *)
After ==
  /\ stage = "after"
  /\ IF pinned = Hashed
     THEN /\ vouched' = Hashed \ lifted /\ stage' = "off"
          /\ UNCHANGED <<initial, pinned, read, records, runs>> /\ World /\ Draftless
     ELSE Raises

-----------------------------------------------------------------------------
(* People put a legacy record on hold, in one file or the other, or take the hold off; a
   document is damaged. *)
Happens ==
  /\ events < MaxEvents /\ events' = events + 1
  /\ \/ \E old \in Legacy \ plan : plan' = plan \cup {old} /\ UNCHANGED <<status, damaged, lifted>>
     \/ \E old \in plan :
          plan' = plan \ {old} /\ lifted' = lifted \cup {old} /\ UNCHANGED <<status, damaged>>
     \/ \E old \in Legacy :
          /\ status' = IF old \in status THEN status \ {old} ELSE status \cup {old}
          /\ UNCHANGED <<plan, damaged, lifted>>
     \/ \E s \in sources :
          s.id \notin damaged /\ damaged' = damaged \cup {s.id} /\ UNCHANGED <<plan, status, lifted>>
  /\ UNCHANGED <<sources, initial, stage, pinned, read, records, shown, basis, vouched, runs>>

PolicyNext == Start \/ Before \/ ReadLegacy \/ Generate \/ Preview \/ After \/ Happens

PolicySpec == PolicyInit /\ [][PolicyNext]_policy

-----------------------------------------------------------------------------
(* What the draft says stands in a document of the maker, in a line that needs no
   interpretation, and once only. *)
Supported ==
  \A c \in shown :
    /\ \E s \in sources :
         /\ s.id = c.source /\ s.kind = "oem" /\ s.scope = c.scope
         /\ \E m \in 1..Len(s.mentions) :
              s.mentions[m] = [predicate |-> c.predicate, value |-> c.value, plain |-> TRUE]
    /\ \A d \in shown : <<c.scope, c.predicate, c.value>> = <<d.scope, d.predicate, d.value>> => c = d

(* No document that was read, the maker's or not, names another housing of the same
   model: a conflict is for people, not for a vote. *)
Uncontested ==
  \A c \in shown : c.predicate = "housing_material" =>
    \A s \in Read(sources) : s.scope = c.scope =>
      \A m \in 1..Len(s.mentions) :
        s.mentions[m].predicate = c.predicate => s.mentions[m].value = c.value

(* Nothing in it touches a legacy record held when the run read the records, nor, once
   the run has passed, one held in the plan at its end: unless that hold was off for a
   while as it ran, which the two hashes (pipeline.py:210 and :241) do not tell. *)
HoldsKept ==
  \A c \in shown :
    /\ \A old \in basis : ~ Touches(c, old)
    /\ vouched # {"none"} => \A old \in vouched : ~ Touches(c, old)

PolicySound == Supported /\ Uncontested /\ HoldsKept
=============================================================================
