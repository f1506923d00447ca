----------------------------- MODULE EvidenceRun -----------------------------
(* The local evidence pipeline of v165 and v166: commands that each read some
   directories and write a new one.  discover, the v165 run and propose write under
   the final name and put the list of hashes last; freeze and project-shadow write
   aside and rename.  Several processes may run the same command for the same output,
   may die at any point, and leave what they had written.  A file is known by the run
   that wrote it. *)
EXTENDS Integers, FiniteSets

CONSTANTS Procs,
          Parts,      \* files of an output, without the list of hashes
          Sources,    \* the research plan
          Proposals,  \* proposals a candidate directory can hold
          Waiting,    \* the one propose writes
          Issues,
          Earlier,    \* the proposal an issue may have been resolved by before
          MaxRuns, MaxEvents  \* bounds: commands; deaths and edits

ASSUME EvidenceAssumption ==
  /\ MaxRuns \in Nat /\ MaxEvents \in Nat /\ Parts \in Nat
  /\ \A q \in Proposals \cup {Waiting} : q.id # "open"

(* What the configuration and the inputs can be; an edit may restore an earlier one. *)
Revisions == 1..(MaxEvents + 1)

Ids == {q.id : q \in Proposals}
Entities == {q.entity : q \in Proposals}
Names == {"acq", "frozen", "v165", "cand", "stage", "out"}

VARIABLES
  dir,      \* what is under each name
  config,   \* revision of the run configuration
  inputs,   \* revision of the immutable inputs of v165
  damaged,  \* raw documents that no longer have the bytes fetched
  report,   \* the verifier's: the run and the configuration it passed
  at,
  job,      \* per process: its command, run, what it read and what it will write
  runs, events,
  edits,    \* history: how often the inputs were edited
  first     \* history: the run that first completed a directory

evidence == <<dir, config, inputs, damaged, report, at, job, runs, events, edits, first>>

(* Contents: documents, the inputs used, proposals with the ledger, a projection, and
   the revision of inputs or configuration it names as its own.  edits is history: of the
   edits to the inputs, how many there had been before the run or, once it has looked
   again, were made in between. *)
Open == [i \in Issues |-> "open"]
Empty == [docs |-> {}, inputs |-> 0, proposals |-> {}, ledger |-> Open,
          was |-> Open, accepted |-> {}, events |-> {}, named |-> 0, edits |-> 0]

Nothing == [made |-> FALSE, parts |-> [i \in 1..Parts |-> 0], sealed |-> 0, body |-> Empty]
NoJob == [cmd |-> "none", run |-> 0, read |-> 0, body |-> Empty]
NoReport == [run |-> 0, config |-> 0]

Complete(run, body) ==
  [made |-> TRUE, parts |-> [i \in 1..Parts |-> run], sealed |-> run, body |-> body]

(* Nothing is there, or the inputs of propose are, of an earlier day. *)
Before ==
  [d \in {"acq", "frozen", "v165"} |->
    Complete(MaxRuns + 1,
      IF d = "v165" THEN [Empty EXCEPT !.inputs = 1, !.named = 1]
      ELSE [Empty EXCEPT !.docs = {[source |-> s, good |-> TRUE] : s \in Sources}])]

EvidenceInit ==
  /\ \E there \in {{}, DOMAIN Before} :
       /\ dir = [d \in Names |-> IF d \in there THEN Before[d] ELSE Nothing]
       /\ first = [d \in Names |-> IF d \in there THEN MaxRuns + 1 ELSE 0]
  /\ config = 1 /\ inputs = 1 /\ damaged = {} /\ report = NoReport /\ edits = 0
  /\ at = [p \in Procs |-> "idle"] /\ job = [p \in Procs |-> NoJob]
  /\ runs = 0 /\ events = 0

(* The command's first step and the name it writes to. *)
Entry == [discover |-> "make", freeze |-> "copy", run165 |-> "inputs", propose |-> "sources", project |-> "accept"]
Target == [discover |-> "acq", freeze |-> "frozen", run165 |-> "v165", propose |-> "cand", project |-> "stage"]

D(p) == Target[job[p].cmd]
GoTo(p, s) == at' = [at EXCEPT ![p] = s]
Ends(p) == GoTo(p, "idle") /\ job' = [job EXCEPT ![p] = NoJob]
Put(d, content) == dir' = [dir EXCEPT ![d] = content]
World == UNCHANGED <<config, inputs, damaged, edits>>
Counts == UNCHANGED <<runs, events>>
OnlyLocal == World /\ Counts /\ UNCHANGED <<dir, report, first>>

(* verify_hashes: the files are those listed, with the bytes listed. *)
Whole(d) ==
  dir[d].made /\ dir[d].sealed # 0 /\ \A i \in 1..Parts : dir[d].parts[i] = dir[d].sealed

(* What a check refuses raises, and ends the process. *)
Raises(p) == Ends(p) /\ OnlyLocal

Start(p, cmd) ==
  /\ at[p] = "idle" /\ runs < MaxRuns
  /\ cmd = "run165" => ~ dir["v165"].made
  /\ cmd = "freeze" => dir["acq"].sealed # 0 /\ ~ dir["frozen"].made
  /\ runs' = runs + 1
  /\ job' = [job EXCEPT ![p] = [NoJob EXCEPT !.cmd = cmd, !.run = runs + 1]]
  /\ GoTo(p, Entry[cmd])
  /\ World /\ UNCHANGED <<dir, report, events, first>>

-----------------------------------------------------------------------------
(* Writing an output *)

(* mkdir refuses a directory that is there, whoever made it since it was looked for. *)
FreeOrThere(d) == TRUE
Free(d) == ~ dir[d].made

Make(p) ==
  /\ at[p] = "make"
  /\ IF Free(D(p))
     THEN /\ Put(D(p), [dir[D(p)] EXCEPT !.made = TRUE, !.body = job[p].body])
          /\ GoTo(p, IF job[p].cmd = "discover" THEN "fetch" ELSE "part")
          /\ World /\ Counts /\ UNCHANGED <<job, report, first>>
     ELSE Raises(p)

WritePart(p) ==
  /\ at[p] = "part"
  /\ \E i \in 1..Parts :
       /\ dir[D(p)].parts[i] # job[p].run
       /\ \A j \in 1..(i - 1) : dir[D(p)].parts[j] = job[p].run
       /\ Put(D(p), [dir[D(p)] EXCEPT !.parts[i] = job[p].run])
       /\ GoTo(p, IF i = Parts THEN "seal" ELSE "part")
  /\ World /\ Counts /\ UNCHANGED <<job, report, first>>

(* artifact_hashes.json, acquisition_manifest.json *)
Seal(p) ==
  /\ at[p] = "seal"
  /\ LET d == D(p)
     IN /\ Put(d, IF d = "acq" THEN Complete(job[p].run, job[p].body)
                  ELSE [dir[d] EXCEPT !.sealed = job[p].run, !.body = job[p].body])
        /\ first' = [first EXCEPT ![d] = IF @ = 0 /\ d # "stage" THEN job[p].run ELSE @]
        /\ IF d = "stage" THEN GoTo(p, "mark") /\ UNCHANGED job ELSE Ends(p)
  /\ World /\ Counts /\ UNCHANGED report

(* os.replace raises on a directory that has something in it. *)
Replaceable(d) == ~ dir[d].made

-----------------------------------------------------------------------------
(* discover: a document that cannot be had is logged and passed over. *)
Fetch(p) ==
  /\ at[p] = "fetch"
  /\ \E got \in SUBSET Sources :
       job' = [job EXCEPT ![p].body.docs = {[source |-> s, good |-> TRUE] : s \in got}]
  /\ GoTo(p, "seal")
  /\ OnlyLocal

(* freeze: the documents are taken over if they have the bytes of the manifest. *)
Intact(s) == s \notin damaged

Copy(p) ==
  /\ at[p] = "copy"
  /\ LET left == {c.source : c \in dir["acq"].body.docs} \ {c.source : c \in job[p].body.docs}
     IN IF left = {}
        THEN GoTo(p, "rename") /\ UNCHANGED job
        ELSE \E s \in left :
               IF Intact(s)
               THEN /\ job' = [job EXCEPT ![p].body.docs = @ \cup {[source |-> s, good |-> s \notin damaged]}]
                    /\ UNCHANGED at
               ELSE Ends(p)
  /\ OnlyLocal

RenameFrozen(p) ==
  /\ at[p] = "rename" /\ job[p].cmd = "freeze"
  /\ IF Replaceable("frozen")
     THEN /\ Put("frozen", Complete(job[p].run, job[p].body))
          /\ first' = [first EXCEPT !["frozen"] = IF @ = 0 THEN job[p].run ELSE @]
          /\ Ends(p) /\ World /\ Counts /\ UNCHANGED report
     ELSE Raises(p)

-----------------------------------------------------------------------------
(* The v165 run: the inputs are hashed, used, and hashed again.  An input that was
   changed and changed back in between goes unnoticed. *)
HashInputs(p) ==
  /\ at[p] = "inputs"
  /\ job' = [job EXCEPT ![p].body.named = inputs, ![p].body.edits = edits]
  /\ GoTo(p, "produce") /\ OnlyLocal

Produce(p) ==
  /\ at[p] = "produce"
  /\ job' = [job EXCEPT ![p].body.inputs = inputs]
  /\ GoTo(p, "recheck") /\ OnlyLocal

Recheck(p) ==
  /\ at[p] = "recheck"
  /\ IF job[p].body.named = inputs
     THEN job' = [job EXCEPT ![p].body.edits = edits - @] /\ GoTo(p, "make")
     ELSE Ends(p)
  /\ OnlyLocal

-----------------------------------------------------------------------------
(* propose.  The configuration is read here and hashed for the manifest later. *)

(* The v165 run is verified, the corpus read; no proposal of this code is complete. *)
Propose(p) ==
  /\ at[p] = "sources"
  /\ IF Whole("v165") /\ dir["frozen"].made
     THEN /\ job' = [job EXCEPT ![p].body.proposals = {Waiting}, ![p].body.named = config]
          /\ GoTo(p, "make")
     ELSE Ends(p)
  /\ OnlyLocal

(* The candidates a reviewer writes by hand, as the tests do. *)
HandBuilt ==
  /\ ~ dir["cand"].made /\ runs < MaxRuns
  /\ \E some \in {s \in SUBSET Proposals : Cardinality(s) \in 1..2}, l \in [Issues -> {"open", Earlier}] :
       Put("cand", Complete(runs + 1, [Empty EXCEPT !.proposals = some, !.ledger = l]))
  /\ first' = [first EXCEPT !["cand"] = runs + 1]
  /\ runs' = runs + 1
  /\ World /\ UNCHANGED <<at, job, report, events>>

-----------------------------------------------------------------------------
(* project_shadow *)

Trusts == [targets : SUBSET Entities, accepts : Ids, bound : BOOLEAN]

Passes(q, t) ==
  /\ ~ q.gaps /\ q.current /\ ~ q.held
  /\ q.entity \in t.targets
  /\ t.accepts = q.id /\ t.bound

Candidates(c) == {q \in c.proposals : q.complete}
Conflict(c, q) == \E i \in q.issues : c.ledger[i] \notin {"open", q.id}
Resolving(accepted, i) == {q \in accepted : i \in q.issues}

(* Every complete proposal must pass; each event resolves an open issue. *)
Projection(c, accepted) ==
  [Empty EXCEPT
   !.was = c.ledger, !.accepted = accepted,
   !.events = {i \in Issues : c.ledger[i] = "open" /\ Resolving(accepted, i) # {}},
   !.ledger = [i \in Issues |->
     IF c.ledger[i] = "open" /\ Resolving(accepted, i) # {}
     THEN (CHOOSE q \in Resolving(accepted, i) : TRUE).id ELSE c.ledger[i]]]

Accept(p) ==
  LET c == dir["cand"].body
  IN /\ at[p] = "accept" /\ Whole("cand")
     /\ \/ job' = [job EXCEPT ![p].body = Projection(c, {})]
        \/ /\ \E t \in Trusts : \A q \in Candidates(c) : Passes(q, t) /\ ~ Conflict(c, q)
           /\ job' = [job EXCEPT ![p].body = Projection(c, Candidates(c))]
     /\ GoTo(p, "absent")
     /\ OnlyLocal

Refuse(p) ==
  /\ at[p] = "accept"
  /\ Whole("cand") => \E t \in Trusts : \E q \in Candidates(dir["cand"].body) :
                       ~ Passes(q, t) \/ Conflict(dir["cand"].body, q)
  /\ Raises(p)

(* Neither the output nor a staging directory, left by a death or in use, is there. *)
LookForOutput(p) ==
  /\ at[p] = "absent"
  /\ IF ~ dir["out"].made /\ ~ dir["stage"].made
     THEN GoTo(p, "make") /\ UNCHANGED job
     ELSE Ends(p)
  /\ OnlyLocal

(* The commit marker names the configuration as it now is. *)
Mark(p) ==
  /\ at[p] = "mark"
  /\ Put("stage", [dir["stage"] EXCEPT !.body.named = config])
  /\ GoTo(p, "rename")
  /\ World /\ Counts /\ UNCHANGED <<job, report, first>>

RenameOutput(p) ==
  /\ at[p] = "rename" /\ job[p].cmd = "project"
  /\ IF Replaceable("out")
     THEN /\ dir' = [dir EXCEPT !["out"] = dir["stage"], !["stage"] = Nothing]
          /\ first' = [first EXCEPT !["out"] = IF @ = 0 THEN job[p].run ELSE @]
          /\ Ends(p) /\ World /\ Counts /\ UNCHANGED report
     ELSE Raises(p)

-----------------------------------------------------------------------------
(* verify *)

Consistent(o) ==
  IF o.accepted = {} THEN o.events = {}
  ELSE /\ o.events # {} /\ \A q \in o.accepted : ~ q.held
       /\ \A i \in o.events : o.ledger[i] # "open"

(* The run is checked, then the report written unless there is one. *)
Verify(p) ==
  /\ at[p] = "idle"
  /\ Whole("out") /\ dir["out"].body.named = config /\ Consistent(dir["out"].body)
  /\ report = NoReport
  /\ job' = [job EXCEPT ![p].cmd = "verify", ![p].read = config]
  /\ GoTo(p, "report")
  /\ OnlyLocal

Report(p) ==
  /\ at[p] = "report"
  /\ report' = [run |-> dir["out"].sealed, config |-> job[p].read]
  /\ Ends(p)
  /\ World /\ Counts /\ UNCHANGED <<dir, first>>

-----------------------------------------------------------------------------
Happens == events < MaxEvents /\ events' = events + 1

Die(p) ==
  /\ at[p] # "idle" /\ Happens
  /\ Ends(p)
  /\ World /\ UNCHANGED <<dir, report, runs, first>>

(* People edit the configuration, an input, or a document that was fetched. *)
Edit ==
  /\ Happens
  /\ \/ config' \in Revisions \ {config} /\ UNCHANGED <<inputs, damaged, edits>>
     \/ inputs' \in Revisions \ {inputs} /\ edits' = edits + 1 /\ UNCHANGED <<config, damaged>>
     \/ \E s \in Sources \ damaged : damaged' = damaged \cup {s} /\ UNCHANGED <<config, inputs, edits>>
  /\ UNCHANGED <<dir, report, at, job, runs, first>>

EvidenceNext ==
  \/ \E p \in Procs :
       \/ \E cmd \in DOMAIN Entry : Start(p, cmd)
       \/ Make(p) \/ WritePart(p) \/ Seal(p)
       \/ Fetch(p) \/ Copy(p) \/ RenameFrozen(p)
       \/ HashInputs(p) \/ Produce(p) \/ Recheck(p)
       \/ Propose(p)
       \/ Accept(p) \/ Refuse(p) \/ LookForOutput(p) \/ Mark(p) \/ RenameOutput(p)
       \/ Verify(p) \/ Report(p) \/ Die(p)
  \/ HandBuilt \/ Edit

EvidenceSpec == EvidenceInit /\ [][EvidenceNext]_evidence

-----------------------------------------------------------------------------
(* Once an output is complete it stays what it is: no other run of the command, however
   they interleave and wherever one dies, replaces it or writes into it. *)
Stands == \A d \in Names \ {"stage"} : first[d] # 0 => Whole(d) /\ dir[d].sealed = first[d]

(* What is renamed into place is there as a whole or not at all. *)
AllOrNothing == \A d \in {"frozen", "out"} : dir[d].made => Whole(d)

(* A frozen corpus has the bytes that were fetched.  A v165 run used the inputs it lists:
   one edit while it ran is always noticed, and only two, a change and the change back,
   can have gone by. *)
InputsKept ==
  /\ dir["frozen"].made => \A c \in dir["frozen"].body.docs : c.good
  /\ Whole("v165") =>
       LET b == dir["v165"].body IN b.inputs = b.named \/ b.edits >= 2

(* An issue a committed projection resolves was open, and no proposal is projected that
   is incomplete, out of date, held by a human or not the one the reviewer accepted;
   what was resolved before keeps its resolution. *)
ProjectionKept ==
  dir["out"].made =>
    LET o == dir["out"].body
    IN /\ \A q \in o.accepted : q.complete /\ ~ q.gaps /\ q.current /\ ~ q.held
       /\ Cardinality({q.id : q \in o.accepted}) <= 1
       /\ \A i \in Issues : o.was[i] # "open" => o.ledger[i] = o.was[i]
       /\ \A i \in Issues : o.ledger[i] # o.was[i] <=> i \in o.events

(* A verification passes the run that is there, under the configuration it names. *)
PassHolds == report # NoReport => report.run = dir["out"].sealed /\ report.config = dir["out"].body.named

EvidenceSound == Stands /\ AllOrNothing /\ InputsKept /\ ProjectionKept /\ PassHolds
=============================================================================
