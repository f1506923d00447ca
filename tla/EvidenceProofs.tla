--------------------------- MODULE EvidenceProofs ---------------------------
(* Theorems about EvidenceRun, for any processes, files, sources, proposals and issues and
   any number of commands, deaths and edits.

   The argument.  mkdir makes one process the writer of a name, and a rename finds the
   name free; so a directory that is complete has no writer, and one that has a writer is
   not complete.  Files are written in order and the list of hashes last, by the one
   writer, so a list that is there lists that writer's files.  An edit of the inputs leaves
   them other than they were, so where as many were hashed before as after there were no
   edits in between, or two at least. *)
EXTENDS EvidenceRun, FiniteSetTheorems, TLAPS

Docs == [source : Sources, good : BOOLEAN]
Known == Proposals \cup {Waiting}
Resolutions == {"open", Earlier} \cup {q.id : q \in Known}
Bodies ==
  [docs : SUBSET Docs, inputs : Nat, proposals : SUBSET Known,
   ledger : [Issues -> Resolutions], was : [Issues -> Resolutions],
   accepted : SUBSET Known, events : SUBSET Issues, named : Nat, edits : Nat]
Contents == [made : BOOLEAN, parts : [1..Parts -> Nat], sealed : Nat, body : Bodies]
Jobs ==
  [cmd : {"none", "discover", "freeze", "run165", "propose", "project", "verify"},
   run : Nat, read : Nat, body : Bodies]
Steps ==
  {"idle", "make", "copy", "inputs", "sources", "accept", "fetch", "part", "seal", "mark",
   "rename", "produce", "recheck", "absent", "report"}

Types ==
  /\ dir \in [Names -> Contents]
  /\ first \in [Names -> Nat]
  /\ config \in Nat \ {0} /\ inputs \in Nat /\ runs \in Nat /\ edits \in Nat
  /\ report \in [run : Nat, config : Nat]
  /\ at \in [Procs -> Steps]
  /\ job \in [Procs -> Jobs]

(* The command a process is at a step of; a run has a number. *)
FitsAt(s, j) ==
  /\ s = "fetch" => j.cmd = "discover"
  /\ s = "copy" => j.cmd = "freeze"
  /\ s \in {"inputs", "produce", "recheck"} => j.cmd = "run165"
  /\ s = "sources" => j.cmd = "propose"
  /\ s \in {"accept", "absent", "mark"} => j.cmd = "project"
  /\ s \in {"make", "seal"} => j.cmd \in {"discover", "run165", "propose", "project"}
  /\ s = "part" => j.cmd \in {"run165", "propose", "project"}
  /\ s = "rename" => j.cmd \in {"freeze", "project"}
  /\ s \notin {"idle", "report"} => j.run # 0
Fits(p) == FitsAt(at[p], job[p])

(* A process that has made a directory, and has not left it complete. *)
Writes(p) == at[p] \in {"fetch", "part", "seal", "mark"} \/ (at[p] = "rename" /\ job[p].cmd = "project")

Held(p) == Writes(p) => dir[D(p)].made /\ first[D(p)] = 0
Alone(p, q) == p # q /\ Writes(p) /\ Writes(q) => D(p) # D(q)

(* What ProjectionKept says of the body of an output. *)
Kept(o) ==
  /\ \A q \in o.accepted : q.complete /\ ~ q.gaps /\ q.current /\ ~ q.held
  /\ Cardinality({q.id : q \in o.accepted}) <= 1
  /\ \A i \in Issues : o.was[i] # "open" => o.ledger[i] = o.was[i]
  /\ \A i \in Issues : o.ledger[i] # o.was[i] <=> i \in o.events

(* Between the two looks at the inputs, and after them. *)
Since(b) ==
  /\ b.edits <= edits
  /\ b.edits = edits => b.named = inputs
  /\ b.edits + 1 = edits => b.named # inputs
Noticed(b) == b.inputs = b.named \/ b.edits >= 2

(* What an edit may do to the inputs. *)
Revised ==
  /\ inputs' \in Nat /\ edits' \in Nat
  /\ (inputs' = inputs /\ edits' = edits) \/ (inputs' # inputs /\ edits' = edits + 1)

(* What a process will write. *)
Carried(p) ==
  LET b == job[p].body
  IN /\ job[p].cmd = "freeze" => \A c \in b.docs : c.good
     /\ at[p] \in {"produce", "recheck"} => Since(b)
     /\ at[p] = "recheck" /\ b.edits = edits => b.inputs = inputs
     /\ job[p].cmd = "run165" /\ at[p] \in {"make", "part", "seal"} => Noticed(b)
     /\ job[p].cmd = "project" /\ at[p] \in {"absent", "make", "part", "seal"} => Kept(b)

(* What it has written, or the verifier found there. *)
Written(p) ==
  /\ at[p] = "seal" /\ job[p].cmd # "discover" =>
       \A i \in 1..Parts : dir[D(p)].parts[i] = job[p].run
  /\ at[p] = "mark" \/ (at[p] = "rename" /\ job[p].cmd = "project") =>
       Whole("stage") /\ dir["stage"].sealed = job[p].run /\ Kept(dir["stage"].body)
  /\ at[p] = "report" => dir["out"].made /\ dir["out"].body.named = job[p].read

Local(p) == Fits(p) /\ Held(p) /\ Carried(p) /\ Written(p)

Settled(d) == first[d] # 0 => Whole(d) /\ dir[d].sealed = first[d]

Outputs ==
  /\ \A d \in Names : Settled(d)
  /\ first["stage"] = 0
  /\ \A d \in {"frozen", "out"} : dir[d].made => first[d] # 0
  /\ dir["frozen"].made => \A c \in dir["frozen"].body.docs : c.good
  /\ dir["v165"].made => Noticed(dir["v165"].body)
  /\ dir["out"].made => Kept(dir["out"].body)
  /\ report # NoReport =>
       dir["out"].made /\ report.run = dir["out"].sealed /\ report.config = dir["out"].body.named

Inv ==
  /\ Types
  /\ \A p \in Procs : Local(p)
  /\ \A p, q \in Procs : Alone(p, q)
  /\ Outputs

USE DEF D, GoTo, Ends, Put, World, Counts, OnlyLocal, Raises, Names

LEMMA EmptyType == Empty \in Bodies
BY DEF Empty, Open, Bodies, Resolutions

LEMMA NoJobType == NoJob \in Jobs
BY EmptyType DEF NoJob, Jobs

LEMMA NothingType == Nothing \in Contents /\ Nothing.made = FALSE
BY EmptyType DEF Nothing, Contents

LEMMA CompleteType ==
  ASSUME NEW r \in Nat, NEW b \in Bodies
  PROVE  /\ Complete(r, b) \in Contents
         /\ Complete(r, b).made = TRUE /\ Complete(r, b).sealed = r
         /\ Complete(r, b).body = b /\ \A i \in 1..Parts : Complete(r, b).parts[i] = r
BY DEF Complete, Contents

LEMMA BodyUpdates ==
  ASSUME NEW b \in Bodies
  PROVE  /\ \A n \in Nat : [b EXCEPT !.named = n] \in Bodies /\ [b EXCEPT !.inputs = n] \in Bodies /\ [b EXCEPT !.edits = n] \in Bodies
         /\ \A s \in SUBSET Docs : [b EXCEPT !.docs = s] \in Bodies
BY DEF Bodies

LEMMA JobUpdates ==
  ASSUME NEW j \in Jobs
  PROVE  /\ \A b \in Bodies : [j EXCEPT !.body = b] \in Jobs
         /\ \A n \in Nat : [j EXCEPT !.body.named = n] \in Jobs /\ [j EXCEPT !.body.inputs = n] \in Jobs /\ [j EXCEPT !.body.edits = n] \in Jobs
         /\ \A s \in SUBSET Docs : [j EXCEPT !.body.docs = s] \in Jobs
BY BodyUpdates DEF Jobs

(* The later resolutions of a projection, and what else is in it. *)
Resolved(c, accepted) ==
  [i \in Issues |->
     IF c.ledger[i] = "open" /\ Resolving(accepted, i) # {}
     THEN (CHOOSE q \in Resolving(accepted, i) : TRUE).id ELSE c.ledger[i]]

LEMMA ProjectionFields ==
  ASSUME NEW c \in Bodies, NEW accepted \in SUBSET c.proposals
  PROVE  /\ Projection(c, accepted) \in Bodies
         /\ Projection(c, accepted).was = c.ledger
         /\ Projection(c, accepted).accepted = accepted
         /\ Projection(c, accepted).events =
              {i \in Issues : c.ledger[i] = "open" /\ Resolving(accepted, i) # {}}
         /\ Projection(c, accepted).ledger = Resolved(c, accepted)
<1>1. c.ledger \in [Issues -> Resolutions] /\ accepted \in SUBSET Known
  BY DEF Bodies
<1>2. Resolved(c, accepted) \in [Issues -> Resolutions]
  <2> SUFFICES ASSUME NEW i \in Issues, Resolving(accepted, i) # {}
               PROVE  (CHOOSE q \in Resolving(accepted, i) : TRUE).id \in Resolutions
    BY <1>1 DEF Resolved
  <2>1. (CHOOSE q \in Resolving(accepted, i) : TRUE) \in Known
    BY <1>1 DEF Resolving
  <2>2. QED BY <2>1 DEF Resolutions
<1> DEFINE e == {i \in Issues : c.ledger[i] = "open" /\ Resolving(accepted, i) # {}}
<1>3. Projection(c, accepted) =
        [Empty EXCEPT !.was = c.ledger, !.accepted = accepted, !.events = e,
                      !.ledger = Resolved(c, accepted)]
  BY Zenon DEF Projection, Resolved
<1>4. e \in SUBSET Issues
  OBVIOUS
<1> HIDE DEF e
<1>5. Projection(c, accepted) =
        [docs |-> {}, inputs |-> 0, proposals |-> {}, ledger |-> Resolved(c, accepted),
         was |-> c.ledger, accepted |-> accepted, events |-> e, named |-> 0, edits |-> 0]
  BY <1>3 DEF Empty
<1>6. QED BY <1>1, <1>2, <1>4, <1>5 DEF Bodies, e
-----------------------------------------------------------------------------
(* Types *)

LEMMA NamedUpdate == ASSUME NEW c \in Contents, NEW n \in Nat PROVE [c EXCEPT !.body.named = n] \in Contents
BY BodyUpdates DEF Contents

LEMMA InitTypes == ASSUME MaxRuns \in Nat, EvidenceInit PROVE Types
<1>1. PICK there \in {{}, DOMAIN Before} :
        /\ dir = [d \in Names |-> IF d \in there THEN Before[d] ELSE Nothing]
        /\ first = [d \in Names |-> IF d \in there THEN MaxRuns + 1 ELSE 0]
  BY Zenon DEF EvidenceInit
<1>2. \A d \in DOMAIN Before : Before[d] \in Contents
  <2>1. [Empty EXCEPT !.inputs = 1, !.named = 1] \in Bodies
    <3> DEFINE b == [Empty EXCEPT !.inputs = 1]
    <3>2. b \in Bodies
      BY EmptyType, BodyUpdates
    <3>3. [Empty EXCEPT !.inputs = 1, !.named = 1] = [b EXCEPT !.named = 1]
      BY DEF Empty
    <3> HIDE DEF b
    <3>4. QED BY <3>2, <3>3, BodyUpdates
  <2>2. [Empty EXCEPT !.docs = {[source |-> s, good |-> TRUE] : s \in Sources}] \in Bodies
    <3>1. \A s \in Sources : [source |-> s, good |-> TRUE] \in Docs
      BY DEF Docs
    <3>2. {[source |-> s, good |-> TRUE] : s \in Sources} \in SUBSET Docs
      BY <3>1
    <3>3. QED BY <3>2, EmptyType, BodyUpdates
  <2>3. DOMAIN Before = {"acq", "frozen", "v165"}
    BY DEF Before
  <2>4. Before["v165"] = Complete(MaxRuns + 1, [Empty EXCEPT !.inputs = 1, !.named = 1])
    BY DEF Before
  <2>5. \A d \in {"acq", "frozen"} :
          Before[d] = Complete(MaxRuns + 1, [Empty EXCEPT !.docs = {[source |-> s, good |-> TRUE] : s \in Sources}])
    BY DEF Before
  <2> DEFINE b1 == [Empty EXCEPT !.inputs = 1, !.named = 1]
             b2 == [Empty EXCEPT !.docs = {[source |-> s, good |-> TRUE] : s \in Sources}]
  <2> HIDE DEF b1, b2
  <2>6. \A d \in DOMAIN Before : Before[d] = Complete(MaxRuns + 1, b1) \/ Before[d] = Complete(MaxRuns + 1, b2)
    BY <2>3, <2>4, <2>5 DEF b1, b2
  <2>7. b1 \in Bodies /\ b2 \in Bodies
    BY <2>1, <2>2 DEF b1, b2
  <2>8. \A r \in Nat, b \in Bodies : Complete(r, b) \in Contents
    BY CompleteType
  <2>9. MaxRuns + 1 \in Nat
    OBVIOUS
  <2>10. QED BY <2>6, <2>7, <2>8, <2>9, Zenon
<1>3. dir \in [Names -> Contents]
  BY <1>1, <1>2, NothingType
<1>4. first \in [Names -> Nat]
  BY <1>1
<1>5. job \in [Procs -> Jobs] /\ at \in [Procs -> Steps]
  BY NoJobType DEF EvidenceInit, Steps
<1>6. QED BY <1>3, <1>4, <1>5 DEF EvidenceInit, Types, NoReport

-----------------------------------------------------------------------------
(* Frames *)

(* A step of p, to the step s with the job j. *)
Moves(p, s, j) == at' = [at EXCEPT ![p] = s] /\ job' = [job EXCEPT ![p] = j]

LEMMA Moved ==
  ASSUME NEW p \in Procs, NEW s \in Steps, NEW j \in Jobs, Types, Moves(p, s, j)
  PROVE  /\ at' \in [Procs -> Steps] /\ job' \in [Procs -> Jobs]
         /\ at'[p] = s /\ job'[p] = j
         /\ \A q \in Procs \ {p} : at'[q] = at[q] /\ job'[q] = job[q]
BY DEF Types, Moves

LEMMA WriterTargets ==
  ASSUME NEW q \in Procs, Types, Fits(q), Writes(q)
  PROVE  /\ D(q) \in {"acq", "v165", "cand", "stage"}
         /\ (D(q) = "stage" <=> job[q].cmd = "project") /\ (D(q) = "acq" <=> job[q].cmd = "discover")
         /\ (D(q) = "v165" <=> job[q].cmd = "run165")
BY DEF Fits, FitsAt, Writes, Target

(* A process that has not moved keeps what holds of it, if the directory it writes is
   left alone, the output once made stays, and the inputs are edited if at all. *)
LEMMA Stays ==
  ASSUME NEW q \in Procs, Types, Local(q), Revised,
         at'[q] = at[q], job'[q] = job[q],
         Writes(q) => dir'[D(q)] = dir[D(q)] /\ first'[D(q)] = first[D(q)],
         dir["out"].made => dir'["out"] = dir["out"]
  PROVE  Local(q)' /\ (Writes(q)' <=> Writes(q)) /\ D(q)' = D(q)
<1>1. Fits(q)' /\ (Writes(q)' <=> Writes(q)) /\ D(q)' = D(q)
  BY DEF Local, Fits, Writes
<1>2. Held(q)'
  BY <1>1 DEF Held, Local
<1>3. Carried(q)'
  <2> DEFINE b == job[q].body
  <2>1. b \in Bodies /\ b.named \in Nat /\ b.inputs \in Nat /\ b.edits \in Nat
    BY DEF Types, Jobs, Bodies
  <2>2. Kept(b)' <=> Kept(b)
    BY DEF Kept
  <2>3. QED BY <2>1, <2>2 DEF Carried, Local, Types, Since, Noticed, Revised
<1>4. Written(q)'
  <2>1. CASE Writes(q)
    <3>1. dir'[D(q)] = dir[D(q)]
      BY <2>1
    <3>2. at[q] # "report"
      BY <2>1 DEF Writes
    <3>3. ASSUME at[q] = "mark" \/ (at[q] = "rename" /\ job[q].cmd = "project")
          PROVE  Whole("stage")' /\ dir'["stage"].sealed = job[q].run /\ Kept(dir["stage"].body)'
      <4>1. D(q) = "stage"
        BY <2>1, <3>3, WriterTargets DEF Local, Fits, FitsAt
      <4>2. Whole("stage") /\ dir["stage"].sealed = job[q].run /\ Kept(dir["stage"].body)
        BY <3>3 DEF Local, Written
      <4>3. dir'["stage"] = dir["stage"]
        BY <3>1, <4>1
      <4>4. QED BY <4>2, <4>3 DEF Whole, Kept
    <3>4. QED BY <3>1, <3>2, <3>3 DEF Written, Local
  <2>2. CASE ~ Writes(q)
    BY <2>2 DEF Written, Writes, Local
  <2>3. QED BY <2>1, <2>2
<1>5. QED BY <1>1, <1>2, <1>3, <1>4 DEF Local

(* A step of p that changes no directory. *)
LEMMA Quiet ==
  ASSUME NEW p \in Procs, NEW s \in Steps, NEW j \in Jobs, Inv, Moves(p, s, j),
         UNCHANGED <<dir, first, report, config, inputs, edits>>, runs' \in Nat,
         Local(p)', Writes(p)' => Writes(p) /\ D(p)' = D(p)
  PROVE  Inv'
<1>1. /\ at' \in [Procs -> Steps] /\ job' \in [Procs -> Jobs]
      /\ \A q \in Procs \ {p} : at'[q] = at[q] /\ job'[q] = job[q]
  BY Moved DEF Inv
<1>2. Types'
  BY <1>1 DEF Inv, Types
<1>3. \A q \in Procs \ {p} : Local(q)' /\ (Writes(q)' <=> Writes(q)) /\ D(q)' = D(q)
  <2>1. Revised
    BY DEF Inv, Types, Revised
  <2>2. QED BY <1>1, <2>1, Stays DEF Inv
<1>4. \A q, r \in Procs : Alone(q, r)'
  BY <1>3 DEF Inv, Alone
<1>5. Outputs'
  BY DEF Inv, Outputs, Settled, Whole, Kept
<1>6. QED BY <1>2, <1>3, <1>4, <1>5 DEF Inv

LEMMA Stops ==
  ASSUME NEW p \in Procs, Inv, Ends(p), UNCHANGED <<dir, first, report, config, inputs, edits>>, runs' \in Nat
  PROVE  Inv'
<1>1. Moves(p, "idle", NoJob)
  BY DEF Moves
<1>2. "idle" \in Steps /\ NoJob \in Jobs
  BY NoJobType DEF Steps
<1>3. at'[p] = "idle" /\ job'[p] = NoJob
  BY <1>1, <1>2, Moved DEF Inv
<1>4. Local(p)' /\ ~ Writes(p)'
  BY <1>3 DEF NoJob, Local, Fits, FitsAt, Held, Writes, Carried, Written
<1>5. QED BY <1>1, <1>2, <1>4, Quiet

(* A step of p that changes what is under one name, which no other process writes. *)
LEMMA Touches ==
  ASSUME NEW p \in Procs, NEW s \in Steps, NEW j \in Jobs, NEW d \in Names, NEW c \in Contents, NEW n \in Nat,
         Inv, Moves(p, s, j), dir' = [dir EXCEPT ![d] = c], first' = [first EXCEPT ![d] = n],
         UNCHANGED <<report, config, inputs, edits, runs>>,
         d = "out" => ~ dir["out"].made,
         \A q \in Procs \ {p} : Writes(q) => D(q) # d,
         Local(p)', Writes(p)' => D(p)' = d
  PROVE  /\ Types'
         /\ \A q \in Procs : Local(q)'
         /\ \A q, r \in Procs : Alone(q, r)'
         /\ dir'[d] = c /\ first'[d] = n
         /\ \A e \in Names \ {d} : dir'[e] = dir[e] /\ first'[e] = first[e]
<1>1. /\ at' \in [Procs -> Steps] /\ job' \in [Procs -> Jobs]
      /\ \A q \in Procs \ {p} : at'[q] = at[q] /\ job'[q] = job[q]
  BY Moved DEF Inv
<1>2. /\ dir' \in [Names -> Contents] /\ first' \in [Names -> Nat]
      /\ dir'[d] = c /\ first'[d] = n
      /\ \A e \in Names \ {d} : dir'[e] = dir[e] /\ first'[e] = first[e]
  BY DEF Inv, Types
<1>3. Types'
  BY <1>1, <1>2 DEF Inv, Types
<1>4. \A q \in Procs \ {p} : Local(q)' /\ (Writes(q)' <=> Writes(q)) /\ D(q)' = D(q)
  <2> SUFFICES ASSUME NEW q \in Procs \ {p} PROVE Local(q)' /\ (Writes(q)' <=> Writes(q)) /\ D(q)' = D(q)
    OBVIOUS
  <2>1. Revised
    BY DEF Inv, Types, Revised
  <2>2. Types /\ Local(q)
    BY DEF Inv
  <2>3. Writes(q) => dir'[D(q)] = dir[D(q)] /\ first'[D(q)] = first[D(q)]
    BY <1>2, <2>2, WriterTargets DEF Local
  <2>4. dir["out"].made => dir'["out"] = dir["out"]
    BY <1>2
  <2>5. QED BY <1>1, <2>1, <2>2, <2>3, <2>4, Stays
<1>5. \A q, r \in Procs : Alone(q, r)'
  BY <1>4 DEF Inv, Alone
<1>6. QED BY <1>2, <1>3, <1>4, <1>5
-----------------------------------------------------------------------------
(* Steps that change no directory *)

LEMMA StartKeeps == ASSUME NEW p \in Procs, NEW cmd \in DOMAIN Entry, Inv, Start(p, cmd) PROVE Inv'
<1> DEFINE j == [NoJob EXCEPT !.cmd = cmd, !.run = runs + 1]
<1>1. /\ cmd \in {"discover", "freeze", "run165", "propose", "project"} /\ Entry[cmd] \in Steps
      /\ runs \in Nat
  BY DEF Entry, Steps, Inv, Types
<1>2. j \in Jobs /\ j.cmd = cmd /\ j.run = runs + 1 /\ j.body = Empty
  <2> DEFINE k == [NoJob EXCEPT !.cmd = cmd]
  <2>1. k \in Jobs /\ k.cmd = cmd /\ k.body = Empty
    BY <1>1, NoJobType DEF Jobs, NoJob
  <2>2. j = [k EXCEPT !.run = runs + 1]
    OBVIOUS
  <2> HIDE DEF k, j
  <2>3. QED BY <1>1, <2>1, <2>2 DEF Jobs
<1>3. Moves(p, Entry[cmd], j)
  BY DEF Start, Moves
<1> HIDE DEF j
<1>4. at'[p] = Entry[cmd] /\ job'[p] = j
  BY <1>1, <1>2, <1>3, Moved DEF Inv
<1>5. Fits(p)'
  BY <1>1, <1>2, <1>4 DEF Fits, FitsAt, Entry
<1>6. at'[p] \in {"make", "copy", "inputs", "sources", "accept"}
  BY <1>1, <1>4 DEF Entry
<1>7. ~ Writes(p)' /\ Held(p)' /\ Written(p)'
  BY <1>6 DEF Writes, Held, Written
<1>8. Carried(p)'
  BY <1>1, <1>2, <1>4 DEF Carried, Entry, Empty
<1>9. QED BY <1>1, <1>2, <1>3, <1>5, <1>7, <1>8, Quiet DEF Start, Local

LEMMA Refuses == ASSUME NEW p \in Procs, Inv, Raises(p) PROVE Inv'
BY Stops DEF Inv, Types

LEMMA DieKeeps == ASSUME NEW p \in Procs, Inv, Die(p) PROVE Inv'
BY Stops DEF Inv, Types, Die

LEMMA RefuseKeeps == ASSUME NEW p \in Procs, Inv, Refuse(p) PROVE Inv'
BY Refuses DEF Refuse

LEMMA FetchKeeps == ASSUME NEW p \in Procs, Inv, Fetch(p) PROVE Inv'
<1>1. PICK got \in SUBSET Sources :
        job' = [job EXCEPT ![p].body.docs = {[source |-> s, good |-> TRUE] : s \in got}]
  BY DEF Fetch
<1> DEFINE docs == {[source |-> s, good |-> TRUE] : s \in got}
           j == [job[p] EXCEPT !.body.docs = docs]
<1>2. docs \in SUBSET Docs
  <2>1. \A s \in got : [source |-> s, good |-> TRUE] \in Docs
    BY DEF Docs
  <2>2. QED BY <2>1
<1> HIDE DEF docs
<1>3. job[p] \in Jobs /\ at[p] = "fetch" /\ job[p].cmd = "discover" /\ job[p].run # 0
  BY DEF Fetch, Inv, Types, Local, Fits, FitsAt
<1>4. j \in Jobs
  BY <1>2, <1>3, JobUpdates
<1>5. j.cmd = "discover" /\ j.run # 0
  BY <1>3 DEF Jobs
<1>6. Moves(p, "seal", j)
  BY <1>1 DEF Fetch, Moves, docs
<1> HIDE DEF j
<1>7. at'[p] = "seal" /\ job'[p] = j
  BY <1>4, <1>6, Moved DEF Inv, Steps
<1>8. Fits(p)' /\ Carried(p)' /\ Written(p)'
  BY <1>5, <1>7 DEF Fits, FitsAt, Carried, Written
<1>9. Writes(p) /\ Writes(p)' /\ D(p)' = D(p)
  BY <1>3, <1>5, <1>7 DEF Writes
<1>10. Held(p)'
  BY <1>9 DEF Held, Fetch, Inv, Local
<1>11. "seal" \in Steps /\ runs' \in Nat
  BY DEF Steps, Fetch, Inv, Types
<1>12. QED BY <1>4, <1>6, <1>8, <1>9, <1>10, <1>11, Quiet DEF Fetch, Local

LEMMA CopyKeeps == ASSUME NEW p \in Procs, Inv, Copy(p) PROVE Inv'
<1>1. /\ job[p] \in Jobs /\ at[p] = "copy" /\ job[p].cmd = "freeze" /\ job[p].run # 0
      /\ runs \in Nat /\ job \in [Procs -> Jobs] /\ at \in [Procs -> Steps]
      /\ \A c \in job[p].body.docs : c.good
  BY DEF Copy, Inv, Types, Local, Fits, FitsAt, Carried
<1>2. CASE Ends(p)
  BY <1>1, <1>2, Stops DEF Copy
<1>3. CASE GoTo(p, "rename") /\ UNCHANGED job
  <2>1. Moves(p, "rename", job[p])
    BY <1>1, <1>3 DEF Moves
  <2>2. at'[p] = "rename" /\ job' = job
    BY <1>1, <1>3
  <2>3. Local(p)' /\ ~ Writes(p)'
    BY <1>1, <2>2 DEF Local, Fits, FitsAt, Held, Writes, Carried, Written
  <2>4. "rename" \in Steps
    BY DEF Steps
  <2>5. QED BY <1>1, <2>1, <2>3, <2>4, Quiet DEF Copy
<1>4. ASSUME NEW s \in {c.source : c \in dir["acq"].body.docs}, Intact(s), UNCHANGED at,
             job' = [job EXCEPT ![p].body.docs = @ \cup {[source |-> s, good |-> s \notin damaged]}]
      PROVE  Inv'
  <2> DEFINE docs == job[p].body.docs \cup {[source |-> s, good |-> s \notin damaged]}
             j == [job[p] EXCEPT !.body.docs = docs]
  <2>1. dir["acq"].body.docs \in SUBSET Docs /\ job[p].body.docs \in SUBSET Docs
    BY <1>1 DEF Inv, Types, Contents, Bodies, Names, Jobs
  <2>2. s \in Sources
    BY <2>1 DEF Docs
  <2>3. s \notin damaged
    BY <1>4 DEF Intact
  <2>4. docs = job[p].body.docs \cup {[source |-> s, good |-> TRUE]}
    BY <2>3
  <2>5. [source |-> s, good |-> TRUE] \in Docs
    BY <2>2 DEF Docs
  <2>6. docs \in SUBSET Docs /\ \A c \in docs : c.good
    <3>1. docs \in SUBSET Docs
      BY <2>1, <2>4, <2>5
    <3>2. ASSUME NEW c \in docs PROVE c.good
      <4>1. c \in job[p].body.docs \/ c = [source |-> s, good |-> TRUE]
        BY <2>4
      <4> HIDE DEF docs
      <4>2. CASE c \in job[p].body.docs
        BY <1>1, <4>2
      <4>3. CASE c = [source |-> s, good |-> TRUE]
        BY <4>3
      <4>4. QED BY <4>1, <4>2, <4>3
    <3> HIDE DEF docs
    <3>3. QED BY <3>1, <3>2
  <2> HIDE DEF docs
  <2>7. j \in Jobs
    BY <1>1, <2>6, JobUpdates
  <2>8. j.cmd = "freeze" /\ j.run # 0 /\ j.body.docs = docs
    BY <1>1 DEF Jobs, Bodies
  <2>9. Moves(p, "copy", j)
    BY <1>1, <1>4 DEF Moves, docs
  <2> HIDE DEF j
  <2>10. at'[p] = "copy" /\ job'[p] = j
    BY <1>1, <1>4, <2>7, <2>9, Moved DEF Inv, Steps
  <2>11. Local(p)' /\ ~ Writes(p)'
    BY <2>6, <2>8, <2>10 DEF Local, Fits, FitsAt, Held, Writes, Carried, Written
  <2>12. "copy" \in Steps
    BY DEF Steps
  <2>13. QED BY <1>1, <2>7, <2>9, <2>11, <2>12, Quiet DEF Copy
<1>5. QED
  <2> DEFINE left == {c.source : c \in dir["acq"].body.docs} \ {c.source : c \in job[p].body.docs}
  <2>1. \/ GoTo(p, "rename") /\ UNCHANGED job
        \/ \E s \in left :
             IF Intact(s)
             THEN /\ job' = [job EXCEPT ![p].body.docs = @ \cup {[source |-> s, good |-> s \notin damaged]}]
                  /\ UNCHANGED at
             ELSE Ends(p)
    BY Zenon DEF Copy
  <2>2. QED BY <1>2, <1>3, <1>4, <2>1
LEMMA HashInputsKeeps == ASSUME NEW p \in Procs, Inv, HashInputs(p) PROVE Inv'
<1> DEFINE i == [job[p] EXCEPT !.body.named = inputs]
           j == [i EXCEPT !.body.edits = edits]
<1>1. /\ job[p] \in Jobs /\ job[p].cmd = "run165" /\ job[p].run # 0
      /\ inputs \in Nat /\ edits \in Nat /\ runs \in Nat
      /\ job \in [Procs -> Jobs] /\ "produce" \in Steps
  BY DEF HashInputs, Inv, Types, Local, Fits, FitsAt, Steps
<1>2. i \in Jobs
  BY <1>1, JobUpdates
<1>3. i.cmd = "run165" /\ i.run # 0 /\ i.body.named = inputs
  BY <1>1 DEF Jobs, Bodies
<1>4. j \in Jobs
  <2> HIDE DEF i
  <2>1. QED BY <1>1, <1>2, JobUpdates
<1>5. j.cmd = "run165" /\ j.run # 0 /\ j.body.named = inputs /\ j.body.edits = edits
  <2> HIDE DEF i
  <2>1. QED BY <1>2, <1>3 DEF Jobs, Bodies
<1>6. Moves(p, "produce", j)
  <2>1. job' = [job EXCEPT ![p].body.named = inputs, ![p].body.edits = edits]
    BY DEF HashInputs
  <2>2. job' = [job EXCEPT ![p] = j]
    BY <1>1, <2>1
  <2>3. QED BY <2>2 DEF HashInputs, Moves
<1> HIDE DEF i, j
<1>7. at'[p] = "produce" /\ job'[p] = j
  BY <1>1, <1>4, <1>6, Moved DEF Inv
<1>8. Local(p)' /\ ~ Writes(p)'
  BY <1>1, <1>5, <1>7 DEF HashInputs, Local, Fits, FitsAt, Held, Writes, Carried, Written, Since
<1>9. QED BY <1>1, <1>4, <1>6, <1>8, Quiet DEF HashInputs

LEMMA ProduceKeeps == ASSUME NEW p \in Procs, Inv, Produce(p) PROVE Inv'
<1> DEFINE j == [job[p] EXCEPT !.body.inputs = inputs]
<1>1. /\ job[p] \in Jobs /\ job[p].cmd = "run165" /\ job[p].run # 0
      /\ inputs \in Nat /\ edits \in Nat /\ runs \in Nat
      /\ Since(job[p].body) /\ "recheck" \in Steps
  BY DEF Produce, Inv, Types, Local, Fits, FitsAt, Carried, Steps
<1>2. j \in Jobs
  BY <1>1, JobUpdates
<1>3. /\ j.cmd = "run165" /\ j.run # 0 /\ j.body.inputs = inputs
      /\ j.body.named = job[p].body.named /\ j.body.edits = job[p].body.edits
  BY <1>1 DEF Jobs, Bodies
<1>4. Moves(p, "recheck", j)
  BY DEF Produce, Moves
<1> HIDE DEF j
<1>5. at'[p] = "recheck" /\ job'[p] = j
  BY <1>1, <1>2, <1>4, Moved DEF Inv
<1>6. Local(p)' /\ ~ Writes(p)'
  BY <1>1, <1>3, <1>5 DEF Produce, Local, Fits, FitsAt, Held, Writes, Carried, Written, Since
<1>7. QED BY <1>1, <1>2, <1>4, <1>6, Quiet DEF Produce

(* The same inputs after as before: none were edited, and those used are those, or two were. *)
LEMMA RecheckKeeps == ASSUME NEW p \in Procs, Inv, Recheck(p) PROVE Inv'
<1>1. /\ job[p] \in Jobs /\ job[p].cmd = "run165" /\ job[p].run # 0
      /\ inputs \in Nat /\ edits \in Nat /\ runs \in Nat
      /\ job[p].body \in Bodies /\ job[p].body.edits \in Nat
      /\ Since(job[p].body) /\ (job[p].body.edits = edits => job[p].body.inputs = inputs)
      /\ job \in [Procs -> Jobs] /\ at \in [Procs -> Steps] /\ "make" \in Steps
  BY DEF Recheck, Inv, Types, Jobs, Bodies, Local, Fits, FitsAt, Carried, Steps
<1>2. CASE job[p].body.named = inputs
  <2> DEFINE n == edits - job[p].body.edits
             j == [job[p] EXCEPT !.body.edits = n]
  <2>1. n \in Nat /\ (n = 0 \/ n >= 2)
    BY <1>1, <1>2 DEF Since
  <2>2. n = 0 => job[p].body.inputs = job[p].body.named
    BY <1>1, <1>2
  <2> HIDE DEF n
  <2>3. j \in Jobs
    BY <1>1, <2>1, JobUpdates
  <2>4. /\ j.cmd = "run165" /\ j.run # 0 /\ j.body.inputs = job[p].body.inputs
        /\ j.body.named = job[p].body.named /\ j.body.edits = n
    BY <1>1 DEF Jobs, Bodies
  <2>5. Moves(p, "make", j)
    BY <1>2 DEF Recheck, Moves, n
  <2> HIDE DEF j
  <2>6. at'[p] = "make" /\ job'[p] = j
    BY <1>1, <2>3, <2>5, Moved DEF Inv
  <2>7. Noticed(j.body)
    BY <2>1, <2>2, <2>4 DEF Noticed
  <2>8. Local(p)' /\ ~ Writes(p)'
    BY <1>1, <2>4, <2>6, <2>7 DEF Recheck, Local, Fits, FitsAt, Held, Writes, Carried, Written
  <2>9. QED BY <1>1, <2>3, <2>5, <2>8, Quiet DEF Recheck
<1>3. CASE job[p].body.named # inputs
  BY <1>1, <1>3, Stops DEF Recheck
<1>4. QED BY <1>2, <1>3

LEMMA ProposeKeeps == ASSUME NEW p \in Procs, Inv, Propose(p) PROVE Inv'
<1>1. /\ job[p] \in Jobs /\ job[p].cmd = "propose" /\ job[p].run # 0 /\ config \in Nat /\ runs \in Nat
      /\ job \in [Procs -> Jobs] /\ at \in [Procs -> Steps] /\ "make" \in Steps
  BY DEF Propose, Inv, Types, Local, Fits, FitsAt, Steps
<1>2. CASE Whole("v165") /\ dir["frozen"].made
  <2> DEFINE b == [job[p].body EXCEPT !.proposals = {Waiting}]
             b2 == [b EXCEPT !.named = config]
             j == [job[p] EXCEPT !.body = b2]
  <2>1. b \in Bodies
    BY <1>1 DEF Jobs, Bodies, Known
  <2>2. b2 \in Bodies
    BY <1>1, <2>1, BodyUpdates
  <2>3. j \in Jobs /\ j.cmd = "propose" /\ j.run # 0
    BY <1>1, <2>2 DEF Jobs
  <2>4. Moves(p, "make", j)
    <3> DEFINE before == [job EXCEPT ![p].body.proposals = {Waiting}]
    <3>1. before = [job EXCEPT ![p] = [job[p] EXCEPT !.body = b]]
      OBVIOUS
    <3>2. before[p] = [job[p] EXCEPT !.body = b] /\ before[p].body = b
      BY <1>1, <3>1, <2>1 DEF Jobs
    <3>3. job' = [before EXCEPT ![p].body.named = config]
      BY <1>2 DEF Propose
    <3> HIDE DEF before
    <3>4. job' = [before EXCEPT ![p] = [before[p] EXCEPT !.body = [before[p].body EXCEPT !.named = config]]]
      BY <3>3
    <3>5. [before[p] EXCEPT !.body = b2] = j
      BY <1>1, <3>2, <2>1, <2>2 DEF Jobs
    <3>6. job' = [before EXCEPT ![p] = j]
      BY <3>2, <3>4, <3>5
    <3> HIDE DEF j
    <3>7. job' = [job EXCEPT ![p] = j]
      BY <3>1, <3>6
    <3>8. QED BY <1>2, <3>7 DEF Propose, Moves
  <2> HIDE DEF j
  <2>5. at'[p] = "make" /\ job'[p] = j
    BY <1>1, <2>3, <2>4, Moved DEF Inv
  <2>6. Local(p)' /\ ~ Writes(p)'
    BY <1>1, <2>3, <2>5 DEF Propose, Local, Fits, FitsAt, Held, Writes, Carried, Written
  <2>7. QED BY <1>1, <2>3, <2>4, <2>6, Quiet DEF Propose
<1>3. CASE ~ (Whole("v165") /\ dir["frozen"].made)
  BY <1>1, <1>3, Stops DEF Propose
<1>4. QED BY <1>2, <1>3

LEMMA LookForOutputKeeps == ASSUME NEW p \in Procs, Inv, LookForOutput(p) PROVE Inv'
<1>1. /\ job[p] \in Jobs /\ job[p].cmd = "project" /\ job[p].run # 0 /\ runs \in Nat
      /\ Kept(job[p].body)
      /\ job \in [Procs -> Jobs] /\ at \in [Procs -> Steps] /\ "make" \in Steps
  BY DEF LookForOutput, Inv, Types, Local, Fits, FitsAt, Carried, Steps
<1>2. CASE GoTo(p, "make") /\ UNCHANGED job
  <2>1. Moves(p, "make", job[p])
    BY <1>1, <1>2 DEF Moves
  <2>2. at'[p] = "make" /\ job' = job
    BY <1>1, <1>2
  <2>3. Kept(job[p].body)'
    BY <1>1, <2>2 DEF Kept
  <2>4. Local(p)' /\ ~ Writes(p)'
    BY <1>1, <2>2, <2>3 DEF Local, Fits, FitsAt, Held, Writes, Carried, Written
  <2>5. QED BY <1>1, <2>1, <2>4, Quiet DEF LookForOutput
<1>3. CASE Ends(p)
  BY <1>1, <1>3, Stops DEF LookForOutput
<1>4. QED BY <1>2, <1>3 DEF LookForOutput

LEMMA VerifyKeeps == ASSUME NEW p \in Procs, Inv, Verify(p) PROVE Inv'
<1> DEFINE k == [job[p] EXCEPT !.cmd = "verify"]
           j == [k EXCEPT !.read = config]
<1>1. /\ job[p] \in Jobs /\ config \in Nat /\ runs \in Nat /\ "report" \in Steps
      /\ dir["out"].made /\ dir["out"].body.named = config
  BY DEF Verify, Whole, Inv, Types, Steps
<1>2. k \in Jobs /\ k.cmd = "verify"
  BY <1>1 DEF Jobs
<1>3. j \in Jobs /\ j.cmd = "verify" /\ j.read = config
  BY <1>1, <1>2 DEF Jobs
<1>4. Moves(p, "report", j)
  BY DEF Verify, Moves
<1> HIDE DEF j
<1>5. at'[p] = "report" /\ job'[p] = j
  BY <1>1, <1>3, <1>4, Moved DEF Inv
<1>6. Local(p)' /\ ~ Writes(p)'
  BY <1>1, <1>3, <1>5 DEF Verify, Local, Fits, FitsAt, Held, Writes, Carried, Written
<1>7. QED BY <1>1, <1>3, <1>4, <1>6, Quiet DEF Verify
(* The ids of proposals are not the word for an issue that is open. *)
Distinct == \A q \in Known : q.id # "open"

(* A projection of proposals one reviewer accepted resolves what was open and keeps
   the rest; one of none changes nothing. *)
LEMMA ProjectionIsKept ==
  ASSUME NEW c \in Bodies, NEW accepted \in SUBSET Candidates(c), Distinct,
         accepted = {} \/ \E t \in Trusts : \A q \in accepted : Passes(q, t)
  PROVE  Projection(c, accepted) \in Bodies /\ Kept(Projection(c, accepted))
<1> DEFINE o == Projection(c, accepted)
<1>1. accepted \in SUBSET c.proposals /\ accepted \in SUBSET Known /\ \A q \in accepted : q.complete
  BY DEF Candidates, Bodies
<1>2. /\ o \in Bodies /\ o.was = c.ledger /\ o.accepted = accepted
      /\ o.events = {i \in Issues : c.ledger[i] = "open" /\ Resolving(accepted, i) # {}}
      /\ o.ledger = Resolved(c, accepted)
  BY <1>1, ProjectionFields
<1> HIDE DEF o
<1>3. \A q \in accepted : q.complete /\ ~ q.gaps /\ q.current /\ ~ q.held
  BY <1>1 DEF Passes
<1>4. Cardinality({q.id : q \in accepted}) <= 1
  <2>1. CASE accepted = {}
    <3>1. {q.id : q \in accepted} = {}
      BY <2>1
    <3>2. QED BY <3>1, FS_EmptySet
  <2>2. CASE \E t \in Trusts : \A q \in accepted : Passes(q, t)
    <3>1. PICK t \in Trusts : \A q \in accepted : Passes(q, t)
      BY <2>2
    <3>2. {q.id : q \in accepted} \in SUBSET {t.accepts}
      BY <3>1 DEF Passes
    <3>3. IsFiniteSet({t.accepts}) /\ Cardinality({t.accepts}) = 1
      BY FS_Singleton
    <3>4. Cardinality({q.id : q \in accepted}) <= Cardinality({t.accepts})
      BY <3>2, <3>3, FS_Subset
    <3>5. QED BY <3>3, <3>4
  <2>3. QED BY <2>1, <2>2
<1>5. \A i \in Issues : c.ledger[i] # "open" => Resolved(c, accepted)[i] = c.ledger[i]
  BY DEF Resolved
<1>6. ASSUME NEW i \in Issues
      PROVE  Resolved(c, accepted)[i] # c.ledger[i] <=> c.ledger[i] = "open" /\ Resolving(accepted, i) # {}
  <2>1. CASE c.ledger[i] = "open" /\ Resolving(accepted, i) # {}
    <3>1. (CHOOSE q \in Resolving(accepted, i) : TRUE) \in Known
      BY <1>1, <2>1 DEF Resolving
    <3>2. Resolved(c, accepted)[i] = (CHOOSE q \in Resolving(accepted, i) : TRUE).id
      BY <2>1 DEF Resolved
    <3>3. QED BY <2>1, <3>1, <3>2 DEF Distinct
  <2>2. CASE ~ (c.ledger[i] = "open" /\ Resolving(accepted, i) # {})
    BY <2>2 DEF Resolved
  <2>3. QED BY <2>1, <2>2
<1>7. QED BY <1>2, <1>3, <1>4, <1>5, <1>6 DEF Kept, o

LEMMA AcceptKeeps == ASSUME NEW p \in Procs, Distinct, Inv, Accept(p) PROVE Inv'
<1> DEFINE c == dir["cand"].body
<1>1. /\ job[p] \in Jobs /\ job[p].cmd = "project" /\ job[p].run # 0 /\ runs \in Nat
      /\ job \in [Procs -> Jobs] /\ at \in [Procs -> Steps] /\ "absent" \in Steps
  BY DEF Accept, Inv, Types, Local, Fits, FitsAt, Steps
<1>2. c \in Bodies
  BY DEF Inv, Types, Contents, Names
<1> HIDE DEF c
<1>3. PICK accepted \in SUBSET Candidates(c) :
        /\ job' = [job EXCEPT ![p].body = Projection(c, accepted)]
        /\ accepted = {} \/ \E t \in Trusts : \A q \in accepted : Passes(q, t)
  <2>1. CASE job' = [job EXCEPT ![p].body = Projection(c, {})]
    BY <2>1
  <2>2. CASE /\ \E t \in Trusts : \A q \in Candidates(c) : Passes(q, t) /\ ~ Conflict(c, q)
             /\ job' = [job EXCEPT ![p].body = Projection(c, Candidates(c))]
    BY <2>2
  <2>3. QED BY <2>1, <2>2 DEF Accept, c
<1> DEFINE b == Projection(c, accepted)
<1>4. b \in Bodies /\ Kept(b)
  BY <1>2, <1>3, ProjectionIsKept
<1> HIDE DEF b
<1> DEFINE j == [job[p] EXCEPT !.body = b]
<1>5. j \in Jobs /\ j.cmd = "project" /\ j.run # 0 /\ j.body = b
  BY <1>1, <1>4 DEF Jobs
<1>6. Moves(p, "absent", j)
  BY <1>3 DEF Accept, Moves, b
<1> HIDE DEF j
<1>7. at'[p] = "absent" /\ job'[p] = j
  BY <1>1, <1>5, <1>6, Moved DEF Inv
<1>8. Kept(job[p].body)'
  BY <1>4, <1>5, <1>7 DEF Kept
<1>9. Local(p)' /\ ~ Writes(p)'
  BY <1>5, <1>7, <1>8 DEF Local, Fits, FitsAt, Held, Writes, Carried, Written
<1>10. QED BY <1>1, <1>5, <1>6, <1>9, Quiet DEF Accept

-----------------------------------------------------------------------------
(* Steps that change a directory *)

LEMMA MakeKeeps == ASSUME NEW p \in Procs, Inv, Make(p) PROVE Inv'
<1> DEFINE d == D(p)
           s == IF job[p].cmd = "discover" THEN "fetch" ELSE "part"
           c == [dir[d] EXCEPT !.made = TRUE, !.body = job[p].body]
<1>1. /\ job[p] \in Jobs /\ job[p].cmd \in {"discover", "run165", "propose", "project"}
      /\ job[p].run # 0 /\ at[p] = "make" /\ s \in Steps
      /\ job \in [Procs -> Jobs] /\ at \in [Procs -> Steps]
      /\ dir \in [Names -> Contents] /\ first \in [Names -> Nat] /\ Types
      /\ \A q \in Procs : Local(q)
  BY DEF Make, Inv, Types, Local, Fits, FitsAt, Steps
<1>2. /\ d \in {"acq", "v165", "cand", "stage"} /\ d \in Names
      /\ (d = "stage" <=> job[p].cmd = "project") /\ (d = "v165" <=> job[p].cmd = "run165")
  BY <1>1 DEF Target
<1>3. CASE Raises(p)
  BY <1>3, Refuses
<1>4. CASE /\ ~ dir[d].made /\ Put(d, c) /\ GoTo(p, s)
           /\ World /\ Counts /\ UNCHANGED <<job, report, first>>
  <2>1. c \in Contents /\ c.made = TRUE /\ c.body = job[p].body
    <3>1. dir[d] \in Contents /\ job[p].body \in Bodies
      BY <1>1, <1>2 DEF Jobs
    <3>2. [dir[d] EXCEPT !.made = TRUE] \in Contents
      BY <3>1 DEF Contents
    <3>3. c = [[dir[d] EXCEPT !.made = TRUE] EXCEPT !.body = job[p].body]
      OBVIOUS
    <3>4. QED BY <3>1, <3>2, <3>3 DEF Contents
  <2>2. Moves(p, s, job[p]) /\ dir' = [dir EXCEPT ![d] = c] /\ first' = [first EXCEPT ![d] = first[d]]
    BY <1>1, <1>2, <1>4 DEF Moves
  <2>3. first[d] = 0
    BY <1>2, <1>4 DEF Inv, Outputs, Settled, Whole
  <2>4. \A q \in Procs \ {p} : Writes(q) => D(q) # d
    BY <1>1, <1>4 DEF Local, Held
  <2>5. at'[p] = s /\ job'[p] = job[p] /\ dir'[d] = c /\ first'[d] = 0
    BY <1>1, <1>2, <1>4, <2>2, <2>3
  <2> HIDE DEF c
  <2>6. s \in {"fetch", "part"} /\ (s = "fetch" <=> job[p].cmd = "discover")
    BY <1>1
  <2> HIDE DEF s
  <2>7. Held(p)' /\ D(p)' = d
    BY <1>2, <2>1, <2>5 DEF Held
  <2>8. Kept(job[p].body)' <=> Kept(job[p].body)
    BY <2>5 DEF Kept
  <2>9. Local(p)'
    BY <1>1, <2>5, <2>6, <2>7, <2>8 DEF Local, Fits, FitsAt, Carried, Written
  <2> HIDE DEF d
  <2>10. /\ Types' /\ \A q \in Procs : Local(q)'
         /\ \A q, r \in Procs : Alone(q, r)'
         /\ \A e \in Names \ {d} : dir'[e] = dir[e] /\ first'[e] = first[e]
    <3>1. first[d] \in Nat /\ s \in Steps
      BY <1>1, <1>2
    <3>2. UNCHANGED <<report, config, inputs, edits, runs>>
      BY <1>4
    <3>3. job[p] \in Jobs /\ d \in Names /\ d # "out" /\ (Writes(p)' => D(p)' = d)
      BY <1>1, <1>2, <2>7
    <3>4. QED BY <2>1, <2>2, <2>4, <2>9, <3>1, <3>2, <3>3, Touches, ZenonT(60)
  <2>11. Outputs'
    <3>1. \A e \in Names : Settled(e)'
      BY <2>5, <2>10 DEF Inv, Outputs, Settled, Whole
    <3>2. first'["stage"] = 0
      BY <2>5, <2>10 DEF Inv, Outputs
    <3>3. dir'["frozen"] = dir["frozen"] /\ dir'["out"] = dir["out"]
          /\ first'["frozen"] = first["frozen"] /\ first'["out"] = first["out"]
      BY <1>2, <2>10
    <3>4. d = "v165" => Noticed(job[p].body)
      BY <1>1, <1>2 DEF Local, Carried
    <3>5. dir'["v165"].made => Noticed(dir'["v165"].body)
      BY <2>1, <2>5, <2>10, <3>4 DEF Inv, Outputs
    <3>6. QED BY <1>4, <3>1, <3>2, <3>3, <3>5 DEF Inv, Outputs, Kept
  <2>12. QED BY <2>10, <2>11 DEF Inv
<1>5. QED BY <1>3, <1>4 DEF Make, Free
(* The rest of Inv, when the name that changed stays without a complete output. *)
LEMMA Unfinished ==
  ASSUME NEW d \in {"acq", "v165", "cand", "stage"}, Inv, first[d] = 0,
         first'[d] = 0, report' = report,
         \A e \in Names \ {d} : dir'[e] = dir[e] /\ first'[e] = first[e],
         d = "v165" => (dir'[d].made => Noticed(dir'[d].body))
  PROVE  Outputs'
<1>1. \A e \in Names : Settled(e)'
  <2>1. \A e \in Names : Settled(e)
    BY DEF Inv, Outputs
  <2>2. QED BY <2>1 DEF Settled, Whole
<1>2. first'["stage"] = 0
  BY DEF Inv, Outputs
<1>3. dir'["frozen"] = dir["frozen"] /\ dir'["out"] = dir["out"]
      /\ first'["frozen"] = first["frozen"] /\ first'["out"] = first["out"]
  OBVIOUS
<1>4. dir'["v165"].made => Noticed(dir'["v165"].body)
  BY DEF Inv, Outputs
<1>5. QED BY <1>1, <1>2, <1>3, <1>4 DEF Inv, Outputs, Kept

LEMMA WritePartKeeps == ASSUME NEW p \in Procs, Parts \in Nat, Inv, WritePart(p) PROVE Inv'
<1> DEFINE d == D(p)
<1>1. PICK i \in 1..Parts :
        /\ \A k \in 1..(i - 1) : dir[d].parts[k] = job[p].run
        /\ Put(d, [dir[d] EXCEPT !.parts[i] = job[p].run])
        /\ GoTo(p, IF i = Parts THEN "seal" ELSE "part")
  BY Zenon DEF WritePart
<1> DEFINE s == IF i = Parts THEN "seal" ELSE "part"
           c == [dir[d] EXCEPT !.parts[i] = job[p].run]
<1>2. /\ job[p] \in Jobs /\ job[p].cmd \in {"run165", "propose", "project"}
      /\ job[p].run # 0 /\ job[p].run \in Nat /\ at[p] = "part" /\ s \in Steps
      /\ job \in [Procs -> Jobs] /\ at \in [Procs -> Steps]
      /\ dir \in [Names -> Contents] /\ first \in [Names -> Nat] /\ Types
      /\ \A q \in Procs : Local(q)
  BY DEF WritePart, Inv, Types, Local, Fits, FitsAt, Steps, Jobs
<1>3. Writes(p) /\ dir[d].made /\ first[d] = 0
  BY <1>2 DEF Writes, Local, Held
<1>4. /\ d \in {"v165", "cand", "stage"} /\ d \in Names
      /\ (d = "stage" <=> job[p].cmd = "project") /\ (d = "v165" <=> job[p].cmd = "run165")
  BY <1>2 DEF Target
<1>5. \A q \in Procs \ {p} : Writes(q) => D(q) # d
  BY <1>3 DEF Inv, Alone
<1>6. c \in Contents /\ c.made = dir[d].made /\ c.body = dir[d].body /\ c.sealed = dir[d].sealed
  <2>1. dir[d] \in Contents
    BY <1>2, <1>4
  <2>2. QED BY <1>2, <2>1 DEF Contents
<1>7. s = "seal" => \A k \in 1..Parts : c.parts[k] = job[p].run
  <2>1. dir[d] \in Contents
    BY <1>2, <1>4
  <2>2. QED BY <1>1, <2>1 DEF Contents
<1>8. Moves(p, s, job[p]) /\ dir' = [dir EXCEPT ![d] = c] /\ first' = [first EXCEPT ![d] = first[d]]
  BY <1>1, <1>2, <1>4 DEF Moves, WritePart
<1>9. at'[p] = s /\ job'[p] = job[p] /\ dir'[d] = c /\ first'[d] = 0
  BY <1>1, <1>2, <1>3, <1>4, <1>8 DEF WritePart
<1> HIDE DEF c
<1>10. s \in {"seal", "part"}
  OBVIOUS
<1> HIDE DEF s
<1>11. Held(p)' /\ D(p)' = d
  BY <1>3, <1>6, <1>9 DEF Held
<1>12. Kept(job[p].body)' <=> Kept(job[p].body)
  BY <1>9 DEF Kept
<1>13. Local(p)'
  BY <1>2, <1>7, <1>9, <1>10, <1>11, <1>12 DEF Local, Fits, FitsAt, Carried, Written
<1> HIDE DEF d
<1>14. /\ Types' /\ \A q \in Procs : Local(q)'
       /\ \A q, r \in Procs : Alone(q, r)'
       /\ \A e \in Names \ {d} : dir'[e] = dir[e] /\ first'[e] = first[e]
  <2>1. first[d] \in Nat /\ UNCHANGED <<report, config, inputs, edits, runs>>
    BY <1>2, <1>4 DEF WritePart
  <2>2. job[p] \in Jobs /\ s \in Steps /\ d \in Names /\ d # "out" /\ (Writes(p)' => D(p)' = d)
    BY <1>2, <1>4, <1>11
  <2>3. QED BY <1>5, <1>6, <1>8, <1>13, <2>1, <2>2, Touches, ZenonT(60)
<1>15. Outputs'
  <2>1. d = "v165" => (dir'[d].made => Noticed(dir'[d].body))
    BY <1>6, <1>9 DEF Inv, Outputs
  <2>2. QED BY <1>3, <1>4, <1>9, <1>14, <2>1, Unfinished DEF WritePart
<1>16. QED BY <1>14, <1>15 DEF Inv

LEMMA SealKeeps == ASSUME NEW p \in Procs, Inv, Seal(p) PROVE Inv'
<1> DEFINE d == D(p)
           c == IF d = "acq" THEN Complete(job[p].run, job[p].body)
                ELSE [dir[d] EXCEPT !.sealed = job[p].run, !.body = job[p].body]
           n == IF first[d] = 0 /\ d # "stage" THEN job[p].run ELSE first[d]
           s == IF d = "stage" THEN "mark" ELSE "idle"
           j == IF d = "stage" THEN job[p] ELSE NoJob
<1>1. /\ job[p] \in Jobs /\ job[p].cmd \in {"discover", "run165", "propose", "project"}
      /\ job[p].run # 0 /\ job[p].run \in Nat /\ at[p] = "seal" /\ s \in Steps
      /\ job \in [Procs -> Jobs] /\ at \in [Procs -> Steps]
      /\ dir \in [Names -> Contents] /\ first \in [Names -> Nat] /\ Types
      /\ job[p].body \in Bodies /\ Local(p)
  BY DEF Seal, Inv, Types, Local, Fits, FitsAt, Steps, Jobs
<1>2. Writes(p) /\ dir[d].made /\ first[d] = 0
  BY <1>1 DEF Writes, Local, Held
<1>3. /\ d \in {"acq", "v165", "cand", "stage"} /\ d \in Names
      /\ (d = "stage" <=> job[p].cmd = "project") /\ (d = "v165" <=> job[p].cmd = "run165")
      /\ (d = "acq" <=> job[p].cmd = "discover")
  BY <1>1 DEF Target
<1>4. \A q \in Procs \ {p} : Writes(q) => D(q) # d
  BY <1>2 DEF Inv, Alone
<1>5. /\ c \in Contents /\ c.made = TRUE /\ c.sealed = job[p].run /\ c.body = job[p].body
      /\ \A k \in 1..Parts : c.parts[k] = job[p].run
  <2>1. CASE d = "acq"
    <3>1. c = Complete(job[p].run, job[p].body)
      BY <2>1
    <3> HIDE DEF c
    <3>2. job[p].run \in Nat /\ job[p].body \in Bodies
      BY <1>1
    <3>3. PICK r \in Nat, b \in Bodies : r = job[p].run /\ b = job[p].body
      BY <3>2
    <3>4. c = Complete(r, b)
      BY <3>1, <3>3
    <3>5. /\ Complete(r, b) \in Contents
          /\ Complete(r, b).made = TRUE /\ Complete(r, b).sealed = r
          /\ Complete(r, b).body = b /\ \A i \in 1..Parts : Complete(r, b).parts[i] = r
      BY CompleteType
    <3>6. QED BY <3>3, <3>4, <3>5
  <2>2. CASE d # "acq"
    <3>1. dir[d] \in Contents /\ dir[d].made = TRUE
      BY <1>1, <1>2, <1>3 DEF Contents
    <3> DEFINE c1 == [dir[d] EXCEPT !.sealed = job[p].run]
    <3>2. /\ c1 \in Contents /\ c1.made = TRUE /\ c1.sealed = job[p].run
          /\ c1.parts = dir[d].parts
      BY <1>1, <3>1 DEF Contents
    <3>3. c = [c1 EXCEPT !.body = job[p].body]
      BY <2>2
    <3>4. \A k \in 1..Parts : dir[d].parts[k] = job[p].run
      BY <1>1, <1>3, <2>2 DEF Local, Written
    <3> HIDE DEF c, c1
    <3>5. QED BY <1>1, <3>2, <3>3, <3>4 DEF Contents
  <2>3. QED BY <2>1, <2>2
<1>6. n \in Nat /\ j \in Jobs /\ n = (IF d = "stage" THEN 0 ELSE job[p].run)
  BY <1>1, <1>2, <1>3, NoJobType
<1>7. Moves(p, s, j) /\ dir' = [dir EXCEPT ![d] = c] /\ first' = [first EXCEPT ![d] = n]
  BY <1>1, <1>3 DEF Moves, Seal
<1> HIDE DEF c
<1> DEFINE ends == d # "stage"
<1>8. /\ ends => s = "idle" /\ j = NoJob
      /\ ~ ends => s = "mark" /\ j = job[p]
  OBVIOUS
<1> HIDE DEF s, j, n
<1>9. at'[p] = s /\ job'[p] = j /\ dir'[d] = c /\ first'[d] = n
  BY <1>1, <1>3, <1>6, <1>7, Moved
<1>10. Local(p)' /\ (Writes(p)' => D(p)' = d)
  <2>1. CASE ends
    BY <1>8, <1>9, <2>1 DEF NoJob, Local, Fits, FitsAt, Held, Writes, Carried, Written
  <2>2. CASE ~ ends
    <3>1. at'[p] = "mark" /\ job'[p] = job[p] /\ D(p)' = d /\ d = "stage" /\ job[p].cmd = "project"
      BY <1>3, <1>8, <1>9, <2>2
    <3>2. Kept(job[p].body)
      BY <1>1, <3>1 DEF Local, Carried
    <3>3. Whole("stage")' /\ dir'["stage"].sealed = job[p].run /\ Kept(dir["stage"].body)'
      <4>1. dir'["stage"] = c
        BY <1>9, <3>1
      <4>2. Whole("stage")' /\ dir'["stage"].sealed = job[p].run
        BY <1>1, <1>5, <3>1, <4>1 DEF Whole
      <4>3. Kept(dir["stage"].body)'
        <5>1. dir'["stage"].body = job[p].body
          BY <1>5, <4>1
        <5>2. QED BY <3>2, <5>1 DEF Kept
      <4>4. QED BY <4>2, <4>3
    <3>4. Held(p)'
      BY <1>5, <1>6, <1>9, <3>1 DEF Held
    <3>5. QED BY <1>1, <3>1, <3>3, <3>4 DEF Local, Fits, FitsAt, Carried, Written
  <2>3. QED BY <2>1, <2>2
<1> HIDE DEF d, ends
<1>11. /\ Types' /\ \A q \in Procs : Local(q)'
       /\ \A q, r \in Procs : Alone(q, r)'
       /\ \A e \in Names \ {d} : dir'[e] = dir[e] /\ first'[e] = first[e]
  <2>1. UNCHANGED <<report, config, inputs, edits, runs>>
    BY DEF Seal
  <2>2. s \in Steps /\ d \in Names /\ d # "out"
    BY <1>1, <1>3
  <2>3. QED BY <1>4, <1>5, <1>6, <1>7, <1>10, <2>1, <2>2, Inv, Touches, ZenonT(60)
<1>12. Outputs'
  <2>1. \A e \in Names : Settled(e)'
    BY <1>1, <1>3, <1>5, <1>6, <1>9, <1>11 DEF Inv, Outputs, Settled, Whole
  <2>2. first'["stage"] = 0
    BY <1>3, <1>6, <1>9, <1>11 DEF Inv, Outputs
  <2>3. dir'["frozen"] = dir["frozen"] /\ dir'["out"] = dir["out"]
        /\ first'["frozen"] = first["frozen"] /\ first'["out"] = first["out"]
    BY <1>3, <1>11
  <2>4. d = "v165" => Noticed(job[p].body)
    BY <1>1, <1>3 DEF Local, Carried
  <2>5. dir'["v165"].made => Noticed(dir'["v165"].body)
    BY <1>5, <1>9, <1>11, <2>4 DEF Inv, Outputs
  <2>6. report' = report
    BY DEF Seal
  <2>7. \A e \in {"frozen", "out"} : dir'[e].made => first'[e] # 0
    BY <2>3 DEF Inv, Outputs
  <2>8. dir'["frozen"].made => \A x \in dir'["frozen"].body.docs : x.good
    BY <2>3 DEF Inv, Outputs
  <2>9. dir'["out"].made => Kept(dir["out"].body)'
    BY <2>3 DEF Inv, Outputs, Kept
  <2>10. report # NoReport =>
           dir'["out"].made /\ report.run = dir'["out"].sealed /\ report.config = dir'["out"].body.named
    BY <2>3 DEF Inv, Outputs
  <2>11. QED BY <2>1, <2>2, <2>5, <2>6, <2>7, <2>8, <2>9, <2>10 DEF Outputs
<1>13. QED BY <1>11, <1>12 DEF Inv
LEMMA RenameFrozenKeeps == ASSUME NEW p \in Procs, Inv, RenameFrozen(p) PROVE Inv'
<1>1. CASE Raises(p)
  BY <1>1, Refuses
<1>2. CASE /\ ~ dir["frozen"].made
           /\ Put("frozen", Complete(job[p].run, job[p].body))
           /\ first' = [first EXCEPT !["frozen"] = IF @ = 0 THEN job[p].run ELSE @]
           /\ Ends(p) /\ World /\ Counts /\ UNCHANGED report
  <2>1. /\ job[p] \in Jobs /\ job[p].cmd = "freeze" /\ job[p].run # 0
        /\ dir \in [Names -> Contents] /\ first \in [Names -> Nat] /\ Types
        /\ \A x \in job[p].body.docs : x.good
    BY DEF RenameFrozen, Inv, Types, Local, Fits, FitsAt, Carried
  <2>2. PICK r \in Nat, b \in Bodies : r = job[p].run /\ b = job[p].body
    BY <2>1 DEF Jobs
  <2> DEFINE c == Complete(r, b)
  <2>3. /\ c \in Contents /\ c.made = TRUE /\ c.sealed = r /\ c.body = b
        /\ \A k \in 1..Parts : c.parts[k] = r
    BY CompleteType
  <2>4. first["frozen"] = 0
    BY <1>2, <2>1 DEF Inv, Outputs, Settled, Whole
  <2>5. /\ Moves(p, "idle", NoJob) /\ dir' = [dir EXCEPT !["frozen"] = c]
        /\ first' = [first EXCEPT !["frozen"] = r]
    BY <1>2, <2>1, <2>2, <2>4 DEF Moves
  <2> HIDE DEF c
  <2>6. "idle" \in Steps /\ NoJob \in Jobs /\ "frozen" \in Names
    BY NoJobType DEF Steps
  <2>7. at'[p] = "idle" /\ job'[p] = NoJob
    BY <2>1, <2>5, <2>6, Moved
  <2>8. Local(p)' /\ ~ Writes(p)'
    BY <2>7 DEF NoJob, Local, Fits, FitsAt, Held, Writes, Carried, Written
  <2>9. \A q \in Procs \ {p} : Writes(q) => D(q) \in Names \ {"frozen"}
    BY <2>1, WriterTargets DEF Inv, Local
  <2>10. UNCHANGED <<report, config, inputs, edits, runs>>
    BY <1>2
  <2>11. /\ Types' /\ \A q \in Procs : Local(q)'
         /\ \A q, x \in Procs : Alone(q, x)'
         /\ dir'["frozen"] = c /\ first'["frozen"] = r
         /\ \A e \in Names \ {"frozen"} : dir'[e] = dir[e] /\ first'[e] = first[e]
    <3>1. /\ dir'["frozen"] = c /\ first'["frozen"] = r
          /\ dir' \in [Names -> Contents] /\ first' \in [Names -> Nat]
          /\ \A e \in Names \ {"frozen"} : dir'[e] = dir[e] /\ first'[e] = first[e]
      BY <2>1, <2>3, <2>5, <2>6
    <3>2. /\ at' \in [Procs -> Steps] /\ job' \in [Procs -> Jobs]
          /\ \A q \in Procs \ {p} : at'[q] = at[q] /\ job'[q] = job[q]
      BY <2>1, <2>5, <2>6, Moved
    <3>3. Types'
      BY <2>1, <2>10, <3>1, <3>2 DEF Types
    <3>4. \A q \in Procs \ {p} : Local(q)' /\ (Writes(q)' <=> Writes(q)) /\ D(q)' = D(q)
      <4> SUFFICES ASSUME NEW q \in Procs \ {p} PROVE Local(q)' /\ (Writes(q)' <=> Writes(q)) /\ D(q)' = D(q)
        OBVIOUS
      <4>1. Writes(q) => dir'[D(q)] = dir[D(q)] /\ first'[D(q)] = first[D(q)]
        BY <2>9, <3>1
      <4>2. Revised /\ Types /\ Local(q) /\ dir'["out"] = dir["out"]
        BY <2>10, <3>1 DEF Inv, Types, Revised
      <4>3. QED BY <3>2, <4>1, <4>2, Stays
    <3>5. \A q, x \in Procs : Alone(q, x)'
      BY <2>8, <3>4 DEF Inv, Alone
    <3>6. QED BY <2>8, <3>1, <3>3, <3>4, <3>5
  <2>12. Outputs'
    <3>1. \A e \in Names : Settled(e)'
      BY <2>3, <2>11 DEF Inv, Outputs, Settled, Whole
    <3>2. /\ dir'["v165"] = dir["v165"] /\ dir'["out"] = dir["out"]
          /\ first'["stage"] = first["stage"] /\ first'["out"] = first["out"]
      BY <2>11
    <3>3. dir'["frozen"].made => \A x \in dir'["frozen"].body.docs : x.good
      BY <2>1, <2>2, <2>3, <2>11
    <3>4. first'["frozen"] # 0 /\ report' = report
      BY <2>1, <2>2, <2>10, <2>11
    <3>5. QED BY <3>1, <3>2, <3>3, <3>4 DEF Inv, Outputs, Kept
  <2>13. QED BY <2>11, <2>12 DEF Inv
<1>3. QED BY <1>1, <1>2 DEF RenameFrozen, Replaceable

LEMMA MarkKeeps == ASSUME NEW p \in Procs, Inv, Mark(p) PROVE Inv'
<1> DEFINE c == [dir["stage"] EXCEPT !.body.named = config]
           old == dir["stage"]
<1>1. /\ job[p] \in Jobs /\ job[p].cmd = "project" /\ job[p].run # 0 /\ at[p] = "mark"
      /\ job \in [Procs -> Jobs] /\ at \in [Procs -> Steps] /\ config \in Nat
      /\ dir \in [Names -> Contents] /\ first \in [Names -> Nat] /\ Types /\ Local(p)
      /\ old \in Contents /\ "rename" \in Steps
  BY DEF Mark, Inv, Types, Local, Fits, FitsAt, Steps
<1>2. Writes(p) /\ D(p) = "stage" /\ old.made /\ first["stage"] = 0
  BY <1>1 DEF Writes, Local, Held, Target
<1>3. \A q \in Procs \ {p} : Writes(q) => D(q) # "stage"
  BY <1>2 DEF Inv, Alone
<1>4. old.sealed = job[p].run /\ (\A k \in 1..Parts : old.parts[k] = job[p].run) /\ Kept(old.body)
  BY <1>1 DEF Local, Written, Whole
<1>5. c \in Contents
  BY <1>1, NamedUpdate
<1>6. /\ c.made = old.made /\ c.sealed = old.sealed /\ c.parts = old.parts
      /\ c.body = [old.body EXCEPT !.named = config]
  BY <1>1 DEF Contents
<1>7. Kept(c.body)
  <2>1. /\ c.body.accepted = old.body.accepted /\ c.body.was = old.body.was
        /\ c.body.ledger = old.body.ledger /\ c.body.events = old.body.events
    BY <1>1, <1>6 DEF Contents, Bodies
  <2> HIDE DEF c
  <2>2. QED BY <1>4, <2>1 DEF Kept
<1>8. /\ Moves(p, "rename", job[p]) /\ dir' = [dir EXCEPT !["stage"] = c]
      /\ first' = [first EXCEPT !["stage"] = first["stage"]]
  BY <1>1 DEF Moves, Mark
<1>9. at'[p] = "rename" /\ job'[p] = job[p] /\ dir'["stage"] = c /\ first'["stage"] = 0
  BY <1>1, <1>2, <1>8 DEF Mark
<1> HIDE DEF c, old
<1>10. Local(p)' /\ D(p)' = "stage"
  <2>1. Whole("stage")' /\ dir'["stage"].sealed = job[p].run
    BY <1>1, <1>2, <1>4, <1>6, <1>9 DEF Whole
  <2>2. Kept(dir["stage"].body)'
    BY <1>7, <1>9 DEF Kept
  <2>3. D(p)' = "stage" /\ Held(p)'
    BY <1>2, <1>6, <1>9 DEF Held
  <2>4. QED BY <1>1, <1>9, <2>1, <2>2, <2>3 DEF Local, Fits, FitsAt, Carried, Written
<1>11. /\ Types' /\ \A q \in Procs : Local(q)'
       /\ \A q, r \in Procs : Alone(q, r)'
       /\ \A e \in Names \ {"stage"} : dir'[e] = dir[e] /\ first'[e] = first[e]
  <2>1. first["stage"] \in Nat /\ UNCHANGED <<report, config, inputs, edits, runs>> /\ "stage" \in Names
    BY <1>1 DEF Mark
  <2>2. QED BY <1>1, <1>3, <1>5, <1>8, <1>10, <2>1, Inv, Touches, ZenonT(60)
<1>12. Outputs'
  BY <1>2, <1>9, <1>11, Inv, Unfinished DEF Mark
<1>13. QED BY <1>11, <1>12 DEF Inv

(* Two names change: the staging directory is gone and the output is what it was. *)
LEMMA RenameOutputKeeps == ASSUME NEW p \in Procs, Inv, RenameOutput(p) PROVE Inv'
<1>1. CASE Raises(p)
  BY <1>1, Refuses
<1>2. CASE /\ ~ dir["out"].made
           /\ dir' = [dir EXCEPT !["out"] = dir["stage"], !["stage"] = Nothing]
           /\ first' = [first EXCEPT !["out"] = IF @ = 0 THEN job[p].run ELSE @]
           /\ Ends(p) /\ World /\ Counts /\ UNCHANGED report
  <2> DEFINE c == dir["stage"]
  <2>1. /\ job[p] \in Jobs /\ job[p].cmd = "project" /\ job[p].run # 0 /\ job[p].run \in Nat
        /\ at[p] = "rename"
        /\ dir \in [Names -> Contents] /\ first \in [Names -> Nat] /\ Types /\ Local(p)
        /\ c \in Contents /\ NoJob \in Jobs /\ Nothing \in Contents /\ ~ Nothing.made
    BY NoJobType, NothingType DEF RenameOutput, Inv, Types, Local, Fits, FitsAt, Jobs
  <2>2. Writes(p) /\ D(p) = "stage" /\ first["stage"] = 0
    BY <2>1 DEF Writes, Target, Inv, Outputs
  <2>3. \A q \in Procs \ {p} : Writes(q) => D(q) \notin {"stage", "out"} /\ D(q) \in Names
    BY <2>1, <2>2, WriterTargets DEF Inv, Alone, Local
  <2>4. /\ c.made /\ c.sealed = job[p].run /\ (\A k \in 1..Parts : c.parts[k] = job[p].run)
        /\ Kept(c.body)
    BY <2>1 DEF Local, Written, Whole
  <2>5. first["out"] = 0
    BY <1>2 DEF Inv, Outputs, Settled, Whole
  <2>6. /\ dir'["out"] = c /\ dir'["stage"] = Nothing
        /\ \A e \in Names \ {"out", "stage"} : dir'[e] = dir[e]
        /\ dir' \in [Names -> Contents]
    BY <1>2, <2>1
  <2>7. /\ first'["out"] = job[p].run /\ first' \in [Names -> Nat]
        /\ \A e \in Names \ {"out"} : first'[e] = first[e]
    BY <1>2, <2>1, <2>5
  <2> HIDE DEF c
  <2>8. /\ at' \in [Procs -> Steps] /\ job' \in [Procs -> Jobs]
        /\ at'[p] = "idle" /\ job'[p] = NoJob
        /\ \A q \in Procs \ {p} : at'[q] = at[q] /\ job'[q] = job[q]
    BY <1>2, <2>1, Moved DEF Moves, Steps
  <2>9. Types'
    BY <1>2, <2>1, <2>6, <2>7, <2>8 DEF Types
  <2>10. Local(p)' /\ ~ Writes(p)'
    BY <2>8 DEF NoJob, Local, Fits, FitsAt, Held, Writes, Carried, Written
  <2>11. \A q \in Procs \ {p} : Local(q)' /\ (Writes(q)' <=> Writes(q)) /\ D(q)' = D(q)
    <3> SUFFICES ASSUME NEW q \in Procs \ {p} PROVE Local(q)' /\ (Writes(q)' <=> Writes(q)) /\ D(q)' = D(q)
      OBVIOUS
    <3>1. Writes(q) => dir'[D(q)] = dir[D(q)] /\ first'[D(q)] = first[D(q)]
      BY <2>3, <2>6, <2>7
    <3>2. Revised /\ Types /\ Local(q)
      BY <1>2 DEF Inv, Types, Revised
    <3>3. QED BY <1>2, <2>8, <3>1, <3>2, Stays
  <2>12. \A q, r \in Procs : Alone(q, r)'
    BY <2>10, <2>11 DEF Inv, Alone
  <2>13. Outputs'
    <3>1. \A e \in Names : Settled(e)'
      BY <2>2, <2>4, <2>6, <2>7 DEF Inv, Outputs, Settled, Whole
    <3>2. /\ dir'["v165"] = dir["v165"] /\ dir'["frozen"] = dir["frozen"]
          /\ first'["stage"] = 0 /\ first'["frozen"] = first["frozen"]
      BY <2>2, <2>6, <2>7
    <3>3. Kept(dir["out"].body)'
      BY <2>4, <2>6 DEF Kept
    <3>4. report' = NoReport
      BY <1>2 DEF Inv, Outputs
    <3>5. first'["out"] # 0
      BY <2>1, <2>7
    <3>6. QED BY <3>1, <3>2, <3>3, <3>4, <3>5 DEF Inv, Outputs, NoReport
  <2>14. QED BY <2>9, <2>10, <2>11, <2>12, <2>13 DEF Inv
<1>3. QED BY <1>1, <1>2 DEF RenameOutput, Replaceable
-----------------------------------------------------------------------------
(* The verifier, the candidates written by hand, and edits *)

LEMMA ReportKeeps == ASSUME NEW p \in Procs, Inv, Report(p) PROVE Inv'
<1>1. /\ Ends(p) /\ report' = [run |-> dir["out"].sealed, config |-> job[p].read]
      /\ UNCHANGED <<dir, first, config, inputs, edits, runs>>
  BY DEF Report
<1>2. dir["out"].made /\ dir["out"].body.named = job[p].read
  BY DEF Report, Inv, Local, Written
<1>3. /\ at' \in [Procs -> Steps] /\ job' \in [Procs -> Jobs]
      /\ at'[p] = "idle" /\ job'[p] = NoJob
      /\ \A q \in Procs \ {p} : at'[q] = at[q] /\ job'[q] = job[q]
  BY <1>1, NoJobType, Moved DEF Inv, Moves, Steps
<1>4. Types'
  <2>1. dir["out"].sealed \in Nat /\ job[p].read \in Nat
    BY DEF Inv, Types, Contents, Jobs
  <2>2. QED BY <1>1, <1>3, <2>1 DEF Inv, Types
<1>5. Local(p)' /\ ~ Writes(p)'
  BY <1>3 DEF NoJob, Local, Fits, FitsAt, Held, Writes, Carried, Written
<1>6. \A q \in Procs \ {p} : Local(q)' /\ (Writes(q)' <=> Writes(q)) /\ D(q)' = D(q)
  <2>1. Revised
    BY <1>1 DEF Inv, Types, Revised
  <2>2. QED BY <1>1, <1>3, <2>1, Stays DEF Inv
<1>7. \A q, r \in Procs : Alone(q, r)'
  BY <1>5, <1>6 DEF Inv, Alone
<1>8. Outputs'
  <2>1. /\ \A e \in Names : Settled(e)'
        /\ first'["stage"] = 0
        /\ \A e \in {"frozen", "out"} : dir'[e].made => first'[e] # 0
    BY <1>1 DEF Inv, Outputs, Settled, Whole
  <2>2. /\ dir'["frozen"].made => \A x \in dir'["frozen"].body.docs : x.good
        /\ dir'["v165"].made => Noticed(dir'["v165"].body)
        /\ dir'["out"].made => Kept(dir["out"].body)'
    BY <1>1 DEF Inv, Outputs, Kept
  <2>3. dir'["out"].made /\ report'.run = dir'["out"].sealed /\ report'.config = dir'["out"].body.named
    BY <1>1, <1>2
  <2>4. QED BY <2>1, <2>2, <2>3 DEF Outputs
<1>9. QED BY <1>4, <1>5, <1>6, <1>7, <1>8 DEF Inv

(* A reviewer's directory is new: nobody is writing one under its name. *)
LEMMA HandBuiltKeeps == ASSUME Inv, HandBuilt PROVE Inv'
<1>1. PICK some \in SUBSET Proposals, l \in [Issues -> {"open", Earlier}] :
        dir' = [dir EXCEPT !["cand"] = Complete(runs + 1, [Empty EXCEPT !.proposals = some, !.ledger = l])]
  BY DEF HandBuilt
<1>2. /\ ~ dir["cand"].made /\ first' = [first EXCEPT !["cand"] = runs + 1] /\ runs' = runs + 1
      /\ UNCHANGED <<at, job, report, config, inputs, edits>>
      /\ runs \in Nat /\ dir \in [Names -> Contents] /\ first \in [Names -> Nat] /\ Types
  BY DEF HandBuilt, Inv, Types
<1> DEFINE b0 == [Empty EXCEPT !.proposals = some]
           b == [Empty EXCEPT !.proposals = some, !.ledger = l]
<1>3. b \in Bodies
  <2>1. l \in [Issues -> Resolutions]
    BY DEF Resolutions
  <2>2. b0 \in Bodies
    BY EmptyType DEF Bodies, Known
  <2>3. b = [b0 EXCEPT !.ledger = l]
    OBVIOUS
  <2> HIDE DEF b, b0
  <2>4. QED BY <2>1, <2>2, <2>3 DEF Bodies
<1> HIDE DEF b
<1>4. PICK r \in Nat : r = runs + 1 /\ r # 0
  BY <1>2
<1> DEFINE c == Complete(r, b)
<1>5. /\ c \in Contents /\ c.made = TRUE /\ c.sealed = r
      /\ \A k \in 1..Parts : c.parts[k] = r
  BY <1>3, CompleteType
<1>6. dir' = [dir EXCEPT !["cand"] = c]
  BY <1>1, <1>4 DEF b
<1> HIDE DEF c
<1>7. /\ dir'["cand"] = c /\ first'["cand"] = r
      /\ dir' \in [Names -> Contents] /\ first' \in [Names -> Nat]
      /\ \A e \in Names \ {"cand"} : dir'[e] = dir[e] /\ first'[e] = first[e]
  BY <1>2, <1>4, <1>5, <1>6
<1>8. Types'
  BY <1>2, <1>7 DEF Types
<1>9. \A q \in Procs : Local(q)' /\ (Writes(q)' <=> Writes(q)) /\ D(q)' = D(q)
  <2> SUFFICES ASSUME NEW q \in Procs PROVE Local(q)' /\ (Writes(q)' <=> Writes(q)) /\ D(q)' = D(q)
    OBVIOUS
  <2>1. Local(q)
    BY DEF Inv
  <2>2. Writes(q) => D(q) \in Names \ {"cand"}
    BY <1>2, <2>1, WriterTargets DEF Local, Held
  <2>3. Writes(q) => dir'[D(q)] = dir[D(q)] /\ first'[D(q)] = first[D(q)]
    BY <1>7, <2>2
  <2>4. Revised /\ dir'["out"] = dir["out"]
    BY <1>2, <1>7 DEF Types, Revised
  <2>5. QED BY <1>2, <2>1, <2>3, <2>4, Stays
<1>10. \A q, r2 \in Procs : Alone(q, r2)'
  BY <1>9 DEF Inv, Alone
<1>11. Outputs'
  <2>1. \A e \in Names : Settled(e)'
    BY <1>5, <1>7 DEF Inv, Outputs, Settled, Whole
  <2>2. /\ dir'["v165"] = dir["v165"] /\ dir'["out"] = dir["out"] /\ dir'["frozen"] = dir["frozen"]
        /\ first'["stage"] = first["stage"] /\ first'["out"] = first["out"]
        /\ first'["frozen"] = first["frozen"] /\ report' = report
    BY <1>2, <1>7
  <2>3. QED BY <2>1, <2>2 DEF Inv, Outputs, Kept
<1>12. QED BY <1>8, <1>9, <1>10, <1>11 DEF Inv

LEMMA EditKeeps == ASSUME MaxEvents \in Nat, Inv, Edit PROVE Inv'
<1>1. /\ UNCHANGED <<dir, report, at, job, runs, first>>
      /\ config' \in Nat \ {0} /\ Revised
  <2>1. \A r \in Revisions : r \in Nat \ {0}
    BY DEF Revisions
  <2>2. inputs \in Nat /\ edits \in Nat /\ config \in Nat \ {0}
    BY DEF Inv, Types
  <2>3. UNCHANGED <<dir, report, at, job, runs, first>>
    BY DEF Edit
  <2>4. \/ config' \in Revisions /\ inputs' = inputs /\ edits' = edits
        \/ inputs' \in Revisions /\ inputs' # inputs /\ edits' = edits + 1 /\ config' = config
        \/ config' = config /\ inputs' = inputs /\ edits' = edits
    BY Zenon DEF Edit
  <2>5. Revised
    BY <2>1, <2>2, <2>4 DEF Revised
  <2>6. config' \in Nat \ {0}
    BY <2>1, <2>2, <2>4
  <2>7. QED BY <2>3, <2>5, <2>6
<1>2. Types'
  BY <1>1 DEF Inv, Types, Revised
<1>3. \A q \in Procs : Local(q)' /\ (Writes(q)' <=> Writes(q)) /\ D(q)' = D(q)
  BY <1>1, Stays DEF Inv
<1>4. \A q, r \in Procs : Alone(q, r)'
  BY <1>3 DEF Inv, Alone
<1>5. Outputs'
  BY <1>1 DEF Inv, Outputs, Settled, Whole, Kept
<1>6. QED BY <1>2, <1>3, <1>4, <1>5 DEF Inv

LEMMA StutterKeeps == ASSUME Inv, UNCHANGED evidence PROVE Inv'
<1>1. /\ UNCHANGED <<dir, report, at, job, runs, first, config, inputs, edits>>
      /\ Revised
  BY DEF evidence, Inv, Types, Revised
<1>2. Types'
  BY <1>1 DEF Inv, Types
<1>3. \A q \in Procs : Local(q)' /\ (Writes(q)' <=> Writes(q)) /\ D(q)' = D(q)
  BY <1>1, Stays DEF Inv
<1>4. \A q, r \in Procs : Alone(q, r)'
  BY <1>3 DEF Inv, Alone
<1>5. Outputs'
  BY <1>1 DEF Inv, Outputs, Settled, Whole, Kept
<1>6. QED BY <1>2, <1>3, <1>4, <1>5 DEF Inv

-----------------------------------------------------------------------------
(* The result *)

LEMMA InitInv == ASSUME MaxRuns \in Nat, EvidenceInit PROVE Inv
<1>1. Types
  BY InitTypes
<1>2. ASSUME NEW p \in Procs PROVE Local(p) /\ ~ Writes(p)
  <2>1. at[p] = "idle" /\ job[p] = NoJob
    BY DEF EvidenceInit
  <2>2. QED BY <2>1 DEF NoJob, Local, Fits, FitsAt, Held, Writes, Carried, Written
<1>3. PICK there \in {{}, DOMAIN Before} :
        /\ dir = [d \in Names |-> IF d \in there THEN Before[d] ELSE Nothing]
        /\ first = [d \in Names |-> IF d \in there THEN MaxRuns + 1 ELSE 0]
  BY Zenon DEF EvidenceInit
<1>4. Outputs
  <2>1. CASE there = {}
    <3>1. \A d \in Names : ~ dir[d].made /\ first[d] = 0
      BY <1>3, <2>1, NothingType
    <3>2. QED BY <3>1 DEF Outputs, Settled, Whole, EvidenceInit
  <2>2. CASE there = DOMAIN Before
    <3>1. there = {"acq", "frozen", "v165"}
      BY <2>2 DEF Before
    <3>2. /\ \A d \in there : dir[d] = Before[d] /\ first[d] = MaxRuns + 1
          /\ \A d \in Names \ there : ~ dir[d].made /\ first[d] = 0
      BY <1>3, <3>1, NothingType
    <3>3. \A d \in there :
            /\ Before[d].made = TRUE /\ Before[d].sealed = MaxRuns + 1
            /\ \A k \in 1..Parts : Before[d].parts[k] = MaxRuns + 1
      BY <3>1 DEF Before, Complete
    <3>4. Before["frozen"].body.docs = {[source |-> s, good |-> TRUE] : s \in Sources}
      BY DEF Before, Complete, Empty
    <3>5. Before["v165"].body.inputs = Before["v165"].body.named
      BY DEF Before, Complete, Empty
    <3>6. \A d \in Names : Settled(d)
      BY <3>1, <3>2, <3>3 DEF Settled, Whole
    <3>7. report = NoReport
      BY DEF EvidenceInit
    <3>8. QED BY <3>1, <3>2, <3>4, <3>5, <3>6, <3>7 DEF Outputs, Noticed
  <2>3. QED BY <2>1, <2>2
<1>5. QED BY <1>1, <1>2, <1>4 DEF Inv, Alone

LEMMA NextInv ==
  ASSUME Parts \in Nat, MaxEvents \in Nat, Distinct, Inv, EvidenceNext \/ UNCHANGED evidence
  PROVE  Inv'
<1>1. ASSUME NEW p \in Procs, NEW cmd \in DOMAIN Entry, Start(p, cmd) PROVE Inv'
  BY <1>1, StartKeeps
<1>2. ASSUME NEW p \in Procs, Make(p) PROVE Inv'
  BY <1>2, MakeKeeps
<1>3. ASSUME NEW p \in Procs, WritePart(p) PROVE Inv'
  BY <1>3, WritePartKeeps
<1>4. ASSUME NEW p \in Procs, Seal(p) PROVE Inv'
  BY <1>4, SealKeeps
<1>5. ASSUME NEW p \in Procs, Fetch(p) PROVE Inv'
  BY <1>5, FetchKeeps
<1>6. ASSUME NEW p \in Procs, Copy(p) PROVE Inv'
  BY <1>6, CopyKeeps
<1>7. ASSUME NEW p \in Procs, RenameFrozen(p) PROVE Inv'
  BY <1>7, RenameFrozenKeeps
<1>8. ASSUME NEW p \in Procs, HashInputs(p) PROVE Inv'
  BY <1>8, HashInputsKeeps
<1>9. ASSUME NEW p \in Procs, Produce(p) PROVE Inv'
  BY <1>9, ProduceKeeps
<1>10. ASSUME NEW p \in Procs, Recheck(p) PROVE Inv'
  BY <1>10, RecheckKeeps
<1>11. ASSUME NEW p \in Procs, Propose(p) PROVE Inv'
  BY <1>11, ProposeKeeps
<1>12. ASSUME NEW p \in Procs, Accept(p) PROVE Inv'
  BY <1>12, AcceptKeeps
<1>13. ASSUME NEW p \in Procs, Refuse(p) PROVE Inv'
  BY <1>13, RefuseKeeps
<1>14. ASSUME NEW p \in Procs, LookForOutput(p) PROVE Inv'
  BY <1>14, LookForOutputKeeps
<1>15. ASSUME NEW p \in Procs, Mark(p) PROVE Inv'
  BY <1>15, MarkKeeps
<1>16. ASSUME NEW p \in Procs, RenameOutput(p) PROVE Inv'
  BY <1>16, RenameOutputKeeps
<1>17. ASSUME NEW p \in Procs, Verify(p) PROVE Inv'
  BY <1>17, VerifyKeeps
<1>18. ASSUME NEW p \in Procs, Report(p) PROVE Inv'
  BY <1>18, ReportKeeps
<1>19. ASSUME NEW p \in Procs, Die(p) PROVE Inv'
  BY <1>19, DieKeeps
<1>20. CASE HandBuilt
  BY <1>20, HandBuiltKeeps
<1>21. CASE Edit
  BY <1>21, EditKeeps
<1>22. CASE UNCHANGED evidence
  BY <1>22, StutterKeeps
<1>23. QED BY <1>1, <1>2, <1>3, <1>4, <1>5, <1>6, <1>7, <1>8, <1>9, <1>10, <1>11, <1>12, <1>13,
       <1>14, <1>15, <1>16, <1>17, <1>18, <1>19, <1>20, <1>21, <1>22 DEF EvidenceNext

LEMMA InvSound == ASSUME Inv PROVE EvidenceSound
<1>1. Stands
  BY DEF Inv, Outputs, Settled, Stands
<1>2. AllOrNothing
  BY DEF Inv, Outputs, Settled, AllOrNothing
<1>3. InputsKept
  BY DEF Inv, Outputs, Whole, InputsKept, Noticed
<1>4. ProjectionKept
  BY DEF Inv, Outputs, Kept, ProjectionKept
<1>5. PassHolds
  BY DEF Inv, Outputs, PassHolds
<1>6. QED BY <1>1, <1>2, <1>3, <1>4, <1>5 DEF EvidenceSound

(* An output of v165 or v166 that is complete stays what its first run left, whatever other
   runs of the command do and wherever one dies; a frozen corpus and a projection are there
   as a whole or not at all; the corpus has the bytes that were fetched; a v165 run used the
   inputs it lists, unless they were edited twice, there and back, while it ran; a committed projection resolves open issues by what one reviewer accepted and
   nothing else; and a verification that passed is of the projection that is there
   (v165_complete_record/cli.py, v166_evidence_completion/acquisition.py, pipeline.py and
   verifier.py). *)
THEOREM EvidenceIsSound == EvidenceSpec => []EvidenceSound
<1>1. EvidenceInit => Inv
  BY InitInv, EvidenceAssumption
<1>2. Inv /\ [EvidenceNext]_evidence => Inv'
  <2>1. Distinct
    BY EvidenceAssumption DEF Distinct, Known
  <2>2. QED BY <2>1, NextInv, EvidenceAssumption
<1>3. Inv => EvidenceSound
  BY InvSound
<1>4. QED BY <1>1, <1>2, <1>3, PTL DEF EvidenceSpec
=============================================================================
