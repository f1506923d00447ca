---------------------------- MODULE WebJobsProofs ----------------------------
(* Theorems about the jobs of the two web applications, Planning and ContentJobs, for any
   keys, budgets, callers, faults and restarts.

   Planning.  What is in memory only moves on: a row stays, a status that is terminal
   stays terminal, a cancellation stays, and no step makes a success of a row that is
   cancelled.  The file is what memory is, or was at an earlier write; so what a client was
   told, which is in both, stays in the file when a restart goes back to it.

   ContentJobs.  The primary key lets one caller insert a row, and that caller alone
   dispatches it; so the right to begin a job is in one place: with the caller, in the
   queue, or used. *)
EXTENDS MCWebJobs, TLAPS

----------------------------------------------------------------------------
(* Planning *)

Statuses == {"QUEUED", "RUNNING"} \cup Terminal
Places ==
  {"none", "start", "check", "lookup", "call", "store", "prior", "finish", "FAILED",
   "TIMED_OUT", "CANCELLED"}

(* How a ledger may follow the one in memory. *)
RowFollows(old, new) ==
  old # Nothing =>
    /\ new # Nothing
    /\ old.cancelled => new.cancelled
    /\ old.status \in Terminal => new.status \in Terminal
    /\ Barred(old) => ~ Succeeded(new)
Follows(l) == \A k \in Keys : RowFollows(mem.jobs[k], l.jobs[k])

(* The invariant: what clients know is in memory too, and what the file says of a
   cancellation memory does not contradict. *)
Told ==
  /\ \A k \in answered : mem.jobs[k] # Nothing
  /\ \A k \in polled : mem.jobs[k] # Nothing /\ mem.jobs[k].status \in Terminal
RowKept(f, m) ==
  f # Nothing =>
    /\ m # Nothing
    /\ f.cancelled => m.cancelled
    /\ f.status \in Terminal => m.status \in Terminal
    /\ Barred(f) => ~ Succeeded(m)
Behind == \A k \in Keys : RowKept(file.jobs[k], mem.jobs[k])
Known2 == TypeOK /\ Told /\ ToldIsKept /\ Behind

USE DEF Flush, FlushThrows, Write, TryWrite, Goto, WithStatus, Known, locals, ghosts, bounds

LEMMA RowUpdate ==
  ASSUME NEW l \in Ledgers, NEW k \in Keys, NEW row \in Rows
  PROVE  /\ [l EXCEPT !.jobs[k] = row] \in Ledgers
         /\ [l EXCEPT !.jobs[k] = row].jobs[k] = row
         /\ \A q \in Keys \ {k} : [l EXCEPT !.jobs[k] = row].jobs[q] = l.jobs[q]
BY DEF Ledgers

LEMMA FieldUpdates ==
  ASSUME NEW l \in Ledgers, NEW n \in Nat
  PROVE  /\ [l EXCEPT !.brief = n] \in Ledgers /\ [l EXCEPT !.brief = n].jobs = l.jobs
         /\ [l EXCEPT !.reserved = n] \in Ledgers /\ [l EXCEPT !.reserved = n].jobs = l.jobs
         /\ [l EXCEPT !.cached = TRUE] \in Ledgers /\ [l EXCEPT !.cached = TRUE].jobs = l.jobs
BY DEF Ledgers

LEMMA StatusUpdate ==
  ASSUME TypeOK, NEW k \in Keys, Known(k), NEW s \in Statuses
  PROVE  /\ WithStatus(k, s) \in Ledgers
         /\ WithStatus(k, s).jobs[k] = [status |-> s, cancelled |-> mem.jobs[k].cancelled]
         /\ \A q \in Keys \ {k} : WithStatus(k, s).jobs[q] = mem.jobs[q]
         /\ WithStatus(k, s).reserved = mem.reserved
<1>1. mem \in Ledgers /\ mem.jobs[k] \in Rows /\ mem.jobs \in [Keys -> Rows \cup {Nothing}]
  BY DEF TypeOK, Ledgers
<1> DEFINE row == [mem.jobs[k] EXCEPT !.status = s]
<1>2. row \in Rows /\ row = [status |-> s, cancelled |-> mem.jobs[k].cancelled]
  BY <1>1 DEF Rows, Statuses
<1>3. WithStatus(k, s) = [mem EXCEPT !.jobs[k] = row]
  OBVIOUS
<1> HIDE DEF row
<1>4. [mem EXCEPT !.jobs[k] = row].reserved = mem.reserved
  BY <1>1 DEF Ledgers
<1> HIDE DEF WithStatus
<1>5. PICK l \in Ledgers, r \in Rows : l = mem /\ r = row
  BY <1>1, <1>2
<1>6. /\ [l EXCEPT !.jobs[k] = r] \in Ledgers
      /\ [l EXCEPT !.jobs[k] = r].jobs[k] = r
      /\ \A q \in Keys \ {k} : [l EXCEPT !.jobs[k] = r].jobs[q] = l.jobs[q]
  BY RowUpdate
<1>7. QED BY <1>2, <1>3, <1>4, <1>5, <1>6

(* A status that the step may give. *)
LEMMA StatusFollows ==
  ASSUME TypeOK, NEW k \in Keys, Known(k), NEW s \in Statuses,
         mem.jobs[k].status \in Terminal => s \in Terminal,
         mem.jobs[k].cancelled /\ s = "SUCCEEDED" => mem.jobs[k].status = "SUCCEEDED"
  PROVE  Follows(WithStatus(k, s))
<1>1. \A q \in Keys : mem.jobs[q] = Nothing \/ mem.jobs[q] \in Rows
  BY DEF TypeOK, Ledgers
<1>2. RowFollows(mem.jobs[k], WithStatus(k, s).jobs[k])
  <2> DEFINE new == [status |-> s, cancelled |-> mem.jobs[k].cancelled]
  <2>1. new \in Rows
    BY <1>1 DEF Rows, Statuses
  <2>2. new # Nothing
    BY <2>1, NothingAssumption
  <2>3. RowFollows(mem.jobs[k], new)
    BY <2>2 DEF RowFollows, Barred, Succeeded
  <2>4. WithStatus(k, s).jobs[k] = new
    BY StatusUpdate
  <2>5. QED BY <2>3, <2>4
<1>3. \A q \in Keys \ {k} : RowFollows(mem.jobs[q], WithStatus(k, s).jobs[q])
  <2>1. \A q \in Keys \ {k} : WithStatus(k, s).jobs[q] = mem.jobs[q]
    BY StatusUpdate
  <2>2. QED BY <2>1 DEF RowFollows, Barred, Succeeded
<1>4. QED BY <1>2, <1>3 DEF Follows

LEMMA SameFollows == ASSUME NEW l, l.jobs = mem.jobs PROVE Follows(l)
BY DEF Follows, RowFollows, Barred, Succeeded

(* A step of the process, as opposed to its end. *)
Advances == mem' \in Ledgers /\ Follows(mem') /\ file' \in {mem', file}

LEMMA Goes ==
  ASSUME TypeOK, Advances, NEW k \in Keys, NEW l \in Places, run' = [run EXCEPT ![k] = l],
         l # "none" => mem'.jobs[k] # Nothing,
         attempts' \in [Keys -> Nat], prior' \in [Keys -> Nat],
         answered' \subseteq Keys, polled' \subseteq Keys, lost' \subseteq Keys,
         crashes' \in 0..MaxCrashes, faults' \in 0..MaxFaults
  PROVE  TypeOK'
<1>1. mem' \in Ledgers /\ file' \in Ledgers
  BY DEF TypeOK, Advances
<1>2. run' \in [Keys -> Places]
  BY DEF TypeOK, Places
<1>3. \A q \in Keys : run'[q] # "none" => Known(q)'
  BY DEF TypeOK, Advances, Follows, RowFollows
<1>4. QED BY <1>1, <1>2, <1>3 DEF TypeOK, Places

LEMMA Stays ==
  ASSUME TypeOK, Advances, UNCHANGED locals,
         answered' \subseteq Keys, polled' \subseteq Keys, lost' \subseteq Keys,
         crashes' \in 0..MaxCrashes, faults' \in 0..MaxFaults
  PROVE  TypeOK'
<1>1. mem' \in Ledgers /\ file' \in Ledgers
  BY DEF TypeOK, Advances
<1>2. \A q \in Keys : run'[q] # "none" => Known(q)'
  BY DEF TypeOK, Advances, Follows, RowFollows
<1>3. QED BY <1>1, <1>2 DEF TypeOK

LEMMA Unchanged == ASSUME TypeOK, mem' = mem, file' \in {mem', file} PROVE Advances
BY SameFollows DEF TypeOK, Advances

LEMMA Status ==
  ASSUME TypeOK, NEW k \in Keys, Known(k), NEW s \in Statuses, mem' = WithStatus(k, s), file' \in {mem', file},
         mem.jobs[k].status \in Terminal => s \in Terminal,
         mem.jobs[k].cancelled /\ s = "SUCCEEDED" => mem.jobs[k].status = "SUCCEEDED"
  PROVE  Advances /\ mem'.jobs[k] # Nothing
<1>1. WithStatus(k, s) \in Ledgers
  BY StatusUpdate
<1>2. Follows(WithStatus(k, s))
  BY StatusFollows
<1> HIDE DEF WithStatus
<1>3. QED BY <1>1, <1>2 DEF Advances, Follows, RowFollows, TypeOK

LEMMA FaultTypes ==
  ASSUME TypeOK, faults < MaxFaults, faults' = faults + 1 PROVE faults' \in 0..MaxFaults
BY BoundsAssumption DEF TypeOK

(* What the two kinds of write of a run leave. *)
LEMMA WriteTypes ==
  ASSUME TypeOK, NEW k \in Keys, NEW l, NEW next \in Places,
         Write(k, l, next) \/ TryWrite(k, l, next)
  PROVE  /\ mem' = l /\ file' \in {mem', file}
         /\ \E p \in Places : run' = [run EXCEPT ![k] = p]
         /\ lost' \subseteq Keys /\ crashes' \in 0..MaxCrashes /\ faults' \in 0..MaxFaults
<1>1. {"none", "check", "FAILED"} \subseteq Places
  BY DEF Places
<1>2. mem' = l /\ file' \in {mem', file} /\ lost' \subseteq Keys
  BY DEF TypeOK
<1>3. \E p \in Places : run' = [run EXCEPT ![k] = p]
  BY <1>1 DEF Loop
<1>4. crashes' \in 0..MaxCrashes /\ faults' \in 0..MaxFaults
  BY FaultTypes DEF TypeOK
<1>5. QED BY <1>2, <1>3, <1>4

LEMMA AdmitTypes == ASSUME TypeOK, NEW k \in Keys, Admit(k) PROVE TypeOK' /\ Advances
<1> DEFINE fresh == [status |-> "QUEUED", cancelled |-> FALSE]
           l == IF ~ Known(k) THEN [mem EXCEPT !.jobs[k] = fresh] ELSE mem
<1>1. fresh \in Rows /\ fresh # Nothing
  <2>1. fresh \in Rows
    BY DEF Rows
  <2> HIDE DEF fresh
  <2>2. QED BY <2>1, NothingAssumption
<1>2. mem \in Ledgers
  BY DEF TypeOK
<1> HIDE DEF fresh
<1>3. l \in Ledgers /\ Follows(l) /\ l.jobs[k] # Nothing
  <2>1. CASE Known(k)
    BY <1>2, <2>1, SameFollows
  <2>2. CASE ~ Known(k)
    <3>1. l = [mem EXCEPT !.jobs[k] = fresh]
      BY <2>2
    <3> HIDE DEF l
    <3>2. /\ l \in Ledgers /\ l.jobs[k] = fresh
          /\ \A q \in Keys \ {k} : l.jobs[q] = mem.jobs[q]
      BY <1>1, <1>2, <3>1, RowUpdate
    <3>3. \A q \in Keys : RowFollows(mem.jobs[q], l.jobs[q])
      BY <2>2, <3>2 DEF RowFollows, Barred, Succeeded
    <3>4. QED BY <1>1, <3>2, <3>3 DEF Follows
  <2>3. QED BY <2>1, <2>2
<1>4. mem' = l /\ file' \in {mem', file} /\ UNCHANGED <<attempts, prior, polled, crashes>>
  BY DEF Admit, fresh
<1>5. Advances
  BY <1>3, <1>4 DEF Advances
<1>6. answered' \subseteq Keys /\ lost' \subseteq Keys /\ faults' \in 0..MaxFaults
  BY FaultTypes DEF Admit, TypeOK
<1>7. CASE run' = [run EXCEPT ![k] = "start"]
  <2>1. "start" \in Places /\ mem'.jobs[k] # Nothing
    BY <1>3, <1>4 DEF Places
  <2>2. QED BY <1>4, <1>5, <1>6, <1>7, <2>1, Goes DEF TypeOK
<1>8. CASE run' = run
  BY <1>4, <1>5, <1>6, <1>8, Stays DEF TypeOK
<1>9. QED BY <1>5, <1>7, <1>8 DEF Admit

LEMMA StartTypes == ASSUME TypeOK, NEW k \in Keys, Start(k) PROVE TypeOK' /\ Advances
<1>1. /\ Known(k) /\ mem.jobs[k] \in Rows /\ run[k] = "start" /\ {"none", "check"} \subseteq Places
      /\ UNCHANGED <<attempts, prior, answered, polled>>
  BY DEF Start, TypeOK, Ledgers, Places
<1>2. ASSUME NEW l, NEW next \in Places, Write(k, l, next), l \in Ledgers, Follows(l)
      PROVE  TypeOK' /\ Advances
  <2>1. Advances
    BY <1>2, WriteTypes DEF Advances
  <2>2. mem'.jobs[k] # Nothing
    BY <1>1, <2>1 DEF Advances, Follows, RowFollows
  <2>3. PICK p \in Places : run' = [run EXCEPT ![k] = p]
    BY <1>2, WriteTypes
  <2>4. lost' \subseteq Keys /\ crashes' \in 0..MaxCrashes /\ faults' \in 0..MaxFaults
    BY <1>2, WriteTypes
  <2>5. QED BY <1>1, <2>1, <2>2, <2>3, <2>4, Goes DEF TypeOK
<1>3. ASSUME NEW s \in Statuses, Write(k, WithStatus(k, s), "none"),
             mem.jobs[k].status \in Terminal => s \in Terminal,
             mem.jobs[k].cancelled /\ s = "SUCCEEDED" => mem.jobs[k].status = "SUCCEEDED"
      PROVE  TypeOK' /\ Advances
  <2>1. WithStatus(k, s) \in Ledgers /\ Follows(WithStatus(k, s))
    BY <1>1, <1>3, StatusUpdate, StatusFollows
  <2> HIDE DEF WithStatus, Write
  <2>2. QED BY <1>1, <1>2, <1>3, <2>1
<1>4. CASE mem.jobs[k].cancelled
  <2>1. Write(k, WithStatus(k, "CANCELLED"), "none")
    BY <1>4 DEF Start
  <2> HIDE DEF WithStatus, Write
  <2>2. QED BY <1>3, <2>1 DEF Statuses, Terminal
<1>5. CASE ~ mem.jobs[k].cancelled /\ mem.jobs[k].status # "QUEUED"
  <2>1. Write(k, WithStatus(k, mem.jobs[k].status), "none") /\ mem.jobs[k].status \in Statuses
    BY <1>1, <1>5 DEF Start, Rows, Statuses
  <2> HIDE DEF WithStatus, Write
  <2>2. QED BY <1>3, <2>1
<1>6. CASE ~ mem.jobs[k].cancelled /\ mem.jobs[k].status = "QUEUED"
  <2> DEFINE n == mem.reserved + (IF Requests[k] < 2 THEN Requests[k] ELSE 2)
             l == WithStatus(k, "RUNNING")
  <2>1. CASE Requests[k] = 0 /\ mem.reserved > 0
    <3>1. Write(k, WithStatus(k, "BUDGET_EXHAUSTED"), "none")
      BY <1>6, <2>1 DEF Start
    <3> HIDE DEF WithStatus, Write
    <3>2. QED BY <1>3, <1>6, <3>1 DEF Statuses, Terminal
  <2>2. CASE ~ (Requests[k] = 0 /\ mem.reserved > 0)
    <3>1. n \in Nat
      BY RequestsAssumption DEF TypeOK, Ledgers
    <3>2. "RUNNING" \in Statuses /\ "QUEUED" \notin Terminal
      BY DEF Statuses, Terminal
    <3>3. l \in Ledgers /\ Follows(l) /\ l.reserved = mem.reserved
      BY <1>1, <1>6, <3>2, StatusUpdate, StatusFollows
    <3>4. Write(k, [WithStatus(k, "RUNNING") EXCEPT !.reserved = @ + (IF Requests[k] < 2 THEN Requests[k] ELSE 2)], "check")
      BY <1>6, <2>2 DEF Start
    <3> HIDE DEF WithStatus, Write
    <3>5. [WithStatus(k, "RUNNING") EXCEPT !.reserved = @ + (IF Requests[k] < 2 THEN Requests[k] ELSE 2)] = [l EXCEPT !.reserved = n]
      BY <3>3
    <3> HIDE DEF n, l
    <3>6. Write(k, [l EXCEPT !.reserved = n], "check")
      BY <3>4, <3>5
    <3>7. [l EXCEPT !.reserved = n] \in Ledgers /\ [l EXCEPT !.reserved = n].jobs = l.jobs
      BY <3>1, <3>3, FieldUpdates
    <3>8. Follows([l EXCEPT !.reserved = n])
      BY <3>3, <3>7 DEF Follows
    <3>9. QED BY <1>1, <1>2, <3>6, <3>7, <3>8
  <2>3. QED BY <2>1, <2>2
<1>7. QED BY <1>4, <1>5, <1>6

LEMMA CheckTypes == ASSUME TypeOK, NEW k \in Keys, Check(k) PROVE TypeOK' /\ Advances
<1>1. PICK l \in {"CANCELLED", "lookup", "TIMED_OUT"} : Write(k, mem, l)
  BY DEF Check
<1>2. l \in Places
  BY DEF Places
<1>3. mem' = mem /\ file' \in {mem', file}
  BY <1>1, <1>2, WriteTypes
<1>4. Advances
  BY <1>3, Unchanged
<1>5. PICK p \in Places : run' = [run EXCEPT ![k] = p]
  BY <1>1, <1>2, WriteTypes
<1>6. lost' \subseteq Keys /\ crashes' \in 0..MaxCrashes /\ faults' \in 0..MaxFaults
  BY <1>1, <1>2, WriteTypes
<1>7. attempts' \in [Keys -> Nat] /\ mem'.jobs[k] # Nothing /\ UNCHANGED <<prior, answered, polled>>
  BY <1>3 DEF Check, TypeOK
<1>8. QED BY <1>4, <1>5, <1>6, <1>7, Goes DEF TypeOK

LEMMA LookupTypes == ASSUME TypeOK, NEW k \in Keys, Lookup(k) PROVE TypeOK' /\ Advances
<1>1. PICK l \in {"prior", "call"} : TryWrite(k, mem, l)
  BY DEF Lookup
<1>2. l \in Places
  BY DEF Places
<1>3. mem' = mem /\ file' \in {mem', file}
  BY <1>1, <1>2, WriteTypes
<1>4. Advances
  BY <1>3, Unchanged
<1>5. PICK p \in Places : run' = [run EXCEPT ![k] = p]
  BY <1>1, <1>2, WriteTypes
<1>6. lost' \subseteq Keys /\ crashes' \in 0..MaxCrashes /\ faults' \in 0..MaxFaults
  BY <1>1, <1>2, WriteTypes
<1>7. mem'.jobs[k] # Nothing /\ UNCHANGED <<attempts, prior, answered, polled>>
  BY <1>3 DEF Lookup, TypeOK
<1>8. QED BY <1>4, <1>5, <1>6, <1>7, Goes DEF TypeOK

LEMMA AnswerTypes == ASSUME TypeOK, NEW k \in Keys, Answer(k) PROVE TypeOK' /\ Advances
<1>1. Advances
  BY Unchanged DEF Answer
<1>2. PICK l \in {"store", "check", "FAILED"} : run' = [run EXCEPT ![k] = l]
  BY DEF Answer, Loop
<1>3. l \in Places /\ mem'.jobs[k] # Nothing
  BY DEF Places, Answer, TypeOK
<1>4. QED BY <1>1, <1>2, <1>3, Goes DEF Answer, TypeOK, ghosts

LEMMA StoreTypes == ASSUME TypeOK, NEW k \in Keys, Store(k) PROVE TypeOK' /\ Advances
<1> DEFINE l == [mem EXCEPT !.cached = TRUE]
<1>1. TryWrite(k, l, "prior") /\ mem \in Ledgers /\ "prior" \in Places /\ Known(k)
  BY DEF Store, TypeOK, Places
<1> HIDE DEF TryWrite
<1>2. mem' = l /\ file' \in {mem', file}
  BY <1>1, WriteTypes
<1>3. mem' \in Ledgers /\ mem'.jobs = mem.jobs
  BY <1>1, <1>2, FieldUpdates
<1>4. Advances
  BY <1>2, <1>3, SameFollows DEF Advances
<1>5. PICK p \in Places : run' = [run EXCEPT ![k] = p]
  BY <1>1, WriteTypes
<1>6. lost' \subseteq Keys /\ crashes' \in 0..MaxCrashes /\ faults' \in 0..MaxFaults
  BY <1>1, WriteTypes
<1>7. mem'.jobs[k] # Nothing /\ UNCHANGED <<attempts, prior, answered, polled>>
  BY <1>1, <1>3 DEF Store
<1>8. QED BY <1>4, <1>5, <1>6, <1>7, Goes DEF TypeOK

LEMMA ReadPriorTypes == ASSUME TypeOK, NEW k \in Keys, ReadPrior(k) PROVE TypeOK' /\ Advances
<1>1. Advances
  BY Unchanged DEF ReadPrior
<1>2. PICK l \in {"finish", "check", "FAILED"} : run' = [run EXCEPT ![k] = l]
  BY DEF ReadPrior, Loop
<1>3. l \in Places /\ mem'.jobs[k] # Nothing
  BY DEF Places, ReadPrior, TypeOK
<1>4. prior' \in [Keys -> Nat]
  BY DEF ReadPrior, TypeOK, Ledgers
<1>5. QED BY <1>1, <1>2, <1>3, <1>4, Goes DEF ReadPrior, TypeOK, ghosts

LEMMA FinishTypes == ASSUME TypeOK, NEW k \in Keys, Finish(k) PROVE TypeOK' /\ Advances
<1>0. TryWrite(k, Outcome(k), "none") /\ "none" \in Places
  BY DEF Finish, Places
<1>1. /\ Known(k) /\ mem.jobs[k] \in Rows /\ mem' = Outcome(k) /\ file' \in {mem', file}
      /\ "CANCELLED" \in Statuses \cap Terminal /\ "SUCCEEDED" \in Statuses \cap Terminal
  BY <1>0 DEF Finish, TypeOK, Ledgers, Statuses, Terminal
<1>2. Advances /\ mem'.jobs[k] # Nothing
  <2>1. CASE mem.jobs[k].cancelled
    <3>1. mem' = WithStatus(k, "CANCELLED")
      BY <1>1, <2>1 DEF Outcome
    <3>2. QED BY <1>1, <3>1, Status
  <2>2. CASE ~ mem.jobs[k].cancelled
    <3> DEFINE l == WithStatus(k, "SUCCEEDED")
    <3>1. l \in Ledgers /\ Follows(l)
      BY <1>1, <2>2, StatusUpdate, StatusFollows
    <3>2. mem' = [l EXCEPT !.brief = prior[k] + 1] /\ prior[k] + 1 \in Nat
      BY <1>1, <2>2 DEF Outcome, Result, TypeOK
    <3> HIDE DEF l
    <3>3. mem' \in Ledgers /\ mem'.jobs = l.jobs
      BY <3>1, <3>2, FieldUpdates
    <3>4. QED BY <1>1, <3>1, <3>3 DEF Advances, Follows, RowFollows
  <2>3. QED BY <2>1, <2>2
<1> HIDE DEF TryWrite
<1>3. PICK p \in Places : run' = [run EXCEPT ![k] = p]
  BY <1>0, WriteTypes
<1>4. lost' \subseteq Keys /\ crashes' \in 0..MaxCrashes /\ faults' \in 0..MaxFaults
  BY <1>0, WriteTypes
<1>5. QED BY <1>2, <1>3, <1>4, Goes DEF Finish, TypeOK

LEMMA CloseTypes == ASSUME TypeOK, NEW k \in Keys, Close(k) PROVE TypeOK' /\ Advances
<1>0. Write(k, WithStatus(k, run[k]), "none") /\ "none" \in Places
  BY DEF Close, Places
<1>1. Known(k) /\ run[k] \in Statuses \cap Terminal /\ run[k] # "SUCCEEDED"
  BY DEF Close, TypeOK, Statuses, Terminal
<1> HIDE DEF Write, WithStatus
<1>2. mem' = WithStatus(k, run[k]) /\ file' \in {mem', file}
  BY <1>0, WriteTypes
<1>3. Advances /\ mem'.jobs[k] # Nothing
  BY <1>1, <1>2, Status
<1>4. PICK p \in Places : run' = [run EXCEPT ![k] = p]
  BY <1>0, WriteTypes
<1>5. lost' \subseteq Keys /\ crashes' \in 0..MaxCrashes /\ faults' \in 0..MaxFaults
  BY <1>0, WriteTypes
<1>6. QED BY <1>3, <1>4, <1>5, Goes DEF Close, TypeOK

LEMMA CancelTypes == ASSUME TypeOK, NEW k \in Keys, Cancel(k) PROVE TypeOK' /\ Advances
<1> DEFINE row == [cancelled |-> TRUE,
                   status |-> IF mem.jobs[k].status \in {"QUEUED", "RUNNING"} THEN "CANCELLED"
                              ELSE mem.jobs[k].status]
           l == [mem EXCEPT !.jobs[k] = row]
<1>1. mem \in Ledgers /\ mem.jobs[k] \in Rows /\ mem.jobs[k] # Nothing
  BY DEF Cancel, TypeOK, Ledgers
<1>2. row \in Rows /\ row.cancelled = TRUE
  BY <1>1 DEF Rows, Terminal
<1>3. /\ mem.jobs[k].status \in Terminal => row.status = mem.jobs[k].status
      /\ mem.jobs[k].status # "SUCCEEDED" => row.status # "SUCCEEDED"
  BY <1>1 DEF Terminal
<1>4. mem' = l /\ file' \in {mem', file} /\ crashes' = crashes
  BY DEF Cancel
<1> HIDE DEF row
<1>5. row # Nothing
  BY <1>2, NothingAssumption
<1>6. RowFollows(mem.jobs[k], row)
  BY <1>1, <1>2, <1>3, <1>5 DEF RowFollows, Barred, Succeeded
<1>7. /\ l \in Ledgers /\ l.jobs[k] = row
      /\ \A q \in Keys \ {k} : l.jobs[q] = mem.jobs[q]
  BY <1>1, <1>2, RowUpdate
<1> HIDE DEF l
<1>8. \A q \in Keys : RowFollows(mem.jobs[q], l.jobs[q])
  BY <1>6, <1>7 DEF RowFollows, Barred, Succeeded
<1>9. Advances
  BY <1>4, <1>7, <1>8 DEF Advances, Follows
<1>10. crashes' \in 0..MaxCrashes /\ faults' \in 0..MaxFaults
  BY FaultTypes DEF Cancel, TypeOK
<1>11. QED BY <1>9, <1>10, Stays DEF Cancel, TypeOK, ghosts

LEMMA PollTypes == ASSUME TypeOK, NEW k \in Keys, Poll(k) PROVE TypeOK' /\ Advances
<1>1. Advances
  BY Unchanged DEF Poll
<1>2. QED BY <1>1, Stays DEF Poll, TypeOK

LEMMA ReviseTypes == ASSUME TypeOK, Revise PROVE TypeOK' /\ Advances
<1>1. mem' = [mem EXCEPT !.brief = mem.brief + 1] /\ file' \in {mem', file} /\ mem \in Ledgers
  BY DEF Revise, TypeOK
<1>2. mem.brief + 1 \in Nat
  BY <1>1 DEF Ledgers
<1>3. mem' \in Ledgers /\ mem'.jobs = mem.jobs
  BY <1>1, <1>2, FieldUpdates
<1>4. Advances
  BY <1>1, <1>3, SameFollows DEF Advances
<1>5. crashes' \in 0..MaxCrashes /\ faults' \in 0..MaxFaults
  BY FaultTypes DEF Revise, TypeOK
<1>6. QED BY <1>4, <1>5, Stays DEF Revise, TypeOK, ghosts

LEMMA CrashTypes == ASSUME TypeOK, Crash PROVE TypeOK'
BY BoundsAssumption DEF Crash, Open, TypeOK

LEMMA InitTypes == ASSUME Init PROVE TypeOK
<1>1. mem \in Ledgers
  BY DEF Init, Ledgers
<1>2. QED BY <1>1, BoundsAssumption DEF Init, TypeOK

----------------------------------------------------------------------------
(* What clients were told *)

CancelKept ==
  \A k \in Keys :
    /\ Barred(file.jobs[k]) => ~ Succeeded(file'.jobs[k])
    /\ Barred(mem.jobs[k]) => ~ Succeeded(mem'.jobs[k]) \/ mem' = file

(* A step of the process tells only what it has written. *)
LEMMA AdvanceKeeps ==
  ASSUME Known2, TypeOK', Advances,
         \A k \in answered' : k \in answered \/ (mem'.jobs[k] # Nothing /\ file' = mem'),
         \A k \in polled' :
           \/ k \in polled
           \/ mem'.jobs[k] # Nothing /\ mem'.jobs[k].status \in Terminal /\ file' = mem'
  PROVE  Known2' /\ CancelKept
<1>1. \A k \in Keys : RowKept(file.jobs[k], mem.jobs[k]) /\ RowFollows(mem.jobs[k], mem'.jobs[k])
  BY DEF Known2, Behind, Advances, Follows
<1>2. answered' \subseteq Keys /\ polled' \subseteq Keys
  BY DEF TypeOK
<1>3. Told'
  BY <1>1, <1>2 DEF Known2, Told, RowFollows
<1>4. ToldIsKept'
  <2>1. CASE file' = mem'
    BY <1>3, <2>1 DEF Told, ToldIsKept
  <2>2. CASE file' = file /\ file' # mem'
    BY <2>2 DEF Known2, ToldIsKept
  <2>3. QED BY <2>1, <2>2 DEF Advances
<1>5. Behind'
  <2> SUFFICES ASSUME NEW k \in Keys PROVE RowKept(file'.jobs[k], mem'.jobs[k])
    BY DEF Behind
  <2>1. CASE file' = mem'
    BY <2>1 DEF RowKept, Barred, Succeeded
  <2>2. CASE file' = file
    BY <1>1, <2>2 DEF RowKept, RowFollows, Barred, Succeeded
  <2>3. QED BY <2>1, <2>2 DEF Advances
<1>6. CancelKept
  <2> SUFFICES ASSUME NEW k \in Keys
               PROVE  /\ Barred(file.jobs[k]) => ~ Succeeded(file'.jobs[k])
                      /\ Barred(mem.jobs[k]) => ~ Succeeded(mem'.jobs[k])
    BY DEF CancelKept
  <2>1. Barred(mem.jobs[k]) => ~ Succeeded(mem'.jobs[k])
    BY <1>1 DEF RowFollows, Barred
  <2>2. ASSUME Barred(file.jobs[k]) PROVE ~ Succeeded(file'.jobs[k])
    <3>1. CASE file' = file
      BY <2>2, <3>1 DEF Barred, Succeeded
    <3>2. CASE file' = mem'
      BY <1>1, <2>1, <2>2, <3>2 DEF RowKept, Barred, Succeeded
    <3>3. QED BY <3>1, <3>2 DEF Advances
  <2>3. QED BY <2>1, <2>2
<1>7. QED BY <1>3, <1>4, <1>5, <1>6 DEF Known2

LEMMA InitTold == ASSUME Init PROVE Known2
BY InitTypes DEF Init, Known2, Told, ToldIsKept, Behind, RowKept

LEMMA NextTold == ASSUME Known2, [Next]_vars PROVE Known2' /\ CancelKept
<1>1. TypeOK
  BY DEF Known2
<1>2. ASSUME NEW k \in Keys, Run(k) PROVE Known2' /\ CancelKept
  <2>1. TypeOK' /\ Advances
    BY <1>1, <1>2, StartTypes, CheckTypes, LookupTypes, AnswerTypes, StoreTypes, ReadPriorTypes,
       FinishTypes, CloseTypes DEF Run
  <2>2. UNCHANGED <<answered, polled>>
    BY <1>2 DEF Run, Start, Check, Lookup, Answer, Store, ReadPrior, Finish, Close
  <2>3. QED BY <2>1, <2>2, AdvanceKeeps
<1>3. ASSUME NEW k \in Keys, Admit(k) PROVE Known2' /\ CancelKept
  <2>1. TypeOK' /\ Advances
    BY <1>1, <1>3, AdmitTypes
  <2>2. answered' = answered \/ (answered' = answered \cup {k} /\ file' = mem' /\ mem'.jobs[k] # Nothing)
    <3>1. CASE answered' = answered \cup {k}
      <4>1. CASE Known(k)
        BY <1>1, <2>1, <3>1, <4>1, <1>3 DEF Admit, Advances, Follows, RowFollows
      <4>2. CASE ~ Known(k)
        <5> DEFINE fresh == [status |-> "QUEUED", cancelled |-> FALSE]
        <5>1. fresh \in Rows
          BY DEF Rows
        <5>2. CASE file' = mem' /\ mem' = [mem EXCEPT !.jobs[k] = fresh]
          <6> HIDE DEF fresh
          <6>1. mem'.jobs[k] = fresh
            BY <1>1, <5>1, <5>2, RowUpdate DEF TypeOK
          <6>2. QED BY <3>1, <5>1, <5>2, <6>1, NothingAssumption
        <5>3. CASE answered' = answered
          BY <5>3
        <5>4. QED BY <4>2, <5>2, <5>3, <1>3 DEF Admit
      <4>3. QED BY <4>1, <4>2
    <3>2. QED BY <3>1, <1>3 DEF Admit
  <2>3. polled' = polled
    BY <1>3 DEF Admit
  <2>4. QED BY <2>1, <2>2, <2>3, AdvanceKeeps
<1>4. ASSUME NEW k \in Keys, Cancel(k) PROVE Known2' /\ CancelKept
  BY <1>1, <1>4, CancelTypes, AdvanceKeeps DEF Cancel, ghosts
<1>5. ASSUME NEW k \in Keys, Poll(k) PROVE Known2' /\ CancelKept
  <2>1. TypeOK' /\ Advances
    BY <1>1, <1>5, PollTypes
  <2>2. \A q \in polled' :
          q \in polled \/ (mem'.jobs[q] # Nothing /\ mem'.jobs[q].status \in Terminal /\ file' = mem')
    BY <1>5 DEF Poll
  <2>3. answered' = answered
    BY <1>5 DEF Poll
  <2>4. QED BY <2>1, <2>2, <2>3, AdvanceKeeps
<1>6. CASE Revise
  BY <1>1, <1>6, ReviseTypes, AdvanceKeeps DEF Revise, ghosts
<1>7. CASE Crash
  <2>1. TypeOK'
    BY <1>1, <1>7, CrashTypes
  <2>2. mem' = file /\ file' = file /\ UNCHANGED <<answered, polled>>
    BY <1>7 DEF Crash
  <2>3. Told' /\ ToldIsKept'
    BY <2>2 DEF Known2, ToldIsKept, Told
  <2>4. Behind'
    BY <2>2 DEF Behind, RowKept, Barred, Succeeded
  <2>5. CancelKept
    BY <2>2 DEF CancelKept, Barred, Succeeded
  <2>6. QED BY <2>1, <2>3, <2>4, <2>5 DEF Known2
<1>8. CASE UNCHANGED vars
  <2>1. TypeOK'
    BY <1>1, <1>8 DEF vars, ghosts, TypeOK
  <2>2. Advances
    BY <1>1, <1>8, Unchanged DEF vars
  <2>3. QED BY <1>8, <2>1, <2>2, AdvanceKeeps DEF vars, ghosts
<1>9. QED BY <1>2, <1>3, <1>4, <1>5, <1>6, <1>7, <1>8 DEF Next

(* The ledgers of memory and file are ledgers, and a run has a job to work on
   (planning/jobs.ts). *)
THEOREM TypeCorrect == Spec => []TypeOK
<1>1. Init => Known2
  BY InitTold
<1>2. Known2 /\ [Next]_vars => Known2'
  BY NextTold
<1>3. Known2 => TypeOK
  BY DEF Known2
<1>4. QED BY <1>1, <1>2, <1>3, PTL DEF Spec

(* A job a client has a receipt for is in the file, and one reported as ended is ended
   there, whatever write throws and whenever the process ends (planning/jobs.ts and
   planning/ledger.ts). *)
THEOREM ToldIsKeptHolds == Spec => []ToldIsKept
<1>1. Init => Known2
  BY InitTold
<1>2. Known2 /\ [Next]_vars => Known2'
  BY NextTold
<1>3. Known2 => ToldIsKept
  BY DEF Known2
<1>4. QED BY <1>1, <1>2, <1>3, PTL DEF Spec

(* A cancellation that is recorded stands against the result of a run that was under way
   (planning/jobs.ts). *)
THEOREM CancelStandsHolds == Spec => CancelStands
<1>1. Init => Known2
  BY InitTold
<1>2. Known2 /\ [Next]_vars => Known2' /\ CancelKept
  BY NextTold
<1>3. CancelKept <=>
        \A k \in Keys :
          /\ Barred(file.jobs[k]) => ~ Succeeded(file'.jobs[k])
          /\ Barred(mem.jobs[k]) => ~ Succeeded(mem'.jobs[k]) \/ mem' = file
  BY DEF CancelKept
<1>4. QED BY <1>1, <1>2, <1>3, PTL DEF Spec, CancelStands

----------------------------------------------------------------------------
(* ContentJobs *)

ContentPlaces ==
  {"none", "stop", "start", "check", "count", "article", "finish",
   "FAILED", "BUDGET_EXHAUSTED", "BLOCKED_INPUT"}
ContentTypes ==
  /\ jobs \in [Keys -> Content!Rows \cup {Nothing}]
  /\ pc \in [Callers -> {"idle", "insert", "dispatch"}]
  /\ \A c \in Callers : pc[c] # "idle" => mine[c] \in Keys
  /\ mine \in [Callers -> Keys \cup {Nothing}]
  /\ queue \subseteq Keys /\ raced \subseteq Keys
  /\ process \in [Keys -> ContentPlaces]
  /\ runs \in [Keys -> Nat]

(* Where the right to begin a job is. *)
Brings(c, k) == pc[c] = "dispatch" /\ mine[c] = k
OneRight ==
  /\ \A k \in Keys : jobs[k] = Nothing =>
       k \notin queue /\ runs[k] = 0 /\ \A c \in Callers : ~ Brings(c, k)
  /\ \A c \in Callers, k \in Keys : Brings(c, k) => k \notin queue /\ runs[k] = 0
  /\ \A c, d \in Callers, k \in Keys : Brings(c, k) /\ Brings(d, k) => c = d
  /\ \A k \in queue : runs[k] = 0
  /\ \A k \in Keys : runs[k] <= 1
  /\ \A k \in Keys : runs[k] = 0 => process[k] = "none"

Content2 == ContentTypes /\ OneRight /\ Content!CancelPrevents

USE DEF Content!Goto, Content!SetStatus, Content!locals, Content!ghosts

LEMMA InitContent == ASSUME Content!Init PROVE Content2
BY DEF Content!Init, Content2, ContentTypes, ContentPlaces, OneRight, Brings, Content!CancelPrevents

(* A step of the processor of k that leaves its row alone. *)
LEMMA Works ==
  ASSUME Content2, NEW k \in Keys, process[k] \notin {"none", "stop"}, NEW l \in ContentPlaces \ {"stop"},
         process' = [process EXCEPT ![k] = l], UNCHANGED <<jobs, queue, pc, mine, runs, raced>>
  PROVE  Content2'
<1>1. ContentTypes'
  BY DEF Content2, ContentTypes
<1>2. OneRight'
  BY DEF Content2, ContentTypes, OneRight, Brings
<1>3. Content!CancelPrevents'
  BY DEF Content2, ContentTypes, Content!CancelPrevents
<1>4. QED BY <1>1, <1>2, <1>3 DEF Content2

(* A step of the processor of k that gives its row a status. *)
LEMMA Sets ==
  ASSUME Content2, NEW k \in Keys, process[k] # "none", NEW l \in ContentPlaces \ {"stop"},
         NEW s \in {"RUNNING"} \cup Content!Terminal,
         s = "RUNNING" => process[k] # "stop",
         jobs' = [jobs EXCEPT ![k].status = s],
         process' = [process EXCEPT ![k] = l], UNCHANGED <<queue, pc, mine, runs, raced>>,
         process[k] = "stop" => l = "none"
  PROVE  Content2'
<1>1. jobs[k] # Nothing
  BY DEF Content2, OneRight
<1>2. jobs[k] \in Content!Rows
  BY <1>1 DEF Content2, ContentTypes
<1> DEFINE row == [jobs[k] EXCEPT !.status = s]
<1>3. row \in Content!Rows /\ row.status = s /\ row.cancelled = jobs[k].cancelled
  BY <1>2 DEF Content!Rows
<1>4. jobs' = [jobs EXCEPT ![k] = row]
  OBVIOUS
<1> HIDE DEF row
<1>5. row # Nothing
  BY <1>3, NoRowAssumption
<1>6. ContentTypes'
  BY <1>3, <1>4 DEF Content2, ContentTypes
<1>7. OneRight'
  BY <1>1, <1>4, <1>5 DEF Content2, ContentTypes, OneRight, Brings
<1>8. Content!CancelPrevents'
  <2> SUFFICES ASSUME NEW q \in Keys, jobs'[q] # Nothing, jobs'[q].cancelled, q \notin raced
               PROVE  jobs'[q].status \in Content!Terminal /\ process'[q] \in {"none", "stop"}
    BY DEF Content!CancelPrevents
  <2>1. CASE q = k
    <3>1. jobs'[q] = row /\ process'[q] = l
      BY <1>4, <2>1 DEF Content2, ContentTypes
    <3>2. process[k] = "stop"
      BY <1>1, <1>3, <2>1, <3>1 DEF Content2, Content!CancelPrevents
    <3>3. QED BY <1>3, <3>1, <3>2
  <2>2. CASE q # k
    BY <1>4, <2>2 DEF Content2, ContentTypes, Content!CancelPrevents
  <2>3. QED BY <2>1, <2>2
<1>9. QED BY <1>6, <1>7, <1>8 DEF Content2

LEMMA AdmitContent == ASSUME Content2, NEW c \in Callers, NEW k \in Keys, Content!Admit(c, k) PROVE Content2'
<1>1. ContentTypes'
  BY DEF Content2, ContentTypes, Content!Admit
<1>2. OneRight'
  BY DEF Content2, ContentTypes, OneRight, Brings, Content!Admit
<1>3. Content!CancelPrevents'
  BY DEF Content2, Content!CancelPrevents, Content!Admit
<1>4. QED BY <1>1, <1>2, <1>3 DEF Content2

LEMMA InsertContent == ASSUME Content2, NEW c \in Callers, Content!InsertJob(c) PROVE Content2'
<1> DEFINE k == mine[c]
           fresh == [status |-> "QUEUED", cancelled |-> FALSE]
<1>1. k \in Keys /\ pc[c] = "insert"
  BY DEF Content2, ContentTypes, Content!InsertJob
<1>2. fresh \in Content!Rows /\ fresh.cancelled = FALSE
  BY DEF Content!Rows
<1> HIDE DEF fresh
<1>3. fresh # Nothing
  BY <1>2, NoRowAssumption
<1>4. CASE /\ jobs[k] = Nothing /\ jobs' = [jobs EXCEPT ![k] = fresh]
           /\ pc' = [pc EXCEPT ![c] = "dispatch"] /\ mine' = mine
  <2>1. UNCHANGED <<queue, process, runs, raced>>
    BY DEF Content!InsertJob
  <2> HIDE DEF k
  <2>2. ContentTypes'
    BY <1>1, <1>2, <1>4, <2>1 DEF Content2, ContentTypes, k
  <2>3. OneRight'
    BY <1>1, <1>3, <1>4, <2>1 DEF Content2, ContentTypes, OneRight, Brings, k
  <2>4. Content!CancelPrevents'
    BY <1>1, <1>2, <1>4, <2>1 DEF Content2, ContentTypes, Content!CancelPrevents
  <2>5. QED BY <2>2, <2>3, <2>4 DEF Content2
<1>5. CASE /\ pc' = [pc EXCEPT ![c] = "idle"] /\ mine' = [mine EXCEPT ![c] = Nothing] /\ jobs' = jobs
  <2>1. UNCHANGED <<queue, process, runs, raced>>
    BY DEF Content!InsertJob
  <2>2. ContentTypes'
    BY <1>5, <2>1 DEF Content2, ContentTypes
  <2>3. OneRight'
    BY <1>5, <2>1 DEF Content2, ContentTypes, OneRight, Brings
  <2>4. Content!CancelPrevents'
    BY <1>5, <2>1 DEF Content2, Content!CancelPrevents
  <2>5. QED BY <2>2, <2>3, <2>4 DEF Content2
<1>6. QED BY <1>4, <1>5 DEF Content!InsertJob, fresh

LEMMA DispatchContent == ASSUME Content2, NEW c \in Callers, Content!Dispatch(c) PROVE Content2'
<1>1. mine[c] \in Keys /\ Brings(c, mine[c])
  BY DEF Content2, ContentTypes, Content!Dispatch, Brings
<1>2. ContentTypes'
  BY <1>1 DEF Content2, ContentTypes, Content!Dispatch
<1>3. OneRight'
  BY <1>1 DEF Content2, ContentTypes, OneRight, Brings, Content!Dispatch
<1>4. Content!CancelPrevents'
  BY DEF Content2, Content!CancelPrevents, Content!Dispatch
<1>5. QED BY <1>2, <1>3, <1>4 DEF Content2

LEMMA ForsakeContent == ASSUME Content2, NEW c \in Callers, Content!Forsake(c) PROVE Content2'
<1>1. /\ pc' = [pc EXCEPT ![c] = "idle"] /\ mine' = [mine EXCEPT ![c] = Nothing]
      /\ UNCHANGED <<jobs, queue, process, runs, raced>>
  BY DEF Content!Forsake
<1>2. ContentTypes'
  BY <1>1 DEF Content2, ContentTypes
<1>3. OneRight'
  BY <1>1 DEF Content2, ContentTypes, OneRight, Brings
<1>4. Content!CancelPrevents'
  BY <1>1 DEF Content2, Content!CancelPrevents
<1>5. QED BY <1>2, <1>3, <1>4 DEF Content2

LEMMA BeginContent == ASSUME Content2, NEW k \in Keys, Content!Begin(k) PROVE Content2'
<1>1. /\ k \in queue /\ process[k] = "none" /\ queue' = queue \ {k} /\ runs' = [runs EXCEPT ![k] = @ + 1]
      /\ UNCHANGED <<jobs, pc, mine, raced>>
  BY DEF Content!Begin
<1>2. PICK l \in {"stop", "start", "none"} : process' = [process EXCEPT ![k] = l] /\ (jobs[k].cancelled => l = "stop")
  BY DEF Content!Begin, Content!Reads
<1>3. ContentTypes'
  BY <1>1, <1>2 DEF Content2, ContentTypes, ContentPlaces
<1>4. OneRight'
  BY <1>1, <1>2 DEF Content2, ContentTypes, OneRight, Brings
<1>5. Content!CancelPrevents'
  BY <1>1, <1>2 DEF Content2, ContentTypes, Content!CancelPrevents
<1>6. QED BY <1>3, <1>4, <1>5 DEF Content2

LEMMA EscapeContent == ASSUME Content2, NEW k \in Keys, Content!Escape(k) PROVE Content2'
<1>1. process' = [process EXCEPT ![k] = "none"] /\ UNCHANGED <<jobs, queue, pc, mine, runs, raced>>
  BY DEF Content!Escape
<1>2. ContentTypes'
  BY <1>1 DEF Content2, ContentTypes, ContentPlaces
<1>3. OneRight'
  BY <1>1 DEF Content2, ContentTypes, OneRight, Brings
<1>4. Content!CancelPrevents'
  BY <1>1 DEF Content2, ContentTypes, Content!CancelPrevents
<1>5. QED BY <1>2, <1>3, <1>4 DEF Content2

LEMMA ProcessContent == ASSUME Content2, NEW k \in Keys, Content!Process(k) PROVE Content2'
<1>1. CASE Content!Begin(k)
  BY <1>1, BeginContent
<1>2. CASE Content!Stop(k)
  BY <1>2, Sets DEF Content!Stop, ContentPlaces, Content!Terminal
<1>3. CASE Content!Start(k)
  <2>1. PICK l \in {"check", "finish"} : process' = [process EXCEPT ![k] = l]
    BY <1>3 DEF Content!Start
  <2>2. QED BY <1>3, <2>1, Sets DEF Content!Start, ContentPlaces
<1>4. CASE Content!Check(k)
  <2>1. PICK l \in {"FAILED", "BUDGET_EXHAUSTED", "BLOCKED_INPUT", "count"} : process' = [process EXCEPT ![k] = l]
    BY <1>4 DEF Content!Check
  <2>2. QED BY <1>4, <2>1, Works DEF Content!Check, ContentPlaces
<1>5. CASE Content!Count(k)
  BY <1>5, Works DEF Content!Count, ContentPlaces
<1>6. CASE Content!InsertArticle(k)
  BY <1>6, Works DEF Content!InsertArticle, ContentPlaces
<1>7. CASE Content!Throw(k)
  BY <1>7, Works DEF Content!Throw, Content!Inside, ContentPlaces
<1>10. CASE Content!Escape(k)
  BY <1>10, EscapeContent
<1>8. CASE Content!Finish(k)
  BY <1>8, Sets DEF Content!Finish, ContentPlaces, Content!Terminal
<1>9. CASE Content!Close(k)
  BY <1>9, Sets DEF Content!Close, ContentPlaces, Content!Terminal
<1>11. QED BY <1>1, <1>2, <1>3, <1>4, <1>5, <1>6, <1>7, <1>8, <1>9, <1>10 DEF Content!Process

LEMMA CancelContent == ASSUME Content2, NEW k \in Keys, Content!Cancel(k) PROVE Content2'
<1> DEFINE row == [cancelled |-> TRUE,
                   status |-> IF jobs[k].status \in Content!Terminal THEN jobs[k].status ELSE "CANCELLED"]
<1>1. /\ jobs[k] \in Content!Rows /\ jobs[k] # Nothing
      /\ jobs' = [jobs EXCEPT ![k] = row]
      /\ raced' = (IF process[k] # "none" /\ ~ jobs[k].cancelled THEN raced \cup {k} ELSE raced)
      /\ UNCHANGED <<queue, pc, mine, process, runs>>
  BY DEF Content!Cancel, Content2, ContentTypes
<1>2. row \in Content!Rows /\ row.status \in Content!Terminal
  BY <1>1 DEF Content!Rows, Content!Terminal
<1> HIDE DEF row
<1>3. row # Nothing
  BY <1>2, NoRowAssumption
<1>4. ContentTypes'
  BY <1>1, <1>2 DEF Content2, ContentTypes
<1>5. OneRight'
  BY <1>1, <1>3 DEF Content2, ContentTypes, OneRight, Brings
<1>6. Content!CancelPrevents'
  BY <1>1, <1>2 DEF Content2, ContentTypes, Content!CancelPrevents
<1>7. QED BY <1>4, <1>5, <1>6 DEF Content2

LEMMA CrashContent == ASSUME Content2, Content!Crash PROVE Content2'
<1>1. ContentTypes'
  BY DEF Content2, ContentTypes, ContentPlaces, Content!Crash
<1>2. OneRight'
  BY DEF Content2, ContentTypes, OneRight, Brings, Content!Crash
<1>3. Content!CancelPrevents'
  BY DEF Content2, ContentTypes, Content!CancelPrevents, Content!Crash
<1>4. QED BY <1>1, <1>2, <1>3 DEF Content2

LEMMA NextContent == ASSUME Content2, [Content!Next]_(Content!vars) PROVE Content2'
<1>1. ASSUME UNCHANGED <<jobs, queue, pc, mine, process, runs, raced>> PROVE Content2'
  BY <1>1 DEF Content2, ContentTypes, OneRight, Brings, Content!CancelPrevents
<1>2. ASSUME NEW r, Content!RevokeEvidence(r) PROVE Content2'
  BY <1>1, <1>2 DEF Content!RevokeEvidence
<1>3. CASE UNCHANGED Content!vars
  BY <1>1, <1>3 DEF Content!vars
<1>4. QED
  BY <1>2, <1>3, AdmitContent, InsertContent, DispatchContent, ForsakeContent, ProcessContent, CancelContent, CrashContent
  DEF Content!Next, Content!Submit

(* A content or planning job that was cancelled before its processor read it does no work,
   and a job is begun once at most, whatever submissions of its key meet and wherever the
   process ends; the ledgers of the planning service have their types meanwhile
   (vendor2/service.ts and queue.ts). *)
THEOREM WorkIsDoneOnce == Spec /\ Content!Spec => []NoWorkTwice
<1>1. Content!Init => Content2
  BY InitContent
<1>2. Content2 /\ [Content!Next]_(Content!vars) => Content2'
  BY NextContent
<1>3. Content2 /\ TypeOK => NoWorkTwice
  BY DEF Content2, OneRight, NoWorkTwice, Content!ProcessedOnce
<1>4. Content!Spec => []Content2
  BY <1>1, <1>2, PTL DEF Content!Spec
<1>5. QED BY <1>3, <1>4, TypeCorrect, PTL
=============================================================================
