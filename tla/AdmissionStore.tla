---------------------------- MODULE AdmissionStore ----------------------------
(***************************************************************************)
(* The store of machine admission (src/kf_pilot/machine_admission):        *)
(* commit, visible and revoke of storage.py, and the commands of           *)
(* pipeline.py that use them on one output directory: run, invalidate and  *)
(* read_current.                                                           *)
(*                                                                         *)
(* Granularity.  A file is written by `atomic` (temporary file, rename),   *)
(* so a process dies before or after each write.  transact reads and       *)
(* writes state.json under state.lock and is one step.  Locks are taken    *)
(* without waiting: a call that finds one taken raises (BUSY), and for     *)
(* state.lock that is possible whenever another process is about to        *)
(* transact.  The lock of a key is held through a whole commit.            *)
(*                                                                         *)
(* Abstractions.  A task key is the digest of its pins, and stands here    *)
(* for the set of pinned values.  A payload is named by the attempt that   *)
(* produced it.  HTML page, metrics, invariants and timestamps are left    *)
(* out, and so are files changed by anything but these programs.           *)
(***************************************************************************)
EXTENDS Integers, FiniteSets

CONSTANTS
  Workers,    \* processes, each running one command at a time
  Deps,       \* what may be pinned and revoked: source hashes, policy, ...
  Keys,       \* task keys, each the set of its pins
  RetryCap,   \* attempts per key, 2 in commit
  MaxCrashes, \* bound: process deaths in a behaviour
  Nobody, NoKey, NoDep

ASSUME KeysAssumption == Keys \subseteq SUBSET Deps
ASSUME RetryCapAssumption == RetryCap \in Nat \ {0}
ASSUME MaxCrashesAssumption == MaxCrashes \in Nat
ASSUME NullAssumption == Nobody \notin Workers /\ NoKey \notin Keys /\ NoDep \notin Deps

VARIABLES
  attempts, \* tasks[key].attempts in state.json
  state,    \* tasks[key].state, "NONE" before the row exists
  revoked,  \* revoked in state.json
  result,   \* runs/<key>/result.json: the attempt that wrote it, 0 if none
  marker,   \* runs/<key>/COMMITTED.json: the attempt whose hash it names
  preview,  \* preview.json: the key whose draft it shows
  info,     \* run.json: the key of the last run that was no replay
  holder,   \* the process with each key's lock
  pc,       \* per process: what it does next
  job,      \* the key it works on
  got,      \* the payload it has produced, 0 if it replays
  dep,      \* the dependency it invalidates
  before,   \* what was revoked when its read began
  crashes

tables == <<attempts, state, revoked>>
files  == <<result, marker, preview, info>>
locals == <<pc, job, got, dep, before>>
vars == <<tables, files, holder, locals, crashes>>

Init ==
  /\ attempts = [k \in Keys |-> 0]
  /\ state = [k \in Keys |-> "NONE"]
  /\ revoked = {}
  /\ result = [k \in Keys |-> 0]
  /\ marker = [k \in Keys |-> 0]
  /\ preview = NoKey
  /\ info = NoKey
  /\ holder = [k \in Keys |-> Nobody]
  /\ pc = [w \in Workers |-> "idle"]
  /\ job = [w \in Workers |-> NoKey]
  /\ got = [w \in Workers |-> 0]
  /\ dep = [w \in Workers |-> NoDep]
  /\ before = [w \in Workers |-> {}]
  /\ crashes = 0

(* The steps that transact, and those under the key's lock. *)
Transacting == {"start", "done", "seeRevoked", "info", "revoke", "readRevoked"}
Locked == {"check", "start", "produce", "mark", "done"}
Viewing == {"see", "seeResult", "read", "readResult"}
Steps ==
  Transacting \cup Locked \cup Viewing \cup {"idle", "lock", "show", "lookup", "blank", "compare"}

Goto(w, step) == pc' = [pc EXCEPT ![w] = step] /\ UNCHANGED <<job, got, dep, before>>

(* The command of w ends, with its result or an exception. *)
Rest(w) ==
  /\ pc' = [pc EXCEPT ![w] = "idle"]
  /\ job' = [job EXCEPT ![w] = NoKey]
  /\ got' = [got EXCEPT ![w] = 0]
  /\ dep' = [dep EXCEPT ![w] = NoDep]
  /\ before' = [before EXCEPT ![w] = {}]

(* The lock of w's key is released if w has it. *)
Unlock(w) ==
  holder' = [k \in Keys |-> IF holder[k] = w THEN Nobody ELSE holder[k]]

(* commit raises. *)
Leave(w) == Rest(w) /\ Unlock(w)

-----------------------------------------------------------------------------
(* run reads its inputs and computes pins and key. *)
RunBegin(w, k) ==
  /\ pc[w] = "idle"
  /\ pc' = [pc EXCEPT ![w] = "lock"]
  /\ job' = [job EXCEPT ![w] = k]
  /\ UNCHANGED <<tables, files, holder, got, dep, before, crashes>>

(* Mutant: the lock excludes nobody. *)
LockKeyShared(w) ==
  /\ pc[w] = "lock"
  /\ holder' = [holder EXCEPT ![job[w]] = w]
  /\ Goto(w, "check")
  /\ UNCHANGED <<tables, files, crashes>>

(* commit takes the lock of the key, or raises at once. *)
LockKey(w) ==
  /\ pc[w] = "lock"
  /\ holder[job[w]] = Nobody
  /\ holder' = [holder EXCEPT ![job[w]] = w]
  /\ Goto(w, "check")
  /\ UNCHANGED <<tables, files, crashes>>

KeyBusy(w) ==
  /\ pc[w] = "lock"
  /\ holder[job[w]] # Nobody
  /\ Rest(w)
  /\ UNCHANGED <<tables, files, holder, crashes>>

(* The marker is there: replay, unless the result is not the one it names. *)
Replay(w) ==
  /\ pc[w] = "check"
  /\ marker[job[w]] # 0
  /\ \/ result[job[w]] = marker[job[w]] /\ Goto(w, "done") /\ UNCHANGED holder
     \/ result[job[w]] # marker[job[w]] /\ Leave(w)
  /\ UNCHANGED <<tables, files, crashes>>

NoMarker(w) ==
  /\ pc[w] = "check"
  /\ marker[job[w]] = 0
  /\ Goto(w, "start")
  /\ UNCHANGED <<tables, files, holder, crashes>>

StartAttempt(w) ==
  /\ pc[w] = "start"
  /\ attempts[job[w]] < RetryCap
  /\ attempts' = [attempts EXCEPT ![job[w]] = @ + 1]
  /\ state' = [state EXCEPT ![job[w]] = "RUNNING"]
  /\ pc' = [pc EXCEPT ![w] = "produce"]
  /\ got' = [got EXCEPT ![w] = attempts[job[w]] + 1]
  /\ UNCHANGED <<revoked, files, holder, job, dep, before, crashes>>

(* TASK_RETRY_CAP *)
Capped(w) ==
  /\ pc[w] = "start"
  /\ attempts[job[w]] >= RetryCap
  /\ Leave(w)
  /\ UNCHANGED <<tables, files, crashes>>

(* produce raises; the attempt is spent. *)
ProduceFails(w) ==
  /\ pc[w] = "produce"
  /\ Leave(w)
  /\ UNCHANGED <<tables, files, crashes>>

(* Mutant: the result of an earlier attempt is kept. *)
WriteResultOnce(w) ==
  /\ pc[w] = "produce"
  /\ result' = [result EXCEPT ![job[w]] = IF @ = 0 THEN got[w] ELSE @]
  /\ Goto(w, "mark")
  /\ UNCHANGED <<tables, marker, preview, info, holder, crashes>>

WriteResult(w) ==
  /\ pc[w] = "produce"
  /\ result' = [result EXCEPT ![job[w]] = got[w]]
  /\ Goto(w, "mark")
  /\ UNCHANGED <<tables, marker, preview, info, holder, crashes>>

WriteMarker(w) ==
  /\ pc[w] = "mark"
  /\ marker' = [marker EXCEPT ![job[w]] = got[w]]
  /\ Goto(w, "done")
  /\ UNCHANGED <<tables, result, preview, info, holder, crashes>>

(* The task is DONE, now or again, and commit returns. *)
MarkDone(w) ==
  /\ pc[w] = "done"
  /\ state' = [state EXCEPT ![job[w]] = "DONE"]
  /\ Goto(w, "see")
  /\ Unlock(w)
  /\ UNCHANGED <<attempts, revoked, files, crashes>>

-----------------------------------------------------------------------------
(* visible, one step per look: is there a marker, is a pin revoked, is the
   result the one the marker names.  Otherwise the command ends. *)
Marked(w, from, to) ==
  /\ pc[w] = from
  /\ \/ marker[job[w]] # 0 /\ Goto(w, to)
     \/ marker[job[w]] = 0 /\ Rest(w)
  /\ UNCHANGED <<tables, files, holder, crashes>>

(* Mutant: revocations are not looked up. *)
StandsAny(k) == TRUE
Stands(k) == k \cap revoked = {}

Standing(w, from, to) ==
  /\ pc[w] = from
  /\ \/ Stands(job[w]) /\ Goto(w, to)
     \/ ~Stands(job[w]) /\ Rest(w)
  /\ UNCHANGED <<tables, files, holder, crashes>>

Named(w, from, to) ==
  /\ pc[w] = from
  /\ \/ result[job[w]] = marker[job[w]] /\ Goto(w, to)
     \/ result[job[w]] # marker[job[w]] /\ Rest(w)
  /\ UNCHANGED <<tables, files, holder, crashes>>

See(w) ==
  \/ Marked(w, "see", "seeRevoked")
  \/ Standing(w, "seeRevoked", "seeResult")
  \/ Named(w, "seeResult", "show")

(* run recomputes the draft and writes preview.json, ... *)
Show(w) ==
  /\ pc[w] = "show"
  /\ preview' = job[w]
  /\ Goto(w, "info")
  /\ UNCHANGED <<tables, result, marker, info, holder, crashes>>

(* ... reads the counters for its metrics, and writes run.json, or
   replay.json, which nobody reads. *)
WriteInfo(w) ==
  /\ pc[w] = "info"
  /\ info' = IF got[w] # 0 THEN job[w] ELSE info
  /\ Rest(w)
  /\ UNCHANGED <<tables, result, marker, preview, holder, crashes>>

-----------------------------------------------------------------------------
InvalidateBegin(w, d) ==
  /\ pc[w] = "idle"
  /\ pc' = [pc EXCEPT ![w] = "revoke"]
  /\ dep' = [dep EXCEPT ![w] = d]
  /\ UNCHANGED <<tables, files, holder, job, got, before, crashes>>

Revoke(w) ==
  /\ pc[w] = "revoke"
  /\ revoked' = revoked \cup {dep[w]}
  /\ Goto(w, "lookup")
  /\ UNCHANGED <<attempts, state, files, holder, crashes>>

(* run.json says whether the draft depends on it; without one it raises. *)
Lookup(w) ==
  /\ pc[w] = "lookup"
  /\ \/ info # NoKey /\ dep[w] \in info /\ Goto(w, "blank")
     \/ ~(info # NoKey /\ dep[w] \in info) /\ Rest(w)
  /\ UNCHANGED <<tables, files, holder, crashes>>

Blank(w) ==
  /\ pc[w] = "blank"
  /\ preview' = NoKey
  /\ Rest(w)
  /\ UNCHANGED <<tables, result, marker, info, holder, crashes>>

(* read_current: the key of run.json, visible, with the draft that belongs to
   it in preview.json; otherwise it raises. *)
ReadBegin(w) ==
  /\ pc[w] = "idle"
  /\ info # NoKey
  /\ pc' = [pc EXCEPT ![w] = "read"]
  /\ job' = [job EXCEPT ![w] = info]
  /\ before' = [before EXCEPT ![w] = revoked]
  /\ UNCHANGED <<tables, files, holder, got, dep, crashes>>

Read(w) ==
  \/ Marked(w, "read", "readRevoked")
  \/ Standing(w, "readRevoked", "readResult")
  \/ Named(w, "readResult", "compare")

Compare(w) ==
  /\ pc[w] = "compare"
  /\ Rest(w)
  /\ UNCHANGED <<tables, files, holder, crashes>>

-----------------------------------------------------------------------------
(* state.lock is taken: the command raises. *)
StateBusy(w) ==
  /\ pc[w] \in Transacting
  /\ \E v \in Workers \ {w} : pc[v] \in Transacting
  /\ Leave(w)
  /\ UNCHANGED <<tables, files, crashes>>

(* The process dies; the OS releases its lock. *)
Crash(w) ==
  /\ pc[w] # "idle"
  /\ crashes < MaxCrashes
  /\ crashes' = crashes + 1
  /\ Leave(w)
  /\ UNCHANGED <<tables, files>>

Next ==
  \E w \in Workers :
    \/ \E k \in Keys : RunBegin(w, k)
    \/ LockKey(w) \/ KeyBusy(w) \/ Replay(w) \/ NoMarker(w)
    \/ StartAttempt(w) \/ Capped(w) \/ ProduceFails(w)
    \/ WriteResult(w) \/ WriteMarker(w) \/ MarkDone(w)
    \/ See(w) \/ Show(w) \/ WriteInfo(w)
    \/ \E d \in Deps : InvalidateBegin(w, d)
    \/ Revoke(w) \/ Lookup(w) \/ Blank(w)
    \/ ReadBegin(w) \/ Read(w) \/ Compare(w)
    \/ StateBusy(w) \/ Crash(w)

Spec == Init /\ [][Next]_vars

-----------------------------------------------------------------------------
(* Type correctness, with the attempts of a key within the cap. *)
TypeOK ==
  /\ attempts \in [Keys -> 0..RetryCap]
  /\ state \in [Keys -> {"NONE", "RUNNING", "DONE"}]
  /\ revoked \subseteq Deps
  /\ result \in [Keys -> 0..RetryCap]
  /\ marker \in [Keys -> 0..RetryCap]
  /\ preview \in Keys \cup {NoKey}
  /\ info \in Keys \cup {NoKey}
  /\ holder \in [Keys -> Workers \cup {Nobody}]
  /\ pc \in [Workers -> Steps]
  /\ job \in [Workers -> Keys \cup {NoKey}]
  /\ got \in [Workers -> 0..RetryCap]
  /\ dep \in [Workers -> Deps \cup {NoDep}]
  /\ before \in [Workers -> SUBSET Deps]
  /\ crashes \in 0..MaxCrashes

(* Whatever dies, fails or is refused a lock in between, a marker names the
   result that is there, and a DONE task has a marker: neither replay nor
   visible ever finds its own files tampered with. *)
CommitIntact ==
  \A k \in Keys :
    /\ marker[k] # 0 => result[k] = marker[k]
    /\ state[k] = "DONE" => marker[k] # 0

(* read_current never hands out a package with a pin that was revoked when it
   was called, nor one without a commit. *)
ReadSound ==
  \A w \in Workers : pc[w] = "compare" =>
    /\ marker[job[w]] # 0
    /\ job[w] \cap before[w] = {}

(* The store keeps the promises of Commitments: at most RetryCap attempts of
   a key, the last one its result, and nothing after that. *)
Promise == INSTANCE Commitments WITH
  tries <- attempts, value <- marker, withdrawn <- revoked
ImplementsCommitments == Promise!Spec
=============================================================================
