----------------------------- MODULE AssetUploads -----------------------------
(***************************************************************************)
(* Uploads of the knowledge gateway (vendor4/app/main.py, store.py): start *)
(* and complete in the threads of one process, the two files each of them  *)
(* writes, and the restoration of the store when the process starts again. *)
(*                                                                         *)
(* Granularity.  persist_upload writes an upload's bytes, then its record, *)
(* each to a temporary file that is renamed over the last one.  Both       *)
(* temporary paths depend on the upload only, so two threads that complete *)
(* it share them: opening one truncates what the other has open, renaming  *)
(* it moves the file under the other's hand, and the second rename finds   *)
(* nothing.  Opening, writing and renaming are steps of their own; the     *)
(* dictionaries of the store are read or written in one.  restore_durable  *)
(* runs before any request, and to die in the middle of it and run it      *)
(* again comes to the same: it is part of the restart.                     *)
(*                                                                         *)
(* Abstractions.  An asset id is the digest of the bytes and stands here   *)
(* for the bytes.  URLs, times and sizes are left out, so is the refresh   *)
(* of a URL, and the assets of the fixtures.  A request that is refused    *)
(* changes nothing and is no step.                                         *)
(***************************************************************************)
EXTENDS Integers, FiniteSets

CONSTANTS
  Threads,
  Uploads,     \* upload ids, each drawn once
  Projects, Names, Contents,
  Asked,       \* what each upload was asked for
  MaxRestarts, \* bound
  NoUpload

ASSUME AskedAssumption ==
  Asked \in [Uploads -> [project : Projects, filename : Names, bytes : Contents]]
ASSUME MaxRestartsAssumption == MaxRestarts \in Nat
ASSUME NoUploadAssumption == NoUpload \notin Uploads

VARIABLES
  file,      \* the .bin and .json of each upload: absent, incomplete or whole
  tmp,       \* the same of their temporary files
  rec,       \* STORE.uploads: the state in the record, "none" if there is none
  blob,      \* STORE.blobs
  asset,     \* STORE.assets: the upload whose record an asset id leads to
  pc,        \* per thread: idle, or its place in persist_upload
  job,       \* the upload it works on
  value,     \* the state in the record it persists
  kind,      \* the file it is at
  hand,      \* where the file is that it has open
  drawn,     \* upload ids in use
  acked,     \* what the client was last told
  contested, \* uploads that two threads have been at, since both were idle
  torn,      \* uploads that were contested when the process stopped
  restarts

disk    == <<file, tmp>>
store   == <<rec, blob, asset>>
threads == <<pc, job, value, kind, hand>>
ghosts  == <<drawn, acked, contested, torn, restarts>>
vars == <<disk, store, threads, ghosts>>

Kinds == {"bin", "json"}
Acks == {"none", "PENDING", "VERIFIED"}
Whole == {"full", "PENDING", "VERIFIED"} \* contents of a file written to its end
Bytes(u) == Asked[u].bytes

Absent == [k \in Kinds |-> [u \in Uploads |-> "none"]]

Init ==
  /\ file = Absent /\ tmp = Absent
  /\ rec = [u \in Uploads |-> "none"]
  /\ blob = [u \in Uploads |-> "none"]
  /\ asset = [b \in Contents |-> NoUpload]
  /\ pc = [w \in Threads |-> "idle"]
  /\ job = [w \in Threads |-> NoUpload]
  /\ value = [w \in Threads |-> "none"]
  /\ kind = [w \in Threads |-> "bin"]
  /\ hand = [w \in Threads |-> "closed"]
  /\ drawn = {} /\ contested = {} /\ torn = {}
  /\ acked = [u \in Uploads |-> "none"]
  /\ restarts = 0

At(u) == {w \in Threads : job[w] = u}

(* w begins persist_upload. *)
Persist(w, u, state) ==
  /\ pc' = [pc EXCEPT ![w] = "open"]
  /\ job' = [job EXCEPT ![w] = u]
  /\ value' = [value EXCEPT ![w] = state]
  /\ kind' = [kind EXCEPT ![w] = "bin"]
  /\ contested' = IF At(u) = {} THEN contested ELSE contested \cup {u}
  /\ UNCHANGED hand

(* The request of w ends. *)
Finish(w) ==
  /\ pc' = [pc EXCEPT ![w] = "idle"]
  /\ job' = [job EXCEPT ![w] = NoUpload]
  /\ value' = [value EXCEPT ![w] = "none"]
  /\ kind' = [kind EXCEPT ![w] = "bin"]
  /\ contested' = IF At(job[w]) = {w} THEN contested \ {job[w]} ELSE contested
  /\ UNCHANGED hand

-----------------------------------------------------------------------------
(* The project has another file of this name; the project has these bytes. *)
Collision(u) ==
  \E b \in Contents \ {Bytes(u)} :
    /\ asset[b] # NoUpload
    /\ Asked[asset[b]].filename = Asked[u].filename
    /\ Asked[asset[b]].project = Asked[u].project

Duplicate(u) ==
  /\ asset[Bytes(u)] # NoUpload
  /\ Asked[asset[Bytes(u)]].project = Asked[u].project
  /\ rec[asset[Bytes(u)]] = "VERIFIED"

StartUpload(w, u) ==
  /\ pc[w] = "idle"
  /\ u \notin drawn
  /\ ~Collision(u) /\ ~Duplicate(u)
  /\ drawn' = drawn \cup {u}
  /\ Persist(w, u, "PENDING")
  /\ UNCHANGED <<disk, store, acked, torn, restarts>>

(* Mutant: the bytes are not checked. *)
CompleteUploadUnchecked(w, u) ==
  /\ pc[w] = "idle"
  /\ acked[u] # "none"
  /\ rec[u] # "none" /\ blob[u] # "none"
  /\ rec' = [rec EXCEPT ![u] = "VERIFIED"]
  /\ Persist(w, u, "VERIFIED")
  /\ UNCHANGED <<disk, blob, asset, drawn, acked, torn, restarts>>

(* The client knows the id; the bytes are there and have the digest.  The
   record says VERIFIED before it is persisted. *)
CompleteUpload(w, u) ==
  /\ pc[w] = "idle"
  /\ acked[u] # "none"
  /\ rec[u] # "none" /\ blob[u] = "full"
  /\ rec' = [rec EXCEPT ![u] = "VERIFIED"]
  /\ Persist(w, u, "VERIFIED")
  /\ UNCHANGED <<disk, blob, asset, drawn, acked, torn, restarts>>

-----------------------------------------------------------------------------
(* Open the temporary file: one that is there is truncated. *)
Open(w) ==
  /\ pc[w] = "open"
  /\ tmp' = [tmp EXCEPT ![kind[w]][job[w]] = "part"]
  /\ hand' = [hand EXCEPT ![w] = "tmp"]
  /\ pc' = [pc EXCEPT ![w] = "write"]
  /\ UNCHANGED <<file, store, job, value, kind, ghosts>>

Written(w) == IF kind[w] = "bin" THEN "full" ELSE value[w]

(* Write to the end and close, wherever the file is by now. *)
Write(w) ==
  /\ pc[w] = "write"
  /\ tmp' = IF hand[w] = "tmp" THEN [tmp EXCEPT ![kind[w]][job[w]] = Written(w)] ELSE tmp
  /\ file' = IF hand[w] = "file" THEN [file EXCEPT ![kind[w]][job[w]] = Written(w)] ELSE file
  /\ hand' = [hand EXCEPT ![w] = "closed"]
  /\ pc' = [pc EXCEPT ![w] = "rename"]
  /\ UNCHANGED <<store, job, value, kind, ghosts>>

(* Where an open file is after the temporary one of k and u was renamed. *)
Moved(v, k, u) ==
  IF job[v] = u /\ kind[v] = k
  THEN IF hand[v] = "tmp" THEN "file" ELSE IF hand[v] = "file" THEN "lost" ELSE hand[v]
  ELSE hand[v]

Rename(w) ==
  /\ pc[w] = "rename"
  /\ tmp[kind[w]][job[w]] # "none"
  /\ file' = [file EXCEPT ![kind[w]][job[w]] = tmp[kind[w]][job[w]]]
  /\ tmp' = [tmp EXCEPT ![kind[w]][job[w]] = "none"]
  /\ hand' = [v \in Threads |-> Moved(v, kind[w], job[w])]
  /\ pc' = [pc EXCEPT ![w] = IF kind[w] = "bin" THEN "open" ELSE "remember"]
  /\ kind' = [kind EXCEPT ![w] = "json"]
  /\ UNCHANGED <<store, job, value, ghosts>>

(* Another thread has renamed it: FileNotFoundError. *)
RenameFails(w) ==
  /\ pc[w] = "rename"
  /\ tmp[kind[w]][job[w]] = "none"
  /\ Finish(w)
  /\ UNCHANGED <<disk, store, drawn, acked, torn, restarts>>

(* The dictionaries are set and the client gets its answer. *)
Remember(w) ==
  /\ pc[w] = "remember"
  /\ blob' = [blob EXCEPT ![job[w]] = "full"]
  /\ rec' = IF value[w] = "PENDING" THEN [rec EXCEPT ![job[w]] = "PENDING"] ELSE rec
  /\ asset' = [asset EXCEPT ![Bytes(job[w])] = job[w]]
  /\ acked' = [acked EXCEPT ![job[w]] = value[w]]
  /\ Finish(w)
  /\ UNCHANGED <<disk, drawn, torn, restarts>>

-----------------------------------------------------------------------------
(* Mutant: what temporary files say is looked at last. *)
RestoredTmpLast(u) ==
  CASE \E k \in Kinds : tmp[k][u] # "none" -> "QUARANTINE_PARTIAL_WRITE"
    [] file["json"][u] = "none" -> "none"
    [] file["json"][u] = "part" -> "QUARANTINE_BAD_META"
    [] file["bin"][u] = "none" -> "QUARANTINE_MISSING_BLOB"
    [] file["bin"][u] = "part" -> "HASH_MISMATCH"
    [] OTHER -> file["json"][u]

(* The state restore_durable gives an upload: a record that can be read
   replaces the quarantine of a temporary file. *)
Restored(u) ==
  CASE file["json"][u] = "none" /\ \E k \in Kinds : tmp[k][u] # "none" -> "QUARANTINE_PARTIAL_WRITE"
    [] file["json"][u] = "none" /\ \A k \in Kinds : tmp[k][u] = "none" -> "none"
    [] file["json"][u] = "part" -> "QUARANTINE_BAD_META"
    [] file["json"][u] \in Whole /\ file["bin"][u] = "none" -> "QUARANTINE_MISSING_BLOB"
    [] file["json"][u] \in Whole /\ file["bin"][u] = "part" -> "HASH_MISMATCH"
    [] file["json"][u] \in Whole /\ file["bin"][u] = "full" -> file["json"][u]

(* Uploads whose record can be read, and are entered under their asset id in
   whatever order the directory lists them. *)
Readable == {u \in Uploads : file["json"][u] \in Whole}
Candidates(b) == {u \in Readable : Bytes(u) = b}

(* The process stops, at any point, and starts again. *)
Restart ==
  /\ restarts < MaxRestarts
  /\ restarts' = restarts + 1
  /\ rec' = [u \in Uploads |-> Restored(u)]
  /\ blob' = [u \in Uploads |-> IF u \in Readable THEN file["bin"][u] ELSE "none"]
  /\ \E choice \in [Contents -> Uploads \cup {NoUpload}] :
       /\ \A b \in Contents :
            IF Candidates(b) = {} THEN choice[b] = NoUpload ELSE choice[b] \in Candidates(b)
       /\ asset' = choice
  /\ tmp' = Absent
  /\ pc' = [w \in Threads |-> "idle"]
  /\ job' = [w \in Threads |-> NoUpload]
  /\ value' = [w \in Threads |-> "none"]
  /\ kind' = [w \in Threads |-> "bin"]
  /\ hand' = [w \in Threads |-> "closed"]
  /\ torn' = torn \cup contested
  /\ contested' = {}
  /\ UNCHANGED <<file, drawn, acked>>

Next ==
  \/ \E w \in Threads :
       \/ \E u \in Uploads : StartUpload(w, u) \/ CompleteUpload(w, u)
       \/ Open(w) \/ Write(w) \/ Rename(w) \/ RenameFails(w) \/ Remember(w)
  \/ Restart

Spec == Init /\ [][Next]_vars

-----------------------------------------------------------------------------
States == {"none", "PENDING", "VERIFIED", "HASH_MISMATCH",
           "QUARANTINE_PARTIAL_WRITE", "QUARANTINE_BAD_META"}

(* Types.  QUARANTINE_MISSING_BLOB, which restore_durable knows, is not among
   the states: the bytes are always renamed before the record. *)
TypeOK ==
  /\ file \in [Kinds -> [Uploads -> {"none", "part"} \cup Whole]]
  /\ tmp \in [Kinds -> [Uploads -> {"none", "part"} \cup Whole]]
  /\ rec \in [Uploads -> States]
  /\ blob \in [Uploads -> {"none", "part", "full"}]
  /\ asset \in [Contents -> Uploads \cup {NoUpload}]
  /\ pc \in [Threads -> {"idle", "open", "write", "rename", "remember"}]
  /\ job \in [Threads -> Uploads \cup {NoUpload}]
  /\ value \in [Threads -> Acks]
  /\ kind \in [Threads -> Kinds]
  /\ hand \in [Threads -> {"closed", "tmp", "file", "lost"}]
  /\ drawn \subseteq Uploads /\ contested \subseteq Uploads /\ torn \subseteq Uploads
  /\ acked \in [Uploads -> Acks]
  /\ restarts \in 0..MaxRestarts

(* A record says VERIFIED only beside the bytes that have its digest, also when
   a restart found the file of the bytes incomplete. *)
VerifiedHasBytes ==
  \A u \in Uploads : rec[u] = "VERIFIED" => blob[u] = "full"

(* What a client was told stays true through any restarts, unless two of its
   own requests for the upload were under way when the process stopped. *)
AckedSurvives ==
  \A u \in Uploads \ torn :
    /\ acked[u] = "PENDING" => rec[u] \in {"PENDING", "VERIFIED"}
    /\ acked[u] = "VERIFIED" => rec[u] = "VERIFIED"
    /\ acked[u] # "none" => blob[u] = "full" /\ asset[Bytes(u)] # NoUpload
=============================================================================
