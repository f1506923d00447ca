-------------------------- MODULE AssetUploadsProofs --------------------------
(***************************************************************************)
(* Theorems about the machines of MCAssetUploads: AssetUploads, for any    *)
(* threads, uploads and restarts, KnowledgeQueries and RecordReviews.      *)
(***************************************************************************)
EXTENDS MCAssetUploads, Sequences, FiniteSetTheorems, TLAPS

USE DEF disk, store, threads, ghosts, Kinds, Whole, Acks

(* What a thread knows of its upload: a start is alone with it; after the file
   of the bytes comes the record; a file moved under its hand is contested. *)
Knows(w) ==
  /\ pc[w] = "idle" <=> job[w] = NoUpload
  /\ pc[w] = "write" <=> hand[w] # "closed"
  /\ pc[w] # "idle" => job[w] \in drawn
  /\ pc[w] # "idle" /\ value[w] = "PENDING" => acked[job[w]] = "none"
  /\ pc[w] # "idle" /\ value[w] # "PENDING" =>
       value[w] = "VERIFIED" /\ acked[job[w]] # "none" /\ rec[job[w]] = "VERIFIED"
  /\ pc[w] # "idle" /\ kind[w] = "json" => file["bin"][job[w]] # "none"
  /\ pc[w] = "remember" =>
       /\ kind[w] = "json"
       /\ value[w] = "PENDING" => file["json"][job[w]] # "none" /\ tmp["json"][job[w]] = "none"
  /\ hand[w] \in {"file", "lost"} => job[w] \in contested
  /\ pc[w] = "rename" /\ job[w] \notin contested => tmp[kind[w]][job[w]] = Written(w)

Alone == \A v, w \in Threads :
  job[v] = job[w] /\ job[v] # NoUpload /\ job[v] \notin contested => v = w

Writing(w, k, u) == pc[w] = "write" /\ job[w] = u /\ kind[w] = k

(* What is incomplete is still being written, unless a restart tore it. *)
Incomplete(u) == \A k \in Kinds :
  /\ tmp[k][u] = "part" => \E w \in Threads : Writing(w, k, u) /\ hand[w] = "tmp"
  /\ file[k][u] = "part" /\ u \notin torn =>
       \E w \in Threads : Writing(w, k, u) /\ hand[w] = "file"

(* The files of an upload, against what its client was told. *)
Files(u) ==
  /\ tmp["bin"][u] \in {"none", "part", "full"}
  /\ file["bin"][u] \in {"none", "part", "full"}
  /\ tmp["json"][u] \in {"none", "part", "PENDING", "VERIFIED"}
  /\ file["json"][u] \in {"none", "part", "PENDING", "VERIFIED"}
  /\ file["json"][u] # "none" => file["bin"][u] # "none"
  /\ acked[u] # "none" =>
       /\ u \in drawn
       /\ file["json"][u] # "none"
       /\ tmp["json"][u] # "PENDING"
  /\ acked[u] = "VERIFIED" => file["json"][u] # "PENDING"
  /\ u \in contested => acked[u] # "none"

Recorded == \A w \in Threads :
  pc[w] = "remember" /\ value[w] = "VERIFIED" => file["json"][job[w]] \in {"part", "VERIFIED"}

Consistent ==
  /\ TypeOK /\ VerifiedHasBytes /\ AckedSurvives /\ Alone /\ Recorded
  /\ \A w \in Threads : Knows(w)
  /\ \A u \in Uploads : Incomplete(u) /\ Files(u)

LEMMA ConsistentInit == Init => Consistent
BY NoUploadAssumption, MaxRestartsAssumption
   DEF Init, Absent, Consistent, TypeOK, States, VerifiedHasBytes, AckedSurvives, Alone,
       Recorded, Knows, Incomplete, Files

LEMMA ConsistentStartUpload ==
  ASSUME Consistent, NEW w \in Threads, NEW u \in Uploads, StartUpload(w, u) PROVE Consistent'
<1> USE NoUploadAssumption, MaxRestartsAssumption, AskedAssumption
    DEF Consistent, TypeOK, States, StartUpload, Persist, At
<1>1. TypeOK'
  OBVIOUS
<1>2. (VerifiedHasBytes /\ AckedSurvives)'
  BY DEF VerifiedHasBytes, AckedSurvives
<1>3. (Alone /\ Recorded)'
  BY DEF Alone, Recorded
<1>4. ASSUME NEW v \in Threads PROVE Knows(v)'
  BY DEF Knows, Files, Written
<1>5. ASSUME NEW x \in Uploads PROVE Incomplete(x)'
  BY DEF Incomplete, Writing
<1>6. ASSUME NEW x \in Uploads PROVE Files(x)'
  BY DEF Files, Knows
<1>7. QED BY <1>1, <1>2, <1>3, <1>4, <1>5, <1>6

LEMMA ConsistentCompleteUpload ==
  ASSUME Consistent, NEW w \in Threads, NEW u \in Uploads, CompleteUpload(w, u) PROVE Consistent'
<1> USE NoUploadAssumption, MaxRestartsAssumption, AskedAssumption
    DEF Consistent, TypeOK, States, CompleteUpload, Persist, At
<1>1. TypeOK'
  OBVIOUS
<1>2. (VerifiedHasBytes /\ AckedSurvives)'
  BY DEF VerifiedHasBytes, AckedSurvives
<1>3. (Alone /\ Recorded)'
  BY DEF Alone, Recorded
<1>4. ASSUME NEW v \in Threads PROVE Knows(v)'
  BY DEF Knows, Files, Written
<1>5. ASSUME NEW x \in Uploads PROVE Incomplete(x)'
  BY DEF Incomplete, Writing
<1>6. ASSUME NEW x \in Uploads PROVE Files(x)'
  BY DEF Files
<1>7. QED BY <1>1, <1>2, <1>3, <1>4, <1>5, <1>6

LEMMA ConsistentOpen ==
  ASSUME Consistent, NEW w \in Threads, Open(w) PROVE Consistent'
<1> USE NoUploadAssumption, MaxRestartsAssumption, AskedAssumption
    DEF Consistent, TypeOK, States, Open
<1>1. TypeOK'
  OBVIOUS
<1>2. (VerifiedHasBytes /\ AckedSurvives)'
  BY DEF VerifiedHasBytes, AckedSurvives
<1>3. (Alone /\ Recorded)'
  BY DEF Alone, Recorded
<1>4. ASSUME NEW v \in Threads PROVE Knows(v)'
  BY DEF Knows, Alone, Files, Written
<1>5. ASSUME NEW x \in Uploads PROVE Incomplete(x)'
  BY DEF Incomplete, Writing
<1>6. ASSUME NEW x \in Uploads PROVE Files(x)'
  BY DEF Files
<1>7. QED BY <1>1, <1>2, <1>3, <1>4, <1>5, <1>6

LEMMA ConsistentWrite ==
  ASSUME Consistent, NEW w \in Threads, Write(w) PROVE Consistent'
<1> USE NoUploadAssumption, MaxRestartsAssumption, AskedAssumption
    DEF Consistent, TypeOK, States, Write
<1>1. TypeOK'
  BY DEF Written
<1>2. (VerifiedHasBytes /\ AckedSurvives)'
  BY DEF VerifiedHasBytes, AckedSurvives
<1>3. (Alone /\ Recorded)'
  <2>1. Alone'
    BY DEF Alone
  <2>2. SUFFICES ASSUME NEW v \in Threads, pc'[v] = "remember", value'[v] = "VERIFIED"
                 PROVE  file'["json"][job'[v]] \in {"part", "VERIFIED"}
    BY <2>1 DEF Recorded
  <2>3. pc[v] = "remember" /\ value[v] = "VERIFIED" /\ job'[v] = job[v]
    BY <2>2
  <2>4. CASE job[v] = job[w] /\ kind[w] = "json" /\ hand[w] = "file"
    BY <2>3, <2>4 DEF Knows, Written
  <2>5. CASE ~(job[v] = job[w] /\ kind[w] = "json" /\ hand[w] = "file")
    BY <2>3, <2>5 DEF Recorded
  <2>6. QED BY <2>4, <2>5
<1>4. ASSUME NEW v \in Threads PROVE Knows(v)'
  BY DEF Knows, Alone, Files, Written
<1>5. ASSUME NEW x \in Uploads PROVE Incomplete(x)'
  <2>1. \A v \in Threads : v # w =>
          /\ \A k \in Kinds : Writing(v, k, x)' <=> Writing(v, k, x)
          /\ hand'[v] = hand[v]
    BY DEF Writing
  <2>2. ASSUME NEW k \in Kinds, Writing(w, k, x), hand[w] = "tmp"
        PROVE  tmp'[k][x] # "part" /\ file'[k][x] = file[k][x]
    BY <2>2 DEF Writing, Written, Knows
  <2>3. ASSUME NEW k \in Kinds, Writing(w, k, x), hand[w] = "file"
        PROVE  file'[k][x] # "part" /\ tmp'[k][x] = tmp[k][x]
    BY <2>3 DEF Writing, Written, Knows
  <2>4. ASSUME NEW k \in Kinds, ~Writing(w, k, x) \/ hand[w] \notin {"tmp", "file"}
        PROVE  file'[k][x] = file[k][x] /\ tmp'[k][x] = tmp[k][x]
    BY <2>4 DEF Writing
  <2>5. torn' = torn
    OBVIOUS
  <2>6. ASSUME NEW k \in Kinds, tmp'[k][x] = "part"
        PROVE  \E v \in Threads : Writing(v, k, x)' /\ hand'[v] = "tmp"
    <3>1. tmp[k][x] = "part" /\ ~(Writing(w, k, x) /\ hand[w] = "tmp")
      BY <2>2, <2>3, <2>4, <2>6
    <3>2. PICK v \in Threads : Writing(v, k, x) /\ hand[v] = "tmp"
      BY <3>1 DEF Incomplete
    <3>3. QED BY <2>1, <3>1, <3>2
  <2>7. ASSUME NEW k \in Kinds, file'[k][x] = "part", x \notin torn
        PROVE  \E v \in Threads : Writing(v, k, x)' /\ hand'[v] = "file"
    <3>1. file[k][x] = "part" /\ ~(Writing(w, k, x) /\ hand[w] = "file")
      BY <2>2, <2>3, <2>4, <2>7
    <3>2. PICK v \in Threads : Writing(v, k, x) /\ hand[v] = "file"
      BY <2>7, <3>1 DEF Incomplete
    <3>3. QED BY <2>1, <3>1, <3>2
  <2>8. QED BY <2>5, <2>6, <2>7 DEF Incomplete
<1>6. ASSUME NEW x \in Uploads PROVE Files(x)'
  BY DEF Files, Knows, Written
<1>7. QED BY <1>1, <1>2, <1>3, <1>4, <1>5, <1>6

LEMMA ConsistentRename ==
  ASSUME Consistent, NEW w \in Threads, Rename(w) PROVE Consistent'
<1> USE NoUploadAssumption, MaxRestartsAssumption, AskedAssumption
    DEF Consistent, TypeOK, States, Rename, Moved
<1>1. TypeOK'
  BY DEF Knows
<1>2. (VerifiedHasBytes /\ AckedSurvives)'
  BY DEF VerifiedHasBytes, AckedSurvives
<1>3. (Alone /\ Recorded)'
  BY DEF Alone, Recorded, Knows, Files
<1>4. ASSUME NEW v \in Threads PROVE Knows(v)'
  BY DEF Knows, Alone, Written
<1>5. ASSUME NEW x \in Uploads PROVE Incomplete(x)'
  <2>1. SUFFICES ASSUME NEW k \in Kinds
                 PROVE  /\ tmp'[k][x] = "part" =>
                             \E v \in Threads : Writing(v, k, x)' /\ hand'[v] = "tmp"
                        /\ file'[k][x] = "part" /\ x \notin torn =>
                             \E v \in Threads : Writing(v, k, x)' /\ hand'[v] = "file"
    BY DEF Incomplete
  <2>2. \A v \in Threads : Writing(v, k, x) => Writing(v, k, x)' /\ v # w
    BY DEF Writing
  <2>3. CASE k = kind[w] /\ x = job[w]
    <3>1. tmp'[k][x] = "none" /\ file'[k][x] = tmp[k][x]
      BY <2>3
    <3>2. \A v \in Threads : Writing(v, k, x) /\ hand[v] = "tmp" => hand'[v] = "file"
      BY <2>3 DEF Writing
    <3>3. QED BY <3>1, <3>2, <2>2 DEF Incomplete
  <2>4. CASE ~(k = kind[w] /\ x = job[w])
    <3>1. tmp'[k][x] = tmp[k][x] /\ file'[k][x] = file[k][x]
      BY <2>4
    <3>2. \A v \in Threads : Writing(v, k, x) => hand'[v] = hand[v]
      BY <2>4 DEF Writing
    <3>3. QED BY <3>1, <3>2, <2>2 DEF Incomplete
  <2>5. QED BY <2>3, <2>4
<1>6. ASSUME NEW x \in Uploads PROVE Files(x)'
  BY DEF Files, Knows
<1>7. QED BY <1>1, <1>2, <1>3, <1>4, <1>5, <1>6

LEMMA ConsistentRenameFails ==
  ASSUME Consistent, NEW w \in Threads, RenameFails(w) PROVE Consistent'
<1> USE NoUploadAssumption, MaxRestartsAssumption, AskedAssumption
    DEF Consistent, TypeOK, States, RenameFails, Finish, At
<1>1. TypeOK'
  OBVIOUS
<1>2. (VerifiedHasBytes /\ AckedSurvives)'
  BY DEF VerifiedHasBytes, AckedSurvives
<1>3. (Alone /\ Recorded)'
  BY DEF Alone, Recorded
<1>4. ASSUME NEW v \in Threads PROVE Knows(v)'
  BY DEF Knows, Written
<1>5. ASSUME NEW x \in Uploads PROVE Incomplete(x)'
  BY DEF Incomplete, Writing
<1>6. ASSUME NEW x \in Uploads PROVE Files(x)'
  BY DEF Files
<1>7. QED BY <1>1, <1>2, <1>3, <1>4, <1>5, <1>6

LEMMA ConsistentRemember ==
  ASSUME Consistent, NEW w \in Threads, Remember(w) PROVE Consistent'
<1> USE NoUploadAssumption, MaxRestartsAssumption, AskedAssumption
    DEF Consistent, TypeOK, States, Remember, Finish, At, Bytes
<1>1. TypeOK'
  OBVIOUS
<1>2. (VerifiedHasBytes /\ AckedSurvives)'
  <2>1. job[w] \in Uploads /\ value[w] \in {"PENDING", "VERIFIED"}
    BY DEF Knows
  <2>2. VerifiedHasBytes'
    BY <2>1 DEF VerifiedHasBytes
  <2>3. Asked[job[w]].bytes \in Contents
    BY <2>1
  <2>4. ASSUME NEW x \in Uploads \ torn, x = job[w]
        PROVE  /\ acked'[x] = "PENDING" => rec'[x] \in {"PENDING", "VERIFIED"}
               /\ acked'[x] = "VERIFIED" => rec'[x] = "VERIFIED"
               /\ blob'[x] = "full" /\ asset'[Bytes(x)] # NoUpload
    BY <2>1, <2>3, <2>4 DEF Knows
  <2>5. ASSUME NEW x \in Uploads \ torn, x # job[w]
        PROVE  /\ acked'[x] = acked[x] /\ rec'[x] = rec[x] /\ blob'[x] = blob[x]
               /\ asset[Bytes(x)] # NoUpload => asset'[Bytes(x)] # NoUpload
    BY <2>1, <2>3, <2>5
  <2>6. AckedSurvives'
    BY <2>4, <2>5 DEF AckedSurvives
  <2>7. QED BY <2>2, <2>6
<1>3. (Alone /\ Recorded)'
  BY DEF Alone, Recorded
<1>4. ASSUME NEW v \in Threads PROVE Knows(v)'
  BY DEF Knows, Alone, Files, Written
<1>5. ASSUME NEW x \in Uploads PROVE Incomplete(x)'
  BY DEF Incomplete, Writing
<1>6. ASSUME NEW x \in Uploads PROVE Files(x)'
  BY DEF Files, Knows, Recorded
<1>7. QED BY <1>1, <1>2, <1>3, <1>4, <1>5, <1>6

LEMMA ConsistentRestart ==
  ASSUME Consistent, Restart PROVE Consistent'
<1> USE NoUploadAssumption, MaxRestartsAssumption, AskedAssumption
    DEF Consistent, TypeOK, States, Restart, Absent, Restored, Readable, Candidates, Bytes
<1>1. TypeOK'
  BY DEF Files
<1>2. (VerifiedHasBytes /\ AckedSurvives)'
  <2>1. VerifiedHasBytes'
    BY DEF VerifiedHasBytes, Files
  <2>2. ASSUME NEW x \in Uploads, x \notin torn, x \notin contested, acked[x] # "none"
        PROVE  file["bin"][x] = "full" /\ file["json"][x] \in {"PENDING", "VERIFIED"}
    BY <2>2 DEF Incomplete, Writing, Knows, Files
  <2>3. ASSUME NEW x \in Uploads, x \notin torn, x \notin contested, acked[x] # "none"
        PROVE  /\ rec'[x] = file["json"][x] /\ blob'[x] = "full"
               /\ asset'[Bytes(x)] # NoUpload
    <3>1. rec'[x] = file["json"][x] /\ blob'[x] = "full"
      BY <2>2, <2>3
    <3>2. x \in Candidates(Bytes(x)) /\ Bytes(x) \in Contents
      BY <2>2, <2>3
    <3>3. asset'[Bytes(x)] \in Candidates(Bytes(x))
      BY <3>2
    <3>4. QED BY <3>1, <3>3
  <2>4. AckedSurvives'
    BY <2>2, <2>3 DEF AckedSurvives, Files
  <2>5. QED BY <2>1, <2>4
<1>3. (Alone /\ Recorded)'
  BY DEF Alone, Recorded
<1>4. ASSUME NEW v \in Threads PROVE Knows(v)'
  BY DEF Knows
<1>5. ASSUME NEW x \in Uploads PROVE Incomplete(x)'
  BY DEF Incomplete, Writing, Knows
<1>6. ASSUME NEW x \in Uploads PROVE Files(x)'
  BY DEF Files
<1>7. QED BY <1>1, <1>2, <1>3, <1>4, <1>5, <1>6

LEMMA ConsistentStutter ==
  ASSUME Consistent, UNCHANGED vars PROVE Consistent'
<1> USE NoUploadAssumption, MaxRestartsAssumption, AskedAssumption
    DEF Consistent, TypeOK, States, vars
<1>1. TypeOK'
  OBVIOUS
<1>2. (VerifiedHasBytes /\ AckedSurvives)'
  BY DEF VerifiedHasBytes, AckedSurvives
<1>3. (Alone /\ Recorded)'
  BY DEF Alone, Recorded
<1>4. ASSUME NEW v \in Threads PROVE Knows(v)'
  BY DEF Knows, Written
<1>5. ASSUME NEW x \in Uploads PROVE Incomplete(x)'
  BY DEF Incomplete, Writing
<1>6. ASSUME NEW x \in Uploads PROVE Files(x)'
  BY DEF Files
<1>7. QED BY <1>1, <1>2, <1>3, <1>4, <1>5, <1>6

LEMMA ConsistentStep == Consistent /\ [Next]_vars => Consistent'
BY ConsistentStartUpload, ConsistentCompleteUpload, ConsistentOpen, ConsistentWrite,
   ConsistentRename, ConsistentRenameFails, ConsistentRemember, ConsistentRestart,
   ConsistentStutter
   DEF Next

LEMMA ConsistentAlways == Spec => []Consistent
BY ConsistentInit, ConsistentStep, PTL DEF Spec

(* Types, and with them: no restart ever finds a record without its bytes
   (store.py:51-54, 86). *)
THEOREM TypeCorrect == Spec => []TypeOK
BY ConsistentAlways, PTL DEF Consistent

(* VERIFIED is said only beside the bytes that have the digest, whatever a
   restart found on disk (main.py:319-327, store.py:79-87). *)
THEOREM VerifiedHasBytesHolds == Spec => []VerifiedHasBytes
BY ConsistentAlways, PTL DEF Consistent

(* An answered upload keeps its state, bytes and asset through every restart,
   unless two requests for it were under way together when the process
   stopped. *)
THEOREM AckedSurvivesHolds == Spec => []AckedSurvives
BY ConsistentAlways, PTL DEF Consistent

-----------------------------------------------------------------------------
(* The queries of the gateway and the invalidation of their cache.          *)

(* What a query has found so far is as old as its beginning: a claim it has and that a
   revocation has cleared since was usable when it began, and a claim it found under a
   revision was found in the time of that revision. *)
Fresh(t) ==
  LET q == query[t] IN
  /\ q.began <= clears
  /\ stage[t] \in {"lookup", "scan"} => revision \in q.during
  /\ q.asked = 0 => q.ck \in q.during
  /\ q.asked # 0 => q.ck = q.asked
  /\ q.claims # {} => q.ck \in q.during
  /\ \A c \in q.claims : clearedAt[c] > 0 => q.began < clearedAt[c]

Gathering == {"lookup", "scan", "store"}

(* A clear leaves no entry, so every entry was stored since the last one; and a claim that
   a clear has counted is blocked. *)
Served ==
  /\ \A t \in Threads : stage[t] \in Gathering => Fresh(t)
  /\ \A r \in Queries!Revisions : cache[r] # Nothing => cache[r].stored = clears
  /\ \A c \in Claims : clearedAt[c] <= clears /\ (clearedAt[c] > 0 => c \in blocked)

QueriesInv == Queries!TypeOK /\ Served /\ Queries!CacheSound

LEMMA QueriesInit == Queries!Init => QueriesInv
<1> SUFFICES ASSUME Queries!Init PROVE QueriesInv
  OBVIOUS
<1>1. revision \in Queries!Revisions
  BY QueriesAssumption DEF Queries!Init, Queries!Revisions
<1>2. Queries!TypeOK
  <2>1. blocked \subseteq Claims /\ cache \in [Queries!Revisions -> Queries!Entries \cup {Nothing}]
    BY DEF Queries!Init
  <2>2. idem \in [Keys -> (SUBSET Claims) \cup {Nothing}]
    <3>1. idem = [k \in Keys |-> Nothing]
      BY DEF Queries!Init
    <3>2. Nothing \in (SUBSET Claims) \cup {Nothing}
      OBVIOUS
    <3>3. QED BY <3>1, <3>2
  <2>3. query \in [Threads -> Queries!Locals \cup {Nothing}]
    BY DEF Queries!Init
  <2>4. /\ stage \in [Threads -> {"idle", "lookup", "scan", "store", "reread", "put", "block", "clear"}]
        /\ \A t \in Threads : query[t] = Nothing <=> stage[t] \in {"idle", "block", "clear"}
    BY DEF Queries!Init
  <2>5. clears \in Nat /\ clearedAt \in [Claims -> Nat]
    BY DEF Queries!Init
  <2>6. QED BY <1>1, <2>1, <2>2, <2>3, <2>4, <2>5 DEF Queries!TypeOK
<1>3. Served
  BY DEF Queries!Init, Served, Gathering
<1>4. Queries!CacheSound
  BY DEF Queries!Init, Queries!CacheSound, Queries!StaleOnlyInFlight, Queries!RevisionScoped
<1>5. QED BY <1>2, <1>3, <1>4 DEF QueriesInv

(* A step of a query before it stores: nothing shared changes. *)
LEMMA Gathered ==
  ASSUME QueriesInv, NEW t \in Threads, UNCHANGED <<Queries!shared, Queries!ghosts>>,
         NEW s \in {"idle", "lookup", "scan", "store", "reread", "put"},
         NEW q \in Queries!Locals \cup {Nothing}, q = Nothing <=> s = "idle",
         stage' = [stage EXCEPT ![t] = s], query' = [query EXCEPT ![t] = q],
         s \in Gathering => Fresh(t)'
  PROVE  QueriesInv'
<1>1. Queries!TypeOK'
  BY DEF QueriesInv, Queries!TypeOK, Queries!shared, Queries!ghosts
<1>2. Served'
  <2>1. ASSUME NEW u \in Threads, stage'[u] \in Gathering PROVE Fresh(u)'
    <3>1. CASE u = t
      BY <2>1, <3>1 DEF QueriesInv, Queries!TypeOK
    <3>2. CASE u # t
      <4>1. stage'[u] = stage[u] /\ query'[u] = query[u]
        BY <3>2 DEF QueriesInv, Queries!TypeOK
      <4>2. Fresh(u)
        BY <2>1, <4>1 DEF QueriesInv, Served
      <4>3. QED BY <4>1, <4>2 DEF Fresh, Queries!shared, Queries!ghosts
    <3>3. QED BY <3>1, <3>2
  <2>2. QED BY <2>1 DEF QueriesInv, Served, Queries!shared, Queries!ghosts
<1>3. Queries!CacheSound'
  BY DEF QueriesInv, Queries!CacheSound, Queries!StaleOnlyInFlight, Queries!RevisionScoped,
         Queries!shared, Queries!ghosts
<1>4. QED BY <1>1, <1>2, <1>3 DEF QueriesInv

(* A thread inside a query has its locals. *)
LEMMA HasLocals ==
  ASSUME QueriesInv, NEW t \in Threads, stage[t] \in {"lookup", "scan", "store", "reread", "put"}
  PROVE  query[t] \in Queries!Locals
BY DEF QueriesInv, Queries!TypeOK

LEMMA AskStep ==
  ASSUME QueriesInv, NEW t \in Threads, NEW k \in Keys \cup {Nothing}, NEW asked \in 0..MaxRevision,
         Queries!Ask(t, k, asked)
  PROVE  QueriesInv'
<1> DEFINE q == [key |-> k, asked |-> asked, ck |-> IF asked = 0 THEN revision ELSE asked,
                 began |-> clears, during |-> {revision}, todo |-> Claims, claims |-> {}]
<1>1. q \in Queries!Locals
  BY QueriesAssumption DEF QueriesInv, Queries!TypeOK, Queries!Locals, Queries!Revisions
<1>2. query' = [query EXCEPT ![t] = q] /\ stage' = [stage EXCEPT ![t] = "lookup"]
  BY DEF Queries!Ask, Queries!Goto
<1>3. query'[t] = q
  BY <1>2 DEF QueriesInv, Queries!TypeOK
<1>4. UNCHANGED <<Queries!shared, Queries!ghosts>>
  BY DEF Queries!Ask
<1>5. Fresh(t)'
  <2>1. clears \in Nat
    BY DEF QueriesInv, Queries!TypeOK
  <2>2. QED BY <1>3, <1>4, <2>1 DEF Fresh, Queries!shared, Queries!ghosts
<1>6. q # Nothing
  BY <1>1, QueriesAssumption
<1> HIDE DEF q
<1>7. QED BY <1>1, <1>2, <1>4, <1>5, <1>6, Gathered

LEMMA LookupStep == ASSUME QueriesInv, NEW t \in Threads, Queries!Lookup(t) PROVE QueriesInv'
<1> DEFINE e == cache[query[t].ck]
<1>1. query[t] \in Queries!Locals
  BY HasLocals DEF Queries!Lookup
<1>2. UNCHANGED <<Queries!shared, Queries!ghosts>>
  BY DEF Queries!Lookup
<1>3. CASE e # Nothing /\ e.rev = revision
  <2> DEFINE q == [query[t] EXCEPT !.claims = e.claims]
  <2>1. q \in Queries!Locals
    BY <1>1, <1>3 DEF QueriesInv, Queries!TypeOK, Queries!Locals, Queries!Entries
  <2>2. query' = [query EXCEPT ![t] = q] /\ stage' = [stage EXCEPT ![t] = "put"]
    BY <1>3 DEF Queries!Lookup, Queries!Goto
  <2>3. q # Nothing
    BY <2>1, QueriesAssumption
  <2> HIDE DEF q
  <2>4. QED BY <1>2, <2>1, <2>2, <2>3, Gathered DEF Gathering
<1>4. CASE ~(e # Nothing /\ e.rev = revision)
  <2>1. query' = query /\ stage' = [stage EXCEPT ![t] = "scan"]
    BY <1>4 DEF Queries!Lookup, Queries!Goto
  <2>2. query' = [query EXCEPT ![t] = query[t]]
    BY <2>1 DEF QueriesInv, Queries!TypeOK
  <2>3. query[t] # Nothing
    BY <1>1, QueriesAssumption
  <2>4. Fresh(t) /\ stage[t] = "lookup"
    BY DEF QueriesInv, Served, Gathering, Queries!Lookup
  <2>5. Fresh(t)'
    BY <1>2, <2>1, <2>4 DEF Fresh, Queries!shared, Queries!ghosts
  <2>6. QED BY <1>1, <1>2, <2>1, <2>2, <2>3, <2>5, Gathered
<1>5. QED BY <1>3, <1>4

LEMMA ScanStep == ASSUME QueriesInv, NEW t \in Threads, Queries!Scan(t) PROVE QueriesInv'
<1>1. query[t] \in Queries!Locals
  BY HasLocals DEF Queries!Scan
<1>2. UNCHANGED <<Queries!shared, Queries!ghosts>>
  BY DEF Queries!Scan
<1>3. PICK c \in query[t].todo :
        query' = [query EXCEPT ![t].todo = @ \ {c},
                               ![t].claims = IF Queries!ScopeMatch(t) /\ Queries!Usable(c)
                                             THEN @ \cup {c} ELSE @]
  BY DEF Queries!Scan
<1> DEFINE found == IF Queries!ScopeMatch(t) /\ Queries!Usable(c) THEN query[t].claims \cup {c}
                    ELSE query[t].claims
           q == [query[t] EXCEPT !.todo = query[t].todo \ {c}, !.claims = found]
<1>4. c \in Claims
  BY <1>1, <1>3 DEF Queries!Locals
<1>5. q \in Queries!Locals
  BY <1>1, <1>4 DEF Queries!Locals
<1>6. query' = [query EXCEPT ![t] = q]
  BY <1>3 DEF QueriesInv, Queries!TypeOK
<1>7. PICK s \in {"scan", "store"} : stage' = [stage EXCEPT ![t] = s]
  BY DEF Queries!Scan, Queries!Goto
<1>8. q # Nothing
  BY <1>5, QueriesAssumption
<1>9. Fresh(t)'
  <2>1. Fresh(t) /\ stage[t] = "scan"
    BY DEF QueriesInv, Served, Gathering, Queries!Scan
  <2>2. query'[t] = q
    BY <1>6 DEF QueriesInv, Queries!TypeOK
  <2>3. query'[t].began = query[t].began /\ query'[t].during = query[t].during
        /\ query'[t].asked = query[t].asked /\ query'[t].ck = query[t].ck /\ query'[t].claims = found
    BY <1>1, <2>2 DEF Queries!Locals
  <2>4. found # {} => query[t].ck \in query[t].during
    <3>1. CASE Queries!ScopeMatch(t) /\ Queries!Usable(c)
      BY <2>1, <3>1 DEF Fresh, Queries!ScopeMatch
    <3>2. CASE ~(Queries!ScopeMatch(t) /\ Queries!Usable(c))
      BY <2>1, <3>2 DEF Fresh
    <3>3. QED BY <3>1, <3>2
  <2>5. \A d \in found : clearedAt[d] > 0 => query[t].began < clearedAt[d]
    BY <1>4, <2>1 DEF Fresh, Queries!Usable, QueriesInv, Served
  <2> HIDE DEF found, q
  <2>6. QED BY <1>2, <2>1, <2>3, <2>4, <2>5 DEF Fresh, Queries!shared, Queries!ghosts
<1> HIDE DEF q
<1>10. QED BY <1>2, <1>5, <1>6, <1>7, <1>8, <1>9, Gathered

LEMMA StoreStep == ASSUME QueriesInv, NEW t \in Threads, Queries!Store(t) PROVE QueriesInv'
<1> DEFINE q == query[t]
           e == [rev |-> revision, claims |-> q.claims, began |-> q.began, during |-> q.during,
                 stored |-> clears]
<1>1. q \in Queries!Locals
  BY HasLocals DEF Queries!Store
<1>2. Fresh(t)
  BY DEF QueriesInv, Served, Gathering, Queries!Store
<1>3. e \in Queries!Entries
  BY <1>1 DEF QueriesInv, Queries!TypeOK, Queries!Locals, Queries!Entries
<1>4. q.ck \in Queries!Revisions
  BY <1>1 DEF Queries!Locals
<1>5. cache' = [cache EXCEPT ![q.ck] = e] /\ stage' = [stage EXCEPT ![t] = "reread"]
      /\ UNCHANGED <<revision, blocked, idem, query, clears, clearedAt>>
  BY DEF Queries!Store, Queries!Goto, Queries!ghosts
<1>6. \A r \in Queries!Revisions : cache'[r] = IF r = q.ck THEN e ELSE cache[r]
  BY <1>5 DEF QueriesInv, Queries!TypeOK
<1>7. Queries!TypeOK'
  <2>1. cache' \in [Queries!Revisions -> Queries!Entries \cup {Nothing}]
    BY <1>3, <1>5 DEF QueriesInv, Queries!TypeOK
  <2>2. QED BY <1>5, <2>1 DEF QueriesInv, Queries!TypeOK, Queries!Store
<1>8. Served'
  <2>1. \A u \in Threads : stage'[u] \in Gathering => u # t /\ stage[u] \in Gathering
    BY <1>5 DEF QueriesInv, Queries!TypeOK, Gathering
  <2>2. \A u \in Threads : u # t /\ Fresh(u) => Fresh(u)'
    BY <1>5 DEF Fresh, QueriesInv, Queries!TypeOK
  <2>3. QED BY <1>5, <1>6, <2>1, <2>2 DEF QueriesInv, Served
<1>9. Queries!CacheSound'
  <2>1. q.began \in Nat /\ clears \in Nat /\ clearedAt \in [Claims -> Nat] /\ q.claims \subseteq Claims
    BY <1>1 DEF QueriesInv, Queries!TypeOK, Queries!Locals
  <2>2. \A c \in q.claims : clearedAt[c] > 0 => q.began < clearedAt[c] /\ clearedAt[c] <= clears
    BY <1>2, <2>1 DEF QueriesInv, Served, Fresh
  <2>3. q.claims # {} => q.ck \in q.during
    BY <1>2 DEF Fresh
  <2>4. QED BY <1>5, <1>6, <2>2, <2>3 DEF QueriesInv, Queries!CacheSound, Queries!StaleOnlyInFlight,
                                         Queries!RevisionScoped
<1>10. QED BY <1>7, <1>8, <1>9 DEF QueriesInv

LEMMA RereadStep == ASSUME QueriesInv, NEW t \in Threads, Queries!Reread(t) PROVE QueriesInv'
<1> DEFINE e == cache[query[t].ck]
<1>1. query[t] \in Queries!Locals
  BY HasLocals DEF Queries!Reread
<1>2. UNCHANGED <<Queries!shared, Queries!ghosts>>
  BY DEF Queries!Reread
<1>3. CASE e = Nothing
  BY <1>2, <1>3, Gathered DEF Queries!Reread, Queries!Return, Queries!Goto, Gathering
<1>4. CASE e # Nothing
  <2> DEFINE q == [query[t] EXCEPT !.claims = e.claims]
  <2>1. q \in Queries!Locals
    BY <1>1, <1>4 DEF QueriesInv, Queries!TypeOK, Queries!Locals, Queries!Entries
  <2>2. query' = [query EXCEPT ![t] = q] /\ stage' = [stage EXCEPT ![t] = "put"]
    BY <1>4 DEF Queries!Reread, Queries!Goto
  <2>3. q # Nothing
    BY <2>1, QueriesAssumption
  <2> HIDE DEF q
  <2>4. QED BY <1>2, <2>1, <2>2, <2>3, Gathered DEF Gathering
<1>5. QED BY <1>3, <1>4

(* The steps that leave the cache as it is. *)
LEMMA Aside ==
  ASSUME QueriesInv, Queries!TypeOK', NEW t \in Threads, stage'[t] \notin Gathering,
         \A u \in Threads : stage'[u] \in Gathering => u # t /\ stage[u] \in Gathering,
         \A u \in Threads : u # t /\ stage[u] \in Gathering => Fresh(u)',
         blocked \subseteq blocked', UNCHANGED <<cache, clears, clearedAt>>
  PROVE  QueriesInv'
<1>1. Served'
  BY DEF QueriesInv, Served
<1>2. QED BY <1>1 DEF QueriesInv, Queries!CacheSound, Queries!StaleOnlyInFlight, Queries!RevisionScoped

(* A step that touches neither another query nor what queries have read. *)
LEMMA Untouched ==
  ASSUME QueriesInv, NEW t \in Threads, NEW u \in Threads, u # t, stage[u] \in Gathering,
         stage'[u] = stage[u], query'[u] = query[u], UNCHANGED <<revision, clears, clearedAt>>
  PROVE  Fresh(u)'
<1>1. Fresh(u)
  BY DEF QueriesInv, Served
<1>2. QED BY <1>1 DEF Fresh

LEMMA PutStep == ASSUME QueriesInv, NEW t \in Threads, Queries!Put(t) PROVE QueriesInv'
<1>1. query[t] \in Queries!Locals /\ query[t] # Nothing
  BY HasLocals, QueriesAssumption DEF Queries!Put
<1>2. idem' \in [Keys -> (SUBSET Claims) \cup {Nothing}]
  BY <1>1 DEF Queries!Put, QueriesInv, Queries!TypeOK, Queries!Locals
<1>3. stage' = [stage EXCEPT ![t] = "idle"] /\ query' = [query EXCEPT ![t] = Nothing]
      /\ UNCHANGED <<revision, blocked, cache, clears, clearedAt>>
  BY DEF Queries!Put, Queries!Return, Queries!Goto, Queries!ghosts
<1>4. Queries!TypeOK'
  BY <1>2, <1>3 DEF QueriesInv, Queries!TypeOK
<1>5. \A u \in Threads : u # t /\ stage[u] \in Gathering => Fresh(u)'
  <2>1. \A u \in Threads : u # t => stage'[u] = stage[u] /\ query'[u] = query[u]
    BY <1>3 DEF QueriesInv, Queries!TypeOK
  <2>2. QED BY <1>3, <2>1, Untouched
<1>6. QED BY <1>3, <1>4, <1>5, Aside DEF Gathering, QueriesInv, Queries!TypeOK

LEMMA InvalidateStep == ASSUME QueriesInv, NEW t \in Threads, Queries!InvalidateBegin(t) PROVE QueriesInv'
<1>1. PICK r \in Queries!Revisions :
        /\ revision' = r
        /\ query' = [u \in Threads |-> IF u \in Queries!Reading THEN [query[u] EXCEPT !.during = @ \cup {r}]
                                       ELSE query[u]]
  BY DEF Queries!InvalidateBegin
<1>2. stage' = [stage EXCEPT ![t] = "block"] /\ stage[t] = "idle"
      /\ UNCHANGED <<blocked, cache, idem, clears, clearedAt>>
  BY DEF Queries!InvalidateBegin, Queries!Goto, Queries!ghosts
<1>3. \A u \in Threads : stage[u] \in {"lookup", "scan"} => query[u] \in Queries!Locals
  BY HasLocals
<1>4. \A u \in Queries!Reading :
        query'[u] \in Queries!Locals /\ query'[u] # Nothing /\ query[u] # Nothing
  <2> TAKE u \in Queries!Reading
  <2>1. u \in Threads /\ query[u] \in Queries!Locals
    BY <1>3 DEF Queries!Reading
  <2>2. query'[u] = [query[u] EXCEPT !.during = @ \cup {r}]
    BY <1>1, <2>1
  <2>3. query'[u] \in Queries!Locals
    BY <2>1, <2>2 DEF Queries!Locals
  <2>4. QED BY <2>1, <2>3, QueriesAssumption
<1>5. \A u \in Threads : u \notin Queries!Reading => query'[u] = query[u]
  BY <1>1
<1>6. Queries!TypeOK'
  <2>1. query' \in [Threads -> Queries!Locals \cup {Nothing}]
    <3>1. \A u \in Threads : query'[u] \in Queries!Locals \cup {Nothing}
      BY <1>4, <1>5 DEF QueriesInv, Queries!TypeOK
    <3> DEFINE F(u) == IF u \in Queries!Reading THEN [query[u] EXCEPT !.during = @ \cup {r}] ELSE query[u]
    <3>2. query' = [u \in Threads |-> F(u)]
      BY <1>1
    <3>3. \A u \in Threads : query'[u] = F(u)
      BY <3>2
    <3> HIDE DEF F
    <3>4. QED BY <3>1, <3>2, <3>3
  <2>2. \A u \in Threads : query'[u] = Nothing <=> query[u] = Nothing
    BY <1>4, <1>5
  <2>3. QED BY <1>1, <1>2, <2>1, <2>2 DEF QueriesInv, Queries!TypeOK
<1>7. ASSUME NEW u \in Threads, u # t, stage[u] \in Gathering PROVE Fresh(u)'
  <2>1. Fresh(u) /\ stage'[u] = stage[u] /\ query[u] \in Queries!Locals
    BY <1>2, <1>7, HasLocals DEF QueriesInv, Served, Queries!TypeOK, Gathering
  <2>2. CASE u \in Queries!Reading
    <3>1. query'[u] = [query[u] EXCEPT !.during = @ \cup {r}]
      BY <1>1, <2>2
    <3>2. /\ query'[u].during = query[u].during \cup {r} /\ query'[u].began = query[u].began
          /\ query'[u].asked = query[u].asked /\ query'[u].ck = query[u].ck /\ query'[u].claims = query[u].claims
      BY <2>1, <3>1 DEF Queries!Locals
    <3>3. QED BY <1>1, <1>2, <2>1, <3>2 DEF Fresh
  <2>3. CASE u \notin Queries!Reading
    BY <1>2, <1>5, <2>1, <2>3 DEF Fresh, Queries!Reading
  <2>4. QED BY <2>2, <2>3
<1>8. QED BY <1>2, <1>6, <1>7, Aside DEF Gathering, QueriesInv, Queries!TypeOK

LEMMA BlockStep ==
  ASSUME QueriesInv, NEW t \in Threads, Queries!Block(t) \/ Queries!Leave(t)
  PROVE  QueriesInv'
<1>1. PICK s \in {"clear", "idle"} : stage' = [stage EXCEPT ![t] = s]
  BY DEF Queries!Block, Queries!Leave, Queries!Goto
<1>2. stage[t] \in {"block", "clear"} /\ UNCHANGED <<revision, cache, idem, query, clears, clearedAt>>
  BY DEF Queries!Block, Queries!Leave, Queries!shared, Queries!ghosts
<1>3. blocked \subseteq blocked' /\ blocked' \subseteq Claims
  BY DEF Queries!Block, Queries!Leave, Queries!shared, QueriesInv, Queries!TypeOK
<1>4. Queries!TypeOK'
  BY <1>1, <1>2, <1>3 DEF QueriesInv, Queries!TypeOK
<1>5. \A u \in Threads : u # t /\ stage[u] \in Gathering => Fresh(u)'
  <2>1. \A u \in Threads : u # t => stage'[u] = stage[u] /\ query'[u] = query[u]
    BY <1>1, <1>2 DEF QueriesInv, Queries!TypeOK
  <2>2. QED BY <1>2, <2>1, Untouched
<1>6. QED BY <1>1, <1>2, <1>3, <1>4, <1>5, Aside DEF Gathering, QueriesInv, Queries!TypeOK

LEMMA ClearStep == ASSUME QueriesInv, NEW t \in Threads, Queries!Clear(t) PROVE QueriesInv'
<1>1. /\ stage' = [stage EXCEPT ![t] = "idle"] /\ stage[t] = "clear"
      /\ cache' = [r \in Queries!Revisions |-> Nothing]
      /\ clears' = clears + 1
      /\ clearedAt' = [c \in Claims |-> IF clearedAt[c] = 0 /\ c \in blocked THEN clears' ELSE clearedAt[c]]
      /\ UNCHANGED <<revision, blocked, idem, query>>
  BY DEF Queries!Clear, Queries!Goto, Queries!Dropped
<1>2. clears \in Nat /\ clearedAt \in [Claims -> Nat]
  BY DEF QueriesInv, Queries!TypeOK
<1>3. Queries!TypeOK'
  BY <1>1, <1>2 DEF QueriesInv, Queries!TypeOK
<1>4. ASSUME NEW u \in Threads, stage'[u] \in Gathering PROVE Fresh(u)'
  <2>1. stage[u] \in Gathering
    BY <1>1, <1>4 DEF QueriesInv, Queries!TypeOK, Gathering
  <2>2. Fresh(u) /\ query[u] \in Queries!Locals
    BY <2>1, HasLocals DEF QueriesInv, Served, Gathering
  <2>3. query[u].began \in Nat /\ query[u].claims \subseteq Claims
    BY <2>2 DEF Queries!Locals
  <2>4. \A c \in query[u].claims : clearedAt'[c] > 0 => query[u].began < clearedAt'[c]
    BY <1>1, <1>2, <2>2, <2>3 DEF Fresh
  <2>5. query[u].began <= clears'
    BY <1>1, <1>2, <2>2, <2>3 DEF Fresh
  <2>6. QED BY <1>1, <2>2, <2>4, <2>5 DEF Fresh
<1>5. \A c \in Claims : clearedAt'[c] <= clears' /\ (clearedAt'[c] > 0 => c \in blocked')
  BY <1>1, <1>2 DEF QueriesInv, Served
<1>6. QED BY <1>1, <1>3, <1>4, <1>5 DEF QueriesInv, Served, Queries!CacheSound,
             Queries!StaleOnlyInFlight, Queries!RevisionScoped

LEMMA QueriesStep == QueriesInv /\ [Queries!Next]_(Queries!vars) => QueriesInv'
<1>1. ASSUME QueriesInv, UNCHANGED Queries!vars PROVE QueriesInv'
  BY <1>1 DEF Queries!vars, Queries!shared, Queries!ghosts, QueriesInv, Queries!TypeOK, Served, Fresh, Queries!CacheSound,
     Queries!StaleOnlyInFlight, Queries!RevisionScoped
<1>2. ASSUME QueriesInv, NEW t \in Threads, Queries!Query(t) PROVE QueriesInv'
  BY <1>2, LookupStep, ScanStep, StoreStep, RereadStep, PutStep DEF Queries!Query
<1>3. QED BY <1>1, <1>2, AskStep, InvalidateStep, BlockStep, ClearStep DEF Queries!Next

(* Once a revocation has cleared the cache, an entry holds the claim only if a query that
   had begun before put it back, and claims are cached under a revision only by a query in
   whose time it was the store's, whichever revisions are set and whether or not an
   invalidation clears (vendor4, app/main.py). *)
THEOREM CacheIsSound == Queries!Spec => []CacheSound
<1>1. QueriesInv => CacheSound
  BY DEF QueriesInv, CacheSound
<1>2. QED BY <1>1, QueriesInit, QueriesStep, PTL DEF Queries!Spec

-----------------------------------------------------------------------------
(* The review of v164.                                                      *)

(* A reviewer saw of a record what the proposal's hash covers. *)
Faced(a) == a.saw = a.proposal.record

Facing ==
  /\ \A p \in out.proposals : p.record = out.records[p.entity]
  /\ \A a \in adjudications : Faced(a)
  /\ \A a \in loaded.adjudications : Faced(a)

ReadyInv == Facing /\ V164!ReadySound

LEMMA ReadyInit == V164!SemanticInit => ReadyInv
BY DEF V164!SemanticInit, V164!NoOutput, ReadyInv, Facing, V164!ReadySound

LEMMA ReadyStep == ReadyInv /\ V164!SemanticNext => ReadyInv'
<1> USE DEF ReadyInv, Facing, Faced
<1>1. ASSUME ReadyInv, NEW p \in out.proposals, V164!Adjudicate(p) PROVE ReadyInv'
  BY <1>1 DEF V164!Adjudicate, V164!ReadySound
<1>2. ASSUME ReadyInv, V164!Withdraw PROVE ReadyInv'
  BY <1>2 DEF V164!Withdraw, V164!ReadySound
<1>3. ASSUME ReadyInv, V164!Edit PROVE ReadyInv'
  BY <1>3 DEF V164!Edit, V164!ReadySound
<1>4. ASSUME ReadyInv, V164!Load PROVE ReadyInv'
  BY <1>4 DEF V164!Load, V164!ReadySound
<1>5. ASSUME ReadyInv, V164!Raises PROVE ReadyInv'
  <2>1. loaded'.adjudications = loaded.adjudications
    BY <1>5 DEF V164!Raises
  <2>2. QED BY <1>5, <2>1 DEF V164!Raises, V164!ReadySound
<1>6. ASSUME ReadyInv, V164!Conclude PROVE ReadyInv'
  <2>1. PICK compatible \in SUBSET Entities :
          out' = [proposals |-> V164!Proposals, records |-> loaded.records,
                  reviewed |-> loaded.adjudications,
                  ready |-> {a \in V164!Accepts : ~ V164!Held(a.proposal.entity)
                                                  /\ a.proposal.entity \in compatible}]
    BY <1>6 DEF V164!Conclude
  <2>2. \A p \in V164!Proposals : p.record = loaded.records[p.entity]
    BY DEF V164!Proposals, V164!ProposalsOn, V164!ProposalOf
  <2>3. loaded'.adjudications = loaded.adjudications /\ adjudications' = adjudications
    BY <1>6 DEF V164!Conclude
  <2>4. Facing'
    BY <1>6, <2>1, <2>2, <2>3
  <2>5. ASSUME NEW a \in out'.ready
        PROVE  /\ a.decision = "ACCEPT" /\ a.saw = out'.records[a.proposal.entity]
               /\ out'.records[a.proposal.entity].decision # "HOLD"
               /\ out'.records[a.proposal.entity].state # "HOLD"
               /\ \A b \in out'.reviewed :
                    /\ b.proposal = a.proposal => b.decision = "ACCEPT"
                    /\ b.proposal.entity = a.proposal.entity /\ b.decision = "ACCEPT" => b = a
    <3>1. a \in V164!Accepts /\ ~ V164!Held(a.proposal.entity)
      BY <2>1, <2>5
    <3>2. a \in loaded.adjudications /\ a.decision = "ACCEPT" /\ a.proposal \in V164!Proposals
      BY <1>6, <3>1 DEF V164!Accepts, V164!Conclude, V164!Answerable
    <3>3. a.saw = loaded.records[a.proposal.entity]
      BY <1>6, <2>2, <3>2
    <3>4. ASSUME NEW b \in loaded.adjudications
          PROVE  /\ b.proposal = a.proposal => b.decision = "ACCEPT"
                 /\ b.proposal.entity = a.proposal.entity /\ b.decision = "ACCEPT" => b = a
      BY <1>6, <3>1, <3>2 DEF V164!Accepts, V164!Conclude, V164!Answerable
    <3>5. QED BY <2>1, <3>1, <3>2, <3>3, <3>4 DEF V164!Held
  <2>6. QED BY <2>4, <2>5 DEF V164!ReadySound
<1>7. QED BY <1>1, <1>2, <1>3, <1>4, <1>5, <1>6 DEF V164!SemanticNext

-----------------------------------------------------------------------------
(* The projections of v165.                                                 *)

Payloads == Values \cup {Legacy}
RecordsOf165 == [value : Payloads, decision : {"PENDING", "HOLD"}, note : Nat]

CompleteTypes ==
  /\ records \in [Entities -> RecordsOf165]
  /\ issues \in [Entities -> [V162!Kinds -> [status : {"NEEDS_REVIEW", "HOLD", "RESOLVED"}, version : Payloads]]]
  /\ \A p \in built : p.entity \in Entities /\ p.target \in Values
  /\ projected \in Seq(built)

(* A record has been projected once at most, and then has the payload of that projection
   and no open issue. *)
Once ==
  /\ \A i, j \in DOMAIN projected : projected[i].entity = projected[j].entity => i = j
  /\ \A i \in DOMAIN projected : records[projected[i].entity].value = projected[i].target
  /\ \A e \in Entities : (\A i \in DOMAIN projected : projected[i].entity # e) => records[e].value = Legacy
  /\ \A e \in Entities, k \in V162!Kinds :
       issues[e][k].status = "RESOLVED" <=> \E i \in DOMAIN projected : projected[i].entity = e

CompleteInv == CompleteTypes /\ Once /\ V165!NoWriteSkew

LEMMA OnceIsWhole == CompleteInv => V165!CompleteSound
BY DEF CompleteInv, Once, V165!CompleteSound, V165!OnceAndWhole, V165!ProjectionsOf

LEMMA CompleteInitInv == V165!CompleteInit => CompleteInv
BY DEF V165!CompleteInit, CompleteInv, CompleteTypes, Once, V165!NoWriteSkew, RecordsOf165, Payloads

LEMMA CompleteStep == CompleteInv /\ V165!CompleteNext => CompleteInv'
<1>1. ASSUME CompleteInv, NEW e \in Entities, V165!BuildProposal(e) PROVE CompleteInv'
  <2>1. UNCHANGED <<records, issues, projected>>
    BY <1>1 DEF V165!BuildProposal
  <2>2. built \subseteq built' /\ \A p \in built' : p.entity \in Entities /\ p.target \in Values
    BY <1>1 DEF V165!BuildProposal, CompleteInv, CompleteTypes
  <2>3. projected' \in Seq(built')
    BY <1>1, <2>1, <2>2 DEF CompleteInv, CompleteTypes
  <2>4. QED BY <1>1, <2>1, <2>2, <2>3 DEF CompleteInv, CompleteTypes, Once, V165!NoWriteSkew, V165!Before
<1>2. ASSUME CompleteInv, NEW p \in built, V165!Adjudicate(p) PROVE CompleteInv'
  BY <1>2 DEF V165!Adjudicate, CompleteInv, CompleteTypes, Once, V165!NoWriteSkew, V165!Before
<1>3. ASSUME CompleteInv, V165!Edit PROVE CompleteInv'
  <2>1. UNCHANGED <<issues, built, projected>>
    BY <1>3 DEF V165!Edit
  <2>2. records' \in [Entities -> RecordsOf165] /\ \A e \in Entities : records'[e].value = records[e].value
    <3>1. CASE records' = records
      BY <1>3, <3>1 DEF CompleteInv, CompleteTypes
    <3>2. ASSUME NEW e \in Entities, NEW d \in {"PENDING", "HOLD"}, records' = [records EXCEPT ![e].decision = d]
          PROVE  records' \in [Entities -> RecordsOf165] /\ \A f \in Entities : records'[f].value = records[f].value
      BY <1>3, <3>2 DEF CompleteInv, CompleteTypes, RecordsOf165
    <3>3. ASSUME NEW e \in Entities, records' = [records EXCEPT ![e].note = @ + 1]
          PROVE  records' \in [Entities -> RecordsOf165] /\ \A f \in Entities : records'[f].value = records[f].value
      <4> DEFINE noted == [records[e] EXCEPT !.note = records[e].note + 1]
      <4>1. records[e] \in RecordsOf165
        BY <1>3 DEF CompleteInv, CompleteTypes
      <4>2. noted \in RecordsOf165 /\ noted.value = records[e].value
        BY <4>1 DEF RecordsOf165
      <4>3. records' = [records EXCEPT ![e] = noted]
        BY <3>3
      <4> HIDE DEF noted
      <4>4. QED BY <1>3, <4>2, <4>3 DEF CompleteInv, CompleteTypes
    <3>4. QED BY <1>3, <3>1, <3>2, <3>3 DEF V165!Edit
  <2>3. \A i \in DOMAIN projected : projected[i].entity \in Entities
    BY <1>3 DEF CompleteInv, CompleteTypes
  <2>4. QED BY <1>3, <2>1, <2>2, <2>3 DEF CompleteInv, CompleteTypes, Once, V165!NoWriteSkew, V165!Before
<1>4. ASSUME CompleteInv, NEW p \in built, V165!Project(p) PROVE CompleteInv'
  <2> DEFINE e == p.entity
             n == Len(projected) + 1
  <2>1. e \in Entities /\ p.target \in Values /\ Len(projected) \in Nat
    BY <1>4 DEF CompleteInv, CompleteTypes
  <2>2. p.kinds = V162!Kinds
    BY <1>4, <2>1 DEF V165!Project, V165!BundleValid, V165!Current, CompleteInv, CompleteTypes
  <2>3. projected' = Append(projected, p) /\ built' = built
    BY <1>4 DEF V165!Project
  <2>4. /\ DOMAIN projected = 1..Len(projected) /\ DOMAIN projected' = 1..n
        /\ projected'[n] = p /\ \A i \in DOMAIN projected : i # n /\ projected'[i] = projected[i]
    BY <2>1, <2>3, <1>4 DEF CompleteInv, CompleteTypes
  <2>5. \A i \in DOMAIN projected : projected[i].entity # e /\ projected[i].entity \in Entities
    <3>1. "object_value" \in V162!Kinds
      BY DEF V162!Kinds
    <3>2. issues[e]["object_value"].status # "RESOLVED"
      BY <1>4, <2>2, <3>1 DEF V165!Project, V165!Resolvable
    <3>3. QED BY <1>4, <2>1, <3>1, <3>2 DEF CompleteInv, CompleteTypes, Once
  <2>6. records' = [records EXCEPT ![e] = [@ EXCEPT !.value = p.target]]
    BY <1>4 DEF V165!Project
  <2>7. \A d \in Entities : records'[d].value = IF d = e THEN p.target ELSE records[d].value
    BY <1>4, <2>1, <2>6 DEF CompleteInv, CompleteTypes, RecordsOf165
  <2>8. records' \in [Entities -> RecordsOf165]
    BY <1>4, <2>1, <2>6 DEF CompleteInv, CompleteTypes, RecordsOf165, Payloads
  <2>9. /\ issues' \in [Entities -> [V162!Kinds -> [status : {"NEEDS_REVIEW", "HOLD", "RESOLVED"}, version : Payloads]]]
        /\ \A d \in Entities, k \in V162!Kinds :
             issues'[d][k].status = IF d = e THEN "RESOLVED" ELSE issues[d][k].status
    <3> DEFINE mine == [k \in V162!Kinds |-> [issues[e][k] EXCEPT !.status = "RESOLVED"]]
    <3>1. issues' = [issues EXCEPT ![e] = mine]
      BY <1>4, <2>2 DEF V165!Project
    <3>2. issues[e] \in [V162!Kinds -> [status : {"NEEDS_REVIEW", "HOLD", "RESOLVED"}, version : Payloads]]
      BY <1>4, <2>1 DEF CompleteInv, CompleteTypes
    <3>3. /\ mine \in [V162!Kinds -> [status : {"NEEDS_REVIEW", "HOLD", "RESOLVED"}, version : Payloads]]
          /\ \A k \in V162!Kinds : mine[k].status = "RESOLVED"
      BY <3>2
    <3> HIDE DEF mine
    <3>4. QED BY <1>4, <2>1, <3>1, <3>3 DEF CompleteInv, CompleteTypes
  <2>10. CompleteTypes'
    <3>1. projected' \in Seq(built')
      BY <1>4, <2>3 DEF CompleteInv, CompleteTypes
    <3>2. QED BY <1>4, <2>3, <2>8, <2>9, <3>1 DEF CompleteInv, CompleteTypes
  <2>11. Once'
    <3>1. \A i \in 1..n : i = n \/ i \in DOMAIN projected
      BY <2>1, <2>4
    <3>2. \A i, j \in DOMAIN projected' : projected'[i].entity = projected'[j].entity => i = j
      BY <1>4, <2>4, <2>5, <3>1 DEF CompleteInv, Once
    <3>3. \A i \in DOMAIN projected' : records'[projected'[i].entity].value = projected'[i].target
      BY <1>4, <2>1, <2>4, <2>5, <2>7, <3>1 DEF CompleteInv, Once
    <3>4. n \in DOMAIN projected' /\ DOMAIN projected \subseteq DOMAIN projected'
      BY <2>1, <2>4
    <3>5. \A d \in Entities : (\A i \in DOMAIN projected' : projected'[i].entity # d) => records'[d].value = Legacy
      BY <1>4, <2>4, <2>7, <3>4 DEF CompleteInv, Once
    <3>6. ASSUME NEW d \in Entities, NEW k \in V162!Kinds
          PROVE  issues'[d][k].status = "RESOLVED" <=> \E i \in DOMAIN projected' : projected'[i].entity = d
      <4>1. CASE d = e
        BY <2>4, <2>9, <3>4, <4>1
      <4>2. CASE d # e
        <5>1. issues'[d][k].status = issues[d][k].status
          BY <2>9, <4>2
        <5>2. (\E i \in DOMAIN projected' : projected'[i].entity = d)
                <=> \E i \in DOMAIN projected : projected[i].entity = d
          BY <2>4, <3>1, <3>4, <4>2
        <5>3. QED BY <1>4, <5>1, <5>2 DEF CompleteInv, Once
      <4>3. QED BY <4>1, <4>2
    <3>7. QED BY <3>2, <3>3, <3>5, <3>6 DEF Once
  <2>12. V165!NoWriteSkew'
    <3> SUFFICES ASSUME NEW i \in DOMAIN projected', NEW j \in DOMAIN projected', i < j,
                        projected'[i].entity \in DOMAIN projected'[j].needs
                 PROVE  projected'[j].needs[projected'[i].entity].value = projected'[i].target
      BY DEF V165!NoWriteSkew, V165!Before
    <3>1. i \in DOMAIN projected /\ projected'[i] = projected[i]
      BY <2>1, <2>4
    <3>2. CASE j = n
      <4>1. projected'[j] = p
        BY <2>4, <3>2
      <4>2. records[projected[i].entity] = p.needs[projected[i].entity]
        BY <1>4, <3>1, <4>1 DEF V165!Project, V165!DependenciesHold
      <4>3. QED BY <1>4, <3>1, <4>1, <4>2 DEF CompleteInv, Once
    <3>3. CASE j # n
      <4>1. j \in DOMAIN projected /\ projected'[j] = projected[j]
        BY <2>1, <2>4, <3>3
      <4>2. QED BY <1>4, <3>1, <4>1 DEF CompleteInv, V165!NoWriteSkew, V165!Before
    <3>4. QED BY <3>2, <3>3
  <2>13. QED BY <2>10, <2>11, <2>12 DEF CompleteInv
<1>5. QED BY <1>1, <1>2, <1>3, <1>4 DEF V165!CompleteNext

-----------------------------------------------------------------------------
(* The remediation of v162.                                                 *)

Versions == [V162!Kinds -> Values \cup {"legacy"}]
Images == [V162!Fields -> [V162!Kinds -> Values \cup {"legacy", "-"}]]
PagesOf162 == [fields : Images, hold : BOOLEAN, placed : BOOLEAN]

OnPage(e, f) == pages[pageOf[e]].fields[f]

PageTypes ==
  /\ pageOf \in [Entities -> Pages]
  /\ pages \in [Pages -> PagesOf162]
  /\ saved \in [Pages -> PagesOf162]

(* A field that has been written is not written again. *)
Settled ==
  \A g \in Pages, f \in V162!Fields : saved[g].fields[f] \in {V162!Blank, pages[g].fields[f]}

(* What is planned for a record of the canary fills the empty fields of its page, and the
   others say already what its new version says. *)
Fillable(e) ==
  /\ e \in Entities /\ V162!Sole(e)
  /\ plan[e].class = "ELIGIBLE_CANARY" /\ plan[e].payload \in Versions
  /\ \A k \in IssuesOf[e] : plan[e].payload[k] # "legacy"
  /\ DOMAIN plan[e].delta # {} /\ DOMAIN plan[e].delta \subseteq V162!Fields
  /\ DOMAIN plan[e].before = DOMAIN plan[e].delta
  /\ \A f \in DOMAIN plan[e].delta :
       plan[e].delta[f] = V162!Written(plan[e].payload)[f] /\ plan[e].before[f] = V162!Blank
  /\ \A f \in V162!Fields \ DOMAIN plan[e].delta : OnPage(e, f) = V162!Written(plan[e].payload)[f]

(* So it is, of one version, for the record being written, whatever is planned meanwhile. *)
Filling(p) ==
  /\ \A f \in writing.fields :
       writing.delta[f] = V162!Written(p)[f] /\ OnPage(writing.entity, f) = V162!Blank
  /\ \A f \in V162!Fields \ writing.fields : OnPage(writing.entity, f) = V162!Written(p)[f]

Underway ==
  /\ writing = [entity |-> writing.entity, fields |-> writing.fields, delta |-> writing.delta]
  /\ writing.fields # {} =>
       /\ writing.entity \in Entities /\ V162!Sole(writing.entity)
       /\ writing.fields \subseteq V162!Fields
       /\ \E p \in Versions : Filling(p)

RemedyInv ==
  /\ PageTypes /\ Settled /\ Underway /\ V162!NoMixedVersions
  /\ \A e \in canary : Fillable(e)
  /\ V162!Cardinality(canary) <= MaxCanary

LEMMA RemedyInvSound == RemedyInv => V162!RemedySound
BY DEF RemedyInv, Fillable, V162!RemedySound, V162!CanarySound, V162!Sole

(* Every field says something of a version. *)
LEMMA WrittenNotBlank ==
  ASSUME NEW p \in Versions, NEW f \in V162!Fields
  PROVE  V162!Written(p)[f] # V162!Blank
<1>1. PICK k \in V162!Kinds : k \in V162!Says[f]
  BY DEF V162!Fields, V162!Says, V162!Kinds
<1>2. p[k] # "-"
  BY ReviewsAssumption DEF Versions
<1>3. V162!Written(p)[f][k] = p[k] /\ V162!Blank[k] = "-"
  BY <1>1 DEF V162!Written, V162!Blank
<1>4. QED BY <1>2, <1>3

LEMMA WrittenType ==
  ASSUME NEW p \in Versions, NEW f \in V162!Fields
  PROVE  V162!Written(p)[f] \in [V162!Kinds -> Values \cup {"legacy", "-"}]
BY DEF V162!Written, Versions

LEMMA BlankType == V162!Blank \in [V162!Kinds -> Values \cup {"legacy", "-"}]
BY DEF V162!Blank

LEMMA EmptyCanary == V162!Cardinality({}) = 0
BY FS_EmptySet DEF V162!Cardinality, Cardinality

LEMMA RemedyInit == V162!RemediationInit => RemedyInv
<1> SUFFICES ASSUME V162!RemediationInit PROVE RemedyInv
  OBVIOUS
<1>1. pages = [g \in Pages |-> [fields |-> [f \in V162!Fields |-> V162!Blank], hold |-> FALSE, placed |-> TRUE]]
      /\ saved = pages /\ pageOf \in [Entities -> Pages] /\ canary = {} /\ writing = V162!Idle
  BY DEF V162!RemediationInit
<1>2. [f \in V162!Fields |-> V162!Blank] \in Images
  BY BlankType DEF Images
<1>3. PageTypes
  BY <1>1, <1>2 DEF PageTypes, PagesOf162
<1>4. Settled /\ V162!NoMixedVersions
  <2>1. \A g \in Pages, f \in V162!Fields : pages[g].fields[f] = V162!Blank
    BY <1>1
  <2>2. [k \in V162!Kinds |-> "legacy"] \in Versions
    BY DEF Versions
  <2>3. \A e \in Entities : pageOf[e] \in Pages
    BY <1>1
  <2>4. V162!NoMixedVersions
    BY <2>1, <2>2, <2>3 DEF V162!NoMixedVersions, Versions
  <2>5. QED BY <1>1, <2>1, <2>4 DEF Settled
<1>5. Underway
  BY <1>1 DEF Underway, V162!Idle
<1>6. QED BY <1>1, <1>3, <1>4, <1>5, EmptyCanary, ReviewsAssumption DEF RemedyInv

(* A step that leaves the fields of the pages alone. *)
LEMMA FieldsStay ==
  ASSUME RemedyInv, UNCHANGED pageOf, PageTypes', Settled',
         \A g \in Pages : pages'[g].fields = pages[g].fields,
         UNCHANGED writing \/ writing' = V162!Idle,
         UNCHANGED <<plan, canary>>
  PROVE  RemedyInv'
<1>1. \A e \in Entities : pageOf[e] \in Pages /\ pageOf'[e] \in Pages
  BY DEF RemedyInv, PageTypes
<1>2. \A e \in Entities, f \in V162!Fields : OnPage(e, f)' = OnPage(e, f)
  BY <1>1 DEF OnPage
<1>3. V162!NoMixedVersions'
  BY <1>1, <1>2 DEF RemedyInv, V162!NoMixedVersions, OnPage
<1>4. \A e \in canary : Fillable(e)'
  BY <1>2 DEF RemedyInv, Fillable, V162!Sole
<1>5. Underway'
  <2>1. CASE writing' = V162!Idle
    BY <2>1 DEF Underway, V162!Idle
  <2>2. CASE UNCHANGED writing
    <3>1. ASSUME NEW p \in Versions, writing.fields # {}, Filling(p) PROVE Filling(p)'
      BY <1>2, <2>2, <3>1 DEF RemedyInv, Underway, Filling
    <3>2. QED BY <2>2, <3>1 DEF RemedyInv, Underway, V162!Sole
  <2>3. QED BY <2>1, <2>2
<1>6. QED BY <1>3, <1>4, <1>5 DEF RemedyInv

LEMMA SaveStep == ASSUME RemedyInv, V162!SaveReviews PROVE RemedyInv'
<1>1. PageTypes' /\ Settled'
  BY DEF V162!SaveReviews, RemedyInv, PageTypes, Settled
<1>2. QED BY <1>1, FieldsStay DEF V162!SaveReviews

LEMMA ChangesStep == ASSUME RemedyInv, V162!Changes PROVE RemedyInv'
<1>1. UNCHANGED <<pageOf, saved, plan, canary, writing>>
  BY DEF V162!Changes
<1>2. pages' \in [Pages -> PagesOf162] /\ \A g \in Pages : pages'[g].fields = pages[g].fields
  <2>1. CASE UNCHANGED pages
    BY <2>1 DEF RemedyInv, PageTypes
  <2>2. ASSUME NEW g \in Pages, NEW b \in BOOLEAN,
               pages' = [pages EXCEPT ![g].hold = b] \/ pages' = [pages EXCEPT ![g].placed = b]
        PROVE  pages' \in [Pages -> PagesOf162] /\ \A h \in Pages : pages'[h].fields = pages[h].fields
    BY <2>2 DEF RemedyInv, PageTypes, PagesOf162
  <2>3. ASSUME NEW g \in Pages, pages' = [pages EXCEPT ![g].hold = ~ pages[g].hold]
               \/ pages' = [pages EXCEPT ![g].placed = ~ pages[g].placed]
        PROVE  \E b \in BOOLEAN :
                 pages' = [pages EXCEPT ![g].hold = b] \/ pages' = [pages EXCEPT ![g].placed = b]
    BY <2>3
  <2>4. QED BY <2>1, <2>2, <2>3 DEF V162!Changes
<1>3. PageTypes' /\ Settled'
  BY <1>1, <1>2 DEF RemedyInv, PageTypes, Settled
<1>4. QED BY <1>1, <1>2, <1>3, FieldsStay

LEMMA DiesStep == ASSUME RemedyInv, V162!ExecutorDies PROVE RemedyInv'
<1>1. PageTypes' /\ Settled'
  BY DEF V162!ExecutorDies, RemedyInv, PageTypes, Settled
<1>2. QED BY <1>1, FieldsStay DEF V162!ExecutorDies

LEMMA StartStep == ASSUME RemedyInv, NEW e \in Entities, V162!StartRecord(e) PROVE RemedyInv'
<1>1. /\ writing' = [entity |-> e, fields |-> DOMAIN plan[e].delta, delta |-> plan[e].delta]
      /\ e \in canary /\ UNCHANGED <<pageOf, pages, evidence, saved, plan, canary, changes>>
      /\ \A f \in DOMAIN plan[e].before : OnPage(e, f) = plan[e].before[f]
  BY DEF V162!StartRecord, OnPage
<1>2. Fillable(e)
  BY <1>1 DEF RemedyInv
<1>3. Filling(plan[e].payload)'
  BY <1>1, <1>2 DEF Filling, Fillable, OnPage
<1>4. Underway'
  BY <1>1, <1>2, <1>3 DEF Underway, Fillable, V162!Sole
<1>5. \A d \in canary : Fillable(d)'
  BY <1>1 DEF RemedyInv, Fillable, V162!Sole, OnPage
<1>6. QED BY <1>1, <1>4, <1>5 DEF RemedyInv, PageTypes, Settled, V162!NoMixedVersions

LEMMA WriteStep == ASSUME RemedyInv, V162!WriteField PROVE RemedyInv'
<1> DEFINE e == writing.entity
           g == pageOf[writing.entity]
<1>1. PICK f \in writing.fields :
        /\ pages' = [pages EXCEPT ![g].fields[f] = writing.delta[f]]
        /\ writing' = IF writing.fields = {f} THEN V162!Idle
                      ELSE [writing EXCEPT !.fields = @ \ {f}]
  BY DEF V162!WriteField
<1>2. UNCHANGED <<pageOf, saved, plan, canary>>
  BY DEF V162!WriteField
<1>3. e \in Entities /\ V162!Sole(e) /\ writing.fields \subseteq V162!Fields /\ f \in V162!Fields
  BY <1>1 DEF RemedyInv, Underway
<1>4. PICK p \in Versions : Filling(p)
  BY <1>1 DEF RemedyInv, Underway
<1>5. g \in Pages /\ pages[g] \in PagesOf162
  BY <1>3 DEF RemedyInv, PageTypes
<1>6. writing.delta[f] = V162!Written(p)[f] /\ pages[g].fields[f] = V162!Blank
  BY <1>1, <1>4 DEF Filling, OnPage
<1> DEFINE image == [pages[g].fields EXCEPT ![f] = V162!Written(p)[f]]
           page == [pages[g] EXCEPT !.fields = image]
<1>7. image \in Images
  BY <1>3, <1>5, WrittenType DEF PagesOf162, Images
<1>8. page \in PagesOf162 /\ page.fields = image
  BY <1>5, <1>7 DEF PagesOf162
<1>9. pages' = [pages EXCEPT ![g] = page]
  BY <1>1, <1>6
<1>10. /\ pages' \in [Pages -> PagesOf162]
       /\ \A h \in Pages : h # g => pages'[h] = pages[h]
       /\ pages'[g].fields = image
  <2> HIDE DEF page
  <2>1. QED BY <1>5, <1>8, <1>9 DEF RemedyInv, PageTypes
<1>11. \A h \in Pages, k \in V162!Fields :
         pages'[h].fields[k] = IF h = g /\ k = f THEN V162!Written(p)[f] ELSE pages[h].fields[k]
  BY <1>3, <1>5, <1>10 DEF PagesOf162, Images
<1> HIDE DEF image, page
<1>12. PageTypes'
  BY <1>2, <1>10 DEF RemedyInv, PageTypes
<1>13. Settled'
  BY <1>2, <1>6, <1>11, <1>5 DEF RemedyInv, Settled
<1>14. \A d \in Entities : pageOf[d] \in Pages /\ (pageOf[d] = g => d = e)
  BY <1>3 DEF RemedyInv, PageTypes, V162!Sole
<1>15. \A d \in Entities, k \in V162!Fields :
         OnPage(d, k)' = IF d = e /\ k = f THEN V162!Written(p)[f] ELSE OnPage(d, k)
  BY <1>2, <1>11, <1>14 DEF OnPage
<1>16. V162!NoMixedVersions'
  <2>1. ASSUME NEW d \in Entities
        PROVE  \E q \in Versions : \A k \in V162!Fields : OnPage(d, k)' \in {V162!Blank, V162!Written(q)[k]}
    <3>1. CASE d = e
      BY <1>3, <1>4, <1>15, <3>1 DEF Filling
    <3>2. CASE d # e
      <4>1. PICK q \in Versions : \A k \in V162!Fields : OnPage(d, k) \in {V162!Blank, V162!Written(q)[k]}
        BY DEF RemedyInv, V162!NoMixedVersions, Versions, OnPage
      <4>2. \A k \in V162!Fields : OnPage(d, k)' = OnPage(d, k)
        BY <1>15, <3>2
      <4>3. QED BY <4>1, <4>2
    <3>3. QED BY <3>1, <3>2
  <2>2. \A d \in Entities : \E q \in Versions : \A k \in V162!Fields :
          pages'[pageOf'[d]].fields[k] \in {V162!Blank, V162!Written(q)[k]}
    BY <2>1 DEF OnPage
  <2>3. QED BY <2>2 DEF V162!NoMixedVersions, Versions
<1>17. ASSUME NEW d \in canary PROVE Fillable(d)'
  <2>1. Fillable(d)
    BY DEF RemedyInv
  <2>2. \A k \in V162!Fields \ DOMAIN plan[d].delta : ~ (d = e /\ k = f)
    BY <1>6, <2>1, WrittenNotBlank DEF Fillable, OnPage
  <2>3. QED BY <1>2, <1>15, <2>1, <2>2 DEF Fillable, V162!Sole
<1>18. Underway'
  <2>1. CASE writing.fields = {f}
    BY <1>1, <2>1 DEF Underway, V162!Idle
  <2>2. CASE writing.fields # {f}
    <3>1. writing' = [entity |-> e, fields |-> writing.fields \ {f}, delta |-> writing.delta]
      BY <1>1, <2>2 DEF RemedyInv, Underway
    <3>2. Filling(p)'
      BY <1>3, <1>4, <1>15, <3>1 DEF Filling
    <3>3. QED BY <1>2, <1>3, <3>1, <3>2 DEF Underway, V162!Sole
  <2>3. QED BY <2>1, <2>2
<1>19. QED BY <1>2, <1>12, <1>13, <1>16, <1>17, <1>18 DEF RemedyInv

(* What a class that allows the canary says of a record. *)
LEMMA EligibleMeans ==
  ASSUME RemedyInv, NEW e \in V162!Eligible
  PROVE  /\ e \in Entities /\ V162!Sole(e) /\ V162!Class(e) = "ELIGIBLE_CANARY"
         /\ V162!Unresolved(e) = {} /\ DOMAIN V162!Delta(e) # {} /\ V162!BeforeEmpty(e)
<1>1. e \in Entities /\ V162!Class(e) = "ELIGIBLE_CANARY"
  BY DEF V162!Eligible
<1> DEFINE S == V162!Sole(e)
           U == V162!Unresolved(e) # {}
           D == DOMAIN V162!Delta(e) = {}
           B == V162!BeforeEmpty(e)
           H == saved[pageOf[e]].hold
           P == saved[pageOf[e]].placed
<1>2. V162!Class(e) =
        CASE H -> "BLOCKED_HUMAN_DECISION"
          [] ~ H /\ (~ S \/ ~ P \/ U) -> "BLOCKED_DATA_QUALITY"
          [] OTHER -> IF D THEN "UNCHANGED" ELSE IF B THEN "ELIGIBLE_CANARY" ELSE "BLOCKED_DATA_QUALITY"
  BY DEF V162!Class
<1> HIDE DEF S, U, D, B, H, P
<1>3. S /\ ~ U /\ ~ D /\ B
  BY <1>1, <1>2
<1>4. QED BY <1>1, <1>3 DEF S, U, D, B

LEMMA ComputeStep == ASSUME RemedyInv, V162!Compute PROVE RemedyInv'
<1>1. /\ plan' = [e \in Entities |->
            [class |-> V162!Class(e), payload |-> V162!Payload(e), delta |-> V162!Delta(e),
             before |-> [f \in DOMAIN V162!Delta(e) |-> saved[pageOf[e]].fields[f]]]]
      /\ canary' \subseteq V162!Eligible /\ V162!Cardinality(canary') <= MaxCanary
      /\ UNCHANGED <<pageOf, pages, evidence, saved, writing, changes>>
  BY DEF V162!Compute
<1>2. ASSUME NEW e \in canary' PROVE Fillable(e)'
  <2> DEFINE v == V162!Payload(e)
             old == saved[pageOf[e]].fields
  <2>1. /\ e \in Entities /\ V162!Sole(e) /\ V162!Class(e) = "ELIGIBLE_CANARY"
        /\ V162!Unresolved(e) = {} /\ DOMAIN V162!Delta(e) # {} /\ V162!BeforeEmpty(e)
    BY <1>1, EligibleMeans
  <2>2. plan'[e].class = "ELIGIBLE_CANARY" /\ plan'[e].payload = v /\ plan'[e].delta = V162!Delta(e)
        /\ plan'[e].before = [f \in DOMAIN V162!Delta(e) |-> old[f]]
    BY <1>1, <2>1
  <2>3. v \in Versions
    BY DEF V162!Payload, V162!Answers, V162!Baseline, Versions
  <2>4. \A k \in IssuesOf[e] : v[k] # "legacy"
    BY <2>1, ReviewsAssumption DEF V162!Payload, V162!Unresolved, V162!Answers
  <2>5. DOMAIN V162!Delta(e) = {f \in V162!Fields : v # V162!Baseline(e) /\ old[f] # V162!Written(v)[f]}
        /\ \A f \in DOMAIN V162!Delta(e) : V162!Delta(e)[f] = V162!Written(v)[f]
    BY DEF V162!Delta
  <2>6. \A f \in DOMAIN V162!Delta(e) : old[f] = V162!Blank
    BY <2>1 DEF V162!BeforeEmpty
  <2> HIDE DEF v
  <2>7. ASSUME NEW f \in V162!Fields \ DOMAIN V162!Delta(e) PROVE OnPage(e, f) = V162!Written(v)[f]
    <3>1. old[f] = V162!Written(v)[f]
      BY <2>1, <2>5
    <3>2. old[f] # V162!Blank
      BY <2>3, <3>1, WrittenNotBlank
    <3>3. pageOf[e] \in Pages
      BY <2>1 DEF RemedyInv, PageTypes
    <3>4. QED BY <3>1, <3>2, <3>3 DEF RemedyInv, Settled, OnPage
  <2>8. DOMAIN plan'[e].before = DOMAIN V162!Delta(e)
        /\ \A f \in DOMAIN V162!Delta(e) : plan'[e].before[f] = V162!Blank
    BY <2>2, <2>6
  <2>9. V162!Sole(e)' /\ \A f \in V162!Fields : OnPage(e, f)' = OnPage(e, f)
    BY <1>1, <2>1 DEF V162!Sole, OnPage
  <2>10. QED BY <2>1, <2>2, <2>3, <2>4, <2>5, <2>7, <2>8, <2>9 DEF Fillable
<1>3. Underway'
  BY <1>1 DEF RemedyInv, Underway, Filling, OnPage, V162!Sole
<1>4. QED BY <1>1, <1>2, <1>3 DEF RemedyInv, PageTypes, Settled, V162!NoMixedVersions

LEMMA RemedyStep == RemedyInv /\ V162!RemediationNext => RemedyInv'
BY ComputeStep, SaveStep, ChangesStep, StartStep, WriteStep, DiesStep DEF V162!RemediationNext

-----------------------------------------------------------------------------
(* The three reviews.                                                       *)

ReviewsInv ==
  /\ reviewing = "v162" => RemedyInv
  /\ reviewing = "v164" => ReadyInv
  /\ reviewing = "v165" => CompleteInv

LEMMA ReviewsStep == ReviewsInv /\ [ReviewsNext]_reviewVars => ReviewsInv'
<1>1. ASSUME RemedyInv, UNCHANGED own162 PROVE RemedyInv'
  BY <1>1 DEF own162, RemedyInv, PageTypes, Settled, Underway, Filling, Fillable, OnPage,
              V162!Sole, V162!NoMixedVersions
<1>2. ASSUME ReadyInv, UNCHANGED <<own164, records>> PROVE ReadyInv'
  BY <1>2 DEF own164, ReadyInv, Facing, Faced, V164!ReadySound
<1>3. ASSUME CompleteInv, UNCHANGED <<own165, records>> PROVE CompleteInv'
  BY <1>3 DEF own165, CompleteInv, CompleteTypes, Once, V165!NoWriteSkew, V165!Before
<1>4. QED BY <1>1, <1>2, <1>3, RemedyStep, ReadyStep, CompleteStep DEF ReviewsInv, ReviewsNext, reviewVars

(* What a review lets through is what was reviewed, on the records as they were then: a page
   of v162 never has fields of two versions and its canary is small, whole and one to a
   page, if whoever writes them looks at the before image first; what v164 hands on was
   accepted, and not rejected, by reviewers who saw the record as the run found it; and v165 projects a record once, as a whole, and never two proposals that each leaned
   on what the other replaced (v162_remediation/core.py, v164_semantics/pipeline.py,
   v165_complete_record/core.py). *)
THEOREM ReviewsAreSound == ReviewsSpec => []ReviewsSound
<1>1. ReviewsInit => ReviewsInv
  BY RemedyInit, ReadyInit, CompleteInitInv DEF ReviewsInit, ReviewsInv
<1>2. ReviewsInv => ReviewsSound
  BY RemedyInvSound, OnceIsWhole DEF ReviewsInv, ReviewsSound, ReadyInv
<1>3. QED BY <1>1, <1>2, ReviewsStep, PTL DEF ReviewsSpec
=============================================================================
