# Verification of the THBISON content platform and knowledge factory

TLA+ models, TLC runs and TLAPS proofs about the services under
`src/content-os/modules` and the batch programs of `src/src/kf_pilot` with the
notebooks and job scripts that drive them. Every definition is translated from
the code; the docs and tests are used only to say what the code is meant to do.

Paths below are relative to the repository's files; `V1` to `V6` are the
directories `content-os/modules/vendor1` to `vendor6`, `KF` is `src/kf_pilot`.

## 1. Inventory of the system

The platform turns knowledge claims into published articles. Five services share
one written contract, `content-os/contracts/BEHAVIOR.md`: every POST carries an
idempotency key, admission is stored before effects, budgets are reserved before
provider calls, a cancellation is terminal, unknown outcomes are reconciled and
never retried blindly, and evidence is revocable up to the moment of publishing.
`kf_pilot` is the factory that produces the claims: it extracts documents, has
people review what was found, and moves what they accept, version by version,
towards a store of records.

| Component | State | Operations | Talks to |
|---|---|---|---|
| Runtime (V3 `runtime.py`, `store.py`, `projection.py`, `api.py`) | SQLite: jobs, leases, budgets, unknown outcomes, receipts, audit chain | submit, claim, heartbeat, complete (success, retry, failure, unknown), reconcile, cancel, reserve_budget, lease expiry | workers poll it over HTTP |
| CMS adapter (V5 `adapter.py`, `ledger.py`, `simulator.py`, `authority.py`, `flock.py`) | SQLite: idempotency, drafts, unknown outcomes; the CMS's drafts; a lock file | publish, reconcile, rollback_own, update_draft | approval authority, CMS, other processes through the lock file |
| Planning (V1 `src/planning/*.ts`) | one JSON ledger: jobs, idempotency, reservations, cache, brief revisions | admit, run, cancel, getOutput, revise | research provider; itself through microtasks |
| Content workflow (V2 `src/lib/content-os/*.ts`) | SQL tables: jobs, articles, evidence, approvals, publications; in-memory queue and CMS mock | submit and process jobs, cancel, editArticle, issueApproval, revokeEvidence, submitPublication, reconcile | planning, gateway, CMS |
| Knowledge and asset gateway (V4 `main.py`, `store.py`) | in memory: claims, revocations, cache, bundles, idempotency; on disk: uploads | query, invalidate, start/complete upload, read, refresh | content workflow reads bundles |
| Integration lab (V6 `harness/lab.py`, `simulators/*`, `ledger.py`, `faults.py`) | one JSON file per table under a lock | run_chain over five simulators, rollback, faults, kills | itself, by threads |
| Staging preflights (V3, V4, V6 `staging_preflight.py`, `staging/preflight.py`) | findings of one pass | read-only walk of databases, rows and relations | a Notion-like provider that may answer anything |
| Machine admission (`KF/machine_admission`) | files: commits and markers, revocations, budget, raw documents, manifest, draft | acquire, run (generate, commit, preview), read_current, invalidate | public web sources |
| Extraction (`notebooks/10_extract_and_ocr.py`, `KF/core.py`) | tables and run manifest of a session's output directory | extract, OCR within a budget, checkpoint, resume | earlier sessions' outputs |
| Review loop (`notebooks/20_claims_score_notion.py`, `KF/claims.py`, `notion_sync.py`, `canonicalize.py`) | cache of model answers, Notion cards, decisions | extract claims, cluster, sync, pull decisions | Notion, a language model, people |
| Contractor bridge (`KF/contractor_bridge`) | the contractor's job ledger; one receipt file per work_root | run, replay, resume | ledger and projector of the contractor |
| Staging rehearsal (`KF/v161_staging`) | staging pages, recovery artifacts | snapshot, apply, prove, apply again, roll back | Notion staging, people who edit |
| Record reviews (`KF/v162_remediation`, `v164_semantics`, `v165_complete_record`) | plans, adjudications, receipts, projected records | compute, save reviews; run, review; build, adjudicate, project | people, and an executor outside the repository |
| Evidence pipeline (`KF/v165_complete_record`, `v166_evidence_completion`) | output directories with lists of hashes | discover, freeze, run, propose, review-check, project-shadow, verify | each other through directories |
| Input audit (`scripts/jobs/j1_input_audit.py`) | none of its own | inventory of a working tree against manifests | the tree, which may change |

How they interact. The workflow (V2) asks planning (V1) for briefs and the gateway
(V4) for evidence, and publishes to a CMS; the adapter (V5) does the same for
several processes; the runtime (V3) hands out the jobs. The factory's pieces meet
through files and directories only: acquisition feeds admission, extraction feeds
the review loop, v162 feeds v164, v165 and v166. V6 runs a chain over stand-ins of
all five services.

What is hard in each, and what makes it correct:

* **Runtime.** SQLite in autocommit mode: the statements of one handler commit one
  by one. `cancel` runs in a thread pool beside the event loop; leases expire
  while a worker may still answer; the process may stop between any two
  statements. Correct: the account of a job never exceeds its budget, a job has
  one active lease, an unknown outcome blocks the job until reconciled, a
  cancelled job is not handed out, a succeeded job has its receipt, no queued job
  starves.
* **CMS adapter.** The CMS may store a draft and lose the reply; processes die;
  several processes and a rollback work on one article. Correct: one answer per
  key, no draft claimed twice, no PUBLISHED without a draft, every unknown outcome
  recorded, every draft owned by the run that made it, no process locked out.
* **Planning and content jobs.** A run is many transactions with awaits between
  them; a ledger write may throw after memory changed; a restart loses the
  microtask. Correct: what was told is kept, a cancellation stands, no work is
  done twice, every job ends unless its process does.
* **Publications.** Handlers await between reads and writes; two records of one
  decision (column and JSON body) are updated separately; the CMS reply may be
  lost. Correct: every draft has an account, an answer stands, nothing is
  published once its evidence was revoked.
* **Gateway.** Handlers on threads without a lock; a query writes its result into
  the cache under a revision it reads at the end; an upload is two files and three
  dictionaries. Correct: the cache holds nothing that was not usable when it was
  computed, an upload is VERIFIED only with its bytes, a restart loses no
  completed upload.
* **Preflights.** The provider may answer any call with anything, also with what makes
  the code raise. Correct: they end, keep to their limits, and call staging good only on
  what they have seen.
* **Machine admission.** Marker files make a commit replayable; locks are not
  waited for; a revocation must hide what was committed; holds may be put on
  legacy records during a run. Correct: at most two attempts, one result per key,
  no revoked package visible, fetches and bytes within the budget, a draft that is
  supported, uncontested and not held.
* **Extraction, review loop, pipelines.** Sessions end anywhere and resume from
  what is on disk; people edit meanwhile; creations may have been carried out
  although they failed. Correct: reports match what was written, one card per
  candidate id as long as no creation is sent twice, no decision overwritten, clusters without contradictions, an
  output that stands once complete, a projection only of what was reviewed.

Every hazard has its line and its properties in `PROJECT.json`.

## 2. Modules

| Module | Models | Checked in run |
|---|---|---|
| `Runtime`, abstract `AttemptAccount` | V3's tables and handlers, one action per SQL statement | `ledgers`, `runtime_fair`, `runtime_calls` |
| `CmsAdapter`, abstract `PublicationContract` | V5's publish, reconcile, rollback of concurrent processes | `cms`, `progress`, `cms_revoked` |
| `Publications` | V2's editorial half | `publications`, `publication_edited` |
| `ContentJobs` | V2's jobs, queue and cancellation | `web_jobs` |
| `Planning` | V1's jobs and ledger file | `web_jobs` |
| `KnowledgeQueries` | V4's queries, cache and invalidation | `ledgers`, `knowledge_revoked` |
| `AssetUploads` | V4's uploads, restarts and restoration | `ledgers` |
| `LabChain` | V6's chain, simulators, ledger and faults | `publications` |
| `RuntimePreflight`, `GatewayPreflight`, `LabPreflight`; composed by `Preflights` | the staging preflights of V3, V4, V6 | `progress` |
| `AdmissionStore`, abstract `Commitments` | the admission store and its commands | `admission` |
| `Acquisition` | acquire, fetch, the budget | `admission` |
| `AdmissionPolicy` | candidates, decide, generate, preview | `admission` |
| `Extraction` | notebook 10 over `KF/core.py` | `admission` |
| `InputAudit` | job J1 | `admission` |
| `ReviewLoop` | notebook 20 over `claims.py` and `notion_sync.py` | `pilot` |
| `Canonical` | clustering of knowledge claims | `pilot` |
| `ShadowBridge` | the contractor bridge | `pilot` |
| `StagingCycle` | the v161 rehearsal | `pilot` |
| `EvidenceRun` | the v165 and v166 commands over directories | `cms` |
| `Remediation`, `SemanticReview`, `CompleteRecord`; composed by `RecordReviews` | the reviews of v162, v164, v165 | `ledgers` |
| `RuntimeProofs`, `EvidenceProofs` | theorems about the module each extends | |
| `CmsAdapterProofs`, `PublicationsProofs`, `AdmissionStoreProofs` | theorems about the module each is named for, and about the machines of `Preflights`, of `MCLab`, and of `MCAdmissionStore` | |
| `AssetUploadsProofs`, `WebJobsProofs`, `PilotProofs` | theorems about the machines of `MCAssetUploads`, of `MCWebJobs`, and of the review loop, clusters, bridge and staging cycle | |
| `MC*`, `*.cfg` | the TLC instances | |

**Machines side by side.** Several MC modules host machines that share nothing: no
file, table, process or message. Exploring their product would multiply states
without a new interleaving of anything that touches, so `MCSpec` lets each move only
while the others are in an initial state; every behaviour of every machine is then
a behaviour of the instance, and its properties are checked in full. `Preflights` and
`RecordReviews` do the same for machines whose variables have the same names, with one
variable that says whose they are.

### Services

**Runtime.** `store.py` opens the database in autocommit mode, so every statement
outside `tx()` is a step; `submit_job` alone uses a transaction. The handlers of
`api.py` have no `await` between their statements, except `cancel`, a plain `def`
that runs in the thread pool. So `stmt`, `call` and `todo` are the locals of the one
handler on the event loop, and each canceller has a read and a write that fall
anywhere between. `Crash` empties the locals and keeps the tables. Time is the set
`late` of leases whose `expires_at` has passed. `held` remembers the leases whose claim
answer left the process: each may be a provider call, whatever the tables say later.
`AttemptAccount` sees only how many attempts were granted, whether one is under way,
how many were paid for and which jobs get no more; `UnderWay` corrects the two
statements where the charge and the end of the lease do not coincide.

**CmsAdapter.** `publish` checks the approval (`Begin`), waits for the lock (`Lock`), and
makes one ledger or CMS call per step under it. A create ends in every way the
simulator and the retry port allow: refused, retried, timed out, or stored with its
reply lost. `reconcile` and `rollback_own` take no lock. `Crash` ends a process at any
step and frees its lock, as the kernel does. `PublicationContract` has answers, drafts
made, drafts live and, per article, the answers that claim a draft as their own
effect.

**Publications.** One step per awaited statement; the gate and the CMS call follow the
read of the approval without an await. `told` is what clients were answered. An approval has
two statuses, the column that `editArticle` updates and the body that `getApproval` reads. `AllowStaging` is FALSE
as deployed (`constants.ts` `LIVE_FLAGS`); the runs set it, since the code for it is
there. The tables survive a restart, the CMS mock does not.

**Planning, ContentJobs.** In `Planning` one step is one function handed to `withLedger`
with its write, or the provider's answer; a write that throws leaves memory ahead of
the file, and one that nothing catches ends the run of the job: `lost` has the jobs whose own
write did that, or whose process ended. In `ContentJobs` one step is one awaited statement,
any of which may throw, and `queue` is what the deferred port still owes; a restart empties
it. A throw inside the `try` of a processor fails the job; outside of it, and in the handler
of the failure, it leaves the job as it is, and the job is `lost`.

**KnowledgeQueries, AssetUploads.** Plain functions on threads, no lock: one step per
access to `STORE`, per row of the scan and per file operation. `Restart` keeps the files
alone. An invalidation sets whatever revision its request names, an earlier one too, and
clears the cache only for one of the three reasons or with a project; `during` has the
revisions in force while a query read. `hand` says where the file is that a thread has
open, since another thread's rename moves it. `acked` is what the client was last told.

**LabChain.** A ledger write replaces a whole file under the lock and a read takes none,
so each read is a step. One thread runs chains, the other calls the runtime simulator.

**Preflights.** The provider's answer to any call is arbitrary, reduced to what the code
looks at: whether a schema or a parent matches, how many rows came, what was said of
a further page, which database's id a schema bears, and whether it has a shape on which
the code raises past its handlers, which ends the preflight without a verdict. V3 looks its
pin up by the id that the provider's schema bears: where the pin of a database leaves the
id out, that of another may vouch for it, and `VerdictSound` says so. `LabPreflight` keeps
`FakeNotionTransport`'s index pages and 429s.

### Factory

**AdmissionStore.** A file is written by `atomic`, so a process dies before or after a write
and never in it; `transact` is one step. Locks are taken with `LOCK_NB`: `KeyBusy` and
`StateBusy` are the exceptions a call raises. `visible` looks for the marker, reads the
revocations and then the result, a step each. A payload is named by the attempt that
produced it, so that marker and result compare as their hashes do. `Commitments` has
attempts made, the attempt each key stands for, and what is revoked.

**Acquisition.** One step per transaction of the budget, request, read and file operation.
Raw files are written in place: a death tears them.

**AdmissionPolicy.** A document is its scope and its mentions in order; a mention is plain
when `decide` would not want its line interpreted. `Candidates` keeps the first mention of
each value, `Competing` holds up singular predicates, `Draft` takes one item per entity.
The legacy records are read between the two moments their files are hashed, and people
put holds on them and take them off at any time, in a file that is hashed or in one that
is not.

**Extraction.** Sessions with an output directory each, resumed from any earlier one.
Tables are written in place; a checkpoint writes evidence, then metrics.

**InputAudit.** Every look at a listed file (is it there, its bytes, its size) is a step,
and the tree may change between two, the two looks at a nested manifest too. The locators
of a manifest and the root they are read under follow from the bytes it had; some bytes are
not JSON.

**ReviewLoop.** One step per evidence chunk, request to Notion and human edit. The notebook
is started by hand, one run at a time. The id of a candidate is stable when a template
made it, and another on a cached re-run when the model did, so that a candidate of the
model may have two cards, of two ids. A run syncs `max_rows` rows (200 as configured, of up
to 500 candidates); the others are not written, keep the run id of their card, and still
join in the export. Every request is sent again after 429 and 529, a PATCH after 500 to
504 too, and anything else ends the run.

**Canonical.** One step per pair of records in the order of the loops; equivalence of two
texts is any reflexive symmetric relation of their signatures.

**ShadowBridge.** One step per ledger call, projection and file operation of several
processes over one work_root. The contractor's ledger and projector are external and
modelled from the adapter's use of them.

**StagingCycle.** `run_cycle` with its reads, patches and rollback, page by page, people
editing between any two steps, and patches that are refused, lost or late. A page's
four system properties are one value.

**EvidenceRun.** Each command reads directories and writes a new one. `discover`, the v165
run and `propose` write under the final name and put the list of hashes last; `freeze`
and `project-shadow` write aside and rename. A file is known by the run that wrote it;
`first` is the run that first completed a directory. The inputs of a v165 run have a value
that an edit changes and another edit may change back; `edits` counts those that fell into a
run. `HandBuilt` stands for candidates a
reviewer writes, since `propose` only ever writes `WAITING_EVIDENCE`.

**Remediation, SemanticReview, CompleteRecord.** The pure cores of v162, v164 and v165 with
the human steps around them: evidence and pages change between a plan and the canary,
records change between an adjudication and the run that uses it, two proposals that
depend on each other are projected one after the other. The executor of the v162
canary is not in the repository; it is modelled as comparing `before_image_hash`, which
is what the plan carries it for.

## 3. Runs

| Run | Bounds | Shows |
|---|---|---|
| `runtime_fair` | 2 jobs, 1 cancel thread, 2 attempts, 1 request, no restart | `QueueServed`, `ImplementsAccount` |
| `runtime_calls` | 1 job, 1 request | violation: two leases go out on one request |
| `cms` | 2 processes, 2 keys, 1 article, 2 test runs, 2 create attempts, 3 reconciliations, 1 death, 1 rollback; `EvidenceRun` with 2 processes, 3 commands, 2 deaths or edits | `UnknownRecorded`, `DraftsOwned`, `ImplementsContract`, `EvidenceSound` |
| `progress` | the adapter with 1 test run, 1 death, 1 rollback; preflights of 2 databases, 5 requests, 2 pages, 2 rows a page, 1 relation | `LockServed`, `VerdictSound`, `PagesComplete`, `PreflightEnds` |
| `cms_revoked` | no deaths or rollbacks | violation: a draft made after its approval was revoked |
| `web_jobs` | `Planning`: 2 jobs, 3 and 0 requests, 2 failing writes, 1 end of the process; `ContentJobs`: 2 keys of one request, 2 callers, 2 restarts | `ToldIsKept`, `NoWorkTwice`, `CancelStands`, `EveryJobEnds` |
| `publications` | 2 callers, 2 keys, 1 article, 2 revisions, 2 approvals, 1 restart; `LabChain`: 2 threads, 2 destinations, 2 revisions, budget 2, 2 outside acts | `DraftsAccounted`, `AnswerStands`, `RevocationBlocks`, `LabSound` |
| `publication_edited` | 2 callers, 1 key, 1 article, 1 bundle, 2 revisions, 1 approval, no restart | violation: an edit does not stop a publication |
| `ledgers` | `Runtime`: 1 job, 2 cancel threads, 3 attempts, 2 requests, 2 restarts; 2 threads, 3 uploads (2 of the same bytes, 2 of one project and name), 2 restarts; queries of 1 claim over 2 revisions, 1 clear; `RecordReviews` (below) | `BudgetBound`, `LeaseExclusive`, `SuccessHasReceipt`, `NoBlindRetry`, `CancelledNotGranted`, `VerifiedHasBytes`, `AckedSurvives`, `CacheSound`, `ReviewsSound` |
| `knowledge_revoked` | 2 threads, 1 claim, 1 clear | violation: a revoked claim is back in the cache after it was cleared |
| `admission` | 2 processes, 2 keys with a common pin, 2 attempts, 2 deaths; acquisition of 2 sources; policy over 2 documents, 2 legacy records, 2 runs, 2 holds put on or taken off; extraction in 2 sessions; audit with 2 odd files and 1 change | `CommitIntact`, `ReadSound`, `ImplementsCommitments`, `AdmittedSound`, `ExtractionSound`, `AuditSound` |
| `pilot` | 2 run ids of the notebook, 1 row a sync, 1 fault; 5 records of 3 texts; 2 bridge processes, 2 contracts, 1 death; 2 staging pages with 2 edits | `CardsUnique`, `ExportFaithful`, `ClustersSound`, `NoopDone`, `AppliedIsFinal`, `PassRestored`, `NoEditLost` |

Why the bounds are enough.

* `Runtime`: handlers run one at a time and touch one job, except `claim`, which chooses
  among jobs; choice and starvation need two jobs, everything else one. Three attempts
  with two requests make both limits bind, in either order; two cancel threads are the
  least that race; two restarts let the damage of one meet that of another.
* `CmsAdapter`: lock, keys and article interact in pairs. Two processes with two keys on
  one article are the least that can both look up and create; two test runs tell an
  owner from another. An instance with two articles (16 million states) was checked
  once with the same properties; it is too large for the routine run.
* `Planning`: two failing writes and an end of the process are what it takes to lose a
  recorded cancellation from memory: the result is written with another job's write, the
  cancellation overtakes it in memory and its own write throws, and the restart reads the
  result back. With one failing write this cannot be seen.
* `Publications`, `ContentJobs`, `Planning`: every race of these handlers is between two
  requests on one article or job; the second revision and the second approval are what
  makes the first stale.
* `AdmissionStore`: a key meets another only in `preview.json`, `run.json` and the list of
  revocations; two deaths lose both attempts of a key. `Acquisition` has sizes for which
  the per-source and the total cap both bind inside a page.
* `AdmissionPolicy`: conflicts and aliases are between two mentions and two documents; one
  hold put on and taken off during two runs falls at every two steps of either and makes the
  second run differ from the first.
* `AssetUploads`: three uploads give an equal digest across projects and an equal name
  within one; two threads are the least that share a temporary file.
* `KnowledgeQueries`: one claim, since a scan treats each row alone; two revisions, so that
  one can be left and gone back to while a query reads, and one clear, which an entry or a
  query may precede or follow.
* `Preflights`: two databases and two pages show every "next"; limits of five requests and
  two pages bind before the provider runs out. `LabPreflight` has up to three rows on pages
  of one, and one retry against up to two throttles.
* `EvidenceRun`: two processes running three commands in all overlap in every pair, dead or
  alive; outputs have one file besides the list of hashes, since what matters is what is
  written before and after the list.
* `RecordReviews`: two entities (they depend on each other in v165 and share a page in
  v162), two payloads, two edits; v162 with a canary of one record and three changes; v164
  with four candidates, one of them unproved; v165 with two proposals and two receipts.
* `Canonical`: five records of three texts are the least in which a pair joins two clusters
  that each have two members; the theorem covers every number.
* The others: two actors or two sessions, and faults up to the number that can undo each
  other, as listed.

Symmetry is used for processes, threads and keys that nothing distinguishes, in runs
without liveness. `CHECK_DEADLOCK FALSE` throughout: jobs ended, keys answered, bounded
faults used up are states in which these programs rightly have nothing left to do.

### Fairness

* `Runtime`: `WF(LoopStep)`, since a handler once begun has no `await` in it; `WF(CancelWrite)`,
  since a thread of the pool is scheduled; `WF(Tick)`, since time passes; `SF(ClaimBegin)`, since
  workers poll and the event loop is idle again and again, but not continuously. Workers
  need not answer, nobody needs to cancel or submit. `FairSpec` is of a process that is not
  restarted.
* `CmsAdapter`: `WF(LockedStep)` per process, since every call under the lock returns or times
  out; `SF(Lock)` per process, since the kernel queues the waiters of an `flock`.
* `Planning`, `ContentJobs`: weak fairness of the steps of a job and of a request under way,
  since promises are resumed and the provider's call has a timeout. An end of the process
  is not fair, and excuses the jobs it loses.
* `Preflights`: each is one synchronous loop whose calls return or time out.

### Findings

Four runs end in a counterexample, each against a sentence of the repository's docs,
quoted in `PROJECT.json`:

1. `runtime_calls`: expiry gives the reserved request back, although the worker may have
   called the provider.
2. `cms_revoked`: the approval is checked before the lock is waited for, and not again.
3. `publication_edited`: `editArticle` revokes an approval in its column and leaves its
   body, which the gate reads, APPROVED: a publication that read the article before the
   edit passes the gate after the edit has returned.
4. `knowledge_revoked`: a query in flight stores the claim it read after the claim was
   revoked and the cache cleared, and later queries are answered with it.

Seen while modelling. Each can be reached in the module named, but for those marked †,
whose detail the module leaves out and which were read in the source only:

* `Runtime`: `heartbeat`, `complete`, `reconcile` and expiry write `jobs.status` from a row read
  before a cancellation and overwrite CANCELLED (BEHAVIOR.md:28); what survives is
  `CancelledNotGranted`, since `claim` looks at the `cancelled` column. `reconcile` may take the
  receipt of an earlier retry for the completion and leave the job LEASED for ever.
* `CmsAdapter`: a rollback deletes by a record id that a later draft of the same article
  shares (V5 `docs/REVOCATION_RACE.md:7`). An UNKNOWN answer is never resolved: `reconcile`
  counts attempts and asks nobody.
* `Publications`: a DRY_RUN receipt occupies `cos_pub_logical_idx`, so a later STAGING_DRAFT
  makes its CMS draft and then fails on the index. An edited revision has status DRAFT
  and can never be approved, although `OPERATOR_RUNBOOK.md:42` says to approve it. Of two
  edits with one expected revision, one is lost silently.
* `ContentJobs`, `Planning`: a restart leaves jobs QUEUED or RUNNING for ever. RUNNING,
  SUCCEEDED, FAILED or TIMED_OUT is written over CANCELLED (BEHAVIOR.md:28). Two jobs of one
  request id lose an article. A budget of no provider requests still calls the provider
  when the bucket is empty (V1 `jobs.ts:116`). A failed flush at admission leaves a job
  that is never started, and an unhandled rejection ends the process †.
* `KnowledgeQueries`: an invalidation without reason or project leaves the cache as it is
  (`Leave`), so what it blocks stays served. Revocations and holds are in memory only †;
  bundles made before a revocation keep being served †. Two concurrent queries of one key may record different answers.
* `AssetUploads`: an asset id is the digest alone, so an upload of the same bytes by another
  project takes the entry over. VERIFIED is readable before it is persisted.
* `LabChain`: a second admission of a key overwrites a finished job and charges again. An
  UNKNOWN receipt completes the job as SUCCEEDED. A publication id lacks the destination,
  so one destination's receipt overwrites another's and a rollback cancels only the last.
  A schema-drift record makes its key conflict for ever.
* Preflights: V3's `classify` returns "OK" for HTTP 400, 409 and 422 †, and counts a request
  after it was sent (one more than the limit goes out). V4 takes a relation's destination
  from the provider's answer when the pin lacks it, although its comment says never. V3
  may report READ_OK with only some schemas pinned, and looks a pin up by the id of the
  answer, so a database whose pin lacks its id may be vouched for by the pin of another.
  V3 and V4 raise, and give no verdict, on an answer of a shape they do not expect. V6
  never verifies.
* `AdmissionStore`: a death between the commit and `run.json` means every later run is a
  replay and `read_current` raises until another key is run. `invalidate` looks a draft's
  pins up in `run.json`, which names another run after a replay, so a withdrawn draft may
  stay on display.
* `Acquisition`: a death inside the write of a raw file blocks that source for good; a
  deferred source is recorded ACCESS_BLOCKED and not tried again; a death between charge
  and release leaks the allowance.
* `AdmissionPolicy`: the preview is written before the legacy files are compared again, so a
  run that raises LEGACY_MUTATION leaves its draft on display, and every later run of the
  directory raises. `claim_versions.jsonl`, from which holds are read, is not among the
  files compared, and a hold put on and taken off between two looks is not seen. A denial in one source ("not ...") does not contest the same value
  admitted from another.
* `Extraction`: an evidence id leaves the resource out, so the second of two resources with
  equal bytes has its evidence filed under the first. OCR pages of a failed extraction are
  not counted, so more pages than the limit may be read. A torn table makes every
  resumption raise.
* `InputAudit`: pins, decisions and resolver are read at three moments, so an item may say
  HASH_VERIFIED beside another digest when the tree changes; only the verdict of a strict
  audit is protected, and not against a nested manifest that is absent at the first look
  and there at the second, which it passes without opening.
* `ReviewLoop`: a candidate of the model gets another id on a cached re-run, so it may have
  two cards of two ids, and its approval is lost (comment at `notion_sync.py:90`). A creation
  that answered 529 is sent again and may make a second card of one id. Approved rows
  beyond `max_rows` (200, of 500 candidates) keep the old run's id and drop out of the
  export. A cached `has_claim=False` comes back as parsed †. A torn cache line makes every
  later run raise.
* `ShadowBridge`: a death between admit and finalize means HUMAN_HOLD for ever; a second
  contract overwrites the one receipt file, and a replay of the first is then
  RECONCILE_REQUIRED for ever.
* `StagingCycle`: an edit between a write's own read and its patch is overwritten; an apply
  report of PASS may stand beside a failed rollback.
* `EvidenceRun`: a staging directory left by a death, or by an OSError at the rename, blocks
  `project-shadow` for that output for ever. `propose` hashes its configuration after it has
  used it. Since a trust names one proposal hash, two complete proposals in one directory
  are always refused; and an accepted proposal whose issues were all resolved before is
  projected without events, which the verifier refuses. An input changed and changed back
  while v165 runs escapes its comparison, and the run lists what it did not use.
* `CompleteRecord`: of two proposals that depend on each other, the second must be rebuilt
  and reviewed again once the first is projected; and since a projection leaves the
  version of its issues alone, a projected record can never be corrected.
* `SemanticReview`: one stale adjudication, or two ACCEPTs for one entity, refuses the whole
  run until it is withdrawn.
* `Remediation`: a canary left half-way can only go on after reviews are saved anew; once a
  page has values of one version, other evidence is blocked for it.

## 4. Theorems

| Module | Theorem | States |
|---|---|---|
| `RuntimeProofs` | `TypeCorrect`, `BudgetBoundHolds`, `CancelledNotGrantedHolds` | `[]LedgerTypeOK`, `[]BudgetBound`, `CancelledNotGranted` |
| `RuntimeProofs` | `LeaseExclusiveHolds`, `SuccessHasReceiptHolds`, `NoBlindRetryHolds` | `[]LeaseExclusive`, `[]SuccessHasReceipt`, `NoBlindRetry` |
| `RuntimeProofs` | `RefinesAccount`, for `MaxCrashes = 0` | `ImplementsAccount` |
| `CmsAdapterProofs` | `TypeCorrect`, `UnknownRecordedHolds`, `DraftsOwnedHolds`, `RefinesContract` | `[]TypeOK`, `[]UnknownRecorded`, `[]DraftsOwned`, `ImplementsContract` |
| `CmsAdapterProofs` | `VerdictsAreSound`, `PaginationsAreComplete`, of `PreflightSpec` | `[]VerdictSound`, `PagesComplete` |
| `AdmissionStoreProofs` | `TypeCorrect`, `CommitIntactHolds`, `ReadSoundHolds`, `RefinesCommitments` | `[]TypeOK`, `[]CommitIntact`, `[]ReadSound`, `ImplementsCommitments` |
| `AdmissionStoreProofs` | `AdmissionIsSound`, of `Acquire!Spec /\ Policy!PolicySpec` | `[]AdmittedSound` |
| `AdmissionStoreProofs` | `AuditIsSound`, of `Audit!AuditSpec` | `[]AuditSound` |
| `AdmissionStoreProofs` | `ExtractionIsSound`, of `Extract!ExtractSpec` | `[]ExtractionSound` |
| `AssetUploadsProofs` | `TypeCorrect`, `VerifiedHasBytesHolds`, `AckedSurvivesHolds` | `[]TypeOK`, `[]VerifiedHasBytes`, `[]AckedSurvives` |
| `AssetUploadsProofs` | `CacheIsSound`, of `Queries!Spec` | `[]CacheSound` |
| `AssetUploadsProofs` | `ReviewsAreSound`, of `ReviewsSpec` | `[]ReviewsSound` |
| `PublicationsProofs` | `TypeCorrect`, `DraftsAreAccounted`, `AnswersStand`, `RevocationsBlock` | `[]TypeOK`, `[]DraftsAccounted`, `[]AnswerStands`, `RevocationBlocks` |
| `PublicationsProofs` | `LabIsSound`, of `Lab!LabSpec` | `[]LabSound` |
| `WebJobsProofs` | `TypeCorrect`, `ToldIsKeptHolds`, `CancelStandsHolds`, of `Planning` | `[]TypeOK`, `[]ToldIsKept`, `CancelStands` |
| `WebJobsProofs` | `WorkIsDoneOnce`, of `Spec /\ Content!Spec` | `[]NoWorkTwice` |
| `EvidenceProofs` | `EvidenceIsSound` | `[]EvidenceSound` |
| `PilotProofs` | `CardsAreUnique`, `ExportsAreFaithful`, of `ReviewLoop` | `[]CardsUnique`, `ExportFaithful` |
| `PilotProofs` | `ClustersAreSound`, of `Canonical` | `[]ClustersSound` |
| `PilotProofs` | `NoopsAreDone`, `AppliedStays`, of `ShadowBridge` | `[]NoopDone`, `AppliedIsFinal` |
| `PilotProofs` | `CycleTypeCorrect`, `PassRestoredHolds`, `NoEditLostHolds`, of `StagingCycle` | `[]CycleTypeOK`, `[]PassRestored`, `NoEditLost` |

Each is stated of the module's specification, for any sets and limits that satisfy its
named assumptions, and rests on no other. The assumptions are: limits are natural numbers,
attempt limits positive; keys are made of dependencies; null values lie outside the sets
they are null for; no proposal is called "open", as an issue without a decision is
(`EvidenceAssumption`); the issues of a record are of the two kinds there are, and no
payload is the baseline's or a blank (`ReviewsAssumption`). The lab's limits are numbers
(`LabAssumption`), and so are the preflights', whose pages hold a row at least
(`PreflightsAssumption`). Acquired sources are numbered and each serves one page
(`AcquisitionAssumption`); documents are told apart by their numbers, and a mention says its
predicate, its value and whether it is plain (`PolicyAssumption`). The rows of an extraction
and its OCR limit are numbers (`ExtractionAssumption`). Paths and locators of an audit are
numbers, locators apart from manifests, and what should be there has a digest
(`AuditAssumption`).

**BudgetBound.** `consumed + reserved <= MaxRequests + crashes` is not inductive: a release
must be known to be owed. `IInv` adds `Handling` (what each statement of a handler still owes,
and that the lease at hand is the one it read), `Fresh` (no lease beyond the current
attempt) and `Covered(j)`: reserved requests are matched by active leases, and each restart
excuses one mismatch. `CoveredStep` holds the arithmetic once for all statements.

**Leases, receipts and unknown outcomes.** The three properties hold until the first restart, and
hang together in `Undisturbed`. `Exclusive`: an ACTIVE lease is that of the current attempt,
and its job is not queued, unless `complete` has just queued it and ends the lease next.
`Blocked`: an unknown outcome is that of the last attempt, its lease is closed or about to
be, and its job is not queued; so nothing can requeue the job, since whatever requeues
one holds an ACTIVE lease of its last attempt. `Ended` and `Writing` say what a handler
stands on between the end of a lease and what follows, `Receipted` that a job which
succeeded without a receipt is the one whose receipt comes next.

**Refinement of AttemptAccount.** With the same invariant and no restart: a grant finds no
ACTIVE lease (`Grant`), `ExpireLease` takes the only one (`Lapse`), `CompleteBudget` and
`UnknownBudget` charge for the attempt at hand (`Pay`), `CancelWrite` is `Halt`, and
`CompleteLease` and `UnknownLease`, which stand on the other side of the charge, are
stutters.

**Adapter invariants.** `Consistent` says what each process knows at each step: inside
`publish` it is the only one with the lock, its key is still unanswered, nobody else has made
the draft it is about to make, and the receipt it carries is true so far. `DraftsOwned` needs
`Undisturbed`: before the first death or rollback, a draft the table lacks belongs to the one
process that is between the CMS and the table.

**Refinement of PublicationContract.** `Backed` says that the stored claims of an article
never outnumber the drafts made for it, and are strictly fewer while a process still carries
a claim. With it, `CreateStored` is `Make`, `RollbackDelete` is `Remove` or a stutter,
`StoreReply` is `Answer`, and every other step a stutter.

**Admission.** `Knows(w)` says what a process may rely on at each step of `commit`: it alone has
the key's lock, the marker is still missing, the attempt it counted is still the last, the
result on disk is its own. `CommitIntact` is not inductive without it. The refinement
follows: `WriteMarker` commits the last attempt, because nobody else can have started one.

**Uploads.** `AckedSurvives` speaks of memory and must follow from the disk after a restart.
`Incomplete` says that a file short of its whole is in the hands of a thread still writing it,
`Alone` that an uncontested upload has one thread at most, `Knows` that a file moved under a
thread's hand means a contest; so a stop outside a contest finds whole files.

**Clusters.** `ClustersSound` is about all pairs, while the program compares one record at a
time with the cluster it is building. `Apart` says that two seen records in different
clusters have members that keep them apart; `CompleteLink` that clusters are cliques. The
hard part is `TwinsTogether`: two records of one text stay together. Either they are in one
cluster, or each is alone and what kept the first out keeps the second out (`Waiting`), or
the first is in the cluster being built and the second comes next (`Following`).

**Bridge.** One run at most takes a job through its first states, the one that admitted it
(`FirstInv`). A job's end, projection and mark are final, so what a replay has read of the row
is still so when it acts (`ReadInv`), except that the mark may have been set since: the run
is then `overdue`. `AppliedIsFinal` says that an APPLIED job is projected again only by a run
that read its row before.

**Staging cycle.** `Kept`: once the first pass begins every page has its before-image, on disk.
`Seeing`: what a patch relies on is still so unless another hand changed the page, which gives
`NoEditLost`. `Verified` carries the verification from page to page up to the report; `Calm`
says that a lost patch leaves either the apply report or the rollback unclean, so that a cycle
with one on its way never returns PASS.

**Publications.** What a request knows is in its locals, so the invariant has two layers. `Known`
is types, and that a caller past the admission works on what its key was admitted with.
`Accounts` says that every draft of the CMS belongs to a receipt or to one request in flight
between the call and the insert, that such a request has the only claim on its revision,
and that a receipt's draft is there until a restart. `RevocationBlocks` is an action property:
its proof carries, per caller, the bundle it has seen and how that stands to the
revocations answered since (`Held`, `SeenBundle`). `AnswerStands` compares what each client was
told with what the table holds of its key, whichever of several requests inserted it:
`Kept` says that a receipt is one the admitted payload can come to, `Heard` the same of what
was told, `Modes` of the reply a request carries.

**Planning.** A write that throws leaves memory ahead of the file, so neither ledger alone is
enough. `Follows` says how a row may advance, `RowKept` that the file is memory or behind it
along that order, for every job at once. What a client was told came from a write that
did not throw, so the file has it, or has moved on from it. `CancelStands` is about both: on
the file a recorded cancellation is never followed by a success; in memory only a restart,
which reads the file, may bring one back.

**Content jobs.** `NoWorkTwice` needs that the right to begin a job is in one place: with the
caller that admitted it, in the queue, or with the process that took it (`OneRight`). Restarts
empty the places and never fill one.

**Evidence runs.** `Stands` (an output once complete is what its first run left) rests on who may
still write: a directory without its list of hashes has one live run at most, the one that
made it; a run that found it there refuses. So a list of hashes is of the files of the same
run. `Whole` follows for what is renamed into place; the resolution of issues by one
accepted review follows from what `project-shadow` compares at each step with what it read.
`Since` carries the inputs of v165 from the first look to the second: one edit between them
shows, and only a change followed by the change back does not.

**Review loop.** A card's creation may have been carried out although it failed. `FoundInv`: when
the notebook writes, the card it found is still the only one of its id, or it found none and
there is none but what this very request made; the next run looks first. So an id has one
card unless its creation answered 529 and was sent again (`resent`), which the code does and
`CardsUnique` excepts. `SyncedInv`: the rows a run has synced are on cards that bear its id, so
the export, which asks for the run's id, finds every one a person approved; of rows beyond
`max_rows` `ExportFaithful` claims only that nothing unapproved is exported.

**Cache.** Every entry was stored since the last clear (`Served`), and what a query has collected
is as old as its beginning (`Fresh`): a claim it holds that a clear has counted was usable when
the query began, so it began before that clear; and a revision it found a claim under was in
force at some time of the query, also when it was left and gone back to meanwhile. What
`StaleOnlyInFlight` leaves open is what the run `knowledge_revoked` finds.

**Reviews.** v164: a reviewer saw of a record what the proposal's hash covers (`Facing`), and a run
accepts only proposals it makes itself, so it stands on the same record. v165: a record is
projected once at most (`Once`), since its issues are resolved with it, so a later proposal
that leaned on it must have been built on what it became. v162: a field that has been
written is never written again (`Settled`), what is planned for the canary fills empty
fields of a page whose others already say the same version (`Fillable`), and this stays so for
the record being written whatever is planned meanwhile (`Filling`). The v162 part is of the
plans as an executor carries them out that compares a page with its before-image hash and
then writes it; the executor is not in the repository, and the theorem assumes it does.

**Lab.** A thread publishes under the approval it has in hand, and that was granted for the
content it carries; the ledger only grows, so what it has of a job stays. `Covered` sets the
jobs in their places against what has been spent and what is still to be charged, so the
budget holds however the threads and faults interleave.

**Preflights.** `VerdictSound` is about rows the gateway has long forgotten: `Refusing` says that
while nothing has vouched for a database with relations one of them is still to be looked
at, `Vouched` that what a verdict rests on was found in a pin, `OwnPin` that it is the
database's own where the pin says its id. That a verdict is reached is claimed only where
no answer raises. The bound on requests is amortised: `Paid`
says that what is left of the rows, relations and targets of a database is already in its
allowance. `PagesComplete` is an action property, and `FromStart` is what carries it: behind a
cursor every row has been read.

**Acquisition and policy.** An attempt is on record before its request leaves (`Charged`), and an
allowance is in hand only between its charge and its release (`InAllowance`), so the budget
equals what was read, what is held and what deaths have lost. `Landed`: a FETCHED entry is
made once the raw file is whole. Of the policy, what is shown is the draft of the sources and
of the legacy records a run has read, so the proof is one of the operators: a candidate is a
mention (`CandidateIsMention`), a plain mention a candidate (`MentionHasCandidate`), and what is
drafted holds against all others of its scope (`DraftHolds`, `DraftUncontested`).

**Audit.** `Strict` is a race the audit wins by order alone: `Visited` says what is behind it (the
lists before this one, the manifests before the one in hand, what is neither before it nor in
hand), `Confirmed` that such a path has had, at some time since the start, what is asked of it.
Either this is so or some item already fails the audit; contents once seen stay in the
history, so no later change can undo it. Excepted are the manifests passed over between
the two looks, and what they list. `Quiet` is about the undisturbed audit, and carries what
three looks at one file may have seen (`HandExact`); it raises only for want of its lists or
at a nested manifest that is not JSON (`QuietEnds`).

**Extraction.** A session knows three tables: in memory, on disk, and those kept from earlier
ones, any of which may be torn. `Worth` is what an output keeps through its end; `OnDisk` says that
the disk trails memory, evidence before metrics, and `RowsAccounted` that every row is before the
session, measured or among the errors. OCR pages are counted as pairs of a row and a page, so
that the sum of a column is a cardinality, and `OneMoreCounted` adds a row to it: the row is new
because nothing pending has been measured.

### What stays with TLC

`QueueServed`, `LockServed`, `EveryJobEnds` and `PreflightEnds` are liveness under fairness, which
TLAPS cannot prove here; so is everything about ENABLED. Every other property of the
passing runs is the property of a theorem. Sums over data are proved only as
cardinalities, since an induction over data is out of reach.
Hashes and canonical JSON are abstracted, so no theorem speaks of them.

## 5. Not modelled, and why

* Runtime: the audit chain, cost units (they move with the requests, one for one),
  artifacts and schedule blocks (write-once), `deadline_at` (stored and never read).
* CMS adapter: `update_draft` and human edits (no route, no caller), the mutations table
  (append-only, never read), sanitising, tokens and schema validation (functions of the
  request).
* Planning and workflow: what the provider finds, clustering, texts; the brief cache and
  its patch; claims and evidence records; authorisation; the export of the ledger to the
  file that only the mock's restart route reads.
* Gateway: the refresh of a URL, reads of assets and evidence, ranking.
* Lab: assets, the revision of a brief, the registry of adapters and its HTTP clients. The
  faults `kill_after_admit` and `revoked_midflight` are never read by the code.
* Machine admission: enrichment rounds, the queue of exceptions, the page and metrics, the
  regular expressions, schemas, TLS and address checks, `legacy_binding`.
* Extraction: checksums and the reuse of an output directory that is not fresh.
* Review loop: the schema check, evidence source cards, the legacy single-table sync;
  scores, units and gates, which are functions of one row.
* Contractor bridge: what a run checks before the ledger (pins, locator, snapshot), which
  holds it without a trace.
* Migrations: the sequential programs of `v16`, the evidence binding of `v163`, syntax trees
  and schemas; of v166 `review-check`, which writes a report nobody reads back, and the offline
  guard; of v165 the `verify` command, which only compares.
* `KF/runtime_contract.py` is one synchronous function over one file, `KF/content_os_gateway.py`
  a pure mapping; neither keeps state two steps share.
* `scripts/jobs` J2 and the release drivers run pytest or check a payload.
* Application scaffolding, vendored packs, artifacts and packaging.

Named bounds stand for what is unlimited in the code: every `Max*` constant is listed with
its meaning where it is declared.

## 6. Plan

Done: the services with shared state, the batch programs with sessions, the review and
evidence pipelines, their hazards. Left, in this order:

1. Theorems: of the runtime after a restart, where leases, receipts and unknown outcomes
   need weaker statements than before it.
2. `enrichment` beside `AdmissionStore`.
3. A composition of `Runtime` and `CmsAdapter`: a leased job publishes, loses its lease and
   is retried; the adapter's key makes the second attempt harmless.
