# Verification of the Klovered answer engine

The repository is the Python back end of a tool that answers requests for
proposals: a user uploads an RFP, the pipeline parses it, extracts its
requirements, turns them into questions and drafts an answer to each one from
the organisation's knowledge base. This directory models the parts of it whose
correctness depends on orderings, crashes and concurrent workers, checks the
models with TLC and proves the central safety properties with TLAPS.

`PROJECT.json` is the machine-readable side of this file: the components, the
runs, the source lines of every definition, the mutants that show each property
can fail, the hazards and the theorems.

## The system

| Part | State | Operations | Talks to |
|---|---|---|---|
| Job queue and drain worker (`src/app/pipeline/jobs.py`, `src/app/routers/jobs.py`, `claim_jobs()` and `recover_stuck_jobs()` in `src/db/schema.sql`) | table `jobs`, `documents.processing_status` | `enqueue_job`, `claim_jobs`, `run_job`, `enqueue_successors`, `mark_done`, `mark_failed`, `recover_stuck_jobs`, `derive_doc_status`, `drain_once`, the heartbeat | the stages' agents, the scheduler, the document handlers |
| Document handlers (`src/app/routers/documents.py`) | tables `documents`, `responses` | upload (one RFP per session), process, status, delete, edit of an answer, list of answers, DOCX export | the queue: delete the rows, enqueue `ingest`, run a drain in the background |
| Answer generation (`jobs.py:343-473`, `src/app/pipeline/agents.py:441-478`, `src/app/pipeline/rag.py`) | tables `questions`, `responses`, `citations`, `compliance_matrix` | structuring, batched generate with one retry of failed batches, single-question fallback, upsert of a response | retrieval, the LLM, the edit handler |
| Knowledge base (`src/app/routers/knowledge.py`, `src/app/pipeline/ingest.py`) | tables `knowledge_documents`, `document_chunks`, `upload_events`, the stored files | upload (caps, ingestion inline), delete, deduplication by content hash | chunker, embedding client |
| Accounts (`src/app/routers/auth.py`, `google_auth.py`, `cron.py`, `src/app/provisioning.py`, `deps.py`) | `users`, `organizations`, `deals`, `invites`, session cookies | guest session, sign-up and upgrade, login, OAuth, invite create and accept, purge of expired guests | storage, everything that belongs to an organisation |
| LLM rate gate (`src/app/pipeline/llm.py`) | per model: a semaphore, the requests and the tokens of the last minute, the time of the last request | reserve a slot, send with retries, reconcile, saturation check, salvage of a truncated array | the extraction and generation coroutines |
| Chunker, retrieval and citation helpers (`chunk.py`, `retrieval.py`, `rag.py`) | none: functions | `chunk_blocks`, merge ranking, the shared source list of a batch, `extract_citations` | ingestion, generation |
| Embedding client, parsing, DOCX export, feedback, storage, configuration, pool | little or none | I/O and layout | |

Several things are hard here. The service runs with two uvicorn workers
(`Dockerfile`), so two event loops interleave their database transactions
without any shared memory. Each handler and each stage is a chain of short
transactions, and the process may die between any two of them. Jobs are leased
for five minutes, so a slow worker and the worker that recovers its job can run
side by side. A document may be queued again or deleted while it is worked on.
And statuses are derived from rows that are read in one transaction and written
in another.

What makes each part correct:

- queue: no done stage lacks its successor; a job has one worker; a job is buried
  only when its attempts are used up; stages of a document run in order and
  once; a document at rest has the status its rows say; every job settles;
- generation: an answer the user edited is not overwritten, a question has one
  response, `completed` means at least one answer, a failed batch does not redo
  what is stored;
- knowledge base: no document is left half-ingested, what can be retrieved is
  whole and holds no text twice, a row has its file and a file its row, the caps
  are exceeded by less than one for each process;
- accounts: the purge never takes anything from somebody who is signed in, and
  takes a workspace with the files of its deals, its members and its open invites
  (not with its knowledge files, see Findings); a shared workspace keeps its cap;
- rate gate: the requests and the tokens of any minute stay within bounds that
  can be named, and every call is served;
- pure functions: nothing lost, nothing duplicated, sizes bounded.

## Modules

| Module | What it is |
|---|---|
| `JobQueue` | the queue with the handlers that write to it: state, one action per transaction or await (`TaskStart` excepted, see below), `Spec`, `FairSpec`, and the mutated forms |
| `JobQueueProperties` | type invariant, invariants, action properties, liveness of the queue |
| `JobQueueProofs` | theorems that hold however slow the workers are: types, `NoGap`, `DeadIsExhausted` |
| `JobQueueWorkerProofs` | theorems for workers that keep their lease: `OneWorkerPerJob`, `ClaimsBounded`, `DoneIsFinal` |
| `JobQueueOrderProofs` | theorems about the order of the stages and the status of the document: `NoDrainAborts`, `StageIsQueuedOnce`, `BatchIsIndependent`, `StagesInOrder`, `RestingStatusIsDerived`, `CompletedIsStable`, `FinalStatusIsEarned` |
| `MCJobQueue` | instances for TLC |
| `Generate` | structuring and the batched generate job of one document, with the edits of its answers |
| `GenerateProperties` | its type invariant, invariants, action properties and liveness |
| `GenerateProofs` | theorems: types, `BatchAnswersAll`, `OnlyFailuresStrand`, `DoneHasAnswers`, `EditsLostToRetriesOnly` |
| `MCGenerate` | instances for TLC |
| `Accounts` | guests, accounts, invites and the purge, with the mutated forms |
| `AccountsProperties` | its type invariant, invariants and action property |
| `AccountsProofs` | theorems: types, `MembersBounded`, `WorkIsKept`, `PurgeTakesDeals` |
| `MCAccounts` | instances for TLC |
| `Chunker` | `chunk_blocks()` as a function of the blocks of a document |
| `ChunkerProperties` | what its chunks promise: `Whole`, `Sized` |
| `ChunkerProofs` | both, for texts of any length |
| `KnowledgeBase` | uploads of knowledge documents and RFPs, inline ingestion, deletion, the purge of the workspace; it EXTENDS `Chunker` |
| `Corpus` | the abstract specification: which documents can be retrieved from |
| `KnowledgeProperties` | type invariant, invariants, and the refinement of `Corpus` |
| `KnowledgeProofs` | theorems: types, files and rows, stranded documents, caps, the chunks of what can be retrieved, the refinement |
| `MCKnowledge` | the instance for TLC |
| `RateGate` | the rate gate of one model in one process |
| `RateGateProperties` | its type invariant, the bounds on requests and tokens, liveness |
| `RateGateProofs` | theorems: types, `SendsBounded`, `TokensBounded` |
| `MCRateGate` | the instance for TLC |

`Generate` looks inside two steps that are one step each in `JobQueue`
(`TaskStart` of structure, `TaskStart` to `TaskEnds` of generate). It does not
compose with it: it keeps of the queue only what its own steps can tell apart,
the generate job's status and attempts, and the fact that one worker at a time
has it. `OneWorkerCorrect` is what justifies that.

### JobQueue

`jobs` is the table in `created_at` order; a deleted row leaves a tombstone, so
that a worker which holds its id can find it gone. `docs` is
`documents.processing_status`. A call is a coroutine slot of one process: it
runs `drain_once()` for the scheduler, or `documents_process()` followed by the
drain it kicks off. `task[c]` holds the jobs that call claimed, each with the
snapshot of `attempts` the claim returned.

Every database call of the code is synchronous, so a coroutine keeps its event
loop from one await to the next. The model keeps exactly that: each transaction
is one action, and a coroutine with more to do before its next await is HOT:
nothing else of its process steps (`LoopFree`), while the other process and the
crash may. The code between awaits is cut at every transaction boundary, with one
exception: `TaskStart` takes the short transactions of `run_job()` before the first
await as one step. They touch no job row, a status written between them is
overwritten by the last of them, and a document deleted between them makes a later
step of the task fail.

| Action | Code |
|---|---|
| `ProcessDelete`, `ProcessEnqueue`, `ProcessSetQueued` | `documents_process()` with an LLM key, one action per transaction; the foreign key makes the insert raise when the document has been deleted |
| `ProcessWithoutKey` | `documents_process()` without one: the document is set to `uploaded`, whatever it was, its rows stay and nothing is queued |
| `DocumentDelete` | `document_delete()` and the cascade |
| `StartDrain`, `KickDrain` | `recover_stuck_jobs()` at the head of `drain_once()` |
| `Claim` | `claim_jobs()`: the oldest due rows, up to the batch size |
| `TaskStart`, `TaskEnds` | `run_job()` up to its first await, and from its last one: the stage's status writes, success, or an exception |
| `EnqueueSuccessors`, `MarkDone`, `MarkFailed`, `MarkFailedRaises` | the rest of `_run_one()`; the last one is the unique violation that escapes |
| `GatherReturns`, `DeriveRead`, `DeriveWrite`, `BudgetSpent`, `AbortedDrainEnds` | the rest of the drain's loop |
| `Heartbeat` | the lease extension of a long generate |
| `BackoffElapses`, `LeaseLapses`, `Crash` | time and failures |

Time is abstracted to two facts of a row: whether `run_after` has passed, and
whether the lease is held or has lapsed. A lease lapses when no worker has the
job any more, or when the worker's stage is in `SlowStages`. What a stage stores
(chunks, requirements, answers) is left out here.

The database is external: a statement is atomic, a transaction sees the
committed state, the partial unique index and the foreign keys hold.

### Generate

`run` is the worker of the generate job (`_run_generate_batched()`), `batch[b]`
its sub-batches (`generate_batch_answers()`), `tasks` the single-question
fallbacks that are under way (`generate_and_persist_answer()`). A task carries
the job row it was started for (`made`: queuing the stage again makes a new one),
the attempt and the round, because `asyncio.gather()`
does not cancel the others when one raises: they run on after their batch, their
run and even their job have ended, and store late. Which batch a question is in,
`batchOf`, is decided anew in each run: the code groups what is still unanswered by
category and cuts each group at the batch size, in the order of the rows, which nothing
fixes; `Cuts` are all the ways to do so. `epoch` counts the
structuring runs; each deletes the questions and inserts new ones, so what a
coroutine read in an earlier epoch addresses rows that are gone.

| Action | Code |
|---|---|
| `Structure`, `StructureEnqueues`, `StructureRecovered` | `run_structuring_agent()`, the successor it enqueues, and its re-run when the worker died in between |
| `Claim`, `Recover` | the queue, reduced to this job |
| `ReadQuestions`, `ReadAnswered` | the two reads that select what is still unanswered, and the cut into batches |
| `Retrieve`, `Store`, `Ask`, `GatherReturns` | one sub-batch: retrieval, the stored no-source or model answers, the call to the model, the wait for the fallbacks |
| `StoreRefused` | another process's leftover fallback inserted the response between the SELECT and the INSERT of `_upsert_response()`: the unique key refuses, and the batch raises (a fallback that is refused is a `FallbackRaises`) |
| `FallbackStores`, `FallbackRaises` | a fallback's end |
| `RoundEnds` | the batches that raised are tried once more |
| `Count`, `MarkDone`, `MarkFailed` | one answer is enough to complete the stage |
| `EditResponse`, `Crash` | the user and the failures |

An answer is abstracted to who wrote it last. A stored answer takes one step:
the response and its citations are written in one transaction.

### Accounts

`users`, `orgs`, `members` and `invites` are the tables; a workspace is named after
the user it was provisioned for. `proc[p]` is the handler process p is in the middle
of: none of these handlers awaits between its statements, so a process has one at a
time, while the transactions of two processes interleave at read committed. A
handler that reads, decides and writes is cut there (`InviteRead` and
`InviteWrite`, `AcceptRead` and `AcceptWrite`), and the purge at each transaction.
A Google sign-up does await, between the lookup of the guest and the upgrade: the
guests with a sign-up under way are in `signing`.

| Action | Code |
|---|---|
| `CreateGuest`, `FreshAccount` | `create_guest()`; `_fresh_account()` and the end of `_resolve_google_user()` |
| `SignupStart`, `SignupUpgrade`, `SignupFresh`, `SignupFails` | `optional_guest()`, then the upgrade of the guest in place, a fresh account if it is no guest any more, or a refusal |
| `Upload` | `documents_upload()` and `upload_knowledge()`, reduced to "the workspace has files of this kind" (`FileKinds`) |
| `InviteRead`, `InviteWrite`, `InviteExpires`, `AcceptRead`, `AcceptWrite` | `create_invite()`, `accept_invite()` |
| `CleanupList`, `CleanupCheck`, `CleanupFiles`, `CleanupDelete`, `CleanupFails`, `CleanupEnds` | `_run_cleanup()`: the list, then per workspace the check of its members, the removal of its files, the delete; an error moves on to the next one |
| `Ages`, `Crash` | a day passes; the process dies |

The age of a guest's workspace is what matters for the purge. A guest token is valid
for 24 hours (`config.py:23`) and the purge takes workspaces older than 48
(`cron.py:17`); so a workspace is "new" (its guest is signed in), "lapsed", or "old"
(it may be purged), and a sign-up that started while it was new ends before it is
old. This is an assumption about the defaults and about a sign-up that takes less
than a day; nothing else in the code keeps the purge and the guest apart.

`takers` of an invite is a history variable: `accepted_by` holds the last taker only.
Left out: e-mail addresses (a sign-up whose address is taken changes nothing),
`login()` (it provisions a workspace for an account that has none, and no step
leaves one without), the deletion of documents by their owner. The removal of a
directory is assumed to succeed once it returns (`shutil.rmtree` ignores errors).

### KnowledgeBase, Chunker and Corpus

`row` holds the status of each knowledge document and RFP, `hashed` the rows whose
`text_hash` is set, `chunks` their rows in `document_chunks`, `sparse` the documents
whose chunks were stored without embeddings because no `key` was configured, `files` the stored
files, `events` the uploads of the last seven days. An upload and the document it
inserts have one name. The handlers call the database and the disk synchronously,
so a request keeps its process (`home`, `Busy`) except while it awaits the
embedding; there the other requests of the process run, a deletion of the very
document included. Requests of two processes interleave at every transaction and
every file access. Without a key there is no await: the request stores its chunks
without embeddings (they are found by their terms only) and keeps its process.
Documents have equal hashes when their raw texts agree (`SameWords`), whatever their
types, levels and pages; `RawText` keeps of a block what the model has of its words,
their number.

| Action | Code |
|---|---|
| `CheckKnowledge`, `CheckRfp` | the caps, counted before anything is written |
| `SaveFile`, `InsertKnowledge`, `InsertRfp`, `InsertFails`, `RemoveFile` | the file, then the row with its upload event, or the removal of the file when the insert fails |
| `FileFails`, `DeleteFileFails` | the file system refuses a write, of which a part may stay, or a removal: the exception ends the request and nothing cleans up |
| `SetStage`, `Parse`, `Lookup`, `Duplicate`, `EmbedReturns`, `Store` | `ingest_knowledge_document()`: the look for a ready document with the same hash, the duplicate that is marked ready without chunks, or the chunks, their embedding and the one transaction that stores them |
| `Raises`, `Fail` | any exception of the ingestion, and the row that is marked failed |
| `DeleteRow`, `DeleteFile` | `delete_knowledge()`, `document_delete()`: the row with its chunks, then the file |
| `WeekPasses`, `Configure`, `Crash` | an event is no longer counted; the service is restarted with or without a key, between requests; the process dies |
| `GuestLeaves`, `PurgeFiles`, `PurgeRows` | the purge of the workspace: the directories of the deals, then the cascade |

`died` is a history variable: the uploads and deletions that a crash or the file system
cut short, which
is what the invariants about files and stranded rows have to except. Two files are
assumed never to have one path: the name holds the millisecond and the client's
file name (`knowledge.py:102`), so two uploads of one name in one millisecond would
share a file. A step of the database that fails at its commit counts as a crash of
that request.

`Chunker` reads a document as its blocks. A block is its type, level, page and
length in tokens; its text is its position, so a chunk is a sequence of positions
and its section the positions of the headings above it. `ChunkBlocks` applies the
body of the loop (`Absorb`) to one block after the other. `KnowledgeBase` stores
`ChunkBlocks(text[d])`, so that one run checks the chunker through what retrieval
finds. A `Text` is what the parsers return: no block is blank (each of them skips
empty text, and a list item begins with its bullet), and the pages do not decrease.
The latter is how the PDF is read (`parse.py:157`), and all blocks of a DOCX or TXT
file are on page 1; for scanned documents it is an assumption about the OCR service,
which numbers the pages it returns (`parse.py:132-133`).

`Corpus` is what answering needs of all this: a document becomes answerable in one
step, whole, never beside another of the same text, and stays so until it is
deleted; a document whose text is there already, or was when it was compared, is a
duplicate. `ImplementsCorpus` maps the text of a document to its raw text, a ready
row with chunks to answerable and a ready row without chunks to duplicate.

### RateGate

One model in one process. A call is queued for the semaphore, waits for a slot,
sends, sleeps after a 429 and ends. Nothing awaits inside the lock, and the request
is handed to a fresh HTTP client with no await after the slot is taken
(`llm.py:135-141`); `sent` is the age of that moment. What the client awaits before the
request is on the wire, its connection, is the network's part and not modelled, so the
bounds are about requests made, not about their arrival. Hence a pass of the loop of
`_reserve_slot()` is one step (`Reserve` or `Wait`). Time is discrete; each moment is
kept as its age up to a minute (`sent`, `rest`), so the state space is finite without
a bound on time. `sent[c][1]` is both the age of the slot in `request_window` and that
of the first request.

`tokens[c]` is what the entry of call c counts in `token_window`, and `live` says
whose entry is still the object that the call holds. Every look at the window
replaces all entries by copies (`llm.py:83`), so usually the first `Wait`, `Reserve`
or `FastLaneSaturated` after a reservation makes its reconciliation
(`llm.py:187`) void. `usage` is a history variable.

| Action | Code |
|---|---|
| `Enter` | `async with s.sem` |
| `Reserve`, `Wait` | `_reserve_slot()`, with `ReqOk`, `TokOk`, `GapOk` as its three conditions |
| `FastLaneSaturated` | `fast_lane_saturated()`, whose only effect is that of `_window_tokens()` |
| `Answered`, `BackOff`, `Retry`, `Raise` | `_send_with_retries()` and the end of `_call()` |
| `Tick` | time passes |

The limits are positive here; a limit of 0 switches a condition off in the code.

## Runs

| Run | Question | Bounds | Result |
|---|---|---|---|
| `job_queue_crash` | Two processes, one of which dies between any two transactions: does anything get lost, doubled or stuck? | 1 document, 2 processes, 1 attempt, 1 crash | `NoGap`, `ClaimsBounded`, `OneWorkerPerJob`, `BatchMixedByCrashOnly`, `FinalStatusIsEarned`, `DoneIsFinal`, `JobsSettle` hold |
| `job_queue_one_process` | Two drains on one event loop, failures and retries, a second call of process, a deletion, a call of process without a key: do the stages run once, in order, and end in the right status? | 1 document, 1 process, 2 calls, 2 attempts, 2 calls of process, no crash | all six properties hold |
| `job_queue_slow` | Workers outlive their lease and write to rows they no longer hold. | slow extract and generate, at most three claims of a row | `NoGap`, `DeadIsExhausted` hold |
| `job_queue_stage_again` | Is the re-enqueue after a crash idempotent, as the comment says? | 2 processes, 1 crash | violated |
| `job_queue_stale_status` | Does a completed document stay completed when two processes drain? | 2 processes, no crash | violated |
| `generate` | Failing retrievals and fallbacks, an edit, a crash, a structuring job that runs again beside the worker: who can be left without an answer, and which edit can be lost? | 3 questions of one category, batches of at most 2, 2 processes, 1 attempt, 1 re-run, 1 edit, 1 crash | all four properties hold |
| `generate_settles` | Does the job end, whatever raises? | one batch of two, 2 attempts, 1 crash | `TypeOK`, `GenerateSettles` hold |
| `generate_edit_lost` | Does the retry skip what is answered, as the comment says? | one batch of two, 1 process, no crash | violated |
| `accounts` | Guests age, upload, sign up, invite and are purged by two purges that fail at any point: does anybody who is signed in lose anything, does anything of the deals of a purged workspace stay, and how far beyond its cap can a workspace grow? | 4 accounts and 2 invites, or 3 users with guests and 1 invite; 2 processes | `TypeOK`, `PurgeTakesDeals`, `WorkIsKept` hold, and `MembersBounded`: three members, never four |
| `accounts_cap` | Does accepting enforce the cap, as the docstring says? | 3 users, 2 processes, 1 invite | violated |
| `knowledge` | Two processes upload with and without a key, delete, fail, die and are purged: do rows and files stay together, do the caps hold, who is stranded, and is what can be retrieved always whole, without a text twice? Are the chunks of any text its blocks, in order and of the right size? | 3 documents (2 with the same words on different pages) or 2 RFPs, caps of 2, 1 and 1, 2 processes, 1 week passed; or 1 document with any text of at most 4 blocks | all eight invariants and `ImplementsCorpus` hold |
| `rate_gate` | Retries without a slot, lost reconciliations, a call above the limit: what do the windows still bound, and is every call served? | 4 calls, 2 requests and 5 tokens a minute of 3 ticks, 2 in flight, 1 retry | `SendsBounded`, `TokensBounded`, `CallsEnd` hold |

Bounds of the queue. One document is enough for its properties, since jobs of
different documents meet only in the claim and in the gather, which treat each
row alike. `ClaimBatch` is 8 as in the code, more than the rows that are ever due
here, so that a round takes up everything. `MaxAttempts` is 1 or 2: with 2 a job
both retries and is buried. `MaxJobs` bounds the rows ever inserted; it is a guard
of the two actions that insert, and large enough in each run never to block one
(deadlock is checked). `MaxProcess` bounds the calls of
process for a document; it is 2 where queuing again matters: what happens then is that an old worker meets a new run, and more runs repeat it.
`MaxCrashes` is 1. Three state constraints keep the runs finite or small:
`FewRetries` bounds how many rows are claimed more than once; in the slow run,
where a lease lapses again and again, `ThreeClaims` bounds the claims of a row and
`SteadyStages` leaves the retries of the other stages to the other runs.

Bounds of generation. A batch of two is the smallest one in which one fallback
stores and another raises; the second batch, of what is left, shows what is left alone. With
three questions of one category and batches of at most two, a run may cut them in every
way, and a later run cuts what the first has left differently; questions and batches are
interchangeable there and symmetry is used. The
liveness run has one batch only: a batch waits for nothing but its own fallbacks,
and the run for each batch in turn. In `generate` one attempt keeps the second
batch affordable, in `generate_settles` two attempts show the retry of the job.

Bounds of the accounts. Users, processes and invites are interchangeable and
symmetry is used (the properties are safety); the fourth user and the second
invite are named, as the last ones to come. Three users are a guest who upgrades, one
who does not, and an invitee; two processes are two handlers in the middle of
their work, as the service has two. Going beyond the cap by two would take four
members and two open invites: the constraint `Bounded` admits those when there never
is a guest (only accounts invite and accept), and three users and one invite
otherwise.

`FewFiles` lets one workspace have files at a time, of one kind: no action reads them, and
each property looks at one workspace and one kind.

Bounds of the knowledge base. Two documents of one text race for the hash and a third
one meets the caps; with `MaxDocs` 2 and a weekly cap of 1 each cap is reached and
exceeded by a second process. One upload may leave the weekly window
(`OneWeekPassed`), which is what lets a second one in. RFPs and knowledge documents
share no cap and no row, so `Bounded` takes them in different behaviours. The texts of
the chunker's part have up to four blocks out of two levels of heading, paragraphs of
1, 2 and 5 tokens and list items of 1 and 2, with `TargetMin` 2 and `TargetMax` 3: one
block can miss, reach or exceed each boundary, 1.5 `TargetMax` included; a document
with an arbitrary text is alone, and is uploaded without a deletion, a crash or a
purge.

Bounds of the rate gate. With a limit of 5, the four calls estimate 3, 3, 4 and 6 and may
report 2: two that fit into one minute only after a reconciliation, one that does not
fit even then, and one above the limit. Two slots in a minute of three ticks and two
calls in flight make both terms of `SendsBounded` matter.

`CHECK_DEADLOCK FALSE` is set for `Generate`, `Accounts` and `KnowledgeBase` only,
whose systems really stop: the document is generated, and the bounds on edits and
re-runs are used up; all users are gone, and the ids are used up; the workspace is
purged. The job queue never stops, the
scheduler keeps draining.

Fairness (`FairSpec` of `JobQueue`). Weak fairness of every step of a coroutine
(the event loop runs what is ready, and every await ends because the HTTP
clients have timeouts), of the scheduler's tick (`/jobs/drain` is called every
minute), and of the clock. `Crash`, the handlers and the heartbeat are not fair.
The crash bound is part of the liveness assumption: a worker that dies for ever
settles nothing. `FairSpec` of `Generate` is the same for the steps of the run,
of each batch and of the fallbacks, and for the queue that claims and recovers;
edits, crashes and the re-run of structuring are not fair. `FairSpec` of `RateGate`
asks for the clock and for the calls as a whole: a call that sleeps looks again after
at most five seconds (`llm.py:121`), and a request is answered or times out after 90
(`llm.py:135`). It does not ask that the gate be fair between calls, which the code's
lock does not promise either; as there are finitely many calls, all end
nevertheless.

## Findings

- The re-enqueue of a recovered stage is not idempotent
  (`job_queue_stage_again`). `jobs.py:483-484` and `jobs.py:200` rely on the
  unique-live index, which covers pending and claimed rows only. When the worker
  dies between `enqueue_successors()` and `mark_done()` and the successor is done
  before the lease lapses, the re-run inserts it again, and every later stage
  runs a second time; a second structure stage deletes the questions with their
  answers.
- A completed document may show a running status for good
  (`job_queue_stale_status`). `derive_doc_status()` reads and writes in two
  transactions; of two processes that derive the status of one document, the one
  that read first may write last.
- The retry of a failed sub-batch answers again what its fallbacks have stored
  (`generate_edit_lost`), although `jobs.py:415-417` says that persisted responses
  are skipped. An edit made in between is overwritten. `EditsLostToRetriesOnly`
  states the exact extent as long as no run of the job has failed and structuring has
  not run again (`reruns = 0`): edits are then lost to the second round, or to a fallback
  left over from a batch that raised, and to nothing else. A later run, or another
  structuring, can lose edits in more ways, which the property leaves open.
- Two invitees who accept at once in two processes both join (`accounts_cap`),
  although `auth.py:245-246` says that the cap and the single use of an invite are
  enforced. `MembersBounded` states the exact extent: one member too many for each
  further process.

The following were met while modelling too. They have no run of their own; each
line says which instance shows it, or which property states its extent.

- A claimed batch may mix two stages of one document: after the same crash the
  recovered stage and the successor it had enqueued are both due, and one gather runs
  them at once, although `jobs.py:515-517` calls the jobs of a batch independent.
  `BatchIsIndependent` is violated in the instance of `job_queue_crash`;
  `BatchMixedByCrashOnly` states how far it goes, one job more for each crash.
- A crash after the last `mark_done()` and before `derive_doc_status()` loses the status
  for good: "the scheduled tick stays as the recovery net" (`documents.py:174-175`)
  derives the status only of documents whose jobs it claims. `RestingStatusIsDerived` is
  violated by one process and one crash; `FinalStatusIsEarned` says what such a
  document cannot read: completed or failed without reason.
- Queuing again is no clean slate (`documents.py:142, 162`): a stage of the earlier run
  that is at work enqueues its successor into the new run, so a later stage can stand
  beside its ingest. Hence the exemption `QueuedOnce` of the properties about order.
- A failed job is not always "re-queued or buried" (`jobs.py:128`): after a crash and
  with a worker that outlived its lease, the re-queue violates the unique-live index and
  its exception ends the round. `NoDrainAborts` is violated with two attempts, one crash
  and a slow extract; without slow workers it is a theorem.
- `completed` does not imply an answer (`jobs.py:241, 424-427`): a structuring job that
  is recovered after it enqueued its successor replaces the questions, and their answers
  with them, after the worker has counted these; the successor it enqueues is swallowed
  while that worker's job is live. Hence `reruns = 0` in `DoneHasAnswers`.
- Guest data is kept in part (against "Guest data is never kept", `auth.py:9`): the purge
  removes the directories of the deals, `{deal_id}/` (`cron.py:57-60`); the knowledge
  files lie under `{org_id}/` (`knowledge.py:102`) and stay on the disk without a row
  (the last case of `OrphansAccounted`). `PurgeTakesDeals` claims no more than the code
  does.
- A guest's work carries over to the account, although `auth.py:10-12` ("a guest's
  in-progress work does NOT carry over"), `google_auth.py:15-18` ("there is no
  guest-to-account carryover") and `cron.py:3-7` ("No such upgrade path exists yet") say
  the opposite. `signup()`'s own docstring (`auth.py:91-94`) agrees with the code, and
  `WorkIsKept` is about what the code does: the three comments are out of date.
- A document stored without embeddings cannot be completed by uploading it again under
  a key, as its message asks (`ingest.py:136`): the look for a duplicate asks for a ready
  row of the same hash (`ingest.py:73-86`), not for embeddings, so the new upload is set
  aside.
- A duplicate stays ready without chunks when its original is deleted: the text is then
  listed and cannot be retrieved. `RetrievableUnlessDeleted` states that this is the
  only way, and `SetAside` of `Corpus` admits it.

More of what the knowledge base and the rate gate show is stated by invariants that hold:

- "Ingest inline so the row can't be left stranded mid-stage" (`knowledge.py:130`) is
  true of every failure, but not of a worker that dies: no job row exists for the
  document, and nothing but a deletion takes it up again (`StrandedByCrashOnly`).
- The caps are exact for one process and exceeded by one for the second (`CapsBounded`);
  the Dockerfile starts two.
- "The per-workspace daily rate limit (3 RFP + 3 knowledge uploads per calendar day, UTC)"
  (`schema.sql:239-240`) is in the code one of seven days (`documents.py:105-110`,
  `knowledge.py:78-81`, and the messages to the user); `events` is the code's.
- A file the system refuses to write or to remove may stay without a row, as may the
  knowledge files of a purged workspace (the last cases of `OrphansAccounted`).
- "never split a list across chunks" (`chunk.py:3-4`) is not what the loop does: a
  list item that would exceed `TARGET_MAX` starts a new chunk like any other block
  (`chunk.py:119-122`). `ChunksSized` states the sizes that are kept: a chunk may also
  be as short as its section, and exceed 600 tokens by its last block.
- Retries send without a slot (`llm.py:142-148`), so a minute may see
  `(1 + max_retries) * LLM_RPM + max_retries * LLM_MAX_CONCURRENCY` requests
  (`SendsBounded`).
- The reconciliation of estimated with reported tokens is usually lost
  (`llm.py:83, 187`). When a call uses more than it estimated, the window may count
  less than was used; `TokensBounded` therefore counts the smaller of the two.
- The gate's state is one process's ("out of scope while there's a single worker",
  `llm.py:3-5`) and the service runs two, so each limit holds for each of them.

One more consequence of late fallbacks follows from the model and has no run of
its own: the stage may count zero answers and bury its job while a fallback is
still at work, and the document then reads `generation_failed` with an answer in
it.

## Proofs

The theorems about the queue are about `Spec` of `JobQueue`, for all values of the
constants allowed by `ConstantsAssumption` (so also for any number of rows, crashes and
re-queues, as the bounds are constants like the others). `JobQueueProofs`, with no
further assumption:

- `TypeCorrect`: `Spec => []TypeOK`.
- `NoGapCorrect`: `Spec => []NoGap`.
- `DeadIsExhaustedCorrect`: `Spec => []DeadIsExhausted`.

The last two rest on one inductive invariant, `IInv`. Neither is inductive alone.
`mark_done()` updates the row by id, whatever happened meanwhile, so `NoGap`
needs that a task which is about to mark its row done still has a successor in
the table; that holds because rows leave the table only with all the rows of
their document. `mark_failed()` compares the attempts of the snapshot, so
`DeadIsExhausted` needs that a snapshot never counts more attempts than the row.
`TaskInv` says both of every task whose row still exists.

The argument is layered. The first lemmas say what each operation does to the
table (`InsertedTable`, `RowsDeletedTable`, `TableUpdate`) and to the tasks
(`TaskGotoEffect`). `KeepsRows`, `KeepsSettled` and `KeepsTasks` name what a step
must respect; `NoGapKept`, `DeadKept` and `TaskInvKept` show that this is enough;
and the lemmas `IInvHandlers` to `IInvEnvironment` go through the actions.

`JobQueueWorkerProofs`, for `SlowStages = {}` (a lease lapses only when no worker
has the job; without it all three are false, the late worker is the
counterexample):

- `OneWorkerCorrect`: `Spec => []OneWorkerPerJob`.
- `ClaimsBoundedCorrect`: `Spec => []ClaimsBounded`.
- `DoneIsFinalCorrect`: `Spec => DoneIsFinal`.

They rest on a second invariant, `WInv`. A row at work is claimed, its lease is
held, and its worker's snapshot counts the row's own attempts (`HeldInv`): so
`recover_stuck_jobs()` does not take it, `claim_jobs()` does not claim it again,
and what the worker writes at its end is about its own claim. A call that starts a
claim has no task left (`RestInv`), so no worker is forgotten. And a row that is
pending, or claimed with nobody at work, still has a claim left (`CountInv`); a
crash, which makes a claimed row ownerless, is what grants it one. Most steps
change neither who works on what nor the rows, but for those they delete, insert
or recover (`HandsKept`); three actions end a task (`FinishKept`); the claim and
the crash have a lemma each.

`JobQueueOrderProofs`, for `SlowStages = {}` too, and any number of rows, documents,
drains, attempts and re-queues:

- `NoDrainAbortsCorrect`: `Spec => []NoDrainAborts`.
- `StageIsQueuedOnceCorrect`, `BatchIsIndependentCorrect`: `Spec => [](crashes = 0 => ...)`
  of each, for any number of processes.
- `StagesInOrderCorrect`, `RestingStatusIsDerivedCorrect`: the same, with one process.
- `CompletedIsStableCorrect`: `Spec => CompletedIsStable`, with one process, crashes included.
- `FinalStatusIsEarnedCorrect`: `Spec => []FinalStatusIsEarned`, with any number of processes
  and crashes.

In `StageIsQueuedOnce`, `BatchIsIndependent` and `StagesInOrder` a document that is queued
again is exempt (its old worker may still be
at work, see Findings), but not in the two about its status; one that reads
`uploaded` is exempt there, since `documents_process()` without a key writes that whatever
the rows say.

The hypotheses are where the code stops promising: after a crash a stage may be queued
again (run `job_queue_stage_again`), its batch mixed or a status be lost, and a second process may write a status it read
before (run `job_queue_stale_status`) or claim a successor before its predecessor is
marked. With several processes and no crash the stages are still queued once, which is
what `StageIsQueuedOnceCorrect` and `BatchIsIndependentCorrect` say.

The invariants are stacked, each on the one before:

- `UInv`: of a document and a stage at most one row is live (`LiveUnique`), which is
  what the unique index guarantees, and no task meets it when it returns its row to
  pending, because its own row is the live one.
- `FInv`: a document that is queued for the first time finds no row (`BareInv`), and
  no late write brings the status of a deleted document back (`WritesNoDeletion`).
- `OInv`: a row whose successor exists has been passed, that is, it is done or about to be
  marked done (`Chain`). Then `enqueue_successors()` finds no row of the next stage, and
  no round claims two rows of one document, as a claim takes pending rows only.
- `HInv`: with one process at most one coroutine is between two awaits (`OneHot`), so while
  a row is about to be marked nobody works on its successor (`AloneInv`).
- `SInv`: the status of a document with no live row is the one its rows say, unless a
  call is still going to write it (`StatusInv`); what a call is about to write is what the
  rows say now (`WriterInv`), because nobody else of its process has moved since.
- `CInv`: a document that is completed has rows that say so (`CompletedInv`). This one
  needs no condition on crashes: a row that is done stays done.
- `EInv`: a final status is deserved when it is read (`ReadIsDeserved`: the document's
  ingest row is there, none of its rows is live, and `NoGap` leads from each stage to the
  next), and still when it is written, as a row that is done or dead stays so
  (`EndedStep`). It stands on `FInv` and `NoGap` and needs neither one process nor
  `crashes = 0`.

`GenerateProofs`, for any number of questions, batches, processes, attempts, re-runs,
edits and crashes:

- `TypeCorrect`: `Spec => []TypeOK`.
- `BatchesAnswerAll`: `Spec => []BatchAnswersAll`.
- `OnlyFailuresLeaveQuestions`: `Spec => []OnlyFailuresStrand`.
- `DoneMeansAnswered`: `Spec => []DoneHasAnswers`, for a document with at least one
  requirement; without one the stage has nothing to ask and completes at once
  (`jobs.py:355`).
- `EditsLostOnlyToRetries`: `Spec => EditsLostToRetriesOnly`.

`WInv` keeps the worker, its batches and the fallbacks together: a run has a claim, a batch
has questions of its own in hand, each in one place, and a fallback belongs to a claim that
has been made. `GInv` adds `CoverInv`, the reason why nothing is forgotten: an unanswered
question of the current epoch is, at every point of the run, among what its batch may
still answer, or its batch has failed. `AloneInv` says what holds as long as structuring
does not run again beside a worker. For the edits `EInv` adds a count: a claim, or a
structuring run, makes up for every crash (`ClaimInv`), so that as long as no run has
failed the fallbacks under way are those of the present run (`OwnInv`), and in the first
round a question in hand is unanswered and in one hand only (`OnceInv`): nothing that
is stored then meets an edit.

`AccountsProofs`, for every cap of at least one, and any number of users, invites
and processes:

- `AccountsTypeCorrect`: `Spec => []TypeOK`.
- `MembersBoundedCorrect`: `Spec => []MembersBounded`.
- `WorkIsKeptCorrect`: `Spec => WorkIsKept`.
- `PurgeTakesDealsCorrect`: `Spec => []PurgeTakesDeals`.

The bound on members is not inductive: a process that has read that there is room
is sure to join. `Room` therefore counts the processes that are about to join a
workspace together with its members, and asks that the sum is below the cap plus
the number of processes. A read needs room below the cap, and there are never more
joining processes than processes; a write turns one of them into a member; a
workspace that is provisioned has one member, and the process that provisions it
is not joining it. `OneOrg` (an invite is for one workspace) makes the room that was
read that of the workspace that is joined.

A purge reads the members of a workspace, removes its files and deletes it in three
transactions, so the invariant `GInv` says that what it has read cannot change
(`Handling`): the workspace is old or gone, its members are guests, and after the second
step it has no files of deals. Two facts keep that so. `PlaceOf`: a guest is a member of its own
workspace only, and one whose sign-up is under way has not got an old one, so no
member of an old workspace is upgraded. `SharedByAccount`: a workspace with an invite,
or with somebody about to invite or to join, has an account among its members or is
gone, so nobody joins a workspace of guests. `RespectsPurge` is what each step must
leave as it is; `NotPurged` concludes that nobody who is signed in is in the hands of
a purge.

`KnowledgeProofs`, for all caps, texts and chunk sizes, and any number of documents,
RFPs and processes:

- `KnowledgeTypeCorrect`, `RowsHaveFilesCorrect`, `OrphansAccountedCorrect`,
  `StrandedByCrashOnlyCorrect`: `Spec => []...` of each.
- `CapsBoundedCorrect`: `Spec => []CapsBounded`.
- `AnswerableIsWholeCorrect`: `Spec => []AnswerableIsWhole`.
- `RetrievableUnlessDeletedCorrect`: `Spec => []RetrievableUnlessDeleted`.
- `ChunksSizedCorrect`: `Spec => []ChunksSized`.
- `KnowledgeImplementsCorpus`: `Spec => ImplementsCorpus`.

All of them rest on `TypeOK` and on `Located`, which says where a request can be: one that
has begun and not ended is in exactly one process, and its row is as far as its
steps. `Filed` adds to the
two file properties what the steps in between need: from `saved` on an upload has its
file, a row that does not exist yet belongs to an upload that has not inserted it.
For the caps, `Rooms` counts with the rows the uploads that have passed the check and
not yet inserted; as `OneAtATime` lets a process hold one of them only, and a check
needs room below the cap, the sum is below the cap plus the number of processes. For
the refinement, `Answering` says that the rows with chunks are those that are ready and
hold their hash, and that an upload that is about to be set aside, or was, has met a
document of its words that is answerable or has been deleted since, which is
`RetrievableUnlessDeleted`; every step is then a step of
one document (`OneDocument`), a purge, or a stutter. The two properties of the chunks
follow from `TypeOK` (what is stored is `ChunkBlocks` of the text), `Answering`, and the
theorems about the chunker.

`ChunkerProofs`, for every `Text` and all `0 < TargetMin <= TargetMax`:

- `ChunksWhole`: `Whole(ChunkBlocks(blocks), blocks)`.
- `ChunksSizedWell`: `Sized(ChunkBlocks(blocks), blocks)`.

`Between(s, blocks, n)` is the loop invariant after n blocks. The stack is the path of
headings above the next block (`HeadingPath`: the levels grow along the stack, so what a
heading takes off is its end). The chunks are `Good` for the first n blocks, or, with an
open chunk, it `Completes` them: it holds exactly the body blocks after those of the
chunks before it, and if the one before is too short its first block follows a heading.
`RoomMade` says which chunk a block joins, `AddCompletes` that it fits there,
`Completed` that the open chunk can be pushed. The library's induction theorems
cannot be used (they take an operator), so the loop is proved from well-foundedness
instead: a set of numbers that is not empty has a smallest one (`SmallestNumber`, from
the order of strict inclusion on finite sets). If the recursive function did not exist
for some length, or its state broke the invariant after some block, there would be a
first one, and the step to it says otherwise (`RoundsExist`, `BetweenRounds`).

`RateGateProofs`, for all limits, windows, retries and calls:

- `RateGateTypeCorrect`: `Spec => []TypeOK`.
- `SendsBoundedCorrect`: `Spec => []SendsBounded`.
- `TokensBoundedCorrect`: `Spec => []TokensBounded`.

`Limited` is the invariant behind the second one: the slots of a minute are within
`Rpm`, the calls in flight within `MaxConcurrency`, and so are, for every age k up to
a minute, the calls that were in flight k ago and have sent since. A request of the
last minute is then one of a call whose slot is in the window, at most
`1 + MaxRetries` for each, or a retry of one that was in flight when the minute began,
at most `MaxRetries` for each. `SentInOrder` ties the
ages to the requests that were really sent.

For the tokens, `Charged` says that a call which has not ended has reported no usage,
and that an entry in the window counts at least the smaller of estimate and usage,
whether its reconciliation was lost or not. A reservation looks at the sum of the
entries and leaves it within the limit, unless the call alone is above it (such a call is
let through, and the bound leaves it out); every other step takes entries away or lowers
what they count. That a sum over a set exists, grows with its terms and loses the term of
an element that is removed (`SumExists`, `SumMonotone`, `SumRemove`) is proved from a
smallest counterexample, like the chunker's loop.

Only model-checked: the liveness properties (`JobsSettle`, `GenerateSettles`,
`CallsEnd`), as neither fairness nor ENABLED is in the prover's reach. Of the properties
of the queue, those that a crash or a second process breaks are proved without it, as said
above; what TLC finds in the other cases is a finding. `BatchMixedByCrashOnly`, the
extent of the first of them after a crash, is checked and not proved. Every other invariant, action property and refinement that a passing run
checks is a theorem.

## Not modelled

Out of the models for good: parsing and DOCX export (I/O and layout), the
prompts and the content of answers, BM25 and vector scores (real arithmetic),
feedback (one upsert), configuration, pool and cookies. The transaction isolation
of PostgreSQL is an assumption: a statement is atomic, a transaction sees what is
committed, constraints hold. The legacy per-question generate job
(`jobs.py:305-325`) is enqueued by nothing and left out. Inside an `extract`
stage the sub-batches of `run_extraction_agent()` are one step. Of the knowledge base,
the page cap (it only refuses more) and two files of one path; of the rate gate, the
limits of 0, more than one process, and the repair of an answer's JSON.

## Plan

In this order; each module comes with its properties, an MC module and one run.

1. Pure functions, checked against reference definitions over bounded inputs in
   one run: `SharedSources` (`rag.py:287-305`), the merge of rankings
   (`retrieval.py:171-177`) and the salvage of a truncated array
   (`llm.py:191-222`), written with folds.
2. An abstract specification of a document's pipeline (queued, at a stage, settled
   in one of four ways) that `JobQueue` with one process implements, and one of a
   workspace (a guest's, an account's, or gone, never from the second to the third)
   that `Accounts` implements.
3. Proofs: that the two abstract specifications of item 2 are implemented, step by
   step, from `SInv` and the `GInv` of the accounts; the functions of item 1 against their definitions, with the
   smallest-counterexample lemmas of `ChunkerProofs` and `RateGateProofs`.
