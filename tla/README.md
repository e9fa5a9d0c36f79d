# Coeus in TLA+

Coeus reads photographs of exam sheets. A user opens a session and uploads
images; each image becomes a job in a PostgreSQL table; worker goroutines claim
jobs, enhance and extract the image with AI services, deduplicate the questions
they find, store and link them and have their answers verified; experts review
what is stored, write questions by hand or import files of them; admins manage
accounts. One Go process serves HTTP and runs the workers, several of each kind
of request run at the same time, and **everything they share is PostgreSQL**. So
the grain of every module here is the statement (or the commit): one action is
one thing the database does atomically, and between any two of them anybody else
may act, a run may become late, or the process may die.

`src/` below is the repository. `PROJECT.json` maps every definition to the lines
it models.

## 1. Inventory

| component | source | state | operations | module |
|---|---|---|---|---|
| job queue | `storage/postgres/job_queue.go` | `jobs`: status, attempts, queued_at, started_at | Enqueue, Claim (transaction), Complete, Fail, ReaperReclaim (two statements) | `JobQueue`, abstractly `JobLifecycle` |
| worker pool, reaper | `pipeline/worker.go`, `Pipeline.Run` | per goroutine: its job; reaper's progress | claim loop, panics, startup and ticker reaper, Start, Stop | `JobQueue` |
| process | `cmd/coeus/main.go` | up, stopping, down | shutdown, crash, restart | `JobQueue` (partly) |
| extraction pipeline | `pipeline/pipeline.go` | per run: position, attempt and back-off, extraction, new rows | load, enhance, extract with retries, dedup, create, link, verify, placeholder | `Pipeline`, `ExtractionRetry`, `QuestionContent` |
| question store | `question_repo.go`, migrations 0002 and 0005 | questions, session_questions | Create, LinkToSession, FindExact, FindSemantic, UpdateFromVerification, UpdateByExpert, Delete | `QuestionStore`, `Moderation`, `QuestionContent` |
| image store | `image_repo.go` | images; original and enhanced bytes | Create, FindByID, ListBySession, UpdateEnhanced, cleanup | `QuestionStore`, `Pipeline`, `Moderation`, `Sessions` (partly) |
| moderation API | `handlers/questions.go` | open transactions | PUT, POST, DELETE /questions | `Moderation`; field rules in `QuestionContent` |
| accounts and tokens | `user_repo.go`, `middleware.go`, `jwt.go`, `auth.go`, `users.go` | users, tokens, admin requests in flight | register, login, refresh, authorize, update, delete, reset | `UserAdmin` (partly) |
| bulk import | `importer/`, `question_import.go` | per request: file, embeddings, report | validate, embed in chunks, upsert rows | `Importer`; rows in `Moderation`, `QuestionContent` (partly) |
| sessions, upload window | `session_repo.go`, `handlers/sessions.go`, `handlers/images.go`, `middleware.go` | sessions; uploads and lists in flight | create, close, SessionWindow, the steps of Upload and of List, the cascade of a user's deletion | `Sessions` |
| domain rules | `domain/`, `dto/question.go`, `extractor/schema.go` | none | ValidateDraft, inference of types and labelings, labels of choices and answers | `QuestionContent` |
| AI clients, image enhancer | `ai/` | none | remote calls | `Pipeline`: nondeterministic answers (`Extracted`, `Verdicts`) |
| configuration, logging, routing | `config/`, `server.go` | none | | none: the configured numbers are CONSTANTS |

How they interact: Upload writes an image and a job and notifies; workers poll or
are notified, and everything a run does reaches others only through rows; experts'
requests and runs meet on `questions`, `session_questions` and `images`; admins'
requests meet on `users`; a user's deletion cascades to sessions, images, jobs and
links under whatever is in flight; starting processes apply the migrations to the
rows that are there.

What is hard: a run cannot be told that the reaper has given its job away, so
several runs of one job may be alive; Complete and Fail name a job, not an
attempt; look-ups and the inserts that rely on them are separate statements; an
upload is admitted, stored and queued in three steps; a PUT's transaction reads at
READ COMMITTED what others commit meanwhile; tokens are judged by a version
computed from a row read earlier; labels are stored nowhere and derived from
choices that others may have rewritten; and every graceful restart looks to the
table like a crash. The list, each at its line, is under `hazards` in
`PROJECT.json`.

What makes each component correct:

* *queue*: attempts are bounded, run once each, and every job is decided, once;
* *pipeline*: what is done is linked, what is found is shown, every upload is
  decided, verdicts reach only the run's own rows;
* *moderation*: hand-written answers survive, bytes go exactly with the review that
  resolved the image, every update ends;
* *sessions*: nothing dangles, a session is open as long as it was asked for, an
  accepted upload has its job and is decided, and what a list calls unknown was not
  accepted, unless the list could not read the statuses and calls everything unknown;
* *content*: a type follows its choices, except a placeholder's, labels are those of
  the sheet and tell choices apart, a restart changes no question, a verdict leaves an
  answer;
* *accounts*: revocation is final, an admin remains;
* *import*: the report adds up, embeddings belong to their questions.

## 2. The modules

* `JobLifecycle` is the abstract promise of the queue: a job is submitted, started
  at most `MaxTries` times, and ends done or failed for good. Those in
  `Withdrawable` may also be withdrawn, once and for good: jobs that are deleted with
  their user's sessions. In `JobQueue` and `Pipeline` there are none.
* `QuestionLife` is what the store promises to the readers of a question: it is
  extracted, and its version is owed at most one verdict, or entered by an expert, and
  owed none; experts review it, remove it, and a later version may come. Its
  consequence `DecidedStays`: what an expert has had the last word on stays so.
* `JobQueue` is the queue with its workers, reapers and the process. A claim is an
  open transaction (`ClaimUpdate`, then `ClaimCommit`, `ClaimRollback` or
  `ClaimCommitLost`), a reaper's pass is two statements (`ReaperFail`,
  `ReaperReclaim`). Time is the flag `stale[j]`, set by `OutliveThreshold`; the
  auxiliary `late[w]` remembers that the run of worker *w* outlived the threshold,
  which the program itself does not know. `JobQueue` implements `JobLifecycle`
  (`ImplementsLifecycle`, refinement `phase <- status, tries <- attempts`).
* `QuestionStore` is the tables questions, session_questions and the byte columns
  of images, with one operator per SQL statement: no actors.
* `Pipeline` extends it with the runs. The queue appears at the grain of
  `JobLifecycle` (which `JobQueue` was shown to implement, and `Pipeline` is
  shown to implement again): claim and reap are one step, and `Vanish` ends a
  run without a verdict, standing for crash, shutdown and lost Fail.
* `Moderation` extends `Pipeline` with the experts' requests: the PUT transaction
  with its row locks and its image cleanup, POST, DELETE, and the rows an import
  upserts. PostgreSQL's row locks and deadlock detection are the external part. Next to
  `JobLifecycle` it implements `QuestionLife` (`ImplementsQuestionLife`): a version is
  a row's id, the author is `by`, and a verdict is owed while the run that inserted
  the row still has it in `newQs`.
* `Sessions` is sessions, uploads and lists of images against the clock, the
  deletion of users and a job's run. A request passes SessionWindow (`Admits`)
  in one step and stores its image and its job in two later ones, of which each may
  fail or lose its answer; a list reads images and job statuses in two queries:
  when the first fails the answer is an error (`ListReadFails`), when the second does
  it is a list with every image unknown (`ListDegrades`, next to `ListAnswers`). The
  clock counts half seconds, because `expires_at` is cut to whole ones before it is
  compared. It implements `JobLifecycle` with every job withdrawable
  (`ImplementsLifecycle`): the cascade of a deletion is the withdrawal.
* `ExtractionRetry` is extractWithRetries with its back-off: a `time.Duration` is
  the set of the positions of its one bits, so that a shift loses bits where the
  program's does.
* `QuestionContent` extends it with what one row of questions says (choices,
  answers, labeling, type) under everybody who writes it: a run that reads one
  sheet, PUT, POST, DELETE, imports, and the migrations that every start applies
  anew (`Boot`). A run that finds nothing stores a placeholder (`StorePlaceholder`),
  if the table takes the labeling it leaves empty; what that is, is the parameter
  `PlaceholderLabeling`.
* `Importer` is several bulk imports next to each other. A file is the hashes of
  the rows that become questions, in order, and the number of the rows that
  normalizeRow or buildQuestion refuses.
* `UserAdmin` is accounts, tokens and the admins' requests.
* `JobQueueProofs`, `PipelineProofs`, `ModerationProofs`, `SessionsProofs`,
  `QuestionContentProofs`, `ImporterProofs` and `UserAdminProofs` hold the theorems
  about the module in their name; `ModerationProofs` builds on `PipelineProofs` as
  `Moderation` does on `Pipeline`. `RecursionLemmas` is what they need of induction.
* `MC*` modules and their cfgs instantiate them for TLC.

Data is abstracted to what decisions depend on: a question is its hash, two
similar questions are a pair in `Similar`, the answers column is *who wrote it
last* (`by`), bytes are there or not. Where the answers themselves matter, in
`QuestionContent`, texts are model values and a label is its kind and the numbers
of its characters.

## 3. The runs

| run | instance | shows |
|---|---|---|
| `queue` | 1 job, 2 workers, 3 attempts, 2 restarts, 2 faults, fairness | `OneRunPerAttempt`, `PunctualRunOwnsJob`, `ImplementsLifecycle`, `EveryJobSettles` |
| `pipeline_safety` | 2 images showing 2 similar questions, 2 workers, 2 attempts, late runs, 1 fault | `LinkedBeforeComplete`, `VerdictsDontCollide`, `ImplementsLifecycle` |
| `pipeline_liveness` | the same without late runs, fairness | `UploadIsDecided`, `FoundIsShown` |
| `pipeline_unanswered` | 1 attempt, no faults, no late runs | violated: an image with nothing on it shows the placeholder |
| `sessions` | 2 users, 2 sessions, 1 upload, 1 list, 3 seconds, sessions created in the first of them, 1 fault, fairness of the job | `NothingDangles`, `OpenForDuration`, `UnknownIsUnaccepted`, `ImplementsLifecycle`, `AcceptedIsDecided` |
| `content` | 3 texts, an alphabet of 2 letters, 56 attempts in int64, 2 inserts, 2 boots | `BackoffIsCapped`, `TypeFollowsChoices`, `MarkedIdsSurvive`, `LabelsTellApart`, `BootKeepsContent`, `VerdictsKeepAnswers` |
| `moderation` | 1 image, 2 workers (one may be late), 1 expert, import | `ManualAnswersStay`, `CleanedStaysClean`, `ReopeningKeepsBytes`, `ImplementsQuestionLife`, `DecidedStaysDecided` |
| `moderation_experts` | 2 experts on 2 images that share 2 questions, fairness | `NoUpdateIsStuck`, `EveryUpdateEnds`, deadlocks included |
| `moderation_verified` | as `moderation` | violated: verified is terminal |
| `import` | 2 imports, files of up to 3 rows, chunks of 2, 1 fault | `ReportAddsUp`, `CreatedOnce`, `VectorFollowsText`, `VectorsStay` |
| `users` | 2 accounts, 2 requests, versions up to 2 | `TokenInv`, `InvalidForGood` |
| `users_lastadmin` | 2 admins | violated: an admin remains |

Each passing run with safety properties checks its module's type invariant too.
Every property of a passing run has a mutant in `PROJECT.json`: a plausible bug in
one mapped definition (no `SKIP LOCKED`, a `WHERE` without its status, a read
without `FOR UPDATE`, a link forgotten, a migration without its condition) under
which TLC finds the property violated. The operators named *Mutant of ...* in the
modules are these.

**Bounds and why they are enough.** Two workers or requests are enough for every
race here: each conflict is between a reader and one writer, or two writers of a
row, and there is a late run as soon as two workers can hold one job. `queue` has
one job, because jobs meet nowhere but in a worker's choice between them, and two
of them with liveness are too many states for a short run; that claims of
different jobs do not disturb each other is part of what `JobQueueProofs` proves
for any number. Three attempts give a job a first, a middle and a last one; two, a
first and a last one, and the reaper both of its branches. Two images let jobs
share a question; two questions on an image let one be resolved before the other;
two similar texts let the semantic search hit something else than the exact one.
One fault of every kind at every moment covers single failures, and two in `queue`
the failure of what follows a failure. `MaxRestarts`, `MaxFaults`, `MaxDeletes`,
`MaxVersion`, `MaxInserts`, `MaxBoots`, `MaxClock` and `LastStart` bound what would count for
ever and stand in the guards.

In `sessions`, a duration of 1 and buffers of 1 and 3 against an int that ends at 3
give a sum that fits and one that overflows; a session is created in either half of the
first second (`LastStart`), and six half seconds outlast it with its buffer. The one
fault may hit any statement of an upload or of the list, and the job.
`PlaceholderLabeling` is the empty string in `content`, as in pipeline.go:307-315; the
theorems are about every value, so that repairing the first finding of section 4
would break none of them. In `content`, two letters make the
third choice the first label of two letters, as the 27th is with 26; the lists
hold equal choices, choices in different orders and answers that are no choices; 56
attempts are the 55 sleeps before the back-off reaches zero (section 4), and pass
the one at which its sign changes. An import of three rows in chunks of two has a
full chunk, a partial one, and duplicates. `moderation_experts` starts from a
reachable state (two images read, nothing reviewed), because the experts' interplay
alone is its question.

Three runs do not check deadlock, because their systems may really stop:
`users` (every account may be deleted, after which nobody can act), `sessions` (the
clock ends at its bound, nobody need upload) and `content` (a run ends, and rows
and boots are bounded).

**Fairness.** `EveryJobSettles` assumes that a worker goroutine's statements and
AI calls return (each client has a time limit), that idle workers poll (5 s), the
ticker ticks, the clock advances, and the supervisor starts the process again
(`restart: unless-stopped` in docker-compose). Faults, panics, crashes, uploads and
shutdowns are never assumed. `UploadIsDecided` and `FoundIsShown` assume the same of
the coarser actions: a run's step, a claim by an idle worker, the reaper.
`AcceptedIsDecided` assumes it of each image's job as a whole (`JobStep`), and
nothing of clients or the clock. `EveryUpdateEnds` assumes that a statement of an
open transaction returns once it need not wait (weak fairness) and that a row lock
is granted in turn to those who wait for it, as PostgreSQL does (strong fairness of
`CleanImage`): with weak fairness alone TLC shows an expert starving behind others
who take and drop the lock. The client's going away (`Abandon`) is not assumed.

## 4. What the checks found

* **The placeholder is never stored** (README.md:360 promises it, run
  `pipeline_unanswered`): handleExtractionFailure builds a question without a
  labeling, and the CHECK of 0002_core.sql:35 refuses it; the error is logged and
  the job is done with nothing to see. `TypeFollowsChoices` does not rest on this
  refusal: a placeholder that is stored is `multiple_choice` without choices, which
  0005_add_question_type.sql:8-10 leaves as it is, and the property says so.
* **A verdict overwrites an expert** (README.md:359, run `moderation_verified`):
  UpdateFromVerification goes by id alone. `DecidedStaysDecided` says how far the
  promise goes: once no verdict for the row is on its way, only experts change it.
* **Two admins demote each other** (the admin design document, line 343, run
  `users_lastadmin`): they lock different rows, so neither sees the other's change.

Met while reading, without a run of their own:

* **Shutdown abandons jobs** (README.md:839 says it waits): Stop cancels the
  context first; a run in flight ends with neither Complete nor Fail, and the job
  waits for the reaper with one attempt less.
* **A lost race fails a job** (pipeline.go:101 says only infrastructure errors do):
  two runs miss the same question, both insert, the unique index refuses one, and
  its job fails for good.
* **The back-off ends at zero** (pipeline.go:36 says 8 s for ever): from attempt 56
  on the shift leaves the int64 and the retries follow each other at once
  (`BackoffEndsAtZero`). For the sleeps before it the comment is true, though the
  product has overflown by then (`BackoffOfPipeline`, and the run `content`).
* **A canceled import does not add up** (report.go:13).

What holds may surprise as much: the zombie runs of `JobQueue` never break the
life cycle; the only way a run decides an attempt that is not its own is to have
outlived the threshold; a verdict never reaches a row that an expert created, even
when its text was extracted and deleted before; the version counter alone tells
stale tokens, also across overlapping updates; an upload that was accepted keeps
its job although its session expired or was closed while the body was read; and
the backfill of 0005, which every start repeats, never changes a question.

## 5. What is proved

With TLAPS, for every number of jobs, workers, images, texts, sessions, imports,
accounts and requests and every bound: every safety and action property of the runs
that pass, and every refinement. Each module has one inductive invariant.

* `JobQueueProofs`: `TypeCorrect`; `InvCorrect` (`QueueInv`); from it
  `AttemptsAreBounded`, `AttemptsRunOnce`, `PunctualRunsOwnTheirJobs`; and
  `QueueImplementsLifecycle`. The three properties are not inductive: that a claim
  hands out an attempt once needs to know that an open claim's row is still pending
  and its attempts unchanged (`ClaimHoldsPendingRow`) and that claims lock
  different rows (`ClaimsAreExclusive`); that the reaper cannot take the job of a
  punctual run needs `OverdueRunIsLate`; that a pending job has an attempt left
  needs the same of absent ones. `QueueInv` adds these, and the refinement is a
  case per action under it, one job at a time.
* `PipelineProofs`: `PipelineInvCorrect`, `PipelineTypesCorrect`,
  `EverythingIsLinked`, `VerdictsNeverCollide` and `PipelineImplementsLifecycle`.
  `RunInv` says where each run's loop stands (`InPlace`), that the ids in `newQs`
  were created by that run and by no other (`CreatedOnce`: ids are never reused),
  and that pending jobs have a try left; `PipelineInv` adds what a run has linked so
  far (`Linked`). The two are apart because a deletion undoes links but nothing of
  `RunInv`.
* `ModerationProofs`: `ReviewInvCorrect`, `ReviewTypesCorrect`,
  `ManualAnswersAlwaysStay`, `ReopeningAlwaysKeepsBytes`, `CleanedImagesStayClean`
  and `ReviewImplementsLifecycle`. `ReviewInv` is `RunInv` with what a request knows
  while its transaction is open (`RequestInv`), that no run holds a verdict for a row
  entered by hand (`ManualInv`), and that before an image's first run is over its
  bytes are untouched (`FirstRunInv`).
  `ReviewImplementsQuestionLife` needs of it that ids are never reused and that a
  row's verdict is held by one run: a retried run that finds the row of the attempt
  before it owes it nothing, a late run that does owe it gives its verdict once.
  `DecidedAlwaysStaysDecided` follows from the abstract step alone.
  `NoUpdateIsEverStuck` is the safety half of `EveryUpdateEnds`: of any set of PUTs
  that wait, one can go on or sits in a circle, which PostgreSQL breaks. It needs
  that among finitely many transactions, each waiting for one of them, there is a
  circle (`WaitersInCircle`, by a minimal set closed under waiting).
  `OneIsWaitedFor` says why circles are all: by `LockInv` (no two transactions have
  cleaned the same image, and none wants what it has cleaned) a waiting PUT waits for
  exactly one other.
* `SessionsProofs`: `SessionsInvCorrect`, `SessionTypesCorrect`,
  `NothingEverDangles`, `AcceptedUploadsHaveJobs`, `UnknownMeansUnaccepted`,
  `SessionsOpenForDuration` and `SessionsImplementLifecycle`. Tries stay within their
  bound, and an upload that was not queued has no job, by `JobInv`; a session cannot
  be created again under an upload that outlives it by `HomesExist`; what a list has
  read belongs to its session by `ListHomes`, hence the images it names unknown after
  both queries succeeded have no job (`RespondsFacts`, `AcceptedIsNamed`); and the
  duration needs what a row's expiry is (`ExpiryInv`). The refinement is a case for each way a step may move one
  job (`JobMoves`); that a withdrawn job never comes back needs that an upload stays
  in the session it was sent to, and that session gone (`GoneFacts`).
* `QuestionContentProofs`: `ContentInvCorrect`, `ContentTypesCorrect`,
  `TypesFollowChoices`, `BootsKeepContent`, `MarkedIdsAlwaysSurvive` and
  `VerdictsKeepSomeAnswers`, for every `PlaceholderLabeling`. `IdsInv` says that ids only grow, `LabelingInv`
  that a row the run created has the sheet's labeling whoever wrote it since,
  `MarkedInv` that until the verdict its answers are the marked ones or somebody else
  has written it. `LabelsAlwaysTellApart` is about the numbers of columns (`Column`,
  defined by recursion): the letters of a label determine its number, for every
  alphabet and every number of choices. `BackoffStaysAtCap` is about every width of
  the word, base and cap, under the condition that decides it: at each attempt that
  may sleep, some bit of the shifted base lies between the cap and the end of the
  word. `BackoffOfPipeline` shows that the condition holds of the numbers of
  pipeline.go up to the 55th sleep, `BackoffEndsAtZero` that it fails after it.
* `ImporterProofs`: `ImportInvCorrect`, `ImportTypesCorrect`, `ReportsAddUp`,
  `VectorsFollowTexts`, `VectorsAlwaysStay` and `CreatedExactlyOnce`. `Accounted`
  counts at every point of the loop, `OwnVectors` says that a row never holds another
  row's embedding, and `CreatedInv` that the sum of all reports is the number of the
  rows that are stored: one upsert adds one to one summand exactly when its hash is
  new.
* `UserAdminProofs`: `AccountsTypeCorrect`; `TokenInvCorrect`, whose halves need
  each other: a locked row is as its transaction has read it, hence versions only
  grow and a token with the row's version carries the row's claims;
  `RevocationIsFinal`, an action property of that invariant; and
  `OneAtATimeAnAdminRemains`: for a single request slot the guards keep an active
  admin, so what `users_lastadmin` finds is due to concurrency alone.

`RecursionLemmas` has what these proofs need of induction. The induction theorems of
the library take a predicate as an operator, which the provers at hand cannot
instantiate; `WFMin`, that a well-founded relation has a minimal element in every
non-empty set, takes a set. So an induction is written as the absence of a least
counterexample: that a set of numbers has a least member (`LeastNatural`) and a
non-empty family of finite sets a minimal one (`MinimalSubset`), that a function
defined by recursion along a falling rank exists, and how a sum over a finite set
changes with one summand.

Assumptions are the named ASSUMEs of the modules, which TLC evaluates in the runs:
disjoint sets of ids, positive numbers of attempts, and a finite set of jobs, users,
imports or experts where something is counted or followed along a chain. The code
justifies them: a database holds finitely many rows, a process serves finitely many
requests.

Only model-checked: what is under fairness (`EveryJobSettles`, `UploadIsDecided`,
`FoundIsShown`, `AcceptedIsDecided`, `EveryUpdateEnds`), since liveness and ENABLED
are out of the prover's reach. No module uses a RECURSIVE operator.

## 6. Not modelled

* Lists and views that only read and decide nothing.
* Tags, numbers, explanations, confidences, verification reports and extraction
  errors, which no code reads back to decide anything.
* E-mail addresses and passwords.
* The parsing of CSV, XLSX, images and of the AI services' JSON; the services
  themselves, whose answers are choices.
* The normal form and the hash of a text: a text is its own normal form.
* Cyrillic labels, and labels on a sheet that are neither its letters nor its
  numbers. `MarkedIdsSurvive` is about answers that are choices, as
  skills/extract-questions-from-image/SKILL.md:62 asks of the model.
* In `QuestionContent`, the failing of statements (`Pipeline` has it) and the steps
  within a PUT (`Moderation` has them).
* The jitter of the back-off; NOTIFY, whose loss is covered by polling.
* Configuration, logging, routing and the HTTP listener. That its failure leaves a
  process without workers that waits for a signal is listed as a hazard without a
  property: fairness of `Restart` supposes that the process ends. So are two that the
  code decides and no state shows: a request that commits after its caller lost the
  right to make it, and the status of POST's answer when it loses the race for a hash.

## 7. Plan

Done: the queue, the pipeline, moderation, sessions, content, import and accounts,
each with its proofs; the life cycle of a job, which queue, pipeline, moderation and
sessions implement; the life of a question, which moderation implements; and the
facts that needed induction over data.

Left:

1. Safety halves of the liveness properties of queue, pipeline and sessions, as
   `NoUpdateIsStuck` is of `EveryUpdateEnds`: that whenever a job is not settled, some
   action that moves it on is enabled or a bound is exhausted, proved as an invariant
   with the guards written out.
2. The converses of the findings: under which further guard `AnAdminRemains` would
   hold for any number of requests (both admins' rows locked), and
   `VerifiedAnswersAreExperts` (an update that names the status).
3. The unique index of tags, on which two PUTs with new tags may deadlock, and the
   panic of a worker outside of Run, after which its goroutine is gone.
4. Cyrillic labelings and the normal form of texts, as far as the hash depends on
   them.
