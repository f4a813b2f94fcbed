# A TLA+ model of the OCR service

TLA+ modules, TLC runs and machine-checked proofs about the OCR service of this
repository: a TypeScript service that routes an uploaded document to an
extraction provider, interprets what the provider recognised and answers with a
typed result, on the request or through a job queue.

## The system

A **web process** (`src/index.ts`, `src/main.ts`) serves the OCR routes, the
admin API and the console; a **worker process** (`src/worker.ts`) runs queued
jobs. Both run the same `runPipeline`. They share **Redis** (extraction cache,
rate-limit counters, admin sessions, the BullMQ queue) and **Postgres** (tenants,
admins, per-tenant usage). Any number of either process may run.

| Component | State it keeps | Operations | Interacts through | What is hard |
|---|---|---|---|---|
| Pipeline (`pipeline.ts`, `cache.ts`) | one run's document; the extraction cache in Redis; metrics; usage rows | `runPipeline`: parse, ingest, route, look up, recognise with fallbacks, store, interpret, count | calls router, providers, functions; shares the cache with every other run | runs interleave at every await; the cache mixes functions with different needs and sensitivity; any stage may fail |
| Routing (`providers/router.ts`, `config/providers.ts`) | none | `routeProvider`, `policyForFunction` | called by the pipeline | preference list and registry overlap; capability filter |
| Job queue (`jobs/*.ts`, `worker.ts`) | a job's hash, state and lock in Redis | `enqueue`, `processJob`, `getStatus`, `shutdown` | BullMQ between web and workers | crash, stall and redelivery; late answers, refused; a status read in two steps; drain |
| Tenant registry (`auth/tenants.ts`, `middleware/auth.ts`) | rows in Postgres, a positive cache per process | `resolveTenant`, `putTenant`, `updateTenantByHash`, `revokeByHash` | every request; the admin API; the CLI | a lookup overlapping a change; other processes' caches; failed queries; time |
| Admin accounts and sessions (`auth/admins.ts`, `auth/admin-session.ts`, `http/admin/routes.ts`) | rows in Postgres, sessions in Redis | login, logout, create, update, delete, bootstrap | admin API, CLI, boot | check-then-act on the last owner; two boots; sessions of changed accounts |
| HTTP gateway (`http/routes.ts`, `http/middleware/*`) | rate-limit windows in Redis | the middleware chain, the async gate | composes auth, limiter, pipeline, queue | fail-open and fail-closed parts; nothing sensitive queued |
| GLM-OCR (`providers/glm/*`) | calls in flight | page split, calls with retries, merge | pipeline; remote API | bounded concurrency, retry limits, a failing page, order |
| Ingest (`ingest/*.ts`) | none | `sniff`: the format of the bytes | called by the pipeline | a text sampled at a byte boundary |
| Document functions, tamper detection, local providers | none | pure algorithms over a recognised document or over the bytes | called by the pipeline | numeric and boundary cases |

What makes each correct: *pipeline* - the document used is of the right bytes
and from a capable provider, nothing sensitive is shared, every run is answered
and counted once; *routing* - the chain is exactly the capable providers in the
preferred order; *queue* - a job ends once, as its last delivery did, and every
job ends; *tenants* - a stale row admits nobody for longer than the TTL allows;
*admins* - an owner is left, and who acts as one was one after asking;
*gateway* - limits hold while the stores are up; *GLM-OCR* - bounded calls,
ordered pages; *functions* - what they claim of a signature, an amount, a date,
a form or an edit is so of the document.

The list `hazards` of `PROJECT.json` names, at its line, what in this code is
hard to test, and the property that catches it.

## The modules

| Module | Models | Role |
|---|---|---|
| `Catalog` | the declarations of the eight functions, the five providers, the registry and the default policy | tables, given to the constants of the others |
| `Routing` | `providerSatisfies`, `policyForFunction`, `preferenceOrder`; the order of a chain stated by rank | operators |
| `Router` | the loop of `routeProvider`, one offered name at a time | shown to build the chain `Routing` states |
| `OcrService` | what the pipeline promises: one answer per run, by a capable provider or with a code | abstract specification |
| `Extraction` | concurrent `runPipeline`s over the Redis cache, metrics and usage | implements `OcrService` |
| `Spending` | the runs of `Extraction` with the tokens the models they call consume | EXTENDS `Extraction` |
| `JobContract` | what the queue promises: a job ends once, and how it ended is not changed | abstract specification |
| `JobQueue` | queue, workers, status requests | implements `JobContract` |
| `TenantRegistry` | tenant rows, per-process caches, lookups, changes, the clock | |
| `AdminRegistry` | accounts, sessions, the account requests, the bootstrap of each process, the provisioning command | |
| `Gateway` | a web process from a request's arrival to its answer, the limiter's windows, and its drain | |
| `GlmMapper` | `mapper.ts`: the merge of the responses | operators |
| `GlmOcr` | one recognition: split, slots, calls with retries, answer | EXTENDS `GlmMapper` |
| `Signing`, `ReadingOrder`, `ReceiptTotals` | the algorithms of three functions | operators |
| `IdVerification` | the search for the machine-readable zone, the merge of its fields, dates and checks | operators |
| `FormExtraction` | the bounds and the choice of the arguments, the validation of the answer | operators |
| `Tamper` | the signals of a PDF and of an image, the score, the verdict | operators |
| `DocumentFunctions` | seven functions: three on what `GlmOcr` recognised, three on a text, one on bytes | EXTENDS `GlmOcr` and the six |
| `Ingest` | `sniff` and the check of the format, before `Router` | EXTENDS `Router` and `Catalog` |
| `Lists` | JavaScript's `filter` and `sort` of a list | operators, external |
| `MC*` | values of the constants for TLC | |
| `RouterProofs`, `ExtractionProofs`, `JobQueueProofs`, `TenantProofs`, `AdminProofs`, `GatewayProofs`, `DocumentProofs` | the theorems | |
| `FoldProofs` | no code: the lemmas on sums, loops and lists that three of them cite | |

### From code to actions

**Extraction.** A run is at a `pc`; it takes one step for each stretch of code
between two awaits. `Start` is the call; `Reject` the throws of `parseArgs`,
`ingest`, the format check and `routeProvider`; `SkipExtraction` and `Route` the
two ways into extraction; `CacheHit` and `CacheMiss` the lookup under the
*primary's* key; `Recognize` and `ProviderFails` one turn of the loop of
`recognizeWithFallback`; `Store` the write under the key of the provider that
*answered*; `Interpret` the function and its validation. The page limit is
checked after extraction, on a cached document too (`AfterExtract`), and the
catch block counts the document that the run held (`Fail`). `Expire` removes an
entry at any time. A document is reduced to its provider, the hash of its bytes,
its page count, `fellBackFrom`, whether it cost tokens, and (history) the
function whose run recognised it. The router is not run again inside it:
`Extraction` uses the order that `Router` is shown to produce.

**Spending.** The same steps, each with the tokens it really consumes: a
recognition those its document reports, one that fails on a page those of the
pages answered before (`ProviderFailsSpends`: none or some), a completion its own,
whether the service can use it or not (`InterpretSpends`), and everything else
nothing. `spent` is history; what the service counts is `metrics.tokens` of
`Extraction`.

**Ingest.** A file is the type `file-type` finds in it, which is external, and its
text as runs of equal characters, each of a kind and of a width in bytes:
`isProbablyText` looks at the first 4096 bytes, and `Cuts` says that they end
inside a character, which a strict decoder refuses. `IngestInit` is a file of a
format the function accepts; then `Router` routes it.

**JobQueue.** BullMQ is external and modelled from its use: `Take` delivers a
waiting job under a lock (a token), `LockExpires` is a lock that was not renewed
in time, of a worker that is gone or whose event loop is too busy, `Stall` is the
later check that finds an active job without a lock and delivers it again or gives
it up, and `Report` stores an outcome only for the holder of the lock. Between the
expiry and the check a run that ends is refused: its job stays active, run by
nobody, until a check. `processJob` is one step with any outcome: `Extraction` has
its inside. `outcome` keeps what each delivery's run came to, so that what a
redelivered job counts can be told. `getJob` and `getState` are the two awaits of `getStatus`, with the
tenant check of the route on the answer. `shutdown` and `exit` are the worker's
drain, `Crash` and `Restart` the loss of a process.

**TenantRegistry.** A row is the sequence of its versions, so a stale row can
be told from the current one. A lookup sends its query (`CacheMiss`), Postgres
reads the row (`Select`), the reply is cached and answered (`getTenantByHash`),
or the query fails (`Unavailable`). A change is sent (`Begin`), committed
(`Commit`) and answered (`Finish`), or fails before or after its commit
(`Abort`); a revocation evicts the entry of its process at `Begin`, an update or
a creation at `Finish`, and one that found no row evicts nothing. `Tick` is the
clock. A process of `Clis` is the provisioning script, which only creates and
revokes (`Offered`) and serves no request.

**AdminRegistry.** A request is at a step between two of its handler's awaits:
`Send` is its arrival with a session cookie, `resolveSession` the read of the
session and then of the account it names, with the role of the *account*, not of
the session; `getAdminById`, `Guard` and `updateAdmin` or `deleteAdmin` are the
read of the target, the count of the owners and the statement of `PATCH` and
`DELETE`; `LookUpEmail` and `createAdmin` the two queries of a creation;
`getAdminByEmail` and `createSession` those of a login. `Fail` is a query that
fails. A booting process has the three queries of `ensureBootstrapAdmin`, and
`CliCreate` and `CliDelete` are `provision-admin`, which has no guard. An id is
random and so never used again. `held` and `stale` are history: the roles the
account had since the request was sent, and whether rows changed under its
guard.

**Gateway.** `auth` is the middleware up to the limiter's first await, `incr` and
`expire` the two Redis commands of `underLimit` (`EXPIRE` of a key that is
gone does nothing, `WithTTL`), `LimiterFails` either of them
failing (before or after it took effect), `upload` the multipart body and the
handler up to its next await, which chooses between `enqueue` and `runPipeline`.
`enqueue` is Redis adding the job, `sendAccepted` the handler going on with the
reply, `ReplyLost` the connection going between the two; the process may exit
there too. The queue has a connection of its own that *waits* for Redis
(`jobs/queue.ts:38-42`), for a status request (`getStatus`) as for an enqueue, while
the limiter's commands fail at once (`redis.ts:10-12`). `shutdown`, `Drained`, `closeStores` and `Forced` are the
signal handler, `server.close`, the closing of the stores and the timer.

**GlmOcr and DocumentFunctions.** `splitPdfToPageImages` makes every page's
image before the first call. `mapWithConcurrency` starts the next page when a
slot of `p-limit` is free; in its slot a call is at the API (`sent`), waits
(`backoff`) or reads a body (`reading`), and `TransientFailure`, `backedOff`,
`Refused`, `ok`, `json` and `BodyLost` are the turns of the loop of
`layoutParsing`. `Settle` is what `Promise.all` does with a settled call: the
first failure answers, and the others run on. A recognised document is the
operator `mapLayoutParsing` of the bodies; boxes are in hundredths of the page
and a text is the page it was read from with a word that tells it from others.
`Execute` gives the document to one function: `executeSigning` judges one slot
per step, because it awaits the vision model for each; the others compute in one
step. `ModelFails` is the throw of `AzureLlmClient.complete`.

The functions that take the text or the bytes alone run on documents of any
provider, so their state does not depend on a recognition. In `IdVerification` a
date is the day it says and the form it is written in, which is what
`parseDateLoose` tells apart: it counts the digits. A line of the text is one
that matches the pattern of a zone's line or not, and is a line of the zone or
not. In `FormExtraction` a schema is the set of the paths of its nodes, which
`measureBounds` walks, and the answers it accepts, which `ajv` decides. In `Tamper`
a PDF is its saves, which append bytes and may sign all that is there, and the
bytes after the last.

## The runs

| Run | Expect | States | What it shows |
|---|---|---|---|
| `routing` | pass | 1,031 | files of every kind and all calls of the catalogue: exact chain, preferred order, what is sniffed as text, and which accepted formats cannot be routed |
| `extraction` | pass | 116,742 | two runs, five functions, three documents, faulty Redis: all pipeline properties, the token counter as the documents report, and the refinement of `OcrService` with its liveness |
| `tokens` | violation | | the token counter is not what was consumed |
| `jobs` | pass | 202,696 | one job, two workers, two crashes, a status request: a job ends, once and as its last delivery did, is counted once more than it stalled at most, an orphan is left by a crash or by its own late report, drains end, and what a status request says of an end is true and of its own tenant |
| `polled_failure` | violation | | the typed code may be lost in the torn read |
| `tenants` | pass | 3,315,132 | freshness of admissions; a process sees its own change unless a lookup overlapped it |
| `seen_at_once` | violation | | an overlapping lookup hides a change from the process that made it |
| `admins` | pass | 1,254,430 | owners' requests were sent by owners, an email names one account, no console request removes the last owner unless rows changed under its guard |
| `last_owner` | violation | | two requests remove the last two owners |
| `gateway` | pass | 433,044 | the limit of a window, answers that agree with the jobs and stores left behind, nothing personal queued, the drain ends, only what asks the queue waits for Redis |
| `documents` | pass | 42,045 | merge order, retries, slots, and what six functions claim of their document |
| `expired` | violation | | a date written out with six digits is read as another day |

**Bounds, and why they suffice.** Two runs: every hazard of the cache is between
a run that stores and a run that looks up. The five functions are all kinds
there are: an override of the policy (TEXT_EXTRACTION), a text-only requirement,
one that only GLM-OCR satisfies (RECEIPT_PARSING), a sensitive one, one that
skips extraction; the 6-page document is over the limit of one of them, the
9-page docx is reported as one page. Two workers of one slot and a job that
is delivered twice give a lost lock with the job on the other worker, both slots
held by its two deliveries, and a redelivery that has to wait for one; the second
stall gives the job up. `MaxSignals` is 1, so that a crash happens during a drain,
and `MaxCrashes` 2, so that each delivery may be lost to one. A status request
changes only its own step, so one suffices, of the job's tenant or of another. Jobs meet only in the slots, and what the run checks but for
liveness is proved for any number of them (`JobQueueProofs`). `MaxStalledCount`
is BullMQ's default. `Concurrency` is 1 instead of 4 so that a
slot that is never freed would block the worker. One tenant key, two processes,
two requests on the process without and with the operator: keys are
independent, and the entries of two processes interact only through the row.
A process of the
provisioning script makes changes that no server sees. TTL 2 and Latency 1 in a time of 3 let an entry be filled late, used to its last
moment, and checked after. `MaxChanges` 2 is a creation and one more change.
`Executions`, versions and counters are bounded by these constants alone.

`admins`: two logins, one of them the bootstrap one and with two ids, so that an
account is deleted and made again; two requests race, with each other, with two
boots and with the command. The roles are `viewer` and `owner`: `manager` differs
from them only in the tenant routes. Requests and processes are
interchangeable (symmetry); the properties are an invariant or an action
property, for which symmetry is sound.

`gateway`: two requests and a limit of one per window make the second request
the one over the limit; of the three ticks two are of one window, so a count
may come late, and its key expire. One outage separates what fails from what
waits, and a second would only repeat it. The six kinds of call are: no key, a
function the key may not call, a large personal document, a large standard one,
an unknown function, a job's status.

`documents`: three pages over two slots, so a page waits and two run; one retry,
so an attempt is both left and not. A page's body has a cue with its mark, or
two columns with a label that the service does not know, or nothing, or tells of
two pages. Coordinates are chosen to have one mark near two cues, one far from
all, and one cue with none. The receipts are on both sides of both tolerances.
The texts of identity documents have a zone of two or three lines alone, above or
below a line that looks like one, or broken; the dates are the day itself, the
next, a 29 February, one on each side of the pivot, and in words with six digits
and with five. The arguments of a form are each well formed, missing or one over a
bound (51 fields, 51 nodes, 20,001 bytes, depth 4). The PDFs have up to three saves,
any of them signed, and 0, 5 or 6 bytes after the last; the images every set of
marks.

`routing`: the texts put a character of one, two or three bytes before, on and
across byte 4096, and control characters on both sides of a tenth of the sample.

Deadlock is not checked: finished runs, answered polls, answered requests and
the bound of the clock stop the system.

**Fairness.** `Extraction`: weak fairness of each run, because every await of a
run settles (Redis commands fail fast, `redis.ts:10-12`; providers and the LLM
return or throw). Starting a run and expiry are not fair. `JobQueue`: a process
that is down is restarted by its platform, a drained worker exits, a settled
run is reported, a waiting job is taken by some worker, the lock of a job
that nobody runs expires, and BullMQ's periodic check finds an active job without
a lock; the expiry of a live worker's lock, a crash and a signal are not fair. `Gateway`: some await of a request settles (not a given one:
a request may starve only behind others, of which there are finitely many), and
the timer of the drain fires; nothing is assumed of Redis coming back.
`DocumentFunctions`: each call moves on, because an attempt and the body it reads
are under `AbortSignal.timeout` (`client.ts:74-75`) and a backoff is at most
`BACKOFF_MAX_MS`; and `p-limit` starts a page when a slot is free. The functions
themselves are not fair. `TenantRegistry`, `AdminRegistry` and `Router` have
safety properties only.

## The proofs

Each is for every value of the constants that the module's `ASSUME` allows. Every
invariant that a run checks is a theorem.

- **`RouterProofs`.** `IInv` says that `ordered` holds exactly the capable
  providers among the names offered so far, each once and in the order of its
  first offer. `TypeOK` alone is not enough: that nothing is missing at the end
  needs the invariant about the prefix. It gives `RouterIsSoundAndComplete` and
  `RouterFollowsPreference`. `AcceptedIsServed` has the hypothesis that the
  catalogue is the service's own (`OcrFunction`, `OcrProvider`), and lets the
  policy and the files be any: the chain is exactly the capable providers, and
  of each format that a function accepts `SomeoneServes` names one among those
  registered. Its half about texts is arithmetic over any number of runs: the
  control characters in the sample are no more than those of the text
  (`SumAtMost`), so that a text under the bound is found to be one.
- **`ExtractionProofs`.** `TypeCorrect` proves the type invariant together with
  `Called` (a run past its start has a request). `AlwaysServedByCapable` rests on
  `IInv`: every *entry of the cache* is of the bytes and the provider of its
  key, and of a standard function; a cache hit can then be traced to the key it
  was read under, whose provider is the reader's own primary. Without the clause
  on the cache the property is not inductive. `AlwaysOutOfCache` uses the same.
  `FallbackIsTold` strengthens it to `FInv`: the loop has tried exactly the
  providers before the next one, a failure is final only after the last, and
  every entry of the cache has a witness, the run that stored it, of which what
  the entry says is true. `AlwaysCounted` is an induction over the step that
  settles a run, with the library's facts on cardinalities, as the counters are
  sizes of sets of runs; it assumes that there are finitely many runs.
  `TokensAreAsReported` adds to `FInv` that the counter is the sum of what the
  documents of the settled runs report, and a tenant's row at most that of its own
  (`CountedTokens`; a usage row may be lost): when a run settles, its document
  enters the sum of all and that of its tenant, and no other. It says what is
  counted, not that it was consumed: `tokens` refutes that.
  `StepsOfTheService` shows, under `SInv`, that every step is one of `OcrService`
  or a stutter: the safety half of the refinement that `extraction` checks.
- **`JobQueueProofs`.** `IInv` ties a job's token to its stalls (one more than its
  stalls while it is active, none more while it waits), says that a running
  delivery's token is never ahead of its job's and that no two executions share
  one, and that what ended a job is no longer run. `EndsAsItsRunDid` and
  `PolledEndsAreTrue` follow from it, `AlwaysCountedOnce` from a
  count of the tokens. `Locks` adds that a lock is of an active job's last delivery, and
  `OrphansAreExplained` rests on `Held`: a job loses its worker in a `Crash`, or in a
  `Report` that is refused, which needs an earlier `LockExpires`, as nothing gives a
  lock back before a check does. `QueueKeepsTheContract` is the whole refinement of
  `JobContract`, which has no liveness.
- **`GatewayProofs`.** `TypeCorrect` and `LeftAsToldAlways` come of one invariant,
  `IInv`: for each request what its step says of the jobs it left and of the
  outages it met (`LeftOK`), that while Redis is away a request whose reply is on its way
  has no more jobs than there were outages (`Losable`: a reply is lost only then, and
  the outage that takes it is counted), and that once the stores are closed no
  request is in flight. A job that no answer told of is thus of an outage or of a
  forced exit between the add and the answer. `NeverOverTheLimit` is the hard one: `WithinLimit` says
  nothing of a request between `INCR` and `EXPIRE`, so `Fits` adds that there is at
  most one such request of a bucket within its time, that it is not yet in what
  passed, and that as long as the bucket's time lasts the counter is at least
  what passed and does not expire before the time does.
- **`TenantProofs`.** `AdmissionsAreFresh` rests on two clauses besides types:
  a row being carried to a process was current at its `readAt`, and an entry
  expires less than TTL + Latency after its version was superseded. `Tick` can
  only break them through the reply's age, which `Latency` bounds. The bound of
  `docs/runbook.md:136-137` (the TTL alone) is thus exact only for a reply that
  takes no time: `db.ts:22-25` sets a connection timeout but none for a query.
  `ChangesAreSeen` needs that no *entry*, and no reply on its way, is older than
  the last change settled in its process (`EntriesSeen`, `LookupsSeen`), and for
  that `ChangesSeen`: while a change runs that no lookup overlapped, none of its
  key is in flight, so nothing can fill the entry between its eviction and the
  answer. Its hypothesis `~OverlappedToo` is the reading of the promise that
  finding 2 leaves true; with overlap TLC refutes it.
- **`AdminProofs`.** `IInv` is about the rows, each session and each request. A
  request past its authentication has its account's present standing in `held`,
  which every statement that changes rows maintains; that gives
  `AlwaysAuthorizedAsCurrent`. A request about to remove an owner, under which no
  row changed, has more than one active owner before it: the count is then still
  true at the statement, which gives `TheLastOwnerIsKept`. The assumption is that
  there are finitely many ids (the owners are counted), which any history of the
  service satisfies.
- **`DocumentProofs`.** The type invariant of the recognition is not inductive:
  that an attempt stays in range needs `BackoffHasRetry` (a call backs off only
  with an attempt left). `PagesStayWithinSlots` counts the pages in a slot with
  the library's facts on cardinalities, and `NothingTransientGivesUp` follows the
  last failure of each call. The rest is about what the algorithms compute, for
  inputs of any length:
  - `MergesInPageOrder` follows the loop of `mapLayoutParsing`: after each response
    the pages are numbered without a gap, the blocks are indexed by their place
    and lie on the pages told so far, in the order of the bodies (`InPlace`), and
    the tokens are the sum (`MergedUpTo`). `OwnPages` says that the body of a call
    is one of its own page.
  - `ExecutedIsSigned` has two parts. `SlotsKeep` is the invariant of the loop of
    `correlateSlots`: each cue met is in a slot, and a slot of an image is of an
    image of the document. `SignInv` is that of the steps: the slots judged are
    the first, in order, and each mark is one its crop could give.
  - `ReadsInColumns`: a page's reading is its usable blocks sorted by `rank`, the
    pages are joined in ascending order, and within a page without a block
    across the gutter that order is columns first (`InColumns`).
  - `ReceiptsAddUp`, `VerdictsAreTheSignatures`, `ChecksAreTrue` and
    `FormsFilledAsAsked` are under `FnInv`, which says that the result of a task is
    what the function gives of some answer of the model. The first is the two
    tolerances over the sum of the items; the second bounds the product of the shares that
    the signals leave: the lesser ones of a file, two at most, do not reach the
    score of a verdict (of an edit before the last signature it claims nothing, which
    is not flagged); the third finds the zone in a text
    whose last lines are the zone, under any lines.
  - `FnTypeCorrect` includes that every block has a label the service knows.

  `FnAssumption` and the assumptions on the bodies say only that what the model and
  the API return is of the shape their schemas check.
- **`FoldProofs`.** What a loop over a list computes is proved in the form of sets:
  an induction shows that the set of those indices, or subsets, which have what is
  to be shown is all of them (`PrefixInduction`, `SubsetInduction`, out of the
  well-foundedness of `<`). A fold is the last value of a table of its turns
  (`FoldTableExists`, `FoldsToAppend`), a sum is additive (`SumAdd`, `SumAtMost`), and
  `filter`, `flatMap`, `map` and `sort` have the elements and the order one expects
  (`OnlyHas`, `FlattenHas`, `MappedConcat`, `SortedSorts`).

Three changes of the model came out of the proofs. The sort of the
reading order was a library operator whose argument is an operator, which no lemma
can be instantiated with; it is now `Sorted`, by the place of each element. The claim `ReadInColumns` had been checked only with boxes that begin above
the foot of the page; a box that begins at the foot itself (`y0 = 1`, against the
comment of `functions/resume-parsing/execute.ts:52`) ranks with the head of the next
column, so the claim now says so. And `CharacterRun` says that a control character is
one byte, as `sniff.ts:79` counts them, without which the bound on the controls does
not follow.

Only model-checked: liveness and everything under fairness (`EveryJobEnds`,
`DrainEnds`, `OnlyTheQueueWaits`, `RecognitionSettles`, and of `ImplementsService` the
fairness, its steps being proved), which the prover does not reach.

## Findings

Each is a run that TLC refutes, with the line of the code and the one it contradicts.

1. `polled_failure`, `jobs/queue.ts:134`: a job that fails between the two reads of
   `getStatus` is answered `failed` with the default code, not its own
   (`docs/runbook.md:108-109`).
2. `seen_at_once`, `auth/tenants.ts:232` (and 217): a lookup in flight during a
   change re-caches the old row, so the process does not see its own change "at
   once" (`tenants.ts:173-174`).
3. `last_owner`, `http/admin/routes.ts:225`: the owners are counted in one query and
   removed in another: two requests that each remove one of the last two owners
   leave none (`routes.ts:222`).
4. `expired`, `functions/id-verification/execute.ts:82`: a date in words with six
   digits ("12 Dec 2030") is read as a YYMMDD whose month is carried over, and a
   document valid for years is reported expired (line 79).
5. `tokens`, `providers/glm/chunker.ts:46`: the tokens of the pages that were
   answered before one failed are not in the counter of the "LLM tokens consumed"
   (`observability/metrics.ts:73`). Nor are those of a completion
   (`llm/azure.ts:131`), and a run that the cache answered adds those of the run
   that stored the document again (`pipeline.ts:145`).

Observed while modelling, without a run of their own. Where a property covers the
case it claims nothing of it, and says so:

- `jobs/queue.ts:136`: a job that completes between the two reads of `getStatus` is
  answered `completed` without a result (`test/jobs.test.ts:119`).
- `auth/tenants.ts:97`: an entry's TTL runs from the reply, not from the read, so a
  revoked key is admitted for longer than the TTL that `docs/runbook.md:136-137`
  gives.
- `jobs/queue.ts:42`: with Redis away an enqueue waits and nothing is answered;
  `docs/runbook.md:83,90-91` expects `PROVIDER_UNAVAILABLE`.
- `functions/form-data-extraction/args.ts:65`: with both the fields and a schema the
  fields win silently; line 64 says "exactly one".
- `authenticity/pdf.ts:73`: an edit made between two signatures is not reported, as
  only the last range is compared with the end of the file
  (`docs/tamper-detection.md:77-79,95`).
- `providers/glm/client.ts:99`: a network error or a timeout while the body of a 200
  is read gives the document up with attempts left; lines 89-90 say that those are
  retried.
- `functions/resume-parsing/index.ts:11`: with GLM-OCR on no provider of docx has the
  layout that the function requires, and the file is refused; `execute.ts:12-13` and
  `docs/architecture.md:77` say that mammoth serves it.
- `ingest/sniff.ts:67`: a UTF-8 text with a character across byte 4096 is refused as a
  binary, although lines 33-35 say that a valid UTF-8 buffer is text.
- A file over the size limit is answered 500 `EXTRACTION_FAILED`: `errorHandler`
  knows no multer error, although `README.md:147` and `docs/runbook.md:86` list
  `FILE_TOO_LARGE` (413).
- An enqueue whose reply is lost with the connection is sent again: two jobs.
- A late report is refused; if its worker then drains, the job is run again and
  counted again by another (`jobs/worker.ts:34-44`).
- `functions/id-verification/execute.ts:85`: a holder born by 1950 is read from a zone
  as born a century later, and never matches an expected ISO date.
- `functions/form-data-extraction/args.ts:12`: a schema that gives a property a type
  is four levels deep and always refused.
- `docs/tamper-detection.md:65-66`: "corroborating `medium` signals push to
  `likely-doctored`" cannot happen: no score makes that verdict, and there is only
  one medium signal (`authenticity/signals.ts:25-29`).
- `public/admin/app.js:259` tells the operator that a revoked key "stops working
  immediately"; other processes admit it for the TTL of their entry.
- `functions/text-extraction/execute.ts:25`: a range of pages with no markdown
  answers with the whole document's.
- `functions/resume-parsing/execute.ts:51`: a box of the right column that reaches
  over the gutter is read in the left one.
- `providers/glm/mapper.ts:35`: a response that tells of two pages shifts the
  numbers of later pages, and a signature is then cropped from another page
  than it was found on.

## Not modelled, and why

The conversions of the local providers, the LLM's answers, the detection of
`file-type`, the check digits of `mrz`, the validation of `ajv` and multipart parsing
are library code or pure I/O: they appear as an input or as an outcome. Message
texts, prompts, logs, their redaction, traces, histograms and the metrics summary
carry no state that the service depends on. `listTenants`, `listAdmins`,
`getQueueStats`, `GET /functions` and the observability page only read. Document
classification asks the model and returns its answer. The browser console
(`public/admin/app.js`) is a client of the admin API and keeps nothing.
`AUTH_ENABLED=false` and `RATE_LIMIT_ENABLED=false` switch controls off and have
nothing to state. `extract()` of `pipeline.ts` is unused.

## Plan

Done: routing with its ingest, the pipeline, the queue, the tenants with the
provisioning script, the accounts, the gateway, GLM-OCR, the functions and the
tamper detection; every invariant and action property that a run checks is
proved. Left:

1. **Proofs**: the order of a reading among blocks of equal rank (the sort is
   stable, which no property asks yet); that the chain of `Router` is the one
   `Extraction` goes by, so that the two may be read as one theorem.
2. **Composition**: `GlmOcr` as an instance of the provider of `Extraction`, and
   `Extraction`'s runs in place of the one step of `JobQueue`.
