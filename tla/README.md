# Verification of the mortgage pre-approval service

TLA+ models of the backend in `src/backend/app`, the TLC runs that check them on
small instances, and TLAPS proofs of what matters most for every instance. The
code is the reference. Where a spec document or docstring of the repository says
something else, *Findings* names the difference: three have a run that TLC refutes;
the others, each with the place in the models that reaches it, are listed after them
without a run of their own, and the properties say which case they leave out.

- [The system](#the-system)
- [Modules](#modules)
- [How the database is modelled](#how-the-database-is-modelled)
- [Runs](#runs)
- [Fairness](#fairness)
- [Proofs](#proofs)
- [Findings](#findings)
- [What is not modelled](#what-is-not-modelled)
- [What is left](#what-is-left)

Check a module with `tlc -config <run>.cfg <module>.tla`, its proofs with
`tlapm <module>.tla`. `PROJECT.json` lists every run, and for every definition
the source lines it stands for.

## The system

One FastAPI process serves an Angular single-page application. Its state is one
SQLite file in WAL mode, a directory of uploaded files, and a little memory
(the attempt limiter, the queue of background tasks). Handlers are coroutines on
one event loop; every `await` lets other requests run. There is no lock in the
application: what serialises requests is SQLite's single writer and what the
code does between its awaits.

| Component | State | Operations | Talks to | What is hard | What makes it correct |
|---|---|---|---|---|---|
| Mortgage file (`domains/applications`) | `applications`, `borrowers` | create, PATCH, submit, recompute_status | documents call recompute; PATCH claims simulations | checks on rows read before the write lock; flushes of what differs from the row loaded | status follows the state machine; what is submitted is filled in; handlers act as if indivisible |
| Documents (`domains/documents`) | `documents`, blobs | upload, download, delete, checklist | storage, applications, classification | two stores changed in sequence; crash and failure between them; delete against download | every row has its blob; stray blobs are explained; a document changes with its status |
| Blob storage (`core/storage.py`) | directory | save, load, delete | documents | failures of the disk | as above |
| Checklist (`applications/checklist.py`) | none | required_documents | applications, documents | the empty list before the property section is filled | only filled files are submitted |
| Simulations (`domains/simulation`) | `simulations` | create, get, claim | signup and PATCH claim, create reads | claim by SELECT, then UPDATE by id | an owner is never replaced; a link is to one's own |
| Accounts (`domains/auth`) | `users`, cookie | signup, login, logout, me | simulations | simultaneous signups; all or nothing with the claim | one account per address; truthful answers |
| Attempt limiter (`core/rate_limit.py`) | deques in memory | check | signup, login | runs on pool threads without a lock | at most N attempts in any window |
| Classification (`documents/classification`) | columns on `documents`, tasks in memory | run | model API, documents | the task outlives the request: deletes, lock contention, restarts, retries | advisory columns consistent, written once, never resurrect a row; each task ends |
| Financial profile (`applications/service.py`, `affordability.py`) | `application_financials` | get, put, assess | simulations | two first PUTs; later ones write what differs from the row they loaded | a PUT with nothing beside it replaces the whole row; columns come from committed PUTs; what is shown was confirmed; the band follows from the figures |
| Calculator (`simulation/calculator.py`, `service.py`) | `simulations` | create, get, simulate | applications | rounding, boundaries, bisection; computed again at every read | the schedule closes at zero; the JKP is where the two sides cross; what is stored can be computed |
| Body limit (`core/limits.py`) | per request counters | wrap receive and send | every handler | a lying header; a handler that answers the cut stream itself, or raises | one answer, 413 exactly when too large, and no more than the limit handed on |
| Views (`documents/service.py` checklist, `list_applications`) | none | four SELECTs for a checklist, four for the list | applications, documents | commits between the reads, of a row and its borrowers too | a view is true of one moment unless two changes fall into it, or one of borrowers and property type |
| Start-up (`core/database.py`) | schema | create_all, add columns | every table | older databases | reads work after start-up |
| File page (`application-wizard.component.ts`) | signals | upload, remove, save, submit, refresh | the API | answers out of order, double clicks, errors, losses | a quiet page shows the file; buttons work again |
| Rest of the frontend | signals, sessionStorage | simulator, sign-up, home | the API | debounce, cancellation | not modelled |

`PROJECT.json` lists the components with what is modelled of each, and under
*hazards* each place where the code can go wrong in a way a test would hardly
reach, with the properties that watch it.

## Modules

| Module | Models | Role |
|---|---|---|
| `Checklist` | `applications/checklist.py`, `ApplicationService.checklist` | the required document types as a set; rule tables are constants |
| `FileTables` | the ORM rows, `state_machine.py`, `recompute_status`, `_validate_for_submission` | tables and rules about a status; extends `Checklist` |
| `AtomicFile` | nothing: it is the abstract specification | one variable, four kinds of indivisible change |
| `FileRequests` | PATCH, submit, upload, download, delete | the concurrent handlers; extends `FileTables` |
| `Ownership` | signup, create, PATCH with `simulation_id` | who owns a simulation, and what is linked to it |
| `Classification` | `pipeline.py`, `evaluator.py`, `set_classification` | the background task of each upload |
| `Calculator` | `simulation/calculator.py`, `simulation/service.py` | create and get, month by month and halving by halving |
| `Affordability` | `applications/affordability.py` | the assessment as a function; extended by `Financials` |
| `Financials` | `get_financials`, `put_financials`, `upsert_financials` | the profile's row under overlapping requests |
| `BodyLimit` | `core/limits.py` | one request between client, limit and handler |
| `FilePage` | `application-wizard.component.ts`, the checklist and list views | the page over the server; extends `FileTables` |
| `RateLimiter` | `core/rate_limit.py` | `check` on several threads |
| `FileRequestsProofs`, `OwnershipProofs`, `ClassificationProofs`, `RateLimiterProofs`, `CalculatorProofs`, `FinancialsProofs`, `BodyLimitProofs`, `FilePageProofs` | | theorems about the module each is named after |
| `MCFileRequests`, `MCOwnership`, `MCClassification`, `MCRateLimiter`, `MCCalculator`, `MCFinancials`, `MCBodyLimit`, `MCFilePage` | | instances for TLC |

`FileRequests` is proved to implement `AtomicFile`: a committed change is one
indivisible step. That is why `FilePage`, whose subject is the views and the page,
commits a change in one step. Nothing connects the two modules formally; they share
`FileTables` and `Checklist`.

Definitions called *planted mistake* are bugs one could plausibly write. Nothing
refers to them: each stands beside the definition it could replace, and a
property is kept only when TLC finds it violated after the replacement.

### FileRequests

`db` is the committed content of the tables, `txn` what the transaction that
holds the write lock sees, `writer` who holds it, `blobs` the keys on disk, and
`pc`, `op`, `seen` are the local state of each request: where it is, what it was
asked, and the row its session has loaded.

A handler is split where another coroutine may run *and* could tell: its reads
before the first write (`ReadPatch`, `LoadBorrowers`, `ReloadPatch`, ...), the
blob write (`SaveBlob`), the first flush with everything done under the lock
(`WritePatch`, `WriteUpload`, ...), the commit, and what follows it
(`UnlinkBlob`). `recompute_status` runs under the lock its caller took and is part
of `WriteUpload` and `WriteDelete`. `RefuseSimulation` stands for the ways
`_attach_simulation` refuses; whose simulation it is belongs to `Ownership`.

A document row and its blob are named by the request that uploaded them, as both
ids are generated there; a client can only name a document that exists. The
property section is one value (its type, the only answer the checklist and the
submission read, and NoProperty while it is incomplete), and a person is the three
answers that matter.

### Ownership

The same database, with accounts, owners and links in it. A signup looks up its
address, inserts (which takes the lock, or meets the unique index), and claims
under the lock. A create reads the simulation before its insert. A PATCH reads
the simulation, selects it again as unowned and updates it by id, all before or
at its first write, unless it also replaces borrowers, in which case the
lock is already its own. `Residents` are accounts with a draft that exist from
the start, so that PATCHes need not wait for a signup.

### Classification

`Upload` is the commit of an upload; the task is queued after it, renders, asks,
may be turned down and ask again, decides its record, then selects the row,
updates and commits in a session of its own. The verdict is any of the classes
`evaluate` tells apart (claimed type, another, none; below the floor, between the
thresholds, above). `Fault` is an error inside the task: caught while it decides,
not caught while it records. `Crash` forgets all tasks.

### RateLimiter

The dependency is a plain function, so FastAPI runs it on a thread pool. The
steps are those between which CPython can switch threads: reading the clock, one
turn of the sweep, the length test, the append.

### Calculator

Amounts are cents. A request carries what the code gets from real powers: the
monthly rate as a fraction that reproduces its schedule to the cent, the rounded
instalment, and the present value at each point of a grid over the bracket of the
bisection. Everything else is computed: interest and its rounding each month
(`ChargeMonth`), the last month, duty and fees, and the bracket's ends (`Halve`).
`Create` validates as `SimulationService._validate` does and stores after computing;
`Read` computes a stored request again without validating it, as `get` does and as
the mortgage file does for its instalment.

The coroutine has no await inside the computation, so nothing runs beside it; what
matters is the order validate, compute, store, and the arithmetic.

### Financials and Affordability

The row of one application, and any number of GETs and PUTs. A PUT reads the
application (`ReadApplication`), loads its row (`LoadRow`), assigns every column, and
its flush takes the lock: an INSERT if there was no row, an UPDATE of the columns
that differ from what it loaded, or nothing at all. `Commit` publishes. The answer is
assembled from the application read first and the row read last, so a loan attached
in between (`EditFile`) is missing from the assessment; `AtomicFile` makes such an edit
one step. `Affordability` is the arithmetic of `assess`, shares in hundredths of a
percent, rounded as the code rounds them.

### BodyLimit

Three parties: the client, who sends chunks, ends its body or hangs up, whatever its
header said; the middleware; and the application below, which answers or raises
whenever it likes. `Counted` is the receive channel, `GuardedSend` the send channel.

### FilePage

The page's calls run side by side. A change is one step of the server, a delete after
it has found its document (`FindDocument`). A checklist is four reads: the
application's row (`ReadApplication`), its borrowers (`ReadBorrowers`, the second
SELECT of `selectinload`), the documents and their classifications. A row of the list
is three: the types uploaded, the row, the borrowers; the SELECT of the ids before
them returns the same whenever it runs. Between any two another call may commit.
Answers may be delivered in any order, refused (`Refuse`) or lost (`Lose`); a delete
whose blob cannot be unlinked is answered with an error after its commit
(`FailUnlink`). `status`, `view` and `busy` are signals of the component.

`FileRequests` and `Financials` keep the two SELECTs of `get_owned` in one step: no
property there relates the row and the borrowers it reads to one moment.

Each committed change has a number; `shown` and `newest` compare what is displayed
with the newest answer that has arrived, which says where "the last answer wins"
shows an older one.

## How the database is modelled

The driver runs a SELECT outside a transaction until the first INSERT, UPDATE or
DELETE, so a handler's early reads each see the latest commit and hold no lock.
The first write begins a transaction and takes the one write lock; whoever else
wants it waits, and fails after the busy timeout (`BusyTimeout`, `WriteTimesOut`).
While it is held, nothing else commits, so reads under the lock see the state at
the time it was taken plus the transaction's own writes; `txn` is that view. A
commit publishes it, a closed session or a dead process drops it. SQLAlchemy
flushes only columns that differ from the row it loaded, so a handler that finds
nothing to change never takes the lock (`ReloadPatch`, `ReloadSubmit`), and an
UPDATE by primary key that matches no row raises `StaleDataError`
(`WriteFindsNoRow`).

## Runs

Violation runs check one claim of the repository that the code does not keep.

| Run | Instance | Shows |
|---|---|---|
| `file_core` | 1 application, 5 requests, 3 at a time, 1 crash or error | types, `RowHasBlob`, `OrphansExplained`, `CorruptMeansDeleted`, `SubmittedIsFilled`, `StatusFollowsMachine`, `DocumentChangesAgree`, refinement of `AtomicFile` |
| `file_answered` | 4 requests, 2 at a time, no faults, fairness | `AllAnswered` |
| `file_status_stale` | 4 requests, one at a time | violates `StatusAlwaysAgrees` |
| `file_borrowers_mixed` | 3 requests, 2 at a time | violates `BorrowersWhole` |
| `owner_claims` | 2 residents, 4 requests of every kind, 1 address, 1 simulation, 1 fault | types, `SignupsAnsweredTruly`, `LinkedIsClaimed`, `OwnerExists`, `EmailOnce` |
| `owner_claimed_twice` | 2 requests, no faults | violates `OwnerNeverChanges` |
| `class_core` | 2 documents, 1 retry, 1 fault, fairness | `RecordsConsistent`, `DeletedStaysDeleted`, `VerdictIsFinal`, `QueuedSettles` |
| `rate_limits` | 5 attempts, 2 addresses, limit 1, window 1, 2 threads, time 0..4 | `WindowBound`, `RefusedOnlyWhenFull`, `OvershootBounded` |
| `calculator` | 6 loans at the corners of what is accepted, 8 requests just outside, fairness | `ScheduleCloses`, `ResidueBounded`, `JkpBalances`, `JkpNotBelowNominal`, `FirstHomeNeverCostsMore`, `StoredIsComputable`, `ComputationEnds` |
| `financials` | 3 requests, 5 profiles, 1 edit, 1 error | `LastPutReplaces`, `ColumnsSubmitted`, `ShownIsConfirmed`, `BandJustified` |
| `body_limit` | limit 3, up to 6 bytes in chunks of 0 to 3, 5 headers, fairness | `HandlerWithinLimit`, `OneResponse`, `TooLargeIsTold`, `CutIsAnswered` |
| `page` | 5 calls, one list at a time, 3 document types, 2 property types, 1 loss or failed unlink, fairness | types, `QuietPageCurrent`, `ViewTrueOnce`, `SavesEnd` |

Why the bounds are enough. Getting a file from a draft to a deleted document
takes four requests (answers, submission, upload, delete); the fifth is a rival of
any of them, and with three in flight two of them race while a third holds the
lock. One fault is enough for every single failure between two steps; the proofs
cover any number. Documents and types: one document everybody needs, one an
employment type adds, one a property type adds, so that an edit can grow and
shrink the checklist. One application is enough: a second shares nothing with it
but the write lock and the documents table, and the proofs cover any number.
`Ownership` needs one contested simulation and address,
two owners who want it, and signups that lose. `Classification` needs two
documents only because the lock is shared. The limiter's bound of
`MaxAttempts + 2 * (MaxThreads - 1)` is three in `rate_limits`, which reaches it and
makes five attempts, so that one more would show; a key whose calls never overlap is
in the same run, beside one whose calls do.

The loans of `calculator` are the smallest and largest amounts, the shortest and longest
terms, the rates 0, 20% and just below, each region, with and without a first home,
one loan whose fees exceed it and one for which no rate in the bracket balances the
two sides; the requests it refuses cross each bound by one. A schedule runs through
all of its months. The bracket has 16 steps: halving does the same at each width,
and the proof covers every width. `financials` needs two PUTs that overlap over a
row a third has saved, and incomes on both sides of each edge of the bands.
`body_limit` lets a body stop below, at and beyond the limit in one chunk or many.
`page` needs a change, its refresh, a rival change with its own, and one call more. It
opens on a draft or on a submitted file with the payslips in it, which asks for its
checklist; answers then change the borrower, the property type, or both, and each of
the two decides on a document of its own, so that a row and borrowers of different
moments ask for a list of documents that is neither file's: without its exception
`ViewTrueOnce` is violated in this run.
Every bound is a constant named in its module (`MaxActive`, `MaxFaults`, `Asked`,
`MaxThreads`, `MaxTime`, `Inputs`, `Grid`, `MaxStored`, `MaxEdits`, `MaxSent`, `MaxParts`,
`MaxLost`).

Symmetry is used for requests, residents, limiter calls and the addresses they use,
in runs without liveness; no action or property tells two of them apart.

`CHECK_DEADLOCK` is left on everywhere: each module has a `Quiet` (or `Over`) step for
the states in which nothing is under way, so a request stuck in the middle is
reported as a deadlock.

## Fairness

`file_answered` assumes weak fairness of each request's next step: the event loop
runs every coroutine that can go on, and one waiting for the lock always can go
on, since it either gets the lock or times out. No fairness is assumed of clients
(`Start`) or of failures. `class_core` assumes the same of each task and each
delete; a call of the model API ends within its timeout (`client.py`
`TIMEOUT_SECONDS`), which makes `Answer`, `Retry` or `GiveUp` happen.

`calculator` assumes weak fairness of the computation, which has no await in it and so
runs on once begun; `body_limit` of the middleware and the handler, not of the client,
who need send nothing; `page` of each call, that the server takes its next step or
the page gets its answer, the first being what `file_answered` checks and the second the
browser's promise that every request ends in an answer or an error. The other runs
assume none.

## Proofs

Theorems hold for every set of applications, requests, documents, threads and inputs,
and any number of faults, from the assumptions named in the modules:
`ChecklistAssumption`, `RequestsAssumption`, `OwnershipAssumption`,
`ClassificationAssumption`, `LimiterAssumption`, `CalculatorAssumption`,
`FinancialsAssumption`, `BodyLimitAssumption`, `FilePageAssumption`,
`NoViewAssumption`, and `AskedAssumption` (in two modules). They say that constants are
of their types and that names for "none" are no member of what they stand outside of.
Two more say what a table of figures has to do with its loan:
`PresentValuesAssumption`, which TLC evaluates, and the hypothesis `InstalmentsLevel`
of one theorem (see below). Every `...Proofs` module has a theorem `TypeCorrect` of
its own. Where no run lists the type invariant, that theorem is why.

| Theorem | States |
|---|---|
| `FileRequestsProofs!RowsHaveBlobs` | `Spec => []RowHasBlob` |
| `FileRequestsProofs!OrphansAccounted` | `Spec => []OrphansExplained` |
| `FileRequestsProofs!CorruptOnlyDeleted` | `Spec => []CorruptMeansDeleted` |
| `FileRequestsProofs!SubmissionsFilled` | `Spec => []SubmittedIsFilled` |
| `FileRequestsProofs!HandlersImplementAtomicFile` | `Spec => ImplementsAtomicFile` |
| `FileRequestsProofs!StatusesFollowMachine` | `Spec => StatusFollowsMachine` |
| `FileRequestsProofs!DocumentChangesHaveStatus` | `Spec => DocumentChangesAgree` |
| `FileRequestsProofs!BorrowersWholeApart` | `Spec /\ []Apart => []BorrowersWhole` |
| `OwnershipProofs!OneAccountPerEmail` | `Spec => []EmailOnce` |
| `OwnershipProofs!SignupAnswers` | `Spec => []SignupsAnsweredTruly` |
| `OwnershipProofs!LinksAreClaimed` | `Spec => []LinkedIsClaimed` |
| `OwnershipProofs!OwnersExist` | `Spec => []OwnerExists` |
| `OwnershipProofs!OwnersPassOnlyByClaim` | `Spec => OwnersPassByClaim` |
| `ClassificationProofs!RecordsAgree` | `Spec => []RecordsConsistent` |
| `ClassificationProofs!DeletedForGood` | `Spec => DeletedStaysDeleted` |
| `ClassificationProofs!VerdictsFinal` | `Spec => VerdictIsFinal` |
| `RateLimiterProofs!WindowsBounded` | `Spec => []WindowBound` |
| `RateLimiterProofs!RefusalsJustified` | `Spec => []RefusedOnlyWhenFull` |
| `RateLimiterProofs!OvershootIsBounded` | `Spec => []OvershootBounded` |
| `CalculatorProofs!SchedulesClose` | `Spec => []ScheduleCloses` |
| `CalculatorProofs!JkpCrosses` | `Spec => []JkpBalances` |
| `CalculatorProofs!StoredComputable` | `Spec => []StoredIsComputable` |
| `CalculatorProofs!FirstHomesCostNoMore` | `Spec => []FirstHomeNeverCostsMore` |
| `CalculatorProofs!JkpAboveNominal` | `Spec => []JkpNotBelowNominal` |
| `CalculatorProofs!ResidueIsBounded` | `Spec => []ResidueBounded`, given `InstalmentsLevel` |
| `FinancialsProofs!PutsReplace` | `Spec => []LastPutReplaces` |
| `FinancialsProofs!ColumnsAreSubmitted` | `Spec => []ColumnsSubmitted` |
| `FinancialsProofs!FiguresAreConfirmed` | `Spec => []ShownIsConfirmed` |
| `FinancialsProofs!BandsJustified` | `Spec => []BandJustified` |
| `BodyLimitProofs!LimitHolds` | `Spec => []HandlerWithinLimit` |
| `BodyLimitProofs!OneResponseHolds` | `Spec => []OneResponse` |
| `BodyLimitProofs!TooLargeToldHolds` | `Spec => []TooLargeIsTold` |
| `FilePageProofs!TypeCorrect` | `Spec => []TypeOK` |
| `FilePageProofs!ViewsTrueOnce` | `Spec => ViewTrueOnce` |
| `FilePageProofs!QuietPageIsCurrent` | `Spec => []QuietPageCurrent` |

`RowHasBlob` is not inductive: nothing in it says why a delete may unlink. The
strengthening `BlobInv` adds that the lock is held exactly between a flush and its
commit (`LockHeld`), that a committed row belongs to a finished upload and a staged
one to the writer (`RowsSettled`), that an upload about to insert has its blob
(`UploadsSaved`), and that a delete about to unlink names a row that is already gone
and an upload that is finished, so that no later insert can bring the row back
(`DeletesSettled`). `BlobInvStep` has one step per action. Moves that leave the tables
alone share `MoveKeepsBlobInv`, the four writes share `WriteKeepsBlobInv`, and
crashes and errors share `RollbackKeepsBlobInv`. For `OrphansExplained`, `OrphanInv`
adds that a file belongs to an upload past its save (`FilesNamed`), and that a commit
publishes that upload's row and takes away only the row its delete names
(`StagedRows`), so that a row is lost only to a delete that has yet to unlink. For
`CorruptMeansDeleted`, `DownloadsSettled` says that a download past its row names an
upload that was answered, and so one that inserts nothing any more: when the blob is
missing there is no row, and none comes back.

For the refinement, `FileInv` says that what a writer has staged is one change of
`AtomicFile` (`Staged`), that documents belong to the application their upload named
(`DocsNamed`), and that what each handler checked before it had the lock still holds
(`ChecksHold`): an application that has accepted documents never stops doing so, and
a property section is never emptied. `WriteStages` proves `Staged` for each of the
four writes; a commit then is the staged change, and every other step a stutter.
Both action properties follow from that (`StepChanges`) and from what one indivisible
change does to a status (`ChangeMoves`). The edge taken also needs where the status
came from: a file is a draft or between the two document states (`StatusReached`).

`BorrowersWhole` fails, and `BorrowersWholeApart` says when only. A PATCH is
`Replacing` from the load of the rows it will delete to its commit; `Apart` is that no
two PATCHes of one application are so at once. That holds of every behaviour whose
PATCHes come one at a time, and of many in which they overlap elsewhere; no other
request, error or crash is restricted. `WholeInv` then says that what is committed and
what is staged is one collection each, that only a `Replacing` writer stages a new one,
and that the rows a waiting PATCH has loaded are still the ones there, unless it adds
nothing: what replaces them cannot leave any behind.

The four properties of `Ownership` follow from one invariant, `OwnershipInv`. Committed
and staged tables are `Sound` (addresses once, links claimed, owners real), which is
what a commit needs; the writer only adds its own account and frees no simulation
(`WriterAdds`), so that what a waiting request has read cannot become worse; and
`StillTrue` says what it relies on: the account of its session exists, and a
simulation it saw owned is owned. `AccountsAnswered`, that a committed account belongs
to a request answered 201, is what makes the address behind a 409 somebody else's.
`OwnerNeverChanges` would need *owned by whom*, and that is what fails;
`OwnersPassOnlyByClaim` proves it fails in one way. `TakenByClaim` says it of what is
staged: a write that takes an owned simulation is the UPDATE of a PATCH without
borrowers, whose SELECT ran before the lock. A signup and a PATCH that has flushed
borrowers hold the lock when they look, and take nothing.

`ClassInv` is the same idea with two kinds of writer, the task and the delete of each
document: what the writer has staged is its own change of one row (`Staged`), so a
commit is that change; a row has no verdict until its task is over, and there is one
task (`NotYet`); and a result is consistent from the moment it is decided
(`ResultsConsistent`). `CommittedChanges` lists what a step may do to a committed row,
and both action properties follow from it.

The limiter's properties count calls, the code counts deque entries, and the two are
related only as long as a key's calls do not overlap. `KeyInv` therefore holds of the
keys that have not raced, for any number of threads: a running call is alone with its
key and has the latest time (`AloneAndLatest`); the entries of the deque are the
accepted calls, in order of time (`Remembers`, with the list of calls as a witness);
an accepted call that is no entry any more is out of every window to come
(`Complete`); so a window's calls are entries, no more than the limit (`Bounded`), and
a refusal saw a deque full of calls inside its window (`RefusedFull`).
`ListedBound` and `ListedFills` turn a list into a cardinality.

Keys that do race keep a weaker promise. `ThreadsInv` counts, for each key and time,
the calls that time may yet count. While no call has read a later clock
(`Passed`), those past the length test (`Settled`) exceed the limit by at most the
other threads, which measured before it was full. Once one has, its sweep may forget
what the time counts, but no new call can count there: those under way then (`Early`)
add at most the other threads a second time.

For the calculator, `Reconciled` says that a month moves the balance and the totals
together, so that the last month, which repays the balance, closes both. The
bisection keeps the crossing between its ends or an end untouched (`Bracketed`), so
where the two sides cross in the bracket it ends around the crossing; that present
value falls with the rate is not needed. `StoredIsComputable` needs that a
computation reaching the bisection had something to balance (`ChecksHold`). The
duties compare by monotonicity of the rounding (`HalfUp`, `Share`), for any price.

Two properties relate the figures of a loan to each other, and so need to know that
they are of one loan. `JkpAboveNominal` needs `PresentValuesAssumption`: at a rate not
above the nominal one the instalments are worth the loan but for a cent a month of
rounding. The advance is short of the loan by the fees, which are more than that, so
the two sides cross above the nominal rate. `ResidueIsBounded` needs
`InstalmentsLevel`: for each loan there is a schedule in exact fractions, with a level
instalment the rounded one is within half a cent of. `DriftInv` says that the rounded
balance is never farther from the exact one than `drift`, which grows by a cent a
month and its interest (`DriftGrows`). The hypothesis is no ASSUME of the module, as the
fractions have the denominator `q ^ term`, beyond TLC's integers; it is true of an
annuity, and was checked for the loans of the run in exact arithmetic.

`LastPutReplaces` needs that the lock is held from a flush to its commit and that
what a writer staged over the row it had loaded is its whole profile (`ReplaceInv`,
`StagedWhole`), that no row is ever taken away (`NeverGone`), and that the last PUT to
commit is done with the row (`LastDone`). `ColumnsInv` adds where each staged column
comes from. `ShownInv` carries that to the answer: a PUT shows the row it staged, which
is the committed one by the time it is shown, and what a committed PUT submitted stays
so. `TimesHold` adds which amount a time belongs to. A PUT that states a figure always
writes its time, as no row it can have loaded has that time in it (`LoadedOlder`); so a
time in the row is that of the last PUT to have stated the figure, and if that PUT had
loaded the row it wrote to, the amount is its own as well (`UpdatedTimed`). `BandsJustified` is arithmetic: a share rounded half up is within a limit exactly
when the exact one is less than half a unit above it (`RoundedWithin`), and the
band shown is the less comfortable of the two norms' (`WorseOfBoth`).

In `BodyLimit`, `CountInv` ties the counter to what was sent and to the cut, and
`WireInv` says that nothing is on the wire before the handler's start, which is the
413 from then on or never.

`FilePage` is proved in three layers. `CallInv` is what each call carries at each of its
stages, and that a call always finds an id: a call in the air owes at most the
refreshes that follow it, and there are as many idle ids as calls owed
(`Enough`). One change touches documents or answers and not both, so a file one version
newer than a view's first read differs from it in one of them only (`Near`). Row and
borrowers may still be of different versions: then they are the older's or the newer's
unless both differ (`MixedRows`), and even so what is asked for is asked for by one of
the two (`SameAsked`).
For `QuietPageCurrent`, `PageInv` says that an answer and a display of the newest
version are true of the file (`AnswerTrue`, `DisplayTrue`), and that while no answer is
lost the newest version has been displayed or is on its way (`OnItsWay`); with nothing
under way, it has been displayed.

The proofs found two slips that the runs could not: `- amount \div q` and
`UNION {...} \cup X` are read differently by the prover and by TLC. Both are
parenthesised now, in `Share` and `Required`.

Only model-checked: liveness (`AllAnswered`, `QueuedSettles`, `ComputationEnds`,
`CutIsAnswered`, `SavesEnd`), which the prover does not reach. Every other property of a
passing run is stated by a theorem.

## Findings

Each is a run that TLC refutes; `PROJECT.json` quotes the line.

- A PATCH changes answers without recomputing the status (`file_status_stale`).
- Two overlapping PATCHes merge their borrowers (`file_borrowers_mixed`); nothing else
  does (`BorrowersWholeApart`).
- Two claims of one simulation can both win (`owner_claimed_twice`), by an unlocked PATCH
  and no other way (`OwnersPassOnlyByClaim`).

The models reach other states in which the code does not do what a document or a
docstring says. They have no violation run; the property named states what is left,
and says what it leaves out:

- `compute_jkp`'s docstring (`calculator.py:272-274`) announces
  `JKP_COMPUTATION_FAILED` if no rate in the bracket balances the two sides. For
  `Tiny` in `MCCalculator` (660 EUR at 20% over 360 months, fees of 642.92 EUR) none
  does, no error is raised, and the bracket's upper end is answered and stored as the
  JKP. `JkpBalances` speaks of loans for which the two sides cross in the bracket, and
  of no other.
- "A few cents" (`calculator.py:135`): the last instalment of the same loan is -36.49
  EUR, as half a cent a month compounds (`ResidueBounded` says how far it may go).
- "Insert or replace the profile wholesale ... a partial merge would leave a figure and
  its provenance disagreeing" (`repository.py:319-323`) and "Provenance travels with the
  value" (`entities.py:143`). A PUT whose row another PUT has replaced since it loaded it
  writes the columns that differ from what it loaded (`FlushUpdate`): restating the old
  amount it leaves its time next to the rival's amount, or next to none if the rival
  cleared it, and then the figure is not shown although it was just saved.
  `LastPutReplaces` and `ShownIsConfirmed` except these PUTs (`stale`), and only these.
- "Never raises. Any failure is recorded as `FAILED`" (`pipeline.py:70`): a delete
  between the task's SELECT and its UPDATE makes the flush raise (`WriteFindsNoRow`),
  and a task that fails while it records leaves the status null (`WriteTimesOut`); no
  action writes `PENDING`. `QueuedSettles` counts these endings as settled.
- "10 attempts per 5 minutes" (AUTH-040): threads can exceed the attempt limit, by no
  more than `OvershootBounded` says, and a thread that appends late keeps expired
  attempts behind the deque's head.
- `STORAGE_CORRUPT`, "a database integrity error, or a blob referenced by a row is
  missing" (`specs/7-validation.md:66`), is the answer of a download that read its row
  before a delete committed (`LoadBlob`), though rows and blobs agree.
  `CorruptMeansDeleted` says it is the answer in this race only.
- A PATCH that changes borrowers and property type at once, as the page's saved answers
  do (`application-wizard.component.ts` `saveAnswers`), can commit between the SELECT of
  an application's row and that of its borrowers. The checklist is then true of neither
  file, until the page asks again (`ReadBorrowers`; `ViewTrueOnce` excepts the case).

And some no document speaks of:

- Attaching a simulation writes back the property type read at the start of the request
  over one committed meanwhile (`StatedProperty`).
- Two overlapping submissions are both answered 200 (`WriteSubmit` writes over
  `ReloadSubmit`'s row).
- A list row can pair a newer status with older counts, and an older checklist
  answer can stay on the page until the next change (`ViewTrueOnce` and
  `QuietPageCurrent` state what is left).

## What is not modelled

- Wording, labels, logging, metrics, static files, prompts and schemas: no state.
- Argon2, JWT, SQLite, SQLAlchemy, FastAPI, Starlette and the model API themselves:
  modelled from how the code uses them.
- Sessions and passwords: a cookie set and cleared around two libraries.
- The columns of the property section: it is one value, its type, which is all the
  checklist and the status read. Two overlapping PATCHes can mix its other columns.
- Real powers in the calculator: `(1 + I) ** (1/12)` over `Decimal` has no finite
  model. The quotiteit and its flag: ten thousand times the loan leaves TLC's
  integers.
- The start-up of the schema: one pass before the first request.
- Source documents of a confirmed figure, always absent here: the backend stores
  every figure as stated by hand.
- The wizard's steps and forms, the simulator page, sign-up and home pages, and
  deployment.

## What is left

In order of worth: the property section column by column (as `Financials` does it for
the profile); the simulator page with its debounce, its cancelled calls and the
remembered simulation a sign-up claims, over `Ownership`; the steps of the wizard over
`FileRequests`; and an abstract specification of an indivisible claim, which
`Ownership` would implement if every claim were locked.
