# Verification of the K-Learning-App

TLA+ models of the parts of this Korean-learning platform whose correctness depends on the
order in which things happen, the TLC configurations that check them on small instances, and
TLAPS proofs of what matters most for instances of every size. Source paths are relative to
`src/`.

## The system

A TypeScript/Express server (`server/src`) serves a React client (`client/src`) and keeps all
durable state in Postgres (`db/migrations`) plus files on a shared disk. Two copies of the
server run in production, one per deploy colour (blue and green), against the same database
and disk (`Deploy/`); one colour at a time is active, written in a file. Long work (decoding a
book, synthesising a story's audio, illustrating it) is put in a table by a route and taken
from it by a polling loop in each server process. There are no in-memory locks between
processes: what keeps them apart are row locks, unique keys, and status guards in the `WHERE`
clause of each `UPDATE`.

| component | state it keeps | operations | what makes it correct |
|---|---|---|---|
| book upload ingest: `routes/uploads.ts`, `services/bookIngestRunner.ts`, `bookUploadIngest.ts`, `jobRetention.ts` | `book_uploads`, `book_pages`, raw and page files | POST, DELETE, page reorder, runner tick (reap, claim, wipe, decode, settle), retention sweep | a listed page has its bytes; an accepted file is not lost; a ready upload is whole and stays ready; nothing is stuck |
| story audio and images: `services/storyAudio.ts`, `storyImage.ts`, `routes/reading.ts` | job rows, audio sources/tracks/segments, image rows, blobs | enqueue, claim, synthesise, persist, settle, reap | one live job per story; a voice is generated once; all-or-nothing results |
| vocabulary extraction: `services/uploadExtract.ts` | `upload_extractions`, vocabulary and grammar rows | claim a range, OCR page by page, persist, settle, reap | one live run per book; the daily page cap, which no delete refunds; no words without a finished run |
| audio upload and transcription: `routes/audio.ts`, `tools/audio_stt/*` | `audio_tracks`, `audio_transcription_jobs`, segments, files | upload, corpus load, claim, transcribe, persist, settle, reap, delete | a transcript is the work of a finished job; the cap; every job ends; a rerun loses nothing |
| cards and reviews: `services/cardReview.ts`, `fsrs.ts`, `routes/vocab.ts`, `grammarDrill.ts`, `pages/Review.tsx` and others | `vocab_cards`, `card_reviews`, `grammar_drill_attempts`, the versions a study session holds | add, seed, remove, rate, repeat, score a drill | no lost update, no rating counted twice, one history per word, intervals that fit the state |
| TOPIK mock exams: `routes/topik.ts`, `pages/topik/MockMode.tsx` | `topik_attempts`, responses, generated mocks, the exam screens | start, save, resume, submit, discard, assemble, grade | what is graded is what was submitted, once, and history is final |
| diagnostic test: `routes/diagnostic.ts` | `diagnostic_runs`, responses, snapshots, writing claims | start, answer (with a model's grade), next item, finish | an answer counts once; the snapshot shows what it is scored with; a finished run is frozen |
| model calls: `services/spendCeiling.ts`, `services/claude/*` | usage rows, response cache, per process memo and token bucket | gate, look up, limit, retry, parse, store, record | the ceiling holds; one answer per call, that fits; what a call is billed is bounded |
| releases: `Deploy/*.sh` | `.env`, `nginx.conf`, what km-lb has loaded, the active-colour file, containers | deploy, switch, undo, rebuild | the four agree; production changes by a switch; what serves finds its schema |
| migrations: `db/migrate.py` | `schema_migrations` | plan, apply | each version once and in order, whoever else runs |
| accounts, notifications, image capture, conversation, reading, word lists, plan, tickets, settings, client, kiwi, ingest tools | see `PROJECT.json` | | not modelled, with the reason there |

Components meet in four ways: through rows and unique keys in Postgres; through files on the
shared disk (always written before the row that names them and removed after it); through
the active-colour file every runner reads on each tick, which `BookIngest` and `StoryJobs` take
as an environment that may change at any time and `BlueGreen` as what a switch writes; and
through requests whose answers a client may lose, so that it sends them again.

Hard behaviours, which the properties are for: a process dying between any two steps; a slow
run overtaken by the reaper; a row reused by a re-upload while an earlier run's cleanup is
still pending; a commit or an answer whose acknowledgement is lost; two colours claiming at
once; checks that count rows before inserting one; versions, sums and plans that are stale when
used; a script stopped between two writes. `PROJECT.json` lists each at its source line.

## Plan

Most important first; each module with its configurations and its proofs. All of it is done.

| module | composes | abstract specification | proofs |
|---|---|---|---|
| `BookIngest` | the active-colour file as environment | | `BookIngest_proofs` |
| `StoryJobs` | the same | `StoryResults`, refined | `StoryJobs_proofs` |
| `Extraction` | a book that grows and is wiped, from `BookIngest` | | `Extraction_proofs` |
| `Cards` | scheduler, card routes, review sessions, grammar drill | | `Cards_proofs` |
| `MockExam` | both screens with the routes | | `Exams_proofs` |
| `Diagnostic` | the grading claim with the run | | `Exams_proofs` |
| `ModelCalls` | ceiling, cache, bucket, retry, record | | `ModelCalls_proofs` |
| `BlueGreen` | extends `Migrate`; three scripts, km-lb, containers | | `BlueGreen_proofs` |
| `Transcription` | route, loader, workers | | `Transcription_proofs` |

What would come next: the accounts (below, "Not modelled").

## How the modules are written

One action per database statement or transaction and per file step, so that a crash, another
process, a route or a reaper can act between any two of them. A transaction is one action if
its rows are locked for its duration, and one action per statement if READ COMMITTED lets
others commit in between. A commit whose acknowledgement is lost is a disjunct of the action
that commits. Users other than one are left out: their rows never meet. Names, sizes, texts,
image bytes and scores are left out, since no property tells them apart. Ids are never reused,
so their number bounds how much a run of TLC explores.

Every constant marked `(bound)` in a module exists for TLC only; the theorems hold for every
value of it. A type invariant is proved for every module, so only one run checks one too
(`exam_sittings`); the others spend their time on the rest. Symmetry is used in runs without
liveness only. Deadlock is not checked where everything can come to its end: all files sent,
all ids used, all exams graded, no script started.

Operators whose comment begins with "Mutant:" are not part of a model. Each is the definition
after it with a plausible bug, and shows that some property would notice.

## BookIngest

State. `uploads` is the `book_uploads` table (status, title, `raw_blob_ref` as `raw`,
`page_count`, and whether `updated_at` is older than the stale threshold); `src` remembers the
last accepted file and is history. `pages` is `book_pages`, `disk` the storage directory,
`post` the requests in flight, `doomed` the files DELETE handlers have still to unlink, `run`
each process's runner tick with its program counter, `activeColor` the colour file. A file is
a raw upload (number 0) or page image `n` of it.

Actions. `Post*` (multer store, conflict 409, replace of a terminal row, count under the cap,
insert, error path, lost request), `Delete*`, `SweepFailed`, `ReorderPages`, the runner's
`ReapStale` .. `UnlinkFiles`, and the environment's `Crash`, `Restart`, `Age`, `Flip`. The
unlinks of one cleanup are one step, and a failing unlink is not modelled: it leaves a file
that no row names, as a crash before the step does.

| run | instance | shows |
|---|---|---|
| `book_colours` | 2 processes that may both claim, 1 title, 1 id, 2 files, 1 page, slow runs | `BytesOnDisk` (pages and accepted raw files), `OneRunPerRaw`, `FinalStatesStay` (deleted and ready) |
| `book_live` | 1 process, crashing without limit, 1 title, 2 ids, 2 files, 2 pages | `OneCompleteBook` (one row per title, a ready book is whole), `EveryUploadSettles` |

Two files are enough for a replace to race with the run, reap, cleanup or DELETE of its
predecessor; two processes for two runs; two pages for a partial book. That a ready book is
whole is checked with one process because with two it fails (Divergences). `MCBookIngest`
orders the first files and ids in the liveness run (`InOrder`), where symmetry would be unsound.

Fairness (`book_live`). A live process keeps polling (`setInterval` in `startBookIngestRunner`)
and a dead one is restarted by the container runtime: weak fairness of `Tick` and `Restart`.
Time passes: weak fairness of `Age`. Crashes do not hit every attempt to reap, to check the
colour or to claim: strong fairness of those three. Nothing is assumed of users, of deploys or
of a run that throws.

Proofs. `IInv` is inductive. The properties alone are not: that a listed page is on disk rests
on nobody being about to unlink it (`ShownIsNotScheduled`), which rests on the next blob of a
run being unused (`NextBlobIsUnused`), which rests on each raw file going once through the
queue: a file not yet queued or still waiting has left no trace anywhere (`UnqueuedIsFresh`,
`PendingIsFresh`) and belongs to one row (`RawOfOneRow`). Proved: all properties of
`book_colours`, types, and one row per title.

`ReadyBooksAreWhole` is proved of one process, from the hypothesis that there is no second
(with two it fails, Divergences), and with slow runs allowed. Beside `IInv` it rests on `BookInv`:
what a reaper, a late or a failed run is about to clear was given up and is not in use again
(`RunOwnsRow`), since the only process that could claim it is still at the cleanup; and a row
being decoded shows exactly the pages decoded so far, in whatever order the user has put them
(`DecodedIsShown`), so that the count written by the settle is that of its pages. Model-checked
only: the liveness.

## StoryJobs

State. `stories` are `generated_stories`, `jobs` the job table of one kind, `shown` the result
rows of each story (one audio track, or the images), `disk` the blob store, `req` the open
enqueue transactions, `run` the runner ticks, `today` the database's day. `Scenes` is `{1}`
for narration and a set of sizes (two to four) for illustrations: both queues have the same
statements in the same order, and where they differ (audio writes its blob and then inserts a
source, a track and segments; images write several blobs) the action covers both.

Actions. `BeginEnqueue` .. `InsertJob` are the statements of the enqueue, whose day `now()`
fixes at BEGIN; the advisory lock is held from `CheckShown` to the end. `ReapStale`,
`CheckActiveColor` (with `STORY_RUNNERS_ENABLED`), `ClaimPending`, `CheckCeiling`, `SaveBlob`,
`Persist`, `CleanupBlobs` and `SettleFailed` are the tick. `Throw` is any failure before the
commit of the persist, a rolled back persist included. `SweepJob` deletes jobs finished
30 days ago, so it waits until no request or run of that time is left.

| run | instance | shows |
|---|---|---|
| `story_images` | 2 colours, 2 stories, 2 jobs, 2 requests, results of 2 or 3 files, slow runs | `OneJobOneRun`, `ShownIsBacked` (by done jobs, and by files), and the refinement `KeepsPromise` |
| `story_live` | 1 process, crashing without limit, lost acknowledgements, cap 1, 2 days | `WithinDailyCap`, around midnight and the sweep; `EveryJobSettles` |

Two requests race for one story or for the last job of a day, two jobs are a failed and a
second attempt, three files leave one out. Fairness is that of `BookIngest`, for the same
reasons (`startStoryAudioRunner`, `startStoryImageRunner`); `InOrder` as there.

Refinement. `StoryResults` says what a reader may rely on: a result appears once, whole, of a
story whose job is live, is never taken back, and a clone shows what its source showed. `live`
maps to the stories with an unsettled job and `Result` to the sets of files one job can leave;
reap, failure, retry and crash then map to giving up or to stuttering.

Proofs. `IInv` adds to the properties what a tick at work holds (`RunHoldsJob`), that the lock
excludes and a count stays valid under it (`OneLocked`, `CountedIsUnderCap`), and that files
about to be shown are on disk while files about to be unlinked belong to no finished job
(`WrittenOnDisk`, `RunNotDone`). Proved: every safety property, types and `Refinement`; that
files shown are on disk needs `LostAcks = FALSE` (Divergences), nothing else does. Model-checked
only: the liveness.

## Extraction

State. `book` is the number of pages a book lists at the moment (`book_pages` grows in order
while the book is decoded, and a wipe empties it; `BookIngest` has the detail), `runs` the
`upload_extractions` rows, `words` the runs with rows in the corpus, `req` the extraction
requests, `today` the day. `sent` is history: the pages sent to the Vision model. The pages of a
run are kept as a set where the table keeps their count `pages_requested`; the cap's SUM is
therefore the number of (run, page) pairs charged.

Actions. `ResolveRange` takes the upload's row lock, resumes and reads the pages; `CheckCap`
takes the user's advisory lock and sums; `InsertRun` is the reap, the INSERT and the COMMIT.
The reap takes effect there although its statement runs before the cap is summed: nobody sees
it before the commit, the sum counts failed runs too, and the lock on the upload row keeps out
every other claim of the book; a run it would reap that settles first is one it no longer
finds. `Ocr` is the loop over the pages; nothing it does is shared, so one step suffices, and
it counts skipped pages as sent, which makes the cap harder to keep. `Persist` is the second
transaction, `SettleFailed` the failure path, `Lost` the end of the process or of a claim that
throws. `DecodePage`, `WipePages` and `DeleteBook` are the book's other users, `Age` and
`Midnight` time. There is no restart and no worker: a run whose process died stays running
until the next claim of the book reaps it, so no liveness is stated.

| run | instance | shows |
|---|---|---|
| `extract_runs` | 2 books, 2 pages, 2 runs, 2 requests, cap 2, 2 days | `RunsAreSound` (one live run per book, words from finished runs only), `BudgetHolds` (the cap, and every page sent is charged), `SettledIsFinal` |

Two runs of one book are a reaped and a second one; two books race for the cap, which one run
of two pages fills.

Proofs. `IInv` adds that unused rows are blank, that a request at work holds the row charged
for its pages (`RequestHolds`), and for the cap that the advisory lock excludes and that a
claim that has been counted still fits (`OneCounted`, `CountedFits`): a sum is taken under the
lock, and only a holder of the lock adds charges. Proved: every property of `extract_runs`.

## Cards

State. `cards` is `vocab_cards` (status, what it is about, version, memory, days, counters),
`log` `card_reviews` with the version and the event each row came from as history, `drills`
`grammar_drill_attempts`. Of the clients: `held` is the version of each card a study session
goes by, `rated` its ratings, `late` the review requests on their way that no session waits
for. `adding` and `scoring` are requests between two of their statements. Stability is kept in
ten-thousandths of a day, as its column is, and the scheduler (`Schedule`, `ScheduledDays`) is
the arithmetic of `fsrs.ts` in integers.

Actions. `Lookup` and `Insert` are banking, mining and corpus start: they look for a live card
and insert in another statement, and the unique index has the last word; `Seed` and `HanjaCard`
are ON CONFLICT DO NOTHING; `Remove` and `Clear` delete. `ApplyCardReview` is
`cardReview.ts`, reached by the awaited request (`Answer`) or by one given up (`LateReview`).
`Open`, `Rate`, `Deliver`, `GiveUp`, `Retry`, `Restart` and `Leave` are the session of
`Review.tsx`, the cloze card and the hanja review. `Generate`, `BeginSubmit` and `Score` are
the grammar drill, which rates a card of its own in the transaction that scores the attempt.

| run | instance | shows |
|---|---|---|
| `cards_reviews` | 1 word, 1 hanja, 1 pattern, 2 card ids, 2 sessions, 2 ratings, 2 attempts, 2 requests, 3 versions, 3 grades | `OneHistory`, `ScheduleMatchesHistory`, `RatingsCountOnce`, `RemovedIsFrozen`, `IntervalNeverShrinks` |

Two ids are a removed card and its successor, or two racing inserts; two sessions and two
ratings a stale device, a repeated and a late request. In `MCCards` a behaviour adds, studies
or drills (`focus`): the three share no row but the fresh ids.

Proofs. `IInv` has a part for cards, one for ratings and one for drills. A card fits its log
(`CardsFit`) when the log rows form one chain, each starting where the one before ended and the
last ending at the row (`LinksFit`), the counters count it (`CountsFit`), and the wait is one the
stability bears out (`StateFits`): without the last, rounding could shorten a wait. A rating fits
(`RatingsFit`) when nobody has seen a version still to come (`NothingAhead`) and, above all, when
neither the session nor any request of a recorded rating knows a later version than the record's
(`LateIsStale`, `HeldIsStale`, `SentIsStale`): so the version guard refuses every repeat. A drill
fits (`DrillsFit`) when it is scored exactly if it has its one log row. All five properties of
the run and the types are proved, for any number of words, cards, sessions, ratings, attempts
and requests; `GradeNumbers`, `Bounds` and `Grows` are the arithmetic of the scheduler they rest on.

## MockExam

State. `attempts` is `topik_attempts` (`fresh` while it is completed within the grace window),
`responses` the graded answers of each submission, `sittings` the official exam screens with
their picks, `wire` the requests on their way, which may overtake each other, be lost, or be
carried out unheard, `saving` the PUT between its guard and its write under the advisory lock.
`mocks`, `takers`, `mail` and `grading` are the same of generated mocks, whose submission reads
the attempt and writes the score in two statements.

A paper is a test and section (`Exam`) at one of the two levels, which share their test numbers;
`TopikI` and `TopikII` say which tests have a paper of which level. Attempts are looked up as in the
code by test and section alone (`IsOf`); a grade stamps its level on the attempt it closes. Picks
carry the question's own paper, since the client keeps them by question id.

Actions. `StartSection`, `Resume`, `Answer`, `Autosave`, `Submit`, `SubmitFails`, `Leave` .. are the
screens of `MockMode.tsx`; `PutBegins`, `PutWrites`, the submission with its transaction and the
mop-up DELETE those of `topik.ts`; `InsertMock`, `Progress`, `GradeReads`, `GradeWrites` and
the rest the generated mocks. `Resume` opens the paper that is served of a test and section when no
level is named (`Served`: the higher one), not the one that was left (Divergences), with the saved
picks; `OnPaper` is the grading, which ignores picks of other questions.

| run | instance | shows |
|---|---|---|
| `exam_sittings` | 2 tests, one of both levels, 2 sittings, 2 attempts, 1 item, 2 choices; 2 mocks, 2 screens; 2 requests on their way | `ExamTypeOK`, `GradedIsNotOffered`, `ResultsAreGraded`, `MocksAddUp`, `HistoryIsFinal` |

Two sittings race for the one active attempt, of the same paper, of the two levels of a test, or of
different tests. In `MCMockExam` a behaviour takes official papers or generated mocks (`focus`),
which share no table. Of official papers a question is picked or it is not (`OnePick`), and one of
two sittings is of the paper that is served of the first test (`OneServed`); two choices tell the
picks of two saves of a mock apart. That results fit is `GradedAsSubmitted`: a completed attempt is
of the paper its submission's screen showed, whatever level it was saved with, and has that screen's
answers to that paper. `SlowSaves = FALSE`: a save that is on its way
for longer than the grace window (15 s, `topik.ts:1270`) does bring a graded sitting back, as the
comment there (1248) accepts.

Proofs. They share the module `Exams_proofs` with those about `Diagnostic`; neither part cites the
other, and the definitions of `MockExam` are named apart for it (`ExamSpec`, `ExamTypeOK`).
`ExamIInv` adds that a request is of a sitting under way, of its paper, and if a submission has
its final picks (`RequestsAreOfSittings`, `ActiveIsOfSitting`, `GradedIsOver`); that the PUT at
work holds the lock (`SavingIsLocked`), so that no submission comes between its guard and its
write and no test and section is active within its grace window (`GraceHolds`); that every screen in
use has a paper (`SittingsHavePaper`); that without slow saves a
graded sitting's late save meets that window (`SavesMeetGrace`); and of generated mocks that a
request whose answer a screen awaits carries all its picks (`AwaitedHasPicks`). The steps of
official papers and of generated mocks change disjoint halves of it. Proved: types and every
property of `exam_sittings`; `GradedIsNotOffered` needs `SlowSaves = FALSE`, nothing else does.

## Diagnostic

State. One run: `status`, the rows `served` and `answered`, the steps the estimates took
(`ability`), who may grade a row (`claim`, `lapsed` once older than its time to live), the
`snapshot`, and the requests, each with its program counter and what it has read. What a step
does to the estimate is left out; which answer it is of and how long it is by its number is
kept.

Actions. `Start`; `AnswerReads`, `ClaimGrade`, `Graded`, `GradeFails`, `Release`,
`AnswerCommits`; `NextReadsRun`, `NextReadsPending`, `NextReadsMax`, `NextServes`;
`FinishReadsRun`, `FinishCounts`, `FinishReadsRows`, `FinishCommits`: the statements of the four
routes. `Fails` is any error, `Stop` the end of the server with all its requests, `Lapse` time.
The screen is any sequence of requests, repeated or abandoned.

| run | instance | shows |
|---|---|---|
| `diag_overlap` | 3 items, 1 of them hanja, 1 graded by a model call, 3 requests at once | `AnswersCountOnce`, `LadderIsBacked`, `FinishedIsFrozen`, `ClaimHeals` |
| `diag_two_pending` | the same | that at most one item is in flight fails (Divergences) |

Three requests are two that race and one that finishes under them; three items leave one after
the first race. Fairness: a request at work goes on, fails or dies (weak fairness of its steps), and
the time of a claim passes that no request is at any more (`Abandoned`); no client need ask again.
A claim may also lapse under a request that still grades, at any time (`MayLapse`): its time to live
is computed without the retries that the SDK makes within each attempt. What holds nevertheless is
`AnswersCountOnce`: nothing is counted twice, and a writing answer is recorded only with its grade.

Proofs. `IInv` adds that requests are about rows there are (`RequestsHaveItems`), that the
steps are as many as the answers that count (`LengthIsCount`), that who comes to record a writing
answer without a grade finds it answered (`UngradedIsLate`), and that what a
finishing request has read stays part of what is true (`SeenIsBacked`), since rows are never
unanswered again. Proved: types and every safety property. Model-checked only: `ClaimHeals`.

## ModelCalls

State. `calls` with their program counter, the requests each was billed for (`billed`), the answers
it got (`answers`) and what its caller got of it (`given`), `cache` (an answer that fits the present schema, one
that does not, one expired), `spent`, what the day's rows sum to, and per process the `memo` of
that sum and the `tokens` of the bucket. A usage row costs one unit.

Actions. `UseMemo`, `SumTables`, `SumFails`, `KeepSum` are the spend gate, `LookUp` the cache,
`Limit` the bucket, `Drafts`, `Answered`, `Erred`, `Wakes` the model behind `withRetry`, `Parse`, `Put`,
`Record`, `RecordFails` what is done with an answer, each of which can fail on its own. The SDK makes
up to `SdkTries` requests of one attempt, and each may have been answered and billed before its
answer was lost: so an attempt that errs is billed for none up to all of them, and one that is
answered for at least one. `kind` tells JSON routes from streams: both look up the cache, but a
stream is not retried by `withRetry`, hands the raw text to its caller before it is parsed
(`Drafts`), and gives its answer before it is cached and recorded.
`Restart`, `MemoLapses`, `Refill`, `Expire`, `EvictExpired`, `OtherSpending` and `Midnight` are
the rest of the world.

| run | instance | shows |
|---|---|---|
| `calls_ceiling` | 2 processes, 2 calls, 1 key, 1 retry, 2 requests per attempt, ceiling 1 of 2, 2 days | `OneFittingAnswer`, `ShutStaysShut`, `CallsEnd` |

In `MCModelCalls` a behaviour lets either the cache age, with calls of both kinds in one
process, or the money be spent, with two (`focus`): the ceiling looks neither at the cache nor
at the bucket, nor at what is billed without an answer, so there a call is billed once at most
(`BilledOnce`). Fairness: a call at work goes on (weak fairness of its steps): the retries are
bounded and every wait has an end.

That the day's spending stays below the ceiling is not claimed: calls that passed before it was
reached go on, each process trusts its memo for its time to live, past midnight too, and a sum
that was read earlier may replace a later one. `ShutStaysShut` is what remains true: once no memo
and no sum on its way is from before, no call passes unless the tables cannot be summed, which
lets calls through by design.

Proofs. `IInv` adds that a call at work belongs to a process and a key (`CallsBelong`), that a
call is billed for the attempts it has made at most, one of a stream (`BilledSoFar`), and that only what was parsed is put
and recorded (`ParsedFits`). Proved: types and both safety properties. Model-checked only:
`CallsEnd`.

## Migrate and BlueGreen

`Migrate` is `db/migrate.py up` by several runners at once, since nothing but the key of
`schema_migrations` keeps them apart: `ReadRecords` makes the plan, `ApplyOne` commits a version
with its record, `RunFails` is an error. `Destructive` are the versions its gate refuses: SQL that
drops or empties tables, or files marked so. `recorded` are the records, `inEffect` counts how often
the body of a version took effect.

`BlueGreen` extends it with its own variables and composes both: `env` and `tag` are `.env`,
`conf` is `nginx.conf`, `lb` what km-lb has loaded, `queues` the active-colour file, `up` the
build each colour runs, `script` the script at work, `settled` whether the last one that touched
the routes came to its end. `Deploy*` are the steps of `azure-deploy-inactive.sh`, which starts
runners of `Migrate` (a dry run, then the run); `Switch*` those of
`azure-switch-production.sh` with its undoing, `Writes` and `Recreates` being
`update_nginx_config`; `Rebuild*` those of `rebuild-environment.sh`. Starting a
colour may fail and leave it down (`ComposeFails`). `ScriptDies` stops a script
after any step, while the runner it started goes on; `BalancerRestarts` is km-lb restarted by
its container runtime. One script runs at a time: no lock in the code makes it so, an operator
does.

| run | instance | shows |
|---|---|---|
| `release_releases` | releases 1, 3 and 4 (of two migrations, and of one that the gate refuses), 2 runners | `AppliedAsListed`, `ServesItsSchema`, `RoutesAgree`, `ProductionIsSpared` |

Three releases are what serves, what is staged, and one to stage over it; a release of two
migrations can fail between them; two runners are one that a dead deploy left and the next.

`ServesItsSchema` says that what serves finds the versions it ships, and that the scripts never bring
a refused version into effect. It does not say that old code survives every newer version: the gate
cannot tell, and `Breaking`, which only `OldCodeSurvives` looks at, has the ones it does not (Divergences).

Proofs. `IInv` adds to `Migrate` that what a plan leaves out is recorded (`PlansHold`), and to
`BlueGreen` what a script has checked and still relies on after others acted (`DeployKnows`,
`SwitchKnows`, `RebuildKnows`), that everything that runs or is tagged has its versions applied
(`BuildsAreApplied`), and that who recreates km-lb has unsettled the routes first
(`RecreatesUnsettled`). Proved: types and every property of the run.

## Transcription

State. `jobs` and `tracks` are the two tables that say how far a track is (`text` is the job
whose run wrote its segments), `blobs` the files, `requests` the uploads between their count and
their commit, `workers` what each worker is doing with what its claim returned.

Actions. The upload route counts under an advisory lock and inserts; the loader queues corpus
tracks one transaction each; `DeleteTrack` removes a track while its job may be at work. A worker
reaps, claims with SKIP LOCKED, marks the track, transcribes outside any transaction, persists
and settles in one, and on a failure settles the job and then the track. `Crash` stops it
anywhere; a lost COMMIT answer leads to the failure path; with `Swallows` a bookkeeping write may
fail unnoticed. `GoesStale` is time. The deadlock that a persist and a reap can run into
(job and track are locked in opposite orders) ends with one of the two rolled back, which is a
failure of it.

| run | instance | shows |
|---|---|---|
| `audio_queue` | 2 workers, 2 uploads, 1 corpus file, 2 jobs, 1 crash, cap 1 | `TranscriptIsBacked`, `CapSurvivesDeletion`, `JobsGoForward`, `TranscriptIsKept`, `JobsEnd` |

Two jobs are a reaped and a second one of one track; the cap of one is raced for by two uploads.
The model spans one day of the cap, so no job is old enough for retention. The bytes cap is left
out: it is summed with the count cap in the same statement under the same lock. Fairness: the
worker loop survives every error and its container is restarted, and time passes (weak fairness
of a worker's steps and of `GoesStale`).

Proofs. `IInv` adds that a worker at work holds a job and, for the cap, that one upload is
admitted at a time and still has room (`OneAdmitted`, `AdmittedHasRoom`). Proved: types and every
safety property. Model-checked only: `JobsEnd`.

## Divergences

Where the code does what one of its comments says it does not. The first is checked by a run of
the project, `diag_two_pending`; the others can be seen with the configuration named, or in the
model.

- Diagnostic (`OneItemInFlight`): `POST /:runId/next` reads the pending item and the highest
  ordinal in two statements (`routes/diagnostic.ts:2507`, `:2518`), so two requests can leave two
  items in flight; 2483-2485 says a race never can. Nothing is counted twice because of it.
- Diagnostic (`MCDiagnostic_two_grades.cfg`, `OneGradeAtATime`): a writing claim's time to live (`routes/diagnostic.ts:2017`,
  `claude/index.ts:241-246`) counts the attempts of `withRetry` and not the SDK's retries in each, so
  it can lapse under a live grading, and a failing request takes off whatever claim is there
  (2061-2068); 2115-2116 says a duplicate never spends a model call.
- Book: the reaper's late `UPDATE` sets `raw_blob_ref` to NULL without a guard
  (`bookIngestRunner.ts:297`) and erases that of a row re-submitted meanwhile; 332-334 says that
  a pending row without one is not a runtime state. The page clear of an idle colour's reaper (294) names only the
  upload and deletes pages of a later run of the same row; 62-64 calls it harmless everywhere.
  Two POSTs of different new titles both pass the daily cap; `bookUploadIngest.ts:319-323` claims
  they cannot. A failed row keeps partial pages or its raw file if the cleanup after the settle
  fails; with the colour file unreadable a failed run's clear can hit a later run too.
- Story: after a COMMIT whose acknowledgement is lost both runners take the failure path, which
  deletes the files the committed rows name (`storyAudio.ts:598`, `storyImage.ts:364`), although
  518-520 and 591 of the former say such files survive. With `LostAcks = TRUE` the run
  `story_images` finds it. A persist that commits between the two checks of an enqueue lets it
  queue, and pay for, a job of a story that has its result.
- Extraction (`MCExtraction_resume.cfg`): a range may end past the pages that exist and is where
  the next one resumes (`uploadExtract.ts:495`), so a run on a book still being decoded makes
  later default runs skip pages; 20-22 says a book is worked through slice by slice.
- Exam (`MCMockExam_resume.cfg`, `AnswersAreToThePaper`): resuming sends the test and section without
  the level (`MockMode.tsx:497`), so an attempt at TOPIK I opens TOPIK II with picks of other
  questions; `topik.ts:1839-1841` says resume re-fetches the identical paper. A submission closes the
  active attempt of its test and section also when that is of the other level (`topik.ts:2127-2134`),
  although 2112-2113 says only the same paper's is.
- Exam (`MCMockExam_mop_up.cfg`): the mop-up after grading abandons whatever attempt is active
  (`MockMode.tsx:627`), also of another paper; `topik.ts:2112-2113` says that one stays resumable.
- Model calls (`MCModelCalls_unrecorded.cfg`): an answer that fails its schema is paid for and
  writes no usage row (`claude/index.ts:1412`); `usage.ts:4` says every call ends with one. Neither
  do attempts that were billed and lost. `claude/retry.ts:4-7` has its own retries instead of the
  SDK's, but the client is built without `maxRetries: 0` (`claude/client.ts:178-182`), so both happen.
- Releases (`MCBlueGreen_stale_build.cfg`): the image tag is recorded before the containers start
  (`azure-deploy-inactive.sh:176`), so a switch after a failed start promotes the build that ran
  before, which the guard described at `azure-switch-production.sh:68-69` is to prevent.
  (`MCBlueGreen_stale_queues.cfg`): a stop between `.env` and the active-colour file
  (`azure-switch-production.sh:116`) leaves the queues with the other colour, through a rebuild
  too; `deployment-utils.sh:281-282` says the two are kept in sync. `check-active-env.sh` reads
  `nginx.conf` in the container, not what km-lb has loaded, though `deployment-utils.sh:320-321`
  says it reflects what is live. So after an undoing that fails to recreate km-lb, a deploy takes
  the colour that serves for the idle one and rebuilds it (`MCBlueGreen_untouched.cfg`,
  `DeployNeverTouches`); `Deploy/README.md:108` says production is untouched the whole time.
  (`MCBlueGreen_old_code.cfg`, `OldCodeSurvives`): the dry run refuses SQL that loses data
  (`db/migrate.py:81-93`) and nothing else; `azure-deploy-inactive.sh:12-17` calls it the gate against
  non-additive migrations, and `Deploy/README.md:137-147` tells of one, 046, that passes it and breaks
  the serving code.
- Transcription (`MCTranscription_ledgers.cfg`): a worker that dies between its claim and its
  'running' write leaves the track 'pending' for ever (`tools/audio_stt/worker.py:166`);
  136 and 141-142 say that both ledgers settle together. A late failing worker, or one whose
  COMMIT answer was lost, marks a track failed that another run has finished (383-391).

## What the proofs assume

Only the `ASSUME` of each module: bounds are naturals, the values that stand for "none" differ
from the others, jobs, runs, uploads and events are finitely many where they are counted,
`SdkTries` and the ceiling are positive, releases and breaking versions are versions,
`MAX_EXTRACT_PAGES_PER_RUN` is positive and `DEFAULT_EXTRACT_PAGES` lies within it, hanja and
writing items are items. Two theorems add a hypothesis of their own, because the property is
false without it: `NotOfferedAgain` needs `SlowSaves = FALSE` and `ReadyBooksAreWhole` needs a
single process. A third condition is part of the property itself: `ShownIsBacked` claims the
files of shown results only when `LostAcks = FALSE`. Each is a setting of a passing run that
checks the property.

Each proof module first proves the initial states and one lemma per
action or group of actions, then the theorems from `IInv`. Where rows are many and a step
touches one, the invariant is said of one row by an operator of its own, and one lemma shows that
changing a row that still satisfies it is enough. Liveness under fairness is beyond the prover and
is model-checked only.

## Not modelled

- Accounts: registration, sessions, tokens and second factor. Each of their operations is one
  guarded statement or one transaction whose first statement locks the row that decides, and the
  two hazards listed for them rest on that row lock alone.
- Notification deliveries: `claimDelivery` and `settleDelivery` have no caller.
- Image capture: its count-then-insert and blob-before-row are those of the book pipeline.
- Within the modelled parts: decoding of zip and PDF files, text segmentation, voices, prompts,
  curation of OCR words, item selection and the arithmetic of ability estimates, prices, checksums
  and `down` of migrations, backups, the operator's bulk scripts.
- The rest of the server is single-statement reads and writes; the client's other pages, kiwi and
  the corpus tools keep no shared state. `PROJECT.json` lists all of it with the reason.
