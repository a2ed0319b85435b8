----------------------------- MODULE StoryJobs -----------------------------
(***************************************************************************)
(* The story job queues: narration (story_audio_jobs, one mp3 per story)   *)
(* and illustration (story_image_jobs, two to four images per story) have  *)
(* the same routes, runner and table shapes, so one module models either;  *)
(* Scenes says how many files a complete result may have.                  *)
(*                                                                         *)
(* A route enqueues a job under a per-user advisory lock; the runner of    *)
(* some server process claims it, generates the files outside any          *)
(* transaction, and in one transaction inserts the result rows and settles *)
(* the job; every process's runner also reaps jobs presumed dead.          *)
(***************************************************************************)
EXTENDS Naturals, FiniteSets

CONSTANTS
  Process,     \* server processes, one per deploy colour
  Story,       \* generated_stories ids of one user
  Job,         \* job ids, never reused
  Request,     \* enqueue transactions that may be open at once        (bound)
  Scenes,      \* possible numbers of files of a complete result
  DailyCap,    \* STORY_TTS_DAILY_CAP or STORY_IMAGE_DAILY_CAP
  MaxDay,      \* days                                                 (bound)
  SlowRuns,    \* may a live run outlast the stale threshold?
  LostAcks,    \* may a connection break after its COMMIT took effect?
  Unreadable,  \* the active-colour file is missing, unreadable or empty
  Colours,     \* what the active-colour file holds over time
  NoJob, NoStory

ASSUME StoryJobsAssumption ==
  /\ Scenes \subseteq Nat \ {0} /\ IsFiniteSet(Scenes)
  /\ DailyCap \in Nat /\ MaxDay \in Nat
  /\ SlowRuns \in BOOLEAN /\ LostAcks \in BOOLEAN
  /\ NoJob \notin Job /\ NoStory \notin Story
  /\ IsFiniteSet(Job)

VARIABLES
  stories,      \* generated_stories rows
  jobs,         \* job rows
  shown,        \* result rows of each story: an audio track, or images
  disk,         \* files in the blob store
  req,          \* enqueue transactions
  run,          \* each process's runner tick
  activeColor,  \* content of ACTIVE_COLOR_FILE
  today         \* the database's current day

vars == <<stories, jobs, shown, disk, req, run, activeColor, today>>
envVars == <<activeColor, today>>

---------------------------------------------------------------------------
(* A file and its result row: the k-th file (track or image_number) some   *)
(* job's run generated.                                                    *)
File == [job : Job, no : Nat \ {0}]
Files(j, n) == {[job |-> j, no |-> k] : k \in 1..n}
Results == {Files(j, n) : j \in Job, n \in Scenes}

(* A job row.  stale: started_at is older than the stale threshold.        *)
JobStatus == {"none", "pending", "running", "done", "failed", "gone"}
JobRow == [status : JobStatus, story : Story \cup {NoStory},
           day : 0..MaxDay, stale : BOOLEAN]
NoRow == [status |-> "none", story |-> NoStory, day |-> 0, stale |-> FALSE]

Live == {"pending", "running"}
LiveJob(s) == \E j \in Job : jobs[j].story = s /\ jobs[j].status \in Live
Running(j) == jobs[j].status = "running"

(* An enqueue transaction: begun (day fixed by now()), locked and past the *)
(* check for a result, past the check for a live job, under the daily cap. *)
ReqState == {"idle", "begun", "unshown", "clear", "counted"}
Locked == {"unshown", "clear", "counted"}
Req == [pc : ReqState, story : Story \cup {NoStory}, day : 0..MaxDay]
NoReq == [pc |-> "idle", story |-> NoStory, day |-> 0]

(* A runner tick: where it is, its claimed job, files generated so far.    *)
RunState == {"off", "tick", "gate", "claim", "ceiling", "generate",
             "cleanup", "settle"}
Run == [pc : RunState, job : Job \cup {NoJob}, n : Nat]
At(pc) == [pc |-> pc, job |-> NoJob, n |-> 0]
Working == {"ceiling", "generate", "cleanup", "settle"}

TypeOK ==
  /\ stories \subseteq Story
  /\ jobs \in [Job -> JobRow]
  /\ shown \in [Story -> SUBSET File]
  /\ disk \subseteq File
  /\ req \in [Request -> Req]
  /\ run \in [Process -> Run]
  /\ activeColor \in Colours
  /\ today \in 0..MaxDay

Init ==
  /\ stories = {}
  /\ jobs = [j \in Job |-> NoRow]
  /\ shown = [s \in Story |-> {}]
  /\ disk = {}
  /\ req = [q \in Request |-> NoReq]
  /\ run = [p \in Process |-> At("tick")]
  /\ activeColor \in Colours
  /\ today = 0

---------------------------------------------------------------------------
(* Stories                                                                 *)

(* POST /generate inserts a story.                                         *)
CreateStory(s) ==
  /\ s \in Story \ stories
  /\ stories' = stories \cup {s}
  /\ UNCHANGED <<jobs, shown, disk, req, run, envVars>>

(* POST /generated/:id/clone copies the story and its result rows, which   *)
(* name the same files; no job is queued.                                  *)
CloneStory(s, t) ==
  /\ s \in stories /\ t \in Story \ stories
  /\ stories' = stories \cup {t}
  /\ shown' = [shown EXCEPT ![t] = shown[s]]
  /\ UNCHANGED <<jobs, disk, req, run, envVars>>

---------------------------------------------------------------------------
(* enqueueStoryAudio, enqueueStoryImages: one READ COMMITTED transaction,  *)
(* each of whose statements sees what was committed before it.             *)

SetReq(q, r) == req' = [req EXCEPT ![q] = r]
ReqGoto(q, pc) == req' = [req EXCEPT ![q].pc = pc]

BeginEnqueue(q, s) ==
  /\ req[q].pc = "idle" /\ s \in stories
  /\ SetReq(q, [pc |-> "begun", story |-> s, day |-> today])
  /\ UNCHANGED <<stories, jobs, shown, disk, run, envVars>>

(* Mutant: no advisory lock.                                               *)
NeverHeld == FALSE

(* The advisory lock, then the check for an existing result.               *)
LockHeld == \E q \in Request : req[q].pc \in Locked
CheckShown(q) ==
  /\ req[q].pc = "begun" /\ ~LockHeld
  /\ IF shown[req[q].story] = {} THEN ReqGoto(q, "unshown") ELSE SetReq(q, NoReq)
  /\ UNCHANGED <<stories, jobs, shown, disk, run, envVars>>

(* The check for a live job; an unconfigured provider refuses too.         *)
CheckLive(q) ==
  /\ req[q].pc = "unshown"
  /\ \/ ~LiveJob(req[q].story) /\ ReqGoto(q, "clear")
     \/ SetReq(q, NoReq)
  /\ UNCHANGED <<stories, jobs, shown, disk, run, envVars>>

(* The daily cap: jobs created since the transaction's day began.          *)
OfDay(d) == {j \in Job : jobs[j].status \notin {"none", "gone"} /\ jobs[j].day >= d}
CheckCap(q) ==
  /\ req[q].pc = "clear"
  /\ IF Cardinality(OfDay(req[q].day)) < DailyCap
       THEN ReqGoto(q, "counted") ELSE SetReq(q, NoReq)
  /\ UNCHANGED <<stories, jobs, shown, disk, run, envVars>>

(* The INSERT and the COMMIT; breaking the unique index on live jobs       *)
(* throws.                                                                 *)
InsertJob(q) ==
  /\ req[q].pc = "counted" /\ ~LiveJob(req[q].story)
  /\ \E j \in Job :
       /\ jobs[j].status = "none"
       /\ jobs' = [jobs EXCEPT ![j] =
            [status |-> "pending", story |-> req[q].story,
             day |-> req[q].day, stale |-> FALSE]]
  /\ SetReq(q, NoReq)
  /\ UNCHANGED <<stories, shown, disk, run, envVars>>

(* The user's list of stories deletes jobs finished 30 days ago; by then   *)
(* no request or run of that time is alive.                                *)
SweepJob(j) ==
  /\ jobs[j].status \in {"done", "failed"} /\ jobs[j].day < today
  /\ \A q \in Request : req[q].pc # "idle" => req[q].day = today
  /\ \A p \in Process : run[p].job # j
  /\ jobs' = [jobs EXCEPT ![j].status = "gone"]
  /\ UNCHANGED <<stories, shown, disk, req, run, envVars>>

---------------------------------------------------------------------------
(* The runner: runStoryAudioTick, runStoryImageTick.                       *)

SetRun(p, r) == run' = [run EXCEPT ![p] = r]
Goto(p, pc) == SetRun(p, [run[p] EXCEPT !.pc = pc])

(* Mutant: the reaper looks for the wrong status.                          *)
StalePending == {j \in Job : jobs[j].status = "pending" /\ jobs[j].stale}

(* Fail every running job older than the stale threshold.                  *)
StaleJobs == {j \in Job : Running(j) /\ jobs[j].stale}
ReapStale(p) ==
  /\ run[p].pc = "tick"
  /\ jobs' = [j \in Job |->
       IF j \in StaleJobs THEN [jobs[j] EXCEPT !.status = "failed"] ELSE jobs[j]]
  /\ Goto(p, "gate")
  /\ UNCHANGED <<stories, shown, disk, req, envVars>>

(* Only the active colour goes on to claim; an unreadable file lets both.  *)
CheckActiveColor(p) ==
  /\ run[p].pc = "gate"
  /\ Goto(p, IF activeColor \in {p, Unreadable} THEN "claim" ELSE "tick")
  /\ UNCHANGED <<stories, jobs, shown, disk, req, envVars>>

(* Mutant: a running job is claimed again.                                 *)
Unsettled == {j \in Job : jobs[j].status \in Live}
Claimable == {j \in Job : jobs[j].status = "pending"}
ClaimPending(p) ==
  /\ run[p].pc = "claim"
  /\ \/ /\ Claimable = {}
        /\ SetRun(p, At("tick"))
        /\ UNCHANGED jobs
     \/ \E j \in Claimable :
          /\ jobs' = [jobs EXCEPT ![j] = [@ EXCEPT !.status = "running"]]
          /\ SetRun(p, [pc |-> "ceiling", job |-> j, n |-> 0])
  /\ UNCHANGED <<stories, shown, disk, req, envVars>>

(* assertUnderSpendCeiling: under, exceeded, or it fails otherwise and the *)
(* tick ends with the job still running.                                   *)
CheckCeiling(p) ==
  /\ run[p].pc = "ceiling"
  /\ \/ Goto(p, "generate")
     \/ Goto(p, "settle")
     \/ SetRun(p, At("tick"))
  /\ UNCHANGED <<stories, jobs, shown, disk, req, envVars>>

(* The provider answers and the file is written under a fresh UUID.        *)
NextFile(p) == [job |-> run[p].job, no |-> run[p].n + 1]
SaveBlob(p) ==
  /\ run[p].pc = "generate" /\ \E n \in Scenes : run[p].n < n
  /\ disk' = disk \cup {NextFile(p)}
  /\ SetRun(p, [run[p] EXCEPT !.n = run[p].n + 1])
  /\ UNCHANGED <<stories, jobs, shown, req, envVars>>

(* The provider, a write or the transaction fails.                         *)
Throw(p) ==
  /\ run[p].pc = "generate"
  /\ Goto(p, "cleanup")
  /\ UNCHANGED <<stories, jobs, shown, disk, req, envVars>>

(* Mutant: a part of the files will do.                                    *)
AnyFile(p) == run[p].n > 0
(* Mutant: the settle has no status guard.                                 *)
Unguarded(j) == TRUE

(* One transaction: the result rows, under their unique key, and the       *)
(* settle, under its status guard; either failing rolls both back.  After  *)
(* a lost acknowledgement the runner takes its failure path.               *)
AllFiles(p) == run[p].n \in Scenes
SettledOne(j) == Running(j)
Persist(p) ==
  LET j == run[p].job
      s == jobs[j].story
  IN
  /\ run[p].pc = "generate" /\ AllFiles(p)
  /\ shown[s] = {} /\ SettledOne(j)
  /\ shown' = [shown EXCEPT ![s] = Files(j, run[p].n)]
  /\ jobs' = [jobs EXCEPT ![j] =
       IF Running(j) THEN [@ EXCEPT !.status = "done"] ELSE @]
  /\ \/ SetRun(p, At("tick"))
     \/ LostAcks /\ Goto(p, "cleanup")
  /\ UNCHANGED <<stories, disk, req, envVars>>

(* The failure path unlinks the run's files (one that fails to go stays    *)
(* behind, as after a crash), then settles the job.                        *)
WrittenFiles(p) == Files(run[p].job, run[p].n)
CleanupBlobs(p) ==
  /\ run[p].pc = "cleanup"
  /\ disk' = disk \ WrittenFiles(p)
  /\ Goto(p, "settle")
  /\ UNCHANGED <<stories, jobs, shown, req, envVars>>

(* settleFailed: under the status guard; its own failure ends the tick.    *)
SettleFailed(p) ==
  LET j == run[p].job IN
  /\ run[p].pc = "settle"
  /\ SetRun(p, At("tick"))
  /\ \/ /\ Running(j)
        /\ jobs' = [jobs EXCEPT ![j] = [@ EXCEPT !.status = "failed"]]
     \/ UNCHANGED jobs
  /\ UNCHANGED <<stories, shown, disk, req, envVars>>

---------------------------------------------------------------------------
(* Environment                                                             *)

Crash(p) ==
  /\ run[p].pc # "off"
  /\ SetRun(p, At("off"))
  /\ UNCHANGED <<stories, jobs, shown, disk, req, envVars>>

Restart(p) ==
  /\ run[p].pc = "off"
  /\ SetRun(p, At("tick"))
  /\ UNCHANGED <<stories, jobs, shown, disk, req, envVars>>

(* An enqueue transaction fails or its process dies: it rolls back.        *)
AbortEnqueue(q) ==
  /\ req[q].pc # "idle"
  /\ SetReq(q, NoReq)
  /\ UNCHANGED <<stories, jobs, shown, disk, run, envVars>>

(* A running job passes the stale threshold.  Without SlowRuns only one    *)
(* whose run is over can.                                                  *)
Age(j) ==
  /\ Running(j) /\ ~jobs[j].stale
  /\ SlowRuns \/ \A p \in Process : run[p].job # j
  /\ jobs' = [jobs EXCEPT ![j].stale = TRUE]
  /\ UNCHANGED <<stories, shown, disk, req, run, envVars>>

Flip(c) ==
  /\ activeColor # c
  /\ activeColor' = c
  /\ UNCHANGED <<stories, jobs, shown, disk, req, run, today>>

Midnight ==
  /\ today < MaxDay
  /\ today' = today + 1
  /\ UNCHANGED <<stories, jobs, shown, disk, req, run, activeColor>>

Tick(p) ==
  \/ ReapStale(p) \/ CheckActiveColor(p) \/ ClaimPending(p)
  \/ CheckCeiling(p) \/ SaveBlob(p) \/ Throw(p) \/ Persist(p)
  \/ CleanupBlobs(p) \/ SettleFailed(p)

Enqueue(q) ==
  \/ \E s \in Story : BeginEnqueue(q, s)
  \/ CheckShown(q) \/ CheckLive(q) \/ CheckCap(q) \/ InsertJob(q) \/ AbortEnqueue(q)

Adds ==
  \/ \E s \in Story : CreateStory(s) \/ \E t \in Story : CloneStory(s, t)
  \/ \E q \in Request : Enqueue(q)

Goes ==
  \/ \E j \in Job : SweepJob(j) \/ Age(j)
  \/ \E p \in Process : Tick(p) \/ Crash(p) \/ Restart(p)
  \/ \E c \in Colours : Flip(c)
  \/ Midnight

Next == Adds \/ Goes

Spec == Init /\ [][Next]_vars

(* Fairness.  A live process keeps polling and a dead one is restarted;    *)
(* time passes; crashes do not hit every single attempt to reap, to check  *)
(* the colour or to claim.  Nothing is asked of users, of deploys or of a  *)
(* run that fails.                                                         *)
Fairness ==
  /\ \A p \in Process :
       /\ WF_vars(Tick(p)) /\ WF_vars(Restart(p))
       /\ SF_vars(ReapStale(p)) /\ SF_vars(CheckActiveColor(p))
       /\ SF_vars(ClaimPending(p))
  /\ \A j \in Job : WF_vars(Age(j))

FairSpec == Spec /\ Fairness

---------------------------------------------------------------------------
(* Safety                                                                  *)

(* The promise to the reader, in the abstract.                             *)
LiveStories == {s \in Story : \E j \in Job :
  jobs[j].story = s /\ jobs[j].status \in {"pending", "running"}}
Promise == INSTANCE StoryResults WITH live <- LiveStories, Result <- Results

(* A story's result appears whole, once, and stays; at most one job of a   *)
(* story is unsettled; clones show what their source showed: whatever the  *)
(* runners, reapers, retries and crashes do.                               *)
KeepsPromise == Promise!Spec

(* Two enqueues of one story never leave it two unsettled jobs, although   *)
(* each finds none.                                                        *)
OneLiveJob ==
  \A i, j \in Job :
    jobs[i].status \in {"pending", "running"}
      /\ jobs[j].status \in {"pending", "running"}
      /\ jobs[i].story = jobs[j].story => i = j

(* Only a job settled done has result rows: a reaped, failed or retried    *)
(* run leaves nothing on show.                                             *)
ShownByDoneJobs ==
  \A s \in Story : \A f \in shown[s] : jobs[f.job].status \in {"done", "gone"}

(* A job is paid for by at most one run, although both colours may claim.  *)
OneRunPerJob ==
  \A p, q \in Process :
    run[p].job = run[q].job /\ run[p].job # NoJob => p = q

(* A story is worked on once at a time: one unsettled job, one run of it.  *)
OneJobOneRun == OneLiveJob /\ OneRunPerJob

(* Concurrent enqueues do not exceed the cap of any day, midnight included.*)
CreatedOn(d) == {j \in Job : jobs[j].status \notin {"none", "gone"} /\ jobs[j].day = d}
WithinDailyCap == \A d \in 0..MaxDay : Cardinality(CreatedOn(d)) <= DailyCap

(* "never commit a row pointing at missing bytes": every file a story or a *)
(* clone shows is on disk.  Holds as long as no acknowledgement is lost.   *)
ShownBytesOnDisk == \A s \in Story : shown[s] \subseteq disk

(* What a story shows comes from a job settled done and has its bytes.     *)
ShownIsBacked == ShownByDoneJobs /\ (LostAcks \/ ShownBytesOnDisk)

---------------------------------------------------------------------------
(* The inductive invariant behind the safety properties.                   *)

(* A tick holds a job exactly while it works on one, and that job has been *)
(* claimed and belongs to a story.                                         *)
RunHoldsJob ==
  \A p \in Process :
    IF run[p].pc \in Working
      THEN run[p].job \in Job /\ jobs[run[p].job].status \notin {"none", "pending"}
      ELSE run[p].job = NoJob
JobHasStory == \A j \in Job : jobs[j].status # "none" => jobs[j].story \in stories
ReqHasStory == \A q \in Request : req[q].pc # "idle" => req[q].story \in stories

(* The advisory lock excludes, so a count that was under the cap still is. *)
OneLocked ==
  \A q, r \in Request : req[q].pc \in Locked /\ req[r].pc \in Locked => q = r
CountedIsUnderCap ==
  \A q \in Request : req[q].pc = "counted" =>
    Cardinality(CreatedOn(req[q].day)) < DailyCap

(* Files about to be shown are on disk; files about to be unlinked are not *)
(* shown, unless an acknowledgement was lost.                              *)
Generating == {"ceiling", "generate"}
WrittenOnDisk ==
  \A p \in Process : run[p].pc \in Generating => WrittenFiles(p) \subseteq disk
Unshowable == Generating \cup (IF LostAcks THEN {} ELSE {"cleanup"})
RunNotDone ==
  \A p \in Process :
    run[p].pc \in Unshowable => jobs[run[p].job].status \in {"running", "failed"}

IInv ==
  /\ TypeOK /\ RunHoldsJob /\ JobHasStory /\ ReqHasStory
  /\ OneLiveJob /\ OneRunPerJob /\ RunNotDone /\ ShownByDoneJobs
  /\ OneLocked /\ CountedIsUnderCap /\ WithinDailyCap
  /\ WrittenOnDisk /\ (~LostAcks => ShownBytesOnDisk)

---------------------------------------------------------------------------
(* Liveness                                                                *)

(* No story is stuck behind its live-job slot: a queued job is settled,    *)
(* however often processes crash, once the deploy stays on one colour.     *)
EveryJobSettles ==
  \A c \in Colours : <>[](activeColor = c) =>
    \A j \in Job :
      jobs[j].status \in {"pending", "running"} ~>
        jobs[j].status \in {"done", "failed", "gone"}
===========================================================================
