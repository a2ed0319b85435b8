-------------------------- MODULE StoryJobs_proofs --------------------------
(***************************************************************************)
(* Proofs about StoryJobs, for every number of processes, stories, jobs,   *)
(* concurrent enqueues and scenes, and every cap.                          *)
(***************************************************************************)
EXTENDS StoryJobs, FiniteSetTheorems, TLAPS

(* The parts of the invariant about rows, ticks and files, and those about *)
(* enqueue transactions and the cap.                                       *)
RowsHold ==
  /\ RunHoldsJob /\ JobHasStory /\ OneLiveJob /\ OneRunPerJob
  /\ RunNotDone /\ ShownByDoneJobs /\ WrittenOnDisk
  /\ (~LostAcks => ShownBytesOnDisk)
CapHolds ==
  ReqHasStory /\ OneLocked /\ CountedIsUnderCap /\ WithinDailyCap

(* Idle ticks and the files of a run are well typed.                       *)
LEMMA BasicTypes ==
  /\ \A pc \in RunState : At(pc) \in Run
  /\ \A j \in Job, n \in Nat : Files(j, n) \subseteq File
  /\ NoRow \in JobRow /\ NoReq \in Req
BY StoryJobsAssumption DEF At, Run, RunState, Files, File, NoRow, JobRow,
  JobStatus, NoReq, Req, ReqState

(* Enqueue transactions only move themselves; their steps keep the types.  *)
LEMMA EnqueueType ==
  ASSUME TypeOK, NEW q \in Request, Enqueue(q)
  PROVE  TypeOK'
<1>1. ASSUME NEW s \in Story, BeginEnqueue(q, s) PROVE TypeOK'
  <2>1. [pc |-> "begun", story |-> s, day |-> today] \in Req
    BY DEF TypeOK, Req, ReqState
  <2> QED BY <1>1, <2>1 DEF BeginEnqueue, SetReq, TypeOK, envVars
<1>2. ASSUME NEW pc \in ReqState, ReqGoto(q, pc) PROVE req' \in [Request -> Req]
  BY <1>2 DEF ReqGoto, TypeOK, Req
<1>3. ASSUME SetReq(q, NoReq) PROVE req' \in [Request -> Req]
  BY <1>3, BasicTypes DEF SetReq, TypeOK
<1>4. CASE CheckShown(q) \/ CheckLive(q) \/ CheckCap(q) \/ AbortEnqueue(q)
  <2>1. req' \in [Request -> Req]
    BY <1>2, <1>3, <1>4 DEF CheckShown, CheckLive, CheckCap, AbortEnqueue, ReqState
  <2>2. UNCHANGED <<stories, jobs, shown, disk, run, envVars>>
    BY <1>4 DEF CheckShown, CheckLive, CheckCap, AbortEnqueue
  <2> QED BY <2>1, <2>2 DEF TypeOK, envVars
<1>5. CASE InsertJob(q)
  <2>1. [status |-> "pending", story |-> req[q].story, day |-> req[q].day,
         stale |-> FALSE] \in JobRow
    BY DEF TypeOK, Req, JobRow, JobStatus
  <2> QED BY <1>3, <1>5, <2>1 DEF InsertJob, TypeOK, envVars
<1> QED BY <1>1, <1>4, <1>5 DEF Enqueue

(* A settle, reap, claim or sweep changes the status of one or more rows.  *)
LEMMA StatusType ==
  ASSUME TypeOK, NEW j \in Job, NEW s \in JobStatus
  PROVE  /\ [jobs[j] EXCEPT !.status = s] \in JobRow
         /\ [jobs[j] EXCEPT !.stale = TRUE] \in JobRow
BY DEF TypeOK, JobRow

LEMMA TickType ==
  ASSUME TypeOK, RunHoldsJob, NEW p \in Process, Tick(p) \/ Crash(p) \/ Restart(p)
  PROVE  TypeOK'
<1>0. run[p] \in Run /\ (run[p].pc \in Working => run[p].job \in Job)
  BY DEF TypeOK, RunHoldsJob
<1>a. ASSUME NEW pc \in RunState, Goto(p, pc) \/ SetRun(p, At(pc))
      PROVE  run' \in [Process -> Run]
  BY <1>a, <1>0, BasicTypes DEF Goto, SetRun, TypeOK, Run
<1>1. CASE ReapStale(p)
  <2>1. jobs' \in [Job -> JobRow]
    BY <1>1, StatusType DEF ReapStale, TypeOK, JobStatus
  <2> QED BY <1>1, <1>a, <2>1 DEF ReapStale, TypeOK, envVars, RunState
<1>2. CASE CheckActiveColor(p) \/ CheckCeiling(p) \/ Throw(p) \/ Crash(p) \/ Restart(p)
  <2>1. run' \in [Process -> Run]
    BY <1>2, <1>a DEF CheckActiveColor, CheckCeiling, Throw, Crash, Restart, RunState
  <2>2. UNCHANGED <<stories, jobs, shown, disk, req, envVars>>
    BY <1>2 DEF CheckActiveColor, CheckCeiling, Throw, Crash, Restart
  <2> QED BY <2>1, <2>2 DEF TypeOK, envVars
<1>3. CASE ClaimPending(p)
  <2>1. jobs' \in [Job -> JobRow]
    BY <1>3, StatusType DEF ClaimPending, Claimable, TypeOK, JobStatus
  <2>2. \A j \in Job : [pc |-> "ceiling", job |-> j, n |-> 0] \in Run
    BY DEF Run, RunState
  <2>3. run' \in [Process -> Run]
    BY <1>3, <1>a, <2>2 DEF ClaimPending, Claimable, SetRun, TypeOK, RunState
  <2> QED BY <1>3, <2>1, <2>3 DEF ClaimPending, TypeOK, envVars
<1>4. CASE SaveBlob(p)
  <2>1. NextFile(p) \in File
    BY <1>0, <1>4 DEF SaveBlob, NextFile, File, Run, Working
  <2>2. run' \in [Process -> Run]
    BY <1>0, <1>4 DEF SaveBlob, SetRun, TypeOK, Run
  <2> QED BY <1>4, <2>1, <2>2 DEF SaveBlob, TypeOK, envVars
<1>5. CASE Persist(p)
  <2> DEFINE j == run[p].job
  <2>1. j \in Job /\ Files(j, run[p].n) \subseteq File
    BY <1>0, <1>5, BasicTypes DEF Persist, Working, Run
  <2>2. jobs' \in [Job -> JobRow]
    BY <1>5, <2>1, StatusType DEF Persist, TypeOK, JobStatus
  <2>3. shown' \in [Story -> SUBSET File]
    BY <1>5, <2>1 DEF Persist, TypeOK
  <2> QED BY <1>5, <1>a, <2>2, <2>3 DEF Persist, TypeOK, envVars, RunState
<1>6. CASE CleanupBlobs(p)
  BY <1>6, <1>a DEF CleanupBlobs, TypeOK, envVars, RunState
<1>7. CASE SettleFailed(p)
  <2>1. run[p].job \in Job
    BY <1>0, <1>7 DEF SettleFailed, Working
  <2>2. jobs' \in [Job -> JobRow]
    BY <1>7, <2>1, StatusType DEF SettleFailed, TypeOK, JobStatus
  <2> QED BY <1>7, <1>a, <2>2 DEF SettleFailed, TypeOK, envVars, RunState
<1> QED BY <1>1, <1>2, <1>3, <1>4, <1>5, <1>6, <1>7 DEF Tick

(* Types, with the fact that a working tick holds a job, are inductive.    *)
LEMMA TypeInductive ==
  ASSUME TypeOK, RunHoldsJob, [Next]_vars
  PROVE  TypeOK'
<1>1. ASSUME NEW s \in Story, NEW t \in Story, CreateStory(s) \/ CloneStory(s, t)
      PROVE  TypeOK'
  BY <1>1 DEF CreateStory, CloneStory, TypeOK, envVars
<1>2. ASSUME NEW j \in Job, SweepJob(j) \/ Age(j) PROVE TypeOK'
  <2>1. jobs' = [jobs EXCEPT ![j] = [jobs[j] EXCEPT !.status = "gone"]]
        \/ jobs' = [jobs EXCEPT ![j] = [jobs[j] EXCEPT !.stale = TRUE]]
    BY <1>2 DEF SweepJob, Age
  <2>2. jobs' \in [Job -> JobRow]
    BY <2>1, StatusType DEF TypeOK, JobStatus
  <2> QED BY <1>2, <2>2 DEF SweepJob, Age, TypeOK, envVars
<1>3. CASE Midnight \/ \E c \in Colours : Flip(c)
  BY <1>3, StoryJobsAssumption DEF Midnight, Flip, TypeOK
<1>4. CASE UNCHANGED vars
  BY <1>4 DEF vars, TypeOK
<1> QED BY <1>1, <1>2, <1>3, <1>4, EnqueueType, TickType DEF Next, Adds, Goes

---------------------------------------------------------------------------
(* A step that leaves jobs, result rows, files and ticks alone keeps what  *)
(* the invariant says of them.                                             *)
LEMMA RowsKeep ==
  ASSUME RowsHold, UNCHANGED <<jobs, shown, disk, run>>, stories \subseteq stories'
  PROVE  RowsHold'
<1>1. RunHoldsJob' /\ OneLiveJob' /\ OneRunPerJob' /\ RunNotDone'
  BY DEF RowsHold, RunHoldsJob, OneLiveJob, OneRunPerJob, RunNotDone
<1>2. JobHasStory' /\ ShownByDoneJobs' /\ WrittenOnDisk' /\ (~LostAcks => ShownBytesOnDisk')
  BY DEF RowsHold, JobHasStory, ShownByDoneJobs, WrittenOnDisk, WrittenFiles,
    ShownBytesOnDisk
<1> QED BY <1>1, <1>2 DEF RowsHold

(* What reaping, settling, sweeping and aging do to jobs.                  *)
JobsMove ==
  \A j \in Job :
    /\ jobs'[j].story = jobs[j].story
    /\ \/ jobs'[j].status = jobs[j].status
       \/ jobs[j].status = "running" /\ jobs'[j].status = "failed"
       \/ /\ jobs[j].status \in {"done", "failed"} /\ jobs'[j].status = "gone"
          /\ \A p \in Process : run[p].job # j

(* How a tick moves on with its job, or is over.                           *)
MovesOn(r, s) ==
  /\ s.job = r.job /\ s.n = r.n
  /\ s.pc \in Working <=> r.pc \in Working
  /\ s.pc \in Generating => r.pc \in Generating
  /\ s.pc \in Unshowable => r.pc \in Unshowable
Over(s) == s.job = NoJob /\ s.pc \notin Working
RunMoves ==
  /\ run' \in [Process -> Run]
  /\ \A p \in Process : MovesOn(run[p], run'[p]) \/ Over(run'[p])

(* Such steps keep what the invariant says of jobs, ticks and results.     *)
LEMMA MovesKeep ==
  ASSUME RowsHold, TypeOK, JobsMove, RunMoves, UNCHANGED <<stories, shown, disk>>
  PROVE  RowsHold'
<1>0. Generating \subseteq Working /\ Unshowable \subseteq Working
  BY DEF Generating, Unshowable, Working
<1>1. RunHoldsJob'
  BY DEF RowsHold, RunHoldsJob, JobsMove, RunMoves, MovesOn, Over
<1>2. OneRunPerJob'
  BY DEF RowsHold, OneRunPerJob, RunMoves, MovesOn, Over
<1>3. RunNotDone'
  BY <1>0 DEF RowsHold, RunNotDone, RunHoldsJob, JobsMove, RunMoves, MovesOn, Over
<1>4. WrittenOnDisk'
  BY <1>0 DEF RowsHold, WrittenOnDisk, WrittenFiles, RunMoves, MovesOn, Over
<1>5. JobHasStory' /\ OneLiveJob'
  BY DEF RowsHold, JobHasStory, OneLiveJob, JobsMove
<1>6. ShownByDoneJobs' /\ (~LostAcks => ShownBytesOnDisk')
  BY DEF RowsHold, ShownByDoneJobs, ShownBytesOnDisk, JobsMove, TypeOK, File
<1> QED BY <1>1, <1>2, <1>3, <1>4, <1>5, <1>6 DEF RowsHold

(* A claim: a pending job is no tick's yet.                                *)
LEMMA ClaimKeeps ==
  ASSUME RowsHold, TypeOK, NEW p \in Process, NEW j \in Claimable,
         jobs' = [jobs EXCEPT ![j] = [@ EXCEPT !.status = "running"]],
         run' = [run EXCEPT ![p] = [pc |-> "ceiling", job |-> j, n |-> 0]],
         UNCHANGED <<stories, shown, disk>>
  PROVE  RowsHold'
<1>1. j \in Job /\ jobs[j].status = "pending" /\ \A q \in Process : run[q].job # j
  BY StoryJobsAssumption DEF Claimable, RowsHold, RunHoldsJob
<1>2. /\ \A i \in Job \ {j} : jobs'[i] = jobs[i]
      /\ jobs'[j].status = "running" /\ jobs'[j].story = jobs[j].story
      /\ \A q \in Process \ {p} : run'[q] = run[q]
      /\ run'[p] = [pc |-> "ceiling", job |-> j, n |-> 0]
  BY <1>1 DEF TypeOK, JobRow
<1>3. RunHoldsJob'
  BY <1>1, <1>2 DEF RowsHold, RunHoldsJob, Working
<1>4. OneRunPerJob'
  BY <1>1, <1>2 DEF RowsHold, OneRunPerJob
<1>5. RunNotDone'
  BY <1>1, <1>2 DEF RowsHold, RunHoldsJob, RunNotDone, Unshowable, Generating, Working
<1>6. WrittenOnDisk'
  BY <1>2 DEF RowsHold, WrittenOnDisk, WrittenFiles, Files
<1>7. JobHasStory' /\ OneLiveJob'
  BY <1>1, <1>2 DEF RowsHold, JobHasStory, OneLiveJob
<1>8. ShownByDoneJobs' /\ (~LostAcks => ShownBytesOnDisk')
  BY <1>1, <1>2 DEF RowsHold, ShownByDoneJobs, ShownBytesOnDisk, TypeOK, File
<1> QED BY <1>3, <1>4, <1>5, <1>6, <1>7, <1>8 DEF RowsHold

(* A persist: its files are on disk and were shown by nobody.              *)
LEMMA PersistKeeps ==
  ASSUME RowsHold, TypeOK, NEW p \in Process, Persist(p)
  PROVE  RowsHold'
<1> DEFINE j == run[p].job
           s == jobs[j].story
<1>1. /\ j \in Job /\ s \in stories /\ s \in Story
      /\ jobs[j].status = "running"
      /\ \A q \in Process \ {p} : run[q].job # j
  BY StoryJobsAssumption DEF Persist, AllFiles, SettledOne, Running, RowsHold, RunHoldsJob,
     Working, JobHasStory, OneRunPerJob, TypeOK
<1>2. /\ \A i \in Job \ {j} : jobs'[i] = jobs[i]
      /\ jobs'[j].status = "done" /\ jobs'[j].story = s
      /\ shown' = [shown EXCEPT ![s] = Files(j, run[p].n)]
      /\ UNCHANGED <<stories, disk>>
  BY <1>1 DEF Persist, Running, TypeOK, JobRow
<1>3. /\ \A q \in Process \ {p} : run'[q] = run[q]
      /\ \/ run'[p] = At("tick")
         \/ LostAcks /\ run'[p] = [run[p] EXCEPT !.pc = "cleanup"]
  BY DEF Persist, SetRun, Goto, TypeOK
<1>4. run[p] \in Run /\ run[p].pc = "generate"
  BY DEF TypeOK, Persist
<1>5. RunHoldsJob'
  BY <1>1, <1>2, <1>3, <1>4 DEF RowsHold, RunHoldsJob, Working, At, Run
<1>6. OneRunPerJob'
  BY <1>1, <1>3, <1>4 DEF RowsHold, OneRunPerJob, At, Run
<1>7. RunNotDone'
  <2>1. run'[p].pc \notin Unshowable
    <3>1. CASE run'[p] = At("tick")
      BY <3>1 DEF Unshowable, Generating, At
    <3>2. CASE LostAcks /\ run'[p] = [run[p] EXCEPT !.pc = "cleanup"]
      <4>1. run'[p].pc = "cleanup"
        BY <1>4, <3>2 DEF Run
      <4> QED BY <3>2, <4>1 DEF Unshowable, Generating
    <3> QED BY <1>3, <3>1, <3>2
  <2>2. \A q \in Process : run[q].pc \in Unshowable => run[q].job \in Job
    BY DEF RowsHold, RunHoldsJob, Unshowable, Generating, Working
  <2> QED BY <1>1, <1>2, <1>3, <2>1, <2>2 DEF RowsHold, RunNotDone
<1>8. WrittenOnDisk'
  <2>1. run'[p].pc \notin Generating
    BY <1>3, <1>4 DEF Generating, At, Run
  <2> QED BY <1>2, <1>3, <2>1 DEF RowsHold, WrittenOnDisk, WrittenFiles
<1>9. JobHasStory' /\ OneLiveJob'
  BY <1>1, <1>2 DEF RowsHold, JobHasStory, OneLiveJob
<1>10. \A f \in Files(j, run[p].n) : f.job = j
  BY DEF Files
<1>11. ShownByDoneJobs'
  BY <1>1, <1>2, <1>10 DEF RowsHold, ShownByDoneJobs, TypeOK, File
<1>12. ~LostAcks => ShownBytesOnDisk'
  BY <1>2, <1>4 DEF RowsHold, ShownBytesOnDisk, WrittenOnDisk, WrittenFiles, Generating, TypeOK
<1> QED BY <1>5, <1>6, <1>7, <1>8, <1>9, <1>11, <1>12 DEF RowsHold

(* Files written by a run are its own; its cleanup unlinks nothing shown.  *)
LEMMA FilesKeep ==
  ASSUME RowsHold, TypeOK, NEW p \in Process, SaveBlob(p) \/ CleanupBlobs(p)
  PROVE  RowsHold'
<1>0. run[p] \in Run /\ run[p].job \in Job /\ run[p].pc \in Working
  BY DEF RowsHold, RunHoldsJob, TypeOK, SaveBlob, CleanupBlobs, Working
<1>1. /\ \A q \in Process \ {p} : run'[q] = run[q]
      /\ run'[p].job = run[p].job /\ run'[p].pc \in Working
      /\ UNCHANGED <<stories, jobs, shown>>
  BY <1>0 DEF SaveBlob, CleanupBlobs, SetRun, Goto, TypeOK, Run, Working
<1>2. run'[p].pc \in Unshowable => run[p].pc \in Unshowable
  BY <1>0 DEF SaveBlob, CleanupBlobs, SetRun, Goto, TypeOK, Run, Unshowable, Generating
<1>3. RunHoldsJob' /\ OneRunPerJob' /\ RunNotDone'
  BY <1>0, <1>1, <1>2 DEF RowsHold, RunHoldsJob, OneRunPerJob, RunNotDone
<1>4. JobHasStory' /\ OneLiveJob' /\ ShownByDoneJobs'
  BY <1>1 DEF RowsHold, JobHasStory, OneLiveJob, ShownByDoneJobs
<1>5. CASE SaveBlob(p)
  <2>1. run'[p].n = run[p].n + 1 /\ disk' = disk \cup {NextFile(p)}
    BY <1>0, <1>5 DEF SaveBlob, SetRun, TypeOK, Run
  <2>2. WrittenFiles(p) \subseteq disk
    BY <1>5 DEF SaveBlob, RowsHold, WrittenOnDisk, Generating
  <2>3. Files(run[p].job, run[p].n + 1) = Files(run[p].job, run[p].n) \cup {NextFile(p)}
    <3>1. 1..(run[p].n + 1) = (1..run[p].n) \cup {run[p].n + 1}
      BY <1>0 DEF Run
    <3> QED BY <3>1 DEF Files, NextFile
  <2>4. WrittenFiles(p)' \subseteq disk'
    BY <1>1, <2>1, <2>2, <2>3 DEF WrittenFiles
  <2>5. WrittenOnDisk'
    BY <1>1, <2>1, <2>4 DEF RowsHold, WrittenOnDisk, WrittenFiles
  <2>6. ~LostAcks => ShownBytesOnDisk'
    BY <1>1, <2>1 DEF RowsHold, ShownBytesOnDisk
  <2> QED BY <1>3, <1>4, <2>5, <2>6 DEF RowsHold
<1>6. CASE CleanupBlobs(p)
  <2>1. run[p].pc = "cleanup" /\ run'[p].pc = "settle" /\ disk' = disk \ WrittenFiles(p)
    BY <1>0, <1>6 DEF CleanupBlobs, Goto, SetRun, TypeOK, Run
  <2>2. \A j \in Job, n \in Nat : \A f \in Files(j, n) : f.job = j
    BY DEF Files
  <2>3. WrittenOnDisk'
    <3>1. ASSUME NEW q \in Process, run'[q].pc \in Generating
          PROVE  WrittenFiles(q)' \subseteq disk'
      <4>1. q # p /\ run'[q] = run[q]
        BY <1>1, <2>1, <3>1 DEF Generating
      <4>2. WrittenFiles(q) \subseteq disk /\ run[q].job # run[p].job /\ run[q] \in Run
        BY <1>0, <3>1, <4>1, StoryJobsAssumption DEF RowsHold, WrittenOnDisk, OneRunPerJob, TypeOK
      <4>3. run[q].job \in Job
        BY <3>1, <4>1 DEF RowsHold, RunHoldsJob, Generating, Working
      <4>4. WrittenFiles(q) \cap WrittenFiles(p) = {}
        BY <1>0, <2>2, <4>2, <4>3 DEF WrittenFiles, Run
      <4>5. WrittenFiles(q)' = WrittenFiles(q)
        BY <4>1 DEF WrittenFiles
      <4> QED BY <2>1, <4>2, <4>4, <4>5
    <3> QED BY <3>1 DEF WrittenOnDisk
  <2>4. ASSUME ~LostAcks PROVE ShownBytesOnDisk'
    <3>1. jobs[run[p].job].status \in {"running", "failed"}
      BY <2>1, <2>4 DEF RowsHold, RunNotDone, Unshowable
    <3>2. \A s \in Story : shown[s] \cap WrittenFiles(p) = {}
      BY <1>0, <2>2, <3>1 DEF RowsHold, ShownByDoneJobs, WrittenFiles, Run
    <3> QED BY <1>1, <2>1, <2>4, <3>2 DEF RowsHold, ShownBytesOnDisk
  <2> QED BY <1>3, <1>4, <2>3, <2>4 DEF RowsHold
<1> QED BY <1>5, <1>6

(* Every step of a tick keeps what the invariant says of rows.             *)
LEMMA TickKeeps ==
  ASSUME RowsHold, TypeOK, NEW p \in Process, Tick(p) \/ Crash(p) \/ Restart(p)
  PROVE  RowsHold'
<1>0. run[p] \in Run /\ TypeOK'
  BY TickType DEF TypeOK, RowsHold
<1>1. ASSUME NEW pc \in RunState, Goto(p, pc), MovesOn(run[p], [run[p] EXCEPT !.pc = pc])
      PROVE  RunMoves
  <2>1. /\ run'[p] = [run[p] EXCEPT !.pc = pc]
        /\ \A q \in Process \ {p} : run'[q] = run[q]
    BY <1>1 DEF Goto, SetRun, TypeOK
  <2>2. \A q \in Process \ {p} : MovesOn(run[q], run'[q])
    BY <2>1 DEF MovesOn
  <2> QED BY <1>0, <1>1, <2>1, <2>2 DEF RunMoves, TypeOK
<1>2. ASSUME NEW pc \in RunState \ Working, SetRun(p, At(pc)) PROVE RunMoves
  <2>1. run'[p] = At(pc) /\ \A q \in Process \ {p} : run'[q] = run[q]
    BY <1>2 DEF SetRun, TypeOK
  <2>2. \A q \in Process \ {p} : MovesOn(run[q], run'[q])
    BY <2>1 DEF MovesOn
  <2> QED BY <1>0, <1>2, <2>1, <2>2 DEF RunMoves, TypeOK, Over, At
<1>3. ASSUME UNCHANGED jobs PROVE JobsMove
  BY <1>3 DEF JobsMove
<1>4. CASE ReapStale(p)
  <2>1. JobsMove
    BY <1>4 DEF ReapStale, JobsMove, StaleJobs, Running, TypeOK, JobRow
  <2>2. RunMoves
    BY <1>0, <1>1, <1>4 DEF ReapStale, MovesOn, Run, RunState, Working, Generating, Unshowable
  <2> QED BY <1>4, <2>1, <2>2, MovesKeep DEF ReapStale
<1>5. CASE CheckActiveColor(p)
  <2>1. RunMoves
    BY <1>0, <1>1, <1>5 DEF CheckActiveColor, MovesOn, Run, RunState, Working, Generating, Unshowable
  <2> QED BY <1>3, <1>5, <2>1, MovesKeep DEF CheckActiveColor
<1>6. CASE ClaimPending(p)
  <2>1. CASE SetRun(p, At("tick")) /\ UNCHANGED jobs
    <3>1. RunMoves
      BY <1>2, <2>1 DEF RunState, Working
    <3> QED BY <1>3, <1>6, <2>1, <3>1, MovesKeep DEF ClaimPending
  <2>2. CASE ~(SetRun(p, At("tick")) /\ UNCHANGED jobs)
    BY <1>6, <2>2, ClaimKeeps DEF ClaimPending, SetRun
  <2> QED BY <2>1, <2>2
<1>7. CASE CheckCeiling(p)
  <2>1. RunMoves
    BY <1>0, <1>1, <1>2, <1>7
    DEF CheckCeiling, MovesOn, Run, RunState, Working, Generating, Unshowable
  <2> QED BY <1>3, <1>7, <2>1, MovesKeep DEF CheckCeiling
<1>8. CASE Throw(p)
  <2>1. RunMoves
    BY <1>0, <1>1, <1>8 DEF Throw, MovesOn, Run, RunState, Working, Generating, Unshowable
  <2> QED BY <1>3, <1>8, <2>1, MovesKeep DEF Throw
<1>9. CASE SettleFailed(p)
  <2>1. RunMoves
    BY <1>2, <1>9 DEF SettleFailed, RunState, Working
  <2>2. JobsMove
    BY <1>9 DEF SettleFailed, JobsMove, Running, TypeOK, JobRow
  <2> QED BY <1>9, <2>1, <2>2, MovesKeep DEF SettleFailed
<1>10. CASE Crash(p) \/ Restart(p)
  <2>1. RunMoves /\ UNCHANGED <<stories, jobs, shown, disk>>
    BY <1>2, <1>10 DEF Crash, Restart, RunState, Working
  <2> QED BY <1>3, <2>1, MovesKeep
<1> QED BY <1>4, <1>5, <1>6, <1>7, <1>8, <1>9, <1>10, PersistKeeps, FilesKeep DEF Tick

(* So does every other step.                                               *)
LEMMA InsertKeeps ==
  ASSUME IInv, RowsHold, NEW q \in Request, InsertJob(q)
  PROVE  RowsHold'
<1>1. PICK j \in Job :
        /\ jobs[j].status = "none"
        /\ jobs' = [jobs EXCEPT ![j] = [status |-> "pending", story |-> req[q].story,
                                        day |-> req[q].day, stale |-> FALSE]]
  BY DEF InsertJob
<1>2. /\ \A i \in Job \ {j} : jobs'[i] = jobs[i]
      /\ jobs'[j].status = "pending" /\ jobs'[j].story = req[q].story
  BY <1>1 DEF IInv, TypeOK
<1>3. /\ req[q].story \in stories /\ ~LiveJob(req[q].story)
      /\ UNCHANGED <<stories, shown, disk, run>>
  BY DEF InsertJob, IInv, ReqHasStory
<1>4. \A p \in Process : run[p].pc \in Working => run[p].job \in Job \ {j}
  BY <1>1 DEF RowsHold, RunHoldsJob
<1>5. RunHoldsJob' /\ OneRunPerJob'
  BY <1>2, <1>3, <1>4 DEF RowsHold, RunHoldsJob, OneRunPerJob
<1>6. RunNotDone'
  BY <1>2, <1>3, <1>4 DEF RowsHold, RunNotDone, Unshowable, Generating, Working
<1>7. JobHasStory' /\ OneLiveJob'
  BY <1>2, <1>3 DEF RowsHold, JobHasStory, OneLiveJob, LiveJob, Live
<1>8. ShownByDoneJobs'
  BY <1>1, <1>2, <1>3 DEF RowsHold, ShownByDoneJobs, IInv, TypeOK, File
<1>9. WrittenOnDisk' /\ (~LostAcks => ShownBytesOnDisk')
  BY <1>3 DEF RowsHold, WrittenOnDisk, WrittenFiles, ShownBytesOnDisk
<1> QED BY <1>5, <1>6, <1>7, <1>8, <1>9 DEF RowsHold

LEMMA OtherKeeps ==
  ASSUME IInv, RowsHold, [Next]_vars,
         \A p \in Process : ~(Tick(p) \/ Crash(p) \/ Restart(p))
  PROVE  RowsHold'
<1>1. ASSUME NEW s \in Story, NEW t \in Story, CloneStory(s, t)
      PROVE  RowsHold'
  <2>1. /\ UNCHANGED <<jobs, disk, run>> /\ stories \subseteq stories'
        /\ \A u \in Story : \E v \in Story : shown'[u] = shown[v]
    BY <1>1 DEF CloneStory, IInv, TypeOK
  <2>2. RunHoldsJob' /\ OneLiveJob' /\ OneRunPerJob' /\ RunNotDone' /\ WrittenOnDisk'
    BY <2>1 DEF RowsHold, RunHoldsJob, OneLiveJob, OneRunPerJob, RunNotDone,
      WrittenOnDisk, WrittenFiles
  <2>3. JobHasStory' /\ ShownByDoneJobs' /\ (~LostAcks => ShownBytesOnDisk')
    BY <2>1 DEF RowsHold, JobHasStory, ShownByDoneJobs, ShownBytesOnDisk
  <2> QED BY <2>2, <2>3 DEF RowsHold
<1>2. ASSUME NEW s \in Story, CreateStory(s) PROVE RowsHold'
  BY <1>2, RowsKeep DEF CreateStory
<1>3. ASSUME NEW q \in Request, Enqueue(q) PROVE RowsHold'
  <2>1. CASE InsertJob(q)
    BY <2>1, InsertKeeps
  <2>2. CASE ~InsertJob(q)
    <3>1. UNCHANGED <<stories, jobs, shown, disk, run>>
      BY <1>3, <2>2 DEF Enqueue, BeginEnqueue, CheckShown, CheckLive, CheckCap, AbortEnqueue
    <3> QED BY <3>1, RowsKeep
  <2> QED BY <2>1, <2>2
<1>4. ASSUME NEW j \in Job, SweepJob(j) \/ Age(j) PROVE RowsHold'
  <2>1. JobsMove
    BY <1>4 DEF SweepJob, Age, JobsMove, IInv, TypeOK, JobRow
  <2>2. RunMoves
    BY <1>4 DEF SweepJob, Age, RunMoves, MovesOn, IInv, TypeOK
  <2> QED BY <1>4, <2>1, <2>2, MovesKeep DEF SweepJob, Age, IInv
<1>5. CASE Midnight \/ (\E c \in Colours : Flip(c)) \/ UNCHANGED vars
  BY <1>5, RowsKeep DEF Midnight, Flip, vars
<1> QED BY <1>1, <1>2, <1>3, <1>4, <1>5 DEF Next, Adds, Goes

---------------------------------------------------------------------------
(* The cap.  Days' jobs are finite sets, which only an insert grows.       *)
LEMMA Counts ==
  ASSUME NEW S \in SUBSET Job
  PROVE  /\ IsFiniteSet(S) /\ Cardinality(S) \in Nat
         /\ \A T \in SUBSET S : Cardinality(T) <= Cardinality(S)
BY StoryJobsAssumption, FS_Subset, FS_CardinalityType

LEMMA CapKeep ==
  ASSUME CapHolds, stories \subseteq stories', UNCHANGED req,
         \A d \in 0..MaxDay : CreatedOn(d)' \subseteq CreatedOn(d),
         req \in [Request -> Req]
  PROVE  CapHolds'
<1>1. \A d \in 0..MaxDay : Cardinality(CreatedOn(d)') <= Cardinality(CreatedOn(d))
                           /\ Cardinality(CreatedOn(d)') \in Nat
                           /\ Cardinality(CreatedOn(d)) \in Nat
  BY Counts DEF CreatedOn
<1>2. WithinDailyCap'
  <2> SUFFICES ASSUME NEW d \in 0..MaxDay
               PROVE  Cardinality(CreatedOn(d)') <= DailyCap
    BY DEF WithinDailyCap
  <2> QED BY <1>1, StoryJobsAssumption DEF CapHolds, WithinDailyCap
<1>3. CountedIsUnderCap'
  <2> SUFFICES ASSUME NEW q \in Request, req[q].pc = "counted"
               PROVE  Cardinality(CreatedOn(req[q].day)') < DailyCap
    BY DEF CountedIsUnderCap, CreatedOn
  <2>1. req[q].day \in 0..MaxDay /\ Cardinality(CreatedOn(req[q].day)) < DailyCap
    BY DEF CapHolds, CountedIsUnderCap, Req
  <2> QED BY <1>1, <2>1, StoryJobsAssumption
<1> QED BY <1>2, <1>3 DEF CapHolds, ReqHasStory, OneLocked

LEMMA EnqueueCap ==
  ASSUME IInv, CapHolds, NEW q \in Request, Enqueue(q)
  PROVE  CapHolds'
<1>0. req \in [Request -> Req] /\ stories' = stories
  BY DEF IInv, TypeOK, Enqueue, BeginEnqueue, CheckShown, CheckLive, CheckCap,
    InsertJob, AbortEnqueue
<1>1. ASSUME NEW r \in Req, req' = [req EXCEPT ![q] = r], UNCHANGED jobs,
             r.pc # "idle" => r.story \in stories,
             r.pc \in Locked => req[q].pc \in Locked \/ ~LockHeld,
             r.pc = "counted" => Cardinality(CreatedOn(r.day)) < DailyCap
      PROVE  CapHolds'
  <2>1. ReqHasStory' /\ OneLocked'
    BY <1>0, <1>1 DEF CapHolds, ReqHasStory, OneLocked, LockHeld
  <2>2. CountedIsUnderCap' /\ WithinDailyCap'
    BY <1>0, <1>1 DEF CapHolds, CountedIsUnderCap, WithinDailyCap, CreatedOn
  <2> QED BY <2>1, <2>2 DEF CapHolds
<1>2. ASSUME NEW s \in Story, BeginEnqueue(q, s) PROVE CapHolds'
  <2>1. [pc |-> "begun", story |-> s, day |-> today] \in Req
    BY DEF IInv, TypeOK, Req, ReqState
  <2> QED BY <1>1, <1>2, <2>1 DEF BeginEnqueue, SetReq, Locked
<1>3. ASSUME SetReq(q, NoReq), UNCHANGED jobs PROVE CapHolds'
  BY <1>1, <1>3, BasicTypes DEF SetReq, NoReq, Locked
<1>4. ASSUME NEW pc \in ReqState \ {"idle"}, ReqGoto(q, pc), UNCHANGED jobs, req[q].pc # "idle",
             pc \in Locked => req[q].pc \in Locked \/ ~LockHeld,
             pc = "counted" => Cardinality(CreatedOn(req[q].day)) < DailyCap
      PROVE  CapHolds'
  <2> DEFINE r == [req[q] EXCEPT !.pc = pc]
  <2>1. r \in Req /\ r.pc = pc /\ r.story = req[q].story /\ r.day = req[q].day
    BY <1>0 DEF Req
  <2>2. req' = [req EXCEPT ![q] = r]
    BY <1>0, <1>4 DEF ReqGoto
  <2>3. req[q].story \in stories
    BY <1>4 DEF CapHolds, ReqHasStory
  <2> HIDE DEF r
  <2> QED BY <1>1, <1>4, <2>1, <2>2, <2>3
<1>5. CASE CheckShown(q)
  BY <1>3, <1>4, <1>5 DEF CheckShown, ReqState, Locked
<1>6. CASE CheckLive(q)
  BY <1>3, <1>4, <1>6 DEF CheckLive, ReqState, Locked
<1>7. CASE CheckCap(q)
  <2>1. CreatedOn(req[q].day) \subseteq OfDay(req[q].day)
    BY <1>0 DEF CreatedOn, OfDay, Req
  <2>2. OfDay(req[q].day) \in SUBSET Job
    BY DEF OfDay
  <2>3. Cardinality(OfDay(req[q].day)) < DailyCap
          => Cardinality(CreatedOn(req[q].day)) < DailyCap
    BY <2>1, <2>2, Counts, StoryJobsAssumption
  <2> QED BY <1>3, <1>4, <1>7, <2>3 DEF CheckCap, ReqState, Locked
<1>8. CASE AbortEnqueue(q)
  BY <1>3, <1>8 DEF AbortEnqueue
<1>9. CASE InsertJob(q)
  <2> DEFINE d0 == req[q].day
  <2>1. PICK j \in Job :
          /\ jobs[j].status = "none"
          /\ jobs' = [jobs EXCEPT ![j] = [status |-> "pending", story |-> req[q].story,
                                          day |-> d0, stale |-> FALSE]]
    BY <1>9 DEF InsertJob
  <2>2. /\ \A i \in Job \ {j} : jobs'[i] = jobs[i]
        /\ jobs'[j].status = "pending" /\ jobs'[j].day = d0
    BY <2>1 DEF IInv, TypeOK
  <2>3. req'[q].pc = "idle" /\ \A r \in Request \ {q} : req'[r] = req[r] /\ req[r].pc \notin Locked
    BY <1>0, <1>9 DEF InsertJob, SetReq, NoReq, CapHolds, OneLocked, Locked
  <2>4. ReqHasStory' /\ OneLocked' /\ CountedIsUnderCap'
    BY <1>0, <2>3 DEF CapHolds, ReqHasStory, OneLocked, CountedIsUnderCap, Locked
  <2>5. d0 \in 0..MaxDay /\ Cardinality(CreatedOn(d0)) < DailyCap
    BY <1>0, <1>9 DEF InsertJob, CapHolds, CountedIsUnderCap, Req
  <2>6. ASSUME NEW d \in 0..MaxDay PROVE Cardinality(CreatedOn(d)') <= DailyCap
    <3>1. CASE d = d0
      <4>1. CreatedOn(d)' = CreatedOn(d) \cup {j} /\ j \notin CreatedOn(d)
        BY <2>1, <2>2, <3>1 DEF CreatedOn
      <4>2. IsFiniteSet(CreatedOn(d)) /\ Cardinality(CreatedOn(d)) \in Nat
        BY Counts DEF CreatedOn
      <4>3. Cardinality(CreatedOn(d) \cup {j}) = Cardinality(CreatedOn(d)) + 1
        BY <4>1, <4>2, FS_AddElement
      <4> QED BY <2>5, <3>1, <4>1, <4>2, <4>3, StoryJobsAssumption
    <3>2. CASE d # d0
      <4>1. CreatedOn(d)' = CreatedOn(d)
        BY <2>1, <2>2, <3>2 DEF CreatedOn
      <4> QED BY <4>1 DEF CapHolds, WithinDailyCap
    <3> QED BY <3>1, <3>2
  <2> QED BY <2>4, <2>6 DEF CapHolds, WithinDailyCap
<1> QED BY <1>2, <1>5, <1>6, <1>7, <1>8, <1>9 DEF Enqueue

LEMMA OtherCap ==
  ASSUME IInv, CapHolds, [Next]_vars, \A q \in Request : ~Enqueue(q)
  PROVE  CapHolds'
<1> DEFINE Days == \A j \in Job :
             /\ jobs'[j].day = jobs[j].day
             /\ jobs[j].status \in {"none", "gone"} => jobs'[j].status \in {"none", "gone"}
<1>1. ASSUME Days, UNCHANGED req, stories \subseteq stories' PROVE CapHolds'
  BY <1>1, CapKeep DEF CreatedOn, IInv, TypeOK
<1>2. ASSUME UNCHANGED jobs PROVE Days
  BY <1>2
<1>3. ASSUME NEW j \in Job, NEW st \in JobStatus, jobs[j].status \notin {"none", "gone"},
             jobs' = [jobs EXCEPT ![j] = [jobs[j] EXCEPT !.status = st]]
      PROVE  Days
  BY <1>3 DEF IInv, TypeOK, JobRow
<1> HIDE DEF Days
<1>4. ASSUME NEW p \in Process, Tick(p) \/ Crash(p) \/ Restart(p)
      PROVE  Days /\ UNCHANGED <<req, stories>>
  <2>1. CASE UNCHANGED jobs
    BY <1>2, <1>4, <2>1 DEF Tick, ReapStale, CheckActiveColor, ClaimPending, CheckCeiling,
      SaveBlob, Throw, Persist, CleanupBlobs, SettleFailed, Crash, Restart
  <2>2. CASE ReapStale(p)
    BY <2>2 DEF ReapStale, StaleJobs, Running, Days, IInv, TypeOK, JobRow
  <2>3. CASE ClaimPending(p) /\ jobs' # jobs
    BY <1>3, <2>3 DEF ClaimPending, Claimable, JobStatus
  <2>4. CASE Persist(p)
    BY <1>3, <2>4 DEF Persist, SettledOne, Running, IInv, RunHoldsJob, Working, JobStatus
  <2>5. CASE SettleFailed(p) /\ jobs' # jobs
    BY <1>3, <2>5 DEF SettleFailed, Running, IInv, RunHoldsJob, Working, JobStatus
  <2> QED BY <1>4, <2>1, <2>2, <2>3, <2>4, <2>5 DEF Tick, CheckActiveColor, CheckCeiling,
        SaveBlob, Throw, CleanupBlobs, Crash, Restart
<1>5. ASSUME NEW j \in Job, SweepJob(j) \/ Age(j)
      PROVE  Days /\ UNCHANGED <<req, stories>>
  BY <1>5 DEF SweepJob, Age, Running, Days, IInv, TypeOK, JobRow
<1>6. ASSUME NEW a \in Story, NEW b \in Story, CreateStory(a) \/ CloneStory(a, b)
      PROVE  UNCHANGED <<req, jobs>> /\ stories \subseteq stories'
  BY <1>6 DEF CreateStory, CloneStory
<1>7. ASSUME Midnight \/ (\E c \in Colours : Flip(c)) \/ UNCHANGED vars
      PROVE  UNCHANGED <<req, jobs, stories>>
  BY <1>7 DEF Midnight, Flip, vars
<1> QED BY <1>1, <1>2, <1>4, <1>5, <1>6, <1>7 DEF Next, Adds, Goes

---------------------------------------------------------------------------
(* The invariant is inductive.                                             *)
LEMMA InvariantInductive == IInv /\ [Next]_vars => IInv'
<1> SUFFICES ASSUME IInv, [Next]_vars PROVE IInv'
  OBVIOUS
<1>1. RowsHold /\ CapHolds
  BY DEF IInv, RowsHold, CapHolds
<1>2. TypeOK'
  BY TypeInductive DEF IInv
<1>3. RowsHold'
  <2>1. TypeOK
    BY DEF IInv
  <2> QED BY <1>1, <2>1, TickKeeps, OtherKeeps
<1>4. CapHolds'
  BY <1>1, EnqueueCap, OtherCap
<1> QED BY <1>2, <1>3, <1>4 DEF IInv, RowsHold, CapHolds

LEMMA InvariantInitial == Init => IInv
<1> SUFFICES ASSUME Init PROVE IInv
  OBVIOUS
<1>1. TypeOK
  BY BasicTypes, StoryJobsAssumption DEF Init, TypeOK, RunState
<1>2. RowsHold
  BY DEF Init, RowsHold, RunHoldsJob, JobHasStory, OneLiveJob, OneRunPerJob, RunNotDone,
    ShownByDoneJobs, WrittenOnDisk, ShownBytesOnDisk, At, NoRow, Working, Generating, Unshowable
<1>3. CapHolds
  <2>1. \A d \in 0..MaxDay : CreatedOn(d) = {}
    BY DEF Init, CreatedOn, NoRow
  <2>2. WithinDailyCap
    BY <2>1, FS_EmptySet, StoryJobsAssumption DEF WithinDailyCap
  <2> QED BY <2>2 DEF Init, CapHolds, ReqHasStory, OneLocked, CountedIsUnderCap, NoReq, Locked
<1> QED BY <1>1, <1>2, <1>3 DEF IInv, RowsHold, CapHolds

(* For every instance: the state is well typed, and the strengthened       *)
(* invariant about jobs, ticks, files and the advisory lock holds.         *)
THEOREM InvariantHolds == Spec => []IInv
BY InvariantInitial, InvariantInductive, PTL DEF Spec

THEOREM TypeCorrect == Spec => []TypeOK
<1>1. IInv => TypeOK
  BY DEF IInv
<1> QED BY <1>1, InvariantHolds, PTL

(* At most one unsettled job per story, under any concurrent enqueues, and *)
(* one run of a job, however many processes claim at once.                 *)
THEOREM OneAtATime == Spec => []OneJobOneRun
<1>1. IInv => OneJobOneRun
  BY DEF IInv, OneJobOneRun
<1> QED BY <1>1, InvariantHolds, PTL

(* Concurrent enqueues never exceed the daily cap, at midnight either.     *)
THEOREM CapKept == Spec => []WithinDailyCap
<1>1. IInv => WithinDailyCap
  BY DEF IInv
<1> QED BY <1>1, InvariantHolds, PTL

(* No reaped, failed or overtaken run ever leaves result rows, and where   *)
(* acknowledgements are not lost the files shown are on disk.              *)
THEOREM ResultsBacked == Spec => []ShownIsBacked
<1>1. IInv => ShownIsBacked
  BY DEF IInv, ShownIsBacked
<1> QED BY <1>1, InvariantHolds, PTL

---------------------------------------------------------------------------
(* The refinement.  Settling, reaping and sweeping can only shrink the set *)
(* of live stories.                                                        *)
LEMMA PromiseStep ==
  ASSUME IInv, [Next]_vars
  PROVE  [Promise!Next]_(Promise!vars)
<1>1. ASSUME UNCHANGED <<stories, shown>>, LiveStories' \subseteq LiveStories
      PROVE  [Promise!Next]_(Promise!vars)
  <2>1. Promise!GiveUp(LiveStories \ LiveStories')
    BY <1>1 DEF Promise!GiveUp
  <2> QED BY <2>1 DEF Promise!Next
<1>2. ASSUME UNCHANGED <<stories, shown>>,
             \A j \in Job : jobs'[j].status \in {"pending", "running"} =>
               /\ jobs[j].status \in {"pending", "running"}
               /\ jobs'[j].story = jobs[j].story
      PROVE  [Promise!Next]_(Promise!vars)
  BY <1>1, <1>2 DEF LiveStories
<1>3. ASSUME NEW s \in Story, CreateStory(s) PROVE Promise!Next
  <2>1. UNCHANGED LiveStories
    BY <1>3 DEF CreateStory, LiveStories
  <2> QED BY <1>3, <2>1 DEF CreateStory, Promise!Next, Promise!Create
<1>4. ASSUME NEW s \in Story, NEW t \in Story, CloneStory(s, t) PROVE Promise!Next
  <2>1. UNCHANGED LiveStories
    BY <1>4 DEF CloneStory, LiveStories
  <2> QED BY <1>4, <2>1 DEF CloneStory, Promise!Next, Promise!Clone
<1>5. ASSUME NEW q \in Request, Enqueue(q) PROVE [Promise!Next]_(Promise!vars)
  <2>1. CASE InsertJob(q)
    <3> DEFINE s == req[q].story
    <3>1. PICK j \in Job :
            /\ jobs[j].status = "none"
            /\ jobs' = [jobs EXCEPT ![j] = [status |-> "pending", story |-> s,
                                            day |-> req[q].day, stale |-> FALSE]]
      BY <2>1 DEF InsertJob
    <3>2. /\ \A i \in Job \ {j} : jobs'[i] = jobs[i]
          /\ jobs'[j].status = "pending" /\ jobs'[j].story = s
      BY <3>1 DEF IInv, TypeOK
    <3>3. s \in stories /\ s \in Story /\ s \notin LiveStories
      BY <2>1 DEF InsertJob, LiveJob, Live, LiveStories, IInv, TypeOK, ReqHasStory
    <3>4. LiveStories' = LiveStories \cup {s}
      BY <3>1, <3>2, <3>3 DEF LiveStories
    <3>5. Promise!Queue(s)
      BY <2>1, <3>3, <3>4 DEF InsertJob, Promise!Queue
    <3> QED BY <3>3, <3>5 DEF Promise!Next
  <2>2. CASE ~InsertJob(q)
    BY <1>2, <1>5, <2>2 DEF Enqueue, BeginEnqueue, CheckShown, CheckLive, CheckCap, AbortEnqueue
  <2> QED BY <2>1, <2>2
<1>6. ASSUME NEW p \in Process, Persist(p) PROVE Promise!Next
  <2> DEFINE j == run[p].job
             s == jobs[j].story
             R == Files(j, run[p].n)
  <2>1. /\ j \in Job /\ jobs[j].status = "running" /\ s \in Story
        /\ shown[s] = {} /\ run[p].n \in Scenes
    BY <1>6 DEF Persist, AllFiles, SettledOne, Running, IInv, RunHoldsJob, JobHasStory,
      Working, TypeOK
  <2>2. /\ \A i \in Job \ {j} : jobs'[i] = jobs[i]
        /\ jobs'[j].status = "done" /\ jobs'[j].story = s
        /\ shown' = [shown EXCEPT ![s] = R]
        /\ UNCHANGED stories
    BY <1>6, <2>1 DEF Persist, Running, IInv, TypeOK, JobRow
  <2>3. s \in LiveStories /\ LiveStories' = LiveStories \ {s}
    BY <2>1, <2>2 DEF LiveStories, IInv, OneLiveJob
  <2>4. R \in Results
    BY <2>1 DEF Results
  <2>5. \A t \in Story : shown[t] \cap R = {}
    <3>1. \A f \in R : f.job = j
      BY DEF Files
    <3> QED BY <2>1, <3>1 DEF IInv, ShownByDoneJobs
  <2> HIDE DEF R, s, j
  <2>6. Promise!Finish(s)
    BY <2>1, <2>2, <2>3, <2>4, <2>5 DEF Promise!Finish
  <2> QED BY <2>1, <2>6 DEF Promise!Next
<1>7. ASSUME NEW p \in Process, Tick(p) \/ Crash(p) \/ Restart(p), ~Persist(p)
      PROVE  [Promise!Next]_(Promise!vars)
  <2>1. UNCHANGED <<stories, shown>>
    BY <1>7 DEF Tick, ReapStale, CheckActiveColor, ClaimPending, CheckCeiling, SaveBlob,
      Throw, CleanupBlobs, SettleFailed, Crash, Restart
  <2>2. CASE ReapStale(p)
    BY <1>2, <2>1, <2>2 DEF ReapStale, IInv, TypeOK, JobRow
  <2>3. CASE ClaimPending(p)
    <3>1. CASE UNCHANGED jobs
      BY <1>2, <2>1, <3>1
    <3>2. ASSUME NEW j \in Job, jobs[j].status = "pending",
                 jobs' = [jobs EXCEPT ![j] = [@ EXCEPT !.status = "running"]]
          PROVE  [Promise!Next]_(Promise!vars)
      <4>1. \A i \in Job : jobs'[i].story = jobs[i].story
        BY <3>2 DEF IInv, TypeOK, JobRow
      <4>2. \A i \in Job \ {j} : jobs'[i].status = jobs[i].status
        BY <3>2 DEF IInv, TypeOK, JobRow
      <4> QED BY <1>2, <2>1, <3>2, <4>1, <4>2
    <3> QED BY <2>3, <3>1, <3>2 DEF ClaimPending, Claimable
  <2>4. CASE SettleFailed(p)
    BY <1>2, <2>1, <2>4 DEF SettleFailed, IInv, TypeOK, JobRow
  <2> QED BY <1>2, <1>7, <2>1, <2>2, <2>3, <2>4 DEF Tick, CheckActiveColor, CheckCeiling,
        SaveBlob, Throw, CleanupBlobs, Crash, Restart
<1>8. ASSUME NEW j \in Job, SweepJob(j) \/ Age(j) PROVE [Promise!Next]_(Promise!vars)
  BY <1>2, <1>8 DEF SweepJob, Age, IInv, TypeOK, JobRow
<1>9. ASSUME Midnight \/ (\E c \in Colours : Flip(c)) \/ UNCHANGED vars
      PROVE  [Promise!Next]_(Promise!vars)
  BY <1>2, <1>9 DEF Midnight, Flip, vars
<1> QED BY <1>3, <1>4, <1>5, <1>6, <1>7, <1>8, <1>9 DEF Next, Adds, Goes

(* The queue, its runners, reapers, retries and crashes implement the      *)
(* promise of StoryResults to the reader.                                  *)
THEOREM Refinement == Spec => KeepsPromise
<1>1. Init => Promise!Init
  BY DEF Init, Promise!Init, LiveStories, NoRow
<1>2. IInv /\ [Next]_vars => [Promise!Next]_(Promise!vars)
  BY PromiseStep
<1> QED BY <1>1, <1>2, InvariantHolds, PTL DEF Spec, KeepsPromise, Promise!Spec
===========================================================================
