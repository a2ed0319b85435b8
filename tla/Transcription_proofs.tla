------------------------ MODULE Transcription_proofs ------------------------
(***************************************************************************)
(* Proofs about Transcription, for every number of workers, uploads, files *)
(* of the corpus, jobs and crashes, and every cap.                         *)
(***************************************************************************)
EXTENDS Transcription, FiniteSetTheorems, TLAPS

(* A job row goes forward: none, pending, running, done or failed; and its *)
(* origin never changes.                                                   *)
Forward(j) ==
  /\ \/ jobs'[j].status = jobs[j].status
     \/ jobs[j].status = "none" /\ jobs'[j].status = "pending"
     \/ jobs[j].status = "pending" /\ jobs'[j].status = "running"
     \/ jobs[j].status = "running" /\ jobs'[j].status \in {"failed", "done"}
  /\ jobs[j].status # "none" => jobs'[j].by = jobs[j].by
Moves == jobs' \in [Job -> JobRow] /\ \A j \in Job : Forward(j)

(* Nothing but an upload's INSERT adds to the jobs of uploads.             *)
NoUploadJob == \A j \in Job : jobs[j].status = "none" =>
                 jobs'[j].status = "none" \/ jobs'[j].by = "loader"

(* A step of which the tracks know that no transcript loses its backing.   *)
TextsBacked ==
  /\ tracks' \in [Track -> TrackRow]
  /\ \A t \in Track :
       /\ tracks'[t].text \in {tracks[t].text, NoJob}
       /\ tracks'[t].status = "done" => tracks[t].status = "done" /\ tracks'[t].text = tracks[t].text

LEMMA JobsStay == ASSUME TypeOK, UNCHANGED jobs PROVE Moves /\ NoUploadJob
BY DEF TypeOK, Moves, Forward, NoUploadJob

LEMMA TracksStay == ASSUME TypeOK, UNCHANGED tracks PROVE TextsBacked
BY DEF TypeOK, TextsBacked

(* A new row takes the first number that is free.                          *)
LEMMA FreeIsNew ==
  ASSUME TypeOK, NEW j \in Job, Free(j)
  PROVE  jobs[j].status = "none"
BY TranscriptionAssumption DEF Free, Ledger, Job, TypeOK

LEMMA Inserted ==
  ASSUME TypeOK, NEW t \in Track, NEW who \in {"upload", "loader"},
         \E j \in Job : Free(j) /\ jobs' = [jobs EXCEPT ![j] = Queued(t, who)]
  PROVE  Moves /\ (who = "loader" => NoUploadJob)
<1>1. PICK j \in Job : Free(j) /\ jobs' = [jobs EXCEPT ![j] = Queued(t, who)]
  OBVIOUS
<1>2. jobs[j].status = "none"
  BY <1>1, FreeIsNew
<1>3. Queued(t, who) \in JobRow /\ Queued(t, who).status = "pending" /\ Queued(t, who).by = who
  BY DEF Queued, JobRow
<1>4. \A i \in Job : i # j => jobs'[i] = jobs[i]
  BY <1>1 DEF TypeOK
<1>5. jobs'[j] = Queued(t, who)
  BY <1>1 DEF TypeOK
<1>6. jobs' \in [Job -> JobRow]
  BY <1>1, <1>3 DEF TypeOK
<1> QED BY <1>2, <1>3, <1>4, <1>5, <1>6 DEF Moves, Forward, NoUploadJob

LEMMA SettledFailed ==
  ASSUME TypeOK, NEW j \in Job, SettleFailed(j)
  PROVE  Moves /\ NoUploadJob
<1>1. CASE Running(j) /\ jobs' = [jobs EXCEPT ![j].status = "failed"]
  BY <1>1 DEF TypeOK, JobRow, Running, Moves, Forward, NoUploadJob
<1>2. CASE UNCHANGED jobs
  BY <1>2, JobsStay
<1> QED BY <1>1, <1>2 DEF SettleFailed

(* A poll moves stale runs to failed and the job it claims to running.     *)
LEMMA PollMoves ==
  ASSUME TypeOK, NEW w \in Worker, Poll(w)
  PROVE  /\ Moves /\ NoUploadJob /\ TextsBacked
         /\ workers' \in [Worker -> Hand]
         /\ BusyHoldsJob => BusyHoldsJob'
<1>1. \A j \in Job : AfterReap(j) \in JobRow
  BY DEF AfterReap, TypeOK, JobRow
<1>2. TextsBacked
  BY DEF Poll, TracksAfterReap, TextsBacked, TypeOK, TrackRow
<1>3. CASE jobs' = [j \in Job |-> AfterReap(j)] /\ UNCHANGED workers
  <2>1. Moves /\ NoUploadJob
    BY <1>1, <1>3 DEF Moves, Forward, NoUploadJob, AfterReap, Reaped, Stale, Running, TypeOK, JobRow
  <2> QED BY <1>2, <1>3, <2>1 DEF TypeOK, BusyHoldsJob
<1>4. ASSUME NEW c \in Job, Oldest(c),
             jobs' = [j \in Job |->
               IF j = c THEN [jobs[j] EXCEPT !.status = "running", !.stale = FALSE]
                        ELSE AfterReap(j)],
             workers' = [workers EXCEPT ![w] =
               [at |-> "claimed", job |-> c, track |-> jobs[c].track]]
      PROVE  Moves /\ NoUploadJob /\ workers' \in [Worker -> Hand]
             /\ (BusyHoldsJob => BusyHoldsJob')
  <2>1. jobs[c].status = "pending"
    BY <1>4 DEF Oldest, Pending
  <2>2. jobs' \in [Job -> JobRow]
    <3>1. [jobs[c] EXCEPT !.status = "running", !.stale = FALSE] \in JobRow
      BY DEF TypeOK, JobRow
    <3> QED BY <1>1, <1>4, <3>1
  <2>3. \A j \in Job : Forward(j)
    <3> SUFFICES ASSUME NEW j \in Job PROVE Forward(j)
      OBVIOUS
    <3>1. CASE j = c
      BY <1>4, <2>1, <3>1 DEF TypeOK, JobRow, Forward
    <3>2. CASE j # c
      BY <1>4, <3>2 DEF Forward, AfterReap, Reaped, Stale, Running, TypeOK, JobRow
    <3> QED BY <3>1, <3>2
  <2>4. NoUploadJob
    BY <1>4, <2>1 DEF NoUploadJob, AfterReap, Reaped, Stale, Running, TypeOK, JobRow
  <2>5. workers' \in [Worker -> Hand]
    BY <1>4 DEF TypeOK, JobRow, Hand
  <2>6. BusyHoldsJob => BusyHoldsJob'
    BY <1>4 DEF BusyHoldsJob, TypeOK
  <2> QED BY <2>2, <2>3, <2>4, <2>5, <2>6 DEF Moves
<1>5. CASE Pending = {} /\ jobs' = [j \in Job |-> AfterReap(j)] /\ UNCHANGED workers
  BY <1>2, <1>3, <1>5 DEF TypeOK
<1>6. CASE \E c \in Job :
             /\ Oldest(c)
             /\ jobs' = [j \in Job |->
                  IF j = c THEN [jobs[j] EXCEPT !.status = "running", !.stale = FALSE]
                           ELSE AfterReap(j)]
             /\ workers' = [workers EXCEPT ![w] =
                  [at |-> "claimed", job |-> c, track |-> jobs[c].track]]
  BY <1>2, <1>4, <1>6, Zenon
<1> QED BY <1>5, <1>6, Zenon DEF Poll

---------------------------------------------------------------------------
(* What every step does to jobs, tracks and workers.                       *)
LEMMA TypeInductive ==
  ASSUME TypeOK, BusyHoldsJob, [Next]_vars
  PROVE  TypeOK' /\ BusyHoldsJob' /\ Moves
<1> DEFINE Rest == /\ tracks' \in [Track -> TrackRow] /\ blobs' \subseteq Track
                   /\ requests' \in [Upload -> {"new", "admitted", "ended"}]
                   /\ workers' \in [Worker -> Hand] /\ BusyHoldsJob'
                   /\ crashes' \in 0..MaxCrash
<1>0. Upload \subseteq Track /\ Corpus \subseteq Track
  BY DEF Track
<1>1. ASSUME NEW t \in Upload, Admit(t) \/ Store(t) \/ RollBack(t) PROVE Moves /\ Rest
  <2>1. CASE Admit(t)
    BY <2>1, JobsStay DEF Admit, TypeOK, BusyHoldsJob
  <2>2. CASE RollBack(t)
    BY <2>2, JobsStay DEF RollBack, TypeOK, BusyHoldsJob
  <2>3. CASE Store(t)
    <3>1. Moves
      BY <1>0, <2>3, Inserted DEF Store
    <3>2. tracks' \in [Track -> TrackRow]
      BY <1>0, <2>3 DEF Store, TypeOK, TrackRow
    <3>3. requests' \in [Upload -> {"new", "admitted", "ended"}]
      BY <2>3 DEF Store, TypeOK
    <3> QED BY <1>0, <2>3, <3>1, <3>2, <3>3 DEF Store, TypeOK, BusyHoldsJob
  <2> QED BY <1>1, <2>1, <2>2, <2>3
<1>2. ASSUME NEW t \in Corpus, LoadNew(t) \/ Reload(t) PROVE Moves /\ Rest
  <2>1. CASE LoadNew(t)
    <3>1. Moves
      BY <1>0, <2>1, Inserted DEF LoadNew
    <3>2. tracks' \in [Track -> TrackRow]
      BY <1>0, <2>1 DEF LoadNew, TypeOK, TrackRow
    <3> QED BY <1>0, <2>1, <3>1, <3>2 DEF LoadNew, TypeOK, BusyHoldsJob
  <2>2. CASE Reload(t)
    <3>1. Moves
      BY <1>0, <2>2, Inserted, JobsStay DEF Reload, Requeue
    <3>2. tracks' \in [Track -> TrackRow]
      BY <1>0, <2>2 DEF Reload, Requeue, TypeOK, TrackRow
    <3> QED BY <1>0, <2>2, <3>1, <3>2 DEF Reload, TypeOK, BusyHoldsJob
  <2> QED BY <1>2, <2>1, <2>2
<1>3. ASSUME NEW t \in Track, DeleteTrack(t) PROVE Moves /\ Rest
  <2>1. Moves
    BY <1>3 DEF DeleteTrack, TypeOK, JobRow, Moves, Forward
  <2>2. tracks' \in [Track -> TrackRow]
    BY <1>3 DEF DeleteTrack, TypeOK, TrackRow
  <2> QED BY <1>3, <2>1, <2>2 DEF DeleteTrack, TypeOK, BusyHoldsJob
<1>4. ASSUME NEW w \in Worker, Poll(w) PROVE Moves /\ Rest
  <2>1. UNCHANGED <<blobs, requests, crashes>>
    BY <1>4 DEF Poll
  <2> QED BY <1>4, <2>1, PollMoves DEF TextsBacked, TypeOK
<1>5. ASSUME NEW w \in Worker, Orphaned(w) \/ Fail(w) PROVE Moves /\ Rest
  <2>1. workers[w].job \in Job
    BY <1>5 DEF Orphaned, Fail, BusyHoldsJob
  <2>2. Moves
    BY <1>5, <2>1, SettledFailed DEF Orphaned, Fail
  <2>3. workers' \in [Worker -> Hand] /\ BusyHoldsJob'
    BY <1>5, <2>1 DEF Orphaned, Fail, TypeOK, Hand, Idle, BusyHoldsJob
  <2> QED BY <1>5, <2>2, <2>3 DEF Orphaned, Fail, TypeOK
<1>6. ASSUME NEW w \in Worker, Start(w) \/ Yield(w) \/ MarkTrackFailed(w) \/ Crash(w)
      PROVE  Moves /\ Rest
  <2>1. Moves
    BY <1>6, JobsStay DEF Start, Yield, MarkTrackFailed, Crash
  <2>2. tracks' \in [Track -> TrackRow]
    BY <1>6 DEF Start, Yield, MarkTrackFailed, Crash, Exists, TypeOK, TrackRow
  <2>3. workers' \in [Worker -> Hand] /\ BusyHoldsJob'
    BY <1>6 DEF Start, Yield, MarkTrackFailed, Crash, TypeOK, Hand, Idle, BusyHoldsJob
  <2>4. crashes' \in 0..MaxCrash
    BY <1>6, TranscriptionAssumption DEF Start, Yield, MarkTrackFailed, Crash, TypeOK
  <2> QED BY <1>6, <2>1, <2>2, <2>3, <2>4 DEF Start, Yield, MarkTrackFailed, Crash, TypeOK
<1>7. ASSUME NEW w \in Worker, Persist(w) PROVE Moves /\ Rest
  <2>1. workers[w].job \in Job
    BY <1>7 DEF Persist, BusyHoldsJob
  <2>2. Moves
    BY <1>7, <2>1 DEF Persist, TypeOK, JobRow, Running, Moves, Forward
  <2>3. tracks' \in [Track -> TrackRow]
    BY <1>7, <2>1 DEF Persist, TypeOK, TrackRow
  <2>4. workers' \in [Worker -> Hand] /\ BusyHoldsJob'
    BY <1>7, <2>1 DEF Persist, TypeOK, Hand, Idle, BusyHoldsJob
  <2> QED BY <1>7, <2>2, <2>3, <2>4 DEF Persist, TypeOK
<1>8. ASSUME NEW j \in Job, GoesStale(j) PROVE Moves /\ Rest
  <2>1. Moves
    BY <1>8 DEF GoesStale, Live, TypeOK, JobRow, Moves, Forward
  <2> QED BY <1>8, <2>1 DEF GoesStale, TypeOK, BusyHoldsJob
<1>9. ASSUME UNCHANGED vars PROVE Moves /\ Rest
  BY <1>9, JobsStay DEF vars, TypeOK, BusyHoldsJob
<1>10. Moves /\ Rest
  <2> HIDE DEF Rest
  <2>1. CASE Uploads \/ Loads \/ \E t \in Track : DeleteTrack(t)
    BY <2>1, <1>1, <1>2, <1>3 DEF Uploads, Loads
  <2>2. CASE \E w \in Worker : Works(w) \/ Crash(w)
    BY <2>2, <1>4, <1>5, <1>6, <1>7 DEF Works
  <2>3. CASE \E j \in Job : GoesStale(j)
    BY <2>3, <1>8
  <2>4. CASE Next
    BY <2>1, <2>2, <2>3, <2>4, Zenon DEF Next
  <2> QED BY <1>9, <2>4
<1> QED BY <1>10 DEF Moves, TypeOK

(* Types are kept whatever uploads, loaders, workers and operators do.     *)
THEOREM TypeCorrect == Spec => []TypeOK
<1>1. Init => TypeOK /\ BusyHoldsJob
  BY TranscriptionAssumption DEF Init, TypeOK, BusyHoldsJob, NoRow, JobRow,
     NoTrackRow, TrackRow, Idle, Hand
<1>2. TypeOK /\ BusyHoldsJob /\ [Next]_vars => (TypeOK /\ BusyHoldsJob)'
  BY TypeInductive
<1> QED BY <1>1, <1>2, PTL DEF Spec

---------------------------------------------------------------------------
(* Every transcript is the work of a done job: only the transaction that   *)
(* settles the job writes segments, and no settled job is settled again.   *)
LEMMA BackedInductive ==
  ASSUME TypeOK, BusyHoldsJob, TranscriptIsBacked, [Next]_vars
  PROVE  TranscriptIsBacked'
<1>0. TypeOK' /\ Moves
  BY TypeInductive
<1>1. ASSUME TextsBacked PROVE TranscriptIsBacked'
  <2> SUFFICES ASSUME NEW t \in Track
               PROVE  /\ tracks'[t].text # NoJob => jobs'[tracks'[t].text].status = "done"
                      /\ tracks'[t].status = "done" => tracks'[t].text # NoJob
    BY DEF TranscriptIsBacked
  <2>1. tracks[t].text \in Job \cup {NoJob}
    BY DEF TypeOK, TrackRow
  <2>2. tracks[t].text # NoJob => jobs'[tracks[t].text].status = "done"
    BY <1>0, <2>1 DEF Moves, Forward, TranscriptIsBacked
  <2> QED BY <1>1, <2>2 DEF TextsBacked, TranscriptIsBacked
<1>2. ASSUME NEW w \in Worker, Persist(w) PROVE TranscriptIsBacked'
  <2>1. workers[w].job \in Job /\ workers[w].job # NoJob
    BY <1>2, TranscriptionAssumption DEF Persist, BusyHoldsJob
  <2>2. jobs'[workers[w].job].status = "done"
    BY <1>2, <2>1 DEF Persist, TypeOK, JobRow
  <2>3. ASSUME NEW t \in Track, tracks'[t] = tracks[t]
        PROVE  /\ tracks'[t].text # NoJob => jobs'[tracks'[t].text].status = "done"
               /\ tracks'[t].status = "done" => tracks'[t].text # NoJob
    <3>1. tracks[t].text \in Job \cup {NoJob}
      BY DEF TypeOK, TrackRow
    <3> QED BY <1>0, <2>3, <3>1 DEF Moves, Forward, TranscriptIsBacked
  <2>4. ASSUME NEW t \in Track,
               tracks'[t] = [status |-> "done", text |-> workers[w].job]
        PROVE  /\ tracks'[t].text # NoJob => jobs'[tracks'[t].text].status = "done"
               /\ tracks'[t].status = "done" => tracks'[t].text # NoJob
    BY <2>1, <2>2, <2>4
  <2>5. \A t \in Track : \/ tracks'[t] = tracks[t]
                         \/ tracks'[t] = [status |-> "done", text |-> workers[w].job]
    BY <1>2 DEF Persist, TypeOK
  <2> QED BY <2>3, <2>4, <2>5 DEF TranscriptIsBacked
<1>3. ASSUME NEW t \in Track,
             \/ t \in Upload /\ (Admit(t) \/ Store(t) \/ RollBack(t))
             \/ LoadNew(t) \/ Reload(t) \/ DeleteTrack(t)
      PROVE  TextsBacked
  BY <1>0, <1>3, TracksStay DEF Admit, Store, RollBack, LoadNew, Reload, Requeue, DeleteTrack,
     TextsBacked, TypeOK, TrackRow
<1>4. ASSUME NEW w \in Worker, Start(w) \/ MarkTrackFailed(w)
      PROVE  TextsBacked
  BY <1>0, <1>4, TracksStay DEF Start, MarkTrackFailed, TextsBacked, TypeOK, TrackRow
<1>5. ASSUME NEW w \in Worker, Poll(w) \/ Orphaned(w) \/ Yield(w) \/ Fail(w) \/ Crash(w)
      PROVE  TextsBacked
  BY <1>5, TracksStay, PollMoves DEF Orphaned, Yield, Fail, Crash
<1>6. CASE UNCHANGED vars \/ \E j \in Job : GoesStale(j)
  BY <1>1, <1>6, TracksStay DEF GoesStale, vars
<1>7. CASE Uploads \/ Loads \/ \E t \in Track : DeleteTrack(t)
  BY <1>1, <1>3, <1>7 DEF Uploads, Loads, Track
<1>8. CASE \E w \in Worker : Works(w) \/ Crash(w)
  BY <1>1, <1>2, <1>4, <1>5, <1>8 DEF Works
<1> QED BY <1>6, <1>7, <1>8 DEF Next

---------------------------------------------------------------------------
(* The cap: only an admitted upload adds a job of uploads, the lock lets   *)
(* only one be admitted at a time, and rows are never deleted.             *)
LEMMA UploadJobsFinite ==
  ASSUME TypeOK
  PROVE  /\ IsFiniteSet(Ledger) /\ IsFiniteSet(UploadJobs)
         /\ Cardinality(Ledger) \in Nat /\ Cardinality(UploadJobs) \in Nat
         /\ Cardinality(UploadJobs) <= Cardinality(Ledger)
<1>1. IsFiniteSet(Job)
  BY TranscriptionAssumption, FS_Interval DEF Job
<1>2. Ledger \subseteq Job /\ UploadJobs \subseteq Ledger
  BY DEF Ledger, UploadJobs
<1>3. IsFiniteSet(Ledger)
  BY <1>1, <1>2, FS_Subset
<1>4. IsFiniteSet(UploadJobs) /\ Cardinality(UploadJobs) <= Cardinality(Ledger)
  BY <1>2, <1>3, FS_Subset
<1> QED BY <1>3, <1>4, FS_CardinalityType

(* A step that adds no job of uploads.                                     *)
LEMMA NoneAdded ==
  ASSUME TypeOK, Moves, NoUploadJob
  PROVE  UploadJobs' \subseteq UploadJobs
BY DEF UploadJobs, Ledger, NoUploadJob, Moves, Forward, TypeOK, JobRow

CapInv == OneAdmitted /\ AdmittedHasRoom /\ CapSurvivesDeletion

LEMMA CapKeptByOthers ==
  ASSUME IInv, TypeOK', Moves, NoUploadJob,
         \A t \in Upload : requests'[t] = "admitted" => requests[t] = "admitted"
  PROVE  CapInv'
<1>1. UploadJobs' \subseteq UploadJobs
  BY NoneAdded DEF IInv
<1>2. IsFiniteSet(UploadJobs) /\ Cardinality(UploadJobs) \in Nat
  BY UploadJobsFinite DEF IInv
<1>3. Cardinality(UploadJobs') <= Cardinality(UploadJobs)
  BY <1>1, <1>2, FS_Subset
<1>4. Cardinality(UploadJobs') \in Nat
  BY <1>1, <1>2, FS_Subset, FS_CardinalityType
<1>5. Cardinality(UploadJobs)' = Cardinality(UploadJobs')
  OBVIOUS
<1> QED
  BY <1>2, <1>3, <1>4, <1>5, TranscriptionAssumption
  DEF CapInv, IInv, OneAdmitted, AdmittedHasRoom, CapSurvivesDeletion

LEMMA CapKeptByAdmit ==
  ASSUME IInv, TypeOK', NEW t \in Upload, Admit(t)
  PROVE  CapInv'
<1>1. UploadJobs' = UploadJobs
  BY DEF Admit, UploadJobs, Ledger
<1>2. Cardinality(UploadJobs) \in Nat /\ Cardinality(UploadJobs) <= UsedToday /\ UsedToday \in Nat
  BY UploadJobsFinite DEF IInv, UsedToday
<1>3. \A u \in Upload : requests'[u] = "admitted" => u = t /\ UsedToday < DailyCap
  BY <1>2, TranscriptionAssumption DEF Admit, Unlocked, IInv, TypeOK
<1>4. OneAdmitted'
  BY <1>3 DEF OneAdmitted
<1>5. AdmittedHasRoom'
  BY <1>1, <1>2, <1>3, TranscriptionAssumption DEF AdmittedHasRoom
<1> QED BY <1>1, <1>4, <1>5 DEF CapInv, IInv, CapSurvivesDeletion

LEMMA CapKeptByStore ==
  ASSUME IInv, TypeOK', NEW t \in Upload, Store(t)
  PROVE  CapInv'
<1>1. PICK j \in Job : Free(j) /\ jobs' = [jobs EXCEPT ![j] = Queued(t, "upload")]
  BY DEF Store
<1>2. UploadJobs' \subseteq UploadJobs \cup {j}
  BY <1>1 DEF UploadJobs, Ledger, IInv, TypeOK
<1>3. IsFiniteSet(UploadJobs) /\ Cardinality(UploadJobs) \in Nat
      /\ Cardinality(UploadJobs) < DailyCap
  BY UploadJobsFinite DEF Store, IInv, AdmittedHasRoom
<1>4. IsFiniteSet(UploadJobs \cup {j})
      /\ Cardinality(UploadJobs \cup {j}) <= Cardinality(UploadJobs) + 1
  <2>1. /\ IsFiniteSet(UploadJobs \cup {j})
        /\ Cardinality(UploadJobs \cup {j}) =
             IF j \in UploadJobs THEN Cardinality(UploadJobs) ELSE Cardinality(UploadJobs) + 1
    BY <1>3, FS_AddElement
  <2> QED BY <1>3, <2>1
<1>5. Cardinality(UploadJobs \cup {j}) \in Nat
  BY <1>4, FS_CardinalityType
<1>6. Cardinality(UploadJobs') <= Cardinality(UploadJobs \cup {j})
      /\ Cardinality(UploadJobs') \in Nat
  BY <1>2, <1>4, FS_Subset, FS_CardinalityType
<1>7. CapSurvivesDeletion'
  BY <1>3, <1>4, <1>5, <1>6, TranscriptionAssumption DEF CapSurvivesDeletion
<1>8. \A u \in Upload : requests'[u] # "admitted"
  BY DEF Store, IInv, TypeOK, OneAdmitted
<1> QED BY <1>7, <1>8 DEF CapInv, OneAdmitted, AdmittedHasRoom

LEMMA CapInductive ==
  ASSUME IInv, [Next]_vars
  PROVE  CapInv'
<1>0. TypeOK' /\ Moves
  BY TypeInductive DEF IInv
<1>1. ASSUME NEW t \in Upload, Admit(t) \/ Store(t) PROVE CapInv'
  BY <1>0, <1>1, CapKeptByAdmit, CapKeptByStore
<1>2. ASSUME NEW t \in Upload, RollBack(t) PROVE CapInv'
  BY <1>0, <1>2, CapKeptByOthers, JobsStay DEF RollBack, IInv, TypeOK
<1>3. ASSUME NEW t \in Corpus, LoadNew(t) \/ Reload(t) PROVE CapInv'
  <2>1. NoUploadJob
    BY <1>3, Inserted, JobsStay DEF LoadNew, Reload, Requeue, IInv, Track
  <2> QED BY <1>0, <1>3, <2>1, CapKeptByOthers DEF LoadNew, Reload
<1>4. ASSUME NEW t \in Track, DeleteTrack(t) PROVE CapInv'
  <2>1. NoUploadJob
    BY <1>4 DEF DeleteTrack, IInv, TypeOK, JobRow, NoUploadJob
  <2> QED BY <1>0, <1>4, <2>1, CapKeptByOthers DEF DeleteTrack
<1>5. ASSUME NEW w \in Worker, Works(w) \/ Crash(w) PROVE CapInv'
  <2>1. UNCHANGED requests
    BY <1>5 DEF Works, Poll, Orphaned, Start, Persist, Yield, Fail, MarkTrackFailed, Crash
  <2>2. CASE Orphaned(w) \/ Fail(w)
    <3>1. workers[w].job \in Job
      BY <2>2 DEF Orphaned, Fail, IInv, BusyHoldsJob
    <3> QED BY <1>0, <2>1, <2>2, <3>1, SettledFailed, CapKeptByOthers DEF Orphaned, Fail, IInv
  <2>3. CASE Persist(w)
    <3>1. NoUploadJob
      BY <2>3 DEF Persist, Running, IInv, TypeOK, JobRow, NoUploadJob
    <3> QED BY <1>0, <2>1, <3>1, CapKeptByOthers
  <2>4. CASE Poll(w)
    BY <1>0, <2>1, <2>4, PollMoves, CapKeptByOthers DEF IInv
  <2>5. CASE Start(w) \/ Yield(w) \/ MarkTrackFailed(w) \/ Crash(w)
    BY <1>0, <2>1, <2>5, JobsStay, CapKeptByOthers
    DEF IInv, Start, Yield, MarkTrackFailed, Crash
  <2> QED BY <1>5, <2>2, <2>3, <2>4, <2>5 DEF Works
<1>6. ASSUME NEW j \in Job, GoesStale(j) PROVE CapInv'
  <2>1. NoUploadJob
    BY <1>6 DEF GoesStale, Live, IInv, TypeOK, JobRow, NoUploadJob
  <2> QED BY <1>0, <1>6, <2>1, CapKeptByOthers DEF GoesStale
<1>7. CASE UNCHANGED vars
  BY <1>0, <1>7, JobsStay, CapKeptByOthers DEF vars, IInv
<1>8. CASE Next
  BY <1>1, <1>2, <1>3, <1>4, <1>5, <1>6, <1>8, Zenon DEF Next, Uploads, Loads
<1> QED BY <1>7, <1>8

THEOREM InvariantHolds == Spec => []IInv
<1>1. Init => IInv
  <2> SUFFICES ASSUME Init PROVE IInv
    OBVIOUS
  <2>1. TypeOK /\ BusyHoldsJob
    BY TranscriptionAssumption DEF Init, TypeOK, BusyHoldsJob, NoRow, JobRow,
       NoTrackRow, TrackRow, Idle, Hand
  <2>2. UploadJobs = {}
    BY DEF Init, UploadJobs, Ledger, NoRow
  <2>3. CapSurvivesDeletion
    BY <2>2, FS_EmptySet, TranscriptionAssumption DEF CapSurvivesDeletion
  <2> QED BY <2>1, <2>3 DEF Init, IInv, TranscriptIsBacked, NoTrackRow, OneAdmitted, AdmittedHasRoom
<1>2. IInv /\ [Next]_vars => IInv'
  BY TypeInductive, BackedInductive, CapInductive DEF IInv, CapInv
<1> QED BY <1>1, <1>2, PTL DEF Spec

(* No transcript is shown that no finished job stands behind.              *)
THEOREM Backed == Spec => []TranscriptIsBacked
<1>1. IInv => TranscriptIsBacked
  BY DEF IInv
<1> QED BY <1>1, InvariantHolds, PTL

(* No race of uploads and no delete lets a user past the daily cap.        *)
THEOREM CapHolds == Spec => []CapSurvivesDeletion
<1>1. IInv => CapSurvivesDeletion
  BY DEF IInv
<1> QED BY <1>1, InvariantHolds, PTL

(* Whoever settles it, a job is settled once, and never in the queue.      *)
THEOREM Forwards == Spec => JobsGoForward
<1>1. IInv /\ [Next]_vars => [EndedStays /\ BacklogIsDrained]_vars
  <2> SUFFICES ASSUME IInv, [Next]_vars PROVE EndedStays /\ BacklogIsDrained
    OBVIOUS
  <2>1. Moves
    BY TypeInductive DEF IInv
  <2> QED BY <2>1 DEF Moves, Forward, EndedStays, BacklogIsDrained, Pending
<1> QED BY <1>1, InvariantHolds, PTL DEF Spec, JobsGoForward

(* Reruns that fail or are overtaken leave the transcript there was.       *)
THEOREM Kept == Spec => TranscriptIsKept
<1> DEFINE Keeps == \A t \in Track : tracks[t].text # NoJob
                      => tracks'[t].text # NoJob \/ ~Exists(t)'
<1>1. IInv /\ [Next]_vars => [Keeps]_vars
  <2> SUFFICES ASSUME IInv, Next PROVE Keeps
    OBVIOUS
  <2>1. ASSUME NEW t \in Track,
               \/ t \in Upload /\ (Admit(t) \/ Store(t) \/ RollBack(t))
               \/ LoadNew(t) \/ Reload(t) \/ DeleteTrack(t)
        PROVE  Keeps
    <3>1. CASE DeleteTrack(t)
      BY <3>1 DEF DeleteTrack, Exists, IInv, TypeOK, TrackRow
    <3>2. CASE \/ t \in Upload /\ (Admit(t) \/ Store(t) \/ RollBack(t))
               \/ LoadNew(t)
      BY <3>2 DEF Admit, Store, RollBack, LoadNew, IInv, TypeOK, TrackRow
    <3>3. CASE Reload(t)
      BY <3>3 DEF Reload, Requeue, IInv, TypeOK, TrackRow
    <3> QED BY <2>1, <3>1, <3>2, <3>3
  <2>2. ASSUME NEW w \in Worker, Persist(w) PROVE Keeps
    <3>1. workers[w].job \in Job /\ workers[w].job # NoJob
      BY <2>2, TranscriptionAssumption DEF Persist, IInv, BusyHoldsJob
    <3> QED BY <2>2, <3>1 DEF Persist, IInv, TypeOK, TrackRow
  <2>3. ASSUME NEW w \in Worker,
               Poll(w) \/ Orphaned(w) \/ Start(w) \/ Yield(w) \/ Fail(w)
               \/ MarkTrackFailed(w) \/ Crash(w)
        PROVE  Keeps
    <3>1. CASE Poll(w)
      BY <3>1 DEF Poll, TracksAfterReap, IInv, TypeOK, TrackRow
    <3>2. CASE Start(w) \/ MarkTrackFailed(w)
      BY <3>2 DEF Start, MarkTrackFailed, IInv, TypeOK, TrackRow
    <3>3. CASE Orphaned(w) \/ Yield(w) \/ Fail(w) \/ Crash(w)
      BY <3>3 DEF Orphaned, Yield, Fail, Crash
    <3> QED BY <2>3, <3>1, <3>2, <3>3
  <2>4. CASE \E j \in Job : GoesStale(j)
    BY <2>4 DEF GoesStale
  <2> HIDE DEF Keeps
  <2>5. CASE Uploads \/ Loads \/ \E t \in Track : DeleteTrack(t)
    BY <2>1, <2>5 DEF Uploads, Loads, Track
  <2>6. CASE \E w \in Worker : Works(w) \/ Crash(w)
    BY <2>2, <2>3, <2>6 DEF Works
  <2> QED BY <2>4, <2>5, <2>6 DEF Next
<1> QED BY <1>1, InvariantHolds, PTL DEF Spec, TranscriptIsKept
=============================================================================
