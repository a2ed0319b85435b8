--------------------------- MODULE Transcription ---------------------------
(***************************************************************************)
(* Audio to transcript: one user's uploads (POST /audio) and an operator's *)
(* corpus loader put tracks and jobs in the database; the workers of       *)
(* tools/audio_stt claim the jobs, run Whisper outside any transaction and *)
(* persist the segments.  Two ledgers say how far a track is: its jobs'    *)
(* status and its own transcript_status, which the Listen page reads.      *)
(* The model spans one day of the cap, so no job is old enough to be swept.*)
(***************************************************************************)
EXTENDS Naturals, FiniteSets

CONSTANTS
  Worker,      \* worker processes: SKIP LOCKED lets several coexist
  Upload,      \* tracks uploads create, one request each
  Corpus,      \* tracks the loader creates from the files of a set
  MaxJobs,     \* job rows                                             (bound)
  MaxCrash,    \* worker crashes, and claims whose answer is lost      (bound)
  DailyCap,    \* AUDIO_UPLOAD_DAILY_COUNT_CAP
  Swallows,    \* may a worker's bookkeeping write fail, unnoticed?
  NoJob, NoTrack

Track == Upload \cup Corpus
Job == 1..MaxJobs

ASSUME TranscriptionAssumption ==
  /\ IsFiniteSet(Upload) /\ Upload \cap Corpus = {}
  /\ MaxJobs \in Nat /\ MaxCrash \in Nat /\ DailyCap \in Nat
  /\ Swallows \in BOOLEAN
  /\ NoJob \notin Job /\ NoTrack \notin Track

VARIABLES
  jobs,      \* audio_transcription_jobs rows
  tracks,    \* audio_tracks rows, each with its audio_transcript_segments
  blobs,     \* tracks whose audio file is on disk
  requests,  \* upload requests
  workers,   \* what each worker is doing
  crashes

vars == <<jobs, tracks, blobs, requests, workers, crashes>>

---------------------------------------------------------------------------
(* A job row; the user's jobs are inserted, and so numbered, one by one.   *)
(* stale: its started_at, before a claim its created_at, is past the stale *)
(* threshold.                                                              *)
JobRow == [status : {"none", "pending", "running", "done", "failed"},
           track : Track \cup {NoTrack}, by : {"upload", "loader"},
           stale : BOOLEAN]
NoRow == [status |-> "none", track |-> NoTrack, by |-> "loader",
          stale |-> FALSE]
Queued(t, who) == [status |-> "pending", track |-> t, by |-> who,
                   stale |-> FALSE]

Ledger == {j \in Job : jobs[j].status # "none"}
Pending == {j \in Job : jobs[j].status = "pending"}
Running(j) == jobs[j].status = "running"
Live(j) == jobs[j].status \in {"pending", "running"}
LiveJob(t) == \E j \in Job : jobs[j].track = t /\ Live(j)
Free(j) == j \in Job /\ Ledger = 1..(j - 1)

(* A track row: its transcript_status and the job whose run wrote its      *)
(* segments; ids of deleted rows are not used again.                       *)
TrackRow == [status : {"none", "pending", "running", "done", "failed", "gone"},
             text : Job \cup {NoJob}]
NoTrackRow == [status |-> "none", text |-> NoJob]
Exists(t) == tracks[t].status \notin {"none", "gone"}

(* A worker: idle, holding a claimed job, transcribing, its last COMMIT    *)
(* unanswered, or about to mark the track of a failed run; with what its   *)
(* claim returned.                                                         *)
Hand == [at : {"idle", "claimed", "whisper", "unheard", "mark"},
         job : Job \cup {NoJob}, track : Track \cup {NoTrack}]
Idle == [at |-> "idle", job |-> NoJob, track |-> NoTrack]

TypeOK ==
  /\ jobs \in [Job -> JobRow]
  /\ tracks \in [Track -> TrackRow]
  /\ blobs \subseteq Track
  /\ requests \in [Upload -> {"new", "admitted", "ended"}]
  /\ workers \in [Worker -> Hand]
  /\ crashes \in 0..MaxCrash

Init ==
  /\ jobs = [j \in Job |-> NoRow]
  /\ tracks = [t \in Track |-> NoTrackRow]
  /\ blobs = {}
  /\ requests = [t \in Upload |-> "new"]
  /\ workers = [w \in Worker |-> Idle]
  /\ crashes = 0

---------------------------------------------------------------------------
(* POST /audio                                                             *)

(* The advisory lock is held from the count to the end of the transaction. *)
Unlocked == \A t \in Upload : requests[t] # "admitted"

(* Mutant: the day's jobs are counted through their tracks. *)
UsedOnTracks == Cardinality({j \in Ledger : jobs[j].track # NoTrack})

(* The jobs of the day, those of deleted tracks included.                  *)
UsedToday == Cardinality(Ledger)

(* The request takes the lock and is counted against the cap: 429, or on.  *)
Admit(t) ==
  /\ requests[t] = "new" /\ Unlocked
  /\ requests' = [requests EXCEPT
       ![t] = IF UsedToday >= DailyCap THEN "ended" ELSE "admitted"]
  /\ UNCHANGED <<jobs, tracks, blobs, workers, crashes>>

(* Track and job are committed, the file on disk before them.  When the    *)
(* answer to the COMMIT is lost the handler cleans the file up, or fails   *)
(* to.                                                                     *)
Store(t) ==
  /\ requests[t] = "admitted"
  /\ \E j \in Job : Free(j) /\ jobs' = [jobs EXCEPT ![j] = Queued(t, "upload")]
  /\ tracks' = [tracks EXCEPT ![t].status = "pending"]
  /\ blobs' \in {blobs, blobs \cup {t}}
  /\ requests' = [requests EXCEPT ![t] = "ended"]
  /\ UNCHANGED <<workers, crashes>>

(* The transaction fails and rolls back; at worst a file no row names is   *)
(* left on disk.                                                           *)
RollBack(t) ==
  /\ requests[t] = "admitted"
  /\ requests' = [requests EXCEPT ![t] = "ended"]
  /\ UNCHANGED <<jobs, tracks, blobs, workers, crashes>>

---------------------------------------------------------------------------
(* load_audio_corpus.py, one short transaction per file                    *)

(* No row: the file is copied, track and job are inserted; a lost answer   *)
(* unlinks the file of rows that are there.                                *)
LoadNew(t) ==
  /\ t \in Corpus /\ tracks[t].status = "none"
  /\ \E j \in Job : Free(j) /\ jobs' = [jobs EXCEPT ![j] = Queued(t, "loader")]
  /\ tracks' = [tracks EXCEPT ![t].status = "pending"]
  /\ blobs' \in {blobs, blobs \cup {t}}
  /\ UNCHANGED <<requests, workers, crashes>>

(* A row: a missing file is copied again whatever the status; unless the   *)
(* track is done or has a live job it is queued again, and a failed track  *)
(* shows it.                                                               *)
Requeue(t) ==
  IF tracks[t].status = "done" \/ LiveJob(t) THEN UNCHANGED <<jobs, tracks>>
  ELSE /\ \E j \in Job :
            Free(j) /\ jobs' = [jobs EXCEPT ![j] = Queued(t, "loader")]
       /\ tracks' = [tracks EXCEPT
            ![t].status = IF @ = "failed" THEN "pending" ELSE @]

Reload(t) ==
  /\ t \in Corpus /\ Exists(t)
  /\ Requeue(t)
  /\ blobs' = blobs \cup {t}
  /\ UNCHANGED <<requests, workers, crashes>>

(* An operator deletes a set: its tracks and their segments go with it, its*)
(* jobs stay without a track, its files stay on disk.                      *)
DeleteTrack(t) ==
  /\ Exists(t)
  /\ tracks' = [tracks EXCEPT ![t] = [status |-> "gone", text |-> NoJob]]
  /\ jobs' = [j \in Job |-> IF jobs[j].track = t
                            THEN [jobs[j] EXCEPT !.track = NoTrack] ELSE jobs[j]]
  /\ UNCHANGED <<blobs, requests, workers, crashes>>

---------------------------------------------------------------------------
(* The worker                                                              *)

(* Mutant: a queued job can be stale too. *)
StaleAny(j) == Live(j) /\ jobs[j].stale

Stale(j) == Running(j) /\ jobs[j].stale

(* Mutant: an empty queue ends the poll before the reaping. *)
ReapedIfQueued == {j \in Job : Stale(j) /\ Pending # {}}

Reaped == {j \in Job : Stale(j)}
Stranded == {jobs[j].track : j \in Reaped} \ {NoTrack}

(* The job and the tracks a poll leaves: a track whose newer job settled it*)
(* keeps what it says.                                                     *)
AfterReap(j) == IF j \in Reaped THEN [jobs[j] EXCEPT !.status = "failed"] ELSE jobs[j]
TracksAfterReap ==
  [t \in Track |->
     IF t \in Stranded /\ tracks[t].status = "running"
     THEN [tracks[t] EXCEPT !.status = "failed"] ELSE tracks[t]]

Oldest(j) == j \in Pending /\ \A k \in Pending : j <= k

(* A poll: stale runs are reaped with the tracks they stranded, and the    *)
(* oldest pending job is claimed, in one transaction.                      *)
Poll(w) ==
  /\ workers[w].at = "idle"
  /\ tracks' = TracksAfterReap
  /\ \/ /\ Pending = {}
        /\ jobs' = [j \in Job |-> AfterReap(j)]
        /\ UNCHANGED workers
     \/ \E c \in Job :
          /\ Oldest(c)
          /\ jobs' = [j \in Job |->
               IF j = c THEN [jobs[j] EXCEPT !.status = "running", !.stale = FALSE]
                        ELSE AfterReap(j)]
          /\ workers' = [workers EXCEPT ![w] =
               [at |-> "claimed", job |-> c, track |-> jobs[c].track]]
  /\ UNCHANGED <<blobs, requests, crashes>>

(* settle_failed: only a running job, and its errors are swallowed.        *)
SettleFailed(j) ==
  \/ Running(j) /\ jobs' = [jobs EXCEPT ![j].status = "failed"]
  \/ (Swallows \/ ~Running(j)) /\ UNCHANGED jobs

(* The track is gone, before the claim or since: Whisper never runs.       *)
Orphaned(w) ==
  /\ workers[w].at = "claimed"
  /\ workers[w].track \in Track => ~Exists(workers[w].track)
  /\ SettleFailed(workers[w].job)
  /\ workers' = [workers EXCEPT ![w] = Idle]
  /\ UNCHANGED <<tracks, blobs, requests, crashes>>

(* Mutant: the old segments go when the new run starts. *)
StartCleared(w) ==
  /\ workers[w].at = "claimed"
  /\ workers[w].track \in Track /\ Exists(workers[w].track)
  /\ tracks' = [tracks EXCEPT
       ![workers[w].track] = [status |-> "running", text |-> NoJob]]
  /\ workers' = [workers EXCEPT ![w].at = "whisper"]
  /\ UNCHANGED <<jobs, blobs, requests, crashes>>

(* The track is marked running, whatever has become of the job since.      *)
Start(w) ==
  /\ workers[w].at = "claimed"
  /\ workers[w].track \in Track /\ Exists(workers[w].track)
  /\ tracks' = [tracks EXCEPT ![workers[w].track].status = "running"]
  /\ workers' = [workers EXCEPT ![w].at = "whisper"]
  /\ UNCHANGED <<jobs, blobs, requests, crashes>>

(* The transaction that replaces the segments and settles the job, unless  *)
(* the job was settled elsewhere.  A track deleted since refuses segments  *)
(* (Fail), but not the empty transcript of silence.  An answer lost after  *)
(* the COMMIT is taken for a failure of the run.                           *)
Persist(w) ==
  LET j == workers[w].job
      t == workers[w].track
  IN  /\ workers[w].at = "whisper" /\ t \in blobs
      /\ Running(j)
      /\ jobs' = [jobs EXCEPT ![j].status = "done"]
      /\ tracks' = IF Exists(t)
                   THEN [tracks EXCEPT ![t] = [status |-> "done", text |-> j]]
                   ELSE tracks
      /\ \/ workers' = [workers EXCEPT ![w] = Idle]
         \/ workers' = [workers EXCEPT ![w].at = "unheard"]
      /\ UNCHANGED <<blobs, requests, crashes>>

(* Mutant: the segments of a job settled elsewhere are kept. *)
YieldPersisted(w) ==
  /\ workers[w].at = "whisper" /\ workers[w].track \in blobs
  /\ ~Running(workers[w].job)
  /\ tracks' = [tracks EXCEPT ![workers[w].track].text = workers[w].job]
  /\ workers' = [workers EXCEPT ![w] = Idle]
  /\ UNCHANGED <<jobs, blobs, requests, crashes>>

(* The job was settled elsewhere: everything is rolled back, the worker    *)
(* yields.                                                                 *)
Yield(w) ==
  /\ workers[w].at = "whisper" /\ workers[w].track \in blobs
  /\ ~Running(workers[w].job)
  /\ workers' = [workers EXCEPT ![w] = Idle]
  /\ UNCHANGED <<jobs, tracks, blobs, requests, crashes>>

(* Any other exception: a missing file, Whisper, the database, which may   *)
(* also have chosen this run to end a deadlock with a poll: persist locks  *)
(* track then job, reaping job then track.                                 *)
Fail(w) ==
  /\ workers[w].at \in {"claimed", "whisper", "unheard"}
  /\ workers[w].track \in Track
  /\ SettleFailed(workers[w].job)
  /\ workers' = [workers EXCEPT ![w].at = "mark"]
  /\ UNCHANGED <<tracks, blobs, requests, crashes>>

(* _mark_track_failed, its errors swallowed too.                           *)
MarkTrackFailed(w) ==
  /\ workers[w].at = "mark"
  /\ LET t == workers[w].track
     IN  \/ Exists(t) /\ tracks' = [tracks EXCEPT ![t].status = "failed"]
         \/ (Swallows \/ ~Exists(t)) /\ UNCHANGED tracks
  /\ workers' = [workers EXCEPT ![w] = Idle]
  /\ UNCHANGED <<jobs, blobs, requests, crashes>>

(* The process dies and is restarted, or the answer to its claim is lost.  *)
Crash(w) ==
  /\ workers[w].at # "idle" /\ crashes < MaxCrash
  /\ workers' = [workers EXCEPT ![w] = Idle]
  /\ crashes' = crashes + 1
  /\ UNCHANGED <<jobs, tracks, blobs, requests>>

(* AUDIO_STALE_RUN_MINUTES pass, whether or not a run is still alive.      *)
GoesStale(j) ==
  /\ Live(j) /\ ~jobs[j].stale
  /\ jobs' = [jobs EXCEPT ![j].stale = TRUE]
  /\ UNCHANGED <<tracks, blobs, requests, workers, crashes>>

---------------------------------------------------------------------------
Uploads == \E t \in Upload : Admit(t) \/ Store(t) \/ RollBack(t)
Loads == \E t \in Corpus : LoadNew(t) \/ Reload(t)
Works(w) ==
  \/ Poll(w) \/ Orphaned(w) \/ Start(w) \/ Persist(w) \/ Yield(w) \/ Fail(w)
  \/ MarkTrackFailed(w)

Next ==
  \/ Uploads \/ Loads
  \/ \E t \in Track : DeleteTrack(t)
  \/ \E w \in Worker : Works(w) \/ Crash(w)
  \/ \E j \in Job : GoesStale(j)

Spec == Init /\ [][Next]_vars

(* The worker loop survives every error and is restarted after a crash,    *)
(* and the clock goes on.                                                  *)
Fairness ==
  /\ \A w \in Worker : WF_vars(Works(w))
  /\ \A j \in Job : WF_vars(GoesStale(j))
FairSpec == Spec /\ Fairness

---------------------------------------------------------------------------
(* A transcript is the work of a job that ended done, and a track shown    *)
(* done has one: what a reaped run hears after its job was failed is rolled*)
(* back, and no track is announced before its segments are there.          *)
TranscriptIsBacked ==
  \A t \in Track :
    /\ tracks[t].text # NoJob => jobs[tracks[t].text].status = "done"
    /\ tracks[t].status = "done" => tracks[t].text # NoJob

(* Uploads stay under the daily cap: not two requests that count at once,  *)
(* and not deleting a set to upload again, make room for another job.      *)
UploadJobs == {j \in Ledger : jobs[j].by = "upload"}
CapSurvivesDeletion == Cardinality(UploadJobs) <= DailyCap

(* A job that ended stays as it ended, though its worker, a reaper and a   *)
(* worker it was thought dead of may all still settle it; and the backlog  *)
(* is drained, never failed: however old it is, a job nobody claimed only  *)
(* leaves the queue into a worker's hands.                                 *)
EndedStays ==
  \A j \in Job : jobs[j].status \in {"done", "failed"} => jobs'[j].status = jobs[j].status
BacklogIsDrained == \A j \in Pending : jobs'[j].status \in {"pending", "running"}
JobsGoForward == [][EndedStays /\ BacklogIsDrained]_vars

(* A transcript, once there, is only ever replaced by another, or deleted  *)
(* with its track: a failed or overtaken rerun leaves the old one.         *)
TranscriptIsKept ==
  [][\A t \in Track : tracks[t].text # NoJob
       => tracks'[t].text # NoJob \/ ~Exists(t)']_vars

(* Every queued or claimed job ends, its worker dead, its settlement       *)
(* swallowed or its track deleted: no track stays barred from a new job.   *)
JobsEnd == \A j \in Job : Live(j) ~> ~Live(j)

---------------------------------------------------------------------------
(* The inductive invariant behind the safety properties.                   *)

(* A worker at work holds a job.                                           *)
BusyHoldsJob == \A w \in Worker : workers[w].at # "idle" => workers[w].job \in Job

(* The advisory lock excludes, so what was counted under the cap still is. *)
OneAdmitted ==
  \A t, u \in Upload : requests[t] = "admitted" /\ requests[u] = "admitted" => t = u
AdmittedHasRoom ==
  \A t \in Upload : requests[t] = "admitted" => Cardinality(UploadJobs) < DailyCap

IInv ==
  /\ TypeOK /\ BusyHoldsJob /\ TranscriptIsBacked
  /\ OneAdmitted /\ AdmittedHasRoom /\ CapSurvivesDeletion

---------------------------------------------------------------------------
(* What the reaper's comments say: the ledgers of jobs and of tracks settle*)
(* together, so a track shown waiting or running has a live job, or a      *)
(* worker about to mark it failed.                                         *)
LedgersAgree ==
  \A t \in Track :
    tracks[t].status \in {"pending", "running"}
      => \/ LiveJob(t)
         \/ \E w \in Worker : workers[w].at = "mark" /\ workers[w].track = t
=============================================================================
