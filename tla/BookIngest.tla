---------------------------- MODULE BookIngest ----------------------------
(***************************************************************************)
(* The book-upload pipeline.  A POST writes the raw file (zip or PDF) to   *)
(* disk and enqueues a book_uploads row; the runner of some server process *)
(* claims the row, decodes the file page by page (a blob on disk, then a   *)
(* book_pages row) and settles the upload; every process's runner also     *)
(* reaps rows whose run is presumed dead.  Re-uploading a title reuses its *)
(* row.  The blue and green colours share the database and the disk.       *)
(*                                                                         *)
(* One action per database statement or transaction and per file step: a   *)
(* process can crash, and another process, route or reaper can act,        *)
(* between any two of them.                                                *)
(***************************************************************************)
EXTENDS Naturals, FiniteSets

CONSTANTS
  Process,     \* server processes, one per deploy colour
  Title,       \* titles of one user's uploads
  UploadId,    \* book_uploads ids, never reused
  Raw,         \* raw upload files, one per POST (server UUID names)
  MaxPage,     \* pages in a book                                    (bound)
  DailyCap,    \* BOOK_UPLOAD_DAILY_CAP
  SlowRuns,    \* may a live decode outlast BOOK_INGEST_STALE_RUN_MINUTES?
  Unreadable,  \* the active-colour file is missing, unreadable or empty
  Colours,     \* what the active-colour file holds over time
  NoId, NoRaw, NoTitle

ASSUME BookIngestAssumption ==
  /\ MaxPage \in Nat /\ DailyCap \in Nat /\ SlowRuns \in BOOLEAN
  /\ NoId \notin UploadId /\ NoRaw \notin Raw /\ NoTitle \notin Title
  /\ Unreadable \notin Process /\ Colours \subseteq Process \cup {Unreadable}

VARIABLES
  uploads,      \* book_uploads rows
  pages,        \* book_pages rows of each upload
  disk,         \* files under BOOK_UPLOAD_STORAGE_DIR
  post,         \* the POST request that carries each raw file
  doomed,       \* files a DELETE request has still to unlink
  run,          \* each process's runner tick
  activeColor   \* content of ACTIVE_COLOR_FILE

vars == <<uploads, pages, disk, post, doomed, run, activeColor>>
dbVars == <<uploads, pages>>
httpVars == <<post, doomed>>

---------------------------------------------------------------------------
(* Files.  Number 0 is the raw upload; number n is its n-th page image.    *)

File == [src : Raw, no : 0..MaxPage]
RawFile(r) == [src |-> r, no |-> 0]
Blob == [src : Raw, no : 1..MaxPage]
BlobOf(r, n) == [src |-> r, no |-> n]

(* A book_pages row: its page_number and blob_ref.                         *)
Page == [no : Nat \ {0}, blob : Blob]
PageBlobs(id) == {pg.blob : pg \in pages[id]}

(* A book_uploads row.  src, the raw file of the last accepted POST, is    *)
(* history: the code keeps only raw, which it clears at settle.            *)
UploadStatus == {"none", "pending", "processing", "ready", "failed", "gone"}
Upload == [status : UploadStatus, title : Title \cup {NoTitle},
           raw : Raw \cup {NoRaw}, src : Raw \cup {NoRaw},
           count : 0..MaxPage, stale : BOOLEAN]
NoRow(s) == [status |-> s, title |-> NoTitle, raw |-> NoRaw, src |-> NoRaw,
             count |-> 0, stale |-> FALSE]

(* Mutant: a deleted row is still there.                                   *)
EverExisted(id) == uploads[id].status # "none"
Exists(id) == uploads[id].status \notin {"none", "gone"}
Processing(id) == uploads[id].status = "processing"

(* Mutant: the page count is off by one.                                   *)
SettledOneMore(u, status, n) ==
  [u EXCEPT !.status = status, !.count = n + 1, !.raw = NoRaw, !.stale = FALSE]
(* What a settle writes.                                                   *)
Settled(u, status, n) ==
  [u EXCEPT !.status = status, !.count = n, !.raw = NoRaw, !.stale = FALSE]

(* A POST: stored (raw file written), counted (under the daily cap, not    *)
(* yet inserted), rejected (error path, file to be unlinked), accepted     *)
(* (answered 202), closed (failed or lost).                                *)
PostState == {"unsent", "stored", "counted", "rejected", "accepted", "closed"}

(* A runner tick: where it is, the row and raw file it works on, pages     *)
(* yielded so far, files to unlink next, and reaped rows still to clean.   *)
RunState == {"off", "tick", "reapClear", "reapUnlink", "reapRawRef", "gate",
             "claim", "wipe", "wipeUnlink", "decode", "insert", "late",
             "fail", "failClear", "lastUnlink"}
Run == [pc : RunState, id : UploadId \cup {NoId}, raw : Raw \cup {NoRaw},
        n : 0..MaxPage, unlink : SUBSET File,
        reaped : SUBSET [id : UploadId, raw : Raw \cup {NoRaw}]]
At(pc) == [pc |-> pc, id |-> NoId, raw |-> NoRaw, n |-> 0,
           unlink |-> {}, reaped |-> {}]

(* The states in which a run drives the raw file it claimed.               *)
Ingesting == {"wipe", "wipeUnlink", "decode", "insert"}

TypeOK ==
  /\ uploads \in [UploadId -> Upload]
  /\ pages \in [UploadId -> SUBSET Page]
  /\ \A id \in UploadId : IsFiniteSet(pages[id])
  /\ disk \subseteq File
  /\ post \in [Raw -> [pc : PostState, title : Title \cup {NoTitle}]]
  /\ doomed \subseteq File
  /\ run \in [Process -> Run]
  /\ activeColor \in Colours

Init ==
  /\ uploads = [id \in UploadId |-> NoRow("none")]
  /\ pages = [id \in UploadId |-> {}]
  /\ disk = {}
  /\ post = [r \in Raw |-> [pc |-> "unsent", title |-> NoTitle]]
  /\ doomed = {}
  /\ run = [p \in Process |-> At("tick")]
  /\ activeColor \in Colours

---------------------------------------------------------------------------
(* POST /uploads                                                           *)

SetPost(r, pc) == post' = [post EXCEPT ![r].pc = pc]

(* multer writes the raw file before the handler runs.                     *)
PostStore(r, t) ==
  /\ post[r].pc = "unsent"
  /\ post' = [post EXCEPT ![r] = [pc |-> "stored", title |-> t]]
  /\ disk' = disk \cup {RawFile(r)}
  /\ UNCHANGED <<dbVars, doomed, run, activeColor>>

RowsOf(t) == {id \in UploadId : Exists(id) /\ uploads[id].title = t}

(* The title's row is in flight: 409.                                      *)
PostConflict(r) ==
  /\ post[r].pc = "stored"
  /\ \E id \in RowsOf(post[r].title) :
       uploads[id].status \in {"pending", "processing"}
  /\ SetPost(r, "rejected")
  /\ UNCHANGED <<dbVars, disk, doomed, run, activeColor>>

(* Row id becomes the pending upload of raw file r.  The connection may    *)
(* break after the commit: the handler then takes its error path.          *)
Enqueue(r, id) ==
  /\ uploads' = [uploads EXCEPT ![id] =
       [status |-> "pending", title |-> post[r].title, raw |-> r,
        src |-> r, count |-> 0, stale |-> FALSE]]
  /\ SetPost(r, "accepted") \/ SetPost(r, "rejected")

(* The title's row is terminal: the same row is reset to pending with the  *)
(* new raw file.  The previous book's pages stay.                          *)
PostReplace(r) ==
  /\ post[r].pc = "stored"
  /\ \E id \in RowsOf(post[r].title) :
       uploads[id].status \in {"ready", "failed"} /\ Enqueue(r, id)
  /\ UNCHANGED <<pages, disk, doomed, run, activeColor>>

(* A new title: the day's rows are counted, which locks nothing.           *)
PostCount(r) ==
  /\ post[r].pc = "stored"
  /\ RowsOf(post[r].title) = {}
  /\ SetPost(r, IF Cardinality({id \in UploadId : Exists(id)}) >= DailyCap
                  THEN "rejected" ELSE "counted")
  /\ UNCHANGED <<dbVars, disk, doomed, run, activeColor>>

(* The INSERT, under UNIQUE (user_id, title).                              *)
TitleFree(t) == RowsOf(t) = {}
PostInsert(r) ==
  /\ post[r].pc = "counted"
  /\ \/ /\ TitleFree(post[r].title)
        /\ \E id \in UploadId :
             uploads[id].status = "none" /\ Enqueue(r, id)
     \/ /\ ~TitleFree(post[r].title)
        /\ SetPost(r, "rejected")
        /\ UNCHANGED uploads
  /\ UNCHANGED <<pages, disk, doomed, run, activeColor>>

(* A bad body, a bad file or a failed statement.                           *)
PostThrow(r) ==
  /\ post[r].pc \in {"stored", "counted"}
  /\ SetPost(r, "rejected")
  /\ UNCHANGED <<dbVars, disk, doomed, run, activeColor>>

(* The error path unlinks the raw file.                                    *)
PostReject(r) ==
  /\ post[r].pc = "rejected"
  /\ SetPost(r, "closed")
  /\ disk' = disk \ {RawFile(r)}
  /\ UNCHANGED <<dbVars, doomed, run, activeColor>>

(* The process serving the request dies: the raw file stays on disk.       *)
PostLost(r) ==
  /\ post[r].pc \in {"stored", "counted", "rejected"}
  /\ SetPost(r, "closed")
  /\ UNCHANGED <<dbVars, disk, doomed, run, activeColor>>

---------------------------------------------------------------------------
(* DELETE /uploads/:id: the row and, by cascade, its pages go in one       *)
(* transaction; the files are unlinked after the commit.                   *)

DeleteUpload(id) ==
  /\ Exists(id)
  /\ doomed' = doomed \cup PageBlobs(id)
                  \cup {RawFile(r) : r \in {uploads[id].raw} \ {NoRaw}}
  /\ uploads' = [uploads EXCEPT ![id] = NoRow("gone")]
  /\ pages' = [pages EXCEPT ![id] = {}]
  /\ UNCHANGED <<disk, post, run, activeColor>>

DeleteUnlink ==
  /\ doomed # {}
  /\ disk' = disk \ doomed
  /\ doomed' = {}
  /\ UNCHANGED <<dbVars, post, run, activeColor>>

(* The process serving the DELETE dies first: the files stay.              *)
DeleteLost ==
  /\ doomed # {}
  /\ doomed' = {}
  /\ UNCHANGED <<dbVars, disk, post, run, activeColor>>

(* GET /uploads deletes the user's failed rows of 30 days ago, rows only.  *)
(* No run or request of back then is still alive.                          *)
SweepFailed(id) ==
  /\ uploads[id].status = "failed"
  /\ \A p \in Process : run[p].id # id
  /\ uploads' = [uploads EXCEPT ![id] = NoRow("gone")]
  /\ pages' = [pages EXCEPT ![id] = {}]
  /\ UNCHANGED <<disk, httpVars, run, activeColor>>

(* PATCH /uploads/:id/pages/order: the submitted ids are exactly the       *)
(* current pages; they are renumbered 1..k in the submitted order.         *)
Orders(S) == {f \in [S -> 1..Cardinality(S)] :
                \A x, y \in S : f[x] = f[y] => x = y}
ReorderPages(id) ==
  /\ Exists(id)
  /\ \E f \in Orders(pages[id]) :
       pages' = [pages EXCEPT ![id] =
                   {[no |-> f[pg], blob |-> pg.blob] : pg \in pages[id]}]
  /\ UNCHANGED <<uploads, disk, httpVars, run, activeColor>>

---------------------------------------------------------------------------
(* The runner: runBookIngestTick.                                          *)

SetRun(p, r) == run' = [run EXCEPT ![p] = r]
Goto(p, pc) == SetRun(p, [run[p] EXCEPT !.pc = pc])
GotoUnlink(p, pc, files) ==
  SetRun(p, [run[p] EXCEPT !.pc = pc, !.unlink = files])

ClearPages(id) == pages' = [pages EXCEPT ![id] = {}]

(* Mutant: the reaper looks for the wrong status.                          *)
StalePendingRows ==
  {id \in UploadId : uploads[id].status = "pending" /\ uploads[id].stale}

(* Fail every processing row older than the stale threshold.               *)
StaleRows == {id \in UploadId : Processing(id) /\ uploads[id].stale}
NextReaped(S) ==
  IF S = {} THEN {At("gate")}
  ELSE {[At("reapClear") EXCEPT !.id = e.id, !.raw = e.raw,
                                !.reaped = S \ {e}] : e \in S}
ReapStale(p) ==
  /\ run[p].pc = "tick"
  /\ uploads' = [id \in UploadId |->
       IF id \in StaleRows
         THEN [uploads[id] EXCEPT !.status = "failed", !.stale = FALSE]
         ELSE uploads[id]]
  /\ \E r \in NextReaped({[id |-> id, raw |-> uploads[id].raw] :
                              id \in StaleRows}) : SetRun(p, r)
  /\ UNCHANGED <<pages, disk, httpVars, activeColor>>

(* Mutant: the raw file the row names now, which may be of a new upload.   *)
RawOfRow(p) == {RawFile(r) : r \in {uploads[run[p].id].raw} \ {NoRaw}}

(* Clear the reaped row's pages; a failing DELETE is logged and passed.    *)
OwnRaw(p) == {RawFile(r) : r \in {run[p].raw} \ {NoRaw}}
ReapClearPages(p) ==
  /\ run[p].pc = "reapClear"
  /\ \/ /\ ClearPages(run[p].id)
        /\ GotoUnlink(p, "reapUnlink", PageBlobs(run[p].id) \cup OwnRaw(p))
     \/ /\ GotoUnlink(p, "reapUnlink", OwnRaw(p))
        /\ UNCHANGED pages
  /\ UNCHANGED <<uploads, disk, httpVars, activeColor>>

(* The separate statement that forgets the reaped row's raw file.  It      *)
(* names the row by id only; its errors are logged and passed.             *)
ReapClearRawRef(p) ==
  /\ run[p].pc = "reapRawRef"
  /\ \/ /\ Exists(run[p].id) /\ run[p].raw # NoRaw
        /\ uploads' = [uploads EXCEPT ![run[p].id].raw = NoRaw]
     \/ UNCHANGED uploads
  /\ \E r \in NextReaped(run[p].reaped) : SetRun(p, r)
  /\ UNCHANGED <<pages, disk, httpVars, activeColor>>

(* Only the active colour goes on to claim; an unreadable file lets both.  *)
CheckActiveColor(p) ==
  /\ run[p].pc = "gate"
  /\ Goto(p, IF activeColor \in {p, Unreadable} THEN "claim" ELSE "tick")
  /\ UNCHANGED <<dbVars, disk, httpVars, activeColor>>

(* Mutant: a stale processing row is claimed without being reaped.         *)
PendingOrStale ==
  {id \in UploadId : uploads[id].status = "pending"
                       \/ (Processing(id) /\ uploads[id].stale)}
Claimable == {id \in UploadId : uploads[id].status = "pending"}

(* Claim a pending row.  SKIP LOCKED may pass over the oldest one.         *)
ClaimPending(p) ==
  /\ run[p].pc = "claim"
  /\ \/ /\ Claimable = {}
        /\ SetRun(p, At("tick"))
        /\ UNCHANGED uploads
     \/ \E id \in Claimable :
          IF uploads[id].raw = NoRaw
            THEN /\ uploads' = [uploads EXCEPT ![id].status = "failed"]
                 /\ SetRun(p, At("tick"))
            ELSE /\ uploads' = [uploads EXCEPT ![id] =
                      [@ EXCEPT !.status = "processing", !.stale = FALSE]]
                 /\ SetRun(p, [At("wipe") EXCEPT !.id = id,
                                                 !.raw = uploads[id].raw])
  /\ UNCHANGED <<pages, disk, httpVars, activeColor>>

(* Sniff the raw file, then delete the row's previous pages.               *)
WipeOldPages(p) ==
  /\ run[p].pc = "wipe"
  /\ RawFile(run[p].raw) \in disk
  /\ ClearPages(run[p].id)
  /\ GotoUnlink(p, "wipeUnlink", PageBlobs(run[p].id))
  /\ UNCHANGED <<uploads, disk, httpVars, activeColor>>

(* persistOnePageDirect: the next page's blob is written...                *)
SaveBlob(p) ==
  /\ run[p].pc = "decode" /\ run[p].n < MaxPage
  /\ disk' = disk \cup {BlobOf(run[p].raw, run[p].n + 1)}
  /\ SetRun(p, [run[p] EXCEPT !.pc = "insert", !.n = run[p].n + 1])
  /\ UNCHANGED <<dbVars, httpVars, activeColor>>

(* ...then its row, under the foreign key and UNIQUE (upload_id,           *)
(* page_number); a violation throws.                                       *)
InsertPage(p) ==
  LET id == run[p].id
      n == run[p].n
  IN
  /\ run[p].pc = "insert"
  /\ IF Exists(id) /\ \A pg \in pages[id] : pg.no # n
       THEN /\ pages' = [pages EXCEPT ![id] = pages[id] \cup
                           {[no |-> n, blob |-> BlobOf(run[p].raw, n)]}]
            /\ Goto(p, "decode")
       ELSE /\ Goto(p, "fail")
            /\ UNCHANGED pages
  /\ UNCHANGED <<uploads, disk, httpVars, activeColor>>

(* The stream ends after at least one page.  The connection may break      *)
(* after the commit, which the runner sees as a failure.                   *)
SettleReady(p) ==
  /\ run[p].pc = "decode" /\ run[p].n > 0
  /\ IF Processing(run[p].id)
       THEN /\ uploads' = [uploads EXCEPT ![run[p].id] =
                             Settled(@, "ready", run[p].n)]
            /\ \/ GotoUnlink(p, "lastUnlink", {RawFile(run[p].raw)})
               \/ Goto(p, "fail")
       ELSE /\ Goto(p, "late")
            /\ UNCHANGED uploads
  /\ UNCHANGED <<pages, disk, httpVars, activeColor>>

(* The settle changed no row: clear the pages, best effort.                *)
ClearLatePages(p) ==
  /\ run[p].pc = "late"
  /\ \/ /\ ClearPages(run[p].id)
        /\ GotoUnlink(p, "lastUnlink", PageBlobs(run[p].id))
     \/ /\ SetRun(p, At("tick"))
        /\ UNCHANGED pages
  /\ UNCHANGED <<uploads, disk, httpVars, activeColor>>

(* Anything the runner does on its claimed row throws: a bad or empty      *)
(* file, a failed write, a failed statement.                               *)
Throw(p) ==
  /\ run[p].pc \in {"wipe", "decode", "insert"}
  /\ Goto(p, "fail")
  /\ UNCHANGED <<dbVars, disk, httpVars, activeColor>>

(* settleFailed: under the status guard; its own failure ends the tick.    *)
SettleFailed(p) ==
  /\ run[p].pc = "fail"
  /\ \/ /\ Processing(run[p].id)
        /\ uploads' = [uploads EXCEPT ![run[p].id] = Settled(@, "failed", 0)]
        /\ Goto(p, "failClear")
     \/ /\ SetRun(p, At("tick"))
        /\ UNCHANGED uploads
  /\ UNCHANGED <<pages, disk, httpVars, activeColor>>

ClearFailedPages(p) ==
  /\ run[p].pc = "failClear"
  /\ \/ /\ ClearPages(run[p].id)
        /\ GotoUnlink(p, "lastUnlink", PageBlobs(run[p].id) \cup OwnRaw(p))
     \/ /\ GotoUnlink(p, "lastUnlink", OwnRaw(p))
        /\ UNCHANGED pages
  /\ UNCHANGED <<uploads, disk, httpVars, activeColor>>

(* The unlinks that follow a page clear or a settle.                       *)
UnlinkFiles(p) ==
  /\ run[p].pc \in {"reapUnlink", "wipeUnlink", "lastUnlink"}
  /\ disk' = disk \ run[p].unlink
  /\ SetRun(p, CASE run[p].pc = "reapUnlink" ->
                      [run[p] EXCEPT !.pc = "reapRawRef", !.unlink = {}]
                 [] run[p].pc = "wipeUnlink" ->
                      [run[p] EXCEPT !.pc = "decode", !.unlink = {}]
                 [] OTHER -> At("tick"))
  /\ UNCHANGED <<dbVars, httpVars, activeColor>>

---------------------------------------------------------------------------
(* Environment                                                             *)

Crash(p) ==
  /\ run[p].pc # "off"
  /\ SetRun(p, At("off"))
  /\ UNCHANGED <<dbVars, disk, httpVars, activeColor>>

Restart(p) ==
  /\ run[p].pc = "off"
  /\ SetRun(p, At("tick"))
  /\ UNCHANGED <<dbVars, disk, httpVars, activeColor>>

(* A processing row passes the stale threshold.  Without SlowRuns only a   *)
(* row whose run died can.                                                 *)
Age(id) ==
  /\ Processing(id) /\ ~uploads[id].stale
  /\ SlowRuns \/ \A p \in Process :
       run[p].pc \in Ingesting \cup {"fail"} => run[p].raw # uploads[id].src
  /\ uploads' = [uploads EXCEPT ![id].stale = TRUE]
  /\ UNCHANGED <<pages, disk, httpVars, run, activeColor>>

(* A deploy switches colour, or the file becomes unreadable.               *)
Flip(c) ==
  /\ activeColor # c
  /\ activeColor' = c
  /\ UNCHANGED <<dbVars, disk, httpVars, run>>

Tick(p) ==
  \/ ReapStale(p) \/ ReapClearPages(p) \/ ReapClearRawRef(p)
  \/ CheckActiveColor(p) \/ ClaimPending(p) \/ WipeOldPages(p)
  \/ SaveBlob(p) \/ InsertPage(p) \/ SettleReady(p) \/ ClearLatePages(p)
  \/ Throw(p) \/ SettleFailed(p) \/ ClearFailedPages(p) \/ UnlinkFiles(p)

Post(r) ==
  \/ \E t \in Title : PostStore(r, t)
  \/ PostConflict(r) \/ PostReplace(r) \/ PostCount(r) \/ PostInsert(r)
  \/ PostThrow(r) \/ PostReject(r) \/ PostLost(r)

Next ==
  \/ \E r \in Raw : Post(r)
  \/ \E id \in UploadId :
       DeleteUpload(id) \/ SweepFailed(id) \/ ReorderPages(id) \/ Age(id)
  \/ DeleteUnlink \/ DeleteLost
  \/ \E p \in Process : Tick(p) \/ Crash(p) \/ Restart(p)
  \/ \E c \in Colours : Flip(c)

Spec == Init /\ [][Next]_vars

(* Fairness.  A live process keeps polling and a dead one is restarted;    *)
(* time passes; and crashes do not hit every single attempt to reap, to    *)
(* check the colour or to claim.  Nothing is asked of users, of deploys or *)
(* of a run that throws.                                                   *)
Fairness ==
  /\ \A p \in Process :
       /\ WF_vars(Tick(p)) /\ WF_vars(Restart(p))
       /\ SF_vars(ReapStale(p)) /\ SF_vars(CheckActiveColor(p))
       /\ SF_vars(ClaimPending(p))
  /\ \A id \in UploadId : WF_vars(Age(id))

FairSpec == Spec /\ Fairness

---------------------------------------------------------------------------
(* Safety                                                                  *)

(* Every page row the viewer can list has its image on disk: blobs are     *)
(* written before their row and unlinked only after the row is gone,       *)
(* whichever of decode, reap, replace and DELETE interleave.               *)
PageBytesOnDisk ==
  \A id \in UploadId : \A pg \in pages[id] : pg.blob \in disk

(* Once a POST answered 202, its raw file stays on disk as long as the     *)
(* upload waits: no late run, reaper or DELETE of an earlier upload of the *)
(* same title unlinks it.                                                  *)
AcceptedRawOnDisk ==
  \A id \in UploadId : LET r == uploads[id].raw IN
    uploads[id].status = "pending" /\ r # NoRaw /\ post[r].pc = "accepted"
      => RawFile(r) \in disk

(* Nothing the database points to is missing from the disk.                *)
BytesOnDisk == PageBytesOnDisk /\ AcceptedRawOnDisk

(* A raw file is decoded by at most one run, in whatever process, although *)
(* both colours may claim.                                                 *)
OneRunPerRaw ==
  \A p, q \in Process :
    run[p].pc \in Ingesting /\ run[q].pc \in Ingesting
      /\ run[p].raw = run[q].raw => p = q

(* A title has at most one row, although two POSTs of a new title each     *)
(* find none.                                                              *)
OneRowPerTitle ==
  \A i, j \in UploadId : Exists(i) /\ Exists(j)
      /\ uploads[i].title = uploads[j].title => i = j

(* A deleted upload stays deleted: a run still decoding it adds no page    *)
(* and its settle revives nothing.                                         *)
DeletedStays ==
  \A id \in UploadId : uploads[id].status = "gone" =>
    uploads'[id].status = "gone" /\ pages'[id] = {}

(* A ready upload stops being ready only when the user replaces or deletes *)
(* it: no reaper, sweep or failing run takes it back.                      *)
ReadyStays ==
  \A id \in UploadId : uploads[id].status = "ready" =>
    \/ uploads'[id].status \in {"ready", "gone"}
    \/ uploads'[id].status = "pending"
         /\ uploads'[id].src # uploads[id].src

(* What is settled for the user is not unsettled behind the user's back.   *)
FinalStatesStay == [][DeletedStays /\ ReadyStays]_vars

---------------------------------------------------------------------------
(* The inductive invariant behind the safety properties.                   *)

Reaping == {"reapClear", "reapUnlink", "reapRawRef"}
Claimed == Ingesting \cup {"late", "fail", "failClear"}

(* A tick that works on a row knows which, and a claimed one its file.     *)
RunHoldsRow ==
  \A p \in Process :
    /\ run[p].pc \in Reaping \cup Claimed => run[p].id \in UploadId
    /\ run[p].pc \in Claimed => run[p].raw \in Raw
    /\ run[p].pc = "insert" => run[p].n > 0

(* Files some runner or DELETE is about to unlink.                         *)
Scheduled == doomed \cup UNION {run[p].unlink : p \in Process}

(* No tick, page or cleanup has anything of raw file r.                    *)
Untouched(r) ==
  /\ \A p \in Process : run[p].raw # r /\ \A e \in run[p].reaped : e.raw # r
  /\ \A f \in Scheduled : f.src # r
  /\ \A id \in UploadId : \A pg \in pages[id] : pg.blob.src # r

(* A file not yet enqueued is on disk and nobody knows it.                 *)
UnqueuedIsFresh ==
  \A r \in Raw : post[r].pc \in {"unsent", "stored", "counted"} =>
    /\ Untouched(r)
    /\ \A id \in UploadId : uploads[id].raw # r /\ uploads[id].src # r
    /\ post[r].pc # "unsent" => RawFile(r) \in disk

(* A file waiting in the queue belongs to one row and nobody touches it.   *)
PendingIsFresh ==
  \A id \in UploadId :
    uploads[id].status = "pending" /\ uploads[id].raw # NoRaw =>
      Untouched(uploads[id].raw)
RawOfOneRow ==
  \A i, j \in UploadId : uploads[i].raw = uploads[j].raw
                             /\ uploads[i].raw # NoRaw => i = j

(* A blob is shown by one row only, and never while due to be unlinked.    *)
BlobOfOneRow ==
  \A i, j \in UploadId : \A x \in pages[i], y \in pages[j] :
    x.blob = y.blob => i = j
ShownIsNotScheduled ==
  \A id \in UploadId : \A pg \in pages[id] : pg.blob \notin Scheduled

(* A run's next blob has not been used: it is on disk and not due to be    *)
(* unlinked while its row is about to be inserted.                         *)
Unused(b) == /\ b \notin Scheduled
             /\ \A id \in UploadId : \A pg \in pages[id] : pg.blob # b
NextBlobIsUnused ==
  \A p \in Process :
    /\ run[p].pc \in Ingesting =>
         \A n \in 1..MaxPage : n > run[p].n => Unused(BlobOf(run[p].raw, n))
    /\ run[p].pc = "insert" =>
         LET b == BlobOf(run[p].raw, run[p].n) IN Unused(b) /\ b \in disk

(* Only existing rows have pages.                                          *)
PagesHaveRow == \A id \in UploadId : ~Exists(id) => pages[id] = {}

IInv ==
  /\ TypeOK /\ RunHoldsRow
  /\ UnqueuedIsFresh /\ PendingIsFresh /\ RawOfOneRow
  /\ BlobOfOneRow /\ ShownIsNotScheduled /\ NextBlobIsUnused /\ PagesHaveRow
  /\ PageBytesOnDisk /\ AcceptedRawOnDisk /\ OneRunPerRaw

---------------------------------------------------------------------------
(* The first k pages of file r, numbered 1..k in whatever order.           *)
FirstPages(S, r, k) ==
  /\ {pg.blob : pg \in S} = {BlobOf(r, n) : n \in 1..k}
  /\ {pg.no : pg \in S} = 1..k
  /\ Cardinality(S) = k

(* A ready upload shows exactly the pages of the file last accepted for    *)
(* its title, numbered 1..page_count.                                      *)
Complete(id) == FirstPages(pages[id], uploads[id].src, uploads[id].count)
ReadyIsComplete ==
  \A id \in UploadId : uploads[id].status = "ready" => Complete(id)

(* A title names one book, and a ready one is whole.                       *)
OneCompleteBook == OneRowPerTitle /\ ReadyIsComplete

(* The inductive invariant behind ReadyIsComplete while one process runs.  *)
RawIsSource ==
  \A id \in UploadId : uploads[id].raw # NoRaw => uploads[id].raw = uploads[id].src

(* Rows a tick clears were given up, and the row it decodes is its own     *)
(* until it is deleted.                                                    *)
GivenUp(id) == uploads[id].status \notin {"processing", "ready"}
RunOwnsRow ==
  \A p \in Process :
    /\ run[p].pc \in Reaping \cup {"late", "failClear"} => GivenUp(run[p].id)
    /\ run[p].pc \in Reaping => \A e \in run[p].reaped : GivenUp(e.id)
    /\ run[p].pc \in Ingesting =>
         \/ uploads[run[p].id].status = "gone"
         \/ Processing(run[p].id) /\ uploads[run[p].id].src = run[p].raw

(* What has been decoded so far is shown.                                  *)
DecodedIsShown ==
  \A p \in Process : run[p].pc \in Ingesting /\ Processing(run[p].id) =>
    /\ run[p].pc = "wipe" => run[p].n = 0
    /\ run[p].pc \in {"wipeUnlink", "decode"} => FirstPages(pages[run[p].id], run[p].raw, run[p].n)
    /\ run[p].pc = "insert" => FirstPages(pages[run[p].id], run[p].raw, run[p].n - 1)

BookInv == RawIsSource /\ RunOwnsRow /\ DecodedIsShown /\ ReadyIsComplete

---------------------------------------------------------------------------
(* Liveness                                                                *)

(* No title is bricked: an upload in flight is settled or deleted, however *)
(* often processes crash, once the deploy stays on one colour.             *)
EveryUploadSettles ==
  \A c \in Colours : <>[](activeColor = c) =>
    \A id \in UploadId :
      uploads[id].status \in {"pending", "processing"} ~>
        uploads[id].status \in {"ready", "failed", "gone"}

---------------------------------------------------------------------------
(* Statements of the repository that the code does not keep.               *)

(* "every 'pending' row is written by the route WITH a raw_blob_ref"       *)
PendingHasRaw ==
  \A id \in UploadId : uploads[id].status = "pending" => uploads[id].raw # NoRaw

(* "so the check can't be raced": a day's rows stay within the daily cap.  *)
WithinDailyCap == Cardinality({id \in UploadId : Exists(id)}) <= DailyCap
===========================================================================
