------------------------- MODULE BookIngest_proofs -------------------------
(***************************************************************************)
(* Proofs about BookIngest, for every number of processes, titles, upload  *)
(* ids, raw files and pages.                                               *)
(***************************************************************************)
EXTENDS BookIngest, FiniteSetTheorems, TLAPS

(* Facts about the types of rows, files and ticks.                         *)
LEMMA RowTypes ==
  /\ \A s \in UploadStatus : NoRow(s) \in Upload
  /\ \A pc \in RunState : At(pc) \in Run
  /\ \A r \in Raw : RawFile(r) \in File
  /\ \A r \in Raw, n \in 1..MaxPage : BlobOf(r, n) \in Blob
  /\ Blob \subseteq File
BY BookIngestAssumption DEF NoRow, UploadStatus, Upload, At, RunState, Run,
  RawFile, File, BlobOf, Blob

(* Every step of a POST keeps the types.                                   *)
LEMMA PostType == ASSUME TypeOK, NEW r \in Raw, Post(r) PROVE TypeOK'
<1>1. CASE \E t \in Title : PostStore(r, t)
  BY <1>1, RowTypes DEF PostStore, TypeOK, dbVars, PostState
<1>2. CASE PostConflict(r)
  BY <1>2 DEF PostConflict, SetPost, TypeOK, dbVars, PostState
<1>3. ASSUME NEW id \in UploadId, Enqueue(r, id)
      PROVE  uploads' \in [UploadId -> Upload]
             /\ post' \in [Raw -> [pc : PostState, title : Title \cup {NoTitle}]]
  <2> DEFINE row == [status |-> "pending", title |-> post[r].title, raw |-> r,
                     src |-> r, count |-> 0, stale |-> FALSE]
  <2>1. row \in Upload
    BY BookIngestAssumption DEF TypeOK, Upload, UploadStatus
  <2>2. uploads' = [uploads EXCEPT ![id] = row]
    BY <1>3 DEF Enqueue
  <2>3. uploads' \in [UploadId -> Upload]
    BY <2>1, <2>2 DEF TypeOK
  <2>4. post' \in [Raw -> [pc : PostState, title : Title \cup {NoTitle}]]
    BY <1>3 DEF Enqueue, SetPost, TypeOK, PostState
  <2> QED BY <2>3, <2>4
<1>4. CASE PostReplace(r)
  BY <1>4, <1>3 DEF PostReplace, RowsOf, TypeOK
<1>5. CASE PostCount(r)
  BY <1>5 DEF PostCount, SetPost, TypeOK, dbVars, PostState
<1>6. CASE PostInsert(r)
  BY <1>6, <1>3 DEF PostInsert, SetPost, TypeOK, PostState
<1>7. CASE PostThrow(r)
  BY <1>7 DEF PostThrow, SetPost, TypeOK, dbVars, PostState
<1>8. CASE PostReject(r)
  BY <1>8 DEF PostReject, SetPost, TypeOK, dbVars, PostState
<1>9. CASE PostLost(r)
  BY <1>9 DEF PostLost, SetPost, TypeOK, dbVars, PostState
<1> QED BY <1>1, <1>2, <1>4, <1>5, <1>6, <1>7, <1>8, <1>9 DEF Post

(* A row settled by a run is a row.                                        *)
LEMMA SettledType ==
  ASSUME NEW u \in Upload, NEW s \in UploadStatus, NEW n \in 0..MaxPage
  PROVE  Settled(u, s, n) \in Upload
BY DEF Settled, Upload

(* Clearing a row's pages keeps the types.                                 *)
LEMMA ClearType ==
  ASSUME TypeOK, NEW id \in UploadId, pages' = [pages EXCEPT ![id] = {}]
  PROVE  /\ pages' \in [UploadId -> SUBSET Page]
         /\ \A i \in UploadId : IsFiniteSet(pages'[i])
BY FS_EmptySet DEF TypeOK

(* The pages a renumbering produces are finitely many pages.               *)
LEMMA ReorderType ==
  ASSUME TypeOK, NEW id \in UploadId, ReorderPages(id)
  PROVE  TypeOK'
<1>1. PICK f \in Orders(pages[id]) :
        pages' = [pages EXCEPT ![id] =
                    {[no |-> f[pg], blob |-> pg.blob] : pg \in pages[id]}]
  BY DEF ReorderPages
<1> DEFINE S == pages[id]
           g == [pg \in S |-> [no |-> f[pg], blob |-> pg.blob]]
           T == {[no |-> f[pg], blob |-> pg.blob] : pg \in S}
<1>2. S \subseteq Page /\ IsFiniteSet(S)
  BY DEF TypeOK
<1>3. f \in [S -> 1..Cardinality(S)] /\ Cardinality(S) \in Nat
  BY <1>1, <1>2, FS_CardinalityType DEF Orders
<1>4. T \subseteq Page
  BY <1>2, <1>3 DEF Page
<1>5. g \in Surjection(S, T)
  BY DEF Surjection
<1>6. IsFiniteSet(T)
  BY <1>2, <1>5, FS_Surjection
<1> QED
  BY <1>1, <1>4, <1>6 DEF ReorderPages, TypeOK, httpVars

(* Deletes, sweeps, aging and flips keep the types.                        *)
LEMMA UploadType ==
  ASSUME TypeOK, NEW id \in UploadId,
         DeleteUpload(id) \/ SweepFailed(id) \/ Age(id)
  PROVE  TypeOK'
<1>1. CASE DeleteUpload(id)
  <2>1. uploads' \in [UploadId -> Upload]
    BY <1>1, RowTypes DEF DeleteUpload, TypeOK, UploadStatus
  <2>2. doomed' \subseteq File
    BY <1>1, RowTypes DEF DeleteUpload, TypeOK, PageBlobs, Page, Upload
  <2> QED
    BY <1>1, <2>1, <2>2, ClearType DEF DeleteUpload, TypeOK
<1>2. CASE SweepFailed(id)
  <2>1. uploads' \in [UploadId -> Upload]
    BY <1>2, RowTypes DEF SweepFailed, TypeOK, UploadStatus
  <2> QED
    BY <1>2, <2>1, ClearType DEF SweepFailed, TypeOK, httpVars
<1>3. CASE Age(id)
  <2>1. [uploads[id] EXCEPT !.stale = TRUE] \in Upload
    BY DEF TypeOK, Upload
  <2> QED
    BY <1>3, <2>1 DEF Age, TypeOK, httpVars
<1> QED BY <1>1, <1>2, <1>3

(* Every step of a runner keeps the types.                                 *)
LEMMA NextReapedType ==
  ASSUME NEW S \in SUBSET [id : UploadId, raw : Raw \cup {NoRaw}],
         NEW r \in NextReaped(S)
  PROVE  r \in Run
<1>1. CASE S = {}
  BY <1>1, RowTypes DEF NextReaped, RunState
<1>2. CASE S # {}
  <2>1. PICK e \in S : r = [At("reapClear") EXCEPT !.id = e.id, !.raw = e.raw,
                                                   !.reaped = S \ {e}]
    BY <1>2 DEF NextReaped
  <2>2. At("reapClear") \in Run
    BY RowTypes DEF RunState
  <2> QED BY <2>1, <2>2 DEF Run
<1> QED BY <1>1, <1>2

LEMMA TickType ==
  ASSUME TypeOK, RunHoldsRow, NEW p \in Process, Tick(p)
  PROVE  TypeOK'
<1> DEFINE r == run[p]
<1>0. r \in Run /\ (\A pc \in RunState : At(pc) \in Run)
  BY RowTypes DEF TypeOK
<1>h. /\ r.pc \in Reaping \cup Claimed => r.id \in UploadId
      /\ r.pc \in Claimed => r.raw \in Raw
      /\ r.pc = "insert" => r.n \in 1..MaxPage
  BY <1>0, BookIngestAssumption DEF RunHoldsRow, Run
<1>a. ASSUME NEW pc \in RunState, Goto(p, pc)
      PROVE  run' \in [Process -> Run]
  BY <1>0, <1>a DEF Goto, SetRun, TypeOK, Run
<1>b. ASSUME NEW pc \in RunState, NEW files \in SUBSET File,
             GotoUnlink(p, pc, files)
      PROVE  run' \in [Process -> Run]
  BY <1>0, <1>b DEF GotoUnlink, SetRun, TypeOK, Run
<1>c. ASSUME NEW pc \in RunState, SetRun(p, At(pc))
      PROVE  run' \in [Process -> Run]
  BY <1>0, <1>c DEF SetRun, TypeOK
<1>d. OwnRaw(p) \subseteq File
  BY <1>0, RowTypes DEF OwnRaw, Run
<1>e. ASSUME NEW id \in UploadId PROVE PageBlobs(id) \subseteq File
  BY RowTypes DEF PageBlobs, TypeOK, Page
<1>f. ASSUME NEW id \in UploadId, NEW u \in Upload,
             uploads' = [uploads EXCEPT ![id] = u]
      PROVE  uploads' \in [UploadId -> Upload]
  BY <1>f DEF TypeOK
<1>1. CASE ReapStale(p)
  <2>1. uploads' \in [UploadId -> Upload]
    <3>1. ASSUME NEW u \in Upload
          PROVE  [u EXCEPT !.status = "failed", !.stale = FALSE] \in Upload
      BY DEF Upload, UploadStatus
    <3> QED BY <1>1, <3>1 DEF ReapStale, TypeOK
  <2>2. {[id |-> id, raw |-> uploads[id].raw] : id \in StaleRows}
          \in SUBSET [id : UploadId, raw : Raw \cup {NoRaw}]
    BY DEF StaleRows, TypeOK, Upload
  <2>3. run' \in [Process -> Run]
    BY <1>1, <2>2, NextReapedType DEF ReapStale, SetRun, TypeOK
  <2> QED BY <1>1, <2>1, <2>3 DEF ReapStale, TypeOK, httpVars
<1>2. CASE ReapClearPages(p)
  <2>1. r.id \in UploadId
    BY <1>2, <1>h DEF ReapClearPages, Reaping
  <2>2. run' \in [Process -> Run]
    BY <1>2, <2>1, <1>b, <1>d, <1>e DEF ReapClearPages, RunState
  <2> QED
    BY <1>2, <2>1, <2>2, ClearType DEF ReapClearPages, ClearPages, TypeOK, httpVars
<1>3. CASE ReapClearRawRef(p)
  <2>1. ASSUME NEW id \in UploadId PROVE [uploads[id] EXCEPT !.raw = NoRaw] \in Upload
    BY DEF TypeOK, Upload
  <2>2. uploads' \in [UploadId -> Upload]
    BY <1>3, <1>h, <2>1 DEF ReapClearRawRef, Reaping, TypeOK
  <2>3. run' \in [Process -> Run]
    BY <1>3, <1>0, NextReapedType DEF ReapClearRawRef, SetRun, TypeOK, Run
  <2> QED BY <1>3, <2>2, <2>3 DEF ReapClearRawRef, TypeOK, httpVars
<1>4. CASE CheckActiveColor(p)
  BY <1>4, <1>a DEF CheckActiveColor, TypeOK, dbVars, httpVars, RunState
<1>5. CASE ClaimPending(p)
  <2>1. CASE Claimable = {} /\ SetRun(p, At("tick")) /\ UNCHANGED uploads
    BY <1>5, <2>1, <1>c DEF ClaimPending, TypeOK, httpVars, RunState
  <2>2. ASSUME NEW id \in Claimable, uploads[id].raw = NoRaw,
               uploads' = [uploads EXCEPT ![id].status = "failed"],
               SetRun(p, At("tick"))
        PROVE  TypeOK'
    <3>1. [uploads[id] EXCEPT !.status = "failed"] \in Upload
      BY <2>2 DEF Claimable, TypeOK, Upload, UploadStatus
    <3>2. uploads' \in [UploadId -> Upload]
      BY <2>2, <3>1 DEF Claimable, TypeOK
    <3> QED BY <1>5, <2>2, <3>2, <1>c DEF ClaimPending, TypeOK, httpVars, RunState
  <2>3. ASSUME NEW id \in Claimable, uploads[id].raw # NoRaw,
               uploads' = [uploads EXCEPT ![id] =
                 [@ EXCEPT !.status = "processing", !.stale = FALSE]],
               SetRun(p, [At("wipe") EXCEPT !.id = id, !.raw = uploads[id].raw])
        PROVE  TypeOK'
    <3>1. [uploads[id] EXCEPT !.status = "processing", !.stale = FALSE] \in Upload
      BY <2>3 DEF Claimable, TypeOK, Upload, UploadStatus
    <3>3. uploads' \in [UploadId -> Upload]
      BY <2>3, <3>1 DEF Claimable, TypeOK
    <3>4. [At("wipe") EXCEPT !.id = id, !.raw = uploads[id].raw] \in Run
      <4>1. At("wipe") \in Run BY <1>0 DEF RunState
      <4>2. id \in UploadId /\ uploads[id].raw \in Raw \cup {NoRaw}
        BY DEF Claimable, TypeOK, Upload
      <4> QED BY <4>1, <4>2 DEF Run
    <3>5. run' \in [Process -> Run]
      BY <2>3, <3>4 DEF SetRun, TypeOK
    <3> QED BY <1>5, <3>3, <3>5 DEF ClaimPending, TypeOK, httpVars
  <2> QED BY <1>5, <2>1, <2>2, <2>3 DEF ClaimPending
<1>6. CASE WipeOldPages(p)
  <2>1. r.id \in UploadId
    BY <1>6, <1>h DEF WipeOldPages, Claimed, Ingesting
  <2>2. run' \in [Process -> Run]
    BY <1>6, <2>1, <1>b, <1>e DEF WipeOldPages, RunState
  <2> QED
    BY <1>6, <2>1, <2>2, ClearType DEF WipeOldPages, ClearPages, TypeOK, httpVars
<1>7. CASE SaveBlob(p)
  <2>1. r.n + 1 \in 1..MaxPage /\ r.n + 1 \in 0..MaxPage /\ r.raw \in Raw
    BY <1>7, <1>0, <1>h, BookIngestAssumption DEF SaveBlob, Run, Claimed, Ingesting
  <2>2. BlobOf(r.raw, r.n + 1) \in File
    BY <2>1, RowTypes
  <2>3. [r EXCEPT !.pc = "insert", !.n = r.n + 1] \in Run
    BY <1>0, <2>1 DEF Run, RunState
  <2> QED BY <1>7, <2>2, <2>3 DEF SaveBlob, SetRun, TypeOK, dbVars, httpVars
<1>8. CASE InsertPage(p)
  <2>1. r.id \in UploadId /\ r.raw \in Raw /\ r.n \in 1..MaxPage
    BY <1>8, <1>h DEF InsertPage, Claimed, Ingesting
  <2> DEFINE pg == [no |-> r.n, blob |-> BlobOf(r.raw, r.n)]
  <2>2. pg \in Page
    BY <2>1, RowTypes DEF Page
  <2>3. CASE pages' = [pages EXCEPT ![r.id] = pages[r.id] \cup {pg}]
    BY <1>8, <2>1, <2>2, <2>3, <1>a, FS_AddElement
    DEF InsertPage, TypeOK, httpVars, RunState
  <2>4. CASE UNCHANGED pages
    BY <1>8, <2>4, <1>a DEF InsertPage, TypeOK, httpVars, RunState
  <2> QED BY <1>8, <2>3, <2>4 DEF InsertPage
<1>9. CASE SettleReady(p)
  <2>1. r.id \in UploadId /\ RawFile(r.raw) \in File /\ r.n \in 0..MaxPage
    BY <1>9, <1>0, <1>h, RowTypes DEF SettleReady, Claimed, Ingesting, Run
  <2>2. Settled(uploads[r.id], "ready", r.n) \in Upload
    BY <2>1, SettledType DEF TypeOK, UploadStatus
  <2>3. uploads' \in [UploadId -> Upload]
    BY <1>9, <2>1, <2>2 DEF SettleReady, TypeOK
  <2>4. run' \in [Process -> Run]
    BY <1>9, <2>1, <1>a, <1>b DEF SettleReady, RunState
  <2> QED BY <1>9, <2>3, <2>4 DEF SettleReady, TypeOK, httpVars
<1>10. CASE ClearLatePages(p)
  <2>1. r.id \in UploadId
    BY <1>10, <1>h DEF ClearLatePages, Claimed
  <2>2. run' \in [Process -> Run]
    BY <1>10, <2>1, <1>b, <1>c, <1>e DEF ClearLatePages, RunState
  <2> QED
    BY <1>10, <2>1, <2>2, ClearType DEF ClearLatePages, ClearPages, TypeOK, httpVars
<1>11. CASE Throw(p)
  BY <1>11, <1>a DEF Throw, TypeOK, dbVars, httpVars, RunState
<1>12. CASE SettleFailed(p)
  <2>1. r.id \in UploadId /\ 0 \in 0..MaxPage
    BY <1>12, <1>h, BookIngestAssumption DEF SettleFailed, Claimed
  <2>2. Settled(uploads[r.id], "failed", 0) \in Upload
    BY <2>1, SettledType DEF TypeOK, UploadStatus
  <2>3. uploads' \in [UploadId -> Upload]
    BY <1>12, <2>1, <2>2 DEF SettleFailed, TypeOK
  <2>4. run' \in [Process -> Run]
    BY <1>12, <1>a, <1>c DEF SettleFailed, RunState
  <2> QED BY <1>12, <2>3, <2>4 DEF SettleFailed, TypeOK, httpVars
<1>13. CASE ClearFailedPages(p)
  <2>1. r.id \in UploadId
    BY <1>13, <1>h DEF ClearFailedPages, Claimed
  <2>2. run' \in [Process -> Run]
    BY <1>13, <2>1, <1>b, <1>d, <1>e DEF ClearFailedPages, RunState
  <2> QED
    BY <1>13, <2>1, <2>2, ClearType DEF ClearFailedPages, ClearPages, TypeOK, httpVars
<1>14. CASE UnlinkFiles(p)
  <2>1. ASSUME NEW pc \in RunState PROVE [r EXCEPT !.pc = pc, !.unlink = {}] \in Run
    BY <1>0 DEF Run
  <2>2. run' \in [Process -> Run]
    BY <1>14, <2>1, <1>0 DEF UnlinkFiles, SetRun, TypeOK, RunState
  <2> QED BY <1>14, <2>2 DEF UnlinkFiles, TypeOK, dbVars, httpVars
<1> QED
  BY <1>1, <1>2, <1>3, <1>4, <1>5, <1>6, <1>7, <1>8, <1>9, <1>10, <1>11,
     <1>12, <1>13, <1>14 DEF Tick

(* Crashes, restarts, colour flips and DELETE's cleanup keep the types.    *)
LEMMA EnvironmentType ==
  ASSUME TypeOK,
         \/ DeleteUnlink \/ DeleteLost
         \/ \E p \in Process : Crash(p) \/ Restart(p)
         \/ \E c \in Colours : Flip(c)
  PROVE  TypeOK'
<1>1. CASE DeleteUnlink
  BY <1>1 DEF DeleteUnlink, TypeOK, dbVars
<1>2. CASE DeleteLost
  BY <1>2 DEF DeleteLost, TypeOK, dbVars
<1>3. ASSUME NEW p \in Process, Crash(p) PROVE TypeOK'
  BY <1>3, RowTypes DEF Crash, SetRun, TypeOK, dbVars, httpVars, RunState
<1>4. ASSUME NEW p \in Process, Restart(p) PROVE TypeOK'
  BY <1>4, RowTypes DEF Restart, SetRun, TypeOK, dbVars, httpVars, RunState
<1>5. ASSUME NEW c \in Colours, Flip(c) PROVE TypeOK'
  BY <1>5 DEF Flip, TypeOK, dbVars, httpVars
<1> QED BY <1>1, <1>2, <1>3, <1>4, <1>5

(* The state a reaper moves to holds the next reaped row, or none is left. *)
LEMMA NextReapedHolds ==
  ASSUME NEW S \in SUBSET [id : UploadId, raw : Raw \cup {NoRaw}],
         NEW r \in NextReaped(S)
  PROVE  /\ r.pc \in {"gate", "reapClear"}
         /\ r.pc = "reapClear" => r.id \in UploadId
<1>1. CASE S = {}
  BY <1>1 DEF NextReaped, At
<1>2. CASE S # {}
  BY <1>2 DEF NextReaped, At
<1> QED BY <1>1, <1>2

(* A tick keeps hold of its row and raw file.                              *)
LEMMA TickHoldsRow ==
  ASSUME TypeOK, RunHoldsRow, NEW p \in Process, Tick(p)
  PROVE  RunHoldsRow'
<1> DEFINE r == run[p]
           Holds(q) == /\ q.pc \in Reaping \cup Claimed => q.id \in UploadId
                       /\ q.pc \in Claimed => q.raw \in Raw
                       /\ q.pc = "insert" => q.n > 0
<1>1. r \in Run /\ Holds(r) /\ Holds(At("tick"))
  BY DEF TypeOK, RunHoldsRow, At, Reaping, Claimed, Ingesting
<1>a. ASSUME NEW x, SetRun(p, x), Holds(x) PROVE RunHoldsRow'
  BY <1>a DEF SetRun, TypeOK, RunHoldsRow
<1>b. ASSUME NEW pc, Goto(p, pc), Holds([r EXCEPT !.pc = pc])
      PROVE  RunHoldsRow'
  BY <1>a, <1>b DEF Goto
<1>c. ASSUME NEW pc, NEW f, GotoUnlink(p, pc, f),
             Holds([r EXCEPT !.pc = pc, !.unlink = f])
      PROVE  RunHoldsRow'
  BY <1>a, <1>c DEF GotoUnlink
<1> USE <1>1 DEF Run, Reaping, Claimed, Ingesting
<1>d. ASSUME NEW S \in SUBSET [id : UploadId, raw : Raw \cup {NoRaw}],
             NEW x \in NextReaped(S)
      PROVE  Holds(x)
  BY NextReapedHolds
<1>2. CASE ReapStale(p)
  <2>1. {[id |-> id, raw |-> uploads[id].raw] : id \in StaleRows}
          \in SUBSET [id : UploadId, raw : Raw \cup {NoRaw}]
    BY DEF StaleRows, TypeOK, Upload
  <2> QED BY <1>2, <2>1, <1>a, <1>d DEF ReapStale
<1>3. CASE ReapClearPages(p)
  BY <1>3, <1>c DEF ReapClearPages
<1>4. CASE ReapClearRawRef(p)
  BY <1>4, <1>a, <1>d DEF ReapClearRawRef
<1>5. CASE CheckActiveColor(p)
  BY <1>5, <1>b DEF CheckActiveColor
<1>6. CASE ClaimPending(p)
  <2>1. ASSUME NEW id \in Claimable, uploads[id].raw # NoRaw,
               SetRun(p, [At("wipe") EXCEPT !.id = id, !.raw = uploads[id].raw])
        PROVE  RunHoldsRow'
    <3>1. id \in UploadId /\ uploads[id].raw \in Raw
      BY <2>1 DEF Claimable, TypeOK, Upload
    <3> QED BY <2>1, <3>1, <1>a DEF At
  <2> QED BY <1>6, <2>1, <1>a DEF ClaimPending
<1>7. CASE WipeOldPages(p)
  BY <1>7, <1>c DEF WipeOldPages
<1>8. CASE SaveBlob(p)
  <2>1. r.n + 1 > 0
    OBVIOUS
  <2>2. r.id \in UploadId /\ r.raw \in Raw
    BY <1>8 DEF SaveBlob
  <2>3. Holds([r EXCEPT !.pc = "insert", !.n = r.n + 1])
    BY <2>1, <2>2
  <2> QED BY <1>8, <2>3, <1>a DEF SaveBlob
<1>9. CASE InsertPage(p)
  BY <1>9, <1>b DEF InsertPage
<1>10. CASE SettleReady(p)
  BY <1>10, <1>b, <1>c DEF SettleReady
<1>11. CASE ClearLatePages(p)
  BY <1>11, <1>a, <1>c DEF ClearLatePages
<1>12. CASE Throw(p)
  BY <1>12, <1>b DEF Throw
<1>13. CASE SettleFailed(p)
  BY <1>13, <1>a, <1>b DEF SettleFailed
<1>14. CASE ClearFailedPages(p)
  BY <1>14, <1>c DEF ClearFailedPages
<1>15. CASE UnlinkFiles(p)
  BY <1>15, <1>a DEF UnlinkFiles
<1> QED
  BY <1>2, <1>3, <1>4, <1>5, <1>6, <1>7, <1>8, <1>9, <1>10, <1>11, <1>12,
     <1>13, <1>14, <1>15 DEF Tick

(* The types and what a run holds are kept by every step.                  *)
LEMMA TypeInductive ==
  /\ Init => TypeOK /\ RunHoldsRow
  /\ TypeOK /\ RunHoldsRow /\ [Next]_vars => (TypeOK /\ RunHoldsRow)'
<1>1. Init => TypeOK /\ RunHoldsRow
  <2> SUFFICES ASSUME Init PROVE TypeOK /\ RunHoldsRow
    OBVIOUS
  <2>1. TypeOK
    BY RowTypes, FS_EmptySet
    DEF Init, TypeOK, UploadStatus, PostState, RunState
  <2>2. RunHoldsRow
    BY DEF Init, RunHoldsRow, At, Reaping, Claimed, Ingesting
  <2> QED BY <2>1, <2>2
<1>2. ASSUME TypeOK, RunHoldsRow, [Next]_vars PROVE (TypeOK /\ RunHoldsRow)'
  <2>1. CASE \E r \in Raw : Post(r)
    <3>1. UNCHANGED run
      BY <2>1 DEF Post, PostStore, PostConflict, PostReplace, PostCount,
        PostInsert, PostThrow, PostReject, PostLost
    <3> QED BY <1>2, <2>1, <3>1, PostType DEF RunHoldsRow
  <2>2. ASSUME NEW id \in UploadId,
               DeleteUpload(id) \/ SweepFailed(id) \/ Age(id) \/ ReorderPages(id)
        PROVE  (TypeOK /\ RunHoldsRow)'
    <3>1. UNCHANGED run
      BY <2>2 DEF DeleteUpload, SweepFailed, Age, ReorderPages
    <3> QED BY <1>2, <2>2, <3>1, UploadType, ReorderType DEF RunHoldsRow
  <2>3. CASE DeleteUnlink \/ DeleteLost \/ \E c \in Colours : Flip(c)
    <3>1. UNCHANGED run
      BY <2>3 DEF DeleteUnlink, DeleteLost, Flip
    <3> QED BY <1>2, <2>3, <3>1, EnvironmentType DEF RunHoldsRow
  <2>4. ASSUME NEW p \in Process, Tick(p) PROVE (TypeOK /\ RunHoldsRow)'
    BY <1>2, <2>4, TickType, TickHoldsRow
  <2>5. ASSUME NEW p \in Process, Crash(p) \/ Restart(p)
        PROVE  (TypeOK /\ RunHoldsRow)'
    <3>1. RunHoldsRow'
      BY <1>2, <2>5
      DEF Crash, Restart, SetRun, TypeOK, RunHoldsRow, At, Reaping, Claimed,
        Ingesting
    <3> QED BY <1>2, <2>5, <3>1, EnvironmentType
  <2>6. CASE UNCHANGED vars
    BY <1>2, <2>6 DEF vars, TypeOK, RunHoldsRow
  <2> QED
    BY <1>2, <2>1, <2>2, <2>3, <2>4, <2>5, <2>6 DEF Next
<1> QED BY <1>1, <1>2

(* In every reachable state every row, page, file, request and tick has    *)
(* its type, and a tick at work on a row holds that row and its raw file.  *)
THEOREM TypeCorrect == Spec => [](TypeOK /\ RunHoldsRow)
<1>1. Init => TypeOK /\ RunHoldsRow
  BY TypeInductive
<1>2. TypeOK /\ RunHoldsRow /\ [Next]_vars => (TypeOK /\ RunHoldsRow)'
  BY TypeInductive
<1> QED BY <1>1, <1>2, PTL DEF Spec

---------------------------------------------------------------------------
(* What one step of a tick can do, as far as the invariant is concerned.   *)

(* The step takes the raw file of some row, which is then not pending.     *)
Taken(x) == \E id \in UploadId :
              uploads[id].raw = x /\ uploads'[id].status # "pending"
(* The step takes the row of blob b away and schedules its file.           *)
Hidden(b) == \E id \in UploadId : b \in PageBlobs(id) /\ pages'[id] = {}

RunEffect(r, q) ==
  /\ \/ q.raw \in {r.raw, NoRaw} \/ Taken(q.raw)
     \/ \E e \in r.reaped : q.raw = e.raw
  /\ \A e \in q.reaped : e \in r.reaped \/ e.raw = NoRaw \/ Taken(e.raw)
  /\ \A f \in q.unlink :
       f \in r.unlink \/ (r.raw \in Raw /\ f = RawFile(r.raw)) \/ Hidden(f)
  /\ q.pc \in Ingesting =>
       \/ r.pc \in Ingesting /\ q.raw = r.raw /\ q.n >= r.n
       \/ \E id \in UploadId : /\ uploads[id].status = "pending"
                               /\ uploads[id].raw = q.raw /\ q.raw # NoRaw
  /\ q.pc = "insert" =>
       r.pc = "decode" /\ q.n = r.n + 1 /\ BlobOf(q.raw, q.n) \in disk'

RowEffect ==
  \A id \in UploadId :
    /\ uploads'[id].raw \in {uploads[id].raw, NoRaw}
    /\ uploads'[id].src = uploads[id].src
    /\ uploads'[id].status = "pending" => uploads[id].status = "pending"
    /\ uploads'[id].title = uploads[id].title
    /\ \/ uploads'[id].status = uploads[id].status
       \/ /\ uploads[id].status \in {"pending", "processing"}
          /\ uploads'[id].status \in {"processing", "ready", "failed"}

PageEffect(p) ==
  \A id \in UploadId : pages'[id] \in {pages[id], {}} \/
    LET r == run[p]
        b == BlobOf(r.raw, r.n)
    IN  /\ r.pc = "insert" /\ r.id = id /\ Exists(id)
        /\ pages' = [pages EXCEPT ![id] = pages[id] \cup {[no |-> r.n, blob |-> b]}]
        /\ run' = [run EXCEPT ![p] = [r EXCEPT !.pc = "decode"]]

RunStep(p) ==
  /\ UNCHANGED httpVars
  /\ run' = [run EXCEPT ![p] = run'[p]]
  /\ RunEffect(run[p], run'[p]) /\ RowEffect /\ PageEffect(p)
  /\ disk \ run[p].unlink \subseteq disk'

(* Every step of a tick is such a step.                                    *)
LEMMA TickEffect ==
  ASSUME TypeOK, RunHoldsRow, TypeOK', NEW p \in Process, Tick(p)
  PROVE  RunStep(p)
<1> DEFINE r == run[p]
           q == run'[p]
           Goal == /\ UNCHANGED httpVars
                   /\ run' = [run EXCEPT ![p] = q]
                   /\ RunEffect(r, q) /\ RowEffect /\ PageEffect(p)
                   /\ disk \ r.unlink \subseteq disk'
<1> SUFFICES Goal
  BY DEF RunStep
<1>0. r \in Run
  BY DEF TypeOK
<1>h. /\ r.pc \in Reaping \cup Claimed => r.id \in UploadId
      /\ r.pc \in Claimed => r.raw \in Raw
  BY DEF RunHoldsRow
<1>s. ASSUME NEW x, SetRun(p, x) PROVE q = x /\ run' = [run EXCEPT ![p] = q]
  BY <1>s DEF SetRun, TypeOK
<1>u. UNCHANGED uploads => RowEffect
  BY DEF RowEffect, Exists
<1>g. UNCHANGED pages => PageEffect(p)
  BY DEF PageEffect
<1>r. ASSUME NEW id \in UploadId,
             uploads[id].status \in {"pending", "processing"},
             uploads' = [uploads EXCEPT ![id] = uploads'[id]],
             uploads'[id].raw \in {uploads[id].raw, NoRaw},
             uploads'[id].src = uploads[id].src,
             uploads'[id].title = uploads[id].title,
             uploads'[id].status \in {"processing", "ready", "failed"}
      PROVE  RowEffect
  <2>1. \A i \in UploadId : i # id => uploads'[i] = uploads[i]
    BY <1>r DEF TypeOK
  <2> QED BY <1>r, <2>1 DEF RowEffect
<1>x. ASSUME NEW id \in UploadId, NEW u, uploads' = [uploads EXCEPT ![id] = u]
      PROVE  uploads'[id] = u /\ uploads' = [uploads EXCEPT ![id] = uploads'[id]]
  BY <1>x DEF TypeOK
<1>w. \A id \in UploadId : uploads[id] \in Upload
  BY DEF TypeOK
<1>c. ASSUME NEW id \in UploadId, ClearPages(id)
      PROVE  PageEffect(p) /\ \A b \in PageBlobs(id) : Hidden(b)
  BY <1>c DEF ClearPages, PageEffect, Hidden, TypeOK
<1> USE <1>0 DEF Run, Ingesting
<1>1. CASE ReapStale(p)
  <2> DEFINE S == {[id |-> id, raw |-> uploads[id].raw] : id \in StaleRows}
  <2>1. PICK x \in NextReaped(S) : q = x /\ run' = [run EXCEPT ![p] = q]
    BY <1>1, <1>s DEF ReapStale
  <2>2. ASSUME NEW e \in S PROVE Taken(e.raw)
    <3>1. PICK id \in StaleRows : e = [id |-> id, raw |-> uploads[id].raw]
      OBVIOUS
    <3>2. id \in UploadId /\ uploads'[id].status = "failed"
      BY <1>1, <1>w DEF ReapStale, StaleRows, Upload
    <3> QED BY <3>1, <3>2 DEF Taken
  <2>3. RunEffect(r, q)
    <3>1. CASE S = {}
      BY <2>1, <3>1 DEF NextReaped, RunEffect, At
    <3>2. CASE S # {}
      <4>1. PICK e \in S : x = [At("reapClear") EXCEPT !.id = e.id, !.raw = e.raw,
                                                     !.reaped = S \ {e}]
        BY <2>1, <3>2 DEF NextReaped
      <4>2. x.raw = e.raw /\ x.reaped = S \ {e} /\ x.unlink = {} /\ x.pc = "reapClear"
        BY <4>1 DEF At
      <4> QED BY <2>1, <2>2, <4>2 DEF RunEffect
    <3> QED BY <3>1, <3>2
  <2>4. RowEffect
    <3>1. ASSUME NEW id \in UploadId
          PROVE  /\ uploads'[id].raw = uploads[id].raw
                 /\ uploads'[id].src = uploads[id].src
                 /\ uploads'[id].title = uploads[id].title
                 /\ \/ uploads'[id].status = uploads[id].status
                    \/ uploads[id].status = "processing" /\ uploads'[id].status = "failed"
      BY <1>1, <1>w DEF ReapStale, StaleRows, Processing, Upload
    <3> QED BY <3>1 DEF RowEffect, Exists
  <2> QED BY <1>1, <2>1, <2>3, <2>4, <1>g DEF ReapStale
<1>2. CASE ReapClearPages(p)
  <2>1. PICK f : q = [r EXCEPT !.pc = "reapUnlink", !.unlink = f]
                 /\ run' = [run EXCEPT ![p] = q]
                 /\ \/ ClearPages(r.id) /\ f = PageBlobs(r.id) \cup OwnRaw(p)
                    \/ UNCHANGED pages /\ f = OwnRaw(p)
    BY <1>2, <1>s DEF ReapClearPages, GotoUnlink
  <2>2. RunEffect(r, q) /\ PageEffect(p)
    BY <1>2, <2>1, <1>h, <1>c, <1>g
    DEF ReapClearPages, RunEffect, Reaping, OwnRaw
  <2> QED BY <1>2, <2>1, <2>2, <1>u DEF ReapClearPages
<1>3. CASE ReapClearRawRef(p)
  <2>1. PICK x \in NextReaped(r.reaped) : q = x /\ run' = [run EXCEPT ![p] = q]
    BY <1>3, <1>s DEF ReapClearRawRef
  <2>2. RunEffect(r, q)
    <3>1. CASE r.reaped = {}
      BY <2>1, <3>1 DEF NextReaped, RunEffect, At
    <3>2. CASE r.reaped # {}
      <4>1. PICK e \in r.reaped :
              x = [At("reapClear") EXCEPT !.id = e.id, !.raw = e.raw,
                                          !.reaped = r.reaped \ {e}]
        BY <2>1, <3>2 DEF NextReaped
      <4>2. x.raw = e.raw /\ x.reaped = r.reaped \ {e} /\ x.unlink = {}
            /\ x.pc = "reapClear"
        BY <4>1 DEF At
      <4> QED BY <2>1, <4>2 DEF RunEffect
    <3> QED BY <3>1, <3>2
  <2>3. RowEffect
    BY <1>3 DEF ReapClearRawRef, RowEffect, Exists, TypeOK, Upload
  <2> QED BY <1>3, <2>1, <2>2, <2>3, <1>g DEF ReapClearRawRef
<1>4. CASE CheckActiveColor(p)
  <2>1. q = [r EXCEPT !.pc = IF activeColor \in {p, Unreadable} THEN "claim" ELSE "tick"]
        /\ run' = [run EXCEPT ![p] = q]
    BY <1>4, <1>s DEF CheckActiveColor, Goto
  <2>2. RunEffect(r, q)
    BY <2>1 DEF RunEffect
  <2> QED BY <1>4, <2>1, <2>2, <1>u, <1>g DEF CheckActiveColor, dbVars
<1>t. q = At("tick") => RunEffect(r, q)
  BY DEF RunEffect, At
<1>5. CASE ClaimPending(p)
  <2>1. CASE UNCHANGED uploads /\ SetRun(p, At("tick"))
    BY <1>5, <2>1, <1>s, <1>t, <1>g, <1>u DEF ClaimPending
  <2>3. ASSUME NEW id \in Claimable, SetRun(p, At("tick")),
               uploads' = [uploads EXCEPT ![id].status = "failed"]
        PROVE  Goal
    <3>1. RowEffect
      <4> DEFINE u == [uploads[id] EXCEPT !.status = "failed"]
      <4>1. /\ id \in UploadId /\ uploads' = [uploads EXCEPT ![id] = u]
            /\ u.raw \in {uploads[id].raw, NoRaw} /\ u.src = uploads[id].src
            /\ u.status \in {"processing", "ready", "failed"}
            /\ u.title = uploads[id].title
            /\ uploads[id].status \in {"pending", "processing"}
        BY <2>3, <1>w DEF Claimable, Upload
      <4> HIDE DEF u
      <4>2. uploads'[id] = u /\ uploads' = [uploads EXCEPT ![id] = uploads'[id]]
        BY <4>1, <1>x
      <4> QED BY <4>1, <4>2, <1>r
    <3> QED BY <1>5, <2>3, <3>1, <1>s, <1>t, <1>g DEF ClaimPending
  <2>2. ASSUME NEW id \in Claimable, uploads[id].raw # NoRaw,
               uploads' = [uploads EXCEPT ![id] =
                 [@ EXCEPT !.status = "processing", !.stale = FALSE]],
               SetRun(p, [At("wipe") EXCEPT !.id = id, !.raw = uploads[id].raw])
        PROVE  Goal
    <3>1. /\ q = [At("wipe") EXCEPT !.id = id, !.raw = uploads[id].raw]
          /\ run' = [run EXCEPT ![p] = q]
      BY <2>2, <1>s
    <3>2. id \in UploadId /\ uploads[id].status = "pending"
          /\ uploads'[id].status = "processing"
      BY <2>2 DEF Claimable, TypeOK, Upload
    <3>3. q.pc = "wipe" /\ q.raw = uploads[id].raw /\ q.unlink = {} /\ q.reaped = {}
      BY <3>1 DEF At
    <3>4. RunEffect(r, q)
      BY <2>2, <3>2, <3>3 DEF RunEffect, Taken
    <3>5. RowEffect
      BY <2>2 DEF Claimable, RowEffect, Exists, TypeOK, Upload
    <3> QED BY <1>5, <3>1, <3>4, <3>5, <1>g DEF ClaimPending
  <2> QED BY <1>5, <2>1, <2>2, <2>3 DEF ClaimPending
<1>6. CASE WipeOldPages(p)
  <2>1. q = [r EXCEPT !.pc = "wipeUnlink", !.unlink = PageBlobs(r.id)]
        /\ run' = [run EXCEPT ![p] = q]
    BY <1>6, <1>s DEF WipeOldPages, GotoUnlink
  <2>2. RunEffect(r, q) /\ PageEffect(p)
    BY <1>6, <2>1, <1>h, <1>c DEF WipeOldPages, RunEffect, Claimed
  <2> QED BY <1>6, <2>1, <2>2, <1>u DEF WipeOldPages
<1>7. CASE SaveBlob(p)
  <2>1. q = [r EXCEPT !.pc = "insert", !.n = r.n + 1] /\ run' = [run EXCEPT ![p] = q]
    BY <1>7, <1>s DEF SaveBlob
  <2>2. RunEffect(r, q)
    BY <1>7, <2>1 DEF SaveBlob, RunEffect
  <2> QED BY <1>7, <2>1, <2>2, <1>u, <1>g DEF SaveBlob, dbVars
<1>8. CASE InsertPage(p)
  <2>1. PICK pc \in {"decode", "fail"} : /\ q = [r EXCEPT !.pc = pc]
                                         /\ run' = [run EXCEPT ![p] = q]
    BY <1>8, <1>s DEF InsertPage, Goto
  <2>2. RunEffect(r, q)
    BY <1>8, <2>1 DEF InsertPage, RunEffect
  <2>3. PageEffect(p)
    BY <1>8, <1>g DEF InsertPage, PageEffect, TypeOK, Goto, SetRun
  <2> QED BY <1>8, <2>1, <2>2, <2>3, <1>u DEF InsertPage
<1>9. CASE SettleReady(p)
  <2>1. /\ \/ q = [r EXCEPT !.pc = "lastUnlink", !.unlink = {RawFile(r.raw)}]
           \/ q = [r EXCEPT !.pc = "fail"]
           \/ q = [r EXCEPT !.pc = "late"]
        /\ run' = [run EXCEPT ![p] = q]
    BY <1>9, <1>s DEF SettleReady, Goto, GotoUnlink
  <2>2. RunEffect(r, q)
    <3>1. r.raw \in Raw
      BY <1>9, <1>h DEF SettleReady, Claimed
    <3>2. CASE q = [r EXCEPT !.pc = "lastUnlink", !.unlink = {RawFile(r.raw)}]
      BY <3>1, <3>2 DEF RunEffect
    <3>3. CASE q = [r EXCEPT !.pc = "fail"]
      BY <3>3 DEF RunEffect
    <3>4. CASE q = [r EXCEPT !.pc = "late"]
      BY <3>4 DEF RunEffect
    <3> QED BY <2>1, <3>2, <3>3, <3>4
  <2>3. RowEffect
    <3> DEFINE u == Settled(uploads[r.id], "ready", r.n)
    <3>1. r.id \in UploadId /\ u.raw = NoRaw /\ u.src = uploads[r.id].src
          /\ u.title = uploads[r.id].title
          /\ u.status \in {"processing", "ready", "failed"}
      BY <1>9, <1>h, <1>w DEF SettleReady, Claimed, Settled, Upload
    <3>2. \/ UNCHANGED uploads
          \/ Processing(r.id) /\ uploads' = [uploads EXCEPT ![r.id] = u]
      BY <1>9 DEF SettleReady
    <3> HIDE DEF u
    <3>3. CASE Processing(r.id) /\ uploads' = [uploads EXCEPT ![r.id] = u]
      <4>1. u.raw \in {uploads[r.id].raw, NoRaw}
            /\ uploads[r.id].status \in {"pending", "processing"}
        BY <3>1, <3>3 DEF Processing
      <4>2. uploads'[r.id] = u /\ uploads' = [uploads EXCEPT ![r.id] = uploads'[r.id]]
        BY <3>1, <3>3, <1>x
      <4> QED BY <3>1, <4>1, <4>2, <1>r
    <3> QED BY <3>2, <3>3, <1>u
  <2> QED BY <1>9, <2>1, <2>2, <2>3, <1>g DEF SettleReady
<1>10. CASE ClearLatePages(p)
  <2>1. /\ \/ /\ q = [r EXCEPT !.pc = "lastUnlink", !.unlink = PageBlobs(r.id)]
              /\ ClearPages(r.id)
           \/ q = At("tick") /\ UNCHANGED pages
        /\ run' = [run EXCEPT ![p] = q]
    BY <1>10, <1>s DEF ClearLatePages, GotoUnlink
  <2>2. RunEffect(r, q) /\ PageEffect(p)
    BY <1>10, <2>1, <1>h, <1>c, <1>g, <1>t DEF ClearLatePages, RunEffect, Claimed
  <2> QED BY <1>10, <2>1, <2>2, <1>u DEF ClearLatePages
<1>11. CASE Throw(p)
  <2>1. q = [r EXCEPT !.pc = "fail"] /\ run' = [run EXCEPT ![p] = q]
    BY <1>11, <1>s DEF Throw, Goto
  <2>2. RunEffect(r, q)
    BY <2>1 DEF RunEffect
  <2> QED BY <1>11, <2>1, <2>2, <1>u, <1>g DEF Throw, dbVars
<1>12. CASE SettleFailed(p)
  <2>1. /\ q \in {[r EXCEPT !.pc = "failClear"], At("tick")}
        /\ run' = [run EXCEPT ![p] = q]
    BY <1>12, <1>s DEF SettleFailed, Goto
  <2>2. RunEffect(r, q)
    BY <2>1, <1>t DEF RunEffect
  <2>3. RowEffect
    <3> DEFINE u == Settled(uploads[r.id], "failed", 0)
    <3>1. r.id \in UploadId /\ u.raw = NoRaw /\ u.src = uploads[r.id].src
          /\ u.title = uploads[r.id].title
          /\ u.status \in {"processing", "ready", "failed"}
      BY <1>12, <1>h, <1>w DEF SettleFailed, Claimed, Settled, Upload
    <3>2. \/ UNCHANGED uploads
          \/ Processing(r.id) /\ uploads' = [uploads EXCEPT ![r.id] = u]
      BY <1>12 DEF SettleFailed
    <3> HIDE DEF u
    <3>3. CASE Processing(r.id) /\ uploads' = [uploads EXCEPT ![r.id] = u]
      <4>1. u.raw \in {uploads[r.id].raw, NoRaw}
            /\ uploads[r.id].status \in {"pending", "processing"}
        BY <3>1, <3>3 DEF Processing
      <4>2. uploads'[r.id] = u /\ uploads' = [uploads EXCEPT ![r.id] = uploads'[r.id]]
        BY <3>1, <3>3, <1>x
      <4> QED BY <3>1, <4>1, <4>2, <1>r
    <3> QED BY <3>2, <3>3, <1>u
  <2> QED BY <1>12, <2>1, <2>2, <2>3, <1>g DEF SettleFailed
<1>13. CASE ClearFailedPages(p)
  <2>1. PICK f : q = [r EXCEPT !.pc = "lastUnlink", !.unlink = f]
                 /\ run' = [run EXCEPT ![p] = q]
                 /\ \/ ClearPages(r.id) /\ f = PageBlobs(r.id) \cup OwnRaw(p)
                    \/ UNCHANGED pages /\ f = OwnRaw(p)
    BY <1>13, <1>s DEF ClearFailedPages, GotoUnlink
  <2>2. RunEffect(r, q) /\ PageEffect(p)
    BY <1>13, <2>1, <1>h, <1>c, <1>g
    DEF ClearFailedPages, RunEffect, Claimed, OwnRaw
  <2> QED BY <1>13, <2>1, <2>2, <1>u DEF ClearFailedPages
<1>14. CASE UnlinkFiles(p)
  <2>1. /\ \/ q = [r EXCEPT !.pc = "reapRawRef", !.unlink = {}]
           \/ r.pc = "wipeUnlink" /\ q = [r EXCEPT !.pc = "decode", !.unlink = {}]
           \/ q = At("tick")
        /\ run' = [run EXCEPT ![p] = q]
    BY <1>14, <1>s DEF UnlinkFiles
  <2>2. RunEffect(r, q)
    <3>1. CASE q = [r EXCEPT !.pc = "reapRawRef", !.unlink = {}]
      BY <3>1 DEF RunEffect
    <3>2. CASE r.pc = "wipeUnlink" /\ q = [r EXCEPT !.pc = "decode", !.unlink = {}]
      BY <3>2 DEF RunEffect
    <3> QED BY <2>1, <3>1, <3>2, <1>t
  <2> QED BY <1>14, <2>1, <2>2, <1>u, <1>g DEF UnlinkFiles, dbVars
<1> QED
  BY <1>1, <1>2, <1>3, <1>4, <1>5, <1>6, <1>7, <1>8, <1>9, <1>10, <1>11,
     <1>12, <1>13, <1>14 DEF Tick

(* So is the end or the start of a process.                                *)
LEMMA CrashEffect ==
  ASSUME TypeOK, NEW p \in Process, Crash(p) \/ Restart(p)
  PROVE  RunStep(p)
<1>1. PICK pc \in {"off", "tick"} : run' = [run EXCEPT ![p] = At(pc)]
  BY DEF Crash, Restart, SetRun
<1>2. run'[p] = At(pc) /\ run' = [run EXCEPT ![p] = run'[p]]
  BY <1>1 DEF TypeOK
<1>3. RunEffect(run[p], run'[p])
  BY <1>2 DEF RunEffect, At, Ingesting
<1>4. UNCHANGED <<uploads, pages, disk, post, doomed>>
  BY DEF Crash, Restart, dbVars, httpVars
<1>5. RowEffect /\ PageEffect(p)
  BY <1>4 DEF RowEffect, PageEffect, Exists
<1> QED BY <1>2, <1>3, <1>4, <1>5 DEF RunStep, httpVars

Fresh == UnqueuedIsFresh /\ PendingIsFresh /\ RawOfOneRow
Blobs == BlobOfOneRow /\ ShownIsNotScheduled /\ NextBlobIsUnused /\ PagesHaveRow
Safe == PageBytesOnDisk /\ AcceptedRawOnDisk /\ OneRunPerRaw

(* A runner's step touches no raw file but those it holds or takes.        *)
LEMMA RunStepUntouched ==
  ASSUME TypeOK, TypeOK', NEW p \in Process, RunStep(p),
         NEW x \in Raw, Untouched(x), ~Taken(x)
  PROVE  Untouched(x)'
<1> DEFINE r == run[p]
           q == run'[p]
<1>1. /\ r \in Run /\ q \in Run /\ x # NoRaw
      /\ \A s \in Process : s # p => run'[s] = run[s]
      /\ RunEffect(r, q) /\ PageEffect(p) /\ UNCHANGED doomed
  BY BookIngestAssumption DEF TypeOK, RunStep, httpVars
<1>2. /\ \A s \in Process : run[s].raw # x /\ \A e \in run[s].reaped : e.raw # x
      /\ \A f \in Scheduled : f.src # x
      /\ \A id \in UploadId : \A pg \in pages[id] : pg.blob.src # x
  BY DEF Untouched
<1>3. ASSUME NEW s \in Process
      PROVE  run'[s].raw # x /\ \A e \in run'[s].reaped : e.raw # x
  BY <1>1, <1>2 DEF RunEffect
<1>4. ASSUME NEW f \in q.unlink PROVE f.src # x
  <2>1. CASE f \in r.unlink
    BY <1>2, <2>1 DEF Scheduled
  <2>2. CASE r.raw \in Raw /\ f = RawFile(r.raw)
    BY <1>2, <2>2 DEF RawFile
  <2>3. CASE Hidden(f)
    BY <1>2, <2>3 DEF Hidden, PageBlobs
  <2> QED BY <1>1, <2>1, <2>2, <2>3 DEF RunEffect
<1>5. \A f \in Scheduled' : f.src # x
  BY <1>1, <1>2, <1>4 DEF Scheduled
<1>6. ASSUME NEW id \in UploadId, NEW pg \in pages'[id] PROVE pg.blob.src # x
  BY <1>1, <1>2 DEF PageEffect, TypeOK, BlobOf
<1> QED BY <1>3, <1>5, <1>6 DEF Untouched

(* A runner's step keeps waiting files untouched.                          *)
LEMMA RunStepFresh ==
  ASSUME IInv, TypeOK', NEW p \in Process, RunStep(p)
  PROVE  Fresh'
<1>1. /\ UNCHANGED post /\ RowEffect
      /\ \A r \in Raw : RawFile(r) \in disk /\ Untouched(r) => RawFile(r) \in disk'
  BY DEF RunStep, httpVars, Untouched, Scheduled, RawFile
<1>2. ASSUME NEW x \in Raw, Untouched(x), ~Taken(x) PROVE Untouched(x)'
  BY <1>2, RunStepUntouched DEF IInv
<1>3. UnqueuedIsFresh'
  <2> SUFFICES ASSUME NEW x \in Raw, post[x].pc \in {"unsent", "stored", "counted"}
               PROVE  /\ Untouched(x)'
                      /\ \A id \in UploadId : uploads'[id].raw # x /\ uploads'[id].src # x
                      /\ post[x].pc # "unsent" => RawFile(x) \in disk'
    BY <1>1 DEF UnqueuedIsFresh
  <2>1. /\ Untouched(x)
        /\ \A id \in UploadId : uploads[id].raw # x /\ uploads[id].src # x
        /\ post[x].pc # "unsent" => RawFile(x) \in disk
    BY DEF IInv, UnqueuedIsFresh
  <2>2. ~Taken(x)
    BY <2>1 DEF Taken
  <2>3. x # NoRaw
    BY BookIngestAssumption
  <2> QED BY <1>1, <1>2, <2>1, <2>2, <2>3 DEF RowEffect
<1>4. PendingIsFresh'
  <2> SUFFICES ASSUME NEW id \in UploadId, NEW x \in Raw,
                      uploads'[id].status = "pending", uploads'[id].raw = x
               PROVE  Untouched(x)'
    BY DEF PendingIsFresh, TypeOK, Upload
  <2>1. uploads[id].status = "pending" /\ uploads[id].raw = x /\ x # NoRaw
    BY <1>1, BookIngestAssumption DEF RowEffect
  <2>2. Untouched(x)
    BY <2>1 DEF IInv, PendingIsFresh
  <2>3. ~Taken(x)
    BY <2>1 DEF Taken, IInv, RawOfOneRow
  <2> QED BY <1>2, <2>2, <2>3
<1>5. RawOfOneRow'
  BY <1>1 DEF RowEffect, IInv, RawOfOneRow
<1> QED BY <1>3, <1>4, <1>5 DEF Fresh

(* A runner's step keeps shown blobs, and those about to be, safe.         *)
LEMMA RunStepBlobs ==
  ASSUME IInv, TypeOK', RunHoldsRow', NEW p \in Process, RunStep(p)
  PROVE  Blobs' /\ Safe'
<1> DEFINE r == run[p]
           q == run'[p]
<1>1. /\ r \in Run /\ q \in Run
      /\ \A s \in Process : s # p => run'[s] = run[s]
      /\ RunEffect(r, q) /\ RowEffect /\ PageEffect(p) /\ UNCHANGED <<post, doomed>>
      /\ disk \ r.unlink \subseteq disk'
  BY DEF IInv, TypeOK, RunStep, httpVars
<1>2. ASSUME NEW f \in Scheduled'
      PROVE  f \in Scheduled \/ Hidden(f) \/ (r.raw \in Raw /\ f = RawFile(r.raw))
  <2>1. CASE f \in q.unlink
    BY <1>1, <2>1 DEF Scheduled, RunEffect
  <2>2. CASE f \in doomed'
    BY <1>1, <2>2 DEF Scheduled
  <2>3. ASSUME NEW s \in Process, s # p, f \in run'[s].unlink
        PROVE  f \in Scheduled
    BY <1>1, <2>3 DEF Scheduled
  <2> QED BY <2>1, <2>2, <2>3 DEF Scheduled
<1>3. \A b \in Blob : b \in Scheduled' => b \in Scheduled \/ Hidden(b)
  BY <1>2 DEF Blob, RawFile
<1>4. \A f \in disk : f \notin Scheduled => f \in disk'
  BY <1>1 DEF Scheduled
<1> DEFINE b0 == BlobOf(r.raw, r.n)
           Inserts(id) == /\ r.pc = "insert" /\ r.id = id /\ Exists(id)
                          /\ q = [r EXCEPT !.pc = "decode"] /\ b0 \in disk
                          /\ Unused(b0) /\ ~\E f : Hidden(f)
<1>5. ASSUME NEW id \in UploadId, NEW pg \in pages'[id]
      PROVE  \/ pg \in pages[id]
             \/ Inserts(id) /\ pg.blob = b0
  <2>1. CASE pages'[id] \in {pages[id], {}}
    BY <2>1
  <2>2. CASE /\ r.pc = "insert" /\ r.id = id /\ Exists(id)
             /\ pages' = [pages EXCEPT ![id] = pages[id] \cup {[no |-> r.n, blob |-> b0]}]
             /\ run' = [run EXCEPT ![p] = [r EXCEPT !.pc = "decode"]]
    <3>1. q = [r EXCEPT !.pc = "decode"] /\ b0 \in disk /\ Unused(b0)
      BY <2>2 DEF IInv, TypeOK, NextBlobIsUnused
    <3>2. \A j \in UploadId : pages'[j] = {} => pages[j] = {}
      BY <2>2 DEF IInv, TypeOK
    <3>3. ~\E f : Hidden(f)
      BY <3>2 DEF Hidden, PageBlobs
    <3>4. pages'[id] = pages[id] \cup {[no |-> r.n, blob |-> b0]}
      BY <2>2 DEF IInv, TypeOK
    <3> QED BY <2>2, <3>1, <3>3, <3>4
  <2> QED BY <1>1, <2>1, <2>2 DEF PageEffect
<1>6. BlobOfOneRow'
  <2> SUFFICES ASSUME NEW i \in UploadId, NEW j \in UploadId,
                      NEW x \in pages'[i], NEW y \in pages'[j], x.blob = y.blob
               PROVE  i = j
    BY DEF BlobOfOneRow
  <2> QED BY <1>5 DEF IInv, BlobOfOneRow, Unused
<1>7. ShownIsNotScheduled'
  <2> SUFFICES ASSUME NEW id \in UploadId, NEW pg \in pages'[id],
                      pg.blob \in Scheduled'
               PROVE  FALSE
    BY DEF ShownIsNotScheduled
  <2>1. pg.blob \in Blob
    BY DEF TypeOK, Page
  <2>2. CASE pg \in pages[id]
    <3>1. PICK j \in UploadId : pg.blob \in PageBlobs(j) /\ pages'[j] = {}
      BY <1>3, <2>1, <2>2 DEF IInv, ShownIsNotScheduled, Hidden
    <3> QED BY <2>2, <3>1 DEF IInv, BlobOfOneRow, PageBlobs
  <2>3. CASE Inserts(id) /\ pg.blob = b0
    BY <1>3, <2>1, <2>3 DEF Unused
  <2> QED BY <1>5, <2>2, <2>3
<1>8. NextBlobIsUnused'
  <2>1. ASSUME NEW b \in Blob, Unused(b),
               \A id \in UploadId : Inserts(id) => b # b0
        PROVE  Unused(b)'
    <3>1. b \notin Scheduled'
      BY <1>3, <2>1 DEF Unused, Hidden, PageBlobs
    <3> QED BY <1>5, <2>1, <3>1 DEF Unused
  <2>2. ASSUME NEW s \in Process, s # p, run[s].pc \in Ingesting,
               NEW b \in Blob, b.src = run[s].raw, Unused(b)
        PROVE  Unused(b)'
    <3>1. \A id \in UploadId : Inserts(id) => b # b0
      BY <2>2 DEF IInv, OneRunPerRaw, Ingesting, BlobOf
    <3> QED BY <2>1, <2>2, <3>1
  <2>3. ASSUME NEW b \in Blob, q.pc \in Ingesting, b.src = q.raw,
               b.no > q.n \/ (q.pc = "insert" /\ b.no = q.n)
        PROVE  Unused(b)'
    <3>1. CASE r.pc \in Ingesting /\ q.raw = r.raw /\ q.n >= r.n
      <4>1. b.no > r.n
        BY <1>1, <2>3, <3>1 DEF RunEffect, Blob, Run
      <4>2. Unused(b)
        BY <2>3, <3>1, <4>1 DEF IInv, NextBlobIsUnused, Blob, BlobOf
      <4>3. b # b0
        BY <1>1, <4>1 DEF BlobOf, Blob, Run
      <4> QED BY <2>1, <4>2, <4>3
    <3>2. CASE \E id \in UploadId : /\ uploads[id].status = "pending"
                                   /\ uploads[id].raw = q.raw /\ q.raw # NoRaw
      <4>1. Untouched(q.raw)
        BY <3>2 DEF IInv, PendingIsFresh
      <4>2. Unused(b) /\ b # b0
        BY <2>3, <4>1 DEF Untouched, Unused, BlobOf
      <4> QED BY <2>1, <4>2
    <3> QED BY <1>1, <2>3, <3>1, <3>2 DEF RunEffect
  <2>4. ASSUME NEW s \in Process, run'[s].pc \in Ingesting
        PROVE  \A n \in 1..MaxPage : BlobOf(run'[s].raw, n) \in Blob
    <3>1. run'[s].raw \in Raw
      BY <2>4 DEF RunHoldsRow, Claimed
    <3> QED BY <3>1, RowTypes
  <2>5. ASSUME NEW s \in Process, run'[s].pc \in Ingesting, NEW b \in Blob,
               b.src = run'[s].raw, b.no > run'[s].n
        PROVE  Unused(b)'
    <3>1. CASE s = p
      BY <2>3, <2>5, <3>1
    <3>2. CASE s # p
      <4>1. run'[s] = run[s] /\ b = BlobOf(run[s].raw, b.no) /\ b.no \in 1..MaxPage
        BY <1>1, <2>5, <3>2 DEF Blob, BlobOf
      <4>2. Unused(b)
        BY <2>5, <4>1 DEF IInv, NextBlobIsUnused
      <4> QED BY <2>2, <2>5, <3>2, <4>1, <4>2
    <3> QED BY <3>1, <3>2
  <2>6. ASSUME NEW s \in Process, run'[s].pc = "insert",
               NEW b, b = BlobOf(run'[s].raw, run'[s].n)
        PROVE  Unused(b)' /\ b \in disk'
    <3>1. b \in Blob /\ b.src = run'[s].raw /\ b.no = run'[s].n
      <4>1. run'[s].n \in 1..MaxPage /\ run'[s].pc \in Ingesting
        BY <2>6, BookIngestAssumption DEF TypeOK, Run, RunHoldsRow, Ingesting
      <4> QED BY <2>4, <2>6, <4>1 DEF BlobOf
    <3>2. CASE s = p
      BY <1>1, <2>3, <2>6, <3>1, <3>2 DEF RunEffect, Ingesting
    <3>3. CASE s # p
      <4>1. run'[s] = run[s] /\ Unused(b) /\ b \in disk
        BY <1>1, <2>6, <3>3 DEF IInv, NextBlobIsUnused
      <4> QED BY <1>4, <2>2, <2>6, <3>1, <3>3, <4>1 DEF Unused, Ingesting
    <3> QED BY <3>2, <3>3
  <2>7. ASSUME NEW s \in Process, run'[s].pc \in Ingesting,
               NEW n \in 1..MaxPage, n > run'[s].n, NEW b, b = BlobOf(run'[s].raw, n)
        PROVE  Unused(b)'
    <3>1. b \in Blob /\ b.src = run'[s].raw /\ b.no > run'[s].n
      BY <2>4, <2>7 DEF BlobOf
    <3> QED BY <2>5, <2>7, <3>1
  <2> QED BY <2>6, <2>7 DEF NextBlobIsUnused
<1>9. PagesHaveRow'
  BY <1>5, <1>1 DEF PagesHaveRow, IInv, RowEffect, Exists
<1>10. PageBytesOnDisk'
  BY <1>4, <1>5 DEF IInv, PageBytesOnDisk, ShownIsNotScheduled, Unused
<1>11. AcceptedRawOnDisk'
  <2> SUFFICES ASSUME NEW id \in UploadId, NEW x \in Raw,
                      uploads'[id].status = "pending", uploads'[id].raw = x,
                      post[x].pc = "accepted"
               PROVE  RawFile(x) \in disk'
    BY <1>1 DEF AcceptedRawOnDisk, TypeOK, Upload
  <2>1. uploads[id].status = "pending" /\ uploads[id].raw = x /\ x # NoRaw
    BY <1>1, BookIngestAssumption DEF RowEffect
  <2>2. RawFile(x) \in disk /\ Untouched(x)
    BY <2>1 DEF IInv, AcceptedRawOnDisk, PendingIsFresh
  <2> QED BY <1>4, <2>2 DEF Untouched, RawFile
<1>12. OneRunPerRaw'
  <2>1. ASSUME NEW s \in Process, s # p, run[s].pc \in Ingesting, q.pc \in Ingesting,
               run[s].raw = q.raw
        PROVE  FALSE
    <3>1. CASE r.pc \in Ingesting /\ q.raw = r.raw
      BY <2>1, <3>1 DEF IInv, OneRunPerRaw
    <3>2. CASE \E id \in UploadId : /\ uploads[id].status = "pending"
                                   /\ uploads[id].raw = q.raw /\ q.raw # NoRaw
      BY <2>1, <3>2 DEF IInv, PendingIsFresh, Untouched
    <3> QED BY <1>1, <2>1, <3>1, <3>2 DEF RunEffect
  <2> QED BY <1>1, <2>1 DEF IInv, OneRunPerRaw
<1> QED
  BY <1>6, <1>7, <1>8, <1>9, <1>10, <1>11, <1>12 DEF Blobs, Safe

(* A step of a runner, a crash or a restart keeps the invariant.           *)
LEMMA RunStepInductive ==
  ASSUME IInv, TypeOK', RunHoldsRow', NEW p \in Process, RunStep(p)
  PROVE  IInv'
BY RunStepFresh, RunStepBlobs DEF IInv, Fresh, Blobs, Safe

---------------------------------------------------------------------------
(* Steps of requests.                                                      *)

(* A POST keeps the invariant.                                             *)
LEMMA PostInductive ==
  ASSUME IInv, TypeOK', RunHoldsRow', NEW r \in Raw, Post(r)
  PROVE  IInv'
<1> DEFINE Accepts(id) ==
             /\ post[r].pc \in {"stored", "counted"}
             /\ uploads[id].status # "pending"
             /\ uploads' = [uploads EXCEPT ![id] =
                  [status |-> "pending", title |-> post[r].title, raw |-> r,
                   src |-> r, count |-> 0, stale |-> FALSE]]
<1>1. UNCHANGED <<pages, run, doomed>>
  BY DEF Post, PostStore, PostConflict, PostReplace, PostCount, PostInsert,
    PostThrow, PostReject, PostLost, dbVars
<1>2. UNCHANGED uploads \/ \E id \in UploadId : Accepts(id) /\ UNCHANGED disk
  BY DEF Post, PostStore, PostConflict, PostReplace, PostCount, PostInsert,
    PostThrow, PostReject, PostLost, dbVars, Enqueue, RowsOf
<1>3. /\ \A x \in Raw : x # r => post'[x] = post[x]
      /\ post'[r].pc # "unsent"
      /\ \/ post'[r].pc \notin {"stored", "counted", "accepted"}
         \/ post'[r].pc = "stored" /\ post[r].pc = "unsent" /\ RawFile(r) \in disk'
         \/ post'[r].pc = "counted" /\ post[r].pc = "stored"
         \/ post'[r].pc = "accepted" /\ \E id \in UploadId : Accepts(id)
      /\ \/ disk \subseteq disk'
         \/ /\ post[r].pc = "rejected" /\ post'[r].pc = "closed"
            /\ disk' = disk \ {RawFile(r)}
      /\ (\E id \in UploadId : Accepts(id)) => post'[r].pc \in {"accepted", "rejected"}
      /\ post'[r].pc \in {"stored", "counted"} => UNCHANGED uploads
  <2>1. CASE \E t \in Title : PostStore(r, t)
    BY <2>1 DEF PostStore, dbVars, IInv, TypeOK
  <2>2. CASE PostConflict(r) \/ PostThrow(r) \/ PostLost(r) \/ PostCount(r)
    BY <2>2 DEF PostConflict, PostThrow, PostLost, PostCount, SetPost, dbVars,
      IInv, TypeOK, PostState
  <2>3. CASE PostReject(r)
    BY <2>3 DEF PostReject, SetPost, dbVars, IInv, TypeOK, PostState
  <2>4. CASE PostReplace(r)
    <3>1. PICK id \in UploadId : uploads[id].status \in {"ready", "failed"}
                                 /\ Enqueue(r, id)
      BY <2>4 DEF PostReplace, RowsOf
    <3>a. post[r].pc = "stored" /\ uploads[id].status # "pending"
      BY <2>4, <3>1 DEF PostReplace
    <3>b. Accepts(id)
      BY <3>1, <3>a DEF Enqueue
    <3>2. Accepts(id) /\ post'[r].pc \in {"accepted", "rejected"}
          /\ \A x \in Raw : x # r => post'[x] = post[x]
      BY <3>1, <3>b DEF Enqueue, SetPost, IInv, TypeOK
    <3>3. UNCHANGED disk
      BY <2>4 DEF PostReplace
    <3> HIDE DEF Accepts
    <3> QED BY <3>2, <3>3
  <2>5. CASE PostInsert(r)
    <3>1. ASSUME NEW id \in UploadId, uploads[id].status = "none", Enqueue(r, id)
          PROVE  Accepts(id) /\ post'[r].pc \in {"accepted", "rejected"}
                 /\ \A x \in Raw : x # r => post'[x] = post[x]
      BY <2>5, <3>1 DEF PostInsert, Enqueue, SetPost, IInv, TypeOK
    <3>2. CASE SetPost(r, "rejected")
      BY <2>5, <3>2 DEF PostInsert, SetPost, IInv, TypeOK
    <3> QED BY <2>5, <3>1, <3>2 DEF PostInsert
  <2> QED BY <2>1, <2>2, <2>3, <2>4, <2>5 DEF Post
<1>4. \A x \in Raw : Untouched(x)' <=> Untouched(x)
  BY <1>1 DEF Untouched, Scheduled
<1>5. \A f \in disk : f.no # 0 => f \in disk'
  BY <1>3 DEF RawFile
<1>6. UnqueuedIsFresh'
  <2> SUFFICES ASSUME NEW x \in Raw, post'[x].pc \in {"unsent", "stored", "counted"}
               PROVE  /\ Untouched(x)'
                      /\ \A id \in UploadId : uploads'[id].raw # x /\ uploads'[id].src # x
                      /\ post'[x].pc # "unsent" => RawFile(x) \in disk'
    BY DEF UnqueuedIsFresh
  <2>1. post[x].pc \in {"unsent", "stored", "counted"}
    BY <1>3
  <2>2. /\ Untouched(x)
        /\ \A id \in UploadId : uploads[id].raw # x /\ uploads[id].src # x
        /\ post[x].pc # "unsent" => RawFile(x) \in disk
    BY <2>1 DEF IInv, UnqueuedIsFresh
  <2>3. \A id \in UploadId : uploads'[id].raw # x /\ uploads'[id].src # x
    <3>1. CASE UNCHANGED uploads
      BY <2>2, <3>1
    <3>2. CASE \E id \in UploadId : Accepts(id)
      <4>1. x # r
        BY <1>3, <3>2
      <4> QED BY <2>2, <3>2, <4>1 DEF IInv, TypeOK
    <3> QED BY <1>2, <3>1, <3>2
  <2>4. post'[x].pc # "unsent" => RawFile(x) \in disk'
    BY <1>3, <2>1, <2>2 DEF RawFile
  <2> QED BY <1>4, <2>2, <2>3, <2>4
<1>7. PendingIsFresh' /\ RawOfOneRow'
  <2>1. CASE UNCHANGED uploads
    BY <1>1, <2>1 DEF IInv, PendingIsFresh, RawOfOneRow, Untouched, Scheduled
  <2>2. ASSUME NEW id \in UploadId, Accepts(id)
        PROVE  PendingIsFresh' /\ RawOfOneRow'
    <3>1. /\ Untouched(r) /\ \A j \in UploadId : uploads[j].raw # r
          /\ \A j \in UploadId : j # id => uploads'[j] = uploads[j]
          /\ uploads'[id].raw = r
      BY <2>2 DEF IInv, UnqueuedIsFresh, TypeOK
    <3>2. RawOfOneRow'
      BY <3>1 DEF IInv, RawOfOneRow
    <3>3. ASSUME NEW j \in UploadId, NEW x \in Raw,
                 uploads'[j].status = "pending", uploads'[j].raw = x
          PROVE  Untouched(x)'
      <4>1. Untouched(x)
        BY <3>1, <3>3, BookIngestAssumption DEF IInv, PendingIsFresh
      <4> QED BY <1>4, <4>1
    <3> QED BY <3>2, <3>3 DEF PendingIsFresh, TypeOK, Upload
  <2> QED BY <1>2, <2>1, <2>2
<1>8. BlobOfOneRow' /\ ShownIsNotScheduled'
  BY <1>1 DEF IInv, BlobOfOneRow, ShownIsNotScheduled, Scheduled
<1>9. NextBlobIsUnused'
  <2>1. ASSUME NEW p \in Process, run[p].pc = "insert",
               BlobOf(run[p].raw, run[p].n) \in disk
        PROVE  BlobOf(run[p].raw, run[p].n) \in disk'
    BY <1>5, <2>1 DEF IInv, TypeOK, Run, RunHoldsRow, BlobOf
  <2> QED BY <1>1, <2>1 DEF IInv, NextBlobIsUnused, Unused, Scheduled
<1>10. PagesHaveRow' /\ PageBytesOnDisk'
  <2>1. \A id \in UploadId : Exists(id) => Exists(id)'
    BY <1>2 DEF Exists, IInv, TypeOK
  <2>2. \A id \in UploadId : \A pg \in pages[id] : pg.blob \in disk'
    BY <1>5 DEF IInv, PageBytesOnDisk, TypeOK, Page, Blob
  <2> QED BY <1>1, <2>1, <2>2 DEF IInv, PagesHaveRow, PageBytesOnDisk
<1>11. AcceptedRawOnDisk'
  <2> SUFFICES ASSUME NEW id \in UploadId, NEW x \in Raw,
                      uploads'[id].status = "pending", uploads'[id].raw = x,
                      post'[x].pc = "accepted"
               PROVE  RawFile(x) \in disk'
    BY DEF AcceptedRawOnDisk, TypeOK, Upload
  <2>1. CASE \E j \in UploadId : Accepts(j) /\ UNCHANGED disk
    <3>1. PICK j \in UploadId : Accepts(j) /\ UNCHANGED disk
      BY <2>1
    <3>2. CASE id = j
      BY <3>1, <3>2 DEF IInv, TypeOK, UnqueuedIsFresh
    <3>3. CASE id # j
      <4>1. uploads'[id] = uploads[id] /\ x # r
        BY <3>1, <3>3 DEF IInv, TypeOK, UnqueuedIsFresh
      <4> QED BY <1>3, <3>1, <4>1, BookIngestAssumption DEF IInv, AcceptedRawOnDisk
    <3> QED BY <3>2, <3>3
  <2>2. CASE UNCHANGED uploads /\ ~\E j \in UploadId : Accepts(j)
    <3>1. x # r /\ post[x].pc = "accepted"
      BY <1>3, <2>2
    <3> QED BY <1>3, <2>2, <3>1, BookIngestAssumption DEF IInv, AcceptedRawOnDisk, RawFile
  <2>3. \A j \in UploadId : Accepts(j) => uploads' # uploads
    BY DEF IInv, TypeOK
  <2> QED BY <1>2, <2>1, <2>2, <2>3
<1>12. OneRunPerRaw'
  BY <1>1 DEF IInv, OneRunPerRaw
<1> QED
  BY <1>6, <1>7, <1>8, <1>9, <1>10, <1>11, <1>12 DEF IInv

(* Deleting or sweeping a row keeps the invariant.                         *)
LEMMA DeleteInductive ==
  ASSUME IInv, TypeOK', RunHoldsRow', NEW id \in UploadId,
         DeleteUpload(id) \/ SweepFailed(id)
  PROVE  IInv'
<1>1. /\ UNCHANGED <<disk, post, run>>
      /\ uploads' = [uploads EXCEPT ![id] = NoRow("gone")]
      /\ pages' = [pages EXCEPT ![id] = {}]
  BY DEF DeleteUpload, SweepFailed, httpVars
<1>2. /\ \A j \in UploadId : j # id => uploads'[j] = uploads[j] /\ pages'[j] = pages[j]
      /\ uploads'[id] = NoRow("gone") /\ pages'[id] = {}
  BY <1>1 DEF IInv, TypeOK
<1>3. ASSUME NEW f \in Scheduled'
      PROVE  \/ f \in Scheduled \/ f \in PageBlobs(id)
             \/ uploads[id].raw # NoRaw /\ f = RawFile(uploads[id].raw)
  BY <1>1 DEF Scheduled, DeleteUpload, SweepFailed, httpVars
<1>4. ASSUME NEW x \in Raw, Untouched(x), uploads[id].raw # x
      PROVE  Untouched(x)'
  BY <1>1, <1>2, <1>3, <1>4 DEF Untouched, PageBlobs, RawFile
<1>5. UnqueuedIsFresh'
  BY <1>1, <1>2, <1>4, BookIngestAssumption DEF IInv, UnqueuedIsFresh, NoRow
<1>6. PendingIsFresh' /\ RawOfOneRow'
  <2>1. RawOfOneRow'
    BY <1>2 DEF IInv, RawOfOneRow, NoRow
  <2>2. ASSUME NEW j \in UploadId, NEW x \in Raw,
               uploads'[j].status = "pending", uploads'[j].raw = x
        PROVE  Untouched(x)'
    <3>1. j # id /\ uploads[j] = uploads'[j] /\ x # NoRaw
      BY <1>2, <2>2, BookIngestAssumption DEF NoRow
    <3>2. Untouched(x) /\ uploads[id].raw # x
      BY <2>2, <3>1 DEF IInv, PendingIsFresh, RawOfOneRow
    <3> QED BY <1>4, <3>2
  <2> QED BY <2>1, <2>2 DEF PendingIsFresh, TypeOK, Upload
<1>7. ASSUME NEW b \in Blob, b \notin Scheduled, b \notin PageBlobs(id)
      PROVE  b \notin Scheduled'
  BY <1>3, <1>7 DEF Blob, RawFile
<1>8. BlobOfOneRow' /\ ShownIsNotScheduled'
  <2>1. BlobOfOneRow'
    BY <1>2 DEF IInv, BlobOfOneRow
  <2>2. ASSUME NEW j \in UploadId, NEW pg \in pages'[j]
        PROVE  pg.blob \notin Scheduled'
    <3>1. j # id /\ pg \in pages[j] /\ pg.blob \in Blob
      BY <1>2 DEF IInv, TypeOK, Page
    <3>2. pg.blob \notin Scheduled /\ pg.blob \notin PageBlobs(id)
      BY <3>1 DEF IInv, ShownIsNotScheduled, BlobOfOneRow, PageBlobs
    <3> QED BY <1>7, <3>1, <3>2
  <2> QED BY <2>1, <2>2 DEF ShownIsNotScheduled
<1>9. NextBlobIsUnused'
  <2>1. ASSUME NEW b \in Blob, Unused(b) PROVE Unused(b)'
    BY <1>2, <1>7, <2>1 DEF Unused, PageBlobs
  <2>2. ASSUME NEW p \in Process, run[p].pc \in Ingesting, NEW n \in 1..MaxPage
        PROVE  BlobOf(run[p].raw, n) \in Blob
    BY <2>2, RowTypes DEF IInv, RunHoldsRow, Claimed
  <2>3. ASSUME NEW p \in Process, run[p].pc = "insert"
        PROVE  run[p].n \in 1..MaxPage /\ run[p].pc \in Ingesting
    BY <2>3, BookIngestAssumption DEF IInv, TypeOK, Run, RunHoldsRow, Ingesting
  <2>4. ASSUME NEW p \in Process, run[p].pc \in Ingesting, NEW n \in 1..MaxPage,
               Unused(BlobOf(run[p].raw, n)), NEW b, b = BlobOf(run[p].raw, n)
        PROVE  Unused(b)'
    BY <2>1, <2>2, <2>4
  <2> QED BY <1>1, <2>3, <2>4 DEF IInv, NextBlobIsUnused
<1>10. PagesHaveRow' /\ PageBytesOnDisk'
  BY <1>1, <1>2 DEF IInv, PagesHaveRow, PageBytesOnDisk, Exists
<1>11. AcceptedRawOnDisk'
  BY <1>1, <1>2 DEF IInv, AcceptedRawOnDisk, NoRow
<1>12. OneRunPerRaw'
  BY <1>1 DEF IInv, OneRunPerRaw
<1> QED
  BY <1>5, <1>6, <1>8, <1>9, <1>10, <1>11, <1>12 DEF IInv

(* Unlinks of a DELETE, renumbering, aging and colour flips keep it.       *)
LEMMA OtherInductive ==
  ASSUME IInv, TypeOK', RunHoldsRow',
         \/ DeleteUnlink \/ DeleteLost
         \/ \E id \in UploadId : ReorderPages(id) \/ Age(id)
         \/ (\E c \in Colours : Flip(c)) \/ UNCHANGED vars
  PROVE  IInv'
<1>1. CASE DeleteUnlink \/ DeleteLost
  <2>1. UNCHANGED <<uploads, pages, post, run>> /\ doomed' = {} /\ disk \ doomed \subseteq disk'
    BY <1>1 DEF DeleteUnlink, DeleteLost, dbVars
  <2>2. Scheduled' \subseteq Scheduled /\ \A f \in disk : f \notin Scheduled => f \in disk'
    BY <2>1 DEF Scheduled
  <2>3. \A x \in Raw : Untouched(x) => Untouched(x)'
    BY <2>1, <2>2 DEF Untouched
  <2>4. UnqueuedIsFresh' /\ PendingIsFresh' /\ AcceptedRawOnDisk'
    <3>1. \A x \in Raw : Untouched(x) /\ RawFile(x) \in disk => RawFile(x) \in disk'
      BY <2>2 DEF Untouched, RawFile
    <3>2. \A id \in UploadId : uploads[id].raw # NoRaw => uploads[id].raw \in Raw
      BY DEF IInv, TypeOK, Upload
    <3>3. UnqueuedIsFresh'
      BY <2>1, <2>3, <3>1 DEF IInv, UnqueuedIsFresh
    <3>4. ASSUME NEW id \in UploadId, NEW x \in Raw,
                 uploads'[id].status = "pending", uploads'[id].raw = x
          PROVE  Untouched(x)' /\ (post'[x].pc = "accepted" => RawFile(x) \in disk')
      <4>1. Untouched(x) /\ (post[x].pc = "accepted" => RawFile(x) \in disk)
        BY <2>1, <3>4, BookIngestAssumption DEF IInv, PendingIsFresh, AcceptedRawOnDisk
      <4> QED BY <2>1, <2>3, <3>1, <4>1
    <3> QED BY <3>3, <3>4 DEF PendingIsFresh, AcceptedRawOnDisk, TypeOK, Upload
  <2>5. RawOfOneRow' /\ BlobOfOneRow' /\ ShownIsNotScheduled' /\ PagesHaveRow'
    BY <2>1, <2>2 DEF IInv, RawOfOneRow, BlobOfOneRow, ShownIsNotScheduled,
      PagesHaveRow, Exists
  <2>6. NextBlobIsUnused'
    BY <2>1, <2>2 DEF IInv, NextBlobIsUnused, Unused
  <2>7. PageBytesOnDisk' /\ OneRunPerRaw'
    BY <2>1, <2>2 DEF IInv, PageBytesOnDisk, ShownIsNotScheduled, OneRunPerRaw
  <2> QED BY <2>4, <2>5, <2>6, <2>7 DEF IInv
<1>2. ASSUME NEW id \in UploadId, ReorderPages(id) PROVE IInv'
  <2>1. UNCHANGED <<uploads, disk, post, doomed, run>> /\ Exists(id)
        /\ \A j \in UploadId : j # id => pages'[j] = pages[j]
    BY <1>2 DEF ReorderPages, httpVars, IInv, TypeOK
  <2>2. \A j \in UploadId : \A pg \in pages'[j] : \E old \in pages[j] : old.blob = pg.blob
    BY <1>2, <2>1 DEF ReorderPages, IInv, TypeOK
  <2>3. UNCHANGED Scheduled /\ \A j \in UploadId : Exists(j)' <=> Exists(j)
    BY <2>1 DEF Scheduled, Exists
  <2>4. \A x \in Raw : Untouched(x) => Untouched(x)'
    BY <2>1, <2>2, <2>3 DEF Untouched
  <2>5. UnqueuedIsFresh'
    BY <2>1, <2>4 DEF IInv, UnqueuedIsFresh
  <2>6. ASSUME NEW j \in UploadId, NEW x \in Raw,
               uploads'[j].status = "pending", uploads'[j].raw = x
        PROVE  Untouched(x)'
    BY <2>1, <2>4, <2>6, BookIngestAssumption DEF IInv, PendingIsFresh
  <2>7. PendingIsFresh'
    BY <2>6 DEF PendingIsFresh, TypeOK, Upload
  <2>8. RawOfOneRow' /\ AcceptedRawOnDisk' /\ OneRunPerRaw'
    BY <2>1 DEF IInv, RawOfOneRow, AcceptedRawOnDisk, OneRunPerRaw
  <2>9. BlobOfOneRow' /\ ShownIsNotScheduled' /\ PageBytesOnDisk'
    BY <2>1, <2>2, <2>3 DEF IInv, BlobOfOneRow, ShownIsNotScheduled, PageBytesOnDisk
  <2>10. \A b \in Blob : Unused(b) => Unused(b)'
    BY <2>2, <2>3 DEF Unused
  <2>11. NextBlobIsUnused'
    <3>1. \A b : Unused(b) => Unused(b)'
      BY <2>2, <2>3 DEF Unused
    <3> QED BY <2>1, <3>1 DEF IInv, NextBlobIsUnused
  <2>12. PagesHaveRow'
    BY <2>1, <2>3 DEF IInv, PagesHaveRow
  <2> QED BY <2>5, <2>7, <2>8, <2>9, <2>11, <2>12 DEF IInv
<1>3. ASSUME NEW id \in UploadId, Age(id) PROVE IInv'
  <2>1. /\ UNCHANGED <<pages, disk, post, doomed, run>>
        /\ \A j \in UploadId : /\ uploads'[j].status = uploads[j].status
                               /\ uploads'[j].raw = uploads[j].raw
                               /\ uploads'[j].src = uploads[j].src
    BY <1>3 DEF Age, httpVars, IInv, TypeOK, Upload
  <2>2. \A x \in Raw : Untouched(x)' <=> Untouched(x)
    BY <2>1 DEF Untouched, Scheduled
  <2>3. UnqueuedIsFresh'
    BY <2>1, <2>2 DEF IInv, UnqueuedIsFresh
  <2>4. PendingIsFresh'
    <3>1. ASSUME NEW j \in UploadId, NEW x \in Raw,
                 uploads'[j].status = "pending", uploads'[j].raw = x
          PROVE  Untouched(x)'
      BY <2>1, <2>2, <3>1, BookIngestAssumption DEF IInv, PendingIsFresh
    <3> QED BY <3>1 DEF PendingIsFresh, TypeOK, Upload
  <2>5. RawOfOneRow' /\ AcceptedRawOnDisk' /\ PagesHaveRow'
    BY <2>1 DEF IInv, RawOfOneRow, AcceptedRawOnDisk, PagesHaveRow, Exists
  <2>6. BlobOfOneRow' /\ ShownIsNotScheduled' /\ PageBytesOnDisk' /\ OneRunPerRaw'
    BY <2>1 DEF IInv, BlobOfOneRow, ShownIsNotScheduled, PageBytesOnDisk,
      OneRunPerRaw, Scheduled
  <2>7. NextBlobIsUnused'
    BY <2>1 DEF IInv, NextBlobIsUnused, Unused, Scheduled
  <2> QED BY <2>3, <2>4, <2>5, <2>6, <2>7 DEF IInv
<1>4. CASE (\E c \in Colours : Flip(c)) \/ UNCHANGED vars
  <2>1. UNCHANGED <<uploads, pages, disk, post, doomed, run>>
    BY <1>4 DEF Flip, vars, dbVars, httpVars
  <2>2. \A x : Untouched(x)' <=> Untouched(x)
    BY <2>1 DEF Untouched, Scheduled
  <2>3. UnqueuedIsFresh' /\ RawOfOneRow' /\ AcceptedRawOnDisk' /\ PagesHaveRow'
    BY <2>1, <2>2 DEF IInv, UnqueuedIsFresh, RawOfOneRow, AcceptedRawOnDisk,
      PagesHaveRow, Exists
  <2>4. PendingIsFresh'
    BY <2>1 DEF IInv, PendingIsFresh, Untouched, Scheduled
  <2>5. BlobOfOneRow' /\ ShownIsNotScheduled' /\ PageBytesOnDisk' /\ OneRunPerRaw'
    BY <2>1 DEF IInv, BlobOfOneRow, ShownIsNotScheduled, PageBytesOnDisk,
      OneRunPerRaw, Scheduled
  <2>6. NextBlobIsUnused'
    BY <2>1 DEF IInv, NextBlobIsUnused, Unused, Scheduled
  <2> QED BY <2>3, <2>4, <2>5, <2>6 DEF IInv
<1> QED BY <1>1, <1>2, <1>3, <1>4

---------------------------------------------------------------------------
(* IInv is inductive, so it holds in every reachable state.                *)
THEOREM InvariantHolds == Spec => []IInv
<1>1. Init => IInv
  <2> SUFFICES ASSUME Init PROVE IInv
    OBVIOUS
  <2>1. TypeOK /\ RunHoldsRow
    BY TypeInductive
  <2>2. \A x \in Raw : Untouched(x)
    BY BookIngestAssumption DEF Init, Untouched, Scheduled, At
  <2>3. UnqueuedIsFresh
    BY <2>2, BookIngestAssumption DEF Init, UnqueuedIsFresh, NoRow
  <2>4. PendingIsFresh /\ RawOfOneRow /\ BlobOfOneRow /\ ShownIsNotScheduled
        /\ NextBlobIsUnused /\ PagesHaveRow /\ PageBytesOnDisk
        /\ AcceptedRawOnDisk /\ OneRunPerRaw
    BY DEF Init, PendingIsFresh, RawOfOneRow, BlobOfOneRow, ShownIsNotScheduled,
      NextBlobIsUnused, PagesHaveRow, PageBytesOnDisk, AcceptedRawOnDisk,
      OneRunPerRaw, NoRow, At, Ingesting
  <2> QED BY <2>1, <2>3, <2>4 DEF IInv
<1>2. IInv /\ [Next]_vars => IInv'
  <2> SUFFICES ASSUME IInv, [Next]_vars PROVE IInv'
    OBVIOUS
  <2>1. TypeOK' /\ RunHoldsRow'
    BY TypeInductive DEF IInv
  <2>2. ASSUME NEW r \in Raw, Post(r) PROVE IInv'
    BY <2>1, <2>2, PostInductive
  <2>3. ASSUME NEW id \in UploadId, DeleteUpload(id) \/ SweepFailed(id) PROVE IInv'
    BY <2>1, <2>3, DeleteInductive
  <2>4. ASSUME NEW p \in Process, Tick(p) PROVE IInv'
    <3>1. RunStep(p)
      BY <2>1, <2>4, TickEffect DEF IInv
    <3> QED BY <2>1, <3>1, RunStepInductive
  <2>5. ASSUME NEW p \in Process, Crash(p) \/ Restart(p) PROVE IInv'
    <3>1. RunStep(p)
      BY <2>5, CrashEffect DEF IInv
    <3> QED BY <2>1, <3>1, RunStepInductive
  <2> QED BY <2>1, <2>2, <2>3, <2>4, <2>5, OtherInductive DEF Next
<1> QED BY <1>1, <1>2, PTL DEF Spec

(* Whatever interleaves, a listed page has its image on disk, and an       *)
(* accepted upload waiting in the queue its raw file.                      *)
THEOREM BytesSafe == Spec => []BytesOnDisk
<1>1. IInv => BytesOnDisk
  BY DEF IInv, BytesOnDisk
<1> QED BY <1>1, InvariantHolds, PTL

(* No raw file is decoded by two runs.                                     *)
THEOREM RawDecodedOnce == Spec => []OneRunPerRaw
<1>1. IInv => OneRunPerRaw
  BY DEF IInv
<1> QED BY <1>1, InvariantHolds, PTL

(* A POST changes a row only by enqueueing an unqueued file on the row of  *)
(* its title, or on a new one if the title has none.                       *)
LEMMA PostEnqueues ==
  ASSUME NEW r \in Raw, Post(r)
  PROVE  \/ UNCHANGED uploads
         \/ /\ post[r].pc \in {"stored", "counted"}
            /\ \E id \in UploadId :
                 /\ Enqueue(r, id) /\ uploads[id].status \in {"none", "ready", "failed"}
                 /\ id \in RowsOf(post[r].title) \/ TitleFree(post[r].title)
<1>1. CASE \E t \in Title : PostStore(r, t)
  BY <1>1 DEF PostStore, dbVars
<1>2. CASE PostConflict(r) \/ PostCount(r) \/ PostThrow(r) \/ PostReject(r)
           \/ PostLost(r)
  BY <1>2 DEF PostConflict, PostCount, PostThrow, PostReject, PostLost, dbVars
<1>3. CASE PostReplace(r)
  <2>1. PICK id \in RowsOf(post[r].title) :
          uploads[id].status \in {"ready", "failed"} /\ Enqueue(r, id)
    BY <1>3 DEF PostReplace
  <2>2. id \in UploadId /\ uploads[id].status # "gone" /\ post[r].pc = "stored"
    BY <1>3, <2>1 DEF PostReplace, RowsOf
  <2> QED BY <2>1, <2>2
<1>4. CASE PostInsert(r)
  <2>1. CASE UNCHANGED uploads
    BY <2>1
  <2>2. ASSUME NEW id \in UploadId, uploads[id].status = "none", Enqueue(r, id),
               TitleFree(post[r].title)
        PROVE  /\ post[r].pc \in {"stored", "counted"}
               /\ Enqueue(r, id) /\ uploads[id].status \in {"none", "ready", "failed"}
    BY <1>4, <2>2 DEF PostInsert
  <2> QED BY <1>4, <2>1, <2>2 DEF PostInsert
<1> QED BY <1>1, <1>2, <1>3, <1>4 DEF Post

(* Clearing, inserting and settling never revive a deleted upload.         *)
LEMMA DeletedIsForEver == IInv /\ IInv' /\ [Next]_vars => [DeletedStays]_vars
<1> SUFFICES ASSUME IInv, IInv', Next, NEW id \in UploadId,
                    uploads[id].status = "gone"
             PROVE  uploads'[id].status = "gone"
  BY DEF IInv, PagesHaveRow, Exists, DeletedStays
<1>1. ASSUME NEW p \in Process, Tick(p) \/ Crash(p) \/ Restart(p)
      PROVE  uploads'[id].status = "gone"
  BY <1>1, TickEffect, CrashEffect DEF IInv, RunStep, RowEffect
<1>2. ASSUME NEW r \in Raw, Post(r) PROVE uploads'[id].status = "gone"
  <2>1. CASE UNCHANGED uploads
    BY <2>1
  <2>2. ASSUME NEW j \in UploadId, uploads[j].status # "gone", Enqueue(r, j)
        PROVE  uploads'[id].status = "gone"
    BY <2>2 DEF Enqueue, IInv, TypeOK
  <2> QED BY <1>2, <2>1, <2>2, PostEnqueues
<1>3. ASSUME NEW j \in UploadId,
             DeleteUpload(j) \/ SweepFailed(j) \/ ReorderPages(j) \/ Age(j)
      PROVE  uploads'[id].status = "gone"
  <2>1. CASE DeleteUpload(j) \/ SweepFailed(j)
    BY <2>1 DEF DeleteUpload, SweepFailed, NoRow, IInv, TypeOK
  <2>2. CASE ReorderPages(j) \/ Age(j)
    BY <2>2 DEF ReorderPages, Age, Processing, IInv, TypeOK
  <2> QED BY <1>3, <2>1, <2>2
<1>4. CASE DeleteUnlink \/ DeleteLost \/ \E c \in Colours : Flip(c)
  BY <1>4 DEF DeleteUnlink, DeleteLost, Flip, dbVars
<1> QED BY <1>1, <1>2, <1>3, <1>4 DEF Next

(* Only a replace or a delete takes an upload out of "ready".              *)
LEMMA ReadyIsForEver == IInv /\ [Next]_vars => [ReadyStays]_vars
<1> SUFFICES ASSUME IInv, Next, NEW id \in UploadId, uploads[id].status = "ready"
             PROVE  \/ uploads'[id].status \in {"ready", "gone"}
                    \/ uploads'[id].status = "pending"
                         /\ uploads'[id].src # uploads[id].src
  BY DEF ReadyStays
<1>1. ASSUME NEW p \in Process, Tick(p) \/ Crash(p) \/ Restart(p)
      PROVE  uploads'[id].status = "ready"
  <2>1. TypeOK' /\ RunHoldsRow'
    BY TypeInductive DEF IInv
  <2> QED BY <1>1, <2>1, TickEffect, CrashEffect DEF IInv, RunStep, RowEffect
<1>2. ASSUME NEW r \in Raw, Post(r)
      PROVE  \/ uploads'[id].status = "ready"
             \/ uploads'[id].status = "pending"
                  /\ uploads'[id].src # uploads[id].src
  <2>1. CASE UNCHANGED uploads
    BY <2>1
  <2>2. ASSUME NEW j \in UploadId, Enqueue(r, j),
               post[r].pc \in {"stored", "counted"}
        PROVE  \/ uploads'[id].status = "ready"
               \/ uploads'[id].status = "pending"
                    /\ uploads'[id].src # uploads[id].src
    <3>1. uploads[id].src # r
      BY <2>2 DEF IInv, UnqueuedIsFresh
    <3> QED BY <2>2, <3>1 DEF Enqueue, IInv, TypeOK
  <2> QED BY <1>2, <2>1, <2>2, PostEnqueues
<1>3. ASSUME NEW j \in UploadId,
             DeleteUpload(j) \/ SweepFailed(j) \/ ReorderPages(j) \/ Age(j)
      PROVE  uploads'[id].status \in {"ready", "gone"}
  <2>1. CASE DeleteUpload(j) \/ SweepFailed(j)
    BY <2>1 DEF DeleteUpload, SweepFailed, NoRow, IInv, TypeOK
  <2>2. CASE ReorderPages(j) \/ Age(j)
    BY <2>2 DEF ReorderPages, Age, Processing, IInv, TypeOK
  <2> QED BY <1>3, <2>1, <2>2
<1>4. CASE DeleteUnlink \/ DeleteLost \/ \E c \in Colours : Flip(c)
  BY <1>4 DEF DeleteUnlink, DeleteLost, Flip, dbVars
<1> QED BY <1>1, <1>2, <1>3, <1>4 DEF Next

(* Nothing brings a deleted upload back, and only a replace or a delete    *)
(* takes an upload out of "ready".                                         *)
THEOREM FinalStates == Spec => FinalStatesStay
<1>1. IInv /\ IInv' /\ [Next]_vars => [DeletedStays /\ ReadyStays]_vars
  BY DeletedIsForEver, ReadyIsForEver
<1> QED BY <1>1, InvariantHolds, PTL DEF Spec, FinalStatesStay

(* The unique key keeps one row per title through every race of POSTs.     *)
THEOREM TitlesAreUnique == Spec => []OneRowPerTitle
<1>1. Init => OneRowPerTitle
  BY DEF Init, OneRowPerTitle, Exists, NoRow
<1>2. IInv /\ OneRowPerTitle /\ [Next]_vars => OneRowPerTitle'
  <2> SUFFICES ASSUME IInv, OneRowPerTitle, [Next]_vars PROVE OneRowPerTitle'
    OBVIOUS
  <2>1. ASSUME \A id \in UploadId : Exists(id)' =>
                 Exists(id) /\ uploads'[id].title = uploads[id].title
        PROVE  OneRowPerTitle'
    BY <2>1 DEF OneRowPerTitle
  <2>2. ASSUME NEW p \in Process, Tick(p) \/ Crash(p) \/ Restart(p)
        PROVE  OneRowPerTitle'
    <3>1. TypeOK' /\ RunHoldsRow'
      BY TypeInductive DEF IInv
    <3>2. RowEffect
      BY <2>2, <3>1, TickEffect, CrashEffect DEF IInv, RunStep
    <3> QED BY <2>1, <3>2 DEF RowEffect, Exists
  <2>3. ASSUME NEW r \in Raw, Post(r) PROVE OneRowPerTitle'
    <3>1. CASE UNCHANGED uploads
      BY <2>1, <3>1 DEF Exists
    <3>2. ASSUME NEW j \in UploadId, Enqueue(r, j),
                 j \in RowsOf(post[r].title) \/ TitleFree(post[r].title)
          PROVE  OneRowPerTitle'
      <4>1. /\ uploads'[j].title = post[r].title
            /\ \A i \in UploadId : i # j => uploads'[i] = uploads[i]
        BY <3>2 DEF Enqueue, IInv, TypeOK
      <4>2. \A i \in UploadId : i # j /\ Exists(i) => uploads[i].title # post[r].title
        BY <3>2 DEF RowsOf, TitleFree, OneRowPerTitle
      <4> QED BY <4>1, <4>2 DEF OneRowPerTitle, Exists
    <3> QED BY <2>3, <3>1, <3>2, PostEnqueues
  <2>4. ASSUME NEW j \in UploadId,
               DeleteUpload(j) \/ SweepFailed(j) \/ ReorderPages(j) \/ Age(j)
        PROVE  OneRowPerTitle'
    <3>1. CASE DeleteUpload(j) \/ SweepFailed(j)
      BY <2>1, <3>1 DEF DeleteUpload, SweepFailed, NoRow, Exists, IInv, TypeOK
    <3>2. CASE ReorderPages(j) \/ Age(j)
      BY <2>1, <3>2 DEF ReorderPages, Age, Exists, IInv, TypeOK, Upload
    <3> QED BY <2>4, <3>1, <3>2
  <2>5. CASE DeleteUnlink \/ DeleteLost \/ (\E c \in Colours : Flip(c)) \/ UNCHANGED vars
    BY <2>1, <2>5 DEF DeleteUnlink, DeleteLost, Flip, vars, dbVars, Exists
  <2> QED BY <2>2, <2>3, <2>4, <2>5 DEF Next
<1> QED BY <1>1, <1>2, InvariantHolds, PTL DEF Spec

---------------------------------------------------------------------------
(* A ready book is whole, while one process runs.                          *)

(* What a page list of a file's first pages is, built page by page.        *)
LEMMA NoPagesAreFirst == \A r : FirstPages({}, r, 0)
<1>1. Cardinality({}) = 0 /\ 1..0 = {}
  BY FS_EmptySet
<1> QED BY <1>1 DEF FirstPages

LEMMA NextPageIsFirst ==
  ASSUME NEW S, IsFiniteSet(S), NEW r, NEW k \in Nat \ {0}, FirstPages(S, r, k - 1)
  PROVE  /\ \A pg \in S : pg.no # k
         /\ FirstPages(S \cup {[no |-> k, blob |-> BlobOf(r, k)]}, r, k)
<1> DEFINE new == [no |-> k, blob |-> BlobOf(r, k)]
<1>1. 1..k = (1..(k - 1)) \cup {k} /\ k \notin 1..(k - 1)
  OBVIOUS
<1>2. \A pg \in S : pg.no # k
  BY <1>1 DEF FirstPages
<1>3. new.no = k /\ new.blob = BlobOf(r, k)
  OBVIOUS
<1> HIDE DEF new
<1>4. new \notin S
  BY <1>2, <1>3
<1>5. Cardinality(S \cup {new}) = k
  <2>1. Cardinality(S \cup {new}) = Cardinality(S) + 1
    BY <1>4, FS_AddElement
  <2> QED BY <2>1 DEF FirstPages
<1>6. {pg.no : pg \in S \cup {new}} = {pg.no : pg \in S} \cup {k}
  BY <1>3
<1>7. {pg.blob : pg \in S \cup {new}} = {pg.blob : pg \in S} \cup {BlobOf(r, k)}
  BY <1>3
<1>8. {BlobOf(r, n) : n \in 1..k} = {BlobOf(r, n) : n \in 1..(k - 1)} \cup {BlobOf(r, k)}
  BY <1>1, Zenon
<1>9. FirstPages(S \cup {new}, r, k)
  BY <1>1, <1>5, <1>6, <1>7, <1>8 DEF FirstPages
<1> QED BY <1>2, <1>9 DEF new

(* Renumbering shows the same pages.                                       *)
LEMMA ReorderedAreFirst ==
  ASSUME NEW S, IsFiniteSet(S), NEW f \in Orders(S), NEW r, NEW k, FirstPages(S, r, k)
  PROVE  FirstPages({[no |-> f[pg], blob |-> pg.blob] : pg \in S}, r, k)
<1> DEFINE Row(pg) == [no |-> f[pg], blob |-> pg.blob]
           T == {Row(pg) : pg \in S}
           g == [pg \in S |-> Row(pg)]
<1>1. \A pg \in S : Row(pg).no = f[pg] /\ Row(pg).blob = pg.blob
  OBVIOUS
<1>2. Cardinality(S) = k /\ k \in Nat
  BY FS_CardinalityType DEF FirstPages
<1>3. f \in [S -> 1..k] /\ \A x, y \in S : f[x] = f[y] => x = y
  BY <1>2 DEF Orders
<1> HIDE DEF Row
<1>4. {pg.blob : pg \in T} = {pg.blob : pg \in S}
  BY <1>1
<1>5. {pg.no : pg \in T} = {f[pg] : pg \in S}
  BY <1>1
<1>6. f \in Injection(S, 1..k) /\ IsFiniteSet(1..k) /\ Cardinality(1..k) = k
  BY <1>2, <1>3, FS_Interval DEF Injection, IsInjective
<1>7. f \in Surjection(S, 1..k)
  BY <1>2, <1>6, FS_Injection
<1>8. {f[pg] : pg \in S} = 1..k
  BY <1>3, <1>7 DEF Surjection
<1>9. g \in Bijection(S, T)
  <2>1. \A x, y \in S : g[x] = g[y] => x = y
    BY <1>1, <1>3
  <2>2. g \in [S -> T] /\ \A t \in T : \E x \in S : g[x] = t
    OBVIOUS
  <2> QED BY <2>1, <2>2 DEF Bijection, Injection, IsInjective, Surjection
<1>10. Cardinality(T) = k
  BY <1>2, <1>9, FS_Bijection DEF ExistsBijection
<1>11. FirstPages(T, r, k)
  BY <1>4, <1>5, <1>8, <1>10 DEF FirstPages
<1> QED BY <1>11 DEF Row

(* A row that requests and time changed: given up or deleted, waiting for  *)
(* a new file, or as it was but for the order of its pages.                *)
Requested(id) ==
  \/ uploads'[id].status = "gone" /\ uploads'[id].raw = NoRaw
  \/ /\ uploads[id].status \in {"none", "ready", "failed"}
     /\ uploads'[id].status = "pending" /\ uploads'[id].raw = uploads'[id].src
  \/ /\ uploads'[id].status = uploads[id].status /\ uploads'[id].raw = uploads[id].raw
     /\ uploads'[id].src = uploads[id].src /\ uploads'[id].count = uploads[id].count
     /\ \A r, k : FirstPages(pages[id], r, k) => FirstPages(pages'[id], r, k)

LEMMA RequestKeepsBook ==
  ASSUME TypeOK, RunHoldsRow, BookInv, UNCHANGED run, \A id \in UploadId : Requested(id)
  PROVE  BookInv'
<1>1. RawIsSource'
  BY DEF BookInv, RawIsSource, Requested
<1>2. \A id \in UploadId : GivenUp(id) => GivenUp(id)'
  BY DEF GivenUp, Requested
<1>3. \A s \in Process :
        /\ run[s].pc \in Reaping \cup {"late", "failClear"} \cup Ingesting => run[s].id \in UploadId
        /\ \A e \in run[s].reaped : e.id \in UploadId
  BY DEF TypeOK, RunHoldsRow, Run, Claimed
<1>4. RunOwnsRow'
  <2> SUFFICES ASSUME NEW s \in Process
               PROVE  /\ run[s].pc \in Reaping \cup {"late", "failClear"} => GivenUp(run[s].id)'
                      /\ run[s].pc \in Reaping => \A e \in run[s].reaped : GivenUp(e.id)'
                      /\ run[s].pc \in Ingesting =>
                           \/ uploads'[run[s].id].status = "gone"
                           \/ uploads'[run[s].id].status = "processing"
                                /\ uploads'[run[s].id].src = run[s].raw
    BY DEF RunOwnsRow, GivenUp, Processing
  <2>1. run[s].pc \in Reaping \cup {"late", "failClear"} => GivenUp(run[s].id)'
    BY <1>2, <1>3 DEF BookInv, RunOwnsRow
  <2>2. run[s].pc \in Reaping => \A e \in run[s].reaped : GivenUp(e.id)'
    BY <1>2, <1>3 DEF BookInv, RunOwnsRow
  <2>3. ASSUME run[s].pc \in Ingesting
        PROVE  \/ uploads'[run[s].id].status = "gone"
               \/ uploads'[run[s].id].status = "processing" /\ uploads'[run[s].id].src = run[s].raw
    <3>1. run[s].id \in UploadId /\ Requested(run[s].id)
      BY <1>3, <2>3
    <3>2. \/ uploads[run[s].id].status = "gone"
          \/ uploads[run[s].id].status = "processing" /\ uploads[run[s].id].src = run[s].raw
      BY <2>3 DEF BookInv, RunOwnsRow, Processing
    <3> QED BY <3>1, <3>2 DEF Requested
  <2> QED BY <2>1, <2>2, <2>3
<1>5. DecodedIsShown'
  <2> SUFFICES ASSUME NEW s \in Process, run[s].pc \in Ingesting,
                      uploads'[run[s].id].status = "processing"
               PROVE  /\ run[s].pc = "wipe" => run[s].n = 0
                      /\ run[s].pc \in {"wipeUnlink", "decode"} =>
                           FirstPages(pages'[run[s].id], run[s].raw, run[s].n)
                      /\ run[s].pc = "insert" =>
                           FirstPages(pages'[run[s].id], run[s].raw, run[s].n - 1)
    BY DEF DecodedIsShown, Processing
  <2>1. run[s].id \in UploadId
    BY <1>3
  <2>2. /\ uploads[run[s].id].status = "processing"
        /\ \A r, k : FirstPages(pages[run[s].id], r, k) => FirstPages(pages'[run[s].id], r, k)
    BY <2>1 DEF Requested
  <2> QED BY <2>2 DEF BookInv, DecodedIsShown, Processing
<1>6. ReadyIsComplete'
  BY DEF BookInv, ReadyIsComplete, Complete, Requested
<1> QED BY <1>1, <1>4, <1>5, <1>6 DEF BookInv

LEMMA RequestsKeepBook ==
  ASSUME TypeOK, RunHoldsRow, BookInv,
         \/ \E r \in Raw : Post(r)
         \/ \E id \in UploadId : DeleteUpload(id) \/ SweepFailed(id) \/ ReorderPages(id) \/ Age(id)
         \/ DeleteUnlink \/ DeleteLost
         \/ \E c \in Colours : Flip(c)
         \/ UNCHANGED vars
  PROVE  BookInv'
<1> DEFINE Same(id) == uploads'[id] = uploads[id] /\ pages'[id] = pages[id]
<1>1. \A id : Same(id) => Requested(id)
  BY DEF Requested
<1>2. ASSUME NEW r \in Raw, Post(r) PROVE BookInv'
  <2>1. UNCHANGED <<pages, run>>
    BY <1>2 DEF Post, PostStore, PostConflict, PostReplace, PostCount, PostInsert, PostThrow,
      PostReject, PostLost, dbVars
  <2>2. CASE UNCHANGED uploads
    BY <1>1, <2>1, <2>2, RequestKeepsBook
  <2>3. ASSUME NEW id \in UploadId, Enqueue(r, id), uploads[id].status \in {"none", "ready", "failed"}
        PROVE  BookInv'
    <3>1. Requested(id)
      BY <2>3 DEF Enqueue, Requested, TypeOK
    <3>2. \A j \in UploadId \ {id} : Requested(j)
      BY <1>1, <2>1, <2>3 DEF Enqueue, TypeOK
    <3> QED BY <2>1, <3>1, <3>2, RequestKeepsBook
  <2> QED BY <1>2, <2>2, <2>3, PostEnqueues
<1>3. ASSUME NEW id \in UploadId, DeleteUpload(id) \/ SweepFailed(id) PROVE BookInv'
  <2>1. /\ UNCHANGED run
        /\ uploads' = [uploads EXCEPT ![id] = NoRow("gone")] /\ pages' = [pages EXCEPT ![id] = {}]
    BY <1>3 DEF DeleteUpload, SweepFailed
  <2>2. Requested(id)
    BY <2>1 DEF Requested, NoRow, TypeOK
  <2>3. \A j \in UploadId \ {id} : Requested(j)
    BY <1>1, <2>1 DEF TypeOK
  <2> QED BY <2>1, <2>2, <2>3, RequestKeepsBook
<1>4. ASSUME NEW id \in UploadId, ReorderPages(id) PROVE BookInv'
  <2>1. PICK f \in Orders(pages[id]) :
          pages' = [pages EXCEPT ![id] = {[no |-> f[pg], blob |-> pg.blob] : pg \in pages[id]}]
    BY <1>4 DEF ReorderPages
  <2>2. UNCHANGED <<uploads, run>>
    BY <1>4 DEF ReorderPages
  <2>3. \A r, k : FirstPages(pages[id], r, k) => FirstPages(pages'[id], r, k)
    <3>1. IsFiniteSet(pages[id]) /\ pages'[id] = {[no |-> f[pg], blob |-> pg.blob] : pg \in pages[id]}
      BY <2>1 DEF TypeOK
    <3> QED BY <3>1, ReorderedAreFirst
  <2>4. \A j \in UploadId \ {id} : Requested(j)
    BY <1>1, <2>1, <2>2 DEF TypeOK
  <2>5. Requested(id)
    BY <2>2, <2>3 DEF Requested
  <2> QED BY <2>2, <2>4, <2>5, RequestKeepsBook
<1>5. ASSUME NEW id \in UploadId, Age(id) PROVE BookInv'
  <2>1. UNCHANGED <<pages, run>> /\ uploads' = [uploads EXCEPT ![id].stale = TRUE]
    BY <1>5 DEF Age
  <2>2. \A j \in UploadId : Requested(j)
    BY <2>1 DEF Requested, TypeOK, Upload
  <2> QED BY <2>1, <2>2, RequestKeepsBook
<1>6. CASE DeleteUnlink \/ DeleteLost \/ (\E c \in Colours : Flip(c)) \/ UNCHANGED vars
  <2>1. UNCHANGED <<uploads, pages, run>>
    BY <1>6 DEF DeleteUnlink, DeleteLost, Flip, vars, dbVars
  <2> QED BY <1>1, <2>1, RequestKeepsBook
<1> QED BY <1>2, <1>3, <1>4, <1>5, <1>6, Zenon

(* Rows a tick that decodes nothing leaves behind: failed, or as they were *)
(* but for a raw file forgotten and, if given up, their pages.             *)
Left(id) ==
  /\ uploads'[id].raw \in {uploads[id].raw, NoRaw} /\ uploads'[id].src = uploads[id].src
  /\ \/ uploads'[id].status = "failed"
     \/ /\ uploads'[id].status = uploads[id].status /\ uploads'[id].count = uploads[id].count
        /\ pages'[id] = pages[id] \/ GivenUp(id)

(* What a tick that decodes nothing goes on with was given up.             *)
GoesOnWithGivenUp(q) ==
  /\ q.pc \notin Ingesting
  /\ q.pc \in Reaping \cup {"late", "failClear"} =>
       q.id \in UploadId /\ uploads'[q.id].status \notin {"processing", "ready"}
  /\ q.pc \in Reaping => \A e \in q.reaped : uploads'[e.id].status \notin {"processing", "ready"}

LEMMA LeavingKeepsBook ==
  ASSUME BookInv, NEW p \in Process, \A s \in Process : s = p,
         GoesOnWithGivenUp(run'[p]), \A id \in UploadId : Left(id)
  PROVE  BookInv'
<1>1. RawIsSource'
  BY DEF BookInv, RawIsSource, Left
<1>2. RunOwnsRow' /\ DecodedIsShown'
  BY DEF RunOwnsRow, DecodedIsShown, GivenUp, GoesOnWithGivenUp
<1>3. ReadyIsComplete'
  BY DEF BookInv, ReadyIsComplete, Complete, Left, GivenUp
<1> QED BY <1>1, <1>2, <1>3 DEF BookInv

(* The next row to reap is one of those that were reaped.                  *)
LEMMA NextReapedIsOne ==
  ASSUME NEW S, NEW q \in NextReaped(S)
  PROVE  \/ q.pc = "gate"
         \/ q.pc = "reapClear" /\ q.reaped \subseteq S /\ \E e \in S : q.id = e.id
<1>1. CASE S = {}
  BY <1>1 DEF NextReaped, At
<1>2. CASE S # {}
  <2>1. PICK e \in S : q = [At("reapClear") EXCEPT !.id = e.id, !.raw = e.raw, !.reaped = S \ {e}]
    BY <1>2 DEF NextReaped
  <2>2. q.pc = "reapClear" /\ q.reaped = S \ {e} /\ q.id = e.id
    BY <2>1 DEF At
  <2> QED BY <2>2
<1> QED BY <1>1, <1>2

(* Where a tick that moves on is.                                          *)
LEMMA GotoUnlinkIs ==
  ASSUME TypeOK, NEW p \in Process, NEW pc, NEW files, GotoUnlink(p, pc, files)
  PROVE  /\ run'[p].pc = pc /\ run'[p].id = run[p].id /\ run'[p].raw = run[p].raw
         /\ run'[p].n = run[p].n /\ run'[p].reaped = run[p].reaped
BY DEF GotoUnlink, SetRun, TypeOK, Run

(* Reaping, and giving up a row.                                           *)
LEMMA GivingUpKeepsBook ==
  ASSUME TypeOK, TypeOK', RunHoldsRow, BookInv, NEW p \in Process, \A s \in Process : s = p,
         \/ ReapStale(p) \/ ReapClearPages(p) \/ ReapClearRawRef(p) \/ CheckActiveColor(p)
         \/ ClearLatePages(p) \/ Throw(p) \/ SettleFailed(p) \/ ClearFailedPages(p)
         \/ Crash(p) \/ Restart(p)
  PROVE  BookInv'
<1> DEFINE r == run[p]
           q == run'[p]
           Apart(id) == uploads'[id] = uploads[id] /\ pages'[id] = pages[id]
<1>1. /\ r \in Run /\ q \in Run /\ p \in DOMAIN run
      /\ r.pc \in Reaping \cup Claimed => r.id \in UploadId
      /\ \A e \in r.reaped : e.id \in UploadId
  BY DEF TypeOK, RunHoldsRow, Run
<1>2. /\ r.pc \in Reaping \cup {"late", "failClear"} => GivenUp(r.id)
      /\ r.pc \in Reaping => \A e \in r.reaped : GivenUp(e.id)
  BY DEF BookInv, RunOwnsRow
<1>3. \A id \in UploadId : Apart(id) => Left(id)
  BY DEF Left
<1>4. ASSUME NEW t \in Run, SetRun(p, t) PROVE q = t
  BY <1>4 DEF SetRun, TypeOK
<1>5. ASSUME NEW pc, SetRun(p, At(pc)), pc \in {"tick", "off"}, \A id \in UploadId : Left(id) PROVE BookInv'
  <2>1. q.pc = pc
    BY <1>5 DEF SetRun, At, TypeOK
  <2>2. GoesOnWithGivenUp(q)
    BY <1>5, <2>1 DEF GoesOnWithGivenUp, Ingesting, Reaping
  <2> QED BY <1>5, <2>2, LeavingKeepsBook
<1>6. CASE ReapStale(p)
  <2> DEFINE S == {[id |-> id, raw |-> uploads[id].raw] : id \in StaleRows}
  <2>1. /\ UNCHANGED pages
        /\ \A id \in UploadId :
             IF id \in StaleRows THEN uploads'[id] = [uploads[id] EXCEPT !.status = "failed", !.stale = FALSE]
             ELSE uploads'[id] = uploads[id]
    BY <1>6 DEF ReapStale
  <2>2. \A id \in UploadId : Left(id)
    BY <2>1 DEF Left, TypeOK, Upload
  <2>3. \A id \in StaleRows : id \in UploadId /\ uploads'[id].status = "failed"
    BY <2>1 DEF StaleRows, TypeOK, Upload
  <2>4. PICK t \in NextReaped(S) : SetRun(p, t)
    BY <1>6 DEF ReapStale
  <2>5. q = t
    BY <2>4 DEF SetRun, TypeOK
  <2>6. \A e \in S : e.id \in UploadId /\ uploads'[e.id].status = "failed"
    BY <2>3
  <2>7. GoesOnWithGivenUp(q)
    <3>1. \/ q.pc = "gate"
          \/ q.pc = "reapClear" /\ q.reaped \subseteq S /\ \E e \in S : q.id = e.id
      BY <2>4, <2>5, NextReapedIsOne
    <3> HIDE DEF S
    <3> QED BY <2>6, <3>1 DEF GoesOnWithGivenUp, Ingesting, Reaping
  <2> QED BY <2>2, <2>7, LeavingKeepsBook
<1>7. CASE ReapClearPages(p)
  <2>1. r.pc = "reapClear" /\ UNCHANGED uploads
    BY <1>7 DEF ReapClearPages
  <2>2. \A id \in UploadId : pages'[id] = pages[id] \/ GivenUp(id)
    BY <1>1, <1>2, <1>7, <2>1 DEF ReapClearPages, ClearPages, Reaping, TypeOK
  <2>3. q.pc = "reapUnlink" /\ q.id = r.id /\ q.reaped = r.reaped
    BY <1>7, GotoUnlinkIs DEF ReapClearPages
  <2>4. \A id \in UploadId : Left(id)
    BY <2>1, <2>2 DEF Left
  <2>5. GoesOnWithGivenUp(q)
    BY <1>1, <1>2, <2>1, <2>3 DEF GoesOnWithGivenUp, Ingesting, Reaping, GivenUp
  <2> QED BY <2>4, <2>5, LeavingKeepsBook
<1>8. CASE ReapClearRawRef(p)
  <2>1. r.pc = "reapRawRef" /\ UNCHANGED pages
    BY <1>8 DEF ReapClearRawRef
  <2>2. UNCHANGED uploads \/ uploads' = [uploads EXCEPT ![r.id].raw = NoRaw]
    BY <1>8 DEF ReapClearRawRef
  <2>3. \A id \in UploadId : /\ uploads'[id].raw \in {uploads[id].raw, NoRaw}
                             /\ uploads'[id].src = uploads[id].src
                             /\ uploads'[id].status = uploads[id].status
                             /\ uploads'[id].count = uploads[id].count
    BY <2>2 DEF TypeOK, Upload
  <2>4. \A id \in UploadId : Left(id)
    BY <2>1, <2>3 DEF Left
  <2>5. PICK t \in NextReaped(r.reaped) : SetRun(p, t)
    BY <1>8 DEF ReapClearRawRef
  <2>6. q = t
    BY <2>5 DEF SetRun, TypeOK
  <2>7. \A e \in r.reaped : e.id \in UploadId /\ uploads'[e.id].status \notin {"processing", "ready"}
    BY <1>1, <1>2, <2>1, <2>3 DEF Reaping, GivenUp
  <2>8. GoesOnWithGivenUp(q)
    <3>1. \/ q.pc = "gate"
          \/ q.pc = "reapClear" /\ q.reaped \subseteq r.reaped /\ \E e \in r.reaped : q.id = e.id
      BY <2>5, <2>6, NextReapedIsOne
    <3> QED BY <2>7, <3>1 DEF GoesOnWithGivenUp, Ingesting, Reaping
  <2> QED BY <2>4, <2>8, LeavingKeepsBook
<1>9. CASE CheckActiveColor(p) \/ Throw(p)
  <2>1. q.pc \in {"claim", "tick", "fail"} /\ UNCHANGED <<uploads, pages>>
    BY <1>1, <1>9 DEF CheckActiveColor, Throw, Goto, SetRun, TypeOK, Run, dbVars
  <2>2. GoesOnWithGivenUp(q)
    BY <2>1 DEF GoesOnWithGivenUp, Ingesting, Reaping
  <2> QED BY <1>3, <2>1, <2>2, LeavingKeepsBook
<1>10. CASE ClearLatePages(p) \/ ClearFailedPages(p)
  <2>1. r.pc \in {"late", "failClear"} /\ UNCHANGED uploads
    BY <1>10 DEF ClearLatePages, ClearFailedPages
  <2>2. \A id \in UploadId : pages'[id] = pages[id] \/ GivenUp(id)
    BY <1>1, <1>2, <1>10, <2>1 DEF ClearLatePages, ClearFailedPages, ClearPages, Claimed, TypeOK
  <2>3. q.pc \in {"lastUnlink", "tick"}
    <3>1. SetRun(p, At("tick")) => q.pc = "tick"
      BY DEF SetRun, At, TypeOK
    <3> QED BY <1>10, <3>1, GotoUnlinkIs DEF ClearLatePages, ClearFailedPages
  <2>4. \A id \in UploadId : Left(id)
    BY <2>1, <2>2 DEF Left
  <2>5. GoesOnWithGivenUp(q)
    BY <2>3 DEF GoesOnWithGivenUp, Ingesting, Reaping
  <2> QED BY <2>4, <2>5, LeavingKeepsBook
<1>11. CASE SettleFailed(p)
  <2>1. r.pc = "fail" /\ UNCHANGED pages
    BY <1>11 DEF SettleFailed
  <2>2. CASE SetRun(p, At("tick")) /\ UNCHANGED uploads
    <3>1. \A id \in UploadId : Left(id)
      BY <1>3, <2>1, <2>2
    <3> QED BY <1>5, <2>2, <3>1
  <2>3. CASE uploads' = [uploads EXCEPT ![r.id] = Settled(@, "failed", 0)] /\ Goto(p, "failClear")
    <3>1. r.id \in UploadId
      BY <1>1, <2>1 DEF Claimed
    <3>2. /\ uploads'[r.id].status = "failed" /\ uploads'[r.id].raw = NoRaw
          /\ uploads'[r.id].src = uploads[r.id].src
          /\ \A id \in UploadId \ {r.id} : uploads'[id] = uploads[id]
      BY <2>3, <3>1 DEF Settled, TypeOK, Upload
    <3>3. \A id \in UploadId : Left(id)
      BY <1>3, <2>1, <3>2 DEF Left
    <3>4. q.pc = "failClear" /\ q.id = r.id
      BY <1>1, <2>3 DEF Goto, SetRun, TypeOK, Run
    <3>5. GoesOnWithGivenUp(q)
      BY <3>1, <3>2, <3>4 DEF GoesOnWithGivenUp, Ingesting, Reaping
    <3> QED BY <3>3, <3>5, LeavingKeepsBook
  <2> QED BY <1>11, <2>2, <2>3 DEF SettleFailed
<1>12. CASE Crash(p) \/ Restart(p)
  <2>1. UNCHANGED <<uploads, pages>> /\ (SetRun(p, At("off")) \/ SetRun(p, At("tick")))
    BY <1>12 DEF Crash, Restart, dbVars
  <2> QED BY <1>3, <1>5, <2>1
<1> QED BY <1>6, <1>7, <1>8, <1>9, <1>10, <1>11, <1>12

(* Claiming a row, decoding it and settling it.                            *)
LEMMA DecodingKeepsBook ==
  ASSUME TypeOK, TypeOK', RunHoldsRow, BookInv, NEW p \in Process, \A s \in Process : s = p,
         \/ ClaimPending(p) \/ WipeOldPages(p) \/ SaveBlob(p) \/ InsertPage(p)
         \/ SettleReady(p) \/ UnlinkFiles(p)
  PROVE  BookInv'
<1> DEFINE r == run[p]
           q == run'[p]
<1>1. /\ r \in Run /\ q \in Run /\ r.n \in 0..MaxPage
      /\ r.pc \in Reaping \cup Claimed => r.id \in UploadId
      /\ r.pc \in Claimed => r.raw \in Raw
      /\ r.pc = "insert" => r.n > 0
      /\ \A e \in r.reaped : e.id \in UploadId
  BY DEF TypeOK, RunHoldsRow, Run
<1>2. /\ r.pc \in Reaping \cup {"late", "failClear"} => GivenUp(r.id)
      /\ r.pc \in Reaping => \A e \in r.reaped : GivenUp(e.id)
      /\ r.pc \in Ingesting => \/ uploads[r.id].status = "gone"
                               \/ Processing(r.id) /\ uploads[r.id].src = r.raw
      /\ r.pc \in Ingesting /\ Processing(r.id) =>
           /\ r.pc = "wipe" => r.n = 0
           /\ r.pc \in {"wipeUnlink", "decode"} => FirstPages(pages[r.id], r.raw, r.n)
           /\ r.pc = "insert" => FirstPages(pages[r.id], r.raw, r.n - 1)
  BY DEF BookInv, RunOwnsRow, DecodedIsShown
<1>3. \A id \in UploadId : uploads'[id] = uploads[id] /\ pages'[id] = pages[id] => Left(id)
  BY DEF Left
(* A decode goes on with its own row, which shows what it has decoded.     *)
<1>4. ASSUME UNCHANGED uploads, r.pc \in Ingesting, q.pc \in Ingesting, q.id = r.id, q.raw = r.raw,
             \A id \in UploadId \ {r.id} : pages'[id] = pages[id],
             Processing(r.id) =>
               /\ q.pc = "wipe" => q.n = 0
               /\ q.pc \in {"wipeUnlink", "decode"} => FirstPages(pages'[r.id], r.raw, q.n)
               /\ q.pc = "insert" => FirstPages(pages'[r.id], r.raw, q.n - 1)
      PROVE  BookInv'
  <2>1. RawIsSource'
    BY <1>4 DEF BookInv, RawIsSource
  <2>2. RunOwnsRow'
    BY <1>2, <1>4 DEF RunOwnsRow, GivenUp, Processing, Ingesting, Reaping
  <2>3. DecodedIsShown'
    BY <1>4 DEF DecodedIsShown, Processing
  <2>4. uploads[r.id].status # "ready"
    BY <1>2, <1>4 DEF Processing
  <2>5. ReadyIsComplete'
    BY <1>4, <2>4 DEF BookInv, ReadyIsComplete, Complete
  <2> QED BY <2>1, <2>2, <2>3, <2>5 DEF BookInv
<1>5. ASSUME SetRun(p, At("tick")), \A id \in UploadId : Left(id) PROVE BookInv'
  <2>1. q.pc = "tick"
    BY <1>5 DEF SetRun, At, TypeOK
  <2>2. GoesOnWithGivenUp(q)
    BY <2>1 DEF GoesOnWithGivenUp, Ingesting, Reaping
  <2> QED BY <1>5, <2>2, LeavingKeepsBook
<1>6. CASE ClaimPending(p)
  <2>1. UNCHANGED pages
    BY <1>6 DEF ClaimPending
  <2>2. CASE UNCHANGED uploads /\ SetRun(p, At("tick"))
    BY <1>3, <1>5, <2>1, <2>2
  <2>3. ASSUME NEW id \in Claimable, uploads' = [uploads EXCEPT ![id].status = "failed"],
               SetRun(p, At("tick"))
        PROVE  BookInv'
    <3>1. \A j \in UploadId : Left(j)
      BY <2>1, <2>3 DEF Left, Claimable, TypeOK, Upload
    <3> QED BY <1>5, <2>3, <3>1
  <2>4. ASSUME NEW id \in Claimable, uploads[id].raw # NoRaw,
               uploads' = [uploads EXCEPT ![id] = [@ EXCEPT !.status = "processing", !.stale = FALSE]],
               SetRun(p, [At("wipe") EXCEPT !.id = id, !.raw = uploads[id].raw])
        PROVE  BookInv'
    <3>1. /\ id \in UploadId /\ uploads[id].raw = uploads[id].src
          /\ uploads[id] \in Upload /\ uploads[id].status = "pending"
      BY <2>4 DEF Claimable, BookInv, RawIsSource, TypeOK
    <3>2. /\ uploads'[id].status = "processing" /\ uploads'[id].src = uploads[id].src
          /\ uploads'[id].raw = uploads[id].raw
          /\ \A j \in UploadId \ {id} : uploads'[j] = uploads[j]
      BY <2>4, <3>1 DEF TypeOK, Upload
    <3>3. q.pc = "wipe" /\ q.id = id /\ q.raw = uploads[id].raw /\ q.n = 0
      BY <2>4 DEF SetRun, At, TypeOK
    <3>4. RawIsSource'
      BY <3>2 DEF BookInv, RawIsSource
    <3>5. RunOwnsRow'
      BY <3>1, <3>2, <3>3 DEF RunOwnsRow, Processing, Reaping
    <3>6. DecodedIsShown'
      BY <3>3 DEF DecodedIsShown
    <3>7. ReadyIsComplete'
      BY <2>1, <3>2 DEF BookInv, ReadyIsComplete, Complete
    <3> QED BY <3>4, <3>5, <3>6, <3>7 DEF BookInv
  <2> QED BY <1>6, <2>2, <2>3, <2>4 DEF ClaimPending
<1>7. CASE WipeOldPages(p)
  <2>1. /\ UNCHANGED uploads /\ r.pc = "wipe" /\ r.id \in UploadId
        /\ pages' = [pages EXCEPT ![r.id] = {}]
    BY <1>1, <1>7 DEF WipeOldPages, ClearPages, Claimed, Ingesting
  <2>2. q.pc = "wipeUnlink" /\ q.id = r.id /\ q.raw = r.raw /\ q.n = r.n
    BY <1>1, <1>7 DEF WipeOldPages, GotoUnlink, SetRun, TypeOK, Run
  <2>3. pages'[r.id] = {} /\ \A id \in UploadId \ {r.id} : pages'[id] = pages[id]
    BY <2>1 DEF TypeOK
  <2>4. Processing(r.id) => FirstPages(pages'[r.id], r.raw, q.n)
    BY <1>2, <2>1, <2>2, <2>3, NoPagesAreFirst DEF Ingesting
  <2> QED BY <1>4, <2>1, <2>2, <2>3, <2>4 DEF Ingesting
<1>8. CASE SaveBlob(p)
  <2>1. UNCHANGED <<uploads, pages>> /\ r.pc = "decode"
    BY <1>8 DEF SaveBlob, dbVars
  <2>2. q.pc = "insert" /\ q.id = r.id /\ q.raw = r.raw /\ q.n = r.n + 1
    BY <1>1, <1>8 DEF SaveBlob, SetRun, TypeOK, Run
  <2>3. q.n - 1 = r.n
    BY <1>1, <2>2
  <2>4. Processing(r.id) => FirstPages(pages'[r.id], r.raw, q.n - 1)
    BY <1>2, <2>1, <2>3 DEF Ingesting
  <2> QED BY <1>4, <2>1, <2>2, <2>4 DEF Ingesting
<1>9. CASE InsertPage(p)
  <2>1. UNCHANGED uploads /\ r.pc = "insert" /\ r.id \in UploadId /\ r.n \in Nat \ {0}
    BY <1>1, <1>9 DEF InsertPage, Claimed, Ingesting
  <2>2. CASE Goto(p, "fail") /\ UNCHANGED pages
    <3>1. q.pc = "fail"
      BY <1>1, <2>2 DEF Goto, SetRun, TypeOK, Run
    <3>2. GoesOnWithGivenUp(q)
      BY <3>1 DEF GoesOnWithGivenUp, Ingesting, Reaping
    <3> QED BY <1>3, <2>1, <2>2, <3>2, LeavingKeepsBook
  <2>3. CASE /\ pages' = [pages EXCEPT ![r.id] = pages[r.id] \cup
                            {[no |-> r.n, blob |-> BlobOf(r.raw, r.n)]}]
             /\ Goto(p, "decode")
    <3>1. q.pc = "decode" /\ q.id = r.id /\ q.raw = r.raw /\ q.n = r.n
      BY <1>1, <2>3 DEF Goto, SetRun, TypeOK, Run
    <3>2. /\ pages'[r.id] = pages[r.id] \cup {[no |-> r.n, blob |-> BlobOf(r.raw, r.n)]}
          /\ \A id \in UploadId \ {r.id} : pages'[id] = pages[id]
          /\ IsFiniteSet(pages[r.id])
      BY <2>1, <2>3 DEF TypeOK
    <3>3. Processing(r.id) => FirstPages(pages'[r.id], r.raw, r.n)
      BY <1>2, <2>1, <3>2, NextPageIsFirst DEF Ingesting
    <3> QED BY <1>4, <2>1, <3>1, <3>2, <3>3 DEF Ingesting
  <2> QED BY <1>9, <2>2, <2>3 DEF InsertPage
<1>10. CASE SettleReady(p)
  <2>1. UNCHANGED pages /\ r.pc = "decode" /\ r.id \in UploadId
    BY <1>1, <1>10 DEF SettleReady, Claimed, Ingesting
  <2>2. CASE ~Processing(r.id)
    <3>1. UNCHANGED uploads /\ Goto(p, "late")
      BY <1>10, <2>2 DEF SettleReady
    <3>2. q.pc = "late" /\ q.id = r.id
      BY <1>1, <3>1 DEF Goto, SetRun, TypeOK, Run
    <3>3. GoesOnWithGivenUp(q)
      BY <1>2, <2>1, <2>2, <3>1, <3>2 DEF GoesOnWithGivenUp, Ingesting, Reaping
    <3> QED BY <1>3, <2>1, <3>1, <3>3, LeavingKeepsBook
  <2>3. CASE Processing(r.id)
    <3>1. uploads' = [uploads EXCEPT ![r.id] = Settled(uploads[r.id], "ready", r.n)]
      BY <1>10, <2>3 DEF SettleReady, TypeOK
    <3>2. /\ uploads'[r.id].status = "ready" /\ uploads'[r.id].raw = NoRaw
          /\ uploads'[r.id].src = uploads[r.id].src /\ uploads'[r.id].count = r.n
          /\ \A j \in UploadId \ {r.id} : uploads'[j] = uploads[j]
      BY <2>1, <3>1 DEF Settled, TypeOK, Upload
    <3>3. q.pc \in {"lastUnlink", "fail"}
      <4>1. Goto(p, "fail") => q.pc = "fail"
        BY <1>1 DEF Goto, SetRun, TypeOK, Run
      <4> QED BY <1>10, <2>3, <4>1, GotoUnlinkIs DEF SettleReady
    <3>4. RawIsSource'
      BY <3>2 DEF BookInv, RawIsSource
    <3>5. RunOwnsRow' /\ DecodedIsShown'
      BY <3>3 DEF RunOwnsRow, DecodedIsShown, Reaping, Ingesting
    <3>6. FirstPages(pages'[r.id], uploads'[r.id].src, uploads'[r.id].count)
      BY <1>2, <2>1, <2>3, <3>2 DEF Ingesting, Processing
    <3>7. ReadyIsComplete'
      BY <2>1, <3>2, <3>6 DEF BookInv, ReadyIsComplete, Complete
    <3> QED BY <3>4, <3>5, <3>7 DEF BookInv
  <2> QED BY <2>2, <2>3
<1>11. CASE UnlinkFiles(p)
  <2>1. UNCHANGED <<uploads, pages>>
    BY <1>11 DEF UnlinkFiles, dbVars
  <2>2. CASE r.pc = "reapUnlink"
    <3>1. q.pc = "reapRawRef" /\ q.id = r.id /\ q.reaped = r.reaped
      BY <1>1, <1>11, <2>2 DEF UnlinkFiles, SetRun, TypeOK, Run
    <3>2. GoesOnWithGivenUp(q)
      BY <1>1, <1>2, <2>1, <2>2, <3>1 DEF GoesOnWithGivenUp, GivenUp, Ingesting, Reaping
    <3> QED BY <1>3, <2>1, <3>2, LeavingKeepsBook
  <2>3. CASE r.pc = "wipeUnlink"
    <3>1. q.pc = "decode" /\ q.id = r.id /\ q.raw = r.raw /\ q.n = r.n
      BY <1>1, <1>11, <2>3 DEF UnlinkFiles, SetRun, TypeOK, Run
    <3>2. Processing(r.id) => FirstPages(pages'[r.id], r.raw, q.n)
      BY <1>2, <2>1, <2>3, <3>1 DEF Ingesting
    <3> QED BY <1>4, <2>1, <2>3, <3>1, <3>2 DEF Ingesting
  <2>4. CASE r.pc = "lastUnlink"
    <3>1. SetRun(p, At("tick"))
      BY <1>11, <2>4 DEF UnlinkFiles
    <3> QED BY <1>3, <1>5, <2>1, <3>1
  <2> QED BY <1>11, <2>2, <2>3, <2>4 DEF UnlinkFiles
<1> QED BY <1>6, <1>7, <1>8, <1>9, <1>10, <1>11

(* While one server process runs, whatever crashes, uploads, deletions and *)
(* reorderings interleave with its runner, a ready book shows exactly the  *)
(* pages of the file last accepted for its title, numbered 1..page_count.  *)
(* (Two processes break it: one may still be cleaning up a row it reaped   *)
(* while the other ingests the row's new file.)                            *)
THEOREM ReadyBooksAreWhole ==
  ASSUME \A p, q \in Process : p = q
  PROVE  Spec => []OneCompleteBook
<1>1. Init => BookInv
  BY DEF Init, BookInv, RawIsSource, RunOwnsRow, DecodedIsShown, ReadyIsComplete, NoRow, At,
    Reaping, Ingesting
<1>2. IInv /\ BookInv /\ [Next]_vars => BookInv'
  <2> SUFFICES ASSUME IInv, BookInv, [Next]_vars PROVE BookInv'
    OBVIOUS
  <2>1. TypeOK /\ RunHoldsRow /\ TypeOK' /\ RunHoldsRow'
    BY TypeInductive DEF IInv
  <2>2. ASSUME NEW p \in Process, Tick(p) \/ Crash(p) \/ Restart(p) PROVE BookInv'
    <3>1. \A s \in Process : s = p
      OBVIOUS
    <3> QED BY <2>1, <2>2, <3>1, GivingUpKeepsBook, DecodingKeepsBook, Zenon DEF Tick
  <2> QED BY <2>1, <2>2, RequestsKeepBook DEF Next
<1>3. OneRowPerTitle /\ BookInv => OneCompleteBook
  BY DEF OneCompleteBook, BookInv
<1> QED BY <1>1, <1>2, <1>3, InvariantHolds, TitlesAreUnique, PTL DEF Spec
===========================================================================
