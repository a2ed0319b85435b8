------------------------- MODULE Extraction_proofs -------------------------
(***************************************************************************)
(* Proofs about Extraction, for every number of books, pages, runs and     *)
(* concurrent requests, and every cap and span.                            *)
(***************************************************************************)
EXTENDS Extraction, FiniteSetTheorems, TLAPS

(* A resolved range holds at least one page and at most a run's worth.     *)
LEMMA RangeSize ==
  ASSUME TypeOK, NEW u \in Upload, NEW first \in Nat, NEW last \in Nat,
         first <= last, SpanAllowed(first, last), PagesIn(u, first, last) # {}
  PROVE  /\ PagesIn(u, first, last) \subseteq Page
         /\ Cardinality(PagesIn(u, first, last)) \in 1..MaxPagesPerRun
<1> DEFINE P == PagesIn(u, first, last)
<1>1. P \subseteq first..last
  BY DEF PagesIn
<1>2. P \subseteq Page
  BY ExtractionAssumption DEF PagesIn, TypeOK, Book, Page
<1>3. IsFiniteSet(first..last) /\ Cardinality(first..last) = last - first + 1
  BY FS_Interval
<1>4. IsFiniteSet(P) /\ Cardinality(P) <= last - first + 1
  BY <1>1, <1>3, FS_Subset
<1>5. Cardinality(P) \in Nat /\ Cardinality(P) # 0
  BY <1>4, FS_EmptySet, FS_CardinalityType
<1> QED BY <1>2, <1>4, <1>5, ExtractionAssumption DEF SpanAllowed

(* The pages charged on a day form a finite set, so that they can be       *)
(* counted.                                                                *)
LEMMA ChargesAreFinite ==
  ASSUME NEW S \in SUBSET (RunId \X Page)
  PROVE  IsFiniteSet(S) /\ Cardinality(S) \in Nat
<1>1. IsFiniteSet(RunId \X Page)
  <2>1. IsFiniteSet(Page)
    BY ExtractionAssumption, FS_Interval DEF Page
  <2> QED BY <2>1, ExtractionAssumption, FS_Product
<1> QED BY <1>1, FS_Subset, FS_CardinalityType

---------------------------------------------------------------------------
(* What every step but the INSERT of a claim does to run rows.             *)
RunsMove ==
  \A r \in RunId :
    /\ runs'[r] \in RunRow
    /\ runs'[r].pages = runs[r].pages /\ runs'[r].day = runs[r].day
    /\ runs'[r].upload \in {runs[r].upload, NoUpload}
    /\ \/ runs'[r].status = runs[r].status
       \/ Running(r) /\ runs'[r].status \in {"done", "failed"}
    /\ ~Exists(r) => runs'[r] = runs[r]

LEMMA SettledRow ==
  ASSUME TypeOK, NEW r \in RunId, NEW v \in {"done", "failed"}
  PROVE  /\ Settled(r, v) \in RunRow
         /\ Settled(r, v).pages = runs[r].pages /\ Settled(r, v).day = runs[r].day
         /\ Settled(r, v).upload = runs[r].upload /\ Settled(r, v).status = v
BY DEF TypeOK, RunRow, Settled

LEMMA RunsStay ==
  ASSUME IInv, UNCHANGED runs
  PROVE  RunsMove /\ runs' \in [RunId -> RunRow]
BY DEF IInv, TypeOK, RunsMove, Exists

LEMMA RunsMoved ==
  ASSUME IInv,
         \/ \E q \in Request : Persist(q) \/ SettleFailed(q)
         \/ \E u \in Upload : DeleteBook(u)
         \/ \E r \in RunId : Age(r)
  PROVE  RunsMove /\ runs' \in [RunId -> RunRow]
<1>1. ASSUME NEW q \in Request, Persist(q) \/ SettleFailed(q)
      PROVE  RunsMove /\ runs' \in [RunId -> RunRow]
  <2> DEFINE r == req[q].run
  <2>1. r \in RunId
    BY <1>1 DEF IInv, RequestHolds, Working, Persist, SettleFailed
  <2>2. ASSUME NEW v \in {"done", "failed"}, Running(r),
               runs' = [runs EXCEPT ![r] = Settled(r, v)]
        PROVE  RunsMove /\ runs' \in [RunId -> RunRow]
    <3>1. runs \in [RunId -> RunRow] /\ runs'[r] = Settled(r, v)
          /\ \A x \in RunId \ {r} : runs'[x] = runs[x]
      BY <2>1, <2>2 DEF IInv, TypeOK
    <3>2. Settled(r, v) \in RunRow /\ Settled(r, v).pages = runs[r].pages
          /\ Settled(r, v).day = runs[r].day /\ Settled(r, v).upload = runs[r].upload
          /\ Settled(r, v).status = v
      BY <2>1, SettledRow DEF IInv
    <3> QED BY <2>1, <2>2, <3>1, <3>2 DEF RunsMove, Running, Exists
  <2>3. CASE UNCHANGED runs
    BY <2>3, RunsStay
  <2> QED BY <1>1, <2>2, <2>3 DEF Persist, SettledOne, SettleFailed, Unsettled
<1>2. ASSUME NEW u \in Upload, DeleteBook(u)
      PROVE  RunsMove /\ runs' \in [RunId -> RunRow]
  <2>1. runs \in [RunId -> RunRow] /\ runs' = Orphaned(u)
    BY <1>2 DEF DeleteBook, IInv, TypeOK
  <2>2. \A r \in RunId : [runs[r] EXCEPT !.upload = NoUpload] \in RunRow
    BY <2>1 DEF RunRow
  <2>3. \A r \in RunId : ~Exists(r) => runs[r].upload = NoUpload
    BY DEF IInv, UnusedIsBlank, NoRow
  <2>4. \A r \in RunId : ~Exists(r) => runs'[r] = runs[r]
    BY <2>1, <2>3, ExtractionAssumption DEF Orphaned
  <2> QED BY <2>1, <2>2, <2>4 DEF RunsMove, Orphaned, RunRow
<1>3. ASSUME NEW r \in RunId, Age(r)
      PROVE  RunsMove /\ runs' \in [RunId -> RunRow]
  <2> DEFINE row == [runs[r] EXCEPT !.stale = TRUE]
  <2>1. runs \in [RunId -> RunRow] /\ Running(r) /\ runs' = [runs EXCEPT ![r] = row]
    BY <1>3 DEF Age, IInv, TypeOK
  <2>2. row \in RunRow /\ row.pages = runs[r].pages /\ row.day = runs[r].day
        /\ row.upload = runs[r].upload /\ row.status = runs[r].status
    BY <2>1 DEF RunRow
  <2> HIDE DEF row
  <2>3. runs'[r] = row /\ \A x \in RunId \ {r} : runs'[x] = runs[x]
    BY <2>1
  <2> QED BY <2>1, <2>2, <2>3 DEF RunsMove, Running, Exists
<1> QED BY <1>1, <1>2, <1>3

(* Such a step keeps what the invariant says of rows, words and charges.   *)
LEMMA RowsKeep ==
  ASSUME IInv, RunsMove,
         \A r \in words' : r \in words \/ (r \in RunId /\ runs'[r].status = "done")
  PROVE  /\ UnusedIsBlank' /\ OneLiveRun' /\ WordsFromDoneRuns'
         /\ \A d \in Day : ChargedOn(d)' = ChargedOn(d)
         /\ \A r \in RunId : Exists(r)' <=> Exists(r)
         /\ \A r \in RunId : Exists(r)' => Cardinality(runs'[r].pages) \in 1..MaxPagesPerRun
<1>1. \A r \in RunId : Exists(r)' <=> Exists(r)
  BY DEF RunsMove, Exists, Running
<1>2. UnusedIsBlank'
  BY <1>1 DEF RunsMove, IInv, UnusedIsBlank
<1>3. OneLiveRun'
  <2>1. \A r \in RunId : Running(r)' /\ runs'[r].upload # NoUpload =>
          Running(r) /\ runs'[r].upload = runs[r].upload
    BY DEF RunsMove, Running
  <2> QED BY <2>1 DEF IInv, OneLiveRun
<1>4. WordsFromDoneRuns'
  BY DEF IInv, TypeOK, WordsFromDoneRuns, RunsMove, Running
<1>5. \A d \in Day : ChargedOn(d)' = ChargedOn(d)
  BY DEF RunsMove, ChargedOn
<1>6. \A r \in RunId : Exists(r)' => Cardinality(runs'[r].pages) \in 1..MaxPagesPerRun
  BY <1>1 DEF RunsMove, IInv, TypeOK
<1> QED BY <1>1, <1>2, <1>3, <1>4, <1>5, <1>6

(* What the invariant says of requests, if the rows they hold and the      *)
(* charges they fit under stay and no request but q changes.               *)
LEMMA RequestsKeep ==
  ASSUME IInv, NEW q \in Request,
         \A r \in RunId : Exists(r) => Exists(r)' /\ runs'[r].pages = runs[r].pages,
         \A p \in Request \ {q} : req'[p] = req[p],
         req'[q].pc \in Claiming =>
           req'[q].upload \in Upload /\ Cardinality(req'[q].pages) \in 1..MaxPagesPerRun,
         req'[q].pc \in Working =>
           /\ req'[q].run \in RunId /\ runs'[req'[q].run].status # "none"
           /\ req'[q].pages = runs'[req'[q].run].pages
  PROVE  RequestHolds'
<1>1. ASSUME NEW p \in Request \ {q} PROVE
        /\ req'[p].pc \in Claiming =>
             req'[p].upload \in Upload /\ Cardinality(req'[p].pages) \in 1..MaxPagesPerRun
        /\ req'[p].pc \in Working =>
             /\ req'[p].run \in RunId /\ runs'[req'[p].run].status # "none"
             /\ req'[p].pages = runs'[req'[p].run].pages
  BY DEF IInv, RequestHolds, Exists
<1> QED BY <1>1 DEF RequestHolds, Exists

LEMMA CapKeeps ==
  ASSUME IInv, \A d \in Day : ChargedOn(d)' = ChargedOn(d),
         \A p \in Request : req'[p].pc = "counted" => req'[p] = req[p]
  PROVE  OneCounted' /\ CountedFits' /\ ChargedWithinCap'
<1>1. OneCounted'
  BY DEF IInv, OneCounted
<1>2. ASSUME NEW p \in Request, req'[p].pc = "counted"
      PROVE  Cardinality(ChargedOn(req[p].day)') + Cardinality(req'[p].pages) <= PageCap
             /\ req'[p].day = req[p].day
  BY <1>2 DEF IInv, CountedFits, TypeOK, Req
<1>3. CountedFits'
  BY <1>2 DEF CountedFits, ChargedOn
<1>4. ChargedWithinCap'
  BY DEF IInv, ChargedWithinCap
<1> QED BY <1>1, <1>3, <1>4

---------------------------------------------------------------------------
(* Steps of the book, of runs growing old, and of time.                    *)
LEMMA EnvStep ==
  ASSUME IInv,
         \/ \E u \in Upload : DecodePage(u) \/ WipePages(u) \/ DeleteBook(u)
         \/ \E r \in RunId : Age(r)
         \/ Midnight
         \/ UNCHANGED vars
  PROVE  IInv'
<1>1. UNCHANGED <<words, sent, req>>
  BY DEF DecodePage, WipePages, DeleteBook, Age, Midnight, vars
<1>2. RunsMove /\ runs' \in [RunId -> RunRow]
  BY RunsMoved, RunsStay DEF DecodePage, WipePages, Midnight, vars
<1>3. book' \in [Upload -> Book]
  BY ExtractionAssumption DEF DecodePage, WipePages, DeleteBook, Age, Midnight, vars, IInv,
    TypeOK, Book
<1>4. today' \in Day
  BY ExtractionAssumption DEF DecodePage, WipePages, DeleteBook, Age, Midnight, vars, IInv,
    TypeOK, Day
<1>5. /\ UnusedIsBlank' /\ OneLiveRun' /\ WordsFromDoneRuns'
      /\ \A d \in Day : ChargedOn(d)' = ChargedOn(d)
      /\ \A r \in RunId : Exists(r)' <=> Exists(r)
      /\ \A r \in RunId : Exists(r)' => Cardinality(runs'[r].pages) \in 1..MaxPagesPerRun
  BY <1>1, <1>2, RowsKeep
<1>6. TypeOK'
  BY <1>1, <1>2, <1>3, <1>4, <1>5 DEF IInv, TypeOK
<1>7. RequestHolds'
  BY <1>1, <1>2, <1>5 DEF IInv, RequestHolds, RunsMove
<1>8. OneCounted' /\ CountedFits' /\ ChargedWithinCap'
  BY <1>1, <1>5, CapKeeps
<1>9. SentPagesAreCharged'
  BY <1>1, <1>2 DEF IInv, TypeOK, SentPagesAreCharged, RunsMove
<1> QED BY <1>5, <1>6, <1>7, <1>8, <1>9 DEF IInv

---------------------------------------------------------------------------
(* Steps of a request that leave run rows alone.                           *)
LEMMA RangeStep ==
  ASSUME IInv, NEW q \in Request, NEW u \in Upload,
         NEW from \in Ends \cup {Omitted}, NEW to \in Ends \cup {Omitted},
         NEW lastDone \in DoneTo(u) \cup {0}, ResolveRange(q, u, from, to, lastDone)
  PROVE  /\ req' \in [Request -> Req]
         /\ req'[q].pc = "ranged" /\ req'[q].upload \in Upload
         /\ Cardinality(req'[q].pages) \in 1..MaxPagesPerRun
<1> DEFINE first == PageFrom(lastDone, from)
           last == PageTo(first, to)
           P == PagesIn(u, first, last)
           row == [NoReq EXCEPT !.pc = "ranged", !.upload = u, !.to = last,
                                !.pages = P, !.day = today]
<1>1. lastDone \in Nat
  BY DEF IInv, TypeOK, RunRow, DoneTo
<1>2. first \in Nat
  BY <1>1, ExtractionAssumption DEF PageFrom
<1>3. last \in Nat
  BY <1>2, ExtractionAssumption DEF PageTo
<1>4. first <= last /\ SpanAllowed(first, last) /\ P # {} /\ SetReq(q, row)
  BY DEF ResolveRange
<1>5. P \subseteq Page /\ Cardinality(P) \in 1..MaxPagesPerRun
  BY <1>2, <1>3, <1>4, RangeSize DEF IInv
<1> HIDE DEF P, last, first
<1>6. row \in Req /\ row.pc = "ranged" /\ row.upload = u /\ row.pages = P
  BY <1>3, <1>5 DEF IInv, TypeOK, NoReq, Req, ReqState
<1> HIDE DEF row
<1>7. req' = [req EXCEPT ![q] = row] /\ req \in [Request -> Req]
  BY <1>4 DEF SetReq, IInv, TypeOK
<1> QED BY <1>5, <1>6, <1>7

(* Requests move by Goto and by SetReq to a blank one.                     *)
LEMMA ReqMoves ==
  ASSUME TypeOK, NEW q \in Request, NEW pc \in ReqState
  PROVE  /\ Goto(q, pc) => /\ req' \in [Request -> Req]
                          /\ req'[q].pc = pc /\ req'[q].upload = req[q].upload
                          /\ req'[q].pages = req[q].pages /\ req'[q].run = req[q].run
                          /\ req'[q].day = req[q].day
                          /\ \A p \in Request \ {q} : req'[p] = req[p]
         /\ SetReq(q, NoReq) => /\ req' \in [Request -> Req] /\ req'[q].pc = "idle"
                               /\ \A p \in Request \ {q} : req'[p] = req[p]
<1>1. NoReq \in Req /\ NoReq.pc = "idle"
  BY ExtractionAssumption DEF NoReq, Req, ReqState, Day
<1>2. ASSUME Goto(q, pc)
      PROVE  /\ req' \in [Request -> Req]
             /\ req'[q].pc = pc /\ req'[q].upload = req[q].upload
             /\ req'[q].pages = req[q].pages /\ req'[q].run = req[q].run
             /\ req'[q].day = req[q].day
             /\ \A p \in Request \ {q} : req'[p] = req[p]
  BY <1>2 DEF Goto, SetReq, TypeOK, Req
<1>3. ASSUME SetReq(q, NoReq)
      PROVE  /\ req' \in [Request -> Req] /\ req'[q].pc = "idle"
             /\ \A p \in Request \ {q} : req'[p] = req[p]
  BY <1>1, <1>3 DEF SetReq, TypeOK
<1> QED BY <1>2, <1>3

LEMMA RequestStep ==
  ASSUME IInv, NEW q \in Request,
         \/ \E u \in Upload : \E from, to \in Ends \cup {Omitted} :
              \E lastDone \in DoneTo(u) \cup {0} : ResolveRange(q, u, from, to, lastDone)
         \/ CheckCap(q) \/ Ocr(q) \/ Throw(q) \/ Lost(q)
  PROVE  IInv'
<1>1. UNCHANGED <<book, runs, words, today>> /\ \A p \in Request \ {q} : req'[p] = req[p]
  <2>1. UNCHANGED <<book, runs, words, today>>
    BY DEF ResolveRange, CheckCap, Ocr, Throw, Lost
  <2>2. PICK row : SetReq(q, row)
    <3>1. ASSUME NEW u \in Upload, NEW from \in Ends \cup {Omitted}, NEW to \in Ends \cup {Omitted},
                 NEW lastDone \in DoneTo(u) \cup {0}, ResolveRange(q, u, from, to, lastDone)
          PROVE  \E row : SetReq(q, row)
      BY <3>1, Zenon DEF ResolveRange
    <3>2. CASE CheckCap(q)
      BY <3>2, Zenon DEF CheckCap, Goto
    <3>3. CASE Ocr(q) \/ Throw(q) \/ Lost(q)
      BY <3>3, Zenon DEF Ocr, Throw, Lost, Goto
    <3> QED BY <3>1, <3>2, <3>3
  <2>3. \A p \in Request \ {q} : req'[p] = req[p]
    BY <2>2 DEF SetReq, IInv, TypeOK
  <2> QED BY <2>1, <2>3
<1>2. /\ UnusedIsBlank' /\ OneLiveRun' /\ WordsFromDoneRuns'
      /\ \A d \in Day : ChargedOn(d)' = ChargedOn(d)
      /\ \A r \in RunId : Exists(r)' <=> Exists(r)
      /\ \A r \in RunId : Exists(r)' => Cardinality(runs'[r].pages) \in 1..MaxPagesPerRun
  <2>1. RunsMove
    BY <1>1, RunsStay
  <2> QED BY <1>1, <2>1, RowsKeep
<1>3. ASSUME req' \in [Request -> Req], sent' \subseteq RunId \X Page PROVE TypeOK'
  BY <1>1, <1>2, <1>3 DEF IInv, TypeOK
<1>4. ASSUME UNCHANGED sent PROVE SentPagesAreCharged' /\ sent' \subseteq RunId \X Page
  BY <1>1, <1>4 DEF IInv, SentPagesAreCharged, TypeOK
<1>5. ASSUME req'[q].pc # "counted" PROVE OneCounted' /\ CountedFits' /\ ChargedWithinCap'
  BY <1>1, <1>2, <1>5, CapKeeps
<1>6. CASE \E u \in Upload : \E from, to \in Ends \cup {Omitted} :
             \E lastDone \in DoneTo(u) \cup {0} : ResolveRange(q, u, from, to, lastDone)
  <2>1. /\ req' \in [Request -> Req]
        /\ req'[q].pc = "ranged" /\ req'[q].upload \in Upload
        /\ Cardinality(req'[q].pages) \in 1..MaxPagesPerRun
    BY <1>6, RangeStep
  <2>2. UNCHANGED sent
    BY <1>6 DEF ResolveRange
  <2>3. RequestHolds'
    BY <1>1, <2>1, RequestsKeep DEF Claiming, Working, Exists
  <2> QED BY <1>2, <1>3, <1>4, <1>5, <2>1, <2>2, <2>3 DEF IInv
<1>7. CASE SetReq(q, NoReq) /\ UNCHANGED sent
  <2>1. req' \in [Request -> Req] /\ req'[q].pc = "idle"
    BY <1>7, ReqMoves DEF IInv, ReqState
  <2>2. RequestHolds'
    BY <1>1, <2>1, RequestsKeep DEF Claiming, Working, Exists
  <2> QED BY <1>2, <1>3, <1>4, <1>5, <1>7, <2>1, <2>2 DEF IInv
<1>8. CASE CheckCap(q) /\ Goto(q, "counted")
  <2> PICK D \in Day : D = req[q].day
    BY DEF IInv, TypeOK, Req
  <2>1. /\ req' \in [Request -> Req] /\ req'[q].pc = "counted"
        /\ req'[q].upload = req[q].upload /\ req'[q].pages = req[q].pages
        /\ req'[q].day = D
    BY <1>8, ReqMoves DEF IInv, ReqState
  <2>2. RequestHolds'
    BY <1>1, <1>8, <2>1, RequestsKeep DEF CheckCap, IInv, RequestHolds, Claiming, Working, Exists
  <2>3. OneCounted'
    BY <1>1, <1>8 DEF CheckCap, CapLocked, OneCounted
  <2>4. Cardinality(ChargedSince(D)) + Cardinality(req[q].pages) <= PageCap
    BY <1>8, <2>1 DEF CheckCap, SetReq, NoReq, IInv, TypeOK
  <2>5. /\ ChargedOn(D) \subseteq ChargedSince(D)
        /\ ChargedSince(D) \in SUBSET (RunId \X Page)
    BY DEF ChargedOn, ChargedSince, IInv, TypeOK, Req, RunRow, Day
  <2>6. Cardinality(ChargedOn(D)) + Cardinality(req[q].pages) <= PageCap
    <3>1. IsFiniteSet(ChargedSince(D)) /\ Cardinality(ChargedSince(D)) \in Nat
      BY <2>5, ChargesAreFinite
    <3>2. Cardinality(ChargedOn(D)) \in Nat
      BY <2>5, ChargesAreFinite
    <3>3. Cardinality(ChargedOn(D)) <= Cardinality(ChargedSince(D))
      BY <2>5, <3>1, FS_Subset
    <3>4. Cardinality(req[q].pages) \in Nat
      BY <1>8, ExtractionAssumption DEF CheckCap, IInv, RequestHolds, Claiming
    <3> QED BY <2>4, <3>1, <3>2, <3>3, <3>4, ExtractionAssumption
  <2>7. \A p \in Request \ {q} : req'[p].pc # "counted"
    BY <1>1, <1>8 DEF CheckCap, CapLocked
  <2>8. CountedFits'
    <3>1. ChargedOn(D)' = ChargedOn(D)
      BY <1>2
    <3>2. Cardinality(ChargedOn(D)') + Cardinality(req'[q].pages) <= PageCap
      BY <2>1, <2>6, <3>1
    <3>3. ASSUME NEW p \in Request, req'[p].pc = "counted"
          PROVE  p = q
      BY <2>7, <3>3
    <3> QED BY <2>1, <3>2, <3>3 DEF CountedFits, ChargedOn
  <2>9. ChargedWithinCap'
    BY <1>2 DEF IInv, ChargedWithinCap
  <2>10. UNCHANGED sent
    BY <1>8 DEF CheckCap
  <2> QED BY <1>2, <1>3, <1>4, <2>1, <2>2, <2>3, <2>8, <2>9, <2>10 DEF IInv
<1>9. CASE Throw(q) \/ Ocr(q)
  <2>1. PICK pc \in {"persist", "settle"} : Goto(q, pc)
    BY <1>9 DEF Throw, Ocr
  <2>2. /\ req' \in [Request -> Req] /\ req'[q].pc = pc
        /\ req'[q].run = req[q].run /\ req'[q].pages = req[q].pages
    BY <2>1, ReqMoves DEF IInv, ReqState
  <2>3. req[q].run \in RunId /\ Exists(req[q].run) /\ req[q].pages = runs[req[q].run].pages
    BY <1>9 DEF Throw, Ocr, IInv, RequestHolds, Working
  <2>4. RequestHolds'
    BY <1>1, <2>1, <2>2, <2>3, RequestsKeep DEF Claiming, Working, Exists
  <2>5. sent' \in {sent, sent \cup ({req[q].run} \X req[q].pages)}
    BY <1>9 DEF Throw, Ocr
  <2>6. sent' \subseteq RunId \X Page
    BY <2>3, <2>5 DEF IInv, TypeOK, Req
  <2>7. SentPagesAreCharged'
    BY <1>1, <2>3, <2>5 DEF IInv, SentPagesAreCharged
  <2> QED BY <1>2, <1>3, <1>5, <2>1, <2>2, <2>4, <2>6, <2>7 DEF IInv
<1> QED BY <1>6, <1>7, <1>8, <1>9 DEF CheckCap, Lost

(* Steps of a request that settle its run.                                 *)
LEMMA SettleStep ==
  ASSUME IInv, NEW q \in Request, Persist(q) \/ SettleFailed(q)
  PROVE  IInv'
<1>1. UNCHANGED <<book, sent, today>>
  BY DEF Persist, SettleFailed
<1>2. RunsMove /\ runs' \in [RunId -> RunRow]
  BY RunsMoved
<1>3. /\ req[q].run \in RunId /\ Exists(req[q].run)
      /\ req[q].pages = runs[req[q].run].pages
  BY DEF Persist, SettleFailed, IInv, RequestHolds, Working
<1>4. \A r \in words' : r \in words \/ (r \in RunId /\ runs'[r].status = "done")
  <2>1. CASE Persist(q)
    <3>1. words' \in {words, words \cup {req[q].run}}
      BY <2>1 DEF Persist
    <3>2. runs'[req[q].run] = Settled(req[q].run, "done")
      BY <1>3, <2>1 DEF Persist, SettledOne, IInv, TypeOK
    <3>3. runs'[req[q].run].status = "done"
      BY <1>3, <3>2, SettledRow DEF IInv
    <3> QED BY <1>3, <3>1, <3>3
  <2>2. CASE SettleFailed(q)
    BY <2>2 DEF SettleFailed
  <2> QED BY <2>1, <2>2
<1>5. /\ UnusedIsBlank' /\ OneLiveRun' /\ WordsFromDoneRuns'
      /\ \A d \in Day : ChargedOn(d)' = ChargedOn(d)
      /\ \A r \in RunId : Exists(r)' <=> Exists(r)
      /\ \A r \in RunId : Exists(r)' => Cardinality(runs'[r].pages) \in 1..MaxPagesPerRun
  BY <1>2, <1>4, RowsKeep
<1>6. /\ req' \in [Request -> Req] /\ req'[q].pc \in {"idle", "settle"}
      /\ req'[q].pc = "settle" => req'[q].run = req[q].run /\ req'[q].pages = req[q].pages
      /\ \A p \in Request \ {q} : req'[p] = req[p]
  <2>1. SetReq(q, NoReq) \/ Goto(q, "settle")
    BY DEF Persist, SettleFailed
  <2> QED BY <2>1, ReqMoves DEF IInv, ReqState
<1>7. TypeOK'
  <2>1. words' \subseteq RunId
    BY <1>4 DEF IInv, TypeOK
  <2> QED BY <1>1, <1>2, <1>5, <1>6, <2>1 DEF IInv, TypeOK
<1>8. RequestHolds'
  <2>1. \A r \in RunId : Exists(r) => Exists(r)' /\ runs'[r].pages = runs[r].pages
    BY <1>2, <1>5 DEF RunsMove
  <2>2. req'[q].pc \notin Claiming
    BY <1>6 DEF Claiming
  <2>3. req'[q].pc \in Working =>
          /\ req'[q].run \in RunId /\ runs'[req'[q].run].status # "none"
          /\ req'[q].pages = runs'[req'[q].run].pages
    BY <1>3, <1>6, <2>1 DEF Working, Exists
  <2> QED BY <1>6, <2>1, <2>2, <2>3, RequestsKeep
<1>9. OneCounted' /\ CountedFits' /\ ChargedWithinCap'
  BY <1>5, <1>6, CapKeeps
<1>10. SentPagesAreCharged'
  BY <1>1, <1>2 DEF IInv, TypeOK, SentPagesAreCharged, RunsMove
<1> QED BY <1>5, <1>7, <1>8, <1>9, <1>10 DEF IInv

---------------------------------------------------------------------------
(* The INSERT: the claimed pages are charged to a fresh run, which the     *)
(* counted claim has left room for.                                        *)
LEMMA InsertStep ==
  ASSUME IInv, NEW q \in Request, InsertRun(q)
  PROVE  IInv'
<1> PICK u \in Upload, D \in Day, P \in SUBSET Page :
      u = req[q].upload /\ D = req[q].day /\ P = req[q].pages
  BY DEF InsertRun, IInv, TypeOK, Req, RequestHolds, Claiming
<1>1. /\ UNCHANGED <<book, words, sent, today>>
      /\ req[q].pc = "counted" /\ NoLiveRun(u) /\ req[q].to \in Nat
      /\ Cardinality(P) \in 1..MaxPagesPerRun
  BY DEF InsertRun, IInv, TypeOK, Req, RequestHolds, Claiming
<1> PICK new \in RunRow :
      new = [status |-> "running", upload |-> u, pages |-> P,
             to |-> req[q].to, day |-> D, stale |-> FALSE]
  BY <1>1 DEF RunRow
<1>2. PICK r \in RunId :
        /\ ~Exists(r)
        /\ runs' = [x \in RunId |->
             IF x = r THEN new
             ELSE IF x \in StaleRuns(u) THEN Settled(x, "failed") ELSE runs[x]]
        /\ SetReq(q, [req[q] EXCEPT !.pc = "ocr", !.run = r])
  BY DEF InsertRun
<1>3. /\ runs'[r] = new /\ new.status = "running" /\ new.upload = u
      /\ new.pages = P /\ new.day = D
  BY <1>2
<1>4. \A x \in RunId \ {r} :
        /\ runs'[x] \in RunRow
        /\ runs'[x].pages = runs[x].pages /\ runs'[x].day = runs[x].day
        /\ runs'[x].upload = runs[x].upload
        /\ runs'[x] = runs[x] \/ (Running(x) /\ runs'[x].status = "failed")
        /\ Running(x) /\ runs[x].upload = u => runs'[x].status = "failed"
  <2>1. ASSUME NEW x \in RunId \ {r}, x \in StaleRuns(u)
        PROVE  /\ runs'[x] \in RunRow
               /\ runs'[x].pages = runs[x].pages /\ runs'[x].day = runs[x].day
               /\ runs'[x].upload = runs[x].upload
               /\ Running(x) /\ runs'[x].status = "failed"
    <3>1. runs'[x] = Settled(x, "failed")
      BY <1>2, <2>1
    <3> QED BY <2>1, <3>1, SettledRow DEF IInv, StaleRuns, RunsOf
  <2>2. ASSUME NEW x \in RunId \ {r}, x \notin StaleRuns(u)
        PROVE  /\ runs'[x] \in RunRow /\ runs'[x] = runs[x]
               /\ ~(Running(x) /\ runs[x].upload = u)
    BY <1>1, <1>2, <2>2 DEF NoLiveRun, RunsOf, IInv, TypeOK
  <2> QED BY <2>1, <2>2
<1>5. /\ req' \in [Request -> Req] /\ req'[q].pc = "ocr" /\ req'[q].run = r
      /\ req'[q].pages = P
      /\ \A p \in Request \ {q} : req'[p] = req[p]
  <2> DEFINE row == [req[q] EXCEPT !.pc = "ocr", !.run = r]
  <2>1. row \in Req /\ row.pc = "ocr" /\ row.run = r /\ row.pages = P
    BY DEF IInv, TypeOK, Req, ReqState
  <2> HIDE DEF row
  <2>2. req' = [req EXCEPT ![q] = row] /\ req \in [Request -> Req]
    BY <1>2 DEF SetReq, IInv, TypeOK, row
  <2> QED BY <2>1, <2>2
<1>6. runs[r] = NoRow /\ r \notin words /\ \A c \in sent : c[1] # r
  <2>1. runs[r] = NoRow
    BY <1>2 DEF IInv, UnusedIsBlank
  <2>2. r \notin words
    BY <2>1 DEF NoRow, IInv, WordsFromDoneRuns
  <2>3. \A c \in sent : c[1] # r
    BY <2>1 DEF NoRow, IInv, SentPagesAreCharged
  <2> QED BY <2>1, <2>2, <2>3
<1>7. TypeOK'
  <2>1. runs' \in [RunId -> RunRow]
    BY <1>2, <1>3, <1>4
  <2>2. \A x \in RunId : Exists(x)' => Cardinality(runs'[x].pages) \in 1..MaxPagesPerRun
    BY <1>1, <1>3, <1>4 DEF Exists, Running, IInv, TypeOK
  <2> QED BY <1>1, <1>5, <2>1, <2>2 DEF IInv, TypeOK
<1>8. UnusedIsBlank'
  BY <1>3, <1>4 DEF IInv, UnusedIsBlank, Exists, Running
<1>9. OneLiveRun'
  BY <1>3, <1>4 DEF IInv, OneLiveRun, Running
<1>10. WordsFromDoneRuns' /\ SentPagesAreCharged'
  BY <1>1, <1>4, <1>6 DEF IInv, TypeOK, WordsFromDoneRuns, SentPagesAreCharged, Running
<1>11. RequestHolds'
  <2>1. \A x \in RunId : Exists(x) => Exists(x)' /\ runs'[x].pages = runs[x].pages
    BY <1>2, <1>4 DEF Exists, Running
  <2> QED BY <1>3, <1>5, <2>1, RequestsKeep DEF Claiming, Working
<1>12. \A d \in Day \ {D} : ChargedOn(d)' = ChargedOn(d)
  <2>1. runs[r].pages = {}
    BY <1>6 DEF NoRow
  <2> QED BY <1>3, <1>4, <2>1 DEF ChargedOn
<1>13. Cardinality(ChargedOn(D)') <= PageCap
  <2>1. ChargedOn(D)' \subseteq ChargedOn(D) \cup ({r} \X P)
    BY <1>3, <1>4 DEF ChargedOn
  <2>2. IsFiniteSet(ChargedOn(D)) /\ Cardinality(ChargedOn(D)) \in Nat
    <3>1. ChargedOn(D) \in SUBSET (RunId \X Page)
      BY DEF ChargedOn
    <3> QED BY <3>1, ChargesAreFinite
  <2>3. /\ IsFiniteSet({r}) /\ Cardinality({r}) = 1
        /\ IsFiniteSet(P) /\ Cardinality(P) \in Nat
    <3>1. IsFiniteSet(Page)
      BY ExtractionAssumption, FS_Interval DEF Page
    <3> QED BY <3>1, FS_Subset, FS_CardinalityType, FS_Singleton
  <2>4. IsFiniteSet({r} \X P) /\ Cardinality({r} \X P) = Cardinality(P)
    BY <2>3, FS_Product
  <2>5. IsFiniteSet(ChargedOn(D) \cup ({r} \X P))
        /\ Cardinality(ChargedOn(D) \cup ({r} \X P)) <= Cardinality(ChargedOn(D)) + Cardinality(P)
    <3>1. Cardinality(ChargedOn(D) \cap ({r} \X P)) \in Nat
      BY <2>2, <2>4, FS_Intersection, FS_CardinalityType
    <3> QED BY <2>2, <2>3, <2>4, <3>1, FS_Union
  <2>6. Cardinality(ChargedOn(D)) + Cardinality(P) <= PageCap
    BY <1>1 DEF IInv, CountedFits
  <2>7. Cardinality(ChargedOn(D)') \in Nat
        /\ Cardinality(ChargedOn(D)') <= Cardinality(ChargedOn(D) \cup ({r} \X P))
    BY <2>1, <2>5, FS_Subset, FS_CardinalityType
  <2>8. Cardinality(ChargedOn(D) \cup ({r} \X P)) \in Nat
    BY <2>5, FS_CardinalityType
  <2> QED BY <2>2, <2>3, <2>5, <2>6, <2>7, <2>8, ExtractionAssumption
<1>14. ChargedWithinCap'
  <2>1. \A d \in Day : Cardinality(ChargedOn(d)') <= PageCap
    BY <1>12, <1>13 DEF IInv, ChargedWithinCap
  <2> QED BY <2>1 DEF ChargedWithinCap
<1>15. OneCounted' /\ CountedFits'
  BY <1>1, <1>5 DEF IInv, OneCounted, CountedFits
<1> QED BY <1>7, <1>8, <1>9, <1>10, <1>11, <1>14, <1>15 DEF IInv

---------------------------------------------------------------------------
LEMMA InitInv == Init => IInv
<1> SUFFICES ASSUME Init PROVE IInv
  OBVIOUS
<1>1. TypeOK
  BY ExtractionAssumption DEF Init, TypeOK, Book, RunRow, NoRow, Req, NoReq, ReqState, Day,
    Exists
<1>2. UnusedIsBlank /\ OneLiveRun /\ WordsFromDoneRuns /\ SentPagesAreCharged
  BY DEF Init, UnusedIsBlank, OneLiveRun, WordsFromDoneRuns, SentPagesAreCharged, NoRow, Running
<1>3. RequestHolds /\ OneCounted /\ CountedFits
  BY DEF Init, NoReq, RequestHolds, OneCounted, CountedFits, Claiming, Working
<1>4. ChargedWithinCap
  <2>1. \A d \in Day : ChargedOn(d) = {}
    BY DEF Init, NoRow, ChargedOn
  <2> QED BY <2>1, FS_EmptySet, ExtractionAssumption DEF ChargedWithinCap
<1> QED BY <1>1, <1>2, <1>3, <1>4 DEF IInv

LEMMA NextInv == IInv /\ [Next]_vars => IInv'
<1> SUFFICES ASSUME IInv, [Next]_vars PROVE IInv'
  OBVIOUS
<1>1. ASSUME NEW q \in Request, Claim(q) PROVE IInv'
  <2>1. CASE InsertRun(q)
    BY <2>1, InsertStep
  <2>2. CASE ~InsertRun(q)
    BY <1>1, <2>2, RequestStep DEF Claim
  <2> QED BY <2>1, <2>2
<1>2. ASSUME NEW q \in Request, Work(q) PROVE IInv'
  BY <1>2, RequestStep, SettleStep DEF Work
<1>3. ASSUME NEW q \in Request, Lost(q) PROVE IInv'
  BY <1>3, RequestStep
<1>4. CASE \/ \E u \in Upload : DecodePage(u) \/ WipePages(u) \/ DeleteBook(u)
           \/ \E r \in RunId : Age(r)
           \/ Midnight
           \/ UNCHANGED vars
  BY <1>4, EnvStep
<1>5. CASE \E q \in Request : Claim(q) \/ Work(q) \/ Lost(q)
  BY <1>1, <1>2, <1>3, <1>5
<1> QED BY <1>4, <1>5 DEF Next

---------------------------------------------------------------------------
(* The inductive invariant holds of every behaviour of claims, runs,       *)
(* deletes and re-decodes.                                                 *)
THEOREM InvariantHolds == Spec => []IInv
BY InitInv, NextInv, PTL DEF Spec

(* Every row keeps its type, and a run claims between one page and         *)
(* MAX_EXTRACT_PAGES_PER_RUN.                                              *)
THEOREM TypeCorrect == Spec => []TypeOK
<1>1. IInv => TypeOK
  BY DEF IInv
<1> QED BY <1>1, InvariantHolds, PTL

(* The upload lock, the reaper and the unique key leave an upload at most  *)
(* one running extraction, and words are in the corpus only of runs that   *)
(* are settled done: the settle and the words commit together.             *)
THEOREM RunsSound == Spec => []RunsAreSound
<1>1. IInv => RunsAreSound
  BY DEF IInv, RunsAreSound
<1> QED BY <1>1, InvariantHolds, PTL

(* The advisory lock keeps the pages sent for any day within the daily     *)
(* cap, for any number of racing requests, books and days.                 *)
LEMMA PageCapKept == IInv => WithinPageCap
<1> SUFFICES ASSUME IInv PROVE WithinPageCap
  OBVIOUS
<1>1. ASSUME NEW d \in Day PROVE Cardinality(SentOn(d)) <= PageCap
  <2>1. SentOn(d) \subseteq ChargedOn(d)
    BY DEF SentOn, ChargedOn, IInv, TypeOK, SentPagesAreCharged
  <2>2. IsFiniteSet(ChargedOn(d)) /\ Cardinality(ChargedOn(d)) \in Nat
    <3>1. ChargedOn(d) \in SUBSET (RunId \X Page)
      BY DEF ChargedOn
    <3> QED BY <3>1, ChargesAreFinite
  <2>3. Cardinality(SentOn(d)) \in Nat /\ Cardinality(SentOn(d)) <= Cardinality(ChargedOn(d))
    BY <2>1, <2>2, FS_Subset, FS_CardinalityType
  <2>4. Cardinality(ChargedOn(d)) <= PageCap
    BY DEF IInv, ChargedWithinCap
  <2> QED BY <2>2, <2>3, <2>4, ExtractionAssumption
<1> QED BY <1>1 DEF WithinPageCap

(* No racing claim exceeds a day's budget, no delete refunds it.           *)
THEOREM BudgetKept == Spec => []BudgetHolds
<1>1. IInv => BudgetHolds
  BY PageCapKept DEF IInv, BudgetHolds
<1> QED BY <1>1, InvariantHolds, PTL

(* A settled run never changes its verdict, under a late persist, a        *)
(* settle of a reaped run, or the reaper.                                  *)
THEOREM VerdictFinal == Spec => SettledIsFinal
<1> DEFINE Final == \A r \in RunId :
      runs[r].status \in {"done", "failed"} => runs'[r].status = runs[r].status
<1>1. ASSUME IInv, Next PROVE Final
  <2>1. ASSUME NEW q \in Request, InsertRun(q) PROVE Final
    BY <2>1 DEF InsertRun, Exists, StaleRuns, RunsOf, Running
  <2>2. CASE UNCHANGED runs
    BY <2>2
  <2>3. CASE \/ \E q \in Request : Persist(q) \/ SettleFailed(q)
             \/ \E u \in Upload : DeleteBook(u)
             \/ \E r \in RunId : Age(r)
    BY <1>1, <2>3, RunsMoved DEF RunsMove, Running
  <2>4. CASE \E q \in Request : Claim(q) \/ Work(q) \/ Lost(q)
    <3>1. PICK q \in Request : Claim(q) \/ Work(q) \/ Lost(q)
      BY <2>4
    <3>2. CASE InsertRun(q)
      BY <2>1, <3>2
    <3>3. CASE Persist(q) \/ SettleFailed(q)
      BY <2>3, <3>3
    <3>4. CASE ~(InsertRun(q) \/ Persist(q) \/ SettleFailed(q))
      <4>1. UNCHANGED runs
        BY <3>1, <3>4 DEF Claim, Work, ResolveRange, CheckCap, Ocr, Throw, Lost
      <4> QED BY <2>2, <4>1
    <3> QED BY <3>2, <3>3, <3>4
  <2>5. CASE \/ \E u \in Upload : DecodePage(u) \/ WipePages(u) \/ DeleteBook(u)
             \/ \E r \in RunId : Age(r)
             \/ Midnight
    BY <2>2, <2>3, <2>5 DEF DecodePage, WipePages, Midnight
  <2> QED BY <1>1, <2>4, <2>5 DEF Next
<1>2. IInv /\ [Next]_vars => [Final]_vars
  BY <1>1 DEF vars
<1> QED BY <1>2, InvariantHolds, PTL DEF Spec, SettledIsFinal
===========================================================================
