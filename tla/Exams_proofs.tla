---------------------------- MODULE Exams_proofs ----------------------------
(***************************************************************************)
(* Proofs about both kinds of exam.  Diagnostic: for every length of the   *)
(* test, every choice of its hanja and writing items, and every number of  *)
(* requests at work.  MockExam: for every number of papers, sittings,      *)
(* items, choices, attempts, generated mocks, screens and requests.  The   *)
(* two share no variable, and neither part cites the other's definitions.  *)
(***************************************************************************)
EXTENDS Diagnostic, MockExam, FiniteSetTheorems, WellFoundedInduction, TLAPS

---------------------------------------------------------------------------
(* The diagnostic test.                                                    *)

(* Every nonempty set of natural numbers has a least element.              *)
LEMMA LeastExists ==
  ASSUME NEW S, S \subseteq Nat, S # {}
  PROVE  \E o \in S : \A p \in S : o <= p
<1>1. PICK o \in S : \A p \in S : <<p, o>> \notin OpToRel(<, Nat)
  BY WFMin, NatLessThanWellFounded, Zenon
<1>2. \A p \in S : ~ (p < o)
  BY <1>1, Zenon DEF OpToRel
<1>3. \A p \in S : o <= p
  BY <1>2
<1> QED BY <1>3, Zenon

LEMMA LowestIsIn ==
  ASSUME NEW S, S \subseteq Ordinal, S # {}
  PROVE  Lowest(S) \in S
<1>1. S \subseteq Nat
  BY DiagnosticAssumption DEF Ordinal
<1>2. \E o \in S : \A p \in S : o <= p
  BY <1>1, LeastExists
<1> QED BY <1>2 DEF Lowest

LEMMA HighestIsIn ==
  ASSUME NEW S, S \subseteq Ordinal, S # {}
  PROVE  Highest(S) \in S
<1> DEFINE T == {Target - o : o \in S}
<1>1. Target \in Nat /\ \A o \in S : o \in Nat /\ Target - o \in Nat
  BY DiagnosticAssumption DEF Ordinal
<1>2. T \subseteq Nat /\ T # {}
  BY <1>1
<1>3. \E t \in T : \A u \in T : t <= u
  BY <1>2, LeastExists
<1>4. PICK o \in S : \A p \in S : Target - o <= Target - p
  BY <1>3
<1>5. \A p \in S : p <= o
  BY <1>1, <1>4
<1> QED BY <1>5 DEF Highest

---------------------------------------------------------------------------
(* What the invariant says of the request r.                               *)
Fits(r) ==
  /\ reqs[r].pc \in {"claim", "grade", "release", "commit"} => reqs[r].item \in served
  /\ reqs[r].pc # "none" => served # {}
  /\ reqs[r].pc = "serve" => reqs[r].item \in Ordinal
  /\ reqs[r].pc = "commit" /\ ~reqs[r].graded /\ reqs[r].item \in Writing =>
       reqs[r].item \in answered
  /\ reqs[r].pc \in {"count", "rows", "close"} => reqs[r].seen.ladder \subseteq Steps
  /\ reqs[r].pc = "close" => /\ reqs[r].seen.ladder \subseteq reqs[r].seen.evidence
                             /\ reqs[r].seen.evidence \subseteq answered

LEMMA AllFit == IInv => \A r \in Request : Fits(r)
BY DEF IInv, Fits, RequestsHaveItems, UngradedIsLate, SeenIsBacked

(* What the other requests need of a step of one: nothing they rely on is  *)
(* taken from them.                                                        *)
LEMMA OthersFit ==
  ASSUME IInv, NEW q \in Request, reqs'[q] = reqs[q],
         served \subseteq served', answered \subseteq answered', Steps \subseteq Steps'
  PROVE  Fits(q)'
<1>1. Fits(q)
  BY AllFit
<1> QED BY <1>1 DEF Fits

(* A step that moves one request and nothing else.                         *)
LEMMA OneMoves ==
  ASSUME IInv, NEW r \in Request, NEW row \in RequestRow,
         reqs' = [reqs EXCEPT ![r] = row],
         UNCHANGED <<status, served, answered, ability, claim, lapsed, snapshot>>,
         Fits(r)'
  PROVE  IInv'
<1>1. reqs \in [Request -> RequestRow]
  BY DEF IInv, TypeOK
<1>2. reqs' \in [Request -> RequestRow] /\ reqs'[r] = row /\ \A q \in Request \ {r} : reqs'[q] = reqs[q]
  BY <1>1
<1>3. TypeOK'
  BY <1>2 DEF IInv, TypeOK
<1>4. Steps' = Steps
  BY DEF Steps
<1>5. RunHasItem' /\ LengthIsCount' /\ EveryAnswerCountsOnce' /\ LadderIsBacked'
  BY <1>4 DEF IInv, RunHasItem, LengthIsCount, EveryAnswerCountsOnce, LadderIsBacked
<1>6. \A q \in Request : Fits(q)'
  <2> SUFFICES ASSUME NEW q \in Request, q # r PROVE Fits(q)'
    OBVIOUS
  <2>1. Fits(q)
    BY AllFit
  <2> QED BY <1>2, <1>4, <2>1 DEF Fits
<1> QED BY <1>3, <1>5, <1>6
    DEF IInv, Fits, RequestsHaveItems, UngradedIsLate, SeenIsBacked

LEMMA EmptyRow == NoRequestRow \in RequestRow /\ NoRequestRow.pc = "none"
BY DiagnosticAssumption DEF NoRequestRow, RequestRow, NoSnapshot, Snapshot

(* A request that is over needs nothing.                                   *)
LEMMA Over ==
  ASSUME IInv, NEW r \in Request, Reply(r),
         UNCHANGED <<status, served, answered, ability, claim, lapsed, snapshot>>
  PROVE  IInv'
<1>1. reqs'[r] = NoRequestRow
  BY DEF IInv, TypeOK, Reply
<1>2. Fits(r)'
  BY <1>1, EmptyRow DEF Fits
<1> QED BY <1>2, EmptyRow, OneMoves DEF Reply

(* The steps of the estimates are about items of the test.                *)
LEMMA StepsAreOrdinals ==
  ASSUME TypeOK
  PROVE  Steps \subseteq Ordinal
<1>1. \A i \in 1..Len(ability) : ability[i] \in Step
  BY DEF TypeOK
<1>2. \A i \in 1..Len(ability) : ability[i].item \in Ordinal
  BY <1>1 DEF Step
<1> QED BY <1>2 DEF Steps

LEMMA AnswerReadsKeeps ==
  ASSUME IInv, NEW r \in Request, NEW o \in Ordinal, AnswerReads(r, o)
  PROVE  IInv'
<1> DEFINE pc == IF o \in Writing \ answered THEN "claim" ELSE "commit"
           row == [reqs[r] EXCEPT !.pc = pc, !.item = o]
<1>1. reqs[r] \in RequestRow /\ reqs \in [Request -> RequestRow] /\ pc \in {"claim", "commit"}
  BY DEF IInv, TypeOK
<1>2. row \in RequestRow /\ row.pc = pc /\ row.item = o
  <2> HIDE DEF pc
  <2>1. o \in 0..Target
    BY DiagnosticAssumption DEF Ordinal
  <2> QED BY <1>1, <2>1 DEF RequestRow
<1>3. reqs' = [reqs EXCEPT ![r] = row] /\ reqs'[r] = row
  BY <1>1 DEF AnswerReads
<1> HIDE DEF pc, row
<1>4. Fits(r)'
  BY <1>1, <1>2, <1>3 DEF Fits, AnswerReads
<1> QED BY <1>1, <1>2, <1>3, <1>4, OneMoves DEF AnswerReads

LEMMA GradedKeeps ==
  ASSUME IInv, NEW r \in Request, Graded(r)
  PROVE  IInv'
<1> DEFINE row == [reqs[r] EXCEPT !.pc = "commit", !.graded = TRUE]
<1>1. row \in RequestRow /\ reqs \in [Request -> RequestRow]
  BY DEF IInv, TypeOK, RequestRow, Snapshot, Graded
<1>2. reqs' = [reqs EXCEPT ![r] = row] /\ reqs'[r] = row
  BY <1>1 DEF Graded
<1>3. Fits(r)'
  BY <1>1, <1>2, AllFit DEF Fits, IInv, TypeOK, RunHasItem, RequestRow, Unanswered, Graded
<1> QED BY <1>1, <1>2, <1>3, OneMoves DEF Graded, RequestRow

LEMMA GradeFailsKeeps ==
  ASSUME IInv, NEW r \in Request, GradeFails(r)
  PROVE  IInv'
<1> DEFINE row == [reqs[r] EXCEPT !.pc = "release"]
<1>1. row \in RequestRow /\ reqs \in [Request -> RequestRow]
  BY DEF IInv, TypeOK, RequestRow, Snapshot, GradeFails, Goto
<1>2. reqs' = [reqs EXCEPT ![r] = row] /\ reqs'[r] = row
  BY <1>1 DEF GradeFails, Goto
<1>3. Fits(r)'
  BY <1>1, <1>2, AllFit DEF Fits, IInv, TypeOK, RunHasItem, RequestRow, Unanswered, GradeFails
<1> QED BY <1>1, <1>2, <1>3, OneMoves DEF GradeFails, RequestRow

LEMMA NextReadsRunKeeps ==
  ASSUME IInv, NEW r \in Request, NextReadsRun(r)
  PROVE  IInv'
<1> DEFINE row == [reqs[r] EXCEPT !.pc = "pending"]
<1>1. row \in RequestRow /\ reqs \in [Request -> RequestRow]
  BY DEF IInv, TypeOK, RequestRow, Snapshot, NextReadsRun, Goto
<1>2. reqs' = [reqs EXCEPT ![r] = row] /\ reqs'[r] = row
  BY <1>1 DEF NextReadsRun, Goto
<1>3. Fits(r)'
  BY <1>1, <1>2, AllFit DEF Fits, IInv, TypeOK, RunHasItem, RequestRow, Unanswered, NextReadsRun
<1> QED BY <1>1, <1>2, <1>3, OneMoves DEF NextReadsRun, RequestRow

LEMMA NextReadsPendingKeeps ==
  ASSUME IInv, NEW r \in Request, NextReadsPending(r), Unanswered = {}
  PROVE  IInv'
<1> DEFINE row == [reqs[r] EXCEPT !.pc = "max"]
<1>1. row \in RequestRow /\ reqs \in [Request -> RequestRow]
  BY DEF IInv, TypeOK, RequestRow, Snapshot, NextReadsPending, Goto
<1>2. reqs' = [reqs EXCEPT ![r] = row] /\ reqs'[r] = row
  BY <1>1 DEF NextReadsPending, Goto
<1>3. Fits(r)'
  BY <1>1, <1>2, AllFit DEF Fits, IInv, TypeOK, RunHasItem, RequestRow, Unanswered, NextReadsPending
<1> QED BY <1>1, <1>2, <1>3, OneMoves DEF NextReadsPending, RequestRow

LEMMA NextReadsMaxKeeps ==
  ASSUME IInv, NEW r \in Request, NextReadsMax(r), Highest(served) # Target
  PROVE  IInv'
<1> DEFINE row == [reqs[r] EXCEPT !.pc = "serve", !.item = Highest(served) + 1]
<1>1. served # {}
  BY AllFit DEF Fits, NextReadsMax
<1>2. Highest(served) \in Ordinal
  BY <1>1, HighestIsIn DEF IInv, TypeOK
<1>3. Highest(served) + 1 \in Ordinal
  BY <1>2, DiagnosticAssumption DEF NextReadsMax, Ordinal
<1>4. reqs[r] \in RequestRow /\ reqs \in [Request -> RequestRow]
  BY DEF IInv, TypeOK
<1>5. row \in RequestRow /\ row.pc = "serve" /\ row.item = Highest(served) + 1
  <2>1. Highest(served) + 1 \in 0..Target
    BY <1>3, DiagnosticAssumption DEF Ordinal
  <2> QED BY <1>4, <2>1 DEF RequestRow
<1>6. reqs' = [reqs EXCEPT ![r] = row] /\ reqs'[r] = row
  BY <1>4 DEF NextReadsMax
<1> HIDE DEF row
<1>7. Fits(r)'
  BY <1>1, <1>3, <1>5, <1>6 DEF Fits, NextReadsMax
<1> QED BY <1>5, <1>6, <1>7, OneMoves DEF NextReadsMax

LEMMA FinishReadsRunKeeps ==
  ASSUME IInv, NEW r \in Request, FinishReadsRun(r)
  PROVE  IInv'
<1> DEFINE row == [reqs[r] EXCEPT !.pc = "count", !.seen.ladder = Steps]
<1>1. reqs[r] \in RequestRow /\ reqs \in [Request -> RequestRow] /\ Steps \subseteq Ordinal
  BY StepsAreOrdinals DEF IInv, TypeOK
<1>2. row \in RequestRow /\ row.pc = "count" /\ row.seen.ladder = Steps
  <2>1. reqs[r].seen \in Snapshot
    BY <1>1 DEF RequestRow
  <2>2. /\ [reqs[r].seen EXCEPT !.ladder = Steps] \in Snapshot
        /\ [reqs[r].seen EXCEPT !.ladder = Steps].ladder = Steps
    BY <1>1, <2>1 DEF Snapshot
  <2> QED BY <1>1, <2>2 DEF RequestRow
<1>3. reqs' = [reqs EXCEPT ![r] = row] /\ reqs'[r] = row
  BY <1>1 DEF FinishReadsRun
<1>4. Steps' = Steps
  BY DEF FinishReadsRun, Steps
<1> HIDE DEF row
<1>5. Fits(r)'
  BY <1>2, <1>3, <1>4 DEF Fits, FinishReadsRun, IInv, RunHasItem
<1> QED BY <1>2, <1>3, <1>5, OneMoves DEF FinishReadsRun

LEMMA FinishCountsKeeps ==
  ASSUME IInv, NEW r \in Request, FinishCounts(r), Unanswered = {}
  PROVE  IInv'
<1> DEFINE row == [reqs[r] EXCEPT !.pc = "rows"]
<1>1. row \in RequestRow /\ reqs \in [Request -> RequestRow]
  BY DEF IInv, TypeOK, RequestRow, Snapshot, FinishCounts, Goto
<1>2. reqs' = [reqs EXCEPT ![r] = row] /\ reqs'[r] = row
  BY <1>1 DEF FinishCounts, Goto
<1>3. /\ row.pc = "rows" /\ row.seen = reqs[r].seen /\ row.item = reqs[r].item
      /\ Steps' = Steps /\ reqs[r].pc = "count"
      /\ UNCHANGED <<answered, served>>
  BY <1>1 DEF RequestRow, FinishCounts, Steps
<1> HIDE DEF row
<1>4. Fits(r)'
  BY <1>2, <1>3, AllFit DEF Fits, Unanswered, RunHasItem
<1> QED BY <1>1, <1>2, <1>3, <1>4, OneMoves DEF FinishCounts, RequestRow

LEMMA FinishReadsRowsKeeps ==
  ASSUME IInv, NEW r \in Request, FinishReadsRows(r)
  PROVE  IInv'
<1> DEFINE row == [reqs[r] EXCEPT !.pc = "close", !.seen.evidence = answered]
<1>1. reqs[r] \in RequestRow /\ reqs \in [Request -> RequestRow] /\ answered \subseteq Ordinal
  BY DEF IInv, TypeOK
<1>2. reqs' = [reqs EXCEPT ![r] = row] /\ reqs'[r] = row
  BY <1>1 DEF FinishReadsRows
<1>3. reqs[r].seen.ladder \subseteq Steps /\ Steps \subseteq answered /\ Steps' = Steps
  BY AllFit DEF Fits, FinishReadsRows, IInv, EveryAnswerCountsOnce, Steps
<1>4. /\ row \in RequestRow /\ row.pc = "close"
      /\ row.seen.ladder = reqs[r].seen.ladder /\ row.seen.evidence = answered
  <2> DEFINE seen == [reqs[r].seen EXCEPT !.evidence = answered]
  <2>1. reqs[r].seen \in Snapshot
    BY <1>1 DEF RequestRow
  <2>2. seen \in Snapshot /\ seen.ladder = reqs[r].seen.ladder /\ seen.evidence = answered
    BY <1>1, <2>1 DEF Snapshot
  <2> QED BY <1>1, <2>2 DEF RequestRow
<1> HIDE DEF row
<1>5. Fits(r)'
  BY <1>2, <1>3, <1>4, AllFit DEF Fits, FinishReadsRows
<1> QED BY <1>1, <1>2, <1>4, <1>5, OneMoves DEF FinishReadsRows

---------------------------------------------------------------------------
(* The request that gets the claim grades.                                 *)
LEMMA ClaimGradeKeeps ==
  ASSUME IInv, NEW r \in Request, ClaimGrade(r), MayClaim(reqs[r].item)
  PROVE  IInv'
<1> DEFINE o == reqs[r].item
<1>1. /\ reqs \in [Request -> RequestRow] /\ reqs[r] \in RequestRow
      /\ o \in served /\ o \in Ordinal /\ served # {}
      /\ claim \in [Ordinal -> Request \cup {NoRequest}]
  BY AllFit DEF Fits, ClaimGrade, IInv, TypeOK
<1>2. /\ claim' = [claim EXCEPT ![o] = r] /\ lapsed' = lapsed \ {o}
      /\ reqs' = [reqs EXCEPT ![r].pc = "grade"]
      /\ UNCHANGED <<status, served, answered, ability, snapshot>>
  BY DEF ClaimGrade, Goto
<1>3. /\ reqs'[r].pc = "grade" /\ reqs'[r].item = o /\ reqs'[r] \in RequestRow
      /\ \A q \in Request \ {r} : reqs'[q] = reqs[q]
  BY <1>1, <1>2 DEF RequestRow
<1>4. reqs' \in [Request -> RequestRow]
  BY <1>1, <1>2, <1>3
<1>5. TypeOK'
  BY <1>1, <1>2, <1>4 DEF IInv, TypeOK
<1>6. Steps' = Steps
  BY <1>2 DEF Steps
<1>7. RunHasItem' /\ LengthIsCount' /\ EveryAnswerCountsOnce' /\ LadderIsBacked'
  BY <1>2, <1>6 DEF IInv, RunHasItem, LengthIsCount, EveryAnswerCountsOnce, LadderIsBacked
<1>8. \A q \in Request : Fits(q)'
  <2> SUFFICES ASSUME NEW q \in Request PROVE Fits(q)'
    OBVIOUS
  <2>1. CASE q = r
    BY <1>1, <1>2, <1>3, <2>1 DEF Fits
  <2>2. CASE q # r
    BY <1>2, <1>3, <1>6, <2>2, OthersFit
  <2> QED BY <2>1, <2>2
<1> QED BY <1>5, <1>7, <1>8
    DEF IInv, Fits, RequestsHaveItems, UngradedIsLate, SeenIsBacked

(* The claim is taken off the row, or is left to lapse.                    *)
LEMMA ReleaseKeeps ==
  ASSUME IInv, NEW r \in Request, Release(r)
  PROVE  IInv'
<1> DEFINE o == reqs[r].item
<1>1. CASE UNCHANGED <<claim, lapsed>>
  BY <1>1, Over DEF Release
<1>2. CASE claim' = [claim EXCEPT ![o] = NoRequest] /\ lapsed' = lapsed \ {o}
  <2>1. /\ reqs \in [Request -> RequestRow] /\ o \in Ordinal
        /\ claim \in [Ordinal -> Request \cup {NoRequest}]
    BY AllFit DEF Fits, Release, IInv, TypeOK
  <2>2. UNCHANGED <<status, served, answered, ability, snapshot>>
    BY DEF Release
  <2>3. reqs'[r] = NoRequestRow /\ \A q \in Request \ {r} : reqs'[q] = reqs[q]
    BY <2>1 DEF Release, Reply
  <2>4. TypeOK'
    BY <1>2, <2>1, <2>2, EmptyRow DEF IInv, TypeOK, Release, Reply
  <2>5. Steps' = Steps
    BY <2>2 DEF Steps
  <2>6. RunHasItem' /\ LengthIsCount' /\ EveryAnswerCountsOnce' /\ LadderIsBacked'
    BY <2>2, <2>5 DEF IInv, RunHasItem, LengthIsCount, EveryAnswerCountsOnce, LadderIsBacked
  <2>7. \A q \in Request : Fits(q)'
    <3> SUFFICES ASSUME NEW q \in Request PROVE Fits(q)'
      OBVIOUS
    <3>1. CASE q = r
      BY <2>3, <3>1, EmptyRow DEF Fits
    <3>2. CASE q # r
      BY <2>2, <2>3, <2>5, <3>2, OthersFit
    <3> QED BY <3>1, <3>2
  <2> QED BY <2>4, <2>6, <2>7
      DEF IInv, Fits, RequestsHaveItems, UngradedIsLate, SeenIsBacked
<1> QED BY <1>1, <1>2 DEF Release

LEMMA LapseKeeps ==
  ASSUME IInv, NEW o \in Ordinal, Lapse(o)
  PROVE  IInv'
<1>1. /\ lapsed' = lapsed \cup {o}
      /\ UNCHANGED <<status, served, answered, ability, claim, snapshot, reqs>>
  BY DEF Lapse
<1>2. TypeOK'
  BY <1>1 DEF IInv, TypeOK
<1>3. Steps' = Steps
  BY <1>1 DEF Steps
<1>4. RunHasItem' /\ LengthIsCount' /\ EveryAnswerCountsOnce' /\ LadderIsBacked'
  BY <1>1, <1>3 DEF IInv, RunHasItem, LengthIsCount, EveryAnswerCountsOnce, LadderIsBacked
<1>5. \A q \in Request : Fits(q)'
  BY <1>1, <1>3, OthersFit
<1> QED BY <1>2, <1>4, <1>5
    DEF IInv, Fits, RequestsHaveItems, UngradedIsLate, SeenIsBacked

---------------------------------------------------------------------------
LEMMA NextServesKeeps ==
  ASSUME IInv, NEW r \in Request, NextServes(r)
  PROVE  IInv'
<1>1. CASE UNCHANGED served
  BY <1>1, Over DEF NextServes
<1>2. CASE \E o \in reqs[r].item..Target : served' = served \cup {o}
  <2>1. PICK o \in reqs[r].item..Target : served' = served \cup {o}
    BY <1>2
  <2>2. reqs \in [Request -> RequestRow] /\ o \in Ordinal /\ served # {}
    BY <2>1, AllFit, DiagnosticAssumption DEF Fits, NextServes, IInv, TypeOK, Ordinal
  <2>3. UNCHANGED <<status, answered, ability, claim, lapsed, snapshot>>
    BY DEF NextServes
  <2>4. reqs'[r] = NoRequestRow /\ \A q \in Request \ {r} : reqs'[q] = reqs[q]
    BY <2>2 DEF NextServes, Reply
  <2>5. TypeOK'
    BY <2>1, <2>2, <2>3, EmptyRow DEF IInv, TypeOK, NextServes, Reply
  <2>6. Steps' = Steps
    BY <2>3 DEF Steps
  <2>7. RunHasItem' /\ LengthIsCount' /\ EveryAnswerCountsOnce' /\ LadderIsBacked'
    BY <2>1, <2>2, <2>3, <2>4, <2>6, EmptyRow
       DEF IInv, RunHasItem, LengthIsCount, EveryAnswerCountsOnce, LadderIsBacked
  <2>8. \A q \in Request : Fits(q)'
    <3> SUFFICES ASSUME NEW q \in Request PROVE Fits(q)'
      OBVIOUS
    <3>1. CASE q = r
      BY <2>4, <3>1, EmptyRow DEF Fits
    <3>2. CASE q # r
      <4>1. Fits(q)
        BY AllFit
      <4> QED BY <2>1, <2>3, <2>4, <2>6, <3>2, <4>1, OthersFit DEF Fits
    <3> QED BY <3>1, <3>2
  <2> QED BY <2>5, <2>7, <2>8
      DEF IInv, Fits, RequestsHaveItems, UngradedIsLate, SeenIsBacked
<1> QED BY <1>1, <1>2 DEF NextServes

(* The snapshot that is written is what the request has seen.              *)
LEMMA FinishCommitsKeeps ==
  ASSUME IInv, NEW r \in Request, FinishCommits(r), Closes
  PROVE  IInv'
<1>1. /\ status' = "finished" /\ snapshot' = reqs[r].seen
      /\ UNCHANGED <<served, answered, ability, claim, lapsed>>
  BY DEF FinishCommits, Written
<1>2. /\ reqs \in [Request -> RequestRow] /\ reqs[r].seen \in Snapshot /\ served # {}
      /\ reqs[r].seen.ladder \subseteq reqs[r].seen.evidence
      /\ reqs[r].seen.evidence \subseteq answered
  BY AllFit DEF Fits, FinishCommits, IInv, TypeOK, RequestRow
<1>3. reqs'[r] = NoRequestRow /\ \A q \in Request \ {r} : reqs'[q] = reqs[q]
  BY <1>2 DEF FinishCommits, Reply
<1>4. TypeOK'
  BY <1>1, <1>2, EmptyRow DEF IInv, TypeOK, FinishCommits, Reply
<1>5. Steps' = Steps
  BY <1>1 DEF Steps
<1>6. RunHasItem' /\ LengthIsCount' /\ EveryAnswerCountsOnce' /\ LadderIsBacked'
  BY <1>1, <1>2, <1>3, <1>5, EmptyRow
     DEF IInv, RunHasItem, LengthIsCount, EveryAnswerCountsOnce, LadderIsBacked
<1>7. \A q \in Request : Fits(q)'
  <2> SUFFICES ASSUME NEW q \in Request PROVE Fits(q)'
    OBVIOUS
  <2>1. CASE q = r
    BY <1>3, <2>1, EmptyRow DEF Fits
  <2>2. CASE q # r
    <3>1. Fits(q)
      BY AllFit
    <3> QED BY <1>1, <1>3, <1>5, <2>2, <3>1, OthersFit DEF Fits
  <2> QED BY <2>1, <2>2
<1> QED BY <1>4, <1>6, <1>7
    DEF IInv, Fits, RequestsHaveItems, UngradedIsLate, SeenIsBacked

LEMMA StartKeeps ==
  ASSUME IInv, Start
  PROVE  IInv'
<1>1. served = {} /\ answered = {} /\ \A q \in Request : reqs[q].pc = "none"
  BY AllFit DEF Fits, Start, IInv, RunHasItem, TypeOK
<1>2. PICK o \in Ordinal : served' = {o}
  BY DEF Start
<1>3. status' = "in_progress" /\ UNCHANGED <<answered, ability, claim, lapsed, snapshot, reqs>>
  BY DEF Start
<1>4. TypeOK'
  BY <1>1, <1>2, <1>3 DEF IInv, TypeOK
<1>5. Steps' = Steps
  BY <1>3 DEF Steps
<1>6. RunHasItem' /\ LengthIsCount' /\ EveryAnswerCountsOnce' /\ LadderIsBacked'
  BY <1>1, <1>2, <1>3, <1>5
     DEF IInv, RunHasItem, LengthIsCount, EveryAnswerCountsOnce, LadderIsBacked
<1>7. \A q \in Request : Fits(q)'
  BY <1>1, <1>3 DEF Fits
<1> QED BY <1>4, <1>6, <1>7
    DEF IInv, Fits, RequestsHaveItems, UngradedIsLate, SeenIsBacked

LEMMA StopKeeps ==
  ASSUME IInv, Stop
  PROVE  IInv'
<1>1. /\ reqs' = [r \in Request |-> NoRequestRow]
      /\ UNCHANGED <<status, served, answered, ability, claim, lapsed, snapshot>>
  BY DEF Stop
<1>2. TypeOK'
  BY <1>1, EmptyRow DEF IInv, TypeOK
<1>3. Steps' = Steps
  BY <1>1 DEF Steps
<1>4. RunHasItem' /\ LengthIsCount' /\ EveryAnswerCountsOnce' /\ LadderIsBacked'
  BY <1>1, <1>3, EmptyRow
     DEF IInv, RunHasItem, LengthIsCount, EveryAnswerCountsOnce, LadderIsBacked
<1>5. \A q \in Request : Fits(q)'
  BY <1>1, EmptyRow DEF Fits
<1> QED BY <1>2, <1>4, <1>5
    DEF IInv, Fits, RequestsHaveItems, UngradedIsLate, SeenIsBacked

---------------------------------------------------------------------------
(* The item that is answered was not: the step it gives is a new one, and  *)
(* its number is the next.                                                 *)
LEMMA StepIsNew ==
  ASSUME IInv, NEW o \in Unanswered, o \in Core,
         answered' = answered \cup {o},
         ability' = Append(ability, [item |-> o, number |-> NextNumber])
  PROVE  /\ ability' \in Seq(Step) /\ Steps' = Steps \cup {o}
         /\ LengthIsCount' /\ EveryAnswerCountsOnce'
<1> DEFINE n == Len(ability)
           new == [item |-> o, number |-> NextNumber]
<1>1. /\ o \in Ordinal /\ o \notin answered /\ answered \subseteq Ordinal
      /\ ability \in Seq(Step) /\ n \in Nat
  BY DEF IInv, TypeOK, Unanswered
<1>2. IsFiniteSet(answered \cap Core) /\ Cardinality(answered \cap Core) = n
  <2>1. IsFiniteSet(1..Target)
    BY FS_Interval, DiagnosticAssumption
  <2>2. IsFiniteSet(answered \cap Core)
    BY <1>1, <2>1, FS_Subset DEF Ordinal
  <2> QED BY <2>2 DEF IInv, LengthIsCount
<1>3. NextNumber = n + 1 /\ new \in Step
  BY <1>1, <1>2 DEF NextNumber, Step
<1>4. answered' \cap Core = (answered \cap Core) \cup {o} /\ o \notin answered \cap Core
  BY <1>1
<1>5. Cardinality((answered \cap Core) \cup {o}) = Cardinality(answered \cap Core) + 1
  BY <1>2, <1>4, FS_AddElement
<1>6. /\ ability' \in Seq(Step) /\ Len(ability') = n + 1 /\ ability'[n + 1] = new
      /\ \A i \in 1..n : ability'[i] = ability[i]
  BY <1>1, <1>3
<1>7. 1..(n + 1) = (1..n) \cup {n + 1}
  BY <1>1
<1>8. new.item = o /\ new.number = n + 1
  BY <1>3
<1> HIDE DEF new, n
<1>9. Steps' = Steps \cup {o}
  <2>1. Steps' = {ability'[i].item : i \in 1..(n + 1)}
    BY <1>6 DEF Steps
  <2>2. Steps = {ability[i].item : i \in 1..n}
    BY DEF Steps, n
  <2> QED BY <1>6, <1>7, <1>8, <2>1, <2>2
<1>10. LengthIsCount'
  BY <1>2, <1>4, <1>5, <1>6 DEF LengthIsCount
<1>11. o \notin Steps /\ Steps = answered \cap Core
  BY <1>1 DEF IInv, EveryAnswerCountsOnce
<1>12. \A i \in 1..n : ability[i].item \in Steps /\ ability[i].number = i
  BY DEF Steps, n, IInv, EveryAnswerCountsOnce
<1>13. \A i \in 1..(n + 1) : ability'[i].number = i
  BY <1>6, <1>7, <1>8, <1>12
<1>14. \A i, j \in 1..(n + 1) : ability'[i].item = ability'[j].item => i = j
  <2> SUFFICES ASSUME NEW i \in 1..(n + 1), NEW j \in 1..(n + 1),
                      ability'[i].item = ability'[j].item
               PROVE  i = j
    OBVIOUS
  <2>1. CASE i \in 1..n /\ j \in 1..n
    BY <1>6, <2>1 DEF n, IInv, EveryAnswerCountsOnce
  <2>2. CASE i = n + 1 /\ j = n + 1
    BY <2>2
  <2>3. CASE i = n + 1 /\ j \in 1..n
    BY <1>6, <1>8, <1>11, <1>12, <2>3
  <2>4. CASE i \in 1..n /\ j = n + 1
    BY <1>6, <1>8, <1>11, <1>12, <2>4
  <2> QED BY <1>7, <2>1, <2>2, <2>3, <2>4
<1>15. EveryAnswerCountsOnce'
  BY <1>4, <1>6, <1>9, <1>11, <1>13, <1>14 DEF EveryAnswerCountsOnce
<1> QED BY <1>6, <1>9, <1>10, <1>15

(* An item of hanja is answered and moves nothing.                         *)
LEMMA HanjaCountsNot ==
  ASSUME IInv, NEW o \in Unanswered, o \notin Core,
         answered' = answered \cup {o}, UNCHANGED ability
  PROVE  /\ ability' \in Seq(Step) /\ Steps' = Steps
         /\ LengthIsCount' /\ EveryAnswerCountsOnce'
<1>1. answered' \cap Core = answered \cap Core
  OBVIOUS
<1>2. Steps' = Steps
  BY DEF Steps
<1> QED BY <1>1, <1>2 DEF IInv, TypeOK, LengthIsCount, EveryAnswerCountsOnce

LEMMA AnswerCommitsKeeps ==
  ASSUME IInv, NEW r \in Request, AnswerCommits(r), Takes(reqs[r].item)
  PROVE  IInv'
<1> DEFINE o == reqs[r].item
<1>1. o \in Unanswered /\ o \in Ordinal /\ status = "in_progress"
  BY LowestIsIn DEF Takes, Unanswered, IInv, TypeOK
<1>2. /\ answered' = answered \cup {o}
      /\ \/ claim' = [claim EXCEPT ![o] = NoRequest] /\ lapsed' = lapsed \ {o}
         \/ UNCHANGED <<claim, lapsed>>
      /\ UNCHANGED <<status, served, snapshot>>
  BY DEF AnswerCommits
<1>3. /\ ability' \in Seq(Step) /\ Steps \subseteq Steps'
      /\ LengthIsCount' /\ EveryAnswerCountsOnce'
  <2>1. CASE o \in Core
    <3>1. ability' = Append(ability, [item |-> o, number |-> NextNumber])
      BY <2>1 DEF AnswerCommits
    <3> QED BY <1>1, <1>2, <2>1, <3>1, StepIsNew
  <2>2. CASE o \notin Core
    <3>1. UNCHANGED ability
      BY <2>2 DEF AnswerCommits
    <3> QED BY <1>1, <1>2, <2>2, <3>1, HanjaCountsNot
  <2> QED BY <2>1, <2>2
<1>4. reqs \in [Request -> RequestRow]
  BY DEF IInv, TypeOK
<1>5. reqs'[r] = NoRequestRow /\ \A q \in Request \ {r} : reqs'[q] = reqs[q]
  BY <1>4 DEF AnswerCommits, Reply
<1>6. TypeOK'
  <2>1. reqs' \in [Request -> RequestRow]
    BY <1>4, EmptyRow DEF AnswerCommits, Reply
  <2> QED BY <1>1, <1>2, <1>3, <2>1 DEF IInv, TypeOK, Unanswered
<1>7. RunHasItem' /\ LadderIsBacked'
  BY <1>1, <1>2 DEF IInv, RunHasItem, LadderIsBacked
<1>8. \A q \in Request : Fits(q)'
  <2> SUFFICES ASSUME NEW q \in Request PROVE Fits(q)'
    OBVIOUS
  <2>1. CASE q = r
    BY <1>5, <2>1, EmptyRow DEF Fits
  <2>2. CASE q # r
    BY <1>2, <1>3, <1>5, <2>2, OthersFit
  <2> QED BY <2>1, <2>2
<1> QED BY <1>3, <1>6, <1>7, <1>8
    DEF IInv, Fits, RequestsHaveItems, UngradedIsLate, SeenIsBacked

---------------------------------------------------------------------------
LEMMA InitHolds == Init => IInv
<1> SUFFICES ASSUME Init PROVE IInv
  OBVIOUS
<1>1. TypeOK
  <2>1. << >> \in Seq(Step)
    OBVIOUS
  <2> QED BY <2>1, EmptyRow DEF Init, TypeOK, NoSnapshot, Snapshot
<1>2. answered \cap Core = {} /\ Cardinality({}) = 0 /\ Len(ability) = 0
  BY FS_EmptySet DEF Init
<1>3. LengthIsCount
  BY <1>2 DEF LengthIsCount
<1>4. EveryAnswerCountsOnce
  BY <1>2 DEF EveryAnswerCountsOnce, Steps
<1> QED BY <1>1, <1>3, <1>4, EmptyRow
    DEF Init, IInv, RunHasItem, RequestsHaveItems, UngradedIsLate, SeenIsBacked, LadderIsBacked

LEMMA BeginsKeeps ==
  ASSUME IInv, Begins
  PROVE  IInv'
<1>1. ASSUME NEW r \in Request, NEW o \in Ordinal, AnswerReads(r, o) PROVE IInv'
  BY <1>1, AnswerReadsKeeps
<1>2. ASSUME NEW r \in Request, NextReadsRun(r) PROVE IInv'
  BY <1>2, NextReadsRunKeeps
<1>3. ASSUME NEW r \in Request, FinishReadsRun(r) PROVE IInv'
  BY <1>3, FinishReadsRunKeeps
<1> QED BY <1>1, <1>2, <1>3 DEF Begins

LEMMA AnswersKeeps ==
  ASSUME IInv, NEW r \in Request, Answers(r)
  PROVE  IInv'
<1>1. CASE ClaimGrade(r) /\ MayClaim(reqs[r].item)
  BY <1>1, ClaimGradeKeeps
<1>2. CASE ClaimGrade(r) /\ ~MayClaim(reqs[r].item)
  BY <1>2, Over DEF ClaimGrade
<1>3. CASE Graded(r)
  BY <1>3, GradedKeeps
<1>4. CASE GradeFails(r)
  BY <1>4, GradeFailsKeeps
<1>5. CASE Release(r)
  BY <1>5, ReleaseKeeps
<1>6. CASE AnswerCommits(r) /\ Takes(reqs[r].item)
  BY <1>6, AnswerCommitsKeeps
<1>7. CASE AnswerCommits(r) /\ ~Takes(reqs[r].item)
  BY <1>7, Over DEF AnswerCommits
<1> QED BY <1>1, <1>2, <1>3, <1>4, <1>5, <1>6, <1>7 DEF Answers

LEMMA ServesKeeps ==
  ASSUME IInv, NEW r \in Request, Serves(r)
  PROVE  IInv'
<1>1. CASE NextReadsPending(r) /\ Unanswered = {}
  BY <1>1, NextReadsPendingKeeps
<1>2. CASE NextReadsPending(r) /\ Unanswered # {}
  BY <1>2, Over DEF NextReadsPending
<1>3. CASE NextReadsMax(r) /\ Highest(served) # Target
  BY <1>3, NextReadsMaxKeeps
<1>4. CASE NextReadsMax(r) /\ Highest(served) = Target
  BY <1>4, Over DEF NextReadsMax
<1>5. CASE NextServes(r)
  BY <1>5, NextServesKeeps
<1> QED BY <1>1, <1>2, <1>3, <1>4, <1>5 DEF Serves

LEMMA FinishesKeeps ==
  ASSUME IInv, NEW r \in Request, Finishes(r)
  PROVE  IInv'
<1>1. CASE FinishCounts(r) /\ Unanswered = {}
  BY <1>1, FinishCountsKeeps
<1>2. CASE FinishCounts(r) /\ Unanswered # {}
  BY <1>2, Over DEF FinishCounts
<1>3. CASE FinishReadsRows(r)
  BY <1>3, FinishReadsRowsKeeps
<1>4. CASE FinishCommits(r) /\ Closes
  BY <1>4, FinishCommitsKeeps
<1>5. CASE FinishCommits(r) /\ ~Closes
  BY <1>5, Over DEF FinishCommits
<1> QED BY <1>1, <1>2, <1>3, <1>4, <1>5 DEF Finishes

LEMMA StepKeeps ==
  ASSUME IInv, [Next]_vars
  PROVE  IInv'
<1>1. CASE Start
  BY <1>1, StartKeeps
<1>2. CASE Begins
  BY <1>2, BeginsKeeps
<1>3. ASSUME NEW r \in Request, Answers(r) \/ Serves(r) \/ Finishes(r) PROVE IInv'
  BY <1>3, AnswersKeeps, ServesKeeps, FinishesKeeps
<1>4. ASSUME NEW r \in Request, Fails(r) PROVE IInv'
  BY <1>4, Over DEF Fails
<1>5. ASSUME NEW o \in Ordinal, Lapse(o) PROVE IInv'
  BY <1>5, LapseKeeps
<1>6. CASE Stop
  BY <1>6, StopKeeps
<1>7. CASE UNCHANGED vars
  <2>1. TypeOK' /\ RunHasItem' /\ LengthIsCount' /\ LadderIsBacked'
    BY <1>7 DEF vars, IInv, TypeOK, RunHasItem, LengthIsCount, LadderIsBacked
  <2>2. Steps' = Steps
    BY <1>7 DEF vars, Steps
  <2>3. EveryAnswerCountsOnce'
    BY <1>7, <2>2 DEF vars, IInv, EveryAnswerCountsOnce
  <2>4. RequestsHaveItems' /\ UngradedIsLate' /\ SeenIsBacked'
    BY <1>7, <2>2 DEF vars, IInv, RequestsHaveItems, UngradedIsLate, SeenIsBacked
  <2> QED BY <2>1, <2>3, <2>4 DEF IInv
<1> QED BY <1>1, <1>2, <1>3, <1>4, <1>5, <1>6, <1>7 DEF Next

---------------------------------------------------------------------------
(* The inductive invariant holds in every behaviour of the run.            *)
THEOREM InvariantHolds == Spec => []IInv
BY InitHolds, StepKeeps, PTL DEF Spec

(* The variables keep their types.                                         *)
THEOREM TypeCorrect == Spec => []TypeOK
<1>1. IInv => TypeOK
  BY DEF IInv
<1> QED BY <1>1, InvariantHolds, PTL

(* However the learner's requests overlap, are repeated, die or outlast    *)
(* their claims, an answer moves the estimates once, and a writing answer  *)
(* is recorded only with its grade.                                        *)
THEOREM CountsOnce == Spec => []AnswersCountOnce
<1>1. IInv => AnswersCountOnce
  BY DEF IInv, AnswersCountOnce
<1> QED BY <1>1, InvariantHolds, PTL

(* The estimates a snapshot is scored with rest on answers it shows.       *)
THEOREM SnapshotBacked == Spec => []LadderIsBacked
<1>1. IInv => LadderIsBacked
  BY DEF IInv
<1> QED BY <1>1, InvariantHolds, PTL

(* No request under way changes a run that is finished.                    *)
THEOREM Frozen == Spec => FinishedIsFrozen
<1>1. ASSUME IInv, [Next]_vars, status = "finished"
      PROVE  UNCHANGED <<status, answered, ability, snapshot>>
  <2>1. ASSUME NEW r \in Request PROVE AnswerCommits(r) => UNCHANGED <<status, answered, ability, snapshot>>
    BY <1>1 DEF AnswerCommits, Takes
  <2>2. ASSUME NEW r \in Request PROVE FinishCommits(r) => UNCHANGED <<status, answered, ability, snapshot>>
    BY <1>1 DEF FinishCommits, Closes
  <2>3. ASSUME NEW r \in Request, Answers(r) \/ Serves(r) \/ Finishes(r)
        PROVE  UNCHANGED <<status, answered, ability, snapshot>>
    BY <2>1, <2>2, <2>3
       DEF Answers, Serves, Finishes, ClaimGrade, Graded, GradeFails, Release, NextReadsPending,
           NextReadsMax, NextServes, FinishCounts, FinishReadsRows
  <2>4. CASE Begins
    BY <2>4 DEF Begins, AnswerReads, NextReadsRun, FinishReadsRun
  <2>5. ASSUME NEW r \in Request, Fails(r) PROVE UNCHANGED <<status, answered, ability, snapshot>>
    BY <2>5 DEF Fails
  <2>6. ASSUME NEW o \in Ordinal, Lapse(o) PROVE UNCHANGED <<status, answered, ability, snapshot>>
    BY <2>6 DEF Lapse
  <2>7. CASE Start \/ Stop \/ UNCHANGED vars
    BY <1>1, <2>7 DEF Start, Stop, vars
  <2> QED BY <1>1, <2>3, <2>4, <2>5, <2>6, <2>7 DEF Next
<1>2. IInv /\ [Next]_vars => [status = "finished" => UNCHANGED <<status, answered, ability, snapshot>>]_vars
  BY <1>1
<1> QED BY <1>2, InvariantHolds, PTL DEF Spec, FinishedIsFrozen

---------------------------------------------------------------------------
(* The mock exams.  Official papers and generated mocks share no variable, *)
(* and each half of the invariant is kept by the steps of both.            *)
OfficialTypes ==
  /\ attempts \in [Attempt -> AttemptRow]
  /\ responses \subseteq [attempt : Attempt, by : Sitting, picks : Picks]
  /\ sittings \in [Sitting -> SittingRow]
  /\ wire \subseteq Message
  /\ saving \in Saving

SittingsShowGraded ==
  \A s \in Sitting : sittings[s].pc = "results" => s \in GradedSittings

OfficialFits ==
  /\ OfficialTypes
  /\ OneActive /\ SavingIsLocked /\ RequestsAreOfSittings /\ ActiveIsOfSitting
  /\ SittingsHavePaper /\ GradedIsOver /\ GraceHolds /\ (~SlowSaves => SavesMeetGrace)
  /\ GradedAsSubmitted /\ SittingsShowGraded

GeneratedTypes ==
  /\ mocks \in [Mock -> MockRow]
  /\ takers \in [Taker -> TakerRow]
  /\ mail \subseteq Mail
  /\ grading \subseteq Mail

TakersShowCompleted ==
  \A t \in Taker : takers[t].pc = "results" => mocks[takers[t].mock].status = "completed"

GeneratedFits ==
  /\ GeneratedTypes /\ AwaitedHasPicks /\ TakersHaveMock
  /\ MocksAddUp /\ TakersShowCompleted

LEMMA ExamIInvIs == ExamIInv <=> OfficialFits /\ GeneratedFits
BY DEF ExamIInv, OfficialFits, GeneratedFits, ExamTypeOK, OfficialTypes, GeneratedTypes,
  ResultsAreGraded, ShownIsGraded, SittingsShowGraded, TakersShowCompleted

LEMMA BlankIs == Blank \in Picks /\ MockBlank \in MockPicks
BY DEF Blank, Picks, MockBlank, MockPicks

(* A paper is known by its test and section and its level.                 *)
LEMMA PaperIs == \A p \in Paper : ExamOf(p) \in Exam /\ p = <<ExamOf(p), LevelOf(p)>>
BY DEF Paper, Exam, ExamOf, LevelOf

LEMMA ServedIs == \A e \in Exam : Served(e) \in Paper
BY DEF Served, Paper, Exam

LEMMA OnPaperIs == \A p, picks : picks \in Picks => OnPaper(p, picks) \in Picks
BY DEF OnPaper, Picks

(* The null rows are rows.                                                 *)
LEMMA NullRows ==
  /\ NoAttemptRow \in AttemptRow /\ NoAttemptRow.status = "none"
  /\ NoSittingRow \in SittingRow /\ NoSittingRow.pc = "unused"
  /\ NotSaving \in Saving /\ NotSaving.message.kind = "clear" /\ ~NotSaving.busy /\ ~NotSaving.locked
  /\ \A s \in Sitting \cup {NoSitting} : ClearFor(s) \in Message /\ ClearFor(s).kind = "clear"
  /\ NoMockRow \in MockRow /\ NoMockRow.status = "none"
  /\ NoTakerRow \in TakerRow /\ NoTakerRow.pc = "select"
<1>1. /\ NoAttemptRow \in AttemptRow /\ NoAttemptRow.status = "none"
      /\ NoSittingRow \in SittingRow /\ NoSittingRow.pc = "unused"
      /\ NoMockRow \in MockRow /\ NoMockRow.status = "none"
      /\ NoTakerRow \in TakerRow /\ NoTakerRow.pc = "select"
  BY BlankIs DEF NoAttemptRow, AttemptRow, NoSittingRow, SittingRow, NoMockRow, MockRow,
    NoTakerRow, TakerRow
<1>2. \A s \in Sitting \cup {NoSitting} : ClearFor(s) \in Message /\ ClearFor(s).kind = "clear"
  BY BlankIs DEF ClearFor, Message
<1>3. NotSaving \in Saving /\ NotSaving.message.kind = "clear" /\ ~NotSaving.busy /\ ~NotSaving.locked
  BY <1>2 DEF NotSaving, Saving
<1> QED BY <1>1, <1>2, <1>3

LEMMA ExamInitHolds == ExamInit => ExamIInv
<1> SUFFICES ASSUME ExamInit PROVE OfficialFits /\ GeneratedFits
  BY ExamIInvIs
<1>1. OfficialTypes /\ GeneratedTypes
  BY NullRows DEF ExamInit, OfficialTypes, GeneratedTypes
<1>2. \A a \in Attempt : attempts[a].status = "none"
  BY NullRows DEF ExamInit
<1>3. Active = {} /\ GradedSittings = {} /\ saving = NotSaving /\ wire = {} /\ responses = {}
  BY <1>2 DEF ExamInit, Active, GradedSittings
<1>4. \A s \in Sitting : sittings[s].pc = "unused"
  BY NullRows DEF ExamInit
<1>5. OneActive /\ SavingIsLocked /\ RequestsAreOfSittings /\ ActiveIsOfSitting
  <2>1. saving.message.kind = "clear" /\ ~saving.busy /\ ~saving.locked
    BY <1>3, NullRows
  <2>2. NotSaving.locked = NotSaving.busy
    BY DEF NotSaving
  <2>3. SavingIsLocked
    BY <1>3, <2>1, <2>2 DEF SavingIsLocked
  <2> QED BY <1>3, <2>1, <2>3 DEF OneActive, RequestsAreOfSittings, ActiveIsOfSitting
<1>6. SittingsHavePaper /\ GradedIsOver /\ GraceHolds /\ SavesMeetGrace
  BY <1>3, <1>4, NullRows DEF SittingsHavePaper, GradedIsOver, GraceHolds, SavesMeetGrace
<1>7. GradedAsSubmitted /\ SittingsShowGraded
  BY <1>2, <1>3, <1>4 DEF GradedAsSubmitted, SittingsShowGraded
<1>8. \A k \in Mock : mocks[k].status = "none"
  BY NullRows DEF ExamInit
<1>9. \A t \in Taker : takers[t].pc = "select"
  BY NullRows DEF ExamInit
<1>10. AwaitedHasPicks
  BY DEF ExamInit, AwaitedHasPicks
<1>11. TakersHaveMock /\ TakersShowCompleted
  BY <1>9 DEF TakersHaveMock, TakersShowCompleted
<1>12. MocksAddUp
  BY <1>8, <1>9 DEF MocksAddUp, OneInProgress, InProgress, ScoredAsPicked
<1> QED BY <1>1, <1>5, <1>6, <1>7, <1>10, <1>11, <1>12 DEF OfficialFits, GeneratedFits

---------------------------------------------------------------------------
(* A screen moves on: what it may do to its sitting and to the requests.   *)
SameRequest(m, n) ==
  m.kind = n.kind /\ m.by = n.by /\ m.paper = n.paper /\ m.picks = n.picks
SentNow(m, s, row) ==
  /\ m.by = s /\ m.paper = row.paper
  /\ m.kind \in {"put", "submit"}
  /\ m.kind = "put" => sittings[s].pc \in {"unused", "exam"}
  /\ m.kind = "submit" => row.pc # "exam" /\ m.picks = row.picks
GoesOn(old, new) ==
  /\ new.pc \notin {"unused", "results"} /\ new.paper \in Paper
  /\ old.pc # "unused" => new.paper = old.paper
  /\ old.pc \notin {"unused", "exam"} => new.pc # "exam" /\ new.picks = old.picks

LEMMA ScreenKeeps ==
  ASSUME OfficialFits, NEW s \in Sitting, NEW row \in SittingRow,
         sittings' = [sittings EXCEPT ![s] = row], UNCHANGED <<attempts, responses, saving>>,
         GoesOn(sittings[s], row), wire' \subseteq Message,
         \A m \in wire' : \/ m.kind = "clear" \/ SentNow(m, s, row)
                          \/ \E n \in wire : SameRequest(m, n)
  PROVE  OfficialFits'
<1>1. /\ sittings' \in [Sitting -> SittingRow] /\ sittings \in [Sitting -> SittingRow]
      /\ sittings'[s] = row /\ \A z \in Sitting \ {s} : sittings'[z] = sittings[z]
  BY DEF OfficialFits, OfficialTypes
<1>2. OfficialTypes'
  BY <1>1 DEF OfficialFits, OfficialTypes
<1>3. /\ Active' = Active /\ GradedSittings' = GradedSittings
      /\ \A e : FreshlyCompleted(e)' <=> FreshlyCompleted(e)
  BY DEF Active, GradedSittings, FreshlyCompleted, IsOf
<1>4. \A z \in Sitting : GoesOn(sittings[z], sittings'[z]) \/ sittings'[z] = sittings[z]
  BY <1>1
<1>5. OneActive' /\ SavingIsLocked' /\ GraceHolds'
  BY <1>3 DEF OfficialFits, OneActive, SavingIsLocked, GraceHolds
<1>6. GradedSittings \subseteq Sitting /\ \A z \in GradedSittings : sittings[z].pc \notin {"unused", "exam"}
  BY DEF OfficialFits, OfficialTypes, GradedSittings, GradedIsOver
<1>7. GradedIsOver'
  BY <1>3, <1>4, <1>6 DEF GradedIsOver, GoesOn
<1>8. ActiveIsOfSitting'
  BY <1>3, <1>4 DEF OfficialFits, ActiveIsOfSitting, GoesOn
<1>9. RequestsAreOfSittings'
  <2> SUFFICES ASSUME NEW m \in wire' \cup {saving.message}, m.kind # "clear"
               PROVE  /\ m.by \in Sitting /\ sittings'[m.by].pc # "unused"
                      /\ m.paper = sittings'[m.by].paper
                      /\ m.kind = "submit" => sittings'[m.by].pc # "exam" /\ m.picks = sittings'[m.by].picks
    BY DEF RequestsAreOfSittings
  <2>1. CASE m \in wire' /\ SentNow(m, s, row)
    BY <2>1, <1>1 DEF SentNow, GoesOn
  <2>2. ASSUME NEW n \in wire \cup {saving.message}, SameRequest(m, n)
        PROVE  /\ m.by \in Sitting /\ sittings'[m.by].pc # "unused"
               /\ m.paper = sittings'[m.by].paper
               /\ m.kind = "submit" => sittings'[m.by].pc # "exam" /\ m.picks = sittings'[m.by].picks
    <3>1. /\ m.by \in Sitting /\ sittings[m.by].pc # "unused" /\ m.paper = sittings[m.by].paper
          /\ m.kind = "submit" => sittings[m.by].pc # "exam" /\ m.picks = sittings[m.by].picks
      BY <2>2 DEF OfficialFits, RequestsAreOfSittings, SameRequest
    <3> QED BY <3>1, <1>4 DEF GoesOn
  <2>3. CASE m = saving.message
    BY <2>2, <2>3 DEF SameRequest
  <2> QED BY <2>1, <2>2, <2>3
<1>10. ASSUME ~SlowSaves PROVE SavesMeetGrace'
  <2>1. SavesMeetGrace
    BY <1>10 DEF OfficialFits
  <2>2. ASSUME NEW m \in wire', m.kind = "put", m.by \in GradedSittings
        PROVE  FreshlyCompleted(ExamOf(m.paper))
    <3>1. ~SentNow(m, s, row)
      BY <2>2, <1>6 DEF SentNow
    <3>2. PICK n \in wire : SameRequest(m, n)
      BY <2>2, <3>1
    <3> QED BY <2>1, <2>2, <3>2 DEF SavesMeetGrace, SameRequest
  <2> QED BY <1>3, <2>1, <2>2 DEF SavesMeetGrace
<1>11. GradedAsSubmitted'
  <2>1. \A x \in responses : x.by \in GradedSittings /\ x.by \in Sitting
    BY DEF GradedSittings, OfficialFits, OfficialTypes
  <2>2. \A x \in responses : sittings'[x.by].paper = sittings[x.by].paper
                             /\ sittings'[x.by].picks = sittings[x.by].picks
    BY <2>1, <1>4, <1>6 DEF GoesOn
  <2> QED BY <2>2 DEF OfficialFits, GradedAsSubmitted
<1>12. SittingsShowGraded' /\ SittingsHavePaper'
  BY <1>3, <1>4 DEF OfficialFits, SittingsShowGraded, SittingsHavePaper, GoesOn
<1> QED BY <1>2, <1>5, <1>7, <1>8, <1>9, <1>10, <1>11, <1>12 DEF OfficialFits

(* What a screen sends is of its sitting.                                  *)
LEMMA SentIs ==
  ASSUME NEW s \in Sitting, NEW row \in SittingRow, sittings'[s] = row, NEW kind \in {"put", "submit"},
         kind = "put" => sittings[s].pc \in {"unused", "exam"},
         kind = "submit" => row.pc # "exam"
  PROVE  MessageOf(s, kind) \in Message /\ SentNow(MessageOf(s, kind), s, row)
<1>1. MessageOf(s, kind) = [kind |-> kind, by |-> s, paper |-> row.paper, picks |-> row.picks,
                            awaited |-> kind = "submit"]
  BY DEF MessageOf
<1>2. row.paper \in Paper \cup {NoPaper} /\ row.picks \in Picks
  BY DEF SittingRow
<1>3. MessageOf(s, kind) \in Message
  BY <1>1, <1>2 DEF Message
<1> QED BY <1>1, <1>3 DEF SentNow

LEMMA UnawaitedAre ==
  ASSUME OfficialTypes, NEW s
  PROVE  /\ Unawaited(wire, s) \subseteq Message
         /\ \A m \in Unawaited(wire, s) : \E n \in wire : SameRequest(m, n)
<1>1. ASSUME NEW n \in wire
      PROVE  /\ [n EXCEPT !.awaited = FALSE] \in Message
             /\ SameRequest([n EXCEPT !.awaited = FALSE], n)
             /\ n \in Message /\ SameRequest(n, n)
  BY DEF OfficialTypes, Message, SameRequest
<1> QED BY <1>1 DEF Unawaited

(* Requests that are lost, or are about to clear, change nothing else.     *)
LEMMA WireKeeps ==
  ASSUME OfficialFits, UNCHANGED <<attempts, responses, sittings, saving>>, wire' \subseteq Message,
         \A m \in wire' : m.kind = "clear" \/ m \in wire
  PROVE  OfficialFits'
<1>1. /\ Active' = Active /\ GradedSittings' = GradedSittings
      /\ \A e : FreshlyCompleted(e)' <=> FreshlyCompleted(e)
  BY DEF Active, GradedSittings, FreshlyCompleted, IsOf
<1>2. OfficialTypes'
  BY DEF OfficialFits, OfficialTypes
<1>3. OneActive' /\ SavingIsLocked' /\ GraceHolds' /\ ActiveIsOfSitting' /\ GradedIsOver'
  BY <1>1 DEF OfficialFits, OneActive, SavingIsLocked, GraceHolds, ActiveIsOfSitting, GradedIsOver
<1>4. RequestsAreOfSittings'
  BY DEF OfficialFits, RequestsAreOfSittings
<1>5. ASSUME ~SlowSaves PROVE SavesMeetGrace'
  BY <1>1, <1>5 DEF OfficialFits, SavesMeetGrace
<1>6. GradedAsSubmitted' /\ SittingsShowGraded' /\ SittingsHavePaper'
  BY <1>1 DEF OfficialFits, GradedAsSubmitted, SittingsShowGraded, SittingsHavePaper
<1> QED BY <1>2, <1>3, <1>4, <1>5, <1>6 DEF OfficialFits

LEMMA ScreensKeep ==
  ASSUME OfficialFits, Screens
  PROVE  OfficialFits'
<1> DEFINE Row(s) == sittings[s]
<1>1. \A s \in Sitting : Row(s) \in SittingRow
  BY DEF OfficialFits, OfficialTypes
<1>2. wire \subseteq Message
  BY DEF OfficialFits, OfficialTypes
<1>3. ASSUME NEW s \in Sitting, NEW row \in SittingRow, sittings' = [sittings EXCEPT ![s] = row]
      PROVE  sittings'[s] = row
  BY <1>3 DEF OfficialFits, OfficialTypes
(* A screen that saves.                                                    *)
<1>4. ASSUME NEW s \in Sitting, NEW row \in SittingRow, sittings' = [sittings EXCEPT ![s] = row],
             GoesOn(Row(s), row), UNCHANGED <<attempts, responses, saving>>,
             NEW kind \in {"put", "submit"}, Send({MessageOf(s, kind)}),
             kind = "put" => Row(s).pc \in {"unused", "exam"},
             kind = "submit" => row.pc # "exam"
      PROVE  OfficialFits'
  <2>1. wire' = wire \cup {MessageOf(s, kind)}
    BY <1>4 DEF Send
  <2>2. MessageOf(s, kind) \in Message /\ SentNow(MessageOf(s, kind), s, row)
    BY <1>3, <1>4, SentIs
  <2>3. \A m \in wire : SameRequest(m, m)
    BY DEF SameRequest
  <2> HIDE DEF Row
  <2> QED BY <1>2, <1>4, <2>1, <2>2, <2>3, ScreenKeeps DEF Row
<1>5. ASSUME NEW s \in Sitting, NEW row \in SittingRow, sittings' = [sittings EXCEPT ![s] = row],
             GoesOn(Row(s), row), UNCHANGED <<attempts, responses, saving>>,
             wire' = Unawaited(wire, s)
      PROVE  OfficialFits'
  BY <1>5, UnawaitedAre, ScreenKeeps DEF OfficialFits
<1>6. ASSUME NEW s \in Sitting, Resume(s) PROVE OfficialFits'
  <2>1. PICK a \in Active : sittings' = [sittings EXCEPT ![s] =
          [pc |-> "exam", paper |-> Served(ExamOf(attempts[a].paper)),
           picks |-> attempts[a].picks]]
    BY <1>6 DEF Resume
  <2> DEFINE paper == Served(ExamOf(attempts[a].paper))
             row == [pc |-> "exam", paper |-> paper, picks |-> attempts[a].picks]
  <2>2. paper \in Paper
    <3>1. attempts[a].paper \in Paper
      BY DEF OfficialFits, ActiveIsOfSitting, SittingsHavePaper
    <3> QED BY <3>1, PaperIs, ServedIs
  <2>3. attempts[a].picks \in Picks
    BY DEF Active, OfficialFits, OfficialTypes, AttemptRow
  <2> HIDE DEF paper
  <2>4. row \in SittingRow
    BY <2>2, <2>3 DEF SittingRow
  <2>5. GoesOn(Row(s), row)
    BY <1>6, <2>2 DEF Resume, GoesOn
  <2>6. sittings' = [sittings EXCEPT ![s] = row]
    BY <2>1 DEF paper
  <2> QED BY <1>4, <1>6, <2>4, <2>5, <2>6 DEF Resume, Put, generated
<1>7. ASSUME NEW s \in Sitting, Autosave(s) PROVE OfficialFits'
  <2>1. sittings' = [sittings EXCEPT ![s] = Row(s)]
    BY <1>7 DEF Autosave, OfficialFits, OfficialTypes
  <2>2. GoesOn(Row(s), Row(s))
    BY <1>7 DEF Autosave, GoesOn, OfficialFits, SittingsHavePaper
  <2> QED BY <1>1, <1>4, <1>7, <2>1, <2>2 DEF Autosave, Put, generated
<1>8. ASSUME NEW s \in Sitting, NEW pc \in {"submitting", "error", "left"},
             Row(s).pc # "unused"
      PROVE  LET row == [Row(s) EXCEPT !.pc = pc] IN
             row \in SittingRow /\ row.pc = pc /\ GoesOn(Row(s), row)
  BY <1>1, <1>8 DEF SittingRow, GoesOn, OfficialFits, SittingsHavePaper
<1>9. ASSUME NEW s \in Sitting, Submit(s) PROVE OfficialFits'
  <2> DEFINE row == [Row(s) EXCEPT !.pc = "submitting"]
  <2>1. row \in SittingRow /\ row.pc = "submitting" /\ GoesOn(Row(s), row)
    BY <1>8, <1>9 DEF Submit
  <2>2. sittings' = [sittings EXCEPT ![s] = row]
    BY <1>9 DEF Submit
  <2> QED BY <1>4, <1>9, <2>1, <2>2 DEF Submit, generated
<1>10. ASSUME NEW s \in Sitting, SubmitFails(s) PROVE OfficialFits'
  <2> DEFINE row == [Row(s) EXCEPT !.pc = "error"]
  <2>1. row \in SittingRow /\ GoesOn(Row(s), row)
    BY <1>8, <1>10 DEF SubmitFails
  <2>2. sittings' = [sittings EXCEPT ![s] = row]
    BY <1>10 DEF SubmitFails
  <2> QED BY <1>5, <1>10, <2>1, <2>2 DEF SubmitFails, generated
<1>11. ASSUME NEW s \in Sitting, Leave(s) PROVE OfficialFits'
  <2> DEFINE row == [Row(s) EXCEPT !.pc = "left"]
  <2>1. row \in SittingRow /\ row.pc = "left" /\ GoesOn(Row(s), row)
    BY <1>8, <1>11 DEF Leave
  <2>2. sittings' = [sittings EXCEPT ![s] = row]
    BY <1>11 DEF Leave
  <2>3. CASE Row(s).pc = "exam"
    BY <1>4, <1>11, <2>1, <2>2, <2>3 DEF Leave, Put, generated
  <2>4. CASE Row(s).pc # "exam"
    BY <1>5, <1>11, <2>1, <2>2, <2>4 DEF Leave, generated
  <2> QED BY <2>3, <2>4
<1>12. ASSUME NEW s \in Sitting, NEW p \in Paper, StartSection(s, p) PROVE OfficialFits'
  <2> DEFINE row == [pc |-> "exam", paper |-> p, picks |-> Blank]
  <2>1. row \in SittingRow /\ GoesOn(Row(s), row)
    BY <1>12, BlankIs DEF StartSection, SittingRow, GoesOn
  <2> QED BY <1>4, <1>12, <2>1 DEF StartSection, Put, generated
<1>13. ASSUME NEW s \in Sitting, NEW i \in Item, NEW c \in Choice, Answer(s, i, c) PROVE OfficialFits'
  <2> DEFINE q == <<Row(s).paper, i>>
             row == [Row(s) EXCEPT !.picks = [Row(s).picks EXCEPT ![q] = c]]
  <2>1. row \in SittingRow /\ GoesOn(Row(s), row)
    <3>1. Row(s).picks \in Picks /\ Row(s).pc = "exam" /\ Row(s).paper \in Paper
      BY <1>1, <1>13 DEF Answer, SittingRow, OfficialFits, SittingsHavePaper
    <3>2. [Row(s).picks EXCEPT ![q] = c] \in Picks
      BY <3>1 DEF Picks
    <3>3. row \in SittingRow /\ row.pc = "exam" /\ row.paper = Row(s).paper
      BY <1>1, <3>1, <3>2 DEF SittingRow
    <3> QED BY <3>1, <3>3 DEF GoesOn
  <2>2. sittings' = [sittings EXCEPT ![s] = row]
    BY <1>13 DEF Answer
  <2> QED BY <1>4, <1>13, <2>1, <2>2 DEF Answer, Put, generated
<1>14. CASE Discard
  <2>1. wire' = wire \cup {ClearFor(NoSitting)}
    BY <1>14 DEF Discard, Send
  <2>2. ClearFor(NoSitting) \in Message /\ ClearFor(NoSitting).kind = "clear"
    BY NullRows
  <2>3. UNCHANGED <<attempts, responses, sittings, saving>>
    BY <1>14 DEF Discard
  <2> QED BY <1>2, <2>1, <2>2, <2>3, WireKeeps
<1>15. ASSUME NEW s \in Sitting,
               Resume(s) \/ Autosave(s) \/ Submit(s) \/ SubmitFails(s) \/ Leave(s)
       PROVE  OfficialFits'
  BY <1>6, <1>7, <1>9, <1>10, <1>11, <1>15
<1> QED BY <1>12, <1>13, <1>14, <1>15, Zenon DEF Screens

---------------------------------------------------------------------------
(* The routes of official exams.                                           *)
LEMMA NextIsUnused == \A a \in NextAttempt : a \in Attempt /\ attempts[a].status = "none"
<1> SUFFICES ASSUME NEW a \in NextAttempt PROVE a \in Attempt /\ attempts[a].status = "none"
  OBVIOUS
<1>1. a \in Attempt /\ (attempts[a].status = "none" <=> a >= a)
  BY Zenon DEF NextAttempt
<1>2. a >= a
  BY <1>1, MockExamAssumption
<1> QED BY <1>1, <1>2, Zenon

LEMMA PutBeginsKeeps ==
  ASSUME OfficialFits, NEW m \in wire, PutBegins(m)
  PROVE  OfficialFits'
<1>1. /\ m.kind = "put" /\ wire' = wire \ {m} /\ UNCHANGED <<attempts, responses, sittings>>
      /\ saving' = [busy |-> TRUE, locked |-> TRUE, allowed |-> ~FreshlyCompleted(ExamOf(m.paper)),
                    message |-> m]
  BY DEF PutBegins
<1>2. /\ saving'.busy /\ saving'.locked /\ saving'.message = m
      /\ saving'.allowed <=> ~FreshlyCompleted(ExamOf(m.paper))
  BY <1>1
<1>3. /\ Active' = Active /\ GradedSittings' = GradedSittings
      /\ \A e : FreshlyCompleted(e)' <=> FreshlyCompleted(e)
  BY <1>1 DEF Active, GradedSittings, FreshlyCompleted, IsOf
<1>4. OfficialTypes'
  BY <1>1 DEF OfficialFits, OfficialTypes, Saving
<1>5. OneActive' /\ ActiveIsOfSitting' /\ GradedIsOver'
  BY <1>1, <1>3 DEF OfficialFits, OneActive, ActiveIsOfSitting, GradedIsOver
<1>6. SavingIsLocked'
  BY <1>1 DEF SavingIsLocked
<1>7. RequestsAreOfSittings'
  BY <1>1, <1>2 DEF OfficialFits, RequestsAreOfSittings
<1>8. GraceHolds'
  BY <1>1, <1>2, <1>3 DEF OfficialFits, GraceHolds
<1>9. ASSUME ~SlowSaves PROVE SavesMeetGrace'
  BY <1>1, <1>2, <1>3, <1>9 DEF OfficialFits, SavesMeetGrace
<1>10. GradedAsSubmitted' /\ SittingsShowGraded' /\ SittingsHavePaper'
  BY <1>1, <1>3 DEF OfficialFits, GradedAsSubmitted, SittingsShowGraded, SittingsHavePaper
<1> QED BY <1>4, <1>5, <1>6, <1>7, <1>8, <1>9, <1>10 DEF OfficialFits

LEMMA PutAbortsKeeps ==
  ASSUME OfficialFits, saving' = NotSaving, UNCHANGED <<attempts, responses, sittings, wire>>
  PROVE  OfficialFits'
<1>1. /\ saving' \in Saving /\ saving'.message.kind = "clear" /\ ~saving'.busy
      /\ saving'.locked = saving'.busy
  BY NullRows DEF NotSaving
<1>2. /\ Active' = Active /\ GradedSittings' = GradedSittings
      /\ \A e : FreshlyCompleted(e)' <=> FreshlyCompleted(e)
  BY DEF Active, GradedSittings, FreshlyCompleted, IsOf
<1>3. OfficialTypes'
  BY <1>1 DEF OfficialFits, OfficialTypes
<1>4. OneActive' /\ ActiveIsOfSitting' /\ GradedIsOver' /\ SavingIsLocked' /\ GraceHolds'
  BY <1>1, <1>2
     DEF OfficialFits, OneActive, ActiveIsOfSitting, GradedIsOver, SavingIsLocked, GraceHolds
<1>5. RequestsAreOfSittings'
  BY <1>1 DEF OfficialFits, RequestsAreOfSittings
<1>6. ASSUME ~SlowSaves PROVE SavesMeetGrace'
  BY <1>1, <1>2, <1>6 DEF OfficialFits, SavesMeetGrace
<1>7. GradedAsSubmitted' /\ SittingsShowGraded' /\ SittingsHavePaper'
  BY <1>2 DEF OfficialFits, GradedAsSubmitted, SittingsShowGraded, SittingsHavePaper
<1> QED BY <1>3, <1>4, <1>5, <1>6, <1>7 DEF OfficialFits

(* The write goes to the one active attempt, or makes one.                 *)
LEMMA PutWritesKeeps ==
  ASSUME OfficialFits, PutWrites
  PROVE  OfficialFits'
<1>1. saving.busy /\ saving' = NotSaving /\ UNCHANGED <<responses, sittings, wire>>
  BY DEF PutWrites
<1>2. CASE ~saving.allowed
  BY <1>1, <1>2, PutAbortsKeeps DEF PutWrites
<1>3. CASE saving.allowed
  <2> DEFINE m == saving.message
  <2>1. PICK a \in Attempt :
          /\ attempts' = [attempts EXCEPT ![a] = Saved(m)]
          /\ a \in Active \/ (Active = {} /\ a \in NextAttempt)
    <3>1. CASE Active # {}
      BY <1>3, <3>1 DEF PutWrites, Active
    <3>2. CASE Active = {}
      BY <1>3, <3>2, NextIsUnused DEF PutWrites
    <3> QED BY <3>1, <3>2
  <2>2. attempts[a].status \in {"none", "active"} /\ Active \subseteq {a}
    BY <2>1, NextIsUnused DEF Active, OfficialFits, OneActive
  <2>3. /\ m \in Message /\ m.kind = "put" /\ m.by \in Sitting /\ sittings[m.by].pc # "unused"
        /\ m.paper = sittings[m.by].paper
    BY <1>1 DEF OfficialFits, OfficialTypes, Saving, SavingIsLocked, RequestsAreOfSittings
  <2>4. /\ Saved(m) \in AttemptRow /\ Saved(m).status = "active" /\ Saved(m).paper = m.paper
        /\ Saved(m).by = m.by
    BY <2>3 DEF Saved, AttemptRow, Message
  <2>5. /\ attempts' \in [Attempt -> AttemptRow] /\ attempts'[a] = Saved(m)
        /\ \A b \in Attempt \ {a} : attempts'[b] = attempts[b]
    BY <2>1, <2>4 DEF OfficialFits, OfficialTypes
  <2>6. Active' = {a}
    BY <2>2, <2>4, <2>5 DEF Active
  <2>7. \A e : FreshlyCompleted(e)' <=> FreshlyCompleted(e)
    BY <2>2, <2>4, <2>5 DEF FreshlyCompleted, IsOf
  <2>8. GradedSittings' = GradedSittings
    BY <1>1 DEF GradedSittings
  <2>9. /\ saving' \in Saving /\ saving'.message.kind = "clear" /\ ~saving'.busy
        /\ saving'.locked = saving'.busy
    BY <1>1, NullRows DEF NotSaving
  <2>10. OfficialTypes'
    BY <1>1, <2>5, <2>9 DEF OfficialFits, OfficialTypes
  <2>11. OneActive' /\ SavingIsLocked'
    BY <2>6, <2>9 DEF OneActive, SavingIsLocked
  <2>12. ActiveIsOfSitting'
    BY <1>1, <2>3, <2>4, <2>5, <2>6 DEF ActiveIsOfSitting
  <2>13. RequestsAreOfSittings' /\ GradedIsOver'
    BY <1>1, <2>8, <2>9 DEF OfficialFits, RequestsAreOfSittings, GradedIsOver
  <2>14. GraceHolds'
    BY <1>1, <1>3, <2>4, <2>5, <2>6, <2>7, <2>9 DEF OfficialFits, GraceHolds
  <2>15. ASSUME ~SlowSaves PROVE SavesMeetGrace'
    BY <1>1, <1>3, <2>4, <2>5, <2>6, <2>7, <2>8, <2>9, <2>15 DEF OfficialFits, SavesMeetGrace
  <2>16. GradedAsSubmitted'
    <3>1. \A x \in responses : x.attempt \in Attempt \ {a}
      BY <2>2 DEF OfficialFits, OfficialTypes, GradedAsSubmitted
    <3> QED BY <1>1, <2>4, <2>5, <3>1 DEF OfficialFits, GradedAsSubmitted
  <2>17. SittingsShowGraded' /\ SittingsHavePaper'
    BY <1>1, <2>8 DEF OfficialFits, SittingsShowGraded, SittingsHavePaper
  <2> QED BY <2>10, <2>11, <2>12, <2>13, <2>14, <2>15, <2>16, <2>17 DEF OfficialFits
<1> QED BY <1>2, <1>3

LEMMA ClearKeeps ==
  ASSUME OfficialFits, NEW m \in wire, Clear(m)
  PROVE  OfficialFits'
<1>1. /\ wire' = wire \ {m} /\ UNCHANGED <<responses, sittings, saving>>
      /\ attempts' = [a \in Attempt |-> IF a \in Active
           THEN [attempts[a] EXCEPT !.status = "abandoned"] ELSE attempts[a]]
  BY DEF Clear
<1>2. \A a \in Attempt : /\ attempts[a] \in AttemptRow /\ attempts'[a] \in AttemptRow
                         /\ attempts'[a].paper = attempts[a].paper
                         /\ attempts'[a].fresh = attempts[a].fresh
  BY <1>1 DEF OfficialFits, OfficialTypes, AttemptRow
<1>3. \A a \in Attempt : /\ attempts'[a].status # "active"
                         /\ attempts'[a].status = "completed" <=> attempts[a].status = "completed"
  BY <1>1, <1>2 DEF Active, AttemptRow
<1>4. /\ Active' = {} /\ GradedSittings' = GradedSittings
      /\ \A e : FreshlyCompleted(e)' <=> FreshlyCompleted(e)
  BY <1>1, <1>2, <1>3 DEF Active, GradedSittings, FreshlyCompleted, IsOf
<1>5. OfficialTypes'
  BY <1>1, <1>2 DEF OfficialFits, OfficialTypes
<1>6. OneActive' /\ ActiveIsOfSitting' /\ GradedIsOver' /\ SavingIsLocked' /\ GraceHolds'
  BY <1>1, <1>4
     DEF OfficialFits, OneActive, ActiveIsOfSitting, GradedIsOver, SavingIsLocked, GraceHolds
<1>7. RequestsAreOfSittings'
  BY <1>1 DEF OfficialFits, RequestsAreOfSittings
<1>8. ASSUME ~SlowSaves PROVE SavesMeetGrace'
  BY <1>1, <1>4, <1>8 DEF OfficialFits, SavesMeetGrace
<1>9. GradedAsSubmitted' /\ SittingsShowGraded' /\ SittingsHavePaper'
  BY <1>1, <1>2, <1>3, <1>4
     DEF OfficialFits, OfficialTypes, GradedAsSubmitted, SittingsShowGraded,
         SittingsHavePaper
<1> QED BY <1>5, <1>6, <1>7, <1>8, <1>9 DEF OfficialFits

LEMMA AgeKeeps ==
  ASSUME OfficialFits, NEW a \in Attempt, Age(a)
  PROVE  OfficialFits'
<1>1. /\ attempts' = [attempts EXCEPT ![a].fresh = FALSE]
      /\ UNCHANGED <<responses, sittings, wire, saving>>
      /\ SlowSaves \/ \A m \in wire : ~(m.kind = "put" /\ m.by \in GradedSittings)
  BY DEF Age
<1>2. \A b \in Attempt : /\ attempts'[b] \in AttemptRow
                         /\ attempts'[b].paper = attempts[b].paper
                         /\ attempts'[b].status = attempts[b].status
                         /\ attempts'[b].by = attempts[b].by
                         /\ attempts'[b].fresh => attempts[b].fresh
  BY <1>1 DEF OfficialFits, OfficialTypes, AttemptRow
<1>3. attempts' \in [Attempt -> AttemptRow]
  BY <1>1, <1>2 DEF OfficialFits, OfficialTypes
<1>4. /\ Active' = Active /\ GradedSittings' = GradedSittings
      /\ \A e : FreshlyCompleted(e)' => FreshlyCompleted(e)
  BY <1>1, <1>2 DEF Active, GradedSittings, FreshlyCompleted, IsOf
<1>5. OfficialTypes'
  BY <1>1, <1>3 DEF OfficialFits, OfficialTypes
<1>6. Active \subseteq Attempt
  BY DEF Active
<1>7. OneActive' /\ ActiveIsOfSitting' /\ GradedIsOver' /\ SavingIsLocked' /\ GraceHolds'
  BY <1>1, <1>2, <1>4, <1>6
     DEF OfficialFits, OneActive, ActiveIsOfSitting, GradedIsOver, SavingIsLocked, GraceHolds
<1>8. RequestsAreOfSittings'
  BY <1>1 DEF OfficialFits, RequestsAreOfSittings
<1>9. ASSUME ~SlowSaves PROVE SavesMeetGrace'
  BY <1>1, <1>2, <1>4, <1>6, <1>9 DEF OfficialFits, SavesMeetGrace
<1>10. GradedAsSubmitted' /\ SittingsShowGraded' /\ SittingsHavePaper'
  BY <1>1, <1>2, <1>4
     DEF OfficialFits, OfficialTypes, GradedAsSubmitted, SittingsShowGraded,
         SittingsHavePaper
<1> QED BY <1>5, <1>7, <1>8, <1>9, <1>10 DEF OfficialFits

(* A submission completes the active attempt of its test and section or a  *)
(* new one, and no attempt of them is active any more.                     *)
LEMMA GradeKeeps ==
  ASSUME OfficialFits, NEW m \in wire, Grade(m)
  PROVE  OfficialFits'
<1> DEFINE exam == ExamOf(m.paper)
<1>1. m.kind = "submit" /\ ~saving.busy /\ UNCHANGED saving
  BY DEF Grade, OfficialFits, SavingIsLocked
<1>2. /\ m \in Message /\ m.by \in Sitting /\ sittings[m.by].pc \notin {"unused", "exam"}
      /\ m.paper = sittings[m.by].paper /\ m.picks = sittings[m.by].picks /\ m.picks \in Picks
      /\ m.paper \in Paper /\ <<exam, LevelOf(m.paper)>> = m.paper
  <2>1. /\ m \in Message /\ m.by \in Sitting /\ sittings[m.by].pc \notin {"unused", "exam"}
        /\ m.paper = sittings[m.by].paper /\ m.picks = sittings[m.by].picks /\ m.picks \in Picks
    BY <1>1 DEF OfficialFits, OfficialTypes, RequestsAreOfSittings, Message
  <2>2. m.paper \in Paper
    BY <2>1 DEF OfficialFits, SittingsHavePaper
  <2> QED BY <2>1, <2>2, PaperIs
<1>3. \A b \in Active : b \in Attempt /\ attempts[b].status = "active"
  BY DEF Active
<1>4. PICK a \in Attempt :
        /\ IF Reusable(m) # {}
           THEN a \in Reusable(m) /\ attempts' = [attempts EXCEPT ![a] = Closed(@, m)]
           ELSE /\ a \in NextAttempt
                /\ attempts' = [attempts EXCEPT ![a] = Closed(CreatedFor(m.paper), m)]
        /\ responses' = responses \cup
             {[attempt |-> a, by |-> m.by, picks |-> OnPaper(m.paper, m.picks)]}
  BY DEF Grade
<1> DEFINE x == [attempt |-> a, by |-> m.by, picks |-> OnPaper(m.paper, m.picks)]
(* The completed attempt.                                                  *)
<1>5. \A row \in AttemptRow : ExamOf(row.paper) = exam =>
        /\ Closed(row, m) \in AttemptRow /\ Closed(row, m).status = "completed"
        /\ Closed(row, m).fresh /\ Closed(row, m).paper = m.paper
  <2> SUFFICES ASSUME NEW row \in AttemptRow, ExamOf(row.paper) = exam
               PROVE  /\ Closed(row, m) \in AttemptRow /\ Closed(row, m).status = "completed"
                      /\ Closed(row, m).fresh /\ Closed(row, m).paper = m.paper
    OBVIOUS
  <2>1. Closed(row, m) = [row EXCEPT !.status = "completed", !.fresh = TRUE, !.by = m.by,
                                    !.paper = <<ExamOf(row.paper), LevelOf(m.paper)>>]
    BY DEF Closed, AttemptRow
  <2>2. Closed(row, m) = [row EXCEPT !.status = "completed", !.fresh = TRUE, !.by = m.by,
                                    !.paper = m.paper]
    BY <1>2, <2>1
  <2> QED BY <1>2, <2>2 DEF AttemptRow
<1>6. CreatedFor(m.paper) \in AttemptRow /\ ExamOf(CreatedFor(m.paper).paper) = exam
  BY <1>2, NullRows DEF CreatedFor, AttemptRow, Message
<1>7. /\ attempts' \in [Attempt -> AttemptRow]
      /\ \A b \in Attempt \ {a} : attempts'[b] = attempts[b]
      /\ attempts'[a].status = "completed" /\ attempts'[a].fresh /\ attempts'[a].paper = m.paper
      /\ attempts[a].status \in {"none", "active"}
      /\ \A b \in Active \ {a} : ExamOf(attempts[b].paper) # exam
  <2>1. CASE Reusable(m) # {}
    <3>1. /\ a \in Active /\ ExamOf(attempts[a].paper) = exam
          /\ attempts' = [attempts EXCEPT ![a] = Closed(attempts[a], m)]
      BY <1>4, <2>1 DEF Reusable, IsOf, OfficialFits, OfficialTypes
    <3>2. attempts[a] \in AttemptRow
      BY DEF OfficialFits, OfficialTypes
    <3>3. Active \ {a} = {}
      BY <3>1 DEF OfficialFits, OneActive
    <3> HIDE DEF exam
    <3> QED BY <1>3, <1>5, <3>1, <3>2, <3>3 DEF OfficialFits, OfficialTypes
  <2>2. CASE Reusable(m) = {}
    <3>1. /\ a \in NextAttempt
          /\ attempts' = [attempts EXCEPT ![a] = Closed(CreatedFor(m.paper), m)]
      BY <1>4, <2>2
    <3>2. \A b \in Active : ExamOf(attempts[b].paper) # exam
      BY <2>2 DEF Reusable, IsOf
    <3> HIDE DEF exam
    <3> QED BY <1>5, <1>6, <3>1, <3>2, NextIsUnused DEF OfficialFits, OfficialTypes
  <2> QED BY <2>1, <2>2
<1>8. Active' = Active \ {a}
  BY <1>7 DEF Active
<1>9. \A e : FreshlyCompleted(e)' <=> FreshlyCompleted(e) \/ e = exam
  <2> SUFFICES ASSUME NEW e PROVE FreshlyCompleted(e)' <=> FreshlyCompleted(e) \/ e = exam
    OBVIOUS
  <2>1. ExamOf(attempts'[a].paper) = exam
    BY <1>7
  <2> HIDE DEF exam
  <2>2. FreshlyCompleted(e)' => FreshlyCompleted(e) \/ e = exam
    BY <1>7, <2>1 DEF FreshlyCompleted, IsOf
  <2>3. FreshlyCompleted(e) => FreshlyCompleted(e)'
    BY <1>7 DEF FreshlyCompleted, IsOf
  <2>4. FreshlyCompleted(exam)'
    BY <1>7, <2>1 DEF FreshlyCompleted, IsOf
  <2> QED BY <2>2, <2>3, <2>4, Zenon
<1>10. GradedSittings' = GradedSittings \cup {m.by}
  <2>1. responses' = responses \cup {x} /\ x.by = m.by
    BY <1>4
  <2> HIDE DEF x
  <2> QED BY <2>1 DEF GradedSittings
(* The screen and the requests.                                            *)
<1>11. /\ sittings' \in [Sitting -> SittingRow]
       /\ \A s \in Sitting : /\ sittings'[s].paper = sittings[s].paper
                             /\ sittings'[s].picks = sittings[s].picks
                             /\ \/ sittings'[s].pc = sittings[s].pc
                                \/ s = m.by /\ sittings'[s].pc = "results"
  <2>1. CASE UNCHANGED sittings
    BY <2>1 DEF OfficialFits, OfficialTypes
  <2>2. CASE sittings' = [sittings EXCEPT ![m.by].pc = "results"]
    <3>1. \A s \in Sitting : [sittings[s] EXCEPT !.pc = "results"] \in SittingRow
      BY DEF OfficialFits, OfficialTypes, SittingRow
    <3>2. /\ sittings' \in [Sitting -> SittingRow]
          /\ sittings'[m.by] = [sittings[m.by] EXCEPT !.pc = "results"]
          /\ \A s \in Sitting \ {m.by} : sittings'[s] = sittings[s]
      BY <1>2, <2>2, <3>1 DEF OfficialFits, OfficialTypes
    <3>3. sittings[m.by] \in SittingRow
      BY <1>2 DEF OfficialFits, OfficialTypes
    <3> QED BY <3>2, <3>3 DEF SittingRow
  <2> QED BY <2>1, <2>2 DEF Grade
<1>12. \A n \in wire' : n.kind = "clear" \/ n \in wire
  BY NullRows, <1>2 DEF Grade
<1>13. wire' \subseteq Message
  BY NullRows, <1>2 DEF Grade, OfficialFits, OfficialTypes
<1>14. OfficialTypes'
  <2>1. x \in [attempt : Attempt, by : Sitting, picks : Picks]
    BY <1>2, OnPaperIs
  <2> QED BY <1>1, <1>4, <1>7, <1>11, <1>13, <2>1 DEF OfficialFits, OfficialTypes
<1>15. OneActive' /\ SavingIsLocked'
  BY <1>1, <1>8 DEF OfficialFits, OneActive, SavingIsLocked
<1>16. RequestsAreOfSittings'
  <2> SUFFICES ASSUME NEW n \in wire' \cup {saving.message}, n.kind # "clear"
               PROVE  /\ n.by \in Sitting /\ sittings'[n.by].pc # "unused"
                      /\ n.paper = sittings'[n.by].paper
                      /\ n.kind = "submit" => sittings'[n.by].pc # "exam" /\ n.picks = sittings'[n.by].picks
    BY <1>1 DEF RequestsAreOfSittings
  <2>1. n \in wire \cup {saving.message}
    BY <1>12
  <2>2. /\ n.by \in Sitting /\ sittings[n.by].pc # "unused" /\ n.paper = sittings[n.by].paper
        /\ n.kind = "submit" => sittings[n.by].pc # "exam" /\ n.picks = sittings[n.by].picks
    BY <2>1 DEF OfficialFits, RequestsAreOfSittings
  <2> QED BY <1>11, <2>2
<1>17. ActiveIsOfSitting'
  <2> SUFFICES ASSUME NEW b \in Active \ {a}
               PROVE  /\ attempts'[b].by \in Sitting /\ sittings'[attempts'[b].by].pc # "unused"
                      /\ attempts'[b].paper = sittings'[attempts'[b].by].paper
    BY <1>8 DEF ActiveIsOfSitting
  <2>1. attempts'[b] = attempts[b]
    BY <1>3, <1>7
  <2>2. /\ attempts[b].by \in Sitting /\ sittings[attempts[b].by].pc # "unused"
        /\ attempts[b].paper = sittings[attempts[b].by].paper
    BY DEF OfficialFits, ActiveIsOfSitting
  <2> QED BY <1>11, <2>1, <2>2
<1>18. GradedIsOver'
  <2>1. \A s \in GradedSittings : s \in Sitting /\ sittings[s].pc \notin {"unused", "exam"}
    BY DEF OfficialFits, OfficialTypes, GradedSittings, GradedIsOver
  <2> QED BY <1>2, <1>10, <1>11, <2>1 DEF GradedIsOver
<1>19. GraceHolds'
  <2>1. \A b \in Active \ {a} :
          attempts'[b] = attempts[b] /\ ExamOf(attempts'[b].paper) # exam
    BY <1>3, <1>7
  <2> QED BY <1>1, <1>8, <1>9, <2>1 DEF OfficialFits, GraceHolds
<1>20. ASSUME ~SlowSaves PROVE SavesMeetGrace'
  <2>1. SavesMeetGrace
    BY <1>20 DEF OfficialFits
  <2>2. \A n \in wire' : n.kind = "put" /\ n.by \in GradedSittings' =>
          FreshlyCompleted(ExamOf(n.paper))'
    <3> SUFFICES ASSUME NEW n \in wire, n.kind = "put", n.by \in GradedSittings \cup {m.by}
                 PROVE  FreshlyCompleted(ExamOf(n.paper)) \/ ExamOf(n.paper) = exam
      BY <1>9, <1>10, <1>12
    <3>1. n.paper = sittings[n.by].paper
      BY DEF OfficialFits, RequestsAreOfSittings
    <3> QED BY <1>2, <2>1, <3>1 DEF SavesMeetGrace
  <2>3. \A b \in Active \ {a} : attempts'[b].by \notin GradedSittings'
    <3> SUFFICES ASSUME NEW b \in Active \ {a}, attempts[b].by \in GradedSittings \cup {m.by}
                 PROVE  FALSE
      BY <1>3, <1>7, <1>10
    <3>1. attempts[b].by = m.by
      BY <2>1 DEF SavesMeetGrace
    <3>2. attempts[b].paper = m.paper
      BY <1>2, <3>1 DEF OfficialFits, ActiveIsOfSitting
    <3> QED BY <1>7, <3>2
  <2> QED BY <1>1, <1>8, <2>2, <2>3 DEF SavesMeetGrace
<1>21. GradedAsSubmitted'
  <2>1. \A y \in responses : y.attempt \in Attempt \ {a} /\ y.by \in Sitting
    BY <1>7 DEF OfficialFits, OfficialTypes, GradedAsSubmitted
  <2>2. x \in responses' /\ x.attempt = a /\ x.by = m.by
        /\ x.picks = OnPaper(m.paper, m.picks)
    BY <1>4
  <2>3. \A y \in responses' : /\ attempts'[y.attempt].status = "completed"
                              /\ attempts'[y.attempt].paper = sittings'[y.by].paper
                              /\ y.picks = OnPaper(sittings'[y.by].paper, sittings'[y.by].picks)
    <3>1. ASSUME NEW y \in responses
          PROVE  /\ attempts'[y.attempt].status = "completed"
                 /\ attempts'[y.attempt].paper = sittings'[y.by].paper
                 /\ y.picks = OnPaper(sittings'[y.by].paper, sittings'[y.by].picks)
      BY <1>7, <1>11, <2>1 DEF OfficialFits, GradedAsSubmitted
    <3>2. /\ attempts'[x.attempt].status = "completed"
          /\ attempts'[x.attempt].paper = sittings'[x.by].paper
          /\ x.picks = OnPaper(sittings'[x.by].paper, sittings'[x.by].picks)
      BY <1>2, <1>7, <1>11, <2>2
    <3> QED BY <1>4, <3>1, <3>2
  <2>4. \A y, z \in responses' : y.attempt = z.attempt => y = z
    BY <1>4, <2>1, <2>2 DEF OfficialFits, GradedAsSubmitted
  <2>5. \A b \in Attempt : attempts'[b].status = "completed" => \E y \in responses' : y.attempt = b
    <3> SUFFICES ASSUME NEW b \in Attempt \ {a}, attempts'[b].status = "completed"
                 PROVE  \E y \in responses' : y.attempt = b
      BY <2>2
    <3>1. attempts[b].status = "completed"
      BY <1>7
    <3>2. \E y \in responses : y.attempt = b
      BY <3>1 DEF OfficialFits, GradedAsSubmitted
    <3> QED BY <1>4, <3>2
  <2> QED BY <2>3, <2>4, <2>5 DEF GradedAsSubmitted
<1>22. SittingsShowGraded' /\ SittingsHavePaper'
  BY <1>2, <1>10, <1>11 DEF OfficialFits, SittingsShowGraded, SittingsHavePaper
<1> QED BY <1>14, <1>15, <1>16, <1>17, <1>18, <1>19, <1>20, <1>21, <1>22 DEF OfficialFits

LEMMA RequestsKeep ==
  ASSUME OfficialFits, Requests
  PROVE  OfficialFits'
<1>1. ASSUME NEW m \in wire, Lose(m) PROVE OfficialFits'
  <2>1. wire' \subseteq Message
    BY <1>1 DEF Lose, OfficialFits, OfficialTypes
  <2> QED BY <1>1, <2>1, WireKeeps DEF Lose
<1>2. ASSUME NEW m \in wire, Lose(m) \/ PutBegins(m) \/ Grade(m) \/ Clear(m) PROVE OfficialFits'
  BY <1>1, <1>2, PutBeginsKeeps, GradeKeeps, ClearKeeps
<1>3. CASE PutAborts
  BY <1>3, PutAbortsKeeps DEF PutAborts
<1>4. CASE PutWrites
  BY <1>4, PutWritesKeeps
<1>5. ASSUME NEW a \in Attempt, Age(a) PROVE OfficialFits'
  BY <1>5, AgeKeeps
<1> QED BY <1>2, <1>3, <1>4, <1>5 DEF Requests

(* The steps of generated mocks leave official papers alone.               *)
LEMMA OfficialSame ==
  ASSUME OfficialFits, UNCHANGED official
  PROVE  OfficialFits'
<1>1. UNCHANGED <<attempts, responses, sittings, saving>> /\ UNCHANGED wire
  BY DEF official
<1>2. wire' \subseteq Message
  BY <1>1 DEF OfficialFits, OfficialTypes
<1> QED BY <1>1, <1>2, WireKeeps

---------------------------------------------------------------------------
(* Generated mocks.  A screen moves on, and its requests are its own.      *)
HasPicks(m, row) ==
  /\ m.mock = row.mock
  /\ \A i \in Item : row.picks[i] # NoChoice => m.picks[i] = row.picks[i]

LEMMA TakerKeeps ==
  ASSUME GeneratedFits, NEW t \in Taker, NEW row \in TakerRow,
         takers' = [takers EXCEPT ![t] = row], UNCHANGED mocks, row.pc # "results",
         row.pc \in {"exam", "submitting"} => row.mock \in Mock,
         mail' \subseteq Mail, grading' \subseteq Mail,
         \A m \in mail' \cup grading' : m.awaited =>
           \/ m.by # t /\ m \in mail \cup grading
           \/ m.by = t /\ row.pc = "submitting" /\ HasPicks(m, row)
  PROVE  GeneratedFits'
<1>1. /\ takers' \in [Taker -> TakerRow] /\ takers'[t] = row
      /\ \A u \in Taker \ {t} : takers'[u] = takers[u]
  BY DEF GeneratedFits, GeneratedTypes
<1>2. GeneratedTypes'
  BY <1>1 DEF GeneratedFits, GeneratedTypes
<1>3. TakersHaveMock' /\ TakersShowCompleted'
  BY <1>1 DEF GeneratedFits, TakersHaveMock, TakersShowCompleted
<1>4. MocksAddUp'
  BY <1>1 DEF GeneratedFits, MocksAddUp, OneInProgress, InProgress, ScoredAsPicked
<1>5. \A m \in mail' \cup grading' : m.by \in Taker
  BY DEF Mail
<1>6. AwaitedHasPicks'
  BY <1>1, <1>5 DEF GeneratedFits, AwaitedHasPicks, HasPicks
<1> QED BY <1>2, <1>3, <1>4, <1>6 DEF GeneratedFits

(* Requests that go leave nothing behind.                                  *)
LEMMA MailKeeps ==
  ASSUME GeneratedFits, UNCHANGED <<mocks, takers>>, mail' \subseteq mail, grading' \subseteq grading
  PROVE  GeneratedFits'
<1>1. GeneratedTypes'
  BY DEF GeneratedFits, GeneratedTypes
<1>2. TakersHaveMock' /\ TakersShowCompleted' /\ MocksAddUp'
  BY DEF GeneratedFits, TakersHaveMock, TakersShowCompleted, MocksAddUp, OneInProgress, InProgress,
    ScoredAsPicked
<1>3. AwaitedHasPicks'
  BY DEF GeneratedFits, AwaitedHasPicks
<1> QED BY <1>1, <1>2, <1>3 DEF GeneratedFits

(* A screen that is not waiting for an answer awaits none.                 *)
LEMMA NoneAwaited ==
  ASSUME GeneratedFits, NEW t \in Taker, takers[t].pc \notin {"submitting", "results"}
  PROVE  \A m \in mail \cup grading : m.awaited => m.by # t
BY DEF GeneratedFits, AwaitedHasPicks

LEMMA NextMockIsUnused == \A k \in NextMock : k \in Mock /\ mocks[k].status = "none"
<1> SUFFICES ASSUME NEW k \in NextMock PROVE k \in Mock /\ mocks[k].status = "none"
  OBVIOUS
<1>1. k \in Mock /\ (mocks[k].status = "none" <=> k >= k)
  BY Zenon DEF NextMock
<1>2. k >= k
  BY <1>1, MockExamAssumption
<1> QED BY <1>1, <1>2, Zenon

LEMMA ShownProgress ==
  ASSUME GeneratedFits, NEW k \in Mock
  PROVE  Opened(k) \in TakerRow /\ Opened(k).pc = "exam" /\ Opened(k).mock \in Mock
BY DEF GeneratedFits, GeneratedTypes, Opened, TakerRow, MockRow

LEMMA InsertMockKeeps ==
  ASSUME GeneratedFits, NEW t \in Taker, InsertMock(t)
  PROVE  GeneratedFits'
<1>1. takers[t].pc = "loading" /\ UNCHANGED <<mail, grading>>
  BY DEF InsertMock
<1>2. \A m \in mail \cup grading : m.awaited => m.by # t
  BY <1>1, NoneAwaited
<1>3. mail \subseteq Mail /\ grading \subseteq Mail
  BY DEF GeneratedFits, GeneratedTypes
<1>4. CASE InProgress # {}
  <2>1. PICK k \in InProgress : takers' = [takers EXCEPT ![t] = Opened(k)]
    BY <1>4 DEF InsertMock
  <2>2. k \in Mock /\ UNCHANGED mocks
    BY <1>4 DEF InsertMock, InProgress
  <2> QED BY <1>1, <1>2, <1>3, <2>1, <2>2, ShownProgress, TakerKeeps
<1>5. CASE InProgress = {}
  <2>1. PICK k \in NextMock :
          /\ mocks' = [mocks EXCEPT ![k].status = "in_progress"]
          /\ takers' = [takers EXCEPT ![t] = [pc |-> "exam", mock |-> k, picks |-> MockBlank]]
    BY <1>5 DEF InsertMock
  <2> DEFINE row == [pc |-> "exam", mock |-> k, picks |-> MockBlank]
  <2>2. k \in Mock /\ mocks[k].status = "none" /\ mocks[k] \in MockRow
    BY NextMockIsUnused DEF GeneratedFits, GeneratedTypes
  <2>3. /\ mocks' \in [Mock -> MockRow] /\ mocks'[k].status = "in_progress"
        /\ \A l \in Mock \ {k} : mocks'[l] = mocks[l]
    BY <2>1, <2>2 DEF GeneratedFits, GeneratedTypes, MockRow
  <2>4. row \in TakerRow
    BY <2>2, BlankIs DEF TakerRow
  <2>5. /\ takers' \in [Taker -> TakerRow] /\ takers'[t] = row
        /\ \A u \in Taker \ {t} : takers'[u] = takers[u]
    BY <2>1, <2>4 DEF GeneratedFits, GeneratedTypes
  <2>6. GeneratedTypes'
    BY <1>1, <2>3, <2>5 DEF GeneratedFits, GeneratedTypes
  <2>7. AwaitedHasPicks'
    BY <1>1, <1>2, <1>3, <2>5 DEF GeneratedFits, AwaitedHasPicks, Mail
  <2>8. TakersHaveMock'
    BY <2>2, <2>5 DEF GeneratedFits, TakersHaveMock
  <2>9. \A u \in Taker : takers'[u].pc = "results" =>
          /\ takers[u].pc = "results" /\ takers'[u] = takers[u]
          /\ takers[u].mock \in Mock \ {k} /\ mocks[takers[u].mock].status = "completed"
    BY <2>2, <2>5 DEF GeneratedFits, TakersHaveMock, TakersShowCompleted
  <2>10. TakersShowCompleted'
    BY <2>3, <2>9 DEF TakersShowCompleted
  <2>11. OneInProgress'
    BY <1>5, <2>3 DEF OneInProgress, InProgress
  <2>12. ScoredAsPicked'
    BY <2>3, <2>9 DEF GeneratedFits, MocksAddUp, ScoredAsPicked
  <2> QED BY <2>6, <2>7, <2>8, <2>10, <2>11, <2>12 DEF GeneratedFits, MocksAddUp
<1> QED BY <1>4, <1>5

(* A screen gives up waiting, whatever has become of its request.          *)
LEMMA UnawaitedMail ==
  ASSUME NEW M, M \subseteq Mail, NEW t
  PROVE  Unawaited(M, t) \subseteq Mail /\ \A m \in Unawaited(M, t) : m.awaited => m.by # t /\ m \in M
<1>1. ASSUME NEW n \in M
      PROVE  [n EXCEPT !.awaited = FALSE] \in Mail /\ ~[n EXCEPT !.awaited = FALSE].awaited
  BY DEF Mail
<1> QED BY <1>1 DEF Unawaited

LEMMA MailOfIs ==
  ASSUME NEW t \in Taker, NEW row \in TakerRow, takers'[t] = row, row.mock \in Mock,
         NEW kind \in {"put", "submit"}
  PROVE  /\ MailOf(t, kind) \in Mail /\ MailOf(t, kind).by = t
         /\ MailOf(t, kind).awaited <=> kind = "submit"
         /\ HasPicks(MailOf(t, kind), row)
<1>1. MailOf(t, kind) = [kind |-> kind, by |-> t, mock |-> row.mock, picks |-> row.picks,
                         awaited |-> kind = "submit"]
  BY DEF MailOf
<1>2. row.picks \in MockPicks
  BY DEF TakerRow
<1>3. MailOf(t, kind) \in Mail
  BY <1>1, <1>2 DEF Mail
<1>4. /\ MailOf(t, kind).by = t /\ MailOf(t, kind).awaited = (kind = "submit")
      /\ MailOf(t, kind).mock = row.mock /\ MailOf(t, kind).picks = row.picks
  BY <1>1
<1>5. HasPicks(MailOf(t, kind), row)
  BY <1>4 DEF HasPicks
<1> QED BY <1>3, <1>4, <1>5

LEMMA TakersKeep ==
  ASSUME GeneratedFits, NEW t \in Taker,
         \/ Assemble(t) \/ InsertMock(t) \/ LoadFails(t) \/ SubmitMock(t) \/ SubmitMockFails(t)
         \/ \E i \in Item, c \in Choice : Pick(t, i, c)
  PROVE  GeneratedFits'
<1>1. mail \subseteq Mail /\ grading \subseteq Mail /\ takers[t] \in TakerRow
  BY DEF GeneratedFits, GeneratedTypes
<1>2. takers[t].pc \in {"exam", "submitting"} => takers[t].mock \in Mock
  BY DEF GeneratedFits, TakersHaveMock
<1>3. ASSUME NEW row \in TakerRow, takers' = [takers EXCEPT ![t] = row]
      PROVE  takers'[t] = row
  BY <1>3 DEF GeneratedFits, GeneratedTypes
(* A screen that neither sends nor waits.                                  *)
<1>4. ASSUME NEW row \in TakerRow, takers' = [takers EXCEPT ![t] = row],
             UNCHANGED <<mocks, mail, grading>>, row.pc \notin {"submitting", "results"},
             row.pc = "exam" => row.mock \in Mock, takers[t].pc \notin {"submitting", "results"}
      PROVE  GeneratedFits'
  <2>1. mail' \subseteq Mail /\ grading' \subseteq Mail /\ row.pc # "results"
    BY <1>1, <1>4
  <2>2. row.pc \in {"exam", "submitting"} => row.mock \in Mock
    BY <1>4
  <2>3. \A n \in mail' \cup grading' : n.awaited => n.by # t /\ n \in mail \cup grading
    BY <1>4, NoneAwaited
  <2> QED BY <1>4, <2>1, <2>2, <2>3, TakerKeeps
<1>5. ASSUME NEW row \in TakerRow, takers' = [takers EXCEPT ![t] = row], NEW kind \in {"put", "submit"},
             SendMail(MailOf(t, kind)), UNCHANGED <<mocks, grading>>, takers[t].pc = "exam",
             row.mock = takers[t].mock, row.pc = IF kind = "submit" THEN "submitting" ELSE "exam"
      PROVE  GeneratedFits'
  <2> DEFINE m == MailOf(t, kind)
  <2>1. m \in Mail /\ m.by = t /\ (m.awaited <=> kind = "submit") /\ HasPicks(m, row)
    BY <1>2, <1>3, <1>5, MailOfIs
  <2>2. mail' = mail \cup {m}
    BY <1>5 DEF SendMail
  <2>3. \A n \in mail \cup grading : n.awaited => n.by # t
    BY <1>5, NoneAwaited
  <2> HIDE DEF m
  <2>4. mail' \subseteq Mail /\ grading' \subseteq Mail
    BY <1>1, <1>5, <2>1, <2>2
  <2>5. row.pc # "results" /\ (row.pc \in {"exam", "submitting"} => row.mock \in Mock)
    BY <1>2, <1>5
  <2>6. \A n \in mail' \cup grading' : n.awaited =>
          \/ n.by # t /\ n \in mail \cup grading
          \/ n.by = t /\ row.pc = "submitting" /\ HasPicks(n, row)
    BY <1>5, <2>1, <2>2, <2>3
  <2> QED BY <1>5, <2>4, <2>5, <2>6, TakerKeeps
<1>6. CASE Assemble(t)
  <2>1. ASSUME NEW k \in InProgress, takers' = [takers EXCEPT ![t] = Opened(k)] PROVE GeneratedFits'
    <3>1. k \in Mock
      BY DEF InProgress
    <3> QED BY <1>4, <1>6, <2>1, <3>1, ShownProgress DEF Assemble
  <2>2. CASE takers' = [takers EXCEPT ![t].pc = "loading"]
    <3>1. [takers[t] EXCEPT !.pc = "loading"] \in TakerRow /\ [takers[t] EXCEPT !.pc = "loading"].pc = "loading"
      BY <1>1 DEF TakerRow
    <3> QED BY <1>4, <1>6, <2>2, <3>1 DEF Assemble
  <2> QED BY <1>6, <2>1, <2>2 DEF Assemble
<1>7. CASE LoadFails(t)
  <2>1. [takers[t] EXCEPT !.pc = "error"] \in TakerRow /\ [takers[t] EXCEPT !.pc = "error"].pc = "error"
    BY <1>1 DEF TakerRow
  <2> QED BY <1>4, <1>7, <2>1 DEF LoadFails
<1>8. CASE SubmitMock(t)
  <2> DEFINE row == [takers[t] EXCEPT !.pc = "submitting"]
  <2>1. row \in TakerRow /\ row.pc = "submitting" /\ row.mock = takers[t].mock
    BY <1>1 DEF TakerRow
  <2>2. takers' = [takers EXCEPT ![t] = row]
    BY <1>8 DEF SubmitMock
  <2> QED BY <1>5, <1>8, <2>1, <2>2 DEF SubmitMock
<1>9. CASE SubmitMockFails(t)
  <2> DEFINE row == [takers[t] EXCEPT !.pc = "error"]
  <2>1. row \in TakerRow /\ row.pc = "error"
    BY <1>1 DEF TakerRow
  <2>2. takers' = [takers EXCEPT ![t] = row]
    BY <1>9 DEF SubmitMockFails
  <2>3. mail' = Unawaited(mail, t) /\ grading' = Unawaited(grading, t) /\ UNCHANGED mocks
    BY <1>9 DEF SubmitMockFails
  <2>4. mail' \subseteq Mail /\ grading' \subseteq Mail
    BY <1>1, <2>3, UnawaitedMail
  <2>5. \A n \in mail' \cup grading' : n.awaited => n.by # t /\ n \in mail \cup grading
    BY <1>1, <2>3, UnawaitedMail
  <2> HIDE DEF row
  <2> QED BY <2>1, <2>2, <2>3, <2>4, <2>5, TakerKeeps
<1>10. ASSUME NEW i \in Item, NEW c \in Choice, Pick(t, i, c) PROVE GeneratedFits'
  <2> DEFINE row == [takers[t] EXCEPT !.picks = [takers[t].picks EXCEPT ![i] = c]]
  <2>1. takers[t].picks \in MockPicks /\ takers[t].pc = "exam"
    BY <1>1, <1>10 DEF Pick, TakerRow
  <2>2. [takers[t].picks EXCEPT ![i] = c] \in MockPicks
    BY <2>1 DEF MockPicks
  <2>3. row \in TakerRow /\ row.pc = "exam" /\ row.mock = takers[t].mock
    BY <1>1, <2>1, <2>2 DEF TakerRow
  <2>4. takers' = [takers EXCEPT ![t] = row]
    BY <1>10 DEF Pick
  <2> QED BY <1>5, <1>10, <2>1, <2>3, <2>4 DEF Pick
<1> QED BY <1>6, <1>7, <1>8, <1>9, <1>10, InsertMockKeeps

(* Progress is saved only of a mock in progress.                           *)
LEMMA ProgressKeeps ==
  ASSUME GeneratedFits, NEW m \in mail, Progress(m)
  PROVE  GeneratedFits'
<1>1. mail' = mail \ {m} /\ UNCHANGED <<takers, grading>> /\ m \in Mail
  BY DEF Progress, GeneratedFits, GeneratedTypes
<1>2. CASE mocks[m.mock].status # "in_progress"
  BY <1>1, <1>2, MailKeeps DEF Progress
<1>3. CASE mocks[m.mock].status = "in_progress"
  <2> DEFINE k == m.mock
  <2>1. k \in Mock /\ m.picks \in MockPicks /\ mocks[k] \in MockRow
    BY <1>1 DEF Mail, GeneratedFits, GeneratedTypes
  <2>2. mocks' = [mocks EXCEPT ![k].picks = m.picks]
    BY <1>3 DEF Progress
  <2>3. /\ mocks' \in [Mock -> MockRow] /\ mocks'[k].status = "in_progress"
        /\ \A l \in Mock \ {k} : mocks'[l] = mocks[l]
    BY <1>3, <2>1, <2>2 DEF GeneratedFits, GeneratedTypes, MockRow
  <2>4. GeneratedTypes'
    BY <1>1, <2>3 DEF GeneratedFits, GeneratedTypes
  <2>5. AwaitedHasPicks' /\ TakersHaveMock'
    BY <1>1 DEF GeneratedFits, AwaitedHasPicks, TakersHaveMock
  <2>6. \A t \in Taker : takers[t].pc = "results" =>
          takers[t].mock \in Mock \ {k} /\ mocks[takers[t].mock].status = "completed"
    BY <1>3 DEF GeneratedFits, TakersHaveMock, TakersShowCompleted
  <2>7. TakersShowCompleted'
    BY <1>1, <2>3, <2>6 DEF TakersShowCompleted
  <2>8. OneInProgress'
    BY <1>3, <2>3 DEF GeneratedFits, MocksAddUp, OneInProgress, InProgress
  <2>9. ScoredAsPicked'
    BY <1>1, <2>3, <2>6 DEF GeneratedFits, MocksAddUp, ScoredAsPicked
  <2> QED BY <2>4, <2>5, <2>7, <2>8, <2>9 DEF GeneratedFits, MocksAddUp
<1> QED BY <1>2, <1>3

(* A submission's picks are laid over the saved ones, so none is lost.     *)
LEMMA MergedHas ==
  ASSUME NEW saved \in MockPicks, NEW picks \in MockPicks
  PROVE  /\ Merged(saved, picks) \in MockPicks
         /\ \A i \in Item : picks[i] # NoChoice => Merged(saved, picks)[i] = picks[i]
BY DEF Merged, MockPicks

LEMMA GradeReadsKeeps ==
  ASSUME GeneratedFits, NEW m \in mail, GradeReads(m)
  PROVE  GeneratedFits'
<1>1. mail' = mail \ {m} /\ UNCHANGED <<mocks, takers>> /\ m \in Mail
  BY DEF GradeReads, GeneratedFits, GeneratedTypes
<1>2. CASE mocks[m.mock].status # "in_progress"
  BY <1>1, <1>2, MailKeeps DEF GradeReads
<1>3. CASE mocks[m.mock].status = "in_progress"
  <2> DEFINE n == [m EXCEPT !.picks = Merged(mocks[m.mock].picks, m.picks)]
  <2>1. m.mock \in Mock /\ m.picks \in MockPicks /\ mocks[m.mock].picks \in MockPicks
    BY <1>1 DEF Mail, GeneratedFits, GeneratedTypes, MockRow
  <2>2. Merged(mocks[m.mock].picks, m.picks) \in MockPicks
    BY <2>1, MergedHas
  <2>3. /\ n \in Mail /\ n.by = m.by /\ n.mock = m.mock /\ n.awaited = m.awaited
        /\ n.picks = Merged(mocks[m.mock].picks, m.picks)
    BY <1>1, <2>2 DEF Mail
  <2>4. grading' = grading \cup {n}
    BY <1>3 DEF GradeReads
  <2>5. \A i \in Item : m.picks[i] # NoChoice => n.picks[i] = m.picks[i]
    BY <2>1, <2>3, MergedHas
  <2> HIDE DEF n
  <2>6. GeneratedTypes'
    BY <1>1, <2>3, <2>4 DEF GeneratedFits, GeneratedTypes
  <2>7. n.awaited =>
          /\ takers[n.by].pc \in {"submitting", "results"} /\ n.mock = takers[n.by].mock
          /\ \A i \in Item : takers[n.by].picks[i] # NoChoice => n.picks[i] = takers[n.by].picks[i]
    <3> SUFFICES ASSUME n.awaited
                 PROVE  /\ takers[n.by].pc \in {"submitting", "results"} /\ n.mock = takers[n.by].mock
                        /\ \A i \in Item : takers[n.by].picks[i] # NoChoice =>
                             n.picks[i] = takers[n.by].picks[i]
      OBVIOUS
    <3>1. /\ takers[m.by].pc \in {"submitting", "results"} /\ m.mock = takers[m.by].mock
          /\ \A i \in Item : takers[m.by].picks[i] # NoChoice => m.picks[i] = takers[m.by].picks[i]
      BY <2>3 DEF GeneratedFits, AwaitedHasPicks
    <3> QED BY <2>3, <2>5, <3>1
  <2>8. AwaitedHasPicks'
    BY <1>1, <2>4, <2>7 DEF GeneratedFits, AwaitedHasPicks
  <2>9. TakersHaveMock' /\ TakersShowCompleted' /\ MocksAddUp'
    BY <1>1 DEF GeneratedFits, TakersHaveMock, TakersShowCompleted, MocksAddUp, OneInProgress,
      InProgress, ScoredAsPicked
  <2> QED BY <2>6, <2>8, <2>9 DEF GeneratedFits
<1> QED BY <1>2, <1>3

(* The mock that is completed has the picks it was scored from, and a      *)
(* screen that still waits for the answer made no others.                  *)
LEMMA GradeWritesKeeps ==
  ASSUME GeneratedFits, NEW m \in grading, GradeWrites(m)
  PROVE  GeneratedFits'
<1>1. grading' = grading \ {m} /\ UNCHANGED mail /\ m \in Mail
  BY DEF GradeWrites, GeneratedFits, GeneratedTypes
<1>2. CASE mocks[m.mock].status # "in_progress"
  BY <1>1, <1>2, MailKeeps DEF GradeWrites
<1>3. CASE mocks[m.mock].status = "in_progress"
  <2> DEFINE k == m.mock
             row == [status |-> "completed", picks |-> m.picks, scored |-> m.picks]
  <2>1. k \in Mock /\ m.picks \in MockPicks /\ m.by \in Taker
    BY <1>1 DEF Mail
  <2>2. mocks' = [mocks EXCEPT ![k] = row]
    BY <1>3 DEF GradeWrites
  <2>3. row \in MockRow
    BY <2>1 DEF MockRow
  <2>4. /\ mocks' \in [Mock -> MockRow] /\ mocks'[k].status = "completed"
        /\ mocks'[k].picks = m.picks /\ mocks'[k].scored = m.picks
        /\ \A l \in Mock \ {k} : mocks'[l] = mocks[l]
    BY <2>1, <2>2, <2>3 DEF GeneratedFits, GeneratedTypes
  <2>5. /\ takers' \in [Taker -> TakerRow]
        /\ \A t \in Taker : /\ takers'[t].mock = takers[t].mock /\ takers'[t].picks = takers[t].picks
                            /\ \/ takers'[t].pc = takers[t].pc
                               \/ m.awaited /\ t = m.by /\ takers'[t].pc = "results"
    <3>1. CASE UNCHANGED takers
      BY <3>1 DEF GeneratedFits, GeneratedTypes
    <3>2. CASE m.awaited /\ takers' = [takers EXCEPT ![m.by].pc = "results"]
      <4>1. takers[m.by] \in TakerRow /\ [takers[m.by] EXCEPT !.pc = "results"] \in TakerRow
        BY <2>1 DEF GeneratedFits, GeneratedTypes, TakerRow
      <4>2. /\ takers' \in [Taker -> TakerRow]
            /\ takers'[m.by] = [takers[m.by] EXCEPT !.pc = "results"]
            /\ \A t \in Taker \ {m.by} : takers'[t] = takers[t]
        BY <2>1, <3>2, <4>1 DEF GeneratedFits, GeneratedTypes
      <4> QED BY <3>2, <4>1, <4>2 DEF TakerRow
    <3> QED BY <1>3, <3>1, <3>2 DEF GradeWrites
  <2>6. m.awaited =>
          /\ takers[m.by].pc \in {"submitting", "results"} /\ k = takers[m.by].mock
          /\ \A i \in Item : takers[m.by].picks[i] # NoChoice => m.picks[i] = takers[m.by].picks[i]
    BY DEF GeneratedFits, AwaitedHasPicks
  <2>7. \A t \in Taker : takers[t].pc = "results" =>
          takers[t].mock \in Mock \ {k} /\ mocks[takers[t].mock].status = "completed"
    BY <1>3 DEF GeneratedFits, TakersHaveMock, TakersShowCompleted
  <2> HIDE DEF k, row
  <2>8. GeneratedTypes'
    BY <1>1, <2>4, <2>5 DEF GeneratedFits, GeneratedTypes
  <2>9. AwaitedHasPicks'
    <3>1. \A n \in mail \cup grading : n.by \in Taker
      BY DEF GeneratedFits, GeneratedTypes, Mail
    <3> QED BY <1>1, <2>5, <3>1 DEF GeneratedFits, AwaitedHasPicks
  <2>10. TakersHaveMock'
    BY <2>1, <2>5, <2>6 DEF GeneratedFits, TakersHaveMock
  <2>11. TakersShowCompleted'
    BY <2>4, <2>5, <2>6, <2>7 DEF TakersShowCompleted
  <2>12. OneInProgress'
    BY <2>4 DEF GeneratedFits, MocksAddUp, OneInProgress, InProgress
  <2>13. ScoredAsPicked'
    <3>1. \A l \in Mock : mocks'[l].status = "completed" => mocks'[l].scored = mocks'[l].picks
      BY <2>4 DEF GeneratedFits, MocksAddUp, ScoredAsPicked
    <3>2. ASSUME NEW t \in Taker, takers'[t].pc = "results", NEW i \in Item, takers'[t].picks[i] # NoChoice
          PROVE  mocks'[takers'[t].mock].scored[i] = takers'[t].picks[i]
      <4>1. CASE takers[t].pc = "results"
        BY <2>4, <2>5, <2>7, <3>2, <4>1 DEF GeneratedFits, MocksAddUp, ScoredAsPicked
      <4>2. CASE takers[t].pc # "results"
        <5>1. m.awaited /\ t = m.by
          BY <2>5, <3>2, <4>2
        <5> QED BY <2>4, <2>5, <2>6, <3>2, <5>1
      <4> QED BY <4>1, <4>2
    <3> QED BY <3>1, <3>2 DEF ScoredAsPicked
  <2> QED BY <2>8, <2>9, <2>10, <2>11, <2>12, <2>13 DEF GeneratedFits, MocksAddUp
<1> QED BY <1>2, <1>3

LEMMA GeneratedMocksKeep ==
  ASSUME GeneratedFits, GeneratedMocks
  PROVE  GeneratedFits'
<1>1. ASSUME NEW t \in Taker,
             \/ Assemble(t) \/ InsertMock(t) \/ LoadFails(t) \/ SubmitMock(t) \/ SubmitMockFails(t)
             \/ \E i \in Item, c \in Choice : Pick(t, i, c)
      PROVE  GeneratedFits'
  BY <1>1, TakersKeep
<1>2. ASSUME NEW m \in mail, LoseMail(m) PROVE GeneratedFits'
  BY <1>2, MailKeeps DEF LoseMail
<1>3. ASSUME NEW m \in mail, LoseMail(m) \/ Progress(m) \/ GradeReads(m) PROVE GeneratedFits'
  BY <1>2, <1>3, ProgressKeeps, GradeReadsKeeps
<1>4. ASSUME NEW m \in grading, GradeWrites(m) PROVE GeneratedFits'
  BY <1>4, GradeWritesKeeps
<1> QED BY <1>1, <1>3, <1>4, Zenon DEF GeneratedMocks

(* The steps of official papers leave generated mocks alone.               *)
LEMMA GeneratedSame ==
  ASSUME GeneratedFits, UNCHANGED generated
  PROVE  GeneratedFits'
BY MailKeeps DEF generated

LEMMA HalvesApart ==
  /\ Screens \/ Requests => UNCHANGED generated
  /\ GeneratedMocks => UNCHANGED official
<1>1. ASSUME Screens PROVE UNCHANGED generated
  BY <1>1, Zenon DEF Screens, Resume, Autosave, Submit, SubmitFails, Leave, StartSection, Answer, Discard
<1>2. ASSUME Requests PROVE UNCHANGED generated
  BY <1>2, Zenon DEF Requests, Lose, PutBegins, Grade, Clear, PutWrites, PutAborts, Age
<1>3. ASSUME GeneratedMocks PROVE UNCHANGED official
  BY <1>3, Zenon DEF GeneratedMocks, Assemble, InsertMock, LoadFails, SubmitMock, SubmitMockFails, Pick,
    LoseMail, Progress, GradeReads, GradeWrites
<1> QED BY <1>1, <1>2, <1>3

LEMMA ExamStepKeeps == ExamIInv /\ [ExamNext]_examVars => ExamIInv'
<1> SUFFICES ASSUME OfficialFits, GeneratedFits, [ExamNext]_examVars PROVE OfficialFits' /\ GeneratedFits'
  <2>1. OfficialFits' /\ GeneratedFits' => ExamIInv'
    BY DEF ExamIInv, OfficialFits, GeneratedFits, ExamTypeOK, OfficialTypes, GeneratedTypes,
      ResultsAreGraded, ShownIsGraded, SittingsShowGraded, TakersShowCompleted
  <2> QED BY <2>1, ExamIInvIs
<1>1. CASE Screens
  BY <1>1, HalvesApart, ScreensKeep, GeneratedSame
<1>2. CASE Requests
  BY <1>2, HalvesApart, RequestsKeep, GeneratedSame
<1>3. CASE GeneratedMocks
  BY <1>3, HalvesApart, GeneratedMocksKeep, OfficialSame
<1>4. CASE UNCHANGED examVars
  BY <1>4, OfficialSame, GeneratedSame DEF examVars, official, generated
<1> QED BY <1>1, <1>2, <1>3, <1>4 DEF ExamNext

---------------------------------------------------------------------------
(* In every behaviour each request is a sitting's own, each attempt under  *)
(* way is its sitting's, and each screen that waits has its picks graded.  *)
THEOREM ExamInvariantHolds == ExamSpec => []ExamIInv
<1> QED BY ExamInitHolds, ExamStepKeeps, PTL DEF ExamSpec

(* Attempts, answers, requests and screens of the mock exams stay rows of  *)
(* their tables (routes/topik.ts, pages/topik/MockMode.tsx).               *)
THEOREM ExamTypeCorrect == ExamSpec => []ExamTypeOK
<1>1. ExamIInv => ExamTypeOK
  BY DEF ExamIInv
<1> QED BY <1>1, ExamInvariantHolds, PTL

(* A graded sitting is not offered for resuming, when no save is on its    *)
(* way for longer than the grace window (PUT /topik/attempt).              *)
THEOREM NotOfferedAgain ==
  ASSUME SlowSaves = FALSE
  PROVE  ExamSpec => []GradedIsNotOffered
<1>1. ExamIInv => GradedIsNotOffered
  BY DEF ExamIInv, GraceHolds, SavesMeetGrace, GradedIsNotOffered
<1> QED BY <1>1, ExamInvariantHolds, PTL

(* However long saves take, a paper has no active attempt while its grace  *)
(* window lasts: the lock of PUT and submission keeps the check and the    *)
(* write together.                                                         *)
THEOREM GraceWindowHolds == ExamSpec => []GraceHolds
<1>1. ExamIInv => GraceHolds
  BY DEF ExamIInv
<1> QED BY <1>1, ExamInvariantHolds, PTL

(* What is graded is what was submitted, and results are shown only of     *)
(* what is stored (POST /topik/mock/submit).                               *)
THEOREM GradesAreResults == ExamSpec => []ResultsAreGraded
<1>1. ExamIInv => ResultsAreGraded
  BY DEF ExamIInv
<1> QED BY <1>1, ExamInvariantHolds, PTL

(* A user has one generated mock in progress, and its score is that of the *)
(* picks shown with it, with every pick made on the screen that gets it    *)
(* (POST /topik/mock/generated/:id/submit).                                *)
THEOREM MocksScoredAsPicked == ExamSpec => []MocksAddUp
<1>1. ExamIInv => MocksAddUp
  BY DEF ExamIInv
<1> QED BY <1>1, ExamInvariantHolds, PTL

---------------------------------------------------------------------------
(* What a step may do to attempts and mocks that are over.                 *)
OverStays ==
  \A a \in Attempt : attempts[a].status \in {"completed", "abandoned"} =>
    attempts'[a] = [attempts[a] EXCEPT !.fresh = attempts'[a].fresh]
CompletedStays == \A k \in Mock : mocks[k].status = "completed" => mocks'[k] = mocks[k]

LEMMA SameRowStays == \A row \in AttemptRow : row = [row EXCEPT !.fresh = row.fresh]
BY DEF AttemptRow

(* A step that rewrites one attempt, which was not over.                   *)
LEMMA OneChanges ==
  ASSUME OfficialTypes, NEW a \in Attempt, attempts[a].status \notin {"completed", "abandoned"},
         NEW row, attempts' = [attempts EXCEPT ![a] = row]
  PROVE  OverStays
<1>1. \A b \in Attempt \ {a} : attempts'[b] = attempts[b] /\ attempts[b] \in AttemptRow
  BY DEF OfficialTypes
<1> QED BY <1>1, SameRowStays DEF OverStays

LEMMA NoneChange == OfficialTypes /\ UNCHANGED attempts => OverStays
BY SameRowStays DEF OfficialTypes, OverStays

LEMMA OfficialHistory ==
  ASSUME OfficialTypes, Screens \/ Requests
  PROVE  OverStays
<1>1. CASE UNCHANGED attempts
  BY <1>1, NoneChange
<1>2. \A a \in Active : a \in Attempt /\ attempts[a].status = "active"
  BY DEF Active
<1>3. CASE PutWrites
  <2>1. \/ UNCHANGED attempts
        \/ \E a \in Active : attempts' = [attempts EXCEPT ![a] = Saved(saving.message)]
        \/ \E a \in NextAttempt : attempts' = [attempts EXCEPT ![a] = Saved(saving.message)]
    BY <1>3 DEF PutWrites
  <2> QED BY <1>1, <1>2, <2>1, NextIsUnused, OneChanges
<1>4. ASSUME NEW m \in wire, Grade(m) PROVE OverStays
  <2>1. PICK a \in Attempt :
          IF Reusable(m) # {}
          THEN a \in Reusable(m) /\ attempts' = [attempts EXCEPT ![a] = Closed(@, m)]
          ELSE /\ a \in NextAttempt
               /\ attempts' = [attempts EXCEPT ![a] = Closed(CreatedFor(m.paper), m)]
    BY <1>4 DEF Grade
  <2>2. \/ a \in Active /\ attempts' = [attempts EXCEPT ![a] = Closed(attempts[a], m)]
        \/ a \in NextAttempt /\ attempts' = [attempts EXCEPT ![a] = Closed(CreatedFor(m.paper), m)]
    BY <2>1 DEF Reusable, OfficialTypes
  <2>3. attempts[a].status \notin {"completed", "abandoned"}
    BY <1>2, <2>2, NextIsUnused
  <2> QED BY <2>2, <2>3, OneChanges
<1>5. ASSUME NEW m \in wire, Clear(m) PROVE OverStays
  <2>1. \A a \in Attempt \ Active : attempts'[a] = attempts[a] /\ attempts[a] \in AttemptRow
    BY <1>5 DEF Clear, OfficialTypes
  <2> QED BY <1>2, <2>1, SameRowStays DEF OverStays
<1>6. ASSUME NEW a \in Attempt, Age(a) PROVE OverStays
  <2>1. \A b \in Attempt : /\ attempts[b] \in AttemptRow
                           /\ b # a => attempts'[b] = attempts[b]
                           /\ b = a => attempts'[b] = [attempts[b] EXCEPT !.fresh = FALSE]
    BY <1>6 DEF Age, OfficialTypes
  <2>2. \A row \in AttemptRow : [row EXCEPT !.fresh = FALSE].fresh = FALSE
    BY DEF AttemptRow
  <2>3. \A b \in Attempt : attempts'[b] = [attempts[b] EXCEPT !.fresh = attempts'[b].fresh]
    <3> SUFFICES ASSUME NEW b \in Attempt
                 PROVE  attempts'[b] = [attempts[b] EXCEPT !.fresh = attempts'[b].fresh]
      OBVIOUS
    <3>1. CASE b = a
      <4>1. attempts'[b] = [attempts[b] EXCEPT !.fresh = FALSE] /\ attempts'[b].fresh = FALSE
        BY <2>1, <2>2, <3>1
      <4> QED BY <4>1, Zenon
    <3>2. CASE b # a
      BY <2>1, <3>2, SameRowStays
    <3> QED BY <3>1, <3>2
  <2> QED BY <2>3 DEF OverStays
<1>7. ASSUME NEW m \in wire, Lose(m) \/ PutBegins(m) \/ Grade(m) \/ Clear(m) PROVE OverStays
  BY <1>1, <1>4, <1>5, <1>7 DEF Lose, PutBegins
<1>8. ASSUME Screens PROVE UNCHANGED attempts
  BY <1>8, Zenon DEF Screens, Resume, Autosave, Submit, SubmitFails, Leave, StartSection, Answer, Discard
<1>9. CASE PutAborts
  BY <1>1, <1>9 DEF PutAborts
<1> QED BY <1>1, <1>3, <1>6, <1>7, <1>8, <1>9, Zenon DEF Requests

(* A step that rewrites one mock, which was not completed.                 *)
LEMMA OneMockChanges ==
  ASSUME GeneratedTypes, NEW k \in Mock, mocks[k].status # "completed",
         NEW row, mocks' = [mocks EXCEPT ![k] = row]
  PROVE  CompletedStays
BY DEF GeneratedTypes, CompletedStays

LEMMA GeneratedHistory ==
  ASSUME GeneratedTypes, GeneratedMocks
  PROVE  CompletedStays
<1>1. CASE UNCHANGED mocks
  BY <1>1 DEF CompletedStays
<1>2. ASSUME NEW t \in Taker, InsertMock(t) PROVE CompletedStays
  <2>1. UNCHANGED mocks \/ \E k \in NextMock : mocks' = [mocks EXCEPT ![k].status = "in_progress"]
    BY <1>2 DEF InsertMock
  <2> QED BY <1>1, <2>1, NextMockIsUnused, OneMockChanges
<1>3. ASSUME NEW m \in mail, Progress(m) PROVE CompletedStays
  <2>1. m.mock \in Mock
    BY DEF GeneratedTypes, Mail
  <2>2. \/ UNCHANGED mocks
        \/ mocks[m.mock].status = "in_progress" /\ mocks' = [mocks EXCEPT ![m.mock].picks = m.picks]
    BY <1>3 DEF Progress
  <2> QED BY <1>1, <2>1, <2>2, OneMockChanges
<1>4. ASSUME NEW m \in grading, GradeWrites(m) PROVE CompletedStays
  <2>1. m.mock \in Mock
    BY DEF GeneratedTypes, Mail
  <2>2. \/ UNCHANGED mocks
        \/ /\ mocks[m.mock].status = "in_progress"
           /\ mocks' = [mocks EXCEPT ![m.mock] =
                [status |-> "completed", picks |-> m.picks, scored |-> m.picks]]
    BY <1>4 DEF GradeWrites
  <2> QED BY <1>1, <2>1, <2>2, OneMockChanges
<1>5. ASSUME NEW m \in mail, LoseMail(m) \/ Progress(m) \/ GradeReads(m) PROVE CompletedStays
  BY <1>1, <1>3, <1>5 DEF LoseMail, GradeReads
<1>6. ASSUME NEW t \in Taker,
             Assemble(t) \/ InsertMock(t) \/ LoadFails(t) \/ SubmitMock(t) \/ SubmitMockFails(t)
      PROVE  CompletedStays
  BY <1>1, <1>2, <1>6 DEF Assemble, LoadFails, SubmitMock, SubmitMockFails
<1>7. ASSUME NEW t \in Taker, NEW i \in Item, NEW c \in Choice, Pick(t, i, c) PROVE CompletedStays
  BY <1>1, <1>7 DEF Pick
<1> QED BY <1>4, <1>5, <1>6, <1>7, Zenon DEF GeneratedMocks

(* A completed or abandoned attempt keeps its paper and its answers, a     *)
(* completed mock its picks and its score: no later request writes them.   *)
THEOREM ExamHistoryIsFinal == ExamSpec => HistoryIsFinal
<1>1. ExamIInv /\ [ExamNext]_examVars => [OverStays /\ CompletedStays]_examVars
  <2> SUFFICES ASSUME OfficialTypes, GeneratedTypes, ExamNext PROVE OverStays /\ CompletedStays
    BY ExamIInvIs DEF OfficialFits, GeneratedFits
  <2>1. CASE Screens \/ Requests
    <3>1. UNCHANGED mocks
      BY <2>1, HalvesApart DEF generated
    <3> QED BY <2>1, <3>1, OfficialHistory DEF CompletedStays
  <2>2. CASE GeneratedMocks
    <3>1. UNCHANGED attempts
      BY <2>2, HalvesApart DEF official
    <3> QED BY <2>2, <3>1, GeneratedHistory, NoneChange
  <2> QED BY <2>1, <2>2 DEF ExamNext
<1> QED BY <1>1, ExamInvariantHolds, PTL DEF ExamSpec, HistoryIsFinal, OverStays, CompletedStays
=============================================================================
