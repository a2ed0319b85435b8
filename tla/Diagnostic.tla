----------------------------- MODULE Diagnostic -----------------------------
(***************************************************************************)
(* One run of the diagnostic test (routes/diagnostic.ts): items are served *)
(* one by one, each answer moves the ability estimate a step, and the      *)
(* finished run leaves a snapshot.  The learner's requests overlap: an     *)
(* answer or a next item takes as long as a model call, the screen gives   *)
(* up and asks again, and the first request goes on.  The server may stop. *)
(***************************************************************************)
EXTENDS Naturals, Sequences, FiniteSets

CONSTANTS
  Target,      \* target_item_count
  Core,        \* the ordinals whose section moves the estimate: not hanja
  Writing,     \* the ordinals graded by a model call
  Request,     \* places for requests at work at once, taken in order (bound)
  NoRequest

ASSUME DiagnosticAssumption ==
  /\ Target \in Nat \ {0}
  /\ Core \subseteq 1..Target
  /\ Writing \subseteq Core
  /\ Request \subseteq Nat /\ NoRequest \notin Request

VARIABLES
  status,      \* diagnostic_runs.status
  served,      \* the ordinals with a row in diagnostic_responses
  answered,    \* the rows that are answered
  ability,     \* the steps taken by ability_estimate and dimension_estimates
  claim,       \* who holds the right to grade a row
  lapsed,      \* the rows whose claim is older than its time to live
  snapshot,    \* the snapshot of the run, if finished
  reqs         \* the requests

vars == <<status, served, answered, ability, claim, lapsed, snapshot, reqs>>

Ordinal == 1..Target

(* A step of the estimates: the item answered, and the number that decides *)
(* how long the step is.                                                   *)
Step == [item : Ordinal, number : Nat]

(* ladder: the steps in the estimates the snapshot is scored with;         *)
(* evidence: the answers it shows.                                         *)
Snapshot == [ladder : SUBSET Ordinal, evidence : SUBSET Ordinal]
NoSnapshot == [ladder |-> {}, evidence |-> {}]

RequestRow ==
  [pc : {"none", "claim", "grade", "release", "commit",
         "pending", "max", "serve", "count", "rows", "close"},
   item : 0..Target, graded : BOOLEAN, seen : Snapshot]
NoRequestRow == [pc |-> "none", item |-> 0, graded |-> FALSE, seen |-> NoSnapshot]

Unanswered == served \ answered
Lowest(S) == CHOOSE o \in S : \A p \in S : o <= p
Steps == {ability[i].item : i \in 1..Len(ability)}

(* A request is there from its first read on: before, it changes nothing. *)
Free(r) == reqs[r].pc = "none" /\ \A q \in Request : q < r => reqs[q].pc # "none"
Goto(r, pc) == reqs' = [reqs EXCEPT ![r].pc = pc]
Reply(r) == reqs' = [reqs EXCEPT ![r] = NoRequestRow]

---------------------------------------------------------------------------
(* POST /diagnostic: the run and its first item; ordinals whose pool is    *)
(* empty are passed over.  Nobody knows the run before the answer.         *)
Start ==
  /\ status = "none"
  /\ \E o \in Ordinal : served' = {o}
  /\ status' = "in_progress"
  /\ UNCHANGED <<answered, ability, claim, lapsed, snapshot, reqs>>

---------------------------------------------------------------------------
(* POST /diagnostic/:runId/answer.  A writing item that is not answered is *)
(* graded before the transaction, by whoever has the claim to it.          *)
AnswerReads(r, o) ==
  /\ Free(r) /\ o \in served
  /\ reqs' = [reqs EXCEPT ![r].pc = IF o \in Writing \ answered THEN "claim" ELSE "commit",
                         ![r].item = o]
  /\ UNCHANGED <<status, served, answered, ability, claim, lapsed, snapshot>>

MayClaim(o) == o \notin answered /\ (claim[o] = NoRequest \/ o \in lapsed)

ClaimGrade(r) ==
  LET o == reqs[r].item IN
  /\ reqs[r].pc = "claim"
  /\ IF MayClaim(o)
     THEN /\ claim' = [claim EXCEPT ![o] = r] /\ lapsed' = lapsed \ {o}
          /\ Goto(r, "grade")
     ELSE Reply(r) /\ UNCHANGED <<claim, lapsed>>
  /\ UNCHANGED <<status, served, answered, ability, snapshot>>

Graded(r) ==
  /\ reqs[r].pc = "grade"
  /\ reqs' = [reqs EXCEPT ![r].pc = "commit", ![r].graded = TRUE]
  /\ UNCHANGED <<status, served, answered, ability, claim, lapsed, snapshot>>

GradeFails(r) ==
  /\ reqs[r].pc = "grade"
  /\ Goto(r, "release")
  /\ UNCHANGED <<status, served, answered, ability, claim, lapsed, snapshot>>

(* The claim is taken off the row, whoever holds it by now; or that fails  *)
(* too and it is left to lapse.                                            *)
Release(r) ==
  LET o == reqs[r].item IN
  /\ reqs[r].pc = "release"
  /\ \/ claim' = [claim EXCEPT ![o] = NoRequest] /\ lapsed' = lapsed \ {o}
     \/ UNCHANGED <<claim, lapsed>>
  /\ Reply(r)
  /\ UNCHANGED <<status, served, answered, ability, snapshot>>

(* Mutant: a claim does not lapse while its row is unanswered.             *)
MayLapseOnceAnswered(o) == claim[o] # NoRequest /\ o \notin lapsed /\ o \in answered
(* The time to live allows for the model client's own retries, and not for *)
(* those that the SDK makes within each of them: a claim may lapse while   *)
(* its request still grades.                                               *)
MayLapse(o) == claim[o] # NoRequest /\ o \notin lapsed

Lapse(o) ==
  /\ MayLapse(o)
  /\ lapsed' = lapsed \cup {o}
  /\ UNCHANGED <<status, served, answered, ability, claim, snapshot, reqs>>

(* Mutant: trusts what was read before the lock.                           *)
TakesAnything(o) == status = "in_progress"
Takes(o) == status = "in_progress" /\ Unanswered # {} /\ o = Lowest(Unanswered)

NextNumber == Cardinality(answered \cap Core) + 1

(* The transaction that holds the run's lock: the item must be the lowest  *)
(* unanswered one; it is answered and, unless it is hanja, the estimates   *)
(* take their next step.                                                   *)
AnswerCommits(r) ==
  LET o == reqs[r].item IN
  /\ reqs[r].pc = "commit"
  /\ IF Takes(o)
     THEN /\ answered' = answered \cup {o}
          /\ ability' = IF o \in Core THEN Append(ability, [item |-> o, number |-> NextNumber])
                        ELSE ability
          /\ IF reqs[r].graded
             THEN claim' = [claim EXCEPT ![o] = NoRequest] /\ lapsed' = lapsed \ {o}
             ELSE UNCHANGED <<claim, lapsed>>
     ELSE UNCHANGED <<answered, ability, claim, lapsed>>
  /\ Reply(r)
  /\ UNCHANGED <<status, served, snapshot>>

---------------------------------------------------------------------------
(* POST /diagnostic/:runId/next takes no lock: it reads the status, then   *)
(* the pending item, then the highest ordinal, and then serves an item.    *)
NextReadsRun(r) ==
  /\ Free(r) /\ status = "in_progress"
  /\ Goto(r, "pending")
  /\ UNCHANGED <<status, served, answered, ability, claim, lapsed, snapshot>>

NextReadsPending(r) ==
  /\ reqs[r].pc = "pending"
  /\ IF Unanswered = {} THEN Goto(r, "max") ELSE Reply(r)
  /\ UNCHANGED <<status, served, answered, ability, claim, lapsed, snapshot>>

Highest(S) == CHOOSE o \in S : \A p \in S : p <= o

NextReadsMax(r) ==
  /\ reqs[r].pc = "max"
  /\ IF Highest(served) = Target THEN Reply(r)
     ELSE reqs' = [reqs EXCEPT ![r].pc = "serve", ![r].item = Highest(served) + 1]
  /\ UNCHANGED <<status, served, answered, ability, claim, lapsed, snapshot>>

(* The first ordinal from there whose pool has an item gets a row; of two  *)
(* requests that choose the same ordinal one finds it taken, and answers   *)
(* with what is pending then.  Building the item may fail.                 *)
NextServes(r) ==
  /\ reqs[r].pc = "serve"
  /\ \/ \E o \in reqs[r].item..Target : served' = served \cup {o}
     \/ UNCHANGED served
  /\ Reply(r)
  /\ UNCHANGED <<status, answered, ability, claim, lapsed, snapshot>>

---------------------------------------------------------------------------
(* POST /diagnostic/:runId/finish reads the run, sees that nothing is      *)
(* unanswered, reads the rows, and writes under the run's lock what it     *)
(* makes of what it read, unless the run is finished by then.              *)
FinishReadsRun(r) ==
  /\ Free(r) /\ status = "in_progress"
  /\ reqs' = [reqs EXCEPT ![r].pc = "count", ![r].seen.ladder = Steps]
  /\ UNCHANGED <<status, served, answered, ability, claim, lapsed, snapshot>>

FinishCounts(r) ==
  /\ reqs[r].pc = "count"
  /\ IF Unanswered = {} THEN Goto(r, "rows") ELSE Reply(r)
  /\ UNCHANGED <<status, served, answered, ability, claim, lapsed, snapshot>>

FinishReadsRows(r) ==
  /\ reqs[r].pc = "rows"
  /\ reqs' = [reqs EXCEPT ![r].pc = "close", ![r].seen.evidence = answered]
  /\ UNCHANGED <<status, served, answered, ability, claim, lapsed, snapshot>>

(* Mutant: the status is not read again under the lock.                    *)
ClosesAnyway == TRUE
Closes == status # "finished"

(* Mutant: the estimates are those of the locked row.                      *)
WrittenFresh(seen) == [seen EXCEPT !.ladder = Steps]
Written(seen) == seen

FinishCommits(r) ==
  /\ reqs[r].pc = "close"
  /\ IF Closes THEN status' = "finished" /\ snapshot' = Written(reqs[r].seen)
     ELSE UNCHANGED <<status, snapshot>>
  /\ Reply(r)
  /\ UNCHANGED <<served, answered, ability, claim, lapsed>>

---------------------------------------------------------------------------
(* A query fails, or the server stops: one request, or all of them, end    *)
(* where they are; transactions are rolled back.                           *)
Fails(r) ==
  /\ reqs[r].pc \notin {"none", "grade", "release"}
  /\ Reply(r)
  /\ UNCHANGED <<status, served, answered, ability, claim, lapsed, snapshot>>

Stop ==
  /\ \E r \in Request : reqs[r].pc # "none"
  /\ reqs' = [r \in Request |-> NoRequestRow]
  /\ UNCHANGED <<status, served, answered, ability, claim, lapsed, snapshot>>

---------------------------------------------------------------------------
TypeOK ==
  /\ status \in {"none", "in_progress", "finished"}
  /\ served \subseteq Ordinal
  /\ answered \subseteq served
  /\ ability \in Seq(Step)
  /\ claim \in [Ordinal -> Request \cup {NoRequest}]
  /\ lapsed \subseteq Ordinal
  /\ snapshot \in Snapshot
  /\ reqs \in [Request -> RequestRow]

Init ==
  /\ status = "none"
  /\ served = {} /\ answered = {}
  /\ ability = << >>
  /\ claim = [o \in Ordinal |-> NoRequest]
  /\ lapsed = {}
  /\ snapshot = NoSnapshot
  /\ reqs = [r \in Request |-> NoRequestRow]

Begins ==
  \/ \E r \in Request, o \in Ordinal : AnswerReads(r, o)
  \/ \E r \in Request : NextReadsRun(r) \/ FinishReadsRun(r)

Answers(r) == ClaimGrade(r) \/ Graded(r) \/ GradeFails(r) \/ Release(r) \/ AnswerCommits(r)

Serves(r) == NextReadsPending(r) \/ NextReadsMax(r) \/ NextServes(r)

Finishes(r) == FinishCounts(r) \/ FinishReadsRows(r) \/ FinishCommits(r)

Next ==
  \/ Start
  \/ Begins
  \/ \E r \in Request : Answers(r) \/ Serves(r) \/ Finishes(r) \/ Fails(r)
  \/ \E o \in Ordinal : Lapse(o)
  \/ Stop

Spec == Init /\ [][Next]_vars

(* A request that is at work goes on, fails or dies, and the time passes   *)
(* that a claim has whose request is no longer at it.                      *)
AtIt(r, o) == reqs[r].pc \in {"grade", "release"} /\ reqs[r].item = o
Abandoned(o) == \A r \in Request : claim[o] = r => ~AtIt(r, o)

Fairness ==
  /\ \A r \in Request : WF_vars(Answers(r) \/ Serves(r) \/ Finishes(r))
  /\ \A o \in Ordinal : WF_vars(Abandoned(o) /\ Lapse(o))
LiveSpec == Spec /\ Fairness

---------------------------------------------------------------------------
(* However requests overlap, are repeated or die, each answer counts once: *)
(* the estimates took one step for every answered item that counts, and    *)
(* the n-th step has the length of step n.                                 *)
EveryAnswerCountsOnce ==
  /\ Steps = answered \cap Core
  /\ \A i, j \in 1..Len(ability) : ability[i].item = ability[j].item => i = j
  /\ \A i \in 1..Len(ability) : ability[i].number = i

(* A writing answer that was not graded is not recorded, which would count *)
(* it as wrong: who comes to record one finds the item answered.           *)
UngradedIsLate ==
  \A r \in Request :
    reqs[r].pc = "commit" /\ ~reqs[r].graded /\ reqs[r].item \in Writing =>
      reqs[r].item \in answered

(* Each answer counts once, whoever lost its claim meanwhile, and writing  *)
(* only with its grade.                                                    *)
AnswersCountOnce == EveryAnswerCountsOnce /\ UngradedIsLate

(* Every step in the estimates a snapshot is scored with is an answer the  *)
(* snapshot shows, although the two are read at different times without a  *)
(* lock, and what it shows as an answer is one.                            *)
LadderIsBacked ==
  status = "finished" =>
    /\ snapshot.ladder \subseteq snapshot.evidence
    /\ snapshot.evidence \subseteq answered

(* A finished run keeps its snapshot, its answers and its estimate,        *)
(* whatever requests were under way when it was finished.                  *)
FinishedIsFrozen ==
  [][status = "finished" =>
       UNCHANGED <<status, answered, ability, snapshot>>]_vars

(* A request that dies while it grades, or fails after, does not keep the  *)
(* item from being answered for ever: what it claimed is free again.       *)
ClaimHeals ==
  \A o \in Ordinal : claim[o] # NoRequest ~> (claim[o] = NoRequest \/ o \in lapsed)

---------------------------------------------------------------------------
(* The inductive invariant behind the safety properties.                   *)

(* Requests are about rows that are there, or about to be.                 *)
RunHasItem == status = "none" <=> served = {}
RequestsHaveItems ==
  \A r \in Request :
    /\ reqs[r].pc \in {"claim", "grade", "release", "commit"} => reqs[r].item \in served
    /\ reqs[r].pc # "none" => served # {}
    /\ reqs[r].pc = "serve" => reqs[r].item \in Ordinal

(* The number of a step is read off the answers, not off the steps.        *)
LengthIsCount == Len(ability) = Cardinality(answered \cap Core)

(* What a finishing request has read was true, and still is part of it.    *)
SeenIsBacked ==
  \A r \in Request :
    /\ reqs[r].pc \in {"count", "rows", "close"} => reqs[r].seen.ladder \subseteq Steps
    /\ reqs[r].pc = "close" => /\ reqs[r].seen.ladder \subseteq reqs[r].seen.evidence
                               /\ reqs[r].seen.evidence \subseteq answered

IInv ==
  /\ TypeOK /\ RunHasItem /\ RequestsHaveItems
  /\ LengthIsCount /\ EveryAnswerCountsOnce
  /\ UngradedIsLate
  /\ SeenIsBacked /\ LadderIsBacked

---------------------------------------------------------------------------
(* What the code's comments promise, and does not hold.                    *)

(* No two requests pay for grading the same answer at the same time: "a    *)
(* duplicate finds the claim already live and short-circuits to 409        *)
(* WITHOUT spending a Claude call" (diagnostic.ts:2115-2116).              *)
OneGradeAtATime ==
  \A q, r \in Request :
    reqs[q].pc = "grade" /\ reqs[r].pc = "grade" /\ reqs[q].item = reqs[r].item => q = r

(* "a race can never leave two items in flight (the CAT state machine's    *)
(* one-item invariant holds)" (diagnostic.ts:2484).                        *)
OneItemInFlight == Cardinality(Unanswered) <= 1

=============================================================================
