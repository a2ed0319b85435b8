------------------------------ MODULE MockExam ------------------------------
(***************************************************************************)
(* TOPIK mock exams: the progress of a sitting is saved while it goes on,  *)
(* and the sitting is graded once it is submitted (routes/topik.ts against *)
(* pages/topik/MockMode.tsx).  A sitting of an official paper is saved in  *)
(* the user's one active attempt, whatever its paper; a generated mock has *)
(* an attempt of its own, one in progress at a time.                       *)
(*                                                                         *)
(* One user, who may have several exams open.  Requests may be lost,       *)
(* overtake each other, or be carried out without the answer arriving.     *)
(***************************************************************************)
EXTENDS Naturals, FiniteSets

CONSTANTS
  TopikI, TopikII,  \* tests and sections that have a paper of each level
  Sitting,    \* exams that are taken, each one opening of the exam screen
  Attempt,    \* topik_attempts ids, given out in order
  Item,       \* questions, by their number
  Choice,
  Mock,       \* generated_mock_attempts ids, given out in order
  Taker,      \* openings of the generated mock's screen
  MaxWire,    \* requests at work at once                (bound)
  SlowSaves,  \* may a save stay on its way longer than the grace window?
  NoPaper, NoSitting, NoChoice, NoMock

(* A paper is one section of a test at one level.  The two levels share    *)
(* the numbers of their tests, each has items of its own.                  *)
Exam == TopikI \cup TopikII
Paper == (TopikI \X {1}) \cup (TopikII \X {2})
ExamOf(p) == p[1]
LevelOf(p) == p[2]

ASSUME MockExamAssumption ==
  /\ SlowSaves \in BOOLEAN /\ MaxWire \in Nat
  /\ Attempt \subseteq Nat /\ Mock \subseteq Nat
  /\ NoPaper \notin Paper /\ NoSitting \notin Sitting /\ NoMock \notin Mock
  /\ NoChoice \notin Choice

VARIABLES
  attempts,   \* topik_attempts
  responses,  \* topik_responses, by submission
  sittings,   \* the official exam screens
  wire,       \* requests of official exams on their way
  saving,     \* the PUT that holds the advisory lock, if any
  mocks,      \* generated_mock_attempts
  takers,     \* the generated mock's screens
  mail,       \* requests of generated mocks on their way
  grading     \* submissions of generated mocks between their read and write

official == <<attempts, responses, sittings, wire, saving>>
generated == <<mocks, takers, mail, grading>>
examVars == <<attempts, responses, sittings, wire, saving, mocks, takers, mail, grading>>

(* What is picked on an official paper, by the paper and the number of the *)
(* item, and what is picked on a generated mock.                           *)
Picks == [Paper \X Item -> Choice \cup {NoChoice}]
Blank == [q \in Paper \X Item |-> NoChoice]
MockPicks == [Item -> Choice \cup {NoChoice}]
MockBlank == [i \in Item |-> NoChoice]

---------------------------------------------------------------------------
(* An attempt; fresh while it is completed within the grace window, by is  *)
(* the sitting it was last saved or closed for.                            *)
AttemptRow == [status : {"none", "active", "completed", "abandoned"},
               paper : Paper \cup {NoPaper}, picks : Picks, fresh : BOOLEAN,
               by : Sitting \cup {NoSitting}]
NoAttemptRow == [status |-> "none", paper |-> NoPaper, picks |-> Blank, fresh |-> FALSE,
                 by |-> NoSitting]

SittingRow == [pc : {"unused", "exam", "submitting", "results", "error", "left"},
               paper : Paper \cup {NoPaper}, picks : Picks]
NoSittingRow == [pc |-> "unused", paper |-> NoPaper, picks |-> Blank]

(* A request on its way; awaited while the screen waits for its answer.    *)
Message == [kind : {"put", "submit", "clear"}, by : Sitting \cup {NoSitting},
            paper : Paper \cup {NoPaper}, picks : Picks, awaited : BOOLEAN]
MessageOf(s, kind) ==
  [kind |-> kind, by |-> s, paper |-> sittings'[s].paper, picks |-> sittings'[s].picks,
   awaited |-> kind = "submit"]
Put(s) == MessageOf(s, "put")
ClearFor(s) ==
  [kind |-> "clear", by |-> s, paper |-> NoPaper, picks |-> Blank, awaited |-> FALSE]
Unawaited(W, s) == {IF m.by = s THEN [m EXCEPT !.awaited = FALSE] ELSE m : m \in W}

(* A PUT between its guard and its write: allowed is what the guard saw,   *)
(* locked whether it holds the advisory lock.                              *)
Saving == [busy : BOOLEAN, locked : BOOLEAN, allowed : BOOLEAN, message : Message]
NotSaving == [busy |-> FALSE, locked |-> FALSE, allowed |-> FALSE, message |-> ClearFor(NoSitting)]

Send(M) == Cardinality(wire \cup M) <= MaxWire /\ wire' = wire \cup M

Active == {a \in Attempt : attempts[a].status = "active"}
NextAttempt == {a \in Attempt : \A b \in Attempt : attempts[b].status = "none" <=> b >= a}
GradedSittings == {x.by : x \in responses}

(* An attempt is looked up by test and section, not by level.              *)
IsOf(a, e) == ExamOf(attempts[a].paper) = e

FreshlyCompleted(e) ==
  \E a \in Attempt : attempts[a].status = "completed" /\ IsOf(a, e) /\ attempts[a].fresh

---------------------------------------------------------------------------
(* The exam screen.  It saves when it opens, with every answer, every 15 s *)
(* and when it is left, until it is submitted.                             *)
StartSection(s, p) ==
  /\ sittings[s].pc = "unused"
  /\ sittings' = [sittings EXCEPT ![s] = [pc |-> "exam", paper |-> p, picks |-> Blank]]
  /\ Send({Put(s)})
  /\ UNCHANGED <<attempts, responses, saving, generated>>

(* The paper of a test and section that is served when no level is named.  *)
Served(e) == <<e, IF e \in TopikII THEN 2 ELSE 1>>

(* The resume banner asks for the attempt's test and section, without its  *)
(* level, and lays the saved picks over the paper that is served.          *)
Resume(s) ==
  /\ sittings[s].pc = "unused"
  /\ \E a \in Active : sittings' = [sittings EXCEPT ![s] =
       [pc |-> "exam", paper |-> Served(ExamOf(attempts[a].paper)),
        picks |-> attempts[a].picks]]
  /\ Send({Put(s)})
  /\ UNCHANGED <<attempts, responses, saving, generated>>

Answer(s, i, c) ==
  /\ sittings[s].pc = "exam"
  /\ sittings' = [sittings EXCEPT ![s].picks[<<sittings[s].paper, i>>] = c]
  /\ Send({Put(s)})
  /\ UNCHANGED <<attempts, responses, saving, generated>>

Autosave(s) ==
  /\ sittings[s].pc = "exam"
  /\ UNCHANGED sittings
  /\ Send({Put(s)})
  /\ UNCHANGED <<attempts, responses, saving, generated>>

Submit(s) ==
  /\ sittings[s].pc \in {"exam", "error"}
  /\ sittings' = [sittings EXCEPT ![s].pc = "submitting"]
  /\ Send({MessageOf(s, "submit")})
  /\ UNCHANGED <<attempts, responses, saving, generated>>

(* A timeout or a lost connection, whatever has become of the request.     *)
SubmitFails(s) ==
  /\ sittings[s].pc = "submitting"
  /\ sittings' = [sittings EXCEPT ![s].pc = "error"]
  /\ wire' = Unawaited(wire, s)
  /\ UNCHANGED <<attempts, responses, saving, generated>>

Leave(s) ==
  /\ sittings[s].pc \in {"exam", "submitting", "error", "results"}
  /\ sittings' = [sittings EXCEPT ![s].pc = "left"]
  /\ IF sittings[s].pc = "exam" THEN Send({Put(s)}) ELSE wire' = Unawaited(wire, s)
  /\ UNCHANGED <<attempts, responses, saving, generated>>

(* The resume banner's discard.                                            *)
Discard ==
  /\ Active # {}
  /\ Send({ClearFor(NoSitting)})
  /\ UNCHANGED <<attempts, responses, sittings, saving, generated>>

Lose(m) ==
  /\ m \in wire /\ wire' = wire \ {m}
  /\ UNCHANGED <<attempts, responses, sittings, saving, generated>>

---------------------------------------------------------------------------
(* Mutant: a PUT does not wait for its turn, nor hold up a submission.     *)
PutBeginsUnlocked(m) ==
  /\ m \in wire /\ m.kind = "put" /\ ~saving.busy
  /\ wire' = wire \ {m}
  /\ saving' = [busy |-> TRUE, locked |-> FALSE, allowed |-> ~FreshlyCompleted(ExamOf(m.paper)),
                message |-> m]
  /\ UNCHANGED <<attempts, responses, sittings, generated>>

(* PUT /topik/attempt: under the user's advisory lock, which submissions   *)
(* take too, one statement checks that the paper was not just graded and   *)
(* then writes the active attempt, making it this paper's, or a new one.   *)
PutBegins(m) ==
  /\ m \in wire /\ m.kind = "put" /\ ~saving.busy
  /\ wire' = wire \ {m}
  /\ saving' = [busy |-> TRUE, locked |-> TRUE, allowed |-> ~FreshlyCompleted(ExamOf(m.paper)),
                message |-> m]
  /\ UNCHANGED <<attempts, responses, sittings, generated>>

Saved(m) == [status |-> "active", paper |-> m.paper, picks |-> m.picks, fresh |-> FALSE,
             by |-> m.by]

(* Mutant: an attempt that was discarded is written over too.              *)
PutWritesOver ==
  LET Old == {a \in Attempt : attempts[a].status \in {"active", "abandoned"}} IN
  /\ saving.busy /\ saving' = NotSaving
  /\ IF ~saving.allowed THEN UNCHANGED attempts
     ELSE \E a \in (IF Old # {} THEN Old ELSE NextAttempt) :
            attempts' = [attempts EXCEPT ![a] = Saved(saving.message)]
  /\ UNCHANGED <<responses, sittings, wire, generated>>

PutWrites ==
  /\ saving.busy /\ saving' = NotSaving
  /\ IF ~saving.allowed THEN UNCHANGED attempts
     ELSE IF Active # {}
     THEN \E a \in Active : attempts' = [attempts EXCEPT ![a] = Saved(saving.message)]
     ELSE \E a \in NextAttempt : attempts' = [attempts EXCEPT ![a] = Saved(saving.message)]
  /\ UNCHANGED <<responses, sittings, wire, generated>>

(* The server stops, or the transaction fails.                             *)
PutAborts ==
  /\ saving.busy /\ saving' = NotSaving
  /\ UNCHANGED <<attempts, responses, sittings, wire, generated>>

(* Mutant: the level that the attempt was saved with is kept.              *)
ClosedUnstamped(row, m) ==
  [row EXCEPT !.status = "completed", !.fresh = TRUE, !.by = m.by]
Closed(row, m) ==
  [row EXCEPT !.status = "completed", !.fresh = TRUE, !.by = m.by,
              !.paper = <<ExamOf(@), LevelOf(m.paper)>>]
Reusable(m) == {a \in Active : IsOf(a, ExamOf(m.paper))}
CreatedFor(p) == [NoAttemptRow EXCEPT !.paper = p]

(* The items of the paper are graded.  Picks of other items are ignored.   *)
OnPaper(p, picks) ==
  [q \in Paper \X Item |-> IF q[1] = p THEN picks[q] ELSE NoChoice]

(* POST /topik/mock/submit: one transaction closes the active attempt of   *)
(* the test and section, stamping it with the level that is graded, or     *)
(* makes a completed one, and stores the answers with its id.  The screen  *)
(* that gets the answer clears the active attempt as a mop-up.             *)
Grade(m) ==
  /\ m \in wire /\ m.kind = "submit" /\ ~saving.locked
  /\ \E a \in Attempt :
       /\ IF Reusable(m) # {}
          THEN a \in Reusable(m) /\ attempts' = [attempts EXCEPT ![a] = Closed(@, m)]
          ELSE /\ a \in NextAttempt
               /\ attempts' = [attempts EXCEPT ![a] = Closed(CreatedFor(m.paper), m)]
       /\ responses' = responses \cup
            {[attempt |-> a, by |-> m.by, picks |-> OnPaper(m.paper, m.picks)]}
  /\ \/ /\ m.awaited
        /\ sittings' = [sittings EXCEPT ![m.by].pc = "results"]
        /\ wire' = (wire \ {m}) \cup {ClearFor(m.by)}
     \/ UNCHANGED sittings /\ wire' = wire \ {m}     \* the answer is lost
  /\ UNCHANGED <<saving, generated>>

(* DELETE /topik/attempt takes no lock.                                    *)
Clear(m) ==
  /\ m \in wire /\ m.kind = "clear" /\ wire' = wire \ {m}
  /\ attempts' = [a \in Attempt |-> IF a \in Active
       THEN [attempts[a] EXCEPT !.status = "abandoned"] ELSE attempts[a]]
  /\ UNCHANGED <<responses, sittings, saving, generated>>

(* 15 s have passed.  Unless saves are slow, none that was sent before the *)
(* grading is still on its way.                                            *)
Age(a) ==
  /\ attempts[a].fresh
  /\ SlowSaves \/ ~\E m \in wire \cup {saving.message} : m.kind = "put" /\ m.by \in GradedSittings
  /\ attempts' = [attempts EXCEPT ![a].fresh = FALSE]
  /\ UNCHANGED <<responses, sittings, wire, saving, generated>>

---------------------------------------------------------------------------
(* A generated mock; scored is what its score was computed from.           *)
MockRow == [status : {"none", "in_progress", "completed"}, picks : MockPicks, scored : MockPicks]
NoMockRow == [status |-> "none", picks |-> MockBlank, scored |-> MockBlank]

TakerRow == [pc : {"select", "loading", "exam", "submitting", "results", "error"},
             mock : Mock \cup {NoMock}, picks : MockPicks]
NoTakerRow == [pc |-> "select", mock |-> NoMock, picks |-> MockBlank]

Mail == [kind : {"put", "submit"}, by : Taker, mock : Mock, picks : MockPicks, awaited : BOOLEAN]
MailOf(t, kind) ==
  [kind |-> kind, by |-> t, mock |-> takers'[t].mock, picks |-> takers'[t].picks,
   awaited |-> kind = "submit"]

InProgress == {k \in Mock : mocks[k].status = "in_progress"}
NextMock == {k \in Mock : \A l \in Mock : mocks[l].status = "none" <=> l >= k}
SendMail(m) ==
  Cardinality(mail \cup {m}) + Cardinality(grading) <= MaxWire /\ mail' = mail \cup {m}

(* Opening the exam shows the attempt's own progress.                      *)
Opened(k) == [pc |-> "exam", mock |-> k, picks |-> mocks[k].picks]

(* POST /topik/mock/generated: the attempt in progress, or a new one; of   *)
(* two requests that find none the unique index lets one insert, and the   *)
(* other reads again.                                                      *)
Assemble(t) ==
  /\ takers[t].pc \in {"select", "error"}
  /\ \/ \E k \in InProgress : takers' = [takers EXCEPT ![t] = Opened(k)]
     \/ InProgress = {} /\ takers' = [takers EXCEPT ![t].pc = "loading"]
  /\ UNCHANGED <<mocks, mail, grading, official>>

InsertMock(t) ==
  /\ takers[t].pc = "loading"
  /\ IF InProgress # {}
     THEN /\ \E k \in InProgress : takers' = [takers EXCEPT ![t] = Opened(k)]
          /\ UNCHANGED mocks
     ELSE \E k \in NextMock :
            /\ mocks' = [mocks EXCEPT ![k].status = "in_progress"]
            /\ takers' = [takers EXCEPT ![t] = [pc |-> "exam", mock |-> k, picks |-> MockBlank]]
  /\ UNCHANGED <<mail, grading, official>>

LoadFails(t) ==
  /\ takers[t].pc = "loading"
  /\ takers' = [takers EXCEPT ![t].pc = "error"]
  /\ UNCHANGED <<mocks, mail, grading, official>>

Pick(t, i, c) ==
  /\ takers[t].pc = "exam"
  /\ takers' = [takers EXCEPT ![t].picks[i] = c]
  /\ SendMail(MailOf(t, "put"))
  /\ UNCHANGED <<mocks, grading, official>>

(* Mutant: submitted without an attempt.                                   *)
SubmitMockUnassembled(t) ==
  /\ takers[t].pc \in {"exam", "select"}
  /\ takers' = [takers EXCEPT ![t].pc = "submitting"]
  /\ SendMail(MailOf(t, "submit"))
  /\ UNCHANGED <<mocks, grading, official>>
SubmitMock(t) ==
  /\ takers[t].pc = "exam"
  /\ takers' = [takers EXCEPT ![t].pc = "submitting"]
  /\ SendMail(MailOf(t, "submit"))
  /\ UNCHANGED <<mocks, grading, official>>

SubmitMockFails(t) ==
  /\ takers[t].pc = "submitting"
  /\ takers' = [takers EXCEPT ![t].pc = "error"]
  /\ mail' = Unawaited(mail, t)
  /\ grading' = Unawaited(grading, t)
  /\ UNCHANGED <<mocks, official>>

LoseMail(m) ==
  /\ m \in mail /\ mail' = mail \ {m}
  /\ UNCHANGED <<mocks, takers, grading, official>>

(* PUT /topik/mock/generated/:id                                           *)
Progress(m) ==
  /\ m \in mail /\ m.kind = "put" /\ mail' = mail \ {m}
  /\ mocks' = IF mocks[m.mock].status = "in_progress"
              THEN [mocks EXCEPT ![m.mock].picks = m.picks] ELSE mocks
  /\ UNCHANGED <<takers, grading, official>>

(* POST /topik/mock/generated/:id/submit reads the attempt, lays the       *)
(* submitted picks over the saved ones, scores the result and writes both  *)
(* if the attempt is still in progress.                                    *)
(* Mutant: the saved picks are laid over the submitted ones.               *)
MergedUnder(saved, picks) ==
  [i \in Item |-> IF saved[i] # NoChoice THEN saved[i] ELSE picks[i]]
Merged(saved, picks) == [i \in Item |-> IF picks[i] # NoChoice THEN picks[i] ELSE saved[i]]

GradeReads(m) ==
  /\ m \in mail /\ m.kind = "submit" /\ mail' = mail \ {m}
  /\ grading' = IF mocks[m.mock].status = "in_progress"
       THEN grading \cup {[m EXCEPT !.picks = Merged(mocks[m.mock].picks, m.picks)]}
       ELSE grading
  /\ UNCHANGED <<mocks, takers, official>>

GradeWrites(m) ==
  /\ m \in grading /\ grading' = grading \ {m}
  /\ IF mocks[m.mock].status = "in_progress"
     THEN /\ mocks' = [mocks EXCEPT ![m.mock] =
               [status |-> "completed", picks |-> m.picks, scored |-> m.picks]]
          /\ \/ /\ m.awaited
                /\ takers' = [takers EXCEPT ![m.by].pc = "results"]
             \/ UNCHANGED takers
     ELSE UNCHANGED <<mocks, takers>>
  /\ UNCHANGED <<mail, official>>

---------------------------------------------------------------------------
ExamTypeOK ==
  /\ attempts \in [Attempt -> AttemptRow]
  /\ responses \subseteq [attempt : Attempt, by : Sitting, picks : Picks]
  /\ sittings \in [Sitting -> SittingRow]
  /\ wire \subseteq Message
  /\ saving \in Saving
  /\ mocks \in [Mock -> MockRow]
  /\ takers \in [Taker -> TakerRow]
  /\ mail \subseteq Mail
  /\ grading \subseteq Mail

ExamInit ==
  /\ attempts = [a \in Attempt |-> NoAttemptRow]
  /\ responses = {}
  /\ sittings = [s \in Sitting |-> NoSittingRow]
  /\ wire = {}
  /\ saving = NotSaving
  /\ mocks = [k \in Mock |-> NoMockRow]
  /\ takers = [t \in Taker |-> NoTakerRow]
  /\ mail = {}
  /\ grading = {}

Screens ==
  \/ \E s \in Sitting : Resume(s) \/ Autosave(s) \/ Submit(s) \/ SubmitFails(s) \/ Leave(s)
  \/ \E s \in Sitting, p \in Paper : StartSection(s, p)
  \/ \E s \in Sitting, i \in Item, c \in Choice : Answer(s, i, c)
  \/ Discard

Requests ==
  \/ \E m \in wire : Lose(m) \/ PutBegins(m) \/ Grade(m) \/ Clear(m)
  \/ PutWrites
  \/ PutAborts
  \/ \E a \in Attempt : Age(a)

GeneratedMocks ==
  \/ \E t \in Taker : Assemble(t) \/ InsertMock(t) \/ LoadFails(t) \/ SubmitMock(t)
                       \/ SubmitMockFails(t)
  \/ \E t \in Taker, i \in Item, c \in Choice : Pick(t, i, c)
  \/ \E m \in mail : LoseMail(m) \/ Progress(m) \/ GradeReads(m)
  \/ \E m \in grading : GradeWrites(m)

ExamNext == Screens \/ Requests \/ GeneratedMocks

ExamSpec == ExamInit /\ [][ExamNext]_examVars

---------------------------------------------------------------------------
(* A sitting that was graded is not offered again: no active attempt holds *)
(* its progress, although saves it sent before may arrive after.  The test *)
(* and section of a fresh grade have no active attempt at all.             *)
GradedIsNotOffered ==
  \A a \in Active : /\ attempts[a].by \notin GradedSittings
                    /\ ~FreshlyCompleted(ExamOf(attempts[a].paper))

(* What is graded is what was submitted, whatever is saved or repeated     *)
(* before or after, and whichever level the attempt was saved with: a      *)
(* completed attempt is of the paper that its one submission was shown,    *)
(* with all the answers the screen had to that paper's items.              *)
GradedAsSubmitted ==
  /\ \A x \in responses :
       /\ attempts[x.attempt].status = "completed"
       /\ attempts[x.attempt].paper = sittings[x.by].paper
       /\ x.picks = OnPaper(sittings[x.by].paper, sittings[x.by].picks)
  /\ \A x, y \in responses : x.attempt = y.attempt => x = y
  /\ \A a \in Attempt : attempts[a].status = "completed" =>
       \E x \in responses : x.attempt = a

(* Results are shown only of what is stored.                               *)
ShownIsGraded ==
  /\ \A s \in Sitting : sittings[s].pc = "results" => s \in GradedSittings
  /\ \A t \in Taker : takers[t].pc = "results" => mocks[takers[t].mock].status = "completed"

(* A learner sees the grade of what was submitted, and no other.           *)
ResultsAreGraded == GradedAsSubmitted /\ ShownIsGraded

(* History is final: a completed or abandoned attempt keeps its paper and  *)
(* its answers, a completed mock its picks and its score.                  *)
HistoryIsFinal ==
  [][/\ \A a \in Attempt : attempts[a].status \in {"completed", "abandoned"} =>
          attempts'[a] = [attempts[a] EXCEPT !.fresh = attempts'[a].fresh]
     /\ \A k \in Mock : mocks[k].status = "completed" => mocks'[k] = mocks[k]]_examVars

(* Of racing requests for a generated mock all take the same attempt.      *)
OneInProgress == \A k, l \in InProgress : k = l

(* The score is that of the picks shown with it, and when the screen gets  *)
(* its result every pick made on it has counted.                           *)
ScoredAsPicked ==
  /\ \A k \in Mock : mocks[k].status = "completed" => mocks[k].scored = mocks[k].picks
  /\ \A t \in Taker : takers[t].pc = "results" =>
       \A i \in Item : takers[t].picks[i] # NoChoice =>
         mocks[takers[t].mock].scored[i] = takers[t].picks[i]

(* One attempt at a generated mock is under way, and scored as it was taken*)
MocksAddUp == OneInProgress /\ ScoredAsPicked

---------------------------------------------------------------------------
(* The inductive invariant behind the safety properties.                   *)

OneActive == \A a, b \in Active : a = b

(* A saving PUT holds the lock, an idle one no message.                    *)
SavingIsLocked ==
  /\ saving.locked = saving.busy
  /\ saving.message.kind = (IF saving.busy THEN "put" ELSE "clear")

(* A request is of a sitting under way and its paper, a submission has its *)
(* final picks, and the active attempt was saved for a sitting of its      *)
(* paper.                                                                  *)
RequestsAreOfSittings ==
  \A m \in wire \cup {saving.message} : m.kind # "clear" =>
    /\ m.by \in Sitting /\ sittings[m.by].pc # "unused"
    /\ m.paper = sittings[m.by].paper
    /\ m.kind = "submit" => sittings[m.by].pc # "exam" /\ m.picks = sittings[m.by].picks
ActiveIsOfSitting ==
  \A a \in Active :
    /\ attempts[a].by \in Sitting /\ sittings[attempts[a].by].pc # "unused"
    /\ attempts[a].paper = sittings[attempts[a].by].paper

(* A screen shows a paper.                                                 *)
SittingsHavePaper ==
  \A s \in Sitting : sittings[s].pc # "unused" => sittings[s].paper \in Paper

(* A graded sitting is over, so its picks change no more.                  *)
GradedIsOver == \A s \in GradedSittings : sittings[s].pc \notin {"unused", "exam"}

(* No attempt of a test and section is active while its grace window lasts.*)
GraceHolds ==
  /\ \A a \in Active : ~FreshlyCompleted(ExamOf(attempts[a].paper))
  /\ saving.busy /\ saving.allowed => ~FreshlyCompleted(ExamOf(saving.message.paper))

(* Without slow saves a graded sitting's save that is still on its way     *)
(* meets the grace window, so none was let through.                        *)
SavesMeetGrace ==
  /\ \A m \in wire : m.kind = "put" /\ m.by \in GradedSittings =>
       FreshlyCompleted(ExamOf(m.paper))
  /\ saving.busy /\ saving.allowed => saving.message.by \notin GradedSittings
  /\ \A a \in Active : attempts[a].by \notin GradedSittings

(* Whose answer a screen awaits has all its picks.                         *)
AwaitedHasPicks ==
  \A m \in mail \cup grading : m.awaited =>
    /\ takers[m.by].pc \in {"submitting", "results"}
    /\ m.mock = takers[m.by].mock
    /\ \A i \in Item : takers[m.by].picks[i] # NoChoice => m.picks[i] = takers[m.by].picks[i]
TakersHaveMock ==
  \A t \in Taker : takers[t].pc \in {"exam", "submitting", "results"} => takers[t].mock \in Mock

ExamIInv ==
  /\ ExamTypeOK
  /\ OneActive /\ SavingIsLocked /\ RequestsAreOfSittings /\ ActiveIsOfSitting
  /\ SittingsHavePaper /\ GradedIsOver /\ GraceHolds /\ (~SlowSaves => SavesMeetGrace)
  /\ AwaitedHasPicks /\ TakersHaveMock
  /\ ResultsAreGraded /\ MocksAddUp

---------------------------------------------------------------------------
(* What the code's comments promise of papers, and does not hold.          *)

(* A resumed exam is the one that was left, so that every answer on an     *)
(* exam screen is to an item of its paper: "F-007 resume, which replays    *)
(* `POST /topik/mock {sourceTest, section}`, re-fetches the identical      *)
(* paper" (topik.ts:1840-1841).                                            *)
AnswersAreToThePaper ==
  \A s \in Sitting, q \in Paper \X Item :
    sittings[s].picks[q] # NoChoice => q[1] = sittings[s].paper

(* An attempt is abandoned by its owner's discard, or mopped up after its  *)
(* own paper was graded: "if the user somehow has an active attempt for a  *)
(* different paper, it stays resumable" (topik.ts:2112-2113).              *)
OtherPapersStay ==
  [][\A a \in Active : attempts'[a].status = "abandoned" =>
       \E m \in wire \ wire' : m.by \in Sitting => sittings[m.by].paper = attempts[a].paper]_examVars

=============================================================================
