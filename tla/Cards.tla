------------------------------- MODULE Cards -------------------------------
(***************************************************************************)
(* Flashcards: how cards come and go (routes/vocab.ts, vocabLists.ts,      *)
(* hanja.ts), how a rating is applied to a card exactly once although      *)
(* devices hold stale versions and answers get lost (services/             *)
(* cardReview.ts against the study session of pages/Review.tsx), and the   *)
(* grammar drill that is scored by the model and rates a card of its own   *)
(* (routes/grammarDrill.ts).  The scheduler is services/fsrs.ts.           *)
(*                                                                         *)
(* One user, who may study on several devices.                             *)
(***************************************************************************)
EXTENDS Integers, FiniteSets

CONSTANTS
  Word, Pattern, Hanja,  \* what a card may be about
  CardId,                \* vocab_cards ids, never reused
  Device,                \* open study sessions
  Rating,                \* the ratings a learner gives, each one event
  Attempt,               \* grammar_drill_attempts ids
  Request,               \* requests at work on the server at once  (bound)
  MaxVersion,            \* of a card                               (bound)
  Grades,                \* that are given                          (bound)
  NoCard, NoDevice, NoTarget, NoAttempt

Target == Word \cup Pattern \cup Hanja
Event == Rating \cup Attempt

ASSUME CardsAssumption ==
  /\ MaxVersion \in Nat /\ IsFiniteSet(Event)
  /\ Grades \subseteq {"again", "hard", "good", "easy"}
  /\ Rating \cap Attempt = {} /\ Word \cap Pattern = {}
  /\ Word \cap Hanja = {} /\ Pattern \cap Hanja = {}
  /\ NoCard \notin CardId /\ NoDevice \notin Device
  /\ NoTarget \notin Target /\ NoAttempt \notin Attempt

VARIABLES
  cards,   \* vocab_cards
  log,     \* card_reviews
  drills,  \* grammar_drill_attempts
  held,    \* the version of each card a study session goes by, 0 if none
  rated,   \* the learner's ratings, as the session that took them sees them
  late,    \* review requests on their way that no session waits for
  adding,  \* requests that looked for a card and are about to insert one
  scoring  \* drill submissions at the model

vars == <<cards, log, drills, held, rated, late, adding, scoring>>

---------------------------------------------------------------------------
(* The scheduler.  Stability is in ten-thousandths of a day, as the column *)
(* NUMERIC(10, 4) keeps it, difficulty in tenths.                          *)
Grade == {"again", "hard", "good", "easy"}
State == {"new", "learning", "review", "relearning"}

DifficultyDelta == [again |-> 10, hard |-> 5, good |-> 0, easy |-> -5]
BaseStability == [again |-> 0, hard |-> 0, good |-> 10000, easy |-> 40000]
(* Ten times the factor.                                                   *)
Multiplier == [hard |-> 12, good |-> 20, easy |-> 30]
StabilityMax == 365000000
Clamp(x, lo, hi) == IF x < lo THEN lo ELSE IF x > hi THEN hi ELSE x
CeilDiv(x, y) == (x + y - 1) \div y

Memory == [state : State, stability : 0..StabilityMax, difficulty : 10..100]
NewMemory == [state |-> "new", stability |-> 0, difficulty |-> 50]

(* Mutant: a lapse leaves the stability it would grow from.                *)
PriorByReps(m, reps) == reps > 0
(* Mutant: a success is always scheduled from the base.                    *)
NeverPriorStability(m, reps) == FALSE
HasPriorStability(m, reps) == reps > 0 /\ m.stability > 0

(* Ten times the stability a grade leaves, before its bounds.              *)
Grown(m, reps, g) ==
  IF HasPriorStability(m, reps) /\ g # "again"
  THEN m.stability * Multiplier[g] ELSE 10 * BaseStability[g]

NextState(m, reps, g) ==
  IF g = "again" THEN "relearning"
  ELSE IF HasPriorStability(m, reps) THEN "review"
  ELSE IF reps = 0 THEN "learning"
  ELSE IF BaseStability[g] = 0 THEN "relearning" ELSE "review"

Schedule(m, reps, g) ==
  [state |-> NextState(m, reps, g),
   stability |-> Clamp((Grown(m, reps, g) + 5) \div 10, 0, StabilityMax),
   difficulty |-> Clamp(m.difficulty + DifficultyDelta[g], 10, 100)]

(* 0 is a step of minutes, not of days.                                    *)
ScheduledDays(m, reps, g) ==
  IF g = "again" THEN 0
  ELSE Clamp(CeilDiv(Grown(m, reps, g), 100000), 0, StabilityMax \div 10000)

---------------------------------------------------------------------------
Row == [status : {"none", "live", "deleted"}, target : Target \cup {NoTarget},
        version : Nat, memory : Memory, days : Nat, reps : Nat, lapses : Nat]
NewRow(s, t, v) == [status |-> s, target |-> t, version |-> v, memory |-> NewMemory,
                    days |-> 0, reps |-> 0, lapses |-> 0]
NoRow == NewRow("none", NoTarget, 0)

(* A review.  The columns are the card, the grade, the memory before and   *)
(* after and the days; version (the card's, before) and by are history.    *)
Review == [card : CardId, version : Nat, by : Event, grade : Grade,
           before : Memory, after : Memory, days : Nat]

(* A rating: how it is given, the card and the version it names, and the   *)
(* version the server answered with, 0 for an error.                       *)
RatingState == {"unused", "sent", "answered", "saved", "failed", "dropped"}
Rated == [pc : RatingState, via : {"flash", "cloze", "hanja"},
          dev : Device \cup {NoDevice}, card : CardId \cup {NoCard}, grade : Grade,
          version : Nat, result : Nat]
Unused == [pc |-> "unused", via |-> "flash", dev |-> NoDevice, card |-> NoCard,
           grade |-> "again", version |-> 0, result |-> 0]

(* A request on its way: what the server gets to see of a rating.          *)
Message == [by : Rating, via : {"flash", "cloze", "hanja"}, card : CardId,
            grade : Grade, version : Nat]

Drill == [status : {"none", "open", "scored"}, pattern : Pattern \cup {NoTarget}]
NoDrill == [status |-> "none", pattern |-> NoTarget]

Adding == [pc : {"idle", "insert"}, mining : BOOLEAN, words : SUBSET Word]
NotAdding == [pc |-> "idle", mining |-> FALSE, words |-> {}]

Live(c) == cards[c].status = "live"
LiveCards(t) == {c \in CardId : Live(c) /\ cards[c].target = t}
Free == {c \in CardId : cards[c].status = "none"}
WordDeck == {c \in CardId : Live(c) /\ cards[c].target \in Word}
HanjaDeck == {c \in CardId : Live(c) /\ cards[c].target \in Hanja}

TypeOK ==
  /\ cards \in [CardId -> Row]
  /\ log \subseteq Review
  /\ drills \in [Attempt -> Drill]
  /\ held \in [Device -> [CardId -> Nat]]
  /\ rated \in [Rating -> Rated]
  /\ late \subseteq Message
  /\ adding \in [Request -> Adding]
  /\ scoring \in [Request -> Attempt \cup {NoAttempt}]

Init ==
  /\ cards = [c \in CardId |-> NoRow]
  /\ log = {}
  /\ drills = [a \in Attempt |-> NoDrill]
  /\ held = [d \in Device |-> [c \in CardId |-> 0]]
  /\ rated = [e \in Rating |-> Unused]
  /\ late = {}
  /\ adding = [q \in Request |-> NotAdding]
  /\ scoring = [q \in Request |-> NoAttempt]

---------------------------------------------------------------------------
(* Adding cards.  Banking a word, mining one and starting a corpus first   *)
(* look which words have a live card and then insert, in a statement or a  *)
(* transaction of READ COMMITTED that locks no card: two of them may both  *)
(* find none.  Mining first upserts the word, whose row lock keeps another *)
(* mining of it out until the commit.                                      *)

Mining(w) == \E q \in Request : adding[q].mining /\ w \in adding[q].words

Lookup(q, mining, ws) ==
  /\ adding[q].pc = "idle" /\ scoring[q] = NoAttempt
  /\ ws # {} /\ \A w \in ws : LiveCards(w) = {}
  /\ mining => Cardinality(ws) = 1 /\ \A w \in ws : ~Mining(w)
  /\ adding' = [adding EXCEPT ![q] = [pc |-> "insert", mining |-> mining, words |-> ws]]
  /\ UNCHANGED <<cards, log, drills, held, rated, late, scoring>>

(* One card for each target of T, under ids not used before.               *)
Create(T) ==
  \E f \in [T -> Free] :
    /\ \A t, u \in T : t # u => f[t] # f[u]
    /\ cards' = [c \in CardId |-> IF \E t \in T : f[t] = c
                   THEN NewRow("live", CHOOSE t \in T : f[t] = c, 1) ELSE cards[c]]

(* Mutant: no unique index.                                                *)
InsertUnchecked(q) ==
  /\ adding[q].pc = "insert" /\ Create(adding[q].words)
  /\ adding' = [adding EXCEPT ![q] = NotAdding]
  /\ UNCHANGED <<log, drills, held, rated, late, scoring>>
(* uq_vocab_cards_user_vocab_recognition refuses the whole insert when one *)
(* of the words has got a live card meanwhile.                             *)
Insert(q) ==
  /\ adding[q].pc = "insert"
  /\ IF \A w \in adding[q].words : LiveCards(w) = {}
     THEN Create(adding[q].words) ELSE UNCHANGED cards
  /\ adding' = [adding EXCEPT ![q] = NotAdding]
  /\ UNCHANGED <<log, drills, held, rated, late, scoring>>

(* ON CONFLICT DO NOTHING: the words of a list, a hanja character.         *)
Seed(ws) ==
  /\ Create({w \in ws : LiveCards(w) = {}})
  /\ UNCHANGED <<log, drills, held, rated, late, adding, scoring>>

HanjaCard(h) ==
  /\ LiveCards(h) = {} /\ Create({h})
  /\ UNCHANGED <<log, drills, held, rated, late, adding, scoring>>

Delete(cs) == cards' = [c \in CardId |->
  IF c \in cs THEN [cards[c] EXCEPT !.status = "deleted"] ELSE cards[c]]

(* DELETE /cards/:cardId and POST /cards/clear, which leave hanja and      *)
(* grammar cards alone.                                                    *)
Remove(c) ==
  /\ cards[c].status # "none" /\ cards[c].target \in Word
  /\ Delete({c})
  /\ UNCHANGED <<log, drills, held, rated, late, adding, scoring>>

Clear ==
  /\ Delete(WordDeck)
  /\ UNCHANGED <<log, drills, held, rated, late, adding, scoring>>

---------------------------------------------------------------------------
(* A review: the card's next memory from its locked row, the version's     *)
(* guard, the log, one transaction.                                        *)
Logged(c, e, g) ==
  LET row == cards[c] IN
  [card |-> c, version |-> row.version, by |-> e, grade |-> g, before |-> row.memory,
   after |-> Schedule(row.memory, row.reps, g),
   days |-> ScheduledDays(row.memory, row.reps, g)]

Reviewed(row, g) ==
  [row EXCEPT !.memory = Schedule(row.memory, row.reps, g),
              !.days = ScheduledDays(row.memory, row.reps, g),
              !.reps = row.reps + 1,
              !.lapses = row.lapses + (IF g = "again" THEN 1 ELSE 0),
              !.version = row.version + 1]

(* Mutant: a removed card is found.                                        *)
FoundDeleted(m) == cards[m.card].status # "none"
(* The card is there for the route the request came by: the cloze route    *)
(* joins the card's word, the hanja route takes hanja cards only.          *)
Found(m) ==
  /\ Live(m.card)
  /\ m.via = "cloze" => cards[m.card].target \in Word
  /\ m.via = "hanja" => cards[m.card].target \in Hanja

Accepts(m) == Found(m) /\ cards[m.card].version = m.version

ApplyCardReview(m) ==
  IF Accepts(m)
  THEN /\ cards' = [cards EXCEPT ![m.card] = Reviewed(@, m.grade)]
       /\ log' = log \cup {Logged(m.card, m.by, m.grade)}
  ELSE UNCHANGED <<cards, log>>

MessageOf(e) == [by |-> e, via |-> rated[e].via, card |-> rated[e].card,
                 grade |-> rated[e].grade, version |-> rated[e].version]

---------------------------------------------------------------------------
(* A study session: it goes by the versions it fetched with the deck and   *)
(* by those its own saved reviews were answered with.  Which cards are due *)
(* is left open: any held card may be rated.                               *)
Open(d) ==
  /\ held[d] = [c \in CardId |-> 0]
  /\ \E deck \in {WordDeck, HanjaDeck} :
       /\ deck # {}
       /\ held' = [held EXCEPT ![d] =
            [c \in CardId |-> IF c \in deck THEN cards[c].version ELSE 0]]
  /\ UNCHANGED <<cards, log, drills, rated, late, adding, scoring>>

Waiting(d) == {e \in Rating : rated[e].dev = d /\ rated[e].pc = "sent"}
Mine(d) == {e \in Rating : rated[e].dev = d /\ rated[e].pc # "saved"}

(* The screen is left: requests on their way go on, nobody waits for them. *)
Leave(d) ==
  /\ held[d] # [c \in CardId |-> 0]
  /\ held' = [held EXCEPT ![d] = [c \in CardId |-> 0]]
  /\ late' = late \cup {MessageOf(e) : e \in Waiting(d)}
  /\ rated' = [e \in Rating |->
       IF e \in Mine(d) THEN [rated[e] EXCEPT !.pc = "dropped"] ELSE rated[e]]
  /\ UNCHANGED <<cards, log, drills, adding, scoring>>

(* The flash card goes on at once; a cloze or a hanja card waits for the   *)
(* answer.  The cloze route grades good, hard or again.                    *)
Busy(d) == \E e \in Rating : rated[e].dev = d /\ rated[e].via # "flash"
                             /\ rated[e].pc \in {"sent", "answered"}

Rate(d, e, c, g, via) ==
  /\ rated[e].pc = "unused" /\ held[d][c] # 0 /\ ~Busy(d)
  /\ (via = "hanja") = (cards[c].target \in Hanja)
  /\ via = "cloze" => g # "easy"
  /\ rated' = [rated EXCEPT ![e] =
       [pc |-> "sent", via |-> via, dev |-> d, card |-> c, grade |-> g,
        version |-> held[d][c], result |-> 0]]
  /\ UNCHANGED <<cards, log, drills, held, late, adding, scoring>>

Answer(e) ==
  /\ rated[e].pc = "sent"
  /\ cards[rated[e].card].version < MaxVersion
  /\ ApplyCardReview(MessageOf(e))
  /\ rated' = [rated EXCEPT ![e].pc = "answered",
       ![e].result = IF Accepts(MessageOf(e)) THEN rated[e].version + 1 ELSE 0]
  /\ UNCHANGED <<drills, held, late, adding, scoring>>

(* An error of the session's own: its request was lost, is still on its    *)
(* way, or was carried out and the answer lost.                            *)
Failed(r) == [r EXCEPT !.pc = IF r.via = "flash" THEN "failed" ELSE "dropped", !.result = 0]

GiveUp(e) ==
  /\ rated[e].pc \in {"sent", "answered"}
  /\ \/ late' = late
     \/ rated[e].pc = "sent" /\ late' = late \cup {MessageOf(e)}
  /\ rated' = [rated EXCEPT ![e] = Failed(@)]
  /\ UNCHANGED <<cards, log, drills, held, adding, scoring>>

LateReview(m) ==
  /\ m \in late /\ cards[m.card].version < MaxVersion
  /\ ApplyCardReview(m)
  /\ late' = late \ {m}
  /\ UNCHANGED <<drills, held, rated, adding, scoring>>

(* A hanja deck keeps the fetched version: a card is rated once in it.     *)
Deliver(e) ==
  /\ rated[e].pc = "answered"
  /\ IF rated[e].result # 0
     THEN /\ rated' = [rated EXCEPT ![e].pc = "saved"]
          /\ held' = IF rated[e].via = "hanja"
               THEN [held EXCEPT ![rated[e].dev][rated[e].card] = 0]
               ELSE [held EXCEPT ![rated[e].dev][rated[e].card] = rated[e].result]
     ELSE rated' = [rated EXCEPT ![e] = Failed(@)] /\ UNCHANGED held
  /\ UNCHANGED <<cards, log, drills, late, adding, scoring>>

(* Mutant: the card's version is fetched anew before a rating is repeated. *)
RetryFresh(e) ==
  /\ rated[e].pc = "failed"
  /\ rated' = [rated EXCEPT ![e].pc = "sent", ![e].version = cards[rated[e].card].version]
  /\ UNCHANGED <<cards, log, drills, held, late, adding, scoring>>

Retry(e) ==
  /\ rated[e].pc = "failed"
  /\ rated' = [rated EXCEPT ![e].pc = "sent",
       ![e].version = held[rated[e].dev][rated[e].card]]
  /\ UNCHANGED <<cards, log, drills, held, late, adding, scoring>>

(* Study again: the failed saves are forgotten, those on their way are not.*)
Restart(d) ==
  /\ \E e \in Rating : rated[e].dev = d /\ rated[e].pc = "failed"
  /\ rated' = [e \in Rating |-> IF rated[e].dev = d /\ rated[e].pc = "failed"
       THEN [rated[e] EXCEPT !.pc = "dropped"] ELSE rated[e]]
  /\ UNCHANGED <<cards, log, drills, held, late, adding, scoring>>

---------------------------------------------------------------------------
(* The grammar drill.                                                      *)
Generate(a, p) ==
  /\ drills[a].status = "none"
  /\ drills' = [drills EXCEPT ![a] = [status |-> "open", pattern |-> p]]
  /\ UNCHANGED <<cards, log, held, rated, late, adding, scoring>>

BeginSubmit(q, a) ==
  /\ adding[q].pc = "idle" /\ scoring[q] = NoAttempt
  /\ drills[a].status = "open"
  /\ scoring' = [scoring EXCEPT ![q] = a]
  /\ UNCHANGED <<cards, log, drills, held, rated, late, adding>>

(* The transaction once the model has answered: the attempt is scored if   *)
(* it still is not, and the pattern's card, made if there is none, is      *)
(* reviewed; the pattern's row, upserted on the way, is locked throughout. *)
Score(q, g) ==
  LET a == scoring[q] IN
  /\ a # NoAttempt
  /\ IF drills[a].status = "open"
     THEN /\ drills' = [drills EXCEPT ![a].status = "scored"]
          /\ IF LiveCards(drills[a].pattern) # {}
             THEN \E c \in LiveCards(drills[a].pattern) :
                    /\ cards[c].version < MaxVersion
                    /\ cards' = [cards EXCEPT ![c] = Reviewed(@, g)]
                    /\ log' = log \cup {Logged(c, a, g)}
             ELSE \E c \in Free :
                    /\ cards' = [cards EXCEPT ![c] =
                         Reviewed(NewRow("live", drills[a].pattern, 1), g)]
                    /\ log' = log \cup {[card |-> c, version |-> 1, by |-> a, grade |-> g,
                         before |-> NewMemory, after |-> Schedule(NewMemory, 0, g),
                         days |-> ScheduledDays(NewMemory, 0, g)]}
     ELSE UNCHANGED <<cards, log, drills>>
  /\ scoring' = [scoring EXCEPT ![q] = NoAttempt]
  /\ UNCHANGED <<held, rated, late, adding>>

(* A model error, or a crash of the server: the attempt stays open, an     *)
(* insert is rolled back.                                                  *)
Abort(q) ==
  /\ adding[q].pc = "insert" \/ scoring[q] # NoAttempt
  /\ adding' = [adding EXCEPT ![q] = NotAdding]
  /\ scoring' = [scoring EXCEPT ![q] = NoAttempt]
  /\ UNCHANGED <<cards, log, drills, held, rated, late>>

---------------------------------------------------------------------------
Adds ==
  \/ \E q \in Request, mining \in BOOLEAN, ws \in SUBSET Word : Lookup(q, mining, ws)
  \/ \E q \in Request : Insert(q)

Seeds ==
  \/ \E ws \in SUBSET Word : Seed(ws)
  \/ \E h \in Hanja : HanjaCard(h)

Removes == Clear \/ \E c \in CardId : Remove(c)

Studies ==
  \/ \E d \in Device : Open(d) \/ Leave(d) \/ Restart(d)
  \/ \E d \in Device, e \in Rating, c \in CardId, g \in Grades,
        via \in {"flash", "cloze", "hanja"} : Rate(d, e, c, g, via)
  \/ \E e \in Rating : Answer(e) \/ GiveUp(e) \/ Deliver(e) \/ Retry(e)
  \/ \E m \in late : LateReview(m)

Drills ==
  \/ \E a \in Attempt, p \in Pattern : Generate(a, p)
  \/ \E q \in Request, a \in Attempt : BeginSubmit(q, a)
  \/ \E q \in Request, g \in Grades : Score(q, g)

Aborts == \E q \in Request : Abort(q)

Next == Adds \/ Seeds \/ Removes \/ Studies \/ Drills \/ Aborts

Spec == Init /\ [][Next]_vars

---------------------------------------------------------------------------
(* Every log row of a card.                                                *)
History(c) == {r \in log : r.card = c}

(* A target has at most one live card, however requests that add one       *)
(* interleave: its history is never split over two cards.                  *)
HistoryIsNotSplit == \A t \in Target : \A c, d \in LiveCards(t) : c = d

(* No review is lost or applied to a stale state: a card of version v has  *)
(* one log row for each version before v, each starts from the memory its  *)
(* predecessor left, the first from a new card's, and the card holds what  *)
(* the last one left.                                                      *)
HistoryChains ==
  \A c \in CardId : cards[c].status # "none" =>
    /\ {r.version : r \in History(c)} = 1..(cards[c].version - 1)
    /\ \A r, s \in History(c) : r.version = s.version => r = s
    /\ \A r \in History(c) : r.version = 1 => r.before = NewMemory
    /\ \A r, s \in History(c) : s.version = r.version + 1 => s.before = r.after
    /\ cards[c].version = 1 => cards[c].memory = NewMemory
    /\ \A r \in History(c) : r.version = cards[c].version - 1 =>
         cards[c].memory = r.after /\ cards[c].days = r.days

(* What was learnt of a target is one chain on one card.                   *)
OneHistory == HistoryIsNotSplit /\ HistoryChains

(* The counters are those of the log, and the state of a card tells how    *)
(* far it is: new before its first review, no stability while relearning,  *)
(* some in review, and days to wait exactly when it has some stability.    *)
ScheduleMatchesHistory ==
  \A c \in CardId : cards[c].status # "none" =>
    LET row == cards[c] IN
    /\ row.reps = Cardinality(History(c))
    /\ row.lapses = Cardinality({r \in History(c) : r.grade = "again"})
    /\ row.memory.state = "new" <=> row.reps = 0
    /\ row.memory.state = "learning" => row.reps = 1
    /\ row.memory.state = "relearning" => row.memory.stability = 0
    /\ row.memory.state = "review" => row.memory.stability > 0 /\ row.reps >= 2
    /\ row.days = 0 <=> row.memory.stability = 0

(* A rating is recorded at most once, although the session sends it again  *)
(* after an error behind which the review may have been carried out, and   *)
(* although the first request may still be on its way.                     *)
RecordedOnce == \A r, s \in log : r.by = s.by => r = s

(* What the session shows as saved is in the log, for that card and grade, *)
(* and a drill attempt is scored exactly when it has rated its pattern's   *)
(* card.                                                                   *)
SavedIsRecorded ==
  /\ \A e \in Rating : rated[e].pc = "saved" =>
       \E r \in log : r.by = e /\ r.card = rated[e].card /\ r.grade = rated[e].grade
                      /\ r.version + 1 = rated[e].result
  /\ \A a \in Attempt : drills[a].status = "scored" <=>
       \E r \in log : r.by = a /\ cards[r.card].target = drills[a].pattern

(* What the learner sees saved counts, and counts once.                    *)
RatingsCountOnce == RecordedOnce /\ SavedIsRecorded

(* A removed card is done with: no request on its way still reviews it,    *)
(* none brings it back, and one added for the word again starts afresh.    *)
RemovedIsFrozen ==
  [][\A c \in CardId : cards[c].status = "deleted" =>
       cards'[c] = cards[c] /\ {r \in log' : r.card = c} = History(c)]_vars

(* A success never shortens the wait: but for again, the days to the next  *)
(* review do not fall.                                                     *)
IntervalNeverShrinks ==
  [][\A r \in log' \ log : r.grade # "again" => cards[r.card].days <= r.days]_vars

============================================================================
