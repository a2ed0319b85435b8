---------------------------- MODULE Cards_proofs ----------------------------
(* Proofs about Cards: for any number of words, cards, devices, ratings,   *)
(* drill attempts and requests.                                            *)
EXTENDS Cards, FiniteSetTheorems, TLAPS

---------------------------------------------------------------------------
(* The scheduler, grade by grade: what it leaves is a memory, and it fits. *)
Deltas == \A g \in Grade : DifficultyDelta[g] \in -5..10
Bases ==
  \A g \in Grade : BaseStability[g] \in {0, 10000, 40000}
                   /\ (BaseStability[g] = 0 <=> g \in {"again", "hard"})
Multipliers == \A g \in Grade : g # "again" => Multiplier[g] \in {12, 20, 30}

LEMMA GradeNumbers == Deltas /\ Bases /\ Multipliers
<1>1. Deltas
  BY SMT DEF Deltas, DifficultyDelta, Grade
<1>2. Bases
  BY SMT DEF Bases, BaseStability, Grade
<1>3. Multipliers
  BY SMT DEF Multipliers, Multiplier, Grade
<1> QED BY <1>1, <1>2, <1>3, SMT

(* Ten times the stability a grade leaves is 0, or enough to be seen.      *)
LEMMA GrownIs ==
  ASSUME NEW m \in Memory, NEW reps \in Nat, NEW g \in Grade
  PROVE  /\ Grown(m, reps, g) \in Nat
         /\ HasPriorStability(m, reps) /\ g # "again" =>
              Grown(m, reps, g) >= 12 * m.stability /\ m.stability >= 1
         /\ ~(HasPriorStability(m, reps) /\ g # "again") =>
              Grown(m, reps, g) \in {0, 100000, 400000}
              /\ (Grown(m, reps, g) = 0 <=> g \in {"again", "hard"})
<1> m.stability \in Nat
  BY SMT DEF Memory
<1>1. CASE HasPriorStability(m, reps) /\ g # "again"
  <2>1. Multiplier[g] \in {12, 20, 30}
    BY <1>1, GradeNumbers, SMT DEF Multipliers
  <2>2. Grown(m, reps, g) = m.stability * Multiplier[g]
    BY <1>1, SMT DEF Grown
  <2>3. m.stability >= 1
    BY <1>1, SMT DEF HasPriorStability
  <2>4. CASE Multiplier[g] = 12
    BY <1>1, <2>2, <2>3, <2>4, SMT
  <2>5. CASE Multiplier[g] = 20
    BY <1>1, <2>2, <2>3, <2>5, SMT
  <2>6. CASE Multiplier[g] = 30
    BY <1>1, <2>2, <2>3, <2>6, SMT
  <2> QED BY <2>1, <2>4, <2>5, <2>6, SMT
<1>2. CASE ~(HasPriorStability(m, reps) /\ g # "again")
  <2>1. Grown(m, reps, g) = 10 * BaseStability[g]
    BY <1>2, SMT DEF Grown
  <2>2. /\ BaseStability[g] \in {0, 10000, 40000}
        /\ BaseStability[g] = 0 <=> g \in {"again", "hard"}
    BY GradeNumbers, SMT DEF Bases
  <2> QED BY <1>2, <2>1, <2>2, SMT
<1> QED BY <1>1, <1>2, SMT

LEMMA MaxIsNat == StabilityMax \in Nat
BY SMT DEF StabilityMax

LEMMA MaxIs == StabilityMax \in Nat /\ StabilityMax = 365000000 /\ StabilityMax \div 10000 = 36500
BY SMT DEF StabilityMax

(* The stability and the days of a schedule, from the same number.         *)
StabilityOf(x) == Clamp((x + 5) \div 10, 0, StabilityMax)
DaysOf(x) == Clamp(CeilDiv(x, 100000), 0, StabilityMax \div 10000)

(* A stability bears out a wait.                                           *)
BearsOut(s, d) == 100000 * (d - 1) < 10 * s + 5 /\ d <= StabilityMax \div 10000

Fit(x, s, d) ==
  /\ s \in 0..StabilityMax /\ d \in Nat
  /\ x >= 5 => s > 0
  /\ x = 0 => s = 0 /\ d = 0
  /\ x > 0 => d > 0
  /\ BearsOut(s, d)

LEMMA Bounds ==
  ASSUME NEW x \in Nat
  PROVE  Fit(x, StabilityOf(x), DaysOf(x))
<1> DEFINE p == (x + 5) \div 10
<1> DEFINE q == CeilDiv(x, 100000)
<1>1. p \in Nat /\ 10 * p <= x + 5 /\ x + 5 < 10 * p + 10
  BY SMT
<1>2. q \in Nat /\ 100000 * q <= x + 99999 /\ x + 99999 < 100000 * q + 100000
  BY SMT DEF CeilDiv
<1> DEFINE s == Clamp(p, 0, StabilityMax)
<1> DEFINE d == Clamp(q, 0, StabilityMax \div 10000)
<1> HIDE DEF p, q
<1>3. s = (IF p > StabilityMax THEN StabilityMax ELSE p) /\ d = (IF q > 36500 THEN 36500 ELSE q)
  BY <1>1, <1>2, MaxIs, SMT DEF Clamp
<1> HIDE DEF s, d
<1>4. s \in Nat /\ d \in Nat /\ s <= StabilityMax /\ d <= 36500
  BY <1>1, <1>2, <1>3, MaxIs, SMT
<1>5. /\ s \in 0..StabilityMax
      /\ x >= 5 => s > 0
      /\ x = 0 => s = 0 /\ d = 0
      /\ x > 0 => d > 0
  <2>1. s \in 0..StabilityMax
    BY <1>4, MaxIsNat, SMT
  <2>2. (x >= 5 => p > 0) /\ (x = 0 => p = 0 /\ q = 0) /\ (x > 0 => q > 0)
    BY <1>1, <1>2, SMT
  <2>3. StabilityMax > 0
    BY MaxIs, SMT
  <2> QED BY <1>1, <1>2, <1>3, <2>1, <2>2, <2>3, MaxIsNat, SMT
<1>6. 100000 * (d - 1) < 10 * s + 5
  <2>1. d <= q /\ 100000 * (d - 1) < 3650000000
    BY <1>2, <1>3, <1>4, SMT
  <2>2. CASE p > StabilityMax
    BY <1>3, <2>1, <2>2, MaxIs, SMT
  <2>3. CASE ~(p > StabilityMax)
    <3>1. s = p
      BY <1>3, <2>3, SMT
    <3> QED BY <1>1, <1>2, <1>4, <2>1, <3>1, SMT
  <2> QED BY <2>2, <2>3
<1>7. d <= StabilityMax \div 10000
  BY <1>4, MaxIs, SMT
<1> QED BY <1>4, <1>5, <1>6, <1>7, SMT DEF s, d, p, q, Fit, BearsOut, StabilityOf, DaysOf

(* What grows from a stability is not due before what it grows from.       *)
LEMMA Grows ==
  ASSUME NEW s \in Nat, s >= 1, NEW days \in Nat, NEW x \in Nat,
         x >= 12 * s, BearsOut(s, days)
  PROVE  days <= DaysOf(x)
<1> DEFINE q == CeilDiv(x, 100000)
<1>1. q \in Nat /\ x <= 100000 * q
  BY SMT DEF CeilDiv
<1>2. StabilityMax \div 10000 = 36500 /\ 100000 * (days - 1) < 10 * s + 5 /\ days <= 36500
  BY MaxIs, SMT DEF BearsOut
<1> HIDE DEF q
<1>3. days <= q
  <2>1. CASE days <= 1
    BY <1>1, <1>2, <2>1, SMT
  <2>2. CASE days >= 2
    <3>1. s >= 9000
      BY <1>2, <2>2, SMT
    <3>2. 100000 * (days - 1) < x
      BY <1>2, <3>1, SMT
    <3> QED BY <1>1, <3>2, SMT
  <2> QED BY <2>1, <2>2, SMT
<1> QED BY <1>1, <1>2, <1>3, SMT DEF Clamp, q, DaysOf

(* What holds of the memory and the days a review leaves, after reps.      *)
ScheduleIs(n, d, reps) ==
  /\ n.state # "new"
  /\ n.state = "learning" => reps = 0
  /\ n.state = "relearning" => n.stability = 0
  /\ n.state = "review" => n.stability > 0 /\ reps >= 1
  /\ d = 0 <=> n.stability = 0
  /\ BearsOut(n.stability, d)

LEMMA ScheduleFits ==
  ASSUME NEW m \in Memory, NEW reps \in Nat, NEW g \in Grade
  PROVE  /\ Schedule(m, reps, g) \in Memory /\ ScheduledDays(m, reps, g) \in Nat
         /\ ScheduleIs(Schedule(m, reps, g), ScheduledDays(m, reps, g), reps)
<1> DEFINE x == Grown(m, reps, g)
<1> DEFINE s == StabilityOf(x)
<1> DEFINE d == DaysOf(x)
<1>1. /\ x \in Nat
      /\ x = 0 \/ x >= 12
      /\ HasPriorStability(m, reps) /\ g # "again" => x > 0
      /\ ~(HasPriorStability(m, reps) /\ g # "again") => (x = 0 <=> g \in {"again", "hard"})
  BY GrownIs, SMT DEF Memory
<1>2. /\ s \in 0..StabilityMax /\ d \in Nat
      /\ x >= 5 => s > 0
      /\ x = 0 => s = 0 /\ d = 0
      /\ x > 0 => d > 0
      /\ BearsOut(s, d)
  <2>1. Fit(x, s, d)
    BY <1>1, Bounds
  <2> QED BY <2>1, SMT DEF Fit
<1>3. ScheduledDays(m, reps, g) = d
  <2>1. CASE g = "again"
    <3>1. x = 0
      BY <1>1, <2>1, SMT
    <3> QED BY <1>2, <2>1, <3>1, SMT DEF ScheduledDays, DaysOf
  <2>2. CASE g # "again"
    BY <2>2, SMT DEF ScheduledDays, DaysOf
  <2> QED BY <2>1, <2>2, SMT
<1>4. NextState(m, reps, g) \in {"learning", "review", "relearning"}
  BY SMT DEF NextState, Grade
<1>5. /\ NextState(m, reps, g) = "learning" => reps = 0
      /\ NextState(m, reps, g) = "relearning" => x = 0
      /\ NextState(m, reps, g) = "review" => x > 0 /\ reps >= 1
  <2>1. CASE g = "again"
    BY <1>1, <2>1, SMT DEF NextState
  <2>2. CASE g # "again" /\ HasPriorStability(m, reps)
    BY <1>1, <2>2, SMT DEF NextState, HasPriorStability
  <2>3. CASE g # "again" /\ ~HasPriorStability(m, reps) /\ reps = 0
    BY <1>1, <2>3, SMT DEF NextState
  <2>4. CASE g # "again" /\ ~HasPriorStability(m, reps) /\ reps # 0
    <3>1. BaseStability[g] = 0 <=> g = "hard"
      BY GradeNumbers, <2>4, SMT DEF Bases
    <3>2. NextState(m, reps, g) = IF BaseStability[g] = 0 THEN "relearning" ELSE "review"
      BY <2>4, SMT DEF NextState
    <3>3. x = 0 <=> g = "hard"
      BY <1>1, <2>4, SMT
    <3> QED BY <1>1, <2>4, <3>1, <3>2, <3>3, SMT
  <2> QED BY <2>1, <2>2, <2>3, <2>4, SMT
<1>6. Clamp(m.difficulty + DifficultyDelta[g], 10, 100) \in 10..100
  BY GradeNumbers, SMT DEF Deltas, Clamp, Memory
<1>7. Schedule(m, reps, g) =
        [state |-> NextState(m, reps, g), stability |-> s,
         difficulty |-> Clamp(m.difficulty + DifficultyDelta[g], 10, 100)]
  BY SMT DEF Schedule, StabilityOf
<1> HIDE DEF x, s, d
<1>8. Schedule(m, reps, g) \in Memory
  BY <1>2, <1>4, <1>6, <1>7, SMT DEF Memory, State
<1> QED BY <1>1, <1>2, <1>3, <1>4, <1>5, <1>7, <1>8, SMT DEF ScheduleIs

(* Unless it was forgotten, a card is not due sooner than before.          *)
LEMMA WaitGrows ==
  ASSUME NEW m \in Memory, NEW reps \in Nat, NEW g \in Grade, NEW days \in Nat, g # "again",
         reps = 0 => m.stability = 0, days = 0 <=> m.stability = 0,
         BearsOut(m.stability, days)
  PROVE  days <= ScheduledDays(m, reps, g)
<1> DEFINE x == Grown(m, reps, g)
<1>1. ScheduledDays(m, reps, g) = DaysOf(x)
  BY SMT DEF ScheduledDays, DaysOf
<1>2. x \in Nat
  BY GrownIs, SMT
<1>3. m.stability \in Nat
  BY MaxIsNat, SMT DEF Memory
<1>4. CASE m.stability = 0
  <2>1. ScheduledDays(m, reps, g) \in Nat
    BY ScheduleFits
  <2> QED BY <1>4, <2>1, SMT
<1>5. CASE m.stability # 0
  <2>1. HasPriorStability(m, reps)
    BY <1>3, <1>5, SMT DEF HasPriorStability
  <2>2. x >= 12 * m.stability
    BY <2>1, GrownIs, SMT
  <2>3. m.stability >= 1
    BY <1>3, <1>5, SMT
  <2> HIDE DEF x
  <2> QED BY <1>1, <1>2, <1>3, <2>2, <2>3, Grows, SMT
<1> QED BY <1>4, <1>5, SMT
---------------------------------------------------------------------------
(* One card and its history.                                               *)

StateFits(row) ==
  /\ row.memory.state = "new" <=> row.reps = 0
  /\ row.memory.state = "learning" => row.reps = 1
  /\ row.memory.state = "relearning" => row.memory.stability = 0
  /\ row.memory.state = "review" => row.memory.stability > 0 /\ row.reps >= 2
  /\ row.days = 0 <=> row.memory.stability = 0
  /\ BearsOut(row.memory.stability, row.days)

LinksFit(row, H) ==
  /\ {r.version : r \in H} = 1..(row.version - 1)
  /\ \A r, s \in H : r.version = s.version => r = s
  /\ \A r \in H : r.version = 1 => r.before = NewMemory
  /\ \A r, s \in H : s.version = r.version + 1 => s.before = r.after
  /\ row.version = 1 => row.memory = NewMemory
  /\ \A r \in H : r.version = row.version - 1 => row.memory = r.after /\ row.days = r.days

CountsFit(row, H) ==
  /\ row.reps = Cardinality(H)
  /\ row.lapses = Cardinality({r \in H : r.grade = "again"})

CardFits(row, H) ==
  /\ row \in Row /\ H \subseteq Review /\ IsFiniteSet(H)
  /\ row.status = "none" => row = NoRow /\ H = {}
  /\ row.status # "none" =>
       /\ row.target # NoTarget /\ row.version = row.reps + 1
       /\ LinksFit(row, H) /\ CountsFit(row, H) /\ StateFits(row)

(* The log row of a review of a row, which may be new.                     *)
LogOf(c, row, e, g) ==
  [card |-> c, version |-> row.version, by |-> e, grade |-> g, before |-> row.memory,
   after |-> Schedule(row.memory, row.reps, g),
   days |-> ScheduledDays(row.memory, row.reps, g)]

LEMMA NewFits ==
  ASSUME NEW t \in Target
  PROVE  NewRow("live", t, 1) \in Row /\ CardFits(NewRow("live", t, 1), {})
<1> DEFINE row == NewRow("live", t, 1)
<1>1. NewMemory \in Memory
  BY MaxIsNat, SMT DEF NewMemory, Memory, State
<1>2. row \in Row
  BY <1>1 DEF NewRow, Row
<1>3. LinksFit(row, {})
  BY DEF LinksFit, NewRow
<1>4. CountsFit(row, {})
  <2>1. {r \in {} : r.grade = "again"} = {}
    OBVIOUS
  <2> QED BY <2>1, FS_EmptySet DEF CountsFit, NewRow
<1>5. StateFits(row)
  BY MaxIs, SMT DEF StateFits, NewRow, NewMemory, BearsOut
<1>6. row.status # "none" /\ row.target # NoTarget /\ row.version = row.reps + 1
  BY CardsAssumption DEF NewRow
<1> HIDE DEF row
<1>7. IsFiniteSet({})
  BY FS_EmptySet
<1>8. CardFits(row, {})
  BY <1>2, <1>3, <1>4, <1>5, <1>6, <1>7 DEF CardFits
<1> QED BY <1>2, <1>8 DEF row

LEMMA NoneFits == CardFits(NoRow, {})
<1>1. NewMemory \in Memory
  BY MaxIsNat, SMT DEF NewMemory, Memory, State
<1>2. NoRow \in Row /\ NoRow.status = "none"
  BY <1>1 DEF NoRow, NewRow, Row
<1> QED BY <1>2, FS_EmptySet DEF CardFits

LEMMA DeletedFits ==
  ASSUME NEW row \in Row, NEW H, CardFits(row, H), row.status # "none"
  PROVE  LET n == [row EXCEPT !.status = "deleted"] IN n \in Row /\ CardFits(n, H)
<1> DEFINE n == [row EXCEPT !.status = "deleted"]
<1>1. n \in Row
  BY DEF Row
<1>2. /\ n.status = "deleted" /\ n.target = row.target /\ n.version = row.version
      /\ n.memory = row.memory /\ n.days = row.days /\ n.reps = row.reps
      /\ n.lapses = row.lapses
  BY DEF Row
<1> HIDE DEF n
<1>3. LinksFit(n, H)
  BY <1>2 DEF CardFits, LinksFit
<1>4. CountsFit(n, H)
  BY <1>2 DEF CardFits, CountsFit
<1>5. StateFits(n)
  BY <1>2, SMT DEF CardFits, StateFits
<1>6. CardFits(n, H)
  BY <1>1, <1>2, <1>3, <1>4, <1>5 DEF CardFits
<1> QED BY <1>1, <1>6 DEF n

LEMMA ChangedRow ==
  ASSUME NEW row \in Row, NEW m \in Memory, NEW d \in Nat, NEW r \in Nat, NEW k \in Nat,
         NEW v \in Nat
  PROVE  [row EXCEPT !.memory = m, !.days = d, !.reps = r, !.lapses = k, !.version = v] \in Row
<1> DEFINE n1 == [row EXCEPT !.memory = m]
<1> DEFINE n2 == [n1 EXCEPT !.days = d]
<1> DEFINE n3 == [n2 EXCEPT !.reps = r]
<1> DEFINE n4 == [n3 EXCEPT !.lapses = k]
<1> DEFINE n5 == [n4 EXCEPT !.version = v]
<1>1. n1 \in Row
  BY DEF Row
<1> HIDE DEF n1
<1>2. n2 \in Row
  BY <1>1 DEF Row
<1> HIDE DEF n2
<1>3. n3 \in Row
  BY <1>2 DEF Row
<1> HIDE DEF n3
<1>4. n4 \in Row
  BY <1>3 DEF Row
<1> HIDE DEF n4
<1>5. n5 \in Row
  BY <1>4 DEF Row
<1>6. n5 = [row EXCEPT !.memory = m, !.days = d, !.reps = r, !.lapses = k, !.version = v]
  BY DEF Row, n1, n2, n3, n4
<1> QED BY <1>5, <1>6

LEMMA ReviewFits ==
  ASSUME NEW c \in CardId, NEW row \in Row, NEW H, NEW e \in Event, NEW g \in Grade,
         CardFits(row, H), row.status # "none"
  PROVE  LET n == Reviewed(row, g)
             x == LogOf(c, row, e, g)
         IN /\ n \in Row /\ x \in Review /\ CardFits(n, H \cup {x})
            /\ n.status = row.status /\ n.target = row.target /\ n.version = row.version + 1
            /\ x.card = c /\ x.by = e /\ x.version = row.version /\ x.grade = g
            /\ x.days = ScheduledDays(row.memory, row.reps, g)
<1> DEFINE n == Reviewed(row, g)
<1> DEFINE x == LogOf(c, row, e, g)
<1> DEFINE m == Schedule(row.memory, row.reps, g)
<1> DEFINE d == ScheduledDays(row.memory, row.reps, g)
<1>1. /\ row.memory \in Memory /\ row.reps \in Nat /\ row.lapses \in Nat /\ row.version \in Nat
      /\ row.days \in Nat
  BY DEF Row
<1>2. /\ m \in Memory /\ d \in Nat
      /\ ScheduleIs(m, d, row.reps)
  BY <1>1, ScheduleFits, SMT
<1>3. /\ n.status = row.status /\ n.target = row.target /\ n.version = row.version + 1
      /\ n.memory = m /\ n.days = d /\ n.reps = row.reps + 1
      /\ n.lapses = row.lapses + (IF g = "again" THEN 1 ELSE 0)
  BY DEF Reviewed, Row
<1>4. /\ x.card = c /\ x.by = e /\ x.version = row.version /\ x.grade = g
      /\ x.before = row.memory /\ x.after = m /\ x.days = d
  BY DEF LogOf
<1>5. x \in Review
  <2> HIDE DEF m, d
  <2>1. x = [card |-> c, version |-> row.version, by |-> e, grade |-> g,
             before |-> row.memory, after |-> m, days |-> d]
    BY DEF LogOf, m, d
  <2> QED BY <1>1, <1>2, <2>1 DEF Review
<1>6. n \in Row
  <2> HIDE DEF m, d
  <2> DEFINE k == row.lapses + (IF g = "again" THEN 1 ELSE 0)
  <2>1. k \in Nat /\ row.reps + 1 \in Nat /\ row.version + 1 \in Nat
    BY <1>1
  <2> HIDE DEF k
  <2>2. [row EXCEPT !.memory = m, !.days = d, !.reps = row.reps + 1, !.lapses = k,
                    !.version = row.version + 1] \in Row
    BY <1>2, <2>1, ChangedRow
  <2> QED BY <2>2 DEF Reviewed, m, d, k
<1> HIDE DEF n, x, m, d
<1>7. /\ H \subseteq Review /\ IsFiniteSet(H)
      /\ row.version = row.reps + 1 /\ row.target # NoTarget
      /\ LinksFit(row, H) /\ CountsFit(row, H) /\ StateFits(row)
  BY DEF CardFits
<1>8. \A r \in H : r.version \in 1..(row.version - 1)
  BY <1>7 DEF LinksFit
<1>9. x \notin H
  BY <1>1, <1>4, <1>8
<1>10. LinksFit(n, H \cup {x})
  <2>1. {r.version : r \in H \cup {x}} = {r.version : r \in H} \cup {x.version}
    OBVIOUS
  <2>2. {r.version : r \in H \cup {x}} = 1..(n.version - 1)
    <3>1. (1..(row.version - 1)) \cup {row.version} = 1..row.version
      BY <1>1, <1>7
    <3>2. {r.version : r \in H} = 1..(row.version - 1)
      BY <1>7 DEF LinksFit
    <3> QED BY <1>1, <1>3, <1>4, <2>1, <3>1, <3>2
  <2>3. \A r, s \in H \cup {x} : r.version = s.version => r = s
    BY <1>1, <1>4, <1>7, <1>8 DEF LinksFit
  <2>4. \A r \in H \cup {x} : r.version = 1 => r.before = NewMemory
    BY <1>4, <1>7 DEF LinksFit
  <2>5. \A r, s \in H \cup {x} : s.version = r.version + 1 => s.before = r.after
    <3>1. \A r \in H : r.version = row.version - 1 => row.memory = r.after
      BY <1>7 DEF LinksFit
    <3>2. \A r \in H : row.version = r.version + 1 => r.version = row.version - 1
      BY <1>1, <1>8
    <3>3. \A s \in H : s.version # x.version + 1
      BY <1>1, <1>4, <1>8
    <3>4. x.version # x.version + 1
      BY <1>1, <1>4
    <3>5. \A r, s \in H : s.version = r.version + 1 => s.before = r.after
      BY <1>7 DEF LinksFit
    <3> QED BY <1>4, <3>1, <3>2, <3>3, <3>4, <3>5
  <2>6. n.version # 1
    BY <1>1, <1>3, <1>7
  <2>7. \A r \in H \cup {x} : r.version = n.version - 1 => n.memory = r.after /\ n.days = r.days
    BY <1>1, <1>3, <1>4, <1>8
  <2> QED BY <2>2, <2>3, <2>4, <2>5, <2>6, <2>7 DEF LinksFit
<1>11. IsFiniteSet(H \cup {x}) /\ Cardinality(H \cup {x}) = Cardinality(H) + 1
  BY <1>7, <1>9, FS_AddElement
<1>12. CountsFit(n, H \cup {x})
  <2> DEFINE A == {r \in H : r.grade = "again"}
  <2> DEFINE B == {r \in H \cup {x} : r.grade = "again"}
  <2>1. IsFiniteSet(A)
    BY <1>7, FS_Subset
  <2>2. row.lapses = Cardinality(A) /\ row.reps = Cardinality(H)
    BY <1>7 DEF CountsFit
  <2>3. n.lapses = Cardinality(B)
    <3>1. CASE g = "again"
      <4>1. B = A \cup {x}
        BY <1>4, <3>1
      <4>2. x \notin A
        BY <1>9
      <4>3. Cardinality(A \cup {x}) = Cardinality(A) + 1
        BY <2>1, <4>2, FS_AddElement
      <4> HIDE DEF A, B
      <4> QED BY <1>3, <2>2, <3>1, <4>1, <4>3
    <3>2. CASE g # "again"
      <4>1. B = A
        BY <1>4, <3>2
      <4> HIDE DEF A, B
      <4> QED BY <1>1, <1>3, <2>2, <3>2, <4>1
    <3> QED BY <3>1, <3>2
  <2>4. n.reps = Cardinality(H \cup {x})
    BY <1>3, <1>11, <2>2
  <2> QED BY <2>3, <2>4 DEF CountsFit
<1>13. StateFits(n)
  <2>1. m.stability \in Nat /\ m.state \in State
    BY <1>2, MaxIsNat, SMT DEF Memory
  <2> QED BY <1>1, <1>2, <1>3, <2>1, SMT DEF StateFits, ScheduleIs
<1>14. CardFits(n, H \cup {x})
  <2>1. n.status # "none" /\ n.target # NoTarget /\ n.version = n.reps + 1
    BY <1>1, <1>3, <1>7
  <2>2. H \cup {x} \subseteq Review
    BY <1>5, <1>7
  <2> QED BY <1>6, <1>10, <1>11, <1>12, <1>13, <2>1, <2>2 DEF CardFits
<1> QED BY <1>3, <1>4, <1>5, <1>6, <1>14 DEF n, x, d

---------------------------------------------------------------------------
(* All cards.  A step leaves the log alone and each card as it is, new or  *)
(* deleted; or it reviews one card, which may be new.                      *)

CardsFit ==
  /\ cards \in [CardId -> Row] /\ log \subseteq Review
  /\ HistoryIsNotSplit
  /\ \A c \in CardId : CardFits(cards[c], History(c))

MadeNew(c) ==
  /\ cards[c].status = "none"
  /\ \E t \in Target : LiveCards(t) = {} /\ cards'[c] = NewRow("live", t, 1)
TakenOut(c) == cards[c].status # "none" /\ cards'[c] = [cards[c] EXCEPT !.status = "deleted"]

Moves ==
  /\ log' = log /\ cards' \in [CardId -> Row]
  /\ \A c \in CardId : cards'[c] = cards[c] \/ MadeNew(c) \/ TakenOut(c)
  /\ \A c, d \in CardId : MadeNew(c) /\ MadeNew(d) /\ cards'[c].target = cards'[d].target => c = d

Starts(c, row) ==
  \/ cards[c].status = "live" /\ row = cards[c]
  \/ /\ cards[c].status = "none"
     /\ \E t \in Target : LiveCards(t) = {} /\ row = NewRow("live", t, 1)

Reviews(c, row, e, g) ==
  /\ Starts(c, row)
  /\ cards' = [cards EXCEPT ![c] = Reviewed(row, g)]
  /\ log' = log \cup {LogOf(c, row, e, g)}

(* Either way cards only go on, keep what they are about, and the log grows*)
(* by no more than a review of the version the card had.                   *)
Onward ==
  /\ \A c \in CardId : cards[c].version <= cards'[c].version
  /\ \A c \in CardId : cards[c].status # "none" =>
       cards'[c].status # "none" /\ cards'[c].target = cards[c].target
  /\ \A c \in CardId : cards[c].status = "deleted" =>
       cards'[c] = cards[c] /\ History(c)' = History(c)
  /\ \A r \in log' \ log : r.grade # "again" => cards[r.card].days <= r.days

LEMMA NumbersOfCards ==
  ASSUME CardsFit, NEW c \in CardId
  PROVE  cards[c] \in Row /\ cards[c].version \in Nat /\ cards[c].days \in Nat
BY DEF CardsFit, Row

LEMMA MovesKeep ==
  ASSUME CardsFit, Moves
  PROVE  CardsFit' /\ Onward
<1>1. /\ log' = log /\ cards' \in [CardId -> Row] /\ cards \in [CardId -> Row]
      /\ log \subseteq Review
  BY DEF Moves, CardsFit
<1>2. \A c \in CardId : History(c)' = History(c)
  BY <1>1 DEF History
<1>3. ASSUME NEW c \in CardId
      PROVE  /\ CardFits(cards'[c], History(c))
             /\ cards[c].version <= cards'[c].version
             /\ cards[c].status # "none" =>
                  cards'[c].status # "none" /\ cards'[c].target = cards[c].target
             /\ cards[c].status = "deleted" => cards'[c] = cards[c]
  <2>1. CardFits(cards[c], History(c)) /\ cards[c] \in Row
    BY DEF CardsFit
  <2>2. CASE cards'[c] = cards[c]
    BY <2>1, <2>2 DEF Row
  <2>3. CASE MadeNew(c)
    <3>1. PICK t \in Target : cards'[c] = NewRow("live", t, 1)
      BY <2>3 DEF MadeNew
    <3>2. cards[c] = NoRow /\ History(c) = {}
      BY <2>1, <2>3 DEF MadeNew, CardFits
    <3>3. CardFits(cards'[c], {})
      BY <3>1, NewFits, SMT
    <3>4. cards[c].version = 0 /\ cards'[c].version = 1
      BY <3>1, <3>2 DEF NoRow, NewRow
    <3> QED BY <2>3, <3>2, <3>3, <3>4 DEF MadeNew
  <2>4. CASE TakenOut(c)
    <3>1. cards[c].status # "none" /\ cards'[c] = [cards[c] EXCEPT !.status = "deleted"]
      BY <2>4 DEF TakenOut
    <3>2. CardFits(cards'[c], History(c))
      BY <2>1, <3>1, DeletedFits
    <3>3. /\ cards'[c].version = cards[c].version /\ cards'[c].target = cards[c].target
          /\ cards'[c].status = "deleted"
          /\ cards[c].status = "deleted" => cards'[c] = cards[c]
      BY <2>1, <3>1 DEF Row
    <3>4. cards[c].version \in Nat
      BY <2>1 DEF Row
    <3> QED BY <3>2, <3>3, <3>4
  <2> QED BY <1>1, <2>2, <2>3, <2>4 DEF Moves
<1>4. HistoryIsNotSplit'
  <2> SUFFICES ASSUME NEW c \in CardId, NEW d \in CardId,
                      cards'[c].status = "live", cards'[d].status = "live",
                      cards'[c].target = cards'[d].target, cards'[c].target \in Target
               PROVE  c = d
    BY DEF HistoryIsNotSplit, LiveCards, Live
  <2>1. ASSUME NEW b \in CardId, cards'[b].status = "live"
        PROVE  cards'[b] = cards[b] \/ MadeNew(b)
    <3>1. cards[b] \in Row
      BY <1>1
    <3>2. TakenOut(b) => cards'[b].status = "deleted"
      BY <3>1 DEF TakenOut, Row
    <3> QED BY <2>1, <3>2 DEF Moves
  <2>2. ASSUME NEW a \in CardId, NEW b \in CardId, MadeNew(a), cards'[b] = cards[b],
               cards'[b].status = "live", cards'[b].target = cards'[a].target
        PROVE  FALSE
    <3>1. PICK t \in Target : LiveCards(t) = {} /\ cards'[a] = NewRow("live", t, 1)
      BY <2>2 DEF MadeNew
    <3>2. cards'[a].target = t
      BY <3>1 DEF NewRow
    <3>3. b \in LiveCards(t)
      BY <2>2, <3>2 DEF LiveCards, Live
    <3> QED BY <3>1, <3>3
  <2>3. CASE cards'[c] = cards[c] /\ cards'[d] = cards[d]
    BY <2>3 DEF CardsFit, HistoryIsNotSplit, LiveCards, Live
  <2>4. CASE MadeNew(c) /\ MadeNew(d)
    BY <2>4 DEF Moves
  <2> QED BY <2>1, <2>2, <2>3, <2>4
<1>5. CardsFit'
  BY <1>1, <1>2, <1>3, <1>4 DEF CardsFit
<1>6. Onward
  <2>1. log' \ log = {}
    BY <1>1
  <2> QED BY <1>2, <1>3, <2>1 DEF Onward
<1> QED BY <1>5, <1>6

LEMMA ReviewsKeep ==
  ASSUME CardsFit, NEW c \in CardId, NEW row, NEW e \in Event, NEW g \in Grade,
         Reviews(c, row, e, g)
  PROVE  /\ CardsFit' /\ Onward
         /\ LogOf(c, row, e, g) \in Review
         /\ cards'[c].version = row.version + 1 /\ cards'[c].target = row.target
         /\ row.version \in Nat
<1> DEFINE x == LogOf(c, row, e, g)
<1>1. /\ cards \in [CardId -> Row] /\ log \subseteq Review
      /\ CardFits(cards[c], History(c)) /\ cards[c] \in Row
  BY DEF CardsFit
<1>2. /\ row \in Row /\ row.status = "live" /\ CardFits(row, History(c))
      /\ cards[c].version <= row.version
      /\ cards[c].status # "none" => row.target = cards[c].target
      /\ cards[c].status # "deleted"
  <2>1. CASE cards[c].status = "live" /\ row = cards[c]
    BY <1>1, <2>1 DEF Row
  <2>2. CASE /\ cards[c].status = "none"
             /\ \E t \in Target : LiveCards(t) = {} /\ row = NewRow("live", t, 1)
    <3>1. PICK t \in Target : row = NewRow("live", t, 1)
      BY <2>2
    <3>2. cards[c] = NoRow /\ History(c) = {}
      BY <1>1, <2>2 DEF CardFits
    <3>3. cards[c].version = 0 /\ row.version = 1 /\ row.status = "live"
      BY <3>1, <3>2 DEF NoRow, NewRow
    <3> QED BY <2>2, <3>1, <3>2, <3>3, NewFits, SMT
  <2> QED BY <2>1, <2>2 DEF Reviews, Starts
<1>3. /\ cards' = [cards EXCEPT ![c] = Reviewed(row, g)] /\ log' = log \cup {x}
  BY DEF Reviews
<1>4. /\ Reviewed(row, g) \in Row /\ x \in Review
      /\ CardFits(Reviewed(row, g), History(c) \cup {x})
      /\ Reviewed(row, g).status = "live" /\ Reviewed(row, g).target = row.target
      /\ Reviewed(row, g).version = row.version + 1
      /\ x.card = c /\ x.grade = g /\ x.days = ScheduledDays(row.memory, row.reps, g)
  BY <1>2, ReviewFits
<1> HIDE DEF x
<1>5. /\ cards' \in [CardId -> Row] /\ cards'[c] = Reviewed(row, g)
      /\ \A d \in CardId \ {c} : cards'[d] = cards[d]
      /\ log' \subseteq Review
  BY <1>1, <1>3, <1>4
<1>6. /\ History(c)' = History(c) \cup {x}
      /\ \A d \in CardId \ {c} : History(d)' = History(d)
  BY <1>3, <1>4 DEF History
<1>7. HistoryIsNotSplit'
  <2> SUFFICES ASSUME NEW b \in CardId, b # c,
                      cards'[b].status = "live", cards'[b].target = cards'[c].target,
                      cards'[c].target \in Target
               PROVE  FALSE
    <3>1. \A a, b \in CardId : a # c /\ b # c /\ cards'[a].status = "live"
             /\ cards'[b].status = "live" /\ cards'[a].target = cards'[b].target
             /\ cards'[a].target \in Target => a = b
      BY <1>5 DEF CardsFit, HistoryIsNotSplit, LiveCards, Live
    <3> QED BY <3>1 DEF HistoryIsNotSplit, LiveCards, Live
  <2>1. b \in LiveCards(row.target) /\ row.target \in Target
    BY <1>4, <1>5 DEF LiveCards, Live
  <2>2. CASE cards[c].status = "live" /\ row = cards[c]
    BY <2>1, <2>2 DEF CardsFit, HistoryIsNotSplit, LiveCards, Live
  <2>3. CASE \E t \in Target : LiveCards(t) = {} /\ row = NewRow("live", t, 1)
    BY <2>1, <2>3 DEF NewRow
  <2> QED BY <2>2, <2>3 DEF Reviews, Starts
<1>8. CardsFit'
  BY <1>4, <1>5, <1>6, <1>7 DEF CardsFit
<1>9. g # "again" => cards[c].days <= x.days
  <2>1. CASE cards[c].status = "live" /\ row = cards[c]
    <3>1. /\ StateFits(row) /\ LinksFit(row, History(c)) /\ row.version = row.reps + 1
      BY <1>2 DEF CardFits
    <3>2. /\ row.memory \in Memory /\ row.reps \in Nat /\ row.days \in Nat
      BY <1>2 DEF Row
    <3>3. row.reps = 0 => row.memory.stability = 0
      BY <3>1, <3>2 DEF LinksFit, NewMemory
    <3>4. /\ row.days = 0 <=> row.memory.stability = 0
          /\ BearsOut(row.memory.stability, row.days)
      BY <3>1, SMT DEF StateFits
    <3>5. g # "again" => row.days <= ScheduledDays(row.memory, row.reps, g)
      BY <3>2, <3>3, <3>4, WaitGrows, SMT
    <3> QED BY <1>4, <2>1, <3>5
  <2>2. CASE cards[c].status = "none"
    <3>1. cards[c].days = 0
      BY <1>1, <2>2 DEF CardFits, NoRow, NewRow
    <3>2. x.days \in Nat
      BY <1>4 DEF Review
    <3> QED BY <3>1, <3>2
  <2> QED BY <2>1, <2>2 DEF Reviews, Starts
<1>10. Onward
  <2>1. \A d \in CardId : cards[d].version <= cards'[d].version
    BY <1>1, <1>2, <1>4, <1>5 DEF Row
  <2>2. \A d \in CardId : cards[d].status # "none" =>
          cards'[d].status # "none" /\ cards'[d].target = cards[d].target
    BY <1>2, <1>4, <1>5
  <2>3. \A d \in CardId : cards[d].status = "deleted" =>
          cards'[d] = cards[d] /\ History(d)' = History(d)
    BY <1>2, <1>5, <1>6
  <2>4. \A r \in log' \ log : r.grade # "again" => cards[r.card].days <= r.days
    BY <1>3, <1>4, <1>9
  <2> QED BY <2>1, <2>2, <2>3, <2>4 DEF Onward
<1> QED BY <1>2, <1>4, <1>5, <1>8, <1>10 DEF x, Row

LEMMA MadeNewIs ==
  ASSUME NEW c, MadeNew(c)
  PROVE  cards[c].status = "none" /\ cards'[c].status = "live"
<1>1. PICK t \in Target : cards'[c] = NewRow("live", t, 1)
  BY DEF MadeNew
<1> QED BY <1>1 DEF MadeNew, NewRow

LEMMA SameMoves ==
  ASSUME CardsFit, UNCHANGED <<cards, log>>
  PROVE  Moves
<1>1. \A c \in CardId : ~MadeNew(c)
  BY MadeNewIs
<1> QED BY <1>1 DEF CardsFit, Moves

LEMMA CreateMoves ==
  ASSUME CardsFit, NEW T \in SUBSET Target, \A t \in T : LiveCards(t) = {}, Create(T), log' = log
  PROVE  Moves
<1>1. PICK f \in [T -> Free] :
        /\ \A t, u \in T : t # u => f[t] # f[u]
        /\ cards' = [c \in CardId |-> IF \E t \in T : f[t] = c
             THEN NewRow("live", CHOOSE t \in T : f[t] = c, 1) ELSE cards[c]]
  BY DEF Create
<1>2. \A t \in T : f[t] \in CardId /\ cards[f[t]].status = "none"
  BY DEF Free
<1>3. ASSUME NEW t \in T
      PROVE  cards'[f[t]] = NewRow("live", t, 1)
  <2>1. (CHOOSE u \in T : f[u] = f[t]) = t
    BY <1>1
  <2> QED BY <1>1, <1>2, <2>1
<1>4. \A c \in CardId : (\E t \in T : f[t] = c) \/ cards'[c] = cards[c]
  BY <1>1
<1>5. ASSUME NEW t \in T
      PROVE  MadeNew(f[t]) /\ cards'[f[t]] \in Row /\ cards'[f[t]].target = t
  <2>1. t \in Target /\ LiveCards(t) = {}
    OBVIOUS
  <2>2. NewRow("live", t, 1) \in Row /\ NewRow("live", t, 1).target = t
    BY <2>1, NewFits, SMT DEF NewRow
  <2> QED BY <1>2, <1>3, <2>1, <2>2 DEF MadeNew
<1>6. cards' \in [CardId -> Row]
  <2>1. cards \in [CardId -> Row]
    BY DEF CardsFit
  <2>2. \A c \in CardId : cards'[c] \in Row
    BY <1>4, <1>5, <2>1
  <2> QED BY <1>1, <2>2
<1>7. ASSUME NEW c \in CardId, MadeNew(c)
      PROVE  \E t \in T : f[t] = c
  <2>1. cards'[c].status = "live" /\ cards[c].status = "none"
    BY <1>7 DEF MadeNew, NewRow
  <2> QED BY <1>4, <2>1
<1>8. \A c, d \in CardId : MadeNew(c) /\ MadeNew(d) /\ cards'[c].target = cards'[d].target => c = d
  BY <1>5, <1>7
<1>9. \A c \in CardId : cards'[c] = cards[c] \/ MadeNew(c)
  BY <1>4, <1>5
<1> QED BY <1>6, <1>8, <1>9 DEF Moves

LEMMA DeleteMoves ==
  ASSUME CardsFit, NEW C, \A c \in C : c \in CardId /\ cards[c].status # "none",
         Delete(C), log' = log
  PROVE  Moves
<1>1. cards \in [CardId -> Row]
  BY DEF CardsFit
<1>2. \A c \in CardId : cards'[c] = IF c \in C THEN [cards[c] EXCEPT !.status = "deleted"]
                                    ELSE cards[c]
  BY DEF Delete
<1>3. cards' = [c \in CardId |-> cards'[c]]
  BY DEF Delete
<1>4. \A c \in CardId : cards'[c] \in Row /\ cards'[c].status \in {"deleted", cards[c].status}
  BY <1>1, <1>2 DEF Row
<1>5. \A c \in CardId : ~MadeNew(c)
  BY <1>4, MadeNewIs
<1>6. \A c \in CardId : cards'[c] = cards[c] \/ TakenOut(c)
  BY <1>2 DEF TakenOut
<1> QED BY <1>3, <1>4, <1>5, <1>6 DEF Moves

---------------------------------------------------------------------------
(* The log seen from a card, and back.                                     *)
LEMMA LogIsBehind ==
  ASSUME CardsFit
  PROVE  /\ \A r \in log : /\ r.card \in CardId /\ r.by \in Event /\ r.version \in Nat
                           /\ cards[r.card].status # "none"
                           /\ r.version < cards[r.card].version
         /\ \A r, s \in log : r.card = s.card /\ r.version = s.version => r = s
         /\ \A c \in CardId : /\ cards[c].version \in Nat
                             /\ cards[c].version # 0 => cards[c].status # "none"
<1>1. ASSUME NEW r \in log
      PROVE  /\ r.card \in CardId /\ r.by \in Event /\ r.version \in Nat
             /\ r \in History(r.card)
             /\ cards[r.card].status # "none" /\ r.version < cards[r.card].version
  <2>1. r.card \in CardId /\ r.by \in Event /\ r.version \in Nat /\ r \in History(r.card)
    BY DEF CardsFit, Review, History
  <2>2. CardFits(cards[r.card], History(r.card)) /\ cards[r.card] \in Row
    BY <2>1 DEF CardsFit
  <2>3. cards[r.card].status # "none"
    BY <2>1, <2>2 DEF CardFits
  <2>4. r.version \in 1..(cards[r.card].version - 1)
    BY <2>1, <2>2, <2>3 DEF CardFits, LinksFit
  <2>5. cards[r.card].version \in Nat
    BY <2>2 DEF Row
  <2> QED BY <2>1, <2>3, <2>4, <2>5
<1>2. ASSUME NEW r \in log, NEW s \in log, r.card = s.card, r.version = s.version
      PROVE  r = s
  <2>1. r \in History(r.card) /\ s \in History(r.card) /\ cards[r.card].status # "none"
        /\ r.card \in CardId
    BY <1>1, <1>2
  <2>2. CardFits(cards[r.card], History(r.card))
    BY <2>1 DEF CardsFit
  <2> QED BY <1>2, <2>1, <2>2 DEF CardFits, LinksFit
<1>3. ASSUME NEW c \in CardId
      PROVE  cards[c].version \in Nat /\ (cards[c].version # 0 => cards[c].status # "none")
  <2>1. CardFits(cards[c], History(c)) /\ cards[c] \in Row
    BY DEF CardsFit
  <2>2. cards[c].status = "none" => cards[c].version = 0
    BY <2>1 DEF CardFits, NoRow, NewRow
  <2> QED BY <2>1, <2>2 DEF Row
<1> QED BY <1>1, <1>2, <1>3

LEMMA SeenIsThere ==
  ASSUME CardsFit, NEW c \in CardId, cards[c].version # 0
  PROVE  cards[c].status # "none"
<1>1. CardFits(cards[c], History(c))
  BY DEF CardsFit
<1> QED BY <1>1 DEF CardFits, NoRow, NewRow

---------------------------------------------------------------------------
(* Ratings.  Nobody has seen a version of a card that is still to come.    *)
NothingAhead ==
  /\ \A d \in Device, c \in CardId : held[d][c] <= cards[c].version
  /\ \A e \in Rating : rated[e].pc # "unused" =>
       /\ rated[e].dev \in Device /\ rated[e].card \in CardId
       /\ rated[e].version <= cards[rated[e].card].version
  /\ \A m \in late : m.version <= cards[m.card].version

UnusedIsNobodys == \A e \in Rating : rated[e].pc = "unused" => rated[e].dev = NoDevice

(* Whatever goes by the name of a rating is of its card and its grade.     *)
OneMeaning ==
  /\ \A r \in log : r.by \in Rating =>
       /\ rated[r.by].pc # "unused"
       /\ r.card = rated[r.by].card /\ r.grade = rated[r.by].grade
  /\ \A m \in late :
       /\ rated[m.by].pc # "unused"
       /\ m.card = rated[m.by].card /\ m.grade = rated[m.by].grade

(* A rating its session still works on is of a card the session holds; a   *)
(* hanja card, which is not held for long, waits alone.                    *)
Pursued(e) == rated[e].pc \in {"sent", "answered", "failed"}
PursuedIsHeld ==
  \A e \in Rating : Pursued(e) =>
    /\ held[rated[e].dev][rated[e].card] # 0
    /\ rated[e].via = "hanja" <=> cards[rated[e].card].target \in Hanja
    /\ rated[e].via # "flash" => rated[e].pc # "failed"
HanjaWaitsAlone ==
  \A e, f \in Rating :
    /\ Pursued(e) /\ Pursued(f) /\ rated[e].dev = rated[f].dev
    /\ rated[e].via = "hanja" /\ rated[f].via = "hanja"
    => e = f

(* A rating that was recorded is not recorded again: no request of it, and *)
(* as long as its session works on it neither the session nor any of its   *)
(* requests, knows a later version of the card than the record's.          *)
LateIsStale ==
  \A r \in log : \A m \in late : m.by = r.by => m.version <= r.version
HeldIsStale ==
  \A r \in log : r.by \in Rating /\ Pursued(r.by) => held[rated[r.by].dev][r.card] <= r.version
SentIsStale ==
  \A r \in log : r.by \in Rating /\ Pursued(r.by) =>
    \A e \in Rating :
      /\ rated[e].pc \in {"sent", "answered"}
      /\ rated[e].dev = rated[r.by].dev /\ rated[e].card = r.card
      => rated[e].version <= r.version

AnsweredIsRecorded ==
  \A e \in Rating : rated[e].pc = "answered" /\ rated[e].result # 0 =>
    /\ rated[e].result = rated[e].version + 1
    /\ \E r \in log : r.by = e /\ r.version = rated[e].version

RatingIsOnce == \A r, s \in log : r.by \in Rating /\ r.by = s.by => r = s
SavedRating ==
  \A e \in Rating : rated[e].pc = "saved" =>
    \E r \in log : r.by = e /\ r.card = rated[e].card /\ r.grade = rated[e].grade
                   /\ r.version + 1 = rated[e].result

RatingsFit ==
  /\ held \in [Device -> [CardId -> Nat]]
  /\ rated \in [Rating -> Rated]
  /\ late \subseteq Message
  /\ NothingAhead /\ UnusedIsNobodys /\ OneMeaning /\ PursuedIsHeld /\ HanjaWaitsAlone
  /\ LateIsStale /\ HeldIsStale /\ SentIsStale
  /\ AnsweredIsRecorded /\ RatingIsOnce /\ SavedRating

(* What a rating is made of.                                               *)
LEMMA RatedIs ==
  ASSUME RatingsFit, NEW e \in Rating
  PROVE  /\ rated[e] \in Rated /\ rated[e].pc \in RatingState
         /\ rated[e].via \in {"flash", "cloze", "hanja"}
         /\ rated[e].grade \in Grade /\ rated[e].version \in Nat /\ rated[e].result \in Nat
         /\ rated[e].pc # "unused" =>
              rated[e].dev \in Device /\ rated[e].card \in CardId /\ MessageOf(e) \in Message
<1>1. rated[e] \in Rated
  BY DEF RatingsFit
<1>2. /\ rated[e].pc \in RatingState
      /\ rated[e].via \in {"flash", "cloze", "hanja"}
      /\ rated[e].grade \in Grade /\ rated[e].version \in Nat /\ rated[e].result \in Nat
  BY <1>1 DEF Rated
<1>3. rated[e].pc # "unused" => rated[e].dev \in Device /\ rated[e].card \in CardId
  BY DEF RatingsFit, NothingAhead
<1>4. rated[e].pc # "unused" => MessageOf(e) \in Message
  BY <1>2, <1>3 DEF MessageOf, Message
<1> QED BY <1>1, <1>2, <1>3, <1>4

(* What happens to the cards is nothing to a rating, unless it is of it.   *)
LEMMA SameRatings ==
  ASSUME CardsFit, CardsFit', RatingsFit, Onward, UNCHANGED <<held, rated, late>>,
         log \subseteq log', \A r \in log' \ log : r.by \in Attempt
  PROVE  RatingsFit'
<1>1. \A r \in log' : r.by \in Rating => r \in log
  BY CardsAssumption
<1>2. \A c \in CardId : /\ cards[c].version \in Nat /\ cards'[c].version \in Nat
                        /\ cards[c].version <= cards'[c].version
  BY NumbersOfCards DEF Onward, CardsFit, Row
<1>3. held \in [Device -> [CardId -> Nat]]
  BY DEF RatingsFit
<1>4. NothingAhead'
  <2>1. \A d \in Device, c \in CardId : held[d][c] <= cards'[c].version
    BY <1>2, <1>3 DEF RatingsFit, NothingAhead
  <2>2. \A e \in Rating : rated[e].pc # "unused" =>
          /\ rated[e].dev \in Device /\ rated[e].card \in CardId
          /\ rated[e].version <= cards'[rated[e].card].version
    BY <1>2, RatedIs DEF RatingsFit, NothingAhead
  <2>3. \A m \in late : m.version <= cards'[m.card].version
    BY <1>2 DEF RatingsFit, NothingAhead, Message
  <2> QED BY <2>1, <2>2, <2>3 DEF NothingAhead
<1>5. OneMeaning'
  BY <1>1 DEF RatingsFit, OneMeaning
<1>6. PursuedIsHeld'
  <2> SUFFICES ASSUME NEW e \in Rating, Pursued(e)
               PROVE  cards'[rated[e].card].target = cards[rated[e].card].target
    BY DEF RatingsFit, PursuedIsHeld, Pursued
  <2>1. rated[e].dev \in Device /\ rated[e].card \in CardId
    BY RatedIs DEF Pursued
  <2>2. held[rated[e].dev][rated[e].card] # 0
        /\ held[rated[e].dev][rated[e].card] <= cards[rated[e].card].version
    BY <2>1 DEF RatingsFit, PursuedIsHeld, NothingAhead
  <2>3. cards[rated[e].card].version # 0
    BY <1>2, <1>3, <2>1, <2>2
  <2>4. cards[rated[e].card].status # "none"
    BY <2>1, <2>3, SeenIsThere
  <2> QED BY <2>1, <2>4 DEF Onward
<1>7. HanjaWaitsAlone'
  BY DEF RatingsFit, HanjaWaitsAlone, Pursued
<1>8. LateIsStale'
  <2>1. \A m \in late : m.by \in Rating
    BY DEF RatingsFit, Message
  <2> QED BY <1>1, <2>1 DEF RatingsFit, LateIsStale
<1>9. HeldIsStale'
  BY <1>1 DEF RatingsFit, HeldIsStale, Pursued
<1>10. SentIsStale'
  BY <1>1 DEF RatingsFit, SentIsStale, Pursued
<1>11. AnsweredIsRecorded'
  BY DEF RatingsFit, AnsweredIsRecorded
<1>12. RatingIsOnce'
  BY <1>1 DEF RatingsFit, RatingIsOnce
<1>13. SavedRating'
  BY DEF RatingsFit, SavedRating
<1>14. UnusedIsNobodys'
  BY DEF RatingsFit, UnusedIsNobodys
<1> QED BY <1>4, <1>5, <1>6, <1>7, <1>8, <1>9, <1>10, <1>11, <1>12, <1>13, <1>14 DEF RatingsFit

(* The screen and the network: no step of theirs touches a card.           *)
LEMMA OpenKeeps ==
  ASSUME CardsFit, RatingsFit, NEW d \in Device, Open(d)
  PROVE  RatingsFit'
<1>1. UNCHANGED <<cards, log, rated, late>>
  BY DEF Open
<1>2. PICK deck \in {WordDeck, HanjaDeck} :
        held' = [held EXCEPT ![d] = [c \in CardId |-> IF c \in deck THEN cards[c].version ELSE 0]]
  BY DEF Open
<1>3. held \in [Device -> [CardId -> Nat]] /\ \A c \in CardId : held[d][c] = 0
  BY DEF Open, RatingsFit
<1>4. \A c \in CardId : cards[c].version \in Nat
  BY NumbersOfCards
<1>5. /\ held' \in [Device -> [CardId -> Nat]]
      /\ \A c \in CardId : held'[d][c] \in {0, cards[c].version}
      /\ \A b \in Device \ {d} : held'[b] = held[b]
  BY <1>2, <1>3, <1>4
<1>6. \A e \in Rating : Pursued(e) =>
        rated[e].dev \in Device \ {d} /\ held'[rated[e].dev] = held[rated[e].dev]
  <2> SUFFICES ASSUME NEW e \in Rating, Pursued(e)
               PROVE  rated[e].dev \in Device \ {d}
    BY <1>5
  <2>1. rated[e].dev \in Device /\ rated[e].card \in CardId
    BY RatedIs DEF Pursued
  <2>2. held[rated[e].dev][rated[e].card] # 0
    BY DEF RatingsFit, PursuedIsHeld
  <2> QED BY <1>3, <2>1, <2>2
<1>7. NothingAhead'
  <2>1. \A b \in Device, c \in CardId : held'[b][c] <= cards[c].version
    <3> SUFFICES ASSUME NEW b \in Device, NEW c \in CardId
                 PROVE  held'[b][c] <= cards[c].version
      OBVIOUS
    <3>1. CASE b = d
      BY <1>4, <1>5, <3>1
    <3>2. CASE b # d
      BY <1>5, <3>2 DEF RatingsFit, NothingAhead
    <3> QED BY <3>1, <3>2
  <2> QED BY <1>1, <2>1 DEF RatingsFit, NothingAhead
<1>8. PursuedIsHeld'
  BY <1>1, <1>6 DEF RatingsFit, PursuedIsHeld, Pursued
<1>9. HeldIsStale'
  BY <1>1, <1>6 DEF RatingsFit, HeldIsStale, Pursued
<1>10. OneMeaning' /\ HanjaWaitsAlone' /\ LateIsStale' /\ SentIsStale'
  BY <1>1 DEF RatingsFit, OneMeaning, HanjaWaitsAlone, LateIsStale, SentIsStale, Pursued
<1>11. AnsweredIsRecorded' /\ RatingIsOnce' /\ SavedRating'
  BY <1>1 DEF RatingsFit, AnsweredIsRecorded, RatingIsOnce, SavedRating
<1>12. rated' \in [Rating -> Rated] /\ late' \subseteq Message /\ UnusedIsNobodys'
  BY <1>1 DEF RatingsFit, UnusedIsNobodys
<1> QED BY <1>5, <1>7, <1>8, <1>9, <1>10, <1>11, <1>12 DEF RatingsFit

(* Ratings that are dropped take nothing with them but their requests.     *)
LEMMA DropKeeps ==
  ASSUME CardsFit, RatingsFit, UNCHANGED <<cards, log>>, NEW D \in SUBSET Rating,
         \A e \in D : rated[e].pc # "unused" /\ rated[e].pc # "saved",
         rated' = [e \in Rating |-> IF e \in D THEN [rated[e] EXCEPT !.pc = "dropped"] ELSE rated[e]],
         held' \in [Device -> [CardId -> Nat]],
         \A d \in Device, c \in CardId : held'[d][c] \in {0, held[d][c]},
         \A e \in Rating \ D : Pursued(e) => held'[rated[e].dev] = held[rated[e].dev],
         NEW S \in SUBSET Rating, \A e \in S : rated[e].pc = "sent",
         late' = late \cup {MessageOf(e) : e \in S}
  PROVE  RatingsFit'
<1>1. \A e \in Rating :
        /\ rated'[e] \in Rated
        /\ rated'[e].via = rated[e].via /\ rated'[e].dev = rated[e].dev
        /\ rated'[e].card = rated[e].card /\ rated'[e].grade = rated[e].grade
        /\ rated'[e].version = rated[e].version /\ rated'[e].result = rated[e].result
        /\ rated'[e].pc = IF e \in D THEN "dropped" ELSE rated[e].pc
  BY RatedIs DEF Rated, RatingState
<1>2. rated' \in [Rating -> Rated]
  BY <1>1
<1>3. \A e \in Rating : rated'[e].pc = "unused" <=> rated[e].pc = "unused"
  BY <1>1
<1>4. \A e \in Rating : Pursued(e)' => Pursued(e) /\ e \notin D /\ rated'[e] = rated[e]
  BY <1>1 DEF Pursued
<1>5. \A m \in late' \ late : \E e \in S : m = MessageOf(e)
  OBVIOUS
<1>6. late' \subseteq Message
  BY RatedIs DEF RatingsFit
<1>7. \A e \in S : /\ MessageOf(e).by = e /\ MessageOf(e).card = rated[e].card
                   /\ MessageOf(e).grade = rated[e].grade
                   /\ MessageOf(e).version = rated[e].version
  BY DEF MessageOf
<1>8. NothingAhead'
  <2>1. \A d \in Device, c \in CardId : held'[d][c] <= cards[c].version
    BY NumbersOfCards DEF RatingsFit, NothingAhead
  <2>2. \A e \in Rating : rated'[e].pc # "unused" =>
          /\ rated'[e].dev \in Device /\ rated'[e].card \in CardId
          /\ rated'[e].version <= cards[rated'[e].card].version
    BY <1>1, <1>3 DEF RatingsFit, NothingAhead
  <2>3. \A m \in late' : m.version <= cards[m.card].version
    BY <1>5, <1>7 DEF RatingsFit, NothingAhead
  <2> QED BY <2>1, <2>2, <2>3 DEF NothingAhead
<1>9. OneMeaning'
  <2>1. \A r \in log : r.by \in Rating =>
          /\ rated'[r.by].pc # "unused"
          /\ r.card = rated'[r.by].card /\ r.grade = rated'[r.by].grade
    BY <1>1, <1>3 DEF RatingsFit, OneMeaning
  <2>2. ASSUME NEW m \in late'
        PROVE  /\ rated'[m.by].pc # "unused"
               /\ m.card = rated'[m.by].card /\ m.grade = rated'[m.by].grade
    <3>1. CASE m \in late
      <4>1. m.by \in Rating
        BY <3>1 DEF RatingsFit, Message
      <4> QED BY <1>1, <1>3, <3>1, <4>1 DEF RatingsFit, OneMeaning
    <3>2. CASE m \notin late
      BY <1>1, <1>3, <1>5, <1>7, <3>2
    <3> QED BY <3>1, <3>2
  <2> QED BY <2>1, <2>2 DEF OneMeaning
<1>10. PursuedIsHeld'
  BY <1>4 DEF RatingsFit, PursuedIsHeld
<1>11. HanjaWaitsAlone'
  BY <1>4 DEF RatingsFit, HanjaWaitsAlone
<1>12. LateIsStale'
  <2> SUFFICES ASSUME NEW r \in log, NEW m \in late', m.by = r.by
               PROVE  m.version <= r.version
    BY DEF LateIsStale
  <2>1. CASE m \in late
    BY <2>1 DEF RatingsFit, LateIsStale
  <2>2. CASE m \notin late
    <3>1. PICK e \in S : m = MessageOf(e)
      BY <1>5, <2>2
    <3>2. r.by = e /\ Pursued(e) /\ r.card = rated[e].card /\ m.version = rated[e].version
      BY <1>7, <3>1 DEF Pursued, RatingsFit, OneMeaning
    <3> QED BY <3>2 DEF RatingsFit, SentIsStale
  <2> QED BY <2>1, <2>2
<1>13. HeldIsStale'
  <2>1. \A r \in log : r.by \in Rating /\ Pursued(r.by)' =>
          held'[rated'[r.by].dev][r.card] <= r.version
    BY <1>4 DEF RatingsFit, HeldIsStale
  <2> QED BY <2>1 DEF HeldIsStale
<1>14. SentIsStale'
  <2> SUFFICES ASSUME NEW r \in log, r.by \in Rating, Pursued(r.by)', NEW e \in Rating,
                      rated'[e].pc \in {"sent", "answered"},
                      rated'[e].dev = rated'[r.by].dev, rated'[e].card = r.card
               PROVE  rated'[e].version <= r.version
    BY DEF SentIsStale
  <2>1. rated'[e] = rated[e]
    BY <1>4 DEF Pursued
  <2> QED BY <1>4, <2>1 DEF RatingsFit, SentIsStale
<1>15. AnsweredIsRecorded'
  BY <1>1 DEF RatingsFit, AnsweredIsRecorded
<1>16. SavedRating'
  BY <1>1 DEF RatingsFit, SavedRating
<1>17. RatingIsOnce' /\ UnusedIsNobodys'
  BY <1>1, <1>3 DEF RatingsFit, RatingIsOnce, UnusedIsNobodys
<1> QED BY <1>2, <1>6, <1>8, <1>9, <1>10, <1>11, <1>12, <1>13, <1>14, <1>15, <1>16, <1>17
        DEF RatingsFit

LEMMA LeaveKeeps ==
  ASSUME CardsFit, RatingsFit, NEW d \in Device, Leave(d)
  PROVE  RatingsFit'
<1> DEFINE none == [c \in CardId |-> 0]
<1>1. /\ UNCHANGED <<cards, log>>
      /\ held' = [held EXCEPT ![d] = none]
      /\ late' = late \cup {MessageOf(e) : e \in Waiting(d)}
      /\ rated' = [e \in Rating |->
           IF e \in Mine(d) THEN [rated[e] EXCEPT !.pc = "dropped"] ELSE rated[e]]
  BY DEF Leave
<1>2. held \in [Device -> [CardId -> Nat]]
  BY DEF RatingsFit
<1>3. /\ held' \in [Device -> [CardId -> Nat]]
      /\ \A b \in Device, c \in CardId : held'[b][c] \in {0, held[b][c]}
      /\ \A b \in Device \ {d} : held'[b] = held[b]
  BY <1>1, <1>2
<1>4. Mine(d) \in SUBSET Rating /\ Waiting(d) \in SUBSET Rating
      /\ \A e \in Waiting(d) : rated[e].pc = "sent"
  BY DEF Mine, Waiting
<1>5. \A e \in Mine(d) : rated[e].pc # "unused" /\ rated[e].pc # "saved"
  <2>1. NoDevice # d
    BY CardsAssumption
  <2> QED BY <2>1 DEF Mine, RatingsFit, UnusedIsNobodys
<1>6. \A e \in Rating \ Mine(d) : Pursued(e) => held'[rated[e].dev] = held[rated[e].dev]
  <2> SUFFICES ASSUME NEW e \in Rating \ Mine(d), Pursued(e)
               PROVE  rated[e].dev \in Device \ {d}
    BY <1>3
  <2> QED BY RatedIs DEF Mine, Pursued
<1> HIDE DEF none
<1> QED BY <1>1, <1>3, <1>4, <1>5, <1>6, DropKeeps

LEMMA RestartKeeps ==
  ASSUME CardsFit, RatingsFit, NEW d \in Device, Restart(d)
  PROVE  RatingsFit'
<1> DEFINE D == {e \in Rating : rated[e].dev = d /\ rated[e].pc = "failed"}
<1>1. /\ UNCHANGED <<cards, log, held, late>>
      /\ rated' = [e \in Rating |->
           IF e \in D THEN [rated[e] EXCEPT !.pc = "dropped"] ELSE rated[e]]
  BY DEF Restart
<1>2. /\ held' \in [Device -> [CardId -> Nat]]
      /\ \A b \in Device, c \in CardId : held'[b][c] \in {0, held[b][c]}
      /\ \A e \in Rating \ D : Pursued(e) => held'[rated[e].dev] = held[rated[e].dev]
  BY <1>1 DEF RatingsFit
<1>3. D \in SUBSET Rating /\ \A e \in D : rated[e].pc # "unused" /\ rated[e].pc # "saved"
  OBVIOUS
<1> DEFINE S == {e \in Rating : FALSE}
<1>4. /\ S \in SUBSET Rating /\ \A e \in S : rated[e].pc = "sent"
      /\ late' = late \cup {MessageOf(e) : e \in S}
  BY <1>1
<1> HIDE DEF D, S
<1> QED BY <1>1, <1>2, <1>3, <1>4, DropKeeps

(* An error, which the session takes for a review that did not happen.     *)
LEMMA FailKeeps ==
  ASSUME CardsFit, RatingsFit, UNCHANGED <<cards, log, held>>, NEW e \in Rating,
         rated[e].pc \in {"sent", "answered"}, rated' = [rated EXCEPT ![e] = Failed(@)],
         late' = late \/ (rated[e].pc = "sent" /\ late' = late \cup {MessageOf(e)})
  PROVE  RatingsFit'
<1>1. /\ rated'[e] \in Rated
      /\ rated'[e].via = rated[e].via /\ rated'[e].dev = rated[e].dev
      /\ rated'[e].card = rated[e].card /\ rated'[e].grade = rated[e].grade
      /\ rated'[e].version = rated[e].version /\ rated'[e].result = 0
      /\ rated'[e].pc = IF rated[e].via = "flash" THEN "failed" ELSE "dropped"
  BY RatedIs DEF Failed, Rated, RatingState, RatingsFit
<1>2. \A f \in Rating \ {e} : rated'[f] = rated[f]
  BY DEF RatingsFit
<1>3. rated' \in [Rating -> Rated]
  BY <1>1 DEF RatingsFit
<1>4. /\ MessageOf(e).by = e /\ MessageOf(e).card = rated[e].card
      /\ MessageOf(e).grade = rated[e].grade /\ MessageOf(e).version = rated[e].version
      /\ MessageOf(e) \in Message
  BY RatedIs DEF MessageOf
<1>5. \A m \in late' : m \in late \/ (m = MessageOf(e) /\ rated[e].pc = "sent")
  OBVIOUS
<1>6. late' \subseteq Message
  BY <1>4, <1>5 DEF RatingsFit
<1>7. NothingAhead'
  <2>1. \A f \in Rating : rated'[f].pc # "unused" =>
          /\ rated'[f].dev \in Device /\ rated'[f].card \in CardId
          /\ rated'[f].version <= cards[rated'[f].card].version
    BY <1>1, <1>2 DEF RatingsFit, NothingAhead
  <2>2. \A m \in late' : m.version <= cards[m.card].version
    BY <1>4, <1>5 DEF RatingsFit, NothingAhead
  <2> QED BY <2>1, <2>2 DEF RatingsFit, NothingAhead
<1>8. OneMeaning' /\ UnusedIsNobodys'
  <2>1. \A f \in Rating : /\ rated'[f].pc = "unused" <=> rated[f].pc = "unused"
                          /\ rated'[f].card = rated[f].card /\ rated'[f].grade = rated[f].grade
                          /\ rated'[f].dev = rated[f].dev
    BY <1>1, <1>2
  <2>2. \A r \in log : r.by \in Rating =>
          /\ rated'[r.by].pc # "unused"
          /\ r.card = rated'[r.by].card /\ r.grade = rated'[r.by].grade
    BY <2>1 DEF RatingsFit, OneMeaning
  <2>3. \A m \in late' : /\ rated'[m.by].pc # "unused"
                         /\ m.card = rated'[m.by].card /\ m.grade = rated'[m.by].grade
    BY <1>4, <1>5, <2>1 DEF RatingsFit, OneMeaning, Message
  <2> QED BY <2>1, <2>2, <2>3 DEF OneMeaning, RatingsFit, UnusedIsNobodys
<1>9. \A f \in Rating :
        /\ Pursued(f)' => /\ Pursued(f) /\ rated'[f].dev = rated[f].dev
                         /\ rated'[f].card = rated[f].card /\ rated'[f].via = rated[f].via
                         /\ (rated'[f].via # "flash" => f # e)
        /\ rated'[f].pc \in {"sent", "answered", "saved"} => rated'[f] = rated[f]
  BY <1>1, <1>2 DEF Pursued
<1>10. PursuedIsHeld'
  BY <1>2, <1>9 DEF RatingsFit, PursuedIsHeld
<1>11. HanjaWaitsAlone'
  BY <1>9 DEF RatingsFit, HanjaWaitsAlone
<1>12. LateIsStale'
  <2>1. \A r \in log : r.by = e => rated[e].version <= r.version /\ r.card = rated[e].card
    BY DEF RatingsFit, SentIsStale, OneMeaning, Pursued
  <2> QED BY <1>4, <1>5, <2>1 DEF RatingsFit, LateIsStale
<1>13. HeldIsStale'
  BY <1>9 DEF RatingsFit, HeldIsStale
<1>14. SentIsStale'
  <2> SUFFICES ASSUME NEW r \in log, r.by \in Rating, Pursued(r.by)', NEW f \in Rating,
                      rated'[f].pc \in {"sent", "answered"},
                      rated'[f].dev = rated'[r.by].dev, rated'[f].card = r.card
               PROVE  rated'[f].version <= r.version
    BY DEF SentIsStale
  <2> QED BY <1>9 DEF RatingsFit, SentIsStale
<1>15. AnsweredIsRecorded' /\ SavedRating' /\ RatingIsOnce'
  BY <1>9 DEF RatingsFit, AnsweredIsRecorded, SavedRating, RatingIsOnce
<1> QED BY <1>3, <1>6, <1>7, <1>8, <1>10, <1>11, <1>12, <1>13, <1>14, <1>15 DEF RatingsFit

LEMMA GiveUpKeeps ==
  ASSUME CardsFit, RatingsFit, NEW e \in Rating, GiveUp(e)
  PROVE  RatingsFit'
<1>1. /\ UNCHANGED <<cards, log, held>> /\ rated[e].pc \in {"sent", "answered"}
      /\ rated' = [rated EXCEPT ![e] = Failed(@)]
      /\ late' = late \/ (rated[e].pc = "sent" /\ late' = late \cup {MessageOf(e)})
  BY DEF GiveUp
<1> QED BY <1>1, FailKeeps

(* An answer that arrives: the session goes by the version it brings.      *)
LEMMA DeliverKeeps ==
  ASSUME CardsFit, RatingsFit, NEW e \in Rating, Deliver(e)
  PROVE  RatingsFit'
<1>1. rated[e].pc = "answered" /\ UNCHANGED <<cards, log, late>>
  BY DEF Deliver
<1>2. CASE rated[e].result = 0
  BY <1>1, <1>2, FailKeeps DEF Deliver
<1>3. CASE rated[e].result # 0
  <2> DEFINE d == rated[e].dev
  <2> DEFINE b == rated[e].card
  <2> DEFINE v == IF rated[e].via = "hanja" THEN 0 ELSE rated[e].result
  <2>1. /\ rated' = [rated EXCEPT ![e].pc = "saved"]
        /\ held' = [held EXCEPT ![d][b] = v]
    BY <1>3 DEF Deliver
  <2>2. /\ d \in Device /\ b \in CardId /\ v \in Nat /\ rated[e] \in Rated
        /\ held \in [Device -> [CardId -> Nat]]
    BY <1>1, RatedIs DEF RatingsFit
  <2>3. /\ rated'[e] \in Rated
        /\ rated'[e].via = rated[e].via /\ rated'[e].dev = rated[e].dev
        /\ rated'[e].card = rated[e].card /\ rated'[e].grade = rated[e].grade
        /\ rated'[e].version = rated[e].version /\ rated'[e].result = rated[e].result
        /\ rated'[e].pc = "saved"
    BY <2>1, <2>2 DEF Rated, RatingState, RatingsFit
  <2>4. \A f \in Rating \ {e} : rated'[f] = rated[f]
    BY <2>1 DEF RatingsFit
  <2>5. rated' \in [Rating -> Rated]
    BY <2>1, <2>3 DEF RatingsFit
  <2>6. /\ held' \in [Device -> [CardId -> Nat]]
        /\ held'[d][b] = v
        /\ \A a \in Device, c \in CardId : a # d \/ c # b => held'[a][c] = held[a][c]
    BY <2>1, <2>2
  <2>7. PICK s \in log : s.by = e /\ s.version = rated[e].version
    BY <1>1, <1>3 DEF RatingsFit, AnsweredIsRecorded
  <2>8. s.card = b /\ s.grade = rated[e].grade /\ rated[e].result = s.version + 1
    BY <1>1, <1>3, <2>7 DEF RatingsFit, OneMeaning, AnsweredIsRecorded
  <2>9. s.version < cards[b].version /\ s.version \in Nat /\ cards[b].version \in Nat
    <3>1. s.version < cards[s.card].version /\ s.version \in Nat
      BY LogIsBehind
    <3>2. cards[b].version \in Nat
      BY <2>2, NumbersOfCards
    <3> QED BY <2>8, <3>1, <3>2
  <2> HIDE DEF d, b, v
  <2>10. v <= s.version + 1 /\ v <= cards[b].version
    BY <2>8, <2>9 DEF v
  <2>11. \A f \in Rating : Pursued(f)' => f # e /\ Pursued(f) /\ rated'[f] = rated[f]
    BY <2>3, <2>4 DEF Pursued
  <2>12. \A f \in Rating : Pursued(f) => rated[f].dev \in Device /\ rated[f].card \in CardId
    BY RatedIs DEF Pursued
  <2>13. NothingAhead'
    <3>1. \A a \in Device, c \in CardId : held'[a][c] <= cards[c].version
      BY <2>6, <2>10 DEF RatingsFit, NothingAhead
    <3>2. \A f \in Rating : rated'[f].pc # "unused" =>
            /\ rated'[f].dev \in Device /\ rated'[f].card \in CardId
            /\ rated'[f].version <= cards[rated'[f].card].version
      BY <1>1, <2>3, <2>4 DEF RatingsFit, NothingAhead
    <3> QED BY <1>1, <3>1, <3>2 DEF RatingsFit, NothingAhead
  <2>14. OneMeaning' /\ UnusedIsNobodys'
    <3>1. \A f \in Rating : /\ rated'[f].pc = "unused" <=> rated[f].pc = "unused"
                            /\ rated'[f].card = rated[f].card /\ rated'[f].grade = rated[f].grade
                            /\ rated'[f].dev = rated[f].dev
      BY <1>1, <2>3, <2>4
    <3>2. \A r \in log : r.by \in Rating =>
            /\ rated'[r.by].pc # "unused"
            /\ r.card = rated'[r.by].card /\ r.grade = rated'[r.by].grade
      BY <3>1 DEF RatingsFit, OneMeaning
    <3>3. \A m \in late : /\ rated'[m.by].pc # "unused"
                          /\ m.card = rated'[m.by].card /\ m.grade = rated'[m.by].grade
      BY <3>1 DEF RatingsFit, OneMeaning, Message
    <3> QED BY <1>1, <3>1, <3>2, <3>3 DEF OneMeaning, RatingsFit, UnusedIsNobodys
  <2>15. PursuedIsHeld'
    <3> SUFFICES ASSUME NEW f \in Rating, Pursued(f), f # e, rated'[f] = rated[f]
                 PROVE  held'[rated[f].dev][rated[f].card] # 0
      BY <1>1, <2>11 DEF RatingsFit, PursuedIsHeld
    <3>1. CASE rated[f].dev # d \/ rated[f].card # b
      BY <2>6, <2>12, <3>1 DEF RatingsFit, PursuedIsHeld
    <3>2. CASE rated[f].dev = d /\ rated[f].card = b
      <4>1. Pursued(e)
        BY <1>1 DEF Pursued
      <4>2. rated[e].via = "hanja" => rated[f].via = "hanja"
        BY <3>2, <4>1 DEF RatingsFit, PursuedIsHeld, b
      <4>3. rated[e].via # "hanja"
        BY <3>2, <4>1, <4>2 DEF RatingsFit, HanjaWaitsAlone, d
      <4>4. v # 0
        BY <1>3, <4>3 DEF v
      <4> QED BY <2>6, <3>2, <4>4
    <3> QED BY <3>1, <3>2
  <2>16. HanjaWaitsAlone'
    BY <2>11 DEF RatingsFit, HanjaWaitsAlone
  <2>17. HeldIsStale'
    <3> SUFFICES ASSUME NEW r \in log, r.by \in Rating, r.by # e, Pursued(r.by),
                        rated'[r.by] = rated[r.by]
                 PROVE  held'[rated[r.by].dev][r.card] <= r.version
      BY <1>1, <2>11 DEF HeldIsStale
    <3>1. r.card \in CardId /\ r.version \in Nat
      BY LogIsBehind
    <3>2. CASE rated[r.by].dev # d \/ r.card # b
      BY <2>6, <2>12, <3>1, <3>2 DEF RatingsFit, HeldIsStale
    <3>3. CASE rated[r.by].dev = d /\ r.card = b
      <4>1. rated[e].version <= r.version
        BY <1>1, <3>3 DEF RatingsFit, SentIsStale, d, b
      <4>2. s.version # r.version
        BY <2>7, <2>8, <3>3, LogIsBehind DEF b
      <4>3. s.version < r.version
        BY <2>7, <2>9, <3>1, <4>1, <4>2
      <4> QED BY <2>2, <2>6, <2>9, <2>10, <3>1, <3>3, <4>3
    <3> QED BY <3>2, <3>3
  <2>18. SentIsStale'
    <3> SUFFICES ASSUME NEW r \in log, r.by \in Rating, Pursued(r.by)', NEW f \in Rating,
                        rated'[f].pc \in {"sent", "answered"},
                        rated'[f].dev = rated'[r.by].dev, rated'[f].card = r.card
                 PROVE  rated'[f].version <= r.version
      BY <1>1 DEF SentIsStale
    <3>1. rated'[f] = rated[f]
      BY <2>3, <2>4
    <3> QED BY <2>11, <3>1 DEF RatingsFit, SentIsStale
  <2>19. AnsweredIsRecorded' /\ RatingIsOnce' /\ LateIsStale'
    <3>1. \A f \in Rating : rated'[f].pc = "answered" => rated'[f] = rated[f]
      BY <2>3, <2>4
    <3> QED BY <1>1, <3>1 DEF RatingsFit, AnsweredIsRecorded, RatingIsOnce, LateIsStale
  <2>20. SavedRating'
    <3> SUFFICES ASSUME NEW f \in Rating, rated'[f].pc = "saved"
                 PROVE  \E r \in log : /\ r.by = f /\ r.card = rated'[f].card
                                       /\ r.grade = rated'[f].grade
                                       /\ r.version + 1 = rated'[f].result
      BY <1>1 DEF SavedRating
    <3>1. CASE f = e
      BY <2>3, <2>7, <2>8, <3>1 DEF b
    <3>2. CASE f # e
      BY <2>4, <3>2 DEF RatingsFit, SavedRating
    <3> QED BY <3>1, <3>2
  <2>21. late' \subseteq Message
    BY <1>1 DEF RatingsFit
  <2> QED BY <2>5, <2>6, <2>13, <2>14, <2>15, <2>16, <2>17, <2>18, <2>19, <2>20, <2>21
          DEF RatingsFit
<1> QED BY <1>2, <1>3

(* A rating is sent, anew or again, with the version its session holds.    *)
LEMMA SendKeeps ==
  ASSUME CardsFit, RatingsFit, UNCHANGED <<cards, log, held, late>>, NEW e \in Rating,
         NEW n \in Rated, rated' = [rated EXCEPT ![e] = n],
         n.pc = "sent", n.dev \in Device, n.card \in CardId, n.version = held[n.dev][n.card],
         n.version # 0, n.via = "hanja" <=> cards[n.card].target \in Hanja,
         \/ rated[e].pc = "unused"
         \/ rated[e].pc = "failed" /\ n.dev = rated[e].dev /\ n.card = rated[e].card
              /\ n.grade = rated[e].grade,
         \A f \in Rating \ {e} : Pursued(f) /\ n.dev = rated[f].dev /\ n.via = "hanja"
           => rated[f].via # "hanja"
  PROVE  RatingsFit'
<1>1. rated'[e] = n /\ \A f \in Rating \ {e} : rated'[f] = rated[f]
  BY DEF RatingsFit
<1>2. rated' \in [Rating -> Rated]
  BY DEF RatingsFit
<1>3. n.version \in Nat /\ n.version <= cards[n.card].version
  BY DEF RatingsFit, NothingAhead, Rated
<1>4. \A r \in log : r.by = e => rated[e].pc = "failed" /\ r.card = n.card /\ r.grade = n.grade
  BY DEF RatingsFit, OneMeaning
<1>5. \A m \in late : m.by \in Rating /\
        (m.by = e => rated[e].pc = "failed" /\ m.card = n.card /\ m.grade = n.grade)
  BY DEF RatingsFit, OneMeaning, Message
<1>6. NothingAhead'
  <2>1. \A f \in Rating : rated'[f].pc # "unused" =>
          /\ rated'[f].dev \in Device /\ rated'[f].card \in CardId
          /\ rated'[f].version <= cards[rated'[f].card].version
    BY <1>1, <1>3 DEF RatingsFit, NothingAhead
  <2> QED BY <2>1 DEF RatingsFit, NothingAhead
<1>7. OneMeaning' /\ UnusedIsNobodys'
  <2>1. \A r \in log : r.by \in Rating =>
          /\ rated'[r.by].pc # "unused"
          /\ r.card = rated'[r.by].card /\ r.grade = rated'[r.by].grade
    BY <1>1, <1>4 DEF RatingsFit, OneMeaning
  <2>2. \A m \in late : /\ rated'[m.by].pc # "unused"
                        /\ m.card = rated'[m.by].card /\ m.grade = rated'[m.by].grade
    BY <1>1, <1>5 DEF RatingsFit, OneMeaning
  <2>3. UnusedIsNobodys'
    BY <1>1 DEF RatingsFit, UnusedIsNobodys
  <2> QED BY <2>1, <2>2, <2>3 DEF OneMeaning
<1>8. \A f \in Rating : Pursued(f)' => f = e \/ (Pursued(f) /\ rated'[f] = rated[f])
  BY <1>1 DEF Pursued
<1>9. PursuedIsHeld'
  BY <1>1, <1>8 DEF RatingsFit, PursuedIsHeld
<1>10. HanjaWaitsAlone'
  <2> SUFFICES ASSUME NEW f \in Rating, NEW h \in Rating, Pursued(f)', Pursued(h)',
                      rated'[f].dev = rated'[h].dev, rated'[f].via = "hanja",
                      rated'[h].via = "hanja", f # h
               PROVE  FALSE
    BY DEF HanjaWaitsAlone
  <2>1. CASE f = e
    BY <1>1, <1>8, <2>1
  <2>2. CASE h = e
    BY <1>1, <1>8, <2>2
  <2>3. CASE f # e /\ h # e
    BY <1>8, <2>3 DEF RatingsFit, HanjaWaitsAlone
  <2> QED BY <2>1, <2>2, <2>3
<1>11. HeldIsStale'
  <2> SUFFICES ASSUME NEW r \in log, r.by \in Rating, Pursued(r.by)'
               PROVE  held[rated'[r.by].dev][r.card] <= r.version
    BY DEF HeldIsStale
  <2>1. CASE r.by = e
    <3>1. rated[e].pc = "failed" /\ Pursued(e) /\ n.dev = rated[e].dev
      BY <1>4, <2>1 DEF Pursued
    <3> QED BY <1>1, <2>1, <3>1 DEF RatingsFit, HeldIsStale
  <2>2. CASE r.by # e
    BY <1>8, <2>2 DEF RatingsFit, HeldIsStale
  <2> QED BY <2>1, <2>2
<1>12. SentIsStale'
  <2> SUFFICES ASSUME NEW r \in log, r.by \in Rating, Pursued(r.by)', NEW f \in Rating,
                      rated'[f].pc \in {"sent", "answered"},
                      rated'[f].dev = rated'[r.by].dev, rated'[f].card = r.card
               PROVE  rated'[f].version <= r.version
    BY DEF SentIsStale
  <2>1. held[rated'[r.by].dev][r.card] <= r.version
    BY <1>11 DEF HeldIsStale
  <2>2. CASE f = e
    BY <1>1, <2>1, <2>2
  <2>3. CASE f # e
    <3>1. rated'[f] = rated[f]
      BY <1>1, <2>3
    <3>2. CASE r.by = e
      <4>1. Pursued(e) /\ n.dev = rated[e].dev
        BY <1>4, <3>2 DEF Pursued
      <4> QED BY <1>1, <3>1, <3>2, <4>1 DEF RatingsFit, SentIsStale
    <3>3. CASE r.by # e
      BY <1>8, <3>1, <3>3 DEF RatingsFit, SentIsStale
    <3> QED BY <3>2, <3>3
  <2> QED BY <2>2, <2>3
<1>13. AnsweredIsRecorded' /\ RatingIsOnce' /\ LateIsStale' /\ SavedRating'
  <2>1. \A f \in Rating : rated'[f].pc \in {"answered", "saved"} => rated'[f] = rated[f]
    BY <1>1
  <2> QED BY <2>1 DEF RatingsFit, AnsweredIsRecorded, RatingIsOnce, LateIsStale, SavedRating
<1> QED BY <1>2, <1>6, <1>7, <1>9, <1>10, <1>11, <1>12, <1>13 DEF RatingsFit

LEMMA RateKeeps ==
  ASSUME CardsFit, RatingsFit, NEW d \in Device, NEW e \in Rating, NEW c \in CardId,
         NEW g \in Grades, NEW via \in {"flash", "cloze", "hanja"}, Rate(d, e, c, g, via)
  PROVE  RatingsFit'
<1> DEFINE n == [pc |-> "sent", via |-> via, dev |-> d, card |-> c, grade |-> g,
                 version |-> held[d][c], result |-> 0]
<1>1. /\ UNCHANGED <<cards, log, held, late>>
      /\ rated[e].pc = "unused" /\ held[d][c] # 0 /\ ~Busy(d)
      /\ via = "hanja" <=> cards[c].target \in Hanja
      /\ rated' = [rated EXCEPT ![e] = n]
  BY DEF Rate
<1>2. held[d][c] \in Nat /\ g \in Grade
  BY CardsAssumption DEF RatingsFit, Grade
<1>3. n \in Rated
  BY <1>2 DEF Rated, RatingState
<1>4. \A f \in Rating \ {e} : Pursued(f) /\ d = rated[f].dev => rated[f].via # "hanja"
  BY <1>1 DEF Busy, Pursued, RatingsFit, PursuedIsHeld
<1>5. /\ n.pc = "sent" /\ n.dev = d /\ n.card = c /\ n.version = held[d][c] /\ n.via = via
  OBVIOUS
<1> HIDE DEF n
<1> QED BY <1>1, <1>3, <1>4, <1>5, SendKeeps

LEMMA RetryKeeps ==
  ASSUME CardsFit, RatingsFit, NEW e \in Rating, Retry(e)
  PROVE  RatingsFit'
<1> DEFINE v == held[rated[e].dev][rated[e].card]
<1> DEFINE n == [rated[e] EXCEPT !.pc = "sent", !.version = v]
<1>1. /\ UNCHANGED <<cards, log, held, late>> /\ rated[e].pc = "failed"
      /\ rated' = [rated EXCEPT ![e].pc = "sent", ![e].version = v]
  BY DEF Retry
<1>2. /\ rated[e] \in Rated /\ rated[e].dev \in Device /\ rated[e].card \in CardId
      /\ v \in Nat
  BY <1>1, RatedIs DEF RatingsFit
<1>3. Pursued(e)
  BY <1>1 DEF Pursued
<1>4. /\ v # 0 /\ rated[e].via = "flash"
      /\ rated[e].via = "hanja" <=> cards[rated[e].card].target \in Hanja
  BY <1>1, <1>3 DEF RatingsFit, PursuedIsHeld
<1> HIDE DEF v
<1>5. /\ n \in Rated /\ n.pc = "sent" /\ n.dev = rated[e].dev /\ n.card = rated[e].card
      /\ n.grade = rated[e].grade /\ n.version = v /\ n.via = rated[e].via
  BY <1>2 DEF Rated, RatingState
<1>6. rated' = [rated EXCEPT ![e] = n]
  BY <1>1
<1> HIDE DEF n
<1>7. n.version = held[n.dev][n.card] /\ n.version # 0
  BY <1>4, <1>5 DEF v
<1>8. /\ n.via = "hanja" <=> cards[n.card].target \in Hanja
      /\ \A f \in Rating \ {e} : Pursued(f) /\ n.dev = rated[f].dev /\ n.via = "hanja"
           => rated[f].via # "hanja"
  BY <1>4, <1>5
<1>9. n.dev \in Device /\ n.card \in CardId
  BY <1>2, <1>5
<1> QED BY <1>1, <1>5, <1>6, <1>7, <1>8, <1>9, SendKeeps

---------------------------------------------------------------------------
(* A review of a rating: the request that is carried out.                  *)
LEMMA FirstTime ==
  ASSUME CardsFit, RatingsFit, NEW m \in Message, Accepts(m),
         \A r \in log : r.by = m.by => r.card = m.card /\ m.version <= r.version
  PROVE  \A r \in log : r.by # m.by
<1> SUFFICES ASSUME NEW r \in log, r.by = m.by
             PROVE  FALSE
  OBVIOUS
<1>1. r.card = m.card /\ m.version <= r.version
  OBVIOUS
<1>2. cards[m.card].version = m.version
  BY DEF Accepts
<1>3. r.version < cards[r.card].version /\ r.version \in Nat
  BY LogIsBehind
<1>4. m.version \in Nat
  BY DEF Message
<1> QED BY <1>1, <1>2, <1>3, <1>4

LEMMA AcceptedReviews ==
  ASSUME CardsFit, NEW m \in Message, Accepts(m), ApplyCardReview(m)
  PROVE  /\ Reviews(m.card, cards[m.card], m.by, m.grade)
         /\ m.card \in CardId /\ m.by \in Event /\ m.grade \in Grade
         /\ cards[m.card].version = m.version
<1>1. m.card \in CardId /\ m.by \in Event /\ m.grade \in Grade
  BY DEF Message, Event
<1>2. cards[m.card].version = m.version /\ cards[m.card].status = "live"
  BY DEF Accepts, Found, Live
<1>3. /\ cards' = [cards EXCEPT ![m.card] = Reviewed(cards[m.card], m.grade)]
      /\ log' = log \cup {Logged(m.card, m.by, m.grade)}
  BY DEF ApplyCardReview, CardsFit
<1>4. Logged(m.card, m.by, m.grade) = LogOf(m.card, cards[m.card], m.by, m.grade)
  BY DEF Logged, LogOf
<1> QED BY <1>1, <1>2, <1>3, <1>4 DEF Reviews, Starts

(* What a review of a rating does to the ratings, whoever sent it.         *)
LEMMA RecordKeeps ==
  ASSUME CardsFit, CardsFit', RatingsFit, Onward, UNCHANGED held,
         NEW m \in Message, NEW x, log' = log \cup {x},
         x.card = m.card, x.version = m.version, x.by = m.by, x.grade = m.grade,
         cards[m.card].version = m.version,
         rated[m.by].pc # "unused", rated[m.by].card = m.card, rated[m.by].grade = m.grade,
         \A r \in log : r.by # m.by,
         rated' \in [Rating -> Rated], late' \subseteq late,
         \A e \in Rating :
           /\ rated'[e].via = rated[e].via /\ rated'[e].dev = rated[e].dev
           /\ rated'[e].card = rated[e].card /\ rated'[e].grade = rated[e].grade
           /\ rated'[e].version = rated[e].version
           /\ \/ /\ rated'[e].pc = rated[e].pc /\ rated'[e].result = rated[e].result
              \/ /\ e = m.by /\ rated[e].pc = "sent" /\ rated'[e].pc = "answered"
                 /\ rated[e].version = m.version /\ rated'[e].result = m.version + 1
  PROVE  RatingsFit'
<1> m.by \in Rating /\ m.card \in CardId /\ m.version \in Nat
  BY DEF Message
<1>1. \A c \in CardId : /\ cards[c].version \in Nat /\ cards'[c].version \in Nat
                        /\ cards[c].version <= cards'[c].version
  BY NumbersOfCards DEF Onward, CardsFit, Row
<1>2. held \in [Device -> [CardId -> Nat]] /\ held' = held
  BY DEF RatingsFit
<1>3. \A e \in Rating : /\ Pursued(e)' <=> Pursued(e)
                        /\ rated'[e].pc = "unused" <=> rated[e].pc = "unused"
                        /\ rated'[e].pc \in {"sent", "answered"} <=> rated[e].pc \in {"sent", "answered"}
                        /\ rated'[e].pc = "failed" <=> rated[e].pc = "failed"
  BY DEF Pursued
<1>4. \A e \in Rating : rated[e].pc # "unused" => rated[e].dev \in Device /\ rated[e].card \in CardId
                                                 /\ rated[e].version \in Nat
  BY RatedIs
<1>5. late' \subseteq Message
  BY DEF RatingsFit
<1>6. NothingAhead'
  <2>1. \A d \in Device, c \in CardId : held[d][c] <= cards'[c].version
    BY <1>1, <1>2 DEF RatingsFit, NothingAhead
  <2>2. \A e \in Rating : rated'[e].pc # "unused" =>
          /\ rated'[e].dev \in Device /\ rated'[e].card \in CardId
          /\ rated'[e].version <= cards'[rated'[e].card].version
    BY <1>1, <1>3, <1>4 DEF RatingsFit, NothingAhead
  <2>3. \A b \in late' : b.version <= cards'[b.card].version
    BY <1>1 DEF RatingsFit, NothingAhead, Message
  <2> QED BY <1>2, <2>1, <2>2, <2>3 DEF NothingAhead
<1>7. OneMeaning' /\ UnusedIsNobodys'
  <2>1. \A r \in log' : r.by \in Rating =>
          /\ rated'[r.by].pc # "unused"
          /\ r.card = rated'[r.by].card /\ r.grade = rated'[r.by].grade
    BY <1>3 DEF RatingsFit, OneMeaning
  <2>2. \A b \in late' : /\ rated'[b.by].pc # "unused"
                         /\ b.card = rated'[b.by].card /\ b.grade = rated'[b.by].grade
    BY <1>3 DEF RatingsFit, OneMeaning, Message
  <2>3. UnusedIsNobodys'
    BY <1>3 DEF RatingsFit, UnusedIsNobodys
  <2> QED BY <2>1, <2>2, <2>3 DEF OneMeaning
<1>8. PursuedIsHeld'
  <2> SUFFICES ASSUME NEW e \in Rating, Pursued(e)
               PROVE  /\ held[rated[e].dev][rated[e].card] # 0
                      /\ rated[e].via = "hanja" <=> cards'[rated[e].card].target \in Hanja
                      /\ rated[e].via # "flash" => rated[e].pc # "failed"
    BY <1>2, <1>3 DEF PursuedIsHeld
  <2>1. rated[e].dev \in Device /\ rated[e].card \in CardId
    BY <1>4 DEF Pursued
  <2>2. held[rated[e].dev][rated[e].card] # 0
        /\ held[rated[e].dev][rated[e].card] <= cards[rated[e].card].version
    BY <2>1 DEF RatingsFit, PursuedIsHeld, NothingAhead
  <2>3. cards[rated[e].card].version # 0
    BY <1>1, <1>2, <2>1, <2>2
  <2>4. cards[rated[e].card].status # "none"
    BY <2>1, <2>3, SeenIsThere
  <2>5. cards'[rated[e].card].target = cards[rated[e].card].target
    BY <2>1, <2>4 DEF Onward
  <2> QED BY <2>5 DEF RatingsFit, PursuedIsHeld
<1>9. HanjaWaitsAlone'
  BY <1>3 DEF RatingsFit, HanjaWaitsAlone
<1>10. LateIsStale'
  <2> SUFFICES ASSUME NEW r \in log', NEW b \in late', b.by = r.by
               PROVE  b.version <= r.version
    BY DEF LateIsStale
  <2>1. CASE r \in log
    BY <2>1 DEF RatingsFit, LateIsStale
  <2>2. CASE r = x
    <3>1. b.card = m.card
      BY <2>2 DEF RatingsFit, OneMeaning
    <3> QED BY <2>2, <3>1 DEF RatingsFit, NothingAhead
  <2> QED BY <2>1, <2>2
<1>11. HeldIsStale'
  <2> SUFFICES ASSUME NEW r \in log', r.by \in Rating, Pursued(r.by)
               PROVE  held[rated[r.by].dev][r.card] <= r.version
    BY <1>2, <1>3 DEF HeldIsStale
  <2>1. CASE r \in log
    BY <2>1 DEF RatingsFit, HeldIsStale
  <2>2. CASE r = x
    <3>1. rated[m.by].dev \in Device
      BY <1>4
    <3> QED BY <2>2, <3>1 DEF RatingsFit, NothingAhead
  <2> QED BY <2>1, <2>2
<1>12. SentIsStale'
  <2> SUFFICES ASSUME NEW r \in log', r.by \in Rating, Pursued(r.by), NEW e \in Rating,
                      rated[e].pc \in {"sent", "answered"},
                      rated[e].dev = rated[r.by].dev, rated[e].card = r.card
               PROVE  rated[e].version <= r.version
    BY <1>3 DEF SentIsStale
  <2>1. CASE r \in log
    BY <2>1 DEF RatingsFit, SentIsStale
  <2>2. CASE r = x
    BY <2>2 DEF RatingsFit, NothingAhead
  <2> QED BY <2>1, <2>2
<1>13. AnsweredIsRecorded'
  <2> SUFFICES ASSUME NEW e \in Rating, rated'[e].pc = "answered", rated'[e].result # 0
               PROVE  /\ rated'[e].result = rated'[e].version + 1
                      /\ \E r \in log' : r.by = e /\ r.version = rated'[e].version
    BY DEF AnsweredIsRecorded
  <2>1. CASE rated'[e].pc = rated[e].pc /\ rated'[e].result = rated[e].result
    BY <2>1 DEF RatingsFit, AnsweredIsRecorded
  <2>2. CASE e = m.by /\ rated[e].version = m.version /\ rated'[e].result = m.version + 1
    BY <2>2
  <2> QED BY <2>1, <2>2
<1>14. RatingIsOnce'
  BY DEF RatingsFit, RatingIsOnce
<1>15. SavedRating'
  <2> SUFFICES ASSUME NEW e \in Rating, rated'[e].pc = "saved"
               PROVE  \E r \in log' : r.by = e /\ r.card = rated'[e].card
                        /\ r.grade = rated'[e].grade /\ r.version + 1 = rated'[e].result
    BY DEF SavedRating
  <2>1. rated'[e].pc = rated[e].pc /\ rated'[e].result = rated[e].result
    OBVIOUS
  <2> QED BY <2>1 DEF RatingsFit, SavedRating
<1> QED BY <1>2, <1>5, <1>6, <1>7, <1>8, <1>9, <1>10, <1>11, <1>12, <1>13, <1>14, <1>15
        DEF RatingsFit

(* A review that is refused: its session learns that, if it still waits.   *)
LEMMA RefusedKeeps ==
  ASSUME CardsFit, RatingsFit, UNCHANGED <<cards, log, held>>,
         rated' \in [Rating -> Rated], late' \subseteq late,
         \A e \in Rating :
           \/ rated'[e] = rated[e]
           \/ /\ rated[e].pc = "sent" /\ rated'[e].pc = "answered" /\ rated'[e].result = 0
              /\ rated'[e].via = rated[e].via /\ rated'[e].dev = rated[e].dev
              /\ rated'[e].card = rated[e].card /\ rated'[e].grade = rated[e].grade
              /\ rated'[e].version = rated[e].version
  PROVE  RatingsFit'
<1>1. \A e \in Rating : /\ rated'[e].via = rated[e].via /\ rated'[e].dev = rated[e].dev
                        /\ rated'[e].card = rated[e].card /\ rated'[e].grade = rated[e].grade
                        /\ rated'[e].version = rated[e].version
                        /\ rated'[e].pc = "unused" <=> rated[e].pc = "unused"
                        /\ rated'[e].pc = "failed" <=> rated[e].pc = "failed"
                        /\ rated'[e].pc \in {"sent", "answered"} => rated[e].pc \in {"sent", "answered"}
                        /\ rated'[e].pc = "saved" => rated'[e] = rated[e]
                        /\ rated'[e].pc = "answered" /\ rated'[e].result # 0 => rated'[e] = rated[e]
                        /\ Pursued(e)' => Pursued(e)
  BY DEF Pursued
<1>2. NothingAhead' /\ UnusedIsNobodys'
  BY <1>1 DEF RatingsFit, NothingAhead, UnusedIsNobodys
<1>3. OneMeaning'
  BY <1>1 DEF RatingsFit, OneMeaning, Message
<1>4. PursuedIsHeld' /\ HanjaWaitsAlone'
  BY <1>1 DEF RatingsFit, PursuedIsHeld, HanjaWaitsAlone
<1>5. HeldIsStale' /\ LateIsStale'
  BY <1>1 DEF RatingsFit, HeldIsStale, LateIsStale
<1>6. SentIsStale'
  <2> SUFFICES ASSUME NEW r \in log, r.by \in Rating, Pursued(r.by), NEW e \in Rating,
                      rated[e].pc \in {"sent", "answered"},
                      rated[e].dev = rated[r.by].dev, rated[e].card = r.card
               PROVE  rated[e].version <= r.version
    BY <1>1 DEF SentIsStale
  <2> QED BY DEF RatingsFit, SentIsStale
<1>7. AnsweredIsRecorded' /\ SavedRating' /\ RatingIsOnce'
  BY <1>1 DEF RatingsFit, AnsweredIsRecorded, SavedRating, RatingIsOnce
<1> QED BY <1>2, <1>3, <1>4, <1>5, <1>6, <1>7 DEF RatingsFit

(* What the rest needs to know of a step that does, or does not, review.   *)
LogGrows(E) == log \subseteq log' /\ \A r \in log' \ log : r.by \in E

LEMMA SameKeeps ==
  ASSUME CardsFit, UNCHANGED <<cards, log>>
  PROVE  CardsFit' /\ Onward /\ LogGrows({})
<1>1. Moves
  BY SameMoves
<1> QED BY <1>1, MovesKeep DEF LogGrows

LEMMA AnswerKeeps ==
  ASSUME CardsFit, RatingsFit, NEW e \in Rating, Answer(e)
  PROVE  CardsFit' /\ Onward /\ LogGrows(Rating) /\ RatingsFit'
<1> DEFINE m == MessageOf(e)
<1>1. /\ rated[e].pc = "sent" /\ ApplyCardReview(m) /\ UNCHANGED <<held, late>>
      /\ rated' = [rated EXCEPT ![e].pc = "answered",
           ![e].result = IF Accepts(m) THEN rated[e].version + 1 ELSE 0]
  BY DEF Answer
<1>2. /\ rated[e] \in Rated /\ m \in Message /\ rated[e].version \in Nat
      /\ rated \in [Rating -> Rated]
  BY <1>1, RatedIs DEF RatingsFit
<1>3. /\ m.by = e /\ m.card = rated[e].card /\ m.grade = rated[e].grade
      /\ m.version = rated[e].version
  BY DEF MessageOf
<1> HIDE DEF m
<1>4. /\ rated'[e] \in Rated
      /\ rated'[e].via = rated[e].via /\ rated'[e].dev = rated[e].dev
      /\ rated'[e].card = rated[e].card /\ rated'[e].grade = rated[e].grade
      /\ rated'[e].version = rated[e].version /\ rated'[e].pc = "answered"
      /\ rated'[e].result = IF Accepts(m) THEN m.version + 1 ELSE 0
  <2> DEFINE v == IF Accepts(m) THEN rated[e].version + 1 ELSE 0
  <2>1. v \in Nat
    BY <1>2
  <2>2. rated' = [rated EXCEPT ![e].pc = "answered", ![e].result = v]
    BY <1>1
  <2>3. v = IF Accepts(m) THEN m.version + 1 ELSE 0
    BY <1>3
  <2> HIDE DEF v
  <2> QED BY <1>2, <2>1, <2>2, <2>3 DEF Rated, RatingState
<1>5. rated' \in [Rating -> Rated] /\ \A f \in Rating \ {e} : rated'[f] = rated[f]
  BY <1>1, <1>2, <1>4
<1>6. CASE Accepts(m)
  <2> DEFINE x == LogOf(m.card, cards[m.card], m.by, m.grade)
  <2>1. /\ Reviews(m.card, cards[m.card], m.by, m.grade)
        /\ m.card \in CardId /\ m.by \in Event /\ m.grade \in Grade
        /\ cards[m.card].version = m.version
    BY <1>1, <1>2, <1>6, AcceptedReviews
  <2>2. CardsFit' /\ Onward
    BY <2>1, ReviewsKeep
  <2>3. log' = log \cup {x}
    BY <2>1 DEF Reviews
  <2>4. x.card = m.card /\ x.version = m.version /\ x.by = m.by /\ x.grade = m.grade
    BY <2>1 DEF LogOf
  <2>5. \A r \in log : r.by = m.by => r.card = m.card /\ m.version <= r.version
    BY <1>1, <1>3 DEF RatingsFit, OneMeaning, SentIsStale, Pursued
  <2>6. \A r \in log : r.by # m.by
    BY <1>2, <1>6, <2>5, FirstTime
  <2> HIDE DEF x
  <2>7. LogGrows(Rating)
    BY <1>3, <2>3, <2>4 DEF LogGrows
  <2>8. \A f \in Rating :
          /\ rated'[f].via = rated[f].via /\ rated'[f].dev = rated[f].dev
          /\ rated'[f].card = rated[f].card /\ rated'[f].grade = rated[f].grade
          /\ rated'[f].version = rated[f].version
          /\ \/ /\ rated'[f].pc = rated[f].pc /\ rated'[f].result = rated[f].result
             \/ /\ f = m.by /\ rated[f].pc = "sent" /\ rated'[f].pc = "answered"
                /\ rated[f].version = m.version /\ rated'[f].result = m.version + 1
    BY <1>1, <1>3, <1>4, <1>5, <1>6
  <2>9. rated[m.by].pc # "unused" /\ rated[m.by].card = m.card /\ rated[m.by].grade = m.grade
        /\ late' \subseteq late
    BY <1>1, <1>3
  <2> QED BY <1>1, <1>2, <1>5, <2>1, <2>2, <2>3, <2>4, <2>6, <2>7, <2>8, <2>9, RecordKeeps
<1>7. CASE ~Accepts(m)
  <2>1. UNCHANGED <<cards, log>>
    BY <1>1, <1>7 DEF ApplyCardReview
  <2>2. RatingsFit'
    <3>1. \A f \in Rating :
            \/ rated'[f] = rated[f]
            \/ /\ rated[f].pc = "sent" /\ rated'[f].pc = "answered" /\ rated'[f].result = 0
               /\ rated'[f].via = rated[f].via /\ rated'[f].dev = rated[f].dev
               /\ rated'[f].card = rated[f].card /\ rated'[f].grade = rated[f].grade
               /\ rated'[f].version = rated[f].version
      BY <1>1, <1>4, <1>5, <1>7
    <3> QED BY <1>1, <1>5, <2>1, <3>1, RefusedKeeps
  <2> QED BY <2>1, <2>2, SameKeeps DEF LogGrows
<1> QED BY <1>6, <1>7

LEMMA LateKeeps ==
  ASSUME CardsFit, RatingsFit, NEW m \in late, LateReview(m)
  PROVE  CardsFit' /\ Onward /\ LogGrows(Rating) /\ RatingsFit'
<1>1. /\ ApplyCardReview(m) /\ UNCHANGED <<held, rated>> /\ late' \subseteq late
  BY DEF LateReview
<1>2. /\ m \in Message /\ m.by \in Rating /\ rated \in [Rating -> Rated]
      /\ rated[m.by].pc # "unused" /\ rated[m.by].card = m.card /\ rated[m.by].grade = m.grade
  BY DEF RatingsFit, OneMeaning, Message
<1>3. CASE Accepts(m)
  <2> DEFINE x == LogOf(m.card, cards[m.card], m.by, m.grade)
  <2>1. /\ Reviews(m.card, cards[m.card], m.by, m.grade)
        /\ m.card \in CardId /\ m.by \in Event /\ m.grade \in Grade
        /\ cards[m.card].version = m.version
    BY <1>1, <1>2, <1>3, AcceptedReviews
  <2>2. CardsFit' /\ Onward
    BY <2>1, ReviewsKeep
  <2>3. log' = log \cup {x}
    BY <2>1 DEF Reviews
  <2>4. x.card = m.card /\ x.version = m.version /\ x.by = m.by /\ x.grade = m.grade
    BY <2>1 DEF LogOf
  <2>5. \A r \in log : r.by = m.by => r.card = m.card /\ m.version <= r.version
    BY <1>2 DEF RatingsFit, OneMeaning, LateIsStale
  <2>6. \A r \in log : r.by # m.by
    BY <1>2, <1>3, <2>5, FirstTime
  <2> HIDE DEF x
  <2>7. LogGrows(Rating)
    BY <1>2, <2>3, <2>4 DEF LogGrows
  <2>8. rated' \in [Rating -> Rated] /\ \A f \in Rating : rated'[f] = rated[f]
    BY <1>1, <1>2
  <2> QED BY <1>1, <1>2, <2>1, <2>2, <2>3, <2>4, <2>6, <2>7, <2>8, RecordKeeps
<1>4. CASE ~Accepts(m)
  <2>1. UNCHANGED <<cards, log>>
    BY <1>1, <1>4 DEF ApplyCardReview
  <2>2. rated' \in [Rating -> Rated] /\ \A f \in Rating : rated'[f] = rated[f]
    BY <1>1, <1>2
  <2>3. RatingsFit'
    BY <1>1, <2>1, <2>2, RefusedKeeps
  <2> QED BY <2>1, <2>3, SameKeeps DEF LogGrows
<1> QED BY <1>3, <1>4

---------------------------------------------------------------------------
(* Drills and the requests that add cards.                                 *)
DrillHasPattern == \A a \in Attempt : drills[a].status # "none" => drills[a].pattern \in Pattern
ScoredIsRecorded ==
  \A r \in log : r.by \in Attempt =>
    drills[r.by].status = "scored" /\ cards[r.card].target = drills[r.by].pattern
RecordedIsScored ==
  \A a \in Attempt : drills[a].status = "scored" => \E r \in log : r.by = a
AttemptIsOnce == \A r, s \in log : r.by \in Attempt /\ r.by = s.by => r = s

DrillsFit ==
  /\ drills \in [Attempt -> Drill]
  /\ adding \in [Request -> Adding]
  /\ scoring \in [Request -> Attempt \cup {NoAttempt}]
  /\ DrillHasPattern /\ ScoredIsRecorded /\ RecordedIsScored /\ AttemptIsOnce

LEMMA SameDrills ==
  ASSUME CardsFit, DrillsFit, Onward, LogGrows(Rating), UNCHANGED drills,
         adding' \in [Request -> Adding], scoring' \in [Request -> Attempt \cup {NoAttempt}]
  PROVE  DrillsFit'
<1>1. \A r \in log' : r.by \in Attempt => r \in log
  BY CardsAssumption DEF LogGrows
<1>2. ScoredIsRecorded'
  <2> SUFFICES ASSUME NEW r \in log, r.by \in Attempt
               PROVE  /\ drills[r.by].status = "scored"
                      /\ cards'[r.card].target = drills[r.by].pattern
    BY <1>1 DEF ScoredIsRecorded
  <2>1. r.card \in CardId /\ cards[r.card].status # "none"
    BY LogIsBehind
  <2>2. cards'[r.card].target = cards[r.card].target
    BY <2>1 DEF Onward
  <2> QED BY <2>2 DEF DrillsFit, ScoredIsRecorded
<1>3. DrillHasPattern' /\ AttemptIsOnce'
  BY <1>1 DEF DrillsFit, DrillHasPattern, AttemptIsOnce
<1>4. RecordedIsScored'
  BY DEF DrillsFit, RecordedIsScored, LogGrows
<1> QED BY <1>2, <1>3, <1>4 DEF DrillsFit

LEMMA GenerateKeeps ==
  ASSUME DrillsFit, NEW a \in Attempt, NEW p \in Pattern, Generate(a, p)
  PROVE  DrillsFit'
<1> DEFINE n == [status |-> "open", pattern |-> p]
<1>1. /\ UNCHANGED <<cards, log, adding, scoring>> /\ drills[a].status = "none"
      /\ drills' = [drills EXCEPT ![a] = n]
  BY DEF Generate
<1>2. n \in Drill /\ n.status = "open" /\ n.pattern = p
  BY DEF Drill
<1> HIDE DEF n
<1>3. /\ drills' \in [Attempt -> Drill] /\ drills'[a] = n
      /\ \A b \in Attempt \ {a} : drills'[b] = drills[b]
  BY <1>1, <1>2 DEF DrillsFit
<1>4. DrillHasPattern'
  BY <1>2, <1>3 DEF DrillsFit, DrillHasPattern
<1>5. ScoredIsRecorded'
  <2>1. \A r \in log : r.by # a
    BY <1>1 DEF DrillsFit, ScoredIsRecorded
  <2> QED BY <1>1, <1>3, <2>1 DEF DrillsFit, ScoredIsRecorded
<1>6. RecordedIsScored' /\ AttemptIsOnce'
  BY <1>1, <1>2, <1>3 DEF DrillsFit, RecordedIsScored, AttemptIsOnce
<1> QED BY <1>1, <1>3, <1>4, <1>5, <1>6 DEF DrillsFit

(* A drill that is scored rates the card of its pattern, for the first     *)
(* time.                                                                   *)
LEMMA ScoredKeeps ==
  ASSUME CardsFit, CardsFit', RatingsFit, DrillsFit, Onward, UNCHANGED <<held, rated, late>>,
         NEW a \in Attempt, drills[a].status = "open",
         drills' = [drills EXCEPT ![a].status = "scored"],
         NEW x, log' = log \cup {x}, x.by = a, cards'[x.card].target = drills[a].pattern,
         adding' \in [Request -> Adding], scoring' \in [Request -> Attempt \cup {NoAttempt}]
  PROVE  RatingsFit' /\ DrillsFit'
<1>1. RatingsFit'
  BY SameRatings
<1>2. drills[a] \in Drill
  BY DEF DrillsFit
<1>3. /\ drills'[a] \in Drill /\ drills'[a].status = "scored"
      /\ drills'[a].pattern = drills[a].pattern
      /\ \A b \in Attempt \ {a} : drills'[b] = drills[b]
  BY <1>2 DEF DrillsFit, Drill
<1>4. drills' \in [Attempt -> Drill]
  BY <1>3 DEF DrillsFit
<1>5. \A r \in log : r.by # a
  BY DEF DrillsFit, ScoredIsRecorded
<1>6. DrillHasPattern'
  BY <1>3 DEF DrillsFit, DrillHasPattern
<1>7. ScoredIsRecorded'
  <2> SUFFICES ASSUME NEW r \in log', r.by \in Attempt
               PROVE  /\ drills'[r.by].status = "scored"
                      /\ cards'[r.card].target = drills'[r.by].pattern
    BY DEF ScoredIsRecorded
  <2>1. CASE r \in log
    <3>1. r.by # a /\ drills'[r.by] = drills[r.by]
      BY <1>3, <1>5, <2>1
    <3>2. r.card \in CardId /\ cards[r.card].status # "none"
      BY <2>1, LogIsBehind
    <3>3. cards'[r.card].target = cards[r.card].target
      BY <3>2 DEF Onward
    <3> QED BY <2>1, <3>1, <3>3 DEF DrillsFit, ScoredIsRecorded
  <2>2. CASE r = x
    BY <1>3, <2>2
  <2> QED BY <2>1, <2>2
<1>8. RecordedIsScored'
  BY <1>3 DEF DrillsFit, RecordedIsScored
<1>9. AttemptIsOnce'
  BY <1>5 DEF DrillsFit, AttemptIsOnce
<1> QED BY <1>1, <1>4, <1>6, <1>7, <1>8, <1>9 DEF DrillsFit

LEMMA ScoreKeeps ==
  ASSUME CardsFit, RatingsFit, DrillsFit, NEW q \in Request, NEW g \in Grades, Score(q, g)
  PROVE  CardsFit' /\ Onward /\ RatingsFit' /\ DrillsFit'
<1> DEFINE a == scoring[q]
<1> DEFINE p == drills[a].pattern
<1>1. /\ a \in Attempt /\ a \in Event /\ g \in Grade
      /\ UNCHANGED <<held, rated, late>>
      /\ adding' \in [Request -> Adding] /\ scoring' \in [Request -> Attempt \cup {NoAttempt}]
  BY CardsAssumption DEF Score, DrillsFit, Event, Grade
<1>2. CASE drills[a].status # "open"
  <2>1. UNCHANGED <<cards, log, drills>>
    BY <1>2 DEF Score
  <2>2. CardsFit' /\ Onward /\ LogGrows({})
    BY <2>1, SameKeeps
  <2>3. LogGrows(Rating)
    BY <2>2 DEF LogGrows
  <2>4. DrillsFit'
    BY <1>1, <2>1, <2>2, <2>3, SameDrills
  <2>5. RatingsFit'
    BY <1>1, <2>2, SameRatings DEF LogGrows
  <2> QED BY <2>2, <2>4, <2>5
<1>3. CASE drills[a].status = "open"
  <2>1. drills' = [drills EXCEPT ![a].status = "scored"]
    BY <1>3 DEF Score
  <2>2. p \in Target
    BY <1>1, <1>3 DEF DrillsFit, DrillHasPattern, Target
  <2>3. \E c \in CardId, row \in Row : Reviews(c, row, a, g) /\ row.target = p
    <3>1. CASE LiveCards(p) # {}
      <4>1. PICK c \in LiveCards(p) :
              /\ cards' = [cards EXCEPT ![c] = Reviewed(@, g)]
              /\ log' = log \cup {Logged(c, a, g)}
        BY <1>3, <3>1 DEF Score
      <4>2. c \in CardId /\ cards[c].status = "live" /\ cards[c].target = p /\ cards[c] \in Row
        BY DEF LiveCards, Live, CardsFit
      <4>3. cards' = [cards EXCEPT ![c] = Reviewed(cards[c], g)]
        BY <4>1, <4>2 DEF CardsFit
      <4>4. Logged(c, a, g) = LogOf(c, cards[c], a, g)
        BY DEF Logged, LogOf
      <4>5. Reviews(c, cards[c], a, g)
        BY <4>1, <4>2, <4>3, <4>4 DEF Reviews, Starts
      <4> QED BY <4>2, <4>5
    <3>2. CASE LiveCards(p) = {}
      <4> DEFINE row == NewRow("live", p, 1)
      <4>1. PICK c \in Free :
              /\ cards' = [cards EXCEPT ![c] = Reviewed(row, g)]
              /\ log' = log \cup {[card |-> c, version |-> 1, by |-> a, grade |-> g,
                   before |-> NewMemory, after |-> Schedule(NewMemory, 0, g),
                   days |-> ScheduledDays(NewMemory, 0, g)]}
        BY <1>3, <3>2 DEF Score
      <4>2. c \in CardId /\ cards[c].status = "none"
        BY DEF Free
      <4>3. row.version = 1 /\ row.memory = NewMemory /\ row.reps = 0 /\ row.target = p
        BY DEF NewRow
      <4>4. row \in Row
        BY <2>2, NewFits
      <4>5. LogOf(c, row, a, g) = [card |-> c, version |-> 1, by |-> a, grade |-> g,
                   before |-> NewMemory, after |-> Schedule(NewMemory, 0, g),
                   days |-> ScheduledDays(NewMemory, 0, g)]
        BY <4>3 DEF LogOf
      <4>6. Starts(c, row)
        BY <2>2, <3>2, <4>2 DEF Starts
      <4> HIDE DEF row
      <4>7. Reviews(c, row, a, g)
        BY <4>1, <4>5, <4>6 DEF Reviews
      <4> QED BY <4>2, <4>3, <4>4, <4>7
    <3> QED BY <3>1, <3>2
  <2>4. PICK c \in CardId, row \in Row : Reviews(c, row, a, g) /\ row.target = p
    BY <2>3
  <2> DEFINE x == LogOf(c, row, a, g)
  <2> HIDE DEF a, p
  <2>5. CardsFit' /\ Onward /\ cards'[c].target = row.target
    BY <1>1, <2>4, ReviewsKeep
  <2>6. log' = log \cup {x} /\ x.by = a /\ x.card = c
    BY <2>4 DEF Reviews, LogOf
  <2>7. cards'[x.card].target = drills[a].pattern
    BY <2>4, <2>5, <2>6 DEF p
  <2> HIDE DEF x
  <2>8. RatingsFit' /\ DrillsFit'
    BY <1>1, <1>3, <2>1, <2>5, <2>6, <2>7, ScoredKeeps
  <2> QED BY <2>5, <2>8
<1> QED BY <1>2, <1>3

---------------------------------------------------------------------------
(* The inductive invariant, and that it is one.                            *)
IInv == CardsFit /\ RatingsFit /\ DrillsFit

LEMMA InitHolds == Init => IInv
<1> SUFFICES ASSUME Init
             PROVE  IInv
  OBVIOUS
<1>1. CardsFit
  <2>1. \A c \in CardId : cards[c] = NoRow /\ History(c) = {}
    BY DEF Init, History
  <2>2. NoRow \in Row /\ NoRow.status = "none"
    BY NoneFits DEF CardFits, NoRow, NewRow
  <2>3. HistoryIsNotSplit
    BY <2>1, <2>2 DEF HistoryIsNotSplit, LiveCards, Live
  <2> QED BY <2>1, <2>2, <2>3, NoneFits DEF CardsFit, Init
<1>2. RatingsFit
  <2>1. Unused \in Rated /\ Unused.pc = "unused" /\ Unused.dev = NoDevice
    BY DEF Unused, Rated, RatingState, Grade
  <2>2. \A e \in Rating : rated[e] = Unused /\ ~Pursued(e)
    BY <2>1 DEF Init, Pursued
  <2>3. NothingAhead
    <3>1. \A c \in CardId : cards[c].version = 0
      BY DEF Init, NoRow, NewRow
    <3>2. \A d \in Device, c \in CardId : held[d][c] <= cards[c].version
      BY <3>1 DEF Init
    <3> QED BY <2>1, <2>2, <3>2 DEF NothingAhead, Init
  <2>4. UnusedIsNobodys /\ OneMeaning /\ PursuedIsHeld /\ HanjaWaitsAlone
    BY <2>1, <2>2 DEF UnusedIsNobodys, OneMeaning, PursuedIsHeld, HanjaWaitsAlone, Init
  <2>5. LateIsStale /\ HeldIsStale /\ SentIsStale /\ RatingIsOnce
    BY DEF LateIsStale, HeldIsStale, SentIsStale, RatingIsOnce, Init
  <2>6. AnsweredIsRecorded /\ SavedRating
    BY <2>1, <2>2 DEF AnsweredIsRecorded, SavedRating
  <2>7. rated \in [Rating -> Rated] /\ held \in [Device -> [CardId -> Nat]] /\ late = {}
    BY <2>1 DEF Init
  <2> QED BY <2>3, <2>4, <2>5, <2>6, <2>7 DEF RatingsFit
<1>3. DrillsFit
  <2>1. NoDrill \in Drill /\ NoDrill.status = "none" /\ NotAdding \in Adding
    BY DEF NoDrill, Drill, NotAdding, Adding
  <2> QED BY <2>1 DEF DrillsFit, DrillHasPattern, ScoredIsRecorded, RecordedIsScored,
                      AttemptIsOnce, Init
<1> QED BY <1>1, <1>2, <1>3 DEF IInv

(* Cards that come and go, and an insert that is begun or given up.        *)
LEMMA CardMovesKeep ==
  ASSUME IInv, Moves, UNCHANGED <<drills, held, rated, late>>,
         adding' \in [Request -> Adding], scoring' \in [Request -> Attempt \cup {NoAttempt}]
  PROVE  IInv' /\ Onward
<1>1. CardsFit' /\ Onward
  BY MovesKeep DEF IInv
<1>2. LogGrows(Rating) /\ log' = log
  BY DEF LogGrows, Moves
<1>3. RatingsFit'
  BY <1>1, <1>2, SameRatings DEF IInv
<1>4. DrillsFit'
  BY <1>1, <1>2, SameDrills DEF IInv
<1> QED BY <1>1, <1>3, <1>4 DEF IInv

(* A step of the screen leaves cards, drills and requests alone.           *)
LEMMA ScreenKeeps ==
  ASSUME IInv, UNCHANGED <<cards, log, drills, adding, scoring>>, RatingsFit'
  PROVE  IInv' /\ Onward
<1>1. CardsFit' /\ Onward /\ LogGrows(Rating)
  BY SameKeeps DEF IInv, LogGrows
<1>2. DrillsFit'
  BY <1>1, SameDrills DEF IInv, DrillsFit
<1> QED BY <1>1, <1>2 DEF IInv

LEMMA AddsKeep == IInv /\ Adds => IInv' /\ Onward
<1> SUFFICES ASSUME IInv, Adds
             PROVE  IInv' /\ Onward
  OBVIOUS
<1>1. /\ CardsFit /\ DrillsFit /\ adding \in [Request -> Adding]
      /\ scoring \in [Request -> Attempt \cup {NoAttempt}]
  BY DEF IInv, DrillsFit
<1>2. NotAdding \in Adding
  BY DEF NotAdding, Adding
<1>3. ASSUME NEW q \in Request, NEW mining \in BOOLEAN, NEW ws \in SUBSET Word,
             Lookup(q, mining, ws)
      PROVE  IInv' /\ Onward
  <2>1. [pc |-> "insert", mining |-> mining, words |-> ws] \in Adding
    BY DEF Adding
  <2>2. adding' \in [Request -> Adding]
    BY <1>1, <1>3, <2>1 DEF Lookup
  <2>3. Moves
    BY <1>1, <1>3, SameMoves DEF Lookup
  <2> QED BY <1>1, <1>3, <2>2, <2>3, CardMovesKeep DEF Lookup
<1>4. ASSUME NEW q \in Request, Insert(q)
      PROVE  IInv' /\ Onward
  <2>1. adding' \in [Request -> Adding]
    BY <1>1, <1>2, <1>4 DEF Insert
  <2>2. adding[q].words \in SUBSET Target
    BY <1>1 DEF Adding, Target
  <2>3. Moves
    <3>1. CASE \A w \in adding[q].words : LiveCards(w) = {}
      BY <1>1, <1>4, <2>2, <3>1, CreateMoves DEF Insert
    <3>2. CASE ~(\A w \in adding[q].words : LiveCards(w) = {})
      BY <1>1, <1>4, <3>2, SameMoves DEF Insert
    <3> QED BY <3>1, <3>2
  <2> QED BY <1>1, <1>4, <2>1, <2>3, CardMovesKeep DEF Insert
<1> QED BY <1>3, <1>4 DEF Adds

LEMMA SeedsKeep == IInv /\ Seeds => IInv' /\ Onward
<1> SUFFICES ASSUME IInv, Seeds
             PROVE  IInv' /\ Onward
  OBVIOUS
<1>1. CardsFit /\ DrillsFit
  BY DEF IInv
<1>2. PICK T \in SUBSET Target : /\ Create(T) /\ \A t \in T : LiveCards(t) = {}
                                /\ UNCHANGED <<log, drills, held, rated, late, adding, scoring>>
  <2>1. ASSUME NEW ws \in SUBSET Word, Seed(ws)
        PROVE  \E T \in SUBSET Target : /\ Create(T) /\ \A t \in T : LiveCards(t) = {}
                 /\ UNCHANGED <<log, drills, held, rated, late, adding, scoring>>
    <3> DEFINE T == {w \in ws : LiveCards(w) = {}}
    <3>1. T \in SUBSET Target
      BY DEF Target
    <3> QED BY <2>1, <3>1 DEF Seed
  <2>2. ASSUME NEW h \in Hanja, HanjaCard(h)
        PROVE  \E T \in SUBSET Target : /\ Create(T) /\ \A t \in T : LiveCards(t) = {}
                 /\ UNCHANGED <<log, drills, held, rated, late, adding, scoring>>
    <3>1. {h} \in SUBSET Target
      BY DEF Target
    <3> QED BY <2>2, <3>1 DEF HanjaCard
  <2> QED BY <2>1, <2>2 DEF Seeds
<1>3. Moves
  BY <1>1, <1>2, CreateMoves
<1> QED BY <1>1, <1>2, <1>3, CardMovesKeep DEF DrillsFit

LEMMA RemovesKeep == IInv /\ Removes => IInv' /\ Onward
<1> SUFFICES ASSUME IInv, Removes
             PROVE  IInv' /\ Onward
  OBVIOUS
<1>1. CardsFit /\ DrillsFit
  BY DEF IInv
<1>2. PICK C : /\ Delete(C) /\ \A c \in C : c \in CardId /\ cards[c].status # "none"
               /\ UNCHANGED <<log, drills, held, rated, late, adding, scoring>>
  <2>1. CASE Clear
    <3>1. \A c \in WordDeck : c \in CardId /\ cards[c].status # "none"
      BY DEF WordDeck, Live
    <3> QED BY <2>1, <3>1 DEF Clear
  <2>2. ASSUME NEW c \in CardId, Remove(c)
        PROVE  \E C : /\ Delete(C) /\ \A b \in C : b \in CardId /\ cards[b].status # "none"
                      /\ UNCHANGED <<log, drills, held, rated, late, adding, scoring>>
    <3>1. \A b \in {c} : b \in CardId /\ cards[b].status # "none"
      BY <2>2 DEF Remove
    <3> QED BY <2>2, <3>1 DEF Remove
  <2> QED BY <2>1, <2>2 DEF Removes
<1>3. Moves
  BY <1>1, <1>2, DeleteMoves
<1> QED BY <1>1, <1>2, <1>3, CardMovesKeep DEF DrillsFit

LEMMA StudiesKeep == IInv /\ Studies => IInv' /\ Onward
<1> SUFFICES ASSUME IInv, Studies
             PROVE  IInv' /\ Onward
  OBVIOUS
<1>1. CardsFit /\ RatingsFit /\ DrillsFit
  BY DEF IInv
<1>2. ASSUME NEW d \in Device, Open(d) \/ Leave(d) \/ Restart(d)
      PROVE  IInv' /\ Onward
  <2>1. UNCHANGED <<cards, log, drills, adding, scoring>>
    BY <1>2 DEF Open, Leave, Restart
  <2>2. RatingsFit'
    BY <1>1, <1>2, OpenKeeps, LeaveKeeps, RestartKeeps
  <2> QED BY <2>1, <2>2, ScreenKeeps
<1>3. ASSUME NEW d \in Device, NEW e \in Rating, NEW c \in CardId, NEW g \in Grades,
             NEW via \in {"flash", "cloze", "hanja"}, Rate(d, e, c, g, via)
      PROVE  IInv' /\ Onward
  <2>1. UNCHANGED <<cards, log, drills, adding, scoring>>
    BY <1>3 DEF Rate
  <2>2. RatingsFit'
    BY <1>1, <1>3, RateKeeps
  <2> QED BY <2>1, <2>2, ScreenKeeps
<1>4. ASSUME NEW e \in Rating, GiveUp(e) \/ Deliver(e) \/ Retry(e)
      PROVE  IInv' /\ Onward
  <2>1. UNCHANGED <<cards, log, drills, adding, scoring>>
    BY <1>4 DEF GiveUp, Deliver, Retry
  <2>2. RatingsFit'
    BY <1>1, <1>4, GiveUpKeeps, DeliverKeeps, RetryKeeps
  <2> QED BY <2>1, <2>2, ScreenKeeps
<1>5. ASSUME CardsFit', Onward, LogGrows(Rating), RatingsFit', UNCHANGED <<drills, adding, scoring>>
      PROVE  IInv' /\ Onward
  <2>1. DrillsFit'
    BY <1>1, <1>5, SameDrills DEF DrillsFit
  <2> QED BY <1>5, <2>1 DEF IInv
<1>6. ASSUME NEW e \in Rating, Answer(e)
      PROVE  IInv' /\ Onward
  BY <1>1, <1>5, <1>6, AnswerKeeps DEF Answer
<1>7. ASSUME NEW m \in late, LateReview(m)
      PROVE  IInv' /\ Onward
  BY <1>1, <1>5, <1>7, LateKeeps DEF LateReview
<1> QED BY <1>2, <1>3, <1>4, <1>6, <1>7 DEF Studies

LEMMA DrillsKeep == IInv /\ Drills => IInv' /\ Onward
<1> SUFFICES ASSUME IInv, Drills
             PROVE  IInv' /\ Onward
  OBVIOUS
<1>1. CardsFit /\ RatingsFit /\ DrillsFit
  BY DEF IInv
<1>2. ASSUME NEW a \in Attempt, NEW p \in Pattern, Generate(a, p)
      PROVE  IInv' /\ Onward
  <2>1. UNCHANGED <<cards, log, held, rated, late>>
    BY <1>2 DEF Generate
  <2>2. CardsFit' /\ Onward /\ LogGrows({})
    BY <1>1, <2>1, SameKeeps
  <2>3. RatingsFit'
    BY <1>1, <2>1, <2>2, SameRatings
  <2>4. DrillsFit'
    BY <1>1, <1>2, GenerateKeeps
  <2> QED BY <2>2, <2>3, <2>4 DEF IInv
<1>3. ASSUME NEW q \in Request, NEW a \in Attempt, BeginSubmit(q, a)
      PROVE  IInv' /\ Onward
  <2>1. scoring' \in [Request -> Attempt \cup {NoAttempt}] /\ adding' \in [Request -> Adding]
    BY <1>1, <1>3 DEF BeginSubmit, DrillsFit
  <2>2. Moves
    BY <1>1, <1>3, SameMoves DEF BeginSubmit
  <2> QED BY <1>3, <2>1, <2>2, CardMovesKeep DEF BeginSubmit
<1>4. ASSUME NEW q \in Request, NEW g \in Grades, Score(q, g)
      PROVE  IInv' /\ Onward
  BY <1>1, <1>4, ScoreKeeps DEF IInv
<1> QED BY <1>2, <1>3, <1>4 DEF Drills

LEMMA AbortsKeep == IInv /\ Aborts => IInv' /\ Onward
<1> SUFFICES ASSUME IInv, NEW q \in Request, Abort(q)
             PROVE  IInv' /\ Onward
  BY DEF Aborts
<1>1. NotAdding \in Adding
  BY DEF NotAdding, Adding
<1>2. scoring' \in [Request -> Attempt \cup {NoAttempt}] /\ adding' \in [Request -> Adding]
  BY <1>1 DEF Abort, IInv, DrillsFit
<1>3. Moves
  BY SameMoves DEF Abort, IInv
<1> QED BY <1>2, <1>3, CardMovesKeep DEF Abort

LEMMA StepHolds == IInv /\ [Next]_vars => IInv' /\ Onward
<1> SUFFICES ASSUME IInv, [Next]_vars
             PROVE  IInv' /\ Onward
  OBVIOUS
<1>1. CASE UNCHANGED vars
  <2>1. Moves
    BY <1>1, SameMoves DEF IInv, vars
  <2>2. scoring' \in [Request -> Attempt \cup {NoAttempt}] /\ adding' \in [Request -> Adding]
    BY <1>1 DEF IInv, DrillsFit, vars
  <2> QED BY <1>1, <2>1, <2>2, CardMovesKeep DEF vars
<1> QED BY <1>1, AddsKeep, SeedsKeep, RemovesKeep, StudiesKeep, DrillsKeep, AbortsKeep DEF Next

(* It is true of every behaviour, and each step goes on from it.           *)
THEOREM InvariantHolds == Spec => []IInv
<1>1. IInv /\ [Next]_vars => IInv'
  BY StepHolds
<1> QED BY InitHolds, <1>1, PTL DEF Spec

---------------------------------------------------------------------------
(* What follows.                                                           *)

(* The types of cards, log, sessions, ratings and requests.                *)
THEOREM TypeCorrect == Spec => []TypeOK
<1>1. IInv => TypeOK
  BY DEF IInv, CardsFit, RatingsFit, DrillsFit, TypeOK
<1> QED BY <1>1, InvariantHolds, PTL

(* What was learnt of a target is one unbroken chain of reviews on one     *)
(* card: no review is lost or applied to a stale state, however requests   *)
(* that add cards and requests that review them interleave.                *)
THEOREM HistoryIsOne == Spec => []OneHistory
<1>1. ASSUME IInv
      PROVE  OneHistory
  <2>1. HistoryIsNotSplit /\ \A c \in CardId : CardFits(cards[c], History(c))
    BY <1>1 DEF IInv, CardsFit
  <2>2. \A c \in CardId : cards[c].status # "none" => LinksFit(cards[c], History(c))
    BY <2>1 DEF CardFits
  <2>3. HistoryChains
    BY <2>2 DEF LinksFit, HistoryChains
  <2> QED BY <2>1, <2>3 DEF OneHistory
<1> QED BY <1>1, InvariantHolds, PTL

(* The counters of a card are those of its log and its state tells how far *)
(* it is.                                                                  *)
THEOREM ScheduleIsOfHistory == Spec => []ScheduleMatchesHistory
<1>1. ASSUME IInv
      PROVE  ScheduleMatchesHistory
  <2>1. \A c \in CardId : CardFits(cards[c], History(c))
    BY <1>1 DEF IInv, CardsFit
  <2>2. \A c \in CardId : cards[c].status # "none" =>
          StateFits(cards[c]) /\ CountsFit(cards[c], History(c))
    BY <2>1 DEF CardFits
  <2> QED BY <2>2 DEF StateFits, CountsFit, ScheduleMatchesHistory
<1> QED BY <1>1, InvariantHolds, PTL

(* A rating is recorded at most once, whatever is sent again or late, and  *)
(* what a session shows as saved is recorded; a drill is scored exactly    *)
(* when it has rated the card of its pattern.                              *)
THEOREM RatingsCount == Spec => []RatingsCountOnce
<1>1. ASSUME IInv
      PROVE  RatingsCountOnce
  <2>1. CardsFit /\ RatingsFit /\ DrillsFit
    BY <1>1 DEF IInv
  <2>2. RecordedOnce
    <3>1. \A r \in log : r.by \in Rating \/ r.by \in Attempt
      BY <2>1, LogIsBehind DEF Event
    <3> QED BY <2>1, <3>1 DEF RatingsFit, RatingIsOnce, DrillsFit, AttemptIsOnce, RecordedOnce
  <2>3. SavedIsRecorded
    <3>1. \A a \in Attempt : drills[a].status = "scored" =>
            \E r \in log : r.by = a /\ cards[r.card].target = drills[a].pattern
      BY <2>1 DEF DrillsFit, RecordedIsScored, ScoredIsRecorded
    <3>2. \A a \in Attempt : (\E r \in log : r.by = a) => drills[a].status = "scored"
      BY <2>1 DEF DrillsFit, ScoredIsRecorded
    <3>3. \A e \in Rating : rated[e].pc = "saved" =>
            \E r \in log : r.by = e /\ r.card = rated[e].card /\ r.grade = rated[e].grade
                           /\ r.version + 1 = rated[e].result
      BY <2>1 DEF RatingsFit, SavedRating
    <3> QED BY <3>1, <3>2, <3>3 DEF SavedIsRecorded
  <2> QED BY <2>2, <2>3 DEF RatingsCountOnce
<1> QED BY <1>1, InvariantHolds, PTL

(* A removed card is done with: nothing reviews it or brings it back.      *)
THEOREM RemovedStaysFrozen == Spec => RemovedIsFrozen
<1>1. IInv /\ [Next]_vars =>
        [\A c \in CardId : cards[c].status = "deleted" =>
           cards'[c] = cards[c] /\ {r \in log' : r.card = c} = History(c)]_vars
  BY StepHolds DEF Onward, History
<1> QED BY <1>1, InvariantHolds, PTL DEF Spec, RemovedIsFrozen

(* A success never brings the next review of a card forward.               *)
THEOREM IntervalGrows == Spec => IntervalNeverShrinks
<1>1. IInv /\ [Next]_vars =>
        [\A r \in log' \ log : r.grade # "again" => cards[r.card].days <= r.days]_vars
  BY StepHolds DEF Onward
<1> QED BY <1>1, InvariantHolds, PTL DEF Spec, IntervalNeverShrinks

=============================================================================
