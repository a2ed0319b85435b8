-------------------------- MODULE ModelCalls_proofs --------------------------
(***************************************************************************)
(* Proofs about ModelCalls, for every number of processes, calls and keys, *)
(* every ceiling, rate limit and number of retries.                        *)
(***************************************************************************)
EXTENDS ModelCalls, TLAPS

(* What a number of attempts may be billed.                                *)
Bill(attempts) == attempts * SdkTries

LEMMA Bills ==
  /\ Bill(0) = 0 /\ Bill(1) = SdkTries
  /\ \A n \in Nat : Bill(n) \in Nat /\ Bill(n + 1) = Bill(n) + SdkTries
  /\ \A m, n \in Nat : m <= n => Bill(m) <= Bill(n)
<1>1. SdkTries \in Nat
  BY ModelCallsAssumption
<1>2. ASSUME NEW m \in Nat, NEW n \in Nat, m <= n
      PROVE  m * SdkTries <= n * SdkTries
  <2>1. PICK d \in Nat : n = m + d
    <3>1. n - m \in Nat /\ n = m + (n - m)
      BY <1>2
    <3> QED BY <3>1
  <2>2. n * SdkTries = m * SdkTries + d * SdkTries
    BY <1>1, <2>1
  <2>3. d * SdkTries \in Nat /\ m * SdkTries \in Nat
    BY <1>1
  <2> QED BY <2>2, <2>3
<1> QED BY <1>1, <1>2 DEF Bill

(* What the invariant says of a row.                                       *)
Settled(row) ==
  /\ row.given # "misfit"
  /\ row.given = "draft" => row.kind = "stream" /\ row.pc \in {"send", "parse"}
  /\ row.given = "error" => row.pc = "over"
  /\ row.pc = "over" => row.given \in {"fits", "error"}

Billed(row) ==
  /\ row.answers <= 1
  /\ row.billed <= Bill(IF row.kind = "stream" THEN 1 ELSE MaxAttempts + 1)
  /\ row.pc \notin {"parse", "put", "record", "over"} =>
       row.answers = 0 /\ row.billed <= Bill(row.attempt)
  /\ row.pc \in {"parse", "put", "record"} => row.billed <= Bill(row.attempt + 1)
  /\ row.kind = "stream" => row.attempt = 0

RowFits(row) ==
  /\ row \in CallRow
  /\ row.pc \notin {"none", "over"} => row.by \in Process /\ row.key \in Key
  /\ row.pc = "parse" => row.raw # "none"
  /\ row.pc \in {"put", "record"} => row.raw = "fits"
  /\ Settled(row)
  /\ Billed(row)

Shared ==
  /\ cache \in [Key -> {"none", "fits", "misfit", "expired"}]
  /\ spent \in 0..MaxSpent
  /\ day \in 0..MaxDays
  /\ memo \in [Process -> Memo]
  /\ tokens \in [Process -> 0..Capacity]

RowsFit == calls \in [Call -> CallRow] /\ \A c \in Call : RowFits(calls[c])

LEMMA IInvIsRows == IInv <=> Shared /\ RowsFit
<1> DEFINE Right == \A c \in Call : Settled(calls[c]) /\ Billed(calls[c])
<1>1. OneFittingAnswer /\ BilledSoFar <=> Right
  BY DEF OneFittingAnswer, GivenFits, AnsweredOnce, BillsAreBounded, BilledSoFar, MostAttempts,
         Settled, Billed, Bill
<1> HIDE DEF Right
<1>2. IInv <=> Shared /\ calls \in [Call -> CallRow] /\ CallsBelong /\ ParsedFits /\ Right
  BY <1>1 DEF IInv, TypeOK, Shared
<1> QED BY <1>2 DEF Right, RowsFit, RowFits, CallsBelong, ParsedFits

(* A step that writes one row.                                             *)
LEMMA OneRow ==
  ASSUME RowsFit, NEW c \in Call, NEW row, RowFits(row), calls' = [calls EXCEPT ![c] = row]
  PROVE  RowsFit'
BY DEF RowsFit, RowFits

LEMMA EmptyRow == RowFits(NoCallRow)
BY Bills, ModelCallsAssumption DEF RowFits, Settled, Billed, NoCallRow, CallRow

(* A call that is over.                                                    *)
LEMMA Ended ==
  ASSUME RowsFit, NEW c \in Call, NEW given \in {"fits", "error"}, NEW recorded \in BOOLEAN,
         NEW billed \in Nat,
         billed <= Bill(IF calls[c].kind = "stream" THEN 1 ELSE MaxAttempts + 1),
         Ends(c, billed, given, recorded)
  PROVE  RowsFit'
<1> DEFINE row == [NoCallRow EXCEPT !.pc = "over", !.kind = calls[c].kind,
                                     !.billed = billed, !.given = given, !.recorded = recorded]
<1>1. NoCallRow \in CallRow /\ calls[c] \in CallRow /\ NoCallRow.attempt = 0 /\ NoCallRow.answers = 0
  BY EmptyRow DEF RowsFit, RowFits, NoCallRow
<1>2. RowFits(row)
  <2>1. row \in CallRow
    BY <1>1 DEF CallRow
  <2>2. /\ row.pc = "over" /\ row.given = given /\ row.billed = billed /\ row.kind = calls[c].kind
        /\ row.attempt = 0 /\ row.answers = 0
    BY <1>1 DEF CallRow
  <2> QED BY <2>1, <2>2 DEF RowFits, Settled, Billed
<1>3. calls' = [calls EXCEPT ![c] = row]
  BY DEF Ends
<1> HIDE DEF row
<1> QED BY <1>2, <1>3, OneRow

LEMMA Failed ==
  ASSUME RowsFit, NEW c \in Call, Fail(c)
  PROVE  RowsFit'
BY Ended DEF Fail, RowsFit, RowFits, Billed, CallRow

LEMMA Begun ==
  ASSUME Shared, RowsFit, NEW c \in Call, NEW kind \in {"json", "stream"},
         NEW p \in Process, NEW k \in Key, NEW pc \in {"summed", "lookup"},
         NEW total \in 0..MaxSpent, Begin(c, kind, p, k, pc, total)
  PROVE  Shared' /\ RowsFit'
<1> DEFINE row == [NoCallRow EXCEPT !.pc = pc, !.kind = kind, !.by = p, !.key = k, !.seen = total]
<1>1. /\ NoCallRow \in CallRow /\ NoCallRow.billed = 0 /\ NoCallRow.given = "none"
      /\ NoCallRow.answers = 0 /\ NoCallRow.attempt = 0
  BY EmptyRow DEF RowFits, NoCallRow
<1>2. RowFits(row)
  <2>1. row \in CallRow
    BY <1>1 DEF CallRow
  <2>2. /\ row.pc = pc /\ row.by = p /\ row.key = k /\ row.given = "none"
        /\ row.billed = 0 /\ row.answers = 0 /\ row.attempt = 0
    BY <1>1 DEF CallRow
  <2> QED BY <2>1, <2>2, Bills, ModelCallsAssumption DEF RowFits, Settled, Billed
<1>3. calls' = [calls EXCEPT ![c] = row]
  BY DEF Begin
<1> HIDE DEF row
<1>4. RowsFit'
  BY <1>2, <1>3, OneRow
<1>5. Shared'
  BY DEF Shared, Begin
<1> QED BY <1>4, <1>5

LEMMA SumKept ==
  ASSUME Shared, RowsFit, NEW c \in Call, KeepSum(c), Under(calls[c].seen)
  PROVE  Shared' /\ RowsFit'
<1> DEFINE row == [calls[c] EXCEPT !.pc = "lookup", !.seen = 0]
<1>1. RowFits(calls[c])
  BY DEF RowsFit
<1>2. RowFits(row)
  <2>1. row \in CallRow
    <3>1. 0 \in 0..MaxSpent
      BY ModelCallsAssumption
    <3> QED BY <1>1, <3>1 DEF RowFits, CallRow
  <2>2. row.pc = "lookup" /\ row.given = calls[c].given
        /\ row.by = calls[c].by /\ row.key = calls[c].key /\ row.kind = calls[c].kind /\ row.billed = calls[c].billed
        /\ row.answers = calls[c].answers /\ row.attempt = calls[c].attempt
    BY <1>1 DEF RowFits, CallRow
  <2> QED BY <1>1, <2>1, <2>2, Bills DEF RowFits, Settled, Billed, CallRow, KeepSum
<1>3. calls' = [calls EXCEPT ![c] = row]
  BY DEF RowsFit, KeepSum
<1> HIDE DEF row
<1>4. RowsFit'
  BY <1>2, <1>3, OneRow
<1>5. Shared'
  BY <1>1, ModelCallsAssumption DEF Shared, RowFits, CallRow, Memo, KeepSum
<1> QED BY <1>4, <1>5

LEMMA FoundInCache ==
  ASSUME Shared, RowsFit, NEW c \in Call, LookUp(c), cache[calls[c].key] \in Usable,
         calls' = [calls EXCEPT ![c].pc = "record", ![c].raw = cache[calls[c].key],
           ![c].given = IF calls[c].kind = "stream" THEN cache[calls[c].key] ELSE "none"]
  PROVE  Shared' /\ RowsFit'
<1> DEFINE row == [calls[c] EXCEPT !.pc = "record", !.raw = cache[calls[c].key],
                !.given = IF calls[c].kind = "stream" THEN cache[calls[c].key] ELSE "none"]
<1>1. RowFits(calls[c])
  BY DEF RowsFit
<1>2. RowFits(row)
  <2>1. cache[calls[c].key] = "fits"
    BY DEF Usable
  <2>2. row \in CallRow
    BY <1>1, <2>1, ModelCallsAssumption DEF RowFits, CallRow
  <2>3. row.pc = "record" /\ row.raw = "fits" /\ row.given \in {"none", "fits"}
        /\ row.by = calls[c].by /\ row.key = calls[c].key /\ row.kind = calls[c].kind /\ row.billed = calls[c].billed
        /\ row.answers = calls[c].answers /\ row.attempt = calls[c].attempt
    BY <1>1, <2>1 DEF RowFits, CallRow
  <2> QED BY <1>1, <2>1, <2>2, <2>3, Bills DEF RowFits, Settled, Billed, CallRow, LookUp, Usable
<1>3. calls' = [calls EXCEPT ![c] = row]
  BY DEF RowsFit, LookUp, Usable
<1> HIDE DEF row
<1>4. RowsFit'
  BY <1>2, <1>3, OneRow
<1>5. Shared'
  BY <1>1, ModelCallsAssumption DEF Shared, RowFits, CallRow, Memo, LookUp, Usable
<1> QED BY <1>4, <1>5

LEMMA NotFound ==
  ASSUME Shared, RowsFit, NEW c \in Call, LookUp(c), Goto(c, "limit")
  PROVE  Shared' /\ RowsFit'
<1> DEFINE row == [calls[c] EXCEPT !.pc = "limit"]
<1>1. RowFits(calls[c])
  BY DEF RowsFit
<1>2. RowFits(row)
  BY <1>1, ModelCallsAssumption DEF RowFits, Settled, Billed, CallRow, LookUp, Goto
<1>3. calls' = [calls EXCEPT ![c] = row]
  BY DEF RowsFit, LookUp, Goto
<1> HIDE DEF row
<1>4. RowsFit'
  BY <1>2, <1>3, OneRow
<1>5. Shared'
  BY <1>1, ModelCallsAssumption DEF Shared, RowFits, CallRow, Memo, LookUp, Goto
<1> QED BY <1>4, <1>5

LEMMA LimitPassed ==
  ASSUME Shared, RowsFit, NEW c \in Call, Limit(c), tokens[calls[c].by] > 0
  PROVE  Shared' /\ RowsFit'
<1> DEFINE row == [calls[c] EXCEPT !.pc = "send"]
<1>1. RowFits(calls[c])
  BY DEF RowsFit
<1>2. RowFits(row)
  BY <1>1, ModelCallsAssumption DEF RowFits, Settled, Billed, CallRow, Limit, Goto
<1>3. calls' = [calls EXCEPT ![c] = row]
  BY DEF RowsFit, Limit, Goto
<1> HIDE DEF row
<1>4. RowsFit'
  BY <1>2, <1>3, OneRow
<1>5. Shared'
  BY <1>1, ModelCallsAssumption DEF Shared, RowFits, CallRow, Memo, Limit, Goto
<1> QED BY <1>4, <1>5

(* An attempt that failed, and may have been billed.                       *)
LEMMA Retried ==
  ASSUME Shared, RowsFit, NEW c \in Call, Erred(c), calls[c].attempt < MaxAttempts,
         calls[c].kind = "json", NEW n \in 0..SdkTries,
         calls' = [calls EXCEPT ![c].pc = "sleep", ![c].attempt = NextAttempt(@), ![c].billed = @ + n]
  PROVE  Shared' /\ RowsFit'
<1> DEFINE row == [calls[c] EXCEPT !.pc = "sleep", !.attempt = NextAttempt(@), !.billed = @ + n]
<1>1. RowFits(calls[c])
  BY DEF RowsFit
<1>2. RowFits(row)
  <2>1. NextAttempt(calls[c].attempt) \in 0..MaxAttempts
    BY <1>1, ModelCallsAssumption DEF RowFits, CallRow, NextAttempt
  <2>2. row \in CallRow
    <3>1. calls[c] \in CallRow /\ calls[c].billed \in Nat /\ n \in Nat
      BY <1>1, ModelCallsAssumption DEF RowFits, CallRow
    <3>2. calls[c].billed + n \in Nat
      BY <3>1
    <3> QED BY <2>1, <3>1, <3>2 DEF CallRow
  <2>3. /\ row.pc = "sleep" /\ row.given = calls[c].given /\ row.by = calls[c].by
        /\ row.key = calls[c].key /\ row.kind = "json" /\ row.answers = calls[c].answers
        /\ row.attempt = calls[c].attempt + 1 /\ row.billed = calls[c].billed + n
    BY <1>1, <2>1 DEF RowFits, CallRow, NextAttempt
  <2>4. /\ calls[c].attempt \in Nat /\ calls[c].billed \in Nat /\ calls[c].pc = "send"
        /\ row.attempt <= MaxAttempts + 1 /\ MaxAttempts \in Nat /\ SdkTries \in Nat
    BY <1>1, <2>3, ModelCallsAssumption DEF RowFits, CallRow, Erred
  <2>5. calls[c].billed <= Bill(calls[c].attempt) /\ calls[c].answers = 0
    BY <1>1, <2>4 DEF RowFits, Billed
  <2>6. Bill(row.attempt) = Bill(calls[c].attempt) + SdkTries /\ Bill(calls[c].attempt) \in Nat
    BY <2>3, <2>4, Bills
  <2>7. row.billed <= Bill(row.attempt)
    BY <2>3, <2>4, <2>5, <2>6
  <2>8. Bill(row.attempt) <= Bill(MaxAttempts + 1) /\ Bill(MaxAttempts + 1) \in Nat /\ Bill(row.attempt) \in Nat
    <3>1. row.attempt \in Nat /\ MaxAttempts + 1 \in Nat /\ row.attempt <= MaxAttempts + 1
      BY <2>3, <2>4
    <3> HIDE DEF row
    <3> QED BY <3>1, Bills
  <2>9. Billed(row)
    BY <2>3, <2>4, <2>5, <2>7, <2>8 DEF Billed
  <2>10. Settled(row)
    BY <1>1, <2>3, <2>4 DEF RowFits, Settled
  <2> QED BY <1>1, <2>2, <2>3, <2>4, <2>9, <2>10 DEF RowFits
<1>3. calls' = [calls EXCEPT ![c] = row]
  BY DEF RowsFit, Erred, NextAttempt
<1> HIDE DEF row
<1>4. RowsFit'
  BY <1>2, <1>3, OneRow
<1>5. Shared'
  BY <1>1, ModelCallsAssumption DEF Shared, RowFits, CallRow, Memo, Erred, NextAttempt
<1> QED BY <1>4, <1>5

LEMMA Woken ==
  ASSUME Shared, RowsFit, NEW c \in Call, Wakes(c)
  PROVE  Shared' /\ RowsFit'
<1> DEFINE row == [calls[c] EXCEPT !.pc = "send"]
<1>1. RowFits(calls[c])
  BY DEF RowsFit
<1>2. RowFits(row)
  BY <1>1, ModelCallsAssumption DEF RowFits, Settled, Billed, CallRow, Wakes, Goto
<1>3. calls' = [calls EXCEPT ![c] = row]
  BY DEF RowsFit, Wakes, Goto
<1> HIDE DEF row
<1>4. RowsFit'
  BY <1>2, <1>3, OneRow
<1>5. Shared'
  BY <1>1, ModelCallsAssumption DEF Shared, RowFits, CallRow, Memo, Wakes, Goto
<1> QED BY <1>4, <1>5

LEMMA Parsed ==
  ASSUME Shared, RowsFit, NEW c \in Call, Parse(c), calls[c].raw # "misfit"
  PROVE  Shared' /\ RowsFit'
<1> DEFINE row == [calls[c] EXCEPT !.pc = "put",
                !.given = IF calls[c].kind = "stream" THEN calls[c].raw ELSE "none"]
<1>1. RowFits(calls[c])
  BY DEF RowsFit
<1>2. RowFits(row)
  <2>1. calls[c].raw = "fits"
    BY <1>1 DEF RowFits, CallRow, Parse
  <2>2. row \in CallRow
    BY <1>1, <2>1, ModelCallsAssumption DEF RowFits, CallRow
  <2>3. row.pc = "put" /\ row.raw = "fits" /\ row.given \in {"none", "fits"}
        /\ row.by = calls[c].by /\ row.key = calls[c].key /\ row.kind = calls[c].kind /\ row.billed = calls[c].billed
        /\ row.answers = calls[c].answers /\ row.attempt = calls[c].attempt
    BY <1>1, <2>1 DEF RowFits, CallRow
  <2> QED BY <1>1, <2>1, <2>2, <2>3, Bills DEF RowFits, Settled, Billed, CallRow, Parse
<1>3. calls' = [calls EXCEPT ![c] = row]
  BY DEF RowsFit, Parse
<1> HIDE DEF row
<1>4. RowsFit'
  BY <1>2, <1>3, OneRow
<1>5. Shared'
  BY <1>1, ModelCallsAssumption DEF Shared, RowFits, CallRow, Memo, Parse
<1> QED BY <1>4, <1>5

LEMMA PutDone ==
  ASSUME Shared, RowsFit, NEW c \in Call, Put(c)
  PROVE  Shared' /\ RowsFit'
<1> DEFINE row == [calls[c] EXCEPT !.pc = "record"]
<1>1. RowFits(calls[c])
  BY DEF RowsFit
<1>2. RowFits(row)
  BY <1>1, ModelCallsAssumption DEF RowFits, Settled, Billed, CallRow, Put, Goto
<1>3. calls' = [calls EXCEPT ![c] = row]
  BY DEF RowsFit, Put, Goto
<1> HIDE DEF row
<1>4. RowsFit'
  BY <1>2, <1>3, OneRow
<1>5. Shared'
  BY <1>1, ModelCallsAssumption DEF Shared, RowFits, CallRow, Memo, Put, Goto
<1> QED BY <1>4, <1>5

LEMMA Drafted ==
  ASSUME Shared, RowsFit, NEW c \in Call, Drafts(c)
  PROVE  Shared' /\ RowsFit'
<1> DEFINE row == [calls[c] EXCEPT !.given = "draft"]
<1>1. RowFits(calls[c])
  BY DEF RowsFit
<1>2. RowFits(row)
  BY <1>1 DEF RowFits, Settled, Billed, CallRow, Drafts
<1>3. calls' = [calls EXCEPT ![c] = row]
  BY DEF RowsFit, Drafts
<1> HIDE DEF row
<1>4. RowsFit'
  BY <1>2, <1>3, OneRow
<1>5. Shared'
  BY DEF Shared, Drafts
<1> QED BY <1>4, <1>5

(* The model has answered, for the first time.                             *)
LEMMA AnswerComes ==
  ASSUME Shared, RowsFit, NEW c \in Call, Answered(c)
  PROVE  Shared' /\ RowsFit'
<1>1. PICK v \in {"fits", "misfit"}, n \in 1..SdkTries :
        calls' = [calls EXCEPT ![c].pc = "parse", ![c].raw = v,
                    ![c].billed = @ + n, ![c].answers = @ + 1]
  BY DEF Answered
<1> DEFINE row == [calls[c] EXCEPT !.pc = "parse", !.raw = v, !.billed = @ + n, !.answers = @ + 1]
<1>2. /\ RowFits(calls[c]) /\ calls[c].answers = 0 /\ calls[c].pc = "send"
      /\ calls[c].billed <= Bill(calls[c].attempt)
      /\ calls \in [Call -> CallRow]
  BY DEF RowsFit, RowFits, Billed, Answered
<1>3. RowFits(row)
  <2>1. /\ calls[c].billed \in Nat /\ n \in Nat /\ calls[c].attempt \in Nat
        /\ calls[c].attempt <= MaxAttempts /\ MaxAttempts \in Nat /\ SdkTries \in Nat /\ n <= SdkTries
    BY <1>2, ModelCallsAssumption DEF RowFits, CallRow
  <2>2. row \in CallRow
    <3>1. calls[c] \in CallRow /\ calls[c].billed + n \in Nat /\ calls[c].answers + 1 \in Nat
      BY <1>2, <2>1 DEF RowFits
    <3> QED BY <3>1 DEF CallRow
  <2>3. /\ row.pc = "parse" /\ row.raw = v /\ row.answers = 1
        /\ row.billed = calls[c].billed + n /\ row.attempt = calls[c].attempt
        /\ row.by = calls[c].by /\ row.key = calls[c].key /\ row.given = calls[c].given
        /\ row.kind = calls[c].kind
    BY <1>2 DEF RowFits, CallRow
  <2>4. Bill(row.attempt + 1) = Bill(row.attempt) + SdkTries /\ Bill(row.attempt) \in Nat
    BY <2>1, <2>3, Bills
  <2>5. row.billed <= Bill(row.attempt + 1) /\ row.billed \in Nat /\ Bill(row.attempt + 1) \in Nat
    BY <1>2, <2>1, <2>3, <2>4
  <2>6. Bill(row.attempt + 1) <= Bill(MaxAttempts + 1) /\ Bill(MaxAttempts + 1) \in Nat
    BY <2>1, <2>3, Bills
  <2>7. row.kind = "stream" => row.attempt = 0 /\ row.billed <= Bill(1)
    BY <1>2, <2>3, <2>5 DEF RowFits, Billed
  <2>8. Billed(row)
    BY <2>3, <2>5, <2>6, <2>7 DEF Billed
  <2>9. Settled(row)
    BY <1>2, <2>3 DEF RowFits, Settled
  <2> QED BY <1>2, <2>2, <2>3, <2>8, <2>9 DEF RowFits
<1>4. calls' = [calls EXCEPT ![c] = row]
  BY <1>1, <1>2
<1> HIDE DEF row
<1>5. RowsFit'
  BY <1>3, <1>4, OneRow
<1>6. Shared'
  BY DEF Shared, Answered
<1> QED BY <1>5, <1>6

LEMMA ProceedsKeeps ==
  ASSUME Shared, RowsFit, NEW c \in Call, Proceeds(c)
  PROVE  Shared' /\ RowsFit'
<1>1. RowFits(calls[c])
  BY DEF RowsFit
<1>2. CASE KeepSum(c)
  <2>1. CASE Under(calls[c].seen)
    BY <1>2, <2>1, SumKept
  <2>2. CASE ~Under(calls[c].seen)
    BY <1>1, <1>2, <2>2, Failed DEF KeepSum, Shared, Memo, RowFits, CallRow
  <2> QED BY <2>1, <2>2
<1>3. CASE LookUp(c)
  BY <1>3, FoundInCache, NotFound DEF LookUp
<1>4. CASE Limit(c)
  <2>1. CASE tokens[calls[c].by] > 0
    BY <1>4, <2>1, LimitPassed
  <2>2. CASE ~(tokens[calls[c].by] > 0)
    BY <1>4, <2>2, Failed DEF Limit, Shared
  <2> QED BY <2>1, <2>2
<1>5. CASE Answered(c)
  BY <1>5, AnswerComes
<1>6. CASE Erred(c)
  <2>1. Shared'
    BY <1>6 DEF Erred, Shared
  <2>2. ASSUME NEW n \in 0..SdkTries, Ends(c, calls[c].billed + n, "error", FALSE)
        PROVE  RowsFit'
    <3>1. /\ calls[c].billed \in Nat /\ n \in Nat /\ n <= SdkTries /\ SdkTries \in Nat
          /\ calls[c].attempt \in Nat /\ calls[c].attempt <= MaxAttempts /\ MaxAttempts \in Nat
          /\ calls[c].pc = "send"
      BY <1>1, <1>6, ModelCallsAssumption DEF RowFits, CallRow, Erred
    <3>2. /\ calls[c].billed <= Bill(calls[c].attempt)
          /\ calls[c].kind = "stream" => calls[c].attempt = 0
      BY <1>1, <3>1 DEF RowFits, Billed
    <3>3. Bill(calls[c].attempt) + SdkTries = Bill(calls[c].attempt + 1) /\ Bill(calls[c].attempt) \in Nat
      BY <3>1, Bills
    <3>4. Bill(calls[c].attempt + 1) <= Bill(MaxAttempts + 1) /\ Bill(MaxAttempts + 1) \in Nat
      <4>1. /\ calls[c].attempt + 1 \in Nat /\ MaxAttempts + 1 \in Nat
            /\ calls[c].attempt + 1 <= MaxAttempts + 1
        BY <3>1
      <4> QED BY <4>1, Bills
    <3>5. calls[c].billed + n <= Bill(calls[c].attempt + 1) /\ Bill(calls[c].attempt + 1) \in Nat
      BY <3>1, <3>2, <3>3
    <3>6. calls[c].billed + n <= Bill(IF calls[c].kind = "stream" THEN 1 ELSE MaxAttempts + 1)
      BY <3>1, <3>2, <3>4, <3>5
    <3>7. calls[c].billed + n \in Nat
      BY <3>1
    <3> QED BY <2>2, <3>6, <3>7, Ended
  <2> QED BY <1>6, <2>1, <2>2, Retried DEF Erred
<1>7. CASE Wakes(c)
  BY <1>7, Woken
<1>8. CASE Parse(c)
  <2>1. CASE calls[c].raw = "misfit"
    BY <1>8, <2>1, Failed DEF Parse, Shared
  <2> QED BY <1>8, <2>1, Parsed
<1>9. CASE Put(c)
  BY <1>9, PutDone
<1>10. CASE Record(c)
  <2>1. calls[c].raw = "fits"
    BY <1>1, <1>10 DEF RowFits, Record
  <2>2. RowsFit'
    BY <1>1, <1>10, <2>1, Ended DEF Record, RowFits, Billed, CallRow
  <2>3. spent' \in 0..MaxSpent
    BY <1>10, ModelCallsAssumption DEF Cost, Record, Shared
  <2> QED BY <1>10, <2>2, <2>3 DEF Record, Shared
<1>11. CASE RecordFails(c)
  <2>1. calls[c].raw = "fits"
    BY <1>1, <1>11 DEF RowFits, RecordFails
  <2>2. RowsFit'
    BY <1>1, <1>11, <2>1, Ended DEF RecordFails, RowFits, Billed, CallRow
  <2> QED BY <1>11, <2>2 DEF RecordFails, Shared
<1>12. CASE Drafts(c)
  BY <1>12, Drafted
<1> QED BY <1>2, <1>3, <1>4, <1>5, <1>6, <1>7, <1>8, <1>9, <1>10, <1>11, <1>12 DEF Proceeds

LEMMA AsksKeeps ==
  ASSUME Shared, RowsFit, NEW kind \in {"json", "stream"}, Asks(kind)
  PROVE  Shared' /\ RowsFit'
<1>1. PICK p \in Process, c \in Call, k \in Key :
        UseMemo(c, kind, p, k) \/ SumTables(c, kind, p, k) \/ SumFails(c, kind, p, k)
  BY DEF Asks, AsksOf
<1>2. 0 \in 0..MaxSpent /\ spent \in 0..MaxSpent
  BY ModelCallsAssumption DEF Shared
<1> QED BY <1>1, <1>2, Begun DEF UseMemo, SumTables, SumFails

(* The steps of a process, of time, and of other spending.                 *)
LEMMA RestartKeeps ==
  ASSUME Shared, RowsFit, NEW p \in Process, Restart(p)
  PROVE  Shared' /\ RowsFit'
<1>1. RowsFit'
  BY EmptyRow DEF RowsFit, RowFits, Restart
<1>2. NoMemo \in Memo /\ Capacity \in 0..Capacity
  BY ModelCallsAssumption DEF NoMemo, Memo
<1> QED BY <1>1, <1>2 DEF Shared, Restart

LEMMA BackgroundKeeps ==
  ASSUME Shared, RowsFit,
         Spending \/ Ageing \/ \E p \in Process : Refill(p)
  PROVE  Shared' /\ RowsFit'
<1>1. NoMemo \in Memo
  BY ModelCallsAssumption DEF NoMemo, Memo
<1>2. UNCHANGED calls
  BY DEF Spending, OtherSpending, Midnight, MemoLapses, Ageing, EvictExpired, Expire, Refill
<1>3. RowsFit'
  BY <1>2 DEF RowsFit
<1>4. CASE Spending
  BY <1>1, <1>3, <1>4, ModelCallsAssumption DEF Spending, OtherSpending, Midnight, MemoLapses, Shared
<1>5. CASE Ageing
  BY <1>3, <1>5 DEF Ageing, EvictExpired, Expire, Shared
<1>6. CASE \E p \in Process : Refill(p)
  BY <1>3, <1>6, ModelCallsAssumption DEF Refill, Refilled, Shared
<1> QED BY <1>3, <1>4, <1>5, <1>6

LEMMA StepKeeps ==
  ASSUME Shared, RowsFit, [Next]_vars
  PROVE  Shared' /\ RowsFit'
<1>1. CASE Asks("json") \/ Asks("stream")
  BY <1>1, AsksKeeps
<1>2. ASSUME NEW c \in Call, Proceeds(c) PROVE Shared' /\ RowsFit'
  BY <1>2, ProceedsKeeps
<1>3. ASSUME NEW p \in Process, Restart(p) PROVE Shared' /\ RowsFit'
  BY <1>3, RestartKeeps
<1>4. ASSUME NEW p \in Process, Refill(p) PROVE Shared' /\ RowsFit'
  BY <1>4, BackgroundKeeps
<1>5. CASE Spending \/ Ageing
  BY <1>5, BackgroundKeeps
<1>6. CASE UNCHANGED vars
  BY <1>6 DEF vars, Shared, RowsFit
<1> QED BY <1>1, <1>2, <1>3, <1>4, <1>5, <1>6 DEF Next

LEMMA InitHolds == Init => Shared /\ RowsFit
<1> SUFFICES ASSUME Init PROVE Shared /\ RowsFit
  OBVIOUS
<1>1. RowsFit
  BY EmptyRow DEF Init, RowsFit, RowFits
<1>2. NoMemo \in Memo /\ Capacity \in 0..Capacity /\ 0 \in 0..MaxSpent /\ 0 \in 0..MaxDays
  BY ModelCallsAssumption DEF NoMemo, Memo
<1>3. cache \in [Key -> {"none", "fits", "misfit", "expired"}]
  BY DEF Init
<1> QED BY <1>1, <1>2, <1>3 DEF Init, Shared

---------------------------------------------------------------------------
(* The inductive invariant holds in every behaviour.                       *)
THEOREM InvariantHolds == Spec => []IInv
<1>1. Spec => [](Shared /\ RowsFit)
  BY InitHolds, StepKeeps, PTL DEF Spec
<1>2. Shared /\ RowsFit => IInv
  BY IInvIsRows
<1> QED BY <1>1, <1>2, PTL

(* The variables keep their types.                                         *)
THEOREM TypeCorrect == Spec => []TypeOK
<1>1. IInv => TypeOK
  BY DEF IInv
<1> QED BY <1>1, InvariantHolds, PTL

(* However often a call is retried, and whatever an earlier release left   *)
(* in the cache: a call takes one answer at most, completes with one that  *)
(* fits or with an error, and is billed for its own attempts alone, each   *)
(* as often as the client library sends it.                                *)
THEOREM OneAnswer == Spec => []OneFittingAnswer
<1>1. IInv => OneFittingAnswer
  BY DEF IInv
<1> QED BY <1>1, InvariantHolds, PTL

---------------------------------------------------------------------------
(* What ShutStaysShut asks of a step.                                      *)
Holds ==
  /\ Shut'
  /\ \A c \in Call : calls[c].pc # "lookup" /\ calls'[c].pc = "lookup" =>
       calls[c].pc # "summed" /\ ~memo[calls'[c].by].kept

(* A step after which no call is about to pass that was not before.        *)
Quiet == \A c \in Call : calls'[c] = calls[c] \/ calls'[c].pc \notin {"summed", "lookup"}

LEMMA QuietHolds ==
  ASSUME Shut, Quiet, spent' >= Ceiling,
         \A p \in Process : memo'[p] = memo[p] \/ ~memo'[p].kept
  PROVE  Holds
BY DEF Shut, Quiet, Holds

LEMMA AsksHolds ==
  ASSUME Shared, RowsFit, Shut, NEW kind \in {"json", "stream"}, Asks(kind)
  PROVE  Holds
<1>1. PICK p \in Process, c \in Call, k \in Key :
        UseMemo(c, kind, p, k) \/ SumTables(c, kind, p, k) \/ SumFails(c, kind, p, k)
  BY DEF Asks, AsksOf
<1>2. NoCallRow \in CallRow /\ calls \in [Call -> CallRow]
  BY EmptyRow DEF RowFits, RowsFit
<1>3. ~UseMemo(c, kind, p, k)
  BY ModelCallsAssumption DEF UseMemo, Under, Shut, Shared, Memo
<1>4. CASE SumTables(c, kind, p, k)
  <2>1. calls'[c].pc = "summed" /\ calls'[c].seen = spent
    BY <1>2, <1>4 DEF SumTables, Begin, CallRow
  <2>2. (\A d \in Call \ {c} : calls'[d] = calls[d]) /\ UNCHANGED <<memo, spent>>
    BY <1>2, <1>4 DEF SumTables, Begin
  <2> QED BY <2>1, <2>2 DEF Holds, Shut
<1>5. CASE SumFails(c, kind, p, k)
  <2>1. calls'[c].pc = "lookup" /\ calls'[c].by = p /\ calls[c].pc # "summed" /\ ~memo[p].kept
    BY <1>2, <1>5 DEF SumFails, Begin, CallRow
  <2>2. (\A d \in Call \ {c} : calls'[d] = calls[d]) /\ UNCHANGED <<memo, spent>>
    BY <1>2, <1>5 DEF SumFails, Begin
  <2> QED BY <2>1, <2>2 DEF Holds, Shut
<1> QED BY <1>1, <1>3, <1>4, <1>5

LEMMA ProceedsHolds ==
  ASSUME Shared, RowsFit, Shut, NEW c \in Call, Proceeds(c)
  PROVE  Holds
<1>1. NoCallRow \in CallRow /\ calls \in [Call -> CallRow] /\ RowFits(calls[c])
  BY EmptyRow DEF RowFits, RowsFit
<1>2. \A d \in Call \ {c} : calls'[d] = calls[d]
  BY <1>1 DEF Proceeds, KeepSum, LookUp, Limit, Drafts, Answered, Erred, Wakes, Parse, Put, Record,
              RecordFails, Goto, Fail, Ends
<1>3. ASSUME NEW billed, NEW given, NEW recorded, Ends(c, billed, given, recorded)
      PROVE  calls'[c].pc = "over"
  BY <1>1, <1>3 DEF Ends, CallRow
<1>4. CASE KeepSum(c)
  <2>1. calls[c].seen >= Ceiling /\ ~Under(calls[c].seen)
    BY <1>1, <1>4, ModelCallsAssumption DEF Shut, KeepSum, Under, RowFits, CallRow
  <2>2. calls'[c].pc = "over"
    BY <1>3, <1>4, <2>1 DEF KeepSum, Fail
  <2>3. /\ memo' = [memo EXCEPT ![calls[c].by] = [kept |-> TRUE, total |-> calls[c].seen]]
        /\ memo \in [Process -> Memo] /\ UNCHANGED spent
    BY <1>4 DEF KeepSum, Shared
  <2>4. \A p \in Process : memo'[p].kept => memo'[p].total >= Ceiling
    BY <2>1, <2>3 DEF Shut
  <2> QED BY <1>2, <2>2, <2>3, <2>4 DEF Holds, Shut
<1>5. Fail(c) => calls'[c].pc = "over"
  BY <1>3 DEF Fail
<1>6. spent >= Ceiling /\ spent \in Nat /\ Ceiling \in Nat /\ Cost(c) \in Nat
  BY ModelCallsAssumption DEF Shut, Shared, Cost
<1>7. ASSUME ~KeepSum(c)
      PROVE  calls'[c].pc \notin {"summed", "lookup"} /\ UNCHANGED memo /\ spent' >= Ceiling
  <2>1. CASE LookUp(c)
    BY <1>1, <2>1 DEF LookUp, Goto, Shut, RowFits, CallRow
  <2>2. CASE Limit(c)
    BY <1>1, <1>5, <1>6, <2>2 DEF Limit, Goto, RowFits, CallRow
  <2>3. CASE Answered(c)
    <3>1. PICK v \in {"fits", "misfit"}, n \in 1..SdkTries :
            calls' = [calls EXCEPT ![c].pc = "parse", ![c].raw = v,
                        ![c].billed = @ + n, ![c].answers = @ + 1]
      BY <2>3 DEF Answered
    <3>2. calls'[c].pc = "parse"
      BY <1>1, <3>1 DEF CallRow
    <3> QED BY <1>6, <2>3, <3>2 DEF Answered
  <2>4. CASE Wakes(c) \/ Put(c)
    BY <1>1, <2>4 DEF Wakes, Put, Goto, Shut, RowFits, CallRow
  <2>5. CASE Erred(c)
    <3>1. calls'[c].pc \in {"sleep", "over"}
      <4>1. PICK n \in 0..SdkTries :
              \/ calls' = [calls EXCEPT ![c].pc = "sleep", ![c].attempt = NextAttempt(@),
                             ![c].billed = @ + n]
              \/ Ends(c, calls[c].billed + n, "error", FALSE)
        BY <2>5 DEF Erred
      <4>2. CASE Ends(c, calls[c].billed + n, "error", FALSE)
        BY <1>3, <4>2
      <4>3. CASE calls' = [calls EXCEPT ![c].pc = "sleep", ![c].attempt = NextAttempt(@),
                             ![c].billed = @ + n]
        BY <1>1, <4>3 DEF CallRow
      <4> QED BY <4>1, <4>2, <4>3
    <3> QED BY <1>6, <2>5, <3>1 DEF Erred
  <2>6. CASE Drafts(c)
    BY <1>1, <2>6 DEF Drafts, Shut, RowFits, CallRow
  <2>7. CASE Parse(c)
    BY <1>1, <1>5, <1>6, <2>7 DEF Parse, RowFits, CallRow
  <2>8. CASE Record(c)
    <3>1. calls'[c].pc = "over"
      BY <1>3, <2>8 DEF Record
    <3>2. spent' = spent + Cost(c) /\ UNCHANGED memo
      BY <2>8 DEF Record
    <3> QED BY <1>6, <3>1, <3>2
  <2>9. CASE RecordFails(c)
    BY <1>1, <1>3, <2>9 DEF RecordFails, Shut
  <2> QED BY <1>7, <2>1, <2>2, <2>3, <2>4, <2>5, <2>6, <2>7, <2>8, <2>9 DEF Proceeds
<1> QED BY <1>2, <1>4, <1>7, QuietHolds DEF Quiet

LEMMA StepHolds ==
  ASSUME Shared, RowsFit, Shut, Next, day' = day
  PROVE  Holds
<1>1. CASE Asks("json") \/ Asks("stream")
  BY <1>1, AsksHolds
<1>2. ASSUME NEW c \in Call, Proceeds(c) PROVE Holds
  BY <1>2, ProceedsHolds
<1>3. ASSUME NEW p \in Process, Restart(p) PROVE Holds
  <2>1. Quiet /\ spent' >= Ceiling
    BY <1>3 DEF Restart, Quiet, NoCallRow, Shut
  <2>2. \A q \in Process : memo'[q] = memo[q] \/ ~memo'[q].kept
    BY <1>3 DEF Restart, NoMemo, Shared
  <2> QED BY <2>1, <2>2, QuietHolds
<1>4. CASE Spending
  <2>1. \A q \in Process : memo'[q] = memo[q] \/ ~memo'[q].kept
    BY <1>4 DEF Spending, OtherSpending, Midnight, MemoLapses, NoMemo, Shared
  <2>2. Quiet
    BY <1>4 DEF Spending, OtherSpending, Midnight, MemoLapses, Quiet
  <2>3. spent' >= Ceiling
    BY <1>4, ModelCallsAssumption DEF Spending, OtherSpending, Midnight, MemoLapses, Shut, Shared
  <2> QED BY <2>1, <2>2, <2>3, QuietHolds
<1>5. CASE Ageing \/ \E p \in Process : Refill(p)
  BY <1>5, QuietHolds DEF Ageing, EvictExpired, Expire, Refill, Quiet, Shut
<1> QED BY <1>1, <1>2, <1>3, <1>4, <1>5 DEF Next

(* Once the ceiling has taken hold it holds to the end of the day.         *)
THEOREM CeilingHolds == Spec => ShutStaysShut
<1>1. ASSUME IInv, [Next]_vars
      PROVE  [Shut /\ day' = day =>
                /\ Shut'
                /\ \A c \in Call : calls[c].pc # "lookup" /\ calls'[c].pc = "lookup" =>
                     calls[c].pc # "summed" /\ ~memo[calls'[c].by].kept]_vars
  <2>1. Shared /\ RowsFit
    BY <1>1, IInvIsRows
  <2> QED BY <1>1, <2>1, StepHolds DEF Holds
<1> QED BY <1>1, InvariantHolds, PTL DEF Spec, ShutStaysShut

=============================================================================
