----------------------------- MODULE ModelCalls -----------------------------
(***************************************************************************)
(* A call of a language model through the proxy (services/claude): the     *)
(* daily spend ceiling, the response cache, the rate limit, the retries,   *)
(* the usage record.  Each process memoizes the day's spend and keeps its  *)
(* own rate limit; cache and usage are tables that all share.  Between two *)
(* awaits of a call anything may happen: other calls, other spending,      *)
(* midnight, a failed query, the end of the process.                       *)
(***************************************************************************)
EXTENDS Naturals, FiniteSets

CONSTANTS
  Process,      \* server processes
  Call,         \* calls at work at once (bound)
  Key,          \* what is asked: route, model and text
  MaxAttempts,  \* retries after the first attempt
  SdkTries,     \* requests the client library makes of one attempt (external)
  Ceiling,      \* the daily ceiling, in calls
  Capacity,     \* calls a process may start in a minute
  MaxSpent,     \* most that is spent in a day (bound)
  MaxDays,      \* days (bound)
  NoProcess, NoKey

ASSUME ModelCallsAssumption ==
  /\ MaxAttempts \in Nat /\ Capacity \in Nat /\ MaxSpent \in Nat /\ MaxDays \in Nat
  /\ Ceiling \in Nat \ {0} /\ SdkTries \in Nat \ {0}
  /\ NoProcess \notin Process /\ NoKey \notin Key

VARIABLES
  calls,     \* the calls
  cache,     \* claude_cache: an answer that fits its schema, one that does not
             \* any more, one that has expired
  spent,     \* what the day's rows sum to, over the four tables
  day,
  memo,      \* per process: the memoized sum
  tokens     \* per process: the token bucket

vars == <<calls, cache, spent, day, memo, tokens>>

Memo == [kept : BOOLEAN, total : 0..MaxSpent]
NoMemo == [kept |-> FALSE, total |-> 0]

(* A call counts the requests it is billed for and the answers that reach  *)
(* it.  To the caller of a stream it gives a draft, the raw text as it     *)
(* arrives, before what comes of it: an answer or an error.                *)
CallRow ==
  [pc : {"none", "summed", "lookup", "limit", "send", "sleep", "parse", "put", "record", "over"},
   kind : {"json", "stream"}, by : Process \cup {NoProcess}, key : Key \cup {NoKey},
   seen : 0..MaxSpent, attempt : 0..MaxAttempts, billed : Nat, answers : Nat,
   raw : {"none", "fits", "misfit"},
   given : {"none", "draft", "fits", "misfit", "error"}, recorded : BOOLEAN]
NoCallRow ==
  [pc |-> "none", kind |-> "json", by |-> NoProcess, key |-> NoKey, seen |-> 0,
   attempt |-> 0, billed |-> 0, answers |-> 0,
   raw |-> "none", given |-> "none", recorded |-> FALSE]

Goto(c, pc) == calls' = [calls EXCEPT ![c].pc = pc]
(* Of a call that is over only its kind, what it gave and what it was      *)
(* billed and recorded is kept.                                            *)
Ends(c, billed, given, recorded) ==
  calls' = [calls EXCEPT ![c] = [NoCallRow EXCEPT !.pc = "over", !.kind = calls[c].kind,
    !.billed = billed, !.given = given, !.recorded = recorded]]
Fail(c) == Ends(c, calls[c].billed, "error", FALSE)

---------------------------------------------------------------------------
(* Mutant: the ceiling itself may still be spent.                          *)
UnderInclusive(total) == total <= Ceiling
Under(total) == total < Ceiling
Begin(c, kind, p, k, pc, total) ==
  /\ calls[c].pc \in {"none", "over"}
  /\ calls' = [calls EXCEPT ![c] = [NoCallRow EXCEPT
       !.pc = pc, !.kind = kind, !.by = p, !.key = k, !.seen = total]]
  /\ UNCHANGED <<cache, spent, day, memo, tokens>>

(* assertUnderSpendCeiling: the memo is used while it is kept; otherwise   *)
(* the tables are summed, and the sum becomes the memo, whatever another   *)
(* call has made of it meanwhile.  If they cannot be summed the call goes  *)
(* on; a call that the memo refuses leaves no trace.                       *)
UseMemo(c, kind, p, k) ==
  /\ memo[p].kept /\ Under(memo[p].total)
  /\ Begin(c, kind, p, k, "lookup", 0)
SumTables(c, kind, p, k) == ~memo[p].kept /\ Begin(c, kind, p, k, "summed", spent)
SumFails(c, kind, p, k) == ~memo[p].kept /\ Begin(c, kind, p, k, "lookup", 0)

KeepSum(c) ==
  /\ calls[c].pc = "summed"
  /\ memo' = [memo EXCEPT ![calls[c].by] = [kept |-> TRUE, total |-> calls[c].seen]]
  /\ IF Under(calls[c].seen)
     THEN calls' = [calls EXCEPT ![c].pc = "lookup", ![c].seen = 0]
     ELSE Fail(c)
  /\ UNCHANGED <<cache, spent, day, tokens>>

---------------------------------------------------------------------------
Usable == {"fits"}

(* A row that fits is the answer, and a usage row without cost follows.    *)
(* Streams give it before they record it.  The lookup may fail.            *)
LookUp(c) ==
  /\ calls[c].pc = "lookup"
  /\ \/ /\ cache[calls[c].key] \in Usable
        /\ calls' = [calls EXCEPT ![c].pc = "record", ![c].raw = cache[calls[c].key],
             ![c].given = IF calls[c].kind = "stream" THEN cache[calls[c].key] ELSE "none"]
     \/ Goto(c, "limit")
  /\ UNCHANGED <<cache, spent, day, memo, tokens>>

Refilled(n) == n + 1

Limit(c) ==
  LET p == calls[c].by IN
  /\ calls[c].pc = "limit"
  /\ IF tokens[p] > 0
     THEN tokens' = [tokens EXCEPT ![p] = @ - 1] /\ Goto(c, "send")
     ELSE Fail(c) /\ UNCHANGED tokens
  /\ UNCHANGED <<cache, spent, day, memo>>

(* The caller of a stream is handed the text while the model writes it.    *)
Drafts(c) ==
  /\ calls[c].pc = "send" /\ calls[c].kind = "stream"
  /\ calls[c].given = "none" /\ calls' = [calls EXCEPT ![c].given = "draft"]
  /\ UNCHANGED <<cache, spent, day, memo, tokens>>

(* The model answers.  The client library may have sent the request again  *)
(* and again, each of which the model may have answered and billed.        *)
Answered(c) ==
  /\ calls[c].pc = "send"
  /\ \E v \in {"fits", "misfit"}, n \in 1..SdkTries :
       calls' = [calls EXCEPT ![c].pc = "parse", ![c].raw = v,
         ![c].billed = @ + n, ![c].answers = @ + 1]
  /\ UNCHANGED <<cache, spent, day, memo, tokens>>

(* Mutant: the attempts are not counted.                                   *)
NextAttemptFree(n) == n
NextAttempt(n) == n + 1

(* withRetry: an error that may pass is retried while attempts are left,   *)
(* unless the call is a stream; any other error ends the call.  A timeout  *)
(* or a broken connection tells nothing of what the model did and billed.  *)
Erred(c) ==
  /\ calls[c].pc = "send"
  /\ \E n \in 0..SdkTries :
       \/ /\ calls[c].kind = "json" /\ calls[c].attempt < MaxAttempts
          /\ calls' = [calls EXCEPT ![c].pc = "sleep", ![c].attempt = NextAttempt(@),
               ![c].billed = @ + n]
       \/ Ends(c, calls[c].billed + n, "error", FALSE)
  /\ UNCHANGED <<cache, spent, day, memo, tokens>>

Wakes(c) ==
  /\ calls[c].pc = "sleep" /\ Goto(c, "send")
  /\ UNCHANGED <<cache, spent, day, memo, tokens>>

(* Mutant: an answer that does not fit is asked for again.                 *)
ParseRetries(c) ==
  /\ calls[c].pc = "parse"
  /\ IF calls[c].raw = "misfit" /\ calls[c].attempt < MaxAttempts
     THEN calls' = [calls EXCEPT ![c].pc = "send", ![c].attempt = @ + 1]
     ELSE Goto(c, "put")
  /\ UNCHANGED <<cache, spent, day, memo, tokens>>

(* An answer that does not fit its schema ends the call as an error.       *)
Parse(c) ==
  /\ calls[c].pc = "parse"
  /\ IF calls[c].raw = "misfit" THEN Fail(c)
     ELSE calls' = [calls EXCEPT ![c].pc = "put",
            ![c].given = IF calls[c].kind = "stream" THEN calls[c].raw ELSE "none"]
  /\ UNCHANGED <<cache, spent, day, memo, tokens>>

(* The cache keeps the answer, or the write fails and the call goes on.    *)
Put(c) ==
  /\ calls[c].pc = "put"
  /\ \/ cache' = [cache EXCEPT ![calls[c].key] = calls[c].raw]
     \/ UNCHANGED cache
  /\ Goto(c, "record")
  /\ UNCHANGED <<spent, day, memo, tokens>>

(* The usage row has the cost of the answer, none if the cache gave it.    *)
Cost(c) == IF calls[c].answers > 0 THEN 1 ELSE 0

(* recordUsageSoft, and the answer of a call that is not a stream.         *)
Record(c) ==
  /\ calls[c].pc = "record" /\ spent + Cost(c) <= MaxSpent
  /\ spent' = spent + Cost(c)
  /\ Ends(c, calls[c].billed, calls[c].raw, TRUE)
  /\ UNCHANGED <<cache, day, memo, tokens>>

RecordFails(c) ==
  /\ calls[c].pc = "record"
  /\ Ends(c, calls[c].billed, calls[c].raw, FALSE)
  /\ UNCHANGED <<cache, spent, day, memo, tokens>>

---------------------------------------------------------------------------
(* A process dies with its calls, its memo and its buckets.                *)
Restart(p) ==
  /\ calls' = [c \in Call |-> IF calls[c].by = p THEN NoCallRow ELSE calls[c]]
  /\ memo' = [memo EXCEPT ![p] = NoMemo]
  /\ tokens' = [tokens EXCEPT ![p] = Capacity]
  /\ UNCHANGED <<cache, spent, day>>

MemoLapses(p) ==
  /\ memo[p].kept /\ memo' = [memo EXCEPT ![p] = NoMemo]
  /\ UNCHANGED <<calls, cache, spent, day, tokens>>

Refill(p) ==
  /\ tokens[p] < Capacity /\ tokens' = [tokens EXCEPT ![p] = Refilled(@)]
  /\ UNCHANGED <<calls, cache, spent, day, memo>>

Expire(k) ==
  /\ cache[k] \in {"fits", "misfit"} /\ cache' = [cache EXCEPT ![k] = "expired"]
  /\ UNCHANGED <<calls, spent, day, memo, tokens>>

EvictExpired ==
  /\ cache' = [k \in Key |-> IF cache[k] = "expired" THEN "none" ELSE cache[k]]
  /\ cache' # cache
  /\ UNCHANGED <<calls, spent, day, memo, tokens>>

(* Story audio, story pictures and listening audio are paid for elsewhere. *)
OtherSpending ==
  /\ spent < MaxSpent /\ spent' = spent + 1
  /\ UNCHANGED <<calls, cache, day, memo, tokens>>

Midnight ==
  /\ day < MaxDays /\ day' = day + 1 /\ spent' = 0
  /\ UNCHANGED <<calls, cache, memo, tokens>>

---------------------------------------------------------------------------
TypeOK ==
  /\ calls \in [Call -> CallRow]
  /\ cache \in [Key -> {"none", "fits", "misfit", "expired"}]
  /\ spent \in 0..MaxSpent
  /\ day \in 0..MaxDays
  /\ memo \in [Process -> Memo]
  /\ tokens \in [Process -> 0..Capacity]

(* Rows that an earlier release wrote may not fit the schema of this one.  *)
Init ==
  /\ calls = [c \in Call |-> NoCallRow]
  /\ cache \in [Key -> {"none", "misfit"}]
  /\ spent = 0
  /\ day = 0
  /\ memo = [p \in Process |-> NoMemo]
  /\ tokens = [p \in Process |-> Capacity]

Proceeds(c) ==
  \/ KeepSum(c) \/ LookUp(c) \/ Limit(c)
  \/ Drafts(c) \/ Answered(c) \/ Erred(c) \/ Wakes(c) \/ Parse(c) \/ Put(c) \/ Record(c) \/ RecordFails(c)

AsksOf(p, kind) ==
  \E c \in Call, k \in Key :
    UseMemo(c, kind, p, k) \/ SumTables(c, kind, p, k) \/ SumFails(c, kind, p, k)
Asks(kind) == \E p \in Process : AsksOf(p, kind)

Spending == OtherSpending \/ Midnight \/ \E p \in Process : MemoLapses(p)
Ageing == EvictExpired \/ \E k \in Key : Expire(k)

Next ==
  \/ Asks("json") \/ Asks("stream")
  \/ \E c \in Call : Proceeds(c)
  \/ \E p \in Process : Restart(p) \/ Refill(p)
  \/ Spending
  \/ Ageing

Spec == Init /\ [][Next]_vars
Fairness == \A c \in Call : WF_vars(Proceeds(c))
LiveSpec == Spec /\ Fairness

---------------------------------------------------------------------------
(* Nobody lets a call through any more: the day's rows reach the ceiling,  *)
(* and no memo, nor a sum still on its way, is from before they did.       *)
Shut ==
  /\ spent >= Ceiling
  /\ \A p \in Process : memo[p].kept => memo[p].total >= Ceiling
  /\ \A c \in Call : calls[c].pc = "summed" => calls[c].seen >= Ceiling

(* Once the ceiling has taken hold it holds to the end of the day: no call *)
(* passes unless the tables cannot be summed, whatever lapses, restarts or *)
(* is recorded.                                                            *)
ShutStaysShut ==
  [][Shut /\ day' = day =>
       /\ Shut'
       /\ \A c \in Call : calls[c].pc # "lookup" /\ calls'[c].pc = "lookup" =>
            calls[c].pc # "summed" /\ ~memo[calls'[c].by].kept]_vars

(* What a call gives its caller as its answer fits the schema of the       *)
(* release that runs, also when it comes from a row that another release   *)
(* wrote.  Only a stream gives more, the draft, before it is parsed; but   *)
(* no call is over with that alone: an answer or an error follows.         *)
GivenFits ==
  \A c \in Call :
    /\ calls[c].given # "misfit"
    /\ calls[c].given = "draft" => calls[c].kind = "stream" /\ calls[c].pc \in {"send", "parse"}
    /\ calls[c].given = "error" => calls[c].pc = "over"
    /\ calls[c].pc = "over" => calls[c].given \in {"fits", "error"}

(* An answer that has come is never asked for again, however it turns out. *)
AnsweredOnce == \A c \in Call : calls[c].answers <= 1

(* What a call may be billed is bounded: by its attempts, of which a       *)
(* stream has one, and the requests the client library makes of each.      *)
MostAttempts(c) == IF calls[c].kind = "stream" THEN 1 ELSE MaxAttempts + 1
BillsAreBounded == \A c \in Call : calls[c].billed <= MostAttempts(c) * SdkTries

(* A call takes one answer at most, completes only with one that fits, and *)
(* costs no more than its attempts do: retries after timeouts may be       *)
(* billed again, answers that do not fit may not.                          *)
OneFittingAnswer == GivenFits /\ AnsweredOnce /\ BillsAreBounded

(* Every call comes to an end: retries run out, and failing queries do not *)
(* hold it up.                                                             *)
CallsEnd == \A c \in Call : calls[c].pc \in {"summed", "lookup"} ~> calls[c].pc \in {"over", "none"}

---------------------------------------------------------------------------
(* The inductive invariant behind OneFittingAnswer.                        *)

(* A call that goes on is some process's, and asks for something.          *)
CallsBelong ==
  \A c \in Call : calls[c].pc \notin {"none", "over"} =>
    calls[c].by \in Process /\ calls[c].key \in Key

(* A call that has no answer yet has been billed for the attempts it has   *)
(* made at most; one that has, for one attempt more.  Streams make one.    *)
BilledSoFar ==
  \A c \in Call :
    /\ calls[c].pc \notin {"parse", "put", "record", "over"} =>
         calls[c].answers = 0 /\ calls[c].billed <= calls[c].attempt * SdkTries
    /\ calls[c].pc \in {"parse", "put", "record"} =>
         calls[c].billed <= (calls[c].attempt + 1) * SdkTries
    /\ calls[c].kind = "stream" => calls[c].attempt = 0

(* What is put into the cache, and recorded, has been parsed.              *)
ParsedFits ==
  \A c \in Call :
    /\ calls[c].pc = "parse" => calls[c].raw # "none"
    /\ calls[c].pc \in {"put", "record"} => calls[c].raw = "fits"

IInv == TypeOK /\ CallsBelong /\ BilledSoFar /\ ParsedFits /\ OneFittingAnswer

---------------------------------------------------------------------------
(* "Every public-API call ends with a usage row write" (usage.ts:4): a     *)
(* call that has been billed has its row when it is over.                  *)
PaidIsRecorded ==
  \A c \in Call : calls[c].pc = "over" /\ calls[c].billed > 0 => calls[c].recorded

=============================================================================
