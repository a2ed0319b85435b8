----------------------------- MODULE Extraction -----------------------------
(***************************************************************************)
(* Vocabulary extraction: a request claims a range of an uploaded book's   *)
(* pages in one transaction, sends each page to the Vision model outside   *)
(* any transaction, and in a second transaction stores the words and       *)
(* settles its run (services/uploadExtract.ts).  No other process works on *)
(* a run; the next claim of the same book reaps a run presumed dead.       *)
(*                                                                         *)
(* Meanwhile the book's pages are decoded, wiped and re-decoded, or the    *)
(* book is deleted (see BookIngest).  Users other than one are left out:   *)
(* every lock and count below is per user or per upload.                   *)
(***************************************************************************)
EXTENDS Integers, FiniteSets

CONSTANTS
  Upload,          \* book_uploads ids of one user, never reused
  RunId,           \* upload_extractions ids, never reused
  Request,         \* extraction requests that may be open at once     (bound)
  MaxPage,         \* pages of a book                                  (bound)
  Ends,            \* pages a request may name as an end of its range  (bound)
  MaxPagesPerRun,  \* MAX_EXTRACT_PAGES_PER_RUN
  DefaultPages,    \* DEFAULT_EXTRACT_PAGES
  PageCap,         \* UPLOAD_EXTRACT_DAILY_PAGE_CAP
  MaxDay,          \* days                                             (bound)
  Omitted,         \* a range end the request leaves out
  NoRun, NoUpload

ASSUME ExtractionAssumption ==
  /\ MaxPage \in Nat /\ Ends \subseteq Nat \ {0} /\ PageCap \in Nat /\ MaxDay \in Nat
  /\ MaxPagesPerRun \in Nat \ {0} /\ DefaultPages \in 1..MaxPagesPerRun
  /\ Omitted \notin Int /\ NoRun \notin RunId /\ NoUpload \notin Upload
  /\ IsFiniteSet(RunId)

VARIABLES
  book,   \* book_uploads and their book_pages
  runs,   \* upload_extractions rows
  words,  \* the runs that have words stored in the corpus
  sent,   \* history: pages sent to the Vision model
  req,    \* extraction requests
  today   \* the database's current day

vars == <<book, runs, words, sent, req, today>>

---------------------------------------------------------------------------
Page == 1..MaxPage
Day == 0..MaxDay

(* A book lists pages 1..pages, fewer than it will have while it is        *)
(* decoded; one not yet uploaded has no page either.                       *)
Book == [status : {"open", "deleted"}, pages : 0..MaxPage]

(* A run row.  pages: those that existed in its range when it was claimed, *)
(* counted by pages_requested; to: page_to; stale: running since before    *)
(* the threshold; upload: NoUpload once the book is deleted.               *)
RunRow == [status : {"none", "running", "done", "failed"},
           upload : Upload \cup {NoUpload}, pages : SUBSET Page, to : Nat,
           day : Day, stale : BOOLEAN]
NoRow == [status |-> "none", upload |-> NoUpload, pages |-> {}, to |-> 0,
          day |-> 0, stale |-> FALSE]

(* A request: in its claim transaction (range resolved; under the cap), or *)
(* at work on its run.                                                     *)
ReqState == {"idle", "ranged", "counted", "ocr", "persist", "settle"}
Req == [pc : ReqState, upload : Upload \cup {NoUpload}, pages : SUBSET Page,
        to : Nat, day : Day, run : RunId \cup {NoRun}]
NoReq == [pc |-> "idle", upload |-> NoUpload, pages |-> {}, to |-> 0,
          day |-> 0, run |-> NoRun]
Claiming == {"ranged", "counted"}
Working == {"ocr", "persist", "settle"}

Exists(r) == runs[r].status # "none"
Running(r) == runs[r].status = "running"
Settled(r, verdict) == [runs[r] EXCEPT !.status = verdict, !.stale = FALSE]

TypeOK ==
  /\ book \in [Upload -> Book]
  /\ runs \in [RunId -> RunRow]
  /\ words \subseteq RunId
  /\ sent \subseteq RunId \X Page
  /\ req \in [Request -> Req]
  /\ today \in Day
  /\ \A r \in RunId :
       Exists(r) => Cardinality(runs[r].pages) \in 1..MaxPagesPerRun

Init ==
  /\ book = [u \in Upload |-> [status |-> "open", pages |-> 0]]
  /\ runs = [r \in RunId |-> NoRow]
  /\ words = {}
  /\ sent = {}
  /\ req = [q \in Request |-> NoReq]
  /\ today = 0

SetReq(q, r) == req' = [req EXCEPT ![q] = r]
Goto(q, pc) == SetReq(q, [req[q] EXCEPT !.pc = pc])

---------------------------------------------------------------------------
(* The claim transaction.  It locks the upload row, which keeps out other  *)
(* claims of the book, its delete and new page rows; later the user's      *)
(* advisory lock, which keeps out the user's other claims.                 *)

UploadLocked(u) == \E q \in Request : req[q].pc \in Claiming /\ req[q].upload = u
(* Mutant: no advisory lock.                                               *)
NeverHeld == FALSE
CapLocked == \E q \in Request : req[q].pc = "counted"

(* Resume after the last page_to of a done run.                            *)
DoneTo(u) ==
  {runs[r].to : r \in {x \in RunId : runs[x].status = "done" /\ runs[x].upload = u}}
IsLastDone(u, n) == n \in DoneTo(u) \cup {0} /\ \A m \in DoneTo(u) : m <= n
PageFrom(lastDone, from) == IF from = Omitted THEN lastDone + 1 ELSE from
PageTo(first, to) == IF to = Omitted THEN first + DefaultPages - 1 ELSE to
SpanAllowed(first, last) == last - first + 1 <= MaxPagesPerRun
PagesIn(u, first, last) == {n \in 1..book[u].pages : first <= n /\ n <= last}

(* A range that is empty, too long or holds no page is refused.            *)
ResolveRange(q, u, from, to, lastDone) ==
  LET first == PageFrom(lastDone, from)
      last == PageTo(first, to)
  IN
  /\ req[q].pc = "idle" /\ book[u].status = "open" /\ ~UploadLocked(u)
  /\ IsLastDone(u, lastDone)
  /\ first <= last /\ SpanAllowed(first, last) /\ PagesIn(u, first, last) # {}
  /\ SetReq(q, [NoReq EXCEPT !.pc = "ranged", !.upload = u, !.to = last,
                             !.pages = PagesIn(u, first, last), !.day = today])
  /\ UNCHANGED <<book, runs, words, sent, today>>

(* The daily cap sums pages_requested over every run of the day, also      *)
(* failed ones and those of deleted books.                                 *)
ChargedSince(d) ==
  {c \in RunId \X Page : runs[c[1]].day >= d /\ c[2] \in runs[c[1]].pages}
CheckCap(q) ==
  /\ req[q].pc = "ranged" /\ ~CapLocked
  /\ IF Cardinality(ChargedSince(req[q].day)) + Cardinality(req[q].pages) <= PageCap
       THEN Goto(q, "counted") ELSE SetReq(q, NoReq)
  /\ UNCHANGED <<book, runs, words, sent, today>>

(* Reap and INSERT, at the COMMIT.  Of a live run that is not reaped the   *)
(* unique key stops the INSERT, and nothing is reaped either.              *)
RunsOf(u) == {r \in RunId : Running(r) /\ runs[r].upload = u}
StaleRuns(u) == {r \in RunsOf(u) : runs[r].stale}
NoLiveRun(u) == RunsOf(u) \ StaleRuns(u) = {}
InsertRun(q) ==
  LET u == req[q].upload IN
  /\ req[q].pc = "counted" /\ NoLiveRun(u)
  /\ \E r \in RunId :
       /\ ~Exists(r)
       /\ runs' = [x \in RunId |->
            IF x = r
              THEN [status |-> "running", upload |-> u, pages |-> req[q].pages,
                    to |-> req[q].to, day |-> req[q].day, stale |-> FALSE]
            ELSE IF x \in StaleRuns(u) THEN Settled(x, "failed") ELSE runs[x]]
       /\ SetReq(q, [req[q] EXCEPT !.pc = "ocr", !.run = r])
  /\ UNCHANGED <<book, words, sent, today>>

---------------------------------------------------------------------------
(* Work on the run                                                         *)

(* One call per page.  A page whose image is gone, too large or unreadable *)
(* to the model is skipped (the first two are never sent: one call too     *)
(* many here); a run none of whose pages succeeds settles failed.          *)
Ocr(q) ==
  /\ req[q].pc = "ocr"
  /\ sent' = sent \cup ({req[q].run} \X req[q].pages)
  /\ Goto(q, "persist") \/ Goto(q, "settle")
  /\ UNCHANGED <<book, runs, words, today>>

(* Mutant: the settle has no status guard.                                 *)
Unguarded(r) == TRUE

(* Words and settle in one transaction: new words (those not stored yet)   *)
(* need the book's row, the settle needs a running run, and either failing *)
(* rolls both back.  A lost acknowledgement leads to the failure path.     *)
SettledOne(r) == Running(r)
Persist(q) ==
  LET r == req[q].run
      u == req[q].upload
  IN
  /\ req[q].pc = "persist" /\ SettledOne(r)
  /\ \/ UNCHANGED words
     \/ book[u].status = "open" /\ ~UploadLocked(u) /\ words' = words \cup {r}
  /\ runs' = [runs EXCEPT ![r] = IF Running(r) THEN Settled(r, "done") ELSE @]
  /\ SetReq(q, NoReq) \/ Goto(q, "settle")
  /\ UNCHANGED <<book, sent, today>>

Throw(q) ==
  /\ req[q].pc \in {"ocr", "persist"}
  /\ Goto(q, "settle")
  /\ UNCHANGED <<book, runs, words, sent, today>>

(* settleFailed, under its status guard; its own failure is swallowed.     *)
Unsettled(r) == Running(r)
SettleFailed(q) ==
  LET r == req[q].run IN
  /\ req[q].pc = "settle"
  /\ \/ /\ Unsettled(r)
        /\ runs' = [runs EXCEPT ![r] = Settled(r, "failed")]
     \/ UNCHANGED runs
  /\ SetReq(q, NoReq)
  /\ UNCHANGED <<book, words, sent, today>>

(* The process dies, or the claim transaction throws and rolls back.       *)
Lost(q) ==
  /\ req[q].pc # "idle"
  /\ SetReq(q, NoReq)
  /\ UNCHANGED <<book, runs, words, sent, today>>

---------------------------------------------------------------------------
(* The book and time                                                       *)

DecodePage(u) ==
  /\ book[u].status = "open" /\ book[u].pages < MaxPage /\ ~UploadLocked(u)
  /\ book' = [book EXCEPT ![u].pages = @ + 1]
  /\ UNCHANGED <<runs, words, sent, req, today>>

(* A re-submitted or failed book's pages are deleted.                      *)
WipePages(u) ==
  /\ book[u].status = "open" /\ book[u].pages > 0
  /\ book' = [book EXCEPT ![u].pages = 0]
  /\ UNCHANGED <<runs, words, sent, req, today>>

(* DELETE /uploads/:id.  The run rows stay, without their upload.          *)
Orphaned(u) == [r \in RunId |->
  IF runs[r].upload = u THEN [runs[r] EXCEPT !.upload = NoUpload] ELSE runs[r]]
DeleteBook(u) ==
  /\ book[u].status = "open" /\ ~UploadLocked(u)
  /\ book' = [book EXCEPT ![u] = [status |-> "deleted", pages |-> 0]]
  /\ runs' = Orphaned(u)
  /\ UNCHANGED <<words, sent, req, today>>

(* A run, alive or not, passes STALE_RUN_MINUTES.                          *)
Age(r) ==
  /\ Running(r) /\ ~runs[r].stale
  /\ runs' = [runs EXCEPT ![r].stale = TRUE]
  /\ UNCHANGED <<book, words, sent, req, today>>

Midnight ==
  /\ today < MaxDay
  /\ today' = today + 1
  /\ UNCHANGED <<book, runs, words, sent, req>>

Claim(q) ==
  \/ \E u \in Upload : \E from, to \in Ends \cup {Omitted} :
       \E lastDone \in DoneTo(u) \cup {0} : ResolveRange(q, u, from, to, lastDone)
  \/ CheckCap(q) \/ InsertRun(q)

Work(q) == Ocr(q) \/ Persist(q) \/ Throw(q) \/ SettleFailed(q)

Next ==
  \/ \E q \in Request : Claim(q) \/ Work(q) \/ Lost(q)
  \/ \E u \in Upload : DecodePage(u) \/ WipePages(u) \/ DeleteBook(u)
  \/ \E r \in RunId : Age(r)
  \/ Midnight

Spec == Init /\ [][Next]_vars

---------------------------------------------------------------------------
(* Safety                                                                  *)

(* "at most one pending/running extraction per upload": concurrent claims, *)
(* each of which may reap, never leave a book two live runs.               *)
OneLiveRun ==
  \A r, s \in RunId :
    Running(r) /\ Running(s) /\ runs[r].upload = runs[s].upload
      /\ runs[r].upload # NoUpload => r = s

(* The pages sent to the model on account of any day stay within the cap,  *)
(* whatever claims race, fail, are reaped or work around midnight.         *)
SentOn(d) == {c \in sent : runs[c[1]].day = d}
WithinPageCap == \A d \in Day : Cardinality(SentOn(d)) <= PageCap

(* "deleting and re-uploading a book never refunds budget": every page     *)
(* sent stays charged to the run that sent it.                             *)
SentPagesAreCharged == \A c \in sent : c[2] \in runs[c[1]].pages

(* The page budget of a day holds and is never refunded.                   *)
BudgetHolds == WithinPageCap /\ SentPagesAreCharged

(* "no half-tagged corpus, no done run whose rows vanished": words are     *)
(* stored only by a run that is settled done.                              *)
WordsFromDoneRuns == \A r \in words : runs[r].status = "done"

(* A book is read by one run at a time, and its words come from whole ones.*)
RunsAreSound == OneLiveRun /\ WordsFromDoneRuns

(* The first verdict on a run is final: a late persist, a retry of the     *)
(* settle or the reaper never changes it.                                  *)
SettledIsFinal ==
  [][\A r \in RunId :
       runs[r].status \in {"done", "failed"} => runs'[r].status = runs[r].status]_vars

---------------------------------------------------------------------------
(* The inductive invariant behind the safety properties.                   *)

UnusedIsBlank == \A r \in RunId : ~Exists(r) => runs[r] = NoRow

(* A claim has a range of an upload; a request at work holds the run row   *)
(* that is charged for its pages.                                          *)
RequestHolds ==
  \A q \in Request :
    /\ req[q].pc \in Claiming =>
         req[q].upload \in Upload /\ Cardinality(req[q].pages) \in 1..MaxPagesPerRun
    /\ req[q].pc \in Working =>
         req[q].run \in RunId /\ Exists(req[q].run) /\ req[q].pages = runs[req[q].run].pages

(* The advisory lock excludes, so a sum that leaves room still does.       *)
ChargedOn(d) ==
  {c \in RunId \X Page : runs[c[1]].day = d /\ c[2] \in runs[c[1]].pages}
OneCounted ==
  \A q, r \in Request : req[q].pc = "counted" /\ req[r].pc = "counted" => q = r
CountedFits ==
  \A q \in Request : req[q].pc = "counted" =>
    Cardinality(ChargedOn(req[q].day)) + Cardinality(req[q].pages) <= PageCap
ChargedWithinCap == \A d \in Day : Cardinality(ChargedOn(d)) <= PageCap

IInv ==
  /\ TypeOK /\ UnusedIsBlank /\ RequestHolds
  /\ OneLiveRun /\ WordsFromDoneRuns /\ SentPagesAreCharged
  /\ OneCounted /\ CountedFits /\ ChargedWithinCap

---------------------------------------------------------------------------
(* A statement of the repository that the code does not keep.              *)

(* "starting after the highest page a 'done' run reached, so a book is     *)
(* worked through": a request without a range leaves out no page of the    *)
(* book below it that no done run has covered.                             *)
ReachedBy(u) ==
  UNION {runs[r].pages : r \in {x \in RunId : runs[x].status = "done" /\ runs[x].upload = u}}
ResumeSkipsNoPage ==
  \A u \in Upload : \A n \in 1..book[u].pages :
    (\E m \in DoneTo(u) : n <= m) => n \in ReachedBy(u)
===========================================================================
