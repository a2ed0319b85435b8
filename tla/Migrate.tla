------------------------------ MODULE Migrate ------------------------------
(***************************************************************************)
(* db/migrate.py up: the versions of a checkout that are not recorded yet  *)
(* are applied in order, each with its record in one transaction.  Runners *)
(* take no lock: each reads the records once, and nothing but the key of   *)
(* the records keeps two from applying the same version.                   *)
(***************************************************************************)
EXTENDS Naturals, FiniteSetsExt

CONSTANTS
  Runner,       \* containers that run migrate.py
  Newest,       \* newest version there is; a release t ships 1..t (bound)
  Destructive   \* versions the gate refuses: their SQL drops or empties
                \* tables, or the file is marked so

ASSUME MigrateAssumption == Newest \in Nat \ {0} /\ Destructive \subseteq 1..Newest

VARIABLES
  recorded,   \* schema_migrations
  inEffect,   \* how often the body of a version is in effect
  runner      \* the runs of migrate.py

migrateVars == <<recorded, inEffect, runner>>

Version == 1..Newest
RunnerRow ==
  [pc : {"free", "read", "apply", "done", "failed"}, upto : 0..Newest, dry : BOOLEAN,
   pending : SUBSET Version]
NoRunnerRow == [pc |-> "free", upto |-> 0, dry |-> FALSE, pending |-> {}]

Runs(r, upto, dry) ==
  /\ runner[r].pc = "free"
  /\ runner' = [runner EXCEPT ![r] = [NoRunnerRow EXCEPT !.pc = "read", !.upto = upto, !.dry = dry]]

(* Mutant: nothing is gated.                                               *)
BlockedNever(pending) == FALSE
(* contains_destructive, without --allow-destructive.  What else running   *)
(* code may not survive, a dropped index, the gate lets pass.              *)
Blocked(pending) == pending \cap Destructive # {}

(* cmd_migrate: the plan; a dry run ends with it.                          *)
ReadRecords(r) ==
  LET pending == (1..runner[r].upto) \ recorded IN
  /\ runner[r].pc = "read"
  /\ runner' = [runner EXCEPT ![r].pending = pending,
       ![r].pc = CASE pending = {} -> "done"
                   [] pending # {} /\ runner[r].dry -> IF Blocked(pending) THEN "failed" ELSE "done"
                   [] OTHER -> "apply"]
  /\ UNCHANGED <<recorded, inEffect>>

(* Mutant: a version that is recorded already is not an error.             *)
AppliesUpsert(v) == TRUE
(* The record's key refuses a version that another runner has recorded.    *)
Applies(v) == v \notin recorded

FirstOf(pending) == Min(pending)

(* apply_one: body and record commit together, or the run ends here.       *)
ApplyOne(r) ==
  LET v == FirstOf(runner[r].pending) IN
  /\ runner[r].pc = "apply"
  /\ IF Applies(v) /\ ~Blocked({v})
     THEN /\ recorded' = recorded \cup {v}
          /\ inEffect' = [inEffect EXCEPT ![v] = @ + 1]
          /\ runner' = [runner EXCEPT ![r].pending = @ \ {v},
               ![r].pc = IF runner[r].pending = {v} THEN "done" ELSE "apply"]
     ELSE /\ runner' = [runner EXCEPT ![r].pc = "failed"]
          /\ UNCHANGED <<recorded, inEffect>>

(* The connection or a body fails.                                         *)
RunFails(r) ==
  /\ runner[r].pc \in {"read", "apply"}
  /\ runner' = [runner EXCEPT ![r].pc = "failed"]
  /\ UNCHANGED <<recorded, inEffect>>

(* A container that ended, or that nobody waits for any more, goes away.   *)
Gone(r) == runner' = [runner EXCEPT ![r] = NoRunnerRow]

MigrateTypeOK ==
  /\ recorded \subseteq Version
  /\ inEffect \in [Version -> 0..Newest]
  /\ runner \in [Runner -> RunnerRow]

MigrateInit(t) ==
  /\ recorded = 1..t
  /\ inEffect = [v \in Version |-> IF v <= t THEN 1 ELSE 0]
  /\ runner = [r \in Runner |-> NoRunnerRow]

MigrateNext == \E r \in Runner : ReadRecords(r) \/ ApplyOne(r) \/ RunFails(r)

---------------------------------------------------------------------------
(* Whatever runners do at once, a version is applied once, and is recorded *)
(* exactly when it is in effect.                                           *)
AppliedOnce == \A v \in Version : inEffect[v] = IF v \in recorded THEN 1 ELSE 0

(* A version is never in effect without those before it, though plans are  *)
(* made from records that other runners go on to change.                   *)
AppliedInOrder == \A v \in recorded : 1..v \subseteq recorded

(* The schema is what the list of migrations makes it, up to some version. *)
AppliedAsListed == AppliedOnce /\ AppliedInOrder

---------------------------------------------------------------------------
(* The inductive invariant behind it.  What a plan leaves out is recorded, *)
(* now as when it was made; a run that is done has left nothing out.       *)
PlansHold ==
  \A r \in Runner :
    LET all == 1..runner[r].upto
        pending == runner[r].pending
    IN
    /\ runner[r].pc = "apply" =>
         pending # {} /\ pending \subseteq all /\ all \ pending \subseteq recorded
    /\ runner[r].pc = "done" /\ ~runner[r].dry => all \subseteq recorded

MigrateIInv == MigrateTypeOK /\ AppliedAsListed /\ PlansHold
=============================================================================
