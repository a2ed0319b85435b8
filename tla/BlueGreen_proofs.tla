-------------------------- MODULE BlueGreen_proofs --------------------------
(***************************************************************************)
(* Proofs about BlueGreen and Migrate, for every list of migrations, every *)
(* choice of the destructive ones and of the releases, and every number of *)
(* containers that migrate.                                                *)
(***************************************************************************)
EXTENDS BlueGreen, WellFoundedInduction, TLAPS

(* Every nonempty set of natural numbers has a least element.              *)
LEMMA LeastExists ==
  ASSUME NEW S, S \subseteq Nat, S # {}
  PROVE  \E o \in S : \A p \in S : o <= p
<1>1. PICK o \in S : \A p \in S : <<p, o>> \notin OpToRel(<, Nat)
  BY WFMin, NatLessThanWellFounded, Zenon
<1>2. \A p \in S : ~ (p < o)
  BY <1>1, Zenon DEF OpToRel
<1>3. \A p \in S : o <= p
  BY <1>2
<1> QED BY <1>3, Zenon

LEMMA FirstIsFirst ==
  ASSUME NEW S, S \subseteq Version, S # {}
  PROVE  FirstOf(S) \in S /\ \A v \in S : FirstOf(S) <= v
<1>1. S \subseteq Nat
  BY DEF Version
<1>2. \E o \in S : \A p \in S : o <= p
  BY <1>1, LeastExists
<1> QED BY <1>2 DEF FirstOf, Min

---------------------------------------------------------------------------
(* What the invariant of Migrate says of a run of migrate.py.              *)
RunHolds(row, done) ==
  /\ row \in RunnerRow
  /\ row.pc = "apply" =>
       /\ row.pending # {} /\ row.pending \subseteq 1..row.upto
       /\ 1..row.upto \ row.pending \subseteq done
  /\ row.pc = "done" /\ ~row.dry => 1..row.upto \subseteq done

Schema ==
  /\ recorded \subseteq Version
  /\ inEffect \in [Version -> 0..Newest]
  /\ AppliedAsListed

RunsHold == runner \in [Runner -> RunnerRow] /\ \A r \in Runner : RunHolds(runner[r], recorded)

LEMMA MigrateIInvIs == MigrateIInv <=> Schema /\ RunsHold
BY DEF MigrateIInv, MigrateTypeOK, PlansHold, Schema, RunsHold, RunHolds

(* The records only grow, and what holds of a run goes on to hold.         *)
LEMMA OneRun ==
  ASSUME RunsHold, NEW r \in Runner, NEW row, recorded \subseteq recorded',
         RunHolds(row, recorded'), runner' = [runner EXCEPT ![r] = row]
  PROVE  RunsHold'
BY DEF RunsHold, RunHolds

LEMMA NoRun == NoRunnerRow \in RunnerRow /\ NoRunnerRow.pc = "free"
BY MigrateAssumption DEF NoRunnerRow, RunnerRow, Version

LEMMA GoneKeeps ==
  ASSUME MigrateIInv, NEW r \in Runner, Gone(r), UNCHANGED <<recorded, inEffect>>
  PROVE  MigrateIInv'
<1>1. RunHolds(NoRunnerRow, recorded')
  BY NoRun DEF RunHolds
<1>2. RunsHold'
  BY <1>1, MigrateIInvIs, OneRun DEF Gone
<1>3. Schema'
  BY MigrateIInvIs DEF Schema, AppliedAsListed, AppliedOnce, AppliedInOrder
<1> QED BY <1>2, <1>3 DEF MigrateIInv, MigrateTypeOK, PlansHold, Schema, RunsHold, RunHolds

LEMMA ReadKeeps ==
  ASSUME MigrateIInv, NEW r \in Runner, ReadRecords(r)
  PROVE  MigrateIInv'
<1> DEFINE pending == (1..runner[r].upto) \ recorded
           pc == CASE pending = {} -> "done"
                   [] pending # {} /\ runner[r].dry -> IF Blocked(pending) THEN "failed" ELSE "done"
                   [] OTHER -> "apply"
           row == [runner[r] EXCEPT !.pending = pending, !.pc = pc]
<1>1. runner \in [Runner -> RunnerRow] /\ runner[r] \in RunnerRow
  BY DEF MigrateIInv, MigrateTypeOK
<1>2. pending \in SUBSET Version
  BY <1>1, MigrateAssumption DEF RunnerRow, Version
<1>3. /\ pc \in {"done", "failed", "apply"}
      /\ pc = "apply" => pending # {}
      /\ pc = "done" /\ ~runner[r].dry => pending = {}
  BY <1>1 DEF RunnerRow
<1>4. /\ runner' = [runner EXCEPT ![r] = row]
      /\ UNCHANGED <<recorded, inEffect>>
  BY <1>1 DEF ReadRecords
<1>5. row.upto = runner[r].upto /\ row.dry = runner[r].dry /\ row.pending = pending /\ row.pc = pc
  BY <1>1 DEF RunnerRow
<1>6. row \in RunnerRow
  <2> HIDE DEF pc, pending
  <2> QED BY <1>1, <1>2, <1>3 DEF RunnerRow
<1>7. RunHolds(row, recorded')
  <2> HIDE DEF pc, row
  <2> QED BY <1>3, <1>4, <1>5, <1>6 DEF RunHolds
<1> HIDE DEF row
<1>8. RunsHold'
  BY <1>4, <1>7, MigrateIInvIs, OneRun
<1>9. Schema'
  BY <1>4, MigrateIInvIs DEF Schema, AppliedAsListed, AppliedOnce, AppliedInOrder
<1> QED BY <1>8, <1>9 DEF MigrateIInv, MigrateTypeOK, PlansHold, Schema, RunsHold, RunHolds

LEMMA FailKeeps ==
  ASSUME MigrateIInv, NEW r \in Runner, runner' = [runner EXCEPT ![r].pc = "failed"],
         UNCHANGED <<recorded, inEffect>>
  PROVE  MigrateIInv'
<1> DEFINE row == [runner[r] EXCEPT !.pc = "failed"]
<1>1. runner \in [Runner -> RunnerRow] /\ runner[r] \in RunnerRow
  BY DEF MigrateIInv, MigrateTypeOK
<1>2. RunHolds(row, recorded')
  BY <1>1 DEF RunHolds, RunnerRow
<1>3. runner' = [runner EXCEPT ![r] = row]
  BY <1>1
<1> HIDE DEF row
<1>4. RunsHold'
  BY <1>2, <1>3, MigrateIInvIs, OneRun
<1>5. Schema'
  BY MigrateIInvIs DEF Schema, AppliedAsListed, AppliedOnce, AppliedInOrder
<1> QED BY <1>4, <1>5 DEF MigrateIInv, MigrateTypeOK, PlansHold, Schema, RunsHold, RunHolds

(* The first version of a plan is not recorded, or recorded by another     *)
(* run; all before it are.                                                 *)
LEMMA ApplyKeeps ==
  ASSUME MigrateIInv, NEW r \in Runner, ApplyOne(r),
         Applies(FirstOf(runner[r].pending)), ~Blocked({FirstOf(runner[r].pending)})
  PROVE  MigrateIInv'
<1> DEFINE v == FirstOf(runner[r].pending)
           pc == IF runner[r].pending = {v} THEN "done" ELSE "apply"
           row == [runner[r] EXCEPT !.pending = @ \ {v}, !.pc = pc]
<1>1. /\ runner \in [Runner -> RunnerRow] /\ runner[r] \in RunnerRow
      /\ RunHolds(runner[r], recorded) /\ runner[r].pc = "apply"
      /\ runner[r].pending \subseteq Version
  BY DEF MigrateIInv, MigrateTypeOK, PlansHold, RunHolds, ApplyOne, RunnerRow
<1>2. v \in runner[r].pending /\ v \in Version /\ \A w \in runner[r].pending : v <= w
  BY <1>1, FirstIsFirst DEF RunHolds
<1>3. /\ recorded' = recorded \cup {v} /\ v \notin recorded
      /\ inEffect' = [inEffect EXCEPT ![v] = @ + 1]
      /\ runner' = [runner EXCEPT ![r] = row]
  BY <1>1 DEF ApplyOne, Applies
<1>4. /\ row \in RunnerRow /\ row.pc = pc /\ row.upto = runner[r].upto
      /\ row.pending = runner[r].pending \ {v} /\ row.dry = runner[r].dry
  BY <1>1 DEF RunnerRow
<1>5. RunHolds(row, recorded')
  <2>1. 1..row.upto \ row.pending \subseteq recorded'
    BY <1>1, <1>3, <1>4 DEF RunHolds
  <2>2. row.pending \subseteq 1..row.upto
    BY <1>1, <1>4 DEF RunHolds
  <2>3. CASE runner[r].pending = {v}
    BY <1>4, <2>1, <2>2, <2>3 DEF RunHolds
  <2>4. CASE runner[r].pending # {v}
    BY <1>2, <1>4, <2>1, <2>2, <2>4 DEF RunHolds
  <2> QED BY <2>3, <2>4
<1> HIDE DEF row
<1>6. RunsHold'
  BY <1>3, <1>5, MigrateIInvIs, OneRun
<1>7. AppliedOnce' /\ recorded' \subseteq Version /\ inEffect' \in [Version -> 0..Newest]
  <2>1. /\ AppliedOnce /\ recorded \subseteq Version /\ inEffect \in [Version -> 0..Newest]
        /\ 1 \in 0..Newest
    BY MigrateAssumption DEF MigrateIInv, MigrateTypeOK, AppliedAsListed
  <2>2. inEffect[v] = 0 /\ inEffect'[v] = 1
    BY <1>2, <1>3, <2>1 DEF AppliedOnce
  <2> QED BY <1>2, <1>3, <2>1, <2>2 DEF AppliedOnce
<1>8. AppliedInOrder'
  <2>1. AppliedInOrder
    BY DEF MigrateIInv, AppliedAsListed
  <2>2. runner[r].upto \in Nat /\ v \in 1..runner[r].upto /\ v \in Nat
    BY <1>1, <1>2, MigrateAssumption DEF RunHolds, RunnerRow
  <2>3. \A w \in 1..v : w # v => w \in recorded
    <3> SUFFICES ASSUME NEW w \in 1..v, w # v PROVE w \in recorded
      OBVIOUS
    <3>1. w \in 1..runner[r].upto /\ w < v
      BY <2>2
    <3>2. w \notin runner[r].pending
      BY <1>2, <2>2, <3>1
    <3> QED BY <1>1, <3>1, <3>2 DEF RunHolds
  <2> QED BY <1>3, <2>1, <2>3 DEF AppliedInOrder
<1> QED BY <1>6, <1>7, <1>8
    DEF MigrateIInv, MigrateTypeOK, AppliedAsListed, PlansHold, RunsHold, RunHolds

(* What the scripts may rely on, whatever the containers do.               *)
Grows ==
  /\ recorded \subseteq recorded'
  /\ recorded' \cap Destructive = recorded \cap Destructive

LEMMA MigrateKeeps ==
  ASSUME MigrateIInv, MigrateNext
  PROVE  /\ MigrateIInv' /\ Grows
         /\ \A r \in Runner : runner'[r].upto = runner[r].upto
<1>1. PICK r \in Runner : ReadRecords(r) \/ ApplyOne(r) \/ RunFails(r)
  BY DEF MigrateNext
<1>2. runner \in [Runner -> RunnerRow]
  BY DEF MigrateIInv, MigrateTypeOK
<1>3. \A q \in Runner : runner'[q].upto = runner[q].upto
  BY <1>1, <1>2 DEF ReadRecords, ApplyOne, RunFails, RunnerRow
<1>4. CASE ReadRecords(r)
  BY <1>3, <1>4, ReadKeeps DEF ReadRecords, Grows
<1>5. CASE RunFails(r)
  BY <1>3, <1>5, FailKeeps DEF RunFails, Grows
<1>6. CASE ApplyOne(r) /\ Applies(FirstOf(runner[r].pending)) /\ ~Blocked({FirstOf(runner[r].pending)})
  <2>1. recorded' = recorded \cup {FirstOf(runner[r].pending)}
    BY <1>6 DEF ApplyOne
  <2> QED BY <1>3, <1>6, <2>1, ApplyKeeps DEF Grows, Blocked
<1>7. CASE ApplyOne(r) /\ ~(Applies(FirstOf(runner[r].pending)) /\ ~Blocked({FirstOf(runner[r].pending)}))
  BY <1>3, <1>7, FailKeeps DEF ApplyOne, Grows
<1> QED BY <1>1, <1>4, <1>5, <1>6, <1>7

---------------------------------------------------------------------------
(* What the invariant says of the scripts.                                 *)
ReleaseTypes ==
  /\ env \in Colour /\ conf \in Colour /\ queues \in Colour
  /\ lb \in Colour \cup {"down"}
  /\ tag \in [Colour -> 0..Newest] /\ up \in [Colour -> 0..Newest]
  /\ script \in Script
  /\ settled \in BOOLEAN

ReleaseHolds ==
  /\ ReleaseTypes /\ BuildsAreApplied
  /\ DeployKnows /\ SwitchKnows /\ RebuildKnows /\ RecreatesUnsettled /\ RoutesAgree

LEMMA IInvIs == IInv <=> MigrateIInv /\ ReleaseHolds
BY DEF IInv, TypeOK, MigrateIInv, ReleaseHolds, ReleaseTypes

LEMMA MigrateStays ==
  ASSUME MigrateIInv, UNCHANGED migrateVars
  PROVE  MigrateIInv'
BY DEF MigrateIInv, MigrateTypeOK, AppliedAsListed, AppliedOnce, AppliedInOrder, PlansHold,
       migrateVars

LEMMA NoScriptIs == NoScript \in Script /\ NoScript.kind = "none" /\ NoScript.pc = "ended"
BY MigrateAssumption DEF NoScript, Script, Colour

LEMMA OthersAre == \A c \in Colour : Other(c) \in Colour /\ Other(c) # c
BY DEF Colour, Other

(* The scripts go on at pc.                                                *)
LEMMA ScriptGoes ==
  ASSUME script \in Script, NEW next, Goto(next),
         next \in {"ended", "check", "dry", "migrate", "save_tag", "compose", "probe_staged",
                   "recheck", "cp", "recreate", "probe", "undo_cp", "undo_recreate", "save_env",
                   "save_file", "shared", "colour"}
  PROVE  /\ script' \in Script /\ script'.pc = next /\ script'.kind = script.kind
         /\ script'.from = script.from /\ script'.to = script.to
         /\ script'.release = script.release /\ script'.runner = script.runner
BY DEF Goto, Script

(* A script starts with what load_environment reads.                       *)
LEMMA ScriptLoads ==
  ASSUME env \in Colour, NEW kind \in {"deploy", "switch", "rebuild"},
         NEW pc \in {"check", "shared"}, NEW release \in 0..Newest, Loads(kind, pc, release)
  PROVE  /\ script' \in Script /\ script'.pc = pc /\ script'.kind = kind
         /\ script'.from = env /\ script'.to = Other(env) /\ script'.release = release
<1> DEFINE row == [NoScript EXCEPT !.kind = kind, !.pc = pc, !.release = release,
                                   !.from = env, !.to = Other(env)]
<1>1. row \in Script
  BY NoScriptIs, OthersAre DEF Script
<1>2. row.pc = pc /\ row.kind = kind /\ row.from = env /\ row.to = Other(env) /\ row.release = release
  BY NoScriptIs DEF Script
<1> QED BY <1>1, <1>2 DEF Loads

(* The end of a script that has settled nothing leaves nothing to know.    *)
LEMMA EndsHolds ==
  ASSUME ReleaseHolds, Ends, lb' = lb \/ ~settled, lb' \in {lb, "down"},
         UNCHANGED <<recorded, env, tag, conf, queues, settled>>,
         up' \in [Colour -> 0..Newest], \A c \in Colour : 1..up'[c] \subseteq recorded
  PROVE  ReleaseHolds'
BY NoScriptIs
   DEF ReleaseHolds, ReleaseTypes, Ends, BuildsAreApplied, DeployKnows, SwitchKnows, RebuildKnows,
       RecreatesUnsettled, RoutesAgree

LEMMA SwitchHolds ==
  ASSUME ReleaseHolds, UNCHANGED migrateVars, SwitchStep
  PROVE  ReleaseHolds'
<1>1. script \in Script /\ UNCHANGED recorded
  BY DEF ReleaseHolds, ReleaseTypes, migrateVars
<1>2. CASE SwitchChecks
  <2>1. CASE Ends
    BY <1>1, <1>2, <2>1, EndsHolds DEF SwitchChecks, ReleaseHolds, ReleaseTypes, BuildsAreApplied
  <2>2. CASE Goto("probe_staged")
    BY <1>1, <1>2, <2>2, ScriptGoes
       DEF SwitchChecks, At, ReleaseHolds, ReleaseTypes, BuildsAreApplied, DeployKnows, SwitchKnows,
           RebuildKnows, RecreatesUnsettled, RoutesAgree
  <2> QED BY <1>2, <2>1, <2>2 DEF SwitchChecks
<1>3. CASE SwitchProbesStaged
  <2>1. CASE Ends
    BY <1>1, <1>3, <2>1, EndsHolds DEF SwitchProbesStaged, ReleaseHolds, ReleaseTypes, BuildsAreApplied
  <2>2. CASE Goto("cp")
    BY <1>1, <1>3, <2>2, ScriptGoes
       DEF SwitchProbesStaged, At, ReleaseHolds, ReleaseTypes, BuildsAreApplied, DeployKnows,
           SwitchKnows, RebuildKnows, RecreatesUnsettled, RoutesAgree
  <2> QED BY <1>3, <2>1, <2>2 DEF SwitchProbesStaged
<1>4. CASE SwitchFlips
  <2>1. CASE At("switch", "cp") /\ Writes(script.to, "recreate")
    BY <1>1, <2>1, ScriptGoes
       DEF Writes, At, Script, ReleaseHolds, ReleaseTypes, BuildsAreApplied, DeployKnows,
           SwitchKnows, RebuildKnows, RecreatesUnsettled, RoutesAgree
  <2>2. CASE At("switch", "recreate") /\ Recreates("probe")
    BY <1>1, <2>2, ScriptGoes
       DEF Recreates, At, ReleaseHolds, ReleaseTypes, BuildsAreApplied, DeployKnows,
           SwitchKnows, RebuildKnows, RecreatesUnsettled, RoutesAgree
  <2> QED BY <1>4, <2>1, <2>2 DEF SwitchFlips
<1>5. CASE SwitchProbes
  BY <1>1, <1>5, ScriptGoes
     DEF SwitchProbes, Answers, Production, At, ReleaseHolds, ReleaseTypes, BuildsAreApplied,
         DeployKnows, SwitchKnows, RebuildKnows, RecreatesUnsettled, RoutesAgree
<1>6. CASE SwitchUndoes
  <2>1. CASE At("switch", "undo_cp") /\ Writes(Prior, "undo_recreate")
    BY <1>1, <2>1, ScriptGoes
       DEF Writes, Prior, At, Script, ReleaseHolds, ReleaseTypes, BuildsAreApplied, DeployKnows,
           SwitchKnows, RebuildKnows, RecreatesUnsettled, RoutesAgree
  <2>2. CASE /\ At("switch", "undo_recreate") /\ lb' = conf /\ settled' = TRUE /\ Ends
             /\ UNCHANGED <<migrateVars, env, tag, conf, queues, up>>
    BY <1>1, <2>2, NoScriptIs
       DEF At, Ends, ReleaseHolds, ReleaseTypes, BuildsAreApplied, DeployKnows,
           SwitchKnows, RebuildKnows, RecreatesUnsettled, RoutesAgree
  <2> QED BY <1>6, <2>1, <2>2 DEF SwitchUndoes
<1>7. CASE SwitchRecords
  <2>1. CASE /\ At("switch", "save_env") /\ env' = script.to /\ Goto("save_file")
             /\ UNCHANGED <<migrateVars, tag, conf, lb, queues, up, settled>>
    BY <1>1, <2>1, ScriptGoes
       DEF At, Script, ReleaseHolds, ReleaseTypes, BuildsAreApplied, DeployKnows,
           SwitchKnows, RebuildKnows, RecreatesUnsettled, RoutesAgree
  <2>2. CASE /\ At("switch", "save_file") /\ queues' = script.to /\ Ends
             /\ settled' = TRUE
             /\ UNCHANGED <<migrateVars, env, tag, conf, lb, up>>
    BY <1>1, <2>2, NoScriptIs
       DEF At, Ends, Script, ReleaseHolds, ReleaseTypes, BuildsAreApplied, DeployKnows,
           SwitchKnows, RebuildKnows, RecreatesUnsettled, RoutesAgree
  <2> QED BY <1>7, <2>1, <2>2 DEF SwitchRecords
<1> QED BY <1>2, <1>3, <1>4, <1>5, <1>6, <1>7 DEF SwitchStep

LEMMA RebuildHolds ==
  ASSUME ReleaseHolds, UNCHANGED migrateVars, RebuildStep
  PROVE  ReleaseHolds'
<1>1. script \in Script /\ UNCHANGED recorded
  BY DEF ReleaseHolds, ReleaseTypes, migrateVars
<1>2. CASE RebuildSharedUp
  BY <1>1, <1>2, ScriptGoes
     DEF RebuildSharedUp, SharedUp, At, ReleaseHolds, ReleaseTypes, BuildsAreApplied, DeployKnows,
           SwitchKnows, RebuildKnows, RecreatesUnsettled, RoutesAgree
<1>3. CASE RebuildColourUp
  <2>1. /\ up' \in [Colour -> 0..Newest] /\ \A c \in Colour : 1..up'[c] \subseteq recorded
        /\ UNCHANGED <<recorded, env, tag, conf, lb, queues, settled>>
    <3>1. \E n \in 0..Newest : 1..n \subseteq recorded /\ (UNCHANGED up \/ up' = [up EXCEPT ![script.from] = n])
      <4>1. 0 \in 0..Newest /\ 1..0 = {}
        BY MigrateAssumption
      <4>2. tag[script.from] \in 0..Newest /\ 1..tag[script.from] \subseteq recorded
        BY <1>1 DEF ReleaseHolds, ReleaseTypes, BuildsAreApplied, Script
      <4>3. \/ up' = [up EXCEPT ![script.from] = tag[script.from]]
            \/ up' = [up EXCEPT ![script.from] = 0] \/ UNCHANGED up
        BY <1>3 DEF RebuildColourUp, ComposeFails
      <4> QED BY <4>1, <4>2, <4>3
    <3>2. up \in [Colour -> 0..Newest] /\ \A c \in Colour : 1..up[c] \subseteq recorded
      BY DEF ReleaseHolds, ReleaseTypes, BuildsAreApplied
    <3> QED BY <1>1, <1>3, <3>1, <3>2 DEF RebuildColourUp
  <2>2. CASE Ends
    BY <2>1, <2>2, EndsHolds DEF ReleaseHolds, ReleaseTypes
  <2>3. CASE Goto("cp")
    BY <1>1, <1>3, <2>1, <2>3, ScriptGoes
       DEF RebuildColourUp, At, ReleaseHolds, ReleaseTypes, BuildsAreApplied, DeployKnows,
           SwitchKnows, RebuildKnows, RecreatesUnsettled, RoutesAgree
  <2> QED BY <1>3, <2>2, <2>3 DEF RebuildColourUp, ComposeFails
<1>4. CASE RebuildRoutes
  <2>1. CASE At("rebuild", "cp") /\ Writes(script.from, "recreate")
    BY <1>1, <2>1, ScriptGoes
       DEF Writes, At, Script, ReleaseHolds, ReleaseTypes, BuildsAreApplied, DeployKnows,
           SwitchKnows, RebuildKnows, RecreatesUnsettled, RoutesAgree
  <2>2. CASE /\ At("rebuild", "recreate") /\ lb' = conf /\ settled' = TRUE /\ Ends
             /\ UNCHANGED <<migrateVars, env, tag, conf, queues, up>>
    BY <1>1, <2>2, NoScriptIs
       DEF At, Ends, ReleaseHolds, ReleaseTypes, BuildsAreApplied, DeployKnows,
           SwitchKnows, RebuildKnows, RecreatesUnsettled, RoutesAgree
  <2> QED BY <1>4, <2>1, <2>2 DEF RebuildRoutes
<1> QED BY <1>2, <1>3, <1>4 DEF RebuildStep

(* The steps of a deploy but for those of its runner.                      *)
LEMMA DeployHolds ==
  ASSUME ReleaseHolds, UNCHANGED migrateVars,
         DeployChecks \/ DeploySavesTag \/ DeployComposes \/ DeployProbes
  PROVE  ReleaseHolds'
<1>1. script \in Script /\ UNCHANGED recorded
  BY DEF ReleaseHolds, ReleaseTypes, migrateVars
<1>2. CASE DeployChecks
  <2>1. CASE Ends
    BY <1>1, <1>2, <2>1, EndsHolds DEF DeployChecks, ReleaseHolds, ReleaseTypes, BuildsAreApplied
  <2>2. CASE Confirmed /\ script' = [script EXCEPT !.pc = "dry", !.to = Target]
    <3>1. /\ script' \in Script /\ script'.pc = "dry" /\ script'.kind = "deploy"
          /\ script'.to = script.to
      BY <1>1, <1>2, <2>2 DEF DeployChecks, At, Target, Script
    <3> QED BY <1>1, <1>2, <2>2, <3>1
       DEF DeployChecks, Confirmed, At, ReleaseHolds, ReleaseTypes, BuildsAreApplied, DeployKnows,
           SwitchKnows, RebuildKnows, RecreatesUnsettled, RoutesAgree
  <2> QED BY <1>2, <2>1, <2>2 DEF DeployChecks
<1>3. CASE DeploySavesTag
  <2>1. tag' \in [Colour -> 0..Newest] /\ \A c \in Colour : 1..tag'[c] \subseteq recorded
    BY <1>1, <1>3 DEF DeploySavesTag, At, Script, ReleaseHolds, ReleaseTypes, BuildsAreApplied,
                      DeployKnows
  <2> QED BY <1>1, <1>3, <2>1, ScriptGoes
     DEF DeploySavesTag, At, ReleaseHolds, ReleaseTypes, BuildsAreApplied, DeployKnows,
           SwitchKnows, RebuildKnows, RecreatesUnsettled, RoutesAgree
<1>4. CASE DeployComposes
  <2>1. /\ up' \in [Colour -> 0..Newest] /\ \A c \in Colour : 1..up'[c] \subseteq recorded
        /\ UNCHANGED <<recorded, env, tag, conf, lb, queues, settled>>
    <3>1. \E n \in 0..Newest : 1..n \subseteq recorded /\ (UNCHANGED up \/ up' = [up EXCEPT ![script.to] = n])
      <4>1. 0 \in 0..Newest /\ 1..0 = {}
        BY MigrateAssumption
      <4>2. script.release \in 0..Newest /\ 1..script.release \subseteq recorded
        BY <1>1, <1>4 DEF DeployComposes, At, ReleaseHolds, DeployKnows, Script
      <4>3. \/ up' = [up EXCEPT ![script.to] = script.release]
            \/ up' = [up EXCEPT ![script.to] = 0] \/ UNCHANGED up
        BY <1>4 DEF DeployComposes, ComposeFails
      <4> QED BY <4>1, <4>2, <4>3
    <3>2. up \in [Colour -> 0..Newest] /\ \A c \in Colour : 1..up[c] \subseteq recorded
      BY DEF ReleaseHolds, ReleaseTypes, BuildsAreApplied
    <3> QED BY <1>1, <1>4, <3>1, <3>2 DEF DeployComposes
  <2>2. CASE Ends
    BY <2>1, <2>2, EndsHolds DEF ReleaseHolds, ReleaseTypes
  <2>3. CASE Goto("probe_staged")
    BY <1>1, <1>4, <2>1, <2>3, ScriptGoes
       DEF DeployComposes, At, ReleaseHolds, ReleaseTypes, BuildsAreApplied, DeployKnows,
           SwitchKnows, RebuildKnows, RecreatesUnsettled, RoutesAgree
  <2> QED BY <1>4, <2>2, <2>3 DEF DeployComposes, ComposeFails
<1>5. CASE DeployProbes
  BY <1>1, <1>5, EndsHolds DEF DeployProbes, ReleaseHolds, ReleaseTypes, BuildsAreApplied
<1> QED BY <1>2, <1>3, <1>4, <1>5

LEMMA PlansHolds ==
  ASSUME MigrateIInv, ReleaseHolds, DeployPlans
  PROVE  MigrateIInv' /\ ReleaseHolds'
<1>1. PICK r \in Runner :
        /\ Runs(r, script.release, TRUE)
        /\ script' = [script EXCEPT !.runner = r, !.pc = "migrate"]
        /\ UNCHANGED <<recorded, inEffect>>
  BY DEF DeployPlans, StartsRunner
<1> DEFINE row == [NoRunnerRow EXCEPT !.pc = "read", !.upto = script.release, !.dry = TRUE]
<1>2. script \in Script /\ script.release \in 0..Newest /\ runner \in [Runner -> RunnerRow]
  BY DEF ReleaseHolds, ReleaseTypes, Script, MigrateIInv, MigrateTypeOK
<1>3. row \in RunnerRow /\ row.pc = "read" /\ row.upto = script.release
  BY <1>2, NoRun DEF RunnerRow
<1>4. runner' = [runner EXCEPT ![r] = row]
  BY <1>1 DEF Runs
<1> HIDE DEF row
<1>5. RunsHold'
  BY <1>1, <1>3, <1>4, MigrateIInvIs, OneRun DEF RunHolds
<1>6. Schema'
  BY <1>1, MigrateIInvIs DEF Schema, AppliedAsListed, AppliedOnce, AppliedInOrder
<1>7. MigrateIInv'
  BY <1>5, <1>6 DEF MigrateIInv, MigrateTypeOK, PlansHold, Schema, RunsHold, RunHolds
<1>8. runner'[r].upto = script.release
  BY <1>2, <1>3, <1>4
<1>9. /\ script' \in Script /\ script'.pc = "migrate" /\ script'.kind = "deploy"
      /\ script'.runner = r /\ script'.to = script.to /\ script'.release = script.release
  BY <1>1, <1>2 DEF DeployPlans, At, Script
<1>10. ReleaseHolds'
  BY <1>1, <1>8, <1>9
     DEF DeployPlans, At, ReleaseHolds, ReleaseTypes, BuildsAreApplied, DeployKnows,
           SwitchKnows, RebuildKnows, RecreatesUnsettled, RoutesAgree
<1> QED BY <1>7, <1>10

LEMMA MigratesHolds ==
  ASSUME MigrateIInv, ReleaseHolds, DeployMigrates
  PROVE  MigrateIInv' /\ ReleaseHolds'
<1> DEFINE r == script.runner
<1>1. /\ script \in Script /\ script.release \in 0..Newest /\ runner \in [Runner -> RunnerRow]
      /\ r \in Runner /\ runner[r].upto = script.release
      /\ At("deploy", "migrate")
  BY DEF ReleaseHolds, ReleaseTypes, Script, MigrateIInv, MigrateTypeOK, DeployMigrates, DeployKnows, At
<1>2. UNCHANGED <<env, tag, conf, lb, queues, up, settled>>
  BY DEF DeployMigrates
<1>3. CASE /\ UNCHANGED <<recorded, inEffect>>
           /\ runner' = [runner EXCEPT ![r] =
                [NoRunnerRow EXCEPT !.pc = "read", !.upto = script.release]]
           /\ UNCHANGED script
  <2> DEFINE row == [NoRunnerRow EXCEPT !.pc = "read", !.upto = script.release]
  <2>1. row \in RunnerRow /\ row.pc = "read" /\ row.upto = script.release
    BY <1>1, NoRun DEF RunnerRow
  <2>2. runner' = [runner EXCEPT ![r] = row]
    BY <1>3
  <2> HIDE DEF row
  <2>3. RunsHold'
    BY <1>1, <1>3, <2>1, <2>2, MigrateIInvIs, OneRun DEF RunHolds
  <2>4. Schema'
    BY <1>3, MigrateIInvIs DEF Schema, AppliedAsListed, AppliedOnce, AppliedInOrder
  <2>5. runner'[r].upto = script.release
    BY <1>1, <2>1, <2>2
  <2>6. ReleaseHolds'
    BY <1>1, <1>2, <1>3, <2>5
       DEF At, ReleaseHolds, ReleaseTypes, BuildsAreApplied, DeployKnows,
           SwitchKnows, RebuildKnows, RecreatesUnsettled, RoutesAgree
  <2> QED BY <2>3, <2>4, <2>6 DEF MigrateIInv, MigrateTypeOK, PlansHold, Schema, RunsHold, RunHolds
<1>4. CASE /\ runner[r].pc = "done" /\ ~runner[r].dry /\ Gone(r)
           /\ UNCHANGED <<recorded, inEffect>>
           /\ script' = [script EXCEPT !.pc = "save_tag", !.runner = "none"]
  <2>1. MigrateIInv'
    BY <1>1, <1>4, GoneKeeps
  <2>2. 1..script.release \subseteq recorded
    BY <1>1, <1>4 DEF MigrateIInv, PlansHold
  <2>3. /\ script' \in Script /\ script'.pc = "save_tag" /\ script'.kind = "deploy"
        /\ script'.to = script.to /\ script'.release = script.release
    BY <1>1, <1>4 DEF At, Script
  <2>4. ReleaseHolds'
    BY <1>1, <1>2, <1>4, <2>2, <2>3
       DEF At, ReleaseHolds, ReleaseTypes, BuildsAreApplied, DeployKnows,
           SwitchKnows, RebuildKnows, RecreatesUnsettled, RoutesAgree
  <2> QED BY <2>1, <2>4
<1>5. CASE runner[r].pc = "failed" /\ Gone(r) /\ Ends /\ UNCHANGED <<recorded, inEffect>>
  <2>1. MigrateIInv'
    BY <1>1, <1>5, GoneKeeps
  <2> QED BY <1>2, <1>5, <2>1, EndsHolds DEF ReleaseHolds, ReleaseTypes, BuildsAreApplied
<1> QED BY <1>3, <1>4, <1>5 DEF DeployMigrates

LEMMA StartsHolds ==
  ASSUME ReleaseHolds, UNCHANGED migrateVars,
         Rebuild \/ \E t \in Release : Deploy(t) \/ Switch(t)
  PROVE  ReleaseHolds'
<1>1. /\ script \in Script /\ UNCHANGED recorded /\ 0 \in 0..Newest /\ Release \subseteq 0..Newest
      /\ env \in Colour /\ up \in [Colour -> 0..Newest]
  BY MigrateAssumption, BlueGreenAssumption DEF ReleaseHolds, ReleaseTypes, migrateVars, Version
<1>2. ASSUME NEW t \in Release, Deploy(t) PROVE ReleaseHolds'
  <2>1. Loads("deploy", "check", t) /\ script.kind = "none"
    BY <1>2 DEF Deploy, Loads
  <2>2. /\ script' \in Script /\ script'.pc = "check" /\ script'.kind = "deploy"
        /\ script'.to = Other(env)
    BY <1>1, <2>1, ScriptLoads
  <2> QED BY <1>1, <1>2, <2>2
     DEF Deploy, SharedUp, ReleaseHolds, ReleaseTypes, BuildsAreApplied, DeployKnows,
         SwitchKnows, RebuildKnows, RecreatesUnsettled, RoutesAgree
<1>3. ASSUME NEW t \in Release, Switch(t) PROVE ReleaseHolds'
  <2>1. Loads("switch", "check", t)
    BY <1>3 DEF Switch
  <2>2. /\ script' \in Script /\ script'.pc = "check" /\ script'.kind = "switch"
        /\ script'.from = env /\ script'.to = Other(env)
    BY <1>1, <2>1, ScriptLoads
  <2>3. script'.from # script'.to
    BY <1>1, <2>2, OthersAre
  <2> QED BY <1>1, <1>3, <2>2, <2>3
     DEF Switch, ReleaseHolds, ReleaseTypes, BuildsAreApplied, DeployKnows,
         SwitchKnows, RebuildKnows, RecreatesUnsettled, RoutesAgree
<1>4. CASE Rebuild
  <2>1. Loads("rebuild", "shared", 0)
    BY <1>4 DEF Rebuild
  <2>2. /\ script' \in Script /\ script'.pc = "shared" /\ script'.kind = "rebuild"
        /\ script'.from = env
    BY <1>1, <2>1, ScriptLoads
  <2>3. PICK stays \in SUBSET Colour : up' = [c \in Colour |-> IF c \in stays THEN up[c] ELSE 0]
    BY <1>4 DEF Rebuild
  <2>4. up' \in [Colour -> 0..Newest] /\ \A c \in Colour : 1..up'[c] \subseteq recorded
    BY <1>1, <2>3 DEF ReleaseHolds, BuildsAreApplied
  <2> QED BY <1>1, <1>4, <2>2, <2>4
     DEF Rebuild, ReleaseHolds, ReleaseTypes, BuildsAreApplied, DeployKnows,
         SwitchKnows, RebuildKnows, RecreatesUnsettled, RoutesAgree
<1> QED BY <1>2, <1>3, <1>4

LEMMA FaultsHolds ==
  ASSUME ReleaseHolds, UNCHANGED migrateVars,
         RecreateFails \/ ScriptDies \/ BalancerRestarts \/ UNCHANGED releaseVars
  PROVE  ReleaseHolds'
<1>1. UNCHANGED recorded
  BY DEF migrateVars
<1>2. up \in [Colour -> 0..Newest] /\ \A c \in Colour : 1..up[c] \subseteq recorded
  BY DEF ReleaseHolds, ReleaseTypes, BuildsAreApplied
<1>3. CASE RecreateFails
  BY <1>1, <1>2, <1>3, EndsHolds DEF RecreateFails, ReleaseHolds, RecreatesUnsettled
<1>4. CASE ScriptDies
  BY <1>1, <1>2, <1>4, EndsHolds DEF ScriptDies, ReleaseHolds, ReleaseTypes
<1>5. CASE BalancerRestarts
  BY <1>1, <1>5
     DEF BalancerRestarts, ReleaseHolds, ReleaseTypes, BuildsAreApplied, DeployKnows,
         SwitchKnows, RebuildKnows, RecreatesUnsettled, RoutesAgree, migrateVars
<1>6. CASE UNCHANGED releaseVars
  BY <1>1, <1>6
     DEF releaseVars, ReleaseHolds, ReleaseTypes, BuildsAreApplied, DeployKnows,
         SwitchKnows, RebuildKnows, RecreatesUnsettled, RoutesAgree, migrateVars
<1> QED BY <1>3, <1>4, <1>5, <1>6

(* The containers go on beside the scripts.                                *)
LEMMA RunnersHolds ==
  ASSUME MigrateIInv, ReleaseHolds, RunnerStep
  PROVE  MigrateIInv' /\ ReleaseHolds'
<1>1. UNCHANGED releaseVars
  BY DEF RunnerStep
<1>2. ASSUME Grows, \A r \in Runner : script.runner = r => runner'[r].upto = runner[r].upto
      PROVE  ReleaseHolds'
  BY <1>1, <1>2
     DEF Grows, releaseVars, ReleaseHolds, ReleaseTypes, BuildsAreApplied, DeployKnows,
         SwitchKnows, RebuildKnows, RecreatesUnsettled, RoutesAgree
<1>3. CASE MigrateNext
  BY <1>2, <1>3, MigrateKeeps
<1>4. ASSUME NEW r \in Runner, script.runner # r, Gone(r), UNCHANGED <<recorded, inEffect>>
      PROVE  MigrateIInv' /\ ReleaseHolds'
  <2>1. \A q \in Runner : script.runner = q => runner'[q].upto = runner[q].upto
    BY <1>4 DEF Gone, MigrateIInv, MigrateTypeOK
  <2>2. Grows
    BY <1>4 DEF Grows
  <2> QED BY <1>2, <1>4, <2>1, <2>2, GoneKeeps
<1> QED BY <1>3, <1>4 DEF RunnerStep

LEMMA InitHolds == Init => IInv
<1> SUFFICES ASSUME Init PROVE IInv
  OBVIOUS
<1>1. 1 \in Version /\ Version \subseteq Nat /\ {0, 1} \subseteq 0..Newest /\ 1..1 = {1}
  BY MigrateAssumption DEF Version
<1>2. MigrateTypeOK
  BY <1>1, NoRun DEF Init, MigrateInit, MigrateTypeOK
<1>3. AppliedAsListed
  BY <1>1, <1>2 DEF Init, MigrateInit, AppliedAsListed, AppliedOnce, AppliedInOrder, Version
<1>4. PlansHold
  BY NoRun DEF Init, MigrateInit, PlansHold
<1>5. ReleaseTypes
  BY <1>1, NoScriptIs DEF Init, ReleaseTypes, Colour
<1>6. BuildsAreApplied
  <2>1. \A c \in Colour : tag[c] = 1 \/ tag[c] = 0
    BY DEF Init
  <2>2. up = tag /\ recorded = {1} /\ 1..0 = {}
    BY <1>1 DEF Init, MigrateInit
  <2> QED BY <1>1, <2>1, <2>2 DEF BuildsAreApplied
<1>7. DeployKnows /\ SwitchKnows /\ RebuildKnows /\ RecreatesUnsettled /\ RoutesAgree
  BY NoScriptIs DEF Init, DeployKnows, SwitchKnows, RebuildKnows, RecreatesUnsettled, RoutesAgree
<1> QED BY <1>2, <1>3, <1>4, <1>5, <1>6, <1>7 DEF IInv, TypeOK, ReleaseTypes

LEMMA StepKeeps ==
  ASSUME IInv, [Next]_vars
  PROVE  IInv'
<1> SUFFICES MigrateIInv' /\ ReleaseHolds'
  BY DEF IInv, TypeOK, MigrateIInv, ReleaseHolds, ReleaseTypes
<1>1. MigrateIInv /\ ReleaseHolds
  BY IInvIs
<1>2. CASE UNCHANGED migrateVars /\ (Rebuild \/ \E t \in Release : Deploy(t) \/ Switch(t))
  BY <1>1, <1>2, StartsHolds, MigrateStays
<1>3. CASE UNCHANGED migrateVars /\ (SwitchStep \/ RebuildStep)
  BY <1>1, <1>3, SwitchHolds, RebuildHolds, MigrateStays
<1>4. CASE UNCHANGED migrateVars /\ (DeployChecks \/ DeploySavesTag \/ DeployComposes \/ DeployProbes)
  BY <1>1, <1>4, DeployHolds, MigrateStays
<1>5. CASE DeployPlans \/ DeployMigrates
  BY <1>1, <1>5, PlansHolds, MigratesHolds
<1>6. CASE /\ UNCHANGED migrateVars
           /\ RecreateFails \/ ScriptDies \/ BalancerRestarts \/ UNCHANGED releaseVars
  BY <1>1, <1>6, FaultsHolds, MigrateStays
<1>7. CASE RunnerStep
  BY <1>1, <1>7, RunnersHolds
<1>8. SwitchStep \/ RebuildStep => UNCHANGED migrateVars
  BY DEF SwitchStep, SwitchChecks, SwitchProbesStaged, SwitchFlips, SwitchProbes, SwitchUndoes,
         SwitchRecords, RebuildStep, RebuildSharedUp, RebuildColourUp, ComposeFails, RebuildRoutes, Writes, Recreates
<1>9. DeployStep => \/ DeployPlans \/ DeployMigrates
                    \/ /\ UNCHANGED migrateVars
                       /\ DeployChecks \/ DeploySavesTag \/ DeployComposes \/ DeployProbes
  BY DEF DeployStep, DeployChecks, DeploySavesTag, DeployComposes, DeployProbes
<1>10. CASE \E t \in Release : Deploy(t) \/ Switch(t)
  BY <1>2, <1>10 DEF Deploy, Switch
<1>11. CASE Rebuild
  BY <1>2, <1>11 DEF Rebuild
<1>12. CASE DeployStep
  BY <1>4, <1>5, <1>9, <1>12
<1>13. CASE SwitchStep \/ RebuildStep
  BY <1>3, <1>8, <1>13
<1>14. CASE RecreateFails \/ ScriptDies \/ BalancerRestarts
  BY <1>6, <1>14 DEF RecreateFails, ScriptDies, BalancerRestarts
<1>15. CASE UNCHANGED vars
  BY <1>6, <1>15 DEF vars
<1> QED BY <1>7, <1>10, <1>11, <1>12, <1>13, <1>14, <1>15 DEF Next

---------------------------------------------------------------------------
(* The inductive invariant holds in every behaviour of the releases.       *)
THEOREM InvariantHolds == Spec => []IInv
BY InitHolds, StepKeeps, PTL DEF Spec

(* The variables keep their types.                                         *)
THEOREM TypeCorrect == Spec => []TypeOK
<1>1. IInv => TypeOK
  BY DEF IInv
<1> QED BY <1>1, InvariantHolds, PTL

(* Whatever containers migrate at once, die or are forgotten, each version *)
(* is applied once, recorded with it, and never before those before it.    *)
THEOREM Applied == Spec => []AppliedAsListed
<1>1. IInv => AppliedAsListed
  BY DEF IInv
<1> QED BY <1>1, InvariantHolds, PTL

(* The build that serves finds its own versions applied, wherever a script *)
(* was stopped and whatever its runner went on to do; and the scripts have *)
(* brought no version that the gate refuses into effect.                   *)
THEOREM Served == Spec => []ServesItsSchema
<1>1. IInv => ServesItsSchema
  <2> SUFFICES ASSUME IInv, Production \in Colour, up[Production] # 0
               PROVE  /\ 1..up[Production] \subseteq recorded
                      /\ recorded \cap Destructive \subseteq 1..up[Production]
    BY DEF ServesItsSchema
  <2>1. up[Production] \in 0..Newest
    BY DEF IInv, TypeOK
  <2>2. 1 \in 1..up[Production]
    BY <2>1, MigrateAssumption
  <2> QED BY <2>2 DEF IInv, BuildsAreApplied
<1> QED BY <1>1, InvariantHolds, PTL

(* What is settled agrees: .env, nginx.conf and km-lb name one colour.     *)
THEOREM Agreed == Spec => []RoutesAgree
<1>1. IInv => RoutesAgree
  BY DEF IInv
<1> QED BY <1>1, InvariantHolds, PTL

(* A deploy leaves production alone, and .env names what serves.           *)
THEOREM Spared == Spec => ProductionIsSpared
<1>1. ASSUME IInv, Next
      PROVE  DeploySpares /\ EnvServes
  <2>1. CASE DeployStep
    BY <1>1, <2>1, OthersAre
       DEF DeployStep, DeployChecks, DeployPlans, DeployMigrates, DeploySavesTag, DeployComposes,
           ComposeFails, DeployProbes, At, DeploySpares, EnvServes, IInv, TypeOK, DeployKnows
  <2>2. CASE SwitchStep
    BY <1>1, <2>2
       DEF SwitchStep, SwitchChecks, SwitchProbesStaged, SwitchFlips, SwitchProbes, SwitchUndoes,
           SwitchRecords, Writes, Recreates, At, DeploySpares, EnvServes, IInv, SwitchKnows
  <2>3. CASE RebuildStep
    BY <2>3 DEF RebuildStep, RebuildSharedUp, RebuildColourUp, ComposeFails, RebuildRoutes, Writes, At,
                DeploySpares, EnvServes
  <2>4. CASE Rebuild \/ \E t \in Release : Deploy(t) \/ Switch(t)
    BY <2>4 DEF Rebuild, Deploy, Switch, Loads, DeploySpares, EnvServes
  <2>5. CASE RecreateFails
    BY <1>1, <2>5 DEF RecreateFails, DeploySpares, EnvServes, IInv, DeployKnows
  <2>6. CASE ScriptDies \/ BalancerRestarts \/ RunnerStep
    BY <2>6 DEF ScriptDies, BalancerRestarts, RunnerStep, releaseVars, DeploySpares, EnvServes
  <2> QED BY <1>1, <2>1, <2>2, <2>3, <2>4, <2>5, <2>6 DEF Next
<1>2. ASSUME IInv, [Next]_vars
      PROVE  [DeploySpares /\ EnvServes]_vars
  BY <1>1, <1>2
<1> QED BY <1>2, InvariantHolds, PTL DEF Spec, ProductionIsSpared

=============================================================================
