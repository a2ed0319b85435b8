----------------------------- MODULE BlueGreen -----------------------------
(***************************************************************************)
(* Releases (src/Deploy): azure-deploy-inactive.sh migrates the shared     *)
(* database and starts a build on the colour that users do not see,        *)
(* azure-switch-production.sh sends the users there, rebuild-environment.sh *)
(* recovers.  What is active is written down four times: in .env, in the   *)
(* configuration of the load balancer, in what the load balancer has       *)
(* loaded of it, and in the file that the job queues follow.  A script     *)
(* may stop after any step, and what it started goes on.  The scripts take *)
(* no lock; here they are run one at a time.                               *)
(***************************************************************************)
EXTENDS Migrate

CONSTANTS
  Release,   \* releases, named by the newest version they ship (bound)
  Breaking   \* versions that code shipped before them does not survive;
             \* nothing in the scripts knows of them

ASSUME BlueGreenAssumption ==
  Release \subseteq Version /\ 1 \in Release /\ Breaking \subseteq Version

VARIABLES
  env,      \* .env: ACTIVE_ENVIRONMENT
  tag,      \* .env: BLUE_IMAGE_TAG, GREEN_IMAGE_TAG
  conf,     \* nginx.conf: the colour of the production port
  lb,       \* the configuration km-lb has loaded, "down" without km-lb
  queues,   \* the active-colour file
  up,       \* the build a colour runs, 0 for none
  script,   \* the script at work
  settled   \* the last script that changed the routing came to its end

releaseVars == <<env, tag, conf, lb, queues, up, script, settled>>
vars == <<migrateVars, releaseVars>>

Colour == {"blue", "green"}
Other(c) == IF c = "blue" THEN "green" ELSE "blue"

Script ==
  [kind : {"none", "deploy", "switch", "rebuild"},
   pc : {"ended", "check", "dry", "migrate", "save_tag", "compose", "probe_staged", "recheck",
         "cp", "recreate", "probe", "undo_cp", "undo_recreate", "save_env", "save_file",
         "shared", "colour"},
   release : 0..Newest, from : Colour, to : Colour, runner : Runner \cup {"none"}]
NoScript ==
  [kind |-> "none", pc |-> "ended", release |-> 0, from |-> "blue", to |-> "green",
   runner |-> "none"]

---------------------------------------------------------------------------
At(kind, pc) == script.kind = kind /\ script.pc = pc
Goto(pc) == script' = [script EXCEPT !.pc = pc]
Ends == script' = NoScript

(* check-active-env.sh reads the configuration file, in the container or   *)
(* on disk; what km-lb has loaded it does not see.                         *)
Confirmed == conf = env

(* verify_local_app: nobody answers where nothing runs.                    *)
Production == lb
Staged == IF lb = "down" THEN "down" ELSE Other(lb)
Answers(c) == c \in Colour /\ up[c] # 0

(* compose_shared up: km-lb loads the configuration when it starts.        *)
SharedUp == lb' = IF lb = "down" THEN conf ELSE lb

(* load_environment: the colours are fixed here for the whole run.         *)
Loads(kind, pc, release) ==
  /\ script.kind = "none"
  /\ script' = [NoScript EXCEPT !.kind = kind, !.pc = pc, !.release = release,
                  !.from = env, !.to = Other(env)]

---------------------------------------------------------------------------
(* azure-deploy-inactive.sh: starts km-lb if it is down.                   *)
Deploy(release) ==
  /\ Loads("deploy", "check", release)
  /\ SharedUp
  /\ UNCHANGED <<migrateVars, env, tag, conf, queues, up, settled>>

Target == script.to

(* The backup comes before, and may fail like any run_migrate.             *)
DeployChecks ==
  /\ At("deploy", "check")
  /\ \/ Confirmed /\ script' = [script EXCEPT !.pc = "dry", !.to = Target]
     \/ Ends
  /\ UNCHANGED <<migrateVars, env, tag, conf, lb, queues, up, settled>>

StartsRunner(dry) ==
  \E r \in Runner :
    /\ Runs(r, script.release, dry)
    /\ script' = [script EXCEPT !.runner = r, !.pc = "migrate"]
    /\ UNCHANGED <<recorded, inEffect>>

DeployPlans ==
  /\ At("deploy", "dry") /\ StartsRunner(TRUE)
  /\ UNCHANGED <<env, tag, conf, lb, queues, up, settled>>

(* A dry run that passes is followed by the run that applies.              *)
DeployMigrates ==
  LET r == script.runner IN
  /\ At("deploy", "migrate")
  /\ \/ /\ runner[r].pc = "done" /\ runner[r].dry
        /\ runner' = [runner EXCEPT ![r] =
             [NoRunnerRow EXCEPT !.pc = "read", !.upto = script.release]]
        /\ UNCHANGED script
     \/ runner[r].pc = "done" /\ ~runner[r].dry /\ Gone(r)
          /\ script' = [script EXCEPT !.pc = "save_tag", !.runner = "none"]
     \/ runner[r].pc = "failed" /\ Gone(r) /\ Ends
  /\ UNCHANGED <<recorded, inEffect, env, tag, conf, lb, queues, up, settled>>

DeploySavesTag ==
  /\ At("deploy", "save_tag")
  /\ tag' = [tag EXCEPT ![script.to] = script.release] /\ Goto("compose")
  /\ UNCHANGED <<migrateVars, env, conf, lb, queues, up, settled>>

(* compose_color up, wait_healthy: either may fail.  What the colour ran   *)
(* may be gone by then, and the new build may not have come up.            *)
ComposeFails(c) == up' \in {up, [up EXCEPT ![c] = 0]} /\ Ends
DeployComposes ==
  /\ At("deploy", "compose")
  /\ \/ up' = [up EXCEPT ![script.to] = script.release] /\ (Goto("probe_staged") \/ Ends)
     \/ ComposeFails(script.to)
  /\ UNCHANGED <<migrateVars, env, tag, conf, lb, queues, settled>>

(* Whatever the last two steps find, they change nothing.                  *)
DeployProbes ==
  /\ At("deploy", "probe_staged") /\ Ends
  /\ UNCHANGED <<migrateVars, env, tag, conf, lb, queues, up, settled>>

---------------------------------------------------------------------------
(* azure-switch-production.sh.                                             *)
Switch(release) ==
  /\ Loads("switch", "check", release)
  /\ UNCHANGED <<migrateVars, env, tag, conf, lb, queues, up, settled>>

SwitchChecks ==
  /\ At("switch", "check")
  /\ IF Confirmed /\ tag[script.to] = script.release THEN Goto("probe_staged") ELSE Ends
  /\ UNCHANGED <<migrateVars, env, tag, conf, lb, queues, up, settled>>

SwitchProbesStaged ==
  /\ At("switch", "probe_staged")
  /\ \/ Answers(Staged) /\ Goto("cp")
     \/ Ends
  /\ UNCHANGED <<migrateVars, env, tag, conf, lb, queues, up, settled>>

(* update_nginx_config: first the file, then a new km-lb that loads it.    *)
Writes(colour, next) ==
  /\ conf' = colour /\ settled' = FALSE
  /\ Goto(next)
  /\ UNCHANGED <<migrateVars, env, tag, lb, queues, up>>
Recreates(next) ==
  /\ lb' = conf /\ Goto(next)
  /\ UNCHANGED <<migrateVars, env, tag, conf, queues, up, settled>>
(* The old km-lb goes on, or none is left.  No script tries again.         *)
RecreateFails ==
  /\ script.pc \in {"recreate", "undo_recreate"}
  /\ lb' \in {lb, "down"} /\ Ends
  /\ UNCHANGED <<migrateVars, env, tag, conf, queues, up, settled>>

(* Mutant: km-lb is not made anew.                                         *)
SwitchFlipsFile == At("switch", "cp") /\ Writes(script.to, "probe")
SwitchFlips ==
  \/ At("switch", "cp") /\ Writes(script.to, "recreate")
  \/ At("switch", "recreate") /\ Recreates("probe")

SwitchProbes ==
  /\ At("switch", "probe")
  /\ \/ Answers(Production) /\ Goto("save_env")
     \/ Goto("undo_cp")
  /\ UNCHANGED <<migrateVars, env, tag, conf, lb, queues, up, settled>>

(* Mutant: back to what .env names, had it been saved before the probe.    *)
PriorSaved == script.to
Prior == script.from

SwitchUndoes ==
  \/ At("switch", "undo_cp") /\ Writes(Prior, "undo_recreate")
  \/ /\ At("switch", "undo_recreate") /\ lb' = conf /\ settled' = TRUE /\ Ends
     /\ UNCHANGED <<migrateVars, env, tag, conf, queues, up>>

SwitchRecords ==
  \/ /\ At("switch", "save_env") /\ env' = script.to /\ Goto("save_file")
     /\ UNCHANGED <<migrateVars, tag, conf, lb, queues, up, settled>>
  \/ /\ At("switch", "save_file") /\ queues' = script.to /\ Ends
     /\ settled' = TRUE
     /\ UNCHANGED <<migrateVars, env, tag, conf, lb, up>>

---------------------------------------------------------------------------
(* rebuild-environment.sh: all that can be is taken down, then the colour  *)
(* of .env comes up.                                                       *)
Rebuild ==
  /\ Loads("rebuild", "shared", 0)
  /\ \E stays \in SUBSET Colour : up' = [c \in Colour |-> IF c \in stays THEN up[c] ELSE 0]
  /\ lb' \in {lb, "down"} /\ settled' = FALSE
  /\ UNCHANGED <<migrateVars, env, tag, conf, queues>>

RebuildSharedUp ==
  /\ At("rebuild", "shared")
  /\ SharedUp /\ Goto("colour")
  /\ UNCHANGED <<migrateVars, env, tag, conf, queues, up, settled>>

RebuildColourUp ==
  /\ At("rebuild", "colour")
  /\ \/ up' = [up EXCEPT ![script.from] = tag[script.from]] /\ (Goto("cp") \/ Ends)
     \/ ComposeFails(script.from)
  /\ UNCHANGED <<migrateVars, env, tag, conf, lb, queues, settled>>

RebuildRoutes ==
  \/ At("rebuild", "cp") /\ Writes(script.from, "recreate")
  \/ /\ At("rebuild", "recreate") /\ lb' = conf /\ settled' = TRUE /\ Ends
     /\ UNCHANGED <<migrateVars, env, tag, conf, queues, up>>

---------------------------------------------------------------------------
(* A script is stopped, or fails where it does nothing about it; a runner  *)
(* it waits for runs on.                                                   *)
ScriptDies ==
  /\ script.kind # "none" /\ Ends
  /\ UNCHANGED <<migrateVars, env, tag, conf, lb, queues, up, settled>>

(* The host, or docker, starts km-lb again.                                *)
BalancerRestarts ==
  /\ lb # conf /\ lb' = conf
  /\ UNCHANGED <<migrateVars, env, tag, conf, queues, up, script, settled>>

RunnerStep ==
  /\ \/ MigrateNext
     \/ \E r \in Runner : /\ runner[r].pc \in {"done", "failed"} /\ script.runner # r /\ Gone(r)
                          /\ UNCHANGED <<recorded, inEffect>>
  /\ UNCHANGED releaseVars

---------------------------------------------------------------------------
TypeOK ==
  /\ MigrateTypeOK
  /\ env \in Colour /\ conf \in Colour /\ queues \in Colour
  /\ lb \in Colour \cup {"down"}
  /\ tag \in [Colour -> 0..Newest] /\ up \in [Colour -> 0..Newest]
  /\ script \in Script
  /\ settled \in BOOLEAN

(* After the first standup: release 1 on blue.                             *)
Init ==
  /\ MigrateInit(1)
  /\ env = "blue" /\ conf = "blue" /\ lb = "blue" /\ queues = "blue"
  /\ tag = [c \in Colour |-> IF c = "blue" THEN 1 ELSE 0]
  /\ up = tag
  /\ script = NoScript /\ settled = TRUE

DeployStep ==
  \/ DeployChecks \/ DeployPlans \/ DeployMigrates \/ DeploySavesTag
  \/ DeployComposes \/ DeployProbes
SwitchStep ==
  SwitchChecks \/ SwitchProbesStaged \/ SwitchFlips \/ SwitchProbes \/ SwitchUndoes \/ SwitchRecords
RebuildStep == RebuildSharedUp \/ RebuildColourUp \/ RebuildRoutes

Next ==
  \/ \E t \in Release : Deploy(t) \/ Switch(t)
  \/ Rebuild
  \/ DeployStep \/ SwitchStep \/ RebuildStep
  \/ RecreateFails \/ ScriptDies \/ BalancerRestarts
  \/ RunnerStep

Spec == Init /\ [][Next]_vars

---------------------------------------------------------------------------
(* The build that serves the users finds its own versions applied, wherever*)
(* deploys, switches, undoings and rebuilds have led; and no script has    *)
(* brought a version that loses data, as far as the gate can tell, into    *)
(* effect under a build that does not ship it.                             *)
ServesItsSchema ==
  Production \in Colour /\ up[Production] # 0 =>
    /\ 1..up[Production] \subseteq recorded
    /\ recorded \cap Destructive \subseteq 1..up[Production]

(* However scripts have been stopped before: once a switch has ended well, *)
(* or has been undone, or everything has been rebuilt, .env, nginx.conf    *)
(* and km-lb name one colour, and keep to it until the next change.        *)
RoutesAgree == settled => env = conf /\ lb = conf

(* A deploy never touches production: not what km-lb routes, nor the build *)
(* that runs there, as long as km-lb has loaded what its file says.        *)
DeploySpares ==
  script.kind = "deploy" /\ lb = conf =>
    conf' = conf /\ lb' = lb /\ up'[lb] = up[lb] /\ env' = env

(* .env never comes to name a colour that does not serve.                  *)
EnvServes == env' # env => lb = env' /\ up[env'] # 0

(* Production is changed by a switch alone, and recorded when it serves.   *)
ProductionIsSpared == [][DeploySpares /\ EnvServes]_vars

---------------------------------------------------------------------------
(* The inductive invariant behind the safety properties.                   *)

(* What runs, or may be started again, finds its versions applied; and no  *)
(* run applies one that the gate refuses.                                  *)
BuildsAreApplied ==
  /\ \A c \in Colour : 1..tag[c] \subseteq recorded /\ 1..up[c] \subseteq recorded
  /\ recorded \cap Destructive \subseteq {1}

(* A deploy that has checked builds on the colour .env does not name, for  *)
(* which its own runner has applied all it ships.                          *)
DeployKnows ==
  script.kind = "deploy" =>
    /\ script.to = Other(env) /\ script.pc \notin {"recreate", "undo_recreate"}
    /\ script.pc \in {"dry", "migrate", "save_tag", "compose"} => conf = env
    /\ script.pc = "migrate" =>
         script.runner \in Runner /\ runner[script.runner].upto = script.release
    /\ script.pc \in {"save_tag", "compose"} => 1..script.release \subseteq recorded

(* From its first write to its end a switch is unsettled; it knows where   *)
(* it came from until it has recorded where it went.                       *)
SwitchKnows ==
  script.kind = "switch" =>
    /\ script.from # script.to
    /\ script.pc # "save_file" => env = script.from
    /\ script.pc \notin {"check", "probe_staged", "cp", "ended"} => ~settled
    /\ script.pc \in {"recreate", "probe", "save_env", "save_file"} => conf = script.to
    /\ script.pc = "undo_recreate" => conf = script.from
    /\ script.pc \in {"probe", "save_env", "save_file"} => lb = conf
    /\ script.pc = "save_env" => up[script.to] # 0
    /\ script.pc = "save_file" => env = script.to

RebuildKnows ==
  script.kind = "rebuild" =>
    /\ ~settled /\ env = script.from
    /\ script.pc = "recreate" => conf = script.from

(* Who makes km-lb anew has changed its file.                              *)
RecreatesUnsettled == script.pc \in {"recreate", "undo_recreate"} => ~settled

IInv ==
  /\ TypeOK /\ AppliedAsListed /\ PlansHold /\ BuildsAreApplied
  /\ DeployKnows /\ SwitchKnows /\ RebuildKnows /\ RecreatesUnsettled /\ RoutesAgree

---------------------------------------------------------------------------
(* "Guard: the staged color's recorded tag must match the tag we were      *)
(* asked to promote. Prevents switching to a color that holds a different/ *)
(* stale build." (azure-switch-production.sh:68)                           *)
PromotedIsAsked == At("switch", "save_env") => up[script.to] = script.release

(* "the still-live ACTIVE old code keeps reading/writing the shared DB     *)
(* while the migration applies [...] A non-additive migration is a         *)
(* release-engineering error -- we ABORT before applying it (the dry-run   *)
(* is the gate) rather than break production."                             *)
(* (azure-deploy-inactive.sh:12-17)                                        *)
OldCodeSurvives ==
  Production \in Colour /\ up[Production] # 0 =>
    recorded \cap Breaking \subseteq 1..up[Production]

(* "Production (:1840) is untouched the whole time." (Deploy/README.md:108):*)
(* no deploy changes the build of the colour that km-lb routes to.         *)
DeployNeverTouches == [][script.kind = "deploy" => \A c \in {Production} \cap Colour : up'[c] = up[c]]_vars

(* The queues follow the colour that serves, unless a switch is at work.   *)
QueuesFollow == settled => queues = env
=============================================================================
