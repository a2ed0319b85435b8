---------------------------- MODULE MCModelCalls ----------------------------
(* Small instances of ModelCalls for TLC.  In a behaviour either the cache *)
(* grows old and calls of both kinds fill it, or money is spent elsewhere  *)
(* and days pass: the ceiling looks neither at the cache nor at the        *)
(* buckets, which then are refilled by restarts alone.  The cache is the   *)
(* same to every process, so then one is enough.  Nor does the ceiling     *)
(* look at what is billed and not answered: where money is looked at, a    *)
(* call is billed once at most.                                            *)
EXTENDS ModelCalls

CONSTANT Home
VARIABLE focus

MCInit ==
  /\ Init /\ focus \in {"cache", "money"}
  /\ focus = "money" => \A k \in Key : cache[k] = "none"
BilledOnce(c) == calls'[c].billed <= 1 /\ (calls'[c].pc = "sleep" => calls'[c].billed = 0)
MCNext ==
  /\ UNCHANGED focus
  /\ \/ \E c \in Call : Proceeds(c)
     \/ focus = "cache" /\ (AsksOf(Home, "json") \/ AsksOf(Home, "stream")
                            \/ Ageing \/ Restart(Home) \/ Refill(Home))
     \/ focus = "money" /\ (Asks("json") \/ Spending \/ \E p \in Process : Restart(p))
  /\ focus = "money" => \A c \in Call : BilledOnce(c)
MCSpec == MCInit /\ [][MCNext]_<<vars, focus>> /\ Fairness
=============================================================================
