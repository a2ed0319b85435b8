---------------------------- MODULE MCStoryJobs ----------------------------
EXTENDS StoryJobs, TLC

(* Stories, jobs and enqueue transactions are interchangeable.  Processes  *)
(* are, when the colour file may hold either colour.                       *)
Rows == Permutations(Story) \cup Permutations(Job) \cup Permutations(Request)
RowsAndColours == Rows \cup Permutations(Process)

(* Symmetry is unsound for liveness: there, stories are written and job ids*)
(* taken in one order, which is every order but for the names.             *)
CONSTANTS FirstStory, FirstJob

InOrder ==
  /\ stories # {} => FirstStory \in stories
  /\ \A j \in Job : jobs[j].status # "none" => jobs[FirstJob].status # "none"

MCFairSpec == Init /\ [][(Adds /\ InOrder') \/ Goes]_vars /\ Fairness
===========================================================================
