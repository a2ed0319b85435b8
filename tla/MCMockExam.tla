----------------------------- MODULE MCMockExam -----------------------------
(* Small instances of MockExam for TLC.  A behaviour takes official papers *)
(* or generated mocks: the two share no table and no screen.               *)
EXTENDS MockExam, TLC

CONSTANTS FirstExam, FirstChoice

VARIABLE focus

(* On official papers an item is picked or it is not, and of two sittings  *)
(* one is of the paper that is served of the first test: the other is too, *)
(* or is of its lower level, or of another test.                           *)
OnePick == \A s \in Sitting, q \in Paper \X Item : sittings[s].picks[q] \in {NoChoice, FirstChoice}
OneServed == (\A s \in Sitting : sittings[s].pc # "unused") =>
               \E s \in Sitting : sittings[s].paper = Served(FirstExam)

MCInit == ExamInit /\ focus \in {"official", "generated"}
MCNext ==
  /\ UNCHANGED focus
  /\ \/ focus = "official" /\ (Screens \/ Requests) /\ (OnePick /\ OneServed)'
     \/ focus = "generated" /\ GeneratedMocks
MCSpec == MCInit /\ [][MCNext]_<<examVars, focus>>

(* The openings of both kinds of screen have the same names: a behaviour   *)
(* has only one of them.                                                   *)
Symmetries == Permutations(Sitting)
=============================================================================
