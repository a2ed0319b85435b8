------------------------------ MODULE MCCards ------------------------------
(* Small instances of Cards for TLC.  A behaviour adds cards, studies or   *)
(* drills: words are added and studied through different tables than       *)
(* patterns are drilled, and all share no more than the fresh ids.         *)
EXTENDS Cards, TLC

VARIABLE focus

MCInit == Init /\ focus \in {"add", "study", "drill"}
MCNext ==
  /\ UNCHANGED focus
  /\ \/ focus = "add" /\ (Adds \/ Seeds \/ Removes \/ Aborts)
     \/ focus = "study" /\ (Studies \/ Seeds \/ Removes)
     \/ focus = "drill" /\ (Drills \/ Aborts)
MCSpec == MCInit /\ [][MCNext]_<<vars, focus>>

Symmetries == Permutations(CardId) \cup Permutations(Device) \cup Permutations(Rating)
              \cup Permutations(Attempt) \cup Permutations(Request) \cup Permutations(Word)
============================================================================
