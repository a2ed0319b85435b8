--------------------------- MODULE StoryResults ---------------------------
(***************************************************************************)
(* What a reader is promised of a story's narration, and likewise of its   *)
(* illustrations: it is generated at most once at a time, it appears whole *)
(* or not at all, it is never taken back or replaced, and a clone shows    *)
(* what its source showed.                                                 *)
(***************************************************************************)
CONSTANTS
  Story,    \* story ids
  Result    \* complete results: sets of items

VARIABLES
  stories,  \* the stories that exist
  live,     \* the stories whose result is queued or being generated
  shown     \* what each story shows

vars == <<stories, live, shown>>

Init ==
  /\ stories = {}
  /\ live = {}
  /\ shown = [s \in Story |-> {}]

Create(s) ==
  /\ s \in Story \ stories
  /\ stories' = stories \cup {s}
  /\ UNCHANGED <<live, shown>>

Queue(s) ==
  /\ s \in stories \ live
  /\ live' = live \cup {s}
  /\ UNCHANGED <<stories, shown>>

(* A new result, which no other story shows, of a story that has none.     *)
Finish(s) ==
  /\ s \in live
  /\ shown[s] = {}
  /\ \E R \in Result :
       /\ \A t \in Story : shown[t] \cap R = {}
       /\ shown' = [shown EXCEPT ![s] = R]
  /\ live' = live \ {s}
  /\ UNCHANGED stories

GiveUp(S) ==
  /\ live' = live \ S
  /\ UNCHANGED <<stories, shown>>

Clone(s, t) ==
  /\ s \in stories /\ t \in Story \ stories
  /\ stories' = stories \cup {t}
  /\ shown' = [shown EXCEPT ![t] = shown[s]]
  /\ UNCHANGED live

Next ==
  \/ \E s \in Story : Create(s) \/ Queue(s) \/ Finish(s)
  \/ \E S \in SUBSET live : GiveUp(S)
  \/ \E s, t \in Story : Clone(s, t)

Spec == Init /\ [][Next]_vars
===========================================================================
