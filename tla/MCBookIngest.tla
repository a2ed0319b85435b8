--------------------------- MODULE MCBookIngest ---------------------------
EXTENDS BookIngest, TLC

(* Raw files, upload ids and titles are interchangeable.  Processes are,   *)
(* when the colour file may hold either colour or always holds neither.    *)
Files == Permutations(Raw) \cup Permutations(UploadId) \cup Permutations(Title)
FilesAndColours == Files \cup Permutations(Process)

(* Symmetry is unsound for liveness: there, the requests are sent and the  *)
(* ids taken in one order, which is every order but for the names.         *)
CONSTANTS FirstRaw, FirstId

InOrder ==
  /\ \A r \in Raw : post[r].pc # "unsent" => post[FirstRaw].pc # "unsent"
  /\ \A id \in UploadId : EverExisted(id) => EverExisted(FirstId)

MCFairSpec == Init /\ [][Next /\ InOrder']_vars /\ Fairness
===========================================================================
