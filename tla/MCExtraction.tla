--------------------------- MODULE MCExtraction ---------------------------
EXTENDS Extraction, TLC

(* Books, runs and requests are interchangeable.                           *)
Rows == Permutations(Upload) \cup Permutations(RunId) \cup Permutations(Request)
===========================================================================
