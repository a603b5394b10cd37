------------------------------- MODULE MCKSnap -------------------------------
(* KSnap on small instances.  Pages, subscribers and page contents are     *)
(* interchangeable, which the safety runs use.                             *)
EXTENDS KSnap, TLC

Symmetry == Permutations(Pages) \cup Permutations(Subs) \cup Permutations(Values)
==============================================================================
