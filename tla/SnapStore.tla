------------------------------ MODULE SnapStore ------------------------------
(***************************************************************************)
(* A snapshot segment as it is to processes that have nothing mapped of it *)
(* while a commit is under way, as those of SnapTester: the owner edits a  *)
(* private draft, and a commit makes it the image that others find.  What  *)
(* is found in the middle of a commit is in PageSwap, what a snapshot maps *)
(* of uncommitted pages in KSnap.                                          *)
(***************************************************************************)
CONSTANTS Pages,    \* the pages of the segment
          Values    \* what a page may contain

VARIABLES image,    \* the published contents: what the next process to look finds
          draft     \* the contents the owner sees through its mapping

vars == <<image, draft>>

TypeOK == /\ image \in [Pages -> Values]
          /\ draft \in [Pages -> Values]

Init == /\ image \in [Pages -> Values]
        /\ draft = image

(* The owner stores v in page i of its mapping.                            *)
Write(i, v) == /\ draft' = [draft EXCEPT ![i] = v]
               /\ UNCHANGED image

(* msync by the owner.                                                     *)
Publish == /\ image' = draft
           /\ UNCHANGED draft

Next == \/ Publish
        \/ \E i \in Pages, v \in Values : Write(i, v)

Spec == Init /\ [][Next]_vars
==============================================================================
