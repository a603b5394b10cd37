-------------------------------- MODULE Graph --------------------------------
(***************************************************************************)
(* The graph of the server (core/graph.c): an array of vertices, which are *)
(* known by their indices, and an array of lists, one for the neighbours   *)
(* of a vertex.  Slot 0 of both is left free, so that 0 can stand for no   *)
(* list.  Both are MAP_PRIVATE mappings, and an array that grows loses     *)
(* what was in it (Array): of a list its header, of a vertex its pointer   *)
(* to the list.                                                            *)
(***************************************************************************)
EXTENDS Integers, Sequences

CONSTANTS Slots,    \* slots of a new array, and those that it grows by
          Requests  \* what asks for vertices and neighbours, one at a time

(* vertices: who asked for each; neighborsPtr: the vertices that have a    *)
(* list; lists: the slots of the lists that are used; neighbors: whose     *)
(* neighbour is in the list of each vertex.                                *)
GraphType ==
  [vertices : Seq(Requests), neighborsPtr : SUBSET Nat, lists : Nat,
   neighbors : SUBSET (Requests \X Nat)]

(* graph_init, with the segments of an earlier graph removed.              *)
NewGraph == [vertices |-> <<>>, neighborsPtr |-> {}, lists |-> 0, neighbors |-> {}]

(* An object that goes into this slot makes the array grow.                *)
Grows(slot) == slot % Slots = 0

(* addVerticesFromCount, for one of them.                                  *)
AddVertex(g, x) ==
  LET v == Len(g.vertices) + 1
  IN  [g EXCEPT !.vertices = Append(@, x),
                !.neighborsPtr = IF Grows(v) THEN {} ELSE @ \ {v}]

(* Mutant of AddNeighbor: the vertex does not learn of its list.           *)
AddUnlinked(g, v, x) ==
  [g EXCEPT !.lists = @ + 2, !.neighbors = {n \in @ : n[2] # v} \cup {<<x, v>>}]

(* addNeighbor, to a vertex without a list: a list is added and then the   *)
(* neighbour, whose slot may be the one that makes the array grow.  The    *)
(* list is at the same address after it, and begins again.                 *)
AddNeighbor(g, v, x) ==
  [g EXCEPT !.neighborsPtr = @ \cup {v},
            !.lists = @ + 2,
            !.neighbors = (IF Grows(g.lists + 1) \/ Grows(g.lists + 2) THEN {}
                           ELSE {n \in @ : n[2] # v}) \cup {<<x, v>>}]

(* Whose neighbour a walk finds that begins at the vertex.                 *)
Neighbors(g, v) == {x \in Requests : v \in g.neighborsPtr /\ <<x, v>> \in g.neighbors}

(* Has an array grown since graph_init?                                    *)
Grown(g) == Len(g.vertices) >= Slots \/ g.lists >= Slots
==============================================================================
