----------------------------- MODULE HashArray ------------------------------
(***************************************************************************)
(* HashArray (core/tuffy/util/HashArray.java): a list of different         *)
(* elements with a hash map from each element to its position, so that a   *)
(* random element can be drawn and any element removed in constant time.   *)
(* MRF keeps its unsatisfied clauses in one: clauses enter and leave it at *)
(* every flip.  Positions are numbered from 1.                             *)
(***************************************************************************)
EXTENDS Naturals, Sequences, Functions

CONSTANT Elem

VARIABLES
  list,     \* the elements
  indices,  \* position of each element in the list
  size      \* public counter next to list.size()

array == <<list, indices, size>>

ArrayInit ==
  /\ list = <<>>
  /\ indices = [e \in {} |-> 0]
  /\ size = 0

Members == DOMAIN indices

contains(e) == e \in DOMAIN indices

(* Mutation: the new element is indexed by the length before it came.      *)
NewIndexMut == Len(list)

NewIndex == Len(list) + 1

Add(e) ==
  /\ ~ contains(e)
  /\ list' = Append(list, e)
  /\ indices' = [x \in Members \cup {e} |-> IF x = e THEN NewIndex ELSE indices[x]]
  /\ size' = size + 1

(* Mutation: the element moved into the hole keeps its old index.          *)
MovedMut(x, i) == indices[x]

(* The index of an element that stays when position i is emptied.          *)
Moved(x, i) == IF x = list[Len(list)] THEN i ELSE indices[x]

(* The last element fills the hole, unless it is the one that goes.        *)
RemoveIdx(i) ==
  /\ i \in 1 .. Len(list)
  /\ indices' = [x \in Members \ {list[i]} |-> Moved(x, i)]
  /\ list' = [k \in 1 .. (Len(list) - 1) |-> IF k = i THEN list[Len(list)] ELSE list[k]]
  /\ size' = size - 1

RemoveObj(e) ==
  /\ contains(e)
  /\ RemoveIdx(indices[e])

Clear ==
  /\ list' = <<>>
  /\ indices' = [e \in {} |-> 0]
  /\ size' = 0

ArrayNext ==
  \/ \E e \in Elem : Add(e) \/ RemoveObj(e)
  \/ \E i \in 1 .. Len(list) : RemoveIdx(i)
  \/ Clear

ArraySpec == ArrayInit /\ [][ArrayNext]_array

-----------------------------------------------------------------------------
ArrayTypeOK ==
  /\ list \in Seq(Elem)
  /\ indices \in [Members -> Nat \ {0}] /\ Members \subseteq Elem
  /\ size \in Nat

(* The map says of each element where it is, has the elements of the list  *)
(* and no others, and the counter is the length of the list, after any     *)
(* sequence of additions and removals.                                     *)
IndicesMatch ==
  /\ \A i \in 1 .. Len(list) : list[i] \in Members /\ indices[list[i]] = i
  /\ \A e \in Members : indices[e] \in 1 .. Len(list) /\ list[indices[e]] = e
  /\ size = Len(list)

(* The invariant of the representation, inductive as it stands.            *)
IndexInv == ArrayTypeOK /\ IndicesMatch

(* Removing an element removes that element and no other, wherever earlier *)
(* removals have moved it, and adding one loses none.                      *)
ChangesOnlyOne ==
  [][\A e \in Elem :
       /\ RemoveObj(e) => Range(list') = Range(list) \ {e}
       /\ Add(e) => Range(list') = Range(list) \cup {e}]_array
=============================================================================
