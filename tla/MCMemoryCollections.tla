------------------------- MODULE MCMemoryCollections -------------------------
(***************************************************************************)
(* Records of three ids, two of them with a choice of vector and payload,  *)
(* scores that tie, and one record without a vector.                       *)
(***************************************************************************)
EXTENDS MemoryCollections

Number(n) == [type |-> "int", n |-> n]
Text == [type |-> "string", n |-> 1]

Big == [op |-> "Gt", field |-> "n", values |-> <<Number(1)>>, parts |-> <<>>]
SomeFilters ==
    { Big, [op |-> "All", field |-> "n", values |-> <<>>, parts |-> <<>>],
      [op |-> "Not", field |-> "n", values |-> <<>>, parts |-> <<Big>>] }

Record(id, vector, v) == [id |-> id, vector |-> vector, payload |-> [n |-> v]]
SomeRecords ==
    { Record(1, 2, Number(2)), Record(1, 0, Text), Record(2, 1, Number(2)),
      Record(2, None, Number(1)), Record(3, 1, Number(2)) }
UpTo2Records == {<<>>} \cup { <<a>> : a \in SomeRecords } \cup { <<a, b>> : a, b \in SomeRecords }
SomeSearches == { [limit |-> n, filter |-> f] : n \in 0..2, f \in {None, Big} }
=============================================================================
