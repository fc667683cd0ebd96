--------------------------- MODULE MCMemoryTables ---------------------------
(***************************************************************************)
(* Rows with and without their key, and numbers a 64-bit float cannot tell *)
(* apart.                                                                  *)
(***************************************************************************)
EXTENDS MemoryTables

Val(type, n) == [type |-> type, n |-> n]
F(op, field, values) == [op |-> op, field |-> field, values |-> values, parts |-> <<>>]
Compound(op, parts) == [op |-> op, field |-> "", values |-> <<>>, parts |-> parts]

\* With Exact = 4 the integers 4 and 5 are one f64.
Four == Val("int", 4)
Five == Val("int", 5)
Six == Val("float", 6)
Text == Val("string", 1)

Big == F("Gt", "n", <<Four>>)
IsText == F("Like", "n", <<Text>>)
SomeFilters ==
    { F("Eq", "id", <<Val("int", 1)>>), F("IsNull", "id", <<>>), F("Between", "n", <<Five, Six>>),
      Big, IsText, Compound("Or", <<Big, IsText>>), Compound("Not", <<IsText>>) }

Row(id, n) == [id |-> Val("int", id), n |-> n]
Seeds == { Row(1, Four), Row(1, Five), Row(2, Six), [n |-> Text] }
NewColumn == { [m |-> Four] }
AllRows == Seeds \cup { set @@ row : set \in NewColumn, row \in Seeds }
UpTo2Rows == {<<>>} \cup { <<a>> : a \in Seeds } \cup { <<a, b>> : a, b \in Seeds }
Keys == [users |-> {"id"}]

By(column, descending) == [column |-> column, descending |-> descending]
Query(filter, columns, order_by, offset, limit) ==
    [filter |-> filter, columns |-> columns, order_by |-> order_by,
     offset |-> offset, limit |-> limit]
SomeQueries ==
    { Query(None, None, <<>>, 1, 1),
      Query(None, None, <<By("id", FALSE), By("n", TRUE)>>, None, 2),
      Query(Compound("Not", <<IsText>>), {"id"}, <<By("n", TRUE)>>, 1, None) }
=============================================================================
