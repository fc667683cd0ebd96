---------------------------- MODULE MemoryTables ----------------------------
(***************************************************************************)
(* The tables of MemoryDriver (crates/dbshell-drivers/src/memory.rs), each *)
(* method again one step under the map's lock.  Nothing creates or drops a *)
(* table: with_table() puts them there before the driver is used.          *)
(***************************************************************************)
EXTENDS SequencesExt, Filter, Kept

CONSTANTS
    TableNames, \* asked for, some of them missing
    PrimaryKey, \* table -> its key columns, {} if it has none
    Rows,       \* JSON objects
    RowBatches, \* inputs of insert_rows and upsert_rows: sequences of rows
    Updates,    \* inputs of update_rows: rows
    Queries,    \* inputs of query_table: [filter, columns, order_by, offset, limit]
    MaxRows     \* bound: rows of a table

\* An object stays one when columns of it are set.
ASSUME RowsAssumption ==
    /\ \A row \in Rows : \A column \in DOMAIN row : row[column].n \in Int
    /\ \A row \in Rows, set \in Updates : set @@ row \in Rows
    /\ RowBatches \subseteq Seq(Rows)
ASSUME QueriesAssumption ==
    /\ None \notin Nat
    /\ \A q \in Queries :
        /\ DOMAIN q = {"filter", "columns", "order_by", "offset", "limit"}
        /\ q.order_by \in Seq(Range(q.order_by))
        /\ {q.offset, q.limit} \subseteq Nat \cup {None}
ASSUME MaxRowsAssumption == MaxRows \in Nat

VARIABLES
    tables,  \* HashMap<String, MemoryTable>: name -> rows
    answer   \* what the last call returned

tableVars == <<tables, answer>>

InitTables == tables = [t \in DOMAIN PrimaryKey |-> <<>>] /\ answer = None

-----------------------------------------------------------------------------
(* What query_table makes of a table.                                      *)

\* cmp_values: a missing column comes first.
CmpValues(a, b, column) ==
    IF Has(a, column) /\ Has(b, column) THEN CmpJsonValues(a[column], b[column])
    ELSE IF Has(a, column) THEN 1 ELSE IF Has(b, column) THEN -1 ELSE 0

CmpRows(a, b, ob) ==
    IF ob.descending THEN -CmpValues(a, b, ob.column) ELSE CmpValues(a, b, ob.column)

\* sort_by is stable.  If the comparison is no order on these rows, as values
\* of several types may make it, the result is unspecified.
IsOrder(rows, ob) ==
    \A i, j, k \in DOMAIN rows :
        CmpRows(rows[i], rows[j], ob) <= 0 /\ CmpRows(rows[j], rows[k], ob) <= 0
            => CmpRows(rows[i], rows[k], ob) <= 0

Place(sorted, row, ob) ==
    LET n == Cardinality({ i \in DOMAIN sorted : CmpRows(sorted[i], row, ob) <= 0 })
    IN  SubSeq(sorted, 1, n) \o <<row>> \o SubSeq(sorted, n + 1, Len(sorted))

StablySorted(rows, ob) == FoldLeft(LAMBDA sorted, row : Place(sorted, row, ob), <<>>, rows)

SortBy(rows, ob) ==
    IF IsOrder(rows, ob) THEN { StablySorted(rows, ob) }
    ELSE { [i \in DOMAIN rows |-> rows[p[i]]] : p \in SetToSeqs(DOMAIN rows) }

\* One stable sort per column, the last column first.
SlipOrderBy(rows, obs) ==
    FoldLeft(LAMBDA outs, ob : UNION { SortBy(out, ob) : out \in outs }, {rows}, obs)
OrderBy(rows, obs) ==
    FoldLeft(LAMBDA outs, ob : UNION { SortBy(out, ob) : out \in outs }, {rows}, Reverse(obs))

Selected(rows, filter) ==
    Kept(rows, { row \in Range(rows) : filter = None \/ MatchesFilter(row, filter) })

\* drain(..skip) or clear(), then truncate(limit).
Skipped(rows, offset) == IF offset = None THEN rows ELSE SubSeq(rows, offset + 1, Len(rows))
Cut(rows, limit) == IF limit = None \/ Len(rows) <= limit THEN rows ELSE SubSeq(rows, 1, limit)
SlipPage(rows, offset, limit) == Skipped(Cut(rows, limit), offset)
Page(rows, offset, limit) == Cut(Skipped(rows, offset), limit)

\* project_row
Project(row, columns) ==
    IF columns = None THEN row ELSE [column \in DOMAIN row \cap columns |-> row[column]]

\* The results query_table may give.
Results(rows, q) ==
    { [total |-> Len(sorted),
       rows |-> LET page == Page(sorted, q.offset, q.limit)
                IN  [i \in DOMAIN page |-> Project(page[i], q.columns)]]
      : sorted \in OrderBy(Selected(rows, q.filter), q.order_by) }

-----------------------------------------------------------------------------
(* Tables.                                                                 *)

NoTable(t) ==
    /\ t \notin DOMAIN tables
    /\ answer' = [error |-> "NotFound"]
    /\ UNCHANGED tables

ListTables ==
    /\ answer' = [listed |-> [t \in DOMAIN tables |-> Len(tables[t])]]
    /\ UNCHANGED tables

DescribeTable(t) ==
    /\ t \in DOMAIN tables
    /\ answer' = [schema |-> PrimaryKey[t]]
    /\ UNCHANGED tables

QueryTable(t, q) ==
    /\ t \in DOMAIN tables
    /\ \E result \in Results(tables[t], q) :
        answer' = [rows |-> result.rows, total |-> result.total]
    /\ UNCHANGED tables

Write(t, rows, count) ==
    /\ t \in DOMAIN tables
    /\ Len(rows) <= MaxRows
    /\ tables' = [tables EXCEPT ![t] = rows]
    /\ answer' = [count |-> count]

\* No look at the keys.
InsertRows(t, batch) == Write(t, tables[t] \o batch, Len(batch))

\* find_row_by_pk: a row without a key column is like no other.
SameKey(key, a, b) ==
    /\ key # {}
    /\ \A column \in key : Has(a, column) /\ Has(b, column) /\ a[column] = b[column]

\* iter_mut().find(..); the slip finds the last.
SlipPutRow(key, rows, row) ==
    LET i == SelectLastInSeq(rows, LAMBDA old : SameKey(key, old, row))
    IN  IF i = 0 THEN Append(rows, row) ELSE [rows EXCEPT ![i] = row]
PutRow(key, rows, row) ==
    LET i == SelectInSeq(rows, LAMBDA old : SameKey(key, old, row))
    IN  IF i = 0 THEN Append(rows, row) ELSE [rows EXCEPT ![i] = row]

Upserted(key, rows, batch) == FoldLeft(LAMBDA old, row : PutRow(key, old, row), rows, batch)

UpsertRows(t, batch) == Write(t, Upserted(PrimaryKey[t], tables[t], batch), Len(batch))

\* Column by column; the slip replaces the row.
SlipUpdated(row, set) == set
Updated(row, set) == set @@ row

UpdateRows(t, filter, set) ==
    LET hits == { row \in Range(tables[t]) : MatchesFilter(row, filter) }
        now(row) == IF row \in hits THEN Updated(row, set) ELSE row
    IN  Write(t, [i \in DOMAIN tables[t] |-> now(tables[t][i])], Len(Kept(tables[t], hits)))

DeleteRows(t, filter) ==
    LET kept == Kept(tables[t], { row \in Range(tables[t]) : ~MatchesFilter(row, filter) })
    IN  Write(t, kept, Len(tables[t]) - Len(kept))

-----------------------------------------------------------------------------
NextTables ==
    \/ \E t \in TableNames :
        \/ NoTable(t)
        \/ DescribeTable(t)
        \/ \E q \in Queries : QueryTable(t, q)
        \/ \E batch \in RowBatches : InsertRows(t, batch) \/ UpsertRows(t, batch)
        \/ \E filter \in Filters :
            \/ DeleteRows(t, filter)
            \/ \E set \in Updates : UpdateRows(t, filter, set)
    \/ ListTables

TablesSpec == InitTables /\ [][NextTables]_tableVars

-----------------------------------------------------------------------------
(* Type invariant: no call adds or removes a table, and a table holds rows *)
(* only.  An upsert puts a row of its batch in the place of the old one,   *)
(* whatever columns that had; an update leaves a row the columns it does   *)
(* not set, the columns alone that it sets being no row.                   *)
TablesTypeOK ==
    /\ DOMAIN tables = DOMAIN PrimaryKey
    /\ \A t \in DOMAIN tables : tables[t] \in Seq(Rows) /\ Len(tables[t]) <= MaxRows

(* "Match on primary key, full row replace" (DESIGN.md:1727), with the     *)
(* duplicates inserts have left in the table and the batch has in itself,  *)
(* and whatever columns are the key: of rows with one key the last one is  *)
(* found under it, no key gets another row, rows of other keys stay where  *)
(* they were, and doing it again changes nothing.  A row that lacks a key  *)
(* column, or any row if there is no key, is appended each time instead.   *)
UpsertByKey ==
    \A t \in DOMAIN tables, batch \in RowBatches :
    \A key \in SUBSET UNION { DOMAIN tables[t][i] : i \in DOMAIN tables[t] } :
        LET old == tables[t]
            new == Upserted(key, old, batch)
            rowsLike(rows, row) == { i \in DOMAIN rows : SameKey(key, rows[i], row) }
            complete == { i \in DOMAIN batch : SameKey(key, batch[i], batch[i]) }
        IN  /\ \A i \in complete :
                LET places == rowsLike(new, batch[i])
                IN  /\ new[Min(places)] = batch[Max(rowsLike(batch, batch[i]))]
                    /\ Cardinality(places) = Max({1, Cardinality(rowsLike(old, batch[i]))})
            /\ \A i \in DOMAIN old :
                (\A j \in complete : ~SameKey(key, old[i], batch[j])) => new[i] = old[i]
            /\ Upserted(key, new, batch)
                  = new \o Kept(batch, { row \in Range(batch) : ~SameKey(key, row, row) })

\* All rows have the column, with values of one kind.
Comparable(rows, column) ==
    /\ \A i \in DOMAIN rows : Has(rows[i], column)
    /\ \/ \A i \in DOMAIN rows : IsNumber(rows[i][column])
       \/ \A i \in DOMAIN rows : rows[i][column].type = "string"

Orderly(rows, obs) == \A k \in DOMAIN obs : Comparable(rows, obs[k].column)

(* Reading a table page by page, each page a query of its own that sorts   *)
(* again, shows every row once and in the order of the whole answer; the   *)
(* total is the same on every page.                                        *)
PagesMakeTheAnswer ==
    \A t \in DOMAIN tables, q \in Queries, n \in 1..MaxRows :
        LET page(k) == Results(tables[t], [q EXCEPT !.offset = (k - 1) * n, !.limit = n])
            whole == Results(tables[t], [q EXCEPT !.offset = None, !.limit = None])
        IN  Orderly(Selected(tables[t], q.filter), q.order_by) =>
                /\ \A k \in 1..MaxRows : Cardinality(page(k)) = 1
                /\ \E all \in whole :
                    /\ whole = {all}
                    /\ FlattenSeq([k \in 1..MaxRows |-> (CHOOSE p \in page(k) : TRUE).rows])
                          = all.rows
                    /\ \A k \in 1..MaxRows : \A p \in page(k) : p.total = all.total

(* Sorting by several columns one after the other sorts by the first, then *)
(* within it by the second, and so on.                                     *)
SortedByAllColumns ==
    \A t \in DOMAIN tables, q \in Queries :
    \A sorted \in OrderBy(tables[t], q.order_by) :
        Orderly(tables[t], q.order_by) =>
            \A i, j \in DOMAIN sorted : \A k \in DOMAIN q.order_by :
                LET cmp(l) == CmpRows(sorted[i], sorted[j], q.order_by[l])
                IN  i < j /\ (\A l \in 1..(k - 1) : cmp(l) = 0) => cmp(k) <= 0

\* One after the other, each with each.
Joined(firsts, seconds) == { l \o h : l \in firsts, h \in seconds }

(* Filters and sorting see one order: any value cuts the sorted rows into  *)
(* those a `<` and those a `>=` lets pass, and into `<=` and `>`, although *)
(* 64-bit floats make some different integers equal.                       *)
FiltersCutTheOrder ==
    \A t \in DOMAIN tables, row \in Rows : \A column \in DOMAIN row :
        LET rows == tables[t]
            sorted(part) == OrderBy(part, <<[column |-> column, descending |-> FALSE]>>)
            passing(op) ==
                Kept(rows, { r \in Range(rows) : CmpField(r, column, row[column], op) })
            cut(low, high) == Joined(sorted(passing(low)), sorted(passing(high)))
        IN  Comparable(Append(rows, row), column) =>
                sorted(rows) = cut("Lt", "Gte") /\ sorted(rows) = cut("Lte", "Gt")
=============================================================================
