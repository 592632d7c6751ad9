---------------------------- MODULE DbConnector ----------------------------
(***************************************************************************)
(* The SQL side of a polled source: connectors/db_connector.py.            *)
(*                                                                         *)
(* The module is a library of operators: what one SELECT of the connector  *)
(* returns for a table and a high-water mark.  PollLoop owns the state     *)
(* (the table, the mark in memory and the mark in source_state).           *)
(*                                                                         *)
(* A row is its primary key.  The connector compares keys as TEXT          *)
(* (CAST(id AS TEXT) > CAST(:hwm AS TEXT)) and sorts and maximises them as *)
(* the column's own type, so the two orders are kept apart here: TextLess, *)
(* over the text the cast makes of a key, and the order < of the keys.     *)
(* For an integer column they agree on keys of one width and disagree as   *)
(* soon as a table holds 9 and 10.                                         *)
(***************************************************************************)
EXTENDS Naturals, Sequences, FiniteSets

CONSTANTS Ids,        \* the primary keys the external table may come to hold
          Text,       \* CAST(id AS TEXT): the character codes of each key
          BatchLimit  \* _BATCH_LIMIT: the LIMIT of the SELECT (500)

ASSUME DbAssumption == /\ Ids \subseteq Nat \ {0}
                       /\ IsFiniteSet(Ids)
                       /\ BatchLimit \in Nat \ {0}

\* SourceConfig.last_seen_id before anything was read: the text "0".
NoMark == 0

\* The order of TEXT: at the first place where the two differ, a ends or has the
\* lower character.
TextLess(a, b) ==
  \E k \in 1..Len(Text[b]) :
    /\ k <= Len(Text[a]) + 1
    /\ \A j \in 1..(k - 1) : Text[a][j] = Text[b][j]
    /\ k <= Len(Text[a]) => Text[a][k] < Text[b][k]

\* No key reads as a text before that of the first mark.
ASSUME TextAssumption == /\ Text \in [Ids \cup {NoMark} -> Seq(Nat)]
                         /\ \A i \in Ids : TextLess(NoMark, i)

\* Faults, one per property they break: the comparison >= instead of >, ...
AtOrAbove(table, mark) == {i \in table : TextLess(mark, i) \/ mark = i}

\* The WHERE clause of _fetch_batch.
Above(table, mark) == {i \in table : TextLess(mark, i)}

\* ... ORDER BY id DESC, ...
Highest(keys, n) == {i \in keys : Cardinality({j \in keys : j > i}) < n}

\* ORDER BY id ASC LIMIT n: the n smallest keys, in the column's order.
Lowest(keys, n) == {i \in keys : Cardinality({j \in keys : j < i}) < n}

\* ... a SELECT without its LIMIT, ...
FetchAll(table, mark) == Above(table, mark)

\* _fetch_batch: the rows one poll returns.
FetchBatch(table, mark) == Lowest(Above(table, mark), BatchLimit)

\* ... and a mark that counts rows.
RowsRead(batch) == Cardinality(batch)

\* _poll_sync: the mark after a batch, max(row ids) as the column orders them.
MarkAfter(batch) == CHOOSE i \in batch : \A j \in batch : j <= i

\* Two ways in which the text order can put a row out of place.  A row is
\* overtaken when a smaller key does not read as a smaller text (10, behind 9): a
\* mark at that key hides it.
Overtaken(table, i) == \E j \in table : j < i /\ ~TextLess(j, i)

\* A row is undercut when a larger key reads as a smaller text (9, by 10): it is
\* above that key's mark although it was read before it or with it.
Undercut(table, i) == \E j \in table : i < j /\ TextLess(j, i)
=============================================================================
