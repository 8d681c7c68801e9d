---------------------------- MODULE AndroidCursor ----------------------------
(***************************************************************************)
(* Reading on Android: TiDatabaseProxy.execute and TiResultSetProxy over   *)
(* the cursor of the SQLCipher library.                                    *)
(*                                                                         *)
(* The cursor keeps a window of rows.  The first fill counts the rows of   *)
(* the query and keeps the count; a move to a row outside the window runs  *)
(* the query again, on the table as it then is.  Between two moves the     *)
(* application writes to the table, closes the database or closes other    *)
(* result sets.  Calls run on the one JavaScript thread.                   *)
(*                                                                         *)
(* Rows are numbered as they are inserted, and a query returns them in     *)
(* that order.                                                             *)
(***************************************************************************)
EXTENDS Integers, Sequences

CONSTANTS
    Slots,        \* the result sets that exist at a time
    WindowRows,   \* how many rows a window holds
    MaxInserts, MaxFaults    \* bounds on those events

ASSUME WindowAssumption == WindowRows \in Nat \ {0}
ASSUME BoundsAssumption == MaxInserts \in Nat /\ MaxFaults \in Nat

VARIABLES
    open,         \* whether the database is open
    table,        \* the rows of the one table, in order
    inserted,     \* the last row inserted, bounded
    sets,         \* the result set proxies, with their cursors
    faults        \* moves that failed, bounded

vars == <<open, table, inserted, sets, faults>>

RowNumbers == 1..MaxInserts

(* query: the rows the query had, kept for the properties; its length is   *)
(* the count the cursor keeps.  pos: the position of the cursor, -1 before *)
(* the first row.  start, window: the position of the first row of the     *)
(* window, and its rows.  filled: whether there is a window.  readAt, row: *)
(* the position that was last read from, and what was there.               *)
ResultSet == [state : {"none", "open", "closed"},
              query : Seq(RowNumbers), pos : -1..MaxInserts,
              start : 0..MaxInserts, window : Seq(RowNumbers), filled : BOOLEAN,
              readAt : -1..MaxInserts, row : 0..MaxInserts]

NoResultSet == [state |-> "none", query |-> <<>>, pos |-> -1,
                start |-> 0, window |-> <<>>, filled |-> FALSE,
                readAt |-> -1, row |-> 0]

Count(s) == Len(s.query)

-----------------------------------------------------------------------------
(* Mutant: the rows after the first window begin one too late. *)
MutantWindowFrom(start) ==
    LET end == IF start + WindowRows < Len(table) THEN start + WindowRows
               ELSE Len(table)
    IN  SubSeq(table, start + (IF start = 0 THEN 1 ELSE 2), end)

(* What a window that starts at a position is filled with. *)
WindowFrom(start) ==
    LET end == IF start + WindowRows < Len(table) THEN start + WindowRows
               ELSE Len(table)
    IN  SubSeq(table, start + 1, end)

(* The rows of the first fill: those the first window took. *)
Capacity(s) == IF Count(s) < WindowRows THEN Count(s) ELSE WindowRows

(* A refill keeps a third of a window before the row it is for. *)
StartFor(s, pos) ==
    LET before == pos - Capacity(s) \div 3
    IN  IF before < 0 THEN 0 ELSE before

InWindow(s, pos) == s.filled /\ pos >= s.start /\ pos < s.start + Len(s.window)

(* Mutant: the end is not looked at. *)
MutantIsValidRow(s) == s.state = "open" /\ Count(s) > 0

IsValidRow(s) == s.state = "open" /\ Count(s) > 0 /\ s.pos # Count(s)

(* What field reads; where there is no such row it raises. *)
Readable(s) ==
    /\ s.state = "open" /\ s.pos >= 0 /\ s.pos < Count(s)
    /\ InWindow(s, s.pos)

RowOf(s) == s.window[s.pos - s.start + 1]

-----------------------------------------------------------------------------
Init ==
    /\ open = TRUE
    /\ inserted \in 0..MaxInserts
    /\ table = [k \in 1..inserted |-> k]
    /\ sets = [i \in Slots |-> NoResultSet]
    /\ faults = 0

(* execute of a query: the proxy asks whether there is a row, which fills  *)
(* the window, and steps to the first.                                     *)
Query(i) ==
    /\ open /\ sets[i].state # "open"
    /\ sets' = [sets EXCEPT ![i] =
           [NoResultSet EXCEPT !.state = "open", !.query = table,
                               !.pos = IF table = <<>> THEN -1 ELSE 0,
                               !.window = WindowFrom(0), !.filled = TRUE]]
    /\ UNCHANGED <<open, table, inserted, faults>>

(* execute of anything else. *)
Insert ==
    /\ open /\ inserted < MaxInserts
    /\ inserted' = inserted + 1
    /\ table' = Append(table, inserted + 1)
    /\ UNCHANGED <<open, sets, faults>>

Delete(k) ==
    /\ open /\ k \in 1..Len(table)
    /\ table' = SubSeq(table, 1, k - 1) \o SubSeq(table, k + 1, Len(table))
    /\ UNCHANGED <<open, inserted, sets, faults>>

(* Mutant: the window is taken to begin at the row it is for. *)
MutantMoved(s) ==
    IF s.pos + 1 >= Count(s) THEN [s EXCEPT !.pos = Count(s)]
    ELSE IF InWindow(s, s.pos + 1) THEN [s EXCEPT !.pos = @ + 1]
    ELSE [s EXCEPT !.pos = @ + 1, !.start = s.pos + 1,
                   !.window = WindowFrom(StartFor(s, s.pos + 1)), !.filled = TRUE]

(* Mutant: every move runs the query again. *)
MutantMovedAnew(s) ==
    IF s.pos + 1 >= Count(s) THEN [s EXCEPT !.pos = Count(s)]
    ELSE [s EXCEPT !.pos = @ + 1,
                   !.start = StartFor(s, s.pos + 1),
                   !.window = WindowFrom(StartFor(s, s.pos + 1)), !.filled = TRUE]

(* moveToNext *)
Moved(s) ==
    IF s.pos + 1 >= Count(s) THEN [s EXCEPT !.pos = Count(s)]
    ELSE IF InWindow(s, s.pos + 1) THEN [s EXCEPT !.pos = @ + 1]
    ELSE [s EXCEPT !.pos = @ + 1,
                   !.start = StartFor(s, s.pos + 1),
                   !.window = WindowFrom(StartFor(s, s.pos + 1)), !.filled = TRUE]

NeedsFill(s) == s.pos + 1 < Count(s) /\ ~InWindow(s, s.pos + 1)

NextRow(i) ==
    /\ IsValidRow(sets[i])
    /\ NeedsFill(sets[i]) => open
    /\ sets' = [sets EXCEPT ![i] = Moved(@)]
    /\ UNCHANGED <<open, table, inserted, faults>>

(* Mutant: a lost window begins before the first row. *)
MutantLostWindow(s) ==
    [s EXCEPT !.window = <<>>, !.start = -1, !.filled = FALSE]

(* The query cannot be run again, at least on a closed database: the move  *)
(* raises, without its window.                                             *)
LostWindow(s) == [s EXCEPT !.window = <<>>, !.filled = FALSE]

NextRaises(i) ==
    /\ IsValidRow(sets[i]) /\ NeedsFill(sets[i])
    /\ IF open THEN faults < MaxFaults /\ faults' = faults + 1
               ELSE UNCHANGED faults
    /\ sets' = [sets EXCEPT ![i] = LostWindow(@)]
    /\ UNCHANGED <<open, table, inserted>>

(* field, fieldByName *)
Field(i) ==
    /\ Readable(sets[i])
    /\ sets' = [sets EXCEPT ![i].readAt = sets[i].pos, ![i].row = RowOf(sets[i])]
    /\ UNCHANGED <<open, table, inserted, faults>>

CloseResult(i) ==
    /\ sets[i].state = "open"
    /\ sets' = [sets EXCEPT ![i] = [LostWindow(@) EXCEPT !.state = "closed"]]
    /\ UNCHANGED <<open, table, inserted, faults>>

(* close of the database proxy closes no result set. *)
Close ==
    /\ open
    /\ open' = FALSE
    /\ UNCHANGED <<table, inserted, sets, faults>>

Next ==
    \/ Insert \/ Close
    \/ \E k \in RowNumbers : Delete(k)
    \/ \E i \in Slots : \/ Query(i) \/ NextRow(i) \/ NextRaises(i) \/ Field(i)
                        \/ CloseResult(i)

Spec == Init /\ [][Next]_vars

(* An application that reads a result set goes on calling next while it is *)
(* on a row.                                                               *)
LiveSpec == Spec /\ \A i \in Slots : WF_vars(NextRow(i))

-----------------------------------------------------------------------------
(* Properties *)

TypeOK ==
    /\ open \in BOOLEAN /\ inserted \in 0..MaxInserts
    /\ table \in Seq(RowNumbers) /\ sets \in [Slots -> ResultSet]
    /\ faults \in 0..MaxFaults

(* The rows of the query are still where they were. *)
Intact(s) ==
    /\ Count(s) <= Len(table)
    /\ \A k \in 1..Count(s) : table[k] = s.query[k]

(* As long as no row of a query was deleted, the row a result set is on is *)
(* the one the query had there, however often the window was filled again, *)
(* whatever was inserted meanwhile, and after moves that raised.           *)
RowsAreTheQuerys ==
    \A i \in Slots :
        LET s == sets[i]
        IN  IsValidRow(s) /\ Intact(s) /\ s.filled
                => Readable(s) /\ RowOf(s) = s.query[s.pos + 1]

(* A result that fits in a window can be read to its end as it was at the  *)
(* time of the query, and next never runs the query again, whatever is     *)
(* deleted and also when the database is closed before the result set.     *)
SmallResultIsSnapshot ==
    \A i \in Slots :
        LET s == sets[i]
        IN  IsValidRow(s) /\ Count(s) <= WindowRows
                => /\ Readable(s) /\ RowOf(s) = s.query[s.pos + 1]
                   /\ ~NeedsFill(s)

(* No row is met twice, nor out of order: also when rows are deleted under *)
(* a larger result, whose later windows then hold other rows than its      *)
(* query, what a loop reads at a later position is a later row.            *)
RowsComeOnce ==
    \A i \in Slots :
        LET s == sets[i]
        IN  Readable(s) /\ s.readAt # -1 /\ s.readAt < s.pos => s.row < RowOf(s)

(* A loop that calls next while the row is valid ends, unless the database *)
(* is closed under a result that does not fit in its window.               *)
LoopsEnd ==
    \A i \in Slots :
        IsValidRow(sets[i]) /\ (open \/ Count(sets[i]) <= WindowRows)
            ~> \/ ~IsValidRow(sets[i])
               \/ ~open /\ Count(sets[i]) > WindowRows
=============================================================================
