--------------------------- MODULE IosStatements ---------------------------
(***************************************************************************)
(* The statements of one database proxy on iOS: who owns which object of   *)
(* EncPLSqliteDatabase, EncPLSqlitePreparedStatement, EncPLSqliteResultSet *)
(* and AppceleratorEncrypteddatabaseResultSetProxy, when each is released, *)
(* and so when the connection closes; and the row a result set stands on.  *)
(*                                                                         *)
(* Objects are counted by reference.  A prepared statement retains the     *)
(* database, a result set its prepared statement; what execute creates is  *)
(* also in the autorelease pool until the pool drains, at the end of the   *)
(* event or earlier.  The array of the database proxy and a result set     *)
(* proxy retain a result set.                                              *)
(***************************************************************************)
EXTENDS Integers

CONSTANTS
    Slots,      \* the statements that exist at a time
    MaxRows     \* bound on the rows of the one table

ASSUME RowsAssumption == MaxRows \in Nat

VARIABLES
    database,    \* what the database proxy holds: the database, nothing, or
                 \* a database whose dealloc has raised
    connection,  \* the connection of SQLite
    leaked,      \* a statement of SQLite that no object owns
    slots,       \* the statements, with their result sets and proxies
    rows         \* the number of rows in the table

vars == <<database, connection, leaked, slots, rows>>

(* sqlite: whether there is a prepared statement, and of SQLite's under it.*)
(* row: the row the cursor is on, 0 when on none.                          *)
Statement == [sqlite : {"none", "prepared", "finalized"},
              result : {"none", "open", "closed"},
              pooled : BOOLEAN,    \* in the autorelease pool
              listed : BOOLEAN,    \* in the array of the database proxy
              held   : BOOLEAN,    \* by a result set proxy
              lost   : BOOLEAN,    \* a proxy whose initialiser raised
              row    : 0..MaxRows, validRow : BOOLEAN, rowCount : -1..MaxRows]

Free == [sqlite |-> "none", result |-> "none", pooled |-> FALSE,
         listed |-> FALSE, held |-> FALSE, lost |-> FALSE,
         row |-> 0, validRow |-> FALSE, rowCount |-> -1]

Pooled(sqlite, result) ==
    [Free EXCEPT !.sqlite = sqlite, !.result = result, !.pooled = TRUE]

-----------------------------------------------------------------------------
Alive(s) == s.sqlite # "none" /\ (s.pooled \/ s.listed \/ s.held)

(* What no one retains is deallocated: the result set closes, the prepared *)
(* statement finalises SQLite's and releases the database.                 *)
Retained(S) == [i \in Slots |-> IF Alive(S[i]) THEN S[i] ELSE Free]

(* Nothing but the database proxy retains the database. *)
Unretained(S) == \A i \in Slots : Retained(S)[i] = Free

(* Mutant: a deallocated database does not close. *)
MutantRelease(S) ==
    /\ slots' = Retained(S)
    /\ UNCHANGED connection

(* Deallocated with its last statement, the database closes; with a leaked *)
(* statement that raises, and the connection stays open.                   *)
Release(S) ==
    /\ slots' = Retained(S)
    /\ connection' = IF database = "nil" /\ Unretained(S) /\ ~leaked
                     THEN "closed" ELSE connection

(* Mutant: a statement is not closed when its result set is checked in. *)
MutantCheckIn(s) ==
    IF s.result = "open" THEN [s EXCEPT !.result = "closed", !.row = 0] ELSE s

(* Closing a result set checks it in, which closes its statement. *)
CheckIn(s) ==
    IF s.result = "open"
    THEN [s EXCEPT !.result = "closed", !.sqlite = "finalized", !.row = 0]
    ELSE s

Init ==
    /\ database = "nil" /\ connection = "closed" /\ leaked = FALSE
    /\ slots = [i \in Slots |-> Free]
    /\ rows \in 0..MaxRows

(* A new database proxy, when the objects of the one before are gone. *)
Open ==
    /\ database = "nil" /\ connection = "closed"
    /\ \A i \in Slots : slots[i] = Free
    /\ database' = "held" /\ connection' = "open"
    /\ UNCHANGED <<leaked, slots, rows>>

-----------------------------------------------------------------------------
(* execute.  On a closed proxy it returns null, and a statement that does  *)
(* not compile raises: neither changes anything.                           *)
Execute(i, s) ==
    /\ database = "held" /\ slots[i] = Free
    /\ slots' = [slots EXCEPT ![i] = s]

FirstRow(counted) == IF counted > 0 THEN 1 ELSE 0

(* A statement with columns returns a proxy, which steps to the first row. *)
Query(i) ==
    /\ Execute(i, [Pooled("prepared", "open") EXCEPT
                       !.listed = TRUE, !.held = TRUE,
                       !.row = FirstRow(rows), !.validRow = rows > 0])
    /\ UNCHANGED <<database, connection, leaked, rows>>

(* When that step raises, nothing releases the proxy. *)
QueryRaises(i) ==
    /\ Execute(i, [Pooled("prepared", "open") EXCEPT
                       !.listed = TRUE, !.held = TRUE, !.lost = TRUE])
    /\ UNCHANGED <<database, connection, leaked, rows>>

BindRaises(i) ==
    /\ Execute(i, Pooled("prepared", "none"))
    /\ UNCHANGED <<database, connection, leaked, rows>>

(* A statement without columns is stepped and its result set closed ...    *)
Update(i) ==
    /\ rows < MaxRows
    /\ rows' = rows + 1
    /\ Execute(i, CheckIn(Pooled("prepared", "open")))
    /\ UNCHANGED <<database, connection, leaked>>

(* ... unless the step raises. *)
UpdateRaises(i) ==
    /\ Execute(i, Pooled("prepared", "open"))
    /\ UNCHANGED <<database, connection, leaked, rows>>

(* More than one statement in the text: createStatement raises when SQLite *)
(* has compiled the first, and forgets it.                                 *)
ManyStatements ==
    /\ database = "held"
    /\ leaked' = TRUE
    /\ UNCHANGED <<database, connection, slots, rows>>

-----------------------------------------------------------------------------
(* The result set proxy *)

(* Mutant: the result set is closed and not released. *)
MutantLetGo(i) ==
    /\ Release([slots EXCEPT ![i] =
           [CheckIn(@) EXCEPT !.listed = FALSE, !.validRow = FALSE]])
    /\ UNCHANGED <<database, leaked, rows>>

LetGo(i) ==
    /\ Release([slots EXCEPT ![i] =
           [CheckIn(@) EXCEPT !.listed = FALSE, !.held = FALSE,
                              !.validRow = FALSE, !.rowCount = -1]])
    /\ UNCHANGED <<database, leaked, rows>>

(* close, and what the garbage collector does to a proxy it frees. *)
CloseResult(i) == slots[i].held /\ ~slots[i].lost /\ LetGo(i)

Reads(i) == slots[i].held /\ ~slots[i].lost /\ slots[i].result = "open"

(* next closes at the end; on a result set closed with its database it     *)
(* raises.                                                                 *)
NextRow(i) ==
    /\ Reads(i) /\ slots[i].row < rows
    /\ slots' = [slots EXCEPT ![i].row = @ + 1, ![i].validRow = TRUE]
    /\ UNCHANGED <<database, connection, leaked, rows>>

NextEnds(i) == Reads(i) /\ slots[i].row = rows /\ LetGo(i)

NextRaises(i) ==
    /\ Reads(i)
    /\ slots' = [slots EXCEPT ![i].row = 0]
    /\ UNCHANGED <<database, connection, leaked, rows>>

(* Mutant: the row it stood on is counted as well. *)
MutantRowCount(i) ==
    /\ Reads(i) /\ slots[i].rowCount = -1
    /\ \E counted \in 0..rows : \E row \in {FirstRow(counted), 0} :
           slots' = [slots EXCEPT ![i].rowCount = counted + FirstRow(slots[i].row),
                                  ![i].row = row]
    /\ UNCHANGED <<database, connection, leaked, rows>>

(* Mutant: the rows are counted anew each time. *)
MutantCountAnew(i) ==
    /\ Reads(i)
    /\ \E counted \in 0..rows : \E row \in {FirstRow(counted), 0} :
           slots' = [slots EXCEPT ![i].rowCount = counted, ![i].row = row]
    /\ UNCHANGED <<database, connection, leaked, rows>>

(* The first rowCount starts the statement over, counts to the end or to   *)
(* the first row that fails, keeps the count and steps to the first row,   *)
(* which can raise.                                                        *)
RowCount(i) ==
    /\ Reads(i) /\ slots[i].rowCount = -1
    /\ \E counted \in 0..rows : \E row \in {FirstRow(counted), 0} :
           slots' = [slots EXCEPT ![i].rowCount = counted, ![i].row = row]
    /\ UNCHANGED <<database, connection, leaked, rows>>

-----------------------------------------------------------------------------
(* Mutant: the connection is closed whatever is prepared on it. *)
MutantClose ==
    LET S == [i \in Slots |-> IF slots[i].listed
                              THEN [CheckIn(slots[i]) EXCEPT !.listed = FALSE]
                              ELSE slots[i]]
    IN  /\ database = "held"
        /\ slots' = Retained(S)
        /\ connection' = "closed"
        /\ database' = IF leaked /\ Unretained(S) THEN "deallocating" ELSE "nil"
        /\ UNCHANGED <<leaked, rows>>

(* close of the database proxy closes the listed result sets, then the     *)
(* connection.  SQLite refuses while a statement is prepared; that is      *)
(* caught, and the database released.  When it is deallocated it tries     *)
(* again: what that raises is not caught.                                  *)
Close ==
    LET S == [i \in Slots |-> IF slots[i].listed
                              THEN [CheckIn(slots[i]) EXCEPT !.listed = FALSE]
                              ELSE slots[i]]
        busy == leaked \/ \E i \in Slots : Retained(S)[i].sqlite = "prepared"
    IN  /\ database = "held"
        /\ slots' = Retained(S)
        /\ connection' = IF busy THEN "open" ELSE "closed"
        /\ database' = IF leaked /\ Unretained(S) THEN "deallocating" ELSE "nil"
        /\ UNCHANGED <<leaked, rows>>

(* The autorelease pool drains. *)
Drain ==
    /\ \E i \in Slots : slots[i].pooled
    /\ Release([i \in Slots |-> [slots[i] EXCEPT !.pooled = FALSE]])
    /\ UNCHANGED <<database, leaked, rows>>

(* The process ends and another starts. *)
Quit ==
    /\ database' = "nil" /\ connection' = "closed" /\ leaked' = FALSE
    /\ slots' = [i \in Slots |-> Free]
    /\ UNCHANGED rows

Next ==
    \/ Open \/ ManyStatements \/ Close \/ Drain \/ Quit
    \/ \E i \in Slots :
          \/ Query(i) \/ QueryRaises(i) \/ BindRaises(i)
          \/ Update(i) \/ UpdateRaises(i)
          \/ CloseResult(i) \/ NextRow(i) \/ NextEnds(i) \/ NextRaises(i)
          \/ RowCount(i)

Spec == Init /\ [][Next]_vars

(* The pool drains at the end of every event, and result set proxies are   *)
(* closed or collected sooner or later.                                    *)
LiveSpec ==
    Spec /\ WF_vars(Drain) /\ \A i \in Slots : WF_vars(CloseResult(i))

-----------------------------------------------------------------------------
(* Properties *)

TypeOK ==
    /\ database \in {"held", "nil", "deallocating"}
    /\ connection \in {"open", "closed"} /\ leaked \in BOOLEAN
    /\ slots \in [Slots -> Statement] /\ rows \in 0..MaxRows

(* The contract of checkoutResultSet: the statement SQLite steps under an  *)
(* open result set is prepared, and its connection is open, whatever has   *)
(* been closed, released and collected, and in whatever order.             *)
OpenIsPrepared ==
    \A i \in Slots :
        /\ slots[i].result = "open" => slots[i].sqlite = "prepared"
        /\ slots[i].sqlite = "prepared" => connection = "open"

(* A connection outlives its database proxy only while a statement retains *)
(* it, or when one was leaked: the database closes with the last of them.  *)
ConnectionIsOwned ==
    connection = "open" =>
        \/ database = "held" \/ leaked
        \/ \E i \in Slots : Alive(slots[i])

(* Whatever the order in which result sets were opened, read, counted and  *)
(* closed, close() closes the connection when every statement still        *)
(* prepared belongs to a listed result set.                                *)
CloseCloses ==
    [][(/\ database = "held" /\ database' # "held" /\ ~leaked
        /\ \A i \in Slots : slots[i].result = "none" => slots[i].sqlite = "none"
        /\ \A i \in Slots : slots[i].result = "open" => slots[i].listed)
           => connection' = "closed"]_vars

(* rowCount takes its cursor back to the first row, but only once: after   *)
(* it the cursor of an open result set goes on row by row, or raises, and  *)
(* the count stays what the application was told, whatever is inserted     *)
(* meanwhile.  A loop that reads rowCount on every row comes to its end.   *)
CountedOnce ==
    [][\A i \in Slots :
          Reads(i) /\ slots[i].rowCount # -1 /\ Reads(i)' =>
              /\ slots'[i].rowCount = slots[i].rowCount
              /\ slots'[i].row \in {slots[i].row, slots[i].row + 1, 0}]_vars

(* After close(), the connection closes at last, also when a statement     *)
(* that raised kept it from closing: unless one was leaked, or a proxy     *)
(* that retains it was lost.                                               *)
ClosesAtLast ==
    (database = "nil" /\ ~leaked /\ \A i \in Slots : ~slots[i].lost)
        ~> connection = "closed"

=============================================================================
