------------------------ MODULE IosStatements_proofs ------------------------
(***************************************************************************)
(* Type correctness of IosStatements and its two ownership invariants, and *)
(* what close() and rowCount promise, for any statements and any number of *)
(* rows.  The types and the two invariants are inductive together with two *)
(* more facts: a database proxy that holds its database has an open        *)
(* connection, and only a leaked statement makes a dealloc raise.          *)
(* StatementReleased says what happens in the end to each statement.       *)
(***************************************************************************)
EXTENDS IosStatements, TLAPS

HeldIsOpen == database = "held" => connection = "open"

DeallocatingIsLeaked == database = "deallocating" => leaked

Inv == /\ TypeOK /\ OpenIsPrepared /\ ConnectionIsOwned
       /\ HeldIsOpen /\ DeallocatingIsLeaked

-----------------------------------------------------------------------------
(* The operators on statements *)

(* Free is a statement, and so is what execute leaves in the pool. *)
LEMMA FreeType == Free \in Statement
BY RowsAssumption DEF Free, Statement

LEMMA PooledType ==
    ASSUME NEW q \in {"prepared", "finalized"}, NEW r \in {"none", "open", "closed"}
    PROVE  /\ Pooled(q, r) \in Statement
           /\ Pooled(q, r).sqlite = q /\ Pooled(q, r).result = r
           /\ Pooled(q, r).pooled = TRUE
<1>1. 0 \in 0..MaxRows /\ -1 \in -1..MaxRows
      BY RowsAssumption
<1>2. Pooled(q, r) \in Statement
      BY <1>1 DEF Pooled, Free, Statement
<1>3. Pooled(q, r).sqlite = q
      BY DEF Pooled, Free
<1>4. Pooled(q, r).result = r
      BY DEF Pooled, Free
<1>5. Pooled(q, r).pooled = TRUE
      BY DEF Pooled, Free
<1> QED
      BY <1>2, <1>3, <1>4, <1>5

(* A checked-in result set is not open, and its statement not prepared if  *)
(* it was the one of an open result set.                                   *)
LEMMA CheckInType ==
    ASSUME NEW s \in Statement, s.result = "open" => s.sqlite = "prepared"
    PROVE  /\ CheckIn(s) \in Statement
           /\ CheckIn(s).result # "open"
           /\ CheckIn(s).sqlite = "prepared" => s.sqlite = "prepared"
<1>1. CASE s.result = "open"
  <2> DEFINE t == [s EXCEPT !.result = "closed", !.sqlite = "finalized", !.row = 0]
  <2>1. CheckIn(s) = t
        BY <1>1 DEF CheckIn
  <2>2. 0 \in 0..MaxRows
        BY RowsAssumption
  <2>3. t \in Statement
        BY <2>2 DEF Statement
  <2>4. t.result = "closed"
        BY DEF Statement
  <2>5. t.sqlite = "finalized"
        BY DEF Statement
  <2> HIDE DEF t
  <2> QED
        BY <2>1, <2>3, <2>4, <2>5
<1>2. CASE s.result # "open"
      BY <1>2 DEF CheckIn
<1> QED
      BY <1>1, <1>2

(* What is retained is a statement that was there, alive, or free. *)
LEMMA RetainedType ==
    ASSUME NEW S \in [Slots -> Statement]
    PROVE  /\ Retained(S) \in [Slots -> Statement]
           /\ \A i \in Slots : \/ Retained(S)[i] = Free
                               \/ Retained(S)[i] = S[i] /\ Alive(S[i])
BY FreeType DEF Retained

(* Statements that keep the contract keep it when some are released, and   *)
(* the connection closes only when nothing retains the database.           *)
LEMMA ReleaseKeepsInv ==
    ASSUME Inv,
           NEW S \in [Slots -> Statement],
           \A i \in Slots : /\ S[i].result = "open" => S[i].sqlite = "prepared"
                            /\ S[i].sqlite = "prepared" => slots[i].sqlite = "prepared",
           Release(S), UNCHANGED <<database, leaked, rows>>
    PROVE  Inv'
<1>1. slots' \in [Slots -> Statement]
      BY RetainedType DEF Release
<1>2. connection' \in {"open", "closed"}
      BY DEF Release, Inv, TypeOK
<1>3. TypeOK'
      BY <1>1, <1>2 DEF Inv, TypeOK
<1>4. \A i \in Slots : slots'[i] = Free \/ (slots'[i] = S[i] /\ Alive(S[i]))
      BY RetainedType DEF Release
<1>5. \A i \in Slots : slots'[i].result = "open" => slots'[i].sqlite = "prepared"
      BY <1>4 DEF Free
<1>6. ASSUME NEW i \in Slots, slots'[i].sqlite = "prepared"
      PROVE  connection' = "open"
  <2>1. slots'[i] # Free /\ slots'[i] = S[i]
        BY <1>4, <1>6 DEF Free
  <2>2. connection = "open"
        BY <1>6, <2>1 DEF Inv, OpenIsPrepared
  <2>3. ~Unretained(S)
        BY <2>1 DEF Release, Unretained
  <2> QED
        BY <2>2, <2>3 DEF Release
<1>7. OpenIsPrepared'
      BY <1>5, <1>6 DEF OpenIsPrepared
<1>8. HeldIsOpen'
      BY DEF HeldIsOpen, Release, Inv
<1>9. ASSUME connection' = "open", database # "held", ~leaked
      PROVE  \E i \in Slots : Alive(slots'[i])
  <2>1. CASE \A i \in Slots : slots'[i] = Free
    <3>1. Unretained(S)
          BY <2>1 DEF Unretained, Release
    <3>2. database # "nil"
          BY <1>9, <3>1 DEF Release
    <3> QED
          BY <1>9, <3>2 DEF Inv, TypeOK, DeallocatingIsLeaked
  <2>2. CASE \E i \in Slots : slots'[i] # Free
        BY <2>2, <1>4
  <2> QED
        BY <2>1, <2>2
<1>10. DeallocatingIsLeaked'
      BY DEF DeallocatingIsLeaked, Inv
<1> QED
      BY <1>3, <1>7, <1>8, <1>9, <1>10 DEF Inv, ConnectionIsOwned

(* A statement execute leaves in a free place keeps the invariant, because *)
(* a held database is an open connection.                                  *)
LEMMA ExecuteKeepsInv ==
    ASSUME Inv, NEW i \in Slots, NEW s \in Statement,
           s.result = "open" => s.sqlite = "prepared",
           Execute(i, s), UNCHANGED <<database, connection, leaked>>,
           rows' \in 0..MaxRows
    PROVE  Inv'
<1>1. database = "held" /\ connection = "open"
      BY DEF Execute, Inv, HeldIsOpen
<1>2. slots \in [Slots -> Statement] /\ slots' = [slots EXCEPT ![i] = s]
      BY DEF Execute, Inv, TypeOK
<1>3. \A j \in Slots : slots'[j] = IF j = i THEN s ELSE slots[j]
      BY <1>2
<1>4. TypeOK'
      BY <1>2 DEF Inv, TypeOK
<1>5. OpenIsPrepared'
      BY <1>1, <1>3 DEF Inv, OpenIsPrepared
<1> QED
      BY <1>1, <1>4, <1>5
      DEF Inv, ConnectionIsOwned, HeldIsOpen, DeallocatingIsLeaked

(* So does a cursor that moves: it changes no owner. *)
LEMMA MoveKeepsInv ==
    ASSUME Inv, NEW i \in Slots, NEW t \in Statement,
           t.sqlite = slots[i].sqlite, t.result = slots[i].result,
           Alive(t) <=> Alive(slots[i]),
           slots' = [slots EXCEPT ![i] = t],
           UNCHANGED <<database, connection, leaked, rows>>
    PROVE  Inv'
<1>1. slots \in [Slots -> Statement]
      BY DEF Inv, TypeOK
<1>2. \A j \in Slots : slots'[j] = IF j = i THEN t ELSE slots[j]
      BY <1>1
<1>3. TypeOK'
      BY <1>1 DEF Inv, TypeOK
<1>4. OpenIsPrepared'
      BY <1>2 DEF Inv, OpenIsPrepared
<1>5. \A j \in Slots : Alive(slots[j]) => Alive(slots'[j])
      BY <1>2
<1>6. ConnectionIsOwned'
      BY <1>5 DEF Inv, ConnectionIsOwned
<1> QED
      BY <1>3, <1>4, <1>6 DEF Inv, HeldIsOpen, DeallocatingIsLeaked

(* A result set proxy that lets go of its result set. *)
LEMMA LetGoKeepsInv ==
    ASSUME Inv, NEW i \in Slots, LetGo(i)
    PROVE  Inv'
<1> DEFINE t == [CheckIn(slots[i]) EXCEPT !.listed = FALSE, !.held = FALSE,
                                          !.validRow = FALSE, !.rowCount = -1]
           S == [slots EXCEPT ![i] = t]
<1>1. slots \in [Slots -> Statement]
      BY DEF Inv, TypeOK
<1>2. \A j \in Slots : slots[j].result = "open" => slots[j].sqlite = "prepared"
      BY DEF Inv, OpenIsPrepared
<1>3. /\ CheckIn(slots[i]) \in Statement
      /\ CheckIn(slots[i]).result # "open"
      /\ CheckIn(slots[i]).sqlite = "prepared" => slots[i].sqlite = "prepared"
      BY <1>1, <1>2, CheckInType
<1>4. t \in Statement /\ t.result = CheckIn(slots[i]).result
                      /\ t.sqlite = CheckIn(slots[i]).sqlite
  <2> SUFFICES ASSUME NEW c \in Statement
               PROVE  LET u == [c EXCEPT !.listed = FALSE, !.held = FALSE,
                                         !.validRow = FALSE, !.rowCount = -1]
                      IN  u \in Statement /\ u.result = c.result /\ u.sqlite = c.sqlite
        BY <1>3
  <2> DEFINE u == [c EXCEPT !.listed = FALSE, !.held = FALSE,
                            !.validRow = FALSE, !.rowCount = -1]
  <2>1. -1 \in -1..MaxRows
        BY RowsAssumption
  <2>2. u \in Statement
        BY <2>1 DEF Statement
  <2>3. u.result = c.result
        BY DEF Statement
  <2>4. u.sqlite = c.sqlite
        BY DEF Statement
  <2> QED
        BY <2>2, <2>3, <2>4
<1>5. Release(S) /\ UNCHANGED <<database, leaked, rows>>
      BY DEF LetGo
<1> HIDE DEF t
<1>6. S \in [Slots -> Statement]
      BY <1>1, <1>4
<1>7. \A j \in Slots : S[j] = IF j = i THEN t ELSE slots[j]
      BY <1>1
<1>8. \A j \in Slots : /\ S[j].result = "open" => S[j].sqlite = "prepared"
                       /\ S[j].sqlite = "prepared" => slots[j].sqlite = "prepared"
      BY <1>2, <1>3, <1>4, <1>7
<1> HIDE DEF S
<1> QED
      BY <1>5, <1>6, <1>8, ReleaseKeepsInv

(* Closing the database proxy: the connection closes exactly when nothing  *)
(* is prepared on it, and what stays prepared retains the database.        *)
LEMMA CloseKeepsInv ==
    ASSUME Inv, Close
    PROVE  Inv'
<1> DEFINE S == [i \in Slots |-> IF slots[i].listed
                               THEN [CheckIn(slots[i]) EXCEPT !.listed = FALSE]
                               ELSE slots[i]]
           busy == leaked \/ \E i \in Slots : Retained(S)[i].sqlite = "prepared"
<1>1. /\ slots' = Retained(S)
      /\ connection' = IF busy THEN "open" ELSE "closed"
      /\ database' = IF leaked /\ Unretained(S) THEN "deallocating" ELSE "nil"
      /\ UNCHANGED <<leaked, rows>>
      BY DEF Close
<1>2. slots \in [Slots -> Statement] /\ leaked \in BOOLEAN
      BY DEF Inv, TypeOK
<1>3. ASSUME NEW i \in Slots
      PROVE  S[i] \in Statement /\ (S[i].result = "open" => S[i].sqlite = "prepared")
  <2> DEFINE c == CheckIn(slots[i])
  <2>1. slots[i] \in Statement /\ (slots[i].result = "open" => slots[i].sqlite = "prepared")
        BY <1>2 DEF Inv, OpenIsPrepared
  <2>2. c \in Statement /\ c.result # "open"
        BY <2>1, CheckInType
  <2> HIDE DEF c
  <2>3. [c EXCEPT !.listed = FALSE] \in Statement
        BY <2>2 DEF Statement
  <2>4. [c EXCEPT !.listed = FALSE].result # "open"
        BY <2>2 DEF Statement
  <2>5. S[i] = IF slots[i].listed THEN [c EXCEPT !.listed = FALSE] ELSE slots[i]
        BY DEF c
  <2> HIDE DEF S
  <2> QED
        BY <2>1, <2>3, <2>4, <2>5
<1>4. S \in [Slots -> Statement]
  <2> DEFINE f(i) == IF slots[i].listed THEN [CheckIn(slots[i]) EXCEPT !.listed = FALSE]
                                        ELSE slots[i]
  <2>1. \A i \in Slots : f(i) \in Statement
        BY <1>3
  <2>2. S = [i \in Slots |-> f(i)]
        OBVIOUS
  <2> HIDE DEF f, S
  <2> QED
        BY <2>1, <2>2
<1> HIDE DEF S
<1>5. /\ Retained(S) \in [Slots -> Statement]
      /\ \A i \in Slots : \/ Retained(S)[i] = Free
                          \/ Retained(S)[i] = S[i] /\ Alive(S[i])
      BY <1>4, RetainedType
<1>6. TypeOK'
  <2>1. connection' \in {"open", "closed"} /\ database' \in {"held", "nil", "deallocating"}
        BY <1>1
  <2> QED
        BY <2>1, <1>1, <1>5 DEF Inv, TypeOK
<1>7. OpenIsPrepared'
  <2>1. \A i \in Slots : slots'[i].result = "open" => slots'[i].sqlite = "prepared"
        BY <1>1, <1>3, <1>5 DEF Free
  <2>2. \A i \in Slots : slots'[i].sqlite = "prepared" => connection' = "open"
        BY <1>1
  <2> QED
        BY <2>1, <2>2 DEF OpenIsPrepared
<1>8. ASSUME connection' = "open", ~leaked'
      PROVE  \E i \in Slots : Alive(slots'[i])
  <2>1. PICK i \in Slots : Retained(S)[i].sqlite = "prepared"
        BY <1>1, <1>8
  <2>2. Retained(S)[i] = S[i] /\ Alive(S[i])
        BY <2>1, <1>5 DEF Free
  <2> QED
        BY <1>1, <2>2
<1>9. HeldIsOpen' /\ DeallocatingIsLeaked'
      BY <1>1 DEF HeldIsOpen, DeallocatingIsLeaked
<1> QED
      BY <1>6, <1>7, <1>8, <1>9 DEF Inv, ConnectionIsOwned

(* The pool drains. *)
LEMMA DrainKeepsInv ==
    ASSUME Inv, Drain
    PROVE  Inv'
<1> DEFINE S == [i \in Slots |-> [slots[i] EXCEPT !.pooled = FALSE]]
<1>1. slots \in [Slots -> Statement]
      BY DEF Inv, TypeOK
<1>2. \A i \in Slots : slots[i].result = "open" => slots[i].sqlite = "prepared"
      BY DEF Inv, OpenIsPrepared
<1>3. ASSUME NEW i \in Slots
      PROVE  /\ [slots[i] EXCEPT !.pooled = FALSE] \in Statement
             /\ [slots[i] EXCEPT !.pooled = FALSE].result = slots[i].result
             /\ [slots[i] EXCEPT !.pooled = FALSE].sqlite = slots[i].sqlite
  <2> SUFFICES ASSUME NEW c \in Statement
               PROVE  /\ [c EXCEPT !.pooled = FALSE] \in Statement
                      /\ [c EXCEPT !.pooled = FALSE].result = c.result
                      /\ [c EXCEPT !.pooled = FALSE].sqlite = c.sqlite
        BY <1>1
  <2>1. [c EXCEPT !.pooled = FALSE] \in Statement
        BY DEF Statement
  <2>2. [c EXCEPT !.pooled = FALSE].result = c.result
        BY DEF Statement
  <2>3. [c EXCEPT !.pooled = FALSE].sqlite = c.sqlite
        BY DEF Statement
  <2> QED
        BY <2>1, <2>2, <2>3
<1>4. S \in [Slots -> Statement]
      BY <1>3
<1>5. \A i \in Slots : /\ S[i].result = "open" => S[i].sqlite = "prepared"
                       /\ S[i].sqlite = "prepared" => slots[i].sqlite = "prepared"
      BY <1>2, <1>3
<1>6. Release(S) /\ UNCHANGED <<database, leaked, rows>>
      BY DEF Drain
<1> HIDE DEF S
<1> QED
      BY <1>4, <1>5, <1>6, ReleaseKeepsInv

-----------------------------------------------------------------------------
(* The invariant *)

LEMMA InitInv == Init => Inv
<1> SUFFICES ASSUME Init PROVE Inv
    OBVIOUS
<1>1. \A i \in Slots : slots[i] = Free
      BY DEF Init
<1>2. TypeOK
      BY FreeType DEF Init, TypeOK
<1>3. Free.sqlite = "none" /\ Free.result = "none"
      BY DEF Free
<1>4. OpenIsPrepared
      BY <1>1, <1>3 DEF OpenIsPrepared
<1> QED
      BY <1>2, <1>4
      DEF Init, Inv, ConnectionIsOwned, HeldIsOpen, DeallocatingIsLeaked

LEMMA NextInv == Inv /\ [Next]_vars => Inv'
<1> SUFFICES ASSUME Inv, [Next]_vars PROVE Inv'
    OBVIOUS
<1> USE RowsAssumption
<1>1. CASE Open
  <2>1. TypeOK'
        BY <1>1 DEF Open, Inv, TypeOK
  <2>2. OpenIsPrepared'
        BY <1>1 DEF Open, Inv, OpenIsPrepared
  <2> QED
        BY <1>1, <2>1, <2>2
        DEF Open, Inv, ConnectionIsOwned, HeldIsOpen, DeallocatingIsLeaked
<1>2. CASE ManyStatements
  <2>1. TypeOK'
        BY <1>2 DEF ManyStatements, Inv, TypeOK
  <2>2. OpenIsPrepared'
        BY <1>2 DEF ManyStatements, Inv, OpenIsPrepared
  <2> QED
        BY <1>2, <2>1, <2>2
        DEF ManyStatements, Inv, ConnectionIsOwned, HeldIsOpen, DeallocatingIsLeaked
<1>3. CASE Close
      BY <1>3, CloseKeepsInv
<1>4. CASE Drain
      BY <1>4, DrainKeepsInv
<1>5. CASE Quit
  <2>1. \A i \in Slots : slots'[i] = Free
        BY <1>5 DEF Quit
  <2>2. TypeOK'
        BY <1>5, FreeType DEF Quit, Inv, TypeOK
  <2>3. OpenIsPrepared'
        BY <2>1 DEF OpenIsPrepared, Free
  <2> QED
        BY <1>5, <2>2, <2>3
        DEF Quit, Inv, ConnectionIsOwned, HeldIsOpen, DeallocatingIsLeaked
<1>6. ASSUME NEW i \in Slots, Query(i)
      PROVE  Inv'
  <2> DEFINE p == Pooled("prepared", "open")
             s == [p EXCEPT !.listed = TRUE, !.held = TRUE,
                            !.row = FirstRow(rows), !.validRow = rows > 0]
  <2>1. p \in Statement /\ p.sqlite = "prepared"
        BY PooledType
  <2>2. FirstRow(rows) \in 0..MaxRows /\ rows \in 0..MaxRows
        BY DEF FirstRow, Inv, TypeOK
  <2> DEFINE first == FirstRow(rows)
             some == rows > 0
  <2>3. first \in 0..MaxRows /\ some \in BOOLEAN
        BY <2>2
  <2>4. Execute(i, s) /\ UNCHANGED <<database, connection, leaked, rows>>
        BY <1>6 DEF Query
  <2> HIDE DEF p, first, some
  <2>5. s = [p EXCEPT !.listed = TRUE, !.held = TRUE,
                      !.row = first, !.validRow = some]
        BY DEF first, some
  <2>6. s \in Statement
    <3> SUFFICES [p EXCEPT !.listed = TRUE, !.held = TRUE,
                           !.row = first, !.validRow = some] \in Statement
        BY <2>5
    <3> HIDE DEF s
    <3> QED
        BY <2>1, <2>3 DEF Statement
  <2>7. s.sqlite = "prepared"
        BY <2>1 DEF Statement
  <2> HIDE DEF s
  <2> QED
        BY <2>2, <2>4, <2>6, <2>7, ExecuteKeepsInv
<1>7. ASSUME NEW i \in Slots, QueryRaises(i)
      PROVE  Inv'
  <2> DEFINE p == Pooled("prepared", "open")
             s == [p EXCEPT !.listed = TRUE, !.held = TRUE, !.lost = TRUE]
  <2>1. p \in Statement /\ p.sqlite = "prepared"
        BY PooledType
  <2>2. rows \in 0..MaxRows
        BY DEF Inv, TypeOK
  <2> HIDE DEF p
  <2>3. s \in Statement
        BY <2>1 DEF Statement
  <2>4. s.sqlite = "prepared"
        BY <2>1 DEF Statement
  <2>5. Execute(i, s) /\ UNCHANGED <<database, connection, leaked, rows>>
        BY <1>7 DEF QueryRaises, p
  <2> HIDE DEF s
  <2> QED
        BY <2>2, <2>3, <2>4, <2>5, ExecuteKeepsInv
<1>8. ASSUME NEW i \in Slots, BindRaises(i) \/ UpdateRaises(i)
      PROVE  Inv'
  <2>1. PICK r \in {"none", "open"} : Execute(i, Pooled("prepared", r))
        BY <1>8 DEF BindRaises, UpdateRaises
  <2>2. Pooled("prepared", r) \in Statement /\ Pooled("prepared", r).sqlite = "prepared"
        BY PooledType
  <2>3. UNCHANGED <<database, connection, leaked, rows>> /\ rows \in 0..MaxRows
        BY <1>8 DEF BindRaises, UpdateRaises, Inv, TypeOK
  <2> QED
        BY <2>1, <2>2, <2>3, ExecuteKeepsInv
<1>9. ASSUME NEW i \in Slots, Update(i)
      PROVE  Inv'
  <2> DEFINE p == Pooled("prepared", "open")
  <2>1. p \in Statement /\ p.sqlite = "prepared"
        BY PooledType
  <2>2. CheckIn(p) \in Statement /\ CheckIn(p).result # "open"
        BY <2>1, CheckInType
  <2>3. Execute(i, CheckIn(p)) /\ UNCHANGED <<database, connection, leaked>>
        BY <1>9 DEF Update
  <2>4. rows' \in 0..MaxRows
        BY <1>9 DEF Update, Inv, TypeOK
  <2> HIDE DEF p
  <2> QED
        BY <2>2, <2>3, <2>4, ExecuteKeepsInv
<1>10. ASSUME NEW i \in Slots, CloseResult(i) \/ NextEnds(i)
       PROVE  Inv'
       BY <1>10, LetGoKeepsInv DEF CloseResult, NextEnds
<1>11. ASSUME NEW i \in Slots, NextRow(i) \/ NextRaises(i) \/ RowCount(i)
       PROVE  Inv'
  <2>1. slots[i] \in Statement /\ rows \in 0..MaxRows
        BY DEF Inv, TypeOK
  <2>2. UNCHANGED <<database, connection, leaked, rows>>
        BY <1>11 DEF NextRow, NextRaises, RowCount
  <2>3. CASE NextRow(i)
    <3> DEFINE t == [slots[i] EXCEPT !.row = @ + 1, !.validRow = TRUE]
    <3>1. slots[i].row + 1 \in 0..MaxRows
          BY <2>1, <2>3 DEF NextRow, Statement
    <3>2. t \in Statement
          BY <2>1, <3>1 DEF Statement
    <3>3. /\ t.sqlite = slots[i].sqlite /\ t.result = slots[i].result
          /\ t.pooled = slots[i].pooled /\ t.listed = slots[i].listed
          /\ t.held = slots[i].held
          BY <2>1 DEF Statement
    <3>4. slots' = [slots EXCEPT ![i] = t]
          BY <2>3 DEF NextRow, Inv, TypeOK
    <3> HIDE DEF t
    <3> QED
          BY <2>2, <3>2, <3>3, <3>4, MoveKeepsInv DEF Alive
  <2>4. CASE NextRaises(i)
    <3> DEFINE t == [slots[i] EXCEPT !.row = 0]
    <3>1. t \in Statement
          BY <2>1 DEF Statement
    <3>2. /\ t.sqlite = slots[i].sqlite /\ t.result = slots[i].result
          /\ t.pooled = slots[i].pooled /\ t.listed = slots[i].listed
          /\ t.held = slots[i].held
          BY <2>1 DEF Statement
    <3>3. slots' = [slots EXCEPT ![i] = t]
          BY <2>4 DEF NextRaises, Inv, TypeOK
    <3> HIDE DEF t
    <3> QED
          BY <2>2, <3>1, <3>2, <3>3, MoveKeepsInv DEF Alive
  <2>5. CASE RowCount(i)
    <3>1. PICK counted \in 0..rows : \E row \in {FirstRow(counted), 0} :
              slots' = [slots EXCEPT ![i].rowCount = counted, ![i].row = row]
          BY <2>5 DEF RowCount
    <3>2. PICK row \in {FirstRow(counted), 0} :
              slots' = [slots EXCEPT ![i].rowCount = counted, ![i].row = row]
          BY <3>1
    <3> DEFINE t == [slots[i] EXCEPT !.rowCount = counted, !.row = row]
    <3>3. counted \in -1..MaxRows /\ row \in 0..MaxRows
          BY <2>1 DEF FirstRow
    <3>4. t \in Statement
          BY <2>1, <3>3 DEF Statement
    <3>5. /\ t.sqlite = slots[i].sqlite /\ t.result = slots[i].result
          /\ t.pooled = slots[i].pooled /\ t.listed = slots[i].listed
          /\ t.held = slots[i].held
          BY <2>1 DEF Statement
    <3>6. slots' = [slots EXCEPT ![i] = t]
          BY <3>2 DEF Inv, TypeOK
    <3> HIDE DEF t
    <3> QED
          BY <2>2, <3>4, <3>5, <3>6, MoveKeepsInv DEF Alive
  <2> QED
        BY <1>11, <2>3, <2>4, <2>5
<1>12. CASE UNCHANGED vars
  <2>1. TypeOK'
        BY <1>12 DEF vars, Inv, TypeOK
  <2>2. OpenIsPrepared'
        BY <1>12 DEF vars, Inv, OpenIsPrepared
  <2>3. ConnectionIsOwned'
        BY <1>12 DEF vars, Inv, ConnectionIsOwned
  <2> QED
        BY <1>12, <2>1, <2>2, <2>3 DEF vars, Inv, HeldIsOpen, DeallocatingIsLeaked
<1> QED
      BY <1>1, <1>2, <1>3, <1>4, <1>5, <1>6, <1>7, <1>8, <1>9, <1>10, <1>11, <1>12
      DEF Next

LEMMA InvHolds == Spec => []Inv
BY InitInv, NextInv, PTL DEF Spec

(* Type correctness, for any set of statements. *)
THEOREM TypeCorrect == Spec => []TypeOK
<1>1. Inv => TypeOK
      BY DEF Inv
<1> QED
      BY <1>1, InvHolds, PTL

(* An open result set never steps a statement that was finalised, nor one  *)
(* whose connection has closed, in whatever order the owners let go.       *)
THEOREM OpenResultsCorrect == Spec => []OpenIsPrepared
<1>1. Inv => OpenIsPrepared
      BY DEF Inv
<1> QED
      BY <1>1, InvHolds, PTL

(* No connection stays open with no object to close it, except when        *)
(* execute was given several statements.                                   *)
THEOREM OwnershipCorrect == Spec => []ConnectionIsOwned
<1>1. Inv => ConnectionIsOwned
      BY DEF Inv
<1> QED
      BY <1>1, InvHolds, PTL

(* The statement of a closed result set is not prepared: what closes a     *)
(* result set checks it in.                                                *)
ClosedIsFinalized == \A i \in Slots : slots[i].result = "closed" => slots[i].sqlite # "prepared"

LEMMA CheckInFinalizes ==
    ASSUME NEW s \in Statement, s.result = "closed" => s.sqlite # "prepared"
    PROVE  CheckIn(s).result = "closed" => CheckIn(s).sqlite # "prepared"
<1>1. CASE s.result = "open"
  <2> DEFINE t == [s EXCEPT !.result = "closed", !.sqlite = "finalized", !.row = 0]
  <2>1. CheckIn(s) = t
        BY <1>1 DEF CheckIn
  <2>2. t.sqlite = "finalized"
        BY DEF Statement
  <2> HIDE DEF t
  <2> QED
        BY <2>1, <2>2
<1>2. CASE s.result # "open"
      BY <1>2 DEF CheckIn
<1> QED
      BY <1>1, <1>2

LEMMA ClosedStep == Inv /\ ClosedIsFinalized /\ [Next]_vars => ClosedIsFinalized'
<1> SUFFICES ASSUME Inv, ClosedIsFinalized, [Next]_vars PROVE ClosedIsFinalized'
    OBVIOUS
<1>1. slots \in [Slots -> Statement]
      BY DEF Inv, TypeOK
<1>2. Free.result = "none"
      BY DEF Free
<1>3. ASSUME NEW S \in [Slots -> Statement], slots' = Retained(S),
             \A i \in Slots : S[i].result = "closed" => S[i].sqlite # "prepared"
      PROVE  ClosedIsFinalized'
      BY <1>2, <1>3, RetainedType DEF ClosedIsFinalized
<1>4. ASSUME NEW i \in Slots, NEW s, slots' = [slots EXCEPT ![i] = s],
             s.result = "closed" => s.sqlite # "prepared"
      PROVE  ClosedIsFinalized'
      BY <1>1, <1>4 DEF ClosedIsFinalized
<1>5. CASE Open \/ ManyStatements \/ UNCHANGED vars
      BY <1>5 DEF Open, ManyStatements, vars, ClosedIsFinalized
<1>6. CASE Close
  <2> DEFINE S == [i \in Slots |-> IF slots[i].listed
                                   THEN [CheckIn(slots[i]) EXCEPT !.listed = FALSE]
                                   ELSE slots[i]]
  <2>1. ASSUME NEW i \in Slots
        PROVE  S[i] \in Statement /\ (S[i].result = "closed" => S[i].sqlite # "prepared")
    <3> DEFINE c == CheckIn(slots[i])
    <3>1. c \in Statement /\ (c.result = "closed" => c.sqlite # "prepared")
          BY <1>1, CheckInType, CheckInFinalizes DEF Inv, OpenIsPrepared, ClosedIsFinalized
    <3> HIDE DEF c
    <3>2. /\ [c EXCEPT !.listed = FALSE] \in Statement
          /\ [c EXCEPT !.listed = FALSE].result = c.result
          /\ [c EXCEPT !.listed = FALSE].sqlite = c.sqlite
          BY <3>1 DEF Statement
    <3>3. S[i] = IF slots[i].listed THEN [c EXCEPT !.listed = FALSE] ELSE slots[i]
          BY DEF c
    <3> HIDE DEF S
    <3> QED
          BY <1>1, <3>1, <3>2, <3>3 DEF ClosedIsFinalized
  <2>2. slots' = Retained(S)
        BY <1>6 DEF Close
  <2>3. S \in [Slots -> Statement]
    <3>1. S = [i \in Slots |-> S[i]]
          OBVIOUS
    <3> HIDE DEF S
    <3> QED
          BY <2>1, <3>1
  <2> HIDE DEF S
  <2> QED
        BY <1>3, <2>1, <2>2, <2>3
<1>7. CASE Drain
  <2> DEFINE S == [i \in Slots |-> [slots[i] EXCEPT !.pooled = FALSE]]
  <2>1. ASSUME NEW i \in Slots
        PROVE  /\ S[i] \in Statement
               /\ S[i].result = slots[i].result /\ S[i].sqlite = slots[i].sqlite
    <3> SUFFICES ASSUME NEW c \in Statement
                 PROVE  /\ [c EXCEPT !.pooled = FALSE] \in Statement
                        /\ [c EXCEPT !.pooled = FALSE].result = c.result
                        /\ [c EXCEPT !.pooled = FALSE].sqlite = c.sqlite
          BY <1>1
    <3> QED
          BY DEF Statement
  <2>2. slots' = Retained(S)
        BY <1>7 DEF Drain, Release
  <2>3. S \in [Slots -> Statement]
    <3>1. S = [i \in Slots |-> S[i]]
          OBVIOUS
    <3> HIDE DEF S
    <3> QED
          BY <2>1, <3>1
  <2> HIDE DEF S
  <2> QED
        BY <1>3, <2>1, <2>2, <2>3 DEF ClosedIsFinalized
<1>8. CASE Quit
      BY <1>2, <1>8 DEF Quit, ClosedIsFinalized
<1>9. ASSUME NEW i \in Slots,
             Query(i) \/ QueryRaises(i) \/ BindRaises(i) \/ UpdateRaises(i)
      PROVE  ClosedIsFinalized'
  <2>1. PICK s : slots' = [slots EXCEPT ![i] = s] /\ s.result # "closed"
    <3> DEFINE p == Pooled("prepared", "open")
               q == Pooled("prepared", "none")
    <3>1. p \in Statement /\ q \in Statement /\ p.result = "open" /\ q.result = "none"
          BY PooledType
    <3>2. CASE Query(i)
      <4> DEFINE first == FirstRow(rows)
                 some == rows > 0
                 s == [p EXCEPT !.listed = TRUE, !.held = TRUE,
                                !.row = first, !.validRow = some]
      <4>1. slots' = [slots EXCEPT ![i] = s]
            BY <3>2 DEF Query, Execute
      <4>2. s.result = p.result
        <5> HIDE DEF p, first, some
        <5> QED
            BY <3>1 DEF Statement
      <4> HIDE DEF s
      <4> QED
            BY <3>1, <4>1, <4>2
    <3>3. CASE QueryRaises(i)
      <4> DEFINE s == [p EXCEPT !.listed = TRUE, !.held = TRUE, !.lost = TRUE]
      <4>1. slots' = [slots EXCEPT ![i] = s]
            BY <3>3 DEF QueryRaises, Execute
      <4>2. s.result = p.result
        <5> HIDE DEF p
        <5> QED
            BY <3>1 DEF Statement
      <4> HIDE DEF s
      <4> QED
            BY <3>1, <4>1, <4>2
    <3>4. CASE BindRaises(i) \/ UpdateRaises(i)
      <4>1. slots' = [slots EXCEPT ![i] = p] \/ slots' = [slots EXCEPT ![i] = q]
            BY <3>4 DEF BindRaises, UpdateRaises, Execute
      <4> HIDE DEF p, q
      <4> QED
            BY <3>1, <4>1
    <3> QED
          BY <1>9, <3>2, <3>3, <3>4
  <2> QED
        BY <1>4, <2>1
<1>10. ASSUME NEW i \in Slots, Update(i)
       PROVE  ClosedIsFinalized'
  <2> DEFINE p == Pooled("prepared", "open")
  <2>1. p \in Statement /\ p.result = "open"
        BY PooledType
  <2>2. slots' = [slots EXCEPT ![i] = CheckIn(p)]
        BY <1>10 DEF Update, Execute
  <2> HIDE DEF p
  <2> QED
        BY <1>4, <2>1, <2>2, CheckInFinalizes
<1>11. ASSUME NEW i \in Slots, CloseResult(i) \/ NextEnds(i)
       PROVE  ClosedIsFinalized'
  <2> DEFINE c == CheckIn(slots[i])
             t == [c EXCEPT !.listed = FALSE, !.held = FALSE,
                            !.validRow = FALSE, !.rowCount = -1]
             S == [slots EXCEPT ![i] = t]
  <2>1. c \in Statement /\ (c.result = "closed" => c.sqlite # "prepared")
        BY <1>1, CheckInType, CheckInFinalizes DEF Inv, OpenIsPrepared, ClosedIsFinalized
  <2>2. slots' = Retained(S)
        BY <1>11 DEF CloseResult, NextEnds, LetGo, Release
  <2> HIDE DEF c
  <2>3. t \in Statement /\ t.result = c.result /\ t.sqlite = c.sqlite
    <3>1. -1 \in -1..MaxRows
          BY RowsAssumption
    <3> QED
          BY <2>1, <3>1 DEF Statement
  <2> HIDE DEF t
  <2>4. S \in [Slots -> Statement] /\ \A j \in Slots : S[j] = IF j = i THEN t ELSE slots[j]
        BY <1>1, <2>3
  <2> HIDE DEF S
  <2> QED
        BY <1>3, <2>1, <2>2, <2>3, <2>4 DEF ClosedIsFinalized
<1>12. ASSUME NEW i \in Slots, NextRow(i) \/ NextRaises(i) \/ RowCount(i)
       PROVE  ClosedIsFinalized'
  <2>1. slots \in [Slots -> Statement] /\ slots[i] \in Statement
        BY <1>1
  <2>2. ASSUME NEW t, t.result = slots[i].result, t.sqlite = slots[i].sqlite,
               slots' = [slots EXCEPT ![i] = t]
        PROVE  ClosedIsFinalized'
        BY <2>1, <2>2 DEF ClosedIsFinalized
  <2>3. CASE NextRow(i)
    <3> DEFINE t == [slots[i] EXCEPT !.row = @ + 1, !.validRow = TRUE]
    <3>1. t.result = slots[i].result /\ t.sqlite = slots[i].sqlite
          BY <2>1 DEF Statement
    <3>2. slots' = [slots EXCEPT ![i] = t]
          BY <2>1, <2>3 DEF NextRow
    <3> HIDE DEF t
    <3> QED
          BY <2>2, <3>1, <3>2
  <2>4. CASE NextRaises(i)
    <3> DEFINE t == [slots[i] EXCEPT !.row = 0]
    <3>1. t.result = slots[i].result /\ t.sqlite = slots[i].sqlite
          BY <2>1 DEF Statement
    <3>2. slots' = [slots EXCEPT ![i] = t]
          BY <2>1, <2>4 DEF NextRaises
    <3> HIDE DEF t
    <3> QED
          BY <2>2, <3>1, <3>2
  <2>5. CASE RowCount(i)
    <3>1. PICK counted \in 0..rows : \E row \in {FirstRow(counted), 0} :
              slots' = [slots EXCEPT ![i].rowCount = counted, ![i].row = row]
          BY <2>5 DEF RowCount
    <3>2. PICK row \in {FirstRow(counted), 0} :
              slots' = [slots EXCEPT ![i].rowCount = counted, ![i].row = row]
          BY <3>1
    <3> DEFINE t == [slots[i] EXCEPT !.rowCount = counted, !.row = row]
    <3>3. t.result = slots[i].result /\ t.sqlite = slots[i].sqlite
          BY <2>1 DEF Statement
    <3>4. slots' = [slots EXCEPT ![i] = t]
          BY <2>1, <3>2
    <3> HIDE DEF t
    <3> QED
          BY <2>2, <3>3, <3>4
  <2> QED
        BY <1>12, <2>3, <2>4, <2>5
<1> QED
      BY <1>5, <1>6, <1>7, <1>8, <1>9, <1>10, <1>11, <1>12 DEF Next

(* close() closes the connection whenever each statement that is prepared  *)
(* belongs to a listed result set, for any number of them.                 *)
THEOREM CloseCorrect == Spec => CloseCloses
<1>1. Init => ClosedIsFinalized
      BY DEF Init, ClosedIsFinalized, Free
<1>2. Inv /\ ClosedIsFinalized /\ [Next]_vars =>
      [(/\ database = "held" /\ database' # "held" /\ ~leaked
        /\ \A i \in Slots : slots[i].result = "none" => slots[i].sqlite = "none"
        /\ \A i \in Slots : slots[i].result = "open" => slots[i].listed)
           => connection' = "closed"]_vars
  <2> SUFFICES ASSUME Inv, ClosedIsFinalized, Next, database = "held", database' # "held",
                      ~leaked,
                      \A i \in Slots : slots[i].result = "none" => slots[i].sqlite = "none",
                      \A i \in Slots : slots[i].result = "open" => slots[i].listed
               PROVE  connection' = "closed"
      OBVIOUS
  <2>1. Close \/ Quit
        BY DEF Next, Open, ManyStatements, Drain, Query, QueryRaises, BindRaises, Update,
               UpdateRaises, CloseResult, NextRow, NextEnds, NextRaises, RowCount, LetGo
  <2>2. CASE Close
    <3> DEFINE S == [i \in Slots |-> IF slots[i].listed
                                     THEN [CheckIn(slots[i]) EXCEPT !.listed = FALSE]
                                     ELSE slots[i]]
               busy == leaked \/ \E i \in Slots : Retained(S)[i].sqlite = "prepared"
    <3>1. connection' = IF busy THEN "open" ELSE "closed"
          BY <2>2 DEF Close
    <3>2. ASSUME NEW i \in Slots
          PROVE  S[i] \in Statement /\ S[i].sqlite # "prepared"
      <4> DEFINE c == CheckIn(slots[i])
      <4>1. /\ slots[i] \in Statement
            /\ slots[i].result = "closed" => slots[i].sqlite # "prepared"
            /\ slots[i].result = "open" => slots[i].sqlite = "prepared"
            BY DEF Inv, TypeOK, OpenIsPrepared, ClosedIsFinalized
      <4>2. /\ c \in Statement /\ c.result # "open"
            /\ c.result = "closed" => c.sqlite # "prepared"
            /\ c.sqlite = "prepared" => slots[i].sqlite = "prepared"
            BY <4>1, CheckInType, CheckInFinalizes
      <4>3. slots[i].sqlite = "prepared" => slots[i].result = "open" /\ slots[i].listed
            BY <4>1 DEF Statement
      <4>4. slots[i].result = "open" => c.result = "closed"
            BY <4>1 DEF CheckIn, Statement
      <4>5. c.sqlite # "prepared"
            BY <4>2, <4>3, <4>4
      <4> HIDE DEF c
      <4>6. /\ [c EXCEPT !.listed = FALSE] \in Statement
            /\ [c EXCEPT !.listed = FALSE].sqlite = c.sqlite
            BY <4>2 DEF Statement
      <4>7. S[i] = IF slots[i].listed THEN [c EXCEPT !.listed = FALSE] ELSE slots[i]
            BY DEF c
      <4> HIDE DEF S
      <4> QED
            BY <4>1, <4>3, <4>5, <4>6, <4>7
    <3>3. S \in [Slots -> Statement]
      <4>1. S = [i \in Slots |-> S[i]]
            OBVIOUS
      <4> HIDE DEF S
      <4> QED
            BY <3>2, <4>1
    <3> HIDE DEF S
    <3>4. \A i \in Slots : Retained(S)[i].sqlite # "prepared"
          BY <3>2, <3>3, RetainedType DEF Free
    <3> QED
          BY <3>1, <3>4
  <2>3. CASE Quit
        BY <2>3 DEF Quit
  <2> QED
        BY <2>1, <2>2, <2>3
<1> QED
      BY <1>1, <1>2, InvHolds, ClosedStep, PTL DEF Spec, CloseCloses

-----------------------------------------------------------------------------
(* What becomes of one statement                                           *)

(* Only execute gives a statement an owner, and that of a new one: t has   *)
(* the owners of s or fewer.                                               *)
Lighter(s, t) ==
    /\ t \in Statement
    /\ t.pooled => s.pooled
    /\ t.held => s.held
    /\ t.listed => s.listed
    /\ t.lost = s.lost

LEMMA CheckInLighter ==
    ASSUME NEW s \in Statement
    PROVE  Lighter(s, CheckIn(s))
<1>1. CASE s.result = "open"
  <2> DEFINE t == [s EXCEPT !.result = "closed", !.sqlite = "finalized", !.row = 0]
  <2>1. CheckIn(s) = t
        BY <1>1 DEF CheckIn
  <2>2. 0 \in 0..MaxRows
        BY RowsAssumption
  <2>3. t \in Statement
        BY <2>2 DEF Statement
  <2>4. t.pooled = s.pooled /\ t.held = s.held /\ t.listed = s.listed /\ t.lost = s.lost
        BY DEF Statement
  <2> HIDE DEF t
  <2> QED
        BY <2>1, <2>3, <2>4 DEF Lighter
<1>2. CASE s.result # "open"
      BY <1>2 DEF CheckIn, Lighter
<1> QED
      BY <1>1, <1>2

(* What is left of a statement: nothing, or something that an owner keeps. *)
LEMMA RetainedIs ==
    ASSUME NEW S, NEW i \in Slots
    PROVE  Retained(S)[i] = Free \/ (Retained(S)[i] = S[i] /\ Alive(S[i]))
BY DEF Retained

LEMMA LetGoSlot ==
    ASSUME TypeOK, NEW i \in Slots, NEW j \in Slots, LetGo(j)
    PROVE  \/ slots'[i] = Free
           \/ /\ Alive(slots'[i]) /\ Lighter(slots[i], slots'[i])
              /\ i = j => slots'[i].held = FALSE /\ slots'[i].listed = FALSE
<1> DEFINE c == CheckIn(slots[j])
           t == [c EXCEPT !.listed = FALSE, !.held = FALSE,
                          !.validRow = FALSE, !.rowCount = -1]
           S == [slots EXCEPT ![j] = t]
<1>1. slots \in [Slots -> Statement]
      BY DEF TypeOK
<1>2. Lighter(slots[j], c)
      BY <1>1, CheckInLighter
<1>3. slots' = Retained(S)
      BY DEF LetGo, Release
<1> HIDE DEF c
<1>4. /\ t \in Statement /\ t.pooled = c.pooled /\ t.lost = c.lost
      /\ t.held = FALSE /\ t.listed = FALSE
  <2>1. -1 \in -1..MaxRows
        BY RowsAssumption
  <2> QED
        BY <1>2, <2>1 DEF Statement, Lighter
<1> HIDE DEF t
<1>5. Lighter(slots[j], t)
      BY <1>2, <1>4 DEF Lighter
<1>6. S[i] = IF i = j THEN t ELSE slots[i]
      BY <1>1
<1> HIDE DEF S
<1>7. Lighter(slots[i], S[i]) /\ (i = j => S[i].held = FALSE /\ S[i].listed = FALSE)
      BY <1>1, <1>4, <1>5, <1>6 DEF Lighter
<1> QED
      BY <1>3, <1>7, RetainedIs

LEMMA DrainSlot ==
    ASSUME TypeOK, NEW i \in Slots, Drain
    PROVE  \/ slots'[i] = Free
           \/ /\ Alive(slots'[i]) /\ Lighter(slots[i], slots'[i])
              /\ slots'[i].pooled = FALSE
<1> DEFINE S == [j \in Slots |-> [slots[j] EXCEPT !.pooled = FALSE]]
           t == [slots[i] EXCEPT !.pooled = FALSE]
<1>1. slots[i] \in Statement /\ slots' = Retained(S) /\ S[i] = t
      BY DEF TypeOK, Drain, Release
<1>2. Lighter(slots[i], t) /\ t.pooled = FALSE
      BY <1>1 DEF Lighter, Statement
<1> HIDE DEF S, t
<1> QED
      BY <1>1, <1>2, RetainedIs

LEMMA CloseSlot ==
    ASSUME TypeOK, NEW i \in Slots, Close
    PROVE  \/ slots'[i] = Free
           \/ /\ Alive(slots'[i]) /\ Lighter(slots[i], slots'[i])
              /\ slots'[i].listed = FALSE
<1> DEFINE S == [j \in Slots |-> IF slots[j].listed
                                 THEN [CheckIn(slots[j]) EXCEPT !.listed = FALSE]
                                 ELSE slots[j]]
           c == CheckIn(slots[i])
           t == [c EXCEPT !.listed = FALSE]
<1>1. /\ slots[i] \in Statement /\ slots' = Retained(S)
      /\ S[i] = IF slots[i].listed THEN t ELSE slots[i]
      BY DEF TypeOK, Close
<1>2. Lighter(slots[i], c)
      BY <1>1, CheckInLighter
<1> HIDE DEF S, c
<1>3. /\ t \in Statement /\ t.listed = FALSE
      /\ t.pooled = c.pooled /\ t.held = c.held /\ t.lost = c.lost
      BY <1>2 DEF Lighter, Statement
<1> HIDE DEF t
<1>4. Lighter(slots[i], S[i]) /\ S[i].listed = FALSE
  <2>1. CASE slots[i].listed
        BY <1>1, <1>2, <1>3, <2>1 DEF Lighter
  <2>2. CASE ~slots[i].listed
        BY <1>1, <2>2 DEF Lighter, Statement
  <2> QED
        BY <2>1, <2>2
<1> QED
      BY <1>1, <1>4, RetainedIs

(* A cursor that moves has the owners it had. *)
LEMMA MoveSlot ==
    ASSUME TypeOK, NEW i \in Slots, NEW j \in Slots, Alive(slots[i]) \/ i # j,
           NextRow(j) \/ NextRaises(j) \/ RowCount(j), TypeOK'
    PROVE  /\ Lighter(slots[i], slots'[i])
           /\ Alive(slots[i]) => Alive(slots'[i])
           /\ i # j => slots'[i] = slots[i]
<1>1. slots \in [Slots -> Statement] /\ slots'[i] \in Statement /\ slots[i] \in Statement
      BY DEF TypeOK
<1>2. CASE i # j
      BY <1>1, <1>2 DEF NextRow, NextRaises, RowCount, Lighter
<1>3. CASE i = j
  <2>1. /\ slots'[i].pooled = slots[i].pooled /\ slots'[i].held = slots[i].held
        /\ slots'[i].listed = slots[i].listed /\ slots'[i].lost = slots[i].lost
        /\ slots'[i].sqlite = slots[i].sqlite
    <3>1. CASE NextRow(i)
          BY <1>1, <3>1 DEF NextRow, Statement
    <3>2. CASE NextRaises(i)
          BY <1>1, <3>2 DEF NextRaises, Statement
    <3>3. CASE RowCount(i)
      <4>1. PICK counted \in 0..rows : \E row \in {FirstRow(counted), 0} :
                slots' = [slots EXCEPT ![i].rowCount = counted, ![i].row = row]
            BY <3>3 DEF RowCount
      <4>2. PICK row \in {FirstRow(counted), 0} :
                slots' = [slots EXCEPT ![i].rowCount = counted, ![i].row = row]
            BY <4>1
      <4> DEFINE t == [slots[i] EXCEPT !.rowCount = counted, !.row = row]
      <4>3. /\ t.pooled = slots[i].pooled /\ t.held = slots[i].held
            /\ t.listed = slots[i].listed /\ t.lost = slots[i].lost
            /\ t.sqlite = slots[i].sqlite
            BY <1>1 DEF Statement
      <4>4. slots'[i] = t
            BY <1>1, <4>2
      <4> HIDE DEF t
      <4> QED
            BY <4>3, <4>4
    <3> QED
          BY <1>3, <3>1, <3>2, <3>3
  <2> QED
        BY <1>1, <1>3, <2>1 DEF Lighter, Alive
<1> QED
      BY <1>2, <1>3

(* What execute leaves is in the pool. *)
LEMMA ExecutedSlot ==
    ASSUME NEW j \in Slots, TypeOK,
           Query(j) \/ QueryRaises(j) \/ BindRaises(j) \/ Update(j) \/ UpdateRaises(j)
    PROVE  /\ database = "held" /\ UNCHANGED database /\ slots[j] = Free
           /\ Alive(slots'[j])
           /\ \A i \in Slots : i # j => slots'[i] = slots[i]
<1>1. slots \in [Slots -> Statement]
      BY DEF TypeOK
<1> DEFINE p == Pooled("prepared", "open")
           q == Pooled("prepared", "none")
<1>2. /\ p \in Statement /\ p.sqlite = "prepared" /\ p.pooled = TRUE
      /\ q \in Statement /\ q.sqlite = "prepared" /\ q.pooled = TRUE
      BY PooledType
<1>3. CheckIn(p).sqlite = "finalized" /\ CheckIn(p).pooled = TRUE
  <2>1. p.result = "open"
        BY PooledType
  <2> HIDE DEF p
  <2> DEFINE t == [p EXCEPT !.result = "closed", !.sqlite = "finalized", !.row = 0]
  <2>2. CheckIn(p) = t
        BY <2>1 DEF CheckIn
  <2>3. t.sqlite = "finalized" /\ t.pooled = p.pooled
        BY <1>2 DEF Statement
  <2> QED
        BY <1>2, <2>2, <2>3
<1> HIDE DEF p, q
<1>4. \E s : /\ Execute(j, s) /\ UNCHANGED database
             /\ s.sqlite \in {"prepared", "finalized"} /\ s.pooled = TRUE
  <2>1. CASE Query(j)
    <3> DEFINE first == FirstRow(rows)
               some == rows > 0
               s == [p EXCEPT !.listed = TRUE, !.held = TRUE,
                              !.row = first, !.validRow = some]
    <3>1. Execute(j, s) /\ UNCHANGED database
          BY <2>1 DEF Query, p
    <3>2. s.sqlite = p.sqlite /\ s.pooled = p.pooled
      <4> HIDE DEF first, some
      <4> QED
          BY <1>2 DEF Statement
    <3> HIDE DEF s
    <3> QED
          BY <1>2, <3>1, <3>2
  <2>2. CASE QueryRaises(j)
    <3> DEFINE s == [p EXCEPT !.listed = TRUE, !.held = TRUE, !.lost = TRUE]
    <3>1. Execute(j, s) /\ UNCHANGED database
          BY <2>2 DEF QueryRaises, p
    <3>2. s.sqlite = p.sqlite /\ s.pooled = p.pooled
          BY <1>2 DEF Statement
    <3> HIDE DEF s
    <3> QED
          BY <1>2, <3>1, <3>2
  <2>3. CASE BindRaises(j)
        BY <1>2, <2>3 DEF BindRaises, q
  <2>4. CASE UpdateRaises(j)
        BY <1>2, <2>4 DEF UpdateRaises, p
  <2>5. CASE Update(j)
        BY <1>3, <2>5 DEF Update, p
  <2> QED
        BY <2>1, <2>2, <2>3, <2>4, <2>5
<1> QED
      BY <1>1, <1>4 DEF Execute, Alive

-----------------------------------------------------------------------------
(* Statement i is gone, or something retains it; and the array of the      *)
(* database proxy is emptied when that lets go of its database.            *)
Owned(i) ==
    /\ slots[i] = Free \/ Alive(slots[i])
    /\ slots[i].listed => database = "held"

LEMMA SlotStep ==
    ASSUME Inv, Inv', NEW i \in Slots, Owned(i), [Next]_vars
    PROVE  /\ Owned(i)'
           /\ \/ slots'[i] = Free
              \/ Lighter(slots[i], slots'[i])
              \/ database = "held" /\ slots[i] = Free
           /\ database' = "held" /\ database # "held" => slots'[i] = Free
<1>1. TypeOK /\ TypeOK' /\ slots[i] \in Statement /\ slots'[i] \in Statement
      BY DEF Inv, TypeOK
<1>2. Free.listed = FALSE
      BY DEF Free
<1>3. Lighter(slots[i], slots[i])
      BY <1>1 DEF Lighter
<1>4. ASSUME slots'[i] = slots[i], UNCHANGED database
      PROVE  /\ Owned(i)' /\ Lighter(slots[i], slots'[i])
             /\ ~(database' = "held" /\ database # "held")
      BY <1>3, <1>4 DEF Owned, Alive
<1>5. ASSUME Alive(slots'[i]), Lighter(slots[i], slots'[i]), UNCHANGED database
      PROVE  /\ Owned(i)' /\ ~(database' = "held" /\ database # "held")
      BY <1>5 DEF Owned, Lighter, Alive
<1>6. ASSUME slots'[i] = Free
      PROVE  Owned(i)'
      BY <1>2, <1>6 DEF Owned
<1>7. CASE ManyStatements \/ UNCHANGED vars
      BY <1>4, <1>7 DEF ManyStatements, vars
<1>8. CASE Open \/ Quit
  <2>1. slots'[i] = Free
        BY <1>8 DEF Open, Quit
  <2> QED
        BY <1>6, <2>1
<1>9. CASE Close
  <2>1. database = "held" /\ database' # "held"
        BY <1>9 DEF Close
  <2>2. \/ slots'[i] = Free
        \/ /\ Alive(slots'[i]) /\ Lighter(slots[i], slots'[i])
           /\ slots'[i].listed = FALSE
        BY <1>1, <1>9, CloseSlot
  <2> QED
        BY <1>6, <2>1, <2>2 DEF Owned, Alive
<1>10. CASE Drain \/ \E j \in Slots : LetGo(j)
  <2>1. UNCHANGED database
        BY <1>10 DEF Drain, LetGo
  <2>2. slots'[i] = Free \/ (Alive(slots'[i]) /\ Lighter(slots[i], slots'[i]))
        BY <1>1, <1>10, DrainSlot, LetGoSlot
  <2>3. database' = "held" /\ database # "held" => slots'[i] = Free
        BY <2>1
  <2> QED
        BY <1>5, <1>6, <2>1, <2>2, <2>3
<1>11. ASSUME NEW j \in Slots, NextRow(j) \/ NextRaises(j) \/ RowCount(j)
       PROVE  Owned(i)' /\ Lighter(slots[i], slots'[i]) /\ UNCHANGED database
  <2>1. UNCHANGED database
        BY <1>11 DEF NextRow, NextRaises, RowCount
  <2>2. CASE i # j
    <3>1. slots'[i] = slots[i]
          BY <1>1, <1>11, <2>2, MoveSlot
    <3> QED
          BY <1>4, <2>1, <3>1
  <2>3. CASE i = j
    <3>1. slots[i].held
          BY <1>11, <2>3 DEF NextRow, NextRaises, RowCount, Reads
    <3>2. Alive(slots[i])
          BY <3>1 DEF Owned, Free
    <3> QED
          BY <1>1, <1>5, <1>11, <2>1, <3>2, MoveSlot
  <2> QED
        BY <2>2, <2>3
<1>12. ASSUME NEW j \in Slots,
              Query(j) \/ QueryRaises(j) \/ BindRaises(j) \/ Update(j) \/ UpdateRaises(j)
       PROVE  /\ Owned(i)'
              /\ Lighter(slots[i], slots'[i]) \/ (database = "held" /\ slots[i] = Free)
              /\ UNCHANGED database
  <2>1. /\ database = "held" /\ UNCHANGED database /\ slots[j] = Free /\ Alive(slots'[j])
        /\ i # j => slots'[i] = slots[i]
        BY <1>1, <1>12, ExecutedSlot
  <2>2. CASE i # j
        BY <1>4, <2>1, <2>2
  <2>3. CASE i = j
        BY <2>1, <2>3 DEF Owned, Alive
  <2> QED
        BY <2>2, <2>3
<1>13. \/ ManyStatements \/ UNCHANGED vars \/ Open \/ Quit \/ Close
       \/ Drain \/ \E j \in Slots : LetGo(j)
       \/ \E j \in Slots : NextRow(j) \/ NextRaises(j) \/ RowCount(j)
       \/ \E j \in Slots : \/ Query(j) \/ QueryRaises(j) \/ BindRaises(j)
                            \/ Update(j) \/ UpdateRaises(j)
       BY DEF Next, CloseResult, NextEnds
<1> QED
      BY <1>4, <1>6, <1>7, <1>8, <1>9, <1>10, <1>11, <1>12, <1>13

LEMMA OwnedHolds ==
    ASSUME NEW i \in Slots
    PROVE  Spec => []Owned(i)
<1>1. Init => Owned(i)
      BY DEF Init, Owned, Free
<1>2. Inv /\ Inv' /\ Owned(i) /\ [Next]_vars => Owned(i)'
      BY SlotStep
<1> QED
      BY <1>1, <1>2, InvHolds, PTL DEF Spec

(* The database proxy has let go of its database; the pool, or only the    *)
(* result set proxy, still retains statement i.                            *)
InPool(i) ==
    /\ database # "held" /\ slots[i] # Free /\ slots[i].lost = FALSE
    /\ slots[i].pooled = TRUE

InProxy(i) ==
    /\ database # "held" /\ slots[i] # Free /\ slots[i].lost = FALSE
    /\ slots[i].pooled = FALSE

LEMMA ReleaseSteps ==
    ASSUME NEW i \in Slots
    PROVE  /\ Inv /\ Inv' /\ Owned(i) /\ [Next]_vars /\ InPool(i)
                 => InPool(i)' \/ InProxy(i)' \/ slots'[i] = Free
           /\ Inv /\ Inv' /\ Owned(i) /\ <<Drain>>_vars => ~InPool(i)'
           /\ Inv /\ Inv' /\ Owned(i) /\ [Next]_vars /\ InProxy(i)
                 => InProxy(i)' \/ slots'[i] = Free
           /\ Inv /\ Inv' /\ Owned(i) /\ InProxy(i) /\ <<CloseResult(i)>>_vars
                 => slots'[i] = Free
           /\ InPool(i) => \E j \in Slots : slots[j].pooled
           /\ Inv /\ Owned(i) /\ InProxy(i) => slots[i].held /\ ~slots[i].lost
<1>1. ASSUME Inv, Inv', Owned(i), [Next]_vars, database # "held", slots[i] # Free,
             slots[i].lost = FALSE, slots'[i] # Free
      PROVE  /\ database' # "held" /\ slots'[i].lost = FALSE
             /\ slots'[i].pooled \in BOOLEAN /\ (slots'[i].pooled => slots[i].pooled)
  <2>1. Lighter(slots[i], slots'[i]) /\ database' # "held"
        BY <1>1, SlotStep
  <2> QED
        BY <1>1, <2>1 DEF Lighter, Statement
<1>2. ASSUME Inv, Drain
      PROVE  ~InPool(i)'
      BY <1>2, DrainSlot DEF InPool, Inv
<1>3. ASSUME Inv, Owned(i), InProxy(i)
      PROVE  slots[i].held /\ ~slots[i].lost
      BY <1>3 DEF InProxy, Owned, Alive
<1>4. ASSUME Inv, Inv', Owned(i), InProxy(i), CloseResult(i)
      PROVE  slots'[i] = Free
  <2>1. LetGo(i) /\ UNCHANGED database /\ TypeOK /\ slots[i] \in Statement
        BY <1>4 DEF CloseResult, LetGo, Inv, TypeOK
  <2>2. \/ slots'[i] = Free
        \/ /\ Alive(slots'[i]) /\ Lighter(slots[i], slots'[i])
           /\ slots'[i].held = FALSE /\ slots'[i].listed = FALSE
        BY <2>1, LetGoSlot
  <2> QED
        BY <1>4, <2>2 DEF InProxy, Alive, Lighter
<1> QED
      BY <1>1, <1>2, <1>3, <1>4 DEF InPool, InProxy

(* Once close() was called, every statement is released in the end, that   *)
(* of a result set still open and that of a call that raised among them,   *)
(* if the pool drains whenever something stays in it and the proxy of the  *)
(* result set, unless it was lost, is closed or collected.  The two        *)
(* conditions are what the fairness of LiveSpec means, as either action    *)
(* changes the statement whenever it is possible.  ClosesAtLast follows by *)
(* as many uses of this as there are statements: the connection closes     *)
(* with the last of them.                                                  *)
THEOREM StatementReleased ==
    ASSUME NEW i \in Slots
    PROVE  /\ Spec
           /\ <>[](\E j \in Slots : slots[j].pooled) => []<><<Drain>>_vars
           /\ <>[](slots[i].held /\ ~slots[i].lost) => []<><<CloseResult(i)>>_vars
           => ((database # "held" /\ ~slots[i].lost) ~> slots[i] = Free)
<1> DEFINE gone == slots[i] = Free
           pool == \E j \in Slots : slots[j].pooled
           proxy == slots[i].held /\ ~slots[i].lost
           let == database # "held" /\ ~slots[i].lost
<1>1. /\ Inv /\ Inv' /\ Owned(i) /\ [Next]_vars /\ InPool(i)
            => InPool(i)' \/ InProxy(i)' \/ gone'
      /\ Inv /\ Inv' /\ Owned(i) /\ <<Drain>>_vars => ~InPool(i)'
      BY ReleaseSteps
<1>2. /\ Inv /\ Inv' /\ Owned(i) /\ [Next]_vars /\ InProxy(i) => InProxy(i)' \/ gone'
      /\ Inv /\ Inv' /\ Owned(i) /\ InProxy(i) /\ <<CloseResult(i)>>_vars => gone'
      BY ReleaseSteps
<1>3. InPool(i) => pool
      BY ReleaseSteps
<1>4. Inv /\ Owned(i) /\ InProxy(i) => proxy
      BY ReleaseSteps
<1>5. Inv /\ let => gone \/ InPool(i) \/ InProxy(i)
      BY DEF Inv, TypeOK, Statement, InPool, InProxy
<1>6. Spec => [][Next]_vars /\ []Inv /\ []Owned(i)
      BY InvHolds, OwnedHolds, PTL DEF Spec
<1> HIDE DEF gone, pool, proxy, let
<1>7. Spec /\ (<>[]pool => []<><<Drain>>_vars) => (InPool(i) ~> (InProxy(i) \/ gone))
      BY <1>1, <1>3, <1>6, PTL
<1>8. Spec /\ (<>[]proxy => []<><<CloseResult(i)>>_vars) => (InProxy(i) ~> gone)
      BY <1>2, <1>4, <1>6, PTL
<1>9. /\ Spec
      /\ <>[]pool => []<><<Drain>>_vars
      /\ <>[]proxy => []<><<CloseResult(i)>>_vars
      => (let ~> gone)
      BY <1>5, <1>6, <1>7, <1>8, PTL
<1> QED
      BY <1>9 DEF gone, pool, proxy, let
-----------------------------------------------------------------------------
(* The cursor after rowCount                                               *)

(* s and t are one result set before and after a step. *)
GoesOn(s, t) ==
    t.rowCount = s.rowCount /\ t.row \in {s.row, s.row + 1, 0}

LEMMA CountStep ==
    ASSUME TypeOK, Next, NEW i \in Slots, Reads(i), slots[i].rowCount # -1,
           slots'[i].held, slots'[i].result = "open"
    PROVE  GoesOn(slots[i], slots'[i])
<1>1. slots \in [Slots -> Statement]
      BY DEF TypeOK
<1>2. slots'[i] = slots[i] => GoesOn(slots[i], slots'[i])
      BY DEF GoesOn
<1>3. slots[i] # Free /\ Free.held = FALSE
      BY DEF Reads, Free
<1>4. ASSUME NEW j \in Slots, LetGo(j)
      PROVE  GoesOn(slots[i], slots'[i])
  <2> DEFINE t == [CheckIn(slots[j]) EXCEPT !.listed = FALSE, !.held = FALSE,
                                            !.validRow = FALSE, !.rowCount = -1]
             S == [slots EXCEPT ![j] = t]
  <2>1. i # j
        BY <1>3, <1>4, LetGoSlot
  <2>2. slots' = Retained(S) /\ S[i] = slots[i]
        BY <1>1, <1>4, <2>1 DEF LetGo, Release
  <2> HIDE DEF S
  <2> QED
        BY <1>2, <1>3, <2>2, RetainedIs
<1>5. CASE Drain
  <2> DEFINE S == [j \in Slots |-> [slots[j] EXCEPT !.pooled = FALSE]]
             t == [slots[i] EXCEPT !.pooled = FALSE]
  <2>1. slots' = Retained(S) /\ S[i] = t
        BY <1>5 DEF Drain, Release
  <2>2. t.rowCount = slots[i].rowCount /\ t.row = slots[i].row
        BY <1>1 DEF Statement
  <2> HIDE DEF S, t
  <2>3. slots'[i] = t
        BY <1>3, <2>1, RetainedIs
  <2> QED
        BY <2>2, <2>3 DEF GoesOn
<1>6. CASE Close
  <2> DEFINE S == [j \in Slots |-> IF slots[j].listed
                                   THEN [CheckIn(slots[j]) EXCEPT !.listed = FALSE]
                                   ELSE slots[j]]
             c == CheckIn(slots[i])
             t == [c EXCEPT !.listed = FALSE]
  <2>1. slots' = Retained(S) /\ S[i] = IF slots[i].listed THEN t ELSE slots[i]
        BY <1>6 DEF Close
  <2>2. c \in Statement /\ c.result # "open"
    <3>1. slots[i] \in Statement
          BY <1>1
    <3>2. c \in Statement
          BY <3>1, CheckInLighter DEF Lighter
    <3>3. c.result # "open"
          BY <3>1 DEF CheckIn, Statement
    <3> QED
          BY <3>2, <3>3
  <2> HIDE DEF S, c
  <2>3. t.result # "open"
        BY <2>2 DEF Statement
  <2> HIDE DEF t
  <2>4. slots'[i] = S[i]
        BY <1>3, <2>1, RetainedIs
  <2>5. S[i] # t
        BY <2>3, <2>4
  <2> QED
        BY <1>2, <2>1, <2>4, <2>5
<1>7. CASE Quit
      BY <1>3, <1>7 DEF Quit
<1>8. CASE Open \/ ManyStatements
      BY <1>2, <1>8 DEF Open, ManyStatements
<1>9. ASSUME NEW j \in Slots,
             Query(j) \/ QueryRaises(j) \/ BindRaises(j) \/ Update(j) \/ UpdateRaises(j)
      PROVE  GoesOn(slots[i], slots'[i])
      BY <1>2, <1>3, <1>9, ExecutedSlot
<1>10. ASSUME NEW j \in Slots, NextRow(j) \/ NextRaises(j) \/ RowCount(j)
       PROVE  GoesOn(slots[i], slots'[i])
  <2>1. CASE i # j
        BY <1>1, <1>2, <1>10, <2>1 DEF NextRow, NextRaises, RowCount
  <2>2. CASE i = j
    <3>1. NextRow(i) \/ NextRaises(i)
          BY <1>10, <2>2 DEF RowCount
    <3>2. CASE NextRow(i)
      <4> DEFINE t == [slots[i] EXCEPT !.row = @ + 1, !.validRow = TRUE]
      <4>1. slots'[i] = t
            BY <1>1, <3>2 DEF NextRow
      <4>2. t.rowCount = slots[i].rowCount /\ t.row = slots[i].row + 1
            BY <1>1 DEF Statement
      <4> HIDE DEF t
      <4> QED
            BY <4>1, <4>2 DEF GoesOn
    <3>3. CASE NextRaises(i)
      <4> DEFINE t == [slots[i] EXCEPT !.row = 0]
      <4>1. slots'[i] = t
            BY <1>1, <3>3 DEF NextRaises
      <4>2. t.rowCount = slots[i].rowCount /\ t.row = 0
            BY <1>1 DEF Statement
      <4> HIDE DEF t
      <4> QED
            BY <4>1, <4>2 DEF GoesOn
    <3> QED
          BY <3>1, <3>2, <3>3
  <2> QED
        BY <2>1, <2>2
<1> QED
      BY <1>4, <1>5, <1>6, <1>7, <1>8, <1>9, <1>10 DEF Next, CloseResult, NextEnds

(* rowCount moves the cursor of a result set back at most once, for any    *)
(* number of rows and of statements around it, and its count then stays.   *)
THEOREM CountKept == Spec => CountedOnce
<1>1. TypeOK /\ [Next]_vars =>
      [\A i \in Slots :
          Reads(i) /\ slots[i].rowCount # -1 /\ Reads(i)' =>
              /\ slots'[i].rowCount = slots[i].rowCount
              /\ slots'[i].row \in {slots[i].row, slots[i].row + 1, 0}]_vars
  <2> SUFFICES ASSUME TypeOK, Next, NEW i \in Slots, Reads(i), slots[i].rowCount # -1,
                      Reads(i)'
               PROVE  GoesOn(slots[i], slots'[i])
      BY DEF GoesOn
  <2>1. slots'[i].held /\ slots'[i].result = "open"
        BY DEF Reads
  <2> QED
        BY <2>1, CountStep
<1> QED
      BY <1>1, TypeCorrect, PTL DEF Spec, CountedOnce

=============================================================================
