------------------------ MODULE AndroidCursor_proofs ------------------------
(***************************************************************************)
(* Proofs about AndroidCursor: what an Android result set reads while      *)
(* the table changes under it.                                             *)
(***************************************************************************)
EXTENDS AndroidCursor, SequenceTheorems, TLAPS

-----------------------------------------------------------------------------
(* The inductive invariant *)

Increasing(rows) == \A j, k \in 1..Len(rows) : j < k => rows[j] < rows[k]

(* Rows are numbered as they are inserted and never moved. *)
TableInOrder ==
    /\ Len(table) <= inserted
    /\ \A k \in 1..Len(table) : table[k] <= inserted
    /\ Increasing(table)

(* A result set stays between the first row and the end of its query. *)
InRange(s) ==
    /\ Len(s.query) <= MaxInserts
    /\ \A k \in 1..Len(s.query) : s.query[k] <= inserted
    /\ s.state = "open" /\ Count(s) > 0 => s.pos \in 0..Count(s)

(* A row that was deleted never comes back: a query that is not intact has *)
(* lost a row for good.                                                    *)
Gone(s) == \E k \in 1..Count(s) : \A m \in 1..Len(table) : table[m] # s.query[k]

IntactOrGone(s) == Intact(s) \/ Gone(s)

(* The window of an intact query shows its rows, and the one it is on. *)
WindowShows(s) ==
    s.state = "open" /\ s.filled /\ Intact(s) =>
        /\ s.pos \in 0..Count(s) - 1 => InWindow(s, s.pos)
        /\ \A m \in 1..Len(s.window) :
               s.start + m <= Count(s) => s.window[m] = s.query[s.start + m]

(* A small result is never filled a second time. *)
SmallKept(s) ==
    s.state = "open" /\ Count(s) <= WindowRows =>
        s.filled /\ s.start = 0 /\ s.window = s.query

(* What the table has behind a row of the window was inserted later. *)
WindowInOrder(s) ==
    /\ Increasing(s.window)
    /\ \A j \in 1..Len(s.window) : s.window[j] <= inserted
    /\ \A j \in 1..Len(s.window), m \in 1..Len(table) :
           m > s.start + j => table[m] > s.window[j]

(* And so it is with the row that was read. *)
ReadInOrder(s) ==
    s.readAt # -1 =>
        /\ s.row <= inserted
        /\ \A m \in 1..Len(table) : m > s.readAt + 1 => table[m] > s.row
        /\ \A j \in 1..Len(s.window) : s.start + j > s.readAt + 1 => s.window[j] > s.row

SetInv(s) ==
    /\ InRange(s)
    /\ IntactOrGone(s)
    /\ WindowShows(s)
    /\ SmallKept(s)
    /\ WindowInOrder(s)
    /\ ReadInOrder(s)

Inv ==
    /\ TypeOK
    /\ TableInOrder
    /\ \A i \in Slots : SetInv(sets[i])

-----------------------------------------------------------------------------
(* The sequences *)

LEMMA RowsType ==
    ASSUME NEW rows \in Seq(RowNumbers)
    PROVE  /\ Len(rows) \in Nat
           /\ \A k \in 1..Len(rows) : rows[k] \in RowNumbers /\ rows[k] \in Nat
  <1>1. Len(rows) \in Nat
    OBVIOUS
  <1>2. \A k \in 1..Len(rows) : rows[k] \in RowNumbers
    OBVIOUS
  <1>3. \A k \in RowNumbers : k \in Nat
    BY BoundsAssumption DEF RowNumbers
  <1> QED BY <1>1, <1>2, <1>3

LEMMA TableType ==
    ASSUME TypeOK
    PROVE  /\ Len(table) \in Nat /\ inserted \in Nat
           /\ \A k \in 1..Len(table) : table[k] \in RowNumbers /\ table[k] \in Nat
  BY RowsType, BoundsAssumption DEF TypeOK

LEMMA SetType ==
    ASSUME NEW s \in ResultSet
    PROVE  /\ s.query \in Seq(RowNumbers) /\ s.window \in Seq(RowNumbers)
           /\ Len(s.query) \in Nat /\ Len(s.window) \in Nat
           /\ \A k \in 1..Len(s.query) : s.query[k] \in Nat
           /\ \A k \in 1..Len(s.window) : s.window[k] \in Nat
           /\ s.start \in Nat /\ s.row \in Nat /\ s.readAt \in Int /\ s.pos \in Int
  <1>1. s.query \in Seq(RowNumbers) /\ s.window \in Seq(RowNumbers)
    BY DEF ResultSet
  <1>2. s.start \in Nat /\ s.row \in Nat /\ s.readAt \in Int /\ s.pos \in Int
    BY BoundsAssumption DEF ResultSet
  <1> QED BY <1>1, <1>2, RowsType

LEMMA NoneType == NoResultSet \in ResultSet
  <1>1. <<>> \in Seq(RowNumbers)
    OBVIOUS
  <1> QED BY <1>1, BoundsAssumption DEF NoResultSet, ResultSet

(* What a window is filled with. *)
LEMMA WindowRowsAre ==
    ASSUME TypeOK, NEW start \in Nat
    PROVE  /\ WindowFrom(start) \in Seq(RowNumbers)
           /\ Len(WindowFrom(start)) \in Nat
           /\ \A j \in 1..Len(WindowFrom(start)) :
                  /\ start + j \in 1..Len(table)
                  /\ WindowFrom(start)[j] = table[start + j]
           /\ \A j \in 1..WindowRows :
                  start + j <= Len(table) => j <= Len(WindowFrom(start))
  <1> DEFINE end == IF start + WindowRows < Len(table) THEN start + WindowRows
                    ELSE Len(table)
  <1>1. end \in Nat /\ end <= Len(table)
    BY TableType, WindowAssumption
  <1>2. \A k \in start + 1 .. end : table[k] \in RowNumbers
    BY <1>1, TableType
  <1>3. WindowFrom(start) = SubSeq(table, start + 1, end)
    BY DEF WindowFrom
  <1>4. start + 1 \in Int /\ end \in Int
    BY <1>1
  <1> HIDE DEF end
  <1>5. /\ SubSeq(table, start + 1, end) \in Seq(RowNumbers)
        /\ Len(SubSeq(table, start + 1, end)) =
               IF start + 1 <= end THEN end - (start + 1) + 1 ELSE 0
        /\ \A i \in 1 .. end - (start + 1) + 1 :
               SubSeq(table, start + 1, end)[i] = table[start + 1 + i - 1]
    BY <1>2, <1>4, SubSeqProperties
  <1>6. Len(WindowFrom(start)) = IF start + 1 <= end THEN end - start ELSE 0
    BY <1>1, <1>3, <1>5
  <1>7. ASSUME NEW j \in 1..Len(WindowFrom(start))
        PROVE  /\ start + j \in 1..Len(table)
               /\ WindowFrom(start)[j] = table[start + j]
    <2>1. start + 1 <= end /\ j \in 1 .. end - (start + 1) + 1
      BY <1>1, <1>6
    <2>2. start + 1 + j - 1 = start + j
      BY <2>1, <1>1
    <2> QED BY <1>1, <1>3, <1>5, <2>1, <2>2, TableType
  <1>8. ASSUME NEW j \in 1..WindowRows, start + j <= Len(table)
        PROVE  j <= Len(WindowFrom(start))
    BY <1>1, <1>6, <1>8, WindowAssumption, TableType DEF end
  <1> QED BY <1>1, <1>3, <1>5, <1>6, <1>7, <1>8

(* The table without its row k. *)
LEMMA WithoutRow ==
    ASSUME TypeOK, NEW k \in 1..Len(table)
    PROVE  LET rows == SubSeq(table, 1, k - 1) \o SubSeq(table, k + 1, Len(table))
           IN  /\ rows \in Seq(RowNumbers)
               /\ Len(rows) = Len(table) - 1
               /\ \A m \in 1..Len(rows) :
                      rows[m] = IF m < k THEN table[m] ELSE table[m + 1]
  <1> DEFINE before == SubSeq(table, 1, k - 1)
             behind == SubSeq(table, k + 1, Len(table))
  <1>1. k \in Int /\ 1 \in Int /\ k - 1 \in Int /\ k + 1 \in Int /\ Len(table) \in Int
    BY TableType
  <1>2. /\ before \in Seq(RowNumbers)
        /\ Len(before) = IF 1 <= k - 1 THEN k - 1 - 1 + 1 ELSE 0
        /\ \A m \in 1 .. k - 1 - 1 + 1 : before[m] = table[1 + m - 1]
    <2>1. \A m \in 1 .. k - 1 : table[m] \in RowNumbers
      BY TableType
    <2> QED BY <1>1, <2>1, SubSeqProperties
  <1>3. /\ behind \in Seq(RowNumbers)
        /\ Len(behind) = IF k + 1 <= Len(table) THEN Len(table) - (k + 1) + 1 ELSE 0
        /\ \A m \in 1 .. Len(table) - (k + 1) + 1 : behind[m] = table[k + 1 + m - 1]
    <2>1. \A m \in k + 1 .. Len(table) : table[m] \in RowNumbers
      BY TableType
    <2> QED BY <1>1, <2>1, SubSeqProperties
  <1> HIDE DEF before, behind
  <1>4. Len(before) = k - 1 /\ Len(behind) = Len(table) - k
    BY <1>1, <1>2, <1>3, TableType
  <1>5. /\ before \o behind \in Seq(RowNumbers)
        /\ Len(before \o behind) = Len(before) + Len(behind)
        /\ \A m \in 1 .. Len(before) + Len(behind) :
               (before \o behind)[m] =
                   IF m <= Len(before) THEN before[m] ELSE behind[m - Len(before)]
    BY <1>2, <1>3, ConcatProperties
  <1>6. Len(before \o behind) = Len(table) - 1
    BY <1>4, <1>5, TableType
  <1>7. ASSUME NEW m \in 1..Len(before \o behind)
        PROVE  (before \o behind)[m] = IF m < k THEN table[m] ELSE table[m + 1]
    <2>1. CASE m < k
      <3>1. m \in 1 .. k - 1 - 1 + 1 /\ 1 + m - 1 = m /\ m <= Len(before)
        BY <2>1, <1>4
      <3> QED BY <1>2, <1>5, <3>1, <2>1
    <2>2. CASE ~(m < k)
      <3>1. /\ m - (k - 1) \in 1 .. Len(table) - (k + 1) + 1
            /\ k + 1 + (m - (k - 1)) - 1 = m + 1
            /\ ~(m <= Len(before))
        BY <2>2, <1>4, <1>6, TableType
      <3> QED BY <1>3, <1>4, <1>5, <3>1, <2>2
    <2> QED BY <2>1, <2>2
  <1> QED BY <1>5, <1>6, <1>7 DEF before, behind

-----------------------------------------------------------------------------
(* Steps that change the table *)

(* What such a step may do to the rows that a result set has met. *)
LEMMA TableChange ==
    ASSUME TypeOK, TypeOK', NEW s \in ResultSet, SetInv(s),
           inserted' >= inserted,
           \A m \in 1..Len(table') :
               \/ table'[m] > inserted
               \/ \E k \in 1..Len(table) : k >= m /\ table'[m] = table[k],
           IntactOrGone(s)', Gone(s) => Gone(s)'
    PROVE  SetInv(s)'
  <1>1. inserted \in Nat /\ inserted' \in Nat /\ Len(table) \in Nat /\ Len(table') \in Nat
    BY BoundsAssumption DEF TypeOK
  <1>2. /\ Len(s.query) \in Nat /\ Len(s.window) \in Nat
        /\ \A k \in 1..Len(s.query) : s.query[k] \in Nat
        /\ \A k \in 1..Len(s.window) : s.window[k] \in Nat
        /\ s.start \in Nat /\ s.row \in Nat /\ s.readAt \in Int
    BY SetType
  <1>3. /\ \A m \in 1..Len(table) : table[m] \in Nat
        /\ \A m \in 1..Len(table') : table'[m] \in Nat
    BY RowsType DEF TypeOK
  <1>4. InRange(s)'
    BY <1>1, <1>2 DEF SetInv, InRange, Count
  <1>5. Intact(s)' => ~Gone(s)'
    BY DEF Intact, Gone, Count
  <1>6. Intact(s)' => Intact(s)
    BY <1>5 DEF SetInv, IntactOrGone
  <1>7. WindowShows(s)'
    BY <1>6 DEF SetInv, WindowShows, InWindow, Count
  <1>8. SmallKept(s)'
    BY DEF SetInv, SmallKept, Count
  <1>9. WindowInOrder(s)'
    <2>1. \A j \in 1..Len(s.window) : s.window[j] <= inserted'
      BY <1>1, <1>2 DEF SetInv, WindowInOrder
    <2>2. ASSUME NEW j \in 1..Len(s.window), NEW m \in 1..Len(table'), m > s.start + j
          PROVE  table'[m] > s.window[j]
      <3>1. \A k \in 1..Len(table) : k > s.start + j => table[k] > s.window[j]
        BY DEF SetInv, WindowInOrder
      <3>2. s.window[j] \in Nat /\ s.window[j] <= inserted /\ table'[m] \in Nat
        BY <1>2, <1>3 DEF SetInv, WindowInOrder
      <3>3. CASE table'[m] > inserted
        BY <1>1, <3>2, <3>3
      <3>4. CASE \E k \in 1..Len(table) : k >= m /\ table'[m] = table[k]
        BY <1>1, <1>2, <2>2, <3>1, <3>4
      <3> QED BY <3>3, <3>4
    <2> QED BY <2>1, <2>2 DEF SetInv, WindowInOrder, Increasing
  <1>10. ReadInOrder(s)'
    <2> SUFFICES ASSUME s.readAt # -1
                 PROVE  /\ s.row <= inserted'
                        /\ \A m \in 1..Len(table') : m > s.readAt + 1 => table'[m] > s.row
      BY DEF SetInv, ReadInOrder
    <2>1. /\ s.row <= inserted
          /\ \A m \in 1..Len(table) : m > s.readAt + 1 => table[m] > s.row
      BY DEF SetInv, ReadInOrder
    <2>2. s.row <= inserted'
      BY <1>1, <1>2, <2>1
    <2>3. ASSUME NEW m \in 1..Len(table'), m > s.readAt + 1
          PROVE  table'[m] > s.row
      <3>1. table'[m] \in Nat
        BY <1>3
      <3>2. CASE table'[m] > inserted
        BY <1>1, <1>2, <2>1, <3>1, <3>2
      <3>3. CASE \E k \in 1..Len(table) : k >= m /\ table'[m] = table[k]
        BY <1>1, <1>2, <2>1, <2>3, <3>3
      <3> QED BY <3>2, <3>3
    <2> QED BY <2>2, <2>3
  <1> QED BY <1>4, <1>7, <1>8, <1>9, <1>10 DEF SetInv

(* What holds of a result set still holds when a row is inserted. *)
LEMMA InsertKeeps ==
    ASSUME TypeOK, TypeOK', TableInOrder, Insert
    PROVE  /\ TableInOrder'
           /\ \A s \in ResultSet : SetInv(s) => SetInv(s)'
  <1> DEFINE new == inserted + 1
  <1>1. /\ inserted' = new /\ table' = Append(table, new) /\ new \in RowNumbers
        /\ inserted \in Nat
    BY BoundsAssumption DEF Insert, TypeOK, RowNumbers
  <1>2. /\ Len(table') = Len(table) + 1
        /\ \A m \in 1..Len(table) : table'[m] = table[m]
        /\ table'[Len(table) + 1] = new
    BY <1>1, AppendProperties DEF TypeOK
  <1>3. TableInOrder'
    BY <1>1, <1>2, TableType DEF TableInOrder, Increasing, RowNumbers
  <1>4. ASSUME NEW s \in ResultSet, SetInv(s)
        PROVE  SetInv(s)'
    <2>1. Len(s.query) \in Nat /\ \A k \in 1..Len(s.query) : s.query[k] \in Nat
      BY SetType
    <2>2. Intact(s) => Intact(s)'
      BY <1>2, <2>1, TableType DEF Intact, Count
    <2>3. Gone(s) => Gone(s)'
      BY <1>1, <1>2, <1>4, <2>1, TableType DEF Gone, Count, SetInv, InRange
    <2>4. IntactOrGone(s)'
      BY <1>4, <2>2, <2>3 DEF SetInv, IntactOrGone
    <2>5. \A m \in 1..Len(table') :
               \/ table'[m] > inserted
               \/ \E k \in 1..Len(table) : k >= m /\ table'[m] = table[k]
      BY <1>1, <1>2, TableType
    <2> QED BY <1>1, <1>4, <2>3, <2>4, <2>5, TableChange
  <1> QED BY <1>3, <1>4

(* And when one is deleted. *)
LEMMA DeleteKeeps ==
    ASSUME TypeOK, TypeOK', TableInOrder, NEW k \in RowNumbers, Delete(k)
    PROVE  /\ TableInOrder'
           /\ \A s \in ResultSet : SetInv(s) => SetInv(s)'
  <1>1. k \in 1..Len(table) /\ inserted' = inserted /\ inserted \in Nat
    BY DEF Delete, TypeOK
  <1>2. /\ Len(table') = Len(table) - 1
        /\ \A m \in 1..Len(table') :
               table'[m] = IF m < k THEN table[m] ELSE table[m + 1]
    BY <1>1, WithoutRow DEF Delete
  <1>3. \A m \in 1..Len(table') :
            \/ m < k /\ m \in 1..Len(table) /\ table'[m] = table[m]
            \/ m >= k /\ m + 1 \in 1..Len(table) /\ table'[m] = table[m + 1]
    BY <1>1, <1>2, TableType
  <1>4. TableInOrder'
    <2>1. Len(table') <= inserted'
      BY <1>1, <1>2, TableType DEF TableInOrder
    <2>2. \A m \in 1..Len(table') : table'[m] <= inserted'
      BY <1>1, <1>3 DEF TableInOrder
    <2>3. ASSUME NEW j \in 1..Len(table'), NEW m \in 1..Len(table'), j < m
          PROVE  table'[j] < table'[m]
      BY <1>1, <1>3, <2>3, TableType DEF TableInOrder, Increasing
    <2> QED BY <2>1, <2>2, <2>3 DEF TableInOrder, Increasing
  <1>5. ASSUME NEW s \in ResultSet, SetInv(s)
        PROVE  SetInv(s)'
    <2>1. Len(s.query) \in Nat /\ \A i \in 1..Len(s.query) : s.query[i] \in Nat
      BY SetType
    <2>2. Gone(s) => Gone(s)'
      BY <1>3, <2>1, TableType DEF Gone, Count
    <2>3. ASSUME Intact(s), k > Count(s)
          PROVE  Intact(s)'
      <3>1. Count(s) \in Nat /\ Count(s) <= Len(table) /\ Count(s) <= Len(table')
        BY <1>1, <1>2, <2>1, <2>3, TableType DEF Intact, Count
      <3>2. ASSUME NEW m \in 1..Count(s)
            PROVE  table'[m] = s.query[m]
        <4>1. m < k /\ m \in 1..Len(table')
          BY <1>1, <2>3, <3>1, TableType
        <4>2. table'[m] = table[m]
          BY <1>2, <4>1
        <4> QED BY <2>3, <4>2 DEF Intact
      <3> QED BY <3>1, <3>2 DEF Intact, Count
    <2>4. ASSUME Intact(s), ~(k > Count(s))
          PROVE  Gone(s)'
      <3>1. k \in 1..Count(s) /\ s.query[k] = table[k]
        BY <1>1, <2>1, <2>4, TableType DEF Intact, Count
      <3>2. \A m \in 1..Len(table') : table'[m] # table[k]
        BY <1>1, <1>3, TableType DEF TableInOrder, Increasing
      <3> QED BY <3>1, <3>2 DEF Gone, Count
    <2>5. IntactOrGone(s)'
      BY <1>5, <2>2, <2>3, <2>4 DEF SetInv, IntactOrGone
    <2>6. \A m \in 1..Len(table') :
               \/ table'[m] > inserted
               \/ \E i \in 1..Len(table) : i >= m /\ table'[m] = table[i]
      BY <1>1, <1>3, TableType
    <2>7. inserted' >= inserted
      BY <1>1
    <2> QED BY <1>5, <2>2, <2>5, <2>6, <2>7, TableChange
  <1> QED BY <1>4, <1>5

-----------------------------------------------------------------------------
(* Steps that change a result set *)

(* A result set that execute has just made. *)
Fresh == [NoResultSet EXCEPT !.state = "open", !.query = table,
                             !.pos = IF table = <<>> THEN -1 ELSE 0,
                             !.window = WindowFrom(0), !.filled = TRUE]

LEMMA FreshKeeps ==
    ASSUME TypeOK, TableInOrder
    PROVE  Fresh \in ResultSet /\ SetInv(Fresh)
  <1>1. /\ Fresh.state = "open" /\ Fresh.query = table
        /\ Fresh.pos = (IF table = <<>> THEN -1 ELSE 0)
        /\ Fresh.start = 0 /\ Fresh.window = WindowFrom(0) /\ Fresh.filled = TRUE
        /\ Fresh.readAt = -1 /\ Fresh.row = 0
    BY DEF Fresh, NoResultSet
  <1>2. /\ WindowFrom(0) \in Seq(RowNumbers)
        /\ Len(WindowFrom(0)) \in Nat
        /\ \A j \in 1..Len(WindowFrom(0)) :
               j \in 1..Len(table) /\ WindowFrom(0)[j] = table[j]
        /\ \A j \in 1..WindowRows : j <= Len(table) => j <= Len(WindowFrom(0))
    BY WindowRowsAre, WindowAssumption
  <1>3. Fresh \in ResultSet
    <2>1. /\ table \in Seq(RowNumbers) /\ 0 \in 0..MaxInserts
          /\ 0 \in -1..MaxInserts /\ -1 \in -1..MaxInserts
      BY BoundsAssumption DEF TypeOK
    <2>2. (IF table = <<>> THEN -1 ELSE 0) \in -1..MaxInserts
      BY <2>1
    <2> QED BY <1>2, <2>1, <2>2, NoneType DEF Fresh, ResultSet
  <1>4. table # <<>> => Len(table) > 0
    BY DEF TypeOK
  <1>5. InRange(Fresh)
    BY <1>1, <1>4, TableType, BoundsAssumption DEF InRange, Count, TableInOrder, TypeOK
  <1>6. Intact(Fresh)
    BY <1>1, TableType DEF Intact, Count
  <1>7. WindowShows(Fresh)
    <2>1. ASSUME 0 < Len(table)
          PROVE  Len(WindowFrom(0)) > 0
      BY <1>2, <2>1, WindowAssumption, TableType
    <2>2. Fresh.pos \in 0..Count(Fresh) - 1 => InWindow(Fresh, Fresh.pos)
      BY <1>1, <1>2, <2>1, TableType DEF InWindow, Count
    <2> QED BY <1>1, <1>2, <2>2, TableType DEF WindowShows, Count
  <1>8. SmallKept(Fresh)
    <2>1. ASSUME Len(table) <= WindowRows
          PROVE  WindowFrom(0) = table
      <3>1. WindowFrom(0) = SubSeq(table, 1, Len(table))
        BY <2>1, TableType, WindowAssumption DEF WindowFrom
      <3> QED BY <3>1, SubSeqFull DEF TypeOK
    <2> QED BY <1>1, <2>1 DEF SmallKept, Count
  <1>9. WindowInOrder(Fresh)
    BY <1>1, <1>2, TableType DEF WindowInOrder, TableInOrder, Increasing
  <1>10. ReadInOrder(Fresh)
    BY <1>1 DEF ReadInOrder
  <1> QED BY <1>3, <1>5, <1>6, <1>7, <1>8, <1>9, <1>10 DEF SetInv, IntactOrGone

(* One that has lost its window, or is closed. *)
LEMMA LostWindowKeeps ==
    ASSUME TypeOK, NEW s \in ResultSet, SetInv(s)
    PROVE  /\ LostWindow(s) \in ResultSet
           /\ Count(s) > WindowRows => SetInv(LostWindow(s))
           /\ [LostWindow(s) EXCEPT !.state = "closed"] \in ResultSet
           /\ SetInv([LostWindow(s) EXCEPT !.state = "closed"])
  <1> DEFINE t == LostWindow(s)
             u == [t EXCEPT !.state = "closed"]
  <1>1. /\ t.state = s.state /\ t.query = s.query /\ t.pos = s.pos
        /\ t.start = s.start /\ t.window = <<>> /\ t.filled = FALSE
        /\ t.readAt = s.readAt /\ t.row = s.row
    BY DEF LostWindow, ResultSet
  <1>2. /\ u.state = "closed" /\ u.query = s.query /\ u.pos = s.pos
        /\ u.start = s.start /\ u.window = <<>> /\ u.filled = FALSE
        /\ u.readAt = s.readAt /\ u.row = s.row
    BY DEF LostWindow, ResultSet
  <1>3. t \in ResultSet /\ u \in ResultSet
    <2>1. <<>> \in Seq(RowNumbers)
      OBVIOUS
    <2>2. t \in ResultSet
      BY <2>1 DEF LostWindow, ResultSet
    <2> HIDE DEF t
    <2>3. u \in ResultSet
      BY <2>2 DEF ResultSet
    <2> QED BY <2>2, <2>3
  <1>4. Len(<<>>) = 0
    OBVIOUS
  <1> HIDE DEF t, u
  <1>5. ASSUME NEW r, r.query = s.query, r.pos = s.pos, r.window = <<>>,
               r.readAt = s.readAt, r.row = s.row,
               r.state = "open" => s.state = "open"
        PROVE  InRange(r) /\ IntactOrGone(r) /\ WindowInOrder(r) /\ ReadInOrder(r)
    <2>1. InRange(r)
      BY <1>5 DEF SetInv, InRange, Count
    <2>2. IntactOrGone(r)
      BY <1>5 DEF SetInv, IntactOrGone, Intact, Gone, Count
    <2>3. WindowInOrder(r)
      BY <1>4, <1>5 DEF WindowInOrder, Increasing
    <2>4. ReadInOrder(r)
      BY <1>4, <1>5 DEF SetInv, ReadInOrder
    <2> QED BY <2>1, <2>2, <2>3, <2>4
  <1>6. Count(s) > WindowRows => SetInv(t)
    <2>1. InRange(t) /\ IntactOrGone(t) /\ WindowInOrder(t) /\ ReadInOrder(t)
      BY <1>1, <1>5
    <2>2. WindowShows(t)
      BY <1>1 DEF WindowShows
    <2>3. Count(s) > WindowRows => SmallKept(t)
      BY <1>1, SetType, WindowAssumption DEF SmallKept, Count
    <2> QED BY <2>1, <2>2, <2>3 DEF SetInv
  <1>7. SetInv(u)
    <2>1. InRange(u) /\ IntactOrGone(u) /\ WindowInOrder(u) /\ ReadInOrder(u)
      BY <1>2, <1>5
    <2>2. WindowShows(u) /\ SmallKept(u)
      BY <1>2 DEF WindowShows, SmallKept
    <2> QED BY <2>1, <2>2 DEF SetInv
  <1> QED BY <1>3, <1>6, <1>7 DEF t, u

(* One whose row a field reader has read. *)
LEMMA FieldKeeps ==
    ASSUME TypeOK, TableInOrder, NEW s \in ResultSet, SetInv(s), Readable(s)
    PROVE  LET t == [s EXCEPT !.readAt = s.pos, !.row = RowOf(s)]
           IN  t \in ResultSet /\ SetInv(t)
  <1> DEFINE t == [s EXCEPT !.readAt = s.pos, !.row = RowOf(s)]
             j0 == s.pos - s.start + 1
  <1>1. j0 \in 1..Len(s.window) /\ s.start + j0 = s.pos + 1
    BY SetType DEF Readable, InWindow
  <1>2. RowOf(s) = s.window[j0]
    BY DEF RowOf
  <1>3. RowOf(s) \in RowNumbers /\ RowOf(s) \in 0..MaxInserts
    BY <1>1, <1>2, SetType, RowsType, BoundsAssumption DEF RowNumbers
  <1>4. /\ t.state = s.state /\ t.query = s.query /\ t.pos = s.pos
        /\ t.start = s.start /\ t.window = s.window /\ t.filled = s.filled
        /\ t.readAt = s.pos /\ t.row = RowOf(s)
    BY DEF ResultSet
  <1>5. t \in ResultSet
    BY <1>3 DEF ResultSet
  <1> HIDE DEF t
  <1>6. InRange(t) /\ IntactOrGone(t) /\ WindowShows(t) /\ SmallKept(t) /\ WindowInOrder(t)
    BY <1>4 DEF SetInv, InRange, IntactOrGone, Intact, Gone, WindowShows, InWindow,
                SmallKept, WindowInOrder, Count
  <1>7. ReadInOrder(t)
    <2>1. RowOf(s) <= inserted
      BY <1>1, <1>2 DEF SetInv, WindowInOrder
    <2>2. ASSUME NEW m \in 1..Len(table), m > s.pos + 1
          PROVE  table[m] > RowOf(s)
      BY <1>1, <1>2, <2>2 DEF SetInv, WindowInOrder
    <2>3. ASSUME NEW j \in 1..Len(s.window), s.start + j > s.pos + 1
          PROVE  s.window[j] > RowOf(s)
      <3>1. j0 < j
        BY <1>1, <2>3, SetType
      <3> HIDE DEF j0
      <3>2. s.window[j0] < s.window[j]
        BY <1>1, <3>1 DEF SetInv, WindowInOrder, Increasing
      <3> QED BY <1>1, <1>2, <3>2, SetType
    <2> QED BY <1>4, <2>1, <2>2, <2>3 DEF ReadInOrder
  <1> QED BY <1>5, <1>6, <1>7 DEF SetInv, t

-----------------------------------------------------------------------------
(* next: where it goes *)

(* The window that a move fills holds the row it is for, if the table does. *)
LEMMA RefillHolds ==
    ASSUME NEW s \in ResultSet, NEW pos \in Nat
    PROVE  /\ StartFor(s, pos) \in Nat /\ StartFor(s, pos) <= pos
           /\ pos < StartFor(s, pos) + WindowRows
  <1>1. /\ Capacity(s) \in Nat /\ Capacity(s) <= WindowRows
    BY SetType, WindowAssumption DEF Capacity, Count
  <1>2. /\ Capacity(s) \div 3 \in Nat /\ Capacity(s) \div 3 <= Capacity(s)
        /\ Capacity(s) \div 3 < WindowRows
    BY <1>1, WindowAssumption
  <1> QED BY <1>2, WindowAssumption DEF StartFor

LEMMA MovedKeeps ==
    ASSUME TypeOK, TableInOrder, NEW s \in ResultSet, SetInv(s), IsValidRow(s)
    PROVE  Moved(s) \in ResultSet /\ SetInv(Moved(s))
  <1> DEFINE n == s.pos + 1
  <1>1. /\ s.state = "open" /\ s.pos \in Nat /\ s.pos < Count(s) /\ Count(s) \in Nat
        /\ n \in Nat /\ n <= Count(s) /\ Count(s) <= MaxInserts
    BY SetType DEF IsValidRow, SetInv, InRange, Count
  <1>2. CASE n >= Count(s) \/ InWindow(s, n)
    <2> DEFINE t == [s EXCEPT !.pos = n]
    <2>1. Moved(s) = t
      <3>1. CASE n >= Count(s)
        BY <1>1, <3>1 DEF Moved
      <3>2. CASE ~(n >= Count(s)) /\ InWindow(s, n)
        BY <1>1, <3>2 DEF Moved
      <3> QED BY <1>2, <3>1, <3>2
    <2>2. /\ t.state = s.state /\ t.query = s.query /\ t.pos = n
          /\ t.start = s.start /\ t.window = s.window /\ t.filled = s.filled
          /\ t.readAt = s.readAt /\ t.row = s.row
      BY DEF ResultSet
    <2>3. t \in ResultSet
      <3>1. n \in -1..MaxInserts
        BY <1>1, BoundsAssumption
      <3> QED BY <3>1 DEF ResultSet
    <2> HIDE DEF t
    <2>4. InRange(t)
      BY <1>1, <2>2 DEF SetInv, InRange, Count
    <2>5. IntactOrGone(t) /\ SmallKept(t) /\ WindowInOrder(t) /\ ReadInOrder(t)
      BY <2>2 DEF SetInv, IntactOrGone, Intact, Gone, SmallKept, WindowInOrder,
                  ReadInOrder, Count
    <2>6. t.pos \in 0..Count(t) - 1 => InWindow(t, t.pos)
      BY <1>1, <1>2, <2>2 DEF InWindow, Count
    <2>7. WindowShows(t)
      BY <2>2, <2>6 DEF SetInv, WindowShows, Intact, Count
    <2> QED BY <2>1, <2>3, <2>4, <2>5, <2>7 DEF SetInv
  <1>3. CASE ~(n >= Count(s)) /\ ~InWindow(s, n)
    <2> DEFINE first == StartFor(s, n)
               rows == WindowFrom(first)
               t == [s EXCEPT !.pos = n, !.start = first, !.window = rows, !.filled = TRUE]
    <2>1. Moved(s) = t
      BY <1>3 DEF Moved
    <2>2. /\ first \in Nat /\ first <= n /\ n < first + WindowRows
      BY <1>1, RefillHolds
    <2> HIDE DEF first
    <2>3. /\ rows \in Seq(RowNumbers) /\ Len(rows) \in Nat
          /\ \A j \in 1..Len(rows) :
                 first + j \in 1..Len(table) /\ rows[j] = table[first + j]
          /\ \A j \in 1..WindowRows : first + j <= Len(table) => j <= Len(rows)
      BY <2>2, WindowRowsAre
    <2> HIDE DEF rows
    <2>4. /\ t.state = s.state /\ t.query = s.query /\ t.pos = n
          /\ t.start = first /\ t.window = rows /\ t.filled = TRUE
          /\ t.readAt = s.readAt /\ t.row = s.row
      BY DEF ResultSet
    <2>5. t \in ResultSet
      <3>1. n \in -1..MaxInserts /\ first \in 0..MaxInserts
        BY <1>1, <2>2, BoundsAssumption
      <3> QED BY <2>3, <3>1 DEF ResultSet
    <2> HIDE DEF t
    <2>6. InRange(t)
      BY <1>1, <2>4 DEF SetInv, InRange, Count
    <2>7. IntactOrGone(t)
      BY <2>4 DEF SetInv, IntactOrGone, Intact, Gone, Count
    <2>8. ASSUME Intact(s)
          PROVE  /\ InWindow(t, n)
                 /\ \A m \in 1..Len(rows) :
                        first + m <= Count(s) => rows[m] = s.query[first + m]
      <3>1. n + 1 <= Len(table)
        BY <1>1, <1>3, <2>8, TableType DEF Intact
      <3>2. n - first + 1 \in 1..WindowRows /\ first + (n - first + 1) <= Len(table)
        BY <1>1, <2>2, <3>1, WindowAssumption
      <3>3. n - first + 1 <= Len(rows)
        BY <2>3, <3>2
      <3>4. InWindow(t, n)
        BY <1>1, <2>2, <2>3, <2>4, <3>3 DEF InWindow
      <3>5. ASSUME NEW m \in 1..Len(rows), first + m <= Count(s)
            PROVE  rows[m] = s.query[first + m]
        <4>1. first + m \in 1..Count(s)
          BY <1>1, <2>2, <2>3, <3>5
        <4> QED BY <2>3, <2>8, <4>1 DEF Intact
      <3> QED BY <3>4, <3>5
    <2>9. WindowShows(t)
      BY <2>4, <2>8 DEF WindowShows, Intact, Count
    <2>10. SmallKept(t)
      <3>1. ASSUME Count(s) <= WindowRows
            PROVE  FALSE
        <4>1. s.filled /\ s.start = 0 /\ s.window = s.query
          BY <1>1, <3>1 DEF SetInv, SmallKept
        <4> QED BY <1>1, <1>3, <4>1 DEF InWindow, Count
      <3> QED BY <2>4, <3>1 DEF SmallKept, Count
    <2>11. WindowInOrder(t)
      <3>1. Increasing(rows)
        BY <2>2, <2>3, TableType DEF Increasing, TableInOrder
      <3>2. \A j \in 1..Len(rows) : rows[j] <= inserted
        BY <2>3 DEF TableInOrder
      <3>3. ASSUME NEW j \in 1..Len(rows), NEW m \in 1..Len(table), m > first + j
            PROVE  table[m] > rows[j]
        BY <2>2, <2>3, <3>3, TableType DEF TableInOrder, Increasing
      <3> QED BY <2>4, <3>1, <3>2, <3>3 DEF WindowInOrder
    <2>12. ReadInOrder(t)
      BY <2>3, <2>4 DEF SetInv, ReadInOrder
    <2> QED BY <2>1, <2>5, <2>6, <2>7, <2>9, <2>10, <2>11, <2>12 DEF SetInv
  <1> QED BY <1>2, <1>3

-----------------------------------------------------------------------------
(* A step that puts t in the place of a result set. *)
LEMMA Replaced ==
    ASSUME Inv, NEW i \in Slots, NEW t \in ResultSet, SetInv(t),
           sets' = [sets EXCEPT ![i] = t],
           open' \in BOOLEAN, faults' \in 0..MaxFaults, UNCHANGED <<table, inserted>>
    PROVE  Inv'
  <1>1. TypeOK'
    BY DEF Inv, TypeOK
  <1>2. TableInOrder'
    BY DEF Inv, TableInOrder, Increasing
  <1>3. ASSUME NEW r, SetInv(r)
        PROVE  SetInv(r)'
    BY <1>3 DEF SetInv, InRange, IntactOrGone, Intact, Gone, WindowShows, InWindow,
                SmallKept, WindowInOrder, Increasing, ReadInOrder, Count
  <1>4. ASSUME NEW j \in Slots
        PROVE  SetInv(sets[j])'
    <2>1. sets'[j] = IF j = i THEN t ELSE sets[j]
      BY DEF Inv, TypeOK
    <2>2. SetInv(sets[j])
      BY DEF Inv
    <2> QED BY <1>3, <2>1, <2>2
  <1> QED BY <1>1, <1>2, <1>4 DEF Inv

LEMMA InitInv == Init => Inv
  <1> SUFFICES ASSUME Init
               PROVE  Inv
    OBVIOUS
  <1>1. /\ Len(table) = inserted /\ inserted \in Nat /\ inserted <= MaxInserts
        /\ \A k \in 1..Len(table) : table[k] = k
        /\ table \in Seq(RowNumbers)
    BY BoundsAssumption DEF Init, RowNumbers
  <1>2. NoResultSet \in ResultSet
    BY NoneType
  <1>3. TypeOK
    BY <1>1, <1>2, BoundsAssumption DEF Init, TypeOK
  <1>4. TableInOrder
    BY <1>1 DEF TableInOrder, Increasing
  <1>5. SetInv(NoResultSet)
    <2>1. /\ NoResultSet.state = "none" /\ NoResultSet.query = <<>>
          /\ NoResultSet.window = <<>> /\ NoResultSet.readAt = -1
          /\ Len(<<>>) = 0
      BY DEF NoResultSet
    <2> QED BY <1>1, <2>1, BoundsAssumption
            DEF SetInv, InRange, IntactOrGone, Intact, WindowShows, SmallKept,
                WindowInOrder, Increasing, ReadInOrder, Count
  <1> QED BY <1>3, <1>4, <1>5 DEF Inv, Init

LEMMA NextInv == Inv /\ [Next]_vars => Inv'
  <1> SUFFICES ASSUME Inv, [Next]_vars
               PROVE  Inv'
    OBVIOUS
  <1>1. TypeOK /\ TableInOrder /\ \A i \in Slots : sets[i] \in ResultSet /\ SetInv(sets[i])
    BY DEF Inv, TypeOK
  <1>2. ASSUME NEW i \in Slots
        PROVE  sets = [sets EXCEPT ![i] = sets[i]]
    BY DEF Inv, TypeOK
  <1>3. CASE Insert
    <2>1. TypeOK'
      <3>1. inserted' \in 0..MaxInserts /\ inserted + 1 \in RowNumbers
        BY <1>1, <1>3, BoundsAssumption DEF Insert, TypeOK, RowNumbers
      <3>2. table' \in Seq(RowNumbers)
        BY <1>1, <1>3, <3>1, AppendProperties DEF Insert, TypeOK
      <3> QED BY <1>1, <1>3, <3>1, <3>2 DEF Insert, TypeOK
    <2>2. /\ TableInOrder' /\ \A s \in ResultSet : SetInv(s) => SetInv(s)'
      BY <1>1, <1>3, <2>1, InsertKeeps
    <2>3. sets' = sets
      BY <1>3 DEF Insert
    <2>4. ASSUME NEW i \in Slots
          PROVE  SetInv(sets[i])'
      BY <1>1, <2>2, <2>3
    <2> QED BY <2>1, <2>2, <2>4 DEF Inv
  <1>4. ASSUME NEW k \in RowNumbers, Delete(k)
        PROVE  Inv'
    <2>1. TypeOK'
      <3>1. table' \in Seq(RowNumbers)
        BY <1>1, <1>4, WithoutRow DEF Delete
      <3> QED BY <1>1, <1>4, <3>1 DEF Delete, TypeOK
    <2>2. /\ TableInOrder' /\ \A s \in ResultSet : SetInv(s) => SetInv(s)'
      BY <1>1, <1>4, <2>1, DeleteKeeps
    <2>3. sets' = sets
      BY <1>4 DEF Delete
    <2>4. ASSUME NEW i \in Slots
          PROVE  SetInv(sets[i])'
      BY <1>1, <2>2, <2>3
    <2> QED BY <2>1, <2>2, <2>4 DEF Inv
  <1>5. ASSUME NEW i \in Slots, Query(i)
        PROVE  Inv'
    <2>1. sets' = [sets EXCEPT ![i] = Fresh]
      BY <1>5 DEF Query, Fresh
    <2>2. open' \in BOOLEAN /\ faults' \in 0..MaxFaults /\ UNCHANGED <<table, inserted>>
      BY <1>1, <1>5 DEF Query, TypeOK
    <2> QED BY <1>1, <2>1, <2>2, FreshKeeps, Replaced
  <1>6. ASSUME NEW i \in Slots, NextRow(i)
        PROVE  Inv'
    <2>1. IsValidRow(sets[i]) /\ sets' = [sets EXCEPT ![i] = Moved(sets[i])]
      BY <1>6 DEF NextRow
    <2>2. open' \in BOOLEAN /\ faults' \in 0..MaxFaults /\ UNCHANGED <<table, inserted>>
      BY <1>1, <1>6 DEF NextRow, TypeOK
    <2>3. Moved(sets[i]) \in ResultSet /\ SetInv(Moved(sets[i]))
      BY <1>1, <2>1, MovedKeeps
    <2> QED BY <2>1, <2>2, <2>3, Replaced
  <1>7. ASSUME NEW i \in Slots, NextRaises(i)
        PROVE  Inv'
    <2>1. sets' = [sets EXCEPT ![i] = LostWindow(sets[i])]
      BY <1>7 DEF NextRaises
    <2>2. open' \in BOOLEAN /\ faults' \in 0..MaxFaults /\ UNCHANGED <<table, inserted>>
      BY <1>1, <1>7, BoundsAssumption DEF NextRaises, TypeOK
    <2>3. Count(sets[i]) > WindowRows
      <3> DEFINE s == sets[i]
      <3>1. s.state = "open" /\ Count(s) > 0 /\ s.pos + 1 < Count(s) /\ ~InWindow(s, s.pos + 1)
        BY <1>7 DEF NextRaises, IsValidRow, NeedsFill
      <3>2. s \in ResultSet /\ SetInv(s)
        BY <1>1
      <3> HIDE DEF s
      <3>3. s.pos \in Nat /\ Count(s) \in Nat
        BY <3>1, <3>2, SetType DEF SetInv, InRange, Count
      <3>4. ~(Count(s) <= WindowRows)
        BY <3>1, <3>2, <3>3 DEF SetInv, SmallKept, InWindow, Count
      <3> QED BY <3>3, <3>4, WindowAssumption DEF s
    <2>4. LostWindow(sets[i]) \in ResultSet /\ SetInv(LostWindow(sets[i]))
      BY <1>1, <2>3, LostWindowKeeps
    <2> QED BY <2>1, <2>2, <2>4, Replaced
  <1>8. ASSUME NEW i \in Slots, Field(i)
        PROVE  Inv'
    <2> DEFINE t == [sets[i] EXCEPT !.readAt = sets[i].pos, !.row = RowOf(sets[i])]
    <2>1. Readable(sets[i]) /\ sets' = [sets EXCEPT ![i] = t]
      BY <1>1, <1>8 DEF Field, TypeOK
    <2>2. open' \in BOOLEAN /\ faults' \in 0..MaxFaults /\ UNCHANGED <<table, inserted>>
      BY <1>1, <1>8 DEF Field, TypeOK
    <2>3. t \in ResultSet /\ SetInv(t)
      BY <1>1, <2>1, FieldKeeps
    <2> QED BY <2>1, <2>2, <2>3, Replaced
  <1>9. ASSUME NEW i \in Slots, CloseResult(i)
        PROVE  Inv'
    <2> DEFINE t == [LostWindow(sets[i]) EXCEPT !.state = "closed"]
    <2>1. sets' = [sets EXCEPT ![i] = t]
      BY <1>9 DEF CloseResult
    <2>2. open' \in BOOLEAN /\ faults' \in 0..MaxFaults /\ UNCHANGED <<table, inserted>>
      BY <1>1, <1>9 DEF CloseResult, TypeOK
    <2>3. t \in ResultSet /\ SetInv(t)
      BY <1>1, LostWindowKeeps
    <2> QED BY <2>1, <2>2, <2>3, Replaced
  <1>10. CASE Close \/ UNCHANGED vars
    <2>1. open' \in BOOLEAN /\ faults' \in 0..MaxFaults /\ UNCHANGED <<table, inserted, sets>>
      BY <1>1, <1>10 DEF Close, TypeOK, vars
    <2>2. TypeOK'
      BY <1>1, <2>1 DEF TypeOK
    <2> QED
      BY <1>1, <2>1, <2>2 DEF Inv, TableInOrder, Increasing, SetInv, InRange, IntactOrGone,
                  Intact, Gone, WindowShows, InWindow, SmallKept, WindowInOrder,
                  ReadInOrder, Count
  <1> QED BY <1>3, <1>4, <1>5, <1>6, <1>7, <1>8, <1>9, <1>10 DEF Next

LEMMA Invariance == Spec => []Inv
  BY InitInv, NextInv, PTL DEF Spec

-----------------------------------------------------------------------------
(* Every variable keeps its type, for any number of result sets, any size  *)
(* of the window and any number of insertions.                             *)
THEOREM TypeCorrect == Spec => []TypeOK
  <1>1. Inv => TypeOK
    BY DEF Inv
  <1> QED BY <1>1, Invariance, PTL

(* While no row of its query was deleted, a result set is on that row of   *)
(* the query that its position says, also after its window was filled      *)
(* again from a table that has grown.                                      *)
THEOREM RowsCorrect == Spec => []RowsAreTheQuerys
  <1>1. Inv => RowsAreTheQuerys
    <2> SUFFICES ASSUME Inv, NEW i \in Slots,
                        IsValidRow(sets[i]), Intact(sets[i]), sets[i].filled
                 PROVE  Readable(sets[i]) /\ RowOf(sets[i]) = sets[i].query[sets[i].pos + 1]
      BY DEF RowsAreTheQuerys
    <2> DEFINE s == sets[i]
    <2>1. s \in ResultSet /\ SetInv(s)
      BY DEF Inv, TypeOK
    <2>2. IsValidRow(s) /\ Intact(s) /\ s.filled
      OBVIOUS
    <2> HIDE DEF s
    <2>3. s.state = "open" /\ s.pos \in 0..Count(s) - 1 /\ Count(s) \in Nat
      BY <2>1, <2>2, SetType DEF IsValidRow, SetInv, InRange, Count
    <2>4. /\ InWindow(s, s.pos)
          /\ \A m \in 1..Len(s.window) :
                 s.start + m <= Count(s) => s.window[m] = s.query[s.start + m]
      BY <2>1, <2>2, <2>3 DEF SetInv, WindowShows
    <2>5. Readable(s)
      BY <2>3, <2>4 DEF Readable
    <2>6. /\ s.pos - s.start + 1 \in 1..Len(s.window)
          /\ s.start + (s.pos - s.start + 1) = s.pos + 1 /\ s.pos + 1 <= Count(s)
      BY <2>1, <2>3, <2>4, SetType DEF InWindow
    <2>7. RowOf(s) = s.query[s.pos + 1]
      BY <2>4, <2>6 DEF RowOf
    <2> QED BY <2>5, <2>7 DEF s
  <1> QED BY <1>1, Invariance, PTL

(* next never leaves the window of a result that fits in it. *)
LEMMA SmallNeedsNoFill ==
    ASSUME NEW s \in ResultSet, SetInv(s), IsValidRow(s), Count(s) <= WindowRows
    PROVE  ~NeedsFill(s)
  <1>1. s.pos \in 0..Count(s) - 1 /\ Count(s) \in Nat
    BY SetType DEF IsValidRow, SetInv, InRange, Count
  <1>2. s.filled /\ s.start = 0 /\ s.window = s.query
    BY <1>1 DEF SetInv, SmallKept, IsValidRow
  <1> QED BY <1>1, <1>2 DEF NeedsFill, InWindow, Count

(* A result that fits in a window stays readable as the query found it,    *)
(* and next moves inside that window, whatever is deleted, and on a closed *)
(* database.                                                               *)
THEOREM SnapshotCorrect == Spec => []SmallResultIsSnapshot
  <1>1. Inv => SmallResultIsSnapshot
    <2> SUFFICES ASSUME Inv, NEW i \in Slots,
                        IsValidRow(sets[i]), Count(sets[i]) <= WindowRows
                 PROVE  /\ Readable(sets[i]) /\ RowOf(sets[i]) = sets[i].query[sets[i].pos + 1]
                        /\ ~NeedsFill(sets[i])
      BY DEF SmallResultIsSnapshot
    <2> DEFINE s == sets[i]
    <2>1. s \in ResultSet /\ SetInv(s)
      BY DEF Inv, TypeOK
    <2>2. IsValidRow(s) /\ Count(s) <= WindowRows
      OBVIOUS
    <2> HIDE DEF s
    <2>3. s.state = "open" /\ s.pos \in 0..Count(s) - 1 /\ Count(s) \in Nat
      BY <2>1, <2>2, SetType DEF IsValidRow, SetInv, InRange, Count
    <2>4. s.filled /\ s.start = 0 /\ s.window = s.query
      BY <2>1, <2>2, <2>3 DEF SetInv, SmallKept
    <2>5. Readable(s)
      BY <2>3, <2>4 DEF Readable, InWindow, Count
    <2>6. RowOf(s) = s.query[s.pos + 1]
      BY <2>3, <2>4 DEF RowOf
    <2>7. ~NeedsFill(s)
      BY <2>1, <2>2, SmallNeedsNoFill
    <2> QED BY <2>5, <2>6, <2>7 DEF s
  <1> QED BY <1>1, Invariance, PTL

(* Whatever is deleted and inserted under a result set, no row is met      *)
(* twice nor out of order.                                                 *)
THEOREM OrderCorrect == Spec => []RowsComeOnce
  <1>1. Inv => RowsComeOnce
    <2> SUFFICES ASSUME Inv, NEW i \in Slots, Readable(sets[i]),
                        sets[i].readAt # -1, sets[i].readAt < sets[i].pos
                 PROVE  sets[i].row < RowOf(sets[i])
      BY DEF RowsComeOnce
    <2> DEFINE s == sets[i]
               j == s.pos - s.start + 1
    <2>1. s \in ResultSet /\ SetInv(s)
      BY DEF Inv, TypeOK
    <2>2. Readable(s) /\ s.readAt # -1 /\ s.readAt < s.pos
      OBVIOUS
    <2> HIDE DEF s
    <2>3. j \in 1..Len(s.window) /\ s.start + j > s.readAt + 1
      BY <2>1, <2>2, SetType DEF Readable, InWindow
    <2>4. RowOf(s) = s.window[j]
      BY DEF RowOf
    <2> HIDE DEF j
    <2>5. s.row < RowOf(s)
      BY <2>1, <2>2, <2>3, <2>4, SetType DEF SetInv, ReadInOrder
    <2> QED BY <2>5 DEF s
  <1> QED BY <1>1, Invariance, PTL

-----------------------------------------------------------------------------
(* Moving on *)

(* Result set i is on row k, and next may move. *)
OnRow(i, k) ==
    /\ IsValidRow(sets[i]) /\ sets[i].pos = k
    /\ open \/ Count(sets[i]) <= WindowRows

(* It is on the next row, or at its end or closed, or the database is.     *)
PastRow(i, k) ==
    \/ ~IsValidRow(sets[i]) \/ sets[i].pos = k + 1
    \/ ~open /\ Count(sets[i]) > WindowRows

LEMMA OnRowUntil ==
    ASSUME NEW i \in Slots, NEW k \in Nat
    PROVE  /\ Inv /\ [Next]_vars /\ OnRow(i, k) => OnRow(i, k)' \/ PastRow(i, k)'
           /\ Inv /\ OnRow(i, k) /\ NextRow(i) => PastRow(i, k)'
  <1> SUFFICES ASSUME Inv, OnRow(i, k)
               PROVE  /\ [Next]_vars => OnRow(i, k)' \/ PastRow(i, k)'
                      /\ NextRow(i) => PastRow(i, k)'
    OBVIOUS
  <1> DEFINE s == sets[i]
  <1>1. sets \in [Slots -> ResultSet] /\ s \in ResultSet /\ SetInv(s)
    BY DEF Inv, TypeOK
  <1>2. /\ s.state = "open" /\ s.pos = k /\ s.pos # Count(s) /\ Count(s) > 0
        /\ open \/ Count(s) <= WindowRows
    BY DEF OnRow, IsValidRow
  <1>3. Count(s) \in Nat /\ WindowRows \in Nat /\ k \in 0..Count(s)
    <2> HIDE DEF s
    <2> QED BY <1>1, <1>2, SetType, WindowAssumption DEF SetInv, InRange, Count
  <1>4. ASSUME sets'[i] = s
        PROVE  OnRow(i, k)' \/ PastRow(i, k)'
    <2>1. (~open /\ Count(s) > WindowRows)' \/ (open \/ Count(s) <= WindowRows)'
      <3>1. Count(s)' = Count(s)
        BY <1>4 DEF Count
      <3> HIDE DEF s
      <3> QED BY <1>3, <3>1, WindowAssumption
    <2>2. IsValidRow(s)' /\ s.pos' = k
      BY <1>2, <1>4 DEF IsValidRow, Count
    <2> QED BY <2>1, <2>2 DEF OnRow, PastRow
  <1>5. ASSUME NextRow(i)
        PROVE  PastRow(i, k)'
    <2>1. sets'[i] = Moved(s)
      BY <1>1, <1>5 DEF NextRow
    <2>2. /\ Moved(s).pos = k + 1 \/ Moved(s).pos = Count(s)
          /\ Moved(s).query = s.query
      BY <1>1, <1>2, <1>3 DEF Moved, ResultSet
    <2> HIDE DEF s
    <2> QED BY <2>1, <2>2 DEF PastRow, IsValidRow, Count
  <1>6. ASSUME NextRaises(i)
        PROVE  OnRow(i, k)' \/ PastRow(i, k)'
    <2>1. sets'[i] = LostWindow(s)
      BY <1>1, <1>6 DEF NextRaises
    <2>2. /\ LostWindow(s).state = "open" /\ LostWindow(s).pos = k
          /\ LostWindow(s).query = s.query
      BY <1>1, <1>2 DEF LostWindow, ResultSet
    <2>3. open' = open
      BY <1>6 DEF NextRaises
    <2> HIDE DEF s
    <2> QED BY <1>2, <2>1, <2>2, <2>3 DEF OnRow, IsValidRow, Count
  <1>7. ASSUME Field(i)
        PROVE  OnRow(i, k)' \/ PastRow(i, k)'
    <2>1. /\ sets'[i].state = "open" /\ sets'[i].pos = k /\ sets'[i].query = s.query
          /\ open' = open
      BY <1>1, <1>2, <1>7 DEF Field, ResultSet
    <2> HIDE DEF s
    <2> QED BY <1>2, <2>1 DEF OnRow, IsValidRow, Count
  <1>8. ASSUME CloseResult(i)
        PROVE  PastRow(i, k)'
    <2>1. sets'[i].state = "closed"
      BY <1>1, <1>8 DEF CloseResult, LostWindow, ResultSet
    <2> QED BY <2>1 DEF PastRow, IsValidRow
  <1>9. ASSUME [Next]_vars
        PROVE  OnRow(i, k)' \/ PastRow(i, k)'
    <2>1. ~Query(i)
      BY <1>2 DEF Query
    <2>2. ASSUME NEW j \in Slots, j # i,
                 Query(j) \/ NextRow(j) \/ NextRaises(j) \/ Field(j) \/ CloseResult(j)
          PROVE  sets'[i] = s
      BY <1>1, <2>2 DEF Query, NextRow, NextRaises, Field, CloseResult
    <2>3. ASSUME Insert \/ Close \/ (\E m \in RowNumbers : Delete(m)) \/ UNCHANGED vars
          PROVE  sets'[i] = s
      BY <2>3 DEF Insert, Close, Delete, vars
    <2>4. \/ Insert \/ Close \/ (\E m \in RowNumbers : Delete(m)) \/ UNCHANGED vars
          \/ \E j \in Slots : Query(j) \/ NextRow(j) \/ NextRaises(j) \/ Field(j) \/ CloseResult(j)
      BY <1>9 DEF Next
    <2>5. \/ sets'[i] = s
          \/ NextRow(i) \/ NextRaises(i) \/ Field(i) \/ CloseResult(i)
      BY <2>1, <2>2, <2>3, <2>4
    <2> QED BY <1>4, <1>5, <1>6, <1>7, <1>8, <2>5
  <1> QED BY <1>5, <1>9

(* What next needs to move: a row it can leave, and the database if the    *)
(* next row is outside the window.  A move changes the position, so that   *)
(* this is what the fairness of LiveSpec means by next being enabled.      *)
CanMove(i) == IsValidRow(sets[i]) /\ (NeedsFill(sets[i]) => open)

LEMMA OnRowMoves ==
    ASSUME NEW i \in Slots, NEW k \in Nat, Inv, OnRow(i, k)
    PROVE  CanMove(i)
  BY SmallNeedsNoFill DEF Inv, TypeOK, OnRow, CanMove

(* A loop moves on from every row: an application that calls next again    *)
(* and again while next can move gets, after finitely many calls, some of  *)
(* which may raise, to the next row or to the end of the result, or the    *)
(* result set or the database was closed.  LoopsEnd follows by as many     *)
(* uses of this as the result has rows.                                    *)
THEOREM LoopMovesOn ==
    ASSUME NEW i \in Slots, NEW k \in Nat
    PROVE  Spec /\ (<>[]CanMove(i) => []<><<NextRow(i)>>_vars)
               => (OnRow(i, k) ~> PastRow(i, k))
  <1>1. Inv /\ [Next]_vars /\ OnRow(i, k) => OnRow(i, k)' \/ PastRow(i, k)'
    BY OnRowUntil
  <1>2. Inv /\ OnRow(i, k) /\ <<NextRow(i)>>_vars => PastRow(i, k)'
    BY OnRowUntil
  <1>3. Inv /\ OnRow(i, k) => CanMove(i)
    BY OnRowMoves
  <1>4. Spec => [][Next]_vars /\ []Inv
    BY Invariance, PTL DEF Spec
  <1> HIDE DEF OnRow, PastRow, CanMove
  <1> QED BY <1>1, <1>2, <1>3, <1>4, PTL
=============================================================================
