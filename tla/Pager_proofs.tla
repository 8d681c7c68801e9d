---------------------------- MODULE Pager_proofs ----------------------------
(***************************************************************************)
(* Proofs about the pager, for any number of connections, pages and        *)
(* versions: the types; the locks; what a reader sees; and that the file   *)
(* is an atomic one.                                                       *)
(*                                                                         *)
(* The last two follow from one invariant, Inv, that relates the file, the *)
(* disk, the two journals, the locks and the caches.  A loss of power is   *)
(* considered where a truncation reaches the disk before a later deletion  *)
(* (TruncatesFirst): without that it can bring back pages of a truncated   *)
(* file.  What holds while the power stays needs no such assumption, and   *)
(* then no commit is taken back (FileIsAtomicWhenKilled).                  *)
(***************************************************************************)
EXTENDS Pager, WellFoundedInduction, TLAPS

-----------------------------------------------------------------------------
(* The size of a file *)

LEMMA MaxIs ==
    ASSUME NEW S \in SUBSET Nat, NEW n \in Nat, \A x \in S : x <= n, S # {}
    PROVE  Max(S) \in S /\ \A y \in S : y <= Max(S)
  <1> DEFINE T == {n - x : x \in S}
  <1>1. T \in SUBSET Nat /\ T # {}
    <2>1. \A x \in S : n - x \in Nat
      OBVIOUS
    <2>2. PICK x \in S : TRUE
      OBVIOUS
    <2>3. n - x \in T
      BY <2>2
    <2> QED BY <2>1, <2>3
  <1>2. PICK d \in T : \A e \in T : <<e, d>> \notin OpToRel(<, Nat)
    <2> HIDE DEF T
    <2> QED BY <1>1, WFMin, NatLessThanWellFounded, Zenon
  <1>3. \A e \in T : ~(e < d)
    <2>1. T \subseteq Nat
      BY <1>1
    <2> HIDE DEF T
    <2> QED BY <1>2, <2>1, Zenon DEF OpToRel
  <1>4. PICK x \in S : d = n - x
    OBVIOUS
  <1>5. ASSUME NEW y \in S
        PROVE  x >= y
    <2>1. n - y \in T /\ ~(n - y < d)
      BY <1>3
    <2> QED BY <1>4, <2>1
  <1> QED BY <1>5 DEF Max

LEMMA SizeIs ==
    ASSUME NEW X
    PROVE  /\ SizeOf(X) \in 0..NPages
           /\ \A g \in Pages : X[g] # None => g <= SizeOf(X)
           /\ SizeOf(X) > 0 => SizeOf(X) \in Pages /\ X[SizeOf(X)] # None
  <1> DEFINE S == {0} \cup {g \in Pages : X[g] # None}
  <1>1. S \in SUBSET Nat /\ NPages \in Nat /\ (\A x \in S : x <= NPages) /\ S # {}
    BY NPagesAssumption DEF Pages
  <1>2. SizeOf(X) = Max(S)
    BY DEF SizeOf
  <1> HIDE DEF S
  <1>3. Max(S) \in S /\ \A y \in S : y <= Max(S)
    BY <1>1, MaxIs
  <1>4. SizeOf(X) \in S /\ \A y \in S : y <= SizeOf(X)
    BY <1>2, <1>3
  <1> QED BY <1>1, <1>4 DEF S, Pages

LEMMA FirstPage == 1 \in Pages /\ Pages \subseteq Nat /\ NPages \in Nat
  BY NPagesAssumption DEF Pages

(* A file without pages. *)
LEMMA EmptyIs ==
    ASSUME NEW X \in [Pages -> Value]
    PROVE  SizeOf(X) = 0 <=> X = NoPages
  <1>1. SizeOf(NoPages) = 0
    <2>1. \A g \in Pages : NoPages[g] = None
      BY DEF NoPages
    <2> QED BY <2>1, SizeIs
  <1>2. ASSUME SizeOf(X) = 0
        PROVE  X = NoPages
    <2>1. ASSUME NEW g \in Pages
          PROVE  X[g] = None
      BY <1>2, SizeIs, FirstPage DEF Pages
    <2> QED BY <2>1 DEF NoPages
  <1> QED BY <1>1, <1>2

(* Files have no holes. *)
NoHoles(pages) == \A g, h \in Pages : g < h /\ pages[h] # None => pages[g] # None

LEMMA NoHolesSize ==
    ASSUME NEW X, NoHoles(X), NEW g \in Pages
    PROVE  g <= SizeOf(X) <=> X[g] # None
  <1>1. SizeOf(X) \in Nat /\ g \in Nat
    BY SizeIs, FirstPage
  <1>2. ASSUME g <= SizeOf(X)
        PROVE  X[g] # None
    <2>1. SizeOf(X) \in Pages /\ X[SizeOf(X)] # None
      BY <1>1, <1>2, SizeIs DEF Pages
    <2> QED BY <1>1, <1>2, <2>1 DEF NoHoles
  <1> QED BY <1>2, SizeIs

-----------------------------------------------------------------------------
(* Types *)

CacheType == [Pages -> Value \cup {NotCached}]

LEMMA NotCachedIs == NotCached \notin Value /\ NotCached # None
  BY NoneAssumption DEF Value, None, NotCached

LEMMA ArrayTypes ==
    /\ NoPages \in [Pages -> Value] /\ NothingCached \in CacheType
    /\ NoJournal \in Journal
    /\ NoJournal = [exists |-> FALSE, hot |-> FALSE, size |-> 0,
                    counted |-> NoPages, tail |-> NoPages]
  BY FirstPage DEF NoPages, NothingCached, NoJournal, Journal, Value, CacheType

LEMMA ImageType ==
    ASSUME TypeOK, NEW p \in Pagers
    PROVE  /\ Image(p) \in [Pages -> Value]
           /\ \A g \in Pages :
                 Image(p)[g] = IF cache[p][g] = NotCached THEN db[g] ELSE cache[p][g]
  BY DEF Image, TypeOK, CacheType

LEMMA JournalTypes ==
    ASSUME NEW j \in Journal
    PROVE  /\ j.exists \in BOOLEAN /\ j.hot \in BOOLEAN /\ j.size \in 0..NPages
           /\ j.counted \in [Pages -> Value] /\ j.tail \in [Pages -> Value]
           /\ [j EXCEPT !.tail = NoPages] \in Journal
  BY ArrayTypes DEF Journal

LEMMA OpenedType ==
    ASSUME TypeOK, NEW p \in Pagers
    PROVE  /\ Opened(p) \in Journal
           /\ eState[p] = "WRITER_LOCKED" =>
                 /\ Opened(p).exists /\ ~Opened(p).hot /\ Opened(p).size = SizeOf(db)
                 /\ Opened(p).counted = NoPages /\ Opened(p).tail = NoPages
           /\ eState[p] # "WRITER_LOCKED" => Opened(p) = journal
  BY SizeIs, ArrayTypes DEF Opened, TypeOK, Journal

LEMMA RecordedType ==
    ASSUME NEW j \in Journal, NEW g \in Pages, NEW v \in Value
    PROVE  LET k == Recorded(j, g, v)
           IN  /\ k \in Journal
               /\ k.exists = j.exists /\ k.hot = j.hot /\ k.size = j.size
               /\ k.counted = j.counted
               /\ \A h \in Pages : h # g => k.tail[h] = j.tail[h]
               /\ k.tail[g] = IF g > j.size \/ j.counted[g] # None \/ j.tail[g] # None
                              THEN j.tail[g] ELSE v
  <1> DEFINE k == [j EXCEPT !.tail[g] = v]
  <1>1. k \in Journal
    BY DEF Journal
  <1>2. /\ k.exists = j.exists /\ k.hot = j.hot /\ k.size = j.size
        /\ k.counted = j.counted /\ k.tail[g] = v
        /\ \A h \in Pages : h # g => k.tail[h] = j.tail[h]
    BY DEF Journal
  <1> HIDE DEF k
  <1>3. Recorded(j, g, v) = IF g > j.size \/ j.counted[g] # None \/ j.tail[g] # None
                            THEN j ELSE k
    BY DEF Recorded, k
  <1> QED BY <1>1, <1>2, <1>3

LEMMA CountedType ==
    ASSUME NEW j \in Journal
    PROVE  LET k == Counted(j)
           IN  /\ k \in Journal
               /\ k.exists = j.exists /\ k.hot = TRUE /\ k.size = j.size
               /\ k.tail = NoPages
               /\ \A g \in Pages :
                     k.counted[g] = IF j.tail[g] # None THEN j.tail[g] ELSE j.counted[g]
  <1> DEFINE c == [g \in Pages |-> IF j.tail[g] # None THEN j.tail[g] ELSE j.counted[g]]
             k == [j EXCEPT !.hot = TRUE, !.tail = NoPages, !.counted = c]
  <1>1. c \in [Pages -> Value]
    BY DEF Journal
  <1>2. Counted(j) = k
    BY DEF Counted
  <1>3. \A g \in Pages : c[g] = IF j.tail[g] # None THEN j.tail[g] ELSE j.counted[g]
    OBVIOUS
  <1> HIDE DEF c
  <1>4. /\ k \in Journal
        /\ k.exists = j.exists /\ k.hot = TRUE /\ k.size = j.size
        /\ k.tail = NoPages /\ k.counted = c
    BY <1>1, ArrayTypes DEF Journal
  <1> QED BY <1>2, <1>3, <1>4

LEMMA ContentTypes ==
    ASSUME NEW j \in Journal, NEW X \in [Pages -> Value]
    PROVE  /\ PlayedBack(j, X) \in [Pages -> Value] /\ Truncated(j, X) \in [Pages -> Value]
           /\ Recovered(j, X) \in [Pages -> Value]
           /\ \A g \in Pages :
                 /\ PlayedBack(j, X)[g] = IF g > j.size THEN None
                                          ELSE IF j.counted[g] # None THEN j.counted[g]
                                          ELSE X[g]
                 /\ Truncated(j, X)[g] = IF g > j.size THEN None ELSE X[g]
  BY DEF PlayedBack, Truncated, Recovered, Journal, Value

(* Only pages of the cache are dirty, and only in a transaction that has   *)
(* begun to write and not written all.                                     *)
HasDirty == {"WRITER_CACHEMOD", "WRITER_DBMOD", "playback", "ERROR"}

DirtyCached ==
    \A p \in Pagers :
        /\ eState[p] \notin HasDirty => dirty[p] = {}
        /\ \A g \in dirty[p] : cache[p][g] # NotCached

LEMMA InitType == Init => TypeOK
  BY ArrayTypes, FirstPage DEF Init, TypeOK, CacheType, States, Locks, Value

LEMMA AdmitType ==
    ASSUME TypeOK, NEW p \in Pagers, Admit(p, db)
    PROVE  /\ eState' \in [Pagers -> States] /\ eLock' \in [Pagers -> Locks]
           /\ cache' \in [Pagers -> CacheType]
  <1>1. Validated(p, db) \in CacheType
    BY ArrayTypes, FirstPage DEF Validated, TypeOK, CacheType
  <1> QED BY <1>1 DEF Admit, TypeOK, States, Reading, Locks, CacheType

LEMMA ReadingType ==
    ASSUME TypeOK, NEW p \in Pagers,
           \/ SharedLock(p) \/ CheckReserved(p) \/ DeleteRemnant(p) \/ ReadFirstByte(p)
           \/ LockHot(p) \/ Release(p) \/ \E g \in Pages : Get(p, g)
    PROVE  TypeOK'
  <1>1. CASE SharedLock(p) \/ CheckReserved(p) \/ ReadFirstByte(p)
    <2>1. CASE Admit(p, db)
      BY <1>1, <2>1, AdmitType
         DEF SharedLock, CheckReserved, ReadFirstByte, files, TypeOK, CacheType
    <2>2. CASE ~Admit(p, db)
      BY <1>1, <2>2
         DEF SharedLock, CheckReserved, ReadFirstByte, files, TypeOK, States, Locks
    <2> QED BY <2>1, <2>2
  <1>2. CASE DeleteRemnant(p)
    BY <1>2, AdmitType, ArrayTypes DEF DeleteRemnant, TypeOK, CacheType
  <1>3. CASE LockHot(p)
    <2>1. CASE Admit(p, db)
      BY <1>3, <2>1, AdmitType DEF LockHot, files, TypeOK, CacheType
    <2>2. CASE ~Admit(p, db)
      BY <1>3, <2>2, ArrayTypes DEF LockHot, files, TypeOK, CacheType, States, Locks
    <2> QED BY <2>1, <2>2
  <1>4. CASE Release(p)
    BY <1>4 DEF Release, files, TypeOK, States, Locks
  <1>5. CASE \E g \in Pages : Get(p, g)
    BY <1>5 DEF Get, files, TypeOK
  <1> QED BY <1>1, <1>2, <1>3, <1>4, <1>5

LEMMA PlaybackType ==
    ASSUME TypeOK, NEW p \in Pagers,
           \/ Truncate(p) \/ EndPlayback(p) \/ \E g \in Pages : Restore(p, g)
    PROVE  TypeOK'
  <1>1. CASE Truncate(p)
    BY <1>1, ContentTypes DEF Truncate, TypeOK
  <1>2. CASE \E g \in Pages : Restore(p, g)
    BY <1>2, ContentTypes DEF Restore, TypeOK
  <1>3. CASE EndPlayback(p)
    <2>1. [NothingCached EXCEPT ![1] = db[1]] \in CacheType
      BY ArrayTypes, FirstPage DEF CacheType, TypeOK
    <2> QED BY <1>3, <2>1, ArrayTypes
            DEF EndPlayback, TypeOK, CacheType, Synced, States, Reading, Locks, Value
  <1> QED BY <1>1, <1>2, <1>3

LEMMA WritingType ==
    ASSUME TypeOK, DirtyCached, NEW p \in Pagers,
           \/ Begin(p) \/ ExclusiveLock(p) \/ SyncJournal(p) \/ CommitPhaseOne(p)
           \/ CommitPhaseTwo(p) \/ CommitFails(p) \/ RollbackCache(p) \/ RollbackFile(p)
           \/ PlaybackFails(p) \/ \E g \in Pages : Write(p, g) \/ WritePage(p, g)
    PROVE  TypeOK'
  <1>1. CASE Begin(p)
    BY <1>1 DEF Begin, files, TypeOK, States, Writing, Locks, Value
  <1>2. CASE ExclusiveLock(p)
    BY <1>2 DEF ExclusiveLock, files, TypeOK, Locks
  <1>3. CASE SyncJournal(p)
    <2>1. Counted(journal) \in Journal
      BY CountedType DEF TypeOK
    <2> QED BY <1>3, <2>1 DEF SyncJournal, TypeOK, States, Writing
  <1>4. CASE CommitPhaseOne(p)
    BY <1>4 DEF CommitPhaseOne, Synced, TypeOK, States, Writing
  <1>5. CASE CommitPhaseTwo(p)
    BY <1>5, ArrayTypes DEF CommitPhaseTwo, TypeOK, States, Reading, Locks, Value
  <1>6. CASE CommitFails(p) \/ RollbackFile(p) \/ PlaybackFails(p)
    BY <1>6 DEF CommitFails, RollbackFile, PlaybackFails, files, TypeOK, States, Locks
  <1>7. CASE RollbackCache(p)
    <2> DEFINE c == [g \in Pages |-> IF g \in dirty[p]
                        THEN (IF db[g] = None THEN NotCached ELSE db[g]) ELSE cache[p][g]]
    <2>1. c \in CacheType
      BY DEF CacheType, TypeOK
    <2>2. cache' = [cache EXCEPT ![p] = c]
      BY <1>7 DEF RollbackCache, TypeOK
    <2> HIDE DEF c
    <2> QED BY <1>7, <2>1, <2>2, ArrayTypes
            DEF RollbackCache, TypeOK, CacheType, States, Reading, Locks, Value
  <1>8. ASSUME NEW g \in Pages, Write(p, g)
        PROVE  TypeOK'
    <2>1. journal' \in Journal
      BY <1>8, OpenedType, RecordedType, ImageType DEF Write
    <2> QED BY <1>8, <2>1 DEF Write, TypeOK, States, Writing
  <1>9. CASE \E g \in Pages : WritePage(p, g)
    <2>1. PICK g \in Pages : WritePage(p, g)
      BY <1>9
    <2>2. cache[p][g] \in Value
      BY <2>1 DEF WritePage, TypeOK, DirtyCached
    <2> QED BY <2>1, <2>2 DEF WritePage, TypeOK
  <1> QED BY <1>1, <1>2, <1>3, <1>4, <1>5, <1>6, <1>7, <1>8, <1>9

LEMMA ForgetType ==
    ASSUME TypeOK, NEW p \in Pagers, Forget(p), UNCHANGED <<db, disk, kept>>
    PROVE  TypeOK'
  <1>1. journal' \in Journal
    BY JournalTypes DEF Forget, TypeOK
  <1> QED BY <1>1, ArrayTypes DEF Forget, TypeOK, CacheType, States, Locks, Value

LEMMA LossType ==
    ASSUME TypeOK, PowerLoss \/ Remove
    PROVE  TypeOK'
  <1>1. CASE PowerLoss
    BY <1>1, ArrayTypes DEF PowerLoss, TypeOK, CacheType, States, Locks, Value
  <1>2. CASE Remove
    BY <1>2, ArrayTypes DEF Remove, TypeOK
  <1> QED BY <1>1, <1>2

(* The steps of a connection that end with it out of its transaction. *)
LEMMA DirtyStep ==
    ASSUME TypeOK, DirtyCached, Next
    PROVE  DirtyCached'
  <1>1. \A p \in Pagers, g \in Pages : cache[p][g] # NotCached => cache[p][g] \in Value
    BY DEF TypeOK
  <1>2. \A p \in Pagers : version[p] # NotCached
    BY NotCachedIs DEF TypeOK
  <1>3. ASSUME NEW p \in Pagers,
               \/ SharedLock(p) \/ CheckReserved(p) \/ DeleteRemnant(p) \/ ReadFirstByte(p)
               \/ LockHot(p) \/ Release(p) \/ Begin(p)
        PROVE  DirtyCached'
    <2>1. /\ dirty' = dirty /\ dirty[p] = {}
          /\ \A q \in Pagers : q # p => cache'[q] = cache[q] /\ eState'[q] = eState[q]
      BY <1>3 DEF SharedLock, CheckReserved, DeleteRemnant, ReadFirstByte, LockHot, Release,
                  Begin, Admit, TypeOK, DirtyCached, HasDirty, Reading
    <2> QED BY <2>1 DEF DirtyCached
  <1>4. ASSUME NEW p \in Pagers,
               \/ EndPlayback(p) \/ RollbackCache(p) \/ UnlockError(p) \/ Crash(p)
        PROVE  DirtyCached'
    <2>1. /\ dirty'[p] = {}
          /\ \A q \in Pagers : q # p => /\ cache'[q] = cache[q] /\ eState'[q] = eState[q]
                                        /\ dirty'[q] = dirty[q]
      BY <1>4 DEF EndPlayback, RollbackCache, UnlockError, Crash, Forget, TypeOK
    <2> QED BY <2>1 DEF DirtyCached
  <1>5. ASSUME NEW p \in Pagers, NEW g \in Pages, Get(p, g)
        PROVE  DirtyCached'
    <2>1. db[g] # NotCached
      BY NotCachedIs DEF TypeOK
    <2> QED BY <1>5, <2>1 DEF Get, TypeOK, DirtyCached
  <1>6. ASSUME NEW p \in Pagers, NEW g \in Pages, Write(p, g)
        PROVE  DirtyCached'
    BY <1>2, <1>6 DEF Write, TypeOK, DirtyCached, HasDirty
  <1>7. ASSUME NEW p \in Pagers, NEW g \in Pages, Restore(p, g) \/ WritePage(p, g)
        PROVE  DirtyCached'
    BY <1>7 DEF Restore, WritePage, TypeOK, DirtyCached, HasDirty
  <1>8. ASSUME NEW p \in Pagers,
               \/ Truncate(p) \/ ExclusiveLock(p) \/ SyncJournal(p) \/ CommitPhaseOne(p)
               \/ CommitFails(p) \/ RollbackFile(p) \/ PlaybackFails(p)
        PROVE  DirtyCached'
    BY <1>8 DEF Truncate, ExclusiveLock, SyncJournal, CommitPhaseOne, CommitFails,
                RollbackFile, PlaybackFails, TypeOK, DirtyCached, HasDirty
  <1>9. ASSUME NEW p \in Pagers, CommitPhaseTwo(p)
        PROVE  DirtyCached'
    BY <1>9 DEF CommitPhaseTwo, TypeOK, DirtyCached, HasDirty
  <1>10. CASE PowerLoss \/ Remove
    BY <1>10 DEF PowerLoss, Remove, DirtyCached
  <1> QED BY <1>3, <1>4, <1>5, <1>6, <1>7, <1>8, <1>9, <1>10 DEF Next, Step

LEMMA TypeStep ==
    ASSUME TypeOK, DirtyCached, Next
    PROVE  TypeOK'
  <1>1. CASE PowerLoss \/ Remove
    BY <1>1, LossType
  <1>2. CASE \E p \in Pagers : Step(p)
    <2>1. PICK p \in Pagers : Step(p)
      BY <1>2
    <2>2. CASE UnlockError(p) \/ Crash(p)
      BY <2>2, ForgetType DEF UnlockError, Crash
    <2> QED BY <2>1, <2>2, ReadingType, PlaybackType, WritingType DEF Step
  <1> QED BY <1>1, <1>2 DEF Next

LEMMA TypeInvariance == Spec => [](TypeOK /\ DirtyCached)
  <1>1. Init => TypeOK /\ DirtyCached
    BY InitType DEF Init, DirtyCached
  <1>2. TypeOK /\ DirtyCached /\ [Next]_vars => (TypeOK /\ DirtyCached)'
    <2>1. CASE UNCHANGED vars
      BY <2>1 DEF vars, TypeOK, DirtyCached
    <2> QED BY <2>1, TypeStep, DirtyStep
  <1> QED BY <1>1, <1>2, PTL DEF Spec

(* Every variable keeps its type. *)
THEOREM TypeCorrect == Spec => []TypeOK
  BY TypeInvariance, PTL

-----------------------------------------------------------------------------
(* Contents *)

LEMMA ContentType ==
    ASSUME TypeOK
    PROVE  /\ Content \in [Pages -> Value] /\ Previous \in [Pages -> Value]
           /\ journal \in Journal /\ kept \in Journal /\ db \in [Pages -> Value]
  BY ContentTypes DEF Content, Previous, TypeOK

(* Two files that agree where the journal has no record recover to one.    *)
LEMMA SameRecovery ==
    ASSUME NEW j \in Journal, NEW X \in [Pages -> Value], NEW Y \in [Pages -> Value],
           j.size = 0 \/ (X[1] # None /\ Y[1] # None),
           \A g \in Pages : g <= j.size /\ j.counted[g] = None => X[g] = Y[g],
           j.exists, j.hot
    PROVE  Recovered(j, X) = Recovered(j, Y)
  <1>1. PlayedBack(j, X) = PlayedBack(j, Y)
    <2>1. \A g \in Pages : PlayedBack(j, X)[g] = PlayedBack(j, Y)[g]
      <3> TAKE g \in Pages
      <3>1. g \in Nat /\ j.size \in Nat
        BY FirstPage DEF Journal
      <3>2. g > j.size \/ g <= j.size
        BY <3>1
      <3> QED BY <3>2, ContentTypes
    <2> QED BY <2>1, ContentTypes
  <1>2. CASE j.size = 0
    <2>1. ASSUME NEW Z \in [Pages -> Value]
          PROVE  PlayedBack(j, Z) = NoPages
      <3>1. \A g \in Pages : PlayedBack(j, Z)[g] = None
        BY <1>2, ContentTypes DEF Pages
      <3> QED BY <3>1, ContentTypes, ArrayTypes DEF NoPages
    <2>2. ASSUME NEW Z \in [Pages -> Value]
          PROVE  Recovered(j, Z) = NoPages
      BY <2>1, EmptyIs, SizeIs DEF Recovered
    <2> QED BY <2>2
  <1>3. CASE X[1] # None /\ Y[1] # None
    BY <1>1, <1>3, SizeIs, FirstPage DEF Recovered
  <1> QED BY <1>2, <1>3

(* A journal that is not hot, or that has no pages to act on.              *)
LEMMA NotRecovered ==
    ASSUME NEW j, NEW X \in [Pages -> Value], j.hot => X = NoPages
    PROVE  Recovered(j, X) = X
  BY EmptyIs DEF Recovered

LEMMA RecoveredPage ==
    ASSUME NEW j \in Journal, NEW X \in [Pages -> Value], NEW g \in Pages
    PROVE  Recovered(j, X)[g] \in {None, j.counted[g], X[g]}
  BY ContentTypes DEF Recovered

(* Records that no header counts do not matter.                            *)
LEMMA SameHeaders ==
    ASSUME NEW j \in Journal, NEW k \in Journal, NEW X,
           j.exists = k.exists, j.hot = k.hot,
           j.hot => j.size = k.size /\ j.counted = k.counted
    PROVE  Recovered(j, X) = Recovered(k, X)
  BY DEF Recovered, PlayedBack

-----------------------------------------------------------------------------
(* The locks *)

Reserving == {"RESERVED", "PENDING", "EXCLUSIVE"}

LockOf(p) ==
    /\ eState[p] = "OPEN" => eLock[p] = "NO"
    /\ eState[p] \in {"seen", "unreserved", "hot", "READER"} => eLock[p] = "SHARED"
    /\ eState[p] = "WRITER_LOCKED" => eLock[p] = "RESERVED"
    /\ eState[p] = "WRITER_CACHEMOD" => eLock[p] \in Reserving
    /\ eState[p] \in {"WRITER_DBMOD", "WRITER_FINISHED", "playback"} => eLock[p] = "EXCLUSIVE"
    /\ eState[p] = "ERROR" => eLock[p] \in {"SHARED", "EXCLUSIVE"}

Excludes(p, q) ==
    /\ eLock[p] \in Reserving => eLock[q] \in {"NO", "SHARED"}
    /\ eLock[p] = "EXCLUSIVE" => eLock[q] = "NO"

(* A connection that may change something holds the lock for it, and no    *)
(* other one holds a lock that this excludes.                              *)
LocksExclude ==
    \A p \in Pagers : LockOf(p) /\ \A q \in Others(p) : Excludes(p, q)

(* A step of one connection that takes or gives up a lock. *)
LEMMA LockStep ==
    ASSUME TypeOK, LocksExclude, NEW p \in Pagers,
           eState' \in [Pagers -> States], eLock' \in [Pagers -> Locks],
           \A q \in Others(p) : eState'[q] = eState[q] /\ eLock'[q] = eLock[q],
           LockOf(p)',
           \/ eLock'[p] \in {eLock[p], "NO"}
           \/ eLock'[p] = "SHARED" /\ (eLock[p] # "NO" \/ CanShare(p))
           \/ eLock'[p] = "RESERVED" /\ CanReserve(p)
           \/ eLock'[p] = "PENDING" /\ eLock[p] \in Reserving
           \/ eLock'[p] = "EXCLUSIVE" /\ CanExclude(p)
    PROVE  LocksExclude'
  <1>1. ASSUME NEW q \in Others(p)
        PROVE  Excludes(p, q)' /\ Excludes(q, p)'
    <2>1. q \in Pagers /\ p \in Others(q) /\ Excludes(p, q) /\ Excludes(q, p)
          /\ eLock[q] \in Locks /\ eLock[p] \in Locks /\ eLock'[q] = eLock[q]
      BY <1>1 DEF Others, LocksExclude, TypeOK
    <2>2. CanShare(p) => eLock[q] \notin {"PENDING", "EXCLUSIVE"}
      BY DEF CanShare
    <2>3. CanReserve(p) => eLock[q] \in {"NO", "SHARED"}
      BY DEF CanReserve
    <2>4. CanExclude(p) => eLock[q] = "NO"
      BY DEF CanExclude
    <2> QED BY <2>1, <2>2, <2>3, <2>4 DEF Excludes, Reserving, Locks
  <1>2. ASSUME NEW q \in Pagers, NEW r \in Others(q)
        PROVE  LockOf(q)' /\ Excludes(q, r)'
    <2>1. CASE q = p
      BY <1>1, <2>1
    <2>2. CASE q # p
      <3>1. q \in Others(p) /\ LockOf(q) /\ Excludes(q, r)
        BY <2>2 DEF Others, LocksExclude
      <3>2. LockOf(q)'
        BY <3>1 DEF LockOf
      <3>3. CASE r = p
        BY <1>1, <3>1, <3>2, <3>3
      <3>4. CASE r # p
        <4>1. r \in Others(p)
          BY <3>4 DEF Others
        <4> QED BY <3>1, <3>2, <4>1 DEF Excludes
      <3> QED BY <3>3, <3>4
    <2> QED BY <2>1, <2>2
  <1>3. ASSUME NEW q \in Pagers
        PROVE  LockOf(q)'
    <2>1. CASE q = p
      BY <2>1
    <2>2. CASE q # p
      <3>1. q \in Others(p) /\ LockOf(q)
        BY <2>2 DEF Others, LocksExclude
      <3> QED BY <3>1 DEF LockOf
    <2> QED BY <2>1, <2>2
  <1> QED BY <1>2, <1>3 DEF LocksExclude, Others

LEMMA LocksStep ==
    ASSUME TypeOK, TypeOK', LocksExclude, Next
    PROVE  LocksExclude'
  <1>1. eState' \in [Pagers -> States] /\ eLock' \in [Pagers -> Locks]
    BY DEF TypeOK
  <1>2. ASSUME NEW p \in Pagers, Step(p)
        PROVE  LocksExclude'
    <2> LockOf(p)
      BY DEF LocksExclude
    <2>1. CASE SharedLock(p) \/ CheckReserved(p) \/ DeleteRemnant(p) \/ ReadFirstByte(p)
      <3>1. /\ eState'[p] \in {"READER", "seen", "unreserved", "hot"} /\ eLock'[p] = "SHARED"
            /\ eLock[p] # "NO" \/ CanShare(p)
            /\ \A q \in Others(p) : eState'[q] = eState[q] /\ eLock'[q] = eLock[q]
        BY <2>1 DEF SharedLock, CheckReserved, DeleteRemnant, ReadFirstByte, Admit, TypeOK,
                    Others, LockOf
      <3>2. LockOf(p)'
        BY <3>1 DEF LockOf
      <3> QED BY <1>1, <3>1, <3>2, LockStep
    <2>2. CASE LockHot(p)
      <3>1. /\ LockOf(p)'
            /\ \/ eLock'[p] = "EXCLUSIVE" /\ CanExclude(p)
               \/ eLock'[p] \in {eLock[p], "NO"}
            /\ \A q \in Others(p) : eState'[q] = eState[q] /\ eLock'[q] = eLock[q]
        BY <2>2 DEF LockHot, Admit, TypeOK, Others, LockOf
      <3> QED BY <1>1, <3>1, LockStep
    <2>3. CASE \/ EndPlayback(p) \/ CommitPhaseTwo(p) \/ RollbackCache(p) \/ CommitFails(p)
      <3>1. /\ LockOf(p)' /\ eLock[p] # "NO" /\ eLock'[p] = "SHARED"
            /\ \A q \in Others(p) : eState'[q] = eState[q] /\ eLock'[q] = eLock[q]
        BY <2>3 DEF EndPlayback, CommitPhaseTwo, RollbackCache, CommitFails, TypeOK, Others,
                    LockOf, Reserving
      <3> QED BY <1>1, <3>1, LockStep
    <2>4. CASE Release(p) \/ UnlockError(p) \/ Crash(p)
      <3>1. /\ LockOf(p)' /\ eLock'[p] = "NO"
            /\ \A q \in Others(p) : eState'[q] = eState[q] /\ eLock'[q] = eLock[q]
        BY <2>4 DEF Release, UnlockError, Crash, Forget, TypeOK, Others, LockOf
      <3> QED BY <1>1, <3>1, LockStep
    <2>5. CASE Begin(p)
      <3>1. /\ LockOf(p)' /\ eLock'[p] = "RESERVED" /\ CanReserve(p)
            /\ \A q \in Others(p) : eState'[q] = eState[q] /\ eLock'[q] = eLock[q]
        BY <2>5 DEF Begin, TypeOK, Others, LockOf
      <3> QED BY <1>1, <3>1, LockStep
    <2>6. CASE ExclusiveLock(p)
      <3>1. /\ LockOf(p)' 
            /\ \/ eLock'[p] = "EXCLUSIVE" /\ CanExclude(p)
               \/ eLock'[p] = "PENDING" /\ eLock[p] \in Reserving
            /\ \A q \in Others(p) : eState'[q] = eState[q] /\ eLock'[q] = eLock[q]
        BY <2>6 DEF ExclusiveLock, TypeOK, Others, LockOf, Reserving
      <3> QED BY <1>1, <3>1, LockStep
    <2>7. CASE \/ SyncJournal(p) \/ CommitPhaseOne(p) \/ RollbackFile(p) \/ PlaybackFails(p)
               \/ Truncate(p)
      <3>1. /\ LockOf(p)' /\ eLock'[p] = eLock[p]
            /\ \A q \in Others(p) : eState'[q] = eState[q] /\ eLock'[q] = eLock[q]
        BY <2>7 DEF SyncJournal, CommitPhaseOne, RollbackFile, PlaybackFails, Truncate, TypeOK,
                    Others, LockOf
      <3> QED BY <1>1, <3>1, LockStep
    <2>8. CASE \E g \in Pages : Restore(p, g) \/ Get(p, g) \/ Write(p, g) \/ WritePage(p, g)
      <3>1. /\ LockOf(p)' /\ eLock'[p] = eLock[p]
            /\ \A q \in Others(p) : eState'[q] = eState[q] /\ eLock'[q] = eLock[q]
        BY <2>8 DEF Restore, Get, Write, WritePage, TypeOK, Others, LockOf, Reserving
      <3> QED BY <1>1, <3>1, LockStep
    <2> QED BY <1>2, <2>1, <2>2, <2>3, <2>4, <2>5, <2>6, <2>7, <2>8 DEF Step
  <1>3. CASE PowerLoss
    BY <1>3 DEF PowerLoss, LocksExclude, LockOf, Excludes, Reserving, Others
  <1>4. CASE Remove
    BY <1>4 DEF Remove, LocksExclude, LockOf, Excludes, Reserving
  <1> QED BY <1>2, <1>3, <1>4 DEF Next

-----------------------------------------------------------------------------
(* The invariant of the files and the caches *)

(* The pages that a loss of power leaves, where one is considered.         *)
OnDisk == IF TruncatesFirst THEN disk ELSE db

LEMMA OnDiskIs ==
    /\ UNCHANGED db => OnDisk' \in {OnDisk, disk', db'}
    /\ UNCHANGED <<db, disk>> => OnDisk' = OnDisk
    /\ UNCHANGED disk => OnDisk' \in {OnDisk, db'}
    /\ disk' = db' => OnDisk' = db'
    /\ TypeOK => OnDisk \in [Pages -> Value]
  BY DEF OnDisk, TypeOK

(* A journal that is read back has been synced, and without one the disk   *)
(* has what the file has.                                                  *)
KeptIs ==
    /\ journal.hot => journal.exists
    /\ kept.hot => kept.exists
    /\ journal.hot => kept.hot /\ kept.size = journal.size /\ kept.counted = journal.counted
    /\ ~journal.hot => OnDisk = db

(* The pages that the journal does not have were not changed since.        *)
Undoable ==
    kept.hot =>
        /\ \A g \in Pages : g <= kept.size /\ kept.counted[g] = None => OnDisk[g] = db[g]
        /\ kept.size > 0 => \/ db = NoPages /\ OnDisk = NoPages
                            \/ db[1] # None /\ OnDisk[1] # None

(* The contents before and after the power fails are the same if their     *)
(* change counters are.                                                    *)
Contents ==
    /\ NoHoles(Content) /\ NoHoles(Previous)
    /\ Previous[1] = Content[1] => Previous = Content

HasFirst == journal.size = 0 \/ db[1] # None

Settled == {"READER", "WRITER_LOCKED", "WRITER_CACHEMOD"}

(* While a connection reads or changes its cache only, the file is what    *)
(* the last transaction left.                                              *)
SettledFile(p) == eState[p] \in Settled => OnDisk = db /\ (journal.hot => db = NoPages)

(* What the journal is in each state of a connection. *)
Journalled(p) ==
    /\ eState[p] = "WRITER_CACHEMOD" =>
          /\ journal.exists /\ ~journal.hot /\ journal.counted = NoPages
          /\ journal.size = SizeOf(db)
    /\ eState[p] \in {"WRITER_DBMOD", "WRITER_FINISHED"} => journal.hot /\ HasFirst
    /\ eState[p] = "ERROR" /\ eLock[p] = "SHARED" => journal.hot /\ db[1] # None
    /\ eState[p] = "playback" => journal.exists
    /\ eState[p] \in {"hot", "playback"} /\ journal.hot => HasFirst

(* Records hold what the file still has, and every page that was changed   *)
(* and was there before has one.                                           *)
Recording(p) ==
    eState[p] \in {"WRITER_CACHEMOD", "WRITER_DBMOD"} =>
       \A g \in Pages :
          /\ journal.tail[g] # None => /\ g <= journal.size /\ journal.tail[g] = db[g]
                                       /\ journal.counted[g] = None
          /\ g <= journal.size => /\ db[g] # None
                                  /\ g \in dirty[p] => \/ journal.tail[g] # None
                                                       \/ journal.counted[g] # None

(* Page 1 is cached before others are, and pages that are not in the file  *)
(* are not cached.                                                         *)
CacheShape(p) ==
    /\ cache[p][1] = NotCached => cache[p] = NothingCached
    /\ \A g \in Pages : g # 1 => cache[p][g] # None
    /\ eState[p] \in Reading \cup Writing /\ cache[p][1] = NotCached => db[1] = None

(* What is cached and not dirty is what the file has. *)
CacheRead(p) ==
    eState[p] \in Reading \cup Writing =>
        \A g \in Pages : g \notin dirty[p] => cache[p][g] \in {NotCached, db[g]}

(* Nobody else has seen what a transaction writes. *)
Transaction(p) ==
    eState[p] \in Writing =>
        /\ version[p] \in Versions
        /\ \A g \in dirty[p] : cache[p][g] = version[p]
        /\ NoHoles(Image(p))
        /\ \A g \in Pages : Content[g] # version[p] /\ Previous[g] # version[p]
        /\ \A q \in Others(p), g \in Pages : cache[q][g] # version[p]
        /\ eState[p] = "WRITER_FINISHED" => OnDisk = db /\ cache[p][1] = version[p]

(* A cache whose change counter is that of the content is right. *)
Fresh(p, X) == cache[p][1] = X[1] => \A g \in Pages : cache[p][g] \in {NotCached, X[g]}
CacheFresh(p) ==
    eState[p] \notin Writing \cup {"playback", "ERROR"} => Fresh(p, Content) /\ Fresh(p, Previous)

PagerInv(p) ==
    /\ SettledFile(p) /\ Journalled(p) /\ Recording(p)
    /\ CacheShape(p) /\ CacheRead(p) /\ Transaction(p) /\ CacheFresh(p)

Inv == /\ TypeOK /\ DirtyCached /\ LocksExclude
       /\ KeptIs /\ Undoable /\ Contents
       /\ \A p \in Pagers : PagerInv(p)

(* A step neither of whose files changed the content. *)
SameContent == Content' = Content /\ Previous' = Previous

(* The variables of connection q. *)
Keeps(q) == /\ eState'[q] = eState[q] /\ eLock'[q] = eLock[q] /\ cache'[q] = cache[q]
            /\ dirty'[q] = dirty[q] /\ version'[q] = version[q]

LEMMA Distinct ==
    ASSUME NEW p \in Pagers, NEW q \in Others(p)
    PROVE  q \in Pagers /\ q # p /\ p \in Others(q)
  BY DEF Others

LEMMA SettledContent ==
    ASSUME Inv, NEW p \in Pagers, eState[p] \in Settled
    PROVE  Content = db /\ OnDisk = db
  <1>1. OnDisk = db /\ (journal.hot => db = NoPages)
    BY DEF Inv, PagerInv, SettledFile
  <1> QED BY <1>1, NotRecovered DEF Content, Inv, TypeOK

(* What connection p does with its own variables is no concern of another  *)
(* one, unless it gets hold of a version that this one writes.             *)
LEMMA FilesSame ==
    ASSUME Inv, NEW p \in Pagers, UNCHANGED files,
           \A q \in Others(p) : Keeps(q),
           \A q \in Others(p) : eState[q] \in Writing =>
               \A g \in Pages : cache'[p][g] # version[q]
    PROVE  /\ KeptIs' /\ Undoable' /\ Contents' /\ SameContent
           /\ \A q \in Others(p) : PagerInv(q)'
  <1>1. Content' = Content /\ Previous' = Previous
    BY DEF Content, Previous, files
  <1>2. KeptIs' /\ Undoable' /\ Contents'
    BY <1>1, OnDiskIs DEF files, Inv, KeptIs, Undoable, Contents
  <1>3. ASSUME NEW q \in Others(p)
        PROVE  PagerInv(q)'
    <2>1. q \in Pagers /\ q # p /\ PagerInv(q) /\ Keeps(q)
      BY <1>3, Distinct DEF Inv
    <2>2. Image(q)' = Image(q)
      BY <2>1 DEF Image, files, Keeps
    <2>3. SettledFile(q)' /\ Journalled(q)' /\ Recording(q)'
      BY <2>1, OnDiskIs DEF PagerInv, SettledFile, Journalled, HasFirst, Recording, files, Keeps
    <2>4. CacheShape(q)' /\ CacheRead(q)'
      BY <2>1 DEF PagerInv, CacheShape, CacheRead, files, Keeps
    <2>5. CacheFresh(q)'
      BY <1>1, <2>1 DEF PagerInv, CacheFresh, Fresh, Keeps
    <2>6. \A r \in Others(q) : r = p \/ r \in Others(p)
      BY DEF Others
    <2>7. Transaction(q)'
      BY <1>1, <2>1, <2>2, <2>6, OnDiskIs DEF PagerInv, Transaction, files, Keeps
    <2> QED BY <2>3, <2>4, <2>5, <2>7 DEF PagerInv
  <1> QED BY <1>1, <1>2, <1>3 DEF SameContent

(* An idle connection needs only that its cache does not look fresh.       *)
LEMMA IdleKeeps ==
    ASSUME NEW q \in Pagers, PagerInv(q), Keeps(q), eState[q] = "OPEN",
           \A X \in {Content', Previous'} : X \in {Content, Previous} \/ X[1] # cache[q][1]
    PROVE  PagerInv(q)'
  <1>1. eState'[q] = "OPEN"
    BY DEF Keeps
  <1>2. SettledFile(q)' /\ Journalled(q)' /\ Recording(q)' /\ CacheRead(q)' /\ Transaction(q)'
    BY <1>1 DEF SettledFile, Settled, Journalled, Recording, CacheRead, Transaction, Reading,
                Writing
  <1>3. CacheShape(q)'
    BY <1>1 DEF PagerInv, CacheShape, Reading, Writing, Keeps
  <1>4. Fresh(q, Content) /\ Fresh(q, Previous)
    BY DEF PagerInv, CacheFresh, Writing
  <1>5. CacheFresh(q)'
    BY <1>4 DEF CacheFresh, Fresh, Keeps
  <1> QED BY <1>2, <1>3, <1>5 DEF PagerInv

(* Who holds the EXCLUSIVE lock has it for itself. *)
LEMMA AloneExclusive ==
    ASSUME Inv, NEW p \in Pagers, eLock[p] = "EXCLUSIVE", NEW q \in Others(p)
    PROVE  eState[q] = "OPEN"
  <1>1. LockOf(q) /\ Excludes(p, q) /\ q \in Pagers /\ eState[q] \in States
    BY Distinct DEF Inv, LocksExclude, TypeOK
  <1> QED BY <1>1 DEF LockOf, Excludes, Reserving, States, Reading, Writing

(* Who holds a RESERVED lock is the only one to write. *)
LEMMA AloneReserved ==
    ASSUME Inv, NEW p \in Pagers, eLock[p] \in Reserving, NEW q \in Others(p)
    PROVE  /\ eState[q] \notin Writing \cup {"playback"}
           /\ eState[q] = "ERROR" => eLock[q] = "SHARED"
  <1>1. LockOf(q) /\ Excludes(p, q) /\ q \in Pagers /\ eState[q] \in States
    BY Distinct DEF Inv, LocksExclude, TypeOK
  <1> QED BY <1>1 DEF LockOf, Excludes, Reserving, States, Reading, Writing

FilesInv == KeptIs /\ Undoable /\ Contents /\ \A p \in Pagers : PagerInv(p)

LEMMA AllPagers ==
    ASSUME NEW p \in Pagers, KeptIs', Undoable', Contents', PagerInv(p)',
           \A q \in Others(p) : PagerInv(q)'
    PROVE  FilesInv'
  <1>1. \A q \in Pagers : q = p \/ q \in Others(p)
    BY DEF Others
  <1> QED BY <1>1 DEF FilesInv

(* Only one connection holds a RESERVED lock, and before it holds the      *)
(* EXCLUSIVE one it has not touched the file.                              *)
LEMMA NotExclusive ==
    ASSUME Inv, NEW p \in Pagers, eLock[p] = "SHARED", NEW q \in Others(p)
    PROVE  /\ eState[q] \notin {"WRITER_DBMOD", "WRITER_FINISHED", "playback"}
           /\ eLock[q] \notin {"NO", "SHARED"} => eState[q] \in Settled
  <1>1. LockOf(q) /\ Excludes(q, p) /\ q \in Pagers /\ p \in Others(q) /\ eState[q] \in States
        /\ eLock[q] \in Locks
    BY Distinct DEF Inv, LocksExclude, TypeOK
  <1> QED BY <1>1 DEF LockOf, Excludes, Reserving, States, Reading, Writing, Settled, Locks

(* A connection becomes a reader of a file that is as the last transaction *)
(* left it.                                                                *)
LEMMA Admitted ==
    ASSUME Inv, NEW p \in Pagers, Admit(p, db), SameContent, Content = db,
           db' = db, OnDisk' = db, journal'.hot => db = NoPages,
           eState[p] \in {"OPEN", "seen", "unreserved", "hot"}, dirty' = dirty
    PROVE  /\ PagerInv(p)'
           /\ \A g \in Pages : cache'[p][g] \in {NotCached, cache[p][g], db[g]}
           /\ \A q \in Others(p) : /\ eState'[q] = eState[q] /\ eLock'[q] = eLock[q]
                                   /\ cache'[q] = cache[q]
  <1> DEFINE c == Validated(p, db)
  <1>1. /\ eState' = [eState EXCEPT ![p] = "READER"] /\ eState'[p] = "READER"
        /\ cache'[p] = c /\ c \in CacheType
        /\ \A q \in Others(p) : /\ eState'[q] = eState[q] /\ eLock'[q] = eLock[q]
                                /\ cache'[q] = cache[q]
    BY ArrayTypes, FirstPage DEF Admit, Validated, Inv, TypeOK, Others, CacheType
  <1>2. PagerInv(p) /\ dirty[p] = {} /\ TypeOK /\ Contents /\ Content \in [Pages -> Value]
    BY ContentType DEF Inv, DirtyCached, HasDirty
  <1>3. Fresh(p, db)
    BY <1>2 DEF PagerInv, CacheFresh, Writing
  <1>4. /\ c[1] = db[1] /\ db[1] # NotCached
        /\ \A g \in Pages : g # 1 => c[g] \in {NotCached, cache[p][g]}
        /\ \A g \in Pages : c[g] \in {NotCached, db[g]}
        /\ \A g \in Pages : g # 1 => c[g] # None
    <2>1. db[1] \in Value /\ db[1] # NotCached /\ NotCached # None
      BY <1>2, NotCachedIs, FirstPage DEF TypeOK
    <2>2. /\ cache[p] \in CacheType
          /\ cache[p][1] = NotCached => cache[p] = NothingCached
          /\ \A g \in Pages : g # 1 => cache[p][g] # None
      BY <1>2 DEF PagerInv, CacheShape, TypeOK, CacheType
    <2>3. CASE cache[p][1] \in {NotCached, db[1]}
      <3>1. c = [cache[p] EXCEPT ![1] = db[1]]
        BY <2>3 DEF Validated
      <3>2. \A g \in Pages : cache[p][g] \in {NotCached, db[g]}
        BY <1>3, <2>2, <2>3 DEF Fresh, NothingCached
      <3> HIDE DEF c
      <3> QED BY <2>1, <2>2, <3>1, <3>2, FirstPage DEF CacheType
    <2>4. CASE cache[p][1] \notin {NotCached, db[1]}
      <3>1. c = [NothingCached EXCEPT ![1] = db[1]]
        BY <2>4 DEF Validated
      <3> HIDE DEF c
      <3> QED BY <2>1, <3>1, FirstPage DEF NothingCached
    <2> QED BY <2>3, <2>4
  <1> HIDE DEF c
  <1>5. SettledFile(p)' /\ Journalled(p)' /\ Recording(p)' /\ Transaction(p)'
    BY <1>1 DEF SettledFile, Settled, Journalled, Recording, Transaction, Writing
  <1>6. CacheShape(p)' /\ CacheRead(p)'
    BY <1>1, <1>4 DEF CacheShape, CacheRead
  <1>7. Fresh(p, Content)' /\ Fresh(p, Previous)'
    BY <1>1, <1>2, <1>4 DEF Fresh, SameContent, Contents
  <1>8. PagerInv(p)'
    BY <1>5, <1>6, <1>7 DEF PagerInv, CacheFresh
  <1> QED BY <1>1, <1>4, <1>8, FirstPage

(* The same, where the files stay what they are. *)
LEMMA AdmittedSame ==
    ASSUME Inv, NEW p \in Pagers, Admit(p, db), UNCHANGED <<files, dirty, version>>,
           OnDisk = db, journal.hot => db = NoPages,
           eState[p] \in {"OPEN", "seen", "unreserved", "hot"},
           \A q \in Others(p) : eState[q] \notin {"WRITER_DBMOD", "WRITER_FINISHED"}
    PROVE  FilesInv' /\ SameContent
  <1>1. Content = db /\ SameContent
    BY NotRecovered DEF Content, Previous, SameContent, files, Inv, TypeOK
  <1>2. /\ PagerInv(p)'
        /\ \A g \in Pages : cache'[p][g] \in {NotCached, cache[p][g], db[g]}
        /\ \A q \in Others(p) : Keeps(q)
    <2>1. db' = db /\ OnDisk' = db /\ (journal'.hot => db = NoPages) /\ dirty' = dirty
          /\ version' = version
      BY OnDiskIs DEF files
    <2> QED BY <1>1, <2>1, Admitted DEF Keeps
  <1>3. ASSUME NEW q \in Others(p), eState[q] \in Writing, NEW g \in Pages
        PROVE  cache'[p][g] # version[q]
    <2>1. /\ q \in Pagers /\ p \in Others(q)
      BY Distinct
    <2>2. version[q] \in Versions /\ Content[g] # version[q] /\ cache[p][g] # version[q]
      BY <1>3, <2>1 DEF Inv, PagerInv, Transaction
    <2>3. version[q] # NotCached
      BY <2>1, <2>2, NotCachedIs DEF Value
    <2> QED BY <1>1, <1>2, <2>2, <2>3
  <1>4. UNCHANGED files
    OBVIOUS
  <1>5. /\ KeptIs' /\ Undoable' /\ Contents' /\ SameContent
        /\ \A q \in Others(p) : PagerInv(q)'
    BY <1>2, <1>3, <1>4, FilesSame
  <1> QED BY <1>2, <1>5, AllPagers

(* A step to a state on the way to becoming a reader, or out of it. *)
LEMMA OnTheWay ==
    ASSUME Inv, NEW p \in Pagers, UNCHANGED <<files, dirty, version>>,
           \A q \in Others(p) : eState'[q] = eState[q] /\ eLock'[q] = eLock[q],
           eState[p] \in {"OPEN", "seen", "unreserved", "hot", "READER"}, cache' = cache,
           eState'[p] \in {"OPEN", "seen", "unreserved", "hot"},
           eState'[p] = "hot" /\ journal.hot => HasFirst
    PROVE  FilesInv' /\ SameContent
  <1>1. PagerInv(p)
    BY DEF Inv
  <1>2. \A q \in Others(p) : Keeps(q)
    BY DEF Keeps
  <1>3. \A q \in Others(p) : eState[q] \in Writing => \A g \in Pages : cache'[p][g] # version[q]
    <2>1. ASSUME NEW q \in Others(p), eState[q] \in Writing, NEW g \in Pages
          PROVE  cache[p][g] # version[q]
      BY <2>1, Distinct DEF Inv, PagerInv, Transaction
    <2> QED BY <2>1
  <1>4. UNCHANGED files
    OBVIOUS
  <1>5. /\ KeptIs' /\ Undoable' /\ Contents' /\ SameContent
        /\ \A q \in Others(p) : PagerInv(q)'
    BY <1>2, <1>3, <1>4, FilesSame
  <1>6. SettledFile(p)' /\ Recording(p)' /\ CacheRead(p)' /\ Transaction(p)'
    BY DEF SettledFile, Settled, Recording, CacheRead, Transaction, Reading, Writing
  <1>7. Journalled(p)'
    BY DEF Journalled, HasFirst, files
  <1>8. CacheShape(p)'
    BY <1>1 DEF PagerInv, CacheShape, Reading, Writing
  <1>9. CacheFresh(p)'
    BY <1>1, <1>5 DEF PagerInv, CacheFresh, Fresh, SameContent, Writing
  <1>10. PagerInv(p)'
    BY <1>6, <1>7, <1>8, <1>9 DEF PagerInv
  <1> QED BY <1>5, <1>10, AllPagers

LEMMA SharedLockStep ==
    ASSUME Inv, NEW p \in Pagers, SharedLock(p)
    PROVE  FilesInv' /\ SameContent
  <1>1. CASE ~journal.exists /\ Admit(p, db)
    <2>1. ~journal.hot /\ OnDisk = db
      BY <1>1 DEF Inv, KeptIs, TypeOK, Journal
    <2>2. ASSUME NEW q \in Others(p)
          PROVE  eState[q] \notin {"WRITER_DBMOD", "WRITER_FINISHED"}
      <3>1. LockOf(q) /\ eLock[q] # "EXCLUSIVE"
        BY Distinct DEF SharedLock, CanShare, Inv, LocksExclude
      <3> QED BY <3>1 DEF LockOf
    <2> QED BY <1>1, <2>1, <2>2, AdmittedSame DEF SharedLock
  <1>2. CASE eState'[p] = "seen" /\ cache' = cache
    <2>1. \A q \in Others(p) : eState'[q] = eState[q] /\ eLock'[q] = eLock[q]
      BY <1>2 DEF SharedLock, Admit, Others, Inv, TypeOK
    <2> QED BY <1>2, <2>1, OnTheWay DEF SharedLock
  <1>3. eState' = [eState EXCEPT ![p] = "seen"] => eState'[p] = "seen"
    BY DEF Inv, TypeOK
  <1> QED BY <1>1, <1>2, <1>3 DEF SharedLock

LEMMA CheckReservedStep ==
    ASSUME Inv, NEW p \in Pagers, CheckReserved(p)
    PROVE  FilesInv' /\ SameContent
  <1>1. eState[p] = "seen" /\ eLock[p] = "SHARED"
    BY DEF CheckReserved, Inv, LocksExclude, LockOf
  <1>2. CASE IsReserved(p) /\ Admit(p, db)
    <2>1. PICK q \in Others(p) : eLock[q] \notin {"NO", "SHARED"}
      BY <1>2 DEF IsReserved
    <2>2. q \in Pagers /\ eState[q] \in Settled
      BY <1>1, <2>1, NotExclusive, Distinct
    <2>3. OnDisk = db /\ (journal.hot => db = NoPages)
      BY <2>2 DEF Inv, PagerInv, SettledFile
    <2> QED BY <1>1, <1>2, <2>3, NotExclusive, AdmittedSame DEF CheckReserved
  <1>3. CASE eState' = [eState EXCEPT ![p] = "unreserved"] /\ UNCHANGED <<eLock, cache>>
    <2>1. /\ eState'[p] = "unreserved" 
          /\ \A q \in Others(p) : eState'[q] = eState[q] /\ eLock'[q] = eLock[q]
      BY <1>3 DEF Others, Inv, TypeOK
    <2> QED BY <1>1, <1>3, <2>1, OnTheWay DEF CheckReserved
  <1> QED BY <1>2, <1>3 DEF CheckReserved

LEMMA ReadFirstByteStep ==
    ASSUME Inv, NEW p \in Pagers, ReadFirstByte(p)
    PROVE  FilesInv' /\ SameContent
  <1>1. eState[p] = "unreserved" /\ eLock[p] = "SHARED"
    BY DEF ReadFirstByte, Inv, LocksExclude, LockOf
  <1>2. CASE ~journal.hot /\ Admit(p, db)
    <2>1. OnDisk = db
      BY <1>2 DEF Inv, KeptIs
    <2> QED BY <1>1, <1>2, <2>1, NotExclusive, AdmittedSame DEF ReadFirstByte
  <1>3. CASE eState' = [eState EXCEPT ![p] = "hot"] /\ UNCHANGED <<eLock, cache>>
    <2>1. /\ eState'[p] = "hot" 
          /\ \A q \in Others(p) : eState'[q] = eState[q] /\ eLock'[q] = eLock[q]
      BY <1>3 DEF Others, Inv, TypeOK
    <2>2. ASSUME journal.hot
          PROVE  HasFirst
      <3>1. db # NoPages
        BY EmptyIs DEF ReadFirstByte, Inv, TypeOK
      <3>2. journal.size \in Nat
        BY FirstPage DEF Inv, TypeOK, Journal
      <3> QED BY <2>2, <3>1, <3>2 DEF Inv, KeptIs, Undoable, HasFirst
    <2> QED BY <1>1, <1>3, <2>1, <2>2, OnTheWay DEF ReadFirstByte
  <1> QED BY <1>2, <1>3 DEF ReadFirstByte

LEMMA ReleaseStep ==
    ASSUME Inv, NEW p \in Pagers, Release(p)
    PROVE  FilesInv' /\ SameContent
  <1>1. /\ eState'[p] = "OPEN" 
        /\ \A q \in Others(p) : eState'[q] = eState[q] /\ eLock'[q] = eLock[q]
    BY DEF Release, Others, Inv, TypeOK
  <1> QED BY <1>1, OnTheWay DEF Release

LEMMA LockHotStep ==
    ASSUME Inv, NEW p \in Pagers, LockHot(p)
    PROVE  FilesInv' /\ SameContent
  <1>1. eState[p] = "hot" /\ eLock[p] = "SHARED" /\ PagerInv(p)
    BY DEF LockHot, Inv, LocksExclude, LockOf
  <1>2. CASE ~journal.exists /\ Admit(p, db)
    <2>1. ~journal.hot /\ OnDisk = db
      BY <1>2 DEF Inv, KeptIs, TypeOK, Journal
    <2> QED BY <1>1, <1>2, <2>1, NotExclusive, AdmittedSame DEF LockHot
  <1>3. CASE eState' = [eState EXCEPT ![p] = "OPEN"] /\ eLock' = [eLock EXCEPT ![p] = "NO"]
             /\ cache' = cache
    <2>1. /\ eState'[p] = "OPEN"
          /\ \A q \in Others(p) : eState'[q] = eState[q] /\ eLock'[q] = eLock[q]
      BY <1>3 DEF Others, Inv, TypeOK
    <2> QED BY <1>1, <1>3, <2>1, OnTheWay DEF LockHot
  <1>4. CASE /\ CanExclude(p) /\ journal.exists
             /\ eState' = [eState EXCEPT ![p] = "playback"]
             /\ eLock' = [eLock EXCEPT ![p] = "EXCLUSIVE"]
             /\ cache' = [cache EXCEPT ![p] = NothingCached]
    <2>1. /\ eState'[p] = "playback" /\ cache'[p] = NothingCached
          /\ eLock'[p] = "EXCLUSIVE"
          /\ \A q \in Others(p) : Keeps(q)
      BY <1>4 DEF LockHot, Others, Inv, TypeOK, Keeps
    <2>2. ASSUME NEW q \in Others(p), eState[q] \in Writing, NEW g \in Pages
          PROVE  cache'[p][g] # version[q]
      <3>1. version[q] \in Versions
        BY <2>2, Distinct DEF Inv, PagerInv, Transaction
      <3> QED BY <2>1, <3>1, NotCachedIs DEF NothingCached, Value
    <2>3. UNCHANGED files
      BY DEF LockHot
    <2>4. /\ KeptIs' /\ Undoable' /\ Contents' /\ SameContent
          /\ \A q \in Others(p) : PagerInv(q)'
      BY <2>1, <2>2, <2>3, FilesSame
    <2>5. SettledFile(p)' /\ Recording(p)' /\ CacheRead(p)' /\ Transaction(p)' /\ CacheFresh(p)'
      BY <2>1 DEF SettledFile, Settled, Recording, CacheRead, Transaction, CacheFresh, Reading,
                  Writing
    <2>6. Journalled(p)'
      BY <1>1, <1>4, <2>1, <2>3 DEF PagerInv, Journalled, HasFirst, files
    <2>7. CacheShape(p)'
      BY <2>1, NotCachedIs DEF CacheShape, Reading, Writing, NothingCached
    <2>8. PagerInv(p)'
      BY <2>5, <2>6, <2>7 DEF PagerInv
    <2> QED BY <2>4, <2>8, AllPagers
  <1> QED BY <1>2, <1>3, <1>4 DEF LockHot

LEMMA DeleteRemnantStep ==
    ASSUME Inv, NEW p \in Pagers, DeleteRemnant(p)
    PROVE  FilesInv' /\ SameContent
  <1>1. eState[p] = "unreserved" /\ eLock[p] = "SHARED" /\ TypeOK
    BY DEF DeleteRemnant, Inv, LocksExclude, LockOf
  <1>2. db = NoPages
    BY <1>1, EmptyIs DEF DeleteRemnant, TypeOK
  <1>3. CASE ~CanReserve(p) /\ UNCHANGED <<journal, disk>>
    <2>1. PICK q \in Others(p) : eLock[q] \notin {"NO", "SHARED"}
      BY <1>3 DEF CanReserve
    <2>2. q \in Pagers /\ eState[q] \in Settled
      BY <1>1, <2>1, NotExclusive, Distinct
    <2>3. OnDisk = db
      BY <2>2 DEF Inv, PagerInv, SettledFile
    <2>4. UNCHANGED <<files, dirty, version>> /\ Admit(p, db)
      BY <1>3 DEF DeleteRemnant, files
    <2> QED BY <1>1, <1>2, <2>3, <2>4, NotExclusive, AdmittedSame
  <1>4. CanReserve(p) /\ journal' = NoJournal => OnDisk' = db
    BY DEF DeleteRemnant, OnDisk
  <1>5. CASE CanReserve(p) /\ journal' = NoJournal
    <2>1. Content = db /\ SameContent
      <3>1. Content = db /\ ~NoJournal.hot
        BY <1>1, <1>2, NotRecovered, ArrayTypes DEF Content, TypeOK
      <3>2. Content' = db'
        BY <1>1, <1>5, <3>1, NotRecovered DEF Content, DeleteRemnant, TypeOK
      <3> QED BY <3>1, <3>2 DEF SameContent, Previous, DeleteRemnant
    <2>2. ~journal'.hot
      BY <1>5, ArrayTypes
    <2>3. /\ PagerInv(p)'
          /\ \A q \in Others(p) : Keeps(q)
      <3>1. db' = db /\ dirty' = dirty /\ version' = version /\ Admit(p, db)
        BY <1>5 DEF DeleteRemnant
      <3> QED BY <1>1, <1>2, <1>4, <1>5, <2>1, <2>2, <3>1, Admitted DEF Keeps
    <2>4. KeptIs' /\ Undoable' /\ Contents'
      <3>1. db' = db /\ OnDisk' = db /\ kept' = kept
        BY <1>5, <1>4 DEF DeleteRemnant
      <3>2. KeptIs'
        BY <2>2, <3>1 DEF Inv, KeptIs
      <3>3. Undoable'
        BY <1>2, <3>1 DEF Undoable
      <3>4. Contents'
        BY <2>1 DEF Inv, Contents, SameContent
      <3> QED BY <3>2, <3>3, <3>4
    <2>5. ASSUME NEW q \in Others(p)
          PROVE  PagerInv(q)'
      <3>1. q \in Pagers /\ PagerInv(q) /\ Keeps(q) /\ eLock[q] \in {"NO", "SHARED"} /\ LockOf(q)
        BY <1>5, <2>3, Distinct DEF Inv, CanReserve, LocksExclude
      <3>2. eState[q] \notin Writing \cup {"playback"} /\ db[1] = None
        BY <1>2, <3>1, FirstPage DEF LockOf, Writing, Reserving, NoPages
      <3>3. db' = db /\ OnDisk' = db
        BY <1>5, <1>4 DEF DeleteRemnant
      <3>4. SettledFile(q)' /\ Journalled(q)' /\ Recording(q)' /\ Transaction(q)'
        BY <2>2, <3>1, <3>2, <3>3 DEF PagerInv, SettledFile, Settled, Journalled, Recording,
              Transaction, Keeps, Writing
      <3>5. CacheShape(q)' /\ CacheRead(q)'
        BY <3>1, <3>3 DEF PagerInv, CacheShape, CacheRead, Keeps
      <3>6. CacheFresh(q)'
        BY <2>1, <3>1 DEF PagerInv, CacheFresh, Fresh, SameContent, Keeps
      <3> QED BY <3>4, <3>5, <3>6 DEF PagerInv
    <2> QED BY <2>1, <2>3, <2>4, <2>5, AllPagers
  <1> QED BY <1>3, <1>5 DEF DeleteRemnant

LEMMA EmptySize == \A X : NoHoles(X) /\ X[1] = None => SizeOf(X) = 0
  <1> TAKE X
  <1>1. SizeOf(X) \in Nat /\ (SizeOf(X) > 0 => SizeOf(X) \in Pages /\ X[SizeOf(X)] # None)
    BY SizeIs, FirstPage
  <1> QED BY <1>1, FirstPage DEF NoHoles, Pages

(* What a connection that reads or writes has of the file. *)
LEMMA ImageOf ==
    ASSUME Inv, NEW p \in Pagers, eState[p] \in Reading \cup Writing
    PROVE  /\ NoHoles(Image(p))
           /\ dirty[p] = {} => Image(p) = db
           /\ \A g \in Pages : g \notin dirty[p] => Image(p)[g] = db[g]
           /\ eState[p] \in Settled => NoHoles(db)
  <1>1. PagerInv(p) /\ TypeOK /\ Contents
    BY DEF Inv
  <1>2. ASSUME NEW g \in Pages, g \notin dirty[p]
        PROVE  Image(p)[g] = db[g]
    BY <1>1, <1>2, ImageType DEF PagerInv, CacheRead
  <1>3. dirty[p] = {} => Image(p) = db
    <2>1. Image(p) \in [Pages -> Value] /\ db \in [Pages -> Value]
      BY <1>1, ImageType DEF TypeOK
    <2> QED BY <1>2, <2>1
  <1>4. eState[p] \in Settled => NoHoles(db)
    BY <1>1, SettledContent DEF Contents
  <1>5. eState[p] = "READER" => dirty[p] = {} /\ eState[p] \in Settled
    BY DEF Inv, DirtyCached, HasDirty, Settled
  <1>6. NoHoles(Image(p))
    BY <1>1, <1>3, <1>4, <1>5 DEF PagerInv, Transaction, Reading
  <1> QED BY <1>2, <1>3, <1>4, <1>6

LEMMA GetStep ==
    ASSUME Inv, NEW p \in Pagers, NEW g \in Pages, Get(p, g)
    PROVE  FilesInv' /\ SameContent /\ Image(p)' = Image(p)
  <1>1. PagerInv(p) /\ TypeOK /\ DirtyCached /\ LockOf(p) /\ Contents
        /\ eState[p] \in Reading \cup Writing
    BY DEF Inv, LocksExclude, Get
  <1>2. /\ UNCHANGED <<files, dirty, version>> /\ eState' = eState /\ eLock' = eLock
        /\ cache'[p][g] = db[g] /\ cache[p][g] = NotCached
        /\ \A h \in Pages : h # g => cache'[p][h] = cache[p][h]
        /\ \A q \in Others(p) : Keeps(q)
    BY DEF Get, Inv, TypeOK, Others, Keeps
  <1>3. NoHoles(Image(p)) /\ g \notin dirty[p] /\ db[g] \in Value /\ db[g] # NotCached
    BY <1>1, <1>2, ImageOf, NotCachedIs DEF TypeOK, DirtyCached
  <1>4. Image(p)[g] # None /\ db[g] # None
    <2>1. Image(p)[g] # None
      BY <1>3, NoHolesSize DEF Get
    <2> QED BY <2>1, <1>1, <1>3, ImageOf
  <1>5. cache[p][1] # NotCached
    <2>1. SUFFICES ASSUME cache[p][1] = NotCached
                   PROVE  FALSE
      OBVIOUS
    <2>2. db[1] = None /\ 1 \notin dirty[p]
      BY <1>1, <2>1, FirstPage DEF PagerInv, CacheShape, DirtyCached
    <2>3. Image(p)[1] = None
      BY <1>1, <2>2, ImageOf, FirstPage
    <2>4. SizeOf(Image(p)) = 0
      BY <1>3, <2>3, EmptySize
    <2> QED BY <2>4 DEF Get, Pages
  <1>6. ASSUME NEW q \in Others(p), eState[q] \in Writing, NEW h \in Pages
        PROVE  cache'[p][h] # version[q]
    <2>1. q \in Pagers /\ p \in Others(q) /\ PagerInv(q) /\ LockOf(q) /\ Excludes(q, p)
      BY Distinct DEF Inv, LocksExclude
    <2>2. eState[p] \in Settled
      BY <1>1, <1>6, <2>1
         DEF LockOf, Excludes, Reserving, Reading, Writing, Settled
    <2>3. db[g] # version[q]
      BY <1>6, <2>1, <2>2, SettledContent DEF PagerInv, Transaction
    <2> QED BY <1>2, <1>6, <2>1, <2>3 DEF PagerInv, Transaction
  <1>7. UNCHANGED files
    BY <1>2
  <1>8. /\ KeptIs' /\ Undoable' /\ Contents' /\ SameContent
        /\ \A q \in Others(p) : PagerInv(q)'
    BY <1>2, <1>6, <1>7, FilesSame
  <1>9. Image(p)' = Image(p)
    <2>1. db' = db
      BY <1>2 DEF files
    <2>2. \A h \in Pages : (IF cache'[p][h] = NotCached THEN db'[h] ELSE cache'[p][h])
                           = IF cache[p][h] = NotCached THEN db[h] ELSE cache[p][h]
      BY <1>2, <1>3, <2>1
    <2> QED BY <2>2 DEF Image
  <1>10. SettledFile(p)' /\ Journalled(p)' /\ Recording(p)'
    BY <1>1, <1>2, OnDiskIs DEF PagerInv, SettledFile, Journalled, HasFirst, Recording, files
  <1>11. CacheShape(p)' /\ CacheRead(p)'
    <2>1. cache'[p][1] = cache[p][1] /\ db' = db
      BY <1>2, <1>5, FirstPage DEF files
    <2>2. CacheShape(p)'
      BY <1>1, <1>2, <1>4, <1>5, <2>1 DEF PagerInv, CacheShape
    <2>3. CacheRead(p)'
      BY <1>1, <1>2, <2>1 DEF PagerInv, CacheRead
    <2> QED BY <2>2, <2>3
  <1>12. CacheFresh(p)'
    <2>1. SUFFICES ASSUME eState[p] \notin Writing \cup {"playback", "ERROR"}
                   PROVE  CacheFresh(p)'
      BY <1>2 DEF CacheFresh
    <2>2. Content = db
      BY <1>1, <2>1, SettledContent DEF Reading, Settled
    <2>3. g # 1
      BY <1>2, <1>5
    <2>4. /\ cache'[p][1] = cache[p][1] /\ Content' = db /\ Previous' = Previous
          /\ Fresh(p, db) /\ Fresh(p, Previous) /\ (Previous[1] = db[1] => Previous = db)
      BY <1>1, <1>2, <1>8, <2>1, <2>2, <2>3, FirstPage
         DEF PagerInv, CacheFresh, SameContent, Contents
    <2>5. cache[p][1] = db[1]
      <3>1. dirty[p] = {}
        BY <1>1, <2>1 DEF DirtyCached, HasDirty, Reading, Writing
      <3> QED BY <1>1, <1>5, <3>1, FirstPage DEF PagerInv, CacheRead
    <2>6. Fresh(p, Content)'
      BY <1>2, <2>4 DEF Fresh
    <2>7. Fresh(p, Previous)'
      BY <1>2, <2>4, <2>5 DEF Fresh
    <2> QED BY <2>6, <2>7 DEF CacheFresh
  <1>13. Transaction(p)'
    <2>1. \A h \in dirty[p] : cache'[p][h] = cache[p][h]
      BY <1>1, <1>2, <1>3 DEF TypeOK
    <2>2. cache'[p][1] = cache[p][1]
      BY <1>2, <1>5, FirstPage
    <2>3. \A q \in Others(p) : cache'[q] = cache[q]
      BY <1>2 DEF Keeps
    <2> QED BY <1>1, <1>2, <1>8, <1>9, <2>1, <2>2, <2>3, OnDiskIs
            DEF PagerInv, Transaction, SameContent, files
  <1>14. PagerInv(p)'
    BY <1>10, <1>11, <1>12, <1>13 DEF PagerInv
  <1> QED BY <1>8, <1>9, <1>14, AllPagers

LEMMA BeginStep ==
    ASSUME Inv, NEW p \in Pagers, Begin(p)
    PROVE  FilesInv' /\ SameContent
  <1>1. PagerInv(p) /\ TypeOK /\ dirty[p] = {} /\ eState[p] \in Settled
        /\ eState[p] \in Reading \cup Writing /\ Contents
    BY DEF Inv, Begin, DirtyCached, HasDirty, Settled, Reading
  <1>2. PICK v \in Versions \ InUse : version' = [version EXCEPT ![p] = v]
    BY DEF Begin
  <1>3. /\ UNCHANGED <<files, cache, dirty>>
        /\ eState'[p] = "WRITER_LOCKED" /\ version'[p] = v
        /\ \A q \in Others(p) : Keeps(q)
    BY <1>1, <1>2 DEF Begin, TypeOK, Others, Keeps
  <1>4. ASSUME NEW q \in Others(p), eState[q] \in Writing
        PROVE  FALSE
    <2>1. q \in Pagers /\ LockOf(q) /\ eLock[q] \in {"NO", "SHARED"}
      BY Distinct DEF Inv, LocksExclude, Begin, CanReserve
    <2> QED BY <1>4, <2>1 DEF LockOf, Writing, Reserving
  <1>5. UNCHANGED files
    BY <1>3
  <1>6. /\ KeptIs' /\ Undoable' /\ Contents' /\ SameContent
        /\ \A q \in Others(p) : PagerInv(q)'
    BY <1>3, <1>4, <1>5, FilesSame
  <1>7. /\ \A g \in Pages : db[g] # v /\ journal.counted[g] # v /\ kept.counted[g] # v
        /\ \A q \in Pagers, g \in Pages : cache[q][g] # v
    BY DEF InUse
  <1>8. v # None
    BY NoneAssumption
  <1>9. \A g \in Pages : Content[g] # v /\ Previous[g] # v
    <2>1. ASSUME NEW g \in Pages
          PROVE  /\ Content[g] \in {None, journal.counted[g], db[g]}
                 /\ Previous[g] \in {None, kept.counted[g], db[g]}
      BY <1>1, RecoveredPage DEF Content, Previous, TypeOK
    <2> QED BY <1>7, <1>8, <2>1
  <1>10. Image(p)' = Image(p) /\ NoHoles(Image(p))
    BY <1>1, <1>3, ImageOf DEF Image, files
  <1>11. Transaction(p)'
    <2>1. \A q \in Others(p), g \in Pages : cache'[q][g] # v
      BY <1>3, <1>7 DEF Others
    <2> QED BY <1>1, <1>3, <1>6, <1>9, <1>10, <2>1 DEF Transaction, SameContent
  <1>12. SettledFile(p)' /\ Journalled(p)' /\ Recording(p)' /\ CacheFresh(p)'
    BY <1>1, <1>3, OnDiskIs DEF PagerInv, SettledFile, Settled, Journalled, Recording, CacheFresh, Writing,
                      files
  <1>13. CacheShape(p)' /\ CacheRead(p)'
    BY <1>1, <1>3 DEF PagerInv, CacheShape, CacheRead, files
  <1>14. PagerInv(p)'
    BY <1>11, <1>12, <1>13 DEF PagerInv
  <1> QED BY <1>6, <1>14, AllPagers

(* Only the state or the lock changes, within a transaction or out of it.  *)
LEMMA StateStep ==
    ASSUME Inv, NEW p \in Pagers,
           ExclusiveLock(p) \/ CommitFails(p) \/ RollbackFile(p) \/ PlaybackFails(p)
    PROVE  FilesInv' /\ SameContent
  <1>1. PagerInv(p) /\ TypeOK /\ LockOf(p) /\ KeptIs
    BY DEF Inv, LocksExclude
  <1>2. /\ UNCHANGED <<files, cache, dirty, version>>
        /\ \A q \in Others(p) : Keeps(q)
    BY <1>1 DEF ExclusiveLock, CommitFails, RollbackFile, PlaybackFails, TypeOK, Others, Keeps
  <1>3. ASSUME NEW q \in Others(p), eState[q] \in Writing, NEW g \in Pages
        PROVE  cache'[p][g] # version[q]
    BY <1>2, <1>3, Distinct DEF Inv, PagerInv, Transaction
  <1>4. UNCHANGED files
    BY <1>2
  <1>5. /\ KeptIs' /\ Undoable' /\ Contents' /\ SameContent
        /\ \A q \in Others(p) : PagerInv(q)'
    BY <1>2, <1>3, <1>4, FilesSame
  <1>6. Image(p)' = Image(p) /\ HasFirst' = HasFirst
    BY <1>2 DEF Image, files, HasFirst
  <1>7. CASE ExclusiveLock(p)
    <2>1. eState' = eState /\ eState[p] = "WRITER_CACHEMOD"
      BY <1>7 DEF ExclusiveLock
    <2>2. SettledFile(p)' /\ Journalled(p)' /\ Recording(p)' /\ CacheShape(p)' /\ CacheRead(p)'
          /\ CacheFresh(p)'
      BY <1>1, <1>2, <2>1, OnDiskIs DEF PagerInv, SettledFile, Journalled, Recording, CacheShape,
            CacheRead, CacheFresh, Writing, files
    <2>3. Transaction(p)'
      BY <1>1, <1>2, <1>5, <1>6, <2>1 DEF PagerInv, Transaction, SameContent
    <2> QED BY <1>5, <2>2, <2>3, AllPagers DEF PagerInv
  <1>8. CASE CommitFails(p) \/ RollbackFile(p) \/ PlaybackFails(p)
    <2>1. eState'[p] \in {"playback", "ERROR"}
      BY <1>1, <1>8 DEF CommitFails, RollbackFile, PlaybackFails, TypeOK
    <2>2. SettledFile(p)' /\ Recording(p)' /\ CacheRead(p)' /\ Transaction(p)' /\ CacheFresh(p)'
      BY <2>1 DEF SettledFile, Settled, Recording, CacheRead, Transaction, CacheFresh, Reading,
                  Writing
    <2>3. CacheShape(p)'
      BY <1>1, <1>2, <2>1 DEF PagerInv, CacheShape, Reading, Writing
    <2>4. Journalled(p)'
      <3>1. CASE CommitFails(p)
        <4>1. journal.hot /\ db[1] # None /\ journal' = journal /\ db' = db /\ eState'[p] = "ERROR"
          <5>1. version[p] \in Versions /\ cache[p][1] = version[p] /\ journal.hot
            BY <1>1, <3>1 DEF CommitFails, PagerInv, Journalled, Transaction, Writing
          <5>2. version[p] \notin {None, NotCached} /\ dirty[p] = {}
            BY <5>1, <3>1, NoneAssumption DEF Inv, DirtyCached, HasDirty, CommitFails
          <5>3. db[1] = version[p]
            BY <1>1, <3>1, <5>1, <5>2, FirstPage DEF CommitFails, PagerInv, CacheRead, Writing
          <5> QED BY <1>1, <3>1, <5>1, <5>2, <5>3 DEF CommitFails, files, TypeOK
        <4> QED BY <4>1 DEF Journalled
      <3>2. CASE RollbackFile(p)
        <4>1. journal.hot /\ HasFirst /\ journal' = journal /\ eState'[p] = "playback"
              /\ journal.exists
          BY <1>1, <3>2 DEF RollbackFile, PagerInv, Journalled, KeptIs, files, TypeOK
        <4> QED BY <1>6, <4>1 DEF Journalled
      <3>3. CASE PlaybackFails(p)
        <4>1. eState'[p] = "ERROR" /\ eLock'[p] = "EXCLUSIVE"
          BY <1>1, <3>3 DEF PlaybackFails, LockOf, TypeOK
        <4> QED BY <4>1 DEF Journalled
      <3> QED BY <1>8, <3>1, <3>2, <3>3
    <2> QED BY <1>5, <2>2, <2>3, <2>4, AllPagers DEF PagerInv
  <1> QED BY <1>7, <1>8

LEMMA HotSize ==
    ASSUME Inv
    PROVE  /\ journal.size \in Nat /\ kept.size \in Nat
           /\ journal \in Journal /\ kept \in Journal
           /\ db \in [Pages -> Value] /\ OnDisk \in [Pages -> Value]
           /\ 1 \in Pages /\ \A g \in Pages : g \in Nat /\ 1 <= g
  BY FirstPage, OnDiskIs DEF Inv, TypeOK, Journal, Pages

(* Where a hot journal is that of the connection that holds the EXCLUSIVE  *)
(* lock, the file changes only in pages that this has.                     *)
LEMMA HotChange ==
    ASSUME Inv, NEW p \in Pagers, eLock[p] = "EXCLUSIVE", journal.hot, HasFirst,
           UNCHANGED <<disk, journal, kept>>, db' \in [Pages -> Value],
           \A q \in Others(p) : Keeps(q),
           \A g \in Pages : g <= journal.size /\ db'[g] # db[g] => journal.counted[g] # None,
           journal.size > 0 => db'[1] # None
    PROVE  /\ KeptIs' /\ Undoable' /\ Contents' /\ SameContent /\ HasFirst'
           /\ \A q \in Others(p) : PagerInv(q)'
  <1>1. journal.exists /\ kept.exists /\ kept.hot /\ kept.size = journal.size
        /\ kept.counted = journal.counted /\ journal.size \in Nat
    BY HotSize DEF Inv, KeptIs
  <1>2. Recovered(journal, db) = Recovered(journal, db')
    <2>1. journal.size = 0 \/ (db[1] # None /\ db'[1] # None)
      BY <1>1 DEF HasFirst
    <2> QED BY <1>1, <2>1, HotSize, SameRecovery
  <1>3. Recovered(kept, db) = Recovered(kept, db')
    <2>1. kept.size = 0 \/ (db[1] # None /\ db'[1] # None)
      BY <1>1 DEF HasFirst
    <2> QED BY <1>1, <2>1, HotSize, SameRecovery
  <1>4. SameContent
    BY <1>2, <1>3 DEF SameContent, Content, Previous
  <1>5. KeptIs'
    BY <1>1 DEF KeptIs
  <1>6. Undoable'
    <2>1. Undoable
      BY DEF Inv
    <2>2. kept.size > 0 => db[1] # None /\ db # NoPages /\ db'[1] # None
      BY <1>1, FirstPage DEF HasFirst, NoPages
    <2> QED BY <1>1, <2>1, <2>2, OnDiskIs DEF Undoable
  <1>7. Contents'
    BY <1>4 DEF SameContent, Contents, Inv
  <1>8. HasFirst'
    BY <1>1 DEF HasFirst
  <1>9. ASSUME NEW q \in Others(p)
        PROVE  PagerInv(q)'
    BY <1>4, AloneExclusive, Distinct, IdleKeeps DEF SameContent, Inv
  <1> QED BY <1>4, <1>5, <1>6, <1>7, <1>8, <1>9

(* While a journal is played back nothing else is kept of a connection.    *)
LEMMA InPlayback ==
    ASSUME Inv, NEW p \in Pagers, eState[p] = "playback", eState'[p] = "playback",
           cache'[p] = cache[p], journal'.exists, journal'.hot => HasFirst'
    PROVE  PagerInv(p)'
  <1>1. CacheShape(p)'
    BY DEF Inv, PagerInv, CacheShape, Reading, Writing
  <1>2. SettledFile(p)' /\ Recording(p)' /\ CacheRead(p)' /\ Transaction(p)' /\ CacheFresh(p)'
        /\ Journalled(p)'
    BY DEF SettledFile, Settled, Recording, CacheRead, Transaction, CacheFresh, Reading,
           Writing, Journalled
  <1> QED BY <1>1, <1>2 DEF PagerInv

LEMMA TruncateStep ==
    ASSUME Inv, NEW p \in Pagers, Truncate(p)
    PROVE  FilesInv' /\ SameContent
  <1>1. eState[p] = "playback" /\ journal.hot /\ eLock[p] = "EXCLUSIVE" /\ HasFirst
        /\ journal.exists
    BY DEF Truncate, Inv, LocksExclude, LockOf, PagerInv, Journalled
  <1>2. /\ db' \in [Pages -> Value]
        /\ \A g \in Pages : db'[g] = IF g > journal.size THEN None ELSE db[g]
    BY ContentTypes, HotSize DEF Truncate
  <1>3. /\ UNCHANGED <<disk, journal, kept>> /\ \A q \in Others(p) : Keeps(q)
        /\ eState' = eState /\ cache' = cache
    BY DEF Truncate, Keeps
  <1>4. /\ \A g \in Pages : g <= journal.size /\ db'[g] # db[g] => journal.counted[g] # None
        /\ journal.size > 0 => db'[1] # None
    <2>1. \A g \in Pages : g <= journal.size => ~(g > journal.size)
      BY HotSize
    <2>2. journal.size > 0 => ~(1 > journal.size) /\ journal.size # 0
      BY HotSize
    <2> QED BY <1>1, <1>2, <2>1, <2>2, HotSize DEF HasFirst
  <1>5. /\ KeptIs' /\ Undoable' /\ Contents' /\ SameContent /\ HasFirst'
        /\ \A q \in Others(p) : PagerInv(q)'
    BY <1>1, <1>2, <1>3, <1>4, HotChange
  <1>6. PagerInv(p)'
    BY <1>1, <1>3, <1>5, InPlayback
  <1> QED BY <1>5, <1>6, AllPagers

LEMMA RestoreStep ==
    ASSUME Inv, NEW p \in Pagers, NEW g \in Pages, Restore(p, g)
    PROVE  FilesInv' /\ SameContent
  <1>1. eState[p] = "playback" /\ journal.hot /\ eLock[p] = "EXCLUSIVE" /\ HasFirst
        /\ journal.exists
    BY DEF Restore, Inv, LocksExclude, LockOf, PagerInv, Journalled
  <1>2. /\ UNCHANGED <<disk, journal, kept>> /\ \A q \in Others(p) : Keeps(q)
        /\ eState' = eState /\ cache' = cache
    BY DEF Restore, Keeps
  <1>3. journal.counted[g] \in Value \ {None}
        /\ PlayedBack(journal, db)[g] = journal.counted[g]
    <2>1. g > journal.size => db[g] = None
      BY ContentTypes, HotSize DEF Restore
    <2>2. journal.counted[g] \in Value
      BY HotSize DEF Journal
    <2> QED BY <2>1, <2>2, ContentTypes, HotSize DEF Restore
  <1>4. /\ db' \in [Pages -> Value] /\ db'[g] = journal.counted[g]
        /\ \A h \in Pages : h # g => db'[h] = db[h]
    BY <1>3, HotSize DEF Restore
  <1>5. /\ \A h \in Pages : h <= journal.size /\ db'[h] # db[h] => journal.counted[h] # None
        /\ journal.size > 0 => db'[1] # None
    <2>1. journal.size > 0 => journal.size # 0
      BY HotSize
    <2> QED BY <1>1, <1>3, <1>4, <2>1, HotSize DEF HasFirst
  <1>6. /\ KeptIs' /\ Undoable' /\ Contents' /\ SameContent /\ HasFirst'
        /\ \A q \in Others(p) : PagerInv(q)'
    BY <1>1, <1>2, <1>4, <1>5, HotChange
  <1>7. PagerInv(p)'
    BY <1>1, <1>2, <1>6, InPlayback
  <1> QED BY <1>6, <1>7, AllPagers

LEMMA WritePageStep ==
    ASSUME Inv, NEW p \in Pagers, NEW g \in Pages, WritePage(p, g)
    PROVE  FilesInv' /\ SameContent /\ Image(p)' = Image(p)
  <1>1. /\ eState[p] = "WRITER_DBMOD" /\ journal.hot /\ eLock[p] = "EXCLUSIVE" /\ HasFirst
        /\ PagerInv(p) /\ TypeOK /\ g \in dirty[p] /\ ~NeedSync(g)
    BY DEF WritePage, Inv, LocksExclude, LockOf, PagerInv, Journalled
  <1>2. /\ UNCHANGED <<disk, journal, kept, eState, eLock, cache, version>>
        /\ \A q \in Others(p) : Keeps(q)
        /\ dirty'[p] = dirty[p] \ {g}
    BY <1>1 DEF WritePage, Keeps, TypeOK, Others
  <1>3. cache[p][g] = version[p] /\ version[p] \in Versions /\ version[p] \notin {None, NotCached}
    BY <1>1, NoneAssumption DEF PagerInv, Transaction, Writing
  <1>4. /\ db' \in [Pages -> Value] /\ db'[g] = version[p]
        /\ \A h \in Pages : h # g => db'[h] = db[h]
    BY <1>1, <1>3 DEF WritePage, TypeOK, Value
  <1>5. /\ \A h \in Pages : h <= journal.size /\ db'[h] # db[h] => journal.counted[h] # None
        /\ journal.size > 0 => db'[1] # None
    <2>1. journal.size > 0 => journal.size # 0
      BY HotSize
    <2>2. g <= journal.size => journal.counted[g] # None
      BY <1>1 DEF NeedSync, PagerInv, Recording
    <2> QED BY <1>1, <1>3, <1>4, <2>1, <2>2, HotSize DEF HasFirst
  <1>6. /\ KeptIs' /\ Undoable' /\ Contents' /\ SameContent /\ HasFirst'
        /\ \A q \in Others(p) : PagerInv(q)'
    BY <1>1, <1>2, <1>4, <1>5, HotChange
  <1>7. Image(p)' = Image(p)
    <2>1. \A h \in Pages : (IF cache'[p][h] = NotCached THEN db'[h] ELSE cache'[p][h])
                           = IF cache[p][h] = NotCached THEN db[h] ELSE cache[p][h]
      BY <1>2, <1>3, <1>4
    <2> QED BY <2>1 DEF Image
  <1>8. Transaction(p)' /\ CacheFresh(p)' /\ SettledFile(p)'
    <2>1. Transaction(p)'
      BY <1>1, <1>2, <1>6, <1>7 DEF PagerInv, Transaction, SameContent
    <2> QED BY <1>1, <1>2, <2>1 DEF CacheFresh, SettledFile, Settled, Writing
  <1>9. Journalled(p)'
    BY <1>1, <1>2, <1>6 DEF Journalled
  <1>10. Recording(p)'
    BY <1>1, <1>2, <1>3, <1>4 DEF PagerInv, Recording, NeedSync
  <1>11. CacheShape(p)' /\ CacheRead(p)'
    <2>1. cache[p][1] # NotCached
      BY <1>1, <1>3 DEF PagerInv, CacheShape, NothingCached
    <2>2. CacheShape(p)'
      BY <1>1, <1>2, <2>1 DEF PagerInv, CacheShape
    <2>3. CacheRead(p)'
      BY <1>1, <1>2, <1>3, <1>4 DEF PagerInv, CacheRead
    <2> QED BY <2>2, <2>3
  <1>12. PagerInv(p)'
    BY <1>8, <1>9, <1>10, <1>11 DEF PagerInv
  <1> QED BY <1>6, <1>7, <1>12, AllPagers

(* Another connection changes the journal, but not under one that relies   *)
(* on it, and not the file.                                                *)
LEMMA JournalOnly ==
    ASSUME Inv, NEW p \in Pagers, NEW q \in Others(p), \A r \in Others(p) : Keeps(r),
           SameContent, db' = db, OnDisk' \in {OnDisk, db},
           journal'.hot => journal.hot /\ journal'.size = journal.size,
           eState[q] \in {"WRITER_FINISHED", "ERROR", "playback"} =>
               journal'.hot = journal.hot /\ journal'.exists = journal.exists,
           eState[q] \notin {"WRITER_CACHEMOD", "WRITER_DBMOD"},
           eState[q] \in Writing => \A g \in Pages : cache'[p][g] # version[q]
    PROVE  PagerInv(q)'
  <1>1. q \in Pagers /\ PagerInv(q) /\ Keeps(q)
    BY Distinct DEF Inv
  <1>2. SettledFile(q)'
    BY <1>1 DEF PagerInv, SettledFile, Settled, Keeps
  <1>3. Journalled(q)'
    BY <1>1 DEF PagerInv, Journalled, HasFirst, Keeps
  <1>4. Recording(q)'
    BY <1>1 DEF Recording, Keeps
  <1>5. CacheShape(q)' /\ CacheRead(q)'
    BY <1>1 DEF PagerInv, CacheShape, CacheRead, Keeps
  <1>6. CacheFresh(q)'
    BY <1>1 DEF PagerInv, CacheFresh, Fresh, SameContent, Keeps
  <1>7. Transaction(q)'
    <2>1. Image(q)' = Image(q)
      BY <1>1 DEF Image, Keeps
    <2>2. \A r \in Others(q) : r = p \/ r \in Others(p)
      BY DEF Others
    <2>3. \A r \in Others(q) : r # p => cache'[r] = cache[r]
      BY <2>2 DEF Keeps
    <2> QED BY <1>1, <2>1, <2>3 DEF PagerInv, Transaction, SameContent, Keeps
  <1> QED BY <1>2, <1>3, <1>4, <1>5, <1>6, <1>7 DEF PagerInv

(* While a connection prepares to write nobody is in an error that left    *)
(* its journal.                                                            *)
LEMMA NoErrors ==
    ASSUME Inv, NEW p \in Pagers, eLock[p] \in Reserving, NEW q \in Others(p),
           eState[p] \in Settled \/ eLock[p] = "EXCLUSIVE"
    PROVE  eState[q] \notin Writing \cup {"playback", "ERROR"}
  <1>1. CASE eLock[p] = "EXCLUSIVE"
    BY <1>1, AloneExclusive DEF Writing
  <1>2. CASE eState[p] \in Settled
    <2>1. eState[q] = "ERROR" => journal.hot /\ db[1] # None
      BY AloneReserved, Distinct DEF Inv, PagerInv, Journalled
    <2>2. journal.hot => db = NoPages
      BY <1>2 DEF Inv, PagerInv, SettledFile
    <2> QED BY <2>1, <2>2, AloneReserved, FirstPage DEF NoPages
  <1> QED BY <1>1, <1>2

LEMMA WriteStep ==
    ASSUME Inv, NEW p \in Pagers, NEW g \in Pages, Write(p, g)
    PROVE  FilesInv' /\ SameContent
  <1> DEFINE J == Opened(p)
             v == version[p]
  <1>1. /\ PagerInv(p) /\ TypeOK /\ LockOf(p) /\ KeptIs /\ DirtyCached
        /\ eState[p] \in {"WRITER_LOCKED", "WRITER_CACHEMOD", "WRITER_DBMOD"}
    BY DEF Inv, LocksExclude, Write
  <1>2. /\ UNCHANGED <<db, kept, eLock, version>> /\ OnDisk' = OnDisk
        /\ \A q \in Others(p) : Keeps(q)
        /\ eState'[p] = IF eState[p] = "WRITER_LOCKED" THEN "WRITER_CACHEMOD" ELSE eState[p]
        /\ cache'[p][g] = v /\ \A h \in Pages : h # g => cache'[p][h] = cache[p][h]
        /\ dirty'[p] = dirty[p] \cup {g}
    BY <1>1, OnDiskIs DEF Write, TypeOK, Others, Keeps
  <1>3. eState[p] \in Writing /\ eState[p] \in Reading \cup Writing /\ eLock[p] \in Reserving
        /\ (eState[p] # "WRITER_DBMOD" => eState[p] \in Settled)
        /\ (eState[p] = "WRITER_DBMOD" => eLock[p] = "EXCLUSIVE")
    BY <1>1 DEF Writing, LockOf, Reserving, Settled
  <1>4. v \in Versions /\ v \notin {None, NotCached} /\ NoHoles(Image(p))
    BY <1>1, <1>3, NoneAssumption DEF PagerInv, Transaction
  <1>5. /\ J \in Journal /\ J.size \in Nat
        /\ eState[p] = "WRITER_LOCKED" =>
              /\ J.exists /\ ~J.hot /\ J.size = SizeOf(db)
              /\ J.counted = NoPages /\ J.tail = NoPages
        /\ eState[p] # "WRITER_LOCKED" => J = journal
    <2>1. SizeOf(db) \in Nat
      BY SizeIs, FirstPage
    <2> QED BY <1>1, <2>1, OpenedType, HotSize
  <1>6. J.exists /\ (eState[p] = "WRITER_DBMOD" => J.hot) /\ (J.hot => eState[p] = "WRITER_DBMOD")
    BY <1>1, <1>5 DEF PagerInv, Journalled, KeptIs
  (* What the journal has before the page is recorded. *)
  <1>7. \A h \in Pages :
           /\ J.tail[h] # None => h <= J.size /\ J.tail[h] = db[h] /\ J.counted[h] = None
           /\ h <= J.size => /\ db[h] # None
                             /\ h \in dirty[p] => J.tail[h] # None \/ J.counted[h] # None
    <2>1. CASE eState[p] = "WRITER_LOCKED"
      <3>1. dirty[p] = {} /\ NoHoles(db)
        BY <1>1, <1>3, <2>1, ImageOf DEF DirtyCached, HasDirty, Settled
      <3> QED BY <1>5, <2>1, <3>1, NoHolesSize DEF NoPages
    <2>2. CASE eState[p] # "WRITER_LOCKED"
      BY <1>1, <1>5, <2>2 DEF PagerInv, Recording
    <2> QED BY <2>1, <2>2
  <1> HIDE DEF J
  <1>8. /\ Image(p)[g] \in Value
        /\ g \notin dirty[p] => Image(p)[g] = db[g]
    BY <1>1, <1>3, ImageType, ImageOf
  <1>9. /\ journal' \in Journal
        /\ journal'.exists = J.exists /\ journal'.hot = J.hot /\ journal'.size = J.size
        /\ journal'.counted = J.counted
        /\ \A h \in Pages : h # g => journal'.tail[h] = J.tail[h]
        /\ journal'.tail[g] = IF g > J.size \/ J.counted[g] # None \/ J.tail[g] # None
                              THEN J.tail[g] ELSE Image(p)[g]
    <2>1. journal' = Recorded(J, g, Image(p)[g])
      BY DEF Write, J
    <2> QED BY <1>5, <1>8, <2>1, RecordedType
  <1>10. SameContent
    <2>1. Previous' = Previous
      BY <1>2 DEF Previous
    <2>2. CASE eState[p] = "WRITER_DBMOD"
      <3>1. Recovered(journal', db) = Recovered(journal, db)
        BY <1>5, <1>9, <2>2, SameHeaders
      <3> QED BY <1>2, <2>1, <3>1 DEF SameContent, Content
    <2>3. CASE eState[p] # "WRITER_DBMOD"
      <3>1. ~journal'.hot /\ Content = db /\ db \in [Pages -> Value]
        BY <1>3, <1>6, <1>9, <2>3, SettledContent, HotSize
      <3>2. Recovered(journal', db) = db
        BY <3>1, NotRecovered
      <3> QED BY <1>2, <2>1, <3>1, <3>2 DEF SameContent, Content
    <2> QED BY <2>2, <2>3
  <1>11. KeptIs' /\ Undoable' /\ Contents'
    <2>1. KeptIs'
      <3>1. eState[p] # "WRITER_DBMOD" => OnDisk = db
        BY <1>3, SettledContent
      <3>2. eState[p] = "WRITER_DBMOD" => J = journal
        BY <1>5
      <3> QED BY <1>1, <1>2, <1>6, <1>9, <3>1, <3>2 DEF KeptIs
    <2>2. Undoable'
      BY <1>2 DEF Inv, Undoable
    <2>3. Contents'
      BY <1>10 DEF Inv, Contents, SameContent
    <2> QED BY <2>1, <2>2, <2>3
  <1>12. ASSUME NEW q \in Others(p)
         PROVE  PagerInv(q)'
    <2>1. eState[q] \notin Writing \cup {"playback", "ERROR"}
      BY <1>3, NoErrors
    <2>2. journal'.hot => journal.hot /\ journal'.size = journal.size
      BY <1>5, <1>6, <1>9
    <2> QED BY <1>2, <1>10, <2>1, <2>2, JournalOnly DEF Writing
  <1>13. Recording(p)'
    <2>1. ASSUME NEW h \in Pages
          PROVE  /\ journal'.tail[h] # None => /\ h <= journal'.size /\ journal'.tail[h] = db[h]
                                               /\ journal'.counted[h] = None
                 /\ h <= journal'.size =>
                       /\ db[h] # None
                       /\ h \in dirty'[p] => journal'.tail[h] # None \/ journal'.counted[h] # None
      <3>1. CASE h # g
        BY <1>2, <1>7, <1>9, <3>1
      <3>2. CASE h = g
        <4>1. h \in Nat
          BY HotSize
        <4> QED BY <1>2, <1>5, <1>7, <1>8, <1>9, <3>2, <4>1
      <3> QED BY <3>1, <3>2
    <2> QED BY <1>2, <2>1 DEF Recording
  <1>14. Journalled(p)'
    <2>1. eState[p] # "WRITER_DBMOD" => /\ eState'[p] = "WRITER_CACHEMOD"
                                        /\ J.counted = NoPages /\ J.size = SizeOf(db)
      BY <1>1, <1>2, <1>5 DEF PagerInv, Journalled
    <2>2. eState[p] = "WRITER_DBMOD" => /\ eState'[p] = "WRITER_DBMOD"
                                        /\ J.size = 0 \/ db[1] # None
      BY <1>1, <1>2, <1>5 DEF PagerInv, Journalled, HasFirst
    <2> QED BY <1>2, <1>6, <1>9, <2>1, <2>2 DEF Journalled, HasFirst
  <1>15. SettledFile(p)' /\ CacheFresh(p)'
    <2>1. eState'[p] \in Writing /\ (eState'[p] \in Settled => eState[p] \in Settled /\ ~journal'.hot)
      BY <1>2, <1>3, <1>6, <1>9 DEF Writing, Settled
    <2>2. eState[p] \in Settled => OnDisk = db
      BY SettledContent
    <2> QED BY <1>2, <2>1, <2>2 DEF SettledFile, CacheFresh
  <1>16. CacheShape(p)' /\ CacheRead(p)'
    <2>1. cache'[p][1] # NotCached
      <3>1. CASE g = 1
        BY <1>2, <1>4, <3>1
      <3>2. CASE g # 1
        <4>1. SUFFICES ASSUME cache[p][1] = NotCached
                       PROVE  FALSE
          BY <1>2, <3>2, FirstPage
        <4>2. db[1] = None /\ 1 \notin dirty[p]
          BY <1>1, <1>3, <4>1, FirstPage DEF PagerInv, CacheShape, DirtyCached
        <4>3. Image(p)[1] = None
          BY <1>3, <4>2, ImageOf, FirstPage
        <4>4. SizeOf(Image(p)) = 0
          BY <1>4, <4>3, EmptySize
        <4> QED BY <3>2, <4>4, HotSize DEF Write
      <3> QED BY <3>1, <3>2
    <2>2. CacheShape(p)'
      BY <1>1, <1>2, <1>4, <2>1 DEF PagerInv, CacheShape
    <2>3. CacheRead(p)'
      BY <1>1, <1>2, <1>3 DEF PagerInv, CacheRead
    <2> QED BY <2>2, <2>3
  <1>17. Transaction(p)'
    <2>1. Image(p)'[g] = v /\ \A h \in Pages : h # g => Image(p)'[h] = Image(p)[h]
      BY <1>2, <1>4 DEF Image
    <2>2. NoHoles(Image(p)')
      <3> DEFINE I == Image(p)'
      <3>1. ASSUME NEW a \in Pages, NEW b \in Pages, a < b, I[b] # None, a # g
            PROVE  I[a] # None
        <4>1. CASE b # g
          BY <1>4, <2>1, <3>1, <4>1 DEF NoHoles
        <4>2. CASE b = g
          <5>1. SizeOf(Image(p)) \in Nat /\ g <= SizeOf(Image(p)) + 1 /\ a \in Nat /\ b \in Nat
            BY SizeIs, FirstPage DEF Write
          <5>2. a <= SizeOf(Image(p))
            BY <3>1, <4>2, <5>1
          <5> QED BY <1>4, <2>1, <3>1, <5>2, NoHolesSize
        <4> QED BY <4>1, <4>2
      <3> HIDE DEF I
      <3>2. I[g] # None
        BY <1>4, <2>1 DEF I
      <3>3. NoHoles(I)
        BY <3>1, <3>2 DEF NoHoles
      <3> QED BY <3>3 DEF I
    <2>3. \A h \in dirty'[p] : cache'[p][h] = v
      BY <1>1, <1>2, <1>3 DEF PagerInv, Transaction, TypeOK
    <2>4. \A q \in Others(p) : cache'[q] = cache[q]
      BY <1>2 DEF Keeps
    <2>5. eState'[p] # "WRITER_FINISHED"
      BY <1>1, <1>2
    <2> QED BY <1>1, <1>2, <1>3, <1>10, <2>2, <2>3, <2>4, <2>5
            DEF PagerInv, Transaction, SameContent
  <1>18. PagerInv(p)'
    BY <1>13, <1>14, <1>15, <1>16, <1>17 DEF PagerInv
  <1> QED BY <1>10, <1>11, <1>12, <1>18, AllPagers

LEMMA SyncJournalStep ==
    ASSUME Inv, NEW p \in Pagers, SyncJournal(p)
    PROVE  /\ FilesInv' /\ Content' = Content /\ Previous' = Content /\ Image(p)' = Image(p)
  <1>1. /\ PagerInv(p) /\ TypeOK /\ KeptIs /\ Undoable /\ Contents
        /\ eState[p] \in {"WRITER_CACHEMOD", "WRITER_DBMOD"} /\ eLock[p] = "EXCLUSIVE"
    BY DEF Inv, SyncJournal
  <1>2. /\ UNCHANGED <<db, eLock, cache, dirty, version>> /\ kept' = journal'
        /\ OnDisk' = OnDisk
        /\ eState'[p] = "WRITER_DBMOD"
        /\ \A q \in Others(p) : Keeps(q)
    BY <1>1, OnDiskIs DEF SyncJournal, TypeOK, Others, Keeps
  <1>3. /\ journal' \in Journal
        /\ journal'.exists = journal.exists /\ journal'.hot = TRUE
        /\ journal'.size = journal.size /\ journal'.tail = NoPages
        /\ \A g \in Pages : journal'.counted[g] = IF journal.tail[g] # None THEN journal.tail[g]
                                                  ELSE journal.counted[g]
    BY <1>1, CountedType DEF SyncJournal, TypeOK
  <1>4. journal.exists /\ journal.size \in Nat /\ db \in [Pages -> Value]
    BY <1>1, HotSize DEF PagerInv, Journalled, KeptIs
  <1>5. \A g \in Pages :
           /\ journal.tail[g] # None => /\ g <= journal.size /\ journal.tail[g] = db[g]
                                        /\ journal.counted[g] = None
           /\ g <= journal.size => /\ db[g] # None
                                   /\ g \in dirty[p] => \/ journal.tail[g] # None
                                                        \/ journal.counted[g] # None
    BY <1>1 DEF PagerInv, Recording
  <1>6. HasFirst /\ (journal.size > 0 => db[1] # None)
    <2>1. journal.size > 0 => 1 <= journal.size
      BY <1>4
    <2>2. journal.size = 0 \/ journal.size > 0
      BY <1>4
    <2> QED BY <1>5, <2>1, <2>2, FirstPage DEF HasFirst
  <1>7. Content' = Content
    <2>1. CASE eState[p] = "WRITER_CACHEMOD"
      <3>1. Content = db /\ ~journal.hot /\ journal.counted = NoPages /\ journal.size = SizeOf(db)
        BY <1>1, <2>1, SettledContent DEF Settled, PagerInv, Journalled
      <3>2. ASSUME NEW g \in Pages
            PROVE  PlayedBack(journal', db)[g] = db[g]
        <4>1. g > journal.size => db[g] = None
          <5>1. db[g] # None => g <= SizeOf(db)
            BY SizeIs
          <5>2. g \in Nat
            BY FirstPage
          <5> QED BY <1>4, <3>1, <5>1, <5>2
        <4>2. journal.tail[g] # None => journal.tail[g] = db[g]
          BY <1>5
        <4> QED BY <1>3, <1>4, <3>1, <4>1, <4>2, ContentTypes DEF NoPages
      <3>3. PlayedBack(journal', db) \in [Pages -> Value]
        BY <1>3, <1>4, ContentTypes
      <3>4. PlayedBack(journal', db) = db
        BY <1>4, <3>2, <3>3
      <3>5. Recovered(journal', db) = db
        BY <3>4 DEF Recovered
      <3> QED BY <1>2, <3>1, <3>5 DEF Content
    <2>2. CASE eState[p] = "WRITER_DBMOD"
      <3>1. journal.hot
        BY <1>1, <2>2 DEF PagerInv, Journalled
      <3>2. ASSUME NEW g \in Pages
            PROVE  PlayedBack(journal', db)[g] = PlayedBack(journal, db)[g]
        <4>1. journal.tail[g] # None => journal.tail[g] = db[g] /\ journal.counted[g] = None
          BY <1>5
        <4>2. PlayedBack(journal', db)[g] = IF g > journal'.size THEN None
                                          ELSE IF journal'.counted[g] # None THEN journal'.counted[g]
                                          ELSE db[g]
          BY <1>3, <1>4, ContentTypes
        <4>3. PlayedBack(journal, db)[g] = IF g > journal.size THEN None
                                          ELSE IF journal.counted[g] # None THEN journal.counted[g]
                                          ELSE db[g]
          BY <1>4, HotSize, ContentTypes
        <4> QED BY <1>3, <4>1, <4>2, <4>3
      <3>3. /\ PlayedBack(journal', db) \in [Pages -> Value]
            /\ PlayedBack(journal, db) \in [Pages -> Value]
        BY <1>3, <1>4, HotSize, ContentTypes
      <3>4. PlayedBack(journal', db) = PlayedBack(journal, db)
        BY <3>2, <3>3
      <3>5. Recovered(journal', db) = Recovered(journal, db)
        BY <1>3, <1>4, <3>1, <3>4 DEF Recovered
      <3> QED BY <1>2, <3>5 DEF Content
    <2> QED BY <1>1, <2>1, <2>2
  <1>8. Previous' = Content
    BY <1>2, <1>7 DEF Content, Previous
  <1>9. KeptIs' /\ Undoable' /\ Contents'
    <2>1. KeptIs'
      BY <1>2, <1>3, <1>4 DEF KeptIs
    <2>2. Undoable'
      <3>1. CASE eState[p] = "WRITER_CACHEMOD"
        <4>1. OnDisk = db
          BY <3>1, SettledContent DEF Settled
        <4> QED BY <1>2, <1>3, <1>6, <4>1 DEF Undoable
      <3>2. CASE eState[p] = "WRITER_DBMOD"
        <4>1. journal.hot /\ kept.hot /\ kept.size = journal.size /\ kept.counted = journal.counted
          BY <1>1, <3>2 DEF PagerInv, Journalled, KeptIs
        <4> QED BY <1>1, <1>2, <1>3, <4>1 DEF Undoable
      <3> QED BY <1>1, <3>1, <3>2
    <2>3. Contents'
      BY <1>1, <1>7, <1>8 DEF Contents
    <2> QED BY <2>1, <2>2, <2>3
  <1>10. ASSUME NEW q \in Others(p)
         PROVE  PagerInv(q)'
    BY <1>1, <1>2, <1>7, <1>8, AloneExclusive, Distinct, IdleKeeps DEF Inv
  <1>11. Image(p)' = Image(p)
    BY <1>2 DEF Image
  <1>12. Recording(p)'
    BY <1>2, <1>3, <1>5 DEF Recording, NoPages
  <1>13. Journalled(p)' /\ SettledFile(p)' /\ CacheFresh(p)'
    BY <1>2, <1>3, <1>6 DEF Journalled, HasFirst, SettledFile, Settled, CacheFresh, Writing
  <1>14. CacheShape(p)' /\ CacheRead(p)'
    BY <1>1, <1>2 DEF PagerInv, CacheShape, CacheRead, Writing
  <1>15. Transaction(p)'
    <2>1. \A q \in Others(p) : cache'[q] = cache[q]
      BY <1>2
    <2> QED BY <1>1, <1>2, <1>7, <1>8, <1>11, <2>1 DEF PagerInv, Transaction, Writing
  <1>16. PagerInv(p)'
    BY <1>12, <1>13, <1>14, <1>15 DEF PagerInv
  <1> QED BY <1>7, <1>8, <1>9, <1>10, <1>11, <1>16, AllPagers

LEMMA CommitPhaseOneStep ==
    ASSUME Inv, NEW p \in Pagers, CommitPhaseOne(p)
    PROVE  FilesInv' /\ SameContent /\ Image(p)' = Image(p)
  <1>1. /\ PagerInv(p) /\ TypeOK /\ KeptIs /\ Undoable /\ Contents
        /\ eState[p] = "WRITER_DBMOD" /\ eLock[p] = "EXCLUSIVE"
    BY DEF Inv, LocksExclude, LockOf, CommitPhaseOne
  <1>2. /\ UNCHANGED <<db, journal, kept, eLock, cache, dirty, version>> /\ OnDisk' = db
        /\ eState'[p] = "WRITER_FINISHED" /\ cache[p][1] = version[p]
        /\ \A q \in Others(p) : Keeps(q)
    BY <1>1, OnDiskIs DEF CommitPhaseOne, Synced, TypeOK, Others, Keeps
  <1>3. SameContent
    BY <1>2 DEF SameContent, Content, Previous
  <1>4. journal.hot /\ HasFirst
    BY <1>1 DEF PagerInv, Journalled
  <1>5. KeptIs' /\ Undoable' /\ Contents'
    <2>1. KeptIs'
      BY <1>1, <1>2 DEF KeptIs
    <2>2. kept.size > 0 => db[1] # None
      BY <1>1, <1>4, HotSize DEF KeptIs, HasFirst
    <2>3. Undoable'
      BY <1>2, <2>2 DEF Undoable
    <2>4. Contents'
      BY <1>1, <1>3 DEF Contents, SameContent
    <2> QED BY <2>1, <2>3, <2>4
  <1>6. ASSUME NEW q \in Others(p)
        PROVE  PagerInv(q)'
    BY <1>1, <1>2, <1>3, AloneExclusive, Distinct, IdleKeeps DEF SameContent, Inv
  <1>7. Image(p)' = Image(p)
    BY <1>2 DEF Image
  <1>8. Journalled(p)' /\ SettledFile(p)' /\ CacheFresh(p)' /\ Recording(p)'
    BY <1>2, <1>4 DEF Journalled, HasFirst, SettledFile, Settled, CacheFresh, Writing, Recording
  <1>9. CacheShape(p)' /\ CacheRead(p)'
    BY <1>1, <1>2 DEF PagerInv, CacheShape, CacheRead, Writing
  <1>10. Transaction(p)'
    <2>1. \A q \in Others(p) : cache'[q] = cache[q]
      BY <1>2
    <2> QED BY <1>1, <1>2, <1>3, <1>7, <2>1 DEF PagerInv, Transaction, SameContent, Writing
  <1>11. PagerInv(p)'
    BY <1>8, <1>9, <1>10 DEF PagerInv
  <1> QED BY <1>3, <1>5, <1>6, <1>7, <1>11, AllPagers

(* A transaction that is done makes what it wrote the content. *)
LEMMA CommitPhaseTwoStep ==
    ASSUME Inv, NEW p \in Pagers, CommitPhaseTwo(p)
    PROVE  FilesInv' /\ Content' = Image(p) /\ Previous' = Content
  <1> DEFINE v == version[p]
  <1>1. /\ PagerInv(p) /\ TypeOK /\ KeptIs /\ Undoable /\ Contents /\ dirty[p] = {}
        /\ eState[p] = "WRITER_FINISHED" /\ eLock[p] = "EXCLUSIVE"
    BY DEF Inv, LocksExclude, LockOf, CommitPhaseTwo, DirtyCached, HasDirty
  <1>2. /\ UNCHANGED <<db, kept, cache, dirty>> /\ OnDisk' = OnDisk /\ journal' = NoJournal
        /\ eState'[p] = "READER"
        /\ \A q \in Others(p) : Keeps(q)
    BY <1>1, OnDiskIs DEF CommitPhaseTwo, TypeOK, Others, Keeps
  <1>3. /\ OnDisk = db /\ cache[p][1] = v /\ v \in Versions /\ v \notin {None, NotCached}
        /\ \A g \in Pages : Content[g] # v /\ Previous[g] # v
        /\ \A q \in Others(p), g \in Pages : cache[q][g] # v
    BY <1>1, NoneAssumption DEF PagerInv, Transaction, Writing
  <1>4. Image(p) = db /\ NoHoles(db) /\ db[1] = v
    BY <1>1, <1>3, ImageOf, FirstPage DEF Writing, PagerInv, CacheRead
  <1>5. journal.hot /\ HasFirst
    BY <1>1 DEF PagerInv, Journalled
  <1>6. Content' = db
    <2>1. ~NoJournal.hot
      BY ArrayTypes
    <2>2. Recovered(NoJournal, db) = db
      BY <2>1, HotSize, NotRecovered
    <2> QED BY <1>2, <2>2 DEF Content
  <1>7. Previous' = Content /\ Previous = Content
    <2>1. Recovered(kept, db) = Recovered(journal, db)
      BY <1>1, <1>5, HotSize, SameHeaders DEF KeptIs
    <2> QED BY <1>2, <2>1 DEF Content, Previous
  <1>8. KeptIs' /\ Undoable' /\ Contents'
    <2>1. KeptIs'
      BY <1>1, <1>2, <1>3, ArrayTypes DEF KeptIs
    <2>2. Undoable'
      BY <1>1, <1>2 DEF Undoable
    <2>3. Contents'
      BY <1>1, <1>3, <1>4, <1>6, <1>7, FirstPage DEF Contents
    <2> QED BY <2>1, <2>2, <2>3
  <1>9. ASSUME NEW q \in Others(p)
        PROVE  PagerInv(q)'
    <2>1. cache[q][1] # v
      BY <1>3, FirstPage
    <2> QED BY <1>1, <1>2, <1>4, <1>6, <1>7, <2>1, AloneExclusive, Distinct, IdleKeeps DEF Inv
  <1>10. Journalled(p)' /\ SettledFile(p)' /\ Recording(p)' /\ Transaction(p)'
    BY <1>2, <1>3, ArrayTypes DEF Journalled, SettledFile, Recording, Transaction, Writing
  <1>11. CacheShape(p)' /\ CacheRead(p)'
    BY <1>1, <1>2 DEF PagerInv, CacheShape, CacheRead, Writing
  <1>12. CacheFresh(p)'
    <2>1. \A g \in Pages : cache[p][g] \in {NotCached, db[g]}
      BY <1>1 DEF PagerInv, CacheRead, Writing
    <2>2. Content[1] # v
      BY <1>3, FirstPage
    <2> QED BY <1>2, <1>3, <1>6, <1>7, <2>1, <2>2 DEF CacheFresh, Fresh
  <1>13. PagerInv(p)'
    BY <1>10, <1>11, <1>12 DEF PagerInv
  <1> QED BY <1>4, <1>6, <1>7, <1>8, <1>9, <1>13, AllPagers

LEMMA RollbackCacheStep ==
    ASSUME Inv, NEW p \in Pagers, RollbackCache(p)
    PROVE  FilesInv' /\ SameContent
  <1> DEFINE c == [g \in Pages |-> IF g \in dirty[p]
                      THEN (IF db[g] = None THEN NotCached ELSE db[g]) ELSE cache[p][g]]
  <1>1. /\ PagerInv(p) /\ TypeOK /\ KeptIs /\ Undoable /\ Contents /\ DirtyCached
        /\ eState[p] \in {"WRITER_LOCKED", "WRITER_CACHEMOD"} /\ eLock[p] \in Reserving
        /\ eState[p] \in Settled /\ eState[p] \in Writing
    BY DEF Inv, LocksExclude, LockOf, RollbackCache, Settled, Writing, Reserving
  <1>2. /\ UNCHANGED <<db, kept>> /\ OnDisk' = OnDisk
        /\ journal' = IF eState[p] = "WRITER_CACHEMOD" THEN NoJournal ELSE journal
        /\ eState'[p] = "READER" /\ cache'[p] = c /\ dirty'[p] = {}
        /\ \A q \in Others(p) : Keeps(q)
    BY <1>1, OnDiskIs DEF RollbackCache, TypeOK, Others, Keeps
  <1>3. Content = db /\ OnDisk = db /\ (journal.hot => db = NoPages) /\ db \in [Pages -> Value]
        /\ NoHoles(db)
    BY <1>1, SettledContent, HotSize DEF PagerInv, SettledFile, Contents
  <1>4. eState[p] = "WRITER_CACHEMOD" => ~journal.hot /\ ~journal'.hot
    BY <1>1, <1>2, ArrayTypes DEF PagerInv, Journalled
  <1>5. SameContent /\ (journal'.hot => journal.hot /\ journal'.size = journal.size)
    <2>1. journal'.hot => journal' = journal
      BY <1>1, <1>2, <1>4
    <2>2. Recovered(journal', db) = db
      BY <1>3, <2>1, NotRecovered
    <2> QED BY <1>2, <1>3, <2>1, <2>2 DEF SameContent, Content, Previous
  <1>6. KeptIs' /\ Undoable' /\ Contents'
    <2>1. journal'.hot => journal' = journal
      BY <1>1, <1>2, <1>4
    <2>2. KeptIs'
      BY <1>1, <1>2, <1>3, <2>1 DEF KeptIs
    <2>3. Undoable'
      BY <1>1, <1>2 DEF Undoable
    <2>4. Contents'
      BY <1>1, <1>5 DEF Contents, SameContent
    <2> QED BY <2>2, <2>3, <2>4
  <1>7. ASSUME NEW q \in Others(p)
        PROVE  PagerInv(q)'
    <2>1. eState[q] \notin Writing \cup {"playback", "ERROR"}
      BY <1>1, NoErrors
    <2> QED BY <1>2, <1>5, <2>1, JournalOnly DEF Writing
  (* The cache that is left. *)
  <1>8. /\ \A g \in Pages : c[g] \in {NotCached, db[g]}
        /\ \A g \in Pages : g # 1 => c[g] # None
        /\ c[1] = NotCached => c = NothingCached /\ db[1] = None
    <2>1. NotCached # None /\ \A g \in Pages : db[g] # NotCached
      BY <1>3, NotCachedIs
    <2>2. \A g \in Pages : c[g] = IF g \in dirty[p] THEN (IF db[g] = None THEN NotCached ELSE db[g])
                                  ELSE cache[p][g]
      OBVIOUS
    <2> HIDE DEF c
    <2>3. \A g \in Pages : g \notin dirty[p] => cache[p][g] \in {NotCached, db[g]}
      BY <1>1 DEF PagerInv, CacheRead
    <2>4. \A g \in Pages : g # 1 => cache[p][g] # None
      BY <1>1 DEF PagerInv, CacheShape
    <2>5. ASSUME c[1] = NotCached
          PROVE  db[1] = None /\ \A g \in Pages : c[g] = NotCached
      <3>1. CASE 1 \in dirty[p]
        <4>1. db[1] = None
          BY <2>1, <2>2, <2>5, <3>1, FirstPage
        <4>2. \A g \in Pages : db[g] = None
          BY <1>3, <4>1, FirstPage DEF NoHoles, Pages
        <4>3. ASSUME NEW g \in Pages
              PROVE  c[g] = NotCached
          BY <2>2, <2>3, <2>4, <3>1, <4>2
        <4> QED BY <4>1, <4>3
      <3>2. CASE 1 \notin dirty[p]
        <4>1. cache[p][1] = NotCached
          BY <2>2, <2>5, <3>2, FirstPage
        <4>2. cache[p] = NothingCached /\ db[1] = None
          BY <1>1, <4>1 DEF PagerInv, CacheShape
        <4>3. \A g \in Pages : cache[p][g] = NotCached
          BY <4>2 DEF NothingCached
        <4>4. dirty[p] = {}
          BY <1>1, <4>3 DEF DirtyCached, TypeOK
        <4> QED BY <2>2, <4>2, <4>3, <4>4
      <3> QED BY <3>1, <3>2
    <2>6. c \in CacheType
      BY <1>1 DEF c, CacheType, TypeOK
    <2>7. c[1] = NotCached => c = NothingCached /\ db[1] = None
      BY <2>5, <2>6 DEF NothingCached, CacheType
    <2> QED BY <2>1, <2>2, <2>3, <2>4, <2>7
  <1> HIDE DEF c
  <1>9. SettledFile(p)' /\ Journalled(p)' /\ Recording(p)' /\ Transaction(p)'
    BY <1>2, <1>3, <1>5 DEF SettledFile, Journalled, Recording, Transaction, Writing
  <1>10. CacheShape(p)' /\ CacheRead(p)'
    BY <1>2, <1>8 DEF CacheShape, CacheRead
  <1>11. CacheFresh(p)'
    <2>1. Content' = db /\ (Previous'[1] = db[1] => Previous' = db)
      BY <1>1, <1>3, <1>5 DEF SameContent, Contents
    <2>2. c[1] # NotCached => c[1] = db[1]
      BY <1>8, FirstPage
    <2>3. c[1] = NotCached => \A g \in Pages : c[g] = NotCached
      BY <1>8 DEF NothingCached
    <2> QED BY <1>2, <1>8, <2>1, <2>2, <2>3 DEF CacheFresh, Fresh
  <1>12. PagerInv(p)'
    BY <1>9, <1>10, <1>11 DEF PagerInv
  <1> QED BY <1>5, <1>6, <1>7, <1>12, AllPagers

LEMMA EndPlaybackStep ==
    ASSUME Inv, NEW p \in Pagers, EndPlayback(p)
    PROVE  FilesInv' /\ SameContent
  <1>1. /\ PagerInv(p) /\ TypeOK /\ KeptIs /\ Undoable /\ Contents
        /\ eState[p] = "playback" /\ eLock[p] = "EXCLUSIVE"
    BY DEF Inv, LocksExclude, LockOf, EndPlayback
  <1>2. /\ UNCHANGED <<db, kept>> /\ journal' = NoJournal /\ OnDisk' = db
        /\ eState'[p] = "READER" /\ dirty'[p] = {}
        /\ cache'[p] = [NothingCached EXCEPT ![1] = db[1]]
        /\ \A q \in Others(p) : Keeps(q)
    BY <1>1, OnDiskIs DEF EndPlayback, Synced, TypeOK, Others, Keeps
  <1>3. Content = db /\ Content' = db /\ Previous' = Previous /\ ~journal'.hot
    <2>1. Recovered(journal, db) = db
      BY DEF Recovered, EndPlayback
    <2>2. ~NoJournal.hot
      BY ArrayTypes
    <2>3. Recovered(NoJournal, db) = db
      BY <2>2, HotSize, NotRecovered
    <2> QED BY <1>2, <2>1, <2>2, <2>3 DEF Content, Previous
  <1>4. KeptIs' /\ Undoable' /\ Contents'
    <2>1. KeptIs'
      BY <1>1, <1>2, <1>3 DEF KeptIs
    <2>2. Undoable'
      BY <1>1, <1>2 DEF Undoable
    <2>3. Contents'
      BY <1>1, <1>3 DEF Contents
    <2> QED BY <2>1, <2>2, <2>3
  <1>5. ASSUME NEW q \in Others(p)
        PROVE  PagerInv(q)'
    BY <1>1, <1>2, <1>3, AloneExclusive, Distinct, IdleKeeps DEF Inv
  <1>6. /\ cache'[p][1] = db[1] /\ db[1] # NotCached
        /\ \A g \in Pages : g # 1 => cache'[p][g] = NotCached
    BY <1>2, HotSize, NotCachedIs DEF NothingCached
  <1>7. SettledFile(p)' /\ Journalled(p)' /\ Recording(p)' /\ Transaction(p)'
    BY <1>2, <1>3 DEF SettledFile, Journalled, Recording, Transaction, Writing
  <1>8. CacheShape(p)' /\ CacheRead(p)'
    BY <1>2, <1>6, NotCachedIs DEF CacheShape, CacheRead
  <1>9. CacheFresh(p)'
    BY <1>6 DEF CacheFresh, Fresh
  <1>10. PagerInv(p)'
    BY <1>7, <1>8, <1>9 DEF PagerInv
  <1> QED BY <1>3, <1>4, <1>5, <1>10, AllPagers DEF SameContent

(* Whatever a connection was doing, all that is gone with it are records   *)
(* that nobody would read.                                                 *)
LEMMA ForgetStep ==
    ASSUME Inv, NEW p \in Pagers, Forget(p), UNCHANGED <<db, disk, kept>>
    PROVE  FilesInv' /\ SameContent
  <1>1. /\ PagerInv(p) /\ TypeOK /\ KeptIs /\ Undoable /\ Contents /\ LockOf(p)
    BY DEF Inv, LocksExclude
  <1>2. /\ eState'[p] = "OPEN" /\ dirty'[p] = {} /\ cache'[p] = NothingCached
        /\ \A q \in Others(p) : Keeps(q)
    BY <1>1 DEF Forget, TypeOK, Others, Keeps
  <1>3. /\ journal' \in Journal
        /\ journal'.exists = journal.exists /\ journal'.hot = journal.hot
        /\ journal'.size = journal.size /\ journal'.counted = journal.counted
    <2>1. journal' \in {journal, [journal EXCEPT !.tail = NoPages]} /\ journal \in Journal
      BY <1>1 DEF Forget, TypeOK
    <2> QED BY <2>1, ArrayTypes DEF Journal
  <1>4. SameContent
    <2>1. Recovered(journal', db) = Recovered(journal, db)
      BY <1>3, HotSize, SameHeaders
    <2> QED BY <2>1 DEF SameContent, Content, Previous
  <1>5. KeptIs' /\ Undoable' /\ Contents'
    <2>1. KeptIs'
      BY <1>1, <1>3, OnDiskIs DEF KeptIs
    <2>2. Undoable'
      BY <1>1, OnDiskIs DEF Undoable
    <2>3. Contents'
      BY <1>1, <1>4 DEF Contents, SameContent
    <2> QED BY <2>1, <2>2, <2>3
  <1>6. ASSUME NEW q \in Others(p), eState[q] \in Writing, NEW g \in Pages
        PROVE  cache'[p][g] # version[q]
    <2>1. version[q] \in Versions
      BY <1>6, Distinct DEF Inv, PagerInv, Transaction
    <2> QED BY <1>2, <2>1, NotCachedIs DEF NothingCached, Value
  <1>7. ASSUME NEW q \in Others(p)
        PROVE  PagerInv(q)'
    <2>1. CASE eState[q] \notin {"WRITER_CACHEMOD", "WRITER_DBMOD"}
      BY <1>2, <1>3, <1>4, <1>6, <2>1, OnDiskIs, JournalOnly
    <2>2. CASE eState[q] \in {"WRITER_CACHEMOD", "WRITER_DBMOD"}
      <3>1. q \in Pagers /\ PagerInv(q) /\ LockOf(q) /\ LockOf(p) /\ Excludes(q, p)
            /\ Excludes(p, q)
        BY Distinct DEF Inv, LocksExclude
      <3>2. eState[p] \notin Writing \cup {"playback"}
            /\ (eState[p] = "ERROR" => eLock[p] = "SHARED")
        BY <2>2, <3>1 DEF LockOf, Excludes, Reserving, Writing
      <3>3. eState[p] # "ERROR"
        BY <1>1, <2>2, <3>1, <3>2 DEF LockOf, Excludes, PagerInv, Journalled
      <3>4. journal' = journal
        BY <3>2, <3>3 DEF Forget
      <3>5. UNCHANGED files
        BY <3>4 DEF files
      <3> QED BY <1>2, <1>6, <3>5, FilesSame
    <2> QED BY <2>1, <2>2
  <1>8. SettledFile(p)' /\ Journalled(p)' /\ Recording(p)' /\ Transaction(p)' /\ CacheRead(p)'
    BY <1>2 DEF SettledFile, Settled, Journalled, Recording, Transaction, CacheRead, Reading,
                Writing
  <1>9. CacheShape(p)' /\ CacheFresh(p)'
    BY <1>2, NotCachedIs DEF CacheShape, CacheFresh, Fresh, NothingCached, Reading, Writing
  <1>10. PagerInv(p)'
    BY <1>8, <1>9 DEF PagerInv
  <1> QED BY <1>4, <1>5, <1>7, <1>10, AllPagers

(* A connection that has forgotten everything. *)
LEMMA AtRest ==
    ASSUME TypeOK', NEW p \in Pagers, eState'[p] = "OPEN", cache'[p] = NothingCached
    PROVE  PagerInv(p)'
  <1>1. Content' \in [Pages -> Value] /\ Previous' \in [Pages -> Value]
    <2>1. journal' \in Journal /\ kept' \in Journal /\ db' \in [Pages -> Value]
      BY DEF TypeOK
    <2> QED BY <2>1, ContentTypes DEF Content, Previous
  <1>2. Content'[1] # NotCached /\ Previous'[1] # NotCached
    BY <1>1, NotCachedIs, FirstPage
  <1> QED BY <1>2, FirstPage, NotCachedIs
          DEF PagerInv, SettledFile, Settled, Journalled, Recording, CacheShape, CacheRead,
              Transaction, CacheFresh, Fresh, Reading, Writing, NothingCached

LEMMA PowerLossStep ==
    ASSUME Inv, PowerLoss, TypeOK', TruncatesFirst
    PROVE  FilesInv' /\ Content' \in {Content, Previous} /\ Previous' = Content'
  <1>1. KeptIs /\ Undoable /\ Contents /\ TypeOK
    BY DEF Inv
  <1>2. PICK S \in SUBSET Pages : db' = [g \in Pages |-> IF g \in S THEN db[g] ELSE OnDisk[g]]
    BY DEF PowerLoss, OnDisk
  <1>3. /\ OnDisk' = db' /\ kept' = journal'
        /\ journal' = kept \/ (~journal.hot /\ journal' = NoJournal)
        /\ db' \in [Pages -> Value]
    BY OnDiskIs DEF PowerLoss, TypeOK
  <1>4. OnDisk = db => db' = db
    BY <1>2, HotSize
  <1>5. db = NoPages /\ OnDisk = NoPages => db' = NoPages
    BY <1>2 DEF NoPages
  <1>6. db[1] # None /\ OnDisk[1] # None => db'[1] # None
    BY <1>2, FirstPage
  <1>7. Content' \in {Content, Previous} /\ Previous' = Content'
    <2>1. Previous' = Content'
      BY <1>3 DEF Content, Previous
    <2>2. CASE journal' = kept
      <3>1. CASE ~kept.hot
        BY <1>1, <1>3, <1>4, <2>1, <2>2, <3>1 DEF KeptIs, Content, Previous
      <3>2. CASE kept.hot
        <4>1. CASE db = NoPages /\ OnDisk = NoPages
          BY <1>3, <1>5, <2>1, <2>2, <4>1 DEF Content, Previous
        <4>2. CASE ~(db = NoPages /\ OnDisk = NoPages)
          <5>1. kept.size = 0 \/ (db[1] # None /\ db'[1] # None)
            BY <1>1, <1>6, <3>2, <4>2, HotSize DEF Undoable
          <5>2. \A g \in Pages : g <= kept.size /\ kept.counted[g] = None => db[g] = db'[g]
            BY <1>1, <1>2, <3>2 DEF Undoable
          <5>3. Recovered(kept, db) = Recovered(kept, db')
            BY <1>1, <1>3, <3>2, <5>1, <5>2, HotSize, SameRecovery DEF KeptIs
          <5> QED BY <1>3, <2>1, <2>2, <5>3 DEF Content, Previous
        <4> QED BY <4>1, <4>2
      <3> QED BY <3>1, <3>2
    <2>3. CASE ~journal.hot /\ journal' = NoJournal
      <3>1. db' = db
        BY <1>1, <1>4, <2>3 DEF KeptIs
      <3>2. Recovered(journal, db) = db /\ Recovered(NoJournal, db) = db
        <4>1. ~NoJournal.hot
          BY ArrayTypes
        <4> QED BY <2>3, <4>1, HotSize, NotRecovered
      <3> QED BY <2>1, <2>3, <3>1, <3>2 DEF Content, Previous
    <2> QED BY <1>3, <2>2, <2>3
  <1>8. KeptIs' /\ Undoable' /\ Contents'
    <2>1. KeptIs'
      BY <1>1, <1>3, ArrayTypes DEF KeptIs
    <2>2. Undoable'
      <3>1. SUFFICES ASSUME kept'.hot, kept'.size > 0
                     PROVE  db' = NoPages \/ db'[1] # None
        BY <1>3 DEF Undoable
      <3>2. kept' = kept
        BY <1>3, <3>1, ArrayTypes
      <3> QED BY <1>1, <1>5, <1>6, <3>1, <3>2 DEF Undoable
    <2>3. Contents'
      BY <1>1, <1>7 DEF Contents
    <2> QED BY <2>1, <2>2, <2>3
  <1>9. ASSUME NEW q \in Pagers
        PROVE  PagerInv(q)'
    <2>1. eState'[q] = "OPEN" /\ cache'[q] = NothingCached
      BY DEF PowerLoss
    <2> QED BY <2>1, AtRest
  <1> QED BY <1>7, <1>8, <1>9 DEF FilesInv

LEMMA RemoveStep ==
    ASSUME Inv, Remove, TypeOK'
    PROVE  FilesInv' /\ Content' = NoPages /\ Previous' = NoPages
  <1>1. /\ db' = NoPages /\ OnDisk' = NoPages /\ journal' = journal /\ kept' = kept
        /\ eState' = eState /\ cache' = cache /\ NoPages \in [Pages -> Value]
    BY ArrayTypes, OnDiskIs DEF Remove
  <1>2. Content' = NoPages /\ Previous' = NoPages
    <2>1. Recovered(journal, NoPages) = NoPages /\ Recovered(kept, NoPages) = NoPages
      BY <1>1, NotRecovered
    <2> QED BY <1>1, <2>1 DEF Content, Previous
  <1>3. KeptIs' /\ Undoable' /\ Contents'
    BY <1>1, <1>2 DEF Inv, KeptIs, Undoable, Contents, NoHoles, NoPages
  <1>4. ASSUME NEW q \in Pagers
        PROVE  PagerInv(q)'
    <2>1. eState'[q] = "OPEN" /\ cache'[q] = NothingCached
      BY <1>1 DEF Remove
    <2> QED BY <2>1, AtRest
  <1> QED BY <1>2, <1>3, <1>4 DEF FilesInv

-----------------------------------------------------------------------------
(* The invariant *)

LEMMA InitInv == Init => Inv
  <1> SUFFICES ASSUME Init PROVE Inv
    OBVIOUS
  <1>1. TypeOK /\ DirtyCached
    BY InitType DEF Init, DirtyCached
  <1>2. PICK v \in Versions : db = [g \in Pages |-> IF g = 1 THEN v ELSE None]
    BY DEF Init
  <1>3. OnDisk = db /\ journal = NoJournal /\ kept = NoJournal /\ ~NoJournal.hot
        /\ \A p \in Pagers : eState[p] = "OPEN" /\ eLock[p] = "NO" /\ cache[p] = NothingCached
    BY ArrayTypes DEF Init, OnDisk
  <1>4. Content = db /\ Previous = db
    BY <1>1, <1>3, NotRecovered DEF Content, Previous, TypeOK
  <1>5. NoHoles(db)
    BY <1>2, FirstPage, NoneAssumption DEF NoHoles, Pages
  <1>6. KeptIs /\ Undoable /\ Contents
    BY <1>3, <1>4, <1>5 DEF KeptIs, Undoable, Contents
  <1>7. LocksExclude
    BY <1>3 DEF LocksExclude, LockOf, Excludes, Reserving, Others
  <1>8. ASSUME NEW p \in Pagers
        PROVE  PagerInv(p)
    <2>1. db[1] # NotCached
      BY <1>1, NotCachedIs, FirstPage DEF TypeOK
    <2> QED BY <1>3, <1>4, <2>1, FirstPage, NotCachedIs
            DEF PagerInv, SettledFile, Settled, Journalled, Recording, CacheShape, CacheRead,
                Transaction, CacheFresh, Fresh, Reading, Writing, NothingCached
  <1> QED BY <1>1, <1>6, <1>7, <1>8 DEF Inv

LEMMA PagerStep ==
    ASSUME Inv, NEW p \in Pagers, Step(p)
    PROVE  /\ FilesInv'
           /\ \/ SameContent
              \/ SyncJournal(p) \/ CommitPhaseTwo(p)
  <1>1. CASE SharedLock(p) \/ CheckReserved(p) \/ DeleteRemnant(p) \/ ReadFirstByte(p)
             \/ LockHot(p) \/ Release(p)
    BY <1>1, SharedLockStep, CheckReservedStep, DeleteRemnantStep, ReadFirstByteStep,
       LockHotStep, ReleaseStep
  <1>2. CASE \E g \in Pages : Restore(p, g) \/ Get(p, g) \/ Write(p, g) \/ WritePage(p, g)
    BY <1>2, RestoreStep, GetStep, WriteStep, WritePageStep
  <1>3. CASE \/ Truncate(p) \/ EndPlayback(p) \/ Begin(p) \/ SyncJournal(p)
             \/ CommitPhaseOne(p) \/ CommitPhaseTwo(p) \/ RollbackCache(p)
    BY <1>3, TruncateStep, EndPlaybackStep, BeginStep, SyncJournalStep, CommitPhaseOneStep,
       CommitPhaseTwoStep, RollbackCacheStep
  <1>4. CASE ExclusiveLock(p) \/ CommitFails(p) \/ RollbackFile(p) \/ PlaybackFails(p)
    BY <1>4, StateStep
  <1>5. CASE UnlockError(p) \/ Crash(p)
    BY <1>5, ForgetStep DEF UnlockError, Crash
  <1> QED BY <1>1, <1>2, <1>3, <1>4, <1>5 DEF Step

(* The steps that are considered: a loss of power only where truncations   *)
(* reach the disk first.                                                   *)
Considered == (\E p \in Pagers : Step(p)) \/ Remove \/ (PowerLoss /\ TruncatesFirst)

LEMMA InvStep ==
    ASSUME Inv, Considered
    PROVE  Inv'
  <1>1. TypeOK' /\ DirtyCached'
    <2>1. Next
      BY DEF Considered, Next
    <2> QED BY <2>1, TypeStep, DirtyStep DEF Inv
  <1>2. LocksExclude'
    <2>1. Next
      BY DEF Considered, Next
    <2> QED BY <1>1, <2>1, LocksStep DEF Inv
  <1>3. FilesInv'
    BY <1>1, PagerStep, PowerLossStep, RemoveStep DEF Considered
  <1> QED BY <1>1, <1>2, <1>3 DEF Inv, FilesInv

LEMMA Invariance == Init /\ [][Considered]_vars => []Inv
  <1>1. Inv /\ [Considered]_vars => Inv'
    <2> SUFFICES ASSUME Inv, [Considered]_vars PROVE Inv'
      OBVIOUS
    <2>1. CASE UNCHANGED vars
      <3>1. UNCHANGED <<db, disk, journal, kept, eState, eLock, cache, dirty, version>>
        BY <2>1 DEF vars
      <3>2. Content' = Content /\ Previous' = Previous
        BY <3>1 DEF Content, Previous
      <3>3. (TypeOK /\ DirtyCached /\ LocksExclude)' /\ OnDisk' = OnDisk
        BY <3>1, OnDiskIs DEF Inv, TypeOK, DirtyCached, LocksExclude, LockOf, Excludes
      <3>4. KeptIs' /\ Undoable' /\ Contents'
        BY <3>1, <3>2, <3>3 DEF Inv, KeptIs, Undoable, Contents
      <3>5. ASSUME NEW p \in Pagers
            PROVE  PagerInv(p)'
        <4>1. PagerInv(p) /\ Image(p)' = Image(p)
          BY <3>1 DEF Inv, Image
        <4> QED BY <3>1, <3>2, <3>3, <4>1 DEF PagerInv, SettledFile, Journalled, HasFirst, Recording,
                   CacheShape, CacheRead, Transaction, CacheFresh, Fresh
      <3> QED BY <3>3, <3>4, <3>5 DEF Inv
    <2> QED BY <2>1, InvStep
  <1> QED BY <1>1, InitInv, PTL

(* Where truncations reach the disk first every step is considered, and    *)
(* while the power stays it is so anyway.                                  *)
LEMMA AllConsidered ==
    /\ TruncatesFirst => (Spec => Init /\ [][Considered]_vars)
    /\ KillSpec => Init /\ [][Considered]_vars
  <1>1. ASSUME TruncatesFirst
        PROVE  Spec => Init /\ [][Considered]_vars
    <2>1. [Next]_vars => [Considered]_vars
      BY <1>1 DEF Next, Considered
    <2> QED BY <2>1, PTL DEF Spec
  <1>2. KillSpec => Init /\ [][Considered]_vars
    <2>1. [(\E p \in Pagers : Step(p)) \/ Remove]_vars => [Considered]_vars
      BY DEF Considered
    <2> QED BY <2>1, PTL DEF KillSpec
  <1> QED BY <1>1, <1>2

LEMMA SettledReads == Inv => ReadersSeeCommitted
  <1> SUFFICES ASSUME Inv, NEW p \in Pagers, eState[p] = "READER"
               PROVE  Image(p) = Content
    BY DEF ReadersSeeCommitted
  <1>1. dirty[p] = {}
    BY DEF Inv, DirtyCached, HasDirty
  <1>2. Image(p) = db
    BY <1>1, ImageOf DEF Reading
  <1> QED BY <1>2, SettledContent DEF Settled

(* A connection that reads sees one committed content, whatever it had in  *)
(* its cache and whatever others write meanwhile.                          *)
THEOREM ReadsCommitted ==
    ASSUME TruncatesFirst
    PROVE  Spec => []ReadersSeeCommitted
  <1>1. Spec => Init /\ [][Considered]_vars
    BY AllConsidered
  <1> QED BY <1>1, Invariance, SettledReads, PTL

(* The same of connections that are killed and fail while the power stays, *)
(* whatever the file system does with truncations and syncs.               *)
THEOREM ReadsCommittedWhenKilled == KillSpec => []ReadersSeeCommitted
  <1>1. KillSpec => Init /\ [][Considered]_vars
    BY AllConsidered
  <1> QED BY <1>1, Invariance, SettledReads, PTL

-----------------------------------------------------------------------------
(* The atomic file *)

LEMMA OwnIs ==
    /\ \A p \in Pagers : Own[p] = IF eState[p] \in Writing THEN Image(p) ELSE NothingCached
    /\ Own = [p \in Pagers |-> Own[p]]
  BY DEF Own

LEMMA OwnIsContent ==
    ASSUME TypeOK, NEW p \in Pagers, eState[p] \in Writing
    PROVE  Own[p] \in [Pages -> Value] /\ Own[p] # NothingCached
  BY ImageType, NotCachedIs, FirstPage DEF Own, NothingCached

(* What other transactions make of the content is theirs. *)
LEMMA OwnKeeps ==
    ASSUME Inv, NEW p \in Pagers, Step(p)
    PROVE  \A q \in Others(p) : Own'[q] = Own[q]
  <1>1. TypeOK
    BY DEF Inv
  <1>2. ASSUME NEW q \in Others(p)
        PROVE  Keeps(q)
    BY <1>1 DEF Step, SharedLock, CheckReserved, DeleteRemnant, ReadFirstByte, LockHot, Truncate,
          EndPlayback, Release, Begin, Restore, Get, Write, WritePage, ExclusiveLock, SyncJournal,
          CommitPhaseOne, CommitPhaseTwo, CommitFails, RollbackCache, RollbackFile,
          PlaybackFails, UnlockError, Crash, Forget, Admit, TypeOK, Others, Keeps
  <1>3. db' # db => eLock[p] = "EXCLUSIVE"
    <2>1. db' # db => eState[p] \in {"playback", "WRITER_DBMOD"}
      BY DEF Step, SharedLock, CheckReserved, DeleteRemnant, ReadFirstByte, LockHot, Truncate,
          EndPlayback, Release, Begin, Restore, Get, Write, WritePage, ExclusiveLock, SyncJournal,
          CommitPhaseOne, CommitPhaseTwo, CommitFails, RollbackCache, RollbackFile,
          PlaybackFails, UnlockError, Crash, files
    <2> QED BY <2>1 DEF Inv, LocksExclude, LockOf
  <1>4. ASSUME NEW q \in Others(p)
        PROVE  Own'[q] = Own[q]
    <2>1. q \in Pagers /\ Keeps(q)
      BY <1>2, Distinct
    <2>2. CASE db' = db
      <3>1. Image(q)' = Image(q)
        BY <2>1, <2>2 DEF Image, Keeps
      <3> QED BY <2>1, <3>1 DEF Own, Keeps
    <2>3. CASE eState[q] = "OPEN"
      BY <2>1, <2>3 DEF Own, Keeps, Writing
    <2> QED BY <1>3, <2>2, <2>3, AloneExclusive
  <1> QED BY <1>4

LEMMA StepRefines ==
    ASSUME Inv, Inv', NEW p \in Pagers, Step(p)
    PROVE  Atomic!Transact \/ UNCHANGED <<Content, Previous, Own>>
  <1>1. TypeOK /\ TypeOK' /\ \A q \in Others(p) : Own'[q] = Own[q]
    BY OwnKeeps DEF Inv
  <1>2. ASSUME NEW x, Own'[p] = x
        PROVE  Own' = [Own EXCEPT ![p] = x]
    <2>1. \A q \in Pagers : q = p \/ q \in Others(p)
      BY DEF Others
    <2> DEFINE O == Own
    <2>2. O' = [q \in Pagers |-> O'[q]] /\ O = [q \in Pagers |-> O[q]]
      BY DEF Own
    <2> HIDE DEF O
    <2>3. \A q \in Pagers : O'[q] = [O EXCEPT ![p] = x][q]
      BY <1>1, <1>2, <2>1, <2>2 DEF O
    <2> QED BY <2>2, <2>3 DEF O
  <1>3. /\ eState'[p] \notin Writing => Own' = [Own EXCEPT ![p] = NothingCached]
        /\ eState'[p] \in Writing => Own' = [Own EXCEPT ![p] = Own'[p]]
    <2>1. eState'[p] \notin Writing => Own'[p] = NothingCached
      BY DEF Own
    <2> QED BY <1>2, <2>1
  <1>4. eState[p] \in Writing => Own[p] \in [Pages -> Value] /\ Own[p] # NothingCached
    BY <1>1, OwnIsContent
  <1>5. eState'[p] \in Writing => Own'[p] \in [Pages -> Value]
    <2>1. eState'[p] \in Writing => Own'[p] = Image(p)'
      BY DEF Own
    <2>2. Image(p)' \in [Pages -> Value]
      BY <1>1 DEF Image, TypeOK
    <2> QED BY <2>1, <2>2
  <1>6. CASE SameContent /\ eState'[p] \notin Writing
    <2>1. Atomic!Abandon(p)
      BY <1>3, <1>6 DEF Atomic!Abandon, SameContent
    <2> QED BY <2>1 DEF Atomic!Transact
  <1>7. CASE SameContent /\ eState[p] \in Writing /\ eState'[p] \in Writing
    <2>1. Atomic!Change(p)
      BY <1>3, <1>4, <1>5, <1>7 DEF Atomic!Change, SameContent
    <2> QED BY <2>1 DEF Atomic!Transact
  <1>8. CASE SameContent /\ eState[p] \notin Writing /\ eState'[p] \in Writing
    <2>1. Begin(p)
      BY <1>1, <1>8 DEF Step, SharedLock, CheckReserved, DeleteRemnant, ReadFirstByte, LockHot,
          Truncate, EndPlayback, Release, Restore, Get, Write, WritePage, ExclusiveLock,
          SyncJournal, CommitPhaseOne, CommitPhaseTwo, CommitFails, RollbackCache, RollbackFile,
          PlaybackFails, UnlockError, Crash, Forget, Admit, TypeOK, Writing
    <2>2. dirty[p] = {} /\ eState[p] = "READER" /\ cache' = cache /\ db' = db
      BY <2>1 DEF Inv, DirtyCached, HasDirty, Begin, files
    <2>3. Own'[p] = Content
      <3>1. Image(p) = db /\ Content = db
        BY <2>2, ImageOf, SettledContent DEF Reading, Settled
      <3>2. Image(p)' = Image(p)
        BY <2>2 DEF Image
      <3> QED BY <1>8, <3>1, <3>2 DEF Own
    <2>4. ASSUME NEW q \in Pagers
          PROVE  eState[q] \notin Writing
      <3>1. CASE q = p
        BY <1>8, <3>1
      <3>2. CASE q # p
        BY <2>1, <3>2 DEF Begin, CanReserve, Others, Inv, LocksExclude, LockOf, Writing, Reserving
      <3> QED BY <3>1, <3>2
    <2>5. Own = Atomic!None
      BY <2>4 DEF Own, Atomic!None
    <2>6. Atomic!Begin(p)
      BY <1>3, <1>8, <2>3, <2>5 DEF Atomic!Begin, SameContent
    <2> QED BY <2>6 DEF Atomic!Transact
  <1>9. CASE SyncJournal(p)
    <2>1. Content' = Content /\ Previous' = Content /\ Image(p)' = Image(p)
      BY <1>9, SyncJournalStep
    <2>2. eState[p] \in Writing /\ eState'[p] \in Writing
      BY <1>1, <1>9 DEF SyncJournal, Writing, TypeOK
    <2>3. Own'[p] = Own[p]
      BY <2>1, <2>2 DEF Own
    <2>4. Own' = Own
      BY <1>2, <2>3 DEF Own
    <2>5. Atomic!Settle
      BY <2>1, <2>4 DEF Atomic!Settle
    <2> QED BY <2>5 DEF Atomic!Transact
  <1>10. CASE CommitPhaseTwo(p)
    <2>1. Content' = Image(p) /\ Previous' = Content
      BY <1>10, CommitPhaseTwoStep
    <2>2. eState[p] \in Writing /\ eState'[p] \notin Writing
      BY <1>1, <1>10 DEF CommitPhaseTwo, Writing, TypeOK
    <2>3. Own[p] = Image(p)
      BY <2>2 DEF Own
    <2>4. Atomic!Commit(p)
      BY <1>3, <1>4, <2>1, <2>2, <2>3 DEF Atomic!Commit
    <2> QED BY <2>4 DEF Atomic!Transact
  <1> QED BY <1>6, <1>7, <1>8, <1>9, <1>10, PagerStep

LEMMA InitRefines == Init => Atomic!Init
  <1> SUFFICES ASSUME Init
               PROVE  Atomic!Init
    OBVIOUS
  <1>1. TypeOK
    BY InitType
  <1>2. Content = Previous
    BY DEF Init, Content, Previous
  <1>3. Own = Atomic!None
    BY DEF Init, Own, Writing, Atomic!None
  <1> QED BY <1>1, <1>2, <1>3, ContentType DEF Atomic!Init

(* Every step while the power stays. *)
Powered == (\E p \in Pagers : Step(p)) \/ Remove

LEMMA PoweredRefines ==
    ASSUME Inv, Inv', [Powered]_vars
    PROVE  Atomic!Transact \/ UNCHANGED <<Content, Previous, Own>>
  <1>1. CASE UNCHANGED vars
    BY <1>1 DEF vars, Content, Previous, Own, Image
  <1>2. CASE \E p \in Pagers : Step(p)
    BY <1>2, StepRefines
  <1>3. CASE Remove
    <2>1. Content' = NoPages /\ Previous' = NoPages
      BY <1>3, RemoveStep DEF Inv
    <2>2. Own' = Atomic!None /\ Own = Atomic!None
      BY <1>3 DEF Remove, Own, Writing, Atomic!None
    <2>3. Atomic!Remove
      BY <2>1, <2>2 DEF Atomic!Remove
    <2> QED BY <2>3 DEF Atomic!Transact
  <1> QED BY <1>1, <1>2, <1>3 DEF Powered

LEMMA Refines == Init /\ [][Considered]_vars => ImplementsAtomicFile
  <1>1. Init => Atomic!Init
    BY InitRefines
  <1>2. Inv /\ Inv' /\ [Considered]_vars => [Atomic!Next]_<<Content, Previous, Own>>
    <2> SUFFICES ASSUME Inv, Inv', [Considered]_vars
                 PROVE  Atomic!Next \/ UNCHANGED <<Content, Previous, Own>>
      OBVIOUS
    <2>1. CASE [Powered]_vars
      BY <2>1, PoweredRefines DEF Atomic!Next
    <2>2. CASE PowerLoss /\ TruncatesFirst
      <3>1. Content' \in {Content, Previous} /\ Previous' = Content'
        BY <2>2, PowerLossStep DEF Inv
      <3>2. Own' = Atomic!None
        BY <2>2 DEF PowerLoss, Own, Writing, Atomic!None
      <3>3. Atomic!PowerLoss
        BY <3>1, <3>2 DEF Atomic!PowerLoss
      <3> QED BY <3>3 DEF Atomic!Next
    <2> QED BY <2>1, <2>2 DEF Considered, Powered
  <1> QED BY <1>1, <1>2, Invariance, PTL
          DEF ImplementsAtomicFile, Atomic!Spec, Atomic!vars

(* Every step of the pager is one of the atomic file, or none of it: the   *)
(* content changes only when a journal is deleted, to what one transaction *)
(* made of it, and a loss of power takes back one transaction at most.     *)
THEOREM FileIsAtomic ==
    ASSUME TruncatesFirst
    PROVE  Spec => ImplementsAtomicFile
  <1>1. Spec => Init /\ [][Considered]_vars
    BY AllConsidered
  <1> QED BY <1>1, Refines, PTL

(* Where only processes are killed and operations fail, the file is atomic *)
(* without any assumption on the file system: a hot journal that is found  *)
(* is always the whole of what the interrupted transaction changed, and no *)
(* connection plays back or deletes one that another still needs.  And     *)
(* nothing that was committed is taken back.                               *)
THEOREM FileIsAtomicWhenKilled == KillSpec => ImplementsAtomicFile /\ CommitsStay
  <1>1. KillSpec => Init /\ [][Considered]_vars
    BY AllConsidered
  <1>2. Inv /\ Inv' /\ [Powered]_vars => [Atomic!Transact]_<<Content, Previous, Own>>
    BY PoweredRefines
  <1>3. KillSpec => Init /\ [][Powered]_vars
    BY PTL DEF KillSpec, Powered
  <1>4. KillSpec => CommitsStay
    BY <1>1, <1>2, <1>3, InitRefines, Invariance, PTL
       DEF CommitsStay, Atomic!PoweredSpec, Atomic!vars
  <1> QED BY <1>1, <1>4, Refines, PTL
=============================================================================
