-------------------------------- MODULE Pager --------------------------------
(***************************************************************************)
(* The pager of SQLite with a rollback journal (journal_mode DELETE, the   *)
(* default, and synchronous FULL): how several connections change one      *)
(* database file so that a transaction happens as a whole or not at all,   *)
(* although processes are killed, the power fails and operations on the    *)
(* files raise.                                                            *)
(*                                                                         *)
(* The stores take a transaction for one step: this is what that rests on. *)
(* A page holds the version of it that the last transaction left, as an    *)
(* encrypted page differs each time it is written.  A transaction does not *)
(* make the file shorter; write-ahead logs, savepoints and transactions    *)
(* over several files are left out.                                        *)
(***************************************************************************)
EXTENDS Integers, FiniteSetsExt

CONSTANTS
    Pagers,       \* connections; the locks of those of one process are kept
                  \* per file, so that they exclude each other all the same
    NPages,       \* pages that the file can have
    Versions,     \* what a transaction writes on its pages
    TruncatesFirst \* whether a truncation reaches the disk before a deletion

ASSUME NPagesAssumption == NPages \in Nat \ {0}
ASSUME TruncatesFirstAssumption == TruncatesFirst \in BOOLEAN

Pages == 1 .. NPages
None == "none"              \* no such page in the file, or no record of it
NotCached == "not cached"

ASSUME NoneAssumption == Versions \cap {None, NotCached} = {}

Value == Versions \cup {None}

VARIABLES
    db,           \* the pages of the file, as processes read them
    disk,         \* those that the power cannot take
    journal,      \* the journal, as processes see it
    kept,         \* the journal that a loss of power would leave or bring back
    eState,       \* Pager.eState, and the points inside sqlite3PagerSharedLock
    eLock,        \* the lock a connection holds on the file
    cache,        \* the pages of its cache
    dirty,        \* those it changed and did not write to the file yet
    version       \* what its transaction writes

vars == <<db, disk, journal, kept, eState, eLock, cache, dirty, version>>
files == <<db, disk, journal, kept>>

(* exists: whether there is a file; hot: whether its first byte is not     *)
(* zero, that is, whether a header was completed; size: the pages of the   *)
(* database before the transaction; counted: the records that the headers  *)
(* count; tail: those behind them.                                         *)
Journal == [exists : BOOLEAN, hot : BOOLEAN, size : 0 .. NPages,
            counted : [Pages -> Value], tail : [Pages -> Value]]

NoPages == [g \in Pages |-> None]
NothingCached == [g \in Pages |-> NotCached]
NoJournal == [exists |-> FALSE, hot |-> FALSE, size |-> 0,
              counted |-> NoPages, tail |-> NoPages]

Reading == {"READER"}
Writing == {"WRITER_LOCKED", "WRITER_CACHEMOD", "WRITER_DBMOD", "WRITER_FINISHED"}
States == {"OPEN", "seen", "unreserved", "hot", "playback", "ERROR"} \cup Reading \cup Writing
Locks == {"NO", "SHARED", "RESERVED", "PENDING", "EXCLUSIVE"}

Others(p) == Pagers \ {p}

-----------------------------------------------------------------------------
(* Content *)

SizeOf(pages) == Max({0} \cup {g \in Pages : pages[g] # None})

(* The pages after journal j was played back: what was added is cut off,   *)
(* what was recorded is restored.                                          *)
PlayedBack(j, pages) ==
    [g \in Pages |-> IF g > j.size THEN None
                     ELSE IF j.counted[g] # None THEN j.counted[g]
                     ELSE pages[g]]

(* What the next connection will make of the file.  A journal next to a    *)
(* file without pages is deleted.                                          *)
Recovered(j, pages) ==
    IF j.exists /\ j.hot /\ SizeOf(pages) > 0 THEN PlayedBack(j, pages) ELSE pages

(* What connection p sees. *)
Image(p) == [g \in Pages |-> IF cache[p][g] = NotCached THEN db[g] ELSE cache[p][g]]

InUse == UNION {{f[g] : g \in Pages} :
                f \in {db, disk, journal.counted, journal.tail, kept.counted}
                      \cup {cache[p] : p \in Pagers}}

-----------------------------------------------------------------------------
Init ==
    /\ \E v \in Versions : db = [g \in Pages |-> IF g = 1 THEN v ELSE None]
    /\ disk = db
    /\ journal = NoJournal
    /\ kept = NoJournal
    /\ eState = [p \in Pagers |-> "OPEN"]
    /\ eLock = [p \in Pagers |-> "NO"]
    /\ cache = [p \in Pagers |-> NothingCached]
    /\ dirty = [p \in Pagers |-> {}]
    /\ version = [p \in Pagers |-> None]

-----------------------------------------------------------------------------
(* The locks *)

CanShare(p) == \A q \in Others(p) : eLock[q] \notin {"PENDING", "EXCLUSIVE"}
CanReserve(p) == \A q \in Others(p) : eLock[q] \in {"NO", "SHARED"}
CanExclude(p) == \A q \in Others(p) : eLock[q] = "NO"

(* sqlite3OsCheckReservedLock *)
IsReserved(p) == \E q \in Others(p) : eLock[q] \notin {"NO", "SHARED"}

-----------------------------------------------------------------------------
(* sqlite3PagerSharedLock and hasHotJournal *)

(* Mutant: the version of the file is not compared. *)
MutantValidated(p, pages) == [cache[p] EXCEPT ![1] = pages[1]]

(* The cache as the connection goes on to read: it is dropped when the     *)
(* version on page 1 has changed, and page 1 is read.                      *)
Validated(p, pages) ==
    IF cache[p][1] \in {NotCached, pages[1]}
    THEN [cache[p] EXCEPT ![1] = pages[1]]
    ELSE [NothingCached EXCEPT ![1] = pages[1]]

(* Connection p becomes a reader of these pages. *)
Admit(p, pages) ==
    /\ eState' = [eState EXCEPT ![p] = "READER"]
    /\ eLock' = [eLock EXCEPT ![p] = "SHARED"]
    /\ cache' = [cache EXCEPT ![p] = Validated(p, pages)]

(* The lock, and the look whether there is a journal. *)
SharedLock(p) ==
    /\ eState[p] = "OPEN" /\ CanShare(p)
    /\ \/ ~journal.exists /\ Admit(p, db)
       \/ /\ journal.exists
          /\ eState' = [eState EXCEPT ![p] = "seen"]
          /\ eLock' = [eLock EXCEPT ![p] = "SHARED"]
          /\ UNCHANGED cache
    /\ UNCHANGED <<files, dirty, version>>

(* Somebody who holds a RESERVED lock is writing that journal. *)
CheckReserved(p) ==
    /\ eState[p] = "seen"
    /\ \/ IsReserved(p) /\ Admit(p, db)
       \/ /\ ~IsReserved(p)
          /\ eState' = [eState EXCEPT ![p] = "unreserved"]
          /\ UNCHANGED <<eLock, cache>>
    /\ UNCHANGED <<files, dirty, version>>

(* A journal next to a file without pages: it is deleted under a RESERVED  *)
(* lock, or left alone where another has that.  Nothing is synced, also    *)
(* where the file is one that was just truncated.                          *)
DeleteRemnant(p) ==
    /\ eState[p] = "unreserved" /\ SizeOf(db) = 0
    /\ \/ /\ CanReserve(p)
          /\ journal' = NoJournal
          /\ disk' = IF TruncatesFirst THEN db ELSE disk
       \/ ~CanReserve(p) /\ UNCHANGED <<journal, disk>>
    /\ Admit(p, db)
    /\ UNCHANGED <<db, kept, dirty, version>>

(* The first byte.  A journal that has gone meanwhile is taken for hot.    *)
ReadFirstByte(p) ==
    /\ eState[p] = "unreserved" /\ SizeOf(db) > 0
    /\ \/ journal.exists /\ ~journal.hot /\ Admit(p, db)
       \/ /\ journal.exists => journal.hot
          /\ eState' = [eState EXCEPT ![p] = "hot"]
          /\ UNCHANGED <<eLock, cache>>
    /\ UNCHANGED <<files, dirty, version>>

(* The EXCLUSIVE lock, and the look whether the journal is still there.    *)
(* Without the lock the connection gives up.                               *)
LockHot(p) ==
    /\ eState[p] = "hot"
    /\ \/ /\ CanExclude(p) /\ journal.exists
          /\ eState' = [eState EXCEPT ![p] = "playback"]
          /\ eLock' = [eLock EXCEPT ![p] = "EXCLUSIVE"]
          /\ cache' = [cache EXCEPT ![p] = NothingCached]
       \/ CanExclude(p) /\ ~journal.exists /\ Admit(p, db)
       \/ /\ ~CanExclude(p)
          /\ eState' = [eState EXCEPT ![p] = "OPEN"]
          /\ eLock' = [eLock EXCEPT ![p] = "NO"]
          /\ UNCHANGED cache
    /\ UNCHANGED <<files, dirty, version>>

-----------------------------------------------------------------------------
(* pager_playback, of a hot journal and of the own one *)

Truncated(j, pages) == [g \in Pages |-> IF g > j.size THEN None ELSE pages[g]]

(* The pages that were added are cut off. *)
Truncate(p) ==
    /\ eState[p] = "playback" /\ journal.hot
    /\ db # Truncated(journal, db)
    /\ db' = Truncated(journal, db)
    /\ UNCHANGED <<disk, journal, kept, eState, eLock, cache, dirty, version>>

(* A page is restored. *)
Restore(p, g) ==
    /\ eState[p] = "playback" /\ journal.hot
    /\ db = Truncated(journal, db) /\ db[g] # PlayedBack(journal, db)[g]
    /\ db' = [db EXCEPT ![g] = PlayedBack(journal, db)[g]]
    /\ UNCHANGED <<disk, journal, kept, eState, eLock, cache, dirty, version>>

(* Mutant: the journal is deleted before the file was synced. *)
MutantSynced(pages) == disk

(* sqlite3PagerSync *)
Synced(pages) == pages

(* All is restored: sync, delete the journal, become a reader. *)
EndPlayback(p) ==
    /\ eState[p] = "playback"
    /\ journal.hot => db = PlayedBack(journal, db)
    /\ disk' = Synced(db)
    /\ journal' = NoJournal
    /\ eState' = [eState EXCEPT ![p] = "READER"]
    /\ eLock' = [eLock EXCEPT ![p] = "SHARED"]
    /\ cache' = [cache EXCEPT ![p] = [NothingCached EXCEPT ![1] = db[1]]]
    /\ dirty' = [dirty EXCEPT ![p] = {}]
    /\ version' = [version EXCEPT ![p] = None]
    /\ UNCHANGED <<db, kept>>

-----------------------------------------------------------------------------
(* Reading *)

(* A page is read. *)
Get(p, g) ==
    /\ eState[p] \in Reading \cup Writing
    /\ cache[p][g] = NotCached /\ g <= SizeOf(Image(p))
    /\ cache' = [cache EXCEPT ![p][g] = db[g]]
    /\ UNCHANGED <<files, eState, eLock, dirty, version>>

(* The last page is released; the cache stays. *)
Release(p) ==
    /\ eState[p] = "READER"
    /\ eState' = [eState EXCEPT ![p] = "OPEN"]
    /\ eLock' = [eLock EXCEPT ![p] = "NO"]
    /\ UNCHANGED <<files, cache, dirty, version>>

-----------------------------------------------------------------------------
(* Writing *)

(* sqlite3PagerBegin *)
Begin(p) ==
    /\ eState[p] = "READER" /\ CanReserve(p)
    /\ eState' = [eState EXCEPT ![p] = "WRITER_LOCKED"]
    /\ eLock' = [eLock EXCEPT ![p] = "RESERVED"]
    /\ \E v \in Versions \ InUse : version' = [version EXCEPT ![p] = v]
    /\ UNCHANGED <<files, cache, dirty>>

(* Mutant: the size is taken one page too large. *)
MutantOpened(p) ==
    IF eState[p] = "WRITER_LOCKED"
    THEN [NoJournal EXCEPT !.exists = TRUE, !.size = SizeOf(db) + 1] ELSE journal

(* pager_open_journal, with a header that counts nothing yet.  A journal   *)
(* that is not hot is overwritten.                                         *)
Opened(p) ==
    IF eState[p] = "WRITER_LOCKED"
    THEN [NoJournal EXCEPT !.exists = TRUE, !.size = SizeOf(db)] ELSE journal

(* The journal once page g is in it, which is needed if the page was in    *)
(* the file before.                                                        *)
Recorded(j, g, v) ==
    IF g > j.size \/ j.counted[g] # None \/ j.tail[g] # None THEN j
    ELSE [j EXCEPT !.tail[g] = v]

(* sqlite3PagerWrite, and the change that follows; the file grows by one   *)
(* page at a time.  Page 1 has the change counter, so that every           *)
(* transaction writes it.                                                  *)
Write(p, g) ==
    /\ eState[p] \in {"WRITER_LOCKED", "WRITER_CACHEMOD", "WRITER_DBMOD"}
    /\ g <= SizeOf(Image(p)) + 1 /\ Image(p)[g] # version[p]
    /\ journal' = Recorded(Opened(p), g, Image(p)[g])
    /\ eState' = [eState EXCEPT ![p] = IF @ = "WRITER_LOCKED" THEN "WRITER_CACHEMOD" ELSE @]
    /\ cache' = [cache EXCEPT ![p][g] = version[p]]
    /\ dirty' = [dirty EXCEPT ![p] = @ \cup {g}]
    /\ UNCHANGED <<db, disk, kept, eLock, version>>

(* sqlite3PagerExclusiveLock: others may still read, which leaves the      *)
(* PENDING lock, or none does.                                             *)
ExclusiveLock(p) ==
    /\ eState[p] = "WRITER_CACHEMOD" /\ eLock[p] # "EXCLUSIVE"
    /\ eLock' = [eLock EXCEPT ![p] = IF CanExclude(p) THEN "EXCLUSIVE" ELSE "PENDING"]
    /\ UNCHANGED <<files, eState, cache, dirty, version>>

Counted(j) ==
    [j EXCEPT !.hot = TRUE, !.tail = NoPages,
              !.counted = [g \in Pages |-> IF j.tail[g] # None THEN j.tail[g] ELSE @[g]]]

(* syncJournal: the records are synced, then the header is completed, then *)
(* synced.  A crash in between leaves what it leaves before or after.  The *)
(* first sync of a journal syncs the directory with its name.              *)
SyncJournal(p) ==
    /\ eState[p] \in {"WRITER_CACHEMOD", "WRITER_DBMOD"} /\ eLock[p] = "EXCLUSIVE"
    /\ eState[p] = "WRITER_CACHEMOD" \/ journal.tail # NoPages
    /\ journal' = Counted(journal)
    /\ kept' = Counted(journal)
    /\ eState' = [eState EXCEPT ![p] = "WRITER_DBMOD"]
    /\ UNCHANGED <<db, disk, eLock, cache, dirty, version>>

(* PGHDR_NEED_SYNC *)
NeedSync(g) == journal.tail[g] # None

(* pager_write_pagelist, and pagerStress that writes one page early.       *)
WritePage(p, g) ==
    /\ eState[p] = "WRITER_DBMOD"
    /\ g \in dirty[p] /\ ~NeedSync(g)
    /\ db' = [db EXCEPT ![g] = cache[p][g]]
    /\ dirty' = [dirty EXCEPT ![p] = @ \ {g}]
    /\ UNCHANGED <<disk, journal, kept, eState, eLock, cache, version>>

(* The end of sqlite3PagerCommitPhaseOne: every page, the change counter   *)
(* among them, was written, and the file is synced.                        *)
CommitPhaseOne(p) ==
    /\ eState[p] = "WRITER_DBMOD" /\ dirty[p] = {}
    /\ cache[p][1] = version[p]
    /\ disk' = Synced(db)
    /\ eState' = [eState EXCEPT ![p] = "WRITER_FINISHED"]
    /\ UNCHANGED <<db, journal, kept, eLock, cache, dirty, version>>

(* sqlite3PagerCommitPhaseTwo: the journal is deleted.  The directory is   *)
(* not synced: the power can bring the journal back.                       *)
CommitPhaseTwo(p) ==
    /\ eState[p] = "WRITER_FINISHED"
    /\ journal' = NoJournal
    /\ eState' = [eState EXCEPT ![p] = "READER"]
    /\ eLock' = [eLock EXCEPT ![p] = "SHARED"]
    /\ version' = [version EXCEPT ![p] = None]
    /\ UNCHANGED <<db, disk, kept, cache, dirty>>

(* The deletion raises: the lock is given up all the same. *)
CommitFails(p) ==
    /\ eState[p] = "WRITER_FINISHED"
    /\ eState' = [eState EXCEPT ![p] = "ERROR"]
    /\ eLock' = [eLock EXCEPT ![p] = "SHARED"]
    /\ UNCHANGED <<files, cache, dirty, version>>

(* sqlite3PagerRollback before the file was touched, or a commit of        *)
(* nothing: only the cache is restored, and the journal deleted if this    *)
(* transaction opened it.                                                  *)
RollbackCache(p) ==
    /\ eState[p] \in {"WRITER_LOCKED", "WRITER_CACHEMOD"}
    /\ journal' = IF eState[p] = "WRITER_CACHEMOD" THEN NoJournal ELSE journal
    /\ cache' = [cache EXCEPT ![p] =
           [g \in Pages |-> IF g \in dirty[p]
                            THEN (IF db[g] = None THEN NotCached ELSE db[g]) ELSE @[g]]]
    /\ eState' = [eState EXCEPT ![p] = "READER"]
    /\ eLock' = [eLock EXCEPT ![p] = "SHARED"]
    /\ dirty' = [dirty EXCEPT ![p] = {}]
    /\ version' = [version EXCEPT ![p] = None]
    /\ UNCHANGED <<db, disk, kept>>

(* sqlite3PagerRollback after it was: the journal is played back. *)
RollbackFile(p) ==
    /\ eState[p] \in {"WRITER_DBMOD", "WRITER_FINISHED"}
    /\ eState' = [eState EXCEPT ![p] = "playback"]
    /\ UNCHANGED <<files, eLock, cache, dirty, version>>

(* An operation on the files raises while the journal is played back. *)
PlaybackFails(p) ==
    /\ eState[p] = "playback"
    /\ eState' = [eState EXCEPT ![p] = "ERROR"]
    /\ UNCHANGED <<files, eLock, cache, dirty, version>>

-----------------------------------------------------------------------------
(* The connection forgets everything, and its journal is left.  Nobody     *)
(* else reads records that no header counts.                               *)
Forget(p) ==
    /\ eState' = [eState EXCEPT ![p] = "OPEN"]
    /\ eLock' = [eLock EXCEPT ![p] = "NO"]
    /\ cache' = [cache EXCEPT ![p] = NothingCached]
    /\ dirty' = [dirty EXCEPT ![p] = {}]
    /\ version' = [version EXCEPT ![p] = None]
    /\ journal' = IF eState[p] \in Writing \cup {"playback", "ERROR"}
                  THEN [journal EXCEPT !.tail = NoPages] ELSE journal

(* pager_unlock in the error state *)
UnlockError(p) ==
    /\ eState[p] = "ERROR"
    /\ Forget(p)
    /\ UNCHANGED <<db, disk, kept>>

(* The process is killed; the other connections of it, if it has any, are  *)
(* killed by steps of their own.                                           *)
Crash(p) ==
    /\ eState[p] # "OPEN" \/ cache[p] # NothingCached
    /\ Forget(p)
    /\ UNCHANGED <<db, disk, kept>>

(* Of each page the disk has what was synced or what was written since,    *)
(* and a journal whose creation or deletion was not synced may be there or *)
(* not.                                                                    *)
PowerLoss ==
    /\ \E S \in SUBSET Pages :
           db' = [g \in Pages |-> IF g \in S THEN db[g] ELSE disk[g]]
    /\ disk' = db'
    /\ journal' \in {kept} \cup (IF journal.hot THEN {} ELSE {NoJournal})
    /\ kept' = journal'
    /\ eState' = [p \in Pagers |-> "OPEN"]
    /\ eLock' = [p \in Pagers |-> "NO"]
    /\ cache' = [p \in Pagers |-> NothingCached]
    /\ dirty' = [p \in Pagers |-> {}]
    /\ version' = [p \in Pagers |-> None]

(* The file is removed while nobody has it open, but not its journal, and  *)
(* the next connection makes a new one.                                    *)
Remove ==
    /\ \A p \in Pagers : eState[p] = "OPEN" /\ cache[p] = NothingCached
    /\ db # NoPages
    /\ db' = NoPages
    /\ disk' = NoPages
    /\ UNCHANGED <<journal, kept, eState, eLock, cache, dirty, version>>

-----------------------------------------------------------------------------
Step(p) ==
    \/ SharedLock(p) \/ CheckReserved(p) \/ DeleteRemnant(p) \/ ReadFirstByte(p)
    \/ LockHot(p) \/ Truncate(p) \/ EndPlayback(p) \/ Release(p) \/ Begin(p)
    \/ \E g \in Pages : Restore(p, g) \/ Get(p, g) \/ Write(p, g) \/ WritePage(p, g)
    \/ ExclusiveLock(p) \/ SyncJournal(p) \/ CommitPhaseOne(p) \/ CommitPhaseTwo(p)
    \/ CommitFails(p) \/ RollbackCache(p) \/ RollbackFile(p) \/ PlaybackFails(p)
    \/ UnlockError(p) \/ Crash(p)

Next == (\E p \in Pagers : Step(p)) \/ PowerLoss \/ Remove

Spec == Init /\ [][Next]_vars

(* The same while the power stays: processes are killed and operations on  *)
(* the files raise, but what was written is there.                         *)
KillSpec == Init /\ [][(\E p \in Pagers : Step(p)) \/ Remove]_vars

-----------------------------------------------------------------------------
(* Properties *)

TypeOK ==
    /\ db \in [Pages -> Value] /\ disk \in [Pages -> Value]
    /\ journal \in Journal /\ kept \in Journal
    /\ eState \in [Pagers -> States] /\ eLock \in [Pagers -> Locks]
    /\ cache \in [Pagers -> [Pages -> Value \cup {NotCached}]]
    /\ dirty \in [Pagers -> SUBSET Pages]
    /\ version \in [Pagers -> Value]

Content == Recovered(journal, db)
Previous == Recovered(kept, db)

(* A connection that reads sees one committed content, whatever it had in  *)
(* its cache from before and whatever others write meanwhile.              *)
ReadersSeeCommitted ==
    \A p \in Pagers : eState[p] = "READER" => Image(p) = Content

(* What the transaction of a connection makes of the content. *)
Own == [p \in Pagers |-> IF eState[p] \in Writing THEN Image(p) ELSE NothingCached]

(* The file is an atomic one: whatever is killed, fails or loses its power *)
(* and whenever, the next connection finds what one transaction made of    *)
(* what it began with.                                                     *)
Atomic == INSTANCE AtomicFile WITH
    Clients <- Pagers, Contents <- [Pages -> Value], Empty <- NoPages,
    NoTransaction <- NothingCached,
    content <- Content, previous <- Previous, own <- Own
ImplementsAtomicFile == Atomic!Spec

(* While the power stays no commit is taken back, by no kill and no error, *)
(* and also not by the journal that a killed connection left.              *)
CommitsStay == Atomic!PoweredSpec
=============================================================================
