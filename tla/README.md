# A verification of the encrypted database module

This directory holds TLA+ specifications of `appcelerator.encrypteddatabase`, a
Titanium module that gives a JavaScript application SQLite databases encrypted
with SQLCipher, on Android (Java) and on iOS (Objective-C), the TLC
configurations that check them on small instances, and theorems about them that
TLAPS proves for all instances.

Source paths below are relative to `src/`; `DBProxy.m`, `ResultSetProxy.m` and
`Module.m` stand for the files with the prefix `AppceleratorEncrypteddatabase`
in `ios/Classes/`, and `EncPL...` for those in `ios/Classes/PlausibleDatabase/`.

## The system

| part | source | state | operations |
|---|---|---|---|
| Android module | `EncrypteddatabaseModule.java` | the password, the settings object; on disk, for each name, the database, the file a migration exports to (`.appc.migrated`) and the properties file that records the settings | `password`, `hmacAlgorithm`, `hmacKdfIterations`, `pageSize`, `open`, `install` |
| Android settings | `TiDatabaseSettings.java`, `TiHashAlgorithmType.java` | hash algorithm, KDF iterations, page size | setters, `from`, `toProperties`, `applyTo`, `toDatabaseHook` |
| Android database proxy | `TiDatabaseProxy.java` | the connection | `execute`, `close`, `remove`, `lastInsertRowId`, `rowsAffected` |
| Android result set | `TiResultSetProxy.java` | a cursor and the last exception | `next`, `isValidRow`, `field`, `fieldByName`, `fieldCount`, `rowCount`, `close` |
| iOS module object | `Module.m` | the password, two cipher settings | setters, `open`, `install`, `cipherUpgrade`, `isCipherUpgradeRequired` |
| iOS database proxy | `DBProxy.m` | the database object, the list of open result sets, the variable `isNewDatabase`; on disk one directory of databases with a `.version` file each, `temp.db`, and the directory of the oldest release | `open:`, `install:`, `cipherUpgrade:`, `execute:`, `close:`, `remove:` |
| PlausibleDatabase | `EncPLSqliteDatabase.m`, `EncPLSqlitePreparedStatement.m`, `EncPLSqliteResultSet.m` | connection, prepared statement and cursor, each reference-counted | `openAndReturnError:`, `openAndMigrate:`, `prepareStatement:`, `next`, `close`, `dealloc` |
| iOS result set proxy | `ResultSetProxy.m` | a result set, its first count, whether it is on a row | `next`, `rowCount`, `field...`, `close`, `dealloc` |
| examples, build hook, API docs, one boundary test | `example/`, `ios/hooks/`, `apidoc/`, `test/` | none | not modelled |
| SQLite, the pager | `ios/sqlite3.c` | for each connection a state, a lock and a cache of pages; on disk the file and its rollback journal | reading, `sqlite3PagerWrite`, commit in two phases, rollback, hot-journal recovery |
| SQLite and SQLCipher, shared caches | `ios/sqlite3.c` | the list of shared caches of the process, each with one open file and one codec context | opening and closing a path, keying, reading, writing, `ATTACH`, `sqlcipher_export` |
| the rest of SQLite and SQLCipher | `ios/sqlite3.c`, a patch | | not modelled |

How they interact: JavaScript sets properties of the module object and calls
`open` or `install`, which reads what the disk records of the database, decides
whether to migrate it, does so, and hands out a database proxy.  `execute` on
the proxy makes result set proxies.  The settings travel from the module object
to the disk (properties file, version file) and come back in a later process.

### What is hard

* **A call is many effects on several files**, and the process can die between
  any two of them, or one can fail.  A migration on Android exports, deletes,
  renames and rewrites the properties; on iOS it rewrites the version file,
  exports to `temp.db`, removes and moves.  What a dead call left is found by
  the next one, under other settings or, on iOS, for another name.
* **Connections share more than a file.**  The iOS module enables SQLite's
  shared cache: all connections to a path of one process use one open file and
  one codec context, whatever passwords they were opened with, and `remove()`
  and migrations unlink files under them.
* **A result set on Android is a window on a query**, which is run again when
  the cursor leaves the window, on a table that has changed since.
* **That a statement is atomic is itself an algorithm**: a journal whose header
  and records are synced in order, locks in five levels, and three looks at the
  file system to decide whether a journal is hot.
* **What the disk records and what the file is can drift apart**, because the
  record is written at another moment than the file, and because a connection
  may not use the settings it was given.
* **Nothing reads the connection `open` returns**: a wrong password shows later.
* **Objects on iOS are freed by three parties**: the proxies' `close`, the
  garbage collector and the autorelease pool.  The connection can only close
  when every statement on it has been finalised.

### What makes each part correct

* Settings: whatever is assigned or read back is acceptable to SQLCipher; the
  page size is the least valid one that holds what was asked; what is written is
  read back.
* The stores: no committed row leaves the disk unless the application removes
  the database; no call changes a file under another password than its own; what
  replaces a database is encrypted under the password in force; a connection
  that was opened reads its file; a migration that was interrupted is completed.
* The statements: an open result set never uses a finalised statement or a
  closed connection; a connection is open only while someone will close it;
  `close()` closes it, at once or in the end.
* The Android result set: a row that is read is the query's, none comes twice,
  a loop ends.
* The shared caches: no file is written under two ciphers; a connection that has
  read its file goes on reading it; nothing is written into a file with pages
  that no name leads to; what a migration leaves is encrypted as the call was
  told.
* The pager: a reader sees one committed content; the file changes by whole
  transactions, whatever is interrupted.

## The modules

| module | what it is |
|---|---|
| `CipherSettings` | `TiDatabaseSettings` and `TiHashAlgorithmType` as operators: the setters with their clamps, the page-size loop, the settings of each SQLCipher generation, the properties written and read.  No variables; `AndroidStore` has the settings object the application assigns to and the file it is stored in. |
| `AndroidStore` | the three files of one name on Android and every call that touches them, one action per effect; `pc` is where the running call stands.  Extends `CipherSettings`. |
| `IosStore` | the directory of databases on iOS, for several names, in the same style. |
| `DurableStore` | what both stores promise: rows come by commits and leave by `remove()`.  `AndroidStore` and `IosStore` implement it (`INSTANCE DurableStore WITH stored <- ...`: all rows in the database files and in the file a migration exports to). |
| `IosStatements` | the statements, result sets and proxies of one database proxy on iOS, and the connection under them. |
| `AndroidCursor` | the result sets of one database proxy on Android over windowed cursors, and the table they read. |
| `SharedCache` | several connections of one process to several paths on iOS: the shared caches, their codec contexts, the files and the names. |
| `Pager` | the rollback-journal pager, one action per step that another process or a crash can come after. |
| `AtomicFile` | what the pager promises: contents change by whole transactions, a loss of power takes back the last at most.  `Pager` implements it. |
| `MC...` | the values of the constants for TLC. |
| `..._proofs` | the theorems and their proofs. |

### `AndroidStore` and the code

`openDatabase` (`EncrypteddatabaseModule.java:215-349`) becomes: `Open`;
`Probe` for the five attempts, which open and read and write nothing (with
`ProbeUnreadableProperties` for the swallowed exception); `Attach`,
`ExportSchema`, `ExportRows` for `ATTACH` and `sqlcipher_export`;
`DeleteOldFile`, `RenameMigratedFile`; `Create` for the connection that is
returned; `TruncateProperties`, `StoreProperties`.  `StepFails` and
`PropertiesFail` are the error paths of those steps: the first raises, the
second is logged and the proxy is returned all the same.  `install` is
`Install`, `CopySome`, `CopyRest`, `CopyFails`, and `CopyUnflushed` for the
failing `close` of the copy that is swallowed, so that `install` goes on to open
an incomplete file.  The proxy's `execute` is one
step that commits a row.  `Crash` forgets everything but the disk.

A file is its kind, key, settings, whether it has the one table, and its rows.
`toDatabaseHook` returns a hook with empty methods, so `ConnectionSettings`
ignores the settings it is given: that is the code, not a simplification.
Only one name is modelled: no file of the module is shared between names.
`Stuck` are the two states of the files in which `open` raises: a copy that
`install` left incomplete, and an unencrypted database beside an
`.appc.migrated` with the table; `StuckForGood` says that no call, assignment,
failure or restart leads out of them.  `PropertiesOfProxy` relates the
properties file to the proxy an `open` returned, and so is about what the next
process takes the database for.  It is stated of applications that have one
proxy at a time and of file operations that succeed: with two proxies, `open`
under a wrong password can rewrite the file the first proxy relies on.

### `IosStore` and the code

`dbDir` is `CreateDir`, `MoveOldFile`, `MoveOldFileFails`, `RemoveOldDir` and
`RemoveOldDirFails`, after which the next call finds the directory again with
what was left in it; `install:` adds `Copy`; `needCipherMigrate:` is `Check`, which rewrites the
version file before anything is migrated; then `OpenDatabase`, or `Attach`,
`ExportSchema`, `ExportRows` (`openAndMigrate:`), `RemoveOldCopy`, `MoveNewCopy`
(`replaceOldCopy:`) and `OpenMigrated`.  `cipherUpgrade:` ends in
`UpgradeRaises`.  `Quit` is the end of a process between calls, `Crash` one
inside a call.  Several names are modelled because they share `temp.db`.

Assumptions: an application has one open connection to a name at a time, and the
connection of an `open` that raised is gone (`SharedCache` drops both);
`copyItemAtPath` leaves either nothing or the whole file; each database has a
table of its own name, so an export of one name into what another left does not
collide, which is the case in which rows can mix; a write through a connection
whose file was removed raises, which is what `SharedCache` shows of a file that
has pages.  `DataOnDisk` is stated with two exceptions, each a definition:
`NotMoved` (a file of the old directory that does not move is deleted with it)
and `OnlyOwnRowsRemoved` (after an interrupted migration one name may hold rows
of another, and removing it removes those).  `OpenUpdates` is what the
documentation says of databases of an older release: `open` updates them.  The
code does so only for those with a version file that says so.

### `IosStatements` and the code

A slot is one prepared statement with its result set and its proxy: `pooled`,
`listed` and `held` are the three references to it (the autorelease pool, the
array of the database proxy, the result set proxy).  `Retained` is `dealloc` of
what no one references; `Release` lets the database follow, which closes the
connection.  `Query`, `QueryRaises`, `BindRaises`, `Update`, `UpdateRaises` and
`ManyStatements` are the ways `execute:` ends; `LetGo` is what `close`, `next`
at the end and the garbage collector have in common.

Assumptions: one database proxy at a time, the next one when the objects of the
last are gone; `execute` on a closed proxy and text that does not compile change
nothing; the table only grows; after a `dealloc` that raises (`"deallocating"`)
nothing more is said of that process, because the behaviour is undefined.

### `AndroidCursor` and the code

`Query` is `TiDatabaseProxy.execute` of a query: `getCount` and `moveToFirst`
fill the first window.  `NextRow` and `NextRaises` are `TiResultSetProxy.next`,
`Field` the field readers, `CloseResult` and `Close` the two `close` methods;
`Insert` and `Delete` are statements executed meanwhile.  The cursor
(`WindowFrom`, `Capacity`, `StartFor`, `InWindow`, `Moved`) belongs to the
SQLCipher library for Android, which is not in the repository: it is modelled
from how the proxies use it and marked external.  Rows are numbered in the
order of insertion, which is that of the query.

### `SharedCache` and the code

A cache is the `BtShared` of a path with its pager, its open file and its
`codec_ctx`: `used` is `CIPHER_FLAG_KEY_USED` and `failed` its error.  `Open` is
`openAndReturnError:` as the module calls it; `Read` and `Write` are a statement
by what it does to the context (`AfterRead`: `sqlite3Codec`; `CanWrite`: page 1
is read, and `pager_open_journal` asks `databaseIsUnmoved`).  An `open` that
migrates is one step with four outcomes: `Migrate`, `MigrateUnread` (`ATTACH`
raises), `MigrateStops` (the export raises, and `temp.db` stays attached until
the connection is collected), `MigrateLosesName` (the export went into an
unlinked `temp.db`, and the move raises when the database is gone already).
`Remove`, `Install`, `Close` and `Restart` are what their names say.

Assumptions: a call is atomic (its steps and crashes are in `IosStore`, and
calls come from one thread); a page is its cipher, and a cipher is a password
with parameters, the salt being read from the file; a transaction rewrites some
pages or all; there are as many files as `Inodes`, and one that was written is
not used again.

### `Pager`, `AtomicFile` and the code

`eState` and `eLock` are the fields of `Pager`; three states more are the points
of `sqlite3PagerSharedLock` between which it looks at the file system (`seen`,
`unreserved`, `hot`), and `playback` is the inside of `pager_playback`.  `db` and
`journal` are the files as processes see them, `disk` and `kept` what a loss of
power leaves: of each page what was synced or what was written since; of the
journal what was synced last, or nothing if no header was completed; and one
that was deleted may come back, because its deletion is not synced.  `Crash`
kills one connection at any step.  `PlaybackFails` and `CommitFails` are
operations that raise.

`AtomicFile` is implemented with `content` as what the next connection would make
of the file and journal, `previous` as what it would after a loss of power, and
`own` as what a running transaction makes of it.  A transaction there is the
single step (`Execute`, `Write`, `ExportRows`) that the stores take it for.

Assumptions: `journal_mode` is `DELETE` and `synchronous` `FULL` (the module sets
neither); a header sector is written whole; a transaction writes a version that
no page, cache or journal holds (each encrypted page has a new random vector),
and it writes page 1, which has the change counter; no transaction makes the
file shorter; write-ahead logs, savepoints, super-journals and the sub-journal
are left out.  `TruncatesFirst` is an assumption on the file system, named as a
constant: a truncation reaches the disk before a later deletion does.  Without
it TLC finds that a journal deleted next to a file that was just truncated to
nothing is gone after a loss of power while pages of the file are back.  While
the power stays (`KillSpec`: connections are killed and fail at any step)
nothing is assumed, and the pager implements more: `CommitsStay` is the
`PoweredSpec` of `AtomicFile`, in which no step takes a commit back.

## The runs

| run | configuration | what it shows |
|---|---|---|
| `android_crash` | `MCAndroidStore_crash.cfg` | `DataOnDisk`, `MigrationEncrypts`, `WrongPasswordChangesNothing`, `ImplementsDurable`; that no combination of files leaves a call or the next `open` without a step (`NeverStuck`), and in which it never again returns a proxy (`StuckForGood`); that the properties file records the settings of the open proxy (`PropertiesOfProxy`) |
| `android_defaults` | `MCAndroidStore_defaults.cfg` | with one password and default settings, what `open` returns reads the file (`ReturnedProxyReads`), a migration that stopped early is completed (`InterruptedMigrationResumes`), and an application that goes on opening gets a proxy that reads (`OpenGivesReadableProxy`); that the page size is least at every boundary of its argument (`PageSizeIsLeast`) |
| `ios_one_name` | `MCIosStore_one.cfg` | `DataOnDisk`, `MigratedConnectionReads`, `WrongPasswordChangesNothing`, from every beginning |
| `ios_two_names` | `MCIosStore_two.cfg` | `ImplementsDurable`; without interruptions `NamesKeepTheirRows` and `ConnectionsRead` |
| `ios_statements` | `MCIosStatements.cfg` | `OpenIsPrepared`, `ConnectionIsOwned`, `CloseCloses`, `ClosesAtLast`; that `rowCount` takes a cursor back only once (`CountedOnce`) |
| `android_cursor` | `MCAndroidCursor.cfg` | `RowsAreTheQuerys`, `SmallResultIsSnapshot`, `RowsComeOnce`, `LoopsEnd`, in every interleaving of a loop with statements, a fill that raises and the closing of the database |
| `shared_cache` | `MCSharedCache.cfg` | `FileHasOneCipher`, `UsedContextReads`, `NamedWritesOnly`, `FreshOpenIsNamed`, `ReplacedAsGiven` |
| `pager` | `MCPager.cfg` | `ReadersSeeCommitted`, `ImplementsAtomicFile`, with losses of power, if `TruncatesFirst` |
| `android_settings`, `android_retry`, `ios_password`, `ios_older` | `MCAndroidStore_settings.cfg`, `MCAndroidStore_retry.cfg`, `MCIosStore_password.cfg`, `MCIosStore_older.cfg` | each a disagreement with what the repository says: see below |

### Bounds, and why they are enough

* Android: two rows (one of them in installed and older databases), one or two
  passwords, at most two crashes, two failing operations and two removals.  A
  second crash is needed because a migration must die, be tried again and die
  again; a third finds only states the second could have left, since a restart
  keeps nothing but the three files, each of which has few shapes.  Integer
  arguments are chosen at the clamps: 3999 for the iterations (below the
  minimum), hash identifiers 1, 3 and 4 (4 names none), page sizes 2049 and
  4096 (the first is rounded to the second, the default); `PageSizeIsLeast` also
  tries every valid page size (512 to 65536) and both its neighbours.  `android_crash` has
  4,110,305 states, `android_defaults` 45,399.
* iOS: one name with two passwords and two rows, or two names with one row each
  and one password; a crash, a failing operation and a removal.  Two names are
  the least that share `temp.db`; one password is enough there because
  `ios_one_name` covers passwords.  KDF iterations are assigned at both sides of
  their limits (3999, 256001).  Beginnings: nothing on the disk; databases that
  version files describe; databases without them; databases in the old
  directory.
* Statements: two slots, so that one statement is open while another is closed,
  raised or leaked, and at most two rows, so that a cursor has a row before, on
  and after it.
* Android cursor: one result set (result sets of one table do not see each
  other), windows of three rows, up to six rows: a window of three keeps one row
  before the one it is filled for, and six rows need a second and a third fill.
* Shared caches: two names, two connections, two passwords, two parameter sets
  and three files (two of the names and `temp.db`; an unlinked file that a
  connection still has is the third).  609,936 states.
* Pager: two connections, three pages and three versions: a file of one page can
  grow twice, or a page be rewritten while another is added; three versions
  because two connections and the file can differ.  189,017 states.  The run
  was also made with four versions of two pages (20,441 states) and with three
  connections on two pages (139,140 states), and of `KillSpec` without
  `TruncatesFirst`, with `CommitsStay` (181,078 states).
* `ios_one_name` has 2,086,788 states and `ios_two_names` 6,452,561.

The counters `crashes`, `faults` and `removals` exist only to bound those
events; the theorems hold for any bound.

### Fairness

* `AndroidStore!LiveSpec`: weak fairness of `CallStep` (a call that has begun
  runs on its thread to the end, unless the process dies) and of `Open` (the
  application goes on opening its database).  Nothing else is fair: no
  statement need ever be executed and no property be assigned.
* `IosStatements!LiveSpec`: weak fairness of `Drain` (the pool drains at the end
  of each event) and of `CloseResult(i)` (a result set proxy is closed, or
  collected when JavaScript no longer refers to it).  An application that keeps
  a result set for ever is outside it.
* `AndroidCursor!LiveSpec`: weak fairness of `NextRow(i)`: an application that
  loops over a result set goes on calling `next`.

## What is proved

| module | theorem | statement |
|---|---|---|
| `CipherSettings_proofs` | `ValidPageSizeIsLeast`, `PropertiesRoundTrip`, `LostKeysAreDefaults` | for all integers: the page size is the least valid one, settings survive the properties file, and keys it lost are read as the defaults and no others |
| `AndroidStore_proofs` | `TypeCorrect`, `DataSafe`, `MigrationSafe`, `WrongPasswordSafe`, `Refinement`, `ReturnedReads`, `StuckStays`, `PageSizeCorrect`, `PropertiesRecorded`, `MigrationResumes`, `ReadableProxyGiven` | `TypeOK`, `DataOnDisk`, `MigrationEncrypts`, `WrongPasswordChangesNothing`, `ImplementsDurable`, `StuckForGood`, `PageSizeIsLeast`; with `OneProxy`, `PropertiesOfProxy`; with `DefaultsOnly`, `ReturnedProxyReads`; from `LiveSpec` and `NeverStuck`, `InterruptedMigrationResumes` and, with `DefaultsOnly`, `OpenGivesReadableProxy` |
| `AndroidCursor_proofs` | `TypeCorrect`, `RowsCorrect`, `SnapshotCorrect`, `OrderCorrect`, `LoopMovesOn` | `TypeOK`, `RowsAreTheQuerys`, `SmallResultIsSnapshot`, `RowsComeOnce`; from the fairness of `NextRow`, that a loop leaves every row it is on |
| `IosStore_proofs` | `TypeCorrect`, `DataSafe`, `MigratedReads`, `NamesSafe`, `WrongPasswordSafe`, `UnreachableStays`, `Refinement`, `ConnectionsCorrect` | `TypeOK`, `DataOnDisk`, `MigratedConnectionReads`, `NamesKeepTheirRows`, `WrongPasswordChangesNothing`, `UnreachableForGood`, `ImplementsDurable` (with `OldFilesMove`); with `OrdinaryUse`, `ConnectionsRead` |
| `IosStatements_proofs` | `TypeCorrect`, `OpenResultsCorrect`, `OwnershipCorrect`, `CloseCorrect`, `CountKept`, `StatementReleased` | `TypeOK`, `OpenIsPrepared`, `ConnectionIsOwned`, `CloseCloses`, `CountedOnce`; from the fairness of `Drain` and `CloseResult`, that after `close` every statement is released |
| `SharedCache_proofs` | `TypeCorrect`, `OneCipher`, `CipherKept`, `UsedReads`, `FreshOpens`, `WritesAreNamed`, `MigrationAsGiven` | `TypeOK`, `FileHasOneCipher`, `CipherIsKept`, `UsedContextReads`, `FreshOpenIsNamed`, `NamedWritesOnly`, `ReplacedAsGiven` |
| `Pager_proofs` | `TypeCorrect`, `ReadsCommitted`, `FileIsAtomic`, `ReadsCommittedWhenKilled`, `FileIsAtomicWhenKilled` | `TypeOK`; `ReadersSeeCommitted` and `ImplementsAtomicFile`, of `Spec` with `TruncatesFirst`, of `KillSpec` without it; `CommitsStay` of `KillSpec` |

They hold for any values of the constants under the modules' named assumptions:
the arguments are integers, the settings of older files are settings, the rows
of installed and older databases are rows, `AppGUID` is a key, the bounds are
naturals.  `Slots` need not even be finite.  Where the table says *with* an
assumption, the theorem has it as its hypothesis.

**Settings.** `CipherSettings_proofs` first shows that the loop of `setPageSize`
ends at the least valid size not below its argument (`LoopStops`,
`ValidPageSizeIsLeast`), that the setters keep the type and that reading what
`toProperties` wrote gives back the same object (`PropertiesRoundTrip`).  A key
that is there is read as it was written because what was stored is valid
(`LostKeysAreDefaults`, which assumes settings of the type).

**Android store.** `DataOnDisk` is not inductive: deleting the old file keeps it
only because the export is complete by then, and the rename, which overwrites
nothing, only because the old file is gone.  `Inv` adds `FileShapes` (only a
file with the table has rows; a migration leaves no unencrypted file) and
`MigrationProgress`, which says for each place of `pc` where a call finds the
files: from `attaching` to `replacing` an encrypted database has the password in
force, from `copying` on the target has the table, at `replacing` it holds
every row, at `renaming` there is no database file.  `DataSafe` and
`MigrationSafe` read off `Inv`; `WrongPasswordSafe` and `Refinement` take `Inv`
at each step and map it to `UNCHANGED`, and to `Commit`, `Remove` or a stutter of
`DurableStore`.  `StuckStays` needs of `Inv` the shapes of files: no attempt of `open`
reads such a file (`PlainProbe`), a migration raises on an incomplete copy and the
export beside an exported table (`StuckCall`), and without a proxy the
application can call nothing but `open` and `install`, which copies over no file
that exists (`StuckStep`).  `PropertiesRecorded` needs that no proxy is open while a
call runs (`Recorded`), which `OneProxy` gives; the file of the last call was
truncated or written in full, and in full is read as the settings of the proxy
(`PropertiesRoundTrip`).  `ReturnedReads` assumes one password and the default settings
(`DefaultsOnly`: with other settings a migrated file, with other passwords any
file, can be one that the proxy does not read) and adds
`DefaultFiles`: every encrypted file has those settings, a proxy is returned only
of such a file or of one without pages, and none is left on a name whose file is
gone or is being installed.

**Android, what must happen.** Two of the theorems are about liveness.  Of a
weakly fair action the prover knows that it is taken again and again if from some
time on it is possible; `ENABLED` it does not look into.  So `MigrationResumes`
and `ReadableProxyGiven` have `[]NeverStuck` as a hypothesis, an invariant that
says of which states a step of the call, or an `open`, is possible, and that
`android_crash` checks; everything else is proved, from `LiveSpec` and that there
is a proxy to return (`Proxies # {}`).  The argument
has the same three parts in both.  Once the budgets of crashes, failures and
removals are spent only `CallStep`, the calls of the application and its
assignments are left (`QuietStep`).  Within a call `pc` only goes forward
(`CallOrder`), so a call returns after at most as many steps as there are places (one
more for a copy that stops on its way), each of which is taken because of
fairness: no induction is needed, the order of the places is finite whatever the
constants are.  And an invariant says why the call reaches the goal.
For a migration it is `Resumable`: an unencrypted file is handed out by no call,
so that a slot for its next `open` stays free, and when the file is replaced the
export has been complete.  For `ReadableProxyGiven` it is `DefaultCalls`: with one
password and the default settings whatever the properties file holds reads as the
settings in force, so that only an unencrypted file is ever migrated; and either
a slot is free or an open proxy is linked.  `OpenGivesReadableProxy` itself
excepts two beginnings, in which the code never recovers: an `.appc.migrated` with
tables, left by a dead migration, beside which a database that is not encrypted
can never be opened, and a torn copy that no installation is going on with.

**Android cursor.** `Inv` adds that the table is in order, and of each result set
that its cursor is in range (`InRange`), that its query is either still the
beginning of the table or has lost a row for good (`IntactOrGone`), that as long
as it is intact the window shows it (`WindowShows`), that the window of a small
result is the whole query (`SmallKept`), and what makes rows come once: the
window is increasing (`WindowInOrder`), and no later fill can bring back a row
that was read, because deletions only move rows to the front (`ReadInOrder`).
`SnapshotCorrect` also says that `next` never runs the query of a small result
again, so that it cannot be affected by the closing of the database.
`LoopMovesOn` is a theorem about liveness: from row `k`, for every `k`, a loop
comes to row `k + 1` or to an end.  Its hypothesis is the fairness of `NextRow`
with the action's guard, `CanMove`, in place of `ENABLED`, which the prover does
not look into.  `LoopsEnd` is as many uses of it as the result has rows.  That
last induction is over data, and stays with TLC.

**iOS store.** `Inv` is `FilesInv /\ DataOnDisk /\ MigratedConnectionReads /\
NamesApart`.  `FilesInv` has the shapes of files (`FileShapes`), what each place
of a migration finds (`MigrationProgress`) and what is true while the old
directory exists (`OldDirectory`: until an operation fails, nothing is opened
before it is gone).  `Refinement` needs one assumption more,
`OldFilesMove`: there is no old directory or no operation fails; otherwise a
file of it that does not move takes its rows with it (`DBProxy.m:92`).
`ConnectionsCorrect` assumes one password, databases that their version files
describe and no `cipherUpgrade` (`OrdinaryUse`: each of the three is a way to a
version file that is wrong for good) and adds `VersionsTrue`: while nothing was
interrupted, a version file has the parameters of its file and of the open
connection, except for the name whose migration is running, where it is ahead of
the file.  `UnreachableStays` has no such assumption: it holds for every password,
setting and beginning, and shows how far the disagreement of `ios_older` goes
(`Unreachable`: an unencrypted database, or one of an old release whose version
file was rewritten by a migration that did not finish, or is missing).  Every
connection, and every record the module writes, has
the current page size (`ParamsCurrent`, an invariant of its own, and `RecordStep`),
and a version file is all that says otherwise of an old database: so a record
that is wrong about an old page size is never put right (`ParamsStep`), a
migration raises at `Attach`, where it tries the recorded parameters or a key on
an unencrypted file (`Unread`), and nothing but a migration that got further or a
`remove()` changes a file that no connection reads (`UnreadFileStep`).

**Shared caches.** The properties are almost inductive; `Inv` adds when a cache
is on the list (`UsedCachesLive`: exactly as long as a connection uses it) and
that a cache that lives has a file and a cipher, and, once used, is the only one
whose cipher the pages of its file have (`Sound`).  The action properties follow
from that and the guards of the steps: `CipherKept` because whoever writes has
read page 1 before, and so has the cipher of the pages (`StepKeepsCipher`).
`CipherIsKept` is not among the properties of the run, which found it to hold in
its 609,936 states before it was proved.

**iOS statements.** `OpenIsPrepared` and `ConnectionIsOwned` depend on each
other: a result set keeps its statement only if no step closes the connection
under it, and a connection that closes late is owned only through statements that
live.  `Inv` adds `HeldIsOpen` (a database proxy that holds its database has an
open connection) and `DeallocatingIsLeaked` (only a leaked statement makes a
`dealloc` raise).  `CloseCloses` needs `ClosedIsFinalized`: a result set that is
closed has let its statement go.  `CountKept` needs only the types: a step that
moves the cursor of a counted result set is `NextRow` or `NextRaises`, and every
other one leaves it as it is or closes it (`CountStep`).  `StatementReleased` is about liveness: once the
database proxy has let its database go, a statement only loses references
(`Lighter`, step by step in `SlotStep`), the pool drops its own when it drains
and the result set proxy when it is closed or collected, and a statement that no
one retains is freed at once (`Owned`).  Its two hypotheses are what weak fairness
says, with the guards of the two actions in place of `ENABLED`.

**Pager.** The invariant relates the file, the disk, the two journals, the locks
and the caches.  `LocksExclude` gives each state of a connection its lock and
excludes the others'.  Of the files: a journal that will be read back has been
synced, and without one the disk has what the file has (`KeptIs`); pages that the
journal does not have were not changed (`Undoable`); and the contents before and
after a loss of power are the same if their change counters are (`Contents`).
Of each connection: the journal it is writing holds the old page for each page
it changed (`Journalled`, `Recording`); what it cached and has not changed is
what the file has (`CacheRead`); nobody else has seen what it writes
(`Transaction`); and, the reason why a cache may be kept without a lock, one whose
change counter is that of the content is right (`CacheFresh`).  Then a reader's
image is the content.  For the refinement each step leaves both contents alone,
which makes it `Begin`, `Change` or `Abandon`, or is one of four: `SyncJournal` is
`Settle` (until then the last deletion could come back), `CommitPhaseTwo` is
`Commit`, `PowerLoss` and `Remove` are themselves.  `TruncatesFirst` is needed
where a power loss meets the deletion of a journal beside a truncated file, and
only there: what the invariant says of the disk it says of `OnDisk`, which is `disk`
under that assumption and otherwise the file itself, and it is inductive for the
steps `Considered`, a loss of power being one only under the assumption.
`ReadsCommittedWhenKilled` and `FileIsAtomicWhenKilled` follow from the same
invariant, so that for processes that are killed nothing is assumed of the file
system; the second maps each step to one of `Transact`, which leaves `PowerLoss`
out, and so also gives `CommitsStay`.

Only model-checked: `NeverStuck`, which says what is `ENABLED`; `LoopsEnd` and
`ClosesAtLast`, which are inductions over the rows of a result and over the
statements of a connection, but for the step of each (`LoopMovesOn`,
`StatementReleased`); and the four counterexamples below.

## Where the code and what is said of it differ

Each of these has a run whose counterexample shows it.

1. `android_settings` — the hook of `toDatabaseHook` is empty, so a new database
   is encrypted with SQLCipher's defaults whatever was assigned
   (`TiDatabaseSettings.java:187`); the properties file records what was
   assigned.  For the same reason no attempt of `open` can read a file of
   SQLCipher 2 or 3.
2. `android_retry` — a migration that dies inside the export leaves tables in
   `.appc.migrated`; every later `open` attaches it again and the export raises
   (`EncrypteddatabaseModule.java:310`).
3. `ios_password` — the version file is rewritten before the migration is tried;
   one `open` under a wrong password makes later ones under the right password
   return a connection that cannot read (`DBProxy.m:126`).
4. `ios_older` — a database of an older release without a version file is taken
   for one of the current format (`DBProxy.m:105`): `open` returns a connection
   to it and updates nothing, although `isCipherUpgradeRequired` says that it
   needs it (`:161`) and the documentation that `open` does it
   (`EncryptedDatabase.yml:43-44`).  The same counterexample exists for an
   unencrypted database, which `EncPLSqliteDatabase.m:292` means to retry without
   a key: the message it compares with is not the one the bundled SQLite gives
   (`sqlite3.c:195097`).  `UnreachableStays` proves that no later call puts it
   right.

Seen while modelling, and without a run of their own:

* Android: a process that dies between the deletion and the rename of a
  migration leaves a name that the next `open` creates anew, with the rows in
  `.appc.migrated` (`EncrypteddatabaseModule.java:327`); a migration replaces
  the file under an older proxy of that name (`:323`); rows deleted under a
  result larger than a window make a loop skip as many that were not deleted
  (`TiResultSetProxy.java:293`); with a proxy open, a second `open` under a wrong
  password can rewrite the properties file with settings the database does not
  have (`:338`).
* iOS, opening: `cipherUpgrade:` gives the database object no parameters, so its
  first statement is not SQL and it raises (`DBProxy.m:213`); no `open` migrates
  in the session that created the directory (`DBProxy.m:129`); a file that
  cannot be moved out of the old directory is deleted with it (`:92`).
* iOS, statements: a text of several statements leaks the first, and the
  connection never closes (`EncPLSqliteDatabase.m:731`); the first `rowCount`
  moves the cursor to the first row (`ResultSetProxy.m:204`).
* iOS, shared caches (`Module.m:31`): while one connection to a path has been
  used, `open` with any password gives one that reads it; a wrong password that
  is used first makes the right one fail until all connections to the path are
  closed; an `open` after `remove()`, and the connection a migration returns,
  join the removed file while another connection to it is open; a `temp.db` that
  a failed migration left attached gives its cipher to the next migration of any
  name; what is written into a removed file that has no pages is lost.
* iOS, journals: `remove:` leaves the journal of an interrupted transaction, so
  that a database installed under the name is rolled back with pages of the
  removed one (`DBProxy.m:391`); after an interrupted migration, removing one
  name can remove rows of another; a loss of power can undo the last commit,
  because the deletion of a journal is not synced (`sqlite3.c:47182`).

## Not modelled

* Conversions of column values and of bound parameters, on both platforms: pure
  functions that tests reach; `lastInsertRowId`, which narrows 64 bits to an
  `int`, and `rowsAffected`: they read SQLite and change nothing.
* The helpers of PlausibleDatabase the module does not call (transactions,
  `executeUpdate`, `tableExists`).
* The rest of `sqlite3.c`: the SQL compiler and the virtual machine, the B-tree,
  full-text search, JSON1, write-ahead logging, the memory allocators, the
  cryptographic primitives.  It is a vendored amalgamation of 220,000 lines, of
  which the module's behaviour turns on the pager, the shared cache and the
  codec, and those are modelled.  Counted in lines of C the models therefore
  cover a small part of the repository; of the module's own Java and Objective-C
  they cover nearly all that changes state.
* The file systems and the SQLCipher library for Android, whose sources are not
  in the repository: external, as used by the code.
* The examples (the Alloy sync adapter among them), the build hook and the
  documentation.

## What could come next

1. The write-ahead log, should the module ever set `journal_mode`.
2. The migrations of the Alloy sync adapter, which run in transactions over the
   module's API.
