---------------------------- MODULE AndroidStore ----------------------------
(***************************************************************************)
(* The files of one named database of the Android module and everything    *)
(* that creates, opens, migrates, writes and removes them:                 *)
(* EncrypteddatabaseModule.java and the parts of TiDatabaseProxy.java that *)
(* touch a file.                                                           *)
(*                                                                         *)
(* Three files live side by side: the database, the file a migration       *)
(* exports to (".appc.migrated") and the properties file that records the  *)
(* settings (".appc.properties").  open() and install() run on the one     *)
(* JavaScript thread, so no other call of the module interleaves with them,*)
(* but the process can die between any two of their effects and each file  *)
(* operation can fail: pc is where the running call stands.                *)
(*                                                                         *)
(* The database holds one table.  What a file holds is whether the table   *)
(* exists and which rows it has.                                           *)
(***************************************************************************)
EXTENDS CipherSettings, FiniteSets

CONSTANTS
    Rows,          \* rows an application can insert
    InstallRows,   \* rows of the database file it installs
    LegacyRows,    \* rows of the database an older version of the app left
    Keys,          \* passwords
    AppGUID,       \* the password used when none is assigned
    HashArgs, KdfArgs, PageArgs,   \* what the application assigns to the settings
    LegacySettings,                \* settings of databases made by older versions
    Proxies,       \* slots for the TiDatabaseProxy objects the application holds
    MaxCrashes, MaxFaults, MaxRemovals   \* bounds on those events

ASSUME RowsAssumption == InstallRows \subseteq Rows /\ LegacyRows \subseteq Rows
ASSUME KeysAssumption == AppGUID \in Keys
ASSUME ArgsAssumption ==
    /\ HashArgs \subseteq Int /\ KdfArgs \subseteq Int /\ PageArgs \subseteq Int
    /\ LegacySettings \subseteq Settings
ASSUME BoundsAssumption ==
    MaxCrashes \in Nat /\ MaxFaults \in Nat /\ MaxRemovals \in Nat

VARIABLES
    password,        \* the password in force: the assigned one, or AppGUID
    dbSettings,      \* the settings in force
    proxies,         \* the proxies handed to JavaScript
    pc,              \* where the running open() or install() stands
    dbOldSettings,   \* the settings the file opened with: {} for an unencrypted file
    dbFile, migratedFile, propertiesFile,   \* the disk
    saved,           \* rows committed and not removed, kept to state properties
    removals, crashes, faults               \* counters, bounded

memory == <<password, dbSettings, proxies, pc, dbOldSettings>>
disk   == <<dbFile, migratedFile, propertiesFile>>
counts == <<removals, crashes, faults>>
vars   == <<memory, disk, saved, counts>>

-----------------------------------------------------------------------------
(* Files *)

File == [kind     : {"absent", "blank", "plain", "torn", "cipher"},
         settings : Settings,
         key      : Keys,
         table    : BOOLEAN,
         rows     : SUBSET Rows]

NoFile == [kind |-> "absent", settings |-> FromSQLCipherV4, key |-> AppGUID,
           table |-> FALSE, rows |-> {}]

(* A file SQLite has created and not yet written a page to. *)
BlankFile == [NoFile EXCEPT !.kind = "blank"]

(* An unencrypted database that a copy left incomplete. *)
TornFile == [NoFile EXCEPT !.kind = "torn"]

PlainFile(R) == [NoFile EXCEPT !.kind = "plain", !.table = TRUE, !.rows = R]

CipherFile(s, k, R) ==
    [kind |-> "cipher", settings |-> s, key |-> k, table |-> TRUE, rows |-> R]

(* toDatabaseHook returns a hook whose preKey and postKey are empty, so a  *)
(* connection keeps the defaults of the library whatever settings it is    *)
(* opened with: those of SQLCipher 4.                                      *)
ConnectionSettings(s) == FromSQLCipherV4

(* SQLCipher reads a file with the key and the settings it was written     *)
(* with, and it reads a file without pages with any.                       *)
CanRead(file, key, s) ==
    \/ file.kind = "blank"
    \/ file.kind = "cipher" /\ file.key = key /\ file.settings = s

(* Mutant: the read after the opening is missing. *)
MutantOpensWith(s) == TRUE

(* openDatabase(File, String, SQLiteDatabaseHook): open, then read to see  *)
(* whether the settings decrypt the file.                                  *)
OpensWith(s) == CanRead(dbFile, password, ConnectionSettings(s))

(* Mutant: the header is not looked at. *)
MutantIsUnencryptedDatabase(file) == FALSE

(* The header of an unencrypted database, which a torn copy begins with. *)
IsUnencryptedDatabase(file) == file.kind \in {"plain", "torn"}

-----------------------------------------------------------------------------
(* Proxies *)

Proxy == [state : {"none", "open", "closed"},
          linked : BOOLEAN,      \* its file is the one the name leads to
          key : Keys, settings : Settings,
          asked : Settings]      \* dbSettings when it was opened

NoProxy == [state |-> "none", linked |-> FALSE, key |-> AppGUID,
            settings |-> FromSQLCipherV4, asked |-> FromSQLCipherV4]

Free == {h \in Proxies : proxies[h].state # "open"}

ReturnProxy(s) == \E h \in Free :
    proxies' = [proxies EXCEPT ![h] =
        [state |-> "open", linked |-> TRUE, key |-> password,
         settings |-> ConnectionSettings(s), asked |-> dbSettings]]

(* A connection keeps the file it opened when the name is unlinked. *)
Unlinked == [h \in Proxies |-> [proxies[h] EXCEPT !.linked = FALSE]]

Reads(h) ==
    /\ proxies[h].linked
    /\ CanRead(dbFile, proxies[h].key, proxies[h].settings)

(* A file operation fails. *)
Fault ==
    /\ faults < MaxFaults
    /\ faults' = faults + 1
    /\ UNCHANGED <<removals, crashes>>

(* The running call raises; the JavaScript thread goes on. *)
Throw == pc' = "idle" /\ UNCHANGED proxies

-----------------------------------------------------------------------------
Init ==
    /\ password = AppGUID
    /\ dbSettings = FromSQLCipherV4
    /\ proxies = [h \in Proxies |-> NoProxy]
    /\ pc = "idle"
    /\ dbOldSettings = {}
    /\ dbFile \in {NoFile, PlainFile(LegacyRows)}
                    \cup {CipherFile(s, AppGUID, LegacyRows) : s \in LegacySettings}
    /\ migratedFile = NoFile
    /\ propertiesFile = {}
    /\ saved = dbFile.rows
    /\ removals = 0 /\ crashes = 0 /\ faults = 0

-----------------------------------------------------------------------------
(* The properties of the module *)

SetPassword(k) ==
    /\ pc = "idle"
    /\ password' = k
    /\ UNCHANGED <<dbSettings, proxies, pc, dbOldSettings, disk, saved, counts>>

AssignSettings(s) ==
    /\ pc = "idle"
    /\ dbSettings' = s
    /\ UNCHANGED <<password, proxies, pc, dbOldSettings, disk, saved, counts>>

SetHmacAlgorithm(value) ==
    /\ FromTiIntId(value) # {}
    /\ AssignSettings(SetHashAlgorithmType(dbSettings, FromTiIntId(value)))

SetHmacKdfIterations(value) == AssignSettings(SetKdfIterations(dbSettings, value))

PageSize(value) == AssignSettings(SetPageSize(dbSettings, value))

-----------------------------------------------------------------------------
(* open(name), up to its first effect on a file *)

Open ==
    /\ pc = "idle" /\ Free # {}
    /\ pc' = "opening"
    /\ UNCHANGED <<password, dbSettings, proxies, dbOldSettings, disk, saved, counts>>

StoredSettings ==
    IF dbFile.kind = "absent" THEN {}
    ELSE {FromProperties(p) : p \in propertiesFile}

(* The settings tried in turn when those of the properties file do not     *)
(* open the database and it is not an unencrypted one.                     *)
Guesses == <<FromSQLCipherV4, FromSQLCipherV3, FromSQLCipherV2,
             SetHashAlgorithmType(FromSQLCipherV4, {"SHA256"}),
             SetHashAlgorithmType(FromSQLCipherV4, {"SHA1"})>>

OpeningGuesses == {i \in 1..5 : OpensWith(Guesses[i])}

FirstOpeningGuess == CHOOSE i \in OpeningGuesses : \A j \in OpeningGuesses : i <= j

(* Which attempt opens the existing file, and the settings it leaves in    *)
(* dbOldSettings.                                                          *)
Attempt(stored) ==
    IF \E s \in stored : OpensWith(s) THEN [opened |-> TRUE, old |-> stored]
    ELSE IF IsUnencryptedDatabase(dbFile) THEN [opened |-> TRUE, old |-> {}]
    ELSE IF OpeningGuesses # {}
         THEN [opened |-> TRUE, old |-> {Guesses[FirstOpeningGuess]}]
    ELSE [opened |-> FALSE, old |-> {Guesses[5]}]

(* Either the name is new, or an attempt opens the file, or none does.  A  *)
(* file that opened with the settings in force is handed out as it is; one *)
(* that opened with others is migrated.                                    *)
ProbeWith(stored) ==
    LET attempt == IF dbFile.kind = "absent" THEN [opened |-> FALSE, old |-> {}]
                   ELSE Attempt(stored)
    IN  /\ pc = "opening"
        /\ dbOldSettings' = attempt.old
        /\ \/ ~attempt.opened /\ pc' = "creating" /\ UNCHANGED proxies
           \/ attempt.opened /\ attempt.old = {dbSettings}
                /\ pc' = "idle" /\ ReturnProxy(dbSettings)
           \/ attempt.opened /\ attempt.old # {dbSettings}
                /\ pc' = "attaching" /\ UNCHANGED proxies
        /\ UNCHANGED <<password, dbSettings, disk, saved>>

Probe == ProbeWith(StoredSettings) /\ UNCHANGED counts

(* An exception while the properties file is read is swallowed. *)
ProbeUnreadableProperties ==
    /\ StoredSettings # {}
    /\ ProbeWith({})
    /\ Fault

-----------------------------------------------------------------------------
(* The migration *)

(* Mutant: what an earlier migration left is deleted first. *)
MutantAttachAnew ==
    /\ pc = "attaching"
    /\ migratedFile' = IF dbFile.kind # "torn" THEN BlankFile ELSE migratedFile
    /\ IF dbFile.kind # "torn" THEN pc' = "exporting" /\ UNCHANGED proxies ELSE Throw
    /\ UNCHANGED <<password, dbSettings, dbOldSettings, dbFile, propertiesFile,
                   saved, counts>>

(* Mutant: a file that is already there is an error. *)
MutantAttachOnce ==
    /\ pc = "attaching"
    /\ IF dbFile.kind # "torn" /\ migratedFile.kind = "absent"
       THEN migratedFile' = BlankFile /\ pc' = "exporting" /\ UNCHANGED proxies
       ELSE Throw /\ UNCHANGED migratedFile
    /\ UNCHANGED <<password, dbSettings, dbOldSettings, dbFile, propertiesFile,
                   saved, counts>>

(* Mutant: what cannot be attached is never reported. *)
MutantAttachSilent ==
    /\ pc = "attaching" /\ dbFile.kind # "torn"
    /\ migratedFile' = IF migratedFile.kind = "absent" THEN BlankFile ELSE migratedFile
    /\ CanRead(migratedFile', password, FromSQLCipherV4)
    /\ pc' = "exporting"
    /\ UNCHANGED <<password, dbSettings, proxies, dbOldSettings, dbFile,
                   propertiesFile, saved, counts>>

(* ATTACH reads the schema of the open database, then creates the file it  *)
(* attaches or reads the one it finds there, with the key in force and the *)
(* defaults of the library.  applyTo comes after it.                       *)
Attach ==
    /\ pc = "attaching"
    /\ migratedFile' = IF dbFile.kind # "torn" /\ migratedFile.kind = "absent"
                       THEN BlankFile ELSE migratedFile
    /\ IF dbFile.kind # "torn" /\ CanRead(migratedFile', password, FromSQLCipherV4)
       THEN pc' = "exporting" /\ UNCHANGED proxies
       ELSE Throw
    /\ UNCHANGED <<password, dbSettings, dbOldSettings, dbFile, propertiesFile,
                   saved, counts>>

(* Mutant: the target is given the default password. *)
MutantExportSchema ==
    /\ pc = "exporting"
    /\ IF dbFile.table /\ migratedFile.table
       THEN Throw /\ UNCHANGED migratedFile
       ELSE /\ migratedFile' = IF dbFile.table
                               THEN CipherFile(dbSettings, AppGUID, {})
                               ELSE migratedFile
            /\ pc' = "copying" /\ UNCHANGED proxies
    /\ UNCHANGED <<password, dbSettings, dbOldSettings, dbFile, propertiesFile,
                   saved, counts>>

(* sqlcipher_export creates the tables of the source in the target, with   *)
(* the settings applyTo gave it, and raises when one exists already ...    *)
ExportSchema ==
    /\ pc = "exporting"
    /\ IF dbFile.table /\ migratedFile.table
       THEN Throw /\ UNCHANGED migratedFile
       ELSE /\ migratedFile' = IF dbFile.table
                               THEN CipherFile(dbSettings, password, {})
                               ELSE migratedFile
            /\ pc' = "copying" /\ UNCHANGED proxies
    /\ UNCHANGED <<password, dbSettings, dbOldSettings, dbFile, propertiesFile,
                   saved, counts>>

(* Mutant: the schema is exported, the rows are not. *)
MutantExportRows ==
    /\ pc = "copying"
    /\ pc' = "replacing"
    /\ UNCHANGED <<password, dbSettings, proxies, dbOldSettings, disk, saved, counts>>

(* ... then copies the rows.  DETACH and close follow. *)
ExportRows ==
    /\ pc = "copying"
    /\ migratedFile' = [migratedFile EXCEPT !.rows = @ \cup dbFile.rows]
    /\ pc' = "replacing"
    /\ UNCHANGED <<password, dbSettings, proxies, dbOldSettings, dbFile,
                   propertiesFile, saved, counts>>

DeleteOldFile ==
    /\ pc = "replacing"
    /\ dbFile' = NoFile
    /\ proxies' = Unlinked
    /\ pc' = "renaming"
    /\ UNCHANGED <<password, dbSettings, dbOldSettings, migratedFile,
                   propertiesFile, saved, counts>>

RenameMigratedFile ==
    /\ pc = "renaming"
    /\ dbFile' = migratedFile
    /\ migratedFile' = NoFile
    /\ pc' = "creating"
    /\ UNCHANGED <<password, dbSettings, proxies, dbOldSettings, propertiesFile,
                   saved, counts>>

(* Any of these steps can fail; the call raises with its effects so far. *)
StepFails ==
    /\ pc \in {"attaching", "exporting", "copying", "replacing", "renaming",
               "creating"}
    /\ Fault
    /\ Throw
    /\ UNCHANGED <<password, dbSettings, dbOldSettings, disk, saved>>

-----------------------------------------------------------------------------
(* Creating the file or opening the migrated one.  Nothing reads from it   *)
(* here: whether a connection that cannot is refused is up to the library. *)
Create ==
    /\ pc = "creating"
    /\ dbFile' = IF dbFile.kind = "absent" THEN BlankFile ELSE dbFile
    /\ \/ pc' = "truncating"
       \/ ~CanRead(dbFile', password, ConnectionSettings(dbSettings)) /\ pc' = "idle"
    /\ UNCHANGED <<password, dbSettings, proxies, dbOldSettings, migratedFile,
                   propertiesFile, saved, counts>>

TruncateProperties ==
    /\ pc = "truncating"
    /\ propertiesFile' = {NoProperties}
    /\ pc' = "storing"
    /\ UNCHANGED <<password, dbSettings, proxies, dbOldSettings, dbFile,
                   migratedFile, saved, counts>>

StoreProperties ==
    /\ pc = "storing"
    /\ propertiesFile' = {ToProperties(dbSettings)}
    /\ pc' = "idle" /\ ReturnProxy(dbSettings)
    /\ UNCHANGED <<password, dbSettings, dbOldSettings, dbFile, migratedFile,
                   saved, counts>>

(* The exception is logged and the proxy is returned all the same. *)
PropertiesFail ==
    /\ pc \in {"truncating", "storing"}
    /\ Fault
    /\ pc' = "idle" /\ ReturnProxy(dbSettings)
    /\ UNCHANGED <<password, dbSettings, dbOldSettings, disk, saved>>

-----------------------------------------------------------------------------
(* install(url, name): a name that has a file is opened; a new one gets a  *)
(* copy of the unencrypted database at url, which is then opened.          *)
Install ==
    /\ pc = "idle" /\ Free # {}
    /\ IF dbFile.kind # "absent"
       THEN pc' = "opening" /\ UNCHANGED dbFile
       ELSE pc' = "installing" /\ dbFile' = BlankFile
    /\ UNCHANGED <<password, dbSettings, proxies, dbOldSettings, migratedFile,
                   propertiesFile, saved, counts>>

CopySome ==
    /\ pc = "installing" /\ dbFile.kind = "blank"
    /\ dbFile' = TornFile
    /\ UNCHANGED <<memory, migratedFile, propertiesFile, saved, counts>>

CopyRest ==
    /\ pc = "installing"
    /\ dbFile' = PlainFile(InstallRows)
    /\ saved' = saved \cup InstallRows
    /\ pc' = "opening"
    /\ UNCHANGED <<password, dbSettings, proxies, dbOldSettings, migratedFile,
                   propertiesFile, counts>>

(* The streams are closed and the exception rethrown; what was copied stays. *)
CopyFails ==
    /\ pc = "installing"
    /\ Fault
    /\ Throw
    /\ UNCHANGED <<password, dbSettings, dbOldSettings, disk, saved>>

(* The stream writes what it has buffered when it is closed: what that     *)
(* raises is swallowed, and the incomplete copy is opened.                 *)
CopyUnflushed ==
    /\ pc = "installing"
    /\ Fault
    /\ pc' = "opening"
    /\ UNCHANGED <<password, dbSettings, proxies, dbOldSettings, disk, saved>>

-----------------------------------------------------------------------------
(* The proxies *)

(* execute() of a script that creates the table when it is missing and     *)
(* inserts a row.  Through a connection that cannot read the file it       *)
(* raises and changes nothing; through one whose file was unlinked it      *)
(* changes a file no name leads to.                                        *)
Execute(h, r) ==
    /\ pc = "idle" /\ proxies[h].state = "open" /\ Reads(h) /\ r \notin saved
    /\ dbFile' = IF dbFile.kind = "blank"
                 THEN CipherFile(proxies[h].settings, proxies[h].key, {r})
                 ELSE [dbFile EXCEPT !.rows = @ \cup {r}]
    /\ saved' = saved \cup {r}
    /\ UNCHANGED <<memory, migratedFile, propertiesFile, counts>>

Close(h) ==
    /\ pc = "idle" /\ proxies[h].state = "open"
    /\ proxies' = [proxies EXCEPT ![h].state = "closed"]
    /\ UNCHANGED <<password, dbSettings, pc, dbOldSettings, disk, saved, counts>>

(* remove() closes the connection and deletes the database file, and only  *)
(* that one.  What deleteDatabase returns is not looked at.                *)
RemoveWith(h) ==
    /\ pc = "idle" /\ proxies[h].state # "none"
    /\ removals < MaxRemovals
    /\ removals' = removals + 1
    /\ UNCHANGED <<password, dbSettings, pc, dbOldSettings, migratedFile,
                   propertiesFile, crashes>>

Remove(h) ==
    /\ RemoveWith(h)
    /\ dbFile' = NoFile
    /\ saved' = {}
    /\ proxies' = [Unlinked EXCEPT ![h].state = "closed"]
    /\ UNCHANGED faults

RemoveFails(h) ==
    /\ RemoveWith(h)
    /\ faults < MaxFaults /\ faults' = faults + 1
    /\ proxies' = [proxies EXCEPT ![h].state = "closed"]
    /\ UNCHANGED <<dbFile, saved>>

-----------------------------------------------------------------------------
(* The process dies and the application starts again. *)
Crash ==
    /\ crashes < MaxCrashes
    /\ crashes' = crashes + 1
    /\ password' = AppGUID
    /\ dbSettings' = FromSQLCipherV4
    /\ proxies' = [h \in Proxies |-> NoProxy]
    /\ pc' = "idle"
    /\ dbOldSettings' = {}
    /\ UNCHANGED <<disk, saved, removals, faults>>

(* The steps of a call that has begun. *)
CallStep ==
    \/ Probe \/ ProbeUnreadableProperties
    \/ Attach \/ ExportSchema \/ ExportRows \/ DeleteOldFile \/ RenameMigratedFile
    \/ StepFails
    \/ Create \/ TruncateProperties \/ StoreProperties \/ PropertiesFail
    \/ CopySome \/ CopyRest \/ CopyFails \/ CopyUnflushed

Next ==
    \/ \E k \in Keys : SetPassword(k)
    \/ \E v \in HashArgs : SetHmacAlgorithm(v)
    \/ \E v \in KdfArgs : SetHmacKdfIterations(v)
    \/ \E v \in PageArgs : PageSize(v)
    \/ Open
    \/ Install
    \/ CallStep
    \/ \E h \in Proxies : \/ \E r \in Rows : Execute(h, r)
                          \/ Close(h)
                          \/ Remove(h)
                          \/ RemoveFails(h)
    \/ Crash

Spec == Init /\ [][Next]_vars

-----------------------------------------------------------------------------
(* Properties *)

PCs == {"idle", "opening", "attaching", "exporting", "copying", "replacing",
        "renaming", "creating", "truncating", "storing",
        "installing"}

TypeOK ==
    /\ password \in Keys
    /\ dbSettings \in Settings
    /\ proxies \in [Proxies -> Proxy]
    /\ pc \in PCs
    /\ dbOldSettings \subseteq Settings
    /\ dbFile \in File
    /\ migratedFile \in File
    /\ propertiesFile \subseteq Properties
    /\ saved \subseteq Rows
    /\ removals \in 0..MaxRemovals
    /\ crashes \in 0..MaxCrashes
    /\ faults \in 0..MaxFaults

(* Every row that was committed and not removed is in the database file or *)
(* in the file a migration exported to, at every moment a process can die  *)
(* or a file operation fail (openDatabase deletes the old file only when   *)
(* the export is complete).                                                *)
DataOnDisk == saved \subseteq dbFile.rows \cup migratedFile.rows

(* What a migration puts in place of the old file is never readable        *)
(* without the password, also when the file it attached was left by an     *)
(* earlier migration under another password.                               *)
MigrationEncrypts ==
    pc \in {"replacing", "renaming"} =>
        \/ migratedFile.kind = "blank"
        \/ migratedFile.kind = "cipher" /\ migratedFile.key = password

(* Where the application keeps one password and the default settings, and  *)
(* no file of an older SQLCipher exists, a proxy open() or install()       *)
(* returns reads the database as long as its file is the one of that name. *)
ReturnedProxyReads ==
    \A h \in Proxies :
        proxies[h].state = "open" /\ proxies[h].linked => Reads(h)

(* An open() under another password than the one the file is encrypted     *)
(* with changes neither database file.                                     *)
WrongPasswordChangesNothing ==
    [][dbFile.kind = "cipher" /\ dbFile.key # password /\ pc # "idle"
          => UNCHANGED <<dbFile, migratedFile>>]_vars

(* The numbers at, below and above every valid page size. *)
NearPageSizes == UNION {{p - 1, p, p + 1} : p \in PageSizes}

(* The page size setter, whatever it is given, chooses the smallest valid  *)
(* size that holds it, and the largest one when none does                  *)
(* (TiDatabaseSettings.setPageSize).                                       *)
PageSizeIsLeast ==
    \A v \in PageArgs \cup NearPageSizes :
        LET page == SetPageSize(dbSettings, v).page
        IN  /\ v <= MAX_PAGE_SIZE => v <= page
            /\ \A p \in PageSizes : p < page => p < v

(* Where an application has one proxy at a time and the file operations    *)
(* succeed, the properties file, when it exists, reads as the settings the *)
(* open proxy was opened with: whatever a process that died while it was   *)
(* written, or a database of that name removed earlier, had left in it.    *)
PropertiesOfProxy ==
    pc = "idle" /\ faults = 0 =>
        \A h \in Proxies, p \in propertiesFile :
            proxies[h].state = "open" /\ proxies[h].linked
                => FromProperties(p) = proxies[h].asked

(* The rows at rest, wherever they are, change only by a commit, an        *)
(* installation or a remove().                                             *)
Durable == INSTANCE DurableStore
               WITH stored <- dbFile.rows \cup migratedFile.rows,
                    removals <- removals

ImplementsDurable == Durable!Spec

(* No call can change files like these and none returns a proxy: a copy    *)
(* that an installation left incomplete, and an unencrypted database next  *)
(* to the table that an earlier migration of it exported.  The application *)
(* holds no proxy to remove the database with.                             *)
Stuck ==
    /\ \A h \in Proxies : proxies[h].state = "none"
    /\ \/ dbFile.kind = "torn" /\ pc \in {"idle", "opening", "attaching"}
       \/ /\ dbFile.kind = "plain" /\ migratedFile.table
          /\ pc \in {"idle", "opening", "attaching", "exporting"}

(* A database in such a state stays in it for good, with the same files,   *)
(* whatever the application assigns and calls, however often it is         *)
(* restarted and whatever fails: no proxy is ever returned.                *)
StuckForGood == [][Stuck => Stuck' /\ UNCHANGED <<dbFile, migratedFile>>]_vars

(* The thread finishes the call it began, and the application goes on      *)
(* opening the database.                                                   *)
LiveSpec == Spec /\ WF_vars(CallStep) /\ WF_vars(Open)

(* Whatever a call finds on the disk, it has a next step until it returns: *)
(* no combination of files leaves the thread waiting in it, and a slot is  *)
(* still free when it has a proxy to return.  open() can be called         *)
(* whenever none runs.                                                     *)
NeverStuck ==
    /\ pc # "idle" => ENABLED <<CallStep>>_vars
    /\ pc = "idle" /\ Free # {} => ENABLED <<Open>>_vars

(* Once nothing more dies, fails or is removed, a migration that stopped   *)
(* before the export created a table is carried out by a later open().     *)
InterruptedMigrationResumes ==
    (/\ dbFile.kind = "plain" /\ ~migratedFile.table
     /\ crashes = MaxCrashes /\ faults = MaxFaults /\ removals = MaxRemovals)
        ~> (dbFile.kind = "cipher")

(* Once nothing more dies, fails or is removed, an application that keeps  *)
(* one password and the default settings and goes on opening the database  *)
(* gets a proxy that reads it, whatever was interrupted before: in its way *)
(* is only the copy an installation left unfinished, and, where the file   *)
(* is not encrypted yet, the table an earlier migration exported.          *)
OpenGivesReadableProxy ==
    (/\ \/ dbFile.kind = "cipher"
        \/ ~migratedFile.table /\ (dbFile.kind = "torn" => pc = "installing")
     /\ crashes = MaxCrashes /\ faults = MaxFaults /\ removals = MaxRemovals)
        ~> (\E h \in Proxies :
                proxies[h].state = "open" /\ proxies[h].linked /\ Reads(h))

-----------------------------------------------------------------------------
(* What the documentation states and the code does not do *)

(* An unencrypted database does not stay one once the process stops dying  *)
(* and the application goes on opening it (javadoc of openDatabase: "Will  *)
(* automatically migrate the database").                                   *)
PlainIsMigrated == (dbFile.kind = "plain") ~> (dbFile.kind # "plain")

(* The settings assigned before open() are those the file is encrypted     *)
(* with ("must be assigned before calling the `open()` method for it to be *)
(* applied to the database").                                              *)
SettingsApplied ==
    \A h \in Proxies :
        proxies[h].state = "open" /\ proxies[h].linked /\ dbFile.kind = "cipher"
            => dbFile.settings = proxies[h].asked
=============================================================================
