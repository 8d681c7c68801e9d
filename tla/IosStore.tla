------------------------------ MODULE IosStore ------------------------------
(***************************************************************************)
(* The files of the iOS module: AppceleratorEncrypteddatabaseDBProxy.m and *)
(* its module object, and the two ways EncPLSqliteDatabase.m opens a file. *)
(*                                                                         *)
(* All databases live in one directory, each with a ".version" file beside *)
(* it that records cipher parameters; a migration of any of them exports   *)
(* to the one file temp.db of that directory.  Databases of an old release *)
(* of the module wait in another directory until the first call.           *)
(*                                                                         *)
(* Calls run on the one JavaScript thread.  pc is where the running call   *)
(* stands: the process can die at any of its steps, and a file operation   *)
(* can fail.  Each database has one table of its own, named as it is.      *)
(***************************************************************************)
EXTENDS Integers, FiniteSets

CONSTANTS
    Names,          \* database names
    RowIds,         \* a row is <<name of its table, id>>
    LegacyIds,      \* ids of the rows of databases that exist at the start
    Keys, AppGUID,  \* passwords, and the one used when none is assigned
    HashArgs, KdfArgs,    \* what the application assigns to the settings
    Calls,          \* which of open, install and cipherUpgrade it calls
    Beginnings,     \* what an application can find on the disk: see Begin
    MaxCrashes, MaxFaults, MaxRemovals   \* bounds on those events

ASSUME NamesAssumption == Names # {} /\ LegacyIds \subseteq RowIds
ASSUME KeysAssumption == AppGUID \in Keys
ASSUME ArgsAssumption == HashArgs \subseteq Int /\ KdfArgs \subseteq Int
ASSUME BeginningsAssumption ==
    /\ Calls \subseteq {"open", "install", "cipherUpgrade"}
    /\ Beginnings \subseteq {"new", "recorded", "unrecorded", "old directory"}
ASSUME BoundsAssumption ==
    MaxCrashes \in Nat /\ MaxFaults \in Nat /\ MaxRemovals \in Nat

VARIABLES
    password, hmacAlgorithm, kdfIterations,   \* the properties of the module
    isNewDatabase,      \* the global variable of that name
    databases,          \* the open connection of each name
    pc, call, name,     \* the running call: its place, which one and on what
    oldCipherParams,
    dbDir, files, versions, tempFile,         \* the directory
    oldDir, oldFiles, unmoved,   \* the directory of the old release, and what
                                 \* of it the running call has not come to yet
    saved,              \* rows committed and not removed, kept for properties
    removals, crashes, faults    \* counters, bounded

module == <<password, hmacAlgorithm, kdfIterations>>
running == <<pc, call, name, oldCipherParams, unmoved>>
dir    == <<dbDir, files, versions, tempFile>>
olddir == <<oldDir, oldFiles>>
counts == <<removals, crashes, faults>>
vars   == <<module, isNewDatabase, databases, running, dir, olddir,
            saved, counts>>

-----------------------------------------------------------------------------
(* Cipher parameters *)

Hashes == {"SHA1", "SHA256", "SHA512"}

(* What setHmacKdfIterations lets through. *)
KdfNumbers == {k \in Int : k >= 4000 /\ k <= 256000}

(* A dictionary of parameters; its hmacAlgorithm and kdfAlgorithm always   *)
(* name the same hash.                                                     *)
Params == [hash : Hashes, pageSize : {1024, 4096}, kdfIteration : KdfNumbers]

V3 == [hash |-> "SHA1", pageSize |-> 1024, kdfIteration |-> 64000]
V4 == [hash |-> "SHA512", pageSize |-> 4096, kdfIteration |-> 256000]

(* setHmacAlgorithm: leaves the hash of the latest parameters in place for *)
(* a number that identifies no algorithm.                                  *)
HashIn(parameters) ==
    CASE hmacAlgorithm = 1 -> "SHA1"
      [] hmacAlgorithm = 2 -> "SHA256"
      [] hmacAlgorithm = 3 -> "SHA512"
      [] OTHER -> parameters.hash

(* setKdfIterations:andHmacAlgorithm: on the latest parameters. *)
CurrentCipherParams ==
    [hash |-> HashIn(V4), pageSize |-> V4.pageSize, kdfIteration |-> kdfIterations]

(* A version file: the text "2.0.7", the text of an older release, or a    *)
(* dictionary of parameters.                                               *)
Version == [kind : {"absent", "2.0.7", "older", "params"}, params : Params]

NoVersion == [kind |-> "absent", params |-> V4]

VersionOf(p) == [kind |-> "params", params |-> p]

(* What needCipherMigrate takes the file to be encrypted with. *)
RecordedParams(v) ==
    CASE v.kind = "absent" -> V4
      [] v.kind = "2.0.7"  -> V4
      [] v.kind = "older"  -> V3
      [] v.kind = "params" -> v.params

-----------------------------------------------------------------------------
(* Files *)

Rows == Names \X RowIds

File == [kind   : {"absent", "blank", "plain", "cipher"},
         params : Params,
         key    : Keys,
         tables : SUBSET Names,
         rows   : SUBSET Rows]

NoFile == [kind |-> "absent", params |-> V4, key |-> AppGUID,
           tables |-> {}, rows |-> {}]

(* A file SQLite has created and not yet written a page to. *)
BlankFile == [NoFile EXCEPT !.kind = "blank"]

CipherFile(p, k, T, R) ==
    [kind |-> "cipher", params |-> p, key |-> k, tables |-> T, rows |-> R]

Created(f) == IF f.kind = "absent" THEN BlankFile ELSE f

LegacyRows(n) == {n} \X LegacyIds

LegacyPlain(n) ==
    [NoFile EXCEPT !.kind = "plain", !.tables = {n}, !.rows = LegacyRows(n)]

LegacyCipher(n, p) == CipherFile(p, AppGUID, {n}, LegacyRows(n))

(* SQLCipher reads a file with the key and the parameters it was written   *)
(* with, and a file without pages with any.                                *)
CanRead(f, k, p) ==
    \/ f.kind = "blank"
    \/ f.kind = "cipher" /\ f.key = k /\ f.params = p

-----------------------------------------------------------------------------
(* Connections *)

Connection == [state : {"none", "open", "closed"},
               linked : BOOLEAN,     \* its file is the one the name leads to
               migrated : BOOLEAN,   \* the call that opened it migrated
               key : Keys, params : Params]

NoConnection == [state |-> "none", linked |-> FALSE, migrated |-> FALSE,
                 key |-> AppGUID, params |-> V4]

(* Mutant: the connection is given the parameters the file had. *)
MutantConnect(migrated) ==
    databases' = [databases EXCEPT ![name] =
        [state |-> "open", linked |-> TRUE, migrated |-> migrated,
         key |-> password, params |-> oldCipherParams]]

(* What open sets up is not read from: it connects to any file. *)
Connect(migrated) ==
    databases' = [databases EXCEPT ![name] =
        [state |-> "open", linked |-> TRUE, migrated |-> migrated,
         key |-> password, params |-> CurrentCipherParams]]

Reads(n) ==
    /\ databases[n].linked
    /\ CanRead(files[n], databases[n].key, databases[n].params)

(* A file operation fails. *)
Fault ==
    /\ faults < MaxFaults
    /\ faults' = faults + 1
    /\ UNCHANGED <<removals, crashes>>

Goto(place) == pc' = place /\ UNCHANGED <<call, name, oldCipherParams, unmoved>>

(* The running call returns or raises, and its variables are forgotten. *)
AnyName == CHOOSE n \in Names : TRUE

Return ==
    /\ pc' = "idle" /\ call' = "none" /\ name' = AnyName
    /\ oldCipherParams' = V4 /\ unmoved' = {}

-----------------------------------------------------------------------------
(* An application begins with nothing, with databases a version file       *)
(* describes or that need none, with databases of a release that wrote no  *)
(* version files, or with those of the oldest release in the old directory.*)
Recorded(n) ==
    {<<NoFile, NoVersion>>, <<LegacyCipher(n, V4), NoVersion>>,
     <<LegacyCipher(n, V4), [NoVersion EXCEPT !.kind = "2.0.7"]>>,
     <<LegacyCipher(n, V3), [NoVersion EXCEPT !.kind = "older"]>>}

Unrecorded(n) ==
    {<<LegacyPlain(n), NoVersion>>, <<LegacyCipher(n, V3), NoVersion>>}

FindIn(found) ==
    /\ dbDir = TRUE /\ oldDir = FALSE
    /\ \E start \in [Names -> UNION {found[n] : n \in Names}] :
           /\ \A n \in Names : start[n] \in found[n]
           /\ files = [n \in Names |-> start[n][1]]
           /\ versions = [n \in Names |-> start[n][2]]
    /\ oldFiles = [n \in Names |-> NoFile]

FindNone(old) ==
    /\ dbDir = FALSE /\ oldDir = old
    /\ files = [n \in Names |-> NoFile]
    /\ versions = [n \in Names |-> NoVersion]
    /\ oldFiles = [n \in Names |-> IF old THEN LegacyCipher(n, V3) ELSE NoFile]

Begin ==
    \/ "new" \in Beginnings /\ FindNone(FALSE)
    \/ "recorded" \in Beginnings /\ FindIn([n \in Names |-> Recorded(n)])
    \/ "unrecorded" \in Beginnings /\ FindIn([n \in Names |-> Unrecorded(n)])
    \/ "old directory" \in Beginnings /\ FindNone(TRUE)

Init ==
    /\ password = AppGUID /\ hmacAlgorithm = 3 /\ kdfIterations = 256000
    /\ isNewDatabase = FALSE
    /\ databases = [n \in Names |-> NoConnection]
    /\ pc = "idle" /\ call = "none" /\ name = AnyName
    /\ oldCipherParams = V4 /\ unmoved = {}
    /\ Begin
    /\ tempFile = NoFile
    /\ saved = UNION {files[n].rows \cup oldFiles[n].rows : n \in Names}
    /\ removals = 0 /\ crashes = 0 /\ faults = 0

-----------------------------------------------------------------------------
(* The properties of the module *)

SetPassword(k) ==
    /\ pc = "idle"
    /\ password' = k
    /\ UNCHANGED <<hmacAlgorithm, kdfIterations, isNewDatabase, databases,
                   running, dir, olddir, saved, counts>>

(* The value is stored as it comes. *)
SetHmacAlgorithm(value) ==
    /\ pc = "idle"
    /\ hmacAlgorithm' = value
    /\ UNCHANGED <<password, kdfIterations, isNewDatabase, databases, running,
                   dir, olddir, saved, counts>>

(* Mutant: no upper bound. *)
MutantSetHmacKdfIterations(value) ==
    /\ pc = "idle"
    /\ kdfIterations' = IF value < 4000 THEN 4000 ELSE value
    /\ UNCHANGED <<password, hmacAlgorithm, isNewDatabase, databases, running,
                   dir, olddir, saved, counts>>

SetHmacKdfIterations(value) ==
    /\ pc = "idle"
    /\ kdfIterations' = IF value > 256000 THEN 256000
                        ELSE IF value < 4000 THEN 4000 ELSE value
    /\ UNCHANGED <<password, hmacAlgorithm, isNewDatabase, databases, running,
                   dir, olddir, saved, counts>>

-----------------------------------------------------------------------------
(* The calls begin.  An application has one connection to a name at a time.*)
Enter(c, n) ==
    /\ pc = "idle" /\ databases[n].state # "open" /\ c \in Calls
    /\ pc' = "entering" /\ call' = c /\ name' = n
    /\ UNCHANGED <<module, isNewDatabase, databases, oldCipherParams, unmoved,
                   dir, olddir, saved, counts>>

Open(n) == Enter("open", n)

Install(n) == Enter("install", n)

CipherUpgrade(n) == Enter("cipherUpgrade", n)

(* Where dbPath leads to: install copies first. *)
AfterDbPath == IF call = "install" THEN "installing" ELSE "checking"

(* dbDir creates the directory, then moves what the old one holds. *)
CreateDir ==
    /\ pc = "entering"
    /\ dbDir' = TRUE
    /\ isNewDatabase' = (isNewDatabase \/ ~dbDir)
    /\ pc' = IF oldDir THEN "moving" ELSE AfterDbPath
    /\ unmoved' = {n \in Names : oldFiles[n].kind # "absent"}
    /\ UNCHANGED <<module, databases, call, name, oldCipherParams, files,
                   versions, tempFile, olddir, saved, counts>>

(* A file whose name is taken is not moved; the error is not looked at. *)
MoveOldFile ==
    /\ pc = "moving"
    /\ \E n \in unmoved :
         /\ unmoved' = unmoved \ {n}
         /\ IF files[n].kind = "absent"
            THEN /\ files' = [files EXCEPT ![n] = oldFiles[n]]
                 /\ oldFiles' = [oldFiles EXCEPT ![n] = NoFile]
            ELSE UNCHANGED <<files, oldFiles>>
    /\ UNCHANGED <<module, isNewDatabase, databases, pc, call, name,
                   oldCipherParams, dbDir, versions, tempFile, oldDir,
                   saved, counts>>

(* Neither is one of the move itself. *)
MoveOldFileFails ==
    /\ pc = "moving"
    /\ \E n \in unmoved : unmoved' = unmoved \ {n}
    /\ Fault
    /\ UNCHANGED <<module, isNewDatabase, databases, pc, call, name,
                   oldCipherParams, dir, olddir, saved>>

RemoveOldDir ==
    /\ pc = "moving" /\ unmoved = {}
    /\ oldDir' = FALSE
    /\ oldFiles' = [n \in Names |-> NoFile]
    /\ isNewDatabase' = FALSE
    /\ Goto(AfterDbPath)
    /\ UNCHANGED <<module, databases, dir, saved, counts>>

(* The removal can stop half way, which is not looked at either: the next  *)
(* call finds the directory again, with what is left in it.                *)
RemoveOldDirFails ==
    /\ pc = "moving" /\ unmoved = {}
    /\ Fault
    /\ \E kept \in SUBSET Names :
           oldFiles' = [n \in Names |-> IF n \in kept THEN oldFiles[n] ELSE NoFile]
    /\ isNewDatabase' = FALSE
    /\ Goto(AfterDbPath)
    /\ UNCHANGED <<module, databases, dir, oldDir, saved>>

(* install copies the database the application brings, which has been      *)
(* encrypted with the default parameters or not at all, unless the name    *)
(* has a file.                                                             *)
Copy ==
    /\ pc = "installing"
    /\ IF files[name].kind # "absent" THEN UNCHANGED <<files, saved>>
       ELSE /\ \E f \in {LegacyPlain(name), LegacyCipher(name, V4)} :
                   files' = [files EXCEPT ![name] = f]
            /\ saved' = saved \cup LegacyRows(name)
    /\ Goto("checking")
    /\ UNCHANGED <<module, isNewDatabase, databases, dbDir, versions, tempFile,
                   olddir, counts>>

CopyFails ==
    /\ pc = "installing" /\ files[name].kind = "absent"
    /\ Fault
    /\ Return
    /\ UNCHANGED <<module, isNewDatabase, databases, dir, olddir, saved>>

-----------------------------------------------------------------------------
(* Mutant: a version file that exists is not rewritten. *)
MutantCheckWith(written) ==
    LET recorded == RecordedParams(versions[name])
        differs == recorded # CurrentCipherParams
    IN  /\ pc = "checking"
        /\ versions' = IF differs /\ written /\ versions[name].kind = "absent"
                       THEN [versions EXCEPT ![name] = VersionOf(CurrentCipherParams)]
                       ELSE versions
        /\ IF differs /\ ~isNewDatabase
           THEN /\ pc' = IF call = "cipherUpgrade" THEN "upgrading" ELSE "attaching"
                /\ oldCipherParams' = recorded
                /\ UNCHANGED <<call, name, unmoved>>
           ELSE IF call = "cipherUpgrade" THEN Return ELSE Goto("opening")
        /\ UNCHANGED <<module, isNewDatabase, databases, dbDir, files, tempFile,
                       olddir, saved>>

(* needCipherMigrate: the version file is rewritten before anything is     *)
(* migrated, and also when nothing will be; whether it was is not looked   *)
(* at.                                                                     *)
CheckWith(written) ==
    LET recorded == RecordedParams(versions[name])
        differs == recorded # CurrentCipherParams
    IN  /\ pc = "checking"
        /\ versions' = IF differs /\ written
                       THEN [versions EXCEPT ![name] = VersionOf(CurrentCipherParams)]
                       ELSE versions
        /\ IF differs /\ ~isNewDatabase
           THEN /\ pc' = IF call = "cipherUpgrade" THEN "upgrading" ELSE "attaching"
                /\ oldCipherParams' = recorded
                /\ UNCHANGED <<call, name, unmoved>>
           ELSE IF call = "cipherUpgrade" THEN Return ELSE Goto("opening")
        /\ UNCHANGED <<module, isNewDatabase, databases, dbDir, files, tempFile,
                       olddir, saved>>

Check == CheckWith(TRUE) /\ UNCHANGED counts

CheckWriteFails == CheckWith(FALSE) /\ Fault

(* open without a migration. *)
OpenDatabase ==
    /\ pc = "opening"
    /\ files' = [files EXCEPT ![name] = Created(@)]
    /\ Connect(FALSE)
    /\ Return
    /\ UNCHANGED <<module, isNewDatabase, dbDir, versions, tempFile, olddir,
                   saved, counts>>

(* cipherUpgrade sets no parameters on the database object: the first      *)
(* PRAGMA of openAndMigrate is not valid SQL and the call raises.          *)
UpgradeRaises ==
    /\ pc = "upgrading"
    /\ files' = [files EXCEPT ![name] = Created(@)]
    /\ Return
    /\ UNCHANGED <<module, isNewDatabase, databases, dbDir, versions, tempFile,
                   olddir, saved, counts>>

-----------------------------------------------------------------------------
(* openAndMigrate *)

(* Mutant: what an earlier migration left is deleted first. *)
MutantAttachAnew ==
    LET file == Created(files[name])
        readable == CanRead(file, password, oldCipherParams)
    IN  /\ pc = "attaching"
        /\ files' = [files EXCEPT ![name] = file]
        /\ tempFile' = IF readable THEN BlankFile ELSE NoFile
        /\ IF readable THEN Goto("exporting") ELSE Return
        /\ UNCHANGED <<module, isNewDatabase, databases, dbDir, versions, olddir,
                       saved, counts>>

(* Mutant: a file that cannot be read is exported as an empty one. *)
MutantAttachUnread ==
    LET file == Created(files[name])
    IN  /\ pc = "attaching"
        /\ files' = [files EXCEPT ![name] = file]
        /\ tempFile' = Created(tempFile)
        /\ IF CanRead(tempFile', password, CurrentCipherParams)
           THEN Goto("exporting") ELSE Return
        /\ UNCHANGED <<module, isNewDatabase, databases, dbDir, versions, olddir,
                       saved, counts>>

(* ATTACH reads the schema of the open file, with the old parameters, then *)
(* creates temp.db or reads the one it finds, with the current ones.  An   *)
(* unencrypted file raises as well: what SQLite says of it is not the text *)
(* the code compares with to try again without a key.                      *)
Attach ==
    LET file == Created(files[name])
        readable == CanRead(file, password, oldCipherParams)
    IN  /\ pc = "attaching"
        /\ files' = [files EXCEPT ![name] = file]
        /\ tempFile' = IF readable THEN Created(tempFile) ELSE tempFile
        /\ IF readable /\ CanRead(tempFile', password, CurrentCipherParams)
           THEN Goto("exporting") ELSE Return
        /\ UNCHANGED <<module, isNewDatabase, databases, dbDir, versions, olddir,
                       saved, counts>>

(* sqlcipher_export creates the tables of the file in temp.db, and raises  *)
(* when one exists already ...                                             *)
ExportSchema ==
    /\ pc = "exporting"
    /\ IF files[name].tables \cap tempFile.tables # {}
       THEN Return /\ UNCHANGED tempFile
       ELSE /\ tempFile' = IF files[name].tables = {} THEN tempFile
                           ELSE CipherFile(CurrentCipherParams, password,
                                           tempFile.tables \cup files[name].tables,
                                           tempFile.rows)
            /\ Goto("copying rows")
    /\ UNCHANGED <<module, isNewDatabase, databases, dbDir, files, versions,
                   olddir, saved, counts>>

(* Mutant: the schema is exported, the rows are not. *)
MutantExportRows ==
    /\ pc = "copying rows"
    /\ Goto("replacing")
    /\ UNCHANGED <<module, isNewDatabase, databases, dir, olddir, saved, counts>>

(* ... then copies the rows.  DETACH and close follow. *)
ExportRows ==
    /\ pc = "copying rows"
    /\ tempFile' = [tempFile EXCEPT !.rows = @ \cup files[name].rows]
    /\ Goto("replacing")
    /\ UNCHANGED <<module, isNewDatabase, databases, dbDir, files, versions,
                   olddir, saved, counts>>

(* replaceOldCopy *)
RemoveOldCopy ==
    /\ pc = "replacing"
    /\ files' = [files EXCEPT ![name] = NoFile]
    /\ Goto("renaming")
    /\ UNCHANGED <<module, isNewDatabase, databases, dbDir, versions, tempFile,
                   olddir, saved, counts>>

(* Mutant: copied, not moved. *)
MutantMoveNewCopy ==
    /\ pc = "renaming"
    /\ files' = [files EXCEPT ![name] = tempFile]
    /\ Goto("reopening")
    /\ UNCHANGED <<module, isNewDatabase, databases, dbDir, versions, tempFile,
                   olddir, saved, counts>>

MoveNewCopy ==
    /\ pc = "renaming"
    /\ files' = [files EXCEPT ![name] = tempFile]
    /\ tempFile' = NoFile
    /\ Goto("reopening")
    /\ UNCHANGED <<module, isNewDatabase, databases, dbDir, versions, olddir,
                   saved, counts>>

OpenMigrated ==
    /\ pc = "reopening"
    /\ files' = [files EXCEPT ![name] = Created(@)]
    /\ Connect(TRUE)
    /\ Return
    /\ UNCHANGED <<module, isNewDatabase, dbDir, versions, tempFile, olddir,
                   saved, counts>>

(* Any of these steps can fail; the call raises with its effects so far. *)
StepFails ==
    /\ pc \in {"opening", "attaching", "exporting", "copying rows", "replacing",
               "renaming", "reopening"}
    /\ Fault
    /\ Return
    /\ UNCHANGED <<module, isNewDatabase, databases, dir, olddir, saved>>

-----------------------------------------------------------------------------
(* The database proxy *)

(* A script that creates the table when it is missing and inserts a row.   *)
(* Through a connection that cannot read the file, or whose file was       *)
(* removed, it raises and changes nothing.                                 *)
Execute(n, id) ==
    LET file == files[n]
        written == IF file.kind = "blank"
                   THEN CipherFile(databases[n].params, databases[n].key, {n}, {<<n, id>>})
                   ELSE [file EXCEPT !.tables = @ \cup {n}, !.rows = @ \cup {<<n, id>>}]
    IN  /\ pc = "idle" /\ databases[n].state = "open" /\ Reads(n)
        /\ <<n, id>> \notin saved
        /\ files' = [files EXCEPT ![n] = written]
        /\ saved' = saved \cup {<<n, id>>}
        /\ UNCHANGED <<module, isNewDatabase, databases, running, dbDir, versions,
                       tempFile, olddir, counts>>

Close(n) ==
    /\ pc = "idle" /\ databases[n].state = "open"
    /\ databases' = [databases EXCEPT ![n].state = "closed"]
    /\ UNCHANGED <<module, isNewDatabase, running, dir, olddir, saved,
                   counts>>

(* remove deletes the database file only, and closes nothing.  When the    *)
(* deletion fails nothing happens.                                         *)
Remove(n) ==
    /\ pc = "idle" /\ databases[n].state # "none"
    /\ removals < MaxRemovals
    /\ removals' = removals + 1
    /\ files' = [files EXCEPT ![n] = NoFile]
    /\ databases' = [databases EXCEPT ![n].linked = FALSE]
    /\ saved' = saved \ ({n} \X RowIds)
    /\ UNCHANGED <<module, isNewDatabase, running, dbDir, versions, tempFile,
                   olddir, crashes, faults>>

-----------------------------------------------------------------------------
(* The process ends, and the application starts again. *)
Restart ==
    /\ password' = AppGUID /\ hmacAlgorithm' = 3 /\ kdfIterations' = 256000
    /\ isNewDatabase' = FALSE
    /\ databases' = [n \in Names |-> NoConnection]
    /\ Return
    /\ UNCHANGED <<dir, olddir, saved>>

(* Between two calls it may end at any time. *)
Quit == pc = "idle" /\ Restart /\ UNCHANGED counts

Crash ==
    /\ pc # "idle" /\ crashes < MaxCrashes
    /\ crashes' = crashes + 1
    /\ Restart
    /\ UNCHANGED <<removals, faults>>

CallStep ==
    \/ CreateDir \/ MoveOldFile \/ MoveOldFileFails \/ RemoveOldDir
    \/ RemoveOldDirFails
    \/ Copy \/ CopyFails
    \/ Check \/ CheckWriteFails
    \/ OpenDatabase \/ UpgradeRaises
    \/ Attach \/ ExportSchema \/ ExportRows \/ RemoveOldCopy \/ MoveNewCopy
    \/ OpenMigrated \/ StepFails

Next ==
    \/ \E k \in Keys : SetPassword(k)
    \/ \E v \in HashArgs : SetHmacAlgorithm(v)
    \/ \E v \in KdfArgs : SetHmacKdfIterations(v)
    \/ \E n \in Names : \/ Open(n) \/ Install(n) \/ CipherUpgrade(n)
                        \/ \E id \in RowIds : Execute(n, id)
                        \/ Close(n) \/ Remove(n)
    \/ CallStep
    \/ Quit
    \/ Crash

Spec == Init /\ [][Next]_vars

-----------------------------------------------------------------------------
(* Properties *)

PCs == {"idle", "entering", "moving", "installing", "checking", "opening",
        "upgrading", "attaching", "exporting", "copying rows", "replacing",
        "renaming", "reopening"}

TypeOK ==
    /\ password \in Keys /\ hmacAlgorithm \in {3} \cup HashArgs
    /\ kdfIterations \in KdfNumbers
    /\ isNewDatabase \in BOOLEAN
    /\ databases \in [Names -> Connection]
    /\ pc \in PCs /\ call \in {"none", "open", "install", "cipherUpgrade"}
    /\ name \in Names /\ oldCipherParams \in Params
    /\ dbDir \in BOOLEAN /\ files \in [Names -> File]
    /\ versions \in [Names -> Version] /\ tempFile \in File
    /\ oldDir \in BOOLEAN /\ oldFiles \in [Names -> File] /\ unmoved \subseteq Names
    /\ saved \subseteq Rows
    /\ removals \in 0..MaxRemovals
    /\ crashes \in 0..MaxCrashes /\ faults \in 0..MaxFaults

AtRest == (UNION {files[n].rows \cup oldFiles[n].rows : n \in Names}) \cup tempFile.rows

(* What the old directory held, when a file of it may have failed to move. *)
NotMoved == IF "old directory" \in Beginnings /\ faults > 0
            THEN UNION {LegacyRows(n) : n \in Names} ELSE {}

(* After an interrupted migration the file of one name may hold the rows   *)
(* of another one, and remove() then deletes those as well.                *)
OnlyOwnRowsRemoved == removals = 0 \/ \A m, n \in Names : m = n

(* Every row that was committed and not removed is in one of the files, at *)
(* every moment a process can die or a file operation fail, except that a  *)
(* file of the old directory that does not move is lost.                   *)
DataOnDisk == OnlyOwnRowsRemoved => saved \subseteq AtRest \cup NotMoved

(* A connection that migrated its file reads it: what replaceOldCopy puts  *)
(* in place is encrypted as the connection expects, also when temp.db was  *)
(* left by a migration of another name under other settings.               *)
MigratedConnectionReads ==
    \A n \in Names :
        databases[n].state = "open" /\ databases[n].migrated /\ databases[n].linked
            => Reads(n)

(* A call under another password than the one a file is encrypted with     *)
(* leaves the file as it is.                                               *)
WrongPasswordChangesNothing ==
    [][\A n \in Names :
          pc # "idle" /\ files[n].kind = "cipher" /\ files[n].key # password
              => files'[n] = files[n]]_vars

(* As long as no migration is interrupted, the file of a name never holds  *)
(* the rows of another one, though all migrations go through temp.db.      *)
NamesKeepTheirRows ==
    crashes = 0 /\ faults = 0 =>
        \A n \in Names : files[n].rows \subseteq {n} \X RowIds

(* An existing database that was encrypted with other settings than those  *)
(* in force is migrated when it is opened: as long as no call is           *)
(* interrupted and nothing removed, a connection under the password of the *)
(* file reads it.                                                          *)
ConnectionsRead ==
    \A n \in Names :
        (/\ crashes = 0 /\ faults = 0 /\ removals = 0
         /\ databases[n].state = "open" /\ databases[n].linked
         /\ files[n].kind = "cipher" /\ files[n].key = databases[n].key)
            => Reads(n)

(* The rows at rest change only by a commit, an installation or a remove.  *)
Durable == INSTANCE DurableStore WITH stored <- AtRest, removals <- removals

ImplementsDurable == Durable!Spec

-----------------------------------------------------------------------------
(* What the documentation states and the code does not do *)

(* A database of an older release, not encrypted or with the page size of  *)
(* SQLCipher 3, is no longer one when open() returns a connection to it    *)
(* under its password: "calling database.open() does the updating          *)
(* internally" (isCipherUpgradeRequired, in the module's documentation).   *)
OpenUpdates ==
    \A n \in Names :
        (/\ crashes = 0 /\ faults = 0 /\ removals = 0
         /\ databases[n].state = "open" /\ databases[n].linked
         /\ files[n].kind # "blank" /\ files[n].key = databases[n].key)
            => files[n].kind = "cipher" /\ files[n].params.pageSize = V4.pageSize

=============================================================================
