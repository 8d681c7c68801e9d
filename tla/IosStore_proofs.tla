-------------------------- MODULE IosStore_proofs --------------------------
(***************************************************************************)
(* For every set of names, rows, passwords and settings, every disk an     *)
(* application can begin with, and any number of crashes, failing          *)
(* operations and removals; what a connection reads (ConnectionsCorrect)   *)
(* only where the module is used as OrdinaryUse says, what none ever reads *)
(* (UnreachableStays) however it is used.                                  *)
(***************************************************************************)
EXTENDS IosStore, TLAPS

-----------------------------------------------------------------------------
(* Type correctness.  It is inductive on its own. *)

LEMMA VersionParams == V3 \in Params /\ V4 \in Params
  BY SMT DEF V3, V4, Params, Hashes, KdfNumbers

LEMMA NameType == AnyName \in Names
  BY NamesAssumption DEF AnyName

LEMMA CurrentType ==
    ASSUME kdfIterations \in KdfNumbers
    PROVE  CurrentCipherParams \in Params
  <1>1. HashIn(V4) \in Hashes
    BY SMT DEF HashIn, V4, Hashes
  <1>2. V4.pageSize \in {1024, 4096}
    BY SMT DEF V4
  <1> QED BY SMT, <1>1, <1>2 DEF CurrentCipherParams, Params

LEMMA FilesType ==
    /\ NoFile \in File /\ BlankFile \in File
    /\ \A p \in Params, k \in Keys, T \in SUBSET Names, R \in SUBSET Rows :
          CipherFile(p, k, T, R) \in File
    /\ \A f \in File : Created(f) \in File
  BY VersionParams, KeysAssumption DEF NoFile, BlankFile, CipherFile, Created, File

LEMMA LegacyType ==
    ASSUME NEW n \in Names
    PROVE  /\ LegacyRows(n) \subseteq Rows
           /\ LegacyPlain(n) \in File
           /\ \A p \in Params : LegacyCipher(n, p) \in File
  <1>1. LegacyRows(n) \subseteq Rows
    BY NamesAssumption DEF LegacyRows, Rows
  <1>2. LegacyPlain(n) \in File
    BY <1>1, FilesType DEF LegacyPlain, File
  <1>3. \A p \in Params : LegacyCipher(n, p) \in File
    BY <1>1, FilesType, KeysAssumption DEF LegacyCipher
  <1> QED BY <1>1, <1>2, <1>3

(* The fields of the files the module makes, for the proofs below. *)
LEMMA FilesHave ==
    /\ NoFile.kind = "absent" /\ NoFile.tables = {} /\ NoFile.rows = {}
    /\ BlankFile.kind = "blank" /\ BlankFile.tables = {} /\ BlankFile.rows = {}
    /\ \A p, k, T, R : LET f == CipherFile(p, k, T, R)
                       IN  /\ f.kind = "cipher" /\ f.key = k /\ f.params = p
                           /\ f.tables = T /\ f.rows = R
    /\ \A n : LET f == LegacyPlain(n)
              IN  f.kind = "plain" /\ f.tables = {n} /\ f.rows = LegacyRows(n)
    /\ \A n, p : LET f == LegacyCipher(n, p)
                 IN  f.kind = "cipher" /\ f.tables = {n} /\ f.rows = LegacyRows(n)
  <1>1. /\ NoFile.kind = "absent" /\ NoFile.tables = {} /\ NoFile.rows = {}
        /\ BlankFile.kind = "blank" /\ BlankFile.tables = {} /\ BlankFile.rows = {}
    BY DEF NoFile, BlankFile
  <1>2. \A p, k, T, R : LET f == CipherFile(p, k, T, R)
                        IN  /\ f.kind = "cipher" /\ f.key = k /\ f.params = p
                            /\ f.tables = T /\ f.rows = R
    BY DEF CipherFile
  <1>3. \A n : LET f == LegacyPlain(n)
               IN  f.kind = "plain" /\ f.tables = {n} /\ f.rows = LegacyRows(n)
    BY DEF LegacyPlain, NoFile
  <1>4. \A n, p : LET f == LegacyCipher(n, p)
                  IN  f.kind = "cipher" /\ f.tables = {n} /\ f.rows = LegacyRows(n)
    BY <1>2 DEF LegacyCipher
  <1> QED BY <1>1, <1>2, <1>3, <1>4

(* What an application can find. *)
Found(n) == {NoFile, LegacyPlain(n), LegacyCipher(n, V4), LegacyCipher(n, V3)}

LEMMA BeginFinds ==
    ASSUME Begin
    PROVE  /\ files \in [Names -> File] /\ oldFiles \in [Names -> File]
           /\ versions \in [Names -> Version]
           /\ dbDir \in BOOLEAN /\ oldDir \in BOOLEAN
           /\ \A n \in Names : files[n] \in Found(n) /\ oldFiles[n] \in Found(n)
           /\ oldDir => "old directory" \in Beginnings /\ \A n \in Names : files[n] = NoFile
           /\ ~oldDir => \A n \in Names : oldFiles[n] = NoFile
  <1>1. NoVersion \in Version /\ [NoVersion EXCEPT !.kind = "2.0.7"] \in Version
        /\ [NoVersion EXCEPT !.kind = "older"] \in Version
    BY VersionParams DEF NoVersion, Version
  <1>2. \A n \in Names : Found(n) \subseteq File
    BY FilesType, LegacyType, VersionParams DEF Found
  <1>3. ASSUME NEW old \in BOOLEAN, FindNone(old), old => "old directory" \in Beginnings
        PROVE  /\ files \in [Names -> File] /\ oldFiles \in [Names -> File]
               /\ versions \in [Names -> Version]
               /\ dbDir \in BOOLEAN /\ oldDir \in BOOLEAN
               /\ \A n \in Names : files[n] \in Found(n) /\ oldFiles[n] \in Found(n)
               /\ oldDir => "old directory" \in Beginnings /\ \A n \in Names : files[n] = NoFile
               /\ ~oldDir => \A n \in Names : oldFiles[n] = NoFile
    <2>1. \A n \in Names : oldFiles[n] \in Found(n) /\ files[n] \in Found(n)
      BY <1>3 DEF FindNone, Found
    <2> QED BY <1>1, <1>2, <1>3, <2>1 DEF FindNone
  <1>4. ASSUME NEW found, FindIn(found),
               \A n \in Names : \A s \in found[n] : s[1] \in Found(n) /\ s[2] \in Version
        PROVE  /\ files \in [Names -> File] /\ oldFiles \in [Names -> File]
               /\ versions \in [Names -> Version]
               /\ dbDir \in BOOLEAN /\ oldDir = FALSE
               /\ \A n \in Names : files[n] \in Found(n) /\ oldFiles[n] = NoFile
    <2>1. PICK start \in [Names -> UNION {found[n] : n \in Names}] :
              /\ \A n \in Names : start[n] \in found[n]
              /\ files = [n \in Names |-> start[n][1]]
              /\ versions = [n \in Names |-> start[n][2]]
      BY <1>4 DEF FindIn
    <2>2. \A n \in Names : start[n][1] \in Found(n) /\ start[n][2] \in Version
      BY <1>4, <2>1
    <2>3. oldFiles = [n \in Names |-> NoFile] /\ dbDir = TRUE /\ oldDir = FALSE
      BY <1>4 DEF FindIn
    <2> QED BY <1>2, <2>1, <2>2, <2>3, FilesType
  <1>5. CASE FindNone(FALSE)
    BY <1>3, <1>5
  <1>6. CASE "old directory" \in Beginnings /\ FindNone(TRUE)
    BY <1>3, <1>6
  <1>7. CASE FindIn([n \in Names |-> Recorded(n)])
    <2>1. \A n \in Names : \A s \in [m \in Names |-> Recorded(m)][n] :
              s[1] \in Found(n) /\ s[2] \in Version
      BY <1>1 DEF Recorded, Found
    <2> QED BY <1>4, <1>7, <2>1 DEF Found
  <1>8. CASE FindIn([n \in Names |-> Unrecorded(n)])
    <2>1. \A n \in Names : \A s \in [m \in Names |-> Unrecorded(m)][n] :
              s[1] \in Found(n) /\ s[2] \in Version
      BY <1>1 DEF Unrecorded, Found
    <2> QED BY <1>4, <1>8, <2>1 DEF Found
  <1> QED BY <1>5, <1>6, <1>7, <1>8 DEF Begin

LEMMA InitType == Init => TypeOK
  <1> SUFFICES ASSUME Init PROVE TypeOK
    OBVIOUS
  <1>1. NoConnection \in Connection
    BY KeysAssumption, VersionParams DEF NoConnection, Connection
  <1>2. /\ files \in [Names -> File] /\ oldFiles \in [Names -> File]
        /\ versions \in [Names -> Version] /\ dbDir \in BOOLEAN /\ oldDir \in BOOLEAN
    <2>1. Begin
      BY SMT DEF Init
    <2> QED BY <2>1, BeginFinds
  <1>3. saved \subseteq Rows
    BY SMT, <1>2 DEF Init, File
  <1>4. kdfIterations \in KdfNumbers
    BY SMT DEF Init, KdfNumbers
  <1>5. /\ removals \in 0..MaxRemovals /\ crashes \in 0..MaxCrashes
        /\ faults \in 0..MaxFaults
    BY SMT, BoundsAssumption DEF Init
  <1>6. /\ password = AppGUID /\ hmacAlgorithm = 3 /\ isNewDatabase = FALSE
        /\ databases = [n \in Names |-> NoConnection]
        /\ pc = "idle" /\ call = "none" /\ name = AnyName
        /\ oldCipherParams = V4 /\ tempFile = NoFile /\ unmoved = {}
    BY SMT DEF Init
  <1> QED BY <1>1, <1>2, <1>3, <1>4, <1>5, <1>6, KeysAssumption, NameType,
            VersionParams, FilesType DEF TypeOK, PCs

LEMMA ReturnType ==
    ASSUME Return
    PROVE  /\ pc' = "idle" /\ pc' \in PCs
           /\ call' \in {"none", "open", "install", "cipherUpgrade"}
           /\ name' \in Names /\ oldCipherParams' \in Params /\ unmoved' \subseteq Names
  BY NameType, VersionParams DEF Return, PCs

LEMMA FaultType ==
    ASSUME TypeOK, Fault
    PROVE  /\ faults' = faults + 1 /\ faults' \in 0..MaxFaults
           /\ removals' \in 0..MaxRemovals /\ crashes' \in 0..MaxCrashes
  BY BoundsAssumption DEF TypeOK, Fault

LEMMA ConnectType ==
    ASSUME TypeOK, NEW migrated \in BOOLEAN, Connect(migrated)
    PROVE  databases' \in [Names -> Connection]
  <1>1. CurrentCipherParams \in Params
    BY CurrentType DEF TypeOK
  <1> QED BY <1>1 DEF Connect, TypeOK, Connection

LEMMA RestartType ==
    ASSUME TypeOK, Restart
    PROVE  /\ password' \in Keys /\ hmacAlgorithm' \in {3} \cup HashArgs
           /\ kdfIterations' \in KdfNumbers /\ isNewDatabase' \in BOOLEAN
           /\ databases' \in [Names -> Connection]
  <1>1. NoConnection \in Connection
    BY KeysAssumption, VersionParams DEF NoConnection, Connection
  <1>2. kdfIterations' \in KdfNumbers
    BY SMT DEF Restart, KdfNumbers
  <1>3. /\ password' = AppGUID /\ hmacAlgorithm' = 3 /\ isNewDatabase' = FALSE
        /\ databases' = [n \in Names |-> NoConnection]
    BY SMT DEF Restart
  <1> QED BY <1>1, <1>2, <1>3, KeysAssumption

(* CheckWith with either outcome of the write. *)
LEMMA CheckType ==
    ASSUME TypeOK, NEW written \in BOOLEAN, CheckWith(written),
           faults' \in 0..MaxFaults, UNCHANGED <<removals, crashes>>
    PROVE  TypeOK'
  <1> DEFINE recorded == RecordedParams(versions[name])
  <1>1. recorded \in Params
    BY VersionParams DEF TypeOK, Version, RecordedParams
  <1>2. VersionOf(CurrentCipherParams) \in Version
    BY CurrentType DEF TypeOK, VersionOf, Version
  <1>3. versions' \in [Names -> Version]
    BY <1>2 DEF CheckWith, TypeOK
  <1>4. /\ pc' \in PCs /\ call' \in {"none", "open", "install", "cipherUpgrade"}
        /\ name' \in Names /\ oldCipherParams' \in Params /\ unmoved' \subseteq Names
    <2>1. CASE Return
      BY <2>1, ReturnType
    <2>2. CASE Goto("opening")
      BY <2>2 DEF Goto, TypeOK, PCs
    <2>3. CASE /\ pc' = IF call = "cipherUpgrade" THEN "upgrading" ELSE "attaching"
               /\ oldCipherParams' = recorded
               /\ UNCHANGED <<call, name, unmoved>>
      BY <1>1, <2>3 DEF TypeOK, PCs
    <2> QED BY <2>1, <2>2, <2>3 DEF CheckWith
  <1> QED BY <1>3, <1>4 DEF CheckWith, TypeOK, module, olddir

LEMMA CallStepType == TypeOK /\ CallStep => TypeOK'
  <1> SUFFICES ASSUME TypeOK, CallStep PROVE TypeOK'
    OBVIOUS
  <1>1. CASE CreateDir
    BY <1>1 DEF CreateDir, AfterDbPath, TypeOK, PCs, module, olddir, counts
  <1>2. CASE MoveOldFile
    <2>1. PICK n \in unmoved :
              /\ unmoved' = unmoved \ {n}
              /\ \/ UNCHANGED <<files, oldFiles>>
                 \/ /\ files' = [files EXCEPT ![n] = oldFiles[n]]
                    /\ oldFiles' = [oldFiles EXCEPT ![n] = NoFile]
      BY <1>2 DEF MoveOldFile
    <2>2. files' \in [Names -> File] /\ oldFiles' \in [Names -> File]
      BY <2>1, FilesType DEF TypeOK
    <2> QED BY <1>2, <2>1, <2>2 DEF MoveOldFile, TypeOK, module, counts
  <1>3. CASE MoveOldFileFails
    BY <1>3, FaultType DEF MoveOldFileFails, TypeOK, module, dir, olddir
  <1>4. CASE RemoveOldDir
    BY <1>4, FilesType DEF RemoveOldDir, Goto, AfterDbPath, TypeOK, PCs, module, dir, counts
  <1>19. CASE RemoveOldDirFails
    <2>1. oldFiles' \in [Names -> File]
      BY <1>19, FilesType DEF RemoveOldDirFails, TypeOK
    <2>2. pc' \in PCs
      BY <1>19 DEF RemoveOldDirFails, Goto, AfterDbPath, PCs
    <2> QED BY <1>19, <2>1, <2>2, FaultType DEF RemoveOldDirFails, Goto, TypeOK, module, dir
  <1>5. CASE Copy
    <2>1. files' \in [Names -> File] /\ saved' \subseteq Rows
      <3>1. CASE UNCHANGED <<files, saved>>
        BY <3>1 DEF TypeOK
      <3>2. CASE /\ \E f \in {LegacyPlain(name), LegacyCipher(name, V4)} :
                       files' = [files EXCEPT ![name] = f]
                 /\ saved' = saved \cup LegacyRows(name)
        BY <3>2, LegacyType, VersionParams DEF TypeOK
      <3> QED BY <1>5, <3>1, <3>2 DEF Copy
    <2> QED BY <1>5, <2>1 DEF Copy, Goto, TypeOK, PCs, module, olddir, counts
  <1>6. CASE CopyFails
    BY <1>6, FaultType, ReturnType DEF CopyFails, TypeOK, module, dir, olddir
  <1>7. CASE Check
    BY <1>7, CheckType DEF Check, TypeOK, counts
  <1>8. CASE CheckWriteFails
    BY <1>8, CheckType, FaultType DEF CheckWriteFails, Fault
  <1>9. CASE OpenDatabase
    <2>1. files' \in [Names -> File]
      BY <1>9, FilesType DEF OpenDatabase, TypeOK
    <2>2. databases' \in [Names -> Connection]
      BY <1>9, ConnectType DEF OpenDatabase
    <2> QED BY <1>9, <2>1, <2>2, ReturnType DEF OpenDatabase, TypeOK, module, olddir, counts
  <1>10. CASE UpgradeRaises
    <2>1. files' \in [Names -> File]
      BY <1>10, FilesType DEF UpgradeRaises, TypeOK
    <2> QED BY <1>10, <2>1, ReturnType DEF UpgradeRaises, TypeOK, module, olddir, counts
  <1>11. CASE Attach
    <2>1. files' \in [Names -> File] /\ tempFile' \in File
      BY <1>11, FilesType DEF Attach, TypeOK
    <2>2. Goto("exporting") \/ Return
      BY <1>11 DEF Attach
    <2>3. /\ pc' \in PCs /\ call' \in {"none", "open", "install", "cipherUpgrade"}
          /\ name' \in Names /\ oldCipherParams' \in Params /\ unmoved' \subseteq Names
      BY <2>2, ReturnType DEF Goto, TypeOK, PCs
    <2> QED BY <1>11, <2>1, <2>3 DEF Attach, TypeOK, module, olddir, counts
  <1>12. CASE ExportSchema
    <2>1. tempFile' \in File
      <3>1. CipherFile(CurrentCipherParams, password, tempFile.tables \cup files[name].tables,
                       tempFile.rows) \in File
        BY FilesType, CurrentType DEF TypeOK, File
      <3> QED BY <1>12, <3>1 DEF ExportSchema, TypeOK
    <2>2. Goto("copying rows") \/ Return
      BY <1>12 DEF ExportSchema
    <2>3. /\ pc' \in PCs /\ call' \in {"none", "open", "install", "cipherUpgrade"}
          /\ name' \in Names /\ oldCipherParams' \in Params /\ unmoved' \subseteq Names
      BY <2>2, ReturnType DEF Goto, TypeOK, PCs
    <2> QED BY <1>12, <2>1, <2>3 DEF ExportSchema, TypeOK, module, olddir, counts
  <1>13. CASE ExportRows
    <2>1. tempFile' \in File
      BY <1>13 DEF ExportRows, TypeOK, File
    <2> QED BY <1>13, <2>1 DEF ExportRows, Goto, TypeOK, PCs, module, olddir, counts
  <1>14. CASE RemoveOldCopy
    BY <1>14, FilesType DEF RemoveOldCopy, Goto, TypeOK, PCs, module, olddir, counts
  <1>15. CASE MoveNewCopy
    BY <1>15, FilesType DEF MoveNewCopy, Goto, TypeOK, PCs, module, olddir, counts
  <1>16. CASE OpenMigrated
    <2>1. files' \in [Names -> File]
      BY <1>16, FilesType DEF OpenMigrated, TypeOK
    <2>2. databases' \in [Names -> Connection]
      BY <1>16, ConnectType DEF OpenMigrated
    <2> QED BY <1>16, <2>1, <2>2, ReturnType DEF OpenMigrated, TypeOK, module, olddir, counts
  <1>17. CASE StepFails
    BY <1>17, FaultType, ReturnType DEF StepFails, TypeOK, module, dir, olddir
  <1> QED BY <1>1, <1>2, <1>3, <1>4, <1>5, <1>6, <1>7, <1>8, <1>9, <1>10, <1>11, <1>12,
             <1>13, <1>14, <1>15, <1>16, <1>17, <1>19 DEF CallStep

LEMMA NextType == TypeOK /\ [Next]_vars => TypeOK'
  <1> SUFFICES ASSUME TypeOK, [Next]_vars PROVE TypeOK'
    OBVIOUS
  <1>1. ASSUME NEW k \in Keys, SetPassword(k) PROVE TypeOK'
    BY <1>1 DEF SetPassword, TypeOK, running, dir, olddir, counts
  <1>2. ASSUME NEW v \in HashArgs, SetHmacAlgorithm(v) PROVE TypeOK'
    BY <1>2 DEF SetHmacAlgorithm, TypeOK, running, dir, olddir, counts
  <1>3. ASSUME NEW v \in KdfArgs, SetHmacKdfIterations(v) PROVE TypeOK'
    <2>1. v \in Int
      BY ArgsAssumption
    <2>4. kdfIterations' = IF v > 256000 THEN 256000 ELSE IF v < 4000 THEN 4000 ELSE v
      BY SMT, <1>3 DEF SetHmacKdfIterations
    <2>2. kdfIterations' \in KdfNumbers
      BY SMT, <2>1, <2>4 DEF KdfNumbers
    <2>3. UNCHANGED <<password, hmacAlgorithm, isNewDatabase, databases, running,
                      dir, olddir, saved, counts>>
      BY SMT, <1>3 DEF SetHmacKdfIterations
    <2> QED BY <2>2, <2>3 DEF TypeOK, running, dir, olddir, counts
  <1>4. ASSUME NEW n \in Names, NEW c \in Calls, Enter(c, n) PROVE TypeOK'
    BY <1>4, BeginningsAssumption DEF Enter, TypeOK, PCs, module, dir, olddir, counts
  <1>5. ASSUME NEW n \in Names, Open(n) \/ Install(n) \/ CipherUpgrade(n) PROVE TypeOK'
    <2>1. PICK c : Enter(c, n)
      BY <1>5 DEF Open, Install, CipherUpgrade
    <2>2. c \in Calls
      BY <2>1 DEF Enter
    <2> QED BY <1>4, <2>1, <2>2
  <1>6. ASSUME NEW n \in Names, NEW id \in RowIds, Execute(n, id) PROVE TypeOK'
    <2>1. {n} \in SUBSET Names /\ {<<n, id>>} \in SUBSET Rows
      BY DEF Rows
    <2>2. CipherFile(databases[n].params, databases[n].key, {n}, {<<n, id>>}) \in File
      BY <2>1, FilesType DEF TypeOK, Connection
    <2>3. [files[n] EXCEPT !.tables = @ \cup {n}, !.rows = @ \cup {<<n, id>>}] \in File
      BY <2>1 DEF TypeOK, File
    <2> DEFINE new == IF files[n].kind = "blank"
                      THEN CipherFile(databases[n].params, databases[n].key, {n}, {<<n, id>>})
                      ELSE [files[n] EXCEPT !.tables = @ \cup {n}, !.rows = @ \cup {<<n, id>>}]
    <2>4. files' \in [Names -> File]
      <3>1. new \in File
        BY <2>2, <2>3
      <3>2. files' = [files EXCEPT ![n] = new]
        BY <1>6 DEF Execute
      <3> HIDE DEF new
      <3> QED BY <3>1, <3>2 DEF TypeOK
    <2> QED BY <1>6, <2>1, <2>4 DEF Execute, TypeOK, module, running, olddir, counts
  <1>7. ASSUME NEW n \in Names, Close(n) PROVE TypeOK'
    <2>1. databases' \in [Names -> Connection]
      BY <1>7 DEF Close, TypeOK, Connection
    <2> QED BY <1>7, <2>1 DEF Close, TypeOK, module, running, dir, olddir, counts
  <1>8. ASSUME NEW n \in Names, Remove(n) PROVE TypeOK'
    <2>1. databases' \in [Names -> Connection]
      BY <1>8 DEF Remove, TypeOK, Connection
    <2>2. removals' \in 0..MaxRemovals
      BY <1>8, BoundsAssumption DEF Remove, TypeOK
    <2> QED BY <1>8, <2>1, <2>2, FilesType DEF Remove, TypeOK, module, running, olddir
  <1>9. CASE Quit
    <2>1. Restart /\ UNCHANGED counts
      BY <1>9 DEF Quit
    <2>2. Return /\ UNCHANGED <<dir, olddir, saved>>
      BY SMT, <2>1 DEF Restart
    <2> QED BY <2>1, <2>2, RestartType, ReturnType DEF TypeOK, dir, olddir, counts
  <1>10. CASE Crash
    <2>1. Restart /\ UNCHANGED <<removals, faults>> /\ crashes' \in 0..MaxCrashes
      BY <1>10, BoundsAssumption DEF Crash, TypeOK
    <2>2. Return /\ UNCHANGED <<dir, olddir, saved>>
      BY SMT, <2>1 DEF Restart
    <2> QED BY <2>1, <2>2, RestartType, ReturnType DEF TypeOK, dir, olddir
  <1>11. CASE UNCHANGED vars
    BY <1>11 DEF vars, module, running, dir, olddir, counts, TypeOK
  <1>12. CASE CallStep
    BY <1>12, CallStepType
  <1> QED BY <1>1, <1>2, <1>3, <1>5, <1>6, <1>7, <1>8, <1>9, <1>10, <1>11, <1>12 DEF Next

(* Every variable keeps its type. *)
THEOREM TypeCorrect == Spec => []TypeOK
  BY InitType, NextType, PTL DEF Spec
-----------------------------------------------------------------------------
(* The inductive invariant.  DataOnDisk is kept by the step that removes   *)
(* the old copy only because the export is complete at that point, by the  *)
(* rename only because the old copy is gone, and by the removal of the old *)
(* directory because no call gets past it before.                          *)

(* A file that was never written to is empty, and only tables have rows. *)
Shaped(f) ==
    /\ f.kind \in {"absent", "blank"} => f.tables = {}
    /\ f.tables = {} => f.rows = {}

FileShapes ==
    /\ \A n \in Names : Shaped(files[n]) /\ Shaped(oldFiles[n])
    /\ Shaped(tempFile)

(* Where each step of a call finds the files. *)
MigrationProgress ==
    /\ pc # "idle" => databases[name].state # "open"
    /\ pc \in {"exporting", "copying rows", "replacing"}
          => (files[name].kind = "cipher" => files[name].key = password)
    /\ pc \in {"exporting", "copying rows", "replacing", "renaming"}
          => CanRead(tempFile, password, CurrentCipherParams)
    /\ pc = "copying rows" => files[name].tables \subseteq tempFile.tables
    /\ pc = "replacing" => files[name].rows \subseteq tempFile.rows
    /\ pc = "renaming" => files[name].kind = "absent"
    /\ pc = "reopening" => CanRead(files[name], password, CurrentCipherParams)

(* The old directory is gone before any database is opened, unless removing *)
(* it failed.                                                               *)
OldDirectory ==
    /\ oldDir /\ faults = 0
          => /\ pc \in {"idle", "entering", "moving"}
             /\ \A n \in Names : databases[n].state = "none"
             /\ \A n \in Names : files[n].kind = "absent" \/ oldFiles[n].kind = "absent"
    /\ pc = "moving" => oldDir
    /\ pc = "moving" /\ faults = 0
          => \A n \in Names \ unmoved : oldFiles[n].kind = "absent"
    /\ \A n \in Names : oldFiles[n].rows \subseteq LegacyRows(n)
    /\ "old directory" \notin Beginnings => \A n \in Names : oldFiles[n].kind = "absent"

FilesInv == TypeOK /\ FileShapes /\ MigrationProgress /\ OldDirectory

(* Behind NamesKeepTheirRows: temp.db is empty when a migration begins and *)
(* then has rows of the one name that is migrated.                         *)
NamesApart ==
    crashes = 0 /\ faults = 0 =>
        /\ \A n \in Names : files[n].rows \subseteq {n} \X RowIds
        /\ tempFile.rows \subseteq {name} \X RowIds
        /\ pc \notin {"copying rows", "replacing", "renaming"} => tempFile.tables = {}

LEMMA ShapesHold ==
    /\ Shaped(NoFile) /\ Shaped(BlankFile)
    /\ \A n : Shaped(LegacyPlain(n)) /\ \A p : Shaped(LegacyCipher(n, p))
    /\ \A f : Shaped(f) => Shaped(Created(f))
    /\ \A n : \A f \in Found(n) : Shaped(f) /\ f.rows \subseteq LegacyRows(n)
  <1>1. Shaped(NoFile) /\ Shaped(BlankFile)
    BY FilesHave DEF Shaped
  <1>2. \A n : Shaped(LegacyPlain(n)) /\ \A p : Shaped(LegacyCipher(n, p))
    BY FilesHave DEF Shaped
  <1>3. \A f : Shaped(f) => Shaped(Created(f))
    BY <1>1 DEF Created
  <1>4. \A n : \A f \in Found(n) : Shaped(f) /\ f.rows \subseteq LegacyRows(n)
    BY <1>1, <1>2, FilesHave DEF Found
  <1> QED BY <1>1, <1>2, <1>3, <1>4

(* The steps that change a file; all others are quiet. *)
LEMMA StepsOfFiles ==
    ASSUME [Next]_vars
    PROVE  \/ UNCHANGED <<files, oldFiles, tempFile>>
           \/ MoveOldFile \/ RemoveOldDir \/ RemoveOldDirFails \/ Copy
           \/ OpenDatabase \/ UpgradeRaises
           \/ Attach \/ ExportSchema \/ ExportRows \/ RemoveOldCopy \/ MoveNewCopy
           \/ OpenMigrated
           \/ \E n \in Names, id \in RowIds : Execute(n, id)
           \/ \E n \in Names : Remove(n)
  <1>1. CASE CallStep
    <2>1. CASE CreateDir
      BY <2>1 DEF CreateDir, olddir
    <2>2. CASE MoveOldFileFails \/ CopyFails \/ StepFails
      BY <2>2 DEF MoveOldFileFails, CopyFails, StepFails, dir, olddir
    <2>3. CASE Check \/ CheckWriteFails
      BY <2>3 DEF Check, CheckWriteFails, CheckWith, olddir
    <2> QED BY <1>1, <2>1, <2>2, <2>3 DEF CallStep
  <1>2. CASE Quit \/ Crash
    <2>1. Restart
      BY <1>2 DEF Quit, Crash
    <2> QED BY SMT, <2>1 DEF Restart, dir, olddir
  <1>3. CASE UNCHANGED vars
    BY <1>3 DEF vars, dir, olddir
  <1>4. CASE \E v \in KdfArgs : SetHmacKdfIterations(v)
    BY SMT, <1>4 DEF SetHmacKdfIterations, dir, olddir
  <1>5. CASE \/ \E k \in Keys : SetPassword(k)
             \/ \E v \in HashArgs : SetHmacAlgorithm(v)
    BY <1>5 DEF SetPassword, SetHmacAlgorithm, dir, olddir
  <1>6. CASE \E n \in Names : \/ Open(n) \/ Install(n) \/ CipherUpgrade(n) \/ Close(n)
    BY <1>6 DEF Open, Install, CipherUpgrade, Enter, Close, dir, olddir
  <1> QED BY <1>1, <1>2, <1>3, <1>4, <1>5, <1>6 DEF Next

LEMMA ShapesStep == FilesInv /\ [Next]_vars => FileShapes'
  <1> SUFFICES ASSUME FilesInv, [Next]_vars PROVE FileShapes'
    OBVIOUS
  <1> USE DEF FilesInv
  (* A step that replaces one file. *)
  <1>0. ASSUME NEW m \in Names, NEW f, files' = [files EXCEPT ![m] = f],
               Shaped(f), UNCHANGED oldFiles, Shaped(tempFile')
        PROVE  FileShapes'
    BY <1>0 DEF TypeOK, FileShapes, Shaped
  <1>1. CASE UNCHANGED <<files, oldFiles, tempFile>>
    BY <1>1 DEF FileShapes, Shaped
  <1>2. CASE MoveOldFile
    <2>1. PICK n \in unmoved :
              \/ UNCHANGED <<files, oldFiles>>
              \/ /\ files' = [files EXCEPT ![n] = oldFiles[n]]
                 /\ oldFiles' = [oldFiles EXCEPT ![n] = NoFile]
      BY <1>2 DEF MoveOldFile
    <2>2. n \in Names /\ UNCHANGED tempFile
      BY <1>2 DEF MoveOldFile, TypeOK
    <2>3. \A k \in Names : /\ files'[k] \in {files[k], oldFiles[k]}
                            /\ oldFiles'[k] \in {oldFiles[k], NoFile}
      BY <2>1, <2>2 DEF TypeOK
    <2> QED BY <2>2, <2>3, ShapesHold DEF FileShapes
  <1>3. CASE RemoveOldDir
    BY <1>3, ShapesHold DEF RemoveOldDir, dir, FileShapes
  <1>20. CASE RemoveOldDirFails
    <2>1. /\ UNCHANGED <<files, tempFile>>
          /\ \A n \in Names : oldFiles'[n] \in {oldFiles[n], NoFile}
      BY <1>20 DEF RemoveOldDirFails, dir
    <2> QED BY <2>1, ShapesHold DEF FileShapes
  <1>4. CASE Copy
    <2>1. CASE UNCHANGED files
      BY <1>4, <2>1 DEF Copy, olddir, FileShapes
    <2>2. CASE \E f \in {LegacyPlain(name), LegacyCipher(name, V4)} :
                   files' = [files EXCEPT ![name] = f]
      <3>1. UNCHANGED <<oldFiles, tempFile>> /\ name \in Names /\ Shaped(tempFile)
        BY <1>4 DEF Copy, olddir, TypeOK, FileShapes
      <3>2. Shaped(tempFile')
        BY <3>1
      <3> QED BY <1>0, <2>2, <3>1, <3>2, ShapesHold
    <2> QED BY <1>4, <2>1, <2>2 DEF Copy
  <1>5. CASE OpenDatabase \/ UpgradeRaises \/ OpenMigrated \/ Attach
    <2>1. /\ files' = [files EXCEPT ![name] = Created(files[name])]
          /\ UNCHANGED oldFiles /\ name \in Names
          /\ tempFile' \in {tempFile, Created(tempFile)}
      BY <1>5 DEF OpenDatabase, UpgradeRaises, OpenMigrated, Attach, olddir, TypeOK
    <2>2. Shaped(Created(files[name])) /\ Shaped(tempFile')
      BY <2>1, ShapesHold DEF FileShapes
    <2> QED BY <1>0, <2>1, <2>2
  <1>6. CASE ExportSchema
    <2>1. UNCHANGED <<files, oldFiles>>
      BY <1>6 DEF ExportSchema, olddir
    <2>2. Shaped(tempFile')
      <3>1. CASE UNCHANGED tempFile
        BY <3>1 DEF FileShapes, Shaped
      <3>2. CASE /\ files[name].tables # {}
                 /\ tempFile' = CipherFile(CurrentCipherParams, password,
                                           tempFile.tables \cup files[name].tables,
                                           tempFile.rows)
        <4>1. tempFile'.kind = "cipher" /\ tempFile'.tables # {}
          BY <3>2 DEF CipherFile
        <4> QED BY <4>1 DEF Shaped
      <3> QED BY <1>6, <3>1, <3>2 DEF ExportSchema
    <2> QED BY <2>1, <2>2 DEF FileShapes
  <1>7. CASE ExportRows
    <2>1. UNCHANGED <<files, oldFiles>> /\ pc = "copying rows" /\ name \in Names
      BY <1>7 DEF ExportRows, olddir, TypeOK
    <2>2. /\ tempFile'.kind = tempFile.kind /\ tempFile'.tables = tempFile.tables
          /\ tempFile'.rows = tempFile.rows \cup files[name].rows
      BY <1>7 DEF ExportRows, TypeOK, File
    <2>3. files[name].tables \subseteq tempFile.tables
      BY <2>1 DEF MigrationProgress
    <2>4. Shaped(files[name]) /\ Shaped(tempFile)
      BY <2>1 DEF FileShapes
    <2>5. Shaped(tempFile')
      BY <2>2, <2>3, <2>4 DEF Shaped
    <2> QED BY <2>1, <2>5 DEF FileShapes
  <1>8. CASE RemoveOldCopy
    <2>1. /\ files' = [files EXCEPT ![name] = NoFile] /\ name \in Names
          /\ UNCHANGED <<oldFiles, tempFile>>
      BY <1>8 DEF RemoveOldCopy, olddir, TypeOK
    <2>2. Shaped(tempFile')
      BY <2>1 DEF FileShapes
    <2> QED BY <1>0, <2>1, <2>2, ShapesHold
  <1>9. CASE MoveNewCopy
    <2>1. /\ files' = [files EXCEPT ![name] = tempFile] /\ name \in Names
          /\ tempFile' = NoFile /\ UNCHANGED oldFiles
      BY <1>9 DEF MoveNewCopy, olddir, TypeOK
    <2>2. Shaped(tempFile) /\ Shaped(tempFile')
      BY <2>1, ShapesHold DEF FileShapes
    <2> QED BY <1>0, <2>1, <2>2
  <1>10. ASSUME NEW n \in Names, NEW id \in RowIds, Execute(n, id) PROVE FileShapes'
    <2> DEFINE new == IF files[n].kind = "blank"
                      THEN CipherFile(databases[n].params, databases[n].key, {n}, {<<n, id>>})
                      ELSE [files[n] EXCEPT !.tables = @ \cup {n}, !.rows = @ \cup {<<n, id>>}]
    <2>1. files' = [files EXCEPT ![n] = new] /\ UNCHANGED <<oldFiles, tempFile>>
      BY <1>10 DEF Execute, olddir
    <2>2. CanRead(files[n], databases[n].key, databases[n].params)
      BY <1>10 DEF Execute, Reads
    <2>3. new.kind = "cipher" /\ new.tables # {}
      <3>1. CASE files[n].kind = "blank"
        BY <3>1 DEF CipherFile
      <3>2. CASE files[n].kind = "cipher"
        BY <3>2 DEF TypeOK, File
      <3> QED BY <2>2, <3>1, <3>2 DEF CanRead
    <2> HIDE DEF new
    <2>4. Shaped(new) /\ Shaped(tempFile')
      BY <2>1, <2>3 DEF Shaped, FileShapes
    <2> QED BY <1>0, <2>1, <2>4
  <1>11. ASSUME NEW n \in Names, Remove(n) PROVE FileShapes'
    <2>1. /\ files' = [files EXCEPT ![n] = NoFile]
          /\ UNCHANGED <<oldFiles, tempFile>>
      BY <1>11 DEF Remove, olddir
    <2>2. Shaped(tempFile')
      BY <2>1 DEF FileShapes
    <2> QED BY <1>0, <2>1, <2>2, ShapesHold
  <1> QED BY <1>1, <1>2, <1>3, <1>4, <1>5, <1>6, <1>7, <1>8, <1>9, <1>10, <1>11, <1>20,
             StepsOfFiles

(* No step brings the old directory back, puts a file into it or forgets a *)
(* fault.                                                                  *)
LEMMA OldDirGone ==
    ASSUME TypeOK, OldDirectory, [Next]_vars
    PROVE  /\ oldDir' => oldDir
           /\ pc' = "moving" => oldDir'
           /\ faults' \in {faults, faults + 1}
           /\ \A n \in Names : oldFiles'[n] \in {oldFiles[n], NoFile}
  <1> DEFINE Still == UNCHANGED <<oldDir, oldFiles, faults>>
             Done == /\ oldDir' => oldDir
                     /\ pc' = "moving" => oldDir'
                     /\ faults' \in {faults, faults + 1}
                     /\ \A n \in Names : oldFiles'[n] \in {oldFiles[n], NoFile}
  <1>1. ASSUME UNCHANGED <<oldDir, oldFiles>>, faults' \in {faults, faults + 1},
               pc' # "moving" \/ pc' = pc
        PROVE  Done
    BY <1>1 DEF OldDirectory
  <1>2. CASE CallStep
    <2>1. CASE CreateDir
      BY <2>1 DEF CreateDir, AfterDbPath, olddir, counts
    <2>2. CASE MoveOldFile
      <3>1. UNCHANGED <<pc, oldDir, faults>>
        BY <2>2 DEF MoveOldFile, counts
      <3>2. PICK n \in unmoved :
                oldFiles' = [oldFiles EXCEPT ![n] = NoFile] \/ oldFiles' = oldFiles
        BY <2>2 DEF MoveOldFile
      <3>3. \A m \in Names : oldFiles'[m] \in {oldFiles[m], NoFile}
        BY <3>2 DEF TypeOK
      <3> QED BY <3>1, <3>3 DEF OldDirectory
    <2>3. CASE RemoveOldDir \/ RemoveOldDirFails
      <3>1. /\ oldDir' => oldDir
            /\ pc' # "moving"
            /\ faults' \in {faults, faults + 1}
        BY <2>3 DEF RemoveOldDir, RemoveOldDirFails, Goto, AfterDbPath, Fault, counts
      <3>2. \A m \in Names : oldFiles'[m] \in {oldFiles[m], NoFile}
        BY <2>3 DEF RemoveOldDir, RemoveOldDirFails
      <3> QED BY <3>1, <3>2
    <2>4. CASE MoveOldFileFails \/ Copy \/ CopyFails
      BY <1>1, <2>4 DEF MoveOldFileFails, Copy, CopyFails, Fault, Goto, Return, olddir, counts
    <2>5. CASE Check \/ CheckWriteFails
      BY <1>1, <2>5 DEF Check, CheckWriteFails, CheckWith, Fault, Goto, Return, olddir, counts
    <2>6. CASE OpenDatabase \/ UpgradeRaises \/ OpenMigrated \/ StepFails
      BY <1>1, <2>6 DEF OpenDatabase, UpgradeRaises, OpenMigrated, StepFails, Fault, Return,
                        olddir, counts
    <2>7. CASE Attach \/ ExportSchema
      BY <1>1, <2>7 DEF Attach, ExportSchema, Goto, Return, olddir, counts
    <2>8. CASE ExportRows \/ RemoveOldCopy \/ MoveNewCopy
      BY <1>1, <2>8 DEF ExportRows, RemoveOldCopy, MoveNewCopy, Goto, olddir, counts
    <2> QED BY <1>2, <2>1, <2>2, <2>3, <2>4, <2>5, <2>6, <2>7, <2>8 DEF CallStep
  <1>3. CASE Quit \/ Crash
    <2>1. Restart /\ UNCHANGED faults
      BY <1>3 DEF Quit, Crash, counts
    <2>2. UNCHANGED <<oldDir, oldFiles>> /\ pc' = "idle"
      BY SMT, <2>1 DEF Restart, Return, olddir
    <2> QED BY <1>1, <2>1, <2>2
  <1>4. CASE UNCHANGED vars
    BY <1>1, <1>4 DEF vars, running, olddir, counts
  <1>5. CASE \E v \in KdfArgs : SetHmacKdfIterations(v)
    <2>1. Still /\ pc' = pc
      BY SMT, <1>5 DEF SetHmacKdfIterations, running, olddir, counts
    <2> QED BY <1>1, <2>1
  <1>6. CASE \/ \E k \in Keys : SetPassword(k)
             \/ \E v \in HashArgs : SetHmacAlgorithm(v)
    BY <1>1, <1>6 DEF SetPassword, SetHmacAlgorithm, running, olddir, counts
  <1>7. CASE \E n \in Names : \/ Open(n) \/ Install(n) \/ CipherUpgrade(n) \/ Close(n)
                              \/ Remove(n) \/ \E id \in RowIds : Execute(n, id)
    BY <1>1, <1>7 DEF Open, Install, CipherUpgrade, Enter, Close, Remove, Execute,
                      running, olddir, counts
  <1> QED BY <1>2, <1>3, <1>4, <1>5, <1>6, <1>7 DEF Next

LEMMA OldDirectoryStep == FilesInv /\ [Next]_vars => OldDirectory'
  <1> SUFFICES ASSUME FilesInv, [Next]_vars PROVE OldDirectory'
    OBVIOUS
  <1> USE DEF FilesInv
  <1>1. CASE ~(oldDir /\ faults = 0)
    <2>1. /\ oldDir' => oldDir
          /\ pc' = "moving" => oldDir'
          /\ faults' \in {faults, faults + 1}
          /\ \A n \in Names : oldFiles'[n] \in {oldFiles[n], NoFile}
      BY OldDirGone
    <2>2. faults' = 0 => faults = 0
      BY <2>1, BoundsAssumption DEF TypeOK
    <2>3. \A n \in Names : /\ oldFiles'[n].rows \subseteq LegacyRows(n)
                           /\ oldFiles[n].kind = "absent" => oldFiles'[n].kind = "absent"
      BY <2>1, FilesHave DEF OldDirectory
    <2> QED BY <1>1, <2>1, <2>2, <2>3 DEF OldDirectory
  <1>2. ASSUME oldDir /\ faults = 0, UNCHANGED <<files, oldFiles>>,
               pc' \in {"idle", "entering"},
               databases' = databases \/ databases' = [n \in Names |-> NoConnection]
        PROVE  OldDirectory'
    <2>1. NoConnection.state = "none"
      BY DEF NoConnection
    <2>2. \A n \in Names : databases'[n].state = "none"
      BY <1>2, <2>1 DEF OldDirectory
    <2> QED BY <1>2, <2>2 DEF OldDirectory
  <1>3. CASE oldDir /\ faults = 0 /\ CallStep
    <2>1. CASE CreateDir
      <3>1. /\ UNCHANGED <<files, oldFiles, oldDir, databases, faults>>
            /\ pc' = "moving" /\ unmoved' = {n \in Names : oldFiles[n].kind # "absent"}
        BY <1>3, <2>1 DEF CreateDir, olddir, counts
      <3> QED BY <1>3, <3>1 DEF OldDirectory
    <2>2. CASE MoveOldFile
      <3>1. PICK n \in unmoved :
                /\ unmoved' = unmoved \ {n}
                /\ IF files[n].kind = "absent"
                   THEN /\ files' = [files EXCEPT ![n] = oldFiles[n]]
                        /\ oldFiles' = [oldFiles EXCEPT ![n] = NoFile]
                   ELSE UNCHANGED <<files, oldFiles>>
        BY <2>2 DEF MoveOldFile
      <3>2. /\ n \in Names /\ pc = "moving" /\ UNCHANGED <<pc, oldDir, databases, faults>>
        BY <2>2 DEF MoveOldFile, counts, TypeOK
      <3>3. \A m \in Names \ {n} : files'[m] = files[m] /\ oldFiles'[m] = oldFiles[m]
        BY <3>1 DEF TypeOK
      <3>4. oldFiles'[n].kind = "absent" /\ oldFiles'[n].rows \subseteq LegacyRows(n)
        <4>1. CASE files[n].kind = "absent"
          <5>1. oldFiles'[n] = NoFile
            BY <3>1, <3>2, <4>1 DEF TypeOK
          <5> QED BY <5>1, FilesHave
        <4>2. CASE files[n].kind # "absent"
          BY <1>3, <3>1, <3>2, <4>2 DEF OldDirectory
        <4> QED BY <4>1, <4>2
      <3>5. \A m \in Names : oldFiles'[m].rows \subseteq LegacyRows(m)
        BY <3>3, <3>4 DEF OldDirectory
      <3>6. \A m \in Names : oldFiles[m].kind = "absent" => oldFiles'[m].kind = "absent"
        BY <3>3, <3>4
      <3>7. \A m \in Names : files'[m].kind = "absent" \/ oldFiles'[m].kind = "absent"
        BY <1>3, <3>3, <3>4 DEF OldDirectory
      <3> QED BY <1>3, <3>1, <3>2, <3>4, <3>5, <3>6, <3>7 DEF OldDirectory
    <2>3. CASE MoveOldFileFails
      <3>1. UNCHANGED <<files, oldFiles, oldDir, databases, pc>> /\ faults' = faults + 1
        BY <2>3 DEF MoveOldFileFails, Fault, dir, olddir
      <3>2. faults' # 0
        BY <3>1, BoundsAssumption DEF TypeOK
      <3> QED BY <1>3, <3>1, <3>2 DEF OldDirectory
    <2>4. CASE RemoveOldDir
      <3>1. /\ oldDir' = FALSE /\ oldFiles' = [n \in Names |-> NoFile] /\ pc' # "moving"
        BY <2>4 DEF RemoveOldDir, Goto, AfterDbPath
      <3> QED BY <3>1, FilesHave DEF OldDirectory
    <2>5. CASE RemoveOldDirFails
      <3>1. /\ pc' # "moving" /\ faults' = faults + 1
            /\ \A n \in Names : oldFiles'[n] \in {oldFiles[n], NoFile}
        BY <2>5 DEF RemoveOldDirFails, Goto, AfterDbPath, Fault
      <3>2. faults' # 0
        BY <3>1, BoundsAssumption DEF TypeOK
      <3>3. \A n \in Names : /\ oldFiles'[n].rows \subseteq LegacyRows(n)
                             /\ oldFiles[n].kind = "absent" => oldFiles'[n].kind = "absent"
        BY <3>1, FilesHave DEF OldDirectory
      <3> QED BY <3>1, <3>2, <3>3 DEF OldDirectory
    <2>6. pc \in {"idle", "entering", "moving"}
      BY <1>3 DEF OldDirectory
    <2> QED BY <1>3, <2>1, <2>2, <2>3, <2>4, <2>5, <2>6
            DEF CallStep, Copy, CopyFails, Check, CheckWriteFails, CheckWith, OpenDatabase,
                UpgradeRaises, Attach, ExportSchema, ExportRows, RemoveOldCopy,
                MoveNewCopy, OpenMigrated, StepFails
  <1>4. CASE oldDir /\ faults = 0 /\ (Quit \/ Crash)
    <2>1. Restart
      BY <1>4 DEF Quit, Crash
    <2>2. /\ UNCHANGED <<files, oldFiles>> /\ pc' = "idle"
          /\ databases' = [n \in Names |-> NoConnection]
      BY SMT, <2>1 DEF Restart, Return, dir, olddir
    <2> QED BY <1>2, <1>4, <2>2
  <1>5. CASE UNCHANGED vars
    BY <1>5 DEF vars, running, dir, olddir, counts, OldDirectory
  <1>6. CASE oldDir /\ faults = 0 /\ \E v \in KdfArgs : SetHmacKdfIterations(v)
    <2>1. UNCHANGED <<files, oldFiles, databases>> /\ pc' = "idle"
      BY SMT, <1>6 DEF SetHmacKdfIterations, running, dir, olddir
    <2> QED BY <1>2, <1>6, <2>1
  <1>7. CASE /\ oldDir /\ faults = 0
             /\ \/ \E k \in Keys : SetPassword(k)
                \/ \E v \in HashArgs : SetHmacAlgorithm(v)
    <2>1. UNCHANGED <<files, oldFiles, databases>> /\ pc' = "idle"
      BY <1>7 DEF SetPassword, SetHmacAlgorithm, running, dir, olddir
    <2> QED BY <1>2, <1>7, <2>1
  <1>8. CASE oldDir /\ faults = 0 /\ \E n \in Names : Open(n) \/ Install(n) \/ CipherUpgrade(n)
    <2>1. UNCHANGED <<files, oldFiles, databases>> /\ pc' = "entering"
      BY <1>8 DEF Open, Install, CipherUpgrade, Enter, dir, olddir
    <2> QED BY <1>2, <1>8, <2>1
  <1>9. ASSUME oldDir /\ faults = 0, NEW n \in Names
        PROVE  ~(Close(n) \/ Remove(n) \/ \E id \in RowIds : Execute(n, id))
    BY <1>9 DEF OldDirectory, Close, Remove, Execute
  <1> QED BY <1>1, <1>3, <1>4, <1>5, <1>6, <1>7, <1>8, <1>9 DEF Next

LEMMA CurrentUnchanged ==
    ASSUME UNCHANGED module
    PROVE  password' = password /\ CurrentCipherParams' = CurrentCipherParams
  BY DEF module, CurrentCipherParams, HashIn

LEMMA ProgressStep == FilesInv /\ [Next]_vars => MigrationProgress'
  <1> SUFFICES ASSUME FilesInv, [Next]_vars PROVE MigrationProgress'
    OBVIOUS
  <1> USE DEF FilesInv
  <1>1. ASSUME pc' = "idle" PROVE MigrationProgress'
    BY <1>1 DEF MigrationProgress
  <1>2. ASSUME pc' \in {"entering", "moving", "installing", "checking", "opening",
                        "upgrading", "attaching"},
               databases'[name'].state # "open"
        PROVE  MigrationProgress'
    BY <1>2 DEF MigrationProgress
  <1>3. ASSUME pc # "idle", UNCHANGED <<databases, name>>
        PROVE  databases'[name'].state # "open"
    BY <1>3 DEF MigrationProgress
  <1>4. CASE CallStep
    <2>1. CASE CreateDir \/ RemoveOldDir \/ RemoveOldDirFails
      <3>1. /\ pc # "idle" /\ UNCHANGED <<databases, name>>
            /\ pc' \in {"moving", "installing", "checking"}
        BY <2>1 DEF CreateDir, RemoveOldDir, RemoveOldDirFails, Goto, AfterDbPath
      <3> QED BY <1>2, <1>3, <3>1
    <2>2. CASE MoveOldFile \/ MoveOldFileFails
      <3>1. pc = "moving" /\ UNCHANGED <<databases, name, pc>>
        BY <2>2 DEF MoveOldFile, MoveOldFileFails
      <3> QED BY <1>2, <1>3, <3>1
    <2>3. CASE Copy
      <3>1. pc # "idle" /\ pc' = "checking" /\ UNCHANGED <<databases, name>>
        BY <2>3 DEF Copy, Goto
      <3> QED BY <1>2, <1>3, <3>1
    <2>4. CASE CopyFails \/ OpenDatabase \/ UpgradeRaises \/ OpenMigrated \/ StepFails
      BY <1>1, <2>4 DEF CopyFails, OpenDatabase, UpgradeRaises, OpenMigrated, StepFails, Return
    <2>5. CASE Check \/ CheckWriteFails
      <3>1. /\ pc # "idle"
            /\ \/ pc' = "idle"
               \/ /\ pc' \in {"upgrading", "attaching", "opening"}
                  /\ UNCHANGED <<databases, name>>
        BY <2>5 DEF Check, CheckWriteFails, CheckWith, Goto, Return
      <3> QED BY <1>1, <1>2, <1>3, <3>1
    <2>6. CASE Attach
      <3>1. CASE Return
        BY <1>1, <3>1 DEF Return
      <3>2. CASE /\ Goto("exporting")
                 /\ CanRead(Created(files[name]), password, oldCipherParams)
                 /\ CanRead(tempFile', password, CurrentCipherParams)
        <4>1. /\ pc # "idle" /\ pc' = "exporting" /\ UNCHANGED <<databases, name, module>>
              /\ files'[name] = Created(files[name])
          BY <2>6, <3>2 DEF Attach, Goto, TypeOK
        <4>2. files'[name].kind = "cipher" => files'[name].key = password
          BY <3>2, <4>1 DEF CanRead
        <4> QED BY <1>3, <3>2, <4>1, <4>2, CurrentUnchanged DEF MigrationProgress
      <3> QED BY <2>6, <3>1, <3>2 DEF Attach
    <2>7. CASE ExportSchema
      <3>1. CASE Return
        BY <1>1, <3>1 DEF Return
      <3>2. CASE /\ Goto("copying rows")
                 /\ tempFile' = IF files[name].tables = {} THEN tempFile
                                ELSE CipherFile(CurrentCipherParams, password,
                                                tempFile.tables \cup files[name].tables,
                                                tempFile.rows)
        <4>1. /\ pc = "exporting" /\ pc' = "copying rows"
              /\ UNCHANGED <<databases, name, module, files>>
          BY <2>7, <3>2 DEF ExportSchema, Goto
        <4>2. /\ CanRead(tempFile', password, CurrentCipherParams)
              /\ files[name].tables \subseteq tempFile'.tables
          <5>1. CASE files[name].tables = {}
            <6>1. tempFile' = tempFile
              BY <3>2, <5>1
            <6>2. CanRead(tempFile, password, CurrentCipherParams)
              BY <4>1 DEF MigrationProgress
            <6> QED BY <5>1, <6>1, <6>2
          <5>2. CASE files[name].tables # {}
            <6>1. tempFile' = CipherFile(CurrentCipherParams, password,
                                         tempFile.tables \cup files[name].tables, tempFile.rows)
              BY <3>2, <5>2
            <6>2. /\ tempFile'.kind = "cipher" /\ tempFile'.key = password
                  /\ tempFile'.params = CurrentCipherParams
                  /\ tempFile'.tables = tempFile.tables \cup files[name].tables
              BY <6>1 DEF CipherFile
            <6> QED BY <6>2 DEF CanRead
          <5> QED BY <5>1, <5>2
        <4> QED BY <1>3, <4>1, <4>2, CurrentUnchanged DEF MigrationProgress
      <3> QED BY <2>7, <3>1, <3>2 DEF ExportSchema
    <2>8. CASE ExportRows
      <3>1. /\ pc = "copying rows" /\ pc' = "replacing"
            /\ UNCHANGED <<databases, name, module, files>>
        BY <2>8 DEF ExportRows, Goto
      <3>2. /\ tempFile'.kind = tempFile.kind /\ tempFile'.key = tempFile.key
            /\ tempFile'.params = tempFile.params
            /\ files[name].rows \subseteq tempFile'.rows
        BY <2>8 DEF ExportRows, TypeOK, File
      <3>3. CanRead(tempFile', password, CurrentCipherParams)
        BY <3>1, <3>2 DEF MigrationProgress, CanRead
      <3> QED BY <1>3, <3>1, <3>2, <3>3, CurrentUnchanged DEF MigrationProgress
    <2>9. CASE RemoveOldCopy
      <3>1. /\ pc = "replacing" /\ pc' = "renaming" /\ files'[name] = NoFile
            /\ UNCHANGED <<databases, name, module, tempFile>>
        BY <2>9 DEF RemoveOldCopy, Goto, TypeOK
      <3> QED BY <1>3, <3>1, CurrentUnchanged, FilesHave DEF MigrationProgress
    <2>10. CASE MoveNewCopy
      <3>1. /\ pc = "renaming" /\ pc' = "reopening" /\ files'[name] = tempFile
            /\ UNCHANGED <<databases, name, module>>
        BY <2>10 DEF MoveNewCopy, Goto, TypeOK
      <3> QED BY <1>3, <3>1, CurrentUnchanged DEF MigrationProgress
    <2> QED BY <1>4, <2>1, <2>2, <2>3, <2>4, <2>5, <2>6, <2>7, <2>8, <2>9, <2>10 DEF CallStep
  <1>5. CASE Quit \/ Crash
    <2>1. Restart
      BY <1>5 DEF Quit, Crash
    <2>2. pc' = "idle"
      BY SMT, <2>1 DEF Restart, Return
    <2> QED BY <1>1, <2>2
  <1>6. CASE UNCHANGED vars
    <2>1. UNCHANGED module
      BY <1>6 DEF vars
    <2> QED BY <1>6, <2>1, CurrentUnchanged DEF vars, running, dir, MigrationProgress
  <1>7. CASE \E v \in KdfArgs : SetHmacKdfIterations(v)
    <2>1. pc' = "idle"
      BY SMT, <1>7 DEF SetHmacKdfIterations, running
    <2> QED BY <1>1, <2>1
  <1>8. CASE \/ \E k \in Keys : SetPassword(k)
             \/ \E v \in HashArgs : SetHmacAlgorithm(v)
             \/ \E n \in Names : Close(n) \/ Remove(n) \/ \E id \in RowIds : Execute(n, id)
    <2>1. pc' = "idle"
      BY <1>8 DEF SetPassword, SetHmacAlgorithm, Close, Remove, Execute, running
    <2> QED BY <1>1, <2>1
  <1>9. CASE \E n \in Names : Open(n) \/ Install(n) \/ CipherUpgrade(n)
    <2>1. pc' = "entering" /\ databases'[name'].state # "open"
      BY <1>9 DEF Open, Install, CipherUpgrade, Enter
    <2> QED BY <1>2, <2>1
  <1> QED BY <1>4, <1>5, <1>6, <1>7, <1>8, <1>9 DEF Next

-----------------------------------------------------------------------------
(* What each step does to the rows at rest: a commit or an installation    *)
(* adds some, a removal takes some, and every other step leaves them, but  *)
(* for those of old files that did not move.                               *)

LEMMA UnionMembers ==
    ASSUME NEW F, NEW G, NEW t, NEW r
    PROVE  r \in (UNION {F[n].rows \cup G[n].rows : n \in Names}) \cup t.rows
               <=> \/ r \in t.rows
                   \/ \E n \in Names : r \in F[n].rows \/ r \in G[n].rows
  <1> DEFINE S == {F[n].rows \cup G[n].rows : n \in Names}
  <1>1. ASSUME r \in UNION S PROVE \E n \in Names : r \in F[n].rows \/ r \in G[n].rows
    <2>1. PICK s \in S : r \in s
      BY <1>1
    <2>2. PICK n \in Names : s = F[n].rows \cup G[n].rows
      BY <2>1
    <2> QED BY <2>1, <2>2
  <1>2. ASSUME NEW n \in Names, r \in F[n].rows \/ r \in G[n].rows PROVE r \in UNION S
    <2>1. F[n].rows \cup G[n].rows \in S
      OBVIOUS
    <2>2. r \in F[n].rows \cup G[n].rows
      BY <1>2
    <2> HIDE DEF S
    <2> QED BY <2>1, <2>2
  <1> QED BY <1>1, <1>2

LEMMA AtRestMembers ==
    /\ \A r : r \in AtRest <=> \/ r \in tempFile.rows
                             \/ \E n \in Names : r \in files[n].rows \/ r \in oldFiles[n].rows
    /\ \A r : r \in AtRest' <=> \/ r \in tempFile'.rows
                              \/ \E n \in Names : r \in files'[n].rows \/ r \in oldFiles'[n].rows
  BY UnionMembers DEF AtRest

(* A step that replaces one file and temp.db. *)
LEMMA OneFileAtRest ==
    ASSUME TypeOK, NEW m \in Names, NEW f, files' = [files EXCEPT ![m] = f],
           UNCHANGED oldFiles, NEW R,
           f.rows \cup tempFile'.rows = (files[m].rows \cup tempFile.rows) \cup R
    PROVE  AtRest' = AtRest \cup R
  <1>1. files'[m] = f /\ \A n \in Names \ {m} : files'[n] = files[n]
    BY DEF TypeOK
  <1>2. ASSUME NEW r PROVE r \in AtRest' <=> r \in AtRest \cup R
    <2>1. r \in f.rows \/ r \in tempFile'.rows
              <=> r \in files[m].rows \/ r \in tempFile.rows \/ r \in R
      OBVIOUS
    <2> QED BY <1>1, <2>1, AtRestMembers
  <1> QED BY <1>2

Kept ==
    /\ UNCHANGED <<saved, removals>> /\ faults' \in {faults, faults + 1}
    /\ AtRest' \subseteq AtRest /\ AtRest \subseteq AtRest' \cup NotMoved'

Committed == \E R \in SUBSET Rows :
    /\ AtRest' = AtRest \cup R /\ saved' = saved \cup R
    /\ UNCHANGED <<removals, faults>>

Removed == \E n \in Names :
    /\ AtRest' \subseteq AtRest /\ saved' = saved \ ({n} \X RowIds)
    /\ removals' = removals + 1 /\ UNCHANGED faults

LEMMA CreatedRows == \A f : Shaped(f) => Created(f).rows = f.rows
  BY FilesHave DEF Created, Shaped

LEMMA QuietKeeps ==
    ASSUME UNCHANGED <<files, oldFiles, tempFile>>
    PROVE  AtRest' = AtRest
  BY DEF AtRest

LEMMA CallStepRows == FilesInv /\ CallStep => Kept \/ Committed
  <1> SUFFICES ASSUME FilesInv, CallStep PROVE Kept \/ Committed
    OBVIOUS
  <1> USE DEF FilesInv
  <1>0. name \in Names /\ Shaped(files[name]) /\ Shaped(tempFile)
    BY DEF TypeOK, FileShapes
  (* A step that replaces one file and leaves the rows. *)
  <1>1. ASSUME NEW f, files' = [files EXCEPT ![name] = f], UNCHANGED <<oldFiles, saved, removals, faults>>,
               f.rows \cup tempFile'.rows = files[name].rows \cup tempFile.rows
        PROVE  Kept
    <2>1. AtRest' = AtRest \cup {}
      <3>1. f.rows \cup tempFile'.rows = (files[name].rows \cup tempFile.rows) \cup {}
        BY <1>1
      <3> QED BY ONLY TypeOK, <1>0, <1>1, <3>1, OneFileAtRest
    <2> QED BY <1>1, <2>1 DEF Kept
  <1>2. ASSUME UNCHANGED <<files, oldFiles, tempFile, saved, removals>>,
               faults' \in {faults, faults + 1}
        PROVE  Kept
    BY <1>2, QuietKeeps DEF Kept
  <1>3. CASE CreateDir
    BY <1>2, <1>3 DEF CreateDir, olddir, counts
  <1>4. CASE MoveOldFile
    <2>1. PICK n \in unmoved :
              \/ UNCHANGED <<files, oldFiles>>
              \/ /\ files[n].kind = "absent"
                 /\ files' = [files EXCEPT ![n] = oldFiles[n]]
                 /\ oldFiles' = [oldFiles EXCEPT ![n] = NoFile]
      BY <1>4 DEF MoveOldFile
    <2>2. n \in Names /\ UNCHANGED <<tempFile, saved, removals, faults>>
      BY <1>4 DEF MoveOldFile, TypeOK, counts
    <2>3. CASE UNCHANGED <<files, oldFiles>>
      BY <1>2, <2>2, <2>3
    <2>4. CASE /\ files[n].kind = "absent"
               /\ files' = [files EXCEPT ![n] = oldFiles[n]]
               /\ oldFiles' = [oldFiles EXCEPT ![n] = NoFile]
      <3>1. files'[n] = oldFiles[n] /\ oldFiles'[n] = NoFile
        BY <2>2, <2>4 DEF TypeOK
      <3>2. \A k \in Names \ {n} : files'[k] = files[k] /\ oldFiles'[k] = oldFiles[k]
        BY <2>4 DEF TypeOK
      <3>3. files[n].rows = {} /\ NoFile.rows = {}
        BY <2>2, <2>4, FilesHave DEF FileShapes, Shaped
      <3>4. ASSUME NEW r PROVE r \in AtRest' <=> r \in AtRest
        BY <2>2, <3>1, <3>2, <3>3, AtRestMembers
      <3> QED BY <2>2, <3>4 DEF Kept
    <2> QED BY <2>1, <2>3, <2>4
  <1>5. CASE MoveOldFileFails \/ CopyFails \/ StepFails
    BY <1>2, <1>5 DEF MoveOldFileFails, CopyFails, StepFails, Fault, dir, olddir
  <1>6. CASE RemoveOldDir
    <2>1. /\ pc = "moving" /\ unmoved = {} /\ UNCHANGED <<files, tempFile, saved, removals, faults>>
          /\ oldFiles' = [n \in Names |-> NoFile]
      BY <1>6 DEF RemoveOldDir, dir, counts
    <2>2. AtRest' \subseteq AtRest
      <3>1. ASSUME NEW r \in AtRest' PROVE r \in AtRest
        BY <2>1, FilesHave, AtRestMembers
      <3> QED BY <3>1
    <2>3. ASSUME NEW r \in AtRest, r \notin AtRest' PROVE r \in NotMoved'
      <3>1. PICK n \in Names : r \in oldFiles[n].rows
        BY <2>1, <2>3, AtRestMembers
      <3>2. oldFiles[n].kind # "absent"
        BY <3>1 DEF FileShapes, Shaped
      <3>3. "old directory" \in Beginnings /\ faults # 0 /\ r \in LegacyRows(n)
        BY <2>1, <3>1, <3>2 DEF OldDirectory
      <3>4. faults' > 0
        <4>1. faults \in Nat
          BY BoundsAssumption DEF TypeOK
        <4>2. faults' = faults /\ faults # 0
          BY <2>1, <3>3
        <4> QED BY SMT, <4>1, <4>2
      <3>5. r \in UNION {LegacyRows(m) : m \in Names}
        BY <3>3
      <3> QED BY <3>3, <3>4, <3>5 DEF NotMoved
    <2> QED BY <2>1, <2>2, <2>3 DEF Kept
  <1>16. CASE RemoveOldDirFails
    <2>1. /\ pc = "moving" /\ unmoved = {} /\ UNCHANGED <<files, tempFile, saved, removals>>
          /\ faults' = faults + 1
          /\ \A n \in Names : oldFiles'[n] \in {oldFiles[n], NoFile}
      BY <1>16 DEF RemoveOldDirFails, Fault, dir
    <2>2. AtRest' \subseteq AtRest
      <3>1. \A n \in Names : oldFiles'[n].rows \subseteq oldFiles[n].rows
        BY <2>1, FilesHave
      <3>2. ASSUME NEW r \in AtRest' PROVE r \in AtRest
        BY <2>1, <3>1, AtRestMembers
      <3> QED BY <3>2
    <2>3. ASSUME NEW r \in AtRest, r \notin AtRest' PROVE r \in NotMoved'
      <3>1. PICK n \in Names : r \in oldFiles[n].rows
        BY <2>1, <2>3, AtRestMembers
      <3>2. oldFiles[n].kind # "absent"
        BY <3>1 DEF FileShapes, Shaped
      <3>3. "old directory" \in Beginnings /\ r \in LegacyRows(n)
        BY <3>1, <3>2 DEF OldDirectory
      <3>4. faults' > 0
        BY <2>1, BoundsAssumption DEF TypeOK
      <3>5. r \in UNION {LegacyRows(m) : m \in Names}
        BY <3>3
      <3> QED BY <3>3, <3>4, <3>5 DEF NotMoved
    <2> QED BY <2>1, <2>2, <2>3 DEF Kept
  <1>7. CASE Copy
    <2>1. CASE UNCHANGED <<files, saved>>
      BY <1>2, <1>7, <2>1 DEF Copy, olddir, counts
    <2>2. CASE /\ files[name].kind = "absent"
               /\ \E f \in {LegacyPlain(name), LegacyCipher(name, V4)} :
                       files' = [files EXCEPT ![name] = f]
               /\ saved' = saved \cup LegacyRows(name)
      <3>1. PICK f \in {LegacyPlain(name), LegacyCipher(name, V4)} :
                files' = [files EXCEPT ![name] = f]
        BY <2>2
      <3>2. f.rows = LegacyRows(name) /\ files[name].rows = {}
        BY <1>0, <2>2, FilesHave DEF Shaped
      <3>3. UNCHANGED <<oldFiles, tempFile, removals, faults>>
        BY <1>7 DEF Copy, olddir, counts
      <3>4. AtRest' = AtRest \cup LegacyRows(name)
        <4>1. f.rows \cup tempFile'.rows
                  = (files[name].rows \cup tempFile.rows) \cup LegacyRows(name)
          BY <3>2, <3>3
        <4> QED BY ONLY TypeOK, <1>0, <3>1, <3>3, <4>1, OneFileAtRest
      <3>5. LegacyRows(name) \in SUBSET Rows
        BY <1>0, LegacyType
      <3> QED BY <2>2, <3>3, <3>4, <3>5 DEF Committed
    <2> QED BY <1>7, <2>1, <2>2 DEF Copy
  <1>8. CASE Check \/ CheckWriteFails
    BY <1>2, <1>8 DEF Check, CheckWriteFails, CheckWith, Fault, olddir, counts
  <1>9. CASE OpenDatabase \/ UpgradeRaises \/ OpenMigrated \/ Attach
    <2>1. /\ files' = [files EXCEPT ![name] = Created(files[name])]
          /\ UNCHANGED <<oldFiles, saved, removals, faults>>
          /\ tempFile' \in {tempFile, Created(tempFile)}
      BY <1>9 DEF OpenDatabase, UpgradeRaises, OpenMigrated, Attach, olddir, counts
    <2>2. Created(files[name]).rows = files[name].rows /\ tempFile'.rows = tempFile.rows
      BY <1>0, <2>1, CreatedRows
    <2>3. Kept
      BY <1>1, <2>1, <2>2
    <2> QED BY <2>3
  <1>10. CASE ExportSchema
    <2>1. files' = [files EXCEPT ![name] = files[name]]
      BY <1>0, <1>10 DEF ExportSchema, TypeOK
    <2>2. tempFile'.rows = tempFile.rows
      <3>1. CASE UNCHANGED tempFile
        BY <3>1
      <3>2. CASE tempFile' = CipherFile(CurrentCipherParams, password,
                                        tempFile.tables \cup files[name].tables,
                                        tempFile.rows)
        BY <3>2 DEF CipherFile
      <3> QED BY <1>10, <3>1, <3>2 DEF ExportSchema
    <2> QED BY <1>1, <1>10, <2>1, <2>2 DEF ExportSchema, olddir, counts
  <1>11. CASE ExportRows
    <2>1. files' = [files EXCEPT ![name] = files[name]]
      BY <1>0, <1>11 DEF ExportRows, TypeOK
    <2>2. tempFile'.rows = tempFile.rows \cup files[name].rows
      BY <1>11 DEF ExportRows, TypeOK, File
    <2> QED BY <1>1, <1>11, <2>1, <2>2 DEF ExportRows, olddir, counts
  <1>12. CASE RemoveOldCopy
    <2>1. /\ pc = "replacing" /\ files' = [files EXCEPT ![name] = NoFile]
          /\ UNCHANGED <<tempFile, oldFiles, saved, removals, faults>>
      BY <1>12 DEF RemoveOldCopy, olddir, counts
    <2>2. files[name].rows \subseteq tempFile.rows /\ NoFile.rows = {}
      BY <2>1, FilesHave DEF MigrationProgress
    <2> QED BY <1>1, <2>1, <2>2
  <1>13. CASE MoveNewCopy
    <2>1. /\ pc = "renaming" /\ files' = [files EXCEPT ![name] = tempFile]
          /\ tempFile' = NoFile /\ UNCHANGED <<oldFiles, saved, removals, faults>>
      BY <1>13 DEF MoveNewCopy, olddir, counts
    <2>2. files[name].rows = {} /\ NoFile.rows = {}
      BY <1>0, <2>1, FilesHave DEF MigrationProgress, Shaped
    <2> QED BY <1>1, <2>1, <2>2
  <1> QED BY <1>3, <1>4, <1>5, <1>6, <1>7, <1>8, <1>9, <1>10, <1>11, <1>12, <1>13,
             <1>16 DEF CallStep

LEMMA StepRows == FilesInv /\ [Next]_vars => Kept \/ Committed \/ Removed
  <1> SUFFICES ASSUME FilesInv, [Next]_vars PROVE Kept \/ Committed \/ Removed
    OBVIOUS
  <1> USE DEF FilesInv
  <1>1. ASSUME UNCHANGED <<files, oldFiles, tempFile, saved, removals, faults>> PROVE Kept
    BY <1>1, QuietKeeps DEF Kept
  <1>2. CASE CallStep
    BY <1>2, CallStepRows
  <1>3. CASE Quit \/ Crash
    <2>1. Restart /\ UNCHANGED <<removals, faults>>
      BY <1>3 DEF Quit, Crash, counts
    <2>2. UNCHANGED <<files, oldFiles, tempFile, saved>>
      BY SMT, <2>1 DEF Restart, dir, olddir
    <2> QED BY <1>1, <2>1, <2>2
  <1>4. CASE UNCHANGED vars
    BY <1>1, <1>4 DEF vars, dir, olddir, counts
  <1>5. CASE \E v \in KdfArgs : SetHmacKdfIterations(v)
    <2>1. UNCHANGED <<files, oldFiles, tempFile, saved, removals, faults>>
      BY SMT, <1>5 DEF SetHmacKdfIterations, dir, olddir, counts
    <2> QED BY <1>1, <2>1
  <1>6. CASE \/ \E k \in Keys : SetPassword(k)
             \/ \E v \in HashArgs : SetHmacAlgorithm(v)
             \/ \E n \in Names : Open(n) \/ Install(n) \/ CipherUpgrade(n) \/ Close(n)
    BY <1>1, <1>6 DEF SetPassword, SetHmacAlgorithm, Open, Install, CipherUpgrade, Enter,
                      Close, dir, olddir, counts
  <1>7. ASSUME NEW n \in Names, NEW id \in RowIds, Execute(n, id) PROVE Committed
    <2> DEFINE new == IF files[n].kind = "blank"
                      THEN CipherFile(databases[n].params, databases[n].key, {n}, {<<n, id>>})
                      ELSE [files[n] EXCEPT !.tables = @ \cup {n}, !.rows = @ \cup {<<n, id>>}]
    <2>1. /\ files' = [files EXCEPT ![n] = new] /\ saved' = saved \cup {<<n, id>>}
          /\ UNCHANGED <<oldFiles, tempFile, removals, faults>>
      BY <1>7 DEF Execute, olddir, counts
    <2>2. new.rows = files[n].rows \cup {<<n, id>>}
      <3>1. CASE files[n].kind = "blank"
        BY <3>1 DEF CipherFile, FileShapes, Shaped
      <3>2. CASE files[n].kind # "blank"
        BY <3>2 DEF TypeOK, File
      <3> QED BY <3>1, <3>2
    <2> HIDE DEF new
    <2>3. AtRest' = AtRest \cup {<<n, id>>}
      <3>1. new.rows \cup tempFile'.rows = (files[n].rows \cup tempFile.rows) \cup {<<n, id>>}
        BY <2>1, <2>2
      <3> QED BY ONLY TypeOK, n \in Names, <2>1, <3>1, OneFileAtRest
    <2>4. {<<n, id>>} \in SUBSET Rows
      BY DEF Rows
    <2> QED BY <2>1, <2>3, <2>4 DEF Committed
  <1>8. ASSUME NEW n \in Names, Remove(n) PROVE Removed
    <2>1. /\ files' = [files EXCEPT ![n] = NoFile] /\ saved' = saved \ ({n} \X RowIds)
          /\ UNCHANGED <<oldFiles, tempFile, faults>> /\ removals' = removals + 1
      BY <1>8 DEF Remove, olddir
    <2>2. \A m \in Names : files'[m].rows \subseteq files[m].rows
      BY <2>1, FilesHave DEF TypeOK
    <2>3. ASSUME NEW r \in AtRest' PROVE r \in AtRest
      BY <2>1, <2>2, AtRestMembers
    <2> QED BY <2>1, <2>3 DEF Removed
  <1> QED BY <1>2, <1>3, <1>4, <1>5, <1>6, <1>7, <1>8 DEF Next

-----------------------------------------------------------------------------
(* Each part of the invariant is kept. *)

LEMMA DataStep == FilesInv /\ DataOnDisk /\ [Next]_vars => DataOnDisk'
  <1> SUFFICES ASSUME FilesInv, DataOnDisk, [Next]_vars, OnlyOwnRowsRemoved'
               PROVE  saved' \subseteq AtRest' \cup NotMoved'
    BY DEF DataOnDisk
  <1>1. faults \in Nat /\ removals \in Nat /\ saved \subseteq Rows
    BY BoundsAssumption DEF FilesInv, TypeOK
  <1>2. faults' \in {faults, faults + 1} => NotMoved \subseteq NotMoved'
    <2>1. faults' \in {faults, faults + 1} /\ faults > 0 => faults' > 0
      BY SMT, <1>1
    <2> QED BY <2>1 DEF NotMoved
  <1>3. CASE Kept
    <2>1. OnlyOwnRowsRemoved
      BY <1>3 DEF Kept, OnlyOwnRowsRemoved
    <2> QED BY <1>2, <1>3, <2>1 DEF Kept, DataOnDisk
  <1>4. CASE Committed
    <2>1. OnlyOwnRowsRemoved
      BY <1>4 DEF Committed, OnlyOwnRowsRemoved
    <2> QED BY <1>2, <1>4, <2>1 DEF Committed, DataOnDisk
  <1>5. CASE Removed
    <2>1. PICK n \in Names : saved' = saved \ ({n} \X RowIds) /\ removals' = removals + 1
      BY <1>5 DEF Removed
    <2>2. removals' # 0
      BY SMT, <1>1, <2>1
    <2>3. Names = {n}
      BY <2>2 DEF OnlyOwnRowsRemoved
    <2>4. saved' = {}
      BY <1>1, <2>1, <2>3 DEF Rows
    <2> QED BY <2>4
  <1> QED BY <1>3, <1>4, <1>5, StepRows

(* The connections: a step changes one, or forgets them all. *)
LEMMA MigratedStep ==
    FilesInv /\ MigratedConnectionReads /\ [Next]_vars => MigratedConnectionReads'
  <1> SUFFICES ASSUME FilesInv, MigratedConnectionReads, [Next]_vars, NEW n \in Names,
                      databases'[n].state = "open", databases'[n].migrated, databases'[n].linked
               PROVE  CanRead(files'[n], databases'[n].key, databases'[n].params)
    BY DEF MigratedConnectionReads, Reads
  <1> USE DEF FilesInv
  <1>1. ASSUME databases'[n] = databases[n], files'[n] = files[n]
        PROVE  CanRead(files'[n], databases'[n].key, databases'[n].params)
    BY <1>1 DEF MigratedConnectionReads, Reads
  <1>3. CASE CallStep
    <2>1. databases[name].state # "open" /\ name \in Names
      BY <1>3 DEF MigrationProgress, TypeOK, CallStep, CreateDir, MoveOldFile,
                  MoveOldFileFails, RemoveOldDir, RemoveOldDirFails, Copy, CopyFails,
                  Check, CheckWriteFails, CheckWith, OpenDatabase, UpgradeRaises, Attach,
                  ExportSchema, ExportRows, RemoveOldCopy, MoveNewCopy, OpenMigrated,
                  StepFails
    <2>2. CASE OpenMigrated
      <3>1. /\ pc = "reopening" /\ Connect(TRUE)
            /\ files' = [files EXCEPT ![name] = Created(files[name])]
        BY <2>2 DEF OpenMigrated
      <3>2. CASE n = name
        <4>1. CanRead(files[name], password, CurrentCipherParams)
          BY <3>1 DEF MigrationProgress
        <4>2. files'[n] = files[n]
          BY <2>1, <3>1, <3>2, <4>1 DEF CanRead, Created, TypeOK
        <4>3. databases'[n].key = password /\ databases'[n].params = CurrentCipherParams
          BY <2>1, <3>1, <3>2 DEF Connect, TypeOK
        <4> QED BY <3>2, <4>1, <4>2, <4>3
      <3>3. CASE n # name
        BY <1>1, <2>1, <3>1, <3>3 DEF Connect, TypeOK
      <3> QED BY <3>2, <3>3
    <2>3. CASE OpenDatabase
      <3>1. /\ Connect(FALSE) /\ files' = [files EXCEPT ![name] = Created(files[name])]
        BY <2>3 DEF OpenDatabase
      <3>2. n # name
        BY <2>1, <3>1 DEF Connect, TypeOK
      <3> QED BY <1>1, <2>1, <3>1, <3>2 DEF Connect, TypeOK
    <2>4. CASE ~OpenMigrated /\ ~OpenDatabase
      <3>1. UNCHANGED databases
        BY <1>3, <2>4 DEF CallStep, CreateDir, MoveOldFile, MoveOldFileFails,
                          RemoveOldDir, RemoveOldDirFails, Copy, CopyFails, Check,
                          CheckWriteFails, CheckWith, UpgradeRaises, Attach, ExportSchema,
                          ExportRows, RemoveOldCopy, MoveNewCopy, StepFails
      <3>2. n # name
        BY <2>1, <3>1
      <3>3. files'[n] = files[n]
        <4>1. CASE MoveOldFile
          <5>1. CanRead(files[n], databases[n].key, databases[n].params)
            BY <3>1 DEF MigratedConnectionReads, Reads
          <5>2. files[n].kind # "absent"
            BY <5>1 DEF CanRead
          <5> QED BY <4>1, <5>2 DEF MoveOldFile, TypeOK
        <4>2. CASE Copy
          BY <2>1, <3>2, <4>2 DEF Copy, TypeOK
        <4>3. CASE UpgradeRaises \/ Attach \/ RemoveOldCopy \/ MoveNewCopy
          BY <2>1, <3>2, <4>3 DEF UpgradeRaises, Attach, RemoveOldCopy, MoveNewCopy, TypeOK
        <4>4. CASE CreateDir \/ MoveOldFileFails \/ RemoveOldDir \/ RemoveOldDirFails \/ CopyFails
                   \/ Check \/ CheckWriteFails \/ ExportSchema \/ ExportRows \/ StepFails
          BY <4>4 DEF CreateDir, MoveOldFileFails, RemoveOldDir, RemoveOldDirFails, CopyFails,
                      Check, CheckWriteFails, CheckWith, ExportSchema, ExportRows, StepFails, dir
        <4> QED BY <1>3, <2>4, <4>1, <4>2, <4>3, <4>4 DEF CallStep
      <3> QED BY <1>1, <3>1, <3>3
    <2> QED BY <2>2, <2>3, <2>4
  <1>4. CASE Quit \/ Crash
    <2>1. Restart
      BY <1>4 DEF Quit, Crash
    <2>2. databases' = [m \in Names |-> NoConnection]
      BY SMT, <2>1 DEF Restart
    <2> QED BY <2>2 DEF NoConnection
  <1>5. CASE UNCHANGED vars
    BY <1>1, <1>5 DEF vars, dir
  <1>6. CASE \E v \in KdfArgs : SetHmacKdfIterations(v)
    <2>1. UNCHANGED <<databases, files>>
      BY SMT, <1>6 DEF SetHmacKdfIterations, dir
    <2> QED BY <1>1, <2>1
  <1>7. CASE \/ \E k \in Keys : SetPassword(k)
             \/ \E v \in HashArgs : SetHmacAlgorithm(v)
             \/ \E m \in Names : Open(m) \/ Install(m) \/ CipherUpgrade(m)
    BY <1>1, <1>7 DEF SetPassword, SetHmacAlgorithm, Open, Install, CipherUpgrade, Enter, dir
  <1>8. ASSUME NEW m \in Names, Close(m) \/ Remove(m)
        PROVE  CanRead(files'[n], databases'[n].key, databases'[n].params)
    <2>1. n # m
      BY <1>8 DEF Close, Remove, TypeOK, Connection
    <2>2. databases'[n] = databases[n] /\ files'[n] = files[n]
      BY <1>8, <2>1 DEF Close, Remove, TypeOK, dir
    <2> QED BY <1>1, <2>2
  <1>9. ASSUME NEW m \in Names, NEW id \in RowIds, Execute(m, id)
        PROVE  CanRead(files'[n], databases'[n].key, databases'[n].params)
    <2> DEFINE new == IF files[m].kind = "blank"
                      THEN CipherFile(databases[m].params, databases[m].key, {m}, {<<m, id>>})
                      ELSE [files[m] EXCEPT !.tables = @ \cup {m}, !.rows = @ \cup {<<m, id>>}]
    <2>1. files' = [files EXCEPT ![m] = new] /\ UNCHANGED databases
      BY <1>9 DEF Execute
    <2>2. CanRead(files[m], databases[m].key, databases[m].params)
      BY <1>9 DEF Execute, Reads
    <2>3. CanRead(new, databases[m].key, databases[m].params)
      <3>1. CASE files[m].kind = "blank"
        BY <3>1 DEF CanRead, CipherFile
      <3>2. CASE files[m].kind # "blank"
        BY <2>2, <3>2 DEF CanRead, TypeOK, File
      <3> QED BY <3>1, <3>2
    <2> HIDE DEF new
    <2>4. CASE n = m
      <3>1. files'[n] = new /\ databases'[n] = databases[m]
        BY <2>1, <2>4 DEF TypeOK
      <3> QED BY <2>3, <3>1
    <2>5. CASE n # m
      <3>1. files'[n] = files[n] /\ databases'[n] = databases[n]
        BY <2>1, <2>5 DEF TypeOK
      <3> QED BY <1>1, <3>1
    <2> QED BY <2>4, <2>5
  <1> QED BY <1>3, <1>4, <1>5, <1>6, <1>7, <1>8, <1>9 DEF Next

(* The rows of one name stay with it in every step of a call that goes on. *)
LEMMA ApartStep == FilesInv /\ NamesApart /\ [Next]_vars => NamesApart'
  <1> SUFFICES ASSUME FilesInv, NamesApart, [Next]_vars, crashes' = 0, faults' = 0
               PROVE  /\ \A n \in Names : files'[n].rows \subseteq {n} \X RowIds
                      /\ tempFile'.rows \subseteq {name'} \X RowIds
                      /\ pc' \notin {"copying rows", "replacing", "renaming"}
                             => tempFile'.tables = {}
    BY DEF NamesApart
  <1> USE DEF FilesInv
  <1> DEFINE Apart == /\ \A n \in Names : files'[n].rows \subseteq {n} \X RowIds
                      /\ tempFile'.rows \subseteq {name'} \X RowIds
                      /\ pc' \notin {"copying rows", "replacing", "renaming"}
                             => tempFile'.tables = {}
  <1>0. faults \in Nat /\ crashes \in Nat /\ name \in Names
    BY BoundsAssumption DEF TypeOK
  <1>1. ~Fault /\ ~Crash
    BY <1>0 DEF Fault, Crash
  <1>2. crashes = 0 /\ faults = 0
    <2>1. crashes' \in {crashes, crashes + 1}
      <3>1. CASE CallStep
        BY <3>1 DEF CallStep, CreateDir, MoveOldFile, MoveOldFileFails, RemoveOldDir,
                    RemoveOldDirFails, Copy, CopyFails, Check, CheckWriteFails, CheckWith,
                    Fault, OpenDatabase, UpgradeRaises, Attach, ExportSchema, ExportRows,
                    RemoveOldCopy, MoveNewCopy, OpenMigrated, StepFails, counts
      <3>2. CASE Quit \/ Crash \/ UNCHANGED vars
        BY <3>2 DEF Quit, Crash, vars, counts
      <3>3. CASE \E v \in KdfArgs : SetHmacKdfIterations(v)
        BY SMT, <3>3 DEF SetHmacKdfIterations, counts
      <3>4. CASE \/ \E k \in Keys : SetPassword(k)
                 \/ \E v \in HashArgs : SetHmacAlgorithm(v)
                 \/ \E m \in Names : \/ Open(m) \/ Install(m) \/ CipherUpgrade(m)
                                     \/ Close(m) \/ Remove(m)
                                     \/ \E id \in RowIds : Execute(m, id)
        BY <3>4 DEF SetPassword, SetHmacAlgorithm, Open, Install, CipherUpgrade, Enter,
                    Close, Remove, Execute, counts
      <3> QED BY <3>1, <3>2, <3>3, <3>4 DEF Next
    <2>2. faults' \in {faults, faults + 1}
      BY StepRows DEF Kept, Committed, Removed
    <2> QED BY SMT, <1>0, <2>1, <2>2
  <1>3. /\ \A n \in Names : files[n].rows \subseteq {n} \X RowIds
        /\ tempFile.rows \subseteq {name} \X RowIds
        /\ pc \notin {"copying rows", "replacing", "renaming"}
              => tempFile.tables = {} /\ tempFile.rows = {}
    BY <1>2 DEF NamesApart, FileShapes, Shaped
  (* Where no rows are in temp.db it stays as it is, whatever happens to name. *)
  <1>4. ASSUME pc \notin {"copying rows", "replacing", "renaming"},
               tempFile'.tables = tempFile.tables, tempFile'.rows = tempFile.rows,
               \A n \in Names : files'[n].rows \subseteq {n} \X RowIds
        PROVE  Apart
    BY <1>3, <1>4
  <1>5. CASE UNCHANGED <<files, tempFile>> /\ pc \notin {"copying rows", "replacing", "renaming"}
    BY <1>3, <1>4, <1>5
  <1>6. CASE CallStep
    <2>1. CASE CreateDir \/ RemoveOldDir \/ RemoveOldDirFails \/ Check
      BY <1>5, <2>1 DEF CreateDir, RemoveOldDir, RemoveOldDirFails, Check, CheckWith, dir
    <2>2. CASE MoveOldFile
      <3>1. /\ pc = "moving" /\ UNCHANGED tempFile
            /\ \A n \in Names : files'[n] \in {files[n], oldFiles[n]}
        BY <2>2 DEF MoveOldFile, TypeOK
      <3>2. \A n \in Names : oldFiles[n].rows \subseteq {n} \X RowIds
        BY NamesAssumption DEF OldDirectory, LegacyRows
      <3>3. \A n \in Names : files'[n].rows \subseteq {n} \X RowIds
        BY <1>3, <3>1, <3>2
      <3> QED BY <1>4, <3>1, <3>3
    <2>3. CASE MoveOldFileFails \/ CopyFails \/ CheckWriteFails \/ StepFails
      BY <1>1, <2>3 DEF MoveOldFileFails, CopyFails, CheckWriteFails, StepFails
    <2>4. CASE Copy
      <3>1. pc = "installing" /\ UNCHANGED tempFile
        BY <2>4 DEF Copy
      <3>2. LegacyPlain(name).rows = LegacyRows(name) /\ LegacyCipher(name, V4).rows = LegacyRows(name)
        BY FilesHave
      <3>3. LegacyRows(name) \subseteq {name} \X RowIds
        BY NamesAssumption DEF LegacyRows
      <3>4. \A n \in Names : files'[n] = files[n] \/ (n = name /\ files'[n].rows = LegacyRows(name))
        BY <1>0, <2>4, <3>2 DEF Copy, TypeOK
      <3>5. \A n \in Names : files'[n].rows \subseteq {n} \X RowIds
        BY <1>3, <3>3, <3>4
      <3> QED BY <1>4, <3>1, <3>5
    <2>5. CASE OpenDatabase \/ UpgradeRaises \/ OpenMigrated \/ Attach
      <3>1. /\ pc \in {"opening", "upgrading", "reopening", "attaching"}
            /\ files' = [files EXCEPT ![name] = Created(files[name])]
            /\ tempFile' \in {tempFile, Created(tempFile)}
        BY <2>5 DEF OpenDatabase, UpgradeRaises, OpenMigrated, Attach
      <3>2. Shaped(tempFile) /\ \A n \in Names : Shaped(files[n])
        BY DEF FileShapes
      <3>3. \A f : Shaped(f) => Created(f).tables = f.tables /\ Created(f).rows = f.rows
        BY FilesHave DEF Created, Shaped
      <3>4. tempFile'.tables = tempFile.tables /\ tempFile'.rows = tempFile.rows
        BY <3>1, <3>2, <3>3
      <3>5. \A n \in Names : files'[n].rows = files[n].rows
        BY <1>0, <3>1, <3>2, <3>3 DEF TypeOK
      <3> QED BY <1>3, <1>4, <3>1, <3>4, <3>5
    <2>6. CASE ExportSchema
      <3>1. /\ pc = "exporting" /\ UNCHANGED files /\ tempFile.tables = {} /\ tempFile.rows = {}
        BY <1>3, <2>6 DEF ExportSchema
      <3>2. /\ pc' = "copying rows"
            /\ \/ tempFile' = tempFile
               \/ tempFile' = CipherFile(CurrentCipherParams, password,
                                         tempFile.tables \cup files[name].tables,
                                         tempFile.rows)
        BY <2>6, <3>1 DEF ExportSchema, Goto
      <3>3. tempFile'.rows = {}
        <4>1. \A T : CipherFile(CurrentCipherParams, password, T, tempFile.rows).rows
                         = tempFile.rows
          BY DEF CipherFile
        <4> QED BY <3>1, <3>2, <4>1
      <3> QED BY <1>3, <3>1, <3>2, <3>3
    <2>7. CASE ExportRows
      <3>1. /\ pc' = "replacing" /\ UNCHANGED <<files, name>>
            /\ tempFile'.rows = tempFile.rows \cup files[name].rows
        BY <2>7 DEF ExportRows, Goto, TypeOK, File
      <3> QED BY <1>0, <1>3, <3>1
    <2>8. CASE RemoveOldCopy
      <3>1. pc' = "renaming" /\ UNCHANGED <<tempFile, name>>
        BY <2>8 DEF RemoveOldCopy, Goto
      <3>2. \A n \in Names : files'[n].rows \subseteq files[n].rows
        BY <2>8, FilesHave DEF RemoveOldCopy, TypeOK
      <3> QED BY <1>3, <3>1, <3>2
    <2>9. CASE MoveNewCopy
      <3>1. /\ files' = [files EXCEPT ![name] = tempFile] /\ tempFile' = NoFile
        BY <2>9 DEF MoveNewCopy
      <3>2. \A n \in Names : files'[n] = files[n] \/ (n = name /\ files'[n] = tempFile)
        BY <1>0, <3>1 DEF TypeOK
      <3>3. \A n \in Names : files'[n].rows \subseteq {n} \X RowIds
        BY <1>3, <3>2
      <3> QED BY <3>1, <3>3, FilesHave
    <2> QED BY <1>6, <2>1, <2>2, <2>3, <2>4, <2>5, <2>6, <2>7, <2>8, <2>9 DEF CallStep
  <1>7. CASE Quit
    <2>1. pc = "idle" /\ Restart
      BY <1>7 DEF Quit
    <2>2. UNCHANGED <<files, tempFile>>
      BY SMT, <2>1 DEF Restart, dir
    <2> QED BY <1>5, <2>1, <2>2
  <1>8. CASE UNCHANGED vars
    BY <1>3, <1>8 DEF vars, dir, running
  <1>9. CASE \E v \in KdfArgs : SetHmacKdfIterations(v)
    <2>1. pc = "idle" /\ UNCHANGED <<files, tempFile>>
      BY SMT, <1>9 DEF SetHmacKdfIterations, dir
    <2> QED BY <1>5, <2>1
  <1>10. CASE \/ \E k \in Keys : SetPassword(k)
              \/ \E v \in HashArgs : SetHmacAlgorithm(v)
              \/ \E m \in Names : Open(m) \/ Install(m) \/ CipherUpgrade(m) \/ Close(m)
    <2>1. pc = "idle" /\ UNCHANGED <<files, tempFile>>
      BY <1>10 DEF SetPassword, SetHmacAlgorithm, Open, Install, CipherUpgrade, Enter, Close, dir
    <2> QED BY <1>5, <2>1
  <1>11. ASSUME NEW m \in Names, Remove(m) PROVE Apart
    <2>1. pc = "idle" /\ UNCHANGED tempFile
      BY <1>11 DEF Remove
    <2>2. \A n \in Names : files'[n].rows \subseteq files[n].rows
      BY <1>11, FilesHave DEF Remove, TypeOK
    <2>3. \A n \in Names : files'[n].rows \subseteq {n} \X RowIds
      BY <1>3, <2>2
    <2> QED BY <1>4, <2>1, <2>3
  <1>12. ASSUME NEW m \in Names, NEW id \in RowIds, Execute(m, id) PROVE Apart
    <2> DEFINE new == IF files[m].kind = "blank"
                      THEN CipherFile(databases[m].params, databases[m].key, {m}, {<<m, id>>})
                      ELSE [files[m] EXCEPT !.tables = @ \cup {m}, !.rows = @ \cup {<<m, id>>}]
    <2>1. /\ pc = "idle" /\ files' = [files EXCEPT ![m] = new] /\ UNCHANGED tempFile
      BY <1>12 DEF Execute
    <2>2. new.rows \subseteq files[m].rows \cup {<<m, id>>}
      <3>1. CASE files[m].kind = "blank"
        BY <3>1 DEF CipherFile
      <3>2. CASE files[m].kind # "blank"
        BY <3>2 DEF TypeOK, File
      <3> QED BY <3>1, <3>2
    <2> HIDE DEF new
    <2>3. \A n \in Names : \/ files'[n] = files[n]
                           \/ n = m /\ files'[n].rows \subseteq files[n].rows \cup {<<n, id>>}
      BY <2>1, <2>2 DEF TypeOK
    <2>4. ASSUME NEW n \in Names PROVE files'[n].rows \subseteq {n} \X RowIds
      <3>1. <<n, id>> \in {n} \X RowIds /\ files[n].rows \subseteq {n} \X RowIds
        BY <1>3
      <3>2. files'[n].rows \subseteq files[n].rows \cup {<<n, id>>}
        BY <2>3
      <3> QED BY <3>1, <3>2
    <2> QED BY <1>4, <2>1, <2>4
  <1> QED BY <1>1, <1>6, <1>7, <1>8, <1>9, <1>10, <1>11, <1>12 DEF Next

(* A wrong password: the steps that replace a file do so to one that does  *)
(* not exist, or to one that was read with the password in force.          *)
LEMMA WrongPasswordStep ==
    FilesInv /\ [Next]_vars
        => \A n \in Names :
              pc # "idle" /\ files[n].kind = "cipher" /\ files[n].key # password
                  => files'[n] = files[n]
  <1> SUFFICES ASSUME FilesInv, [Next]_vars, NEW n \in Names, pc # "idle",
                      files[n].kind = "cipher", files[n].key # password
               PROVE  files'[n] = files[n]
    OBVIOUS
  <1> USE DEF FilesInv
  <1>0. name \in Names
    BY DEF TypeOK
  <1>1. CASE CallStep
    <2>1. CASE MoveOldFile
      <3>1. PICK m \in unmoved :
                \/ UNCHANGED files
                \/ files[m].kind = "absent" /\ files' = [files EXCEPT ![m] = oldFiles[m]]
        BY <2>1 DEF MoveOldFile
      <3> QED BY <3>1 DEF TypeOK
    <2>2. CASE Copy
      <3>1. \/ UNCHANGED files
            \/ /\ files[name].kind = "absent"
               /\ \E f \in {LegacyPlain(name), LegacyCipher(name, V4)} :
                      files' = [files EXCEPT ![name] = f]
        BY <2>2 DEF Copy
      <3> QED BY <3>1 DEF TypeOK
    <2>3. CASE OpenDatabase \/ UpgradeRaises \/ OpenMigrated \/ Attach
      <3>1. files' = [files EXCEPT ![name] = Created(files[name])]
        BY <2>3 DEF OpenDatabase, UpgradeRaises, OpenMigrated, Attach
      <3>2. Created(files[n]) = files[n]
        BY DEF Created
      <3> QED BY <1>0, <3>1, <3>2 DEF TypeOK
    <2>4. CASE RemoveOldCopy
      <3>1. n # name
        BY <2>4 DEF RemoveOldCopy, MigrationProgress
      <3> QED BY <2>4, <3>1 DEF RemoveOldCopy, TypeOK
    <2>5. CASE MoveNewCopy
      <3>1. n # name
        BY <2>5 DEF MoveNewCopy, MigrationProgress
      <3> QED BY <2>5, <3>1 DEF MoveNewCopy, TypeOK
    <2>6. CASE \/ CreateDir \/ MoveOldFileFails \/ RemoveOldDir \/ RemoveOldDirFails
               \/ CopyFails \/ Check
               \/ CheckWriteFails \/ ExportSchema \/ ExportRows \/ StepFails
      BY <2>6 DEF CreateDir, MoveOldFileFails, RemoveOldDir, RemoveOldDirFails, CopyFails, Check,
                  CheckWriteFails, CheckWith, ExportSchema, ExportRows, StepFails, dir
    <2> QED BY <1>1, <2>1, <2>2, <2>3, <2>4, <2>5, <2>6 DEF CallStep
  <1>2. CASE Crash
    <2>1. Restart
      BY <1>2 DEF Crash
    <2> QED BY SMT, <2>1 DEF Restart, dir
  <1>3. CASE UNCHANGED vars
    BY <1>3 DEF vars, dir
  <1>4. ~Quit /\ ~(\E k \in Keys : SetPassword(k)) /\ ~(\E v \in HashArgs : SetHmacAlgorithm(v))
    BY DEF Quit, SetPassword, SetHmacAlgorithm
  <1>5. ~(\E v \in KdfArgs : SetHmacKdfIterations(v))
    BY SMT DEF SetHmacKdfIterations
  <1>6. ~(\E m \in Names : \/ Open(m) \/ Install(m) \/ CipherUpgrade(m) \/ Close(m) \/ Remove(m)
                          \/ \E id \in RowIds : Execute(m, id))
    BY DEF Open, Install, CipherUpgrade, Enter, Close, Remove, Execute
  <1> QED BY <1>1, <1>2, <1>3, <1>4, <1>5, <1>6 DEF Next

-----------------------------------------------------------------------------
(* The theorems *)

Inv == FilesInv /\ DataOnDisk /\ MigratedConnectionReads /\ NamesApart

LEMMA InitInv == Init => Inv
  <1> SUFFICES ASSUME Init PROVE Inv
    OBVIOUS
  <1>1. /\ Begin /\ tempFile = NoFile /\ pc = "idle"
        /\ databases = [n \in Names |-> NoConnection]
        /\ saved = UNION {files[n].rows \cup oldFiles[n].rows : n \in Names}
    BY SMT DEF Init
  <1>2. TypeOK
    BY InitType
  <1>3. \A n \in Names : files[n] \in Found(n) /\ oldFiles[n] \in Found(n)
    BY <1>1, BeginFinds
  <1>4. FileShapes
    BY <1>1, <1>3, ShapesHold DEF FileShapes
  <1>5. MigrationProgress
    BY <1>1 DEF MigrationProgress
  <1>6. OldDirectory
    <2>1. /\ oldDir => "old directory" \in Beginnings /\ \A n \in Names : files[n] = NoFile
          /\ ~oldDir => \A n \in Names : oldFiles[n] = NoFile
      BY <1>1, BeginFinds
    <2>2. \A n \in Names : databases[n].state = "none"
      BY <1>1 DEF NoConnection
    <2> QED BY <1>1, <1>3, <2>1, <2>2, ShapesHold, FilesHave DEF OldDirectory
  <1>7. DataOnDisk
    BY <1>1 DEF DataOnDisk, AtRest
  <1>8. MigratedConnectionReads
    BY <1>1 DEF MigratedConnectionReads, NoConnection
  <1>9. NamesApart
    <2>1. \A n \in Names : files[n].rows \subseteq {n} \X RowIds
      BY <1>3, ShapesHold, NamesAssumption DEF LegacyRows
    <2> QED BY <1>1, <2>1, FilesHave DEF NamesApart
  <1> QED BY <1>2, <1>4, <1>5, <1>6, <1>7, <1>8, <1>9 DEF Inv, FilesInv

LEMMA NextInv == Inv /\ [Next]_vars => Inv'
  <1>1. FilesInv /\ [Next]_vars => FilesInv'
    BY NextType, ShapesStep, ProgressStep, OldDirectoryStep DEF FilesInv
  <1> QED BY <1>1, DataStep, MigratedStep, ApartStep DEF Inv

LEMMA Invariance == Spec => []Inv
  BY InitInv, NextInv, PTL DEF Spec

(* However many crashes and failing operations there are, a committed row  *)
(* is in one of the files, unless an old file did not move or, where a     *)
(* migration was interrupted, another name was removed.                    *)
THEOREM DataSafe == Spec => []DataOnDisk
  BY Invariance, PTL DEF Inv

(* What a migration returns can be read, whatever it found in temp.db. *)
THEOREM MigratedReads == Spec => []MigratedConnectionReads
  BY Invariance, PTL DEF Inv

(* Without interruptions no name gets the rows of another one. *)
THEOREM NamesSafe == Spec => []NamesKeepTheirRows
  <1>1. Inv => NamesKeepTheirRows
    BY DEF Inv, NamesApart, NamesKeepTheirRows
  <1> QED BY <1>1, Invariance, PTL

(* A call under a wrong password leaves every file as it is. *)
THEOREM WrongPasswordSafe == Spec => WrongPasswordChangesNothing
  <1>1. Inv /\ [Next]_vars
          => [\A n \in Names :
                pc # "idle" /\ files[n].kind = "cipher" /\ files[n].key # password
                    => files'[n] = files[n]]_vars
    BY WrongPasswordStep DEF Inv
  <1> QED BY <1>1, Invariance, PTL DEF Spec, WrongPasswordChangesNothing

(* No file of an old directory fails to move: there is none, or nothing    *)
(* fails.                                                                  *)
OldFilesMove == "old directory" \notin Beginnings \/ MaxFaults = 0

LEMMA InitRefines == Init => Durable!Init
  <1> SUFFICES ASSUME Init PROVE Durable!Init
    OBVIOUS
  <1>1. files \in [Names -> File] /\ oldFiles \in [Names -> File]
    BY InitType DEF TypeOK
  <1>2. tempFile = NoFile /\ removals = 0
    BY SMT DEF Init
  <1>3. ASSUME NEW r \in AtRest PROVE r \in Rows
    BY <1>1, <1>2, AtRestMembers, FilesHave DEF File
  <1> QED BY <1>2, <1>3 DEF Durable!Init

LEMMA StepRefines ==
    ASSUME OldFilesMove, Inv, TypeOK', [Next]_vars
    PROVE  [Durable!Next]_<<AtRest, removals>>
  <1>1. CASE Kept
    <2>1. NotMoved' = {}
      <3>1. CASE "old directory" \notin Beginnings
        BY <3>1 DEF NotMoved
      <3>2. CASE MaxFaults = 0
        <4>1. faults' \in 0..0
          BY <3>2 DEF TypeOK
        <4>2. ~(faults' > 0)
          BY SMT, <4>1
        <4> QED BY <4>2 DEF NotMoved
      <3> QED BY <3>1, <3>2 DEF OldFilesMove
    <2> QED BY <1>1, <2>1 DEF Kept
  <1>2. CASE Committed
    BY <1>2 DEF Committed, Durable!Next, Durable!Commit
  <1>3. CASE Removed
    BY <1>3 DEF Removed, Durable!Next, Durable!Remove
  <1> QED BY <1>1, <1>2, <1>3, StepRows DEF Inv

(* The files of the iOS module implement the durable store: rows come to   *)
(* rest by a commit or an installation and leave by remove() alone.        *)
THEOREM Refinement ==
    ASSUME OldFilesMove
    PROVE  Spec => ImplementsDurable
  <1>1. Inv /\ Inv' /\ [Next]_vars => [Durable!Next]_<<AtRest, removals>>
    BY StepRefines DEF Inv, FilesInv
  <1> QED BY <1>1, InitRefines, Invariance, PTL DEF Spec, ImplementsDurable, Durable!Spec

-----------------------------------------------------------------------------
(* A connection reads its file, where an application uses the module       *)
(* without changing its password or calling cipherUpgrade, beginning with  *)
(* databases that their version files describe.                            *)

OrdinaryUse ==
    Beginnings \subseteq {"recorded"} /\ "cipherUpgrade" \notin Calls /\ Keys = {AppGUID}

Uninterrupted == crashes = 0 /\ faults = 0 /\ removals = 0

(* Where the version file of name is ahead of its file. *)
Exporting == {"exporting", "copying rows", "replacing", "renaming"}
Ahead(n) == n = name /\ pc \in Exporting \cup {"attaching"}
AboutToOpen(n) == n = name /\ pc = "opening"

(* The version file has the parameters of the file and of the connection,  *)
(* and those of what install may bring where there is no file.             *)
Described(n) ==
    /\ files[n].kind = "cipher" /\ ~Ahead(n)
          => files[n].params = RecordedParams(versions[n])
    /\ files[n].kind = "absent" /\ ~Ahead(n) /\ ~AboutToOpen(n)
          => RecordedParams(versions[n]) = V4
    /\ databases[n].state = "open"
          => databases[n].params = RecordedParams(versions[n])

(* What a call that got past the check knows, and when temp.db exists. *)
Checked ==
    /\ pc \notin {"moving", "upgrading"}
    /\ pc \in Exporting \cup {"attaching", "opening", "reopening"}
          => RecordedParams(versions[name]) = CurrentCipherParams
    /\ pc = "attaching" /\ files[name].kind = "cipher" => files[name].params = oldCipherParams
    /\ pc \notin Exporting => tempFile.kind = "absent"

Settled ==
    oldDir = FALSE /\ dbDir = TRUE /\ isNewDatabase = FALSE /\ call # "cipherUpgrade"

VersionsTrue ==
    Settled /\ (Uninterrupted => Checked /\ \A n \in Names : Described(n))

LEMMA SettledStep == OrdinaryUse /\ OldDirectory /\ Settled /\ [Next]_vars => Settled'
  <1> SUFFICES ASSUME OrdinaryUse, OldDirectory, Settled, [Next]_vars PROVE Settled'
    OBVIOUS
  <1>1. CASE CallStep
    <2>1. pc # "moving"
      BY DEF OldDirectory, Settled
    <2>2. ~MoveOldFile /\ ~MoveOldFileFails /\ ~RemoveOldDir /\ ~RemoveOldDirFails
      BY <2>1 DEF MoveOldFile, MoveOldFileFails, RemoveOldDir, RemoveOldDirFails
    <2>3. CASE CreateDir
      BY <2>3 DEF CreateDir, Settled, olddir
    <2>4. CASE Copy \/ CopyFails \/ StepFails
      BY <2>4 DEF Copy, CopyFails, StepFails, Goto, Return, Settled, dir, olddir
    <2>5. CASE Check \/ CheckWriteFails
      BY <2>5 DEF Check, CheckWriteFails, CheckWith, Goto, Return, Settled, olddir
    <2>6. CASE OpenDatabase \/ UpgradeRaises \/ OpenMigrated
      BY <2>6 DEF OpenDatabase, UpgradeRaises, OpenMigrated, Return, Settled, olddir
    <2>7. CASE Attach \/ ExportSchema \/ ExportRows \/ RemoveOldCopy \/ MoveNewCopy
      BY <2>7 DEF Attach, ExportSchema, ExportRows, RemoveOldCopy, MoveNewCopy,
                  Goto, Return, Settled, olddir
    <2> QED BY <1>1, <2>2, <2>3, <2>4, <2>5, <2>6, <2>7 DEF CallStep
  <1>2. CASE Quit \/ Crash
    <2>1. Restart
      BY <1>2 DEF Quit, Crash
    <2> QED BY SMT, <2>1 DEF Restart, Return, Settled, dir, olddir
  <1>3. CASE UNCHANGED vars
    BY <1>3 DEF vars, running, dir, olddir, Settled
  <1>4. CASE \E v \in KdfArgs : SetHmacKdfIterations(v)
    BY SMT, <1>4 DEF SetHmacKdfIterations, running, dir, olddir, Settled
  <1>5. CASE \/ \E k \in Keys : SetPassword(k)
             \/ \E v \in HashArgs : SetHmacAlgorithm(v)
    BY <1>5 DEF SetPassword, SetHmacAlgorithm, running, dir, olddir, Settled
  <1>6. CASE \E n \in Names : Open(n) \/ Install(n) \/ CipherUpgrade(n)
    BY <1>6 DEF Open, Install, CipherUpgrade, Enter, dir, olddir, Settled, OrdinaryUse
  <1>7. CASE \E n \in Names : Close(n) \/ Remove(n) \/ \E id \in RowIds : Execute(n, id)
    BY <1>7 DEF Close, Remove, Execute, running, dir, olddir, Settled
  <1> QED BY <1>1, <1>2, <1>3, <1>4, <1>5, <1>6, <1>7 DEF Next

(* Nothing is counted any more once something was. *)
LEMMA UninterruptedBefore ==
    ASSUME TypeOK, [Next]_vars, Uninterrupted'
    PROVE  Uninterrupted /\ ~Fault /\ ~Crash /\ \A n \in Names : ~Remove(n)
  <1>1. faults \in Nat /\ crashes \in Nat /\ removals \in Nat
    BY BoundsAssumption DEF TypeOK
  <1>2. ~Fault /\ ~Crash /\ \A n \in Names : ~Remove(n)
    BY <1>1 DEF Fault, Crash, Remove, Uninterrupted
  <1>3. UNCHANGED counts
    <2>1. CASE CallStep
      BY <1>2, <2>1 DEF CallStep, CreateDir, MoveOldFile, MoveOldFileFails,
                  RemoveOldDir, RemoveOldDirFails, Copy, CopyFails, Check, CheckWriteFails,
                  OpenDatabase, UpgradeRaises, Attach, ExportSchema, ExportRows,
                  RemoveOldCopy, MoveNewCopy, OpenMigrated, StepFails
    <2>2. CASE Quit \/ Crash \/ UNCHANGED vars
      BY <1>2, <2>2 DEF Quit, vars
    <2>3. CASE \E v \in KdfArgs : SetHmacKdfIterations(v)
      BY SMT, <2>3 DEF SetHmacKdfIterations
    <2>4. CASE \/ \E k \in Keys : SetPassword(k)
               \/ \E v \in HashArgs : SetHmacAlgorithm(v)
               \/ \E m \in Names : \/ Open(m) \/ Install(m) \/ CipherUpgrade(m)
                                   \/ Close(m) \/ Remove(m)
                                   \/ \E id \in RowIds : Execute(m, id)
      BY <1>2, <2>4 DEF SetPassword, SetHmacAlgorithm, Open, Install, CipherUpgrade, Enter,
                  Close, Execute
    <2> QED BY <2>1, <2>2, <2>3, <2>4 DEF Next
  <1> QED BY <1>2, <1>3 DEF counts, Uninterrupted

(* A call that got past the check, step by step. *)
LEMMA CheckedCall ==
    ASSUME OrdinaryUse, FilesInv, NamesApart, Settled, Uninterrupted, Checked,
           \A n \in Names : Described(n), CallStep, ~Fault
    PROVE  Checked' /\ \A n \in Names : Described(n)'
  <1> USE DEF FilesInv
  <1>0. PICK m \in Names : m = name /\ Described(m)
    BY DEF TypeOK
  <1>1. /\ name \in Names /\ pc # "idle" /\ databases[name].state # "open"
        /\ pc \notin {"moving", "upgrading"}
    BY DEF MigrationProgress, TypeOK, CallStep, CreateDir, MoveOldFile, Checked,
           MoveOldFileFails, RemoveOldDir, RemoveOldDirFails, Copy, CopyFails, Check,
           CheckWriteFails, CheckWith, OpenDatabase, UpgradeRaises, Attach, ExportSchema,
           ExportRows, RemoveOldCopy, MoveNewCopy, OpenMigrated, StepFails
  <1>2. files \in [Names -> File] /\ versions \in [Names -> Version]
        /\ databases \in [Names -> Connection]
    BY DEF TypeOK
  <1>3. password = AppGUID /\ \A f \in File : f.key = AppGUID
    BY DEF TypeOK, OrdinaryUse, File
  <1>4. name' = name \/ pc' = "idle"
    BY DEF CallStep, CreateDir, MoveOldFile, MoveOldFileFails, RemoveOldDir,
           RemoveOldDirFails, Copy, CopyFails, Check, CheckWriteFails, CheckWith,
           OpenDatabase, UpgradeRaises, Attach, ExportSchema, ExportRows, RemoveOldCopy,
           MoveNewCopy, OpenMigrated, StepFails, Goto, Return
  <1>5. UNCHANGED module
    BY DEF CallStep, CreateDir, MoveOldFile, MoveOldFileFails, RemoveOldDir,
           RemoveOldDirFails, Copy, CopyFails, Check, CheckWriteFails, CheckWith,
           OpenDatabase, UpgradeRaises, Attach, ExportSchema, ExportRows, RemoveOldCopy,
           MoveNewCopy, OpenMigrated, StepFails
  <1>6. CurrentCipherParams' = CurrentCipherParams
    BY <1>5, CurrentUnchanged
  (* The other names are left alone. *)
  <1>7. ASSUME NEW n \in Names, n # name, files'[n] = files[n], versions'[n] = versions[n],
               databases'[n] = databases[n]
        PROVE  Described(n)'
    BY <1>4, <1>7 DEF Described, Ahead, AboutToOpen, Exporting
  <1>8. ASSUME UNCHANGED <<files, versions, databases>>, Described(m)'
        PROVE  \A n \in Names : Described(n)'
    BY <1>0, <1>7, <1>8
  <1>9. CASE CreateDir
    <2>1. /\ UNCHANGED <<files, versions, databases, name, tempFile>> /\ pc = "entering"
          /\ pc' \in {"installing", "checking"}
      BY <1>9 DEF CreateDir, Settled, AfterDbPath
    <2>2. Described(m)'
      BY <1>0, <1>1, <2>1 DEF Described, Ahead, AboutToOpen, Exporting
    <2> QED BY <1>8, <2>1, <2>2 DEF Checked, Exporting
  <1>10. CASE Copy
    <2>1. /\ UNCHANGED <<versions, databases, name, tempFile>> /\ pc = "installing"
          /\ pc' = "checking"
      BY <1>10 DEF Copy, Goto
    <2>2. /\ \/ files' = files
             \/ /\ files[name].kind = "absent"
                /\ \E f \in {LegacyPlain(name), LegacyCipher(name, V4)} :
                      files' = [files EXCEPT ![name] = f]
      BY <1>10 DEF Copy
    <2>3. ASSUME NEW n \in Names, n # name PROVE files'[n] = files[n]
      BY <1>2, <2>2, <2>3
    <2>4. Described(m)'
      <3>1. CASE files' = files
        BY <1>0, <1>1, <2>1, <3>1 DEF Described, Ahead, AboutToOpen, Exporting
      <3>2. CASE /\ files[name].kind = "absent"
                 /\ files'[name] \in {LegacyPlain(name), LegacyCipher(name, V4)}
        <4>1. RecordedParams(versions[name]) = V4
          BY <1>0, <1>1, <2>1, <3>2 DEF Described, Ahead, AboutToOpen, Exporting
        <4>2. LegacyPlain(name).kind = "plain" /\ LegacyCipher(name, V4).params = V4
              /\ LegacyCipher(name, V4).kind = "cipher"
          BY FilesHave DEF LegacyCipher
        <4> QED BY <1>0, <1>1, <2>1, <3>2, <4>1, <4>2 DEF Described
      <3> QED BY <1>0, <1>1, <1>2, <2>2, <3>1, <3>2
    <2> QED BY <1>0, <1>7, <2>1, <2>3, <2>4 DEF Checked, Exporting
  <1>11. CASE CheckWith(TRUE)
    <2> DEFINE recorded == RecordedParams(versions[name])
    <2>1. /\ UNCHANGED <<databases, files, tempFile>> /\ pc = "checking"
          /\ versions' = IF recorded # CurrentCipherParams
                         THEN [versions EXCEPT ![name] = VersionOf(CurrentCipherParams)]
                         ELSE versions
      BY <1>11 DEF CheckWith
    <2>2. RecordedParams(versions'[name]) = CurrentCipherParams
      <3>1. RecordedParams(VersionOf(CurrentCipherParams)) = CurrentCipherParams
        BY DEF RecordedParams, VersionOf
      <3> QED BY <1>0, <1>1, <1>2, <2>1, <3>1
    <2>3. \A n \in Names : n # name => versions'[n] = versions[n]
      BY <1>2, <2>1
    <2>4. call # "cipherUpgrade" /\ isNewDatabase = FALSE
      BY DEF Settled
    <2>5. \/ /\ recorded # CurrentCipherParams /\ pc' = "attaching" /\ oldCipherParams' = recorded
             /\ name' = name
          \/ recorded = CurrentCipherParams /\ pc' = "opening" /\ name' = name
      BY <1>11, <2>4 DEF CheckWith, Goto
    <2>6. files[name].kind = "cipher" => files[name].params = recorded
      BY <1>0, <1>1, <2>1 DEF Described, Ahead, Exporting
    <2>7. Described(m)'
      BY <1>0, <1>1, <2>1, <2>2, <2>5, <2>6 DEF Described, Ahead, AboutToOpen
    <2>8. Checked'
      BY <1>6, <2>1, <2>2, <2>5, <2>6 DEF Checked, Exporting
    <2> QED BY <1>0, <1>7, <2>1, <2>3, <2>7, <2>8
  <1>12. CASE OpenDatabase \/ OpenMigrated
    <2>1. /\ UNCHANGED <<versions, tempFile>> /\ pc \in {"opening", "reopening"} /\ pc' = "idle"
          /\ files' = [files EXCEPT ![name] = Created(files[name])]
          /\ \E migrated \in BOOLEAN : Connect(migrated)
      BY <1>12 DEF OpenDatabase, OpenMigrated, Return
    <2>2. RecordedParams(versions[name]) = CurrentCipherParams
      BY <2>1 DEF Checked
    <2>3. /\ databases'[name].params = CurrentCipherParams
          /\ \A n \in Names : n # name => databases'[n] = databases[n] /\ files'[n] = files[n]
          /\ files'[name] = Created(files[name])
      BY <1>0, <1>1, <1>2, <2>1 DEF Connect
    <2>4. Described(m)'
      <3>1. files'[name].kind # "absent"
        BY <2>3, FilesHave DEF Created
      <3>2. files'[name].kind = "cipher" => files'[name] = files[name]
        BY <2>3, FilesHave DEF Created
      <3>3. files[name].kind = "cipher" => files[name].params = RecordedParams(versions[name])
        BY <1>0, <1>1, <2>1 DEF Described, Ahead, Exporting
      <3> QED BY <1>0, <2>1, <2>2, <2>3, <3>1, <3>2, <3>3 DEF Described
    <2>5. Checked'
      BY <2>1 DEF Checked, Exporting
    <2> QED BY <1>0, <1>7, <2>1, <2>3, <2>4, <2>5
  <1>13. CASE Attach
    <2> DEFINE file == Created(files[name])
               readable == CanRead(file, password, oldCipherParams)
    <2>1. /\ UNCHANGED <<versions, databases>> /\ pc = "attaching"
          /\ files' = [files EXCEPT ![name] = file]
          /\ tempFile' = IF readable THEN Created(tempFile) ELSE tempFile
          /\ IF readable /\ CanRead(tempFile', password, CurrentCipherParams)
             THEN Goto("exporting") ELSE Return
      BY <1>13 DEF Attach
    <2>2. /\ tempFile.kind = "absent" /\ RecordedParams(versions[name]) = CurrentCipherParams
          /\ files[name].kind = "cipher" => files[name].params = oldCipherParams
      BY <2>1 DEF Checked, Exporting
    <2>3. files'[name] = file /\ \A n \in Names : n # name => files'[n] = files[n]
      BY <1>0, <1>1, <1>2, <2>1
    <2>4. file.kind # "absent"
      BY FilesHave DEF Created
    <2>5. CASE readable
      <3>1. tempFile'.kind = "blank"
        BY <2>1, <2>2, <2>5, FilesHave DEF Created
      <3>2. pc' = "exporting" /\ name' = name
        BY <2>1, <2>5, <3>1 DEF CanRead, Goto
      <3>3. Described(m)'
        BY <1>0, <1>1, <2>1, <3>2 DEF Described, Ahead, AboutToOpen, Exporting
      <3>4. Checked'
        BY <1>6, <2>1, <2>2, <3>2 DEF Checked, Exporting
      <3> QED BY <1>0, <1>7, <2>1, <2>3, <3>3, <3>4
    <2>6. CASE ~readable
      <3>1. tempFile' = tempFile /\ pc' = "idle"
        BY <2>1, <2>6 DEF Return
      <3>2. file.kind # "cipher"
        <4>1. file.kind = "cipher" => file = files[name]
          BY FilesHave DEF Created
        <4>2. files[name].key = password
          BY <1>1, <1>2, <1>3
        <4> QED BY <2>2, <2>6, <4>1, <4>2 DEF CanRead
      <3>3. Described(m)'
        BY <1>0, <1>1, <2>1, <2>3, <2>4, <3>2 DEF Described
      <3>4. Checked'
        BY <2>2, <3>1 DEF Checked, Exporting
      <3> QED BY <1>0, <1>7, <2>1, <2>3, <3>3, <3>4
    <2> QED BY <2>5, <2>6
  <1>14. CASE ExportSchema \/ ExportRows
    <2>1. UNCHANGED <<files, versions, databases>> /\ pc \in {"exporting", "copying rows"}
      BY <1>14 DEF ExportSchema, ExportRows
    <2>2. pc' \in {"copying rows", "replacing"} /\ name' = name
      <3>1. CASE ExportSchema
        <4>1. tempFile.tables = {}
          BY <3>1 DEF ExportSchema, NamesApart, Uninterrupted
        <4> QED BY <3>1, <4>1 DEF ExportSchema, Goto
      <3>2. CASE ExportRows
        BY <3>2 DEF ExportRows, Goto
      <3> QED BY <1>14, <3>1, <3>2
    <2>3. Described(m)'
      BY <1>0, <1>1, <2>1, <2>2 DEF Described, Ahead, AboutToOpen, Exporting
    <2>4. Checked'
      BY <1>6, <2>1, <2>2 DEF Checked, Exporting
    <2> QED BY <1>8, <2>1, <2>3, <2>4
  <1>15. CASE RemoveOldCopy
    <2>1. /\ UNCHANGED <<versions, databases, tempFile>> /\ pc = "replacing"
          /\ pc' = "renaming" /\ name' = name
          /\ files' = [files EXCEPT ![name] = NoFile]
      BY <1>15 DEF RemoveOldCopy, Goto
    <2>2. Described(m)'
      BY <1>0, <1>1, <2>1 DEF Described, Ahead, AboutToOpen, Exporting
    <2>3. Checked'
      BY <1>6, <2>1 DEF Checked, Exporting
    <2> QED BY <1>0, <1>2, <1>7, <2>1, <2>2, <2>3
  <1>16. CASE MoveNewCopy
    <2>1. /\ UNCHANGED <<versions, databases>> /\ pc = "renaming"
          /\ pc' = "reopening" /\ name' = name /\ tempFile' = NoFile
          /\ files' = [files EXCEPT ![name] = tempFile]
      BY <1>16 DEF MoveNewCopy, Goto
    <2>2. CanRead(tempFile, password, CurrentCipherParams)
      BY <2>1 DEF MigrationProgress
    <2>3. files'[name] = tempFile /\ RecordedParams(versions[name]) = CurrentCipherParams
      BY <1>0, <1>1, <1>2, <2>1 DEF Checked, Exporting
    <2>4. Described(m)'
      BY <1>0, <1>1, <2>1, <2>2, <2>3 DEF Described, CanRead
    <2>5. Checked'
      BY <1>6, <2>1, <2>3, FilesHave DEF Checked, Exporting
    <2> QED BY <1>0, <1>2, <1>7, <2>1, <2>4, <2>5
  <1>17. ~CopyFails /\ ~CheckWriteFails /\ ~StepFails
    BY DEF CopyFails, CheckWriteFails, StepFails
  <1>18. ~MoveOldFile /\ ~MoveOldFileFails /\ ~RemoveOldDir /\ ~RemoveOldDirFails /\ ~UpgradeRaises
    BY <1>1 DEF MoveOldFile, MoveOldFileFails, RemoveOldDir, RemoveOldDirFails, UpgradeRaises
  <1> QED BY <1>9, <1>10, <1>11, <1>12, <1>13, <1>14, <1>15, <1>16, <1>17, <1>18
          DEF CallStep, Check

LEMMA VersionsStep ==
    OrdinaryUse /\ FilesInv /\ NamesApart /\ VersionsTrue /\ [Next]_vars => VersionsTrue'
  <1> SUFFICES ASSUME OrdinaryUse, FilesInv, NamesApart, VersionsTrue, [Next]_vars
               PROVE  VersionsTrue'
    OBVIOUS
  <1>1. Settled /\ Settled'
    BY SettledStep DEF FilesInv, VersionsTrue
  <1>2. SUFFICES ASSUME Uninterrupted'
                 PROVE  Checked' /\ \A n \in Names : Described(n)'
    BY <1>1 DEF VersionsTrue
  <1>3. /\ Uninterrupted /\ ~Fault /\ ~Crash /\ \A n \in Names : ~Remove(n)
        /\ Checked /\ \A n \in Names : Described(n)
    BY <1>2, UninterruptedBefore DEF FilesInv, VersionsTrue
  <1>4. CASE CallStep
    BY <1>1, <1>3, <1>4, CheckedCall
  (* Between two calls every name is described as it stands. *)
  <1>5. ASSUME pc = "idle", pc' \in {"idle", "entering"}, tempFile' = tempFile
        PROVE  Checked'
    BY <1>3, <1>5 DEF Checked, Exporting
  <1>6. ASSUME pc = "idle", pc' \in {"idle", "entering"}, NEW n \in Names,
               files'[n] = files[n], versions'[n] = versions[n],
               databases'[n].state = "open" => databases'[n].params = databases[n].params
                                               /\ databases[n].state = "open"
        PROVE  Described(n)'
    <2>1. Described(n)
      BY <1>3
    <2> QED BY <1>6, <2>1 DEF Described, Ahead, AboutToOpen, Exporting
  <1>7. CASE Quit
    <2>1. /\ pc = "idle" /\ pc' = "idle" /\ UNCHANGED dir
          /\ databases' = [n \in Names |-> NoConnection]
      BY SMT, <1>7 DEF Quit, Restart, Return
    <2>2. \A n \in Names : databases'[n].state = "none"
      BY <2>1 DEF NoConnection
    <2> QED BY <1>5, <1>6, <2>1, <2>2 DEF dir
  <1>8. CASE UNCHANGED vars
    <2>1. /\ UNCHANGED <<pc, name, oldCipherParams, files, versions, tempFile, databases>>
          /\ CurrentCipherParams' = CurrentCipherParams
      BY <1>8, CurrentUnchanged DEF vars, running, dir
    <2> QED BY <1>3, <2>1 DEF Checked, Described, Ahead, AboutToOpen
  <1>9. CASE \/ \E k \in Keys : SetPassword(k)
             \/ \E v \in HashArgs : SetHmacAlgorithm(v)
             \/ \E v \in KdfArgs : SetHmacKdfIterations(v)
    <2>1. pc = "idle" /\ UNCHANGED <<pc, dir, databases>>
      <3>1. CASE \E v \in KdfArgs : SetHmacKdfIterations(v)
        BY SMT, <3>1 DEF SetHmacKdfIterations, running
      <3> QED BY <1>9, <3>1 DEF SetPassword, SetHmacAlgorithm, running
    <2> QED BY <1>5, <1>6, <2>1 DEF dir
  <1>10. CASE \E n \in Names : Open(n) \/ Install(n) \/ CipherUpgrade(n)
    <2>1. pc = "idle" /\ pc' = "entering" /\ UNCHANGED <<dir, databases>>
      BY <1>10 DEF Open, Install, CipherUpgrade, Enter
    <2> QED BY <1>5, <1>6, <2>1 DEF dir
  <1>11. ASSUME NEW m \in Names, Close(m)
         PROVE  Checked' /\ \A n \in Names : Described(n)'
    <2>1. /\ pc = "idle" /\ UNCHANGED <<pc, dir>>
          /\ databases' = [databases EXCEPT ![m].state = "closed"]
      BY <1>11 DEF Close, running
    <2>2. ASSUME NEW n \in Names
          PROVE  databases'[n].state = "open" => databases'[n].params = databases[n].params
                                                 /\ databases[n].state = "open"
      BY <2>1 DEF FilesInv, TypeOK, Connection
    <2> QED BY <1>5, <1>6, <2>1, <2>2 DEF dir
  <1>12. ASSUME NEW m \in Names, NEW id \in RowIds, Execute(m, id)
         PROVE  Checked' /\ \A n \in Names : Described(n)'
    <2> DEFINE new == IF files[m].kind = "blank"
                      THEN CipherFile(databases[m].params, databases[m].key, {m}, {<<m, id>>})
                      ELSE [files[m] EXCEPT !.tables = @ \cup {m}, !.rows = @ \cup {<<m, id>>}]
    <2>1. /\ pc = "idle" /\ databases[m].state = "open" /\ Reads(m)
          /\ files' = [files EXCEPT ![m] = new]
          /\ UNCHANGED <<pc, databases, versions, tempFile>>
      BY <1>12 DEF Execute, running
    <2>2. new.kind = "cipher" /\ new.params = databases[m].params
      <3>1. CASE files[m].kind = "blank"
        BY <3>1 DEF CipherFile
      <3>2. CASE files[m].kind # "blank"
        BY <2>1, <3>2 DEF Reads, CanRead, FilesInv, TypeOK, File
      <3> QED BY <3>1, <3>2
    <2>3. files'[m] = new /\ \A n \in Names : n # m => files'[n] = files[n]
      BY <2>1 DEF FilesInv, TypeOK
    <2> HIDE DEF new
    <2>4. Described(m)'
      <3>1. Described(m)
        BY <1>3
      <3> QED BY <2>1, <2>2, <2>3, <3>1 DEF Described
    <2>5. ASSUME NEW n \in Names, n # m PROVE Described(n)'
      BY <1>6, <2>1, <2>3, <2>5
    <2> QED BY <1>5, <2>1, <2>4, <2>5
  <1> QED BY <1>3, <1>4, <1>7, <1>8, <1>9, <1>10, <1>11, <1>12 DEF Next

LEMMA InitVersions == OrdinaryUse /\ Init => VersionsTrue
  <1> SUFFICES ASSUME OrdinaryUse, Init PROVE VersionsTrue
    OBVIOUS
  <1>1. /\ Begin /\ tempFile = NoFile /\ pc = "idle" /\ call = "none" /\ isNewDatabase = FALSE
        /\ databases = [n \in Names |-> NoConnection]
    BY SMT DEF Init
  <1>2. FindIn([n \in Names |-> Recorded(n)])
    BY <1>1 DEF Begin, OrdinaryUse
  <1> DEFINE found == [n \in Names |-> Recorded(n)]
  <1>3. PICK start \in [Names -> UNION {found[n] : n \in Names}] :
            /\ \A n \in Names : start[n] \in found[n]
            /\ files = [n \in Names |-> start[n][1]]
            /\ versions = [n \in Names |-> start[n][2]]
    BY <1>2 DEF FindIn
  <1>4. Settled
    BY <1>1, <1>2 DEF FindIn, Settled
  <1>5. Checked
    BY <1>1, FilesHave DEF Checked, Exporting
  <1>6. ASSUME NEW n \in Names PROVE Described(n)
    <2>1. <<files[n], versions[n]>> \in Recorded(n)
      <3>1. start[n] \in Recorded(n)
        BY <1>3
      <3> QED BY <1>3, <3>1 DEF Recorded
    <2>2. /\ NoFile.kind = "absent" /\ LegacyCipher(n, V4).params = V4
          /\ LegacyCipher(n, V3).params = V3
          /\ LegacyCipher(n, V4).kind = "cipher" /\ LegacyCipher(n, V3).kind = "cipher"
      BY FilesHave DEF LegacyCipher
    <2>3. /\ RecordedParams(NoVersion) = V4
          /\ RecordedParams([NoVersion EXCEPT !.kind = "2.0.7"]) = V4
          /\ RecordedParams([NoVersion EXCEPT !.kind = "older"]) = V3
      BY DEF RecordedParams, NoVersion
    <2>4. databases[n].state = "none"
      BY <1>1 DEF NoConnection
    <2> QED BY <2>1, <2>2, <2>3, <2>4 DEF Recorded, Described
  <1> QED BY <1>4, <1>5, <1>6 DEF VersionsTrue

(* However often the settings change, what a database was encrypted with   *)
(* is what its version file says when it is opened again, and so it is     *)
(* migrated when it has to be.                                             *)
THEOREM ConnectionsCorrect ==
    ASSUME OrdinaryUse
    PROVE  Spec => []ConnectionsRead
  <1>1. Inv /\ VersionsTrue /\ [Next]_vars => VersionsTrue'
    BY VersionsStep DEF Inv
  <1>2. Inv /\ VersionsTrue => ConnectionsRead
    <2> SUFFICES ASSUME VersionsTrue, Uninterrupted, NEW n \in Names, Inv,
                        databases[n].state = "open", databases[n].linked,
                        files[n].kind = "cipher", files[n].key = databases[n].key
                 PROVE  Reads(n)
      BY DEF ConnectionsRead, Uninterrupted
    <2>1. Described(n)
      BY DEF VersionsTrue
    <2>2. ~Ahead(n)
      BY DEF Ahead, Exporting, Inv, FilesInv, MigrationProgress
    <2> QED BY <2>1, <2>2 DEF Described, Reads, CanRead
  <1> QED BY <1>1, <1>2, InitVersions, Invariance, PTL DEF Spec

-----------------------------------------------------------------------------
(* Databases of old releases that nothing reads again                      *)

(* Every connection has the current page size, and between two calls no    *)
(* old parameters are left.                                                *)
ParamsCurrent ==
    /\ \A n \in Names : databases[n].params.pageSize = V4.pageSize
    /\ pc = "idle" => oldCipherParams = V4

LEMMA InitParams == Init => ParamsCurrent
  <1>1. Init => databases = [n \in Names |-> NoConnection] /\ oldCipherParams = V4
    BY SMT DEF Init
  <1> QED BY <1>1 DEF ParamsCurrent, NoConnection

(* Where a step of a call leads. *)
LEMMA CallGoes ==
    ASSUME CallStep
    PROVE  \/ Return
           \/ name' = name /\ oldCipherParams' = oldCipherParams /\ pc' # "idle"
           \/ /\ pc = "checking" /\ pc' \in {"upgrading", "attaching"} /\ name' = name
              /\ oldCipherParams' = RecordedParams(versions[name])
  <1>1. CASE CreateDir \/ MoveOldFile \/ MoveOldFileFails \/ RemoveOldDir \/ RemoveOldDirFails
    BY <1>1 DEF CreateDir, MoveOldFile, MoveOldFileFails, RemoveOldDir, RemoveOldDirFails,
                Goto, AfterDbPath
  <1>2. CASE Copy \/ CopyFails \/ OpenDatabase \/ UpgradeRaises
    BY <1>2 DEF Copy, CopyFails, OpenDatabase, UpgradeRaises, Goto
  <1>3. CASE Check \/ CheckWriteFails
    BY <1>3 DEF Check, CheckWriteFails, CheckWith, Goto
  <1>4. CASE Attach \/ ExportSchema \/ ExportRows
    BY <1>4 DEF Attach, ExportSchema, ExportRows, Goto
  <1>5. CASE RemoveOldCopy \/ MoveNewCopy \/ OpenMigrated \/ StepFails
    BY <1>5 DEF RemoveOldCopy, MoveNewCopy, OpenMigrated, StepFails, Goto
  <1> QED BY <1>1, <1>2, <1>3, <1>4, <1>5 DEF CallStep

(* What the steps of no call do. *)
LEMMA OtherGoes ==
    ASSUME [Next]_vars, ~CallStep
    PROVE  \/ Restart
           \/ UNCHANGED <<pc, name, oldCipherParams>>
           \/ pc = "idle" /\ pc' = "entering" /\ UNCHANGED oldCipherParams
  <1>1. CASE \E n \in Names : Open(n) \/ Install(n) \/ CipherUpgrade(n)
    BY <1>1 DEF Open, Install, CipherUpgrade, Enter
  <1>2. CASE \/ \E k \in Keys : SetPassword(k)
             \/ \E v \in HashArgs : SetHmacAlgorithm(v)
             \/ \E n \in Names : Close(n) \/ Remove(n) \/ \E id \in RowIds : Execute(n, id)
             \/ UNCHANGED vars
    BY <1>2 DEF SetPassword, SetHmacAlgorithm, Close, Remove, Execute, running, vars
  <1>3. CASE \E v \in KdfArgs : SetHmacKdfIterations(v)
    BY SMT, <1>3 DEF SetHmacKdfIterations, running
  <1>4. CASE Quit \/ Crash
    BY <1>4 DEF Quit, Crash
  <1> QED BY <1>1, <1>2, <1>3, <1>4 DEF Next

(* What happens to the connection of a name. *)
LEMMA ConnectionStep ==
    ASSUME TypeOK, [Next]_vars, NEW n \in Names
    PROVE  \/ databases'[n].params = databases[n].params
           \/ databases'[n] = NoConnection
           \/ databases'[n].params = CurrentCipherParams
  <1>1. CASE CallStep
    <2>1. CASE \E m \in BOOLEAN : Connect(m)
      BY <2>1 DEF Connect, TypeOK
    <2>2. (\E m \in BOOLEAN : Connect(m)) \/ UNCHANGED databases
      BY <1>1 DEF CallStep, CreateDir, MoveOldFile, MoveOldFileFails, RemoveOldDir,
                  RemoveOldDirFails, Copy, CopyFails, Check, CheckWriteFails, CheckWith,
                  OpenDatabase, UpgradeRaises, Attach, ExportSchema, ExportRows,
                  RemoveOldCopy, MoveNewCopy, OpenMigrated, StepFails
    <2> QED BY <2>1, <2>2
  <1>2. CASE Quit \/ Crash
    <2>1. Restart
      BY <1>2 DEF Quit, Crash
    <2>2. databases' = [m \in Names |-> NoConnection]
      BY SMT, <2>1 DEF Restart
    <2> QED BY <2>2
  <1>3. CASE \E v \in KdfArgs : SetHmacKdfIterations(v)
    <2>1. UNCHANGED databases
      BY SMT, <1>3 DEF SetHmacKdfIterations
    <2> QED BY <2>1
  <1>4. CASE \/ \E k \in Keys : SetPassword(k)
             \/ \E v \in HashArgs : SetHmacAlgorithm(v)
             \/ \E m \in Names : \/ Open(m) \/ Install(m) \/ CipherUpgrade(m)
                                 \/ \E id \in RowIds : Execute(m, id)
             \/ UNCHANGED vars
    BY <1>4 DEF SetPassword, SetHmacAlgorithm, Open, Install, CipherUpgrade, Enter,
                Execute, vars
  <1>5. ASSUME NEW m \in Names, Close(m) \/ Remove(m)
        PROVE  databases'[n].params = databases[n].params
    BY <1>5 DEF Close, Remove, TypeOK, Connection
  <1> QED BY <1>1, <1>2, <1>3, <1>4, <1>5 DEF Next

LEMMA ParamsStep == TypeOK /\ ParamsCurrent /\ [Next]_vars => ParamsCurrent'
  <1> SUFFICES ASSUME TypeOK, ParamsCurrent, [Next]_vars
               PROVE  ParamsCurrent'
    OBVIOUS
  <1>1. ASSUME NEW n \in Names
        PROVE  databases'[n].params.pageSize = V4.pageSize
    BY <1>1, ConnectionStep DEF ParamsCurrent, NoConnection, CurrentCipherParams
  <1>2. ASSUME pc' = "idle"
        PROVE  oldCipherParams' = V4
    <2>1. CASE CallStep
      <3>1. Return
        BY <1>2, <2>1, CallGoes
      <3> QED BY <3>1 DEF Return
    <2>2. CASE ~CallStep
      <3>1. CASE Restart
        <4>1. Return
          BY SMT, <3>1 DEF Restart
        <4> QED BY <4>1 DEF Return
      <3> QED BY <1>2, <2>2, <3>1, OtherGoes DEF ParamsCurrent
    <2> QED BY <2>1, <2>2
  <1> QED BY <1>1, <1>2 DEF ParamsCurrent

LEMMA ParamsInvariance == Spec => []ParamsCurrent
  <1>1. Inv => TypeOK
    BY DEF Inv, FilesInv
  <1> QED BY <1>1, InitParams, ParamsStep, Invariance, PTL DEF Spec

(* A version file is kept or rewritten with the current page size. *)
LEMMA RecordStep ==
    ASSUME TypeOK, [Next]_vars, NEW n \in Names,
           RecordedParams(versions[n]).pageSize = V4.pageSize
    PROVE  RecordedParams(versions'[n]).pageSize = V4.pageSize
  <1>1. \/ UNCHANGED versions
        \/ versions' = [versions EXCEPT ![name] = VersionOf(CurrentCipherParams)]
    <2>1. CASE CallStep
      BY <2>1 DEF CallStep, CreateDir, MoveOldFile, MoveOldFileFails, RemoveOldDir,
                  RemoveOldDirFails, Copy, CopyFails, Check, CheckWriteFails, CheckWith,
                  OpenDatabase, UpgradeRaises, Attach, ExportSchema, ExportRows,
                  RemoveOldCopy, MoveNewCopy, OpenMigrated, StepFails, dir
    <2>2. CASE Quit \/ Crash
      <3>1. Restart
        BY <2>2 DEF Quit, Crash
      <3> QED BY SMT, <3>1 DEF Restart, dir
    <2>3. CASE \E v \in KdfArgs : SetHmacKdfIterations(v)
      BY SMT, <2>3 DEF SetHmacKdfIterations, dir
    <2>4. CASE \/ \E k \in Keys : SetPassword(k)
               \/ \E v \in HashArgs : SetHmacAlgorithm(v)
               \/ \E m \in Names : \/ Open(m) \/ Install(m) \/ CipherUpgrade(m)
                                   \/ Close(m) \/ Remove(m)
                                   \/ \E id \in RowIds : Execute(m, id)
               \/ UNCHANGED vars
      BY <2>4 DEF SetPassword, SetHmacAlgorithm, Open, Install, CipherUpgrade, Enter,
                  Execute, Close, Remove, dir, vars
    <2> QED BY <2>1, <2>2, <2>3, <2>4 DEF Next
  <1>2. RecordedParams(VersionOf(CurrentCipherParams)).pageSize = V4.pageSize
    BY DEF RecordedParams, VersionOf, CurrentCipherParams
  <1> QED BY <1>1, <1>2 DEF TypeOK

(* The file itself: nothing but remove() changes one that no migration has *)
(* read.                                                                   *)
LEMMA UnreadFileStep ==
    ASSUME TypeOK, [Next]_vars, NEW n \in Names, files[n].kind \in {"plain", "cipher"},
           name = n => pc \notin {"replacing", "renaming"}, ~Reads(n)
    PROVE  files'[n] = files[n] \/ (files'[n] = NoFile /\ removals' = removals + 1)
  <1>0. name \in Names
    BY DEF TypeOK
  <1>1. CASE CallStep
    <2>1. CASE MoveOldFile
      <3>1. PICK m \in unmoved :
                \/ UNCHANGED files
                \/ files[m].kind = "absent" /\ files' = [files EXCEPT ![m] = oldFiles[m]]
        BY <2>1 DEF MoveOldFile
      <3> QED BY <3>1 DEF TypeOK
    <2>2. CASE Copy
      <3>1. \/ UNCHANGED files
            \/ /\ files[name].kind = "absent"
               /\ \E f \in {LegacyPlain(name), LegacyCipher(name, V4)} :
                      files' = [files EXCEPT ![name] = f]
        BY <2>2 DEF Copy
      <3> QED BY <3>1 DEF TypeOK
    <2>3. CASE OpenDatabase \/ UpgradeRaises \/ OpenMigrated \/ Attach
      <3>1. files' = [files EXCEPT ![name] = Created(files[name])]
        BY <2>3 DEF OpenDatabase, UpgradeRaises, OpenMigrated, Attach
      <3>2. Created(files[n]) = files[n]
        BY DEF Created
      <3> QED BY <1>0, <3>1, <3>2 DEF TypeOK
    <2>4. CASE RemoveOldCopy \/ MoveNewCopy
      <3>1. n # name
        BY <2>4 DEF RemoveOldCopy, MoveNewCopy
      <3> QED BY <2>4, <3>1 DEF RemoveOldCopy, MoveNewCopy, TypeOK
    <2>5. CASE \/ CreateDir \/ MoveOldFileFails \/ RemoveOldDir \/ RemoveOldDirFails
               \/ CopyFails \/ Check
               \/ CheckWriteFails \/ ExportSchema \/ ExportRows \/ StepFails
      BY <2>5 DEF CreateDir, MoveOldFileFails, RemoveOldDir, RemoveOldDirFails, CopyFails, Check,
                  CheckWriteFails, CheckWith, ExportSchema, ExportRows, StepFails, dir
    <2> QED BY <1>1, <2>1, <2>2, <2>3, <2>4, <2>5 DEF CallStep
  <1>2. CASE Quit \/ Crash
    <2>1. Restart
      BY <1>2 DEF Quit, Crash
    <2> QED BY SMT, <2>1 DEF Restart, dir
  <1>3. CASE \E v \in KdfArgs : SetHmacKdfIterations(v)
    BY SMT, <1>3 DEF SetHmacKdfIterations, dir
  <1>4. CASE \/ \E k \in Keys : SetPassword(k)
             \/ \E v \in HashArgs : SetHmacAlgorithm(v)
             \/ \E m \in Names : Open(m) \/ Install(m) \/ CipherUpgrade(m) \/ Close(m)
             \/ UNCHANGED vars
    BY <1>4 DEF SetPassword, SetHmacAlgorithm, Open, Install, CipherUpgrade, Enter,
                Close, dir, vars
  <1>5. ASSUME NEW m \in Names, NEW id \in RowIds, Execute(m, id)
        PROVE  files'[n] = files[n]
    <2>1. n # m
      BY <1>5 DEF Execute
    <2> QED BY <1>5, <2>1 DEF Execute, TypeOK
  <1>6. ASSUME NEW m \in Names, Remove(m)
        PROVE  files'[n] = files[n] \/ (files'[n] = NoFile /\ removals' = removals + 1)
    BY <1>6 DEF Remove, TypeOK
  <1> QED BY <1>1, <1>2, <1>3, <1>4, <1>5, <1>6 DEF Next

(* The database of name n is not encrypted, or with the page size of an    *)
(* old release while its version file, or the lack of one, says that it    *)
(* has the current one; and no migration has read it.                      *)
Unreachable(n) ==
    /\ name = n => pc \in {"idle", "entering", "moving", "installing", "checking",
                            "opening", "upgrading", "attaching"}
    /\ \/ files[n].kind = "plain"
       \/ /\ files[n].kind = "cipher" /\ files[n].params.pageSize # V4.pageSize
          /\ RecordedParams(versions[n]).pageSize = V4.pageSize
          /\ name = n => oldCipherParams.pageSize = V4.pageSize

(* Such a database is never read again: no connection reads it and no call *)
(* migrates it or changes it, under no password and no settings, until the *)
(* application removes it.                                                 *)
UnreachableForGood ==
    [][\A n \in Names :
          Unreachable(n) =>
              /\ ~Reads(n)
              /\ \/ Unreachable(n)' /\ files'[n] = files[n]
                 \/ files'[n] = NoFile /\ removals' = removals + 1]_vars

(* No connection reads such a file, and no migration. *)
LEMMA Unread ==
    ASSUME ParamsCurrent, NEW n \in Names, Unreachable(n)
    PROVE  ~Reads(n) /\ \A k : name = n => ~CanRead(files[n], k, oldCipherParams)
  BY DEF Unreachable, Reads, CanRead, ParamsCurrent

(* The call that runs does not come to what it does with a file that it    *)
(* has read.                                                               *)
LEMMA UnreadCall ==
    ASSUME CallStep, NEW n, name' = n, Unreachable(n), ParamsCurrent, n \in Names
    PROVE  \/ Return
           \/ pc' \in {"idle", "entering", "moving", "installing", "checking",
                       "opening", "upgrading", "attaching"}
  <1>1. CASE name # n
    BY <1>1, CallGoes
  <1>2. CASE name = n
    <2>1. CASE Attach
      <3>1. Created(files[name]) = files[name]
        BY <1>2 DEF Unreachable, Created
      <3>2. ~CanRead(files[name], password, oldCipherParams)
        BY <1>2, Unread
      <3> QED BY <2>1, <3>1, <3>2 DEF Attach
    <2>2. CASE \/ CreateDir \/ MoveOldFile \/ MoveOldFileFails \/ RemoveOldDir \/ RemoveOldDirFails
               \/ Copy \/ CopyFails \/ OpenDatabase \/ UpgradeRaises \/ StepFails
               \/ OpenMigrated
      BY <2>2 DEF CreateDir, MoveOldFile, MoveOldFileFails, RemoveOldDir,
                  RemoveOldDirFails, Copy, CopyFails, OpenDatabase, UpgradeRaises,
                  StepFails, OpenMigrated, AfterDbPath, Goto
    <2>3. CASE Check \/ CheckWriteFails
      BY <2>3 DEF Check, CheckWriteFails, CheckWith, Goto
    <2>4. ~ExportSchema /\ ~ExportRows /\ ~RemoveOldCopy /\ ~MoveNewCopy
      BY <1>2 DEF Unreachable, ExportSchema, ExportRows, RemoveOldCopy, MoveNewCopy
    <2> QED BY <2>1, <2>2, <2>3, <2>4 DEF CallStep
  <1> QED BY <1>1, <1>2

LEMMA UnreachableStep ==
    ASSUME TypeOK, ParamsCurrent, [Next]_vars, NEW n \in Names, Unreachable(n)
    PROVE  /\ ~Reads(n)
           /\ \/ Unreachable(n)' /\ files'[n] = files[n]
              \/ files'[n] = NoFile /\ removals' = removals + 1
  <1>1. ~Reads(n)
    BY Unread
  <1>2. files'[n] = files[n] \/ (files'[n] = NoFile /\ removals' = removals + 1)
    BY <1>1, UnreadFileStep DEF Unreachable
  <1>3. ASSUME files'[n] = files[n]
        PROVE  Unreachable(n)'
    <2>1. ASSUME Return
          PROVE  pc' = "idle" /\ oldCipherParams' = V4
      BY <2>1 DEF Return
    <2>2. ASSUME Restart
          PROVE  Return
      BY SMT, <2>2 DEF Restart
    <2>3. name' = n => pc' \in {"idle", "entering", "moving", "installing", "checking",
                                "opening", "upgrading", "attaching"}
      BY <2>1, <2>2, UnreadCall, OtherGoes DEF Unreachable
    <2>4. ASSUME RecordedParams(versions[n]).pageSize = V4.pageSize, name' = n,
                 name = n => oldCipherParams.pageSize = V4.pageSize
          PROVE  oldCipherParams'.pageSize = V4.pageSize
      BY <2>1, <2>2, <2>4, CallGoes, OtherGoes DEF ParamsCurrent
    <2>5. RecordedParams(versions[n]).pageSize = V4.pageSize
              => RecordedParams(versions'[n]).pageSize = V4.pageSize
      BY RecordStep
    <2> QED BY <1>3, <2>3, <2>4, <2>5 DEF Unreachable
  <1> QED BY <1>1, <1>2, <1>3

(* A database that is not encrypted, and one of an old release whose       *)
(* version file was rewritten before it was migrated or that has none, as  *)
(* those have that came from the old directory: no later call reads it,    *)
(* whatever password and settings the application assigns, however often   *)
(* it is restarted and whatever fails.  The documentation promises the     *)
(* opposite: this is how far the violation of OpenUpdates goes.            *)
THEOREM UnreachableStays == Spec => UnreachableForGood
  <1>1. TypeOK /\ ParamsCurrent /\ [Next]_vars
          => [\A n \in Names :
                Unreachable(n) =>
                    /\ ~Reads(n)
                    /\ \/ Unreachable(n)' /\ files'[n] = files[n]
                       \/ files'[n] = NoFile /\ removals' = removals + 1]_vars
    BY UnreachableStep
  <1>2. Inv => TypeOK
    BY DEF Inv, FilesInv
  <1> QED BY <1>1, <1>2, Invariance, ParamsInvariance, PTL DEF Spec, UnreachableForGood
=============================================================================
