------------------------ MODULE AndroidStore_proofs ------------------------
(***************************************************************************)
(* For every set of rows, passwords, settings and proxies, and any number  *)
(* of crashes and failing file operations: no committed row leaves the     *)
(* disk unless the application removes the database.  What a proxy reads   *)
(* (ReturnedReads) is shown where the module is used as DefaultsOnly says, *)
(* what an application gets that goes on opening by two theorems about     *)
(* liveness, and from which files it never gets anything by StuckStays.    *)
(***************************************************************************)
EXTENDS AndroidStore, CipherSettings_proofs

-----------------------------------------------------------------------------
(* Type correctness.  It is inductive on its own. *)

LEMMA FilesType ==
    /\ NoFile \in File /\ BlankFile \in File /\ TornFile \in File
    /\ \A R \in SUBSET Rows : PlainFile(R) \in File
    /\ \A s \in Settings, k \in Keys, R \in SUBSET Rows : CipherFile(s, k, R) \in File
  BY DefaultsType, KeysAssumption
     DEF NoFile, BlankFile, TornFile, PlainFile, CipherFile, File

(* The contents of each kind of file, for the proofs below. *)
LEMMA FilesRows ==
    /\ NoFile.rows = {} /\ BlankFile.rows = {} /\ TornFile.rows = {}
    /\ ~NoFile.table /\ ~BlankFile.table /\ ~TornFile.table
    /\ NoFile.kind = "absent" /\ BlankFile.kind = "blank" /\ TornFile.kind = "torn"
    /\ \A R : /\ PlainFile(R).rows = R /\ PlainFile(R).table /\ PlainFile(R).kind = "plain"
    /\ \A s, k, R : LET f == CipherFile(s, k, R)
                    IN f.rows = R /\ f.table /\ f.kind = "cipher" /\ f.key = k
  BY DEF NoFile, BlankFile, TornFile, PlainFile, CipherFile

LEMMA GuessesType == Guesses \in Seq(Settings) /\ Len(Guesses) = 5
  <1>1. FromSQLCipherV3 \in Settings /\ FromSQLCipherV2 \in Settings
    <2>1. {"SHA1"} \in SUBSET HashTypes
      BY DEF HashTypes, TiIntId
    <2> QED BY <2>1, DefaultsType, SettersType DEF FromSQLCipherV3, FromSQLCipherV2
  <1>2. /\ SetHashAlgorithmType(FromSQLCipherV4, {"SHA256"}) \in Settings
        /\ SetHashAlgorithmType(FromSQLCipherV4, {"SHA1"}) \in Settings
    <2>1. {"SHA1"} \in SUBSET HashTypes /\ {"SHA256"} \in SUBSET HashTypes
      BY DEF HashTypes, TiIntId
    <2> QED BY <2>1, DefaultsType, SettersType
  <1> QED BY <1>1, <1>2, DefaultsType DEF Guesses

(* Whatever attempt opens the file, it leaves valid settings behind. *)
LEMMA AttemptType ==
    ASSUME NEW stored \in SUBSET Settings
    PROVE  Attempt(stored).old \subseteq Settings
  <1>1. \A i \in 1..5 : Guesses[i] \in Settings
    BY GuessesType
  <1>2. ASSUME OpeningGuesses # {} PROVE FirstOpeningGuess \in 1..5
    <2>1. OpeningGuesses \subseteq 1..5
      BY DEF OpeningGuesses
    <2>2. \E i \in OpeningGuesses : \A j \in OpeningGuesses : i <= j
      <3> DEFINE G == OpeningGuesses
      <3>1. CASE 1 \in G
        BY <2>1, <3>1
      <3>2. CASE 1 \notin G /\ 2 \in G
        BY <2>1, <3>2
      <3>3. CASE 1 \notin G /\ 2 \notin G /\ 3 \in G
        BY <2>1, <3>3
      <3>4. CASE 1 \notin G /\ 2 \notin G /\ 3 \notin G /\ 4 \in G
        BY <2>1, <3>4
      <3>5. CASE 1 \notin G /\ 2 \notin G /\ 3 \notin G /\ 4 \notin G
        <4>1. PICK i \in G : TRUE
          BY <1>2
        <4>2. i = 5 /\ \A j \in G : 5 <= j
          BY <2>1, <3>5
        <4> QED BY <4>1, <4>2
      <3> QED BY <3>1, <3>2, <3>3, <3>4, <3>5
    <2> QED BY <2>1, <2>2 DEF FirstOpeningGuess
  <1>3. Guesses[5] \in Settings
    BY <1>1
  <1>4. OpeningGuesses # {} => Guesses[FirstOpeningGuess] \in Settings
    BY <1>1, <1>2
  <1> QED BY <1>3, <1>4 DEF Attempt

LEMMA StoredSettingsType ==
    propertiesFile \subseteq Properties => StoredSettings \subseteq Settings
  BY FromPropertiesType DEF StoredSettings

LEMMA ReturnProxyType ==
    ASSUME TypeOK, NEW s \in Settings, ReturnProxy(s)
    PROVE  proxies' \in [Proxies -> Proxy]
  <1>1. PICK h \in Free :
            proxies' = [proxies EXCEPT ![h] =
                [state |-> "open", linked |-> TRUE, key |-> password,
                 settings |-> ConnectionSettings(s), asked |-> dbSettings]]
    BY DEF ReturnProxy
  <1>2. [state |-> "open", linked |-> TRUE, key |-> password,
         settings |-> ConnectionSettings(s), asked |-> dbSettings] \in Proxy
    BY DefaultsType DEF TypeOK, Proxy, ConnectionSettings
  <1> QED BY <1>1, <1>2 DEF TypeOK, Free

LEMMA FaultType ==
    ASSUME TypeOK, Fault
    PROVE  /\ faults' \in 0..MaxFaults
           /\ removals' \in 0..MaxRemovals /\ crashes' \in 0..MaxCrashes
  BY BoundsAssumption DEF TypeOK, Fault

LEMMA InitType == Init => TypeOK
  <1> SUFFICES ASSUME Init PROVE TypeOK
    OBVIOUS
  <1>1. NoProxy \in Proxy
    BY DefaultsType, KeysAssumption DEF NoProxy, Proxy
  <1>2. dbFile \in File
    BY FilesType, RowsAssumption, KeysAssumption, ArgsAssumption DEF Init
  <1>3. dbFile.rows \subseteq Rows
    BY <1>2 DEF File
  <1>4. /\ password \in Keys /\ dbSettings \in Settings /\ dbOldSettings \subseteq Settings
        /\ migratedFile \in File /\ propertiesFile \subseteq Properties
        /\ pc \in PCs
    BY FilesType, DefaultsType, KeysAssumption DEF Init, PCs
  <1>5. /\ proxies \in [Proxies -> Proxy] /\ saved \subseteq Rows
        /\ removals \in 0..MaxRemovals /\ crashes \in 0..MaxCrashes
        /\ faults \in 0..MaxFaults
    BY <1>1, <1>3, BoundsAssumption DEF Init
  <1> QED BY <1>2, <1>4, <1>5 DEF TypeOK

LEMMA NextType == TypeOK /\ [Next]_vars => TypeOK'
  <1> SUFFICES ASSUME TypeOK, [Next]_vars PROVE TypeOK'
    OBVIOUS
  <1> USE KeysAssumption, RowsAssumption, ArgsAssumption, BoundsAssumption
  <1>1. ASSUME NEW k \in Keys, SetPassword(k) PROVE TypeOK'
    BY <1>1 DEF SetPassword, TypeOK, disk, counts
  <1>2. ASSUME NEW s \in Settings, AssignSettings(s) PROVE TypeOK'
    BY <1>2 DEF AssignSettings, TypeOK, disk, counts
  <1>3. ASSUME NEW v \in HashArgs, SetHmacAlgorithm(v) PROVE TypeOK'
    <2>1. SetHashAlgorithmType(dbSettings, FromTiIntId(v)) \in Settings
      BY SettersType DEF TypeOK, FromTiIntId
    <2> QED BY <1>2, <1>3, <2>1 DEF SetHmacAlgorithm
  <1>4. ASSUME NEW v \in KdfArgs, SetHmacKdfIterations(v) PROVE TypeOK'
    <2>1. SetKdfIterations(dbSettings, v) \in Settings
      BY SettersType DEF TypeOK
    <2> QED BY <1>2, <1>4, <2>1 DEF SetHmacKdfIterations
  <1>5. ASSUME NEW v \in PageArgs, PageSize(v) PROVE TypeOK'
    <2>1. SetPageSize(dbSettings, v) \in Settings
      BY SettersType DEF TypeOK
    <2> QED BY <1>2, <1>5, <2>1 DEF PageSize
  <1>6. CASE Open
    BY <1>6 DEF Open, TypeOK, PCs, disk, counts
  <1>7. CASE Install
    BY <1>7, FilesType DEF Install, TypeOK, PCs, counts
  <1>8. ASSUME NEW stored \in SUBSET Settings, ProbeWith(stored),
               faults' \in 0..MaxFaults, UNCHANGED <<removals, crashes>>
        PROVE  TypeOK'
    <2>1. dbOldSettings' \subseteq Settings
      BY <1>8, AttemptType DEF ProbeWith
    <2>2. proxies' \in [Proxies -> Proxy] /\ pc' \in PCs
      BY <1>8, ReturnProxyType DEF ProbeWith, TypeOK, PCs
    <2> QED BY <1>8, <2>1, <2>2 DEF ProbeWith, TypeOK, disk
  <1>9. CASE CallStep
    <2>1. CASE Probe
      <3>1. StoredSettings \subseteq Settings
        BY StoredSettingsType DEF TypeOK
      <3> QED BY <1>8, <2>1, <3>1 DEF Probe, TypeOK, counts
    <2>2. CASE ProbeUnreadableProperties
      BY <1>8, <2>2 DEF ProbeUnreadableProperties, Fault, TypeOK
    <2>3. CASE Attach
      BY <2>3, FilesType DEF Attach, Throw, TypeOK, PCs, counts
    <2>4. CASE ExportSchema
      <3>1. migratedFile' \in File
        BY <2>4, FilesType DEF ExportSchema, TypeOK
      <3> QED BY <2>4, <3>1 DEF ExportSchema, Throw, TypeOK, PCs, counts
    <2>5. CASE ExportRows
      <3>1. migratedFile' \in File
        BY <2>5 DEF ExportRows, TypeOK, File
      <3> QED BY <2>5, <3>1 DEF ExportRows, TypeOK, PCs, counts
    <2>6. CASE DeleteOldFile
      <3>1. proxies' \in [Proxies -> Proxy]
        BY <2>6 DEF DeleteOldFile, Unlinked, TypeOK, Proxy
      <3> QED BY <2>6, <3>1, FilesType DEF DeleteOldFile, TypeOK, PCs, counts
    <2>7. CASE RenameMigratedFile
      BY <2>7, FilesType DEF RenameMigratedFile, TypeOK, PCs, counts
    <2>8. CASE StepFails
      <3>1. Fault /\ Throw /\ UNCHANGED <<password, dbSettings, dbOldSettings, disk, saved>>
        BY <2>8 DEF StepFails
      <3> QED BY <3>1, FaultType DEF Throw, TypeOK, PCs, disk
    <2>9. CASE Create
      BY <2>9, FilesType DEF Create, TypeOK, PCs, counts
    <2>10. CASE TruncateProperties
      <3>1. NoProperties \in Properties
        BY DEF NoProperties, Properties
      <3> QED BY <2>10, <3>1 DEF TruncateProperties, TypeOK, PCs, counts
    <2>11. CASE StoreProperties
      <3>1. propertiesFile' \subseteq Properties
        BY <2>11, PropertiesRoundTrip DEF StoreProperties, TypeOK
      <3>2. proxies' \in [Proxies -> Proxy]
        BY <2>11, ReturnProxyType DEF StoreProperties, TypeOK
      <3> QED BY <2>11, <3>1, <3>2 DEF StoreProperties, TypeOK, PCs, counts
    <2>12. CASE PropertiesFail
      <3>1. proxies' \in [Proxies -> Proxy]
        BY <2>12, ReturnProxyType DEF PropertiesFail, TypeOK
      <3>2. /\ faults' \in 0..MaxFaults
            /\ removals' \in 0..MaxRemovals /\ crashes' \in 0..MaxCrashes
        BY <2>12, FaultType DEF PropertiesFail
      <3> QED BY <2>12, <3>1, <3>2 DEF PropertiesFail, TypeOK, PCs, disk
    <2>13. CASE CopySome
      BY <2>13, FilesType DEF CopySome, TypeOK, memory, counts
    <2>14. CASE CopyRest
      BY <2>14, FilesType DEF CopyRest, TypeOK, PCs, counts
    <2>15. CASE CopyFails
      <3>1. Fault /\ Throw /\ UNCHANGED <<password, dbSettings, dbOldSettings, disk, saved>>
        BY <2>15 DEF CopyFails
      <3> QED BY <3>1, FaultType DEF Throw, TypeOK, PCs, disk
    <2>16. CASE CopyUnflushed
      <3>1. /\ Fault /\ pc' = "opening"
            /\ UNCHANGED <<password, dbSettings, proxies, dbOldSettings, disk, saved>>
        BY <2>16 DEF CopyUnflushed
      <3> QED BY <3>1, FaultType DEF TypeOK, PCs, disk
    <2> QED BY <1>9, <2>1, <2>2, <2>3, <2>4, <2>5, <2>6, <2>7, <2>8, <2>9, <2>10,
               <2>11, <2>12, <2>13, <2>14, <2>15, <2>16 DEF CallStep
  <1>10. ASSUME NEW h \in Proxies, NEW r \in Rows, Execute(h, r) PROVE TypeOK'
    <2>1. CipherFile(proxies[h].settings, proxies[h].key, {r}) \in File
      BY FilesType DEF TypeOK, Proxy
    <2>2. [dbFile EXCEPT !.rows = @ \cup {r}] \in File
      BY DEF TypeOK, File
    <2> QED BY <1>10, <2>1, <2>2 DEF Execute, TypeOK, memory, counts
  <1>11. ASSUME NEW h \in Proxies, Close(h) PROVE TypeOK'
    <2>1. proxies' \in [Proxies -> Proxy]
      BY <1>11 DEF Close, TypeOK, Proxy
    <2> QED BY <1>11, <2>1 DEF Close, TypeOK, disk, counts
  <1>12. ASSUME NEW h \in Proxies, Remove(h) PROVE TypeOK'
    <2>1. Unlinked \in [Proxies -> Proxy]
      BY DEF Unlinked, TypeOK, Proxy
    <2>2. proxies' \in [Proxies -> Proxy]
      BY <1>12, <2>1 DEF Remove, Proxy
    <2> QED BY <1>12, <2>2, FilesType DEF Remove, RemoveWith, TypeOK
  <1>13. ASSUME NEW h \in Proxies, RemoveFails(h) PROVE TypeOK'
    <2>1. proxies' \in [Proxies -> Proxy]
      BY <1>13 DEF RemoveFails, TypeOK, Proxy
    <2> QED BY <1>13, <2>1 DEF RemoveFails, RemoveWith, TypeOK
  <1>14. CASE Crash
    <2>1. NoProxy \in Proxy
      BY DefaultsType DEF NoProxy, Proxy
    <2>2. crashes' \in 0..MaxCrashes
      BY <1>14 DEF Crash, TypeOK
    <2>3. proxies' \in [Proxies -> Proxy]
      BY <1>14, <2>1 DEF Crash
    <2> QED BY <1>14, <2>2, <2>3, DefaultsType DEF Crash, TypeOK, PCs, disk
  <1>15. CASE UNCHANGED vars
    BY <1>15 DEF vars, memory, disk, counts, TypeOK
  <1> QED BY <1>1, <1>3, <1>4, <1>5, <1>6, <1>7, <1>9, <1>10, <1>11, <1>12, <1>13,
             <1>14, <1>15 DEF Next

(* Every variable keeps its type. *)
THEOREM TypeCorrect == Spec => []TypeOK
  BY InitType, NextType, PTL DEF Spec

-----------------------------------------------------------------------------
(* The inductive invariant behind DataOnDisk.  DataOnDisk alone is not     *)
(* inductive: the step that deletes the old file keeps it only because the *)
(* export is complete at that point, and the rename only because the old   *)
(* file is gone.                                                           *)

(* Only a file with the table has rows, and no migration leaves an         *)
(* unencrypted file behind.                                                *)
Shaped(f) ==
    /\ f.rows # {} => f.table
    /\ f.table <=> f.kind \in {"plain", "cipher"}

FileShapes ==
    /\ Shaped(dbFile) /\ Shaped(migratedFile)
    /\ migratedFile.kind \in {"absent", "blank", "cipher"}

(* Where each step of a call finds the files. *)
MigrationProgress ==
    /\ pc \in {"attaching", "exporting", "copying", "replacing"}
          => (dbFile.kind = "cipher" => dbFile.key = password)
    /\ pc \in {"exporting", "copying", "replacing", "renaming"}
          => \/ migratedFile.kind = "blank"
             \/ migratedFile.kind = "cipher" /\ migratedFile.key = password
    /\ pc = "copying" => (dbFile.table => migratedFile.table)
    /\ pc = "replacing" => dbFile.rows \subseteq migratedFile.rows
    /\ pc = "renaming" => dbFile.kind = "absent"
    /\ pc = "installing" => dbFile.kind \in {"blank", "torn"}

Inv == TypeOK /\ FileShapes /\ MigrationProgress /\ DataOnDisk

LEMMA InitInv == Init => Inv
  <1> SUFFICES ASSUME Init PROVE Inv
    OBVIOUS
  <1>1. FileShapes
    BY FilesRows DEF Init, Shaped, FileShapes
  <1>2. MigrationProgress
    BY DEF Init, MigrationProgress
  <1>3. DataOnDisk
    BY DEF Init, DataOnDisk
  <1> QED BY <1>1, <1>2, <1>3, InitType DEF Inv

(* A step that leaves the database files, the password and what is saved   *)
(* alone, and stops the call, keeps the invariant.                         *)
LEMMA Stopped ==
    ASSUME FileShapes, DataOnDisk,
           pc' \in {"idle", "opening", "creating", "truncating",
                   "storing"},
           UNCHANGED <<dbFile, migratedFile, saved>>
    PROVE  (FileShapes /\ MigrationProgress /\ DataOnDisk)'
  BY DEF Shaped, FileShapes, MigrationProgress, DataOnDisk

(* What opens an existing encrypted file is the password it was written    *)
(* with.                                                                   *)
LEMMA OpenedWithItsKey ==
    ASSUME NEW stored, Attempt(stored).opened, dbFile.kind = "cipher"
    PROVE  dbFile.key = password
  <1>1. ASSUME NEW s, OpensWith(s) PROVE dbFile.key = password
    BY <1>1 DEF OpensWith, CanRead
  <1>2. CASE \E s \in stored : OpensWith(s)
    BY <1>1, <1>2
  <1>3. CASE OpeningGuesses # {}
    BY <1>1, <1>3 DEF OpeningGuesses
  <1>4. ~IsUnencryptedDatabase(dbFile)
    BY DEF IsUnencryptedDatabase
  <1> QED BY <1>2, <1>3, <1>4 DEF Attempt

LEMMA CallStepInv == Inv /\ CallStep => (FileShapes /\ MigrationProgress /\ DataOnDisk)'
  <1> SUFFICES ASSUME Inv, CallStep PROVE (FileShapes /\ MigrationProgress /\ DataOnDisk)'
    OBVIOUS
  <1> USE DEF Inv
  <1>1. ASSUME NEW stored, ProbeWith(stored)
        PROVE  (FileShapes /\ MigrationProgress /\ DataOnDisk)'
    <2>1. UNCHANGED <<password, dbFile, migratedFile, saved>>
      BY <1>1 DEF ProbeWith, disk
    <2>2. CASE pc' \in {"idle", "creating"}
      BY <2>1, <2>2, Stopped
    <2>3. CASE pc' = "attaching" /\ dbFile.kind # "absent" /\ Attempt(stored).opened
      <3>1. dbFile.kind = "cipher" => dbFile.key = password
        BY <2>3, OpenedWithItsKey
      <3> QED BY <2>1, <2>3, <3>1 DEF Shaped, FileShapes, MigrationProgress, DataOnDisk
    <2>4. pc' \in {"idle", "creating"}
            \/ (pc' = "attaching" /\ dbFile.kind # "absent" /\ Attempt(stored).opened)
      BY <1>1 DEF ProbeWith
    <2> QED BY <2>2, <2>3, <2>4
  <1>2. CASE Probe \/ ProbeUnreadableProperties
    BY <1>1, <1>2 DEF Probe, ProbeUnreadableProperties
  <1>3. CASE Attach
    <2>1. UNCHANGED <<password, dbFile, saved>> /\ pc = "attaching"
      BY <1>3 DEF Attach
    <2>2. migratedFile' = migratedFile
            \/ (migratedFile.kind = "absent" /\ migratedFile' = BlankFile)
      BY <1>3 DEF Attach
    <2>3. FileShapes' /\ DataOnDisk'
      BY <2>1, <2>2, FilesRows DEF Shaped, FileShapes, DataOnDisk
    <2>4. pc' = "idle" \/ (pc' = "exporting" /\ CanRead(migratedFile', password, FromSQLCipherV4))
      BY <1>3 DEF Attach, Throw
    <2>5. MigrationProgress'
      BY <2>1, <2>4 DEF MigrationProgress, CanRead
    <2> QED BY <2>3, <2>5
  <1>4. CASE ExportSchema
    <2>1. UNCHANGED <<password, dbFile, saved>> /\ pc = "exporting"
      BY <1>4 DEF ExportSchema
    <2>2. CASE dbFile.table /\ migratedFile.table
      <3>1. pc' = "idle" /\ UNCHANGED migratedFile
        BY <1>4, <2>2 DEF ExportSchema, Throw
      <3> QED BY <2>1, <3>1, Stopped
    <2>3. CASE dbFile.table /\ ~migratedFile.table
      <3>1. pc' = "copying" /\ migratedFile' = CipherFile(dbSettings, password, {})
        BY <1>4, <2>3 DEF ExportSchema
      <3>2. migratedFile.rows = {}
        BY <2>3 DEF Shaped, FileShapes
      <3>3. FileShapes' /\ DataOnDisk'
        BY <2>1, <3>1, <3>2, FilesRows DEF Shaped, FileShapes, DataOnDisk
      <3>4. migratedFile'.kind = "cipher" /\ migratedFile'.key = password /\ migratedFile'.table
        BY <3>1 DEF CipherFile
      <3>5. MigrationProgress'
        BY <2>1, <3>1, <3>4 DEF MigrationProgress
      <3> QED BY <3>3, <3>5
    <2>4. CASE ~dbFile.table
      <3>1. pc' = "copying" /\ UNCHANGED migratedFile
        BY <1>4, <2>4 DEF ExportSchema
      <3> QED BY <2>1, <2>4, <3>1 DEF Shaped, FileShapes, MigrationProgress, DataOnDisk
    <2> QED BY <2>2, <2>3, <2>4
  <1>5. CASE ExportRows
    <2>1. /\ UNCHANGED <<password, dbFile, saved>>
          /\ pc = "copying" /\ pc' = "replacing"
      BY <1>5 DEF ExportRows
    <2>2. /\ migratedFile'.rows = migratedFile.rows \cup dbFile.rows
          /\ migratedFile'.kind = migratedFile.kind
          /\ migratedFile'.key = migratedFile.key
          /\ migratedFile'.table = migratedFile.table
      BY <1>5 DEF ExportRows, TypeOK, File
    <2>3. dbFile.rows # {} => dbFile.table
      BY DEF Shaped, FileShapes
    <2> QED BY <2>1, <2>2, <2>3 DEF Shaped, FileShapes, MigrationProgress, DataOnDisk
  <1>6. CASE DeleteOldFile
    <2>1. /\ UNCHANGED <<password, migratedFile, saved>> /\ dbFile' = NoFile
          /\ pc = "replacing" /\ pc' = "renaming"
      BY <1>6 DEF DeleteOldFile
    <2> QED BY <2>1, FilesRows DEF Shaped, FileShapes, MigrationProgress, DataOnDisk
  <1>7. CASE RenameMigratedFile
    <2>1. /\ UNCHANGED saved /\ dbFile' = migratedFile /\ migratedFile' = NoFile
          /\ pc = "renaming" /\ pc' = "creating"
      BY <1>7 DEF RenameMigratedFile
    <2> QED BY <2>1, FilesRows DEF Shaped, FileShapes, MigrationProgress, DataOnDisk
  <1>8. CASE StepFails \/ PropertiesFail \/ CopyFails
    <2>1. pc' = "idle" /\ UNCHANGED <<dbFile, migratedFile, saved>>
      BY <1>8 DEF StepFails, PropertiesFail, CopyFails, Throw, disk
    <2> QED BY <2>1, Stopped
  <1>9. CASE Create
    <2>1. /\ UNCHANGED <<migratedFile, saved>>
          /\ pc' \in {"idle", "truncating"}
          /\ \/ dbFile' = dbFile
             \/ dbFile.kind = "absent" /\ dbFile' = BlankFile
      BY <1>9 DEF Create
    <2> QED BY <2>1, FilesRows DEF Shaped, FileShapes, MigrationProgress, DataOnDisk
  <1>10. CASE TruncateProperties \/ StoreProperties
    <2>1. /\ pc' \in {"idle", "storing"}
          /\ UNCHANGED <<dbFile, migratedFile, saved>>
      BY <1>10 DEF TruncateProperties, StoreProperties
    <2> QED BY <2>1, Stopped
  <1>11. CASE CopySome
    <2>1. /\ UNCHANGED <<pc, password, migratedFile, saved>> /\ pc = "installing"
          /\ dbFile' = TornFile
      BY <1>11 DEF CopySome, memory
    <2> QED BY <2>1, FilesRows DEF Shaped, FileShapes, MigrationProgress, DataOnDisk
  <1>12. CASE CopyRest
    <2>1. /\ UNCHANGED migratedFile /\ pc = "installing" /\ pc' = "opening"
          /\ dbFile' = PlainFile(InstallRows) /\ saved' = saved \cup InstallRows
      BY <1>12 DEF CopyRest
    <2>2. dbFile.rows = {}
      BY <2>1 DEF Shaped, FileShapes, MigrationProgress
    <2> QED BY <2>1, <2>2, FilesRows DEF Shaped, FileShapes, MigrationProgress, DataOnDisk
  <1>13. CASE CopyUnflushed
    <2>1. UNCHANGED <<dbFile, migratedFile, saved>> /\ pc' = "opening"
      BY <1>13 DEF CopyUnflushed, disk
    <2> QED BY <2>1, Stopped
  <1> QED BY <1>2, <1>3, <1>4, <1>5, <1>6, <1>7, <1>8, <1>9, <1>10, <1>11, <1>12, <1>13
       DEF CallStep

LEMMA NextInv == Inv /\ [Next]_vars => Inv'
  <1> SUFFICES ASSUME Inv, [Next]_vars PROVE (FileShapes /\ MigrationProgress /\ DataOnDisk)'
    BY NextType DEF Inv
  <1>1. CASE CallStep
    BY <1>1, CallStepInv
  <1> USE DEF Inv
  <1>2. CASE \E k \in Keys : SetPassword(k)
    <2>1. pc' = "idle" /\ UNCHANGED <<dbFile, migratedFile, saved>>
      BY <1>2 DEF SetPassword, disk
    <2> QED BY <2>1, Stopped
  <1>3. CASE \/ \E v \in HashArgs : SetHmacAlgorithm(v)
             \/ \E v \in KdfArgs : SetHmacKdfIterations(v)
             \/ \E v \in PageArgs : PageSize(v)
    <2>1. pc' = "idle" /\ UNCHANGED <<dbFile, migratedFile, saved>>
      BY <1>3 DEF SetHmacAlgorithm, SetHmacKdfIterations, PageSize, AssignSettings, disk
    <2> QED BY <2>1, Stopped
  <1>4. CASE Open
    <2>1. pc' = "opening" /\ UNCHANGED <<dbFile, migratedFile, saved>>
      BY <1>4 DEF Open, disk
    <2> QED BY <2>1, Stopped
  <1>5. CASE Install
    <2>1. CASE dbFile.kind # "absent"
      <3>1. pc' = "opening" /\ UNCHANGED <<dbFile, migratedFile, saved>>
        BY <1>5, <2>1 DEF Install
      <3> QED BY <3>1, Stopped
    <2>2. CASE dbFile.kind = "absent"
      <3>1. pc' = "installing" /\ dbFile' = BlankFile /\ UNCHANGED <<migratedFile, saved>>
        BY <1>5, <2>2 DEF Install
      <3>2. dbFile.rows = {}
        BY <2>2 DEF Shaped, FileShapes
      <3> QED BY <3>1, <3>2, FilesRows DEF Shaped, FileShapes, MigrationProgress, DataOnDisk
    <2> QED BY <2>1, <2>2
  <1>6. ASSUME NEW h \in Proxies, NEW r \in Rows, Execute(h, r)
        PROVE  (FileShapes /\ MigrationProgress /\ DataOnDisk)'
    <2>1. /\ pc' = "idle" /\ UNCHANGED migratedFile /\ saved' = saved \cup {r}
          /\ CanRead(dbFile, proxies[h].key, proxies[h].settings)
      BY <1>6 DEF Execute, Reads, memory
    <2>2. dbFile'.kind = "cipher" /\ dbFile'.table /\ dbFile'.rows = dbFile.rows \cup {r}
      <3>1. CASE dbFile.kind = "blank"
        <4>1. dbFile' = CipherFile(proxies[h].settings, proxies[h].key, {r})
          BY <1>6, <3>1 DEF Execute
        <4>2. dbFile.rows = {}
          BY <3>1 DEF Shaped, FileShapes
        <4> QED BY <4>1, <4>2 DEF CipherFile
      <3>2. CASE dbFile.kind = "cipher"
        <4>1. dbFile' = [dbFile EXCEPT !.rows = @ \cup {r}]
          BY <1>6, <3>2 DEF Execute
        <4>2. dbFile.table
          BY <3>2 DEF Shaped, FileShapes
        <4> QED BY <3>2, <4>1, <4>2 DEF TypeOK, File
      <3> QED BY <2>1, <3>1, <3>2 DEF CanRead
    <2> QED BY <2>1, <2>2 DEF Shaped, FileShapes, MigrationProgress, DataOnDisk
  <1>7. CASE \E h \in Proxies : Close(h) \/ RemoveFails(h)
    <2>1. pc' = "idle" /\ UNCHANGED <<dbFile, migratedFile, saved>>
      BY <1>7 DEF Close, RemoveFails, RemoveWith, disk
    <2> QED BY <2>1, Stopped
  <1>8. CASE \E h \in Proxies : Remove(h)
    <2>1. /\ pc' = "idle" /\ UNCHANGED migratedFile
          /\ dbFile' = NoFile /\ saved' = {}
      BY <1>8 DEF Remove, RemoveWith
    <2> QED BY <2>1, FilesRows DEF Shaped, FileShapes, MigrationProgress, DataOnDisk
  <1>9. CASE Crash
    <2>1. pc' = "idle" /\ UNCHANGED <<dbFile, migratedFile, saved>>
      BY <1>9 DEF Crash, disk
    <2> QED BY <2>1, Stopped
  <1>10. CASE UNCHANGED vars
    BY <1>10 DEF vars, memory, disk, counts, Shaped, FileShapes, MigrationProgress, DataOnDisk
  <1> QED BY <1>1, <1>2, <1>3, <1>4, <1>5, <1>6, <1>7, <1>8, <1>9, <1>10 DEF Next

LEMMA Invariance == Spec => []Inv
  BY InitInv, NextInv, PTL DEF Spec

(* No committed row is ever only in memory or only in a file the module is *)
(* about to delete, however many crashes and failures there are.           *)
THEOREM DataSafe == Spec => []DataOnDisk
  BY Invariance, PTL DEF Inv

(* A migration never puts an unencrypted file, or one under another        *)
(* password, in place of the database.                                     *)
THEOREM MigrationSafe == Spec => []MigrationEncrypts
  <1>1. Inv => MigrationEncrypts
    BY DEF Inv, MigrationProgress, MigrationEncrypts
  <1> QED BY <1>1, Invariance, PTL

-----------------------------------------------------------------------------
(* A wrong password *)

LEMMA WrongPasswordStep ==
    Inv /\ [Next]_vars
        => (dbFile.kind = "cipher" /\ dbFile.key # password /\ pc # "idle"
                => UNCHANGED <<dbFile, migratedFile>>)
  <1> SUFFICES ASSUME Inv, [Next]_vars, dbFile.kind = "cipher",
                      dbFile.key # password, pc # "idle"
               PROVE  UNCHANGED <<dbFile, migratedFile>>
    OBVIOUS
  <1>1. pc \notin {"attaching", "exporting", "copying", "replacing",
                  "renaming", "installing"}
    BY DEF Inv, MigrationProgress
  <1>2. CASE CallStep
    <2>1. CASE Create
      BY <2>1 DEF Create
    <2>2. CASE Probe \/ ProbeUnreadableProperties
      BY <2>2 DEF Probe, ProbeUnreadableProperties, ProbeWith, disk
    <2>3. CASE StepFails \/ PropertiesFail \/ TruncateProperties \/ StoreProperties
      BY <2>3 DEF StepFails, PropertiesFail, TruncateProperties, StoreProperties, disk
    <2> QED BY <1>1, <1>2, <2>1, <2>2, <2>3
            DEF CallStep, Attach, ExportSchema, ExportRows, DeleteOldFile,
                RenameMigratedFile, CopySome, CopyRest, CopyFails, CopyUnflushed
  <1>3. CASE Crash \/ UNCHANGED vars
    BY <1>3 DEF Crash, vars, disk
  <1>4. ~(\/ \E k \in Keys : SetPassword(k)
          \/ \E v \in HashArgs : SetHmacAlgorithm(v)
          \/ \E v \in KdfArgs : SetHmacKdfIterations(v)
          \/ \E v \in PageArgs : PageSize(v)
          \/ Open \/ Install)
    BY DEF SetPassword, SetHmacAlgorithm, SetHmacKdfIterations, PageSize,
           AssignSettings, Open, Install
  <1>5. ~(\E h \in Proxies : \/ \E r \in Rows : Execute(h, r)
                             \/ Close(h) \/ Remove(h) \/ RemoveFails(h))
    BY DEF Execute, Close, Remove, RemoveFails, RemoveWith
  <1> QED BY <1>2, <1>3, <1>4, <1>5 DEF Next

(* Opening with a password that is not the file's changes neither database *)
(* file, also after a migration that died.                                 *)
THEOREM WrongPasswordSafe == Spec => WrongPasswordChangesNothing
  BY Invariance, WrongPasswordStep, PTL DEF Spec, WrongPasswordChangesNothing

-----------------------------------------------------------------------------
(* Refinement.  The rows at rest are those of the two database files       *)
(* together; every step of open(), of a migration and every crash leaves   *)
(* that union as it is.                                                    *)

AtRest == dbFile.rows \cup migratedFile.rows

LEMMA InitRefines == Init => Durable!Init
  <1> SUFFICES ASSUME Init PROVE Durable!Init
    OBVIOUS
  <1>1. dbFile.rows \subseteq Rows
    BY InitType DEF TypeOK, File
  <1>2. migratedFile.rows = {}
    BY FilesRows DEF Init
  <1> QED BY <1>1, <1>2 DEF Init, Durable!Init

LEMMA CommitRefines ==
    ASSUME NEW R \in SUBSET Rows, AtRest' = AtRest \cup R, UNCHANGED removals
    PROVE  Durable!Commit
  BY DEF Durable!Commit, AtRest

LEMMA StepRefines ==
    Inv /\ Inv' /\ [Next]_vars => [Durable!Next]_<<AtRest, removals>>
  <1> SUFFICES ASSUME Inv, Inv', [Next]_vars
               PROVE  Durable!Next \/ UNCHANGED <<AtRest, removals>>
    OBVIOUS
  <1>1. ASSUME UNCHANGED <<dbFile, migratedFile, removals>>
        PROVE  UNCHANGED <<AtRest, removals>>
    BY <1>1 DEF AtRest
  <1>2. CASE \/ \E k \in Keys : SetPassword(k)
             \/ \E v \in HashArgs : SetHmacAlgorithm(v)
             \/ \E v \in KdfArgs : SetHmacKdfIterations(v)
             \/ \E v \in PageArgs : PageSize(v)
             \/ Open \/ Crash \/ UNCHANGED vars
             \/ \E h \in Proxies : Close(h)
    BY <1>1, <1>2 DEF SetPassword, SetHmacAlgorithm, SetHmacKdfIterations, PageSize,
                      AssignSettings, Open, Crash, Close, vars, disk, counts
  <1>3. CASE Install
    <2>1. /\ UNCHANGED <<migratedFile, removals>>
          /\ dbFile' = dbFile \/ (dbFile.kind = "absent" /\ dbFile' = BlankFile)
      BY <1>3 DEF Install, counts
    <2> QED BY <2>1, FilesRows DEF AtRest, Inv, FileShapes, Shaped
  <1>4. CASE \E h \in Proxies, r \in Rows : Execute(h, r)
    <2>1. PICK h \in Proxies, r \in Rows : Execute(h, r)
      BY <1>4
    <2>2. UNCHANGED <<migratedFile, removals>>
      BY <2>1 DEF Execute, counts
    <2>3. dbFile'.rows = dbFile.rows \cup {r}
      <3>1. CASE dbFile.kind = "blank"
        BY <2>1, <3>1 DEF Execute, CipherFile, Inv, FileShapes, Shaped
      <3>2. CASE dbFile.kind # "blank"
        BY <2>1, <3>2 DEF Execute, Inv, TypeOK, File
      <3> QED BY <3>1, <3>2
    <2>4. AtRest' = AtRest \cup {r}
      BY <2>2, <2>3 DEF AtRest
    <2>5. {r} \in SUBSET Rows
      OBVIOUS
    <2>6. Durable!Commit
      BY <2>2, <2>4, <2>5, CommitRefines
    <2> QED BY <2>6 DEF Durable!Next
  <1>5. CASE \E h \in Proxies : Remove(h) \/ RemoveFails(h)
    <2>1. /\ removals' = removals + 1 /\ UNCHANGED migratedFile
          /\ dbFile' = NoFile \/ dbFile' = dbFile
      BY <1>5 DEF Remove, RemoveFails, RemoveWith
    <2>2. Durable!Remove
      BY <2>1, FilesRows DEF Durable!Remove
    <2> QED BY <2>2 DEF Durable!Next
  <1>6. CASE CallStep
    <2>1. UNCHANGED removals
      BY <1>6 DEF CallStep, Probe, ProbeUnreadableProperties, Fault, Attach,
                  ExportSchema, ExportRows, DeleteOldFile, RenameMigratedFile,
                  StepFails, Create, TruncateProperties, StoreProperties,
                  PropertiesFail, CopySome, CopyRest, CopyFails, CopyUnflushed, counts
    <2>2. CASE \/ Probe \/ ProbeUnreadableProperties \/ StepFails
               \/ TruncateProperties \/ StoreProperties \/ PropertiesFail
               \/ CopyFails \/ CopyUnflushed
      <3>1. UNCHANGED <<dbFile, migratedFile>>
        BY <2>2 DEF Probe, ProbeUnreadableProperties, ProbeWith, StepFails,
                    TruncateProperties, StoreProperties, PropertiesFail,
                    CopyFails, CopyUnflushed, disk
      <3> QED BY <1>1, <2>1, <3>1
    <2>3. CASE Attach \/ Create
      <3>1. /\ dbFile' = dbFile \/ (dbFile.kind = "absent" /\ dbFile' = BlankFile)
            /\ migratedFile' = migratedFile
                 \/ (migratedFile.kind = "absent" /\ migratedFile' = BlankFile)
        BY <2>3 DEF Attach, Create
      <3> QED BY <2>1, <3>1, FilesRows DEF AtRest, Inv, FileShapes, Shaped
    <2>4. CASE ExportSchema
      <3>1. /\ UNCHANGED dbFile
            /\ \/ migratedFile' = migratedFile
               \/ ~migratedFile.table /\ migratedFile' = CipherFile(dbSettings, password, {})
        BY <2>4 DEF ExportSchema
      <3>2. ~migratedFile.table => migratedFile.rows = {}
        BY DEF Inv, FileShapes, Shaped
      <3>3. CipherFile(dbSettings, password, {}).rows = {}
        BY DEF CipherFile
      <3> QED BY <2>1, <3>1, <3>2, <3>3 DEF AtRest
    <2>5. CASE ExportRows
      <3>1. UNCHANGED dbFile /\ migratedFile'.rows = migratedFile.rows \cup dbFile.rows
        BY <2>5 DEF ExportRows, Inv, TypeOK, File
      <3> QED BY <2>1, <3>1 DEF AtRest
    <2>6. CASE DeleteOldFile
      <3>1. UNCHANGED migratedFile /\ dbFile' = NoFile /\ pc = "replacing"
        BY <2>6 DEF DeleteOldFile
      <3>2. dbFile.rows \subseteq migratedFile.rows
        BY <3>1 DEF Inv, MigrationProgress
      <3> QED BY <2>1, <3>1, <3>2, FilesRows DEF AtRest
    <2>7. CASE RenameMigratedFile
      <3>1. dbFile' = migratedFile /\ migratedFile' = NoFile /\ pc = "renaming"
        BY <2>7 DEF RenameMigratedFile
      <3>2. dbFile.rows = {}
        BY <3>1 DEF Inv, MigrationProgress, FileShapes, Shaped
      <3> QED BY <2>1, <3>1, <3>2, FilesRows DEF AtRest
    <2>8. CASE CopySome
      <3>1. UNCHANGED migratedFile /\ dbFile' = TornFile /\ dbFile.kind = "blank"
        BY <2>8 DEF CopySome
      <3> QED BY <2>1, <3>1, FilesRows DEF AtRest, Inv, FileShapes, Shaped
    <2>9. CASE CopyRest
      <3>1. UNCHANGED migratedFile /\ dbFile' = PlainFile(InstallRows) /\ pc = "installing"
        BY <2>9 DEF CopyRest
      <3>2. dbFile.rows = {}
        BY <3>1 DEF Inv, MigrationProgress, FileShapes, Shaped
      <3>3. AtRest' = AtRest \cup InstallRows
        BY <3>1, <3>2, FilesRows DEF AtRest
      <3> QED BY <2>1, <3>3, CommitRefines, RowsAssumption DEF Durable!Next
    <2> QED BY <1>6, <2>2, <2>3, <2>4, <2>5, <2>6, <2>7, <2>8, <2>9 DEF CallStep
  <1> QED BY <1>2, <1>3, <1>4, <1>5, <1>6 DEF Next

(* The Android files implement the durable store: rows come to rest by a   *)
(* commit or an installation and leave by remove() alone.                  *)
THEOREM Refinement == Spec => ImplementsDurable
  <1>1. Inv /\ Inv' /\ [Next]_vars
          => [Durable!Next]_<<dbFile.rows \cup migratedFile.rows, removals>>
    BY StepRefines DEF AtRest
  <1> QED BY <1>1, InitRefines, Invariance, PTL DEF Spec, ImplementsDurable, Durable!Spec

-----------------------------------------------------------------------------
(* What a proxy reads, where an application keeps one password and the     *)
(* default settings and no file of an older SQLCipher exists.              *)

DefaultsOnly ==
    /\ Keys = {AppGUID} /\ HashArgs = {} /\ KdfArgs = {}
    /\ \A v \in PageArgs : ValidPageSize(v) = 4096
    /\ LegacySettings \subseteq {FromSQLCipherV4}

LEMMA DefaultPageSize ==
    ASSUME DefaultsOnly, dbSettings = FromSQLCipherV4, NEW v \in PageArgs, PageSize(v)
    PROVE  UNCHANGED vars
  <1>1. SetPageSize(dbSettings, v) = dbSettings
    BY DEF DefaultsOnly, SetPageSize, FromSQLCipherV4
  <1> QED BY <1>1 DEF PageSize, AssignSettings, vars, memory

Usable(f) == f.kind \in {"blank", "cipher"}

(* Every encrypted file has the default settings; a file is handed out     *)
(* only when it is one of these or has no pages yet, and no proxy is left  *)
(* on a name that has no file or is being installed.                       *)
DefaultFiles ==
    /\ dbSettings = FromSQLCipherV4
    /\ dbFile.kind = "cipher" => dbFile.settings = FromSQLCipherV4
    /\ migratedFile.kind = "cipher" => migratedFile.settings = FromSQLCipherV4
    /\ pc = "creating" => dbFile.kind = "absent" \/ Usable(dbFile)
    /\ pc \in {"truncating", "storing"} => Usable(dbFile)
    /\ \A h \in Proxies : proxies[h].state = "open" /\ proxies[h].linked =>
          proxies[h].settings = FromSQLCipherV4 /\ Usable(dbFile) /\ pc # "installing"

(* The key of a file is always the one in force. *)
LEMMA DefaultsRead ==
    ASSUME DefaultsOnly, TypeOK
    PROVE  /\ password = AppGUID /\ dbFile.key = AppGUID /\ migratedFile.key = AppGUID
           /\ \A h \in Proxies : proxies[h].key = AppGUID
  <1>1. dbFile \in File /\ migratedFile \in File /\ \A h \in Proxies : proxies[h] \in Proxy
    BY DEF TypeOK
  <1> QED BY <1>1 DEF DefaultsOnly, TypeOK, File, Proxy

LEMMA DefaultAttempt ==
    ASSUME DefaultsOnly, TypeOK, DefaultFiles, dbFile.kind # "absent", NEW stored
    PROVE  /\ Attempt(stored).opened
           /\ Attempt(stored).old # {} => Usable(dbFile)
  <1>1. \A s : OpensWith(s) <=> Usable(dbFile)
    BY DefaultsRead DEF OpensWith, CanRead, ConnectionSettings, DefaultFiles, Usable
  <1>2. OpeningGuesses # {} <=> Usable(dbFile)
    <2>1. 1 \in 1..5
      OBVIOUS
    <2> QED BY <1>1, <2>1 DEF OpeningGuesses
  <1>3. IsUnencryptedDatabase(dbFile) <=> ~Usable(dbFile)
    BY DEF IsUnencryptedDatabase, Usable, TypeOK, File
  <1> QED BY <1>1, <1>2, <1>3 DEF Attempt

LEMMA DefaultReturn ==
    ASSUME DefaultFiles, ReturnProxy(dbSettings), proxies \in [Proxies -> Proxy],
           NEW h \in Proxies, proxies'[h].state = "open", proxies'[h].linked
    PROVE  proxies'[h].settings = FromSQLCipherV4
  <1>1. PICK g \in Free :
            proxies' = [proxies EXCEPT ![g] =
                [state |-> "open", linked |-> TRUE, key |-> password,
                 settings |-> ConnectionSettings(dbSettings), asked |-> dbSettings]]
    BY DEF ReturnProxy
  <1>2. CASE h = g
    BY <1>1, <1>2 DEF ConnectionSettings
  <1>3. CASE h # g
    BY <1>1, <1>3 DEF DefaultFiles
  <1> QED BY <1>2, <1>3

LEMMA DefaultsStep ==
    DefaultsOnly /\ Inv /\ DefaultFiles /\ [Next]_vars => DefaultFiles'
  <1> SUFFICES ASSUME DefaultsOnly, Inv, DefaultFiles, [Next]_vars PROVE DefaultFiles'
    OBVIOUS
  <1>1. TypeOK /\ proxies \in [Proxies -> Proxy] /\ migratedFile.key = AppGUID
    BY DefaultsRead DEF Inv, TypeOK
  (* A step that returns a proxy of a file it leaves alone. *)
  <1>2. ASSUME UNCHANGED <<dbSettings, dbFile, migratedFile>>, pc' = "idle",
               Usable(dbFile), ReturnProxy(dbSettings)
        PROVE  DefaultFiles'
    <2>1. ASSUME NEW h \in Proxies, proxies'[h].state = "open", proxies'[h].linked
          PROVE  proxies'[h].settings = FromSQLCipherV4
      BY <1>1, <1>2, <2>1, DefaultReturn
    <2> QED BY <1>2, <2>1 DEF DefaultFiles, Usable
  (* One that leaves both the files and the proxies alone. *)
  <1>3. ASSUME UNCHANGED <<dbSettings, dbFile, migratedFile, proxies>>,
               pc' \in {"idle", "opening", "attaching", "exporting", "copying",
                        "replacing", "renaming"}
        PROVE  DefaultFiles'
    BY <1>3 DEF DefaultFiles, Usable
  <1>4. ASSUME NEW stored, ProbeWith(stored)
        PROVE  DefaultFiles'
    <2>1. UNCHANGED <<dbSettings, dbFile, migratedFile>>
      BY <1>4 DEF ProbeWith, disk
    <2>2. CASE dbFile.kind = "absent"
      <3>1. pc' = "creating" /\ UNCHANGED proxies
        BY <1>4, <2>2 DEF ProbeWith
      <3> QED BY <2>1, <2>2, <3>1 DEF DefaultFiles, Usable
    <2>3. CASE dbFile.kind # "absent"
      <3>1. Attempt(stored).opened /\ (Attempt(stored).old # {} => Usable(dbFile))
        BY <1>1, <2>3, DefaultAttempt
      <3>2. \/ pc' = "attaching" /\ UNCHANGED proxies
            \/ /\ Attempt(stored).old = {dbSettings} /\ pc' = "idle"
               /\ ReturnProxy(dbSettings)
        BY <1>4, <2>3, <3>1 DEF ProbeWith
      <3> QED BY <1>2, <1>3, <2>1, <3>1, <3>2
    <2> QED BY <2>2, <2>3
  <1>5. CASE Attach
    <2>1. /\ UNCHANGED <<dbSettings, dbFile, proxies>> /\ pc' \in {"idle", "exporting"}
          /\ migratedFile' \in {migratedFile, BlankFile}
      BY <1>5 DEF Attach, Throw
    <2> QED BY <2>1, FilesRows DEF DefaultFiles, Usable
  <1>6. CASE ExportSchema
    <2>1. /\ UNCHANGED <<dbSettings, dbFile, proxies>> /\ pc' \in {"idle", "copying"}
          /\ migratedFile' \in {migratedFile, CipherFile(dbSettings, password, {})}
      BY <1>6 DEF ExportSchema, Throw
    <2>2. CipherFile(dbSettings, password, {}).settings = FromSQLCipherV4
      BY DEF CipherFile, DefaultFiles
    <2> QED BY <2>1, <2>2 DEF DefaultFiles, Usable
  <1>7. CASE ExportRows
    <2>1. /\ UNCHANGED <<dbSettings, dbFile, proxies>> /\ pc' = "replacing"
          /\ migratedFile'.kind = migratedFile.kind
          /\ migratedFile'.settings = migratedFile.settings
      BY <1>1, <1>7 DEF ExportRows, TypeOK, File
    <2> QED BY <2>1 DEF DefaultFiles, Usable
  <1>8. ASSUME UNCHANGED <<dbSettings, migratedFile>>, pc' \notin {"truncating",
               "storing"}, dbFile' = NoFile,
               \A h \in Proxies : ~proxies'[h].linked \/ proxies'[h].state # "open"
        PROVE  DefaultFiles'
    BY <1>8, FilesRows DEF DefaultFiles, Usable
  <1>9. \A h \in Proxies : ~Unlinked[h].linked
    BY <1>1 DEF Unlinked, Proxy
  <1>10. CASE DeleteOldFile
    <2>1. /\ UNCHANGED <<dbSettings, migratedFile>> /\ pc' = "renaming" /\ dbFile' = NoFile
          /\ proxies' = Unlinked
      BY <1>10 DEF DeleteOldFile
    <2> QED BY <1>8, <1>9, <2>1
  <1>11. CASE RenameMigratedFile
    <2>1. /\ UNCHANGED <<dbSettings, proxies>> /\ pc = "renaming" /\ pc' = "creating"
          /\ dbFile' = migratedFile /\ migratedFile' = NoFile
      BY <1>11 DEF RenameMigratedFile
    <2>2. Usable(migratedFile) /\ dbFile.kind = "absent"
      BY <2>1 DEF Inv, MigrationProgress, Usable
    <2> QED BY <2>1, <2>2, FilesRows DEF DefaultFiles, Usable
  <1>12. CASE Create
    <2>1. /\ UNCHANGED <<dbSettings, proxies, migratedFile>> /\ pc = "creating"
          /\ dbFile' = IF dbFile.kind = "absent" THEN BlankFile ELSE dbFile
          /\ pc' \in {"idle", "truncating"}
      BY <1>12 DEF Create
    <2> QED BY <2>1, FilesRows DEF DefaultFiles, Usable
  <1>13. CASE TruncateProperties
    BY <1>13 DEF TruncateProperties, DefaultFiles, Usable
  <1>14. CASE StoreProperties \/ PropertiesFail
    <2>1. /\ UNCHANGED <<dbSettings, dbFile, migratedFile>> /\ pc' = "idle"
          /\ pc \in {"truncating", "storing"}
          /\ ReturnProxy(dbSettings)
      BY <1>14 DEF StoreProperties, PropertiesFail, disk
    <2> QED BY <1>2, <2>1 DEF DefaultFiles
  <1>15. CASE StepFails \/ CopyFails
    <2>1. UNCHANGED <<dbSettings, dbFile, migratedFile, proxies>> /\ pc' = "idle"
      BY <1>15 DEF StepFails, CopyFails, Throw, disk
    <2> QED BY <1>3, <2>1
  <1>16. CASE CopySome \/ CopyRest
    <2>1. /\ UNCHANGED <<dbSettings, proxies, migratedFile>>
          /\ pc = "installing" /\ pc' \in {"installing", "opening"}
          /\ dbFile' \in {TornFile, PlainFile(InstallRows)}
      BY <1>16 DEF CopySome, CopyRest, memory
    <2>2. \A h \in Proxies : ~(proxies[h].state = "open" /\ proxies[h].linked)
      BY <2>1 DEF DefaultFiles
    <2> QED BY <2>1, <2>2, FilesRows DEF DefaultFiles
  <1>17. CASE Install
    <2>1. CASE dbFile.kind # "absent"
      <3>1. UNCHANGED <<dbSettings, dbFile, migratedFile, proxies>> /\ pc' = "opening"
        BY <1>17, <2>1 DEF Install
      <3> QED BY <1>3, <3>1
    <2>2. CASE dbFile.kind = "absent"
      <3>1. /\ UNCHANGED <<dbSettings, migratedFile, proxies>> /\ pc' = "installing"
            /\ dbFile' = BlankFile
        BY <1>17, <2>2 DEF Install
      <3> QED BY <2>2, <3>1, FilesRows DEF DefaultFiles, Usable
    <2> QED BY <2>1, <2>2
  <1>18. CASE \/ Open \/ \E k \in Keys : SetPassword(k)
    <2>1. UNCHANGED <<dbSettings, dbFile, migratedFile, proxies>> /\ pc' \in {"idle", "opening"}
      BY <1>18 DEF Open, SetPassword, disk
    <2> QED BY <1>3, <2>1
  <1>19. ASSUME NEW h \in Proxies, NEW r \in Rows, Execute(h, r)
         PROVE  DefaultFiles'
    <2>1. /\ UNCHANGED <<dbSettings, migratedFile, proxies, pc>> /\ pc = "idle"
          /\ proxies[h].state = "open" /\ proxies[h].linked
          /\ dbFile' = IF dbFile.kind = "blank"
                       THEN CipherFile(proxies[h].settings, proxies[h].key, {r})
                       ELSE [dbFile EXCEPT !.rows = @ \cup {r}]
      BY <1>19 DEF Execute, Reads, memory
    <2>2. Usable(dbFile) /\ proxies[h].settings = FromSQLCipherV4
      BY <2>1 DEF DefaultFiles
    <2>3. dbFile'.kind = "cipher" /\ dbFile'.settings = FromSQLCipherV4
      <3>1. CASE dbFile.kind = "blank"
        BY <2>1, <2>2, <3>1 DEF CipherFile
      <3>2. CASE dbFile.kind = "cipher"
        BY <1>1, <2>1, <3>2 DEF DefaultFiles, TypeOK, File
      <3> QED BY <2>2, <3>1, <3>2 DEF Usable
    <2> QED BY <2>1, <2>3 DEF DefaultFiles, Usable
  <1>20. ASSUME NEW h \in Proxies, Close(h) \/ RemoveFails(h)
         PROVE  DefaultFiles'
    <2>1. /\ UNCHANGED <<dbSettings, dbFile, migratedFile, pc>>
          /\ proxies' = [proxies EXCEPT ![h].state = "closed"]
      BY <1>20 DEF Close, RemoveFails, RemoveWith, disk
    <2>2. \A g \in Proxies : proxies'[g].state = "open" => proxies'[g] = proxies[g]
      BY <1>1, <2>1 DEF Proxy
    <2> QED BY <2>1, <2>2 DEF DefaultFiles, Usable
  <1>21. ASSUME NEW h \in Proxies, Remove(h)
         PROVE  DefaultFiles'
    <2>1. /\ UNCHANGED <<dbSettings, migratedFile, pc>> /\ dbFile' = NoFile /\ pc = "idle"
          /\ proxies' = [Unlinked EXCEPT ![h].state = "closed"]
      BY <1>21 DEF Remove, RemoveWith
    <2>2. \A g \in Proxies : ~proxies'[g].linked
      BY <1>1, <2>1 DEF Unlinked, Proxy
    <2> QED BY <1>8, <2>1, <2>2
  <1>22. CASE Crash
    <2>1. /\ dbSettings' = FromSQLCipherV4 /\ UNCHANGED <<dbFile, migratedFile>> /\ pc' = "idle"
          /\ proxies' = [h \in Proxies |-> NoProxy]
      BY <1>22 DEF Crash, disk
    <2>2. \A h \in Proxies : proxies'[h].state = "none"
      BY <2>1 DEF NoProxy
    <2> QED BY <2>1, <2>2 DEF DefaultFiles
  <1>23. CASE UNCHANGED vars
    BY <1>23 DEF vars, memory, disk, DefaultFiles, Usable
  <1>24. CASE CopyUnflushed
    <2>1. /\ UNCHANGED <<dbSettings, dbFile, migratedFile, proxies>>
          /\ pc = "installing" /\ pc' = "opening"
      BY <1>24 DEF CopyUnflushed, disk
    <2> QED BY <2>1 DEF DefaultFiles
  <1>25. /\ ~\E v \in HashArgs : SetHmacAlgorithm(v)
         /\ ~\E v \in KdfArgs : SetHmacKdfIterations(v)
         /\ \A v \in PageArgs : PageSize(v) => UNCHANGED vars
    BY DefaultPageSize DEF DefaultsOnly, DefaultFiles
  <1> QED BY <1>4, <1>5, <1>6, <1>7, <1>10, <1>11, <1>12, <1>13, <1>14, <1>15, <1>16, <1>17,
             <1>18, <1>19, <1>20, <1>21, <1>22, <1>23, <1>24, <1>25
          DEF Next, CallStep, Probe, ProbeUnreadableProperties

LEMMA InitDefaults == DefaultsOnly /\ Init => DefaultFiles
  <1> SUFFICES ASSUME DefaultsOnly, Init PROVE DefaultFiles
    OBVIOUS
  <1>1. \A s \in LegacySettings : CipherFile(s, AppGUID, LegacyRows).settings = FromSQLCipherV4
    BY DEF CipherFile, DefaultsOnly
  <1>2. \A h \in Proxies : proxies[h].state = "none"
    BY DEF Init, NoProxy
  <1>3. pc = "idle" /\ dbSettings = FromSQLCipherV4 /\ migratedFile = NoFile
    BY DEF Init
  <1>4. dbFile.kind = "cipher" => dbFile.settings = FromSQLCipherV4
    BY <1>1, FilesRows DEF Init
  <1> QED BY <1>2, <1>3, <1>4, FilesRows DEF DefaultFiles

(* However often the process dies or an operation fails, what open() and   *)
(* install() return reads the database: a migration that was interrupted   *)
(* leaves no file that the next proxy cannot read.                         *)
THEOREM ReturnedReads ==
    ASSUME DefaultsOnly
    PROVE  Spec => []ReturnedProxyReads
  <1>1. Inv /\ DefaultFiles => ReturnedProxyReads
    <2> SUFFICES ASSUME Inv, DefaultFiles, NEW h \in Proxies,
                        proxies[h].state = "open", proxies[h].linked
                 PROVE  Reads(h)
      BY DEF ReturnedProxyReads
    <2> QED BY DefaultsRead DEF Inv, DefaultFiles, Usable, Reads, CanRead
  <1> QED BY <1>1, DefaultsStep, InitDefaults, Invariance, PTL DEF Spec

-----------------------------------------------------------------------------
(* Liveness.  What fairness promises is that a step that stays possible is *)
(* taken; that one is possible whenever a call runs is NeverStuck, which   *)
(* speaks of ENABLED and is checked by TLC.  From the two, the steps of a  *)
(* call follow one another to its end.                                     *)

LEMMA InCall ==
    ASSUME [Next]_vars, pc # "idle"
    PROVE  CallStep \/ Crash \/ UNCHANGED vars
  BY DEF Next, SetPassword, SetHmacAlgorithm, SetHmacKdfIterations, PageSize,
         AssignSettings, Open, Install, Execute, Close, Remove, RemoveFails, RemoveWith

(* No step of a call leads back to one that it has taken: an installation  *)
(* is followed by an opening, an opening by at most one migration, the     *)
(* migration by the creation and that by the properties.                   *)
LEMMA CallOrder ==
    ASSUME CallStep
    PROVE  /\ pc = "installing" =>
                \/ dbFile.kind = "blank" /\ pc' = "installing" /\ dbFile' = TornFile
                \/ pc' \in {"opening", "idle"}
           /\ pc = "opening" => pc' \in {"attaching", "creating", "idle"}
           /\ pc = "attaching" => pc' \in {"exporting", "idle"}
           /\ pc = "exporting" => pc' \in {"copying", "idle"}
           /\ pc = "copying" => pc' \in {"replacing", "idle"}
           /\ pc = "replacing" => pc' \in {"renaming", "idle"}
           /\ pc = "renaming" => pc' \in {"creating", "idle"}
           /\ pc = "creating" => pc' \in {"truncating", "idle"}
           /\ pc = "truncating" => pc' \in {"storing", "idle"}
           /\ pc = "storing" => pc' = "idle"
           /\ pc # "idle"
  <1>1. CASE Probe \/ ProbeUnreadableProperties
    BY <1>1 DEF Probe, ProbeUnreadableProperties, ProbeWith
  <1>2. CASE StepFails \/ PropertiesFail \/ CopyFails
    BY <1>2 DEF StepFails, PropertiesFail, CopyFails, Throw
  <1>3. CASE Attach \/ ExportSchema \/ ExportRows
    BY <1>3 DEF Attach, ExportSchema, ExportRows, Throw
  <1>4. CASE DeleteOldFile \/ RenameMigratedFile
    BY <1>4 DEF DeleteOldFile, RenameMigratedFile
  <1>5. CASE Create \/ TruncateProperties \/ StoreProperties
    BY <1>5 DEF Create, TruncateProperties, StoreProperties
  <1>6. CASE CopySome \/ CopyRest
    BY <1>6 DEF CopySome, CopyRest, memory
  <1>7. CASE CopyUnflushed
    BY <1>7 DEF CopyUnflushed
  <1> QED BY <1>1, <1>2, <1>3, <1>4, <1>5, <1>6, <1>7 DEF CallStep

(* What weak fairness of the two actions gives once they are known to be   *)
(* possible.                                                               *)
CallsGoOn == <>[](pc # "idle") => []<><<CallStep>>_vars
OpensGoOn == <>[](pc = "idle" /\ Free # {}) => []<><<Open>>_vars

LEMMA Scheduled == LiveSpec /\ []NeverStuck => CallsGoOn /\ OpensGoOn
  <1>1. NeverStuck => (pc # "idle" => ENABLED <<CallStep>>_vars)
    BY DEF NeverStuck
  <1>2. NeverStuck => (pc = "idle" /\ Free # {} => ENABLED <<Open>>_vars)
    BY DEF NeverStuck
  <1>3. LiveSpec /\ []NeverStuck => CallsGoOn
    BY <1>1, PTL DEF LiveSpec, CallsGoOn
  <1>4. LiveSpec /\ []NeverStuck => OpensGoOn
    BY <1>2, PTL DEF LiveSpec, OpensGoOn
  <1> QED BY <1>3, <1>4, PTL

-----------------------------------------------------------------------------
(* The migration that resumes.                                             *)

(* What keeps the way open for it: an unencrypted file is handed out by no *)
(* call, so the slot its next open() needs stays free, and a call that     *)
(* runs over one is in its migration and has created the table before it   *)
(* replaces the file.                                                      *)
Resumable ==
    /\ pc # "idle" => Free # {}
    /\ dbFile.kind = "plain" =>
          /\ pc \in {"idle", "opening", "attaching", "exporting", "copying", "replacing"}
          /\ Free # {}
    /\ pc = "replacing" => (dbFile.table => migratedFile.table)

(* No settings open an unencrypted file: it is recognised by its header,   *)
(* and never handed out without a migration.                               *)
LEMMA PlainAttempt ==
    ASSUME NEW stored, dbFile.kind \in {"plain", "torn"}
    PROVE  Attempt(stored) = [opened |-> TRUE, old |-> {}]
  <1>1. ~ \E s \in stored : OpensWith(s)
    BY DEF OpensWith, CanRead
  <1> QED BY <1>1 DEF Attempt, IsUnencryptedDatabase

LEMMA PlainProbe ==
    ASSUME NEW stored, ProbeWith(stored), dbFile.kind \in {"plain", "torn"}
    PROVE  pc' = "attaching" /\ UNCHANGED proxies
  BY PlainAttempt DEF ProbeWith

(* The slots that are free stay free where no proxy is returned.           *)
LEMMA FreeKept ==
    ASSUME UNCHANGED proxies \/ proxies' = Unlinked
           \/ (proxies' = [h \in Proxies |-> NoProxy])
           \/ (\E h \in Proxies : proxies' = [proxies EXCEPT ![h].state = "closed"]),
           TypeOK
    PROVE  Free \subseteq Free'
  <1>1. CASE UNCHANGED proxies
    BY <1>1 DEF Free
  <1>2. CASE proxies' = Unlinked
    BY <1>2 DEF Free, Unlinked, TypeOK, Proxy
  <1>3. CASE proxies' = [h \in Proxies |-> NoProxy]
    BY <1>3 DEF Free, NoProxy
  <1>4. CASE \E h \in Proxies : proxies' = [proxies EXCEPT ![h].state = "closed"]
    BY <1>4 DEF Free, TypeOK, Proxy
  <1> QED BY <1>1, <1>2, <1>3, <1>4

LEMMA InitResumable == Proxies # {} /\ Init => Resumable
  BY DEF Init, Resumable, Free, NoProxy

LEMMA ResumableCallStep ==
    ASSUME Inv, Resumable, CallStep
    PROVE  Resumable'
  <1>1. CASE Probe \/ ProbeUnreadableProperties
    <2>1. PICK stored : ProbeWith(stored)
      BY <1>1 DEF Probe, ProbeUnreadableProperties
    <2>2. /\ pc = "opening" /\ UNCHANGED dbFile
          /\ pc' \in {"attaching", "creating", "idle"}
          /\ pc' # "idle" => UNCHANGED proxies
      BY <2>1 DEF ProbeWith, disk
    <2>3. dbFile.kind = "plain" => pc' = "attaching"
      BY <2>1, PlainProbe
    <2> QED BY <2>2, <2>3 DEF Resumable, Free
  <1>2. CASE Attach \/ ExportSchema
    <2>1. /\ pc \in {"attaching", "exporting"}
          /\ pc' \in {"exporting", "copying", "idle"}
          /\ UNCHANGED <<proxies, dbFile>>
      BY <1>2 DEF Attach, ExportSchema, Throw
    <2> QED BY <2>1 DEF Resumable, Free
  <1>3. CASE ExportRows
    <2>1. /\ pc = "copying" /\ pc' = "replacing" /\ UNCHANGED <<proxies, dbFile>>
          /\ migratedFile' = [migratedFile EXCEPT !.rows = @ \cup dbFile.rows]
      BY <1>3 DEF ExportRows
    <2>2. migratedFile'.table = migratedFile.table
      BY <2>1 DEF Inv, TypeOK, File
    <2>3. dbFile.table => migratedFile.table
      BY <2>1 DEF Inv, MigrationProgress
    <2> QED BY <2>1, <2>2, <2>3 DEF Resumable, Free
  <1>4. CASE DeleteOldFile
    <2>1. pc = "replacing" /\ pc' = "renaming" /\ dbFile' = NoFile /\ proxies' = Unlinked
      BY <1>4 DEF DeleteOldFile
    <2>2. Free \subseteq Free'
      BY <2>1, FreeKept DEF Inv
    <2>3. Free # {}
      BY <2>1 DEF Resumable
    <2> QED BY <2>1, <2>2, <2>3, FilesRows DEF Resumable
  <1>5. CASE RenameMigratedFile
    <2>1. /\ pc = "renaming" /\ pc' = "creating" /\ dbFile' = migratedFile
          /\ UNCHANGED proxies
      BY <1>5 DEF RenameMigratedFile
    <2>2. migratedFile.kind # "plain"
      BY DEF Inv, FileShapes
    <2> QED BY <2>1, <2>2 DEF Resumable, Free
  <1>6. CASE StepFails \/ CopyFails
    <2>1. pc # "idle" /\ pc' = "idle" /\ UNCHANGED <<proxies, dbFile>>
      BY <1>6 DEF StepFails, CopyFails, Throw, disk
    <2> QED BY <2>1 DEF Resumable, Free
  <1>7. CASE Create
    <2>1. /\ pc = "creating" /\ pc' \in {"truncating", "idle"} /\ UNCHANGED proxies
          /\ dbFile' = dbFile \/ dbFile' = BlankFile
      BY <1>7 DEF Create
    <2>2. dbFile.kind # "plain"
      BY <2>1 DEF Resumable
    <2> QED BY <2>1, <2>2, FilesRows DEF Resumable, Free
  <1>8. CASE TruncateProperties
    <2>1. pc = "truncating" /\ pc' = "storing" /\ UNCHANGED <<proxies, dbFile>>
      BY <1>8 DEF TruncateProperties
    <2> QED BY <2>1 DEF Resumable, Free
  <1>9. CASE StoreProperties \/ PropertiesFail
    <2>1. pc \in {"truncating", "storing"} /\ pc' = "idle" /\ UNCHANGED dbFile
      BY <1>9 DEF StoreProperties, PropertiesFail, disk
    <2>2. dbFile.kind # "plain"
      BY <2>1 DEF Resumable
    <2> QED BY <2>1, <2>2 DEF Resumable
  <1>10. CASE CopySome
    <2>1. UNCHANGED <<pc, proxies>> /\ pc = "installing" /\ dbFile' = TornFile
      BY <1>10 DEF CopySome, memory
    <2> QED BY <2>1, FilesRows DEF Resumable, Free
  <1>11. CASE CopyRest
    <2>1. pc = "installing" /\ pc' = "opening" /\ UNCHANGED proxies
      BY <1>11 DEF CopyRest
    <2> QED BY <2>1 DEF Resumable, Free
  <1>12. CASE CopyUnflushed
    <2>1. pc = "installing" /\ pc' = "opening" /\ UNCHANGED <<proxies, dbFile>>
      BY <1>12 DEF CopyUnflushed, disk
    <2> QED BY <2>1 DEF Resumable, Free
  <1> QED BY <1>1, <1>2, <1>3, <1>4, <1>5, <1>6, <1>7, <1>8, <1>9, <1>10, <1>11, <1>12
       DEF CallStep

LEMMA ResumableStep ==
    Proxies # {} /\ Inv /\ Resumable /\ [Next]_vars => Resumable'
  <1> SUFFICES ASSUME Proxies # {}, Inv, Resumable, [Next]_vars
               PROVE  Resumable'
    OBVIOUS
  <1>1. CASE CallStep
    BY <1>1, ResumableCallStep
  <1>2. CASE \/ \E k \in Keys : SetPassword(k)
             \/ \E v \in HashArgs : SetHmacAlgorithm(v)
             \/ \E v \in KdfArgs : SetHmacKdfIterations(v)
             \/ \E v \in PageArgs : PageSize(v)
    <2>1. pc' = "idle" /\ UNCHANGED <<proxies, dbFile>>
      BY <1>2 DEF SetPassword, SetHmacAlgorithm, SetHmacKdfIterations, PageSize,
                  AssignSettings, disk
    <2> QED BY <2>1 DEF Resumable, Free
  <1>3. CASE Open
    <2>1. Free # {} /\ pc' = "opening" /\ UNCHANGED <<proxies, dbFile>>
      BY <1>3 DEF Open, disk
    <2> QED BY <2>1 DEF Resumable, Free
  <1>4. CASE Install
    <2>1. /\ Free # {} /\ UNCHANGED proxies
          /\ \/ pc' = "opening" /\ UNCHANGED dbFile
             \/ pc' = "installing" /\ dbFile' = BlankFile
      BY <1>4 DEF Install
    <2> QED BY <2>1, FilesRows DEF Resumable, Free
  <1>5. ASSUME NEW h \in Proxies, NEW r \in Rows, Execute(h, r) PROVE Resumable'
    <2>1. /\ pc' = "idle" /\ UNCHANGED proxies
          /\ CanRead(dbFile, proxies[h].key, proxies[h].settings)
      BY <1>5 DEF Execute, Reads, memory
    <2>2. dbFile'.kind = "cipher"
      <3>1. CASE dbFile.kind = "blank"
        BY <1>5, <3>1 DEF Execute, CipherFile
      <3>2. CASE dbFile.kind = "cipher"
        BY <1>5, <3>2 DEF Execute, Inv, TypeOK, File
      <3> QED BY <2>1, <3>1, <3>2 DEF CanRead
    <2> QED BY <2>1, <2>2 DEF Resumable, Free
  <1>6. ASSUME NEW h \in Proxies, Close(h) \/ RemoveFails(h) PROVE Resumable'
    <2>1. /\ pc = "idle" /\ pc' = "idle" /\ UNCHANGED dbFile
          /\ proxies' = [proxies EXCEPT ![h].state = "closed"]
      BY <1>6 DEF Close, RemoveFails, RemoveWith, disk
    <2>2. Free \subseteq Free'
      BY <2>1, FreeKept DEF Inv
    <2>3. dbFile.kind = "plain" => Free # {}
      BY DEF Resumable
    <2> QED BY <2>1, <2>2, <2>3 DEF Resumable
  <1>7. CASE \E h \in Proxies : Remove(h)
    <2>1. pc' = "idle" /\ dbFile' = NoFile
      BY <1>7 DEF Remove, RemoveWith
    <2> QED BY <2>1, FilesRows DEF Resumable
  <1>8. CASE Crash
    <2>1. pc' = "idle" /\ proxies' = [h \in Proxies |-> NoProxy]
      BY <1>8 DEF Crash
    <2>2. Free' = Proxies
      BY <2>1 DEF Free, NoProxy
    <2> QED BY <2>1, <2>2 DEF Resumable
  <1>9. CASE UNCHANGED vars
    BY <1>9 DEF vars, memory, disk, Resumable, Free
  <1> QED BY <1>1, <1>2, <1>3, <1>4, <1>5, <1>6, <1>7, <1>8, <1>9 DEF Next

(* Nothing dies, fails or is removed any more. *)
Quiet == crashes = MaxCrashes /\ faults = MaxFaults /\ removals = MaxRemovals

(* The unencrypted file, with nothing exported from it. *)
Unexported == Quiet /\ dbFile.kind = "plain" /\ ~migratedFile.table

(* The unencrypted file, with the table created in the file it goes to. *)
Exported == Quiet /\ dbFile.kind = "plain" /\ migratedFile.kind = "cipher"

(* What fails without a fault is only what the guards of the steps say. *)
LEMMA QuietStep ==
    ASSUME Inv, Quiet, [Next]_vars
    PROVE  /\ ~Fault /\ ~Crash
           /\ \A h \in Proxies : ~Remove(h) /\ ~RemoveFails(h)
           /\ Quiet' \/ UNCHANGED vars
  <1>1. ~Fault /\ ~Crash /\ \A h \in Proxies : ~Remove(h) /\ ~RemoveFails(h)
    <2>1. ~(crashes < MaxCrashes) /\ ~(faults < MaxFaults) /\ ~(removals < MaxRemovals)
      BY BoundsAssumption DEF Quiet
    <2> QED BY <2>1 DEF Fault, Crash, Remove, RemoveFails, RemoveWith
  <1>2. UNCHANGED counts \/ UNCHANGED vars
    <2>1. CASE CallStep
      BY <1>1, <2>1 DEF CallStep, Probe, ProbeUnreadableProperties, Attach, ExportSchema,
           ExportRows, DeleteOldFile, RenameMigratedFile, StepFails, Create,
           TruncateProperties, StoreProperties, PropertiesFail, CopySome, CopyRest,
           CopyFails, CopyUnflushed
    <2>2. CASE ~CallStep
      BY <1>1, <2>2 DEF Next, SetPassword, SetHmacAlgorithm, SetHmacKdfIterations, PageSize,
           AssignSettings, Open, Install, Execute, Close
    <2> QED BY <2>1, <2>2
  <1> QED BY <1>1, <1>2 DEF Quiet, counts

(* With no call running, the file stays as it is until open() begins. *)
LEMMA WhileIdle ==
    ASSUME Inv, Unexported, pc = "idle", [Next]_vars
    PROVE  Unexported' /\ pc' \in {"idle", "opening"}
  <1>1. CASE UNCHANGED vars
    BY <1>1 DEF vars, memory, disk, counts, Unexported, Quiet
  <1>2. CASE ~UNCHANGED vars
    <2>1. Quiet'
      BY <1>2, QuietStep DEF Unexported
    <2>2. UNCHANGED <<dbFile, migratedFile>> /\ pc' \in {"idle", "opening"}
      <3>1. CASE CallStep
        BY <3>1, CallOrder
      <3>2. CASE Open \/ Install
        BY <3>2 DEF Open, Install, Unexported, disk
      <3>3. CASE \/ \E k \in Keys : SetPassword(k)
                 \/ \E v \in HashArgs : SetHmacAlgorithm(v)
                 \/ \E v \in KdfArgs : SetHmacKdfIterations(v)
                 \/ \E v \in PageArgs : PageSize(v)
        BY <3>3 DEF SetPassword, SetHmacAlgorithm, SetHmacKdfIterations, PageSize,
                    AssignSettings, disk
      <3>4. ASSUME NEW h \in Proxies, Close(h) \/ (\E r \in Rows : Execute(h, r))
            PROVE  UNCHANGED <<dbFile, migratedFile>> /\ pc' \in {"idle", "opening"}
        <4>1. ~ \E r \in Rows : Execute(h, r)
          BY DEF Execute, Reads, CanRead, Unexported
        <4> QED BY <3>4, <4>1 DEF Close, disk
      <3> QED BY <1>2, <3>1, <3>2, <3>3, <3>4, QuietStep DEF Next, Unexported
    <2> QED BY <2>1, <2>2 DEF Unexported
  <1> QED BY <1>1, <1>2

(* A call that runs over it takes it through the migration, step by step:  *)
(* the file it attaches is new or blank, so it can be read, the table is   *)
(* not there yet, so it can be created, and the rest only fails by faults. *)
LEMMA WhileMigrating ==
    ASSUME Inv, Resumable, CallStep
    PROVE  /\ Unexported /\ pc = "opening" => Unexported' /\ pc' = "attaching"
           /\ Unexported /\ pc = "attaching" => Unexported' /\ pc' = "exporting"
           /\ Unexported /\ pc = "exporting" => Exported' /\ pc' = "copying"
           /\ Exported /\ pc = "copying" => Exported' /\ pc' = "replacing"
           /\ Exported /\ pc = "replacing" =>
                Quiet' /\ migratedFile'.kind = "cipher" /\ pc' = "renaming"
           /\ Quiet /\ migratedFile.kind = "cipher" /\ pc = "renaming" =>
                dbFile'.kind = "cipher"
  <1>1. [Next]_vars
    BY DEF Next
  <1>2. Quiet => ~Fault /\ (Quiet' \/ UNCHANGED vars)
    BY <1>1, QuietStep
  <1>3. UNCHANGED vars => UNCHANGED <<pc, dbFile>>
    BY DEF vars, memory, disk
  <1>4. ASSUME Unexported, pc = "opening" PROVE Unexported' /\ pc' = "attaching"
    <2>1. Probe
      BY <1>2, <1>4 DEF Unexported, CallStep, ProbeUnreadableProperties, Attach, ExportSchema,
           ExportRows, DeleteOldFile, RenameMigratedFile, StepFails, Create,
           TruncateProperties, StoreProperties, PropertiesFail, CopySome, CopyRest,
           CopyFails, CopyUnflushed
    <2>2. pc' = "attaching" /\ UNCHANGED <<dbFile, migratedFile, counts>>
      BY <1>4, <2>1, PlainProbe DEF Probe, ProbeWith, Unexported, disk
    <2> QED BY <1>4, <2>2 DEF Unexported, Quiet, counts
  <1>5. ASSUME Unexported, pc = "attaching" PROVE Unexported' /\ pc' = "exporting"
    <2>1. Attach
      BY <1>2, <1>5 DEF Unexported, CallStep, Probe, ProbeUnreadableProperties, ProbeWith,
           ExportSchema, ExportRows, DeleteOldFile, RenameMigratedFile, StepFails, Create,
           TruncateProperties, StoreProperties, PropertiesFail, CopySome, CopyRest,
           CopyFails, CopyUnflushed
    <2>2. migratedFile.kind \in {"absent", "blank"}
      BY <1>5 DEF Unexported, Inv, FileShapes, Shaped
    <2>3. /\ migratedFile' = IF migratedFile.kind = "absent" THEN BlankFile ELSE migratedFile
          /\ UNCHANGED <<dbFile, counts>>
      BY <1>5, <2>1 DEF Attach, Unexported
    <2>4. migratedFile'.kind = "blank" /\ ~migratedFile'.table
      BY <1>5, <2>2, <2>3, FilesRows DEF Unexported
    <2>5. pc' = "exporting"
      BY <1>5, <2>1, <2>4 DEF Attach, Unexported, CanRead
    <2> QED BY <1>5, <2>3, <2>4, <2>5 DEF Unexported, Quiet, counts
  <1>6. ASSUME Unexported, pc = "exporting" PROVE Exported' /\ pc' = "copying"
    <2>1. ExportSchema
      BY <1>2, <1>6 DEF Unexported, CallStep, Probe, ProbeUnreadableProperties, ProbeWith,
           Attach, ExportRows, DeleteOldFile, RenameMigratedFile, StepFails, Create,
           TruncateProperties, StoreProperties, PropertiesFail, CopySome, CopyRest,
           CopyFails, CopyUnflushed
    <2>2. dbFile.table
      BY <1>6 DEF Unexported, Inv, FileShapes, Shaped
    <2>3. /\ migratedFile' = CipherFile(dbSettings, password, {}) /\ pc' = "copying"
          /\ UNCHANGED <<dbFile, counts>>
      BY <1>6, <2>1, <2>2 DEF ExportSchema, Unexported
    <2>4. migratedFile'.kind = "cipher"
      BY <2>3 DEF CipherFile
    <2> QED BY <1>6, <2>3, <2>4 DEF Unexported, Exported, Quiet, counts
  <1>7. ASSUME Exported, pc = "copying" PROVE Exported' /\ pc' = "replacing"
    <2>1. ExportRows
      BY <1>2, <1>7 DEF Exported, CallStep, Probe, ProbeUnreadableProperties, ProbeWith,
           Attach, ExportSchema, DeleteOldFile, RenameMigratedFile, StepFails, Create,
           TruncateProperties, StoreProperties, PropertiesFail, CopySome, CopyRest,
           CopyFails, CopyUnflushed
    <2>2. /\ migratedFile' = [migratedFile EXCEPT !.rows = @ \cup dbFile.rows]
          /\ pc' = "replacing" /\ UNCHANGED <<dbFile, counts>>
      BY <2>1 DEF ExportRows
    <2>3. migratedFile'.kind = migratedFile.kind
      BY <2>2 DEF Inv, TypeOK, File
    <2> QED BY <1>7, <2>2, <2>3 DEF Exported, Quiet, counts
  <1>8. ASSUME Exported, pc = "replacing"
        PROVE  Quiet' /\ migratedFile'.kind = "cipher" /\ pc' = "renaming"
    <2>1. DeleteOldFile
      BY <1>2, <1>8 DEF Exported, CallStep, Probe, ProbeUnreadableProperties, ProbeWith,
           Attach, ExportSchema, ExportRows, RenameMigratedFile, StepFails, Create,
           TruncateProperties, StoreProperties, PropertiesFail, CopySome, CopyRest,
           CopyFails, CopyUnflushed
    <2> QED BY <1>8, <2>1 DEF DeleteOldFile, Exported, Quiet, counts
  <1>9. ASSUME Quiet, migratedFile.kind = "cipher", pc = "renaming"
        PROVE  dbFile'.kind = "cipher"
    <2>1. RenameMigratedFile
      BY <1>2, <1>9 DEF CallStep, Probe, ProbeUnreadableProperties, ProbeWith,
           Attach, ExportSchema, ExportRows, DeleteOldFile, StepFails, Create,
           TruncateProperties, StoreProperties, PropertiesFail, CopySome, CopyRest,
           CopyFails, CopyUnflushed
    <2> QED BY <1>9, <2>1 DEF RenameMigratedFile
  <1> QED BY <1>4, <1>5, <1>6, <1>7, <1>8, <1>9

(* Where the application can hold a proxy at all, a migration that stopped *)
(* before its export created a table is carried out by a later open(), for *)
(* every number of crashes and faults there were before.                   *)
THEOREM MigrationResumes ==
    ASSUME Proxies # {}
    PROVE  LiveSpec /\ []NeverStuck => InterruptedMigrationResumes
  <1> DEFINE Waiting   == Unexported /\ pc = "idle"
             Opening   == Unexported /\ pc = "opening"
             Attaching == Unexported /\ pc = "attaching"
             Exporting == Unexported /\ pc = "exporting"
             Copying   == Exported /\ pc = "copying"
             Replacing == Exported /\ pc = "replacing"
             Renaming  == Quiet /\ migratedFile.kind = "cipher" /\ pc = "renaming"
             Encrypted == dbFile.kind = "cipher"
             Moves ==
               /\ Waiting => Waiting' \/ Opening'
               /\ Opening => Opening' \/ Attaching'
               /\ Attaching => Attaching' \/ Exporting'
               /\ Exporting => Exporting' \/ Copying'
               /\ Copying => Copying' \/ Replacing'
               /\ Replacing => Replacing' \/ Renaming'
               /\ Renaming => Renaming' \/ Encrypted'
  <1>1. Inv /\ Resumable /\ Unexported => Waiting \/ Opening \/ Attaching \/ Exporting
    <2>1. Inv /\ Unexported => dbFile.table
      BY DEF Inv, FileShapes, Shaped, Unexported
    <2> QED BY <2>1 DEF Resumable, Unexported, Inv, MigrationProgress
  <1>2. Inv /\ Resumable /\ <<CallStep>>_vars =>
               /\ Opening => Attaching'
               /\ Attaching => Exporting'
               /\ Exporting => Copying'
               /\ Copying => Replacing'
               /\ Replacing => Renaming'
               /\ Renaming => Encrypted'
    BY WhileMigrating
  <1>3. Inv /\ Resumable /\ [Next]_vars => Moves
    <2> SUFFICES ASSUME Inv, Resumable, [Next]_vars PROVE Moves
      OBVIOUS
    <2>1. Waiting => Waiting' \/ Opening'
      BY WhileIdle
    <2>2. CASE pc = "idle"
      BY <2>1, <2>2
    <2>3. CASE CallStep /\ pc # "idle"
      BY <2>3, WhileMigrating
    <2>4. CASE UNCHANGED vars
      BY <2>4 DEF vars, memory, disk, counts, Unexported, Exported, Quiet
    <2>5. CASE Crash
      BY <2>5, QuietStep DEF Unexported, Exported
    <2> QED BY <2>2, <2>3, <2>4, <2>5, InCall
  <1>4. Waiting /\ <<Open>>_vars => ~Waiting'
    BY DEF Open
  <1>5. Resumable /\ Waiting => pc = "idle" /\ Free # {}
    BY DEF Resumable, Unexported
  <1>6. Opening \/ Attaching \/ Exporting \/ Copying \/ Replacing \/ Renaming
          => pc # "idle"
    OBVIOUS
  <1>7. (/\ dbFile.kind = "plain" /\ ~migratedFile.table
         /\ crashes = MaxCrashes /\ faults = MaxFaults /\ removals = MaxRemovals)
          <=> Unexported
    BY DEF Unexported, Quiet
  <1>8. Encrypted <=> dbFile.kind = "cipher"
    OBVIOUS
  <1> HIDE DEF Waiting, Opening, Attaching, Exporting, Copying, Replacing, Renaming,
               Encrypted
  <1>9. Spec => []Resumable
    BY InitResumable, ResumableStep, Invariance, PTL DEF Spec
  <1>10. Spec /\ CallsGoOn /\ OpensGoOn => (Unexported ~> Encrypted)
    BY <1>1, <1>2, <1>3, <1>4, <1>5, <1>6, <1>9, Invariance, PTL
       DEF Spec, CallsGoOn, OpensGoOn
  <1>11. LiveSpec => Spec
    BY PTL DEF LiveSpec
  <1> QED BY <1>7, <1>8, <1>10, <1>11, Scheduled, PTL DEF InterruptedMigrationResumes

-----------------------------------------------------------------------------
(* What an application that uses the module as DefaultsOnly says comes to. *)

HandedOut == \E h \in Proxies : proxies[h].state = "open" /\ proxies[h].linked

(* Only an unencrypted file is ever migrated, because what the properties  *)
(* file holds, also when it was only truncated, reads as the settings in   *)
(* force; and an open proxy whose file was unlinked never takes the last   *)
(* slot.                                                                   *)
DefaultCalls ==
    /\ \A p \in propertiesFile : FromProperties(p) = FromSQLCipherV4
    /\ pc = "attaching" => dbFile.kind \in {"plain", "torn"}
    /\ pc \in {"exporting", "copying", "replacing"} => dbFile.kind = "plain"
    /\ pc = "renaming" => migratedFile.kind = "cipher"
    /\ Free # {} \/ HandedOut

LEMMA EmptyProperties == FromProperties(NoProperties) = FromSQLCipherV4
  <1>1. NoProperties.kdf_iter = {} /\ NoProperties.cipher_page_size = {}
        /\ NoProperties.cipher_hmac_algorithm = {}
    BY DEF NoProperties
  <1>2. {t \in HashTypes : CipherHmacStringId[t] \in NoProperties.cipher_hmac_algorithm} = {}
    BY <1>1
  <1> QED BY <1>1, <1>2, Zenon DEF FromProperties

LEMMA ReturnHands ==
    ASSUME TypeOK, NEW s, ReturnProxy(s)
    PROVE  HandedOut'
  <1>1. PICK h \in Free :
            proxies' = [proxies EXCEPT ![h] =
                [state |-> "open", linked |-> TRUE, key |-> password,
                 settings |-> ConnectionSettings(s), asked |-> dbSettings]]
    BY DEF ReturnProxy
  <1>2. h \in Proxies /\ proxies'[h].state = "open" /\ proxies'[h].linked
    BY <1>1 DEF Free, TypeOK
  <1> QED BY <1>2 DEF HandedOut

(* An encrypted file, or one without pages, is handed out by the first     *)
(* attempt that reads it, with no migration.                               *)
LEMMA DefaultProbe ==
    ASSUME DefaultsOnly, TypeOK, DefaultFiles, DefaultCalls,
           NEW stored \in {{}, StoredSettings}, ProbeWith(stored)
    PROVE  \/ dbFile.kind = "absent" /\ pc' = "creating" /\ UNCHANGED proxies
           \/ Usable(dbFile) /\ pc' = "idle" /\ ReturnProxy(dbSettings)
           \/ dbFile.kind \in {"plain", "torn"} /\ pc' = "attaching" /\ UNCHANGED proxies
  <1>1. CASE dbFile.kind = "absent"
    BY <1>1 DEF ProbeWith
  <1>2. CASE Usable(dbFile)
    <2>1. \A s : OpensWith(s)
      BY <1>2, DefaultsRead DEF OpensWith, CanRead, ConnectionSettings, DefaultFiles, Usable
    <2>2. OpeningGuesses = 1..5
      BY <2>1 DEF OpeningGuesses
    <2>3. FirstOpeningGuess = 1
      BY <2>2 DEF FirstOpeningGuess
    <2>4. Guesses[FirstOpeningGuess] = FromSQLCipherV4 /\ OpeningGuesses # {}
      BY <2>2, <2>3 DEF Guesses
    <2>5. ~IsUnencryptedDatabase(dbFile) /\ dbFile.kind # "absent"
      BY <1>2 DEF IsUnencryptedDatabase, Usable
    <2>6. stored = {} \/ stored = {FromSQLCipherV4}
      <3>1. StoredSettings \subseteq {FromSQLCipherV4}
        BY DEF StoredSettings, DefaultCalls
      <3> QED BY <3>1
    <2>7. Attempt(stored).opened /\ Attempt(stored).old = {FromSQLCipherV4}
      <3>1. CASE stored = {}
        BY <2>4, <2>5, <3>1 DEF Attempt
      <3>2. CASE stored = {FromSQLCipherV4}
        BY <2>1, <3>2 DEF Attempt
      <3> QED BY <2>6, <3>1, <3>2
    <2> QED BY <1>2, <2>5, <2>7 DEF ProbeWith, DefaultFiles
  <1>3. CASE dbFile.kind \in {"plain", "torn"}
    <2>1. ~ \E s \in stored : OpensWith(s)
      BY <1>3 DEF OpensWith, CanRead
    <2>2. Attempt(stored) = [opened |-> TRUE, old |-> {}]
      BY <1>3, <2>1 DEF Attempt, IsUnencryptedDatabase
    <2> QED BY <1>3, <2>2 DEF ProbeWith
  <1> QED BY <1>1, <1>2, <1>3 DEF TypeOK, File, Usable

LEMMA InitDefaultCalls == Proxies # {} /\ Init => DefaultCalls
  BY DEF Init, DefaultCalls, Free, NoProxy

(* A slot is free or a proxy is in use, whatever is closed or unlinked.    *)
LEMMA SlotKept ==
    ASSUME Proxies # {}, Inv, Resumable, Free # {} \/ HandedOut, [Next]_vars
    PROVE  (Free # {} \/ HandedOut)'
  <1>1. CASE UNCHANGED proxies
    BY <1>1 DEF Free, HandedOut
  <1>2. ASSUME NEW s, ReturnProxy(s) PROVE HandedOut'
    BY <1>2, ReturnHands DEF Inv
  <1>3. CASE DeleteOldFile
    <2>1. pc # "idle" /\ proxies' = Unlinked
      BY <1>3 DEF DeleteOldFile
    <2> QED BY <2>1, FreeKept DEF Resumable, Inv
  <1>4. ASSUME NEW h \in Proxies, Close(h) \/ Remove(h) \/ RemoveFails(h)
        PROVE  (Free # {})'
    <2>1. h \in DOMAIN proxies /\ h \in DOMAIN Unlinked
      BY DEF Inv, TypeOK, Unlinked
    <2>2. proxies'[h].state = "closed"
      <3>1. CASE Close(h) \/ RemoveFails(h)
        <4>1. proxies' = [proxies EXCEPT ![h].state = "closed"]
          BY <3>1 DEF Close, RemoveFails
        <4> QED BY <4>1 DEF Inv, TypeOK, Proxy
      <3>2. CASE Remove(h)
        <4>1. proxies' = [Unlinked EXCEPT ![h].state = "closed"]
          BY <3>2 DEF Remove
        <4> QED BY <4>1 DEF Unlinked, Inv, TypeOK, Proxy
      <3> QED BY <1>4, <3>1, <3>2
    <2> QED BY <2>2 DEF Free
  <1>5. CASE Crash
    BY <1>5 DEF Crash, Free, NoProxy
  <1>6. CASE CallStep
    <2>1. CASE Probe \/ ProbeUnreadableProperties
      BY <1>1, <1>2, <2>1 DEF Probe, ProbeUnreadableProperties, ProbeWith
    <2>2. CASE StoreProperties \/ PropertiesFail
      BY <1>2, <2>2 DEF StoreProperties, PropertiesFail
    <2>3. CASE Attach \/ ExportSchema \/ ExportRows \/ RenameMigratedFile \/ StepFails
      BY <1>1, <2>3 DEF Attach, ExportSchema, ExportRows, RenameMigratedFile, StepFails, Throw
    <2>4. CASE \/ Create \/ TruncateProperties
               \/ CopySome \/ CopyRest \/ CopyFails \/ CopyUnflushed
      BY <1>1, <2>4 DEF Create, TruncateProperties, CopySome, CopyRest,
         CopyFails, CopyUnflushed, Throw, memory
    <2> QED BY <1>3, <1>6, <2>1, <2>2, <2>3, <2>4 DEF CallStep
  <1>8. CASE \/ \E k \in Keys : SetPassword(k)
             \/ \E v \in HashArgs : SetHmacAlgorithm(v)
             \/ \E v \in KdfArgs : SetHmacKdfIterations(v)
             \/ \E v \in PageArgs : PageSize(v)
             \/ Open \/ Install
             \/ \E h \in Proxies : \E r \in Rows : Execute(h, r)
             \/ UNCHANGED vars
    BY <1>1, <1>8 DEF SetPassword, SetHmacAlgorithm, SetHmacKdfIterations, PageSize,
       AssignSettings, Open, Install, Execute, vars, memory
  <1> QED BY <1>4, <1>5, <1>6, <1>8 DEF Next

LEMMA DefaultCallsStep ==
    Proxies # {} /\ DefaultsOnly /\ Inv /\ Resumable /\ DefaultFiles /\ DefaultCalls
        /\ [Next]_vars => DefaultCalls'
  <1> SUFFICES ASSUME Proxies # {}, DefaultsOnly, Inv, Resumable, DefaultFiles, DefaultCalls,
                      [Next]_vars
               PROVE  DefaultCalls'
    OBVIOUS
  <1>1. (Free # {} \/ HandedOut)'
    BY SlotKept DEF DefaultCalls
  (* Between calls, and where none of the middle places is reached. *)
  <1>2. ASSUME UNCHANGED propertiesFile,
               pc' \notin {"attaching", "exporting", "copying", "replacing", "renaming"}
        PROVE  DefaultCalls'
    BY <1>1, <1>2 DEF DefaultCalls
  <1>3. CASE Probe \/ ProbeUnreadableProperties
    <2>1. PICK stored \in {{}, StoredSettings} : ProbeWith(stored)
      BY <1>3 DEF Probe, ProbeUnreadableProperties
    <2>2. UNCHANGED <<propertiesFile, dbFile>>
      BY <2>1 DEF ProbeWith, disk
    <2>3. \/ pc' \in {"creating", "idle"}
          \/ pc' = "attaching" /\ dbFile.kind \in {"plain", "torn"}
      BY <2>1, DefaultProbe DEF Inv
    <2> QED BY <1>1, <2>2, <2>3 DEF DefaultCalls
  <1>4. CASE Attach
    <2>1. /\ pc = "attaching" /\ UNCHANGED <<propertiesFile, dbFile>>
          /\ pc' = "idle" \/ (pc' = "exporting" /\ dbFile.kind # "torn")
      BY <1>4 DEF Attach, Throw
    <2> QED BY <1>1, <2>1 DEF DefaultCalls
  <1>5. CASE ExportSchema \/ ExportRows
    <2>1. /\ pc \in {"exporting", "copying"} /\ UNCHANGED <<propertiesFile, dbFile>>
          /\ pc' \in {"idle", "copying", "replacing"}
      BY <1>5 DEF ExportSchema, ExportRows, Throw
    <2> QED BY <1>1, <2>1 DEF DefaultCalls
  <1>6. CASE DeleteOldFile
    <2>1. /\ pc = "replacing" /\ pc' = "renaming"
          /\ UNCHANGED <<propertiesFile, migratedFile>>
      BY <1>6 DEF DeleteOldFile
    <2>2. dbFile.table
      BY <2>1 DEF DefaultCalls, Inv, FileShapes, Shaped
    <2>3. migratedFile.table
      BY <2>1, <2>2 DEF Resumable
    <2>4. migratedFile.kind = "cipher"
      BY <2>3 DEF Inv, FileShapes, Shaped
    <2> QED BY <1>1, <2>1, <2>4 DEF DefaultCalls
  <1>7. CASE RenameMigratedFile \/ Create \/ CopySome \/ CopyRest
    <2>1. /\ UNCHANGED propertiesFile
          /\ pc' \in {"creating", "idle", "truncating", "installing", "opening"}
      BY <1>7 DEF RenameMigratedFile, Create, CopySome, CopyRest, memory
    <2> QED BY <1>2, <2>1
  <1>8. CASE StepFails \/ CopyFails \/ CopyUnflushed \/ PropertiesFail
    <2>1. UNCHANGED propertiesFile /\ pc' \in {"idle", "opening"}
      BY <1>8 DEF StepFails, CopyFails, CopyUnflushed, PropertiesFail, Throw, disk
    <2> QED BY <1>2, <2>1
  <1>9. CASE TruncateProperties
    <2>1. propertiesFile' = {NoProperties} /\ pc' = "storing"
      BY <1>9 DEF TruncateProperties
    <2> QED BY <1>1, <2>1, EmptyProperties DEF DefaultCalls
  <1>10. CASE StoreProperties
    <2>1. propertiesFile' = {ToProperties(FromSQLCipherV4)} /\ pc' = "idle"
      BY <1>10 DEF StoreProperties, DefaultFiles
    <2>2. FromProperties(ToProperties(FromSQLCipherV4)) = FromSQLCipherV4
      BY PropertiesRoundTrip, DefaultsType
    <2> QED BY <1>1, <2>1, <2>2 DEF DefaultCalls
  <1>11. CASE \/ \E k \in Keys : SetPassword(k)
              \/ Open \/ Install
              \/ \E h \in Proxies : \/ \E r \in Rows : Execute(h, r)
                                    \/ Close(h) \/ Remove(h) \/ RemoveFails(h)
              \/ Crash
    <2>1. UNCHANGED propertiesFile /\ pc' \in {"idle", "opening", "installing"}
      BY <1>11 DEF SetPassword, Open, Install, Execute, Close, Remove, RemoveFails, RemoveWith,
                   Crash, disk, memory
    <2> QED BY <1>2, <2>1
  <1>12. CASE UNCHANGED vars
    BY <1>1, <1>12 DEF vars, memory, disk, DefaultCalls
  <1>13. /\ ~\E v \in HashArgs : SetHmacAlgorithm(v)
         /\ ~\E v \in KdfArgs : SetHmacKdfIterations(v)
         /\ \A v \in PageArgs : PageSize(v) => UNCHANGED vars
    BY DefaultPageSize DEF DefaultsOnly, DefaultFiles
  <1> QED BY <1>3, <1>4, <1>5, <1>6, <1>7, <1>8, <1>9, <1>10, <1>11, <1>12, <1>13
       DEF Next, CallStep

(* Where open() ends up with a proxy in time: what stands in its way is    *)
(* the copy an installation left unfinished, and an exported table that a  *)
(* migration finds where it has to create it.                              *)
Promising ==
    /\ Quiet
    /\ \/ dbFile.kind = "cipher"
       \/ ~migratedFile.table /\ (dbFile.kind = "torn" => pc = "installing")

LEMMA WhileNoProxy ==
    ASSUME DefaultsOnly, Inv, Promising, pc = "idle", ~HandedOut, [Next]_vars
    PROVE  /\ Promising' /\ pc' \in {"idle", "opening", "installing"}
           /\ pc' = "installing" => dbFile'.kind = "blank"
  <1>1. CASE UNCHANGED vars
    BY <1>1 DEF vars, memory, disk, counts, Promising, Quiet
  <1>2. CASE ~UNCHANGED vars
    <2>1. Quiet'
      BY <1>2, QuietStep DEF Promising
    <2>2. ASSUME UNCHANGED <<dbFile, migratedFile>>, pc' \in {"idle", "opening"}
          PROVE  Promising'
      BY <2>1, <2>2 DEF Promising
    <2>3. CASE \/ Open
               \/ \E k \in Keys : SetPassword(k)
               \/ \E v \in PageArgs : PageSize(v)
      BY <2>2, <2>3 DEF Open, SetPassword, PageSize, AssignSettings, disk
    <2>4. CASE \E h \in Proxies : Close(h)
      BY <2>2, <2>4 DEF Close, disk
    <2>5. CASE Install
      <3>1. CASE dbFile.kind # "absent"
        BY <2>2, <2>5, <3>1 DEF Install
      <3>2. CASE dbFile.kind = "absent"
        <4>1. pc' = "installing" /\ dbFile' = BlankFile /\ UNCHANGED migratedFile
          BY <2>5, <3>2 DEF Install
        <4> QED BY <2>1, <3>2, <4>1, FilesRows DEF Promising
      <3> QED BY <3>1, <3>2
    <2>6. ~ \E h \in Proxies : \E r \in Rows : Execute(h, r)
      BY DEF Execute, Reads, HandedOut
    <2>7. ~CallStep
      BY CallOrder
    <2> QED BY <1>2, <2>3, <2>4, <2>5, <2>6, <2>7, QuietStep DEF Next, DefaultsOnly, Promising
  <1> QED BY <1>1, <1>2

(* Each step of a call takes a promising state to the next, and the last   *)
(* one hands out the proxy.                                                *)
LEMMA WhileOpening ==
    ASSUME DefaultsOnly, Inv, Resumable, DefaultFiles, DefaultCalls, CallStep
    PROVE  /\ Promising /\ pc = "installing" =>
                /\ Promising'
                /\ \/ dbFile.kind = "blank" /\ dbFile'.kind = "torn" /\ pc' = "installing"
                   \/ pc' = "opening"
           /\ Promising /\ pc = "opening" =>
                HandedOut' \/ (Promising' /\ pc' = "creating")
                           \/ (Unexported' /\ pc' = "attaching")
           /\ Promising /\ pc = "creating" => Promising' /\ pc' = "truncating"
           /\ Promising /\ pc = "truncating" => Promising' /\ pc' = "storing"
           /\ Promising /\ pc = "storing" => HandedOut'
           /\ Quiet /\ migratedFile.kind = "cipher" /\ pc = "renaming" =>
                Promising' /\ pc' = "creating"
  <1>1. [Next]_vars
    BY DEF Next
  <1>2. Quiet => ~Fault /\ (Quiet' \/ UNCHANGED vars)
    BY <1>1, QuietStep
  <1>3. Promising => Quiet
    BY DEF Promising
  <1>4. Quiet => ~(ProbeUnreadableProperties \/ StepFails \/ PropertiesFail
                   \/ CopyFails \/ CopyUnflushed)
    BY <1>2 DEF ProbeUnreadableProperties, StepFails, PropertiesFail, CopyFails,
                CopyUnflushed
  <1>5. /\ Attach => pc = "attaching"
        /\ ExportSchema => pc = "exporting"
        /\ ExportRows => pc = "copying"
        /\ DeleteOldFile => pc = "replacing"
        /\ RenameMigratedFile => pc = "renaming"
        /\ Probe => pc = "opening"
        /\ Create => pc = "creating"
        /\ TruncateProperties => pc = "truncating"
        /\ StoreProperties => pc = "storing"
        /\ CopySome \/ CopyRest => pc = "installing"
    BY DEF Attach, ExportSchema, ExportRows, DeleteOldFile, RenameMigratedFile, Probe,
           ProbeWith, Create, TruncateProperties, StoreProperties, CopySome, CopyRest
  <1>6. ASSUME Quiet, UNCHANGED counts PROVE Quiet'
    BY <1>6 DEF Quiet, counts
  <1>7. ASSUME Promising, pc = "installing"
        PROVE  /\ Promising'
               /\ \/ dbFile.kind = "blank" /\ dbFile'.kind = "torn" /\ pc' = "installing"
                  \/ pc' = "opening"
    <2>1. CopySome \/ CopyRest
      BY <1>3, <1>4, <1>5, <1>7 DEF CallStep
    <2>2. ~migratedFile.table
      BY <1>7 DEF Promising, Inv, MigrationProgress
    <2>3. CASE CopySome
      <3>1. /\ dbFile.kind = "blank" /\ dbFile' = TornFile
            /\ UNCHANGED <<pc, migratedFile, counts>>
        BY <2>3 DEF CopySome, memory
      <3> QED BY <1>3, <1>6, <1>7, <2>2, <3>1, FilesRows DEF Promising
    <2>4. CASE CopyRest
      <3>1. /\ pc' = "opening" /\ dbFile' = PlainFile(InstallRows)
            /\ UNCHANGED <<migratedFile, counts>>
        BY <2>4 DEF CopyRest
      <3> QED BY <1>3, <1>6, <1>7, <2>2, <3>1, FilesRows DEF Promising
    <2> QED BY <2>1, <2>3, <2>4
  <1>8. ASSUME Promising, pc = "opening"
        PROVE  HandedOut' \/ (Promising' /\ pc' = "creating")
                          \/ (Unexported' /\ pc' = "attaching")
    <2>1. Probe
      BY <1>3, <1>4, <1>5, <1>8 DEF CallStep
    <2>2. UNCHANGED <<dbFile, migratedFile>> /\ Quiet'
      BY <1>3, <1>6, <1>8, <2>1 DEF Probe, ProbeWith, disk
    <2>3. \/ dbFile.kind = "absent" /\ pc' = "creating"
          \/ ReturnProxy(dbSettings)
          \/ dbFile.kind \in {"plain", "torn"} /\ pc' = "attaching"
      BY <2>1, DefaultProbe DEF Probe, Inv
    <2>4. CASE ReturnProxy(dbSettings)
      BY <2>4, ReturnHands DEF Inv
    <2>5. CASE dbFile.kind = "absent" /\ pc' = "creating"
      BY <1>8, <2>2, <2>5 DEF Promising
    <2>6. CASE dbFile.kind \in {"plain", "torn"} /\ pc' = "attaching"
      BY <1>8, <2>2, <2>6 DEF Promising, Unexported
    <2> QED BY <2>3, <2>4, <2>5, <2>6
  <1>9. ASSUME Promising, pc = "creating" PROVE Promising' /\ pc' = "truncating"
    <2>1. Create
      BY <1>3, <1>4, <1>5, <1>9 DEF CallStep
    <2>2. /\ UNCHANGED <<migratedFile, password, dbSettings, counts>>
          /\ dbFile' = IF dbFile.kind = "absent" THEN BlankFile ELSE dbFile
      BY <2>1 DEF Create
    <2>3. dbFile.kind = "absent" \/ Usable(dbFile)
      BY <1>9 DEF DefaultFiles
    <2>4. /\ dbFile'.kind \in {"blank", "cipher"}
          /\ dbFile'.kind = "cipher" => dbFile' = dbFile
      BY <2>2, <2>3, FilesRows DEF Usable
    <2>5. CanRead(dbFile', password, ConnectionSettings(dbSettings))
      <3>1. CASE dbFile'.kind = "blank"
        BY <3>1 DEF CanRead
      <3>2. CASE dbFile'.kind = "cipher"
        BY <2>4, <3>2, DefaultsRead DEF CanRead, ConnectionSettings, DefaultFiles, Inv
      <3> QED BY <2>4, <3>1, <3>2
    <2>6. pc' = "truncating"
      BY <2>1, <2>5 DEF Create
    <2>7. dbFile'.kind = "cipher" \/ ~migratedFile.table
      BY <1>9, <2>2 DEF Promising
    <2> QED BY <1>3, <1>6, <1>9, <2>2, <2>4, <2>6, <2>7 DEF Promising
  <1>10. ASSUME Promising, pc = "truncating" PROVE Promising' /\ pc' = "storing"
    <2>1. TruncateProperties
      BY <1>3, <1>4, <1>5, <1>10 DEF CallStep
    <2>2. pc' = "storing" /\ UNCHANGED <<dbFile, migratedFile, counts>>
      BY <2>1 DEF TruncateProperties
    <2> QED BY <1>3, <1>6, <1>10, <2>2 DEF Promising
  <1>11. ASSUME Promising, pc = "storing" PROVE HandedOut'
    <2>1. StoreProperties
      BY <1>3, <1>4, <1>5, <1>11 DEF CallStep
    <2> QED BY <2>1, ReturnHands DEF StoreProperties, Inv
  <1>12. ASSUME Quiet, migratedFile.kind = "cipher", pc = "renaming"
         PROVE  Promising' /\ pc' = "creating"
    <2>1. RenameMigratedFile
      BY <1>4, <1>5, <1>12 DEF CallStep
    <2>2. dbFile' = migratedFile /\ pc' = "creating" /\ UNCHANGED counts
      BY <2>1 DEF RenameMigratedFile
    <2> QED BY <1>6, <1>12, <2>2 DEF Promising
  <1> QED BY <1>7, <1>8, <1>9, <1>10, <1>11, <1>12

(* However the crashes and the faults fell, the application that goes on   *)
(* opening the database comes to a proxy that reads it.                    *)
THEOREM ReadableProxyGiven ==
    ASSUME DefaultsOnly, Proxies # {}
    PROVE  LiveSpec /\ []NeverStuck => OpenGivesReadableProxy
  <1> DEFINE Waiting    == Promising /\ pc = "idle" /\ ~HandedOut
             Unwritten  == Promising /\ pc = "installing" /\ dbFile.kind = "blank"
             Written    == Promising /\ pc = "installing" /\ dbFile.kind = "torn"
             Opening    == Promising /\ pc = "opening"
             Attaching  == Unexported /\ pc = "attaching"
             Exporting  == Unexported /\ pc = "exporting"
             Copying    == Exported /\ pc = "copying"
             Replacing  == Exported /\ pc = "replacing"
             Renaming   == Quiet /\ migratedFile.kind = "cipher" /\ pc = "renaming"
             Creating   == Promising /\ pc = "creating"
             Truncating == Promising /\ pc = "truncating"
             Storing    == Promising /\ pc = "storing"
             Moves ==
               /\ Waiting => Waiting' \/ Unwritten' \/ Opening' \/ HandedOut'
               /\ Unwritten => Unwritten' \/ Written' \/ Opening'
               /\ Written => Written' \/ Opening'
               /\ Opening => Opening' \/ Attaching' \/ Creating' \/ HandedOut'
               /\ Attaching => Attaching' \/ Exporting'
               /\ Exporting => Exporting' \/ Copying'
               /\ Copying => Copying' \/ Replacing'
               /\ Replacing => Replacing' \/ Renaming'
               /\ Renaming => Renaming' \/ Creating'
               /\ Creating => Creating' \/ Truncating'
               /\ Truncating => Truncating' \/ Storing'
               /\ Storing => Storing' \/ HandedOut'
             Goes ==
               /\ Unwritten => Written' \/ Opening'
               /\ Written => Opening'
               /\ Opening => Attaching' \/ Creating' \/ HandedOut'
               /\ Attaching => Exporting'
               /\ Exporting => Copying'
               /\ Copying => Replacing'
               /\ Replacing => Renaming'
               /\ Renaming => Creating'
               /\ Creating => Truncating'
               /\ Truncating => Storing'
               /\ Storing => HandedOut'
             I == Inv /\ Resumable /\ DefaultFiles /\ DefaultCalls
  <1>1. I /\ Promising => \/ HandedOut \/ Waiting \/ Unwritten \/ Written \/ Opening
                          \/ Attaching \/ Exporting \/ Creating \/ Truncating \/ Storing
    <2> SUFFICES ASSUME I, Promising, pc \notin {"idle", "opening", "creating",
                                                 "truncating", "storing"}
                 PROVE  Unwritten \/ Written \/ Attaching \/ Exporting
      OBVIOUS
    <2>1. pc \in {"installing", "attaching", "exporting", "copying", "replacing", "renaming"}
      BY DEF Inv, TypeOK, PCs
    <2>2. CASE pc = "installing"
      BY <2>2 DEF Inv, MigrationProgress
    <2>3. CASE pc \in {"attaching", "exporting"}
      BY <2>3 DEF DefaultCalls, Promising, Unexported
    <2>4. CASE pc \in {"copying", "replacing"}
      <3>1. dbFile.kind = "plain" /\ dbFile.table
        BY <2>4 DEF DefaultCalls, Inv, FileShapes, Shaped
      <3>2. migratedFile.table
        BY <2>4, <3>1 DEF Resumable, Inv, MigrationProgress
      <3> QED BY <3>1, <3>2 DEF Promising
    <2>5. CASE pc = "renaming"
      BY <2>5 DEF DefaultCalls, Promising, Inv, FileShapes, Shaped, MigrationProgress
    <2> QED BY <2>1, <2>2, <2>3, <2>4, <2>5
  <1>2. I /\ CallStep => Goes
    <2> SUFFICES ASSUME I, CallStep PROVE Goes
      OBVIOUS
    <2> QED BY WhileMigrating, WhileOpening
  <1>3. I /\ [Next]_vars => Moves
    <2> SUFFICES ASSUME I, [Next]_vars PROVE Moves
      OBVIOUS
    <2>1. Waiting => Waiting' \/ Unwritten' \/ Opening' \/ HandedOut'
      BY WhileNoProxy
    <2>2. CASE pc = "idle"
      BY <2>1, <2>2
    <2>3. CASE CallStep /\ pc # "idle"
      BY <1>2, <2>3
    <2>4. CASE UNCHANGED vars
      BY <2>4 DEF vars, memory, disk, counts, Unexported, Exported, Promising, Quiet, HandedOut
    <2>5. CASE Crash
      BY <2>5, QuietStep DEF Promising, Unexported, Exported
    <2> QED BY <2>2, <2>3, <2>4, <2>5, InCall
  <1>4. Waiting /\ <<Open>>_vars => ~Waiting'
    BY DEF Open
  <1>5. I /\ Waiting => pc = "idle" /\ Free # {}
    BY DEF DefaultCalls
  <1>6. Unwritten \/ Written \/ Opening \/ Attaching \/ Exporting \/ Copying \/ Replacing
          \/ Renaming \/ Creating \/ Truncating \/ Storing => pc # "idle"
    OBVIOUS
  <1>7. (/\ \/ dbFile.kind = "cipher"
            \/ ~migratedFile.table /\ (dbFile.kind = "torn" => pc = "installing")
         /\ crashes = MaxCrashes /\ faults = MaxFaults /\ removals = MaxRemovals)
          <=> Promising
    BY DEF Promising, Quiet
  <1>8. ReturnedProxyReads /\ HandedOut =>
          \E h \in Proxies : proxies[h].state = "open" /\ proxies[h].linked /\ Reads(h)
    BY DEF ReturnedProxyReads, HandedOut
  <1>9. Spec => []I
    BY InitResumable, ResumableStep, InitDefaults, DefaultsStep, InitDefaultCalls,
       DefaultCallsStep, Invariance, PTL DEF Spec
  <1> HIDE DEF Waiting, Unwritten, Written, Opening, Attaching, Exporting, Copying,
               Replacing, Renaming, Creating, Truncating, Storing, I
  <1>10. Spec /\ CallsGoOn /\ OpensGoOn => (Promising ~> HandedOut)
    BY <1>1, <1>2, <1>3, <1>4, <1>5, <1>6, <1>9, PTL
       DEF Spec, CallsGoOn, OpensGoOn
  <1>11. LiveSpec => Spec
    BY PTL DEF LiveSpec
  <1>12. Spec => []ReturnedProxyReads
    BY ReturnedReads
  <1> QED BY <1>7, <1>8, <1>10, <1>11, <1>12, Scheduled, PTL DEF OpenGivesReadableProxy

-----------------------------------------------------------------------------
(* The files that nothing gets past *)

(* The first half of a call over such files ends in its migration, and     *)
(* that raises: the copy has no schema to export, and the table of the     *)
(* database is in the target already.                                      *)
LEMMA StuckCall ==
    ASSUME Inv, Stuck, CallStep
    PROVE  Stuck' /\ UNCHANGED <<dbFile, migratedFile>>
  <1>1. /\ \A h \in Proxies : proxies[h].state = "none"
        /\ dbFile.kind \in {"plain", "torn"}
        /\ pc \in {"idle", "opening", "attaching", "exporting"}
        /\ dbFile.kind = "torn" => pc # "exporting"
        /\ dbFile.kind = "plain" => dbFile.table /\ migratedFile.table
    BY DEF Stuck, Inv, FileShapes, Shaped
  <1>2. ASSUME NEW stored, ProbeWith(stored)
        PROVE  Stuck' /\ UNCHANGED <<dbFile, migratedFile>>
    BY <1>1, <1>2, PlainProbe DEF Stuck, ProbeWith, disk
  <1>3. CASE Attach
    <2>1. migratedFile.table => migratedFile.kind # "absent"
      BY DEF Inv, FileShapes, Shaped
    <2> QED BY <1>1, <1>3, <2>1 DEF Attach, Throw, Stuck
  <1>4. CASE ExportSchema
    BY <1>1, <1>4 DEF ExportSchema, Throw, Stuck
  <1>5. CASE StepFails
    BY <1>1, <1>5 DEF StepFails, Throw, Stuck, disk
  <1> QED BY <1>1, <1>2, <1>3, <1>4, <1>5
          DEF CallStep, Probe, ProbeUnreadableProperties, ExportRows, DeleteOldFile,
              RenameMigratedFile, Create, TruncateProperties, StoreProperties,
              PropertiesFail, CopySome, CopyRest, CopyFails, CopyUnflushed

LEMMA StuckStep ==
    ASSUME Inv, Stuck, [Next]_vars
    PROVE  Stuck' /\ UNCHANGED <<dbFile, migratedFile>>
  <1>1. CASE CallStep
    BY <1>1, StuckCall
  <1>2. CASE Crash
    BY <1>2 DEF Crash, Stuck, NoProxy, disk
  <1>3. CASE Open \/ UNCHANGED vars
    BY <1>3 DEF Open, Stuck, vars, memory, disk
  <1>4. CASE Install
    BY <1>4 DEF Install, Stuck
  <1>5. CASE \/ \E k \in Keys : SetPassword(k)
             \/ \E v \in HashArgs : SetHmacAlgorithm(v)
             \/ \E v \in KdfArgs : SetHmacKdfIterations(v)
             \/ \E v \in PageArgs : PageSize(v)
    BY <1>5 DEF SetPassword, SetHmacAlgorithm, SetHmacKdfIterations, PageSize,
                AssignSettings, Stuck, disk
  <1>6. ~(\E h \in Proxies : \/ \E r \in Rows : Execute(h, r)
                             \/ Close(h) \/ Remove(h) \/ RemoveFails(h))
    BY DEF Stuck, Execute, Close, Remove, RemoveFails, RemoveWith
  <1> QED BY <1>1, <1>2, <1>3, <1>4, <1>5, <1>6 DEF Next

(* A restarted application gets no further with an incomplete copy, nor    *)
(* with a database whose migration died after its first table was created: *)
(* whatever it assigns and calls, no proxy is returned, and without one    *)
(* nothing can be removed.                                                 *)
THEOREM StuckStays == Spec => StuckForGood
  <1>1. Inv /\ [Next]_vars => (Stuck => Stuck' /\ UNCHANGED <<dbFile, migratedFile>>)
    BY StuckStep
  <1> QED BY <1>1, Invariance, PTL DEF Spec, StuckForGood

-----------------------------------------------------------------------------
(* The settings: the page size, and what the properties file says of the   *)
(* proxy that is open.                                                     *)

(* For every integer and every settings in force, setPageSize picks the    *)
(* least valid page size that holds what was asked.                        *)
THEOREM PageSizeCorrect == Spec => []PageSizeIsLeast
  <1>1. TypeOK => PageSizeIsLeast
    <2> SUFFICES ASSUME TypeOK, NEW v \in PageArgs \cup NearPageSizes
                 PROVE  LET page == SetPageSize(dbSettings, v).page
                        IN  /\ v <= MAX_PAGE_SIZE => v <= page
                            /\ \A p \in PageSizes : p < page => p < v
      BY DEF PageSizeIsLeast
    <2>1. v \in Int
      <3>1. \A p \in PageSizes : {p - 1, p, p + 1} \subseteq Int
        BY DEF PageSizes
      <3>2. NearPageSizes \subseteq Int
        BY <3>1, Zenon DEF NearPageSizes
      <3> QED BY <3>2, ArgsAssumption
    <2>2. SetPageSize(dbSettings, v).page = ValidPageSize(v)
      BY DEF SetPageSize, TypeOK, Settings
    <2> QED BY <2>1, <2>2, ValidPageSizeIsLeast
  <1> QED BY <1>1, TypeCorrect, PTL

OneProxy == \A g, h \in Proxies : g = h

NoneOpen == \A h \in Proxies : proxies[h].state # "open"

(* The inductive invariant: a call runs only while no proxy is open.       *)
Recorded == (pc # "idle" => NoneOpen) /\ PropertiesOfProxy

LEMMA ReturnRecorded ==
    ASSUME Inv, NoneOpen, ReturnProxy(dbSettings), pc' = "idle",
           \A p \in propertiesFile' : FromProperties(p) = dbSettings
    PROVE  Recorded'
  <1>1. PICK h \in Free :
            proxies' = [proxies EXCEPT ![h] =
                [state |-> "open", linked |-> TRUE, key |-> password,
                 settings |-> ConnectionSettings(dbSettings), asked |-> dbSettings]]
    BY DEF ReturnProxy
  <1>2. \A g \in Proxies : g # h => proxies'[g].state # "open"
    BY <1>1 DEF Inv, TypeOK, NoneOpen
  <1>3. proxies'[h].asked = dbSettings
    BY <1>1 DEF Inv, TypeOK, Free
  <1> QED BY <1>2, <1>3 DEF Recorded, PropertiesOfProxy

(* Either the file opened with what the properties file says, and that is  *)
(* the settings in force, or there is no properties file: the library's    *)
(* defaults open every file that anything opens.                           *)
LEMMA ProbeRecords ==
    ASSUME ProbeWith(StoredSettings), pc' = "idle"
    PROVE  /\ ReturnProxy(dbSettings)
           /\ \A p \in propertiesFile : FromProperties(p) = dbSettings
  <1>1. /\ dbFile.kind # "absent" /\ Attempt(StoredSettings).opened
        /\ Attempt(StoredSettings).old = {dbSettings}
        /\ ReturnProxy(dbSettings)
    BY DEF ProbeWith
  <1>2. StoredSettings = {FromProperties(p) : p \in propertiesFile}
    BY <1>1 DEF StoredSettings
  <1>3. CASE \E s \in StoredSettings : OpensWith(s)
    <2>1. StoredSettings = {dbSettings}
      BY <1>1, <1>3 DEF Attempt
    <2> QED BY <1>1, <1>2, <2>1
  <1>4. CASE ~\E s \in StoredSettings : OpensWith(s)
    <2>1. OpeningGuesses # {}
      BY <1>1, <1>4 DEF Attempt
    <2>2. \A s : OpensWith(s)
      BY <2>1 DEF OpeningGuesses, OpensWith, ConnectionSettings
    <2> QED BY <1>1, <1>2, <1>4, <2>2
  <1> QED BY <1>3, <1>4

LEMMA RecordedCall ==
    ASSUME Inv, Recorded, CallStep
    PROVE  Recorded'
  <1>1. pc # "idle" /\ NoneOpen
    BY CallOrder DEF Recorded
  <1>2. ASSUME NoneOpen', pc' # "idle" \/ UNCHANGED proxies
        PROVE  Recorded'
    BY <1>2 DEF Recorded, PropertiesOfProxy, NoneOpen
  <1>3. ASSUME UNCHANGED proxies PROVE Recorded'
    BY <1>1, <1>2, <1>3 DEF NoneOpen
  <1>4. ASSUME Fault PROVE faults' # 0
    BY <1>4 DEF Fault, Inv, TypeOK
  <1>5. CASE Probe
    <2>1. CASE pc' = "idle"
      <3>1. ReturnProxy(dbSettings) /\ \A p \in propertiesFile : FromProperties(p) = dbSettings
        BY <1>5, <2>1, ProbeRecords DEF Probe
      <3>2. UNCHANGED propertiesFile
        BY <1>5 DEF Probe, ProbeWith, disk
      <3> QED BY <1>1, <2>1, <3>1, <3>2, ReturnRecorded
    <2>2. CASE pc' # "idle"
      BY <1>3, <1>5, <2>2 DEF Probe, ProbeWith
    <2> QED BY <2>1, <2>2
  <1>6. CASE ProbeUnreadableProperties \/ PropertiesFail
    <2>1. Fault
      BY <1>6 DEF ProbeUnreadableProperties, PropertiesFail
    <2>2. pc' # "idle" => UNCHANGED proxies
      BY <1>6 DEF ProbeUnreadableProperties, ProbeWith, PropertiesFail
    <2>3. CASE pc' = "idle"
      BY <1>4, <2>1, <2>3 DEF Recorded, PropertiesOfProxy
    <2> QED BY <1>3, <2>2, <2>3
  <1>7. CASE DeleteOldFile
    <2>1. proxies' = Unlinked /\ pc' = "renaming"
      BY <1>7 DEF DeleteOldFile
    <2>2. NoneOpen'
      BY <1>1, <2>1 DEF Unlinked, NoneOpen, Inv, TypeOK, Proxy
    <2> QED BY <1>2, <2>1, <2>2
  <1>8. CASE StoreProperties
    <2>1. /\ propertiesFile' = {ToProperties(dbSettings)}
          /\ ReturnProxy(dbSettings) /\ pc' = "idle"
      BY <1>8 DEF StoreProperties
    <2>2. FromProperties(ToProperties(dbSettings)) = dbSettings
      BY PropertiesRoundTrip DEF Inv, TypeOK
    <2> QED BY <1>1, <2>1, <2>2, ReturnRecorded
  <1>9. CASE \/ Attach \/ ExportSchema \/ ExportRows \/ RenameMigratedFile \/ StepFails
             \/ Create \/ TruncateProperties
             \/ CopySome \/ CopyRest \/ CopyFails \/ CopyUnflushed
    <2>1. UNCHANGED proxies
      BY <1>9 DEF Attach, ExportSchema, ExportRows, RenameMigratedFile, StepFails, Create,
                  TruncateProperties, CopySome, CopyRest, CopyFails, CopyUnflushed, Throw,
                  memory
    <2> QED BY <1>3, <2>1
  <1> QED BY <1>5, <1>6, <1>7, <1>8, <1>9 DEF CallStep

LEMMA RecordedStep ==
    ASSUME OneProxy, Inv, Recorded, [Next]_vars
    PROVE  Recorded'
  <1>1. CASE CallStep
    BY <1>1, RecordedCall
  <1>2. CASE Open \/ Install
    <2>1. Free # {} /\ pc' # "idle" /\ UNCHANGED proxies
      BY <1>2 DEF Open, Install
    <2>2. NoneOpen
      BY <2>1 DEF Free, OneProxy, NoneOpen
    <2> QED BY <2>1, <2>2 DEF Recorded, PropertiesOfProxy, NoneOpen
  <1>3. CASE \/ \E k \in Keys : SetPassword(k)
             \/ \E v \in HashArgs : SetHmacAlgorithm(v)
             \/ \E v \in KdfArgs : SetHmacKdfIterations(v)
             \/ \E v \in PageArgs : PageSize(v)
             \/ \E h \in Proxies : \E r \in Rows : Execute(h, r)
             \/ UNCHANGED vars
    <2>1. UNCHANGED <<pc, proxies, propertiesFile, faults>>
      BY <1>3 DEF SetPassword, SetHmacAlgorithm, SetHmacKdfIterations, PageSize,
                  AssignSettings, Execute, vars, memory, disk, counts
    <2> QED BY <2>1 DEF Recorded, PropertiesOfProxy, NoneOpen
  <1>4. CASE \E h \in Proxies : Close(h) \/ Remove(h) \/ RemoveFails(h)
    <2>1. PICK h \in Proxies : Close(h) \/ Remove(h) \/ RemoveFails(h)
      BY <1>4
    <2>2. /\ pc = "idle" /\ UNCHANGED pc
          /\ proxies' \in {[proxies EXCEPT ![h].state = "closed"],
                           [Unlinked EXCEPT ![h].state = "closed"]}
      BY <2>1 DEF Close, Remove, RemoveFails, RemoveWith
    <2>3. proxies'[h].state = "closed"
      BY <2>2 DEF Unlinked, Inv, TypeOK, Proxy
    <2>4. NoneOpen'
      BY <2>3 DEF OneProxy, NoneOpen
    <2> QED BY <2>2, <2>4 DEF Recorded, PropertiesOfProxy, NoneOpen
  <1>5. CASE Crash
    <2>1. NoneOpen'
      BY <1>5 DEF Crash, NoneOpen, NoProxy
    <2> QED BY <2>1 DEF Recorded, PropertiesOfProxy, NoneOpen
  <1> QED BY <1>1, <1>2, <1>3, <1>4, <1>5 DEF Next

(* While no file operation fails, what the properties file says of the     *)
(* database is what the open proxy was opened with, for every number of    *)
(* crashes and removals.  With two proxies it is not so: open() under a    *)
(* wrong password can end in rewriting the file the first one relies on.   *)
THEOREM PropertiesRecorded ==
    ASSUME OneProxy
    PROVE  Spec => []PropertiesOfProxy
  <1>1. Init => Recorded
    BY DEF Init, Recorded, PropertiesOfProxy, NoProxy
  <1>2. Inv /\ Recorded /\ [Next]_vars => Recorded'
    BY RecordedStep
  <1>3. Recorded => PropertiesOfProxy
    BY DEF Recorded
  <1> QED BY <1>1, <1>2, <1>3, Invariance, PTL DEF Spec
=============================================================================
