----------------------------- MODULE SharedCache -----------------------------
(***************************************************************************)
(* Connections of one process that share caches, on iOS: the module object *)
(* enables the shared cache of SQLite, so all connections to one path use  *)
(* one BtShared with one pager, one open file and one codec context of     *)
(* SQLCipher, which live until the last of them is closed.                 *)
(*                                                                         *)
(* IosStore says what the calls of the module do to the files on the disk  *)
(* when a name has one connection.  Here a name has several: the           *)
(* application opens it twice, removes it under an open connection, or     *)
(* opens it again while a connection whose open() raised has not been      *)
(* closed yet.  What a call does is one step, as calls come from the one   *)
(* JavaScript thread; a crash forgets the caches.                          *)
(*                                                                         *)
(* The cipher of a page is the password and the parameters: the salt is    *)
(* read from the file with its first page.  A close that the statements of *)
(* a connection refuse changes nothing here and is no step.                *)
(***************************************************************************)
EXTENDS Integers, FiniteSets

CONSTANTS
    Names,        \* database names, and the path of their file
    Temp,         \* the path of temp.db
    Handles,      \* connections (sqlite3 objects) that exist at a time
    Inodes,       \* files
    Keys,         \* passwords
    Params,       \* cipher parameters
    LibraryParams \* those of SQLCipher before anything is set

ASSUME PathsAssumption == Temp \notin Names
ASSUME ParamsAssumption == LibraryParams \in Params

NoPath == "no path"
NoFile == "no file"
NoCipher == [key |-> "no key", params |-> LibraryParams]

ASSUME NonesAssumption == NoPath \notin Names \cup {Temp} /\ NoFile \notin Inodes

Paths == Names \cup {Temp}

VARIABLES
    caches,       \* the BtShared of each path, on sqlite3SharedCacheList
    handles,      \* the connections
    named,        \* the file each path leads to
    ciphers,      \* what the pages of each file are encrypted with
    written       \* the file that the last call wrote pages of

vars == <<caches, handles, named, ciphers, written>>

Cipher == [key : Keys, params : Params]

(* cipher, used, failed: codec_ctx with its password and parameters,       *)
(* CIPHER_FLAG_KEY_USED and its error.                                     *)
Cache == [live : BOOLEAN, file : Inodes \cup {NoFile},
          cipher : Cipher \cup {NoCipher}, used : BOOLEAN, failed : BOOLEAN]

(* path: main; attached: whether temp.db is attached to it. *)
Handle == [path : Names \cup {NoPath}, attached : BOOLEAN]

NoCache == [live |-> FALSE, file |-> NoFile, cipher |-> NoCipher,
            used |-> FALSE, failed |-> FALSE]

NoHandle == [path |-> NoPath, attached |-> FALSE]

Users(p) == {h \in Handles : \/ handles[h].path = p
                             \/ p = Temp /\ handles[h].attached}

(* A file that can be created: no name leads to it, no pager has it open   *)
(* and nothing was written to it.                                          *)
Free(i) ==
    /\ ciphers[i] = {}
    /\ \A p \in Paths : named[p] # i
    /\ \A p \in Paths : caches[p].live => caches[p].file # i

-----------------------------------------------------------------------------
(* The codec of a cache *)

(* Mutant: the codec is attached without the password. *)
MutantNewCache(i, k, params) ==
    [live |-> TRUE, file |-> i, cipher |-> NoCipher, used |-> FALSE, failed |-> FALSE]

(* sqlcipherCodecAttach on a new pager: the context takes the defaults. *)
NewCache(i, k, params) ==
    [live |-> TRUE, file |-> i, cipher |-> [key |-> k, params |-> params],
     used |-> FALSE, failed |-> FALSE]

(* PRAGMA kdf_iter and the others: nothing once the key was used. *)
SetParams(c, params) ==
    IF c.used THEN c ELSE [c EXCEPT !.cipher.params = params]

Decrypts(c) == ~c.failed /\ ciphers[c.file] \subseteq {c.cipher}

(* Mutant: a wrong key is not remembered as failed, but as used. *)
MutantAfterRead(c) ==
    IF ciphers[c.file] = {} \/ c.failed THEN c
    ELSE IF c.cipher \in ciphers[c.file] THEN [c EXCEPT !.used = TRUE]
    ELSE [c EXCEPT !.used = TRUE]

(* What reading does to the context.  The first page that does not decrypt *)
(* makes it fail for as long as the cache lives; a file without pages is   *)
(* not read through it.                                                    *)
AfterRead(c) ==
    IF ciphers[c.file] = {} \/ c.failed THEN c
    ELSE [c EXCEPT !.used = @ \/ c.cipher \in ciphers[c.file],
                   !.failed = ~Decrypts(c)]

(* Mutant: the file is not looked for. *)
MutantIsUnmoved(c, p) == TRUE

(* databaseIsUnmoved, before a transaction opens its journal.  A file      *)
(* without pages is not looked for.                                        *)
IsUnmoved(c, p) == ciphers[c.file] = {} \/ named[p] = c.file

(* Mutant: a page is written before one was read. *)
MutantCanWrite(c, p) == IsUnmoved(c, p)

(* Page 1 is read before the first page is written. *)
CanWrite(c, p) == Decrypts(c) /\ IsUnmoved(c, p)

(* A transaction rewrites some pages or all of them. *)
Written(c) == {{c.cipher}, ciphers[c.file] \cup {c.cipher}}

-----------------------------------------------------------------------------
(* Opening and closing a path *)

(* sqlite3BtreeOpen of path p, which finds the cache of that path or opens *)
(* the file, and sqlite3_key, which an existing context disregards.        *)
Opened(c, i, k, params) == IF c.live THEN c ELSE NewCache(i, k, params)

(* The file such an opening is of: a new one where there is none. *)
FileFor(p, i) ==
    \/ caches[p].live /\ i = caches[p].file
    \/ ~caches[p].live /\ named[p] # NoFile /\ i = named[p]
    \/ ~caches[p].live /\ named[p] = NoFile /\ i \in Inodes /\ Free(i)

Creates(p) == ~caches[p].live /\ named[p] = NoFile

(* Mutant: the cache of a connection that is closed stays on the list. *)
MutantLeft(p, h, c) == c

(* sqlite3BtreeClose by connection h: the last one frees the cache. *)
Left(p, h, c) == IF Users(p) \subseteq {h} THEN NoCache ELSE c

-----------------------------------------------------------------------------
Init ==
    /\ caches = [p \in Paths |-> NoCache]
    /\ handles = [h \in Handles |-> NoHandle]
    /\ named = [p \in Paths |-> NoFile]
    /\ ciphers = [i \in Inodes |-> {}]
    /\ written = NoFile

(* open() without a migration: sqlite3_open, the default parameters of the *)
(* process, sqlite3_key.  Nothing is read.                                 *)
Open(h, n, k, params) ==
    /\ handles[h].path = NoPath
    /\ \E i \in Inodes :
         /\ FileFor(n, i)
         /\ caches' = [caches EXCEPT ![n] = Opened(@, i, k, params)]
         /\ named' = IF Creates(n) THEN [named EXCEPT ![n] = i] ELSE named
    /\ handles' = [handles EXCEPT ![h] =
           [path |-> n, attached |-> FALSE]]
    /\ written' = NoFile
    /\ UNCHANGED ciphers

(* A statement that reads, and raises when the context has failed. *)
Read(h) ==
    LET n == handles[h].path
    IN  /\ n # NoPath
        /\ caches' = [caches EXCEPT ![n] = AfterRead(@)]
        /\ written' = NoFile
        /\ UNCHANGED <<handles, named, ciphers>>

(* A statement that writes; where it cannot it does what Read does. *)
Write(h) ==
    LET n == handles[h].path
    IN  /\ n # NoPath /\ CanWrite(caches[n], n)
        /\ caches' = [caches EXCEPT ![n].used = TRUE]
        /\ \E W \in Written(caches[n]) :
               ciphers' = [ciphers EXCEPT ![caches[n].file] = W]
        /\ written' = caches[n].file
        /\ UNCHANGED <<handles, named>>

(* close of the proxy, its deallocation, or that of one whose open raised. *)
Close(h) ==
    LET n == handles[h].path
    IN  /\ n # NoPath
        /\ handles' = [handles EXCEPT ![h] = NoHandle]
        /\ caches' = [p \in Paths |->
               IF p = n \/ (p = Temp /\ handles[h].attached)
               THEN Left(p, h, caches[p]) ELSE caches[p]]
        /\ written' = NoFile
        /\ UNCHANGED <<named, ciphers>>

(* remove() unlinks the file and closes nothing. *)
Remove(n) ==
    /\ named[n] # NoFile
    /\ named' = [named EXCEPT ![n] = NoFile]
    /\ written' = NoFile
    /\ UNCHANGED <<caches, handles, ciphers>>

(* install() copies a database that was encrypted with the parameters of   *)
(* the library; an open() follows.                                         *)
Install(n, k) ==
    /\ named[n] = NoFile
    /\ \E i \in Inodes :
         /\ Free(i)
         /\ named' = [named EXCEPT ![n] = i]
         /\ ciphers' = [ciphers EXCEPT ![i] = {[key |-> k, params |-> LibraryParams]}]
    /\ written' = NoFile
    /\ UNCHANGED <<caches, handles>>

-----------------------------------------------------------------------------
(* open() with a migration *)

(* The cache of n after sqlite3_open, sqlite3_key and the PRAGMAs with the *)
(* old parameters; i is its file.                                          *)
Source(n, i, k, old, params) == SetParams(Opened(caches[n], i, k, params), old)

(* Mutant: temp.db is given the parameters of the file that is migrated. *)
MutantTarget(j, k, old, params) == Opened(caches[Temp], j, k, old)

(* That of temp.db after ATTACH ... KEY, which takes the defaults. *)
Target(j, k, old, params) == Opened(caches[Temp], j, k, params)

(* A cache that connection h used and has let go of. *)
After(p, c) == IF Users(p) = {} THEN NoCache ELSE c

(* What the export leaves in temp.db: nothing of a file without pages.     *)
Exported(source, target) ==
    IF ciphers[source.file] = {} THEN {ciphers[target.file]} ELSE Written(target)

CanExport(source, target) ==
    ciphers[source.file] = {} \/ CanWrite(target, Temp)

(* All of it: export, DETACH, close, the removal of the file, the move of  *)
(* temp.db onto its name and another open, which finds the cache of n when *)
(* a connection still has it.  That what is in temp.db already does not    *)
(* stop the export is a choice.                                            *)
Migrate(h, n, k, old, params) ==
    /\ handles[h].path = NoPath
    /\ \E i, j \in Inodes :
         LET source == Source(n, i, k, old, params)
             target == Target(j, k, old, params)
         IN  /\ FileFor(n, i) /\ FileFor(Temp, j) /\ i # j
             /\ Decrypts(source) /\ Decrypts(target) /\ CanExport(source, target)
             /\ Creates(Temp) \/ named[Temp] # NoFile
             /\ named' = [named EXCEPT ![n] = IF Creates(Temp) THEN j ELSE named[Temp],
                                       ![Temp] = NoFile]
             /\ \E W \in Exported(source, target) :
                    ciphers' = [ciphers EXCEPT ![j] = W]
             /\ written' = IF ciphers[source.file] = {} THEN NoFile ELSE j
             /\ caches' = [caches EXCEPT
                    ![n] = IF Users(n) = {} THEN NewCache(named'[n], k, params)
                           ELSE AfterRead(source),
                    ![Temp] = After(Temp, [target EXCEPT !.used = ciphers'[j] # {}])]
    /\ handles' = [handles EXCEPT ![h] =
           [path |-> n, attached |-> FALSE]]

(* The file or temp.db does not decrypt: ATTACH raises. *)
MigrateUnread(h, n, k, old, params) ==
    /\ handles[h].path = NoPath
    /\ \E i, j \in Inodes :
         LET source == Source(n, i, k, old, params)
             target == Target(j, k, old, params)
         IN  /\ FileFor(n, i) /\ FileFor(Temp, j) /\ i # j
             /\ ~Decrypts(source) \/ ~Decrypts(target)
             /\ named' = IF Creates(n) THEN [named EXCEPT ![n] = i] ELSE named
             /\ caches' = [caches EXCEPT
                    ![n] = AfterRead(source),
                    ![Temp] = IF Decrypts(source) THEN After(Temp, AfterRead(target))
                              ELSE @]
    /\ handles' = [handles EXCEPT ![h] =
           [path |-> n, attached |-> FALSE]]
    /\ written' = NoFile
    /\ UNCHANGED ciphers

(* The export raises, with temp.db attached: a table exists already, or    *)
(* temp.db was moved or cannot be written.                                 *)
MigrateStops(h, n, k, old, params) ==
    /\ handles[h].path = NoPath
    /\ \E i, j \in Inodes :
         LET source == Source(n, i, k, old, params)
             target == Target(j, k, old, params)
         IN  /\ FileFor(n, i) /\ FileFor(Temp, j) /\ i # j
             /\ Decrypts(source) /\ Decrypts(target)
             /\ named' = [p \in Paths |->
                    IF p = n /\ Creates(n) THEN i
                    ELSE IF p = Temp /\ Creates(Temp) THEN j ELSE named[p]]
             /\ \/ ciphers' = ciphers /\ written' = NoFile
                \/ /\ CanExport(source, target) /\ ciphers[source.file] # {}
                   /\ \E W \in Written(target) : ciphers' = [ciphers EXCEPT ![j] = W]
                   /\ written' = j
             /\ caches' = [caches EXCEPT
                    ![n] = AfterRead(source),
                    ![Temp] = [target EXCEPT !.used = ciphers'[j] # {}]]
    /\ handles' = [handles EXCEPT ![h] =
           [path |-> n, attached |-> TRUE]]

(* The export went into a temp.db that no name leads to: the file has been *)
(* removed when the move raises.                                           *)
MigrateLosesName(h, n, k, old, params) ==
    /\ handles[h].path = NoPath /\ caches[Temp].live /\ named[Temp] = NoFile
    /\ \E i \in Inodes :
         LET source == Source(n, i, k, old, params)
             target == caches[Temp]
         IN  /\ FileFor(n, i) /\ i # target.file
             /\ Decrypts(source) /\ Decrypts(target) /\ CanExport(source, target)
             /\ named' = [named EXCEPT ![n] = NoFile]
             /\ \E W \in Exported(source, target) :
                    ciphers' = [ciphers EXCEPT ![target.file] = W]
             /\ written' = IF ciphers[source.file] = {} THEN NoFile ELSE target.file
             /\ caches' = [caches EXCEPT
                    ![n] = After(n, AfterRead(source)),
                    ![Temp] = [target EXCEPT !.used = ciphers'[target.file] # {}]]
    /\ UNCHANGED handles

-----------------------------------------------------------------------------
(* The process ends, and the application starts again. *)
Restart ==
    /\ caches' = [p \in Paths |-> NoCache]
    /\ handles' = [h \in Handles |-> NoHandle]
    /\ written' = NoFile
    /\ UNCHANGED <<named, ciphers>>

Next ==
    \/ \E h \in Handles : Read(h) \/ Write(h) \/ Close(h)
    \/ \E h \in Handles, n \in Names, k \in Keys, params \in Params :
          \/ Open(h, n, k, params)
          \/ \E old \in Params : \/ Migrate(h, n, k, old, params)
                                 \/ MigrateUnread(h, n, k, old, params)
                                 \/ MigrateStops(h, n, k, old, params)
                                 \/ MigrateLosesName(h, n, k, old, params)
    \/ \E n \in Names : Remove(n) \/ \E k \in Keys : Install(n, k)
    \/ Restart

Spec == Init /\ [][Next]_vars

-----------------------------------------------------------------------------
(* Properties *)

TypeOK ==
    /\ caches \in [Paths -> Cache]
    /\ handles \in [Handles -> Handle]
    /\ named \in [Paths -> Inodes \cup {NoFile}]
    /\ ciphers \in [Inodes -> SUBSET Cipher]
    /\ written \in Inodes \cup {NoFile}

(* All pages of a file are encrypted alike, whatever connections with      *)
(* other passwords and other settings are opened to its path meanwhile.    *)
FileHasOneCipher == \A i \in Inodes : \A c, d \in ciphers[i] : c = d

(* A file keeps its cipher for life: no connection, whatever password and  *)
(* settings it was opened with, and no export encrypts anew what another   *)
(* connection has encrypted.                                               *)
CipherIsKept ==
    [][\A i \in Inodes : ciphers[i] # {} => ciphers'[i] = ciphers[i]]_vars

(* A context whose key was used can go on reading its file: no other       *)
(* connection to the path takes the key from it or makes it fail.          *)
UsedContextReads ==
    \A p \in Paths :
        caches[p].live /\ caches[p].used
            => ~caches[p].failed /\ ciphers[caches[p].file] = {caches[p].cipher}

(* A file that has pages changes only while a name leads to it: what is    *)
(* written through a connection whose file was removed or replaced raises  *)
(* and is not silently lost.                                               *)
NamedWritesOnly ==
    [][\A i \in Inodes : written' = i /\ ciphers[i] # {} =>
           \E p \in Paths : named[p] = i]_vars

(* A connection to a path that no other has is to the file the path leads  *)
(* to, whatever was removed, replaced and closed before.                   *)
FreshOpenIsNamed ==
    [][\A h \in Handles :
          LET n == handles'[h].path
          IN  handles[h].path = NoPath /\ n # NoPath /\ Users(n) = {}
                 => caches'[n].file = named'[n]]_vars

(* What a migration puts in place of a database is encrypted as the call   *)
(* was told, unless a connection was left that has temp.db attached.       *)
ReplacedAsGiven ==
    [][\A h \in Handles, n \in Names :
          named[Temp] # named'[Temp] \/ named[n] # named'[n] =>
          \A k \in Keys, old, params \in Params :
              Migrate(h, n, k, old, params) /\ Users(Temp) = {}
                  => ciphers'[named'[n]] \subseteq {[key |-> k, params |-> params]}]_vars
=============================================================================
