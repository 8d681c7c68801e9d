------------------------- MODULE SharedCache_proofs -------------------------
(***************************************************************************)
(* Proofs about SharedCache, for any number of names, connections, files,  *)
(* passwords and parameters.  The properties are not far from inductive:   *)
(* what they need besides is when a cache lives, and that a cache which    *)
(* lives has a file and a cipher.                                          *)
(***************************************************************************)
EXTENDS SharedCache, TLAPS

(* A cache is on the list exactly as long as a connection uses it. *)
UsedCachesLive == \A p \in Paths : caches[p].live <=> Users(p) # {}

(* Only a connection that migrates has temp.db attached. *)
AttachedIsOpen == \A h \in Handles : handles[h].attached => handles[h].path # NoPath

(* What holds of each cache. *)
Sound(c) ==
    /\ c.live => c.file \in Inodes /\ c.cipher \in Cipher
    /\ c.live /\ c.used => ~c.failed /\ ciphers[c.file] = {c.cipher}

Inv ==
    /\ TypeOK
    /\ UsedCachesLive
    /\ AttachedIsOpen
    /\ FileHasOneCipher
    /\ \A p \in Paths : Sound(caches[p])

-----------------------------------------------------------------------------
(* Caches *)

LEMMA PathsDiffer ==
    /\ Temp \in Paths /\ \A n \in Names : n \in Paths /\ n # Temp
    /\ \A p \in Paths : p # NoPath
  BY PathsAssumption, NonesAssumption DEF Paths

LEMMA NoCacheSound == NoCache \in Cache /\ NoCache.live = FALSE /\ Sound(NoCache)
  BY DEF NoCache, Cache, Sound

LEMMA NewCacheSound ==
    ASSUME NEW i \in Inodes, NEW k \in Keys, NEW params \in Params
    PROVE  LET c == NewCache(i, k, params)
           IN  /\ c \in Cache /\ c.live = TRUE /\ c.file = i /\ c.used = FALSE
               /\ c.failed = FALSE /\ c.cipher = [key |-> k, params |-> params]
               /\ c.cipher \in Cipher
  BY DEF NewCache, Cache, Cipher

(* The cache that an opening of a path finds or makes. *)
LEMMA OpenedSound ==
    ASSUME Inv, NEW p \in Paths, NEW i \in Inodes, FileFor(p, i),
           NEW k \in Keys, NEW params \in Params
    PROVE  LET c == Opened(caches[p], i, k, params)
           IN  /\ c \in Cache /\ c.live = TRUE /\ c.file = i
               /\ c.cipher \in Cipher /\ Sound(c)
  <1>1. caches[p] \in Cache /\ Sound(caches[p])
    BY DEF Inv, TypeOK
  <1>2. CASE caches[p].live
    <2>1. Opened(caches[p], i, k, params) = caches[p]
      BY <1>2 DEF Opened
    <2>2. caches[p].file = i
      BY <1>2 DEF FileFor
    <2>3. caches[p].live = TRUE
      BY <1>1, <1>2 DEF Cache
    <2> QED BY <1>1, <2>1, <2>2, <2>3 DEF Sound
  <1>3. CASE ~caches[p].live
    <2>1. Opened(caches[p], i, k, params) = NewCache(i, k, params)
      BY <1>3 DEF Opened
    <2> DEFINE c == NewCache(i, k, params)
    <2>2. /\ c \in Cache /\ c.live = TRUE /\ c.file = i /\ c.used = FALSE
          /\ c.cipher \in Cipher
      BY NewCacheSound
    <2> HIDE DEF c
    <2>3. Sound(c)
      BY <2>2 DEF Sound
    <2> QED BY <2>1, <2>2, <2>3 DEF c
  <1> QED BY <1>2, <1>3

LEMMA SourceSound ==
    ASSUME Inv, NEW n \in Names, NEW i \in Inodes, FileFor(n, i),
           NEW k \in Keys, NEW old \in Params, NEW params \in Params
    PROVE  LET c == Source(n, i, k, old, params)
           IN  /\ c \in Cache /\ c.live = TRUE /\ c.file = i
               /\ c.cipher \in Cipher /\ Sound(c)
  <1> DEFINE c == Opened(caches[n], i, k, params)
             d == [c EXCEPT !.cipher.params = old]
  <1>1. /\ c \in Cache /\ c.live = TRUE /\ c.file = i
        /\ c.cipher \in Cipher /\ Sound(c)
    BY OpenedSound, PathsDiffer
  <1>2. Source(n, i, k, old, params) = IF c.used THEN c ELSE d
    BY DEF Source, SetParams
  <1> HIDE DEF c
  <1>3. d \in Cache /\ d.live = c.live /\ d.file = c.file /\ d.used = c.used
    BY <1>1 DEF Cache, Cipher
  <1>4. d.cipher \in Cipher
    BY <1>1 DEF Cache, Cipher
  <1> HIDE DEF d
  <1>5. ~c.used => Sound(d)
    BY <1>1, <1>3, <1>4 DEF Sound
  <1> QED BY <1>1, <1>2, <1>3, <1>4, <1>5

(* A cache that was read. *)
LEMMA AfterReadSound ==
    ASSUME Inv, NEW c \in Cache, c.live, Sound(c)
    PROVE  LET d == AfterRead(c)
           IN  /\ d \in Cache /\ d.live = c.live /\ d.file = c.file
               /\ d.cipher = c.cipher /\ Sound(d)
  <1> DEFINE d == [c EXCEPT !.used = @ \/ c.cipher \in ciphers[c.file],
                            !.failed = ~Decrypts(c)]
  <1>1. CASE ciphers[c.file] = {} \/ c.failed
    BY <1>1 DEF AfterRead
  <1>2. CASE ~(ciphers[c.file] = {} \/ c.failed)
    <2>1. AfterRead(c) = d
      BY <1>2 DEF AfterRead
    <2>2. d \in Cache
      BY DEF Cache, Decrypts
    <2>3. /\ d.live = c.live /\ d.file = c.file /\ d.cipher = c.cipher
          /\ d.used = (c.used \/ c.cipher \in ciphers[c.file])
          /\ d.failed = ~Decrypts(c)
      BY DEF Cache
    <2> HIDE DEF d
    <2>4. c.file \in Inodes /\ c.cipher \in Cipher
      BY DEF Sound
    <2>5. ASSUME d.used
          PROVE  ciphers[c.file] = {c.cipher}
      <3>1. CASE c.used
        BY <3>1 DEF Sound
      <3>2. CASE c.cipher \in ciphers[c.file]
        BY <2>4, <3>2 DEF Inv, FileHasOneCipher
      <3> QED BY <2>3, <2>5, <3>1, <3>2
    <2>6. d.used => ~d.failed
      BY <1>2, <2>3, <2>5 DEF Decrypts
    <2> QED BY <2>1, <2>2, <2>3, <2>4, <2>5, <2>6 DEF Sound
  <1> QED BY <1>1, <1>2

(* Pages of file j are written by a cache c that reads it. *)
LEMMA WrittenSound ==
    ASSUME Inv, NEW j \in Inodes, NEW x \in Cipher, ciphers[j] \subseteq {x},
           ciphers' = [ciphers EXCEPT ![j] = {x}]
    PROVE  /\ ciphers' \in [Inodes -> SUBSET Cipher]
           /\ FileHasOneCipher'
           /\ \A d : Sound(d) => Sound(d)'
           /\ ciphers'[j] = {x} /\ \A i \in Inodes : i # j => ciphers'[i] = ciphers[i]
  <1>1. /\ ciphers' \in [Inodes -> SUBSET Cipher] /\ ciphers'[j] = {x}
        /\ \A i \in Inodes : i # j => ciphers'[i] = ciphers[i]
    BY DEF Inv, TypeOK
  <1>2. FileHasOneCipher'
    BY <1>1 DEF Inv, FileHasOneCipher
  <1>3. ASSUME NEW d, Sound(d)
        PROVE  Sound(d)'
    BY <1>1, <1>3 DEF Sound
  <1> QED BY <1>1, <1>2, <1>3

LEMMA SameSound ==
    ASSUME UNCHANGED ciphers
    PROVE  \A d : Sound(d) => Sound(d)'
  BY DEF Sound

(* What a transaction leaves is the cipher of its cache. *)
LEMMA WrittenIs ==
    ASSUME NEW c, ciphers[c.file] \subseteq {c.cipher}, NEW W \in Written(c)
    PROVE  W = {c.cipher}
  BY DEF Written

-----------------------------------------------------------------------------
(* Connections *)

LEMMA HandleOpened ==
    ASSUME TypeOK, AttachedIsOpen, NEW h \in Handles, NEW n \in Names, NEW a \in BOOLEAN,
           handles[h].path = NoPath,
           handles' = [handles EXCEPT ![h] = [path |-> n, attached |-> a]]
    PROVE  /\ handles' \in [Handles -> Handle] /\ AttachedIsOpen'
           /\ Users(n)' # {} /\ (a => Users(Temp)' # {})
           /\ ~a => Users(Temp)' = Users(Temp)
           /\ \A p \in Names : p # n => Users(p)' = Users(p)
           /\ handles'[h].path = n
           /\ \A g \in Handles : g # h => handles'[g] = handles[g]
  <1>1. handles' \in [Handles -> Handle]
    BY DEF TypeOK, Handle
  <1>2. handles'[h].path = n /\ handles'[h].attached = a /\ n # NoPath
    BY PathsDiffer DEF TypeOK
  <1>3. \A g \in Handles : g # h => handles'[g] = handles[g]
    BY DEF TypeOK
  <1>4. ~handles[h].attached
    BY DEF AttachedIsOpen
  <1>5. AttachedIsOpen'
    BY <1>2, <1>3 DEF AttachedIsOpen
  <1>6. Users(n)' # {} /\ (a => Users(Temp)' # {})
    BY <1>2 DEF Users
  <1>7. \A p \in Names : p # n => Users(p)' = Users(p)
    BY <1>2, <1>3, <1>4, PathsDiffer DEF Users
  <1>8. ~a => Users(Temp)' = Users(Temp)
    BY <1>2, <1>3, <1>4, PathsDiffer DEF Users
  <1> QED BY <1>1, <1>2, <1>3, <1>5, <1>6, <1>7, <1>8

LEMMA HandleClosed ==
    ASSUME TypeOK, AttachedIsOpen, NEW h \in Handles,
           handles' = [handles EXCEPT ![h] = NoHandle]
    PROVE  /\ handles' \in [Handles -> Handle] /\ AttachedIsOpen'
           /\ \A p \in Paths : Users(p)' = Users(p) \ {h}
  <1>1. handles' \in [Handles -> Handle]
    BY DEF TypeOK, Handle, NoHandle
  <1>2. handles'[h].path = NoPath /\ handles'[h].attached = FALSE
    BY DEF TypeOK, NoHandle
  <1>3. \A g \in Handles : g # h => handles'[g] = handles[g]
    BY DEF TypeOK
  <1>4. AttachedIsOpen'
    BY <1>2, <1>3 DEF AttachedIsOpen
  <1>5. \A p \in Paths : Users(p)' = Users(p) \ {h}
    BY <1>2, <1>3, PathsDiffer DEF Users
  <1> QED BY <1>1, <1>4, <1>5

LEMMA HandlesSame ==
    ASSUME UNCHANGED handles
    PROVE  \A p : Users(p)' = Users(p)
  BY DEF Users

(* A connection that is open uses the cache of its name. *)
LEMMA OpenIsUser ==
    ASSUME Inv, NEW h \in Handles, handles[h].path # NoPath
    PROVE  /\ handles[h].path \in Names /\ handles[h].path \in Paths
           /\ caches[handles[h].path].live
           /\ caches[handles[h].path] \in Cache /\ Sound(caches[handles[h].path])
  <1>1. handles[h].path \in Names
    BY DEF Inv, TypeOK, Handle
  <1>2. h \in Users(handles[h].path)
    BY DEF Users
  <1> QED BY <1>1, <1>2, PathsDiffer DEF Inv, UsedCachesLive, TypeOK
-----------------------------------------------------------------------------
(* The actions *)

LEMMA InitInv == Init => Inv
  <1> SUFFICES ASSUME Init
               PROVE  Inv
    OBVIOUS
  <1>1. NoHandle \in Handle /\ NoHandle.path = NoPath /\ NoHandle.attached = FALSE
    BY DEF NoHandle, Handle
  <1>2. TypeOK
    BY <1>1, NoCacheSound DEF Init, TypeOK
  <1>3. \A p \in Paths : Users(p) = {}
    BY <1>1, PathsDiffer DEF Init, Users
  <1> QED BY <1>1, <1>2, <1>3, NoCacheSound
          DEF Init, Inv, UsedCachesLive, AttachedIsOpen, FileHasOneCipher

(* What is left to show of a step. *)
LEMMA Kept ==
    ASSUME Inv, caches' \in [Paths -> Cache], handles' \in [Handles -> Handle],
           named' \in [Paths -> Inodes \cup {NoFile}], ciphers' \in [Inodes -> SUBSET Cipher],
           written' \in Inodes \cup {NoFile}, AttachedIsOpen', FileHasOneCipher',
           \A p \in Paths : Sound(caches[p])' /\ (caches'[p].live <=> Users(p)' # {})
    PROVE  Inv'
  BY DEF Inv, TypeOK, UsedCachesLive

LEMMA OpenInv ==
    ASSUME Inv, NEW h \in Handles, NEW n \in Names, NEW k \in Keys, NEW params \in Params,
           Open(h, n, k, params)
    PROVE  Inv'
  <1> PICK i \in Inodes :
        /\ FileFor(n, i)
        /\ caches' = [caches EXCEPT ![n] = Opened(@, i, k, params)]
        /\ named' = IF Creates(n) THEN [named EXCEPT ![n] = i] ELSE named
    BY DEF Open
  <1> DEFINE c == Opened(caches[n], i, k, params)
  <1>1. c \in Cache /\ c.live = TRUE /\ Sound(c)
    BY OpenedSound, PathsDiffer
  <1>2. caches' = [caches EXCEPT ![n] = c]
    OBVIOUS
  <1> HIDE DEF c
  <1>3. TypeOK /\ AttachedIsOpen /\ UNCHANGED ciphers /\ written' = NoFile
        /\ handles[h].path = NoPath
        /\ handles' = [handles EXCEPT ![h] = [path |-> n, attached |-> FALSE]]
    BY DEF Open, Inv
  <1>4. /\ handles' \in [Handles -> Handle] /\ AttachedIsOpen'
        /\ Users(n)' # {} /\ Users(Temp)' = Users(Temp)
        /\ \A p \in Names : p # n => Users(p)' = Users(p)
    BY <1>3, HandleOpened
  <1>5. /\ caches' \in [Paths -> Cache] /\ caches'[n] = c
        /\ \A p \in Paths : p # n => caches'[p] = caches[p]
    BY <1>1, <1>2, <1>3, PathsDiffer DEF TypeOK
  <1>6. named' \in [Paths -> Inodes \cup {NoFile}]
    BY <1>3, PathsDiffer DEF TypeOK
  <1>7. FileHasOneCipher' /\ ciphers' \in [Inodes -> SUBSET Cipher]
    BY <1>3 DEF Inv, FileHasOneCipher, TypeOK
  <1>8. ASSUME NEW p \in Paths
        PROVE  Sound(caches[p])' /\ (caches'[p].live <=> Users(p)' # {})
    <2>1. CASE p = n
      BY <1>1, <1>3, <1>4, <1>5, <2>1, SameSound
    <2>2. CASE p # n
      <3>1. Users(p)' = Users(p)
        BY <1>4, <2>2 DEF Paths
      <3>2. Sound(caches[p])'
        BY <1>3, <1>5, <2>2, SameSound DEF Inv
      <3> QED BY <1>5, <2>2, <3>1, <3>2 DEF Inv, UsedCachesLive
    <2> QED BY <2>1, <2>2
  <1> QED BY <1>3, <1>4, <1>5, <1>6, <1>7, <1>8, Kept

LEMMA ReadInv ==
    ASSUME Inv, NEW h \in Handles, Read(h)
    PROVE  Inv'
  <1> DEFINE n == handles[h].path
             c == AfterRead(caches[n])
  <1>1. /\ n # NoPath /\ caches' = [caches EXCEPT ![n] = c]
        /\ written' = NoFile /\ UNCHANGED <<handles, named, ciphers>> /\ TypeOK
    BY DEF Read, Inv
  <1>2. /\ n \in Paths /\ caches[n].live /\ caches[n] \in Cache /\ Sound(caches[n])
    BY <1>1, OpenIsUser
  <1>3. c \in Cache /\ c.live = caches[n].live /\ Sound(c)
    BY <1>2, AfterReadSound
  <1> HIDE DEF c, n
  <1>4. /\ caches' \in [Paths -> Cache] /\ caches'[n] = c
        /\ \A p \in Paths : p # n => caches'[p] = caches[p]
    BY <1>1, <1>2, <1>3 DEF TypeOK
  <1>5. ASSUME NEW p \in Paths
        PROVE  Sound(caches[p])' /\ (caches'[p].live <=> Users(p)' # {})
    <2>1. Sound(caches[p])'
      BY <1>1, <1>3, <1>4, SameSound DEF Inv
    <2>2. Users(p)' = Users(p)
      BY <1>1, HandlesSame
    <2> QED BY <1>3, <1>4, <2>1, <2>2 DEF Inv, UsedCachesLive
  <1>6. FileHasOneCipher' /\ AttachedIsOpen'
    BY <1>1 DEF Inv, FileHasOneCipher, AttachedIsOpen
  <1> QED BY <1>1, <1>4, <1>5, <1>6, Kept DEF TypeOK

LEMMA WriteInv ==
    ASSUME Inv, NEW h \in Handles, Write(h)
    PROVE  Inv'
  <1> DEFINE n == handles[h].path
             d == caches[n]
             c == [d EXCEPT !.used = TRUE]
  <1>1. /\ n # NoPath /\ CanWrite(d, n) /\ caches' = [caches EXCEPT ![n] = c]
        /\ written' = d.file /\ UNCHANGED <<handles, named>> /\ TypeOK
    BY DEF Write, Inv
  <1>2. /\ n \in Paths /\ d.live /\ d \in Cache /\ Sound(d)
        /\ d.file \in Inodes /\ d.cipher \in Cipher
    BY <1>1, OpenIsUser DEF Sound
  <1>3. /\ c \in Cache /\ c.live = d.live /\ c.file = d.file /\ c.cipher = d.cipher
        /\ c.failed = d.failed
    BY <1>2 DEF Cache
  <1>4. PICK W \in Written(d) : ciphers' = [ciphers EXCEPT ![d.file] = W]
    BY DEF Write
  <1> HIDE DEF c, d, n
  <1>5. ~d.failed /\ ciphers[d.file] \subseteq {d.cipher}
    BY <1>1 DEF CanWrite, Decrypts
  <1>6. ciphers' = [ciphers EXCEPT ![d.file] = {d.cipher}]
    BY <1>4, <1>5, WrittenIs
  <1>7. /\ ciphers' \in [Inodes -> SUBSET Cipher] /\ FileHasOneCipher'
        /\ \A x : Sound(x) => Sound(x)'
        /\ ciphers'[d.file] = {d.cipher}
    BY <1>2, <1>5, <1>6, WrittenSound
  <1>8. /\ caches' \in [Paths -> Cache] /\ caches'[n] = c
        /\ \A p \in Paths : p # n => caches'[p] = caches[p]
    BY <1>1, <1>2, <1>3 DEF TypeOK
  <1>9. ASSUME NEW p \in Paths, p = n
        PROVE  Sound(caches[p])'
    <2>1. caches'[p] = c /\ ciphers'[c.file] = {c.cipher}
      BY <1>3, <1>7, <1>8, <1>9
    <2> QED BY <1>2, <1>3, <1>5, <2>1 DEF Sound
  <1>10. ASSUME NEW p \in Paths
         PROVE  Sound(caches[p])' /\ (caches'[p].live <=> Users(p)' # {})
    <2>1. Sound(caches[p])'
      BY <1>7, <1>8, <1>9 DEF Inv
    <2>2. Users(p)' = Users(p)
      BY <1>1, HandlesSame
    <2>3. caches'[p].live = caches[p].live
      BY <1>3, <1>8 DEF d
    <2> QED BY <2>1, <2>2, <2>3 DEF Inv, UsedCachesLive
  <1>11. AttachedIsOpen'
    BY <1>1 DEF Inv, AttachedIsOpen
  <1> QED BY <1>1, <1>2, <1>7, <1>8, <1>10, <1>11, Kept DEF TypeOK

LEMMA CloseInv ==
    ASSUME Inv, NEW h \in Handles, Close(h)
    PROVE  Inv'
  <1> DEFINE n == handles[h].path
  <1>1. /\ handles' = [handles EXCEPT ![h] = NoHandle]
        /\ caches' = [p \in Paths |->
               IF p = n \/ (p = Temp /\ handles[h].attached)
               THEN Left(p, h, caches[p]) ELSE caches[p]]
        /\ written' = NoFile /\ UNCHANGED <<named, ciphers>> /\ TypeOK /\ AttachedIsOpen
    BY DEF Close, Inv
  <1>2. /\ handles' \in [Handles -> Handle] /\ AttachedIsOpen'
        /\ \A p \in Paths : Users(p)' = Users(p) \ {h}
    BY <1>1, HandleClosed
  <1>3. ASSUME NEW p \in Paths
        PROVE  /\ caches'[p] \in Cache /\ Sound(caches[p])'
               /\ caches'[p].live <=> Users(p)' # {}
    <2>1. caches[p] \in Cache /\ Sound(caches[p]) /\ (caches[p].live <=> Users(p) # {})
      BY DEF Inv, TypeOK, UsedCachesLive
    <2>2. h \in Users(p) <=> (p = n \/ (p = Temp /\ handles[h].attached))
      BY PathsDiffer DEF Users
    <2>3. caches'[p] = IF h \in Users(p) THEN Left(p, h, caches[p]) ELSE caches[p]
      BY <1>1, <2>2
    <2>4. CASE h \in Users(p) /\ Users(p) \subseteq {h}
      <3>1. caches'[p] = NoCache /\ Users(p)' = {}
        BY <1>2, <2>3, <2>4 DEF Left
      <3>2. Sound(NoCache)'
        BY <1>1, NoCacheSound, SameSound
      <3> QED BY <3>1, <3>2, NoCacheSound
    <2>5. CASE ~(h \in Users(p) /\ Users(p) \subseteq {h})
      <3>1. caches'[p] = caches[p] /\ (Users(p)' # {} <=> Users(p) # {})
        BY <1>2, <2>3, <2>5 DEF Left
      <3>2. Sound(caches[p]) => Sound(caches[p])'
        BY <1>1, <3>1, SameSound
      <3> QED BY <2>1, <3>1, <3>2
    <2> QED BY <2>4, <2>5
  <1>4. caches' \in [Paths -> Cache]
    BY <1>1, <1>3
  <1>5. FileHasOneCipher'
    BY <1>1 DEF Inv, FileHasOneCipher
  <1> QED BY <1>1, <1>2, <1>3, <1>4, <1>5, Kept DEF TypeOK

LEMMA RemoveInv ==
    ASSUME Inv, NEW n \in Names, Remove(n)
    PROVE  Inv'
  <1>1. /\ named' = [named EXCEPT ![n] = NoFile] /\ written' = NoFile
        /\ UNCHANGED <<caches, handles, ciphers>> /\ TypeOK
    BY DEF Remove, Inv
  <1>2. named' \in [Paths -> Inodes \cup {NoFile}]
    BY <1>1 DEF TypeOK
  <1>3. \A p \in Paths : Sound(caches[p])' /\ (caches'[p].live <=> Users(p)' # {})
    BY <1>1, SameSound, HandlesSame DEF Inv, UsedCachesLive
  <1>4. FileHasOneCipher' /\ AttachedIsOpen'
    BY <1>1 DEF Inv, FileHasOneCipher, AttachedIsOpen
  <1> QED BY <1>1, <1>2, <1>3, <1>4, Kept DEF TypeOK

LEMMA InstallInv ==
    ASSUME Inv, NEW n \in Names, NEW k \in Keys, Install(n, k)
    PROVE  Inv'
  <1> DEFINE x == [key |-> k, params |-> LibraryParams]
  <1>1. PICK i \in Inodes :
          /\ Free(i) /\ named' = [named EXCEPT ![n] = i]
          /\ ciphers' = [ciphers EXCEPT ![i] = {x}]
    BY DEF Install
  <1>2. written' = NoFile /\ UNCHANGED <<caches, handles>> /\ TypeOK
    BY DEF Install, Inv
  <1>3. x \in Cipher
    BY ParamsAssumption DEF Cipher
  <1> HIDE DEF x
  <1>4. /\ ciphers' \in [Inodes -> SUBSET Cipher] /\ FileHasOneCipher'
        /\ \A d : Sound(d) => Sound(d)'
    BY <1>1, <1>3, WrittenSound DEF Free
  <1>5. named' \in [Paths -> Inodes \cup {NoFile}]
    BY <1>1, <1>2 DEF TypeOK
  <1>6. \A p \in Paths : Sound(caches[p])' /\ (caches'[p].live <=> Users(p)' # {})
    BY <1>2, <1>4, HandlesSame DEF Inv, UsedCachesLive
  <1>7. AttachedIsOpen'
    BY <1>2 DEF Inv, AttachedIsOpen
  <1> QED BY <1>2, <1>4, <1>5, <1>6, <1>7, Kept DEF TypeOK

LEMMA RestartInv ==
    ASSUME Inv, Restart
    PROVE  Inv'
  <1>1. /\ caches' = [p \in Paths |-> NoCache] /\ handles' = [h \in Handles |-> NoHandle]
        /\ written' = NoFile /\ UNCHANGED <<named, ciphers>> /\ TypeOK
    BY DEF Restart, Inv
  <1>2. NoHandle \in Handle /\ NoHandle.path = NoPath /\ NoHandle.attached = FALSE
    BY DEF NoHandle, Handle
  <1>3. handles' \in [Handles -> Handle] /\ caches' \in [Paths -> Cache] /\ AttachedIsOpen'
    BY <1>1, <1>2, NoCacheSound DEF AttachedIsOpen
  <1>4. \A p \in Paths : Users(p)' = {}
    BY <1>1, <1>2, PathsDiffer DEF Users
  <1>5. \A p \in Paths : Sound(caches[p])' /\ (caches'[p].live <=> Users(p)' # {})
    BY <1>1, <1>4, NoCacheSound, SameSound
  <1>6. FileHasOneCipher'
    BY <1>1 DEF Inv, FileHasOneCipher
  <1> QED BY <1>1, <1>3, <1>5, <1>6, Kept DEF TypeOK

-----------------------------------------------------------------------------
(* A migration.  Its source and target are caches that live, of two files. *)
Ready(c, i) ==
    c \in Cache /\ c.live = TRUE /\ c.file = i /\ c.cipher \in Cipher /\ Sound(c)

LEMMA SourceReady ==
    ASSUME Inv, NEW n \in Names, NEW i \in Inodes, FileFor(n, i),
           NEW k \in Keys, NEW old \in Params, NEW params \in Params
    PROVE  /\ Ready(Source(n, i, k, old, params), i)
           /\ Ready(AfterRead(Source(n, i, k, old, params)), i)
  <1> DEFINE c == Source(n, i, k, old, params)
  <1>1. /\ c \in Cache /\ c.live = TRUE /\ c.file = i /\ c.cipher \in Cipher /\ Sound(c)
    BY SourceSound
  <1> HIDE DEF c
  <1>2. /\ AfterRead(c) \in Cache /\ AfterRead(c).live = c.live
        /\ AfterRead(c).file = c.file /\ AfterRead(c).cipher = c.cipher
        /\ Sound(AfterRead(c))
    BY <1>1, AfterReadSound
  <1>3. Ready(c, i) /\ Ready(AfterRead(c), i)
    BY <1>1, <1>2 DEF Ready
  <1> QED BY <1>3 DEF c

LEMMA TargetReady ==
    ASSUME Inv, NEW j \in Inodes, FileFor(Temp, j),
           NEW k \in Keys, NEW old \in Params, NEW params \in Params
    PROVE  /\ Ready(Target(j, k, old, params), j)
           /\ Ready(AfterRead(Target(j, k, old, params)), j)
  <1> DEFINE c == Target(j, k, old, params)
  <1>1. /\ c \in Cache /\ c.live = TRUE /\ c.file = j /\ c.cipher \in Cipher /\ Sound(c)
    BY OpenedSound, PathsDiffer DEF Target
  <1> HIDE DEF c
  <1>2. /\ AfterRead(c) \in Cache /\ AfterRead(c).live = c.live
        /\ AfterRead(c).file = c.file /\ AfterRead(c).cipher = c.cipher
        /\ Sound(AfterRead(c))
    BY <1>1, AfterReadSound
  <1>3. Ready(c, j) /\ Ready(AfterRead(c), j)
    BY <1>1, <1>2 DEF Ready
  <1> QED BY <1>3 DEF c

(* What an export leaves of the pages of its target. *)
LEMMA ExportedSound ==
    ASSUME Inv, NEW source, NEW target, NEW j \in Inodes,
           target.file = j, target.cipher \in Cipher, Decrypts(target),
           NEW W \in Exported(source, target), ciphers' = [ciphers EXCEPT ![j] = W]
    PROVE  /\ ciphers' \in [Inodes -> SUBSET Cipher] /\ FileHasOneCipher'
           /\ \A d : Sound(d) => Sound(d)'
           /\ ciphers'[j] = W /\ W \subseteq {target.cipher}
           /\ \A i \in Inodes : i # j => ciphers'[i] = ciphers[i]
  <1>1. ciphers[j] \subseteq {target.cipher} /\ ciphers \in [Inodes -> SUBSET Cipher]
    BY DEF Decrypts, Inv, TypeOK
  <1>2. CASE ciphers[source.file] = {}
    <2>1. W = ciphers[j]
      BY <1>2 DEF Exported
    <2>2. ciphers' = ciphers
      BY <1>1, <2>1
    <2>3. FileHasOneCipher'
      BY <2>2 DEF Inv, FileHasOneCipher
    <2> QED BY <1>1, <2>1, <2>2, <2>3, SameSound
  <1>3. CASE ciphers[source.file] # {}
    <2>1. W = {target.cipher}
      BY <1>1, <1>3, WrittenIs DEF Exported
    <2> QED BY <1>1, <2>1, WrittenSound
  <1> QED BY <1>2, <1>3

(* Caches that a migration of n leaves. *)
LEMMA CachesAfter ==
    ASSUME Inv, NEW n \in Names, NEW c \in Cache, NEW d \in Cache,
           caches' = [caches EXCEPT ![n] = c, ![Temp] = d]
    PROVE  /\ caches' \in [Paths -> Cache] /\ caches'[n] = c /\ caches'[Temp] = d
           /\ \A p \in Names : p # n => caches'[p] = caches[p]
  BY PathsDiffer DEF Inv, TypeOK

LEMMA MigrateInv ==
    ASSUME Inv, NEW h \in Handles, NEW n \in Names, NEW k \in Keys,
           NEW old \in Params, NEW params \in Params, Migrate(h, n, k, old, params)
    PROVE  Inv'
  <1>0. PICK i \in Inodes, j \in Inodes :
         LET source == Source(n, i, k, old, params)
             target == Target(j, k, old, params)
         IN  /\ FileFor(n, i) /\ FileFor(Temp, j) /\ i # j
             /\ Decrypts(source) /\ Decrypts(target) /\ CanExport(source, target)
             /\ Creates(Temp) \/ named[Temp] # NoFile
             /\ named' = [named EXCEPT ![n] = IF Creates(Temp) THEN j ELSE named[Temp],
                                       ![Temp] = NoFile]
             /\ \E W \in Exported(source, target) :
                    ciphers' = [ciphers EXCEPT ![j] = W]
             /\ written' = IF ciphers[source.file] = {} THEN NoFile ELSE j
             /\ caches' = [caches EXCEPT
                    ![n] = IF Users(n) = {} THEN NewCache(named'[n], k, params)
                           ELSE AfterRead(source),
                    ![Temp] = After(Temp, [target EXCEPT !.used = ciphers'[j] # {}])]
    BY DEF Migrate
  <1> DEFINE source == Source(n, i, k, old, params)
             target == Target(j, k, old, params)
             opened == IF Users(n) = {} THEN NewCache(named'[n], k, params)
                       ELSE AfterRead(source)
             exported == [target EXCEPT !.used = ciphers'[j] # {}]
  <1>1. /\ source \in Cache /\ source.live = TRUE /\ source.file = i /\ Sound(source)
        /\ target \in Cache /\ target.live = TRUE /\ target.file = j
        /\ target.cipher \in Cipher
        /\ AfterRead(source) \in Cache /\ AfterRead(source).live = TRUE
        /\ AfterRead(source).file = i /\ Sound(AfterRead(source))
    <2>1. FileFor(n, i) /\ FileFor(Temp, j)
      BY <1>0
    <2>2. Ready(source, i) /\ Ready(AfterRead(source), i)
      BY <2>1, SourceReady
    <2>3. Ready(target, j) /\ Ready(AfterRead(target), j)
      BY <2>1, TargetReady
    <2> HIDE DEF source, target
    <2> QED BY <2>2, <2>3 DEF Ready
  <1>2. /\ Decrypts(target) /\ i # j
        /\ written' = IF ciphers[source.file] = {} THEN NoFile ELSE j
        /\ caches' = [caches EXCEPT ![n] = opened, ![Temp] = After(Temp, exported)]
    BY <1>0
  <1>3. PICK W \in Exported(source, target) : ciphers' = [ciphers EXCEPT ![j] = W]
    BY <1>0
  <1>4. /\ TypeOK /\ AttachedIsOpen /\ handles[h].path = NoPath
        /\ handles' = [handles EXCEPT ![h] = [path |-> n, attached |-> FALSE]]
    BY DEF Migrate, Inv
  <1>5. named'[n] \in Inodes /\ named' \in [Paths -> Inodes \cup {NoFile}]
    <2>1. (IF Creates(Temp) THEN j ELSE named[Temp]) \in Inodes
      BY <1>0, <1>4, PathsDiffer DEF TypeOK
    <2> QED BY <1>0, <1>4, <2>1, PathsDiffer DEF TypeOK
  <1> HIDE DEF source, target
  <1>6. /\ ciphers' \in [Inodes -> SUBSET Cipher] /\ FileHasOneCipher'
        /\ \A d : Sound(d) => Sound(d)'
        /\ ciphers'[j] = W /\ W \subseteq {target.cipher}
    BY <1>1, <1>2, <1>3, ExportedSound
  <1>7. /\ exported \in Cache /\ exported.live = TRUE /\ exported.file = j
        /\ exported.cipher = target.cipher /\ ~exported.failed
        /\ exported.used => ciphers'[j] = {exported.cipher}
    <2>1. ~target.failed /\ ciphers'[j] \subseteq {target.cipher} /\ target.file \in Inodes
      BY <1>1, <1>2, <1>6 DEF Decrypts
    <2>2. exported = [target EXCEPT !.used = ciphers'[j] # {}]
      OBVIOUS
    <2> HIDE DEF exported
    <2>3. exported \in Cache
      BY <1>1, <2>2 DEF Cache
    <2>4. /\ exported.live = TRUE /\ exported.file = j /\ exported.cipher = target.cipher
          /\ exported.failed = target.failed /\ exported.used = (ciphers'[j] # {})
      BY <1>1, <2>2 DEF Cache
    <2> QED BY <2>1, <2>3, <2>4
  <1>8. /\ opened \in Cache /\ opened.live = TRUE
        /\ \/ opened = AfterRead(source)
           \/ opened.file \in Inodes /\ opened.cipher \in Cipher /\ ~opened.used
    <2>1. CASE Users(n) = {}
      <3>1. opened = NewCache(named'[n], k, params)
        BY <2>1
      <3> HIDE DEF opened
      <3> QED BY <1>5, <3>1, NewCacheSound
    <2>2. CASE Users(n) # {}
      BY <1>1, <2>2
    <2> QED BY <2>1, <2>2
  <1> HIDE DEF opened, exported
  <1>9. After(Temp, exported) = IF Users(Temp) = {} THEN NoCache ELSE exported
    BY DEF After
  <1>10. /\ caches' \in [Paths -> Cache] /\ caches'[n] = opened
         /\ caches'[Temp] = After(Temp, exported)
         /\ \A p \in Names : p # n => caches'[p] = caches[p]
    <2>1. After(Temp, exported) \in Cache
      BY <1>7, <1>9, NoCacheSound
    <2>2. opened \in Cache
      BY <1>8
    <2> QED BY <1>2, <2>1, <2>2, CachesAfter
  <1>11. /\ handles' \in [Handles -> Handle] /\ AttachedIsOpen'
         /\ Users(n)' # {} /\ Users(Temp)' = Users(Temp)
         /\ \A p \in Names : p # n => Users(p)' = Users(p)
    BY <1>4, HandleOpened
  <1>12. ASSUME NEW p \in Paths
         PROVE  Sound(caches[p])' /\ (caches'[p].live <=> Users(p)' # {})
    <2>1. CASE p = n
      <3>1. Sound(caches[p])'
        <4>1. CASE opened = AfterRead(source)
          BY <1>1, <1>6, <1>10, <2>1, <4>1
        <4>2. CASE opened.file \in Inodes /\ opened.cipher \in Cipher /\ ~opened.used
          BY <1>10, <2>1, <4>2 DEF Sound
        <4> QED BY <1>8, <4>1, <4>2
      <3> QED BY <1>8, <1>10, <1>11, <2>1, <3>1
    <2>2. CASE p = Temp /\ Users(Temp) = {}
      BY <1>6, <1>9, <1>10, <1>11, <2>2, NoCacheSound
    <2>3. CASE p = Temp /\ Users(Temp) # {}
      <3>1. caches'[p] = exported
        BY <1>9, <1>10, <2>3
      <3>2. Sound(caches[p])'
        BY <1>1, <1>7, <3>1 DEF Sound
      <3> QED BY <1>7, <1>11, <2>3, <3>1, <3>2
    <2>4. CASE p # n /\ p # Temp
      <3>1. p \in Names
        BY <2>4 DEF Paths
      <3>2. Sound(caches[p])'
        BY <1>6, <1>10, <2>4, <3>1 DEF Inv
      <3> QED BY <1>10, <1>11, <2>4, <3>1, <3>2 DEF Inv, UsedCachesLive
    <2> QED BY <2>1, <2>2, <2>3, <2>4
  <1>13. written' \in Inodes \cup {NoFile}
    BY <1>2
  <1> QED BY <1>5, <1>6, <1>10, <1>11, <1>12, <1>13, Kept

LEMMA MigrateUnreadInv ==
    ASSUME Inv, NEW h \in Handles, NEW n \in Names, NEW k \in Keys,
           NEW old \in Params, NEW params \in Params, MigrateUnread(h, n, k, old, params)
    PROVE  Inv'
  <1>0. PICK i \in Inodes, j \in Inodes :
         LET source == Source(n, i, k, old, params)
             target == Target(j, k, old, params)
         IN  /\ FileFor(n, i) /\ FileFor(Temp, j) /\ i # j
             /\ ~Decrypts(source) \/ ~Decrypts(target)
             /\ named' = IF Creates(n) THEN [named EXCEPT ![n] = i] ELSE named
             /\ caches' = [caches EXCEPT
                    ![n] = AfterRead(source),
                    ![Temp] = IF Decrypts(source) THEN After(Temp, AfterRead(target))
                              ELSE @]
    BY DEF MigrateUnread
  <1> DEFINE source == Source(n, i, k, old, params)
             target == Target(j, k, old, params)
             read == AfterRead(source)
             left == IF Decrypts(source) THEN After(Temp, AfterRead(target))
                     ELSE caches[Temp]
  <1>1. /\ read \in Cache /\ read.live = TRUE /\ Sound(read)
        /\ AfterRead(target) \in Cache /\ AfterRead(target).live = TRUE
        /\ Sound(AfterRead(target))
    <2>1. FileFor(n, i) /\ FileFor(Temp, j)
      BY <1>0
    <2>2. Ready(source, i) /\ Ready(AfterRead(source), i)
      BY <2>1, SourceReady
    <2>3. Ready(target, j) /\ Ready(AfterRead(target), j)
      BY <2>1, TargetReady
    <2> HIDE DEF source, target
    <2> QED BY <2>2, <2>3 DEF Ready
  <1>2. /\ TypeOK /\ AttachedIsOpen /\ handles[h].path = NoPath
        /\ handles' = [handles EXCEPT ![h] = [path |-> n, attached |-> FALSE]]
        /\ written' = NoFile /\ UNCHANGED ciphers
    BY DEF MigrateUnread, Inv
  <1>3. caches' = [caches EXCEPT ![n] = read, ![Temp] = left]
    BY <1>0, PathsDiffer, <1>2 DEF TypeOK
  <1>4. named' \in [Paths -> Inodes \cup {NoFile}]
    BY <1>0, <1>2, PathsDiffer DEF TypeOK
  <1>5. /\ handles' \in [Handles -> Handle] /\ AttachedIsOpen'
        /\ Users(n)' # {} /\ Users(Temp)' = Users(Temp)
        /\ \A p \in Names : p # n => Users(p)' = Users(p)
    BY <1>2, HandleOpened
  <1>6. /\ caches[Temp] \in Cache /\ Sound(caches[Temp])
        /\ caches[Temp].live <=> Users(Temp) # {}
    BY PathsDiffer DEF Inv, TypeOK, UsedCachesLive
  <1> HIDE DEF source, target, read
  <1>7. left \in Cache /\ Sound(left) /\ (left.live <=> Users(Temp) # {})
    BY <1>1, <1>6, NoCacheSound DEF After
  <1> HIDE DEF left
  <1>8. /\ caches' \in [Paths -> Cache] /\ caches'[n] = read /\ caches'[Temp] = left
        /\ \A p \in Names : p # n => caches'[p] = caches[p]
    BY <1>1, <1>3, <1>7, CachesAfter
  <1>9. ASSUME NEW p \in Paths
        PROVE  Sound(caches[p])' /\ (caches'[p].live <=> Users(p)' # {})
    <2>1. CASE p = n
      BY <1>1, <1>2, <1>5, <1>8, <2>1, SameSound
    <2>2. CASE p = Temp
      BY <1>2, <1>5, <1>7, <1>8, <2>2, SameSound
    <2>3. CASE p # n /\ p # Temp
      <3>1. p \in Names
        BY <2>3 DEF Paths
      <3>2. Sound(caches[p])'
        BY <1>2, <1>8, <2>3, <3>1, SameSound DEF Inv
      <3> QED BY <1>5, <1>8, <2>3, <3>1, <3>2 DEF Inv, UsedCachesLive
    <2> QED BY <2>1, <2>2, <2>3
  <1>10. FileHasOneCipher' /\ ciphers' \in [Inodes -> SUBSET Cipher]
    BY <1>2 DEF Inv, FileHasOneCipher, TypeOK
  <1> QED BY <1>2, <1>4, <1>5, <1>8, <1>9, <1>10, Kept

LEMMA MigrateStopsInv ==
    ASSUME Inv, NEW h \in Handles, NEW n \in Names, NEW k \in Keys,
           NEW old \in Params, NEW params \in Params, MigrateStops(h, n, k, old, params)
    PROVE  Inv'
  <1>0. PICK i \in Inodes, j \in Inodes :
         LET source == Source(n, i, k, old, params)
             target == Target(j, k, old, params)
         IN  /\ FileFor(n, i) /\ FileFor(Temp, j) /\ i # j
             /\ Decrypts(source) /\ Decrypts(target)
             /\ named' = [p \in Paths |->
                    IF p = n /\ Creates(n) THEN i
                    ELSE IF p = Temp /\ Creates(Temp) THEN j ELSE named[p]]
             /\ \/ ciphers' = ciphers /\ written' = NoFile
                \/ /\ CanExport(source, target) /\ ciphers[source.file] # {}
                   /\ \E W \in Written(target) : ciphers' = [ciphers EXCEPT ![j] = W]
                   /\ written' = j
             /\ caches' = [caches EXCEPT
                    ![n] = AfterRead(source),
                    ![Temp] = [target EXCEPT !.used = ciphers'[j] # {}]]
    BY DEF MigrateStops
  <1> DEFINE source == Source(n, i, k, old, params)
             target == Target(j, k, old, params)
             exported == [target EXCEPT !.used = ciphers'[j] # {}]
  <1>1. /\ target \in Cache /\ target.live = TRUE /\ target.file = j
        /\ target.cipher \in Cipher
        /\ AfterRead(source) \in Cache /\ AfterRead(source).live = TRUE
        /\ Sound(AfterRead(source))
    <2>1. FileFor(n, i) /\ FileFor(Temp, j)
      BY <1>0
    <2>2. Ready(source, i) /\ Ready(AfterRead(source), i)
      BY <2>1, SourceReady
    <2>3. Ready(target, j) /\ Ready(AfterRead(target), j)
      BY <2>1, TargetReady
    <2> HIDE DEF source, target
    <2> QED BY <2>2, <2>3 DEF Ready
  <1>2. /\ Decrypts(target)
        /\ caches' = [caches EXCEPT ![n] = AfterRead(source), ![Temp] = exported]
        /\ \/ ciphers' = ciphers /\ written' = NoFile
           \/ /\ written' = j
              /\ \E W \in Written(target) : ciphers' = [ciphers EXCEPT ![j] = W]
    BY <1>0
  <1>3. /\ TypeOK /\ AttachedIsOpen /\ handles[h].path = NoPath
        /\ handles' = [handles EXCEPT ![h] = [path |-> n, attached |-> TRUE]]
    BY DEF MigrateStops, Inv
  <1>4. named' \in [Paths -> Inodes \cup {NoFile}]
    BY <1>0, <1>3 DEF TypeOK
  <1> HIDE DEF source, target
  <1>5. ciphers[j] \subseteq {target.cipher} /\ ~target.failed
    BY <1>1, <1>2 DEF Decrypts
  <1>6. /\ ciphers' \in [Inodes -> SUBSET Cipher] /\ FileHasOneCipher'
        /\ \A d : Sound(d) => Sound(d)'
        /\ ciphers'[j] \subseteq {target.cipher}
    <2>1. CASE ciphers' = ciphers
      BY <1>5, <2>1, SameSound DEF Inv, TypeOK, FileHasOneCipher
    <2>2. CASE \E W \in Written(target) : ciphers' = [ciphers EXCEPT ![j] = W]
      <3>1. ciphers' = [ciphers EXCEPT ![j] = {target.cipher}]
        BY <1>1, <1>5, <2>2, WrittenIs
      <3> QED BY <1>1, <1>5, <3>1, WrittenSound
    <2> QED BY <1>2, <2>1, <2>2
  <1>7. /\ exported \in Cache /\ exported.live = TRUE /\ exported.file = j
        /\ exported.cipher = target.cipher /\ ~exported.failed
        /\ exported.used => ciphers'[j] = {exported.cipher}
    <2>1. exported = [target EXCEPT !.used = ciphers'[j] # {}]
      OBVIOUS
    <2> HIDE DEF exported
    <2>2. exported \in Cache
      BY <1>1, <2>1 DEF Cache
    <2>3. /\ exported.live = TRUE /\ exported.file = j /\ exported.cipher = target.cipher
          /\ exported.failed = target.failed /\ exported.used = (ciphers'[j] # {})
      BY <1>1, <2>1 DEF Cache
    <2> QED BY <1>5, <1>6, <2>2, <2>3
  <1> HIDE DEF exported
  <1>8. /\ caches' \in [Paths -> Cache] /\ caches'[n] = AfterRead(source)
        /\ caches'[Temp] = exported
        /\ \A p \in Names : p # n => caches'[p] = caches[p]
    <2>1. AfterRead(source) \in Cache /\ exported \in Cache
      BY <1>1, <1>7
    <2> QED BY <1>2, <2>1, CachesAfter
  <1>9. /\ handles' \in [Handles -> Handle] /\ AttachedIsOpen'
        /\ Users(n)' # {} /\ Users(Temp)' # {}
        /\ \A p \in Names : p # n => Users(p)' = Users(p)
    BY <1>3, HandleOpened
  <1>10. ASSUME NEW p \in Paths
         PROVE  Sound(caches[p])' /\ (caches'[p].live <=> Users(p)' # {})
    <2>1. CASE p = n
      BY <1>1, <1>6, <1>8, <1>9, <2>1
    <2>2. CASE p = Temp
      <3>1. Sound(caches[p])'
        BY <1>1, <1>7, <1>8, <2>2 DEF Sound
      <3> QED BY <1>7, <1>8, <1>9, <2>2, <3>1
    <2>3. CASE p # n /\ p # Temp
      <3>1. p \in Names
        BY <2>3 DEF Paths
      <3>2. Sound(caches[p])'
        BY <1>6, <1>8, <2>3, <3>1 DEF Inv
      <3> QED BY <1>8, <1>9, <2>3, <3>1, <3>2 DEF Inv, UsedCachesLive
    <2> QED BY <2>1, <2>2, <2>3
  <1>11. written' \in Inodes \cup {NoFile}
    BY <1>2
  <1> QED BY <1>4, <1>6, <1>8, <1>9, <1>10, <1>11, Kept

LEMMA MigrateLosesNameInv ==
    ASSUME Inv, NEW h \in Handles, NEW n \in Names, NEW k \in Keys,
           NEW old \in Params, NEW params \in Params,
           MigrateLosesName(h, n, k, old, params)
    PROVE  Inv'
  <1>0. PICK i \in Inodes :
         LET source == Source(n, i, k, old, params)
             target == caches[Temp]
         IN  /\ FileFor(n, i) /\ i # target.file
             /\ Decrypts(source) /\ Decrypts(target) /\ CanExport(source, target)
             /\ named' = [named EXCEPT ![n] = NoFile]
             /\ \E W \in Exported(source, target) :
                    ciphers' = [ciphers EXCEPT ![target.file] = W]
             /\ written' = IF ciphers[source.file] = {} THEN NoFile ELSE target.file
             /\ caches' = [caches EXCEPT
                    ![n] = After(n, AfterRead(source)),
                    ![Temp] = [target EXCEPT !.used = ciphers'[target.file] # {}]]
    BY DEF MigrateLosesName
  <1> DEFINE source == Source(n, i, k, old, params)
             target == caches[Temp]
             j == target.file
             exported == [target EXCEPT !.used = ciphers'[j] # {}]
  <1>1. /\ source \in Cache /\ source.live = TRUE /\ source.file = i /\ Sound(source)
    <2>1. FileFor(n, i)
      BY <1>0
    <2> QED BY <2>1, SourceSound
  <1>2. /\ UNCHANGED handles /\ target.live /\ TypeOK
    BY DEF MigrateLosesName, Inv
  <1>3. /\ Decrypts(target)
        /\ named' = [named EXCEPT ![n] = NoFile]
        /\ \E W \in Exported(source, target) : ciphers' = [ciphers EXCEPT ![j] = W]
        /\ written' = IF ciphers[source.file] = {} THEN NoFile ELSE j
        /\ caches' = [caches EXCEPT ![n] = After(n, AfterRead(source)), ![Temp] = exported]
    BY <1>0
  <1>4. /\ target \in Cache /\ target.live = TRUE /\ j \in Inodes
        /\ target.cipher \in Cipher /\ Users(Temp) # {}
    BY <1>2, PathsDiffer DEF Inv, TypeOK, Sound, UsedCachesLive, Cache
  <1> HIDE DEF source, target
  <1>5. /\ AfterRead(source) \in Cache /\ AfterRead(source).live = TRUE
        /\ Sound(AfterRead(source))
    BY <1>1, AfterReadSound
  <1> HIDE DEF j
  <1>6. j = target.file
    BY DEF j
  <1>7. PICK W \in Exported(source, target) : ciphers' = [ciphers EXCEPT ![j] = W]
    BY <1>3
  <1>8. /\ ciphers' \in [Inodes -> SUBSET Cipher] /\ FileHasOneCipher'
        /\ \A d : Sound(d) => Sound(d)'
        /\ ciphers'[j] \subseteq {target.cipher}
    BY <1>3, <1>4, <1>6, <1>7, ExportedSound
  <1>9. /\ exported \in Cache /\ exported.live = TRUE /\ exported.file = j
        /\ exported.cipher = target.cipher /\ ~exported.failed
        /\ exported.used => ciphers'[j] = {exported.cipher}
    <2>1. ~target.failed /\ target.file \in Inodes
      BY <1>3, <1>4, <1>6 DEF Decrypts
    <2>2. exported = [target EXCEPT !.used = ciphers'[j] # {}]
      OBVIOUS
    <2> HIDE DEF exported
    <2>3. exported \in Cache
      BY <1>4, <2>2 DEF Cache
    <2>4. /\ exported.live = TRUE /\ exported.file = j /\ exported.cipher = target.cipher
          /\ exported.failed = target.failed /\ exported.used = (ciphers'[j] # {})
      BY <1>4, <1>6, <2>2 DEF Cache
    <2> QED BY <1>8, <2>1, <2>3, <2>4
  <1> HIDE DEF exported
  <1>10. After(n, AfterRead(source)) = IF Users(n) = {} THEN NoCache ELSE AfterRead(source)
    BY DEF After
  <1>11. /\ caches' \in [Paths -> Cache] /\ caches'[n] = After(n, AfterRead(source))
         /\ caches'[Temp] = exported
         /\ \A p \in Names : p # n => caches'[p] = caches[p]
    <2>1. After(n, AfterRead(source)) \in Cache
      BY <1>5, <1>10, NoCacheSound
    <2>2. exported \in Cache
      BY <1>9
    <2> QED BY <1>3, <2>1, <2>2, CachesAfter
  <1>12. ASSUME NEW p \in Paths
         PROVE  Sound(caches[p])' /\ (caches'[p].live <=> Users(p)' # {})
    <2>1. Users(p)' = Users(p)
      BY <1>2, HandlesSame
    <2>2. CASE p = n /\ Users(n) = {}
      BY <1>8, <1>10, <1>11, <2>1, <2>2, NoCacheSound
    <2>3. CASE p = n /\ Users(n) # {}
      BY <1>5, <1>8, <1>10, <1>11, <2>1, <2>3
    <2>4. CASE p = Temp
      <3>1. Sound(caches[p])'
        BY <1>4, <1>9, <1>11, <2>4 DEF Sound
      <3> QED BY <1>4, <1>9, <1>11, <2>1, <2>4, <3>1
    <2>5. CASE p # n /\ p # Temp
      <3>1. p \in Names
        BY <2>5 DEF Paths
      <3>2. Sound(caches[p])'
        BY <1>8, <1>11, <2>5, <3>1 DEF Inv
      <3> QED BY <1>11, <2>1, <2>5, <3>1, <3>2 DEF Inv, UsedCachesLive
    <2> QED BY <2>2, <2>3, <2>4, <2>5
  <1>13. /\ named' \in [Paths -> Inodes \cup {NoFile}] /\ written' \in Inodes \cup {NoFile}
         /\ handles' \in [Handles -> Handle] /\ AttachedIsOpen'
    BY <1>2, <1>3, <1>4 DEF TypeOK, Inv, AttachedIsOpen
  <1> QED BY <1>8, <1>11, <1>12, <1>13, Kept

LEMMA NextInv == Inv /\ [Next]_vars => Inv'
  <1> SUFFICES ASSUME Inv, [Next]_vars
               PROVE  Inv'
    OBVIOUS
  <1>1. CASE \E h \in Handles : Read(h) \/ Write(h) \/ Close(h)
    BY <1>1, ReadInv, WriteInv, CloseInv
  <1>2. ASSUME NEW h \in Handles, NEW n \in Names, NEW k \in Keys, NEW params \in Params,
               \/ Open(h, n, k, params)
               \/ \E old \in Params : \/ Migrate(h, n, k, old, params)
                                      \/ MigrateUnread(h, n, k, old, params)
                                      \/ MigrateStops(h, n, k, old, params)
                                      \/ MigrateLosesName(h, n, k, old, params)
        PROVE  Inv'
    BY <1>2, OpenInv, MigrateInv, MigrateUnreadInv, MigrateStopsInv, MigrateLosesNameInv
  <1>3. CASE \E n \in Names : Remove(n) \/ \E k \in Keys : Install(n, k)
    BY <1>3, RemoveInv, InstallInv
  <1>4. CASE Restart
    BY <1>4, RestartInv
  <1>5. CASE UNCHANGED vars
    BY <1>5 DEF vars, Inv, TypeOK, UsedCachesLive, Users, AttachedIsOpen, FileHasOneCipher, Sound
  <1> QED BY <1>1, <1>2, <1>3, <1>4, <1>5 DEF Next

LEMMA Invariance == Spec => []Inv
  BY InitInv, NextInv, PTL DEF Spec

-----------------------------------------------------------------------------
(* Every variable keeps its type. *)
THEOREM TypeCorrect == Spec => []TypeOK
  <1>1. Inv => TypeOK
    BY DEF Inv
  <1> QED BY <1>1, Invariance, PTL

(* No interleaving of connections with different passwords and settings,   *)
(* removals, installations and migrations writes a file under two ciphers. *)
THEOREM OneCipher == Spec => []FileHasOneCipher
  <1>1. Inv => FileHasOneCipher
    BY DEF Inv
  <1> QED BY <1>1, Invariance, PTL

(* Nor does it make a connection that has read or written its file unable  *)
(* to go on.                                                               *)
THEOREM UsedReads == Spec => []UsedContextReads
  <1>1. Inv => UsedContextReads
    BY DEF Inv, Sound, UsedContextReads
  <1> QED BY <1>1, Invariance, PTL

-----------------------------------------------------------------------------
(* What the steps do *)

(* An opening of a path that no connection uses. *)
LEMMA FirstOpening ==
    ASSUME Inv, NEW p \in Paths, Users(p) = {}, NEW i \in Inodes, FileFor(p, i)
    PROVE  /\ \A k, params : Opened(caches[p], i, k, params) = NewCache(i, k, params)
           /\ i = IF Creates(p) THEN i ELSE named[p]
  <1>1. ~caches[p].live
    BY DEF Inv, UsedCachesLive
  <1> QED BY <1>1 DEF Opened, FileFor, Creates

(* The steps that open a connection for the application. *)
LEMMA OpenedByNext ==
    ASSUME Inv, Next, NEW h \in Handles, handles[h].path = NoPath,
           handles'[h].path # NoPath
    PROVE  \E n \in Names, k \in Keys, old, params \in Params :
              /\ handles'[h].path = n
              /\ \/ Open(h, n, k, params)
                 \/ Migrate(h, n, k, old, params)
                 \/ MigrateUnread(h, n, k, old, params)
                 \/ MigrateStops(h, n, k, old, params)
  <1>1. /\ ~\E g \in Handles : Read(g) \/ Write(g)
        /\ ~\E n \in Names : Remove(n) \/ \E k \in Keys : Install(n, k)
        /\ ~\E g \in Handles, n \in Names, k \in Keys, old, params \in Params :
                MigrateLosesName(g, n, k, old, params)
    BY DEF Read, Write, Remove, Install, MigrateLosesName
  <1>2. NoHandle.path = NoPath /\ handles \in [Handles -> Handle]
    BY DEF NoHandle, Inv, TypeOK
  <1>3. ~Restart /\ ~\E g \in Handles : Close(g)
    BY <1>2 DEF Restart, Close
  <1>4. PICK g \in Handles, n \in Names, k \in Keys, params \in Params, old \in Params :
              \/ Open(g, n, k, params)
              \/ Migrate(g, n, k, old, params)
              \/ MigrateUnread(g, n, k, old, params)
              \/ MigrateStops(g, n, k, old, params)
    BY <1>1, <1>3, ParamsAssumption DEF Next
  <1>5. \E a \in BOOLEAN : handles' = [handles EXCEPT ![g] = [path |-> n, attached |-> a]]
    BY <1>4 DEF Open, Migrate, MigrateUnread, MigrateStops
  <1>6. g = h /\ handles'[h].path = n
    BY <1>2, <1>5
  <1> QED BY <1>4, <1>6

LEMMA FreshIsNamed ==
    ASSUME Inv, NEW h \in Handles, NEW n \in Names, NEW k \in Keys,
           NEW old \in Params, NEW params \in Params, Users(n) = {},
           \/ Open(h, n, k, params)
           \/ Migrate(h, n, k, old, params)
           \/ MigrateUnread(h, n, k, old, params)
           \/ MigrateStops(h, n, k, old, params)
    PROVE  caches'[n].file = named'[n]
  <1>1. n \in Paths /\ Temp \in Paths /\ n # Temp /\ n # NoPath
    BY PathsDiffer
  <1>2. caches \in [Paths -> Cache] /\ named \in [Paths -> Inodes \cup {NoFile}]
    BY DEF Inv, TypeOK
  <1>3. CASE Open(h, n, k, params)
    <2>1. PICK i \in Inodes :
            /\ FileFor(n, i)
            /\ caches' = [caches EXCEPT ![n] = Opened(@, i, k, params)]
            /\ named' = IF Creates(n) THEN [named EXCEPT ![n] = i] ELSE named
      BY <1>3 DEF Open
    <2>2. caches'[n] = NewCache(i, k, params) /\ named'[n] = i
      BY <1>1, <1>2, <2>1, FirstOpening
    <2> QED BY <2>2 DEF NewCache
  <1>4. CASE Migrate(h, n, k, old, params)
    <2>1. caches'[n] = NewCache(named'[n], k, params)
      BY <1>1, <1>2, <1>4 DEF Migrate
    <2> QED BY <2>1 DEF NewCache
  <1>5. CASE MigrateUnread(h, n, k, old, params) \/ MigrateStops(h, n, k, old, params)
    <2>1. PICK i \in Inodes :
            /\ FileFor(n, i)
            /\ caches'[n] = AfterRead(Source(n, i, k, old, params))
            /\ named'[n] = IF Creates(n) THEN i ELSE named[n]
      BY <1>1, <1>2, <1>5 DEF MigrateUnread, MigrateStops
    <2>2. Ready(AfterRead(Source(n, i, k, old, params)), i)
      BY <2>1, SourceReady
    <2>3. named'[n] = i
      BY <1>1, <2>1, FirstOpening
    <2> QED BY <2>1, <2>2, <2>3 DEF Ready
  <1> QED BY <1>3, <1>4, <1>5

(* A connection to a path that no other has is to the file the path leads  *)
(* to: neither remove() nor a migration leaves anything behind that a      *)
(* later open() would find.                                                *)
THEOREM FreshOpens == Spec => FreshOpenIsNamed
  <1>1. ASSUME Inv, Next,
               NEW h \in Handles, handles[h].path = NoPath,
               handles'[h].path # NoPath, Users(handles'[h].path) = {}
        PROVE  caches'[handles'[h].path].file = named'[handles'[h].path]
    BY <1>1, OpenedByNext, FreshIsNamed
  <1>2. Inv /\ [Next]_vars =>
          [\A h \in Handles :
             LET n == handles'[h].path
             IN  handles[h].path = NoPath /\ n # NoPath /\ Users(n) = {}
                    => caches'[n].file = named'[n]]_vars
    BY <1>1
  <1> QED BY <1>2, Invariance, PTL DEF Spec, FreshOpenIsNamed

-----------------------------------------------------------------------------
(* The steps that write pages of a file. *)
LEMMA WritesNamed ==
    ASSUME Inv, Next, NEW i \in Inodes, written' = i, ciphers[i] # {}
    PROVE  \E p \in Paths : named[p] = i
  <1>1. NoFile # i /\ Temp \in Paths
    BY NonesAssumption, PathsDiffer
  <1>2. CASE \E h \in Handles : Write(h)
    <2>1. PICK h \in Handles : Write(h)
      BY <1>2
    <2> DEFINE n == handles[h].path
    <2>2. n # NoPath /\ IsUnmoved(caches[n], n) /\ caches[n].file = i
      BY <2>1 DEF Write, CanWrite
    <2>3. n \in Paths
      BY <2>2, OpenIsUser
    <2> QED BY <2>2, <2>3 DEF IsUnmoved
  <1>3. ASSUME NEW h \in Handles, NEW n \in Names, NEW k \in Keys, NEW params \in Params,
               NEW old \in Params,
               Migrate(h, n, k, old, params) \/ MigrateStops(h, n, k, old, params)
        PROVE  named[Temp] = i
    <2>1. PICK j \in Inodes :
            /\ FileFor(Temp, j) /\ j = i
            /\ IsUnmoved(Target(j, k, old, params), Temp)
      BY <1>1, <1>3 DEF Migrate, MigrateStops, CanExport, CanWrite
    <2>2. Target(j, k, old, params).file = i
      <3>1. FileFor(Temp, j)
        BY <2>1
      <3>2. Ready(Target(j, k, old, params), j)
        BY <3>1, TargetReady
      <3> QED BY <2>1, <3>2 DEF Ready
    <2> QED BY <2>1, <2>2 DEF IsUnmoved
  <1>4. ASSUME NEW h \in Handles, NEW n \in Names, NEW k \in Keys, NEW params \in Params,
               NEW old \in Params, MigrateLosesName(h, n, k, old, params)
        PROVE  named[Temp] = i
    BY <1>1, <1>4 DEF MigrateLosesName, CanExport, CanWrite, IsUnmoved
  <1>5. CASE written' = NoFile
    BY <1>1, <1>5
  <1>6. \/ \E h \in Handles : Write(h)
        \/ written' = NoFile
        \/ \E h \in Handles, n \in Names, k \in Keys, params \in Params, old \in Params :
              Migrate(h, n, k, old, params) \/ MigrateStops(h, n, k, old, params)
        \/ \E h \in Handles, n \in Names, k \in Keys, params \in Params, old \in Params :
              MigrateLosesName(h, n, k, old, params)
    BY DEF Next, Open, Read, Close, Remove, Install, MigrateUnread, Restart
  <1> QED BY <1>1, <1>2, <1>3, <1>4, <1>5, <1>6

(* A write through a connection whose file was removed or replaced raises: *)
(* what was written is never in a file that no name leads to, once that    *)
(* file has pages.                                                         *)
THEOREM WritesAreNamed == Spec => NamedWritesOnly
  <1>1. Inv /\ [Next]_vars =>
          [\A i \in Inodes : written' = i /\ ciphers[i] # {} =>
               \E p \in Paths : named[p] = i]_vars
    BY WritesNamed
  <1> QED BY <1>1, Invariance, PTL DEF Spec, NamedWritesOnly

-----------------------------------------------------------------------------
(* The steps that write into a file that has pages leave its cipher. *)
LEMMA StepKeepsCipher ==
    ASSUME Inv, Next, NEW f \in Inodes, ciphers[f] # {}
    PROVE  ciphers'[f] = ciphers[f]
  <1>1. ciphers \in [Inodes -> SUBSET Cipher] /\ Temp \in Paths /\ caches \in [Paths -> Cache]
    BY PathsDiffer DEF Inv, TypeOK
  <1>2. ASSUME NEW c, NEW W \in Written(c), Decrypts(c), NEW j \in Inodes, j = c.file,
               ciphers' = [ciphers EXCEPT ![j] = W]
        PROVE  ciphers'[f] = ciphers[f]
    <2>1. ciphers[j] \subseteq {c.cipher}
      BY <1>2 DEF Decrypts
    <2>2. W = {c.cipher}
      BY <1>2, <2>1, WrittenIs
    <2> QED BY <1>1, <1>2, <2>1, <2>2
  <1>3. ASSUME NEW source, NEW target, Decrypts(target), NEW j \in Inodes, j = target.file,
               NEW W \in Exported(source, target), ciphers' = [ciphers EXCEPT ![j] = W]
        PROVE  ciphers'[f] = ciphers[f]
    <2>1. CASE ciphers[source.file] = {}
      BY <1>1, <1>3, <2>1 DEF Exported
    <2>2. CASE ciphers[source.file] # {}
      BY <1>2, <1>3, <2>2 DEF Exported
    <2> QED BY <2>1, <2>2
  <1>4. CASE \E h \in Handles : Write(h)
    <2>1. PICK h \in Handles : Write(h)
      BY <1>4
    <2> DEFINE c == caches[handles[h].path]
    <2>2. Decrypts(c) /\ \E W \in Written(c) : ciphers' = [ciphers EXCEPT ![c.file] = W]
      BY <2>1 DEF Write, CanWrite
    <2>3. CASE c.file \in Inodes
      BY <1>2, <2>2, <2>3
    <2>4. CASE c.file \notin Inodes
      BY <1>1, <2>2, <2>4
    <2> QED BY <2>3, <2>4
  <1>5. CASE \E n \in Names, k \in Keys : Install(n, k)
    BY <1>1, <1>5 DEF Install, Free
  <1>6. ASSUME NEW h \in Handles, NEW n \in Names, NEW k \in Keys, NEW params \in Params,
               NEW old \in Params,
               Migrate(h, n, k, old, params) \/ MigrateStops(h, n, k, old, params)
        PROVE  ciphers'[f] = ciphers[f]
    <2> DEFINE Goal(i, j) ==
                 /\ FileFor(Temp, j) /\ Decrypts(Target(j, k, old, params))
                 /\ \/ ciphers' = ciphers
                    \/ \E W \in Exported(Source(n, i, k, old, params),
                                        Target(j, k, old, params)) :
                           ciphers' = [ciphers EXCEPT ![j] = W]
                    \/ \E W \in Written(Target(j, k, old, params)) :
                           ciphers' = [ciphers EXCEPT ![j] = W]
    <2>1. PICK i \in Inodes, j \in Inodes : Goal(i, j)
      <3>1. CASE Migrate(h, n, k, old, params)
        BY <3>1 DEF Migrate
      <3>2. CASE MigrateStops(h, n, k, old, params)
        BY <3>2 DEF MigrateStops
      <3> QED BY <1>6, <3>1, <3>2
    <2> DEFINE source == Source(n, i, k, old, params)
               target == Target(j, k, old, params)
    <2>2. target.file = j
      <3>1. FileFor(Temp, j)
        BY <2>1
      <3>2. Ready(target, j)
        BY <3>1, TargetReady
      <3> QED BY <3>2 DEF Ready
    <2>3. /\ Decrypts(target)
          /\ \/ ciphers' = ciphers
             \/ \E W \in Exported(source, target) : ciphers' = [ciphers EXCEPT ![j] = W]
             \/ \E W \in Written(target) : ciphers' = [ciphers EXCEPT ![j] = W]
      BY <2>1
    <2> HIDE DEF source, target, Goal
    <2> QED BY <1>2, <1>3, <2>2, <2>3
  <1>7. ASSUME NEW h \in Handles, NEW n \in Names, NEW k \in Keys, NEW params \in Params,
               NEW old \in Params, MigrateLosesName(h, n, k, old, params)
        PROVE  ciphers'[f] = ciphers[f]
    <2> DEFINE target == caches[Temp]
    <2>1. PICK i \in Inodes :
            /\ target.live /\ Decrypts(target)
            /\ \E W \in Exported(Source(n, i, k, old, params), target) :
                   ciphers' = [ciphers EXCEPT ![target.file] = W]
      BY <1>7 DEF MigrateLosesName
    <2>2. target.file \in Inodes
      BY <1>1, <2>1 DEF Inv, Sound
    <2> QED BY <1>3, <2>1, <2>2
  <1>8. \/ \E h \in Handles : Write(h)
        \/ \E n \in Names, k \in Keys : Install(n, k)
        \/ \E h \in Handles, n \in Names, k \in Keys, params \in Params, old \in Params :
              \/ Migrate(h, n, k, old, params) \/ MigrateStops(h, n, k, old, params)
              \/ MigrateLosesName(h, n, k, old, params)
        \/ ciphers' = ciphers
    BY DEF Next, Open, Read, Close, Remove, MigrateUnread, Restart
  <1> QED BY <1>4, <1>5, <1>6, <1>7, <1>8

(* No file is encrypted anew, by whatever connections with whatever        *)
(* passwords, and however migrations end.                                  *)
THEOREM CipherKept == Spec => CipherIsKept
  <1>1. Inv /\ [Next]_vars =>
          [\A i \in Inodes : ciphers[i] # {} => ciphers'[i] = ciphers[i]]_vars
    BY StepKeepsCipher
  <1> QED BY <1>1, Invariance, PTL DEF Spec, CipherIsKept

(* A migration with no connection left that has temp.db attached. *)
LEMMA MigratesAsGiven ==
    ASSUME Inv, NEW h \in Handles, NEW n \in Names, NEW k \in Keys,
           NEW old \in Params, NEW params \in Params,
           Migrate(h, n, k, old, params), Users(Temp) = {}
    PROVE  ciphers'[named'[n]] \subseteq {[key |-> k, params |-> params]}
  <1>1. n \in Paths /\ Temp \in Paths /\ n # Temp
        /\ named \in [Paths -> Inodes \cup {NoFile}] /\ ciphers \in [Inodes -> SUBSET Cipher]
    BY PathsDiffer DEF Inv, TypeOK
  <1>2. PICK i \in Inodes, j \in Inodes :
          LET source == Source(n, i, k, old, params)
              target == Target(j, k, old, params)
          IN  /\ FileFor(Temp, j) /\ Decrypts(target)
              /\ named' = [named EXCEPT ![n] = IF Creates(Temp) THEN j ELSE named[Temp],
                                        ![Temp] = NoFile]
              /\ \E W \in Exported(source, target) : ciphers' = [ciphers EXCEPT ![j] = W]
    BY DEF Migrate
  <1> DEFINE source == Source(n, i, k, old, params)
             target == Target(j, k, old, params)
  <1>3. PICK W \in Exported(source, target) : ciphers' = [ciphers EXCEPT ![j] = W]
    BY <1>2
  <1>4. target = NewCache(j, k, params) /\ j = IF Creates(Temp) THEN j ELSE named[Temp]
    BY <1>1, <1>2, FirstOpening DEF Target
  <1>5. named'[n] = j
    BY <1>1, <1>2, <1>4
  <1>6. Decrypts(target)
    BY <1>2
  <1> HIDE DEF source, target
  <1>7. /\ target.file = j /\ target.cipher = [key |-> k, params |-> params]
        /\ target.cipher \in Cipher
    BY <1>4 DEF NewCache, Cipher
  <1>8. ciphers'[j] = W /\ W \subseteq {target.cipher}
    BY <1>3, <1>6, <1>7, ExportedSound
  <1> QED BY <1>5, <1>7, <1>8

(* A migration leaves under the name a file with the password and the      *)
(* settings of the call, whatever was in temp.db before.                   *)
THEOREM MigrationAsGiven == Spec => ReplacedAsGiven
  <1>1. Inv /\ [Next]_vars =>
          [\A h \in Handles, n \in Names :
             named[Temp] # named'[Temp] \/ named[n] # named'[n] =>
             \A k \in Keys, old, params \in Params :
                 Migrate(h, n, k, old, params) /\ Users(Temp) = {}
                     => ciphers'[named'[n]] \subseteq {[key |-> k, params |-> params]}]_vars
    BY MigratesAsGiven
  <1> QED BY <1>1, Invariance, PTL DEF Spec, ReplacedAsGiven
=============================================================================
