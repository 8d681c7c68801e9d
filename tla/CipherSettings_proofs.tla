----------------------- MODULE CipherSettings_proofs -----------------------
(***************************************************************************)
(* What the setters and the properties file compute, for every integer.    *)
(***************************************************************************)
EXTENDS CipherSettings, TLAPS

(* The loop of setPageSize always stops: some value it visits is the first *)
(* that is not below the argument.                                         *)
LEMMA LoopStops ==
    ASSUME NEW v \in Int, v <= MAX_PAGE_SIZE
    PROVE  \E i \in 1..8 : /\ v <= NextValidValues[i]
                           /\ \A j \in 1..(i - 1) : ~(v <= NextValidValues[j])
  <1>1. CASE v <= 512
    <2>1. 1 \in 1..8 /\ v <= NextValidValues[1]
      BY <1>1 DEF NextValidValues
    <2>2. \A j \in 1..(1 - 1) : ~(v <= NextValidValues[j])
      OBVIOUS
    <2> QED BY <2>1, <2>2
  <1>2. \A k \in 1..7 : NextValidValues[k] < v /\ v <= NextValidValues[k + 1]
            => \A j \in 1..k : ~(v <= NextValidValues[j])
    BY DEF NextValidValues
  <1>3. CASE v > 512
    <2>1. \E k \in 1..7 : NextValidValues[k] < v /\ v <= NextValidValues[k + 1]
      BY <1>3 DEF NextValidValues, MAX_PAGE_SIZE
    <2>2. PICK k \in 1..7 : NextValidValues[k] < v /\ v <= NextValidValues[k + 1]
      BY <2>1
    <2>3. k + 1 \in 1..8 /\ (k + 1) - 1 = k
      OBVIOUS
    <2> QED BY <1>2, <2>2, <2>3
  <1> QED BY <1>1, <1>3

(* setPageSize yields a valid page size, the least one that holds the      *)
(* argument, or the largest when none does.                                *)
THEOREM ValidPageSizeIsLeast ==
    ASSUME NEW v \in Int
    PROVE  /\ ValidPageSize(v) \in PageSizes
           /\ v <= MAX_PAGE_SIZE => v <= ValidPageSize(v)
           /\ \A p \in PageSizes : p < ValidPageSize(v) => p < v
  <1>1. CASE v < MIN_PAGE_SIZE
    BY <1>1 DEF ValidPageSize, MIN_PAGE_SIZE, MAX_PAGE_SIZE, PageSizes
  <1>2. CASE v > MAX_PAGE_SIZE
    BY <1>2 DEF ValidPageSize, MIN_PAGE_SIZE, MAX_PAGE_SIZE, PageSizes
  <1>3. CASE v >= MIN_PAGE_SIZE /\ v <= MAX_PAGE_SIZE
    <2> DEFINE Stop(i) == /\ v <= NextValidValues[i]
                          /\ \A j \in 1..(i - 1) : ~(v <= NextValidValues[j])
               i0 == CHOOSE i \in 1..8 : Stop(i)
    <2>1. i0 \in 1..8 /\ Stop(i0)
      <3>1. \E i \in 1..8 : Stop(i)
        BY <1>3, LoopStops
      <3> QED BY <3>1
    <2>2. ValidPageSize(v) = NextValidValues[i0]
      BY <1>3 DEF ValidPageSize, FirstNotBelow, MIN_PAGE_SIZE, MAX_PAGE_SIZE
    <2> HIDE DEF i0
    <2>3. NextValidValues[i0] \in PageSizes
      BY <2>1 DEF NextValidValues, PageSizes
    <2>4. \A p \in PageSizes : \E k \in 1..8 : p = NextValidValues[k]
      BY DEF NextValidValues, PageSizes
    <2>5. \A k \in 1..8 : NextValidValues[k] < NextValidValues[i0] => k \in 1..(i0 - 1)
      BY <2>1 DEF NextValidValues
    <2>6. \A k \in 1..8 : NextValidValues[k] < NextValidValues[i0]
              => NextValidValues[k] < v
      <3> SUFFICES ASSUME NEW k \in 1..8, NextValidValues[k] < NextValidValues[i0]
                   PROVE  NextValidValues[k] < v
        OBVIOUS
      <3>1. ~(v <= NextValidValues[k])
        BY <2>1, <2>5
      <3>2. NextValidValues[k] \in Int
        BY DEF NextValidValues
      <3> QED BY <3>1, <3>2
    <2> QED BY <2>1, <2>2, <2>3, <2>4, <2>6
  <1> QED BY <1>1, <1>2, <1>3 DEF MIN_PAGE_SIZE, MAX_PAGE_SIZE

(* Each setter keeps the settings valid. *)
LEMMA SettersType ==
    ASSUME NEW s \in Settings
    PROVE  /\ \A type \in SUBSET HashTypes : SetHashAlgorithmType(s, type) \in Settings
           /\ \A v \in Int : SetKdfIterations(s, v) \in Settings
           /\ \A v \in Int : SetPageSize(s, v) \in Settings
  <1>1. "SHA512" \in HashTypes
    BY DEF HashTypes, TiIntId
  <1>2. ASSUME NEW type \in SUBSET HashTypes
        PROVE  SetHashAlgorithmType(s, type) \in Settings
    <2>1. (IF type = {} THEN "SHA512" ELSE CHOOSE t \in type : TRUE) \in HashTypes
      BY <1>1
    <2> QED BY <2>1 DEF SetHashAlgorithmType, Settings
  <1>3. ASSUME NEW v \in Int PROVE SetKdfIterations(s, v) \in Settings
    BY DEF SetKdfIterations, Settings, MIN_KDF_ITERATIONS
  <1>4. ASSUME NEW v \in Int PROVE SetPageSize(s, v) \in Settings
    BY ValidPageSizeIsLeast DEF SetPageSize, Settings
  <1> QED BY <1>2, <1>3, <1>4

LEMMA DefaultsType == FromSQLCipherV4 \in Settings
  BY DEF FromSQLCipherV4, Settings, HashTypes, TiIntId, PageSizes, MIN_KDF_ITERATIONS

(* A valid page size is left as it is. *)
LEMMA PageSizeIdempotent ==
    ASSUME NEW p \in PageSizes
    PROVE  ValidPageSize(p) = p
  <1> DEFINE q == ValidPageSize(p)
  <1>1. p \in Int /\ p <= MAX_PAGE_SIZE
    BY DEF PageSizes, MAX_PAGE_SIZE
  <1>2. q \in PageSizes /\ p <= q /\ (p < q => p < p)
    BY <1>1, ValidPageSizeIsLeast
  <1> HIDE DEF q
  <1>3. q \in Int
    BY <1>2 DEF PageSizes
  <1>4. q = p
    BY <1>1, <1>2, <1>3
  <1> QED BY <1>4 DEF q

(* No two algorithms share the text the properties file keeps. *)
LEMMA HmacIdsDiffer ==
    \A t, u \in HashTypes : CipherHmacStringId[t] = CipherHmacStringId[u] => t = u
  BY DEF HashTypes, TiIntId, CipherHmacStringId

(* What is read from any properties file is valid. *)
LEMMA FromPropertiesType ==
    ASSUME NEW p \in Properties
    PROVE  FromProperties(p) \in Settings
  <1> DEFINE named == {t \in HashTypes : CipherHmacStringId[t] \in p.cipher_hmac_algorithm}
             s0 == FromSQLCipherV4
             s1 == IF named = {} THEN s0 ELSE SetHashAlgorithmType(s0, named)
             s2 == IF p.kdf_iter = {} THEN s1
                   ELSE SetKdfIterations(s1, CHOOSE k \in p.kdf_iter : TRUE)
             s3 == IF p.cipher_page_size = {} THEN s2
                   ELSE SetPageSize(s2, CHOOSE n \in p.cipher_page_size : TRUE)
  <1>1. p.kdf_iter \subseteq Int /\ p.cipher_page_size \subseteq Int
    BY DEF Properties
  <1>2. s1 \in Settings
    BY DefaultsType, SettersType
  <1>3. s2 \in Settings
    <2> HIDE DEF s1
    <2> QED BY <1>1, <1>2, SettersType
  <1>4. s3 \in Settings
    <2> HIDE DEF s2
    <2> QED BY <1>1, <1>3, SettersType
  <1>5. FromProperties(p) = s3
    BY DEF FromProperties
  <1> QED BY <1>4, <1>5

(* What the setters do to a record whose fields are known. *)
LEMMA SettersOnFields ==
    ASSUME NEW h, NEW k, NEW n
    PROVE  LET s == [hash |-> h, kdf |-> k, page |-> n]
           IN  /\ \A t : SetHashAlgorithmType(s, {t}) = [hash |-> t, kdf |-> k, page |-> n]
               /\ \A v \in Int : v >= MIN_KDF_ITERATIONS
                      => SetKdfIterations(s, v) = [hash |-> h, kdf |-> v, page |-> n]
               /\ \A v : SetPageSize(s, v)
                      = [hash |-> h, kdf |-> k, page |-> ValidPageSize(v)]
  <1> DEFINE s == [hash |-> h, kdf |-> k, page |-> n]
  <1>1. ASSUME NEW t
        PROVE  SetHashAlgorithmType(s, {t}) = [hash |-> t, kdf |-> k, page |-> n]
    <2>1. (IF {t} = {} THEN "SHA512" ELSE CHOOSE u \in {t} : TRUE) = t
      OBVIOUS
    <2>2. SetHashAlgorithmType(s, {t}) = [s EXCEPT !.hash = t]
      BY <2>1, Zenon DEF SetHashAlgorithmType
    <2> QED BY <2>2
  <1>2. ASSUME NEW v \in Int, v >= MIN_KDF_ITERATIONS
        PROVE  SetKdfIterations(s, v) = [hash |-> h, kdf |-> v, page |-> n]
    BY <1>2 DEF SetKdfIterations, MIN_KDF_ITERATIONS
  <1>3. ASSUME NEW v
        PROVE  SetPageSize(s, v) = [hash |-> h, kdf |-> k, page |-> ValidPageSize(v)]
    BY DEF SetPageSize
  <1> QED BY <1>1, <1>2, <1>3

(* Writing settings and reading them back changes nothing. *)
THEOREM PropertiesRoundTrip ==
    ASSUME NEW s \in Settings
    PROVE  /\ ToProperties(s) \in Properties
           /\ FromProperties(ToProperties(s)) = s
  <1> DEFINE p == ToProperties(s)
             named == {t \in HashTypes : CipherHmacStringId[t] \in p.cipher_hmac_algorithm}
             s1 == SetHashAlgorithmType(FromSQLCipherV4, named)
             kdf == CHOOSE k \in p.kdf_iter : TRUE
             s2 == SetKdfIterations(s1, kdf)
             page == CHOOSE n \in p.cipher_page_size : TRUE
             s3 == SetPageSize(s2, page)
  <1>1. /\ s.hash \in HashTypes /\ s.page \in PageSizes
        /\ s.kdf \in Int /\ s.kdf >= MIN_KDF_ITERATIONS
        /\ s = [hash |-> s.hash, kdf |-> s.kdf, page |-> s.page]
    BY DEF Settings
  <1>2. /\ p.cipher_hmac_algorithm = {CipherHmacStringId[s.hash]}
        /\ p.kdf_iter = {s.kdf}
        /\ p.cipher_page_size = {s.page}
    BY DEF ToProperties
  <1>3. p \in Properties
    BY <1>1, <1>2 DEF ToProperties, Properties, PageSizes
  <1> HIDE DEF p
  <1>4. named = {s.hash}
    BY <1>1, <1>2, HmacIdsDiffer
  <1>5. s1 = [hash |-> s.hash, kdf |-> 256000, page |-> 4096]
    BY <1>4, SettersOnFields DEF FromSQLCipherV4
  <1>6. s2 = [hash |-> s.hash, kdf |-> s.kdf, page |-> 4096]
    <2>1. kdf = s.kdf
      BY <1>2
    <2>2. s2 = SetKdfIterations([hash |-> s.hash, kdf |-> 256000, page |-> 4096], s.kdf)
      <3> HIDE DEF s1, kdf
      <3> QED BY <1>5, <2>1
    <2> QED BY <1>1, <2>2, SettersOnFields
  <1>7. s3 = s
    <2>1. page = s.page
      BY <1>2
    <2>2. s3 = SetPageSize([hash |-> s.hash, kdf |-> s.kdf, page |-> 4096], s.page)
      <3> HIDE DEF s2, page
      <3> QED BY <1>6, <2>1
    <2>3. ValidPageSize(s.page) = s.page
      BY <1>1, PageSizeIdempotent
    <2>4. s3 = [hash |-> s.hash, kdf |-> s.kdf, page |-> s.page]
      BY <2>2, <2>3, SettersOnFields
    <2> QED BY <1>1, <2>4, Zenon
  <1>8. FromProperties(p) = s3
    <2>1. named # {} /\ p.kdf_iter # {} /\ p.cipher_page_size # {}
      BY <1>2, <1>4
    <2> QED BY <2>1 DEF FromProperties
  <1> QED BY <1>3, <1>7, <1>8 DEF p

(* A file that lost some of the keys settings were stored under is read    *)
(* right in those it kept, and as the SQLCipher v4 default in the others   *)
(* (TiDatabaseSettings.from).                                              *)
THEOREM LostKeysAreDefaults ==
    ASSUME NEW s \in Settings, NEW p \in Properties,
           p.cipher_hmac_algorithm \subseteq ToProperties(s).cipher_hmac_algorithm,
           p.kdf_iter \subseteq ToProperties(s).kdf_iter,
           p.cipher_page_size \subseteq ToProperties(s).cipher_page_size
    PROVE  FromProperties(p) =
             [hash |-> IF p.cipher_hmac_algorithm = {} THEN FromSQLCipherV4.hash ELSE s.hash,
              kdf  |-> IF p.kdf_iter = {} THEN FromSQLCipherV4.kdf ELSE s.kdf,
              page |-> IF p.cipher_page_size = {} THEN FromSQLCipherV4.page ELSE s.page]
  <1> DEFINE named == {t \in HashTypes : CipherHmacStringId[t] \in p.cipher_hmac_algorithm}
             s0 == FromSQLCipherV4
             s1 == IF named = {} THEN s0 ELSE SetHashAlgorithmType(s0, named)
             k0 == CHOOSE k \in p.kdf_iter : TRUE
             s2 == IF p.kdf_iter = {} THEN s1 ELSE SetKdfIterations(s1, k0)
             n0 == CHOOSE n \in p.cipher_page_size : TRUE
             s3 == IF p.cipher_page_size = {} THEN s2 ELSE SetPageSize(s2, n0)
             hash == IF p.cipher_hmac_algorithm = {} THEN "SHA512" ELSE s.hash
             kdf == IF p.kdf_iter = {} THEN 256000 ELSE s.kdf
             page == IF p.cipher_page_size = {} THEN 4096 ELSE s.page
  <1>1. /\ s.hash \in HashTypes /\ s.page \in PageSizes
        /\ s.kdf \in Int /\ s.kdf >= MIN_KDF_ITERATIONS
    BY DEF Settings
  (* Each key that is there says what was stored. *)
  <1>2. /\ p.cipher_hmac_algorithm \in {{}, {CipherHmacStringId[s.hash]}}
        /\ p.kdf_iter \in {{}, {s.kdf}}
        /\ p.cipher_page_size \in {{}, {s.page}}
    BY DEF ToProperties
  <1>3. named = IF p.cipher_hmac_algorithm = {} THEN {} ELSE {s.hash}
    BY <1>1, <1>2, HmacIdsDiffer
  (* The record of them. *)
  <1>4. s1 = [hash |-> hash, kdf |-> 256000, page |-> 4096]
    <2> HIDE DEF named
    <2>1. CASE named = {}
      BY <1>3, <2>1 DEF FromSQLCipherV4
    <2>2. CASE named # {}
      <3>1. named = {s.hash} /\ hash = s.hash
        BY <1>3, <2>2
      <3>2. SetHashAlgorithmType(s0, {s.hash}) = [hash |-> s.hash, kdf |-> 256000, page |-> 4096]
        BY SettersOnFields DEF FromSQLCipherV4
      <3> QED BY <2>2, <3>1, <3>2
    <2> QED BY <2>1, <2>2
  <1> HIDE DEF s1, hash
  <1>5. s2 = [hash |-> hash, kdf |-> kdf, page |-> 4096]
    <2>1. p.kdf_iter # {} => k0 = s.kdf
      BY <1>2
    <2> HIDE DEF k0
    <2>2. CASE p.kdf_iter = {}
      BY <1>4, <2>2
    <2>3. CASE p.kdf_iter # {}
      <3>1. s2 = SetKdfIterations(s1, s.kdf) /\ kdf = s.kdf
        BY <2>1, <2>3
      <3>2. SetKdfIterations(s1, s.kdf) = [hash |-> hash, kdf |-> s.kdf, page |-> 4096]
        BY <1>1, <1>4, SettersOnFields
      <3> QED BY <3>1, <3>2
    <2> QED BY <2>2, <2>3
  <1> HIDE DEF s2, kdf
  <1>6. s3 = [hash |-> hash, kdf |-> kdf, page |-> page]
    <2>1. p.cipher_page_size # {} => n0 = s.page
      BY <1>2
    <2> HIDE DEF n0
    <2>2. CASE p.cipher_page_size = {}
      BY <1>5, <2>2
    <2>3. CASE p.cipher_page_size # {}
      <3>1. s3 = SetPageSize(s2, s.page) /\ page = s.page
        BY <2>1, <2>3
      <3>2. SetPageSize(s2, s.page) = [hash |-> hash, kdf |-> kdf, page |-> s.page]
        BY <1>1, <1>5, SettersOnFields, PageSizeIdempotent
      <3> QED BY <3>1, <3>2
    <2> QED BY <2>2, <2>3
  <1>7. FromProperties(p) = s3
    BY DEF FromProperties, s1, s2
  <1> QED BY <1>6, <1>7 DEF FromSQLCipherV4, hash, kdf

=============================================================================
