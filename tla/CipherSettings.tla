--------------------------- MODULE CipherSettings ---------------------------
(***************************************************************************)
(* The encryption settings of an Android database and the arithmetic on    *)
(* them: TiDatabaseSettings.java and TiHashAlgorithmType.java.             *)
(*                                                                         *)
(* A TiDatabaseSettings object is a record of its three fields.  A Java    *)
(* reference that may be null is a set with at most one element: {} is     *)
(* null and {x} is a reference to x.                                       *)
(***************************************************************************)
EXTENDS Integers, Sequences

MIN_KDF_ITERATIONS == 4000
MIN_PAGE_SIZE == 512
MAX_PAGE_SIZE == 65536

(* The enum constants, by the integer each one is given in JavaScript. *)
TiIntId == [SHA1 |-> 1, SHA256 |-> 2, SHA512 |-> 3]

HashTypes == DOMAIN TiIntId

(* The string written to cipher_hmac_algorithm.  It is also the text that  *)
(* the properties file keeps.                                              *)
CipherHmacStringId ==
    [SHA1 |-> "HMAC_SHA1", SHA256 |-> "HMAC_SHA256", SHA512 |-> "HMAC_SHA512"]

FromTiIntId(value) == {t \in HashTypes : TiIntId[t] = value}

FromCipherHmacStringId(value) ==
    {t \in HashTypes : CipherHmacStringId[t] = value}

(* The values nextValidValue takes in the loop of setPageSize, in order. *)
NextValidValues == <<512, 1024, 2048, 4096, 8192, 16384, 32768, 65536>>

PageSizes == {512, 1024, 2048, 4096, 8192, 16384, 32768, 65536}

Settings == [hash : HashTypes,
             kdf  : {k \in Int : k >= MIN_KDF_ITERATIONS},
             page : PageSizes]

-----------------------------------------------------------------------------
(* The setters.  Each one yields the settings the object has afterwards. *)

SetHashAlgorithmType(s, type) ==
    [s EXCEPT !.hash = IF type = {} THEN "SHA512" ELSE CHOOSE t \in type : TRUE]

(* Mutant: the iteration count is taken as it comes. *)
MutantSetKdfIterations(s, value) == [s EXCEPT !.kdf = value]

SetKdfIterations(s, value) ==
    [s EXCEPT !.kdf = IF value < MIN_KDF_ITERATIONS
                      THEN MIN_KDF_ITERATIONS ELSE value]

(* Mutant: the loop stops only above the argument. *)
MutantFirstNotBelow(value) ==
    IF value = MAX_PAGE_SIZE THEN value
    ELSE NextValidValues[CHOOSE i \in 1..8 :
                            /\ value < NextValidValues[i]
                            /\ \A j \in 1..(i - 1) : ~(value < NextValidValues[j])]

(* The loop walks NextValidValues and stops at the first value that is not *)
(* below the argument.                                                     *)
FirstNotBelow(value) ==
    NextValidValues[CHOOSE i \in 1..8 :
                        /\ value <= NextValidValues[i]
                        /\ \A j \in 1..(i - 1) : ~(value <= NextValidValues[j])]

ValidPageSize(value) ==
    IF value < MIN_PAGE_SIZE THEN MIN_PAGE_SIZE
    ELSE IF value > MAX_PAGE_SIZE THEN MAX_PAGE_SIZE
    ELSE FirstNotBelow(value)

SetPageSize(s, value) == [s EXCEPT !.page = ValidPageSize(value)]

-----------------------------------------------------------------------------
(* The settings of each SQLCipher generation. *)

FromSQLCipherV4 == [hash |-> "SHA512", kdf |-> 256000, page |-> 4096]

FromSQLCipherV3 ==
    SetPageSize(SetKdfIterations(SetHashAlgorithmType(FromSQLCipherV4, {"SHA1"}),
                                 64000), 1024)

FromSQLCipherV2 ==
    SetPageSize(SetKdfIterations(SetHashAlgorithmType(FromSQLCipherV4, {"SHA1"}),
                                 4000), 1024)

-----------------------------------------------------------------------------
(* Mutant: the iterations are stored under a key that is not read. *)
MutantToProperties(s) ==
    [cipher_hmac_algorithm |-> {CipherHmacStringId[s.hash]},
     kdf_iter              |-> {},
     cipher_page_size      |-> {s.page}]

(* The properties file.  A key that is missing, or a number that           *)
(* Integer.valueOf refuses, is {}.                                         *)
ToProperties(s) ==
    [cipher_hmac_algorithm |-> {CipherHmacStringId[s.hash]},
     kdf_iter              |-> {s.kdf},
     cipher_page_size      |-> {s.page}]

(* Whatever text such a file can hold. *)
Properties == [cipher_hmac_algorithm : SUBSET {CipherHmacStringId[t] : t \in HashTypes},
               kdf_iter              : SUBSET Int,
               cipher_page_size      : SUBSET Int]

NoProperties ==
    [cipher_hmac_algorithm |-> {}, kdf_iter |-> {}, cipher_page_size |-> {}]

FromProperties(p) ==
    LET named == {t \in HashTypes : CipherHmacStringId[t] \in p.cipher_hmac_algorithm}
        s0 == FromSQLCipherV4
        s1 == IF named = {} THEN s0 ELSE SetHashAlgorithmType(s0, named)
        s2 == IF p.kdf_iter = {} THEN s1
              ELSE SetKdfIterations(s1, CHOOSE k \in p.kdf_iter : TRUE)
    IN  IF p.cipher_page_size = {} THEN s2
        ELSE SetPageSize(s2, CHOOSE n \in p.cipher_page_size : TRUE)

=============================================================================
