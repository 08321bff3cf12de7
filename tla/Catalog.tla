------------------------------ MODULE Catalog ------------------------------
(***************************************************************************)
(* The algorithm catalog (types/src/algorithm.rs): the closed enumerations *)
(* of variants and the per-variant tables every key lifecycle is measured  *)
(* against -- key and ciphertext or signature sizes in bytes, NIST         *)
(* security level, key type and the is_small flag of the hash-signature    *)
(* family.  A variant is named by its Rust identifier; Algorithm::MlKem(v) *)
(* and its siblings are identified with v, the names being distinct.       *)
(*                                                                         *)
(* The second half restates the parameter sets of FIPS 203, 204 and 205    *)
(* and the size formulas of those standards, as the reference the tables   *)
(* are checked against.  Display is formatting and is left out.            *)
(***************************************************************************)
EXTENDS Naturals

AllKemVariants    == {"MlKem512", "MlKem768", "MlKem1024"}
AllDsaVariants    == {"MlDsa44", "MlDsa65", "MlDsa87"}
AllSlhVariants    == {"Sha2_128s", "Sha2_128f", "Sha2_192s", "Sha2_192f",
                      "Sha2_256s", "Sha2_256f"}
AllHybridVariants == {"X25519MlKem768", "Ed25519MlDsa65"}
Algorithms == AllKemVariants \cup AllDsaVariants \cup AllSlhVariants
              \cup AllHybridVariants

\* Algorithm::key_type.
KeyType(a) ==
    CASE a \in AllKemVariants                  -> "Kem"
      [] a \in AllDsaVariants \cup AllSlhVariants -> "Signature"
      [] a = "X25519MlKem768"                  -> "HybridKem"
      [] a = "Ed25519MlDsa65"                  -> "HybridSignature"

\* Algorithm::security_level.
SecurityLevel ==
    [MlKem512 |-> 1, MlKem768 |-> 3, MlKem1024 |-> 5,
     MlDsa44 |-> 2, MlDsa65 |-> 3, MlDsa87 |-> 5,
     Sha2_128s |-> 1, Sha2_128f |-> 1, Sha2_192s |-> 3, Sha2_192f |-> 3,
     Sha2_256s |-> 5, Sha2_256f |-> 5,
     X25519MlKem768 |-> 3, Ed25519MlDsa65 |-> 3]

\* MlKemVariant::key_sizes and ciphertext_size.
KemKeySizes ==
    [MlKem512 |-> <<800, 1632>>, MlKem768 |-> <<1184, 2400>>,
     MlKem1024 |-> <<1568, 3168>>]
\* Mutant: the ciphertext size table filled from the public key sizes.
CiphertextSizeAsKey == [MlKem512 |-> 800, MlKem768 |-> 1184, MlKem1024 |-> 1568]
CiphertextSize == [MlKem512 |-> 768, MlKem768 |-> 1088, MlKem1024 |-> 1568]

\* MlDsaVariant::key_sizes and signature_size.
DsaKeySizes ==
    [MlDsa44 |-> <<1312, 2560>>, MlDsa65 |-> <<1952, 4032>>,
     MlDsa87 |-> <<2592, 4896>>]
\* Mutant: the signature sizes of round-3 Dilithium, before FIPS 204 grew
\* the commitment hash to lambda / 4 bytes.
DsaSignatureSizeRound3 ==
    [MlDsa44 |-> 2420, MlDsa65 |-> 3293, MlDsa87 |-> 4595]
DsaSignatureSize == [MlDsa44 |-> 2420, MlDsa65 |-> 3309, MlDsa87 |-> 4627]

\* SlhDsaVariant::key_sizes (one entry per security level), signature_size
\* and is_small.
SlhKeySizes(v) ==
    CASE v \in {"Sha2_128s", "Sha2_128f"} -> <<32, 64>>
      [] v \in {"Sha2_192s", "Sha2_192f"} -> <<48, 96>>
      [] v \in {"Sha2_256s", "Sha2_256f"} -> <<64, 128>>
SlhSignatureSize ==
    [Sha2_128s |-> 7856, Sha2_128f |-> 17088, Sha2_192s |-> 16224,
     Sha2_192f |-> 35664, Sha2_256s |-> 29792, Sha2_256f |-> 49856]
IsSmall(v) == v \in {"Sha2_128s", "Sha2_192s", "Sha2_256s"}

\* The catalog's (public_key_bytes, secret_key_bytes) of a signature variant.
SigKeySizes(v) == IF v \in AllDsaVariants THEN DsaKeySizes[v] ELSE SlhKeySizes(v)
SignatureSize(v) ==
    IF v \in AllDsaVariants THEN DsaSignatureSize[v] ELSE SlhSignatureSize[v]

-----------------------------------------------------------------------------
(***************************************************************************)
(* The reference: parameter sets of the standards and the byte lengths     *)
(* their encodings have.                                                   *)
(***************************************************************************)
\* FIPS 203, Table 2: k, du, dv; NIST category.
MlKemParams ==
    [MlKem512  |-> [k |-> 2, du |-> 10, dv |-> 4, cat |-> 1],
     MlKem768  |-> [k |-> 3, du |-> 10, dv |-> 4, cat |-> 3],
     MlKem1024 |-> [k |-> 4, du |-> 11, dv |-> 5, cat |-> 5]]
\* ek = 384k + 32, dk = 768k + 96, c = 32(du k + dv).
FipsKemSizes(v) ==
    LET p == MlKemParams[v]
    IN  [pk |-> 384 * p.k + 32, sk |-> 768 * p.k + 96,
         ct |-> 32 * (p.du * p.k + p.dv)]

\* FIPS 204, Table 1: (k, l), bitlen(2 eta), 1 + bitlen(gamma1 - 1),
\* lambda, omega; NIST category.  d = 13 and bitlen(q - 1) - d = 10.
MlDsaParams ==
    [MlDsa44 |-> [k |-> 4, l |-> 4, eta |-> 3, z |-> 18, lambda |-> 128,
                  omega |-> 80, cat |-> 2],
     MlDsa65 |-> [k |-> 6, l |-> 5, eta |-> 4, z |-> 20, lambda |-> 192,
                  omega |-> 55, cat |-> 3],
     MlDsa87 |-> [k |-> 8, l |-> 7, eta |-> 3, z |-> 20, lambda |-> 256,
                  omega |-> 75, cat |-> 5]]
FipsDsaSizes(v) ==
    LET p == MlDsaParams[v]
    IN  [pk  |-> 32 + 32 * p.k * 10,
         sk  |-> 128 + 32 * ((p.k + p.l) * p.eta + 13 * p.k),
         sig |-> p.lambda \div 4 + 32 * p.l * p.z + p.omega + p.k]

\* FIPS 205, Table 2: n, h, d, a, k (lg w = 4, so len = 2n + 3); category.
SlhDsaParams ==
    [Sha2_128s |-> [n |-> 16, h |-> 63, d |-> 7,  a |-> 12, k |-> 14, cat |-> 1],
     Sha2_128f |-> [n |-> 16, h |-> 66, d |-> 22, a |-> 6,  k |-> 33, cat |-> 1],
     Sha2_192s |-> [n |-> 24, h |-> 63, d |-> 7,  a |-> 14, k |-> 17, cat |-> 3],
     Sha2_192f |-> [n |-> 24, h |-> 66, d |-> 22, a |-> 8,  k |-> 33, cat |-> 3],
     Sha2_256s |-> [n |-> 32, h |-> 64, d |-> 8,  a |-> 14, k |-> 22, cat |-> 5],
     Sha2_256f |-> [n |-> 32, h |-> 68, d |-> 17, a |-> 9,  k |-> 35, cat |-> 5]]
FipsSlhSizes(v) ==
    LET p == SlhDsaParams[v]
    IN  [pk |-> 2 * p.n, sk |-> 4 * p.n,
         sig |-> p.n * (1 + p.k * (1 + p.a) + p.h + p.d * (2 * p.n + 3))]

\* The public and secret key lengths the standards give a signature variant.
FipsSigKeySizes(v) ==
    IF v \in AllDsaVariants THEN <<FipsDsaSizes(v).pk, FipsDsaSizes(v).sk>>
    ELSE <<FipsSlhSizes(v).pk, FipsSlhSizes(v).sk>>

-----------------------------------------------------------------------------
(***************************************************************************)
(* The entries of the catalog that no key lifecycle reads are the          *)
(* standards' own: the security level of every variant (the hybrids take   *)
(* the level of their post-quantum half), is_small marks exactly the       *)
(* hash-signature parameter set with the smaller signature of its level,   *)
(* and key_type names a KEM exactly for the variants with a ciphertext.    *)
(* TLC evaluates this on every run whose module extends Catalog.           *)
(***************************************************************************)
ASSUME CatalogLevelsAssumption ==
    /\ \A v \in AllKemVariants : SecurityLevel[v] = MlKemParams[v].cat
    /\ \A v \in AllDsaVariants : SecurityLevel[v] = MlDsaParams[v].cat
    /\ \A v \in AllSlhVariants :
          /\ SecurityLevel[v] = SlhDsaParams[v].cat
          /\ IsSmall(v) <=>
               \A w \in AllSlhVariants :
                  SlhDsaParams[w].n = SlhDsaParams[v].n =>
                     SlhSignatureSize[v] <= SlhSignatureSize[w]
    /\ SecurityLevel["X25519MlKem768"] = MlKemParams["MlKem768"].cat
    /\ SecurityLevel["Ed25519MlDsa65"] = MlDsaParams["MlDsa65"].cat
    /\ \A a \in Algorithms :
          KeyType(a) \in {"Kem", "HybridKem"}
             <=> a \in AllKemVariants \cup {"X25519MlKem768"}

=============================================================================
