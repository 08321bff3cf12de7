------------------------- MODULE KemLifecycleProofs -------------------------
(***************************************************************************)
(* Proofs about KemLifecycle for every set of slots, every set of ML-KEM   *)
(* variants containing ML-KEM-768 and every bound on the entropy draws.    *)
(***************************************************************************)
EXTENDS KemLifecycle, TLAPS

USE ConstantsAssumption, SentinelAssumption

(***************************************************************************)
(* The record of an operation is a value of LastRec when its parts are.    *)
(***************************************************************************)
LEMMA RecordType ==
    ASSUME NEW op \in Ops, NEW k \in KeyRec \cup {NoKey},
           NEW c \in CtIn \cup {NoKey}, NEW e \in EphIn \cup {NoKey},
           NEW res \in Results, NEW tried \in BOOLEAN
    PROVE  [op |-> op, key |-> k, ct |-> c, eph |-> e, res |-> res,
            pqcTried |-> tried] \in LastRec
BY DEF LastRec

LEMMA RecordLast ==
    ASSUME NEW op \in Ops, NEW k \in KeyRec \cup {NoKey},
           NEW c \in CtIn \cup {NoKey}, NEW e \in EphIn \cup {NoKey},
           NEW res \in Results, NEW tried \in BOOLEAN,
           Record(op, k, c, e, res, tried)
    PROVE  last' \in LastRec
BY RecordType DEF Record

(***************************************************************************)
(* The ML-KEM decapsulation returns an error or a KEM shared key.          *)
(***************************************************************************)
LEMMA KemDecapsResultType ==
    ASSUME NEW k \in KeyRec, NEW c \in CtIn
    PROVE  \/ KemDecapsResult(k, c) = Err("Decapsulation")
           \/ /\ KemDecapsResult(k, c) = Ok(KemDecapsResult(k, c).val)
              /\ KemDecapsResult(k, c).tag = "ok"
              /\ KemDecapsResult(k, c).val \in KemShared
<1>1. CASE ~k.sk \/ c = JunkCt \/ c.variant # k.variant
  BY <1>1 DEF KemDecapsResult
<1>2. CASE k.sk /\ c # JunkCt /\ c.variant = k.variant
  <2>1. c \in Ct /\ k.mat \in Mats
    BY <1>2 DEF CtIn, KeyRec
  <2>2. c.r \in Mats
    BY <2>1 DEF Ct
  <2>3. KemSS(k.mat, c.r) \in KemShared /\ Reject(k.mat, c) \in KemShared
    BY <2>1, <2>2 DEF KemShared
  <2>4. QED
    BY <1>2, <2>3 DEF KemDecapsResult, Ok
<1>3. QED
  BY <1>1, <1>2

(***************************************************************************)
(* The outcome of a hybrid decapsulation has the types TypeOK asks for.    *)
(***************************************************************************)
LEMMA HybridDecapsOutcomeType ==
    ASSUME NEW k \in KeyRec, NEW e \in EphIn, NEW c \in CtIn
    PROVE  /\ HybridDecapsOutcome(k, e, c).res \in Results
           /\ HybridDecapsOutcome(k, e, c).tried \in BOOLEAN
           /\ HybridDecapsOutcome(k, e, c).left
                \subseteq {ClsSk(m) : m \in Mats} \cup KemShared
<1> DEFINE pqc == KemDecapsResult(k, c)
<1>1. ClsSk(k.mat) \in {ClsSk(m) : m \in Mats}
  BY DEF KeyRec
<1>2. Err("InvalidKeyMaterial") \in Results /\ Err("Decapsulation") \in Results
  BY DEF Results, ErrKinds
<1>3. CASE ~k.cls \/ e = JunkPub \/ pqc.tag # "ok"
  <2>1. pqc.tag # "ok" => pqc = Err("Decapsulation")
    BY KemDecapsResultType
  <2>2. QED
    BY <1>1, <1>2, <1>3, <2>1 DEF HybridDecapsOutcome, Err
<1>4. CASE k.cls /\ e # JunkPub /\ pqc.tag = "ok"
  <2>1. pqc.val \in KemShared
    BY <1>4, KemDecapsResultType DEF Err
  <2>2. e \in 0..MaxDraws /\ k.mat \in 0..MaxDraws
    BY <1>4 DEF EphIn, KeyRec, Mats
  <2>3. Kdf(Dh(k.mat, e), pqc.val) \in Shared
    BY <2>1, <2>2 DEF Shared
  <2>4. Ok(Kdf(Dh(k.mat, e), pqc.val)) \in Results
    BY <2>3 DEF Results
  <2>5. pqc # Err("Decapsulation")
    BY <1>4 DEF Err
  <2>6. QED
    BY <1>1, <1>4, <2>1, <2>4, <2>5 DEF HybridDecapsOutcome
<1>5. QED
  BY <1>3, <1>4

(***************************************************************************)
(* The values the caller can feed a decapsulation are of their input type. *)
(***************************************************************************)
LEMMA InputsType ==
    ASSUME TypeOK
    PROVE  /\ CtsSeen \subseteq CtIn
           /\ EphsSeen \subseteq EphIn
BY DEF TypeOK, CtsSeen, EphsSeen, Output, CtIn, EphIn

(***************************************************************************)
(* Every step of Next keeps every variable in its type.                    *)
(***************************************************************************)
LEMMA TypeOKStep == TypeOK /\ [Next]_vars => TypeOK'
<1> SUFFICES ASSUME TypeOK, [Next]_vars PROVE TypeOK'
  OBVIOUS
<1>0. /\ Done \in Results /\ Panic \in Results
      /\ NoKey \in KeyRec \cup {NoKey}
      /\ NoKey \in CtIn \cup {NoKey} /\ NoKey \in EphIn \cup {NoKey}
  BY DEF Results
<1>1. ASSUME NEW h \in Handles, NEW v \in KemVariants, Generate(h, v)
      PROVE  TypeOK'
  <2>1. rng + 1 \in Mats /\ rng' \in 0..MaxDraws
    BY <1>1 DEF Generate, TypeOK, Mats
  <2>2. [kind |-> "kem", variant |-> v, mat |-> rng + 1, sk |-> TRUE,
         cls |-> FALSE] \in KeyRec
    BY <2>1 DEF KeyRec
  <2>3. keys' \in [Handles -> KeyRec \cup {NoKey}]
    BY <1>1, <2>2 DEF Generate, TypeOK
  <2>4. last' \in LastRec
    <3>1. keys'[h] \in KeyRec \cup {NoKey}
      BY <2>3
    <3>2. "Generate" \in Ops
      BY DEF Ops
    <3>3. \/ Record("Generate", keys'[h], NoKey, NoKey, Done, FALSE)
          \/ Record("Generate", NoKey, NoKey, NoKey, Panic, FALSE)
      BY <1>1 DEF Generate
    <3>4. QED
      BY <1>0, <3>1, <3>2, <3>3, RecordLast
  <2>5. QED
    BY <1>1, <2>1, <2>3, <2>4 DEF Generate, TypeOK
<1>2. ASSUME NEW h \in Handles, Encapsulate(h)
      PROVE  TypeOK'
  <2> DEFINE k == keys[h]
             c == [variant |-> k.variant, mat |-> k.mat, r |-> rng + 1]
  <2>1. k \in KeyRec /\ rng + 1 \in Mats /\ rng' \in 0..MaxDraws
    BY <1>2 DEF Encapsulate, TypeOK, Mats
  <2>2. c \in Ct
    BY <2>1 DEF Ct, KeyRec
  <2>3. [kind |-> "kem", ct |-> c, eph |-> 0, ss |-> KemSS(k.mat, rng + 1)]
          \in Output
    <3>1. KemSS(k.mat, rng + 1) \in Shared
      BY <2>1 DEF KemShared, Shared, KeyRec
    <3>2. QED
      BY <2>2, <3>1 DEF Output
  <2>4. wire' \subseteq Output
    BY <1>2, <2>3 DEF Encapsulate, TypeOK
  <2>5. last' \in LastRec
    <3>1. "Encapsulate" \in Ops /\ c \in CtIn /\ k \in KeyRec \cup {NoKey}
      BY <2>1, <2>2 DEF Ops, CtIn
    <3>2. \/ Record("Encapsulate", k, c, NoKey, Done, FALSE)
          \/ Record("Encapsulate", k, NoKey, NoKey, Panic, FALSE)
      BY <1>2 DEF Encapsulate
    <3>3. QED
      BY <1>0, <3>1, <3>2, RecordLast
  <2>6. QED
    BY <1>2, <2>1, <2>4, <2>5 DEF Encapsulate, TypeOK
<1>3. ASSUME NEW h \in Handles, NEW c \in CtsSeen, Decapsulate(h, c)
      PROVE  TypeOK'
  <2>1. keys[h] \in KeyRec /\ c \in CtIn
    BY <1>3, InputsType DEF Decapsulate, TypeOK
  <2>2. KemDecapsResult(keys[h], c) \in Results
    BY <2>1, KemDecapsResultType DEF Results, ErrKinds, Shared
  <2>3. keys[h].sk \in BOOLEAN
    BY <2>1 DEF KeyRec
  <2>4. last' \in LastRec
    BY <1>0, <1>3, <2>1, <2>2, <2>3, RecordType DEF Ops, Decapsulate, Record
  <2>5. QED
    BY <1>3, <2>4 DEF Decapsulate, TypeOK
<1>4. ASSUME NEW h \in Handles, HybridGenerate(h)
      PROVE  TypeOK'
  <2>1. rng + 1 \in Mats /\ rng' \in 0..MaxDraws
    BY <1>4 DEF HybridGenerate, TypeOK, Mats
  <2>2. [kind |-> "hybrid", variant |-> "MlKem768", mat |-> rng + 1,
         sk |-> TRUE, cls |-> TRUE] \in KeyRec
    BY <2>1 DEF KeyRec
  <2>3. keys' \in [Handles -> KeyRec \cup {NoKey}]
    BY <1>4, <2>2 DEF HybridGenerate, TypeOK
  <2>4. residue' \subseteq {ClsSk(m) : m \in Mats} \cup KemShared
    BY <1>4, <2>1 DEF HybridGenerate, TypeOK
  <2>5. last' \in LastRec
    <3>1. keys'[h] \in KeyRec \cup {NoKey}
      BY <2>3
    <3>2. "HybridGenerate" \in Ops
      BY DEF Ops
    <3>3. \/ Record("HybridGenerate", keys'[h], NoKey, NoKey, Done, FALSE)
          \/ Record("HybridGenerate", NoKey, NoKey, NoKey, Panic, FALSE)
      BY <1>4 DEF HybridGenerate
    <3>4. QED
      BY <1>0, <3>1, <3>2, <3>3, RecordLast
  <2>6. QED
    BY <1>4, <2>1, <2>3, <2>4, <2>5 DEF HybridGenerate, TypeOK
<1>5. ASSUME NEW h \in Handles, HybridEncapsulate(h)
      PROVE  TypeOK'
  <2> DEFINE k == keys[h]
             e == rng + 1
             c == [variant |-> k.variant, mat |-> k.mat, r |-> e]
  <2>1. k \in KeyRec /\ e \in Mats /\ rng' \in 0..MaxDraws
    BY <1>5 DEF HybridEncapsulate, TypeOK, Mats
  <2>2. c \in Ct /\ e \in 0..MaxDraws /\ k.mat \in 0..MaxDraws
    BY <2>1 DEF Ct, KeyRec, Mats
  <2>3. Kdf(Dh(e, k.mat), KemSS(k.mat, e)) \in Shared
    <3>1. KemSS(k.mat, e) \in KemShared
      BY <2>1 DEF KemShared, KeyRec
    <3>2. QED
      BY <2>2, <3>1 DEF Shared
  <2>4. wire' \subseteq Output
    <3>1. [kind |-> "hybrid", ct |-> c, eph |-> e,
           ss |-> Kdf(Dh(e, k.mat), KemSS(k.mat, e))] \in Output
      BY <2>2, <2>3 DEF Output
    <3>2. QED
      BY <1>5, <3>1 DEF HybridEncapsulate, TypeOK
  <2>5. last' \in LastRec
    <3>1. /\ "HybridEncapsulate" \in Ops /\ k \in KeyRec \cup {NoKey}
          /\ c \in CtIn \cup {NoKey} /\ e \in EphIn \cup {NoKey}
      BY <2>1, <2>2 DEF Ops, CtIn, EphIn
    <3>2. TRUE \in BOOLEAN /\ FALSE \in BOOLEAN
      OBVIOUS
    <3>3. \/ Record("HybridEncapsulate", k, c, e, Done, TRUE)
          \/ Record("HybridEncapsulate", k, NoKey, NoKey, Panic, FALSE)
      BY <1>5 DEF HybridEncapsulate
    <3>4. QED
      BY <1>0, <3>1, <3>2, <3>3, RecordLast
  <2>6. QED
    BY <1>5, <2>1, <2>4, <2>5 DEF HybridEncapsulate, TypeOK
<1>6. ASSUME NEW h \in Handles, NEW e \in EphsSeen, NEW c \in CtsSeen,
             HybridDecapsulate(h, e, c)
      PROVE  TypeOK'
  <2>1. keys[h] \in KeyRec /\ e \in EphIn /\ c \in CtIn
    BY <1>6, InputsType DEF HybridDecapsulate, TypeOK
  <2>2. residue' \subseteq {ClsSk(m) : m \in Mats} \cup KemShared
    BY <1>6, <2>1, HybridDecapsOutcomeType DEF HybridDecapsulate, TypeOK
  <2>3. last' \in LastRec
    BY <1>0, <1>6, <2>1, HybridDecapsOutcomeType, RecordType
       DEF Ops, HybridDecapsulate, Record
  <2>4. QED
    BY <1>6, <2>2, <2>3 DEF HybridDecapsulate, TypeOK
<1>7. ASSUME NEW h \in Handles, NEW g \in Handles, Clone(h, g)
      PROVE  TypeOK'
  <2>1. keys[h] \in KeyRec
    BY <1>7 DEF Clone, TypeOK
  <2>2. last' \in LastRec
    BY <1>0, <1>7, <2>1, RecordType DEF Ops, Clone, Record
  <2>3. QED
    BY <1>7, <2>1, <2>2 DEF Clone, TypeOK
<1>8. ASSUME NEW h \in Handles, NEW g \in Handles, Deserialize(h, g)
      PROVE  TypeOK'
  <2>1. [kind |-> keys[h].kind, variant |-> keys[h].variant,
         mat |-> keys[h].mat, sk |-> FALSE, cls |-> FALSE] \in KeyRec
    BY <1>8 DEF Deserialize, TypeOK, KeyRec
  <2>2. keys' \in [Handles -> KeyRec \cup {NoKey}]
    BY <1>8, <2>1 DEF Deserialize, TypeOK
  <2>3. last' \in LastRec
    BY <1>0, <1>8, <2>1, <2>2, RecordType DEF Ops, Deserialize, Record
  <2>4. QED
    BY <1>8, <2>2, <2>3 DEF Deserialize, TypeOK
<1>9. ASSUME NEW h \in Handles, ClearClassical(h)
      PROVE  TypeOK'
  <2>1. keys[h] \in KeyRec
    BY <1>9 DEF ClearClassical, TypeOK
  <2>2. [kind |-> keys[h].kind, variant |-> keys[h].variant,
         mat |-> keys[h].mat, sk |-> keys[h].sk, cls |-> FALSE] \in KeyRec
    BY <2>1 DEF KeyRec
  <2>3. keys' \in [Handles -> KeyRec \cup {NoKey}]
    BY <1>9, <2>2 DEF ClearClassical, TypeOK
  <2>4. residue' \subseteq {ClsSk(m) : m \in Mats} \cup KemShared
    BY <1>9, <2>1 DEF ClearClassical, TypeOK, KeyRec
  <2>5. last' \in LastRec
    BY <1>0, <1>9, <2>3, RecordType DEF Ops, ClearClassical, Record
  <2>6. QED
    BY <1>9, <2>3, <2>4, <2>5 DEF ClearClassical, TypeOK
<1>10. ASSUME NEW h \in Handles, Drop(h)
       PROVE  TypeOK'
  <2>1. keys[h] \in KeyRec
    BY <1>10 DEF Drop, TypeOK
  <2>2. last' \in LastRec
    BY <1>0, <1>10, <2>1, RecordType DEF Ops, Drop, Record
  <2>3. QED
    BY <1>10, <2>2 DEF Drop, TypeOK
<1>11. CASE Exhausted \/ UNCHANGED vars
  BY <1>11 DEF Exhausted, vars, TypeOK
<1>12. QED
  BY <1>1, <1>2, <1>3, <1>4, <1>5, <1>6, <1>7, <1>8, <1>9, <1>10, <1>11
     DEF Next

\* The initial state is well typed.
LEMMA InitTypeOK == Init => TypeOK
<1> SUFFICES ASSUME Init PROVE TypeOK
  OBVIOUS
<1>1. last \in LastRec
  <2>1. [op |-> "Init", key |-> NoKey, ct |-> NoKey, eph |-> NoKey,
         res |-> Done, pqcTried |-> FALSE] \in LastRec
    BY RecordType DEF Ops, Results
  <2>2. QED
    BY <2>1 DEF Init
<1>2. keys \in [Handles -> KeyRec \cup {NoKey}] /\ rng \in 0..MaxDraws
  BY DEF Init
<1>3. QED
  BY <1>1, <1>2 DEF Init, TypeOK

(***************************************************************************)
(* Type correctness: in every reachable state every variable has its type. *)
(***************************************************************************)
THEOREM TypeCorrect == Spec => []TypeOK
BY InitTypeOK, TypeOKStep, PTL DEF Spec

(***************************************************************************)
(* A hybrid key pair without its classical secret fails at once.           *)
(***************************************************************************)
LEMMA HybridDecapsNoClassical ==
    ASSUME NEW k, NEW e, NEW c, ~k.cls
    PROVE  HybridDecapsOutcome(k, e, c)
             = [res |-> Err("InvalidKeyMaterial"), tried |-> FALSE, left |-> {}]
BY DEF HybridDecapsOutcome

(***************************************************************************)
(* Only the two encapsulations record their own op, and neither changes    *)
(* the residue; every other step records another op or changes nothing.   *)
(***************************************************************************)
LEMMA EncapsulationStep ==
    [Next]_vars =>
        (last'.op \in {"Encapsulate", "HybridEncapsulate"} => residue' = residue)
<1> SUFFICES ASSUME [Next]_vars,
                    last'.op \in {"Encapsulate", "HybridEncapsulate"}
             PROVE  residue' = residue
  OBVIOUS
<1>1. CASE \E h \in Handles : Encapsulate(h) \/ HybridEncapsulate(h)
  BY <1>1 DEF Encapsulate, HybridEncapsulate
<1>2. CASE \/ \E h \in Handles, v \in KemVariants : Generate(h, v)
           \/ \E h \in Handles : HybridGenerate(h)
           \/ \E h \in Handles, c \in CtsSeen : Decapsulate(h, c)
           \/ \E h \in Handles, e \in EphsSeen, c \in CtsSeen :
                 HybridDecapsulate(h, e, c)
           \/ \E h, g \in Handles : Clone(h, g) \/ Deserialize(h, g)
           \/ \E h \in Handles : ClearClassical(h) \/ Drop(h)
  <2>1. last'.op \notin {"Encapsulate", "HybridEncapsulate"}
    BY <1>2 DEF Generate, HybridGenerate, Decapsulate, HybridDecapsulate,
                Clone, Deserialize, ClearClassical, Drop, Record
  <2>2. QED  BY <2>1
<1>3. CASE Exhausted \/ UNCHANGED vars
  BY <1>3 DEF Exhausted, vars
<1>4. QED
  BY <1>1, <1>2, <1>3 DEF Next

(***************************************************************************)
(* No encapsulation step, successful or panicking, ever adds a secret to   *)
(* freed memory: the ephemeral scalar is zeroized before the ML-KEM draw   *)
(* that may panic (hybrid.rs:89).                                          *)
(***************************************************************************)
THEOREM EncapsulationLeavesNoResidueHolds == Spec => EncapsulationLeavesNoResidue
BY EncapsulationStep, PTL DEF Spec, EncapsulationLeavesNoResidue

(***************************************************************************)
(* The ML-KEM rows of the catalog (MlKemVariant::key_sizes and             *)
(* ciphertext_size) are the sizes FIPS 203 gives its parameter sets.       *)
(***************************************************************************)
LEMMA KemCatalogMatchesFips ==
    ASSUME NEW v \in AllKemVariants
    PROVE  /\ FipsKemSizes(v).ct = CiphertextSize[v]
           /\ FipsKemSizes(v).pk = KemKeySizes[v][1]
<1>1. CASE v = "MlKem512"
  BY <1>1 DEF FipsKemSizes, MlKemParams, CiphertextSize, KemKeySizes
<1>2. CASE v = "MlKem768"
  BY <1>2 DEF FipsKemSizes, MlKemParams, CiphertextSize, KemKeySizes
<1>3. CASE v = "MlKem1024"
  BY <1>3 DEF FipsKemSizes, MlKemParams, CiphertextSize, KemKeySizes
<1>4. QED
  BY <1>1, <1>2, <1>3 DEF AllKemVariants

(***************************************************************************)
(* Spec 8: in every reachable state every ciphertext encapsulate returned  *)
(* has the catalog's ciphertext_size for its variant and every key pair    *)
(* held has the catalog's public key size -- for every set of variants,   *)
(* since each ciphertext and each pair carries a variant in use and the    *)
(* catalog agrees with FIPS 203 on every variant.                          *)
(***************************************************************************)
THEOREM CiphertextLengthHolds == Spec => []CiphertextLengthMatchesCatalog
<1>1. TypeOK => CiphertextLengthMatchesCatalog
  <2> SUFFICES ASSUME TypeOK PROVE CiphertextLengthMatchesCatalog
    OBVIOUS
  <2>1. ASSUME NEW o \in wire PROVE CtLen(o.ct) = CiphertextSize[o.ct.variant]
    <3>1. o.ct \in Ct
      BY <2>1 DEF TypeOK, Output
    <3>2. o.ct # JunkCt /\ o.ct.variant \in AllKemVariants
      BY <3>1 DEF Ct
    <3>3. QED
      BY <3>2, KemCatalogMatchesFips DEF CtLen
  <2>2. ASSUME NEW h \in Handles, keys[h] # NoKey
        PROVE  PublicKeyLen(keys[h]) = KemKeySizes[keys[h].variant][1]
    <3>1. keys[h].variant \in AllKemVariants
      BY <2>2 DEF TypeOK, KeyRec
    <3>2. QED
      BY <3>1, KemCatalogMatchesFips DEF PublicKeyLen
  <2>3. QED
    BY <2>1, <2>2 DEF CiphertextLengthMatchesCatalog
<1>2. QED
  BY <1>1, TypeCorrect, PTL

=============================================================================
