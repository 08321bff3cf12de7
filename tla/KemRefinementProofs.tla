------------------------ MODULE KemRefinementProofs ------------------------
(***************************************************************************)
(* The ML-KEM and hybrid key pairs implement the key-exchange contract of  *)
(* KeyExchange under the refinement mapping of KemLifecycle, for every set *)
(* of slots and variants and every bound on the entropy draws.             *)
(***************************************************************************)
EXTENDS KemRoundTripProofs

USE ConstantsAssumption, SentinelAssumption

(***************************************************************************)
(* Coins are drawn after the key material they encapsulate to and at most *)
(* once: every ciphertext's coins are newer than its key material and no   *)
(* newer than the last draw, a hybrid ephemeral scalar is the draw its     *)
(* ciphertext took, and no two encapsulation results share their coins.   *)
(***************************************************************************)
CoinsFresh ==
    \A o \in wire :
        /\ o.ct.mat < o.ct.r
        /\ o.ct.r <= rng
        /\ o.kind = "hybrid" => o.eph = o.ct.r

CoinsUnique == \A o1, o2 \in wire : o1.ct.r = o2.ct.r => o1 = o2

(***************************************************************************)
(* A key pair that has its classical secret has its post-quantum secret    *)
(* too: only serde drops secret_key, and it drops classical_secret with    *)
(* it.                                                                     *)
(***************************************************************************)
ClassicalNeedsSecret ==
    \A h \in Handles : keys[h] # NoKey /\ keys[h].cls => keys[h].sk

RefInv == /\ RoundTripInv
          /\ CoinsFresh
          /\ CoinsUnique
          /\ ClassicalNeedsSecret


-----------------------------------------------------------------------------
(***************************************************************************)
(* Every step keeps the coins fresh and unique and the classical secret    *)
(* tied to the post-quantum one: a draw is newer than every value already  *)
(* in use, and every change of a slot keeps cls => sk.                     *)
(***************************************************************************)
LEMMA CoinsStep ==
    RefInv /\ [Next]_vars => (CoinsFresh /\ CoinsUnique /\ ClassicalNeedsSecret)'
<1> SUFFICES ASSUME RefInv, [Next]_vars
             PROVE  (CoinsFresh /\ CoinsUnique /\ ClassicalNeedsSecret)'
  OBVIOUS
<1> USE DEF RefInv, RoundTripInv
<1>0. /\ rng \in 0..MaxDraws
      /\ keys \in [Handles -> KeyRec \cup {NoKey}]
      /\ \A o \in wire : o \in Output
  BY DEF TypeOK
<1>1. ASSUME NEW h \in Handles, NEW v \in KemVariants, Generate(h, v)
      PROVE  (CoinsFresh /\ CoinsUnique /\ ClassicalNeedsSecret)'
  <2>1. /\ rng' = rng + 1 /\ wire' = wire
        /\ \/ keys' = keys
           \/ keys' = [keys EXCEPT ![h] = [kind |-> "kem", variant |-> v,
                         mat |-> rng + 1, sk |-> TRUE, cls |-> FALSE]]
    BY <1>1 DEF Generate
  <2>2. QED
    BY <1>0, <2>1 DEF CoinsFresh, CoinsUnique, ClassicalNeedsSecret, Output,
                      Ct, Mats
<1>2. ASSUME NEW h \in Handles, HybridGenerate(h)
      PROVE  (CoinsFresh /\ CoinsUnique /\ ClassicalNeedsSecret)'
  <2>1. /\ rng' = rng + 1 /\ wire' = wire
        /\ \/ keys' = keys
           \/ keys' = [keys EXCEPT ![h] = [kind |-> "hybrid",
                         variant |-> "MlKem768", mat |-> rng + 1, sk |-> TRUE,
                         cls |-> TRUE]]
    BY <1>2 DEF HybridGenerate
  <2>2. QED
    BY <1>0, <2>1 DEF CoinsFresh, CoinsUnique, ClassicalNeedsSecret, Output,
                      Ct, Mats
<1>3. ASSUME NEW h \in Handles, Encapsulate(h)
      PROVE  (CoinsFresh /\ CoinsUnique /\ ClassicalNeedsSecret)'
  <2> DEFINE k == keys[h]
             c == [variant |-> k.variant, mat |-> k.mat, r |-> rng + 1]
             o == [kind |-> "kem", ct |-> c, eph |-> 0,
                   ss |-> KemSS(k.mat, rng + 1)]
  <2>1. /\ rng' = rng + 1 /\ keys' = keys
        /\ wire' = wire \/ wire' = wire \cup {o}
    BY <1>3 DEF Encapsulate
  <2>2. k \in KeyRec /\ k.mat <= rng
    BY <1>0, <1>3 DEF Encapsulate, MaterialAgrees
  <2>3. QED
    BY <1>0, <2>1, <2>2 DEF CoinsFresh, CoinsUnique, ClassicalNeedsSecret,
                           KeyRec, Output, Ct, Mats
<1>4. ASSUME NEW h \in Handles, HybridEncapsulate(h)
      PROVE  (CoinsFresh /\ CoinsUnique /\ ClassicalNeedsSecret)'
  <2> DEFINE k == keys[h]
             c == [variant |-> k.variant, mat |-> k.mat, r |-> rng + 1]
             o == [kind |-> "hybrid", ct |-> c, eph |-> rng + 1,
                   ss |-> Kdf(Dh(rng + 1, k.mat), KemSS(k.mat, rng + 1))]
  <2>1. /\ rng' = rng + 1 /\ keys' = keys
        /\ wire' = wire \/ wire' = wire \cup {o}
    BY <1>4 DEF HybridEncapsulate
  <2>2. k \in KeyRec /\ k.mat <= rng
    BY <1>0, <1>4 DEF HybridEncapsulate, MaterialAgrees
  <2>3. QED
    BY <1>0, <2>1, <2>2 DEF CoinsFresh, CoinsUnique, ClassicalNeedsSecret,
                           KeyRec, Output, Ct, Mats
<1>5. ASSUME NEW h \in Handles, NEW g \in Handles,
             Clone(h, g) \/ Deserialize(h, g)
      PROVE  (CoinsFresh /\ CoinsUnique /\ ClassicalNeedsSecret)'
  <2>1. /\ rng' = rng /\ wire' = wire
        /\ keys[h] # NoKey
        /\ keys' = [keys EXCEPT ![g] = keys'[g]]
        /\ keys'[g] # NoKey /\ keys'[g].cls => keys'[g].sk
    <3>1. CASE Clone(h, g)
      BY <1>0, <3>1 DEF Clone, ClassicalNeedsSecret
    <3>2. CASE Deserialize(h, g)
      BY <1>0, <3>2 DEF Deserialize
    <3>3. QED
      BY <1>5, <3>1, <3>2
  <2>2. QED
    BY <1>0, <2>1 DEF CoinsFresh, CoinsUnique, ClassicalNeedsSecret
<1>6. ASSUME NEW h \in Handles, ClearClassical(h) \/ Drop(h)
      PROVE  (CoinsFresh /\ CoinsUnique /\ ClassicalNeedsSecret)'
  <2>1. /\ rng' = rng /\ wire' = wire /\ keys[h] # NoKey
        /\ \/ keys' = [keys EXCEPT ![h] = NoKey]
           \/ keys' = [keys EXCEPT ![h] = [kind |-> keys[h].kind,
                         variant |-> keys[h].variant, mat |-> keys[h].mat,
                         sk |-> keys[h].sk, cls |-> FALSE]]
    BY <1>6 DEF ClearClassical, Drop
  <2>2. QED
    BY <1>0, <2>1 DEF CoinsFresh, CoinsUnique, ClassicalNeedsSecret
<1>7. ASSUME \/ \E h \in Handles, c \in CtsSeen : Decapsulate(h, c)
             \/ \E h \in Handles, e \in EphsSeen, c \in CtsSeen :
                   HybridDecapsulate(h, e, c)
             \/ Exhausted \/ UNCHANGED vars
      PROVE  (CoinsFresh /\ CoinsUnique /\ ClassicalNeedsSecret)'
  <2>1. UNCHANGED <<keys, rng, wire>>
    BY <1>7 DEF Decapsulate, HybridDecapsulate, Exhausted, vars
  <2>2. QED
    BY <2>1 DEF CoinsFresh, CoinsUnique, ClassicalNeedsSecret
<1>8. QED
  BY <1>1, <1>2, <1>3, <1>4, <1>5, <1>6, <1>7 DEF Next


-----------------------------------------------------------------------------
(***************************************************************************)
(* The X25519 secret of a pair of scalars determines the pair: if it is    *)
(* the secret of a and e and of b and a, with a # b, then e is b.          *)
(***************************************************************************)
LEMMA DhCancel ==
    ASSUME NEW a, NEW b, NEW e, a # b, Dh(a, e) = Dh(b, a)
    PROVE  e = b
<1>1. {a, e} = {b, a}
  BY DEF Dh
<1>2. QED
  BY <1>1, Zenon

(***************************************************************************)
(* The shared values of different origins differ: a KEM shared key, an     *)
(* implicit rejection key and a combined hybrid secret are never equal.    *)
(***************************************************************************)
LEMMA SharedKindsDiffer ==
    ASSUME NEW m, NEW r, NEW m2, NEW c, NEW x, NEW y
    PROVE  /\ KemSS(m, r) # Kdf(x, y)
           /\ Reject(m2, c) # KemSS(m, r)
           /\ Reject(m2, c) # Kdf(x, y)
BY DEF KemSS, Reject, Kdf

(***************************************************************************)
(* An encapsulation result records the secret of its own kind: the KEM     *)
(* key of its coins, or for the hybrid the combination with the X25519     *)
(* secret of its ephemeral scalar.                                         *)
(***************************************************************************)
LEMMA WireFacts ==
    ASSUME RefInv, NEW o \in wire
    PROVE  /\ o.ct \in Ct /\ o.kind \in {"kem", "hybrid"}
           /\ o.eph \in 0..MaxDraws
           /\ o.ct.mat < o.ct.r
           /\ o.kind = "kem" => o.ss = KemSS(o.ct.mat, o.ct.r)
           /\ o.kind = "hybrid" =>
                 /\ o.eph = o.ct.r
                 /\ o.ss = Kdf(Dh(o.eph, o.ct.mat), KemSS(o.ct.mat, o.ct.r))
           /\ WireCt(o) = <<o.ct, IF o.kind = "hybrid" THEN o.eph ELSE NoKey>>
BY DEF RefInv, RoundTripInv, TypeOK, Output, WireWellFormed, CoinsFresh,
       WireCt

(***************************************************************************)
(* A ciphertext the caller holds other than the junk one is the ciphertext *)
(* of exactly one encapsulation result: the one that drew its coins.      *)
(***************************************************************************)
LEMMA CtOrigin ==
    ASSUME RefInv, NEW c \in CtsSeen, c # JunkCt, NEW o \in wire,
           c.r = o.ct.r
    PROVE  c = o.ct
<1>1. PICK o2 \in wire : c = o2.ct
  BY DEF CtsSeen
<1>2. o2 = o
  BY <1>1 DEF RefInv, CoinsUnique
<1>3. QED
  BY <1>1, <1>2

(***************************************************************************)
(* An ML-KEM decapsulation by a pair holding its secret key returns the    *)
(* secret of an encapsulation result exactly when the result is for the    *)
(* pair's material and the ciphertext is that result's.                    *)
(***************************************************************************)
LEMMA KemAnswer ==
    ASSUME RefInv, NEW h \in Handles, keys[h] # NoKey, keys[h].sk,
           NEW c \in CtsSeen, NEW o \in wire
    PROVE  (o.ct.mat = keys[h].mat /\ WireCt(o) = <<c, NoKey>>)
             <=> KemDecapsResult(keys[h], c) = Ok(o.ss)
<1> DEFINE k == keys[h]
<1>0. /\ k \in KeyRec
      /\ NoKey \notin 0..MaxDraws
  BY DEF RefInv, RoundTripInv, TypeOK, EphIn
<1>1. ASSUME o.ct.mat = k.mat, WireCt(o) = <<c, NoKey>>
      PROVE  KemDecapsResult(k, c) = Ok(o.ss)
  <2>1. o.kind = "kem" /\ o.ct = c
    BY <1>0, <1>1, WireFacts
  <2>2. c \in Ct /\ c.variant = k.variant
    BY <1>1, <2>1, WireFacts DEF RefInv, RoundTripInv, MaterialAgrees
  <2>3. o.ss = KemSS(k.mat, c.r)
    BY <1>1, <2>1, WireFacts
  <2>4. QED
    BY <1>0, <1>1, <2>1, <2>2, <2>3, KemDecapsOwn
<1>2. ASSUME KemDecapsResult(k, c) = Ok(o.ss)
      PROVE  o.ct.mat = k.mat /\ WireCt(o) = <<c, NoKey>>
  <2>1. c # JunkCt /\ c.variant = k.variant
    BY <1>2 DEF KemDecapsResult, Ok, Err
  <2>2. c \in Ct
    BY <2>1 DEF CtsSeen, RefInv, RoundTripInv, TypeOK, Output
  <2>3. \/ o.ss = KemSS(o.ct.mat, o.ct.r) /\ o.kind = "kem"
        \/ o.ss = Kdf(Dh(o.eph, o.ct.mat), KemSS(o.ct.mat, o.ct.r))
    BY WireFacts
  <2>4. c.mat = k.mat
    <3>1. c.mat # k.mat => KemDecapsResult(k, c) = Ok(Reject(k.mat, c))
      BY <2>1 DEF KemDecapsResult
    <3>2. QED
      BY <1>2, <2>3, <3>1, SharedKindsDiffer DEF Ok
  <2>5. KemDecapsResult(k, c) = Ok(KemSS(k.mat, c.r))
    BY <2>1, <2>4 DEF KemDecapsResult
  <2>6. o.kind = "kem" /\ k.mat = o.ct.mat /\ c.r = o.ct.r
    BY <1>2, <2>3, <2>5, SharedKindsDiffer DEF Ok, KemSS
  <2>7. c = o.ct
    BY <2>1, <2>6, CtOrigin
  <2>8. QED
    BY <2>6, <2>7, WireFacts
<1>3. QED
  BY <1>1, <1>2


(***************************************************************************)
(* A hybrid decapsulation by a pair holding both secrets returns the       *)
(* secret of an encapsulation result exactly when the result is for the    *)
(* pair's material and both the ciphertext and the ephemeral key given are *)
(* that result's: a wrong ephemeral key gives another X25519 secret, a     *)
(* foreign ciphertext an implicit rejection key, and neither combines to   *)
(* a published secret.                                                     *)
(***************************************************************************)
LEMMA HybridAnswer ==
    ASSUME RefInv, NEW h \in Handles, keys[h] # NoKey, keys[h].sk,
           keys[h].cls, NEW e \in EphsSeen, NEW c \in CtsSeen, NEW o \in wire
    PROVE  (o.ct.mat = keys[h].mat /\ WireCt(o) = <<c, e>>)
             <=> HybridDecapsOutcome(keys[h], e, c).res = Ok(o.ss)
<1> DEFINE k == keys[h]
           pqc == KemDecapsResult(k, c)
<1>0. /\ k \in KeyRec
      /\ e # NoKey
  <2>1. EphsSeen \subseteq EphIn
    BY InputsType DEF RefInv, RoundTripInv
  <2>2. QED
    BY <2>1 DEF RefInv, RoundTripInv, TypeOK
<1>1. ASSUME o.ct.mat = k.mat, WireCt(o) = <<c, e>>
      PROVE  HybridDecapsOutcome(k, e, c).res = Ok(o.ss)
  <2>1. o.kind = "hybrid" /\ o.ct = c /\ o.eph = e
    BY <1>0, <1>1, WireFacts
  <2>2. c \in Ct /\ c.variant = k.variant /\ e \in 0..MaxDraws
    BY <1>1, <2>1, WireFacts DEF RefInv, RoundTripInv, MaterialAgrees
  <2>3. o.ss = Kdf(Dh(e, k.mat), KemSS(k.mat, c.r))
    BY <1>1, <2>1, WireFacts
  <2>4. QED
    BY <1>0, <1>1, <2>1, <2>2, <2>3, HybridDecapsOwn
<1>2. ASSUME HybridDecapsOutcome(k, e, c).res = Ok(o.ss)
      PROVE  o.ct.mat = k.mat /\ WireCt(o) = <<c, e>>
  <2>0. pqc = Err("Decapsulation") \/ pqc.tag = "ok"
    <3>1. c \in CtIn
      BY InputsType DEF RefInv, RoundTripInv
    <3>2. QED
      BY <1>0, <3>1, KemDecapsResultType
  <2>1. /\ pqc.tag = "ok"
        /\ Ok(o.ss) = Ok(Kdf(Dh(k.mat, e), pqc.val))
    BY <1>2, <2>0 DEF HybridDecapsOutcome, Ok, Err
  <2>2. c # JunkCt /\ c.variant = k.variant /\ k.sk
    BY <2>1 DEF KemDecapsResult, Err
  <2>3. \/ o.ss = KemSS(o.ct.mat, o.ct.r) /\ o.kind = "kem"
        \/ /\ o.ss = Kdf(Dh(o.eph, o.ct.mat), KemSS(o.ct.mat, o.ct.r))
           /\ o.kind = "hybrid" /\ o.eph = o.ct.r
    BY WireFacts
  <2>4. /\ o.kind = "hybrid" /\ o.eph = o.ct.r
        /\ Dh(k.mat, e) = Dh(o.eph, o.ct.mat)
        /\ pqc.val = KemSS(o.ct.mat, o.ct.r)
    BY <2>1, <2>3, SharedKindsDiffer DEF Ok, Kdf
  <2>5. c.mat = k.mat
    <3>1. c.mat # k.mat => pqc.val = Reject(k.mat, c)
      BY <2>2 DEF KemDecapsResult, Ok
    <3>2. QED
      BY <2>4, <3>1, SharedKindsDiffer
  <2>6. k.mat = o.ct.mat /\ c.r = o.ct.r
    <3>1. pqc.val = KemSS(k.mat, c.r)
      BY <2>2, <2>5 DEF KemDecapsResult, Ok
    <3>2. QED
      BY <2>4, <3>1 DEF KemSS
  <2>7. c = o.ct
    BY <2>2, <2>6, CtOrigin
  <2>8. e = o.eph
    <3>1. k.mat # o.eph
      BY <2>4, <2>6, WireFacts
    <3>2. Dh(k.mat, e) = Dh(o.eph, k.mat)
      BY <2>4, <2>6
    <3>3. QED
      BY <3>1, <3>2, DhCancel
  <2>9. QED
    BY <2>4, <2>6, <2>7, <2>8, WireFacts
<1>3. QED
  BY <1>1, <1>2


-----------------------------------------------------------------------------
(***************************************************************************)
(* A step that hands out no encapsulation and records no decapsulation is  *)
(* an Idle step of the contract.                                           *)
(***************************************************************************)
LEMMA IdleRefines ==
    ASSUME wire' = wire, last'.op \notin {"Decapsulate", "HybridDecapsulate"}
    PROVE  KX!Idle
BY DEF KX!Idle, Published, Answered

(***************************************************************************)
(* An encapsulation result whose coins are the new draw rng + 1 is a new   *)
(* entry of the contract: its ciphertext and its secret are fresh.         *)
(***************************************************************************)
LEMMA NewResultRefines ==
    ASSUME RefInv, NEW o, rng < MaxDraws, o.ct \in Ct, o.ct.r = rng + 1,
           o.kind \in {"kem", "hybrid"},
           o.kind = "kem" => o.eph = 0 /\ o.ss = KemSS(o.ct.mat, rng + 1),
           o.kind = "hybrid" =>
              /\ o.eph = rng + 1
              /\ o.ss = Kdf(Dh(rng + 1, o.ct.mat), KemSS(o.ct.mat, rng + 1)),
           wire' = wire \cup {o},
           last'.op \notin {"Decapsulate", "HybridDecapsulate"}
    PROVE  KX!Encapsulate
<1> DEFINE p == [key |-> o.ct.mat, ct |-> WireCt(o), ss |-> o.ss]
<1>1. Published' = Published \cup {p}
  BY DEF Published
<1>2. ASSUME NEW q \in Published PROVE q.ct # p.ct /\ q.ss # p.ss
  <2>1. PICK o2 \in wire : q = [key |-> o2.ct.mat, ct |-> WireCt(o2), ss |-> o2.ss]
    BY <1>2 DEF Published
  <2>2. o2.ct.r # rng + 1 /\ o2.ct \in Ct
    BY DEF RefInv, CoinsFresh, RoundTripInv, TypeOK, Output
  <2>3. o2.ct # o.ct
    BY <2>2
  <2>4. q.ct # p.ct
    BY <2>1, <2>3 DEF WireCt
  <2>5. \/ o2.ss = KemSS(o2.ct.mat, o2.ct.r)
        \/ o2.ss = Kdf(Dh(o2.eph, o2.ct.mat), KemSS(o2.ct.mat, o2.ct.r))
    BY WireFacts
  <2>6. KemSS(o2.ct.mat, o2.ct.r) # KemSS(o.ct.mat, rng + 1)
    BY <2>2 DEF KemSS
  <2>7. q.ss # p.ss
    <3>1. CASE o.kind = "kem"
      BY <2>1, <2>5, <2>6, <3>1, SharedKindsDiffer DEF Kdf
    <3>2. CASE o.kind = "hybrid"
      <4>1. CASE o2.ss = KemSS(o2.ct.mat, o2.ct.r)
        BY <2>1, <3>2, <4>1, SharedKindsDiffer
      <4>2. CASE o2.ss = Kdf(Dh(o2.eph, o2.ct.mat), KemSS(o2.ct.mat, o2.ct.r))
        BY <2>1, <2>6, <3>2, <4>2 DEF Kdf
      <4>3. QED
        BY <2>5, <4>1, <4>2
    <3>3. QED
      BY <3>1, <3>2
  <2>8. QED
    BY <2>4, <2>7
<1>3. p \in KX!Entry
  <2>1. o.ct.mat \in Mats /\ rng + 1 \in Mats /\ o.ct \in CtIn
    BY DEF Ct, CtIn, Mats, RefInv, RoundTripInv, TypeOK
  <2>2. WireCt(o) \in CtIn \X (EphIn \cup {NoKey})
    BY <2>1 DEF WireCt, EphIn, Mats
  <2>3. KemSS(o.ct.mat, rng + 1) \in KemShared
    BY <2>1 DEF KemShared
  <2>4. o.ss \in Shared
    <3>1. CASE o.kind = "kem"
      BY <2>3, <3>1 DEF Shared
    <3>2. CASE o.kind = "hybrid"
      <4>1. rng + 1 \in 0..MaxDraws /\ o.ct.mat \in 0..MaxDraws
        BY <2>1 DEF Mats
      <4>2. QED
        BY <2>3, <3>2, <4>1 DEF Shared
    <3>3. QED
      BY <3>1, <3>2
  <2>5. QED
    BY <2>1, <2>2, <2>4 DEF KX!Entry
<1>4. p \notin Published
  BY <1>2
<1>5. Answered' = NoKey
  BY DEF Answered
<1>6. QED
  BY <1>1, <1>2, <1>3, <1>4, <1>5 DEF KX!Encapsulate, KX!Fresh


(***************************************************************************)
(* An ML-KEM decapsulation is a Decapsulate step of the contract: with its *)
(* secret key the pair answers as a holder, without it with an error.      *)
(***************************************************************************)
LEMMA KemDecapsRefines ==
    ASSUME RefInv, NEW h \in Handles, NEW c \in CtsSeen, Decapsulate(h, c)
    PROVE  KX!Decapsulate
<1> DEFINE k == keys[h]
           a == [key |-> k.mat, ct |-> <<c, NoKey>>, holder |-> k.sk,
                 res |-> KemDecapsResult(k, c)]
<1>1. /\ k \in KeyRec /\ k # NoKey /\ k.kind = "kem" /\ wire' = wire
      /\ last' = [op |-> "Decapsulate", key |-> k, ct |-> c, eph |-> NoKey,
                  res |-> KemDecapsResult(k, c), pqcTried |-> k.sk]
  BY DEF Decapsulate, Record, RefInv, RoundTripInv, TypeOK
<1>2. Published' = Published
  BY <1>1 DEF Published
<1>3. Answered' = a
  BY <1>1 DEF Answered, HoldsSecret, KeyRec
<1>4. a \in KX!Answer
  <2>1. c \in CtIn
    BY InputsType DEF RefInv, RoundTripInv
  <2>2. KemDecapsResult(k, c) \in Results
    BY <1>1, <2>1, KemDecapsResultType DEF Results, Shared, Err, ErrKinds
  <2>3. QED
    BY <1>1, <2>1, <2>2 DEF KX!Answer, KeyRec
<1>5. k.sk => KX!HolderResult(a)
  <2> SUFFICES ASSUME k.sk, NEW q \in Published
               PROVE  (q.key = a.key /\ q.ct = a.ct) <=> a.res = KX!Ok(q.ss)
    BY DEF KX!HolderResult
  <2>1. PICK o \in wire : q = [key |-> o.ct.mat, ct |-> WireCt(o), ss |-> o.ss]
    BY DEF Published
  <2>2. QED
    BY <1>1, <2>1, KemAnswer DEF KX!Ok, Ok
<1>6. ~k.sk => a.res.tag # "ok"
  BY DEF KemDecapsResult, Err
<1>7. QED
  BY <1>2, <1>3, <1>4, <1>5, <1>6 DEF KX!Decapsulate

(***************************************************************************)
(* A hybrid decapsulation is a Decapsulate step of the contract: with both *)
(* secrets the pair answers as a holder; a pair missing one of them misses *)
(* the classical secret and fails with InvalidKeyMaterial.                 *)
(***************************************************************************)
LEMMA HybridDecapsRefines ==
    ASSUME RefInv, NEW h \in Handles, NEW e \in EphsSeen, NEW c \in CtsSeen,
           HybridDecapsulate(h, e, c)
    PROVE  KX!Decapsulate
<1> DEFINE k == keys[h]
           a == [key |-> k.mat, ct |-> <<c, e>>, holder |-> k.sk /\ k.cls,
                 res |-> HybridDecapsOutcome(k, e, c).res]
<1>1. /\ k \in KeyRec /\ k # NoKey /\ k.kind = "hybrid" /\ wire' = wire
      /\ last' = [op |-> "HybridDecapsulate", key |-> k, ct |-> c, eph |-> e,
                  res |-> HybridDecapsOutcome(k, e, c).res,
                  pqcTried |-> HybridDecapsOutcome(k, e, c).tried]
  BY DEF HybridDecapsulate, Record, RefInv, RoundTripInv, TypeOK
<1>2. Published' = Published
  BY <1>1 DEF Published
<1>3. Answered' = a
  BY <1>1 DEF Answered, HoldsSecret
<1>4. a \in KX!Answer
  <2>1. c \in CtIn /\ e \in EphIn
    BY InputsType DEF RefInv, RoundTripInv
  <2>2. HybridDecapsOutcome(k, e, c).res \in Results
    BY <1>1, <2>1, HybridDecapsOutcomeType
  <2>3. QED
    BY <1>1, <2>1, <2>2 DEF KX!Answer, KeyRec
<1>5. k.sk /\ k.cls => KX!HolderResult(a)
  <2> SUFFICES ASSUME k.sk, k.cls, NEW q \in Published
               PROVE  (q.key = a.key /\ q.ct = a.ct) <=> a.res = KX!Ok(q.ss)
    BY DEF KX!HolderResult
  <2>1. PICK o \in wire : q = [key |-> o.ct.mat, ct |-> WireCt(o), ss |-> o.ss]
    BY DEF Published
  <2>2. QED
    BY <1>1, <2>1, HybridAnswer DEF KX!Ok, Ok
<1>6. ~(k.sk /\ k.cls) => a.res.tag # "ok"
  <2>1. ~(k.sk /\ k.cls) => ~k.cls
    BY <1>1 DEF RefInv, ClassicalNeedsSecret
  <2>2. QED
    BY <2>1, HybridDecapsNoClassical DEF Err
<1>7. QED
  BY <1>2, <1>3, <1>4, <1>5, <1>6 DEF KX!Decapsulate


(***************************************************************************)
(* Every step of the key pairs is a step of the contract or leaves the     *)
(* contract's state alone.                                                 *)
(***************************************************************************)
LEMMA RefinementStep == RefInv /\ [Next]_vars => [KX!Next]_KX!vars
<1> SUFFICES ASSUME RefInv, [Next]_vars PROVE [KX!Next]_KX!vars
  OBVIOUS
<1>0. /\ rng \in 0..MaxDraws
      /\ keys \in [Handles -> KeyRec \cup {NoKey}]
  BY DEF RefInv, RoundTripInv, TypeOK
<1>1. ASSUME \/ \E h \in Handles, v \in KemVariants : Generate(h, v)
             \/ \E h \in Handles : HybridGenerate(h)
             \/ \E h, g \in Handles : Clone(h, g) \/ Deserialize(h, g)
             \/ \E h \in Handles : ClearClassical(h) \/ Drop(h)
      PROVE  [KX!Next]_KX!vars
  <2>1. wire' = wire /\ last'.op \notin {"Decapsulate", "HybridDecapsulate"}
    BY <1>1 DEF Generate, HybridGenerate, Clone, Deserialize, ClearClassical,
                Drop, Record
  <2>2. QED
    BY <2>1, IdleRefines DEF KX!Next
<1>2. ASSUME NEW h \in Handles, Encapsulate(h)
      PROVE  [KX!Next]_KX!vars
  <2> DEFINE k == keys[h]
             c == [variant |-> k.variant, mat |-> k.mat, r |-> rng + 1]
             o == [kind |-> "kem", ct |-> c, eph |-> 0,
                   ss |-> KemSS(k.mat, rng + 1)]
  <2>1. /\ k \in KeyRec /\ rng < MaxDraws
        /\ last'.op \notin {"Decapsulate", "HybridDecapsulate"}
        /\ wire' = wire \/ wire' = wire \cup {o}
    BY <1>0, <1>2 DEF Encapsulate, Record
  <2>2. c \in Ct
    BY <1>0, <2>1 DEF KeyRec, Ct, Mats
  <2>3. wire' = wire \cup {o} => KX!Encapsulate
    BY <2>1, <2>2, NewResultRefines
  <2>4. QED
    BY <2>1, <2>3, IdleRefines DEF KX!Next
<1>3. ASSUME NEW h \in Handles, HybridEncapsulate(h)
      PROVE  [KX!Next]_KX!vars
  <2> DEFINE k == keys[h]
             c == [variant |-> k.variant, mat |-> k.mat, r |-> rng + 1]
             o == [kind |-> "hybrid", ct |-> c, eph |-> rng + 1,
                   ss |-> Kdf(Dh(rng + 1, k.mat), KemSS(k.mat, rng + 1))]
  <2>1. /\ k \in KeyRec /\ rng < MaxDraws
        /\ last'.op \notin {"Decapsulate", "HybridDecapsulate"}
        /\ wire' = wire \/ wire' = wire \cup {o}
    BY <1>0, <1>3 DEF HybridEncapsulate, Record
  <2>2. c \in Ct
    BY <1>0, <2>1 DEF KeyRec, Ct, Mats
  <2>3. wire' = wire \cup {o} => KX!Encapsulate
    BY <2>1, <2>2, NewResultRefines
  <2>4. QED
    BY <2>1, <2>3, IdleRefines DEF KX!Next
<1>4. ASSUME NEW h \in Handles, NEW c \in CtsSeen, Decapsulate(h, c)
      PROVE  [KX!Next]_KX!vars
  BY <1>4, KemDecapsRefines DEF KX!Next
<1>5. ASSUME NEW h \in Handles, NEW e \in EphsSeen, NEW c \in CtsSeen,
             HybridDecapsulate(h, e, c)
      PROVE  [KX!Next]_KX!vars
  BY <1>5, HybridDecapsRefines DEF KX!Next
<1>6. CASE Exhausted \/ UNCHANGED vars
  BY <1>6 DEF Exhausted, vars, KX!vars, Published, Answered
<1>7. QED
  BY <1>1, <1>2, <1>3, <1>4, <1>5, <1>6 DEF Next

(***************************************************************************)
(* The ML-KEM and hybrid key pairs implement the key-exchange contract,    *)
(* for every set of slots and variants and every bound on the draws: every *)
(* encapsulation hands out a new ciphertext with a new secret, a holder of *)
(* the key's secrets decapsulates exactly the secret encapsulated to that  *)
(* key with that ciphertext and never another's, and a pair without them   *)
(* fails.  The invariant RefInv adds to the round-trip invariant that      *)
(* coins are fresh and unique and that classical_secret needs secret_key:  *)
(* without them a foreign or replayed input could not be told apart.      *)
(***************************************************************************)
THEOREM KeyExchangeRefinedHolds == Spec => KeyExchangeRefined
<1>1. Init => RefInv
  <2> SUFFICES ASSUME Init PROVE RefInv
    OBVIOUS
  <2>2. RoundTripInv
    BY InitRoundTripInv
  <2>3. QED
    BY <2>2 DEF Init, RefInv, CoinsFresh, CoinsUnique, ClassicalNeedsSecret
<1>2. RefInv /\ [Next]_vars => RefInv'
  BY TypeOKStep, MaterialStep, RoundTripStep, CoinsStep DEF RefInv, RoundTripInv
<1>3. Init => KX!Init
  BY DEF Init, KX!Init, Published, Answered
<1>4. QED
  BY <1>1, <1>2, <1>3, RefinementStep, PTL DEF Spec, KeyExchangeRefined, KX!Spec

=============================================================================
