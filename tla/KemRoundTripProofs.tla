------------------------- MODULE KemRoundTripProofs -------------------------
(***************************************************************************)
(* The round trip of the ML-KEM and hybrid key pairs, for every set of     *)
(* slots and variants and every bound on the entropy draws.                *)
(***************************************************************************)
EXTENDS KemLifecycleProofs

USE ConstantsAssumption, SentinelAssumption

(***************************************************************************)
(* What an encapsulation result records: the shared secret of its          *)
(* ciphertext's key material and coins (and for the hybrid, of its         *)
(* ephemeral scalar), from material already drawn.                         *)
(***************************************************************************)
WireWellFormed ==
    \A o \in wire :
        /\ o.ct.mat <= rng
        /\ o.kind = "kem" => o.ss = KemSS(o.ct.mat, o.ct.r)
        /\ o.kind = "hybrid" =>
              o.ss = Kdf(Dh(o.eph, o.ct.mat), KemSS(o.ct.mat, o.ct.r))

(***************************************************************************)
(* Key material is drawn once: every key pair holding material m has the   *)
(* variant of every ciphertext made for m, and m is already drawn.         *)
(***************************************************************************)
MaterialAgrees ==
    \A h \in Handles :
        keys[h] # NoKey =>
            /\ keys[h].mat <= rng
            /\ \A o \in wire :
                  o.ct.mat = keys[h].mat => o.ct.variant = keys[h].variant
            /\ \A g \in Handles :
                  keys[g] # NoKey /\ keys[g].mat = keys[h].mat =>
                      keys[g].variant = keys[h].variant

RoundTripInv == /\ TypeOK
                /\ WireWellFormed
                /\ MaterialAgrees
                /\ RoundTrip

-----------------------------------------------------------------------------
(***************************************************************************)
(* ML-KEM decapsulation by a key pair holding its secret, of a well-formed *)
(* ciphertext made for its own material and variant, returns the shared    *)
(* key of the ciphertext's coins.                                          *)
(***************************************************************************)
LEMMA KemDecapsOwn ==
    ASSUME NEW k \in KeyRec, NEW c \in Ct, k.sk, c.variant = k.variant,
           c.mat = k.mat
    PROVE  KemDecapsResult(k, c) = Ok(KemSS(k.mat, c.r))
BY DEF KemDecapsResult

(***************************************************************************)
(* The hybrid decapsulation of a pair holding both secrets, given a real   *)
(* ephemeral key, returns the combination of the X25519 and ML-KEM keys.   *)
(***************************************************************************)
LEMMA HybridDecapsOwn ==
    ASSUME NEW k \in KeyRec, NEW c \in Ct, NEW e \in 0..MaxDraws,
           k.sk, k.cls, c.variant = k.variant, c.mat = k.mat
    PROVE  HybridDecapsOutcome(k, e, c).res
             = Ok(Kdf(Dh(e, k.mat), KemSS(k.mat, c.r)))
<1>1. KemDecapsResult(k, c) = Ok(KemSS(k.mat, c.r))
  BY KemDecapsOwn
<1>2. Dh(k.mat, e) = Dh(e, k.mat)
  BY DEF Dh
<1>3. QED
  BY <1>1, <1>2 DEF HybridDecapsOutcome, Ok

(***************************************************************************)
(* Every step keeps the encapsulation results well formed and the key      *)
(* material agreeing between key pairs and ciphertexts.                    *)
(***************************************************************************)
LEMMA MaterialStep ==
    RoundTripInv /\ [Next]_vars => (WireWellFormed /\ MaterialAgrees)'
<1> SUFFICES ASSUME RoundTripInv, [Next]_vars
             PROVE  (WireWellFormed /\ MaterialAgrees)'
  OBVIOUS
<1> USE DEF RoundTripInv
<1>0. /\ rng \in 0..MaxDraws
      /\ keys \in [Handles -> KeyRec \cup {NoKey}]
      /\ \A o \in wire : o \in Output
  BY DEF TypeOK
<1>1. ASSUME NEW h \in Handles, NEW v \in KemVariants, Generate(h, v)
      PROVE  (WireWellFormed /\ MaterialAgrees)'
  <2>1. /\ rng' = rng + 1 /\ wire' = wire
        /\ \/ keys' = keys
           \/ keys' = [keys EXCEPT ![h] = [kind |-> "kem", variant |-> v,
                         mat |-> rng + 1, sk |-> TRUE, cls |-> FALSE]]
    BY <1>1 DEF Generate
  <2>2. keys[h] = NoKey
    BY <1>1 DEF Generate
  <2>3. QED
    BY <1>0, <2>1, <2>2 DEF WireWellFormed, MaterialAgrees, KeyRec, Output,
                           Ct, Mats
<1>2. ASSUME NEW h \in Handles, HybridGenerate(h)
      PROVE  (WireWellFormed /\ MaterialAgrees)'
  <2>1. /\ rng' = rng + 1 /\ wire' = wire
        /\ \/ keys' = keys
           \/ keys' = [keys EXCEPT ![h] = [kind |-> "hybrid",
                         variant |-> "MlKem768", mat |-> rng + 1, sk |-> TRUE,
                         cls |-> TRUE]]
    BY <1>2 DEF HybridGenerate
  <2>2. keys[h] = NoKey
    BY <1>2 DEF HybridGenerate
  <2>3. QED
    BY <1>0, <2>1, <2>2 DEF WireWellFormed, MaterialAgrees, KeyRec, Output,
                           Ct, Mats
<1>3. ASSUME NEW h \in Handles, Encapsulate(h)
      PROVE  (WireWellFormed /\ MaterialAgrees)'
  <2> DEFINE k == keys[h]
             c == [variant |-> k.variant, mat |-> k.mat, r |-> rng + 1]
             o == [kind |-> "kem", ct |-> c, eph |-> 0,
                   ss |-> KemSS(k.mat, rng + 1)]
  <2>1. /\ rng' = rng + 1 /\ keys' = keys
        /\ wire' = wire \/ wire' = wire \cup {o}
    BY <1>3 DEF Encapsulate
  <2>2. k \in KeyRec
    BY <1>0, <1>3 DEF Encapsulate
  <2>3. QED
    BY <1>0, <2>1, <2>2 DEF WireWellFormed, MaterialAgrees, KeyRec, Output,
                           Ct, Mats
<1>4. ASSUME NEW h \in Handles, HybridEncapsulate(h)
      PROVE  (WireWellFormed /\ MaterialAgrees)'
  <2> DEFINE k == keys[h]
             c == [variant |-> k.variant, mat |-> k.mat, r |-> rng + 1]
             o == [kind |-> "hybrid", ct |-> c, eph |-> rng + 1,
                   ss |-> Kdf(Dh(rng + 1, k.mat), KemSS(k.mat, rng + 1))]
  <2>1. /\ rng' = rng + 1 /\ keys' = keys
        /\ wire' = wire \/ wire' = wire \cup {o}
    BY <1>4 DEF HybridEncapsulate
  <2>2. k \in KeyRec
    BY <1>0, <1>4 DEF HybridEncapsulate
  <2>3. QED
    BY <1>0, <2>1, <2>2 DEF WireWellFormed, MaterialAgrees, KeyRec, Output,
                           Ct, Mats
<1>5. ASSUME NEW h \in Handles, NEW g \in Handles,
             Clone(h, g) \/ Deserialize(h, g)
      PROVE  (WireWellFormed /\ MaterialAgrees)'
  <2> DEFINE R(y) == IF y = g THEN h ELSE y
  <2>1. /\ rng' = rng /\ wire' = wire
        /\ keys[h] # NoKey /\ keys[g] = NoKey
        /\ keys' = [keys EXCEPT ![g] = keys'[g]]
        /\ keys'[g] \in KeyRec
        /\ keys'[g].mat = keys[h].mat /\ keys'[g].variant = keys[h].variant
    <3>2. CASE Clone(h, g)
      BY <1>0, <3>2 DEF Clone
    <3>3. CASE Deserialize(h, g)
      BY <1>0, <3>3 DEF Deserialize, KeyRec
    <3>4. QED
      BY <1>5, <3>2, <3>3
  <2>2. \A y \in Handles :
          keys'[y] # NoKey =>
            /\ R(y) \in Handles /\ keys[R(y)] # NoKey
            /\ keys'[y].mat = keys[R(y)].mat
            /\ keys'[y].variant = keys[R(y)].variant
    BY <1>0, <2>1
  <2>3. WireWellFormed'
    BY <2>1 DEF WireWellFormed
  <2>4. MaterialAgrees'
    BY <2>1, <2>2, <1>0 DEF MaterialAgrees
  <2>5. QED
    BY <2>3, <2>4
<1>6. ASSUME NEW h \in Handles, ClearClassical(h) \/ Drop(h)
      PROVE  (WireWellFormed /\ MaterialAgrees)'
  <2>1. /\ rng' = rng /\ wire' = wire /\ keys[h] # NoKey
        /\ \/ keys' = [keys EXCEPT ![h] = NoKey]
           \/ keys' = [keys EXCEPT ![h] = [kind |-> keys[h].kind,
                         variant |-> keys[h].variant, mat |-> keys[h].mat,
                         sk |-> keys[h].sk, cls |-> FALSE]]
    BY <1>6 DEF ClearClassical, Drop
  <2>2. \A y \in Handles :
          keys'[y] # NoKey =>
            /\ keys[y] # NoKey
            /\ keys'[y].mat = keys[y].mat
            /\ keys'[y].variant = keys[y].variant
    BY <1>0, <2>1 DEF KeyRec
  <2>3. WireWellFormed'
    BY <2>1 DEF WireWellFormed
  <2>4. MaterialAgrees'
    <3> SUFFICES ASSUME NEW x \in Handles, keys'[x] # NoKey
                 PROVE  /\ keys'[x].mat <= rng'
                        /\ \A o \in wire' :
                              o.ct.mat = keys'[x].mat =>
                                  o.ct.variant = keys'[x].variant
                        /\ \A g \in Handles :
                              keys'[g] # NoKey /\ keys'[g].mat = keys'[x].mat =>
                                  keys'[g].variant = keys'[x].variant
      BY DEF MaterialAgrees
    <3>1. keys[x] # NoKey /\ keys'[x].mat = keys[x].mat
          /\ keys'[x].variant = keys[x].variant
      BY <2>2
    <3>2. QED
      BY <2>1, <2>2, <3>1 DEF MaterialAgrees
  <2>5. QED
    BY <2>3, <2>4
<1>7. ASSUME \/ \E h \in Handles, c \in CtsSeen : Decapsulate(h, c)
             \/ \E h \in Handles, e \in EphsSeen, c \in CtsSeen :
                   HybridDecapsulate(h, e, c)
             \/ Exhausted \/ UNCHANGED vars
      PROVE  (WireWellFormed /\ MaterialAgrees)'
  <2>1. UNCHANGED <<keys, rng, wire>>
    BY <1>7 DEF Decapsulate, HybridDecapsulate, Exhausted, vars
  <2>2. QED
    BY <2>1 DEF WireWellFormed, MaterialAgrees
<1>8. QED
  BY <1>1, <1>2, <1>3, <1>4, <1>5, <1>6, <1>7 DEF Next

(***************************************************************************)
(* A decapsulation by a pair holding its secrets, of the ciphertext (and   *)
(* ephemeral key) of an encapsulation result for its own material, returns *)
(* that result's shared secret; every other step records another op.       *)
(***************************************************************************)
LEMMA RoundTripStep == RoundTripInv /\ [Next]_vars => RoundTrip'
<1> SUFFICES ASSUME RoundTripInv, [Next]_vars PROVE RoundTrip'
  OBVIOUS
<1> USE DEF RoundTripInv
<1>0. /\ keys \in [Handles -> KeyRec \cup {NoKey}]
      /\ \A o \in wire : o \in Output
  BY DEF TypeOK
<1>1. ASSUME NEW h \in Handles, NEW c \in CtsSeen, Decapsulate(h, c)
      PROVE  RoundTrip'
  <2> DEFINE k == keys[h]
  <2>1. /\ k \in KeyRec /\ k.kind = "kem" /\ wire' = wire
        /\ last' = [op |-> "Decapsulate", key |-> k, ct |-> c, eph |-> NoKey,
                    res |-> KemDecapsResult(k, c), pqcTried |-> k.sk]
    BY <1>0, <1>1 DEF Decapsulate, Record
  <2> SUFFICES ASSUME k.sk, NEW o \in wire, o.ct = c, o.ct.mat = k.mat,
                      o.kind = "kem"
               PROVE  KemDecapsResult(k, c) = Ok(o.ss)
    BY <2>1 DEF RoundTrip, FromOwnEncapsulation
  <2>2. c \in Ct /\ c.variant = k.variant
    BY <1>0, <2>1 DEF Output, MaterialAgrees
  <2>3. o.ss = KemSS(k.mat, c.r)
    BY DEF WireWellFormed
  <2>4. QED
    BY <2>1, <2>2, <2>3, KemDecapsOwn
<1>2. ASSUME NEW h \in Handles, NEW e \in EphsSeen, NEW c \in CtsSeen,
             HybridDecapsulate(h, e, c)
      PROVE  RoundTrip'
  <2> DEFINE k == keys[h]
  <2>1. /\ k \in KeyRec /\ k.kind = "hybrid" /\ wire' = wire
        /\ last' = [op |-> "HybridDecapsulate", key |-> k, ct |-> c, eph |-> e,
                    res |-> HybridDecapsOutcome(k, e, c).res,
                    pqcTried |-> HybridDecapsOutcome(k, e, c).tried]
    BY <1>0, <1>2 DEF HybridDecapsulate, Record
  <2> SUFFICES ASSUME k.sk, k.cls, NEW o \in wire, o.ct = c,
                      o.ct.mat = k.mat, o.kind = "hybrid", o.eph = e
               PROVE  HybridDecapsOutcome(k, e, c).res = Ok(o.ss)
    BY <2>1 DEF RoundTrip, FromOwnEncapsulation
  <2>2. c \in Ct /\ c.variant = k.variant /\ e \in 0..MaxDraws
    BY <1>0, <2>1 DEF Output, MaterialAgrees
  <2>3. o.ss = Kdf(Dh(e, k.mat), KemSS(k.mat, c.r))
    BY DEF WireWellFormed
  <2>4. QED
    BY <2>1, <2>2, <2>3, HybridDecapsOwn
<1>3. ASSUME \/ \E h \in Handles, v \in KemVariants : Generate(h, v)
             \/ \E h \in Handles : Encapsulate(h)
             \/ \E h \in Handles : HybridGenerate(h)
             \/ \E h \in Handles : HybridEncapsulate(h)
             \/ \E h, g \in Handles : Clone(h, g) \/ Deserialize(h, g)
             \/ \E h \in Handles : ClearClassical(h) \/ Drop(h)
      PROVE  RoundTrip'
  <2>1. last'.op \notin {"Decapsulate", "HybridDecapsulate"}
    BY <1>3 DEF Generate, Encapsulate, HybridGenerate, HybridEncapsulate,
                Clone, Deserialize, ClearClassical, Drop, Record
  <2>2. QED
    BY <2>1 DEF RoundTrip
<1>4. CASE Exhausted \/ UNCHANGED vars
  BY <1>4 DEF Exhausted, vars, RoundTrip, FromOwnEncapsulation
<1>5. QED
  BY <1>1, <1>2, <1>3, <1>4 DEF Next

\* The initial state satisfies the round-trip invariant: no key is held
\* and nothing has been encapsulated.
LEMMA InitRoundTripInv == Init => RoundTripInv
<1> SUFFICES ASSUME Init PROVE RoundTripInv
  OBVIOUS
<1>1. TypeOK
  BY InitTypeOK
<1>2. WireWellFormed /\ MaterialAgrees
  BY DEF Init, WireWellFormed, MaterialAgrees
<1>3. RoundTrip
  BY DEF Init, RoundTrip
<1>4. QED
  BY <1>1, <1>2, <1>3 DEF RoundTripInv

(***************************************************************************)
(* The round trip of spec 8: in every reachable state, a decapsulation by  *)
(* an ML-KEM or hybrid key pair that holds its secrets -- the pair that    *)
(* was encapsulated against or a clone of it -- of the ciphertext and       *)
(* ephemeral key of an encapsulation for the same key material returns     *)
(* that encapsulation's shared secret, for every set of slots and variants *)
(* and every bound on the entropy draws.                                   *)
(***************************************************************************)
THEOREM RoundTripHolds == Spec => []RoundTrip
<1>1. Init => RoundTripInv
  BY InitRoundTripInv
<1>2. RoundTripInv /\ [Next]_vars => RoundTripInv'
  BY TypeOKStep, MaterialStep, RoundTripStep DEF RoundTripInv
<1>3. QED
  BY <1>1, <1>2, PTL DEF Spec, RoundTripInv

=============================================================================
