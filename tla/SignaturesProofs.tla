-------------------------- MODULE SignaturesProofs --------------------------
(***************************************************************************)
(* Proofs about Signatures for every set of slots, variants and messages   *)
(* and every bound on the entropy draws.                                   *)
(***************************************************************************)
EXTENDS Signatures, TLAPS

USE SigConstantsAssumption, SigSentinelAssumption

(***************************************************************************)
(* The record of an operation is a value of LastRec when its parts are.    *)
(***************************************************************************)
LEMMA SigRecordLast ==
    ASSUME NEW op \in Ops, NEW k \in KeyRec \cup {NoKey},
           NEW m \in Msgs \cup {NoMsg}, NEW s \in SigRec \cup {NoKey},
           NEW res \in Results, Record(op, k, m, s, res)
    PROVE  last' \in LastRec
BY DEF Record, LastRec

(***************************************************************************)
(* A signature handed to verify is one the caller was given, with its      *)
(* variant field possibly changed, or a truncated byte string.             *)
(***************************************************************************)
LEMMA SigsSeenCases ==
    ASSUME NEW s \in SigsSeen
    PROVE  \/ \E v \in Variants : s = Short(v)
           \/ \E t \in signed, v \in Variants :
                 s = [variant |-> v, enc |-> t.enc, key |-> t.key,
                      msg |-> t.msg, r |-> t.r]
<1> DEFINE Sigs == UNION {{[variant |-> v, enc |-> t.enc, key |-> t.key,
                                msg |-> t.msg, r |-> t.r]
                               : v \in Family(t.enc) \cap Variants}
                              : t \in signed}
<1>1. s \in Sigs \/ s \in {Short(v) : v \in Variants}
  BY Zenon DEF SigsSeen, Sigs
<1>2. CASE s \in Sigs
  <2>1. PICK t \in signed :
          s \in {[variant |-> v, enc |-> t.enc, key |-> t.key,
                  msg |-> t.msg, r |-> t.r] : v \in Family(t.enc) \cap Variants}
    BY <1>2, Zenon DEF Sigs
  <2>2. PICK v \in Family(t.enc) \cap Variants :
          s = [variant |-> v, enc |-> t.enc, key |-> t.key,
               msg |-> t.msg, r |-> t.r]
    BY <2>1, Zenon
  <2>3. QED
    BY <2>2, Zenon
<1>3. QED
  BY <1>1, <1>2, Zenon

LEMMA SigsSeenType ==
    ASSUME SigTypeOK
    PROVE  SigsSeen \subseteq SigRec
<1> SUFFICES ASSUME NEW s \in SigsSeen PROVE s \in SigRec
  OBVIOUS
<1>1. CASE \E v \in Variants : s = Short(v)
  BY <1>1 DEF Short, SigRec
<1>2. CASE \E t \in signed, v \in Variants :
             s = [variant |-> v, enc |-> t.enc, key |-> t.key,
                  msg |-> t.msg, r |-> t.r]
  BY <1>2 DEF SigTypeOK, SigRec
<1>3. QED
  BY <1>1, <1>2, SigsSeenCases

(***************************************************************************)
(* verify returns an error or a Boolean verdict.                           *)
(***************************************************************************)
LEMMA VerifyVerdictType ==
    ASSUME NEW k \in KeyRec, NEW m \in Msgs, NEW s \in SigRec
    PROVE  VerifyVerdict(k, m, s) \in Results
BY DEF VerifyVerdict, Results, Verdict, Err

(***************************************************************************)
(* Every step of Next keeps every variable in its type.                    *)
(***************************************************************************)
LEMMA SigTypeOKStep == SigTypeOK /\ [Next]_vars => SigTypeOK'
<1> SUFFICES ASSUME SigTypeOK, [Next]_vars PROVE SigTypeOK'
  OBVIOUS
<1>0. /\ Done \in Results /\ Panic \in Results /\ Err("Signing") \in Results
      /\ NoKey \in KeyRec \cup {NoKey} /\ NoKey \in SigRec \cup {NoKey}
      /\ NoMsg \in Msgs \cup {NoMsg}
      /\ {"Generate", "Sign", "Verify", "Clone", "Deserialize", "Drop"}
           \subseteq Ops
  BY DEF Results, Ops
<1>1. ASSUME NEW h \in Handles, NEW v \in Variants,
             MlDsaGenerate(h, v) \/ SlhGenerate(h, v)
      PROVE  SigTypeOK'
  <2>1. rng + 1 \in Mats /\ rng' \in 0..MaxDraws
    BY <1>1 DEF MlDsaGenerate, SlhGenerate, SigTypeOK, Mats
  <2>2. [variant |-> v, mat |-> rng + 1, sk |-> TRUE] \in KeyRec
    BY <2>1 DEF KeyRec
  <2>3. keys' \in [Handles -> KeyRec \cup {NoKey}]
    BY <1>1, <2>2 DEF MlDsaGenerate, SlhGenerate, SigTypeOK
  <2>4. residue' \subseteq {Seed(m) : m \in Mats}
    BY <1>1, <2>1 DEF MlDsaGenerate, SlhGenerate, SigTypeOK
  <2>5. last' \in LastRec
    <3>1. keys'[h] \in KeyRec \cup {NoKey}
      BY <2>3
    <3>2. \/ Record("Generate", keys'[h], NoMsg, NoKey, Done)
          \/ Record("Generate", NoKey, NoMsg, NoKey, Panic)
      BY <1>1 DEF MlDsaGenerate, SlhGenerate
    <3>3. QED
      BY <1>0, <3>1, <3>2, SigRecordLast
  <2>6. QED
    BY <1>1, <2>1, <2>3, <2>4, <2>5 DEF MlDsaGenerate, SlhGenerate, SigTypeOK
<1>2. ASSUME NEW h \in Handles, NEW m \in Msgs,
             MlDsaSign(h, m) \/ SlhSign(h, m)
      PROVE  SigTypeOK'
  <2> DEFINE k == keys[h]
  <2>1. k \in KeyRec
    BY <1>2 DEF MlDsaSign, SlhSign, SigTypeOK
  <2>2. rng' \in 0..MaxDraws /\ (rng' # rng => rng + 1 \in Mats)
    BY <1>2 DEF MlDsaSign, SlhSign, SigTypeOK, Mats
  <2> DEFINE s0 == [variant |-> k.variant, enc |-> k.variant, key |-> k.mat,
                    msg |-> m, r |-> 0]
             s1 == [variant |-> k.variant, enc |-> k.variant, key |-> k.mat,
                    msg |-> m, r |-> rng + 1]
  <2>3. s0 \in SigRec /\ Ok(s0) \in Results
    BY <2>1 DEF KeyRec, SigRec, Mats, Results
  <2>4. rng + 1 \in Mats => s1 \in SigRec /\ Ok(s1) \in Results
    BY <2>1 DEF KeyRec, SigRec, Mats, Results
  <2>5. CASE MlDsaSign(h, m)
    <3>1. \/ Record("Sign", k, m, NoKey, Err("Signing"))
             /\ UNCHANGED <<signed, residue>>
          \/ /\ signed' = signed \cup {s0}
             /\ residue' = residue \cup {Seed(k.mat)}
             /\ Record("Sign", k, m, s0, Ok(s0))
      BY <2>5 DEF MlDsaSign
    <3>2. Seed(k.mat) \in {Seed(x) : x \in Mats}
      BY <2>1 DEF KeyRec
    <3>3. last' \in LastRec
      BY <1>0, <2>1, <2>3, <3>1, SigRecordLast
    <3>4. QED
      BY <2>2, <2>3, <2>5, <3>1, <3>2, <3>3 DEF MlDsaSign, SigTypeOK
  <2>6. CASE SlhSign(h, m)
    <3>1. \/ /\ Record("Sign", k, m, NoKey, Err("Signing"))
             /\ UNCHANGED <<rng, signed>>
          \/ /\ rng + 1 \in Mats
             /\ \/ signed' = signed \cup {s1} /\ Record("Sign", k, m, s1, Ok(s1))
                \/ UNCHANGED signed /\ Record("Sign", k, m, NoKey, Panic)
      BY <2>6 DEF SlhSign, SigTypeOK, Mats
    <3>2. last' \in LastRec
      BY <1>0, <2>1, <2>4, <3>1, SigRecordLast
    <3>3. signed' \subseteq SigRec
      BY <2>4, <3>1 DEF SigTypeOK
    <3>4. QED
      BY <2>2, <2>6, <3>2, <3>3 DEF SlhSign, SigTypeOK
  <2>7. QED
    BY <1>2, <2>5, <2>6
<1>3. ASSUME NEW h \in Handles, NEW m \in Msgs, NEW s \in SigsSeen,
             Verify(h, m, s)
      PROVE  SigTypeOK'
  <2>1. keys[h] \in KeyRec /\ s \in SigRec
    BY <1>3, SigsSeenType DEF Verify, SigTypeOK
  <2>2. VerifyVerdict(keys[h], m, s) \in Results
    BY <2>1, VerifyVerdictType
  <2>3. last' \in LastRec
    BY <1>0, <1>3, <2>1, <2>2, SigRecordLast DEF Verify
  <2>4. QED
    BY <1>3, <2>3 DEF Verify, SigTypeOK
<1>4. ASSUME NEW h \in Handles, NEW g \in Handles,
             Clone(h, g) \/ Deserialize(h, g)
      PROVE  SigTypeOK'
  <2>1. keys[h] \in KeyRec
    BY <1>4 DEF Clone, Deserialize, SigTypeOK
  <2>2. [variant |-> keys[h].variant, mat |-> keys[h].mat, sk |-> FALSE]
          \in KeyRec
    BY <2>1 DEF KeyRec
  <2>3. keys' \in [Handles -> KeyRec \cup {NoKey}]
    BY <1>4, <2>1, <2>2 DEF Clone, Deserialize, SigTypeOK
  <2>4. last' \in LastRec
    <3>1. \/ Record("Clone", keys[h], NoMsg, NoKey, Done)
          \/ Record("Deserialize", keys'[g], NoMsg, NoKey, Done)
      BY <1>4 DEF Clone, Deserialize
    <3>2. QED
      BY <1>0, <2>1, <2>3, <3>1, SigRecordLast
  <2>5. QED
    BY <1>4, <2>3, <2>4 DEF Clone, Deserialize, SigTypeOK
<1>5. ASSUME NEW h \in Handles, Drop(h)
      PROVE  SigTypeOK'
  <2>1. keys[h] \in KeyRec
    BY <1>5 DEF Drop, SigTypeOK
  <2>2. last' \in LastRec
    BY <1>0, <1>5, <2>1, SigRecordLast DEF Drop
  <2>3. QED
    BY <1>5, <2>2 DEF Drop, SigTypeOK
<1>6. CASE Exhausted \/ UNCHANGED vars
  BY <1>6 DEF Exhausted, vars, SigTypeOK
<1>7. QED
  BY <1>1, <1>2, <1>3, <1>4, <1>5, <1>6 DEF Next

(***************************************************************************)
(* Every reachable state of the signature lifecycles is well typed.        *)
(***************************************************************************)
THEOREM SigTypeCorrect == Spec => []SigTypeOK
<1>1. Init => SigTypeOK
  BY DEF Init, SigTypeOK, LastRec, Results, Ops
<1>2. QED
  BY <1>1, SigTypeOKStep, PTL DEF Spec

-----------------------------------------------------------------------------
(***************************************************************************)
(* The strengthening behind the verify properties: every signature a sign  *)
(* call returned has bytes of its own variant's length.  verify can accept *)
(* a signature only when its bytes decode under the key's variant, so an   *)
(* accepted one that came from a sign call names that variant.             *)
(***************************************************************************)
SignedWellFormed == \A t \in signed : t.enc = t.variant

SigInv == /\ SigTypeOK
          /\ SignedWellFormed
          /\ SignVerifyRoundTrip
          /\ VerifyMeansSigned

(***************************************************************************)
(* No variant is named "short", the length class of a truncated signature. *)
(***************************************************************************)
LEMMA ShortNotVariant == "short" \notin Variants
BY DEF Variants, AllDsaVariants, AllSlhVariants

(***************************************************************************)
(* A verify step establishes the two verify properties: it reads the       *)
(* key in the slot and a signature the caller holds, and changes nothing   *)
(* but the record of the call.                                             *)
(***************************************************************************)
LEMMA VerifyStep ==
    ASSUME SigTypeOK, SignedWellFormed,
           NEW h \in Handles, NEW m \in Msgs, NEW s \in SigsSeen,
           Verify(h, m, s)
    PROVE  /\ SignVerifyRoundTrip'
           /\ VerifyMeansSigned'
<1> DEFINE k == keys[h]
<1>1. k \in KeyRec
  BY DEF Verify, SigTypeOK
<1>2. /\ last' = [op |-> "Verify", key |-> k, msg |-> m, sig |-> s,
                  res |-> VerifyVerdict(k, m, s)]
      /\ signed' = signed
  BY DEF Verify, Record
<1>3. SignVerifyRoundTrip'
  <2> SUFFICES ASSUME s \in signed, s.key = k.mat, s.msg = m,
                      s.variant = k.variant
               PROVE  VerifyVerdict(k, m, s) = Verdict(TRUE)
    BY <1>2 DEF SignVerifyRoundTrip
  <2>1. s.enc = k.variant
    BY DEF SignedWellFormed
  <2>2. QED
    BY <2>1 DEF VerifyVerdict, SigDecodes
<1>4. VerifyMeansSigned'
  <2> SUFFICES ASSUME VerifyVerdict(k, m, s) = Verdict(TRUE)
               PROVE  \E t \in signed : /\ t.key = k.mat /\ t.msg = m
                                        /\ t.variant = k.variant
    BY <1>2 DEF VerifyMeansSigned
  <2>1. s.variant = k.variant /\ s.enc = k.variant /\ s.key = k.mat
        /\ s.msg = m
    BY DEF VerifyVerdict, SigDecodes, Verdict, Err
  <2>2. CASE \E v \in Variants : s = Short(v)
    BY <1>1, <2>1, <2>2, ShortNotVariant DEF Short, KeyRec
  <2>3. CASE \E t \in signed, v \in Variants :
               s = [variant |-> v, enc |-> t.enc, key |-> t.key,
                    msg |-> t.msg, r |-> t.r]
    <3>1. PICK t \in signed, v \in Variants :
               s = [variant |-> v, enc |-> t.enc, key |-> t.key,
                    msg |-> t.msg, r |-> t.r]
      BY <2>3
    <3>2. t.enc = t.variant
      BY DEF SignedWellFormed
    <3>3. QED
      BY <2>1, <3>1, <3>2
  <2>4. QED
    BY <2>2, <2>3, SigsSeenCases
<1>6. QED
  BY <1>3, <1>4

(***************************************************************************)
(* After any step other than verify the last operation is no verify, so    *)
(* the two verify properties hold of it vacuously.                         *)
(***************************************************************************)
LEMMA NotVerifyStep ==
    ASSUME last'.op # "Verify"
    PROVE  /\ SignVerifyRoundTrip'
           /\ VerifyMeansSigned'
BY DEF SignVerifyRoundTrip, VerifyMeansSigned

(***************************************************************************)
(* SigInv is inductive.                                                    *)
(***************************************************************************)
LEMMA SigInvStep == SigInv /\ [Next]_vars => SigInv'
<1> SUFFICES ASSUME SigInv, [Next]_vars PROVE SigInv'
  OBVIOUS
<1>1. SigTypeOK'
  BY SigTypeOKStep DEF SigInv
<1> USE DEF SigInv
<1>2. ASSUME NEW h \in Handles, NEW v \in Variants,
             MlDsaGenerate(h, v) \/ SlhGenerate(h, v)
      PROVE  SigInv'
  <2>1. last'.op = "Generate" /\ signed' = signed
    BY <1>2 DEF MlDsaGenerate, SlhGenerate, Record
  <2>2. QED
    BY <1>1, <2>1, NotVerifyStep DEF SignedWellFormed
<1>3. ASSUME NEW h \in Handles, NEW m \in Msgs,
             MlDsaSign(h, m) \/ SlhSign(h, m)
      PROVE  SigInv'
  <2>1. last'.op = "Sign"
    BY <1>3 DEF MlDsaSign, SlhSign, Record
  <2>2. SignedWellFormed'
    BY <1>3 DEF MlDsaSign, SlhSign, SignedWellFormed
  <2>3. QED
    BY <1>1, <2>1, <2>2, NotVerifyStep
<1>4. ASSUME NEW h \in Handles, NEW m \in Msgs, NEW s \in SigsSeen,
             Verify(h, m, s)
      PROVE  SigInv'
  <2>1. SignedWellFormed'
    BY <1>4 DEF Verify, SignedWellFormed
  <2>2. QED
    BY <1>1, <1>4, <2>1, VerifyStep
<1>5. ASSUME NEW h \in Handles, NEW g \in Handles,
             Clone(h, g) \/ Deserialize(h, g)
      PROVE  SigInv'
  <2>1. last'.op \in {"Clone", "Deserialize"} /\ signed' = signed
    BY <1>5 DEF Clone, Deserialize, Record
  <2>2. QED
    BY <1>1, <2>1, NotVerifyStep DEF SignedWellFormed
<1>6. ASSUME NEW h \in Handles, Drop(h)
      PROVE  SigInv'
  <2>1. last'.op = "Drop" /\ signed' = signed
    BY <1>6 DEF Drop, Record
  <2>2. QED
    BY <1>1, <2>1, NotVerifyStep DEF SignedWellFormed
<1>7. CASE Exhausted \/ UNCHANGED vars
  BY <1>1, <1>7 DEF Exhausted, vars, SignedWellFormed, SignVerifyRoundTrip,
              VerifyMeansSigned
<1>8. QED
  BY <1>2, <1>3, <1>4, <1>5, <1>6, <1>7 DEF Next

\* The initial state satisfies SigInv: nothing is held, signed or verified.
LEMMA InitSigInv == Init => SigInv
BY DEF Init, SigInv, SigTypeOK, LastRec, Results, Ops, SignedWellFormed,
       SignVerifyRoundTrip, VerifyMeansSigned

(***************************************************************************)
(* verify of MlDsaKeyPair and SlhDsaKeyPair accepts only what a sign call  *)
(* with the same key material returned for the same message, in every      *)
(* reachable state and for every set of slots, variants and messages.      *)
(***************************************************************************)
THEOREM VerifyMeansSignedHolds == Spec => []VerifyMeansSigned
<1>1. SigInv => VerifyMeansSigned
  BY DEF SigInv
<1>2. QED
  BY <1>1, InitSigInv, SigInvStep, PTL DEF Spec

(***************************************************************************)
(* Spec 8: verify accepts what sign returned for the same key material,    *)
(* message and variant -- the original pair, a clone or a deserialized     *)
(* copy -- in every reachable state.                                       *)
(***************************************************************************)
THEOREM SignVerifyRoundTripHolds == Spec => []SignVerifyRoundTrip
<1>1. SigInv => SignVerifyRoundTrip
  BY DEF SigInv
<1>2. QED
  BY <1>1, InitSigInv, SigInvStep, PTL DEF Spec

(***************************************************************************)
(* The signature rows of the catalog (MlDsaVariant and SlhDsaVariant       *)
(* key_sizes and signature_size) give the public key and signature sizes   *)
(* of FIPS 204 and FIPS 205.                                               *)
(***************************************************************************)
LEMMA DsaCatalogMatchesFips ==
    ASSUME NEW v \in AllDsaVariants
    PROVE  /\ FipsDsaSizes(v).sig = DsaSignatureSize[v]
           /\ FipsDsaSizes(v).pk = DsaKeySizes[v][1]
<1>1. CASE v = "MlDsa44"
  BY <1>1 DEF FipsDsaSizes, MlDsaParams, DsaSignatureSize, DsaKeySizes
<1>2. CASE v = "MlDsa65"
  BY <1>2 DEF FipsDsaSizes, MlDsaParams, DsaSignatureSize, DsaKeySizes
<1>3. CASE v = "MlDsa87"
  BY <1>3 DEF FipsDsaSizes, MlDsaParams, DsaSignatureSize, DsaKeySizes
<1>4. QED
  BY <1>1, <1>2, <1>3 DEF AllDsaVariants

LEMMA SlhCatalogMatchesFips ==
    ASSUME NEW v \in AllSlhVariants
    PROVE  /\ FipsSlhSizes(v).sig = SlhSignatureSize[v]
           /\ FipsSlhSizes(v).pk = SlhKeySizes(v)[1]
<1>1. CASE v = "Sha2_128s"
  BY <1>1 DEF FipsSlhSizes, SlhDsaParams, SlhSignatureSize, SlhKeySizes
<1>2. CASE v = "Sha2_128f"
  BY <1>2 DEF FipsSlhSizes, SlhDsaParams, SlhSignatureSize, SlhKeySizes
<1>3. CASE v = "Sha2_192s"
  BY <1>3 DEF FipsSlhSizes, SlhDsaParams, SlhSignatureSize, SlhKeySizes
<1>4. CASE v = "Sha2_192f"
  BY <1>4 DEF FipsSlhSizes, SlhDsaParams, SlhSignatureSize, SlhKeySizes
<1>5. CASE v = "Sha2_256s"
  BY <1>5 DEF FipsSlhSizes, SlhDsaParams, SlhSignatureSize, SlhKeySizes
<1>6. CASE v = "Sha2_256f"
  BY <1>6 DEF FipsSlhSizes, SlhDsaParams, SlhSignatureSize, SlhKeySizes
<1>7. QED
  BY <1>1, <1>2, <1>3, <1>4, <1>5, <1>6 DEF AllSlhVariants

\* A variant's signature and public key lengths are the catalog's.
LEMMA SigCatalogMatchesFips ==
    ASSUME NEW v \in Variants
    PROVE  /\ SigLen([variant |-> v, enc |-> v]) = SignatureSize(v)
           /\ FipsSigKeySizes(v)[1] = SigKeySizes(v)[1]
<1>1. CASE v \in AllDsaVariants
  <2>1. v \notin AllSlhVariants
    BY <1>1 DEF AllDsaVariants, AllSlhVariants
  <2>2. QED
    BY <1>1, <2>1, DsaCatalogMatchesFips
       DEF SigLen, SignatureSize, FipsSigKeySizes, SigKeySizes
<1>2. CASE v \notin AllDsaVariants
  <2>1. v \in AllSlhVariants
    BY <1>2 DEF Variants
  <2>2. QED
    BY <1>2, <2>1, SlhCatalogMatchesFips
       DEF SigLen, SignatureSize, FipsSigKeySizes, SigKeySizes
<1>3. QED
  BY <1>1, <1>2

(***************************************************************************)
(* Spec 8: in every reachable state every signature sign returned has the  *)
(* catalog's signature_size for its variant and every key pair held has    *)
(* the catalog's public key size.  It rests on SignedWellFormed: a         *)
(* returned signature's bytes are of its own variant's length.             *)
(***************************************************************************)
THEOREM SignedLengthsHold == Spec => []SignedLengthsMatchCatalog
<1>1. SigInv => SignedLengthsMatchCatalog
  <2> SUFFICES ASSUME SigInv PROVE SignedLengthsMatchCatalog
    OBVIOUS
  <2>1. ASSUME NEW t \in signed PROVE SigLen(t) = SignatureSize(t.variant)
    <3>1. t \in SigRec /\ t.enc = t.variant
      BY <2>1 DEF SigInv, SigTypeOK, SignedWellFormed
    <3>2. t.variant \in Variants
      BY <3>1 DEF SigRec
    <3>3. SigLen(t) = SigLen([variant |-> t.variant, enc |-> t.variant])
      BY <3>1 DEF SigLen
    <3>4. QED
      BY <3>2, <3>3, SigCatalogMatchesFips
  <2>2. ASSUME NEW h \in Handles, keys[h] # NoKey
        PROVE  PublicKeyLen(keys[h]) = SigKeySizes(keys[h].variant)[1]
    <3>1. keys[h].variant \in Variants
      BY <2>2 DEF SigInv, SigTypeOK, KeyRec
    <3>2. QED
      BY <3>1, SigCatalogMatchesFips DEF PublicKeyLen
  <2>3. QED
    BY <2>1, <2>2 DEF SignedLengthsMatchCatalog
<1>2. QED
  BY <1>1, InitSigInv, SigInvStep, PTL DEF Spec

=============================================================================
