----------------------------- MODULE Signatures -----------------------------
(***************************************************************************)
(* Lifecycle of the two signature families: ML-DSA key pairs               *)
(* (crypto/src/mldsa.rs), whose secret is a 32-byte seed re-expanded on    *)
(* every sign, and SLH-DSA key pairs (crypto/src/slhdsa.rs), whose secret  *)
(* is the expanded signing key and whose signing draws fresh randomness.   *)
(*                                                                         *)
(* The caller holds key pairs in slots, generates, signs messages of Msgs, *)
(* verifies any signature it has seen -- possibly after relabelling its    *)
(* public variant field, as a caller can -- clones, passes a pair through  *)
(* serde (the secret is #[serde(skip)]) and drops it.  A signature is a    *)
(* record naming the key material, message and signing randomness it was  *)
(* made from; enc is the variant whose length its bytes have ("short" for  *)
(* a truncated byte string).  residue holds the seeds left in freed memory *)
(* without zeroization.                                                    *)
(***************************************************************************)
EXTENDS Naturals, Catalog

CONSTANTS
    Handles,      \* slots holding the caller's key pairs
    DsaVariants,  \* the MlDsaVariant values in use
    SlhVariants,  \* the SlhDsaVariant values in use
    Msgs,         \* messages the caller signs and verifies
    MaxDraws,     \* bound on draws from the entropy source
    NoKey,        \* an empty slot
    NoMsg         \* the message field of a byte string that is no signature

ASSUME SigConstantsAssumption ==
    /\ DsaVariants \subseteq AllDsaVariants /\ DsaVariants # {}
    /\ SlhVariants \subseteq AllSlhVariants /\ SlhVariants # {}
    /\ MaxDraws \in Nat \ {0}
    /\ NoMsg \notin Msgs

VARIABLES
    keys,     \* keys[h]: the key pair held in slot h, or NoKey
    rng,      \* number of draws taken from the entropy source
    signed,   \* every signature a sign call has returned
    residue,  \* seeds left in freed memory without zeroization
    last      \* the last operation, its input and its outcome

vars == <<keys, rng, signed, residue, last>>

Mats == 1..MaxDraws
Variants == DsaVariants \cup SlhVariants
Family(v) == IF v \in AllDsaVariants THEN AllDsaVariants ELSE AllSlhVariants
Seed(m) == <<"seed", m>>

(***************************************************************************)
(* MlDsaKeyPair / SlhDsaKeyPair: variant, public_key (from material mat)   *)
(* and secret_key (sk: the generated secret; FALSE: the empty Vec).        *)
(***************************************************************************)
KeyRec == [variant : Variants, mat : Mats, sk : BOOLEAN]
(***************************************************************************)
(* The byte lengths make_keypair (mldsa.rs) and generate_typed (slhdsa.rs) *)
(* store: public_key is the encoded verifying key; secret_key is           *)
(* kp.to_seed(), 32 bytes, for ML-DSA and the whole signing key for        *)
(* SLH-DSA -- and the empty Vec serde leaves.                              *)
(***************************************************************************)
PublicKeyLen(k) == FipsSigKeySizes(k.variant)[1]
SecretKeyLen(k) ==
    IF ~k.sk THEN 0
    ELSE IF k.variant \in AllDsaVariants THEN 32
    ELSE FipsSlhSizes(k.variant).sk
\* The length of a signature's bytes: the encoding of its length class.
SigLen(s) ==
    CASE s.enc \in AllDsaVariants -> FipsDsaSizes(s.enc).sig
      [] s.enc \in AllSlhVariants -> FipsSlhSizes(s.enc).sig
      [] OTHER                    -> 0
(***************************************************************************)
(* MlDsaSignature / SlhDsaSignature: the public variant field, and the     *)
(* bytes, abstracted to their length class, signer, message and coins.     *)
(***************************************************************************)
SigRec == [variant : Variants, enc : Variants \cup {"short"},
           key : 0..MaxDraws, msg : Msgs \cup {NoMsg}, r : 0..MaxDraws]
Short(v) == [variant |-> v, enc |-> "short", key |-> 0, msg |-> NoMsg, r |-> 0]

Ok(v)  == [tag |-> "ok", val |-> v]
Verdict(b) == [tag |-> "ok", valid |-> b]   \* the Ok(bool) of verify
Err(k) == [tag |-> "err", val |-> k]
Panic  == [tag |-> "panic", val |-> "none"]
Done   == [tag |-> "done", val |-> "none"]
Results == {Verdict(b) : b \in BOOLEAN} \cup {Ok(s) : s \in SigRec}
           \cup {Err(k) : k \in {"Signing", "Verification"}} \cup {Panic, Done}

Ops == {"Init", "Generate", "Sign", "Verify", "Clone", "Deserialize", "Drop"}
LastRec == [op : Ops, key : KeyRec \cup {NoKey}, msg : Msgs \cup {NoMsg},
            sig : SigRec \cup {NoKey}, res : Results]

ASSUME SigSentinelAssumption == NoKey \notin KeyRec \cup SigRec

Record(op, k, m, s, res) ==
    last' = [op |-> op, key |-> k, msg |-> m, sig |-> s, res |-> res]

\* The signatures a caller can hand to verify: those it was given, with the
\* public variant field set to any variant of the family, and truncated ones.
SigsSeen ==
    (UNION {{[variant |-> v, enc |-> s.enc, key |-> s.key, msg |-> s.msg,
              r |-> s.r] : v \in Family(s.enc) \cap Variants} : s \in signed})
    \cup {Short(v) : v \in Variants}

-----------------------------------------------------------------------------
(***************************************************************************)
(* verify_impl / verify_typed: VerifyingKey decode of public_key (always   *)
(* of the right length here), then Signature try_from, which rejects bytes *)
(* of another length with Verification.                                    *)
(***************************************************************************)
SigDecodes(k, s) == s.enc = k.variant

\* Mutant: a verifier that checks by re-deriving a deterministic signature.
VerifyVerdictByResigning(k, m, s) ==
    IF s.variant # k.variant \/ ~SigDecodes(k, s) THEN Err("Verification")
    ELSE Verdict(s.key = k.mat /\ s.msg = m /\ s.r = 0)

\* Mutant: a verifier that does not bind the message.
VerifyVerdictNoMsg(k, m, s) ==
    IF s.variant # k.variant \/ ~SigDecodes(k, s) THEN Err("Verification")
    ELSE Verdict(s.key = k.mat)

(***************************************************************************)
(* MlDsaKeyPair::verify: the variant mismatch check comes first and is an  *)
(* error; a decodable signature that does not match is Ok(false).          *)
(***************************************************************************)
VerifyVerdict(k, m, s) ==
    IF s.variant # k.variant THEN Err("Verification")
    ELSE IF ~SigDecodes(k, s) THEN Err("Verification")
    ELSE Verdict(s.key = k.mat /\ s.msg = m)

-----------------------------------------------------------------------------
Init ==
    /\ keys = [h \in Handles |-> NoKey]
    /\ rng = 0
    /\ signed = {}
    /\ residue = {}
    /\ last = [op |-> "Init", key |-> NoKey, msg |-> NoMsg, sig |-> NoKey,
               res |-> Done]

(***************************************************************************)
(* MlDsaKeyPair::generate (generate_with_rng ignores its RNG): fill the    *)
(* stack array seed from getrandom (panics if the source fails), expand it *)
(* with from_seed(&seed.into()) and store kp.to_seed() in make_keypair.    *)
(* Neither seed nor its converted copy is ever zeroized.                   *)
(***************************************************************************)
MlDsaGenerate(h, v) ==
    /\ keys[h] = NoKey
    /\ v \in DsaVariants
    /\ rng < MaxDraws
    /\ rng' = rng + 1
    /\ \/ /\ keys' = [keys EXCEPT ![h] = [variant |-> v, mat |-> rng + 1,
                                         sk |-> TRUE]]
          /\ residue' = residue \cup {Seed(rng + 1)}
          /\ Record("Generate", keys'[h], NoMsg, NoKey, Done)
       \/ /\ UNCHANGED <<keys, residue>>
          /\ Record("Generate", NoKey, NoMsg, NoKey, Panic)
    /\ UNCHANGED signed

(***************************************************************************)
(* SlhDsaKeyPair::generate / generate_typed: SigningKey::new(&mut PqcRng), *)
(* which panics if the source fails, then the key bytes are copied out.    *)
(***************************************************************************)
SlhGenerate(h, v) ==
    /\ keys[h] = NoKey
    /\ v \in SlhVariants
    /\ rng < MaxDraws
    /\ rng' = rng + 1
    /\ \/ /\ keys' = [keys EXCEPT ![h] = [variant |-> v, mat |-> rng + 1,
                                         sk |-> TRUE]]
          /\ Record("Generate", keys'[h], NoMsg, NoKey, Done)
       \/ /\ UNCHANGED keys
          /\ Record("Generate", NoKey, NoMsg, NoKey, Panic)
    /\ UNCHANGED <<signed, residue>>

(***************************************************************************)
(* MlDsaKeyPair::sign / sign_impl: secret_key.try_into() a [u8; 32] fails  *)
(* with Signing on the empty Vec; otherwise from_seed(&seed.into()), then  *)
(* seed.zeroize() -- the Array copy made by into() is not -- and a         *)
(* deterministic signature.                                                *)
(***************************************************************************)
MlDsaSign(h, m) ==
    LET k == keys[h] IN
    /\ k # NoKey
    /\ k.variant \in DsaVariants
    /\ \/ /\ ~k.sk
          /\ Record("Sign", k, m, NoKey, Err("Signing"))
          /\ UNCHANGED <<signed, residue>>
       \/ LET s == [variant |-> k.variant, enc |-> k.variant, key |-> k.mat,
                    msg |-> m, r |-> 0]
          IN  /\ k.sk
              /\ signed' = signed \cup {s}
              /\ residue' = residue \cup {Seed(k.mat)}
              /\ Record("Sign", k, m, s, Ok(s))
    /\ UNCHANGED <<keys, rng>>

(***************************************************************************)
(* SlhDsaKeyPair::sign / sign_typed: SigningKey::try_from(secret_key)      *)
(* fails with Signing on the empty Vec; otherwise try_sign_with_rng draws  *)
(* from PqcRng, which panics if the source fails.                          *)
(***************************************************************************)
SlhSign(h, m) ==
    LET k == keys[h] IN
    /\ k # NoKey
    /\ k.variant \in SlhVariants
    /\ \/ /\ ~k.sk
          /\ Record("Sign", k, m, NoKey, Err("Signing"))
          /\ UNCHANGED <<rng, signed>>
       \/ /\ k.sk
          /\ rng < MaxDraws
          /\ rng' = rng + 1
          /\ LET s == [variant |-> k.variant, enc |-> k.variant,
                       key |-> k.mat, msg |-> m, r |-> rng + 1]
             IN  \/ /\ signed' = signed \cup {s}
                    /\ Record("Sign", k, m, s, Ok(s))
                 \/ /\ UNCHANGED signed
                    /\ Record("Sign", k, m, NoKey, Panic)
    /\ UNCHANGED <<keys, residue>>

(***************************************************************************)
(* verify of either family on a signature the caller holds.                *)
(***************************************************************************)
Verify(h, m, s) ==
    /\ keys[h] # NoKey
    /\ Family(s.variant) = Family(keys[h].variant)
    /\ Record("Verify", keys[h], m, s, VerifyVerdict(keys[h], m, s))
    /\ UNCHANGED <<keys, rng, signed, residue>>

\* derive(Clone): the copy owns its own secret_key.
Clone(h, g) ==
    /\ keys[h] # NoKey
    /\ keys[g] = NoKey
    /\ keys' = [keys EXCEPT ![g] = keys[h]]
    /\ Record("Clone", keys[h], NoMsg, NoKey, Done)
    /\ UNCHANGED <<rng, signed, residue>>

\* Serialize then Deserialize: #[serde(skip)] leaves secret_key empty.
Deserialize(h, g) ==
    /\ keys[h] # NoKey
    /\ keys[g] = NoKey
    /\ keys' = [keys EXCEPT ![g] = [variant |-> keys[h].variant,
                                   mat |-> keys[h].mat, sk |-> FALSE]]
    /\ Record("Deserialize", keys'[g], NoMsg, NoKey, Done)
    /\ UNCHANGED <<rng, signed, residue>>

\* Drop zeroizes secret_key.
Drop(h) ==
    /\ keys[h] # NoKey
    /\ keys' = [keys EXCEPT ![h] = NoKey]
    /\ Record("Drop", keys[h], NoMsg, NoKey, Done)
    /\ UNCHANGED <<rng, signed, residue>>

\* The entropy bound of the model is reached and no key pair is left.
Exhausted ==
    /\ rng = MaxDraws
    /\ \A h \in Handles : keys[h] = NoKey
    /\ UNCHANGED vars

Next ==
    \/ \E h \in Handles, v \in Variants :
          MlDsaGenerate(h, v) \/ SlhGenerate(h, v)
    \/ \E h \in Handles, m \in Msgs : MlDsaSign(h, m) \/ SlhSign(h, m)
    \/ \E h \in Handles, m \in Msgs, s \in SigsSeen : Verify(h, m, s)
    \/ \E h, g \in Handles : Clone(h, g) \/ Deserialize(h, g)
    \/ \E h \in Handles : Drop(h)
    \/ Exhausted

Spec == Init /\ [][Next]_vars

-----------------------------------------------------------------------------
\* Every variable holds a value of its type.
SigTypeOK ==
    /\ keys \in [Handles -> KeyRec \cup {NoKey}]
    /\ rng \in 0..MaxDraws
    /\ signed \subseteq SigRec
    /\ residue \subseteq {Seed(m) : m \in Mats}
    /\ last \in LastRec

\* Spec 8: verify(kp, msg, sign(kp, msg)) is true -- for the pair that
\* signed, a clone of it, or a deserialized copy that kept only the public
\* key, and for the randomized SLH-DSA signatures as for ML-DSA's.
SignVerifyRoundTrip ==
    last.op = "Verify" /\ last.sig \in signed
    /\ last.sig.key = last.key.mat /\ last.sig.msg = last.msg
    /\ last.sig.variant = last.key.variant
    => last.res = Verdict(TRUE)

\* Verify accepts only what was signed: an Ok(true) verdict means some sign
\* call with this key material returned a signature of this message.
VerifyMeansSigned ==
    last.op = "Verify" /\ last.res = Verdict(TRUE) =>
        \E s \in signed : /\ s.key = last.key.mat /\ s.msg = last.msg
                          /\ s.variant = last.key.variant

\* Spec 6: signing with a deserialized key pair fails with InvalidKeyMaterial.
SignWithoutSecretInvalidKeyMaterial ==
    last.op = "Sign" /\ ~last.key.sk => last.res = Err("InvalidKeyMaterial")

\* Spec 3 and 4.1: every signature a sign call returned has the catalog's
\* signature_size for its variant, and every key pair held has the
\* catalog's public key size -- the catalog agrees with the encodings of
\* FIPS 204 and 205 wherever the lifecycles meet it.
SignedLengthsMatchCatalog ==
    /\ \A s \in signed : SigLen(s) = SignatureSize(s.variant)
    /\ \A h \in Handles :
          keys[h] # NoKey =>
              PublicKeyLen(keys[h]) = SigKeySizes(keys[h].variant)[1]

\* Spec 3 and 8: every generated key pair's public and secret key lengths
\* are the catalog's key_sizes for its variant, in every family.
KeyLengthsMatchCatalog ==
    \A h \in Handles :
        keys[h] # NoKey /\ keys[h].sk =>
            <<PublicKeyLen(keys[h]), SecretKeyLen(keys[h])>>
              = SigKeySizes(keys[h].variant)

\* Spec 4.3: no seed is ever left in freed memory without zeroization.
NoSeedResidue == residue = {}

=============================================================================
