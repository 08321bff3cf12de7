---------------------------- MODULE KemLifecycle ----------------------------
(***************************************************************************)
(* Lifecycle of ML-KEM key pairs (crypto/src/mlkem.rs) and of the hybrid   *)
(* X25519 + ML-KEM-768 key pairs built on them (crypto/src/hybrid.rs).     *)
(*                                                                         *)
(* The caller owns a few key-pair values, one per slot of Handles.  On a   *)
(* slot it may generate a key pair, encapsulate against it, decapsulate a  *)
(* ciphertext it has seen, clone it (derive(Clone)), pass it through a     *)
(* serde round trip (the secret fields are #[serde(skip)]), clear the      *)
(* public classical_secret field of a hybrid pair, or drop it.             *)
(*                                                                         *)
(* Cryptography is abstract: a value is a tuple naming what it is derived  *)
(* from, so two values are equal exactly when the primitives would give    *)
(* equal bytes (up to negligible probability).  Every call that draws from *)
(* the OS entropy source takes a fresh number from the counter rng; a      *)
(* failing entropy source makes getrandom::fill(..).expect(..) panic, and  *)
(* the unwinding runs the Drop impls but zeroizes no plain array or Vec.   *)
(* residue holds the secret values left in freed memory without zeroing.   *)
(***************************************************************************)
EXTENDS Naturals, FiniteSets, Catalog

CONSTANTS
    Handles,      \* slots holding the caller's key-pair values
    KemVariants,  \* the MlKemVariant values in use
    MaxDraws,     \* bound on draws from the entropy source
    NoKey,        \* an empty slot
    JunkCt,       \* a ciphertext of the wrong length for every variant
    JunkPub       \* an ephemeral X25519 public key that is not 32 bytes

ASSUME ConstantsAssumption ==
    /\ KemVariants \subseteq AllKemVariants
    /\ "MlKem768" \in KemVariants
    /\ MaxDraws \in Nat \ {0}

VARIABLES
    keys,     \* keys[h]: the key pair held in slot h, or NoKey
    rng,      \* number of draws taken from the entropy source
    wire,     \* the encapsulation results the caller has received
    residue,  \* secret values left in freed memory without zeroization
    last      \* the last operation, its input and its outcome

vars == <<keys, rng, wire, residue, last>>

Mats == 1..MaxDraws

(***************************************************************************)
(* Abstract secret values.                                                 *)
(***************************************************************************)
ClsSk(m)     == <<"x25519", m>>          \* an X25519 secret scalar
KemSS(m, r)  == <<"kss", m, r>>          \* ML-KEM shared key of ek(m), coins r
Reject(m, c) == <<"rej", m, c>>          \* implicit rejection key of dk(m), ct c
Dh(a, b)     == <<"dh", {a, b}>>         \* X25519 shared secret of scalars a, b
Kdf(c, p)    == <<"kdf", c, p>>          \* SHA-256(tag || c || p)

(***************************************************************************)
(* Values of the model.  A key pair of kind "kem" is an MlKemKeyPair; one  *)
(* of kind "hybrid" is a HybridKemKeyPair whose pqc_keypair has material   *)
(* mat too.  sk: pqc secret_key is the generated key (FALSE: the empty Vec *)
(* serde leaves); cls: classical_secret is Some.                           *)
(***************************************************************************)
KeyRec == [kind : {"kem", "hybrid"}, variant : KemVariants, mat : Mats,
           sk : BOOLEAN, cls : BOOLEAN]
Ct == [variant : KemVariants, mat : Mats, r : Mats]
CtIn == Ct \cup {JunkCt}
EphIn == (0..MaxDraws) \cup {JunkPub}
KemShared == {KemSS(m, r) : m \in Mats, r \in Mats}
             \cup {Reject(m, c) : m \in Mats, c \in Ct}
Shared == KemShared
          \cup {Kdf(Dh(a, b), p) : a \in 0..MaxDraws, b \in 0..MaxDraws,
                                    p \in KemShared}
Output == [kind : {"kem", "hybrid"}, ct : Ct, eph : 0..MaxDraws, ss : Shared]
ErrKinds == {"Decapsulation", "InvalidKeyMaterial"}
Ok(v)  == [tag |-> "ok", val |-> v]
Err(k) == [tag |-> "err", val |-> k]
Panic  == [tag |-> "panic", val |-> "none"]
Done   == [tag |-> "done", val |-> "none"]
Results == {Ok(v) : v \in Shared} \cup {Err(k) : k \in ErrKinds}
           \cup {Panic, Done}
Ops == {"Init", "Generate", "Encapsulate", "Decapsulate", "HybridGenerate",
        "HybridEncapsulate", "HybridDecapsulate", "Clone", "Deserialize",
        "ClearClassical", "Drop"}
LastRec == [op : Ops, key : KeyRec \cup {NoKey}, ct : CtIn \cup {NoKey},
            eph : EphIn \cup {NoKey}, res : Results, pqcTried : BOOLEAN]

ASSUME SentinelAssumption ==
    /\ NoKey \notin KeyRec \cup CtIn \cup EphIn
    /\ JunkCt \notin Ct
    /\ JunkPub \notin 0..MaxDraws

Record(op, k, c, e, res, tried) ==
    last' = [op |-> op, key |-> k, ct |-> c, eph |-> e, res |-> res,
             pqcTried |-> tried]

\* The lengths of the public key and of a ciphertext the ml-kem encodings
\* give them (ek.to_bytes() in generate, the ciphertext encapsulate
\* returns); a junk ciphertext has no variant's length.
PublicKeyLen(k) == FipsKemSizes(k.variant).pk
CtLen(c) == IF c = JunkCt THEN 0 ELSE FipsKemSizes(c.variant).ct

CtsSeen  == {o.ct : o \in wire} \cup {JunkCt}
EphsSeen == {o.eph : o \in {p \in wire : p.kind = "hybrid"}} \cup {JunkPub}

-----------------------------------------------------------------------------
\* Mutant: a well-formed ciphertext is decapsulated with its own key
\* material instead of the key pair's, skipping the implicit rejection.
KemDecapsResultNoReject(k, c) ==
    IF ~k.sk THEN Err("Decapsulation")
    ELSE IF c = JunkCt \/ c.variant # k.variant THEN Err("Decapsulation")
    ELSE Ok(KemSS(c.mat, c.r))

(***************************************************************************)
(* MlKemKeyPair::decapsulate: DecapsulationKey::new_from_slice on the      *)
(* stored secret_key, then decapsulate_slice, both mapped to               *)
(* CryptoError::Decapsulation.  decapsulate_slice only fails on a          *)
(* ciphertext of the wrong length (each variant has its own); a well-formed *)
(* ciphertext for another key gives FIPS 203's implicit rejection key.     *)
(***************************************************************************)
KemDecapsResult(k, c) ==
    IF ~k.sk THEN Err("Decapsulation")
    ELSE IF c = JunkCt \/ c.variant # k.variant THEN Err("Decapsulation")
    ELSE IF c.mat = k.mat THEN Ok(KemSS(k.mat, c.r))
    ELSE Ok(Reject(k.mat, c))

\* Mutant: X25519 against the key pair's own classical_public instead of
\* the caller's ephemeral public key.
HybridDecapsOutcomeOwnPub(k, e, c) ==
    LET pqc == KemDecapsResult(k, c)
    IN  IF ~k.cls
          THEN [res |-> Err("InvalidKeyMaterial"), tried |-> FALSE, left |-> {}]
        ELSE IF e = JunkPub
          THEN [res |-> Err("InvalidKeyMaterial"), tried |-> FALSE,
                left |-> {ClsSk(k.mat)}]
        ELSE IF pqc.tag = "err"
          THEN [res |-> Err("Decapsulation"), tried |-> TRUE,
                left |-> {ClsSk(k.mat)}]
        ELSE [res |-> Ok(Kdf(Dh(k.mat, k.mat), pqc.val)), tried |-> TRUE,
              left |-> {ClsSk(k.mat), pqc.val}]

(***************************************************************************)
(* HybridKemKeyPair::decapsulate, as the outcome of the whole call: its    *)
(* result, whether the ML-KEM decapsulation ran, and the secrets left in   *)
(* freed memory: the [u8; 32] copy secret_array is never zeroized, and     *)
(* the Vec pqc_shared returned by the KEM is dropped without zeroization.  *)
(***************************************************************************)
HybridDecapsOutcome(k, e, c) ==
    LET pqc == KemDecapsResult(k, c)
    IN  IF ~k.cls
          THEN [res |-> Err("InvalidKeyMaterial"), tried |-> FALSE, left |-> {}]
        ELSE IF e = JunkPub
          THEN [res |-> Err("InvalidKeyMaterial"), tried |-> FALSE,
                left |-> {ClsSk(k.mat)}]
        ELSE IF pqc.tag = "err"
          THEN [res |-> Err("Decapsulation"), tried |-> TRUE,
                left |-> {ClsSk(k.mat)}]
        ELSE [res |-> Ok(Kdf(Dh(k.mat, e), pqc.val)), tried |-> TRUE,
              left |-> {ClsSk(k.mat), pqc.val}]

-----------------------------------------------------------------------------
Init ==
    /\ keys = [h \in Handles |-> NoKey]
    /\ rng = 0
    /\ wire = {}
    /\ residue = {}
    /\ last = [op |-> "Init", key |-> NoKey, ct |-> NoKey, eph |-> NoKey,
               res |-> Done, pqcTried |-> FALSE]

(***************************************************************************)
(* MlKemKeyPair::generate (and generate_with_rng, which ignores its RNG):  *)
(* the variant's generate_keypair_from_rng draws from PqcRng; it panics if *)
(* the entropy source fails and otherwise always returns Ok.               *)
(***************************************************************************)
Generate(h, v) ==
    /\ keys[h] = NoKey
    /\ rng < MaxDraws
    /\ rng' = rng + 1
    /\ \/ /\ keys' = [keys EXCEPT ![h] = [kind |-> "kem", variant |-> v,
                         mat |-> rng + 1, sk |-> TRUE, cls |-> FALSE]]
          /\ Record("Generate", keys'[h], NoKey, NoKey, Done, FALSE)
       \/ /\ UNCHANGED keys
          /\ Record("Generate", NoKey, NoKey, NoKey, Panic, FALSE)
    /\ UNCHANGED <<wire, residue>>

(***************************************************************************)
(* MlKemKeyPair::encapsulate: new_from_slice on the stored public key (it  *)
(* always has the variant's length here), encapsulate_with_rng with fresh  *)
(* coins.  The result's Drop zeroizes its shared secret.                   *)
(***************************************************************************)
Encapsulate(h) ==
    LET k == keys[h] IN
    /\ k # NoKey
    /\ k.kind = "kem"
    /\ rng < MaxDraws
    /\ rng' = rng + 1
    /\ \/ LET c == [variant |-> k.variant, mat |-> k.mat, r |-> rng + 1]
          IN  /\ wire' = wire \cup {[kind |-> "kem", ct |-> c, eph |-> 0,
                                     ss |-> KemSS(k.mat, rng + 1)]}
              /\ Record("Encapsulate", k, c, NoKey, Done, FALSE)
       \/ /\ UNCHANGED wire
          /\ Record("Encapsulate", k, NoKey, NoKey, Panic, FALSE)
    /\ UNCHANGED <<keys, residue>>

(***************************************************************************)
(* MlKemKeyPair::decapsulate of a ciphertext the caller holds.             *)
(***************************************************************************)
Decapsulate(h, c) ==
    LET k == keys[h] IN
    /\ k # NoKey
    /\ k.kind = "kem"
    /\ Record("Decapsulate", k, c, NoKey, KemDecapsResult(k, c), k.sk)
    /\ UNCHANGED <<keys, rng, wire, residue>>

(***************************************************************************)
(* HybridKemKeyPair::generate: fill key_bytes from getrandom, derive the   *)
(* X25519 public key, then MlKemKeyPair::generate(MlKem768).  key_bytes is *)
(* zeroized only after both succeed: a panic in the ML-KEM generation      *)
(* unwinds past the plain array with the classical secret still in it.    *)
(***************************************************************************)
HybridGenerate(h) ==
    LET m == rng + 1 IN
    /\ keys[h] = NoKey
    /\ rng < MaxDraws
    /\ rng' = rng + 1
    /\ \/ /\ keys' = [keys EXCEPT ![h] = [kind |-> "hybrid",
                         variant |-> "MlKem768", mat |-> m, sk |-> TRUE,
                         cls |-> TRUE]]
          /\ residue' = residue
          /\ Record("HybridGenerate", keys'[h], NoKey, NoKey, Done, FALSE)
       \/ /\ UNCHANGED keys
          /\ residue' = residue
          /\ Record("HybridGenerate", NoKey, NoKey, NoKey, Panic, FALSE)
       \/ /\ UNCHANGED keys
          /\ residue' = residue \cup {ClsSk(m)}
          /\ Record("HybridGenerate", NoKey, NoKey, NoKey, Panic, FALSE)
    /\ UNCHANGED wire

(***************************************************************************)
(* HybridKemKeyPair::encapsulate: a fresh ephemeral scalar e (its array is *)
(* zeroized at once, StaticSecret zeroizes on drop), X25519 with the       *)
(* recipient's public key, ML-KEM encapsulation with fresh coins, and      *)
(* combine_secrets(classical, pqc).  A panic in either draw leaves nothing.*)
(***************************************************************************)
\* Mutant: ephemeral_bytes zeroized after the ML-KEM encapsulation, so a
\* panic of its draw unwinds with the ephemeral scalar still in the array.
HybridEncapsulateLateZeroize(h) ==
    LET k == keys[h]
        e == rng + 1
        c == [variant |-> k.variant, mat |-> k.mat, r |-> e]
    IN
    /\ k # NoKey
    /\ k.kind = "hybrid"
    /\ rng < MaxDraws
    /\ rng' = rng + 1
    /\ \/ /\ wire' = wire \cup {[kind |-> "hybrid", ct |-> c, eph |-> e,
                         ss |-> Kdf(Dh(e, k.mat), KemSS(k.mat, e))]}
          /\ residue' = residue
          /\ Record("HybridEncapsulate", k, c, e, Done, TRUE)
       \/ /\ UNCHANGED wire
          /\ residue' = residue \cup {ClsSk(e)}
          /\ Record("HybridEncapsulate", k, NoKey, NoKey, Panic, FALSE)
    /\ UNCHANGED keys

HybridEncapsulate(h) ==
    LET k == keys[h]
        e == rng + 1
        c == [variant |-> k.variant, mat |-> k.mat, r |-> e]
    IN
    /\ k # NoKey
    /\ k.kind = "hybrid"
    /\ rng < MaxDraws
    /\ rng' = rng + 1
    /\ \/ /\ wire' = wire \cup {[kind |-> "hybrid", ct |-> c, eph |-> e,
                         ss |-> Kdf(Dh(e, k.mat), KemSS(k.mat, e))]}
          /\ Record("HybridEncapsulate", k, c, e, Done, TRUE)
       \/ /\ UNCHANGED wire
          /\ Record("HybridEncapsulate", k, NoKey, NoKey, Panic, FALSE)
    /\ UNCHANGED <<keys, residue>>

(***************************************************************************)
(* HybridKemKeyPair::decapsulate of an ephemeral public key and a          *)
(* ciphertext the caller holds, in any combination.                        *)
(***************************************************************************)
HybridDecapsulate(h, e, c) ==
    LET k == keys[h]
        o == HybridDecapsOutcome(k, e, c)
    IN
    /\ k # NoKey
    /\ k.kind = "hybrid"
    /\ residue' = residue \cup o.left
    /\ Record("HybridDecapsulate", k, c, e, o.res, o.tried)
    /\ UNCHANGED <<keys, rng, wire>>

(***************************************************************************)
(* derive(Clone): the copy owns its own secret buffers.                    *)
(***************************************************************************)
Clone(h, g) ==
    /\ keys[h] # NoKey
    /\ keys[g] = NoKey
    /\ keys' = [keys EXCEPT ![g] = keys[h]]
    /\ Record("Clone", keys[h], NoKey, NoKey, Done, FALSE)
    /\ UNCHANGED <<rng, wire, residue>>

(***************************************************************************)
(* Serialize then Deserialize: #[serde(skip)] leaves secret_key the empty  *)
(* Vec and classical_secret None; the public fields come back.             *)
(***************************************************************************)
Deserialize(h, g) ==
    /\ keys[h] # NoKey
    /\ keys[g] = NoKey
    /\ keys' = [keys EXCEPT ![g] = [kind |-> keys[h].kind,
                   variant |-> keys[h].variant, mat |-> keys[h].mat,
                   sk |-> FALSE, cls |-> FALSE]]
    /\ Record("Deserialize", keys'[g], NoKey, NoKey, Done, FALSE)
    /\ UNCHANGED <<rng, wire, residue>>

(***************************************************************************)
(* kp.classical_secret = None on the public field: the old Some(Vec) is    *)
(* dropped as a plain Vec, which does not zeroize; the Drop impl of the    *)
(* key pair only zeroizes a secret still present when the pair is dropped. *)
(***************************************************************************)
ClearClassical(h) ==
    LET k == keys[h] IN
    /\ k # NoKey
    /\ k.kind = "hybrid"
    /\ k.cls
    /\ keys' = [keys EXCEPT ![h] = [kind |-> k.kind, variant |-> k.variant,
                                    mat |-> k.mat, sk |-> k.sk, cls |-> FALSE]]
    /\ residue' = residue \cup {ClsSk(k.mat)}
    /\ Record("ClearClassical", keys'[h], NoKey, NoKey, Done, FALSE)
    /\ UNCHANGED <<rng, wire>>

(***************************************************************************)
(* Dropping a key pair: the Drop impls zeroize secret_key and a present    *)
(* classical_secret.                                                       *)
(***************************************************************************)
Drop(h) ==
    /\ keys[h] # NoKey
    /\ keys' = [keys EXCEPT ![h] = NoKey]
    /\ Record("Drop", keys[h], NoKey, NoKey, Done, FALSE)
    /\ UNCHANGED <<rng, wire, residue>>

(***************************************************************************)
(* The entropy bound of the model is reached and no key pair is left.      *)
(***************************************************************************)
Exhausted ==
    /\ rng = MaxDraws
    /\ \A h \in Handles : keys[h] = NoKey
    /\ UNCHANGED vars

Next ==
    \/ \E h \in Handles, v \in KemVariants : Generate(h, v)
    \/ \E h \in Handles : Encapsulate(h)
    \/ \E h \in Handles, c \in CtsSeen : Decapsulate(h, c)
    \/ \E h \in Handles : HybridGenerate(h)
    \/ \E h \in Handles : HybridEncapsulate(h)
    \/ \E h \in Handles, e \in EphsSeen, c \in CtsSeen :
          HybridDecapsulate(h, e, c)
    \/ \E h, g \in Handles : Clone(h, g) \/ Deserialize(h, g)
    \/ \E h \in Handles : ClearClassical(h) \/ Drop(h)
    \/ Exhausted

Spec == Init /\ [][Next]_vars

-----------------------------------------------------------------------------
(***************************************************************************)
(* Properties.                                                             *)
(***************************************************************************)

\* Every variable holds a value of its type.
TypeOK ==
    /\ keys \in [Handles -> KeyRec \cup {NoKey}]
    /\ rng \in 0..MaxDraws
    /\ wire \subseteq Output
    /\ residue \subseteq {ClsSk(m) : m \in Mats} \cup KemShared
    /\ last \in LastRec

\* The encapsulation result a decapsulation input was taken from: a result
\* produced for this key material whose ciphertext and ephemeral key are
\* exactly the ones given.
FromOwnEncapsulation(o) ==
    /\ o.ct = last.ct
    /\ o.ct.mat = last.key.mat
    /\ o.kind = last.key.kind
    /\ o.kind = "hybrid" => o.eph = last.eph

\* Round trip (spec 8): a decapsulation by a key pair that holds its
\* secrets, of the ciphertext (and for the hybrid, the ephemeral key) of one
\* encapsulation against the same key material, returns that encapsulation's
\* shared secret -- whether the pair decapsulating is the one that
\* encapsulated or a clone of it.
RoundTrip ==
    last.op \in {"Decapsulate", "HybridDecapsulate"}
    /\ last.key.sk /\ (last.key.kind = "hybrid" => last.key.cls)
    => \A o \in wire : FromOwnEncapsulation(o) => last.res = Ok(o.ss)

\* Spec 6: an operation that needs a secret of a deserialized key pair fails
\* with InvalidKeyMaterial.
DeserializedFailsInvalidKeyMaterial ==
    last.op \in {"Decapsulate", "HybridDecapsulate"}
    /\ ~last.key.sk /\ ~last.key.cls
    => last.res = Err("InvalidKeyMaterial")

\* Spec 4.4: decapsulation never returns a wrong-but-valid-looking secret:
\* an Ok result is the secret of the encapsulation the ciphertext came from.
DecapsNeverGarbage ==
    last.op = "Decapsulate" /\ last.res.tag = "ok" =>
        \E o \in wire : o.ct = last.ct /\ last.res = Ok(o.ss)

\* Spec 8: every ciphertext encapsulate returned has the catalog's
\* ciphertext_size for its variant, and every key pair held has the
\* catalog's public key size.
CiphertextLengthMatchesCatalog ==
    /\ \A o \in wire : CtLen(o.ct) = CiphertextSize[o.ct.variant]
    /\ \A h \in Handles :
          keys[h] # NoKey =>
              PublicKeyLen(keys[h]) = KemKeySizes[keys[h].variant][1]

\* Spec 4.3: secret bytes are zeroized on every path by which their owner
\* ends -- no secret is ever left in freed memory.
NoSecretResidue == residue = {}

\* No encapsulation, finished or unwound by a panic of the entropy source,
\* leaves a secret in freed memory: hybrid encapsulate zeroizes the
\* ephemeral scalar's bytes before the ML-KEM encapsulation draws its coins
\* (hybrid.rs:89), and the ML-KEM shared key zeroizes on drop.
EncapsulationLeavesNoResidue ==
    [][last'.op \in {"Encapsulate", "HybridEncapsulate"} => residue' = residue]_vars


-----------------------------------------------------------------------------
(***************************************************************************)
(* The refinement mapping to KeyExchange.  A key is named by its material, *)
(* a ciphertext by the ML-KEM ciphertext together with the ephemeral       *)
(* X25519 key of a hybrid encapsulation (NoKey for a plain one).  A key    *)
(* pair holds its secret when it has secret_key and, if hybrid, the        *)
(* classical_secret too.  Only a decapsulation is an answer.               *)
(***************************************************************************)
HoldsSecret(k) == k.sk /\ (k.kind = "hybrid" => k.cls)
WireCt(o) == <<o.ct, IF o.kind = "hybrid" THEN o.eph ELSE NoKey>>
Published == {[key |-> o.ct.mat, ct |-> WireCt(o), ss |-> o.ss] : o \in wire}
Answered ==
    IF last.op \in {"Decapsulate", "HybridDecapsulate"}
    THEN [key |-> last.key.mat, ct |-> <<last.ct, last.eph>>,
          holder |-> HoldsSecret(last.key), res |-> last.res]
    ELSE NoKey

KX == INSTANCE KeyExchange
        WITH published <- Published, answer <- Answered, Keys <- Mats,
             Cts <- CtIn \X (EphIn \cup {NoKey}), Secrets <- Shared,
             Results <- Results, NoAnswer <- NoKey

\* The ML-KEM and hybrid key pairs together implement the key-exchange
\* contract: every encapsulation publishes a new ciphertext with a new
\* secret (spec 8, "fresh randomness each call"), a decapsulation by a
\* holder of the key's secret returns the secret of exactly that key's
\* encapsulation of that ciphertext and never another's, and one without
\* it fails -- across clones, serde round trips and cleared secrets.
KeyExchangeRefined == KX!Spec

=============================================================================
