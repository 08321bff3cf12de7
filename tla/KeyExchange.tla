---------------------------- MODULE KeyExchange ----------------------------
(***************************************************************************)
(* What a key-encapsulation service promises its caller, whatever the      *)
(* algorithm behind it: the contract spec 4.4, 4.7 and 8 give both         *)
(* MlKemKeyPair and HybridKemKeyPair (crypto/src/mlkem.rs, hybrid.rs).     *)
(*                                                                         *)
(* Encapsulation against a key publishes a ciphertext together with the    *)
(* shared secret it carries, both new.  Decapsulation of a ciphertext by a *)
(* caller holding the key's secret returns the secret published with that  *)
(* ciphertext for that key, and never a secret published with another      *)
(* ciphertext or for another key; a caller without the secret gets an      *)
(* error.  Any other operation publishes nothing and answers nothing.      *)
(***************************************************************************)
CONSTANTS
    Keys,      \* key identities
    Cts,       \* what a decapsulation is given
    Secrets,   \* shared secrets
    Results,   \* outcomes of a call: records [tag, val], tag "ok" for a value
    NoAnswer   \* no decapsulation has just been answered

VARIABLES
    published,  \* the encapsulations handed out: key, ciphertext, secret
    answer      \* the last decapsulation, by whom, of what, and its result

vars == <<published, answer>>

Entry  == [key : Keys, ct : Cts, ss : Secrets]
Answer == [key : Keys, ct : Cts, holder : BOOLEAN, res : Results]
Ok(s)  == [tag |-> "ok", val |-> s]

Init == published = {} /\ answer = NoAnswer

\* No earlier encapsulation had this ciphertext or this secret.
Fresh(p) == \A q \in published : q.ct # p.ct /\ q.ss # p.ss

\* One encapsulation: a single new entry.
Encapsulate ==
    /\ \E p \in published' \ published :
          /\ p \in Entry
          /\ Fresh(p)
          /\ published' = published \cup {p}
    /\ answer' = NoAnswer

\* The result a holder of the key's secret may get: the secret of an entry
\* exactly when the entry is for this key and this ciphertext.
HolderResult(a) ==
    \A p \in published : (p.key = a.key /\ p.ct = a.ct) <=> a.res = Ok(p.ss)

\* One decapsulation.
Decapsulate ==
    /\ published' = published
    /\ answer' \in Answer
    /\ IF answer'.holder THEN HolderResult(answer')
                         ELSE answer'.res.tag # "ok"

\* Any other call.
Idle ==
    /\ published' = published
    /\ answer' = NoAnswer

Next == Encapsulate \/ Decapsulate \/ Idle

Spec == Init /\ [][Next]_vars

=============================================================================
