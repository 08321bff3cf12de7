--------------------------- MODULE GatewayPolicy ---------------------------
(***************************************************************************)
(* The gateway's TLS policy (gateway/src/lib.rs TlsPolicy): the TLS        *)
(* configuration build_tls_config derives from it (gateway/src/tls/mod.rs  *)
(* with tls/src/config.rs validate and cipher_suites), and the requests    *)
(* the router of build_router answers behind pqc_enforcement_middleware    *)
(* (gateway/src/middleware/mod.rs).                                        *)
(*                                                                         *)
(* A gateway is set up once with a policy; then requests arrive with a     *)
(* path and an optional x-tls-cipher-suite header, which the TLS           *)
(* terminator in front of the gateway sets.  A header value is a sequence  *)
(* of fragments: classify_cipher_suite's substring test is a test for a    *)
(* fragment, so the fragments are chosen to split the names at the        *)
(* indicators (a lower-case "ml-kem" is a fragment of its own).            *)
(***************************************************************************)
EXTENDS Naturals, Sequences, Catalog

CONSTANTS
    Policies,   \* the TlsPolicy values a gateway may be configured with
    Paths,      \* request paths
    Headers,    \* x-tls-cipher-suite values, as sequences of fragments
    PqcHeaders, \* the values a TLS terminator writes for a connection whose
                \* key exchange is post-quantum
    NoHeader    \* a request without the header

AllPolicies == {"PqcOnly", "PqcPreferred", "Hybrid", "ClassicalAllowed"}

ASSUME GatewayConstantsAssumption ==
    /\ Policies \subseteq AllPolicies /\ Policies # {}
    /\ {"/health", "/gateway/stats"} \subseteq Paths
    /\ PqcHeaders \subseteq Headers /\ NoHeader \notin Headers

VARIABLES
    policy,   \* GatewayConfig.tls_policy
    tls,      \* the result of build_tls_config(policy)
    last      \* the last request and the status it got

vars == <<policy, tls, last>>

(***************************************************************************)
(* classify_cipher_suite: any of the indicators occurs in the value.       *)
(***************************************************************************)
PqcIndicators == {"ML-KEM", "ML-DSA", "SLH-DSA", "KYBER", "DILITHIUM"}
ClassifyCipherSuite(hdr) ==
    \E i \in DOMAIN hdr : hdr[i] \in PqcIndicators

\* HeaderValue::to_str succeeds only on visible ASCII; the fragment
\* "obs-text" stands for any byte outside it.
ToStrOk(hdr) == \A i \in DOMAIN hdr : hdr[i] # "obs-text"

\* The header as the middleware reads it: "unknown" when it is absent or
\* when to_str fails on it.
CipherSuiteOf(hdr) ==
    IF hdr = NoHeader \/ ~ToStrOk(hdr) THEN <<"unknown">> ELSE hdr

(***************************************************************************)
(* TlsConfig::cipher_suites, with the key exchange each suite names.       *)
(***************************************************************************)
KemAlgorithms == {"MlKem512", "MlKem768", "MlKem1024"}
SuiteKem == [Aes256GcmX25519MlKem768 |-> "MlKem768",
             Aes128GcmX25519MlKem512 |-> "MlKem512",
             Aes256GcmMlKem1024      |-> "MlKem1024"]
CipherSuites(cfg) ==
    IF cfg.hybrid THEN {"Aes256GcmX25519MlKem768", "Aes128GcmX25519MlKem512"}
    ELSE {"Aes256GcmMlKem1024"}

(***************************************************************************)
(* TlsConfig::validate: NoAlgorithms for an empty preference list, then    *)
(* IncompatibleVersion for hybrid mode under TLS 1.2.                      *)
(***************************************************************************)
Validate(cfg) ==
    IF cfg.preferred = <<>> THEN "NoAlgorithms"
    ELSE IF cfg.minVersion = "Tls12" /\ cfg.hybrid THEN "IncompatibleVersion"
    ELSE "Ok"

(***************************************************************************)
(* build_tls_config: TlsConfig::development(), TLS 1.3, then the policy's  *)
(* preferred algorithms and hybrid mode, then validate.                    *)
(***************************************************************************)
PolicyAlgorithms ==
    [PqcOnly          |-> <<"MlKem768", "MlDsa65">>,
     PqcPreferred     |-> <<"MlKem768", "MlKem1024", "MlDsa65">>,
     Hybrid           |-> <<"MlKem768">>,
     ClassicalAllowed |-> <<>>]
PolicyHybrid ==
    [PqcOnly |-> FALSE, PqcPreferred |-> TRUE, Hybrid |-> TRUE,
     ClassicalAllowed |-> FALSE]
\* build_tls_config returns the configuration only when validate accepts
\* it; otherwise Err(TlsError::ConfigError) and no configuration.
BuildTlsConfig(p) ==
    LET cfg == [preferred |-> PolicyAlgorithms[p], minVersion |-> "Tls13",
                hybrid |-> PolicyHybrid[p]]
    IN  IF Validate(cfg) = "Ok" THEN [ok |-> TRUE, cfg |-> cfg]
        ELSE [ok |-> FALSE, err |-> Validate(cfg)]

(***************************************************************************)
(* The router of build_router: /health and /gateway/stats answer 200,      *)
(* every other path 404 (axum matches routes exactly).                     *)
(***************************************************************************)
RouteStatus(path) == IF path \in {"/health", "/gateway/stats"} THEN 200 ELSE 404

\* Mutant: the path comparison of the exemption flipped.
ServeStatusFlipped(p, path, hdr) ==
    IF p = "PqcOnly" /\ ~ClassifyCipherSuite(CipherSuiteOf(hdr))
       /\ path = "/health"
    THEN 403 ELSE RouteStatus(path)

(***************************************************************************)
(* pqc_enforcement_middleware: under PqcOnly a request whose cipher suite  *)
(* is not classified PQC is refused with 403 unless its path is exactly    *)
(* /health; everything else goes on to the router.                         *)
(***************************************************************************)
ServeStatus(p, path, hdr) ==
    IF p = "PqcOnly" /\ ~ClassifyCipherSuite(CipherSuiteOf(hdr))
       /\ path # "/health"
    THEN 403 ELSE RouteStatus(path)

-----------------------------------------------------------------------------
Init ==
    /\ policy \in Policies
    /\ tls = BuildTlsConfig(policy)
    /\ last = [path |-> "none", hdr |-> NoHeader, status |-> 0]

\* One request through the middleware and the router.
Serve(path, hdr) ==
    /\ last' = [path |-> path, hdr |-> hdr,
                status |-> ServeStatus(policy, path, hdr)]
    /\ UNCHANGED <<policy, tls>>

Next == \E path \in Paths, hdr \in Headers \cup {NoHeader} : Serve(path, hdr)

Spec == Init /\ [][Next]_vars

-----------------------------------------------------------------------------
\* classify_cipher_suite, on the value as the middleware reads it, calls no
\* value PQC that a terminator writes for a classical key exchange.
ClassifierSound ==
    \A h \in Headers : ClassifyCipherSuite(CipherSuiteOf(h)) => h \in PqcHeaders

\* Under PqcOnly a request on a path other than /health reaches the router
\* only over a connection whose key exchange is post-quantum -- in
\* particular not without the header.  The right-hand side is what the
\* terminator negotiated, not the middleware's classification of it.
PqcOnlyEnforced ==
    policy = "PqcOnly" /\ last.status \in {200, 404} /\ last.path # "/health"
    => last.hdr \in PqcHeaders

\* The configuration built for the policy validates.
TlsConfigBuilds == tls.ok

\* The preferred key-exchange algorithms of the built configuration (its
\* comment says "in priority order") are among the key exchanges of the
\* cipher suites that the same configuration offers.
PreferredKemOffered ==
    tls.ok =>
        \A i \in DOMAIN tls.cfg.preferred :
            tls.cfg.preferred[i] \in KemAlgorithms =>
                \E s \in CipherSuites(tls.cfg) : SuiteKem[s] = tls.cfg.preferred[i]

\* Spec 6: the TLS collaborator selects the preferred algorithms of a named
\* policy and validates them.  So every policy the gateway offers gives
\* build_tls_config a configuration that validates and offers a cipher
\* suite for each key exchange it prefers.
TlsConfigFromPolicy == TlsConfigBuilds /\ PreferredKemOffered

=============================================================================
