-------------------------- MODULE MC_GatewayPolicy --------------------------
(***************************************************************************)
(* Model-checking instance of GatewayPolicy: every policy; the two routes, *)
(* paths that differ from them by a suffix or a trailing slash, and an     *)
(* unrouted path; header values naming a PQC key exchange, the same name   *)
(* in lower case, with a byte outside visible ASCII, a classical suite and *)
(* the pre-standard KYBER name.                                            *)
(***************************************************************************)
EXTENDS GatewayPolicy

MCPolicies == AllPolicies
MCPaths == {"/health", "/gateway/stats", "/health/", "/healthz",
            "/gateway/stats/", "/api/keys"}
MCHeaders == {<<"TLS_", "ML-KEM", "-768_AES_256_GCM_SHA384">>,
              <<"TLS_", "ml-kem", "-768_AES_256_GCM_SHA384">>,
              <<"TLS_", "ML-KEM", "-768_AES_256_GCM_SHA384", "obs-text">>,
              <<"TLS_ECDHE_RSA_WITH_AES_256_GCM_SHA384">>,
              <<"X25519", "KYBER", "768">>}
\* The ML-KEM-768 suite in either case and the X25519+Kyber768 draft.
MCPqcHeaders == {<<"TLS_", "ML-KEM", "-768_AES_256_GCM_SHA384">>,
                 <<"TLS_", "ml-kem", "-768_AES_256_GCM_SHA384">>,
                 <<"X25519", "KYBER", "768">>}

\* The instance's classification is sound for its header values.
ASSUME MCClassifierSound == ClassifierSound
=============================================================================
