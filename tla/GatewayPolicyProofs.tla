------------------------- MODULE GatewayPolicyProofs -------------------------
(***************************************************************************)
(* Proofs about GatewayPolicy for every set of policies, request paths    *)
(* and x-tls-cipher-suite values, not only the instance TLC enumerates.    *)
(***************************************************************************)
EXTENDS GatewayPolicy, TLAPS

USE GatewayConstantsAssumption

(***************************************************************************)
(* pqc_enforcement_middleware under PqcOnly: in every reachable state, a   *)
(* request that reached the router on a path other than /health came over  *)
(* a post-quantum key exchange -- for every set of paths and header        *)
(* values, provided classify_cipher_suite calls no classical value PQC.    *)
(* What the proof shows of the middleware: a missing header defaults to    *)
(* "unknown", which is never classified PQC, only the exact path /health   *)
(* is exempt, and the policy fixed at setup judges every request.          *)
(***************************************************************************)
THEOREM PqcOnlyEnforcedHolds == ClassifierSound => (Spec => []PqcOnlyEnforced)
<1>. SUFFICES ASSUME ClassifierSound PROVE Spec => []PqcOnlyEnforced
  OBVIOUS
<1>1. Init => PqcOnlyEnforced
  BY DEF Init, PqcOnlyEnforced
<1>2. ~ClassifyCipherSuite(<<"unknown">>)
  BY DEF ClassifyCipherSuite, PqcIndicators
<1>3. PqcOnlyEnforced /\ [Next]_vars => PqcOnlyEnforced'
  <2> SUFFICES ASSUME PqcOnlyEnforced, [Next]_vars PROVE PqcOnlyEnforced'
    OBVIOUS
  <2>1. ASSUME NEW path \in Paths, NEW hdr \in Headers \cup {NoHeader},
               Serve(path, hdr)
        PROVE  PqcOnlyEnforced'
    <3>. SUFFICES ASSUME policy = "PqcOnly", path # "/health",
                         ServeStatus(policy, path, hdr) \in {200, 404}
                  PROVE  hdr \in PqcHeaders
      BY <2>1 DEF Serve, PqcOnlyEnforced
    <3>1. ClassifyCipherSuite(CipherSuiteOf(hdr))
      BY DEF ServeStatus
    <3>2. hdr # NoHeader
      BY <1>2, <3>1 DEF CipherSuiteOf
    <3>. QED  BY <3>1, <3>2 DEF ClassifierSound
  <2>2. CASE UNCHANGED vars
    BY <2>2 DEF vars, PqcOnlyEnforced
  <2>3. QED
    BY <2>1, <2>2 DEF Next
<1>4. QED
  BY <1>1, <1>3, PTL DEF Spec

=============================================================================
