-------------------------- MODULE MC_KemLifecycle --------------------------
(***************************************************************************)
(* Model-checking instance of KemLifecycle: two slots, two ML-KEM          *)
(* variants (768 for the hybrid pairs and 512 for a length mismatch), and  *)
(* four draws from the entropy source, enough for two key pairs and two    *)
(* encapsulations, or one pair, a copy and three encapsulations.           *)
(***************************************************************************)
EXTENDS KemLifecycle, TLC

CONSTANTS h1, h2

MCHandles == {h1, h2}
MCKemVariants == {"MlKem512", "MlKem768"}
MCMaxDraws == 4
MCSymmetry == Permutations(MCHandles)
=============================================================================
