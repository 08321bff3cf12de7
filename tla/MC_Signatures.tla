--------------------------- MODULE MC_Signatures ---------------------------
(***************************************************************************)
(* Model-checking instance of Signatures: two slots, two variants of each  *)
(* family (so a relabelled signature can mismatch within its family), two  *)
(* messages (so a signature can be checked against the wrong one) and      *)
(* three entropy draws: two key pairs and one randomized signature, or one *)
(* pair and two SLH-DSA signatures of the same message.                    *)
(***************************************************************************)
EXTENDS Signatures, TLC

CONSTANTS h1, h2, m1, m2

MCHandles == {h1, h2}
MCDsaVariants == {"MlDsa44", "MlDsa65"}
MCSlhVariants == {"Sha2_128s", "Sha2_128f"}
MCMsgs == {m1, m2}
MCMaxDraws == 3
MCSymmetry == Permutations(MCHandles) \cup Permutations(MCMsgs)
=============================================================================
