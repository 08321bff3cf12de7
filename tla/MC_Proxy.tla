------------------------------ MODULE MC_Proxy ------------------------------
(***************************************************************************)
(* Model-checking instance of Proxy: paths of up to three characters over  *)
(* "/", a letter and a digit; route tables of up to two routes with the    *)
(* prefix "/" or "/a", two priorities (so ties happen) and port 80.        *)
(***************************************************************************)
EXTENDS Proxy

MCChars == {"/", "a", "1"}
MCPrefixes == {<<"/">>, <<"/", "a">>}
MCPriorities == {1, 2}
MCPort == <<"8", "0">>
MCMaxLen == 3
MCMaxRoutes == 2
=============================================================================
