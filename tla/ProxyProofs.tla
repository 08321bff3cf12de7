---------------------------- MODULE ProxyProofs ----------------------------
(***************************************************************************)
(* Proofs about the gateway's route selection (Proxy).                     *)
(*                                                                         *)
(* find_route is max_by_key over the filtered routes, modelled in          *)
(* FindRoute as a fold over the route indices.  The argument is an         *)
(* induction over the fold: after the first n routes the route kept is     *)
(* the last candidate of highest priority among those n (BestUpTo), and    *)
(* KeepBest preserves that from n - 1 to n.  The induction is a least-     *)
(* counterexample argument on the well-founded order < of Nat.             *)
(***************************************************************************)
EXTENDS Proxy, WellFoundedInduction, SequenceTheorems, TLAPS

USE ProxyConstantsAssumption

\* The fold of FindRoute as a function of the number of routes seen.
RouteFold(rs, path) ==
    LET best[n \in Nat] ==
            IF n = 0 THEN 0 ELSE KeepBest(rs, path, best[n - 1], n)
    IN  best

\* Among the first n routes of rs: b is 0 exactly when none is a candidate,
\* and otherwise the last candidate of the highest priority.
BestUpTo(rs, path, n, b) ==
    LET C == {j \in 1..n : Candidate(rs, path, j)} IN
    /\ b = 0 <=> C = {}
    /\ b # 0 => /\ b \in C
                /\ \A j \in C : \/ rs[j].priority < rs[b].priority
                                \/ rs[j].priority = rs[b].priority /\ j <= b

-----------------------------------------------------------------------------
\* The recursive function of the fold satisfies its defining equation.
LEMMA RouteFoldDef ==
    ASSUME NEW rs, NEW path
    PROVE  /\ RouteFold(rs, path)[0] = 0
           /\ \A n \in Nat \ {0} :
                 RouteFold(rs, path)[n] =
                    KeepBest(rs, path, RouteFold(rs, path)[n - 1], n)
<1>. DEFINE Def(v, n) == KeepBest(rs, path, v, n)
            f == RouteFold(rs, path)
<1>1. NatInductiveDefHypothesis(f, 0, Def)
  BY DEF NatInductiveDefHypothesis, RouteFold
<1>2. NatInductiveDefConclusion(f, 0, Def)
  BY <1>1, NatInductiveDef
<1>. QED  BY <1>2 DEF NatInductiveDefConclusion

\* FindRoute is the fold taken over the whole table.
LEMMA FindRouteIsFold ==
    ASSUME NEW rs, NEW path
    PROVE  FindRoute(rs, path) = RouteFold(rs, path)[Len(rs)]
BY DEF FindRoute, RouteFold

\* One step of the fold keeps the best route of the prefix seen so far.
LEMMA KeepBestStep ==
    ASSUME NEW rs \in Seq(Route), NEW path, NEW n \in 1..Len(rs), NEW b,
           BestUpTo(rs, path, n - 1, b)
    PROVE  BestUpTo(rs, path, n, KeepBest(rs, path, b, n))
<1>. DEFINE Cp == {j \in 1..n - 1 : Candidate(rs, path, j)}
            Cn == {j \in 1..n : Candidate(rs, path, j)}
            pr(j) == rs[j].priority
<1>0. \A j \in 1..n : rs[j] \in Route
  OBVIOUS
<1>1. \A j \in 1..n : pr(j) \in Int
  BY <1>0 DEF Route
<1>2. /\ b = 0 <=> Cp = {}
      /\ b # 0 => /\ b \in Cp
                  /\ \A j \in Cp : pr(j) < pr(b) \/ (pr(j) = pr(b) /\ j <= b)
  BY DEF BestUpTo
<1>3. CASE Candidate(rs, path, n) /\ (b = 0 \/ pr(n) >= pr(b))
  <2>1. KeepBest(rs, path, b, n) = n
    BY <1>3 DEF KeepBest
  <2>2. Cn = Cp \cup {n}
    BY <1>3
  <2>3. \A j \in Cp : pr(j) < pr(n) \/ (pr(j) = pr(n) /\ j <= n)
    <3>1. CASE b = 0
      BY <1>2, <3>1
    <3>2. CASE b # 0
      <4>. SUFFICES ASSUME NEW j \in Cp
                    PROVE  pr(j) < pr(n) \/ (pr(j) = pr(n) /\ j <= n)
        OBVIOUS
      <4>1. b \in 1..n /\ j \in 1..n - 1
        BY <1>2, <3>2
      <4>2. pr(j) < pr(b) \/ (pr(j) = pr(b) /\ j <= b)
        BY <1>2, <3>2
      <4>3. pr(n) >= pr(b)
        BY <1>3, <3>2
      <4>. QED  BY <1>1, <4>1, <4>2, <4>3
    <3>. QED  BY <3>1, <3>2
  <2>. QED  BY <2>1, <2>2, <2>3 DEF BestUpTo
<1>4. CASE Candidate(rs, path, n) /\ b # 0 /\ pr(n) < pr(b)
  <2>1. KeepBest(rs, path, b, n) = b
    BY <1>1, <1>2, <1>4 DEF KeepBest
  <2>2. Cn = Cp \cup {n}
    BY <1>4
  <2>. QED  BY <1>2, <1>4, <2>1, <2>2 DEF BestUpTo
<1>5. CASE ~Candidate(rs, path, n)
  <2>1. KeepBest(rs, path, b, n) = b
    BY <1>5 DEF KeepBest
  <2>2. Cn = Cp
    BY <1>5
  <2>. QED  BY <1>2, <2>1, <2>2 DEF BestUpTo
<1>. QED  BY <1>1, <1>2, <1>3, <1>4, <1>5

\* After the first n routes, for every n up to the table's length, the fold
\* holds the best route among them: least counterexample on <.
LEMMA RouteFoldBest ==
    ASSUME NEW rs \in Seq(Route), NEW path
    PROVE  \A n \in 0..Len(rs) : BestUpTo(rs, path, n, RouteFold(rs, path)[n])
<1>. DEFINE f == RouteFold(rs, path)
            T == {n \in 0..Len(rs) : ~BestUpTo(rs, path, n, f[n])}
<1>1. BestUpTo(rs, path, 0, f[0])
  BY RouteFoldDef DEF BestUpTo
<1>. SUFFICES ASSUME T # {} PROVE FALSE
  OBVIOUS
<1>2. PICK x \in T : \A y \in T : ~(<<y, x>> \in OpToRel(<, Nat))
  <2>1. T \subseteq Nat
    OBVIOUS
  <2>. QED  BY <2>1, NatLessThanWellFounded, WFMin
<1>3. x \in 1..Len(rs)
  <2>1. x \in 0..Len(rs) /\ ~BestUpTo(rs, path, x, f[x])
    BY <1>2
  <2>2. x # 0
    BY <1>1, <2>1
  <2>. QED  BY <2>1, <2>2
<1>4. x - 1 \in 0..Len(rs) /\ <<x - 1, x>> \in OpToRel(<, Nat)
  BY <1>3 DEF OpToRel
<1>5. BestUpTo(rs, path, x - 1, f[x - 1])
  BY <1>2, <1>4
<1>6. f[x] = KeepBest(rs, path, f[x - 1], x)
  BY <1>3, RouteFoldDef
<1>7. BestUpTo(rs, path, x, f[x])
  BY <1>3, <1>5, <1>6, KeepBestStep
<1>. QED  BY <1>2, <1>7

\* find_route returns the best route of the whole table.
LEMMA FindRouteCorrect ==
    ASSUME NEW rs \in Seq(Route), NEW path
    PROVE  BestUpTo(rs, path, Len(rs), FindRoute(rs, path))
BY RouteFoldBest, FindRouteIsFold

-----------------------------------------------------------------------------
(***************************************************************************)
(* The inductive invariant: the route table is a list of routes (it never  *)
(* changes after ProxyService::new), and the route of the last find_route *)
(* call is what find_route returns for its path.                           *)
(***************************************************************************)
RouteChosen ==
    /\ routes \in Seq(Route)
    /\ last.op = "FindRoute" => last.route = FindRoute(routes, last.path)

LEMMA InitRouteChosen == Init => RouteChosen
<1>. SUFFICES ASSUME Init PROVE RouteChosen
  OBVIOUS
<1>1. routes \in Seq(Route)
  BY SeqDef DEF Init
<1>. QED  BY <1>1 DEF Init, RouteChosen

LEMMA RouteChosenStep == RouteChosen /\ [Next]_vars => RouteChosen'
<1>. SUFFICES ASSUME RouteChosen, [Next]_vars PROVE RouteChosen'
  OBVIOUS
<1>1. CASE \E path \in RequestPaths : FindRouteCall(path)
  <2>. PICK path \in RequestPaths : FindRouteCall(path)
    BY <1>1
  <2>. QED  BY DEF FindRouteCall, RouteChosen
<1>3. CASE \E i \in DOMAIN routes, path \in RequestPaths : Forward(i, path)
  <2>. PICK i \in DOMAIN routes, path \in RequestPaths : Forward(i, path)
    BY <1>3
  <2>. QED  BY DEF Forward, RouteChosen
<1>2. CASE UNCHANGED vars
  BY <1>2 DEF vars, RouteChosen
<1>. QED  BY <1>1, <1>2, <1>3 DEF Next

\* Every request is routed by find_route to a healthy route whose prefix
\* its path starts with, of the highest priority among those and the last
\* listed among equals, and to none only when no such route exists: for
\* every route table, every set of priorities and every path.
THEOREM FindRouteIsBestHolds == Spec => []FindRouteIsBest
<1>1. RouteChosen => FindRouteIsBest
  <2>. SUFFICES ASSUME RouteChosen, last.op = "FindRoute"
                PROVE  BestUpTo(routes, last.path, Len(routes), last.route)
    BY DEF FindRouteIsBest, BestUpTo
  <2>. QED  BY FindRouteCorrect DEF RouteChosen
<1>. QED  BY <1>1, InitRouteChosen, RouteChosenStep, PTL DEF Spec

=============================================================================
