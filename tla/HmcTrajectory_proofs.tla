------------------------ MODULE HmcTrajectory_proofs ------------------------
(***************************************************************************)
(* One step of the HMC and of the RHMC, for every value of the constants.  *)
(* First the book-keeping of the Metropolis test: whatever the integrator, *)
(* the solvers and the approximations compute, the configuration the chain *)
(* goes on from is the one that was reported.  Then what they compute:     *)
(* sums and folds; the integrators, as words that merge to the nested      *)
(* scheme and lead back when the momentum is reversed; the approximations, *)
(* as powers; forces and energies, as those of one action; and MotionInv,  *)
(* the inductive invariant that puts them together.                        *)
(***************************************************************************)
EXTENDS HmcTrajectory, ModelNumbers_proofs, FiniteSetTheorems, SequenceTheorems, TLAPS

Phases == {"start", "initialized", "integrated", "tested", "finished", "aborted"}

(* perform_hmc_step takes its gauge field by reference and may overwrite   *)
(* it in its last action only.                                             *)
StartKept == pc # "finished" => gf = gf_start

(* metropolis computes the observables before anything is overwritten,     *)
(* from what the field is going to be.                                     *)
ObservedBeforehand ==
    pc = "tested" =>
        /\ obs.accept \in {0, 1}
        /\ obs.of = Observables(IF obs.accept = 1 THEN new_u ELSE gf)

IInv ==
    /\ pc \in Phases
    /\ StartKept
    /\ ObservedBeforehand
    /\ ObservablesDescribeConfiguration
-----------------------------------------------------------------------------
(* Init and every action keep the four parts.  Only metropolis and         *)
(* AcceptOrReject need an argument: the first evaluates Observables where  *)
(* the second will leave gf.                                               *)
LEMMA InitialStates == Init => IInv
  BY DEF Init, IInv, Phases, StartKept, ObservedBeforehand, ObservablesDescribeConfiguration

LEMMA Metropolis == IInv /\ metropolis => IInv'
  <1> SUFFICES ASSUME IInv, metropolis PROVE IInv'
    OBVIOUS
  <1> USE DEF metropolis
  <1>1. pc = "integrated" /\ pc' = "tested" /\ UNCHANGED <<prm, gf, new_u, gf_start>>
    OBVIOUS
  <1>2. PICK accept \in {0, 1} :
           /\ obs'.accept = accept
           /\ obs'.of = Observables(IF accept = 1 THEN new_u ELSE gf)
    <2> DEFINE deltaH ==
           (deltaH_gauge + (KineticEnergy(p) - KineticEnergy(new_p)) + deltaH_fermion) % P
    <2>1. \E accept \in IF deltaH = 0 THEN {1} ELSE {0, 1} :
             obs' = [accept |-> accept, deltaH |-> deltaH,
                     of |-> Observables(IF accept = 1 THEN new_u ELSE gf)]
      OBVIOUS
    <2> HIDE DEF deltaH
    <2>2. QED
      BY <2>1
  <1>3. ObservedBeforehand'
    BY <1>1, <1>2 DEF ObservedBeforehand, Observables, measurePlaquette, measureRectangles
  <1>4. StartKept' /\ pc' \in Phases /\ ObservablesDescribeConfiguration'
    BY <1>1 DEF IInv, StartKept, Phases, ObservablesDescribeConfiguration
  <1>5. QED
    BY <1>3, <1>4 DEF IInv

LEMMA Decision == IInv /\ AcceptOrReject => IInv'
  <1> SUFFICES ASSUME IInv, AcceptOrReject PROVE IInv'
    OBVIOUS
  <1>1. /\ pc = "tested" /\ pc' = "finished"
        /\ gf' = (IF obs.accept = 1 THEN new_u ELSE gf)
        /\ UNCHANGED <<prm, obs, gf_start>>
    BY DEF AcceptOrReject
  <1>2. obs.accept \in {0, 1} /\ obs.of = Observables(gf')
    BY <1>1 DEF IInv, ObservedBeforehand
  <1>3. Observables(gf') = Observables(gf)'
    BY <1>1 DEF Observables, measurePlaquette, measureRectangles
  <1>4. obs.accept = 0 => gf' = gf_start
    BY <1>1 DEF IInv, StartKept
  <1>5. ObservablesDescribeConfiguration'
    BY <1>1, <1>2, <1>3, <1>4 DEF ObservablesDescribeConfiguration
  <1>6. QED
    BY <1>1, <1>5 DEF IInv, Phases, StartKept, ObservedBeforehand

LEMMA Steps == IInv /\ [Next]_vars => IInv'
  <1> SUFFICES ASSUME IInv, [Next]_vars PROVE IInv'
    OBVIOUS
  <1> USE DEF IInv, Phases, StartKept, ObservedBeforehand, ObservablesDescribeConfiguration
  <1>1. CASE Heatbath
    BY <1>1 DEF Heatbath
  <1>2. CASE Integrate
    BY <1>2 DEF Integrate
  <1>3. CASE IntegratorFails
    BY <1>3 DEF IntegratorFails
  <1>4. CASE RangeExceeded
    BY <1>4 DEF RangeExceeded
  <1>5. CASE metropolis
    BY <1>5, Metropolis
  <1>6. CASE AcceptOrReject
    BY <1>6, Decision
  <1>7. CASE NextStep
    BY <1>7 DEF NextStep
  <1>8. CASE UNCHANGED vars
    BY <1>8 DEF vars, Observables, measurePlaquette, measureRectangles
  <1>9. QED
    BY <1>1, <1>2, <1>3, <1>4, <1>5, <1>6, <1>7, <1>8 DEF Next, Aborted

(* Whatever is reported of a finished step, perform_hmc_step and           *)
(* perform_rhmc_step have measured on the configuration they leave in the  *)
(* gauge field they were given, and a rejected step leaves the field as it *)
(* was; for every set of parameters, schedule and approximation.           *)
THEOREM ReportedIsKept == Spec => []ObservablesDescribeConfiguration
  <1>1. IInv => ObservablesDescribeConfiguration
    BY DEF IInv
  <1>2. QED
    BY <1>1, InitialStates, Steps, PTL DEF Spec
------------------------------------------------------------------------------
(* Recursion over the subsets of a finite set, the way the folds of the       *)
(* community modules are defined                                              *)

LEMMA Induction ==
    ASSUME NEW S, 0 \in S, \A m \in Nat : m \in S => m + 1 \in S
    PROVE  Nat \subseteq S
<1> DEFINE T == {m \in Nat : m \notin S}
<1>1. T \subseteq Nat
  OBVIOUS
<1>2. ASSUME T # {} PROVE FALSE
  <2>1. PICK m \in T : \A k \in T : ~(k < m)
    <3> HIDE DEF T
    <3>. QED  BY <1>1, <1>2, Least
  <2>2. m # 0 /\ m \in Nat /\ m - 1 \in Nat /\ m - 1 < m /\ (m - 1) + 1 = m
    OBVIOUS
  <2>3. m - 1 \in S
    BY <2>1, <2>2
  <2>. QED  BY <2>2, <2>3
<1>. QED  BY <1>2

FoldsTo(h, S, base, c, G) ==
    h = [s \in SUBSET S |-> IF s = {} THEN base ELSE G[c[s]][h[s \ {c[s]}]]]

Upto(S, k) == {s \in SUBSET S : Cardinality(s) <= k}

LEMMA Smaller ==
    ASSUME NEW S, IsFiniteSet(S)
    PROVE  /\ \A s \in SUBSET S : /\ IsFiniteSet(s) /\ Cardinality(s) \in Nat
                                  /\ s \in Upto(S, Cardinality(S))
                                  /\ Cardinality(s) = 0 => s = {}
           /\ \A k \in Nat : \A s \in Upto(S, k + 1) : \A x \in s : s \ {x} \in Upto(S, k)
           /\ \A k \in Nat : {} \in Upto(S, k) /\ Upto(S, k) \subseteq Upto(S, k + 1)
           /\ Upto(S, 0) = {{}}
<1>1. \A s \in SUBSET S : /\ IsFiniteSet(s) /\ Cardinality(s) \in Nat
                          /\ Cardinality(s) <= Cardinality(S)
                          /\ Cardinality(s) = 0 => s = {}
  BY FS_Subset, FS_EmptySet, FS_CardinalityType
<1>2. ASSUME NEW k \in Nat, NEW s \in Upto(S, k + 1), NEW x \in s
      PROVE  s \ {x} \in Upto(S, k)
  <2>1. s \in SUBSET S /\ s \ {x} \in SUBSET S /\ Cardinality(s) <= k + 1
    BY DEF Upto
  <2>2. Cardinality(s \ {x}) = Cardinality(s) - 1
    BY <1>1, <2>1, FS_RemoveElement
  <2>3. Cardinality(s \ {x}) <= k
    BY <1>1, <2>1, <2>2
  <2>. QED  BY <2>1, <2>3 DEF Upto
<1>3. {} \in SUBSET S /\ Cardinality({}) = 0
  BY FS_EmptySet
<1>4. \A k \in Nat : {} \in Upto(S, k) /\ Upto(S, k) \subseteq Upto(S, k + 1)
  BY <1>1, <1>3 DEF Upto
<1>5. Upto(S, 0) = {{}}
  BY <1>1, <1>3 DEF Upto
<1>. QED  BY <1>1, <1>2, <1>4, <1>5 DEF Upto

LEMMA FoldExists ==
    ASSUME NEW S, IsFiniteSet(S), NEW D, NEW base \in D,
           NEW c, \A s \in SUBSET S : s # {} => c[s] \in s,
           NEW G, \A x \in S, d \in D : G[x][d] \in D
    PROVE  /\ \E h : FoldsTo(h, S, base, c, G)
           /\ \A h : FoldsTo(h, S, base, c, G) => h \in [SUBSET S -> D]
<1> DEFINE Good(h, k) ==
               \A s \in Upto(S, k) : h[s] = IF s = {} THEN base ELSE G[c[s]][h[s \ {c[s]}]]
           K == {k \in Nat : \E h \in [Upto(S, k) -> D] : Good(h, k)}
<1>1. 0 \in K
  <2> DEFINE h == [s \in Upto(S, 0) |-> base]
  <2>1. h \in [Upto(S, 0) -> D]
    OBVIOUS
  <2>2. \A s \in Upto(S, 0) : s = {} /\ h[s] = base
    BY Smaller
  <2>. QED  BY <2>1, <2>2
<1>2. ASSUME NEW k \in Nat, k \in K PROVE k + 1 \in K
  <2>1. PICK h \in [Upto(S, k) -> D] : Good(h, k)
    BY <1>2
  <2> DEFINE H == [s \in Upto(S, k + 1) |-> IF s = {} THEN base ELSE G[c[s]][h[s \ {c[s]}]]]
  <2>2. \A s \in Upto(S, k + 1) :
           s # {} => c[s] \in s /\ c[s] \in S /\ s \ {c[s]} \in Upto(S, k)
    <3>1. ASSUME NEW s \in Upto(S, k + 1), s # {}
          PROVE  c[s] \in s /\ c[s] \in S /\ s \ {c[s]} \in Upto(S, k)
      <4>1. s \in SUBSET S
        BY DEF Upto
      <4>2. c[s] \in s
        BY <3>1, <4>1
      <4>. QED  BY <4>1, <4>2, Smaller
    <3>. QED  BY <3>1
  <2>3. H \in [Upto(S, k + 1) -> D]
    BY <2>2
  <2>4. \A s \in Upto(S, k) : H[s] = h[s]
    BY <2>1, Smaller
  <2>5. Good(H, k + 1)
    BY <2>2, <2>4
  <2>6. k + 1 \in Nat
    OBVIOUS
  <2> HIDE DEF Good, H
  <2>. QED  BY <2>3, <2>5, <2>6
<1> HIDE DEF K, Good
<1>3. Cardinality(S) \in Nat /\ Nat \subseteq K
  BY <1>1, <1>2, Induction, FS_CardinalityType
<1>4. Upto(S, Cardinality(S)) = SUBSET S
  BY Smaller DEF Upto
<1>5. \E h \in [SUBSET S -> D] : Good(h, Cardinality(S))
  BY <1>3, <1>4 DEF K
<1>6. \E h : FoldsTo(h, S, base, c, G)
  <2>1. PICK h \in [SUBSET S -> D] : Good(h, Cardinality(S))
    BY <1>5
  <2>2. h = [s \in SUBSET S |-> IF s = {} THEN base ELSE G[c[s]][h[s \ {c[s]}]]]
    BY <1>4, <2>1 DEF Good
  <2>. QED  BY <2>2 DEF FoldsTo
<1>7. ASSUME NEW h, FoldsTo(h, S, base, c, G)
      PROVE  h \in [SUBSET S -> D]
  <2> DEFINE T == {k \in Nat : \A s \in Upto(S, k) : h[s] \in D}
  <2>1. \A s \in SUBSET S : h[s] = IF s = {} THEN base ELSE G[c[s]][h[s \ {c[s]}]]
    BY <1>7 DEF FoldsTo
  <2>0. h[{}] = base
    BY <2>1
  <2>2. 0 \in T
    BY <2>0, Smaller
  <2>3. ASSUME NEW k \in Nat, k \in T PROVE k + 1 \in T
    <3>1. ASSUME NEW s \in Upto(S, k + 1), s # {} PROVE h[s] \in D
      <4>1. s \in SUBSET S
        BY DEF Upto
      <4>2. c[s] \in s /\ c[s] \in S
        BY <3>1, <4>1
      <4>3. s \ {c[s]} \in Upto(S, k)
        BY <4>2, Smaller
      <4>. QED  BY <2>1, <2>3, <3>1, <4>1, <4>2, <4>3
    <3>2. h[{}] \in D
      BY <2>0
    <3>3. \A s \in Upto(S, k + 1) : h[s] \in D
      BY <3>1, <3>2
    <3>4. k + 1 \in Nat
      OBVIOUS
    <3>. QED  BY <3>3, <3>4
  <2> HIDE DEF T
  <2>4. Nat \subseteq T
    BY <2>2, <2>3, Induction
  <2>5. \A s \in SUBSET S : h[s] \in D
    BY <1>3, <1>4, <2>4 DEF T
  <2>. QED  BY <1>7, <2>5 DEF FoldsTo
<1>. QED  BY <1>6, <1>7

LEMMA SetInduction ==
    ASSUME NEW S, IsFiniteSet(S), NEW T, {} \in T,
           \A s \in SUBSET S : s # {} /\ (\A x \in s : s \ {x} \in T) => s \in T
    PROVE  SUBSET S \subseteq T
<1> DEFINE K == {k \in Nat : Upto(S, k) \subseteq T}
<1>1. 0 \in K
  BY Smaller
<1>2. ASSUME NEW k \in Nat, k \in K PROVE k + 1 \in K
  <2>1. ASSUME NEW s \in Upto(S, k + 1), s # {} PROVE s \in T
    <3>1. s \in SUBSET S
      BY DEF Upto
    <3>2. \A x \in s : s \ {x} \in T
      BY <1>2, Smaller
    <3>. QED  BY <2>1, <3>1, <3>2
  <2>2. Upto(S, k + 1) \subseteq T
    BY <2>1
  <2>3. k + 1 \in Nat
    OBVIOUS
  <2>. QED  BY <2>2, <2>3
<1> HIDE DEF K
<1>3. Cardinality(S) \in Nat /\ Cardinality(S) \in K
  BY <1>1, <1>2, Induction, FS_CardinalityType
<1>. QED  BY <1>3, Smaller DEF K

Sum(g, S) == MapThenSumSet(LAMBDA x : g[x], S)

SumsTo(h, g, S) ==
    /\ h \in [SUBSET S -> Int] /\ h[{}] = 0
    /\ \A s \in SUBSET S : s # {} =>
          /\ (CHOOSE x \in s : TRUE) \in s
          /\ h[s] = g[CHOOSE x \in s : TRUE] + h[s \ {CHOOSE x \in s : TRUE}]

LEMMA SumIs ==
    ASSUME NEW S, IsFiniteSet(S), NEW g \in [S -> Int]
    PROVE  \E h : SumsTo(h, g, S) /\ Sum(g, S) = h[S]
<1> DEFINE c == [s \in SUBSET S |-> CHOOSE x \in s : TRUE]
           G == [x \in S |-> [d \in Int |-> g[x] + d]]
           Q(h) == h = [s \in SUBSET S |->
                          IF s = {} THEN 0
                          ELSE g[CHOOSE x \in s : TRUE] + h[s \ {CHOOSE x \in s : TRUE}]]
           H == CHOOSE h : Q(h)
<1>1. \A s \in SUBSET S : s # {} => c[s] \in s /\ c[s] = (CHOOSE x \in s : TRUE) /\ c[s] \in S
  OBVIOUS
<1>2. /\ \A x \in S, d \in Int : G[x][d] = g[x] + d
      /\ \A x \in S, d \in Int : G[x][d] \in Int
  OBVIOUS
<1>3. \E h : Q(h)
  <2> HIDE DEF c, G
  <2>1. 0 \in Int
    OBVIOUS
  <2>0. (\A s \in SUBSET S : s # {} => c[s] \in s) /\ (\A x \in S, d \in Int : G[x][d] \in Int)
    BY <1>1, <1>2
  <2> HIDE DEF Q
  <2>7. /\ \E h : FoldsTo(h, S, 0, c, G)
        /\ \A h : FoldsTo(h, S, 0, c, G) => h \in [SUBSET S -> Int]
    BY <2>0, <2>1, FoldExists, Zenon
  <2>2. PICK h : FoldsTo(h, S, 0, c, G)
    BY <2>7
  <2>3. h \in [SUBSET S -> Int]
    BY <2>2, <2>7
  <2>4. \A s \in SUBSET S : h[s] = IF s = {} THEN 0 ELSE G[c[s]][h[s \ {c[s]}]]
    BY <2>2 DEF FoldsTo
  <2>5. ASSUME NEW s \in SUBSET S, s # {}
        PROVE  h[s] = g[CHOOSE x \in s : TRUE] + h[s \ {CHOOSE x \in s : TRUE}]
    <3>1. h[s] = G[c[s]][h[s \ {c[s]}]] /\ h[s \ {c[s]}] \in Int
      BY <2>3, <2>4, <2>5
    <3>. QED  BY <1>1, <1>2, <2>5, <3>1
  <2>6. h[{}] = 0
    BY <2>4
  <2>8. h = [s \in SUBSET S |->
                          IF s = {} THEN 0
                          ELSE g[CHOOSE x \in s : TRUE] + h[s \ {CHOOSE x \in s : TRUE}]]
    BY <2>3, <2>5, <2>6
  <2>9. Q(h)
    BY <2>8 DEF Q
  <2>. QED  BY <2>9
<1>4. Q(H)
  <2> HIDE DEF Q
  <2>. QED  BY <1>3
<1>5. Sum(g, S) = H[S]
  BY DEF Sum, MapThenSumSet, MapThenFoldSet
<1> HIDE DEF H, c, G
<1>6. H[{}] = 0
  BY <1>4
<1>7. \A s \in SUBSET S : s # {} => H[s] = g[c[s]] + H[s \ {c[s]}]
  <2>1. \A s \in SUBSET S : s # {} =>
             H[s] = g[CHOOSE x \in s : TRUE] + H[s \ {CHOOSE x \in s : TRUE}]
    BY <1>4
  <2>. QED  BY <1>1, <2>1
<1>8. SUBSET S \subseteq {s \in SUBSET S : H[s] \in Int}
  <2> DEFINE T == {s \in SUBSET S : H[s] \in Int}
  <2>1. {} \in T
    BY <1>6
  <2>2. ASSUME NEW s \in SUBSET S, s # {}, \A x \in s : s \ {x} \in T
        PROVE  s \in T
    <3>1. H[s] = g[c[s]] + H[s \ {c[s]}] /\ c[s] \in s /\ g[c[s]] \in Int
      BY <1>1, <1>7, <2>2
    <3>2. H[s \ {c[s]}] \in Int
      BY <2>2, <3>1
    <3>3. H[s] \in Int
      BY <3>1, <3>2
    <3>. QED  BY <3>3
  <2> HIDE DEF T
  <2>3. SUBSET S \subseteq T
    BY <2>1, <2>2, SetInduction
  <2>. QED  BY <2>3 DEF T
<1>9. H \in [SUBSET S -> Int]
  <2> DEFINE F(s) == IF s = {} THEN 0
                     ELSE g[CHOOSE x \in s : TRUE] + H[s \ {CHOOSE x \in s : TRUE}]
  <2>1. H = [s \in SUBSET S |-> F(s)]
    BY <1>4
  <2> HIDE DEF F, Q
  <2>2. H = [s \in SUBSET S |-> H[s]]
    BY <2>1
  <2>. QED  BY <1>8, <2>2
<1>10. SumsTo(H, g, S)
  <2>1. \A s \in SUBSET S : s # {} =>
          /\ (CHOOSE x \in s : TRUE) \in s
          /\ H[s] = g[CHOOSE x \in s : TRUE] + H[s \ {CHOOSE x \in s : TRUE}]
    BY <1>1, <1>7
  <2> HIDE DEF Q
  <2>. QED  BY <1>6, <1>9, <2>1 DEF SumsTo
<1>. QED  BY <1>5, <1>10

LEMMA SumType ==
    ASSUME NEW S, IsFiniteSet(S), NEW g \in [S -> Int]
    PROVE  Sum(g, S) \in Int
<1>1. PICK h : SumsTo(h, g, S) /\ Sum(g, S) = h[S]
  BY SumIs
<1>. QED  BY <1>1 DEF SumsTo

\* Sums of one, two and three terms.
LEMMA FewTerms ==
    ASSUME NEW S, NEW g \in [S -> Int], NEW h, SumsTo(h, g, S)
    PROVE  /\ \A x \in S : h[{x}] = g[x]
           /\ \A x, y \in S : x # y => h[{x, y}] = g[x] + g[y]
           /\ \A x, y, z \in S : x # y /\ y # z /\ x # z =>
                                  h[{x, y, z}] = g[x] + g[y] + g[z]
<1>1. \A s \in SUBSET S : s # {} => \E x \in s : h[s] = g[x] + h[s \ {x}]
  BY DEF SumsTo
<1>2. \A x \in S : g[x] \in Int
  OBVIOUS
<1>3. h[{}] = 0
  BY DEF SumsTo
<1>4. \A x \in S : h[{x}] = g[x]
  <2> TAKE x \in S
  <2>1. {x} \in SUBSET S /\ {x} # {} /\ {x} \ {x} = {}
    OBVIOUS
  <2>2. h[{x}] = g[x] + h[{}]
    BY <1>1, <2>1
  <2>. QED  BY <1>2, <1>3, <2>2
<1>5. \A x, y \in S : x # y => h[{x, y}] = g[x] + g[y]
  <2> SUFFICES ASSUME NEW x \in S, NEW y \in S, x # y PROVE h[{x, y}] = g[x] + g[y]
    OBVIOUS
  <2>1. {x, y} \in SUBSET S /\ {x, y} # {} /\ {x, y} \ {x} = {y} /\ {x, y} \ {y} = {x}
    OBVIOUS
  <2>2. h[{x, y}] = g[x] + h[{y}] \/ h[{x, y}] = g[y] + h[{x}]
    BY <1>1, <2>1
  <2>3. h[{x, y}] = g[x] + g[y] \/ h[{x, y}] = g[y] + g[x]
    BY <1>4, <2>2
  <2>4. g[x] + g[y] = g[y] + g[x]
    BY <1>2
  <2>. QED  BY <2>3, <2>4
<1>6. \A x, y, z \in S : x # y /\ y # z /\ x # z =>
                                h[{x, y, z}] = g[x] + g[y] + g[z]
  <2> SUFFICES ASSUME NEW x \in S, NEW y \in S, NEW z \in S, x # y, y # z, x # z
               PROVE h[{x, y, z}] = g[x] + g[y] + g[z]
    OBVIOUS
  <2>1. /\ {x, y, z} \in SUBSET S /\ {x, y, z} # {} /\ {x, y, z} \ {x} = {y, z}
        /\ {x, y, z} \ {y} = {x, z} /\ {x, y, z} \ {z} = {x, y}
    OBVIOUS
  <2>2. h[{x, y, z}] \in {g[x] + h[{y, z}], g[y] + h[{x, z}], g[z] + h[{x, y}]}
    <3>1. PICK a \in {x, y, z} : h[{x, y, z}] = g[a] + h[{x, y, z} \ {a}]
      BY <1>1, <2>1
    <3>. QED  BY <2>1, <3>1
  <2>3. h[{x, y, z}] \in {g[x] + (g[y] + g[z]), g[y] + (g[x] + g[z]), g[z] + (g[x] + g[y])}
    BY <1>5, <2>2
  <2>4. /\ g[x] + (g[y] + g[z]) = g[x] + g[y] + g[z]
        /\ g[y] + (g[x] + g[z]) = g[x] + g[y] + g[z]
        /\ g[z] + (g[x] + g[y]) = g[x] + g[y] + g[z]
    BY <1>2
  <2>. QED  BY <2>3, <2>4
<1>. QED  BY <1>4, <1>5, <1>6

LEMMA SmallSums ==
    /\ \A x : \A g \in [{x} -> Int] : Sum(g, {x}) = g[x]
    /\ \A x, y : \A g \in [{x, y} -> Int] : x # y => Sum(g, {x, y}) = g[x] + g[y]
    /\ \A x, y, z : \A g \in [{x, y, z} -> Int] : x # y /\ y # z /\ x # z =>
                                  Sum(g, {x, y, z}) = g[x] + g[y] + g[z]
<1>1. \A x, y, z : IsFiniteSet({x}) /\ IsFiniteSet({x, y}) /\ IsFiniteSet({x, y, z})
  <2> TAKE x, y, z
  <2>1. IsFiniteSet({x}) /\ IsFiniteSet({x} \cup {y})
    BY FS_Singleton, FS_AddElement
  <2>2. {x} \cup {y} = {x, y} /\ {x, y} \cup {z} = {x, y, z}
    OBVIOUS
  <2>. QED  BY <2>1, <2>2, FS_AddElement
<1>2. ASSUME NEW x, NEW g \in [{x} -> Int]
      PROVE  Sum(g, {x}) = g[x]
  <2>1. PICK h : SumsTo(h, g, {x}) /\ Sum(g, {x}) = h[{x}]
    BY <1>1, SumIs
  <2>2. \A y \in {x} : h[{y}] = g[y]
    BY <2>1, FewTerms
  <2>. QED  BY <2>1, <2>2
<1>3. ASSUME NEW x, NEW y, NEW g \in [{x, y} -> Int], x # y
      PROVE  Sum(g, {x, y}) = g[x] + g[y]
  <2> DEFINE S == {x, y}
  <2>1. PICK h : SumsTo(h, g, S) /\ Sum(g, S) = h[S]
    BY <1>1, SumIs
  <2>2. SumsTo(h, g, S) /\ g \in [S -> Int] /\ x \in S /\ y \in S
    BY <2>1
  <2> HIDE DEF S
  <2>3. h[{x, y}] = g[x] + g[y]
    BY <1>3, <2>2, FewTerms
  <2>. QED  BY <2>1, <2>3 DEF S
<1>4. ASSUME NEW x, NEW y, NEW z, NEW g \in [{x, y, z} -> Int], x # y, y # z, x # z
      PROVE  Sum(g, {x, y, z}) = g[x] + g[y] + g[z]
  <2> DEFINE S == {x, y, z}
  <2>1. PICK h : SumsTo(h, g, S) /\ Sum(g, S) = h[S]
    BY <1>1, SumIs
  <2>2. SumsTo(h, g, S) /\ g \in [S -> Int] /\ x \in S /\ y \in S /\ z \in S
    BY <2>1
  <2> HIDE DEF S
  <2>3. h[{x, y, z}] = g[x] + g[y] + g[z]
    BY <1>4, <2>2, FewTerms
  <2>. QED  BY <2>1, <2>3 DEF S
<1>. QED  BY <1>2, <1>3, <1>4

\* Sums of congruent terms, up to a factor.
LEMMA CongruentSums ==
    ASSUME NEW S, IsFiniteSet(S), NEW f \in [S -> Int], NEW g \in [S -> Int], NEW a \in Int,
           \A x \in S : Congruent(f[x], a * g[x])
    PROVE  Congruent(Sum(f, S), a * Sum(g, S))
<1>1. PICK h : SumsTo(h, f, S) /\ Sum(f, S) = h[S]
  BY SumIs
<1>2. PICK k : SumsTo(k, g, S) /\ Sum(g, S) = k[S]
  BY SumIs
<1> DEFINE T == {s \in SUBSET S : Congruent(h[s], a * k[s])}
<1>3. {} \in T
  <2>1. h[{}] = 0 /\ k[{}] = 0 /\ a * 0 = 0 /\ 0 \in Int
    BY <1>1, <1>2 DEF SumsTo
  <2>. QED  BY <2>1, CongruentSelf
<1>4. ASSUME NEW s \in SUBSET S, s # {}, \A x \in s : s \ {x} \in T
      PROVE  s \in T
  <2> DEFINE x == CHOOSE x \in s : TRUE
  <2>1. x \in s /\ h[s] = f[x] + h[s \ {x}] /\ k[s] = g[x] + k[s \ {x}]
    BY <1>1, <1>2, <1>4 DEF SumsTo
  <2> HIDE DEF x
  <2>2. s \ {x} \in SUBSET S /\ x \in S
    BY <2>1
  <2>3. f[x] \in Int /\ g[x] \in Int /\ h[s \ {x}] \in Int /\ k[s \ {x}] \in Int
    BY <1>1, <1>2, <2>2 DEF SumsTo
  <2>4. Congruent(h[s \ {x}], a * k[s \ {x}])
    BY <1>4, <2>1
  <2>5. Congruent(f[x], a * g[x])
    BY <2>2
  <2>6. a * g[x] \in Int /\ a * k[s \ {x}] \in Int
        /\ a * g[x] + a * k[s \ {x}] = a * (g[x] + k[s \ {x}])
    BY <2>3
  <2>7. Congruent(f[x] + h[s \ {x}], a * g[x] + a * k[s \ {x}])
    BY <2>3, <2>4, <2>5, <2>6, CongruentOps
  <2>8. Congruent(h[s], a * k[s])
    BY <2>1, <2>6, <2>7
  <2>. QED  BY <2>8
<1> HIDE DEF T
<1>5. S \in T
  BY <1>3, <1>4, SetInduction
<1>. QED  BY <1>1, <1>2, <1>5 DEF T

\* A sum with one term that is not zero.
LEMMA OneTerm ==
    ASSUME NEW S, IsFiniteSet(S), NEW g \in [S -> Int], NEW e \in S,
           \A x \in S : x # e => g[x] = 0
    PROVE  Sum(g, S) = g[e]
<1>1. PICK h : SumsTo(h, g, S) /\ Sum(g, S) = h[S]
  BY SumIs
<1> DEFINE T == {s \in SUBSET S : h[s] = IF e \in s THEN g[e] ELSE 0}
<1>2. {} \in T
  BY <1>1 DEF SumsTo
<1>3. ASSUME NEW s \in SUBSET S, s # {}, \A x \in s : s \ {x} \in T
      PROVE  s \in T
  <2> DEFINE x == CHOOSE x \in s : TRUE
  <2>1. x \in s /\ h[s] = g[x] + h[s \ {x}]
    BY <1>1, <1>3 DEF SumsTo
  <2> HIDE DEF x
  <2>2. h[s \ {x}] = IF e \in s \ {x} THEN g[e] ELSE 0
    BY <1>3, <2>1
  <2>3. x \in S /\ g[x] \in Int /\ g[e] \in Int
    BY <2>1
  <2>4. h[s] = IF e \in s THEN g[e] ELSE 0
    <3>1. CASE x = e
      BY <2>1, <2>2, <2>3, <3>1
    <3>2. CASE x # e
      <4>1. g[x] = 0
        BY <2>3, <3>2
      <4>2. 0 + h[s \ {x}] = h[s \ {x}]
        BY <2>2, <2>3
      <4>. QED  BY <2>1, <2>2, <3>2, <4>1, <4>2
    <3>. QED  BY <3>1, <3>2
  <2>. QED  BY <2>4
<1> HIDE DEF T
<1>4. S \in T
  BY <1>2, <1>3, SetInduction
<1>. QED  BY <1>1, <1>4 DEF T
------------------------------------------------------------------------------
(* Recursion over sequences *)

LEMMA MaxIs ==
    ASSUME NEW m \in Nat, NEW S \in SUBSET (1 .. m), S # {}
    PROVE  Max(S) \in S /\ \A x \in S : Max(S) >= x
<1> DEFINE T == {m - x : x \in S}
<1>0. \A x \in S : x \in 1 .. m /\ x \in Int /\ m - x \in Nat
  OBVIOUS
<1>1. T \subseteq Nat /\ T # {}
  BY <1>0
<1>2. PICK d \in T : \A e \in T : ~(e < d)
  <2> HIDE DEF T
  <2>. QED  BY <1>1, Least
<1>3. PICK x \in S : d = m - x
  BY <1>2
<1>4. \A y \in S : x >= y
  <2> TAKE y \in S
  <2>1. ~(m - y < d)
    BY <1>2
  <2>2. x \in Int /\ y \in Int
    BY <1>0
  <2>. QED  BY <1>3, <2>1, <2>2
<1>. QED  BY <1>3, <1>4 DEF Max

LEMMA MaxOfInterval ==
    ASSUME NEW k \in Nat, k > 0
    PROVE  /\ Max(1 .. k) = k /\ (1 .. k) \ {k} = 1 .. k - 1
           /\ 1 .. k # {} /\ k - 1 \in Nat /\ k \in 1 .. k
<1>1. Max(1 .. k) \in 1 .. k /\ \A x \in 1 .. k : Max(1 .. k) >= x
  <2>1. 1 .. k \in SUBSET (1 .. k) /\ 1 .. k # {}
    OBVIOUS
  <2>. QED  BY <2>1, MaxIs
<1> DEFINE x == Max(1 .. k)
<1>2. x \in 1 .. k /\ x >= k
  BY <1>1
<1> HIDE DEF x
<1>3. x = k
  BY <1>2
<1>. QED  BY <1>3 DEF x

\* a, and what G makes of it with one element of s after the other.
Run(G, a, s) ==
    LET t[k \in 0 .. Len(s)] == IF k = 0 THEN a ELSE G[t[k - 1]][s[k]]
    IN t[Len(s)]

Runs(t, G, a, s) == t[0] = a /\ \A k \in 1 .. Len(s) : t[k] = G[t[k - 1]][s[k]]

Machine(G, D, A) == G \in [D -> [A -> D]]

\* The subsets that occur are 1..k, in this order.
RunsBack(h, G, D, a, s) ==
    /\ h[{}] = a
    /\ \A S \in SUBSET (DOMAIN s) :
          S # {} /\ h[S \ {Max(S)}] \in D => h[S] = G[h[S \ {Max(S)}]][s[Max(S)]]

LEMMA RunExists ==
    ASSUME NEW D, NEW A, NEW G, Machine(G, D, A), NEW a \in D, NEW s \in Seq(A)
    PROVE  \E t \in [0 .. Len(s) -> D] : Runs(t, G, a, s)
<1> DEFINE Good(t, m) == t[0] = a /\ \A k \in 1 .. m : k <= Len(s) => t[k] = G[t[k - 1]][s[k]]
           K == {m \in Nat : \E t \in [0 .. m -> D] : Good(t, m)}
<1>1. Len(s) \in Nat /\ \A k \in 1 .. Len(s) : s[k] \in A
  OBVIOUS
<1>2. 0 \in K
  <2> DEFINE t == [k \in 0 .. 0 |-> a]
  <2>1. t \in [0 .. 0 -> D] /\ t[0] = a
    OBVIOUS
  <2> HIDE DEF t
  <2>2. Good(t, 0)
    BY <2>1
  <2> HIDE DEF Good
  <2>. QED  BY <2>1, <2>2
<1>3. ASSUME NEW m \in Nat, m \in K PROVE m + 1 \in K
  <2>1. PICK t \in [0 .. m -> D] : Good(t, m)
    BY <1>3
  <2> DEFINE T == [k \in 0 .. m + 1 |-> IF k = m + 1 THEN
                                           IF k <= Len(s) THEN G[t[m]][s[k]] ELSE a
                                        ELSE t[k]]
  <2>2. T \in [0 .. m + 1 -> D]
    <3>1. ASSUME NEW k \in 0 .. m + 1 PROVE T[k] \in D
      <4>1. CASE k = m + 1 /\ k <= Len(s)
        <5>1. s[k] \in A /\ t[m] \in D
          BY <1>1, <4>1
        <5>. QED  BY <4>1, <5>1 DEF Machine
      <4>2. CASE k = m + 1 /\ ~(k <= Len(s))
        BY <4>2
      <4>3. CASE k # m + 1
        BY <4>3
      <4>. QED  BY <4>1, <4>2, <4>3
    <3>. QED  BY <3>1
  <2>3. \A k \in 0 .. m : T[k] = t[k]
    OBVIOUS
  <2>4. ASSUME NEW k \in 1 .. m + 1, k <= Len(s)
        PROVE  T[k] = G[T[k - 1]][s[k]]
    <3>1. CASE k = m + 1
      <4>1. T[k] = G[t[m]][s[k]] /\ T[k - 1] = t[m]
        BY <2>3, <2>4, <3>1
      <4>. QED  BY <4>1
    <3>2. CASE k # m + 1
      <4>1. k \in 1 .. m /\ k - 1 \in 0 .. m /\ k \in 0 .. m
        BY <3>2
      <4>2. T[k] = t[k] /\ T[k - 1] = t[k - 1]
        BY <2>3, <4>1
      <4>3. t[k] = G[t[k - 1]][s[k]]
        BY <2>1, <2>4, <4>1
      <4>. QED  BY <4>2, <4>3
    <3>. QED  BY <3>1, <3>2
  <2>5. T[0] = a
    BY <2>1, <2>3
  <2> HIDE DEF T
  <2>6. Good(T, m + 1)
    BY <2>4, <2>5
  <2>7. m + 1 \in Nat
    OBVIOUS
  <2> HIDE DEF Good
  <2>. QED  BY <2>2, <2>6, <2>7
<1> HIDE DEF K, Good
<1>4. Len(s) \in K
  BY <1>1, <1>2, <1>3, Induction
<1>5. PICK t \in [0 .. Len(s) -> D] : Good(t, Len(s))
  BY <1>4 DEF K
<1>. QED  BY <1>1, <1>5 DEF Good, Runs

LEMMA RunUnique ==
    ASSUME NEW D, NEW A, NEW G, Machine(G, D, A), NEW a \in D, NEW s \in Seq(A),
           NEW t, Runs(t, G, a, s), NEW u, Runs(u, G, a, s)
    PROVE  \A k \in 0 .. Len(s) : t[k] = u[k] /\ t[k] \in D
<1> DEFINE K == {k \in Nat : k <= Len(s) => t[k] = u[k] /\ t[k] \in D}
<1>1. Len(s) \in Nat /\ \A k \in 1 .. Len(s) : s[k] \in A
  OBVIOUS
<1>2. 0 \in K
  BY DEF Runs
<1>3. ASSUME NEW k \in Nat, k \in K PROVE k + 1 \in K
  <2>1. ASSUME k + 1 <= Len(s) PROVE t[k + 1] = u[k + 1] /\ t[k + 1] \in D
    <3>1. k + 1 \in 1 .. Len(s) /\ (k + 1) - 1 = k /\ k <= Len(s)
      BY <1>1, <2>1
    <3>2. t[k + 1] = G[t[k]][s[k + 1]] /\ u[k + 1] = G[u[k]][s[k + 1]]
      BY <3>1 DEF Runs
    <3>3. t[k] = u[k] /\ t[k] \in D /\ s[k + 1] \in A
      BY <1>1, <1>3, <3>1
    <3>. QED  BY <3>2, <3>3 DEF Machine
  <2>2. k + 1 \in Nat
    OBVIOUS
  <2>. QED  BY <2>1, <2>2
<1> HIDE DEF K
<1>4. Nat \subseteq K
  BY <1>2, <1>3, Induction
<1>. QED  BY <1>1, <1>4 DEF K

LEMMA RunIs ==
    ASSUME NEW D, NEW A, NEW G, Machine(G, D, A), NEW a \in D, NEW s \in Seq(A)
    PROVE  /\ Run(G, a, s) \in D
           /\ \A t : Runs(t, G, a, s) => Run(G, a, s) = t[Len(s)]
<1> DEFINE Q(t) == t = [k \in 0 .. Len(s) |-> IF k = 0 THEN a ELSE G[t[k - 1]][s[k]]]
           R == CHOOSE t : Q(t)
<1>1. Run(G, a, s) = R[Len(s)]
  BY DEF Run
<1>2. PICK t \in [0 .. Len(s) -> D] : Runs(t, G, a, s)
  BY RunExists
<1>3. t = [k \in 0 .. Len(s) |-> IF k = 0 THEN a ELSE G[t[k - 1]][s[k]]]
  BY <1>2 DEF Runs
<1>4. Q(R)
  <2>1. \E x : Q(x)
    BY <1>3
  <2> HIDE DEF Q
  <2>. QED  BY <2>1
<1>5. R = [k \in 0 .. Len(s) |-> IF k = 0 THEN a ELSE G[R[k - 1]][s[k]]]
  <2> HIDE DEF R
  <2>. QED  BY <1>4
<1> HIDE DEF R, Q
<1>6. Runs(R, G, a, s) /\ Len(s) \in 0 .. Len(s)
  <2>1. Len(s) \in Nat
    OBVIOUS
  <2>. QED  BY <1>5, <2>1 DEF Runs
<1>. QED  BY <1>1, <1>2, <1>6, RunUnique

\* The left folds of the community modules.
LEMMA FoldRuns ==
    ASSUME NEW D, NEW A, NEW G, Machine(G, D, A), NEW a \in D, NEW s \in Seq(A)
    PROVE  /\ \E h \in [SUBSET (DOMAIN s) -> D] :
                 \A S \in SUBSET (DOMAIN s) :
                    h[S] = IF S = {} THEN a ELSE G[h[S \ {Max(S)}]][s[Max(S)]]
           /\ \A h : RunsBack(h, G, D, a, s) =>
                 /\ h[DOMAIN s] = Run(G, a, s)
                 /\ \A S \in SUBSET (DOMAIN s) : h[S] \in D
<1> DEFINE N == DOMAIN s
           c == [S \in SUBSET N |-> Max(S)]
           B == [x \in N |-> [d \in D |-> G[d][s[x]]]]
<1>1. N = 1 .. Len(s) /\ Len(s) \in Nat /\ IsFiniteSet(N) /\ \A k \in N : s[k] \in A
  <2>1. N = 1 .. Len(s) /\ Len(s) \in Nat /\ \A k \in N : s[k] \in A
    OBVIOUS
  <2> HIDE DEF N
  <2>. QED  BY <2>1, FS_Interval
<1>2. \A S \in SUBSET N : S # {} => c[S] \in S /\ c[S] = Max(S)
  <2> HIDE DEF N
  <2>. QED  BY <1>1, MaxIs
<1>3. /\ \A x \in N, d \in D : B[x][d] = G[d][s[x]]
      /\ \A x \in N, d \in D : B[x][d] \in D
  BY <1>1 DEF Machine
<1> HIDE DEF N, c, B
<1>4. \E h \in [SUBSET N -> D] :
         \A S \in SUBSET N : h[S] = IF S = {} THEN a ELSE G[h[S \ {Max(S)}]][s[Max(S)]]
  <2>1. (\A S \in SUBSET N : S # {} => c[S] \in S) /\ (\A x \in N, d \in D : B[x][d] \in D)
    BY <1>2, <1>3
  <2>8. IsFiniteSet(N)
    BY <1>1
  <2>2. /\ \E h : FoldsTo(h, N, a, c, B)
        /\ \A h : FoldsTo(h, N, a, c, B) => h \in [SUBSET N -> D]
    BY <2>1, <2>8, FoldExists, Zenon
  <2>3. PICK h \in [SUBSET N -> D] : FoldsTo(h, N, a, c, B)
    BY <2>2
  <2>4. \A S \in SUBSET N : h[S] = IF S = {} THEN a ELSE B[c[S]][h[S \ {c[S]}]]
    BY <2>3 DEF FoldsTo
  <2>5. ASSUME NEW S \in SUBSET N, S # {}
        PROVE  h[S] = G[h[S \ {Max(S)}]][s[Max(S)]]
    <3>1. c[S] = Max(S) /\ Max(S) \in N /\ S \ {Max(S)} \in SUBSET N
      BY <1>2, <2>5
    <3>2. h[S \ {Max(S)}] \in D /\ h[S] = B[Max(S)][h[S \ {Max(S)}]]
      BY <2>4, <2>5, <3>1
    <3>. QED  BY <1>3, <3>1, <3>2
  <2>6. h[{}] = a
    BY <2>4
  <2>7. \A S \in SUBSET N : h[S] = IF S = {} THEN a ELSE G[h[S \ {Max(S)}]][s[Max(S)]]
    BY <2>5, <2>6
  <2>. QED  BY <2>7
<1>5. ASSUME NEW h, RunsBack(h, G, D, a, s)
      PROVE  h[N] = Run(G, a, s) /\ \A S \in SUBSET N : h[S] \in D
  <2>1. /\ h[{}] = a
        /\ \A S \in SUBSET N :
              S # {} /\ h[S \ {Max(S)}] \in D => h[S] = G[h[S \ {Max(S)}]][s[Max(S)]]
    BY <1>5 DEF RunsBack, N
  <2> DEFINE T == {S \in SUBSET N : h[S] \in D}
  <2>2. {} \in T
    BY <2>1
  <2>3. ASSUME NEW S \in SUBSET N, S # {}, \A x \in S : S \ {x} \in T
        PROVE  S \in T
    <3>1. Max(S) \in S /\ s[Max(S)] \in A
      BY <1>1, <1>2, <2>3
    <3>2. h[S \ {Max(S)}] \in D
      BY <2>3, <3>1
    <3>3. h[S] = G[h[S \ {Max(S)}]][s[Max(S)]]
      BY <2>1, <2>3, <3>2
    <3>4. h[S] \in D
      BY <3>1, <3>2, <3>3 DEF Machine
    <3>. QED  BY <3>4
  <2> HIDE DEF T
  <2>9. IsFiniteSet(N)
    BY <1>1
  <2>4. SUBSET N \subseteq T
    BY <2>2, <2>3, <2>9, SetInduction, Zenon
  <2>5. \A S \in SUBSET N : h[S] \in D
    BY <2>4 DEF T
  <2> DEFINE t == [k \in 0 .. Len(s) |-> h[1 .. k]]
  <2>6. Runs(t, G, a, s)
    <3>1. t[0] = a
      <4>1. 1 .. 0 = {} /\ 0 \in 0 .. Len(s)
        BY <1>1
      <4>. QED  BY <2>1, <4>1
    <3>2. ASSUME NEW k \in 1 .. Len(s) PROVE t[k] = G[t[k - 1]][s[k]]
      <4>1. /\ Max(1 .. k) = k /\ (1 .. k) \ {k} = 1 .. k - 1
            /\ 1 .. k # {} /\ k \in 0 .. Len(s) /\ k - 1 \in 0 .. Len(s)
            /\ 1 .. k \in SUBSET N /\ 1 .. k - 1 \in SUBSET N
        <5>1. k \in Nat /\ k > 0
          BY <1>1
        <5>2. k \in 0 .. Len(s) /\ k - 1 \in 0 .. Len(s) /\ 1 .. k \in SUBSET N
              /\ 1 .. k - 1 \in SUBSET N
          BY <1>1
        <5>. QED  BY <5>1, <5>2, MaxOfInterval
      <4>2. h[1 .. k] = G[h[1 .. k - 1]][s[k]]
        BY <2>1, <2>5, <4>1
      <4>. QED  BY <4>1, <4>2
    <3>. QED  BY <3>1, <3>2 DEF Runs
  <2>7. t[Len(s)] = h[N]
    BY <1>1
  <2> HIDE DEF t
  <2>8. Run(G, a, s) = t[Len(s)]
    BY <2>6, RunIs
  <2>. QED  BY <2>5, <2>7, <2>8
<1>. QED  BY <1>4, <1>5 DEF N

LEMMA RunOfFew ==
    ASSUME NEW D, NEW A, NEW G, Machine(G, D, A), NEW a \in D
    PROVE  /\ Run(G, a, <<>>) = a
           /\ \A x \in A : Run(G, a, <<x>>) = G[a][x] /\ G[a][x] \in D
<1>1. Run(G, a, <<>>) = a
  <2>1. <<>> \in Seq(A) /\ Len(<<>>) = 0 /\ [k \in 0 .. 0 |-> a][0] = a
    OBVIOUS
  <2>2. Runs([k \in 0 .. 0 |-> a], G, a, <<>>)
    BY <2>1 DEF Runs
  <2>. QED  BY <2>1, <2>2, RunIs
<1>2. ASSUME NEW x \in A PROVE Run(G, a, <<x>>) = G[a][x] /\ G[a][x] \in D
  <2> DEFINE t == [k \in 0 .. 1 |-> IF k = 0 THEN a ELSE G[a][x]]
  <2>1. <<x>> \in Seq(A) /\ Len(<<x>>) = 1 /\ t[0] = a /\ t[1] = G[a][x] /\ <<x>>[1] = x
    OBVIOUS
  <2>2. \A k \in 1 .. 1 : k = 1 /\ k - 1 = 0
    OBVIOUS
  <2> HIDE DEF t
  <2>3. Runs(t, G, a, <<x>>)
    BY <2>1, <2>2 DEF Runs
  <2> DEFINE q == <<x>>
  <2>4. q \in Seq(A) /\ Runs(t, G, a, q) /\ Len(q) = 1
    BY <2>1, <2>3
  <2> HIDE DEF q
  <2>6. Run(G, a, q) \in D /\ \A y : Runs(y, G, a, q) => Run(G, a, q) = y[Len(q)]
    <3>1. q \in Seq(A)
      BY <2>4
    <3>. QED  BY <3>1, RunIs
  <2>5. Run(G, a, q) = t[1] /\ t[1] \in D
    BY <2>4, <2>6
  <2>. QED  BY <2>1, <2>5 DEF q
<1>. QED  BY <1>1, <1>2

LEMMA RunConcat ==
    ASSUME NEW D, NEW A, NEW G, Machine(G, D, A), NEW a \in D,
           NEW s \in Seq(A), NEW u \in Seq(A)
    PROVE  Run(G, a, s \o u) = Run(G, Run(G, a, s), u)
<1> DEFINE d == Run(G, a, s)
           m == Len(s)
           l == Len(u)
<1>1. PICK t \in [0 .. m -> D] : Runs(t, G, a, s)
  BY RunExists
<1>2. d \in D /\ d = t[m]
  BY <1>1, RunIs
<1> HIDE DEF d
<1>3. PICK v \in [0 .. l -> D] : Runs(v, G, d, u)
  BY <1>2, RunExists
<1>4. Run(G, d, u) = v[l]
  BY <1>2, <1>3, RunIs
<1> DEFINE w == [k \in 0 .. m + l |-> IF k <= m THEN t[k] ELSE v[k - m]]
<1>5. /\ s \o u \in Seq(A) /\ Len(s \o u) = m + l /\ m \in Nat /\ l \in Nat
      /\ \A k \in 1 .. m + l : (s \o u)[k] = IF k <= m THEN s[k] ELSE u[k - m]
  OBVIOUS
<1>6. t[0] = a /\ v[0] = t[m]
  BY <1>1, <1>2, <1>3 DEF Runs
<1>7. /\ \A k \in 1 .. m : t[k] = G[t[k - 1]][s[k]]
      /\ \A k \in 1 .. l : v[k] = G[v[k - 1]][u[k]]
  BY <1>1, <1>3 DEF Runs
<1>8. w[0] = a /\ w[m + l] = v[l]
  <2>1. 0 \in 0 .. m + l /\ m + l \in 0 .. m + l /\ (m + l) - m = l /\ 0 <= m
    BY <1>5
  <2>2. m + l <= m => l = 0 /\ m + l = m
    BY <1>5
  <2>. QED  BY <1>6, <2>1, <2>2
<1>9. ASSUME NEW k \in 1 .. m + l PROVE w[k] = G[w[k - 1]][(s \o u)[k]]
  <2>1. k \in 0 .. m + l /\ k - 1 \in 0 .. m + l /\ k \in Int /\ m \in Int
    BY <1>5
  <2>2. CASE k <= m
    <3>1. k \in 1 .. m /\ k - 1 <= m
      BY <1>5, <2>2
    <3>. QED  BY <1>5, <1>7, <2>1, <2>2, <3>1
  <2>3. CASE k = m + 1
    <3>1. k - m = 1 /\ 1 \in 1 .. l /\ 1 - 1 = 0 /\ k - 1 = m /\ m <= m /\ ~(k <= m)
      BY <1>5, <2>1, <2>3
    <3>2. w[k] = v[1] /\ w[k - 1] = t[m] /\ (s \o u)[k] = u[1]
      BY <1>5, <2>1, <3>1
    <3>. QED  BY <1>6, <1>7, <3>1, <3>2
  <2>4. CASE k > m + 1
    <3>1. k - m \in 1 .. l /\ ~(k <= m) /\ ~(k - 1 <= m) /\ (k - 1) - m = (k - m) - 1
      BY <1>5, <2>1, <2>4
    <3>2. w[k] = v[k - m] /\ w[k - 1] = v[(k - m) - 1] /\ (s \o u)[k] = u[k - m]
      BY <1>5, <2>1, <3>1
    <3>. QED  BY <1>7, <3>1, <3>2
  <2>. QED  BY <1>5, <2>1, <2>2, <2>3, <2>4
<1> HIDE DEF w
<1>10. Runs(w, G, a, s \o u)
  BY <1>5, <1>8, <1>9 DEF Runs
<1> DEFINE q == s \o u
<1>12. q \in Seq(A) /\ Runs(w, G, a, q) /\ Len(q) = m + l
  BY <1>5, <1>10
<1> HIDE DEF q
<1>13. Run(G, a, q) = w[m + l]
  <2>1. \A y : Runs(y, G, a, q) => Run(G, a, q) = y[Len(q)]
    <3>1. q \in Seq(A)
      BY <1>12
    <3>. QED  BY <3>1, RunIs
  <2>. QED  BY <1>12, <2>1
<1>11. Run(G, a, s \o u) = w[m + l]
  BY <1>13 DEF q
<1>. QED  BY <1>4, <1>8, <1>11 DEF d

\* Sequences of sequences, one after the other.
Flattens(f, ss) ==
    f[0] = <<>> /\ \A k \in 1 .. Len(ss) : f[k] = f[k - 1] \o ss[k]

LEMMA FlattenIs ==
    ASSUME NEW A, NEW ss \in Seq(Seq(A))
    PROVE  \E f \in [0 .. Len(ss) -> Seq(A)] : Flattens(f, ss) /\ FlattenSeq(ss) = f[Len(ss)]
<1> DEFINE C == [x \in Seq(A) |-> [y \in Seq(A) |-> x \o y]]
           N == Len(ss)
<1>0. N \in Nat /\ \A k \in 1 .. N : ss[k] \in Seq(A)
  OBVIOUS
<1>1. Machine(C, Seq(A), Seq(A)) /\ <<>> \in Seq(A) /\ \A x, y \in Seq(A) : C[x][y] = x \o y
  BY DEF Machine
<1> HIDE DEF C
<1>2. PICK f \in [0 .. N -> Seq(A)] : Runs(f, C, <<>>, ss)
  BY <1>1, RunExists
<1>3. Flattens(f, ss)
  <2>1. f[0] = <<>> /\ \A k \in 1 .. N : f[k] = C[f[k - 1]][ss[k]]
    BY <1>2 DEF Runs
  <2>2. \A k \in 1 .. N : f[k - 1] \in Seq(A) /\ ss[k] \in Seq(A)
    <3>1. \A k \in 1 .. N : k - 1 \in 0 .. N
      BY <1>0
    <3>. QED  BY <1>0, <3>1
  <2>. QED  BY <1>1, <2>1, <2>2 DEF Flattens
<1>4. CASE N = 0
  <2>1. FlattenSeq(ss) = ss /\ ss = <<>>
    BY <1>4 DEF FlattenSeq
  <2>. QED  BY <1>3, <1>4, <2>1 DEF Flattens
<1>5. CASE N # 0
  <2> DEFINE Q(g) == g = [i \in 1 .. Len(ss) |-> IF i = 1 THEN ss[i] ELSE g[i - 1] \o ss[i]]
             R == CHOOSE g : Q(g)
  <2>1. FlattenSeq(ss) = R[N]
    BY <1>5 DEF FlattenSeq
  <2>2. \E g : Q(g)
    <3> DEFINE g == [i \in 1 .. N |-> f[i]]
    <3>1. \A i \in 1 .. N : f[i] = IF i = 1 THEN ss[i] ELSE g[i - 1] \o ss[i]
      <4>1. ASSUME NEW i \in 1 .. N PROVE f[i] = IF i = 1 THEN ss[i] ELSE g[i - 1] \o ss[i]
        <5>1. f[i] = f[i - 1] \o ss[i] /\ ss[i] \in Seq(A) /\ f[0] = <<>>
          BY <1>0, <1>3 DEF Flattens
        <5>2. CASE i = 1
          <6>1. <<>> \o ss[i] = ss[i] /\ i - 1 = 0
            BY <5>1, <5>2, ConcatEmptySeq
          <6> HIDE DEF g
          <6>. QED  BY <5>1, <5>2, <6>1
        <5>3. CASE i # 1
          <6>1. i - 1 \in 1 .. N
            BY <1>0, <5>3
          <6>. QED  BY <5>1, <5>3, <6>1
        <5>. QED  BY <5>2, <5>3
      <4>. QED  BY <4>1
    <3>2. g = [i \in 1 .. N |-> IF i = 1 THEN ss[i] ELSE g[i - 1] \o ss[i]]
      BY <3>1
    <3>. QED  BY <3>2
  <2>3. Q(R)
    <3> HIDE DEF Q
    <3>. QED  BY <2>2
  <2>4. R = [i \in 1 .. N |-> IF i = 1 THEN ss[i] ELSE R[i - 1] \o ss[i]]
    <3> HIDE DEF R
    <3>. QED  BY <2>3
  <2> HIDE DEF R, Q
  <2> DEFINE K == {k \in Nat : k > 0 /\ k <= N => R[k] = f[k]}
  <2>5. 0 \in K
    OBVIOUS
  <2>6. ASSUME NEW k \in Nat, k \in K PROVE k + 1 \in K
    <3>1. ASSUME k + 1 <= N PROVE R[k + 1] = f[k + 1]
      <4>1. k + 1 \in 1 .. N /\ (k + 1) - 1 = k
        BY <1>0, <3>1
      <4>2. f[k + 1] = f[k] \o ss[k + 1] /\ f[0] = <<>> /\ ss[k + 1] \in Seq(A)
        BY <1>0, <1>3, <4>1 DEF Flattens
      <4>3. R[k + 1] = IF k + 1 = 1 THEN ss[k + 1] ELSE R[k] \o ss[k + 1]
        BY <2>4, <4>1
      <4>4. CASE k = 0
        <5>1. f[k + 1] = <<>> \o ss[k + 1] /\ <<>> \o ss[k + 1] = ss[k + 1]
          BY <4>2, <4>4, ConcatEmptySeq
        <5>. QED  BY <4>3, <4>4, <5>1
      <4>5. CASE k # 0
        <5>1. R[k] = f[k] /\ k + 1 # 1
          BY <1>0, <2>6, <3>1, <4>5
        <5>. QED  BY <4>2, <4>3, <5>1
      <4>. QED  BY <4>4, <4>5
    <3>2. k + 1 \in Nat
      OBVIOUS
    <3>. QED  BY <3>1, <3>2
  <2> HIDE DEF K
  <2>7. N \in K
    BY <1>0, <2>5, <2>6, Induction
  <2>8. R[N] = f[N]
    BY <1>0, <1>5, <2>7 DEF K
  <2>. QED  BY <1>3, <2>1, <2>8
<1>. QED  BY <1>4, <1>5

\* What a whole sequence does.
------------------------------------------------------------------------------
(* Loops *)

LEMMA FlattenStep ==
    ASSUME NEW A, NEW m \in Nat, NEW f \in [1 .. m + 1 -> Seq(A)]
    PROVE  /\ FlattenSeq(f) \in Seq(A) /\ FlattenSeq([i \in 1 .. m |-> f[i]]) \in Seq(A)
           /\ FlattenSeq(f) = FlattenSeq([i \in 1 .. m |-> f[i]]) \o f[m + 1]
<1> DEFINE r == [i \in 1 .. m |-> f[i]]
<1>1. /\ f \in Seq(Seq(A)) /\ Len(f) = m + 1 /\ r \in Seq(Seq(A)) /\ Len(r) = m
      /\ \A i \in 1 .. m : r[i] = f[i] /\ i \in 1 .. m + 1
  <2>1. f \in Seq(Seq(A)) /\ Len(f) = m + 1
    BY SMT
  <2>2. r \in [1 .. m -> Seq(A)]
    OBVIOUS
  <2>3. \A i \in 1 .. m : r[i] = f[i] /\ i \in 1 .. m + 1
    OBVIOUS
  <2> HIDE DEF r
  <2>4. r \in Seq(Seq(A)) /\ Len(r) = m
    BY <2>2, SMT
  <2>. QED  BY <2>1, <2>3, <2>4
<1> HIDE DEF r
<1>2. PICK g \in [0 .. m + 1 -> Seq(A)] : Flattens(g, f) /\ FlattenSeq(f) = g[m + 1]
  <2>1. f \in Seq(Seq(A))
    BY <1>1
  <2>2. \E g \in [0 .. Len(f) -> Seq(A)] : Flattens(g, f) /\ FlattenSeq(f) = g[Len(f)]
    BY <2>1, FlattenIs
  <2>. QED  BY <1>1, <2>2
<1>3. PICK h \in [0 .. m -> Seq(A)] : Flattens(h, r) /\ FlattenSeq(r) = h[m]
  <2>1. r \in Seq(Seq(A))
    BY <1>1
  <2>2. \E h \in [0 .. Len(r) -> Seq(A)] : Flattens(h, r) /\ FlattenSeq(r) = h[Len(r)]
    BY <2>1, FlattenIs
  <2>. QED  BY <1>1, <2>2
<1>4. /\ g[0] = <<>> /\ h[0] = <<>>
      /\ \A k \in 1 .. m + 1 : g[k] = g[k - 1] \o f[k]
      /\ \A k \in 1 .. m : h[k] = h[k - 1] \o f[k]
  BY <1>1, <1>2, <1>3 DEF Flattens
<1> DEFINE K == {k \in Nat : k <= m => g[k] = h[k]}
<1>5. 0 \in K
  BY <1>4
<1>6. ASSUME NEW k \in Nat, k \in K PROVE k + 1 \in K
  <2>1. ASSUME k + 1 <= m PROVE g[k + 1] = h[k + 1]
    <3>1. k + 1 \in 1 .. m /\ k + 1 \in 1 .. m + 1 /\ (k + 1) - 1 = k /\ k <= m
      BY <2>1
    <3>. QED  BY <1>4, <1>6, <3>1
  <2>2. k + 1 \in Nat
    OBVIOUS
  <2>. QED  BY <2>1, <2>2
<1> HIDE DEF K
<1>7. m \in K
  BY <1>5, <1>6, Induction
<1>8. g[m] = h[m] /\ h[m] \in Seq(A) /\ g[m + 1] \in Seq(A) /\ m + 1 \in 1 .. m + 1 /\ (m + 1) - 1 = m
  BY <1>7 DEF K
<1>9. g[m + 1] = g[m] \o f[m + 1]
  BY <1>4, <1>8
<1>. QED  BY <1>2, <1>3, <1>8, <1>9 DEF r

LEMMA RepeatIs ==
    ASSUME NEW A, NEW S \in Seq(A)
    PROVE  /\ Repeat(0, S) = <<>>
           /\ \A m \in Nat : Repeat(m, S) \in Seq(A) /\ Repeat(m + 1, S) = Repeat(m, S) \o S
<1>1. Repeat(0, S) = <<>>
  <2> DEFINE f == [i \in 1 .. 0 |-> S]
  <2>1. f = <<>> /\ Len(f) = 0
    OBVIOUS
  <2> HIDE DEF f
  <2>2. FlattenSeq(f) = f
    BY <2>1 DEF FlattenSeq
  <2>. QED  BY <2>1, <2>2 DEF Repeat, f
<1>2. ASSUME NEW m \in Nat
      PROVE  Repeat(m, S) \in Seq(A) /\ Repeat(m + 1, S) = Repeat(m, S) \o S
  <2> DEFINE f == [i \in 1 .. m + 1 |-> S]
  <2>1. f \in [1 .. m + 1 -> Seq(A)] /\ [i \in 1 .. m |-> f[i]] = [i \in 1 .. m |-> S]
        /\ f[m + 1] = S
    OBVIOUS
  <2>2. Repeat(m + 1, S) = FlattenSeq(f) /\ Repeat(m, S) = FlattenSeq([i \in 1 .. m |-> f[i]])
    BY <2>1 DEF Repeat
  <2> HIDE DEF f
  <2>. QED  BY <2>1, <2>2, FlattenStep
<1>. QED  BY <1>1, <1>2

Assoc(x, y, z) == (x \o y) \o z = x \o (y \o z)

LEMMA Associative ==
    ASSUME NEW A, NEW x \in Seq(A), NEW y \in Seq(A), NEW z \in Seq(A)
    PROVE  Assoc(x, y, z)
  BY ConcatAssociative DEF Assoc

\* S (T S)^m = (S T)^m S
LEMMA Shift ==
    ASSUME NEW A, NEW S \in Seq(A), NEW T \in Seq(A), NEW m \in Nat
    PROVE  S \o Repeat(m, T \o S) = Repeat(m, S \o T) \o S
<1> DEFINE U == T \o S
           V == S \o T
           K == {k \in Nat : S \o Repeat(k, U) = Repeat(k, V) \o S}
<1>1. U \in Seq(A) /\ V \in Seq(A) /\ S \o U = V \o S
  BY Associative DEF Assoc
<1>4. U = T \o S /\ V = S \o T
  OBVIOUS
<1> HIDE DEF U, V
<1>2. 0 \in K
  <2>1. Repeat(0, U) = <<>> /\ Repeat(0, V) = <<>>
    BY <1>1, RepeatIs
  <2>2. S \o <<>> = S /\ <<>> \o S = S
    BY ConcatEmptySeq
  <2>. QED  BY <2>1, <2>2
<1>3. ASSUME NEW k \in Nat, k \in K PROVE k + 1 \in K
  <2> DEFINE x == Repeat(k, U)
             y == Repeat(k, V)
  <2>1. /\ x \in Seq(A) /\ y \in Seq(A)
        /\ Repeat(k + 1, U) = x \o U /\ Repeat(k + 1, V) = y \o V
    BY <1>1, RepeatIs
  <2>2. S \o x = y \o S
    BY <1>3
  <2> HIDE DEF x, y
  <2>9. x \in Seq(A) /\ y \in Seq(A) /\ U \in Seq(A) /\ V \in Seq(A)
    BY <1>1, <2>1
  <2>4. Assoc(S, x, U) /\ Assoc(y, S, U) /\ Assoc(y, V, S)
    BY <2>9, Associative
  <2>6. k + 1 \in Nat
    OBVIOUS
  <2>7. S \o Repeat(k + 1, U) = Repeat(k + 1, V) \o S
    BY <1>1, <2>1, <2>2, <2>4, Zenon DEF Assoc
  <2>. QED  BY <2>6, <2>7
<1> HIDE DEF K
<1>5. m \in K
  BY <1>2, <1>3, Induction
<1>. QED  BY <1>4, <1>5 DEF K

\* A loop whose last pass is different.
Loop(f, j, A, S, L) ==
    f \in [1 .. j + 1 -> Seq(A)] /\ f[j + 1] = L /\ \A i \in 1 .. j : f[i] = S

Unrolled(f, j, S, L) == FlattenSeq(f) = Repeat(j, S) \o L

LEMMA LastPass ==
    ASSUME NEW A, NEW S \in Seq(A), NEW L, NEW j \in Nat, NEW f, Loop(f, j, A, S, L)
    PROVE  Unrolled(f, j, S, L)
<1>1. FlattenSeq(f) = FlattenSeq([i \in 1 .. j |-> f[i]]) \o f[j + 1]
  BY FlattenStep DEF Loop
<1>2. [i \in 1 .. j |-> f[i]] = [i \in 1 .. j |-> S]
  BY DEF Loop
<1>. QED  BY <1>1, <1>2 DEF Repeat, Loop, Unrolled

Passing(f, j, A, S, L, T) ==
    /\ f \in [1 .. j -> Seq(A)]
    /\ \A i \in 1 .. j : f[i] = IF i = j THEN T \o L ELSE T \o S

AllPasses(f, j, S, L, T) ==
    (IF j = 0 THEN L ELSE S) \o FlattenSeq(f) = Repeat(j, S \o T) \o L

\* A first pass of its own, passes that begin with a step of the slower
\* timescale, and a last one that is different.
LEMMA Passes ==
    ASSUME NEW A, NEW S \in Seq(A), NEW L \in Seq(A), NEW T \in Seq(A),
           NEW j \in Nat, NEW f, Passing(f, j, A, S, L, T)
    PROVE  AllPasses(f, j, S, L, T)
<1>1. CASE j = 0
  <2>1. f = <<>> /\ Len(f) = 0
    BY <1>1 DEF Passing
  <2>2. FlattenSeq(f) = <<>>
    BY <2>1 DEF FlattenSeq
  <2>3. S \o T \in Seq(A)
    OBVIOUS
  <2>4. Repeat(0, S \o T) = <<>>
    BY <2>3, RepeatIs
  <2>5. L \o <<>> = L /\ <<>> \o L = L
    BY ConcatEmptySeq
  <2>. QED  BY <1>1, <2>2, <2>4, <2>5 DEF AllPasses
<1>2. CASE j # 0
  <2> DEFINE l == j - 1
             V == T \o S
             W == T \o L
             Z == S \o T
             x == Repeat(l, V)
             y == Repeat(l, Z)
  <2>1. l \in Nat /\ l + 1 = j
    BY <1>2
  <2>2. V \in Seq(A) /\ W \in Seq(A) /\ Z \in Seq(A)
    OBVIOUS
  <2>3. /\ \A i \in 1 .. l : i # j /\ i \in 1 .. j
        /\ j \in 1 .. j
    BY <2>1
  <2>4. f[j] = W /\ \A i \in 1 .. l : f[i] = V
    BY <2>3 DEF Passing
  <2>5. S \o x = y \o S
    BY <2>1, Shift
  <2> HIDE DEF l, V, W, Z
  <2>6. f \in [1 .. l + 1 -> Seq(A)] /\ f[l + 1] = W
    BY <2>1, <2>4 DEF Passing
  <2>7. FlattenSeq(f) = x \o W
    <3> HIDE DEF x
    <3>1. l \in Nat /\ V \in Seq(A) /\ f \in [1 .. l + 1 -> Seq(A)]
      BY <2>1, <2>2, <2>6
    <3>2. Loop(f, l, A, V, W)
      BY <2>4, <2>6 DEF Loop
    <3>3. Unrolled(f, l, V, W)
      BY <3>1, <3>2, LastPass
    <3>. QED  BY <3>3 DEF x, Unrolled
  <2>8. x \in Seq(A) /\ y \in Seq(A) /\ Repeat(l + 1, Z) = y \o Z
    BY <2>1, <2>2, RepeatIs
  <2> HIDE DEF x, y
  <2>13. x \in Seq(A) /\ y \in Seq(A)
    BY <2>8
  <2>9. Assoc(S, x, W) /\ Assoc(y, S, W) /\ Assoc(y, Z, L) /\ Assoc(S, T, L)
    BY <2>2, <2>13, Associative
  <2>10. S \o W = Z \o L
    BY <2>9 DEF W, Z, Assoc
  <2>12. S \o FlattenSeq(f) = Repeat(j, Z) \o L
    BY <2>1, <2>5, <2>7, <2>8, <2>9, <2>10, Zenon DEF Assoc
  <2>. QED  BY <1>2, <2>12 DEF AllPasses, Z
<1>. QED  BY <1>1, <1>2

Beginning(g, f, m, A, B) ==
    /\ f \in [1 .. m -> Seq(A)] /\ g \in [1 .. m -> Seq(A)]
    /\ g[1] = B \o f[1] /\ \A i \in 1 .. m : i # 1 => g[i] = f[i]

\* A loop whose first pass does something more at its beginning.
LEMMA FirstPass ==
    ASSUME NEW A, NEW B \in Seq(A), NEW m \in Nat, m > 0, NEW f, NEW g, Beginning(g, f, m, A, B)
    PROVE  FlattenSeq(g) = B \o FlattenSeq(f)
<1> DEFINE F(k) == [i \in 1 .. k |-> f[i]]
           H(k) == [i \in 1 .. k |-> g[i]]
           K == {k \in Nat : k > 0 /\ k <= m => FlattenSeq(H(k)) = B \o FlattenSeq(F(k))}
<1>1. 0 \in K
  OBVIOUS
<1>2. ASSUME NEW k \in Nat, k \in K PROVE k + 1 \in K
  <2>1. ASSUME k + 1 <= m
        PROVE  FlattenSeq(H(k + 1)) = B \o FlattenSeq(F(k + 1))
    <3> DEFINE u == F(k + 1)
               v == H(k + 1)
    <3>1. /\ u \in [1 .. k + 1 -> Seq(A)] /\ v \in [1 .. k + 1 -> Seq(A)]
          /\ F(k) = [i \in 1 .. k |-> u[i]] /\ H(k) = [i \in 1 .. k |-> v[i]]
          /\ u[k + 1] = f[k + 1] /\ v[k + 1] = g[k + 1]
          /\ k + 1 \in 1 .. m
      <4>1. \A i \in 1 .. k + 1 : i \in 1 .. m
        BY <2>1
      <4>2. k + 1 \in 1 .. k + 1 /\ \A i \in 1 .. k : i \in 1 .. k + 1
        OBVIOUS
      <4>. QED  BY <4>1, <4>2 DEF Beginning
    <3>2. f[k + 1] \in Seq(A) /\ g[k + 1] = IF k + 1 = 1 THEN B \o f[k + 1] ELSE f[k + 1]
      BY <3>1 DEF Beginning
    <3> DEFINE w == FlattenSeq(F(k))
               z == FlattenSeq(H(k))
    <3> HIDE DEF u, v, F, H
    <3>3. /\ w \in Seq(A) /\ z \in Seq(A)
          /\ FlattenSeq(u) = w \o f[k + 1] /\ FlattenSeq(v) = z \o g[k + 1]
      <4>1. /\ FlattenSeq(u) = FlattenSeq([i \in 1 .. k |-> u[i]]) \o u[k + 1]
            /\ FlattenSeq([i \in 1 .. k |-> u[i]]) \in Seq(A)
        BY <3>1, FlattenStep
      <4>2. /\ FlattenSeq(v) = FlattenSeq([i \in 1 .. k |-> v[i]]) \o v[k + 1]
            /\ FlattenSeq([i \in 1 .. k |-> v[i]]) \in Seq(A)
        BY <3>1, FlattenStep
      <4>. QED  BY <3>1, <4>1, <4>2
    <3>4. CASE k = 0
      <4>1. F(k) = <<>> /\ H(k) = <<>>
        BY <3>4 DEF F, H
      <4>2. w = <<>> /\ z = <<>>
        BY <4>1 DEF FlattenSeq
      <4> DEFINE e == f[k + 1]
      <4>3. e \in Seq(A) /\ g[k + 1] = B \o e /\ B \o e \in Seq(A)
        <5>1. k + 1 = 1
          BY <3>4
        <5>. QED  BY <3>2, <5>1
      <4> HIDE DEF e, w, z
      <4>4. <<>> \o e = e /\ <<>> \o (B \o e) = B \o e
        BY <4>3, ConcatEmptySeq
      <4>. QED  BY <3>3, <4>2, <4>3, <4>4 DEF e, u, v
    <3>5. CASE k # 0
      <4>1. z = B \o w
        BY <1>2, <2>1, <3>5
      <4> DEFINE e == f[k + 1]
      <4>2. e \in Seq(A) /\ g[k + 1] = e
        <5>1. k + 1 # 1
          BY <3>5
        <5>. QED  BY <3>2, <5>1
      <4> HIDE DEF e, w, z
      <4>4. Assoc(B, w, e)
        BY <3>3, <4>2, Associative
      <4>. QED  BY <3>3, <4>1, <4>2, <4>4 DEF Assoc, e, u, v
    <3>. QED  BY <3>4, <3>5
  <2>2. k + 1 \in Nat
    OBVIOUS
  <2>. QED  BY <2>1, <2>2
<1> HIDE DEF K, F, H
<1>3. m \in K
  BY <1>1, <1>2, Induction
<1>4. F(m) = f /\ H(m) = g
  BY DEF F, H, Beginning
<1>5. m <= m
  OBVIOUS
<1>. QED  BY <1>3, <1>4, <1>5 DEF K
------------------------------------------------------------------------------
(* Positive numbers *)

LEMMA PositiveIs ==
    ASSUME NEW x \in Positive
    PROVE  /\ x \in Nonzero /\ x \in Numbers /\ x \in Int /\ ~Null(x)
           /\ \E a \in Nonzero : a \in Int /\ ~Null(a) /\ x = (a * a) % P
<1>1. PICK a \in Nonzero : x = (a * a) % P
  BY DEF Positive, Nonzero
<1>2. x \in Nonzero
  BY <1>1, ProductNonzero
<1>3. x \in Numbers /\ x # 0 /\ a \in Numbers /\ a # 0
  BY <1>2 DEF Nonzero
<1>. QED  BY <1>1, <1>2, <1>3, NullNumber

LEMMA SquareIsPositive ==
    ASSUME NEW a \in Int, ~Null(a)
    PROVE  (a * a) % P \in Positive
<1> DEFINE c == a % P
<1>1. c \in Numbers /\ c \in Int /\ Congruent(a, c)
  BY ModType
<1>2. (a * a) % P = (c * c) % P
  <2>1. (c * c) % P = (a * c) % P /\ (a * c) % P = (a * a) % P
    BY <1>1, ModTimes
  <2>. QED  BY <2>1
<1> HIDE DEF c
<1>3. c # 0
  BY <1>1, NullOf, NullNumber
<1>. QED  BY <1>1, <1>2, <1>3 DEF Positive

LEMMA PositiveTimes ==
    ASSUME NEW x \in Positive, NEW y \in Positive
    PROVE  (x * y) % P \in Positive
<1>1. PICK a \in Int : ~Null(a) /\ x = (a * a) % P
  BY PositiveIs
<1>2. PICK c \in Int : ~Null(c) /\ y = (c * c) % P
  BY PositiveIs
<1> DEFINE d == a * c
<1>3. d \in Int /\ ~Null(d) /\ a * a \in Int /\ c * c \in Int
  BY <1>1, <1>2, NullFactor
<1>4. (a * a) * (c * c) = d * d
  OBVIOUS
<1> HIDE DEF d
<1>5. (d * d) % P \in Positive
  BY <1>3, SquareIsPositive
<1> DEFINE s == a * a
           t == c * c
<1>6. s \in Int /\ t \in Int /\ x = s % P /\ y = t % P /\ y \in Int /\ s * t = d * d
  BY <1>1, <1>2, <1>3, <1>4, PositiveIs
<1> HIDE DEF s, t
<1>7. (x * y) % P = (s * y) % P /\ (s * y) % P = (s * t) % P
  BY <1>6, ModTimes
<1>. QED  BY <1>5, <1>6, <1>7

LEMMA PositiveReciprocal ==
    ASSUME NEW x \in Positive
    PROVE  Reciprocal[x] \in Positive
<1> DEFINE r == Reciprocal[x]
<1>1. PICK a \in Int : ~Null(a) /\ x = (a * a) % P
  BY PositiveIs
<1>2. r \in Nonzero /\ r \in Int /\ x \in Int /\ Congruent(x * r, 1)
  BY PositiveIs, ReciprocalIs
<1>3. r \in Numbers /\ ~Null(r)
  BY <1>2, NullNumber DEF Nonzero
<1> HIDE DEF r
<1> DEFINE d == r * a
<1>4. d \in Int /\ ~Null(d)
  BY <1>1, <1>2, <1>3, NullFactor
<1>5. d * d = r * (r * (a * a))
  BY <1>1, <1>2
<1> HIDE DEF d
<1>6. (d * d) % P \in Positive
  BY <1>4, SquareIsPositive
<1> DEFINE s == a * a
<1>7. s \in Int /\ Congruent(s, x)
  BY <1>1, ModType
<1>8. d * d = r * (r * s)
  BY <1>5
<1> HIDE DEF s
<1>9. Congruent(r * s, r * x)
  BY <1>2, <1>7, CongruentTimes
<1>10. r * x = x * r /\ r * x \in Int /\ r * s \in Int
  BY <1>2, <1>7
<1>11. Congruent(r * s, 1)
  BY <1>2, <1>9, <1>10, CongruentChain
<1>12. Congruent(r * (r * s), r * 1)
  <2> DEFINE z == r * s
  <2>1. z \in Int /\ 1 \in Int /\ Congruent(z, 1)
    BY <1>10, <1>11
  <2> HIDE DEF z
  <2>2. Congruent(r * z, r * 1)
    BY <1>2, <2>1, CongruentTimes
  <2>. QED  BY <2>2 DEF z
<1>13. r * 1 = r /\ r * (r * s) \in Int
  BY <1>2, <1>10
<1>14. (d * d) % P = r % P
  BY <1>2, <1>8, <1>12, <1>13, CongruentIs
<1>15. r % P = r
  BY <1>3, ModId
<1>. QED  BY <1>6, <1>14, <1>15 DEF r

\* -1 is no square.
LEMMA NoOpposite ==
    ASSUME NEW x \in Positive, NEW y \in Positive
    PROVE  ~Null(x + y) /\ (x + y) % P \in Nonzero
<1>1. PICK a \in Int : ~Null(a) /\ x = (a * a) % P
  BY PositiveIs
<1>2. PICK c \in Nonzero : c \in Int /\ ~Null(c) /\ y = (c * c) % P
  BY PositiveIs
<1>3. x \in Int /\ y \in Int /\ x + y \in Int
  BY PositiveIs
<1>4. ASSUME Null(x + y) PROVE FALSE
  <2> DEFINE r == Reciprocal[c]
             s == a * a
             t == c * c
  <2>1. r \in Int /\ Congruent(c * r, 1)
    BY <1>2, ReciprocalIs
  <2>2. s \in Int /\ t \in Int /\ Congruent(s, x) /\ Congruent(t, y)
    BY <1>1, <1>2, ModType
  <2> HIDE DEF r
  <2>3. PICK k \in Int : c * r = 1 + P * k
    BY <2>1 DEF Congruent
  <2>4. PICK l \in Int : s = x + P * l
    BY <2>2 DEF Congruent
  <2>5. PICK j \in Int : t = y + P * j
    BY <2>2 DEF Congruent
  <2>6. PICK i \in Int : x + y = 0 + P * i
    BY <1>4 DEF Null, Congruent
  <2>7. P \in Int
    BY PType
  <2> DEFINE e == a * r
             f == c * r
  <2>8. e * e + f * f = (r * r) * (s + t)
    BY <1>1, <1>2, <2>1
  <2>9. s + t = P * (i + l + j)
    BY <1>3, <2>2, <2>4, <2>5, <2>6, <2>7
  <2>10. f * f = 1 + P * (2 * k + P * (k * k))
    <3>1. f = 1 + P * k /\ f \in Int
      BY <1>2, <2>1, <2>3
    <3> HIDE DEF f
    <3>. QED  BY <2>7, <3>1
  <2>11. e \in Int /\ f \in Int
    BY <1>1, <1>2, <2>1
  <2> DEFINE q == i + l + j
             w == 2 * k + P * (k * k)
  <2>12. q \in Int /\ w \in Int /\ s + t = P * q /\ f * f = 1 + P * w
    BY <2>7, <2>9, <2>10
  <2> HIDE DEF e, f, s, t, q, w
  <2>13. e * e + f * f = (r * r) * (P * q)
    BY <2>8, <2>12
  <2> DEFINE m == (r * r) * q - w
  <2>14. e * e + 1 = P * m /\ m \in Int
    BY <2>1, <2>7, <2>11, <2>12, <2>13
  <2>15. RootOfMinusOne(P)
    BY <2>11, <2>14 DEF RootOfMinusOne
  <2>. QED  BY <2>15, PType, MinusOneHasNoRoot
<1>5. (x + y) % P \in Numbers /\ Congruent(x + y, (x + y) % P)
  BY <1>3, ModType
<1>6. (x + y) % P \in Int
  BY <1>3, ModType
<1>7. (x + y) % P # 0
  BY <1>3, <1>4, <1>5, <1>6, NullOf, NullNumber
<1>. QED  BY <1>4, <1>5, <1>7 DEF Nonzero

LEMMA OneIsPositive == 1 \in Positive /\ 1 \in Nonzero /\ 1 % P = 1
<1>1. 1 \in Numbers /\ 1 % P = 1
  BY PType, ModId DEF Numbers
<1>2. ~Null(1)
  BY <1>1, NullNumber
<1>3. (1 * 1) % P \in Positive
  BY <1>2, SquareIsPositive
<1>. QED  BY <1>1, <1>3 DEF Nonzero

Squares == [x \in Positive |-> (x * x) % P]

LEMMA OneRoot ==
    ASSUME NEW x \in Positive, NEW y \in Positive, Squares[x] = Squares[y]
    PROVE  x = y
<1>1. x \in Int /\ y \in Int /\ x \in Numbers /\ y \in Numbers /\ ~Null(x + y)
  BY PositiveIs, NoOpposite
<1>2. (x * x) % P = (y * y) % P /\ x * x \in Int /\ y * y \in Int
  BY <1>1 DEF Squares
<1>3. Congruent(x * x, y * y)
  BY <1>2, CongruentIs
<1>4. Null(x * x - y * y)
  BY <1>2, <1>3, DifferenceNull
<1>5. x * x - y * y = (x + y) * (x - y) /\ x + y \in Int /\ x - y \in Int
  BY <1>1
<1>6. Null((x + y) * (x - y))
  BY <1>4, <1>5
<1>7. Null(x - y)
  BY <1>1, <1>5, <1>6, NullFactor
<1>8. Congruent(x, y)
  BY <1>1, <1>7, NullDifference
<1>9. x % P = y % P
  BY <1>1, <1>8, CongruentIs
<1>. QED  BY <1>1, <1>9, ModId

LEMMA HasRoot ==
    ASSUME NEW x \in Positive
    PROVE  \E w \in Positive : (w * w) % P = x
<1>1. Squares \in [Positive -> Positive]
  BY PositiveTimes DEF Squares
<1>2. Squares \in Injection(Positive, Positive)
  BY <1>1, OneRoot DEF Injection, IsInjective
<1>3. IsFiniteSet(Positive)
  <2>1. IsFiniteSet(0 .. P - 1)
    BY PType, FS_Interval
  <2>2. Positive \subseteq 0 .. P - 1
    BY PositiveIs DEF Numbers
  <2>. QED  BY <2>1, <2>2, FS_Subset
<1>4. Squares \in Surjection(Positive, Positive)
  BY <1>2, <1>3, FS_Injection
<1>5. \E w \in Positive : Squares[w] = x
  BY <1>4 DEF Surjection
<1>. QED  BY <1>5 DEF Squares
------------------------------------------------------------------------------
(* Powers *)

LEMMA ToTheRecursion ==
    ToThe = [y \in Nat |-> [x \in Numbers |-> IF y = 0 THEN 1 ELSE (x * ToThe[y - 1][x]) % P]]
<1> DEFINE G == [c \in Numbers |-> [d \in Numbers |-> (d * c) % P]]
           F == [y \in Nat |-> [x \in Numbers |-> Run(G, 1, [i \in 1 .. y |-> x])]]
<1>1. Machine(G, Numbers, Numbers)
  <2>1. ASSUME NEW c \in Numbers, NEW d \in Numbers PROVE (d * c) % P \in Numbers
    BY ModId, ModType
  <2>. QED  BY <2>1 DEF Machine
<1>2. 1 \in Numbers
  BY PType DEF Numbers
<1>3. ASSUME NEW y \in Nat, NEW x \in Numbers
      PROVE  F[y][x] = IF y = 0 THEN 1 ELSE (x * F[y - 1][x]) % P
  <2> DEFINE s(k) == [i \in 1 .. k |-> x]
  <2>1. F[y][x] = Run(G, 1, s(y))
    OBVIOUS
  <2>2. CASE y = 0
    <3>1. s(0) = <<>>
      OBVIOUS
    <3> HIDE DEF G, s
    <3>2. Run(G, 1, s(y)) = 1
      BY <1>1, <1>2, <2>2, <3>1, RunOfFew
    <3>. QED  BY <2>1, <2>2, <3>2
  <2>3. CASE y # 0
    <3> DEFINE k == y - 1
    <3>1. k \in Nat /\ k + 1 = y
      BY <2>3
    <3>2. F[k][x] = Run(G, 1, s(k))
      BY <3>1
    <3> HIDE DEF k
    <3>3. s(k) \in Seq(Numbers) /\ <<x>> \in Seq(Numbers)
      BY <3>1
    <3>4. s(k + 1) = s(k) \o <<x>>
      BY <3>1
    <3> DEFINE r == Run(G, 1, s(k))
    <3>5. G[r][x] = (x * r) % P \/ r \notin Numbers
      OBVIOUS
    <3> HIDE DEF G, s
    <3>6. r \in Numbers
      BY <1>1, <1>2, <3>3, RunIs, SMT
    <3>7. Run(G, 1, s(k) \o <<x>>) = Run(G, r, <<x>>)
      BY <1>1, <1>2, <3>3, RunConcat
    <3>8. Run(G, r, <<x>>) = G[r][x]
      <4> HIDE DEF r
      <4>. QED  BY <1>1, <3>6, RunOfFew
    <3> HIDE DEF F
    <3>9. F[y][x] = (x * F[k][x]) % P
      BY <2>1, <3>1, <3>2, <3>4, <3>5, <3>6, <3>7, <3>8
    <3>. QED  BY <2>3, <3>9 DEF k
  <2>. QED  BY <2>2, <2>3
<1>4. F = [y \in Nat |-> [x \in Numbers |-> IF y = 0 THEN 1 ELSE (x * F[y - 1][x]) % P]]
  <2>1. F = [y \in Nat |-> [x \in Numbers |-> F[y][x]]]
    OBVIOUS
  <2> HIDE DEF F
  <2>. QED  BY <1>3, <2>1
<1> HIDE DEF F
<1>. QED  BY <1>4 DEF ToThe

LEMMA ToTheIs ==
    /\ \A x \in Numbers : ToThe[0][x] = 1
    /\ \A y \in Nat, x \in Numbers : /\ ToThe[y][x] \in Numbers
                                     /\ ToThe[y + 1][x] = (x * ToThe[y][x]) % P
<1>1. \A x \in Numbers : ToThe[0][x] = 1
  BY ToTheRecursion
<1>2. ASSUME NEW y \in Nat, NEW x \in Numbers PROVE ToThe[y + 1][x] = (x * ToThe[y][x]) % P
  <2>1. y + 1 \in Nat /\ y + 1 # 0 /\ (y + 1) - 1 = y
    OBVIOUS
  <2>. QED  BY <2>1, ToTheRecursion
<1> DEFINE K == {y \in Nat : \A x \in Numbers : ToThe[y][x] \in Numbers}
<1>3. 0 \in K
  <2>1. 1 \in Numbers
    BY PType DEF Numbers
  <2>. QED  BY <1>1, <2>1
<1>4. ASSUME NEW y \in Nat, y \in K PROVE y + 1 \in K
  <2>1. ASSUME NEW x \in Numbers PROVE ToThe[y + 1][x] \in Numbers
    <3>1. ToThe[y][x] \in Int /\ x \in Int
      BY <1>4, ModId
    <3>. QED  BY <1>2, <3>1, ModType
  <2>. QED  BY <2>1
<1> HIDE DEF K
<1>5. Nat \subseteq K
  BY <1>3, <1>4, Induction
<1>. QED  BY <1>1, <1>2, <1>5 DEF K

LEMMA Power ==
    ASSUME NEW x \in Numbers, NEW y \in Nat
    PROVE  /\ ToThe[0][x] = 1 /\ ToThe[1][x] = x
           /\ ToThe[y][x] \in Numbers /\ ToThe[y][x] \in Int /\ x \in Int
           /\ ToThe[y + 1][x] = (x * ToThe[y][x]) % P
<1>1. /\ ToThe[0][x] = 1 /\ ToThe[0 + 1][x] = (x * ToThe[0][x]) % P
      /\ ToThe[y][x] \in Numbers /\ ToThe[y + 1][x] = (x * ToThe[y][x]) % P
  <2>1. 0 \in Nat
    OBVIOUS
  <2>. QED  BY <2>1, ToTheIs, Zenon
<1>2. x * 1 = x /\ x % P = x /\ x \in Int /\ ToThe[y][x] \in Int
  BY <1>1, ModId
<1>3. 0 + 1 = 1
  OBVIOUS
<1>. QED  BY <1>1, <1>2, <1>3

LEMMA PowerSum ==
    ASSUME NEW x \in Numbers, NEW a \in Nat, NEW c \in Nat
    PROVE  ToThe[a + c][x] = (ToThe[a][x] * ToThe[c][x]) % P
<1> DEFINE K == {k \in Nat : ToThe[k + c][x] = (ToThe[k][x] * ToThe[c][x]) % P}
<1>1. 0 \in K
  <2>1. 0 + c = c /\ 1 * ToThe[c][x] = ToThe[c][x] /\ ToThe[c][x] % P = ToThe[c][x]
        /\ ToThe[0][x] = 1
    BY Power, ModId
  <2>. QED  BY <2>1
<1>2. ASSUME NEW k \in Nat, k \in K PROVE k + 1 \in K
  <2> DEFINE s == ToThe[k][x]
             t == ToThe[c][x]
             d == ToThe[k + c][x]
  <2>1. /\ s \in Int /\ t \in Int /\ d \in Int /\ x \in Int /\ k + c \in Nat
        /\ (k + 1) + c = (k + c) + 1 /\ k + 1 \in Nat
        /\ ToThe[k + 1][x] = (x * s) % P
    BY Power
  <2>2. ToThe[(k + c) + 1][x] = (x * d) % P
    BY <2>1, Power
  <2>3. d = (s * t) % P
    BY <1>2
  <2> HIDE DEF s, t, d
  <2>4. (x * ((s * t) % P)) % P = (x * (s * t)) % P
    <3>1. s * t \in Int
      BY <2>1
    <3>. QED  BY <2>1, <3>1, ModTimes
  <2>5. (((x * s) % P) * t) % P = ((x * s) * t) % P
    <3>1. x * s \in Int
      BY <2>1
    <3>. QED  BY <2>1, <3>1, ModTimes
  <2>6. x * (s * t) = (x * s) * t
    BY <2>1
  <2>7. ToThe[(k + 1) + c][x] = (ToThe[k + 1][x] * ToThe[c][x]) % P
    BY <2>1, <2>2, <2>3, <2>4, <2>5, <2>6 DEF t
  <2>. QED  BY <2>1, <2>7
<1> HIDE DEF K
<1>3. a \in K
  BY <1>1, <1>2, Induction
<1>. QED  BY <1>3 DEF K

LEMMA PowerOfProduct ==
    ASSUME NEW x \in Numbers, NEW w \in Numbers, NEW y \in Nat
    PROVE  ToThe[y][(x * w) % P] = (ToThe[y][x] * ToThe[y][w]) % P
<1> DEFINE v == (x * w) % P
           K == {k \in Nat : ToThe[k][v] = (ToThe[k][x] * ToThe[k][w]) % P}
<1>1. v \in Numbers /\ x \in Int /\ w \in Int
  BY ModId, ModType
<1>0. v = (x * w) % P
  OBVIOUS
<1> HIDE DEF v
<1>2. 0 \in K
  <2>1. 1 * 1 = 1 /\ 1 % P = 1 /\ ToThe[0][x] = 1 /\ ToThe[0][w] = 1 /\ ToThe[0][v] = 1
    BY <1>1, Power, OneIsPositive
  <2>. QED  BY <2>1
<1>3. ASSUME NEW k \in Nat, k \in K PROVE k + 1 \in K
  <2> DEFINE s == ToThe[k][x]
             t == ToThe[k][w]
             d == ToThe[k][v]
  <2>1. /\ s \in Int /\ t \in Int /\ d \in Int
        /\ ToThe[k + 1][x] = (x * s) % P /\ ToThe[k + 1][w] = (w * t) % P
        /\ ToThe[k + 1][v] = (v * d) % P
    BY <1>1, Power
  <2>2. d = (s * t) % P
    BY <1>3
  <2> HIDE DEF s, t, d
  <2>3. /\ x * w \in Int /\ s * t \in Int /\ x * s \in Int /\ w * t \in Int
        /\ (x * w) * (s * t) = (x * s) * (w * t) /\ v \in Int /\ (x * s) % P \in Int
    BY <1>1, <2>1, ModId, ModType
  <2>4. (v * d) % P = ((x * w) * (s * t)) % P
    <3>1. (v * ((s * t) % P)) % P = (v * (s * t)) % P
      BY <2>3, ModTimes
    <3>2. (((x * w) % P) * (s * t)) % P = ((x * w) * (s * t)) % P
      BY <2>3, ModTimes
    <3>. QED  BY <1>0, <2>2, <3>1, <3>2
  <2>5. (((x * s) % P) * ((w * t) % P)) % P = ((x * s) * (w * t)) % P
    <3>1. (((x * s) % P) * ((w * t) % P)) % P = (((x * s) % P) * (w * t)) % P
      BY <2>3, ModTimes
    <3>2. (((x * s) % P) * (w * t)) % P = ((x * s) * (w * t)) % P
      BY <2>3, ModTimes
    <3>. QED  BY <3>1, <3>2
  <2>6. ToThe[k + 1][v] = (ToThe[k + 1][x] * ToThe[k + 1][w]) % P
    BY <2>1, <2>3, <2>4, <2>5
  <2>7. k + 1 \in Nat
    OBVIOUS
  <2>. QED  BY <2>6, <2>7
<1> HIDE DEF K
<1>4. y \in K
  BY <1>2, <1>3, Induction
<1>. QED  BY <1>4 DEF K, v

LEMMA PowerIsPositive ==
    ASSUME NEW x \in Positive, NEW y \in Nat
    PROVE  ToThe[y][x] \in Positive
<1> DEFINE K == {k \in Nat : ToThe[k][x] \in Positive}
<1>1. x \in Numbers
  BY PositiveIs
<1>2. 0 \in K
  BY <1>1, Power, OneIsPositive
<1>3. ASSUME NEW k \in Nat, k \in K PROVE k + 1 \in K
  <2>1. ToThe[k + 1][x] = (x * ToThe[k][x]) % P /\ ToThe[k][x] \in Positive
    BY <1>1, <1>3, Power
  <2>2. (x * ToThe[k][x]) % P \in Positive
    BY <2>1, PositiveTimes
  <2>3. k + 1 \in Nat
    OBVIOUS
  <2>. QED  BY <2>1, <2>2, <2>3
<1> HIDE DEF K
<1>4. y \in K
  BY <1>2, <1>3, Induction
<1>. QED  BY <1>4 DEF K

\* Among the positive numbers the root of order z exists and is unique.
Roots(z) ==
    \A x \in Positive :
        /\ \E w \in Positive : ToThe[z][w] = x
        /\ \A w \in Positive : ToThe[z][w] = ToThe[z][x] => w = x

LEMMA RootsDouble ==
    ASSUME NEW z \in Nat, Roots(z)
    PROVE  Roots(z + z)
<1>1. ASSUME NEW w \in Positive
      PROVE  ToThe[z + z][w] = Squares[ToThe[z][w]] /\ ToThe[z][w] \in Positive
  <2>1. ToThe[z + z][w] = (ToThe[z][w] * ToThe[z][w]) % P
    BY PositiveIs, PowerSum
  <2>2. ToThe[z][w] \in Positive
    BY PowerIsPositive
  <2>. QED  BY <2>1, <2>2 DEF Squares
<1>2. ASSUME NEW x \in Positive PROVE \E w \in Positive : ToThe[z + z][w] = x
  <2>1. PICK v \in Positive : Squares[v] = x
    BY HasRoot DEF Squares
  <2>2. PICK w \in Positive : ToThe[z][w] = v
    BY DEF Roots
  <2>. QED  BY <1>1, <2>1, <2>2
<1>3. ASSUME NEW x \in Positive, NEW w \in Positive, ToThe[z + z][w] = ToThe[z + z][x]
      PROVE  w = x
  <2>1. /\ Squares[ToThe[z][w]] = Squares[ToThe[z][x]]
        /\ ToThe[z][w] \in Positive /\ ToThe[z][x] \in Positive
    BY <1>1, <1>3
  <2>2. ToThe[z][w] = ToThe[z][x]
    BY <2>1, OneRoot
  <2>. QED  BY <2>2 DEF Roots
<1>. QED  BY <1>2, <1>3 DEF Roots

LEMMA RootsExist == Roots(4) /\ Roots(8) /\ Roots(16)
<1>1. Roots(1)
  <2>1. \A x \in Positive : ToThe[1][x] = x
    BY PositiveIs, Power
  <2>. QED  BY <2>1 DEF Roots
<1>2. 1 + 1 = 2 /\ 2 + 2 = 4 /\ 4 + 4 = 8 /\ 8 + 8 = 16
  OBVIOUS
<1>3. Roots(2)
  <2>1. Roots(1 + 1)
    BY <1>1, RootsDouble
  <2>. QED  BY <1>2, <2>1
<1>4. Roots(4)
  <2>1. Roots(2 + 2)
    BY <1>3, RootsDouble
  <2>. QED  BY <1>2, <2>1
<1>5. Roots(8)
  <2>1. Roots(4 + 4)
    BY <1>4, RootsDouble
  <2>. QED  BY <1>2, <2>1
<1>6. Roots(16)
  <2>1. Roots(8 + 8)
    BY <1>5, RootsDouble
  <2>. QED  BY <1>2, <2>1
<1>. QED  BY <1>4, <1>5, <1>6

LEMMA ExponentIs ==
    ASSUME NEW e \in Exponents
    PROVE  e.y \in Nat /\ e.z \in Nat /\ Roots(e.z)
<1>1. PICK which \in Which, q \in Rootings : e = Exponent(which, q)
  BY DEF Exponents
<1>2. e.y = q.num_tastes /\ e.z = (IF which = "HB" THEN 8 ELSE 4) * q.num_pseudofermions
  BY <1>1 DEF Exponent, getRationalApproximationDenominator
<1>3. q.num_tastes \in 1 .. 3 /\ q.num_pseudofermions \in {1, 2}
  BY DEF Rootings
<1>4. e.z \in {4, 8, 16} /\ e.y \in Nat
  BY <1>2, <1>3
<1>. QED  BY <1>4, RootsExist

\* w is x to the power of e.y / e.z.
IsRoot(w, x, e) == w \in Positive /\ ToThe[e.z][w] = ToThe[e.y][x]

LEMMA OneRootOnly ==
    ASSUME NEW x \in Positive, NEW e \in Exponents
    PROVE  /\ \E w : IsRoot(w, x, e)
           /\ \A v, w : IsRoot(v, x, e) /\ IsRoot(w, x, e) => v = w
<1>1. ToThe[e.y][x] \in Positive /\ Roots(e.z)
  BY ExponentIs, PowerIsPositive
<1>. QED  BY <1>1 DEF Roots, IsRoot

LEMMA PowIs ==
    ASSUME NEW x \in Positive, NEW e \in Exponents
    PROVE  /\ pow[x][e] \in Positive /\ pow[x][e] \in Int
           /\ \E w : IsRoot(w, x, e) /\ pow[x][e] = IF e.inv THEN Reciprocal[w] ELSE w
<1> DEFINE power == CHOOSE w \in Positive : ToThe[e.z][w] = ToThe[e.y][x]
<1>1. IsRoot(power, x, e)
  BY OneRootOnly DEF IsRoot
<1>2. pow[x][e] = IF e.inv THEN Reciprocal[power] ELSE power
  BY DEF pow
<1> HIDE DEF power
<1>3. Reciprocal[power] \in Positive
  BY <1>1, PositiveReciprocal DEF IsRoot
<1>4. pow[x][e] \in Positive
  BY <1>1, <1>2, <1>3 DEF IsRoot
<1>. QED  BY <1>1, <1>2, <1>4, PositiveIs

LEMMA PowTimes ==
    ASSUME NEW x \in Positive, NEW y \in Positive, NEW e \in Exponents
    PROVE  pow[(x * y) % P][e] = (pow[x][e] * pow[y][e]) % P
<1> DEFINE xy == (x * y) % P
<1>1. PICK v : IsRoot(v, x, e) /\ pow[x][e] = IF e.inv THEN Reciprocal[v] ELSE v
  BY PowIs
<1>2. PICK w : IsRoot(w, y, e) /\ pow[y][e] = IF e.inv THEN Reciprocal[w] ELSE w
  BY PowIs
<1>3. xy \in Positive
  BY PositiveTimes
<1>0. xy = (x * y) % P
  OBVIOUS
<1> HIDE DEF xy
<1>4. PICK u : IsRoot(u, xy, e) /\ pow[xy][e] = IF e.inv THEN Reciprocal[u] ELSE u
  BY <1>3, PowIs
<1>5. /\ v \in Positive /\ w \in Positive /\ v \in Numbers /\ w \in Numbers
      /\ x \in Numbers /\ y \in Numbers /\ e.y \in Nat /\ e.z \in Nat
      /\ v \in Nonzero /\ w \in Nonzero
  <2>1. v \in Positive /\ w \in Positive
    BY <1>1, <1>2 DEF IsRoot
  <2>. QED  BY <2>1, PositiveIs, ExponentIs
<1>6. IsRoot((v * w) % P, xy, e)
  <2>1. ToThe[e.z][(v * w) % P] = (ToThe[e.z][v] * ToThe[e.z][w]) % P
    BY <1>5, PowerOfProduct
  <2>2. ToThe[e.y][(x * y) % P] = (ToThe[e.y][x] * ToThe[e.y][y]) % P
    BY <1>5, PowerOfProduct
  <2>3. (v * w) % P \in Positive
    BY <1>5, PositiveTimes
  <2>. QED  BY <1>0, <1>1, <1>2, <2>1, <2>2, <2>3 DEF IsRoot
<1>7. u = (v * w) % P
  BY <1>3, <1>4, <1>6, OneRootOnly
<1>8. Reciprocal[u] = (Reciprocal[v] * Reciprocal[w]) % P
  BY <1>5, <1>7, ReciprocalTimes
<1>. QED  BY <1>0, <1>1, <1>2, <1>4, <1>7, <1>8

\* The powers of the heatbath and of the action belong together.
LEMMA PowersFit ==
    ASSUME NEW x \in Positive, NEW q \in Rootings, NEW heat, heat = Exponent("HB", q),
           NEW which \in {"MD", "MET"}, NEW met, met = Exponent(which, q)
    PROVE  /\ heat \in Exponents /\ met \in Exponents
           /\ Congruent(pow[x][met] * (pow[x][heat] * pow[x][heat]), 1)
           /\ pow[x][heat] \in Int /\ pow[x][met] \in Int
<1>1. heat \in Exponents /\ met \in Exponents
  BY DEF Exponents, Which
<1>2. /\ heat.y = met.y /\ heat.z = met.z + met.z /\ heat.inv = FALSE /\ met.inv = TRUE
  <2>1. q.num_pseudofermions \in Int
    BY DEF Rootings
  <2>2. 8 * q.num_pseudofermions = 4 * q.num_pseudofermions + 4 * q.num_pseudofermions
    BY <2>1
  <2>. QED  BY <2>2 DEF Exponent, getRationalApproximationDenominator
<1>3. PICK v : IsRoot(v, x, heat) /\ pow[x][heat] = v
  BY <1>1, <1>2, PowIs
<1>4. PICK w : IsRoot(w, x, met) /\ pow[x][met] = Reciprocal[w]
  BY <1>1, <1>2, PowIs
<1>5. v \in Positive /\ v \in Numbers /\ met.z \in Nat /\ v \in Int
  BY <1>1, <1>3, PositiveIs, ExponentIs DEF IsRoot
<1> DEFINE s == (v * v) % P
<1>6. s \in Positive /\ s = (v * v) % P
  BY <1>5, PositiveTimes
<1> HIDE DEF s
<1>7. IsRoot(s, x, met)
  <2>1. ToThe[met.z + met.z][v] = (ToThe[met.z][v] * ToThe[met.z][v]) % P
    BY <1>5, PowerSum
  <2>2. ToThe[met.z][s] = (ToThe[met.z][v] * ToThe[met.z][v]) % P
    BY <1>5, <1>6, PowerOfProduct
  <2>. QED  BY <1>2, <1>3, <1>6, <2>1, <2>2 DEF IsRoot
<1>8. w = s
  BY <1>1, <1>4, <1>7, OneRootOnly
<1> DEFINE r == Reciprocal[s]
<1>9. s \in Int /\ r \in Int /\ Congruent(s * r, 1)
  BY <1>6, PositiveIs, ReciprocalIs
<1>10. pow[x][met] = r /\ pow[x][heat] = v
  BY <1>3, <1>4, <1>8
<1> HIDE DEF r
<1>11. v * v \in Int /\ Congruent(v * v, s)
  BY <1>5, <1>6, ModType
<1>12. Congruent(r * (v * v), r * s)
  <2> DEFINE d == v * v
  <2>1. d \in Int /\ Congruent(d, s)
    BY <1>11
  <2> HIDE DEF d
  <2>2. Congruent(r * d, r * s)
    BY <1>9, <2>1, CongruentTimes
  <2>. QED  BY <2>2 DEF d
<1>13. r * s = s * r /\ r * (v * v) \in Int /\ s * r \in Int
  BY <1>9, <1>11
<1>14. Congruent(r * (v * v), 1)
  BY <1>9, <1>12, <1>13, CongruentChain
<1>. QED  BY <1>1, <1>5, <1>9, <1>10, <1>14
------------------------------------------------------------------------------
(* Approximations *)

Terms(r, x) == [i \in DOMAIN r.b |-> r.a[i] * Shifted(x, r.b[i])]

LEMMA RationalSum ==
    ASSUME NEW r, NEW x
    PROVE  Rational(r, x) = (r.a0 + Sum(Terms(r, x), DOMAIN r.b)) % P
<1> DEFINE S == DOMAIN r.b
           A(h) == h = [s \in SUBSET S |->
                          IF s = {} THEN 0
                          ELSE r.a[CHOOSE i \in s : TRUE] * Shifted(x, r.b[CHOOSE i \in s : TRUE])
                               + h[s \ {CHOOSE i \in s : TRUE}]]
           B(h) == h = [s \in SUBSET S |->
                          IF s = {} THEN 0
                          ELSE Terms(r, x)[CHOOSE i \in s : TRUE]
                               + h[s \ {CHOOSE i \in s : TRUE}]]
<1>1. \A h : A(h) <=> B(h)
  <2>1. \A s \in SUBSET S : s # {} => (CHOOSE i \in s : TRUE) \in S
    OBVIOUS
  <2>. QED  BY <2>1 DEF Terms
<1>2. (CHOOSE h : A(h)) = (CHOOSE h : B(h))
  <2> HIDE DEF A, B
  <2>. QED  BY <1>1, Zenon
<1>3. MapThenSumSet(LAMBDA i : r.a[i] * Shifted(x, r.b[i]), S) = (CHOOSE h : A(h))[S]
  BY DEF MapThenSumSet, MapThenFoldSet
<1>4. Sum(Terms(r, x), S) = (CHOOSE h : B(h))[S]
  BY DEF Sum, MapThenSumSet, MapThenFoldSet
<1>. QED  BY <1>2, <1>3, <1>4 DEF Rational

LEMMA ShiftedIs ==
    ASSUME NEW x \in Int, NEW b \in Int
    PROVE  /\ Shifted(x, b) \in Numbers /\ Shifted(x, b) \in Int
           /\ ~Null(x + b) => Congruent((x + b) * Shifted(x, b), 1)
<1> DEFINE y == (x + b) % P
<1>0. y = (x + b) % P /\ x + b \in Int
  OBVIOUS
<1>1. y \in Numbers /\ y \in Int /\ Congruent(x + b, y)
  BY <1>0, ModType
<1> HIDE DEF y
<1>2. CASE y = 0
  <2>1. Shifted(x, b) = 0 /\ Null(x + b)
    BY <1>0, <1>1, <1>2, NullOf, NullNumber DEF Shifted
  <2>2. 0 \in Numbers
    BY PType DEF Numbers
  <2>. QED  BY <2>1, <2>2
<1>3. CASE y # 0
  <2> DEFINE r == Reciprocal[y]
  <2>1. r \in Numbers /\ r \in Int /\ Congruent(y * r, 1) /\ Shifted(x, b) = r
    BY <1>0, <1>1, <1>3, ReciprocalIs DEF Shifted, Nonzero
  <2> HIDE DEF r
  <2>2. Congruent((x + b) * r, y * r)
    BY <1>0, <1>1, <2>1, CongruentTimes
  <2>3. (x + b) * r \in Int /\ y * r \in Int /\ 1 \in Int
    BY <1>0, <1>1, <2>1
  <2>4. Congruent((x + b) * r, 1)
    BY <2>1, <2>2, <2>3, CongruentChain
  <2>. QED  BY <2>1, <2>4
<1>. QED  BY <1>2, <1>3

LEMMA SeqDomain ==
    ASSUME NEW A, NEW b \in Seq(A)
    PROVE  /\ IsFiniteSet(DOMAIN b) /\ DOMAIN b = 1 .. Len(b)
           /\ \A i \in DOMAIN b : b[i] \in A
           /\ b # <<>> => 1 \in DOMAIN b
<1>1. DOMAIN b = 1 .. Len(b) /\ Len(b) \in Nat /\ \A i \in DOMAIN b : b[i] \in A
  OBVIOUS
<1>2. IsFiniteSet(1 .. Len(b))
  BY <1>1, FS_Interval
<1>3. b # <<>> => 1 \in DOMAIN b
  <2>1. Len(b) = 0 => b = <<>>
    OBVIOUS
  <2>. QED  BY <1>1, <2>1
<1>. QED  BY <1>1, <1>2, <1>3

\* What every approximation is, rescaled or not.
IsRational(r) ==
    /\ r.a0 \in Numbers /\ r.b \in Seq(Positive) \ {<<>>} /\ r.a \in [DOMAIN r.b -> Numbers]

LEMMA RationalType ==
    ASSUME NEW r, IsRational(r), NEW x \in Int
    PROVE  /\ IsFiniteSet(DOMAIN r.b) /\ Terms(r, x) \in [DOMAIN r.b -> Int]
           /\ Sum(Terms(r, x), DOMAIN r.b) \in Int /\ r.a0 \in Int
           /\ Rational(r, x) \in Numbers /\ Rational(r, x) \in Int
           /\ \A i \in DOMAIN r.b : /\ r.b[i] \in Int /\ r.b[i] \in Positive
                                    /\ r.a[i] \in Int /\ r.a[i] \in Numbers
<1>1. /\ IsFiniteSet(DOMAIN r.b) /\ r.a0 \in Int
      /\ \A i \in DOMAIN r.b : /\ r.b[i] \in Int /\ r.b[i] \in Positive
                               /\ r.a[i] \in Int /\ r.a[i] \in Numbers
  <2>1. r.b \in Seq(Positive) /\ r.a \in [DOMAIN r.b -> Numbers] /\ r.a0 \in Numbers
    BY DEF IsRational
  <2>2. IsFiniteSet(DOMAIN r.b) /\ \A i \in DOMAIN r.b : r.b[i] \in Positive
    BY <2>1, SeqDomain
  <2>3. ASSUME NEW i \in DOMAIN r.b
        PROVE  r.b[i] \in Int /\ r.b[i] \in Positive /\ r.a[i] \in Int /\ r.a[i] \in Numbers
    BY <2>1, <2>2, PositiveIs, ModId
  <2>. QED  BY <2>1, <2>2, <2>3, ModId
<1>2. Terms(r, x) \in [DOMAIN r.b -> Int]
  <2>1. ASSUME NEW i \in DOMAIN r.b PROVE r.a[i] * Shifted(x, r.b[i]) \in Int
    <3>1. r.b[i] \in Int /\ r.a[i] \in Int
      BY <1>1
    <3>2. Shifted(x, r.b[i]) \in Int
      BY <3>1, ShiftedIs
    <3>. QED  BY <3>1, <3>2
  <2>. QED  BY <2>1 DEF Terms
<1> DEFINE S == DOMAIN r.b
           g == Terms(r, x)
<1> HIDE DEF S, g
<1>3. Sum(g, S) \in Int
  BY <1>1, <1>2, SumType DEF S, g
<1>4. Rational(r, x) \in Numbers /\ Rational(r, x) \in Int
  <2>1. Rational(r, x) = (r.a0 + Sum(g, S)) % P
    BY RationalSum DEF S, g
  <2>2. r.a0 + Sum(g, S) \in Int
    BY <1>1, <1>3
  <2>. QED  BY <2>1, <2>2, ModType
<1>. QED  BY <1>1, <1>2, <1>3, <1>4 DEF S, g

LEMMA RangeIsPositive ==
    /\ (Margin * Margin) % P \in Positive /\ Margin \in Int
    /\ \A x \in InRange : x \in Positive
<1>1. Margin \in Nonzero /\ Margin \in Int /\ ~Null(Margin)
  BY StaggeredAssumption, NullNumber DEF Nonzero
<1>2. (Margin * Margin) % P \in Positive
  BY <1>1, SquareIsPositive
<1>3. Reciprocal[(Margin * Margin) % P] \in Positive
  BY <1>2, PositiveReciprocal
<1>. QED  BY <1>1, <1>2, <1>3, OneIsPositive DEF InRange

\* Two conditions of different positions, one pole: the coefficients exist.
LEMMA Interpolation ==
    ASSUME NEW s \in Int, NEW t \in Int, NEW v \in Int, NEW w \in Int, ~Null(s - t)
    PROVE  \E c \in Numbers, d \in Numbers :
              Congruent(c + d * s, v) /\ Congruent(c + d * t, w)
<1> DEFINE D == (s - t) % P
           r == Reciprocal[D]
           d == ((v - w) * r) % P
           c == (v - d * s) % P
<1>1. s - t \in Int /\ v - w \in Int
  OBVIOUS
<1>2. D \in Nonzero /\ D \in Int /\ Congruent(s - t, D)
  <2>1. D \in Numbers /\ D \in Int /\ Congruent(s - t, D)
    BY <1>1, ModType
  <2>2. D # 0
    BY <1>1, <2>1, NullOf, NullNumber
  <2>. QED  BY <2>1, <2>2 DEF Nonzero
<1>3. r \in Int /\ Congruent(D * r, 1)
  BY <1>2, ReciprocalIs
<1> HIDE DEF D, r
<1>4. d \in Numbers /\ d \in Int /\ Congruent((v - w) * r, d) /\ (v - w) * r \in Int
  <2>1. (v - w) * r \in Int
    BY <1>3
  <2>. QED  BY <2>1, ModType
<1> HIDE DEF d
<1>5. c \in Numbers /\ c \in Int /\ Congruent(v - d * s, c) /\ v - d * s \in Int
  <2>1. v - d * s \in Int
    BY <1>4
  <2>. QED  BY <2>1, ModType
<1> HIDE DEF c
<1>6. PICK k \in Int : s - t = D + P * k
  BY <1>2 DEF Congruent
<1>7. PICK l \in Int : D * r = 1 + P * l
  BY <1>3 DEF Congruent
<1>8. PICK j \in Int : (v - w) * r = d + P * j
  BY <1>4 DEF Congruent
<1>9. PICK i \in Int : v - d * s = c + P * i
  BY <1>5 DEF Congruent
<1>10. P \in Int
  BY PType
<1>11. c + d * s = v + P * (-i) /\ -i \in Int
  BY <1>4, <1>5, <1>9, <1>10
<1>12. Congruent(c + d * s, v)
  BY <1>11 DEF Congruent
\* d * (s - t) is v - w.
<1>13. d * (s - t) = (v - w) + P * ((v - w) * l + (v - w) * r * k - j * (s - t))
  <2> DEFINE e == v - w
             f == s - t
  <2>1. e \in Int /\ f \in Int /\ f = D + P * k /\ e * r = d + P * j
    BY <1>6, <1>8
  <2> HIDE DEF e, f
  <2>2. d * f = e * r * f - P * (j * f)
    <3> DEFINE q == e * r
    <3>1. q \in Int /\ d = q - P * j
      BY <1>3, <1>4, <1>10, <2>1
    <3> HIDE DEF q
    <3>2. d * f = q * f - P * (j * f)
      BY <1>10, <2>1, <3>1
    <3>. QED  BY <3>2 DEF q
  <2>3. e * r * f = e * (D * r) + P * (e * r * k)
    BY <1>2, <1>3, <1>10, <2>1
  <2>4. e * (D * r) = e + P * (e * l)
    BY <1>2, <1>3, <1>7, <1>10, <2>1
  <2>5. e * l \in Int /\ e * r * k \in Int /\ j * f \in Int
    BY <1>3, <2>1
  <2> DEFINE x1 == e * l
             x2 == e * r * k
             x3 == j * f
  <2>6. d * f = e + P * x1 + P * x2 - P * x3 /\ x1 \in Int /\ x2 \in Int /\ x3 \in Int
    <3> DEFINE y1 == e * (D * r)
               y2 == e * r * f
    <3>1. d * f = y2 - P * x3 /\ y2 = y1 + P * x2 /\ y1 = e + P * x1 /\ y1 \in Int /\ y2 \in Int
          /\ P * x1 \in Int /\ P * x2 \in Int /\ P * x3 \in Int
      BY <1>2, <1>3, <1>10, <2>1, <2>2, <2>3, <2>4, <2>5
    <3> HIDE DEF x1, x2, x3, y1, y2
    <3>2. d * f = e + P * x1 + P * x2 - P * x3
      BY <2>1, <3>1
    <3>. QED  BY <2>5, <3>2 DEF x1, x2, x3
  <2> HIDE DEF x1, x2, x3
  <2>7. d * f = e + P * (x1 + x2 - x3)
    BY <1>10, <2>1, <2>6
  <2>. QED  BY <2>7 DEF e, f, x1, x2, x3
<1>14. Congruent(c + d * t, w)
  <2> DEFINE m == (v - w) * l + (v - w) * r * k - j * (s - t)
  <2>1. m \in Int /\ d * (s - t) = (v - w) + P * m
    BY <1>3, <1>13
  <2> HIDE DEF m
  <2>2. d * s - d * t = v - w + P * m /\ d * s \in Int /\ d * t \in Int
    BY <1>4, <2>1
  <2>3. c + d * t = w + P * (-i - m) /\ -i - m \in Int
    BY <1>5, <1>10, <1>11, <2>1, <2>2
  <2>. QED  BY <2>3 DEF Congruent
<1>. QED  BY <1>4, <1>5, <1>12, <1>14

\* Different points have different distances from a pole.
LEMMA ShiftsDiffer ==
    ASSUME NEW x \in Positive, NEW y \in Positive, NEW b \in Positive,
           Null(Shifted(x, b) - Shifted(y, b))
    PROVE  x = y
<1> DEFINE s == Shifted(x, b)
           t == Shifted(y, b)
<1>1. x \in Int /\ y \in Int /\ b \in Int /\ x \in Numbers /\ y \in Numbers
  BY PositiveIs
<1>2. ~Null(x + b) /\ ~Null(y + b)
  BY NoOpposite
<1>3. /\ s \in Int /\ t \in Int /\ Congruent((x + b) * s, 1) /\ Congruent((y + b) * t, 1)
      /\ Null(s - t)
  BY <1>1, <1>2, ShiftedIs
<1> HIDE DEF s, t
<1>4. PICK k \in Int : (x + b) * s = 1 + P * k
  BY <1>3 DEF Congruent
<1>5. PICK l \in Int : (y + b) * t = 1 + P * l
  BY <1>3 DEF Congruent
<1>6. PICK j \in Int : s - t = 0 + P * j
  BY <1>3 DEF Null, Congruent
<1>7. P \in Int
  BY PType
\* (x - y) * s = (x + b) * s - (y + b) * t - (y + b) * (s - t)
<1>8. (x - y) * s = 0 + P * (k - l - (y + b) * j)
  <2> DEFINE c == y + b
             d == x + b
  <2>1. c \in Int /\ d \in Int /\ x - y = d - c /\ d * s = 1 + P * k /\ c * t = 1 + P * l
    BY <1>1, <1>4, <1>5
  <2> HIDE DEF c, d
  <2>2. (d - c) * s = d * s - c * t - c * (s - t)
    BY <1>3, <2>1
  <2>3. c * (s - t) = P * (c * j)
    BY <1>6, <1>7, <2>1
  <2>4. (d - c) * s = P * k - P * l - P * (c * j)
    BY <1>3, <1>7, <2>1, <2>2, <2>3
  <2>5. (d - c) * s = 0 + P * (k - l - c * j)
    <3> DEFINE m == c * j
    <3>1. m \in Int /\ (d - c) * s = P * k - P * l - P * m
      BY <2>1, <2>4
    <3> HIDE DEF m
    <3>2. P * k - P * l - P * m = 0 + P * (k - l - m)
      BY <1>7, <3>1
    <3>. QED  BY <3>1, <3>2 DEF m
  <2>. QED  BY <2>1, <2>5 DEF c
<1>9. Null((x - y) * s)
  <2>1. k - l - (y + b) * j \in Int
    BY <1>1
  <2>. QED  BY <1>8, <2>1 DEF Null, Congruent
<1>10. ~Null(s)
  <2> SUFFICES ASSUME Null(s) PROVE FALSE
    OBVIOUS
  <2>1. Null((x + b) * s)
    <3>1. x + b \in Int
      BY <1>1
    <3>. QED  BY <1>3, <3>1, NullTimes
  <2>2. (x + b) * s \in Int /\ 1 \in Int
    BY <1>1, <1>3
  <2>3. Null(1)
    BY <1>3, <2>1, <2>2, NullOf
  <2>. QED  BY <2>3, OneIsPositive, NullNumber DEF Nonzero
<1>11. Null(x - y)
  <2>1. x - y \in Int /\ s * (x - y) = (x - y) * s
    BY <1>1, <1>3
  <2>. QED  BY <1>3, <1>9, <1>10, <2>1, NullFactor
<1>12. x % P = y % P
  BY <1>1, <1>11, NullDifference, CongruentIs
<1>. QED  BY <1>1, <1>12, ModId

\* Coefficients for two points.
LEMMA ApproximationExists ==
    ASSUME NEW b \in Seq(Positive) \ {<<>>}, NEW e \in Exponents
    PROVE  \E r \in [a0 : Numbers, a : [DOMAIN b -> Numbers], b : {b}, exponent : {e}] :
              \A x \in InRange : Rational(r, x) = pow[x][e]
<1>1. /\ 1 \in DOMAIN b /\ b[1] \in Positive /\ b[1] \in Int /\ IsFiniteSet(DOMAIN b)
      /\ 0 \in Numbers /\ 0 \in Int
  BY SeqDomain, PositiveIs, PType DEF Numbers
<1> DEFINE Coeff(c, d) == [a0 |-> c, a |-> [i \in DOMAIN b |-> IF i = 1 THEN d ELSE 0],
                           b |-> b, exponent |-> e]
<1>2. ASSUME NEW c \in Numbers, NEW d \in Numbers, NEW x \in Positive
      PROVE  /\ Coeff(c, d) \in [a0 : Numbers, a : [DOMAIN b -> Numbers], b : {b}, exponent : {e}]
             /\ Rational(Coeff(c, d), x) = (c + d * Shifted(x, b[1])) % P
  <2> DEFINE r == Coeff(c, d)
  <2>1. r \in [a0 : Numbers, a : [DOMAIN b -> Numbers], b : {b}, exponent : {e}]
    BY <1>1
  <2>2. /\ r.a0 = c /\ r.b = b /\ r.a \in [DOMAIN b -> Numbers] /\ r.a[1] = d
        /\ \A i \in DOMAIN b : i # 1 => r.a[i] = 0
    BY <1>1
  <2> HIDE DEF r
  <2>3. IsRational(r) /\ x \in Int
    BY <2>2, PositiveIs DEF IsRational
  <2> DEFINE S == DOMAIN b
             g == Terms(r, x)
  <2>4. g \in [S -> Int] /\ g[1] = d * Shifted(x, b[1])
    BY <1>1, <2>2, <2>3, RationalType DEF Terms
  <2>5. ASSUME NEW i \in S, i # 1 PROVE g[i] = 0
    <3>1. g[i] = r.a[i] * Shifted(x, b[i]) /\ r.a[i] = 0
      BY <2>2, <2>5 DEF Terms
    <3>2. b[i] \in Int
      BY <2>2, <2>3, RationalType
    <3>3. Shifted(x, b[i]) \in Int
      BY <2>3, <3>2, ShiftedIs
    <3>. QED  BY <3>1, <3>3
  <2> HIDE DEF g
  <2>6. Sum(g, S) = g[1]
    <3> HIDE DEF S
    <3>1. IsFiniteSet(S) /\ 1 \in S
      BY <1>1 DEF S
    <3>. QED  BY <2>4, <2>5, <3>1, OneTerm
  <2>7. Rational(r, x) = (c + Sum(g, S)) % P
    BY <2>2, RationalSum DEF g
  <2>. QED  BY <2>1, <2>4, <2>6, <2>7 DEF r
<1> HIDE DEF Coeff
<1> DEFINE y == Reciprocal[(Margin * Margin) % P]
           s == Shifted(1, b[1])
           t == Shifted(y, b[1])
           v == pow[1][e]
           w == pow[y][e]
<1>3. InRange = {1, y} /\ 1 \in Positive /\ y \in Positive /\ 1 \in Int /\ y \in Int
  BY RangeIsPositive, PositiveIs, OneIsPositive DEF InRange
<1>4. s \in Int /\ t \in Int /\ v \in Int /\ w \in Int /\ v \in Numbers /\ w \in Numbers
  <2>1. v \in Positive /\ w \in Positive
    BY <1>3, PowIs
  <2>. QED  BY <1>1, <1>3, <2>1, ShiftedIs, PositiveIs
<1>5. Null(s - t) => 1 = y
  BY <1>1, <1>3, ShiftsDiffer
<1>6. \E c \in Numbers, d \in Numbers :
              Congruent(c + d * s, v) /\ Congruent(c + d * t, w)
  <2>1. CASE Null(s - t)
    <3>1. s = t /\ v = w
      BY <1>5, <2>1
    <3>2. v + 0 * s = v /\ v + 0 * t = v
      BY <1>4
    <3>. QED  BY <1>1, <1>4, <3>1, <3>2, CongruentSelf
  <2>2. CASE ~Null(s - t)
    <3> HIDE DEF s, t, v, w
    <3>. QED  BY <1>4, <2>2, Interpolation
  <2>. QED  BY <2>1, <2>2
<1>7. PICK c \in Numbers, d \in Numbers : Congruent(c + d * s, v) /\ Congruent(c + d * t, w)
  BY <1>6
<1>8. (c + d * s) % P = v /\ (c + d * t) % P = w
  <2>1. c + d * s \in Int /\ c + d * t \in Int
    BY <1>4, ModId
  <2> HIDE DEF s, t, v, w
  <2>2. (c + d * s) % P = v % P /\ (c + d * t) % P = w % P
    BY <1>4, <1>7, <2>1, CongruentIs
  <2>. QED  BY <1>4, <2>2, ModId
<1>9. Rational(Coeff(c, d), 1) = v /\ Rational(Coeff(c, d), y) = w
  BY <1>2, <1>3, <1>8
<1>. QED  BY <1>2, <1>3, <1>9

\* One pole, rescaled: a max / (max t + b max) = a / (t + b).
LEMMA RescaledPole ==
    ASSUME NEW max \in Positive, NEW t \in Positive, NEW b \in Positive, NEW x \in Positive,
           x = (max * t) % P
    PROVE  Congruent(max * Shifted(x, (b * max) % P), Shifted(t, b))
<1> DEFINE c == (b * max) % P
           s == Shifted(x, c)
           r == Shifted(t, b)
<1>1. c \in Positive /\ c = (b * max) % P
  BY PositiveTimes
<1> HIDE DEF c
<1>2. max \in Int /\ t \in Int /\ b \in Int /\ x \in Int /\ c \in Int /\ P \in Int
  BY <1>1, PositiveIs, PType
<1>3. ~Null(x + c) /\ ~Null(t + b)
  BY <1>1, NoOpposite
<1>4. s \in Int /\ r \in Int /\ Congruent((x + c) * s, 1) /\ Congruent((t + b) * r, 1)
  BY <1>2, <1>3, ShiftedIs
<1> HIDE DEF s, r
<1>5. Congruent(max * t, x) /\ Congruent(b * max, c) /\ max * t \in Int /\ b * max \in Int
  <2>1. max * t \in Int /\ b * max \in Int
    BY <1>2
  <2>. QED  BY <1>1, <2>1, ModType
<1>6. PICK i \in Int : max * t = x + P * i
  BY <1>5 DEF Congruent
<1>7. PICK j \in Int : b * max = c + P * j
  BY <1>5 DEF Congruent
<1> DEFINE d == t + b
           z == x + c
<1>8. d \in Int /\ z \in Int /\ d * max = z + P * (i + j)
  <2>1. d * max = max * t + b * max
    BY <1>2
  <2>2. d * max = x + P * i + c + P * j
    <3> DEFINE y == max * t
               v == b * max
               pi == P * i
               pj == P * j
    <3>1. y \in Int /\ v \in Int /\ pi \in Int /\ pj \in Int
          /\ d * max = y + v /\ y = x + pi /\ v = c + pj
      BY <1>2, <1>5, <1>6, <1>7, <2>1
    <3> HIDE DEF d, y, v, pi, pj
    <3>2. d * max = x + pi + c + pj
      BY <1>2, <3>1
    <3>. QED  BY <3>2 DEF pi, pj
  <2>3. P * i \in Int /\ P * j \in Int /\ P * (i + j) = P * i + P * j
    BY <1>2
  <2>. QED  BY <1>2, <2>2, <2>3
<1> HIDE DEF d, z
<1>9. Congruent(d * max, z)
  <2>1. i + j \in Int
    OBVIOUS
  <2>. QED  BY <1>8, <2>1 DEF Congruent
<1>10. Congruent(z * s, 1) /\ Congruent(d * r, 1)
  BY <1>4 DEF d, z
<1>11. /\ d * max \in Int /\ (d * max) * s \in Int /\ z * s \in Int /\ 1 \in Int /\ d * r \in Int
       /\ max * s \in Int /\ d * (max * s) \in Int /\ d * (max * s) = (d * max) * s
  BY <1>2, <1>4, <1>8
<1>12. Congruent((d * max) * s, z * s)
  <2> DEFINE y == d * max
  <2>1. y \in Int /\ Congruent(y, z)
    BY <1>9, <1>11
  <2> HIDE DEF y
  <2>2. Congruent(y * s, z * s)
    BY <1>4, <1>8, <2>1, CongruentTimes
  <2>. QED  BY <2>2 DEF y
<1>13. Congruent(d * (max * s), 1)
  BY <1>10, <1>11, <1>12, CongruentChain
<1>14. Congruent(1, d * r)
  BY <1>10, <1>11, CongruentIs
<1>15. Congruent(d * (max * s), d * r)
  BY <1>11, <1>13, <1>14, CongruentChain
<1>16. Null(d * (max * s - r))
  <2>1. Null(d * (max * s) - d * r)
    BY <1>11, <1>15, DifferenceNull
  <2>2. d * (max * s) - d * r = d * (max * s - r)
    <3> DEFINE y == max * s
    <3>1. y \in Int
      BY <1>11
    <3> HIDE DEF y
    <3>2. d * y - d * r = d * (y - r)
      BY <1>4, <1>8, <3>1
    <3>. QED  BY <3>2 DEF y
  <2>. QED  BY <2>1, <2>2
<1>17. ~Null(d)
  BY <1>3 DEF d
<1>18. max * s - r \in Int
  BY <1>4, <1>11
<1>19. Null(max * s - r)
  BY <1>8, <1>16, <1>17, <1>18, NullFactor
<1>20. Congruent(max * s, r)
  BY <1>4, <1>11, <1>19, NullDifference
<1>. QED  BY <1>20 DEF s, r, c

\* Rescaled coefficients give at max t what the original ones give at t, times
\* the power of max.
LEMMA RescaleIdentity ==
    ASSUME NEW r, IsRational(r), NEW e \in Exponents, r.exponent = e,
           NEW max \in Positive, NEW t \in Positive, NEW x \in Positive, x = (max * t) % P,
           Rational(r, t) = pow[t][e]
    PROVE  /\ IsRational(Rescale_Coefficients(r, max))
           /\ Rational(Rescale_Coefficients(r, max), x) = pow[x][e]
<1> DEFINE tmp == pow[max][e]
           R == Rescale_Coefficients(r, max)
           S == DOMAIN r.b
<1>1. tmp \in Int /\ max \in Int /\ t \in Int /\ x \in Int
  BY PowIs, PositiveIs
<1>2. /\ R.a0 = (r.a0 * tmp) % P /\ R.a = [i \in DOMAIN r.a |-> (r.a[i] * tmp * max) % P]
      /\ R.b = [i \in DOMAIN r.b |-> (r.b[i] * max) % P]
  BY DEF Rescale_Coefficients
<1> HIDE DEF tmp, R
<1>3. /\ r.b \in Seq(Positive) /\ r.b # <<>> /\ r.a \in [S -> Numbers] /\ IsFiniteSet(S)
      /\ r.a0 \in Int /\ 1 \in S /\ DOMAIN r.a = S
      /\ \A i \in S : r.b[i] \in Positive /\ r.b[i] \in Int /\ r.a[i] \in Int
  BY <1>1, RationalType, SeqDomain DEF IsRational
<1>4. IsRational(R)
  <2>1. \A i \in S : (r.b[i] * max) % P \in Positive
    BY <1>3, PositiveTimes
  <2>2. R.b \in Seq(Positive) /\ DOMAIN R.b = S
    <3>1. S = 1 .. Len(r.b) /\ Len(r.b) \in Nat
      BY <1>3
    <3>2. R.b \in [1 .. Len(r.b) -> Positive]
      BY <1>2, <2>1, <3>1
    <3>. QED  BY <3>1, <3>2
  <2>3. R.b # <<>>
    BY <1>3, <2>2
  <2>4. ASSUME NEW i \in S PROVE (r.a[i] * tmp * max) % P \in Numbers
    <3>1. r.a[i] * tmp * max \in Int
      BY <1>1, <1>3
    <3>. QED  BY <3>1, ModType
  <2>5. R.a \in [DOMAIN R.b -> Numbers]
    BY <1>2, <1>3, <2>2, <2>4
  <2>6. R.a0 \in Numbers
    <3>1. r.a0 * tmp \in Int
      BY <1>1, <1>3
    <3>. QED  BY <1>2, <3>1, ModType
  <2>. QED  BY <2>2, <2>3, <2>5, <2>6 DEF IsRational
<1> DEFINE f == Terms(R, x)
           g == Terms(r, t)
<1>5. DOMAIN R.b = S
  BY <1>2
<1>6. ASSUME NEW i \in S PROVE Congruent(f[i], tmp * g[i])
  <2> DEFINE c == (r.b[i] * max) % P
             s == Shifted(x, c)
             q == Shifted(t, r.b[i])
             A == r.a[i]
             B == (A * tmp * max) % P
  <2>1. f[i] = B * s /\ g[i] = A * q
    BY <1>2, <1>3, <1>5 DEF Terms
  <2>2. Congruent(max * s, q) /\ A \in Int
    BY <1>3, RescaledPole
  <2>3. s \in Int /\ q \in Int
    <3>1. c \in Positive /\ r.b[i] \in Int
      BY <1>3, PositiveTimes
    <3>2. c \in Int
      BY <3>1, PositiveIs
    <3>. QED  BY <1>1, <3>1, <3>2, ShiftedIs
  <2>4. B \in Int /\ Congruent(A * tmp * max, B) /\ A * tmp * max \in Int
    <3>1. A * tmp * max \in Int
      BY <1>1, <2>2
    <3>. QED  BY <3>1, ModType
  <2> HIDE DEF c, s, q, A, B, f, g
  <2>5. Congruent(B * s, (A * tmp * max) * s)
    <3> DEFINE y == A * tmp * max
    <3>1. y \in Int /\ Congruent(y, B)
      BY <2>4
    <3> HIDE DEF y
    <3>2. y % P = B % P
      BY <2>4, <3>1, CongruentIs
    <3>3. Congruent(B, y)
      BY <2>4, <3>1, <3>2, CongruentIs
    <3>4. Congruent(B * s, y * s)
      BY <2>3, <2>4, <3>1, <3>3, CongruentTimes
    <3>. QED  BY <3>4 DEF y
  <2>6. Congruent((A * tmp) * (max * s), (A * tmp) * q)
    <3> DEFINE y == max * s
               z == A * tmp
    <3>1. y \in Int /\ Congruent(y, q) /\ z \in Int
      BY <1>1, <2>2, <2>3
    <3> HIDE DEF y, z
    <3>2. Congruent(z * y, z * q)
      BY <2>3, <3>1, CongruentTimes
    <3>. QED  BY <3>2 DEF y, z
  <2>7. (A * tmp * max) * s = (A * tmp) * (max * s) /\ (A * tmp) * q = tmp * (A * q)
    BY <1>1, <2>2, <2>3
  <2>8. B * s \in Int /\ (A * tmp * max) * s \in Int /\ (A * tmp) * q \in Int
    BY <1>1, <2>2, <2>3, <2>4
  <2>9. Congruent(B * s, (A * tmp) * q)
    BY <2>5, <2>6, <2>7, <2>8, CongruentChain
  <2>. QED  BY <2>1, <2>7, <2>9
<1>7. f \in [S -> Int] /\ g \in [S -> Int] /\ Sum(f, S) \in Int /\ Sum(g, S) \in Int
  BY <1>1, <1>4, <1>5, RationalType
<1> HIDE DEF f, g
<1>8. Congruent(Sum(f, S), tmp * Sum(g, S))
  <2> HIDE DEF S
  <2>. QED  BY <1>1, <1>3, <1>6, <1>7, CongruentSums
<1>9. Rational(R, x) = (R.a0 + Sum(f, S)) % P /\ Rational(r, t) = (r.a0 + Sum(g, S)) % P
  BY <1>5, RationalSum DEF f, g
<1> DEFINE F == Sum(f, S)
           G == Sum(g, S)
<1>10. /\ F \in Int /\ G \in Int /\ Congruent(F, tmp * G) /\ R.a0 = (r.a0 * tmp) % P
       /\ Rational(R, x) = (R.a0 + F) % P /\ Rational(r, t) = (r.a0 + G) % P
  BY <1>2, <1>7, <1>8, <1>9
<1> HIDE DEF F, G
<1>11. (R.a0 + F) % P = (tmp * (r.a0 + G)) % P
  <2>1. r.a0 * tmp \in Int /\ tmp * G \in Int /\ tmp * (r.a0 + G) = r.a0 * tmp + tmp * G
    BY <1>1, <1>3, <1>10
  <2>2. Congruent(r.a0 * tmp, r.a0 * tmp)
    BY <2>1, CongruentSelf
  <2> DEFINE y == r.a0 * tmp
             z == tmp * G
  <2>3. y \in Int /\ z \in Int /\ Congruent(y, y) /\ Congruent(F, z) /\ R.a0 = y % P
        /\ tmp * (r.a0 + G) = y + z
    BY <1>10, <2>1, <2>2
  <2> HIDE DEF y, z
  <2>4. Congruent(y + F, y + z)
    BY <1>10, <2>3, CongruentOps
  <2>5. y + F \in Int /\ y + z \in Int
    BY <1>10, <2>3
  <2>6. (y + F) % P = (y + z) % P
    BY <2>4, <2>5, CongruentIs
  <2>7. ((y % P) + F) % P = (y + F) % P
    BY <1>10, <2>3, ModPlus
  <2>. QED  BY <2>3, <2>6, <2>7
<1>12. (tmp * (r.a0 + G)) % P = (tmp * ((r.a0 + G) % P)) % P
  <2>1. r.a0 + G \in Int
    BY <1>3, <1>10
  <2>. QED  BY <1>1, <2>1, ModTimes
<1>13. pow[x][e] = (tmp * pow[t][e]) % P
  BY PowTimes DEF tmp
<1>. QED  BY <1>4, <1>10, <1>11, <1>12, <1>13 DEF R

LEMMA ApproximationIs ==
    ASSUME NEW which \in Which, NEW q, q.num_tastes \in 1 .. 3, q.num_pseudofermions \in {1, 2}
    PROVE  /\ IsRational(Approximation(which, q)) /\ Exponent(which, q) \in Exponents
           /\ Approximation(which, q).exponent = Exponent(which, q)
           /\ \A x \in InRange : Rational(Approximation(which, q), x) = pow[x][Exponent(which, q)]
<1> DEFINE k == [num_tastes |-> q.num_tastes, num_pseudofermions |-> q.num_pseudofermions]
           b == IF which = "MD" THEN MDPoles ELSE MetroPoles
           e == Exponent(which, k)
           r == Rational_Approximation(which, k)
           K == [a0 : Numbers, a : [DOMAIN b -> Numbers], b : {b}, exponent : {e}]
           Exact(s) == \A x \in InRange : Rational(s, x) = pow[x][e]
<1>1. k \in Rootings
  BY DEF Rootings
<1>2. e = Exponent(which, q)
  BY DEF Exponent, getRationalApproximationDenominator
<1>3. e \in Exponents /\ b \in Seq(Positive) \ {<<>>}
  BY <1>1, StaggeredAssumption DEF Exponents
<1>4. Approximation(which, q) = r
  BY <1>1 DEF Approximation, Approximations
<1>5. r = CHOOSE s \in K : Exact(s)
  BY DEF Rational_Approximation
<1> HIDE DEF r, b, k, e
<1>6. \E s \in K : Exact(s)
  BY <1>3, ApproximationExists
<1>7. r \in K /\ Exact(r)
  <2> HIDE DEF K, Exact
  <2>. QED  BY <1>5, <1>6
<1>8. /\ r.a0 \in Numbers /\ r.b = b /\ r.a \in [DOMAIN b -> Numbers] /\ r.exponent = e
  BY <1>7
<1>9. IsRational(r)
  BY <1>3, <1>8 DEF IsRational
<1>. QED  BY <1>2, <1>3, <1>4, <1>7, <1>8, <1>9

LEMMA HalfIs == Half \in Numbers /\ Half \in Int /\ 2 \in Nonzero /\ Congruent(2 * Half, 1)
<1>1. 2 \in Nonzero
  BY PType DEF Nonzero, Numbers
<1>. QED  BY <1>1, ReciprocalIs, HasReciprocal DEF Half, Nonzero

LEMMA MatrixType ==
    ASSUME NEW u \in Int, NEW site \in {"EVEN", "ODD"}
    PROVE  /\ MdagM_eo(u, site) \in Numbers /\ MdagM_eo(u, site) \in Int
           /\ \A evenodd : D_KS_eo(u, evenodd, site) \in Numbers /\ D_KS_eo(u, evenodd, site) \in Int
<1>1. ASSUME NEW evenodd
      PROVE  D_KS_eo(u, evenodd, site) \in Numbers /\ D_KS_eo(u, evenodd, site) \in Int
  <2> DEFINE y == Half * u * IF evenodd = site THEN 1 ELSE -1
  <2>1. y \in Int
    BY HalfIs
  <2> HIDE DEF y
  <2>2. y % P \in Numbers /\ y % P \in Int
    BY <2>1, ModType
  <2>. QED  BY <2>2 DEF D_KS_eo, y
<1>2. MdagM_eo(u, site) \in Numbers /\ MdagM_eo(u, site) \in Int
  <2> DEFINE d == D_KS_eo(u, "EVEN", site)
             c == D_KS_eo(u, "ODD", site)
             y == Mass * Mass - d * c
  <2>1. d \in Int /\ c \in Int
    BY <1>1
  <2>2. Mass \in Int
    BY StaggeredAssumption, ModId
  <2> HIDE DEF d, c
  <2>3. y \in Int
    BY <2>1, <2>2
  <2> HIDE DEF y
  <2>4. y % P \in Numbers /\ y % P \in Int
    BY <2>3, ModType
  <2>. QED  BY <2>4 DEF MdagM_eo, y, d, c
<1>. QED  BY <1>1, <1>2

\* Rescaled to the spectrum on u, an approximation is exact on u.
LEMMA RescaledIs ==
    ASSUME NEW which \in Which,
           NEW q, q.num_tastes \in 1 .. 3, q.num_pseudofermions \in {1, 2},
           q.conservative \in BOOLEAN,
           NEW u, MdagM_eo(u, q.site) \in Positive
    PROVE  LET R == Rescale_Coefficients(Approximation(which, q), maxEigenvalue(u, q))
           IN /\ IsRational(R)
              /\ Rational(R, MdagM_eo(u, q.site)) = pow[MdagM_eo(u, q.site)][Exponent(which, q)]
<1> DEFINE M == MdagM_eo(u, q.site)
           m == Margin * Margin
           c == m % P
           t == IF q.conservative THEN Reciprocal[c] ELSE 1
           max == maxEigenvalue(u, q)
           r == Approximation(which, q)
           e == Exponent(which, q)
<1>1. M \in Positive /\ M \in Int /\ M \in Numbers
  BY PositiveIs
<1>2. c \in Positive /\ m \in Int /\ c \in Int
  BY RangeIsPositive, PositiveIs
<1>3. t \in InRange /\ t \in Positive
  BY RangeIsPositive DEF InRange
<1>4. IsRational(r) /\ e \in Exponents /\ r.exponent = e /\ Rational(r, t) = pow[t][e]
  BY <1>3, ApproximationIs
<1>5. max = IF q.conservative THEN (M * m) % P ELSE M % P
  <2>1. M * 1 = M
    BY <1>1
  <2>2. max = IF q.conservative THEN (M * m) % P ELSE (M * 1) % P
    BY DEF maxEigenvalue
  <2>. QED  BY <2>1, <2>2
<1>0. c = m % P
  OBVIOUS
<1> HIDE DEF M, m, c, r, e, max
<1>6. max \in Positive /\ M = (max * t) % P
  <2>1. CASE q.conservative
    <3> DEFINE s == Reciprocal[c]
    <3>1. s \in Int /\ Congruent(c * s, 1) /\ c * s \in Int
      BY <1>2, PositiveIs, ReciprocalIs
    <3>2. max = (M * m) % P /\ t = s
      BY <1>5, <2>1
    <3>3. max = (M * c) % P
      BY <1>0, <1>1, <1>2, <3>2, ModTimes
    <3>4. max \in Positive
      BY <1>1, <1>2, <3>3, PositiveTimes
    <3> HIDE DEF s, t
    <3>5. (max * s) % P = ((M * c) * s) % P
      <4>1. M * c \in Int
        BY <1>1, <1>2
      <4>. QED  BY <3>1, <3>3, <4>1, ModTimes
    <3>6. (M * c) * s = M * (c * s)
      BY <1>1, <1>2, <3>1
    <3>7. Congruent(M * (c * s), M * 1)
      <4> DEFINE y == c * s
                 o == 1
      <4>1. y \in Int /\ o \in Int /\ Congruent(y, o)
        BY <3>1
      <4> HIDE DEF y, o
      <4>2. Congruent(M * y, M * o)
        BY <1>1, <4>1, CongruentTimes
      <4>. QED  BY <4>2 DEF y, o
    <3>8. M * 1 = M /\ M * (c * s) \in Int
      BY <1>1, <3>1
    <3>9. (M * (c * s)) % P = M % P
      BY <1>1, <3>7, <3>8, CongruentIs
    <3>10. M % P = M
      BY <1>1, ModId
    <3>. QED  BY <3>2, <3>4, <3>5, <3>6, <3>9, <3>10
  <2>2. CASE ~q.conservative
    <3>1. max = M /\ t = 1 /\ M * 1 = M /\ M % P = M
      BY <1>1, <1>5, <2>2, ModId
    <3>. QED  BY <1>1, <3>1
  <2>. QED  BY <2>1, <2>2
<1> HIDE DEF t
<1>7. /\ IsRational(Rescale_Coefficients(r, max))
      /\ Rational(Rescale_Coefficients(r, max), M) = pow[M][e]
  BY <1>1, <1>3, <1>4, <1>6, RescaleIdentity
<1>. QED  BY <1>7 DEF M, r, e, max
------------------------------------------------------------------------------
(* Nested loops *)

\* What a word does, as a function.
Act(G, D, s) == [d \in D |-> Run(G, d, s)]

LEMMA ActOf ==
    ASSUME NEW D, NEW A, NEW G, Machine(G, D, A), NEW s \in Seq(A)
    PROVE  Act(G, D, s) \in [D -> D]
<1>1. ASSUME NEW d \in D PROVE Run(G, d, s) \in D
  BY RunIs, SMT
<1>. QED  BY <1>1 DEF Act

LEMMA ActOfConcat ==
    ASSUME NEW D, NEW A, NEW G, Machine(G, D, A), NEW s \in Seq(A), NEW t \in Seq(A), NEW d \in D
    PROVE  Act(G, D, s \o t)[d] = Act(G, D, t)[Act(G, D, s)[d]]
<1>1. Act(G, D, s)[d] \in D
  BY ActOf
<1>2. Run(G, d, s \o t) = Run(G, Run(G, d, s), t)
  BY RunConcat
<1>. QED  BY <1>1, <1>2 DEF Act

LEMMA ActOfNothing ==
    ASSUME NEW D, NEW A, NEW G, Machine(G, D, A), NEW d \in D
    PROVE  Act(G, D, <<>>)[d] = d
<1>1. Run(G, d, <<>>) = d
  BY RunOfFew
<1>. QED  BY <1>1 DEF Act

Repeated(G, D, m, S) ==
    /\ \A d \in D : Act(G, D, Repeat(0, S))[d] = d
    /\ \A d \in D : Act(G, D, Repeat(m + 1, S))[d] = Act(G, D, S)[Act(G, D, Repeat(m, S))[d]]

LEMMA ActOfRepeat ==
    ASSUME NEW D, NEW A, NEW G, Machine(G, D, A), NEW S \in Seq(A), NEW m \in Nat
    PROVE  Repeat(m, S) \in Seq(A) /\ Repeated(G, D, m, S)
<1>1. /\ Repeat(0, S) = <<>> /\ Repeat(m, S) \in Seq(A)
      /\ Repeat(m + 1, S) = Repeat(m, S) \o S
  BY RepeatIs
<1>2. ASSUME NEW d \in D PROVE Act(G, D, Repeat(0, S))[d] = d
  BY <1>1, ActOfNothing
<1>3. ASSUME NEW d \in D
      PROVE  Act(G, D, Repeat(m + 1, S))[d] = Act(G, D, S)[Act(G, D, Repeat(m, S))[d]]
  <2>1. Act(G, D, Repeat(m, S) \o S)[d] = Act(G, D, S)[Act(G, D, Repeat(m, S))[d]]
    <3> DEFINE R == Repeat(m, S)
    <3>1. R \in Seq(A)
      BY <1>1
    <3> HIDE DEF R
    <3>2. Act(G, D, R \o S)[d] = Act(G, D, S)[Act(G, D, R)[d]]
      BY <3>1, ActOfConcat
    <3>. QED  BY <3>2 DEF R
  <2>. QED  BY <1>1, <2>1
<1>. QED  BY <1>1, <1>2, <1>3 DEF Repeated

Commute(G, D, s, t) ==
    \A d \in D : Act(G, D, t)[Act(G, D, s)[d]] = Act(G, D, s)[Act(G, D, t)[d]]

Halves(G, D, half, full) ==
    \A d \in D : Act(G, D, full)[d] = Act(G, D, half)[Act(G, D, half)[d]]

\* The way the loops are unrolled: B is a group of steps, the code has done the
\* kicks B begins with, P, before and does the rest, L; or S, the rest of B and
\* the beginning of the next group.
Layer(G, D, P_, L, S, B) ==
    \A d \in D : /\ Act(G, D, S)[d] = Act(G, D, P_)[Act(G, D, L)[d]]
                 /\ Act(G, D, B)[d] = Act(G, D, L)[Act(G, D, P_)[d]]

LEMMA Bottom ==
    ASSUME NEW D, NEW A, NEW G, Machine(G, D, A), NEW U \in Seq(A)
    PROVE  Layer(G, D, <<>>, U, U, U)
<1>1. ASSUME NEW d \in D PROVE Act(G, D, U)[d] \in D
  BY ActOf
<1>2. ASSUME NEW d \in D PROVE Act(G, D, <<>>)[d] = d
  BY ActOfNothing
<1>. QED  BY <1>1, <1>2 DEF Layer

\* The functions behind the words.
Rules(D, p_, l, s, b, h, f) ==
    /\ p_ \in [D -> D] /\ l \in [D -> D] /\ s \in [D -> D] /\ b \in [D -> D]
    /\ h \in [D -> D] /\ f \in [D -> D]
    /\ \A d \in D : s[d] = p_[l[d]] /\ b[d] = l[p_[d]]
    /\ \A d \in D : f[d] = h[h[d]]
    /\ \A d \in D : h[p_[d]] = p_[h[d]]

Rewrites(p_, l, s, b, h, f, y) ==
    /\ f[s[y]] = p_[h[h[l[y]]]]
    /\ f[s[p_[h[y]]]] = p_[h[h[b[h[y]]]]]
    /\ h[l[p_[h[y]]]] = h[b[h[y]]]

LEMMA LayerStep ==
    ASSUME NEW D, NEW p_, NEW l, NEW s, NEW b, NEW h, NEW f,
           Rules(D, p_, l, s, b, h, f), NEW y \in D
    PROVE  Rewrites(p_, l, s, b, h, f, y)
<1> USE DEF Rules
<1>1. ASSUME NEW d \in D PROVE f[p_[d]] = p_[h[h[d]]]
  OBVIOUS
<1>2. ASSUME NEW d \in D PROVE f[s[d]] = p_[h[h[l[d]]]]
  <2>1. l[d] \in D /\ s[d] = p_[l[d]]
    OBVIOUS
  <2>. QED  BY <1>1, <2>1
<1>3. h[y] \in D /\ p_[h[y]] \in D
  OBVIOUS
<1>4. f[s[p_[h[y]]]] = p_[h[h[l[p_[h[y]]]]]]
  BY <1>2, <1>3
<1>5. b[h[y]] = l[p_[h[y]]]
  BY <1>3
<1>. QED  BY <1>2, <1>4, <1>5 DEF Rewrites

LEMMA NextLayer ==
    ASSUME NEW D, NEW A, NEW G, Machine(G, D, A),
           NEW P_ \in Seq(A), NEW L \in Seq(A), NEW S \in Seq(A), NEW B \in Seq(A),
           NEW half \in Seq(A), NEW full \in Seq(A), NEW m \in Nat,
           Layer(G, D, P_, L, S, B), Halves(G, D, half, full), Commute(G, D, P_, half)
    PROVE  Layer(G, D, half \o P_, Repeat(m, S \o full) \o (L \o half),
                 Repeat(m, S \o full) \o (S \o full), Repeat(m + 1, half \o B \o half))
<1> DEFINE a(w) == Act(G, D, w)
           W == S \o full
           V == half \o B \o half
           Q == half \o P_
           M == L \o half
           R == Repeat(m, W)
<1>0. /\ W \in Seq(A) /\ V \in Seq(A) /\ half \o B \in Seq(A) /\ Q \in Seq(A) /\ M \in Seq(A)
  OBVIOUS
<1>1. /\ a(P_) \in [D -> D] /\ a(L) \in [D -> D] /\ a(S) \in [D -> D] /\ a(B) \in [D -> D]
      /\ a(half) \in [D -> D] /\ a(full) \in [D -> D]
  BY ActOf
<1>2. ASSUME NEW d \in D
      PROVE  /\ a(W)[d] = a(full)[a(S)[d]] /\ a(V)[d] = a(half)[a(B)[a(half)[d]]]
             /\ a(Q)[d] = a(P_)[a(half)[d]] /\ a(M)[d] = a(half)[a(L)[d]]
  <2>1. a(W)[d] = a(full)[a(S)[d]] /\ a(Q)[d] = a(P_)[a(half)[d]] /\ a(M)[d] = a(half)[a(L)[d]]
    BY ActOfConcat
  <2>2. a(half \o B)[d] = a(B)[a(half)[d]]
    BY ActOfConcat
  <2> DEFINE X == half \o B
  <2>3. X \in Seq(A) /\ V = X \o half
    BY <1>0
  <2> HIDE DEF X, V
  <2>4. a(X \o half)[d] = a(half)[a(X)[d]]
    BY <2>3, ActOfConcat
  <2>. QED  BY <2>1, <2>2, <2>3, <2>4 DEF X
<1>3. ASSUME NEW y \in D
      PROVE  /\ a(W)[y] = a(Q)[a(M)[y]]
             /\ a(W)[a(Q)[y]] = a(Q)[a(V)[y]]
             /\ a(M)[a(Q)[y]] = a(V)[y]
  <2> DEFINE p_ == a(P_)
             l == a(L)
             s == a(S)
             b == a(B)
             h == a(half)
             f == a(full)
  <2>1. /\ p_ \in [D -> D] /\ l \in [D -> D] /\ s \in [D -> D] /\ b \in [D -> D]
        /\ h \in [D -> D] /\ f \in [D -> D]
    BY <1>1
  <2>2. /\ \A d \in D : s[d] = p_[l[d]] /\ b[d] = l[p_[d]]
        /\ \A d \in D : f[d] = h[h[d]]
        /\ \A d \in D : h[p_[d]] = p_[h[d]]
    BY DEF Layer, Halves, Commute
  <2>3. \A d \in D : /\ a(W)[d] = f[s[d]] /\ a(V)[d] = h[b[h[d]]]
                     /\ a(Q)[d] = p_[h[d]] /\ a(M)[d] = h[l[d]]
    BY <1>2
  <2> HIDE DEF a, p_, l, s, b, h, f
  <2>0. Rules(D, p_, l, s, b, h, f)
    BY <2>1, <2>2 DEF Rules
  <2>a. Rewrites(p_, l, s, b, h, f, y)
    BY <2>0, LayerStep
  <2>4. /\ f[s[y]] = p_[h[h[l[y]]]]
        /\ f[s[p_[h[y]]]] = p_[h[h[b[h[y]]]]]
        /\ h[l[p_[h[y]]]] = h[b[h[y]]]
    BY <2>a DEF Rewrites
  <2>5. h[l[y]] \in D /\ p_[h[y]] \in D /\ h[b[h[y]]] \in D
    BY <2>1
  <2>. QED  BY <2>3, <2>4, <2>5
<1>4. /\ a(W) \in [D -> D] /\ a(V) \in [D -> D] /\ a(Q) \in [D -> D] /\ a(M) \in [D -> D]
  BY <1>0, ActOf
<1> HIDE DEF W, V, Q, M
<1> DEFINE K == {k \in Nat : \A d \in D : a(Repeat(k, W))[a(Q)[d]] = a(Q)[a(Repeat(k, V))[d]]}
<1>5. ASSUME NEW k \in Nat
      PROVE  /\ Repeat(k, W) \in Seq(A) /\ Repeat(k, V) \in Seq(A)
             /\ a(Repeat(k, W)) \in [D -> D] /\ a(Repeat(k, V)) \in [D -> D]
             /\ \A d \in D : /\ a(Repeat(0, W))[d] = d /\ a(Repeat(0, V))[d] = d
                             /\ a(Repeat(k + 1, W))[d] = a(W)[a(Repeat(k, W))[d]]
                             /\ a(Repeat(k + 1, V))[d] = a(V)[a(Repeat(k, V))[d]]
  <2>1. Repeat(k, W) \in Seq(A) /\ Repeat(k, V) \in Seq(A)
        /\ Repeated(G, D, k, W) /\ Repeated(G, D, k, V)
    BY <1>0, ActOfRepeat
  <2>2. a(Repeat(k, W)) \in [D -> D] /\ a(Repeat(k, V)) \in [D -> D]
    BY <2>1, ActOf
  <2>. QED  BY <2>1, <2>2 DEF Repeated
<1> HIDE DEF a
<1>6. 0 \in K
  <2>1. 0 \in Nat
    OBVIOUS
  <2>2. ASSUME NEW d \in D PROVE a(Repeat(0, W))[a(Q)[d]] = a(Q)[a(Repeat(0, V))[d]]
    BY <1>4, <1>5, <2>1
  <2>. QED  BY <2>1, <2>2
<1>7. ASSUME NEW k \in Nat, k \in K PROVE k + 1 \in K
  <2>1. ASSUME NEW d \in D
        PROVE  a(Repeat(k + 1, W))[a(Q)[d]] = a(Q)[a(Repeat(k + 1, V))[d]]
    <3> DEFINE y == a(Repeat(k, V))[d]
    <3>1. y \in D /\ a(Q)[d] \in D
      BY <1>4, <1>5
    <3>2. a(Repeat(k, W))[a(Q)[d]] = a(Q)[y]
      BY <1>7
    <3> DEFINE x == a(Q)[d]
    <3>3. \A c \in D : a(Repeat(k + 1, W))[c] = a(W)[a(Repeat(k, W))[c]]
      BY <1>5
    <3>4. a(Repeat(k + 1, V))[d] = a(V)[y]
      BY <1>5
    <3> HIDE DEF x
    <3>5. a(Repeat(k + 1, W))[x] = a(W)[a(Repeat(k, W))[x]]
      BY <3>1, <3>3 DEF x
    <3>6. a(Repeat(k + 1, W))[a(Q)[d]] = a(W)[a(Q)[y]]
      BY <3>2, <3>5 DEF x
    <3> HIDE DEF y
    <3>. QED  BY <1>3, <3>1, <3>6, <3>4
  <2>2. k + 1 \in Nat
    OBVIOUS
  <2>. QED  BY <2>1, <2>2
<1> HIDE DEF K
<1>8. m \in K
  BY <1>6, <1>7, Induction
<1>9. ASSUME NEW d \in D
      PROVE  /\ a(R \o W)[d] = a(Q)[a(R \o M)[d]]
             /\ a(Repeat(m + 1, V))[d] = a(R \o M)[a(Q)[d]]
  <2> DEFINE r == a(R)
  <2>1. R \in Seq(A) /\ r \in [D -> D]
    BY <1>5
  <2> HIDE DEF R
  <2>2. \A x \in D : a(R \o W)[x] = a(W)[r[x]] /\ a(R \o M)[x] = a(M)[r[x]]
    BY <1>0, <2>1, ActOfConcat DEF a
  <2>3. a(W)[r[d]] = a(Q)[a(M)[r[d]]]
    <3>1. r[d] \in D
      BY <2>1
    <3> HIDE DEF r
    <3>. QED  BY <1>3, <3>1
  <2> DEFINE y == a(Repeat(m, V))[d]
  <2>4. y \in D /\ a(Q)[d] \in D
    BY <1>4, <1>5
  <2>5. r[a(Q)[d]] = a(Q)[y]
    BY <1>8 DEF K, R
  <2>6. a(Repeat(m + 1, V))[d] = a(V)[y]
    BY <1>5
  <2> HIDE DEF y
  <2>7. a(M)[a(Q)[y]] = a(V)[y]
    BY <1>3, <2>4
  <2>8. a(R \o M)[a(Q)[d]] = a(M)[r[a(Q)[d]]]
    BY <2>2, <2>4
  <2>. QED  BY <2>2, <2>3, <2>5, <2>6, <2>7, <2>8
<1>. QED  BY <1>9 DEF Layer, a, R, W, V, Q, M
------------------------------------------------------------------------------
(* Levels: the words of a timescale and of all below it *)

WordsOf(A) == [begin : Seq(A), last : Seq(A), next : Seq(A), all : Seq(A)]

Layered(G, D, w) == Layer(G, D, w.begin, w.last, w.next, w.all)

\* The gauge field.
BottomOf(U) == [begin |-> <<>>, last |-> U, next |-> U, all |-> U]

\* m + 1 steps of a timescale, those below it being w.
NextOf(w, half, full, m) ==
    [begin |-> half \o w.begin,
     last  |-> Repeat(m, w.next \o full) \o (w.last \o half),
     next  |-> Repeat(m, w.next \o full) \o (w.next \o full),
     all   |-> Repeat(m + 1, half \o w.all \o half)]

\* The 2MN integrator does what is below twice.
TwiceOf(w, mid) ==
    [begin |-> w.begin,
     last  |-> w.next \o mid \o w.last,
     next  |-> w.next \o mid \o w.next,
     all   |-> w.all \o mid \o w.all]

LEMMA WordFields ==
    ASSUME NEW A, NEW w \in WordsOf(A)
    PROVE  w.begin \in Seq(A) /\ w.last \in Seq(A) /\ w.next \in Seq(A) /\ w.all \in Seq(A)
  BY DEF WordsOf

LEMMA LevelTypes ==
    ASSUME NEW A, NEW w \in WordsOf(A), NEW half \in Seq(A), NEW full \in Seq(A),
           NEW mid \in Seq(A), NEW m \in Nat
    PROVE  NextOf(w, half, full, m) \in WordsOf(A) /\ TwiceOf(w, mid) \in WordsOf(A)
<1>1. w.begin \in Seq(A) /\ w.last \in Seq(A) /\ w.next \in Seq(A) /\ w.all \in Seq(A)
  BY WordFields
<1> DEFINE a == w.begin
           b == w.last
           c == w.next
           d == w.all
<1>2. TwiceOf(w, mid) \in WordsOf(A)
  <2> HIDE DEF a, b, c, d
  <2>1. a \in Seq(A) /\ b \in Seq(A) /\ c \in Seq(A) /\ d \in Seq(A)
    BY <1>1 DEF a, b, c, d
  <2>2. /\ c \o mid \o b \in Seq(A) /\ c \o mid \o c \in Seq(A) /\ d \o mid \o d \in Seq(A)
    BY <2>1
  <2>. QED  BY <2>1, <2>2 DEF a, b, c, d, TwiceOf, WordsOf
<1>3. NextOf(w, half, full, m) \in WordsOf(A)
  <2> HIDE DEF a, b, c, d
  <2>1. a \in Seq(A) /\ b \in Seq(A) /\ c \in Seq(A) /\ d \in Seq(A)
    BY <1>1 DEF a, b, c, d
  <2>2. /\ half \o a \in Seq(A) /\ b \o half \in Seq(A) /\ c \o full \in Seq(A)
        /\ half \o d \o half \in Seq(A)
    BY <2>1
  <2>3. Repeat(m, c \o full) \in Seq(A) /\ Repeat(m + 1, half \o d \o half) \in Seq(A)
    <3> DEFINE x == c \o full
               y == half \o d \o half
    <3>1. x \in Seq(A) /\ y \in Seq(A) /\ m + 1 \in Nat
      BY <2>2
    <3> HIDE DEF x, y
    <3>2. Repeat(m, x) \in Seq(A) /\ Repeat(m + 1, y) \in Seq(A)
      BY <3>1, RepeatIs
    <3>. QED  BY <3>2 DEF x, y
  <2>4. /\ Repeat(m, c \o full) \o (b \o half) \in Seq(A)
        /\ Repeat(m, c \o full) \o (c \o full) \in Seq(A)
    BY <2>2, <2>3
  <2>. QED  BY <2>2, <2>3, <2>4 DEF a, b, c, d, NextOf, WordsOf
<1>. QED  BY <1>2, <1>3

LEMMA BottomLayer ==
    ASSUME NEW D, NEW A, NEW G, Machine(G, D, A), NEW U \in Seq(A)
    PROVE  BottomOf(U) \in WordsOf(A) /\ Layered(G, D, BottomOf(U))
  BY Bottom DEF BottomOf, WordsOf, Layered

LEMMA LayerOfNext ==
    ASSUME NEW D, NEW A, NEW G, Machine(G, D, A), NEW w \in WordsOf(A),
           NEW half \in Seq(A), NEW full \in Seq(A), NEW m \in Nat,
           Layered(G, D, w), Halves(G, D, half, full), Commute(G, D, w.begin, half)
    PROVE  Layered(G, D, NextOf(w, half, full, m))
<1>1. w.begin \in Seq(A) /\ w.last \in Seq(A) /\ w.next \in Seq(A) /\ w.all \in Seq(A)
  BY WordFields
<1> DEFINE a == w.begin
           b == w.last
           c == w.next
           d == w.all
<1>2. /\ a \in Seq(A) /\ b \in Seq(A) /\ c \in Seq(A) /\ d \in Seq(A)
      /\ Layer(G, D, a, b, c, d) /\ Commute(G, D, a, half)
  BY <1>1 DEF Layered
<1> HIDE DEF a, b, c, d
<1>3. Layer(G, D, half \o a, Repeat(m, c \o full) \o (b \o half),
            Repeat(m, c \o full) \o (c \o full), Repeat(m + 1, half \o d \o half))
  BY <1>2, NextLayer
<1>. QED  BY <1>3 DEF Layered, NextOf, a, b, c, d

LEMMA TwiceStep ==
    ASSUME NEW D, NEW p_ \in [D -> D], NEW l \in [D -> D], NEW s \in [D -> D], NEW b \in [D -> D],
           NEW g \in [D -> D],
           \A d \in D : s[d] = p_[l[d]] /\ b[d] = l[p_[d]],
           \A d \in D : g[p_[d]] = p_[g[d]],
           NEW y \in D
    PROVE  /\ s[g[s[y]]] = p_[l[g[s[y]]]]
           /\ b[g[b[y]]] = l[g[s[p_[y]]]]
<1>1. s[y] \in D /\ g[s[y]] \in D
  OBVIOUS
<1>2. b[y] \in D /\ g[b[y]] \in D /\ p_[y] \in D /\ l[p_[y]] \in D
  OBVIOUS
<1>3. b[g[b[y]]] = l[p_[g[b[y]]]]
  BY <1>2
<1>4. p_[g[b[y]]] = g[p_[b[y]]]
  BY <1>2
<1>5. s[p_[y]] = p_[l[p_[y]]] /\ b[y] = l[p_[y]]
  BY <1>2
<1>. QED  BY <1>1, <1>3, <1>4, <1>5

LEMMA LayerOfTwice ==
    ASSUME NEW D, NEW A, NEW G, Machine(G, D, A), NEW w \in WordsOf(A), NEW mid \in Seq(A),
           Layered(G, D, w), Commute(G, D, w.begin, mid)
    PROVE  Layered(G, D, TwiceOf(w, mid))
<1>1. w.begin \in Seq(A) /\ w.last \in Seq(A) /\ w.next \in Seq(A) /\ w.all \in Seq(A)
  BY WordFields
<1> DEFINE a == w.begin
           b == w.last
           c == w.next
           e == w.all
<1>2. /\ a \in Seq(A) /\ b \in Seq(A) /\ c \in Seq(A) /\ e \in Seq(A)
      /\ Layer(G, D, a, b, c, e) /\ Commute(G, D, a, mid)
  BY <1>1 DEF Layered
<1> HIDE DEF a, b, c, e
<1> DEFINE pa == Act(G, D, a)
           pb == Act(G, D, b)
           pc_ == Act(G, D, c)
           pe == Act(G, D, e)
           pm == Act(G, D, mid)
<1>3. /\ pa \in [D -> D] /\ pb \in [D -> D] /\ pc_ \in [D -> D] /\ pe \in [D -> D]
      /\ pm \in [D -> D]
  BY <1>2, ActOf
<1>4. /\ \A d \in D : pc_[d] = pa[pb[d]] /\ pe[d] = pb[pa[d]]
      /\ \A d \in D : pm[pa[d]] = pa[pm[d]]
  BY <1>2 DEF Layer, Commute
<1>5. ASSUME NEW x \in Seq(A), NEW z \in Seq(A), NEW d \in D
      PROVE  Act(G, D, x \o mid \o z)[d] = Act(G, D, z)[pm[Act(G, D, x)[d]]]
  <2> DEFINE y == x \o mid
  <2>1. y \in Seq(A)
    OBVIOUS
  <2> HIDE DEF y
  <2>2. Act(G, D, y \o z)[d] = Act(G, D, z)[Act(G, D, y)[d]]
    BY <2>1, ActOfConcat
  <2>3. Act(G, D, y)[d] = pm[Act(G, D, x)[d]]
    BY ActOfConcat DEF y
  <2>. QED  BY <2>2, <2>3 DEF y
<1>6. ASSUME NEW d \in D
      PROVE  /\ Act(G, D, c \o mid \o c)[d] = pa[Act(G, D, c \o mid \o b)[d]]
             /\ Act(G, D, e \o mid \o e)[d] = Act(G, D, c \o mid \o b)[pa[d]]
  <2>1. pa[d] \in D
    BY <1>3
  <2>2. /\ Act(G, D, c \o mid \o c)[d] = pc_[pm[pc_[d]]]
        /\ Act(G, D, c \o mid \o b)[d] = pb[pm[pc_[d]]]
        /\ Act(G, D, e \o mid \o e)[d] = pe[pm[pe[d]]]
    BY <1>2, <1>5
  <2>3. Act(G, D, c \o mid \o b)[pa[d]] = pb[pm[pc_[pa[d]]]]
    <3> DEFINE x == pa[d]
    <3>1. x \in D
      BY <2>1
    <3> HIDE DEF x
    <3>2. Act(G, D, c \o mid \o b)[x] = pb[pm[pc_[x]]]
      BY <3>1, <1>2, <1>5
    <3>. QED  BY <3>2 DEF x
  <2> HIDE DEF pa, pb, pc_, pe, pm
  <2>4. /\ pc_[pm[pc_[d]]] = pa[pb[pm[pc_[d]]]]
        /\ pe[pm[pe[d]]] = pb[pm[pc_[pa[d]]]]
    BY <1>3, <1>4, TwiceStep
  <2>. QED  BY <2>2, <2>3, <2>4
<1>. QED  BY <1>6 DEF Layered, Layer, TwiceOf, a, b, c, e, pa
------------------------------------------------------------------------------
(* What the integrators amount to *)

Updating(C) == [forces : C \cup {{}}, eps : Int]

LEMMA Atoms ==
    ASSUME NEW C, NEW F \in C \cup {{}}, NEW x \in Int
    PROVE  Kick(F, x) \in Seq(Updating(C)) /\ md_update_gaugefield(x) \in Seq(Updating(C))
  BY DEF Kick, md_update_gaugefield, Updating

Grouped(w, x, y, z) == ((w \o x) \o y) \o z = w \o (x \o (y \o z))

LEMMA Grouping ==
    ASSUME NEW A, NEW w \in Seq(A), NEW x \in Seq(A), NEW y \in Seq(A), NEW z \in Seq(A)
    PROVE  Grouped(w, x, y, z)
<1> DEFINE v == y \o z
           u == w \o x
<1>1. v \in Seq(A) /\ u \in Seq(A)
  OBVIOUS
<1> HIDE DEF v, u
<1>2. Assoc(u, y, z) /\ Assoc(w, x, v)
  BY <1>1, Associative
<1>. QED  BY <1>2 DEF Grouped, Assoc, u, v

LEMMA Nothing ==
    ASSUME NEW A, NEW w \in Seq(A)
    PROVE  w \o <<>> = w /\ <<>> \o w = w
  BY ConcatEmptySeq

LEMMA Once ==
    ASSUME NEW A, NEW w \in Seq(A)
    PROVE  Repeat(1, w) = w
<1>1. Repeat(0, w) = <<>> /\ Repeat(0 + 1, w) = Repeat(0, w) \o w
  BY RepeatIs
<1>2. <<>> \o w = w
  BY Nothing
<1>. QED  BY <1>1, <1>2

LeapfrogOn(w, F, d, m) == NextOf(w, Kick(F, d \div 2), Kick(F, d), m - 1)
LeapfrogBelow(F, d, m) == LeapfrogOn(BottomOf(md_update_gaugefield(d)), F, d, m)

Word(w) == w.begin \o w.last

LEMMA LeapfrogTypes ==
    ASSUME NEW C, NEW F \in C, NEW d \in Int, NEW m \in Nat \ {0}
    PROVE  /\ \A w \in WordsOf(Updating(C)) : LeapfrogOn(w, F, d, m) \in WordsOf(Updating(C))
           /\ LeapfrogBelow(F, d, m) \in WordsOf(Updating(C))
           /\ Kick(F, d) \in Seq(Updating(C)) /\ Kick(F, d \div 2) \in Seq(Updating(C))
           /\ md_update_gaugefield(d) \in Seq(Updating(C))
<1> DEFINE A == Updating(C)
           U == md_update_gaugefield(d)
<1>1. Kick(F, d) \in Seq(A) /\ Kick(F, d \div 2) \in Seq(A) /\ U \in Seq(A) /\ m - 1 \in Nat
  BY Atoms
<1> HIDE DEF A
<1>2. BottomOf(U) \in WordsOf(A)
  <2> HIDE DEF U
  <2>. QED  BY <1>1 DEF BottomOf, WordsOf
<1>3. ASSUME NEW w \in WordsOf(A) PROVE LeapfrogOn(w, F, d, m) \in WordsOf(A)
  <2> DEFINE h == Kick(F, d \div 2)
             f == Kick(F, d)
             k == m - 1
  <2>1. h \in Seq(A) /\ f \in Seq(A) /\ k \in Nat
    BY <1>1
  <2> HIDE DEF h, f, k
  <2>2. NextOf(w, h, f, k) \in WordsOf(A)
    BY <2>1, LevelTypes
  <2>. QED  BY <2>2 DEF h, f, k, LeapfrogOn
<1>. QED  BY <1>1, <1>2, <1>3 DEF LeapfrogBelow, A, U

LEMMA Leapfrog1 ==
    ASSUME NEW q, n(q, 0) \in Nat \ {0}, getTau(q) \in Int
    PROVE  leapfrog_1ts(q)
             = Word(LeapfrogBelow(IF q.useGaugeOnly THEN {"gauge"} ELSE TotalForce,
                                  getTau(q) \div n(q, 0), n(q, 0)))
<1> DEFINE F == IF q.useGaugeOnly THEN {"gauge"} ELSE TotalForce
           j == n(q, 0)
           d == getTau(q) \div j
           A == Updating({F})
           U == md_update_gaugefield(d)
           h == Kick(F, d \div 2)
           f == Kick(F, d)
           R == Repeat(j - 1, U \o f)
<1>1. d \in Int /\ F \in {F} /\ j - 1 \in Nat
  OBVIOUS
<1>2. leapfrog_1ts(q) = ((h \o R) \o U) \o h
  BY DEF leapfrog_1ts, For, Repeat, md_update_gaugemomentum
<1> HIDE DEF F, j, d
<1>3. U \in Seq(A) /\ h \in Seq(A) /\ f \in Seq(A)
  BY <1>1, LeapfrogTypes, Atoms
<1>5. Word(LeapfrogBelow(F, d, j)) = (h \o <<>>) \o (R \o (U \o h))
  BY DEF Word, LeapfrogBelow, LeapfrogOn, NextOf, BottomOf
<1> HIDE DEF A, U, h, f
<1>4. R \in Seq(A)
  <2> DEFINE x == U \o f
             k == j - 1
  <2>1. x \in Seq(A) /\ k \in Nat
    BY <1>1, <1>3
  <2> HIDE DEF x, k
  <2>. QED  BY <2>1, RepeatIs DEF x, k
<1> HIDE DEF R
<1>6. h \o <<>> = h
  BY <1>3, Nothing
<1>7. Grouped(h, R, U, h)
  BY <1>3, <1>4, Grouping
<1>. QED  BY <1>2, <1>5, <1>6, <1>7 DEF Grouped, F, d, j

LEMMA LeapfrogScheme ==
    ASSUME NEW C, NEW F \in C, NEW d \in Int, NEW m \in Nat \ {0}
    PROVE  /\ LeapfrogBelow(F, d, m).all = Repeat(m, LeapfrogStep(F, d, 1, md_update_gaugefield))
           /\ \A w : LeapfrogOn(w, F, d, m).all
                       = Repeat(m, Kick(F, d \div 2) \o w.all \o Kick(F, d \div 2))
<1>1. (m - 1) + 1 = m /\ d \div 1 = d
  OBVIOUS
<1>2. \A w : LeapfrogOn(w, F, d, m).all
               = Repeat(m, Kick(F, d \div 2) \o w.all \o Kick(F, d \div 2))
  BY <1>1 DEF LeapfrogOn, NextOf
<1>3. Repeat(1, md_update_gaugefield(d)) = md_update_gaugefield(d)
  BY LeapfrogTypes, Once
<1>4. LeapfrogStep(F, d, 1, md_update_gaugefield)
        = Kick(F, d \div 2) \o md_update_gaugefield(d) \o Kick(F, d \div 2)
  BY <1>1, <1>3 DEF LeapfrogStep
<1> DEFINE w0 == BottomOf(md_update_gaugefield(d))
<1>5. w0.all = md_update_gaugefield(d)
  BY DEF BottomOf
<1> HIDE DEF w0
<1>6. LeapfrogOn(w0, F, d, m).all
        = Repeat(m, Kick(F, d \div 2) \o w0.all \o Kick(F, d \div 2))
  BY <1>2
<1>7. LeapfrogBelow(F, d, m) = LeapfrogOn(w0, F, d, m)
  BY DEF LeapfrogBelow, w0
<1>. QED  BY <1>2, <1>4, <1>5, <1>6, <1>7

Listed(f, j) == DOMAIN f = 1 .. j /\ f = [i \in DOMAIN f |-> f[i]]

LEMMA ListType ==
    ASSUME NEW A, NEW j \in Nat, NEW f, Listed(f, j), \A i \in 1 .. j : f[i] \in Seq(A)
    PROVE  f \in [1 .. j -> Seq(A)]
  BY DEF Listed

LEMMA FlattenType ==
    ASSUME NEW A, NEW j \in Nat, NEW f \in [1 .. j -> Seq(A)]
    PROVE  FlattenSeq(f) \in Seq(A)
<1>1. CASE j = 0
  <2>1. f = <<>>
    BY <1>1
  <2>2. Len(f) = 0 /\ <<>> \in Seq(A)
    BY <2>1
  <2>3. FlattenSeq(f) = f
    BY <2>2 DEF FlattenSeq
  <2>. QED  BY <2>1, <2>2, <2>3
<1>2. CASE j # 0
  <2> DEFINE m == j - 1
  <2>1. m \in Nat /\ f \in [1 .. m + 1 -> Seq(A)]
    BY <1>2
  <2> HIDE DEF m
  <2>. QED  BY <2>1, FlattenStep
<1>. QED  BY <1>1, <1>2

\* A group of steps, the last of which is different where the trajectory ends.
Group(f, j, A, w, half, full, ends) ==
    /\ Listed(f, j)
    /\ \A i \in 1 .. j : f[i] = IF i = j /\ ends THEN w.last \o half ELSE w.next \o full

GroupIs(f, j, w, half, full, ends) ==
    FlattenSeq(f) = IF ends THEN NextOf(w, half, full, j - 1).last
                            ELSE NextOf(w, half, full, j - 1).next

LEMMA GroupOfSteps ==
    ASSUME NEW A, NEW w \in WordsOf(A), NEW half \in Seq(A), NEW full \in Seq(A),
           NEW j \in Nat \ {0}, NEW ends \in BOOLEAN, NEW f, Group(f, j, A, w, half, full, ends)
    PROVE  GroupIs(f, j, w, half, full, ends)
<1> DEFINE S == w.next \o full
           E == IF ends THEN w.last \o half ELSE S
           k == j - 1
<1>1. S \in Seq(A) /\ k \in Nat /\ k + 1 = j
  BY WordFields
<1>4. w.last \o half \in Seq(A)
  BY WordFields
<1>5. \A i \in 1 .. j : f[i] \in Seq(A)
  BY <1>1, <1>4 DEF Group
<1>6. f \in [1 .. j -> Seq(A)]
  BY <1>5, ListType DEF Group
<1>2. Loop(f, k, A, S, E)
  BY <1>1, <1>6 DEF Group, Loop
<1> HIDE DEF S, E
<1>3. Unrolled(f, k, S, E)
  BY <1>1, <1>2, LastPass
<1>. QED  BY <1>3 DEF Unrolled, GroupIs, NextOf, S, E

\* The same with something before the first step.
BegunGroup(g, j, A, w, half, full, ends, B) ==
    /\ Listed(g, j)
    /\ \A i \in 1 .. j :
          g[i] = (IF i = 1 THEN B ELSE <<>>)
                 \o (IF i = j /\ ends THEN w.last \o half ELSE w.next \o full)

BegunGroupIs(g, j, w, half, full, ends, B) ==
    FlattenSeq(g) = B \o (IF ends THEN NextOf(w, half, full, j - 1).last
                                        ELSE NextOf(w, half, full, j - 1).next)

LEMMA GroupBegins ==
    ASSUME NEW A, NEW w \in WordsOf(A), NEW half \in Seq(A), NEW full \in Seq(A),
           NEW j \in Nat \ {0}, NEW ends \in BOOLEAN, NEW B \in Seq(A), NEW g,
           BegunGroup(g, j, A, w, half, full, ends, B)
    PROVE  BegunGroupIs(g, j, w, half, full, ends, B)
<1> DEFINE step(i) == IF i = j /\ ends THEN w.last \o half ELSE w.next \o full
           f == [i \in 1 .. j |-> step(i)]
<1>1. w.last \o half \in Seq(A) /\ w.next \o full \in Seq(A)
  BY WordFields
<1>2. Group(f, j, A, w, half, full, ends)
  BY DEF Group, Listed
<1>3. GroupIs(f, j, w, half, full, ends)
  <2> HIDE DEF f
  <2>. QED  BY <1>2, GroupOfSteps
<1>4. Beginning(g, f, j, A, B)
  <2>1. \A i \in 1 .. j : step(i) \in Seq(A) /\ <<>> \o step(i) = step(i)
    <3> HIDE DEF step
    <3>1. \A i \in 1 .. j : step(i) \in Seq(A)
      BY <1>1 DEF step
    <3>. QED  BY <3>1, Nothing
  <2>2. 1 \in 1 .. j
    OBVIOUS
  <2>3. \A i \in 1 .. j : f[i] = step(i)
    OBVIOUS
  <2>4. \A i \in 1 .. j : g[i] = (IF i = 1 THEN B ELSE <<>>) \o step(i)
    BY DEF BegunGroup
  <2> HIDE DEF step
  <2>5. f \in [1 .. j -> Seq(A)]
    BY <2>1
  <2> HIDE DEF f
  <2>8. \A i \in 1 .. j : g[i] \in Seq(A)
    <3>1. TAKE i \in 1 .. j
    <3>2. CASE i = 1
      <4>1. step(i) \in Seq(A) /\ g[i] = B \o step(i)
        BY <2>1, <2>4, <3>2
      <4>. QED  BY <4>1
    <3>3. CASE i # 1
      BY <2>1, <2>4, <3>3
    <3>. QED  BY <3>2, <3>3
  <2>9. g \in [1 .. j -> Seq(A)]
    BY <2>8, ListType DEF BegunGroup
  <2>6. g[1] = B \o f[1]
    BY <2>2, <2>3, <2>4
  <2>7. \A i \in 1 .. j : i # 1 => g[i] = f[i]
    BY <2>1, <2>3, <2>4
  <2>. QED  BY <2>5, <2>6, <2>7, <2>9 DEF Beginning
<1> HIDE DEF f
<1>5. FlattenSeq(g) = B \o FlattenSeq(f)
  BY <1>1, <1>4, FirstPass
<1>. QED  BY <1>3, <1>5 DEF GroupIs, BegunGroupIs

\* All groups after the first, each with the kick of the slower timescale before it.
Groups(f, j, A, w, T) ==
    /\ Listed(f, j)
    /\ \A i \in 1 .. j : f[i] = T \o (IF i = j THEN w.last ELSE w.next)

GroupsAre(f, j, w, T) ==
    (IF j = 0 THEN w.last ELSE w.next) \o FlattenSeq(f) = Repeat(j, w.next \o T) \o w.last

LEMMA GroupsOfSteps ==
    ASSUME NEW A, NEW w \in WordsOf(A), NEW T \in Seq(A), NEW j \in Nat, NEW f,
           Groups(f, j, A, w, T)
    PROVE  GroupsAre(f, j, w, T) /\ FlattenSeq(f) \in Seq(A)
<1> DEFINE S == w.next
           L == w.last
<1>1. S \in Seq(A) /\ L \in Seq(A)
  BY WordFields
<1>4. T \o S \in Seq(A) /\ T \o L \in Seq(A)
  BY <1>1
<1>5. \A i \in 1 .. j : f[i] = IF i = j THEN T \o L ELSE T \o S
  BY DEF Groups
<1>6. \A i \in 1 .. j : f[i] \in Seq(A)
  BY <1>4, <1>5
<1>7. f \in [1 .. j -> Seq(A)]
  BY <1>6, ListType DEF Groups
<1>2. Passing(f, j, A, S, L, T)
  BY <1>5, <1>7 DEF Passing
<1>8. FlattenSeq(f) \in Seq(A)
  BY <1>7, FlattenType
<1> HIDE DEF S, L
<1>3. AllPasses(f, j, S, L, T)
  BY <1>1, <1>2, Passes
<1>. QED  BY <1>3, <1>8 DEF AllPasses, GroupsAre, S, L

\* From the groups to the trajectory.
Assembled(w, half, full, j, f) ==
    ((half \o (w.begin \o (IF j = 0 THEN w.last ELSE w.next))) \o FlattenSeq(f)) \o half
      = Word(NextOf(w, half, full, j))

LEMMA Trajectory ==
    ASSUME NEW A, NEW w \in WordsOf(A), NEW half \in Seq(A), NEW full \in Seq(A),
           NEW j \in Nat, NEW f, Groups(f, j, A, w, full)
    PROVE  Assembled(w, half, full, j, f)
<1> DEFINE E == IF j = 0 THEN w.last ELSE w.next
           B == w.begin
           L == w.last
           C == w.next \o full
           R == Repeat(j, C)
           X == FlattenSeq(f)
           H == half \o B
           RL == R \o L
           Y == B \o E
           HE == H \o E
<1>1. /\ B \in Seq(A) /\ L \in Seq(A) /\ E \in Seq(A) /\ H \in Seq(A) /\ C \in Seq(A)
      /\ X \in Seq(A)
  BY WordFields, GroupsOfSteps
<1>2. Word(NextOf(w, half, full, j)) = H \o (R \o (L \o half))
  BY DEF Word, NextOf
<1>11. GroupsAre(f, j, w, full)
  BY GroupsOfSteps
<1>3. E \o X = RL
  BY <1>11 DEF GroupsAre
<1>9. ((half \o Y) \o X) \o half = Word(NextOf(w, half, full, j)) => Assembled(w, half, full, j, f)
  BY DEF Assembled
<1>10. HE = (half \o B) \o E
  OBVIOUS
<1> HIDE DEF E, B, L, C, X
<1>4. R \in Seq(A)
  BY <1>1, RepeatIs
<1>5. Assoc(half, B, E)
  BY <1>1, Associative
<1> HIDE DEF R
<1>6. half \o Y = HE
  BY <1>5 DEF Assoc
<1> HIDE DEF H
<1>7. Assoc(H, E, X) /\ Assoc(H, RL, half) /\ Assoc(R, L, half)
  <2>1. RL \in Seq(A)
    BY <1>1, <1>4
  <2> HIDE DEF RL
  <2>. QED  BY <1>1, <1>4, <2>1, Associative
<1>8. (HE \o X) \o half = H \o (R \o (L \o half))
  <2>1. HE \o X = H \o (E \o X)
    BY <1>7 DEF Assoc
  <2>2. (H \o RL) \o half = H \o (RL \o half)
    BY <1>7 DEF Assoc
  <2>3. RL \o half = R \o (L \o half)
    BY <1>7 DEF Assoc
  <2>. QED  BY <1>3, <2>1, <2>2, <2>3
<1> HIDE DEF HE, RL, Y
<1>. QED  BY <1>2, <1>6, <1>8, <1>9

Leapfrog2Words(q, d1, d0) ==
    LeapfrogOn(LeapfrogBelow({"gauge"}, d0, n(q, 0)), {"det"}, d1, n(q, 1))

LEMMA Leapfrog2 ==
    ASSUME NEW q, n(q, 0) \in Nat \ {0}, n(q, 1) \in Nat \ {0}, getTau(q) \in Int
    PROVE  LET d1 == getTau(q) \div n(q, 1)
               d0 == d1 \div n(q, 0)
           IN leapfrog_2ts(q) = Word(Leapfrog2Words(q, d1, d0))
<1> DEFINE n0 == n(q, 0)
           n1 == n(q, 1)
           d1 == getTau(q) \div n1
           d0 == d1 \div n0
           A == Updating({{"gauge"}, {"det"}})
           U == md_update_gaugefield(d0)
           h0 == Kick({"gauge"}, d0 \div 2)
           f0 == Kick({"gauge"}, d0)
           h1 == Kick({"det"}, d1 \div 2)
           f1 == Kick({"det"}, d1)
           step(last) == U \o Kick({"gauge"}, IF last THEN d0 \div 2 ELSE d0)
           g == [i \in 1 .. n0 - 0 |->
                    (IF 0 + i - 1 = 0 THEN h0 ELSE <<>>) \o step(0 + i - 1 = n0 - 1 /\ n1 = 1)]
           b(k) == [i \in 1 .. n0 - 0 |-> step(0 + i - 1 = n0 - 1 /\ 1 + k - 1 = n1 - 1)]
           f == [k \in 1 .. n1 - 1 |-> f1 \o FlattenSeq(b(k))]
           w0 == BottomOf(U)
           w1 == LeapfrogBelow({"gauge"}, d0, n0)
<1>1. d1 \in Int /\ d0 \in Int /\ n0 \in Nat \ {0} /\ n1 \in Nat \ {0} /\ n1 - 1 \in Nat
  OBVIOUS
<1>2. leapfrog_2ts(q) = ((h1 \o FlattenSeq(g)) \o FlattenSeq(f)) \o h1
  BY DEF leapfrog_2ts, For, md_update_gaugemomentum_fermion, md_update_gaugemomentum_gauge
<1> HIDE DEF n0, n1, d1, d0
<1>3. /\ U \in Seq(A) /\ h0 \in Seq(A) /\ f0 \in Seq(A) /\ h1 \in Seq(A) /\ f1 \in Seq(A)
      /\ w1 \in WordsOf(A)
  BY <1>1, LeapfrogTypes
<1>4. w0 \in WordsOf(A) /\ w0.last = U /\ w0.next = U
  <2> HIDE DEF U
  <2>. QED  BY <1>3 DEF BottomOf, WordsOf
<1>5. w1 = NextOf(w0, h0, f0, n0 - 1) /\ w1.begin = h0
  <2>1. h0 \o <<>> = h0
    BY <1>3, Nothing
  <2>. QED  BY <2>1 DEF LeapfrogBelow, LeapfrogOn, NextOf, BottomOf
<1>6. \A last \in BOOLEAN : step(last) = IF last THEN w0.last \o h0 ELSE w0.next \o f0
  BY <1>4
<1>7. LeapfrogOn(w1, {"det"}, d1, n1) = NextOf(w1, h1, f1, n1 - 1)
  BY DEF LeapfrogOn
<1> HIDE DEF U, h0, f0, h1, f1, w1, w0, A
<1>8. FlattenSeq(g) = w1.begin \o (IF n1 - 1 = 0 THEN w1.last ELSE w1.next)
  <2> DEFINE ends == n1 = 1
  <2>1. BegunGroup(g, n0, A, w0, h0, f0, ends, h0)
    <3>1. 1 .. n0 - 0 = 1 .. n0
      BY <1>1
    <3>2. \A i \in 1 .. n0 : /\ 0 + i - 1 = 0 <=> i = 1
                             /\ (0 + i - 1 = n0 - 1 /\ n1 = 1) <=> (i = n0 /\ ends)
      BY <1>1
    <3> DEFINE e(i) == 0 + i - 1 = n0 - 1 /\ n1 = 1
    <3>4. \A i \in 1 .. n0 : step(e(i)) = IF i = n0 /\ ends THEN w0.last \o h0 ELSE w0.next \o f0
      BY <1>6, <3>2
    <3>5. \A i \in 1 .. n0 :
             g[i] = (IF i = 1 THEN h0 ELSE <<>>)
                    \o (IF i = n0 /\ ends THEN w0.last \o h0 ELSE w0.next \o f0)
      BY <3>1, <3>2, <3>4
    <3>6. Listed(g, n0)
      BY <3>1 DEF Listed
    <3>. QED  BY <3>5, <3>6 DEF BegunGroup
  <2>2. ends \in BOOLEAN
    OBVIOUS
  <2> HIDE DEF g
  <2>3. BegunGroupIs(g, n0, w0, h0, f0, ends, h0)
    <3> HIDE DEF ends
    <3>. QED  BY <1>1, <1>3, <1>4, <2>1, <2>2, GroupBegins
  <2>4. FlattenSeq(g) = h0 \o (IF ends THEN NextOf(w0, h0, f0, n0 - 1).last
                                ELSE NextOf(w0, h0, f0, n0 - 1).next)
    BY <2>3 DEF BegunGroupIs
  <2>5. ends <=> n1 - 1 = 0
    BY <1>1
  <2> HIDE DEF ends
  <2>. QED  BY <1>5, <2>4, <2>5
<1>9. Groups(f, n1 - 1, A, w1, f1)
  <2>1. ASSUME NEW k \in 1 .. n1 - 1
        PROVE  FlattenSeq(b(k)) = IF k = n1 - 1 THEN w1.last ELSE w1.next
    <3> DEFINE ends == k = n1 - 1
               c == b(k)
    <3>1. 1 .. n0 - 0 = 1 .. n0
      BY <1>1
    <3>2. \A i \in 1 .. n0 : (0 + i - 1 = n0 - 1 /\ 1 + k - 1 = n1 - 1) <=> (i = n0 /\ ends)
      BY <1>1
    <3> DEFINE e(i) == 0 + i - 1 = n0 - 1 /\ 1 + k - 1 = n1 - 1
    <3>4. \A i \in 1 .. n0 : step(e(i)) = IF i = n0 /\ ends THEN w0.last \o h0 ELSE w0.next \o f0
      BY <1>6, <3>2
    <3>5. \A i \in 1 .. n0 : c[i] = IF i = n0 /\ ends THEN w0.last \o h0 ELSE w0.next \o f0
      BY <3>1, <3>4
    <3>8. Listed(c, n0)
      BY <3>1 DEF Listed
    <3>9. ends \in BOOLEAN
      OBVIOUS
    <3> HIDE DEF c, ends, step
    <3>10. Group(c, n0, A, w0, h0, f0, ends)
      BY <3>5, <3>8 DEF Group
    <3>11. GroupIs(c, n0, w0, h0, f0, ends)
      BY <1>1, <1>3, <1>4, <3>9, <3>10, GroupOfSteps
    <3>. QED  BY <1>5, <3>11 DEF GroupIs, c, ends
  <2> HIDE DEF b
  <2>3. \A k \in 1 .. n1 - 1 : f[k] = f1 \o (IF k = n1 - 1 THEN w1.last ELSE w1.next)
    BY <2>1
  <2>4. Listed(f, n1 - 1)
    BY DEF Listed
  <2>. QED  BY <2>3, <2>4 DEF Groups
<1> HIDE DEF f, g
<1>10. Assembled(w1, h1, f1, n1 - 1, f)
  <2> DEFINE j == n1 - 1
  <2>1. j \in Nat /\ Groups(f, j, A, w1, f1)
    BY <1>1, <1>9
  <2> HIDE DEF j
  <2>2. Assembled(w1, h1, f1, j, f)
    BY <1>3, <1>9, <2>1, Trajectory
  <2>. QED  BY <2>2 DEF j
<1>11. leapfrog_2ts(q) = Word(NextOf(w1, h1, f1, n1 - 1))
  BY <1>2, <1>8, <1>10 DEF Assembled
<1>. QED  BY <1>7, <1>11 DEF Leapfrog2Words, w1, n0, n1, d0, d1

Leapfrog3Words(q, d2, d1, d0) ==
    LeapfrogOn(LeapfrogOn(LeapfrogBelow({"gauge"}, d0, n(q, 0)), {"det_mp"}, d1, n(q, 1)),
               {"detratio"}, d2, n(q, 2))

LEMMA Leapfrog3 ==
    ASSUME NEW q, n(q, 0) \in Nat \ {0}, n(q, 1) \in Nat \ {0}, n(q, 2) \in Nat \ {0},
           getTau(q) \in Int
    PROVE  LET d2 == getTau(q) \div n(q, 2)
               d1 == d2 \div n(q, 1)
               d0 == d1 \div n(q, 0)
           IN leapfrog_3ts(q) = Word(Leapfrog3Words(q, d2, d1, d0))
<1> DEFINE n0 == n(q, 0)
           n1 == n(q, 1)
           n2 == n(q, 2)
           d2 == getTau(q) \div n2
           d1 == d2 \div n1
           d0 == d1 \div n0
           A == Updating({{"gauge"}, {"det_mp"}, {"detratio"}})
           U == md_update_gaugefield(d0)
           h0 == Kick({"gauge"}, d0 \div 2)
           f0 == Kick({"gauge"}, d0)
           h1 == Kick({"det_mp"}, d1 \div 2)
           f1 == Kick({"det_mp"}, d1)
           h2 == Kick({"detratio"}, d2 \div 2)
           f2 == Kick({"detratio"}, d2)
           step(last) == U \o Kick({"gauge"}, IF last THEN d0 \div 2 ELSE d0)
           fstep(last) == Kick({"det_mp"}, IF last THEN d1 \div 2 ELSE d1)
           a(l) == [i \in 1 .. n0 - 0 |->
                       (IF 0 + l - 1 = 0 /\ 0 + i - 1 = 0 THEN h0 ELSE <<>>)
                       \o step(0 + i - 1 = n0 - 1 /\ 0 + l - 1 = n1 - 1 /\ n2 = 1)]
           g == [l \in 1 .. n1 - 0 |->
                    (IF 0 + l - 1 = 0 THEN h1 ELSE <<>>) \o FlattenSeq(a(l))
                    \o fstep(0 + l - 1 = n1 - 1 /\ n2 = 1)]
           c(l, k) == [i \in 1 .. n0 - 0 |->
                          step(0 + i - 1 = n0 - 1 /\ 0 + l - 1 = n1 - 1 /\ 1 + k - 1 = n2 - 1)]
           b(k) == [l \in 1 .. n1 - 0 |->
                       FlattenSeq(c(l, k)) \o fstep(0 + l - 1 = n1 - 1 /\ 1 + k - 1 = n2 - 1)]
           f == [k \in 1 .. n2 - 1 |-> f2 \o FlattenSeq(b(k))]
           w0 == BottomOf(U)
           w1 == LeapfrogBelow({"gauge"}, d0, n0)
           w2 == LeapfrogOn(w1, {"det_mp"}, d1, n1)
<1>1. /\ d2 \in Int /\ d1 \in Int /\ d0 \in Int
      /\ n0 \in Nat \ {0} /\ n1 \in Nat \ {0} /\ n2 \in Nat \ {0} /\ n2 - 1 \in Nat
  OBVIOUS
<1>2. leapfrog_3ts(q) = ((h2 \o FlattenSeq(g)) \o FlattenSeq(f)) \o h2
  BY DEF leapfrog_3ts, For, md_update_gaugemomentum_fermion_mp, md_update_gaugemomentum_gauge,
         md_update_gaugemomentum_detratio
<1> HIDE DEF n0, n1, n2, d2, d1, d0
<1>3. /\ U \in Seq(A) /\ h0 \in Seq(A) /\ f0 \in Seq(A) /\ h1 \in Seq(A) /\ f1 \in Seq(A)
      /\ h2 \in Seq(A) /\ f2 \in Seq(A) /\ w1 \in WordsOf(A)
  BY <1>1, LeapfrogTypes
<1>4. w2 \in WordsOf(A)
  <2> HIDE DEF w1
  <2>. QED  BY <1>1, <1>3, LeapfrogTypes
<1>5. w0 \in WordsOf(A) /\ w0.last = U /\ w0.next = U
  <2> HIDE DEF U
  <2>. QED  BY <1>3 DEF BottomOf, WordsOf
<1>6. w1 = NextOf(w0, h0, f0, n0 - 1) /\ w1.begin = h0
  <2>1. h0 \o <<>> = h0
    BY <1>3, Nothing
  <2>. QED  BY <2>1 DEF LeapfrogBelow, LeapfrogOn, NextOf, BottomOf
<1>7. /\ w2 = NextOf(w1, h1, f1, n1 - 1) /\ w2.begin = h1 \o h0
      /\ LeapfrogOn(w2, {"detratio"}, d2, n2) = NextOf(w2, h2, f2, n2 - 1)
  <2> HIDE DEF w1, h1, h0, f1
  <2>1. w2 = NextOf(w1, h1, f1, n1 - 1)
    BY DEF LeapfrogOn, h1, f1
  <2>3. NextOf(w1, h1, f1, n1 - 1).begin = h1 \o w1.begin
    BY DEF NextOf
  <2>4. w1.begin = h0
    BY <1>6
  <2>2. w2.begin = h1 \o h0
    <3> HIDE DEF w2
    <3>. QED  BY <2>1, <2>3, <2>4
  <2>. QED  BY <2>1, <2>2 DEF LeapfrogOn
<1>8. /\ \A last \in BOOLEAN : step(last) = IF last THEN w0.last \o h0 ELSE w0.next \o f0
      /\ \A last \in BOOLEAN : fstep(last) = IF last THEN h1 ELSE f1
  BY <1>5
<1> HIDE DEF U, h0, f0, h1, f1, h2, f2, w2, w1, w0, A
<1>9. FlattenSeq(g) = w2.begin \o (IF n2 - 1 = 0 THEN w2.last ELSE w2.next)
  <2> DEFINE ends == n2 = 1
             B == h1 \o h0
  <2>1. ASSUME NEW l \in 1 .. n1
        PROVE  FlattenSeq(a(l)) = (IF l = 1 THEN h0 ELSE <<>>)
                                  \o (IF l = n1 /\ ends THEN w1.last ELSE w1.next)
    <3> DEFINE C == IF l = 1 THEN h0 ELSE <<>>
               here == l = n1 /\ ends
               e(i) == 0 + i - 1 = n0 - 1 /\ 0 + l - 1 = n1 - 1 /\ n2 = 1
               x == a(l)
    <3>1. 1 .. n0 - 0 = 1 .. n0
      BY <1>1
    <3>2. \A i \in 1 .. n0 : /\ (0 + l - 1 = 0 /\ 0 + i - 1 = 0) <=> (l = 1 /\ i = 1)
                             /\ e(i) <=> (i = n0 /\ here)
      BY <1>1
    <3>4. \A i \in 1 .. n0 : step(e(i)) = IF i = n0 /\ here THEN w0.last \o h0 ELSE w0.next \o f0
      BY <1>8, <3>2
    <3>5. \A i \in 1 .. n0 :
             x[i] = (IF i = 1 THEN C ELSE <<>>)
                    \o (IF i = n0 /\ here THEN w0.last \o h0 ELSE w0.next \o f0)
      BY <3>1, <3>2, <3>4
    <3>6. Listed(x, n0)
      BY <3>1 DEF Listed
    <3>7. here \in BOOLEAN /\ C \in Seq(A)
      BY <1>3
    <3> HIDE DEF x, here, step, C
    <3>8. BegunGroup(x, n0, A, w0, h0, f0, here, C)
      BY <3>5, <3>6 DEF BegunGroup
    <3>9. BegunGroupIs(x, n0, w0, h0, f0, here, C)
      BY <1>1, <1>3, <1>5, <3>7, <3>8, GroupBegins
    <3>. QED  BY <1>6, <3>9 DEF BegunGroupIs, x, here, C
  <2>2. ASSUME NEW l \in 1 .. n1
        PROVE  g[l] = (IF l = 1 THEN B ELSE <<>>)
                      \o (IF l = n1 /\ ends THEN w1.last \o h1 ELSE w1.next \o f1)
    <3> DEFINE E == IF l = n1 /\ ends THEN w1.last ELSE w1.next
               z == IF l = n1 /\ ends THEN h1 ELSE f1
    <3>1. /\ l \in 1 .. n1 - 0 /\ (0 + l - 1 = 0 <=> l = 1)
          /\ (0 + l - 1 = n1 - 1 /\ n2 = 1) <=> (l = n1 /\ ends)
      BY <1>1
    <3>2. g[l] = (IF l = 1 THEN h1 ELSE <<>>) \o FlattenSeq(a(l))
                 \o fstep(0 + l - 1 = n1 - 1 /\ n2 = 1)
      BY <3>1
    <3>3. fstep(0 + l - 1 = n1 - 1 /\ n2 = 1) = z
      BY <1>8, <3>1
    <3>4. g[l] = ((IF l = 1 THEN h1 ELSE <<>>) \o ((IF l = 1 THEN h0 ELSE <<>>) \o E)) \o z
      BY <2>1, <3>2, <3>3
    <3>5. E \in Seq(A) /\ z \in Seq(A)
      BY <1>3, WordFields
    <3>6. E \o z = IF l = n1 /\ ends THEN w1.last \o h1 ELSE w1.next \o f1
      OBVIOUS
    <3> HIDE DEF E, z, g, a, fstep
    <3>7. CASE l = 1
      <4> DEFINE hE == h0 \o E
                 Ez == E \o z
      <4>1. hE \in Seq(A) /\ Ez \in Seq(A)
        BY <1>3, <3>5
      <4>2. Assoc(h1, hE, z) /\ Assoc(h0, E, z) /\ Assoc(h1, h0, Ez)
        <5> HIDE DEF hE, Ez
        <5>. QED  BY <1>3, <3>5, <4>1, Associative
      <4>. QED  BY <3>4, <3>6, <3>7, <4>2 DEF Assoc
    <3>8. CASE l # 1
      <4>1. <<>> \o E = E /\ E \o z \in Seq(A)
        BY <3>5, Nothing
      <4>2. <<>> \o (E \o z) = E \o z
        <5> DEFINE Ez == E \o z
        <5>1. Ez \in Seq(A)
          BY <4>1
        <5> HIDE DEF Ez
        <5>2. <<>> \o Ez = Ez
          BY <5>1, Nothing
        <5>. QED  BY <5>2 DEF Ez
      <4>. QED  BY <3>4, <3>6, <3>8, <4>1, <4>2
    <3>. QED  BY <3>7, <3>8
  <2>3. Listed(g, n1)
    <3>1. 1 .. n1 - 0 = 1 .. n1
      BY <1>1
    <3>. QED  BY <3>1 DEF Listed
  <2>4. ends \in BOOLEAN /\ B \in Seq(A) /\ (ends <=> n2 - 1 = 0)
    BY <1>1, <1>3
  <2> HIDE DEF g, ends, B
  <2>5. BegunGroup(g, n1, A, w1, h1, f1, ends, B)
    BY <2>2, <2>3 DEF BegunGroup
  <2>6. BegunGroupIs(g, n1, w1, h1, f1, ends, B)
    BY <1>1, <1>3, <2>4, <2>5, GroupBegins
  <2>7. FlattenSeq(g) = B \o (IF ends THEN NextOf(w1, h1, f1, n1 - 1).last
                              ELSE NextOf(w1, h1, f1, n1 - 1).next)
    BY <2>6 DEF BegunGroupIs
  <2>. QED  BY <1>7, <2>4, <2>7 DEF B
<1>10. Groups(f, n2 - 1, A, w2, f2)
  <2>1. ASSUME NEW k \in 1 .. n2 - 1
        PROVE  FlattenSeq(b(k)) = IF k = n2 - 1 THEN w2.last ELSE w2.next
    <3> DEFINE ends == k = n2 - 1
               y == b(k)
    <3>1. ASSUME NEW l \in 1 .. n1
          PROVE  FlattenSeq(c(l, k)) = IF l = n1 /\ ends THEN w1.last ELSE w1.next
      <4> DEFINE here == l = n1 /\ ends
                 e(i) == 0 + i - 1 = n0 - 1 /\ 0 + l - 1 = n1 - 1 /\ 1 + k - 1 = n2 - 1
                 x == c(l, k)
      <4>1. 1 .. n0 - 0 = 1 .. n0
        BY <1>1
      <4>2. \A i \in 1 .. n0 : e(i) <=> (i = n0 /\ here)
        BY <1>1
      <4>4. \A i \in 1 .. n0 : step(e(i)) = IF i = n0 /\ here THEN w0.last \o h0
                                            ELSE w0.next \o f0
        BY <1>8, <4>2
      <4>5. \A i \in 1 .. n0 : x[i] = IF i = n0 /\ here THEN w0.last \o h0 ELSE w0.next \o f0
        BY <4>1, <4>4
      <4>6. Listed(x, n0)
        BY <4>1 DEF Listed
      <4>7. here \in BOOLEAN
        OBVIOUS
      <4> HIDE DEF x, here, step
      <4>8. Group(x, n0, A, w0, h0, f0, here)
        BY <4>5, <4>6 DEF Group
      <4>9. GroupIs(x, n0, w0, h0, f0, here)
        BY <1>1, <1>3, <1>5, <4>7, <4>8, GroupOfSteps
      <4>. QED  BY <1>6, <4>9 DEF GroupIs, x, here
    <3>2. ASSUME NEW l \in 1 .. n1
          PROVE  y[l] = IF l = n1 /\ ends THEN w1.last \o h1 ELSE w1.next \o f1
      <4>1. /\ l \in 1 .. n1 - 0
            /\ (0 + l - 1 = n1 - 1 /\ 1 + k - 1 = n2 - 1) <=> (l = n1 /\ ends)
        BY <1>1
      <4>2. y[l] = FlattenSeq(c(l, k)) \o fstep(0 + l - 1 = n1 - 1 /\ 1 + k - 1 = n2 - 1)
        BY <4>1
      <4>3. fstep(0 + l - 1 = n1 - 1 /\ 1 + k - 1 = n2 - 1) = IF l = n1 /\ ends THEN h1 ELSE f1
        BY <1>8, <4>1
      <4> HIDE DEF c, y, fstep
      <4>. QED  BY <3>1, <4>2, <4>3
    <3>3. Listed(y, n1)
      <4>1. 1 .. n1 - 0 = 1 .. n1
        BY <1>1
      <4>. QED  BY <4>1 DEF Listed
    <3>4. ends \in BOOLEAN
      OBVIOUS
    <3> HIDE DEF y, ends
    <3>5. Group(y, n1, A, w1, h1, f1, ends)
      BY <3>2, <3>3 DEF Group
    <3>6. GroupIs(y, n1, w1, h1, f1, ends)
      BY <1>1, <1>3, <3>4, <3>5, GroupOfSteps
    <3>. QED  BY <1>7, <3>6 DEF GroupIs, y, ends
  <2> HIDE DEF b
  <2>3. \A k \in 1 .. n2 - 1 : f[k] = f2 \o (IF k = n2 - 1 THEN w2.last ELSE w2.next)
    BY <2>1
  <2>4. Listed(f, n2 - 1)
    BY DEF Listed
  <2>. QED  BY <2>3, <2>4 DEF Groups
<1> HIDE DEF f, g
<1>11. Assembled(w2, h2, f2, n2 - 1, f)
  <2> DEFINE j == n2 - 1
  <2>1. j \in Nat /\ Groups(f, j, A, w2, f2)
    BY <1>1, <1>10
  <2> HIDE DEF j
  <2>2. Assembled(w2, h2, f2, j, f)
    BY <1>3, <1>4, <2>1, Trajectory
  <2>. QED  BY <2>2 DEF j
<1>12. leapfrog_3ts(q) = Word(NextOf(w2, h2, f2, n2 - 1))
  BY <1>2, <1>9, <1>11 DEF Assembled
<1>. QED  BY <1>7, <1>12 DEF Leapfrog3Words, w2, w1, n0, n1, n2, d0, d1, d2

Outer(i, d) == (d * Lambda[i]) \div LambdaUnit
TwomnTwice(w, F, i, d) == TwiceOf(w, Kick(F, d - 2 * Outer(i, d)))
TwomnOn(w, F, i, d, m) ==
    NextOf(TwomnTwice(w, F, i, d), Kick(F, Outer(i, d)), Kick(F, 2 * Outer(i, d)), m - 1)
TwomnBelow(F, i, d, m) == TwomnOn(BottomOf(md_update_gaugefield(d \div 2)), F, i, d, m)

Regrouped(x, s, m, e) == ((x \o s) \o m) \o e = x \o ((s \o m) \o e)

LEMMA Regrouping ==
    ASSUME NEW A, NEW x \in Seq(A), NEW s \in Seq(A), NEW m \in Seq(A), NEW e \in Seq(A)
    PROVE  Regrouped(x, s, m, e)
<1> DEFINE sm == s \o m
<1>1. sm \in Seq(A)
  OBVIOUS
<1> HIDE DEF sm
<1>2. Assoc(x, s, m) /\ Assoc(x, sm, e)
  BY <1>1, Associative
<1>. QED  BY <1>2 DEF Regrouped, Assoc, sm

LEMMA OuterInt ==
    ASSUME NEW i \in 1 .. 3, NEW d \in Int
    PROVE  Outer(i, d) \in Int /\ d - 2 * Outer(i, d) \in Int /\ 2 * Outer(i, d) \in Int
<1>1. Lambda[i] \in Int /\ LambdaUnit \in Nat /\ LambdaUnit > 0
  <2> DEFINE B == 1 .. LambdaUnit \div 2
  <2>1. LambdaUnit \in Nat /\ LambdaUnit > 0 /\ Lambda \in Seq(B) /\ Len(Lambda) = 3
    BY LambdaAssumption
  <2>2. B \subseteq Int
    BY <2>1
  <2> HIDE DEF B
  <2>3. Lambda[i] \in B
    BY <2>1
  <2>. QED  BY <2>1, <2>2, <2>3
<1> DEFINE x == d * Lambda[i]
<1>2. x \in Int
  BY <1>1
<1> HIDE DEF x
<1>3. x \div LambdaUnit \in Int
  BY <1>1, <1>2
<1>. QED  BY <1>3 DEF Outer, x

LEMMA TwomnTypes ==
    ASSUME NEW C, NEW F \in C, NEW i \in 1 .. 3, NEW d \in Int, NEW m \in Nat \ {0}
    PROVE  /\ \A w \in WordsOf(Updating(C)) : /\ TwomnTwice(w, F, i, d) \in WordsOf(Updating(C))
                                              /\ TwomnOn(w, F, i, d, m) \in WordsOf(Updating(C))
           /\ TwomnBelow(F, i, d, m) \in WordsOf(Updating(C))
           /\ Kick(F, Outer(i, d)) \in Seq(Updating(C))
           /\ Kick(F, 2 * Outer(i, d)) \in Seq(Updating(C))
           /\ Kick(F, d - 2 * Outer(i, d)) \in Seq(Updating(C))
           /\ md_update_gaugefield(d \div 2) \in Seq(Updating(C))
<1> DEFINE A == Updating(C)
           U == md_update_gaugefield(d \div 2)
           mid == Kick(F, d - 2 * Outer(i, d))
           h == Kick(F, Outer(i, d))
           f == Kick(F, 2 * Outer(i, d))
           k == m - 1
<1>1. mid \in Seq(A) /\ h \in Seq(A) /\ f \in Seq(A) /\ U \in Seq(A) /\ k \in Nat
  <2>1. d \div 2 \in Int
    OBVIOUS
  <2>2. Outer(i, d) \in Int /\ 2 * Outer(i, d) \in Int /\ d - 2 * Outer(i, d) \in Int
    BY OuterInt
  <2>4. F \in C \cup {{}} /\ m - 1 \in Nat
    OBVIOUS
  <2>3. /\ Kick(F, Outer(i, d)) \in Seq(Updating(C)) /\ Kick(F, 2 * Outer(i, d)) \in Seq(Updating(C))
        /\ Kick(F, d - 2 * Outer(i, d)) \in Seq(Updating(C))
        /\ md_update_gaugefield(d \div 2) \in Seq(Updating(C))
    BY <2>1, <2>2, <2>4, Atoms
  <2>. QED  BY <2>3, <2>4
<1>2. BottomOf(U) \in WordsOf(A)
  <2> HIDE DEF U, A
  <2>. QED  BY <1>1 DEF BottomOf, WordsOf
<1>3. ASSUME NEW w \in WordsOf(A)
      PROVE  TwomnTwice(w, F, i, d) \in WordsOf(A) /\ TwomnOn(w, F, i, d, m) \in WordsOf(A)
  <2> DEFINE v == TwiceOf(w, mid)
  <2> HIDE DEF mid, h, f, k, A
  <2>1. v \in WordsOf(A)
    BY <1>1, LevelTypes
  <2> HIDE DEF v
  <2>2. NextOf(v, h, f, k) \in WordsOf(A)
    BY <1>1, <2>1, LevelTypes
  <2>. QED  BY <2>1, <2>2 DEF mid, h, f, k, v, TwomnOn, TwomnTwice
<1>. QED  BY <1>1, <1>2, <1>3 DEF TwomnBelow

LEMMA Twomn1 ==
    ASSUME NEW q, n(q, 0) \in Nat \ {0}, getTau(q) \in Int
    PROVE  twomn_1ts(q)
             = Word(TwomnBelow(IF q.useGaugeOnly THEN {"gauge"} ELSE TotalForce, 1,
                               getTau(q) \div n(q, 0), n(q, 0)))
<1> DEFINE F == IF q.useGaugeOnly THEN {"gauge"} ELSE TotalForce
           j == n(q, 0)
           d == getTau(q) \div j
           A == Updating({F})
           U == md_update_gaugefield(d \div 2)
           mid == Kick(F, d - 2 * Outer(1, d))
           h == Kick(F, Outer(1, d))
           f == Kick(F, 2 * Outer(1, d))
           V == U \o mid \o U
           R == Repeat(j - 1, f \o V)
           S == Repeat(j - 1, V \o f)
<1>1. d \in Int /\ F \in {F} /\ j - 1 \in Nat /\ j \in Nat \ {0} /\ 1 \in 1 .. 3
  OBVIOUS
<1>2. twomn_1ts(q) = ((h \o V) \o R) \o h
  BY DEF twomn_1ts, For, Repeat, md_update_gaugemomentum, Outer, lambda
<1> HIDE DEF F, j, d
<1>3. U \in Seq(A) /\ h \in Seq(A) /\ f \in Seq(A) /\ mid \in Seq(A)
  BY <1>1, TwomnTypes
<1>4. V \in Seq(A)
  <2> HIDE DEF U, h, f, mid, A
  <2>. QED  BY <1>3
<1>5. Word(TwomnBelow(F, 1, d, j)) = (h \o <<>>) \o (S \o (V \o h))
  BY DEF Word, TwomnBelow, TwomnOn, TwomnTwice, NextOf, TwiceOf, BottomOf
<1> HIDE DEF A, U, h, f, V
<1>6. R \in Seq(A) /\ S \in Seq(A) /\ V \o R = S \o V
  <2> DEFINE x == f \o V
             y == V \o f
             k == j - 1
  <2>1. x \in Seq(A) /\ y \in Seq(A) /\ k \in Nat
    BY <1>1, <1>3, <1>4
  <2>2. V \o Repeat(k, x) = Repeat(k, y) \o V
    <3> HIDE DEF k
    <3>. QED  BY <1>3, <1>4, <2>1, Shift
  <2> HIDE DEF x, y, k
  <2>3. Repeat(k, x) \in Seq(A) /\ Repeat(k, y) \in Seq(A)
    BY <2>1, RepeatIs
  <2>. QED  BY <2>2, <2>3 DEF x, y, k
<1> HIDE DEF R, S
<1>7. h \o <<>> = h
  BY <1>3, Nothing
<1>8. Assoc(h, V, R) /\ Assoc(h, S, V)
  BY <1>3, <1>4, <1>6, Associative
<1>9. Grouped(h, S, V, h)
  BY <1>3, <1>4, <1>6, Grouping
<1>10. (h \o V) \o R = (h \o S) \o V
  BY <1>6, <1>8 DEF Assoc
<1>. QED  BY <1>2, <1>5, <1>7, <1>9, <1>10 DEF Grouped, F, d, j

LEMMA TwomnScheme ==
    ASSUME NEW C, NEW F \in C, NEW i \in 1 .. 3, NEW d \in Int, NEW m \in Nat \ {0}
    PROVE  /\ TwomnBelow(F, i, d, m).all = Repeat(m, TwomnStep(F, i, d, 1, md_update_gaugefield))
           /\ \A w \in WordsOf(Updating(C)) : TwomnOn(w, F, i, d, m).all
                = Repeat(m, Kick(F, Outer(i, d)) \o w.all \o Kick(F, d - 2 * Outer(i, d))
                            \o w.all \o Kick(F, Outer(i, d)))
<1> DEFINE A == Updating(C)
           U == md_update_gaugefield(d \div 2)
           mid == Kick(F, d - 2 * Outer(i, d))
           h == Kick(F, Outer(i, d))
<1>1. (m - 1) + 1 = m /\ d \div 2 \in Int /\ (d \div 2) \div 1 = d \div 2
  OBVIOUS
<1>2. mid \in Seq(A) /\ h \in Seq(A) /\ U \in Seq(A)
  BY TwomnTypes
<1>3. BottomOf(U) \in WordsOf(A) /\ BottomOf(U).all = U
  <2> HIDE DEF U, A
  <2>. QED  BY <1>2 DEF BottomOf, WordsOf
<1>4. ASSUME NEW w \in WordsOf(A)
      PROVE  TwomnOn(w, F, i, d, m).all = Repeat(m, h \o w.all \o mid \o w.all \o h)
  <2> DEFINE x == w.all
  <2>1. x \in Seq(A)
    BY WordFields
  <2>2. TwomnOn(w, F, i, d, m).all = Repeat(m, h \o (x \o mid \o x) \o h)
    BY <1>1 DEF TwomnOn, TwomnTwice, NextOf, TwiceOf
  <2> HIDE DEF x, h, mid, A
  <2>3. Regrouped(h, x, mid, x)
    BY <1>2, <2>1, Regrouping
  <2>. QED  BY <2>2, <2>3 DEF Regrouped, x
<1>5. Repeat(1, U) = U
  <2> HIDE DEF U, A
  <2>. QED  BY <1>2, Once
<1>6. TwomnStep(F, i, d, 1, md_update_gaugefield) = h \o U \o mid \o U \o h
  BY <1>1, <1>5 DEF TwomnStep, Outer
<1> DEFINE w0 == BottomOf(U)
<1>7. w0 \in WordsOf(A) /\ w0.all = U
  BY <1>3
<1>8. TwomnBelow(F, i, d, m) = TwomnOn(w0, F, i, d, m)
  BY DEF TwomnBelow
<1> HIDE DEF w0, U, A, h, mid
<1>9. TwomnBelow(F, i, d, m).all = Repeat(m, TwomnStep(F, i, d, 1, md_update_gaugefield))
  BY <1>4, <1>6, <1>7, <1>8
<1>. QED  BY <1>4, <1>9 DEF A, h, mid

Twomn2Words(q, d1, d0) ==
    TwomnOn(TwomnBelow({"gauge"}, 1, d0, n(q, 0)), {"det"}, 2, d1, n(q, 1))

LEMMA Twomn2 ==
    ASSUME NEW q, n(q, 0) \in Nat \ {0}, n(q, 1) \in Nat \ {0}, getTau(q) \in Int
    PROVE  LET d1 == getTau(q) \div n(q, 1)
               d0 == d1 \div (2 * n(q, 0))
           IN twomn_2ts(q) = Word(Twomn2Words(q, d1, d0))
<1> DEFINE n0 == n(q, 0)
           n1 == n(q, 1)
           d1 == getTau(q) \div n1
           d0 == d1 \div (2 * n0)
           A == Updating({{"gauge"}, {"det"}})
           U == md_update_gaugefield(d0 \div 2)
           m0 == Kick({"gauge"}, d0 - 2 * Outer(1, d0))
           h0 == Kick({"gauge"}, Outer(1, d0))
           f0 == Kick({"gauge"}, 2 * Outer(1, d0))
           m1 == Kick({"det"}, d1 - 2 * Outer(2, d1))
           h1 == Kick({"det"}, Outer(2, d1))
           f1 == Kick({"det"}, 2 * Outer(2, d1))
           step(last) == U \o m0 \o U
                         \o Kick({"gauge"}, IF last THEN Outer(1, d0) ELSE 2 * Outer(1, d0))
           G == [i \in 1 .. n0 - 0 |-> step(FALSE)]
           H == [i \in 1 .. n0 - 0 |-> step(0 + i - 1 = n0 - 1 /\ n1 = 1)]
           b(k) == [i \in 1 .. n0 - 0 |-> step(0 + i - 1 = n0 - 1 /\ 1 + k - 1 = n1 - 1)]
           f == [k \in 1 .. n1 - 1 |-> f1 \o FlattenSeq(G) \o m1 \o FlattenSeq(b(k))]
           w0 == TwomnTwice(BottomOf(U), {"gauge"}, 1, d0)
           w1 == TwomnBelow({"gauge"}, 1, d0, n0)
           v1 == TwomnTwice(w1, {"det"}, 2, d1)
<1>1. /\ d1 \in Int /\ d0 \in Int /\ n0 \in Nat \ {0} /\ n1 \in Nat \ {0} /\ n1 - 1 \in Nat
      /\ 1 \in 1 .. 3 /\ 2 \in 1 .. 3
  <2>1. d1 \in Int /\ n0 \in Nat \ {0} /\ n1 \in Nat \ {0}
    OBVIOUS
  <2>2. 2 * n0 \in Nat /\ 2 * n0 > 0
    OBVIOUS
  <2> HIDE DEF d1, n0, n1
  <2>. QED  BY <2>1, <2>2
<1>2. twomn_2ts(q) = ((((((h1 \o h0) \o FlattenSeq(G)) \o m1) \o FlattenSeq(H))
                       \o FlattenSeq(f)) \o h1)
  BY DEF twomn_2ts, twomn_gauge_steps, For, md_update_gaugemomentum_fermion,
         md_update_gaugemomentum_gauge, Outer, lambda
<1> HIDE DEF n0, n1, d1, d0
<1>3. /\ U \in Seq(A) /\ m0 \in Seq(A) /\ h0 \in Seq(A) /\ f0 \in Seq(A)
      /\ m1 \in Seq(A) /\ h1 \in Seq(A) /\ f1 \in Seq(A) /\ w1 \in WordsOf(A)
  BY <1>1, TwomnTypes
<1>4. w0 \in WordsOf(A) /\ v1 \in WordsOf(A)
  <2> DEFINE bottom == BottomOf(U)
  <2>1. bottom \in WordsOf(A)
    <3> HIDE DEF U, A
    <3>. QED  BY <1>3 DEF BottomOf, WordsOf
  <2> HIDE DEF bottom, w1
  <2>. QED  BY <1>1, <1>3, <2>1, TwomnTypes DEF bottom
<1>5. w0.last = U \o m0 \o U /\ w0.next = U \o m0 \o U /\ w0.begin = <<>>
  BY DEF BottomOf, TwiceOf, TwomnTwice
<1>6. w1 = NextOf(w0, h0, f0, n0 - 1) /\ w1.begin = h0
  <2>1. h0 \o <<>> = h0
    BY <1>3, Nothing
  <2>2. w1 = NextOf(w0, h0, f0, n0 - 1)
    BY DEF TwomnBelow, TwomnOn
  <2>3. NextOf(w0, h0, f0, n0 - 1).begin = h0 \o w0.begin
    <3> HIDE DEF w0, h0, f0
    <3>. QED  BY DEF NextOf
  <2> HIDE DEF w1, w0, h0
  <2>. QED  BY <1>5, <2>1, <2>2, <2>3
<1>7. /\ TwomnOn(w1, {"det"}, 2, d1, n1) = NextOf(v1, h1, f1, n1 - 1)
      /\ v1.last = w1.next \o m1 \o w1.last /\ v1.next = w1.next \o m1 \o w1.next
      /\ v1.begin = w1.begin
  <2> HIDE DEF w1
  <2>. QED  BY DEF TwomnOn, TwomnTwice, TwiceOf
<1>8. \A last \in BOOLEAN : step(last) = IF last THEN w0.last \o h0 ELSE w0.next \o f0
  BY <1>5
<1> HIDE DEF U, m0, h0, f0, m1, h1, f1, w1, w0, v1, A
<1>9. FlattenSeq(G) = w1.next
  <2> DEFINE ends == FALSE
  <2>1. 1 .. n0 - 0 = 1 .. n0
    BY <1>1
  <2>2. \A i \in 1 .. n0 : G[i] = IF i = n0 /\ ends THEN w0.last \o h0 ELSE w0.next \o f0
    BY <1>8, <2>1
  <2>3. Listed(G, n0)
    BY <2>1 DEF Listed
  <2>4. ends \in BOOLEAN
    OBVIOUS
  <2> HIDE DEF G, ends
  <2>5. Group(G, n0, A, w0, h0, f0, ends)
    BY <2>2, <2>3 DEF Group
  <2>6. GroupIs(G, n0, w0, h0, f0, ends)
    BY <1>1, <1>3, <1>4, <2>4, <2>5, GroupOfSteps
  <2>. QED  BY <1>6, <2>6 DEF GroupIs, ends
<1>10. FlattenSeq(H) = IF n1 - 1 = 0 THEN w1.last ELSE w1.next
  <2> DEFINE ends == n1 = 1
             e(i) == 0 + i - 1 = n0 - 1 /\ n1 = 1
  <2>1. 1 .. n0 - 0 = 1 .. n0
    BY <1>1
  <2>7. \A i \in 1 .. n0 : e(i) <=> (i = n0 /\ ends)
    BY <1>1
  <2>8. \A i \in 1 .. n0 : step(e(i)) = IF i = n0 /\ ends THEN w0.last \o h0 ELSE w0.next \o f0
    BY <1>8, <2>7
  <2>2. \A i \in 1 .. n0 : H[i] = IF i = n0 /\ ends THEN w0.last \o h0 ELSE w0.next \o f0
    BY <2>1, <2>8
  <2>3. Listed(H, n0)
    BY <2>1 DEF Listed
  <2>4. ends \in BOOLEAN /\ (ends <=> n1 - 1 = 0)
    BY <1>1
  <2> HIDE DEF H, ends
  <2>5. Group(H, n0, A, w0, h0, f0, ends)
    BY <2>2, <2>3 DEF Group
  <2>6. GroupIs(H, n0, w0, h0, f0, ends)
    BY <1>1, <1>3, <1>4, <2>4, <2>5, GroupOfSteps
  <2>. QED  BY <1>6, <2>4, <2>6 DEF GroupIs
<1>11. ASSUME NEW k \in 1 .. n1 - 1
       PROVE  FlattenSeq(b(k)) = IF k = n1 - 1 THEN w1.last ELSE w1.next
  <2> DEFINE ends == k = n1 - 1
             c == b(k)
             e(i) == 0 + i - 1 = n0 - 1 /\ 1 + k - 1 = n1 - 1
  <2>1. 1 .. n0 - 0 = 1 .. n0
    BY <1>1
  <2>7. \A i \in 1 .. n0 : e(i) <=> (i = n0 /\ ends)
    BY <1>1
  <2>8. \A i \in 1 .. n0 : step(e(i)) = IF i = n0 /\ ends THEN w0.last \o h0 ELSE w0.next \o f0
    BY <1>8, <2>7
  <2>2. \A i \in 1 .. n0 : c[i] = IF i = n0 /\ ends THEN w0.last \o h0 ELSE w0.next \o f0
    BY <2>1, <2>8
  <2>3. Listed(c, n0)
    BY <2>1 DEF Listed
  <2>4. ends \in BOOLEAN
    OBVIOUS
  <2> HIDE DEF c, ends
  <2>5. Group(c, n0, A, w0, h0, f0, ends)
    BY <2>2, <2>3 DEF Group
  <2>6. GroupIs(c, n0, w0, h0, f0, ends)
    BY <1>1, <1>3, <1>4, <2>4, <2>5, GroupOfSteps
  <2>. QED  BY <1>6, <2>6 DEF GroupIs, c, ends
<1>12. w1.last \in Seq(A) /\ w1.next \in Seq(A) /\ w1.begin \in Seq(A)
  BY <1>3, WordFields
<1>13. Groups(f, n1 - 1, A, v1, f1)
  <2>1. ASSUME NEW k \in 1 .. n1 - 1
        PROVE  f[k] = f1 \o (IF k = n1 - 1 THEN v1.last ELSE v1.next)
    <3> DEFINE S == w1.next
               E == IF k = n1 - 1 THEN w1.last ELSE w1.next
    <3>1. f[k] = ((f1 \o S) \o m1) \o E
      BY <1>9, <1>11
    <3>2. S \in Seq(A) /\ E \in Seq(A)
      BY <1>12
    <3>3. (S \o m1) \o E = IF k = n1 - 1 THEN v1.last ELSE v1.next
      BY <1>7
    <3> HIDE DEF S, E, f
    <3>4. Regrouped(f1, S, m1, E)
      BY <1>3, <3>2, Regrouping
    <3>. QED  BY <3>1, <3>3, <3>4 DEF Regrouped
  <2>2. Listed(f, n1 - 1)
    BY DEF Listed
  <2> HIDE DEF f
  <2>. QED  BY <2>1, <2>2 DEF Groups
<1> HIDE DEF f, G, H
<1>14. Assembled(v1, h1, f1, n1 - 1, f)
  <2> DEFINE j == n1 - 1
  <2>1. j \in Nat /\ Groups(f, j, A, v1, f1)
    BY <1>1, <1>13
  <2> HIDE DEF j
  <2>2. Assembled(v1, h1, f1, j, f)
    BY <1>3, <1>4, <2>1, Trajectory
  <2>. QED  BY <2>2 DEF j
<1>15. (((h1 \o h0) \o FlattenSeq(G)) \o m1) \o FlattenSeq(H)
          = h1 \o (v1.begin \o (IF n1 - 1 = 0 THEN v1.last ELSE v1.next))
  <2> DEFINE S == w1.next
             E == IF n1 - 1 = 0 THEN w1.last ELSE w1.next
             SmE == (S \o m1) \o E
             x == h1 \o h0
  <2>1. S \in Seq(A) /\ E \in Seq(A)
    BY <1>12
  <2>2. SmE = IF n1 - 1 = 0 THEN v1.last ELSE v1.next
    BY <1>7
  <2> HIDE DEF S, E
  <2>3. SmE \in Seq(A) /\ x \in Seq(A)
    BY <1>3, <2>1
  <2>4. Regrouped(x, S, m1, E)
    <3> HIDE DEF x
    <3>. QED  BY <1>3, <2>1, <2>3, Regrouping
  <2>5. Assoc(h1, h0, SmE)
    <3> HIDE DEF SmE
    <3>. QED  BY <1>3, <2>3, Associative
  <2>6. ((x \o S) \o m1) \o E = h1 \o (h0 \o SmE)
    BY <2>4, <2>5 DEF Regrouped, Assoc
  <2> HIDE DEF SmE
  <2>. QED  BY <1>6, <1>7, <1>9, <1>10, <2>2, <2>6 DEF S, E, x
<1>16. twomn_2ts(q) = Word(NextOf(v1, h1, f1, n1 - 1))
  BY <1>2, <1>14, <1>15 DEF Assembled
<1>. QED  BY <1>7, <1>16 DEF Twomn2Words, w1, n0, n1, d0, d1

Twomn3Words(q, d2, d1, d0) ==
    TwomnOn(TwomnOn(TwomnBelow({"gauge"}, 1, d0, n(q, 0)), {"det_mp"}, 2, d1, n(q, 1)),
            {"detratio"}, 3, d2, n(q, 2))

LEMMA Twomn3 ==
    ASSUME NEW q, n(q, 0) \in Nat \ {0}, n(q, 1) \in Nat \ {0}, n(q, 2) \in Nat \ {0},
           getTau(q) \in Int
    PROVE  LET d2 == getTau(q) \div n(q, 2)
               d1 == d2 \div (2 * n(q, 1))
               d0 == d1 \div (2 * n(q, 0))
           IN twomn_3ts(q) = Word(Twomn3Words(q, d2, d1, d0))
<1> DEFINE n0 == n(q, 0)
           n1 == n(q, 1)
           n2 == n(q, 2)
           d2 == getTau(q) \div n2
           d1 == d2 \div (2 * n1)
           d0 == d1 \div (2 * n0)
           A == Updating({{"gauge"}, {"det_mp"}, {"detratio"}})
           U == md_update_gaugefield(d0 \div 2)
           m0 == Kick({"gauge"}, d0 - 2 * Outer(1, d0))
           h0 == Kick({"gauge"}, Outer(1, d0))
           f0 == Kick({"gauge"}, 2 * Outer(1, d0))
           m1 == Kick({"det_mp"}, d1 - 2 * Outer(2, d1))
           h1 == Kick({"det_mp"}, Outer(2, d1))
           f1 == Kick({"det_mp"}, 2 * Outer(2, d1))
           m2 == Kick({"detratio"}, d2 - 2 * Outer(3, d2))
           h2 == Kick({"detratio"}, Outer(3, d2))
           f2 == Kick({"detratio"}, 2 * Outer(3, d2))
           step(last) == U \o m0 \o U
                         \o Kick({"gauge"}, IF last THEN Outer(1, d0) ELSE 2 * Outer(1, d0))
           G == [i \in 1 .. n0 - 0 |-> step(FALSE)]
           K(e) == [i \in 1 .. n0 - 0 |-> step(0 + i - 1 = n0 - 1 /\ e)]
           fstep(e) == FlattenSeq(G) \o m1 \o FlattenSeq(K(e))
                       \o Kick({"det_mp"}, IF e THEN Outer(2, d1) ELSE 2 * Outer(2, d1))
           M == [l \in 1 .. n1 - 0 |-> fstep(FALSE)]
           N(e) == [l \in 1 .. n1 - 0 |-> fstep(0 + l - 1 = n1 - 1 /\ e)]
           f == [k \in 1 .. n2 - 1 |-> f2 \o FlattenSeq(M) \o m2 \o FlattenSeq(N(1 + k - 1 = n2 - 1))]
           w0 == TwomnTwice(BottomOf(U), {"gauge"}, 1, d0)
           w1 == TwomnBelow({"gauge"}, 1, d0, n0)
           v1 == TwomnTwice(w1, {"det_mp"}, 2, d1)
           w2 == TwomnOn(w1, {"det_mp"}, 2, d1, n1)
           v2 == TwomnTwice(w2, {"detratio"}, 3, d2)
<1>1. /\ d2 \in Int /\ d1 \in Int /\ d0 \in Int
      /\ n0 \in Nat \ {0} /\ n1 \in Nat \ {0} /\ n2 \in Nat \ {0} /\ n2 - 1 \in Nat
      /\ 1 \in 1 .. 3 /\ 2 \in 1 .. 3 /\ 3 \in 1 .. 3
  <2>1. d2 \in Int /\ n0 \in Nat \ {0} /\ n1 \in Nat \ {0} /\ n2 \in Nat \ {0}
    OBVIOUS
  <2>2. 2 * n0 \in Nat /\ 2 * n0 > 0 /\ 2 * n1 \in Nat /\ 2 * n1 > 0
    OBVIOUS
  <2> HIDE DEF d2, n0, n1, n2
  <2>3. d1 \in Int
    BY <2>1, <2>2
  <2> HIDE DEF d1
  <2>. QED  BY <2>1, <2>2, <2>3
<1>2. twomn_3ts(q) = (((((((h2 \o h1) \o h0) \o FlattenSeq(M)) \o m2) \o FlattenSeq(N(n2 = 1)))
                       \o FlattenSeq(f)) \o h2)
  BY DEF twomn_3ts, twomn_gauge_steps, For, md_update_gaugemomentum_fermion_mp,
         md_update_gaugemomentum_gauge, md_update_gaugemomentum_detratio, Outer, lambda
<1> HIDE DEF n0, n1, n2, d2, d1, d0
<1>3. /\ U \in Seq(A) /\ m0 \in Seq(A) /\ h0 \in Seq(A) /\ f0 \in Seq(A)
      /\ m1 \in Seq(A) /\ h1 \in Seq(A) /\ f1 \in Seq(A)
      /\ m2 \in Seq(A) /\ h2 \in Seq(A) /\ f2 \in Seq(A) /\ w1 \in WordsOf(A)
  BY <1>1, TwomnTypes
<1>4. w0 \in WordsOf(A) /\ v1 \in WordsOf(A) /\ w2 \in WordsOf(A) /\ v2 \in WordsOf(A)
  <2> DEFINE bottom == BottomOf(U)
  <2>1. bottom \in WordsOf(A)
    <3> HIDE DEF U, A
    <3>. QED  BY <1>3 DEF BottomOf, WordsOf
  <2> HIDE DEF bottom, w1
  <2>2. w0 \in WordsOf(A) /\ v1 \in WordsOf(A) /\ w2 \in WordsOf(A)
    BY <1>1, <1>3, <2>1, TwomnTypes DEF bottom
  <2> HIDE DEF w2
  <2>. QED  BY <1>1, <2>2, TwomnTypes
<1>5. w0.last = U \o m0 \o U /\ w0.next = U \o m0 \o U /\ w0.begin = <<>>
  BY DEF BottomOf, TwiceOf, TwomnTwice
<1>6. w1 = NextOf(w0, h0, f0, n0 - 1) /\ w1.begin = h0
  <2>1. h0 \o <<>> = h0
    BY <1>3, Nothing
  <2>2. w1 = NextOf(w0, h0, f0, n0 - 1)
    BY DEF TwomnBelow, TwomnOn
  <2>3. NextOf(w0, h0, f0, n0 - 1).begin = h0 \o w0.begin
    <3> HIDE DEF w0, h0, f0
    <3>. QED  BY DEF NextOf
  <2> HIDE DEF w1, w0, h0
  <2>. QED  BY <1>5, <2>1, <2>2, <2>3
<1>7. /\ w2 = NextOf(v1, h1, f1, n1 - 1)
      /\ v1.last = w1.next \o m1 \o w1.last /\ v1.next = w1.next \o m1 \o w1.next
      /\ v1.begin = w1.begin
  <2> HIDE DEF w1
  <2>. QED  BY DEF TwomnOn, TwomnTwice, TwiceOf
<1>8. /\ TwomnOn(w2, {"detratio"}, 3, d2, n2) = NextOf(v2, h2, f2, n2 - 1)
      /\ v2.last = w2.next \o m2 \o w2.last /\ v2.next = w2.next \o m2 \o w2.next
      /\ v2.begin = w2.begin
  <2> HIDE DEF w2
  <2>. QED  BY DEF TwomnOn, TwomnTwice, TwiceOf
<1>9. w2.begin = h1 \o h0
  <2>1. NextOf(v1, h1, f1, n1 - 1).begin = h1 \o v1.begin
    <3> HIDE DEF v1, h1, f1
    <3>. QED  BY DEF NextOf
  <2> HIDE DEF w2, v1, h1, f1, h0, w1
  <2>. QED  BY <1>6, <1>7, <2>1
<1>10. /\ \A last \in BOOLEAN : step(last) = IF last THEN w0.last \o h0 ELSE w0.next \o f0
       /\ \A e \in BOOLEAN : fstep(e) = FlattenSeq(G) \o m1 \o FlattenSeq(K(e))
                                        \o (IF e THEN h1 ELSE f1)
  BY <1>5
<1> HIDE DEF U, m0, h0, f0, m1, h1, f1, m2, h2, f2, w1, w0, v1, w2, v2, A
<1>11. ASSUME NEW z, Listed(z, n0), NEW ends \in BOOLEAN,
              \A i \in 1 .. n0 : z[i] = IF i = n0 /\ ends THEN w0.last \o h0 ELSE w0.next \o f0
       PROVE  FlattenSeq(z) = IF ends THEN w1.last ELSE w1.next
  <2>1. Group(z, n0, A, w0, h0, f0, ends)
    BY <1>11 DEF Group
  <2>3. n0 \in Nat \ {0} /\ w0 \in WordsOf(A) /\ h0 \in Seq(A) /\ f0 \in Seq(A)
    BY <1>1, <1>3, <1>4
  <2>2. GroupIs(z, n0, w0, h0, f0, ends)
    BY <1>11, <2>1, <2>3, GroupOfSteps
  <2>. QED  BY <1>6, <2>2 DEF GroupIs
<1>12. FlattenSeq(G) = w1.next
  <2> DEFINE ends == FALSE
  <2>1. 1 .. n0 - 0 = 1 .. n0
    BY <1>1
  <2>2. \A i \in 1 .. n0 : G[i] = IF i = n0 /\ ends THEN w0.last \o h0 ELSE w0.next \o f0
    BY <1>10, <2>1
  <2>3. Listed(G, n0)
    BY <2>1 DEF Listed
  <2>4. ends \in BOOLEAN
    OBVIOUS
  <2> HIDE DEF G, ends
  <2>5. FlattenSeq(G) = IF ends THEN w1.last ELSE w1.next
    BY <1>11, <2>2, <2>3, <2>4
  <2>. QED  BY <2>5 DEF ends
<1>13. ASSUME NEW ends \in BOOLEAN
       PROVE  FlattenSeq(K(ends)) = IF ends THEN w1.last ELSE w1.next
  <2> DEFINE c == K(ends)
             e(i) == 0 + i - 1 = n0 - 1 /\ ends
  <2>1. 1 .. n0 - 0 = 1 .. n0
    BY <1>1
  <2>7. \A i \in 1 .. n0 : e(i) <=> (i = n0 /\ ends)
    BY <1>1
  <2>8. \A i \in 1 .. n0 : step(e(i)) = IF i = n0 /\ ends THEN w0.last \o h0 ELSE w0.next \o f0
    BY <1>10, <2>7
  <2>2. \A i \in 1 .. n0 : c[i] = IF i = n0 /\ ends THEN w0.last \o h0 ELSE w0.next \o f0
    BY <2>1, <2>8
  <2>3. Listed(c, n0)
    BY <2>1 DEF Listed
  <2> HIDE DEF c
  <2>5. FlattenSeq(c) = IF ends THEN w1.last ELSE w1.next
    BY <1>11, <2>2, <2>3
  <2>. QED  BY <2>5 DEF c
<1>14. w1.last \in Seq(A) /\ w1.next \in Seq(A) /\ w1.begin \in Seq(A)
  BY <1>3, WordFields
<1>15. \A e \in BOOLEAN : fstep(e) = IF e THEN v1.last \o h1 ELSE v1.next \o f1
  <2> SUFFICES ASSUME NEW e \in BOOLEAN
               PROVE  fstep(e) = IF e THEN v1.last \o h1 ELSE v1.next \o f1
    OBVIOUS
  <2>1. fstep(e) = FlattenSeq(G) \o m1 \o FlattenSeq(K(e)) \o (IF e THEN h1 ELSE f1)
    BY <1>10
  <2>2. FlattenSeq(K(e)) = IF e THEN w1.last ELSE w1.next
    BY <1>13
  <2> HIDE DEF fstep, K, G
  <2>. QED  BY <1>7, <1>12, <2>1, <2>2
<1>16. ASSUME NEW z, Listed(z, n1), NEW ends \in BOOLEAN,
              \A l \in 1 .. n1 : z[l] = IF l = n1 /\ ends THEN v1.last \o h1 ELSE v1.next \o f1
       PROVE  FlattenSeq(z) = IF ends THEN w2.last ELSE w2.next
  <2>1. Group(z, n1, A, v1, h1, f1, ends)
    BY <1>16 DEF Group
  <2>3. n1 \in Nat \ {0} /\ v1 \in WordsOf(A) /\ h1 \in Seq(A) /\ f1 \in Seq(A)
    BY <1>1, <1>3, <1>4
  <2>2. GroupIs(z, n1, v1, h1, f1, ends)
    BY <1>16, <2>1, <2>3, GroupOfSteps
  <2>. QED  BY <1>7, <2>2 DEF GroupIs
<1> HIDE DEF fstep
<1>17. FlattenSeq(M) = w2.next
  <2> DEFINE ends == FALSE
  <2>1. 1 .. n1 - 0 = 1 .. n1
    BY <1>1
  <2>2. \A l \in 1 .. n1 : M[l] = IF l = n1 /\ ends THEN v1.last \o h1 ELSE v1.next \o f1
    BY <1>15, <2>1
  <2>3. Listed(M, n1)
    BY <2>1 DEF Listed
  <2>4. ends \in BOOLEAN
    OBVIOUS
  <2> HIDE DEF M, ends
  <2>5. FlattenSeq(M) = IF ends THEN w2.last ELSE w2.next
    BY <1>16, <2>2, <2>3, <2>4
  <2>. QED  BY <2>5 DEF ends
<1>18. ASSUME NEW ends \in BOOLEAN
       PROVE  FlattenSeq(N(ends)) = IF ends THEN w2.last ELSE w2.next
  <2> DEFINE c == N(ends)
             e(l) == 0 + l - 1 = n1 - 1 /\ ends
  <2>1. 1 .. n1 - 0 = 1 .. n1
    BY <1>1
  <2>7. \A l \in 1 .. n1 : e(l) <=> (l = n1 /\ ends)
    BY <1>1
  <2>8. \A l \in 1 .. n1 : fstep(e(l)) = IF l = n1 /\ ends THEN v1.last \o h1 ELSE v1.next \o f1
    BY <1>15, <2>7
  <2>2. \A l \in 1 .. n1 : c[l] = IF l = n1 /\ ends THEN v1.last \o h1 ELSE v1.next \o f1
    BY <2>1, <2>8
  <2>3. Listed(c, n1)
    BY <2>1 DEF Listed
  <2> HIDE DEF c
  <2>5. FlattenSeq(c) = IF ends THEN w2.last ELSE w2.next
    BY <1>16, <2>2, <2>3
  <2>. QED  BY <2>5 DEF c
<1>19. w2.last \in Seq(A) /\ w2.next \in Seq(A) /\ w2.begin \in Seq(A)
  BY <1>4, WordFields
<1> HIDE DEF M, N
<1>20. Groups(f, n2 - 1, A, v2, f2)
  <2>1. ASSUME NEW k \in 1 .. n2 - 1
        PROVE  f[k] = f2 \o (IF k = n2 - 1 THEN v2.last ELSE v2.next)
    <3> DEFINE S == w2.next
               E == IF k = n2 - 1 THEN w2.last ELSE w2.next
               e == 1 + k - 1 = n2 - 1
    <3>5. e \in BOOLEAN /\ (e <=> k = n2 - 1)
      BY <1>1
    <3>6. f[k] = ((f2 \o FlattenSeq(M)) \o m2) \o FlattenSeq(N(e))
      OBVIOUS
    <3>7. FlattenSeq(N(e)) = IF e THEN w2.last ELSE w2.next
      <4> HIDE DEF e
      <4>. QED  BY <1>18, <3>5
    <3>8. FlattenSeq(N(e)) = E
      BY <3>5, <3>7
    <3> HIDE DEF e, E, f
    <3>1. f[k] = ((f2 \o S) \o m2) \o E
      BY <1>17, <3>6, <3>8
    <3>2. S \in Seq(A) /\ E \in Seq(A)
      BY <1>19 DEF E
    <3>3. (S \o m2) \o E = IF k = n2 - 1 THEN v2.last ELSE v2.next
      BY <1>8 DEF E
    <3> HIDE DEF S
    <3>4. Regrouped(f2, S, m2, E)
      BY <1>3, <3>2, Regrouping
    <3>. QED  BY <3>1, <3>3, <3>4 DEF Regrouped
  <2>2. Listed(f, n2 - 1)
    BY DEF Listed
  <2> HIDE DEF f
  <2>. QED  BY <2>1, <2>2 DEF Groups
<1> HIDE DEF f
<1>21. Assembled(v2, h2, f2, n2 - 1, f)
  <2> DEFINE j == n2 - 1
  <2>1. j \in Nat /\ Groups(f, j, A, v2, f2)
    BY <1>1, <1>20
  <2> HIDE DEF j
  <2>2. Assembled(v2, h2, f2, j, f)
    BY <1>3, <1>4, <2>1, Trajectory
  <2>. QED  BY <2>2 DEF j
<1>22. ((((h2 \o h1) \o h0) \o FlattenSeq(M)) \o m2) \o FlattenSeq(N(n2 = 1))
          = h2 \o (v2.begin \o (IF n2 - 1 = 0 THEN v2.last ELSE v2.next))
  <2> DEFINE S == w2.next
             E == IF n2 - 1 = 0 THEN w2.last ELSE w2.next
             SmE == (S \o m2) \o E
             h10 == h1 \o h0
             x == (h2 \o h1) \o h0
  <2>1. S \in Seq(A) /\ E \in Seq(A)
    BY <1>19
  <2>2. SmE = IF n2 - 1 = 0 THEN v2.last ELSE v2.next
    BY <1>8
  <2>7. FlattenSeq(N(n2 = 1)) = E
    <3> DEFINE e == n2 = 1
    <3>1. e \in BOOLEAN /\ (e <=> n2 - 1 = 0)
      BY <1>1
    <3>2. FlattenSeq(N(e)) = IF e THEN w2.last ELSE w2.next
      <4> HIDE DEF e
      <4>. QED  BY <1>18, <3>1
    <3>. QED  BY <3>1, <3>2
  <2> HIDE DEF S, E
  <2>3. SmE \in Seq(A) /\ x \in Seq(A) /\ h10 \in Seq(A)
    BY <1>3, <2>1
  <2>4. Regrouped(x, S, m2, E)
    <3> HIDE DEF x
    <3>. QED  BY <1>3, <2>1, <2>3, Regrouping
  <2>8. Assoc(h2, h1, h0)
    BY <1>3, Associative
  <2>9. x = h2 \o h10
    BY <2>8 DEF Assoc
  <2>5. Assoc(h2, h10, SmE)
    <3> HIDE DEF SmE, h10
    <3>. QED  BY <1>3, <2>3, Associative
  <2> HIDE DEF x
  <2>6. ((x \o S) \o m2) \o E = h2 \o (h10 \o SmE)
    BY <2>4, <2>5, <2>9 DEF Regrouped, Assoc
  <2> HIDE DEF SmE
  <2>. QED  BY <1>8, <1>9, <1>17, <2>2, <2>6, <2>7 DEF S, x
<1>23. twomn_3ts(q) = Word(NextOf(v2, h2, f2, n2 - 1))
  BY <1>2, <1>21, <1>22 DEF Assembled
<1>. QED  BY <1>8, <1>23 DEF Twomn3Words, w2, w1, n0, n1, n2, d0, d1, d2
------------------------------------------------------------------------------
(* The integrators of the code and the nested scheme *)

LEMMA MaxInDomain ==
    ASSUME NEW A, NEW s \in Seq(A), NEW S \in SUBSET (DOMAIN s), S # {}
    PROVE  Max(S) \in S /\ s[Max(S)] \in A /\ S \ {Max(S)} \in SUBSET (DOMAIN s)
<1>1. DOMAIN s = 1 .. Len(s) /\ Len(s) \in Nat
  OBVIOUS
<1>2. Max(S) \in S
  BY <1>1, MaxIs
<1>. QED  BY <1>1, <1>2

Foldable(G, D, a, s) ==
    \E h \in [SUBSET (DOMAIN s) -> D] :
       \A S \in SUBSET (DOMAIN s) :
          h[S] = IF S = {} THEN a ELSE G[h[S \ {Max(S)}]][s[Max(S)]]

FoldedBack(G, D, a, s) ==
    \A h : RunsBack(h, G, D, a, s) => h[DOMAIN s] = Run(G, a, s)

RunEnds(G, a, s) == \A t : Runs(t, G, a, s) => Run(G, a, s) = t[Len(s)]

LEMMA Folding ==
    ASSUME NEW D, NEW A, NEW G, Machine(G, D, A), NEW a \in D, NEW s \in Seq(A)
    PROVE  Foldable(G, D, a, s) /\ FoldedBack(G, D, a, s) /\ RunEnds(G, a, s)
<1>1. /\ \E h \in [SUBSET (DOMAIN s) -> D] :
            \A S \in SUBSET (DOMAIN s) :
               h[S] = IF S = {} THEN a ELSE G[h[S \ {Max(S)}]][s[Max(S)]]
      /\ \A h : RunsBack(h, G, D, a, s) =>
            /\ h[DOMAIN s] = Run(G, a, s)
            /\ \A S \in SUBSET (DOMAIN s) : h[S] \in D
  BY FoldRuns
<1>2. \A t : Runs(t, G, a, s) => Run(G, a, s) = t[Len(s)]
  BY RunIs, SMT
<1>. QED  BY <1>1, <1>2 DEF Foldable, FoldedBack, RunEnds

Multiply == [x \in Nat |-> [y \in Nat |-> x * y]]

LEMMA ProductRuns ==
    ASSUME NEW s \in Seq(Nat)
    PROVE  Machine(Multiply, Nat, Nat) /\ StepsInAll(s) = Run(Multiply, 1, s)
<1> DEFINE T == SUBSET (DOMAIN s)
           A(h) == h = [S \in T |-> IF S = {} THEN 1 ELSE h[S \ {Max(S)}] * s[Max(S)]]
<1>1. Machine(Multiply, Nat, Nat) /\ 1 \in Nat
  BY DEF Machine, Multiply
<1>7. Foldable(Multiply, Nat, 1, s) /\ FoldedBack(Multiply, Nat, 1, s)
  <2> DEFINE o == 1
  <2>1. o \in Nat
    OBVIOUS
  <2> HIDE DEF o
  <2>2. Foldable(Multiply, Nat, o, s) /\ FoldedBack(Multiply, Nat, o, s)
    BY <1>1, <2>1, Folding
  <2>. QED  BY <2>2 DEF o
<1>2. \E h : A(h)
  <2>1. PICK h \in [T -> Nat] :
           \A S \in T : h[S] = IF S = {} THEN 1 ELSE Multiply[h[S \ {Max(S)}]][s[Max(S)]]
    BY <1>7 DEF Foldable
  <2>2. ASSUME NEW S \in T, S # {}
        PROVE  Multiply[h[S \ {Max(S)}]][s[Max(S)]] = h[S \ {Max(S)}] * s[Max(S)]
    <3>1. s[Max(S)] \in Nat /\ h[S \ {Max(S)}] \in Nat
      BY <2>2, MaxInDomain
    <3>. QED  BY <3>1 DEF Multiply
  <2>. QED  BY <2>1, <2>2
<1>3. StepsInAll(s) = (CHOOSE h : A(h))[DOMAIN s]
  BY DEF StepsInAll, FoldLeft, MapThenFoldSet
<1> DEFINE h == CHOOSE h : A(h)
<1>4. A(h)
  <2> HIDE DEF A
  <2>. QED  BY <1>2
<1>5. RunsBack(h, Multiply, Nat, 1, s)
  <2>1. ASSUME NEW S \in T, S # {}, h[S \ {Max(S)}] \in Nat
        PROVE  h[S] = Multiply[h[S \ {Max(S)}]][s[Max(S)]]
    <3>1. s[Max(S)] \in Nat
      BY <2>1, MaxInDomain
    <3> HIDE DEF h
    <3>2. h[S] = h[S \ {Max(S)}] * s[Max(S)]
      BY <1>4, <2>1
    <3>. QED  BY <2>1, <3>1, <3>2 DEF Multiply
  <2> HIDE DEF h
  <2>2. h[{}] = 1
    BY <1>4
  <2>. QED  BY <2>1, <2>2 DEF RunsBack
<1> HIDE DEF h
<1>6. h[DOMAIN s] = Run(Multiply, 1, s)
  BY <1>5, <1>7 DEF FoldedBack
<1>. QED  BY <1>1, <1>3, <1>6 DEF h

LEMMA StepsOfFew ==
    /\ \A a \in Nat : StepsInAll(<<a>>) = a
    /\ \A a \in Nat, b \in Nat : StepsInAll(<<a, b>>) = a * b
    /\ \A a \in Nat, b \in Nat, c \in Nat : StepsInAll(<<a, b, c>>) = (a * b) * c
<1>1. ASSUME NEW s \in Seq(Nat), NEW t, Runs(t, Multiply, 1, s)
      PROVE  StepsInAll(s) = t[Len(s)]
  <2>1. 1 \in Nat /\ Machine(Multiply, Nat, Nat) /\ StepsInAll(s) = Run(Multiply, 1, s)
    BY ProductRuns
  <2> DEFINE o == 1
  <2>2. o \in Nat /\ Runs(t, Multiply, o, s)
    BY <1>1
  <2> HIDE DEF o
  <2>4. RunEnds(Multiply, o, s)
    BY <2>1, <2>2, Folding
  <2>3. Run(Multiply, o, s) = t[Len(s)]
    BY <2>2, <2>4 DEF RunEnds
  <2>. QED  BY <2>1, <2>3 DEF o
<1>2. ASSUME NEW a \in Nat PROVE StepsInAll(<<a>>) = a
  <2> DEFINE t == [k \in 0 .. 1 |-> IF k = 0 THEN 1 ELSE a]
  <2>1. <<a>> \in Seq(Nat) /\ Len(<<a>>) = 1 /\ t[1] = a
    OBVIOUS
  <2>2. Runs(t, Multiply, 1, <<a>>)
    BY DEF Runs, Multiply
  <2> HIDE DEF t
  <2>. QED  BY <1>1, <2>1, <2>2
<1>3. ASSUME NEW a \in Nat, NEW b \in Nat PROVE StepsInAll(<<a, b>>) = a * b
  <2> DEFINE ab == a * b
             t == [k \in 0 .. 2 |-> IF k = 0 THEN 1 ELSE IF k = 1 THEN a ELSE ab]
  <2>1. <<a, b>> \in Seq(Nat) /\ Len(<<a, b>>) = 2 /\ t[2] = ab /\ ab \in Nat
    OBVIOUS
  <2>2. Runs(t, Multiply, 1, <<a, b>>)
    <3>1. Multiply[1][a] = a /\ Multiply[a][b] = ab
      BY DEF Multiply
    <3>2. /\ \A k \in 1 .. Len(<<a, b>>) : k = 1 \/ k = 2
          /\ t[0] = 1 /\ t[1] = a /\ t[2] = ab
          /\ <<a, b>>[1] = a /\ <<a, b>>[2] = b
      OBVIOUS
    <3>3. 1 - 1 = 0 /\ 2 - 1 = 1
      OBVIOUS
    <3> HIDE DEF t, ab
    <3>4. ASSUME NEW k \in 1 .. Len(<<a, b>>) PROVE t[k] = Multiply[t[k - 1]][<<a, b>>[k]]
      BY <3>1, <3>2, <3>3
    <3>. QED  BY <3>2, <3>4 DEF Runs
  <2> HIDE DEF t
  <2>. QED  BY <1>1, <2>1, <2>2
<1>4. ASSUME NEW a \in Nat, NEW b \in Nat, NEW c \in Nat
      PROVE  StepsInAll(<<a, b, c>>) = (a * b) * c
  <2> DEFINE s == <<a, b, c>>
             ab == a * b
             abc == ab * c
             t == [k \in 0 .. 3 |-> IF k = 0 THEN 1 ELSE IF k = 1 THEN a ELSE IF k = 2 THEN ab ELSE abc]
  <2>1. s \in Seq(Nat) /\ Len(s) = 3 /\ t[3] = abc /\ ab \in Nat
    OBVIOUS
  <2>2. Runs(t, Multiply, 1, s)
    <3>1. Multiply[1][a] = a /\ Multiply[a][b] = ab /\ Multiply[ab][c] = abc
      BY <2>1 DEF Multiply
    <3>2. /\ \A k \in 1 .. Len(s) : k = 1 \/ k = 2 \/ k = 3
          /\ t[0] = 1 /\ t[1] = a /\ t[2] = ab /\ t[3] = abc
          /\ s[1] = a /\ s[2] = b /\ s[3] = c
      OBVIOUS
    <3>3. 1 - 1 = 0 /\ 2 - 1 = 1 /\ 3 - 1 = 2
      OBVIOUS
    <3> HIDE DEF t, ab, abc, s
    <3>4. ASSUME NEW k \in 1 .. Len(s) PROVE t[k] = Multiply[t[k - 1]][s[k]]
      BY <3>1, <3>2, <3>3
    <3>. QED  BY <3>2, <3>4 DEF Runs
  <2> HIDE DEF t
  <2>3. StepsInAll(s) = t[Len(s)]
    <3> HIDE DEF s
    <3>. QED  BY <1>1, <2>1, <2>2
  <2>. QED  BY <2>1, <2>3
<1>. QED  BY <1>2, <1>3, <1>4

\* What the integrator does not reject.
Integrable == {q \in AllParameters : ~IntegratorThrows(q)}

LEMMA IntegrableParameters ==
    ASSUME NEW q \in Integrable
    PROVE  /\ q \in AllParameters
           /\ q.numTimescales \in 1 .. 3
           /\ \A i \in 1 .. q.numTimescales : q.steps[i] \in Nat \ {0}
           /\ q.steps \in [1 .. q.numTimescales -> Nat]
           /\ q.useGaugeOnly \in BOOLEAN /\ (q.useGaugeOnly => q.numTimescales = 1)
           /\ q.useMp \in BOOLEAN /\ (q.useMp <=> q.numTimescales = 3)
           /\ q.integrator[1] \in {"leapfrog", "twomn"}
           /\ q.algorithm \in {"hmc", "rhmc"} /\ (q.algorithm = "rhmc" => ~q.useMp)
<1>1. q \in AllParameters /\ ~IntegratorThrows(q)
  BY DEF Integrable
<1>2. PICK c \in Cases, ts \in 1 .. 3 :
         q \in IF c.algorithm = "hmc" THEN HmcParameters(c, ts) ELSE RhmcParameters(c, ts)
  BY <1>1 DEF AllParameters, ParametersOf
<1>3. c.steps \subseteq Nat
  BY HmcAssumption
<1>4. /\ q.numTimescales = ts /\ q.steps \in [1 .. ts -> c.steps]
      /\ q.integrator \in [1 .. ts -> {"leapfrog", "twomn"}]
      /\ q.useMp \in BOOLEAN /\ q.useGaugeOnly \in (IF ts = 1 THEN BOOLEAN ELSE {FALSE})
      /\ q.algorithm \in {"hmc", "rhmc"} /\ (q.algorithm = "rhmc" => ~q.useMp)
  BY <1>2 DEF HmcParameters, RhmcParameters
<1>5. /\ \A i \in 1 .. q.numTimescales : q.steps[i] # 0
      /\ ~(q.numTimescales = 3 /\ ~q.useMp) /\ ~(q.numTimescales = 2 /\ q.useMp)
      /\ ~(IF q.useMp THEN q.numTimescales \in {1, 2} ELSE q.numTimescales = 3)
  BY <1>1 DEF IntegratorThrows, check_integrator_params_throws, NotImplemented
<1>6. q.steps \in [1 .. ts -> Nat]
  BY <1>3, <1>4
<1>7. 1 \in 1 .. ts
  OBVIOUS
<1>8. q.numTimescales = 3 <=> q.useMp
  BY <1>4, <1>5
<1>. QED  BY <1>1, <1>4, <1>5, <1>6, <1>7, <1>8

LEMMA Exactly ==
    ASSUME NEW a \in Nat, NEW b \in Nat \ {0}
    PROVE  (a * b) \div b = a /\ (a * b) \in Nat
<1> DEFINE x == a * b
<1>1. x \in Nat
  OBVIOUS
<1>. QED  BY <1>1

\* What the layers ask of the machine: kicks commute, and two equal ones are
\* one twice as long.
KickRules(G, D, C) ==
    /\ Machine(G, D, Updating(C))
    /\ \A E \in C, F \in C, x \in Int, y \in Int : Commute(G, D, Kick(E, x), Kick(F, y))
    /\ \A F \in C, x \in Int : Halves(G, D, Kick(F, x), Kick(F, 2 * x))

LevelOK(G, D, C, w) ==
    /\ w \in WordsOf(Updating(C)) /\ Layered(G, D, w)
    /\ \A F \in C, x \in Int : Commute(G, D, w.begin, Kick(F, x))

LEMMA CommuteNothing ==
    ASSUME NEW D, NEW A, NEW G, Machine(G, D, A), NEW w \in Seq(A)
    PROVE  Commute(G, D, <<>>, w)
<1>1. ASSUME NEW d \in D PROVE Act(G, D, w)[d] \in D
  BY ActOf
<1>2. ASSUME NEW d \in D PROVE Act(G, D, <<>>)[d] = d
  BY ActOfNothing
<1>. QED  BY <1>1, <1>2 DEF Commute

LEMMA CommuteConcat ==
    ASSUME NEW D, NEW A, NEW G, Machine(G, D, A), NEW s \in Seq(A), NEW t \in Seq(A), NEW w \in Seq(A),
           Commute(G, D, s, w), Commute(G, D, t, w)
    PROVE  Commute(G, D, s \o t, w)
<1> DEFINE as == Act(G, D, s)
           at == Act(G, D, t)
           aw == Act(G, D, w)
<1>1. as \in [D -> D] /\ at \in [D -> D] /\ aw \in [D -> D]
  BY ActOf
<1>2. \A d \in D : Act(G, D, s \o t)[d] = at[as[d]]
  BY ActOfConcat
<1>3. \A d \in D : aw[as[d]] = as[aw[d]] /\ aw[at[d]] = at[aw[d]]
  BY DEF Commute
<1> HIDE DEF as, at, aw
<1>4. ASSUME NEW d \in D PROVE aw[Act(G, D, s \o t)[d]] = Act(G, D, s \o t)[aw[d]]
  <2>1. as[d] \in D /\ aw[d] \in D
    BY <1>1
  <2>2. aw[at[as[d]]] = at[aw[as[d]]]
    BY <1>3, <2>1
  <2>3. Act(G, D, s \o t)[aw[d]] = at[as[aw[d]]]
    BY <1>2, <2>1
  <2>. QED  BY <1>2, <1>3, <2>2, <2>3
<1>. QED  BY <1>4 DEF Commute, aw

LEMMA BottomOK ==
    ASSUME NEW D, NEW C, NEW G, KickRules(G, D, C), NEW d \in Int
    PROVE  LevelOK(G, D, C, BottomOf(md_update_gaugefield(d)))
<1> DEFINE A == Updating(C)
           U == md_update_gaugefield(d)
<1>1. Machine(G, D, A) /\ U \in Seq(A)
  BY Atoms DEF KickRules
<1>2. \A F \in C, x \in Int : Kick(F, x) \in Seq(A)
  BY Atoms
<1> HIDE DEF A, U
<1>3. BottomOf(U) \in WordsOf(A) /\ Layered(G, D, BottomOf(U))
  BY <1>1, BottomLayer
<1>4. \A F \in C, x \in Int : Commute(G, D, <<>>, Kick(F, x))
  BY <1>1, <1>2, CommuteNothing
<1>. QED  BY <1>3, <1>4 DEF LevelOK, A, U, BottomOf

\* One more timescale: with m + 1 steps, each kick of which is `half'.
LEMMA NextOK ==
    ASSUME NEW D, NEW C, NEW G, KickRules(G, D, C), NEW w, LevelOK(G, D, C, w),
           NEW F \in C, NEW x \in Int, NEW y \in Int, y = 2 * x, NEW m \in Nat
    PROVE  LevelOK(G, D, C, NextOf(w, Kick(F, x), Kick(F, y), m))
<1> DEFINE A == Updating(C)
           h == Kick(F, x)
           f == Kick(F, y)
           v == NextOf(w, h, f, m)
<1>1. /\ Machine(G, D, A) /\ h \in Seq(A) /\ f \in Seq(A) /\ w \in WordsOf(A)
      /\ Halves(G, D, h, f)
  BY Atoms DEF KickRules, LevelOK
<1>2. Layered(G, D, w) /\ Commute(G, D, w.begin, h)
  BY DEF LevelOK
<1>3. \A E \in C, z \in Int : Kick(E, z) \in Seq(A) /\ Commute(G, D, h, Kick(E, z))
                              /\ Commute(G, D, w.begin, Kick(E, z))
  BY Atoms DEF KickRules, LevelOK
<1>4. v.begin = h \o w.begin
  BY DEF NextOf
<1> HIDE DEF A, h, f
<1>5. v \in WordsOf(A) /\ Layered(G, D, v)
  BY <1>1, <1>2, LevelTypes, LayerOfNext
<1>6. ASSUME NEW E \in C, NEW z \in Int PROVE Commute(G, D, v.begin, Kick(E, z))
  <2> DEFINE k == Kick(E, z)
             b == w.begin
  <2>1. k \in Seq(A) /\ b \in Seq(A) /\ Commute(G, D, h, k) /\ Commute(G, D, b, k)
    BY <1>1, <1>3, WordFields
  <2> HIDE DEF k, b, v
  <2>2. Commute(G, D, h \o b, k)
    BY <1>1, <2>1, CommuteConcat
  <2>. QED  BY <1>4, <2>2 DEF k, b
<1> HIDE DEF v
<1>. QED  BY <1>5, <1>6 DEF LevelOK, A, v, h, f

LEMMA TwiceOK ==
    ASSUME NEW D, NEW C, NEW G, KickRules(G, D, C), NEW w, LevelOK(G, D, C, w),
           NEW F \in C, NEW x \in Int
    PROVE  LevelOK(G, D, C, TwiceOf(w, Kick(F, x)))
<1> DEFINE A == Updating(C)
           k == Kick(F, x)
           v == TwiceOf(w, k)
<1>1. Machine(G, D, A) /\ k \in Seq(A) /\ w \in WordsOf(A)
  BY Atoms DEF KickRules, LevelOK
<1>2. Layered(G, D, w) /\ Commute(G, D, w.begin, k)
  BY DEF LevelOK
<1>3. v.begin = w.begin
  BY DEF TwiceOf
<1> HIDE DEF A, k
<1>4. v \in WordsOf(A) /\ Layered(G, D, v)
  <2>1. 0 \in Nat
    OBVIOUS
  <2>. QED  BY <1>1, <1>2, <2>1, LevelTypes, LayerOfTwice
<1> HIDE DEF v
<1>. QED  BY <1>3, <1>4 DEF LevelOK, A, v, k

LEMMA LeapfrogOK ==
    ASSUME NEW D, NEW C, NEW G, KickRules(G, D, C), NEW w, LevelOK(G, D, C, w),
           NEW F \in C, NEW d \in Int, d % 2 = 0, NEW m \in Nat \ {0}
    PROVE  LevelOK(G, D, C, LeapfrogOn(w, F, d, m))
<1> DEFINE x == d \div 2
           k == m - 1
<1>1. x \in Int /\ d = 2 * x /\ k \in Nat
  OBVIOUS
<1> HIDE DEF x, k
<1>2. LevelOK(G, D, C, NextOf(w, Kick(F, x), Kick(F, d), k))
  BY <1>1, NextOK
<1>. QED  BY <1>2 DEF LeapfrogOn, x, k

LEMMA TwomnOK ==
    ASSUME NEW D, NEW C, NEW G, KickRules(G, D, C), NEW w, LevelOK(G, D, C, w),
           NEW F \in C, NEW i \in 1 .. 3, NEW d \in Int, NEW m \in Nat \ {0}
    PROVE  LevelOK(G, D, C, TwomnOn(w, F, i, d, m))
<1> DEFINE x == Outer(i, d)
           y == 2 * x
           z == d - 2 * x
           v == TwiceOf(w, Kick(F, z))
           k == m - 1
<1>1. x \in Int /\ y \in Int /\ z \in Int
  BY OuterInt
<1>2. k \in Nat /\ y = 2 * x
  OBVIOUS
<1> HIDE DEF z, k, x
<1>3. LevelOK(G, D, C, v)
  BY <1>1, TwiceOK
<1> HIDE DEF v, y
<1>4. LevelOK(G, D, C, NextOf(v, Kick(F, x), Kick(F, y), k))
  BY <1>1, <1>2, <1>3, NextOK
<1>. QED  BY <1>4 DEF TwomnOn, TwomnTwice, x, y, z, k, v

LEMMA LevelRuns ==
    ASSUME NEW D, NEW C, NEW G, KickRules(G, D, C), NEW w, LevelOK(G, D, C, w), NEW d \in D
    PROVE  Run(G, d, Word(w)) = Run(G, d, w.all)
<1> DEFINE A == Updating(C)
           b == w.begin
           l == w.last
           a == w.all
<1>1. Machine(G, D, A) /\ w \in WordsOf(A)
  BY DEF KickRules, LevelOK
<1>2. b \in Seq(A) /\ l \in Seq(A) /\ a \in Seq(A)
  BY <1>1, WordFields
<1>3. Act(G, D, a)[d] = Act(G, D, l)[Act(G, D, b)[d]]
  BY DEF LevelOK, Layered, Layer
<1> HIDE DEF A, b, l, a
<1>4. Act(G, D, b \o l)[d] = Act(G, D, l)[Act(G, D, b)[d]]
  BY <1>1, <1>2, ActOfConcat
<1>. QED  BY <1>3, <1>4 DEF Act, Word, a, b, l

TopWidth(q) == getTau(q) \div q.steps[q.numTimescales]

WordsFor(q) ==
    LET e == TopWidth(q)
    IN IF q.integrator[1] = "leapfrog"
       THEN CASE q.numTimescales = 1 ->
                 LeapfrogBelow(IF q.useGaugeOnly THEN {"gauge"} ELSE TotalForce, e, n(q, 0))
              [] q.numTimescales = 2 -> Leapfrog2Words(q, e, e \div n(q, 0))
              [] q.numTimescales = 3 -> Leapfrog3Words(q, e, e \div n(q, 1), (e \div n(q, 1)) \div n(q, 0))
       ELSE CASE q.numTimescales = 1 ->
                 TwomnBelow(IF q.useGaugeOnly THEN {"gauge"} ELSE TotalForce, 1, e, n(q, 0))
              [] q.numTimescales = 2 -> Twomn2Words(q, e, e \div (2 * n(q, 0)))
              [] q.numTimescales = 3 -> Twomn3Words(q, e, e \div (2 * n(q, 1)),
                                                    (e \div (2 * n(q, 1))) \div (2 * n(q, 0)))

LEMMA StepsPositive ==
    ASSUME NEW q \in Integrable
    PROVE  /\ StepsInAll(q.steps) \in Nat /\ getTau(q) \in Nat
           /\ n(q, 0) \in Nat \ {0}
           /\ q.numTimescales \in {2, 3} => n(q, 1) \in Nat \ {0}
           /\ q.numTimescales = 3 => n(q, 2) \in Nat \ {0}
           /\ q.numTimescales = 1 => StepsInAll(q.steps) = n(q, 0)
           /\ q.numTimescales = 2 => StepsInAll(q.steps) = n(q, 0) * n(q, 1)
           /\ q.numTimescales = 3 => StepsInAll(q.steps) = (n(q, 0) * n(q, 1)) * n(q, 2)
<1> DEFINE s == q.steps
           ts == q.numTimescales
<1>1. /\ ts \in 1 .. 3 /\ \A i \in 1 .. ts : s[i] \in Nat \ {0}
      /\ s \in [1 .. ts -> Nat]
  BY IntegrableParameters
<1>2. /\ n(q, 0) = s[1] /\ n(q, 1) = s[2] /\ n(q, 2) = s[3]
  BY DEF n
<1> HIDE DEF s, ts
<1>3. /\ s[1] \in Nat \ {0} /\ (ts \in {2, 3} => s[2] \in Nat \ {0})
      /\ (ts = 3 => s[3] \in Nat \ {0})
  BY <1>1
<1>4. ASSUME ts = 1 PROVE StepsInAll(s) = s[1] /\ StepsInAll(s) \in Nat
  <2>1. s = <<s[1]>>
    BY <1>1, <1>4
  <2> DEFINE a == s[1]
  <2> HIDE DEF a
  <2>2. a \in Nat
    BY <1>3 DEF a
  <2>3. StepsInAll(<<a>>) = a
    BY <2>2, StepsOfFew
  <2>4. StepsInAll(s) = a
    BY <2>1, <2>3 DEF a
  <2>. QED  BY <2>4, <2>2 DEF a
<1>5. ASSUME ts = 2 PROVE StepsInAll(s) = s[1] * s[2] /\ StepsInAll(s) \in Nat
  <2>1. s = <<s[1], s[2]>>
    BY <1>1, <1>5
  <2> DEFINE a == s[1]
             b == s[2]
  <2> HIDE DEF a, b
  <2>2. a \in Nat /\ b \in Nat
    BY <1>3, <1>5 DEF a, b
  <2>3. StepsInAll(<<a, b>>) = a * b
    BY <2>2, StepsOfFew
  <2>4. StepsInAll(s) = a * b
    BY <2>1, <2>3 DEF a, b
  <2>5. a * b \in Nat
    BY <2>2
  <2>. QED  BY <2>4, <2>5 DEF a, b
<1>6. ASSUME ts = 3 PROVE StepsInAll(s) = (s[1] * s[2]) * s[3] /\ StepsInAll(s) \in Nat
  <2>1. s = <<s[1], s[2], s[3]>>
    BY <1>1, <1>6
  <2> DEFINE a == s[1]
             b == s[2]
             c == s[3]
  <2> HIDE DEF a, b, c
  <2>2. a \in Nat /\ b \in Nat /\ c \in Nat
    BY <1>3, <1>6 DEF a, b, c
  <2>3. StepsInAll(<<a, b, c>>) = (a * b) * c
    BY <2>2, StepsOfFew
  <2>4. StepsInAll(s) = (a * b) * c
    BY <2>1, <2>3 DEF a, b, c
  <2>5. (a * b) * c \in Nat
    BY <2>2
  <2>. QED  BY <2>4, <2>5 DEF a, b, c
<1>7. /\ StepsInAll(s) \in Nat
      /\ ts = 1 => StepsInAll(s) = s[1]
      /\ ts = 2 => StepsInAll(s) = s[1] * s[2]
      /\ ts = 3 => StepsInAll(s) = (s[1] * s[2]) * s[3]
  <2>1. ts = 1 \/ ts = 2 \/ ts = 3
    BY <1>1
  <2>. QED  BY <1>4, <1>5, <1>6, <2>1
<1>8. getTau(q) \in Nat
  <2> DEFINE a == StepsInAll(s)
             t == 8 * LambdaUnit
  <2>1. t \in Nat
    BY LambdaAssumption
  <2>2. a \in Nat
    BY <1>7
  <2>3. getTau(q) = t * a
    BY DEF getTau, s
  <2> HIDE DEF a, t
  <2>. QED  BY <2>1, <2>2, <2>3
<1>. QED  BY <1>2, <1>3, <1>7, <1>8 DEF s, ts

LEMMA IntegratorIs ==
    ASSUME NEW q \in Integrable
    PROVE  integrator(q) = Word(WordsFor(q))
<1>1. /\ q.numTimescales \in 1 .. 3 /\ q.integrator[1] \in {"leapfrog", "twomn"}
  BY IntegrableParameters
<1>2. /\ getTau(q) \in Int /\ n(q, 0) \in Nat \ {0}
      /\ q.numTimescales \in {2, 3} => n(q, 1) \in Nat \ {0}
      /\ q.numTimescales = 3 => n(q, 2) \in Nat \ {0}
  <2>1. getTau(q) \in Nat
    BY StepsPositive
  <2>. QED  BY <2>1, StepsPositive
<1>3. /\ q.steps[1] = n(q, 0) /\ q.steps[2] = n(q, 1) /\ q.steps[3] = n(q, 2)
  BY DEF n
<1>4. CASE q.numTimescales = 1
  <2>1. TopWidth(q) = getTau(q) \div n(q, 0)
    BY <1>3, <1>4 DEF TopWidth
  <2>2. /\ leapfrog_1ts(q) = Word(LeapfrogBelow(IF q.useGaugeOnly THEN {"gauge"} ELSE TotalForce,
                                                TopWidth(q), n(q, 0)))
        /\ twomn_1ts(q) = Word(TwomnBelow(IF q.useGaugeOnly THEN {"gauge"} ELSE TotalForce, 1,
                                          TopWidth(q), n(q, 0)))
    BY <1>2, <2>1, Leapfrog1, Twomn1
  <2>. QED  BY <1>4, <2>2 DEF integrator, leapfrog, twomn, WordsFor
<1>5. CASE q.numTimescales = 2
  <2>1. TopWidth(q) = getTau(q) \div n(q, 1)
    BY <1>3, <1>5 DEF TopWidth
  <2>2. /\ leapfrog_2ts(q) = Word(Leapfrog2Words(q, TopWidth(q), TopWidth(q) \div n(q, 0)))
        /\ twomn_2ts(q) = Word(Twomn2Words(q, TopWidth(q), TopWidth(q) \div (2 * n(q, 0))))
    BY <1>2, <1>5, <2>1, Leapfrog2, Twomn2
  <2>. QED  BY <1>5, <2>2 DEF integrator, leapfrog, twomn, WordsFor
<1>6. CASE q.numTimescales = 3
  <2>1. TopWidth(q) = getTau(q) \div n(q, 2)
    BY <1>3, <1>6 DEF TopWidth
  <2>2. /\ leapfrog_3ts(q) = Word(Leapfrog3Words(q, TopWidth(q), TopWidth(q) \div n(q, 1),
                                                 (TopWidth(q) \div n(q, 1)) \div n(q, 0)))
        /\ twomn_3ts(q) = Word(Twomn3Words(q, TopWidth(q), TopWidth(q) \div (2 * n(q, 1)),
                                     (TopWidth(q) \div (2 * n(q, 1))) \div (2 * n(q, 0))))
    BY <1>2, <1>6, <2>1, Leapfrog3, Twomn3
  <2>. QED  BY <1>6, <2>2 DEF integrator, leapfrog, twomn, WordsFor
<1>7. q.numTimescales = 1 \/ q.numTimescales = 2 \/ q.numTimescales = 3
  BY <1>1
<1>. QED  BY <1>4, <1>5, <1>6, <1>7

LEMMA HalfThenPart ==
    ASSUME NEW x \in Int, NEW m \in Nat \ {0}
    PROVE  (x \div 2) \div m = x \div (2 * m)
<1> DEFINE a == x \div 2
           b == a \div m
           c == 2 * m
           r == x - 2 * a
           t == a - m * b
           mb == m * b
           cb == c * b
<1>1. a \in Int /\ r \in 0 .. 1 /\ x = 2 * a + r
  OBVIOUS
<1>2. b \in Int /\ t \in 0 .. m - 1 /\ a = mb + t /\ mb \in Int
  <2> HIDE DEF a
  <2>. QED  BY <1>1
<1>3. c \in Nat /\ c > 0 /\ cb = 2 * mb
  <2>1. \A i \in Int, j \in Int : (2 * i) * j = 2 * (i * j)
    OBVIOUS
  <2> HIDE DEF b
  <2>. QED  BY <1>2, <2>1
<1>4. x = cb + (2 * t + r) /\ 2 * t + r \in 0 .. c - 1
  <2> HIDE DEF a, b, t, r, mb, cb
  <2>. QED  BY <1>1, <1>2, <1>3
<1> DEFINE u == 2 * t + r
<1>5. x \div c = b
  <2>1. x = c * b + u /\ u \in 0 .. c - 1
    BY <1>4
  <2> HIDE DEF a, b, t, r, c, u
  <2>. QED  BY <1>2, <1>3, <2>1
<1>. QED  BY <1>5

ForceSets(q) ==
    IF q.numTimescales = 1 THEN {IF q.useGaugeOnly THEN {"gauge"} ELSE TotalForce}
    ELSE IF q.numTimescales = 2 THEN {{"gauge"}, {"det"}}
    ELSE {{"gauge"}, {"det_mp"}, {"detratio"}}

LEMMA SchemeOfLeapfrog ==
    ASSUME NEW q \in Integrable, q.integrator[1] = "leapfrog"
    PROVE  NestedScheme(q) = WordsFor(q).all
<1> DEFINE e == TopWidth(q)
           n0 == n(q, 0)
           n1 == n(q, 1)
           n2 == n(q, 2)
           F == IF q.useGaugeOnly THEN {"gauge"} ELSE TotalForce
<1>1. /\ q.numTimescales \in 1 .. 3 /\ n0 \in Nat \ {0}
      /\ q.numTimescales \in {2, 3} => n1 \in Nat \ {0}
      /\ q.numTimescales = 3 => n2 \in Nat \ {0}
  BY IntegrableParameters, StepsPositive
<1>2. e \in Int
  <2>1. getTau(q) \in Nat
    BY StepsPositive
  <2>2. q.steps[q.numTimescales] \in Nat \ {0}
    <3>1. \A i \in 1 .. q.numTimescales : q.steps[i] \in Nat \ {0}
      BY IntegrableParameters
    <3>2. q.numTimescales \in 1 .. q.numTimescales
      BY <1>1
    <3>. QED  BY <3>1, <3>2
  <2>. QED  BY <2>1, <2>2 DEF TopWidth
<1>3. /\ q.steps[1] = n0 /\ q.steps[2] = n1 /\ q.steps[3] = n2
  BY DEF n
<1>4. CASE q.numTimescales = 1
  <2>1. NestedScheme(q) = Repeat(n0, LeapfrogStep(F, e, 1, md_update_gaugefield))
    BY <1>3, <1>4 DEF NestedScheme, ForcesOf, TopWidth
  <2>2. WordsFor(q) = LeapfrogBelow(F, e, n0)
    BY <1>4 DEF WordsFor
  <2> DEFINE C == {F}
  <2>3. F \in C
    OBVIOUS
  <2> HIDE DEF F, C, e, n0
  <2>. QED  BY <1>1, <1>2, <2>1, <2>2, <2>3, LeapfrogScheme
<1>5. CASE q.numTimescales = 2
  <2> DEFINE d0 == e \div n0
             G == {"gauge"}
             E == {"det"}
             C == {G, E}
             w1 == LeapfrogBelow(G, d0, n0)
             S0 == Repeat(n0, LeapfrogStep(G, d0, 1, md_update_gaugefield))
  <2>1. NestedScheme(q) = Repeat(n1, Kick(E, e \div 2) \o S0 \o Kick(E, e \div 2))
    BY <1>3, <1>5 DEF NestedScheme, ForcesOf, TopWidth, LeapfrogStep, TwomnStep
  <2>2. WordsFor(q) = LeapfrogOn(w1, E, e, n1)
    BY <1>5 DEF WordsFor, Leapfrog2Words
  <2>3. d0 \in Int /\ G \in C /\ E \in C
    BY <1>1, <1>2
  <2> HIDE DEF d0, e, n0, n1, G, E, C
  <2>4. w1.all = S0
    BY <1>1, <2>3, LeapfrogScheme
  <2> HIDE DEF w1, S0
  <2>5. LeapfrogOn(w1, E, e, n1).all = Repeat(n1, Kick(E, e \div 2) \o w1.all \o Kick(E, e \div 2))
    BY <1>1, <1>2, <1>5, <2>3, LeapfrogScheme
  <2>. QED  BY <2>1, <2>2, <2>4, <2>5
<1>6. CASE q.numTimescales = 3
  <2> DEFINE d1 == e \div n1
             d0 == d1 \div n0
             G == {"gauge"}
             E == {"det_mp"}
             R == {"detratio"}
             C == {G, E, R}
             w1 == LeapfrogBelow(G, d0, n0)
             S0 == Repeat(n0, LeapfrogStep(G, d0, 1, md_update_gaugefield))
             w2 == LeapfrogOn(w1, E, d1, n1)
             S1 == Repeat(n1, Kick(E, d1 \div 2) \o S0 \o Kick(E, d1 \div 2))
  <2>1. NestedScheme(q) = Repeat(n2, Kick(R, e \div 2) \o S1 \o Kick(R, e \div 2))
    BY <1>3, <1>6 DEF NestedScheme, ForcesOf, TopWidth, LeapfrogStep, TwomnStep
  <2>2. WordsFor(q) = LeapfrogOn(w2, R, e, n2)
    BY <1>6 DEF WordsFor, Leapfrog3Words
  <2>3. d1 \in Int /\ G \in C /\ E \in C /\ R \in C
    BY <1>1, <1>2, <1>6
  <2>7. d0 \in Int
    <3> HIDE DEF d1
    <3>. QED  BY <1>1, <2>3
  <2> HIDE DEF d0, d1, e, n0, n1, n2, G, E, R, C
  <2>4. w1.all = S0
    BY <1>1, <2>3, <2>7, LeapfrogScheme
  <2> HIDE DEF w1, S0
  <2>5. w2.all = Repeat(n1, Kick(E, d1 \div 2) \o w1.all \o Kick(E, d1 \div 2))
    BY <1>1, <1>2, <1>6, <2>3, LeapfrogScheme
  <2>8. w2.all = S1
    BY <2>4, <2>5
  <2> HIDE DEF w2, S1
  <2>6. LeapfrogOn(w2, R, e, n2).all = Repeat(n2, Kick(R, e \div 2) \o w2.all \o Kick(R, e \div 2))
    BY <1>1, <1>2, <1>6, <2>3, LeapfrogScheme
  <2>. QED  BY <2>1, <2>2, <2>8, <2>6
<1>7. q.numTimescales = 1 \/ q.numTimescales = 2 \/ q.numTimescales = 3
  BY <1>1
<1>. QED  BY <1>4, <1>5, <1>6, <1>7

TwomnAll(w, F, i, d, m) ==
    TwomnOn(w, F, i, d, m).all
      = Repeat(m, Kick(F, Outer(i, d)) \o w.all \o Kick(F, d - 2 * Outer(i, d))
                  \o w.all \o Kick(F, Outer(i, d)))

LEMMA TwomnSchemeOn ==
    ASSUME NEW C, NEW F \in C, NEW i \in 1 .. 3, NEW d \in Int, NEW m \in Nat \ {0},
           NEW w \in WordsOf(Updating(C))
    PROVE  TwomnAll(w, F, i, d, m)
  BY TwomnScheme DEF TwomnAll

LEMMA SchemeOfTwomn ==
    ASSUME NEW q \in Integrable, q.integrator[1] # "leapfrog"
    PROVE  NestedScheme(q) = WordsFor(q).all
<1> DEFINE e == TopWidth(q)
           n0 == n(q, 0)
           n1 == n(q, 1)
           n2 == n(q, 2)
           F == IF q.useGaugeOnly THEN {"gauge"} ELSE TotalForce
<1>1. /\ q.numTimescales \in 1 .. 3 /\ n0 \in Nat \ {0}
      /\ q.numTimescales \in {2, 3} => n1 \in Nat \ {0}
      /\ q.numTimescales = 3 => n2 \in Nat \ {0}
      /\ 1 \in 1 .. 3 /\ 2 \in 1 .. 3 /\ 3 \in 1 .. 3
  <2>1. 1 \in 1 .. 3 /\ 2 \in 1 .. 3 /\ 3 \in 1 .. 3
    OBVIOUS
  <2>. QED  BY <2>1, IntegrableParameters, StepsPositive
<1>2. e \in Int
  <2>1. getTau(q) \in Nat
    BY StepsPositive
  <2>2. q.steps[q.numTimescales] \in Nat \ {0}
    <3>1. \A i \in 1 .. q.numTimescales : q.steps[i] \in Nat \ {0}
      BY IntegrableParameters
    <3>2. q.numTimescales \in 1 .. q.numTimescales
      BY <1>1
    <3>. QED  BY <3>1, <3>2
  <2>. QED  BY <2>1, <2>2 DEF TopWidth
<1>3. /\ q.steps[1] = n0 /\ q.steps[2] = n1 /\ q.steps[3] = n2
  BY DEF n
<1>4. CASE q.numTimescales = 1
  <2>1. NestedScheme(q) = Repeat(n0, TwomnStep(F, 1, e, 1, md_update_gaugefield))
    BY <1>3, <1>4 DEF NestedScheme, ForcesOf, TopWidth
  <2>2. WordsFor(q) = TwomnBelow(F, 1, e, n0)
    BY <1>4 DEF WordsFor
  <2> DEFINE C == {F}
  <2>3. F \in C
    OBVIOUS
  <2> HIDE DEF F, C, e, n0
  <2>4. TwomnBelow(F, 1, e, n0).all = Repeat(n0, TwomnStep(F, 1, e, 1, md_update_gaugefield))
    BY <1>1, <1>2, <2>3, TwomnScheme
  <2>. QED  BY <2>1, <2>2, <2>4
<1>5. CASE q.numTimescales = 2
  <2> DEFINE d0 == e \div (2 * n0)
             x0 == (e \div 2) \div n0
             G == {"gauge"}
             E == {"det"}
             C == {G, E}
             A == Updating(C)
             w1 == TwomnBelow(G, 1, d0, n0)
             S(x) == Repeat(n0, TwomnStep(G, 1, x, 1, md_update_gaugefield))
             h == Kick(E, Outer(2, e))
             m == Kick(E, e - 2 * Outer(2, e))
  <2>1. NestedScheme(q) = Repeat(n1, h \o S(x0) \o m \o S(x0) \o h)
    BY <1>3, <1>5 DEF NestedScheme, ForcesOf, TopWidth, LeapfrogStep, TwomnStep, Outer
  <2>2. WordsFor(q) = TwomnOn(w1, E, 2, e, n1)
    BY <1>5 DEF WordsFor, Twomn2Words
  <2>3. d0 \in Int /\ x0 = d0 /\ G \in C /\ E \in C
    <3>1. x0 = d0
      <4> HIDE DEF e, n0
      <4>. QED  BY <1>1, <1>2, HalfThenPart
    <3>2. x0 \in Int
      <4> HIDE DEF e, n0
      <4>. QED  BY <1>1, <1>2
    <3>. QED  BY <3>1, <3>2
  <2> HIDE DEF d0, e, n0, n1, G, E, C, x0
  <2>4. w1.all = S(d0)
    BY <1>1, <2>3, TwomnScheme
  <2>6. w1 \in WordsOf(A)
    BY <1>1, <2>3, TwomnTypes
  <2> HIDE DEF w1, S
  <2>5. TwomnOn(w1, E, 2, e, n1).all = Repeat(n1, h \o w1.all \o m \o w1.all \o h)
    <3>1. TwomnAll(w1, E, 2, e, n1)
      BY <1>1, <1>2, <1>5, <2>3, <2>6, TwomnSchemeOn
    <3>. QED  BY <3>1 DEF TwomnAll
  <2>. QED  BY <2>1, <2>2, <2>3, <2>4, <2>5
<1>6. CASE q.numTimescales = 3
  <2> DEFINE d1 == e \div (2 * n1)
             x1 == (e \div 2) \div n1
             d0 == d1 \div (2 * n0)
             x0(x) == (x \div 2) \div n0
             G == {"gauge"}
             E == {"det_mp"}
             R == {"detratio"}
             C == {G, E, R}
             A == Updating(C)
             w1 == TwomnBelow(G, 1, d0, n0)
             S(x) == Repeat(n0, TwomnStep(G, 1, x, 1, md_update_gaugefield))
             h1(x) == Kick(E, Outer(2, x))
             m1(x) == Kick(E, x - 2 * Outer(2, x))
             T(x) == Repeat(n1, h1(x) \o S(x0(x)) \o m1(x) \o S(x0(x)) \o h1(x))
             w2 == TwomnOn(w1, E, 2, d1, n1)
             h == Kick(R, Outer(3, e))
             m == Kick(R, e - 2 * Outer(3, e))
  <2>1. NestedScheme(q) = Repeat(n2, h \o T(x1) \o m \o T(x1) \o h)
    BY <1>3, <1>6 DEF NestedScheme, ForcesOf, TopWidth, LeapfrogStep, TwomnStep, Outer
  <2>2. WordsFor(q) = TwomnOn(w2, R, 3, e, n2)
    BY <1>6 DEF WordsFor, Twomn3Words
  <2>3. d1 \in Int /\ x1 = d1 /\ G \in C /\ E \in C /\ R \in C
    <3>1. x1 = d1
      <4> HIDE DEF e, n1
      <4>. QED  BY <1>1, <1>2, <1>6, HalfThenPart
    <3>2. x1 \in Int
      <4> HIDE DEF e, n1
      <4>. QED  BY <1>1, <1>2, <1>6
    <3>. QED  BY <3>1, <3>2
  <2>4. d0 \in Int /\ x0(d1) = d0
    <3>1. x0(d1) = d0
      <4> HIDE DEF d1, n0
      <4>. QED  BY <1>1, <2>3, HalfThenPart
    <3>2. x0(d1) \in Int
      <4> HIDE DEF d1, n0
      <4>. QED  BY <1>1, <2>3
    <3>. QED  BY <3>1, <3>2
  <2> HIDE DEF d0, d1, e, n0, n1, n2, G, E, R, C, x1, x0
  <2>5. w1.all = S(d0)
    BY <1>1, <2>3, <2>4, TwomnScheme
  <2>6. w1 \in WordsOf(A)
    BY <1>1, <2>3, <2>4, TwomnTypes
  <2> HIDE DEF w1, S
  <2>7. w2.all = Repeat(n1, h1(d1) \o w1.all \o m1(d1) \o w1.all \o h1(d1))
    <3>1. TwomnAll(w1, E, 2, d1, n1)
      BY <1>1, <1>6, <2>3, <2>6, TwomnSchemeOn
    <3>. QED  BY <3>1 DEF TwomnAll
  <2>8. w2.all = T(d1)
    BY <2>4, <2>5, <2>7
  <2>9. w2 \in WordsOf(A)
    BY <1>1, <1>6, <2>3, <2>6, TwomnTypes
  <2> HIDE DEF w2, T
  <2>10. TwomnOn(w2, R, 3, e, n2).all = Repeat(n2, h \o w2.all \o m \o w2.all \o h)
    <3>1. TwomnAll(w2, R, 3, e, n2)
      BY <1>1, <1>2, <1>6, <2>3, <2>9, TwomnSchemeOn
    <3>. QED  BY <3>1 DEF TwomnAll
  <2>. QED  BY <2>1, <2>2, <2>3, <2>8, <2>10
<1>7. q.numTimescales = 1 \/ q.numTimescales = 2 \/ q.numTimescales = 3
  BY <1>1
<1>. QED  BY <1>4, <1>5, <1>6, <1>7

LEMMA SchemeIs ==
    ASSUME NEW q \in Integrable
    PROVE  NestedScheme(q) = WordsFor(q).all
  BY SchemeOfLeapfrog, SchemeOfTwomn

TimeUnit == 8 * LambdaUnit

LEMMA Dividing ==
    ASSUME NEW x \in Nat, NEW m \in Nat \ {0}
    PROVE  (TimeUnit * (x * m)) \div m = TimeUnit * x /\ (TimeUnit * x) % 2 = 0 /\ TimeUnit * x \in Int
<1>1. LambdaUnit \in Nat
  BY LambdaAssumption
<1> DEFINE c == TimeUnit
           y == c * x
           z == 4 * LambdaUnit
           zx == z * x
<1>2. c \in Nat /\ z \in Nat /\ c = 2 * z
  BY <1>1 DEF TimeUnit
<1> HIDE DEF c, z
<1>3. \A i \in Nat, j \in Nat, k \in Nat : i * (j * k) = (i * j) * k
  OBVIOUS
<1>4. c * (x * m) = y * m /\ y \in Nat
  BY <1>2, <1>3
<1>5. y = 2 * zx /\ zx \in Nat
  <2>1. (2 * z) * x = 2 * (z * x)
    BY <1>2, <1>3
  <2>. QED  BY <1>2, <2>1
<1> HIDE DEF y, zx
<1>6. (y * m) \div m = y
  BY <1>4, Exactly
<1>7. y % 2 = 0
  BY <1>5
<1>. QED  BY <1>4, <1>6, <1>7 DEF y, c

LEMMA Widths ==
    ASSUME NEW q \in Integrable
    PROVE  /\ TopWidth(q) \in Int /\ TopWidth(q) % 2 = 0
           /\ q.numTimescales = 2 =>
                 TopWidth(q) \div n(q, 0) \in Int /\ (TopWidth(q) \div n(q, 0)) % 2 = 0
           /\ q.numTimescales = 3 =>
                 /\ TopWidth(q) \div n(q, 1) \in Int /\ (TopWidth(q) \div n(q, 1)) % 2 = 0
                 /\ (TopWidth(q) \div n(q, 1)) \div n(q, 0) \in Int
                 /\ ((TopWidth(q) \div n(q, 1)) \div n(q, 0)) % 2 = 0
<1> DEFINE a == n(q, 0)
           b == n(q, 1)
           c == n(q, 2)
           e == TopWidth(q)
<1>1. /\ q.numTimescales \in 1 .. 3 /\ a \in Nat \ {0}
      /\ q.numTimescales \in {2, 3} => b \in Nat \ {0}
      /\ q.numTimescales = 3 => c \in Nat \ {0}
  BY IntegrableParameters, StepsPositive
<1>2. /\ q.steps[1] = a /\ q.steps[2] = b /\ q.steps[3] = c
  BY DEF n
<1>3. getTau(q) = TimeUnit * StepsInAll(q.steps)
  BY DEF getTau, TimeUnit
<1> DEFINE o == 1
<1>0. o \in Nat
  OBVIOUS
<1>9. TimeUnit * o = TimeUnit
  BY LambdaAssumption DEF TimeUnit
<1>4. CASE q.numTimescales = 1
  <2>1. e = (TimeUnit * a) \div a
    BY <1>2, <1>3, <1>4, StepsPositive DEF TopWidth
  <2> HIDE DEF e, a
  <2>2. o * a = a
    BY <1>1
  <2> HIDE DEF o
  <2>3. (TimeUnit * (o * a)) \div a = TimeUnit * o /\ (TimeUnit * o) % 2 = 0 /\ TimeUnit * o \in Int
    BY <1>0, <1>1, Dividing
  <2>4. e = TimeUnit * o
    BY <2>1, <2>2, <2>3
  <2>. QED  BY <1>4, <2>3, <2>4 DEF e
<1>5. CASE q.numTimescales = 2
  <2>1. e = (TimeUnit * (a * b)) \div b
    BY <1>2, <1>3, <1>5, StepsPositive DEF TopWidth
  <2> HIDE DEF e, a, b
  <2>2. o * a = a
    BY <1>1
  <2> HIDE DEF o
  <2>3. (TimeUnit * (o * a)) \div a = TimeUnit * o /\ (TimeUnit * o) % 2 = 0 /\ TimeUnit * o \in Int
    BY <1>0, <1>1, Dividing
  <2>4. (TimeUnit * (a * b)) \div b = TimeUnit * a /\ (TimeUnit * a) % 2 = 0 /\ TimeUnit * a \in Int
    BY <1>1, <1>5, Dividing
  <2>5. e = TimeUnit * a /\ e \div a = TimeUnit * o
    BY <2>1, <2>2, <2>3, <2>4
  <2>. QED  BY <1>5, <2>3, <2>4, <2>5 DEF e, a
<1>6. CASE q.numTimescales = 3
  <2> DEFINE ab == a * b
  <2>1. e = (TimeUnit * (ab * c)) \div c
    BY <1>2, <1>3, <1>6, StepsPositive DEF TopWidth
  <2>6. ab \in Nat
    <3> HIDE DEF a, b
    <3>. QED  BY <1>1, <1>6
  <2> HIDE DEF e, a, b, c
  <2>2. o * a = a
    BY <1>1
  <2> HIDE DEF o
  <2>3. (TimeUnit * (o * a)) \div a = TimeUnit * o /\ (TimeUnit * o) % 2 = 0 /\ TimeUnit * o \in Int
    BY <1>0, <1>1, Dividing
  <2>4. (TimeUnit * (a * b)) \div b = TimeUnit * a /\ (TimeUnit * a) % 2 = 0 /\ TimeUnit * a \in Int
    BY <1>1, <1>6, Dividing
  <2>7. (TimeUnit * (ab * c)) \div c = TimeUnit * ab /\ (TimeUnit * ab) % 2 = 0 /\ TimeUnit * ab \in Int
    <3> HIDE DEF ab
    <3>. QED  BY <1>1, <1>6, <2>6, Dividing
  <2>5. e = TimeUnit * ab /\ e \div b = TimeUnit * a /\ (e \div b) \div a = TimeUnit * o
    BY <2>1, <2>2, <2>3, <2>4, <2>7
  <2>. QED  BY <1>6, <2>3, <2>4, <2>5, <2>7 DEF e, a, b
<1>7. q.numTimescales = 1 \/ q.numTimescales = 2 \/ q.numTimescales = 3
  BY <1>1
<1>. QED  BY <1>4, <1>5, <1>6, <1>7

\* What holds of the gauge field and is passed on by every way of building a
\* timescale on another holds of the parameter set's.
Closed(W, C) ==
    /\ \A d \in Int : BottomOf(md_update_gaugefield(d)) \in W
    /\ \A w \in W, F \in C, d \in Int, m \in Nat \ {0} :
          /\ d % 2 = 0 => LeapfrogOn(w, F, d, m) \in W
          /\ \A i \in 1 .. 3 : TwomnOn(w, F, i, d, m) \in W

LEMMA AllLevels ==
    ASSUME NEW q \in Integrable, NEW W, Closed(W, ForceSets(q))
    PROVE  WordsFor(q) \in W
<1> DEFINE e == TopWidth(q)
           n0 == n(q, 0)
           n1 == n(q, 1)
           n2 == n(q, 2)
           F == IF q.useGaugeOnly THEN {"gauge"} ELSE TotalForce
           C == ForceSets(q)
           OK(w) == w \in W
           U(d) == BottomOf(md_update_gaugefield(d))
<1>1. /\ q.numTimescales \in 1 .. 3 /\ n0 \in Nat \ {0}
      /\ q.numTimescales \in {2, 3} => n1 \in Nat \ {0}
      /\ q.numTimescales = 3 => n2 \in Nat \ {0}
      /\ 1 \in 1 .. 3 /\ 2 \in 1 .. 3 /\ 3 \in 1 .. 3
  <2>1. 1 \in 1 .. 3 /\ 2 \in 1 .. 3 /\ 3 \in 1 .. 3
    OBVIOUS
  <2>. QED  BY <2>1, IntegrableParameters, StepsPositive
<1>2. e \in Int /\ e % 2 = 0
  BY Widths
<1>3. /\ q.numTimescales = 1 => F \in C
      /\ q.numTimescales = 2 => {"gauge"} \in C /\ {"det"} \in C
      /\ q.numTimescales = 3 => {"gauge"} \in C /\ {"det_mp"} \in C /\ {"detratio"} \in C
  BY DEF ForceSets
<1>4. Closed(W, C)
  OBVIOUS
<1>5. \A d \in Int : OK(U(d))
  <2> HIDE DEF C
  <2>. QED  BY <1>4 DEF Closed
<1>6. CASE q.numTimescales = 1
  <2>1. WordsFor(q) = IF q.integrator[1] = "leapfrog" THEN LeapfrogOn(U(e), F, e, n0)
                      ELSE TwomnOn(U(e \div 2), F, 1, e, n0)
    BY <1>6 DEF WordsFor, LeapfrogBelow, TwomnBelow
  <2> DEFINE u == U(e)
             v == U(e \div 2)
  <2>2. OK(u) /\ OK(v)
    BY <1>2, <1>5
  <2> HIDE DEF C, F, e, n0, u, v
  <2>3. OK(LeapfrogOn(u, F, e, n0)) /\ OK(TwomnOn(v, F, 1, e, n0))
    BY <1>1, <1>2, <1>3, <1>4, <1>6, <2>2 DEF Closed
  <2>. QED  BY <2>1, <2>3 DEF C, u, v
<1>7. CASE q.numTimescales = 2
  <2> DEFINE E == {"det"}
             H == {"gauge"}
             d == e \div n0
             x == e \div (2 * n0)
             u == U(d)
             v == U(x \div 2)
             u1 == LeapfrogOn(u, H, d, n0)
             v1 == TwomnOn(v, H, 1, x, n0)
  <2>1. WordsFor(q) = IF q.integrator[1] = "leapfrog" THEN LeapfrogOn(u1, E, e, n1)
                      ELSE TwomnOn(v1, E, 2, e, n1)
    BY <1>7 DEF WordsFor, Leapfrog2Words, Twomn2Words, LeapfrogBelow, TwomnBelow
  <2>2. d \in Int /\ d % 2 = 0 /\ E \in C /\ H \in C
    BY <1>3, <1>7, Widths
  <2>3. x \in Int /\ x \div 2 \in Int
    <3>1. x \in Int
      <4> HIDE DEF e, n0
      <4>. QED  BY <1>1, <1>2
    <3> HIDE DEF x
    <3>. QED  BY <3>1
  <2> HIDE DEF C, E, H, e, d, x, n0, n1
  <2>4. OK(u) /\ OK(v)
    BY <2>2, <2>3, <1>5
  <2> HIDE DEF u, v
  <2>5. OK(u1) /\ OK(v1)
    BY <1>1, <1>4, <2>2, <2>3, <2>4 DEF Closed
  <2> HIDE DEF u1, v1
  <2>6. OK(LeapfrogOn(u1, E, e, n1)) /\ OK(TwomnOn(v1, E, 2, e, n1))
    BY <1>1, <1>2, <1>4, <1>7, <2>2, <2>5 DEF Closed
  <2>. QED  BY <2>1, <2>6 DEF C
<1>8. CASE q.numTimescales = 3
  <2> DEFINE R == {"detratio"}
             E == {"det_mp"}
             H == {"gauge"}
             d1 == e \div n1
             d == d1 \div n0
             x1 == e \div (2 * n1)
             x == x1 \div (2 * n0)
             u == U(d)
             v == U(x \div 2)
             u1 == LeapfrogOn(u, H, d, n0)
             v1 == TwomnOn(v, H, 1, x, n0)
             u2 == LeapfrogOn(u1, E, d1, n1)
             v2 == TwomnOn(v1, E, 2, x1, n1)
  <2>1. WordsFor(q) = IF q.integrator[1] = "leapfrog" THEN LeapfrogOn(u2, R, e, n2)
                      ELSE TwomnOn(v2, R, 3, e, n2)
    BY <1>8 DEF WordsFor, Leapfrog3Words, Twomn3Words, LeapfrogBelow, TwomnBelow
  <2>2. d1 \in Int /\ d1 % 2 = 0 /\ d \in Int /\ d % 2 = 0 /\ E \in C /\ H \in C /\ R \in C
    BY <1>3, <1>8, Widths
  <2>3. x1 \in Int /\ x \in Int /\ x \div 2 \in Int
    <3>1. x1 \in Int
      <4> HIDE DEF e, n1
      <4>. QED  BY <1>1, <1>2, <1>8
    <3>2. x \in Int
      <4> HIDE DEF x1, n0
      <4>. QED  BY <1>1, <3>1
    <3> HIDE DEF x
    <3>. QED  BY <3>1, <3>2
  <2> HIDE DEF C, E, H, R, e, d, d1, x, x1, n0, n1, n2
  <2>4. OK(u) /\ OK(v)
    BY <2>2, <2>3, <1>5
  <2> HIDE DEF u, v
  <2>5. OK(u1) /\ OK(v1)
    BY <1>1, <1>4, <2>2, <2>3, <2>4 DEF Closed
  <2> HIDE DEF u1, v1
  <2>7. OK(u2) /\ OK(v2)
    BY <1>1, <1>4, <1>8, <2>2, <2>3, <2>5 DEF Closed
  <2> HIDE DEF u2, v2
  <2>6. OK(LeapfrogOn(u2, R, e, n2)) /\ OK(TwomnOn(v2, R, 3, e, n2))
    BY <1>1, <1>2, <1>4, <1>8, <2>2, <2>7 DEF Closed
  <2>. QED  BY <2>1, <2>6 DEF C
<1>9. q.numTimescales = 1 \/ q.numTimescales = 2 \/ q.numTimescales = 3
  BY <1>1
<1>. QED  BY <1>6, <1>7, <1>8, <1>9

LEMMA WordsOK ==
    ASSUME NEW q \in Integrable, NEW D, NEW G, KickRules(G, D, ForceSets(q))
    PROVE  LevelOK(G, D, ForceSets(q), WordsFor(q))
<1> DEFINE C == ForceSets(q)
           W == {w \in WordsOf(Updating(C)) : LevelOK(G, D, C, w)}
<1>1. KickRules(G, D, C)
  OBVIOUS
<1> HIDE DEF C
<1>2. \A w : LevelOK(G, D, C, w) => w \in W
  BY DEF LevelOK
<1>3. ASSUME NEW d \in Int PROVE BottomOf(md_update_gaugefield(d)) \in W
  <2>1. LevelOK(G, D, C, BottomOf(md_update_gaugefield(d)))
    BY <1>1, BottomOK
  <2>. QED  BY <1>2, <2>1
<1>4. ASSUME NEW w \in W, NEW F \in C, NEW d \in Int, NEW m \in Nat \ {0}, d % 2 = 0
      PROVE  LeapfrogOn(w, F, d, m) \in W
  <2>1. LevelOK(G, D, C, w)
    OBVIOUS
  <2>2. LevelOK(G, D, C, LeapfrogOn(w, F, d, m))
    BY <1>1, <1>4, <2>1, LeapfrogOK
  <2>. QED  BY <1>2, <2>2
<1>5. ASSUME NEW w \in W, NEW F \in C, NEW d \in Int, NEW m \in Nat \ {0}, NEW i \in 1 .. 3
      PROVE  TwomnOn(w, F, i, d, m) \in W
  <2>1. LevelOK(G, D, C, w)
    OBVIOUS
  <2>2. LevelOK(G, D, C, TwomnOn(w, F, i, d, m))
    BY <1>1, <2>1, TwomnOK
  <2>. QED  BY <1>2, <2>2
<1>6. \A w \in W : LevelOK(G, D, C, w)
  OBVIOUS
<1> HIDE DEF W
<1>7. Closed(W, C)
  BY <1>3, <1>4, <1>5 DEF Closed
<1>8. WordsFor(q) \in W
  BY <1>7, AllLevels DEF C
<1>. QED  BY <1>6, <1>8 DEF C

\* Whatever the kicks do, as long as they commute: the code's sequence of
\* updates does what the nested scheme does.
LEMMA SameRun ==
    ASSUME NEW q \in Integrable, NEW D, NEW G, KickRules(G, D, ForceSets(q)), NEW d \in D
    PROVE  /\ Run(G, d, integrator(q)) = Run(G, d, NestedScheme(q))
           /\ integrator(q) \in Seq(Updating(ForceSets(q)))
           /\ NestedScheme(q) \in Seq(Updating(ForceSets(q)))
<1> DEFINE w == WordsFor(q)
           C == ForceSets(q)
<1>1. integrator(q) = Word(w) /\ NestedScheme(q) = w.all
  BY IntegratorIs, SchemeIs
<1>2. LevelOK(G, D, C, w) /\ KickRules(G, D, C)
  BY WordsOK
<1> HIDE DEF w, C
<1>3. Run(G, d, Word(w)) = Run(G, d, w.all)
  BY <1>2, LevelRuns
<1>4. Word(w) \in Seq(Updating(C)) /\ w.all \in Seq(Updating(C))
  BY <1>2, WordFields DEF LevelOK, Word
<1>. QED  BY <1>1, <1>3, <1>4 DEF C
------------------------------------------------------------------------------
(* Merging *)

KickOf(F, x) == [forces |-> F, eps |-> x]

LEMMA KickActs ==
    ASSUME NEW D, NEW C, NEW G, Machine(G, D, Updating(C)), NEW F \in C \cup {{}}, NEW x \in Int,
           NEW d \in D
    PROVE  /\ Act(G, D, Kick(F, x))[d] = G[d][KickOf(F, x)]
           /\ G[d][KickOf(F, x)] \in D
<1> DEFINE A == Updating(C)
           u == KickOf(F, x)
<1>1. u \in A /\ Kick(F, x) = <<u>>
  BY DEF Updating, KickOf, Kick
<1>2. Machine(G, D, A)
  OBVIOUS
<1> HIDE DEF A, u
<1>3. Run(G, d, <<u>>) = G[d][u] /\ G[d][u] \in D
  BY <1>1, <1>2, RunOfFew
<1>. QED  BY <1>1, <1>3 DEF Act, u

Merges == [kicks : [Forces -> Int], done : Seq([Forces -> Int] \X Int)]
NoKick == [f \in Forces |-> 0]
Kicked(k, u) == [f \in Forces |-> k[f] + IF f \in u.forces THEN u.eps ELSE 0]

AddOf(acc, u) ==
    IF u.forces = {}
    THEN [kicks |-> NoKick, done |-> Append(acc.done, <<acc.kicks, u.eps>>)]
    ELSE [acc EXCEPT !.kicks = Kicked(acc.kicks, u)]

Adding(A) == [acc \in Merges |-> [u \in A |-> AddOf(acc, u)]]

LEMMA AddingMachine ==
    ASSUME NEW C
    PROVE  Machine(Adding(Updating(C)), Merges, Updating(C)) /\ [kicks |-> NoKick, done |-> <<>>] \in Merges
<1> DEFINE A == Updating(C)
<1>1. ASSUME NEW acc \in Merges, NEW u \in A PROVE AddOf(acc, u) \in Merges
  <2>1. acc.kicks \in [Forces -> Int] /\ acc.done \in Seq([Forces -> Int] \X Int)
    BY DEF Merges
  <2>2. NoKick \in [Forces -> Int]
    BY DEF NoKick
  <2>3. u.eps \in Int
    BY DEF Updating
  <2>4. Kicked(acc.kicks, u) \in [Forces -> Int]
    BY <2>1, <2>3 DEF Kicked
  <2>5. <<acc.kicks, u.eps>> \in [Forces -> Int] \X Int
    BY <2>1, <2>3
  <2> DEFINE B == [Forces -> Int] \X Int
             b == <<acc.kicks, u.eps>>
  <2>7. acc.done \in Seq(B) /\ b \in B
    BY <2>1, <2>5
  <2>6. Append(acc.done, b) \in Seq(B)
    <3> HIDE DEF B, b
    <3>. QED  BY <2>7, AppendProperties
  <2> HIDE DEF B, b
  <2>8. [kicks |-> NoKick, done |-> Append(acc.done, b)] \in [kicks : [Forces -> Int], done : Seq(B)]
    BY <2>2, <2>6
  <2>9. [kicks |-> Kicked(acc.kicks, u), done |-> acc.done] \in [kicks : [Forces -> Int], done : Seq(B)]
    BY <2>4, <2>1, <2>7
  <2>10. Merges = [kicks : [Forces -> Int], done : Seq(B)]
    BY DEF Merges, B
  <2>11. [acc EXCEPT !.kicks = Kicked(acc.kicks, u)] = [kicks |-> Kicked(acc.kicks, u), done |-> acc.done]
    <3>1. acc \in [kicks : [Forces -> Int], done : Seq(B)]
      BY <2>10
    <3> DEFINE k == Kicked(acc.kicks, u)
    <3> HIDE DEF k
    <3>2. [acc EXCEPT !.kicks = k] = [kicks |-> k, done |-> acc.done]
      BY <3>1
    <3>. QED  BY <3>2 DEF k
  <2>. QED  BY <2>8, <2>9, <2>10, <2>11 DEF AddOf, b
<1>2. [kicks |-> NoKick, done |-> <<>>] \in Merges
  <2> DEFINE B == [Forces -> Int] \X Int
  <2>1. <<>> \in Seq(B)
    <3> HIDE DEF B
    <3>. QED  OBVIOUS
  <2>2. NoKick \in [Forces -> Int]
    BY DEF NoKick
  <2> HIDE DEF B
  <2>. QED  BY <2>1, <2>2 DEF Merges, B
<1> HIDE DEF A
<1>3. Adding(A) \in [Merges -> [A -> Merges]]
  BY <1>1 DEF Adding
<1>. QED  BY <1>2, <1>3 DEF Machine, A

LEMMA MergedRuns ==
    ASSUME NEW C, NEW s \in Seq(Updating(C))
    PROVE  Merged(s) = Run(Adding(Updating(C)), [kicks |-> NoKick, done |-> <<>>], s)
<1> DEFINE U == Updating(C)
           G == Adding(U)
           a == [kicks |-> NoKick, done |-> <<>>]
           T == SUBSET (DOMAIN s)
           None == [f \in Forces |-> 0]
           Op(acc, u) == IF u.forces = {}
                         THEN [kicks |-> None, done |-> Append(acc.done, <<acc.kicks, u.eps>>)]
                         ELSE [acc EXCEPT !.kicks = [f \in Forces |->
                                  acc.kicks[f] + IF f \in u.forces THEN u.eps ELSE 0]]
           A(h) == h = [S \in T |-> IF S = {} THEN [kicks |-> None, done |-> <<>>]
                                    ELSE Op(h[S \ {Max(S)}], s[Max(S)])]
<1>1. Machine(G, Merges, U) /\ a \in Merges
  BY AddingMachine
<1>2. Foldable(G, Merges, a, s) /\ FoldedBack(G, Merges, a, s)
  <2> HIDE DEF G, a, U
  <2>1. s \in Seq(U)
    BY DEF U
  <2>. QED  BY <1>1, <2>1, Folding
<1>3. Merged(s) = (CHOOSE h : A(h))[DOMAIN s]
  BY DEF Merged, FoldLeft, MapThenFoldSet
<1>4. \A acc, u : Op(acc, u) = AddOf(acc, u)
  BY DEF AddOf, Kicked, NoKick
<1>5. [kicks |-> None, done |-> <<>>] = a
  BY DEF NoKick
<1>6. \A acc \in Merges, u \in U : G[acc][u] = AddOf(acc, u)
  BY DEF Adding
<1>7. \A S \in T : S # {} => s[Max(S)] \in U /\ S \ {Max(S)} \in T
  <2> HIDE DEF U
  <2>1. s \in Seq(U)
    BY DEF U
  <2>. QED  BY <2>1, MaxInDomain
<1>8. {} \in T /\ DOMAIN s \in T
  OBVIOUS
<1> DEFINE B(h) == h = [S \in T |-> IF S = {} THEN a ELSE AddOf(h[S \ {Max(S)}], s[Max(S)])]
<1>9. \A h : A(h) <=> B(h)
  <2> HIDE DEF a, None
  <2>1. ASSUME NEW h
        PROVE  [S \in T |-> IF S = {} THEN [kicks |-> None, done |-> <<>>]
                                    ELSE Op(h[S \ {Max(S)}], s[Max(S)])]
               = [S \in T |-> IF S = {} THEN a ELSE AddOf(h[S \ {Max(S)}], s[Max(S)])]
    BY <1>4, <1>5
  <2>. QED  BY <2>1
<1> HIDE DEF Op, T, G, U, a, None
<1>10. \E h : B(h)
  <2>1. PICK h \in [T -> Merges] :
           \A S \in T : h[S] = IF S = {} THEN a ELSE G[h[S \ {Max(S)}]][s[Max(S)]]
    BY <1>2 DEF Foldable, T
  <2>2. ASSUME NEW S \in T, S # {}
        PROVE  G[h[S \ {Max(S)}]][s[Max(S)]] = AddOf(h[S \ {Max(S)}], s[Max(S)])
    BY <2>1, <2>2, <1>6, <1>7
  <2>3. ASSUME NEW S \in T
        PROVE  h[S] = IF S = {} THEN a ELSE AddOf(h[S \ {Max(S)}], s[Max(S)])
    BY <2>1, <2>2
  <2>4. h = [S \in T |-> h[S]]
    BY <2>1
  <2>5. [S \in T |-> h[S]] = [S \in T |-> IF S = {} THEN a ELSE AddOf(h[S \ {Max(S)}], s[Max(S)])]
    BY <2>3
  <2>6. B(h)
    BY <2>4, <2>5
  <2> HIDE DEF B
  <2>. QED  BY <2>6
<1>11. (CHOOSE h : A(h)) = (CHOOSE h : B(h))
  <2> HIDE DEF A, B
  <2>. QED  BY <1>9, Zenon
<1> DEFINE h == CHOOSE h : B(h)
<1>12. B(h)
  <2> HIDE DEF B
  <2>. QED  BY <1>10
<1>13. RunsBack(h, G, Merges, a, s)
  <2> HIDE DEF h
  <2>1. ASSUME NEW S \in T, S # {}, h[S \ {Max(S)}] \in Merges
        PROVE  h[S] = G[h[S \ {Max(S)}]][s[Max(S)]]
    <3>1. h[S] = AddOf(h[S \ {Max(S)}], s[Max(S)])
      BY <1>12, <2>1
    <3>. QED  BY <2>1, <3>1, <1>6, <1>7
  <2>2. h[{}] = a
    BY <1>12, <1>8
  <2>. QED  BY <2>1, <2>2 DEF RunsBack, T
<1>14. h[DOMAIN s] = Run(G, a, s)
  <2> HIDE DEF h
  <2>. QED  BY <1>13, <1>2 DEF FoldedBack
<1> HIDE DEF A, B, h
<1>. QED  BY <1>3, <1>11, <1>14 DEF h, G, U, a

LEMMA KicksAddUp ==
    ASSUME NEW C, {} \notin C
    PROVE  KickRules(Adding(Updating(C)), Merges, C)
<1> DEFINE A == Updating(C)
           G == Adding(A)
<1>1. Machine(G, Merges, A)
  BY AddingMachine
<1>2. \A acc \in Merges, F \in C, x \in Int : G[acc][KickOf(F, x)] = [acc EXCEPT !.kicks = Kicked(acc.kicks, KickOf(F, x))]
  <2>1. \A F \in C, x \in Int : KickOf(F, x) \in A /\ KickOf(F, x).forces # {}
    BY DEF KickOf, Updating
  <2>. QED  BY <2>1 DEF Adding, AddOf
<1>3. \A acc \in Merges, F \in C, x \in Int :
         /\ Act(G, Merges, Kick(F, x))[acc] = [acc EXCEPT !.kicks = Kicked(acc.kicks, KickOf(F, x))]
         /\ [acc EXCEPT !.kicks = Kicked(acc.kicks, KickOf(F, x))] \in Merges
  <2> TAKE acc \in Merges, F \in C, x \in Int
  <2>1. Act(G, Merges, Kick(F, x))[acc] = G[acc][KickOf(F, x)] /\ G[acc][KickOf(F, x)] \in Merges
    <3> HIDE DEF G
    <3>1. Machine(G, Merges, Updating(C))
      BY <1>1
    <3>. QED  BY <3>1, KickActs
  <2> HIDE DEF G
  <2>. QED  BY <2>1, <1>2
<1> DEFINE K(acc, F, x) == [acc EXCEPT !.kicks = Kicked(acc.kicks, KickOf(F, x))]
<1>4. ASSUME NEW acc \in Merges, NEW E \in C, NEW F \in C, NEW x \in Int, NEW y \in Int
      PROVE  /\ Kicked(Kicked(acc.kicks, KickOf(E, x)), KickOf(F, y))
                = Kicked(Kicked(acc.kicks, KickOf(F, y)), KickOf(E, x))
             /\ Kicked(acc.kicks, KickOf(F, 2 * x))
                = Kicked(Kicked(acc.kicks, KickOf(F, x)), KickOf(F, x))
  <2>1. \A f \in Forces : acc.kicks[f] \in Int
    BY DEF Merges
  <2>2. ASSUME NEW k
        PROVE  \A f \in Forces : /\ Kicked(k, KickOf(E, x))[f] = k[f] + (IF f \in E THEN x ELSE 0)
                                 /\ Kicked(k, KickOf(F, y))[f] = k[f] + (IF f \in F THEN y ELSE 0)
                                 /\ Kicked(k, KickOf(F, x))[f] = k[f] + (IF f \in F THEN x ELSE 0)
                                 /\ Kicked(k, KickOf(F, 2 * x))[f] = k[f] + (IF f \in F THEN 2 * x ELSE 0)
    BY DEF Kicked, KickOf
  <2>3. \A k, u : Kicked(k, u) = [f \in Forces |-> Kicked(k, u)[f]]
    BY DEF Kicked
  <2> DEFINE ke == Kicked(acc.kicks, KickOf(E, x))
             kf == Kicked(acc.kicks, KickOf(F, y))
             kg == Kicked(acc.kicks, KickOf(F, x))
  <2>4. ASSUME NEW f \in Forces
        PROVE  /\ Kicked(ke, KickOf(F, y))[f] = Kicked(kf, KickOf(E, x))[f]
               /\ Kicked(acc.kicks, KickOf(F, 2 * x))[f] = Kicked(kg, KickOf(F, x))[f]
    <3>1. /\ ke[f] = acc.kicks[f] + IF f \in E THEN x ELSE 0
          /\ kf[f] = acc.kicks[f] + IF f \in F THEN y ELSE 0
          /\ kg[f] = acc.kicks[f] + IF f \in F THEN x ELSE 0
          /\ Kicked(acc.kicks, KickOf(F, 2 * x))[f] = acc.kicks[f] + IF f \in F THEN 2 * x ELSE 0
      BY <2>2
    <3> HIDE DEF ke, kf, kg
    <3>2. /\ Kicked(ke, KickOf(F, y))[f] = ke[f] + IF f \in F THEN y ELSE 0
          /\ Kicked(kf, KickOf(E, x))[f] = kf[f] + IF f \in E THEN x ELSE 0
          /\ Kicked(kg, KickOf(F, x))[f] = kg[f] + IF f \in F THEN x ELSE 0
      BY <2>2
    <3> DEFINE v == acc.kicks[f]
    <3>3. v \in Int
      BY <2>1
    <3> HIDE DEF v
    <3>. QED  BY <3>1, <3>2, <3>3 DEF v
  <2> HIDE DEF ke, kf, kg
  <2>5. /\ Kicked(ke, KickOf(F, y)) = [f \in Forces |-> Kicked(ke, KickOf(F, y))[f]]
        /\ Kicked(kf, KickOf(E, x)) = [f \in Forces |-> Kicked(kf, KickOf(E, x))[f]]
        /\ Kicked(acc.kicks, KickOf(F, 2 * x)) = [f \in Forces |-> Kicked(acc.kicks, KickOf(F, 2 * x))[f]]
        /\ Kicked(kg, KickOf(F, x)) = [f \in Forces |-> Kicked(kg, KickOf(F, x))[f]]
    BY <2>3
  <2>6. [f \in Forces |-> Kicked(ke, KickOf(F, y))[f]] = [f \in Forces |-> Kicked(kf, KickOf(E, x))[f]]
    BY <2>4
  <2>7. [f \in Forces |-> Kicked(acc.kicks, KickOf(F, 2 * x))[f]] = [f \in Forces |-> Kicked(kg, KickOf(F, x))[f]]
    BY <2>4
  <2>. QED  BY <2>5, <2>6, <2>7 DEF ke, kf, kg
<1>5. \A acc \in Merges : \A j, k : [[acc EXCEPT !.kicks = j] EXCEPT !.kicks = k] = [acc EXCEPT !.kicks = k]
  BY DEF Merges
<1>6. \A acc \in Merges : \A k : [acc EXCEPT !.kicks = k].kicks = k
  BY DEF Merges
<1>9. \A acc \in Merges, F \in C, x \in Int :
         Act(G, Merges, Kick(F, x))[acc] = K(acc, F, x) /\ K(acc, F, x) \in Merges
  BY <1>3
<1> HIDE DEF G
<1>7. ASSUME NEW E \in C, NEW F \in C, NEW x \in Int, NEW y \in Int
      PROVE  Commute(G, Merges, Kick(E, x), Kick(F, y))
  <2>1. ASSUME NEW acc \in Merges
        PROVE  Act(G, Merges, Kick(F, y))[Act(G, Merges, Kick(E, x))[acc]]
               = Act(G, Merges, Kick(E, x))[Act(G, Merges, Kick(F, y))[acc]]
    <3>1. Act(G, Merges, Kick(E, x))[acc] = K(acc, E, x) /\ K(acc, E, x) \in Merges
      BY <1>3
    <3>2. Act(G, Merges, Kick(F, y))[acc] = K(acc, F, y) /\ K(acc, F, y) \in Merges
      BY <1>3
    <3>3. Act(G, Merges, Kick(F, y))[K(acc, E, x)] = K(K(acc, E, x), F, y)
      <4> HIDE DEF K
      <4>. QED  BY <1>9, <3>1
    <3>4. Act(G, Merges, Kick(E, x))[K(acc, F, y)] = K(K(acc, F, y), E, x)
      <4> HIDE DEF K
      <4>. QED  BY <1>9, <3>2
    <3>5. K(acc, E, x).kicks = Kicked(acc.kicks, KickOf(E, x)) /\ K(acc, F, y).kicks = Kicked(acc.kicks, KickOf(F, y))
      BY <1>6
    <3>6. K(K(acc, E, x), F, y) = [acc EXCEPT !.kicks = Kicked(Kicked(acc.kicks, KickOf(E, x)), KickOf(F, y))]
      BY <1>5, <3>5
    <3>7. K(K(acc, F, y), E, x) = [acc EXCEPT !.kicks = Kicked(Kicked(acc.kicks, KickOf(F, y)), KickOf(E, x))]
      BY <1>5, <3>5
    <3> HIDE DEF K
    <3>. QED  BY <3>1, <3>2, <3>3, <3>4, <3>6, <3>7, <1>4
  <2>. QED  BY <2>1 DEF Commute
<1>8. ASSUME NEW F \in C, NEW x \in Int
      PROVE  Halves(G, Merges, Kick(F, x), Kick(F, 2 * x))
  <2>1. ASSUME NEW acc \in Merges
        PROVE  Act(G, Merges, Kick(F, 2 * x))[acc] = Act(G, Merges, Kick(F, x))[Act(G, Merges, Kick(F, x))[acc]]
    <3>1. Act(G, Merges, Kick(F, x))[acc] = K(acc, F, x) /\ K(acc, F, x) \in Merges
      BY <1>3
    <3>2. Act(G, Merges, Kick(F, 2 * x))[acc] = K(acc, F, 2 * x)
      <4>1. 2 * x \in Int
        OBVIOUS
      <4>. QED  BY <1>3, <4>1
    <3>3. Act(G, Merges, Kick(F, x))[K(acc, F, x)] = K(K(acc, F, x), F, x)
      <4> HIDE DEF K
      <4>. QED  BY <1>9, <3>1
    <3>5. K(acc, F, x).kicks = Kicked(acc.kicks, KickOf(F, x))
      BY <1>6
    <3>6. K(K(acc, F, x), F, x) = [acc EXCEPT !.kicks = Kicked(Kicked(acc.kicks, KickOf(F, x)), KickOf(F, x))]
      BY <1>5, <3>5
    <3>7. K(acc, F, 2 * x) = [acc EXCEPT !.kicks = Kicked(Kicked(acc.kicks, KickOf(F, x)), KickOf(F, x))]
      BY <1>4
    <3> HIDE DEF K
    <3>. QED  BY <3>1, <3>2, <3>3, <3>6, <3>7
  <2>. QED  BY <2>1 DEF Halves
<1>. QED  BY <1>1, <1>7, <1>8 DEF KickRules, G

LEMMA ForceSetsNotEmpty ==
    ASSUME NEW q \in Integrable
    PROVE  {} \notin ForceSets(q) /\ ForceSets(q) \subseteq SUBSET Forces /\ {} \in SUBSET Forces
  BY IntegrableParameters DEF ForceSets, TotalForce, Forces

LEMMA SameMerged ==
    ASSUME NEW q \in Integrable
    PROVE  Merged(integrator(q)) = Merged(NestedScheme(q))
<1> DEFINE C == ForceSets(q)
           G == Adding(Updating(C))
           a == [kicks |-> NoKick, done |-> <<>>]
<1>1. KickRules(G, Merges, C)
  <2> HIDE DEF C
  <2>. QED  BY ForceSetsNotEmpty, KicksAddUp DEF C
<1>2. a \in Merges
  BY AddingMachine
<1> HIDE DEF G, a
<1>3. /\ Run(G, a, integrator(q)) = Run(G, a, NestedScheme(q))
      /\ integrator(q) \in Seq(Updating(C)) /\ NestedScheme(q) \in Seq(Updating(C))
  BY <1>1, <1>2, SameRun
<1> HIDE DEF C
<1>4. Merged(integrator(q)) = Run(G, a, integrator(q)) /\ Merged(NestedScheme(q)) = Run(G, a, NestedScheme(q))
  BY <1>3, MergedRuns DEF G, a
<1>. QED  BY <1>3, <1>4

NormOf(u, m) == SquareNorm(Qplus(u, m))

LEMMA QplusIs ==
    ASSUME NEW u \in Int, NEW m \in Masses
    PROVE  /\ Qplus(u, m) \in Complex /\ Qminus(u, m) \in Complex
           /\ NormOf(u, m) \in Nonzero /\ NormOf(u, m) \in Numbers
           /\ Conj(Qminus(u, m)) = Qplus(u, m) /\ Conj(Qplus(u, m)) = Qminus(u, m)
           /\ SquareNorm(Qminus(u, m)) = NormOf(u, m)
           /\ QplusQminus(u, m) = Real(NormOf(u, m))
           /\ Kappa[m] \in Int /\ Mubar[m] \in Int
<1> DEFINE q == Qplus(u, m)
<1>1. Kappa[m] \in Numbers /\ Mubar[m] \in Numbers /\ Mubar[m] # 0
  BY HmcAssumption
<1>2. Kappa[m] \in Int /\ Mubar[m] \in Int
  BY <1>1, ModId
<1>3. (Kappa[m] * u) % P \in Numbers
  <2>1. Kappa[m] * u \in Int
    BY <1>2
  <2>. QED  BY <2>1, ModType
<1>4. q \in Complex /\ q[2] # 0
  BY <1>1, <1>3 DEF Qplus, Complex
<1> HIDE DEF q
<1>5. SquareNorm(q) \in Nonzero /\ SquareNorm(q) \in Numbers
  BY <1>4, NormNonzero, NormIs
<1>6. Conj(q) \in Complex /\ SquareNorm(Conj(q)) = SquareNorm(q) /\ Times(q, Conj(q)) = Real(SquareNorm(q))
  BY <1>4, NormIs
<1>7. Conj(Conj(q)) = q
  BY <1>4, Conjugation
<1>. QED  BY <1>2, <1>4, <1>5, <1>6, <1>7 DEF q, NormOf, Qminus, QplusQminus

Solved(u, f, m, inv) ==
    /\ inv.Y \in Complex /\ inv.X \in Complex
    /\ inv.Y = Times(Real(Reciprocal[NormOf(u, m)]), Times(Qminus(u, m), f))
    /\ inv.X = Times(Real(Reciprocal[NormOf(u, m)]), f)
    /\ SquareNorm(inv.Y) = (SquareNorm(f) * Reciprocal[NormOf(u, m)]) % P

\* Both solvers get the same fields.
LEMMA InvertedIs ==
    ASSUME NEW u \in Int, NEW f \in Complex, NEW m \in Masses
    PROVE  Solved(u, f, m, Inverted(u, f, m))
<1> DEFINE q == Qplus(u, m)
           c == Qminus(u, m)
           k == NormOf(u, m)
           r == Reciprocal[k]
           R == Real(r)
           K == Real(k)
           Y == Times(R, Times(c, f))
           X == Times(R, f)
<1>1. /\ q \in Complex /\ c \in Complex /\ k \in Nonzero /\ k \in Numbers /\ Conj(c) = q /\ Conj(q) = c
      /\ SquareNorm(q) = k /\ SquareNorm(c) = k /\ QplusQminus(u, m) = K
  BY QplusIs DEF NormOf
<1>2. r \in Numbers /\ r \in Nonzero /\ Times(K, R) = Unit /\ Times(R, K) = Unit /\ K \in Complex /\ R \in Complex
  BY <1>1, InverseIs, RealIs
<1>3. Times(q, c) = K
  BY <1>1 DEF QplusQminus
<1> HIDE DEF q, c, k
<1>4. X \in Complex /\ Times(c, f) \in Complex /\ Times(c, X) = Y /\ Y \in Complex
  <2> HIDE DEF R
  <2>1. c \in Complex /\ R \in Complex
    BY <1>1, <1>2
  <2>2. /\ Times(c, Times(R, f)) = Times(R, Times(c, f))
        /\ Times(R, f) \in Complex /\ Times(c, f) \in Complex /\ Times(c, Times(R, f)) \in Complex
    BY <2>1, MoveFirst
  <2>. QED  BY <2>2
<1>5. Over(f, q) = Y /\ SquareNorm(Y) = (SquareNorm(f) * r) % P
  <2>1. Over(f, q) = Times(R, Times(f, c)) /\ SquareNorm(Over(f, q)) = (SquareNorm(f) * r) % P
    BY <1>1, OverIs
  <2>2. Times(f, c) = Times(c, f)
    BY <1>1, TimesCommutes
  <2>. QED  BY <2>1, <2>2
<1>6. Over(f, K) = X
  <2>1. SquareNorm(K) = (k * k) % P /\ Conj(K) = K /\ (k * k) % P \in Nonzero
    BY <1>1, NormOfReal, RealIs, ProductNonzero
  <2>2. Over(f, K) = Times(Real(Reciprocal[(k * k) % P]), Times(f, K))
    <3> HIDE DEF K
    <3>. QED  BY <1>2, <2>1, OverIs
  <2>3. Reciprocal[(k * k) % P] = (r * r) % P
    BY <1>1, ReciprocalTimes
  <2>4. Times(R, R) = Real((r * r) % P)
    BY <1>2, RealIs
  <2> HIDE DEF R, K
  <2>5. Times(Times(R, R), Times(f, K)) = Times(Times(R, f), Times(R, K)) /\ Times(R, f) \in Complex
    BY <1>2, FourTimes
  <2>6. Times(Times(R, f), Unit) = Times(R, f)
    <3> DEFINE t == Times(R, f)
    <3>1. t \in Complex /\ Unit \in Complex
      BY <2>5, PairType
    <3> HIDE DEF t
    <3>2. Times(t, Unit) = Times(Unit, t) /\ Times(Unit, t) = t
      BY <3>1, TimesCommutes, Units
    <3>. QED  BY <3>2 DEF t
  <2>. QED  BY <1>2, <2>2, <2>3, <2>4, <2>5, <2>6
<1>7. Over(Y, c) = X
  <2>1. Over(Y, c) = Times(R, Times(Y, q))
    <3> HIDE DEF Y
    <3>. QED  BY <1>1, <1>4, OverIs
  <2> HIDE DEF R, K
  <2> DEFINE cf == Times(c, f)
             qcf == Times(q, cf)
  <2>2. cf \in Complex /\ qcf \in Complex
    BY <1>1, RingType
  <2>3. Times(Y, q) = Times(q, Y)
    <3> HIDE DEF Y
    <3>. QED  BY <1>1, <1>4, TimesCommutes
  <2>4. Times(q, Times(R, cf)) = Times(R, Times(q, cf))
    <3> HIDE DEF cf
    <3>. QED  BY <1>1, <1>2, <2>2, MoveFirst
  <2>5. qcf = Times(K, f)
    BY <1>1, <1>3, TimesAssociative
  <2>6. Times(R, Times(K, f)) = f
    <3>1. Times(R, Times(K, f)) = Times(Times(R, K), f)
      BY <1>2, TimesAssociative
    <3>2. Times(Unit, f) = f
      BY Units
    <3>. QED  BY <1>2, <3>1, <3>2
  <2>. QED  BY <2>1, <2>3, <2>4, <2>5, <2>6
<1>8. Inverted(u, f, m).Y = Y /\ Inverted(u, f, m).X = X
  <2>1. CASE prm.solver = "cg"
    <3>1. Inverted(u, f, m).Y = Times(c, Over(f, K)) /\ Inverted(u, f, m).X = Over(f, K)
      BY <1>1, <2>1 DEF Inverted, c
    <3> HIDE DEF X, Y
    <3>. QED  BY <1>4, <1>6, <3>1
  <2>2. CASE prm.solver # "cg"
    <3>1. Inverted(u, f, m).Y = Over(f, q) /\ Inverted(u, f, m).X = Over(Over(f, q), c)
      BY <2>2 DEF Inverted, c, q
    <3> HIDE DEF X, Y
    <3>. QED  BY <1>5, <1>7, <3>1
  <2>. QED  BY <2>1, <2>2
<1> DEFINE inv == Inverted(u, f, m)
<1> HIDE DEF inv
<1>. QED  BY <1>4, <1>5, <1>8 DEF Solved, c, k, inv
------------------------------------------------------------------------------
(* Forces *)

LEMMA ParametersAre ==
    ASSUME NEW q \in AllParameters
    PROVE  /\ q.numTimescales \in 1 .. 3 /\ q.useGaugeOnly \in BOOLEAN /\ q.useMp \in BOOLEAN
           /\ q.algorithm \in {"hmc", "rhmc"} /\ q.useRectangles \in BOOLEAN
           /\ q.algorithm = "rhmc" =>
                 /\ ~q.useMp /\ q.num_tastes \in 1 .. 3 /\ q.num_pseudofermions \in {1, 2}
                 /\ q.conservative \in BOOLEAN /\ q.site \in {"EVEN", "ODD"}
<1>1. PICK c \in Cases, t \in 1 .. 3 :
         q \in IF c.algorithm = "hmc" THEN HmcParameters(c, t) ELSE RhmcParameters(c, t)
  BY DEF AllParameters, ParametersOf
<1>2. /\ c.algorithm \in {"hmc", "rhmc"} /\ c.rectangles \subseteq BOOLEAN
      /\ c.algorithm = "rhmc" => c.tastes \subseteq 1 .. 3
  BY HmcAssumption
<1>3. CASE c.algorithm = "hmc"
  <2>1. q \in HmcParameters(c, t)
    BY <1>1, <1>3
  <2>2. /\ q.algorithm = "hmc" /\ q.numTimescales = t /\ q.useMp \in BOOLEAN
        /\ q.useGaugeOnly \in BOOLEAN /\ q.useRectangles \in c.rectangles
    BY <2>1 DEF HmcParameters
  <2>. QED  BY <1>2, <2>2
<1>4. CASE c.algorithm # "hmc"
  <2>1. q \in RhmcParameters(c, t)
    BY <1>1, <1>4
  <2>2. /\ q.algorithm = "rhmc" /\ q.numTimescales = t /\ q.useMp = FALSE
        /\ q.useGaugeOnly \in BOOLEAN /\ q.useRectangles \in c.rectangles
        /\ q.num_tastes \in c.tastes /\ q.num_pseudofermions \in {1, 2}
        /\ q.conservative \in BOOLEAN /\ q.site \in {"EVEN", "ODD"}
    BY <2>1 DEF RhmcParameters
  <2>3. q.num_tastes \in 1 .. 3 /\ q.useRectangles \in BOOLEAN /\ q.useMp \in BOOLEAN /\ ~q.useMp
    BY <1>2, <1>4, <2>2
  <2>. QED  BY <2>2, <2>3
<1>. QED  BY <1>3, <1>4

TotalTerms(forces, u) == [f \in forces |-> ForceOf(f, u)]

LEMMA TotalSum ==
    ASSUME NEW u, NEW S
    PROVE  TotalOf(S, u) = Sum(TotalTerms(S, u), S)
<1> DEFINE A(h) == h = [s \in SUBSET S |->
                          IF s = {} THEN 0
                          ELSE ForceOf(CHOOSE x \in s : TRUE, u) + h[s \ {CHOOSE x \in s : TRUE}]]
           B(h) == h = [s \in SUBSET S |->
                          IF s = {} THEN 0
                          ELSE TotalTerms(S, u)[CHOOSE x \in s : TRUE] + h[s \ {CHOOSE x \in s : TRUE}]]
<1>1. \A h : A(h) <=> B(h)
  <2>1. \A s \in SUBSET S : s # {} => (CHOOSE x \in s : TRUE) \in S
    OBVIOUS
  <2>. QED  BY <2>1 DEF TotalTerms
<1>2. (CHOOSE h : A(h)) = (CHOOSE h : B(h))
  <2> HIDE DEF A, B
  <2>. QED  BY <1>1, Zenon
<1>3. TotalOf(S, u) = (CHOOSE h : A(h))[S]
  BY DEF TotalOf, MapThenSumSet, MapThenFoldSet
<1>4. Sum(TotalTerms(S, u), S) = (CHOOSE h : B(h))[S]
  BY DEF Sum, MapThenSumSet, MapThenFoldSet
<1>. QED  BY <1>2, <1>3, <1>4

Norms(f) == [j \in DOMAIN f |-> SquareNorm(f[j])]

LEMMA NormSum ==
    ASSUME NEW f
    PROVE  SumOfFields(f, SquareNorm) = Sum(Norms(f), DOMAIN f)
<1> DEFINE S == DOMAIN f
           A(h) == h = [s \in SUBSET S |->
                          IF s = {} THEN 0
                          ELSE SquareNorm(f[CHOOSE x \in s : TRUE]) + h[s \ {CHOOSE x \in s : TRUE}]]
           B(h) == h = [s \in SUBSET S |->
                          IF s = {} THEN 0
                          ELSE Norms(f)[CHOOSE x \in s : TRUE] + h[s \ {CHOOSE x \in s : TRUE}]]
<1>1. \A h : A(h) <=> B(h)
  <2>1. \A s \in SUBSET S : s # {} => (CHOOSE x \in s : TRUE) \in S
    OBVIOUS
  <2>. QED  BY <2>1 DEF Norms
<1>2. (CHOOSE h : A(h)) = (CHOOSE h : B(h))
  <2> HIDE DEF A, B
  <2>. QED  BY <1>1, Zenon
<1>3. SumOfFields(f, SquareNorm) = (CHOOSE h : A(h))[S]
  BY DEF SumOfFields, MapThenSumSet, MapThenFoldSet
<1>4. Sum(Norms(f), S) = (CHOOSE h : B(h))[S]
  BY DEF Sum, MapThenSumSet, MapThenFoldSet
<1>. QED  BY <1>2, <1>3, <1>4

EnergyTerms(r, u, f, q) ==
    [j \in DOMAIN f |-> Re(Times(Conj(f[j]), RationalOf(r, u, f[j], q)))]

LEMMA EnergySum ==
    ASSUME NEW r, NEW u, NEW f, NEW q
    PROVE  calc_s_fermion_rooted(r, u, f, q) = Sum(EnergyTerms(r, u, f, q), DOMAIN f) % P
<1> DEFINE S == DOMAIN f
           A(h) == h = [s \in SUBSET S |->
                          IF s = {} THEN 0
                          ELSE Re(Times(Conj(f[CHOOSE x \in s : TRUE]), RationalOf(r, u, f[CHOOSE x \in s : TRUE], q)))
                               + h[s \ {CHOOSE x \in s : TRUE}]]
           B(h) == h = [s \in SUBSET S |->
                          IF s = {} THEN 0
                          ELSE EnergyTerms(r, u, f, q)[CHOOSE x \in s : TRUE] + h[s \ {CHOOSE x \in s : TRUE}]]
<1>1. \A h : A(h) <=> B(h)
  <2>1. \A s \in SUBSET S : s # {} => (CHOOSE x \in s : TRUE) \in S
    OBVIOUS
  <2>. QED  BY <2>1 DEF EnergyTerms
<1>2. (CHOOSE h : A(h)) = (CHOOSE h : B(h))
  <2> HIDE DEF A, B
  <2>. QED  BY <1>1, Zenon
<1>3. calc_s_fermion_rooted(r, u, f, q) = (CHOOSE h : A(h))[S] % P
  BY DEF calc_s_fermion_rooted, SumOfFields, MapThenSumSet, MapThenFoldSet
<1>4. Sum(EnergyTerms(r, u, f, q), S) = (CHOOSE h : B(h))[S]
  BY DEF Sum, MapThenSumSet, MapThenFoldSet
<1>. QED  BY <1>2, <1>3, <1>4

\* The force of a pseudofermion by one pole.
PoleForce(r, u, w, q, i) ==
    LET X == Scale(Shifted(MdagM_eo(u, q.site), r.b[i]), w)
        Y == Scale(D_KS_eo(u, "ODD", q.site), X)
    IN -r.a[i] * (fermion_staggered_partial_force(Y, X, "EVEN", q.site)
                  + fermion_staggered_partial_force(X, Y, "ODD", q.site))

PoleForces(r, u, w, q) == [i \in DOMAIN r.b |-> PoleForce(r, u, w, q, i)]
RootedForces(r, u, f, q) == [j \in DOMAIN f |-> Sum(PoleForces(r, u, f[j], q), DOMAIN r.b)]

OverPoles(r, u, w, q) == MapThenSumSet(LAMBDA i : PoleForce(r, u, w, q, i), DOMAIN r.b)

LEMMA PoleSum ==
    ASSUME NEW r, NEW u, NEW w, NEW q
    PROVE  OverPoles(r, u, w, q) = Sum(PoleForces(r, u, w, q), DOMAIN r.b)
<1> DEFINE S == DOMAIN r.b
           A(h) == h = [s \in SUBSET S |->
                          IF s = {} THEN 0
                          ELSE PoleForce(r, u, w, q, CHOOSE x \in s : TRUE) + h[s \ {CHOOSE x \in s : TRUE}]]
           B(h) == h = [s \in SUBSET S |->
                          IF s = {} THEN 0
                          ELSE PoleForces(r, u, w, q)[CHOOSE x \in s : TRUE] + h[s \ {CHOOSE x \in s : TRUE}]]
<1>1. \A h : A(h) <=> B(h)
  <2>1. \A s \in SUBSET S : s # {} => (CHOOSE x \in s : TRUE) \in S
    OBVIOUS
  <2>. QED  BY <2>1 DEF PoleForces
<1>2. (CHOOSE h : A(h)) = (CHOOSE h : B(h))
  <2> HIDE DEF A, B
  <2>. QED  BY <1>1, Zenon
<1>3. OverPoles(r, u, w, q) = (CHOOSE h : A(h))[S]
  BY DEF OverPoles, MapThenSumSet, MapThenFoldSet
<1>4. Sum(PoleForces(r, u, w, q), S) = (CHOOSE h : B(h))[S]
  BY DEF Sum, MapThenSumSet, MapThenFoldSet
<1>. QED  BY <1>2, <1>3, <1>4

LEMMA RootedSum ==
    ASSUME NEW r, NEW u, NEW f, NEW q
    PROVE  calc_fermion_force_rooted(r, u, f, q) = Sum(RootedForces(r, u, f, q), DOMAIN f)
<1> DEFINE S == DOMAIN f
           A(h) == h = [s \in SUBSET S |->
                          IF s = {} THEN 0
                          ELSE OverPoles(r, u, f[CHOOSE x \in s : TRUE], q) + h[s \ {CHOOSE x \in s : TRUE}]]
           B(h) == h = [s \in SUBSET S |->
                          IF s = {} THEN 0
                          ELSE RootedForces(r, u, f, q)[CHOOSE x \in s : TRUE] + h[s \ {CHOOSE x \in s : TRUE}]]
<1>1. \A h : A(h) <=> B(h)
  <2>1. \A s \in SUBSET S : s # {} => (CHOOSE x \in s : TRUE) \in S
    OBVIOUS
  <2>. QED  BY <2>1, PoleSum DEF RootedForces
<1>2. (CHOOSE h : A(h)) = (CHOOSE h : B(h))
  <2> HIDE DEF A, B
  <2>. QED  BY <1>1, Zenon
<1>3. calc_fermion_force_rooted(r, u, f, q) = (CHOOSE h : A(h))[S]
  BY DEF calc_fermion_force_rooted, SumOfFields, OverPoles, PoleForce, MapThenSumSet, MapThenFoldSet
<1>4. Sum(RootedForces(r, u, f, q), S) = (CHOOSE h : B(h))[S]
  BY DEF Sum, MapThenSumSet, MapThenFoldSet
<1>. QED  BY <1>2, <1>3, <1>4

LEMMA ReScaled ==
    ASSUME NEW x \in Numbers, NEW z \in Complex
    PROVE  Re(Times(Real(x), z)) = (x * z[1]) % P
<1>1. Times(Real(x), z) = Scale(x, z)
  BY RealIs
<1>. QED  BY <1>1 DEF Re, Scale

dNorm(u, m) == 2 * Kappa[m] * Kappa[m] * u

DetGradient(u, f, m) ==
    -((SquareNorm(f) * dNorm(u, m)) * Reciprocal[(NormOf(u, m) * NormOf(u, m)) % P])

LEMMA QplusReal ==
    ASSUME NEW u \in Int, NEW m \in Masses
    PROVE  Qplus(u, m)[1] = (Kappa[m] * u) % P
  BY DEF Qplus

\* Re(conj(c) d) for the fields a force is made of.
LEMMA DetProduct ==
    ASSUME NEW u \in Int, NEW f \in Complex, NEW m \in Masses, NEW inv, Solved(u, f, m, inv)
    PROVE  LET r == Reciprocal[NormOf(u, m)]
           IN Re(Times(Conj(inv.Y), inv.X))
              = (((((r * r) % P) * SquareNorm(f)) % P) * ((Kappa[m] * u) % P)) % P
<1> DEFINE q == Qplus(u, m)
           c == Qminus(u, m)
           k == NormOf(u, m)
           r == Reciprocal[k]
           R == Real(r)
           nf == SquareNorm(f)
           g == Conj(f)
           rr == (r * r) % P
           x == (rr * nf) % P
<1>1. /\ q \in Complex /\ c \in Complex /\ Conj(c) = q /\ k \in Nonzero
      /\ q[1] = (Kappa[m] * u) % P
  BY QplusIs, QplusReal
<1>2. nf \in Numbers /\ g \in Complex /\ Times(f, g) = Real(nf) /\ Real(nf) \in Complex
  BY NormIs, RealIs
<1>3. r \in Numbers /\ R \in Complex /\ Conj(R) = R /\ Times(R, R) = Real(rr) /\ rr \in Numbers /\ Real(rr) \in Complex
  <2>1. r \in Numbers
    BY <1>1, InverseIs
  <2>2. r * r \in Int
    <3>1. r \in Int
      BY <2>1, ModId
    <3> HIDE DEF r
    <3>. QED  BY <3>1
  <2> HIDE DEF r
  <2>3. rr \in Numbers
    BY <2>2, ModType
  <2>. QED  BY <2>1, <2>3, RealIs
<1>4. inv.Y = Times(R, Times(c, f)) /\ inv.X = Times(R, f)
  BY DEF Solved
<1> HIDE DEF q, c, k, r, R, nf, g, rr
<1>5. Conj(inv.Y) = Times(R, Times(q, g))
  <2> DEFINE cf == Times(c, f)
  <2>1. cf \in Complex
    BY <1>1, RingType
  <2>2. Conj(cf) = Times(q, g)
    BY <1>1, Conjugation DEF g
  <2> HIDE DEF cf
  <2>3. Conj(Times(R, cf)) = Times(R, Conj(cf))
    BY <1>3, <2>1, Conjugation
  <2>. QED  BY <1>4, <2>2, <2>3 DEF cf
<1>6. Times(Conj(inv.Y), inv.X) = Times(Real(x), q)
  <2> DEFINE qg == Times(q, g)
  <2>1. qg \in Complex
    BY <1>1, <1>2, RingType
  <2>2. Times(qg, f) = Times(Real(nf), q)
    <3>1. Times(qg, f) = Times(q, Times(g, f))
      BY <1>1, <1>2, TimesAssociative
    <3>2. Times(g, f) = Times(f, g)
      BY <1>2, TimesCommutes
    <3>3. Times(q, Real(nf)) = Times(Real(nf), q)
      BY <1>1, <1>2, TimesCommutes
    <3>. QED  BY <1>2, <3>1, <3>2, <3>3
  <2> HIDE DEF qg
  <2>3. Times(Times(R, qg), Times(R, f)) = Times(Times(R, R), Times(qg, f))
    BY <1>3, <2>1, FourTimes
  <2>4. Times(Real(rr), Times(Real(nf), q)) = Times(Times(Real(rr), Real(nf)), q)
    BY <1>1, <1>2, <1>3, TimesAssociative
  <2>5. Times(Real(rr), Real(nf)) = Real(x)
    BY <1>2, <1>3, RealIs
  <2>. QED  BY <1>3, <1>4, <1>5, <2>2, <2>3, <2>4, <2>5 DEF qg
<1>7. x \in Numbers
  <2>1. rr * nf \in Int
    <3>1. rr \in Int /\ nf \in Int
      BY <1>2, <1>3, ModId
    <3>. QED  BY <3>1
  <2>. QED  BY <2>1, ModType
<1> HIDE DEF x
<1>8. Re(Times(Real(x), q)) = (x * q[1]) % P
  BY <1>1, <1>7, ReScaled
<1>. QED  BY <1>1, <1>6, <1>8 DEF x, rr, r, k, nf

LEMMA DetForce ==
    ASSUME NEW u \in Int, NEW f \in Complex, NEW m \in Masses, NEW inv, Solved(u, f, m, inv)
    PROVE  /\ fermion_force(inv.Y, inv.X, m) \in Int /\ DetGradient(u, f, m) \in Int
           /\ Congruent(fermion_force(inv.Y, inv.X, m), DetGradient(u, f, m))
<1> DEFINE k == NormOf(u, m)
           r == Reciprocal[k]
           nf == SquareNorm(f)
           t == Kappa[m]
           rr == r * r
           w == t * u
           x == ((rr % P) * nf) % P
           y == w % P
           z == (x * y) % P
<1>1. k \in Nonzero /\ t \in Int
  BY QplusIs
<1>2. r \in Int /\ Reciprocal[(k * k) % P] = rr % P
  BY <1>1, ReciprocalIs, ReciprocalTimes
<1>3. nf \in Int
  BY NormIs
<1>4. Re(Times(Conj(inv.Y), inv.X)) = z
  BY DetProduct
<1> HIDE DEF k, r, nf, t
<1>5. fermion_force(inv.Y, inv.X, m) = -2 * t * z
  <2> HIDE DEF z
  <2>. QED  BY <1>4 DEF fermion_force, t
<1>6. DetGradient(u, f, m) = -((nf * (2 * t * t * u)) * (rr % P))
  <2> HIDE DEF rr
  <2>. QED  BY <1>2 DEF DetGradient, dNorm, k, nf, t
<1>7. rr \in Int /\ w \in Int
  BY <1>1, <1>2
<1>8. Congruent(rr % P, rr) /\ rr % P \in Int /\ Congruent(w % P, w) /\ w % P \in Int
  BY <1>7, Remainder
<1> HIDE DEF rr, w
<1> DEFINE s == rr % P
<1>9. s \in Int /\ Congruent(s, rr) /\ y \in Int /\ Congruent(y, w)
  BY <1>8
<1> HIDE DEF s, y
<1> DEFINE sn == s * nf
<1>10. sn \in Int /\ Congruent(sn % P, sn) /\ sn % P \in Int
  <2>1. sn \in Int
    BY <1>3, <1>9
  <2> HIDE DEF sn
  <2>. QED  BY <2>1, Remainder
<1>11. x = sn % P
  BY DEF s
<1> HIDE DEF x
<1>12. x \in Int /\ Congruent(x, sn)
  BY <1>10, <1>11
<1> DEFINE xy == x * y
<1>13. xy \in Int /\ z = xy % P /\ Congruent(xy, sn * w) /\ sn * w \in Int
  <2>1. xy \in Int /\ sn * w \in Int
    BY <1>7, <1>9, <1>10, <1>12
  <2>2. Congruent(x * y, sn * w)
    <3> HIDE DEF sn
    <3>. QED  BY <1>7, <1>9, <1>10, <1>12, CongruentOps
  <2>. QED  BY <2>1, <2>2 DEF z
<1> DEFINE snw == sn * w
<1>14. z \in Int /\ Congruent(z, snw) /\ snw \in Int
  <2>1. snw \in Int /\ Congruent(xy, snw)
    BY <1>13
  <2> HIDE DEF xy, snw, z
  <2>2. Congruent(xy % P, xy) /\ xy % P \in Int
    BY <1>13, Remainder
  <2>. QED  BY <1>13, <2>1, <2>2, CongruentChain
<1> HIDE DEF z
<1> DEFINE h == -2 * t
<1>15. h \in Int /\ -2 * t * z = h * z
  <2>1. \A i \in Int, j \in Int : -2 * i * j = (-2 * i) * j
    OBVIOUS
  <2>. QED  BY <1>1, <1>14, <2>1
<1>16. Congruent(h * z, h * snw)
  <2> HIDE DEF h, snw
  <2>. QED  BY <1>14, <1>15, CongruentTimes
<1>17. h * snw = -((nf * (2 * t * t * u)) * s)
  <2>1. \A i \in Int, j \in Int, l \in Int, o \in Int :
           (-2 * i) * ((j * l) * (i * o)) = -((l * (2 * i * i * o)) * j)
    OBVIOUS
  <2>. QED  BY <1>1, <1>3, <1>9, <2>1 DEF w
<1>18. -((nf * (2 * t * t * u)) * s) \in Int /\ h * z \in Int
  <2>1. nf * (2 * t * t * u) \in Int
    BY <1>1, <1>3
  <2>2. h * z \in Int
    <3> HIDE DEF h
    <3>. QED  BY <1>14, <1>15
  <2>. QED  BY <1>9, <2>1, <2>2
<1>. QED  BY <1>5, <1>6, <1>15, <1>16, <1>17, <1>18 DEF s

RatioGradient(u, f) ==
    (SquareNorm(f) * (dNorm(u, "mp") * NormOf(u, "light") - NormOf(u, "mp") * dNorm(u, "light")))
    * Reciprocal[(NormOf(u, "light") * NormOf(u, "light")) % P]

LEMMA MinusOne ==
    ASSUME NEW f \in Complex
    PROVE  Scale(-1, f) = Opposite(f) /\ P - 1 \in Numbers
<1>1. f[1] \in Int /\ f[2] \in Int /\ P \in Int /\ P > 2 /\ P \in Nat
  BY PairType, PType
<1> DEFINE o == -1
<1>2. o \in Int /\ o = -1
  OBVIOUS
<1>3. P - 1 \in Numbers
  BY <1>1 DEF Numbers
<1>4. Scale(o, f) = <<(o * f[1]) % P, (o * f[2]) % P>>
  BY DEF Scale
<1>5. Opposite(f) = <<((P - 1) * f[1] - 0 * f[2]) % P, ((P - 1) * f[2] + 0 * f[1]) % P>>
  BY DEF Opposite, Times
<1> HIDE DEF o
<1>6. ASSUME NEW a \in Int, NEW c \in Int
      PROVE  /\ (o * a) % P = ((P - 1) * a - 0 * c) % P
             /\ (o * a) % P = ((P - 1) * a + 0 * c) % P
  <2> DEFINE v == o * a
             w == (P - 1) * a
  <2>1. v \in Int /\ w \in Int /\ w = v + P * a
    <3>1. o * a = -a
      BY <1>2
    <3>. QED  BY <1>1, <3>1
  <2> HIDE DEF v, w
  <2>2. w - 0 * c = w /\ w + 0 * c = w
    BY <2>1
  <2>3. w % P = v % P
    BY <2>1, Congruence DEF Congruent
  <2>. QED  BY <2>2, <2>3 DEF v, w
<1>. QED  BY <1>1, <1>3, <1>4, <1>5, <1>6 DEF o

LEMMA RatioProduct ==
    ASSUME NEW u \in Int, NEW f \in Complex, NEW inv, Solved(u, Times(Qplus(u, "mp"), f), "light", inv)
    PROVE  LET r == Reciprocal[NormOf(u, "light")]
           IN Re(Times(Conj(Scale(-1, f)), inv.X))
              = ((((((P - 1) * r) % P) * SquareNorm(f)) % P) * ((Kappa["mp"] * u) % P)) % P
<1> DEFINE q == Qplus(u, "mp")
           k == NormOf(u, "light")
           r == Reciprocal[k]
           R == Real(r)
           nf == SquareNorm(f)
           g == Conj(f)
           o == P - 1
           v == (o * r) % P
           x == (v * nf) % P
           M == Real(o)
<1>0. "mp" \in Masses /\ "light" \in Masses
  BY DEF Masses
<1>1. /\ q \in Complex /\ k \in Nonzero /\ q[1] = (Kappa["mp"] * u) % P
  BY <1>0, QplusIs, QplusReal
<1>2. nf \in Numbers /\ g \in Complex /\ Times(f, g) = Real(nf) /\ Real(nf) \in Complex
  BY NormIs, RealIs
<1>3. r \in Numbers /\ R \in Complex /\ o \in Numbers /\ M \in Complex
  BY <1>1, InverseIs, RealIs, MinusOne
<1>4. inv.X = Times(R, Times(q, f))
  BY DEF Solved
<1>5. Conj(Scale(-1, f)) = Times(M, g)
  <2>1. Conj(Opposite(f)) = Opposite(Conj(f))
    BY Signs
  <2>. QED  BY <2>1, MinusOne DEF Opposite, Real
<1> HIDE DEF q, k, r, R, nf, g, o, M
<1>6. Times(M, R) = Real(v) /\ v \in Numbers /\ Real(v) \in Complex
  <2>1. o * r \in Int
    <3>1. o \in Int /\ r \in Int
      BY <1>3, ModId
    <3>. QED  BY <3>1
  <2>2. v \in Numbers
    BY <2>1, ModType
  <2>3. Times(M, R) = Real(v)
    BY <1>3, RealIs DEF M, R
  <2>. QED  BY <2>2, <2>3, RealIs
<1> HIDE DEF v
<1>7. x \in Numbers
  <2>1. v * nf \in Int
    <3>1. v \in Int /\ nf \in Int
      BY <1>2, <1>6, ModId
    <3>. QED  BY <3>1
  <2>. QED  BY <2>1, ModType
<1>8. Times(Times(M, g), Times(R, Times(q, f))) = Times(Real(x), q)
  <2> DEFINE qf == Times(q, f)
  <2>1. qf \in Complex
    BY <1>1, RingType
  <2>2. Times(g, qf) = Times(Real(nf), q)
    <3>1. Times(g, Times(q, f)) = Times(q, Times(g, f))
      BY <1>1, <1>2, MoveFirst
    <3>2. Times(g, f) = Times(f, g)
      BY <1>2, TimesCommutes
    <3>3. Times(q, Real(nf)) = Times(Real(nf), q)
      BY <1>1, <1>2, TimesCommutes
    <3>. QED  BY <1>2, <3>1, <3>2, <3>3
  <2> HIDE DEF qf
  <2>3. Times(Times(M, g), Times(R, qf)) = Times(Times(M, R), Times(g, qf))
    BY <1>2, <1>3, <2>1, FourTimes
  <2>4. Times(Real(v), Times(Real(nf), q)) = Times(Times(Real(v), Real(nf)), q)
    BY <1>1, <1>2, <1>6, TimesAssociative
  <2>5. Times(Real(v), Real(nf)) = Real(x)
    BY <1>2, <1>6, RealIs
  <2>. QED  BY <1>6, <2>2, <2>3, <2>4, <2>5 DEF qf
<1> HIDE DEF x
<1>9. Re(Times(Real(x), q)) = (x * q[1]) % P
  BY <1>1, <1>7, ReScaled
<1>. QED  BY <1>1, <1>4, <1>5, <1>8, <1>9 DEF x, v, o, r, k, nf

LEMMA RatioForce ==
    ASSUME NEW u \in Int, NEW f \in Complex, NEW inv, Solved(u, Times(Qplus(u, "mp"), f), "light", inv)
    PROVE  LET r == Reciprocal[NormOf(u, "light")]
           IN /\ fermion_force(Scale(-1, f), inv.X, "mp") \in Int
              /\ Congruent(fermion_force(Scale(-1, f), inv.X, "mp"), (SquareNorm(f) * dNorm(u, "mp")) * r)
              /\ (SquareNorm(f) * dNorm(u, "mp")) * r \in Int
<1> DEFINE k == NormOf(u, "light")
           r == Reciprocal[k]
           nf == SquareNorm(f)
           t == Kappa["mp"]
           o == P - 1
           v == (o * r) % P
           w == t * u
           x == (v * nf) % P
           y == w % P
           z == (x * y) % P
<1>1. k \in Nonzero /\ t \in Int
  <2>1. "mp" \in Masses /\ "light" \in Masses
    BY DEF Masses
  <2>. QED  BY <2>1, QplusIs
<1>2. r \in Int /\ nf \in Int /\ o \in Int
  BY <1>1, ReciprocalIs, NormIs, PType
<1>3. Re(Times(Conj(Scale(-1, f)), inv.X)) = z
  BY RatioProduct
<1> HIDE DEF k, r, nf, t
<1>4. fermion_force(Scale(-1, f), inv.X, "mp") = -2 * t * z
  <2> HIDE DEF z
  <2>. QED  BY <1>3 DEF fermion_force, t
<1> DEFINE mr == -r
           ox == o * r
<1>5. v \in Int /\ Congruent(v, mr) /\ mr \in Int
  <2>1. ox = mr + P * r /\ ox \in Int /\ mr \in Int
    <3>1. P \in Int
      BY PType
    <3>. QED  BY <1>2, <3>1
  <2>2. Congruent(ox, mr)
    <3> HIDE DEF ox, mr
    <3>. QED  BY <1>2, <2>1 DEF Congruent
  <2> HIDE DEF ox, mr
  <2>3. Congruent(ox % P, ox) /\ ox % P \in Int
    BY <2>1, Remainder
  <2>. QED  BY <2>1, <2>2, <2>3, CongruentChain DEF ox
<1> HIDE DEF v, mr
<1>6. w \in Int /\ y \in Int /\ Congruent(y, w)
  <2>1. w \in Int
    BY <1>1
  <2> HIDE DEF w
  <2>. QED  BY <2>1, Remainder
<1> HIDE DEF w, y
<1> DEFINE vn == v * nf
           mn == mr * nf
<1>7. x \in Int /\ Congruent(x, mn) /\ mn \in Int
  <2>1. vn \in Int /\ mn \in Int
    BY <1>2, <1>5
  <2>2. Congruent(vn, mn)
    BY <1>2, <1>5, CongruentTimes
  <2> HIDE DEF vn, mn
  <2>3. Congruent(vn % P, vn) /\ vn % P \in Int
    BY <2>1, Remainder
  <2>. QED  BY <2>1, <2>2, <2>3, CongruentChain DEF vn
<1> HIDE DEF x, mn
<1> DEFINE xy == x * y
           mw == mn * w
<1>8. z \in Int /\ Congruent(z, mw) /\ mw \in Int
  <2>1. xy \in Int /\ mw \in Int
    BY <1>6, <1>7
  <2>2. Congruent(xy, mw)
    BY <1>6, <1>7, CongruentOps
  <2> HIDE DEF xy, mw
  <2>3. Congruent(xy % P, xy) /\ xy % P \in Int
    BY <2>1, Remainder
  <2>. QED  BY <2>1, <2>2, <2>3, CongruentChain DEF xy
<1> HIDE DEF z
<1> DEFINE h == -2 * t
           e == (nf * (2 * t * t * u)) * r
<1>9. h \in Int /\ -2 * t * z = h * z /\ h * z \in Int /\ e \in Int
  <2>1. \A i \in Int, j \in Int : -2 * i * j = (-2 * i) * j
    OBVIOUS
  <2>2. h \in Int /\ -2 * t * z = h * z
    BY <1>1, <1>8, <2>1
  <2>3. h * z \in Int
    <3> HIDE DEF h
    <3>. QED  BY <2>2, <1>8
  <2>4. e \in Int
    BY <1>1, <1>2
  <2>. QED  BY <2>2, <2>3, <2>4
<1>10. Congruent(h * z, h * mw)
  <2> HIDE DEF h, mw
  <2>. QED  BY <1>8, <1>9, CongruentTimes
<1>11. h * mw = e
  <2>1. \A i \in Int, j \in Int, l \in Int, s \in Int :
           (-2 * i) * (((-j) * l) * (i * s)) = (l * (2 * i * i * s)) * j
    OBVIOUS
  <2>. QED  BY <1>1, <1>2, <2>1 DEF w, mr, mn
<1>. QED  BY <1>4, <1>9, <1>10, <1>11 DEF dNorm, t, nf, r, k

LEMMA DetratioForce ==
    ASSUME NEW u \in Int, NEW f \in Complex
    PROVE  /\ calc_fermion_force_detratio(u, f) \in Int /\ RatioGradient(u, f) \in Int
           /\ Congruent(calc_fermion_force_detratio(u, f), RatioGradient(u, f))
<1> DEFINE q == Qplus(u, "mp")
           g == Times(q, f)
           inv == Inverted(u, g, "light")
           k == NormOf(u, "light")
           j == NormOf(u, "mp")
           r == Reciprocal[k]
           rr == r * r
           s == rr % P
           nf == SquareNorm(f)
           ng == SquareNorm(g)
           a == dNorm(u, "light")
           c == dNorm(u, "mp")
           A == fermion_force(inv.Y, inv.X, "light")
           B == fermion_force(Scale(-1, f), inv.X, "mp")
<1>0. "mp" \in Masses /\ "light" \in Masses
  BY DEF Masses
<1>1. q \in Complex /\ k \in Nonzero /\ j \in Int /\ k \in Int
  BY <1>0, QplusIs, ModId
<1>2. g \in Complex /\ ng = (j * nf) % P /\ nf \in Int /\ ng \in Int
  BY <1>1, RingType, NormTimes, NormIs DEF NormOf
<1>3. Solved(u, g, "light", inv)
  <2> HIDE DEF g
  <2>. QED  BY <1>0, <1>2, InvertedIs
<1>4. r \in Int /\ Congruent(k * r, 1) /\ Reciprocal[(k * k) % P] = s
  BY <1>1, ReciprocalIs, ReciprocalTimes
<1>5. A \in Int /\ Congruent(A, DetGradient(u, g, "light")) /\ DetGradient(u, g, "light") \in Int
  <2> HIDE DEF inv, g
  <2>. QED  BY <1>0, <1>2, <1>3, DetForce
<1>6. B \in Int /\ Congruent(B, (nf * c) * r) /\ (nf * c) * r \in Int
  <2> HIDE DEF inv
  <2>. QED  BY <1>3, RatioForce
<1>7. calc_fermion_force_detratio(u, f) = A + B
  BY DEF calc_fermion_force_detratio
<1>8. DetGradient(u, g, "light") = -((ng * a) * s)
  <2> HIDE DEF g, s
  <2>. QED  BY <1>4 DEF DetGradient, k, ng, a
<1>9. RatioGradient(u, f) = (nf * (c * k - j * a)) * s
  <2> HIDE DEF a, c, s
  <2>. QED  BY <1>4 DEF RatioGradient, a, c, k, j, nf
<1>10. a \in Int /\ c \in Int
  <2>1. Kappa["mp"] \in Int /\ Kappa["light"] \in Int
    BY <1>0, QplusIs
  <2>. QED  BY <2>1 DEF dNorm
<1>11. rr \in Int /\ s \in Int /\ Congruent(s, rr)
  <2>1. rr \in Int
    BY <1>4
  <2> HIDE DEF rr
  <2>. QED  BY <2>1, Remainder
<1> HIDE DEF A, B, a, c, k, j, r, rr, s, nf, ng, g, inv
\* the norm of the source
<1> DEFINE jn == j * nf
           as == a * s
<1>12. as \in Int /\ jn \in Int /\ Congruent(ng, jn)
  <2>1. jn \in Int /\ as \in Int
    BY <1>1, <1>2, <1>10, <1>11
  <2> HIDE DEF jn
  <2>. QED  BY <2>1, <1>2, Remainder DEF jn
<1> HIDE DEF jn, as
<1>13. Congruent(ng * as, jn * as)
  BY <1>2, <1>12, CongruentTimes
\* k s is r
<1> DEFINE nc == nf * c
           ks == k * s
           kr == k * r
           o == 1
<1>14. Congruent(ks, r) /\ ks \in Int
  <2>1. Congruent(k * s, k * rr) /\ k * rr \in Int /\ ks \in Int
    BY <1>1, <1>11, CongruentTimes
  <2>2. k * rr = kr * r /\ kr \in Int /\ o \in Int /\ o * r = r
    <3>1. \A i \in Int, l \in Int : i * (l * l) = (i * l) * l
      OBVIOUS
    <3>. QED  BY <1>1, <1>4, <3>1 DEF rr
  <2>3. Congruent(kr, o)
    BY <1>4
  <2> HIDE DEF kr, o
  <2>4. Congruent(kr * r, o * r)
    BY <1>4, <2>2, <2>3, CongruentTimes
  <2>. QED  BY <1>4, <2>1, <2>2, <2>4, CongruentChain
<1> HIDE DEF ks
<1>15. nc \in Int /\ Congruent(nc * r, nc * ks)
  <2>1. nc \in Int
    BY <1>2, <1>10
  <2>2. Congruent(r, ks)
    BY <1>4, <1>14, CongruentOps
  <2> HIDE DEF nc
  <2>. QED  BY <1>4, <1>14, <2>1, <2>2, CongruentTimes
<1> DEFINE v == ng * as
           w == jn * as
           x == nc * r
           y == nc * ks
<1>16. v \in Int /\ w \in Int /\ x \in Int /\ y \in Int
  <2> HIDE DEF nc
  <2>1. \A i \in Int, l \in Int : i * l \in Int
    OBVIOUS
  <2>2. nc \in Int /\ ng \in Int /\ as \in Int /\ jn \in Int /\ r \in Int /\ ks \in Int
    BY <1>2, <1>4, <1>12, <1>14, <1>15
  <2>. QED  BY <2>1, <2>2
<1>17. -v \in Int /\ -w \in Int /\ Congruent(-v, -w) /\ Congruent(A, -v) /\ Congruent(B, x) /\ Congruent(x, y)
  <2>1. Congruent(v, w) /\ Congruent(x, y)
    BY <1>13, <1>15
  <2>2. (ng * a) * s = v
    BY <1>2, <1>10, <1>11 DEF as
  <2>3. Congruent(A, -v) /\ Congruent(B, x)
    BY <1>5, <1>6, <1>8, <2>2
  <2> HIDE DEF v, w, x, y
  <2>. QED  BY <1>16, <2>1, <2>3, CongruentOps
<1>18. -w + y = (nf * (c * k - j * a)) * s
  <2>1. \A i1 \in Int, i2 \in Int, i3 \in Int, i4 \in Int, i5 \in Int, i6 \in Int :
           -((i4 * i1) * (i5 * i6)) + (i1 * i2) * (i3 * i6) = (i1 * (i2 * i3 - i4 * i5)) * i6
    OBVIOUS
  <2>. QED  BY <1>1, <1>2, <1>10, <1>11, <2>1 DEF jn, as, ks
<1> HIDE DEF v, w, x, y
<1>19. Congruent(A, -w) /\ Congruent(B, y)
  BY <1>5, <1>6, <1>16, <1>17, CongruentChain
<1>20. Congruent(A + B, -w + y) /\ A + B \in Int /\ -w + y \in Int
  BY <1>5, <1>6, <1>16, <1>17, <1>19, CongruentOps
<1>. QED  BY <1>7, <1>9, <1>18, <1>20

\* What the two kernel calls for a pole and a pseudofermion compute.
LEMMA PoleProduct ==
    ASSUME NEW w \in Complex, NEW s \in Numbers, NEW d \in Numbers
    PROVE  LET X == Scale(s, w)
               Y == Scale(d, X)
               z == (d * ((((s * s) % P) * SquareNorm(w)) % P)) % P
           IN /\ Re(Times(Conj(Y), X)) = z /\ Re(Times(Conj(X), Y)) = z
<1> DEFINE X == Scale(s, w)
           Y == Scale(d, X)
           ss == (s * s) % P
           nx == (ss * SquareNorm(w)) % P
           D == Real(d)
           g == Conj(X)
           z == (d * nx) % P
<1>1. X = Times(Real(s), w) /\ X \in Complex /\ Real(s) \in Complex
  BY RealIs
<1>2. SquareNorm(X) = nx
  BY <1>1, NormTimes, NormOfReal
<1> HIDE DEF X
<1>3. Y = Times(D, X) /\ D \in Complex /\ Conj(D) = D
  BY <1>1, RealIs
<1>4. g \in Complex /\ Times(X, g) = Real(nx) /\ nx \in Numbers
  BY <1>1, <1>2, NormIs
<1> HIDE DEF Y, nx, g
<1>5. Times(D, Real(nx)) = Real(z)
  BY <1>4, RealIs
<1>6. z \in Numbers
  <2>1. d * nx \in Int
    <3>1. d \in Int /\ nx \in Int
      BY <1>4, ModId
    <3>. QED  BY <3>1
  <2>. QED  BY <2>1, ModType
<1> HIDE DEF z, D
<1>7. Re(Real(z)) = z
  BY <1>6, RealIs
<1>8. Times(Conj(Y), X) = Real(z)
  <2>1. Conj(Y) = Times(D, g)
    BY <1>1, <1>3, Conjugation DEF g
  <2>2. Times(Times(D, g), X) = Times(D, Times(g, X))
    BY <1>1, <1>3, <1>4, TimesAssociative
  <2>3. Times(g, X) = Times(X, g)
    BY <1>1, <1>4, TimesCommutes
  <2>. QED  BY <1>4, <1>5, <2>1, <2>2, <2>3
<1>9. Times(Conj(X), Y) = Real(z)
  <2>1. Times(g, Times(D, X)) = Times(D, Times(g, X))
    BY <1>1, <1>3, <1>4, MoveFirst
  <2>3. Times(g, X) = Times(X, g)
    BY <1>1, <1>4, TimesCommutes
  <2>. QED  BY <1>3, <1>4, <1>5, <2>1, <2>3 DEF g
<1>. QED  BY <1>7, <1>8, <1>9 DEF Y, X, z, nx

LEMMA ShiftedNumber ==
    ASSUME NEW r, IsRational(r), NEW u \in Int, NEW q, q.site \in {"EVEN", "ODD"}, NEW i \in DOMAIN r.b
    PROVE  /\ Shifted(MdagM_eo(u, q.site), r.b[i]) \in Numbers
           /\ Shifted(MdagM_eo(u, q.site), r.b[i]) \in Int
           /\ D_KS_eo(u, "ODD", q.site) \in Numbers /\ D_KS_eo(u, "ODD", q.site) \in Int
           /\ r.a[i] \in Int /\ r.b[i] \in Int /\ r.b[i] \in Positive
           /\ MdagM_eo(u, q.site) \in Int
<1>1. MdagM_eo(u, q.site) \in Int /\ D_KS_eo(u, "ODD", q.site) \in Numbers /\ D_KS_eo(u, "ODD", q.site) \in Int
  BY MatrixType
<1>2. r.a[i] \in Int /\ r.b[i] \in Int /\ r.b[i] \in Positive
  BY RationalType
<1>. QED  BY <1>1, <1>2, ShiftedIs

\* s^2 |w|^2 times half the link, whatever the parity of the site.
HalfLink(u, w, s) == (Half * u) * ((s * s) * SquareNorm(w))

LEMMA PoleForceType ==
    ASSUME NEW r, IsRational(r), NEW u \in Int, NEW w \in Complex,
           NEW q, q.site \in {"EVEN", "ODD"}, NEW i \in DOMAIN r.b
    PROVE  LET s == Shifted(MdagM_eo(u, q.site), r.b[i])
           IN /\ PoleForce(r, u, w, q, i) \in Int
              /\ HalfLink(u, w, s) \in Int
              /\ Congruent(PoleForce(r, u, w, q, i), -(r.a[i] * HalfLink(u, w, s)))
<1> DEFINE s == Shifted(MdagM_eo(u, q.site), r.b[i])
           d == D_KS_eo(u, "ODD", q.site)
           a == r.a[i]
           nw == SquareNorm(w)
           X == Scale(s, w)
           Y == Scale(d, X)
           t == (((s * s) % P) * nw) % P
           z == (d * t) % P
           h == Half * u
           b == IF q.site = "EVEN" THEN -1 ELSE 1
<1>1. s \in Numbers /\ s \in Int /\ d \in Numbers /\ d \in Int /\ a \in Int /\ nw \in Int
  <2>1. s \in Numbers /\ s \in Int /\ d \in Numbers /\ d \in Int /\ a \in Int
    BY ShiftedNumber
  <2>2. nw \in Int
    BY NormIs
  <2>. QED  BY <2>1, <2>2
<1>2. Re(Times(Conj(Y), X)) = z /\ Re(Times(Conj(X), Y)) = z
  <2> HIDE DEF s, d
  <2>. QED  BY <1>1, PoleProduct
<1>3. d = (h * b) % P
  BY DEF D_KS_eo
<1>4. PoleForce(r, u, w, q, i) = -a * (fermion_staggered_partial_force(Y, X, "EVEN", q.site)
                                       + fermion_staggered_partial_force(X, Y, "ODD", q.site))
  BY DEF PoleForce
<1> HIDE DEF s, d, a, nw, X, Y
<1>5. t \in Int /\ Congruent(t, (s * s) * nw)
  <2> DEFINE ss == s * s
             sn == (ss % P) * nw
  <2>1. ss \in Int /\ ss % P \in Int /\ Congruent(ss % P, ss)
    <3>1. ss \in Int
      BY <1>1
    <3> HIDE DEF ss
    <3>. QED  BY <3>1, Remainder
  <2> HIDE DEF ss
  <2>2. sn \in Int /\ ss * nw \in Int /\ Congruent(sn, ss * nw)
    <3> DEFINE x == ss % P
    <3>1. x \in Int /\ Congruent(x, ss)
      BY <2>1
    <3> HIDE DEF x
    <3>2. Congruent(x * nw, ss * nw)
      BY <1>1, <2>1, <3>1, CongruentTimes
    <3>3. x * nw \in Int /\ ss * nw \in Int
      BY <1>1, <2>1, <3>1
    <3>. QED  BY <3>2, <3>3 DEF x
  <2> HIDE DEF sn
  <2>3. sn % P \in Int /\ Congruent(sn % P, sn)
    BY <2>2, Remainder
  <2>4. Congruent(sn % P, ss * nw)
    BY <2>2, <2>3, CongruentChain
  <2>. QED  BY <2>3, <2>4 DEF sn, ss
<1>6. h \in Int /\ b \in Int /\ (b = 1 \/ b = -1)
  BY HalfIs
<1> DEFINE hb == h * b
           e == (s * s) * nw
<1>7. hb \in Int /\ e \in Int /\ Congruent(d, hb)
  <2>1. hb \in Int /\ e \in Int
    <3> HIDE DEF h, b
    <3>. QED  BY <1>1, <1>6
  <2> HIDE DEF hb
  <2>2. Congruent(hb % P, hb)
    BY <2>1, Remainder
  <2>. QED  BY <1>3, <2>1, <2>2 DEF hb
<1> HIDE DEF t
<1>8. z \in Int /\ Congruent(z, hb * e) /\ hb * e \in Int
  <2> DEFINE dt == d * t
  <2>0. Congruent(t, e)
    BY <1>5
  <2> HIDE DEF hb, e
  <2>1. dt \in Int /\ Congruent(dt, hb * e) /\ hb * e \in Int
    BY <1>1, <1>5, <1>7, <2>0, CongruentOps
  <2> HIDE DEF dt
  <2>2. dt % P \in Int /\ Congruent(dt % P, dt)
    BY <2>1, Remainder
  <2> DEFINE f == hb * e
  <2>3. f \in Int /\ Congruent(dt, f)
    BY <2>1
  <2> HIDE DEF f
  <2>4. Congruent(dt % P, f)
    BY <2>1, <2>2, <2>3, CongruentChain
  <2>. QED  BY <2>1, <2>2, <2>4 DEF dt, f
<1>9. PoleForce(r, u, w, q, i) = -(a * (b * z))
  <2> HIDE DEF z
  <2>1. -z \in Int /\ 1 * (-z) = -z /\ -1 * (-z) = z /\ -z + 0 = -z /\ 0 + z = z
    BY <1>8
  <2>2. CASE q.site = "EVEN"
    <3>1. /\ fermion_staggered_partial_force(Y, X, "EVEN", q.site) = 1 * (-z)
          /\ fermion_staggered_partial_force(X, Y, "ODD", q.site) = 0
      BY <1>2, <2>2 DEF fermion_staggered_partial_force
    <3>2. b * z = -z
      BY <1>8, <2>2
    <3> HIDE DEF b
    <3>. QED  BY <1>4, <2>1, <3>1, <3>2
  <2>3. CASE q.site = "ODD"
    <3>1. /\ fermion_staggered_partial_force(Y, X, "EVEN", q.site) = 0
          /\ fermion_staggered_partial_force(X, Y, "ODD", q.site) = z
      <4>1. fermion_staggered_partial_force(Y, X, "EVEN", q.site) = 0
        BY <2>3 DEF fermion_staggered_partial_force
      <4>2. fermion_staggered_partial_force(X, Y, "ODD", q.site)
            = (IF "ODD" = "EVEN" THEN 1 ELSE -1) * (-z)
        BY <1>2, <2>3 DEF fermion_staggered_partial_force
      <4>3. (IF "ODD" = "EVEN" THEN 1 ELSE -1) * (-z) = z
        BY <1>8
      <4>. QED  BY <4>1, <4>2, <4>3
    <3>2. b * z = z
      BY <1>8, <2>3
    <3> HIDE DEF b
    <3>. QED  BY <1>4, <2>1, <3>1, <3>2
  <2>. QED  BY <2>2, <2>3
<1> HIDE DEF z, b, h
<1> DEFINE ab == -(a * b)
           f == hb * e
<1>10. ab \in Int /\ -(a * (b * z)) = ab * z /\ ab * z \in Int
  <2>1. \A i1 \in Int, i2 \in Int, i3 \in Int : -(i1 * (i2 * i3)) = (-(i1 * i2)) * i3 /\ (-(i1 * i2)) * i3 \in Int
    OBVIOUS
  <2>. QED  BY <1>1, <1>6, <1>8, <2>1
<1>11. Congruent(ab * z, ab * f)
  <2>1. f \in Int /\ Congruent(z, f)
    BY <1>8
  <2> HIDE DEF ab, f
  <2>. QED  BY <1>8, <1>10, <2>1, CongruentTimes
<1>12. ab * f = -(a * (h * e)) /\ h * e \in Int
  <2>1. b * b = 1
    BY <1>6
  <2>2. \A i1 \in Int, i2 \in Int, i3 \in Int, i4 \in Int :
           i2 * i2 = 1 => (-(i1 * i2)) * ((i3 * i2) * i4) = -(i1 * (i3 * i4))
    <3> TAKE i1 \in Int, i2 \in Int, i3 \in Int, i4 \in Int
    <3>1. (-(i1 * i2)) * ((i3 * i2) * i4) = -((i2 * i2) * (i1 * (i3 * i4)))
      OBVIOUS
    <3> DEFINE k == i1 * (i3 * i4)
    <3>2. k \in Int
      OBVIOUS
    <3> HIDE DEF k
    <3>3. i2 * i2 = 1 => (i2 * i2) * k = k
      BY <3>2
    <3>. QED  BY <3>1, <3>3 DEF k
  <2>3. e \in Int
    BY <1>7
  <2> HIDE DEF e
  <2>4. h * e \in Int
    BY <1>6, <2>3
  <2>. QED  BY <1>1, <1>6, <2>1, <2>2, <2>3, <2>4
<1>. QED  BY <1>9, <1>10, <1>11, <1>12 DEF HalfLink, a, s, h, nw

PoleTerm(r, u, q, i) ==
    r.a[i] * Reciprocal[((MdagM_eo(u, q.site) + r.b[i]) * (MdagM_eo(u, q.site) + r.b[i])) % P]

PoleTerms(r, u, q) == [i \in DOMAIN r.b |-> PoleTerm(r, u, q, i)]
SumOfPoles(r, u, q) == MapThenSumSet(LAMBDA i : PoleTerm(r, u, q, i), DOMAIN r.b)

RootedGradient(r, u, f, q) == -SumOfFields(f, SquareNorm) * Half * u * SumOfPoles(r, u, q)

LEMMA SumOfPolesIs ==
    ASSUME NEW r, NEW u, NEW q
    PROVE  SumOfPoles(r, u, q) = Sum(PoleTerms(r, u, q), DOMAIN r.b)
<1> DEFINE S == DOMAIN r.b
           A(h) == h = [s \in SUBSET S |->
                          IF s = {} THEN 0
                          ELSE PoleTerm(r, u, q, CHOOSE x \in s : TRUE) + h[s \ {CHOOSE x \in s : TRUE}]]
           B(h) == h = [s \in SUBSET S |->
                          IF s = {} THEN 0
                          ELSE PoleTerms(r, u, q)[CHOOSE x \in s : TRUE] + h[s \ {CHOOSE x \in s : TRUE}]]
<1>1. \A h : A(h) <=> B(h)
  <2>1. \A s \in SUBSET S : s # {} => (CHOOSE x \in s : TRUE) \in S
    OBVIOUS
  <2>. QED  BY <2>1 DEF PoleTerms
<1>2. (CHOOSE h : A(h)) = (CHOOSE h : B(h))
  <2> HIDE DEF A, B
  <2>. QED  BY <1>1, Zenon
<1>3. SumOfPoles(r, u, q) = (CHOOSE h : A(h))[S]
  BY DEF SumOfPoles, MapThenSumSet, MapThenFoldSet
<1>4. Sum(PoleTerms(r, u, q), S) = (CHOOSE h : B(h))[S]
  BY DEF Sum, MapThenSumSet, MapThenFoldSet
<1>. QED  BY <1>2, <1>3, <1>4

Fields(f) == \E m \in Nat : f \in [1 .. m -> Complex]

LEMMA FieldsAre ==
    ASSUME NEW f, Fields(f)
    PROVE  /\ IsFiniteSet(DOMAIN f) /\ \A j \in DOMAIN f : f[j] \in Complex
           /\ Norms(f) \in [DOMAIN f -> Int] /\ SumOfFields(f, SquareNorm) = Sum(Norms(f), DOMAIN f)
           /\ SumOfFields(f, SquareNorm) \in Int
<1>1. PICK m \in Nat : f \in [1 .. m -> Complex]
  BY DEF Fields
<1>2. IsFiniteSet(1 .. m)
  BY FS_Interval
<1>3. IsFiniteSet(DOMAIN f) /\ \A j \in DOMAIN f : f[j] \in Complex
  BY <1>1, <1>2
<1>4. Norms(f) \in [DOMAIN f -> Int]
  BY <1>3, NormIs DEF Norms
<1>5. Sum(Norms(f), DOMAIN f) \in Int
  BY <1>3, <1>4, SumType
<1>. QED  BY <1>3, <1>4, <1>5, NormSum

LEMMA RootedForceType ==
    ASSUME NEW r, IsRational(r), NEW u \in Int, NEW f, Fields(f), NEW q, q.site \in {"EVEN", "ODD"}
    PROVE  /\ RootedForces(r, u, f, q) \in [DOMAIN f -> Int]
           /\ calc_fermion_force_rooted(r, u, f, q) \in Int
           /\ \A j \in DOMAIN f : PoleForces(r, u, f[j], q) \in [DOMAIN r.b -> Int]
<1>1. IsFiniteSet(DOMAIN f) /\ IsFiniteSet(DOMAIN r.b)
  <2>1. 0 \in Int
    OBVIOUS
  <2>. QED  BY <2>1, FieldsAre, RationalType
<1>2. ASSUME NEW j \in DOMAIN f PROVE PoleForces(r, u, f[j], q) \in [DOMAIN r.b -> Int]
  <2>1. f[j] \in Complex
    BY FieldsAre
  <2>2. \A i \in DOMAIN r.b : PoleForce(r, u, f[j], q, i) \in Int
    BY <2>1, PoleForceType
  <2>. QED  BY <2>2 DEF PoleForces
<1>3. ASSUME NEW j \in DOMAIN f PROVE Sum(PoleForces(r, u, f[j], q), DOMAIN r.b) \in Int
  BY <1>1, <1>2, SumType
<1>4. RootedForces(r, u, f, q) \in [DOMAIN f -> Int]
  BY <1>3 DEF RootedForces
<1>5. Sum(RootedForces(r, u, f, q), DOMAIN f) \in Int
  BY <1>1, <1>4, SumType
<1>. QED  BY <1>2, <1>4, <1>5, RootedSum

\* A positive matrix has no pole.
LEMMA PoleTermIs ==
    ASSUME NEW r, IsRational(r), NEW u \in Int, NEW q, q.site \in {"EVEN", "ODD"},
           MdagM_eo(u, q.site) \in Positive, NEW i \in DOMAIN r.b
    PROVE  LET s == Shifted(MdagM_eo(u, q.site), r.b[i])
           IN PoleTerm(r, u, q, i) = r.a[i] * ((s * s) % P) /\ PoleTerm(r, u, q, i) \in Int
<1> DEFINE M == MdagM_eo(u, q.site)
           b == r.b[i]
           s == Shifted(M, b)
           x == M + b
           y == x % P
           ss == s * s
<1>1. M \in Int /\ b \in Int /\ b \in Positive /\ s \in Int /\ r.a[i] \in Int
  BY ShiftedNumber
<1>2. M \in Positive
  OBVIOUS
<1> HIDE DEF M, b
<1>3. ~Null(x) /\ y \in Nonzero
  BY <1>1, <1>2, NoOpposite
<1>4. y # 0
  BY <1>3 DEF Nonzero
<1>5. s = Reciprocal[y]
  BY <1>4 DEF Shifted
<1>6. x \in Int
  BY <1>1
<1> HIDE DEF s, x
<1>7. (y * y) % P = (x * x) % P
  BY <1>6, ModProduct
<1> HIDE DEF y
<1>8. Reciprocal[(y * y) % P] = (s * s) % P
  BY <1>3, <1>5, ReciprocalTimes
<1>9. ss % P \in Int
  <2>1. ss \in Int
    BY <1>1
  <2> HIDE DEF ss
  <2>. QED  BY <2>1, Remainder
<1>10. PoleTerm(r, u, q, i) = r.a[i] * (ss % P)
  BY <1>7, <1>8 DEF PoleTerm, x, M, b
<1> DEFINE z == ss % P
<1>11. r.a[i] * z \in Int
  <2> HIDE DEF z
  <2>1. z \in Int
    BY <1>9 DEF z
  <2>. QED  BY <1>1, <2>1
<1>. QED  BY <1>10, <1>11 DEF s, M, b

LEMMA PoleForceIs ==
    ASSUME NEW r, IsRational(r), NEW u \in Int, NEW q, q.site \in {"EVEN", "ODD"},
           MdagM_eo(u, q.site) \in Positive, NEW i \in DOMAIN r.b, NEW w \in Complex
    PROVE  /\ Congruent(PoleForce(r, u, w, q, i), (-((Half * u) * SquareNorm(w))) * PoleTerm(r, u, q, i))
           /\ PoleForce(r, u, w, q, i) \in Int /\ PoleTerm(r, u, q, i) \in Int
           /\ -((Half * u) * SquareNorm(w)) \in Int
<1> DEFINE s == Shifted(MdagM_eo(u, q.site), r.b[i])
           a == r.a[i]
           nw == SquareNorm(w)
           h == Half * u
           ss == s * s
           z == ss % P
           F == PoleForce(r, u, w, q, i)
           L == HalfLink(u, w, s)
           c == -(h * nw)
<1>1. F \in Int /\ L \in Int /\ Congruent(F, -(a * L))
  BY PoleForceType
<1>2. PoleTerm(r, u, q, i) = a * z /\ PoleTerm(r, u, q, i) \in Int
  BY PoleTermIs
<1>3. a \in Int /\ s \in Int
  BY ShiftedNumber
<1>4. nw \in Int /\ Half \in Int
  BY NormIs, HalfIs
<1>5. L = h * (ss * nw)
  BY DEF HalfLink
<1> HIDE DEF s, a, nw, F, L
<1>6. h \in Int /\ ss \in Int /\ c \in Int
  BY <1>3, <1>4
<1> HIDE DEF h, ss
<1>7. z \in Int /\ Congruent(ss, z)
  BY <1>6, Remainder
<1> HIDE DEF z
<1> DEFINE ca == c * a
<1>8. ca \in Int /\ -(a * L) = ca * ss /\ c * (a * z) = ca * z /\ ca * ss \in Int /\ ca * z \in Int
  <2>1. \A i1 \in Int, i2 \in Int, i3 \in Int, i4 \in Int :
           -(i1 * (i2 * (i3 * i4))) = ((-(i2 * i4)) * i1) * i3
    OBVIOUS
  <2>2. -(a * L) = ca * ss
    BY <1>3, <1>4, <1>5, <1>6, <2>1
  <2>3. \A i1 \in Int, i2 \in Int, i3 \in Int : i1 * (i2 * i3) = (i1 * i2) * i3
    OBVIOUS
  <2> HIDE DEF c
  <2>4. ca \in Int /\ c * (a * z) = ca * z
    BY <1>3, <1>6, <1>7, <2>3
  <2> HIDE DEF ca
  <2>. QED  BY <1>6, <1>7, <2>2, <2>4
<1> HIDE DEF ca, c
<1>9. Congruent(ca * ss, ca * z)
  BY <1>6, <1>7, <1>8, CongruentTimes
<1>10. Congruent(F, ca * z)
  BY <1>1, <1>8, <1>9, CongruentChain
<1>. QED  BY <1>1, <1>2, <1>6, <1>8, <1>10 DEF F, c, h, nw

LEMMA RootedForce ==
    ASSUME NEW r, IsRational(r), NEW u \in Int, NEW f, Fields(f), NEW q, q.site \in {"EVEN", "ODD"},
           MdagM_eo(u, q.site) \in Positive
    PROVE  /\ RootedGradient(r, u, f, q) \in Int
           /\ Congruent(calc_fermion_force_rooted(r, u, f, q), RootedGradient(r, u, f, q))
<1> DEFINE S == DOMAIN r.b
           T == SumOfPoles(r, u, q)
           g == PoleTerms(r, u, q)
           h == Half * u
           a == -(h * T)
           N == Sum(Norms(f), DOMAIN f)
           G == RootedForces(r, u, f, q)
           k == Norms(f)
<1>1. IsFiniteSet(DOMAIN f) /\ IsFiniteSet(S)
  <2>1. 0 \in Int
    OBVIOUS
  <2>. QED  BY <2>1, FieldsAre, RationalType
<1>2. g \in [S -> Int] /\ T = Sum(g, S)
  BY PoleTermIs, SumOfPolesIs DEF PoleTerms
<1>3. T \in Int
  <2> HIDE DEF g, S, T
  <2>. QED  BY <1>1, <1>2, SumType
<1>4. h \in Int
  BY HalfIs
<1>5. k \in [DOMAIN f -> Int] /\ N = SumOfFields(f, SquareNorm) /\ N \in Int
  BY FieldsAre
<1>6. G \in [DOMAIN f -> Int]
  BY RootedForceType
<1>7. a \in Int
  <2> HIDE DEF h, T
  <2>. QED  BY <1>3, <1>4
<1>8. ASSUME NEW j \in DOMAIN f PROVE Congruent(G[j], a * k[j])
  <2> DEFINE w == f[j]
             c == -(h * SquareNorm(w))
             F == PoleForces(r, u, w, q)
  <2>1. w \in Complex /\ k[j] = SquareNorm(w) /\ G[j] = Sum(F, S)
    BY FieldsAre DEF Norms, RootedForces
  <2>2. F \in [S -> Int]
    BY RootedForceType
  <2>3. \A i \in S : F[i] = PoleForce(r, u, w, q, i) /\ g[i] = PoleTerm(r, u, q, i)
    BY DEF PoleForces, PoleTerms
  <2> HIDE DEF w
  <2>4. \A i \in S : Congruent(F[i], c * g[i])
    BY <2>1, <2>3, PoleForceIs
  <2>5. SquareNorm(w) \in Int
    BY <2>1, NormIs
  <2> HIDE DEF F, S, g, h
  <2>6. c \in Int
    BY <1>4, <2>5
  <2> HIDE DEF c
  <2>7. Congruent(Sum(F, S), c * Sum(g, S))
    BY <1>1, <1>2, <2>2, <2>4, <2>6, CongruentSums
  <2>8. c * T = a * k[j]
    <3> DEFINE x == SquareNorm(w)
    <3>1. x \in Int /\ k[j] = x
      BY <2>1, <2>5
    <3> HIDE DEF x, T, k
    <3>2. \A i1 \in Int, i2 \in Int, i3 \in Int : (-(i1 * i2)) * i3 = (-(i1 * i3)) * i2
      OBVIOUS
    <3>. QED  BY <1>3, <1>4, <3>1, <3>2 DEF c, x
  <2>. QED  BY <1>2, <2>1, <2>7, <2>8
<1>9. Congruent(Sum(G, DOMAIN f), a * Sum(k, DOMAIN f))
  <2> HIDE DEF G, k, a
  <2>. QED  BY <1>1, <1>5, <1>6, <1>7, <1>8, CongruentSums
<1>10. RootedGradient(r, u, f, q) = -N * Half * u * T
  <2> HIDE DEF N, T
  <2>. QED  BY <1>5 DEF RootedGradient, T
<1>11. -N * Half * u * T = a * N /\ a * N \in Int
  <2>1. \A i1 \in Int, i2 \in Int, i3 \in Int, i4 \in Int :
           -i1 * i2 * i3 * i4 = (-((i2 * i3) * i4)) * i1 /\ (-((i2 * i3) * i4)) * i1 \in Int
    OBVIOUS
  <2>2. Half \in Int
    BY HalfIs
  <2> HIDE DEF N, T
  <2>. QED  BY <1>3, <1>5, <2>1, <2>2
<1>. QED  BY <1>9, <1>10, <1>11, RootedSum
------------------------------------------------------------------------------
(* The forces of a parameter set *)

Acting(q) == IF q.useGaugeOnly THEN {"gauge"}
             ELSE IF q.useMp THEN {"gauge", "det_mp", "detratio"}
             ELSE {"gauge", "det"}

Drawn ==
    /\ prm \in AllParameters
    /\ ~prm.useGaugeOnly /\ Staggered => phi \in [1 .. prm.num_pseudofermions -> Complex]
    /\ ~prm.useGaugeOnly /\ ~Staggered => phi \in Complex
    /\ ~prm.useGaugeOnly /\ prm.useMp => phi_mp \in Complex
    /\ Staggered => IsRational(rational)

LEMMA Couplings ==
    ASSUME NEW u \in Int
    PROVE  /\ Beta \in Int /\ C1 \in Int /\ c0 \in Int
           /\ calc_gauge_force(u) \in Int /\ calc_gauge_force(u) = GaugeGradient(u)
<1>1. Beta \in Int /\ C1 \in Int
  BY HmcAssumption, ModId
<1>2. c0 \in Int
  BY <1>1 DEF c0
<1>3. GaugeGradient(u) = -Beta * (c0 * 2 * u + (IF prm.useRectangles THEN C1 * 3 * u * u ELSE 0))
  BY DEF GaugeGradient
<1>4. calc_gauge_force(u) = -Beta * c0 * 2 * u + (IF prm.useRectangles THEN -Beta * C1 * 3 * u * u ELSE 0)
  BY DEF calc_gauge_force, gauge_force, gauge_force_tlsym
<1>5. \A i1 \in Int, i2 \in Int, i3 \in Int :
         /\ -i1 * i2 * 2 * u + -i1 * i3 * 3 * u * u = -i1 * (i2 * 2 * u + i3 * 3 * u * u)
         /\ -i1 * i2 * 2 * u + 0 = -i1 * (i2 * 2 * u + 0)
         /\ -i1 * i2 * 2 * u + -i1 * i3 * 3 * u * u \in Int
         /\ -i1 * i2 * 2 * u + 0 \in Int
  OBVIOUS
<1>6. calc_gauge_force(u) \in Int /\ calc_gauge_force(u) = GaugeGradient(u)
  <2>1. CASE prm.useRectangles
    <3>1. /\ GaugeGradient(u) = -Beta * (c0 * 2 * u + C1 * 3 * u * u)
          /\ calc_gauge_force(u) = -Beta * c0 * 2 * u + -Beta * C1 * 3 * u * u
      BY <1>3, <1>4, <2>1
    <3>. QED  BY <1>1, <1>2, <1>5, <3>1
  <2>2. CASE ~prm.useRectangles
    <3>1. /\ GaugeGradient(u) = -Beta * (c0 * 2 * u + 0)
          /\ calc_gauge_force(u) = -Beta * c0 * 2 * u + 0
      BY <1>3, <1>4, <2>2
    <3>. QED  BY <1>1, <1>2, <1>5, <3>1
  <2>. QED  BY <2>1, <2>2
<1>. QED  BY <1>1, <1>2, <1>6

LEMMA WilsonForce ==
    ASSUME NEW u \in Int, NEW f \in Complex, NEW m \in Masses
    PROVE  /\ calc_fermion_force(u, f, m) \in Int /\ DetGradient(u, f, m) \in Int
           /\ Congruent(calc_fermion_force(u, f, m), DetGradient(u, f, m))
<1> DEFINE inv == Inverted(u, f, m)
<1>1. Solved(u, f, m, inv)
  BY InvertedIs
<1>2. calc_fermion_force(u, f, m) = fermion_force(inv.Y, inv.X, m)
  BY DEF calc_fermion_force
<1> HIDE DEF inv
<1>. QED  BY <1>1, <1>2, DetForce

LEMMA DrawnFields ==
    ASSUME Drawn
    PROVE  /\ prm \in AllParameters /\ prm.useGaugeOnly \in BOOLEAN /\ prm.useMp \in BOOLEAN
           /\ Staggered => /\ prm.site \in {"EVEN", "ODD"} /\ ~prm.useMp /\ IsRational(rational)
                           /\ prm.num_tastes \in 1 .. 3 /\ prm.num_pseudofermions \in {1, 2}
                           /\ prm.conservative \in BOOLEAN
           /\ ~prm.useGaugeOnly /\ Staggered => Fields(phi)
<1>1. prm \in AllParameters
  BY DEF Drawn
<1>2. ASSUME ~prm.useGaugeOnly, Staggered PROVE Fields(phi)
  <2>1. phi \in [1 .. prm.num_pseudofermions -> Complex]
    BY <1>2 DEF Drawn
  <2>2. prm.num_pseudofermions \in Nat
    BY <1>1, <1>2, ParametersAre DEF Staggered
  <2>. QED  BY <2>1, <2>2 DEF Fields
<1>. QED  BY <1>1, <1>2, ParametersAre DEF Drawn, Staggered

\* By its kind, what a force is.
LEMMA ForceKinds ==
    ASSUME NEW u \in Int
    PROVE  /\ ForceOf("gauge", u) = calc_gauge_force(u)
           /\ ForceOf("det", u) = IF Staggered THEN calc_fermion_force_rooted(rational, u, phi, prm)
                                  ELSE calc_fermion_force(u, phi, "light")
           /\ ForceOf("det_mp", u) = calc_fermion_force(u, phi, "mp")
           /\ ForceOf("detratio", u) = calc_fermion_force_detratio(u, phi_mp)
  BY DEF ForceOf

LEMMA ForceType ==
    ASSUME Drawn, NEW u \in Int, NEW f \in Acting(prm)
    PROVE  ForceOf(f, u) \in Int
<1>1. "mp" \in Masses /\ "light" \in Masses
  BY DEF Masses
<1>2. CASE f = "gauge"
  BY <1>2, Couplings, ForceKinds
<1>3. CASE f = "det"
  <2>1. ~prm.useGaugeOnly
    BY <1>3 DEF Acting
  <2>2. CASE Staggered
    <3>1. IsRational(rational) /\ Fields(phi) /\ prm.site \in {"EVEN", "ODD"}
      BY <2>1, <2>2, DrawnFields
    <3>2. calc_fermion_force_rooted(rational, u, phi, prm) \in Int
      BY <3>1, RootedForceType
    <3>. QED  BY <1>3, <2>2, <3>2, ForceKinds
  <2>3. CASE ~Staggered
    <3>1. phi \in Complex
      BY <2>1, <2>3 DEF Drawn
    <3>2. calc_fermion_force(u, phi, "light") \in Int
      BY <1>1, <3>1, WilsonForce
    <3>. QED  BY <1>3, <2>3, <3>2, ForceKinds
  <2>. QED  BY <2>2, <2>3
<1>4. CASE f = "det_mp"
  <2>1. ~prm.useGaugeOnly /\ prm.useMp
    BY <1>4 DEF Acting
  <2>2. phi \in Complex
    BY <2>1, DrawnFields DEF Drawn
  <2>3. calc_fermion_force(u, phi, "mp") \in Int
    BY <1>1, <2>2, WilsonForce
  <2>. QED  BY <1>4, <2>3, ForceKinds
<1>5. CASE f = "detratio"
  <2>1. ~prm.useGaugeOnly /\ prm.useMp
    BY <1>5 DEF Acting
  <2>2. phi_mp \in Complex
    BY <2>1 DEF Drawn
  <2>3. calc_fermion_force_detratio(u, phi_mp) \in Int
    BY <2>2, DetratioForce
  <2>. QED  BY <1>5, <2>3, ForceKinds
<1>6. f \in {"gauge", "det", "det_mp", "detratio"}
  BY DEF Acting
<1>. QED  BY <1>2, <1>3, <1>4, <1>5, <1>6

LEMMA FewAreFinite ==
    \A x, y, z : IsFiniteSet({x}) /\ IsFiniteSet({x, y}) /\ IsFiniteSet({x, y, z})
<1> TAKE x, y, z
<1>1. IsFiniteSet({x})
  <2>1. IsFiniteSet({} \cup {x})
    BY FS_EmptySet, FS_AddElement
  <2>2. {} \cup {x} = {x}
    OBVIOUS
  <2>. QED  BY <2>1, <2>2
<1>2. IsFiniteSet({x, y})
  <2>1. IsFiniteSet({x} \cup {y})
    BY <1>1, FS_AddElement
  <2>2. {x} \cup {y} = {x, y}
    OBVIOUS
  <2>. QED  BY <2>1, <2>2
<1>3. IsFiniteSet({x, y, z})
  <2>1. IsFiniteSet({x, y} \cup {z})
    BY <1>2, FS_AddElement
  <2>2. {x, y} \cup {z} = {x, y, z}
    OBVIOUS
  <2>. QED  BY <2>1, <2>2
<1>. QED  BY <1>1, <1>2, <1>3

LEMMA TotalType ==
    ASSUME Drawn, NEW u \in Int, NEW F \in SUBSET Acting(prm)
    PROVE  /\ TotalTerms(F, u) \in [F -> Int] /\ TotalOf(F, u) \in Int
           /\ TotalOf(F, u) = Sum(TotalTerms(F, u), F)
<1>1. TotalTerms(F, u) \in [F -> Int]
  BY ForceType DEF TotalTerms
<1>2. IsFiniteSet(Acting(prm))
  <2>1. IsFiniteSet({"gauge"}) /\ IsFiniteSet({"gauge", "det"})
    BY FewAreFinite
  <2>2. IsFiniteSet({"gauge", "det_mp", "detratio"})
    BY FewAreFinite
  <2>. QED  BY <2>1, <2>2 DEF Acting
<1>3. IsFiniteSet(F)
  BY <1>2, FS_Subset
<1>4. Sum(TotalTerms(F, u), F) \in Int
  BY <1>1, <1>3, SumType
<1>. QED  BY <1>1, <1>4, TotalSum

\* What FermionGradient is made of.
LEMMA GradientIs ==
    ASSUME NEW u
    PROVE  FermionGradient(u) =
               IF prm.useGaugeOnly THEN 0
               ELSE IF Staggered THEN RootedGradient(rational, u, phi, prm)
               ELSE IF prm.useMp THEN DetGradient(u, phi, "mp") + RatioGradient(u, phi_mp)
               ELSE DetGradient(u, phi, "light")
  BY DEF FermionGradient, RootedGradient, SumOfPoles, PoleTerm, DetGradient, RatioGradient, NormOf, dNorm

LEMMA ForcesAddUp ==
    ASSUME Drawn, NEW u \in Int, Staggered => MdagM_eo(u, prm.site) \in Positive
    PROVE  /\ FermionGradient(u) \in Int /\ GaugeGradient(u) \in Int /\ TotalOf(Acting(prm), u) \in Int
           /\ Congruent(TotalOf(Acting(prm), u), FermionGradient(u) + GaugeGradient(u))
<1> DEFINE F == Acting(prm)
           t == TotalTerms(F, u)
           G == GaugeGradient(u)
<1>1. TotalOf(F, u) \in Int /\ t \in [F -> Int] /\ TotalOf(F, u) = Sum(t, F)
  <2>1. F \in SUBSET Acting(prm)
    OBVIOUS
  <2>. QED  BY <2>1, TotalType
<1>2. G \in Int /\ ForceOf("gauge", u) = G
  BY Couplings, ForceKinds
<1>3. \A f \in F : t[f] = ForceOf(f, u)
  BY DEF TotalTerms
<1>0. "mp" \in Masses /\ "light" \in Masses
  BY DEF Masses
<1> HIDE DEF t, G
<1>4. CASE prm.useGaugeOnly
  <2>1. F = {"gauge"}
    BY <1>4 DEF Acting
  <2>2. FermionGradient(u) = 0
    BY <1>4, GradientIs
  <2> HIDE DEF F
  <2>3. t \in [{"gauge"} -> Int] /\ t["gauge"] = G
    BY <1>1, <1>2, <1>3, <2>1
  <2>4. Sum(t, {"gauge"}) = t["gauge"]
    BY <2>3, SmallSums
  <2>5. TotalOf(F, u) = G /\ 0 + G = G /\ 0 \in Int
    BY <1>1, <1>2, <2>1, <2>3, <2>4
  <2>6. Congruent(G, G)
    BY <1>2, CongruentSelf
  <2>. QED  BY <1>2, <2>2, <2>5, <2>6 DEF F, G
<1>5. ASSUME ~prm.useGaugeOnly, ~prm.useMp, NEW d, ForceOf("det", u) = d, FermionGradient(u) \in Int,
             d \in Int, Congruent(d, FermionGradient(u))
      PROVE  Congruent(TotalOf(F, u), FermionGradient(u) + G)
  <2>1. F = {"gauge", "det"}
    BY <1>5 DEF Acting
  <2> HIDE DEF F
  <2>2. t \in [{"gauge", "det"} -> Int] /\ t["gauge"] = G /\ t["det"] = d /\ "gauge" # "det"
    BY <1>1, <1>2, <1>3, <1>5, <2>1
  <2>3. Sum(t, {"gauge", "det"}) = t["gauge"] + t["det"]
    BY <2>2, SmallSums
  <2>4. TotalOf(F, u) = d + G
    BY <1>1, <1>2, <1>5, <2>1, <2>2, <2>3
  <2>5. Congruent(G, G)
    BY <1>2, CongruentSelf
  <2>. QED  BY <1>2, <1>5, <2>4, <2>5, CongruentOps
<1>6. CASE ~prm.useGaugeOnly /\ Staggered
  <2> DEFINE d == calc_fermion_force_rooted(rational, u, phi, prm)
  <2>1. IsRational(rational) /\ Fields(phi) /\ prm.site \in {"EVEN", "ODD"} /\ ~prm.useMp
    BY <1>6, DrawnFields
  <2>2. FermionGradient(u) = RootedGradient(rational, u, phi, prm)
    BY <1>6, GradientIs
  <2>3. d \in Int
    BY <2>1, RootedForceType
  <2>4. RootedGradient(rational, u, phi, prm) \in Int /\ Congruent(d, RootedGradient(rational, u, phi, prm))
    BY <1>6, <2>1, RootedForce
  <2>5. ForceOf("det", u) = d
    BY <1>6, ForceKinds
  <2> HIDE DEF d
  <2>6. Congruent(TotalOf(F, u), FermionGradient(u) + G)
    <3> HIDE DEF F
    <3>. QED  BY <1>5, <1>6, <2>1, <2>2, <2>3, <2>4, <2>5
  <2>. QED  BY <1>1, <1>2, <2>2, <2>4, <2>6 DEF G
<1>7. CASE ~prm.useGaugeOnly /\ ~Staggered /\ ~prm.useMp
  <2> DEFINE d == calc_fermion_force(u, phi, "light")
  <2>1. phi \in Complex
    BY <1>7 DEF Drawn
  <2>2. FermionGradient(u) = DetGradient(u, phi, "light")
    BY <1>7, GradientIs
  <2>3. d \in Int /\ DetGradient(u, phi, "light") \in Int /\ Congruent(d, DetGradient(u, phi, "light"))
    BY <1>0, <2>1, WilsonForce
  <2>5. ForceOf("det", u) = d
    BY <1>7, ForceKinds
  <2> HIDE DEF d
  <2>6. Congruent(TotalOf(F, u), FermionGradient(u) + G)
    <3> HIDE DEF F
    <3>. QED  BY <1>5, <1>7, <2>2, <2>3, <2>5
  <2>. QED  BY <1>1, <1>2, <2>2, <2>3, <2>6 DEF G
<1>8. CASE ~prm.useGaugeOnly /\ ~Staggered /\ prm.useMp
  <2> DEFINE d == calc_fermion_force(u, phi, "mp")
             e == calc_fermion_force_detratio(u, phi_mp)
             x == DetGradient(u, phi, "mp")
             y == RatioGradient(u, phi_mp)
  <2>1. phi \in Complex /\ phi_mp \in Complex
    BY <1>8 DEF Drawn
  <2>2. FermionGradient(u) = x + y
    BY <1>8, GradientIs
  <2>3. d \in Int /\ x \in Int /\ Congruent(d, x)
    BY <1>0, <2>1, WilsonForce
  <2>4. e \in Int /\ y \in Int /\ Congruent(e, y)
    BY <2>1, DetratioForce
  <2>5. ForceOf("det_mp", u) = d /\ ForceOf("detratio", u) = e
    BY ForceKinds
  <2>6. F = {"gauge", "det_mp", "detratio"}
    BY <1>8 DEF Acting
  <2> HIDE DEF F, d, e, x, y
  <2>7. /\ t \in [{"gauge", "det_mp", "detratio"} -> Int] /\ t["gauge"] = G /\ t["det_mp"] = d /\ t["detratio"] = e
        /\ "gauge" # "det_mp" /\ "gauge" # "detratio" /\ "det_mp" # "detratio"
    BY <1>1, <1>2, <1>3, <2>5, <2>6
  <2>8. Sum(t, {"gauge", "det_mp", "detratio"}) = t["gauge"] + t["det_mp"] + t["detratio"]
    BY <2>7, SmallSums
  <2> DEFINE de == d + e
             xy == x + y
  <2>9. TotalOf(F, u) = de + G /\ de \in Int /\ xy \in Int
    BY <1>1, <1>2, <2>3, <2>4, <2>6, <2>7, <2>8
  <2>10. Congruent(de, xy)
    BY <2>3, <2>4, CongruentOps
  <2>11. Congruent(G, G)
    BY <1>2, CongruentSelf
  <2> HIDE DEF de, xy
  <2>12. Congruent(de + G, xy + G)
    BY <1>2, <2>9, <2>10, <2>11, CongruentOps
  <2>. QED  BY <1>1, <1>2, <2>2, <2>9, <2>12 DEF G, F, xy
<1>. QED  BY <1>4, <1>6, <1>7, <1>8
------------------------------------------------------------------------------
(* The motion in phase space *)

LEMMA ForcesAct ==
    ASSUME NEW q \in Integrable
    PROVE  /\ \A F \in ForceSets(q) : F \subseteq Acting(q) /\ F # {}
           /\ UNION ForceSets(q) = Acting(q)
<1>1. /\ q.numTimescales \in 1 .. 3 /\ q.useGaugeOnly \in BOOLEAN /\ q.useMp \in BOOLEAN
      /\ q.useGaugeOnly => q.numTimescales = 1
      /\ q.useMp <=> q.numTimescales = 3
  BY IntegrableParameters
<1>2. CASE q.numTimescales = 1
  <2>1. ForceSets(q) = {IF q.useGaugeOnly THEN {"gauge"} ELSE {"gauge", "det"}}
    BY <1>2 DEF ForceSets, TotalForce
  <2>2. Acting(q) = IF q.useGaugeOnly THEN {"gauge"} ELSE {"gauge", "det"}
    BY <1>1, <1>2 DEF Acting
  <2>. QED  BY <2>1, <2>2
<1>3. CASE q.numTimescales = 2
  <2>1. ForceSets(q) = {{"gauge"}, {"det"}}
    BY <1>3 DEF ForceSets
  <2>2. Acting(q) = {"gauge", "det"}
    BY <1>1, <1>3 DEF Acting
  <2>. QED  BY <2>1, <2>2
<1>4. CASE q.numTimescales = 3
  <2>1. ForceSets(q) = {{"gauge"}, {"det_mp"}, {"detratio"}}
    BY <1>4 DEF ForceSets
  <2>2. Acting(q) = {"gauge", "det_mp", "detratio"}
    BY <1>1, <1>4 DEF Acting
  <2>. QED  BY <2>1, <2>2
<1>. QED  BY <1>1, <1>2, <1>3, <1>4

Points == [u : Numbers, p : Numbers]
Moving(C) == [s \in Points |-> [v \in Updating(C) |-> Evolve(s, v)]]

At(x, y) == [u |-> x, p |-> y]
Drifted(s, eps) == At((s.u + eps * Velocity(s.p)) % P, s.p)
Pushed(s, F, eps) == At(s.u, (s.p - eps * TotalOf(F, s.u)) % P)

LEMMA PointIs ==
    ASSUME NEW s \in Points
    PROVE  /\ s = At(s.u, s.p) /\ s.u \in Numbers /\ s.p \in Numbers /\ s.u \in Int /\ s.p \in Int
           /\ Velocity(s.p) \in Int
           /\ \A x, y : [s EXCEPT !.u = x] = At(x, s.p) /\ [s EXCEPT !.p = y] = At(s.u, y)
<1>1. s.u \in Numbers /\ s.p \in Numbers
  BY DEF Points
<1>2. s.u \in Int /\ s.p \in Int
  BY <1>1, ModId
<1>3. Velocity(s.p) \in Int
  BY <1>2, HalfIs DEF Velocity
<1>. QED  BY <1>1, <1>2, <1>3 DEF Points, At

LEMMA AtIs ==
    /\ \A x \in Numbers, y \in Numbers : At(x, y) \in Points
    /\ \A x, y : At(x, y).u = x /\ At(x, y).p = y
  BY DEF At, Points

LEMMA EvolveIs ==
    ASSUME NEW s \in Points, NEW v
    PROVE  Evolve(s, v) = IF v.forces = {} THEN Drifted(s, v.eps) ELSE Pushed(s, v.forces, v.eps)
  BY PointIs DEF Evolve, Drifted, Pushed

LEMMA MotionTypes ==
    ASSUME Drawn, NEW s \in Points, NEW eps \in Int, NEW F \in SUBSET Acting(prm)
    PROVE  /\ Drifted(s, eps) \in Points /\ Pushed(s, F, eps) \in Points
           /\ TotalOf(F, s.u) \in Int
<1> DEFINE x == s.u
           y == s.p
           t == TotalOf(F, x)
           w == Velocity(y)
<1>1. x \in Int /\ y \in Int /\ w \in Int /\ x \in Numbers /\ y \in Numbers
  BY PointIs
<1> HIDE DEF x, y
<1>2. t \in Int
  BY <1>1, TotalType
<1> HIDE DEF t, w
<1> DEFINE a == x + eps * w
           b == y - eps * t
<1>3. a \in Int /\ b \in Int
  BY <1>1, <1>2
<1> HIDE DEF a, b
<1>4. a % P \in Numbers /\ b % P \in Numbers
  BY <1>3, ModType
<1>5. At(a % P, y) \in Points /\ At(x, b % P) \in Points
  BY <1>1, <1>4, AtIs
<1>. QED  BY <1>2, <1>5 DEF Drifted, Pushed, a, b, x, y, t, w

LEMMA MotionMachine ==
    ASSUME Drawn, NEW C, \A F \in C : F \subseteq Acting(prm) /\ F # {}
    PROVE  Machine(Moving(C), Points, Updating(C))
<1> DEFINE A == Updating(C)
<1>1. ASSUME NEW s \in Points, NEW v \in A PROVE Evolve(s, v) \in Points
  <2>1. v.eps \in Int /\ v.forces \in C \cup {{}}
    BY DEF Updating
  <2>2. v.forces \in SUBSET Acting(prm)
    BY <2>1
  <2>3. Drifted(s, v.eps) \in Points /\ Pushed(s, v.forces, v.eps) \in Points
    BY <2>1, <2>2, MotionTypes
  <2>. QED  BY <2>3, EvolveIs
<1> HIDE DEF A
<1>2. [s \in Points |-> [v \in A |-> Evolve(s, v)]] \in [Points -> [A -> Points]]
  BY <1>1
<1>. QED  BY <1>2 DEF Machine, Moving, A

LEMMA EvolvedRuns ==
    ASSUME Drawn, NEW C, \A F \in C : F \subseteq Acting(prm) /\ F # {},
           NEW a \in Points, NEW s \in Seq(Updating(C))
    PROVE  FoldLeft(Evolve, a, s) = Run(Moving(C), a, s)
<1> DEFINE U == Updating(C)
           G == Moving(C)
           T == SUBSET (DOMAIN s)
           B(h) == h = [S \in T |-> IF S = {} THEN a ELSE Evolve(h[S \ {Max(S)}], s[Max(S)])]
<1>1. Machine(G, Points, U)
  BY MotionMachine
<1>2. Foldable(G, Points, a, s) /\ FoldedBack(G, Points, a, s)
  <2> HIDE DEF G, U
  <2>1. s \in Seq(U)
    BY DEF U
  <2>. QED  BY <1>1, <2>1, Folding
<1>3. FoldLeft(Evolve, a, s) = (CHOOSE h : B(h))[DOMAIN s]
  BY DEF FoldLeft, MapThenFoldSet
<1>6. \A x \in Points, v \in U : G[x][v] = Evolve(x, v)
  BY DEF Moving
<1>7. \A S \in T : S # {} => s[Max(S)] \in U /\ S \ {Max(S)} \in T
  <2> HIDE DEF U
  <2>1. s \in Seq(U)
    BY DEF U
  <2>. QED  BY <2>1, MaxInDomain
<1>8. {} \in T /\ DOMAIN s \in T
  OBVIOUS
<1> HIDE DEF T, G, U
<1>10. \E h : B(h)
  <2>1. PICK h \in [T -> Points] :
           \A S \in T : h[S] = IF S = {} THEN a ELSE G[h[S \ {Max(S)}]][s[Max(S)]]
    BY <1>2 DEF Foldable, T
  <2>2. ASSUME NEW S \in T, S # {}
        PROVE  G[h[S \ {Max(S)}]][s[Max(S)]] = Evolve(h[S \ {Max(S)}], s[Max(S)])
    BY <2>1, <2>2, <1>6, <1>7
  <2>3. ASSUME NEW S \in T
        PROVE  h[S] = IF S = {} THEN a ELSE Evolve(h[S \ {Max(S)}], s[Max(S)])
    BY <2>1, <2>2
  <2>4. h = [S \in T |-> h[S]]
    BY <2>1
  <2>5. [S \in T |-> h[S]] = [S \in T |-> IF S = {} THEN a ELSE Evolve(h[S \ {Max(S)}], s[Max(S)])]
    BY <2>3
  <2>6. B(h)
    BY <2>4, <2>5
  <2> HIDE DEF B
  <2>. QED  BY <2>6
<1> DEFINE h == CHOOSE h : B(h)
<1>12. B(h)
  <2> HIDE DEF B
  <2>. QED  BY <1>10
<1>13. RunsBack(h, G, Points, a, s)
  <2> HIDE DEF h
  <2>1. ASSUME NEW S \in T, S # {}, h[S \ {Max(S)}] \in Points
        PROVE  h[S] = G[h[S \ {Max(S)}]][s[Max(S)]]
    <3>1. h[S] = Evolve(h[S \ {Max(S)}], s[Max(S)])
      BY <1>12, <2>1
    <3>. QED  BY <2>1, <3>1, <1>6, <1>7
  <2>2. h[{}] = a
    BY <1>12, <1>8
  <2>. QED  BY <2>1, <2>2 DEF RunsBack, T
<1>14. h[DOMAIN s] = Run(G, a, s)
  <2> HIDE DEF h
  <2>. QED  BY <1>13, <1>2 DEF FoldedBack
<1> HIDE DEF B, h
<1>. QED  BY <1>3, <1>14 DEF h, G
------------------------------------------------------------------------------
(* Reversed motion *)

\* After s, reversed by R, t leads back.
Undoes(G, D, R, t, s) == \A d \in D : Act(G, D, t)[R[Act(G, D, s)[d]]] = R[d]

Reversible(G, D, R, A) == Machine(G, D, A) /\ R \in [D -> D]

LEMMA UndoBoth ==
    ASSUME NEW D, NEW A, NEW G, NEW R, Reversible(G, D, R, A),
           NEW s \in Seq(A), NEW v \in Seq(A), NEW t \in Seq(A), NEW w \in Seq(A),
           Undoes(G, D, R, s, v), Undoes(G, D, R, t, w)
    PROVE  Undoes(G, D, R, t \o s, v \o w)
<1>1. Machine(G, D, A) /\ R \in [D -> D]
  BY DEF Reversible
<1>2. SUFFICES ASSUME NEW d \in D PROVE Act(G, D, t \o s)[R[Act(G, D, v \o w)[d]]] = R[d]
  BY DEF Undoes
<1> DEFINE y == Act(G, D, v)[d]
           z == Act(G, D, w)[y]
<1>3. y \in D /\ z \in D
  <2>1. Act(G, D, v) \in [D -> D] /\ Act(G, D, w) \in [D -> D]
    BY <1>1, ActOf
  <2>. QED  BY <2>1
<1>4. Act(G, D, v \o w)[d] = z
  BY <1>1, ActOfConcat
<1> HIDE DEF z
<1> DEFINE x == R[z]
<1>5. x \in D
  BY <1>1, <1>3
<1>6. Act(G, D, t)[x] = R[y]
  BY <1>3 DEF Undoes, z
<1> HIDE DEF x
<1>7. Act(G, D, t \o s)[x] = Act(G, D, s)[Act(G, D, t)[x]]
  BY <1>1, <1>5, ActOfConcat
<1>8. Act(G, D, s)[R[y]] = R[d]
  BY DEF Undoes
<1>. QED  BY <1>4, <1>6, <1>7, <1>8 DEF x

LEMMA UndoneBetween ==
    ASSUME NEW D, NEW A, NEW G, NEW R, Reversible(G, D, R, A),
           NEW k \in Seq(A), NEW w \in Seq(A),
           Undoes(G, D, R, k, k), Undoes(G, D, R, w, w)
    PROVE  Undoes(G, D, R, k \o w \o k, k \o w \o k)
<1>1. Undoes(G, D, R, w \o k, k \o w)
  BY UndoBoth
<1>2. k \o w \in Seq(A) /\ w \o k \in Seq(A)
  OBVIOUS
<1> DEFINE x == k \o w
           y == w \o k
<1>3. x \in Seq(A) /\ y \in Seq(A) /\ Undoes(G, D, R, y, x)
  BY <1>1, <1>2
<1> HIDE DEF x, y
<1>4. Undoes(G, D, R, k \o y, x \o k)
  BY <1>3, UndoBoth
<1>5. Assoc(k, w, k)
  BY Associative
<1>. QED  BY <1>4, <1>5 DEF x, y, Assoc

LEMMA UndoneRepeat ==
    ASSUME NEW D, NEW A, NEW G, NEW R, Reversible(G, D, R, A),
           NEW w \in Seq(A), Undoes(G, D, R, w, w), NEW m \in Nat
    PROVE  Undoes(G, D, R, Repeat(m, w), Repeat(m, w))
<1>1. Machine(G, D, A) /\ R \in [D -> D]
  BY DEF Reversible
<1> DEFINE S == {k \in Nat : Undoes(G, D, R, Repeat(k, w), Repeat(k, w))}
<1>2. 0 \in S
  <2>1. Repeat(0, w) = <<>>
    BY RepeatIs
  <2>2. \A d \in D : Act(G, D, <<>>)[d] = d
    BY <1>1, ActOfNothing
  <2>3. Undoes(G, D, R, <<>>, <<>>)
    BY <1>1, <2>2 DEF Undoes
  <2>. QED  BY <2>1, <2>3
<1>3. ASSUME NEW k \in Nat, k \in S PROVE k + 1 \in S
  <2>1. Repeat(k, w) \in Seq(A) /\ Repeat(k + 1, w) = Repeat(k, w) \o w
    BY RepeatIs
  <2> DEFINE e == <<>>
             r == Repeat(k, w)
  <2>2. e \in Seq(A) /\ r \in Seq(A) /\ Undoes(G, D, R, r, r)
    BY <2>1, <1>3
  <2>3. w \o Repeat(k, e \o w) = Repeat(k, w \o e) \o w
    <3> HIDE DEF e
    <3>. QED  BY <2>2, Shift
  <2>4. w \o e = w /\ e \o w = w
    BY Nothing
  <2> HIDE DEF e, r
  <2>5. Undoes(G, D, R, w \o r, r \o w)
    BY <2>2, UndoBoth
  <2>6. w \o r = r \o w
    BY <2>3, <2>4 DEF r
  <2>7. Undoes(G, D, R, Repeat(k + 1, w), Repeat(k + 1, w))
    BY <2>1, <2>5, <2>6 DEF r
  <2>. QED  BY <2>7
<1> HIDE DEF S
<1>4. Nat \subseteq S
  BY <1>2, <1>3, Induction
<1>. QED  BY <1>4 DEF S

KicksUndone(G, D, R, C) ==
    \A F \in C \cup {{}}, x \in Int : Undoes(G, D, R, Kick(F, x), Kick(F, x))

Palindromes(G, D, R, C) == {w \in WordsOf(Updating(C)) : Undoes(G, D, R, w.all, w.all)}

\* The levels of the integrators are palindromes.
LEMMA NextUndone ==
    ASSUME NEW D, NEW C, NEW G, NEW R, Reversible(G, D, R, Updating(C)), KicksUndone(G, D, R, C),
           NEW w \in Palindromes(G, D, R, C),
           NEW F \in C, NEW x \in Int, NEW y \in Int, NEW m \in Nat
    PROVE  NextOf(w, Kick(F, x), Kick(F, y), m) \in Palindromes(G, D, R, C)
<1> DEFINE A == Updating(C)
           k == Kick(F, x)
           l == Kick(F, y)
           v == w.all
           u == k \o v \o k
           z == NextOf(w, k, l, m)
<1>1. w \in WordsOf(A) /\ Undoes(G, D, R, v, v) /\ k \in Seq(A) /\ l \in Seq(A)
  BY Atoms DEF Palindromes
<1>2. Undoes(G, D, R, k, k)
  BY DEF KicksUndone
<1>3. Reversible(G, D, R, A)
  OBVIOUS
<1> HIDE DEF A, k, l
<1>4. v \in Seq(A) /\ z \in WordsOf(A)
  BY <1>1, WordFields, LevelTypes
<1> HIDE DEF v
<1>5. Undoes(G, D, R, u, u) /\ u \in Seq(A)
  BY <1>1, <1>2, <1>3, <1>4, UndoneBetween
<1>6. z.all = Repeat(m + 1, u)
  BY DEF NextOf, v
<1> HIDE DEF u, z
<1> DEFINE j == m + 1
<1>7. j \in Nat
  OBVIOUS
<1> HIDE DEF j
<1>8. Undoes(G, D, R, Repeat(j, u), Repeat(j, u))
  BY <1>3, <1>5, <1>7, UndoneRepeat
<1>9. Undoes(G, D, R, z.all, z.all)
  BY <1>6, <1>8 DEF j
<1>. QED  BY <1>4, <1>9 DEF Palindromes, A, z, k, l

LEMMA TwiceUndone ==
    ASSUME NEW D, NEW C, NEW G, NEW R, Reversible(G, D, R, Updating(C)), KicksUndone(G, D, R, C),
           NEW w \in Palindromes(G, D, R, C), NEW F \in C, NEW x \in Int
    PROVE  TwiceOf(w, Kick(F, x)) \in Palindromes(G, D, R, C)
<1> DEFINE A == Updating(C)
           k == Kick(F, x)
           v == w.all
           z == TwiceOf(w, k)
           o == 0
<1>1. w \in WordsOf(A) /\ Undoes(G, D, R, v, v) /\ k \in Seq(A) /\ o \in Nat
  BY Atoms DEF Palindromes
<1>2. Undoes(G, D, R, k, k)
  BY DEF KicksUndone
<1>3. Reversible(G, D, R, A)
  OBVIOUS
<1> HIDE DEF A, k, o
<1>4. v \in Seq(A) /\ z \in WordsOf(A)
  BY <1>1, WordFields, LevelTypes
<1> HIDE DEF v
<1>5. Undoes(G, D, R, v \o k \o v, v \o k \o v)
  BY <1>1, <1>2, <1>3, <1>4, UndoneBetween
<1>6. z.all = v \o k \o v
  BY DEF TwiceOf, v
<1> HIDE DEF z
<1>. QED  BY <1>4, <1>5, <1>6 DEF Palindromes, A, z, k

LEMMA PalindromesClosed ==
    ASSUME NEW D, NEW C, NEW G, NEW R, Reversible(G, D, R, Updating(C)), KicksUndone(G, D, R, C)
    PROVE  Closed(Palindromes(G, D, R, C), C)
<1> DEFINE W == Palindromes(G, D, R, C)
<1>1. ASSUME NEW d \in Int PROVE BottomOf(md_update_gaugefield(d)) \in W
  <2> DEFINE z == md_update_gaugefield(d)
             e == {}
  <2>1. e \in C \cup {{}} /\ z = Kick(e, d)
    BY DEF md_update_gaugefield, Kick
  <2>2. z \in Seq(Updating(C)) /\ Undoes(G, D, R, z, z)
    <3> HIDE DEF e
    <3>. QED  BY <2>1, Atoms DEF KicksUndone
  <2> HIDE DEF z
  <2>3. BottomOf(z) \in WordsOf(Updating(C)) /\ BottomOf(z).all = z
    BY <2>2 DEF BottomOf, WordsOf
  <2>. QED  BY <2>2, <2>3 DEF z, Palindromes
<1>2. ASSUME NEW w \in W, NEW F \in C, NEW d \in Int, NEW m \in Nat \ {0}
      PROVE  LeapfrogOn(w, F, d, m) \in W
  <2> DEFINE x == d \div 2
             j == m - 1
  <2>1. x \in Int /\ j \in Nat
    OBVIOUS
  <2> HIDE DEF x, j
  <2>2. NextOf(w, Kick(F, x), Kick(F, d), j) \in W
    BY <2>1, NextUndone
  <2>. QED  BY <2>2 DEF LeapfrogOn, x, j
<1>3. ASSUME NEW w \in W, NEW F \in C, NEW d \in Int, NEW m \in Nat \ {0}, NEW i \in 1 .. 3
      PROVE  TwomnOn(w, F, i, d, m) \in W
  <2> DEFINE x == Outer(i, d)
             y == 2 * x
             z == d - 2 * x
             j == m - 1
             v == TwiceOf(w, Kick(F, z))
  <2>1. x \in Int
    BY OuterInt
  <2>5. j \in Nat
    OBVIOUS
  <2> HIDE DEF x
  <2>4. y \in Int /\ z \in Int
    BY <2>1
  <2> HIDE DEF y, z, j
  <2>2. v \in W
    BY <2>1, <2>4, TwiceUndone
  <2> HIDE DEF v
  <2>3. NextOf(v, Kick(F, x), Kick(F, y), j) \in W
    BY <2>1, <2>2, <2>4, <2>5, NextUndone
  <2>. QED  BY <2>3 DEF TwomnOn, TwomnTwice, x, y, z, j, v
<1> HIDE DEF W
<1>. QED  BY <1>1, <1>2, <1>3 DEF Closed, W

LEMMA RunsBackHome ==
    ASSUME NEW q \in Integrable, NEW D, NEW G, NEW R, KickRules(G, D, ForceSets(q)),
           R \in [D -> D], KicksUndone(G, D, R, ForceSets(q)), NEW d \in D
    PROVE  Run(G, R[Run(G, d, integrator(q))], integrator(q)) = R[d]
<1> DEFINE C == ForceSets(q)
           A == Updating(C)
           w == WordsFor(q)
           s == integrator(q)
           v == w.all
<1>1. Reversible(G, D, R, A) /\ KicksUndone(G, D, R, C) /\ Machine(G, D, A) /\ KickRules(G, D, C)
  BY DEF Reversible, KickRules
<1>2. w \in Palindromes(G, D, R, C)
  <2> HIDE DEF C, w
  <2>1. Closed(Palindromes(G, D, R, C), C)
    BY <1>1, PalindromesClosed DEF A
  <2>2. Closed(Palindromes(G, D, R, C), ForceSets(q))
    BY <2>1 DEF C
  <2>. QED  BY <2>2, AllLevels DEF w
<1>3. Undoes(G, D, R, v, v) /\ v \in Seq(A)
  <2> HIDE DEF C, w
  <2>. QED  BY <1>2, WordFields DEF Palindromes
<1>4. \A y \in D : Run(G, y, s) = Run(G, y, v)
  BY SameRun, SchemeIs
<1> HIDE DEF C, A, s, v
<1> DEFINE y == Run(G, d, v)
<1>5. y \in D
  BY <1>1, <1>3, RunIs
<1> HIDE DEF y
<1>6. R[y] \in D
  BY <1>5
<1>7. Run(G, R[y], v) = R[d]
  BY <1>3, <1>5, <1>6 DEF Undoes, Act, y
<1>. QED  BY <1>4, <1>5, <1>6, <1>7 DEF s, y
------------------------------------------------------------------------------
(* The integrator is reversible *)

Flip(s) == At(s.u, (-s.p) % P)
Flips == [s \in Points |-> Flip(s)]

FurtherPushed(s, x, E, y, F) ==
    Pushed(Pushed(s, E, x), F, y) = At(s.u, (s.p - (x * TotalOf(E, s.u) + y * TotalOf(F, s.u))) % P)

LEMMA PushedFurther ==
    ASSUME Drawn, NEW s \in Points, NEW E \in SUBSET Acting(prm), NEW F \in SUBSET Acting(prm),
           NEW x \in Int, NEW y \in Int
    PROVE  FurtherPushed(s, x, E, y, F)
<1> DEFINE a == s.u
           c == s.p
           t == TotalOf(E, a)
           w == TotalOf(F, a)
<1>1. a \in Int /\ c \in Int
  BY PointIs
<1> HIDE DEF a, c
<1>2. t \in Int /\ w \in Int
  BY <1>1, TotalType
<1> HIDE DEF t, w
<1> DEFINE xt == x * t
           yw == y * w
<1>3. xt \in Int /\ yw \in Int
  BY <1>2
<1>4. Pushed(s, E, x) = At(a, (c - xt) % P)
  BY DEF Pushed, a, c, t
<1> DEFINE d == (c - xt) % P
<1>5. Pushed(At(a, d), F, y) = At(a, (d - yw) % P)
  BY AtIs DEF Pushed, w
<1> HIDE DEF xt, yw
<1> DEFINE e == c - xt
           f == -yw
<1>6. e \in Int /\ f \in Int
  BY <1>1, <1>3
<1>9. d = e % P
  OBVIOUS
<1> HIDE DEF e, f
<1>7. ((e % P) + f) % P = (e + f) % P /\ (e % P) \in Int
  BY <1>6, ModPlus, ModType
<1>8. (e % P) + f = d - yw /\ e + f = c - (xt + yw)
  <2> DEFINE g == e % P
  <2>1. g \in Int /\ g = d
    BY <1>7, <1>9
  <2> HIDE DEF g, d
  <2>2. g + f = d - yw
    BY <2>1, <1>3 DEF f
  <2>3. e + f = c - (xt + yw)
    BY <1>1, <1>3 DEF e, f
  <2>. QED  BY <2>2, <2>3 DEF g
<1>. QED  BY <1>4, <1>5, <1>7, <1>8 DEF FurtherPushed, a, c, t, w, xt, yw

LEMMA KicksOfMotion ==
    ASSUME Drawn, NEW C, \A F \in C : F \subseteq Acting(prm) /\ F # {}
    PROVE  \A F \in C, x \in Int, s \in Points :
              Act(Moving(C), Points, Kick(F, x))[s] = Pushed(s, F, x) /\ Pushed(s, F, x) \in Points
<1> DEFINE G == Moving(C)
<1>1. Machine(G, Points, Updating(C))
  BY MotionMachine
<1>2. SUFFICES ASSUME NEW F \in C, NEW x \in Int, NEW s \in Points
      PROVE  Act(G, Points, Kick(F, x))[s] = Pushed(s, F, x) /\ Pushed(s, F, x) \in Points
  OBVIOUS
<1>3. F \in C \cup {{}}
  OBVIOUS
<1>4. G[s][KickOf(F, x)] = Evolve(s, KickOf(F, x))
  BY DEF Moving, KickOf, Updating
<1> HIDE DEF G
<1>5. Act(G, Points, Kick(F, x))[s] = G[s][KickOf(F, x)]
  BY <1>1, <1>3, KickActs
<1>6. KickOf(F, x).forces = F /\ KickOf(F, x).eps = x /\ F # {}
  BY DEF KickOf
<1>7. Evolve(s, KickOf(F, x)) = Pushed(s, F, x)
  BY <1>6, EvolveIs
<1>8. F \in SUBSET Acting(prm)
  OBVIOUS
<1>9. Pushed(s, F, x) \in Points
  BY <1>8, MotionTypes
<1>. QED  BY <1>4, <1>5, <1>7, <1>9

LEMMA KicksCommute ==
    ASSUME Drawn, NEW C, \A F \in C : F \subseteq Acting(prm) /\ F # {}
    PROVE  KickRules(Moving(C), Points, C)
<1> DEFINE G == Moving(C)
           A(F, x) == Act(G, Points, Kick(F, x))
<1>1. Machine(G, Points, Updating(C))
  BY MotionMachine
<1>2. \A F \in C, x \in Int, s \in Points : A(F, x)[s] = Pushed(s, F, x) /\ Pushed(s, F, x) \in Points
  BY KicksOfMotion
<1> HIDE DEF A
<1>3. ASSUME NEW E \in C, NEW F \in C, NEW x \in Int, NEW y \in Int, NEW s \in Points
      PROVE  A(F, y)[A(E, x)[s]] = At(s.u, (s.p - (x * TotalOf(E, s.u) + y * TotalOf(F, s.u))) % P)
  <2>1. E \in SUBSET Acting(prm) /\ F \in SUBSET Acting(prm)
    OBVIOUS
  <2>2. FurtherPushed(s, x, E, y, F)
    BY <2>1, PushedFurther
  <2>. QED  BY <1>2, <2>2 DEF FurtherPushed
<1>4. ASSUME NEW E \in C, NEW F \in C, NEW x \in Int, NEW y \in Int, NEW s \in Points
      PROVE  A(F, y)[A(E, x)[s]] = A(E, x)[A(F, y)[s]]
  <2> DEFINE t == x * TotalOf(E, s.u)
             w == y * TotalOf(F, s.u)
  <2>1. t \in Int /\ w \in Int
    <3> DEFINE a == TotalOf(E, s.u)
               c == TotalOf(F, s.u)
    <3>1. a \in Int /\ c \in Int
      BY PointIs, TotalType
    <3> HIDE DEF a, c
    <3>2. x * a \in Int /\ y * c \in Int
      BY <3>1
    <3>. QED  BY <3>2 DEF a, c
  <2>2. A(F, y)[A(E, x)[s]] = At(s.u, (s.p - (t + w)) % P)
    BY <1>3
  <2>3. A(E, x)[A(F, y)[s]] = At(s.u, (s.p - (w + t)) % P)
    BY <1>3
  <2> HIDE DEF t, w
  <2>4. t + w = w + t
    BY <2>1
  <2>. QED  BY <2>2, <2>3, <2>4
<1>5. ASSUME NEW F \in C, NEW x \in Int, NEW s \in Points
      PROVE  A(F, 2 * x)[s] = A(F, x)[A(F, x)[s]]
  <2> DEFINE a == TotalOf(F, s.u)
             y == 2 * x
  <2>1. a \in Int
    BY PointIs, TotalType
  <2>2. y \in Int
    OBVIOUS
  <2>3. A(F, x)[A(F, x)[s]] = At(s.u, (s.p - (x * a + x * a)) % P)
    BY <1>3
  <2> HIDE DEF y
  <2>4. A(F, y)[s] = At(s.u, (s.p - y * a) % P)
    BY <1>2, <2>2 DEF Pushed
  <2> HIDE DEF a
  <2>5. y * a = x * a + x * a
    <3>1. \A i, j \in Int : (2 * i) * j = i * j + i * j
      OBVIOUS
    <3>. QED  BY <3>1, <2>1 DEF y
  <2>. QED  BY <2>3, <2>4, <2>5 DEF y
<1> HIDE DEF G
<1>. QED  BY <1>1, <1>4, <1>5 DEF KickRules, Commute, Halves, A, G

LEMMA FlipIs ==
    /\ Flips \in [Points -> Points]
    /\ \A s \in Points : Flips[s] = At(s.u, (-s.p) % P) /\ Flip(s) \in Points
<1>1. ASSUME NEW s \in Points PROVE Flip(s) \in Points
  <2>1. s.u \in Numbers /\ s.p \in Int
    BY PointIs
  <2> DEFINE a == -s.p
  <2>2. a \in Int
    BY <2>1
  <2> HIDE DEF a
  <2>3. a % P \in Numbers
    BY <2>2, ModType
  <2>. QED  BY <2>1, <2>3, AtIs DEF Flip, a
<1>. QED  BY <1>1 DEF Flips, Flip

LEMMA KickBack ==
    ASSUME NEW y \in Int, NEW t \in Int
    PROVE  (((-((y - t) % P)) % P) - t) % P = (-y) % P
<1> DEFINE a == y - t
           b == a % P
           c == -b
           d == c % P
           e == d - t
           f == -y
           g == -a
           h == -t
<1>1. a \in Int /\ f \in Int /\ h \in Int
  OBVIOUS
<1>2. g \in Int /\ g + h = f
  OBVIOUS
<1> HIDE DEF a
<1>3. b \in Int /\ Congruent(b, a)
  BY <1>1, Remainder
<1> HIDE DEF b
<1>4. c \in Int
  BY <1>3
<1>5. Congruent(c, g)
  BY <1>1, <1>3, CongruentOps
<1> HIDE DEF c
<1>6. d \in Int /\ Congruent(d, c)
  BY <1>4, Remainder
<1> HIDE DEF d, g
<1>7. Congruent(d, g)
  BY <1>2, <1>4, <1>5, <1>6, CongruentChain
<1>8. Congruent(h, h)
  BY <1>1, CongruentSelf
<1> HIDE DEF h
<1>9. Congruent(d + h, g + h)
  BY <1>1, <1>2, <1>6, <1>7, <1>8, CongruentOps
<1>10. d + h = e /\ e \in Int
  BY <1>1, <1>6 DEF h
<1> HIDE DEF e, f
<1>11. Congruent(e, f)
  BY <1>2, <1>9, <1>10
<1>12. e % P = f % P
  BY <1>1, <1>10, <1>11, Congruence
<1>. QED  BY <1>12 DEF a, b, c, d, e, f

LEMMA DriftBack ==
    ASSUME NEW x \in Numbers, NEW y \in Int, NEW k \in Int
    PROVE  (((x + k * y) % P) + k * ((-y) % P)) % P = x
<1> DEFINE t == k * y
           a == x + t
           b == a % P
           f == -y
           g == f % P
           v == k * g
           w == k * f
           e == b + v
<1>1. x \in Int /\ x % P = x
  BY ModId
<1>2. t \in Int /\ f \in Int
  OBVIOUS
<1>3. w = -t /\ w \in Int
  <2>1. \A i, j \in Int : i * (-j) = -(i * j)
    OBVIOUS
  <2>. QED  BY <2>1, <1>2
<1> HIDE DEF t, f
<1>4. a \in Int
  BY <1>1, <1>2
<1> HIDE DEF a
<1>5. b \in Int /\ Congruent(b, a) /\ g \in Int /\ Congruent(g, f)
  BY <1>2, <1>4, Remainder
<1> HIDE DEF b, g
<1>6. v \in Int
  BY <1>5
<1>7. Congruent(v, w)
  BY <1>2, <1>5, CongruentTimes
<1> HIDE DEF v, w
<1>8. Congruent(b + v, a + w)
  BY <1>3, <1>4, <1>5, <1>6, <1>7, CongruentOps
<1>9. a + w = x /\ e \in Int
  BY <1>1, <1>2, <1>3, <1>5, <1>6 DEF a
<1>10. Congruent(e, x)
  BY <1>8, <1>9
<1> HIDE DEF e
<1>11. e % P = x % P
  BY <1>1, <1>9, <1>10, Congruence
<1>. QED  BY <1>1, <1>11 DEF t, a, b, f, g, v, e

LEMMA DriftUndone ==
    ASSUME NEW s \in Points, NEW eps \in Int
    PROVE  Drifted(Flip(Drifted(s, eps)), eps) = Flip(s)
<1> DEFINE x == s.u
           y == s.p
           k == IF Staggered THEN eps * Half ELSE eps
           f == (-y) % P
           d == (x + k * y) % P
<1>1. x \in Numbers /\ y \in Int
  BY PointIs
<1>2. k \in Int /\ Half \in Int
  BY HalfIs
<1> DEFINE g == -y
<1>3. g \in Int
  BY <1>1
<1> HIDE DEF x, y, g
<1>4. g % P \in Int
  BY <1>3, ModType
<1>5. f \in Int
  BY <1>4 DEF g
<1>6. \A j \in Int : eps * Velocity(j) = k * j
  <2>1. \A a, b, c \in Int : a * (b * c) = (a * b) * c
    OBVIOUS
  <2>2. \A j \in Int : Velocity(j) = IF Staggered THEN Half * j ELSE j
    BY DEF Velocity
  <2>. QED  BY <1>2, <2>1, <2>2
<1> HIDE DEF k, f
<1>7. eps * Velocity(y) = k * y /\ eps * Velocity(f) = k * f
  BY <1>1, <1>5, <1>6
<1>8. Drifted(s, eps) = At(d, y)
  BY <1>7 DEF Drifted, x, y
<1> HIDE DEF d
<1>9. Flip(At(d, y)) = At(d, f)
  BY AtIs DEF Flip, f
<1>10. Drifted(At(d, f), eps) = At((d + k * f) % P, f)
  BY <1>7, AtIs DEF Drifted
<1>11. (d + k * f) % P = x
  BY <1>1, <1>2, DriftBack DEF d, f
<1>12. Flip(s) = At(x, f)
  BY DEF Flip, x, y, f
<1>. QED  BY <1>8, <1>9, <1>10, <1>11, <1>12

LEMMA PushUndone ==
    ASSUME Drawn, NEW s \in Points, NEW eps \in Int, NEW F \in SUBSET Acting(prm)
    PROVE  Pushed(Flip(Pushed(s, F, eps)), F, eps) = Flip(s)
<1> DEFINE x == s.u
           y == s.p
           c == TotalOf(F, x)
           t == eps * c
           d == (y - t) % P
           f == (-d) % P
<1>1. x \in Int /\ y \in Int
  BY PointIs
<1> HIDE DEF x, y
<1>2. c \in Int
  BY <1>1, TotalType
<1> HIDE DEF c
<1>3. t \in Int
  BY <1>2
<1>4. Pushed(s, F, eps) = At(x, d)
  BY DEF Pushed, x, y, c
<1> HIDE DEF d
<1>5. Flip(At(x, d)) = At(x, f)
  BY AtIs DEF Flip
<1> HIDE DEF f
<1>6. Pushed(At(x, f), F, eps) = At(x, (f - t) % P)
  BY AtIs DEF Pushed, c
<1> HIDE DEF t
<1>7. (f - t) % P = (-y) % P
  BY <1>1, <1>3, KickBack DEF f, d
<1>8. Flip(s) = At(x, (-y) % P)
  BY DEF Flip, x, y
<1>. QED  BY <1>4, <1>5, <1>6, <1>7, <1>8

LEMMA MotionUndone ==
    ASSUME Drawn, NEW C, \A F \in C : F \subseteq Acting(prm) /\ F # {}
    PROVE  KicksUndone(Moving(C), Points, Flips, C)
<1> DEFINE G == Moving(C)
<1>1. Machine(G, Points, Updating(C))
  BY MotionMachine
<1>2. SUFFICES ASSUME NEW F \in C \cup {{}}, NEW x \in Int, NEW s \in Points
      PROVE  Act(G, Points, Kick(F, x))[Flips[Act(G, Points, Kick(F, x))[s]]] = Flips[s]
  BY DEF KicksUndone, Undoes
<1>3. \A v \in Points : G[v][KickOf(F, x)] = Evolve(v, KickOf(F, x))
  BY DEF Moving, KickOf, Updating
<1> HIDE DEF G
<1>4. \A v \in Points : Act(G, Points, Kick(F, x))[v] = G[v][KickOf(F, x)]
  BY <1>1, KickActs
<1>5. KickOf(F, x).forces = F /\ KickOf(F, x).eps = x
  BY DEF KickOf
<1>6. \A v \in Points : Evolve(v, KickOf(F, x)) = IF F = {} THEN Drifted(v, x) ELSE Pushed(v, F, x)
  BY <1>5, EvolveIs
<1>7. F \in SUBSET Acting(prm)
  OBVIOUS
<1>8. Drifted(s, x) \in Points /\ Pushed(s, F, x) \in Points
  BY <1>7, MotionTypes
<1>9. \A v \in Points : Flips[v] = Flip(v) /\ Flip(v) \in Points
  BY FlipIs DEF Flip
<1>10. CASE F = {}
  <2>1. Drifted(Flip(Drifted(s, x)), x) = Flip(s)
    BY DriftUndone
  <2>. QED  BY <2>1, <1>3, <1>4, <1>6, <1>8, <1>9, <1>10
<1>11. CASE F # {}
  <2>1. Pushed(Flip(Pushed(s, F, x)), F, x) = Flip(s)
    BY <1>7, PushUndone
  <2>. QED  BY <2>1, <1>3, <1>4, <1>6, <1>8, <1>9, <1>11
<1>. QED  BY <1>10, <1>11

Returns(x, y) ==
    /\ Evolved(x, y) \in Points
    /\ Evolved(Evolved(x, y).u, (-Evolved(x, y).p) % P) = [u |-> x, p |-> (-y) % P]

LEMMA EvolvedReturns ==
    ASSUME Drawn, prm \in Integrable, NEW x \in Numbers, NEW y \in Numbers
    PROVE  Returns(x, y)
<1> DEFINE C == ForceSets(prm)
           G == Moving(C)
           s == integrator(prm)
           a == At(x, y)
           z == Run(G, a, s)
           f == Flips[z]
<1>1. \A F \in C : F \subseteq Acting(prm) /\ F # {}
  BY ForcesAct
<1>2. KickRules(G, Points, C) /\ KicksUndone(G, Points, Flips, C) /\ Machine(G, Points, Updating(C))
  <2> HIDE DEF C
  <2>. QED  BY <1>1, KicksCommute, MotionUndone, MotionMachine
<1>3. a \in Points
  BY AtIs
<1>4. Flips \in [Points -> Points]
  BY FlipIs
<1>5. s \in Seq(Updating(C))
  BY <1>2, <1>3, SameRun
<1>6. Run(G, f, s) = Flips[a]
  <2> HIDE DEF G, a, C
  <2>. QED  BY <1>2, <1>3, <1>4, RunsBackHome DEF C
<1>7. Schedule[prm] = s
  BY DEF Schedule, Integrable
<1> HIDE DEF C, s
<1>8. \A b \in Points : FoldLeft(Evolve, b, s) = Run(G, b, s)
  BY <1>1, <1>5, EvolvedRuns
<1>9. \A b \in Points : Evolved(b.u, b.p) = Run(G, b, s)
  <2>1. \A b \in Points : [u |-> b.u, p |-> b.p] = b
    BY DEF Points
  <2>2. \A b \in Points : Evolved(b.u, b.p) = FoldLeft(Evolve, b, s)
    BY <1>7, <2>1 DEF Evolved
  <2>. QED  BY <1>8, <2>2
<1>10. a.u = x /\ a.p = y
  BY AtIs
<1> HIDE DEF G, a
<1>11. z \in Points
  BY <1>2, <1>3, <1>5, RunIs
<1>12. Evolved(x, y) = z
  BY <1>3, <1>9, <1>10
<1> HIDE DEF z
<1>13. f \in Points /\ f = At(z.u, (-z.p) % P)
  BY <1>4, <1>11, FlipIs
<1>14. f.u = z.u /\ f.p = (-z.p) % P
  BY <1>13, AtIs
<1>15. Flips[a] = At(x, (-y) % P)
  BY <1>3, <1>10, FlipIs
<1> HIDE DEF f
<1>16. Evolved(z.u, (-z.p) % P) = Flips[a]
  BY <1>6, <1>9, <1>13, <1>14
<1>. QED  BY <1>11, <1>12, <1>15, <1>16 DEF Returns, At
------------------------------------------------------------------------------
(* Energies of the pseudofermions *)

LEMMA WilsonEnergy ==
    ASSUME NEW u \in Int, NEW f \in Complex, NEW m \in Masses
    PROVE  /\ calc_s_fermion(u, f, m) \in Int /\ SquareNorm(f) * Reciprocal[NormOf(u, m)] \in Int
           /\ Congruent(calc_s_fermion(u, f, m), SquareNorm(f) * Reciprocal[NormOf(u, m)])
<1> DEFINE inv == Inverted(u, f, m)
           x == SquareNorm(f)
           y == Reciprocal[NormOf(u, m)]
           z == x * y
<1>1. calc_s_fermion(u, f, m) = SquareNorm(inv.Y)
  BY DEF calc_s_fermion
<1>2. Solved(u, f, m, inv)
  BY InvertedIs
<1> HIDE DEF inv
<1>3. SquareNorm(inv.Y) = z % P
  BY <1>2 DEF Solved
<1>4. x \in Int /\ y \in Int
  <2>1. NormOf(u, m) \in Nonzero
    BY QplusIs
  <2>2. x \in Int
    BY NormIs
  <2>3. y \in Int
    BY <2>1, ReciprocalIs
  <2>. QED  BY <2>2, <2>3
<1> HIDE DEF x, y
<1>5. z \in Int
  BY <1>4
<1> HIDE DEF z
<1>6. Congruent(z % P, z) /\ z % P \in Int
  BY <1>5, Remainder
<1>. QED  BY <1>1, <1>3, <1>5, <1>6 DEF x, y, z

LEMMA RatioEnergy ==
    ASSUME NEW u \in Int, NEW f \in Complex
    PROVE  LET e == SquareNorm(f) * NormOf(u, "mp") * Reciprocal[NormOf(u, "light")]
           IN calc_s_fermion_mp(u, f) \in Int /\ e \in Int /\ Congruent(calc_s_fermion_mp(u, f), e)
<1> DEFINE Q == Qplus(u, "mp")
           g == Times(Q, f)
           l == "light"
           inv == Inverted(u, g, l)
           x == SquareNorm(f)
           k == NormOf(u, "mp")
           y == Reciprocal[NormOf(u, l)]
           c == SquareNorm(g)
           xk == x * k
           z == c * y
           e == xk * y
<1>1. Q \in Complex /\ l \in Masses /\ k \in Int /\ SquareNorm(Q) = k
  <2>1. "mp" \in Masses /\ l \in Masses
    BY DEF Masses
  <2>2. Q \in Complex /\ k \in Numbers
    BY <2>1, QplusIs
  <2>. QED  BY <2>1, <2>2, ModId DEF NormOf
<1>2. calc_s_fermion_mp(u, f) = SquareNorm(inv.Y)
  BY DEF calc_s_fermion_mp
<1> HIDE DEF Q, l, k
<1>3. g \in Complex
  BY <1>1, RingType
<1>4. c = (k * x) % P
  BY <1>1, NormTimes
<1> HIDE DEF g
<1>5. Solved(u, g, l, inv)
  BY <1>1, <1>3, InvertedIs
<1>6. x \in Int /\ y \in Int /\ c \in Int
  <2>1. NormOf(u, l) \in Nonzero
    BY <1>1, QplusIs
  <2>2. x \in Int /\ c \in Int
    BY <1>3, NormIs
  <2>3. y \in Int
    BY <2>1, ReciprocalIs
  <2>. QED  BY <2>2, <2>3
<1> HIDE DEF inv
<1>7. SquareNorm(inv.Y) = z % P
  BY <1>5 DEF Solved
<1> HIDE DEF x, y
<1>8. xk \in Int /\ k * x = xk
  BY <1>1, <1>6
<1> HIDE DEF xk
<1>9. Congruent(c, xk)
  BY <1>4, <1>8, Remainder
<1> HIDE DEF c
<1>10. z \in Int /\ e \in Int
  BY <1>6, <1>8
<1>11. Congruent(z, e)
  BY <1>6, <1>8, <1>9, CongruentTimes
<1> HIDE DEF z, e
<1>12. Congruent(z % P, z) /\ z % P \in Int
  BY <1>10, Remainder
<1>13. Congruent(z % P, e)
  BY <1>10, <1>11, <1>12, CongruentChain
<1>. QED  BY <1>2, <1>7, <1>10, <1>12, <1>13 DEF e, xk, x, y, k, l

LEMMA ScaledEnergy ==
    ASSUME NEW x \in Numbers, NEW f \in Complex
    PROVE  /\ Re(Times(Conj(f), Scale(x, f))) = (x * SquareNorm(f)) % P
           /\ SquareNorm(Scale(x, f)) = (((x * x) % P) * SquareNorm(f)) % P
           /\ Scale(x, f) \in Complex
<1> DEFINE r == Real(x)
           c == Conj(f)
           k == SquareNorm(f)
<1>1. r \in Complex /\ Scale(x, f) = Times(r, f) /\ Scale(x, f) \in Complex
  BY RealIs
<1>2. c \in Complex /\ k \in Numbers /\ Times(f, c) = Real(k)
  BY NormIs
<1>3. SquareNorm(r) = (x * x) % P
  BY NormOfReal
<1>4. Times(r, Real(k)) = Real((x * k) % P)
  BY <1>2, RealIs
<1>5. Re(Real((x * k) % P)) = (x * k) % P
  BY DEF Re, Real
<1> HIDE DEF r, c
<1>6. Times(c, Times(r, f)) = Times(r, Times(c, f))
  BY <1>1, <1>2, MoveFirst
<1>7. Times(c, f) = Times(f, c)
  BY <1>2, TimesCommutes
<1>8. SquareNorm(Times(r, f)) = (SquareNorm(r) * k) % P
  BY <1>1, NormTimes
<1> HIDE DEF k
<1>9. Re(Times(c, Scale(x, f))) = (x * k) % P
  BY <1>1, <1>2, <1>4, <1>5, <1>6, <1>7
<1>10. SquareNorm(Scale(x, f)) = (((x * x) % P) * k) % P
  BY <1>1, <1>3, <1>8
<1>. QED  BY <1>1, <1>9, <1>10 DEF c, k

LEMMA RootedEnergy ==
    ASSUME NEW r, IsRational(r), NEW u \in Int, NEW q, q.site \in {"EVEN", "ODD"}, NEW f, Fields(f),
           NEW x, x = Rational(r, MdagM_eo(u, q.site))
    PROVE  /\ calc_s_fermion_rooted(r, u, f, q) \in Numbers /\ calc_s_fermion_rooted(r, u, f, q) \in Int
           /\ x \in Int /\ x * SumOfFields(f, SquareNorm) \in Int
           /\ Congruent(calc_s_fermion_rooted(r, u, f, q), x * SumOfFields(f, SquareNorm))
<1> DEFINE D == DOMAIN f
           E == EnergyTerms(r, u, f, q)
           N == Norms(f)
           t == SumOfFields(f, SquareNorm)
           s == Sum(E, D)
<1>1. /\ IsFiniteSet(D) /\ \A j \in D : f[j] \in Complex
      /\ N \in [D -> Int] /\ t = Sum(N, D) /\ t \in Int
  BY FieldsAre
<1>2. x \in Numbers /\ x \in Int
  <2>1. MdagM_eo(u, q.site) \in Int
    BY MatrixType
  <2>. QED  BY <2>1, RationalType
<1>3. ASSUME NEW j \in D PROVE E[j] = (x * N[j]) % P /\ N[j] \in Int
  <2>1. f[j] \in Complex
    BY <1>1
  <2> DEFINE w == f[j]
  <2>2. E[j] = Re(Times(Conj(w), Scale(x, w))) /\ N[j] = SquareNorm(w)
    BY DEF EnergyTerms, Norms, RationalOf
  <2>3. N[j] \in Int
    BY <1>1
  <2> HIDE DEF w
  <2>4. w \in Complex
    BY <2>1 DEF w
  <2>. QED  BY <2>2, <2>3, <2>4, <1>2, ScaledEnergy
<1>4. ASSUME NEW j \in D PROVE E[j] \in Int /\ Congruent(E[j], x * N[j])
  <2> DEFINE y == x * N[j]
  <2>1. y \in Int
    BY <1>2, <1>3
  <2> HIDE DEF y
  <2>2. E[j] = y % P
    BY <1>3 DEF y
  <2>. QED  BY <2>1, <2>2, Remainder DEF y
<1>5. E \in [D -> Int]
  <2>1. E = [j \in D |-> E[j]]
    BY DEF EnergyTerms
  <2> HIDE DEF E
  <2>. QED  BY <2>1, <1>4
<1>6. calc_s_fermion_rooted(r, u, f, q) = s % P
  BY EnergySum
<1> HIDE DEF D, E, N, t
<1>7. Congruent(s, x * Sum(N, D))
  BY <1>1, <1>2, <1>4, <1>5, CongruentSums
<1>8. s \in Int
  BY <1>1, <1>5, SumType
<1> DEFINE z == x * t
<1>9. z \in Int
  BY <1>1, <1>2
<1>10. Congruent(s, z)
  BY <1>1, <1>7
<1> HIDE DEF s, z
<1>11. s % P \in Numbers /\ s % P \in Int /\ Congruent(s % P, s)
  BY <1>8, ModType, Remainder
<1>12. Congruent(s % P, z)
  BY <1>8, <1>9, <1>10, <1>11, CongruentChain
<1>. QED  BY <1>2, <1>6, <1>9, <1>11, <1>12 DEF z, t
------------------------------------------------------------------------------
(* Pseudofermions and the norms of the random vectors they are made of *)

DrawnFrom(f, w, y) ==
    /\ f \in Complex /\ SquareNorm(w) \in Numbers /\ y \in Int
    /\ Congruent(SquareNorm(w), y)

LEMMA CancelInverse ==
    ASSUME NEW k \in Int, NEW l \in Int, Congruent(k * l, 1), NEW x \in Int, NEW y \in Int,
           Congruent(y, k * x)
    PROVE  y * l \in Int /\ Congruent(x, y * l)
<1> DEFINE kx == k * x
           o == 1
           kl == k * l
           yl == y * l
           a == kx * l
           c == kl * x
           d == o * x
<1>1. kx \in Int /\ kl \in Int /\ o \in Int
  OBVIOUS
<1>2. Congruent(y, kx) /\ Congruent(kl, o)
  OBVIOUS
<1>3. a = c
  <2>1. \A i, j, m \in Int : (i * j) * m = (i * m) * j
    OBVIOUS
  <2>. QED  BY <2>1
<1>4. d = x
  OBVIOUS
<1> HIDE DEF kx, kl, o
<1>5. Congruent(yl, a) /\ Congruent(c, d)
  BY <1>1, <1>2, CongruentTimes
<1>6. yl \in Int /\ a \in Int /\ c \in Int /\ d \in Int
  BY <1>1
<1> HIDE DEF yl, a, c, d
<1>7. Congruent(yl, d)
  BY <1>3, <1>5, <1>6, CongruentChain
<1>8. Congruent(d, yl)
  BY <1>6, <1>7, CongruentOps
<1>. QED  BY <1>4, <1>6, <1>8 DEF yl

LEMMA NormBack ==
    ASSUME NEW u \in Int, NEW m \in Masses, NEW w \in Complex, NEW f, f = Times(Qplus(u, m), w)
    PROVE  DrawnFrom(f, w, SquareNorm(f) * Reciprocal[NormOf(u, m)])
<1> DEFINE k == NormOf(u, m)
           l == Reciprocal[k]
           x == SquareNorm(w)
           y == SquareNorm(f)
           Q == Qplus(u, m)
           kx == k * x
<1>1. Q \in Complex /\ k \in Nonzero /\ SquareNorm(Q) = k
  BY QplusIs DEF NormOf
<1> HIDE DEF Q, k
<1>2. f \in Complex
  BY <1>1, RingType DEF Q
<1>3. y = kx % P
  BY <1>1, NormTimes DEF Q
<1>4. k \in Int /\ l \in Int /\ Congruent(k * l, 1)
  BY <1>1, ReciprocalIs
<1>5. x \in Numbers /\ x \in Int /\ y \in Int
  BY <1>2, NormIs
<1> HIDE DEF l, x, y
<1>6. kx \in Int
  BY <1>4, <1>5
<1> HIDE DEF kx
<1>7. Congruent(y, kx)
  BY <1>3, <1>6, Remainder
<1>8. y * l \in Int /\ Congruent(x, y * l)
  BY <1>4, <1>5, <1>7, CancelInverse DEF kx
<1>. QED  BY <1>2, <1>5, <1>8 DEF DrawnFrom, x, y, l, k

NormDivided(u, w, f) == SquareNorm(f) = (SquareNorm(w) * Reciprocal[NormOf(u, "mp")]) % P

\* Both solvers deliver a field of this norm.
LEMMA SolutionNorm ==
    ASSUME NEW u \in Int, NEW w \in Complex
    PROVE  LET Q == Qplus(u, "mp")
           IN /\ Over(w, Q) \in Complex /\ NormDivided(u, w, Over(w, Q))
              /\ Times(Qminus(u, "mp"), Over(w, QplusQminus(u, "mp"))) \in Complex
              /\ NormDivided(u, w, Times(Qminus(u, "mp"), Over(w, QplusQminus(u, "mp"))))
<1> DEFINE m == "mp"
           Q == Qplus(u, m)
           T == Qminus(u, m)
           k == NormOf(u, m)
           l == Reciprocal[k]
           x == SquareNorm(w)
           kk == (k * k) % P
           ll == (l * l) % P
           o == Over(w, Real(k))
           z == Times(T, o)
           xl == x * l
<1>1. m \in Masses
  BY DEF Masses
<1>2. /\ Q \in Complex /\ T \in Complex /\ k \in Nonzero /\ k \in Numbers
      /\ SquareNorm(Q) = k /\ SquareNorm(T) = k /\ QplusQminus(u, m) = Real(k)
  BY <1>1, QplusIs DEF NormOf
<1> HIDE DEF m, Q, T, k
<1>3. Over(w, Q) \in Complex /\ SquareNorm(Over(w, Q)) = xl % P
  BY <1>2, OverIs
<1>4. Real(k) \in Complex /\ SquareNorm(Real(k)) = kk /\ kk \in Nonzero
  BY <1>2, RealIs, NormOfReal, ProductNonzero
<1>5. Reciprocal[kk] = ll
  BY <1>2, ReciprocalTimes
<1> HIDE DEF kk
<1>6. o \in Complex /\ SquareNorm(o) = (x * ll) % P
  BY <1>4, <1>5, OverIs
<1> HIDE DEF o
<1>7. z \in Complex /\ SquareNorm(z) = (k * ((x * ll) % P)) % P
  BY <1>2, <1>6, RingType, NormTimes
<1>8. k \in Int /\ l \in Int /\ Congruent(k * l, 1) /\ x \in Int
  BY <1>2, ReciprocalIs, NormIs
<1> HIDE DEF l, x
<1>9. (k * ((x * ll) % P)) % P = xl % P
  <2> DEFINE l2 == l * l
             a == x * ll
             c == x * l2
             d == k * (a % P)
             e == k * c
             kl == k * l
             i == 1
             f == kl * xl
             g == i * xl
  <2>1. l2 \in Int /\ kl \in Int /\ xl \in Int /\ i \in Int
    BY <1>8
  <2>2. e = f /\ g = xl
    <3>1. \A h, j, v \in Int : h * (v * (j * j)) = (h * j) * (v * j)
      OBVIOUS
    <3>2. \A h \in Int : 1 * h = h
      OBVIOUS
    <3>. QED  BY <3>1, <3>2, <1>8, <2>1
  <2>3. Congruent(kl, i)
    BY <1>8
  <2> HIDE DEF l2, kl, xl, i
  <2>4. Congruent(ll, l2) /\ ll \in Int
    BY <2>1, Remainder DEF l2
  <2> HIDE DEF ll
  <2>5. Congruent(a, c) /\ a \in Int /\ c \in Int
    BY <1>8, <2>1, <2>4, CongruentTimes
  <2> HIDE DEF a, c
  <2>6. Congruent(a % P, a) /\ a % P \in Int
    BY <2>5, Remainder
  <2>7. Congruent(a % P, c)
    BY <2>5, <2>6, CongruentChain
  <2>8. Congruent(d, e) /\ d \in Int /\ e \in Int
    BY <1>8, <2>5, <2>6, <2>7, CongruentTimes
  <2>12. g \in Int /\ f \in Int
    BY <2>1
  <2>9. Congruent(f, g)
    BY <2>1, <2>3, CongruentTimes
  <2> HIDE DEF d, e, f, g
  <2>10. Congruent(d, xl)
    BY <2>2, <2>8, <2>9, <2>12, CongruentChain
  <2>11. d % P = xl % P
    BY <2>1, <2>8, <2>10, Congruence
  <2>. QED  BY <2>11 DEF d, a
<1>. QED  BY <1>2, <1>3, <1>6, <1>7, <1>9 DEF NormDivided, Q, T, m, k, l, x, xl, o

LEMMA RatioBack ==
    ASSUME NEW u \in Int, NEW w \in Complex, NEW f \in md_update_spinorfield_mp(u, w)
    PROVE  DrawnFrom(f, w, SquareNorm(f) * NormOf(u, "mp") * Reciprocal[NormOf(u, "light")])
<1> DEFINE h == "light"
           m == "mp"
           g == Times(Qplus(u, h), w)
           k == NormOf(u, m)
           l == Reciprocal[k]
           v == SquareNorm(g)
           c == NormOf(u, h)
           d == Reciprocal[c]
           x == SquareNorm(w)
           y == SquareNorm(f)
           vl == v * l
           yk == y * k
           cx == c * x
<1>1. h \in Masses /\ m \in Masses
  BY DEF Masses
<1>2. f \in {Over(g, Qplus(u, m)), Times(Qminus(u, m), Over(g, QplusQminus(u, m)))}
  BY DEF md_update_spinorfield_mp
<1>3. k \in Nonzero /\ c \in Nonzero /\ Qplus(u, h) \in Complex /\ SquareNorm(Qplus(u, h)) = c
  BY <1>1, QplusIs DEF NormOf
<1>4. g \in Complex
  BY <1>3, RingType
<1>5. v = cx % P
  BY <1>3, NormTimes
<1> HIDE DEF g
<1>6. f \in Complex /\ y = vl % P
  BY <1>2, <1>4, SolutionNorm DEF NormDivided
<1>7. x \in Numbers /\ x \in Int /\ y \in Int /\ v \in Int
  BY <1>4, <1>6, NormIs
<1> HIDE DEF k, c, v, x, y
<1>8. k \in Int /\ l \in Int /\ Congruent(k * l, 1) /\ c \in Int /\ d \in Int /\ Congruent(c * d, 1)
  BY <1>3, ReciprocalIs
<1> HIDE DEF l, d
<1>9. vl \in Int /\ yk \in Int /\ cx \in Int
  BY <1>7, <1>8
<1>10. Congruent(y, l * v)
  <2>1. vl = l * v
    BY <1>7, <1>8
  <2> HIDE DEF vl
  <2>. QED  BY <2>1, <1>6, <1>9, Remainder
<1>11. Congruent(l * k, 1)
  <2>1. l * k = k * l
    BY <1>8
  <2>. QED  BY <2>1, <1>8
<1>12. Congruent(v, yk)
  BY <1>7, <1>8, <1>10, <1>11, CancelInverse
<1> HIDE DEF yk, cx
<1>13. Congruent(yk, v) /\ Congruent(v, cx)
  BY <1>5, <1>7, <1>9, <1>12, CongruentOps, Remainder
<1>14. Congruent(yk, cx)
  BY <1>7, <1>9, <1>13, CongruentChain
<1>15. yk * d \in Int /\ Congruent(x, yk * d)
  BY <1>7, <1>8, <1>9, <1>14, CancelInverse DEF cx
<1>. QED  BY <1>6, <1>7, <1>15 DEF DrawnFrom, yk, d, k, c, x, y

RootedFrom(f, w, m, y) ==
    /\ f \in [1 .. m -> Complex]
    /\ SumOfFields(w, SquareNorm) \in Int /\ SumOfFields(f, SquareNorm) \in Int
    /\ Congruent(SumOfFields(w, SquareNorm), SumOfFields(f, SquareNorm) * y)

LEMMA RootedBack ==
    ASSUME NEW m \in Nat, NEW w \in [1 .. m -> Complex], NEW h \in Numbers, NEW y \in Int,
           Congruent(y * (h * h), 1), NEW f, f = [j \in DOMAIN w |-> Scale(h, w[j])]
    PROVE  RootedFrom(f, w, m, y)
<1> DEFINE D == 1 .. m
           N == Norms(w)
           M == Norms(f)
           hh == h * h
           s == Sum(N, D)
           t == Sum(M, D)
<1>1. h \in Int /\ hh \in Int
  BY ModId
<1>2. \A j \in D : Scale(h, w[j]) \in Complex
  BY ScaledEnergy
<1>3. f \in [D -> Complex]
  BY <1>2
<1>4. Fields(w) /\ Fields(f) /\ DOMAIN w = D /\ DOMAIN f = D
  BY <1>3 DEF Fields
<1>5. /\ IsFiniteSet(D) /\ N \in [D -> Int] /\ M \in [D -> Int]
      /\ SumOfFields(w, SquareNorm) = s /\ SumOfFields(f, SquareNorm) = t
  BY <1>4, FieldsAre
<1>6. s \in Int /\ t \in Int
  BY <1>5, SumType
<1>7. ASSUME NEW j \in D PROVE Congruent(M[j], hh * N[j])
  <2> DEFINE z == w[j]
             k == SquareNorm(z)
             c == hh % P
             d == c * k
             e == hh * k
             v == SquareNorm(Scale(h, z))
  <2>1. z \in Complex
    OBVIOUS
  <2>2. M[j] = v /\ N[j] = k
    BY <1>4 DEF Norms
  <2> HIDE DEF z
  <2>3. k \in Int
    BY <2>1, NormIs
  <2>4. v = d % P
    BY <2>1, ScaledEnergy
  <2> HIDE DEF k, v, hh
  <2>5. c \in Int /\ Congruent(c, hh)
    BY <1>1, Remainder
  <2> HIDE DEF c
  <2>6. Congruent(d, e)
    BY <1>1, <2>3, <2>5, CongruentTimes
  <2>7. d \in Int /\ e \in Int
    BY <1>1, <2>3, <2>5
  <2> HIDE DEF d
  <2>8. Congruent(d % P, d) /\ d % P \in Int
    BY <2>7, Remainder
  <2>9. Congruent(v, e)
    <3> HIDE DEF e
    <3>. QED  BY <2>4, <2>6, <2>7, <2>8, CongruentChain
  <2>. QED  BY <2>2, <2>9
<1> HIDE DEF hh, D, N, M
<1>8. Congruent(t, hh * s)
  BY <1>1, <1>5, <1>7, CongruentSums
<1> HIDE DEF s, t
<1>9. Congruent(hh * y, 1)
  <2>1. hh * y = y * hh
    BY <1>1
  <2>. QED  BY <2>1 DEF hh
<1>10. Congruent(s, t * y)
  BY <1>1, <1>6, <1>8, <1>9, CancelInverse
<1>. QED  BY <1>3, <1>5, <1>6, <1>10 DEF RootedFrom, D

LEMMA DrawsAreComplex ==
    ASSUME NEW q
    PROVE  \A w \in Draws(q) : w \in Complex /\ Re(w) \in Numbers
<1>1. SUFFICES ASSUME NEW w \in Draws(q) PROVE w \in Complex /\ Re(w) \in Numbers
  OBVIOUS
<1>2. PICK c \in Cases : w \in c.draws
  BY DEF Draws
<1>3. w \in Complex
  BY <1>2, HmcAssumption
<1>4. w[1] \in Numbers
  BY <1>3, PairType
<1>. QED  BY <1>3, <1>4 DEF Re

ActionOf(a, c, u) ==
    IF prm.useGaugeOnly THEN 0
    ELSE IF Staggered THEN SumOfFields(a, SquareNorm) * pow[MdagM_eo(u, prm.site)][Exponent("MET", prm)]
    ELSE IF prm.useMp
         THEN SquareNorm(a) * Reciprocal[NormOf(u, "mp")]
              + SquareNorm(c) * NormOf(u, "mp") * Reciprocal[NormOf(u, "light")]
    ELSE SquareNorm(a) * Reciprocal[NormOf(u, "light")]

LEMMA ActionIs == \A u : FermionAction(u) = ActionOf(phi, phi_mp, u)
  BY DEF FermionAction, ActionOf, NormOf

\* The fields of the parameters at hand.
FieldsFit(a, c) ==
    /\ a \in IF prm.useGaugeOnly THEN {NoField}
             ELSE IF Staggered THEN [1 .. prm.num_pseudofermions -> Complex]
             ELSE Complex
    /\ c \in IF ~prm.useGaugeOnly /\ prm.useMp THEN Complex ELSE {NoField}

\* Their energy is that of what they were made of, with energies e1 and e2.
EnergyFits(a, c, e1, e2, u) ==
    ~prm.useGaugeOnly =>
        /\ ActionOf(a, c, u) \in Int
        /\ Congruent(e1 + (IF prm.useMp THEN e2 ELSE 0), ActionOf(a, c, u))

Fitting(a, c, e1, e2, u) ==
    FieldsFit(a, c) /\ EnergyFits(a, c, e1, e2, u) /\ e1 \in Numbers /\ e2 \in Numbers

Empty ==
    /\ prm \in AllParameters /\ gf \in Numbers /\ HasRoots(gf)
    /\ phi = NoField /\ phi_mp = NoField
    /\ spinor_energy_init = 0 /\ spinor_energy_init_mp = 0

LEMMA EmptyIs ==
    ASSUME Empty
    PROVE  /\ gf \in Int /\ prm.useGaugeOnly \in BOOLEAN /\ prm.useMp \in BOOLEAN
           /\ Staggered \in BOOLEAN /\ (Staggered => ~prm.useMp) /\ 0 \in Numbers
           /\ phi = NoField /\ phi_mp = NoField
           /\ spinor_energy_init = 0 /\ spinor_energy_init_mp = 0
<1>1. 0 \in Numbers
  BY PType DEF Numbers
<1>2. gf \in Int
  BY ModId DEF Empty
<1>3. prm.useGaugeOnly \in BOOLEAN /\ prm.useMp \in BOOLEAN /\ (Staggered => ~prm.useMp)
  BY ParametersAre DEF Empty, Staggered
<1>. QED  BY <1>1, <1>2, <1>3 DEF Empty, Staggered

LEMMA NothingDrawn ==
    ASSUME Empty, Heatbath_gauge_only
    PROVE  Fitting(phi', phi_mp', spinor_energy_init', spinor_energy_init_mp', gf)
<1>1. /\ prm.useGaugeOnly /\ phi' = phi /\ phi_mp' = phi_mp
      /\ spinor_energy_init' = spinor_energy_init /\ spinor_energy_init_mp' = spinor_energy_init_mp
  BY DEF Heatbath_gauge_only, fermions
<1>. QED  BY <1>1, EmptyIs DEF Fitting, FieldsFit, EnergyFits

LEMMA WilsonDrawn ==
    ASSUME Empty, init_spinorfield
    PROVE  Fitting(phi', phi_mp', spinor_energy_init', spinor_energy_init_mp', gf)
<1> DEFINE h == "light"
<1>1. PICK w \in Draws(prm) : spinor_energy_init' = SquareNorm(w) /\ phi' = Times(Qplus(gf, h), w)
  BY DEF init_spinorfield
<1>2. /\ ~prm.useGaugeOnly /\ ~prm.useMp /\ ~Staggered
      /\ phi_mp' = phi_mp /\ spinor_energy_init_mp' = spinor_energy_init_mp
  BY DEF init_spinorfield
<1>3. w \in Complex /\ gf \in Int /\ h \in Masses
  BY DrawsAreComplex, EmptyIs DEF Masses
<1> DEFINE f == Times(Qplus(gf, h), w)
           e == SquareNorm(w)
           y == SquareNorm(f) * Reciprocal[NormOf(gf, h)]
<1>4. DrawnFrom(f, w, y)
  BY <1>3, NormBack
<1>5. ActionOf(f, NoField, gf) = y
  BY <1>2 DEF ActionOf
<1>6. f \in Complex /\ e \in Numbers /\ y \in Int /\ Congruent(e, y)
  BY <1>4 DEF DrawnFrom
<1> HIDE DEF f, y, e
<1>7. e + 0 = e
  BY <1>6, ModId
<1>8. EnergyFits(f, NoField, e, 0, gf)
  BY <1>2, <1>5, <1>6, <1>7 DEF EnergyFits
<1>9. FieldsFit(f, NoField)
  BY <1>2, <1>6 DEF FieldsFit
<1>. QED  BY <1>1, <1>2, <1>6, <1>8, <1>9, EmptyIs DEF Fitting, f, e

LEMMA RatioDrawn ==
    ASSUME Empty, init_spinorfield_mp
    PROVE  Fitting(phi', phi_mp', spinor_energy_init', spinor_energy_init_mp', gf)
<1> DEFINE m == "mp"
<1>1. PICK w \in Draws(prm), v \in Draws(prm) :
         /\ spinor_energy_init' = SquareNorm(w) /\ phi' = Times(Qplus(gf, m), w)
         /\ spinor_energy_init_mp' = SquareNorm(v) /\ phi_mp' \in md_update_spinorfield_mp(gf, v)
  BY DEF init_spinorfield_mp
<1>2. ~prm.useGaugeOnly /\ prm.useMp /\ ~Staggered
  BY EmptyIs DEF init_spinorfield_mp
<1>3. w \in Complex /\ v \in Complex /\ gf \in Int /\ m \in Masses
  BY DrawsAreComplex, EmptyIs DEF Masses
<1> DEFINE f == Times(Qplus(gf, m), w)
           g == phi_mp'
           e1 == SquareNorm(w)
           e2 == SquareNorm(v)
           y1 == SquareNorm(f) * Reciprocal[NormOf(gf, m)]
           y2 == SquareNorm(g) * NormOf(gf, m) * Reciprocal[NormOf(gf, "light")]
<1>4. DrawnFrom(f, w, y1)
  BY <1>3, NormBack
<1>5. DrawnFrom(g, v, y2)
  BY <1>1, <1>3, RatioBack
<1>6. ActionOf(f, g, gf) = y1 + y2
  BY <1>2 DEF ActionOf
<1>7. /\ f \in Complex /\ e1 \in Numbers /\ y1 \in Int /\ Congruent(e1, y1)
      /\ g \in Complex /\ e2 \in Numbers /\ y2 \in Int /\ Congruent(e2, y2)
  BY <1>4, <1>5 DEF DrawnFrom
<1>8. phi' = f /\ phi_mp' = g /\ spinor_energy_init' = e1 /\ spinor_energy_init_mp' = e2
  BY <1>1
<1> HIDE DEF f, g, y1, y2, e1, e2
<1>9. e1 \in Int /\ e2 \in Int
  BY <1>7, ModId
<1>10. Congruent(e1 + e2, y1 + y2)
  BY <1>7, <1>9, CongruentOps
<1>11. y1 + y2 \in Int
  BY <1>7
<1>12. EnergyFits(f, g, e1, e2, gf)
  BY <1>2, <1>6, <1>10, <1>11 DEF EnergyFits
<1>13. FieldsFit(f, g)
  BY <1>2, <1>7 DEF FieldsFit
<1>. QED  BY <1>7, <1>8, <1>12, <1>13 DEF Fitting

LEMMA RootedDrawn ==
    ASSUME Empty, init_spinorfield_rooted
    PROVE  Fitting(phi', phi_mp', spinor_energy_init', spinor_energy_init_mp', gf)
<1> DEFINE m == prm.num_pseudofermions
           r == Rescale_Coefficients(Approximation("HB", prm), maxEigenvalue(gf, prm))
           x == MdagM_eo(gf, prm.site)
           h == Rational(r, x)
           heat == Exponent("HB", prm)
           met == Exponent("MET", prm)
           y == pow[x][met]
<1>1. PICK w \in [1 .. m -> Draws(prm)] :
         /\ spinor_energy_init' = SumOfFields(w, SquareNorm) % P
         /\ phi' = [j \in DOMAIN w |-> RationalOf(r, gf, w[j], prm)]
  BY DEF init_spinorfield_rooted
<1>2. /\ ~prm.useGaugeOnly /\ Staggered
      /\ phi_mp' = phi_mp /\ spinor_energy_init_mp' = spinor_energy_init_mp
  BY DEF init_spinorfield_rooted
<1>3. /\ ~prm.useMp /\ prm.num_tastes \in 1 .. 3 /\ m \in {1, 2}
      /\ prm.conservative \in BOOLEAN /\ prm.site \in {"EVEN", "ODD"}
  BY <1>2, ParametersAre DEF Empty, Staggered
<1>4. x \in Positive
  BY <1>2 DEF Empty, HasRoots
<1>5. /\ IsRational(r) /\ h = pow[x][heat]
  <2>1. "HB" \in Which
    BY DEF Which
  <2>. QED  BY <2>1, <1>3, <1>4, RescaledIs
<1>6. Congruent(y * (h * h), 1) /\ y \in Int
  <2> DEFINE q == [num_tastes |-> prm.num_tastes, num_pseudofermions |-> m]
             t == "MET"
  <2>1. q \in Rootings /\ t \in {"MD", "MET"}
    BY <1>3 DEF Rootings
  <2>2. heat = Exponent("HB", q) /\ met = Exponent(t, q)
    BY DEF Exponent
  <2> HIDE DEF q, t, heat, met, x
  <2>3. Congruent(pow[x][met] * (pow[x][heat] * pow[x][heat]), 1) /\ pow[x][met] \in Int
    BY <1>4, <2>1, <2>2, PowersFit
  <2> HIDE DEF h
  <2>. QED  BY <2>3, <1>5
<1>7. phi' = [j \in DOMAIN w |-> Scale(h, w[j])]
  BY <1>1 DEF RationalOf
<1>8. m \in Nat /\ w \in [1 .. m -> Complex]
  <2>1. m \in Nat
    BY <1>3
  <2>2. \A j \in 1 .. m : w[j] \in Complex
    BY DrawsAreComplex
  <2>. QED  BY <2>1, <2>2
<1>9. h \in Numbers
  <2>1. x \in Int
    BY <1>4, PositiveIs
  <2> HIDE DEF r, x
  <2>. QED  BY <2>1, <1>5, RationalType
<1> DEFINE f == phi'
<1> HIDE DEF m, h, y, f
<1>10. RootedFrom(f, w, m, y)
  BY <1>6, <1>7, <1>8, <1>9, RootedBack DEF f
<1> DEFINE s == SumOfFields(w, SquareNorm)
           t == SumOfFields(f, SquareNorm)
           ty == t * y
           e == s % P
<1>11. f \in [1 .. m -> Complex] /\ s \in Int /\ t \in Int /\ Congruent(s, ty)
  BY <1>10 DEF RootedFrom
<1>12. ActionOf(f, NoField, gf) = ty
  BY <1>2 DEF ActionOf, y
<1> HIDE DEF s, t
<1>13. ty \in Int
  BY <1>6, <1>11
<1>14. e \in Numbers /\ e \in Int /\ Congruent(e, s)
  BY <1>11, ModType, Remainder
<1> HIDE DEF e, ty
<1>15. Congruent(e, ty) /\ e + 0 = e
  BY <1>11, <1>13, <1>14, CongruentChain
<1>16. EnergyFits(f, NoField, e, 0, gf)
  BY <1>2, <1>3, <1>12, <1>13, <1>15 DEF EnergyFits
<1>17. FieldsFit(f, NoField)
  BY <1>2, <1>3, <1>11 DEF FieldsFit, m
<1>. QED  BY <1>1, <1>2, <1>14, <1>16, <1>17, EmptyIs DEF Fitting, f, e, s
------------------------------------------------------------------------------
(* The change of the energy *)

\* The energy of the pseudofermions computed for the field u.
EnergyAt(r, u) ==
    IF prm.useMp THEN calc_s_fermion(u, phi, "mp") + calc_s_fermion_mp(u, phi_mp)
    ELSE IF Staggered THEN calc_s_fermion_rooted(r, u, phi, prm)
    ELSE calc_s_fermion(u, phi, "light")

EnergyIsAction(r, u) ==
    /\ EnergyAt(r, u) \in Int /\ ActionOf(phi, phi_mp, u) \in Int
    /\ Congruent(EnergyAt(r, u), ActionOf(phi, phi_mp, u))

RescaledFor(which, r, u) ==
    Staggered => r = Rescale_Coefficients(Approximation(which, prm), maxEigenvalue(u, prm))

LEMMA RescaledAction ==
    ASSUME prm \in AllParameters, Staggered, NEW which \in Which, NEW u, HasRoots(u),
           NEW r, RescaledFor(which, r, u)
    PROVE  /\ IsRational(r) /\ prm.site \in {"EVEN", "ODD"}
           /\ Rational(r, MdagM_eo(u, prm.site)) = pow[MdagM_eo(u, prm.site)][Exponent(which, prm)]
<1>1. /\ prm.num_tastes \in 1 .. 3 /\ prm.num_pseudofermions \in {1, 2}
      /\ prm.conservative \in BOOLEAN /\ prm.site \in {"EVEN", "ODD"}
  BY ParametersAre DEF Staggered
<1>2. MdagM_eo(u, prm.site) \in Positive
  BY DEF HasRoots
<1>3. r = Rescale_Coefficients(Approximation(which, prm), maxEigenvalue(u, prm))
  BY DEF RescaledFor
<1>. QED  BY <1>1, <1>2, <1>3, RescaledIs

\* The exponents of the molecular dynamics are those of the Metropolis test.
LEMMA SameExponent == Exponent("MD", prm) = Exponent("MET", prm)
  BY DEF Exponent, getRationalApproximationDenominator

LEMMA NewEnergy ==
    ASSUME prm \in AllParameters, FieldsFit(phi, phi_mp), ~prm.useGaugeOnly,
           NEW u \in Int, HasRoots(u),
           NEW which \in {"MD", "MET"}, NEW r, RescaledFor(which, r, u)
    PROVE  EnergyIsAction(r, u)
<1>1. Staggered \in BOOLEAN /\ prm.useMp \in BOOLEAN /\ (Staggered => ~prm.useMp)
  BY ParametersAre DEF Staggered
<1>2. CASE prm.useMp
  <2> DEFINE m == "mp"
             e1 == calc_s_fermion(u, phi, m)
             e2 == calc_s_fermion_mp(u, phi_mp)
             a1 == SquareNorm(phi) * Reciprocal[NormOf(u, m)]
             a2 == SquareNorm(phi_mp) * NormOf(u, m) * Reciprocal[NormOf(u, "light")]
  <2>1. phi \in Complex /\ phi_mp \in Complex /\ m \in Masses
    BY <1>1, <1>2 DEF FieldsFit, Masses
  <2>2. e1 \in Int /\ a1 \in Int /\ Congruent(e1, a1)
    BY <2>1, WilsonEnergy
  <2>3. e2 \in Int /\ a2 \in Int /\ Congruent(e2, a2)
    BY <2>1, RatioEnergy
  <2>4. EnergyAt(r, u) = e1 + e2 /\ ActionOf(phi, phi_mp, u) = a1 + a2
    BY <1>1, <1>2 DEF EnergyAt, ActionOf
  <2> HIDE DEF e1, e2, a1, a2
  <2>5. Congruent(e1 + e2, a1 + a2)
    BY <2>2, <2>3, CongruentOps
  <2>6. e1 + e2 \in Int /\ a1 + a2 \in Int
    BY <2>2, <2>3
  <2>. QED  BY <2>4, <2>5, <2>6 DEF EnergyIsAction
<1>3. CASE ~prm.useMp /\ ~Staggered
  <2> DEFINE m == "light"
             e1 == calc_s_fermion(u, phi, m)
             a1 == SquareNorm(phi) * Reciprocal[NormOf(u, m)]
  <2>1. phi \in Complex /\ m \in Masses
    BY <1>3 DEF FieldsFit, Masses
  <2>2. e1 \in Int /\ a1 \in Int /\ Congruent(e1, a1)
    BY <2>1, WilsonEnergy
  <2>4. EnergyAt(r, u) = e1 /\ ActionOf(phi, phi_mp, u) = a1
    BY <1>3 DEF EnergyAt, ActionOf
  <2> HIDE DEF e1, a1
  <2>. QED  BY <2>2, <2>4 DEF EnergyIsAction
<1>4. CASE Staggered
  <2> DEFINE x == MdagM_eo(u, prm.site)
             y == pow[x][Exponent("MET", prm)]
             e1 == calc_s_fermion_rooted(r, u, phi, prm)
             t == SumOfFields(phi, SquareNorm)
             yt == y * t
             ty == t * y
  <2>1. which \in Which
    BY DEF Which
  <2>2. IsRational(r) /\ prm.site \in {"EVEN", "ODD"} /\ Rational(r, x) = pow[x][Exponent(which, prm)]
    BY <1>4, <2>1, RescaledAction
  <2>3. y = Rational(r, x)
    BY <2>2, SameExponent
  <2>4. Fields(phi)
    <3>1. prm.num_pseudofermions \in {1, 2}
      BY <1>4, ParametersAre DEF Staggered
    <3>2. prm.num_pseudofermions \in Nat
      BY <3>1
    <3>. QED  BY <1>1, <1>4, <3>2 DEF FieldsFit, Fields
  <2>5. EnergyAt(r, u) = e1 /\ ActionOf(phi, phi_mp, u) = ty
    BY <1>1, <1>4 DEF EnergyAt, ActionOf
  <2> HIDE DEF y
  <2>6. e1 \in Int /\ y \in Int /\ yt \in Int /\ Congruent(e1, yt)
    BY <2>2, <2>3, <2>4, RootedEnergy
  <2>7. t \in Int
    BY <2>4, FieldsAre
  <2> HIDE DEF t, e1
  <2>8. ty = yt
    BY <2>6, <2>7
  <2> HIDE DEF ty, yt
  <2>. QED  BY <2>5, <2>6, <2>8 DEF EnergyIsAction
<1>. QED  BY <1>1, <1>2, <1>3, <1>4

GaugeEnergy(u) == -Beta * (c0 * u * u + (IF prm.useRectangles THEN C1 * u * u * u ELSE 0))
Kinetic(mom) == (IF Staggered THEN Half * Half ELSE Half) * mom * mom

LEMMA HamiltonianIs ==
    \A u, mom : Hamiltonian(u, mom) = GaugeEnergy(u) + Kinetic(mom) + FermionAction(u)
  BY DEF Hamiltonian, GaugeEnergy, Kinetic

LEMMA KineticIs ==
    ASSUME NEW y \in Int
    PROVE  Kinetic(y) \in Int /\ KineticEnergy(y) = Kinetic(y)
<1>1. Half \in Int
  BY HalfIs
<1>2. \A h \in Int : h * (h * (y * y)) = ((h * h) * y) * y /\ h * (y * y) = (h * y) * y
  OBVIOUS
<1>3. \A h \in Int : ((h * h) * y) * y \in Int /\ (h * y) * y \in Int
  OBVIOUS
<1>. QED  BY <1>1, <1>2, <1>3 DEF Kinetic, KineticEnergy

GaugeChange(u, v) ==
    IF prm.useRectangles
    THEN -Beta * (c0 * (measurePlaquette(u) - measurePlaquette(v))
                  + C1 * (measureRectangles(u) - measureRectangles(v)))
    ELSE -(measurePlaquette(u) - measurePlaquette(v)) * Beta

LEMMA GaugeEnergyChange ==
    ASSUME NEW u \in Int, NEW v \in Int
    PROVE  /\ GaugeChange(u, v) \in Int /\ GaugeEnergy(u) \in Int /\ GaugeEnergy(v) \in Int
           /\ Congruent(GaugeChange(u, v), GaugeEnergy(u) - GaugeEnergy(v))
<1> DEFINE a == u * u
           c == v * v
           d == (u * u) * u
           e == (v * v) * v
           a1 == a % P
           c1 == c % P
           d1 == d % P
           e1 == e % P
<1>1. a \in Int /\ c \in Int /\ d \in Int /\ e \in Int
  OBVIOUS
<1>2. measurePlaquette(u) = a1 /\ measurePlaquette(v) = c1
  BY DEF measurePlaquette
<1>3. measureRectangles(u) = d1 /\ measureRectangles(v) = e1
  BY DEF measureRectangles
<1>4. Beta \in Int /\ C1 \in Int /\ c0 \in Int
  BY Couplings
<1>5. /\ GaugeEnergy(u) = -Beta * (c0 * a + (IF prm.useRectangles THEN C1 * d ELSE 0))
      /\ GaugeEnergy(v) = -Beta * (c0 * c + (IF prm.useRectangles THEN C1 * e ELSE 0))
  <2>1. \A i, j \in Int : (i * j) * j = i * (j * j) /\ ((i * j) * j) * j = i * ((j * j) * j)
    OBVIOUS
  <2>2. (c0 * u) * u = c0 * a /\ ((C1 * u) * u) * u = C1 * d
    BY <2>1, <1>4
  <2>3. (c0 * v) * v = c0 * c /\ ((C1 * v) * v) * v = C1 * e
    BY <2>1, <1>4
  <2>. QED  BY <2>2, <2>3 DEF GaugeEnergy
<1> HIDE DEF a, c, d, e
<1>6. /\ Congruent(a1, a) /\ Congruent(c1, c) /\ Congruent(d1, d) /\ Congruent(e1, e)
      /\ a1 \in Int /\ c1 \in Int /\ d1 \in Int /\ e1 \in Int
  BY <1>1, Remainder
<1> HIDE DEF a1, c1, d1, e1
<1> DEFINE x1 == a1 - c1
           x == a - c
           y1 == d1 - e1
           y == d - e
           k == -Beta
<1>7. x1 \in Int /\ x \in Int /\ y1 \in Int /\ y \in Int /\ k \in Int
  BY <1>1, <1>4, <1>6
<1>8. Congruent(x1, x) /\ Congruent(y1, y)
  BY <1>1, <1>6, CongruentOps
<1>11. \A j \in Int : -Beta * j = k * j /\ -j * Beta = k * j
  <2>1. \A i, j \in Int : -(i * j) = (-i) * j /\ -(j * i) = (-i) * j
    OBVIOUS
  <2>. QED  BY <2>1, <1>4
<1>9. CASE prm.useRectangles
  <2>1. GaugeChange(u, v) = k * (c0 * x1 + C1 * y1)
    <3> DEFINE f == c0 * x1 + C1 * y1
    <3>1. GaugeChange(u, v) = -Beta * f
      BY <1>2, <1>3, <1>9 DEF GaugeChange
    <3>2. f \in Int
      <4>1. \A i, j, m, h \in Int : i * j + m * h \in Int
        OBVIOUS
      <4> HIDE DEF x1, y1
      <4>. QED  BY <4>1, <1>4, <1>7
    <3> HIDE DEF f, k
    <3>3. GaugeChange(u, v) = k * f
      BY <3>1, <3>2, <1>11
    <3>. QED  BY <3>3 DEF f
  <2>2. GaugeEnergy(u) = k * (c0 * a + C1 * d) /\ GaugeEnergy(v) = k * (c0 * c + C1 * e)
    <3> DEFINE f == c0 * a + C1 * d
               g == c0 * c + C1 * e
    <3>1. f \in Int /\ g \in Int
      <4>1. \A i, j, m, h \in Int : i * j + m * h \in Int
        OBVIOUS
      <4>. QED  BY <4>1, <1>1, <1>4
    <3>2. GaugeEnergy(u) = -Beta * f /\ GaugeEnergy(v) = -Beta * g
      BY <1>5, <1>9
    <3> HIDE DEF f, g, k
    <3>3. GaugeEnergy(u) = k * f /\ GaugeEnergy(v) = k * g
      BY <3>1, <3>2, <1>11
    <3>. QED  BY <3>3 DEF f, g
  <2>3. k * (c0 * a + C1 * d) - k * (c0 * c + C1 * e) = k * (c0 * x + C1 * y)
    <3>1. \A i, j \in Int : i * j - i * j = 0
      OBVIOUS
    <3> DEFINE z == c0 * a + C1 * d
               w == c0 * c + C1 * e
               ca == c0 * a
               cc == c0 * c
               Cd == C1 * d
               Ce == C1 * e
    <3>2. ca \in Int /\ cc \in Int /\ Cd \in Int /\ Ce \in Int
      BY <1>1, <1>4
    <3>3. \A i, j, m \in Int : i * (j - m) = i * j - i * m
      OBVIOUS
    <3>4. c0 * x = ca - cc /\ C1 * y = Cd - Ce
      BY <3>3, <1>1, <1>4
    <3>5. z = ca + Cd /\ w = cc + Ce
      OBVIOUS
    <3> HIDE DEF ca, cc, Cd, Ce, z, w, x, y, k
    <3>6. z \in Int /\ w \in Int /\ (c0 * x + C1 * y) = z - w
      BY <3>2, <3>4, <3>5
    <3>7. k * (z - w) = k * z - k * w
      BY <3>3, <3>6, <1>7
    <3>. QED  BY <3>6, <3>7 DEF z, w
  <2> DEFINE cx1 == c0 * x1
             cx == c0 * x
             Cy1 == C1 * y1
             Cy == C1 * y
             s1 == cx1 + Cy1
             s == cx + Cy
             t1 == k * s1
             t == k * s
  <2> HIDE DEF x1, x, y1, y, k
  <2>4. cx1 \in Int /\ cx \in Int /\ Cy1 \in Int /\ Cy \in Int
    BY <1>4, <1>7
  <2>5. Congruent(cx1, cx) /\ Congruent(Cy1, Cy)
    BY <1>4, <1>7, <1>8, CongruentTimes
  <2> HIDE DEF cx1, cx, Cy1, Cy
  <2>6. Congruent(s1, s)
    BY <2>4, <2>5, CongruentOps
  <2>7. s1 \in Int /\ s \in Int
    BY <2>4
  <2> HIDE DEF s1, s
  <2>8. Congruent(t1, t)
    BY <1>7, <2>6, <2>7, CongruentTimes
  <2>9. t1 \in Int /\ t \in Int
    BY <1>7, <2>7
  <2>10. GaugeEnergy(u) \in Int /\ GaugeEnergy(v) \in Int
    <3> DEFINE f == c0 * a + C1 * d
               g == c0 * c + C1 * e
    <3>1. f \in Int /\ g \in Int
      <4>1. \A i, j, m, h \in Int : i * j + m * h \in Int
        OBVIOUS
      <4>. QED  BY <4>1, <1>1, <1>4
    <3>2. GaugeEnergy(u) = k * f /\ GaugeEnergy(v) = k * g
      BY <2>2
    <3> HIDE DEF f, g
    <3>3. k * f \in Int /\ k * g \in Int
      BY <1>7, <3>1
    <3>. QED  BY <3>2, <3>3
  <2>11. GaugeChange(u, v) = t1 /\ GaugeEnergy(u) - GaugeEnergy(v) = t
    BY <2>1, <2>2, <2>3 DEF t1, t, s1, s, cx1, cx, Cy1, Cy
  <2> HIDE DEF t1, t
  <2>. QED  BY <2>8, <2>9, <2>10, <2>11
<1>10. CASE ~prm.useRectangles
  <2>1. c0 = 1
    BY <1>10 DEF c0
  <2>2. GaugeChange(u, v) = -x1 * Beta
    BY <1>2, <1>10 DEF GaugeChange
  <2>3. GaugeEnergy(u) = k * a /\ GaugeEnergy(v) = k * c
    <3>1. c0 * a + 0 = a /\ c0 * c + 0 = c
      BY <2>1, <1>1
    <3>2. GaugeEnergy(u) = -Beta * a /\ GaugeEnergy(v) = -Beta * c
      BY <3>1, <1>5, <1>10
    <3> HIDE DEF k
    <3>. QED  BY <3>2, <1>1, <1>11
  <2> DEFINE t1 == k * x1
             t == k * x
  <2>4. -x1 * Beta = t1
    <3> HIDE DEF x1, k
    <3>. QED  BY <1>7, <1>11
  <2>5. k * a - k * c = t
    <3>1. \A i, j, m \in Int : i * (j - m) = i * j - i * m
      OBVIOUS
    <3> HIDE DEF k
    <3>. QED  BY <3>1, <1>1, <1>7
  <2> HIDE DEF x1, x, k
  <2>6. Congruent(t1, t)
    BY <1>7, <1>8, CongruentTimes
  <2>7. t1 \in Int /\ t \in Int /\ k * a \in Int /\ k * c \in Int
    BY <1>1, <1>7
  <2> HIDE DEF t1, t
  <2>8. GaugeChange(u, v) = t1 /\ GaugeEnergy(u) - GaugeEnergy(v) = t
    BY <2>2, <2>3, <2>4, <2>5
  <2>9. GaugeEnergy(u) \in Int /\ GaugeEnergy(v) \in Int
    BY <2>3, <2>7
  <2>. QED  BY <2>6, <2>7, <2>8, <2>9
<1>. QED  BY <1>9, <1>10
------------------------------------------------------------------------------
(* What the fields and the coefficients determine *)

Moved(x, y) == Run(Moving(ForceSets(prm)), At(x, y), integrator(prm))

LEMMA EvolvedIs ==
    ASSUME Drawn, prm \in Integrable, NEW x \in Numbers, NEW y \in Numbers
    PROVE  Evolved(x, y) = Moved(x, y) /\ Moved(x, y) \in Points
<1> DEFINE C == ForceSets(prm)
           G == Moving(C)
           s == integrator(prm)
           a == At(x, y)
<1>1. \A F \in C : F \subseteq Acting(prm) /\ F # {}
  BY ForcesAct
<1>2. KickRules(G, Points, C) /\ Machine(G, Points, Updating(C))
  <2> HIDE DEF C
  <2>. QED  BY <1>1, KicksCommute, MotionMachine
<1>3. a \in Points /\ a = [u |-> x, p |-> y]
  BY AtIs DEF At
<1>4. s \in Seq(Updating(C))
  BY <1>2, <1>3, SameRun
<1>5. Schedule[prm] = s
  BY DEF Schedule, Integrable
<1>6. Evolved(x, y) = FoldLeft(Evolve, a, s)
  BY <1>3, <1>5 DEF Evolved
<1> HIDE DEF C, s, a
<1>7. FoldLeft(Evolve, a, s) = Run(G, a, s)
  BY <1>1, <1>3, <1>4, EvolvedRuns
<1> HIDE DEF G
<1>8. Run(G, a, s) \in Points
  BY <1>2, <1>3, <1>4, RunIs
<1>. QED  BY <1>6, <1>7, <1>8 DEF Moved, G, C, s, a

Steady == prm' = prm /\ phi' = phi /\ phi_mp' = phi_mp /\ rational' = rational

LEMMA ForceSteady ==
    ASSUME Steady
    PROVE  \A f, u : ForceOf(f, u)' = ForceOf(f, u)
  BY DEF Steady, ForceOf, Staggered, calc_gauge_force, gauge_force, gauge_force_tlsym, c0,
         calc_fermion_force, calc_fermion_force_detratio, Inverted

LEMMA TotalSums == \A u, S : TotalOf(S, u) = Sum(TotalTerms(S, u), S)
  BY TotalSum

LEMMA TotalSteady ==
    ASSUME Steady
    PROVE  \A S, u : TotalOf(S, u)' = TotalOf(S, u)
<1>1. (\A u, S : TotalOf(S, u) = Sum(TotalTerms(S, u), S))'
  BY TotalSums, PTL
<1>2. \A S, u : TotalTerms(S, u)' = TotalTerms(S, u)
  BY ForceSteady DEF TotalTerms
<1>. QED  BY <1>1, <1>2, TotalSums

LEMMA MovedSteady ==
    ASSUME Steady
    PROVE  \A x, y : Moved(x, y)' = Moved(x, y)
<1>1. \A s, v : Evolve(s, v)' = Evolve(s, v)
  BY TotalSteady DEF Steady, Evolve, Velocity, Staggered
<1>2. \A C : Moving(C)' = Moving(C)
  BY <1>1 DEF Moving
<1>. QED  BY <1>2 DEF Steady, Moved

\* What the Metropolis test does not overwrite.
Kept == prm' = prm /\ phi' = phi /\ phi_mp' = phi_mp

LEMMA HamiltonianKept ==
    ASSUME Kept
    PROVE  \A u, mom : Hamiltonian(u, mom)' = Hamiltonian(u, mom)
<1>1. (\A u, mom : Hamiltonian(u, mom) = GaugeEnergy(u) + Kinetic(mom) + FermionAction(u))'
  BY HamiltonianIs, PTL
<1>2. (\A u : FermionAction(u) = ActionOf(phi, phi_mp, u))'
  BY ActionIs, PTL
<1>3. \A u : ActionOf(phi, phi_mp, u)' = ActionOf(phi, phi_mp, u)
  BY DEF Kept, ActionOf, Staggered
<1>4. \A u : FermionAction(u)' = FermionAction(u)
  BY <1>2, <1>3, ActionIs
<1>5. \A u, mom : GaugeEnergy(u)' = GaugeEnergy(u) /\ Kinetic(mom)' = Kinetic(mom)
  BY DEF Kept, GaugeEnergy, Kinetic, c0, Staggered
<1>. QED  BY <1>1, <1>4, <1>5, HamiltonianIs

LEMMA FieldsSteady ==
    ASSUME Steady
    PROVE  /\ Drawn' <=> Drawn
           /\ \A u : HasRoots(u)' <=> HasRoots(u)
           /\ \A which, r, u : RescaledFor(which, r, u)' <=> RescaledFor(which, r, u)
           /\ \A a, c, e1, e2, u : EnergyFits(a, c, e1, e2, u)' <=> EnergyFits(a, c, e1, e2, u)
           /\ \A a, c : FieldsFit(a, c)' <=> FieldsFit(a, c)
<1>1. Drawn' <=> Drawn
  BY DEF Steady, Drawn, Staggered
<1>2. \A u : HasRoots(u)' <=> HasRoots(u)
  BY DEF Steady, HasRoots, Staggered
<1>3. \A which, r, u : RescaledFor(which, r, u)' <=> RescaledFor(which, r, u)
  BY DEF Steady, RescaledFor, Staggered
<1>4. \A a, c, e1, e2, u : EnergyFits(a, c, e1, e2, u)' <=> EnergyFits(a, c, e1, e2, u)
  BY DEF Steady, EnergyFits, ActionOf, Staggered
<1>5. \A a, c : FieldsFit(a, c)' <=> FieldsFit(a, c)
  BY DEF Steady, FieldsFit, Staggered
<1>. QED  BY <1>1, <1>2, <1>3, <1>4, <1>5
------------------------------------------------------------------------------
(* The Metropolis test *)

EnergyChange == deltaH_gauge + (KineticEnergy(p) - KineticEnergy(new_p)) + deltaH_fermion

EnergyChangeIs ==
    /\ EnergyChange \in Int
    /\ Hamiltonian(gf, p) \in Int /\ Hamiltonian(new_u, new_p) \in Int
    /\ Congruent(EnergyChange, Hamiltonian(gf, p) - Hamiltonian(new_u, new_p))

Testing ==
    /\ prm \in AllParameters /\ FieldsFit(phi, phi_mp)
    /\ EnergyFits(phi, phi_mp, spinor_energy_init, spinor_energy_init_mp, gf)
    /\ spinor_energy_init \in Numbers /\ spinor_energy_init_mp \in Numbers
    /\ gf \in Numbers /\ p \in Numbers /\ new_u \in Numbers /\ new_p \in Numbers
    /\ HasRoots(new_u)

FermionChangeIs ==
    /\ deltaH_fermion \in Int /\ FermionAction(gf) \in Int /\ FermionAction(new_u) \in Int
    /\ Congruent(deltaH_fermion, FermionAction(gf) - FermionAction(new_u))

LEMMA FermionChange ==
    ASSUME Testing, RescaledFor("MET", rational', new_u)
    PROVE  FermionChangeIs
<1>1. /\ prm.useMp \in BOOLEAN /\ prm.useGaugeOnly \in BOOLEAN
      /\ Staggered \in BOOLEAN /\ (Staggered => ~prm.useMp)
  BY ParametersAre DEF Testing, Staggered
<1>2. CASE prm.useGaugeOnly
  <2>1. deltaH_fermion = 0 /\ FermionAction(gf) = 0 /\ FermionAction(new_u) = 0
    BY <1>2, ActionIs DEF deltaH_fermion, ActionOf
  <2> DEFINE o == 0
  <2>2. o \in Int /\ o - o = o
    OBVIOUS
  <2> HIDE DEF o
  <2>3. Congruent(o, o)
    BY <2>2, CongruentSelf
  <2>4. deltaH_fermion = o /\ FermionAction(gf) = o /\ FermionAction(new_u) = o
    BY <2>1 DEF o
  <2>. QED  BY <2>2, <2>3, <2>4 DEF FermionChangeIs
<1>3. CASE ~prm.useGaugeOnly
  <2> DEFINE e1 == spinor_energy_init
             e2 == spinor_energy_init_mp
             e == e1 + (IF prm.useMp THEN e2 ELSE 0)
             r == rational'
             s == EnergyAt(r, new_u)
             a == ActionOf(phi, phi_mp, gf)
             c == ActionOf(phi, phi_mp, new_u)
  <2>1. a \in Int /\ Congruent(e, a)
    BY <1>3 DEF Testing, EnergyFits
  <2>2. s \in Int /\ c \in Int /\ Congruent(s, c)
    <3> DEFINE w == "MET"
    <3>1. w \in {"MD", "MET"} /\ RescaledFor(w, r, new_u)
      OBVIOUS
    <3>2. new_u \in Int
      BY ModId DEF Testing
    <3> HIDE DEF w, r
    <3>3. EnergyIsAction(r, new_u)
      BY <1>3, <3>1, <3>2, NewEnergy DEF Testing
    <3>. QED  BY <3>3 DEF EnergyIsAction
  <2>3. e1 \in Int /\ e2 \in Int
    BY ModId DEF Testing
  <2>4. e \in Int
    BY <2>3
  <2>5. deltaH_fermion = e - s
    <3>1. CASE prm.useMp
      <4> DEFINE x == calc_s_fermion(new_u, phi, "mp")
                 y == calc_s_fermion_mp(new_u, phi_mp)
      <4>1. deltaH_fermion = (e1 - x) + (e2 - y) /\ s = x + y
        BY <1>3, <3>1 DEF deltaH_fermion, EnergyAt
      <4>2. x \in Int /\ y \in Int
        <5>1. new_u \in Int /\ phi \in Complex /\ phi_mp \in Complex /\ "mp" \in Masses
          BY <1>1, <1>3, <3>1, ModId DEF Testing, FieldsFit, Masses
        <5>2. x \in Int
          BY <5>1, WilsonEnergy
        <5>3. y \in Int
          BY <5>1, RatioEnergy
        <5>. QED  BY <5>2, <5>3
      <4> HIDE DEF x, y, s
      <4>3. (e1 - x) + (e2 - y) = (e1 + e2) - (x + y)
        BY <2>3, <4>2
      <4>. QED  BY <3>1, <4>1, <4>3
    <3>2. CASE ~prm.useMp
      <4>1. deltaH_fermion = e1 - s
        BY <1>1, <1>3, <3>2 DEF deltaH_fermion, EnergyAt
      <4>2. e = e1
        BY <2>3, <3>2
      <4>. QED  BY <4>1, <4>2
    <3>. QED  BY <1>1, <3>1, <3>2
  <2>6. FermionAction(gf) = a /\ FermionAction(new_u) = c
    BY ActionIs
  <2> HIDE DEF e, s, a, c
  <2>7. Congruent(e - s, a - c)
    BY <2>1, <2>2, <2>4, CongruentOps
  <2>8. e - s \in Int
    BY <2>2, <2>4
  <2>. QED  BY <2>1, <2>2, <2>5, <2>6, <2>7, <2>8 DEF FermionChangeIs
<1>. QED  BY <1>1, <1>2, <1>3

LEMMA DeltaHFits ==
    ASSUME Testing, RescaledFor("MET", rational', new_u)
    PROVE  EnergyChangeIs
<1> DEFINE g == GaugeChange(gf, new_u)
           g1 == GaugeEnergy(gf)
           g2 == GaugeEnergy(new_u)
           k1 == Kinetic(p)
           k2 == Kinetic(new_p)
           f == deltaH_fermion
           f1 == FermionAction(gf)
           f2 == FermionAction(new_u)
<1>1. gf \in Int /\ p \in Int /\ new_u \in Int /\ new_p \in Int
  BY ModId DEF Testing
<1>2. g \in Int /\ g1 \in Int /\ g2 \in Int /\ Congruent(g, g1 - g2)
  BY <1>1, GaugeEnergyChange
<1>3. f \in Int /\ f1 \in Int /\ f2 \in Int /\ Congruent(f, f1 - f2)
  BY FermionChange DEF FermionChangeIs
<1>4. k1 \in Int /\ k2 \in Int /\ KineticEnergy(p) = k1 /\ KineticEnergy(new_p) = k2
  BY <1>1, KineticIs
<1>5. deltaH_gauge = g
  BY DEF deltaH_gauge, GaugeChange
<1>6. EnergyChange = g + (k1 - k2) + f
  BY <1>4, <1>5 DEF EnergyChange
<1>7. Hamiltonian(gf, p) = g1 + k1 + f1 /\ Hamiltonian(new_u, new_p) = g2 + k2 + f2
  BY HamiltonianIs
<1> HIDE DEF g, g1, g2, k1, k2, f, f1, f2
<1> DEFINE k == k1 - k2
           gd == g1 - g2
           fd == f1 - f2
<1>8. k \in Int /\ gd \in Int /\ fd \in Int
  BY <1>2, <1>3, <1>4
<1>9. (g1 + k1 + f1) - (g2 + k2 + f2) = gd + k + fd
  BY <1>2, <1>3, <1>4
<1>10. Congruent(g, gd) /\ Congruent(f, fd)
  BY <1>2, <1>3
<1> HIDE DEF k, gd, fd
<1>11. Congruent(k, k)
  BY <1>8, CongruentSelf
<1>12. Congruent(g + k, gd + k)
  BY <1>2, <1>8, <1>10, <1>11, CongruentOps
<1> DEFINE x == g + k
           y == gd + k
<1>13. x \in Int /\ y \in Int /\ Congruent(x, y)
  BY <1>2, <1>8, <1>12
<1> HIDE DEF x, y
<1>14. Congruent(x + f, y + fd)
  BY <1>3, <1>8, <1>10, <1>13, CongruentOps
<1>15. x + f \in Int
  BY <1>3, <1>13
<1>16. g1 + k1 + f1 \in Int /\ g2 + k2 + f2 \in Int
  BY <1>2, <1>3, <1>4
<1>17. EnergyChange = x + f
  BY <1>6 DEF x, k
<1>18. Hamiltonian(gf, p) - Hamiltonian(new_u, new_p) = y + fd
  BY <1>7, <1>9 DEF y
<1>. QED  BY <1>7, <1>14, <1>15, <1>16, <1>17, <1>18 DEF EnergyChangeIs

Tested(o) ==
    /\ o.accept \in {0, 1} /\ o.deltaH \in Numbers
    /\ (o.deltaH - (Hamiltonian(gf, p) - Hamiltonian(new_u, new_p))) % P = 0

LEMMA MetropolisTests ==
    ASSUME Testing, metropolis
    PROVE  Tested(obs') /\ RescaledFor("MET", rational', new_u)
<1>1. RescaledFor("MET", rational', new_u)
  BY DEF metropolis, Rescale_for_metropolis, RescaledFor
<1>2. EnergyChangeIs
  BY <1>1, DeltaHFits
<1> DEFINE d == EnergyChange
           h == Hamiltonian(gf, p) - Hamiltonian(new_u, new_p)
           z == d % P
<1>3. PICK accept \in {0, 1} : obs'.accept = accept /\ obs'.deltaH = z
  <2>1. \E accept \in IF z = 0 THEN {1} ELSE {0, 1} :
           obs' = [accept |-> accept, deltaH |-> z,
                   of |-> Observables(IF accept = 1 THEN new_u ELSE gf)]
    BY DEF metropolis, EnergyChange
  <2> HIDE DEF z
  <2>. QED  BY <2>1
<1>4. d \in Int /\ h \in Int /\ Congruent(d, h)
  BY <1>2 DEF EnergyChangeIs
<1> HIDE DEF d, h
<1>5. z \in Numbers /\ z \in Int /\ Congruent(z, d)
  BY <1>4, ModType, Remainder
<1> HIDE DEF z
<1>6. Congruent(z, h)
  BY <1>4, <1>5, CongruentChain
<1> DEFINE y == z - h
           o == 0
<1>7. Null(y) /\ y \in Int
  BY <1>4, <1>5, <1>6, DifferenceNull
<1>8. o \in Int /\ o % P = 0 /\ Congruent(y, o)
  <2>1. 0 % P = 0
    <3>1. 0 \in Numbers
      BY PType DEF Numbers
    <3>. QED  BY <3>1, ModId
  <2>. QED  BY <2>1, <1>7 DEF Null
<1> HIDE DEF y, o
<1>9. y % P = o % P
  BY <1>7, <1>8, Congruence
<1>. QED  BY <1>1, <1>3, <1>5, <1>8, <1>9 DEF Tested, y, h
------------------------------------------------------------------------------
(* The inductive invariant of the trajectory *)

MotionInv ==
    /\ TypeOK /\ HasRoots(gf)
    /\ pc = "start" => Empty
    /\ pc \notin {"start", "aborted"} => Drawn
    /\ pc \in {"initialized", "integrated"} => RescaledFor("MD", rational, gf)
    /\ pc \in {"initialized", "integrated", "tested"} =>
          EnergyFits(phi, phi_mp, spinor_energy_init, spinor_energy_init_mp, gf)
    /\ pc = "integrated" => prm \in Integrable /\ At(new_u, new_p) = Moved(gf, p)
    /\ pc \in {"tested", "finished"} => HasRoots(new_u)
    /\ DeltaHIsEnergyDifference

LEMMA StartsOK == Init => MotionInv
<1> SUFFICES ASSUME Init PROVE MotionInv
  OBVIOUS
<1>1. PICK c \in Cases : prm \in ParametersOf(c) /\ gf \in c.links
  BY DEF Init
<1>2. prm \in AllParameters
  BY <1>1 DEF AllParameters
<1>3. gf \in Numbers
  BY <1>1, HmcAssumption
<1>4. 0 \in Numbers
  BY PType DEF Numbers
<1>5. /\ HasRoots(gf) /\ gf_start = gf /\ phi = NoField /\ phi_mp = NoField
      /\ spinor_energy_init = 0 /\ spinor_energy_init_mp = 0 /\ pc = "start"
  BY DEF Init
<1>6. TypeOK
  BY <1>2, <1>3, <1>4, <1>5 DEF TypeOK
<1>7. Empty
  BY <1>2, <1>3, <1>5 DEF Empty
<1>. QED  BY <1>5, <1>6, <1>7 DEF MotionInv, DeltaHIsEnergyDifference

LEMMA HeatbathOK == MotionInv /\ Heatbath => MotionInv'
<1> SUFFICES ASSUME MotionInv, Heatbath PROVE MotionInv'
  OBVIOUS
<1>1. /\ pc = "start" /\ pc' = "initialized" /\ prm' = prm /\ gf' = gf /\ gf_start' = gf
      /\ Rescale_for_md
      /\ Heatbath_gauge_only \/ init_spinorfield \/ init_spinorfield_mp \/ init_spinorfield_rooted
      /\ \E draw \in Draws(prm) : p' = Re(draw)
  BY DEF Heatbath
<1>2. Empty /\ TypeOK /\ HasRoots(gf)
  BY <1>1 DEF MotionInv
<1>3. Fitting(phi', phi_mp', spinor_energy_init', spinor_energy_init_mp', gf)
  BY <1>1, <1>2, NothingDrawn, WilsonDrawn, RatioDrawn, RootedDrawn
<1>4. /\ FieldsFit(phi', phi_mp') /\ spinor_energy_init' \in Numbers /\ spinor_energy_init_mp' \in Numbers
      /\ EnergyFits(phi', phi_mp', spinor_energy_init', spinor_energy_init_mp', gf)
  BY <1>3 DEF Fitting
<1>5. p' \in Numbers
  BY <1>1, DrawsAreComplex
<1>6. RescaledFor("MD", rational', gf)
  BY <1>1 DEF Rescale_for_md, RescaledFor
<1>7. prm \in AllParameters /\ gf \in Numbers
  BY <1>2 DEF Empty
<1>8. TypeOK'
  BY <1>1, <1>4, <1>5, <1>7 DEF TypeOK, FieldsFit, Staggered
<1>9. Staggered => IsRational(rational')
  <2> DEFINE which == "MD"
             r == rational'
  <2>1. which \in Which /\ RescaledFor(which, r, gf)
    BY <1>6 DEF Which
  <2> HIDE DEF which, r
  <2>. QED  BY <1>2, <1>7, <2>1, RescaledAction DEF r
<1>10. Drawn'
  <2>1. prm.algorithm = "rhmc" => ~prm.useMp
    BY <1>7, ParametersAre
  <2>2. prm.useGaugeOnly \in BOOLEAN
    BY <1>7, ParametersAre
  <2>. QED  BY <1>1, <1>4, <1>7, <1>9, <2>1, <2>2 DEF Drawn, FieldsFit, Staggered
<1>11. HasRoots(gf)'
  BY <1>1, <1>2 DEF HasRoots, Staggered
<1>12. RescaledFor("MD", rational, gf)'
  BY <1>1, <1>6 DEF RescaledFor, Staggered
<1>13. EnergyFits(phi, phi_mp, spinor_energy_init, spinor_energy_init_mp, gf)'
  BY <1>1, <1>4 DEF EnergyFits, ActionOf, Staggered
<1>. QED  BY <1>1, <1>8, <1>10, <1>11, <1>12, <1>13 DEF MotionInv, DeltaHIsEnergyDifference

LEMMA IntegrateOK == MotionInv /\ Integrate => MotionInv'
<1> SUFFICES ASSUME MotionInv, Integrate PROVE MotionInv'
  OBVIOUS
<1>1. /\ pc = "initialized" /\ pc' = "integrated" /\ ~IntegratorThrows(prm)
      /\ new_u' = Evolved(gf, p).u /\ new_p' = Evolved(gf, p).p
      /\ gf' = gf /\ p' = p /\ gf_start' = gf_start
      /\ spinor_energy_init' = spinor_energy_init /\ spinor_energy_init_mp' = spinor_energy_init_mp
  BY DEF Integrate, fermions
<1>2. Steady
  BY DEF Integrate, fermions, Steady
<1>3. /\ TypeOK /\ HasRoots(gf) /\ Drawn /\ RescaledFor("MD", rational, gf)
      /\ EnergyFits(phi, phi_mp, spinor_energy_init, spinor_energy_init_mp, gf)
  BY <1>1 DEF MotionInv
<1>4. prm \in Integrable
  BY <1>1, <1>3 DEF Integrable, TypeOK
<1>5. gf \in Numbers /\ p \in Numbers
  BY <1>1, <1>3 DEF TypeOK
<1>6. Evolved(gf, p) = Moved(gf, p) /\ Moved(gf, p) \in Points
  BY <1>3, <1>4, <1>5, EvolvedIs
<1>7. /\ new_u' \in Numbers /\ new_p' \in Numbers
      /\ At(new_u', new_p') = Moved(gf, p)
  <2> DEFINE z == Moved(gf, p)
  <2>1. z \in Points /\ new_u' = z.u /\ new_p' = z.p
    BY <1>1, <1>6
  <2> HIDE DEF z
  <2>2. At(z.u, z.p) = z /\ z.u \in Numbers /\ z.p \in Numbers
    BY <2>1, PointIs
  <2>. QED  BY <2>1, <2>2 DEF z
<1>8. Moved(gf, p)' = Moved(gf, p)
  BY <1>1, <1>2, MovedSteady
<1>9. At(new_u, new_p)' = Moved(gf, p)'
  BY <1>7, <1>8 DEF At
<1>10. TypeOK'
  BY <1>1, <1>2, <1>3, <1>7 DEF TypeOK, Steady, Staggered
<1>11. Drawn' /\ HasRoots(gf)' /\ RescaledFor("MD", rational, gf)'
  BY <1>1, <1>2, <1>3, FieldsSteady DEF Steady
<1>12. EnergyFits(phi, phi_mp, spinor_energy_init, spinor_energy_init_mp, gf)'
  BY <1>1, <1>2, <1>3, FieldsSteady DEF Steady
<1>13. prm' \in Integrable
  BY <1>2, <1>4 DEF Steady
<1>. QED  BY <1>1, <1>9, <1>10, <1>11, <1>12, <1>13 DEF MotionInv, DeltaHIsEnergyDifference

LEMMA AbortOK == MotionInv /\ (IntegratorFails \/ RangeExceeded) => MotionInv'
<1> SUFFICES ASSUME MotionInv, IntegratorFails \/ RangeExceeded PROVE MotionInv'
  OBVIOUS
<1>1. pc' = "aborted" /\ gf' = gf /\ gf_start' = gf_start /\ prm' = prm
      /\ spinor_energy_init' = spinor_energy_init /\ spinor_energy_init_mp' = spinor_energy_init_mp
  BY DEF IntegratorFails, RangeExceeded, fermions
<1>2. TypeOK'
  BY <1>1 DEF MotionInv, TypeOK
<1>3. HasRoots(gf)'
  BY <1>1 DEF MotionInv, HasRoots, Staggered
<1>. QED  BY <1>1, <1>2, <1>3 DEF MotionInv, DeltaHIsEnergyDifference

LEMMA MetropolisOK == MotionInv /\ metropolis => MotionInv'
<1> SUFFICES ASSUME MotionInv, metropolis PROVE MotionInv'
  OBVIOUS
<1>1. /\ pc = "integrated" /\ pc' = "tested" /\ HasRoots(new_u)
      /\ prm' = prm /\ gf' = gf /\ p' = p /\ new_u' = new_u /\ new_p' = new_p /\ gf_start' = gf_start
      /\ phi' = phi /\ phi_mp' = phi_mp
      /\ spinor_energy_init' = spinor_energy_init /\ spinor_energy_init_mp' = spinor_energy_init_mp
  BY DEF metropolis, fermions
<1>2. /\ TypeOK /\ HasRoots(gf) /\ Drawn
      /\ EnergyFits(phi, phi_mp, spinor_energy_init, spinor_energy_init_mp, gf)
  BY <1>1 DEF MotionInv
<1>3. Testing
  <2>1. FieldsFit(phi, phi_mp)
    BY <1>1, <1>2 DEF TypeOK, FieldsFit
  <2>. QED  BY <1>1, <1>2, <2>1 DEF Testing, TypeOK
<1>4. Tested(obs') /\ RescaledFor("MET", rational', new_u)
  BY <1>3, MetropolisTests
<1>5. TypeOK'
  BY <1>1, <1>2, <1>4 DEF TypeOK, Tested, Staggered
<1>6. Staggered => IsRational(rational')
  <2> DEFINE which == "MET"
             r == rational'
  <2>1. which \in Which /\ RescaledFor(which, r, new_u)
    BY <1>4 DEF Which
  <2>2. prm \in AllParameters
    BY <1>2 DEF TypeOK
  <2> HIDE DEF which, r
  <2>. QED  BY <1>1, <2>1, <2>2, RescaledAction DEF r
<1>7. Drawn'
  BY <1>1, <1>2, <1>6 DEF Drawn, Staggered
<1>8. HasRoots(gf)' /\ HasRoots(new_u)'
  BY <1>1, <1>2 DEF HasRoots, Staggered
<1>9. EnergyFits(phi, phi_mp, spinor_energy_init, spinor_energy_init_mp, gf)'
  BY <1>1, <1>2 DEF EnergyFits, ActionOf, Staggered
<1>10. DeltaHIsEnergyDifference'
  <2>1. \A u, mom : Hamiltonian(u, mom)' = Hamiltonian(u, mom)
    BY <1>1, HamiltonianKept DEF Kept
  <2>2. (obs'.deltaH - (Hamiltonian(gf, p) - Hamiltonian(new_u, new_p))) % P = 0
    BY <1>4 DEF Tested
  <2>. QED  BY <1>1, <2>1, <2>2 DEF DeltaHIsEnergyDifference
<1>. QED  BY <1>1, <1>5, <1>7, <1>8, <1>9, <1>10 DEF MotionInv

LEMMA DecisionOK == MotionInv /\ AcceptOrReject => MotionInv'
<1> SUFFICES ASSUME MotionInv, AcceptOrReject PROVE MotionInv'
  OBVIOUS
<1>1. /\ pc = "tested" /\ pc' = "finished" /\ gf' = (IF obs.accept = 1 THEN new_u ELSE gf)
      /\ p' = p /\ new_u' = new_u /\ new_p' = new_p /\ gf_start' = gf_start /\ obs' = obs
      /\ spinor_energy_init' = spinor_energy_init /\ spinor_energy_init_mp' = spinor_energy_init_mp
  BY DEF AcceptOrReject, fermions
<1>2. Steady
  BY DEF AcceptOrReject, fermions, Steady
<1>3. TypeOK /\ HasRoots(gf) /\ HasRoots(new_u) /\ Drawn
  BY <1>1 DEF MotionInv
<1>4. gf' \in Numbers /\ HasRoots(gf')
  BY <1>1, <1>3 DEF TypeOK
<1>5. TypeOK'
  BY <1>1, <1>2, <1>3, <1>4 DEF TypeOK, Steady, Staggered
<1>6. Drawn' /\ HasRoots(gf)' /\ HasRoots(new_u)'
  BY <1>1, <1>2, <1>3, <1>4, FieldsSteady
<1>. QED  BY <1>1, <1>5, <1>6 DEF MotionInv, DeltaHIsEnergyDifference

LEMMA NextStepOK == MotionInv /\ NextStep => MotionInv'
<1> SUFFICES ASSUME MotionInv, NextStep PROVE MotionInv'
  OBVIOUS
<1>1. /\ pc' = "start" /\ prm' = prm /\ gf' = gf /\ gf_start' = gf
      /\ phi' = NoField /\ phi_mp' = NoField
      /\ spinor_energy_init' = 0 /\ spinor_energy_init_mp' = 0
  BY DEF NextStep
<1>2. TypeOK /\ HasRoots(gf)
  BY DEF MotionInv
<1>3. 0 \in Numbers
  BY PType DEF Numbers
<1>4. TypeOK'
  BY <1>1, <1>2, <1>3 DEF TypeOK
<1>5. HasRoots(gf)'
  BY <1>1, <1>2 DEF HasRoots, Staggered
<1>6. Empty'
  BY <1>1, <1>2, <1>5 DEF Empty, TypeOK
<1>. QED  BY <1>1, <1>4, <1>5, <1>6 DEF MotionInv, DeltaHIsEnergyDifference

LEMMA StutterOK == MotionInv /\ UNCHANGED vars => MotionInv'
<1> SUFFICES ASSUME MotionInv, UNCHANGED vars PROVE MotionInv'
  OBVIOUS
<1>1. /\ pc' = pc /\ gf' = gf /\ p' = p /\ new_u' = new_u /\ new_p' = new_p
      /\ gf_start' = gf_start /\ obs' = obs
      /\ spinor_energy_init' = spinor_energy_init /\ spinor_energy_init_mp' = spinor_energy_init_mp
  BY DEF vars, fermions
<1>2. Steady
  BY DEF vars, fermions, Steady
<1>3. TypeOK'
  BY <1>1, <1>2 DEF MotionInv, TypeOK, Steady, Staggered
<1>4. HasRoots(gf)'
  BY <1>1, <1>2, FieldsSteady DEF MotionInv
<1>5. pc = "start" => Empty'
  BY <1>1, <1>2, <1>4 DEF MotionInv, Empty, Steady
<1>6. pc \notin {"start", "aborted"} => Drawn'
  BY <1>2, FieldsSteady DEF MotionInv
<1>7. pc \in {"initialized", "integrated"} => RescaledFor("MD", rational, gf)'
  BY <1>1, <1>2, FieldsSteady DEF MotionInv, Steady
<1>8. pc \in {"initialized", "integrated", "tested"} =>
         EnergyFits(phi, phi_mp, spinor_energy_init, spinor_energy_init_mp, gf)'
  BY <1>1, <1>2, FieldsSteady DEF MotionInv, Steady
<1>9. pc = "integrated" => prm' \in Integrable /\ At(new_u, new_p)' = Moved(gf, p)'
  <2>1. Moved(gf, p)' = Moved(gf, p)
    BY <1>1, <1>2, MovedSteady
  <2>2. At(new_u, new_p)' = At(new_u, new_p)
    BY <1>1 DEF At
  <2>. QED  BY <1>2, <2>1, <2>2 DEF MotionInv, Steady
<1>10. pc \in {"tested", "finished"} => HasRoots(new_u)'
  BY <1>1, <1>2, FieldsSteady DEF MotionInv
<1>11. DeltaHIsEnergyDifference'
  <2>1. \A u, mom : Hamiltonian(u, mom)' = Hamiltonian(u, mom)
    BY <1>2, HamiltonianKept DEF Kept, Steady
  <2>. QED  BY <1>1, <2>1 DEF MotionInv, DeltaHIsEnergyDifference
<1>. QED  BY <1>1, <1>3, <1>4, <1>5, <1>6, <1>7, <1>8, <1>9, <1>10, <1>11 DEF MotionInv

LEMMA MotionSteps == MotionInv /\ [Next]_vars => MotionInv'
<1> SUFFICES ASSUME MotionInv, [Next]_vars PROVE MotionInv'
  OBVIOUS
<1>1. CASE Heatbath
  BY <1>1, HeatbathOK
<1>2. CASE Integrate
  BY <1>2, IntegrateOK
<1>3. CASE IntegratorFails \/ RangeExceeded
  BY <1>3, AbortOK
<1>4. CASE metropolis
  BY <1>4, MetropolisOK
<1>5. CASE AcceptOrReject
  BY <1>5, DecisionOK
<1>6. CASE NextStep
  BY <1>6, NextStepOK
<1>7. CASE UNCHANGED vars
  BY <1>7, StutterOK
<1>. QED  BY <1>1, <1>2, <1>3, <1>4, <1>5, <1>6, <1>7 DEF Next, Aborted

LEMMA MotionInvariant == Spec => []MotionInv
  BY StartsOK, MotionSteps, PTL DEF Spec
------------------------------------------------------------------------------
(* The forces of a schedule *)

Used(s) == UNION {v.forces : v \in ToSet(s)}

LEMMA UsedIs ==
    ASSUME NEW C, NEW s \in Seq(Updating(C)), NEW t \in Seq(Updating(C))
    PROVE  /\ Used(s \o t) = Used(s) \cup Used(t)
           /\ \A f \in Used(s) : \E F \in C : f \in F
<1> DEFINE A == Updating(C)
<1>1. s \in Seq(A) /\ t \in Seq(A) /\ \A v \in A : v.forces \in C \cup {{}}
  BY DEF Updating
<1> HIDE DEF A
<1>2. ToSet(s \o t) = ToSet(s) \cup ToSet(t)
  <2>1. Len(s \o t) = Len(s) + Len(t) /\ s \o t \in Seq(A)
    BY <1>1
  <2>2. DOMAIN (s \o t) = 1 .. Len(s) + Len(t) /\ DOMAIN s = 1 .. Len(s) /\ DOMAIN t = 1 .. Len(t)
        /\ Len(s) \in Nat /\ Len(t) \in Nat
    BY <1>1, <2>1
  <2>3. \A i \in 1 .. Len(s) : (s \o t)[i] = s[i] /\ i \in DOMAIN (s \o t)
    BY <1>1, <2>2
  <2>4. \A i \in 1 .. Len(t) : (s \o t)[Len(s) + i] = t[i] /\ Len(s) + i \in DOMAIN (s \o t)
    BY <1>1, <2>2
  <2>5. \A i \in DOMAIN (s \o t) : (s \o t)[i] \in ToSet(s) \cup ToSet(t)
    <3>1. SUFFICES ASSUME NEW i \in DOMAIN (s \o t) PROVE (s \o t)[i] \in ToSet(s) \cup ToSet(t)
      OBVIOUS
    <3>2. CASE i \in 1 .. Len(s)
      BY <2>2, <2>3, <3>2 DEF ToSet
    <3>3. CASE i \notin 1 .. Len(s)
      <4> DEFINE j == i - Len(s)
      <4>1. j \in 1 .. Len(t) /\ Len(s) + j = i
        BY <2>2, <3>3
      <4> HIDE DEF j
      <4>2. (s \o t)[i] = t[j]
        BY <2>4, <4>1
      <4>. QED  BY <2>2, <4>1, <4>2 DEF ToSet
    <3>. QED  BY <3>2, <3>3
  <2>6. ToSet(s \o t) \subseteq ToSet(s) \cup ToSet(t)
    BY <2>5 DEF ToSet
  <2>7. ToSet(s) \subseteq ToSet(s \o t)
    BY <2>2, <2>3 DEF ToSet
  <2>8. ToSet(t) \subseteq ToSet(s \o t)
    BY <2>2, <2>4 DEF ToSet
  <2>. QED  BY <2>6, <2>7, <2>8
<1>3. Used(s \o t) = Used(s) \cup Used(t)
  BY <1>2 DEF Used
<1>4. \A v \in ToSet(s) : v \in A
  BY <1>1 DEF ToSet
<1>5. \A f \in Used(s) : \E F \in C : f \in F
  BY <1>1, <1>4 DEF Used
<1>. QED  BY <1>3, <1>5

LEMMA UsedByKick ==
    ASSUME NEW F, NEW x
    PROVE  Used(Kick(F, x)) = F /\ Used(<<>>) = {}
<1>1. ToSet(Kick(F, x)) = {[forces |-> F, eps |-> x]}
  BY DEF ToSet, Kick
<1>2. ToSet(<<>>) = {}
  BY DEF ToSet
<1>. QED  BY <1>1, <1>2 DEF Used

\* A level uses at its beginning its force and those of the levels below.
LEMMA UsedByKicked ==
    ASSUME NEW C, NEW w \in WordsOf(Updating(C)), NEW F \in C, NEW x \in Int
    PROVE  Used(Kick(F, x) \o w.begin) = F \cup Used(w.begin)
<1> DEFINE k == Kick(F, x)
           b == w.begin
<1>1. k \in Seq(Updating(C)) /\ b \in Seq(Updating(C))
  BY Atoms, WordFields
<1>2. Used(k) = F
  BY UsedByKick
<1> HIDE DEF k, b
<1>. QED  BY <1>1, <1>2, UsedIs DEF k, b

LEMMA UsedAtBottom ==
    ASSUME NEW C, NEW d \in Int
    PROVE  /\ BottomOf(md_update_gaugefield(d)) \in WordsOf(Updating(C))
           /\ Used(BottomOf(md_update_gaugefield(d)).begin) = {}
<1>1. {} \in C \cup {{}}
  OBVIOUS
<1>2. md_update_gaugefield(d) \in Seq(Updating(C))
  BY <1>1, Atoms
<1>3. BottomOf(md_update_gaugefield(d)).begin = <<>>
  BY DEF BottomOf
<1>4. BottomOf(md_update_gaugefield(d)) \in WordsOf(Updating(C))
  BY <1>2 DEF BottomOf, WordsOf
<1>. QED  BY <1>3, <1>4, UsedByKick

\* w is a word on the forces C, and its beginning uses those in G.
Begins(C, w, G) == w \in WordsOf(Updating(C)) /\ Used(w.begin) = G

LEMMA BeginsLeapfrog ==
    ASSUME NEW C, NEW w, NEW G, Begins(C, w, G),
           NEW F \in C, NEW d \in Int, NEW m \in Nat \ {0}
    PROVE  Begins(C, LeapfrogOn(w, F, d, m), F \cup G)
<1> DEFINE x == d \div 2
<1>1. w \in WordsOf(Updating(C)) /\ Used(w.begin) = G
  BY DEF Begins
<1>2. LeapfrogOn(w, F, d, m).begin = Kick(F, x) \o w.begin
  BY DEF LeapfrogOn, NextOf
<1>3. x \in Int
  OBVIOUS
<1> HIDE DEF x
<1>4. Used(Kick(F, x) \o w.begin) = F \cup G
  BY <1>1, <1>3, UsedByKicked
<1>5. LeapfrogOn(w, F, d, m) \in WordsOf(Updating(C))
  BY <1>1, LeapfrogTypes
<1>. QED  BY <1>2, <1>4, <1>5 DEF Begins

LEMMA BeginsTwomn ==
    ASSUME NEW C, NEW w, NEW G, Begins(C, w, G),
           NEW F \in C, NEW i \in 1 .. 3, NEW d \in Int, NEW m \in Nat \ {0}
    PROVE  Begins(C, TwomnOn(w, F, i, d, m), F \cup G)
<1> DEFINE x == Outer(i, d)
<1>1. w \in WordsOf(Updating(C)) /\ Used(w.begin) = G
  BY DEF Begins
<1>2. TwomnOn(w, F, i, d, m).begin = Kick(F, x) \o w.begin
  BY DEF TwomnOn, NextOf, TwomnTwice, TwiceOf
<1>3. x \in Int
  BY OuterInt
<1> HIDE DEF x
<1>4. Used(Kick(F, x) \o w.begin) = F \cup G
  BY <1>1, <1>3, UsedByKicked
<1>5. TwomnOn(w, F, i, d, m) \in WordsOf(Updating(C))
  BY <1>1, TwomnTypes
<1>. QED  BY <1>2, <1>4, <1>5 DEF Begins

LEMMA BeginsBottom ==
    ASSUME NEW C, NEW d \in Int
    PROVE  Begins(C, BottomOf(md_update_gaugefield(d)), {})
BY UsedAtBottom DEF Begins

LEMMA AllUsedAtBegin ==
    ASSUME NEW q \in Integrable
    PROVE  Used(WordsFor(q).begin) = UNION ForceSets(q)
<1> DEFINE e == TopWidth(q)
           n0 == n(q, 0)
           n1 == n(q, 1)
           n2 == n(q, 2)
           F == IF q.useGaugeOnly THEN {"gauge"} ELSE TotalForce
           C == ForceSets(q)
           N == {}
           U(d) == BottomOf(md_update_gaugefield(d))
           i1 == 1
           i2 == 2
           i3 == 3
<1>1. /\ q.numTimescales \in 1 .. 3 /\ n0 \in Nat \ {0}
      /\ q.numTimescales \in {2, 3} => n1 \in Nat \ {0}
      /\ q.numTimescales = 3 => n2 \in Nat \ {0}
  BY IntegrableParameters, StepsPositive
<1>4. i1 \in 1 .. 3 /\ i2 \in 1 .. 3 /\ i3 \in 1 .. 3
  OBVIOUS
<1>2. e \in Int
  BY Widths
<1>3. /\ q.numTimescales = 1 => C = {F}
      /\ q.numTimescales = 2 => C = {{"gauge"}, {"det"}}
      /\ q.numTimescales = 3 => C = {{"gauge"}, {"det_mp"}, {"detratio"}}
  BY DEF ForceSets
<1>6. CASE q.numTimescales = 1
  <2> DEFINE x == e \div 2
             u == U(e)
             v == U(x)
             w1 == LeapfrogOn(u, F, e, n0)
             w2 == TwomnOn(v, F, i1, e, n0)
  <2>1. WordsFor(q) = IF q.integrator[1] = "leapfrog" THEN w1 ELSE w2
    BY <1>6 DEF WordsFor, LeapfrogBelow, TwomnBelow
  <2>2. x \in Int
    <3> HIDE DEF e
    <3>. QED  BY <1>2
  <2>4. F \in C /\ UNION C = F \cup N
    BY <1>3, <1>6
  <2>. HIDE DEF C, F, e, n0, x, i1
  <2>5. Begins(C, u, N) /\ Begins(C, v, N)
    BY <1>2, <2>2, BeginsBottom
  <2>. HIDE DEF N, u, v
  <2>6. Begins(C, w1, F \cup N)
    BY <1>1, <1>2, <2>4, <2>5, BeginsLeapfrog
  <2>7. Begins(C, w2, F \cup N)
    BY <1>1, <1>2, <1>4, <2>4, <2>5, BeginsTwomn
  <2>. HIDE DEF w1, w2
  <2>8. Used(WordsFor(q).begin) = F \cup N
    BY <2>1, <2>6, <2>7 DEF Begins
  <2>. QED  BY <2>4, <2>8 DEF C
<1>7. CASE q.numTimescales = 2
  <2> DEFINE E == {"det"}
             H == {"gauge"}
             d == e \div n0
             x == e \div (2 * n0)
             y == x \div 2
             u == U(d)
             v == U(y)
             u1 == LeapfrogOn(u, H, d, n0)
             v1 == TwomnOn(v, H, i1, x, n0)
             w1 == LeapfrogOn(u1, E, e, n1)
             w2 == TwomnOn(v1, E, i2, e, n1)
  <2>1. WordsFor(q) = IF q.integrator[1] = "leapfrog" THEN w1 ELSE w2
    BY <1>7 DEF WordsFor, Leapfrog2Words, Twomn2Words, LeapfrogBelow, TwomnBelow
  <2>2. d \in Int /\ E \in C /\ H \in C
    BY <1>3, <1>7, Widths
  <2>4. UNION C = E \cup (H \cup N)
    BY <1>3, <1>7
  <2>3. x \in Int
    <3> HIDE DEF e, n0
    <3>. QED  BY <1>1, <1>2
  <2>. HIDE DEF C, E, H, e, d, x, n0, n1, i1, i2
  <2>9. y \in Int
    BY <2>3
  <2>. HIDE DEF y
  <2>5. Begins(C, u, N) /\ Begins(C, v, N)
    BY <2>2, <2>9, BeginsBottom
  <2>. HIDE DEF N, u, v
  <2>6. Begins(C, u1, H \cup N)
    BY <1>1, <2>2, <2>5, BeginsLeapfrog
  <2>7. Begins(C, v1, H \cup N)
    BY <1>1, <1>4, <2>2, <2>3, <2>5, BeginsTwomn
  <2>. DEFINE G == H \cup N
  <2>. HIDE DEF u1, v1, G
  <2>10. Begins(C, u1, G) /\ Begins(C, v1, G)
    BY <2>6, <2>7 DEF G
  <2>11. n1 \in Nat \ {0}
    BY <1>1, <1>7
  <2>12. Begins(C, w1, E \cup G)
    BY <1>2, <2>2, <2>10, <2>11, BeginsLeapfrog
  <2>13. Begins(C, w2, E \cup G)
    BY <1>2, <1>4, <2>2, <2>10, <2>11, BeginsTwomn
  <2>. HIDE DEF w1, w2
  <2>8. Used(WordsFor(q).begin) = E \cup G
    BY <2>1, <2>12, <2>13 DEF Begins
  <2>. QED  BY <2>4, <2>8 DEF C, G
<1>8. CASE q.numTimescales = 3
  <2> DEFINE R == {"detratio"}
             E == {"det_mp"}
             H == {"gauge"}
             d1 == e \div n1
             d == d1 \div n0
             x1 == e \div (2 * n1)
             x == x1 \div (2 * n0)
             y == x \div 2
             u == U(d)
             v == U(y)
             u1 == LeapfrogOn(u, H, d, n0)
             v1 == TwomnOn(v, H, i1, x, n0)
             u2 == LeapfrogOn(u1, E, d1, n1)
             v2 == TwomnOn(v1, E, i2, x1, n1)
             w1 == LeapfrogOn(u2, R, e, n2)
             w2 == TwomnOn(v2, R, i3, e, n2)
  <2>1. WordsFor(q) = IF q.integrator[1] = "leapfrog" THEN w1 ELSE w2
    BY <1>8 DEF WordsFor, Leapfrog3Words, Twomn3Words, LeapfrogBelow, TwomnBelow
  <2>2. d1 \in Int /\ d \in Int /\ E \in C /\ H \in C /\ R \in C
    BY <1>3, <1>8, Widths
  <2>4. UNION C = R \cup (E \cup (H \cup N))
    BY <1>3, <1>8
  <2>11. n1 \in Nat \ {0} /\ n2 \in Nat \ {0}
    BY <1>1, <1>8
  <2>3. x1 \in Int
    <3> HIDE DEF e, n1
    <3>. QED  BY <2>11, <1>2
  <2>14. x \in Int
    <3> HIDE DEF x1, n0
    <3>. QED  BY <1>1, <2>3
  <2>. HIDE DEF C, E, H, R, e, d, d1, x, x1, n0, n1, n2, i1, i2, i3
  <2>9. y \in Int
    BY <2>14
  <2>. HIDE DEF y
  <2>5. Begins(C, u, N) /\ Begins(C, v, N)
    BY <2>2, <2>9, BeginsBottom
  <2>. HIDE DEF N, u, v
  <2>6. Begins(C, u1, H \cup N)
    BY <1>1, <2>2, <2>5, BeginsLeapfrog
  <2>7. Begins(C, v1, H \cup N)
    BY <1>1, <1>4, <2>2, <2>14, <2>5, BeginsTwomn
  <2>. DEFINE G == H \cup N
  <2>. HIDE DEF u1, v1, G
  <2>10. Begins(C, u1, G) /\ Begins(C, v1, G)
    BY <2>6, <2>7 DEF G
  <2>12. Begins(C, u2, E \cup G)
    BY <2>2, <2>10, <2>11, BeginsLeapfrog
  <2>13. Begins(C, v2, E \cup G)
    BY <1>4, <2>2, <2>3, <2>10, <2>11, BeginsTwomn
  <2>. DEFINE I == E \cup G
  <2>. HIDE DEF u2, v2, I
  <2>15. Begins(C, u2, I) /\ Begins(C, v2, I)
    BY <2>12, <2>13 DEF I
  <2>16. Begins(C, w1, R \cup I)
    BY <1>2, <2>2, <2>15, <2>11, BeginsLeapfrog
  <2>17. Begins(C, w2, R \cup I)
    BY <1>2, <1>4, <2>2, <2>15, <2>11, BeginsTwomn
  <2>. HIDE DEF w1, w2
  <2>8. Used(WordsFor(q).begin) = R \cup I
    BY <2>1, <2>16, <2>17 DEF Begins
  <2>. QED  BY <2>4, <2>8 DEF C, G, I
<1>9. q.numTimescales = 1 \/ q.numTimescales = 2 \/ q.numTimescales = 3
  BY <1>1
<1>. QED  BY <1>6, <1>7, <1>8, <1>9

LEMMA ScheduleUses ==
    ASSUME Drawn, prm \in Integrable
    PROVE  UNION {v.forces : v \in ToSet(Schedule[prm])} = Acting(prm)
<1> DEFINE C == ForceSets(prm)
           w == WordsFor(prm)
           b == w.begin
           l == w.last
           s == integrator(prm)
<1>1. Schedule[prm] = s
  BY DEF Schedule, Integrable
<1>2. UNION C = Acting(prm) /\ \A F \in C : F \subseteq Acting(prm) /\ F # {}
  BY ForcesAct
<1>3. s = b \o l
  BY IntegratorIs DEF Word
<1>4. w \in WordsOf(Updating(C))
  <2>1. KickRules(Moving(C), Points, C)
    <3> HIDE DEF C
    <3>. QED  BY <1>2, KicksCommute
  <2>2. LevelOK(Moving(C), Points, C, w)
    BY <2>1, WordsOK
  <2>. QED  BY <2>2 DEF LevelOK
<1>5. Used(b) = UNION C
  BY AllUsedAtBegin
<1> HIDE DEF C, w
<1>6. b \in Seq(Updating(C)) /\ l \in Seq(Updating(C))
  BY <1>4, WordFields
<1> HIDE DEF b, l
<1>7. Used(b \o l) = Used(b) \cup Used(l) /\ \A f \in Used(l) : \E F \in C : f \in F
  BY <1>6, UsedIs
<1>8. Used(b \o l) = Acting(prm)
  BY <1>2, <1>5, <1>7
<1>. QED  BY <1>1, <1>3, <1>8 DEF Used
------------------------------------------------------------------------------
(* The molecular dynamics and the Hamiltonian *)

KineticChange(y) == Half * (KineticEnergy(y + 1) - KineticEnergy(y - 1))

LEMMA SquareChange ==
    ASSUME NEW c \in Int, NEW y \in Int
    PROVE  (c * (y + 1)) * (y + 1) - (c * (y - 1)) * (y - 1) = 4 * (c * y)
<1> DEFINE s == c * (y * y)
           t == c * y
<1>1. \A i, j \in Int : (i * j) * j = i * (j * j)
  OBVIOUS
<1>2. (y + 1) * (y + 1) = (y * y) + 2 * y + 1 /\ (y - 1) * (y - 1) = (y * y) - 2 * y + 1
  OBVIOUS
<1>3. \A i, j, k \in Int : i * (j + 2 * k + 1) = i * j + 2 * (i * k) + i
                        /\ i * (j - 2 * k + 1) = i * j - 2 * (i * k) + i
  OBVIOUS
<1>4. y * y \in Int /\ y + 1 \in Int /\ y - 1 \in Int
  OBVIOUS
<1>5. (c * (y + 1)) * (y + 1) = c * ((y + 1) * (y + 1)) /\ (c * (y - 1)) * (y - 1) = c * ((y - 1) * (y - 1))
  BY <1>1, <1>4
<1>6. c * ((y * y) + 2 * y + 1) = s + 2 * t + c /\ c * ((y * y) - 2 * y + 1) = s - 2 * t + c
  BY <1>3, <1>4
<1>7. s \in Int /\ t \in Int
  BY <1>4
<1> HIDE DEF s, t
<1>8. (s + 2 * t + c) - (s - 2 * t + c) = 4 * t
  BY <1>7
<1>. QED  BY <1>2, <1>5, <1>6, <1>8 DEF t

\* The links move by the derivative of the kinetic energy.
LEMMA KineticChanges ==
    ASSUME NEW y \in Int
    PROVE  /\ KineticChange(y) \in Int /\ Velocity(y) \in Int
           /\ Congruent(KineticChange(y), Velocity(y))
<1> DEFINE h == Half
           c == IF Staggered THEN h * h ELSE h
           V == Velocity(y)
           o == 1
           a == y + 1
           b == y - 1
           x == 2 * h
           z == x * x
           f == z * V
           g == o * V
<1>1. h \in Int /\ Congruent(x, o) /\ o \in Int
  BY HalfIs
<1>2. V \in Int
  BY <1>1 DEF Velocity
<1>3. a \in Int /\ b \in Int
  OBVIOUS
<1>4. Kinetic(a) = (c * a) * a /\ Kinetic(b) = (c * b) * b
  BY DEF Kinetic
<1>5. c \in Int /\ x \in Int
  BY <1>1
<1>6. (c * a) * a - (c * b) * b = 4 * (c * y)
  <2> HIDE DEF c
  <2>. QED  BY <1>5, SquareChange
<1>7. KineticEnergy(a) = Kinetic(a) /\ KineticEnergy(b) = Kinetic(b)
  <2> HIDE DEF a, b
  <2>. QED  BY <1>3, KineticIs
<1>8. KineticChange(y) = h * (4 * (c * y))
  BY <1>4, <1>6, <1>7 DEF KineticChange
<1>9. h * (4 * (c * y)) = f
  <2>1. \A i, j \in Int : i * (4 * ((i * i) * j)) = ((2 * i) * (2 * i)) * (i * j)
    OBVIOUS
  <2>2. \A i, j \in Int : i * (4 * (i * j)) = ((2 * i) * (2 * i)) * j
    OBVIOUS
  <2>3. CASE Staggered
    <3>1. c = h * h /\ V = h * y
      BY <2>3 DEF Velocity
    <3>. QED  BY <2>1, <3>1, <1>1
  <2>4. CASE ~Staggered
    <3>1. c = h /\ V = y
      BY <2>4 DEF Velocity
    <3>. QED  BY <2>2, <3>1, <1>1
  <2>. QED  BY <2>3, <2>4
<1> HIDE DEF V, x
<1>10. o * o = o /\ g = V
  BY <1>2
<1> HIDE DEF o
<1>14. z \in Int
  BY <1>5
<1>15. Congruent(x * x, o * o)
  BY <1>1, <1>5, CongruentOps
<1>11. z \in Int /\ Congruent(z, o)
  BY <1>10, <1>14, <1>15
<1> HIDE DEF z
<1>16. f \in Int
  BY <1>2, <1>11
<1>17. Congruent(z * V, o * V)
  BY <1>1, <1>2, <1>11, CongruentTimes
<1>12. f \in Int /\ Congruent(f, g)
  BY <1>16, <1>17
<1> HIDE DEF f
<1>13. Congruent(f, V)
  BY <1>10, <1>12
<1>. QED  BY <1>2, <1>8, <1>9, <1>12, <1>13 DEF V

LEMMA EnergyConserved ==
    ASSUME Drawn, prm \in Integrable, NEW u \in Int, HasRoots(u), NEW y \in Int
    PROVE  Null(KineticChange(y) * TotalOf(Acting(prm), u)
                - (FermionGradient(u) + GaugeGradient(u)) * Velocity(y))
<1> DEFINE t == TotalOf(Acting(prm), u)
           g == FermionGradient(u) + GaugeGradient(u)
           k == KineticChange(y)
           v == Velocity(y)
           kt == k * t
           vg == v * g
           gv == g * v
<1>1. Staggered => MdagM_eo(u, prm.site) \in Positive
  BY DEF HasRoots
<1>2. t \in Int /\ g \in Int /\ Congruent(t, g)
  <2>1. FermionGradient(u) \in Int /\ GaugeGradient(u) \in Int /\ t \in Int /\ Congruent(t, g)
    BY <1>1, ForcesAddUp
  <2>. QED  BY <2>1
<1>3. k \in Int /\ v \in Int /\ Congruent(k, v)
  BY KineticChanges
<1> HIDE DEF t, g, k, v
<1>4. Congruent(kt, vg)
  BY <1>2, <1>3, CongruentOps
<1>5. kt \in Int /\ vg \in Int /\ vg = gv
  BY <1>2, <1>3
<1> HIDE DEF kt, vg, gv
<1>6. Null(kt - gv)
  BY <1>4, <1>5, DifferenceNull
<1>. QED  BY <1>6 DEF kt, gv, k, t, g, v

\* Of the energies NewEnergy is about only the last is that of the RHMC.
LEMMA MdEnergy ==
    ASSUME MotionInv, pc = "initialized", Staggered, ~prm.useGaugeOnly
    PROVE  (calc_s_fermion_rooted(rational, gf, phi, prm) - FermionAction(gf)) % P = 0
<1> DEFINE w == "MD"
           e == calc_s_fermion_rooted(rational, gf, phi, prm)
           a == FermionAction(gf)
<1>1. /\ TypeOK /\ HasRoots(gf) /\ RescaledFor(w, rational, gf)
      /\ w \in {"MD", "MET"}
  BY DEF MotionInv
<1>2. prm \in AllParameters /\ FieldsFit(phi, phi_mp) /\ gf \in Numbers
  BY <1>1 DEF TypeOK, FieldsFit
<1>3. gf \in Int
  BY <1>2, ModId
<1> HIDE DEF w
<1>4. EnergyIsAction(rational, gf)
  BY <1>1, <1>2, <1>3, NewEnergy
<1>5. ~prm.useMp
  BY <1>2, ParametersAre DEF Staggered
<1>6. EnergyAt(rational, gf) = e
  BY <1>5 DEF EnergyAt
<1>7. a = ActionOf(phi, phi_mp, gf)
  BY ActionIs
<1>8. e \in Int /\ a \in Int /\ Congruent(e, a)
  BY <1>4, <1>6, <1>7 DEF EnergyIsAction
<1> HIDE DEF e, a
<1>9. Null(e - a) /\ e - a \in Int
  BY <1>8, DifferenceNull
<1> DEFINE d == e - a
<1> HIDE DEF d
<1>10. d % P = 0
  BY <1>9, NullIs DEF d
<1>. QED  BY <1>10 DEF d, e, a

LEMMA MotionConserves == MotionInv => MotionConservesEnergy
<1> SUFFICES ASSUME MotionInv, pc = "initialized", ~IntegratorThrows(prm)
             PROVE  MotionConservesEnergy
  BY DEF MotionConservesEnergy
<1> DEFINE used == UNION {v.forces : v \in ToSet(Schedule[prm])}
           dK(mom) == Half * (KineticEnergy(mom + 1) - KineticEnergy(mom - 1))
<1>1. TypeOK /\ Drawn
  BY DEF MotionInv
<1>2. prm \in Integrable
  BY <1>1 DEF Integrable, TypeOK
<1>3. used = Acting(prm)
  BY <1>1, <1>2, ScheduleUses
<1>4. ASSUME NEW u \in {u \in Numbers : HasRoots(u)}, NEW mom \in Numbers
      PROVE  (dK(mom) * TotalOf(used, u)
              - (FermionGradient(u) + GaugeGradient(u)) * Velocity(mom)) % P = 0
  <2> DEFINE d == KineticChange(mom) * TotalOf(Acting(prm), u)
                  - (FermionGradient(u) + GaugeGradient(u)) * Velocity(mom)
  <2>1. u \in Int /\ HasRoots(u) /\ mom \in Int
    BY <1>4, ModId
  <2>2. Null(d)
    BY <1>1, <1>2, <2>1, EnergyConserved
  <2>3. d \in Int
    <3> DEFINE k == KineticChange(mom)
               t == TotalOf(Acting(prm), u)
               f == FermionGradient(u)
               g == GaugeGradient(u)
               v == Velocity(mom)
    <3>1. k \in Int /\ v \in Int
      BY <2>1, KineticChanges
    <3>2. Staggered => MdagM_eo(u, prm.site) \in Positive
      BY <2>1 DEF HasRoots
    <3>3. t \in Int /\ f \in Int /\ g \in Int
      BY <1>1, <2>1, <3>2, ForcesAddUp
    <3> HIDE DEF k, t, f, g, v
    <3>4. k * t - (f + g) * v \in Int
      BY <3>1, <3>3
    <3>. QED  BY <3>4 DEF k, t, f, g, v
  <2>4. dK(mom) * TotalOf(used, u) - (FermionGradient(u) + GaugeGradient(u)) * Velocity(mom) = d
    <3> HIDE DEF used
    <3>. QED  BY <1>3 DEF KineticChange
  <2> HIDE DEF d
  <2>5. d % P = 0
    BY <2>2, <2>3, NullIs
  <2>. QED  BY <2>4, <2>5
<1>5. Staggered /\ ~prm.useGaugeOnly =>
        (calc_s_fermion_rooted(rational, gf, phi, prm) - FermionAction(gf)) % P = 0
  BY MdEnergy
<1>6. \A u \in {u \in Numbers : HasRoots(u)}, mom \in Numbers :
        (dK(mom) * TotalOf(used, u)
         - (FermionGradient(u) + GaugeGradient(u)) * Velocity(mom)) % P = 0
  <2> HIDE DEF dK, used
  <2>. QED  BY <1>4
<1>. QED  BY <1>5, <1>6 DEF MotionConservesEnergy
-----------------------------------------------------------------------------
(***************************************************************************)
(* The theorems                                                            *)
(***************************************************************************)

(* In every step of the HMC and of the RHMC the momenta, pseudofermions,   *)
(* evolved fields and energies have been computed before they are used,    *)
(* and are the numbers and complex numbers of the model: for every set of  *)
(* parameters, every gauge field and every outcome of the generator.       *)
THEOREM TypeCorrect == Spec => []TypeOK
<1>1. MotionInv => TypeOK
  BY DEF MotionInv
<1>. QED  BY <1>1, MotionInvariant, PTL

(* The deltaH metropolis accepts or rejects by is the difference of one    *)
(* Hamiltonian at the two ends of the trajectory: with the energies of the *)
(* heatbath taken from the random vectors, mass preconditioned or rooted,  *)
(* and each rational approximation rescaled to its own gauge field.        *)
THEOREM DeltaHIsRight == Spec => []DeltaHIsEnergyDifference
<1>1. MotionInv => DeltaHIsEnergyDifference
  BY DEF MotionInv
<1>. QED  BY <1>1, MotionInvariant, PTL

(* On one, two or three timescales, with any numbers of steps and any      *)
(* choice of leapfrog and 2MN the code does not reject, the unrolled loops *)
(* of the integrator perform the updates of the nested scheme.             *)
THEOREM SchemeFollowed == Spec => []IntegratorFollowsScheme
<1>1. MotionInv => IntegratorFollowsScheme
  <2> SUFFICES ASSUME MotionInv, pc = "integrated"
               PROVE  Merged(Schedule[prm]) = Merged(NestedScheme(prm))
    BY DEF IntegratorFollowsScheme
  <2>1. prm \in Integrable
    BY DEF MotionInv
  <2>2. Schedule[prm] = integrator(prm)
    BY <2>1 DEF Schedule, Integrable
  <2>3. Merged(integrator(prm)) = Merged(NestedScheme(prm))
    BY <2>1, SameMerged
  <2>. QED  BY <2>2, <2>3
<1>. QED  BY <1>1, MotionInvariant, PTL

(* The same integrator, run from the evolved link with the momentum        *)
(* reversed, comes back to the link it started from with its momentum      *)
(* reversed, whatever the forces are.                                      *)
THEOREM MotionReversible == Spec => []IntegratorIsReversible
<1>1. MotionInv => IntegratorIsReversible
  <2> SUFFICES ASSUME MotionInv, pc = "integrated"
               PROVE  Evolved(new_u, (-new_p) % P) = [u |-> gf, p |-> (-p) % P]
    BY DEF IntegratorIsReversible
  <2>1. prm \in Integrable /\ Drawn /\ At(new_u, new_p) = Moved(gf, p)
    BY DEF MotionInv
  <2>2. gf \in Numbers /\ p \in Numbers
    BY DEF MotionInv, TypeOK
  <2>3. Evolved(gf, p) = Moved(gf, p)
    BY <2>1, <2>2, EvolvedIs
  <2>4. new_u = Evolved(gf, p).u /\ new_p = Evolved(gf, p).p
    BY <2>1, <2>3, AtIs
  <2>5. Returns(gf, p)
    BY <2>1, <2>2, EvolvedReturns
  <2>. QED  BY <2>4, <2>5 DEF Returns
<1>. QED  BY <1>1, MotionInvariant, PTL

(* The forces of a trajectory are, kind by kind added up, the derivative   *)
(* of the action the Metropolis test uses, and the links move by the       *)
(* derivative of the kinetic energy it uses: at every link and momentum,   *)
(* and with the coefficients the trajectory of the RHMC is run with.       *)
THEOREM EnergyIsConserved == Spec => []MotionConservesEnergy
BY MotionConserves, MotionInvariant, PTL
==============================================================================
