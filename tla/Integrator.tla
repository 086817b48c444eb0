----------------------------- MODULE Integrator -----------------------------
(***************************************************************************)
(* The integrators of the molecular dynamics: the sequence of updates the  *)
(* leapfrog and the second-order minimal-norm (2MN) integrator perform on  *)
(* one to three timescales, loop by loop as the code unrolls them.         *)
(*                                                                         *)
(* A parameter set prm has the steps, integrator and lambda of every       *)
(* timescale, numTimescales, useMp and useGaugeOnly.  Times are integers:  *)
(* lambda is in units of 1/LambdaUnit and tau is chosen for the parameter  *)
(* set so that every step width of it is an integer.                       *)
(* The Wrong_ definitions are plausible mistakes, not part of the model.   *)
(***************************************************************************)
EXTENDS Integers, SequencesExt

CONSTANTS LambdaUnit,   \* 1/LambdaUnit is the unit of the lambdas
          Lambda        \* lambda of timescale i is Lambda[i + 1]

ASSUME LambdaAssumption ==
    /\ LambdaUnit \in Nat \ {0}
    /\ Lambda \in Seq(1 .. LambdaUnit \div 2) /\ Len(Lambda) = 3

TotalForce == {"gauge", "det"}
Forces == {"gauge", "det", "det_mp", "detratio"}

(* Updates: of the momenta by a set of forces, of the gauge field.         *)
Kick(forces, eps) == <<[forces |-> forces, eps |-> eps]>>
md_update_gaugefield(eps) == <<[forces |-> {}, eps |-> eps]>>
md_update_gaugemomentum_gauge(eps) == Kick({"gauge"}, eps)
md_update_gaugemomentum_fermion(eps) == Kick({"det"}, eps)
md_update_gaugemomentum_fermion_mp(eps) == Kick({"det_mp"}, eps)
md_update_gaugemomentum_detratio(eps) == Kick({"detratio"}, eps)

(* for (k = first; k < last; k++) Body(k) *)
For(first, last, Body(_)) == FlattenSeq([i \in 1 .. last - first |-> Body(first + i - 1)])

(* The steps of the fastest timescale in a trajectory.                     *)
StepsInAll(steps) == FoldLeft(LAMBDA x, y : x * y, 1, steps)

getTau(prm) == 8 * LambdaUnit * StepsInAll(prm.steps)
n(prm, i) == prm.steps[i + 1]
lambda(prm, i) == Lambda[i + 1]
md_update_gaugemomentum(prm, eps) ==
    Kick(IF prm.useGaugeOnly THEN {"gauge"} ELSE TotalForce, eps)
-----------------------------------------------------------------------------
(* Mistake: the loop takes all the steps, and its last kick is not halved. *)
Wrong_leapfrog_1ts(prm) ==
    LET n0 == n(prm, 0)
        deltaTau0 == getTau(prm) \div n0
    IN md_update_gaugemomentum(prm, deltaTau0 \div 2)
       \o For(0, n0, LAMBDA k : md_update_gaugefield(deltaTau0)
                                \o md_update_gaugemomentum(prm, deltaTau0))

leapfrog_1ts(prm) ==
    LET n0 == n(prm, 0)
        deltaTau0 == getTau(prm) \div n0
        deltaTau0_half == deltaTau0 \div 2
    IN md_update_gaugemomentum(prm, deltaTau0_half)
       \o For(1, n0, LAMBDA k : md_update_gaugefield(deltaTau0)
                                \o md_update_gaugemomentum(prm, deltaTau0))
       \o md_update_gaugefield(deltaTau0)
       \o md_update_gaugemomentum(prm, deltaTau0_half)

(* Mistake: with a single outer step the gauge kick is not halved. *)
Wrong_leapfrog_2ts(prm) ==
    LET n0 == n(prm, 0)
        n1 == n(prm, 1)
        deltaTau1 == getTau(prm) \div n1
        deltaTau0 == deltaTau1 \div n0
    IN md_update_gaugemomentum_fermion(deltaTau1 \div 2)
       \o md_update_gaugemomentum_gauge(deltaTau0 \div 2)
       \o For(0, n1, LAMBDA k :
             (IF k = 0 THEN <<>> ELSE md_update_gaugemomentum_fermion(deltaTau1))
             \o For(0, n0, LAMBDA l : md_update_gaugefield(deltaTau0)
                  \o md_update_gaugemomentum_gauge(
                       IF l = n0 - 1 /\ k = n1 - 1 /\ k > 0 THEN deltaTau0 \div 2
                       ELSE deltaTau0)))
       \o md_update_gaugemomentum_fermion(deltaTau1 \div 2)

leapfrog_2ts(prm) ==
    LET n0 == n(prm, 0)
        n1 == n(prm, 1)
        deltaTau1 == getTau(prm) \div n1
        deltaTau0 == deltaTau1 \div n0
        deltaTau0_half == deltaTau0 \div 2
        deltaTau1_half == deltaTau1 \div 2
        GaugeStep(last) == md_update_gaugefield(deltaTau0)
            \o md_update_gaugemomentum_gauge(IF last THEN deltaTau0_half ELSE deltaTau0)
    IN md_update_gaugemomentum_fermion(deltaTau1_half)
       \o For(0, n0, LAMBDA l :
             (IF l = 0 THEN md_update_gaugemomentum_gauge(deltaTau0_half) ELSE <<>>)
             \o GaugeStep(l = n0 - 1 /\ n1 = 1))
       \o For(1, n1, LAMBDA k :
             md_update_gaugemomentum_fermion(deltaTau1)
             \o For(0, n0, LAMBDA l : GaugeStep(l = n0 - 1 /\ k = n1 - 1)))
       \o md_update_gaugemomentum_fermion(deltaTau1_half)

leapfrog_3ts(prm) ==
    LET n0 == n(prm, 0)
        n1 == n(prm, 1)
        n2 == n(prm, 2)
        deltaTau2 == getTau(prm) \div n2
        deltaTau1 == deltaTau2 \div n1
        deltaTau0 == deltaTau1 \div n0
        deltaTau0_half == deltaTau0 \div 2
        deltaTau1_half == deltaTau1 \div 2
        deltaTau2_half == deltaTau2 \div 2
        GaugeStep(last) == md_update_gaugefield(deltaTau0)
            \o md_update_gaugemomentum_gauge(IF last THEN deltaTau0_half ELSE deltaTau0)
        FermionStep(last) ==
            md_update_gaugemomentum_fermion_mp(IF last THEN deltaTau1_half ELSE deltaTau1)
    IN md_update_gaugemomentum_detratio(deltaTau2_half)
       \o For(0, n1, LAMBDA l :
             (IF l = 0 THEN md_update_gaugemomentum_fermion_mp(deltaTau1_half) ELSE <<>>)
             \o For(0, n0, LAMBDA j :
                   (IF l = 0 /\ j = 0 THEN md_update_gaugemomentum_gauge(deltaTau0_half)
                    ELSE <<>>)
                   \o GaugeStep(j = n0 - 1 /\ l = n1 - 1 /\ n2 = 1))
             \o FermionStep(l = n1 - 1 /\ n2 = 1))
       \o For(1, n2, LAMBDA k :
             md_update_gaugemomentum_detratio(deltaTau2)
             \o For(0, n1, LAMBDA l :
                   For(0, n0, LAMBDA j : GaugeStep(j = n0 - 1 /\ l = n1 - 1 /\ k = n2 - 1))
                   \o FermionStep(l = n1 - 1 /\ k = n2 - 1)))
       \o md_update_gaugemomentum_detratio(deltaTau2_half)
-----------------------------------------------------------------------------
twomn_1ts(prm) ==
    LET n0 == n(prm, 0)
        deltaTau0 == getTau(prm) \div n0
        deltaTau0_half == deltaTau0 \div 2
        lambda_times_deltaTau0 == (deltaTau0 * lambda(prm, 0)) \div LambdaUnit
        one_minus_2_lambda_times_deltaTau0 == deltaTau0 - 2 * lambda_times_deltaTau0
        Inner == md_update_gaugefield(deltaTau0_half)
                 \o md_update_gaugemomentum(prm, one_minus_2_lambda_times_deltaTau0)
                 \o md_update_gaugefield(deltaTau0_half)
    IN md_update_gaugemomentum(prm, lambda_times_deltaTau0)
       \o Inner
       \o For(1, n0, LAMBDA k :
             md_update_gaugemomentum(prm, 2 * lambda_times_deltaTau0) \o Inner)
       \o md_update_gaugemomentum(prm, lambda_times_deltaTau0)

(* The steps on the lowest of several timescales: deltaTau0 is half of     *)
(* what the leapfrog would take, and the last kick of a group is halved    *)
(* only at the end of the trajectory.                                      *)
twomn_gauge_steps(prm, deltaTau0, LastOne(_)) ==
    LET n0 == n(prm, 0)
        lambda0_times_deltaTau0 == (deltaTau0 * lambda(prm, 0)) \div LambdaUnit
    IN For(0, n0, LAMBDA j :
             md_update_gaugefield(deltaTau0 \div 2)
             \o md_update_gaugemomentum_gauge(deltaTau0 - 2 * lambda0_times_deltaTau0)
             \o md_update_gaugefield(deltaTau0 \div 2)
             \o md_update_gaugemomentum_gauge(IF LastOne(j) THEN lambda0_times_deltaTau0
                                              ELSE 2 * lambda0_times_deltaTau0))

twomn_2ts(prm) ==
    LET n0 == n(prm, 0)
        n1 == n(prm, 1)
        deltaTau1 == getTau(prm) \div n1
        deltaTau0 == deltaTau1 \div (2 * n0)
        lambda0_times_deltaTau0 == (deltaTau0 * lambda(prm, 0)) \div LambdaUnit
        lambda1_times_deltaTau1 == (deltaTau1 * lambda(prm, 1)) \div LambdaUnit
        Gauge(LastOne(_)) == twomn_gauge_steps(prm, deltaTau0, LastOne)
        Middle == md_update_gaugemomentum_fermion(deltaTau1 - 2 * lambda1_times_deltaTau1)
    IN md_update_gaugemomentum_fermion(lambda1_times_deltaTau1)
       \o md_update_gaugemomentum_gauge(lambda0_times_deltaTau0)
       \o Gauge(LAMBDA l : FALSE)
       \o Middle
       \o Gauge(LAMBDA l : l = n0 - 1 /\ n1 = 1)
       \o For(1, n1, LAMBDA k :
             md_update_gaugemomentum_fermion(2 * lambda1_times_deltaTau1)
             \o Gauge(LAMBDA l : FALSE)
             \o Middle
             \o Gauge(LAMBDA l : l = n0 - 1 /\ k = n1 - 1))
       \o md_update_gaugemomentum_fermion(lambda1_times_deltaTau1)

twomn_3ts(prm) ==
    LET n0 == n(prm, 0)
        n1 == n(prm, 1)
        n2 == n(prm, 2)
        deltaTau2 == getTau(prm) \div n2
        deltaTau1 == deltaTau2 \div (2 * n1)
        deltaTau0 == deltaTau1 \div (2 * n0)
        lambda0_times_deltaTau0 == (deltaTau0 * lambda(prm, 0)) \div LambdaUnit
        lambda1_times_deltaTau1 == (deltaTau1 * lambda(prm, 1)) \div LambdaUnit
        lambda2_times_deltaTau2 == (deltaTau2 * lambda(prm, 2)) \div LambdaUnit
        Gauge(LastOne(_)) == twomn_gauge_steps(prm, deltaTau0, LastOne)
        \* n1 steps of the heavy determinant; Ends(l) says whether step l ends the trajectory
        Fermion(Ends(_)) == For(0, n1, LAMBDA l :
             Gauge(LAMBDA j : FALSE)
             \o md_update_gaugemomentum_fermion_mp(deltaTau1 - 2 * lambda1_times_deltaTau1)
             \o Gauge(LAMBDA j : j = n0 - 1 /\ Ends(l))
             \o md_update_gaugemomentum_fermion_mp(IF Ends(l) THEN lambda1_times_deltaTau1
                                                   ELSE 2 * lambda1_times_deltaTau1))
        Middle == md_update_gaugemomentum_detratio(deltaTau2 - 2 * lambda2_times_deltaTau2)
    IN md_update_gaugemomentum_detratio(lambda2_times_deltaTau2)
       \o md_update_gaugemomentum_fermion_mp(lambda1_times_deltaTau1)
       \o md_update_gaugemomentum_gauge(lambda0_times_deltaTau0)
       \o Fermion(LAMBDA l : FALSE)
       \o Middle
       \o Fermion(LAMBDA l : l = n1 - 1 /\ n2 = 1)
       \o For(1, n2, LAMBDA k :
             md_update_gaugemomentum_detratio(2 * lambda2_times_deltaTau2)
             \o Fermion(LAMBDA l : FALSE)
             \o Middle
             \o Fermion(LAMBDA l : l = n1 - 1 /\ k = n2 - 1))
       \o md_update_gaugemomentum_detratio(lambda2_times_deltaTau2)
-----------------------------------------------------------------------------
(* check_integrator_params: the exceptions thrown before anything is done. *)
check_integrator_params_throws(prm) ==
    \/ prm.numTimescales \in {2, 3} /\ \E i \in 2 .. prm.numTimescales : prm.integrator[i] # prm.integrator[1]
    \/ \E i \in 1 .. prm.numTimescales : prm.steps[i] = 0
    \/ prm.numTimescales = 3 /\ ~prm.useMp
    \/ prm.numTimescales = 2 /\ prm.useMp

(* leapfrog and twomn, each in the form with and without the field phi_mp, *)
(* implement only some numbers of timescales.                              *)
NotImplemented(prm) == IF prm.useMp THEN prm.numTimescales \in {1, 2}
                                    ELSE prm.numTimescales = 3

IntegratorThrows(prm) == check_integrator_params_throws(prm) \/ NotImplemented(prm)

leapfrog(prm) == CASE prm.numTimescales = 1 -> leapfrog_1ts(prm)
                   [] prm.numTimescales = 2 -> leapfrog_2ts(prm)
                   [] prm.numTimescales = 3 -> leapfrog_3ts(prm)

twomn(prm) == CASE prm.numTimescales = 1 -> twomn_1ts(prm)
                [] prm.numTimescales = 2 -> twomn_2ts(prm)
                [] prm.numTimescales = 3 -> twomn_3ts(prm)

integrator(prm) == IF prm.integrator[1] = "leapfrog" THEN leapfrog(prm) ELSE twomn(prm)
-----------------------------------------------------------------------------
(***************************************************************************)
(* Reference: the nested scheme the comments of the code refer to.  A step *)
(* of a timescale surrounds, or interleaves, its kicks with m steps of the *)
(* timescale below it, the gauge field being below all of them.            *)
(***************************************************************************)
Repeat(m, S) == FlattenSeq([i \in 1 .. m |-> S])

LeapfrogStep(F, eps, m, Lower(_)) ==
    Kick(F, eps \div 2) \o Repeat(m, Lower(eps \div m)) \o Kick(F, eps \div 2)

TwomnStep(F, i, eps, m, Lower(_)) ==
    LET outer == (eps * Lambda[i]) \div LambdaUnit
        half == Repeat(m, Lower((eps \div 2) \div m))
    IN Kick(F, outer) \o half \o Kick(F, eps - 2 * outer) \o half \o Kick(F, outer)

ForcesOf(prm) ==
    CASE prm.numTimescales = 1 -> <<IF prm.useGaugeOnly THEN {"gauge"} ELSE TotalForce>>
      [] prm.numTimescales = 2 -> <<{"gauge"}, {"det"}>>
      [] prm.numTimescales = 3 -> <<{"gauge"}, {"det_mp"}, {"detratio"}>>

NestedScheme(prm) ==
    LET F == ForcesOf(prm)
        Step(i, eps, m, Lower(_)) ==
            IF prm.integrator[1] = "leapfrog" THEN LeapfrogStep(F[i], eps, m, Lower)
                                              ELSE TwomnStep(F[i], i, eps, m, Lower)
        Step0(eps) == Step(1, eps, 1, md_update_gaugefield)
        Step1(eps) == Step(2, eps, prm.steps[1], Step0)
        Step2(eps) == Step(3, eps, prm.steps[2], Step1)
        top == prm.steps[prm.numTimescales]
        eps == getTau(prm) \div top
    IN Repeat(top, CASE prm.numTimescales = 1 -> Step0(eps)
                     [] prm.numTimescales = 2 -> Step1(eps)
                     [] prm.numTimescales = 3 -> Step2(eps))

(* Kicks without an update of the gauge field between them commute and add *)
(* up: what counts is, for every update of the gauge field, its width and  *)
(* the time every force has acted before it.                               *)
Merged(schedule) ==
    LET none == [f \in Forces |-> 0]
        Add(acc, u) ==
            IF u.forces = {}
            THEN [kicks |-> none, done |-> Append(acc.done, <<acc.kicks, u.eps>>)]
            ELSE [acc EXCEPT !.kicks = [f \in Forces |->
                                          acc.kicks[f] + IF f \in u.forces THEN u.eps ELSE 0]]
    IN FoldLeft(Add, [kicks |-> none, done |-> <<>>], schedule)
==============================================================================
