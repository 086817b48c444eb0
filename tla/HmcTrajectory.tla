---------------------------- MODULE HmcTrajectory ----------------------------
(***************************************************************************)
(* One step of the Hybrid Monte Carlo, for Wilson fermions                 *)
(* (perform_hmc_step) and for rooted staggered ones (perform_rhmc_step):   *)
(* the heatbath of the pseudofermions, the molecular dynamics and the      *)
(* Metropolis test, again and again on the same gauge field.  The          *)
(* Hamiltonian appears in three disguises that no single function          *)
(* compares: as the norm of the random vectors the pseudofermions are made *)
(* of, as the forces, and as the energies of the Metropolis test.  In the  *)
(* RHMC each of them is a rational approximation of its own.               *)
(*                                                                         *)
(* The fields are those of a lattice of one link: the link and its         *)
(* momentum are numbers, a pseudofermion is a complex number and the       *)
(* fermion matrix a factor, for Wilson fermions kappa * u + i * mubar.     *)
(* The solvers are exact.  Which field, which matrix, which mass, which    *)
(* coefficients and which sign go where is the code's.                     *)
(*                                                                         *)
(* Definitions named Wrong_... or Incomplete_... are not part of the       *)
(* model: each is a plausible mistake in the definition that follows.      *)
(***************************************************************************)
EXTENDS RootedStaggered, Integrator

CONSTANTS
    Kappa, Mubar,   \* of the light quark and of the preconditioning one
    Beta, C1,       \* gauge coupling, coefficient of the rectangles
    Cases,          \* what is tried together, see HmcAssumption
    NoField         \* a field that is not there or not initialized

Masses == {"light", "mp"}

ASSUME HmcAssumption ==
    /\ Kappa \in [Masses -> Numbers] /\ Mubar \in [Masses -> Numbers \ {0}]
    /\ Beta \in Numbers /\ C1 \in Numbers
    /\ \A c \in Cases :
          /\ c.algorithm \in {"hmc", "rhmc"}
          /\ c.algorithm = "rhmc" => c.tastes \subseteq 1 .. 3
          /\ c.steps \subseteq Nat      \* integration steps of a timescale
          /\ c.maxSteps \in Nat         \* bound: those of all timescales multiplied
          /\ c.algorithm = "hmc" => c.solvers \subseteq {"cg", "bicgstab"}
          /\ c.rectangles \subseteq BOOLEAN  \* in the gauge action or not
          /\ c.links \subseteq Numbers       \* gauge fields to start from
          /\ c.draws \subseteq Complex       \* what the generator delivers
    /\ NoField \notin Complex

(* The parameter sets that get as far as the first trajectory:             *)
(* print_info_hmc refuses the pure gauge theory with several timescales,   *)
(* checkRhmcParameters refuses mass preconditioning.                       *)
HmcParameters(c, ts) ==
                     [algorithm     : {"hmc"},
                      numTimescales : {ts},
                      steps         : {s \in [1 .. ts -> c.steps] : StepsInAll(s) <= c.maxSteps},
                      integrator    : [1 .. ts -> {"leapfrog", "twomn"}],
                      useMp         : BOOLEAN,
                      useGaugeOnly  : IF ts = 1 THEN BOOLEAN ELSE {FALSE},
                      useRectangles : c.rectangles,
                      solver        : c.solvers]

RhmcParameters(c, ts) ==
                     [algorithm     : {"rhmc"},
                      numTimescales : {ts},
                      steps         : {s \in [1 .. ts -> c.steps] : StepsInAll(s) <= c.maxSteps},
                      integrator    : [1 .. ts -> {"leapfrog", "twomn"}],
                      useMp         : {FALSE},
                      useGaugeOnly  : IF ts = 1 THEN BOOLEAN ELSE {FALSE},
                      useRectangles : c.rectangles,
                      num_tastes    : c.tastes,
                      num_pseudofermions : {1, 2},
                      conservative  : BOOLEAN,
                      site          : {"EVEN", "ODD"}]

ParametersOf(c) ==
    UNION {IF c.algorithm = "hmc" THEN HmcParameters(c, ts) ELSE RhmcParameters(c, ts) :
           ts \in 1 .. 3}
AllParameters == UNION {ParametersOf(c) : c \in Cases}

(* What the generator delivers where the parameters are q. *)
Draws(q) == UNION {c.draws : c \in {c \in Cases : q \in ParametersOf(c)}}

VARIABLES
    prm,                                        \* the input parameters
    gf, p,                                      \* gauge field, momenta
    new_u, new_p,                               \* the same, evolved
    phi, phi_mp,                                \* pseudofermions; for the RHMC
                                                \* phi is a sequence of them
    rational,                                   \* coefficients phi comes with
    spinor_energy_init, spinor_energy_init_mp,  \* norms they started from
    obs,                                        \* hmc_observables
    gf_start,                                   \* gf before the step (history)
    pc

fermions == <<phi, phi_mp, spinor_energy_init, spinor_energy_init_mp>>

vars == <<prm, gf, p, new_u, new_p, fermions, rational, obs, gf_start, pc>>

Staggered == prm.algorithm = "rhmc"
-----------------------------------------------------------------------------
(***************************************************************************)
(* Fermion matrix, solvers, actions and forces                             *)
(***************************************************************************)
Qplus(u, m) == <<(Kappa[m] * u) % P, Mubar[m]>>
Qminus(u, m) == Conj(Qplus(u, m))
QplusQminus(u, m) == Times(Qplus(u, m), Qminus(u, m))

(* Y = Qplus^-1 source and X = (Qplus Qminus)^-1 source, the way the       *)
(* solver that was asked for gets at them.                                 *)
Inverted(u, source, m) ==
    IF prm.solver = "cg"
    THEN LET solution == Over(source, QplusQminus(u, m))
         IN [Y |-> Times(Qminus(u, m), solution), X |-> solution]
    ELSE LET solution == Over(source, Qplus(u, m))
         IN [Y |-> solution, X |-> Over(solution, Qminus(u, m))]

calc_s_fermion(u, f, m) == SquareNorm(Inverted(u, f, m).Y)
calc_s_fermion_mp(u, f) ==
    SquareNorm(Inverted(u, Times(Qplus(u, "mp"), f), "light").Y)

c0 == IF prm.useRectangles THEN 1 - 8 * C1 ELSE 1
measurePlaquette(u) == (u * u) % P
measureRectangles(u) == (u * u * u) % P

gauge_force(u) == -Beta * c0 * 2 * u
gauge_force_tlsym(u) == -Beta * C1 * 3 * u * u
calc_gauge_force(u) ==
    gauge_force(u) + IF prm.useRectangles THEN gauge_force_tlsym(u) ELSE 0

fermion_force(Y, X, m) == -2 * Kappa[m] * Re(Times(Conj(Y), X))

calc_fermion_force(u, f, m) ==
    LET inv == Inverted(u, f, m) IN fermion_force(inv.Y, inv.X, m)

calc_fermion_force_detratio(u, f) ==
    LET inv == Inverted(u, Times(Qplus(u, "mp"), f), "light")
    IN fermion_force(inv.Y, inv.X, "light") + fermion_force(Scale(-1, f), inv.X, "mp")

(* The forces the kinds of momentum update of the integrator stand for. *)
ForceOf(f, u) ==
    CASE f = "gauge"    -> calc_gauge_force(u)
      [] f = "det"      -> IF Staggered THEN calc_fermion_force_rooted(rational, u, phi, prm)
                           ELSE calc_fermion_force(u, phi, "light")
      [] f = "det_mp"   -> calc_fermion_force(u, phi, "mp")
      [] f = "detratio" -> calc_fermion_force_detratio(u, phi_mp)

TotalOf(forces, u) == MapThenSumSet(LAMBDA f : ForceOf(f, u), forces)

(* The kernels of the RHMC exponentiate half of the momenta.               *)
Velocity(mom) == IF Staggered THEN Half * mom ELSE mom

(* One update of the integrator's schedule. *)
Evolve(s, update) ==
    IF update.forces = {}
    THEN [s EXCEPT !.u = (s.u + update.eps * Velocity(s.p)) % P]
    ELSE [s EXCEPT !.p = (s.p - update.eps * TotalOf(update.forces, s.u)) % P]

(* The schedules of all parameter sets the integrator does not reject.     *)
Schedule == [q \in {q \in AllParameters : ~IntegratorThrows(q)} |-> integrator(q)]

Evolved(u, mom) == FoldLeft(Evolve, [u |-> u, p |-> mom], Schedule[prm])
-----------------------------------------------------------------------------
(***************************************************************************)
(* perform_hmc_step                                                        *)
(***************************************************************************)
(* The staggered matrix is positive for every gauge field.  Here this is a  *)
(* condition on the fields the chain comes by.                             *)
HasRoots(u) == Staggered => MdagM_eo(u, prm.site) \in Positive

Init ==
    /\ \E c \in Cases : prm \in ParametersOf(c) /\ gf \in c.links
    /\ HasRoots(gf)
    /\ gf_start = gf
    /\ p = NoField /\ new_u = NoField /\ new_p = NoField
    /\ phi = NoField /\ phi_mp = NoField /\ rational = NoField
    /\ spinor_energy_init = 0 /\ spinor_energy_init_mp = 0
    /\ obs = NoField
    /\ pc = "start"

(* Momenta and pseudofermions are drawn; the energies of the pseudofermions *)
(* are those of the random vectors.  The pure gauge theory has none.       *)
Heatbath_gauge_only ==
    /\ prm.useGaugeOnly
    /\ UNCHANGED fermions

init_spinorfield ==
    /\ ~prm.useGaugeOnly /\ ~prm.useMp /\ ~Staggered
    /\ \E initial \in Draws(prm) :
          /\ spinor_energy_init' = SquareNorm(initial)
          /\ phi' = Times(Qplus(gf, "light"), initial)
    /\ UNCHANGED <<phi_mp, spinor_energy_init_mp>>

(* The solution of Qplus_mp phi_mp = Qplus initial, by BiCGstab or, when   *)
(* that fails, by CG.                                                      *)
md_update_spinorfield_mp(u, initial) ==
    LET source == Times(Qplus(u, "light"), initial)
    IN {Over(source, Qplus(u, "mp")),
        Times(Qminus(u, "mp"), Over(source, QplusQminus(u, "mp")))}

(* Mistake: the field of the ratio is never computed. *)
Incomplete_init_spinorfield_mp ==
    /\ ~prm.useGaugeOnly /\ prm.useMp
    /\ \E initial \in Draws(prm) :
          /\ spinor_energy_init' = SquareNorm(initial)
          /\ phi' = Times(Qplus(gf, "mp"), initial)
    /\ UNCHANGED <<phi_mp, spinor_energy_init_mp>>

init_spinorfield_mp ==
    /\ ~prm.useGaugeOnly /\ prm.useMp
    /\ \E initial \in Draws(prm), initial_mp \in Draws(prm) :
          /\ spinor_energy_init' = SquareNorm(initial)
          /\ phi' = Times(Qplus(gf, "mp"), initial)
          /\ spinor_energy_init_mp' = SquareNorm(initial_mp)
          /\ phi_mp' \in md_update_spinorfield_mp(gf, initial_mp)

(* The RHMC draws phi with the coefficients of the heatbath and evolves it *)
(* with those of the molecular dynamics, both scaled to the spectrum on gf. *)
init_spinorfield_rooted ==
    /\ ~prm.useGaugeOnly /\ Staggered
    /\ \E initial \in [1 .. prm.num_pseudofermions -> Draws(prm)] :
          /\ spinor_energy_init' = SumOfFields(initial, SquareNorm) % P
          /\ LET heatbath == Rescale_Coefficients(Approximation("HB", prm),
                                                  maxEigenvalue(gf, prm))
             IN phi' = [j \in DOMAIN initial |-> RationalOf(heatbath, gf, initial[j], prm)]
    /\ UNCHANGED <<phi_mp, spinor_energy_init_mp>>

Rescale_for_md ==
    IF Staggered
    THEN rational' = Rescale_Coefficients(Approximation("MD", prm), maxEigenvalue(gf, prm))
    ELSE UNCHANGED rational

Heatbath ==
    /\ pc = "start"
    /\ \E draw \in Draws(prm) : p' = Re(draw)
    /\ Rescale_for_md
    /\ Heatbath_gauge_only \/ init_spinorfield \/ init_spinorfield_mp \/ init_spinorfield_rooted
    /\ gf_start' = gf
    /\ pc' = "initialized"
    /\ UNCHANGED <<prm, gf, new_u, new_p, obs>>

(* u and p are copied and the copies evolved. *)
Integrate ==
    /\ pc = "initialized" /\ ~IntegratorThrows(prm)
    /\ LET s == Evolved(gf, p) IN new_u' = s.u /\ new_p' = s.p
    /\ pc' = "integrated"
    /\ UNCHANGED <<prm, gf, p, fermions, rational, obs, gf_start>>

(* The spectrum is wider than the approximations: the exception ends the   *)
(* program, in the heatbath or before the Metropolis test.                 *)
RangeExceeded ==
    /\ Staggered
    /\ pc \in {"start", "integrated"}
    /\ pc' = "aborted"
    /\ UNCHANGED <<prm, gf, p, new_u, new_p, fermions, rational, obs, gf_start>>

(* The exception leaves perform_hmc_step and ends the program. *)
IntegratorFails ==
    /\ pc = "initialized" /\ IntegratorThrows(prm)
    /\ pc' = "aborted"
    /\ UNCHANGED <<prm, gf, p, new_u, new_p, fermions, rational, obs, gf_start>>

deltaH_gauge ==
    LET plaq == measurePlaquette(gf)
        plaq_new == measurePlaquette(new_u)
        rect == measureRectangles(gf)
        rect_new == measureRectangles(new_u)
    IN IF prm.useRectangles
       THEN -Beta * (c0 * (plaq - plaq_new) + C1 * (rect - rect_new))
       ELSE -(plaq - plaq_new) * Beta

deltaH_fermion ==
    IF prm.useGaugeOnly THEN 0
    ELSE IF prm.useMp
    THEN (spinor_energy_init - calc_s_fermion(new_u, phi, "mp"))
         + (spinor_energy_init_mp - calc_s_fermion_mp(new_u, phi_mp))
    ELSE IF Staggered
    THEN spinor_energy_init - calc_s_fermion_rooted(rational', new_u, phi, prm)
    ELSE spinor_energy_init - calc_s_fermion(new_u, phi, "light")

(* The momenta of the staggered code have half the energy.                 *)
KineticEnergy(mom) ==
    LET p2 == mom * mom IN Half * (IF Staggered THEN Half * p2 ELSE p2)

(* Mistake: the range the spectrum had before the integration is kept. *)
Wrong_Rescale_for_metropolis ==
    IF Staggered
    THEN rational' = Rescale_Coefficients(Approximation("MET", prm), maxEigenvalue(gf, prm))
    ELSE UNCHANGED rational

Rescale_for_metropolis ==
    IF Staggered
    THEN rational' = Rescale_Coefficients(Approximation("MET", prm), maxEigenvalue(new_u, prm))
    ELSE UNCHANGED rational

Observables(u) == [plaq |-> measurePlaquette(u), poly |-> u,
                   rectangles |-> IF prm.useRectangles THEN measureRectangles(u) ELSE 0]

(* The step is accepted with probability min(1, exp(deltaH)): either way,  *)
(* unless deltaH is zero.                                                  *)
metropolis ==
    /\ pc = "integrated" /\ HasRoots(new_u)
    /\ Rescale_for_metropolis
    /\ LET deltaH == (deltaH_gauge + (KineticEnergy(p) - KineticEnergy(new_p)) + deltaH_fermion) % P
       IN \E accept \in IF deltaH = 0 THEN {1} ELSE {0, 1} :
             obs' = [accept |-> accept, deltaH |-> deltaH,
                     of |-> Observables(IF accept = 1 THEN new_u ELSE gf)]
    /\ pc' = "tested"
    /\ UNCHANGED <<prm, gf, p, new_u, new_p, fermions, gf_start>>

(* Mistake: the evolved configuration is kept even if it was rejected. *)
Wrong_AcceptOrReject ==
    /\ pc = "tested"
    /\ gf' = new_u
    /\ pc' = "finished"
    /\ UNCHANGED <<prm, p, new_u, new_p, fermions, rational, obs, gf_start>>

AcceptOrReject ==
    /\ pc = "tested"
    /\ gf' = IF obs.accept = 1 THEN new_u ELSE gf
    /\ pc' = "finished"
    /\ UNCHANGED <<prm, p, new_u, new_p, fermions, rational, obs, gf_start>>

(* The fields are local to the step: the next one starts from gf alone. *)
NextStep ==
    /\ pc = "finished"
    /\ p' = NoField /\ new_u' = NoField /\ new_p' = NoField
    /\ phi' = NoField /\ phi_mp' = NoField /\ rational' = NoField
    /\ spinor_energy_init' = 0 /\ spinor_energy_init_mp' = 0
    /\ obs' = NoField
    /\ gf_start' = gf
    /\ pc' = "start"
    /\ UNCHANGED <<prm, gf>>

Aborted == pc = "aborted" /\ UNCHANGED vars

Next == Heatbath \/ Integrate \/ IntegratorFails \/ RangeExceeded \/ metropolis
        \/ AcceptOrReject \/ NextStep \/ Aborted

Spec == Init /\ [][Next]_vars
-----------------------------------------------------------------------------
(***************************************************************************)
(* Properties                                                              *)
(***************************************************************************)

(* Every field a part of the step works with has been given a value by the *)
(* parts before it, for the combination of parameters at hand.             *)
TypeOK ==
    /\ prm \in AllParameters
    /\ gf \in Numbers /\ gf_start \in Numbers
    /\ spinor_energy_init \in Numbers /\ spinor_energy_init_mp \in Numbers
    /\ pc \in {"start", "initialized", "integrated", "tested", "finished", "aborted"}
    /\ pc \notin {"start", "aborted"} =>
          /\ p \in Numbers
          /\ phi \in IF prm.useGaugeOnly THEN {NoField}
                    ELSE IF Staggered THEN [1 .. prm.num_pseudofermions -> Complex]
                    ELSE Complex
          /\ phi_mp \in IF ~prm.useGaugeOnly /\ prm.useMp THEN Complex ELSE {NoField}
    /\ pc \in {"integrated", "tested", "finished"} => new_u \in Numbers /\ new_p \in Numbers
    /\ pc \in {"tested", "finished"} => obs.accept \in {0, 1} /\ obs.deltaH \in Numbers

(* Unrolled and with their kicks merged across the loops, the integrators  *)
(* still perform the nested scheme: every force acts for its share of time *)
(* before every update of the gauge field.                                 *)
IntegratorFollowsScheme ==
    pc = "integrated" => Merged(Schedule[prm]) = Merged(NestedScheme(prm))

(* With the momenta reversed the integrator leads back to where it came    *)
(* from; the Metropolis test is only correct for such an integrator.       *)
IntegratorIsReversible ==
    pc = "integrated" =>
        Evolved(new_u, (-new_p) % P) = [u |-> gf, p |-> (-p) % P]

(* The fermion action the molecular dynamics are to follow, and its        *)
(* derivative by the link.                                                 *)
FermionAction(u) ==
    LET N(m) == SquareNorm(Qplus(u, m))
    IN IF prm.useGaugeOnly THEN 0
       ELSE IF Staggered
       THEN SumOfFields(phi, SquareNorm) * pow[MdagM_eo(u, prm.site)][Exponent("MET", prm)]
       ELSE IF prm.useMp
       THEN SquareNorm(phi) * Reciprocal[N("mp")]
            + SquareNorm(phi_mp) * N("mp") * Reciprocal[N("light")]
       ELSE SquareNorm(phi) * Reciprocal[N("light")]

FermionGradient(u) ==
    LET N(m) == SquareNorm(Qplus(u, m))
        dN(m) == 2 * Kappa[m] * Kappa[m] * u
        Quotient(x, y) == x * Reciprocal[y % P]
        det(m) == -Quotient(SquareNorm(phi) * dN(m), N(m) * N(m))
        detratio == Quotient(SquareNorm(phi_mp) * (dN("mp") * N("light") - N("mp") * dN("light")),
                             N("light") * N("light"))
        Pole(i) == MdagM_eo(u, prm.site) + rational.b[i]
        rooted == -SumOfFields(phi, SquareNorm) * Half * u
                  * MapThenSumSet(LAMBDA i : Quotient(rational.a[i], Pole(i) * Pole(i)),
                                  DOMAIN rational.b)
    IN IF prm.useGaugeOnly THEN 0
       ELSE IF Staggered THEN rooted
       ELSE IF prm.useMp THEN det("mp") + detratio
       ELSE det("light")

GaugeGradient(u) ==
    -Beta * (c0 * 2 * u + (IF prm.useRectangles THEN C1 * 3 * u * u ELSE 0))

(* The molecular dynamics belong to the Hamiltonian whose change the       *)
(* Metropolis test corrects for.  For whatever link and momentum they may  *)
(* meet, the forces the integrator applies, together with the speed it     *)
(* moves the links by, leave the energy as it is to first order; and the   *)
(* approximation the forces of the RHMC come from, rescaled once more than *)
(* that of the heatbath, is one of the action phi was drawn for.           *)
MotionConservesEnergy ==
    pc = "initialized" /\ ~IntegratorThrows(prm) =>
        LET used == UNION {u.forces : u \in ToSet(Schedule[prm])}
            dK(mom) == Half * (KineticEnergy(mom + 1) - KineticEnergy(mom - 1))
        IN /\ \A u \in {u \in Numbers : HasRoots(u)}, mom \in Numbers :
                 (dK(mom) * TotalOf(used, u)
                  - (FermionGradient(u) + GaugeGradient(u)) * Velocity(mom)) % P = 0
           /\ Staggered /\ ~prm.useGaugeOnly =>
                 (calc_s_fermion_rooted(rational, gf, phi, prm) - FermionAction(gf)) % P = 0

(* The Hamiltonian of the mass preconditioned HMC and its special cases,   *)
(* and of the RHMC.                                                        *)
Hamiltonian(u, mom) ==
    -Beta * (c0 * u * u + (IF prm.useRectangles THEN C1 * u * u * u ELSE 0))
    + (IF Staggered THEN Half * Half ELSE Half) * mom * mom
    + FermionAction(u)

(* The deltaH the configuration is accepted or rejected by, put together   *)
(* from energies known since the heatbath and energies computed after the  *)
(* integration, is the difference of one Hamiltonian before and after.     *)
DeltaHIsEnergyDifference ==
    pc = "tested" =>
        (obs.deltaH - (Hamiltonian(gf, p) - Hamiltonian(new_u, new_p))) % P = 0

(* What is reported of a finished step is measured on the configuration    *)
(* the chain goes on from, and a rejected step leaves that as it was.      *)
ObservablesDescribeConfiguration ==
    pc = "finished" =>
        /\ obs.of = Observables(gf)
        /\ obs.accept = 0 => gf = gf_start
==============================================================================
