--------------------------- MODULE MCHmcTrajectory ---------------------------
(* HmcTrajectory over the integers modulo 11, with three different lambdas: *)
(* many schedules from one start, the shortest schedules from every link,   *)
(* and the RHMC.                                                            *)
EXTENDS HmcTrajectory

MCLambda == <<2, 3, 1>>
MCKappa == [light |-> 2, mp |-> 3]
MCMubar == [light |-> 1, mp |-> 2]
MCMetroPoles == <<1, 4>>
MCMDPoles == <<3>>

Schedules == [algorithm |-> "hmc", steps |-> 0 .. 3, maxSteps |-> 12, solvers |-> {"cg"},
              rectangles |-> {FALSE}, links |-> {1}, draws |-> {<<1, 2>>}]
Energies == [algorithm |-> "hmc", steps |-> {0, 1}, maxSteps |-> 1,
             solvers |-> {"cg", "bicgstab"}, rectangles |-> BOOLEAN,
             links |-> 0 .. 4, draws |-> {<<1, 2>>, <<3, 0>>}]
Roots == [algorithm |-> "rhmc", steps |-> {1}, maxSteps |-> 1, tastes |-> {1, 2},
          rectangles |-> {FALSE}, links |-> 0 .. P - 1, draws |-> {<<1, 2>>, <<3, 0>>}]
MCCases == {Schedules, Energies, Roots}
==============================================================================
