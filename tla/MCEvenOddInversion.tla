------------------------- MODULE MCEvenOddInversion -------------------------
(* EvenOddInversion over the integers modulo 3. *)
EXTENDS EvenOddInversion

(* The matrix of U and of V is regular for every mubar, that of W is not. *)
U == <<<<<<1, 1>>, <<2, 1>>>>, <<<<2, 0>>, <<2, 0>>>>>>
V == <<<<<<2, 0>>, <<2, 1>>>>, <<<<0, 2>>, <<1, 2>>>>>>
W == <<<<<<0, 1>>, <<1, 0>>>>, <<<<1, 2>>, <<0, 2>>>>>>

MCGaugefields == {U, V, W}

MCSources ==
    {[even |-> <<<<1, 0>>, <<0, 1>>>>, odd |-> <<<<0, 2>>, <<1, 1>>>>],
     [even |-> <<<<0, 1>>, <<0, 0>>>>, odd |-> <<<<0, 0>>, <<2, 0>>>>]}

MCRuns ==
    [fermact : {"wilson", "twistedmass"}, mubar : {1, 2}, useEo : {TRUE},
     solver : {"cg", "bicgstab"}, mergeKernels : BOOLEAN, smearing : {FALSE},
     pbp_version : {"std", "tm_one_end_trick"}, numberOfSources : {2}]
    \cup
    [fermact : {"wilson", "twistedmass"}, mubar : {1, 2}, useEo : {FALSE},
     solver : {"cg", "bicgstab"}, mergeKernels : {FALSE}, smearing : {FALSE},
     pbp_version : {"std", "tm_one_end_trick"}, numberOfSources : {1}]
    \cup
    [fermact : {"twistedmass"}, mubar : {1}, useEo : BOOLEAN, solver : {"cg"},
     mergeKernels : {FALSE}, smearing : {TRUE}, pbp_version : {"std"},
     numberOfSources : {1}]
=============================================================================
