--------------------------- MODULE MCKrylovSolvers ---------------------------
(* KrylovSolvers over the integers modulo 7.  The second list of calls has *)
(* the parameters only the even-odd solvers look at.                       *)
EXTENDS KrylovSolvers

MCMatrices == {<<<<1, 2>>, <<3, 1>>>>, <<<<2, 1>>, <<1, 6>>>>, <<<<0, 1>>, <<4, 3>>>>,
               <<<<3, 0>>, <<0, 3>>>>, <<<<5, 1>>, <<0, 2>>>>, <<<<1, 0>>, <<0, 2>>>>}
MCSources == {<<0, 0>>, <<1, 0>>, <<0, 3>>, <<2, 5>>, <<1, 1>>}

MCCalls ==
    [caller : Callers, useEo : BOOLEAN, solver : {"cg", "bicgstab", "bicgstab_save"},
     iterRefresh : {1, 2, 5}, blockSize : {1, 2}, cgMax : {1, 4},
     minIterations : {0}, devices : {1}, mergeKernels : {FALSE}]
    \cup
    [caller : {"cg_m", "md_mp"}, useEo : {TRUE}, solver : {"cg"},
     iterRefresh : {5}, blockSize : {1, 3}, cgMax : {1, 5},
     minIterations : {0, 2}, devices : {1, 2}, mergeKernels : BOOLEAN]
==============================================================================
