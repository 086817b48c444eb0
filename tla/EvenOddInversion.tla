-------------------------- MODULE EvenOddInversion --------------------------
(***************************************************************************)
(* A measurement of the chiral condensate of two Wilson flavours: sources, *)
(* the inversion of the fermion matrix with and without even-odd           *)
(* preconditioning, and the contraction.                                   *)
(*                                                                         *)
(* The lattice has one even and one odd site, a spinor one component of    *)
(* either chirality.  A gauge field is what the program sees of it through *)
(* the hopping term: the matrix by which dslash takes a field from the     *)
(* even to the odd sites.  A solver finds the solution or throws, as       *)
(* KrylovSolvers shows of them.  Factors common to both norms of the       *)
(* condensate are left out.                                                *)
(*                                                                         *)
(* Definitions named Wrong_... are not part of the model: each is a        *)
(* plausible mistake in the definition that follows.                       *)
(***************************************************************************)
EXTENDS ModelNumbers, Sequences

CONSTANTS
    Gaugefields,   \* what the hopping term of a gauge field may be
    Sources,       \* the sources the random numbers give
    Runs           \* parameters of the program

Spinors == Complex \X Complex
Fields == [even : Spinors, odd : Spinors]
ColdSpinor == <<<<1, 0>>, <<1, 0>>>>
Cold == [even |-> ColdSpinor, odd |-> ColdSpinor]

RunParameters ==
    [fermact : {"wilson", "twistedmass"}, mubar : Numbers, useEo : BOOLEAN,
     solver : {"cg", "bicgstab"}, mergeKernels : BOOLEAN, smearing : BOOLEAN,
     pbp_version : {"std", "tm_one_end_trick"}, numberOfSources : Nat \ {0}]

ASSUME InversionAssumption ==
    /\ Gaugefields \subseteq Spinors \X Spinors
    /\ Sources \subseteq Fields
    /\ Runs \subseteq RunParameters

VARIABLES
    prm,          \* parameters of this run of the program
    gaugefield,   \* the configuration that is measured
    source,
    eo,           \* the fields on half of the sites: source_even, source_odd,
                  \* result_eo
    result,
    chiralCondensate,
    pc

vars == <<prm, gaugefield, source, eo, result, chiralCondensate, pc>>
given == <<prm, gaugefield>>
-----------------------------------------------------------------------------
(***************************************************************************)
(* Kernels                                                                 *)
(***************************************************************************)
Add(y, z) == <<(y[1] + z[1]) % P, (y[2] + z[2]) % P>>
One == <<1, 0>>
MinusOne == <<P - 1, 0>>

OnBoth(Op(_), x) == [even |-> Op(x.even), odd |-> Op(x.odd)]

sax(alpha, x) == <<Times(alpha, x[1]), Times(alpha, x[2])>>
Plus(x, y) == <<Add(x[1], y[1]), Add(x[2], y[2])>>

(* -alpha x + y *)
saxpy(alpha, x, y) == Plus(sax(Times(MinusOne, alpha), x), y)

gamma5(x) == <<x[1], Times(MinusOne, x[2])>>

scalar_product(x, y) == Add(Times(Conj(x[1]), y[1]), Times(Conj(x[2]), y[2]))
FieldProduct(x, y) == Add(scalar_product(x.even, y.even), scalar_product(x.odd, y.odd))

(* (1 + i mu gamma5), the diagonal of the twisted-mass matrix; mu is -mu   *)
(* in the kernels named minus.                                             *)
M_tm_sitediagonal(x, mu) == <<Times(<<1, mu>>, x[1]), Times(<<1, (-mu) % P>>, x[2])>>

M_tm_inverse_sitediagonal(x, mu) ==
    sax(<<Reciprocal[(1 + mu * mu) % P], 0>>, M_tm_sitediagonal(x, (-mu) % P))

(* The hopping term of U, with its sign and kappa.  dslash named EVEN      *)
(* evaluates it on the odd sites, dslash named ODD on the even ones; it is *)
(* gamma5-hermitian.                                                       *)
Times2(A, x) == <<Add(Times(A[1][1], x[1]), Times(A[1][2], x[2])),
                  Add(Times(A[2][1], x[1]), Times(A[2][2], x[2]))>>
Dagger(A) == <<<<Conj(A[1][1]), Conj(A[2][1])>>, <<Conj(A[1][2]), Conj(A[2][2])>>>>

dslash(U, x, evenodd) ==
    IF evenodd = "EVEN" THEN Times2(U, x) ELSE gamma5(Times2(Dagger(U), gamma5(x)))
-----------------------------------------------------------------------------
(***************************************************************************)
(* Fermion matrices                                                        *)
(***************************************************************************)
Twist == IF prm.fermact = "twistedmass" THEN prm.mubar ELSE 0

(* M_wilson, M_tm_plus and, with -mu, M_tm_minus. *)
FullMatrix(U, x, mu) ==
    [even |-> Plus(M_tm_sitediagonal(x.even, mu), dslash(U, x.odd, "ODD")),
     odd |-> Plus(M_tm_sitediagonal(x.odd, mu), dslash(U, x.even, "EVEN"))]

M(U, x) == FullMatrix(U, x, Twist)
Qplus(U, x) == OnBoth(gamma5, FullMatrix(U, x, Twist))
Qminus(U, x) == OnBoth(gamma5, FullMatrix(U, x, (-Twist) % P))
QplusQminus(U, x) == Qplus(U, Qminus(U, x))

(* Hopping forth and back, by way of the inverse diagonal. *)
ThereAndBack(U, x, mu) ==
    LET there == dslash(U, x, "ODD")
    IN dslash(U, IF prm.fermact = "wilson" THEN there
                 ELSE M_tm_inverse_sitediagonal(there, mu), "EVEN")

(* Aee and, with -mu, Aee_minus: R_e - D_eo R_o_inv D_oe. *)
Diagonal(x, mu) == IF prm.fermact = "wilson" THEN x ELSE M_tm_sitediagonal(x, mu)
Preconditioned(U, x, mu) == saxpy(One, ThereAndBack(U, x, mu), Diagonal(x, mu))

Aee(U, x) == Preconditioned(U, x, Twist)

(* The merged kernel forms the difference and multiplies by gamma5 itself. *)
saxpy_AND_gamma5_eo(alpha, x, y) == gamma5(saxpy(alpha, x, y))

Q_eo(U, x, mu) ==
    IF prm.mergeKernels
    THEN saxpy_AND_gamma5_eo(One, ThereAndBack(U, x, mu), Diagonal(x, mu))
    ELSE gamma5(Preconditioned(U, x, mu))

Qplus_eo(U, x) == Q_eo(U, x, Twist)
Qminus_eo(U, x) == Q_eo(U, x, (-Twist) % P)
QplusQminus_eo(U, x) == Qplus_eo(U, Qminus_eo(U, x))

(* What a solver may return that does not throw. *)
Solutions(A(_, _), space, b) == {x \in space : A(gaugefield, x) = b}
-----------------------------------------------------------------------------
(***************************************************************************)
(* perform_inversion                                                       *)
(***************************************************************************)
Init ==
    /\ prm \in Runs
    /\ gaugefield \in Gaugefields
    /\ source \in Sources
    /\ eo = [source_even |-> ColdSpinor, source_odd |-> ColdSpinor, result_eo |-> ColdSpinor]
    /\ result = Cold
    /\ chiralCondensate = <<>>
    /\ pc = "check"

GoesTo(next) == pc' = next /\ UNCHANGED given

(* The constructor of TwoFlavourChiralCondensate. *)
checkChiralCondensateVersion ==
    /\ pc = "check"
    /\ GoesTo(IF prm.pbp_version = "tm_one_end_trick" /\ prm.fermact # "twistedmass"
              THEN "aborted" ELSE "smear")
    /\ UNCHANGED <<source, eo, result, chiralCondensate>>

(* A gauge field that is constant is smeared by a function that calls      *)
(* itself and nothing else; it is not undone after the inversions because  *)
(* none begins.                                                            *)
smear ==
    /\ pc = "smear"
    /\ GoesTo(IF prm.smearing THEN "overflow"
              ELSE IF prm.useEo THEN "prepare" ELSE "solve")
    /\ UNCHANGED <<source, eo, result, chiralCondensate>>

(* Without preconditioning the matrix is inverted by BiCGstab, or          *)
(* QplusQminus by CG, for the source gamma5 b.                             *)
invert ==
    /\ pc = "solve" /\ ~prm.useEo
    /\ IF prm.solver = "cg"
       THEN \E x \in Solutions(QplusQminus, Fields, OnBoth(gamma5, source)) :
                result' = Qminus(gaugefield, x)
       ELSE result' \in Solutions(M, Fields, source)
    /\ GoesTo("observe")
    /\ UNCHANGED <<source, eo, chiralCondensate>>

SolverThrows ==
    /\ \/ pc = "solve" /\ ~(prm.useEo /\ prm.solver = "cg")
       \/ pc = "retry"
    /\ GoesTo("aborted")
    /\ UNCHANGED <<source, eo, result, chiralCondensate>>

(* The field called odd is the one of the even sites, and vice versa. *)
convert_to_eoprec == [source_odd |-> source.even, source_even |-> source.odd]

InverseDiagonal(x) ==
    IF prm.fermact = "wilson" THEN x ELSE M_tm_inverse_sitediagonal(x, Twist)

prepare_sources ==
    /\ pc = "prepare"
    /\ LET c == convert_to_eoprec
           hopped == dslash(gaugefield, InverseDiagonal(c.source_odd), "EVEN")
       IN eo' = [source_odd |-> c.source_odd,
                 source_even |-> saxpy(One, c.source_even, hopped),
                 result_eo |-> ColdSpinor]
    /\ GoesTo("solve")
    /\ UNCHANGED <<source, result, chiralCondensate>>

bicgstab_eo ==
    /\ pc = "solve" /\ prm.useEo
    /\ \E x \in Solutions(Aee, Spinors, eo.source_even) :
           eo' = [eo EXCEPT !.result_eo = x]
    /\ GoesTo("odd")
    /\ UNCHANGED <<source, result, chiralCondensate>>

(* BiCGstab throws where CG is asked for. *)
bicgstab_eo_throws ==
    /\ pc = "solve" /\ prm.useEo /\ prm.solver = "cg"
    /\ eo' = [eo EXCEPT !.source_even = gamma5(@)]
    /\ GoesTo("retry")
    /\ UNCHANGED <<source, result, chiralCondensate>>

cg_eo ==
    /\ pc = "retry"
    /\ \E y \in Solutions(QplusQminus_eo, Spinors, eo.source_even) :
           LET x == Qminus_eo(gaugefield, y)
           IN eo' = [eo EXCEPT !.result_eo = x, !.source_even = x]
    /\ GoesTo("odd")
    /\ UNCHANGED <<source, result, chiralCondensate>>

(* Mistake: the sources on the odd sites are subtracted. *)
Wrong_OddSolution ==
    LET hopped == InverseDiagonal(dslash(gaugefield, eo.result_eo, "ODD"))
    IN sax(MinusOne, saxpy(One, InverseDiagonal(eo.source_odd), hopped))

(* The program subtracts where saxpy with -1 adds. *)
OddSolution ==
    LET hopped == InverseDiagonal(dslash(gaugefield, eo.result_eo, "ODD"))
    IN sax(MinusOne, saxpy(MinusOne, hopped, InverseDiagonal(eo.source_odd)))

convert_from_eoprec(source_odd, source_even) == [even |-> source_odd, odd |-> source_even]

odd_solution ==
    /\ pc = "odd"
    /\ result' = convert_from_eoprec(OddSolution, eo.result_eo)
    /\ GoesTo("observe")
    /\ UNCHANGED <<source, eo, chiralCondensate>>
-----------------------------------------------------------------------------
(***************************************************************************)
(* flavour_doublet_chiral_condensate                                       *)
(***************************************************************************)
(* Mistake: the sign of the preconditioned solution is not compensated. *)
Wrong_norm_std == 1

norm_std == IF prm.useEo THEN P - 1 ELSE 1
norm_tm == prm.mubar

flavourChiralCondensate_std(phi, xi) ==
    IF prm.fermact = "wilson"
    THEN (FieldProduct(xi, phi)[1] * norm_std) % P
    ELSE (-FieldProduct(OnBoth(gamma5, xi), phi)[2] * norm_std) % P

flavour_doublet_chiral_condensate_tm(phi) == (FieldProduct(phi, phi)[1] * norm_tm) % P

flavour_doublet_chiral_condensate ==
    /\ pc = "observe"
    /\ chiralCondensate' =
         Append(chiralCondensate,
                IF prm.pbp_version = "tm_one_end_trick"
                THEN flavour_doublet_chiral_condensate_tm(result)
                ELSE flavourChiralCondensate_std(result, source))
    /\ GoesTo("observed")
    /\ UNCHANGED <<source, eo, result>>

(* Mistake: one source too many. *)
Wrong_MoreSources == Len(chiralCondensate) <= prm.numberOfSources

MoreSources == Len(chiralCondensate) < prm.numberOfSources

(* measureChiralCondensate: the next source. *)
create_sources ==
    /\ pc = "observed" /\ MoreSources
    /\ source' \in Sources
    /\ GoesTo("smear")
    /\ UNCHANGED <<eo, result, chiralCondensate>>

Finished ==
    /\ \/ pc = "observed" /\ ~MoreSources
       \/ pc \in {"aborted", "overflow"}
    /\ UNCHANGED vars

Next ==
    \/ checkChiralCondensateVersion \/ smear
    \/ invert \/ SolverThrows
    \/ prepare_sources \/ bicgstab_eo \/ bicgstab_eo_throws \/ cg_eo \/ odd_solution
    \/ flavour_doublet_chiral_condensate \/ create_sources
    \/ Finished

Spec == Init /\ [][Next]_vars
-----------------------------------------------------------------------------
TypeOK ==
    /\ prm \in Runs /\ gaugefield \in Gaugefields /\ source \in Sources
    /\ result \in Fields
    /\ eo \in [source_even : Spinors, source_odd : Spinors, result_eo : Spinors]
    /\ chiralCondensate \in Seq(Numbers)
    /\ Len(chiralCondensate) <= prm.numberOfSources
    /\ pc \in {"check", "smear", "prepare", "solve", "retry", "odd", "observe",
               "observed", "aborted", "overflow"}

(* The solution, freed from the sign preconditioning gives it. *)
Propagator == IF prm.useEo THEN OnBoth(LAMBDA x : sax(MinusOne, x), result) ELSE result

(* An inversion gives the solution of M x = b on both parities, whatever   *)
(* the action, the solver and the retry, and its negative exactly when it  *)
(* is preconditioned (invert_M_nf2_upperflavour; the reason for the sign   *)
(* is an open todo there).                                                 *)
SolvesUpToSign == pc = "observe" => M(gaugefield, Propagator) = source

(* The condensate does not depend on the preconditioning, and of twisted   *)
(* mass fermions its two versions agree for every single source:           *)
(* mubar |phi|^2 for M phi = xi (norm_std, norm_tm).                       *)
CondensateOfTheMatrix ==
    pc = "observed" =>
        chiralCondensate[Len(chiralCondensate)] =
            IF prm.fermact = "wilson" THEN FieldProduct(source, Propagator)[1]
            ELSE (prm.mubar * FieldProduct(Propagator, Propagator)[1]) % P
=============================================================================
