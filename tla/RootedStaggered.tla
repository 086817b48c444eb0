--------------------------- MODULE RootedStaggered ---------------------------
(***************************************************************************)
(* Rooted staggered fermions: powers of the staggered matrix, applied as   *)
(* rational approximations whose coefficients are rescaled to the spectrum *)
(* at hand.  The lattice is that of HmcTrajectory: one link u, here with   *)
(* the parity of the site it starts from, and a matrix of one eigenvalue.  *)
(*                                                                         *)
(* The numbers that are squares play the positive ones.  They have roots   *)
(* of odd order, the powers that occur are unique among them, and the      *)
(* poles of the approximations miss them.                                  *)
(* The Wrong_ definitions are plausible mistakes, not part of the model.   *)
(***************************************************************************)
EXTENDS ModelNumbers, Sequences, FiniteSetsExt

CONSTANTS
    Mass,       \* of the staggered quarks
    Margin,     \* the factor of a conservative upper bound, 1.05 in the code
    MetroPoles, \* the coefficients b_1, b_2, ... of the approximations of
    MDPoles     \* order metro_approx_ord and md_approx_ord

Positive == {(x * x) % P : x \in Numbers \ {0}}

ASSUME StaggeredAssumption ==
    /\ Mass \in Numbers \ {0} /\ Margin \in Numbers \ {0}
    /\ MetroPoles \in Seq(Positive) \ {<<>>} /\ MDPoles \in Seq(Positive) \ {<<>>}

ToThe[y \in Nat] == [x \in Numbers |-> IF y = 0 THEN 1 ELSE (x * ToThe[y - 1][x]) % P]

(* 1 / (x + b).  With positive x and b it exists; 0 stands in for it on    *)
(* the way through other fields.                                           *)
Shifted(x, b) == IF (x + b) % P = 0 THEN 0 ELSE Reciprocal[(x + b) % P]

(* a0 + a_1 / (x + b_1) + a_2 / (x + b_2) + ...                            *)
Rational(r, x) ==
    (r.a0 + MapThenSumSet(LAMBDA i : r.a[i] * Shifted(x, r.b[i]), DOMAIN r.b)) % P
-----------------------------------------------------------------------------
(* The approximations of the heatbath, the molecular dynamics and the      *)
(* Metropolis test.                                                        *)
getRationalApproximationDenominator(which, num_pseudofermions) ==
    (IF which = "HB" THEN 8 ELSE 4) * num_pseudofermions

Exponent(which, q) ==
    [y |-> q.num_tastes,
     z |-> getRationalApproximationDenominator(which, q.num_pseudofermions),
     inv |-> which # "HB"]

(* num_tastes is no multiple of 4 (checkRhmcParameters).                   *)
Rootings == [num_tastes : 1 .. 3, num_pseudofermions : {1, 2}]
Which == {"HB", "MD", "MET"}
Exponents == {Exponent(which, q) : which \in Which, q \in Rootings}

(* x to the power of y/z or, if inv, of -y/z.                              *)
pow == [x \in Positive |-> [e \in Exponents |->
           LET power == CHOOSE w \in Positive : ToThe[e.z][w] = ToThe[e.y][x]
           IN IF e.inv THEN Reciprocal[power] ELSE power]]

(* A spectrum relative to its upper bound, conservative or not: rhmc.cpp   *)
(* applies the margin once more after find_maxmin_eigenvalue.              *)
InRange == {1, Reciprocal[(Margin * Margin) % P]}

(* All that is asked of an approximation is to be exact in its range.      *)
Rational_Approximation(which, q) ==
    LET b == IF which = "MD" THEN MDPoles ELSE MetroPoles
        e == Exponent(which, q)
    IN CHOOSE r \in [a0 : Numbers, a : [DOMAIN b -> Numbers], b : {b}, exponent : {e}] :
          \A x \in InRange : Rational(r, x) = pow[x][e]

Approximations == [which \in Which |-> [q \in Rootings |-> Rational_Approximation(which, q)]]
Approximation(which, q) ==
    Approximations[which][[num_tastes |-> q.num_tastes,
                           num_pseudofermions |-> q.num_pseudofermions]]

Rescale_Coefficients(r, max) ==
    LET tmp == pow[max][r.exponent]
    IN [a0 |-> (r.a0 * tmp) % P,
        a |-> [i \in DOMAIN r.a |-> (r.a[i] * tmp * max) % P],
        b |-> [i \in DOMAIN r.b |-> (r.b[i] * max) % P]]
-----------------------------------------------------------------------------
(***************************************************************************)
(* The matrix and what is computed with it.  site is the parity of the     *)
(* site the link starts from.                                              *)
(***************************************************************************)

(* D_KS from the sites of the other parity to those of parity evenodd.     *)
D_KS_eo(u, evenodd, site) == (Half * u * IF evenodd = site THEN 1 ELSE -1) % P

MdagM_eo(u, site) ==
    (Mass * Mass - D_KS_eo(u, "EVEN", site) * D_KS_eo(u, "ODD", site)) % P

(* The one eigenvalue, with the margins of a conservative search.          *)
maxEigenvalue(u, q) ==
    (MdagM_eo(u, q.site) * IF q.conservative THEN Margin * Margin ELSE 1) % P

(* (a0 + sum of a_i (MdagM + b_i)^-1) applied to a field.                  *)
RationalOf(r, u, field, q) == Scale(Rational(r, MdagM_eo(u, q.site)), field)

SumOfFields(phi, f(_)) == MapThenSumSet(LAMBDA j : f(phi[j]), DOMAIN phi)

calc_s_fermion_rooted(r, u, phi, q) ==
    SumOfFields(phi, LAMBDA phi_j : Re(Times(Conj(phi_j), RationalOf(r, u, phi_j, q)))) % P

(* Mistake: the sign of the force on the odd links is not changed. *)
Wrong_fermion_staggered_partial_force(A, B, evenodd, site) ==
    IF evenodd # site THEN 0 ELSE -Re(Times(Conj(A), B))

(* The kernel computes the force on the links that start from sites of     *)
(* parity evenodd.                                                         *)
fermion_staggered_partial_force(A, B, evenodd, site) ==
    IF evenodd # site THEN 0
    ELSE (IF evenodd = "EVEN" THEN 1 ELSE -1) * (-Re(Times(Conj(A), B)))

(* X_i = (MdagM + b_i)^-1 phi_j by the multi-shift CG, Y_i = Doe X_i.      *)
calc_fermion_force_rooted(r, u, phi, q) ==
    SumOfFields(phi, LAMBDA phi_j : MapThenSumSet(LAMBDA i :
        LET X == Scale(Shifted(MdagM_eo(u, q.site), r.b[i]), phi_j)
            Y == Scale(D_KS_eo(u, "ODD", q.site), X)
        IN -r.a[i] * (fermion_staggered_partial_force(Y, X, "EVEN", q.site)
                      + fermion_staggered_partial_force(X, Y, "ODD", q.site)), DOMAIN r.b))
==============================================================================
