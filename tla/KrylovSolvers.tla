---------------------------- MODULE KrylovSolvers ----------------------------
(***************************************************************************)
(* The Krylov solvers and the functions that call them: CG in its three    *)
(* forms, BiCGstab in its two, the multi-shift CG-M; invert_M_nf2_         *)
(* upperflavour and md_update_spinorfield_mp, which try BiCGstab first and *)
(* CG when it fails.                                                       *)
(*                                                                         *)
(* A field is a pair of numbers modulo P.  As P is 3 modulo 4, no field    *)
(* but the zero one has norm 0, so the algorithms end by their exact       *)
(* arithmetic after as many iterations as a field has components, and      *)
(* every recursion can be compared with what it stands for.  What depends  *)
(* on rounding is left to chance: which norms pass for small is a          *)
(* parameter.  NaN is what a division by zero gives, and all that is       *)
(* computed from it.                                                       *)
(*                                                                         *)
(* Definitions named Wrong_... are not part of the model: each is a        *)
(* plausible mistake in the definition that follows.                       *)
(***************************************************************************)
EXTENDS ModelNumbers, FiniteSets

CONSTANTS
    Matrices,   \* what Qplus may be
    Sources,    \* right-hand sides
    Calls,      \* who calls a solver, with which parameters
    Small,      \* the norms less than the precision
    NaN         \* not a number

Fields == Complex
Zero == <<0, 0>>
Cold == <<1, 1>>

Callers == {"cg_m", "invert", "md_mp"}
CallParameters == [caller : Callers, useEo : BOOLEAN,
                   solver : {"cg", "bicgstab", "bicgstab_save"},
                   iterRefresh : Nat, blockSize : Nat, cgMax : Nat,
                   minIterations : Nat, devices : Nat, mergeKernels : BOOLEAN]

ASSUME KrylovAssumption ==
    /\ Matrices \subseteq Fields \X Fields
    /\ \A Q \in Matrices : (Q[1][1] * Q[2][2] - Q[1][2] * Q[2][1]) % P # 0
    /\ Sources \subseteq Fields
    /\ Calls \subseteq CallParameters
    /\ \A c \in Calls : c.iterRefresh > 0 /\ c.blockSize > 0 /\ c.devices > 0
    /\ Small \subseteq Numbers /\ 0 \in Small
    /\ NaN \notin Numbers \cup Fields

VARIABLES
    call,      \* parameters of the call
    Qplus,     \* the fermion matrix
    source,    \* right-hand side given to the caller
    s,         \* fields and scalars of the running solver, its x
    equations, \* of the CG-M: what belongs to each shifted system
    iter,
    result,    \* field handed back by the caller
    guess,     \* the x the last solver started from (history)
    pc

vars == <<call, Qplus, source, s, equations, iter, result, guess, pc>>
given == <<call, Qplus, source>>
-----------------------------------------------------------------------------
(***************************************************************************)
(* Arithmetic with NaN                                                     *)
(***************************************************************************)
Minus(a) == IF a = NaN THEN NaN ELSE (-a) % P
Plus(a, b) == IF a = NaN \/ b = NaN THEN NaN ELSE (a + b) % P
Product(a, b) == IF a = NaN \/ b = NaN THEN NaN ELSE (a * b) % P
Quotient(a, b) ==
    IF a = NaN \/ b = NaN THEN NaN ELSE IF b = 0 THEN NaN ELSE (a * Reciprocal[b]) % P

(* a x + y *)
Axpy(a, x, y) ==
    IF a = NaN \/ x = NaN \/ y = NaN THEN NaN
    ELSE <<(a * x[1] + y[1]) % P, (a * x[2] + y[2]) % P>>

scalar_product(x, y) ==
    IF x = NaN \/ y = NaN THEN NaN ELSE (x[1] * y[1] + x[2] * y[2]) % P

Apply(A, x) ==
    IF x = NaN THEN NaN ELSE <<scalar_product(A[1], x), scalar_product(A[2], x)>>

(* saxpy and saxsbypz of the Wilson fields; that of the staggered fields   *)
(* adds.                                                                   *)
saxpy(a, x, y) == Axpy(Minus(a), x, y)
saxsbypz(a, x, b, y, z) == Axpy(a, x, Axpy(b, y, z))
-----------------------------------------------------------------------------
(***************************************************************************)
(* Matrices and sources of the solvers                                     *)
(***************************************************************************)
gamma5(x) == IF x = NaN THEN NaN ELSE <<x[1], (-x[2]) % P>>
Transpose(A) == <<<<A[1][1], A[2][1]>>, <<A[1][2], A[2][2]>>>>
Qminus == Transpose(Qplus)
QplusQminus == <<Apply(Qplus, Qplus[1]), Apply(Qplus, Qplus[2])>>
Aee == <<Qplus[1], <<(-Qplus[2][1]) % P, (-Qplus[2][2]) % P>>>>

(* The matrix of the algorithm that runs: QplusQminus for CG (and for CG-M *)
(* whatever hermitian matrix MdagM is), M or Aee, that is gamma5 Qplus, in *)
(* the inversion, Qplus in the molecular dynamics.                         *)
A == IF pc \in {"cg", "cg_m"} THEN QplusQminus
     ELSE IF call.caller = "invert" THEN Aee ELSE Qplus

b == IF pc = "cg" /\ call.caller = "invert" THEN gamma5(source) ELSE source

(* Numbers for which MdagM + sigma is definite, as it is for sigma >= 0.   *)
Shifts ==
    {sigma \in Numbers :
        \E root \in Numbers \ {0} :
            (root * root - ((QplusQminus[1][1] + sigma) * (QplusQminus[2][2] + sigma)
                            - QplusQminus[1][2] * QplusQminus[2][1])) % P = 0}

Fresh(x) == [x |-> x, rn |-> NaN, p |-> NaN, v |-> NaN, rhat |-> NaN,
             alpha |-> NaN, beta |-> NaN, omega |-> NaN, rho |-> NaN]
-----------------------------------------------------------------------------
(***************************************************************************)
(* The callers                                                             *)
(***************************************************************************)
bicgstab == IF call.solver = "bicgstab_save" THEN "save" ELSE "fast"

(* The CG-M starts from all x zero, MdagM p_i = b. *)
setInitialConditions ==
    /\ s = [Fresh(Zero) EXCEPT !.rn = source, !.p = source, !.beta = 1, !.alpha = 0,
                               !.rho = scalar_product(source, source)]
    /\ equations = [sigma \in Shifts |->
                        [x |-> Zero, ps |-> source, zeta_prev |-> 1, zeta |-> 1,
                         converged |-> FALSE]]

Init ==
    /\ call \in Calls /\ Qplus \in Matrices
    /\ source \in IF call.caller = "cg_m" THEN Sources ELSE Sources \ {Zero}
    /\ iter = 0 /\ result = NaN
    /\ CASE call.caller = "cg_m" ->
              /\ pc = IF source = Zero THEN "solved" ELSE "cg_m"
              /\ setInitialConditions
         [] call.caller = "invert" ->
              /\ pc = IF call.solver = "cg" /\ ~call.useEo THEN "cg" ELSE bicgstab
              /\ s = Fresh(Cold) /\ equations = <<>>
         [] OTHER ->
              /\ pc = bicgstab
              /\ s = Fresh(Zero) /\ equations = <<>>
    /\ guess = s.x

(* Where a SolverException of BiCGstab is caught. *)
Retries ==
    \/ call.caller = "md_mp"
    \/ call.caller = "invert" /\ call.useEo /\ call.solver = "cg"

(* Mistake: CG goes on from what BiCGstab has left behind. *)
Wrong_RetryGuess(x) == x

(* The inversion gives CG the field BiCGstab has left behind, the          *)
(* molecular dynamics a field of its own.                                  *)
RetryGuess(x) == IF call.caller = "md_mp" THEN Zero ELSE x

(* A solver throws, having changed x. *)
Throws(exception, x) ==
    /\ IF pc \in {"save", "fast"} /\ Retries
       THEN pc' = "cg" /\ s' = Fresh(RetryGuess(x)) /\ guess' = RetryGuess(x) /\ iter' = 0
       ELSE pc' = exception /\ s' = [s EXCEPT !.x = x] /\ UNCHANGED <<guess, iter>>
    /\ UNCHANGED <<given, equations, result>>

(* Mistake: the solution is that of QplusQminus. *)
Wrong_Result(x) == x

(* After CG the solution of QplusQminus is multiplied by Qminus. *)
Result(x) == IF pc = "cg" THEN Apply(Qminus, x) ELSE x

Returns(x) ==
    /\ pc' = "solved" /\ s' = [s EXCEPT !.x = x] /\ result' = Result(x)
    /\ UNCHANGED <<given, equations, iter, guess>>

GoesOn(t) ==
    /\ s' = t /\ iter' = iter + 1
    /\ UNCHANGED <<given, equations, result, guess, pc>>

Refreshes == iter % call.iterRefresh = 0
-----------------------------------------------------------------------------
(***************************************************************************)
(* CG: of full fields, of even-odd fields on one and on several devices    *)
(***************************************************************************)
OneDevice == call.useEo /\ call.devices = 1
Minimum == IF call.useEo THEN call.minIterations ELSE 0

(* Mistake: one iteration too many. *)
Wrong_CgLoops == iter <= call.cgMax \/ (OneDevice /\ iter < Minimum)

CgLoops == iter < call.cgMax \/ (OneDevice /\ iter < Minimum)
CgChecks == OneDevice => iter % call.blockSize = 0

cg_refresh ==
    LET rn == saxpy(1, Apply(A, s.x), b)
    IN [s EXCEPT !.rn = rn, !.p = rn, !.omega = scalar_product(rn, rn)]

cg_begin == IF Refreshes THEN cg_refresh ELSE [s EXCEPT !.omega = s.rho]

(* The iteration up to the new x. *)
cg_x ==
    LET t == cg_begin
        v == Apply(A, t.p)
        alpha == Quotient(t.omega, scalar_product(t.p, v))
    IN [t EXCEPT !.v = v, !.alpha = alpha, !.x = saxpy(Minus(alpha), t.p, t.x)]

cg_residual ==
    LET rn == saxpy(cg_x.alpha, cg_x.v, cg_x.rn)
    IN [cg_x EXCEPT !.rn = rn, !.rho = scalar_product(rn, rn)]

(* Mistake: beta is formed with the residuals the wrong way round. *)
Wrong_cg_direction(t) ==
    LET beta == Quotient(t.omega, t.rho)
    IN [t EXCEPT !.beta = beta, !.p = saxpy(Minus(beta), t.p, t.rn)]

cg_direction(t) ==
    LET beta == Quotient(t.rho, t.omega)
    IN [t EXCEPT !.beta = beta, !.p = saxpy(Minus(beta), t.p, t.rn)]

(* Merged kernels are not implemented for several devices: the exception   *)
(* is not a SolverException.                                               *)
cg_unimplemented ==
    /\ pc = "cg" /\ CgLoops
    /\ call.useEo /\ call.devices > 1 /\ call.mergeKernels
    /\ pc' = "aborted" /\ s' = cg_x
    /\ UNCHANGED <<given, equations, iter, result, guess>>

cg_iteration ==
    /\ pc = "cg" /\ CgLoops
    /\ ~(call.useEo /\ call.devices > 1 /\ call.mergeKernels)
    /\ LET t == cg_residual
       IN \/ CgChecks /\ t.rho = NaN /\ Throws("stuck", t.x)
          \/ CgChecks /\ t.rho \in Small /\ iter >= Minimum /\ Returns(t.x)
          \/ /\ CgChecks => t.rho # NaN /\ ~(t.rho \in Small /\ iter >= Minimum)
             /\ GoesOn(cg_direction(t))

cg_exhausted == pc = "cg" /\ ~CgLoops /\ Throws("not_solved", s.x)
-----------------------------------------------------------------------------
(***************************************************************************)
(* BiCGstab, "save" and "fast"                                             *)
(***************************************************************************)
Tiny(rho) == rho = 0

save_refresh ==
    LET rn == saxpy(1, Apply(A, s.x), b)
    IN [s EXCEPT !.v = Zero, !.p = Zero, !.rn = rn, !.rhat = rn,
                 !.alpha = 1, !.omega = 1, !.rho = 1]

(* Mistake: x follows the product of the matrix instead of the field. *)
Wrong_StabilizedStep(t) ==
    LET v == Apply(A, t.p)
        alpha == Quotient(t.rho, scalar_product(t.rhat, v))
        sn == saxpy(alpha, v, t.rn)
        tn == Apply(A, sn)
        omega == Quotient(scalar_product(tn, sn), scalar_product(tn, tn))
    IN [t EXCEPT !.v = v, !.alpha = alpha, !.omega = omega,
                 !.rn = saxpy(omega, tn, sn),
                 !.x = saxsbypz(alpha, t.p, omega, tn, t.x)]

(* One step in the direction p and one of steepest descent. *)
StabilizedStep(t) ==
    LET v == Apply(A, t.p)
        alpha == Quotient(t.rho, scalar_product(t.rhat, v))
        sn == saxpy(alpha, v, t.rn)
        tn == Apply(A, sn)
        omega == Quotient(scalar_product(tn, sn), scalar_product(tn, tn))
    IN [t EXCEPT !.v = v, !.alpha = alpha, !.omega = omega,
                 !.rn = saxpy(omega, tn, sn),
                 !.x = saxsbypz(alpha, t.p, omega, sn, t.x)]

(* The new direction, for the next rho. *)
StabilizedDirection(t, rho_next) ==
    LET beta == Product(Quotient(rho_next, t.rho), Quotient(t.alpha, t.omega))
    IN [t EXCEPT !.beta = beta, !.rho = rho_next,
                 !.p = saxsbypz(beta, t.p, Minus(Product(beta, t.omega)), t.v, t.rn)]

bicgstab_save ==
    /\ pc = "save" /\ iter < call.cgMax
    /\ LET t == IF Refreshes THEN save_refresh ELSE s
           rho_next == scalar_product(t.rhat, t.rn)
           u == StabilizedStep(StabilizedDirection(t, rho_next))
           resid == scalar_product(u.rn, u.rn)
           aux == saxpy(1, Apply(A, u.x), b)
           solved == resid \in Small /\ scalar_product(aux, aux) \in Small
       IN \/ Tiny(rho_next) /\ Throws("stuck", t.x)
          \/ ~Tiny(rho_next) /\ resid = NaN /\ Throws("stuck", u.x)
          \/ ~Tiny(rho_next) /\ solved /\ Returns(u.x)
          \/ ~Tiny(rho_next) /\ resid # NaN /\ ~solved /\ GoesOn(u)

fast_refresh ==
    LET p == saxpy(1, Apply(A, s.x), b)
    IN [s EXCEPT !.p = p, !.rhat = p, !.rn = p, !.rho = scalar_product(p, p)]

bicgstab_fast ==
    /\ pc = "fast" /\ iter < call.cgMax
    /\ LET t == IF Refreshes THEN fast_refresh ELSE s
           resid == scalar_product(t.rn, t.rn)
           u == StabilizedStep(t)
           rho_next == scalar_product(u.rhat, u.rn)
       IN \/ resid = NaN /\ Throws("stuck", t.x)
          \/ resid \in Small /\ Returns(t.x)
          \/ resid \notin Small \cup {NaN} /\ Tiny(rho_next) /\ Throws("stuck", u.x)
          \/ /\ resid \notin Small \cup {NaN} /\ ~Tiny(rho_next)
             /\ GoesOn(StabilizedDirection(u, rho_next))

bicgstab_exhausted ==
    pc \in {"save", "fast"} /\ iter >= call.cgMax /\ Throws("not_solved", s.x)
-----------------------------------------------------------------------------
(***************************************************************************)
(* CG-M: (MdagM + sigma) x = b for all shifts at once                      *)
(***************************************************************************)
(* Mistake: the zeta before the last is not kept apart. *)
Wrong_update_zeta_cgm(e, sigma, beta_prev, beta, alpha_prev) ==
    Quotient(Product(Product(e.zeta, e.zeta), beta_prev),
             Product(Product(e.zeta, beta_prev), Plus(1, Minus(Product(sigma, beta)))))

update_zeta_cgm(e, sigma, beta_prev, beta, alpha_prev) ==
    LET change == Plus(e.zeta_prev, Minus(e.zeta))
        kept == Plus(1, Minus(Product(sigma, beta)))
        first == Product(Product(beta, alpha_prev), change)
        second == Product(Product(e.zeta_prev, beta_prev), kept)
    IN Quotient(Product(Product(e.zeta, e.zeta_prev), beta_prev),
                Plus(first, second))

update_beta_cgm(e, beta, zeta_foll) == Minus(Quotient(Product(beta, zeta_foll), e.zeta))

update_alpha_cgm(e, alpha, beta, zeta_foll, beta_k) ==
    Minus(Quotient(Product(Product(alpha, zeta_foll), beta_k), Product(e.zeta, beta)))

(* r, p and the scalars of the unshifted system: beta is negative. *)
cg_m_scalars ==
    LET v == Apply(A, s.p)
        beta == Minus(Quotient(s.rho, scalar_product(s.p, v)))
        r == Axpy(beta, v, s.rn)
        rho == scalar_product(r, r)
        alpha == Quotient(rho, s.rho)
    IN [s EXCEPT !.v = v, !.beta = beta, !.rn = r, !.rho = rho, !.alpha = alpha,
                 !.p = Axpy(alpha, s.p, r)]

(* A shifted system after the iteration; a converged one only keeps its    *)
(* zetas up to date.                                                       *)
ShiftedSystem(sigma, e, t) ==
    LET zeta_foll == update_zeta_cgm(e, sigma, s.beta, t.beta, s.alpha)
        beta_k == update_beta_cgm(e, t.beta, zeta_foll)
        alpha_k == update_alpha_cgm(e, t.alpha, t.beta, zeta_foll, beta_k)
        v == Axpy(zeta_foll, t.rn, Zero)
        moved == [e EXCEPT !.zeta_prev = e.zeta, !.zeta = zeta_foll]
    IN IF e.converged THEN moved
       ELSE [moved EXCEPT !.x = Axpy(beta_k, e.ps, e.x),
                          !.ps = Axpy(alpha_k, e.ps, v),
                          !.converged = iter % call.blockSize = 0
                                        /\ scalar_product(v, v) \in Small]

CgmLoops == iter < call.cgMax \/ iter < call.minIterations

(* Without the checks of the debug output, which end a failing call sooner. *)
cg_m_iteration ==
    /\ pc = "cg_m" /\ CgmLoops
    /\ LET t == cg_m_scalars
           eqs == [sigma \in DOMAIN equations |-> ShiftedSystem(sigma, equations[sigma], t)]
           all == \A sigma \in DOMAIN eqs : eqs[sigma].converged
           solved == all /\ t.rho \in Small /\ iter >= call.minIterations
       IN /\ s' = t /\ equations' = eqs
          /\ \/ all /\ t.rho = NaN /\ pc' = "stuck" /\ UNCHANGED iter
             \/ solved /\ pc' = "solved" /\ UNCHANGED iter
             \/ ~(all /\ t.rho = NaN) /\ ~solved /\ iter' = iter + 1 /\ UNCHANGED pc
    /\ UNCHANGED <<given, result, guess>>

cg_m_exhausted ==
    pc = "cg_m" /\ ~CgmLoops /\ pc' = "not_solved"
    /\ UNCHANGED <<given, s, equations, iter, result, guess>>

Ended == pc \in {"solved", "stuck", "not_solved", "aborted"} /\ UNCHANGED vars

Next == cg_unimplemented \/ cg_iteration \/ cg_exhausted
        \/ bicgstab_save \/ bicgstab_fast \/ bicgstab_exhausted
        \/ cg_m_iteration \/ cg_m_exhausted \/ Ended

Spec == Init /\ [][Next]_vars
-----------------------------------------------------------------------------
(***************************************************************************)
(* Properties                                                              *)
(***************************************************************************)
NumberOrNaN(a) == a = NaN \/ a \in Numbers
FieldOrNaN(x) == x = NaN \/ x \in Fields

TypeOK ==
    /\ call \in Calls /\ Qplus \in Matrices /\ source \in Sources
    /\ pc \in {"cg", "save", "fast", "cg_m", "solved", "stuck", "not_solved", "aborted"}
    /\ iter \in Nat /\ (iter <= call.cgMax \/ iter <= call.minIterations)
    /\ FieldOrNaN(result) /\ FieldOrNaN(guess)
    /\ \A name \in {"x", "rn", "p", "v", "rhat"} : FieldOrNaN(s[name])
    /\ \A name \in {"alpha", "beta", "omega", "rho"} : NumberOrNaN(s[name])
    /\ \A sigma \in DOMAIN equations :
          /\ FieldOrNaN(equations[sigma].x) /\ FieldOrNaN(equations[sigma].ps)
          /\ NumberOrNaN(equations[sigma].zeta) /\ NumberOrNaN(equations[sigma].zeta_prev)
          /\ equations[sigma].converged \in BOOLEAN

(* The residual the solvers update and test instead of computing it is the *)
(* one of the x they have: rn = b - A x after every iteration.             *)
ResidualFollowsSolution ==
    pc \in {"cg", "save", "fast"} /\ iter > 0 => s.rn = saxpy(1, Apply(A, s.x), b)

(* The shifted systems of the CG-M have no residual and no matrix product  *)
(* of their own: that of each is zeta times the one of the first system,   *)
(* as long as it is worked on.                                             *)
ShiftedResidual(sigma, x) ==
    saxpy(1, Axpy(sigma, x, Apply(QplusQminus, x)), source)

ShiftedResidualsFollow ==
    pc = "cg_m" => \A sigma \in DOMAIN equations :
        equations[sigma].converged
        \/ ShiftedResidual(sigma, equations[sigma].x) = Axpy(equations[sigma].zeta, s.rn, Zero)

(* The search directions are conjugate: with two components in a field,    *)
(* two iterations after a refresh the solution is exact, or the iteration  *)
(* has broken down.                                                        *)
ExactAfterTwoIterations ==
    \/ pc \in {"cg", "save", "fast"} /\ (iter = 0 \/ (iter - 1) % call.iterRefresh = 0)
    \/ pc = "cg_m" /\ iter < 2
    \/ pc \notin {"cg", "save", "fast", "cg_m"}
    \/ s.rn = Zero \/ s.rn = NaN

(* What a caller gets back without an exception solves its own equation,   *)
(* whichever solver it came from: its residual is smaller than the         *)
(* precision.  Of the CG-M this holds for every shift, however long ago    *)
(* the system was declared converged.                                      *)
ReturnedSolutionsSolve ==
    LET Solves(residual) == scalar_product(residual, residual) \in Small
    IN pc = "solved" =>
         CASE call.caller = "cg_m" ->
                \A sigma \in DOMAIN equations :
                    Solves(ShiftedResidual(sigma, equations[sigma].x))
           [] call.caller = "invert" -> Solves(saxpy(1, Apply(Aee, result), source))
           [] OTHER -> Solves(saxpy(1, Apply(Qplus, result), source))

(* Parameters under which CG by itself solves any system: it stops as soon *)
(* as it can.                                                              *)
Sufficient ==
    /\ call.iterRefresh > 2 /\ call.cgMax > 2
    /\ OneDevice => call.blockSize = 1
    /\ Minimum = 0

(* With such parameters a caller that retries with CG fails for two        *)
(* reasons only, both the guess's: BiCGstab left a field that is not a     *)
(* number, or the exact solution, which CG divides by.  As the molecular   *)
(* dynamics start CG from zero, they never fail.                           *)
RetriesSucceed ==
    pc \in {"stuck", "not_solved"} /\ Retries /\ Sufficient =>
        /\ call.caller = "invert"
        /\ guess = NaN \/ saxpy(1, Apply(Aee, Apply(Qminus, guess)), source) = Zero
==============================================================================
