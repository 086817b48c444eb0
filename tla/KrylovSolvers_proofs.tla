------------------------ MODULE KrylovSolvers_proofs ------------------------
(***************************************************************************)
(* What the solvers keep up to date, for every prime P that is 3 modulo 4, *)
(* every invertible matrix, every source and every call: the residual of   *)
(* CG and BiCGstab is that of the solution they have, the residuals of the *)
(* shifted systems of the CG-M are multiples of the one it updates, and    *)
(* what is returned solves the caller's own equation.  In the plane, the   *)
(* second step after a start is the last one: the steps of CG are          *)
(* conjugate, and those of BiCGstab are governed by the characteristic     *)
(* polynomial of the matrix.  So a caller that tries CG after BiCGstab     *)
(* succeeds, unless BiCGstab leaves it a field to start from for which the *)
(* first division is one by zero.                                          *)
(*                                                                         *)
(* A division by zero gives NaN, and all that depends on it: the           *)
(* identities below hold with NaN on both sides.                           *)
(***************************************************************************)
EXTENDS KrylovSolvers, ModelNumbers_proofs

NumbersOrNaN == Numbers \cup {NaN}
FieldsOrNaN == Fields \cup {NaN}
SolverStates == [x : FieldsOrNaN, rn : FieldsOrNaN, p : FieldsOrNaN, v : FieldsOrNaN,
                 rhat : FieldsOrNaN, alpha : NumbersOrNaN, beta : NumbersOrNaN,
                 omega : NumbersOrNaN, rho : NumbersOrNaN]
ShiftedSystems == [x : FieldsOrNaN, ps : FieldsOrNaN, zeta_prev : NumbersOrNaN,
                   zeta : NumbersOrNaN, converged : BOOLEAN]

(* The invariant *)

Typed ==
    /\ call \in Calls /\ Qplus \in Matrices /\ source \in Sources
    /\ iter \in Nat /\ (iter <= call.cgMax \/ iter <= call.minIterations)
    /\ s \in SolverStates /\ result \in FieldsOrNaN /\ guess \in FieldsOrNaN
    /\ DOMAIN equations \subseteq Numbers
    /\ equations \in [DOMAIN equations -> ShiftedSystems]

\* Who runs which algorithm.
InPlace ==
    /\ pc \in {"cg", "save", "fast", "cg_m", "solved", "stuck", "not_solved", "aborted"}
    /\ call.caller = "cg_m" => pc \in {"cg_m", "solved", "stuck", "not_solved"}
    /\ pc = "cg_m" => call.caller = "cg_m"

\* The CG-M has not divided by zero so far, and will if its residual vanishes.
Sound(t) ==
    /\ t.rn \in Fields /\ t.p \in Fields /\ t.rho \in Numbers /\ t.alpha \in Numbers
    /\ t.beta \in Nonzero
    /\ t.rho = 0 => t.p = Zero

BrokenDown(t) ==
    t.rn = NaN /\ t.p = NaN /\ t.rho = NaN /\ t.alpha = NaN /\ t.beta = NaN

\* (MdagM + sigma) x
ShiftedProduct(sigma, x) == Axpy(sigma, x, Apply(QplusQminus, x))

\* The product of the shifted matrix with the direction of the shifted system
\* is given by what the first system has.  The factor zeta_prev * beta is not
\* zero; written as a quotient, it would be the scaled change of zeta.
DirectionFollows(sigma, e, t) ==
    LET d == Product(e.zeta_prev, t.beta)
        w == Axpy(sigma, t.rn, Apply(QplusQminus, t.p))
        c == Product(t.alpha, Plus(e.zeta, Minus(e.zeta_prev)))
    IN Axpy(d, ShiftedProduct(sigma, e.ps), Zero) =
           Axpy(Product(e.zeta, d), w, Axpy(Product(e.zeta, c), t.rn, Zero))

Follows(sigma, e, t) ==
    /\ e.x \in Fields /\ e.ps \in Fields /\ e.zeta \in Nonzero /\ e.zeta_prev \in Nonzero
    /\ ShiftedResidual(sigma, e.x) = Axpy(e.zeta, t.rn, Zero)
    /\ DirectionFollows(sigma, e, t)

Lost(e) == e.x = NaN /\ e.ps = NaN /\ e.zeta = NaN

Passes(residual) == scalar_product(residual, residual) \in Small

EquationRight(sigma, e, t) ==
    IF e.converged THEN Passes(ShiftedResidual(sigma, e.x))
    ELSE (Sound(t) /\ Follows(sigma, e, t)) \/ Lost(e)

ShiftedRight ==
    pc = "cg_m" =>
        /\ Sound(s) \/ BrokenDown(s)
        /\ \A sigma \in DOMAIN equations : EquationRight(sigma, equations[sigma], s)

IInv == Typed /\ InPlace /\ ResidualFollowsSolution /\ ShiftedRight /\ ReturnedSolutionsSolve

------------------------------------------------------------------------------
(* Arithmetic with NaN *)

LEMMA NaNIsNone ==
    /\ NaN \notin Numbers /\ NaN \notin Fields /\ 0 \in Numbers /\ 1 \in Numbers /\ 0 # 1
    /\ Zero \in Fields /\ Small \subseteq Numbers /\ 0 \in Small
<1>1. 0 \in Numbers /\ 1 \in Numbers
  BY PType DEF Numbers
<1>. QED  BY <1>1, KrylovAssumption DEF Zero, Fields, Complex

\* What the operators are of numbers.
LEMMA OnNumbers ==
    ASSUME NEW a \in Numbers, NEW c \in Numbers
    PROVE  /\ Minus(a) = (-a) % P /\ Minus(a) \in Numbers
           /\ Plus(a, c) = (a + c) % P /\ Plus(a, c) \in Numbers
           /\ Product(a, c) = (a * c) % P /\ Product(a, c) \in Numbers
           /\ a \in Int /\ c \in Int /\ a # NaN /\ c # NaN
<1>1. a \in Int /\ c \in Int /\ a # NaN /\ c # NaN
  BY ModId, NaNIsNone
<1>2. -a \in Int /\ a + c \in Int /\ a * c \in Int
  BY <1>1
<1>3. (-a) % P \in Numbers /\ (a + c) % P \in Numbers /\ (a * c) % P \in Numbers
  BY <1>2, ModType, Zenon
<1>. QED  BY <1>1, <1>3, Zenon DEF Minus, Plus, Product

LEMMA QuotientIs ==
    ASSUME NEW a \in Numbers, NEW c \in Nonzero
    PROVE  /\ Quotient(a, c) \in Numbers
           /\ Congruent(c * Quotient(a, c), a)
           /\ a \in Nonzero => Quotient(a, c) \in Nonzero
<1> DEFINE e == Reciprocal[c]
<1>1. e \in Numbers /\ (c * e) % P = 1
  BY HasReciprocal DEF Nonzero
<1>2. Quotient(a, c) = (a * e) % P
  BY NaNIsNone DEF Quotient, Nonzero
<1> HIDE DEF e
<1>3. /\ e \in Int /\ c \in Int /\ a \in Int /\ a * e \in Int /\ c * e \in Int /\ 1 \in Int
      /\ 1 % P = 1
  BY <1>1, NaNIsNone, ModId DEF Nonzero
<1> DEFINE q == (a * e) % P
<1>4. q \in Numbers /\ q \in Int /\ Congruent(a * e, q)
  BY <1>3, ModType
<1> HIDE DEF q
<1>5. Congruent(c * e, 1) /\ Congruent(q, a * e)
  BY <1>1, <1>3, <1>4, CongruentIs
<1>6. Congruent(c * q, c * (a * e)) /\ Congruent((c * e) * a, 1 * a)
  BY <1>3, <1>4, <1>5, CongruentOps, CongruentSelf, Zenon
<1>7. c * (a * e) = (c * e) * a /\ 1 * a = a /\ c * q \in Int /\ (c * e) * a \in Int
  BY <1>3, <1>4
<1>8. Congruent(c * q, a)
  BY <1>3, <1>6, <1>7, CongruentChain
<1>9. ASSUME a # 0, q = 0
      PROVE  FALSE
  <2>1. Congruent(0, a) /\ a % P = a /\ 0 % P = 0 /\ 0 \in Int
    BY <1>3, <1>8, <1>9, NaNIsNone, ModId
  <2>. QED  BY <1>3, <1>9, <2>1, CongruentIs
<1>. QED  BY <1>2, <1>4, <1>8, <1>9 DEF q, Nonzero

\* NaN and zero divisors.
LEMMA Strict ==
    /\ Minus(NaN) = NaN
    /\ \A a : /\ Plus(NaN, a) = NaN /\ Plus(a, NaN) = NaN
              /\ Product(NaN, a) = NaN /\ Product(a, NaN) = NaN
              /\ Quotient(NaN, a) = NaN /\ Quotient(a, NaN) = NaN /\ Quotient(a, 0) = NaN
              /\ Apply(a, NaN) = NaN
              /\ scalar_product(NaN, a) = NaN /\ scalar_product(a, NaN) = NaN
    /\ \A x, y : Axpy(NaN, x, y) = NaN /\ Axpy(x, NaN, y) = NaN /\ Axpy(x, y, NaN) = NaN
<1>1. Minus(NaN) = NaN
  BY DEF Minus
<1>2. ASSUME NEW a
      PROVE  /\ Plus(NaN, a) = NaN /\ Plus(a, NaN) = NaN
             /\ Product(NaN, a) = NaN /\ Product(a, NaN) = NaN
             /\ Quotient(NaN, a) = NaN /\ Quotient(a, NaN) = NaN /\ Quotient(a, 0) = NaN
             /\ Apply(a, NaN) = NaN
             /\ scalar_product(NaN, a) = NaN /\ scalar_product(a, NaN) = NaN
  <2>1. Plus(NaN, a) = NaN /\ Plus(a, NaN) = NaN
    BY Zenon DEF Plus
  <2>2. Product(NaN, a) = NaN /\ Product(a, NaN) = NaN
    BY Zenon DEF Product
  <2>3. Quotient(NaN, a) = NaN /\ Quotient(a, NaN) = NaN
    BY Zenon DEF Quotient
  <2>4. Quotient(a, 0) = NaN
    BY Zenon DEF Quotient
  <2>5. Apply(a, NaN) = NaN
    BY Zenon DEF Apply
  <2>6. scalar_product(NaN, a) = NaN /\ scalar_product(a, NaN) = NaN
    BY Zenon DEF scalar_product
  <2>. QED  BY <2>1, <2>2, <2>3, <2>4, <2>5, <2>6, Zenon
<1>3. \A x, y : Axpy(NaN, x, y) = NaN /\ Axpy(x, NaN, y) = NaN /\ Axpy(x, y, NaN) = NaN
  BY Zenon DEF Axpy
<1>. QED  BY <1>1, <1>2, <1>3, Zenon

LEMMA FieldIs ==
    ASSUME NEW x \in Fields
    PROVE  /\ x[1] \in Numbers /\ x[2] \in Numbers /\ x[1] \in Int /\ x[2] \in Int
           /\ x = <<x[1], x[2]>> /\ x # NaN
<1>1. x[1] \in Numbers /\ x[2] \in Numbers /\ x = <<x[1], x[2]>>
  BY DEF Fields, Complex
<1>. QED  BY <1>1, ModId, NaNIsNone

LEMMA FieldOf ==
    ASSUME NEW a \in Numbers, NEW c \in Numbers
    PROVE  <<a, c>> \in Fields /\ <<a, c>>[1] = a /\ <<a, c>>[2] = c
BY DEF Fields, Complex

LEMMA AxpyIs ==
    ASSUME NEW a \in Numbers, NEW x \in Fields, NEW y \in Fields
    PROVE  /\ Axpy(a, x, y) \in Fields
           /\ Axpy(a, x, y)[1] = MulAdd(a, x[1], y[1])
           /\ Axpy(a, x, y)[2] = MulAdd(a, x[2], y[2])
           /\ Axpy(a, x, y) = <<MulAdd(a, x[1], y[1]), MulAdd(a, x[2], y[2])>>
<1>1. a # NaN /\ x # NaN /\ y # NaN
  BY NaNIsNone
<1>2. Axpy(a, x, y) = <<MulAdd(a, x[1], y[1]), MulAdd(a, x[2], y[2])>>
  BY <1>1, Zenon DEF Axpy, MulAdd
<1>3. MulAdd(a, x[1], y[1]) \in Numbers /\ MulAdd(a, x[2], y[2]) \in Numbers
  BY FieldIs, ModId, MulAddMod
<1>. QED  BY <1>2, <1>3, FieldOf

LEMMA ProductIs ==
    ASSUME NEW x \in Fields, NEW y \in Fields
    PROVE  /\ scalar_product(x, y) \in Numbers
           /\ scalar_product(x, y) = MulAdd(x[1], y[1], x[2] * y[2])
           /\ x[2] * y[2] \in Int
<1>1. x # NaN /\ y # NaN
  BY NaNIsNone
<1>2. scalar_product(x, y) = MulAdd(x[1], y[1], x[2] * y[2])
  BY <1>1, Zenon DEF scalar_product, MulAdd
<1>3. x[2] * y[2] \in Int /\ x[1] \in Int /\ y[1] \in Int
  BY FieldIs
<1>4. MulAdd(x[1], y[1], x[2] * y[2]) \in Numbers
  BY <1>3, MulAddMod
<1>. QED  BY <1>2, <1>3, <1>4

LEMMA ApplyIs ==
    ASSUME NEW Q \in Fields \X Fields, NEW x \in Fields
    PROVE  /\ Q[1] \in Fields /\ Q[2] \in Fields
           /\ Apply(Q, x) \in Fields
           /\ Apply(Q, x)[1] = scalar_product(Q[1], x)
           /\ Apply(Q, x)[2] = scalar_product(Q[2], x)
           /\ Apply(Q, x) = <<scalar_product(Q[1], x), scalar_product(Q[2], x)>>
<1>1. Q[1] \in Fields /\ Q[2] \in Fields /\ x # NaN
  BY NaNIsNone
<1>2. Apply(Q, x) = <<scalar_product(Q[1], x), scalar_product(Q[2], x)>>
  BY <1>1, Zenon DEF Apply
<1>. QED  BY <1>1, <1>2, ProductIs, FieldOf

------------------------------------------------------------------------------
(* The algebra of fields *)

LEMMA FieldTypes ==
    ASSUME NEW a \in NumbersOrNaN, NEW x \in FieldsOrNaN, NEW y \in FieldsOrNaN,
           NEW Q \in Fields \X Fields
    PROVE  /\ Minus(a) \in NumbersOrNaN
           /\ Axpy(a, x, y) \in FieldsOrNaN /\ Apply(Q, x) \in FieldsOrNaN
           /\ scalar_product(x, y) \in NumbersOrNaN
<1>1. Minus(a) \in NumbersOrNaN
  BY OnNumbers, Strict DEF NumbersOrNaN
<1>2. Axpy(a, x, y) \in FieldsOrNaN
  BY AxpyIs, Strict DEF NumbersOrNaN, FieldsOrNaN
<1>3. Apply(Q, x) \in FieldsOrNaN
  BY ApplyIs, Strict DEF FieldsOrNaN
<1>4. scalar_product(x, y) \in NumbersOrNaN
  BY ProductIs, Strict DEF FieldsOrNaN, NumbersOrNaN
<1>. QED  BY <1>1, <1>2, <1>3, <1>4

LEMMA ScalarTypes ==
    ASSUME NEW a \in NumbersOrNaN, NEW c \in NumbersOrNaN
    PROVE  /\ Minus(a) \in NumbersOrNaN /\ Plus(a, c) \in NumbersOrNaN
           /\ Product(a, c) \in NumbersOrNaN /\ Quotient(a, c) \in NumbersOrNaN
<1>1. Minus(a) \in NumbersOrNaN /\ Plus(a, c) \in NumbersOrNaN /\ Product(a, c) \in NumbersOrNaN
  BY OnNumbers, Strict DEF NumbersOrNaN
<1>2. Quotient(a, c) \in NumbersOrNaN
  BY QuotientIs, Strict DEF NumbersOrNaN, Nonzero
<1>. QED  BY <1>1, <1>2

LEMMA MinusTwice ==
    ASSUME NEW a \in NumbersOrNaN
    PROVE  Minus(Minus(a)) = a
<1>1. ASSUME a \in Numbers
      PROVE  Minus(Minus(a)) = a
  <2> DEFINE m == (-a) % P
  <2>1. a \in Int /\ -a \in Int /\ a % P = a /\ m \in Numbers
    BY <1>1, ModId, ModType
  <2>2. Minus(a) = m /\ Minus(m) = (-m) % P
    BY <1>1, <2>1, OnNumbers
  <2> HIDE DEF m
  <2>3. (-m) % P = (-(-a)) % P
    BY <2>1, ModPlus, Zenon DEF m
  <2>. QED  BY <2>1, <2>2, <2>3
<1>. QED  BY <1>1, Strict DEF NumbersOrNaN

\* Two products of which one factor is a remainder.
PairSumOfRemainders(u, w, y, z) ==
    (u * (y % P) + w * (z % P)) % P = (u * y + w * z) % P

LEMMA PairSum ==
    ASSUME NEW u \in Int, NEW w \in Int, NEW y \in Int, NEW z \in Int
    PROVE  PairSumOfRemainders(u, w, y, z)
<1> DEFINE m == y % P
           n == z % P
<1>1. m \in Int /\ Congruent(m, y) /\ n \in Int /\ Congruent(n, z)
  BY ModType, CongruentOps
<1> HIDE DEF m, n
<1>2. Congruent(u * m, u * y) /\ Congruent(w * n, w * z)
  BY <1>1, CongruentOps, CongruentSelf, Zenon
<1>3. u * m \in Int /\ u * y \in Int /\ w * n \in Int /\ w * z \in Int
  BY <1>1
<1>4. Congruent(u * m + w * n, u * y + w * z)
  BY <1>2, <1>3, CongruentOps, Zenon
<1>5. u * m + w * n \in Int /\ u * y + w * z \in Int
  BY <1>3
<1>6. (u * m + w * n) % P = (u * y + w * z) % P
  BY <1>4, <1>5, Congruence, Zenon
<1>. QED  BY <1>6 DEF m, n, PairSumOfRemainders

\* A matrix is linear.
LEMMA RowLinear ==
    ASSUME NEW q \in Fields, NEW a \in Numbers, NEW x \in Fields, NEW y \in Fields
    PROVE  scalar_product(q, Axpy(a, x, y)) = MulAdd(a, scalar_product(q, x), scalar_product(q, y))
<1> DEFINE q1 == q[1]
           q2 == q[2]
           x1 == x[1]
           x2 == x[2]
           y1 == y[1]
           y2 == y[2]
           z1 == a * x1 + y1
           z2 == a * x2 + y2
<1>1. /\ q1 \in Int /\ q2 \in Int /\ x1 \in Int /\ x2 \in Int /\ y1 \in Int /\ y2 \in Int
      /\ a \in Int
  BY FieldIs, ModId
<1>2. /\ Axpy(a, x, y) \in Fields
      /\ Axpy(a, x, y)[1] = MulAdd(a, x1, y1) /\ Axpy(a, x, y)[2] = MulAdd(a, x2, y2)
  BY AxpyIs
<1>3. /\ scalar_product(q, x) = MulAdd(q1, x1, q2 * x2)
      /\ scalar_product(q, y) = MulAdd(q1, y1, q2 * y2)
      /\ scalar_product(q, Axpy(a, x, y)) = MulAdd(q1, MulAdd(a, x1, y1), q2 * MulAdd(a, x2, y2))
  BY <1>2, ProductIs
<1> HIDE DEF q1, q2, x1, x2, y1, y2
<1>4. z1 \in Int /\ z2 \in Int /\ MulAdd(a, x1, y1) = z1 % P /\ MulAdd(a, x2, y2) = z2 % P
  BY <1>1 DEF MulAdd
<1> HIDE DEF z1, z2
<1>5. (q1 * (z1 % P) + q2 * (z2 % P)) % P = (q1 * z1 + q2 * z2) % P
  <2>1. PairSumOfRemainders(q1, q2, z1, z2)
    BY <1>1, <1>4, PairSum
  <2>. QED  BY <2>1 DEF PairSumOfRemainders
<1> DEFINE f == q1 * x1 + q2 * x2
           g == q1 * y1 + q2 * y2
<1>6. f \in Int /\ g \in Int /\ scalar_product(q, x) = f % P /\ scalar_product(q, y) = g % P
  BY <1>1, <1>3 DEF MulAdd
<1>7. q1 * z1 + q2 * z2 = a * f + g
  BY <1>1 DEF z1, z2
<1> HIDE DEF f, g
<1>8. MulAdd(a, f % P, g % P) = MulAdd(a, f, g)
  <2>1. f % P \in Int /\ g % P \in Int
    BY <1>6, ModType
  <2>. QED  BY <1>1, <1>6, <2>1, MulAddMod
<1>9. scalar_product(q, Axpy(a, x, y)) = (a * f + g) % P
  BY <1>3, <1>4, <1>5, <1>7 DEF MulAdd
<1>. QED  BY <1>6, <1>8, <1>9 DEF MulAdd

LEMMA ApplyLinear ==
    ASSUME NEW Q \in Fields \X Fields, NEW a \in NumbersOrNaN,
           NEW x \in FieldsOrNaN, NEW y \in FieldsOrNaN
    PROVE  Apply(Q, Axpy(a, x, y)) = Axpy(a, Apply(Q, x), Apply(Q, y))
<1>1. ASSUME a \in Numbers, x \in Fields, y \in Fields
      PROVE  Apply(Q, Axpy(a, x, y)) = Axpy(a, Apply(Q, x), Apply(Q, y))
  <2>1. Axpy(a, x, y) \in Fields /\ Q[1] \in Fields /\ Q[2] \in Fields
    BY <1>1, AxpyIs, ApplyIs
  <2>2. /\ Apply(Q, x) \in Fields /\ Apply(Q, y) \in Fields
        /\ Apply(Q, x)[1] = scalar_product(Q[1], x) /\ Apply(Q, x)[2] = scalar_product(Q[2], x)
        /\ Apply(Q, y)[1] = scalar_product(Q[1], y) /\ Apply(Q, y)[2] = scalar_product(Q[2], y)
    BY <1>1, ApplyIs
  <2>3. Apply(Q, Axpy(a, x, y)) =
            <<scalar_product(Q[1], Axpy(a, x, y)), scalar_product(Q[2], Axpy(a, x, y))>>
    BY <2>1, ApplyIs
  <2>4. Axpy(a, Apply(Q, x), Apply(Q, y)) =
            <<MulAdd(a, scalar_product(Q[1], x), scalar_product(Q[1], y)),
              MulAdd(a, scalar_product(Q[2], x), scalar_product(Q[2], y))>>
    BY <1>1, <2>2, AxpyIs
  <2>. QED  BY <1>1, <2>1, <2>3, <2>4, RowLinear
<1>. QED  BY <1>1, Strict DEF NumbersOrNaN, FieldsOrNaN

\* b - (a v + z) = (b - z) - a v
LEMMA ResidualMoves ==
    ASSUME NEW a \in NumbersOrNaN, NEW v \in FieldsOrNaN, NEW z \in FieldsOrNaN,
           NEW y \in FieldsOrNaN
    PROVE  saxpy(1, Axpy(a, v, z), y) = saxpy(a, v, saxpy(1, z, y))
<1>1. ASSUME NEW v1 \in Int, NEW z1 \in Int, NEW y1 \in Int, a \in Int
      PROVE  MulAdd((-1) % P, MulAdd(a, v1, z1), y1) =
             MulAdd((-a) % P, v1, MulAdd((-1) % P, z1, y1))
  <2>1. /\ a * v1 + z1 \in Int /\ (-1) * z1 + y1 \in Int /\ -1 \in Int /\ -a \in Int
        /\ (-1) * (a * v1 + z1) + y1 = (-a) * v1 + ((-1) * z1 + y1)
    BY <1>1
  <2>2. MulAdd(-1, a * v1 + z1, y1) = MulAdd(-a, v1, (-1) * z1 + y1)
    BY <2>1, Zenon DEF MulAdd
  <2>3. /\ MulAdd((-1) % P, MulAdd(a, v1, z1), y1) = MulAdd(-1, a * v1 + z1, y1)
    <3>1. MulAdd(a, v1, z1) = (a * v1 + z1) % P /\ (a * v1 + z1) % P \in Int
      BY <2>1, ModType DEF MulAdd
    <3>. QED  BY <1>1, <2>1, <3>1, MulAddMod
  <2>4. MulAdd((-a) % P, v1, MulAdd((-1) % P, z1, y1)) = MulAdd(-a, v1, (-1) * z1 + y1)
    <3>1. MulAdd((-1) % P, z1, y1) = ((-1) * z1 + y1) % P /\ ((-1) * z1 + y1) % P \in Int
      <4>1. MulAdd((-1) % P, z1, y1) = MulAdd(-1, z1, y1)
        BY <1>1, <2>1, MulAddMod
      <4>. QED  BY <2>1, <4>1, ModType DEF MulAdd
    <3>. QED  BY <1>1, <2>1, <3>1, MulAddMod
  <2>. QED  BY <2>2, <2>3, <2>4
<1>2. ASSUME a \in Numbers, v \in Fields, z \in Fields, y \in Fields
      PROVE  Axpy((-1) % P, Axpy(a, v, z), y) = Axpy((-a) % P, v, Axpy((-1) % P, z, y))
  <2>1. (-1) % P \in Numbers /\ (-a) % P \in Numbers /\ a \in Int
    BY <1>2, ModId, ModType
  <2> DEFINE l == Axpy((-1) % P, Axpy(a, v, z), y)
             r == Axpy((-a) % P, v, Axpy((-1) % P, z, y))
  <2>2. /\ l = <<MulAdd((-1) % P, MulAdd(a, v[1], z[1]), y[1]),
                 MulAdd((-1) % P, MulAdd(a, v[2], z[2]), y[2])>>
        /\ r = <<MulAdd((-a) % P, v[1], MulAdd((-1) % P, z[1], y[1])),
                 MulAdd((-a) % P, v[2], MulAdd((-1) % P, z[2], y[2]))>>
    BY <1>2, <2>1, AxpyIs
  <2>. QED  BY <1>1, <1>2, <2>1, <2>2, FieldIs
<1>3. Minus(1) = (-1) % P /\ \A d \in Numbers : Minus(d) = (-d) % P
  BY NaNIsNone, OnNumbers
<1>4. CASE a \in Numbers /\ v \in Fields /\ z \in Fields /\ y \in Fields
  BY <1>2, <1>3, <1>4 DEF saxpy
<1>. QED  BY <1>4, Strict DEF saxpy, NumbersOrNaN, FieldsOrNaN

------------------------------------------------------------------------------
(* The matrices *)

LEMMA MatrixTypes ==
    ASSUME Qplus \in Matrices, source \in Sources
    PROVE  /\ Qplus \in Fields \X Fields /\ QplusQminus \in Fields \X Fields
           /\ Qminus \in Fields \X Fields /\ Aee \in Fields \X Fields
           /\ A \in Fields \X Fields /\ b \in Fields /\ source \in Fields
<1>1. Qplus \in Fields \X Fields /\ source \in Fields
  BY KrylovAssumption
<1>2. Qplus[1] \in Fields /\ Qplus[2] \in Fields
  BY <1>1
<1>3. QplusQminus \in Fields \X Fields
  BY <1>1, <1>2, ApplyIs DEF QplusQminus
<1>4. Qminus \in Fields \X Fields
  <2>1. /\ <<Qplus[1][1], Qplus[2][1]>> \in Fields /\ <<Qplus[1][2], Qplus[2][2]>> \in Fields
    BY <1>2, FieldIs, FieldOf
  <2>. QED  BY <2>1 DEF Qminus, Transpose
<1>5. Aee \in Fields \X Fields
  <2>1. (-Qplus[2][1]) % P \in Numbers /\ (-Qplus[2][2]) % P \in Numbers
    BY <1>2, FieldIs, ModType
  <2>2. <<(-Qplus[2][1]) % P, (-Qplus[2][2]) % P>> \in Fields
    BY <2>1, FieldOf, Zenon
  <2>. QED  BY <1>2, <2>2 DEF Aee
<1>6. A \in Fields \X Fields
  BY <1>1, <1>3, <1>5, Zenon DEF A
<1>7. b \in Fields
  <2>1. gamma5(source) = <<source[1], (-source[2]) % P>>
    BY <1>1, FieldIs DEF gamma5
  <2>2. (-source[2]) % P \in Numbers /\ source[1] \in Numbers
    BY <1>1, FieldIs, ModType
  <2>3. gamma5(source) \in Fields
    BY <2>1, <2>2, FieldOf
  <2>. QED  BY <1>1, <2>3, Zenon DEF b
<1>. QED  BY <1>1, <1>3, <1>4, <1>5, <1>6, <1>7

\* One component of Qplus (Qminus x), put together in the two orders.
LEMMA ProductOfThree ==
    ASSUME NEW q \in Fields, NEW m \in Fields, NEW n \in Fields, NEW x \in Fields
    PROVE  scalar_product(<<scalar_product(m, q), scalar_product(n, q)>>, x) =
           scalar_product(q, <<scalar_product(<<m[1], n[1]>>, x), scalar_product(<<m[2], n[2]>>, x)>>)
<1> DEFINE u1 == q[1]
           u2 == q[2]
           m1 == m[1]
           m2 == m[2]
           n1 == n[1]
           n2 == n[2]
           x1 == x[1]
           x2 == x[2]
<1>1. /\ u1 \in Int /\ u2 \in Int /\ m1 \in Int /\ m2 \in Int /\ n1 \in Int /\ n2 \in Int
      /\ x1 \in Int /\ x2 \in Int
  BY FieldIs
<1> DEFINE f == m1 * u1 + m2 * u2
           g == n1 * u1 + n2 * u2
           h == m1 * x1 + n1 * x2
           k == m2 * x1 + n2 * x2
<1>2. /\ scalar_product(m, q) = f % P /\ scalar_product(n, q) = g % P
      /\ scalar_product(m, q) \in Numbers /\ scalar_product(n, q) \in Numbers
  BY ProductIs DEF MulAdd
<1>3. /\ <<m1, n1>> \in Fields /\ <<m2, n2>> \in Fields
      /\ <<m1, n1>>[1] = m1 /\ <<m1, n1>>[2] = n1 /\ <<m2, n2>>[1] = m2 /\ <<m2, n2>>[2] = n2
  BY FieldIs, FieldOf
<1>4. /\ scalar_product(<<m1, n1>>, x) = h % P /\ scalar_product(<<m2, n2>>, x) = k % P
      /\ scalar_product(<<m1, n1>>, x) \in Numbers /\ scalar_product(<<m2, n2>>, x) \in Numbers
  BY <1>3, ProductIs DEF MulAdd
<1> DEFINE fg == <<scalar_product(m, q), scalar_product(n, q)>>
           hk == <<scalar_product(<<m1, n1>>, x), scalar_product(<<m2, n2>>, x)>>
<1>5. /\ fg \in Fields /\ fg[1] = f % P /\ fg[2] = g % P
      /\ hk \in Fields /\ hk[1] = h % P /\ hk[2] = k % P
  BY <1>2, <1>4, FieldOf
<1> HIDE DEF fg, hk
<1>6. /\ scalar_product(fg, x) = ((f % P) * x1 + (g % P) * x2) % P
      /\ scalar_product(q, hk) = (u1 * (h % P) + u2 * (k % P)) % P
  BY <1>5, ProductIs DEF MulAdd
<1> HIDE DEF u1, u2, m1, m2, n1, n2, x1, x2
<1>7. f \in Int /\ g \in Int /\ h \in Int /\ k \in Int /\ f % P \in Int /\ g % P \in Int
  BY <1>1, ModType
<1>8. x1 * f + x2 * g = u1 * h + u2 * k
  BY <1>1
<1> HIDE DEF f, g, h, k
<1>9. /\ (x1 * (f % P) + x2 * (g % P)) % P = (x1 * f + x2 * g) % P
      /\ (u1 * (h % P) + u2 * (k % P)) % P = (u1 * h + u2 * k) % P
  <2>1. PairSumOfRemainders(x1, x2, f, g) /\ PairSumOfRemainders(u1, u2, h, k)
    BY <1>1, <1>7, PairSum
  <2>. QED  BY <2>1 DEF PairSumOfRemainders
<1>10. (f % P) * x1 + (g % P) * x2 = x1 * (f % P) + x2 * (g % P)
  BY <1>1, <1>7
<1>11. scalar_product(fg, x) = scalar_product(q, hk)
  BY <1>6, <1>8, <1>9, <1>10
<1>. QED  BY <1>11 DEF fg, hk, m1, m2, n1, n2

\* CG solves with Qplus Qminus what the callers multiply by Qminus.
LEMMA NormalEquation ==
    ASSUME Qplus \in Matrices, source \in Sources, NEW x \in FieldsOrNaN
    PROVE  Apply(QplusQminus, x) = Apply(Qplus, Apply(Qminus, x))
<1>1. ASSUME x \in Fields
      PROVE  Apply(QplusQminus, x) = Apply(Qplus, Apply(Qminus, x))
  <2>1. Qplus \in Fields \X Fields /\ Qplus[1] \in Fields /\ Qplus[2] \in Fields
        /\ QplusQminus \in Fields \X Fields /\ Qminus \in Fields \X Fields
    BY MatrixTypes
  <2> DEFINE y == Apply(Qminus, x)
             m == Qplus[1]
             n == Qplus[2]
             k == <<scalar_product(m, m), scalar_product(n, m)>>
             l == <<scalar_product(m, n), scalar_product(n, n)>>
  <2>2. QplusQminus[1] = k /\ QplusQminus[2] = l
    BY <2>1, ApplyIs DEF QplusQminus
  <2>3. y = <<scalar_product(<<Qplus[1][1], Qplus[2][1]>>, x),
              scalar_product(<<Qplus[1][2], Qplus[2][2]>>, x)>> /\ y \in Fields
    BY <1>1, <2>1, ApplyIs DEF Qminus, Transpose
  <2>4. Apply(QplusQminus, x) = <<scalar_product(k, x), scalar_product(l, x)>>
    BY <1>1, <2>1, <2>2, ApplyIs
  <2>5. Apply(Qplus, y) = <<scalar_product(Qplus[1], y), scalar_product(Qplus[2], y)>>
    BY <2>1, <2>3, ApplyIs
  <2>6. scalar_product(k, x) = scalar_product(m, y) /\ scalar_product(l, x) = scalar_product(n, y)
    <3> HIDE DEF m, n
    <3>1. m \in Fields /\ n \in Fields
      BY <2>1 DEF m, n
    <3> DEFINE z == <<scalar_product(<<m[1], n[1]>>, x), scalar_product(<<m[2], n[2]>>, x)>>
    <3>2. scalar_product(k, x) = scalar_product(m, z) /\ scalar_product(l, x) = scalar_product(n, z)
      <4>1. scalar_product(k, x) = scalar_product(m, z)
        BY <1>1, <3>1, ProductOfThree
      <4>2. scalar_product(l, x) = scalar_product(n, z)
        BY <1>1, <3>1, ProductOfThree
      <4>. QED  BY <4>1, <4>2
    <3>3. y = z
      BY <2>3 DEF m, n
    <3>. QED  BY <3>2, <3>3, Zenon
  <2>. QED  BY <2>4, <2>5, <2>6
<1>. QED  BY <1>1, Strict DEF FieldsOrNaN

\* Aee is gamma5 Qplus.
LEMMA Gamma5 ==
    ASSUME Qplus \in Matrices, source \in Sources, NEW x \in FieldsOrNaN, NEW y \in Fields
    PROVE  /\ gamma5(x) \in FieldsOrNaN
           /\ Apply(Aee, x) = gamma5(Apply(Qplus, x))
           /\ scalar_product(gamma5(x), gamma5(x)) = scalar_product(x, x)
           /\ saxpy(1, gamma5(x), y) = gamma5(saxpy(1, x, gamma5(y)))
<1>1. ASSUME NEW z \in Fields
      PROVE  /\ gamma5(z) \in Fields /\ gamma5(z)[1] = z[1] /\ gamma5(z)[2] = (-z[2]) % P
             /\ gamma5(z) = <<z[1], (-z[2]) % P>>
  <2>1. gamma5(z) = <<z[1], (-z[2]) % P>>
    BY FieldIs DEF gamma5
  <2>2. (-z[2]) % P \in Numbers /\ z[1] \in Numbers
    BY FieldIs, ModType
  <2>. QED  BY <2>1, <2>2, FieldOf
<1>2. ASSUME x \in Fields
      PROVE  Apply(Aee, x) = gamma5(Apply(Qplus, x))
  <2>1. Qplus \in Fields \X Fields /\ Aee \in Fields \X Fields /\ Aee[1] = Qplus[1]
        /\ Qplus[1] \in Fields /\ Qplus[2] \in Fields
        /\ Aee[2] = <<(-Qplus[2][1]) % P, (-Qplus[2][2]) % P>> /\ Aee[2] \in Fields
    BY MatrixTypes DEF Aee
  <2> DEFINE m == Qplus[2][1]
             n == Qplus[2][2]
             x1 == x[1]
             x2 == x[2]
  <2>2. m \in Int /\ n \in Int /\ x1 \in Int /\ x2 \in Int /\ -m \in Int /\ -n \in Int
    BY <1>2, <2>1, FieldIs
  <2>3. /\ scalar_product(Aee[2], x) = (((-m) % P) * x1 + ((-n) % P) * x2) % P
        /\ scalar_product(Qplus[2], x) = (m * x1 + n * x2) % P
    BY <1>2, <2>1, ProductIs DEF MulAdd
  <2>4. (((-m) % P) * x1 + ((-n) % P) * x2) % P = (-((m * x1 + n * x2) % P)) % P
    <3> HIDE DEF m, n, x1, x2
    <3>1. (-m) % P \in Int /\ (-n) % P \in Int
      BY <2>2, ModType
    <3>2. (((-m) % P) * x1 + ((-n) % P) * x2) = x1 * ((-m) % P) + x2 * ((-n) % P)
      BY <2>2, <3>1
    <3>3. (x1 * ((-m) % P) + x2 * ((-n) % P)) % P = (x1 * (-m) + x2 * (-n)) % P
      <4>1. PairSumOfRemainders(x1, x2, -m, -n)
        BY <2>2, PairSum
      <4>. QED  BY <4>1, Zenon DEF PairSumOfRemainders
    <3>4. x1 * (-m) + x2 * (-n) = -(m * x1 + n * x2) /\ m * x1 + n * x2 \in Int
      BY <2>2
    <3>5. (-((m * x1 + n * x2) % P)) % P = (-(m * x1 + n * x2)) % P
      BY <3>4, ModPlus, Zenon
    <3>. QED  BY <3>2, <3>3, <3>4, <3>5
  <2>5. /\ Apply(Aee, x) = <<scalar_product(Aee[1], x), scalar_product(Aee[2], x)>>
        /\ Apply(Qplus, x) \in Fields
        /\ Apply(Qplus, x)[1] = scalar_product(Qplus[1], x)
        /\ Apply(Qplus, x)[2] = scalar_product(Qplus[2], x)
    BY <1>2, <2>1, ApplyIs
  <2>. QED  BY <1>1, <2>1, <2>3, <2>4, <2>5
<1>3. ASSUME x \in Fields
      PROVE  scalar_product(gamma5(x), gamma5(x)) = scalar_product(x, x)
  <2> DEFINE x1 == x[1]
             x2 == x[2]
             m == (-x2) % P
  <2>1. x1 \in Int /\ x2 \in Int /\ -x2 \in Int /\ m \in Int /\ Congruent(m, -x2)
    BY <1>3, FieldIs, ModType, CongruentOps
  <2>2. /\ scalar_product(gamma5(x), gamma5(x)) = (x1 * x1 + m * m) % P
        /\ scalar_product(x, x) = (x1 * x1 + x2 * x2) % P
    BY <1>1, <1>3, ProductIs DEF MulAdd
  <2> HIDE DEF x1, x2, m
  <2>3. Congruent(m * m, (-x2) * (-x2)) /\ (-x2) * (-x2) = x2 * x2
    BY <2>1, CongruentOps
  <2>4. m * m \in Int /\ x2 * x2 \in Int /\ x1 * x1 \in Int
    BY <2>1
  <2>5. Congruent(x1 * x1 + m * m, x1 * x1 + x2 * x2)
    BY <2>3, <2>4, CongruentOps, CongruentSelf
  <2>6. x1 * x1 + m * m \in Int /\ x1 * x1 + x2 * x2 \in Int
    BY <2>4
  <2>. QED  BY <2>2, <2>5, <2>6, Congruence
<1>4. ASSUME x \in Fields
      PROVE  saxpy(1, gamma5(x), y) = gamma5(saxpy(1, x, gamma5(y)))
  <2> DEFINE e == (-1) % P
             m == (-x[2]) % P
             n == (-y[2]) % P
             l == Axpy(e, gamma5(x), y)
             k == Axpy(e, x, gamma5(y))
  <2>1. Minus(1) = e /\ e \in Numbers
    BY NaNIsNone, OnNumbers
  <2>2. /\ gamma5(x) \in Fields /\ gamma5(x)[1] = x[1] /\ gamma5(x)[2] = m
        /\ gamma5(y) \in Fields /\ gamma5(y)[1] = y[1] /\ gamma5(y)[2] = n
    BY <1>1, <1>4
  <2>3. /\ l = <<MulAdd(e, x[1], y[1]), MulAdd(e, m, y[2])>>
        /\ k \in Fields /\ k[1] = MulAdd(e, x[1], y[1]) /\ k[2] = MulAdd(e, x[2], n)
    BY <1>4, <2>1, <2>2, AxpyIs
  <2>4. MulAdd(e, m, y[2]) = (-MulAdd(e, x[2], n)) % P
    <3> DEFINE x2 == x[2]
               y2 == y[2]
    <3>1. x2 \in Int /\ y2 \in Int /\ -x2 \in Int /\ -y2 \in Int /\ e \in Int
      BY <1>4, <2>1, FieldIs, ModId
    <3> HIDE DEF e, x2, y2
    <3>2. /\ MulAdd(e, (-x2) % P, y2) = MulAdd(e, -x2, y2)
          /\ MulAdd(e, x2, (-y2) % P) = MulAdd(e, x2, -y2)
      BY <3>1, MulAddMod
    <3>3. e * x2 + (-y2) \in Int /\ -(e * x2 + (-y2)) = e * (-x2) + y2
      BY <3>1
    <3>4. (-((e * x2 + (-y2)) % P)) % P = (-(e * x2 + (-y2))) % P
      BY <3>3, ModPlus, Zenon
    <3>. QED  BY <3>2, <3>3, <3>4 DEF MulAdd, x2, y2
  <2>5. gamma5(k) = <<k[1], (-k[2]) % P>>
    BY <1>1, <2>3
  <2>6. l = gamma5(k)
    BY <2>3, <2>4, <2>5
  <2>. QED  BY <2>1, <2>6 DEF saxpy
<1>5. gamma5(NaN) = NaN
  BY DEF gamma5
<1>. QED  BY <1>1, <1>2, <1>3, <1>4, <1>5, Strict DEF FieldsOrNaN, saxpy

------------------------------------------------------------------------------
(* Residuals *)

\* Two corrections of a field can be made in either order.
LEMMA AxpyCommutes ==
    ASSUME NEW a \in NumbersOrNaN, NEW c \in NumbersOrNaN,
           NEW v \in FieldsOrNaN, NEW w \in FieldsOrNaN, NEW z \in FieldsOrNaN
    PROVE  Axpy(a, v, Axpy(c, w, z)) = Axpy(c, w, Axpy(a, v, z))
<1>1. ASSUME a \in Int, c \in Int, NEW v1 \in Int, NEW w1 \in Int, NEW z1 \in Int
      PROVE  MulAdd(a, v1, MulAdd(c, w1, z1)) = MulAdd(c, w1, MulAdd(a, v1, z1))
  <2>1. /\ c * w1 + z1 \in Int /\ a * v1 + z1 \in Int
        /\ a * v1 + (c * w1 + z1) = c * w1 + (a * v1 + z1)
    BY <1>1
  <2>2. /\ MulAdd(a, v1, (c * w1 + z1) % P) = MulAdd(a, v1, c * w1 + z1)
        /\ MulAdd(c, w1, (a * v1 + z1) % P) = MulAdd(c, w1, a * v1 + z1)
    BY <1>1, <2>1, MulAddMod
  <2>. QED  BY <2>1, <2>2, Zenon DEF MulAdd
<1>2. ASSUME a \in Numbers, c \in Numbers, v \in Fields, w \in Fields, z \in Fields
      PROVE  Axpy(a, v, Axpy(c, w, z)) = Axpy(c, w, Axpy(a, v, z))
  <2>1. /\ Axpy(a, v, Axpy(c, w, z)) =
               <<MulAdd(a, v[1], MulAdd(c, w[1], z[1])), MulAdd(a, v[2], MulAdd(c, w[2], z[2]))>>
        /\ Axpy(c, w, Axpy(a, v, z)) =
               <<MulAdd(c, w[1], MulAdd(a, v[1], z[1])), MulAdd(c, w[2], MulAdd(a, v[2], z[2]))>>
    BY <1>2, AxpyIs
  <2>. QED  BY <1>1, <1>2, <2>1, FieldIs, ModId
<1>. QED  BY <1>2, Strict DEF NumbersOrNaN, FieldsOrNaN

\* x + a p has the residual the solvers compute instead.
LEMMA Corrected ==
    ASSUME NEW Q \in Fields \X Fields, NEW a \in NumbersOrNaN, NEW p \in FieldsOrNaN,
           NEW x \in FieldsOrNaN, NEW y \in Fields
    PROVE  saxpy(1, Apply(Q, Axpy(a, p, x)), y) = saxpy(a, Apply(Q, p), saxpy(1, Apply(Q, x), y))
<1>1. Apply(Q, Axpy(a, p, x)) = Axpy(a, Apply(Q, p), Apply(Q, x))
  BY ApplyLinear
<1>2. Apply(Q, p) \in FieldsOrNaN /\ Apply(Q, x) \in FieldsOrNaN /\ y \in FieldsOrNaN
  BY FieldTypes DEF FieldsOrNaN
<1>3. saxpy(1, Axpy(a, Apply(Q, p), Apply(Q, x)), y) =
          saxpy(a, Apply(Q, p), saxpy(1, Apply(Q, x), y))
  BY <1>2, ResidualMoves
<1>. QED  BY <1>1, <1>3

\* The residual of the state t is that of its solution.
Belongs(t) == t.rn = saxpy(1, Apply(A, t.x), b)

Running == {"cg", "save", "fast"}

LEMMA Kernels ==
    ASSUME Typed
    PROVE  /\ A \in Fields \X Fields /\ b \in Fields /\ 1 \in NumbersOrNaN
           /\ Zero \in FieldsOrNaN /\ NaN \in FieldsOrNaN /\ NaN \in NumbersOrNaN
           /\ \A a \in NumbersOrNaN : Minus(a) \in NumbersOrNaN
           /\ \A a \in NumbersOrNaN, x \in FieldsOrNaN, y \in FieldsOrNaN :
                 saxpy(a, x, y) \in FieldsOrNaN /\ Axpy(a, x, y) \in FieldsOrNaN
           /\ \A x \in FieldsOrNaN : saxpy(1, Apply(A, x), b) \in FieldsOrNaN
           /\ \A x \in FieldsOrNaN : Apply(A, x) \in FieldsOrNaN
           /\ \A x, y \in FieldsOrNaN : scalar_product(x, y) \in NumbersOrNaN
<1>1. A \in Fields \X Fields /\ b \in Fields /\ b \in FieldsOrNaN
  BY MatrixTypes DEF Typed, FieldsOrNaN
<1>2. 1 \in NumbersOrNaN /\ Zero \in FieldsOrNaN /\ NaN \in FieldsOrNaN /\ NaN \in NumbersOrNaN
  BY NaNIsNone DEF NumbersOrNaN, FieldsOrNaN
<1>3. \A a \in NumbersOrNaN : Minus(a) \in NumbersOrNaN
  BY ScalarTypes
<1>4. \A a \in NumbersOrNaN, x \in FieldsOrNaN, y \in FieldsOrNaN : Axpy(a, x, y) \in FieldsOrNaN
  BY <1>1, FieldTypes
<1>5. \A a \in NumbersOrNaN, x \in FieldsOrNaN, y \in FieldsOrNaN : saxpy(a, x, y) \in FieldsOrNaN
  BY <1>3, <1>4, Zenon DEF saxpy
<1>6. \A x \in FieldsOrNaN : Apply(A, x) \in FieldsOrNaN
  BY <1>1, <1>2, FieldTypes
<1>7. \A x \in FieldsOrNaN : saxpy(1, Apply(A, x), b) \in FieldsOrNaN
  BY <1>1, <1>2, <1>5, <1>6
<1>8. \A x, y \in FieldsOrNaN : scalar_product(x, y) \in NumbersOrNaN
  BY <1>1, <1>2, FieldTypes
<1>. QED  BY <1>1, <1>2, <1>3, <1>4, <1>5, <1>6, <1>7, <1>8

\* The iteration begins with a residual that belongs to the solution.
LEMMA RefreshComesFirst ==
    ASSUME Typed, ResidualFollowsSolution, pc \in Running, ~Refreshes
    PROVE  s \in SolverStates /\ Belongs(s)
<1>1. call.iterRefresh \in Nat /\ call.iterRefresh > 0
  BY KrylovAssumption DEF Typed, CallParameters
<1>2. iter # 0
  <2>. SUFFICES ASSUME iter = 0 PROVE FALSE
    OBVIOUS
  <2> DEFINE n == call.iterRefresh
  <2>1. n \in Nat /\ n > 0 /\ 0 \in 0 .. n - 1 /\ 0 \in Int /\ 0 = n * 0 + 0
    BY <1>1
  <2> HIDE DEF n
  <2>2. \E q \in Int : 0 = n * q + 0
    BY <2>1
  <2>3. 0 % n = 0
    BY <2>1, <2>2, RemainderIs, Zenon
  <2>. QED  BY <2>3 DEF Refreshes, n
<1>. QED  BY <1>2 DEF Typed, ResidualFollowsSolution, Belongs, Running

LEMMA CgBegins ==
    ASSUME Typed, ResidualFollowsSolution, pc = "cg"
    PROVE  /\ cg_begin \in SolverStates /\ Belongs(cg_begin) /\ cg_begin.x = s.x
<1>1. s \in SolverStates
  BY DEF Typed
<1>2. CASE Refreshes
  <2> DEFINE rn == saxpy(1, Apply(A, s.x), b)
             omega == scalar_product(rn, rn)
  <2>1. rn \in FieldsOrNaN /\ omega \in NumbersOrNaN
    BY <1>1, Kernels DEF SolverStates
  <2>2. cg_begin = [s EXCEPT !.rn = rn, !.p = rn, !.omega = omega]
    BY <1>2 DEF cg_begin, cg_refresh
  <2> HIDE DEF omega
  <2>3. cg_begin.rn = rn /\ cg_begin.x = s.x
    BY <1>1, <2>2 DEF SolverStates
  <2>4. Belongs(cg_begin)
    BY <2>3 DEF Belongs
  <2> HIDE DEF rn
  <2>. QED  BY <1>1, <2>1, <2>2, <2>3, <2>4 DEF SolverStates
<1>3. CASE ~Refreshes
  <2>1. cg_begin = [s EXCEPT !.omega = s.rho]
    BY <1>3 DEF cg_begin
  <2>2. Belongs(s)
    BY <1>3, RefreshComesFirst DEF Running
  <2>3. cg_begin \in SolverStates /\ cg_begin.rn = s.rn /\ cg_begin.x = s.x
    BY <1>1, <2>1 DEF SolverStates
  <2>. QED  BY <2>2, <2>3 DEF Belongs
<1>. QED  BY <1>2, <1>3

LEMMA CgIterates ==
    ASSUME Typed, ResidualFollowsSolution, pc = "cg"
    PROVE  /\ cg_x \in SolverStates /\ cg_residual \in SolverStates
           /\ Belongs(cg_residual)
           /\ cg_residual.rho = scalar_product(cg_residual.rn, cg_residual.rn)
<1> DEFINE t == cg_begin
           v == Apply(A, t.p)
           alpha == Quotient(t.omega, scalar_product(t.p, v))
           x == Axpy(alpha, t.p, t.x)
           rn == saxpy(alpha, v, t.rn)
           rho == scalar_product(rn, rn)
<1>1. t \in SolverStates /\ Belongs(t)
  BY CgBegins
<1> HIDE DEF t
<1>2. t.p \in FieldsOrNaN /\ t.x \in FieldsOrNaN /\ t.rn \in FieldsOrNaN /\ t.omega \in NumbersOrNaN
  BY <1>1 DEF SolverStates
<1>3. v \in FieldsOrNaN
  BY <1>2, Kernels
<1>4. alpha \in NumbersOrNaN
  BY <1>2, <1>3, Kernels, ScalarTypes
<1>5. saxpy(Minus(alpha), t.p, t.x) = x
  BY <1>4, MinusTwice DEF saxpy
<1>6. cg_x = [t EXCEPT !.v = v, !.alpha = alpha, !.x = x]
  BY <1>5 DEF cg_x, t
<1>7. saxpy(1, Apply(A, x), b) = rn
  <2>1. A \in Fields \X Fields /\ b \in Fields
    BY Kernels
  <2>2. saxpy(1, Apply(A, x), b) = saxpy(alpha, v, saxpy(1, Apply(A, t.x), b))
    BY <1>2, <1>4, <2>1, Corrected
  <2>. QED  BY <1>1, <2>2 DEF Belongs
<1> HIDE DEF alpha
<1>8. x \in FieldsOrNaN /\ rn \in FieldsOrNaN /\ rho \in NumbersOrNaN
  BY <1>2, <1>3, <1>4, Kernels
<1> HIDE DEF v, x, rn, rho
<1>9. /\ cg_x \in SolverStates /\ cg_x.alpha = alpha /\ cg_x.v = v /\ cg_x.rn = t.rn
      /\ cg_x.x = x
  BY <1>1, <1>3, <1>4, <1>6, <1>8 DEF SolverStates
<1>10. cg_residual = [cg_x EXCEPT !.rn = rn, !.rho = rho]
  BY <1>9 DEF cg_residual, rn, rho
<1>11. /\ cg_residual \in SolverStates /\ cg_residual.rn = rn /\ cg_residual.x = x
       /\ cg_residual.rho = rho
  BY <1>8, <1>9, <1>10 DEF SolverStates
<1>12. Belongs(cg_residual)
  BY <1>7, <1>11 DEF Belongs
<1>. QED  BY <1>9, <1>11, <1>12 DEF rho

LEMMA CgTurns ==
    ASSUME Typed, NEW t \in SolverStates, Belongs(t)
    PROVE  cg_direction(t) \in SolverStates /\ Belongs(cg_direction(t))
<1> DEFINE beta == Quotient(t.rho, t.omega)
           p == saxpy(Minus(beta), t.p, t.rn)
<1>1. beta \in NumbersOrNaN /\ p \in FieldsOrNaN
  BY Kernels, ScalarTypes DEF SolverStates
<1>2. cg_direction(t) = [t EXCEPT !.beta = beta, !.p = p]
  BY DEF cg_direction
<1> HIDE DEF beta, p
<1>3. /\ cg_direction(t) \in SolverStates /\ cg_direction(t).rn = t.rn
      /\ cg_direction(t).x = t.x
  BY <1>1, <1>2 DEF SolverStates
<1>. QED  BY <1>3 DEF Belongs

LEMMA StabilizedIterates ==
    ASSUME Typed, NEW t \in SolverStates, Belongs(t)
    PROVE  StabilizedStep(t) \in SolverStates /\ Belongs(StabilizedStep(t))
<1> DEFINE v == Apply(A, t.p)
           alpha == Quotient(t.rho, scalar_product(t.rhat, v))
           sn == saxpy(alpha, v, t.rn)
           tn == Apply(A, sn)
           omega == Quotient(scalar_product(tn, sn), scalar_product(tn, tn))
           rn == saxpy(omega, tn, sn)
           y == Axpy(omega, sn, t.x)
           x == Axpy(alpha, t.p, y)
<1>1. /\ t.p \in FieldsOrNaN /\ t.x \in FieldsOrNaN /\ t.rn \in FieldsOrNaN
      /\ t.rhat \in FieldsOrNaN /\ t.rho \in NumbersOrNaN
  BY DEF SolverStates
<1>2. v \in FieldsOrNaN
  BY <1>1, Kernels
<1>3. alpha \in NumbersOrNaN
  BY <1>1, <1>2, Kernels, ScalarTypes
<1>4. StabilizedStep(t) = [t EXCEPT !.v = v, !.alpha = alpha, !.omega = omega, !.rn = rn, !.x = x]
  BY DEF StabilizedStep, saxsbypz
<1> HIDE DEF alpha
<1>5. sn \in FieldsOrNaN
  BY <1>1, <1>2, <1>3, Kernels
<1> HIDE DEF sn
<1>6. tn \in FieldsOrNaN
  BY <1>5, Kernels
<1>7. omega \in NumbersOrNaN
  BY <1>5, <1>6, Kernels, ScalarTypes
<1> HIDE DEF omega
<1>8. rn \in FieldsOrNaN /\ y \in FieldsOrNaN /\ x \in FieldsOrNaN
  BY <1>1, <1>3, <1>5, <1>6, <1>7, Kernels
<1>9. saxpy(1, Apply(A, x), b) = rn
  <2> DEFINE r == saxpy(omega, tn, t.rn)
  <2>1. A \in Fields \X Fields /\ b \in Fields
    BY Kernels
  <2>2. saxpy(1, Apply(A, y), b) = r
    <3>1. saxpy(1, Apply(A, y), b) = saxpy(omega, tn, saxpy(1, Apply(A, t.x), b))
      BY <1>1, <1>5, <1>7, <2>1, Corrected
    <3>. QED  BY <3>1 DEF Belongs
  <2>3. saxpy(1, Apply(A, x), b) = saxpy(alpha, v, r)
    <3>1. saxpy(1, Apply(A, x), b) = saxpy(alpha, v, saxpy(1, Apply(A, y), b))
      BY <1>1, <1>3, <1>8, <2>1, Corrected
    <3>. QED  BY <2>2, <3>1
  <2>4. saxpy(alpha, v, r) = saxpy(omega, tn, saxpy(alpha, v, t.rn))
    <3>1. Minus(alpha) \in NumbersOrNaN /\ Minus(omega) \in NumbersOrNaN
      BY <1>3, <1>7, Kernels
    <3>. QED  BY <1>1, <1>2, <1>6, <3>1, AxpyCommutes DEF saxpy
  <2>. QED  BY <2>3, <2>4 DEF sn
<1> HIDE DEF v, tn, rn, x
<1>10. /\ StabilizedStep(t) \in SolverStates /\ StabilizedStep(t).rn = rn
       /\ StabilizedStep(t).x = x
  BY <1>2, <1>3, <1>4, <1>7, <1>8 DEF SolverStates
<1>. QED  BY <1>9, <1>10 DEF Belongs

LEMMA StabilizedTurns ==
    ASSUME Typed, NEW t \in SolverStates, Belongs(t), NEW rho_next \in NumbersOrNaN
    PROVE  /\ StabilizedDirection(t, rho_next) \in SolverStates
           /\ Belongs(StabilizedDirection(t, rho_next))
           /\ StabilizedDirection(t, rho_next).x = t.x
<1> DEFINE beta == Product(Quotient(rho_next, t.rho), Quotient(t.alpha, t.omega))
           m == Minus(Product(beta, t.omega))
           p == saxsbypz(beta, t.p, m, t.v, t.rn)
<1>1. /\ t.p \in FieldsOrNaN /\ t.v \in FieldsOrNaN /\ t.rn \in FieldsOrNaN
      /\ t.rho \in NumbersOrNaN /\ t.alpha \in NumbersOrNaN /\ t.omega \in NumbersOrNaN
  BY DEF SolverStates
<1>2. beta \in NumbersOrNaN
  BY <1>1, ScalarTypes
<1>3. StabilizedDirection(t, rho_next) = [t EXCEPT !.beta = beta, !.rho = rho_next, !.p = p]
  BY DEF StabilizedDirection
<1> HIDE DEF beta
<1>4. m \in NumbersOrNaN
  BY <1>1, <1>2, ScalarTypes
<1> HIDE DEF m
<1>5. p \in FieldsOrNaN
  BY <1>1, <1>2, <1>4, Kernels DEF saxsbypz
<1> HIDE DEF p
<1>6. /\ StabilizedDirection(t, rho_next) \in SolverStates
      /\ StabilizedDirection(t, rho_next).rn = t.rn /\ StabilizedDirection(t, rho_next).x = t.x
  BY <1>2, <1>3, <1>5 DEF SolverStates
<1>. QED  BY <1>6 DEF Belongs

------------------------------------------------------------------------------
(* CG-M: one component of the identities behind the zetas.  z0, z1 and z2  *)
(* stand for the zeta before the last, the last and the next one, b0 and   *)
(* b1 for the last beta and this one, a1 for alpha, r and w for the        *)
(* residual and the product of the matrix with the direction of the first  *)
(* system, q for the product of the shifted matrix with the direction of   *)
(* the shifted one.                                                        *)

\* DirectionFollows, component by component
DirectionOf(sigma, z0, z1, b0, a1, r, w, q) ==
    Congruent(z0 * b0 * q, z1 * (z0 * b0 * (w + sigma * r) + a1 * (z1 - z0) * r))

LEMMA ResidualStaysParallel ==
    ASSUME NEW sigma \in Int, NEW z0 \in Nonzero, NEW z1 \in Nonzero, NEW z2 \in Int,
           NEW b0 \in Nonzero, NEW b1 \in Int, NEW bk \in Int, NEW a1 \in Int,
           NEW r \in Int, NEW w \in Int, NEW q \in Int,
           DirectionOf(sigma, z0, z1, b0, a1, r, w, q),
           Congruent(z2 * (b1 * a1 * (z0 - z1) + z0 * b0 * (1 - sigma * b1)), z1 * z0 * b0),
           Congruent(z1 * bk, -(b1 * z2))
    PROVE  Congruent(z1 * r - bk * q, z2 * (r + b1 * w))
<1>1. z0 \in Int /\ z1 \in Int /\ b0 \in Int
  BY ModId DEF Nonzero
<1> DEFINE d == z0 * b0
           W == d * (w + sigma * r) + a1 * (z1 - z0) * r
           D == b1 * a1 * (z0 - z1) + d * (1 - sigma * b1)
<1>2. d \in Int /\ W \in Int /\ D \in Int
  BY <1>1
<1>3. PICK i \in Int : d * q = z1 * W + P * i
  BY DEF DirectionOf, Congruent
<1>4. PICK j \in Int : z2 * D = z1 * d + P * j
  <2>1. z1 * z0 * b0 = z1 * d
    BY <1>1
  <2>. QED  BY <2>1 DEF Congruent
<1>5. PICK k \in Int : z1 * bk = -(b1 * z2) + P * k
  BY DEF Congruent
<1> DEFINE L == z1 * r - bk * q
           R == z2 * (r + b1 * w)
           m == (b1 * z2) * i - k * (z1 * W + P * i) - z1 * r * j
<1>6. L \in Int /\ R \in Int /\ m \in Int
  BY <1>1, <1>2, PType
<1>7. (z1 * d) * L = (z1 * d) * z1 * r - (z1 * bk) * (d * q)
  BY <1>1, <1>2
<1>8. (z1 * bk) * (d * q) = (-(b1 * z2) + P * k) * (z1 * W + P * i)
  BY <1>3, <1>5
<1>9. (-(b1 * z2) + P * k) * (z1 * W + P * i)
          = -((b1 * z2) * (z1 * W)) + P * (k * (z1 * W + P * i) - (b1 * z2) * i)
  <2> DEFINE e == b1 * z2
             f == z1 * W
  <2>1. e \in Int /\ f \in Int
    BY <1>1, <1>2
  <2> HIDE DEF e, f
  <2>2. (-e + P * k) * (f + P * i) = -(e * f) + P * (k * (f + P * i) - e * i)
    BY <2>1, PType
  <2>. QED  BY <2>2 DEF e, f
<1>10. z1 * d = z2 * D - P * j
  BY <1>1, <1>2, <1>4, PType
<1>11. (z1 * d) * z1 * r + (b1 * z2) * (z1 * W) = (z1 * d) * R - z1 * r * (P * j)
  <2>1. (z1 * d) * z1 * r = (z2 * D - P * j) * (z1 * r)
    <3>1. (z1 * d) * z1 * r = (z1 * d) * (z1 * r)
      BY <1>1, <1>2
    <3>. QED  BY <1>10, <3>1
  <2>2. (z2 * D - P * j) * (z1 * r) = z2 * D * (z1 * r) - z1 * r * (P * j)
    BY <1>1, <1>2, PType
  <2>3. z2 * D * (z1 * r) + (b1 * z2) * (z1 * W) = (z1 * d) * R
    <3>1. D * r + b1 * W = d * (r + b1 * w)
      <4> HIDE DEF d
      <4>. QED  BY <1>1, <1>2
    <3> HIDE DEF D, W, d
    <3>2. z2 * D * (z1 * r) + (b1 * z2) * (z1 * W) = (z1 * z2) * (D * r + b1 * W)
      BY <1>1, <1>2
    <3>3. (z1 * z2) * (d * (r + b1 * w)) = (z1 * d) * R
      BY <1>1, <1>2
    <3>. QED  BY <3>1, <3>2, <3>3
  <2> DEFINE e == (z1 * d) * z1 * r
             f == z2 * D * (z1 * r)
             g == (b1 * z2) * (z1 * W)
             h == (z1 * d) * R
             l == z1 * r * (P * j)
  <2>4. e \in Int /\ f \in Int /\ g \in Int /\ h \in Int /\ l \in Int
    BY <1>1, <1>2, <1>6, PType
  <2>5. e = f - l /\ f + g = h
    BY <2>1, <2>2, <2>3
  <2> HIDE DEF e, f, g, h, l
  <2>6. e + g = h - l
    BY <2>4, <2>5
  <2>. QED  BY <2>6 DEF e, g, h, l
<1>12. (z1 * d) * L = (z1 * d) * R + P * m
  <2> DEFINE e == (z1 * d) * z1 * r
             g == (b1 * z2) * (z1 * W)
             h == (z1 * d) * R
             l == z1 * r * j
             n == (b1 * z2) * i
             o == k * (z1 * W + P * i)
  <2>1. e \in Int /\ g \in Int /\ h \in Int /\ l \in Int /\ n \in Int /\ o \in Int
    BY <1>1, <1>2, <1>6, PType
  <2>2. z1 * r * (P * j) = P * l
    BY <1>1, PType
  <2>3. (z1 * d) * L = e - (-g + P * (o - n)) /\ e + g = h - P * l /\ m = n - o - l
    BY <1>7, <1>8, <1>9, <1>11, <2>2
  <2> HIDE DEF e, g, h, l, n, o, L, m
  <2>. QED  BY <2>1, <2>3, PType DEF h
<1> DEFINE c == (z1 * d) % P
<1>13. c \in Nonzero
  <2>1. d % P \in Nonzero
    BY ProductNonzero
  <2>2. (z1 * (d % P)) % P \in Nonzero
    BY <2>1, ProductNonzero
  <2>3. (z1 * (d % P)) % P = (z1 * d) % P
    BY <1>1, <1>2, ModTimes
  <2>. QED  BY <2>2, <2>3
<1> HIDE DEF L, R, m, d
<1>14. z1 * d \in Int /\ (z1 * d) * L \in Int /\ (z1 * d) * R \in Int
  BY <1>1, <1>2, <1>6
<1>15. Congruent((z1 * d) * L, (z1 * d) * R)
  BY <1>6, <1>12 DEF Congruent
<1>16. Congruent(c * L, c * R)
  <2>1. Congruent(c, z1 * d) /\ c \in Int
    <3> DEFINE e == z1 * d
    <3>1. e \in Int
      BY <1>14
    <3> HIDE DEF e
    <3>2. e % P \in Int /\ Congruent(e, e % P)
      BY <3>1, ModType
    <3>3. Congruent(e % P, e)
      BY <3>1, <3>2, CongruentOps, CongruentSelf
    <3>. QED  BY <3>2, <3>3 DEF e
  <2>2. Congruent(c * L, (z1 * d) * L) /\ Congruent((z1 * d) * R, c * R)
    BY <1>6, <1>14, <2>1, CongruentOps, CongruentSelf
  <2> HIDE DEF c
  <2>3. c * L \in Int /\ c * R \in Int
    BY <1>6, <2>1
  <2>. QED  BY <1>14, <1>15, <2>2, <2>3, CongruentChain
<1>17. Congruent(L, R)
  BY <1>6, <1>13, <1>16, Cancel
<1>. QED  BY <1>17 DEF L, R

LEMMA DirectionStaysParallel ==
    ASSUME NEW sigma \in Int, NEW z1 \in Int, NEW z2 \in Int, NEW b1 \in Int, NEW bk \in Int,
           NEW ak \in Int, NEW a2 \in Int, NEW r \in Int, NEW w \in Int, NEW q \in Int,
           NEW r2 \in Int, NEW v2 \in Int, NEW w2 \in Int, NEW q2 \in Int,
           Congruent(z1 * bk, -(b1 * z2)), Congruent(z1 * b1 * ak, -(a2 * z2 * bk)),
           Congruent(z1 * r - bk * q, z2 * r2), Congruent(r2, r + b1 * w),
           Congruent(w2, v2 + a2 * w), Congruent(q2, ak * q + z2 * (v2 + sigma * r2))
    PROVE  DirectionOf(sigma, z1, z2, b1, a2, r2, w2, q2)
<1>1. PICK i \in Int : z1 * bk = -(b1 * z2) + P * i
  BY DEF Congruent
<1>2. PICK j \in Int : z1 * b1 * ak = -(a2 * z2 * bk) + P * j
  BY DEF Congruent
<1>3. PICK k \in Int : z1 * r - bk * q = z2 * r2 + P * k
  BY DEF Congruent
<1>4. PICK l \in Int : r2 = (r + b1 * w) + P * l
  BY DEF Congruent
<1>5. PICK m \in Int : w2 = (v2 + a2 * w) + P * m
  BY DEF Congruent
<1>6. PICK n \in Int : q2 = (ak * q + z2 * (v2 + sigma * r2)) + P * n
  BY DEF Congruent
<1> DEFINE d == z1 * b1
           V == v2 + sigma * r2
           L == d * q2
           R == z2 * (d * (w2 + sigma * r2) + a2 * (z2 - z1) * r2)
           o == d * n + j * q + a2 * z2 * k - z2 * d * m + a2 * z2 * z1 * l
<1>7. d \in Int /\ V \in Int /\ L \in Int /\ R \in Int /\ o \in Int
  BY PType
\* The left side with what the new direction and its alpha are.
<1>8. L = (d * ak) * q + (z2 * d) * V + P * (d * n)
  <2>1. q2 = (ak * q + z2 * V) + P * n
    BY <1>6
  <2> HIDE DEF d, V
  <2>. QED  BY <1>7, <2>1, PType
<1>9. (d * ak) * q = (a2 * z2) * (z2 * r2 - z1 * r) + P * (j * q + a2 * z2 * k)
  <2>1. d * ak = -(a2 * z2 * bk) + P * j
    BY <1>2
  <2>2. (d * ak) * q = -((a2 * z2) * (bk * q)) + P * (j * q)
    <3>1. (-(a2 * z2 * bk) + P * j) * q = -((a2 * z2) * (bk * q)) + P * (j * q)
      BY PType
    <3>. QED  BY <2>1, <3>1
  <2>3. bk * q = z1 * r - z2 * r2 - P * k
    <3> DEFINE e == bk * q
               f == z1 * r
               g == z2 * r2
               h == P * k
    <3>1. e \in Int /\ f \in Int /\ g \in Int /\ h \in Int /\ f - e = g + h
      BY <1>3, PType
    <3> HIDE DEF e, f, g, h
    <3>2. e = f - g - h
      BY <3>1
    <3>. QED  BY <3>2 DEF e, f, g, h
  <2>4. -((a2 * z2) * (z1 * r - z2 * r2 - P * k)) + P * (j * q)
            = (a2 * z2) * (z2 * r2 - z1 * r) + P * (j * q + a2 * z2 * k)
    BY PType
  <2>. QED  BY <2>2, <2>3, <2>4
\* The right side with what the new residual and its product are.
<1>10. R = (z2 * d) * V + (z2 * d) * (a2 * w) + (z2 * d) * (P * m) + (z2 * a2) * (z2 - z1) * r2
  <2>1. w2 + sigma * r2 = V + a2 * w + P * m
    BY <1>5, PType
  <2>2. R = z2 * (d * (V + a2 * w + P * m) + a2 * (z2 - z1) * r2)
    BY <2>1
  <2> HIDE DEF d, V
  <2>3. z2 * (d * (V + a2 * w + P * m) + a2 * (z2 - z1) * r2)
            = (z2 * d) * V + (z2 * d) * (a2 * w) + (z2 * d) * (P * m) + (z2 * a2) * (z2 - z1) * r2
    BY <1>7, PType
  <2>. QED  BY <2>2, <2>3
<1>11. (a2 * z2) * (z2 * r2 - z1 * r) - (z2 * d) * (a2 * w) - (z2 * a2) * (z2 - z1) * r2
           = P * (a2 * z2 * z1 * l)
  <2>1. r2 - r - b1 * w = P * l
    BY <1>4, PType
  <2>2. (a2 * z2) * (z2 * r2 - z1 * r) - (z2 * d) * (a2 * w) - (z2 * a2) * (z2 - z1) * r2
            = (a2 * z2 * z1) * (r2 - r - b1 * w)
    OBVIOUS
  <2>3. (a2 * z2 * z1) * (P * l) = P * (a2 * z2 * z1 * l)
    BY PType
  <2>. QED  BY <2>1, <2>2, <2>3
<1>12. L = R + P * o
  <2> DEFINE e == (a2 * z2) * (z2 * r2 - z1 * r)
             f == (z2 * d) * (a2 * w)
             g == (z2 * a2) * (z2 - z1) * r2
             h == (z2 * d) * V
             s1 == d * n
             s2 == j * q + a2 * z2 * k
             s3 == z2 * d * m
             s4 == a2 * z2 * z1 * l
  <2>1. /\ e \in Int /\ f \in Int /\ g \in Int /\ h \in Int /\ s1 \in Int /\ s2 \in Int
        /\ s3 \in Int /\ s4 \in Int
    BY <1>7
  <2>2. L = e + P * s2 + h + P * s1
    BY <1>8, <1>9
  <2>3. (z2 * d) * (P * m) = P * s3
    BY <1>7, PType
  <2>4. R = h + f + P * s3 + g
    BY <1>10, <2>3
  <2>5. e - f - g = P * s4
    BY <1>11
  <2>6. o = s1 + s2 - s3 + s4
    BY <1>7
  <2> HIDE DEF e, f, g, h, s1, s2, s3, s4, L, R, o
  <2>. QED  BY <2>1, <2>2, <2>4, <2>5, <2>6, PType
<1>13. Congruent(L, R)
  <2> HIDE DEF L, R, o
  <2>. QED  BY <1>7, <1>12 DEF Congruent
<1>. QED  BY <1>13 DEF DirectionOf

------------------------------------------------------------------------------
(* CG-M: the scalars *)

LEMMA NonzeroIs ==
    ASSUME NEW a \in Nonzero
    PROVE  a \in Numbers /\ a \in Int /\ a # 0 /\ a # NaN /\ Minus(a) \in Nonzero
           /\ Minus(a) \in Int /\ Congruent(Minus(a), -a)
<1>1. a \in Numbers /\ a \in Int /\ a # 0 /\ a # NaN /\ -a \in Int /\ a % P = a
  BY ModId, NaNIsNone DEF Nonzero
<1>2. Minus(a) = (-a) % P /\ Minus(a) \in Numbers
  BY <1>1, OnNumbers
<1> DEFINE m == (-a) % P
<1>3. m \in Int /\ Congruent(m, -a)
  BY <1>1, ModType, CongruentOps
<1> HIDE DEF m
<1>4. m # 0
  <2>. SUFFICES ASSUME m = 0 PROVE FALSE
    OBVIOUS
  <2>1. Congruent(m + a, (-a) + a)
    BY <1>1, <1>3, CongruentOps, CongruentSelf
  <2>2. m + a = a /\ (-a) + a = 0
    BY <1>1
  <2>3. 0 % P = 0 /\ 0 \in Int /\ Congruent(a, 0)
    BY <2>1, <2>2, NaNIsNone, ModId
  <2>. QED  BY <1>1, <2>3, CongruentIs
<1>. QED  BY <1>1, <1>2, <1>3, <1>4 DEF m, Nonzero

LEMMA ScalarIs ==
    ASSUME NEW a \in Numbers, NEW c \in Numbers
    PROVE  /\ Minus(a) \in Numbers /\ Minus(a) \in Int /\ Congruent(Minus(a), -a)
           /\ Plus(a, c) \in Numbers /\ Plus(a, c) \in Int /\ Congruent(Plus(a, c), a + c)
           /\ Product(a, c) \in Numbers /\ Product(a, c) \in Int /\ Congruent(Product(a, c), a * c)
<1>1. a \in Int /\ c \in Int
  BY ModId
<1>2. -a \in Int /\ a + c \in Int /\ a * c \in Int
  BY <1>1
<1>3. \A n \in Int : n % P \in Numbers /\ n % P \in Int /\ Congruent(n % P, n)
  BY ModType, CongruentOps
<1>4. Minus(a) = (-a) % P /\ Plus(a, c) = (a + c) % P /\ Product(a, c) = (a * c) % P
  BY OnNumbers
<1>. QED  BY <1>2, <1>3, <1>4

LEMMA ProductIsNonzero ==
    ASSUME NEW a \in Nonzero, NEW c \in Nonzero
    PROVE  Product(a, c) \in Nonzero /\ Product(a, c) \in Int /\ Congruent(Product(a, c), a * c)
<1>1. a \in Numbers /\ c \in Numbers
  BY NonzeroIs
<1>2. Product(a, c) \in Int /\ Congruent(Product(a, c), a * c)
  BY <1>1, ScalarIs
<1>3. Product(a, c) = (a * c) % P
  BY <1>1, OnNumbers
<1>. QED  BY <1>2, <1>3, ProductNonzero

\* No field but zero has norm zero, because -1 has no root.
LEMMA Definite ==
    ASSUME NEW x \in Fields, scalar_product(x, x) = 0
    PROVE  x = Zero
<1> DEFINE a == x[1]
           c == x[2]
<1>1. a \in Numbers /\ c \in Numbers /\ a \in Int /\ c \in Int /\ x = <<a, c>>
  BY FieldIs
<1>2. (a * a + c * c) % P = 0
  BY ProductIs DEF MulAdd
<1> HIDE DEF a, c
<1>3. a * a + c * c \in Int /\ 0 \in Int /\ 0 % P = 0
  BY <1>1, NaNIsNone, ModId
<1>4. Congruent(a * a + c * c, 0)
  BY <1>2, <1>3, CongruentIs
<1>5. a = 0
  <2>. SUFFICES ASSUME a # 0 PROVE FALSE
    OBVIOUS
  <2>1. a \in Nonzero
    BY <1>1 DEF Nonzero
  <2> DEFINE e == Reciprocal[a]
  <2>2. e \in Numbers /\ e \in Int /\ (a * e) % P = 1
    BY <2>1, HasReciprocal, ModId DEF Nonzero
  <2> HIDE DEF e
  <2>3. 1 \in Int /\ 1 % P = 1 /\ a * e \in Int
    BY <1>1, <2>2, NaNIsNone, ModId
  <2>4. Congruent(a * e, 1)
    BY <2>2, <2>3, CongruentIs
  <2>5. Congruent((a * e) * (a * e), 1 * 1)
    BY <2>3, <2>4, CongruentOps
  <2> DEFINE f == (a * e) * (a * e)
             g == e * c
  <2>6. f \in Int /\ g \in Int /\ g * g \in Int /\ f + g * g \in Int /\ 1 + g * g \in Int
    BY <1>1, <2>2
  <2>7. Congruent(f + g * g, 1 + g * g)
    BY <2>5, <2>6, CongruentOps, CongruentSelf
  <2>8. f + g * g = (e * e) * (a * a + c * c) /\ e * e \in Int /\ (e * e) * 0 = 0
    BY <1>1, <2>2
  <2>9. Congruent((e * e) * (a * a + c * c), (e * e) * 0)
    BY <1>3, <1>4, <2>8, CongruentOps, CongruentSelf
  <2> HIDE DEF f, g
  <2>10. Congruent(1 + g * g, 0)
    BY <1>3, <2>6, <2>7, <2>8, <2>9, CongruentIs
  <2>11. (1 + g * g) % P = 0
    BY <1>3, <2>6, <2>10, CongruentIs
  <2>. QED  BY <2>6, <2>11, NotZero
<1>6. c = 0
  <2>. SUFFICES ASSUME c # 0 PROVE FALSE
    OBVIOUS
  <2>1. (c * c) % P # 0
    BY <1>1, ProductNonzero DEF Nonzero
  <2>2. a * a + c * c = c * c
    BY <1>1, <1>5
  <2>. QED  BY <1>2, <2>1, <2>2
<1>. QED  BY <1>1, <1>5, <1>6 DEF Zero

LEMMA MinusQuotientIs ==
    ASSUME NEW a \in Numbers, NEW c \in Nonzero
    PROVE  /\ Minus(Quotient(a, c)) \in Numbers /\ Minus(Quotient(a, c)) \in Int
           /\ Congruent(c * Minus(Quotient(a, c)), -a)
           /\ a \in Nonzero => Minus(Quotient(a, c)) \in Nonzero
<1> DEFINE q == Quotient(a, c)
           m == Minus(q)
<1>1. q \in Numbers /\ q \in Int /\ Congruent(c * q, a) /\ (a \in Nonzero => q \in Nonzero)
      /\ a \in Int /\ c \in Int
  BY QuotientIs, ModId, NonzeroIs
<1> HIDE DEF q
<1>2. m \in Numbers /\ m \in Int /\ Congruent(m, -q)
  BY <1>1, ScalarIs
<1>3. a \in Nonzero => m \in Nonzero
  BY <1>1, NonzeroIs
<1> HIDE DEF m
<1>4. Congruent(c * m, c * (-q))
  BY <1>1, <1>2, CongruentOps, CongruentSelf
<1>5. c * q \in Int /\ c * m \in Int /\ c * (-q) = -(c * q) /\ -(c * q) \in Int /\ -a \in Int
  BY <1>1, <1>2
<1>6. Congruent(-(c * q), -a)
  BY <1>1, <1>5, CongruentOps
<1>7. Congruent(c * m, -a)
  BY <1>4, <1>5, <1>6, CongruentChain
<1>. QED  BY <1>2, <1>3, <1>7 DEF m, q

LEMMA ZetaIs ==
    ASSUME NEW sigma \in Numbers, NEW e, e.zeta \in Nonzero, e.zeta_prev \in Nonzero,
           NEW b0 \in Nonzero, NEW b1 \in Nonzero, NEW a1 \in Numbers
    PROVE  LET z == update_zeta_cgm(e, sigma, b0, b1, a1)
               z0 == e.zeta_prev
               z1 == e.zeta
           IN z = NaN \/ (/\ z \in Nonzero
                          /\ Congruent(z * (b1 * a1 * (z0 - z1) + z0 * b0 * (1 - sigma * b1)),
                                       z1 * z0 * b0))
<1> DEFINE z == update_zeta_cgm(e, sigma, b0, b1, a1)
           z0 == e.zeta_prev
           z1 == e.zeta
           change == Plus(z0, Minus(z1))
           kept == Plus(1, Minus(Product(sigma, b1)))
           first == Product(Product(b1, a1), change)
           second == Product(Product(z0, b0), kept)
           n == Product(Product(z1, z0), b0)
           d == Plus(first, second)
<1>1. z = Quotient(n, d)
  BY DEF update_zeta_cgm
<1>2. /\ z0 \in Nonzero /\ z1 \in Nonzero /\ z0 \in Numbers /\ z1 \in Numbers
      /\ b0 \in Numbers /\ b1 \in Numbers /\ z0 \in Int /\ z1 \in Int /\ b0 \in Int
      /\ b1 \in Int /\ a1 \in Int /\ sigma \in Int /\ 1 \in Numbers /\ 1 \in Int
  BY NonzeroIs, ModId, NaNIsNone
<1> HIDE DEF z, z0, z1
<1>3. change \in Numbers /\ change \in Int /\ Congruent(change, z0 - z1)
  <2>1. Minus(z1) \in Numbers /\ Minus(z1) \in Int /\ Congruent(Minus(z1), -z1)
    BY <1>2, ScalarIs
  <2>2. change \in Numbers /\ change \in Int /\ Congruent(change, z0 + Minus(z1))
    BY <1>2, <2>1, ScalarIs
  <2>3. Congruent(z0 + Minus(z1), z0 + (-z1)) /\ z0 + (-z1) = z0 - z1
    BY <1>2, <2>1, CongruentOps, CongruentSelf
  <2>. QED  BY <1>2, <2>1, <2>2, <2>3, CongruentChain
<1>4. kept \in Numbers /\ kept \in Int /\ Congruent(kept, 1 - sigma * b1)
  <2> DEFINE g == Product(sigma, b1)
  <2>1. g \in Numbers /\ g \in Int /\ Congruent(g, sigma * b1)
    BY <1>2, ScalarIs
  <2> HIDE DEF g
  <2>2. Minus(g) \in Numbers /\ Minus(g) \in Int /\ Congruent(Minus(g), -g)
    BY <2>1, ScalarIs
  <2>3. Plus(1, Minus(g)) \in Numbers /\ Plus(1, Minus(g)) \in Int
        /\ Congruent(Plus(1, Minus(g)), 1 + Minus(g))
    BY <1>2, <2>2, ScalarIs
  <2>4. Congruent(1 + Minus(g), 1 - sigma * b1) /\ 1 - sigma * b1 \in Int /\ 1 + Minus(g) \in Int
    <3> DEFINE h == sigma * b1
    <3>1. h \in Int /\ -h \in Int /\ -g \in Int /\ Congruent(-g, -h)
      BY <1>2, <2>1, CongruentOps
    <3> HIDE DEF h
    <3>2. Congruent(Minus(g), -h)
      BY <2>1, <2>2, <3>1, CongruentChain
    <3>3. Congruent(1 + Minus(g), 1 + (-h))
      BY <1>2, <2>2, <3>1, <3>2, CongruentOps, CongruentSelf
    <3>4. 1 + (-h) = 1 - h /\ 1 - h \in Int /\ 1 + Minus(g) \in Int
      BY <2>2, <3>1
    <3>. QED  BY <3>3, <3>4 DEF h
  <2>5. Congruent(Plus(1, Minus(g)), 1 - sigma * b1)
    BY <2>3, <2>4, CongruentChain
  <2>. QED  BY <2>3, <2>5 DEF g
<1> HIDE DEF change, kept
<1>5. first \in Numbers /\ first \in Int /\ Congruent(first, b1 * a1 * (z0 - z1))
  <2> DEFINE g == Product(b1, a1)
  <2>1. g \in Numbers /\ g \in Int /\ Congruent(g, b1 * a1) /\ b1 * a1 \in Int /\ z0 - z1 \in Int
    BY <1>2, ScalarIs
  <2> HIDE DEF g
  <2>2. Product(g, change) \in Numbers /\ Product(g, change) \in Int
        /\ Congruent(Product(g, change), g * change)
    BY <1>3, <2>1, ScalarIs
  <2>3. Congruent(g * change, (b1 * a1) * (z0 - z1))
    BY <1>3, <2>1, CongruentOps
  <2>4. g * change \in Int /\ (b1 * a1) * (z0 - z1) \in Int
    BY <1>3, <2>1
  <2>5. Congruent(Product(g, change), (b1 * a1) * (z0 - z1))
    BY <2>2, <2>3, <2>4, CongruentChain
  <2>. QED  BY <2>2, <2>5 DEF g
<1>6. second \in Numbers /\ second \in Int /\ Congruent(second, z0 * b0 * (1 - sigma * b1))
  <2> DEFINE g == Product(z0, b0)
             h == 1 - sigma * b1
  <2>1. g \in Numbers /\ g \in Int /\ Congruent(g, z0 * b0) /\ z0 * b0 \in Int /\ h \in Int
    BY <1>2, ScalarIs
  <2>2. Congruent(kept, h)
    BY <1>4
  <2> HIDE DEF g, h
  <2>3. Product(g, kept) \in Numbers /\ Product(g, kept) \in Int
        /\ Congruent(Product(g, kept), g * kept)
    BY <1>4, <2>1, ScalarIs
  <2>4. Congruent(g * kept, (z0 * b0) * h)
    BY <1>4, <2>1, <2>2, CongruentOps
  <2>5. g * kept \in Int /\ (z0 * b0) * h \in Int
    BY <1>4, <2>1
  <2>6. Congruent(Product(g, kept), (z0 * b0) * h)
    BY <2>3, <2>4, <2>5, CongruentChain
  <2>. QED  BY <2>3, <2>6 DEF g, h
<1>7. n \in Nonzero /\ n \in Int /\ Congruent(n, z1 * z0 * b0)
  <2> DEFINE g == Product(z1, z0)
  <2>1. g \in Nonzero /\ g \in Int /\ Congruent(g, z1 * z0) /\ z1 * z0 \in Int
    BY <1>2, ProductIsNonzero
  <2> HIDE DEF g
  <2>2. Product(g, b0) \in Nonzero /\ Product(g, b0) \in Int /\ Congruent(Product(g, b0), g * b0)
    BY <2>1, ProductIsNonzero
  <2>3. Congruent(g * b0, (z1 * z0) * b0) /\ g * b0 \in Int /\ (z1 * z0) * b0 \in Int
    BY <1>2, <2>1, CongruentOps, CongruentSelf
  <2>4. Congruent(Product(g, b0), (z1 * z0) * b0)
    BY <2>2, <2>3, CongruentChain
  <2>. QED  BY <2>2, <2>4 DEF g
<1> DEFINE D == b1 * a1 * (z0 - z1) + z0 * b0 * (1 - sigma * b1)
           N == z1 * z0 * b0
<1> HIDE DEF first, second, n
<1>8. d \in Numbers /\ d \in Int /\ Congruent(d, D) /\ D \in Int /\ N \in Int
  <2> DEFINE f == b1 * a1 * (z0 - z1)
             g == z0 * b0 * (1 - sigma * b1)
  <2>1. f \in Int /\ g \in Int /\ N \in Int
    BY <1>2
  <2>2. Congruent(first, f) /\ Congruent(second, g) /\ D = f + g
    BY <1>5, <1>6
  <2> HIDE DEF f, g
  <2>3. Congruent(first + second, f + g) /\ first + second \in Int /\ f + g \in Int
    BY <1>5, <1>6, <2>1, <2>2, CongruentOps
  <2>4. d \in Numbers /\ d \in Int /\ Congruent(d, first + second)
    BY <1>5, <1>6, ScalarIs
  <2> HIDE DEF d, D
  <2>. QED  BY <2>1, <2>2, <2>3, <2>4, CongruentChain
<1> HIDE DEF d
<1>9. CASE d = 0
  BY <1>1, <1>9, Strict DEF z, z0, z1
<1>10. CASE d # 0
  <2>1. d \in Nonzero /\ n \in Numbers
    BY <1>7, <1>8, <1>10 DEF Nonzero
  <2>2. z \in Nonzero /\ Congruent(d * z, n)
    BY <1>1, <1>7, <2>1, QuotientIs
  <2>3. z \in Int /\ d * z \in Int
    BY <1>8, <2>2, NonzeroIs
  <2> HIDE DEF D, N
  <2>4. Congruent(D * z, d * z) /\ D * z \in Int /\ z * D = D * z
    <3>1. Congruent(D, d) /\ Congruent(z, z)
      BY <1>8, <2>3, CongruentOps, CongruentSelf
    <3>2. Congruent(D * z, d * z)
      BY <1>8, <2>3, <3>1, CongruentOps
    <3>. QED  BY <1>8, <2>3, <3>2
  <2>5. Congruent(n, N)
    BY <1>7 DEF N
  <2>6. Congruent(z * D, N)
    <3>1. Congruent(d * z, N)
      BY <1>7, <1>8, <2>2, <2>3, <2>5, CongruentChain
    <3>. QED  BY <1>8, <2>3, <2>4, <3>1, CongruentChain
  <2>. QED  BY <2>2, <2>6 DEF D, N, z, z0, z1
<1>. QED  BY <1>9, <1>10

------------------------------------------------------------------------------
(* CG-M: the fields *)

LEMMA Component ==
    ASSUME NEW a \in Numbers, NEW x \in Fields, NEW y \in Fields, NEW i \in {1, 2}
    PROVE  /\ Axpy(a, x, y)[i] \in Int /\ x[i] \in Int /\ y[i] \in Int /\ a \in Int
           /\ Congruent(Axpy(a, x, y)[i], a * x[i] + y[i])
           /\ x[i] \in Numbers
<1>1. x[i] \in Int /\ y[i] \in Int /\ a \in Int /\ x[i] \in Numbers
  BY FieldIs, ModId
<1>2. Axpy(a, x, y)[i] = MulAdd(a, x[i], y[i])
  BY AxpyIs
<1> DEFINE m == a * x[i] + y[i]
<1>3. m \in Int
  BY <1>1
<1>4. MulAdd(a, x[i], y[i]) = m % P
  BY DEF MulAdd
<1> HIDE DEF m
<1>5. m % P \in Int /\ Congruent(m % P, m)
  BY <1>3, ModType, CongruentOps
<1>. QED  BY <1>1, <1>2, <1>4, <1>5 DEF m

LEMMA SameField ==
    ASSUME NEW x \in Fields, NEW y \in Fields, \A i \in {1, 2} : Congruent(x[i], y[i])
    PROVE  x = y
<1>1. /\ x[1] % P = x[1] /\ x[2] % P = x[2] /\ y[1] % P = y[1] /\ y[2] % P = y[2]
      /\ x = <<x[1], x[2]>> /\ y = <<y[1], y[2]>>
      /\ x[1] \in Int /\ x[2] \in Int /\ y[1] \in Int /\ y[2] \in Int
  BY FieldIs, ModId
<1>2. x[1] % P = y[1] % P /\ x[2] % P = y[2] % P
  BY <1>1, CongruentIs
<1>. QED  BY <1>1, <1>2

LEMMA ShiftedProductType ==
    ASSUME Qplus \in Matrices, source \in Sources, NEW sigma \in Numbers, NEW x \in Fields
    PROVE  ShiftedProduct(sigma, x) \in Fields /\ Apply(QplusQminus, x) \in Fields
BY MatrixTypes, ApplyIs, AxpyIs DEF ShiftedProduct

LEMMA ShiftedProductLinear ==
    ASSUME Qplus \in Matrices, source \in Sources, NEW sigma \in Numbers,
           NEW a \in Numbers, NEW x \in Fields, NEW y \in Fields
    PROVE  ShiftedProduct(sigma, Axpy(a, x, y)) =
               Axpy(a, ShiftedProduct(sigma, x), ShiftedProduct(sigma, y))
<1> DEFINE X == Apply(QplusQminus, x)
           Y == Apply(QplusQminus, y)
           f == Axpy(a, x, y)
           g == Axpy(a, X, Y)
           h == Axpy(sigma, x, X)
           k == Axpy(sigma, y, Y)
           l == Axpy(sigma, f, g)
           m == Axpy(a, h, k)
<1>1. X \in Fields /\ Y \in Fields /\ f \in Fields /\ a \in NumbersOrNaN
      /\ x \in FieldsOrNaN /\ y \in FieldsOrNaN /\ QplusQminus \in Fields \X Fields
  BY MatrixTypes, ShiftedProductType, AxpyIs DEF NumbersOrNaN, FieldsOrNaN
<1>2. Apply(QplusQminus, f) = g
  BY <1>1, ApplyLinear
<1>3. ShiftedProduct(sigma, f) = l /\ ShiftedProduct(sigma, x) = h /\ ShiftedProduct(sigma, y) = k
  BY <1>2 DEF ShiftedProduct
<1> HIDE DEF X, Y
<1>4. g \in Fields /\ h \in Fields /\ k \in Fields
  BY <1>1, AxpyIs
<1>5. ASSUME NEW i \in {1, 2}
      PROVE  Congruent(l[i], m[i])
  <2>1. /\ Congruent(f[i], a * x[i] + y[i]) /\ Congruent(g[i], a * X[i] + Y[i])
        /\ Congruent(h[i], sigma * x[i] + X[i]) /\ Congruent(k[i], sigma * y[i] + Y[i])
    BY <1>1, Component
  <2>2. /\ f[i] \in Int /\ g[i] \in Int /\ h[i] \in Int /\ k[i] \in Int /\ x[i] \in Int
        /\ y[i] \in Int /\ X[i] \in Int /\ Y[i] \in Int /\ a \in Int /\ sigma \in Int
    BY <1>1, Component
  <2> HIDE DEF f, g, h, k
  <2>3. /\ Congruent(l[i], sigma * f[i] + g[i]) /\ Congruent(m[i], a * h[i] + k[i])
        /\ l[i] \in Int /\ m[i] \in Int
    BY <1>1, <1>4, Component
  <2> HIDE DEF l, m
  <2> DEFINE x1 == x[i]
             y1 == y[i]
             X1 == X[i]
             Y1 == Y[i]
             f1 == f[i]
             g1 == g[i]
             h1 == h[i]
             k1 == k[i]
             z == sigma * (a * x1 + y1) + (a * X1 + Y1)
  <2>4. Congruent(sigma * f1 + g1, z)
    <3> HIDE DEF f1, g1, h1, k1, x1, y1, X1, Y1
    <3>1. /\ f1 \in Int /\ g1 \in Int /\ x1 \in Int /\ y1 \in Int /\ X1 \in Int /\ Y1 \in Int
          /\ Congruent(f1, a * x1 + y1) /\ Congruent(g1, a * X1 + Y1)
      BY <2>1, <2>2 DEF f1, g1, x1, y1, X1, Y1
    <3>2. a * x1 + y1 \in Int /\ a * X1 + Y1 \in Int /\ sigma * f1 \in Int
          /\ sigma * (a * x1 + y1) \in Int
      BY <2>2, <3>1
    <3>3. Congruent(sigma * f1, sigma * (a * x1 + y1))
      BY <2>2, <3>1, <3>2, CongruentOps, CongruentSelf, Zenon
    <3>. QED  BY <3>1, <3>2, <3>3, CongruentOps, Zenon
  <2>5. Congruent(a * h1 + k1, z)
    <3> HIDE DEF f1, g1, h1, k1, x1, y1, X1, Y1
    <3>1. /\ h1 \in Int /\ k1 \in Int /\ x1 \in Int /\ y1 \in Int /\ X1 \in Int /\ Y1 \in Int
          /\ Congruent(h1, sigma * x1 + X1) /\ Congruent(k1, sigma * y1 + Y1)
      BY <2>1, <2>2 DEF h1, k1, x1, y1, X1, Y1
    <3>2. sigma * x1 + X1 \in Int /\ sigma * y1 + Y1 \in Int /\ a * h1 \in Int
          /\ a * (sigma * x1 + X1) \in Int
      BY <2>2, <3>1
    <3>3. Congruent(a * h1, a * (sigma * x1 + X1))
      BY <2>2, <3>1, <3>2, CongruentOps, CongruentSelf, Zenon
    <3>4. Congruent(a * h1 + k1, a * (sigma * x1 + X1) + (sigma * y1 + Y1))
      BY <3>1, <3>2, <3>3, CongruentOps, Zenon
    <3>5. a * (sigma * x1 + X1) + (sigma * y1 + Y1) = z
      BY <2>2, <3>1
    <3>. QED  BY <3>4, <3>5
  <2>6. z \in Int /\ sigma * f1 + g1 \in Int /\ a * h1 + k1 \in Int
    BY <2>2
  <2>7. Congruent(l[i], sigma * f1 + g1) /\ Congruent(m[i], a * h1 + k1)
    BY <2>3
  <2> HIDE DEF z, f1, g1, h1, k1
  <2>8. Congruent(l[i], z) /\ Congruent(m[i], z)
    BY <2>3, <2>4, <2>5, <2>6, <2>7, CongruentChain
  <2>. QED  BY <2>3, <2>6, <2>8, CongruentIs
<1>6. l \in Fields /\ m \in Fields
  BY <1>1, <1>4, AxpyIs
<1>. QED  BY <1>3, <1>5, <1>6, SameField

LEMMA OfZero ==
    ASSUME Qplus \in Matrices, source \in Sources, NEW sigma \in Numbers
    PROVE  /\ ShiftedProduct(sigma, Zero) = Zero /\ Apply(QplusQminus, Zero) = Zero
           /\ \A x \in Fields : scalar_product(Zero, x) = 0
           /\ \A x \in Fields : Axpy(0, x, Zero) = Zero
<1>1. \A a \in Int : MulAdd(a, 0, 0) = 0 /\ MulAdd(0, a, 0) = 0
  <2>1. 0 % P = 0
    BY NaNIsNone, ModId
  <2>2. \A a \in Int : a * 0 + 0 = 0 /\ 0 * a + 0 = 0
    OBVIOUS
  <2>. QED  BY <2>1, <2>2 DEF MulAdd
<1>2. Zero \in Fields /\ Zero[1] = 0 /\ Zero[2] = 0 /\ 0 \in Numbers
  BY NaNIsNone DEF Zero
<1>3. ASSUME NEW x \in Fields
      PROVE  scalar_product(Zero, x) = 0 /\ scalar_product(x, Zero) = 0
  <2>1. /\ scalar_product(Zero, x) = MulAdd(0, x[1], 0 * x[2])
        /\ scalar_product(x, Zero) = MulAdd(x[1], 0, x[2] * 0)
    BY <1>2, ProductIs
  <2>2. x[1] \in Int /\ x[2] \in Int
    BY FieldIs
  <2>3. 0 * x[2] = 0 /\ x[2] * 0 = 0
    BY <2>2
  <2>. QED  BY <1>1, <2>1, <2>2, <2>3
<1>4. Apply(QplusQminus, Zero) = Zero
  <2>1. /\ QplusQminus \in Fields \X Fields
        /\ QplusQminus[1] \in Fields /\ QplusQminus[2] \in Fields
    BY MatrixTypes, ApplyIs, <1>2
  <2>2. Apply(QplusQminus, Zero) =
            <<scalar_product(QplusQminus[1], Zero), scalar_product(QplusQminus[2], Zero)>>
    BY <1>2, <2>1, ApplyIs
  <2>. QED  BY <1>3, <2>1, <2>2 DEF Zero
<1>5. \A a \in Numbers : Axpy(a, Zero, Zero) = Zero
  BY <1>1, <1>2, AxpyIs, ModId DEF Zero
<1>6. \A x \in Fields : Axpy(0, x, Zero) = Zero
  BY <1>1, <1>2, AxpyIs, FieldIs DEF Zero
<1>. QED  BY <1>2, <1>3, <1>4, <1>5, <1>6 DEF ShiftedProduct

\* DirectionFollows is DirectionOf for both components.
LEMMA DirectionIs ==
    ASSUME Qplus \in Matrices, source \in Sources, NEW sigma \in Numbers, NEW e, NEW t,
           e.zeta \in Nonzero, e.zeta_prev \in Nonzero, e.ps \in Fields,
           t.beta \in Nonzero, t.alpha \in Numbers, t.rn \in Fields, t.p \in Fields
    PROVE  DirectionFollows(sigma, e, t) <=>
               \A i \in {1, 2} :
                   DirectionOf(sigma, e.zeta_prev, e.zeta, t.beta, t.alpha, t.rn[i],
                               Apply(QplusQminus, t.p)[i], ShiftedProduct(sigma, e.ps)[i])
<1> DEFINE z0 == e.zeta_prev
           z1 == e.zeta
           b0 == t.beta
           a1 == t.alpha
           rn == t.rn
           X == Apply(QplusQminus, t.p)
           Q == ShiftedProduct(sigma, e.ps)
           d == Product(z0, b0)
           w == Axpy(sigma, rn, X)
           c == Product(a1, Plus(z1, Minus(z0)))
           y == Axpy(Product(z1, c), rn, Zero)
           l == Axpy(d, Q, Zero)
           m == Axpy(Product(z1, d), w, y)
<1>1. DirectionFollows(sigma, e, t) <=> l = m
  BY DEF DirectionFollows
<1>2. /\ z0 \in Numbers /\ z1 \in Numbers /\ b0 \in Numbers /\ z0 \in Int /\ z1 \in Int /\ b0 \in Int
      /\ a1 \in Numbers /\ a1 \in Int /\ rn \in Fields /\ X \in Fields /\ Q \in Fields
      /\ sigma \in Int /\ Zero \in Fields
  BY NonzeroIs, ModId, ShiftedProductType, NaNIsNone
<1> HIDE DEF z0, z1, b0, a1, rn, X, Q
<1>3. d \in Numbers /\ d \in Int /\ Congruent(d, z0 * b0)
  BY <1>2, ScalarIs
<1>4. c \in Numbers /\ c \in Int /\ Congruent(c, a1 * (z1 - z0))
  <2> DEFINE n == Minus(z0)
             o == Plus(z1, n)
  <2>1. n \in Numbers /\ n \in Int /\ Congruent(n, -z0)
    BY <1>2, ScalarIs
  <2> HIDE DEF n
  <2>2. o \in Numbers /\ o \in Int /\ Congruent(o, z1 + n)
    BY <1>2, <2>1, ScalarIs
  <2>3. c \in Numbers /\ c \in Int /\ Congruent(c, a1 * o)
    BY <1>2, <2>2, ScalarIs DEF n
  <2> HIDE DEF o, c
  <2>4. Congruent(z1 + n, z1 - z0) /\ z1 + n \in Int /\ z1 - z0 \in Int
    <3>1. -z0 \in Int /\ z1 + (-z0) = z1 - z0 /\ z1 + n \in Int /\ z1 - z0 \in Int
      BY <1>2, <2>1
    <3>2. Congruent(z1 + n, z1 + (-z0))
      BY <1>2, <2>1, <3>1, CongruentOps, CongruentSelf
    <3>. QED  BY <3>1, <3>2
  <2>5. Congruent(o, z1 - z0)
    BY <2>2, <2>4, CongruentChain
  <2>6. Congruent(a1 * o, a1 * (z1 - z0)) /\ a1 * o \in Int /\ a1 * (z1 - z0) \in Int
    BY <1>2, <2>2, <2>4, <2>5, CongruentOps, CongruentSelf
  <2>. QED  BY <2>3, <2>6, CongruentChain
<1> HIDE DEF d, c
<1> DEFINE zd == Product(z1, d)
           zc == Product(z1, c)
<1>5. /\ zd \in Numbers /\ zd \in Int /\ Congruent(zd, z1 * d)
      /\ zc \in Numbers /\ zc \in Int /\ Congruent(zc, z1 * c)
  BY <1>2, <1>3, <1>4, ScalarIs
<1> HIDE DEF zd, zc
<1>6. w \in Fields /\ y \in Fields /\ l \in Fields /\ m \in Fields
  <2>1. w \in Fields
    BY <1>2, AxpyIs
  <2>2. y \in Fields
    BY <1>2, <1>5, AxpyIs DEF zc
  <2> HIDE DEF w, y
  <2>3. l \in Fields /\ m \in Fields
    BY <1>2, <1>3, <1>5, <2>1, <2>2, AxpyIs DEF zd
  <2>. QED  BY <2>1, <2>2, <2>3
<1>7. ASSUME NEW i \in {1, 2}
      PROVE  /\ l[i] \in Int /\ m[i] \in Int
             /\ Congruent(l[i], m[i]) <=> DirectionOf(sigma, z0, z1, b0, a1, rn[i], X[i], Q[i])
  <2> DEFINE r == rn[i]
             x == X[i]
             q == Q[i]
             R == z1 * (z0 * b0 * (x + sigma * r) + a1 * (z1 - z0) * r)
  <2>1. r \in Int /\ x \in Int /\ q \in Int /\ Zero[i] = 0
    <3>1. r \in Int /\ x \in Int
      BY <1>2, Component
    <3>2. q \in Int
      BY <1>2, Component
    <3>3. Zero[i] = 0
      BY DEF Zero
    <3>. QED  BY <3>1, <3>2, <3>3
  <2>2. l[i] \in Int /\ Congruent(l[i], d * q + 0)
    BY <1>2, <1>3, <2>1, Component
  <2>3. w[i] \in Int /\ Congruent(w[i], sigma * r + x)
    BY <1>2, Component
  <2>4. y[i] \in Int /\ Congruent(y[i], zc * r + 0)
    BY <1>2, <1>5, <2>1, Component DEF zc
  <2> HIDE DEF w, y
  <2>5. m[i] \in Int /\ Congruent(m[i], zd * w[i] + y[i])
    BY <1>5, <1>6, Component DEF zd
  <2> HIDE DEF l, m, r, x, q
  <2>6. Congruent(l[i], z0 * b0 * q)
    <3>1. d * q + 0 = d * q /\ d * q \in Int /\ z0 * b0 \in Int /\ (z0 * b0) * q \in Int
      BY <1>2, <1>3, <2>1
    <3>2. Congruent(d * q, (z0 * b0) * q)
      BY <1>3, <2>1, <3>1, CongruentOps, CongruentSelf, Zenon
    <3>3. Congruent(l[i], d * q)
      BY <2>2, <3>1
    <3>. QED  BY <2>2, <3>1, <3>2, <3>3, CongruentChain
  <2>7. Congruent(m[i], R)
    <3> DEFINE wi == w[i]
               yi == y[i]
               W == sigma * r + x
               D == z0 * b0
               C == a1 * (z1 - z0)
    <3>1. W \in Int /\ D \in Int /\ C \in Int /\ wi \in Int /\ yi \in Int
      BY <1>2, <2>1, <2>3, <2>4
    <3>2. R = (z1 * D) * W + (z1 * C) * r
      BY <1>2, <2>1
    <3>3. Congruent(wi, W) /\ Congruent(d, D) /\ Congruent(c, C)
      BY <1>3, <1>4, <2>3
    <3> HIDE DEF W, D, C, wi, yi
    <3>4. /\ z1 * d \in Int /\ z1 * D \in Int /\ z1 * c \in Int /\ z1 * C \in Int
          /\ zd * wi \in Int /\ (z1 * D) * W \in Int /\ zc * r \in Int /\ (z1 * C) * r \in Int
      BY <1>2, <1>3, <1>4, <1>5, <2>1, <3>1
    <3>5. Congruent(z1 * d, z1 * D) /\ Congruent(z1 * c, z1 * C)
      BY <1>2, <1>3, <1>4, <3>1, <3>3, CongruentOps, CongruentSelf, Zenon
    <3>6. Congruent(zd, z1 * D) /\ Congruent(zc, z1 * C)
      BY <1>5, <3>4, <3>5, CongruentChain
    <3>7. Congruent(zd * wi, (z1 * D) * W) /\ Congruent(zc * r, (z1 * C) * r)
      BY <1>5, <2>1, <3>1, <3>3, <3>4, <3>6, CongruentOps, CongruentSelf, Zenon
    <3>8. Congruent(yi, zc * r) /\ zc * r + 0 = zc * r
      BY <2>4, <3>4 DEF yi
    <3>9. Congruent(yi, (z1 * C) * r)
      BY <3>1, <3>4, <3>7, <3>8, CongruentChain
    <3>10. Congruent(zd * wi + yi, (z1 * D) * W + (z1 * C) * r)
      BY <3>1, <3>4, <3>7, <3>9, CongruentOps, Zenon
    <3>11. Congruent(m[i], zd * wi + yi) /\ zd * wi + yi \in Int
           /\ (z1 * D) * W + (z1 * C) * r \in Int
      BY <2>5, <3>1, <3>4 DEF wi, yi
    <3>. QED  BY <2>5, <3>2, <3>10, <3>11, CongruentChain
  <2>8. R \in Int /\ z0 * b0 * q \in Int
    BY <1>2, <2>1
  <2>9. DirectionOf(sigma, z0, z1, b0, a1, r, x, q) <=> Congruent(z0 * b0 * q, R)
    BY DEF DirectionOf
  <2> HIDE DEF R
  <2>10. Congruent(l[i], m[i]) <=> Congruent(z0 * b0 * q, R)
    BY <2>2, <2>5, <2>6, <2>7, <2>8, CongruentIs
  <2>. QED  BY <2>2, <2>5, <2>9, <2>10 DEF r, x, q
<1>8. l = m <=> \A i \in {1, 2} : Congruent(l[i], m[i])
  <2> HIDE DEF l, m
  <2>1. ASSUME l = m, NEW i \in {1, 2} PROVE Congruent(l[i], m[i])
    BY <1>7, <2>1, CongruentSelf
  <2>. QED  BY <1>6, <2>1, SameField
<1> HIDE DEF l, m
<1>9. DirectionFollows(sigma, e, t) <=>
          \A i \in {1, 2} : DirectionOf(sigma, z0, z1, b0, a1, rn[i], X[i], Q[i])
  BY <1>1, <1>7, <1>8
<1>. QED  BY <1>9 DEF z0, z1, b0, a1, rn, X, Q

------------------------------------------------------------------------------
(* CG-M *)

LEMMA MoreOfZero ==
    /\ \A c \in Nonzero : Quotient(0, c) = 0
    /\ \A x \in Fields : scalar_product(x, Zero) = 0
<1>1. ASSUME NEW c \in Nonzero
      PROVE  Quotient(0, c) = 0
  <2> DEFINE e == Reciprocal[c]
  <2>1. e \in Int /\ c # NaN /\ c # 0 /\ 0 # NaN
    BY HasReciprocal, ModId, NaNIsNone, NonzeroIs DEF Nonzero
  <2>2. Quotient(0, c) = (0 * e) % P
    BY <2>1, Zenon DEF Quotient
  <2> HIDE DEF e
  <2>3. 0 * e = 0
    BY <2>1
  <2>. QED  BY <2>2, <2>3, NaNIsNone, ModId
<1>2. ASSUME NEW x \in Fields
      PROVE  scalar_product(x, Zero) = 0
  <2>1. x # NaN /\ Zero # NaN /\ x[1] \in Int /\ x[2] \in Int /\ Zero[1] = 0 /\ Zero[2] = 0
    BY FieldIs, NaNIsNone DEF Zero
  <2>2. scalar_product(x, Zero) = (x[1] * 0 + x[2] * 0) % P
    BY <2>1, Zenon DEF scalar_product
  <2>3. x[1] * 0 + x[2] * 0 = 0
    BY <2>1
  <2>. QED  BY <2>2, <2>3, NaNIsNone, ModId
<1>. QED  BY <1>1, <1>2

\* The first system goes on or breaks down.
LEMMA ScalarsGo ==
    ASSUME Typed, pc = "cg_m", Sound(s) \/ BrokenDown(s)
    PROVE  LET u == cg_m_scalars
           IN /\ u \in SolverStates
              /\ \/ BrokenDown(u)
                 \/ /\ Sound(s) /\ Sound(u)
                    /\ u.rn = Axpy(u.beta, Apply(QplusQminus, s.p), s.rn)
                    /\ u.p = Axpy(u.alpha, s.p, u.rn)
<1> DEFINE u == cg_m_scalars
           v == Apply(A, s.p)
           den == scalar_product(s.p, v)
           beta == Minus(Quotient(s.rho, den))
           r == Axpy(beta, v, s.rn)
           rho == scalar_product(r, r)
           alpha == Quotient(rho, s.rho)
           p == Axpy(alpha, s.p, r)
<1>1. /\ s \in SolverStates /\ s.p \in FieldsOrNaN /\ s.rn \in FieldsOrNaN
      /\ s.rho \in NumbersOrNaN
  BY DEF Typed, SolverStates
<1>2. v \in FieldsOrNaN /\ A = QplusQminus
  BY <1>1, Kernels DEF A
<1>3. u = [s EXCEPT !.v = v, !.beta = beta, !.rn = r, !.rho = rho, !.alpha = alpha, !.p = p]
  BY DEF cg_m_scalars
<1>4. den \in NumbersOrNaN
  BY <1>1, <1>2, Kernels
<1> HIDE DEF v
<1>5. beta \in NumbersOrNaN
  BY <1>1, <1>4, ScalarTypes
<1>6. BrokenDown(s) \/ den = 0 => beta = NaN
  BY Strict DEF BrokenDown
<1>7. beta = NaN => r = NaN /\ rho = NaN /\ alpha = NaN /\ p = NaN
  <2>1. beta = NaN => r = NaN
    BY Strict
  <2>2. r = NaN => rho = NaN /\ p = NaN
    BY Strict
  <2>3. rho = NaN => alpha = NaN
    BY Strict
  <2>. QED  BY <2>1, <2>2, <2>3
<1>8. ASSUME Sound(s), den # 0
      PROVE  s.p # Zero /\ s.rho \in Nonzero /\ v \in Fields /\ den \in Nonzero
  <2>1. s.p \in Fields /\ s.rho \in Numbers /\ (s.rho = 0 => s.p = Zero)
    BY <1>8 DEF Sound
  <2>2. v \in Fields
    BY <1>2, <2>1, MatrixTypes, ApplyIs DEF v, Typed
  <2>3. s.p # Zero
    BY <1>8, <2>2, OfZero, MatrixTypes, NaNIsNone DEF Typed
  <2>4. den \in Numbers
    BY <2>1, <2>2, ProductIs
  <2>. QED  BY <1>8, <2>1, <2>2, <2>3, <2>4 DEF Nonzero
<1> HIDE DEF den
<1>9. ASSUME Sound(s), den # 0
      PROVE  beta \in Nonzero
  BY <1>8, <1>9, MinusQuotientIs DEF Nonzero
<1> HIDE DEF beta
<1>10. r \in FieldsOrNaN
  BY <1>1, <1>2, <1>5, Kernels
<1>11. rho \in NumbersOrNaN
  BY <1>10, Kernels
<1>12. alpha \in NumbersOrNaN
  BY <1>1, <1>11, ScalarTypes
<1>13. p \in FieldsOrNaN
  BY <1>1, <1>10, <1>12, Kernels
<1>14. ASSUME Sound(s), den # 0
       PROVE  r \in Fields /\ rho \in Numbers /\ alpha \in Numbers /\ p \in Fields
              /\ (rho = 0 => p = Zero)
  <2>1. s.p \in Fields /\ s.rn \in Fields
    BY <1>14 DEF Sound
  <2>2. beta \in Numbers
    BY <1>9, <1>14 DEF Nonzero
  <2>3. r \in Fields
    BY <1>8, <1>14, <2>1, <2>2, AxpyIs
  <2>4. rho = 0 => r = Zero
    BY <2>3, Definite
  <2> HIDE DEF r
  <2>5. rho \in Numbers
    BY <2>3, ProductIs
  <2> HIDE DEF rho
  <2>6. alpha \in Numbers
    BY <1>8, <1>14, <2>5, QuotientIs
  <2>7. rho = 0 => alpha = 0
    BY <1>8, <1>14, MoreOfZero
  <2> HIDE DEF alpha
  <2>8. p \in Fields
    BY <2>1, <2>3, <2>6, AxpyIs
  <2>9. rho = 0 => p = Zero
    BY <2>1, <2>4, <2>7, OfZero, MatrixTypes, NaNIsNone DEF Typed
  <2>. QED  BY <2>3, <2>5, <2>6, <2>8, <2>9
<1> HIDE DEF r, rho, alpha, p, u
<1>15. /\ u \in SolverStates
       /\ u.v = v /\ u.beta = beta /\ u.rn = r /\ u.rho = rho /\ u.alpha = alpha /\ u.p = p
  BY <1>1, <1>2, <1>3, <1>5, <1>10, <1>11, <1>12, <1>13 DEF SolverStates
<1>16. CASE BrokenDown(s) \/ den = 0
  <2>1. BrokenDown(u)
    BY <1>6, <1>7, <1>15, <1>16 DEF BrokenDown
  <2>. QED  BY <1>15, <2>1 DEF u
<1>17. CASE Sound(s) /\ den # 0
  <2>1. Sound(u)
    BY <1>9, <1>14, <1>15, <1>17 DEF Sound
  <2>2. u.rn = Axpy(u.beta, Apply(QplusQminus, s.p), s.rn) /\ u.p = Axpy(u.alpha, s.p, u.rn)
    BY <1>2, <1>15 DEF r, p, v
  <2>. QED  BY <1>15, <1>17, <2>1, <2>2 DEF u
<1>. QED  BY <1>16, <1>17

\* The coefficients of a shifted system, without the quotients.
LEMMA CoefficientsAre ==
    ASSUME NEW e, e.zeta \in Nonzero, NEW a2 \in Numbers, NEW b1 \in Nonzero,
           NEW z2 \in Nonzero
    PROVE  LET z1 == e.zeta
               bk == update_beta_cgm(e, b1, z2)
               ak == update_alpha_cgm(e, a2, b1, z2, bk)
           IN /\ bk \in Numbers /\ bk \in Int /\ ak \in Numbers /\ ak \in Int
              /\ Congruent(z1 * bk, -(b1 * z2))
              /\ Congruent(z1 * b1 * ak, -(a2 * z2 * bk))
<1> DEFINE z1 == e.zeta
           n == Product(b1, z2)
           bk == update_beta_cgm(e, b1, z2)
           m == Product(a2, z2)
           o == Product(m, bk)
           d == Product(z1, b1)
           ak == update_alpha_cgm(e, a2, b1, z2, bk)
<1>1. z1 \in Nonzero /\ z1 \in Int /\ b1 \in Numbers /\ b1 \in Int /\ z2 \in Numbers /\ z2 \in Int
      /\ a2 \in Int
  BY NonzeroIs, ModId
<1>2. bk = Minus(Quotient(n, z1)) /\ ak = Minus(Quotient(o, d))
  BY DEF update_beta_cgm, update_alpha_cgm
<1> HIDE DEF z1
<1>3. n \in Numbers /\ n \in Int /\ Congruent(n, b1 * z2) /\ b1 * z2 \in Int
  BY <1>1, ScalarIs
<1>4. m \in Numbers /\ m \in Int /\ Congruent(m, a2 * z2)
  BY <1>1, ScalarIs
<1>5. d \in Nonzero /\ d \in Int /\ Congruent(d, z1 * b1) /\ z1 * b1 \in Int
  BY <1>1, ProductIsNonzero
<1> HIDE DEF n, m, d
<1>6. bk \in Numbers /\ bk \in Int /\ Congruent(z1 * bk, -n)
  BY <1>1, <1>2, <1>3, MinusQuotientIs
<1> HIDE DEF bk
<1>7. o \in Numbers /\ o \in Int /\ Congruent(o, m * bk)
  BY <1>4, <1>6, ScalarIs
<1> HIDE DEF o
<1>8. ak \in Numbers /\ ak \in Int /\ Congruent(d * ak, -o)
  BY <1>2, <1>5, <1>7, MinusQuotientIs
<1> HIDE DEF ak
<1>9. Congruent(z1 * bk, -(b1 * z2))
  <2>1. Congruent(-n, -(b1 * z2))
    BY <1>3, CongruentOps
  <2>2. z1 * bk \in Int /\ -n \in Int /\ -(b1 * z2) \in Int
    BY <1>1, <1>3, <1>6
  <2>. QED  BY <1>6, <2>1, <2>2, CongruentChain
<1>10. Congruent(z1 * b1 * ak, -(a2 * z2 * bk))
  <2>1. /\ m * bk \in Int /\ a2 * z2 \in Int /\ a2 * z2 * bk \in Int /\ d * ak \in Int
        /\ z1 * b1 * ak \in Int /\ -o \in Int /\ -(a2 * z2 * bk) \in Int
    BY <1>1, <1>4, <1>5, <1>6, <1>7, <1>8
  <2>2. Congruent(m * bk, a2 * z2 * bk)
    BY <1>4, <1>6, <2>1, CongruentOps, CongruentSelf, Zenon
  <2>3. Congruent(o, a2 * z2 * bk)
    BY <1>7, <2>1, <2>2, CongruentChain
  <2>4. Congruent(-o, -(a2 * z2 * bk))
    BY <1>7, <2>1, <2>3, CongruentOps
  <2>5. Congruent(z1 * b1 * ak, d * ak)
    BY <1>5, <1>8, <2>1, CongruentOps, CongruentSelf, Zenon
  <2>6. Congruent(z1 * b1 * ak, -o)
    BY <1>8, <2>1, <2>5, CongruentChain
  <2>. QED  BY <2>1, <2>4, <2>6, CongruentChain
<1>. QED  BY <1>6, <1>8, <1>9, <1>10 DEF z1, bk, ak

\* The identities of a shifted system after an iteration, from those before.
LEMMA ShiftedGoesOn ==
    ASSUME Qplus \in Matrices, source \in Sources, NEW sigma \in Numbers,
           NEW t, NEW u, NEW e, NEW f, NEW bk \in Numbers, NEW ak \in Numbers,
           Sound(t), Sound(u), Follows(sigma, e, t), f.zeta \in Nonzero,
           u.rn = Axpy(u.beta, Apply(QplusQminus, t.p), t.rn),
           u.p = Axpy(u.alpha, t.p, u.rn),
           Congruent(f.zeta * (u.beta * t.alpha * (e.zeta_prev - e.zeta)
                               + e.zeta_prev * t.beta * (1 - sigma * u.beta)),
                     e.zeta * e.zeta_prev * t.beta),
           Congruent(e.zeta * bk, -(u.beta * f.zeta)),
           Congruent(e.zeta * u.beta * ak, -(u.alpha * f.zeta * bk)),
           f.zeta_prev = e.zeta, f.x = Axpy(bk, e.ps, e.x),
           f.ps = Axpy(ak, e.ps, Axpy(f.zeta, u.rn, Zero))
    PROVE  Follows(sigma, f, u)
<1> DEFINE z0 == e.zeta_prev
           z1 == e.zeta
           z2 == f.zeta
           b0 == t.beta
           b1 == u.beta
           a1 == t.alpha
           a2 == u.alpha
           R == t.rn
           W == Apply(QplusQminus, t.p)
           Q == ShiftedProduct(sigma, e.ps)
           R2 == u.rn
           V2 == Apply(QplusQminus, R2)
           W2 == Apply(QplusQminus, u.p)
           v == Axpy(z2, R2, Zero)
           Q2 == ShiftedProduct(sigma, f.ps)
<1>1. /\ z0 \in Nonzero /\ z1 \in Nonzero /\ z2 \in Nonzero /\ b0 \in Nonzero /\ b1 \in Nonzero
      /\ z1 \in Int /\ z2 \in Int /\ b1 \in Int /\ z2 \in Numbers /\ b1 \in Numbers
      /\ z0 \in Numbers /\ z1 \in Numbers
  BY NonzeroIs DEF Sound, Follows
<1>2. /\ a1 \in Numbers /\ a1 \in Int /\ a2 \in Numbers /\ a2 \in Int /\ bk \in Int /\ ak \in Int
      /\ sigma \in Int
  BY ModId DEF Sound
<1>3. /\ R \in Fields /\ R2 \in Fields /\ t.p \in Fields /\ u.p \in Fields /\ Zero \in Fields
      /\ e.x \in Fields /\ e.ps \in Fields
  BY NaNIsNone DEF Sound, Follows
<1>4. W \in Fields /\ Q \in Fields /\ V2 \in Fields /\ W2 \in Fields
  BY <1>3, ShiftedProductType
<1>5. v \in Fields
  BY <1>1, <1>3, AxpyIs
<1>6. f.x \in Fields
  BY <1>3, AxpyIs
<1>7. f.ps \in Fields
  BY <1>3, <1>5, AxpyIs
<1>8. Q2 \in Fields
  BY <1>7, ShiftedProductType
<1>9. W2 = Axpy(a2, W, V2)
  <2>1. QplusQminus \in Fields \X Fields /\ a2 \in NumbersOrNaN /\ t.p \in FieldsOrNaN /\ R2 \in FieldsOrNaN
    BY <1>2, <1>3, MatrixTypes DEF NumbersOrNaN, FieldsOrNaN
  <2>. QED  BY <2>1, ApplyLinear
<1>10. Q2 = Axpy(ak, Q, ShiftedProduct(sigma, v))
  BY <1>3, <1>5, ShiftedProductLinear
<1>11. ShiftedProduct(sigma, v) = Axpy(z2, ShiftedProduct(sigma, R2), Zero)
  BY <1>1, <1>3, ShiftedProductLinear, OfZero
<1>12. ShiftedResidual(sigma, f.x) = Axpy(Minus(bk), Q, Axpy(z1, R, Zero))
  <2>1. ShiftedProduct(sigma, f.x) = Axpy(bk, Q, ShiftedProduct(sigma, e.x))
    BY <1>3, ShiftedProductLinear
  <2>2. /\ bk \in NumbersOrNaN /\ Q \in FieldsOrNaN /\ source \in FieldsOrNaN
        /\ ShiftedProduct(sigma, e.x) \in FieldsOrNaN
    BY <1>3, <1>4, MatrixTypes, ShiftedProductType DEF NumbersOrNaN, FieldsOrNaN
  <2>3. saxpy(1, Axpy(bk, Q, ShiftedProduct(sigma, e.x)), source) =
            saxpy(bk, Q, saxpy(1, ShiftedProduct(sigma, e.x), source))
    BY <2>2, ResidualMoves
  <2>4. /\ ShiftedResidual(sigma, f.x) = saxpy(1, ShiftedProduct(sigma, f.x), source)
        /\ ShiftedResidual(sigma, e.x) = saxpy(1, ShiftedProduct(sigma, e.x), source)
    BY DEF ShiftedResidual, ShiftedProduct
  <2>5. ShiftedResidual(sigma, f.x) = saxpy(bk, Q, ShiftedResidual(sigma, e.x))
    BY <2>1, <2>3, <2>4
  <2>6. ShiftedResidual(sigma, e.x) = Axpy(z1, R, Zero)
    BY DEF Follows
  <2>. QED  BY <2>5, <2>6 DEF saxpy
<1>13. \A i \in {1, 2} : DirectionOf(sigma, z0, z1, b0, a1, R[i], W[i], Q[i])
  <2>1. DirectionFollows(sigma, e, t)
    BY DEF Follows
  <2>. QED  BY <1>1, <1>2, <1>3, <2>1, DirectionIs
<1>14. R2 = Axpy(b1, W, R)
  OBVIOUS
<1> DEFINE S2 == ShiftedProduct(sigma, R2)
           Sv == ShiftedProduct(sigma, v)
<1>15. S2 \in Fields /\ Sv \in Fields /\ S2 = Axpy(sigma, R2, V2) /\ Sv = Axpy(z2, S2, Zero)
  BY <1>3, <1>5, <1>11, ShiftedProductType DEF ShiftedProduct
<1> DEFINE m == Minus(bk)
           y == Axpy(z1, R, Zero)
           g == Axpy(m, Q, y)
<1>16. m \in Numbers /\ m \in Int /\ Congruent(m, -bk) /\ y \in Fields
  BY <1>1, <1>3, ScalarIs, AxpyIs
<1>17. /\ Congruent(z2 * (b1 * a1 * (z0 - z1) + z0 * b0 * (1 - sigma * b1)), z1 * z0 * b0)
       /\ Congruent(z1 * bk, -(b1 * z2)) /\ Congruent(z1 * b1 * ak, -(a2 * z2 * bk))
  OBVIOUS
<1> HIDE DEF z0, z1, z2, b0, b1, a1, a2, R, W, Q, R2, V2, W2, v, Q2, S2, Sv, m, y
<1>18. g \in Fields
  BY <1>4, <1>16, AxpyIs
<1> HIDE DEF g
<1>19. ASSUME NEW i \in {1, 2}
       PROVE  /\ Congruent(g[i], v[i])
              /\ DirectionOf(sigma, z1, z2, b1, a2, R2[i], W2[i], Q2[i])
  <2> DEFINE r == R[i]
             w == W[i]
             q == Q[i]
             r2 == R2[i]
             v2 == V2[i]
             w2 == W2[i]
             q2 == Q2[i]
  <2>1. r \in Int /\ w \in Int /\ r2 \in Int /\ Congruent(r2, b1 * w + r)
    BY <1>1, <1>3, <1>4, <1>14, Component
  <2>2. v2 \in Int /\ w2 \in Int /\ Congruent(w2, a2 * w + v2)
    BY <1>2, <1>4, <1>9, Component
  <2>3. q \in Int /\ q2 \in Int /\ Sv[i] \in Int /\ Congruent(q2, ak * q + Sv[i])
    BY <1>4, <1>10, <1>15, Component DEF Sv
  <2>4. Zero[i] = 0
    BY DEF Zero
  <2>5. S2[i] \in Int /\ Congruent(S2[i], sigma * r2 + v2)
    BY <1>3, <1>4, <1>15, Component
  <2>6. Congruent(Sv[i], z2 * S2[i] + 0)
    BY <1>1, <1>3, <1>15, <2>4, Component
  <2>7. y[i] \in Int /\ Congruent(y[i], z1 * r + 0)
    BY <1>1, <1>3, <2>4, Component DEF y
  <2>8. g[i] \in Int /\ Congruent(g[i], m * q + y[i])
    BY <1>4, <1>16, Component DEF g
  <2>9. v[i] \in Int /\ Congruent(v[i], z2 * r2 + 0)
    BY <1>1, <1>3, <2>4, Component DEF v
  <2>10. DirectionOf(sigma, z0, z1, b0, a1, r, w, q)
    BY <1>13
  <2> DEFINE gi == g[i]
             vi == v[i]
             yi == y[i]
             si == S2[i]
             ti == Sv[i]
  <2>11. /\ gi \in Int /\ vi \in Int /\ yi \in Int /\ si \in Int /\ ti \in Int
         /\ Congruent(si, sigma * r2 + v2) /\ Congruent(ti, z2 * si + 0)
         /\ Congruent(q2, ak * q + ti) /\ Congruent(yi, z1 * r + 0)
         /\ Congruent(gi, m * q + yi) /\ Congruent(vi, z2 * r2 + 0)
    BY <2>3, <2>5, <2>6, <2>7, <2>8, <2>9
  <2> HIDE DEF r, w, q, r2, v2, w2, q2, gi, vi, yi, si, ti
  <2>12. Congruent(z1 * r - bk * q, z2 * (r + b1 * w))
    BY <1>1, <1>2, <1>17, <2>1, <2>3, <2>10, ResidualStaysParallel
  <2>13. r2 \in Int /\ r + b1 * w \in Int /\ Congruent(r2, r + b1 * w)
    <3>1. b1 * w + r = r + b1 * w /\ r + b1 * w \in Int
      BY <1>1, <2>1, <2>2
    <3>. QED  BY <2>1, <3>1
  <2>14. Congruent(z1 * r - bk * q, z2 * r2)
    <3>1. z2 * r2 \in Int /\ z2 * (r + b1 * w) \in Int /\ z1 * r - bk * q \in Int
      BY <1>1, <1>2, <2>1, <2>3, <2>13
    <3>2. Congruent(z2 * (r + b1 * w), z2 * r2)
      <4> DEFINE k == r + b1 * w
      <4>1. r2 \in Int /\ k \in Int /\ z2 \in Int /\ Congruent(r2, k)
        BY <1>1, <2>13
      <4> HIDE DEF k
      <4>2. Congruent(k, r2)
        BY <4>1, CongruentOps
      <4>3. Congruent(z2 * k, z2 * r2)
        BY <4>1, <4>2, CongruentTimes
      <4>. QED  BY <4>3 DEF k
    <3>. QED  BY <2>12, <3>1, <3>2, CongruentChain
  <2>15. Congruent(w2, v2 + a2 * w)
    <3>1. a2 * w + v2 = v2 + a2 * w
      BY <1>2, <2>1, <2>2
    <3>. QED  BY <2>2, <3>1
  <2>16. Congruent(q2, ak * q + z2 * (v2 + sigma * r2))
    <3> DEFINE k == v2 + sigma * r2
    <3>1. k \in Int /\ sigma * r2 + v2 = k
      BY <1>2, <2>1, <2>2
    <3>2. Congruent(si, k)
      BY <2>11, <3>1
    <3> HIDE DEF k
    <3>3. z2 * si \in Int /\ z2 * k \in Int /\ z2 * si + 0 = z2 * si /\ ak * q \in Int
          /\ ak * q + ti \in Int /\ ak * q + z2 * k \in Int
      BY <1>1, <1>2, <2>3, <2>11, <3>1
    <3>4. Congruent(z2 * si, z2 * k)
      <4>1. z2 \in Int /\ si \in Int /\ k \in Int
        BY <1>1, <2>11, <3>1
      <4>. QED  BY <3>2, <4>1, CongruentTimes
    <3>5. Congruent(ti, z2 * si)
      BY <2>11, <3>3
    <3>6. Congruent(ti, z2 * k)
      BY <2>11, <3>3, <3>4, <3>5, CongruentChain
    <3>7. Congruent(ak * q + ti, ak * q + z2 * k)
      BY <2>11, <3>3, <3>6, CongruentOps, CongruentSelf, Zenon
    <3>8. Congruent(q2, ak * q + z2 * k)
      BY <2>3, <2>11, <3>3, <3>7, CongruentChain DEF q2
    <3>. QED  BY <3>8 DEF k
  <2>17. q2 \in Int
    BY <2>3 DEF q2
  <2>18. DirectionOf(sigma, z1, z2, b1, a2, r2, w2, q2)
    BY <1>1, <1>2, <1>17, <2>1, <2>2, <2>3, <2>13, <2>14, <2>15, <2>16, <2>17, DirectionStaysParallel
  <2>19. Congruent(gi, vi)
    <3>1. /\ m * q \in Int /\ (-bk) * q \in Int /\ -bk \in Int /\ z1 * r \in Int /\ z2 * r2 \in Int
          /\ z1 * r + 0 = z1 * r /\ z2 * r2 + 0 = z2 * r2
          /\ (-bk) * q + z1 * r = z1 * r - bk * q
          /\ m * q + yi \in Int /\ z1 * r - bk * q \in Int
      BY <1>1, <1>2, <1>16, <2>1, <2>3, <2>11, <2>13
    <3>2. Congruent(m * q, (-bk) * q)
      BY <1>16, <2>3, <3>1, CongruentTimes
    <3>3. Congruent(yi, z1 * r) /\ Congruent(vi, z2 * r2)
      BY <2>11, <3>1
    <3>4. Congruent(m * q + yi, (-bk) * q + z1 * r)
      BY <2>11, <3>1, <3>2, <3>3, CongruentOps, Zenon
    <3>5. Congruent(m * q + yi, z1 * r - bk * q)
      BY <3>1, <3>4
    <3>6. Congruent(gi, z1 * r - bk * q)
      BY <2>11, <3>1, <3>5, CongruentChain
    <3>7. Congruent(gi, z2 * r2)
      BY <2>11, <2>14, <3>1, <3>6, CongruentChain
    <3>8. Congruent(z2 * r2, vi)
      BY <2>11, <3>1, <3>3, CongruentOps, Zenon
    <3>. QED  BY <2>11, <3>1, <3>7, <3>8, CongruentChain
  <2>. QED  BY <2>18, <2>19 DEF r2, w2, q2, gi, vi
<1>20. ShiftedResidual(sigma, f.x) = Axpy(f.zeta, u.rn, Zero)
  <2>1. g = v
    BY <1>5, <1>18, <1>19, SameField
  <2>. QED  BY <1>12, <2>1 DEF g, v, m, y, z2, R2
<1>21. DirectionFollows(sigma, f, u)
  BY <1>1, <1>2, <1>3, <1>7, <1>19, DirectionIs DEF z1, z2, b1, a2, R2, W2, Q2
<1>. QED  BY <1>1, <1>6, <1>7, <1>20, <1>21 DEF Follows, z1, z2

LEMMA EquationGoes ==
    ASSUME Typed, pc = "cg_m", Sound(s) \/ BrokenDown(s),
           NEW sigma \in DOMAIN equations, EquationRight(sigma, equations[sigma], s)
    PROVE  LET f == ShiftedSystem(sigma, equations[sigma], cg_m_scalars)
           IN f \in ShiftedSystems /\ EquationRight(sigma, f, cg_m_scalars)
<1> DEFINE e == equations[sigma]
           u == cg_m_scalars
           f == ShiftedSystem(sigma, e, u)
           zf == update_zeta_cgm(e, sigma, s.beta, u.beta, s.alpha)
           bk == update_beta_cgm(e, u.beta, zf)
           ak == update_alpha_cgm(e, u.alpha, u.beta, zf, bk)
           v == Axpy(zf, u.rn, Zero)
           x == Axpy(bk, e.ps, e.x)
           ps == Axpy(ak, e.ps, v)
           small == iter % call.blockSize = 0 /\ scalar_product(v, v) \in Small
           moved == [e EXCEPT !.zeta_prev = e.zeta, !.zeta = zf]
           went == [moved EXCEPT !.x = x, !.ps = ps, !.converged = small]
<1>1. e \in ShiftedSystems /\ sigma \in Numbers /\ s \in SolverStates
  BY DEF Typed
<1>2. u \in SolverStates
  BY ScalarsGo
<1>3. f = IF e.converged THEN moved ELSE went
  BY DEF ShiftedSystem
<1>4. /\ e.x \in FieldsOrNaN /\ e.ps \in FieldsOrNaN /\ e.zeta \in NumbersOrNaN
      /\ e.zeta_prev \in NumbersOrNaN /\ u.rn \in FieldsOrNaN
      /\ u.alpha \in NumbersOrNaN /\ u.beta \in NumbersOrNaN
      /\ s.alpha \in NumbersOrNaN /\ s.beta \in NumbersOrNaN /\ sigma \in NumbersOrNaN
      /\ Zero \in FieldsOrNaN /\ 1 \in NumbersOrNaN
  BY <1>1, <1>2, NaNIsNone DEF ShiftedSystems, SolverStates, NumbersOrNaN, FieldsOrNaN
<1> HIDE DEF e, u
<1>5. zf \in NumbersOrNaN
  <2> DEFINE change == Plus(e.zeta_prev, Minus(e.zeta))
             kept == Plus(1, Minus(Product(sigma, u.beta)))
             first == Product(Product(u.beta, s.alpha), change)
             second == Product(Product(e.zeta_prev, s.beta), kept)
             n == Product(Product(e.zeta, e.zeta_prev), s.beta)
  <2>1. change \in NumbersOrNaN
    BY <1>4, ScalarTypes
  <2>2. kept \in NumbersOrNaN
    BY <1>4, ScalarTypes
  <2>3. first \in NumbersOrNaN
    BY <1>4, <2>1, ScalarTypes
  <2>4. second \in NumbersOrNaN
    BY <1>4, <2>2, ScalarTypes
  <2>5. n \in NumbersOrNaN
    BY <1>4, ScalarTypes
  <2>6. zf = Quotient(n, Plus(first, second))
    BY DEF update_zeta_cgm
  <2> HIDE DEF n, first, second
  <2>. QED  BY <2>3, <2>4, <2>5, <2>6, ScalarTypes
<1> HIDE DEF zf
<1>6. bk \in NumbersOrNaN
  BY <1>4, <1>5, ScalarTypes DEF update_beta_cgm
<1> HIDE DEF bk
<1>7. ak \in NumbersOrNaN
  <2>1. Product(Product(u.alpha, zf), bk) \in NumbersOrNaN
    BY <1>4, <1>5, <1>6, ScalarTypes
  <2>2. Product(e.zeta, u.beta) \in NumbersOrNaN
    BY <1>4, ScalarTypes
  <2>. QED  BY <2>1, <2>2, ScalarTypes DEF update_alpha_cgm
<1> HIDE DEF ak
<1>8. v \in FieldsOrNaN
  BY <1>4, <1>5, Kernels
<1> HIDE DEF v
<1>9. x \in FieldsOrNaN /\ ps \in FieldsOrNaN
  BY <1>4, <1>6, <1>7, <1>8, Kernels
<1> HIDE DEF x, ps
<1>10. small \in BOOLEAN
  OBVIOUS
<1> HIDE DEF small
<1>11. /\ moved \in ShiftedSystems /\ moved.x = e.x /\ moved.converged = e.converged
       /\ went \in ShiftedSystems /\ went.x = x /\ went.ps = ps /\ went.converged = small
       /\ went.zeta = zf /\ went.zeta_prev = e.zeta
  BY <1>1, <1>5, <1>9, <1>10 DEF ShiftedSystems, e
<1> HIDE DEF moved, went, f
<1>12. f \in ShiftedSystems
  BY <1>3, <1>11
<1>13. CASE e.converged
  <2>1. Passes(ShiftedResidual(sigma, e.x))
    BY <1>13 DEF EquationRight, e
  <2>2. f = moved
    BY <1>3, <1>13
  <2>. QED  BY <1>11, <1>12, <1>13, <2>1, <2>2 DEF EquationRight, f, e, u
<1>14. CASE ~e.converged /\ zf = NaN
  <2>1. bk = NaN /\ v = NaN
    <3>1. bk = NaN
      BY <1>14, Strict DEF bk, update_beta_cgm
    <3>2. v = NaN
      BY <1>14, Strict DEF v
    <3>. QED  BY <3>1, <3>2
  <2>2. x = NaN /\ ps = NaN /\ scalar_product(v, v) = NaN
    BY <2>1, Strict DEF x, ps
  <2>3. ~small
    BY <2>2, NaNIsNone DEF small
  <2>4. Lost(f) /\ ~f.converged
    BY <1>3, <1>11, <1>14, <2>2, <2>3 DEF Lost
  <2>. QED  BY <1>12, <2>4 DEF EquationRight, f, e, u
<1>15. CASE ~e.converged /\ zf # NaN
  <2>1. (Sound(s) /\ Follows(sigma, e, s)) \/ Lost(e)
    BY <1>15 DEF EquationRight, e
  <2>2. ~Lost(e)
    <3>. SUFFICES ASSUME Lost(e) PROVE zf = NaN
      BY <1>15
    <3>1. Product(Product(e.zeta, e.zeta_prev), s.beta) = NaN
      BY Strict DEF Lost
    <3>. QED  BY <3>1, Strict DEF zf, update_zeta_cgm
  <2>3. ~BrokenDown(u)
    <3>. SUFFICES ASSUME BrokenDown(u) PROVE zf = NaN
      BY <1>15
    <3> DEFINE first == Product(Product(u.beta, s.alpha), Plus(e.zeta_prev, Minus(e.zeta)))
               second == Product(Product(e.zeta_prev, s.beta), Plus(1, Minus(Product(sigma, u.beta))))
               n == Product(Product(e.zeta, e.zeta_prev), s.beta)
    <3>1. first = NaN
      BY Strict DEF BrokenDown
    <3>2. zf = Quotient(n, Plus(first, second))
      BY DEF zf, update_zeta_cgm
    <3> HIDE DEF first
    <3>. QED  BY <3>1, <3>2, Strict
  <2>4. /\ Sound(s) /\ Sound(u) /\ Follows(sigma, e, s)
        /\ u.rn = Axpy(u.beta, Apply(QplusQminus, s.p), s.rn)
        /\ u.p = Axpy(u.alpha, s.p, u.rn)
    BY <2>1, <2>2, <2>3, ScalarsGo DEF u
  <2>5. /\ s.beta \in Nonzero /\ s.alpha \in Numbers /\ u.beta \in Nonzero /\ u.alpha \in Numbers
        /\ e.zeta \in Nonzero /\ e.zeta_prev \in Nonzero
    BY <2>4 DEF Sound, Follows
  <2>6. zf \in Nonzero
        /\ Congruent(zf * (u.beta * s.alpha * (e.zeta_prev - e.zeta)
                           + e.zeta_prev * s.beta * (1 - sigma * u.beta)),
                     e.zeta * e.zeta_prev * s.beta)
    BY <1>1, <1>15, <2>5, ZetaIs DEF zf
  <2>7. bk \in Numbers /\ ak \in Numbers
        /\ Congruent(e.zeta * bk, -(u.beta * zf))
        /\ Congruent(e.zeta * u.beta * ak, -(u.alpha * zf * bk))
    BY <2>5, <2>6, CoefficientsAre DEF bk, ak
  <2>8. f = went
    BY <1>3, <1>15
  <2>9. f.zeta = zf /\ f.zeta_prev = e.zeta /\ f.x = Axpy(bk, e.ps, e.x)
        /\ f.ps = Axpy(ak, e.ps, Axpy(f.zeta, u.rn, Zero)) /\ f.converged = small
    BY <1>11, <2>8 DEF x, ps, v
  <2>10. Qplus \in Matrices /\ source \in Sources
    BY DEF Typed
  <2>11. Follows(sigma, f, u)
    BY <1>1, <2>4, <2>6, <2>7, <2>9, <2>10, ShiftedGoesOn
  <2>12. f.converged => Passes(ShiftedResidual(sigma, f.x))
    BY <2>9, <2>11 DEF Follows, Passes, small, v
  <2>. QED  BY <1>12, <2>4, <2>11, <2>12 DEF EquationRight, f, e, u
<1>. QED  BY <1>13, <1>14, <1>15 DEF e

\* At the beginning a shifted system is the first one.
LEMMA EquationBegins ==
    ASSUME Qplus \in Matrices, source \in Sources, NEW sigma \in Numbers, NEW t, NEW e,
           t.rn = source, t.p = source, t.beta = 1, t.alpha = 0,
           e.x = Zero, e.ps = source, e.zeta = 1, e.zeta_prev = 1
    PROVE  Follows(sigma, e, t)
<1>1. /\ source \in Fields /\ Zero \in Fields /\ 0 \in Numbers /\ 1 \in Nonzero /\ 1 \in Numbers
      /\ sigma \in Int
  BY MatrixTypes, NaNIsNone, ModId DEF Nonzero
<1> DEFINE W == Apply(QplusQminus, source)
           Q == ShiftedProduct(sigma, source)
<1>2. W \in Fields /\ Q \in Fields /\ Q = Axpy(sigma, source, W)
  BY <1>1, ShiftedProductType DEF ShiftedProduct
<1> HIDE DEF W, Q
<1>3. ASSUME NEW i \in {1, 2}
      PROVE  DirectionOf(sigma, 1, 1, 1, 0, source[i], W[i], Q[i])
  <2> DEFINE r == source[i]
             w == W[i]
             q == Q[i]
  <2>1. r \in Int /\ w \in Int /\ q \in Int /\ Congruent(q, sigma * r + w)
    BY <1>1, <1>2, Component
  <2> HIDE DEF r, w, q
  <2>2. 1 * 1 * q = q /\ sigma * r \in Int
        /\ 1 * (1 * 1 * (w + sigma * r) + 0 * (1 - 1) * r) = sigma * r + w
    BY <1>1, <2>1
  <2>3. DirectionOf(sigma, 1, 1, 1, 0, r, w, q)
    BY <2>1, <2>2 DEF DirectionOf
  <2>. QED  BY <2>3 DEF r, w, q
<1>4. DirectionFollows(sigma, e, t)
  BY <1>1, <1>3, DirectionIs DEF W, Q
<1>5. ShiftedResidual(sigma, e.x) = Axpy(e.zeta, t.rn, Zero)
  <2> DEFINE m == Minus(1)
             g == Axpy(m, Zero, source)
             h == Axpy(1, source, Zero)
  <2>1. ShiftedResidual(sigma, e.x) = g
    BY OfZero DEF ShiftedResidual, ShiftedProduct, saxpy
  <2>2. m \in Numbers
    BY <1>1, ScalarIs
  <2> HIDE DEF m
  <2>3. g \in Fields /\ h \in Fields
    BY <1>1, <2>2, AxpyIs
  <2>4. ASSUME NEW i \in {1, 2}
        PROVE  Congruent(g[i], h[i])
    <3>1. Zero[i] = 0
      BY DEF Zero
    <3>2. source[i] \in Int /\ m \in Int /\ Congruent(g[i], m * 0 + source[i]) /\ g[i] \in Int
      BY <1>1, <2>2, <3>1, Component
    <3>3. Congruent(h[i], 1 * source[i] + 0) /\ h[i] \in Int
      BY <1>1, <3>1, Component
    <3>4. m * 0 + source[i] = source[i] /\ 1 * source[i] + 0 = source[i]
      BY <3>2
    <3> HIDE DEF g, h
    <3>5. Congruent(source[i], h[i])
      BY <3>2, <3>3, <3>4, CongruentOps
    <3>. QED  BY <3>2, <3>3, <3>4, <3>5, CongruentChain
  <2> HIDE DEF g, h
  <2>5. g = h
    BY <2>3, <2>4, SameField
  <2>. QED  BY <2>1, <2>5 DEF h
<1>. QED  BY <1>1, <1>4, <1>5 DEF Follows

------------------------------------------------------------------------------
(* The invariant *)

LEMMA FreshType ==
    ASSUME NEW x \in FieldsOrNaN
    PROVE  Fresh(x) \in SolverStates /\ Fresh(x).x = x
<1>1. NaN \in FieldsOrNaN /\ NaN \in NumbersOrNaN
  BY DEF FieldsOrNaN, NumbersOrNaN
<1>. QED  BY <1>1 DEF Fresh, SolverStates

LEMMA CallTypes ==
    ASSUME call \in Calls
    PROVE  /\ call \in CallParameters /\ call.caller \in Callers
           /\ call.cgMax \in Nat /\ call.minIterations \in Nat
<1>1. call \in CallParameters
  BY KrylovAssumption
<1>. QED  BY <1>1 DEF CallParameters

\* The CG-M is set up.
LEMMA CgmBegins ==
    ASSUME Init, call.caller = "cg_m"
    PROVE  IInv
<1>1. /\ call \in Calls /\ Qplus \in Matrices /\ source \in Sources /\ iter = 0 /\ result = NaN
      /\ pc = IF source = Zero THEN "solved" ELSE "cg_m"
      /\ setInitialConditions /\ guess = s.x
  BY DEF Init
<1>2. source \in Fields /\ 1 \in Nonzero
  BY <1>1, MatrixTypes, NaNIsNone DEF Nonzero
<1> DEFINE rho == scalar_product(source, source)
           e == [x |-> Zero, ps |-> source, zeta_prev |-> 1, zeta |-> 1, converged |-> FALSE]
<1>3. rho \in Numbers /\ (rho = 0 => source = Zero)
  BY <1>2, ProductIs, Definite
<1>4. s = [Fresh(Zero) EXCEPT !.rn = source, !.p = source, !.beta = 1, !.alpha = 0, !.rho = rho]
  BY <1>1 DEF setInitialConditions
<1>5. equations = [sigma \in Shifts |-> e]
  BY <1>1 DEF setInitialConditions
<1> HIDE DEF rho
<1>6. /\ Fresh(Zero) \in SolverStates /\ Fresh(Zero).x = Zero
      /\ source \in FieldsOrNaN /\ Zero \in FieldsOrNaN /\ NaN \in FieldsOrNaN
      /\ 0 \in NumbersOrNaN /\ 1 \in NumbersOrNaN /\ rho \in NumbersOrNaN
  BY <1>2, <1>3, FreshType, NaNIsNone DEF FieldsOrNaN, NumbersOrNaN
<1>7. /\ s \in SolverStates /\ s.rn = source /\ s.p = source /\ s.beta = 1 /\ s.alpha = 0
      /\ s.rho = rho /\ s.x = Zero
  BY <1>4, <1>6 DEF SolverStates
<1>8. /\ e \in ShiftedSystems /\ e.x = Zero /\ e.ps = source /\ e.zeta = 1 /\ e.zeta_prev = 1
      /\ e.converged = FALSE
  BY <1>6 DEF ShiftedSystems
<1> HIDE DEF e
<1>9. /\ Shifts \subseteq Numbers /\ DOMAIN equations = Shifts
      /\ \A sigma \in Shifts : equations[sigma] = e
      /\ equations \in [DOMAIN equations -> ShiftedSystems]
  BY <1>5, <1>8 DEF Shifts
<1>10. Typed
  <2>1. iter \in Nat /\ iter <= call.cgMax
    BY <1>1, CallTypes
  <2>. QED  BY <1>1, <1>6, <1>7, <1>9, <2>1 DEF Typed
<1>11. InPlace /\ ResidualFollowsSolution
  BY <1>1 DEF InPlace, ResidualFollowsSolution
<1>12. Sound(s)
  BY <1>2, <1>3, <1>7, NaNIsNone DEF Sound
<1>13. ASSUME NEW sigma \in Shifts
       PROVE  Follows(sigma, e, s)
  BY <1>1, <1>7, <1>8, <1>9, EquationBegins
<1>14. ShiftedRight
  <2>1. \A sigma \in DOMAIN equations : EquationRight(sigma, equations[sigma], s)
    BY <1>8, <1>9, <1>12, <1>13 DEF EquationRight
  <2>. QED  BY <1>12, <2>1 DEF ShiftedRight
<1>15. ReturnedSolutionsSolve
  <2>1. SUFFICES ASSUME source = Zero, NEW sigma \in DOMAIN equations
                 PROVE  Passes(ShiftedResidual(sigma, equations[sigma].x))
    BY <1>1 DEF ReturnedSolutionsSolve, Passes
  <2>2. ShiftedResidual(sigma, equations[sigma].x) = Axpy(1, Zero, Zero)
    BY <1>7, <1>8, <1>9, <1>13, <2>1 DEF Follows
  <2>3. Axpy(1, Zero, Zero) = Zero
    <3>1. Zero # NaN /\ 1 # NaN /\ (1 * 0 + 0) % P = 0
      BY NaNIsNone, ModId
    <3>2. Zero[1] = 0 /\ Zero[2] = 0
      BY DEF Zero
    <3>. QED  BY <3>1, <3>2 DEF Axpy, Zero
  <2>4. scalar_product(Zero, Zero) \in Small
    BY <1>1, MoreOfZero, NaNIsNone
  <2>. QED  BY <2>2, <2>3, <2>4 DEF Passes
<1>. QED  BY <1>10, <1>11, <1>14, <1>15 DEF IInv

LEMMA InitHolds == Init => IInv
<1> SUFFICES ASSUME Init PROVE IInv
  OBVIOUS
<1>1. CASE call.caller = "cg_m"
  BY <1>1, CgmBegins
<1>2. CASE call.caller # "cg_m"
  <2>1. /\ call \in Calls /\ Qplus \in Matrices /\ source \in Sources
        /\ iter = 0 /\ result = NaN /\ guess = s.x /\ equations = <<>>
        /\ pc \in Running /\ s \in {Fresh(Cold), Fresh(Zero)}
    BY <1>2 DEF Init, Running, bicgstab
  <2>2. Cold \in FieldsOrNaN /\ Zero \in FieldsOrNaN /\ NaN \in FieldsOrNaN
    BY NaNIsNone, FieldOf DEF FieldsOrNaN, Cold
  <2>3. s \in SolverStates /\ s.x \in FieldsOrNaN
    BY <2>1, <2>2, FreshType
  <2>4. DOMAIN equations = {} /\ equations \in [DOMAIN equations -> ShiftedSystems]
    BY <2>1
  <2>5. iter \in Nat /\ iter <= call.cgMax
    BY <2>1, CallTypes
  <2>6. Typed
    BY <2>1, <2>2, <2>3, <2>4, <2>5 DEF Typed
  <2>7. InPlace /\ ResidualFollowsSolution /\ ShiftedRight /\ ReturnedSolutionsSolve
    BY <1>2, <2>1 DEF InPlace, ResidualFollowsSolution, ShiftedRight, ReturnedSolutionsSolve, Running
  <2>. QED  BY <2>6, <2>7 DEF IInv
<1>. QED  BY <1>1, <1>2

LEMMA ThrowsKeeps ==
    ASSUME Typed, InPlace, pc \in Running, NEW exception \in {"stuck", "not_solved"},
           NEW x \in FieldsOrNaN, Throws(exception, x)
    PROVE  IInv'
<1>1. UNCHANGED <<call, Qplus, source, equations, result>>
  BY DEF Throws, given
<1>2. call.caller # "cg_m"
  BY DEF InPlace, Running
<1>3. /\ pc' \in {"cg", "stuck", "not_solved"} /\ s' \in SolverStates /\ guess' \in FieldsOrNaN
      /\ iter' \in {0, iter} /\ (pc' = "cg" => iter' = 0)
  <2>1. CASE pc \in {"save", "fast"} /\ Retries
    <3>1. pc' = "cg" /\ s' = Fresh(RetryGuess(x)) /\ guess' = RetryGuess(x) /\ iter' = 0
      BY <2>1 DEF Throws
    <3>2. RetryGuess(x) \in FieldsOrNaN
      BY NaNIsNone DEF RetryGuess, FieldsOrNaN
    <3>. QED  BY <3>1, <3>2, FreshType
  <2>2. CASE ~(pc \in {"save", "fast"} /\ Retries)
    <3>1. pc' = exception /\ s' = [s EXCEPT !.x = x] /\ guess' = guess /\ iter' = iter
      BY <2>2 DEF Throws
    <3>2. s' \in SolverStates
      BY <3>1 DEF Typed, SolverStates
    <3>. QED  BY <3>1, <3>2 DEF Typed
  <2>. QED  BY <2>1, <2>2
<1>4. Typed'
  <2>1. iter' \in Nat /\ (iter' <= call.cgMax \/ iter' <= call.minIterations)
    BY <1>3, CallTypes DEF Typed
  <2>. QED  BY <1>1, <1>3, <2>1 DEF Typed
<1>5. InPlace' /\ ResidualFollowsSolution' /\ ShiftedRight' /\ ReturnedSolutionsSolve'
  <2>1. InPlace'
    BY <1>1, <1>2, <1>3 DEF InPlace
  <2>2. ResidualFollowsSolution'
    BY <1>3 DEF ResidualFollowsSolution
  <2>3. ShiftedRight' /\ ReturnedSolutionsSolve'
    BY <1>3 DEF ShiftedRight, ReturnedSolutionsSolve
  <2>. QED  BY <2>1, <2>2, <2>3
<1>. QED  BY <1>4, <1>5 DEF IInv

LEMMA GoesOnKeeps ==
    ASSUME Typed, InPlace, pc \in Running,
           iter < call.cgMax \/ iter < call.minIterations,
           NEW t \in SolverStates, Belongs(t), GoesOn(t)
    PROVE  IInv'
<1>1. s' = t /\ iter' = iter + 1 /\ UNCHANGED <<call, Qplus, source, equations, result, guess, pc>>
  BY DEF GoesOn, given
<1>2. Typed'
  <2>1. iter' \in Nat /\ (iter' <= call.cgMax \/ iter' <= call.minIterations)
    BY <1>1, CallTypes DEF Typed
  <2>. QED  BY <1>1, <2>1 DEF Typed
<1>3. InPlace' /\ ShiftedRight' /\ ReturnedSolutionsSolve'
  BY <1>1 DEF InPlace, ShiftedRight, ReturnedSolutionsSolve, Running
<1>4. ResidualFollowsSolution'
  <2>1. A' = A /\ b' = b
    BY <1>1 DEF A, b, QplusQminus, Aee
  <2>2. s'.rn = saxpy(1, Apply(A', s'.x), b')
    BY <1>1, <2>1 DEF Belongs
  <2>. QED  BY <2>2 DEF ResidualFollowsSolution
<1>. QED  BY <1>2, <1>3, <1>4 DEF IInv

\* What the algorithms return solves the equation of their caller.
LEMMA ReturnsKeeps ==
    ASSUME Typed, InPlace, pc \in Running, NEW x \in FieldsOrNaN,
           Passes(saxpy(1, Apply(A, x), b)), Returns(x)
    PROVE  IInv'
<1>1. /\ pc' = "solved" /\ s' = [s EXCEPT !.x = x] /\ result' = Result(x)
      /\ UNCHANGED <<call, Qplus, source, equations, iter, guess>>
  BY DEF Returns, given
<1>2. call.caller \in {"invert", "md_mp"}
  BY CallTypes DEF InPlace, Running, Callers, Typed
<1>3. /\ Qplus \in Matrices /\ source \in Sources /\ source \in Fields
      /\ QplusQminus \in Fields \X Fields /\ Qminus \in Fields \X Fields
  BY MatrixTypes DEF Typed
<1>4. Result(x) \in FieldsOrNaN
  <2>1. Apply(Qminus, x) \in FieldsOrNaN
    BY <1>3, NaNIsNone, FieldTypes DEF NumbersOrNaN
  <2>. QED  BY <2>1 DEF Result
<1>5. Typed'
  <2>1. s' \in SolverStates
    BY <1>1 DEF Typed, SolverStates
  <2>. QED  BY <1>1, <1>4, <2>1 DEF Typed
<1>6. InPlace' /\ ResidualFollowsSolution' /\ ShiftedRight'
  BY <1>1, <1>2 DEF InPlace, ResidualFollowsSolution, ShiftedRight
<1>7. ASSUME call.caller = "invert"
      PROVE  Passes(saxpy(1, Apply(Aee, Result(x)), source))
  <2>1. CASE pc = "cg"
    <3> DEFINE w == Apply(QplusQminus, x)
               r == saxpy(1, w, gamma5(source))
    <3>1. Passes(r) /\ Result(x) = Apply(Qminus, x)
      BY <1>7, <2>1 DEF A, b, Result
    <3>2. w = Apply(Qplus, Apply(Qminus, x)) /\ Apply(Qminus, x) \in FieldsOrNaN /\ w \in FieldsOrNaN
      <4>1. w = Apply(Qplus, Apply(Qminus, x))
        BY <1>3, NormalEquation
      <4>2. NaN \in NumbersOrNaN
        BY DEF NumbersOrNaN
      <4>. QED  BY <1>3, <4>1, <4>2, FieldTypes
    <3>3. Apply(Aee, Apply(Qminus, x)) = gamma5(w)
      BY <1>3, <3>2, Gamma5
    <3>4. saxpy(1, gamma5(w), source) = gamma5(r)
      BY <1>3, <3>2, Gamma5
    <3>5. r \in FieldsOrNaN
      <4>1. gamma5(source) \in FieldsOrNaN
        BY <1>3, Gamma5 DEF FieldsOrNaN
      <4>2. 1 \in NumbersOrNaN
        BY NaNIsNone DEF NumbersOrNaN
      <4>. QED  BY <3>2, <4>1, <4>2, Kernels
    <3>6. scalar_product(gamma5(r), gamma5(r)) = scalar_product(r, r)
      BY <1>3, <3>5, Gamma5
    <3>. QED  BY <3>1, <3>3, <3>4, <3>6 DEF Passes
  <2>2. CASE pc # "cg"
    BY <1>7, <2>2 DEF A, b, Result, Running
  <2>. QED  BY <2>1, <2>2
<1>8. ASSUME call.caller = "md_mp"
      PROVE  Passes(saxpy(1, Apply(Qplus, Result(x)), source))
  <2>1. CASE pc = "cg"
    <3>1. Apply(QplusQminus, x) = Apply(Qplus, Apply(Qminus, x))
      BY <1>3, NormalEquation
    <3>. QED  BY <1>8, <2>1, <3>1 DEF A, b, Result
  <2>2. CASE pc # "cg"
    BY <1>8, <2>2 DEF A, b, Result, Running
  <2>. QED  BY <2>1, <2>2
<1>9. ReturnedSolutionsSolve'
  <2>1. Aee' = Aee
    BY <1>1 DEF Aee
  <2>2. CASE call.caller = "invert"
    <3>1. Passes(saxpy(1, Apply(Aee', result'), source'))
      BY <1>1, <1>7, <2>1, <2>2
    <3>. QED  BY <1>1, <2>2, <3>1 DEF ReturnedSolutionsSolve, Passes
  <2>3. CASE call.caller = "md_mp"
    <3>1. Passes(saxpy(1, Apply(Qplus', result'), source'))
      BY <1>1, <1>8, <2>3
    <3>. QED  BY <1>1, <2>3, <3>1 DEF ReturnedSolutionsSolve, Passes
  <2>. QED  BY <1>2, <2>2, <2>3
<1>. QED  BY <1>5, <1>6, <1>9 DEF IInv

LEMMA CgKeeps ==
    ASSUME IInv, cg_unimplemented \/ cg_iteration \/ cg_exhausted
    PROVE  IInv'
<1>1. Typed /\ InPlace /\ ResidualFollowsSolution /\ pc = "cg" /\ pc \in Running
  BY DEF IInv, cg_unimplemented, cg_iteration, cg_exhausted, Running
<1>2. /\ cg_x \in SolverStates /\ cg_residual \in SolverStates /\ Belongs(cg_residual)
      /\ cg_residual.rho = scalar_product(cg_residual.rn, cg_residual.rn)
      /\ cg_residual.x \in FieldsOrNaN /\ s.x \in FieldsOrNaN
  BY <1>1, CgIterates DEF SolverStates, Typed
<1>3. CASE cg_unimplemented
  <2>1. /\ pc' = "aborted" /\ s' = cg_x
        /\ UNCHANGED <<call, Qplus, source, equations, iter, result, guess>>
    BY <1>3 DEF cg_unimplemented, given
  <2>2. Typed'
    BY <1>1, <1>2, <2>1 DEF Typed
  <2>3. InPlace'
    BY <1>1, <2>1 DEF InPlace
  <2>4. ResidualFollowsSolution' /\ ShiftedRight' /\ ReturnedSolutionsSolve'
    BY <2>1 DEF ResidualFollowsSolution, ShiftedRight, ReturnedSolutionsSolve
  <2>. QED  BY <2>2, <2>3, <2>4 DEF IInv
<1>4. CASE cg_iteration
  <2> DEFINE t == cg_residual
  <2>1. \/ Throws("stuck", t.x)
        \/ t.rho \in Small /\ Returns(t.x)
        \/ GoesOn(cg_direction(t))
    BY <1>4 DEF cg_iteration
  <2>2. iter < call.cgMax \/ iter < call.minIterations
    <3>1. CgLoops /\ iter \in Nat /\ call.minIterations \in Nat
      BY <1>1, <1>4, CallTypes DEF cg_iteration, Typed
    <3>. QED  BY <3>1 DEF CgLoops, Minimum
  <2>3. t.rho \in Small => Passes(saxpy(1, Apply(A, t.x), b))
    BY <1>2 DEF Belongs, Passes
  <2>4. cg_direction(t) \in SolverStates /\ Belongs(cg_direction(t))
    BY <1>1, <1>2, CgTurns
  <2> HIDE DEF t
  <2>5. t.x \in FieldsOrNaN
    BY <1>2 DEF t
  <2>. QED  BY <1>1, <2>1, <2>2, <2>3, <2>4, <2>5, ThrowsKeeps, ReturnsKeeps, GoesOnKeeps
<1>5. CASE cg_exhausted
  <2>1. Throws("not_solved", s.x)
    BY <1>5 DEF cg_exhausted
  <2>. QED  BY <1>1, <1>2, <2>1, ThrowsKeeps
<1>. QED  BY <1>3, <1>4, <1>5

LEMMA SaveKeeps ==
    ASSUME IInv, bicgstab_save
    PROVE  IInv'
<1>1. /\ Typed /\ InPlace /\ ResidualFollowsSolution /\ pc = "save" /\ pc \in Running
      /\ iter < call.cgMax /\ s \in SolverStates
  BY DEF IInv, bicgstab_save, Running, Typed
<1> DEFINE t == IF Refreshes THEN save_refresh ELSE s
           rho_next == scalar_product(t.rhat, t.rn)
           d == StabilizedDirection(t, rho_next)
           u == StabilizedStep(d)
           resid == scalar_product(u.rn, u.rn)
           aux == saxpy(1, Apply(A, u.x), b)
<1>2. \/ Throws("stuck", t.x) \/ Throws("stuck", u.x)
      \/ scalar_product(aux, aux) \in Small /\ Returns(u.x)
      \/ GoesOn(u)
  BY DEF bicgstab_save
<1>3. t \in SolverStates /\ Belongs(t)
  <2>1. CASE Refreshes
    <3> DEFINE rn == saxpy(1, Apply(A, s.x), b)
    <3>1. t = [s EXCEPT !.v = Zero, !.p = Zero, !.rn = rn, !.rhat = rn,
                        !.alpha = 1, !.omega = 1, !.rho = 1]
      BY <2>1 DEF save_refresh
    <3>2. rn \in FieldsOrNaN /\ Zero \in FieldsOrNaN /\ 1 \in NumbersOrNaN
      BY <1>1, Kernels DEF SolverStates
    <3> HIDE DEF rn, t
    <3>3. t \in SolverStates /\ t.rn = rn /\ t.x = s.x
      BY <1>1, <3>1, <3>2 DEF SolverStates
    <3>. QED  BY <3>3 DEF Belongs, rn, t
  <2>2. CASE ~Refreshes
    BY <1>1, <2>2, RefreshComesFirst
  <2>. QED  BY <2>1, <2>2
<1> HIDE DEF t
<1>4. rho_next \in NumbersOrNaN /\ t.x \in FieldsOrNaN
  BY <1>1, <1>3, Kernels DEF SolverStates
<1> HIDE DEF rho_next
<1>5. d \in SolverStates /\ Belongs(d)
  BY <1>1, <1>3, <1>4, StabilizedTurns
<1> HIDE DEF d
<1>6. u \in SolverStates /\ Belongs(u)
  BY <1>1, <1>5, StabilizedIterates
<1> HIDE DEF u
<1>7. u.x \in FieldsOrNaN
  BY <1>6 DEF SolverStates
<1>8. scalar_product(aux, aux) \in Small => Passes(saxpy(1, Apply(A, u.x), b))
  BY DEF Passes
<1>. QED  BY <1>1, <1>2, <1>4, <1>6, <1>7, <1>8, ThrowsKeeps, ReturnsKeeps, GoesOnKeeps

LEMMA FastKeeps ==
    ASSUME IInv, bicgstab_fast
    PROVE  IInv'
<1>1. /\ Typed /\ InPlace /\ ResidualFollowsSolution /\ pc = "fast" /\ pc \in Running
      /\ iter < call.cgMax /\ s \in SolverStates
  BY DEF IInv, bicgstab_fast, Running, Typed
<1> DEFINE t == IF Refreshes THEN fast_refresh ELSE s
           resid == scalar_product(t.rn, t.rn)
           u == StabilizedStep(t)
           rho_next == scalar_product(u.rhat, u.rn)
           d == StabilizedDirection(u, rho_next)
<1>2. \/ Throws("stuck", t.x) \/ Throws("stuck", u.x)
      \/ resid \in Small /\ Returns(t.x)
      \/ GoesOn(d)
  BY DEF bicgstab_fast
<1>3. t \in SolverStates /\ Belongs(t)
  <2>1. CASE Refreshes
    <3> DEFINE p == saxpy(1, Apply(A, s.x), b)
               rho == scalar_product(p, p)
    <3>1. t = [s EXCEPT !.p = p, !.rhat = p, !.rn = p, !.rho = rho]
      BY <2>1 DEF fast_refresh
    <3>2. p \in FieldsOrNaN /\ rho \in NumbersOrNaN
      BY <1>1, Kernels DEF SolverStates
    <3> HIDE DEF p, rho, t
    <3>3. t \in SolverStates /\ t.rn = p /\ t.x = s.x
      BY <1>1, <3>1, <3>2 DEF SolverStates
    <3>. QED  BY <3>3 DEF Belongs, p, t
  <2>2. CASE ~Refreshes
    BY <1>1, <2>2, RefreshComesFirst
  <2>. QED  BY <2>1, <2>2
<1> HIDE DEF t
<1>4. u \in SolverStates /\ Belongs(u)
  BY <1>1, <1>3, StabilizedIterates
<1> HIDE DEF u
<1>5. rho_next \in NumbersOrNaN /\ t.x \in FieldsOrNaN /\ u.x \in FieldsOrNaN
  BY <1>1, <1>3, <1>4, Kernels DEF SolverStates
<1> HIDE DEF rho_next
<1>6. d \in SolverStates /\ Belongs(d)
  BY <1>1, <1>4, <1>5, StabilizedTurns
<1> HIDE DEF d
<1>7. resid \in Small => Passes(saxpy(1, Apply(A, t.x), b))
  BY <1>3 DEF Passes, Belongs
<1>. QED  BY <1>1, <1>2, <1>5, <1>6, <1>7, ThrowsKeeps, ReturnsKeeps, GoesOnKeeps

LEMMA CgmKeeps ==
    ASSUME IInv, cg_m_iteration
    PROVE  IInv'
<1>1. /\ Typed /\ InPlace /\ pc = "cg_m" /\ call.caller = "cg_m" /\ CgmLoops
      /\ Sound(s) \/ BrokenDown(s)
      /\ \A sigma \in DOMAIN equations : EquationRight(sigma, equations[sigma], s)
  BY DEF IInv, cg_m_iteration, InPlace, ShiftedRight
<1> DEFINE t == cg_m_scalars
           eqs == [sigma \in DOMAIN equations |-> ShiftedSystem(sigma, equations[sigma], t)]
<1>2. /\ s' = t /\ equations' = eqs
      /\ \/ pc' = "stuck" /\ iter' = iter
         \/ /\ \A sigma \in DOMAIN eqs : eqs[sigma].converged
            /\ pc' = "solved" /\ iter' = iter
         \/ pc' = "cg_m" /\ iter' = iter + 1
      /\ UNCHANGED <<call, Qplus, source, result, guess>>
  BY <1>1 DEF cg_m_iteration, given
<1>3. t \in SolverStates /\ (Sound(t) \/ BrokenDown(t))
  BY <1>1, ScalarsGo
<1>4. \A sigma \in DOMAIN equations :
          ShiftedSystem(sigma, equations[sigma], t) \in ShiftedSystems
          /\ EquationRight(sigma, ShiftedSystem(sigma, equations[sigma], t), t)
  BY <1>1, EquationGoes
<1>5. /\ DOMAIN equations' = DOMAIN equations /\ equations' \in [DOMAIN equations' -> ShiftedSystems]
      /\ \A sigma \in DOMAIN equations' : EquationRight(sigma, equations'[sigma], s')
      /\ Sound(s') \/ BrokenDown(s')
      /\ s' \in SolverStates
  <2> HIDE DEF t
  <2>. QED  BY <1>2, <1>3, <1>4
<1> HIDE DEF t
<1>6. Typed'
  <2>1. iter' \in Nat /\ (iter' <= call.cgMax \/ iter' <= call.minIterations)
    BY <1>1, <1>2, CallTypes DEF Typed, CgmLoops
  <2>. QED  BY <1>1, <1>2, <1>5, <2>1 DEF Typed
<1>7. InPlace' /\ ResidualFollowsSolution'
  BY <1>1, <1>2 DEF InPlace, ResidualFollowsSolution
<1>8. ShiftedRight'
  <2>1. \A sigma, e : ShiftedResidual(sigma, e)' = ShiftedResidual(sigma, e)
    BY <1>2 DEF ShiftedResidual, QplusQminus
  <2>2. QplusQminus' = QplusQminus
    BY <1>2 DEF QplusQminus
  <2>3. (Sound(s) \/ BrokenDown(s))'
    BY <1>5 DEF Sound, BrokenDown
  <2>4. ASSUME NEW sigma \in DOMAIN equations'
        PROVE  EquationRight(sigma, equations[sigma], s)'
    <3>1. EquationRight(sigma, equations'[sigma], s')
      BY <1>5
    <3>. QED  BY <1>2, <2>2, <3>1 DEF EquationRight, Sound, Follows, DirectionFollows, Lost, Passes,
                                      ShiftedResidual, ShiftedProduct
  <2>. QED  BY <2>3, <2>4 DEF ShiftedRight
<1>9. ReturnedSolutionsSolve'
  <2>1. SUFFICES ASSUME pc' = "solved", NEW sigma \in DOMAIN equations'
                 PROVE  Passes(ShiftedResidual(sigma, equations[sigma].x))'
    BY <1>1, <1>2 DEF ReturnedSolutionsSolve, Passes
  <2>2. equations'[sigma].converged
    BY <1>2, <2>1
  <2>3. EquationRight(sigma, equations'[sigma], s')
    BY <1>5
  <2>4. Passes(ShiftedResidual(sigma, equations'[sigma].x))
    BY <2>2, <2>3 DEF EquationRight
  <2>5. QplusQminus' = QplusQminus /\ source' = source
    BY <1>2 DEF QplusQminus
  <2>. QED  BY <2>4, <2>5 DEF Passes, ShiftedResidual
<1>. QED  BY <1>6, <1>7, <1>8, <1>9 DEF IInv

LEMMA ExhaustedKeeps ==
    ASSUME IInv, bicgstab_exhausted \/ cg_m_exhausted
    PROVE  IInv'
<1>1. CASE bicgstab_exhausted
  <2>1. /\ Typed /\ InPlace /\ pc \in Running /\ Throws("not_solved", s.x)
        /\ s.x \in FieldsOrNaN
    BY <1>1 DEF IInv, bicgstab_exhausted, Running, Typed, SolverStates
  <2>. QED  BY <2>1, ThrowsKeeps
<1>2. CASE cg_m_exhausted
  <2>1. /\ pc' = "not_solved"
        /\ UNCHANGED <<call, Qplus, source, s, equations, iter, result, guess>>
    BY <1>2 DEF cg_m_exhausted, given
  <2>2. Typed' /\ InPlace'
    BY <1>2, <2>1 DEF IInv, Typed, InPlace, cg_m_exhausted
  <2>3. ResidualFollowsSolution' /\ ShiftedRight' /\ ReturnedSolutionsSolve'
    BY <2>1 DEF ResidualFollowsSolution, ShiftedRight, ReturnedSolutionsSolve
  <2>. QED  BY <2>2, <2>3 DEF IInv
<1>. QED  BY <1>1, <1>2

LEMMA StutterKeeps ==
    ASSUME IInv, UNCHANGED vars
    PROVE  IInv'
<1>1. UNCHANGED <<call, Qplus, source, s, equations, iter, result, guess, pc>>
  BY DEF vars
<1>2. A' = A /\ b' = b /\ QplusQminus' = QplusQminus /\ Aee' = Aee
  BY <1>1 DEF A, b, QplusQminus, Aee
<1>3. Typed' /\ InPlace'
  BY <1>1 DEF IInv, Typed, InPlace
<1>4. ResidualFollowsSolution'
  BY <1>1, <1>2 DEF IInv, ResidualFollowsSolution
<1>5. ShiftedRight'
  BY <1>1, <1>2 DEF IInv, ShiftedRight, EquationRight, Sound, BrokenDown, Follows,
                    DirectionFollows, Lost, Passes, ShiftedResidual, ShiftedProduct
<1>6. ReturnedSolutionsSolve'
  BY <1>1, <1>2 DEF IInv, ReturnedSolutionsSolve, ShiftedResidual
<1>. QED  BY <1>3, <1>4, <1>5, <1>6 DEF IInv

------------------------------------------------------------------------------
(* Theorems *)

\* The invariant above, of every solver and every caller.
THEOREM InductiveInvariant == Spec => []IInv
<1>1. Init => IInv
  BY InitHolds
<1>2. IInv /\ [Next]_vars => IInv'
  BY CgKeeps, SaveKeeps, FastKeeps, CgmKeeps, ExhaustedKeeps, StutterKeeps DEF Next, Ended
<1>. QED  BY <1>1, <1>2, PTL DEF Spec

\* Every variable keeps its type: what is computed from NaN is NaN, and the
\* iterations never exceed cgmax, or the minimum where that is larger.
THEOREM TypeCorrect == Spec => []TypeOK
<1>1. IInv => TypeOK
  <2> SUFFICES ASSUME IInv PROVE TypeOK
    OBVIOUS
  <2>1. Typed /\ InPlace
    BY DEF IInv
  <2>2. /\ s.x \in FieldsOrNaN /\ s.rn \in FieldsOrNaN /\ s.p \in FieldsOrNaN
        /\ s.v \in FieldsOrNaN /\ s.rhat \in FieldsOrNaN
        /\ s.alpha \in NumbersOrNaN /\ s.beta \in NumbersOrNaN /\ s.omega \in NumbersOrNaN
        /\ s.rho \in NumbersOrNaN
    BY <2>1 DEF Typed, SolverStates
  <2>3. /\ \A name \in {"x", "rn", "p", "v", "rhat"} : FieldOrNaN(s[name])
        /\ \A name \in {"alpha", "beta", "omega", "rho"} : NumberOrNaN(s[name])
    BY <2>2 DEF FieldOrNaN, NumberOrNaN, FieldsOrNaN, NumbersOrNaN
  <2>4. ASSUME NEW sigma \in DOMAIN equations
        PROVE  /\ FieldOrNaN(equations[sigma].x) /\ FieldOrNaN(equations[sigma].ps)
               /\ NumberOrNaN(equations[sigma].zeta) /\ NumberOrNaN(equations[sigma].zeta_prev)
               /\ equations[sigma].converged \in BOOLEAN
    <3>1. equations[sigma] \in ShiftedSystems
      BY <2>1 DEF Typed
    <3>. QED  BY <3>1 DEF ShiftedSystems, FieldOrNaN, NumberOrNaN, FieldsOrNaN, NumbersOrNaN
  <2>5. FieldOrNaN(result) /\ FieldOrNaN(guess)
    BY <2>1 DEF Typed, FieldOrNaN, FieldsOrNaN
  <2>. QED  BY <2>1, <2>3, <2>4, <2>5 DEF TypeOK, Typed, InPlace
<1>. QED  BY <1>1, InductiveInvariant, PTL

\* The residual that CG and BiCGstab update is that of their solution.
THEOREM ResidualAlwaysFollows == Spec => []ResidualFollowsSolution
<1>1. IInv => ResidualFollowsSolution
  BY DEF IInv
<1>. QED  BY <1>1, InductiveInvariant, PTL

\* The residual of every shifted system the CG-M works on is zeta times the
\* one of the first system, NaN included.
THEOREM ShiftedResidualsAlwaysFollow == Spec => []ShiftedResidualsFollow
<1>1. IInv => ShiftedResidualsFollow
  <2> SUFFICES ASSUME IInv, pc = "cg_m", NEW sigma \in DOMAIN equations,
                      ~equations[sigma].converged
               PROVE  ShiftedResidual(sigma, equations[sigma].x) =
                          Axpy(equations[sigma].zeta, s.rn, Zero)
    BY DEF ShiftedResidualsFollow
  <2> DEFINE e == equations[sigma]
  <2>1. Follows(sigma, e, s) \/ Lost(e)
    BY DEF IInv, ShiftedRight, EquationRight
  <2>2. CASE Lost(e)
    <3>1. ShiftedResidual(sigma, e.x) = NaN
      BY <2>2, Strict DEF Lost, ShiftedResidual, saxpy
    <3>2. Axpy(e.zeta, s.rn, Zero) = NaN
      BY <2>2, Strict DEF Lost
    <3>. QED  BY <3>1, <3>2
  <2>. QED  BY <2>1, <2>2 DEF Follows
<1>. QED  BY <1>1, InductiveInvariant, PTL

\* What a caller gets back without an exception solves its own equation.
THEOREM ReturnedAlwaysSolves == Spec => []ReturnedSolutionsSolve
<1>1. IInv => ReturnedSolutionsSolve
  BY DEF IInv
<1>. QED  BY <1>1, InductiveInvariant, PTL

------------------------------------------------------------------------------
(* Two iterations *)

Orthogonal(x, y) == scalar_product(x, y) = 0

\* CG and CG-M are about to take their first step.
Starts(t) == t.rn \in Fields /\ t.p = t.rn /\ t.rho = scalar_product(t.rn, t.rn)

\* One step of CG after a start from the residual q: the residual is
\* orthogonal to it and the direction conjugate.
Conjugate(t) ==
    \/ t.rn = NaN
    \/ /\ t.rn \in Fields /\ t.p \in Fields /\ t.rho = scalar_product(t.rn, t.rn)
       /\ t.rn = Zero => t.p = Zero
       /\ \E q \in Fields \ {Zero}, c \in Numbers :
             /\ Orthogonal(q, t.rn) /\ Orthogonal(q, Apply(QplusQminus, t.p))
             /\ t.p = Axpy(c, q, t.rn)

Exhausted(t) == t.rn = NaN \/ (t.rn = Zero /\ t.rho = 0)

\* One step of BiCGstab after a start from the residual rhat.  z is the
\* residual after the step in the direction p, before that of steepest descent.
Stabilized(t) ==
    \/ t.rn = NaN
    \/ /\ t.rn \in Fields /\ t.p \in Fields /\ t.v \in Fields /\ t.rhat \in Fields
       /\ t.alpha \in Numbers /\ t.omega \in Numbers /\ t.rho \in Nonzero
       /\ t.rhat # Zero /\ t.v = Apply(A, t.p)
       /\ Congruent(t.alpha * scalar_product(t.rhat, t.v), t.rho)
       /\ \E z \in Fields :
             Orthogonal(t.rhat, z) /\ t.rn = Axpy(Minus(t.omega), Apply(A, z), z)

\* The same with the new direction: both factors of the residual and of the
\* direction belong to the BiCG that BiCGstab is built on.
BiConjugate(t) ==
    \/ t.rn = NaN
    \/ /\ t.rn \in Fields /\ t.p \in Fields /\ t.rhat \in Fields /\ t.rhat # Zero
       /\ t.rho = scalar_product(t.rhat, t.rn)
       /\ \E z \in Fields, d \in Fields, w \in Nonzero :
             /\ Orthogonal(t.rhat, z) /\ Orthogonal(t.rhat, Apply(A, d))
             /\ t.rn = Axpy(w, Apply(A, z), z) /\ t.p = Axpy(w, Apply(A, d), d)

FirstStep == (iter - 1) % call.iterRefresh = 0

TwoSteps ==
    /\ iter > 0 =>
          /\ pc = "cg" => IF FirstStep THEN Conjugate(s) ELSE Exhausted(s)
          /\ pc = "save" => IF FirstStep THEN Stabilized(s) ELSE s.rn \in {Zero, NaN}
          /\ pc = "fast" => IF FirstStep THEN BiConjugate(s) ELSE s.rn \in {Zero, NaN}
    /\ pc = "cg_m" =>
          /\ iter = 0 => Starts(s)
          /\ iter = 1 => Conjugate(s)
          /\ iter > 1 => Exhausted(s)

(* Retries *)

\* The right-hand side CG is given.
RetrySource == IF call.caller = "invert" THEN gamma5(source) ELSE source

Solvable(x) == x \in Fields /\ saxpy(1, Apply(QplusQminus, x), RetrySource) # Zero

\* CG after one step from a solvable guess.
Halfway(t) ==
    /\ t.rn \in Fields /\ t.p \in Fields /\ t.rho = scalar_product(t.rn, t.rn)
    /\ t.rho # 0 /\ Conjugate(t)

RetriesGoWell ==
    /\ call.caller # "cg_m" => source # Zero
    /\ Retries /\ pc \in {"cg", "stuck", "not_solved"} =>
          /\ call.caller = "md_mp" => guess = Zero
          /\ Sufficient =>
                /\ pc = "cg" /\ iter = 0 => s.x = guess
                /\ pc = "cg" /\ Solvable(guess) => iter < 2 /\ (iter = 1 => Halfway(s))
                /\ pc \in {"stuck", "not_solved"} => ~Solvable(guess)

------------------------------------------------------------------------------
(* Orthogonal fields *)

Dot(x, y) == x[1] * y[1] + x[2] * y[2]

LEMMA DotIs ==
    ASSUME NEW x \in Fields, NEW y \in Fields
    PROVE  /\ scalar_product(x, y) \in Numbers /\ scalar_product(x, y) \in Int
           /\ Dot(x, y) \in Int /\ Congruent(scalar_product(x, y), Dot(x, y))
           /\ scalar_product(x, y) = 0 <=> Null(Dot(x, y))
           /\ scalar_product(x, y) = scalar_product(y, x)
<1>1. x[1] \in Int /\ x[2] \in Int /\ y[1] \in Int /\ y[2] \in Int
  BY FieldIs
<1>2. scalar_product(x, y) = Dot(x, y) % P /\ scalar_product(y, x) = Dot(y, x) % P
  BY ProductIs DEF Dot, MulAdd
<1>3. Dot(x, y) \in Int /\ Dot(x, y) = Dot(y, x)
  BY <1>1 DEF Dot
<1> DEFINE d == Dot(x, y)
<1> HIDE DEF d
<1>4. d % P \in Numbers /\ d % P \in Int /\ Congruent(d, d % P)
  BY <1>3, ModType DEF d
<1>5. Congruent(d % P, d)
  BY <1>3, <1>4, CongruentOps DEF d
<1>6. d % P = 0 <=> Null(d)
  BY <1>3, <1>4, NullNumber, NullOf DEF d
<1>. QED  BY <1>2, <1>3, <1>4, <1>5, <1>6 DEF d

LEMMA Parallel ==
    ASSUME NEW x \in Fields, x # Zero, NEW y \in Fields, Null(Dot(x, y)),
           Null(x[1] * y[2] - x[2] * y[1])
    PROVE  y = Zero
<1> DEFINE x1 == x[1]  x2 == x[2]  y1 == y[1]  y2 == y[2]
           d == x1 * y1 + x2 * y2
           g == x1 * y2 - x2 * y1
           m == x1 * x1 + x2 * x2
           f == y1 * y1 + y2 * y2
<1>1. x1 \in Int /\ x2 \in Int /\ y1 \in Int /\ y2 \in Int
  BY FieldIs
<1>2. ~Null(m) /\ (Null(f) => y = Zero)
  BY DotIs, Definite DEF Dot
<1>3. Null(d) /\ Null(g)
  BY DEF Dot
<1> HIDE DEF x1, x2, y1, y2
<1>4. d \in Int /\ g \in Int /\ m \in Int /\ f \in Int /\ m * f = d * d + g * g
  BY <1>1
<1> HIDE DEF d, g, m, f
<1>5. Null(d * d + g * g)
  BY <1>3, <1>4, NullSum
<1>. QED  BY <1>2, <1>4, <1>5, NullFactor

\* A plane has no room for three orthogonal directions.
LEMMA TwoOrthogonal ==
    ASSUME NEW x \in Fields, x # Zero, NEW y \in Fields, NEW z \in Fields,
           Orthogonal(x, y), Orthogonal(x, z), Orthogonal(y, z)
    PROVE  y = Zero \/ z = Zero
<1> DEFINE x1 == x[1]  x2 == x[2]  y1 == y[1]  y2 == y[2]  z1 == z[1]  z2 == z[2]
           d == x1 * y1 + x2 * y2
           e == x1 * z1 + x2 * z2
           f == y1 * z1 + y2 * z2
           m == x1 * x1 + x2 * x2
           g == x1 * y2 - x2 * y1
           h == x1 * z2 - x2 * z1
<1>1. x1 \in Int /\ x2 \in Int /\ y1 \in Int /\ y2 \in Int /\ z1 \in Int /\ z2 \in Int
  BY FieldIs
<1>2. Null(d) /\ Null(e) /\ Null(f)
  BY DotIs DEF Dot, Orthogonal
<1>3. (Null(g) => y = Zero) /\ (Null(h) => z = Zero)
  BY <1>2, Parallel DEF Dot
<1> HIDE DEF x1, x2, y1, y2, z1, z2
<1>4. /\ d \in Int /\ e \in Int /\ f \in Int /\ m \in Int /\ g \in Int /\ h \in Int /\ -d \in Int
      /\ g * h = m * f + (-d) * e
  BY <1>1
<1> HIDE DEF d, e, f, m, g, h
<1>5. Null(g * h)
  BY <1>2, <1>4, NullSum
<1>. QED  BY <1>3, <1>4, <1>5, NullFactor

LEMMA RowOf ==
    ASSUME NEW q \in Fields, NEW a \in Numbers, NEW x \in Fields, NEW y \in Fields
    PROVE  /\ Congruent(scalar_product(q, Axpy(a, x, y)),
                        a * scalar_product(q, x) + scalar_product(q, y))
           /\ a \in Int /\ Axpy(a, x, y) \in Fields
           /\ scalar_product(q, x) \in Int /\ scalar_product(q, y) \in Int
           /\ scalar_product(q, Axpy(a, x, y)) \in Int
           /\ scalar_product(q, Axpy(a, x, y)) \in Numbers
<1> DEFINE d == scalar_product(q, x)
           e == scalar_product(q, y)
           f == scalar_product(q, Axpy(a, x, y))
<1>1. /\ d \in Int /\ e \in Int /\ a \in Int /\ Axpy(a, x, y) \in Fields
      /\ f \in Int /\ f \in Numbers
  BY DotIs, AxpyIs, ModId
<1>2. f = (a * d + e) % P
  BY RowLinear DEF MulAdd
<1> HIDE DEF d, e, f
<1>3. a * d + e \in Int
  BY <1>1
<1> DEFINE g == a * d + e
<1> HIDE DEF g
<1>4. Congruent(g % P, g)
  BY <1>3, ModType, CongruentOps DEF g
<1>. QED  BY <1>1, <1>2, <1>4 DEF d, e, f, g

LEMMA Adjoint ==
    ASSUME NEW Q \in Fields \X Fields, NEW x \in Fields, NEW y \in Fields
    PROVE  /\ Transpose(Q) \in Fields \X Fields
           /\ scalar_product(x, Apply(Q, y)) = scalar_product(Apply(Transpose(Q), x), y)
<1> DEFINE m == <<Q[1][1], Q[2][1]>>
           n == <<Q[1][2], Q[2][2]>>
<1>1. /\ Q[1] \in Fields /\ Q[2] \in Fields
      /\ Q[1] = <<Q[1][1], Q[1][2]>> /\ Q[2] = <<Q[2][1], Q[2][2]>>
      /\ Q[1][1] \in Numbers /\ Q[1][2] \in Numbers /\ Q[2][1] \in Numbers /\ Q[2][2] \in Numbers
  BY ApplyIs, FieldIs
<1>2. m \in Fields /\ n \in Fields
  BY <1>1, FieldOf
<1>3. m[1] = Q[1][1] /\ m[2] = Q[2][1] /\ n[1] = Q[1][2] /\ n[2] = Q[2][2]
  OBVIOUS
<1>4. Transpose(Q) = <<m, n>>
  BY DEF Transpose
<1>5. Transpose(Q) \in Fields \X Fields /\ Transpose(Q)[1] = m /\ Transpose(Q)[2] = n
  BY <1>2, <1>4
<1>6. Apply(Transpose(Q), x) = <<scalar_product(m, x), scalar_product(n, x)>>
  BY <1>5, ApplyIs
<1>7. Apply(Q, y) = <<scalar_product(<<m[1], n[1]>>, y), scalar_product(<<m[2], n[2]>>, y)>>
  BY <1>1, <1>3, ApplyIs
<1> HIDE DEF m, n
<1>. QED  BY <1>2, <1>5, <1>6, <1>7, ProductOfThree

\* MdagM is hermitian and, as M is invertible, definite.
LEMMA Hermitian ==
    ASSUME Qplus \in Matrices, source \in Sources, NEW x \in Fields, NEW y \in Fields
    PROVE  /\ Apply(Qminus, x) \in Fields /\ Apply(QplusQminus, x) \in Fields
           /\ scalar_product(x, Apply(QplusQminus, y)) =
                  scalar_product(Apply(Qminus, x), Apply(Qminus, y))
           /\ scalar_product(x, Apply(QplusQminus, y)) = scalar_product(y, Apply(QplusQminus, x))
<1>1. /\ Qplus \in Fields \X Fields /\ QplusQminus \in Fields \X Fields
      /\ Qminus \in Fields \X Fields
  BY MatrixTypes
<1>2. /\ Apply(Qminus, x) \in Fields /\ Apply(QplusQminus, x) \in Fields
      /\ Apply(Qminus, y) \in Fields /\ Apply(QplusQminus, y) \in Fields
  BY <1>1, ApplyIs
<1>3. ASSUME NEW u \in Fields, NEW w \in Fields
      PROVE  scalar_product(u, Apply(QplusQminus, w)) =
                 scalar_product(Apply(Qminus, u), Apply(Qminus, w))
  <2>1. w \in FieldsOrNaN /\ Apply(Qminus, w) \in Fields
    BY <1>1, ApplyIs DEF FieldsOrNaN
  <2>2. Apply(QplusQminus, w) = Apply(Qplus, Apply(Qminus, w))
    BY <2>1, NormalEquation
  <2>. QED  BY <1>1, <2>1, <2>2, Adjoint DEF Qminus
<1>4. /\ scalar_product(x, Apply(QplusQminus, y)) =
             scalar_product(Apply(Qminus, x), Apply(Qminus, y))
      /\ scalar_product(y, Apply(QplusQminus, x)) =
             scalar_product(Apply(Qminus, y), Apply(Qminus, x))
  BY <1>3
<1>5. scalar_product(Apply(Qminus, x), Apply(Qminus, y)) =
          scalar_product(Apply(Qminus, y), Apply(Qminus, x))
  BY <1>2, DotIs
<1>. QED  BY <1>2, <1>4, <1>5

LEMMA Invertible ==
    ASSUME Qplus \in Matrices, source \in Sources, NEW x \in Fields
    PROVE  /\ Apply(Qminus, x) = Zero => x = Zero
           /\ Apply(Qplus, x) = Zero => x = Zero
<1> DEFINE a == Qplus[1][1]  c == Qplus[1][2]  d == Qplus[2][1]  e == Qplus[2][2]
           x1 == x[1]  x2 == x[2]
           det == a * e - c * d
<1>1. Qplus \in Fields \X Fields /\ Qminus \in Fields \X Fields
  BY MatrixTypes
<1>2. Qplus[1] \in Fields /\ Qplus[2] \in Fields /\ Qminus[1] \in Fields /\ Qminus[2] \in Fields
  BY <1>1, ApplyIs
<1>3. /\ a \in Int /\ c \in Int /\ d \in Int /\ e \in Int /\ x1 \in Int /\ x2 \in Int
      /\ x1 \in Numbers /\ x2 \in Numbers /\ x = <<x1, x2>>
  BY <1>2, FieldIs
<1>4. Qminus[1][1] = a /\ Qminus[1][2] = d /\ Qminus[2][1] = c /\ Qminus[2][2] = e
  BY DEF Qminus, Transpose
<1>5. det % P # 0
  BY KrylovAssumption
<1>6. ASSUME NEW Q \in Fields \X Fields, Q[1] \in Fields, Q[2] \in Fields, Apply(Q, x) = Zero
      PROVE  Null(Q[1][1] * x1 + Q[1][2] * x2) /\ Null(Q[2][1] * x1 + Q[2][2] * x2)
  <2>1. Apply(Q, x) = <<scalar_product(Q[1], x), scalar_product(Q[2], x)>>
    BY ApplyIs
  <2>2. scalar_product(Q[1], x) = 0 /\ scalar_product(Q[2], x) = 0
    BY <1>6, <2>1 DEF Zero
  <2>. QED  BY <1>6, <2>2, DotIs DEF Dot
<1>7. Apply(Qminus, x) = Zero => Null(a * x1 + d * x2) /\ Null(c * x1 + e * x2)
  BY <1>1, <1>2, <1>4, <1>6
<1>8. Apply(Qplus, x) = Zero => Null(a * x1 + c * x2) /\ Null(d * x1 + e * x2)
  BY <1>1, <1>2, <1>6
<1> HIDE DEF a, c, d, e, x1, x2
<1> DEFINE f == a * x1 + d * x2  g == c * x1 + e * x2
           h == a * x1 + c * x2  k == d * x1 + e * x2
<1>9. /\ det \in Int /\ f \in Int /\ g \in Int /\ h \in Int /\ k \in Int
      /\ -a \in Int /\ -c \in Int /\ -d \in Int
      /\ det * x1 = e * f + (-d) * g /\ det * x2 = (-c) * f + a * g
      /\ det * x1 = e * h + (-c) * k /\ det * x2 = (-d) * h + a * k
  BY <1>3
<1>10. ~Null(det)
  <2>1. 0 \in Int /\ 0 % P = 0
    BY NaNIsNone, ModId
  <2>. QED  BY <1>5, <1>9, <2>1, CongruentIs DEF Null
<1> HIDE DEF det, f, g, h, k
<1>11. ASSUME Null(det * x1), Null(det * x2) PROVE x = Zero
  <2>1. Null(x1) /\ Null(x2)
    BY <1>3, <1>9, <1>10, <1>11, NullFactor
  <2>. QED  BY <1>3, <2>1, NullNumber DEF Zero
<1>12. ASSUME Apply(Qminus, x) = Zero PROVE x = Zero
  <2>1. Null(f) /\ Null(g)
    BY <1>7, <1>12 DEF f, g
  <2>2. Null(e * f + (-d) * g) /\ Null((-c) * f + a * g)
    BY <1>3, <1>9, <2>1, NullSum
  <2>. QED  BY <1>9, <1>11, <2>2
<1>13. ASSUME Apply(Qplus, x) = Zero PROVE x = Zero
  <2>1. Null(h) /\ Null(k)
    BY <1>8, <1>13 DEF h, k
  <2>2. Null(e * h + (-c) * k) /\ Null((-d) * h + a * k)
    BY <1>3, <1>9, <2>1, NullSum
  <2>. QED  BY <1>9, <1>11, <2>2
<1>. QED  BY <1>12, <1>13

LEMMA Positive ==
    ASSUME Qplus \in Matrices, source \in Sources, NEW p \in Fields
    PROVE  /\ scalar_product(p, Apply(QplusQminus, p)) \in Numbers
           /\ p # Zero => scalar_product(p, Apply(QplusQminus, p)) \in Nonzero
           /\ p = Zero => scalar_product(p, Apply(QplusQminus, p)) = 0
<1> DEFINE u == Apply(Qminus, p)
<1>1. /\ u \in Fields /\ Apply(QplusQminus, p) \in Fields
      /\ scalar_product(p, Apply(QplusQminus, p)) = scalar_product(u, u)
  BY Hermitian
<1>2. u = Zero => p = Zero
  BY Invertible
<1> HIDE DEF u
<1>3. scalar_product(u, u) \in Numbers /\ (scalar_product(u, u) = 0 => u = Zero)
  BY <1>1, DotIs, Definite
<1>4. p = Zero => scalar_product(p, Apply(QplusQminus, p)) = 0
  BY <1>1, OfZero, NaNIsNone
<1>. QED  BY <1>1, <1>2, <1>3, <1>4 DEF Nonzero

\* u is what CG makes of t, whose residual has the norm w.
CgStep(t, w, u) ==
    LET v == Apply(QplusQminus, t.p)
    IN /\ u.rn = Axpy(Minus(Quotient(w, scalar_product(t.p, v))), v, t.rn)
       /\ u.rho = scalar_product(u.rn, u.rn)
       /\ u.p = Axpy(Quotient(u.rho, w), t.p, u.rn)

LEMMA FirstStepOfCg ==
    ASSUME Qplus \in Matrices, source \in Sources, NEW t, NEW u, t.rn \in FieldsOrNaN,
           t.p = t.rn, CgStep(t, scalar_product(t.rn, t.rn), u)
    PROVE  /\ Conjugate(u)
           /\ t.rn \in Fields /\ t.rn # Zero => u.rn \in Fields
<1> DEFINE r == t.rn
           v == Apply(QplusQminus, r)
           w == scalar_product(r, r)
           den == scalar_product(r, v)
           a == Minus(Quotient(w, den))
           r1 == u.rn
           rho == u.rho
           beta == Quotient(rho, w)
           p1 == u.p
<1>1. r1 = Axpy(a, v, r) /\ rho = scalar_product(r1, r1) /\ p1 = Axpy(beta, r, r1)
  BY DEF CgStep
<1> HIDE DEF v, w, den, a, r1, rho, beta, p1
<1>2. CASE r = NaN
  <2>1. r1 = NaN
    BY <1>1, <1>2, Strict
  <2>. QED  BY <1>2, <2>1, NaNIsNone DEF Conjugate, r1
<1>3. CASE r = Zero
  <2>1. r \in Fields /\ w = 0 /\ den = 0
    BY <1>3, NaNIsNone, OfZero, Positive, ModId DEF w, den, v
  <2>2. a = NaN
    BY <2>1, Strict DEF a
  <2>3. r1 = NaN
    BY <1>1, <2>2, Strict
  <2>. QED  BY <1>3, <2>3 DEF Conjugate, r1
<1>4. CASE r \in Fields /\ r # Zero
  <2>1. v \in Fields /\ den \in Nonzero /\ w \in Numbers
    BY <1>4, Hermitian, Positive, DotIs DEF v, den, w
  <2>2. w # 0
    BY <1>4, Definite DEF w
  <2>3. w \in Nonzero /\ w \in Int /\ den \in Int
    BY <2>1, <2>2, NonzeroIs DEF Nonzero
  <2>4. a \in Nonzero /\ a \in Int /\ a \in Numbers /\ Congruent(den * a, -w)
    BY <2>1, <2>3, MinusQuotientIs DEF a, Nonzero
  <2>5. r1 \in Fields /\ rho \in Numbers /\ rho \in Int
    BY <1>1, <1>4, <2>1, <2>4, AxpyIs, DotIs
  <2>6. beta \in Numbers /\ beta \in Int /\ Congruent(w * beta, rho)
    BY <2>3, <2>5, QuotientIs, ModId DEF beta
  <2>7. p1 \in Fields
    BY <1>1, <1>4, <2>5, <2>6, AxpyIs
  \* the products with r
  <2> DEFINE o == scalar_product(r, r1)
             e == scalar_product(v, r1)
  <2>8. o = 0
    <3>1. Congruent(o, a * den + w) /\ o \in Int /\ o \in Numbers
      BY <1>1, <1>4, <2>1, <2>4, RowOf DEF den, w
    <3>2. a * den + w \in Int /\ a * den = den * a /\ (-w) + w = 0 /\ -w \in Int /\ den * a \in Int
      BY <2>3, <2>4
    <3>3. Congruent(a * den + w, (-w) + w)
      BY <2>3, <2>4, <3>2, CongruentOps, CongruentSelf
    <3>4. Null(a * den + w)
      BY <3>2, <3>3 DEF Null
    <3>5. Null(o)
      BY <3>1, <3>2, <3>4, NullOf
    <3>. QED  BY <3>1, <3>5, NullNumber
  <2>9. e \in Int /\ Congruent(rho, a * e + o) /\ o \in Int
    <3>1. r1 \in Fields
      BY <2>5
    <3>2. Congruent(scalar_product(r1, Axpy(a, v, r)), a * scalar_product(r1, v) + scalar_product(r1, r))
      BY <1>4, <2>1, <2>4, <2>5, RowOf
    <3>3. scalar_product(r1, v) = e /\ scalar_product(r1, r) = o /\ e \in Int /\ o \in Int
      BY <1>4, <2>1, <2>5, DotIs
    <3>. QED  BY <1>1, <3>2, <3>3
  <2>10. /\ Apply(QplusQminus, p1) = Axpy(beta, v, Apply(QplusQminus, r1))
         /\ Apply(QplusQminus, r1) \in Fields
    <3>1. QplusQminus \in Fields \X Fields
      BY MatrixTypes
    <3>2. beta \in NumbersOrNaN /\ r \in FieldsOrNaN /\ r1 \in FieldsOrNaN
      BY <1>4, <2>5, <2>6 DEF NumbersOrNaN, FieldsOrNaN
    <3>. QED  BY <1>1, <2>5, <3>1, <3>2, ApplyLinear, ApplyIs DEF v
  <2>11. scalar_product(r, Apply(QplusQminus, r1)) = e
    <3>1. scalar_product(r, Apply(QplusQminus, r1)) = scalar_product(r1, v)
      BY <1>4, <2>5, Hermitian DEF v
    <3>. QED  BY <2>1, <2>5, <3>1, DotIs
  <2> DEFINE f == scalar_product(r, Apply(QplusQminus, p1))
  <2>12. f \in Numbers /\ f \in Int /\ Congruent(f, beta * den + e)
    BY <1>4, <2>1, <2>6, <2>10, <2>11, RowOf DEF den
  <2>13. f = 0
    <3> HIDE DEF o, e, f
    <3>1. /\ beta * den + e \in Int /\ a * e + o \in Int /\ w * beta \in Int /\ den * a \in Int
          /\ -w \in Int /\ -rho \in Int /\ a * f \in Int /\ 0 \in Int
      BY <2>3, <2>4, <2>5, <2>6, <2>9, <2>12
    <3>2. Congruent(a * f, a * (beta * den + e))
      BY <2>4, <2>12, <3>1, CongruentTimes
    <3> DEFINE x1 == den * a - (-w)
               x2 == w * beta - rho
               x3 == rho - (a * e + o)
    <3>3. x1 \in Int /\ x2 \in Int /\ x3 \in Int
      BY <2>3, <2>4, <2>5, <2>6, <2>9
    <3>4. (-w) - (-w) = 0 /\ rho - rho = 0 /\ (a * e + o) - (a * e + o) = 0
      BY <2>3, <2>4, <2>5, <2>9
    <3>5. Null(x1)
      BY <2>3, <2>4, <3>1, <3>4, CongruentOps, CongruentSelf DEF Null
    <3>6. Null(x2)
      BY <2>5, <2>6, <3>1, <3>4, CongruentOps, CongruentSelf DEF Null
    <3>7. Null(x3)
      BY <2>5, <2>9, <3>1, <3>4, CongruentOps, CongruentSelf DEF Null
    <3>8. a * (beta * den + e) = 1 * (beta * x1 + (-1) * x2) + (-1) * x3
      BY <2>3, <2>4, <2>5, <2>6, <2>8, <2>9
    <3>9. beta * x1 + (-1) * x2 \in Int /\ a * (beta * den + e) \in Int
      BY <2>3, <2>4, <2>5, <2>6, <2>9
    <3> HIDE DEF x1, x2, x3
    <3>10. Null(beta * x1 + (-1) * x2)
      BY <2>6, <3>3, <3>5, <3>6, NullSum
    <3> DEFINE x4 == beta * x1 + (-1) * x2
    <3> HIDE DEF x4
    <3>11. Null(1 * x4 + (-1) * x3)
      BY <3>3, <3>7, <3>9, <3>10, NullSum DEF x4
    <3>12. Null(a * f)
      BY <3>1, <3>2, <3>8, <3>9, <3>11, NullOf DEF x4
    <3>13. ~Null(a)
      BY <2>4, NullNumber DEF Nonzero
    <3>14. Null(f)
      BY <2>4, <2>12, <3>12, <3>13, NullFactor
    <3>. QED  BY <2>12, <3>14, NullNumber
  <2>14. r1 = Zero => p1 = Zero
    <3> SUFFICES ASSUME r1 = Zero PROVE p1 = Zero
      OBVIOUS
    <3>1. rho = 0
      BY <1>1, NaNIsNone, OfZero
    <3>2. beta = 0
      BY <2>3, <3>1, MoreOfZero DEF beta
    <3>3. Axpy(0, r, Zero) = Zero
      BY <1>4, OfZero, NaNIsNone
    <3>. QED  BY <1>1, <3>2, <3>3
  <2>15. Orthogonal(r, r1) /\ Orthogonal(r, Apply(QplusQminus, p1))
    BY <2>8, <2>13 DEF Orthogonal
  <2>16. \E q \in Fields \ {Zero}, c \in Numbers :
            /\ Orthogonal(q, r1) /\ Orthogonal(q, Apply(QplusQminus, p1))
            /\ p1 = Axpy(c, q, r1)
    BY <1>1, <1>4, <2>6, <2>15
  <2>. QED  BY <1>1, <2>5, <2>7, <2>14, <2>16 DEF Conjugate, r1, rho, p1
<1>. QED  BY <1>2, <1>3, <1>4 DEF FieldsOrNaN

LEMMA SecondStepOfCg ==
    ASSUME Qplus \in Matrices, source \in Sources, NEW t, NEW u, Conjugate(t),
           CgStep(t, t.rho, u)
    PROVE  /\ Exhausted(u)
           /\ t.rn \in Fields /\ t.rn # Zero /\ t.p # Zero => u.rn = Zero /\ u.rho = 0
<1> DEFINE r == t.rn
           p == t.p
           v == Apply(QplusQminus, p)
           w == t.rho
           den == scalar_product(p, v)
           a == Minus(Quotient(w, den))
           r2 == u.rn
<1>1. r2 = Axpy(a, v, r) /\ u.rho = scalar_product(r2, r2)
  BY DEF CgStep
<1>2. r2 = Zero => u.rho = 0
  BY <1>1, OfZero, NaNIsNone
<1>3. CASE r = NaN
  <2>1. r2 = NaN
    BY <1>1, <1>3, Strict
  <2>. QED  BY <1>3, <2>1, NaNIsNone DEF Exhausted
<1>4. CASE r # NaN
  <2>1. /\ r \in Fields /\ p \in Fields /\ w = scalar_product(r, r) /\ (r = Zero => p = Zero)
        /\ \E q \in Fields \ {Zero}, c \in Numbers :
              Orthogonal(q, r) /\ Orthogonal(q, v) /\ p = Axpy(c, q, r)
    BY <1>4 DEF Conjugate
  <2>2. PICK q \in Fields \ {Zero}, c \in Numbers :
              Orthogonal(q, r) /\ Orthogonal(q, v) /\ p = Axpy(c, q, r)
    BY <2>1
  <2>3. CASE p = Zero
    <3>1. den = 0
      BY <2>3, Positive, NaNIsNone
    <3>2. a = NaN
      BY <3>1, Strict
    <3>3. r2 = NaN
      BY <1>1, <3>2, Strict
    <3>. QED  BY <2>3, <3>3 DEF Exhausted
  <2>4. CASE p # Zero
    <3> HIDE DEF v, w, den, a, r2, p, r
    <3>1. v \in Fields /\ den \in Nonzero /\ w \in Numbers
      BY <2>1, <2>4, Hermitian, Positive, DotIs DEF v, den
    <3>2. a \in Numbers /\ a \in Int /\ Congruent(den * a, -w) /\ den \in Int /\ w \in Int
      BY <3>1, MinusQuotientIs, NonzeroIs, ModId DEF a
    <3>3. r2 \in Fields
      BY <1>1, <2>1, <3>1, <3>2, AxpyIs
    <3>4. r # Zero
      BY <2>1, <2>4
    <3>5. Orthogonal(q, r2)
      <4>1. scalar_product(q, v) = 0 /\ scalar_product(q, r) = 0
        BY <2>2 DEF Orthogonal
      <4>2. /\ Congruent(scalar_product(q, r2), a * 0 + 0)
            /\ scalar_product(q, r2) \in Numbers
        BY <1>1, <2>1, <3>1, <3>2, <4>1, RowOf
      <4>3. a * 0 + 0 = 0
        BY <3>2
      <4>. QED  BY <4>2, <4>3, NullNumber DEF Null, Orthogonal
    <3>6. scalar_product(p, r) = w
      <4>1. Congruent(scalar_product(r, p), c * scalar_product(r, q) + scalar_product(r, r))
        BY <2>1, <2>2, RowOf
      <4>2. scalar_product(r, q) = 0
        BY <2>1, <2>2, DotIs DEF Orthogonal
      <4>3. c * 0 + w = w
        BY <3>2, ModId
      <4>4. Congruent(scalar_product(r, p), w) /\ scalar_product(r, p) \in Numbers
        BY <2>1, <4>1, <4>2, <4>3, DotIs DEF w
      <4>5. scalar_product(r, p) = w
        BY <3>1, <4>4, CongruentIs, ModId
      <4>. QED  BY <2>1, <4>5, DotIs
    <3>7. scalar_product(p, r2) = 0
      <4> DEFINE f == scalar_product(p, r2)
      <4>1. Congruent(f, a * den + w) /\ f \in Int /\ f \in Numbers
        BY <1>1, <2>1, <3>1, <3>2, <3>6, RowOf DEF den
      <4>2. den * a \in Int /\ -w \in Int /\ a * den + w = den * a - (-w) /\ a * den + w \in Int
        BY <3>2
      <4>3. Null(a * den + w)
        BY <3>2, <4>2, DifferenceNull
      <4>. QED  BY <4>1, <4>2, <4>3, NullOf, NullNumber
    <3>8. Orthogonal(r, r2)
      <4> DEFINE f == scalar_product(r2, r)
      <4>1. Congruent(scalar_product(r2, p), c * scalar_product(r2, q) + f) /\ f \in Int
        BY <2>1, <2>2, <3>3, RowOf
      <4>2. scalar_product(r2, q) = 0 /\ scalar_product(r2, p) = 0
        BY <2>1, <2>2, <3>3, <3>5, <3>7, DotIs DEF Orthogonal
      <4>3. c * 0 + f = f
        BY <4>1, ModId
      <4>4. Congruent(f, 0)
        BY <4>1, <4>2, <4>3, CongruentOps, NaNIsNone, ModId
      <4>5. f = 0
        BY <2>1, <3>3, <4>4, DotIs, NullNumber DEF Null
      <4>. QED  BY <2>1, <3>3, <4>5, DotIs DEF Orthogonal
    <3>9. r2 = Zero
      BY <2>1, <2>2, <3>3, <3>4, <3>5, <3>8, TwoOrthogonal
    <3>. QED  BY <1>2, <3>9 DEF Exhausted, r2
  <2>. QED  BY <2>3, <2>4
<1>. QED  BY <1>3, <1>4

\* There is nothing left to divide.
LEMMA ExhaustedStays ==
    ASSUME NEW Q \in Fields \X Fields, NEW t, NEW a, Exhausted(t), NEW p,
           NEW r, r = Axpy(a, Apply(Q, p), t.rn), p \in FieldsOrNaN,
           a \in {0, NaN} \/ t.rn = NaN, a = NaN \/ p \in Fields
    PROVE  r = NaN \/ (r = Zero /\ scalar_product(r, r) = 0)
<1>1. CASE t.rn = NaN \/ a = NaN
  <2>1. r = NaN
    BY <1>1, Strict
  <2>. QED  BY <2>1
<1>2. CASE t.rn # NaN /\ a # NaN
  <2>1. t.rn = Zero /\ a = 0 /\ p \in Fields
    BY <1>2 DEF Exhausted
  <2>2. Apply(Q, p) \in Fields
    BY <2>1, ApplyIs
  <2>3. r[1] = MulAdd(0, Apply(Q, p)[1], Zero[1]) /\ r[2] = MulAdd(0, Apply(Q, p)[2], Zero[2])
        /\ r \in Fields
    BY <2>1, <2>2, AxpyIs, NaNIsNone
  <2>4. r[1] = 0 /\ r[2] = 0
    <3>1. Apply(Q, p)[1] \in Int /\ Apply(Q, p)[2] \in Int /\ 0 % P = 0
      BY <2>2, FieldIs, NaNIsNone, ModId
    <3>. QED  BY <2>3, <3>1 DEF MulAdd, Zero
  <2>5. r = Zero
    BY <2>3, <2>4, FieldIs DEF Zero
  <2>6. scalar_product(Zero, Zero) = 0
    <3>1. Null(Dot(Zero, Zero))
      BY NaNIsNone, NullNumber DEF Dot, Zero
    <3>. QED  BY <3>1, NaNIsNone, DotIs
  <2>. QED  BY <2>5, <2>6
<1>. QED  BY <1>1, <1>2

LEMMA QuotientExists ==
    ASSUME NEW a \in NumbersOrNaN, NEW c \in NumbersOrNaN, Quotient(a, c) # NaN
    PROVE  a \in Numbers /\ c \in Nonzero /\ Quotient(a, c) \in Numbers
<1>1. a \in Numbers /\ c \in Nonzero
  BY DEF Quotient, NumbersOrNaN, Nonzero
<1>. QED  BY <1>1, QuotientIs

LEMMA AxpyExists ==
    ASSUME NEW a \in NumbersOrNaN, NEW x \in FieldsOrNaN, NEW y \in FieldsOrNaN,
           Axpy(a, x, y) # NaN
    PROVE  a \in Numbers /\ x \in Fields /\ y \in Fields /\ Axpy(a, x, y) \in Fields
<1>1. a \in Numbers /\ x \in Fields /\ y \in Fields
  BY DEF Axpy, NumbersOrNaN, FieldsOrNaN
<1>. QED  BY <1>1, AxpyIs

LEMMA MinusExists ==
    ASSUME NEW a \in NumbersOrNaN
    PROVE  Minus(a) \in Numbers => a \in Numbers
BY NaNIsNone DEF Minus, NumbersOrNaN

LEMMA ProductExists ==
    ASSUME NEW x \in FieldsOrNaN, NEW y \in FieldsOrNaN, scalar_product(x, y) # NaN
    PROVE  x \in Fields /\ y \in Fields /\ scalar_product(x, y) \in Numbers
<1>1. x \in Fields /\ y \in Fields
  BY DEF scalar_product, FieldsOrNaN
<1>. QED  BY <1>1, ProductIs

\* BiCGstab in parts.
StepOf(t, u, sn) ==
    LET tn == Apply(A, sn)
    IN /\ u.v = Apply(A, t.p)
       /\ u.alpha = Quotient(t.rho, scalar_product(t.rhat, u.v))
       /\ sn = Axpy(Minus(u.alpha), u.v, t.rn)
       /\ u.omega = Quotient(scalar_product(tn, sn), scalar_product(tn, tn))
       /\ u.rn = Axpy(Minus(u.omega), tn, sn)
       /\ u.p = t.p /\ u.rhat = t.rhat /\ u.rho = t.rho

LEMMA StepIs ==
    ASSUME NEW t \in SolverStates
    PROVE  \E sn : StepOf(t, StabilizedStep(t), sn)
<1> DEFINE v == Apply(A, t.p)
           alpha == Quotient(t.rho, scalar_product(t.rhat, v))
           sn == saxpy(alpha, v, t.rn)
           tn == Apply(A, sn)
           omega == Quotient(scalar_product(tn, sn), scalar_product(tn, tn))
           rn == saxpy(omega, tn, sn)
           x == saxsbypz(alpha, t.p, omega, sn, t.x)
           u == StabilizedStep(t)
<1>1. u = [t EXCEPT !.v = v, !.alpha = alpha, !.omega = omega, !.rn = rn, !.x = x]
  BY Zenon DEF StabilizedStep
<1>2. sn = Axpy(Minus(alpha), v, t.rn) /\ rn = Axpy(Minus(omega), tn, sn)
  BY Zenon DEF saxpy
<1> HIDE DEF v, alpha, sn, tn, omega, rn, x, u
<1>3. /\ u.v = v /\ u.alpha = alpha /\ u.omega = omega /\ u.rn = rn
      /\ u.p = t.p /\ u.rhat = t.rhat /\ u.rho = t.rho
  BY <1>1 DEF SolverStates
<1>4. StepOf(t, u, sn)
  BY <1>2, <1>3 DEF StepOf, v, alpha, tn, omega
<1>. QED  BY <1>4 DEF u

LEMMA StepExists ==
    ASSUME Typed, NEW t \in SolverStates, NEW u, NEW sn, StepOf(t, u, sn), u.rn # NaN
    PROVE  /\ t.p \in Fields /\ t.rn \in Fields /\ t.rhat \in Fields /\ t.rho \in Numbers
           /\ u.v \in Fields /\ u.alpha \in Numbers /\ u.omega \in Numbers
           /\ Minus(u.alpha) \in Numbers /\ Minus(u.omega) \in Numbers
           /\ sn \in Fields /\ u.rn \in Fields
           /\ scalar_product(t.rhat, u.v) \in Nonzero
           /\ Congruent(u.alpha * scalar_product(t.rhat, u.v), t.rho)
           /\ LET tn == Apply(A, sn)
              IN tn \in Fields /\ scalar_product(tn, tn) \in Nonzero
                 /\ Congruent(scalar_product(tn, tn) * u.omega, scalar_product(tn, sn))
<1> DEFINE tn == Apply(A, sn)
           den == scalar_product(t.rhat, u.v)
<1>1. /\ t.p \in FieldsOrNaN /\ t.rn \in FieldsOrNaN /\ t.rhat \in FieldsOrNaN
      /\ t.rho \in NumbersOrNaN
  BY DEF SolverStates
<1>2. u.v \in FieldsOrNaN
  BY <1>1, Kernels DEF StepOf
<1>3. den \in NumbersOrNaN
  BY <1>1, <1>2, Kernels
<1>4. u.alpha \in NumbersOrNaN
  BY <1>1, <1>3, ScalarTypes DEF StepOf
<1>5. Minus(u.alpha) \in NumbersOrNaN
  BY <1>4, Kernels
<1>6. sn \in FieldsOrNaN
  BY <1>1, <1>2, <1>5, Kernels DEF StepOf
<1>7. tn \in FieldsOrNaN
  BY <1>6, Kernels
<1>8. scalar_product(tn, sn) \in NumbersOrNaN /\ scalar_product(tn, tn) \in NumbersOrNaN
  BY <1>6, <1>7, Kernels
<1>9. u.omega \in NumbersOrNaN
  BY <1>8, ScalarTypes DEF StepOf
<1>10. Minus(u.omega) \in NumbersOrNaN
  BY <1>9, Kernels
<1>11. Minus(u.omega) \in Numbers /\ tn \in Fields /\ sn \in Fields /\ u.rn \in Fields
  BY <1>6, <1>7, <1>10, AxpyExists DEF StepOf
<1>12. Minus(u.alpha) \in Numbers /\ u.v \in Fields /\ t.rn \in Fields
  BY <1>1, <1>2, <1>5, <1>11, AxpyExists, NaNIsNone DEF StepOf
<1>13. u.alpha \in Numbers /\ u.omega \in Numbers
  BY <1>4, <1>9, <1>11, <1>12, MinusExists
<1>14. t.rho \in Numbers /\ den \in Nonzero
  BY <1>1, <1>3, <1>13, QuotientExists, NaNIsNone DEF StepOf
<1>15. t.rhat \in Fields
  BY <1>1, <1>2, <1>14, ProductExists, NonzeroIs
<1>16. t.p \in Fields
  BY <1>1, <1>12, Strict, NaNIsNone DEF StepOf, FieldsOrNaN
<1>17. Congruent(u.alpha * den, t.rho)
  <2>1. Congruent(den * u.alpha, t.rho)
    BY <1>14, QuotientIs DEF StepOf
  <2>2. den * u.alpha = u.alpha * den
    BY <1>13, <1>14, NonzeroIs, ModId
  <2>. QED  BY <2>1, <2>2
<1>18. scalar_product(tn, tn) \in Nonzero /\ scalar_product(tn, sn) \in Numbers
  BY <1>8, <1>13, QuotientExists, NaNIsNone DEF StepOf
<1>19. Congruent(scalar_product(tn, tn) * u.omega, scalar_product(tn, sn))
  BY <1>18, QuotientIs DEF StepOf
<1>. QED  BY <1>11, <1>12, <1>13, <1>14, <1>15, <1>16, <1>17, <1>18, <1>19

LEMMA MinusIs ==
    ASSUME NEW a \in Numbers
    PROVE  Minus(a) \in Int /\ a \in Int /\ Minus(a) \in Numbers /\ Null(Minus(a) + a)
<1>1. Minus(a) \in Int /\ a \in Int /\ Minus(a) \in Numbers /\ Congruent(Minus(a), -a)
  BY ScalarIs, ModId
<1>2. Minus(a) - (-a) = Minus(a) + a /\ -a \in Int
  BY <1>1
<1>. QED  BY <1>1, <1>2, DifferenceNull

\* The field between the two halves of a step is orthogonal to rhat.
LEMMA HalfStep ==
    ASSUME Typed, NEW t \in SolverStates, NEW u, NEW sn, StepOf(t, u, sn), u.rn # NaN,
           t.rho = scalar_product(t.rhat, t.rn)
    PROVE  Orthogonal(t.rhat, sn)
<1> DEFINE c == scalar_product(t.rhat, u.v)
           a == u.alpha
           m == Minus(a)
           rho == t.rho
           o == scalar_product(t.rhat, sn)
<1>1. /\ t.rn \in Fields /\ t.rhat \in Fields /\ rho \in Numbers /\ u.v \in Fields
      /\ a \in Numbers /\ c \in Nonzero /\ m \in Numbers /\ Congruent(a * c, rho)
  BY StepExists
<1>2. Congruent(o, m * c + rho) /\ o \in Numbers /\ c \in Int /\ rho \in Int
  BY <1>1, RowOf DEF StepOf
<1>3. m \in Int /\ a \in Int /\ Null(m + a)
  BY <1>1, MinusIs
<1> HIDE DEF c, a, m, rho, o
<1> DEFINE d == m + a
           e == a * c - rho
<1>4. d \in Int /\ e \in Int /\ m * c + rho = c * d + (-1) * e /\ m * c + rho \in Int /\ a * c \in Int
  BY <1>2, <1>3
<1>5. Null(d) /\ Null(e)
  BY <1>1, <1>2, <1>3, <1>4, DifferenceNull
<1> HIDE DEF d, e
<1>6. Null(c * d + (-1) * e)
  BY <1>2, <1>4, <1>5, NullSum
<1>7. o \in Int /\ Null(o)
  BY <1>2, <1>4, <1>6, NullOf, NullNumber
<1>. QED  BY <1>2, <1>7, NullNumber DEF Orthogonal, o

LEMMA FirstStabilizedStep ==
    ASSUME Typed, NEW t \in SolverStates, t.rho = scalar_product(t.rhat, t.rn), t.rho # 0
    PROVE  Stabilized(StabilizedStep(t))
<1> DEFINE u == StabilizedStep(t)
<1>1. PICK sn : StepOf(t, u, sn)
  BY StepIs
<1> HIDE DEF u
<1>2. ASSUME u.rn # NaN PROVE Stabilized(u)
  <2>1. /\ t.p \in Fields /\ t.rn \in Fields /\ t.rhat \in Fields /\ t.rho \in Numbers
        /\ u.v \in Fields /\ u.alpha \in Numbers /\ u.omega \in Numbers
        /\ sn \in Fields /\ u.rn \in Fields
        /\ Congruent(u.alpha * scalar_product(t.rhat, u.v), t.rho)
    BY <1>1, <1>2, StepExists
  <2>2. Orthogonal(t.rhat, sn)
    BY <1>1, <1>2, HalfStep
  <2>3. t.rhat # Zero
    <3>1. t.rhat = Zero => t.rho = 0
      BY <2>1, OfZero, NaNIsNone DEF Typed
    <3>. QED  BY <3>1
  <2>4. /\ u.p = t.p /\ u.rhat = t.rhat /\ u.rho = t.rho /\ u.v = Apply(A, t.p)
        /\ u.rn = Axpy(Minus(u.omega), Apply(A, sn), sn)
    BY <1>1 DEF StepOf
  <2>. QED  BY <2>1, <2>2, <2>3, <2>4 DEF Stabilized, Nonzero
<1>3. Stabilized(u)
  BY <1>2 DEF Stabilized
<1>. QED  BY <1>3 DEF u

\* beta and the new direction are those of the BiCG.
LEMMA BetaConjugates ==
    ASSUME NEW rho \in Nonzero, NEW omega \in Numbers, NEW alpha \in Int, NEW beta \in Int,
           NEW c \in Int, NEW e \in Int, NEW m \in Int, NEW next \in Int,
           omega # 0, Null(m + omega), Congruent(next, m * e), Congruent(alpha * c, rho),
           Null(rho * omega * beta - next * alpha)
    PROVE  Null(beta * c + e)
<1>1. rho \in Int /\ omega \in Int /\ ~Null(rho) /\ ~Null(omega)
  BY NonzeroIs, NullNumber, ModId
<1> DEFINE x1 == m + omega
           x2 == next - m * e
           x3 == alpha * c - rho
           x4 == rho * omega * beta - next * alpha
<1>2. x1 \in Int /\ x2 \in Int /\ x3 \in Int /\ x4 \in Int /\ m * e \in Int /\ alpha * c \in Int
  BY <1>1
<1>3. Null(x1) /\ Null(x2) /\ Null(x3) /\ Null(x4)
  BY <1>1, <1>2, DifferenceNull
<1> DEFINE k1 == alpha * c * e
           k2 == alpha * c
           k3 == -(omega * e)
           z == beta * c + e
<1>4. /\ k1 \in Int /\ k2 \in Int /\ k3 \in Int /\ z \in Int /\ c \in Int /\ 1 \in Int
      /\ rho * (omega * z) = (c * x4 + k2 * x2) + (k1 * x1 + k3 * x3)
      /\ omega * z \in Int
  BY <1>1
<1> HIDE DEF x1, x2, x3, x4, k1, k2, k3, z
<1> DEFINE y1 == c * x4 + k2 * x2
           y2 == k1 * x1 + k3 * x3
<1>5. Null(y1) /\ Null(y2) /\ y1 \in Int /\ y2 \in Int
  BY <1>2, <1>3, <1>4, NullSum
<1> HIDE DEF y1, y2
<1>6. Null(y1 + y2)
  BY <1>5, NullPlus
<1>7. Null(rho * (omega * z))
  BY <1>4, <1>6 DEF y1, y2
<1>8. Null(z)
  BY <1>1, <1>4, <1>7, NullFactor
<1>. QED  BY <1>8 DEF z

LEMMA NextDirectionIs ==
    ASSUME NEW t \in SolverStates, NEW next
    PROVE  LET u == StabilizedDirection(t, next)
               beta == Product(Quotient(next, t.rho), Quotient(t.alpha, t.omega))
           IN /\ u.p = Axpy(beta, t.p, Axpy(Minus(Product(beta, t.omega)), t.v, t.rn))
              /\ u.rn = t.rn /\ u.rhat = t.rhat /\ u.rho = next
<1> DEFINE beta == Product(Quotient(next, t.rho), Quotient(t.alpha, t.omega))
           p == saxsbypz(beta, t.p, Minus(Product(beta, t.omega)), t.v, t.rn)
           u == StabilizedDirection(t, next)
<1>1. u = [t EXCEPT !.beta = beta, !.rho = next, !.p = p]
  BY Zenon DEF StabilizedDirection
<1>2. p = Axpy(beta, t.p, Axpy(Minus(Product(beta, t.omega)), t.v, t.rn))
  BY Zenon DEF saxsbypz
<1> HIDE DEF beta, p, u
<1>3. u.p = p /\ u.rn = t.rn /\ u.rhat = t.rhat /\ u.rho = next
  BY <1>1 DEF SolverStates
<1>. QED  BY <1>2, <1>3 DEF u, beta

Regrouped(a, c, m, p, v, y, z, t1, t2, l, u1, u2, r) ==
    /\ Congruent(c, a * m) /\ Congruent(t1, m * y + z) /\ Congruent(t2, c * v + t1)
    /\ Congruent(l, a * p + t2) /\ Congruent(u1, a * v + y) /\ Congruent(u2, a * p + z)
    /\ Congruent(r, m * u1 + u2)

LEMMA RegroupedNumbers ==
    ASSUME NEW a \in Int, NEW c \in Int, NEW m \in Int, NEW p \in Int, NEW v \in Int,
           NEW y \in Int, NEW z \in Int, NEW t1 \in Int, NEW t2 \in Int, NEW l \in Int,
           NEW u1 \in Int, NEW u2 \in Int, NEW r \in Int,
           Regrouped(a, c, m, p, v, y, z, t1, t2, l, u1, u2, r)
    PROVE  Congruent(l, r)
<1> DEFINE k0 == c - a * m
           k1 == t1 - (m * y + z)  k2 == t2 - (c * v + t1)
           k3 == l - (a * p + t2)  k4 == u1 - (a * v + y)
           k5 == u2 - (a * p + z)  k6 == r - (m * u1 + u2)
<1>1. /\ a * m \in Int /\ m * y + z \in Int /\ c * v + t1 \in Int /\ a * p + t2 \in Int
      /\ a * v + y \in Int /\ a * p + z \in Int /\ m * u1 + u2 \in Int
  OBVIOUS
<1>2. /\ Null(k0) /\ Null(k1) /\ Null(k2) /\ Null(k3) /\ Null(k4) /\ Null(k5) /\ Null(k6)
      /\ k0 \in Int /\ k1 \in Int /\ k2 \in Int /\ k3 \in Int /\ k4 \in Int /\ k5 \in Int /\ k6 \in Int
  BY <1>1, DifferenceNull DEF Regrouped
<1>3. l - r = ((k1 + k2) + (k3 - k5)) + ((v * k0 + (-m) * k4) - k6)
      /\ -m \in Int /\ l - r \in Int
  OBVIOUS
<1> HIDE DEF k0, k1, k2, k3, k4, k5, k6
<1> DEFINE n1 == k1 + k2  n2 == k3 - k5  n3 == v * k0 + (-m) * k4
<1>4. n1 \in Int /\ n2 \in Int /\ n3 \in Int
  BY <1>2
<1>5. Null(n1) /\ Null(n2)
  BY <1>2, NullPlus
<1>6. Null(n3)
  BY <1>2, <1>3, NullSum
<1>7. l - r = (n1 + n2) + (n3 - k6)
  BY <1>3
<1> HIDE DEF n1, n2, n3
<1>8. Null(n1 + n2) /\ Null(n3 - k6) /\ n1 + n2 \in Int /\ n3 - k6 \in Int
  BY <1>2, <1>4, <1>5, <1>6, NullPlus
<1>9. Null((n1 + n2) + (n3 - k6))
  BY <1>8, NullPlus
<1>. QED  BY <1>3, <1>7, <1>9, NullDifference

LEMMA BetaIs ==
    ASSUME NEW rho \in Int, NEW omega \in Int, NEW alpha \in Int, NEW next \in Int,
           NEW f \in Int, NEW g \in Int, NEW beta \in Int,
           Congruent(rho * f, next), Congruent(omega * g, alpha), Congruent(beta, f * g)
    PROVE  Null(rho * omega * beta - next * alpha)
<1> DEFINE k1 == rho * f - next
           k2 == omega * g - alpha
           k3 == beta - f * g
           h1 == omega * g
           h2 == rho * omega
           l == rho * omega * beta - next * alpha
<1>1. rho * f \in Int /\ omega * g \in Int /\ f * g \in Int
  OBVIOUS
<1>2. /\ Null(k1) /\ Null(k2) /\ Null(k3) /\ k1 \in Int /\ k2 \in Int /\ k3 \in Int
  BY <1>1, DifferenceNull
<1>3. l = h2 * k3 + (h1 * k1 + next * k2) /\ h1 \in Int /\ h2 \in Int
  OBVIOUS
<1> HIDE DEF k1, k2, k3, h1, h2
<1> DEFINE h3 == h1 * k1 + next * k2
<1>4. Null(h3) /\ h3 \in Int
  BY <1>2, <1>3, NullSum
<1>5. l = h2 * k3 + h3
  BY <1>3
<1> HIDE DEF h3, l
<1>6. Null(h2 * k3) /\ h2 * k3 \in Int
  BY <1>2, <1>3, NullTimes
<1>7. Null(l)
  BY <1>4, <1>5, <1>6, NullPlus
<1>. QED  BY <1>7 DEF l

LEMMA MinusProductIs ==
    ASSUME NEW beta \in Int, NEW omega \in Int, NEW m \in Int, NEW q \in Int, NEW k \in Int,
           Null(m + omega), Congruent(q, beta * omega), Null(k + q)
    PROVE  Congruent(k, beta * m)
<1> DEFINE k1 == q - beta * omega
           k2 == k + q
           k3 == m + omega
<1>1. beta * omega \in Int /\ beta * m \in Int
  OBVIOUS
<1>2. Null(k1) /\ Null(k2) /\ Null(k3) /\ k1 \in Int /\ k2 \in Int /\ k3 \in Int
  BY <1>1, DifferenceNull
<1>3. k - beta * m = (k2 - k1) + (-beta) * k3 /\ -beta \in Int
  OBVIOUS
<1> HIDE DEF k1, k2, k3
<1>4. Null(k2 - k1) /\ Null((-beta) * k3) /\ k2 - k1 \in Int /\ (-beta) * k3 \in Int
  BY <1>2, <1>3, NullPlus, NullTimes
<1>5. Null(k - beta * m)
  BY <1>3, <1>4, NullPlus
<1>. QED  BY <1>1, <1>5, NullDifference

LEMMA AxpyRegroups ==
    ASSUME NEW a \in Numbers, NEW c \in Numbers, NEW m \in Numbers, NEW p \in Fields,
           NEW v \in Fields, NEW y \in Fields, NEW z \in Fields,
           Congruent(c, a * m)
    PROVE  Axpy(a, p, Axpy(c, v, Axpy(m, y, z))) =
               Axpy(m, Axpy(a, v, y), Axpy(a, p, z))
<1> DEFINE t1 == Axpy(m, y, z)
           t2 == Axpy(c, v, t1)
           l == Axpy(a, p, t2)
           u1 == Axpy(a, v, y)
           u2 == Axpy(a, p, z)
           r == Axpy(m, u1, u2)
<1>1. t1 \in Fields /\ t2 \in Fields /\ l \in Fields /\ u1 \in Fields /\ u2 \in Fields /\ r \in Fields
  BY AxpyIs
<1>2. ASSUME NEW i \in {1, 2} PROVE Congruent(l[i], r[i])
  <2>1. /\ t1[i] \in Int /\ t2[i] \in Int /\ l[i] \in Int /\ u1[i] \in Int /\ u2[i] \in Int
        /\ r[i] \in Int /\ p[i] \in Int /\ v[i] \in Int /\ y[i] \in Int /\ z[i] \in Int
        /\ a \in Int /\ c \in Int /\ m \in Int
        /\ Congruent(t1[i], m * y[i] + z[i]) /\ Congruent(t2[i], c * v[i] + t1[i])
        /\ Congruent(l[i], a * p[i] + t2[i]) /\ Congruent(u1[i], a * v[i] + y[i])
        /\ Congruent(u2[i], a * p[i] + z[i]) /\ Congruent(r[i], m * u1[i] + u2[i])
    BY <1>1, Component
  <2> HIDE DEF t1, t2, l, u1, u2, r
  <2>2. Regrouped(a, c, m, p[i], v[i], y[i], z[i], t1[i], t2[i], l[i], u1[i], u2[i], r[i])
    BY <2>1 DEF Regrouped
  <2>. QED  BY <2>1, <2>2, RegroupedNumbers
<1>3. l = r
  BY <1>1, <1>2, SameField
<1>. QED  BY <1>3

LEMMA StabilizedConjugates ==
    ASSUME Typed, NEW t \in SolverStates, Stabilized(t),
           scalar_product(t.rhat, t.rn) # 0
    PROVE  BiConjugate(StabilizedDirection(t, scalar_product(t.rhat, t.rn)))
<1> DEFINE next == scalar_product(t.rhat, t.rn)
           u == StabilizedDirection(t, next)
           beta == Product(Quotient(next, t.rho), Quotient(t.alpha, t.omega))
           m == Minus(t.omega)
           c == scalar_product(t.rhat, t.v)
<1>1. /\ u.p = Axpy(beta, t.p, Axpy(Minus(Product(beta, t.omega)), t.v, t.rn))
      /\ u.rn = t.rn /\ u.rhat = t.rhat /\ u.rho = next
  BY NextDirectionIs
<1> HIDE DEF u
<1>2. ASSUME t.rn # NaN PROVE BiConjugate(u)
  <2>1. /\ t.rn \in Fields /\ t.p \in Fields /\ t.v \in Fields /\ t.rhat \in Fields
        /\ t.alpha \in Numbers /\ t.omega \in Numbers /\ t.rho \in Nonzero
        /\ t.rhat # Zero /\ t.v = Apply(A, t.p)
        /\ Congruent(t.alpha * c, t.rho)
        /\ \E z \in Fields :
              Orthogonal(t.rhat, z) /\ t.rn = Axpy(m, Apply(A, z), z)
    BY <1>2 DEF Stabilized
  <2>2. PICK z \in Fields : Orthogonal(t.rhat, z) /\ t.rn = Axpy(m, Apply(A, z), z)
    BY <2>1
  <2> DEFINE y == Apply(A, z)
             e == scalar_product(t.rhat, y)
  <2>3. y \in Fields /\ A \in Fields \X Fields
    BY Kernels, ApplyIs
  <2>4. m \in Int /\ m \in Numbers /\ t.omega \in Int /\ Null(m + t.omega)
    BY <2>1, MinusIs
  <2>5. Congruent(next, m * e) /\ e \in Int /\ next \in Numbers /\ next \in Int /\ c \in Int
    <3>1. Congruent(next, m * e + 0) /\ e \in Int /\ next \in Numbers
      BY <2>1, <2>2, <2>3, <2>4, RowOf DEF Orthogonal
    <3>2. m * e + 0 = m * e
      BY <2>4, <3>1
    <3>. QED  BY <2>1, <3>1, <3>2, DotIs
  <2>6. t.omega # 0
    <3> SUFFICES ASSUME t.omega = 0 PROVE FALSE
      OBVIOUS
    <3> HIDE DEF m, e, next
    <3>1. m + t.omega = m
      BY <2>4
    <3>2. Null(e * m) /\ e * m = m * e
      BY <2>4, <2>5, <3>1, NullTimes
    <3>3. Null(next)
      BY <2>4, <2>5, <3>2, NullOf
    <3>. QED  BY <2>5, <3>3, NullNumber DEF next
  <2>7. /\ beta \in Numbers /\ beta \in Int
        /\ Null(t.rho * t.omega * beta - next * t.alpha)
    <3> DEFINE f == Quotient(next, t.rho)
               g == Quotient(t.alpha, t.omega)
    <3>1. f \in Numbers /\ Congruent(t.rho * f, next)
      BY <2>1, <2>5, QuotientIs
    <3>2. t.omega \in Nonzero
      BY <2>1, <2>6 DEF Nonzero
    <3>3. g \in Numbers /\ Congruent(t.omega * g, t.alpha)
      BY <2>1, <3>2, QuotientIs
    <3>4. beta \in Numbers /\ beta \in Int /\ Congruent(beta, f * g)
      BY <3>1, <3>3, ScalarIs
    <3>5. f \in Int /\ g \in Int /\ t.rho \in Int /\ t.alpha \in Int
      BY <2>1, <3>1, <3>3, NonzeroIs, ModId
    <3> HIDE DEF f, g, beta, next
    <3>6. t.omega \in Int
      BY <2>4
    <3>7. Null(t.rho * t.omega * beta - next * t.alpha)
      BY <2>5, <3>1, <3>3, <3>4, <3>5, <3>6, BetaIs
    <3>. QED  BY <3>4, <3>7
  <2>8. Null(beta * c + e)
    <3>1. t.alpha \in Int
      BY <2>1, ModId
    <3>2. t.rho \in Nonzero /\ t.omega \in Numbers /\ Congruent(t.alpha * c, t.rho)
      BY <2>1
    <3>3. Null(t.rho * t.omega * beta - next * t.alpha) /\ beta \in Int
      BY <2>7
    <3>4. m \in Int /\ Null(m + t.omega) /\ Congruent(next, m * e) /\ c \in Int /\ e \in Int
          /\ next \in Int
      BY <2>4, <2>5
    <3> HIDE DEF beta, c, e, m, next, y
    <3>. QED  BY <2>6, <3>1, <3>2, <3>3, <3>4, BetaConjugates
  <2> DEFINE d == Axpy(beta, t.p, z)
  <2>9. d \in Fields /\ Apply(A, d) = Axpy(beta, t.v, y)
    <3>1. beta \in NumbersOrNaN /\ t.p \in FieldsOrNaN /\ z \in FieldsOrNaN
      BY <2>1, <2>7 DEF NumbersOrNaN, FieldsOrNaN
    <3>. QED  BY <2>1, <2>3, <2>7, <3>1, AxpyIs, ApplyLinear
  <2>10. Orthogonal(t.rhat, Apply(A, d))
    <3>1. /\ Congruent(scalar_product(t.rhat, Axpy(beta, t.v, y)), beta * c + e)
          /\ scalar_product(t.rhat, Axpy(beta, t.v, y)) \in Numbers
      BY <2>1, <2>3, <2>7, RowOf
    <3>2. beta * c + e \in Int
      BY <2>5, <2>7
    <3>. QED  BY <2>8, <2>9, <3>1, <3>2, NullOf, NullNumber DEF Orthogonal
  <2>11. u.p = Axpy(m, Apply(A, d), d)
    <3> DEFINE k == Minus(Product(beta, t.omega))
    <3>1. k \in Numbers /\ Congruent(k, beta * m)
      <4> DEFINE q == Product(beta, t.omega)
      <4>1. q \in Numbers /\ q \in Int /\ Congruent(q, beta * t.omega)
        BY <2>1, <2>7, ScalarIs
      <4>2. k \in Numbers /\ k \in Int /\ Null(k + q)
        BY <4>1, MinusIs
      <4>3. Congruent(k, beta * m)
        <5> HIDE DEF q, k, beta, m
        <5>. QED  BY <2>4, <2>7, <4>1, <4>2, MinusProductIs
      <4>. QED  BY <4>2, <4>3
    <3>3. t.p \in Fields /\ t.v \in Fields /\ y \in Fields /\ beta \in Numbers /\ m \in Numbers
      BY <2>1, <2>3, <2>4, <2>7
    <3> HIDE DEF k, beta, m, y
    <3>2. Axpy(beta, t.p, Axpy(k, t.v, Axpy(m, y, z))) =
               Axpy(m, Axpy(beta, t.v, y), Axpy(beta, t.p, z))
      BY <3>1, <3>3, AxpyRegroups
    <3>. QED  BY <1>1, <2>2, <2>9, <3>2 DEF k, y, beta, m
  <2>12. m \in Nonzero
    <3>1. t.omega \in Nonzero
      BY <2>1, <2>6 DEF Nonzero
    <3>. QED  BY <3>1, NonzeroIs
  <2>13. \E z1 \in Fields, d1 \in Fields, w1 \in Nonzero :
             /\ Orthogonal(u.rhat, z1) /\ Orthogonal(u.rhat, Apply(A, d1))
             /\ u.rn = Axpy(w1, Apply(A, z1), z1) /\ u.p = Axpy(w1, Apply(A, d1), d1)
    BY <1>1, <2>2, <2>9, <2>10, <2>11, <2>12
  <2>14. u.p \in Fields
    <3>1. Apply(A, d) \in Fields
      BY <2>3, <2>9, ApplyIs
    <3>. QED  BY <2>4, <2>9, <2>11, <3>1, AxpyIs
  <2>. QED  BY <1>1, <2>1, <2>13, <2>14 DEF BiConjugate
<1>3. BiConjugate(u)
  BY <1>1, <1>2 DEF BiConjugate
<1>. QED  BY <1>3 DEF u

Splitted(a, c, m, x, y, z, t, l, u, r) ==
    /\ Congruent(c, a * m) /\ Congruent(t, m * x + y) /\ Congruent(l, a * t + z)
    /\ Congruent(u, c * x + z) /\ Congruent(r, a * y + u)

LEMMA SplitNumbers ==
    ASSUME NEW a \in Int, NEW c \in Int, NEW m \in Int, NEW x \in Int, NEW y \in Int,
           NEW z \in Int, NEW t \in Int, NEW l \in Int, NEW u \in Int, NEW r \in Int,
           Splitted(a, c, m, x, y, z, t, l, u, r)
    PROVE  Congruent(l, r)
<1> DEFINE k0 == c - a * m
           k1 == t - (m * x + y)  k2 == l - (a * t + z)
           k3 == u - (c * x + z)  k4 == r - (a * y + u)
<1>1. /\ a * m \in Int /\ m * x + y \in Int /\ a * t + z \in Int /\ c * x + z \in Int /\ a * y + u \in Int
  OBVIOUS
<1>2. /\ Null(k0) /\ Null(k1) /\ Null(k2) /\ Null(k3) /\ Null(k4)
      /\ k0 \in Int /\ k1 \in Int /\ k2 \in Int /\ k3 \in Int /\ k4 \in Int
  BY <1>1, DifferenceNull DEF Splitted
<1>3. l - r = (a * k1 + (-x) * k0) + ((k2 - k4) - k3) /\ -x \in Int
  OBVIOUS
<1> HIDE DEF k0, k1, k2, k3, k4
<1> DEFINE n1 == a * k1 + (-x) * k0
           n2 == k2 - k4
<1>4. Null(n1) /\ Null(n2) /\ n1 \in Int /\ n2 \in Int
  BY <1>2, <1>3, NullSum, NullPlus
<1>5. l - r = n1 + (n2 - k3)
  BY <1>3
<1> HIDE DEF n1, n2
<1>6. Null(n2 - k3) /\ n2 - k3 \in Int
  BY <1>2, <1>4, NullPlus
<1>7. Null(l - r)
  BY <1>4, <1>5, <1>6, NullPlus
<1>. QED  BY <1>7, NullDifference

LEMMA AxpySplits ==
    ASSUME NEW a \in Numbers, NEW c \in Numbers, NEW m \in Numbers, NEW x \in Fields,
           NEW y \in Fields, NEW z \in Fields, Congruent(c, a * m)
    PROVE  Axpy(a, Axpy(m, x, y), z) = Axpy(a, y, Axpy(c, x, z))
<1> DEFINE t == Axpy(m, x, y)
           l == Axpy(a, t, z)
           u == Axpy(c, x, z)
           r == Axpy(a, y, u)
<1>1. t \in Fields /\ l \in Fields /\ u \in Fields /\ r \in Fields
  BY AxpyIs
<1>2. ASSUME NEW i \in {1, 2} PROVE Congruent(l[i], r[i])
  <2>1. /\ t[i] \in Int /\ l[i] \in Int /\ u[i] \in Int /\ r[i] \in Int
        /\ x[i] \in Int /\ y[i] \in Int /\ z[i] \in Int /\ a \in Int /\ c \in Int /\ m \in Int
        /\ Congruent(t[i], m * x[i] + y[i]) /\ Congruent(l[i], a * t[i] + z[i])
        /\ Congruent(u[i], c * x[i] + z[i]) /\ Congruent(r[i], a * y[i] + u[i])
    BY <1>1, Component
  <2> HIDE DEF t, l, u, r
  <2>2. Splitted(a, c, m, x[i], y[i], z[i], t[i], l[i], u[i], r[i])
    BY <2>1 DEF Splitted
  <2>. QED  BY <2>1, <2>2, SplitNumbers
<1>3. l = r
  BY <1>1, <1>2, SameField
<1>. QED  BY <1>3

TwiceApplied(a, c, d, e, y1, y2, u1, u2, w1, w2, q1, q2) ==
    /\ Congruent(u1, a * y1 + c * y2) /\ Congruent(u2, d * y1 + e * y2)
    /\ Congruent(w1, a * u1 + c * u2) /\ Congruent(w2, d * u1 + e * u2)
    /\ Null(q1 * y1 + q2 * y2) /\ Null(q1 * u1 + q2 * u2)

\* A matrix solves its own characteristic equation.
LEMMA CayleyHamiltonNumbers ==
    ASSUME NEW a \in Int, NEW c \in Int, NEW d \in Int, NEW e \in Int,
           NEW y1 \in Int, NEW y2 \in Int, NEW u1 \in Int, NEW u2 \in Int,
           NEW w1 \in Int, NEW w2 \in Int, NEW q1 \in Int, NEW q2 \in Int,
           TwiceApplied(a, c, d, e, y1, y2, u1, u2, w1, w2, q1, q2)
    PROVE  Null(q1 * w1 + q2 * w2)
<1> DEFINE k1 == u1 - (a * y1 + c * y2)  k2 == u2 - (d * y1 + e * y2)
           k3 == w1 - (a * u1 + c * u2)  k4 == w2 - (d * u1 + e * u2)
           f == q1 * y1 + q2 * y2  g == q1 * u1 + q2 * u2
           m1 == q2 * d - q1 * e  m2 == q1 * c - q2 * a
           tr == a + e  det == c * d - a * e
           l == q1 * w1 + q2 * w2
<1>1. /\ a * y1 + c * y2 \in Int /\ d * y1 + e * y2 \in Int
      /\ a * u1 + c * u2 \in Int /\ d * u1 + e * u2 \in Int
  OBVIOUS
<1>2. /\ Null(k1) /\ Null(k2) /\ Null(k3) /\ Null(k4) /\ Null(f) /\ Null(g)
      /\ k1 \in Int /\ k2 \in Int /\ k3 \in Int /\ k4 \in Int /\ f \in Int /\ g \in Int
  BY <1>1, DifferenceNull DEF TwiceApplied
<1>3. /\ m1 \in Int /\ m2 \in Int /\ tr \in Int /\ det \in Int
      /\ l = (q1 * k3 + q2 * k4) + ((m1 * k1 + m2 * k2) + (tr * g + det * f))
  OBVIOUS
<1> HIDE DEF k1, k2, k3, k4, f, g, m1, m2, tr, det, l
<1> DEFINE n1 == q1 * k3 + q2 * k4
           n2 == m1 * k1 + m2 * k2
           n3 == tr * g + det * f
<1>4. Null(n1) /\ n1 \in Int
  BY <1>2, NullSum
<1>5. Null(n2) /\ n2 \in Int
  BY <1>2, <1>3, NullSum
<1>6. Null(n3) /\ n3 \in Int
  BY <1>2, <1>3, NullSum
<1>7. l = n1 + (n2 + n3)
  BY <1>3
<1> HIDE DEF n1, n2, n3
<1>8. Null(n2 + n3) /\ n2 + n3 \in Int
  BY <1>5, <1>6, NullPlus
<1>9. Null(l)
  BY <1>4, <1>7, <1>8, NullPlus
<1>. QED  BY <1>9 DEF l

LEMMA CayleyHamilton ==
    ASSUME NEW Q \in Fields \X Fields, NEW q \in Fields, NEW y \in Fields,
           Orthogonal(q, y), Orthogonal(q, Apply(Q, y))
    PROVE  Orthogonal(q, Apply(Q, Apply(Q, y)))
<1> DEFINE u == Apply(Q, y)
           w == Apply(Q, u)
<1>1. /\ Q[1] \in Fields /\ Q[2] \in Fields /\ u \in Fields
      /\ u[1] = scalar_product(Q[1], y) /\ u[2] = scalar_product(Q[2], y)
  BY ApplyIs
<1>2. w \in Fields /\ w[1] = scalar_product(Q[1], u) /\ w[2] = scalar_product(Q[2], u)
  BY <1>1, ApplyIs
<1>3. Null(q[1] * y[1] + q[2] * y[2]) /\ Null(q[1] * u[1] + q[2] * u[2])
  BY <1>1, DotIs DEF Dot, Orthogonal
<1>4. TwiceApplied(Q[1][1], Q[1][2], Q[2][1], Q[2][2], y[1], y[2], u[1], u[2], w[1], w[2],
                   q[1], q[2])
  BY <1>1, <1>2, <1>3, DotIs DEF TwiceApplied, Dot
<1> HIDE DEF u, w
<1>5. /\ Q[1][1] \in Int /\ Q[1][2] \in Int /\ Q[2][1] \in Int /\ Q[2][2] \in Int
      /\ y[1] \in Int /\ y[2] \in Int /\ u[1] \in Int /\ u[2] \in Int
      /\ w[1] \in Int /\ w[2] \in Int /\ q[1] \in Int /\ q[2] \in Int
  BY <1>1, <1>2, FieldIs
<1>6. Null(q[1] * w[1] + q[2] * w[2])
  BY <1>4, <1>5, CayleyHamiltonNumbers
<1>. QED  BY <1>2, <1>6, DotIs DEF Dot, Orthogonal, u, w

LEMMA SecondStabilizedStep ==
    ASSUME Typed, NEW t \in SolverStates, BiConjugate(t)
    PROVE  StabilizedStep(t).rn \in {Zero, NaN}
<1> DEFINE u == StabilizedStep(t)
<1>1. PICK sn : StepOf(t, u, sn)
  BY StepIs
<1> HIDE DEF u
<1>2. ASSUME u.rn # NaN PROVE u.rn = Zero
  <2> DEFINE q == t.rhat
             rn == t.rn
             p == t.p
             v == Apply(A, p)
             tn == Apply(A, sn)
             a == Minus(u.alpha)
             o == Minus(u.omega)
  <2>1. /\ p \in Fields /\ rn \in Fields /\ q \in Fields
        /\ a \in Numbers /\ o \in Numbers /\ sn \in Fields /\ u.rn \in Fields
        /\ tn \in Fields /\ scalar_product(tn, tn) \in Nonzero /\ u.omega \in Numbers
        /\ Congruent(scalar_product(tn, tn) * u.omega, scalar_product(tn, sn))
    BY <1>1, <1>2, StepExists
  <2>2. /\ q # Zero /\ t.rho = scalar_product(q, rn)
        /\ \E z \in Fields, d \in Fields, w \in Nonzero :
             /\ Orthogonal(q, z) /\ Orthogonal(q, Apply(A, d))
             /\ rn = Axpy(w, Apply(A, z), z) /\ p = Axpy(w, Apply(A, d), d)
    BY <2>1, NaNIsNone DEF BiConjugate
  <2>3. PICK z \in Fields, d \in Fields, w \in Nonzero :
             /\ Orthogonal(q, z) /\ Orthogonal(q, Apply(A, d))
             /\ rn = Axpy(w, Apply(A, z), z) /\ p = Axpy(w, Apply(A, d), d)
    BY <2>2
  <2>4. Orthogonal(q, sn)
    BY <1>1, <1>2, <2>2, HalfStep
  <2>5. sn = Axpy(a, v, rn) /\ u.rn = Axpy(o, tn, sn)
    BY <1>1 DEF StepOf
  <2>6. A \in Fields \X Fields /\ w \in Numbers /\ w \in Int /\ ~Null(w) /\ a \in Int /\ o \in Int
    BY <2>1, Kernels, NonzeroIs, NullNumber, ModId
  <2> DEFINE Ad == Apply(A, d)
             AAd == Apply(A, Ad)
             Az == Apply(A, z)
             y == Axpy(a, Ad, z)
             Ay == Apply(A, y)
             c == Product(a, w)
  <2>7. Ad \in Fields /\ AAd \in Fields /\ Az \in Fields /\ y \in Fields /\ Ay \in Fields
    BY <2>1, <2>6, ApplyIs, AxpyIs
  <2>8. c \in Numbers /\ Congruent(c, a * w)
    BY <2>1, <2>6, ScalarIs
  <2>9. v = Axpy(w, AAd, Ad)
    <3>1. w \in NumbersOrNaN /\ Ad \in FieldsOrNaN /\ d \in FieldsOrNaN
      BY <2>6, <2>7 DEF NumbersOrNaN, FieldsOrNaN
    <3>. QED  BY <2>3, <2>6, <3>1, ApplyLinear
  <2>10. Ay = Axpy(a, AAd, Az)
    <3>1. a \in NumbersOrNaN /\ Ad \in FieldsOrNaN /\ z \in FieldsOrNaN
      BY <2>1, <2>7 DEF NumbersOrNaN, FieldsOrNaN
    <3>. QED  BY <2>6, <3>1, ApplyLinear
  \* what is left after the direction, and then the steepest descent
  <2>11. sn = Axpy(w, Ay, y)
    <3> DEFINE r1 == Axpy(w, Az, z)
    <3>1. r1 \in Fields /\ rn = r1
      BY <2>1, <2>3
    <3>2. sn = Axpy(a, Axpy(w, AAd, Ad), r1)
      BY <2>5, <2>9, <3>1
    <3>3. Axpy(w, Ay, y) = Axpy(w, Axpy(a, AAd, Az), Axpy(a, Ad, z))
      BY <2>10
    <3>6. /\ a \in Numbers /\ w \in Numbers /\ c \in Numbers /\ Congruent(c, a * w)
          /\ Ad \in Fields /\ AAd \in Fields /\ Az \in Fields
      BY <2>1, <2>6, <2>7, <2>8
    <3> HIDE DEF r1, rn, a, c, Ad, AAd, Az, y, Ay
    <3>4. Axpy(a, Axpy(w, AAd, Ad), r1) = Axpy(a, Ad, Axpy(c, AAd, r1))
      BY <3>1, <3>6, AxpySplits
    <3>5. Axpy(a, Ad, Axpy(c, AAd, Axpy(w, Az, z))) = Axpy(w, Axpy(a, AAd, Az), Axpy(a, Ad, z))
      BY <3>6, AxpyRegroups
    <3>. QED  BY <3>2, <3>3, <3>4, <3>5 DEF r1
  <2>12. Orthogonal(q, y)
    <3>1. scalar_product(q, Ad) = 0 /\ scalar_product(q, z) = 0
      BY <2>3 DEF Orthogonal
    <3>2. Congruent(scalar_product(q, y), a * 0 + 0) /\ scalar_product(q, y) \in Numbers
      BY <2>1, <2>7, <3>1, RowOf
    <3>3. a * 0 + 0 = 0
      BY <2>6
    <3>. QED  BY <3>2, <3>3, NullNumber DEF Orthogonal, Null
  <2> HIDE DEF y, Ay, Ad, AAd, Az, c
  <2>13. Orthogonal(q, Ay)
    <3> DEFINE f == scalar_product(q, Ay)
    <3>1. scalar_product(q, sn) = 0 /\ scalar_product(q, y) = 0
      BY <2>4, <2>12 DEF Orthogonal
    <3>5. q \in Fields /\ w \in Numbers /\ Ay \in Fields /\ y \in Fields
      BY <2>1, <2>6, <2>7
    <3>6. /\ Congruent(scalar_product(q, Axpy(w, Ay, y)), w * f + scalar_product(q, y))
          /\ f \in Int /\ f \in Numbers
      BY <3>5, RowOf, DotIs
    <3>2. Congruent(0, w * f + 0) /\ f \in Int /\ f \in Numbers
      BY <2>11, <3>1, <3>6
    <3>3. w * f + 0 = w * f /\ w * f \in Int /\ 0 \in Int
      BY <2>6, <3>2
    <3>4. Null(w * f)
      BY <3>2, <3>3, CongruentOps DEF Null
    <3>7. Null(f)
      BY <2>6, <3>2, <3>4, NullFactor
    <3>. QED  BY <3>2, <3>7, NullNumber DEF Orthogonal
  <2>14. Orthogonal(q, Apply(A, Ay))
    BY <2>1, <2>6, <2>7, <2>12, <2>13, CayleyHamilton DEF Ay
  <2>15. tn = Axpy(w, Apply(A, Ay), Ay)
    <3>1. w \in NumbersOrNaN /\ Ay \in FieldsOrNaN /\ y \in FieldsOrNaN
      BY <2>6, <2>7 DEF NumbersOrNaN, FieldsOrNaN
    <3>. QED  BY <2>6, <2>11, <3>1, ApplyLinear DEF Ay
  <2>16. Orthogonal(q, tn)
    <3>1. scalar_product(q, Apply(A, Ay)) = 0 /\ scalar_product(q, Ay) = 0
      BY <2>13, <2>14 DEF Orthogonal
    <3>2. Apply(A, Ay) \in Fields
      BY <2>6, <2>7, ApplyIs
    <3>3. Congruent(scalar_product(q, tn), w * 0 + 0) /\ scalar_product(q, tn) \in Numbers
      BY <2>1, <2>6, <2>7, <2>15, <3>1, <3>2, RowOf
    <3>4. w * 0 + 0 = 0
      BY <2>6
    <3>. QED  BY <3>3, <3>4, NullNumber DEF Orthogonal, Null
  <2>17. Orthogonal(q, u.rn)
    <3>1. scalar_product(q, tn) = 0 /\ scalar_product(q, sn) = 0
      BY <2>4, <2>16 DEF Orthogonal
    <3>2. Congruent(scalar_product(q, u.rn), o * 0 + 0) /\ scalar_product(q, u.rn) \in Numbers
      BY <2>1, <2>5, <3>1, RowOf
    <3>3. o * 0 + 0 = 0
      BY <2>6
    <3>. QED  BY <3>2, <3>3, NullNumber DEF Orthogonal, Null
  <2>18. Orthogonal(tn, u.rn)
    <3> DEFINE f == scalar_product(tn, tn)
               g == scalar_product(tn, sn)
               om == u.omega
               h == scalar_product(tn, u.rn)
    <3>1. Congruent(h, o * f + g) /\ h \in Int /\ h \in Numbers /\ f \in Int /\ g \in Int
      BY <2>1, <2>5, RowOf
    <3>2. Null(o + om) /\ om \in Int /\ Congruent(f * om, g)
      BY <2>1, MinusIs
    <3> HIDE DEF f, g, om, h, o
    <3> DEFINE k1 == o + om
               k2 == f * om - g
    <3>3. /\ f * om \in Int /\ o * f + g \in Int /\ k1 \in Int /\ k2 \in Int
          /\ o * f + g = f * k1 + (-1) * k2
      BY <2>6, <3>1, <3>2
    <3>4. Null(k1) /\ Null(k2)
      BY <3>1, <3>2, <3>3, DifferenceNull
    <3> HIDE DEF k1, k2
    <3>5. Null(f * k1 + (-1) * k2)
      BY <3>1, <3>3, <3>4, NullSum
    <3>6. Null(h)
      BY <3>1, <3>3, <3>5, NullOf
    <3>. QED  BY <3>1, <3>6, NullNumber DEF Orthogonal, h
  <2>19. tn # Zero
    <3>1. tn = Zero => scalar_product(tn, tn) = 0
      BY <2>1, OfZero, NaNIsNone DEF Typed
    <3>. QED  BY <2>1, <3>1, NonzeroIs
  <2>. QED  BY <2>1, <2>2, <2>16, <2>17, <2>18, <2>19, TwoOrthogonal
<1>. QED  BY <1>2 DEF u

LEMMA CgGoes ==
    ASSUME Typed, ResidualFollowsSolution, pc = "cg"
    PROVE  /\ CgStep(cg_begin, cg_begin.omega, cg_direction(cg_residual))
           /\ cg_direction(cg_residual).rn = cg_residual.rn
           /\ cg_direction(cg_residual).rho = cg_residual.rho
<1> DEFINE t == cg_begin
           v == Apply(A, t.p)
           alpha == Quotient(t.omega, scalar_product(t.p, v))
           x == saxpy(Minus(alpha), t.p, t.x)
           rn == saxpy(alpha, v, t.rn)
           rho == scalar_product(rn, rn)
           beta == Quotient(rho, t.omega)
           p == saxpy(Minus(beta), t.p, rn)
           r == cg_residual
           u == cg_direction(r)
<1>1. t \in SolverStates /\ cg_x \in SolverStates /\ r \in SolverStates
  BY CgBegins, CgIterates
<1>2. cg_x = [t EXCEPT !.v = v, !.alpha = alpha, !.x = x]
  BY DEF cg_x
<1> HIDE DEF t, x
<1>3. /\ t.p \in FieldsOrNaN /\ t.rn \in FieldsOrNaN /\ t.omega \in NumbersOrNaN
  BY <1>1 DEF SolverStates
<1>4. v \in FieldsOrNaN /\ A = QplusQminus
  BY <1>3, Kernels DEF A
<1>5. alpha \in NumbersOrNaN
  BY <1>3, <1>4, Kernels, ScalarTypes
<1>6. rn \in FieldsOrNaN
  BY <1>3, <1>4, <1>5, Kernels
<1>7. rho \in NumbersOrNaN
  BY <1>6, Kernels
<1>8. beta \in NumbersOrNaN
  BY <1>3, <1>7, ScalarTypes
<1>9. p = Axpy(beta, t.p, rn)
  BY <1>8, MinusTwice DEF saxpy
<1>10. /\ cg_x.alpha = alpha /\ cg_x.v = v /\ cg_x.rn = t.rn /\ cg_x.omega = t.omega
       /\ cg_x.p = t.p
  BY <1>1, <1>2 DEF SolverStates
<1>11. r = [cg_x EXCEPT !.rn = rn, !.rho = rho]
  BY <1>10 DEF cg_residual
<1> HIDE DEF rn, rho, r
<1>12. r.rn = rn /\ r.rho = rho /\ r.omega = t.omega /\ r.p = t.p
  BY <1>1, <1>10, <1>11 DEF SolverStates
<1>13. u = [r EXCEPT !.beta = beta, !.p = p]
  BY <1>12 DEF cg_direction
<1> HIDE DEF u, beta, p
<1>14. u.rn = rn /\ u.rho = rho /\ u.p = p
  BY <1>1, <1>12, <1>13 DEF SolverStates
<1>15. rn = Axpy(Minus(alpha), v, t.rn)
  BY DEF rn, saxpy
<1>16. CgStep(t, t.omega, u)
  BY <1>4, <1>9, <1>14, <1>15 DEF CgStep, rho, beta
<1>. QED  BY <1>12, <1>14, <1>16 DEF t, r, u

LEMMA CgBeginsWith ==
    ASSUME Typed, ResidualFollowsSolution, pc = "cg"
    PROVE  LET t == cg_begin
           IN /\ Refreshes => /\ t.p = t.rn /\ t.omega = scalar_product(t.rn, t.rn)
                              /\ t.rn = saxpy(1, Apply(A, s.x), b) /\ t.rn \in FieldsOrNaN
              /\ ~Refreshes => t.rn = s.rn /\ t.p = s.p /\ t.rho = s.rho /\ t.omega = s.rho
<1>1. s \in SolverStates
  BY DEF Typed
<1>2. CASE Refreshes
  <2> DEFINE rn == saxpy(1, Apply(A, s.x), b)
             omega == scalar_product(rn, rn)
  <2>1. cg_begin = [s EXCEPT !.rn = rn, !.p = rn, !.omega = omega]
    BY <1>2 DEF cg_begin, cg_refresh
  <2> HIDE DEF omega
  <2>2. cg_begin.rn = rn /\ cg_begin.p = rn /\ cg_begin.omega = omega
    BY <1>1, <2>1 DEF SolverStates
  <2>3. cg_begin.rn \in FieldsOrNaN
    BY CgBegins DEF SolverStates
  <2>. QED  BY <1>2, <2>2, <2>3 DEF omega
<1>3. CASE ~Refreshes
  <2>1. cg_begin = [s EXCEPT !.omega = s.rho]
    BY <1>3 DEF cg_begin
  <2>. QED  BY <1>1, <1>3, <2>1 DEF SolverStates
<1>. QED  BY <1>2, <1>3

\* The count of the iterations and of those since the refresh.
LEMMA Counting ==
    ASSUME Typed
    PROVE  /\ iter = 0 => Refreshes
           /\ iter + 1 > 0 /\ iter + 1 # 0
           /\ \A t : GoesOn(t) => (FirstStep' <=> Refreshes) /\ iter' = iter + 1 /\ iter' > 0
<1>1. call \in CallParameters /\ call.iterRefresh > 0
  BY KrylovAssumption DEF Typed
<1>2. iter \in Nat /\ call.iterRefresh \in Nat
  BY <1>1 DEF Typed, CallParameters
<1>3. ASSUME iter = 0 PROVE Refreshes
  <2> DEFINE n == call.iterRefresh
  <2>1. n \in Nat /\ n > 0
    BY <1>1, <1>2
  <2> HIDE DEF n
  <2>2. 0 % n = 0
    <3>1. 0 \in 0 .. n - 1 /\ 0 \in Int /\ 0 = n * 0 + 0
      BY <2>1
    <3>. QED  BY <2>1, <3>1, RemainderIs
  <2>. QED  BY <1>3, <2>2 DEF Refreshes, n
<1>4. ASSUME NEW t, GoesOn(t) PROVE (FirstStep' <=> Refreshes) /\ iter' = iter + 1 /\ iter' > 0
  <2>1. iter' = iter + 1 /\ call' = call
    BY <1>4 DEF GoesOn, given
  <2>2. iter' - 1 = iter /\ iter' > 0
    BY <1>2, <2>1
  <2>. QED  BY <2>1, <2>2 DEF FirstStep, Refreshes
<1>. QED  BY <1>2, <1>3, <1>4

LEMMA SameMatrices ==
    ASSUME UNCHANGED <<call, Qplus, source, pc>>, NEW t, s' = t
    PROVE  /\ Conjugate(s)' <=> Conjugate(t)
           /\ Exhausted(s)' <=> Exhausted(t)
           /\ Stabilized(s)' <=> Stabilized(t)
           /\ BiConjugate(s)' <=> BiConjugate(t)
<1>1. A' = A /\ QplusQminus' = QplusQminus
  BY DEF A, Aee, QplusQminus
<1>. QED  BY <1>1 DEF Conjugate, Exhausted, Stabilized, BiConjugate

LEMMA CgStopsMoving ==
    ASSUME Typed, NEW t \in SolverStates, NEW u, Exhausted(t), CgStep(t, t.rho, u)
    PROVE  Exhausted(u)
<1> DEFINE v == Apply(QplusQminus, t.p)
           den == scalar_product(t.p, v)
           a == Minus(Quotient(t.rho, den))
<1>1. u.rn = Axpy(a, v, t.rn) /\ u.rho = scalar_product(u.rn, u.rn)
  BY DEF CgStep
<1>2. QplusQminus \in Fields \X Fields /\ t.p \in FieldsOrNaN
  BY MatrixTypes DEF Typed, SolverStates
<1>3. v \in FieldsOrNaN
  <2>1. 1 \in NumbersOrNaN /\ Zero \in FieldsOrNaN
    BY NaNIsNone DEF NumbersOrNaN, FieldsOrNaN
  <2>. QED  BY <1>2, <2>1, FieldTypes
<1>4. den \in NumbersOrNaN
  BY <1>2, <1>3, Kernels
<1>5. t.rn = NaN \/ t.rho = 0
  BY DEF Exhausted
<1>6. t.rho = 0 => a \in {0, NaN}
  <2>1. den \in Nonzero \/ den = 0 \/ den = NaN
    BY <1>4 DEF NumbersOrNaN, Nonzero
  <2>2. Minus(0) = 0
    BY NaNIsNone, ModId DEF Minus
  <2>. QED  BY <2>1, <2>2, MoreOfZero, Strict
<1>7. a = NaN \/ t.p \in Fields
  <2>1. t.p = NaN => den = NaN
    BY Strict
  <2>2. den = NaN => a = NaN
    BY Strict
  <2>. QED  BY <1>2, <2>1, <2>2 DEF FieldsOrNaN
<1> HIDE DEF a, den
<1>8. u.rn = NaN \/ (u.rn = Zero /\ scalar_product(u.rn, u.rn) = 0)
  BY <1>1, <1>2, <1>5, <1>6, <1>7, ExhaustedStays
<1>. QED  BY <1>1, <1>8 DEF Exhausted

LEMMA CgTwoSteps ==
    ASSUME IInv, TwoSteps, pc = "cg", GoesOn(cg_direction(cg_residual))
    PROVE  TwoSteps'
<1> DEFINE t == cg_begin
           u == cg_direction(cg_residual)
<1>1. Typed /\ ResidualFollowsSolution /\ Qplus \in Matrices /\ source \in Sources
  BY DEF IInv, Typed
<1>2. CgStep(t, t.omega, u) /\ t \in SolverStates
  BY <1>1, CgGoes, CgBegins
<1>3. /\ Refreshes => /\ t.p = t.rn /\ t.omega = scalar_product(t.rn, t.rn)
                      /\ t.rn \in FieldsOrNaN
      /\ ~Refreshes => t.rn = s.rn /\ t.p = s.p /\ t.rho = s.rho /\ t.omega = s.rho
  BY <1>1, CgBeginsWith
<1>4. UNCHANGED <<call, Qplus, source, pc>> /\ s' = u
  BY DEF GoesOn, given
<1>5. (FirstStep' <=> Refreshes) /\ iter' > 0 /\ (iter = 0 => Refreshes) /\ iter \in Nat
  BY <1>1, Counting DEF Typed
<1> HIDE DEF t, u
<1>6. CASE Refreshes
  <2>1. Conjugate(u)
    BY <1>1, <1>2, <1>3, <1>6, FirstStepOfCg
  <2>. QED  BY <1>4, <1>5, <1>6, <2>1, SameMatrices DEF TwoSteps
<1>7. CASE ~Refreshes
  <2>1. CASE Conjugate(s)
    <3>1. Conjugate(t) /\ CgStep(t, t.rho, u)
      BY <1>2, <1>3, <1>7, <2>1 DEF Conjugate
    <3>. QED  BY <1>1, <3>1, SecondStepOfCg, <1>4, <1>5, <1>7, SameMatrices DEF TwoSteps
  <2>2. CASE Exhausted(s)
    <3>1. Exhausted(t) /\ CgStep(t, t.rho, u)
      BY <1>2, <1>3, <1>7, <2>2 DEF Exhausted
    <3>2. Exhausted(u)
      BY <1>1, <1>2, <3>1, CgStopsMoving
    <3>. QED  BY <1>4, <1>5, <1>7, <3>2, SameMatrices DEF TwoSteps
  <2>3. Conjugate(s) \/ Exhausted(s)
    <3>1. iter > 0
      BY <1>5, <1>7
    <3>. QED  BY <3>1 DEF TwoSteps
  <2>. QED  BY <2>1, <2>2, <2>3
<1>. QED  BY <1>6, <1>7

LEMMA ThrowsTwoSteps ==
    ASSUME pc \in Running, NEW exception \in {"stuck", "not_solved"}, NEW x,
           Throws(exception, x) \/ Returns(x)
    PROVE  TwoSteps'
<1>1. pc' \in {"stuck", "not_solved", "solved"} \/ (pc' = "cg" /\ iter' = 0)
  BY DEF Throws, Returns
<1>. QED  BY <1>1 DEF TwoSteps

\* A residual that has vanished, or is no number, stays so.
LEMMA StabilizedStaysSolved ==
    ASSUME Typed, NEW t \in SolverStates, t.rn \in {Zero, NaN},
           t.rho = scalar_product(t.rhat, t.rn), t.rho # 0
    PROVE  StabilizedStep(t).rn = NaN
<1> DEFINE u == StabilizedStep(t)
<1>1. PICK sn : StepOf(t, u, sn)
  BY StepIs
<1> HIDE DEF u
<1>2. ASSUME u.rn # NaN PROVE FALSE
  <2>1. t.rn \in Fields /\ t.rhat \in Fields
    BY <1>1, <1>2, StepExists
  <2>2. t.rn = Zero
    BY <2>1, NaNIsNone
  <2>3. scalar_product(t.rhat, Zero) = 0
    BY <2>1, MoreOfZero
  <2>. QED  BY <2>2, <2>3
<1>. QED  BY <1>2 DEF u

LEMMA SaveTwoSteps ==
    ASSUME IInv, TwoSteps, bicgstab_save
    PROVE  TwoSteps'
<1>1. /\ Typed /\ ResidualFollowsSolution /\ pc = "save" /\ pc \in Running
      /\ s \in SolverStates
  BY DEF IInv, bicgstab_save, Running, Typed
<1> DEFINE t == IF Refreshes THEN save_refresh ELSE s
           rho_next == scalar_product(t.rhat, t.rn)
           d == StabilizedDirection(t, rho_next)
           u == StabilizedStep(d)
<1>2. \/ Throws("stuck", t.x) \/ Throws("stuck", u.x) \/ Returns(u.x)
      \/ rho_next # 0 /\ GoesOn(u)
  BY DEF bicgstab_save, Tiny
<1>3. CASE Throws("stuck", t.x) \/ Throws("stuck", u.x) \/ Returns(u.x)
  BY <1>1, <1>3, ThrowsTwoSteps
<1>4. CASE rho_next # 0 /\ GoesOn(u)
  <2>1. t \in SolverStates /\ Belongs(t)
    <3>1. CASE Refreshes
      <4> DEFINE rn == saxpy(1, Apply(A, s.x), b)
      <4>1. t = [s EXCEPT !.v = Zero, !.p = Zero, !.rn = rn, !.rhat = rn,
                          !.alpha = 1, !.omega = 1, !.rho = 1]
        BY <3>1 DEF save_refresh
      <4>2. rn \in FieldsOrNaN /\ Zero \in FieldsOrNaN /\ 1 \in NumbersOrNaN
        BY <1>1, Kernels DEF SolverStates
      <4> HIDE DEF rn, t
      <4>3. t \in SolverStates /\ t.rn = rn /\ t.x = s.x
        BY <1>1, <4>1, <4>2 DEF SolverStates
      <4>. QED  BY <4>3 DEF Belongs, rn, t
    <3>2. CASE ~Refreshes
      BY <1>1, <3>2, RefreshComesFirst
    <3>. QED  BY <3>1, <3>2
  <2>2. ~Refreshes => t = s
    OBVIOUS
  <2> HIDE DEF t
  <2>3. t.rhat \in FieldsOrNaN /\ t.rn \in FieldsOrNaN
    BY <2>1 DEF SolverStates
  <2>4. rho_next \in NumbersOrNaN
    BY <1>1, <2>3, Kernels
  <2>5. d \in SolverStates
    BY <1>1, <2>1, <2>4, StabilizedTurns
  <2>6. d.rn = t.rn /\ d.rhat = t.rhat /\ d.rho = rho_next
    BY <2>1, NextDirectionIs
  <2>7. UNCHANGED <<call, Qplus, source, pc>> /\ s' = u
    BY <1>4 DEF GoesOn, given
  <2>8. (FirstStep' <=> Refreshes) /\ iter' > 0 /\ (iter = 0 => Refreshes) /\ iter \in Nat
    BY <1>1, <1>4, Counting DEF Typed
  <2>9. CASE Refreshes
    <3>1. Stabilized(u)
      BY <1>1, <1>4, <2>5, <2>6, FirstStabilizedStep
    <3>2. pc' = "save" /\ Stabilized(s)'
      BY <1>1, <2>7, <3>1, SameMatrices
    <3>. QED  BY <2>8, <2>9, <3>2 DEF TwoSteps
  <2>10. CASE ~Refreshes
    <3>1. u.rn \in {Zero, NaN}
      <4>1. Stabilized(s) \/ s.rn \in {Zero, NaN}
        BY <1>1, <2>8, <2>10 DEF TwoSteps
      <4>2. CASE Stabilized(s)
        <5>1. BiConjugate(d)
          BY <1>1, <1>4, <2>2, <2>10, <4>2, StabilizedConjugates
        <5>. QED  BY <1>1, <2>5, <5>1, SecondStabilizedStep
      <4>3. CASE s.rn \in {Zero, NaN}
        <5>1. d.rn \in {Zero, NaN} /\ d.rho = scalar_product(d.rhat, d.rn) /\ d.rho # 0
          BY <1>4, <2>2, <2>6, <2>10, <4>3
        <5>. QED  BY <1>1, <2>5, <5>1, StabilizedStaysSolved
      <4>. QED  BY <4>1, <4>2, <4>3
    <3> HIDE DEF u
    <3>2. pc' = "save" /\ s'.rn \in {Zero, NaN}
      BY <1>1, <2>7, <3>1
    <3>. QED  BY <2>8, <2>10, <3>2 DEF TwoSteps
  <2>. QED  BY <2>9, <2>10
<1>. QED  BY <1>2, <1>3, <1>4

LEMMA FastTwoSteps ==
    ASSUME IInv, TwoSteps, bicgstab_fast
    PROVE  TwoSteps'
<1>1. /\ Typed /\ ResidualFollowsSolution /\ pc = "fast" /\ pc \in Running
      /\ s \in SolverStates
  BY DEF IInv, bicgstab_fast, Running, Typed
<1> DEFINE t == IF Refreshes THEN fast_refresh ELSE s
           resid == scalar_product(t.rn, t.rn)
           u == StabilizedStep(t)
           rho_next == scalar_product(u.rhat, u.rn)
           d == StabilizedDirection(u, rho_next)
<1>2. \/ Throws("stuck", t.x) \/ Throws("stuck", u.x) \/ Returns(t.x)
      \/ resid \notin Small \cup {NaN} /\ rho_next # 0 /\ GoesOn(d)
  BY DEF bicgstab_fast, Tiny
<1>3. CASE Throws("stuck", t.x) \/ Throws("stuck", u.x) \/ Returns(t.x)
  BY <1>1, <1>3, ThrowsTwoSteps
<1>4. CASE resid \notin Small \cup {NaN} /\ rho_next # 0 /\ GoesOn(d)
  <2>1. /\ t \in SolverStates /\ Belongs(t)
        /\ Refreshes => t.rn = t.rhat /\ t.rho = scalar_product(t.rn, t.rn)
    <3>1. CASE Refreshes
      <4> DEFINE p == saxpy(1, Apply(A, s.x), b)
                 rho == scalar_product(p, p)
      <4>1. t = [s EXCEPT !.p = p, !.rhat = p, !.rn = p, !.rho = rho]
        BY <3>1 DEF fast_refresh
      <4>2. p \in FieldsOrNaN /\ rho \in NumbersOrNaN
        BY <1>1, Kernels DEF SolverStates
      <4> HIDE DEF p, rho, t
      <4>3. t \in SolverStates /\ t.rn = p /\ t.x = s.x /\ t.rhat = p /\ t.rho = rho
        BY <1>1, <4>1, <4>2 DEF SolverStates
      <4>. QED  BY <4>3 DEF Belongs, p, rho, t
    <3>2. CASE ~Refreshes
      BY <1>1, <3>2, RefreshComesFirst
    <3>. QED  BY <3>1, <3>2
  <2>2. ~Refreshes => t = s
    OBVIOUS
  <2> HIDE DEF t
  <2>3. u \in SolverStates /\ Belongs(u)
    BY <1>1, <2>1, StabilizedIterates
  <2>4. u.rhat \in FieldsOrNaN /\ u.rn \in FieldsOrNaN
    BY <2>3 DEF SolverStates
  <2>5. d.rn = u.rn
    BY <2>3, NextDirectionIs
  <2>6. resid # 0 /\ resid # NaN
    BY <1>4, NaNIsNone
  <2>7. UNCHANGED <<call, Qplus, source, pc>> /\ s' = d
    BY <1>4 DEF GoesOn, given
  <2>8. (FirstStep' <=> Refreshes) /\ iter' > 0 /\ (iter = 0 => Refreshes) /\ iter \in Nat
    BY <1>1, <1>4, Counting DEF Typed
  <2>9. CASE Refreshes
    <3>1. t.rho = scalar_product(t.rhat, t.rn) /\ t.rho # 0
      BY <2>1, <2>6, <2>9
    <3>2. Stabilized(u)
      BY <1>1, <2>1, <3>1, FirstStabilizedStep
    <3>3. BiConjugate(d)
      BY <1>1, <1>4, <2>3, <3>2, StabilizedConjugates
    <3>4. pc' = "fast" /\ BiConjugate(s)'
      BY <1>1, <2>7, <3>3, SameMatrices
    <3>. QED  BY <2>8, <2>9, <3>4 DEF TwoSteps
  <2>10. CASE ~Refreshes
    <3>1. BiConjugate(s) \/ s.rn \in {Zero, NaN}
      BY <1>1, <2>8, <2>10 DEF TwoSteps
    <3>2. s.rn \notin {Zero, NaN}
      <4>1. scalar_product(Zero, Zero) = 0 /\ scalar_product(NaN, NaN) = NaN
        BY MoreOfZero, NaNIsNone, Strict
      <4>. QED  BY <2>2, <2>6, <2>10, <4>1
    <3>3. u.rn \in {Zero, NaN}
      BY <1>1, <2>1, <2>2, <2>10, <3>1, <3>2, SecondStabilizedStep
    <3> HIDE DEF u, d
    <3>4. pc' = "fast" /\ s'.rn \in {Zero, NaN}
      BY <1>1, <2>5, <2>7, <3>3
    <3>. QED  BY <2>8, <2>10, <3>4 DEF TwoSteps
  <2>. QED  BY <2>9, <2>10
<1>. QED  BY <1>2, <1>3, <1>4

LEMMA CgmStepIs ==
    ASSUME Typed, pc = "cg_m"
    PROVE  CgStep(s, s.rho, cg_m_scalars)
<1> DEFINE v == Apply(A, s.p)
           beta == Minus(Quotient(s.rho, scalar_product(s.p, v)))
           r == Axpy(beta, v, s.rn)
           rho == scalar_product(r, r)
           alpha == Quotient(rho, s.rho)
           p == Axpy(alpha, s.p, r)
           u == cg_m_scalars
<1>1. u = [s EXCEPT !.v = v, !.beta = beta, !.rn = r, !.rho = rho, !.alpha = alpha, !.p = p]
  BY DEF cg_m_scalars
<1>2. s \in SolverStates /\ A = QplusQminus
  BY DEF Typed, A
<1> HIDE DEF r, rho, p, u
<1>3. u.rn = r /\ u.rho = rho /\ u.p = p
  BY <1>1, <1>2 DEF SolverStates
<1>. QED  BY <1>2, <1>3 DEF CgStep, r, rho, p, u

LEMMA CgmTwoSteps ==
    ASSUME IInv, TwoSteps, cg_m_iteration
    PROVE  TwoSteps'
<1> DEFINE t == cg_m_scalars
<1>1. /\ Typed /\ pc = "cg_m" /\ s \in SolverStates /\ iter \in Nat
      /\ Qplus \in Matrices /\ source \in Sources
  BY DEF IInv, cg_m_iteration, Typed
<1>2. /\ s' = t
      /\ \/ pc' \in {"stuck", "solved"}
         \/ pc' = "cg_m" /\ iter' = iter + 1
      /\ UNCHANGED <<call, Qplus, source>>
  BY <1>1 DEF cg_m_iteration, given
<1>3. CgStep(s, s.rho, t)
  BY <1>1, CgmStepIs
<1> HIDE DEF t
<1>4. CASE pc' \in {"stuck", "solved"}
  BY <1>4 DEF TwoSteps
<1>5. CASE pc' = "cg_m" /\ iter' = iter + 1
  <2>1. UNCHANGED <<call, Qplus, source, pc>>
    BY <1>1, <1>2, <1>5
  <2>2. CASE iter = 0
    <3>1. Starts(s)
      BY <1>1, <2>2 DEF TwoSteps
    <3>2. s.rn \in FieldsOrNaN /\ s.p = s.rn /\ s.rho = scalar_product(s.rn, s.rn)
      BY <3>1 DEF Starts, FieldsOrNaN
    <3>3. Conjugate(t)
      BY <1>1, <1>3, <3>2, FirstStepOfCg
    <3>4. Conjugate(s)' /\ iter' = 1
      BY <1>2, <1>5, <2>1, <2>2, <3>3, SameMatrices
    <3>. QED  BY <1>5, <3>4 DEF TwoSteps
  <2>3. CASE iter > 0
    <3>1. Exhausted(t)
      <4>1. CASE iter = 1
        <5>1. Conjugate(s)
          BY <1>1, <4>1 DEF TwoSteps
        <5>. QED  BY <1>1, <1>3, <5>1, SecondStepOfCg
      <4>2. CASE iter > 1
        <5>1. Exhausted(s)
          BY <1>1, <4>2 DEF TwoSteps
        <5>. QED  BY <1>1, <1>3, <5>1, CgStopsMoving
      <4>. QED  BY <1>1, <2>3, <4>1, <4>2
    <3>2. Exhausted(s)' /\ iter' > 1 /\ iter' # 0 /\ iter' # 1
      BY <1>1, <1>2, <1>5, <2>1, <2>3, <3>1, SameMatrices
    <3>. QED  BY <1>5, <3>2 DEF TwoSteps
  <2>. QED  BY <1>1, <2>2, <2>3
<1>. QED  BY <1>2, <1>4, <1>5

LEMMA TwoStepsBegin ==
    ASSUME Init
    PROVE  TwoSteps
<1>1. iter = 0 /\ source \in Sources /\ Qplus \in Matrices
  BY DEF Init
<1>2. CASE call.caller = "cg_m"
  <2>1. setInitialConditions /\ source \in Fields
    BY <1>1, <1>2, MatrixTypes DEF Init
  <2> DEFINE rho == scalar_product(source, source)
  <2>2. s = [Fresh(Zero) EXCEPT !.rn = source, !.p = source, !.beta = 1, !.alpha = 0, !.rho = rho]
    BY <2>1 DEF setInitialConditions
  <2> HIDE DEF rho
  <2>3. Fresh(Zero) \in SolverStates
    BY FreshType, NaNIsNone DEF FieldsOrNaN
  <2>4. s.rn = source /\ s.p = source /\ s.rho = rho
    BY <2>2, <2>3 DEF SolverStates
  <2>5. Starts(s)
    BY <2>1, <2>4 DEF Starts, rho
  <2>. QED  BY <1>1, <2>5 DEF TwoSteps
<1>3. CASE call.caller # "cg_m"
  <2>1. pc # "cg_m"
    BY <1>3 DEF Init, bicgstab
  <2>. QED  BY <1>1, <2>1 DEF TwoSteps
<1>. QED  BY <1>2, <1>3

LEMMA TwoStepsStutter ==
    ASSUME TwoSteps, UNCHANGED vars
    PROVE  TwoSteps'
<1>1. UNCHANGED <<call, Qplus, source, s, equations, iter, result, guess, pc>>
  BY DEF vars
<1>2. FirstStep' <=> FirstStep
  BY <1>1 DEF FirstStep
<1>3. Starts(s)' <=> Starts(s)
  BY <1>1 DEF Starts
<1>4. /\ Conjugate(s)' <=> Conjugate(s)
      /\ Exhausted(s)' <=> Exhausted(s)
      /\ Stabilized(s)' <=> Stabilized(s)
      /\ BiConjugate(s)' <=> BiConjugate(s)
  BY <1>1, SameMatrices
<1>. QED  BY <1>1, <1>2, <1>3, <1>4 DEF TwoSteps

LEMMA TwoStepsKept ==
    ASSUME IInv, TwoSteps, Next
    PROVE  TwoSteps'
<1>1. CASE cg_unimplemented
  BY <1>1 DEF cg_unimplemented, TwoSteps
<1>2. CASE cg_iteration
  <2>1. \/ Throws("stuck", cg_residual.x) \/ Returns(cg_residual.x)
        \/ GoesOn(cg_direction(cg_residual))
    BY <1>2 DEF cg_iteration
  <2>2. pc = "cg" /\ pc \in Running
    BY <1>2 DEF cg_iteration, Running
  <2>. QED  BY <2>1, <2>2, CgTwoSteps, ThrowsTwoSteps
<1>3. CASE cg_exhausted \/ bicgstab_exhausted
  <2>1. Throws("not_solved", s.x) /\ pc \in Running
    BY <1>3 DEF cg_exhausted, bicgstab_exhausted, Running
  <2>. QED  BY <2>1, ThrowsTwoSteps
<1>4. CASE cg_m_exhausted
  BY <1>4 DEF cg_m_exhausted, TwoSteps
<1>5. CASE Ended
  BY <1>5, TwoStepsStutter DEF Ended
<1>. QED  BY <1>1, <1>2, <1>3, <1>4, <1>5, SaveTwoSteps, FastTwoSteps, CgmTwoSteps DEF Next

\* What CG's searches and BiCGstab's steps are at, one iteration after they
\* started and from the second one on, whatever is refreshed in between.
THEOREM TwoStepsInvariant == Spec => []TwoSteps
<1>1. Init => TwoSteps
  BY TwoStepsBegin
<1>2. IInv /\ TwoSteps /\ [Next]_vars => TwoSteps'
  BY TwoStepsKept, TwoStepsStutter
<1>. QED  BY <1>1, <1>2, InductiveInvariant, PTL DEF Spec

\* The search directions are conjugate: two iterations after a refresh, or
\* after the beginning of the CG-M, the residual has vanished or the
\* iteration has divided by zero.
THEOREM ExactAlwaysAfterTwoIterations == Spec => []ExactAfterTwoIterations
<1>1. IInv /\ TwoSteps => ExactAfterTwoIterations
  <2> SUFFICES ASSUME IInv, TwoSteps, pc \in {"cg", "save", "fast", "cg_m"},
                      pc \in {"cg", "save", "fast"} => iter # 0 /\ ~FirstStep,
                      pc = "cg_m" => ~(iter < 2)
               PROVE  s.rn = Zero \/ s.rn = NaN
    BY DEF ExactAfterTwoIterations, FirstStep
  <2>1. iter \in Nat
    BY DEF IInv, Typed
  <2>. QED  BY <2>1 DEF TwoSteps, Exhausted
<1>. QED  BY <1>1, InductiveInvariant, TwoStepsInvariant, PTL

LEMMA RetriesBegin ==
    ASSUME Init
    PROVE  RetriesGoWell
<1>1. call \in Calls
  BY DEF Init
<1>2. call.caller \in Callers /\ Callers = {"cg_m", "invert", "md_mp"}
  BY <1>1, CallTypes DEF Callers
<1>3. call.caller # "cg_m" => source # Zero
  BY DEF Init
<1>4. Retries => pc \in {"save", "fast"}
  <2>1. CASE call.caller = "md_mp"
    BY <2>1 DEF Init, bicgstab
  <2>2. CASE call.caller = "invert" /\ call.useEo
    BY <2>2 DEF Init, bicgstab
  <2>. QED  BY <2>1, <2>2 DEF Retries
<1>. QED  BY <1>3, <1>4 DEF RetriesGoWell

LEMMA GivenStays ==
    ASSUME UNCHANGED <<call, Qplus, source>>
    PROVE  /\ Retries' <=> Retries
           /\ Sufficient' <=> Sufficient
           /\ \A x : (Solvable(x)' <=> Solvable(x))
           /\ guess' = guess => (Solvable(guess)' <=> Solvable(guess))
           /\ QplusQminus' = QplusQminus
<1>1. QplusQminus' = QplusQminus /\ RetrySource' = RetrySource
  BY DEF QplusQminus, RetrySource
<1>2. \A x : (Solvable(x)' <=> Solvable(x))
  BY <1>1 DEF Solvable
<1>3. guess' = guess => (Solvable(guess)' <=> Solvable(guess))
  BY <1>1 DEF Solvable
<1>. QED  BY <1>1, <1>2, <1>3 DEF Retries, Sufficient, OneDevice, Minimum

\* BiCGstab fails or goes on.
LEMMA BicgstabRetriesWell ==
    ASSUME IInv, RetriesGoWell, bicgstab_save \/ bicgstab_fast \/ bicgstab_exhausted
    PROVE  RetriesGoWell'
<1>1. /\ pc \in {"save", "fast"}
      /\ \/ \E x, exception : exception \in {"stuck", "not_solved"} /\ Throws(exception, x)
         \/ \E x : Returns(x)
         \/ \E t : GoesOn(t)
  BY DEF bicgstab_save, bicgstab_fast, bicgstab_exhausted
<1>2. /\ UNCHANGED <<call, Qplus, source>>
      /\ call.caller # "cg_m" => source # Zero
  BY <1>1 DEF Throws, Returns, GoesOn, given, RetriesGoWell
<1>3. Retries' <=> Retries
  BY <1>2, GivenStays
<1>4. CASE \E x : Returns(x)
  BY <1>2, <1>4 DEF Returns, RetriesGoWell
<1>5. CASE \E t : GoesOn(t)
  BY <1>1, <1>2, <1>5 DEF GoesOn, RetriesGoWell
<1>6. ASSUME NEW x, NEW exception \in {"stuck", "not_solved"}, Throws(exception, x), Retries
      PROVE  RetriesGoWell'
  <2> DEFINE g == RetryGuess(x)
  <2>1. pc' = "cg" /\ s' = Fresh(g) /\ guess' = g /\ iter' = 0
    BY <1>1, <1>6 DEF Throws
  <2>2. call.caller = "md_mp" => g = Zero
    BY DEF RetryGuess
  <2>3. Fresh(g).x = g
    BY DEF Fresh
  <2> HIDE DEF g
  <2>4. s'.x = guess'
    BY <2>1, <2>3
  <2>. QED  BY <1>2, <2>1, <2>2, <2>4 DEF RetriesGoWell
<1>7. ASSUME NEW x, NEW exception \in {"stuck", "not_solved"}, Throws(exception, x), ~Retries
      PROVE  RetriesGoWell'
  BY <1>2, <1>3, <1>7 DEF RetriesGoWell
<1>. QED  BY <1>1, <1>4, <1>5, <1>6, <1>7

LEMMA NotZeroYet ==
    ASSUME NEW t, Conjugate(t), t.rn \in Fields, t.rho # 0
    PROVE  t.rn # Zero /\ t.p # Zero
<1> DEFINE r == t.rn
           p == t.p
<1>1. /\ r \in Fields /\ p \in Fields /\ t.rho = scalar_product(r, r)
      /\ \E q \in Fields \ {Zero}, c \in Numbers : Orthogonal(q, r) /\ p = Axpy(c, q, r)
  BY NaNIsNone DEF Conjugate
<1>2. PICK q \in Fields \ {Zero}, c \in Numbers : Orthogonal(q, r) /\ p = Axpy(c, q, r)
  BY <1>1
<1>3. r # Zero
  BY <1>1, MoreOfZero, NaNIsNone
<1>4. ASSUME p = Zero PROVE FALSE
  <2> DEFINE w == scalar_product(r, r)
  <2> HIDE DEF r, p
  <2>0. r \in Fields /\ q \in Fields /\ c \in Numbers /\ p = Axpy(c, q, r)
    BY <1>1, <1>2
  <2>8. /\ Congruent(scalar_product(r, Axpy(c, q, r)), c * scalar_product(r, q) + w)
        /\ w \in Int /\ c \in Int
    BY <2>0, RowOf
  <2>1. /\ Congruent(scalar_product(r, p), c * scalar_product(r, q) + w)
        /\ w \in Int /\ w \in Numbers /\ c \in Int
    BY <2>0, <2>8, DotIs
  <2>2. scalar_product(r, q) = 0
    BY <1>1, <1>2, DotIs DEF Orthogonal
  <2>3. scalar_product(r, p) = 0
    BY <1>1, <1>4, MoreOfZero
  <2>4. c * 0 + w = w
    BY <2>1
  <2>5. Congruent(0, w) /\ 0 \in Int
    BY <2>1, <2>2, <2>3, <2>4
  <2>6. Null(w)
    BY <2>1, <2>5, CongruentOps DEF Null
  <2>7. w = 0
    BY <2>1, <2>6, NullNumber
  <2>. QED  BY <1>1, <2>7
<1>. QED  BY <1>3, <1>4

\* Under parameters that suffice, CG looks at every residual.
LEMMA ChecksEvery ==
    ASSUME Typed, Sufficient
    PROVE  /\ CgChecks /\ iter >= Minimum
           /\ iter < 2 => CgLoops
           /\ iter = 1 => ~Refreshes
<1>1. iter \in Nat /\ Minimum = 0 /\ call.cgMax > 2 /\ call.cgMax \in Nat
      /\ call.iterRefresh > 2 /\ call.iterRefresh \in Nat
  BY CallTypes DEF Typed, Sufficient, CallParameters
<1>2. iter >= Minimum /\ (iter < 2 => CgLoops)
  BY <1>1 DEF CgLoops
<1>3. CgChecks
  <2>1. iter % 1 = 0
    <3>1. 0 \in 0 .. 1 - 1 /\ iter \in Int /\ iter = 1 * iter + 0 /\ 1 \in Nat /\ 1 > 0
      BY <1>1
    <3>. QED  BY <3>1, RemainderIs
  <2>. QED  BY <2>1 DEF CgChecks, Sufficient
<1>4. iter = 1 => ~Refreshes
  <2> DEFINE n == call.iterRefresh
  <2>1. n \in Nat /\ n > 2
    BY <1>1
  <2> HIDE DEF n
  <2>2. 1 % n = 1
    <3>1. 1 \in 0 .. n - 1 /\ 1 \in Int /\ 1 = n * 0 + 1 /\ n > 0 /\ 0 \in Int
      BY <2>1
    <3>. QED  BY <2>1, <3>1, RemainderIs
  <2>. QED  BY <2>2 DEF Refreshes, n
<1>. QED  BY <1>2, <1>3, <1>4

\* CG, started from a field that is not the solution.
LEMMA CgSolves ==
    ASSUME IInv, RetriesGoWell, pc = "cg", Retries, Sufficient, Solvable(guess)
    PROVE  LET t == cg_residual
               u == cg_direction(t)
           IN /\ t.rho \in Numbers
              /\ t.rho \in Small \/ (iter = 0 /\ Halfway(u))
<1> DEFINE t == cg_begin
           r == cg_residual
           u == cg_direction(r)
<1>1. Typed /\ ResidualFollowsSolution /\ Qplus \in Matrices /\ source \in Sources /\ iter \in Nat
  BY DEF IInv, Typed
<1>2. CgStep(t, t.omega, u) /\ t \in SolverStates /\ u.rn = r.rn /\ u.rho = r.rho
  BY <1>1, CgGoes, CgBegins
<1>3. /\ Refreshes => /\ t.p = t.rn /\ t.omega = scalar_product(t.rn, t.rn)
                      /\ t.rn = saxpy(1, Apply(A, s.x), b) /\ t.rn \in FieldsOrNaN
      /\ ~Refreshes => t.rn = s.rn /\ t.p = s.p /\ t.rho = s.rho /\ t.omega = s.rho
  BY <1>1, CgBeginsWith
<1>4. /\ iter < 2 /\ (iter = 1 => Halfway(s)) /\ (iter = 0 => s.x = guess)
  BY DEF RetriesGoWell
<1>5. (iter = 0 => Refreshes) /\ (iter = 1 => ~Refreshes)
  BY <1>1, Counting, ChecksEvery
<1>6. u.rho = scalar_product(u.rn, u.rn)
  BY <1>2 DEF CgStep
<1> HIDE DEF t, r, u
<1>7. CASE iter = 0
  <2>1. t.rn = saxpy(1, Apply(QplusQminus, guess), RetrySource)
    <3>1. A = QplusQminus /\ b = RetrySource
      BY DEF A, b, RetrySource
    <3>. QED  BY <1>3, <1>4, <1>5, <1>7, <3>1
  <2>2. t.rn # Zero /\ t.rn \in Fields
    <3>1. RetrySource \in Fields
      <4>1. b \in Fields /\ b = RetrySource
        BY <1>1, MatrixTypes DEF b, RetrySource
      <4>. QED  BY <4>1
    <3>2. Apply(QplusQminus, guess) \in Fields
      BY <1>1, MatrixTypes, ApplyIs DEF Solvable
    <3>3. Minus(1) \in Numbers
      BY NaNIsNone, OnNumbers
    <3>4. saxpy(1, Apply(QplusQminus, guess), RetrySource) \in Fields
      BY <3>1, <3>2, <3>3, AxpyIs DEF saxpy
    <3>. QED  BY <2>1, <3>4 DEF Solvable
  <2>3. Conjugate(u) /\ u.rn \in Fields
    BY <1>1, <1>2, <1>3, <1>5, <1>7, <2>2, FirstStepOfCg
  <2>4. u.rho \in Numbers
    BY <1>6, <2>3, DotIs
  <2>5. u.rho \notin Small => Halfway(u)
    BY <1>6, <2>3, <2>4, NaNIsNone DEF Halfway, Conjugate
  <2>. QED  BY <1>2, <1>7, <2>4, <2>5 DEF r, u
<1>8. CASE iter = 1
  <2>1. Halfway(s) /\ ~Refreshes
    BY <1>4, <1>5, <1>8
  <2>2. Conjugate(t) /\ t.rn \in Fields /\ t.rho # 0 /\ t.omega = t.rho
    BY <1>3, <2>1 DEF Halfway, Conjugate
  <2>3. t.rn # Zero /\ t.p # Zero
    BY <2>2, NotZeroYet
  <2>4. u.rho = 0
    BY <1>1, <1>2, <2>2, <2>3, SecondStepOfCg
  <2>. QED  BY <1>2, <2>4, NaNIsNone DEF r, u
<1>. QED  BY <1>1, <1>4, <1>7, <1>8

LEMMA CgRetriesWell ==
    ASSUME IInv, RetriesGoWell, cg_iteration \/ cg_exhausted \/ cg_unimplemented
    PROVE  RetriesGoWell'
<1>1. Typed /\ pc = "cg" /\ iter \in Nat
  BY DEF IInv, Typed, cg_iteration, cg_exhausted, cg_unimplemented
<1> DEFINE t == cg_residual
           u == cg_direction(t)
<1>2. \/ pc' \in {"aborted", "solved"} /\ UNCHANGED <<call, Qplus, source>>
      \/ cg_iteration /\ CgChecks /\ t.rho = NaN /\ Throws("stuck", t.x)
      \/ ~CgLoops /\ Throws("not_solved", s.x)
      \/ (CgChecks => t.rho # NaN /\ ~(t.rho \in Small /\ iter >= Minimum)) /\ GoesOn(u)
  BY DEF cg_iteration, cg_exhausted, cg_unimplemented, Returns, given
<1>3. /\ UNCHANGED <<call, Qplus, source>>
      /\ call.caller # "cg_m" => source # Zero
  BY <1>1, <1>2 DEF Throws, GoesOn, given, RetriesGoWell
<1>4. /\ Retries' <=> Retries
      /\ Sufficient' <=> Sufficient
      /\ guess' = guess => (Solvable(guess)' <=> Solvable(guess))
  BY <1>3, GivenStays
<1>5. CASE pc' \in {"aborted", "solved"}
  BY <1>3, <1>5 DEF RetriesGoWell
<1>6. Retries => (call.caller = "md_mp" => guess = Zero)
  BY <1>1 DEF RetriesGoWell
<1>7. ASSUME Retries, Sufficient, Solvable(guess)
      PROVE  /\ t.rho \in Numbers
             /\ t.rho \in Small \/ (iter = 0 /\ Halfway(u))
             /\ CgChecks /\ iter >= Minimum /\ CgLoops
  <2>1. iter < 2
    BY <1>1, <1>7 DEF RetriesGoWell
  <2>. QED  BY <1>1, <1>7, <2>1, CgSolves, ChecksEvery
<1> HIDE DEF t
<1>8. CASE \/ CgChecks /\ t.rho = NaN /\ Throws("stuck", t.x)
           \/ ~CgLoops /\ Throws("not_solved", s.x)
  <2>1. pc' \in {"stuck", "not_solved"} /\ guess' = guess
    BY <1>1, <1>8 DEF Throws
  <2>2. Retries /\ Sufficient => ~Solvable(guess)
    BY <1>7, <1>8, NaNIsNone
  <2>3. pc' # "cg"
    BY <2>1
  <2>4. Retries' => (call'.caller = "md_mp" => guess' = Zero)
    BY <1>3, <1>4, <1>6, <2>1
  <2>5. Retries' /\ Sufficient' => ~Solvable(guess)'
    BY <1>4, <2>1, <2>2
  <2> HIDE DEF u
  <2>. QED  BY <1>3, <2>3, <2>4, <2>5 DEF RetriesGoWell
<1>9. CASE (CgChecks => t.rho # NaN /\ ~(t.rho \in Small /\ iter >= Minimum)) /\ GoesOn(u)
  <2>1. pc' = "cg" /\ guess' = guess /\ iter' = iter + 1 /\ s' = u /\ iter' # 0
        /\ UNCHANGED <<call, Qplus, source, pc>>
    BY <1>1, <1>9 DEF GoesOn, given
  <2>2. Retries /\ Sufficient /\ Solvable(guess) => iter = 0 /\ Halfway(u)
    BY <1>7, <1>9
  <2>3. Halfway(u) => Halfway(s)'
    <3> HIDE DEF u
    <3>1. Conjugate(s)' <=> Conjugate(u)
      BY <2>1, SameMatrices
    <3>. QED  BY <2>1, <3>1 DEF Halfway
  <2> HIDE DEF u
  <2>4. Retries /\ Sufficient /\ Solvable(guess) => iter' < 2 /\ Halfway(s)'
    BY <1>1, <2>1, <2>2, <2>3
  <2>5. Retries' => (call'.caller = "md_mp" => guess' = Zero)
    BY <1>3, <1>4, <1>6, <2>1
  <2>6. pc' = "cg" /\ iter' # 0
    BY <2>1
  <2>7. Retries' /\ Sufficient' /\ Solvable(guess)' => iter' < 2 /\ Halfway(s)'
    BY <1>4, <2>1, <2>4
  <2>. QED  BY <1>3, <2>5, <2>6, <2>7 DEF RetriesGoWell
<1>. QED  BY <1>2, <1>5, <1>8, <1>9

LEMMA RetriesStutter ==
    ASSUME IInv, RetriesGoWell, UNCHANGED vars
    PROVE  RetriesGoWell'
<1>1. UNCHANGED <<call, Qplus, source, s, equations, iter, result, guess, pc>>
  BY DEF vars
<1>2. /\ Retries' <=> Retries
      /\ Sufficient' <=> Sufficient
      /\ Solvable(guess)' <=> Solvable(guess)
  BY <1>1, GivenStays
<1>3. Conjugate(s)' <=> Conjugate(s)
  BY <1>1, SameMatrices
<1>4. Halfway(s)' <=> Halfway(s)
  BY <1>1, <1>3 DEF Halfway
<1>. QED  BY <1>1, <1>2, <1>4 DEF RetriesGoWell

LEMMA RetriesKept ==
    ASSUME IInv, RetriesGoWell, Next
    PROVE  RetriesGoWell'
<1>1. CASE cg_m_iteration \/ cg_m_exhausted
  <2>1. pc = "cg_m" /\ UNCHANGED <<call, Qplus, source>>
    BY <1>1 DEF cg_m_iteration, cg_m_exhausted, given
  <2>2. call.caller = "cg_m"
    BY <2>1 DEF IInv, InPlace
  <2>3. ~Retries' /\ call'.caller = "cg_m"
    BY <2>1, <2>2 DEF Retries
  <2>. QED  BY <2>3 DEF RetriesGoWell
<1>2. CASE Ended
  BY <1>2, RetriesStutter DEF Ended
<1>. QED  BY <1>1, <1>2, CgRetriesWell, BicgstabRetriesWell DEF Next

\* What a caller that retries is left with at each point: the guess is the
\* one BiCGstab started from or left behind, and CG works on it in the way
\* that ends within its limit.
THEOREM RetriesInvariant == Spec => []RetriesGoWell
<1>1. Init => RetriesGoWell
  BY RetriesBegin
<1>2. IInv /\ RetriesGoWell /\ [Next]_vars => RetriesGoWell'
  BY RetriesKept, RetriesStutter
<1>. QED  BY <1>1, <1>2, InductiveInvariant, PTL DEF Spec

\* A caller that tries CG after BiCGstab fails for what BiCGstab has left
\* behind only, a field that is no number or the exact solution; the
\* molecular dynamics, which start from zero, never.
THEOREM RetriesAlwaysSucceed == Spec => []RetriesSucceed
<1>1. IInv /\ RetriesGoWell => RetriesSucceed
  <2> SUFFICES ASSUME IInv, RetriesGoWell, pc \in {"stuck", "not_solved"}, Retries, Sufficient
               PROVE  /\ call.caller = "invert"
                      /\ guess = NaN \/ saxpy(1, Apply(Aee, Apply(Qminus, guess)), source) = Zero
    BY DEF RetriesSucceed
  <2>1. Typed /\ Qplus \in Matrices /\ source \in Sources /\ guess \in FieldsOrNaN /\ source \in Fields
    BY MatrixTypes DEF IInv, Typed
  <2>2. ~Solvable(guess)
    BY DEF RetriesGoWell
  <2>3. guess = NaN \/ saxpy(1, Apply(QplusQminus, guess), RetrySource) = Zero
    BY <2>1, <2>2 DEF Solvable, FieldsOrNaN
  <2>4. call.caller # "md_mp"
    <3> SUFFICES ASSUME call.caller = "md_mp" PROVE FALSE
      OBVIOUS
    <3>1. guess = Zero /\ source # Zero /\ RetrySource = source
      BY DEF RetriesGoWell, RetrySource
    <3>2. Apply(QplusQminus, Zero) = Zero
      BY <2>1, OfZero, NaNIsNone
    <3>3. saxpy(1, Zero, source) = source
      <4> DEFINE m == Minus(1)
                 r == Axpy(m, Zero, source)
      <4>1. m \in Numbers /\ m \in Int
        BY NaNIsNone, ScalarIs
      <4>2. r \in Fields
        BY <2>1, <4>1, AxpyIs, NaNIsNone
      <4>3. ASSUME NEW i \in {1, 2} PROVE Congruent(r[i], source[i])
        <5>1. Congruent(r[i], m * Zero[i] + source[i]) /\ source[i] \in Int /\ Zero[i] = 0
          BY <2>1, <4>1, NaNIsNone, Component DEF Zero
        <5> HIDE DEF m, r
        <5>2. m * 0 + source[i] = source[i]
          BY <4>1, <5>1
        <5>. QED  BY <5>1, <5>2
      <4>4. r = source
        BY <2>1, <4>2, <4>3, SameField
      <4>. QED  BY <4>4 DEF saxpy
    <3>. QED  BY <2>3, <3>1, <3>2, <3>3, NaNIsNone
  <2>5. call.caller = "invert"
    BY <2>4 DEF Retries
  <2>6. ASSUME guess # NaN
        PROVE  saxpy(1, Apply(Aee, Apply(Qminus, guess)), source) = Zero
    <3> DEFINE x == Apply(QplusQminus, guess)
               y == Apply(Qminus, guess)
    <3>1. saxpy(1, x, gamma5(source)) = Zero
      BY <2>3, <2>5, <2>6 DEF RetrySource
    <3>2. x = Apply(Qplus, y)
      BY <2>1, NormalEquation
    <3>3. x \in FieldsOrNaN /\ y \in FieldsOrNaN
      <4>1. /\ 1 \in NumbersOrNaN /\ Zero \in FieldsOrNaN
            /\ QplusQminus \in Fields \X Fields /\ Qminus \in Fields \X Fields
        BY <2>1, MatrixTypes, NaNIsNone DEF NumbersOrNaN, FieldsOrNaN
      <4>. QED  BY <2>1, <4>1, FieldTypes
    <3> HIDE DEF x, y
    <3>4. Apply(Aee, y) = gamma5(x)
      BY <2>1, <3>2, <3>3, Gamma5
    <3>5. saxpy(1, gamma5(x), source) = gamma5(Zero)
      BY <2>1, <3>1, <3>3, Gamma5
    <3>6. gamma5(Zero) = Zero
      <4>1. Zero # NaN /\ 0 % P = 0
        BY NaNIsNone, ModId
      <4> DEFINE i == Zero[2]
      <4>2. gamma5(Zero) = <<Zero[1], (-i) % P>>
        BY <4>1 DEF gamma5
      <4>3. Zero[1] = 0 /\ i = 0 /\ i \in Int
        BY DEF Zero
      <4>4. i \in Int => -i = 0 - i
        <5> HIDE DEF i
        <5>. QED  OBVIOUS
      <4>5. -i = 0
        BY <4>3, <4>4
      <4>. QED  BY <4>1, <4>2, <4>3, <4>5 DEF Zero
    <3>. QED  BY <3>4, <3>5, <3>6 DEF y
  <2>. QED  BY <2>5, <2>6
<1>. QED  BY <1>1, InductiveInvariant, RetriesInvariant, PTL
=============================================================================
