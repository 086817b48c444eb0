----------------------- MODULE EvenOddInversion_proofs -----------------------
(***************************************************************************)
(* Proofs about EvenOddInversion, for every prime that is 3 modulo 4, every *)
(* gauge field and source and all parameters: that preconditioning, retry   *)
(* and the roles of the parities lead to the solution, and that both        *)
(* versions of the condensate are that of the matrix.                       *)
(***************************************************************************)
EXTENDS EvenOddInversion, ModelNumbers_proofs

------------------------------------------------------------------------------
(* Spinors *)

ZeroSpinor == <<ComplexZero, ComplexZero>>
Neg(x) == sax(MinusOne, x)
Hopping == Spinors \X Spinors

LEMMA Parts ==
    /\ \A x \in Spinors : x[1] \in Complex /\ x[2] \in Complex /\ x = <<x[1], x[2]>>
    /\ \A a, b \in Complex : <<a, b>> \in Spinors
    /\ \A x \in Fields : x.even \in Spinors /\ x.odd \in Spinors
                         /\ x = [even |-> x.even, odd |-> x.odd]
    /\ \A x, y \in Spinors : [even |-> x, odd |-> y] \in Fields
    /\ ZeroSpinor \in Spinors /\ ColdSpinor \in Spinors
    /\ MinusOne \in Complex /\ One \in Complex /\ One = Unit
<1>1. ComplexZero \in Complex /\ Unit \in Complex /\ <<P - 1, 0>> \in Complex
  BY PairType
<1>2. MinusOne = <<P - 1, 0>> /\ One = Unit /\ ColdSpinor = <<Unit, Unit>>
  BY DEF MinusOne, One, Unit, ColdSpinor
<1>. HIDE DEF MinusOne, One
<1>. QED  BY <1>1, <1>2 DEF Spinors, Fields, ZeroSpinor

LEMMA Ring ==
    ASSUME NEW a \in Complex, NEW b \in Complex, NEW c \in Complex
    PROVE  /\ Add(a, b) \in Complex /\ Times(a, b) \in Complex /\ Conj(a) \in Complex
           /\ Add(a, Add(b, c)) = Add(Add(a, b), c) /\ Add(a, b) = Add(b, a)
           /\ Times(a, Times(b, c)) = Times(Times(a, b), c) /\ Times(a, b) = Times(b, a)
           /\ Times(a, Add(b, c)) = Add(Times(a, b), Times(a, c))
           /\ Times(One, a) = a /\ Add(a, ComplexZero) = a /\ Add(a, Times(MinusOne, a)) = ComplexZero
           /\ Times(MinusOne, Times(MinusOne, a)) = a
           /\ Times(a, Times(MinusOne, b)) = Times(MinusOne, Times(a, b))
           /\ Conj(Times(a, b)) = Times(Conj(a), Conj(b))
           /\ Conj(Add(a, b)) = Add(Conj(a), Conj(b)) /\ Conj(Conj(a)) = a
           /\ Conj(Times(MinusOne, a)) = Times(MinusOne, Conj(a))
<1>1. \A y, z : Add(y, z) = SumMod(y, z)
  BY DEF Add, SumMod
<1>2. \A z : Times(MinusOne, z) = Opposite(z)
  BY DEF Opposite, MinusOne
<1>3. One = Unit
  BY DEF One, Unit
<1>4. /\ SumMod(a, b) \in Complex /\ Times(a, b) \in Complex /\ Conj(a) \in Complex
  BY RingType
<1>5. /\ SumMod(a, SumMod(b, c)) = SumMod(SumMod(a, b), c) /\ SumMod(a, b) = SumMod(b, a)
      /\ Times(a, Times(b, c)) = Times(Times(a, b), c) /\ Times(a, b) = Times(b, a)
      /\ Times(a, SumMod(b, c)) = SumMod(Times(a, b), Times(a, c))
  BY SumAssociative, SumCommutes, TimesAssociative, TimesCommutes, Distributes
<1>6. /\ Times(Unit, a) = a /\ SumMod(a, ComplexZero) = a /\ SumMod(a, Opposite(a)) = ComplexZero
      /\ Opposite(Opposite(a)) = a /\ Times(a, Opposite(b)) = Opposite(Times(a, b))
      /\ Conj(Opposite(a)) = Opposite(Conj(a))
  BY Units, Signs
<1>7. /\ Conj(Times(a, b)) = Times(Conj(a), Conj(b)) /\ Conj(Conj(a)) = a
      /\ Conj(SumMod(a, b)) = SumMod(Conj(a), Conj(b))
  BY Conjugation
<1>. QED  BY <1>1, <1>2, <1>3, <1>4, <1>5, <1>6, <1>7, Zenon

LEMMA Distributive ==
    ASSUME NEW a \in Complex, NEW b \in Complex, NEW c \in Complex
    PROVE  Times(a, Add(b, c)) = Add(Times(a, b), Times(a, c))
BY Ring

LEMMA SignMoves ==
    ASSUME NEW a \in Complex, NEW b \in Complex
    PROVE  Times(a, Times(MinusOne, b)) = Times(MinusOne, Times(a, b))
BY Ring

\* The sum of four numbers can be taken in any order.
LEMMA FourTerms ==
    ASSUME NEW a \in Complex, NEW b \in Complex, NEW c \in Complex, NEW d \in Complex
    PROVE  Add(Add(a, b), Add(c, d)) = Add(Add(a, c), Add(b, d))
<1>1. Add(c, d) \in Complex /\ Add(b, d) \in Complex
  BY Ring
<1>2. Add(Add(a, b), Add(c, d)) = Add(a, Add(b, Add(c, d)))
  BY <1>1, Ring
<1>3. Add(b, Add(c, d)) = Add(c, Add(b, d))
  <2>1. Add(b, Add(c, d)) = Add(Add(b, c), d)
    BY Ring
  <2>2. Add(c, Add(b, d)) = Add(Add(c, b), d)
    BY Ring
  <2>3. Add(b, c) = Add(c, b)
    BY Ring
  <2>. QED  BY <2>1, <2>2, <2>3
<1>4. Add(Add(a, c), Add(b, d)) = Add(a, Add(c, Add(b, d)))
  BY <1>1, Ring
<1>. QED  BY <1>2, <1>3, <1>4

LEMMA SpinorSums ==
    ASSUME NEW x \in Spinors, NEW y \in Spinors, NEW z \in Spinors
    PROVE  /\ Plus(x, y) \in Spinors /\ Neg(x) \in Spinors
           /\ Plus(x, Plus(y, z)) = Plus(Plus(x, y), z)
           /\ Plus(x, y) = Plus(y, x)
           /\ Plus(x, ZeroSpinor) = x /\ Plus(x, Neg(x)) = ZeroSpinor
           /\ Neg(Neg(x)) = x /\ Neg(Plus(x, y)) = Plus(Neg(x), Neg(y))
<1> DEFINE a == x[1]
           b == x[2]
           c == y[1]
           d == y[2]
           e == z[1]
           f == z[2]
<1>1. /\ a \in Complex /\ b \in Complex /\ c \in Complex /\ d \in Complex
      /\ e \in Complex /\ f \in Complex /\ MinusOne \in Complex
      /\ x = <<a, b>> /\ y = <<c, d>> /\ z = <<e, f>>
  BY Parts
<1> HIDE DEF a, b, c, d, e, f
<1>2. Plus(x, y) = <<Add(a, c), Add(b, d)>> /\ Neg(x) = <<Times(MinusOne, a), Times(MinusOne, b)>>
  BY <1>1, Zenon DEF Plus, Neg, sax
<1>3. Plus(x, y) \in Spinors /\ Neg(x) \in Spinors
  BY <1>1, <1>2, Ring, Parts
<1>4. Plus(x, Plus(y, z)) = Plus(Plus(x, y), z)
  <2>1. Add(a, Add(c, e)) = Add(Add(a, c), e) /\ Add(b, Add(d, f)) = Add(Add(b, d), f)
    BY <1>1, Ring
  <2>. QED  BY <1>1, <2>1, Zenon DEF Plus
<1>5. Plus(x, y) = Plus(y, x)
  <2>1. Add(a, c) = Add(c, a) /\ Add(b, d) = Add(d, b)
    BY <1>1, Ring
  <2>. QED  BY <1>1, <2>1, Zenon DEF Plus
<1>6. Plus(x, ZeroSpinor) = x /\ Plus(x, Neg(x)) = ZeroSpinor
  <2>1. /\ Add(a, ComplexZero) = a /\ Add(b, ComplexZero) = b
        /\ Add(a, Times(MinusOne, a)) = ComplexZero /\ Add(b, Times(MinusOne, b)) = ComplexZero
    BY <1>1, Ring
  <2>. QED  BY <1>1, <2>1, Zenon DEF Plus, Neg, sax, ZeroSpinor
<1>7. Neg(Neg(x)) = x
  <2>1. Times(MinusOne, Times(MinusOne, a)) = a /\ Times(MinusOne, Times(MinusOne, b)) = b
    BY <1>1, Ring
  <2>. QED  BY <1>1, <2>1, Zenon DEF Neg, sax
<1>8. Neg(Plus(x, y)) = Plus(Neg(x), Neg(y))
  <2>1. /\ Times(MinusOne, Add(a, c)) = Add(Times(MinusOne, a), Times(MinusOne, c))
        /\ Times(MinusOne, Add(b, d)) = Add(Times(MinusOne, b), Times(MinusOne, d))
    BY <1>1, Distributive
  <2>. QED  BY <1>1, <2>1, Zenon DEF Plus, Neg, sax
<1>. QED  BY <1>3, <1>4, <1>5, <1>6, <1>7, <1>8

------------------------------------------------------------------------------
(* The kernels are linear *)

LEMMA Scaled ==
    ASSUME NEW a \in Complex, NEW b \in Complex, NEW x \in Spinors, NEW y \in Spinors
    PROVE  /\ sax(a, x) \in Spinors
           /\ sax(a, Plus(x, y)) = Plus(sax(a, x), sax(a, y))
           /\ sax(a, Neg(x)) = Neg(sax(a, x))
           /\ sax(a, sax(b, x)) = sax(Times(a, b), x)
           /\ sax(One, x) = x
<1>1. /\ x[1] \in Complex /\ x[2] \in Complex /\ y[1] \in Complex /\ y[2] \in Complex
      /\ x = <<x[1], x[2]>> /\ MinusOne \in Complex
  BY Parts
<1>2. sax(a, x) \in Spinors
  BY <1>1, Ring, Parts DEF sax
<1>3. sax(a, Plus(x, y)) = Plus(sax(a, x), sax(a, y))
  <2>1. /\ Times(a, Add(x[1], y[1])) = Add(Times(a, x[1]), Times(a, y[1]))
        /\ Times(a, Add(x[2], y[2])) = Add(Times(a, x[2]), Times(a, y[2]))
    BY <1>1, Distributive
  <2>. QED  BY <2>1, Zenon DEF sax, Plus
<1>4. sax(a, Neg(x)) = Neg(sax(a, x))
  <2>1. /\ Times(a, Times(MinusOne, x[1])) = Times(MinusOne, Times(a, x[1]))
        /\ Times(a, Times(MinusOne, x[2])) = Times(MinusOne, Times(a, x[2]))
    BY <1>1, SignMoves
  <2>. QED  BY <2>1, Zenon DEF sax, Neg
<1>5. sax(a, sax(b, x)) = sax(Times(a, b), x)
  <2>1. /\ Times(a, Times(b, x[1])) = Times(Times(a, b), x[1])
        /\ Times(a, Times(b, x[2])) = Times(Times(a, b), x[2])
    BY <1>1, TimesAssociative
  <2>. QED  BY <2>1, Zenon DEF sax
<1>6. sax(One, x) = x
  <2>1. Times(One, x[1]) = x[1] /\ Times(One, x[2]) = x[2]
    BY <1>1, Ring
  <2>. QED  BY <1>1, <2>1, Zenon DEF sax
<1>. QED  BY <1>2, <1>3, <1>4, <1>5, <1>6

LEMMA Gamma5 ==
    ASSUME NEW x \in Spinors, NEW y \in Spinors
    PROVE  /\ gamma5(x) \in Spinors
           /\ gamma5(gamma5(x)) = x
           /\ gamma5(Plus(x, y)) = Plus(gamma5(x), gamma5(y))
           /\ gamma5(Neg(x)) = Neg(gamma5(x))
<1>1. /\ x[1] \in Complex /\ x[2] \in Complex /\ y[1] \in Complex /\ y[2] \in Complex
      /\ x = <<x[1], x[2]>> /\ MinusOne \in Complex
  BY Parts
<1>2. gamma5(x) \in Spinors
  BY <1>1, Ring, Parts DEF gamma5
<1>3. gamma5(gamma5(x)) = x
  <2>1. Times(MinusOne, Times(MinusOne, x[2])) = x[2]
    BY <1>1, Ring
  <2>. QED  BY <1>1, <2>1, Zenon DEF gamma5
<1>4. gamma5(Plus(x, y)) = Plus(gamma5(x), gamma5(y))
  <2>1. Times(MinusOne, Add(x[2], y[2])) = Add(Times(MinusOne, x[2]), Times(MinusOne, y[2]))
    BY <1>1, Distributive
  <2>. QED  BY <2>1, Zenon DEF gamma5, Plus
<1>5. gamma5(Neg(x)) = Neg(gamma5(x))
  BY Zenon DEF gamma5, Neg, sax
<1>. QED  BY <1>2, <1>3, <1>4, <1>5

LEMMA MatrixLinear ==
    ASSUME NEW A \in Hopping, NEW x \in Spinors, NEW y \in Spinors
    PROVE  /\ Times2(A, x) \in Spinors
           /\ Times2(A, Plus(x, y)) = Plus(Times2(A, x), Times2(A, y))
           /\ Times2(A, Neg(x)) = Neg(Times2(A, x))
<1>1. A[1] \in Spinors /\ A[2] \in Spinors
  BY DEF Hopping
<1>2. ASSUME NEW r \in Spinors
      PROVE  LET Row(z) == Add(Times(r[1], z[1]), Times(r[2], z[2]))
             IN /\ Row(x) \in Complex
                /\ Row(Plus(x, y)) = Add(Row(x), Row(y))
                /\ Row(Neg(x)) = Times(MinusOne, Row(x))
  <2>1. /\ x[1] \in Complex /\ x[2] \in Complex /\ y[1] \in Complex /\ y[2] \in Complex
        /\ r[1] \in Complex /\ r[2] \in Complex /\ MinusOne \in Complex
    BY Parts
  <2> DEFINE a == Times(r[1], x[1])
             b == Times(r[2], x[2])
             c == Times(r[1], y[1])
             d == Times(r[2], y[2])
  <2>2. a \in Complex /\ b \in Complex /\ c \in Complex /\ d \in Complex /\ Add(a, b) \in Complex
    <3>1. a \in Complex /\ b \in Complex
      BY <2>1, Ring, Zenon
    <3>2. c \in Complex /\ d \in Complex
      BY <2>1, Ring, Zenon
    <3> HIDE DEF a, b
    <3>3. Add(a, b) \in Complex
      BY <3>1, Ring, Zenon
    <3>. QED  BY <3>1, <3>2, <3>3
  <2>3. /\ Times(r[1], Add(x[1], y[1])) = Add(a, c)
        /\ Times(r[2], Add(x[2], y[2])) = Add(b, d)
    BY <2>1, Distributive
  <2>4. /\ Times(r[1], Times(MinusOne, x[1])) = Times(MinusOne, a)
        /\ Times(r[2], Times(MinusOne, x[2])) = Times(MinusOne, b)
    BY <2>1, SignMoves
  <2>5. /\ Plus(x, y)[1] = Add(x[1], y[1]) /\ Plus(x, y)[2] = Add(x[2], y[2])
        /\ Neg(x)[1] = Times(MinusOne, x[1]) /\ Neg(x)[2] = Times(MinusOne, x[2])
    BY DEF Plus, Neg, sax
  <2> HIDE DEF a, b, c, d
  <2>6. Add(Add(a, c), Add(b, d)) = Add(Add(a, b), Add(c, d))
    BY <2>2, FourTerms
  <2>7. Add(Times(MinusOne, a), Times(MinusOne, b)) = Times(MinusOne, Add(a, b))
    BY <2>1, <2>2, Distributive
  <2>. QED  BY <2>2, <2>3, <2>4, <2>5, <2>6, <2>7, Zenon DEF a, b, c, d
<1>3. Times2(A, x) \in Spinors
  BY <1>1, <1>2, Parts DEF Times2
<1>4. Times2(A, Plus(x, y)) = Plus(Times2(A, x), Times2(A, y))
  BY <1>1, <1>2, Zenon DEF Times2, Plus
<1>5. Times2(A, Neg(x)) = Neg(Times2(A, x))
  BY <1>1, <1>2, Zenon DEF Times2, Neg, sax
<1>. QED  BY <1>3, <1>4, <1>5

LEMMA DaggerType ==
    ASSUME NEW A \in Hopping
    PROVE  Dagger(A) \in Hopping
<1>1. A[1] \in Spinors /\ A[2] \in Spinors
  BY DEF Hopping
<1>2. \A x \in Spinors : Conj(x[1]) \in Complex /\ Conj(x[2]) \in Complex
  BY Parts, Ring
<1>. QED  BY <1>1, <1>2, Parts DEF Dagger, Hopping

LEMMA Dslash ==
    ASSUME NEW U \in Hopping, NEW x \in Spinors, NEW y \in Spinors, NEW p \in {"EVEN", "ODD"}
    PROVE  /\ dslash(U, x, p) \in Spinors
           /\ dslash(U, Plus(x, y), p) = Plus(dslash(U, x, p), dslash(U, y, p))
           /\ dslash(U, Neg(x), p) = Neg(dslash(U, x, p))
<1>1. CASE p = "EVEN"
  BY <1>1, MatrixLinear DEF dslash
<1>2. CASE p = "ODD"
  <2> DEFINE D == Dagger(U)
  <2>1. D \in Hopping /\ gamma5(x) \in Spinors /\ gamma5(y) \in Spinors
    BY DaggerType, Gamma5
  <2> HIDE DEF D
  <2>2. \A z : dslash(U, z, p) = gamma5(Times2(D, gamma5(z)))
    BY <1>2 DEF dslash, D
  <2>3. Times2(D, gamma5(x)) \in Spinors /\ Times2(D, gamma5(y)) \in Spinors
    BY <2>1, MatrixLinear
  <2>4. Times2(D, gamma5(Plus(x, y))) = Plus(Times2(D, gamma5(x)), Times2(D, gamma5(y)))
    <3>1. gamma5(Plus(x, y)) = Plus(gamma5(x), gamma5(y))
      BY Gamma5
    <3>. QED  BY <2>1, <3>1, MatrixLinear
  <2>5. Times2(D, gamma5(Neg(x))) = Neg(Times2(D, gamma5(x)))
    <3>1. gamma5(Neg(x)) = Neg(gamma5(x))
      BY Gamma5
    <3>. QED  BY <2>1, <3>1, MatrixLinear
  <2>. QED  BY <2>2, <2>3, <2>4, <2>5, Gamma5
<1>. QED  BY <1>1, <1>2

------------------------------------------------------------------------------
(* The twisted diagonal and its inverse *)

LEMMA TwistType ==
    ASSUME NEW mu \in Numbers
    PROVE  /\ (-mu) % P \in Numbers /\ <<1, mu>> \in Complex /\ <<1, (-mu) % P>> \in Complex
           /\ (-((-mu) % P)) % P = mu /\ <<1, (-((-mu) % P)) % P>> = <<1, mu>>
<1>1. mu \in Int /\ mu % P = mu /\ -mu \in Int /\ -(-mu) = mu
  BY ModId, SMT
<1>2. (-mu) % P \in Numbers
  BY <1>1, ModType
<1>3. (-((-mu) % P)) % P = (-(-mu)) % P
  BY <1>1, ModPlus, Zenon
<1>4. 1 \in Numbers
  BY PType DEF Numbers
<1>. QED  BY <1>1, <1>2, <1>3, <1>4 DEF Complex

LEMMA SiteDiagonal ==
    ASSUME NEW mu \in Numbers, NEW x \in Spinors, NEW y \in Spinors
    PROVE  /\ M_tm_sitediagonal(x, mu) \in Spinors
           /\ M_tm_sitediagonal(Plus(x, y), mu)
                  = Plus(M_tm_sitediagonal(x, mu), M_tm_sitediagonal(y, mu))
           /\ M_tm_sitediagonal(Neg(x), mu) = Neg(M_tm_sitediagonal(x, mu))
<1> DEFINE s == <<1, mu>>
           t == <<1, (-mu) % P>>
<1>1. /\ x[1] \in Complex /\ x[2] \in Complex /\ y[1] \in Complex /\ y[2] \in Complex
      /\ s \in Complex /\ t \in Complex /\ MinusOne \in Complex
  BY Parts, TwistType
<1>2. /\ M_tm_sitediagonal(x, mu) = <<Times(s, x[1]), Times(t, x[2])>>
      /\ M_tm_sitediagonal(y, mu) = <<Times(s, y[1]), Times(t, y[2])>>
      /\ M_tm_sitediagonal(Plus(x, y), mu)
            = <<Times(s, Add(x[1], y[1])), Times(t, Add(x[2], y[2]))>>
      /\ M_tm_sitediagonal(Neg(x), mu)
            = <<Times(s, Times(MinusOne, x[1])), Times(t, Times(MinusOne, x[2]))>>
  BY Zenon DEF M_tm_sitediagonal, Plus, Neg, sax
<1> HIDE DEF s, t
<1>3. M_tm_sitediagonal(x, mu) \in Spinors
  <2>1. Times(s, x[1]) \in Complex /\ Times(t, x[2]) \in Complex
    BY <1>1, Ring
  <2>. QED  BY <1>2, <2>1, Parts
<1>4. M_tm_sitediagonal(Plus(x, y), mu) = Plus(M_tm_sitediagonal(x, mu), M_tm_sitediagonal(y, mu))
  <2>1. /\ Times(s, Add(x[1], y[1])) = Add(Times(s, x[1]), Times(s, y[1]))
        /\ Times(t, Add(x[2], y[2])) = Add(Times(t, x[2]), Times(t, y[2]))
    BY <1>1, Distributive
  <2>2. Plus(<<Times(s, x[1]), Times(t, x[2])>>, <<Times(s, y[1]), Times(t, y[2])>>)
            = <<Add(Times(s, x[1]), Times(s, y[1])), Add(Times(t, x[2]), Times(t, y[2]))>>
    BY Zenon DEF Plus
  <2>. QED  BY <1>2, <2>1, <2>2
<1>5. M_tm_sitediagonal(Neg(x), mu) = Neg(M_tm_sitediagonal(x, mu))
  <2>1. /\ Times(s, Times(MinusOne, x[1])) = Times(MinusOne, Times(s, x[1]))
        /\ Times(t, Times(MinusOne, x[2])) = Times(MinusOne, Times(t, x[2]))
    BY <1>1, SignMoves
  <2>2. Neg(<<Times(s, x[1]), Times(t, x[2])>>)
            = <<Times(MinusOne, Times(s, x[1])), Times(MinusOne, Times(t, x[2]))>>
    BY Zenon DEF Neg, sax
  <2>. QED  BY <1>2, <2>1, <2>2
<1>. QED  BY <1>3, <1>4, <1>5

\* (1 + i mu)(1 - i mu) is a real number.
Modulus(mu) == (1 + mu * mu) % P

LEMMA TwistTimesConjugate ==
    ASSUME NEW mu \in Numbers
    PROVE  Times(<<1, mu>>, <<1, (-mu) % P>>) = <<Modulus(mu), 0>>
<1>1. mu \in Int /\ -mu \in Int /\ 1 \in Int /\ 1 % P = 1 /\ 0 % P = 0
  BY PType, ModId DEF Numbers
<1> DEFINE y == <<1, mu>>
           z == <<1, -mu>>
<1>2. y \in IntPairs /\ z \in IntPairs /\ Mod(z) = <<1, (-mu) % P>>
  BY <1>1 DEF IntPairs, Mod
<1>3. Times(y, Mod(z)) = Times(y, z) /\ Times(y, z) = Mod(ProductOf(y, z))
  BY <1>2, TimesMod, ProductPair
<1>4. 1 * 1 - mu * (-mu) = 1 + mu * mu /\ 1 * (-mu) + mu * 1 = 0
  BY <1>1, SMT
<1>5. ProductOf(y, z) = <<1 + mu * mu, 0>>
  BY <1>4, Zenon DEF ProductOf
<1>6. Mod(ProductOf(y, z)) = <<Modulus(mu), 0>>
  <2>1. Mod(<<1 + mu * mu, 0>>) = <<(1 + mu * mu) % P, 0 % P>>
    BY Zenon DEF Mod
  <2>. QED  BY <1>1, <1>5, <2>1, Zenon DEF Modulus
<1> HIDE DEF y, z
<1>7. Times(y, <<1, (-mu) % P>>) = <<Modulus(mu), 0>>
  BY <1>2, <1>3, <1>6, Zenon
<1>. QED  BY <1>7, Zenon DEF y

LEMMA DiagonalTwice ==
    ASSUME NEW mu \in Numbers, NEW x \in Spinors
    PROVE  M_tm_sitediagonal(M_tm_sitediagonal(x, (-mu) % P), mu) = sax(<<Modulus(mu), 0>>, x)
<1> DEFINE s == <<1, mu>>
           t == <<1, (-mu) % P>>
           r == <<Modulus(mu), 0>>
<1>1. x[1] \in Complex /\ x[2] \in Complex /\ s \in Complex /\ t \in Complex
  BY Parts, TwistType
<1>2. Times(s, t) = r /\ Times(t, s) = r
  BY <1>1, TwistTimesConjugate, TimesCommutes
<1>3. /\ M_tm_sitediagonal(x, (-mu) % P) = <<Times(t, x[1]), Times(s, x[2])>>
      /\ M_tm_sitediagonal(<<Times(t, x[1]), Times(s, x[2])>>, mu)
            = <<Times(s, Times(t, x[1])), Times(t, Times(s, x[2]))>>
  <2>1. <<1, (-((-mu) % P)) % P>> = <<1, mu>>
    BY TwistType
  <2>. QED  BY <2>1, Zenon DEF M_tm_sitediagonal
<1> HIDE DEF s, t, r
<1>4. Times(s, Times(t, x[1])) = Times(r, x[1]) /\ Times(t, Times(s, x[2])) = Times(r, x[2])
  BY <1>1, <1>2, TimesAssociative
<1>. QED  BY <1>3, <1>4, Zenon DEF sax, r

LEMMA SiteDiagonalScales ==
    ASSUME NEW mu \in Numbers, NEW a \in Complex, NEW x \in Spinors
    PROVE  M_tm_sitediagonal(sax(a, x), mu) = sax(a, M_tm_sitediagonal(x, mu))
<1> DEFINE s == <<1, mu>>
           t == <<1, (-mu) % P>>
<1>1. x[1] \in Complex /\ x[2] \in Complex /\ s \in Complex /\ t \in Complex
  BY Parts, TwistType
<1>2. /\ M_tm_sitediagonal(sax(a, x), mu) = <<Times(s, Times(a, x[1])), Times(t, Times(a, x[2]))>>
      /\ sax(a, M_tm_sitediagonal(x, mu)) = <<Times(a, Times(s, x[1])), Times(a, Times(t, x[2]))>>
  BY Zenon DEF M_tm_sitediagonal, sax
<1> HIDE DEF s, t
<1>3. ASSUME NEW b \in Complex, NEW c \in Complex
      PROVE  Times(b, Times(a, c)) = Times(a, Times(b, c))
  BY TimesAssociative, TimesCommutes
<1>4. /\ Times(s, Times(a, x[1])) = Times(a, Times(s, x[1]))
      /\ Times(t, Times(a, x[2])) = Times(a, Times(t, x[2]))
  BY <1>1, <1>3
<1>. QED  BY <1>2, <1>4

\* The diagonal can be inverted, because -1 is not a square, and the kernel does.
LEMMA SiteDiagonalInverse ==
    ASSUME NEW mu \in Numbers, NEW x \in Spinors, NEW y \in Spinors
    PROVE  /\ M_tm_inverse_sitediagonal(x, mu) \in Spinors
           /\ M_tm_inverse_sitediagonal(Plus(x, y), mu)
                  = Plus(M_tm_inverse_sitediagonal(x, mu), M_tm_inverse_sitediagonal(y, mu))
           /\ M_tm_sitediagonal(M_tm_inverse_sitediagonal(x, mu), mu) = x
<1> DEFINE m == Modulus(mu)
           r == <<Reciprocal[m], 0>>
           n == (-mu) % P
<1>1. mu \in Int /\ n \in Numbers
  BY ModId, TwistType
<1>2. m \in Numbers \ {0}
  BY <1>1, NotZero DEF Modulus
<1>3. Reciprocal[m] \in Numbers /\ (m * Reciprocal[m]) % P = 1
  BY <1>2, HasReciprocal
<1>4. 0 \in Numbers /\ 0 % P = 0
  BY PType, ModId DEF Numbers
<1>5. r \in Complex /\ <<m, 0>> \in Complex
  BY <1>2, <1>3, <1>4 DEF Complex
<1>6. Times(r, <<m, 0>>) = One
  <2> DEFINE u == Reciprocal[m]
  <2>1. u \in Int /\ m \in Int
    BY <1>2, <1>3, ModId
  <2> HIDE DEF u, m
  <2>2. u * m - 0 * 0 = m * u /\ u * 0 + 0 * m = 0
    BY <2>1, SMT
  <2>3. Times(<<u, 0>>, <<m, 0>>) = <<(m * u) % P, 0 % P>>
    BY <2>2, Zenon DEF Times
  <2>. QED  BY <1>3, <1>4, <2>3, Zenon DEF One, u
<1>7. \A z : M_tm_inverse_sitediagonal(z, mu) = sax(r, M_tm_sitediagonal(z, n))
  BY DEF M_tm_inverse_sitediagonal, Modulus
<1>8. M_tm_sitediagonal(M_tm_sitediagonal(x, n), mu) = sax(<<m, 0>>, x)
  BY DiagonalTwice
<1> HIDE DEF m, r, n
<1>9. M_tm_sitediagonal(x, n) \in Spinors /\ M_tm_sitediagonal(y, n) \in Spinors
  BY <1>1, SiteDiagonal
<1>10. M_tm_inverse_sitediagonal(x, mu) \in Spinors
  BY <1>5, <1>7, <1>9, Scaled
<1>11. M_tm_inverse_sitediagonal(Plus(x, y), mu)
          = Plus(M_tm_inverse_sitediagonal(x, mu), M_tm_inverse_sitediagonal(y, mu))
  <2>1. M_tm_sitediagonal(Plus(x, y), n) = Plus(M_tm_sitediagonal(x, n), M_tm_sitediagonal(y, n))
    BY <1>1, SiteDiagonal
  <2>. QED  BY <1>5, <1>7, <1>9, <2>1, Scaled
<1>12. M_tm_sitediagonal(M_tm_inverse_sitediagonal(x, mu), mu) = x
  <2>1. M_tm_sitediagonal(sax(r, M_tm_sitediagonal(x, n)), mu)
            = sax(r, M_tm_sitediagonal(M_tm_sitediagonal(x, n), mu))
    BY <1>5, <1>9, SiteDiagonalScales
  <2>2. sax(r, sax(<<m, 0>>, x)) = sax(Times(r, <<m, 0>>), x)
    BY <1>5, Scaled
  <2>3. sax(One, x) = x
    BY <1>5, Scaled
  <2>. QED  BY <1>6, <1>7, <1>8, <2>1, <2>2, <2>3
<1>. QED  BY <1>10, <1>11, <1>12

LEMMA NoTwist ==
    ASSUME NEW x \in Spinors
    PROVE  0 \in Numbers /\ M_tm_sitediagonal(x, 0) = x
<1>1. (-0) % P = 0 /\ 0 \in Numbers
  BY PType, ModId DEF Numbers
<1>2. x[1] \in Complex /\ x[2] \in Complex /\ x = <<x[1], x[2]>> /\ <<1, 0>> = One
  BY Parts DEF One
<1>3. M_tm_sitediagonal(x, 0) = <<Times(One, x[1]), Times(One, x[2])>>
  BY <1>1, <1>2, Zenon DEF M_tm_sitediagonal
<1>4. Times(One, x[1]) = x[1] /\ Times(One, x[2]) = x[2]
  BY <1>2, Ring
<1>. QED  BY <1>1, <1>2, <1>3, <1>4

------------------------------------------------------------------------------
(***************************************************************************)
(* Preconditioning.  f is the fermion action and mu its twist.             *)
(***************************************************************************)
Good(f, mu) == f \in {"wilson", "twistedmass"} /\ mu \in Numbers /\ (f = "wilson" => mu = 0)

InverseDiagonalOf(f, x, mu) == IF f = "wilson" THEN x ELSE M_tm_inverse_sitediagonal(x, mu)
DiagonalOf(f, x, mu) == IF f = "wilson" THEN x ELSE M_tm_sitediagonal(x, mu)

LEMMA Diagonals ==
    ASSUME NEW f, NEW mu, Good(f, mu), NEW x \in Spinors, NEW y \in Spinors
    PROVE  /\ InverseDiagonalOf(f, x, mu) \in Spinors /\ DiagonalOf(f, x, mu) \in Spinors
           /\ DiagonalOf(f, x, mu) = M_tm_sitediagonal(x, mu)
           /\ M_tm_sitediagonal(InverseDiagonalOf(f, x, mu), mu) = x
<1>1. CASE f = "wilson"
  BY <1>1, NoTwist DEF Good, InverseDiagonalOf, DiagonalOf
<1>2. CASE f # "wilson"
  BY <1>2, SiteDiagonal, SiteDiagonalInverse DEF Good, InverseDiagonalOf, DiagonalOf
<1>. QED  BY <1>1, <1>2

LEMMA Saxpy ==
    ASSUME NEW x \in Spinors, NEW y \in Spinors
    PROVE  /\ saxpy(One, x, y) = Plus(Neg(x), y) /\ saxpy(MinusOne, x, y) = Plus(x, y)
           /\ saxpy(One, x, y) \in Spinors
<1>1. MinusOne \in Complex /\ One \in Complex
  BY Parts
<1>2. Times(MinusOne, One) = MinusOne
  BY <1>1, Ring
<1>3. Times(MinusOne, MinusOne) = One
  <2>1. Times(MinusOne, Times(MinusOne, One)) = One
    BY <1>1, Ring
  <2>. QED  BY <1>2, <2>1
<1>4. sax(One, x) = x /\ Neg(x) \in Spinors
  BY <1>1, Scaled, SpinorSums
<1>5. saxpy(One, x, y) = Plus(Neg(x), y) /\ saxpy(MinusOne, x, y) = Plus(x, y)
  BY <1>2, <1>3, <1>4, Zenon DEF saxpy, Neg
<1>. QED  BY <1>4, <1>5, SpinorSums

LEMMA Rearrange ==
    ASSUME NEW e \in Spinors, NEW u \in Spinors, NEW v \in Spinors, NEW w \in Spinors,
           Plus(Neg(u), v) = Plus(Neg(e), w)
    PROVE  Plus(Neg(v), Plus(u, w)) = e
<1>1. Neg(u) \in Spinors /\ Neg(e) \in Spinors /\ Neg(v) \in Spinors /\ Neg(w) \in Spinors
  BY SpinorSums
<1>2. Neg(Plus(Neg(u), v)) = Plus(u, Neg(v))
  BY <1>1, SpinorSums
<1>3. Neg(Plus(Neg(e), w)) = Plus(e, Neg(w))
  BY <1>1, SpinorSums
<1>4. Plus(Neg(v), u) = Plus(e, Neg(w))
  <2>1. Plus(Neg(v), u) = Plus(u, Neg(v))
    BY <1>1, SpinorSums
  <2>. QED  BY <1>2, <1>3, <2>1
<1>5. Plus(Neg(v), Plus(u, w)) = Plus(Plus(Neg(v), u), w)
  BY <1>1, SpinorSums
<1>6. Plus(Plus(e, Neg(w)), w) = Plus(e, Plus(Neg(w), w))
  BY <1>1, SpinorSums
<1>7. Plus(Neg(w), w) = ZeroSpinor /\ Plus(e, ZeroSpinor) = e
  BY <1>1, SpinorSums
<1>. QED  BY <1>4, <1>5, <1>6, <1>7

LEMMA Cancels ==
    ASSUME NEW t \in Spinors, NEW o \in Spinors
    PROVE  Plus(Plus(t, o), Neg(t)) = o
<1>1. Neg(t) \in Spinors
  BY SpinorSums
<1>2. Plus(t, o) = Plus(o, t)
  BY SpinorSums
<1>3. Plus(Plus(o, t), Neg(t)) = Plus(o, Plus(t, Neg(t)))
  BY <1>1, SpinorSums
<1>4. Plus(t, Neg(t)) = ZeroSpinor /\ Plus(o, ZeroSpinor) = o
  BY SpinorSums
<1>. QED  BY <1>2, <1>3, <1>4

\* The even-odd decomposition: from a solution x of the preconditioned equation
\* on one parity comes one of the whole equation.
LEMMA SchurComplement ==
    ASSUME NEW f, NEW mu, Good(f, mu), NEW U \in Hopping,
           NEW o \in Spinors, NEW e \in Spinors, NEW x \in Spinors,
           NEW hopped, hopped = InverseDiagonalOf(f, dslash(U, x, "ODD"), mu),
           saxpy(One, dslash(U, hopped, "EVEN"), DiagonalOf(f, x, mu))
               = saxpy(One, e, dslash(U, InverseDiagonalOf(f, o, mu), "EVEN"))
    PROVE  /\ hopped \in Spinors /\ InverseDiagonalOf(f, o, mu) \in Spinors
           /\ FullMatrix(U, [even |-> Plus(hopped, InverseDiagonalOf(f, o, mu)),
                             odd |-> Neg(x)], mu)
                  = [even |-> o, odd |-> e]
<1> DEFINE t == dslash(U, x, "ODD")
           k == InverseDiagonalOf(f, o, mu)
           u == dslash(U, hopped, "EVEN")
           v == M_tm_sitediagonal(x, mu)
           w == dslash(U, k, "EVEN")
<1>1. mu \in Numbers /\ "ODD" \in {"EVEN", "ODD"} /\ "EVEN" \in {"EVEN", "ODD"}
  BY DEF Good
<1>2. t \in Spinors /\ dslash(U, Neg(x), "ODD") = Neg(t)
  BY <1>1, Dslash
<1>3. /\ hopped \in Spinors /\ M_tm_sitediagonal(hopped, mu) = t
      /\ k \in Spinors /\ M_tm_sitediagonal(k, mu) = o
      /\ DiagonalOf(f, x, mu) = v
  BY <1>2, Diagonals
<1>4. /\ u \in Spinors /\ w \in Spinors
      /\ dslash(U, Plus(hopped, k), "EVEN") = Plus(u, w)
  BY <1>1, <1>3, Dslash
<1>5. /\ v \in Spinors /\ M_tm_sitediagonal(Neg(x), mu) = Neg(v)
      /\ M_tm_sitediagonal(Plus(hopped, k), mu) = Plus(t, o)
  BY <1>1, <1>3, SiteDiagonal
<1>6. Plus(Neg(u), v) = Plus(Neg(e), w)
  BY <1>3, <1>4, <1>5, Saxpy
<1>7. FullMatrix(U, [even |-> Plus(hopped, k), odd |-> Neg(x)], mu)
          = [even |-> Plus(M_tm_sitediagonal(Plus(hopped, k), mu), dslash(U, Neg(x), "ODD")),
             odd |-> Plus(M_tm_sitediagonal(Neg(x), mu), dslash(U, Plus(hopped, k), "EVEN"))]
  BY Zenon DEF FullMatrix
<1> HIDE DEF t, k, u, v, w
<1>8. Plus(Plus(t, o), Neg(t)) = o
  BY <1>2, Cancels
<1>9. Plus(Neg(v), Plus(u, w)) = e
  BY <1>4, <1>5, <1>6, Rearrange
<1>10. FullMatrix(U, [even |-> Plus(hopped, k), odd |-> Neg(x)], mu) = [even |-> o, odd |-> e]
  BY <1>2, <1>4, <1>5, <1>7, <1>8, <1>9
<1>. QED  BY <1>3, <1>10 DEF k

\* The solution the program puts together is the negative of that.
LEMMA Assembled ==
    ASSUME NEW k \in Spinors, NEW h \in Spinors, NEW x \in Spinors
    PROVE  /\ sax(MinusOne, saxpy(MinusOne, h, k)) = Neg(Plus(h, k))
           /\ OnBoth(LAMBDA z : sax(MinusOne, z), [even |-> Neg(Plus(h, k)), odd |-> x])
                  = [even |-> Plus(h, k), odd |-> Neg(x)]
<1>1. saxpy(MinusOne, h, k) = Plus(h, k) /\ Plus(h, k) \in Spinors
  BY Saxpy, SpinorSums
<1>2. Neg(Neg(Plus(h, k))) = Plus(h, k)
  BY <1>1, SpinorSums
<1>3. \A z : sax(MinusOne, z) = Neg(z)
  BY DEF Neg
<1>. QED  BY <1>1, <1>2, <1>3 DEF OnBoth

LEMMA Gamma5Twice ==
    ASSUME NEW x \in Fields
    PROVE  OnBoth(gamma5, OnBoth(gamma5, x)) = x /\ OnBoth(gamma5, x) \in Fields
<1>1. x.even \in Spinors /\ x.odd \in Spinors /\ x = [even |-> x.even, odd |-> x.odd]
  BY Parts
<1>2. /\ gamma5(gamma5(x.even)) = x.even /\ gamma5(gamma5(x.odd)) = x.odd
      /\ gamma5(x.even) \in Spinors /\ gamma5(x.odd) \in Spinors
  BY <1>1, Gamma5
<1>. QED  BY <1>1, <1>2, Parts DEF OnBoth

------------------------------------------------------------------------------
(* The scalar product *)

LEMMA ProductsOfSpinors ==
    ASSUME NEW x \in Spinors, NEW y \in Spinors, NEW z \in Spinors
    PROVE  /\ scalar_product(x, y) \in Complex
           /\ scalar_product(x, Neg(y)) = Times(MinusOne, scalar_product(x, y))
           /\ scalar_product(Plus(x, y), z) = Add(scalar_product(x, z), scalar_product(y, z))
           /\ Conj(scalar_product(x, y)) = scalar_product(y, x)
           /\ scalar_product(gamma5(x), y) = scalar_product(x, gamma5(y))
<1> DEFINE a == x[1]
           b == x[2]
           c == y[1]
           d == y[2]
           e == z[1]
           f == z[2]
<1>1. /\ a \in Complex /\ b \in Complex /\ c \in Complex /\ d \in Complex
      /\ e \in Complex /\ f \in Complex /\ MinusOne \in Complex
      /\ x = <<a, b>> /\ y = <<c, d>> /\ z = <<e, f>>
  BY Parts
<1> HIDE DEF a, b, c, d, e, f
<1>2. \A t \in Complex : Conj(t) \in Complex /\ Conj(Conj(t)) = t
  BY Ring
<1>3. \A s, t \in Complex : Times(s, t) \in Complex
  BY Ring
<1>4. scalar_product(x, y) = Add(Times(Conj(a), c), Times(Conj(b), d))
  BY <1>1, Zenon DEF scalar_product
<1>5. Times(Conj(a), c) \in Complex /\ Times(Conj(b), d) \in Complex
  BY <1>1, <1>2, <1>3
<1>6. scalar_product(x, y) \in Complex
  BY <1>4, <1>5, Ring
<1>7. scalar_product(x, Neg(y)) = Times(MinusOne, scalar_product(x, y))
  <2>1. scalar_product(x, Neg(y))
           = Add(Times(Conj(a), Times(MinusOne, c)), Times(Conj(b), Times(MinusOne, d)))
    BY <1>1, Zenon DEF scalar_product, Neg, sax
  <2>2. /\ Times(Conj(a), Times(MinusOne, c)) = Times(MinusOne, Times(Conj(a), c))
        /\ Times(Conj(b), Times(MinusOne, d)) = Times(MinusOne, Times(Conj(b), d))
    BY <1>1, <1>2, SignMoves
  <2>3. Add(Times(MinusOne, Times(Conj(a), c)), Times(MinusOne, Times(Conj(b), d)))
            = Times(MinusOne, Add(Times(Conj(a), c), Times(Conj(b), d)))
    BY <1>1, <1>5, Distributive
  <2>. QED  BY <1>4, <2>1, <2>2, <2>3
<1>8. scalar_product(Plus(x, y), z) = Add(scalar_product(x, z), scalar_product(y, z))
  <2> DEFINE p == Times(Conj(a), e)
             q == Times(Conj(c), e)
             r == Times(Conj(b), f)
             s == Times(Conj(d), f)
  <2>1. p \in Complex /\ q \in Complex /\ r \in Complex /\ s \in Complex
    BY <1>1, <1>2, <1>3
  <2>2. ASSUME NEW k \in Complex, NEW l \in Complex, NEW m \in Complex
        PROVE  Times(Conj(Add(k, l)), m) = Add(Times(Conj(k), m), Times(Conj(l), m))
    <3>1. Conj(Add(k, l)) = Add(Conj(k), Conj(l)) /\ Add(Conj(k), Conj(l)) \in Complex
      BY <1>2, Ring
    <3>2. Times(Add(Conj(k), Conj(l)), m) = Times(m, Add(Conj(k), Conj(l)))
      BY <3>1, TimesCommutes
    <3>3. Times(m, Add(Conj(k), Conj(l))) = Add(Times(m, Conj(k)), Times(m, Conj(l)))
      BY <1>2, Distributive
    <3>4. Times(m, Conj(k)) = Times(Conj(k), m) /\ Times(m, Conj(l)) = Times(Conj(l), m)
      BY <1>2, TimesCommutes
    <3>. QED  BY <3>1, <3>2, <3>3, <3>4
  <2>3. Times(Conj(Add(a, c)), e) = Add(p, q) /\ Times(Conj(Add(b, d)), f) = Add(r, s)
    BY <1>1, <2>2
  <2>4. /\ scalar_product(Plus(x, y), z)
              = Add(Times(Conj(Add(a, c)), e), Times(Conj(Add(b, d)), f))
        /\ scalar_product(x, z) = Add(p, r) /\ scalar_product(y, z) = Add(q, s)
    BY <1>1, Zenon DEF scalar_product, Plus
  <2> HIDE DEF p, q, r, s
  <2>5. Add(Add(p, q), Add(r, s)) = Add(Add(p, r), Add(q, s))
    BY <2>1, FourTerms
  <2>. QED  BY <2>3, <2>4, <2>5
<1>9. Conj(scalar_product(x, y)) = scalar_product(y, x)
  <2>1. scalar_product(y, x) = Add(Times(Conj(c), a), Times(Conj(d), b))
    BY <1>1, Zenon DEF scalar_product
  <2>2. ASSUME NEW k \in Complex, NEW l \in Complex
        PROVE  Conj(Times(Conj(k), l)) = Times(Conj(l), k)
    <3>1. Conj(Times(Conj(k), l)) = Times(Conj(Conj(k)), Conj(l))
      BY <1>2, Conjugation
    <3>. QED  BY <1>2, <3>1, TimesCommutes
  <2>3. Conj(Add(Times(Conj(a), c), Times(Conj(b), d)))
            = Add(Conj(Times(Conj(a), c)), Conj(Times(Conj(b), d)))
    BY <1>5, Ring
  <2>. QED  BY <1>1, <1>4, <2>1, <2>2, <2>3
<1>10. scalar_product(gamma5(x), y) = scalar_product(x, gamma5(y))
  <2>1. /\ scalar_product(gamma5(x), y)
              = Add(Times(Conj(a), c), Times(Conj(Times(MinusOne, b)), d))
        /\ scalar_product(x, gamma5(y))
              = Add(Times(Conj(a), c), Times(Conj(b), Times(MinusOne, d)))
    BY <1>1, Zenon DEF scalar_product, gamma5
  <2>2. Conj(Times(MinusOne, b)) = Times(MinusOne, Conj(b))
    BY <1>1, Ring
  <2>3. Times(Times(MinusOne, Conj(b)), d) = Times(MinusOne, Times(Conj(b), d))
    BY <1>1, <1>2, TimesAssociative
  <2>4. Times(Conj(b), Times(MinusOne, d)) = Times(MinusOne, Times(Conj(b), d))
    BY <1>1, <1>2, SignMoves
  <2>. QED  BY <2>1, <2>2, <2>3, <2>4
<1>. QED  BY <1>6, <1>7, <1>8, <1>9, <1>10

LEMMA Adjoint ==
    ASSUME NEW A \in Hopping, NEW x \in Spinors, NEW y \in Spinors
    PROVE  scalar_product(Times2(Dagger(A), y), x) = scalar_product(y, Times2(A, x))
<1> DEFINE a == A[1][1]
           b == A[1][2]
           c == A[2][1]
           d == A[2][2]
           s == x[1]
           t == x[2]
           p == Conj(y[1])
           q == Conj(y[2])
<1>1. A[1] \in Spinors /\ A[2] \in Spinors
  BY DEF Hopping
<1>2. \A k \in Complex : Conj(k) \in Complex /\ Conj(Conj(k)) = k
  BY Ring
<1>3. /\ a \in Complex /\ b \in Complex /\ c \in Complex /\ d \in Complex
      /\ s \in Complex /\ t \in Complex /\ p \in Complex /\ q \in Complex
      /\ y[1] \in Complex /\ y[2] \in Complex
  BY <1>1, <1>2, Parts
<1>4. ASSUME NEW k \in Complex, NEW l \in Complex, NEW m \in Complex
      PROVE  /\ Conj(Add(Times(Conj(k), y[1]), Times(Conj(l), y[2]))) = Add(Times(k, p), Times(l, q))
             /\ Times(Add(Times(k, p), Times(l, q)), m) = Add(Times(p, Times(k, m)), Times(q, Times(l, m)))
  <2>1. /\ Times(Conj(k), y[1]) \in Complex /\ Times(Conj(l), y[2]) \in Complex
        /\ Times(k, p) \in Complex /\ Times(l, q) \in Complex
    BY <1>2, <1>3, RingType
  <2>2. /\ Conj(Times(Conj(k), y[1])) = Times(Conj(Conj(k)), p)
        /\ Conj(Times(Conj(l), y[2])) = Times(Conj(Conj(l)), q)
    BY <1>2, <1>3, Conjugation
  <2>3. Conj(Add(Times(Conj(k), y[1]), Times(Conj(l), y[2])))
            = Add(Conj(Times(Conj(k), y[1])), Conj(Times(Conj(l), y[2])))
    BY <2>1, Ring
  <2>4. Times(Add(Times(k, p), Times(l, q)), m) = Times(m, Add(Times(k, p), Times(l, q)))
    <3>1. Add(Times(k, p), Times(l, q)) \in Complex
      BY <2>1, Ring
    <3>. QED  BY <3>1, TimesCommutes
  <2>5. Times(m, Add(Times(k, p), Times(l, q))) = Add(Times(m, Times(k, p)), Times(m, Times(l, q)))
    BY <2>1, Distributive
  <2>6. ASSUME NEW i \in Complex, NEW j \in Complex
        PROVE  Times(m, Times(i, j)) = Times(j, Times(i, m))
    <3>1. Times(m, Times(i, j)) = Times(Times(i, j), m)
      BY RingType, TimesCommutes
    <3>2. Times(i, j) = Times(j, i)
      BY TimesCommutes
    <3>3. Times(Times(j, i), m) = Times(j, Times(i, m))
      BY TimesAssociative
    <3>. QED  BY <3>1, <3>2, <3>3
  <2>7. Times(m, Times(k, p)) = Times(p, Times(k, m)) /\ Times(m, Times(l, q)) = Times(q, Times(l, m))
    BY <1>3, <2>6
  <2>. QED  BY <1>2, <2>2, <2>3, <2>4, <2>5, <2>7
<1> DEFINE first == Add(Times(Conj(a), y[1]), Times(Conj(c), y[2]))
           second == Add(Times(Conj(b), y[1]), Times(Conj(d), y[2]))
<1>5. scalar_product(Times2(Dagger(A), y), x) = Add(Times(Conj(first), s), Times(Conj(second), t))
  BY Zenon DEF scalar_product, Times2, Dagger
<1>6. scalar_product(y, Times2(A, x))
          = Add(Times(p, Add(Times(a, s), Times(b, t))), Times(q, Add(Times(c, s), Times(d, t))))
  BY Zenon DEF scalar_product, Times2
<1> HIDE DEF a, b, c, d, s, t, p, q
<1> DEFINE i == Times(p, Times(a, s))
           j == Times(q, Times(c, s))
           k == Times(p, Times(b, t))
           l == Times(q, Times(d, t))
<1>7. Times(Conj(first), s) = Add(i, j) /\ Times(Conj(second), t) = Add(k, l)
  BY <1>3, <1>4
<1>8. /\ Times(a, s) \in Complex /\ Times(b, t) \in Complex
      /\ Times(c, s) \in Complex /\ Times(d, t) \in Complex
  BY <1>3, RingType
<1>9. i \in Complex /\ j \in Complex /\ k \in Complex /\ l \in Complex
  BY <1>3, <1>8, RingType
<1>10. /\ Times(p, Add(Times(a, s), Times(b, t))) = Add(i, k)
       /\ Times(q, Add(Times(c, s), Times(d, t))) = Add(j, l)
  BY <1>3, <1>8, Distributive
<1> HIDE DEF first, second, i, j, k, l
<1>11. Add(Add(i, j), Add(k, l)) = Add(Add(i, k), Add(j, l))
  BY <1>9, FourTerms
<1>. QED  BY <1>5, <1>6, <1>7, <1>10, <1>11

------------------------------------------------------------------------------
(* Real and imaginary parts *)

LEMMA NormIsReal ==
    ASSUME NEW z \in Complex
    PROVE  \E n \in Numbers : Times(Conj(z), z) = <<n, 0>>
<1> DEFINE a == z[1]
           b == z[2]
           c == <<a, -b>>
<1>1. a \in Int /\ b \in Int /\ -b \in Int /\ z = <<a, b>> /\ z \in IntPairs /\ Mod(z) = z
  <2>1. a \in Int /\ b \in Int /\ z \in IntPairs /\ Mod(z) = z
    BY PairType
  <2>. QED  BY <2>1 DEF Complex
<1>2. c \in IntPairs /\ ConjOf(z) = c
  BY <1>1 DEF IntPairs, ConjOf
<1>3. Conj(z) = Mod(c)
  BY <1>1, <1>2, ConjMod
<1>4. Times(Mod(c), z) = Mod(ProductOf(c, z))
  BY <1>1, <1>2, TimesMod, ProductPair
<1>5. a * a - (-b) * b = a * a + b * b /\ a * b + (-b) * a = 0 /\ a * a + b * b \in Int
  BY <1>1, SMT
<1>6. ProductOf(c, z) = <<a * a + b * b, 0>>
  BY <1>5, Zenon DEF ProductOf
<1>7. Mod(<<a * a + b * b, 0>>) = <<(a * a + b * b) % P, 0 % P>>
  BY Zenon DEF Mod
<1>8. 0 % P = 0 /\ (a * a + b * b) % P \in Numbers
  BY <1>5, PType, ModId, ModType DEF Numbers
<1>. QED  BY <1>3, <1>4, <1>6, <1>7, <1>8

\* A real number times 1 + i mu, and the same negated.
LEMMA TwistedReal ==
    ASSUME NEW mu \in Int, NEW n \in Int
    PROVE  /\ Times(<<1, mu>>, <<n, 0>>)[2] = (mu * n) % P
           /\ Times(MinusOne, Times(<<1, mu>>, <<n, 0>>))[2] = (-(mu * n)) % P
<1>1. /\ <<1, mu>> \in IntPairs /\ <<n, 0>> \in IntPairs /\ mu * n \in Int /\ -(mu * n) \in Int
      /\ MinusOne \in IntPairs /\ <<n, mu * n>> \in IntPairs
  BY PType DEF IntPairs, MinusOne
<1>2. 1 * n - mu * 0 = n /\ 1 * 0 + mu * n = mu * n
  BY SMT
<1>3. ProductOf(<<1, mu>>, <<n, 0>>) = <<n, mu * n>>
  BY <1>2, Zenon DEF ProductOf
<1>4. Times(<<1, mu>>, <<n, 0>>) = Mod(<<n, mu * n>>)
  BY <1>1, <1>3, ProductPair
<1>5. Mod(<<n, mu * n>>)[2] = (mu * n) % P
  BY DEF Mod
<1>6. Times(MinusOne, Mod(<<n, mu * n>>)) = Mod(ProductOf(MinusOne, <<n, mu * n>>))
  BY <1>1, TimesMod, ProductPair
<1>7. ProductOf(MinusOne, <<n, mu * n>>)[2] = (P - 1) * (mu * n) + 0 * n
  BY Zenon DEF ProductOf, MinusOne
<1>8. ((P - 1) * (mu * n) + 0 * n) % P = (-(mu * n)) % P
  <2> DEFINE m == mu * n
             k == (P - 1) * m + 0 * n
  <2>1. m \in Int /\ -m \in Int
    BY <1>1
  <2> HIDE DEF m
  <2>2. k = -m + P * m /\ k \in Int
    BY <2>1, PType, SMT
  <2> HIDE DEF k
  <2>3. Congruent(k, -m)
    BY <2>1, <2>2, Zenon DEF Congruent
  <2>4. k % P = (-m) % P
    BY <2>1, <2>2, <2>3, Congruence, Zenon
  <2>. QED  BY <2>4, Zenon DEF k, m
<1>9. \A w : Mod(w)[2] = w[2] % P
  BY DEF Mod
<1>10. Mod(ProductOf(MinusOne, <<n, mu * n>>))[2] = (-(mu * n)) % P
  BY <1>7, <1>8, <1>9
<1>. QED  BY <1>4, <1>5, <1>6, <1>10

\* The imaginary part of a sum.
LEMMA SecondOfSum ==
    ASSUME NEW y, NEW z, NEW a \in Int, NEW b \in Int,
           y[2] = a % P, z[2] = b % P
    PROVE  Add(y, z)[2] = (a + b) % P
<1>1. Add(y, z)[2] = ((a % P) + (b % P)) % P
  BY Zenon DEF Add
<1>2. a % P \in Int /\ b % P \in Int
  BY ModType
<1>3. ((a % P) + (b % P)) % P = (a + (b % P)) % P
  BY <1>2, ModPlus, Zenon
<1>4. (a + (b % P)) % P = (a + b) % P
  BY ModPlus, Zenon
<1>. QED  BY <1>1, <1>3, <1>4

LEMMA FirstOfSum ==
    ASSUME NEW y, NEW z, NEW a \in Int, NEW b \in Int,
           y[1] = a % P, z[1] = b % P
    PROVE  Add(y, z)[1] = (a + b) % P
<1>1. Add(y, z)[1] = ((a % P) + (b % P)) % P
  BY Zenon DEF Add
<1>2. a % P \in Int /\ b % P \in Int
  BY ModType
<1>3. ((a % P) + (b % P)) % P = (a + (b % P)) % P
  BY <1>2, ModPlus, Zenon
<1>4. (a + (b % P)) % P = (a + b) % P
  BY ModPlus, Zenon
<1>. QED  BY <1>1, <1>3, <1>4

\* <gamma5 (1 + i mu gamma5) x, x> has the imaginary part -mu <x, x>.
LEMMA TwistOfNorm ==
    ASSUME NEW mu \in Numbers, NEW x \in Spinors
    PROVE  \E n \in Int :
               /\ scalar_product(x, x)[1] = n % P
               /\ scalar_product(gamma5(M_tm_sitediagonal(x, mu)), x)[2] = (-(mu * n)) % P
<1> DEFINE a == x[1]
           b == x[2]
           s == <<1, mu>>
           t == <<1, (-mu) % P>>
           nu == (-mu) % P
<1>1. a \in Complex /\ b \in Complex /\ s \in Complex /\ t \in Complex /\ MinusOne \in Complex
  BY Parts, TwistType
<1>2. PICK n \in Numbers : Times(Conj(a), a) = <<n, 0>>
  BY <1>1, NormIsReal
<1>3. PICK m \in Numbers : Times(Conj(b), b) = <<m, 0>>
  BY <1>1, NormIsReal
<1>4. n \in Int /\ m \in Int /\ mu \in Int /\ nu \in Int /\ n % P = n /\ m % P = m
  BY ModId, TwistType
<1>5. Conj(s) = t /\ Conj(t) = s
  <2>1. Conj(s) = <<1, (-mu) % P>> /\ Conj(t) = <<1, (-((-mu) % P)) % P>>
    BY Zenon DEF Conj
  <2>. QED  BY <2>1, TwistType
<1>6. scalar_product(x, x)[1] = (n + m) % P
  <2>1. scalar_product(x, x) = Add(Times(Conj(a), a), Times(Conj(b), b))
    BY Zenon DEF scalar_product
  <2>2. <<n, 0>>[1] = n % P /\ <<m, 0>>[1] = m % P
    BY <1>4
  <2>. QED  BY <1>2, <1>3, <1>4, <2>1, <2>2, FirstOfSum
<1>7. scalar_product(gamma5(M_tm_sitediagonal(x, mu)), x)
          = Add(Times(Conj(Times(s, a)), a), Times(Conj(Times(MinusOne, Times(t, b))), b))
  BY Zenon DEF scalar_product, gamma5, M_tm_sitediagonal
<1>8. Conj(a) \in Complex /\ Conj(b) \in Complex /\ Times(t, b) \in Complex
      /\ <<n, 0>> \in Complex /\ <<m, 0>> \in Complex
  BY <1>1, <1>2, <1>3, RingType
<1> HIDE DEF a, b, s, t
<1>9. Times(Conj(Times(s, a)), a) = Times(t, <<n, 0>>)
  <2>1. Conj(Times(s, a)) = Times(t, Conj(a))
    BY <1>1, <1>5, Conjugation
  <2>2. Times(Times(t, Conj(a)), a) = Times(t, Times(Conj(a), a))
    BY <1>1, <1>8, TimesAssociative
  <2>. QED  BY <1>2, <2>1, <2>2
<1>10. Times(Conj(Times(MinusOne, Times(t, b))), b) = Times(MinusOne, Times(s, <<m, 0>>))
  <2>1. Conj(Times(MinusOne, Times(t, b))) = Times(MinusOne, Conj(Times(t, b)))
    BY <1>8, Ring
  <2>2. Conj(Times(t, b)) = Times(s, Conj(b))
    BY <1>1, <1>5, Conjugation
  <2>3. Times(s, Conj(b)) \in Complex
    BY <1>1, <1>8, RingType
  <2>4. Times(Times(MinusOne, Times(s, Conj(b))), b) = Times(MinusOne, Times(Times(s, Conj(b)), b))
    BY <1>1, <2>3, TimesAssociative
  <2>5. Times(Times(s, Conj(b)), b) = Times(s, Times(Conj(b), b))
    BY <1>1, <1>8, TimesAssociative
  <2>. QED  BY <1>3, <2>1, <2>2, <2>4, <2>5
<1>11. Times(t, <<n, 0>>)[2] = (-(mu * n)) % P
  <2>1. Times(<<1, nu>>, <<n, 0>>)[2] = (nu * n) % P
    BY <1>4, TwistedReal
  <2>2. (nu * n) % P = ((-mu) * n) % P
    <3>1. -mu \in Int
      BY <1>4
    <3>. QED  BY <1>4, <3>1, ModTimes, Zenon
  <2>3. (-mu) * n = -(mu * n)
    BY <1>4, SMT
  <2>. QED  BY <2>1, <2>2, <2>3, Zenon DEF t
<1>12. Times(MinusOne, Times(s, <<m, 0>>))[2] = (-(mu * m)) % P
  BY <1>4, TwistedReal DEF s
<1>13. -(mu * n) \in Int /\ -(mu * m) \in Int /\ n + m \in Int
       /\ -(mu * n) + -(mu * m) = -(mu * (n + m))
  BY <1>4, SMT
<1>14. scalar_product(gamma5(M_tm_sitediagonal(x, mu)), x)[2] = (-(mu * (n + m))) % P
  <2>1. Add(Times(t, <<n, 0>>), Times(MinusOne, Times(s, <<m, 0>>)))[2]
            = (-(mu * n) + -(mu * m)) % P
    BY <1>11, <1>12, <1>13, SecondOfSum
  <2>. QED  BY <1>7, <1>9, <1>10, <1>13, <2>1
<1>. QED  BY <1>6, <1>13, <1>14

------------------------------------------------------------------------------
(* The condensate *)

\* Hopping forth and back contributes nothing imaginary: gamma5 times the
\* hopping term is hermitian.
LEMMA HoppingIsReal ==
    ASSUME NEW U \in Hopping, NEW x \in Spinors, NEW y \in Spinors
    PROVE  LET there == scalar_product(gamma5(dslash(U, y, "ODD")), x)
               back == scalar_product(gamma5(dslash(U, x, "EVEN")), y)
           IN there \in Complex /\ back \in Complex /\ Add(there, back)[2] = 0 % P
<1> DEFINE z == scalar_product(gamma5(y), Times2(U, x))
<1>1. /\ gamma5(y) \in Spinors /\ Dagger(U) \in Hopping /\ Times2(U, x) \in Spinors
      /\ Times2(Dagger(U), gamma5(y)) \in Spinors
  BY Gamma5, DaggerType, MatrixLinear
<1>2. z \in Complex
  BY <1>1, ProductsOfSpinors
<1>3. scalar_product(gamma5(dslash(U, y, "ODD")), x) = z
  <2>1. gamma5(dslash(U, y, "ODD")) = Times2(Dagger(U), gamma5(y))
    BY <1>1, Gamma5 DEF dslash
  <2>. QED  BY <1>1, <2>1, Adjoint
<1>4. scalar_product(gamma5(dslash(U, x, "EVEN")), y) = Conj(z)
  <2>1. dslash(U, x, "EVEN") = Times2(U, x)
    BY DEF dslash
  <2>2. scalar_product(gamma5(Times2(U, x)), y) = scalar_product(Times2(U, x), gamma5(y))
    BY <1>1, ProductsOfSpinors
  <2>3. Conj(z) = scalar_product(Times2(U, x), gamma5(y))
    BY <1>1, ProductsOfSpinors
  <2>. QED  BY <2>1, <2>2, <2>3
<1> HIDE DEF z
<1>5. Add(z, Conj(z))[2] = 0 % P /\ Conj(z) \in Complex
  <2>1. z[2] \in Int /\ z[2] % P = z[2] /\ -z[2] \in Int /\ z[2] + -z[2] = 0
    BY <1>2, PairType, ModId
  <2>2. Conj(z)[2] = (-z[2]) % P
    BY DEF Conj
  <2>3. Add(z, Conj(z))[2] = (z[2] + -z[2]) % P
    BY <2>1, <2>2, SecondOfSum
  <2>. QED  BY <1>2, <2>1, <2>3, Ring
<1>. QED  BY <1>2, <1>3, <1>4, <1>5

\* For M phi = xi the imaginary part of <gamma5 xi, phi> is -mu <phi, phi>.
LEMMA TwistedCondensate ==
    ASSUME NEW U \in Hopping, NEW mu \in Numbers, NEW phi \in Fields
    PROVE  (-(FieldProduct(OnBoth(gamma5, FullMatrix(U, phi, mu)), phi)[2])) % P
               = (mu * FieldProduct(phi, phi)[1]) % P
<1> DEFINE x == phi.even
           y == phi.odd
           Mx == M_tm_sitediagonal(x, mu)
           My == M_tm_sitediagonal(y, mu)
           Dy == dslash(U, y, "ODD")
           Dx == dslash(U, x, "EVEN")
           a == scalar_product(gamma5(Mx), x)
           b == scalar_product(gamma5(Dy), x)
           c == scalar_product(gamma5(My), y)
           d == scalar_product(gamma5(Dx), y)
<1>1. x \in Spinors /\ y \in Spinors /\ "ODD" \in {"EVEN", "ODD"} /\ "EVEN" \in {"EVEN", "ODD"}
  BY Parts
<1>2. Mx \in Spinors /\ My \in Spinors /\ Dx \in Spinors /\ Dy \in Spinors
  BY <1>1, SiteDiagonal, Dslash
<1>3. /\ gamma5(Mx) \in Spinors /\ gamma5(My) \in Spinors
      /\ gamma5(Dx) \in Spinors /\ gamma5(Dy) \in Spinors
      /\ gamma5(Plus(Mx, Dy)) = Plus(gamma5(Mx), gamma5(Dy))
      /\ gamma5(Plus(My, Dx)) = Plus(gamma5(My), gamma5(Dx))
  BY <1>2, Gamma5
<1>4. FieldProduct(OnBoth(gamma5, FullMatrix(U, phi, mu)), phi)
          = Add(scalar_product(gamma5(Plus(Mx, Dy)), x), scalar_product(gamma5(Plus(My, Dx)), y))
  BY DEF FieldProduct, OnBoth, FullMatrix
<1>5. PICK n \in Int : scalar_product(x, x)[1] = n % P /\ a[2] = (-(mu * n)) % P
  BY <1>1, TwistOfNorm
<1>6. PICK m \in Int : scalar_product(y, y)[1] = m % P /\ c[2] = (-(mu * m)) % P
  BY <1>1, TwistOfNorm
<1>7. b \in Complex /\ d \in Complex /\ Add(b, d)[2] = 0 % P
  BY <1>1, HoppingIsReal
<1> HIDE DEF x, y, Mx, My, Dx, Dy
<1>8. a \in Complex /\ c \in Complex
  BY <1>1, <1>3, ProductsOfSpinors
<1>9. /\ scalar_product(gamma5(Plus(Mx, Dy)), x) = Add(a, b)
      /\ scalar_product(gamma5(Plus(My, Dx)), y) = Add(c, d)
  BY <1>1, <1>3, ProductsOfSpinors
<1>10. FieldProduct(phi, phi)[1] = (n + m) % P
  <2>1. FieldProduct(phi, phi) = Add(scalar_product(x, x), scalar_product(y, y))
    BY DEF FieldProduct, x, y
  <2>. QED  BY <1>5, <1>6, <2>1, FirstOfSum
<1> HIDE DEF a, b, c, d
<1>11. mu \in Int /\ P \in Int
  BY ModId, PType
<1> DEFINE k == mu * (n + m)
<1>12. /\ k \in Int /\ -k \in Int /\ -(-k) = k /\ n + m \in Int
       /\ -(mu * n) \in Int /\ -(mu * m) \in Int /\ -(mu * n) + -(mu * m) = -k /\ -k + 0 = -k
  BY <1>11, SMT
<1> HIDE DEF k
<1>13. Add(Add(a, b), Add(c, d))[2] = (-k) % P
  <2>1. Add(Add(a, b), Add(c, d)) = Add(Add(a, c), Add(b, d))
    BY <1>7, <1>8, FourTerms
  <2>2. Add(a, c)[2] = (-k) % P
    BY <1>5, <1>6, <1>12, SecondOfSum
  <2>3. Add(Add(a, c), Add(b, d))[2] = (-k + 0) % P
    BY <1>7, <1>12, <2>2, SecondOfSum
  <2>. QED  BY <1>12, <2>1, <2>3
<1>14. (-((-k) % P)) % P = (-(-k)) % P
  BY <1>12, ModPlus, Zenon
<1>15. (mu * ((n + m) % P)) % P = (mu * (n + m)) % P
  BY <1>11, <1>12, ModTimes, Zenon
<1>. QED  BY <1>4, <1>9, <1>10, <1>12, <1>13, <1>14, <1>15, Zenon DEF k

NegField(x) == OnBoth(Neg, x)

LEMMA ProductsOfFields ==
    ASSUME NEW x \in Fields, NEW y \in Fields
    PROVE  /\ NegField(y) \in Fields /\ NegField(NegField(y)) = y
           /\ FieldProduct(x, y) \in Complex
           /\ FieldProduct(x, NegField(y)) = Times(MinusOne, FieldProduct(x, y))
           /\ FieldProduct(NegField(y), NegField(y)) = FieldProduct(y, y)
<1>1. /\ x.even \in Spinors /\ x.odd \in Spinors /\ y.even \in Spinors /\ y.odd \in Spinors
      /\ y = [even |-> y.even, odd |-> y.odd] /\ MinusOne \in Complex
  BY Parts
<1>2. NegField(y) = [even |-> Neg(y.even), odd |-> Neg(y.odd)]
  BY DEF NegField, OnBoth
<1>3. /\ Neg(y.even) \in Spinors /\ Neg(y.odd) \in Spinors
      /\ Neg(Neg(y.even)) = y.even /\ Neg(Neg(y.odd)) = y.odd
  BY <1>1, SpinorSums
<1>4. NegField(y) \in Fields /\ NegField(NegField(y)) = y
  BY <1>1, <1>2, <1>3, Parts DEF NegField, OnBoth
<1>5. /\ scalar_product(x.even, y.even) \in Complex /\ scalar_product(x.odd, y.odd) \in Complex
      /\ scalar_product(x.even, Neg(y.even)) = Times(MinusOne, scalar_product(x.even, y.even))
      /\ scalar_product(x.odd, Neg(y.odd)) = Times(MinusOne, scalar_product(x.odd, y.odd))
  BY <1>1, ProductsOfSpinors
<1>6. FieldProduct(x, y) \in Complex
  BY <1>5, Ring DEF FieldProduct
<1>7. FieldProduct(x, NegField(y)) = Times(MinusOne, FieldProduct(x, y))
  BY <1>1, <1>2, <1>5, Distributive DEF FieldProduct
<1>8. ASSUME NEW z \in Spinors
      PROVE  scalar_product(Neg(z), Neg(z)) = scalar_product(z, z)
  <2>1. Neg(z) \in Spinors
    BY SpinorSums
  <2>2. scalar_product(Neg(z), Neg(z)) = Times(MinusOne, scalar_product(Neg(z), z))
    BY <2>1, ProductsOfSpinors
  <2>3. scalar_product(Neg(z), z) = Conj(scalar_product(z, Neg(z)))
    BY <2>1, ProductsOfSpinors
  <2>4. scalar_product(z, Neg(z)) = Times(MinusOne, scalar_product(z, z))
    BY ProductsOfSpinors
  <2>5. scalar_product(z, z) \in Complex /\ Conj(scalar_product(z, z)) = scalar_product(z, z)
    BY ProductsOfSpinors
  <2>6. Conj(Times(MinusOne, scalar_product(z, z))) = Times(MinusOne, Conj(scalar_product(z, z)))
    BY <2>5, Ring
  <2>7. Times(MinusOne, Times(MinusOne, scalar_product(z, z))) = scalar_product(z, z)
    BY <2>5, Ring
  <2>. QED  BY <2>2, <2>3, <2>4, <2>5, <2>6, <2>7
<1>9. FieldProduct(NegField(y), NegField(y)) = FieldProduct(y, y)
  BY <1>1, <1>2, <1>8 DEF FieldProduct
<1>. QED  BY <1>4, <1>6, <1>7, <1>9

\* The normalisation P - 1 compensates for the sign.
LEMMA SignCompensated ==
    ASSUME NEW x \in Fields, NEW y \in Fields
    PROVE  /\ (FieldProduct(x, y)[1] * (P - 1)) % P = FieldProduct(x, NegField(y))[1]
           /\ (-(FieldProduct(x, y)[2] * (P - 1))) % P = (-(FieldProduct(x, NegField(y))[2])) % P
           /\ (FieldProduct(x, y)[1] * 1) % P = FieldProduct(x, y)[1]
           /\ -(FieldProduct(x, y)[2] * 1) = -(FieldProduct(x, y)[2])
<1> DEFINE z == FieldProduct(x, y)
           a == z[1]
           b == z[2]
<1>1. z \in Complex /\ FieldProduct(x, NegField(y)) = Times(MinusOne, z)
  BY ProductsOfFields
<1>2. a \in Int /\ b \in Int /\ a \in Numbers /\ a % P = a
  BY <1>1, PairType, ModId
<1>3. /\ Times(MinusOne, z)[1] = ((P - 1) * a - 0 * b) % P
      /\ Times(MinusOne, z)[2] = ((P - 1) * b + 0 * a) % P
  BY Zenon DEF Times, MinusOne
<1> HIDE DEF z, a, b
<1>4. /\ (P - 1) * a - 0 * b = a * (P - 1) /\ (P - 1) * b + 0 * a = b * (P - 1)
      /\ a * 1 = a /\ b * 1 = b /\ b * (P - 1) \in Int
  BY <1>2, PType, SMT
<1>5. (-((b * (P - 1)) % P)) % P = (-(b * (P - 1))) % P
  BY <1>4, ModPlus, Zenon
<1>. QED  BY <1>1, <1>2, <1>3, <1>4, <1>5, Zenon DEF z, a, b

------------------------------------------------------------------------------
(***************************************************************************)
(* The inductive invariant.  The operators of the model read the           *)
(* parameters of the run; here these are an argument p.                    *)
(***************************************************************************)
TwistOf(p) == IF p.fermact = "twistedmass" THEN p.mubar ELSE 0
Inverse(p, x) == InverseDiagonalOf(p.fermact, x, TwistOf(p))

\* The preconditioned matrix and its right-hand side.
HalfMatrix(p, U, x) ==
    saxpy(One, dslash(U, Inverse(p, dslash(U, x, "ODD")), "EVEN"),
          DiagonalOf(p.fermact, x, TwistOf(p)))
HalfSource(p, U, b) == saxpy(One, b.odd, dslash(U, Inverse(p, b.even), "EVEN"))

Freed(p, r) == IF p.useEo THEN NegField(r) ELSE r
Solved(p, U, b, r) == FullMatrix(U, Freed(p, r), TwistOf(p)) = b

CondensateOf(p, b, r) ==
    IF p.fermact = "wilson" THEN FieldProduct(b, Freed(p, r))[1]
    ELSE (p.mubar * FieldProduct(Freed(p, r), Freed(p, r))[1]) % P

HalvesPrepared ==
    /\ pc \in {"prepare", "retry", "odd"} => prm.useEo
    /\ pc \in {"solve", "retry", "odd"} /\ prm.useEo => eo.source_odd = source.even
    /\ pc = "solve" /\ prm.useEo => eo.source_even = HalfSource(prm, gaugefield, source)
    /\ pc = "retry" => eo.source_even = gamma5(HalfSource(prm, gaugefield, source))

SourcesCounted ==
    pc \in {"check", "smear", "prepare", "solve", "retry", "odd", "observe"} =>
        Len(chiralCondensate) < prm.numberOfSources

VersionChecked ==
    pc \notin {"check", "aborted"} /\ prm.pbp_version = "tm_one_end_trick" =>
        prm.fermact = "twistedmass"

IInv ==
    /\ TypeOK
    /\ HalvesPrepared
    /\ SourcesCounted
    /\ VersionChecked
    /\ pc = "odd" =>
          HalfMatrix(prm, gaugefield, eo.result_eo) = HalfSource(prm, gaugefield, source)
    /\ pc = "observe" => Solved(prm, gaugefield, source, result)
    /\ pc = "observed" =>
          /\ chiralCondensate # << >>
          /\ chiralCondensate[Len(chiralCondensate)] = CondensateOf(prm, source, result)

LEMMA Parameters ==
    ASSUME TypeOK
    PROVE  /\ Good(prm.fermact, TwistOf(prm)) /\ Good(prm.fermact, (-TwistOf(prm)) % P)
           /\ prm.mubar \in Numbers /\ TwistOf(prm) \in Numbers /\ (-TwistOf(prm)) % P \in Numbers
           /\ prm.useEo \in BOOLEAN /\ prm.numberOfSources \in Nat \ {0}
           /\ gaugefield \in Hopping
           /\ source \in Fields /\ source.even \in Spinors /\ source.odd \in Spinors
           /\ Twist = TwistOf(prm)
           /\ prm.fermact # "wilson" => TwistOf(prm) = prm.mubar
<1>1. prm \in RunParameters /\ gaugefield \in Spinors \X Spinors /\ source \in Fields
  BY InversionAssumption DEF TypeOK, InversionAssumption
<1>2. /\ prm.fermact \in {"wilson", "twistedmass"} /\ prm.mubar \in Numbers
      /\ prm.useEo \in BOOLEAN /\ prm.numberOfSources \in Nat \ {0}
  BY <1>1 DEF RunParameters
<1>3. 0 \in Numbers /\ (-0) % P = 0
  BY PType, ModId DEF Numbers
<1>4. /\ TwistOf(prm) \in Numbers
      /\ prm.fermact = "wilson" => TwistOf(prm) = 0
      /\ prm.fermact # "wilson" => TwistOf(prm) = prm.mubar
  BY <1>2, <1>3 DEF TwistOf
<1>5. (-TwistOf(prm)) % P \in Numbers
  BY <1>4, TwistType, Zenon
<1>6. prm.fermact = "wilson" => (-TwistOf(prm)) % P = 0
  BY <1>3, <1>4, Zenon
<1>. QED  BY <1>1, <1>2, <1>4, <1>5, <1>6, Parts DEF Good, Hopping, Twist, TwistOf

LEMMA InverseType ==
    ASSUME TypeOK, NEW x \in Spinors
    PROVE  InverseDiagonal(x) = Inverse(prm, x) /\ Inverse(prm, x) \in Spinors
<1>1. Good(prm.fermact, TwistOf(prm)) /\ Twist = TwistOf(prm)
  BY Parameters
<1>2. InverseDiagonalOf(prm.fermact, x, TwistOf(prm)) \in Spinors
  BY <1>1, Diagonals
<1>. QED  BY <1>1, <1>2 DEF Inverse, InverseDiagonal, InverseDiagonalOf

LEMMA PreconditionedType ==
    ASSUME TypeOK, NEW mu, Good(prm.fermact, mu), NEW x \in Spinors
    PROVE  /\ Preconditioned(gaugefield, x, mu)
                  = saxpy(One, dslash(gaugefield,
                                      InverseDiagonalOf(prm.fermact, dslash(gaugefield, x, "ODD"), mu),
                                      "EVEN"),
                          DiagonalOf(prm.fermact, x, mu))
           /\ Preconditioned(gaugefield, x, mu) \in Spinors
           /\ Q_eo(gaugefield, x, mu) = gamma5(Preconditioned(gaugefield, x, mu))
<1> DEFINE there == dslash(gaugefield, x, "ODD")
           i == InverseDiagonalOf(prm.fermact, there, mu)
<1>1. gaugefield \in Hopping /\ "ODD" \in {"EVEN", "ODD"} /\ "EVEN" \in {"EVEN", "ODD"}
  BY Parameters
<1>2. there \in Spinors
  BY <1>1, Dslash
<1>3. i \in Spinors /\ DiagonalOf(prm.fermact, x, mu) \in Spinors
  BY <1>2, Diagonals
<1>4. dslash(gaugefield, i, "EVEN") \in Spinors
  BY <1>1, <1>3, Dslash
<1>5. saxpy(One, dslash(gaugefield, i, "EVEN"), DiagonalOf(prm.fermact, x, mu)) \in Spinors
  BY <1>3, <1>4, Saxpy
<1>6. Preconditioned(gaugefield, x, mu)
          = saxpy(One, dslash(gaugefield, i, "EVEN"), DiagonalOf(prm.fermact, x, mu))
  BY DEF Preconditioned, ThereAndBack, Diagonal, InverseDiagonalOf, DiagonalOf
<1>7. Q_eo(gaugefield, x, mu) = gamma5(Preconditioned(gaugefield, x, mu))
  BY DEF Q_eo, saxpy_AND_gamma5_eo, Preconditioned
<1>. QED  BY <1>5, <1>6, <1>7

LEMMA HalfOperators ==
    ASSUME TypeOK, NEW x \in Spinors
    PROVE  /\ Aee(gaugefield, x) = HalfMatrix(prm, gaugefield, x)
           /\ Qplus_eo(gaugefield, x) = gamma5(HalfMatrix(prm, gaugefield, x))
           /\ HalfMatrix(prm, gaugefield, x) \in Spinors
           /\ Qminus_eo(gaugefield, x) \in Spinors
<1>1. /\ Good(prm.fermact, TwistOf(prm)) /\ Good(prm.fermact, (-TwistOf(prm)) % P)
      /\ Twist = TwistOf(prm)
  BY Parameters
<1>2. /\ Preconditioned(gaugefield, x, TwistOf(prm)) = HalfMatrix(prm, gaugefield, x)
      /\ Preconditioned(gaugefield, x, TwistOf(prm)) \in Spinors
      /\ Q_eo(gaugefield, x, TwistOf(prm)) = gamma5(Preconditioned(gaugefield, x, TwistOf(prm)))
  BY <1>1, PreconditionedType DEF HalfMatrix, Inverse
<1>3. Q_eo(gaugefield, x, (-TwistOf(prm)) % P) \in Spinors
  <2>1. /\ Preconditioned(gaugefield, x, (-TwistOf(prm)) % P) \in Spinors
        /\ Q_eo(gaugefield, x, (-TwistOf(prm)) % P)
              = gamma5(Preconditioned(gaugefield, x, (-TwistOf(prm)) % P))
    BY <1>1, PreconditionedType
  <2>. QED  BY <2>1, Gamma5
<1>. QED  BY <1>1, <1>2, <1>3 DEF Aee, Qplus_eo, Qminus_eo

LEMMA HalfSourceType ==
    ASSUME TypeOK
    PROVE  HalfSource(prm, gaugefield, source) \in Spinors
<1>1. /\ gaugefield \in Hopping /\ source.even \in Spinors /\ source.odd \in Spinors
      /\ "EVEN" \in {"EVEN", "ODD"}
  BY Parameters
<1>2. Inverse(prm, source.even) \in Spinors
  BY <1>1, InverseType
<1>3. dslash(gaugefield, Inverse(prm, source.even), "EVEN") \in Spinors
  BY <1>1, <1>2, Dslash
<1>. QED  BY <1>1, <1>3, Saxpy DEF HalfSource

LEMMA FullMatrixType ==
    ASSUME NEW U \in Hopping, NEW mu \in Numbers, NEW x \in Fields
    PROVE  FullMatrix(U, x, mu) \in Fields
<1>1. /\ x.even \in Spinors /\ x.odd \in Spinors
      /\ "ODD" \in {"EVEN", "ODD"} /\ "EVEN" \in {"EVEN", "ODD"}
  BY Parts
<1>2. /\ M_tm_sitediagonal(x.even, mu) \in Spinors /\ M_tm_sitediagonal(x.odd, mu) \in Spinors
      /\ dslash(U, x.odd, "ODD") \in Spinors /\ dslash(U, x.even, "EVEN") \in Spinors
  BY <1>1, SiteDiagonal, Dslash
<1>. QED  BY <1>2, SpinorSums, Parts DEF FullMatrix

------------------------------------------------------------------------------
(* What the solutions are *)

\* The inversion without preconditioning, by CG.
LEMMA CgSolves ==
    ASSUME TypeOK, NEW x \in Fields,
           QplusQminus(gaugefield, x) = OnBoth(gamma5, source)
    PROVE  /\ Qminus(gaugefield, x) \in Fields
           /\ FullMatrix(gaugefield, Qminus(gaugefield, x), TwistOf(prm)) = source
<1> DEFINE r == Qminus(gaugefield, x)
<1>1. /\ gaugefield \in Hopping /\ TwistOf(prm) \in Numbers /\ (-TwistOf(prm)) % P \in Numbers
      /\ Twist = TwistOf(prm) /\ source \in Fields
  BY Parameters
<1>2. r \in Fields
  <2>1. FullMatrix(gaugefield, x, (-TwistOf(prm)) % P) \in Fields
    BY <1>1, FullMatrixType
  <2>. QED  BY <1>1, <2>1, Gamma5Twice DEF Qminus
<1>3. OnBoth(gamma5, FullMatrix(gaugefield, r, TwistOf(prm))) = OnBoth(gamma5, source)
  <2>1. Qplus(gaugefield, r) = OnBoth(gamma5, source)
    BY DEF QplusQminus
  <2>2. Qplus(gaugefield, r) = OnBoth(gamma5, FullMatrix(gaugefield, r, TwistOf(prm)))
    BY <1>1 DEF Qplus
  <2>. QED  BY <2>1, <2>2
<1> HIDE DEF r
<1>4. FullMatrix(gaugefield, r, TwistOf(prm)) \in Fields
  BY <1>1, <1>2, FullMatrixType
<1>5. FullMatrix(gaugefield, r, TwistOf(prm)) = source
  BY <1>1, <1>3, <1>4, Gamma5Twice
<1>. QED  BY <1>2, <1>5 DEF r

\* The retry with CG solves the equation BiCGstab was given.
LEMMA RetrySolves ==
    ASSUME TypeOK, NEW y \in Spinors, NEW b \in Spinors,
           QplusQminus_eo(gaugefield, y) = gamma5(b)
    PROVE  /\ Qminus_eo(gaugefield, y) \in Spinors
           /\ HalfMatrix(prm, gaugefield, Qminus_eo(gaugefield, y)) = b
<1> DEFINE x == Qminus_eo(gaugefield, y)
<1>1. x \in Spinors
  BY HalfOperators
<1>2. Qplus_eo(gaugefield, x) = gamma5(b)
  BY DEF QplusQminus_eo
<1> HIDE DEF x
<1>3. gamma5(HalfMatrix(prm, gaugefield, x)) = gamma5(b) /\ HalfMatrix(prm, gaugefield, x) \in Spinors
  BY <1>1, <1>2, HalfOperators
<1>4. HalfMatrix(prm, gaugefield, x) = b
  BY <1>3, Gamma5
<1>. QED  BY <1>1, <1>4 DEF x

\* The field put together from both parities.
LEMMA OddSolutionSolves ==
    ASSUME TypeOK, prm.useEo, eo.source_odd = source.even,
           HalfMatrix(prm, gaugefield, eo.result_eo) = HalfSource(prm, gaugefield, source)
    PROVE  LET r == convert_from_eoprec(OddSolution, eo.result_eo)
           IN r \in Fields /\ Solved(prm, gaugefield, source, r)
<1> DEFINE x == eo.result_eo
           h == Inverse(prm, dslash(gaugefield, x, "ODD"))
           k == Inverse(prm, source.even)
           r == [even |-> Neg(Plus(h, k)), odd |-> x]
           o == source.even
           e == source.odd
<1>1. /\ gaugefield \in Hopping /\ o \in Spinors /\ e \in Spinors /\ x \in Spinors
      /\ Good(prm.fermact, TwistOf(prm)) /\ "ODD" \in {"EVEN", "ODD"}
  BY Parameters DEF TypeOK
<1>2. source = [even |-> o, odd |-> e]
  BY Parameters, Parts
<1>3. dslash(gaugefield, x, "ODD") \in Spinors
  BY <1>1, Dslash
<1>4. h \in Spinors /\ k \in Spinors
  BY <1>1, <1>3, InverseType
<1>5. saxpy(One, dslash(gaugefield, h, "EVEN"), DiagonalOf(prm.fermact, x, TwistOf(prm)))
          = saxpy(One, e, dslash(gaugefield, k, "EVEN"))
  BY DEF HalfMatrix, HalfSource
<1>6. convert_from_eoprec(OddSolution, x) = r
  <2>1. OddSolution = sax(MinusOne, saxpy(MinusOne, h, k))
    <3>1. InverseDiagonal(dslash(gaugefield, x, "ODD")) = h /\ InverseDiagonal(eo.source_odd) = k
      BY <1>1, <1>3, InverseType
    <3>. QED  BY <3>1 DEF OddSolution
  <2>2. OddSolution = Neg(Plus(h, k))
    BY <1>1, <1>4, <2>1, Assembled
  <2>. QED  BY <2>2 DEF convert_from_eoprec
<1>7. FullMatrix(gaugefield, [even |-> Plus(h, k), odd |-> Neg(x)], TwistOf(prm)) = source
  <2>1. /\ h = InverseDiagonalOf(prm.fermact, dslash(gaugefield, x, "ODD"), TwistOf(prm))
        /\ k = InverseDiagonalOf(prm.fermact, o, TwistOf(prm))
    BY DEF Inverse
  <2> HIDE DEF h, k, o, e, x
  <2>. QED  BY <1>1, <1>2, <1>5, <2>1, SchurComplement
<1>8. Plus(h, k) \in Spinors /\ Neg(Plus(h, k)) \in Spinors
  BY <1>4, SpinorSums
<1>9. r \in Fields /\ NegField(r) = [even |-> Plus(h, k), odd |-> Neg(x)]
  <2>1. Neg(Neg(Plus(h, k))) = Plus(h, k)
    BY <1>8, SpinorSums
  <2>. QED  BY <1>1, <1>8, <2>1, Parts DEF NegField, OnBoth
<1> HIDE DEF r, h, k
<1>10. Solved(prm, gaugefield, source, r)
  BY <1>7, <1>9 DEF Solved, Freed
<1>. QED  BY <1>6, <1>9, <1>10

\* What either version of the condensate computes from a solution.
Measured ==
    IF prm.pbp_version = "tm_one_end_trick"
    THEN flavour_doublet_chiral_condensate_tm(result)
    ELSE flavourChiralCondensate_std(result, source)

LEMMA MeasuredIsCondensate ==
    ASSUME TypeOK, Solved(prm, gaugefield, source, result),
           prm.pbp_version = "tm_one_end_trick" => prm.fermact = "twistedmass"
    PROVE  Measured = CondensateOf(prm, source, result) /\ Measured \in Numbers
<1> DEFINE phi == Freed(prm, result)
           mu == prm.mubar
           s == OnBoth(gamma5, source)
<1>1. /\ mu \in Numbers /\ mu \in Int /\ prm.useEo \in BOOLEAN /\ source \in Fields
      /\ gaugefield \in Hopping
      /\ prm.fermact # "wilson" => TwistOf(prm) = mu
  BY Parameters, ModId
<1>2. result \in Fields /\ s \in Fields
  BY <1>1, Gamma5Twice DEF TypeOK
<1>3. NegField(result) \in Fields /\ phi \in Fields
  BY <1>2, ProductsOfFields DEF Freed
<1>4. FieldProduct(phi, phi) = FieldProduct(result, result) /\ FieldProduct(phi, phi) \in Complex
  BY <1>2, <1>3, ProductsOfFields DEF Freed
<1>5. /\ (FieldProduct(source, result)[1] * norm_std) % P = FieldProduct(source, phi)[1]
      /\ (-FieldProduct(s, result)[2] * norm_std) % P = (-(FieldProduct(s, phi)[2])) % P
  <2>1. CASE prm.useEo
    <3>1. norm_std = P - 1 /\ phi = NegField(result)
      BY <2>1 DEF norm_std, Freed
    <3>. QED  BY <1>1, <1>2, <3>1, SignCompensated
  <2>2. CASE ~prm.useEo
    <3>1. norm_std = 1 /\ phi = result
      BY <2>2 DEF norm_std, Freed
    <3>. QED  BY <1>1, <1>2, <3>1, SignCompensated
  <2>. QED  BY <2>1, <2>2
<1>6. FieldProduct(source, phi)[1] \in Numbers /\ FieldProduct(phi, phi)[1] \in Int
  <2>1. FieldProduct(source, phi) \in Complex
    BY <1>1, <1>3, ProductsOfFields
  <2>. QED  BY <1>4, <2>1, PairType
<1>7. (mu * FieldProduct(phi, phi)[1]) % P \in Numbers
  <2>1. mu * FieldProduct(phi, phi)[1] \in Int
    BY <1>1, <1>6
  <2>. QED  BY <2>1, ModType
<1>8. CASE prm.pbp_version = "tm_one_end_trick"
  <2>1. prm.fermact # "wilson"
    BY <1>8
  <2>2. FieldProduct(result, result)[1] * mu = mu * FieldProduct(phi, phi)[1]
    BY <1>1, <1>4, <1>6, SMT
  <2>3. Measured = (FieldProduct(result, result)[1] * mu) % P
    BY <1>8 DEF Measured, flavour_doublet_chiral_condensate_tm, norm_tm
  <2>. QED  BY <1>7, <2>1, <2>2, <2>3 DEF CondensateOf
<1>9. CASE prm.pbp_version # "tm_one_end_trick" /\ prm.fermact = "wilson"
  BY <1>5, <1>6, <1>9 DEF Measured, flavourChiralCondensate_std, CondensateOf
<1>10. CASE prm.pbp_version # "tm_one_end_trick" /\ prm.fermact # "wilson"
  <2>1. FullMatrix(gaugefield, phi, mu) = source
    BY <1>1, <1>10 DEF Solved
  <2>2. (-(FieldProduct(s, phi)[2])) % P = (mu * FieldProduct(phi, phi)[1]) % P
    BY <1>1, <1>3, <2>1, TwistedCondensate
  <2>. QED  BY <1>5, <1>7, <1>10, <2>2 DEF Measured, flavourChiralCondensate_std, CondensateOf
<1>. QED  BY <1>8, <1>9, <1>10

------------------------------------------------------------------------------
(* Every step preserves the invariant *)

LEMMA InitInvariant == Init => IInv
<1>. SUFFICES ASSUME Init PROVE IInv
  OBVIOUS
<1>1. ColdSpinor \in Spinors /\ Cold \in Fields
  BY Parts DEF Cold
<1>2. TypeOK
  <2>1. prm.numberOfSources \in Nat \ {0}
    BY InversionAssumption DEF Init, InversionAssumption, RunParameters
  <2>. QED  BY <1>1, <2>1 DEF Init, TypeOK
<1>3. SourcesCounted
  <2>1. prm.numberOfSources \in Nat \ {0}
    BY <1>2, Parameters
  <2>. QED  BY <2>1 DEF Init, SourcesCounted
<1>. QED  BY <1>2, <1>3 DEF Init, IInv, HalvesPrepared, VersionChecked

LEMMA CheckStep ==
    ASSUME IInv, checkChiralCondensateVersion
    PROVE  IInv'
BY DEF IInv, checkChiralCondensateVersion, GoesTo, given, TypeOK, HalvesPrepared,
       SourcesCounted, VersionChecked

LEMMA SmearStep ==
    ASSUME IInv, smear
    PROVE  IInv'
BY DEF IInv, smear, GoesTo, given, TypeOK, HalvesPrepared, SourcesCounted, VersionChecked

LEMMA ThrowStep ==
    ASSUME IInv, SolverThrows
    PROVE  IInv'
BY DEF IInv, SolverThrows, GoesTo, given, TypeOK, HalvesPrepared, SourcesCounted, VersionChecked

LEMMA InvertStep ==
    ASSUME IInv, invert
    PROVE  IInv'
<1>1. TypeOK /\ pc = "solve" /\ ~prm.useEo
  BY DEF IInv, invert
<1>2. result' \in Fields /\ FullMatrix(gaugefield, result', TwistOf(prm)) = source
  <2>1. CASE prm.solver = "cg"
    <3>1. PICK x \in Fields : /\ QplusQminus(gaugefield, x) = OnBoth(gamma5, source)
                              /\ result' = Qminus(gaugefield, x)
      BY <2>1 DEF invert, Solutions
    <3>. QED  BY <1>1, <3>1, CgSolves
  <2>2. CASE prm.solver # "cg"
    <3>1. result' \in Fields /\ M(gaugefield, result') = source
      BY <2>2 DEF invert, Solutions
    <3>. QED  BY <1>1, <3>1, Parameters DEF M
  <2>. QED  BY <2>1, <2>2
<1>3. pc' = "observe" /\ UNCHANGED <<prm, gaugefield, source, eo, chiralCondensate>>
  BY DEF invert, GoesTo, given
<1>4. Solved(prm, gaugefield, source, result)'
  BY <1>1, <1>2, <1>3 DEF Solved, Freed
<1>. QED  BY <1>1, <1>2, <1>3, <1>4
          DEF IInv, TypeOK, HalvesPrepared, SourcesCounted, VersionChecked

LEMMA PrepareStep ==
    ASSUME IInv, prepare_sources
    PROVE  IInv'
<1>1. TypeOK /\ pc = "prepare" /\ prm.useEo
  BY DEF IInv, prepare_sources, HalvesPrepared
<1>2. /\ pc' = "solve"
      /\ UNCHANGED <<prm, gaugefield, source, result, chiralCondensate>>
  BY DEF prepare_sources, GoesTo, given
<1>3. source.even \in Spinors /\ HalfSource(prm, gaugefield, source) \in Spinors
  BY <1>1, Parameters, HalfSourceType
<1>4. eo' = [source_odd |-> source.even,
             source_even |-> HalfSource(prm, gaugefield, source),
             result_eo |-> ColdSpinor]
  <2>1. InverseDiagonal(source.even) = Inverse(prm, source.even)
    BY <1>1, <1>3, InverseType
  <2>. QED  BY <2>1 DEF prepare_sources, convert_to_eoprec, HalfSource
<1>5. eo' \in [source_even : Spinors, source_odd : Spinors, result_eo : Spinors]
  BY <1>3, <1>4, Parts
<1>6. HalfSource(prm, gaugefield, source)' = HalfSource(prm, gaugefield, source)
  BY <1>2
<1>. QED  BY <1>1, <1>2, <1>4, <1>5, <1>6
          DEF IInv, TypeOK, HalvesPrepared, SourcesCounted, VersionChecked

LEMMA BicgstabStep ==
    ASSUME IInv, bicgstab_eo
    PROVE  IInv'
<1>1. TypeOK /\ pc = "solve" /\ prm.useEo
  BY DEF IInv, bicgstab_eo
<1>2. /\ pc' = "odd"
      /\ UNCHANGED <<prm, gaugefield, source, result, chiralCondensate>>
  BY DEF bicgstab_eo, GoesTo, given
<1>3. PICK x \in Spinors : /\ Aee(gaugefield, x) = eo.source_even
                           /\ eo' = [eo EXCEPT !.result_eo = x]
  BY DEF bicgstab_eo, Solutions
<1>4. HalfMatrix(prm, gaugefield, x) = HalfSource(prm, gaugefield, source)
  BY <1>1, <1>3, HalfOperators DEF IInv, HalvesPrepared
<1>5. /\ eo' \in [source_even : Spinors, source_odd : Spinors, result_eo : Spinors]
      /\ eo'.result_eo = x /\ eo'.source_odd = eo.source_odd
  BY <1>1, <1>3 DEF TypeOK
<1>6. HalfMatrix(prm, gaugefield, eo.result_eo)' = HalfSource(prm, gaugefield, source)'
  <2>1. /\ HalfSource(prm, gaugefield, source)' = HalfSource(prm, gaugefield, source)
        /\ HalfMatrix(prm, gaugefield, eo.result_eo)' = HalfMatrix(prm, gaugefield, x)
    BY <1>2, <1>5
  <2>. QED  BY <1>4, <2>1
<1>. QED  BY <1>1, <1>2, <1>5, <1>6
          DEF IInv, TypeOK, HalvesPrepared, SourcesCounted, VersionChecked

LEMMA BicgstabThrowsStep ==
    ASSUME IInv, bicgstab_eo_throws
    PROVE  IInv'
<1>1. TypeOK /\ pc = "solve" /\ prm.useEo
  BY DEF IInv, bicgstab_eo_throws
<1>2. /\ pc' = "retry" /\ eo' = [eo EXCEPT !.source_even = gamma5(@)]
      /\ UNCHANGED <<prm, gaugefield, source, result, chiralCondensate>>
  BY DEF bicgstab_eo_throws, GoesTo, given
<1>3. eo.source_even \in Spinors /\ gamma5(eo.source_even) \in Spinors
  BY <1>1, Gamma5 DEF TypeOK
<1>4. /\ eo' \in [source_even : Spinors, source_odd : Spinors, result_eo : Spinors]
      /\ eo'.source_even = gamma5(eo.source_even) /\ eo'.source_odd = eo.source_odd
  BY <1>1, <1>2, <1>3 DEF TypeOK
<1>5. HalfSource(prm, gaugefield, source)' = HalfSource(prm, gaugefield, source)
  BY <1>2
<1>6. eo.source_even = HalfSource(prm, gaugefield, source) /\ eo.source_odd = source.even
  BY <1>1 DEF IInv, HalvesPrepared
<1>7. HalvesPrepared'
  BY <1>1, <1>2, <1>4, <1>5, <1>6 DEF HalvesPrepared
<1>. QED  BY <1>1, <1>2, <1>4, <1>7
          DEF IInv, TypeOK, SourcesCounted, VersionChecked

LEMMA RetryStep ==
    ASSUME IInv, cg_eo
    PROVE  IInv'
<1>1. TypeOK /\ pc = "retry" /\ prm.useEo
  BY DEF IInv, cg_eo, HalvesPrepared
<1>2. /\ pc' = "odd"
      /\ UNCHANGED <<prm, gaugefield, source, result, chiralCondensate>>
  BY DEF cg_eo, GoesTo, given
<1>3. PICK y \in Spinors :
          /\ QplusQminus_eo(gaugefield, y) = eo.source_even
          /\ eo' = [eo EXCEPT !.result_eo = Qminus_eo(gaugefield, y),
                              !.source_even = Qminus_eo(gaugefield, y)]
  BY DEF cg_eo, Solutions
<1> DEFINE x == Qminus_eo(gaugefield, y)
           b == HalfSource(prm, gaugefield, source)
<1>4. eo.source_even = gamma5(b) /\ eo.source_odd = source.even /\ b \in Spinors
  BY <1>1, HalfSourceType DEF IInv, HalvesPrepared
<1>5. x \in Spinors /\ HalfMatrix(prm, gaugefield, x) = b
  BY <1>1, <1>3, <1>4, RetrySolves
<1>6. /\ eo' \in [source_even : Spinors, source_odd : Spinors, result_eo : Spinors]
      /\ eo'.result_eo = x /\ eo'.source_odd = eo.source_odd
  BY <1>1, <1>3, <1>5 DEF TypeOK
<1>7. HalfMatrix(prm, gaugefield, eo.result_eo)' = HalfSource(prm, gaugefield, source)'
  <2>1. /\ HalfSource(prm, gaugefield, source)' = b
        /\ HalfMatrix(prm, gaugefield, eo.result_eo)' = HalfMatrix(prm, gaugefield, x)
    BY <1>2, <1>6
  <2>. QED  BY <1>5, <2>1
<1>. QED  BY <1>1, <1>2, <1>4, <1>6, <1>7
          DEF IInv, TypeOK, HalvesPrepared, SourcesCounted, VersionChecked

LEMMA OddStep ==
    ASSUME IInv, odd_solution
    PROVE  IInv'
<1>1. /\ TypeOK /\ pc = "odd" /\ prm.useEo /\ eo.source_odd = source.even
      /\ HalfMatrix(prm, gaugefield, eo.result_eo) = HalfSource(prm, gaugefield, source)
  BY DEF IInv, odd_solution, HalvesPrepared
<1>2. /\ pc' = "observe" /\ result' = convert_from_eoprec(OddSolution, eo.result_eo)
      /\ UNCHANGED <<prm, gaugefield, source, eo, chiralCondensate>>
  BY DEF odd_solution, GoesTo, given
<1>3. result' \in Fields /\ Solved(prm, gaugefield, source, result')
  BY <1>1, <1>2, OddSolutionSolves
<1>4. Solved(prm, gaugefield, source, result)'
  BY <1>2, <1>3
<1>. QED  BY <1>1, <1>2, <1>3, <1>4
          DEF IInv, TypeOK, HalvesPrepared, SourcesCounted, VersionChecked

LEMMA ObserveStep ==
    ASSUME IInv, flavour_doublet_chiral_condensate
    PROVE  IInv'
<1>1. /\ TypeOK /\ pc = "observe" /\ Solved(prm, gaugefield, source, result)
      /\ prm.pbp_version = "tm_one_end_trick" => prm.fermact = "twistedmass"
  BY DEF IInv, flavour_doublet_chiral_condensate, VersionChecked
<1>2. /\ pc' = "observed" /\ chiralCondensate' = Append(chiralCondensate, Measured)
      /\ UNCHANGED <<prm, gaugefield, source, eo, result>>
  BY DEF flavour_doublet_chiral_condensate, GoesTo, given, Measured
<1>3. Measured = CondensateOf(prm, source, result) /\ Measured \in Numbers
  BY <1>1, MeasuredIsCondensate
<1>4. /\ chiralCondensate \in Seq(Numbers) /\ prm.numberOfSources \in Nat
      /\ Len(chiralCondensate) < prm.numberOfSources
  BY <1>1, Parameters DEF IInv, TypeOK, SourcesCounted
<1> DEFINE v == Measured
<1> HIDE DEF v
<1>5. /\ chiralCondensate' = Append(chiralCondensate, v) /\ v \in Numbers
  BY <1>2, <1>3 DEF v
<1>6. /\ chiralCondensate' \in Seq(Numbers) /\ chiralCondensate' # << >>
      /\ Len(chiralCondensate') <= prm.numberOfSources
      /\ chiralCondensate'[Len(chiralCondensate')] = v
  BY <1>4, <1>5
<1>7. CondensateOf(prm, source, result)' = v
  BY <1>2, <1>3 DEF v
<1>. QED  BY <1>1, <1>2, <1>6, <1>7
          DEF IInv, TypeOK, HalvesPrepared, SourcesCounted, VersionChecked

LEMMA CreateStep ==
    ASSUME IInv, create_sources
    PROVE  IInv'
BY DEF IInv, create_sources, MoreSources, GoesTo, given, TypeOK, HalvesPrepared,
       SourcesCounted, VersionChecked

LEMMA StutterStep ==
    ASSUME IInv, UNCHANGED vars
    PROVE  IInv'
BY DEF IInv, vars, TypeOK, HalvesPrepared, SourcesCounted, VersionChecked

------------------------------------------------------------------------------
(* The theorems *)

\* The invariant holds of every behaviour.
THEOREM InductiveInvariant == Spec => []IInv
<1>1. ASSUME IInv, [Next]_vars
      PROVE  IInv'
  <2>1. CASE UNCHANGED vars
    BY <1>1, <2>1, StutterStep
  <2>2. CASE Next
    <3>. QED  BY <1>1, <2>2, CheckStep, SmearStep, InvertStep, ThrowStep, PrepareStep,
                 BicgstabStep, BicgstabThrowsStep, RetryStep, OddStep, ObserveStep,
                 CreateStep, StutterStep DEF Next, Finished
  <2>. QED  BY <1>1, <2>1, <2>2
<1>. QED  BY <1>1, InitInvariant, PTL DEF Spec

\* Fields stay fields and no more sources are measured than asked for.
THEOREM TypeCorrect == Spec => []TypeOK
<1>1. IInv => TypeOK
  BY DEF IInv
<1>. QED  BY <1>1, InductiveInvariant, PTL

LEMMA PropagatorIsFreed == Propagator = Freed(prm, result)
<1>1. OnBoth(LAMBDA x : sax(MinusOne, x), result) = NegField(result)
  BY DEF OnBoth, NegField, Neg
<1>. QED  BY <1>1 DEF Propagator, Freed

\* Whatever the action, the solver and the retry, an inversion gives the
\* solution for the source on both parities, up to the sign the even-odd form
\* gives it (invert_M_nf2_upperflavour).
THEOREM AlwaysSolvesUpToSign == Spec => []SolvesUpToSign
<1>1. IInv => SolvesUpToSign
  <2>. SUFFICES ASSUME IInv, pc = "observe" PROVE M(gaugefield, Propagator) = source
    BY DEF SolvesUpToSign
  <2>1. Solved(prm, gaugefield, source, result) /\ Twist = TwistOf(prm)
    BY Parameters DEF IInv
  <2>. QED  BY <2>1, PropagatorIsFreed DEF M, Solved
<1>. QED  BY <1>1, InductiveInvariant, PTL

\* Every entry of the condensate belongs to the matrix: both versions give the
\* same, with and without preconditioning (flavour_doublet_chiral_condensate).
THEOREM CondensateIsOfTheMatrix == Spec => []CondensateOfTheMatrix
<1>1. IInv => CondensateOfTheMatrix
  <2>. SUFFICES ASSUME IInv, pc = "observed"
                PROVE  chiralCondensate[Len(chiralCondensate)] =
                           IF prm.fermact = "wilson" THEN FieldProduct(source, Propagator)[1]
                           ELSE (prm.mubar * FieldProduct(Propagator, Propagator)[1]) % P
    BY DEF CondensateOfTheMatrix
  <2>1. chiralCondensate[Len(chiralCondensate)] = CondensateOf(prm, source, result)
    BY DEF IInv
  <2>. QED  BY <2>1, PropagatorIsFreed DEF CondensateOf
<1>. QED  BY <1>1, InductiveInvariant, PTL
=============================================================================
