---------------------------- MODULE ModelNumbers ----------------------------
(***************************************************************************)
(* Numbers to compute with exactly.  The algorithms of the program are     *)
(* field arithmetic; here the real numbers are the integers modulo a prime *)
(* P and the complex numbers are pairs of them, a field because P is       *)
(* congruent to 3 modulo 4.  An identity the algorithms rely on, between   *)
(* terms put together in different functions, then holds or fails exactly, *)
(* without rounding; order and size of the numbers have no counterpart.    *)
(***************************************************************************)
EXTENDS Integers

CONSTANT P

ASSUME PAssumption ==
    /\ P \in Nat /\ P > 2 /\ P % 4 = 3
    /\ \A d \in 2 .. P - 1 : P % d # 0

Numbers == 0 .. P - 1
Complex == Numbers \X Numbers

Reciprocal[x \in Numbers \ {0}] == CHOOSE y \in Numbers : (x * y) % P = 1
Half == Reciprocal[2]

Re(z) == z[1]
Conj(z) == <<z[1], (-z[2]) % P>>
Scale(x, z) == <<(x * z[1]) % P, (x * z[2]) % P>>
Times(y, z) == <<(y[1] * z[1] - y[2] * z[2]) % P, (y[1] * z[2] + y[2] * z[1]) % P>>
SquareNorm(z) == (z[1] * z[1] + z[2] * z[2]) % P
Over(y, z) == Scale(Reciprocal[SquareNorm(z)], Times(y, Conj(z)))
==============================================================================
