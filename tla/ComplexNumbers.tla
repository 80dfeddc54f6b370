---------------------------- MODULE ComplexNumbers --------------------------
(***************************************************************************)
(* complex.h: complex variables and the arithmetic on them.  The doubles   *)
(* are integers, on which the arithmetic of double is exact.  The          *)
(* functions behind += -= *= store member by member through a pointer that *)
(* may point to their argument.                                            *)
(***************************************************************************)
EXTENDS Integers

CONSTANTS
  Variables,       (* the variables of type complex                         *)
  Doubles,         (* the doubles a program mixes with them                 *)
  Bound            (* bound: the members stay in -Bound .. Bound            *)

VARIABLE c         (* the complex behind each variable                      *)

complex(r, i) == [re |-> r, im |-> i]

Init == c = [v \in Variables |-> complex(0, 0)]

-----------------------------------------------------------------------------
(* __doapl, __doami and __doaml: what is stored after each statement, s     *)
(* being what is stored before.                                             *)
doapl(s, ths, r) ==
  LET s1 == [s EXCEPT ![ths].re = @ + s[r].re]
  IN [s1 EXCEPT ![ths].im = @ + s1[r].im]

doami(s, ths, r) ==
  LET s1 == [s EXCEPT ![ths].re = @ - s[r].re]
  IN [s1 EXCEPT ![ths].im = @ - s1[r].im]

(* Mutant: the product of the real parts is stored at once. *)
doamlDirect(s, ths, r) ==
  LET s1 == [s EXCEPT ![ths].re = @ * s[r].re - s[ths].im * s[r].im]
  IN [s1 EXCEPT ![ths].im = s1[ths].re * s1[r].im + s1[ths].im * s1[r].re]

doaml(s, ths, r) ==
  LET f == s[ths].re * s[r].re - s[ths].im * s[r].im
      s1 == [s EXCEPT ![ths].im = s[ths].re * s[r].im + s[ths].im * s[r].re]
  IN [s1 EXCEPT ![ths].re = f]

(* The binary operators: of two complex, of a complex and a double, and of  *)
(* a double and a complex.                                                  *)
Plus(x, y) == complex(x.re + y.re, x.im + y.im)
PlusDouble(x, d) == complex(x.re + d, x.im)
DoublePlus(d, y) == complex(d + y.re, y.im)

Minus(x, y) == complex(x.re - y.re, x.im - y.im)
MinusDouble(x, d) == complex(x.re - d, x.im)
DoubleMinus(d, y) == complex(d - y.re, -y.im)

Times(x, y) ==
  complex(x.re * y.re - x.im * y.im, x.re * y.im + x.im * y.re)
TimesDouble(x, d) == complex(x.re * d, x.im * d)
DoubleTimes(d, y) == complex(d * y.re, d * y.im)

Negative(x) == complex(-x.re, -x.im)
conj(x) == complex(x.re, -x.im)
norm(x) == x.re * x.re + x.im * x.im

Equal(x, y) == x.re = y.re /\ x.im = y.im
EqualDouble(x, d) == x.re = d /\ x.im = 0
DoubleEqual(d, y) == d = y.re /\ y.im = 0
Differ(x, y) == x.re # y.re \/ x.im # y.im
DifferDouble(x, d) == x.re # d \/ x.im # 0
DoubleDiffer(d, y) == d # y.re \/ y.im # 0

-----------------------------------------------------------------------------
Within(s) ==
  \A v \in Variables : {s[v].re, s[v].im} \subseteq -Bound .. Bound

(* v += w, v -= w and v *= w.                                               *)
Compound(v, w) ==
  /\ c' \in {doapl(c, v, w), doami(c, v, w), doaml(c, v, w)}
  /\ Within(c')

(* What v may be assigned: the value of an expression of one operator.      *)
Expressions(x, y, d) ==
  {complex(d, d), Plus(x, y), PlusDouble(x, d), DoublePlus(d, y),
   Minus(x, y), MinusDouble(x, d), DoubleMinus(d, y),
   Times(x, y), TimesDouble(x, d), DoubleTimes(d, y), Negative(x), conj(x)}

Assign(v) ==
  /\ \E u, w \in Variables, d \in Doubles :
       \E x \in Expressions(c[u], c[w], d) : c' = [c EXCEPT ![v] = x]
  /\ Within(c')

Next == \E v \in Variables : Assign(v) \/ \E w \in Variables : Compound(v, w)

-----------------------------------------------------------------------------
(* For all that the variables may hold: a compound assignment gives what    *)
(* the binary operator does and changes nothing else, also with a variable  *)
(* as its own argument (v *= v); an overload for a double gives what its    *)
(* conversion to complex would; != is never ==; norm is the product with    *)
(* the conjugate, and multiplicative.                                       *)
ArithmeticConsistent ==
  \A v, w \in Variables, d \in Doubles :
    LET x == c[v]
        y == c[w]
        z == complex(d, 0)
    IN
    /\ doapl(c, v, w) = [c EXCEPT ![v] = Plus(x, y)]
    /\ doami(c, v, w) = [c EXCEPT ![v] = Minus(x, y)]
    /\ doaml(c, v, w) = [c EXCEPT ![v] = Times(x, y)]
    /\ PlusDouble(x, d) = Plus(x, z) /\ DoublePlus(d, y) = Plus(z, y)
    /\ MinusDouble(x, d) = Minus(x, z) /\ DoubleMinus(d, y) = Minus(z, y)
    /\ TimesDouble(x, d) = Times(x, z) /\ DoubleTimes(d, y) = Times(z, y)
    /\ Equal(Minus(x, y), z) = Equal(x, Plus(y, z))
    /\ Differ(x, y) = ~Equal(x, y)
    /\ EqualDouble(x, d) = Equal(x, z) /\ DifferDouble(x, d) = Differ(x, z)
    /\ DoubleEqual(d, y) = Equal(z, y) /\ DoubleDiffer(d, y) = Differ(z, y)
    /\ Times(x, conj(x)) = complex(norm(x), 0)
    /\ norm(Times(x, y)) = norm(x) * norm(y)
    /\ Plus(x, Negative(x)) = complex(0, 0)
=============================================================================
