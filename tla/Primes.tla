------------------------------- MODULE Primes -------------------------------
(***************************************************************************)
(* The sizes of hash tables: modular_pow, is_prime and next_prime of       *)
(* algorithms_lib/algorithms.c.                                            *)
(*                                                                         *)
(* is_prime draws five bases at random (Miller and Rabin).  All five may   *)
(* be the same, so that a composite passes if one base is a strong liar:   *)
(* what is_prime can answer is a set.  Values are uint16_t.                *)
(***************************************************************************)
EXTENDS Integers

FAILURE == 1

\* Square and multiply: <<base, exponent, result>>.
ModularPow(base, exponent, modulus) ==
  LET power[t \in Nat \X Nat \X Nat] ==
        LET b == t[1]  e == t[2]  result == t[3]
        IN  IF e = 0 THEN result
            ELSE power[<<(b * b) % modulus, e \div 2,
                         IF e % 2 = 1 THEN (result * b) % modulus ELSE result>>]
  IN  power[<<base % modulus, exponent, 1>>]

\* value - 1 is OddInt(value) times 2 to the PowerOfTwo(value).
PowerOfTwo(value) ==
  CHOOSE k \in 1..16 : (value - 1) % 2^k = 0 /\ (value - 1) % 2^(k + 1) # 0
OddInt(value) == (value - 1) \div 2^PowerOfTwo(value)

\* Faulty: one squaring is missing.
StrongButLast(base, value) ==
  LET last == PowerOfTwo(value) - 1
      square[i \in 0..last] ==
        IF i = 0 THEN ModularPow(base, OddInt(value), value)
                 ELSE ModularPow(square[i - 1], 2, value)
  IN  \/ square[0] \in {1, value - 1}
      \/ /\ \A i \in 1..last : square[i] = 1 => square[i - 1] \in {1, value - 1}
         /\ last > 0 /\ square[last] = 1

\* One round: the base does not show that value is composite.
Strong(base, value) ==
  LET last == PowerOfTwo(value)
      square[i \in 0..last] ==
        IF i = 0 THEN ModularPow(base, OddInt(value), value)
                 ELSE ModularPow(square[i - 1], 2, value)
  IN  \/ square[0] \in {1, value - 1}
      \/ /\ \A i \in 1..last : square[i] = 1 => square[i - 1] \in {1, value - 1}
         /\ square[last] = 1

MayPass(value) == value \in {2, 3} \/ \E base \in 2..value - 2 : Strong(base, value)
MayFail(value) == value > 3 /\ \E base \in 2..value - 2 : ~Strong(base, value)

\* What next_prime can return.  The loop ends at the double of its first value.
NextPrimes(value) ==
  LET first == IF value % 2 = 0 THEN value + 1 ELSE value + 2
      tried == {v \in first..((2 * first) % 2^16) - 1 : v % 2 = 1}
      Reached(v) == \A u \in tried : u < v => MayFail(u)
  IN  IF value <= 1 THEN {2}
      ELSE IF value = 2 THEN {3}
      ELSE {v \in tried : Reached(v) /\ MayPass(v)}
           \cup {f \in {FAILURE} : \A u \in tried : MayFail(u)}
---------------------------------------------------------------------------
(* Table sizes, one after the other *)

CONSTANT MaxValue  \* bound of the model on the first size

VARIABLE value

Init == value \in 0..MaxValue
Next == value <= 2 * MaxValue /\ value' \in NextPrimes(value)
Spec == Init /\ [][Next]_value

IsPrime(v) == v > 1 /\ \A d \in 2..v - 1 : v % d # 0

\* A table grows to the next prime, or perhaps to a smaller number: no prime is
\* passed over, whatever bases are drawn, and next_prime does not fail.
NoPrimeSkipped ==
  [][/\ value' > value
     /\ \A v \in value + 1..value' - 1 : ~IsPrime(v)]_value
=============================================================================
