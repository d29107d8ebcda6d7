------------------------------ MODULE KeyOrder ------------------------------
(* Places among keys in ascending order: on one of them or at the end. *)
EXTENDS Integers, FiniteSets

CONSTANTS
  Keys,     \* numbers, finitely many
  End       \* the place behind them all

ASSUME KeysAssumption == 
  Keys \subseteq Int /\ IsFiniteSet(Keys) /\ End \notin Int

Places(ks) == ks \cup {End}
LeastOf(ks) == IF ks = {} THEN End ELSE CHOOSE x \in ks : \A y \in ks : x <= y

LowerBound(ks, k) == LeastOf({x \in ks : x >= k})
Following(ks, k) == LeastOf({x \in ks : x > k})

Before(ks, p) == IF p = End THEN ks ELSE {x \in ks : x < p}
Preceding(ks, p) ==
  CHOOSE x \in Before(ks, p) : \A y \in Before(ks, p) : x >= y

(* The keys from place p up to and without place q. *)
Between(ks, p, q) == {x \in ks : p # End /\ x >= p /\ x \in Before(ks, q)}
=============================================================================
