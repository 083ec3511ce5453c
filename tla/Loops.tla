-------------------------------- MODULE Loops --------------------------------
(***************************************************************************)
(* Induction over data for the proofs: the models write a loop over a list  *)
(* as a recursive function on 0..n, its states after each round.  Such a    *)
(* function exists, and what holds of its states is shown with the least    *)
(* round that would violate it.                                              *)
(***************************************************************************)
EXTENDS Integers, WellFoundedInduction, TLAPS

(* Induction over the length of a list, from the least number that violates   *)
(* the claim.                                                                *)
LEMMA Least ==
    ASSUME NEW T \in SUBSET Nat, T # {}
    PROVE  \E m \in T : \A k \in T : m <= k
<1>1. T \subseteq Nat
    OBVIOUS
<1>2. PICK m \in T : \A k \in T : ~(<<k, m>> \in OpToRel(<, Nat))
    BY <1>1, WFMin, NatLessThanWellFounded
<1>3. \A k \in T : ~(k < m) /\ k \in Nat /\ m \in Nat
    BY <1>1, <1>2 DEF OpToRel
<1> QED  BY <1>3

(* The states of a loop of n rounds that begins with first and whose body is  *)
(* the function Body over the values V.                                      *)
IsBody(Body, n, V) == Body \in [(1..n) \X V -> V]
AreStates(F, n, V, first, Body) ==
    F \in [0..n -> V] /\ F[0] = first /\ \A i \in 1..n : F[i] = Body[<<i, F[i - 1]>>]

(* Such a loop has a state after every round.                                *)
LEMMA LoopHasStates ==
    ASSUME NEW n \in Nat, NEW V, NEW first \in V, NEW Body, IsBody(Body, n, V)
    PROVE  \E F : AreStates(F, n, V, first, Body)
<1> USE DEF IsBody
<1> DEFINE Runs(m) ==
             \E F \in [0..m -> V] : F[0] = first /\ \A i \in 1..m : F[i] = Body[<<i, F[i - 1]>>]
           Stuck == {m \in 0..n : ~Runs(m)}
<1>1. SUFFICES ASSUME Stuck # {} PROVE FALSE
    BY n \in 0..n DEF AreStates
<1>2. PICK m \in Stuck : \A k \in Stuck : m <= k
    <2>1. Stuck \in SUBSET Nat
        OBVIOUS
    <2> HIDE DEF Stuck
    <2> QED  BY <1>1, <2>1, Least
<1>3. CASE m = 0
    <2> DEFINE F == [i \in 0..0 |-> first]
    <2>1. F \in [0..m -> V] /\ F[0] = first /\ \A i \in 1..m : F[i] = Body[<<i, F[i - 1]>>]
        BY <1>3
    <2> QED  BY <1>2, <2>1
<1>4. CASE m # 0
    <2>1. m \in Nat /\ m - 1 \in Nat /\ m - 1 \in 0..n /\ m - 1 \notin Stuck /\ m \in 1..n
        BY <1>2, <1>4
    <2>2. PICK E \in [0..(m - 1) -> V] :
             E[0] = first /\ \A i \in 1..(m - 1) : E[i] = Body[<<i, E[i - 1]>>]
        BY <2>1
    <2>3. ~Runs(m)
        BY <1>2
    <2> HIDE DEF Runs, Stuck
    <2> DEFINE F == [i \in 0..m |-> IF i = m THEN Body[<<m, E[m - 1]>>] ELSE E[i]]
    <2>4. F \in [0..m -> V]
        BY <2>1, <2>2
    <2>5. m \in 0..m /\ F[m] = Body[<<m, E[m - 1]>>]
        BY <2>1
    <2>6. \A i \in 0..(m - 1) : i \in 0..m /\ F[i] = E[i]
        BY <2>1
    <2> HIDE DEF F
    <2>7. 0 \in 0..(m - 1) /\ m - 1 \in 0..(m - 1)
        BY <2>1
    <2>8. F[0] = first /\ F[m] = Body[<<m, F[m - 1]>>]
        BY <2>2, <2>5, <2>6, <2>7
    <2>9. ASSUME NEW i \in 1..(m - 1) PROVE F[i] = Body[<<i, F[i - 1]>>]
        <3>1. i \in 0..(m - 1) /\ i - 1 \in 0..(m - 1)
            BY <2>1
        <3> QED  BY <2>2, <2>6, <3>1
    <2>10. \A i \in 1..m : i = m \/ i \in 1..(m - 1)
        BY <2>1
    <2> QED  BY <2>3, <2>4, <2>8, <2>9, <2>10 DEF Runs
<1> QED  BY <1>3, <1>4
==============================================================================
