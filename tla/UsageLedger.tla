---------------------------- MODULE UsageLedger ----------------------------
(***************************************************************************)
(* What the character counter of one organisation promises, whoever reads  *)
(* and writes it: a caller reads the counter once, later writes back its   *)
(* reading plus its size, once, and never above the ceiling of some plan.  *)
(* Callers overlap freely, so the counter is not the total of what was     *)
(* served: it is what is left of that total when overlapping callers       *)
(* overwrite each other.                                                   *)
(***************************************************************************)
EXTENDS Integers, FiniteSetsExt, FiniteSetTheorems, TLAPS

CONSTANTS Callers,   \* whoever charges the organisation, once each
          Size,      \* [Callers -> Nat]: what each one charges
          Ceilings   \* the values the counter may be charged up to

ASSUME LedgerAssumption ==
  /\ Size \in [Callers -> Nat]
  /\ Ceilings \subseteq Nat
  /\ Ceilings # {}

VARIABLES counter,   \* organisations.chars_used_this_period
          total,     \* characters of all successful usage logs
          base       \* each caller's reading of the counter, or a mark

ledgerVars == <<counter, total, base>>

NotRead == -1    \* the caller has not read the counter yet
Finished == -2   \* it has charged, or never will

Init ==
  /\ counter = 0
  /\ total = 0
  /\ base = [c \in Callers |-> NotRead]

Read(c) ==
  /\ base[c] = NotRead
  /\ base' = [base EXCEPT ![c] = counter]
  /\ UNCHANGED <<counter, total>>

\* (The variant before it: a refund instead of a charge.)
ChargeRefunds(c) ==
  /\ base[c] \notin {NotRead, Finished}
  /\ counter' = base[c] - Size[c]
  /\ total' = total + Size[c]
  /\ base' = [base EXCEPT ![c] = Finished]
Charge(c) ==
  /\ base[c] \notin {NotRead, Finished}
  /\ \E ceiling \in Ceilings : base[c] + Size[c] <= ceiling
  /\ counter' = base[c] + Size[c]
  /\ total' = total + Size[c]
  /\ base' = [base EXCEPT ![c] = Finished]

\* The call is refused, fails or dies: nothing is charged.
Leave(c) ==
  /\ base[c] # Finished
  /\ base' = [base EXCEPT ![c] = Finished]
  /\ UNCHANGED <<counter, total>>

Next == \E c \in Callers : Read(c) \/ Charge(c) \/ Leave(c)

LedgerSpec == Init /\ [][Next]_ledgerVars

LedgerTypeOK ==
  /\ counter \in Nat
  /\ total \in Nat
  /\ base \in [Callers -> Nat \cup {NotRead, Finished}]

\* Overlapping callers lose characters, they never invent any: the counter
\* is at most what was served.
CounterWithinTotal == counter <= total

\* No interleaving pushes the counter above the highest ceiling.
CounterWithinCeiling == \E ceiling \in Ceilings : counter <= ceiling

----------------------------------------------------------------------------
(* Proofs *)

\* A reading is never above the total, because the counter was not when it
\* was read and the total never shrinks.
ReadingsWithinTotal == \A c \in Callers : base[c] <= total

LedgerInv == LedgerTypeOK /\ CounterWithinTotal /\ CounterWithinCeiling /\ ReadingsWithinTotal

\* Nothing is read and nothing is charged at first.
LEMMA LedgerInitial == Init => LedgerInv
<1> SUFFICES ASSUME Init PROVE LedgerInv
  OBVIOUS
<1>1. CounterWithinCeiling
  <2>1. PICK ceiling \in Ceilings : ceiling \in Nat
    BY LedgerAssumption
  <2>2. 0 <= ceiling
    BY <2>1
  <2>3. QED
    BY <2>2 DEF Init, CounterWithinCeiling
<1>2. QED
  BY <1>1 DEF Init, LedgerInv, LedgerTypeOK, CounterWithinTotal,
              ReadingsWithinTotal, NotRead, Finished

\* Reading, charging and leaving keep the counter under the total and a ceiling.
LEMMA LedgerInductive == LedgerInv /\ [Next]_ledgerVars => LedgerInv'
<1> SUFFICES ASSUME LedgerInv, [Next]_ledgerVars PROVE LedgerInv'
  OBVIOUS
<1> USE LedgerAssumption
    DEF LedgerInv, LedgerTypeOK, CounterWithinTotal, CounterWithinCeiling,
        ReadingsWithinTotal, NotRead, Finished
<1>1. ASSUME NEW c \in Callers, Read(c) PROVE LedgerInv'
  BY <1>1 DEF Read
<1>2. ASSUME NEW c \in Callers, Charge(c) PROVE LedgerInv'
  <2>1. base[c] \in Nat /\ Size[c] \in Nat
    BY <1>2 DEF Charge
  <2>2. LedgerTypeOK'
    BY <1>2, <2>1 DEF Charge
  <2>3. CounterWithinCeiling'
    BY <1>2 DEF Charge
  <2>4. CounterWithinTotal'
    BY <1>2, <2>1 DEF Charge
  <2>5. ReadingsWithinTotal'
    <3> SUFFICES ASSUME NEW d \in Callers PROVE base'[d] <= total'
      BY DEF ReadingsWithinTotal
    <3>1. CASE d = c
      BY <1>2, <2>1, <3>1 DEF Charge
    <3>2. CASE d # c
      BY <1>2, <2>1, <3>2 DEF Charge
    <3>3. QED
      BY <3>1, <3>2
  <2>6. QED
    BY <2>2, <2>3, <2>4, <2>5
<1>3. ASSUME NEW c \in Callers, Leave(c) PROVE LedgerInv'
  BY <1>3 DEF Leave
<1>4. CASE UNCHANGED ledgerVars
  BY <1>4 DEF ledgerVars
<1>5. QED
  BY <1>1, <1>2, <1>3, <1>4 DEF Next

\* The ledger never charges more than was served, whatever the callers, their
\* sizes and the ceilings: no overlap of readings and writes invents a charge.
THEOREM LedgerNeverOvercharges == LedgerSpec => []CounterWithinTotal
<1>1. LedgerInv => CounterWithinTotal
  BY DEF LedgerInv
<1>2. QED
  BY LedgerInitial, LedgerInductive, <1>1, PTL DEF LedgerSpec

\* And the counter stays below the highest ceiling, although each caller
\* compares a ceiling with its own reading only.
THEOREM LedgerWithinCeiling == LedgerSpec => []CounterWithinCeiling
<1>1. LedgerInv => CounterWithinCeiling
  BY DEF LedgerInv
<1>2. QED
  BY LedgerInitial, LedgerInductive, <1>1, PTL DEF LedgerSpec

----------------------------------------------------------------------------
(* Sums over finite sets: what SELECT SUM(character_count) returns when one *)
(* more row is there.                                                       *)

Pick(S) == CHOOSE x \in S : TRUE
SumOf(w, S) == MapThenSumSet(LAMBDA x : w[x], S)

\* V[S] is the sum of w over S, for every subset S of U.
SumsUp(V, w, U) ==
  /\ V \in [SUBSET U -> Nat]
  /\ V[{}] = 0
  /\ \A S \in SUBSET U, x \in U : x \notin S => V[S \cup {x}] = V[S] + w[x]

\* The recursion of MapThenFoldSet, which adds a chosen element to the sum over
\* the others.
Picked(iter, w, U) ==
  iter = [S \in SUBSET U |-> IF S = {} THEN 0 ELSE w[Pick(S)] + iter[S \ {Pick(S)}]]

\* Among sets of subsets of a finite set, one is smallest: no proper subset of it
\* is there. It stands in for an induction over finite sets.
LEMMA SmallestSet ==
  ASSUME NEW U, IsFiniteSet(U), NEW Bad \in SUBSET SUBSET U, Bad # {}
  PROVE  \E T \in Bad : \A S \in SUBSET T : S # T => S \notin Bad
<1>1. IsWellFoundedOn(StrictSubsetOrdering(U), SUBSET U)
  BY FS_StrictSubsetOrderingWellFounded, FS_FiniteSubsetsOfFinite
<1>2. PICK T \in Bad : \A S \in Bad : ~(<<S, T>> \in StrictSubsetOrdering(U))
  BY <1>1, WFMin
<1>3. QED
  BY <1>2 DEF StrictSubsetOrdering

\* The sums over the subsets of a finite set exist: a smallest set without them
\* would get them from the sums over the set without one of its elements.
LEMMA SumsExist ==
  ASSUME NEW U, IsFiniteSet(U), NEW w, \A x \in U : w[x] \in Nat
  PROVE  \E V : SumsUp(V, w, U)
<1> DEFINE Bad == {T \in SUBSET U : ~\E V : SumsUp(V, w, T)}
<1>1. SUFFICES ASSUME Bad # {} PROVE FALSE
  OBVIOUS
<1>2. PICK T \in Bad : \A S \in SUBSET T : S # T => S \notin Bad
  <2>1. Bad \in SUBSET SUBSET U
    OBVIOUS
  <2> HIDE DEF Bad
  <2>2. QED
    BY <1>1, <2>1, SmallestSet
<1>3. T \in SUBSET U /\ ~\E V : SumsUp(V, w, T)
  BY <1>2
<1>4. T # {}
  <2>1. SumsUp([S \in SUBSET {} |-> 0], w, {})
    BY DEF SumsUp
  <2>2. QED
    BY <1>3, <2>1
<1>5. PICK x \in T : TRUE
  BY <1>4
<1>6. PICK V : SumsUp(V, w, T \ {x})
  BY <1>2, <1>3, <1>5
<1> DEFINE W == [S \in SUBSET T |-> IF x \in S THEN V[S \ {x}] + w[x] ELSE V[S]]
<1>7. SumsUp(W, w, T)
  <2>1. W \in [SUBSET T -> Nat]
    <3>1. \A S \in SUBSET T : x \in S => V[S \ {x}] \in Nat
      BY <1>6 DEF SumsUp
    <3>2. \A S \in SUBSET T : x \notin S => V[S] \in Nat
      BY <1>6 DEF SumsUp
    <3>3. w[x] \in Nat
      BY <1>3, <1>5
    <3>4. QED
      BY <3>1, <3>2, <3>3
  <2>2. W[{}] = 0
    BY <1>6 DEF SumsUp
  <2>3. ASSUME NEW S \in SUBSET T, NEW y \in T, y \notin S
        PROVE  W[S \cup {y}] = W[S] + w[y]
    <3>1. w[x] \in Nat /\ w[y] \in Nat
      BY <1>3, <1>5, <2>3
    <3>2. CASE y = x
      BY <2>3, <3>2
    <3>3. CASE y # x /\ x \in S
      <4>1. (S \cup {y}) \ {x} = (S \ {x}) \cup {y}
        BY <3>3
      <4>2. /\ V[(S \ {x}) \cup {y}] = V[S \ {x}] + w[y]
            /\ V[S \ {x}] \in Nat
        BY <1>6, <2>3, <3>3 DEF SumsUp
      <4>3. W[S \cup {y}] = V[(S \cup {y}) \ {x}] + w[x] /\ W[S] = V[S \ {x}] + w[x]
        BY <2>3, <3>3
      <4>4. W[S \cup {y}] = (V[S \ {x}] + w[y]) + w[x]
        BY Zenon, <4>1, <4>2, <4>3
      <4>5. \A p, q, r \in Nat : (p + q) + r = (p + r) + q
        OBVIOUS
      <4>6. (V[S \ {x}] + w[y]) + w[x] = (V[S \ {x}] + w[x]) + w[y]
        BY <3>1, <4>2, <4>5
      <4>7. QED
        BY Zenon, <4>3, <4>4, <4>6
    <3>4. CASE y # x /\ x \notin S
      <4>1. V[S \cup {y}] = V[S] + w[y]
        BY <1>6, <2>3, <3>4 DEF SumsUp
      <4>2. W[S \cup {y}] = V[S \cup {y}] /\ W[S] = V[S]
        BY <2>3, <3>4
      <4>3. QED
        BY <4>1, <4>2
    <3>5. QED
      BY <3>2, <3>3, <3>4
  <2> HIDE DEF W
  <2>4. QED
    BY <2>1, <2>2, <2>3 DEF SumsUp
<1>8. QED
  BY <1>3, <1>7

\* Whatever element the fold picks at each step, it computes these sums.
LEMMA PickedIsSum ==
  ASSUME NEW U, IsFiniteSet(U), NEW w, \A x \in U : w[x] \in Nat,
         NEW V, SumsUp(V, w, U), NEW iter, Picked(iter, w, U)
  PROVE  \A S \in SUBSET U : iter[S] = V[S]
<1> DEFINE Bad == {S \in SUBSET U : iter[S] # V[S]}
<1>1. SUFFICES ASSUME Bad # {} PROVE FALSE
  OBVIOUS
<1>2. PICK T \in Bad : \A S \in SUBSET T : S # T => S \notin Bad
  <2>1. Bad \in SUBSET SUBSET U
    OBVIOUS
  <2> HIDE DEF Bad
  <2>2. QED
    BY <1>1, <2>1, SmallestSet
<1> DEFINE x == Pick(T)
<1>3. iter[T] = IF T = {} THEN 0 ELSE w[x] + iter[T \ {x}]
  BY <1>2 DEF Picked
<1>4. T # {}
  BY <1>2, <1>3 DEF SumsUp
<1>5. x \in T
  BY <1>4 DEF Pick
<1> HIDE DEF x
<1>6. iter[T \ {x}] = V[T \ {x}]
  BY <1>2, <1>5
<1>7. V[T] = V[T \ {x}] + w[x] /\ V[T \ {x}] \in Nat /\ w[x] \in Nat
  <2>1. (T \ {x}) \cup {x} = T /\ T \ {x} \in SUBSET U /\ x \in U
    BY <1>2, <1>5
  <2>2. QED
    BY <2>1 DEF SumsUp
<1>8. QED
  BY <1>2, <1>3, <1>4, <1>6, <1>7

\* Sums are a solution of that recursion.
LEMMA SumsArePicked ==
  ASSUME NEW U, NEW w, \A x \in U : w[x] \in Nat, NEW V, SumsUp(V, w, U)
  PROVE  Picked(V, w, U)
<1>1. ASSUME NEW S \in SUBSET U, S # {} PROVE V[S] = w[Pick(S)] + V[S \ {Pick(S)}]
  <2> DEFINE x == Pick(S)
  <2>1. x \in S
    BY <1>1 DEF Pick
  <2> HIDE DEF x
  <2>2. (S \ {x}) \cup {x} = S /\ S \ {x} \in SUBSET U /\ x \in U
    BY <2>1
  <2>3. V[S] = V[S \ {x}] + w[x] /\ V[S \ {x}] \in Nat /\ w[x] \in Nat
    BY <2>2 DEF SumsUp
  <2>4. QED
    BY <2>3 DEF x
<1>2. V = [S \in SUBSET U |-> V[S]] /\ V[{}] = 0
  BY DEF SumsUp
<1> HIDE DEF SumsUp
<1>3. QED
  BY <1>1, <1>2, Zenon DEF Picked

\* So MapThenSumSet is the sum, and the order in which it folds does not matter.
LEMMA SumValue ==
  ASSUME NEW U, IsFiniteSet(U), NEW w, \A x \in U : w[x] \in Nat, NEW V, SumsUp(V, w, U)
  PROVE  SumOf(w, U) = V[U]
<1> DEFINE iter == CHOOSE i : Picked(i, w, U)
<1>1. Picked(V, w, U)
  BY SumsArePicked
<1>2. Picked(iter, w, U)
  BY <1>1
<1>3. SumOf(w, U) = iter[U]
  BY Zenon DEF SumOf, MapThenSumSet, MapThenFoldSet, Picked, Pick
<1> HIDE DEF iter
<1>4. QED
  BY <1>2, <1>3, PickedIsSum

\* One element more adds its value to the sum.
LEMMA SumAdds ==
  ASSUME NEW S, IsFiniteSet(S), NEW w, NEW x, x \notin S,
         \A y \in S \cup {x} : w[y] \in Nat
  PROVE  /\ SumOf(w, S) \in Nat
         /\ SumOf(w, S \cup {x}) = SumOf(w, S) + w[x]
<1>1. IsFiniteSet(S \cup {x})
  BY FS_AddElement
<1>2. PICK V : SumsUp(V, w, S \cup {x})
  BY <1>1, SumsExist
<1>3. SumOf(w, S \cup {x}) = V[S \cup {x}]
  BY <1>1, <1>2, SumValue
<1> DEFINE W == [T \in SUBSET S |-> V[T]]
<1>4. SumsUp(W, w, S)
  BY <1>2 DEF SumsUp
<1>5. SumOf(w, S) = W[S]
  <2> HIDE DEF W
  <2>1. QED
    BY <1>4, SumValue
<1>6. V[S \cup {x}] = V[S] + w[x] /\ V[S] \in Nat
  BY <1>2 DEF SumsUp
<1>7. QED
  BY <1>3, <1>5, <1>6

\* Nothing adds up to zero.
LEMMA SumEmpty == ASSUME NEW w PROVE SumOf(w, {}) = 0
<1>1. PICK V : SumsUp(V, w, {})
  BY SumsExist, FS_EmptySet
<1>2. SumOf(w, {}) = V[{}]
  BY <1>1, SumValue, FS_EmptySet
<1>3. QED
  BY <1>1, <1>2 DEF SumsUp

\* A sum of natural numbers is one.
LEMMA SumNatural ==
  ASSUME NEW S, IsFiniteSet(S), NEW w, \A x \in S : w[x] \in Nat
  PROVE  SumOf(w, S) \in Nat
<1>1. PICK V : SumsUp(V, w, S)
  BY SumsExist
<1>2. SumOf(w, S) = V[S]
  BY <1>1, SumValue
<1>3. V[S] \in Nat
  BY <1>1 DEF SumsUp
<1>4. QED
  BY <1>2, <1>3

\* The sum over two sets that share nothing is the sum of their sums.
LEMMA SumUnion ==
  ASSUME NEW A, IsFiniteSet(A), NEW B, IsFiniteSet(B), A \cap B = {},
         NEW w, \A y \in A \cup B : w[y] \in Nat
  PROVE  /\ SumOf(w, A) \in Nat /\ SumOf(w, B) \in Nat
         /\ SumOf(w, A \cup B) = SumOf(w, A) + SumOf(w, B)
<1> DEFINE Adds(T) == /\ SumOf(w, T) \in Nat
                      /\ SumOf(w, A \cup T) = SumOf(w, A) + SumOf(w, T)
           Bad == {T \in SUBSET B : ~Adds(T)}
<1>1. SumOf(w, A) \in Nat
  BY SumNatural
<1>2. ASSUME Bad # {} PROVE FALSE
  <2>1. PICK T \in Bad : \A S \in SUBSET T : S # T => S \notin Bad
    <3>1. Bad \in SUBSET SUBSET B
      OBVIOUS
    <3> HIDE DEF Bad
    <3>2. QED
      BY <1>2, <3>1, SmallestSet
  <2>2. CASE T = {}
    BY <1>1, <2>1, <2>2, SumEmpty
  <2>3. CASE T # {}
    <3>1. PICK x \in T : TRUE
      BY <2>3
    <3> DEFINE S == T \ {x}
    <3>2. /\ T \in SUBSET B /\ ~Adds(T) /\ S \in SUBSET B /\ S \cup {x} = T
          /\ x \notin A \cup S /\ (A \cup S) \cup {x} = A \cup T
      BY <2>1, <3>1
    <3>3. Adds(S)
      BY <2>1, <3>1
    <3>4. IsFiniteSet(S) /\ IsFiniteSet(A \cup S)
      BY <3>2, FS_Subset, FS_Union
    <3>5. SumOf(w, T) = SumOf(w, S) + w[x] /\ w[x] \in Nat
      <4>1. \A y \in S \cup {x} : w[y] \in Nat
        BY <3>2
      <4> HIDE DEF Adds, Bad, S
      <4>2. SumOf(w, S \cup {x}) = SumOf(w, S) + w[x]
        BY <3>2, <3>4, <4>1, SumAdds
      <4>3. QED
        BY <3>2, <4>1, <4>2
    <3>6. SumOf(w, A \cup T) = SumOf(w, A \cup S) + w[x]
      <4> DEFINE R == A \cup S
      <4>1. /\ IsFiniteSet(R) /\ x \notin R /\ R \cup {x} = A \cup T
            /\ \A y \in R \cup {x} : w[y] \in Nat
        BY <3>2, <3>4
      <4> HIDE DEF R
      <4>2. SumOf(w, R \cup {x}) = SumOf(w, R) + w[x]
        BY <4>1, SumAdds
      <4>3. QED
        BY <4>1, <4>2 DEF R
    <3> HIDE DEF S
    <3>7. QED
      BY <1>1, <3>2, <3>3, <3>5, <3>6
  <2>4. QED
    BY <2>2, <2>3
<1>3. Adds(B)
  BY <1>2
<1>4. QED
  BY <1>1, <1>3
=============================================================================
