---------------------------- MODULE LogRows_proofs ----------------------------
(***************************************************************************)
(* For any number of containers, batches, sweeps and purges, as long as no *)
(* listing misses a container that will log again: every line is filed     *)
(* under the row of the container that wrote it, every row counts exactly  *)
(* the bytes of its lines, and a sweep evicts what the caps ask for.       *)
(***************************************************************************)
EXTENDS LogRows, FiniteSetTheorems, WellFoundedInduction, TLAPS

-----------------------------------------------------------------------------
\* A nonempty set of naturals with a bound has a maximum: the distances from the
\* bound have a minimum.
LEMMA BoundedHasMax ==
    ASSUME NEW n \in Nat, NEW S \in SUBSET (0 .. n), S # {}
    PROVE  Max(S) \in S /\ \A y \in S : Max(S) >= y
<1> DEFINE T == {n - s : s \in S}
<1>0. \A s \in S : s \in Nat /\ n - s \in Nat
  <2> SUFFICES ASSUME NEW s \in S PROVE s \in Nat /\ n - s \in Nat
    OBVIOUS
  <2>1. s \in 0 .. n
    OBVIOUS
  <2> QED
    BY <2>1, SMT
<1>1. T \subseteq Nat /\ T # {}
  <2>1. T \subseteq Nat
    BY <1>0, Zenon
  <2>2. PICK s \in S : TRUE
    OBVIOUS
  <2>3. n - s \in T
    BY <2>2, Zenon
  <2> QED
    BY <2>1, <2>3, Zenon
<1>2. PICK x \in T : \A y \in T : ~(<<y, x>> \in OpToRel(<, Nat))
  <2> HIDE DEF T
  <2> QED
    BY <1>1, NatLessThanWellFounded, WFMin, Zenon
<1>3. \A y \in T : ~(y < x)
  <2> SUFFICES ASSUME NEW y \in T, y < x PROVE FALSE
    OBVIOUS
  <2>1. x \in Nat /\ y \in Nat
    BY <1>1
  <2>2. <<y, x>> \in OpToRel(<, Nat)
    BY <2>1, SMT DEF OpToRel
  <2> QED
    BY <1>2, <2>2
<1>4. PICK m \in S : x = n - m
  BY <1>2
<1>5. \A y \in S : m >= y
  <2> SUFFICES ASSUME NEW y \in S PROVE m >= y
    OBVIOUS
  <2>1. ~(n - y < n - m)
    BY <1>3, <1>4
  <2>2. y \in Nat /\ m \in Nat
    BY <1>0
  <2> HIDE DEF T
  <2> QED
    BY <2>1, <2>2, SMT
<1> QED
  BY <1>5, Zenon DEF Max

-----------------------------------------------------------------------------
(***************************************************************************)
(* Sums over finite sets.  The folds of LogRows pick the elements of a set *)
(* in some fixed order; that the order does not matter is shown once, by   *)
(* looking at a smallest set for which it would.                           *)
(***************************************************************************)
Some(s) == CHOOSE x \in s : TRUE
SumBody(f, w, s) == IF s = {} THEN 0 ELSE w[Some(s)] + f[s \ {Some(s)}]
IsSum(f, w, S) == f = [s \in SUBSET S |-> SumBody(f, w, s)]
SumOver(w, S) == (CHOOSE f : IsSum(f, w, S))[S]

LEMMA SmallestSet ==
    ASSUME NEW S, IsFiniteSet(S), NEW B \in SUBSET (SUBSET S), B # {}
    PROVE  \E s \in B : IsFiniteSet(s) /\ \A t \in B : ~(t \subseteq s /\ t # s)
<1>1. B \subseteq FiniteSubsetsOf(S)
  <2>1. \A t \in B : IsFiniteSet(t)
    BY FS_Subset
  <2> QED
    BY <2>1 DEF FiniteSubsetsOf
<1>2. PICK s \in B : \A t \in B : ~(<<t, s>> \in StrictSubsetOrdering(S))
  BY <1>1, FS_StrictSubsetOrderingWellFounded, WFMin, Zenon
<1>3. \A t \in B : <<t, s>> \in StrictSubsetOrdering(S) <=> t \subseteq s /\ t # s
  BY DEF StrictSubsetOrdering
<1>4. IsFiniteSet(s)
  BY FS_Subset
<1>5. \A t \in B : ~(t \subseteq s /\ t # s)
  BY <1>2, <1>3
<1> QED
  BY <1>4, <1>5

LEMMA SomeIsIn == \A s : s # {} => Some(s) \in s /\ s \ {Some(s)} \subseteq s /\ s \ {Some(s)} # s
BY DEF Some

\* A sum of a part of the set agrees with a sum of the set.
LEMMA SumsAgree ==
    ASSUME NEW w, NEW S, IsFiniteSet(S), NEW T \in SUBSET S, NEW f, NEW g, IsSum(f, w, S), IsSum(g, w, T)
    PROVE  \A s \in SUBSET T : f[s] = g[s]
<1> DEFINE B == {s \in SUBSET T : f[s] # g[s]}
<1>1. SUFFICES ASSUME B # {} PROVE FALSE
  OBVIOUS
<1>2. B \in SUBSET (SUBSET S)
  OBVIOUS
<1>3. PICK s \in B : \A t \in B : ~(t \subseteq s /\ t # s)
  <2> HIDE DEF B
  <2> QED
    BY <1>1, <1>2, SmallestSet
<1>4. s \in SUBSET T /\ s \in SUBSET S /\ f[s] # g[s]
  OBVIOUS
<1>5. f[s] = SumBody(f, w, s) /\ g[s] = SumBody(g, w, s)
  BY <1>4, Zenon DEF IsSum
<1>6. s # {}
  BY <1>4, <1>5 DEF SumBody
<1>7. PICK t : t = s \ {Some(s)} /\ t \subseteq s /\ t # s
  BY <1>6, SomeIsIn
<1>8. f[t] = g[t]
  <2>1. t \in SUBSET T
    BY <1>4, <1>7
  <2>2. t \notin B
    BY <1>3, <1>7
  <2> QED
    BY <2>1, <2>2
<1>9. f[s] = w[Some(s)] + f[t] /\ g[s] = w[Some(s)] + g[t]
  BY <1>5, <1>6, <1>7, Zenon DEF SumBody
<1> QED
  BY <1>4, <1>8, <1>9

LEMMA SumExists == ASSUME NEW w, NEW S, IsFiniteSet(S) PROVE \E f : IsSum(f, w, S)
<1> DEFINE B == {s \in SUBSET S : ~ \E f : IsSum(f, w, s)}
<1>1. SUFFICES ASSUME B # {} PROVE FALSE
  <2>1. S \in SUBSET S
    OBVIOUS
  <2> QED
    BY <2>1
<1>2. PICK T \in B : IsFiniteSet(T) /\ \A t \in B : ~(t \subseteq T /\ t # T)
  <2>1. B \in SUBSET (SUBSET S)
    OBVIOUS
  <2> HIDE DEF B
  <2> QED
    BY <1>1, <2>1, SmallestSet
<1>3. T \in SUBSET S /\ ~ \E f : IsSum(f, w, T)
  OBVIOUS
<1>4. ASSUME NEW t \in SUBSET T, t # T PROVE IsSum(CHOOSE f : IsSum(f, w, t), w, t)
  <2>1. t \in SUBSET S /\ t \notin B
    BY <1>2, <1>3, <1>4
  <2>2. \E f : IsSum(f, w, t)
    BY <2>1
  <2> QED
    BY <2>2, Zenon
<1> HIDE DEF B
<1> DEFINE F == [s \in SUBSET T |-> IF s = {} THEN 0 ELSE w[Some(s)] + SumOver(w, s \ {Some(s)})]
<1>5. ASSUME NEW s \in SUBSET T, s # {} PROVE F[s \ {Some(s)}] = SumOver(w, s \ {Some(s)})
  <2>0. PICK t : t = s \ {Some(s)}
    OBVIOUS
  <2>1. t = s \ {Some(s)} /\ t \in SUBSET T /\ t # T
    <3>1. Some(s) \in T /\ Some(s) \notin t
      BY <1>5, <2>0, SomeIsIn
    <3> QED
      BY <1>5, <2>0, <3>1
  <2>2. PICK h : h = (CHOOSE f : IsSum(f, w, t)) /\ IsSum(h, w, t)
    BY <1>4, <2>1
  <2>3. SumOver(w, t) = h[t]
    BY <2>2 DEF SumOver
  <2>4. t \in SUBSET t
    OBVIOUS
  <2>5. h[t] = SumBody(h, w, t)
    BY <2>2, <2>4, Zenon DEF IsSum
  <2>6. CASE t = {}
    <3>1. F[t] = 0
      BY <2>1, <2>6
    <3> HIDE DEF F
    <3> QED
      BY <2>1, <2>3, <2>5, <2>6, <3>1 DEF SumBody
  <2>7. CASE t # {}
    <3>0. PICK u : u = t \ {Some(t)}
      OBVIOUS
    <3>1. u = t \ {Some(t)} /\ u \in SUBSET t /\ u \in SUBSET T /\ u # T
      BY <2>1, <3>0
    <3>2. F[t] = w[Some(t)] + SumOver(w, u)
      BY <2>1, <2>7, <3>1, Zenon
    <3>3. h[t] = w[Some(t)] + h[u]
      BY <2>5, <2>7, <3>1, Zenon DEF SumBody
    <3>4. PICK k : k = (CHOOSE f : IsSum(f, w, u)) /\ IsSum(k, w, u)
      BY <1>4, <3>1
    <3>5. SumOver(w, u) = k[u]
      BY <3>4 DEF SumOver
    <3>6. IsFiniteSet(t)
      BY <1>2, <2>1, FS_Subset
    <3>7. h[u] = k[u]
      <4>1. u \in SUBSET u
        OBVIOUS
      <4> QED
        BY <2>2, <3>1, <3>4, <3>6, <4>1, SumsAgree
    <3> HIDE DEF F
    <3> QED
      BY <2>1, <2>3, <3>2, <3>3, <3>5, <3>7
  <2> HIDE DEF F
  <2> QED
    BY <2>6, <2>7
<1>6. \A s \in SUBSET T : F[s] = SumBody(F, w, s)
  <2> SUFFICES ASSUME NEW s \in SUBSET T PROVE F[s] = SumBody(F, w, s)
    OBVIOUS
  <2>1. CASE s = {}
    BY <2>1 DEF SumBody
  <2>2. CASE s # {}
    <3>1. F[s] = w[Some(s)] + SumOver(w, s \ {Some(s)})
      BY <2>2
    <3>2. F[s \ {Some(s)}] = SumOver(w, s \ {Some(s)})
      BY <1>5, <2>2
    <3> HIDE DEF F
    <3> QED
      BY <2>2, <3>1, <3>2, Zenon DEF SumBody
  <2> QED
    BY <2>1, <2>2
<1>7. F = [s \in SUBSET T |-> F[s]]
  OBVIOUS
<1> HIDE DEF F
<1>8. F = [s \in SUBSET T |-> SumBody(F, w, s)]
  BY <1>6, <1>7, Zenon
<1> QED
  BY <1>3, <1>8 DEF IsSum

\* What a sum is, whatever element it takes first.
LEMMA SumSteps ==
    ASSUME NEW w, NEW S, IsFiniteSet(S)
    PROVE  /\ S = {} => SumOver(w, S) = 0
           /\ S # {} => SumOver(w, S) = w[Some(S)] + SumOver(w, S \ {Some(S)})
<1>1. PICK f : f = (CHOOSE h : IsSum(h, w, S)) /\ IsSum(f, w, S)
  BY SumExists, Zenon
<1>2. SumOver(w, S) = f[S]
  BY <1>1 DEF SumOver
<1>3. S \in SUBSET S
  OBVIOUS
<1>4. f[S] = SumBody(f, w, S)
  BY <1>1, <1>3, Zenon DEF IsSum
<1>5. CASE S = {}
  BY <1>2, <1>4, <1>5 DEF SumBody
<1>6. CASE S # {}
  <2>1. PICK t : t = S \ {Some(S)} /\ t \in SUBSET S
    OBVIOUS
  <2>2. IsFiniteSet(t)
    BY <2>1, FS_Subset
  <2>3. PICK g : g = (CHOOSE h : IsSum(h, w, t)) /\ IsSum(g, w, t)
    BY <2>2, SumExists, Zenon
  <2>4. SumOver(w, t) = g[t]
    BY <2>3 DEF SumOver
  <2>5. f[t] = g[t]
    <3>1. t \in SUBSET t
      OBVIOUS
    <3> QED
      BY <1>1, <2>1, <2>3, <3>1, SumsAgree
  <2>6. f[S] = w[Some(S)] + f[t]
    BY <1>4, <1>6, <2>1, Zenon DEF SumBody
  <2> QED
    BY <1>2, <1>6, <2>1, <2>4, <2>5, <2>6
<1> QED
  BY <1>5, <1>6

LEMMA SumIsNatural ==
    ASSUME NEW w, NEW S, IsFiniteSet(S), \A x \in S : w[x] \in Nat
    PROVE  SumOver(w, S) \in Nat
<1> DEFINE B == {s \in SUBSET S : SumOver(w, s) \notin Nat}
<1>1. SUFFICES ASSUME B # {} PROVE FALSE
  <2>1. S \in SUBSET S
    OBVIOUS
  <2> QED
    BY <2>1
<1>2. PICK s \in B : IsFiniteSet(s) /\ \A t \in B : ~(t \subseteq s /\ t # s)
  <2>1. B \in SUBSET (SUBSET S)
    OBVIOUS
  <2> HIDE DEF B
  <2> QED
    BY <1>1, <2>1, SmallestSet
<1>3. s \in SUBSET S /\ SumOver(w, s) \notin Nat
  OBVIOUS
<1>4. s # {}
  <2> HIDE DEF B
  <2> SUFFICES ASSUME s = {} PROVE FALSE
    OBVIOUS
  <2>1. SumOver(w, s) = 0
    BY <1>2, SumSteps
  <2> QED
    BY <1>3, <2>1
<1>5. PICK t : t = s \ {Some(s)} /\ t \subseteq s /\ t # s /\ Some(s) \in S
  BY <1>3, <1>4, SomeIsIn
<1>6. SumOver(w, s) = w[Some(s)] + SumOver(w, t)
  BY <1>2, <1>4, <1>5, SumSteps
<1>7. SumOver(w, t) \in Nat
  <2>1. t \in SUBSET S /\ t \notin B
    BY <1>2, <1>3, <1>5
  <2> QED
    BY <2>1
<1> QED
  BY <1>3, <1>5, <1>6, <1>7

LEMMA SumTakes ==
    ASSUME NEW w, NEW S, IsFiniteSet(S), \A x \in S : w[x] \in Nat, NEW e \in S
    PROVE  SumOver(w, S) = w[e] + SumOver(w, S \ {e})
<1> DEFINE B == {s \in SUBSET S : \E x \in s : SumOver(w, s) # w[x] + SumOver(w, s \ {x})}
<1>1. SUFFICES ASSUME B # {} PROVE FALSE
  <2>1. S \in SUBSET S
    OBVIOUS
  <2> QED
    BY <2>1
<1>2. PICK s \in B : IsFiniteSet(s) /\ \A t \in B : ~(t \subseteq s /\ t # s)
  <2>1. B \in SUBSET (SUBSET S)
    OBVIOUS
  <2> HIDE DEF B
  <2> QED
    BY <1>1, <2>1, SmallestSet
<1>3. PICK x \in s : s \in SUBSET S /\ SumOver(w, s) # w[x] + SumOver(w, s \ {x})
  OBVIOUS
<1>4. PICK c : c = Some(s) /\ c \in s
  BY <1>3, SomeIsIn
<1>5. SumOver(w, s) = w[c] + SumOver(w, s \ {c})
  BY <1>2, <1>3, <1>4, SumSteps
<1>6. x # c
  BY <1>3, <1>5
<1>7. \A t \in SUBSET s : t # s => \A y \in t : SumOver(w, t) = w[y] + SumOver(w, t \ {y})
  <2> SUFFICES ASSUME NEW t \in SUBSET s, t # s PROVE \A y \in t : SumOver(w, t) = w[y] + SumOver(w, t \ {y})
    OBVIOUS
  <2>1. t \notin B /\ t \in SUBSET S
    BY <1>2, <1>3
  <2> QED
    BY <2>1
<1> HIDE DEF B
<1>8. SumOver(w, s \ {c}) = w[x] + SumOver(w, (s \ {c}) \ {x})
  <2>1. s \ {c} \in SUBSET s /\ s \ {c} # s /\ x \in s \ {c}
    BY <1>3, <1>4, <1>6
  <2> QED
    BY <1>7, <2>1
<1>9. SumOver(w, s \ {x}) = w[c] + SumOver(w, (s \ {x}) \ {c})
  <2>1. s \ {x} \in SUBSET s /\ s \ {x} # s /\ c \in s \ {x}
    BY <1>3, <1>4, <1>6
  <2> QED
    BY <1>7, <2>1
<1>10. PICK r : r = (s \ {c}) \ {x} /\ r = (s \ {x}) \ {c} /\ r \in SUBSET S
  BY <1>3
<1>11. SumOver(w, r) \in Nat /\ w[x] \in Nat /\ w[c] \in Nat
  <2>1. IsFiniteSet(r)
    BY <1>10, FS_Subset
  <2>2. \A y \in r : w[y] \in Nat
    BY <1>10
  <2> QED
    BY <1>3, <1>4, <2>1, <2>2, SumIsNatural
<1>12. PICK p, q : p = SumOver(w, s \ {c}) /\ q = SumOver(w, s \ {x})
  OBVIOUS
<1>13. p = w[x] + SumOver(w, r) /\ q = w[c] + SumOver(w, r) /\ SumOver(w, s) = w[c] + p
  BY <1>5, <1>8, <1>9, <1>10, <1>12
<1>14. SumOver(w, s) = w[x] + q
  BY <1>11, <1>13
<1> QED
  BY <1>3, <1>12, <1>14

LEMMA SumSplits ==
    ASSUME NEW w, NEW A, NEW C, IsFiniteSet(A), IsFiniteSet(C), A \intersect C = {},
           \A x \in A \union C : w[x] \in Nat
    PROVE  SumOver(w, A \union C) = SumOver(w, A) + SumOver(w, C)
<1> DEFINE B == {s \in SUBSET C : SumOver(w, A \union s) # SumOver(w, A) + SumOver(w, s)}
<1>1. SUFFICES ASSUME B # {} PROVE FALSE
  <2>1. C \in SUBSET C
    OBVIOUS
  <2> QED
    BY <2>1
<1>2. PICK s \in B : IsFiniteSet(s) /\ \A t \in B : ~(t \subseteq s /\ t # s)
  <2>1. B \in SUBSET (SUBSET C)
    OBVIOUS
  <2> HIDE DEF B
  <2> QED
    BY <1>1, <2>1, SmallestSet
<1>3. s \in SUBSET C /\ SumOver(w, A \union s) # SumOver(w, A) + SumOver(w, s)
  OBVIOUS
<1>4. SumOver(w, A) \in Nat
  BY SumIsNatural
<1>5. CASE s = {}
  <2> HIDE DEF B
  <2>1. PICK u : u = A \union s /\ u = A
    BY <1>5
  <2>2. SumOver(w, s) = 0
    BY <1>2, <1>5, SumSteps
  <2>3. PICK p \in Nat : p = SumOver(w, A)
    BY <1>4
  <2>4. SumOver(w, u) = p /\ SumOver(w, u) # p + 0
    BY <1>3, <2>1, <2>2, <2>3
  <2> QED
    BY <2>4
<1>6. CASE s # {}
  <2>1. PICK e \in s : TRUE
    BY <1>6
  <2>0. PICK t : t = s \ {e}
    OBVIOUS
  <2>2. t = s \ {e} /\ t \in SUBSET C /\ t # s /\ t \subseteq s /\ e \notin A /\ e \in C
    <3> HIDE DEF B
    <3> QED
      BY <1>3, <2>0, <2>1
  <2>3. SumOver(w, A \union t) = SumOver(w, A) + SumOver(w, t)
    <3>1. t \notin B
      BY <1>2, <2>2
    <3> QED
      BY <2>2, <3>1
  <2> HIDE DEF B
  <2>4. IsFiniteSet(t) /\ IsFiniteSet(A \union s)
    BY <1>2, <2>2, FS_Subset, FS_Union
  <2>5. SumOver(w, s) = w[e] + SumOver(w, t)
    <3>1. \A x \in s : w[x] \in Nat
      BY <1>3
    <3> QED
      BY <1>2, <2>1, <2>2, <3>1, SumTakes
  <2>6. SumOver(w, A \union s) = w[e] + SumOver(w, A \union t)
    <3>0. PICK u : u = A \union s
      OBVIOUS
    <3>1. u = A \union s /\ e \in u /\ u \ {e} = A \union t
      BY <2>1, <2>2, <3>0
    <3>2. \A x \in u : w[x] \in Nat
      BY <1>3, <3>1
    <3> QED
      BY <2>4, <3>1, <3>2, SumTakes
  <2>7. SumOver(w, t) \in Nat /\ w[e] \in Nat
    <3>1. \A x \in t : w[x] \in Nat
      BY <2>2
    <3> QED
      BY <2>2, <2>4, <3>1, SumIsNatural
  <2>8. PICK p, q : p = SumOver(w, A \union s) /\ q = SumOver(w, A \union t)
    OBVIOUS
  <2>9. p = w[e] + q /\ q = SumOver(w, A) + SumOver(w, t)
    BY <2>3, <2>6, <2>8
  <2>10. p = SumOver(w, A) + (w[e] + SumOver(w, t))
    BY <1>4, <2>7, <2>9
  <2> QED
    BY <1>3, <2>5, <2>8, <2>10
<1> QED
  BY <1>5, <1>6

LEMMA SumsOfSame ==
    ASSUME NEW w, NEW v, NEW S, IsFiniteSet(S), \A x \in S : w[x] = v[x]
    PROVE  SumOver(w, S) = SumOver(v, S)
<1> DEFINE B == {s \in SUBSET S : SumOver(w, s) # SumOver(v, s)}
<1>1. SUFFICES ASSUME B # {} PROVE FALSE
  <2>1. S \in SUBSET S
    OBVIOUS
  <2> QED
    BY <2>1
<1>2. PICK s \in B : IsFiniteSet(s) /\ \A t \in B : ~(t \subseteq s /\ t # s)
  <2>1. B \in SUBSET (SUBSET S)
    OBVIOUS
  <2> HIDE DEF B
  <2> QED
    BY <1>1, <2>1, SmallestSet
<1>3. s \in SUBSET S /\ SumOver(w, s) # SumOver(v, s)
  OBVIOUS
<1>4. s # {}
  <2> HIDE DEF B
  <2> QED
    BY <1>2, <1>3, SumSteps
<1>5. PICK t : t = s \ {Some(s)} /\ t \subseteq s /\ t # s /\ Some(s) \in S
  BY <1>3, <1>4, SomeIsIn
<1>6. SumOver(w, t) = SumOver(v, t)
  <2>1. t \in SUBSET S /\ t \notin B
    BY <1>2, <1>3, <1>5
  <2> QED
    BY <2>1
<1> HIDE DEF B
<1>7. SumOver(w, s) = w[Some(s)] + SumOver(w, t) /\ SumOver(v, s) = v[Some(s)] + SumOver(v, t)
  BY <1>2, <1>4, <1>5, SumSteps
<1> QED
  BY <1>3, <1>5, <1>6, <1>7

LEMMA SumIsMonotone ==
    ASSUME NEW w, NEW v, NEW S, IsFiniteSet(S), \A x \in S : w[x] \in Nat /\ v[x] \in Nat /\ w[x] <= v[x]
    PROVE  SumOver(w, S) <= SumOver(v, S)
<1> DEFINE B == {s \in SUBSET S : ~(SumOver(w, s) <= SumOver(v, s))}
<1>1. SUFFICES ASSUME B # {} PROVE FALSE
  <2>1. S \in SUBSET S
    OBVIOUS
  <2> QED
    BY <2>1
<1>2. PICK s \in B : IsFiniteSet(s) /\ \A t \in B : ~(t \subseteq s /\ t # s)
  <2>1. B \in SUBSET (SUBSET S)
    OBVIOUS
  <2> HIDE DEF B
  <2> QED
    BY <1>1, <2>1, SmallestSet
<1>3. s \in SUBSET S /\ ~(SumOver(w, s) <= SumOver(v, s))
  OBVIOUS
<1>4. s # {}
  <2> HIDE DEF B
  <2> SUFFICES ASSUME s = {} PROVE FALSE
    OBVIOUS
  <2>1. SumOver(w, s) = 0 /\ SumOver(v, s) = 0
    BY <1>2, SumSteps
  <2> QED
    BY <1>3, <2>1
<1>5. PICK t : t = s \ {Some(s)} /\ t \subseteq s /\ t # s /\ Some(s) \in S
  BY <1>3, <1>4, SomeIsIn
<1>6. SumOver(w, t) <= SumOver(v, t)
  <2>1. t \in SUBSET S /\ t \notin B
    BY <1>2, <1>3, <1>5
  <2> QED
    BY <2>1
<1> HIDE DEF B
<1>7. SumOver(w, s) = w[Some(s)] + SumOver(w, t) /\ SumOver(v, s) = v[Some(s)] + SumOver(v, t)
  BY <1>2, <1>4, <1>5, SumSteps
<1>8. SumOver(w, t) \in Nat /\ SumOver(v, t) \in Nat
  <2>1. IsFiniteSet(t) /\ \A x \in t : w[x] \in Nat /\ v[x] \in Nat
    BY <1>2, <1>3, <1>5, FS_Subset
  <2> QED
    BY <2>1, SumIsNatural
<1> QED
  BY <1>3, <1>5, <1>6, <1>7, <1>8

-----------------------------------------------------------------------------
\* The bytes of a set of lines.
FiniteLines == {L \in SUBSET StoredLine : IsFiniteSet(L)}
LineSize == [l \in StoredLine |-> Size[l.ts]]

LEMMA LineSizes == \A l \in StoredLine : LineSize[l] = Size[l.ts] /\ Size[l.ts] \in Nat \ {0} /\ l.ts \in 1 .. MaxLines
BY SizesAssumption DEF LineSize, StoredLine

LEMMA SizeIsSum == ASSUME NEW L \in FiniteLines PROVE SizeOf(L) = SumOver(LineSize, L)
<1> DEFINE Sizes(g) == [s \in SUBSET L |-> IF s = {} THEN 0
                                           ELSE Size[(CHOOSE x \in s : TRUE).ts] + g[s \ {CHOOSE x \in s : TRUE}]]
<1>1. SizeOf(L) = (CHOOSE g : g = Sizes(g))[L]
  BY Zenon DEF SizeOf, MapThenSumSet, MapThenFoldSet
<1>2. L \subseteq StoredLine /\ IsFiniteSet(L)
  BY DEF FiniteLines
<1>3. ASSUME NEW g, NEW s \in SUBSET L
      PROVE  SumBody(g, LineSize, s) = IF s = {} THEN 0
                                       ELSE Size[(CHOOSE x \in s : TRUE).ts] + g[s \ {CHOOSE x \in s : TRUE}]
  <2>1. CASE s = {}
    BY <2>1 DEF SumBody
  <2>2. CASE s # {}
    <3>1. Some(s) \in StoredLine
      BY <1>2, <2>2, SomeIsIn
    <3>2. LineSize[Some(s)] = Size[Some(s).ts]
      BY <3>1, LineSizes
    <3> QED
      BY <2>2, <3>2, Zenon DEF SumBody, Some
  <2> QED
    BY <2>1, <2>2
<1>4. \A g : Sizes(g) = [s \in SUBSET L |-> SumBody(g, LineSize, s)]
  BY <1>3
<1> HIDE DEF Sizes
<1>5. \A g : g = Sizes(g) <=> IsSum(g, LineSize, L)
  BY <1>4, Zenon DEF IsSum
<1>6. PICK f : f = (CHOOSE h : IsSum(h, LineSize, L)) /\ IsSum(f, LineSize, L)
  BY <1>2, SumExists, Zenon
<1>7. PICK g : g = (CHOOSE h : h = Sizes(h)) /\ g = Sizes(g)
  BY <1>5, <1>6, Zenon
<1>8. IsSum(g, LineSize, L)
  BY <1>5, <1>7, Zenon
<1>9. L \in SUBSET L
  OBVIOUS
<1>10. g[L] = f[L]
  BY <1>2, <1>6, <1>8, <1>9, SumsAgree
<1> QED
  BY <1>1, <1>6, <1>7, <1>10 DEF SumOver

LEMMA LineParts == \A L \in FiniteLines : \A A : A \subseteq L => A \in FiniteLines /\ L \ A \in FiniteLines
<1> SUFFICES ASSUME NEW L \in FiniteLines, NEW A, A \subseteq L PROVE A \in FiniteLines /\ L \ A \in FiniteLines
  OBVIOUS
<1>1. IsFiniteSet(A) /\ IsFiniteSet(L \ A)
  BY FS_Subset DEF FiniteLines
<1> QED
  BY <1>1 DEF FiniteLines

LEMMA SizeIsNatural == \A L \in FiniteLines : SizeOf(L) \in Nat
<1> SUFFICES ASSUME NEW L \in FiniteLines PROVE SizeOf(L) \in Nat
  OBVIOUS
<1>1. IsFiniteSet(L) /\ \A l \in L : LineSize[l] \in Nat
  BY LineSizes DEF FiniteLines
<1>2. SumOver(LineSize, L) \in Nat
  BY <1>1, SumIsNatural
<1> QED
  BY <1>2, SizeIsSum

LEMMA SizeOfNone == SizeOf({}) = 0
<1>1. {} \in FiniteLines
  BY FS_EmptySet DEF FiniteLines
<1>2. IsFiniteSet({})
  BY FS_EmptySet
<1>3. SumOver(LineSize, {}) = 0
  BY <1>2, SumSteps
<1> QED
  BY <1>1, <1>3, SizeIsSum

LEMMA SizeSplits ==
    ASSUME NEW L \in FiniteLines, NEW A, A \subseteq L
    PROVE  /\ SizeOf(L) = SizeOf(A) + SizeOf(L \ A)
           /\ SizeOf(L) \in Nat /\ SizeOf(A) \in Nat /\ SizeOf(L \ A) \in Nat /\ SizeOf(A) <= SizeOf(L)
<1>1. PICK C : C = L \ A
  OBVIOUS
<1>2. A \in FiniteLines /\ C \in FiniteLines
  BY <1>1, LineParts
<1>3. IsFiniteSet(A) /\ IsFiniteSet(C) /\ A \intersect C = {} /\ A \union C = L
  BY <1>1, <1>2 DEF FiniteLines
<1>4. \A x \in A \union C : LineSize[x] \in Nat
  BY <1>3, LineSizes DEF FiniteLines
<1>5. SumOver(LineSize, A \union C) = SumOver(LineSize, A) + SumOver(LineSize, C)
  BY <1>3, <1>4, SumSplits
<1>6. SizeOf(L) = SizeOf(A) + SizeOf(C)
  BY <1>2, <1>3, <1>5, SizeIsSum
<1>7. SizeOf(L) \in Nat /\ SizeOf(A) \in Nat /\ SizeOf(C) \in Nat
  BY <1>2, SizeIsNatural
<1> QED
  BY <1>1, <1>6, <1>7

LEMMA SizeOfOne == ASSUME NEW l \in StoredLine PROVE {l} \in FiniteLines /\ SizeOf({l}) = Size[l.ts]
<1>1. PICK S : S = {l}
  OBVIOUS
<1>2. IsFiniteSet(S) /\ S \in FiniteLines
  BY <1>1, FS_Singleton DEF FiniteLines
<1>3. Some(S) = l /\ S \ {Some(S)} = {} /\ S # {}
  BY <1>1 DEF Some
<1>4. SumOver(LineSize, S) = LineSize[l] + SumOver(LineSize, {})
  BY <1>2, <1>3, SumSteps
<1>5. SumOver(LineSize, {}) = 0
  BY FS_EmptySet, SumSteps
<1>6. LineSize[l] \in Nat /\ LineSize[l] = Size[l.ts]
  BY LineSizes
<1>7. SizeOf(S) = Size[l.ts]
  BY <1>2, <1>4, <1>5, <1>6, SizeIsSum
<1> QED
  BY <1>1, <1>2, <1>7

\* A line that was not there adds its size.
LEMMA SizeGrows ==
    ASSUME NEW L \in FiniteLines, NEW l \in StoredLine, l \notin L
    PROVE  L \union {l} \in FiniteLines /\ SizeOf(L \union {l}) = SizeOf(L) + Size[l.ts]
<1>1. PICK M : M = L \union {l}
  OBVIOUS
<1>2. M \in FiniteLines
  <2>1. IsFiniteSet(L \union {l})
    BY FS_AddElement DEF FiniteLines
  <2> QED
    BY <1>1, <2>1 DEF FiniteLines
<1>3. L \subseteq M /\ M \ L = {l}
  BY <1>1
<1>4. SizeOf(M) = SizeOf(L) + SizeOf(M \ L)
  BY <1>2, <1>3, SizeSplits
<1> QED
  BY <1>1, <1>2, <1>3, <1>4, SizeOfOne

LEMMA NoBytesNoLines == ASSUME NEW L \in FiniteLines, SizeOf(L) = 0 PROVE L = {}
<1> SUFFICES ASSUME NEW l \in L PROVE FALSE
  OBVIOUS
<1>1. l \in StoredLine
  BY DEF FiniteLines
<1>2. PICK A : A = {l} /\ A \subseteq L
  OBVIOUS
<1>3. SizeOf(A) = Size[l.ts] /\ Size[l.ts] \in Nat \ {0}
  BY <1>1, <1>2, SizeOfOne, LineSizes
<1>4. SizeOf(A) <= SizeOf(L)
  BY <1>2, SizeSplits
<1> QED
  BY <1>3, <1>4

\* The bytes of the parts of a set of lines add up.
Part(L, p, I) == {l \in L : p[l] \in I}
SizesOfParts(b, L, p, I) == \A i \in I : b[i] = SizeOf(Part(L, p, {i}))

LEMMA PartsAddUp ==
    ASSUME NEW L \in FiniteLines, NEW p, NEW I, IsFiniteSet(I), NEW b, SizesOfParts(b, L, p, I)
    PROVE  SumOver(b, I) = SizeOf(Part(L, p, I))
<1> DEFINE B == {s \in SUBSET I : SumOver(b, s) # SizeOf(Part(L, p, s))}
<1>1. SUFFICES ASSUME B # {} PROVE FALSE
  <2>1. I \in SUBSET I
    OBVIOUS
  <2> QED
    BY <2>1
<1>2. PICK s \in B : IsFiniteSet(s) /\ \A t \in B : ~(t \subseteq s /\ t # s)
  <2>1. B \in SUBSET (SUBSET I)
    OBVIOUS
  <2> HIDE DEF B
  <2> QED
    BY <1>1, <2>1, SmallestSet
<1>3. s \in SUBSET I /\ SumOver(b, s) # SizeOf(Part(L, p, s))
  OBVIOUS
<1>4. s # {}
  <2> HIDE DEF B
  <2> SUFFICES ASSUME s = {} PROVE FALSE
    OBVIOUS
  <2>1. SumOver(b, s) = 0
    BY <1>2, SumSteps
  <2>2. Part(L, p, s) = {}
    BY DEF Part
  <2> QED
    BY <1>3, <2>1, <2>2, SizeOfNone
<1>5. PICK t, i : t = s \ {Some(s)} /\ i = Some(s)
  OBVIOUS
<1>6. t \subseteq s /\ t # s /\ i \in I /\ i \in s
  BY <1>3, <1>4, <1>5, SomeIsIn
<1>7. SumOver(b, t) = SizeOf(Part(L, p, t))
  <2>1. t \in SUBSET I /\ t \notin B
    BY <1>2, <1>3, <1>6
  <2> QED
    BY <2>1
<1> HIDE DEF B
<1>8. SumOver(b, s) = b[i] + SumOver(b, t)
  BY <1>2, <1>4, <1>5, SumSteps
<1>9. PICK A, C : A = Part(L, p, s) /\ C = Part(L, p, {i})
  OBVIOUS
<1>10. A \in FiniteLines /\ C \subseteq A /\ A \ C = Part(L, p, t)
  <2>1. A \subseteq L /\ C \subseteq A /\ A \ C = Part(L, p, t)
    BY <1>5, <1>6, <1>9 DEF Part
  <2> QED
    BY <2>1, LineParts
<1>11. SizeOf(A) = SizeOf(C) + SizeOf(Part(L, p, t))
  BY <1>10, SizeSplits
<1>12. b[i] = SizeOf(Part(L, p, {i}))
  BY <1>6 DEF SizesOfParts
<1> QED
  BY <1>3, <1>7, <1>8, <1>9, <1>11, <1>12

-----------------------------------------------------------------------------
\* What every version of the database is: rows and lines, whatever it counts.
IsDatabase(d) ==
    /\ d = [gen |-> d.gen, removed |-> d.removed, bytes |-> d.bytes, lines |-> d.lines]
    /\ d.gen \in [Ids -> Keys \union {NoKey}] /\ d.removed \subseteq Ids
    /\ \A l \in d.lines : l.ref \in Ids /\ l.of \in Keys

LinesRight(d) == \A l \in d.lines : d.gen[l.ref] = l.of

\* The bytes a statement leaves: of an inserted row, of deleted rows, of evicted
\* lines and of a filed line.
InsertedBytes(d, e, i) == e.bytes = d.bytes \/ (e.bytes = [d.bytes EXCEPT ![i] = 0] /\ d.gen[i] = NoKey)
WithdrawnBytes(d, e, ids) ==
    e.lines = d.lines \ LinesIn(d, ids) /\ e.bytes = [i \in Ids |-> IF i \in ids THEN 0 ELSE d.bytes[i]]
EvictedBytes(d, e, victims) ==
    e.bytes = [i \in Ids |-> LET freed == SizeOf(LinesIn(d, {i}) \intersect victims)
                             IN  IF d.bytes[i] > freed THEN d.bytes[i] - freed ELSE 0]
FiledBytes(d, e, ref, k) ==
    /\ e.lines = d.lines \union {[ts |-> inserted + 1, ref |-> ref, of |-> k]}
    /\ e.bytes = [d.bytes EXCEPT ![ref] = d.bytes[ref] + Size[inserted + 1]]

\* SQLite hands out an id no row has.
LEMMA NextIdIsFree ==
    ASSUME NEW d, IsDatabase(d)
    PROVE  /\ NextId(d) \in Nat \ {0}
           /\ NextId(d) <= MaxId => NextId(d) \in Ids /\ d.gen[NextId(d)] = NoKey
<1> DEFINE S == {0} \union {i \in Ids : d.gen[i] # NoKey}
<1>1. MaxId \in Nat
  BY SizesAssumption
<1>2. S \in SUBSET (0 .. MaxId) /\ S # {}
  BY <1>1, SMT DEF Ids
<1>3. Max(S) \in S /\ \A y \in S : Max(S) >= y
  BY <1>1, <1>2, BoundedHasMax
<1>4. Max(S) \in 0 .. MaxId
  BY <1>2, <1>3
<1>5. NextId(d) = 1 + Max(S)
  BY DEF NextId
<1> HIDE DEF S
<1>6. NextId(d) \in Nat \ {0} /\ NextId(d) \notin S
  BY <1>1, <1>3, <1>4, <1>5, SMT
<1> QED
  BY <1>1, <1>6, SMT DEF S, Ids

\* A row is inserted where there was none, so no line is filed under it yet.
LEMMA RowIsInserted ==
    ASSUME NEW d, IsDatabase(d), NEW k \in Keys, NEW e, e = WithRow(d, k),
           NEW i, i = UpsertId(d, k), i <= MaxId
    PROVE  /\ IsDatabase(e) /\ e.lines = d.lines /\ e.removed = d.removed
           /\ i \in Ids /\ e.gen[i] = k
           /\ \A j \in Ids : d.gen[j] # NoKey => e.gen[j] = d.gen[j]
           /\ \A j \in Ids : e.gen[j] = d.gen[j] \/ (j = i /\ d.gen[j] = NoKey)
           /\ InsertedBytes(d, e, i)
<1>1. CASE HasRow(d, k)
  <2>1. e = d /\ i = RowId(d, k)
    BY <1>1 DEF WithRow, UpsertId
  <2>2. i \in Ids /\ d.gen[i] = k
    BY <1>1, <2>1, Zenon DEF HasRow, RowId
  <2> QED
    BY <2>1, <2>2, Zenon DEF InsertedBytes
<1>2. CASE ~HasRow(d, k)
  <2>1. i = NextId(d) /\ e = [d EXCEPT !.gen[NextId(d)] = k, !.bytes[NextId(d)] = 0]
    BY <1>2 DEF WithRow, UpsertId
  <2>2. i \in Ids /\ d.gen[i] = NoKey
    BY <2>1, NextIdIsFree, Zenon
  <2>3. /\ e.gen = [d.gen EXCEPT ![i] = k] /\ e.lines = d.lines /\ e.removed = d.removed
        /\ e.bytes = [d.bytes EXCEPT ![i] = 0]
        /\ e = [gen |-> e.gen, removed |-> e.removed, bytes |-> e.bytes, lines |-> e.lines]
    <3> DEFINE g == [d EXCEPT !.gen[i] = k]
               D == [gen |-> d.gen, removed |-> d.removed, bytes |-> d.bytes, lines |-> d.lines]
    <3>1. d = D
      BY DEF IsDatabase
    <3>2. e = [[D EXCEPT !.gen[i] = k] EXCEPT !.bytes[i] = 0]
      BY <2>1, <3>1, Zenon
    <3>3. [D EXCEPT !.gen[i] = k] = [gen |-> [d.gen EXCEPT ![i] = k], removed |-> d.removed,
                                     bytes |-> d.bytes, lines |-> d.lines]
      BY SMT
    <3>4. [[gen |-> [d.gen EXCEPT ![i] = k], removed |-> d.removed, bytes |-> d.bytes, lines |-> d.lines]
              EXCEPT !.bytes[i] = 0]
          = [gen |-> [d.gen EXCEPT ![i] = k], removed |-> d.removed,
             bytes |-> [d.bytes EXCEPT ![i] = 0], lines |-> d.lines]
      BY SMT
    <3>5. e = [gen |-> [d.gen EXCEPT ![i] = k], removed |-> d.removed,
               bytes |-> [d.bytes EXCEPT ![i] = 0], lines |-> d.lines]
      BY <3>2, <3>3, <3>4, Zenon
    <3> HIDE DEF D
    <3> QED
      BY <3>5, SMT
  <2>4. InsertedBytes(d, e, i)
    BY <2>2, <2>3 DEF InsertedBytes
  <2> QED
    BY <2>2, <2>3, <2>4, SMT DEF IsDatabase
<1> QED
  BY <1>1, <1>2

-----------------------------------------------------------------------------
\* What the statements make of a database.
WithMarks(d, removed) == [d EXCEPT !.removed = removed]

LEMMA Marked ==
    ASSUME NEW d, IsDatabase(d), NEW S \in SUBSET Ids, NEW e, e = WithMarks(d, S)
    PROVE  IsDatabase(e) /\ e.gen = d.gen /\ e.lines = d.lines /\ e.removed = S /\ e.bytes = d.bytes
<1>1. e = [gen |-> d.gen, removed |-> S, bytes |-> d.bytes, lines |-> d.lines]
  BY SMT DEF IsDatabase, WithMarks
<1> QED
  BY <1>1, SMT DEF IsDatabase

LEMMA Withdrawn ==
    ASSUME NEW d, IsDatabase(d), NEW ids \in SUBSET Ids, NEW e, e = WithoutRows(d, ids)
    PROVE  /\ IsDatabase(e) /\ e.removed = d.removed \ ids
           /\ \A i \in Ids : e.gen[i] = IF i \in ids THEN NoKey ELSE d.gen[i]
           /\ \A l \in e.lines : l \in d.lines /\ l.ref \notin ids
           /\ WithdrawnBytes(d, e, ids)
<1> DEFINE G == [i \in Ids |-> IF i \in ids THEN NoKey ELSE d.gen[i]]
           B == [i \in Ids |-> IF i \in ids THEN 0 ELSE d.bytes[i]]
           L == d.lines \ LinesIn(d, ids)
<1>1. e = [gen |-> G, removed |-> d.removed \ ids, bytes |-> B, lines |-> L]
  BY Zenon DEF WithoutRows
<1>2. G \in [Ids -> Keys \union {NoKey}]
  BY SMT DEF IsDatabase
<1>3. \A l \in L : l \in d.lines /\ l.ref \notin ids
  BY Zenon DEF LinesIn
<1>4. \A i \in Ids : G[i] = IF i \in ids THEN NoKey ELSE d.gen[i]
  BY SMT
<1> HIDE DEF G, B, L
<1>5. e.gen = G /\ e.removed = d.removed \ ids /\ e.bytes = B /\ e.lines = L
  BY <1>1, SMT
<1>6. IsDatabase(e)
  BY <1>1, <1>2, <1>3, <1>5, SMT DEF IsDatabase
<1>7. e.lines = d.lines \ LinesIn(d, ids)
  BY <1>5, Zenon DEF L
<1>8. e.bytes = [i \in Ids |-> IF i \in ids THEN 0 ELSE d.bytes[i]]
  BY <1>5, Zenon DEF B
<1>9. WithdrawnBytes(d, e, ids)
  BY <1>7, <1>8, Zenon DEF WithdrawnBytes
<1> QED
  BY <1>3, <1>4, <1>5, <1>6, <1>9, SMT

WithLines(d, lines, bytes) == [d EXCEPT !.lines = lines, !.bytes = bytes]

LEMMA LinesAndBytes ==
    ASSUME NEW d, IsDatabase(d), NEW L, NEW B, NEW e, e = WithLines(d, L, B),
           \A l \in L : l.ref \in Ids /\ l.of \in Keys
    PROVE  IsDatabase(e) /\ e.gen = d.gen /\ e.removed = d.removed /\ e.lines = L /\ e.bytes = B
<1> DEFINE D == [gen |-> d.gen, removed |-> d.removed, bytes |-> d.bytes, lines |-> d.lines]
<1>1. d = D
  BY DEF IsDatabase
<1>2. e = [[D EXCEPT !.lines = L] EXCEPT !.bytes = B]
  BY <1>1, Zenon DEF WithLines
<1>3. [D EXCEPT !.lines = L] = [gen |-> d.gen, removed |-> d.removed, bytes |-> d.bytes, lines |-> L]
  BY SMT
<1>4. [[gen |-> d.gen, removed |-> d.removed, bytes |-> d.bytes, lines |-> L] EXCEPT !.bytes = B]
      = [gen |-> d.gen, removed |-> d.removed, bytes |-> B, lines |-> L]
  BY SMT
<1>5. e = [gen |-> d.gen, removed |-> d.removed, bytes |-> B, lines |-> L]
  BY <1>2, <1>3, <1>4, Zenon
<1> HIDE DEF D
<1>6. e.gen = d.gen /\ e.removed = d.removed /\ e.bytes = B /\ e.lines = L
  BY <1>5, SMT
<1>7. e = [gen |-> e.gen, removed |-> e.removed, bytes |-> e.bytes, lines |-> e.lines]
  BY <1>5, <1>6, Zenon
<1>8. d.gen \in [Ids -> Keys \union {NoKey}] /\ d.removed \subseteq Ids
  BY Zenon DEF IsDatabase
<1> QED
  BY <1>6, <1>7, <1>8, Zenon DEF IsDatabase

LEMMA EvictedLines ==
    ASSUME NEW d, IsDatabase(d), NEW victims, NEW e, e = Without(d, victims)
    PROVE  /\ IsDatabase(e) /\ e.gen = d.gen /\ e.removed = d.removed /\ e.lines = d.lines \ victims
           /\ EvictedBytes(d, e, victims)
<1> DEFINE B == [i \in Ids |-> LET freed == SizeOf(LinesIn(d, {i}) \intersect victims)
                               IN  IF d.bytes[i] > freed THEN d.bytes[i] - freed ELSE 0]
<1>1. e = WithLines(d, d.lines \ victims, B)
  BY Zenon DEF Without, WithLines
<1>2. \A l \in d.lines \ victims : l.ref \in Ids /\ l.of \in Keys
  BY DEF IsDatabase
<1>3. B = [i \in Ids |-> LET freed == SizeOf(LinesIn(d, {i}) \intersect victims)
                        IN  IF d.bytes[i] > freed THEN d.bytes[i] - freed ELSE 0]
  OBVIOUS
<1> HIDE DEF B
<1>4. /\ IsDatabase(e) /\ e.gen = d.gen /\ e.removed = d.removed /\ e.lines = d.lines \ victims
      /\ e.bytes = B
  BY <1>1, <1>2, LinesAndBytes
<1> QED
  BY <1>3, <1>4, Zenon DEF EvictedBytes

LEMMA LineIsFiled ==
    ASSUME NEW d, IsDatabase(d), NEW ref \in Ids, NEW k \in Keys, NEW e, e = Filed(d, ref, k)
    PROVE  /\ IsDatabase(e) /\ e.gen = d.gen /\ e.removed = d.removed
           /\ \A l \in e.lines : l \in d.lines \/ (l.ref = ref /\ l.of = k)
           /\ FiledBytes(d, e, ref, k)
<1> DEFINE L == d.lines \union {[ts |-> inserted + 1, ref |-> ref, of |-> k]}
           B == [d.bytes EXCEPT ![ref] = d.bytes[ref] + Size[inserted + 1]]
<1>1. e = WithLines(d, L, B)
  BY Zenon DEF Filed, WithLines
<1>2. \A l \in L : l \in d.lines \/ (l.ref = ref /\ l.of = k)
  <2> DEFINE line == [ts |-> inserted + 1, ref |-> ref, of |-> k]
  <2>1. line.ref = ref /\ line.of = k
    BY SMT
  <2> HIDE DEF line
  <2>2. L = d.lines \union {line}
    BY DEF line
  <2> QED
    BY <2>1, <2>2, Zenon
<1>3. \A l \in L : l.ref \in Ids /\ l.of \in Keys
  BY <1>2, SMT DEF IsDatabase
<1> HIDE DEF L, B
<1>4. IsDatabase(e) /\ e.gen = d.gen /\ e.removed = d.removed /\ e.lines = L /\ e.bytes = B
  BY <1>1, <1>3, LinesAndBytes
<1> QED
  BY <1>2, <1>4, Zenon DEF L, B, FiledBytes

-----------------------------------------------------------------------------
\* The parties hold the write lock one at a time, and what they work on is the
\* database until they do.
LockHeld ==
    /\ writer = "writing" => lock = "writer"
    /\ lock = "writer" => writer = "writing"
    /\ purge # "none" => lock = "purge"
    /\ lock = "purge" => purge # "none"
    /\ lock = "free" => tx = db
    /\ writer # "writing" => batch = << >> /\ fresh = NoRefs

Shape ==
    /\ IsDatabase(db) /\ IsDatabase(tx)
    /\ batch \in Seq(Message) /\ ended \subseteq Keys
    /\ refs \in [Keys -> {0} \union Ids] /\ fresh \in [Keys -> {0} \union Ids]

\* Only rows of containers that will not log again are marked, so a row that is
\* pruned is in no cache that will be used.
MarkedAreEnded ==
    /\ \A i \in db.removed : db.gen[i] \in ended
    /\ \A i \in tx.removed : tx.gen[i] \in ended

\* The batch adds rows and changes none, and what it has discovered is in tx.
Batching ==
    lock = "writer" =>
        /\ \A i \in Ids : db.gen[i] # NoKey => tx.gen[i] = db.gen[i]
        /\ \A k \in Keys : fresh[k] # 0 => tx.gen[fresh[k]] = k
        /\ invalidated = {}
        /\ \A j \in 1 .. Len(batch) : batch[j].of \notin ended

\* The purge deletes rows and adds none, and publishes all of them.
Purging ==
    lock = "purge" =>
        /\ \A i \in Ids : tx.gen[i] = db.gen[i] \/ (tx.gen[i] = NoKey /\ db.gen[i] \in purged)
        /\ purge = "published" => purged \subseteq invalidated

RowsInv ==
    /\ Shape /\ LockHeld
    /\ LinesRight(db) /\ LinesRight(tx)
    /\ MarkedAreEnded /\ Batching /\ Purging /\ CacheSound

LEMMA InitRows == Init => RowsInv
<1> SUFFICES ASSUME Init PROVE RowsInv
  OBVIOUS
<1>1. /\ db = Empty /\ tx = Empty /\ lock = "free" /\ writer = "idle" /\ batch = << >>
      /\ refs = NoRefs /\ fresh = NoRefs /\ purge = "none" /\ invalidated = {} /\ ended = {}
  BY Zenon DEF Init
<1>2. Empty.gen = [i \in Ids |-> NoKey] /\ Empty.removed = {} /\ Empty.lines = {}
  BY SMT DEF Empty
<1>3. IsDatabase(Empty)
  <2>1. Empty.bytes = [i \in Ids |-> 0]
    BY SMT DEF Empty
  <2>2. Empty = [gen |-> Empty.gen, removed |-> Empty.removed, bytes |-> Empty.bytes, lines |-> Empty.lines]
    BY <1>2, <2>1, Zenon DEF Empty
  <2>3. Empty.gen \in [Ids -> Keys \union {NoKey}]
    BY <1>2, SMT
  <2> QED
    BY <1>2, <2>2, <2>3, Zenon DEF IsDatabase
<1>4. \A k \in Keys : NoRefs[k] = 0
  BY SMT DEF NoRefs
<1>5. Shape
  <2>1. NoRefs \in [Keys -> {0} \union Ids]
    BY SMT DEF NoRefs
  <2>2. << >> \in Seq(Message)
    BY SMT
  <2> QED
    BY <1>1, <1>3, <2>1, <2>2, SMT DEF Shape
<1>6. LockHeld /\ Batching /\ Purging
  BY <1>1, SMT DEF LockHeld, Batching, Purging
<1>7. LinesRight(db) /\ LinesRight(tx) /\ MarkedAreEnded
  BY <1>1, <1>2, SMT DEF LinesRight, MarkedAreEnded
<1>8. CacheSound
  BY <1>1, <1>4, SMT DEF CacheSound
<1> QED
  BY <1>5, <1>6, <1>7, <1>8 DEF RowsInv

\* A statement that commits by itself.  It must leave alone the rows the writer
\* may hold in its cache.
LEMMA Autocommitted ==
    ASSUME RowsInv, NEW e, IsDatabase(e), LinesRight(e), Autocommit(e), lock' = lock,
           writer # "writing", writer' # "writing",
           UNCHANGED <<batch, refs, fresh, purge, purged, invalidated, ended>>,
           \A i \in e.removed : e.gen[i] \in ended,
           \A i \in Ids : db.gen[i] \in Keys \ ended => e.gen[i] = db.gen[i]
    PROVE  RowsInv'
<1>1. lock = "free" /\ lock' = "free" /\ db' = e /\ tx' = e
  BY DEF Autocommit
<1>2. Shape' /\ LinesRight(db)' /\ LinesRight(tx)' /\ MarkedAreEnded'
  BY <1>1, Zenon DEF RowsInv, Shape, MarkedAreEnded, LinesRight
<1>3. LockHeld' /\ Batching' /\ Purging'
  BY <1>1, SMT DEF RowsInv, LockHeld, Batching, Purging
<1>4. CacheSound'
  <2> SUFFICES ASSUME NEW k \in Keys, k \notin ended, k \notin invalidated, refs[k] # 0
               PROVE  e.gen[refs[k]] = k
    BY <1>1, Zenon DEF CacheSound
  <2>1. db.gen[refs[k]] = k
    BY Zenon DEF RowsInv, CacheSound
  <2>2. refs[k] \in Ids
    BY SMT DEF RowsInv, Shape
  <2> QED
    BY <2>1, <2>2
<1> QED
  BY <1>2, <1>3, <1>4 DEF RowsInv

LEMMA InsertKeepsLines ==
    ASSUME NEW d, IsDatabase(d), LinesRight(d), NEW e, e.lines = d.lines,
           \A j \in Ids : d.gen[j] # NoKey => e.gen[j] = d.gen[j]
    PROVE  LinesRight(e)
<1> SUFFICES ASSUME NEW l \in e.lines PROVE e.gen[l.ref] = l.of
  BY DEF LinesRight
<1>1. d.gen[l.ref] = l.of /\ l.ref \in Ids /\ l.of \in Keys
  BY DEF LinesRight, IsDatabase
<1>2. l.of # NoKey
  BY <1>1, NamesAssumption
<1> QED
  BY <1>1, <1>2

LEMMA UpsertMetaRows == ASSUME RowsInv, NEW k \in Keys, UpsertMeta(k) PROVE RowsInv'
<1> DEFINE i == UpsertId(db, k)
           w == WithRow(db, k)
           e == WithMarks(w, w.removed \ {i})
<1>1. /\ k \notin ended
      /\ NextId(db) <= MaxId \/ HasRow(db, k)
      /\ Autocommit(e)
      /\ UNCHANGED <<lock, writer, batch, refs, fresh, purge, purged, invalidated, ended>>
  BY Zenon DEF UpsertMeta, purging, WithMarks
<1>2. IsDatabase(db) /\ LinesRight(db) /\ writer # "writing"
  BY <1>1, SMT DEF RowsInv, Shape, LockHeld, Autocommit
<1>3. i <= MaxId
  <2>1. CASE HasRow(db, k)
    <3>1. i \in Ids
      BY <2>1, Zenon DEF UpsertId, HasRow, RowId
    <3> HIDE DEF i
    <3> QED
      BY <3>1, SizesAssumption, SMT DEF Ids
  <2>2. CASE ~HasRow(db, k)
    BY <1>1, <2>2, Zenon DEF UpsertId
  <2> QED
    BY <2>1, <2>2
<1>0. i = UpsertId(db, k) /\ w = WithRow(db, k)
  OBVIOUS
<1> HIDE DEF i, w
<1>4. /\ IsDatabase(w) /\ w.lines = db.lines /\ w.removed = db.removed
      /\ \A j \in Ids : db.gen[j] # NoKey => w.gen[j] = db.gen[j]
  BY <1>0, <1>2, <1>3, RowIsInserted
<1>5. w.removed \ {i} \in SUBSET Ids
  BY <1>4, Zenon DEF IsDatabase
<1>6. IsDatabase(e) /\ e.gen = w.gen /\ e.lines = w.lines /\ e.removed = w.removed \ {i}
  BY <1>4, <1>5, Marked
<1> HIDE DEF e
<1>7. LinesRight(e)
  BY <1>2, <1>4, <1>6, InsertKeepsLines
<1>8. \A j \in e.removed : e.gen[j] \in ended
  <2> SUFFICES ASSUME NEW j \in e.removed PROVE e.gen[j] \in ended
    OBVIOUS
  <2>1. j \in db.removed /\ j \in Ids /\ db.gen[j] \in ended
    BY <1>2, <1>4, <1>6, Zenon DEF RowsInv, MarkedAreEnded, IsDatabase
  <2>2. db.gen[j] # NoKey
    BY <2>1, NamesAssumption, Zenon DEF RowsInv, Shape
  <2> QED
    BY <1>4, <1>6, <2>1, <2>2
<1>9. \A j \in Ids : db.gen[j] \in Keys \ ended => e.gen[j] = db.gen[j]
  BY <1>4, <1>6, NamesAssumption, Zenon
<1> QED
  BY <1>1, <1>2, <1>6, <1>7, <1>8, <1>9, Autocommitted

\* With ~Misses only what has ended is missing from a listing.
LEMMA MarkRemovedRows == ASSUME ~Misses, RowsInv, NEW k \in Keys, MarkRemoved(k) PROVE RowsInv'
<1> DEFINE e == WithMarks(db, db.removed \union {RowId(db, k)})
<1>1. /\ k \in ended /\ HasRow(db, k) /\ Autocommit(e)
      /\ UNCHANGED <<lock, writer, batch, refs, fresh, purge, purged, invalidated, ended>>
  BY Zenon DEF MarkRemoved, purging, WithMarks
<1>2. IsDatabase(db) /\ LinesRight(db) /\ writer # "writing"
  BY <1>1, SMT DEF RowsInv, Shape, LockHeld, Autocommit
<1>3. RowId(db, k) \in Ids /\ db.gen[RowId(db, k)] = k
  BY <1>1, Zenon DEF HasRow, RowId
<1>4. db.removed \union {RowId(db, k)} \in SUBSET Ids
  BY <1>2, <1>3, Zenon DEF IsDatabase
<1>5. IsDatabase(e) /\ e.gen = db.gen /\ e.lines = db.lines /\ e.removed = db.removed \union {RowId(db, k)}
  BY <1>2, <1>4, Marked
<1> HIDE DEF e
<1>6. \A j \in e.removed : e.gen[j] \in ended
  BY <1>1, <1>3, <1>5, Zenon DEF RowsInv, MarkedAreEnded
<1>7. LinesRight(e)
  BY <1>2, <1>5, Zenon DEF LinesRight
<1> QED
  BY <1>1, <1>2, <1>5, <1>6, <1>7, Autocommitted

LEMMA EvictRows ==
    ASSUME RowsInv, NEW victims, Evict(victims), writer # "writing", writer' = writer,
           UNCHANGED <<lock, batch, refs, fresh, purge, purged, invalidated, ended>>
    PROVE  RowsInv'
<1> DEFINE e == Without(db, victims)
<1>1. Autocommit(e)
  BY DEF Evict
<1>2. IsDatabase(db) /\ LinesRight(db)
  BY DEF RowsInv, Shape
<1>3. IsDatabase(e) /\ e.gen = db.gen /\ e.removed = db.removed /\ e.lines = db.lines \ victims
  BY <1>2, EvictedLines
<1> HIDE DEF e
<1>4. \A j \in e.removed : e.gen[j] \in ended
  BY <1>3, Zenon DEF RowsInv, MarkedAreEnded
<1>5. LinesRight(e)
  BY <1>2, <1>3, Zenon DEF LinesRight
<1> QED
  BY <1>1, <1>3, <1>4, <1>5, Autocommitted

LEMMA TrimRows == ASSUME RowsInv, NEW n \in Names, Trim(n) PROVE RowsInv'
<1>1. PICK victims : Evict(victims)
  BY Zenon DEF Trim
<1>2. writer = "groups" /\ UNCHANGED <<lock, writer, batch, refs, fresh, purge, purged, invalidated, ended>>
  BY Zenon DEF Trim, purging
<1> QED
  BY <1>1, <1>2, EvictRows

LEMMA TrimPickedRows == ASSUME RowsInv, TrimPicked PROVE RowsInv'
<1>1. PICK victims : Evict(victims)
  BY Zenon DEF TrimPicked
<1>2. writer = "total" /\ UNCHANGED <<lock, writer, batch, refs, fresh, purge, purged, invalidated, ended>>
  BY Zenon DEF TrimPicked, purging
<1> QED
  BY <1>1, <1>2, EvictRows

\* Only rows of ended containers are pruned.
LEMMA PruneRows == ASSUME RowsInv, Prune PROVE RowsInv'
<1> DEFINE e == WithoutRows(db, Prunable)
<1>1. /\ writer = "prune" /\ writer' = "idle" /\ Autocommit(e)
      /\ UNCHANGED <<lock, batch, refs, fresh, purge, purged, invalidated, ended>>
  BY Zenon DEF Prune, SweepOver, purging
<1>2. IsDatabase(db) /\ LinesRight(db)
  BY DEF RowsInv, Shape
<1>3. Prunable \in SUBSET Ids /\ \A i \in Prunable : db.gen[i] \in ended
  BY <1>2, Zenon DEF Prunable, IsDatabase, RowsInv, MarkedAreEnded
<1>4. /\ IsDatabase(e) /\ e.removed = db.removed \ Prunable
      /\ \A i \in Ids : e.gen[i] = IF i \in Prunable THEN NoKey ELSE db.gen[i]
      /\ \A l \in e.lines : l \in db.lines /\ l.ref \notin Prunable
  BY ZenonT(30), <1>2, <1>3, Withdrawn
<1> HIDE DEF e
<1>5. LinesRight(e)
  BY <1>2, <1>4, Zenon DEF LinesRight, IsDatabase
<1>6. \A j \in e.removed : e.gen[j] \in ended
  BY <1>2, <1>4, SMT DEF RowsInv, MarkedAreEnded, IsDatabase
<1>7. \A i \in Ids : db.gen[i] \in Keys \ ended => e.gen[i] = db.gen[i]
  BY <1>3, <1>4, SMT
<1> QED
  BY <1>1, <1>4, <1>5, <1>6, <1>7, Autocommitted

-----------------------------------------------------------------------------
\* Steps of the sweep that touch nothing of this.
LEMMA RowsAside ==
    ASSUME RowsInv, writer = "writing" <=> writer' = "writing",
           UNCHANGED <<db, tx, lock, batch, refs, fresh, purge, purged, invalidated, ended>>
    PROVE  RowsInv'
<1>1. Shape' /\ LinesRight(db)' /\ LinesRight(tx)' /\ MarkedAreEnded' /\ CacheSound'
  BY Zenon DEF RowsInv, Shape, MarkedAreEnded, LinesRight, CacheSound
<1>2. LockHeld'
  BY SMT DEF RowsInv, LockHeld
<1>3. Batching' /\ Purging'
  BY Zenon DEF RowsInv, Batching, Purging
<1> QED
  BY <1>1, <1>2, <1>3 DEF RowsInv

LEMMA SweepRows ==
    ASSUME RowsInv, SweepBegin \/ GroupsTrimmed \/ Pick \/ TotalTrimmed \/ SweepFails
    PROVE  RowsInv'
<1>1. UNCHANGED <<db, tx, lock, batch, refs, fresh, purge, purged, invalidated, ended>>
  BY Zenon DEF SweepBegin, GroupsTrimmed, Pick, TotalTrimmed, SweepFails, sweep, purging
<1>2. writer # "writing" /\ writer' # "writing"
  <2>1. CASE SweepBegin
    BY <2>1, SMT DEF SweepBegin
  <2>2. CASE GroupsTrimmed
    <3>1. writer = "groups" /\ writer' = "total"
      BY <2>2, Zenon DEF GroupsTrimmed
    <3> QED
      BY <3>1
  <2>3. CASE Pick
    <3>1. writer = "total" /\ writer' = "total"
      BY <2>3, Zenon DEF Pick
    <3> QED
      BY <3>1
  <2>4. CASE TotalTrimmed
    <3>1. writer = "total" /\ writer' = "prune"
      BY <2>4, Zenon DEF TotalTrimmed
    <3> QED
      BY <3>1
  <2>5. CASE SweepFails
    <3>1. writer \in {"groups", "total", "prune"} /\ writer' = "idle"
      BY <2>5, Zenon DEF SweepFails, SweepOver
    <3> QED
      BY <3>1
  <2> QED
    BY <2>1, <2>2, <2>3, <2>4, <2>5
<1> QED
  BY <1>1, <1>2, RowsAside

\* A container ends when the batch holds nothing of it.
LEMMA EndRows == ASSUME RowsInv, NEW k \in Keys, End(k) PROVE RowsInv'
<1>1. /\ \A j \in 1 .. Len(batch) : batch[j].of # k
      /\ ended' = ended \union {k}
      /\ UNCHANGED <<db, tx, lock, writer, batch, refs, fresh, purge, purged, invalidated>>
  BY Zenon DEF End, purging
<1>2. Shape' /\ LinesRight(db)' /\ LinesRight(tx)' /\ MarkedAreEnded' /\ CacheSound'
  BY <1>1, Zenon DEF RowsInv, Shape, MarkedAreEnded, LinesRight, CacheSound
<1>3. LockHeld' /\ Purging'
  BY <1>1, Zenon DEF RowsInv, LockHeld, Purging
<1>4. Batching'
  BY <1>1, Zenon DEF RowsInv, Batching
<1> QED
  BY <1>2, <1>3, <1>4 DEF RowsInv

-----------------------------------------------------------------------------
\* The writer takes the lock and drops what purges have published.
LEMMA BeginRows == ASSUME RowsInv, NEW m \in Batches, Begin(m) PROVE RowsInv'
<1>1. /\ writer = "idle" /\ lock = "free" /\ writer' = "writing" /\ lock' = "writer"
      /\ \A j \in 1 .. Len(m) : m[j].of \notin ended
      /\ batch' = m /\ refs' = KeptRefs /\ invalidated' = {}
      /\ UNCHANGED <<db, tx, fresh, purge, purged, ended>>
  BY Zenon DEF Begin, purging
<1>2. m \in Seq(Message)
  BY SMT DEF Batches
<1>3. refs \in [Keys -> {0} \union Ids] /\ tx = db /\ fresh = NoRefs /\ purge = "none"
  BY <1>1, SMT DEF RowsInv, Shape, LockHeld
<1>4. /\ KeptRefs \in [Keys -> {0} \union Ids]
      /\ \A k \in Keys : KeptRefs[k] = IF k \in invalidated THEN 0 ELSE refs[k]
  BY <1>3, SMT DEF KeptRefs
<1>5. \A k \in Keys : fresh[k] = 0
  BY <1>3, SMT DEF NoRefs
<1>6. Shape' /\ LinesRight(db)' /\ LinesRight(tx)' /\ MarkedAreEnded'
  BY <1>1, <1>2, <1>4, Zenon DEF RowsInv, Shape, MarkedAreEnded, LinesRight
<1>7. LockHeld' /\ Purging'
  BY <1>1, <1>3, SMT DEF LockHeld, Purging
<1>8. Batching'
  BY <1>1, <1>3, <1>5, SMT DEF Batching
<1>9. CacheSound'
  <2> SUFFICES ASSUME NEW k \in Keys, k \notin ended, KeptRefs[k] # 0
               PROVE  db.gen[KeptRefs[k]] = k
    BY <1>1, Zenon DEF CacheSound
  <2>1. k \notin invalidated /\ KeptRefs[k] = refs[k]
    BY <1>4
  <2> QED
    BY <2>1, Zenon DEF RowsInv, CacheSound
<1> QED
  BY <1>6, <1>7, <1>8, <1>9 DEF RowsInv

\* A message is filed under the row its container is known to have, or under one
\* that is found or inserted for it.
LEMMA RefIsRow ==
    ASSUME RowsInv, lock = "writer", NEW k \in Keys, k \notin ended, Ref(k) <= MaxId,
           NEW e, e = Resolved(k), NEW i, i = Ref(k)
    PROVE  /\ IsDatabase(e) /\ e.lines = tx.lines /\ e.removed = tx.removed
           /\ i \in Ids /\ e.gen[i] = k
           /\ \A j \in Ids : tx.gen[j] # NoKey => e.gen[j] = tx.gen[j]
<1>1. IsDatabase(tx) /\ refs[k] \in {0} \union Ids /\ fresh[k] \in {0} \union Ids
  BY SMT DEF RowsInv, Shape
<1>2. CASE Known(k) # 0
  <2>1. e = tx /\ i = Known(k)
    BY <1>2, Zenon DEF Resolved, Ref
  <2>2. CASE refs[k] # 0
    <3>1. Known(k) = refs[k] /\ refs[k] \in Ids
      BY <1>1, <2>2, SMT DEF Known
    <3>2. db.gen[refs[k]] = k
      BY <2>2, Zenon DEF RowsInv, CacheSound, Batching
    <3>3. tx.gen[refs[k]] = k
      BY <3>1, <3>2, NamesAssumption, Zenon DEF RowsInv, Batching
    <3> QED
      BY <1>1, <2>1, <3>1, <3>3
  <2>3. CASE refs[k] = 0
    <3>1. Known(k) = fresh[k] /\ fresh[k] # 0
      BY <1>2, <2>3, SMT DEF Known
    <3>2. fresh[k] \in Ids
      BY <1>1, <3>1, SMT
    <3>3. tx.gen[fresh[k]] = k
      BY <3>1, Zenon DEF RowsInv, Batching
    <3> QED
      BY <1>1, <2>1, <3>1, <3>2, <3>3
  <2> QED
    BY <2>2, <2>3
<1>3. CASE Known(k) = 0
  <2>1. e = WithRow(tx, k) /\ i = UpsertId(tx, k) /\ i <= MaxId
    BY <1>3, Zenon DEF Resolved, Ref
  <2> QED
    BY <1>1, <2>1, RowIsInserted
<1> QED
  BY <1>2, <1>3

LEMMA WriteRows == ASSUME RowsInv, Write PROVE RowsInv'
<1> DEFINE m == Head(batch)
           k == m.of
           e == Resolved(k)
           i == Ref(k)
<1>1. /\ writer = "writing" /\ batch # << >> /\ i <= MaxId
      /\ fresh' = [fresh EXCEPT ![k] = IF refs[k] = 0 THEN i ELSE fresh[k]]
      /\ tx' = Filed(e, i, k) \/ tx' = e
      /\ batch' = Tail(batch)
      /\ UNCHANGED <<db, lock, writer, refs, purge, purged, invalidated, ended>>
  BY Zenon DEF Write, purging
<1>2. lock = "writer" /\ batch \in Seq(Message)
  BY <1>1 DEF RowsInv, LockHeld, Shape
<1>3. m \in Message /\ m = batch[1] /\ 1 \in 1 .. Len(batch)
  BY <1>1, <1>2, SMT
<1>4. k \in Keys /\ k \notin ended
  <2>1. k \in Keys
    BY <1>3, SMT DEF Message
  <2>2. batch[1].of \notin ended
    BY <1>2, <1>3, Zenon DEF RowsInv, Batching
  <2> QED
    BY <1>3, <2>1, <2>2
<1>5. e = Resolved(k) /\ i = Ref(k)
  OBVIOUS
<1> HIDE DEF m, k, e, i
<1>6. /\ IsDatabase(e) /\ e.lines = tx.lines /\ e.removed = tx.removed
      /\ i \in Ids /\ e.gen[i] = k
      /\ \A j \in Ids : tx.gen[j] # NoKey => e.gen[j] = tx.gen[j]
  BY <1>1, <1>2, <1>4, <1>5, RefIsRow
<1>7. IsDatabase(tx) /\ LinesRight(tx) /\ refs \in [Keys -> {0} \union Ids]
      /\ fresh \in [Keys -> {0} \union Ids]
  BY DEF RowsInv, Shape
<1>8. LinesRight(e)
  BY <1>6, <1>7, InsertKeepsLines
<1>9. /\ IsDatabase(tx') /\ tx'.gen = e.gen /\ tx'.removed = e.removed /\ LinesRight(tx')
  <2>1. CASE tx' = e
    BY <1>6, <1>8, <2>1
  <2>2. CASE tx' = Filed(e, i, k)
    <3>1. /\ IsDatabase(tx') /\ tx'.gen = e.gen /\ tx'.removed = e.removed
          /\ \A l \in tx'.lines : l \in e.lines \/ (l.ref = i /\ l.of = k)
      BY <1>4, <1>6, <2>2, LineIsFiled
    <3> QED
      BY <1>6, <1>8, <3>1, Zenon DEF LinesRight
  <2> QED
    BY <1>1, <2>1, <2>2
<1>10. /\ fresh' \in [Keys -> {0} \union Ids]
       /\ \A q \in Keys : fresh'[q] = fresh[q] \/ (q = k /\ fresh'[q] = i)
  BY <1>1, <1>4, <1>6, <1>7, SMT
<1>11. /\ batch' \in Seq(Message)
       /\ \A j \in 1 .. Len(batch') : j + 1 \in 1 .. Len(batch) /\ batch'[j] = batch[j + 1]
  BY <1>1, <1>2, SMT
<1>12. Shape'
  BY <1>1, <1>9, <1>10, <1>11, Zenon DEF RowsInv, Shape
<1>13. LockHeld' /\ Purging'
  BY <1>1, <1>2, SMT DEF LockHeld, RowsInv, Purging
<1>14. LinesRight(db)' /\ LinesRight(tx)'
  BY <1>1, <1>9, Zenon DEF RowsInv, LinesRight
<1>15. MarkedAreEnded'
  <2>1. ASSUME NEW j \in tx'.removed PROVE tx'.gen[j] \in ended
    <3>1. j \in Ids /\ tx.gen[j] \in ended
      BY <1>6, <1>7, <1>9, <2>1, Zenon DEF RowsInv, MarkedAreEnded, IsDatabase
    <3>2. tx.gen[j] # NoKey
      BY <3>1, NamesAssumption, Zenon DEF RowsInv, Shape
    <3> QED
      BY <1>6, <1>9, <3>1, <3>2
  <2> QED
    BY <1>1, <2>1, Zenon DEF RowsInv, MarkedAreEnded
<1>16. Batching'
  <2>1. ASSUME NEW j \in Ids, db.gen[j] # NoKey PROVE tx'.gen[j] = db.gen[j]
    BY <1>2, <1>6, <1>9, <2>1, Zenon DEF RowsInv, Batching
  <2>2. ASSUME NEW q \in Keys, fresh'[q] # 0 PROVE tx'.gen[fresh'[q]] = q
    <3>1. CASE fresh'[q] = fresh[q]
      <4>1. fresh[q] \in Ids /\ tx.gen[fresh[q]] = q
        BY <1>2, <1>7, <2>2, <3>1, SMT DEF RowsInv, Batching
      <4>2. q # NoKey
        BY NamesAssumption
      <4> QED
        BY <1>6, <1>9, <3>1, <4>1, <4>2
    <3>2. CASE q = k /\ fresh'[q] = i
      BY <1>6, <1>9, <3>2
    <3> QED
      BY <1>10, <3>1, <3>2
  <2>3. ASSUME NEW j \in 1 .. Len(batch') PROVE batch'[j].of \notin ended
    BY <1>2, <1>11, <2>3, Zenon DEF RowsInv, Batching
  <2>4. invalidated = {}
    BY <1>2 DEF RowsInv, Batching
  <2> QED
    BY <1>1, <2>1, <2>2, <2>3, <2>4, Zenon DEF Batching
<1>17. CacheSound'
  BY <1>1, Zenon DEF RowsInv, CacheSound
<1> QED
  BY <1>12, <1>13, <1>14, <1>15, <1>16, <1>17 DEF RowsInv

\* What the batch has discovered is real once it is committed.
LEMMA CommitRows == ASSUME RowsInv, Commit PROVE RowsInv'
<1>1. /\ writer = "writing" /\ batch = << >> /\ db' = tx
      /\ refs' = [k \in Keys |-> IF fresh[k] # 0 THEN fresh[k] ELSE refs[k]]
      /\ fresh' = NoRefs /\ writer' = "idle" /\ lock' = "free"
      /\ UNCHANGED <<tx, batch, purge, purged, invalidated, ended>>
  BY Zenon DEF Commit, purging
<1>2. lock = "writer" /\ refs \in [Keys -> {0} \union Ids] /\ fresh \in [Keys -> {0} \union Ids]
  BY <1>1 DEF RowsInv, LockHeld, Shape
<1>3. purge = "none"
  BY <1>2, SMT DEF RowsInv, LockHeld
<1>4. /\ refs' \in [Keys -> {0} \union Ids]
      /\ \A k \in Keys : refs'[k] = IF fresh[k] # 0 THEN fresh[k] ELSE refs[k]
  BY <1>1, <1>2, SMT
<1>5. NoRefs \in [Keys -> {0} \union Ids]
  BY SMT DEF NoRefs
<1>6. Shape' /\ LinesRight(db)' /\ LinesRight(tx)' /\ MarkedAreEnded'
  BY <1>1, <1>4, <1>5, Zenon DEF RowsInv, Shape, MarkedAreEnded, LinesRight
<1>7. LockHeld' /\ Purging' /\ Batching'
  BY <1>1, <1>3, SMT DEF LockHeld, Purging, Batching
<1>8. CacheSound'
  <2> SUFFICES ASSUME NEW k \in Keys, k \notin ended, refs'[k] # 0 PROVE tx.gen[refs'[k]] = k
    BY <1>1, Zenon DEF CacheSound
  <2>1. CASE fresh[k] # 0
    BY <1>2, <1>4, <2>1, Zenon DEF RowsInv, Batching
  <2>2. CASE fresh[k] = 0
    <3>1. refs'[k] = refs[k] /\ refs[k] # 0
      BY <1>4, <2>2
    <3>2. refs[k] \in Ids /\ db.gen[refs[k]] = k
      <4>1. invalidated = {}
        BY <1>2 DEF RowsInv, Batching
      <4> QED
        BY <1>2, <3>1, <4>1, SMT DEF RowsInv, CacheSound
    <3> QED
      BY <1>2, <3>1, <3>2, NamesAssumption, Zenon DEF RowsInv, Batching
  <2> QED
    BY <2>1, <2>2
<1> QED
  BY <1>6, <1>7, <1>8 DEF RowsInv

\* A batch that fails leaves the cache as it was.
LEMMA CommitFailsRows == ASSUME RowsInv, CommitFails PROVE RowsInv'
<1>1. /\ writer = "writing" /\ tx' = db /\ batch' = << >> /\ fresh' = NoRefs
      /\ writer' = "idle" /\ lock' = "free"
      /\ UNCHANGED <<db, refs, purge, purged, invalidated, ended>>
  BY Zenon DEF CommitFails, Rollback, purging
<1>2. purge = "none"
  BY <1>1, SMT DEF RowsInv, LockHeld
<1>3. NoRefs \in [Keys -> {0} \union Ids] /\ << >> \in Seq(Message)
  BY SMT DEF NoRefs
<1>4. Shape' /\ LinesRight(db)' /\ LinesRight(tx)' /\ MarkedAreEnded' /\ CacheSound'
  BY <1>1, <1>3, Zenon DEF RowsInv, Shape, MarkedAreEnded, LinesRight, CacheSound
<1>5. LockHeld' /\ Purging' /\ Batching'
  BY <1>1, <1>2, SMT DEF LockHeld, Purging, Batching
<1> QED
  BY <1>4, <1>5 DEF RowsInv

-----------------------------------------------------------------------------
\* A purge deletes the rows of one name; nothing is committed yet.
LEMMA PurgeBeginRows == ASSUME RowsInv, NEW n \in Names, PurgeBegin(n) PROVE RowsInv'
<1> DEFINE ids == IdsOf(db, n)
<1>1. /\ lock = "free" /\ lock' = "purge" /\ purge' = "deleted"
      /\ purged' = {db.gen[i] : i \in ids} /\ tx' = WithoutRows(db, ids)
      /\ UNCHANGED <<db, writer, batch, refs, fresh, invalidated, ended>>
  BY Zenon DEF PurgeBegin
<1>2. IsDatabase(db) /\ LinesRight(db) /\ writer # "writing" /\ ids \in SUBSET Ids
  BY <1>1, SMT DEF RowsInv, Shape, LockHeld, IdsOf
<1> HIDE DEF ids
<1>3. /\ IsDatabase(tx') /\ tx'.removed = db.removed \ ids
      /\ \A i \in Ids : tx'.gen[i] = IF i \in ids THEN NoKey ELSE db.gen[i]
      /\ \A l \in tx'.lines : l \in db.lines /\ l.ref \notin ids
  BY <1>1, <1>2, Withdrawn
<1>4. LinesRight(tx')
  BY <1>2, <1>3, Zenon DEF LinesRight, IsDatabase
<1>5. Shape' /\ LinesRight(db)' /\ LinesRight(tx)' /\ CacheSound'
  BY <1>1, <1>3, <1>4, Zenon DEF RowsInv, Shape, LinesRight, CacheSound
<1>6. MarkedAreEnded'
  BY <1>1, <1>2, <1>3, SMT DEF RowsInv, MarkedAreEnded, IsDatabase
<1>7. LockHeld' /\ Batching'
  BY <1>1, <1>2, SMT DEF LockHeld, Batching, RowsInv
<1>8. Purging'
  <2>1. \A i \in Ids : tx'.gen[i] = db.gen[i] \/ (tx'.gen[i] = NoKey /\ db.gen[i] \in purged')
    BY <1>1, <1>3, Zenon
  <2>2. purge' # "published"
    BY <1>1
  <2> QED
    BY <1>1, <2>1, <2>2, Zenon DEF Purging
<1> QED
  BY <1>5, <1>6, <1>7, <1>8 DEF RowsInv

LEMMA PurgePublishRows == ASSUME RowsInv, PurgePublish PROVE RowsInv'
<1>1. /\ purge = "deleted" /\ purge' = "published" /\ invalidated' = invalidated \union purged
      /\ UNCHANGED <<db, tx, lock, writer, batch, refs, fresh, purged, ended>>
  BY Zenon DEF PurgePublish
<1>2. lock = "purge"
  BY <1>1, SMT DEF RowsInv, LockHeld
<1>3. Shape' /\ LinesRight(db)' /\ LinesRight(tx)' /\ MarkedAreEnded' /\ CacheSound'
  BY <1>1, Zenon DEF RowsInv, Shape, MarkedAreEnded, LinesRight, CacheSound
<1>4. LockHeld' /\ Batching'
  BY <1>1, <1>2, SMT DEF RowsInv, LockHeld, Batching
<1>5. Purging'
  BY <1>1, <1>2, Zenon DEF RowsInv, Purging
<1> QED
  BY <1>3, <1>4, <1>5 DEF RowsInv

\* What the purge commits away the writer has been told of.
LEMMA PurgeCommitRows == ASSUME RowsInv, PurgeCommit PROVE RowsInv'
<1>1. /\ purge = "published" /\ db' = tx /\ purge' = "none" /\ lock' = "free"
      /\ UNCHANGED <<tx, writer, batch, refs, fresh, invalidated, ended>>
  BY Zenon DEF PurgeCommit
<1>2. lock = "purge" /\ writer # "writing"
  BY <1>1, SMT DEF RowsInv, LockHeld
<1>3. Shape' /\ LinesRight(db)' /\ LinesRight(tx)' /\ MarkedAreEnded'
  BY <1>1, Zenon DEF RowsInv, Shape, MarkedAreEnded, LinesRight
<1>4. LockHeld' /\ Batching' /\ Purging'
  BY <1>1, <1>2, SMT DEF RowsInv, LockHeld, Batching, Purging
<1>5. CacheSound'
  <2> SUFFICES ASSUME NEW k \in Keys, k \notin ended, k \notin invalidated, refs[k] # 0
               PROVE  tx.gen[refs[k]] = k
    BY <1>1, Zenon DEF CacheSound
  <2>1. refs[k] \in Ids /\ db.gen[refs[k]] = k
    BY SMT DEF RowsInv, Shape, CacheSound
  <2>2. k \notin purged
    BY <1>1, <1>2, Zenon DEF RowsInv, Purging
  <2> QED
    BY <1>2, <2>1, <2>2, Zenon DEF RowsInv, Purging
<1> QED
  BY <1>3, <1>4, <1>5 DEF RowsInv

LEMMA PurgeFailsRows == ASSUME RowsInv, PurgeFails PROVE RowsInv'
<1>1. /\ purge # "none" /\ tx' = db /\ purge' = "none" /\ lock' = "free"
      /\ UNCHANGED <<db, writer, batch, refs, fresh, invalidated, ended>>
  BY Zenon DEF PurgeFails
<1>2. lock = "purge" /\ writer # "writing"
  BY <1>1, SMT DEF RowsInv, LockHeld
<1>3. Shape' /\ LinesRight(db)' /\ LinesRight(tx)' /\ MarkedAreEnded' /\ CacheSound'
  BY <1>1, Zenon DEF RowsInv, Shape, MarkedAreEnded, LinesRight, CacheSound
<1>4. LockHeld' /\ Batching' /\ Purging'
  BY <1>1, <1>2, SMT DEF RowsInv, LockHeld, Batching, Purging
<1> QED
  BY <1>3, <1>4 DEF RowsInv

-----------------------------------------------------------------------------
LEMMA StepRows == ASSUME ~Misses PROVE RowsInv /\ [Next]_vars => RowsInv'
<1> SUFFICES ASSUME RowsInv, [Next]_vars PROVE RowsInv'
  OBVIOUS
<1>1. CASE SyncStep
  BY <1>1, UpsertMetaRows, MarkRemovedRows, EndRows DEF SyncStep
<1>2. CASE WriteStep
  BY <1>2, BeginRows, WriteRows, CommitRows, CommitFailsRows DEF WriteStep
<1>3. CASE PurgeStep
  BY <1>3, PurgeBeginRows, PurgePublishRows, PurgeCommitRows, PurgeFailsRows DEF PurgeStep
<1>4. CASE SweepStep
  BY <1>4, SweepRows, TrimRows, TrimPickedRows, PruneRows DEF SweepStep
<1>5. CASE UNCHANGED vars
  <2>1. UNCHANGED <<db, tx, lock, writer, batch, refs, fresh, purge, purged, invalidated, ended>>
    BY <1>5, Zenon DEF vars, purging
  <2> QED
    BY <2>1, RowsAside
<1> QED
  BY <1>1, <1>2, <1>3, <1>4, <1>5 DEF Next

\* internal/logstore: as long as no listing misses a container that will log
\* again, whatever batches, rollbacks, sweeps and purges come in whatever order,
\* every stored line is filed under the row of the container that wrote it, and
\* the writer's cache holds the rows of the containers it will file next.
THEOREM LinesStayFiledRight == ASSUME ~Misses PROVE Spec => [](LinesFiledRight /\ CacheSound)
<1>1. RowsInv => LinesFiledRight /\ CacheSound
  BY Zenon DEF RowsInv, LinesRight, LinesFiledRight
<1> QED
  BY <1>1, InitRows, StepRows, PTL DEF Spec

-----------------------------------------------------------------------------
(***************************************************************************)
(* What is counted: the bytes of every row are those of its lines, and     *)
(* every line has a time of its own, no later than the last one inserted.  *)
(***************************************************************************)
Counted(d, last) ==
    /\ d.lines \in FiniteLines /\ d.bytes \in [Ids -> Nat]
    /\ \A i \in Ids : d.bytes[i] = SizeOf(LinesIn(d, {i}))
    /\ \A l \in d.lines : l.ts <= last
    /\ \A l \in d.lines : \A x \in d.lines : l.ts = x.ts => l = x

LEMMA LinesInAreCounted ==
    ASSUME NEW d, NEW last, Counted(d, last), NEW ids
    PROVE  LinesIn(d, ids) \in FiniteLines /\ LinesIn(d, ids) \subseteq d.lines
<1>1. LinesIn(d, ids) \subseteq d.lines
  BY DEF LinesIn
<1> QED
  BY <1>1, LineParts DEF Counted

LEMMA CountLater ==
    ASSUME NEW d, NEW last \in Nat, NEW later \in Nat, Counted(d, last), last <= later
    PROVE  Counted(d, later)
<1>1. \A l \in d.lines : l.ts <= later
  <2> SUFFICES ASSUME NEW l \in d.lines PROVE l.ts <= later
    OBVIOUS
  <2>1. l \in StoredLine /\ l.ts <= last
    BY DEF Counted, FiniteLines
  <2>2. l.ts \in Nat
    BY <2>1, LineSizes, SizesAssumption
  <2> QED
    BY <2>1, <2>2
<1> QED
  BY <1>1, Zenon DEF Counted

\* A row that is inserted has no lines yet.
LEMMA CountInserted ==
    ASSUME NEW d, IsDatabase(d), LinesRight(d), NEW last, Counted(d, last), NEW i \in Ids,
           NEW e, e.lines = d.lines, InsertedBytes(d, e, i)
    PROVE  Counted(e, last)
<1>1. \A j \in Ids : LinesIn(e, {j}) = LinesIn(d, {j})
  BY Zenon DEF LinesIn
<1>2. CASE e.bytes = d.bytes
  BY <1>1, <1>2, Zenon DEF Counted
<1>3. CASE e.bytes = [d.bytes EXCEPT ![i] = 0] /\ d.gen[i] = NoKey
  <2>1. LinesIn(d, {i}) = {}
    <3> SUFFICES ASSUME NEW l \in d.lines, l.ref = i PROVE FALSE
      BY Zenon DEF LinesIn
    <3>1. d.gen[i] = l.of /\ l.of \in Keys
      BY Zenon DEF LinesRight, IsDatabase
    <3> QED
      BY <1>3, <3>1, NamesAssumption
  <2>2. d.bytes \in [Ids -> Nat]
    BY DEF Counted
  <2>3. e.bytes \in [Ids -> Nat] /\ \A j \in Ids : e.bytes[j] = IF j = i THEN 0 ELSE d.bytes[j]
    BY <1>3, <2>2
  <2>4. \A j \in Ids : e.bytes[j] = SizeOf(LinesIn(e, {j}))
    <3> SUFFICES ASSUME NEW j \in Ids PROVE e.bytes[j] = SizeOf(LinesIn(e, {j}))
      OBVIOUS
    <3>1. LinesIn(e, {j}) = LinesIn(d, {j})
      BY <1>1
    <3>2. d.bytes[j] = SizeOf(LinesIn(d, {j}))
      BY DEF Counted
    <3> QED
      BY <2>1, <2>3, <3>1, <3>2, SizeOfNone
  <2> QED
    BY <2>3, <2>4, Zenon DEF Counted
<1> QED
  BY <1>2, <1>3 DEF InsertedBytes

LEMMA CountFewer ==
    ASSUME NEW d, NEW last, Counted(d, last), NEW e, e.lines \subseteq d.lines,
           e.bytes \in [Ids -> Nat], \A i \in Ids : e.bytes[i] = SizeOf(LinesIn(e, {i}))
    PROVE  Counted(e, last)
<1>1. e.lines \in FiniteLines
  BY LineParts DEF Counted
<1> QED
  BY <1>1, Zenon DEF Counted

LEMMA CountWithdrawn ==
    ASSUME NEW d, NEW last, Counted(d, last), NEW e, NEW ids, WithdrawnBytes(d, e, ids)
    PROVE  Counted(e, last) /\ e.lines \subseteq d.lines
<1>1. /\ e.lines = d.lines \ LinesIn(d, ids)
      /\ e.bytes = [i \in Ids |-> IF i \in ids THEN 0 ELSE d.bytes[i]]
  BY DEF WithdrawnBytes
<1>2. e.lines \subseteq d.lines /\ d.bytes \in [Ids -> Nat]
  BY <1>1 DEF Counted
<1>3. e.bytes \in [Ids -> Nat] /\ \A i \in Ids : e.bytes[i] = IF i \in ids THEN 0 ELSE d.bytes[i]
  BY <1>1, <1>2
<1>4. ASSUME NEW i \in Ids PROVE e.bytes[i] = SizeOf(LinesIn(e, {i}))
  <2>1. CASE i \in ids
    <3>1. LinesIn(e, {i}) = {}
      BY <1>1, <2>1 DEF LinesIn
    <3> QED
      BY <1>3, <2>1, <3>1, SizeOfNone
  <2>2. CASE i \notin ids
    <3>1. LinesIn(e, {i}) = LinesIn(d, {i})
      BY <1>1, <2>2 DEF LinesIn
    <3>2. d.bytes[i] = SizeOf(LinesIn(d, {i}))
      BY DEF Counted
    <3> QED
      BY <1>3, <2>2, <3>1, <3>2
  <2> QED
    BY <2>1, <2>2
<1> QED
  BY <1>2, <1>3, <1>4, CountFewer

LEMMA CountEvicted ==
    ASSUME NEW d, NEW last, Counted(d, last), NEW e, NEW victims, e.lines = d.lines \ victims,
           EvictedBytes(d, e, victims)
    PROVE  Counted(e, last)
<1>1. e.bytes = [i \in Ids |-> LET freed == SizeOf(LinesIn(d, {i}) \intersect victims)
                              IN  IF d.bytes[i] > freed THEN d.bytes[i] - freed ELSE 0]
  BY DEF EvictedBytes
<1>2. ASSUME NEW i \in Ids PROVE e.bytes[i] \in Nat /\ e.bytes[i] = SizeOf(LinesIn(e, {i}))
  <2>1. PICK L, A : L = LinesIn(d, {i}) /\ A = L \intersect victims
    OBVIOUS
  <2>2. L \in FiniteLines /\ A \subseteq L
    BY <2>1, LinesInAreCounted
  <2>0. PICK C : C = L \ A
    OBVIOUS
  <2>3. PICK p, q, r : p = SizeOf(L) /\ q = SizeOf(A) /\ r = SizeOf(C)
    OBVIOUS
  <2>4. p = q + r /\ p \in Nat /\ q \in Nat /\ r \in Nat
    BY <2>0, <2>2, <2>3, SizeSplits
  <2>5. d.bytes[i] = p
    BY <2>1, <2>3 DEF Counted
  <2>6. e.bytes[i] = IF p > q THEN p - q ELSE 0
    BY <1>1, <2>1, <2>3, <2>5
  <2>7. LinesIn(e, {i}) = C
    BY <2>0, <2>1 DEF LinesIn
  <2>8. e.bytes[i] = r
    BY <2>4, <2>6
  <2> QED
    BY <2>3, <2>4, <2>7, <2>8
<1>3. e.bytes \in [Ids -> Nat]
  <2>1. e.bytes = [i \in Ids |-> e.bytes[i]]
    BY <1>1
  <2> QED
    BY <1>2, <2>1
<1> QED
  BY <1>2, <1>3, CountFewer

\* A line that is filed is later than all others.
LEMMA CountFiled ==
    ASSUME NEW d, IsDatabase(d), Counted(d, inserted), inserted \in Nat, inserted < MaxLines,
           NEW ref \in Ids, NEW k \in Keys, NEW e, FiledBytes(d, e, ref, k)
    PROVE  Counted(e, inserted + 1)
<1>1. PICK line : line = [ts |-> inserted + 1, ref |-> ref, of |-> k]
  OBVIOUS
<1>2. line \in StoredLine /\ line.ts = inserted + 1 /\ line.ref = ref
  BY <1>1, SizesAssumption DEF StoredLine
<1>3. e.lines = d.lines \union {line} /\ e.bytes = [d.bytes EXCEPT ![ref] = d.bytes[ref] + Size[inserted + 1]]
  BY <1>1, Zenon DEF FiledBytes
<1>4. d.lines \in FiniteLines /\ d.bytes \in [Ids -> Nat]
  BY DEF Counted
<1>5. ASSUME NEW l \in d.lines PROVE l.ts \in Nat /\ l.ts <= inserted /\ l.ts # line.ts /\ l # line
  <2>1. l \in StoredLine /\ l.ts <= inserted
    BY <1>4, Zenon DEF Counted, FiniteLines
  <2>2. l.ts \in Nat
    BY <2>1, LineSizes, SizesAssumption
  <2>3. l.ts # line.ts
    BY <1>2, <2>1, <2>2
  <2> QED
    BY <2>1, <2>2, <2>3
<1>6. line \notin d.lines
  BY <1>5
<1>7. e.lines \in FiniteLines
  <2>1. d.lines \union {line} \in FiniteLines
    BY <1>2, <1>4, <1>6, SizeGrows
  <2> QED
    BY <1>3, <2>1
<1>8. Size[inserted + 1] \in Nat
  BY <1>2, LineSizes
<1>9. /\ e.bytes \in [Ids -> Nat]
      /\ \A i \in Ids : e.bytes[i] = IF i = ref THEN d.bytes[i] + Size[inserted + 1] ELSE d.bytes[i]
  <2>1. PICK z \in Nat : z = d.bytes[ref] + Size[inserted + 1]
    BY <1>4, <1>8
  <2>2. e.bytes = [d.bytes EXCEPT ![ref] = z]
    BY <1>3, <2>1
  <2> QED
    BY <1>4, <2>1, <2>2
<1>10. ASSUME NEW i \in Ids PROVE e.bytes[i] = SizeOf(LinesIn(e, {i}))
  <2>1. PICK L : L = LinesIn(d, {i}) /\ L \in FiniteLines /\ L \subseteq d.lines
    BY LinesInAreCounted
  <2>2. d.bytes[i] = SizeOf(L)
    BY <2>1 DEF Counted
  <2>3. CASE i = ref
    <3>1. LinesIn(e, {i}) = L \union {line}
      BY <1>2, <1>3, <2>1, <2>3 DEF LinesIn
    <3>2. line \notin L
      BY <1>6, <2>1
    <3>3. SizeOf(L \union {line}) = SizeOf(L) + Size[line.ts]
      BY <1>2, <2>1, <3>2, SizeGrows
    <3> QED
      BY <1>2, <1>9, <2>2, <2>3, <3>1, <3>3
  <2>4. CASE i # ref
    <3>1. LinesIn(e, {i}) = L
      BY <1>2, <1>3, <2>1, <2>4 DEF LinesIn
    <3> QED
      BY <1>9, <2>2, <2>4, <3>1
  <2> QED
    BY <2>3, <2>4
<1>11. \A l \in e.lines : l.ts <= inserted + 1
  <2> SUFFICES ASSUME NEW l \in e.lines PROVE l.ts <= inserted + 1
    OBVIOUS
  <2>1. CASE l \in d.lines
    BY <1>5, <2>1
  <2>2. CASE l = line
    BY <1>2, <2>2
  <2> QED
    BY <1>3, <2>1, <2>2
<1>12. \A l \in e.lines : \A x \in e.lines : l.ts = x.ts => l = x
  <2> SUFFICES ASSUME NEW l \in e.lines, NEW x \in e.lines, l.ts = x.ts PROVE l = x
    OBVIOUS
  <2>1. CASE l \in d.lines /\ x \in d.lines
    BY <2>1 DEF Counted
  <2>2. CASE l = line \/ x = line
    BY <1>3, <1>5, <2>2
  <2> QED
    BY <1>3, <2>1, <2>2
<1> QED
  BY <1>7, <1>9, <1>10, <1>11, <1>12, Zenon DEF Counted

\* A purge only takes lines away.
OnlyTakes == lock = "purge" => tx.lines \subseteq db.lines

Places ==
    /\ lock \in {"free", "writer", "purge"}
    /\ writer \in {"idle", "writing", "groups", "total", "prune"}
    /\ purge \in {"none", "deleted", "published"}
    /\ purged \subseteq Keys /\ invalidated \subseteq Keys
    /\ inserted \in 0 .. MaxLines /\ failures \in 0 .. MaxFailures /\ purges \in 0 .. MaxPurges

BytesInv == Counted(db, inserted) /\ Counted(tx, inserted) /\ OnlyTakes /\ Places

LEMMA InitBytes == Init => BytesInv
<1> SUFFICES ASSUME Init PROVE BytesInv
  OBVIOUS
<1>1. /\ db = Empty /\ tx = Empty /\ lock = "free" /\ writer = "idle"
      /\ purge = "none" /\ purged = {} /\ invalidated = {}
      /\ inserted = 0 /\ failures = 0 /\ purges = 0
  BY Zenon DEF Init
<1>2. Empty.bytes = [i \in Ids |-> 0] /\ Empty.lines = {}
  BY SMT DEF Empty
<1>3. Counted(Empty, 0)
  <2>1. Empty.lines \in FiniteLines
    BY <1>2, FS_EmptySet DEF FiniteLines
  <2>2. \A i \in Ids : Empty.bytes[i] = SizeOf(LinesIn(Empty, {i}))
    <3> SUFFICES ASSUME NEW i \in Ids PROVE Empty.bytes[i] = SizeOf(LinesIn(Empty, {i}))
      OBVIOUS
    <3>1. LinesIn(Empty, {i}) = {}
      BY <1>2, Zenon DEF LinesIn
    <3> QED
      BY <1>2, <3>1, SizeOfNone
  <2>3. Empty.bytes \in [Ids -> Nat]
    BY <1>2
  <2> QED
    BY <1>2, <2>1, <2>2, <2>3, Zenon DEF Counted
<1>4. Places
  BY <1>1, SizesAssumption, SMT DEF Places
<1>5. OnlyTakes
  BY <1>1 DEF OnlyTakes
<1>6. Counted(db, inserted) /\ Counted(tx, inserted)
  BY <1>1, <1>3, Zenon
<1> QED
  BY <1>4, <1>5, <1>6 DEF BytesInv

\* Steps that take one of the two versions for the other, or neither.
LEMMA BytesKept ==
    ASSUME BytesInv, db' = db \/ db' = tx, tx' = tx \/ tx' = db, inserted' = inserted,
           lock' = "purge" => lock = "purge" /\ db' = db /\ tx' = tx, Places'
    PROVE  BytesInv'
<1>1. Counted(db, inserted) /\ Counted(tx, inserted)
  BY DEF BytesInv
<1>2. Counted(db, inserted)' /\ Counted(tx, inserted)'
  <2>1. CASE db' = db
    BY <1>1, <2>1, Zenon DEF Counted
  <2>2. CASE db' = tx
    BY <1>1, <2>2, Zenon DEF Counted
  <2> QED
    BY <2>1, <2>2
<1>3. OnlyTakes'
  BY Zenon DEF BytesInv, OnlyTakes
<1> QED
  BY <1>2, <1>3 DEF BytesInv

\* A statement that commits by itself.
LEMMA BytesAutocommitted ==
    ASSUME BytesInv, NEW e, Autocommit(e), Counted(e, inserted), inserted' = inserted, lock' = lock, Places'
    PROVE  BytesInv'
<1>1. lock = "free" /\ lock' = "free" /\ db' = e /\ tx' = e
  BY DEF Autocommit
<1>2. Counted(db, inserted)' /\ Counted(tx, inserted)'
  BY <1>1, Zenon DEF Counted
<1>3. OnlyTakes'
  BY <1>1 DEF OnlyTakes
<1> QED
  BY <1>2, <1>3 DEF BytesInv

LEMMA UpsertMetaBytes == ASSUME RowsInv, BytesInv, NEW k \in Keys, UpsertMeta(k) PROVE BytesInv'
<1> DEFINE i == UpsertId(db, k)
           w == WithRow(db, k)
           e == WithMarks(w, w.removed \ {i})
<1>1. /\ NextId(db) <= MaxId \/ HasRow(db, k)
      /\ Autocommit(e)
      /\ UNCHANGED <<lock, writer, purge, purged, invalidated, inserted, failures, purges>>
  BY Zenon DEF UpsertMeta, purging, bounds, WithMarks
<1>2. IsDatabase(db) /\ LinesRight(db) /\ Counted(db, inserted) /\ Places
  BY DEF RowsInv, Shape, BytesInv
<1>3. i <= MaxId
  <2>1. CASE HasRow(db, k)
    <3>1. i \in Ids
      BY <2>1, Zenon DEF UpsertId, HasRow, RowId
    <3> HIDE DEF i
    <3> QED
      BY <3>1, SizesAssumption, SMT DEF Ids
  <2>2. CASE ~HasRow(db, k)
    BY <1>1, <2>2, Zenon DEF UpsertId
  <2> QED
    BY <2>1, <2>2
<1>0. i = UpsertId(db, k) /\ w = WithRow(db, k)
  OBVIOUS
<1> HIDE DEF i, w
<1>4. /\ IsDatabase(w) /\ w.lines = db.lines /\ w.removed = db.removed
      /\ i \in Ids /\ InsertedBytes(db, w, i)
  BY <1>0, <1>2, <1>3, RowIsInserted
<1>5. w.removed \ {i} \in SUBSET Ids
  BY <1>4, Zenon DEF IsDatabase
<1>6. e.lines = w.lines /\ e.bytes = w.bytes
  BY <1>4, <1>5, Marked
<1>7. Counted(w, inserted)
  BY <1>2, <1>4, CountInserted
<1> HIDE DEF e
<1>8. Counted(e, inserted)
  BY <1>6, <1>7, Zenon DEF Counted, LinesIn
<1>9. Places'
  BY <1>1, <1>2, Zenon DEF Places
<1> QED
  BY <1>1, <1>8, <1>9, BytesAutocommitted

LEMMA MarkRemovedBytes == ASSUME RowsInv, BytesInv, NEW k \in Keys, MarkRemoved(k) PROVE BytesInv'
<1> DEFINE e == WithMarks(db, db.removed \union {RowId(db, k)})
<1>1. /\ HasRow(db, k) /\ Autocommit(e)
      /\ UNCHANGED <<lock, writer, purge, purged, invalidated, inserted, failures, purges>>
  BY Zenon DEF MarkRemoved, purging, bounds, WithMarks
<1>2. IsDatabase(db) /\ Counted(db, inserted) /\ Places
  BY DEF RowsInv, Shape, BytesInv
<1>3. RowId(db, k) \in Ids
  BY <1>1, Zenon DEF HasRow, RowId
<1>4. db.removed \union {RowId(db, k)} \in SUBSET Ids
  BY <1>2, <1>3, Zenon DEF IsDatabase
<1>5. e.lines = db.lines /\ e.bytes = db.bytes
  BY <1>2, <1>4, Marked
<1> HIDE DEF e
<1>6. Counted(e, inserted)
  BY <1>2, <1>5, Zenon DEF Counted, LinesIn
<1>7. Places'
  BY <1>1, <1>2, Zenon DEF Places
<1> QED
  BY <1>1, <1>6, <1>7, BytesAutocommitted

LEMMA EvictBytes ==
    ASSUME RowsInv, BytesInv, NEW victims, Evict(victims),
           UNCHANGED <<lock, writer, purge, purged, invalidated, inserted, failures, purges>>
    PROVE  BytesInv'
<1> DEFINE e == Without(db, victims)
<1>1. Autocommit(e) /\ IsDatabase(db) /\ Counted(db, inserted) /\ Places
  BY DEF Evict, RowsInv, Shape, BytesInv
<1>2. e.lines = db.lines \ victims /\ EvictedBytes(db, e, victims)
  BY <1>1, EvictedLines
<1> HIDE DEF e
<1>3. Counted(e, inserted)
  BY <1>1, <1>2, CountEvicted
<1>4. Places'
  BY <1>1, Zenon DEF Places
<1> QED
  BY <1>1, <1>3, <1>4, BytesAutocommitted

LEMMA TrimBytes == ASSUME RowsInv, BytesInv, NEW n \in Names, Trim(n) PROVE BytesInv'
<1>1. PICK victims : Evict(victims)
  BY Zenon DEF Trim
<1>2. UNCHANGED <<lock, writer, purge, purged, invalidated, inserted, failures, purges>>
  BY Zenon DEF Trim, purging, bounds
<1> QED
  BY <1>1, <1>2, EvictBytes

LEMMA TrimPickedBytes == ASSUME RowsInv, BytesInv, TrimPicked PROVE BytesInv'
<1>1. PICK victims : Evict(victims)
  BY Zenon DEF TrimPicked
<1>2. UNCHANGED <<lock, writer, purge, purged, invalidated, inserted, failures, purges>>
  BY Zenon DEF TrimPicked, purging, bounds
<1> QED
  BY <1>1, <1>2, EvictBytes

LEMMA PruneBytes == ASSUME RowsInv, BytesInv, Prune PROVE BytesInv'
<1> DEFINE e == WithoutRows(db, Prunable)
<1>1. /\ writer' = "idle" /\ Autocommit(e)
      /\ UNCHANGED <<lock, purge, purged, invalidated, inserted, failures, purges>>
  BY Zenon DEF Prune, SweepOver, purging, bounds
<1>2. IsDatabase(db) /\ Counted(db, inserted) /\ Places
  BY DEF RowsInv, Shape, BytesInv
<1>3. Prunable \in SUBSET Ids
  BY <1>2, Zenon DEF Prunable, IsDatabase
<1>4. WithdrawnBytes(db, e, Prunable)
  BY <1>2, <1>3, Withdrawn
<1> HIDE DEF e
<1>5. Counted(e, inserted)
  BY <1>2, <1>4, CountWithdrawn
<1>6. Places'
  BY <1>1, <1>2, SMT DEF Places
<1> QED
  BY <1>1, <1>5, <1>6, BytesAutocommitted

LEMMA WriteBytes == ASSUME RowsInv, BytesInv, Write PROVE BytesInv'
<1> DEFINE m == Head(batch)
           k == m.of
           e == Resolved(k)
           i == Ref(k)
<1>1. /\ writer = "writing" /\ batch # << >> /\ i <= MaxId
      /\ \/ inserted < MaxLines /\ inserted' = inserted + 1 /\ tx' = Filed(e, i, k)
         \/ tx' = e /\ inserted' = inserted
      /\ UNCHANGED <<db, lock, writer, purge, purged, invalidated, failures, purges>>
  BY Zenon DEF Write, purging
<1>2. lock = "writer" /\ batch \in Seq(Message) /\ Counted(db, inserted) /\ Counted(tx, inserted) /\ Places
  BY <1>1 DEF RowsInv, LockHeld, Shape, BytesInv
<1>3. m \in Message /\ m = batch[1] /\ 1 \in 1 .. Len(batch)
  BY <1>1, <1>2, SMT
<1>4. k \in Keys /\ k \notin ended
  <2>1. k \in Keys
    BY <1>3, SMT DEF Message
  <2>2. batch[1].of \notin ended
    BY <1>2, <1>3, Zenon DEF RowsInv, Batching
  <2> QED
    BY <1>3, <2>1, <2>2
<1>5. e = Resolved(k) /\ i = Ref(k)
  OBVIOUS
<1> HIDE DEF m, k, e, i
<1>6. IsDatabase(e) /\ i \in Ids
  BY <1>1, <1>2, <1>4, <1>5, RefIsRow
<1>7. Counted(e, inserted)
  <2>1. CASE Known(k) # 0
    <3>1. e = tx
      BY <1>5, <2>1, Zenon DEF Resolved
    <3> QED
      BY <1>2, <3>1
  <2>2. CASE Known(k) = 0
    <3>1. e = WithRow(tx, k) /\ i = UpsertId(tx, k)
      BY <1>5, <2>2, Zenon DEF Resolved, Ref
    <3>2. IsDatabase(tx) /\ LinesRight(tx)
      BY DEF RowsInv, Shape
    <3>3. e.lines = tx.lines /\ InsertedBytes(tx, e, i)
      BY <1>1, <1>4, <3>1, <3>2, RowIsInserted
    <3> QED
      BY <1>2, <1>6, <3>2, <3>3, CountInserted
  <2> QED
    BY <2>1, <2>2
<1>8. inserted \in Nat /\ MaxLines \in Nat
  BY <1>2, SizesAssumption DEF Places
<1>9. CASE inserted < MaxLines /\ inserted' = inserted + 1 /\ tx' = Filed(e, i, k)
  <2>1. FiledBytes(e, tx', i, k)
    BY <1>4, <1>6, <1>9, LineIsFiled
  <2>2. Counted(tx', inserted + 1)
    BY <1>4, <1>6, <1>7, <1>8, <1>9, <2>1, CountFiled
  <2>3. Counted(db, inserted + 1)
    BY <1>2, <1>8, CountLater
  <2>4. Counted(db, inserted)' /\ Counted(tx, inserted)'
    BY <1>1, <1>9, <2>2, <2>3, Zenon DEF Counted, LinesIn
  <2>5. Places'
    BY <1>1, <1>2, <1>8, <1>9, SMT DEF Places
  <2>6. OnlyTakes'
    BY <1>1, <1>2 DEF OnlyTakes
  <2> QED
    BY <2>4, <2>5, <2>6 DEF BytesInv
<1>10. CASE tx' = e /\ inserted' = inserted
  <2>1. Counted(db, inserted)' /\ Counted(tx, inserted)'
    BY <1>1, <1>2, <1>7, <1>10, Zenon DEF Counted, LinesIn
  <2>2. Places'
    BY <1>1, <1>2, <1>10, Zenon DEF Places
  <2>3. OnlyTakes'
    BY <1>1, <1>2 DEF OnlyTakes
  <2> QED
    BY <2>1, <2>2, <2>3 DEF BytesInv
<1> QED
  BY <1>1, <1>9, <1>10

LEMMA PurgeBeginBytes == ASSUME RowsInv, BytesInv, NEW n \in Names, PurgeBegin(n) PROVE BytesInv'
<1> DEFINE ids == IdsOf(db, n)
<1>1. /\ lock' = "purge" /\ purge' = "deleted" /\ purges < MaxPurges /\ purges' = purges + 1
      /\ purged' = {db.gen[i] : i \in ids} /\ tx' = WithoutRows(db, ids)
      /\ UNCHANGED <<db, writer, invalidated, inserted, failures>>
  BY Zenon DEF PurgeBegin
<1>2. IsDatabase(db) /\ Counted(db, inserted) /\ Places /\ ids \in SUBSET Ids
  BY SMT DEF RowsInv, Shape, BytesInv, IdsOf
<1>3. purged' \subseteq Keys
  <2> SUFFICES ASSUME NEW i \in ids PROVE db.gen[i] \in Keys
    BY <1>1, Zenon
  <2>1. i \in Ids /\ db.gen[i] # NoKey
    BY Zenon DEF IdsOf
  <2> QED
    BY <1>2, <2>1 DEF IsDatabase
<1> HIDE DEF ids
<1>4. WithdrawnBytes(db, tx', ids)
  BY <1>1, <1>2, Withdrawn
<1>5. Counted(tx', inserted) /\ tx'.lines \subseteq db.lines
  BY <1>2, <1>4, CountWithdrawn
<1>6. Counted(db, inserted)' /\ Counted(tx, inserted)'
  BY <1>1, <1>2, <1>5, Zenon DEF Counted, LinesIn
<1>7. Places'
  BY <1>1, <1>2, <1>3, SizesAssumption, SMT DEF Places
<1>8. OnlyTakes'
  BY <1>1, <1>5 DEF OnlyTakes
<1> QED
  BY <1>6, <1>7, <1>8 DEF BytesInv

\* The other steps take one version of the database for the other, or neither.
LEMMA OtherBytes ==
    ASSUME RowsInv, BytesInv,
           \/ \E k \in Keys : End(k)
           \/ \E m \in Batches : Begin(m)
           \/ Commit \/ CommitFails \/ PurgePublish \/ PurgeCommit \/ PurgeFails
           \/ SweepBegin \/ GroupsTrimmed \/ Pick \/ TotalTrimmed \/ SweepFails \/ UNCHANGED vars
    PROVE  BytesInv'
<1>1. Places
  BY DEF BytesInv
<1>2. CASE (\E k \in Keys : End(k)) \/ UNCHANGED vars
  <2>1. UNCHANGED <<db, tx, lock, writer, purge, purged, invalidated, inserted, failures, purges>>
    BY <1>2, Zenon DEF End, vars, purging, bounds
  <2>2. Places'
    BY <1>1, <2>1, Zenon DEF Places
  <2> QED
    BY <2>1, <2>2, BytesKept
<1>3. CASE \E m \in Batches : Begin(m)
  <2>1. /\ lock' = "writer" /\ writer' = "writing" /\ invalidated' = {}
        /\ UNCHANGED <<db, tx, purge, purged, inserted, failures, purges>>
    BY <1>3, Zenon DEF Begin, purging, bounds
  <2>2. Places'
    BY <1>1, <2>1, SMT DEF Places
  <2> QED
    BY <2>1, <2>2, BytesKept
<1>4. CASE Commit
  <2>1. /\ lock' = "free" /\ writer' = "idle" /\ db' = tx
        /\ UNCHANGED <<tx, purge, purged, invalidated, inserted, failures, purges>>
    BY <1>4, Zenon DEF Commit, purging, bounds
  <2>2. Places'
    BY <1>1, <2>1, SMT DEF Places
  <2> QED
    BY <2>1, <2>2, BytesKept
<1>5. CASE CommitFails
  <2>1. /\ lock' = "free" /\ writer' = "idle" /\ tx' = db
        /\ Refusing \/ failures < MaxFailures
        /\ failures' = failures + (IF Refusing THEN 0 ELSE 1)
        /\ UNCHANGED <<db, purge, purged, invalidated, inserted, purges>>
    BY <1>5, Zenon DEF CommitFails, Rollback, purging
  <2>2. failures' = failures \/ (failures < MaxFailures /\ failures' = failures + 1)
    <3>1. CASE Refusing
      <4>1. failures' = failures + 0
        BY <2>1, <3>1, Zenon
      <4> QED
        BY <1>1, <4>1, SMT DEF Places
    <3>2. CASE ~Refusing
      BY <2>1, <3>2, Zenon
    <3> QED
      BY <3>1, <3>2
  <2>3. Places'
    BY <1>1, <2>1, <2>2, SizesAssumption, SMT DEF Places
  <2> QED
    BY <2>1, <2>3, BytesKept
<1>6. CASE PurgePublish
  <2>1. /\ purge' = "published" /\ invalidated' = invalidated \union purged
        /\ UNCHANGED <<db, tx, lock, writer, purged, inserted, failures, purges>>
    BY <1>6, Zenon DEF PurgePublish, bounds
  <2>2. Places'
    BY <1>1, <2>1, SMT DEF Places
  <2> QED
    BY <2>1, <2>2, BytesKept
<1>7. CASE PurgeCommit
  <2>1. /\ purge' = "none" /\ purged' = {} /\ lock' = "free" /\ db' = tx
        /\ UNCHANGED <<tx, writer, invalidated, inserted, failures, purges>>
    BY <1>7, Zenon DEF PurgeCommit, bounds
  <2>2. Places'
    BY <1>1, <2>1, SMT DEF Places
  <2> QED
    BY <2>1, <2>2, BytesKept
<1>8. CASE PurgeFails
  <2>1. /\ purge' = "none" /\ purged' = {} /\ lock' = "free" /\ tx' = db
        /\ failures < MaxFailures /\ failures' = failures + 1
        /\ UNCHANGED <<db, writer, invalidated, inserted, purges>>
    BY <1>8, Zenon DEF PurgeFails
  <2>2. Places'
    BY <1>1, <2>1, SizesAssumption, SMT DEF Places
  <2> QED
    BY <2>1, <2>2, BytesKept
<1>9. CASE SweepBegin \/ GroupsTrimmed \/ Pick \/ TotalTrimmed
  <2>1. UNCHANGED <<db, tx, lock, purge, purged, invalidated, inserted, failures, purges>>
    BY <1>9, Zenon DEF SweepBegin, GroupsTrimmed, Pick, TotalTrimmed, sweep, purging, bounds
  <2>2. writer' \in {"groups", "total", "prune"}
    <3>1. CASE SweepBegin
      BY <3>1, Zenon DEF SweepBegin
    <3>2. CASE GroupsTrimmed
      BY <3>2, Zenon DEF GroupsTrimmed
    <3>3. CASE Pick
      <4>1. writer = "total" /\ writer' = writer
        BY <3>3, Zenon DEF Pick
      <4> QED
        BY <4>1
    <3>4. CASE TotalTrimmed
      BY <3>4, Zenon DEF TotalTrimmed
    <3> QED
      BY <1>9, <3>1, <3>2, <3>3, <3>4
  <2>3. Places'
    BY <1>1, <2>1, <2>2, SMT DEF Places
  <2> QED
    BY <2>1, <2>3, BytesKept
<1>10. CASE SweepFails
  <2>1. /\ writer' = "idle" /\ failures < MaxFailures /\ failures' = failures + 1
        /\ UNCHANGED <<db, tx, lock, purge, purged, invalidated, inserted, purges>>
    BY <1>10, Zenon DEF SweepFails, SweepOver, purging
  <2>2. Places'
    BY <1>1, <2>1, SizesAssumption, SMT DEF Places
  <2> QED
    BY <2>1, <2>2, BytesKept
<1> QED
  BY <1>2, <1>3, <1>4, <1>5, <1>6, <1>7, <1>8, <1>9, <1>10

LEMMA StepBytes == RowsInv /\ BytesInv /\ [Next]_vars => BytesInv'
<1> SUFFICES ASSUME RowsInv, BytesInv, [Next]_vars PROVE BytesInv'
  OBVIOUS
<1>1. CASE SyncStep
  BY <1>1, UpsertMetaBytes, MarkRemovedBytes, OtherBytes DEF SyncStep
<1>2. CASE WriteStep
  BY <1>2, WriteBytes, OtherBytes DEF WriteStep
<1>3. CASE PurgeStep
  BY <1>3, PurgeBeginBytes, OtherBytes DEF PurgeStep
<1>4. CASE SweepStep
  BY <1>4, TrimBytes, TrimPickedBytes, PruneBytes, OtherBytes DEF SweepStep
<1>5. CASE UNCHANGED vars
  BY <1>5, OtherBytes
<1> QED
  BY <1>1, <1>2, <1>3, <1>4, <1>5 DEF Next

-----------------------------------------------------------------------------
(***************************************************************************)
(* The sweep.                                                              *)
(***************************************************************************)
LEMMA TotalIsSum == Total = SumOver(est, Names) /\ Total' = SumOver(est', Names)
BY Zenon DEF Total, MapThenSumSet, MapThenFoldSet, SumOver, IsSum, SumBody, Some

LEMMA BytesOfIsSum == ASSUME NEW d, NEW ids PROVE BytesOf(d, ids) = SumOver(d.bytes, ids)
BY Zenon DEF BytesOf, MapThenSumSet, MapThenFoldSet, SumOver, IsSum, SumBody, Some

\* A sweep begins with the bytes its groups hold.
LEMMA BytesOfGroup ==
    ASSUME NEW d, NEW last, Counted(d, last), NEW ids \in SUBSET Ids
    PROVE  BytesOf(d, ids) = SizeOf(LinesIn(d, ids)) /\ BytesOf(d, ids) \in Nat
<1>1. PICK p : p = [l \in d.lines |-> l.ref]
  OBVIOUS
<1>2. IsFiniteSet(ids)
  <2>1. IsFiniteSet(1 .. MaxId)
    BY SizesAssumption, FS_Interval
  <2> QED
    BY <2>1, FS_Subset DEF Ids
<1>3. d.lines \in FiniteLines
  BY DEF Counted
<1>4. \A i \in ids : d.bytes[i] = SizeOf(Part(d.lines, p, {i}))
  <2> SUFFICES ASSUME NEW i \in ids PROVE d.bytes[i] = SizeOf(Part(d.lines, p, {i}))
    OBVIOUS
  <2>1. LinesIn(d, {i}) = Part(d.lines, p, {i})
    BY <1>1 DEF LinesIn, Part
  <2>2. d.bytes[i] = SizeOf(LinesIn(d, {i}))
    BY DEF Counted
  <2> QED
    BY <2>1, <2>2
<1>5. SumOver(d.bytes, ids) = SizeOf(Part(d.lines, p, ids))
  <2>1. SizesOfParts(d.bytes, d.lines, p, ids)
    BY <1>4, Zenon DEF SizesOfParts
  <2> QED
    BY <1>2, <1>3, <2>1, PartsAddUp
<1>6. Part(d.lines, p, ids) = LinesIn(d, ids)
  BY <1>1 DEF LinesIn, Part
<1>7. SizeOf(LinesIn(d, ids)) \in Nat
  BY LinesInAreCounted, SizeIsNatural
<1> QED
  BY <1>5, <1>6, <1>7, BytesOfIsSum

LEMMA FirstLine ==
    ASSUME NEW L \in FiniteLines, L # {} PROVE \E l \in L : \A x \in L : l.ts <= x.ts
<1> DEFINE T == {l.ts : l \in L}
<1>1. \A l \in L : l.ts \in Nat
  BY LineSizes, SizesAssumption DEF FiniteLines
<1>2. T \subseteq Nat /\ T # {}
  BY <1>1
<1>3. PICK t \in T : \A y \in T : ~(<<y, t>> \in OpToRel(<, Nat))
  <2> HIDE DEF T
  <2> QED
    BY <1>2, NatLessThanWellFounded, WFMin, Zenon
<1>4. \A y \in T : ~(y < t)
  <2> SUFFICES ASSUME NEW y \in T, y < t PROVE FALSE
    OBVIOUS
  <2>1. t \in Nat /\ y \in Nat
    BY <1>2
  <2>2. <<y, t>> \in OpToRel(<, Nat)
    BY <2>1, SMT DEF OpToRel
  <2> QED
    BY <1>3, <2>2
<1>5. PICK l \in L : t = l.ts
  BY <1>3
<1>6. \A x \in L : l.ts <= x.ts
  <2> SUFFICES ASSUME NEW x \in L PROVE l.ts <= x.ts
    OBVIOUS
  <2>1. x.ts \in T
    OBVIOUS
  <2> HIDE DEF T
  <2>2. ~(x.ts < l.ts)
    BY <1>4, <1>5, <2>1
  <2>3. x.ts \in Nat /\ l.ts \in Nat
    BY <1>1
  <2> QED
    BY <2>2, <2>3
<1> QED
  BY <1>6

\* What an eviction takes: the oldest lines, at least one, and none that was not
\* needed.
LEMMA OldestAreTaken ==
    ASSUME NEW L \in FiniteLines, \A l \in L : \A x \in L : l.ts = x.ts => l = x,
           NEW excess \in Nat \ {0}, NEW V, V = Oldest(L, excess)
    PROVE  /\ V \subseteq L /\ V \in FiniteLines
           /\ L # {} => \E v \in V : \A x \in L : v.ts <= x.ts
           /\ \A v \in V : \A x \in L \ V : v.ts < x.ts
           /\ \A v \in V : SizeOf({x \in V : x.ts < v.ts}) < excess
<1> DEFINE older(l) == {x \in L : x.ts < l.ts}
<1>1. V = {l \in L : SizeOf(older(l)) < excess /\ Cardinality(older(l)) < DeleteChunk}
  BY Zenon DEF Oldest
<1>2. V \subseteq L
  BY <1>1
<1>3. V \in FiniteLines
  BY <1>2, LineParts
<1>4. \A l \in L : l.ts \in Nat
  BY LineSizes, SizesAssumption DEF FiniteLines
<1>5. ASSUME L # {} PROVE \E v \in V : \A x \in L : v.ts <= x.ts
  <2>1. PICK l \in L : \A x \in L : l.ts <= x.ts
    BY <1>5, FirstLine
  <2>2. older(l) = {}
    BY <1>4, <2>1
  <2>3. SizeOf(older(l)) = 0 /\ Cardinality(older(l)) = 0
    BY <2>2, SizeOfNone, FS_EmptySet
  <2>4. DeleteChunk \in Nat \ {0}
    BY SizesAssumption
  <2> HIDE DEF older
  <2>5. l \in V
    BY <1>1, <2>3, <2>4
  <2> QED
    BY <2>1, <2>5
<1>6. ASSUME NEW v \in V, NEW x \in L \ V PROVE v.ts < x.ts
  <2>1. SUFFICES ASSUME ~(v.ts < x.ts) PROVE FALSE
    OBVIOUS
  <2>2. v \in L /\ x \in L /\ v # x
    BY <1>2, <1>6
  <2>3. x.ts < v.ts
    BY <1>4, <2>1, <2>2
  <2>4. PICK A, B : A = older(x) /\ B = older(v)
    OBVIOUS
  <2>5. A \subseteq B /\ B \subseteq L
    BY <1>4, <2>2, <2>3, <2>4
  <2>6. B \in FiniteLines /\ IsFiniteSet(B)
    BY <2>5, LineParts DEF FiniteLines
  <2>7. SizeOf(A) <= SizeOf(B) /\ SizeOf(A) \in Nat /\ SizeOf(B) \in Nat
    BY <2>5, <2>6, SizeSplits
  <2>8. /\ Cardinality(A) <= Cardinality(B)
        /\ Cardinality(A) \in Nat /\ Cardinality(B) \in Nat
    BY <2>5, <2>6, FS_Subset, FS_CardinalityType
  <2>9. SizeOf(B) < excess /\ Cardinality(B) < DeleteChunk
    BY <1>1, <2>4
  <2>10. ~(SizeOf(A) < excess /\ Cardinality(A) < DeleteChunk)
    BY <1>1, <1>6, <2>4
  <2>11. DeleteChunk \in Nat
    BY SizesAssumption
  <2> QED
    BY <2>7, <2>8, <2>9, <2>10, <2>11
<1>7. ASSUME NEW v \in V PROVE SizeOf({x \in V : x.ts < v.ts}) < excess
  <2>1. PICK A, B : A = {x \in V : x.ts < v.ts} /\ B = older(v)
    OBVIOUS
  <2>2. A \subseteq B /\ B \subseteq L
    BY <1>2, <2>1
  <2>3. B \in FiniteLines
    BY <2>2, LineParts
  <2>4. SizeOf(A) <= SizeOf(B) /\ SizeOf(A) \in Nat /\ SizeOf(B) \in Nat
    BY <2>2, <2>3, SizeSplits
  <2>5. SizeOf(B) < excess
    BY <1>1, <2>1
  <2> QED
    BY <2>1, <2>4, <2>5
<1> QED
  BY <1>2, <1>3, <1>5, <1>6, <1>7

\* The bytes of the containers are the bytes of the store.
LEMMA HeldByNames ==
    ASSUME NEW L \in FiniteLines, NEW b, \A n \in Names : b[n] = SizeOf({l \in L : NameOf[l.of] = n})
    PROVE  SumOver(b, Names) = SizeOf(L)
<1>1. PICK p : p = [l \in L |-> NameOf[l.of]]
  OBVIOUS
<1>2. \A n \in Names : b[n] = SizeOf(Part(L, p, {n}))
  <2> SUFFICES ASSUME NEW n \in Names PROVE b[n] = SizeOf(Part(L, p, {n}))
    OBVIOUS
  <2>1. {l \in L : NameOf[l.of] = n} = Part(L, p, {n})
    BY <1>1 DEF Part
  <2> QED
    BY <2>1
<1>3. SumOver(b, Names) = SizeOf(Part(L, p, Names))
  <2>1. IsFiniteSet(Names)
    BY NamesAssumption
  <2>2. SizesOfParts(b, L, p, Names)
    BY <1>2, Zenon DEF SizesOfParts
  <2> QED
    BY <2>1, <2>2, PartsAddUp
<1>4. Part(L, p, Names) = L
  <2> SUFFICES ASSUME NEW l \in L PROVE p[l] \in Names
    BY Zenon DEF Part
  <2>1. l.of \in Keys
    BY DEF FiniteLines, StoredLine
  <2> QED
    BY <1>1, <2>1, NamesAssumption
<1> QED
  BY <1>3, <1>4

SweepTyped ==
    /\ groups \in [Names -> SUBSET Ids] /\ est \in [Names -> Nat]
    /\ settled \subseteq Names /\ pick \in Names \union {NoName}
    /\ round \in 0 .. MaxTrimRounds /\ disturbed \in BOOLEAN

Sweeping == writer \in {"groups", "total", "prune"}

\* While a sweep runs, its groups hold the lines of their containers, and the
\* bytes it believes in are never too few; until a purge commits they are exact.
GroupsRight ==
    Sweeping => \A l \in db.lines : \A n \in Names : l.ref \in groups[n] <=> NameOf[l.of] = n
Covered == Sweeping => \A n \in Names : SizeOf(LinesIn(db, groups[n])) <= est[n]
Exact == Sweeping /\ ~disturbed => \A n \in Names : est[n] = SizeOf(LinesIn(db, groups[n]))

\* A group is given up only when it is empty.
SettledEmpty ==
    /\ Sweeping => \A n \in settled : LinesIn(db, groups[n]) = {}
    /\ ~Sweeping => settled = {} /\ pick = NoName /\ round = 0

\* A group is picked for a store above its cap, and it holds the oldest line.
PickedInTime ==
    pick # NoName =>
        /\ writer = "total" /\ round < MaxTrimRounds /\ Total > TotalCap
        /\ ~disturbed => \A x \in db.lines : \E l \in LinesIn(db, groups[pick]) : l.ts <= x.ts

\* What the phases before this one have achieved.
Achieved ==
    /\ writer \in {"total", "prune"} => \A n \in Names : SizeOf(LinesIn(db, groups[n])) <= PerCap
    /\ writer = "prune" /\ round < MaxTrimRounds => SizeOf(db.lines) <= TotalCap

SweepInv ==
    SweepTyped /\ GroupsRight /\ Covered /\ Exact /\ SettledEmpty /\ PickedInTime /\ Achieved

LEMMA InitSweep == Init => SweepInv
<1> SUFFICES ASSUME Init PROVE SweepInv
  OBVIOUS
<1>1. /\ writer = "idle" /\ groups = [n \in Names |-> {}] /\ est = [n \in Names |-> 0]
      /\ settled = {} /\ pick = NoName /\ round = 0
  BY Zenon DEF Init
<1>2. disturbed \in BOOLEAN
  BY Zenon DEF Init
<1>3. groups \in [Names -> SUBSET Ids] /\ est \in [Names -> Nat] /\ round \in 0 .. MaxTrimRounds
  BY <1>1, SizesAssumption
<1>4. SweepTyped
  BY <1>1, <1>2, <1>3, Zenon DEF SweepTyped
<1>5. ~Sweeping /\ writer # "total" /\ writer # "prune"
  BY <1>1 DEF Sweeping
<1>6. GroupsRight /\ Covered /\ Exact /\ SettledEmpty
  BY <1>1, <1>5, Zenon DEF GroupsRight, Covered, Exact, SettledEmpty
<1>7. PickedInTime
  BY <1>1 DEF PickedInTime
<1>8. Achieved
  BY <1>5, SMT DEF Achieved
<1> QED
  BY <1>4, <1>6, <1>7, <1>8 DEF SweepInv

\* No sweep runs after the step.
LEMMA NotSweeping ==
    ASSUME writer' \in {"idle", "writing"}, SweepTyped', settled' = {}, pick' = NoName, round' = 0
    PROVE  SweepInv'
<1>1. ~Sweeping' /\ writer' # "total" /\ writer' # "prune"
  BY DEF Sweeping
<1>2. GroupsRight' /\ Covered' /\ Exact' /\ SettledEmpty'
  BY <1>1, Zenon DEF GroupsRight, Covered, Exact, SettledEmpty
<1>3. PickedInTime'
  BY DEF PickedInTime
<1>4. Achieved'
  BY <1>1, SMT DEF Achieved
<1> QED
  BY <1>2, <1>3, <1>4 DEF SweepInv

LEMMA NotSweepingKept ==
    ASSUME SweepInv, writer \in {"idle", "writing"}, writer' \in {"idle", "writing"},
           UNCHANGED <<groups, est, settled, pick, round, disturbed>>
    PROVE  SweepInv'
<1>1. ~Sweeping
  BY DEF Sweeping
<1>2. settled' = {} /\ pick' = NoName /\ round' = 0
  BY <1>1, Zenon DEF SweepInv, SettledEmpty
<1>3. SweepTyped'
  BY Zenon DEF SweepInv, SweepTyped
<1> QED
  BY <1>2, <1>3, NotSweeping

\* Steps of others that leave the lines alone.
LEMMA SweepKept ==
    ASSUME SweepInv, db'.lines = db.lines,
           UNCHANGED <<writer, groups, est, settled, pick, round, disturbed>>
    PROVE  SweepInv'
<1>1. \A n \in Names : LinesIn(db', groups[n]) = LinesIn(db, groups[n])
  BY Zenon DEF LinesIn
<1>2. Sweeping' = Sweeping /\ Total' = Total
  BY TotalIsSum, Zenon DEF Sweeping
<1>3. SweepTyped' /\ GroupsRight'
  BY <1>2, Zenon DEF SweepInv, SweepTyped, GroupsRight
<1>4. Covered' /\ Exact' /\ Achieved'
  BY <1>1, <1>2, Zenon DEF SweepInv, Covered, Exact, Achieved
<1>5. SettledEmpty'
  BY <1>1, <1>2, Zenon DEF SweepInv, SettledEmpty, SweepTyped
<1>6. PickedInTime'
  <2>1. pick \in Names \union {NoName}
    BY DEF SweepInv, SweepTyped
  <2> QED
    BY <1>1, <1>2, <2>1, Zenon DEF SweepInv, PickedInTime
<1> QED
  BY <1>3, <1>4, <1>5, <1>6 DEF SweepInv

\* A purge takes lines the sweep does not know of.
LEMMA PurgeCommitSweep == ASSUME RowsInv, BytesInv, SweepInv, PurgeCommit PROVE SweepInv'
<1>1. /\ purge = "published" /\ db' = tx
      /\ disturbed' = (writer \in {"groups", "total", "prune"})
      /\ UNCHANGED <<writer, groups, est, settled, pick, round>>
  BY Zenon DEF PurgeCommit
<1>2. lock = "purge" /\ writer # "writing" /\ Places
  BY <1>1, SMT DEF RowsInv, LockHeld, BytesInv
<1>3. tx.lines \subseteq db.lines
  BY <1>2 DEF BytesInv, OnlyTakes
<1>4. SweepTyped'
  <2>1. disturbed' \in BOOLEAN
    BY <1>1
  <2> QED
    BY <1>1, <2>1, Zenon DEF SweepInv, SweepTyped
<1>5. CASE Sweeping
  <2>1. Sweeping' /\ disturbed'
    BY <1>1, <1>5, Zenon DEF Sweeping
  <2>2. ASSUME NEW n \in Names
        PROVE  /\ LinesIn(db', groups[n]) \subseteq LinesIn(db, groups[n])
               /\ SizeOf(LinesIn(db', groups[n])) <= SizeOf(LinesIn(db, groups[n]))
               /\ SizeOf(LinesIn(db, groups[n])) \in Nat /\ SizeOf(LinesIn(db', groups[n])) \in Nat
    <3>1. PICK L, M : L = LinesIn(db, groups[n]) /\ M = LinesIn(db', groups[n])
      OBVIOUS
    <3>2. M \subseteq L
      BY <1>1, <1>3, <3>1, Zenon DEF LinesIn
    <3>3. L \in FiniteLines
      BY <3>1, LinesInAreCounted DEF BytesInv
    <3> QED
      BY <3>1, <3>2, <3>3, SizeSplits
  <2>3. GroupsRight'
    BY <1>1, <1>3, <1>5, Zenon DEF SweepInv, GroupsRight
  <2>4. Covered'
    <3> SUFFICES ASSUME NEW n \in Names PROVE SizeOf(LinesIn(db', groups[n])) <= est[n]
      BY <1>1, Zenon DEF Covered
    <3>1. SizeOf(LinesIn(db, groups[n])) <= est[n] /\ est[n] \in Nat
      BY <1>5 DEF SweepInv, Covered, SweepTyped
    <3> QED
      BY <2>2, <3>1
  <2>5. Exact' /\ SettledEmpty'
    <3>1. Exact'
      BY <2>1, Zenon DEF Exact
    <3>2. \A n \in settled : LinesIn(db', groups[n]) = {}
      <4> SUFFICES ASSUME NEW n \in settled PROVE LinesIn(db', groups[n]) = {}
        OBVIOUS
      <4>1. n \in Names /\ LinesIn(db, groups[n]) = {}
        BY <1>5, Zenon DEF SweepInv, SweepTyped, SettledEmpty
      <4> QED
        BY <2>2, <4>1
    <3> QED
      BY <1>1, <2>1, <3>1, <3>2, Zenon DEF SettledEmpty
  <2>6. PickedInTime'
    <3>1. Total' = Total
      BY <1>1, TotalIsSum, Zenon
    <3> QED
      BY <1>1, <2>1, <3>1, Zenon DEF SweepInv, PickedInTime
  <2>7. Achieved'
    <3>1. ASSUME writer \in {"total", "prune"}, NEW n \in Names PROVE SizeOf(LinesIn(db', groups[n])) <= PerCap
      <4>1. SizeOf(LinesIn(db, groups[n])) <= PerCap
        BY <3>1, Zenon DEF SweepInv, Achieved
      <4> QED
        BY <2>2, <4>1, SizesAssumption
    <3>2. ASSUME writer = "prune", round < MaxTrimRounds PROVE SizeOf(tx.lines) <= TotalCap
      <4>1. SizeOf(db.lines) <= TotalCap
        BY <3>2, Zenon DEF SweepInv, Achieved
      <4>2. db.lines \in FiniteLines
        BY DEF BytesInv, Counted
      <4>3. SizeOf(tx.lines) <= SizeOf(db.lines) /\ SizeOf(tx.lines) \in Nat /\ SizeOf(db.lines) \in Nat
        BY <1>3, <4>2, SizeSplits
      <4> QED
        BY <4>1, <4>3, SizesAssumption
    <3> QED
      BY <1>1, <3>1, <3>2, Zenon DEF Achieved
  <2> QED
    BY <1>4, <2>3, <2>4, <2>5, <2>6, <2>7 DEF SweepInv
<1>6. CASE ~Sweeping
  <2>1. writer = "idle"
    BY <1>2, <1>6 DEF Sweeping, Places
  <2>2. settled' = {} /\ pick' = NoName /\ round' = 0
    BY <1>1, <1>6, Zenon DEF SweepInv, SettledEmpty
  <2> QED
    BY <1>1, <1>4, <2>1, <2>2, NotSweeping
<1> QED
  BY <1>5, <1>6

\* The groups of a running sweep.
LEMMA GroupLines ==
    ASSUME BytesInv, SweepInv, Sweeping, NEW n \in Names
    PROVE  /\ LinesIn(db, groups[n]) = {l \in db.lines : NameOf[l.of] = n}
           /\ LinesIn(db, groups[n]) \in FiniteLines
           /\ SizeOf(LinesIn(db, groups[n])) \in Nat /\ SizeOf(LinesIn(db, groups[n])) <= est[n]
           /\ est[n] \in Nat
<1>1. LinesIn(db, groups[n]) = {l \in db.lines : NameOf[l.of] = n}
  BY Zenon DEF LinesIn, SweepInv, GroupsRight
<1>2. LinesIn(db, groups[n]) \in FiniteLines
  BY LinesInAreCounted DEF BytesInv
<1>3. SizeOf(LinesIn(db, groups[n])) <= est[n] /\ est[n] \in Nat
  BY DEF SweepInv, Covered, SweepTyped
<1> QED
  BY <1>1, <1>2, <1>3, SizeIsNatural

LEMMA LinesAreOfCandidates ==
    ASSUME BytesInv, SweepInv, Sweeping, NEW x \in db.lines, NEW n, n = NameOf[x.of]
    PROVE  n \in Candidates /\ x \in LinesIn(db, groups[n])
<1>1. x.of \in Keys
  BY DEF BytesInv, Counted, FiniteLines, StoredLine
<1>2. n \in Names
  BY <1>1, NamesAssumption
<1>3. PICK L : L = LinesIn(db, groups[n]) /\ L \in FiniteLines /\ SizeOf(L) \in Nat /\ SizeOf(L) <= est[n] /\ est[n] \in Nat
  BY <1>2, GroupLines
<1>4. x \in L
  <2>1. L = {l \in db.lines : NameOf[l.of] = n}
    BY <1>2, <1>3, GroupLines
  <2> QED
    BY <2>1
<1>5. SizeOf(L) # 0
  BY <1>3, <1>4, NoBytesNoLines
<1>6. est[n] > 0
  BY <1>3, <1>5
<1>7. n \notin settled
  BY <1>3, <1>4, Zenon DEF SweepInv, SettledEmpty
<1> QED
  BY <1>2, <1>3, <1>4, <1>6, <1>7, Zenon DEF Candidates

LEMMA StoreIsCovered ==
    ASSUME BytesInv, SweepInv, Sweeping
    PROVE  /\ Total \in Nat /\ SizeOf(db.lines) \in Nat /\ SizeOf(db.lines) <= Total
           /\ ~disturbed => SizeOf(db.lines) = Total
<1>1. PICK h : h = [n \in Names |-> SizeOf(LinesIn(db, groups[n]))]
  OBVIOUS
<1>2. db.lines \in FiniteLines /\ IsFiniteSet(Names)
  BY NamesAssumption DEF BytesInv, Counted
<1>3. \A n \in Names : h[n] = SizeOf({l \in db.lines : NameOf[l.of] = n})
  <2> SUFFICES ASSUME NEW n \in Names PROVE h[n] = SizeOf({l \in db.lines : NameOf[l.of] = n})
    OBVIOUS
  <2>1. LinesIn(db, groups[n]) = {l \in db.lines : NameOf[l.of] = n}
    BY GroupLines
  <2>2. h[n] = SizeOf(LinesIn(db, groups[n]))
    BY <1>1
  <2> QED
    BY <2>1, <2>2, Zenon
<1>4. SumOver(h, Names) = SizeOf(db.lines)
  BY <1>2, <1>3, HeldByNames
<1>5. \A n \in Names : h[n] \in Nat /\ est[n] \in Nat /\ h[n] <= est[n]
  <2> SUFFICES ASSUME NEW n \in Names PROVE h[n] \in Nat /\ est[n] \in Nat /\ h[n] <= est[n]
    OBVIOUS
  <2>1. h[n] = SizeOf(LinesIn(db, groups[n]))
    BY <1>1
  <2> QED
    BY <2>1, GroupLines
<1>6. SumOver(h, Names) <= SumOver(est, Names) /\ SumOver(h, Names) \in Nat /\ SumOver(est, Names) \in Nat
  BY <1>2, <1>5, SumIsMonotone, SumIsNatural
<1>7. ASSUME ~disturbed PROVE SumOver(h, Names) = SumOver(est, Names)
  <2>1. \A n \in Names : h[n] = est[n]
    <3> SUFFICES ASSUME NEW n \in Names PROVE h[n] = est[n]
      OBVIOUS
    <3>1. est[n] = SizeOf(LinesIn(db, groups[n]))
      BY <1>7, Zenon DEF SweepInv, Exact
    <3> QED
      BY <1>1, <3>1
  <2> QED
    BY <1>2, <2>1, SumsOfSame
<1>8. Total = SumOver(est, Names)
  BY TotalIsSum
<1>9. Total \in Nat /\ SizeOf(db.lines) \in Nat /\ SizeOf(db.lines) <= Total
  BY <1>4, <1>6, <1>8
<1>10. ~disturbed => SizeOf(db.lines) = Total
  BY <1>4, <1>7, <1>8, Zenon
<1> QED
  BY <1>9, <1>10

\* The groups of a sweep are the rows as they are when it begins.
LEMMA SweepBeginSweep == ASSUME RowsInv, BytesInv, SweepInv, SweepBegin PROVE SweepInv'
<1>1. /\ writer = "idle" /\ writer' = "groups" /\ db' = db
      /\ groups' = [n \in Names |-> IdsOf(db, n)]
      /\ est' = [n \in Names |-> BytesOf(db, IdsOf(db, n))]
      /\ UNCHANGED <<settled, pick, round>>
  BY Zenon DEF SweepBegin
<1>2. disturbed' \in BOOLEAN
  <2>1. disturbed' = FALSE
    BY Zenon DEF SweepBegin
  <2> QED
    BY <2>1
<1>3. ~Sweeping /\ Sweeping' /\ writer' # "total" /\ writer' # "prune"
  BY <1>1 DEF Sweeping
<1>4. settled = {} /\ pick = NoName /\ round = 0
  BY <1>3, Zenon DEF SweepInv, SettledEmpty
<1>5. \A n \in Names : IdsOf(db, n) \in SUBSET Ids
  BY DEF IdsOf
<1>6. ASSUME NEW n \in Names
      PROVE  /\ groups'[n] = IdsOf(db, n) /\ est'[n] = BytesOf(db, IdsOf(db, n))
             /\ est'[n] = SizeOf(LinesIn(db, groups'[n])) /\ est'[n] \in Nat
  <2>1. groups'[n] = IdsOf(db, n) /\ est'[n] = BytesOf(db, IdsOf(db, n))
    BY <1>1
  <2>2. PICK ids : ids = IdsOf(db, n) /\ ids \in SUBSET Ids
    BY <1>5
  <2>3. BytesOf(db, ids) = SizeOf(LinesIn(db, ids)) /\ BytesOf(db, ids) \in Nat
    BY <2>2, BytesOfGroup DEF BytesInv
  <2> QED
    BY <2>1, <2>2, <2>3
<1>7. SweepTyped'
  <2>1. groups' \in [Names -> SUBSET Ids]
    BY <1>1, <1>5
  <2>2. est' \in [Names -> Nat]
    <3>1. est' = [n \in Names |-> est'[n]]
      BY <1>1
    <3> QED
      BY <1>6, <3>1
  <2> QED
    BY <1>1, <1>2, <2>1, <2>2, Zenon DEF SweepInv, SweepTyped
<1>8. GroupsRight'
  <2> SUFFICES ASSUME NEW l \in db.lines, NEW n \in Names PROVE l.ref \in groups'[n] <=> NameOf[l.of] = n
    BY <1>1, Zenon DEF GroupsRight
  <2>1. db.gen[l.ref] = l.of /\ l.ref \in Ids /\ l.of \in Keys
    BY Zenon DEF RowsInv, Shape, LinesRight, IsDatabase
  <2>2. l.of # NoKey
    BY <2>1, NamesAssumption
  <2>3. l.ref \in IdsOf(db, n) <=> NameOf[l.of] = n
    BY <2>1, <2>2 DEF IdsOf
  <2>4. groups'[n] = IdsOf(db, n)
    BY <1>6
  <2> QED
    BY <2>3, <2>4, Zenon
<1>9. Covered'
  <2> SUFFICES ASSUME NEW n \in Names PROVE SizeOf(LinesIn(db, groups'[n])) <= est'[n]
    BY <1>1, Zenon DEF Covered
  <2> QED
    BY <1>6
<1>10. Exact'
  BY <1>1, <1>6, Zenon DEF Exact
<1>11. SettledEmpty' /\ PickedInTime' /\ Achieved'
  BY <1>1, <1>3, <1>4, Zenon DEF SettledEmpty, PickedInTime, Achieved
<1> QED
  BY <1>7, <1>8, <1>9, <1>10, <1>11 DEF SweepInv

\* What an eviction does to the groups.
LEMMA EvictGroups ==
    ASSUME RowsInv, BytesInv, SweepInv, Sweeping, NEW n \in Names, NEW excess \in Nat \ {0},
           NEW V, V = Oldest(LinesIn(db, groups[n]), excess), Evict(V),
           est' = [est EXCEPT ![n] = @ - SizeOf(V)],
           settled' = IF V = {} THEN settled \union {n} ELSE settled,
           UNCHANGED <<writer, groups>>
    PROVE  /\ db'.lines = db.lines \ V /\ V \subseteq LinesIn(db, groups[n])
           /\ est' \in [Names -> Nat] /\ settled' \subseteq Names
           /\ GroupsRight' /\ Covered'
           /\ disturbed' = disturbed => Exact'
           /\ \A m \in settled' : LinesIn(db', groups[m]) = {}
           /\ \A m \in Names : /\ SizeOf(LinesIn(db', groups[m])) <= SizeOf(LinesIn(db, groups[m]))
                               /\ SizeOf(LinesIn(db', groups[m])) \in Nat
                               /\ SizeOf(LinesIn(db, groups[m])) \in Nat
<1>1. PICK L : L = LinesIn(db, groups[n])
  OBVIOUS
<1>2. L \in FiniteLines /\ L = {l \in db.lines : NameOf[l.of] = n} /\ SizeOf(L) \in Nat
      /\ SizeOf(L) <= est[n] /\ est[n] \in Nat
  BY <1>1, GroupLines
<1>3. \A l \in L : \A x \in L : l.ts = x.ts => l = x
  <2>1. L \subseteq db.lines
    BY <1>2
  <2>2. \A l \in db.lines : \A x \in db.lines : l.ts = x.ts => l = x
    BY DEF BytesInv, Counted
  <2> QED
    BY <2>1, <2>2
<1>4. V \subseteq L /\ V \in FiniteLines /\ (L # {} => V # {})
  <2>1. V = Oldest(L, excess)
    BY <1>1
  <2>2. V \subseteq L /\ V \in FiniteLines /\ (L # {} => \E v \in V : \A x \in L : v.ts <= x.ts)
    BY ZenonT(30), <1>2, <1>3, <2>1, OldestAreTaken
  <2> QED
    BY <2>2
<1>5. db'.lines = db.lines \ V
  <2>1. db' = Without(db, V) /\ IsDatabase(db)
    BY DEF Evict, Autocommit, RowsInv, Shape
  <2> QED
    BY <2>1, EvictedLines
<1>6. SizeOf(V) \in Nat /\ SizeOf(V) <= SizeOf(L) /\ SizeOf(L) = SizeOf(V) + SizeOf(L \ V) /\ SizeOf(L \ V) \in Nat
  BY <1>2, <1>4, SizeSplits
<1>7. ASSUME NEW m \in Names
      PROVE  /\ LinesIn(db', groups[m]) = LinesIn(db, groups[m]) \ V
             /\ m # n => LinesIn(db', groups[m]) = LinesIn(db, groups[m])
  <2>1. LinesIn(db', groups[m]) = LinesIn(db, groups[m]) \ V
    BY <1>5, Zenon DEF LinesIn
  <2>2. ASSUME m # n PROVE LinesIn(db, groups[m]) \ V = LinesIn(db, groups[m])
    <3>1. LinesIn(db, groups[m]) = {l \in db.lines : NameOf[l.of] = m}
      BY GroupLines
    <3> QED
      BY <1>2, <1>4, <2>2, <3>1
  <2> QED
    BY <2>1, <2>2, Zenon
<1>8. PICK z \in Nat : z = est[n] - SizeOf(V)
  BY <1>2, <1>6
<1>9. est \in [Names -> Nat] /\ est' = [est EXCEPT ![n] = z]
  BY <1>8, Zenon DEF SweepInv, SweepTyped
<1>10. est' \in [Names -> Nat] /\ \A m \in Names : est'[m] = IF m = n THEN z ELSE est[m]
  BY <1>9
<1>11. ASSUME NEW m \in Names
       PROVE  /\ SizeOf(LinesIn(db', groups[m])) <= SizeOf(LinesIn(db, groups[m]))
              /\ SizeOf(LinesIn(db', groups[m])) \in Nat
              /\ SizeOf(LinesIn(db, groups[m])) \in Nat
              /\ SizeOf(LinesIn(db', groups[m])) <= est'[m]
              /\ est[m] = SizeOf(LinesIn(db, groups[m])) => est'[m] = SizeOf(LinesIn(db', groups[m]))
  <2>1. CASE m = n
    <3>1. PICK M : M = L \ V
      OBVIOUS
    <3>2. LinesIn(db', groups[m]) = M /\ LinesIn(db, groups[m]) = L
      BY <1>1, <1>7, <2>1, <3>1
    <3>3. PICK p, q, r : p = SizeOf(L) /\ q = SizeOf(M) /\ r = SizeOf(V)
      OBVIOUS
    <3>4. p = r + q /\ p \in Nat /\ q \in Nat /\ r \in Nat /\ p <= est[n] /\ z = est[n] - r
      BY <1>2, <1>6, <1>8, <3>1, <3>3
    <3>5. q <= p /\ q <= z /\ (est[n] = p => z = q)
      BY <1>2, <3>4
    <3>6. est'[m] = z
      BY <1>10, <2>1
    <3> QED
      BY <2>1, <3>2, <3>3, <3>4, <3>5, <3>6
  <2>2. CASE m # n
    <3>1. LinesIn(db', groups[m]) = LinesIn(db, groups[m]) /\ est'[m] = est[m]
      BY <1>7, <1>10, <2>2
    <3>2. SizeOf(LinesIn(db, groups[m])) \in Nat /\ SizeOf(LinesIn(db, groups[m])) <= est[m]
      BY GroupLines
    <3> QED
      BY <3>1, <3>2
  <2> QED
    BY <2>1, <2>2
<1>12. settled' \subseteq Names
  <2>1. settled \subseteq Names
    BY DEF SweepInv, SweepTyped
  <2>2. CASE V = {}
    BY <2>1, <2>2
  <2>3. CASE V # {}
    BY <2>1, <2>3
  <2> QED
    BY <2>2, <2>3
<1>13. GroupsRight'
  <2>1. \A l \in db.lines : \A m \in Names : l.ref \in groups[m] <=> NameOf[l.of] = m
    BY Zenon DEF SweepInv, GroupsRight
  <2>2. \A l \in db'.lines : l \in db.lines
    BY <1>5
  <2> QED
    BY <2>1, <2>2, Zenon DEF GroupsRight
<1>14. Covered'
  BY <1>11, Zenon DEF Covered
<1>15. ASSUME disturbed' = disturbed PROVE Exact'
  <2> SUFFICES ASSUME ~disturbed, NEW m \in Names PROVE est'[m] = SizeOf(LinesIn(db', groups[m]))
    BY <1>15, Zenon DEF Exact
  <2>1. est[m] = SizeOf(LinesIn(db, groups[m]))
    BY Zenon DEF SweepInv, Exact
  <2> QED
    BY <1>11, <2>1
<1>16. ASSUME NEW m \in settled' PROVE LinesIn(db', groups[m]) = {}
  <2>1. m \in Names
    BY <1>12, <1>16
  <2>2. CASE m \in settled
    <3>1. LinesIn(db, groups[m]) = {}
      BY <2>2, Zenon DEF SweepInv, SettledEmpty
    <3> QED
      BY <1>7, <2>1, <3>1
  <2>3. CASE m \notin settled
    <3>1. m = n /\ V = {}
      <4>1. CASE V = {}
        BY <1>16, <2>3, <4>1
      <4>2. CASE V # {}
        BY <1>16, <2>3, <4>2
      <4> QED
        BY <4>1, <4>2
    <3> QED
      BY <1>1, <1>4, <1>7, <3>1
  <2> QED
    BY <2>2, <2>3
<1> QED
  BY <1>1, <1>4, <1>5, <1>10, <1>11, <1>12, <1>13, <1>14, <1>15, <1>16, Zenon

LEMMA TrimSweep == ASSUME RowsInv, BytesInv, SweepInv, NEW n \in Names, Trim(n) PROVE SweepInv'
<1>1. PICK excess, V :
        /\ writer = "groups" /\ est[n] > PerCap /\ excess = est[n] - PerCap
        /\ V = Oldest(LinesIn(db, groups[n]), excess) /\ Evict(V)
        /\ est' = [est EXCEPT ![n] = @ - SizeOf(V)]
        /\ settled' = IF V = {} THEN settled \union {n} ELSE settled
        /\ UNCHANGED <<writer, groups, pick, round>>
  BY Zenon DEF Trim
<1>2. disturbed' = disturbed
  BY Zenon DEF Trim
<1>3. Sweeping
  BY <1>1 DEF Sweeping
<1>4. est[n] \in Nat /\ PerCap \in Nat
  BY SizesAssumption DEF SweepInv, SweepTyped
<1>5. excess \in Nat \ {0}
  BY <1>1, <1>4
<1>6. /\ est' \in [Names -> Nat] /\ settled' \subseteq Names
      /\ GroupsRight' /\ Covered' /\ Exact'
      /\ \A m \in settled' : LinesIn(db', groups[m]) = {}
  BY <1>1, <1>2, <1>3, <1>5, EvictGroups, Zenon
<1>7. SweepTyped'
  BY <1>1, <1>2, <1>6, Zenon DEF SweepInv, SweepTyped
<1>8. writer' = "groups" /\ writer' # "total" /\ writer' # "prune" /\ Sweeping'
  BY <1>1 DEF Sweeping
<1>9. SettledEmpty'
  BY <1>1, <1>6, <1>8, Zenon DEF SettledEmpty
<1>10. PickedInTime'
  <2>1. writer # "total"
    BY <1>1
  <2>2. pick = NoName
    BY <2>1, Zenon DEF SweepInv, PickedInTime
  <2> QED
    BY <1>1, <2>2, Zenon DEF PickedInTime
<1>11. Achieved'
  BY <1>8, SMT DEF Achieved
<1> QED
  BY <1>6, <1>7, <1>9, <1>10, <1>11 DEF SweepInv

LEMMA GroupsTrimmedSweep == ASSUME RowsInv, BytesInv, SweepInv, GroupsTrimmed PROVE SweepInv'
<1>1. /\ writer = "groups" /\ writer' = "total" /\ settled' = {}
      /\ \A n \in Names : est[n] <= PerCap \/ n \in settled
      /\ UNCHANGED <<db, groups, est, pick, round>>
  BY Zenon DEF GroupsTrimmed
<1>2. disturbed' = disturbed
  BY Zenon DEF GroupsTrimmed
<1>3. Sweeping /\ Sweeping' /\ writer # "total" /\ writer' # "prune"
  BY <1>1 DEF Sweeping
<1>4. SweepTyped' /\ GroupsRight' /\ Covered' /\ Exact'
  <2>1. {} \subseteq Names
    OBVIOUS
  <2> QED
    BY <1>1, <1>2, <1>3, <2>1, Zenon DEF SweepInv, SweepTyped, GroupsRight, Covered, Exact
<1>5. SettledEmpty'
  BY <1>1, <1>3, SMT DEF SettledEmpty
<1>6. PickedInTime'
  BY <1>1, <1>3, Zenon DEF SweepInv, PickedInTime
<1>7. \A n \in Names : SizeOf(LinesIn(db, groups[n])) <= PerCap
  <2> SUFFICES ASSUME NEW n \in Names PROVE SizeOf(LinesIn(db, groups[n])) <= PerCap
    OBVIOUS
  <2>1. PICK L : L = LinesIn(db, groups[n]) /\ SizeOf(L) \in Nat /\ SizeOf(L) <= est[n] /\ est[n] \in Nat
    BY <1>3, GroupLines
  <2>2. CASE est[n] <= PerCap
    BY <2>1, <2>2, SizesAssumption
  <2>3. CASE n \in settled
    <3>1. L = {}
      BY <1>3, <2>1, <2>3, Zenon DEF SweepInv, SettledEmpty
    <3> QED
      BY <2>1, <3>1, SizeOfNone, SizesAssumption
  <2> QED
    BY <1>1, <2>2, <2>3
<1>8. Achieved'
  BY <1>1, <1>3, <1>7, Zenon DEF Achieved
<1> QED
  BY <1>4, <1>5, <1>6, <1>8 DEF SweepInv

\* The group picked holds the oldest line of the store.
LEMMA PickSweep == ASSUME RowsInv, BytesInv, SweepInv, Pick PROVE SweepInv'
<1>1. /\ writer = "total" /\ Total > TotalCap /\ round < MaxTrimRounds
      /\ UNCHANGED <<db, writer, groups, est, settled, round>>
  BY Zenon DEF Pick
<1>2. PICK n \in Candidates : HoldsOldest(n) /\ pick' = n
  BY Zenon DEF Pick
<1>3. disturbed' = disturbed
  BY Zenon DEF Pick
<1>4. Sweeping /\ Sweeping' /\ n \in Names
  BY <1>1 DEF Sweeping, Candidates
<1>5. SweepTyped' /\ GroupsRight' /\ Covered' /\ Exact' /\ Achieved'
  <2>1. pick' \in Names \union {NoName}
    BY <1>2, <1>4
  <2> QED
    BY <1>1, <1>3, <1>4, <2>1, Zenon DEF SweepInv, SweepTyped, GroupsRight, Covered, Exact, Achieved
<1>6. SettledEmpty'
  BY <1>1, <1>4, Zenon DEF SweepInv, SettledEmpty
<1>7. \A x \in db.lines : \E l \in LinesIn(db, groups[n]) : l.ts <= x.ts
  <2> SUFFICES ASSUME NEW x \in db.lines PROVE \E l \in LinesIn(db, groups[n]) : l.ts <= x.ts
    OBVIOUS
  <2>1. PICK m : m = NameOf[x.of]
    OBVIOUS
  <2>2. m \in Candidates /\ x \in LinesIn(db, groups[m])
    BY <1>4, <2>1, LinesAreOfCandidates
  <2> QED
    BY <1>2, <2>2, Zenon DEF HoldsOldest
<1>8. PickedInTime'
  <2>1. Total' = Total
    BY <1>1, TotalIsSum
  <2> QED
    BY <1>1, <1>2, <1>7, <2>1, Zenon DEF PickedInTime
<1> QED
  BY <1>5, <1>6, <1>8 DEF SweepInv

LEMMA TrimPickedSweep == ASSUME RowsInv, BytesInv, SweepInv, TrimPicked PROVE SweepInv'
<1>1. PICK excess, V :
        /\ writer = "total" /\ pick # NoName /\ excess = Total - TotalCap
        /\ V = Oldest(LinesIn(db, groups[pick]), excess) /\ Evict(V)
        /\ est' = [est EXCEPT ![pick] = @ - SizeOf(V)]
        /\ settled' = IF V = {} THEN settled \union {pick} ELSE settled
        /\ pick' = NoName /\ round' = round + 1
        /\ UNCHANGED <<writer, groups>>
  BY Zenon DEF TrimPicked
<1>2. disturbed' = disturbed
  BY Zenon DEF TrimPicked
<1>3. Sweeping /\ Sweeping' /\ writer # "prune" /\ writer' # "prune"
  BY <1>1 DEF Sweeping
<1>4. pick \in Names /\ round \in 0 .. MaxTrimRounds
  BY <1>1 DEF SweepInv, SweepTyped
<1>5. round < MaxTrimRounds /\ Total > TotalCap
  BY <1>1 DEF SweepInv, PickedInTime
<1>6. excess \in Nat \ {0}
  BY <1>1, <1>3, <1>5, StoreIsCovered, SizesAssumption
<1>7. PICK n \in Names : n = pick
  BY <1>4
<1>8. /\ est' \in [Names -> Nat] /\ settled' \subseteq Names
      /\ GroupsRight' /\ Covered' /\ Exact'
      /\ \A m \in settled' : LinesIn(db', groups[m]) = {}
      /\ \A m \in Names : /\ SizeOf(LinesIn(db', groups[m])) <= SizeOf(LinesIn(db, groups[m]))
                          /\ SizeOf(LinesIn(db', groups[m])) \in Nat
                          /\ SizeOf(LinesIn(db, groups[m])) \in Nat
  BY <1>1, <1>2, <1>3, <1>6, <1>7, EvictGroups, Zenon
<1>9. SweepTyped'
  <2>1. round' \in 0 .. MaxTrimRounds
    BY <1>1, <1>4, <1>5, SizesAssumption
  <2> QED
    BY <1>1, <1>2, <1>8, <2>1, Zenon DEF SweepInv, SweepTyped
<1>10. SettledEmpty'
  BY <1>1, <1>3, <1>8, Zenon DEF SettledEmpty
<1>11. PickedInTime'
  BY <1>1, Zenon DEF PickedInTime
<1>12. Achieved'
  <2>1. \A m \in Names : SizeOf(LinesIn(db, groups[m])) <= PerCap
    BY <1>1, Zenon DEF SweepInv, Achieved
  <2>2. \A m \in Names : SizeOf(LinesIn(db', groups[m])) <= PerCap
    BY <1>8, <2>1, SizesAssumption
  <2> QED
    BY <1>1, <1>3, <2>2, Zenon DEF Achieved
<1> QED
  BY <1>8, <1>9, <1>10, <1>11, <1>12 DEF SweepInv

LEMMA TotalTrimmedSweep == ASSUME RowsInv, BytesInv, SweepInv, TotalTrimmed PROVE SweepInv'
<1>1. /\ writer = "total" /\ pick = NoName /\ writer' = "prune"
      /\ Total <= TotalCap \/ round = MaxTrimRounds \/ Candidates = {}
      /\ UNCHANGED <<db, groups, est, settled, pick, round>>
  BY Zenon DEF TotalTrimmed, sweep
<1>2. disturbed' = disturbed
  BY Zenon DEF TotalTrimmed, sweep
<1>3. Sweeping /\ Sweeping'
  BY <1>1 DEF Sweeping
<1>4. SweepTyped' /\ GroupsRight' /\ Covered' /\ Exact'
  BY <1>1, <1>2, <1>3, Zenon DEF SweepInv, SweepTyped, GroupsRight, Covered, Exact
<1>5. SettledEmpty' /\ PickedInTime'
  BY <1>1, <1>3, Zenon DEF SweepInv, SettledEmpty, PickedInTime
<1>6. ASSUME round < MaxTrimRounds PROVE SizeOf(db.lines) <= TotalCap
  <2>1. round # MaxTrimRounds
    BY <1>6, SizesAssumption DEF SweepInv, SweepTyped
  <2>2. CASE Total <= TotalCap
    BY <1>3, <2>2, StoreIsCovered, SizesAssumption
  <2>3. CASE Candidates = {}
    <3>1. db.lines = {}
      <4> SUFFICES ASSUME NEW x \in db.lines PROVE FALSE
        OBVIOUS
      <4>1. PICK n : n = NameOf[x.of]
        OBVIOUS
      <4>2. n \in Candidates
        BY <1>3, <4>1, LinesAreOfCandidates
      <4> QED
        BY <2>3, <4>2
    <3>2. SizeOf(db.lines) = 0
      BY <3>1, SizeOfNone
    <3> QED
      BY <3>2, SizesAssumption
  <2> QED
    BY <1>1, <2>1, <2>2, <2>3
<1>7. Achieved'
  <2>1. \A n \in Names : SizeOf(LinesIn(db, groups[n])) <= PerCap
    BY <1>1, Zenon DEF SweepInv, Achieved
  <2> QED
    BY <1>1, <1>6, <2>1, Zenon DEF Achieved
<1> QED
  BY <1>4, <1>5, <1>7 DEF SweepInv

LEMMA SweepOverSweep == ASSUME SweepOver PROVE SweepInv'
<1>1. /\ writer' = "idle" /\ groups' = [n \in Names |-> {}] /\ est' = [n \in Names |-> 0]
      /\ settled' = {} /\ pick' = NoName /\ round' = 0
  BY Zenon DEF SweepOver
<1>2. disturbed' \in BOOLEAN
  <2>1. disturbed' = FALSE
    BY Zenon DEF SweepOver
  <2> QED
    BY <2>1
<1>3. groups' \in [Names -> SUBSET Ids] /\ est' \in [Names -> Nat] /\ round' \in 0 .. MaxTrimRounds
  BY <1>1, SizesAssumption
<1>4. SweepTyped'
  BY <1>1, <1>2, <1>3, Zenon DEF SweepTyped
<1> QED
  BY <1>1, <1>4, NotSweeping

\* The steps of the others.
LEMMA OtherSweep ==
    ASSUME RowsInv, BytesInv, SweepInv, SyncStep \/ WriteStep \/ PurgeStep \/ UNCHANGED vars
    PROVE  SweepInv'
<1>1. CASE SyncStep
  <2>1. PICK k \in Keys : UpsertMeta(k) \/ MarkRemoved(k) \/ End(k)
    BY <1>1 DEF SyncStep
  <2>2. UNCHANGED <<writer, groups, est, settled, pick, round, disturbed>>
    BY <2>1, Zenon DEF UpsertMeta, MarkRemoved, End, sweep
  <2>3. db'.lines = db.lines
    <3>1. CASE UpsertMeta(k)
      <4> DEFINE w == WithRow(db, k)
                 i == UpsertId(db, k)
      <4>1. /\ NextId(db) <= MaxId \/ HasRow(db, k)
            /\ db' = WithMarks(w, w.removed \ {i})
        BY <3>1, Zenon DEF UpsertMeta, Autocommit, WithMarks
      <4>2. i <= MaxId
        <5>1. CASE HasRow(db, k)
          <6>1. i \in Ids
            BY <5>1, Zenon DEF UpsertId, HasRow, RowId
          <6> HIDE DEF i
          <6> QED
            BY <6>1, SizesAssumption, SMT DEF Ids
        <5>2. CASE ~HasRow(db, k)
          BY <4>1, <5>2, Zenon DEF UpsertId
        <5> QED
          BY <5>1, <5>2
      <4>3. i = UpsertId(db, k) /\ w = WithRow(db, k) /\ IsDatabase(db)
        BY DEF RowsInv, Shape
      <4> HIDE DEF i, w
      <4>4. IsDatabase(w) /\ w.lines = db.lines
        BY <4>2, <4>3, RowIsInserted
      <4>5. w.removed \ {i} \in SUBSET Ids
        BY <4>4, Zenon DEF IsDatabase
      <4> QED
        BY <4>1, <4>4, <4>5, Marked
    <3>2. CASE MarkRemoved(k)
      <4>1. HasRow(db, k) /\ db' = WithMarks(db, db.removed \union {RowId(db, k)})
        BY <3>2, Zenon DEF MarkRemoved, Autocommit, WithMarks
      <4>2. RowId(db, k) \in Ids /\ IsDatabase(db)
        BY <4>1, Zenon DEF HasRow, RowId, RowsInv, Shape
      <4>3. db.removed \union {RowId(db, k)} \in SUBSET Ids
        BY <4>2, Zenon DEF IsDatabase
      <4> QED
        BY <4>1, <4>2, <4>3, Marked
    <3>3. CASE End(k)
      BY <3>3, Zenon DEF End
    <3> QED
      BY <2>1, <3>1, <3>2, <3>3
  <2> QED
    BY <2>2, <2>3, SweepKept
<1>2. CASE WriteStep
  <2>1. UNCHANGED <<groups, est, settled, pick, round, disturbed>>
    BY <1>2, Zenon DEF WriteStep, Begin, Write, Commit, CommitFails, Rollback, sweep
  <2>2. writer \in {"idle", "writing"} /\ writer' \in {"idle", "writing"}
    <3>1. CASE \E m \in Batches : Begin(m)
      <4>1. writer = "idle" /\ writer' = "writing"
        BY <3>1, Zenon DEF Begin
      <4> QED
        BY <4>1
    <3>2. CASE Write
      <4>1. writer = "writing" /\ writer' = writer
        BY <3>2, Zenon DEF Write
      <4> QED
        BY <4>1
    <3>3. CASE Commit \/ CommitFails
      <4>1. writer = "writing" /\ writer' = "idle"
        BY <3>3, Zenon DEF Commit, CommitFails, Rollback
      <4> QED
        BY <4>1
    <3> QED
      BY <1>2, <3>1, <3>2, <3>3 DEF WriteStep
  <2> QED
    BY <2>1, <2>2, NotSweepingKept
<1>3. CASE PurgeStep
  <2>1. CASE (\E n \in Names : PurgeBegin(n)) \/ PurgePublish \/ PurgeFails
    <3>1. UNCHANGED <<db, writer, groups, est, settled, pick, round, disturbed>>
      BY <2>1, Zenon DEF PurgeBegin, PurgePublish, PurgeFails, sweep
    <3> QED
      BY <3>1, SweepKept
  <2>2. CASE PurgeCommit
    BY <2>2, PurgeCommitSweep
  <2> QED
    BY <1>3, <2>1, <2>2 DEF PurgeStep
<1>4. CASE UNCHANGED vars
  <2>1. UNCHANGED <<db, writer, groups, est, settled, pick, round, disturbed>>
    BY <1>4, Zenon DEF vars, sweep
  <2> QED
    BY <2>1, SweepKept
<1> QED
  BY <1>1, <1>2, <1>3, <1>4

LEMMA StepSweep == RowsInv /\ BytesInv /\ SweepInv /\ [Next]_vars => SweepInv'
<1> SUFFICES ASSUME RowsInv, BytesInv, SweepInv, [Next]_vars PROVE SweepInv'
  OBVIOUS
<1>1. CASE SweepStep
  <2>1. CASE Prune \/ SweepFails
    <3>1. SweepOver
      BY <2>1, Zenon DEF Prune, SweepFails
    <3> QED
      BY <3>1, SweepOverSweep
  <2> QED
    BY <1>1, <2>1, SweepBeginSweep, TrimSweep, GroupsTrimmedSweep, PickSweep, TrimPickedSweep,
       TotalTrimmedSweep DEF SweepStep
<1> QED
  BY <1>1, OtherSweep DEF Next

-----------------------------------------------------------------------------
StoreInv == RowsInv /\ BytesInv /\ SweepInv

LEMMA InitStore == Init => StoreInv
BY InitRows, InitBytes, InitSweep DEF StoreInv

LEMMA StepStore == ASSUME ~Misses PROVE StoreInv /\ [Next]_vars => StoreInv'
BY StepRows, StepBytes, StepSweep DEF StoreInv

LEMMA DatabasesAreTyped ==
    ASSUME NEW d, IsDatabase(d), NEW last, Counted(d, last)
    PROVE  d \in Database
<1>1. d.lines \subseteq StoredLine
  BY DEF Counted, FiniteLines
<1>2. d.bytes \in [Ids -> Nat]
  BY DEF Counted
<1>3. d.gen \in [Ids -> Keys \union {NoKey}] /\ d.removed \subseteq Ids
  BY DEF IsDatabase
<1>4. d = [gen |-> d.gen, removed |-> d.removed, bytes |-> d.bytes, lines |-> d.lines]
  BY DEF IsDatabase
<1>5. d.removed \in SUBSET Ids /\ d.lines \in SUBSET StoredLine
  BY <1>1, <1>3
<1> QED
  BY <1>2, <1>3, <1>4, <1>5, Zenon DEF Database

LEMMA StoreIsAccounted == StoreInv => RowsAccounted
<1> SUFFICES ASSUME StoreInv PROVE RowsAccounted
  OBVIOUS
<1>1. RowsInv /\ BytesInv /\ SweepInv
  BY DEF StoreInv
<1>2. db \in Database /\ tx \in Database
  BY <1>1, DatabasesAreTyped DEF RowsInv, Shape, BytesInv
<1>3. /\ lock \in {"free", "writer", "purge"}
      /\ writer \in {"idle", "writing", "groups", "total", "prune"}
      /\ purge \in {"none", "deleted", "published"}
      /\ purged \subseteq Keys /\ invalidated \subseteq Keys
      /\ inserted \in 0 .. MaxLines /\ failures \in 0 .. MaxFailures /\ purges \in 0 .. MaxPurges
  BY <1>1, Zenon DEF BytesInv, Places
<1>4. /\ batch \in Seq(Message) /\ ended \subseteq Keys
      /\ refs \in [Keys -> {0} \union Ids] /\ fresh \in [Keys -> {0} \union Ids]
  BY <1>1, Zenon DEF RowsInv, Shape
<1>5. /\ groups \in [Names -> SUBSET Ids] /\ est \in [Names -> Nat]
      /\ settled \subseteq Names /\ pick \in Names \union {NoName}
      /\ round \in 0 .. MaxTrimRounds /\ disturbed \in BOOLEAN
  BY <1>1, Zenon DEF SweepInv, SweepTyped
<1>6. /\ lock = "free" => tx = db
      /\ lock = "writer" <=> writer = "writing"
      /\ lock = "purge" <=> purge # "none"
  BY <1>1, Zenon DEF RowsInv, LockHeld
<1>7. TypeOK
  BY <1>2, <1>3, <1>4, <1>5, <1>6, Zenon DEF TypeOK
<1>8. CacheSound
  BY <1>1 DEF RowsInv
<1>9. BytesExact
  BY <1>1, Zenon DEF BytesInv, Counted, BytesExact
<1> QED
  BY <1>7, <1>8, <1>9 DEF RowsAccounted

\* internal/logstore: as long as no listing misses a container that will log
\* again, stored_bytes of every row is exactly what the stored lines of the row
\* take, and the writer's cache agrees with the database, across batches that
\* fail, purges, evictions and prunings in whatever order.
THEOREM RowsAreAccounted == ASSUME ~Misses PROVE Spec => []RowsAccounted
BY InitStore, StepStore, StoreIsAccounted, PTL DEF Spec

-----------------------------------------------------------------------------
\* What a sweep that has run to its end leaves.
LEMMA PruneMeetsCaps ==
    ASSUME StoreInv, Prune
    PROVE  /\ \A n \in Names : HeldBy(db', n) <= PerCap
           /\ round < MaxTrimRounds => Held(db') <= TotalCap
<1>0. RowsInv /\ BytesInv /\ SweepInv
  BY DEF StoreInv
<1>1. writer = "prune" /\ db' = WithoutRows(db, Prunable)
  BY Zenon DEF Prune, Autocommit
<1>2. Sweeping
  BY <1>1 DEF Sweeping
<1>3. IsDatabase(db) /\ Counted(db, inserted)
  BY <1>0 DEF RowsInv, Shape, BytesInv
<1>4. Prunable \in SUBSET Ids
  BY <1>3, Zenon DEF Prunable, IsDatabase
<1>5. db'.lines \subseteq db.lines
  <2>1. WithdrawnBytes(db, db', Prunable)
    BY <1>1, <1>3, <1>4, Withdrawn
  <2> QED
    BY <1>3, <2>1, CountWithdrawn
<1>6. db.lines \in FiniteLines
  BY <1>3 DEF Counted
<1>7. ASSUME NEW n \in Names PROVE HeldBy(db', n) <= PerCap
  <2>1. PICK L, M : L = {l \in db.lines : NameOf[l.of] = n} /\ M = {l \in db'.lines : NameOf[l.of] = n}
    OBVIOUS
  <2>2. L \in FiniteLines /\ M \subseteq L
    <3>1. L \subseteq db.lines /\ M \subseteq L
      BY <1>5, <2>1
    <3> QED
      BY <1>6, <3>1, LineParts
  <2>3. SizeOf(L) <= PerCap
    <3>1. L = LinesIn(db, groups[n])
      BY <1>0, <1>2, <2>1, GroupLines
    <3>2. SizeOf(LinesIn(db, groups[n])) <= PerCap
      BY <1>0, <1>1, Zenon DEF SweepInv, Achieved
    <3> QED
      BY <3>1, <3>2
  <2>4. SizeOf(M) <= SizeOf(L) /\ SizeOf(M) \in Nat /\ SizeOf(L) \in Nat
    BY <2>2, SizeSplits
  <2>5. HeldBy(db', n) = SizeOf(M)
    BY <2>1, Zenon DEF HeldBy
  <2> QED
    BY <2>3, <2>4, <2>5, SizesAssumption
<1>8. ASSUME round < MaxTrimRounds PROVE Held(db') <= TotalCap
  <2>1. SizeOf(db.lines) <= TotalCap
    BY <1>0, <1>1, <1>8, Zenon DEF SweepInv, Achieved
  <2>2. SizeOf(db'.lines) <= SizeOf(db.lines) /\ SizeOf(db'.lines) \in Nat /\ SizeOf(db.lines) \in Nat
    BY <1>5, <1>6, SizeSplits
  <2>3. Held(db') = SizeOf(db'.lines)
    BY DEF Held
  <2> QED
    BY <2>1, <2>2, <2>3, SizesAssumption
<1> QED
  BY <1>7, <1>8

\* What one eviction takes of a group.
LEMMA EvictionIsExact ==
    ASSUME StoreInv, Sweeping, NEW n \in Names, NEW excess \in Nat \ {0},
           NEW V, V = Oldest(LinesIn(db, groups[n]), excess), Evict(V)
    PROVE  /\ Evicted = V /\ V \in FiniteLines
           /\ \A v \in V : SizeOf({x \in V : x.ts < v.ts}) < excess
           /\ \A v \in V : \A x \in db'.lines : NameOf[x.of] = NameOf[v.of] => v.ts < x.ts
           /\ LinesIn(db, groups[n]) # {} => \E v \in V : \A x \in LinesIn(db, groups[n]) : v.ts <= x.ts
<1>0. RowsInv /\ BytesInv /\ SweepInv
  BY DEF StoreInv
<1>1. PICK L : L = LinesIn(db, groups[n])
  OBVIOUS
<1>2. L \in FiniteLines /\ L = {l \in db.lines : NameOf[l.of] = n}
  BY <1>0, <1>1, GroupLines
<1>3. \A l \in L : \A x \in L : l.ts = x.ts => l = x
  <2>1. L \subseteq db.lines
    BY <1>2
  <2>2. \A l \in db.lines : \A x \in db.lines : l.ts = x.ts => l = x
    BY <1>0 DEF BytesInv, Counted
  <2> QED
    BY <2>1, <2>2
<1>4. V = Oldest(L, excess)
  BY <1>1
<1>5. /\ V \subseteq L /\ V \in FiniteLines
      /\ L # {} => \E v \in V : \A x \in L : v.ts <= x.ts
      /\ \A v \in V : \A x \in L \ V : v.ts < x.ts
      /\ \A v \in V : SizeOf({x \in V : x.ts < v.ts}) < excess
  BY <1>2, <1>3, <1>4, OldestAreTaken
<1>6. db'.lines = db.lines \ V
  <2>1. db' = Without(db, V) /\ IsDatabase(db)
    BY <1>0 DEF Evict, Autocommit, RowsInv, Shape
  <2> QED
    BY <2>1, EvictedLines
<1>7. Evicted = V
  BY <1>2, <1>5, <1>6 DEF Evicted
<1>8. ASSUME NEW v \in V, NEW x \in db'.lines, NameOf[x.of] = NameOf[v.of] PROVE v.ts < x.ts
  <2>1. x \in L \ V
    BY <1>2, <1>5, <1>6, <1>8
  <2> QED
    BY <1>5, <2>1
<1> QED
  BY <1>1, <1>5, <1>7, <1>8, Zenon

\* A purge that commits during a sweep is not seen by it; without one, what the
\* sweep believes its groups hold is what they hold.
LEMMA TrimIsExact ==
    ASSUME StoreInv, NEW n \in Names, Trim(n)
    PROVE  /\ ~disturbed => EachNeeded(HeldBy(db, n), PerCap)
           /\ \A l \in Evicted : \A x \in db'.lines : NameOf[x.of] = NameOf[l.of] => l.ts < x.ts
<1>0. RowsInv /\ BytesInv /\ SweepInv
  BY DEF StoreInv
<1>1. PICK excess, V :
        /\ writer = "groups" /\ est[n] > PerCap /\ excess = est[n] - PerCap
        /\ V = Oldest(LinesIn(db, groups[n]), excess) /\ Evict(V)
  BY Zenon DEF Trim
<1>2. Sweeping
  BY <1>1 DEF Sweeping
<1>3. est[n] \in Nat /\ PerCap \in Nat
  BY <1>0, SizesAssumption DEF SweepInv, SweepTyped
<1>4. excess \in Nat \ {0}
  BY <1>1, <1>3
<1>5. /\ Evicted = V /\ V \in FiniteLines
      /\ \A v \in V : SizeOf({x \in V : x.ts < v.ts}) < excess
      /\ \A v \in V : \A x \in db'.lines : NameOf[x.of] = NameOf[v.of] => v.ts < x.ts
  BY <1>1, <1>2, <1>4, EvictionIsExact
<1>6. ASSUME ~disturbed PROVE EachNeeded(HeldBy(db, n), PerCap)
  <2>1. est[n] = HeldBy(db, n)
    <3>1. est[n] = SizeOf(LinesIn(db, groups[n]))
      BY <1>0, <1>2, <1>6, Zenon DEF SweepInv, Exact
    <3>2. LinesIn(db, groups[n]) = {l \in db.lines : NameOf[l.of] = n}
      BY <1>0, <1>2, GroupLines
    <3> QED
      BY <3>1, <3>2, Zenon DEF HeldBy
  <2>2. ASSUME NEW v \in V PROVE est[n] - SizeOf({x \in V : x.ts < v.ts}) > PerCap
    <3>1. PICK A : A = {x \in V : x.ts < v.ts}
      OBVIOUS
    <3>2. SizeOf(A) \in Nat
      <4>1. A \subseteq V
        BY <3>1
      <4>2. A \in FiniteLines
        BY <1>5, <4>1, LineParts
      <4> QED
        BY <4>2, SizeIsNatural
    <3>3. SizeOf(A) < excess
      BY <1>5, <3>1
    <3> QED
      BY <1>1, <1>3, <3>1, <3>2, <3>3
  <2> QED
    BY <1>5, <2>1, <2>2, Zenon DEF EachNeeded
<1> QED
  BY <1>5, <1>6

LEMMA TrimPickedIsExact ==
    ASSUME StoreInv, TrimPicked
    PROVE  /\ ~disturbed => EachNeeded(Held(db), TotalCap)
           /\ \A l \in Evicted : \A x \in db'.lines : NameOf[x.of] = NameOf[l.of] => l.ts < x.ts
           /\ ~disturbed => \A x \in db'.lines : \E l \in Evicted : l.ts < x.ts
<1>0. RowsInv /\ BytesInv /\ SweepInv
  BY DEF StoreInv
<1>1. PICK excess, V :
        /\ writer = "total" /\ pick # NoName /\ excess = Total - TotalCap
        /\ V = Oldest(LinesIn(db, groups[pick]), excess) /\ Evict(V)
  BY Zenon DEF TrimPicked
<1>2. Sweeping
  BY <1>1 DEF Sweeping
<1>3. pick \in Names
  BY <1>0, <1>1 DEF SweepInv, SweepTyped
<1>4. Total > TotalCap /\ Total \in Nat /\ TotalCap \in Nat
  <2>1. Total > TotalCap
    BY <1>0, <1>1 DEF SweepInv, PickedInTime
  <2> QED
    BY <1>0, <1>2, <2>1, StoreIsCovered, SizesAssumption
<1>5. excess \in Nat \ {0}
  BY <1>1, <1>4
<1>6. PICK n \in Names : n = pick
  BY <1>3
<1>7. /\ Evicted = V /\ V \in FiniteLines
      /\ \A v \in V : SizeOf({x \in V : x.ts < v.ts}) < excess
      /\ \A v \in V : \A x \in db'.lines : NameOf[x.of] = NameOf[v.of] => v.ts < x.ts
      /\ LinesIn(db, groups[n]) # {} => \E v \in V : \A x \in LinesIn(db, groups[n]) : v.ts <= x.ts
  BY <1>1, <1>2, <1>5, <1>6, EvictionIsExact
<1>8. ASSUME ~disturbed PROVE EachNeeded(Held(db), TotalCap)
  <2>1. Total = Held(db)
    BY <1>0, <1>2, <1>8, StoreIsCovered, Zenon DEF Held
  <2>2. ASSUME NEW v \in V PROVE Total - SizeOf({x \in V : x.ts < v.ts}) > TotalCap
    <3>1. PICK A : A = {x \in V : x.ts < v.ts}
      OBVIOUS
    <3>2. SizeOf(A) \in Nat
      <4>1. A \subseteq V
        BY <3>1
      <4>2. A \in FiniteLines
        BY <1>7, <4>1, LineParts
      <4> QED
        BY <4>2, SizeIsNatural
    <3>3. SizeOf(A) < excess
      BY <1>7, <3>1
    <3> QED
      BY <1>1, <1>4, <3>1, <3>2, <3>3
  <2> QED
    BY <1>7, <2>1, <2>2, Zenon DEF EachNeeded
<1>9. ASSUME ~disturbed, NEW x \in db'.lines PROVE \E l \in Evicted : l.ts < x.ts
  <2>1. x \in db.lines /\ x \notin V
    <3>1. db' = Without(db, V) /\ IsDatabase(db)
      BY <1>0, <1>1 DEF Evict, Autocommit, RowsInv, Shape
    <3>2. db'.lines = db.lines \ V
      BY <3>1, EvictedLines
    <3> QED
      BY <1>9, <3>2
  <2>2. PICK l \in LinesIn(db, groups[n]) : l.ts <= x.ts
    BY <1>0, <1>1, <1>6, <1>9, <2>1, Zenon DEF SweepInv, PickedInTime
  <2>3. PICK v \in V : v.ts <= l.ts
    BY <1>7, <2>2
  <2>4. v \in db.lines
    BY <1>7, <2>3 DEF Evicted
  <2>5. l \in db.lines
    BY <2>2 DEF LinesIn
  <2>6. v.ts \in Nat /\ l.ts \in Nat /\ x.ts \in Nat
    <3>1. db.lines \in FiniteLines
      BY <1>0 DEF BytesInv, Counted
    <3> QED
      BY <2>1, <2>4, <2>5, <3>1, LineSizes, SizesAssumption DEF FiniteLines
  <2>7. v.ts # x.ts
    <3>1. v.ts = x.ts => v = x
      BY <1>0, <2>1, <2>4, Zenon DEF BytesInv, Counted
    <3> QED
      BY <2>1, <2>3, <3>1
  <2>8. v.ts < x.ts
    BY <2>2, <2>3, <2>6, <2>7
  <2> QED
    BY <1>7, <2>8
<1> QED
  BY <1>7, <1>8, <1>9

\* janitor.go: as long as no listing misses a container that will log again, a
\* sweep evicts what the caps ask for.  One that runs to its end leaves every
\* logical container and the store under their caps, unless the rounds run out;
\* unless a purge committed meanwhile, each line evicted was needed for that, and
\* the trim of the store begins with the oldest line of all; and of a container
\* the oldest lines always go first.
THEOREM SweepsAreExact == ASSUME ~Misses PROVE Spec => SweepIsExact
<1>1. StoreInv /\ [Next]_vars =>
        [Prune => /\ \A n \in Names : HeldBy(db', n) <= PerCap
                  /\ round < MaxTrimRounds => Held(db') <= TotalCap]_vars
  BY PruneMeetsCaps
<1>2. StoreInv /\ [Next]_vars =>
        [/\ \A n \in Names : Trim(n) /\ ~disturbed => EachNeeded(HeldBy(db, n), PerCap)
         /\ TrimPicked /\ ~disturbed => EachNeeded(Held(db), TotalCap)]_vars
  BY TrimIsExact, TrimPickedIsExact, Zenon
<1>3. StoreInv /\ [Next]_vars =>
        [/\ (\E n \in Names : Trim(n)) \/ TrimPicked =>
                \A l \in Evicted : \A x \in db'.lines : NameOf[x.of] = NameOf[l.of] => l.ts < x.ts
         /\ TrimPicked /\ ~disturbed => \A x \in db'.lines : \E l \in Evicted : l.ts < x.ts]_vars
  BY TrimIsExact, TrimPickedIsExact, Zenon
<1>4. Spec => SweepMeetsCaps
  BY <1>1, InitStore, StepStore, PTL DEF Spec, SweepMeetsCaps
<1>5. Spec => SweepEvictsOnlyExcess
  BY <1>2, InitStore, StepStore, PTL DEF Spec, SweepEvictsOnlyExcess
<1>6. Spec => SweepTakesOldest
  BY <1>3, InitStore, StepStore, PTL DEF Spec, SweepTakesOldest
<1> QED
  BY <1>4, <1>5, <1>6, PTL DEF SweepIsExact

=============================================================================
