------------------------- MODULE Allocation_proofs -------------------------
(***************************************************************************)
(* Proofs about the allocator, for every set of jobs, GPUs, groups, users, *)
(* requests, limits and machine.                                           *)
(***************************************************************************)
EXTENDS Allocation, FiniteSetTheorems, WellFoundedInduction, TLAPS

-----------------------------------------------------------------------------
(* Sums over finite sets.  The model adds up with MapThenSumSet, which takes the elements
   in the order CHOOSE gives them.  Here it is shown to be a sum in any order: an element
   can be added or removed wherever it comes in that order.  The library's induction
   theorems take an operator as a parameter; the inductions here are on a set instead,
   from the least counterexample.  *)

(* The sum of f over S.  *)
Total(f, S) == MapThenSumSet(LAMBDA x : f[x], S)

(* The element the fold takes first, and one unfolding of its equation.  *)
Chosen(s) == CHOOSE x \in s : TRUE

Unfolded(f, S, g) ==
    [s \in SUBSET S |-> IF s = {} THEN 0 ELSE f[Chosen(s)] + g[s \ {Chosen(s)}]]

(* The equation holds on subsets of at most n elements.  *)
Obeys(f, S, g, n) == \A s \in SUBSET S : Cardinality(s) <= n => g[s] = Unfolded(f, S, g)[s]

(* A set of naturals has a least element.  *)
LEMMA LeastOf ==
    ASSUME NEW T \in SUBSET Nat, T # {}
    PROVE  \E n \in T : \A m \in T : n <= m
<1>. DEFINE R == OpToRel(<, Nat)
<1>1. IsWellFoundedOn(R, Nat)
  BY NatLessThanWellFounded
<1>2. PICK n \in T : \A m \in T : <<m, n>> \notin R
  <2>. HIDE DEF R
  <2>. QED BY <1>1, WFMin
<1>3. \A m \in T : ~(m < n)
  <2>. SUFFICES ASSUME NEW m \in T, m < n PROVE FALSE
    OBVIOUS
  <2>1. <<m, n>> \in R
    BY DEF OpToRel
  <2>. QED BY <1>2, <2>1
<1>. QED BY <1>3

(* Subsets and their sizes.  *)
LEMMA Smaller ==
    ASSUME NEW S, IsFiniteSet(S), NEW s \in SUBSET S, NEW x \in s
    PROVE  /\ IsFiniteSet(s) /\ IsFiniteSet(s \ {x})
           /\ s \ {x} \in SUBSET S
           /\ Cardinality(s) \in Nat \ {0}
           /\ Cardinality(s \ {x}) = Cardinality(s) - 1
BY FS_Subset, FS_RemoveElement, FS_CardinalityType, FS_EmptySet

LEMMA ChosenIn == ASSUME NEW s, s # {} PROVE Chosen(s) \in s
BY DEF Chosen

(* The equation has a solution on ever larger subsets.  *)
LEMMA ObeysMore ==
    ASSUME NEW S, IsFiniteSet(S), NEW f, \A x \in S : f[x] \in Nat, NEW n \in Nat,
           NEW g \in [SUBSET S -> Nat], Obeys(f, S, g, n)
    PROVE  Unfolded(f, S, g) \in [SUBSET S -> Nat] /\ Obeys(f, S, Unfolded(f, S, g), n + 1)
<1>. DEFINE h == Unfolded(f, S, g)
<1>1. h \in [SUBSET S -> Nat]
  BY ChosenIn DEF Unfolded
<1>2. ASSUME NEW s \in SUBSET S, Cardinality(s) <= n + 1
      PROVE  h[s] = Unfolded(f, S, h)[s]
  <2>1. CASE s = {}
    BY <2>1 DEF Unfolded
  <2>2. CASE s # {}
    <3>1. PICK c : c = Chosen(s) /\ c \in s
      BY <2>2, ChosenIn
    <3>2. s \ {c} \in SUBSET S /\ Cardinality(s \ {c}) <= n
      <4>1. /\ s \ {c} \in SUBSET S /\ Cardinality(s) \in Nat \ {0}
            /\ Cardinality(s \ {c}) = Cardinality(s) - 1
        BY <3>1, Smaller
      <4>. QED BY <1>2, <4>1
    <3>3. g[s \ {c}] = h[s \ {c}]
      BY <3>2 DEF Obeys
    <3>4. h[s] = f[c] + g[s \ {c}]
      BY <2>2, <3>1 DEF Unfolded
    <3>5. Unfolded(f, S, h)[s] = f[c] + h[s \ {c}]
      <4>. HIDE DEF h
      <4>. QED BY <2>2, <3>1 DEF Unfolded
    <3>. QED BY <3>3, <3>4, <3>5
  <2>. QED BY <2>1, <2>2
<1>. QED BY <1>1, <1>2 DEF Obeys

(* The equation of the fold has a solution.  *)
LEMMA Solvable ==
    ASSUME NEW S, IsFiniteSet(S), NEW f, \A x \in S : f[x] \in Nat
    PROVE  \E g \in [SUBSET S -> Nat] : g = Unfolded(f, S, g)
<1>. DEFINE Bad == {n \in Nat : ~ \E g \in [SUBSET S -> Nat] : Obeys(f, S, g, n)}
<1>1. 0 \notin Bad
  <2>. DEFINE g == [s \in SUBSET S |-> 0]
  <2>1. \A s \in SUBSET S : Cardinality(s) <= 0 => s = {}
    BY Smaller, FS_Subset, FS_CardinalityType, FS_EmptySet
  <2>2. Obeys(f, S, g, 0)
    BY <2>1 DEF Obeys, Unfolded
  <2>3. g \in [SUBSET S -> Nat]
    OBVIOUS
  <2>. HIDE DEF g
  <2>. QED BY <2>2, <2>3
<1>2. Bad = {}
  <2>. SUFFICES ASSUME Bad # {} PROVE FALSE
    OBVIOUS
  <2>1. PICK n \in Bad : \A m \in Bad : n <= m
    <3>. Bad \in SUBSET Nat
      OBVIOUS
    <3>. HIDE DEF Bad
    <3>. QED BY LeastOf
  <2>2. n \in Nat /\ n # 0
    BY <1>1, <2>1
  <2>3. n - 1 \in Nat /\ n - 1 \notin Bad
    <3>1. n - 1 \in Nat /\ ~(n <= n - 1)
      BY <2>2
    <3>. HIDE DEF Bad
    <3>. QED BY <2>1, <3>1
  <2>4. PICK g \in [SUBSET S -> Nat] : Obeys(f, S, g, n - 1)
    BY <2>3
  <2>5. /\ Unfolded(f, S, g) \in [SUBSET S -> Nat]
        /\ Obeys(f, S, Unfolded(f, S, g), (n - 1) + 1)
    BY <2>3, <2>4, ObeysMore
  <2>6. (n - 1) + 1 = n
    BY <2>2
  <2>7. Obeys(f, S, Unfolded(f, S, g), n)
    BY <2>5, <2>6
  <2>8. n \notin Bad
    BY <2>5, <2>7
  <2>. QED BY <2>8
<1>3. Cardinality(S) \in Nat
  BY FS_CardinalityType
<1>4. PICK g \in [SUBSET S -> Nat] : Obeys(f, S, g, Cardinality(S))
  BY <1>2, <1>3
<1>5. \A s \in SUBSET S : Cardinality(s) <= Cardinality(S)
  BY FS_Subset
<1>6. \A s \in SUBSET S : g[s] = Unfolded(f, S, g)[s]
  BY <1>4, <1>5 DEF Obeys
<1>7. g = Unfolded(f, S, g)
  <2>1. Unfolded(f, S, g) = [s \in SUBSET S |-> Unfolded(f, S, g)[s]]
    BY DEF Unfolded
  <2>. QED BY <1>6, <2>1
<1>. QED BY <1>7

(* Any element may come first.  *)
LEMMA AnyOrder ==
    ASSUME NEW S, IsFiniteSet(S), NEW f, \A x \in S : f[x] \in Nat, NEW g,
           \A s \in SUBSET S : g[s] \in Nat, g = Unfolded(f, S, g), NEW t \in SUBSET S, NEW y \in t
    PROVE  g[t] = f[y] + g[t \ {y}]
<1>. DEFINE Good(s) == \A x \in s : g[s] = f[x] + g[s \ {x}]
            Bad == {n \in Nat : \E s \in SUBSET S : Cardinality(s) = n /\ ~Good(s)}
<1>0. \A s \in SUBSET S : s # {} => g[s] = f[Chosen(s)] + g[s \ {Chosen(s)}]
  BY DEF Unfolded
<1>1. ASSUME NEW s \in SUBSET S, NEW x \in s,
             \A c \in s : Good(s \ {c})
      PROVE  g[s] = f[x] + g[s \ {x}]
  <2>1. PICK c : c = Chosen(s) /\ c \in s
    BY ChosenIn
  <2>2. g[s] = f[c] + g[s \ {c}]
    BY <1>0, <2>1
  <2>3. CASE c = x
    BY <2>2, <2>3
  <2>4. CASE c # x
    <3>1. g[s \ {c}] = f[x] + g[(s \ {c}) \ {x}]
      BY <1>1, <2>1, <2>4
    <3>2. g[s \ {x}] = f[c] + g[(s \ {x}) \ {c}]
      BY <1>1, <2>1, <2>4
    <3>3. (s \ {c}) \ {x} = (s \ {x}) \ {c}
      OBVIOUS
    <3>4. PICK d \in Nat : d = g[(s \ {c}) \ {x}]
      <4>1. (s \ {c}) \ {x} \in SUBSET S
        OBVIOUS
      <4>. QED BY <4>1
    <3>5. f[c] \in Nat /\ f[x] \in Nat
      BY <2>1
    <3>6. g[s] = f[c] + (f[x] + d) /\ g[s \ {x}] = f[c] + d
      BY <2>2, <3>1, <3>2, <3>3, <3>4
    <3>. QED BY <3>4, <3>5, <3>6
  <2>. QED BY <2>3, <2>4
<1>2. Bad = {}
  <2>. SUFFICES ASSUME Bad # {} PROVE FALSE
    OBVIOUS
  <2>1. PICK n \in Bad : \A m \in Bad : n <= m
    <3>. Bad \in SUBSET Nat
      OBVIOUS
    <3>. HIDE DEF Bad
    <3>. QED BY LeastOf
  <2>2. PICK s \in SUBSET S : Cardinality(s) = n /\ ~Good(s)
    BY <2>1
  <2>3. PICK x \in s : g[s] # f[x] + g[s \ {x}]
    BY <2>2
  <2>4. ASSUME NEW c \in s PROVE Good(s \ {c})
    <3>1. s \ {c} \in SUBSET S /\ Cardinality(s \ {c}) = n - 1 /\ n - 1 \in Nat
      BY <2>2, Smaller
    <3>2. ~(n <= n - 1)
      BY <3>1
    <3>3. n - 1 \notin Bad
      <4>. HIDE DEF Bad
      <4>. QED BY <2>1, <3>2
    <3>. HIDE DEF Good
    <3>. QED BY <3>1, <3>3
  <2>. HIDE DEF Good
  <2>. QED BY <1>1, <2>3, <2>4
<1>3. Cardinality(t) \in Nat
  BY FS_Subset, FS_CardinalityType
<1>4. Good(t)
  <2>. HIDE DEF Good
  <2>. QED BY <1>2, <1>3
<1>. QED BY <1>4

(* What holds of the empty set and survives one more element holds of S.  *)
LEMMA FiniteInduction ==
    ASSUME NEW S, IsFiniteSet(S), NEW W, {} \in W,
           \A s \in SUBSET S : \A x \in S \ s : s \in W => s \cup {x} \in W
    PROVE  S \in W
<1>. DEFINE Bad == {n \in Nat : \E s \in SUBSET S : Cardinality(s) = n /\ s \notin W}
<1>1. Bad = {}
  <2>. SUFFICES ASSUME Bad # {} PROVE FALSE
    OBVIOUS
  <2>1. PICK n \in Bad : \A m \in Bad : n <= m
    <3>. Bad \in SUBSET Nat
      OBVIOUS
    <3>. HIDE DEF Bad
    <3>. QED BY LeastOf
  <2>2. PICK s \in SUBSET S : Cardinality(s) = n /\ s \notin W
    BY <2>1
  <2>3. PICK x \in s : TRUE
    BY <2>2
  <2>4. s \ {x} \in SUBSET S /\ Cardinality(s \ {x}) = n - 1 /\ n - 1 \in Nat
    <3>1. /\ s \ {x} \in SUBSET S /\ Cardinality(s) \in Nat \ {0}
          /\ Cardinality(s \ {x}) = Cardinality(s) - 1
      BY Smaller
    <3>. QED BY <2>2, <3>1
  <2>5. n - 1 \notin Bad
    <3>1. ~(n <= n - 1)
      BY <2>4
    <3>. HIDE DEF Bad
    <3>. QED BY <2>1, <3>1
  <2>6. s \ {x} \in W
    BY <2>4, <2>5
  <2>7. (s \ {x}) \cup {x} = s /\ x \in S \ (s \ {x})
    OBVIOUS
  <2>8. (s \ {x}) \cup {x} \in W
    BY <2>4, <2>6, <2>7
  <2>. QED BY <2>2, <2>7, <2>8
<1>2. Cardinality(S) \in Nat
  BY FS_CardinalityType
<1>. QED BY <1>1, <1>2

(* Solutions of equations that agree agree.  *)
LEMMA SameSolution ==
    ASSUME NEW S, IsFiniteSet(S), NEW T, S \subseteq T,
           NEW f, NEW e, \A x \in S : f[x] = e[x],
           NEW g, g = Unfolded(f, S, g), NEW h, h = Unfolded(e, T, h)
    PROVE  g[S] = h[S]
<1>. DEFINE Bad == {n \in Nat : \E s \in SUBSET S : Cardinality(s) = n /\ g[s] # h[s]}
<1>1. /\ \A s \in SUBSET S : g[s] = IF s = {} THEN 0 ELSE f[Chosen(s)] + g[s \ {Chosen(s)}]
      /\ \A s \in SUBSET T : h[s] = IF s = {} THEN 0 ELSE e[Chosen(s)] + h[s \ {Chosen(s)}]
  BY DEF Unfolded
<1>2. Bad = {}
  <2>. SUFFICES ASSUME Bad # {} PROVE FALSE
    OBVIOUS
  <2>1. PICK n \in Bad : \A m \in Bad : n <= m
    <3>. Bad \in SUBSET Nat
      OBVIOUS
    <3>. HIDE DEF Bad
    <3>. QED BY LeastOf
  <2>2. PICK s \in SUBSET S : Cardinality(s) = n /\ g[s] # h[s]
    BY <2>1
  <2>3. s # {} /\ s \in SUBSET T
    BY <1>1, <2>2
  <2>4. PICK c : c = Chosen(s) /\ c \in s
    BY <2>3, ChosenIn
  <2>5. s \ {c} \in SUBSET S /\ Cardinality(s \ {c}) = n - 1 /\ n - 1 \in Nat
    <3>1. /\ s \ {c} \in SUBSET S /\ Cardinality(s) \in Nat \ {0}
          /\ Cardinality(s \ {c}) = Cardinality(s) - 1
      BY <2>4, Smaller
    <3>. QED BY <2>2, <3>1
  <2>6. n - 1 \notin Bad
    <3>1. ~(n <= n - 1)
      BY <2>5
    <3>. HIDE DEF Bad
    <3>. QED BY <2>1, <3>1
  <2>7. g[s \ {c}] = h[s \ {c}]
    BY <2>5, <2>6
  <2>8. f[c] = e[c]
    BY <2>4
  <2>9. g[s] = f[c] + g[s \ {c}] /\ h[s] = e[c] + h[s \ {c}]
    BY <1>1, <2>3, <2>4
  <2>. QED BY <2>2, <2>7, <2>8, <2>9
<1>3. Cardinality(S) \in Nat
  BY FS_CardinalityType
<1>. QED BY <1>2, <1>3

(* Whatever solves the equation gives the sum.  *)
LEMMA TotalSolves ==
    ASSUME NEW S, IsFiniteSet(S), NEW f, \A x \in S : f[x] \in Nat,
           NEW g, g = Unfolded(f, S, g)
    PROVE  Total(f, S) = g[S]
<1>1. \E h : h = Unfolded(f, S, h)
  BY Solvable
<1>2. \E h : h = Unfolded(f, S, h) /\ Total(f, S) = h[S]
  BY <1>1 DEF Total, MapThenSumSet, MapThenFoldSet, Unfolded, Chosen
<1>. QED BY <1>2, SameSolution

-----------------------------------------------------------------------------
(* What the proofs of the components use.  *)

(* A sum of naturals over a finite set is a natural.  *)
THEOREM TotalType ==
    ASSUME NEW S, IsFiniteSet(S), NEW f, \A x \in S : f[x] \in Nat
    PROVE  Total(f, S) \in Nat
<1>1. PICK g \in [SUBSET S -> Nat] : g = Unfolded(f, S, g)
  BY Solvable
<1>2. Total(f, S) = g[S]
  BY <1>1, TotalSolves
<1>. QED BY <1>2

(* The empty sum is 0.  *)
THEOREM TotalEmpty == ASSUME NEW f PROVE Total(f, {}) = 0
<1>1. IsFiniteSet({})
  BY FS_EmptySet
<1>2. PICK g \in [SUBSET {} -> Nat] : g = Unfolded(f, {}, g)
  BY <1>1, Solvable
<1>3. Total(f, {}) = g[{}]
  BY <1>1, <1>2, TotalSolves
<1>. QED BY <1>2, <1>3 DEF Unfolded

(* The sum depends on the values over the set and on nothing else.  *)
THEOREM TotalSame ==
    ASSUME NEW S, IsFiniteSet(S), NEW f, NEW e,
           \A x \in S : f[x] \in Nat /\ f[x] = e[x]
    PROVE  Total(f, S) = Total(e, S)
<1>1. PICK g : g = Unfolded(f, S, g)
  BY Solvable
<1>2. PICK h : h = Unfolded(e, S, h)
  BY Solvable
<1>3. Total(f, S) = g[S] /\ Total(e, S) = h[S]
  BY <1>1, <1>2, TotalSolves
<1>. QED BY <1>1, <1>2, <1>3, SameSolution

(* An element taken out takes its value with it, ...  *)
THEOREM TotalRemove ==
    ASSUME NEW S, IsFiniteSet(S), NEW f, \A y \in S : f[y] \in Nat, NEW x \in S
    PROVE  Total(f, S) = f[x] + Total(f, S \ {x})
<1>1. PICK g \in [SUBSET S -> Nat] : g = Unfolded(f, S, g)
  BY Solvable
<1>2. Total(f, S) = g[S] /\ g[S] = f[x] + g[S \ {x}]
  <2>1. Total(f, S) = g[S]
    BY <1>1, TotalSolves
  <2>2. g[S] = f[x] + g[S \ {x}]
    BY <1>1, AnyOrder
  <2>. QED BY <2>1, <2>2
<1>3. Total(f, S \ {x}) = g[S \ {x}]
  <2>1. IsFiniteSet(S \ {x}) /\ S \ {x} \subseteq S
    BY FS_RemoveElement
  <2>2. PICK h : h = Unfolded(f, S \ {x}, h)
    BY <2>1, Solvable
  <2>3. Total(f, S \ {x}) = h[S \ {x}]
    BY <2>1, <2>2, TotalSolves
  <2>4. h[S \ {x}] = g[S \ {x}]
    BY <1>1, <2>1, <2>2, SameSolution
  <2>. QED BY <2>3, <2>4
<1>. QED BY <1>2, <1>3

(* ... and one put in adds it.  *)
LEMMA TotalAdd ==
    ASSUME NEW S, IsFiniteSet(S), NEW f, NEW x, x \notin S,
           \A y \in S \cup {x} : f[y] \in Nat
    PROVE  Total(f, S \cup {x}) = f[x] + Total(f, S)
<1>1. IsFiniteSet(S \cup {x}) /\ (S \cup {x}) \ {x} = S
  BY FS_AddElement
<1>2. Total(f, S \cup {x}) = f[x] + Total(f, (S \cup {x}) \ {x})
  BY <1>1, TotalRemove
<1>. QED BY <1>1, <1>2

(* A part adds up to no more than the whole.  *)
THEOREM TotalSubset ==
    ASSUME NEW T, IsFiniteSet(T), NEW S, S \subseteq T, NEW f, \A x \in T : f[x] \in Nat
    PROVE  Total(f, S) <= Total(f, T)
<1>. DEFINE W == {s \in SUBSET T : Total(f, S \cap s) <= Total(f, s)}
<1>0. \A s \in SUBSET T : /\ IsFiniteSet(s) /\ IsFiniteSet(S \cap s)
                          /\ Total(f, s) \in Nat /\ Total(f, S \cap s) \in Nat
  <2>1. \A s \in SUBSET T : IsFiniteSet(s) /\ \A x \in s : f[x] \in Nat
    BY FS_Subset
  <2>2. \A s \in SUBSET T : S \cap s \in SUBSET T
    OBVIOUS
  <2>. QED BY <2>1, <2>2, TotalType
<1>1. {} \in W
  <2>1. S \cap {} = {} /\ 0 <= 0
    OBVIOUS
  <2>. QED BY <2>1, TotalEmpty
<1>2. ASSUME NEW s \in SUBSET T, NEW x \in T \ s, s \in W PROVE s \cup {x} \in W
  <2>1. Total(f, s \cup {x}) = f[x] + Total(f, s)
    BY <1>0, TotalAdd
  <2>2. CASE x \in S
    <3>1. S \cap (s \cup {x}) = (S \cap s) \cup {x} /\ x \notin S \cap s
      BY <2>2
    <3>2. Total(f, (S \cap s) \cup {x}) = f[x] + Total(f, S \cap s)
      BY <1>0, <3>1, TotalAdd
    <3>3. f[x] \in Nat /\ Total(f, s) \in Nat /\ Total(f, S \cap s) \in Nat
      BY <1>0
    <3>4. f[x] + Total(f, S \cap s) <= f[x] + Total(f, s)
      BY <1>2, <3>3
    <3>. QED BY <2>1, <3>1, <3>2, <3>4
  <2>3. CASE x \notin S
    <3>1. S \cap (s \cup {x}) = S \cap s
      BY <2>3
    <3>. QED BY <1>0, <1>2, <2>1, <3>1
  <2>. QED BY <2>2, <2>3
<1>3. T \in W
  <2>. HIDE DEF W
  <2>. QED BY <1>1, <1>2, FiniteInduction
<1>4. S \cap T = S
  OBVIOUS
<1>. QED BY <1>3, <1>4

-----------------------------------------------------------------------------
(* The transition relation spelled out, state by state.  *)
LEMMA Transitions ==
    /\ CanTransitionTo["Absent"] = {}
    /\ CanTransitionTo["Queued"] = {"Running", "Hold", "Over"}
    /\ CanTransitionTo["Hold"] = {"Queued", "Over"}
    /\ CanTransitionTo["Running"] = {"Over"}
    /\ CanTransitionTo["Over"] = {}
BY DEF CanTransitionTo, States

(* A transition keeps the job table and the indexes well typed.  *)
LEMMA TransitionType ==
    ASSUME TypeOK, NEW j \in Jobs, NEW next, Transition(j, next)
    PROVE  /\ state' = [state EXCEPT ![j] = next]
           /\ state' \in [Jobs -> States]
           /\ \/ state[j] = "Queued" /\ next \in {"Running", "Hold", "Over"}
              \/ state[j] = "Hold" /\ next \in {"Queued", "Over"}
              \/ state[j] = "Running" /\ next = "Over"
           /\ group_running_count' \in [Groups -> Nat]
           /\ quota_usage' \in [Subjects -> [jobs : Nat, gpus : Nat]]
<1>1. \/ state[j] = "Queued" /\ next \in {"Running", "Hold", "Over"}
      \/ state[j] = "Hold" /\ next \in {"Queued", "Over"}
      \/ state[j] = "Running" /\ next = "Over"
  BY Transitions DEF Transition, TypeOK, States
<1>2. state' = [state EXCEPT ![j] = next] /\ state' \in [Jobs -> States]
  BY <1>1 DEF Transition, TypeOK, States
<1>3. GroupCountEntering(j) \in [Groups -> Nat] /\ GroupCountLeaving(j) \in [Groups -> Nat]
  BY JobAttributesAssumption DEF TypeOK, GroupCountEntering, GroupCountLeaving, Sub
<1>4. request[j].gpus \in Nat
  BY RequestAssumption DEF TypeOK, Request
<1>5. RecordRunning(j) \in [Subjects -> [jobs : Nat, gpus : Nat]]
  BY <1>4 DEF TypeOK, RecordRunning
<1>6. ReleaseRunning(j) \in [Subjects -> [jobs : Nat, gpus : Nat]]
  BY <1>4 DEF TypeOK, ReleaseRunning, Sub
<1>. QED
  BY <1>1, <1>2, <1>3, <1>5, <1>6 DEF Transition, TypeOK

-----------------------------------------------------------------------------
(* The types hold at the start.  *)
LEMMA InitType == Init => TypeOK
<1>. SUFFICES ASSUME Init PROVE TypeOK
  OBVIOUS
<1>1. (CHOOSE r \in Requests : TRUE) \in Requests /\ (CHOOSE m \in Limits : TRUE) \in Limits
  BY RequestAssumption
<1>2. \A s \in Subjects : (CHOOSE q \in Quotas[s] : TRUE) \in QuotaLimits
  BY RequestAssumption
<1>3. state \in [Jobs -> States]
  BY DEF Init, States
<1>4. quota \in [Subjects -> QuotaLimits]
  BY <1>2 DEF Init
<1>5. key \in [Jobs -> Key] /\ top \in [Jobs -> Key]
  BY JobAttributesAssumption DEF Init, Key, NoEntry
<1>. QED
  BY <1>1, <1>3, <1>4, <1>5 DEF Init, TypeOK

(* Fair-share factors are naturals.  *)
LEMMA FactorsType == Factors \subseteq [Users -> Nat]
<1>2. \A n : 0 .. n - 1 \subseteq Nat
  OBVIOUS
<1>. QED
  BY <1>2 DEF Factors

(* The order of the keys: a total preorder, of which the absent entry is a least element.  *)
LEMMA KeyOrder ==
    ASSUME NEW a \in Key, NEW b \in Key, NEW c \in Key
    PROVE  /\ NoEntry \in Key /\ ~Above(NoEntry, a)
           /\ Higher(a, b) \in Key
           /\ ~Above(a, b) => ~Above(Higher(a, b), b)
           /\ ~Above(a, b) /\ ~Above(b, c) => ~Above(a, c)
<1>1. /\ a.priority \in Nat /\ b.priority \in Nat /\ c.priority \in Nat
      /\ a.bonus \in Nat /\ b.bonus \in Nat /\ c.bonus \in Nat
  BY DEF Key
<1>2. NoEntry \in Key /\ NoEntry.priority = 0 /\ NoEntry.bonus = 0
  BY DEF NoEntry, Key
<1>3. ~Above(NoEntry, a)
  BY <1>1, <1>2 DEF Above
<1>4. Higher(a, b) \in Key /\ (~Above(a, b) => Higher(a, b) = b)
  BY DEF Higher
<1>5. ~Above(b, b)
  BY <1>1 DEF Above
<1>6. ~Above(a, b) /\ ~Above(b, c) => ~Above(a, c)
  BY <1>1 DEF Above
<1>. QED BY <1>2, <1>3, <1>4, <1>5, <1>6

(* What a step may do to the ready heap and the keys it is ordered by.  *)
HeapStep ==
    \/ UNCHANGED heapVars
    \/ \E j \in Jobs : /\ Push(j, key[j]) \/ (ready' = ready \ {j} /\ top' = top)
                       /\ UNCHANGED <<key, lowered>>
    \/ \E j \in Jobs : LeaveHeap(j) /\ key' = key
    \/ \E j \in Jobs, k \in Key : Rekey(j, k)
    \/ ready' = {} /\ top' = [j \in Jobs |-> NoEntry] /\ UNCHANGED <<key, lowered>>

LEMMA HeapSteps == ASSUME TypeOK, [Next]_vars PROVE HeapStep
<1>. USE DEF jobVars, heapVars, HeapStep
<1>1. ASSUME NEW j \in Jobs, Submit(j) \/ Hold(j) \/ Release(j) \/ Requeue(j) PROVE HeapStep
  BY <1>1 DEF Submit, Hold, Release, Requeue
<1>2. ASSUME NEW j \in Jobs, UpdateJob(j) PROVE HeapStep
  <2>1. Keys \cup {key[j]} \subseteq Key
    BY JobAttributesAssumption DEF TypeOK
  <2>. QED BY <1>2, <2>1 DEF UpdateJob
<1>3. ASSUME NEW j \in Jobs, Complete(j) \/ ExecutionFails(j) PROVE HeapStep
  BY <1>3 DEF Complete, ExecutionFails
<1>4. ASSUME NEW j \in Jobs, Execute(j) \/ StartJob(j) PROVE HeapStep
  BY <1>4 DEF Execute, StartJob
<1>5. ASSUME NEW G \in Groups, SetGroupMaxConcurrency(G) PROVE HeapStep
  BY <1>5 DEF SetGroupMaxConcurrency
<1>6. ASSUME NEW s \in Subjects, SetQuota(s) PROVE HeapStep
  BY <1>6 DEF SetQuota
<1>7. CASE SetAllowedGpus \/ RefreshGpuSlots \/ StartPass \/ EndPass
  BY <1>7 DEF SetAllowedGpus, RefreshGpuSlots, StartPass, EndPass
<1>8. CASE UNCHANGED vars
  BY <1>8 DEF vars
<1>. QED BY <1>1, <1>2, <1>3, <1>4, <1>5, <1>6, <1>7, <1>8 DEF Next

(* Keys and entries keep their types.  *)
HeapType == /\ key \in [Jobs -> Key] /\ top \in [Jobs -> Key]
            /\ ready \subseteq Jobs /\ lowered \subseteq Jobs

LEMMA HeapTypeStep == ASSUME TypeOK, [Next]_vars PROVE HeapType'
<1>. USE DEF heapVars, HeapType
<1>0. HeapType
  BY DEF TypeOK
<1>1. CASE UNCHANGED heapVars
  BY <1>0, <1>1
<1>2. ASSUME NEW j \in Jobs, Push(j, key[j]) \/ (ready' = ready \ {j} /\ top' = top),
             UNCHANGED <<key, lowered>>
      PROVE  HeapType'
  <2>1. Higher(top[j], key[j]) \in Key
    BY <1>0, KeyOrder
  <2>. QED BY <1>0, <1>2, <2>1 DEF Push
<1>3. ASSUME NEW j \in Jobs, LeaveHeap(j), key' = key PROVE HeapType'
  BY <1>0, <1>3, KeyOrder DEF LeaveHeap
<1>4. ASSUME NEW j \in Jobs, NEW k \in Key, Rekey(j, k) PROVE HeapType'
  <2>1. Higher(top[j], k) \in Key
    BY <1>0, KeyOrder
  <2>. QED BY <1>0, <1>4, <2>1 DEF Rekey, Push
<1>5. CASE ready' = {} /\ top' = [j \in Jobs |-> NoEntry] /\ UNCHANGED <<key, lowered>>
  <2>1. \A j \in Jobs : NoEntry \in Key
    BY <1>0, KeyOrder
  <2>. QED BY <1>0, <1>5, <2>1
<1>. QED BY <1>1, <1>2, <1>3, <1>4, <1>5, HeapSteps DEF HeapStep

(* Only a job whose key an update has lowered has an entry above its key.  *)
HeapSound == \A j \in Jobs : Hidden(j) => j \in lowered

LEMMA HeapSoundStep == ASSUME TypeOK, HeapSound, [Next]_vars PROVE HeapSound'
<1>. USE DEF heapVars, Hidden, HeapSound
<1>0. key \in [Jobs -> Key] /\ top \in [Jobs -> Key]
  BY DEF TypeOK
<1>1. CASE UNCHANGED heapVars
  BY <1>1
<1>2. ASSUME NEW j \in Jobs, Push(j, key[j]) \/ (ready' = ready \ {j} /\ top' = top),
             UNCHANGED <<key, lowered>>
      PROVE  HeapSound'
  <2>1. top[j] \in Key /\ key[j] \in Key
    BY <1>0
  <2>2. ~Above(top[j], key[j]) => ~Above(Higher(top[j], key[j]), key[j])
    BY <2>1, KeyOrder
  <2>. QED BY <1>0, <1>2, <2>2 DEF Push
<1>3. ASSUME NEW j \in Jobs, LeaveHeap(j), key' = key PROVE HeapSound'
  <2>1. ~Above(NoEntry, key[j])
    BY <1>0, KeyOrder
  <2>. QED BY <1>0, <1>3, <2>1 DEF LeaveHeap
<1>4. ASSUME NEW j \in Jobs, NEW k \in Key, Rekey(j, k) PROVE HeapSound'
  <2>1. top[j] \in Key /\ key[j] \in Key
    BY <1>0
  <2>2. ~Above(top[j], key[j]) /\ ~Above(key[j], k) => ~Above(top[j], k)
    BY <2>1, KeyOrder
  <2>3. ~Above(top[j], k) => ~Above(Higher(top[j], k), k)
    BY <2>1, KeyOrder
  <2>4. /\ key' = [key EXCEPT ![j] = k]
        /\ lowered' = IF Above(key[j], k) THEN lowered \cup {j} ELSE lowered
        /\ top' = [top EXCEPT ![j] = Higher(@, k)] \/ top' = top
    BY <1>4 DEF Rekey, Push
  <2>. QED BY <1>0, <2>2, <2>3, <2>4
<1>5. CASE ready' = {} /\ top' = [j \in Jobs |-> NoEntry] /\ UNCHANGED <<key, lowered>>
  <2>1. \A j \in Jobs : ~Above(NoEntry, key[j])
    BY <1>0, KeyOrder
  <2>. QED BY <1>5, <2>1
<1>. QED BY <1>1, <1>2, <1>3, <1>4, <1>5, HeapSteps DEF HeapStep

(* Every action of the allocator keeps the type invariant.  *)
LEMMA NextType == TypeOK /\ [Next]_vars => TypeOK'
<1>. SUFFICES ASSUME TypeOK, [Next]_vars PROVE TypeOK'
  OBVIOUS
<1>. USE DEF HeapType, jobVars, indexVars, machineVars, passVars
<1>0. HeapType'
  BY HeapTypeStep
<1>1. ASSUME NEW j \in Jobs, Submit(j) PROVE TypeOK'
  BY <1>0, <1>1 DEF Submit, TypeOK, States
<1>2. ASSUME NEW j \in Jobs, Hold(j) PROVE TypeOK'
  BY <1>0, <1>2, TransitionType DEF Hold, TypeOK
<1>3. ASSUME NEW j \in Jobs, Release(j) PROVE TypeOK'
  BY <1>0, <1>3, TransitionType DEF Release, TypeOK
<1>4. ASSUME NEW j \in Jobs, UpdateJob(j) PROVE TypeOK'
  BY <1>0, <1>4 DEF UpdateJob, TypeOK
<1>5. ASSUME NEW j \in Jobs, Complete(j) PROVE TypeOK'
  BY <1>0, <1>5, TransitionType DEF Complete, TypeOK
<1>6. ASSUME NEW j \in Jobs, Execute(j) PROVE TypeOK'
  BY <1>0, <1>6 DEF Execute, TypeOK
<1>7. ASSUME NEW j \in Jobs, ExecutionFails(j) PROVE TypeOK'
  <2>1. CASE state[j] = "Running"
    BY <1>0, <1>7, <2>1, TransitionType DEF ExecutionFails, TypeOK
  <2>2. CASE state[j] # "Running"
    BY <1>0, <1>7, <2>2 DEF ExecutionFails, TypeOK
  <2>. QED BY <2>1, <2>2
<1>8. ASSUME NEW j \in Jobs, StartJob(j) PROVE TypeOK'
  <2>1. PICK S \in Allocations(request[j]) :
           /\ gpu_ids' = [gpu_ids EXCEPT ![j] = S]
           /\ IF request[j].mode = "Shared"
              THEN shared' = shared \cup S /\ UNCHANGED excl
              ELSE excl' = excl \cup S /\ UNCHANGED shared
    BY <1>8 DEF StartJob
  <2>2. S \subseteq Gpus
    BY <2>1 DEF Allocations, CompatibleGpus, TypeOK
  <2>3. Transition(j, "Running")
    BY <1>8 DEF StartJob
  <2>. QED
    BY <1>0, <1>8, <2>1, <2>2, <2>3, TransitionType DEF StartJob, TypeOK
<1>9. ASSUME NEW j \in Jobs, Requeue(j) PROVE TypeOK'
  BY <1>0, <1>9 DEF Requeue, TypeOK
<1>10. ASSUME NEW G \in Groups, SetGroupMaxConcurrency(G) PROVE TypeOK'
  BY <1>0, <1>10 DEF SetGroupMaxConcurrency, TypeOK
<1>11. ASSUME NEW s \in Subjects, SetQuota(s) PROVE TypeOK'
  BY <1>0, <1>11, RequestAssumption DEF SetQuota, TypeOK
<1>12. CASE SetAllowedGpus
  BY <1>0, <1>12, MachineAssumption DEF SetAllowedGpus, TypeOK
<1>13. CASE RefreshGpuSlots
  BY <1>0, <1>13 DEF RefreshGpuSlots, RefreshedSlots, TypeOK
<1>14. CASE StartPass
  BY <1>0, <1>14, FactorsType DEF StartPass, TypeOK
<1>15. CASE EndPass
  BY <1>0, <1>15 DEF EndPass, RefreshedSlots, TypeOK
<1>16. CASE UNCHANGED vars
  BY <1>0, <1>16 DEF vars, TypeOK
<1>. QED
  BY <1>1, <1>2, <1>3, <1>4, <1>5, <1>6, <1>7, <1>8, <1>9, <1>10, <1>11, <1>12,
     <1>13, <1>14, <1>15, <1>16 DEF Next

(* The state of every job, its request, the GPUs it holds, the indexes and the
   pass's snapshots always have their types; in particular no index ever goes
   below zero.  *)
THEOREM TypeCorrect == Spec => []TypeOK
<1>. QED
  BY InitType, NextType, PTL DEF Spec

-----------------------------------------------------------------------------
(* What one step of the allocator does to the running jobs: a step that starts
   no job leaves those that keep running as they are, ...  *)
KeepsRunning ==
    \A k \in Running' : /\ k \in Running
                        /\ gpu_ids'[k] = gpu_ids[k]
                        /\ request'[k] = request[k]

(* A job that holds GPUs keeps them until it ends.  *)
LEMMA StepsKeepRunning ==
    ASSUME TypeOK, [Next]_vars, ~\E j \in Jobs : StartJob(j)
    PROVE  KeepsRunning
<1>. USE DEF jobVars, heapVars, indexVars, machineVars, passVars, KeepsRunning, Running
<1>1. ASSUME NEW j \in Jobs, Submit(j) PROVE KeepsRunning
  BY <1>1 DEF Submit, TypeOK
<1>2. ASSUME NEW j \in Jobs, Hold(j) PROVE KeepsRunning
  BY <1>2, TransitionType DEF Hold, TypeOK
<1>3. ASSUME NEW j \in Jobs, Release(j) PROVE KeepsRunning
  BY <1>3, TransitionType DEF Release, TypeOK
<1>4. ASSUME NEW j \in Jobs, UpdateJob(j) PROVE KeepsRunning
  BY <1>4 DEF UpdateJob, TypeOK
<1>5. ASSUME NEW j \in Jobs, Complete(j) PROVE KeepsRunning
  BY <1>5, TransitionType DEF Complete, TypeOK
<1>6. ASSUME NEW j \in Jobs, Execute(j) PROVE KeepsRunning
  BY <1>6 DEF Execute
<1>7. ASSUME NEW j \in Jobs, ExecutionFails(j) PROVE KeepsRunning
  <2>1. CASE state[j] = "Running"
    BY <1>7, <2>1, TransitionType DEF ExecutionFails, TypeOK
  <2>2. CASE state[j] # "Running"
    BY <1>7, <2>2 DEF ExecutionFails, TypeOK
  <2>. QED BY <2>1, <2>2
<1>8. ASSUME NEW j \in Jobs, Requeue(j) PROVE KeepsRunning
  BY <1>8 DEF Requeue
<1>9. ASSUME NEW G \in Groups, SetGroupMaxConcurrency(G) PROVE KeepsRunning
  BY <1>9 DEF SetGroupMaxConcurrency
<1>10. ASSUME NEW s \in Subjects, SetQuota(s) PROVE KeepsRunning
  BY <1>10 DEF SetQuota
<1>11. CASE SetAllowedGpus
  BY <1>11 DEF SetAllowedGpus
<1>12. CASE RefreshGpuSlots
  BY <1>12 DEF RefreshGpuSlots
<1>13. CASE StartPass
  BY <1>13 DEF StartPass
<1>14. CASE EndPass
  BY <1>14 DEF EndPass
<1>15. CASE UNCHANGED vars
  BY <1>15 DEF vars
<1>. QED
  BY <1>1, <1>2, <1>3, <1>4, <1>5, <1>6, <1>7, <1>8, <1>9, <1>10, <1>11, <1>12,
     <1>13, <1>14, <1>15 DEF Next

(* ... and one that starts j adds j, alone, as a holder of GPUs compatible with
   the snapshot it decided from.  *)
LEMMA StartAddsHolder ==
    ASSUME TypeOK, PassListSound, NEW j \in Jobs, StartJob(j)
    PROVE  \E S \in SUBSET CompatibleGpus(request[j]) :
              /\ gpu_ids' = [gpu_ids EXCEPT ![j] = S]
              /\ IF request[j].mode = "Shared"
                 THEN shared' = shared \cup S /\ excl' = excl
                 ELSE excl' = excl \cup S /\ shared' = shared
              /\ state[j] = "Queued"
              /\ state' = [state EXCEPT ![j] = "Running"]
              /\ request' = request
              /\ j \notin Running
              /\ Running' = Running \cup {j}
              /\ \A g \in Gpus : \A m :
                    HoldersOf(g, m)' =
                        IF m = request[j].mode /\ g \in S
                        THEN HoldersOf(g, m) \cup {j} ELSE HoldersOf(g, m)
<1>1. PICK S \in Allocations(request[j]) :
         /\ gpu_ids' = [gpu_ids EXCEPT ![j] = S]
         /\ IF request[j].mode = "Shared"
            THEN shared' = shared \cup S /\ excl' = excl
            ELSE excl' = excl \cup S /\ shared' = shared
  BY DEF StartJob
<1>2. S \in SUBSET CompatibleGpus(request[j])
  BY DEF Allocations
<1>3. state[j] = "Queued" /\ request' = request
  BY DEF StartJob, First, PassListSound
<1>4. state' = [state EXCEPT ![j] = "Running"]
  BY DEF StartJob, Transition
<1>5. j \notin Running /\ Running' = Running \cup {j}
  BY <1>3, <1>4 DEF Running, TypeOK
<1>6. ASSUME NEW g \in Gpus, NEW m
      PROVE  HoldersOf(g, m)' = IF m = request[j].mode /\ g \in S
                                THEN HoldersOf(g, m) \cup {j} ELSE HoldersOf(g, m)
  BY <1>1, <1>3, <1>5 DEF HoldersOf, TypeOK, Running
<1>. QED
  BY <1>1, <1>2, <1>3, <1>4, <1>5, <1>6

-----------------------------------------------------------------------------
(* The pass's list: its jobs stay Queued, since no other handler runs.  *)
LEMMA ListStep == TypeOK /\ PassListSound /\ [Next]_vars => PassListSound'
<1>. SUFFICES ASSUME TypeOK, PassListSound, [Next]_vars PROVE PassListSound'
  OBVIOUS
<1>. USE DEF jobVars, heapVars, indexVars, machineVars, passVars, Push
<1>1. CASE ~passing /\ ~passing'
  <2>1. UNCHANGED <<todo, started>>
    BY <1>1 DEF Next, vars, Submit, Hold, Release, UpdateJob, Complete, Execute,
                ExecutionFails, StartJob, Requeue, SetGroupMaxConcurrency, SetQuota,
                SetAllowedGpus, RefreshGpuSlots, StartPass, EndPass
  <2>. QED BY <1>1, <2>1 DEF PassListSound
<1>2. ASSUME NEW j \in Jobs, StartJob(j) PROVE PassListSound'
  <2>1. /\ state' = [state EXCEPT ![j] = "Running"]
        /\ todo' = todo \ {j} /\ ready' = ready /\ passing'
    BY <1>2 DEF StartJob, Transition
  <2>. QED BY <2>1 DEF PassListSound, TypeOK
<1>3. ASSUME NEW j \in Jobs, Requeue(j) PROVE PassListSound'
  BY <1>3 DEF Requeue, PassListSound
<1>4. CASE StartPass
  BY <1>4 DEF StartPass, PassListSound
<1>5. CASE EndPass
  BY <1>5 DEF EndPass, PassListSound
<1>6. CASE UNCHANGED vars
  BY <1>6 DEF vars, PassListSound
<1>7. CASE /\ passing \/ passing'
           /\ Next
  BY <1>2, <1>3, <1>4, <1>5, <1>7
     DEF Next, Submit, Hold, Release, UpdateJob, Complete, Execute, ExecutionFails,
         SetGroupMaxConcurrency, SetQuota, SetAllowedGpus, RefreshGpuSlots
<1>. QED
  BY <1>1, <1>6, <1>7 DEF TypeOK

(* No exit of the pass and no handler drops a queued job.  *)
LEMMA ForgottenStep ==
    TypeOK /\ PassListSound /\ HeapSound /\ NoJobForgotten /\ [Next]_vars => NoJobForgotten'
<1>. SUFFICES ASSUME TypeOK, PassListSound, HeapSound, NoJobForgotten, [Next]_vars
              PROVE  NoJobForgotten'
  OBVIOUS
<1>. USE DEF jobVars, heapVars, indexVars, machineVars, passVars, NoJobForgotten, Listed, Push,
            LeaveHeap
<1>1. ASSUME NEW j \in Jobs, Submit(j) PROVE NoJobForgotten'
  BY <1>1 DEF Submit, TypeOK
<1>2. ASSUME NEW j \in Jobs, Hold(j) PROVE NoJobForgotten'
  BY <1>2, TransitionType DEF Hold, TypeOK
<1>3. ASSUME NEW j \in Jobs, Release(j) PROVE NoJobForgotten'
  BY <1>3, TransitionType DEF Release, TypeOK
<1>4. ASSUME NEW j \in Jobs, UpdateJob(j) PROVE NoJobForgotten'
  BY <1>4 DEF UpdateJob, Rekey
<1>5. ASSUME NEW j \in Jobs, Complete(j) PROVE NoJobForgotten'
  BY <1>5, TransitionType DEF Complete, TypeOK
<1>6. ASSUME NEW j \in Jobs, Execute(j) PROVE NoJobForgotten'
  BY <1>6 DEF Execute
<1>7. ASSUME NEW j \in Jobs, ExecutionFails(j) PROVE NoJobForgotten'
  <2>1. CASE state[j] = "Running"
    <3>1. Transition(j, "Over") /\ LeaveHeap(j) /\ todo' = todo
      BY <1>7, <2>1 DEF ExecutionFails
    <3>2. state' = [state EXCEPT ![j] = "Over"]
      BY <3>1 DEF Transition
    <3>. QED BY <3>1, <3>2 DEF TypeOK
  <2>2. CASE state[j] # "Running"
    BY <1>7, <2>2 DEF ExecutionFails, TypeOK
  <2>. QED BY <2>1, <2>2
<1>8. ASSUME NEW j \in Jobs, StartJob(j) PROVE NoJobForgotten'
  <2>1. /\ state' = [state EXCEPT ![j] = "Running"]
        /\ todo' = todo \ {j} /\ ready' = ready /\ lowered' = lowered
    BY <1>8 DEF StartJob, Transition
  <2>. QED BY <2>1 DEF TypeOK
<1>9. ASSUME NEW j \in Jobs, Requeue(j) PROVE NoJobForgotten'
  BY <1>9 DEF Requeue
<1>10. ASSUME NEW G \in Groups, SetGroupMaxConcurrency(G) PROVE NoJobForgotten'
  BY <1>10 DEF SetGroupMaxConcurrency
<1>11. ASSUME NEW s \in Subjects, SetQuota(s) PROVE NoJobForgotten'
  BY <1>11 DEF SetQuota
<1>12. CASE SetAllowedGpus
  BY <1>12 DEF SetAllowedGpus
<1>13. CASE RefreshGpuSlots
  BY <1>13 DEF RefreshGpuSlots
<1>14. CASE StartPass
  BY <1>14 DEF StartPass, PassListSound, HeapSound
<1>15. CASE EndPass
  BY <1>15 DEF EndPass
<1>16. CASE UNCHANGED vars
  BY <1>16 DEF vars
<1>. QED
  BY <1>1, <1>2, <1>3, <1>4, <1>5, <1>6, <1>7, <1>8, <1>9, <1>10, <1>11, <1>12,
     <1>13, <1>14, <1>15, <1>16 DEF Next

-----------------------------------------------------------------------------
(* The occupancy the pass keeps equals a recount, job after job.  *)
LEMMA OccupancyStep ==
    TypeOK /\ PassListSound /\ OccupancyExact /\ [Next]_vars => OccupancyExact'
<1>. SUFFICES ASSUME TypeOK, PassListSound, OccupancyExact, [Next]_vars
              PROVE  OccupancyExact'
  OBVIOUS
<1>. USE DEF jobVars, heapVars, indexVars, machineVars, passVars
<1>1. ASSUME NEW j \in Jobs, StartJob(j) PROVE OccupancyExact'
  <2>1. PICK S \in SUBSET CompatibleGpus(request[j]) :
           /\ IF request[j].mode = "Shared"
              THEN shared' = shared \cup S /\ excl' = excl
              ELSE excl' = excl \cup S /\ shared' = shared
           /\ \A g \in Gpus : \A m :
                 HoldersOf(g, m)' =
                     IF m = request[j].mode /\ g \in S
                     THEN HoldersOf(g, m) \cup {j} ELSE HoldersOf(g, m)
    BY <1>1, StartAddsHolder
  <2>2. request[j].mode \in {"Exclusive", "Shared"} /\ S \subseteq Gpus
    BY <2>1, RequestAssumption DEF TypeOK, Request, CompatibleGpus
  <2>3. passing /\ excl = {g \in Gpus : HoldersOf(g, "Exclusive") # {}}
                /\ shared = {g \in Gpus : HoldersOf(g, "Shared") # {}}
    BY <1>1 DEF StartJob, OccupancyExact
  <2>4. CASE request[j].mode = "Shared"
    <3>1. \A g \in Gpus : /\ HoldersOf(g, "Exclusive")' = HoldersOf(g, "Exclusive")
                          /\ HoldersOf(g, "Shared")' # {}
                                <=> HoldersOf(g, "Shared") # {} \/ g \in S
      BY <2>1, <2>4
    <3>. QED BY <2>1, <2>2, <2>3, <2>4, <3>1 DEF OccupancyExact
  <2>5. CASE request[j].mode = "Exclusive"
    <3>1. \A g \in Gpus : /\ HoldersOf(g, "Shared")' = HoldersOf(g, "Shared")
                          /\ HoldersOf(g, "Exclusive")' # {}
                                <=> HoldersOf(g, "Exclusive") # {} \/ g \in S
      BY <2>1, <2>5
    <3>. QED BY <2>1, <2>2, <2>3, <2>5, <3>1 DEF OccupancyExact
  <2>. QED BY <2>2, <2>4, <2>5
<1>2. ASSUME NEW j \in Jobs, Requeue(j) PROVE OccupancyExact'
  BY <1>2 DEF Requeue, OccupancyExact, HoldersOf, Running
<1>3. CASE StartPass
  BY <1>3 DEF StartPass, OccupancyExact, HoldersOf, Running
<1>4. CASE UNCHANGED vars
  BY <1>4 DEF vars, OccupancyExact, HoldersOf, Running
<1>5. CASE ~passing'
  BY <1>5 DEF OccupancyExact
<1>6. CASE passing' /\ Next
  BY <1>1, <1>2, <1>3, <1>6
     DEF Next, Submit, Hold, Release, UpdateJob, Complete, Execute, ExecutionFails,
         SetGroupMaxConcurrency, SetQuota, SetAllowedGpus, RefreshGpuSlots, EndPass
<1>. QED
  BY <1>4, <1>5, <1>6

(* A new holder is compatible with every job that runs.  *)
LEMMA NewHolderCompatible ==
    ASSUME TypeOK, PassListSound, OccupancyExact, NEW j \in Jobs, StartJob(j),
           NEW g \in CompatibleGpus(request[j]), NEW k \in Running, g \in gpu_ids[k]
    PROVE  request[j].mode = "Shared" /\ request[k].mode = "Shared"
<1>1. request[k].mode \in {"Exclusive", "Shared"}
  BY RequestAssumption DEF TypeOK, Request, Running
<1>2. k \in HoldersOf(g, request[k].mode)
  BY DEF HoldersOf
<1>3. /\ g \in Gpus /\ g \notin excl
      /\ request[j].mode # "Shared" => g \notin shared
  BY DEF CompatibleGpus, TypeOK
<1>4. /\ excl = {h \in Gpus : HoldersOf(h, "Exclusive") # {}}
      /\ shared = {h \in Gpus : HoldersOf(h, "Shared") # {}}
  BY DEF StartJob, OccupancyExact
<1>. QED
  BY <1>1, <1>2, <1>3, <1>4

(* Every step keeps GPUs apart.  *)
LEMMA IsolationStep ==
    /\ TypeOK /\ PassListSound /\ OccupancyExact /\ ExclusiveIsolation
    /\ [Next]_vars
    => ExclusiveIsolation'
<1>. SUFFICES ASSUME TypeOK, PassListSound, OccupancyExact, ExclusiveIsolation,
                     [Next]_vars
              PROVE  ExclusiveIsolation'
  OBVIOUS
<1>1. ASSUME NEW j \in Jobs, StartJob(j) PROVE ExclusiveIsolation'
  <2>1. PICK S \in SUBSET CompatibleGpus(request[j]) :
           /\ gpu_ids' = [gpu_ids EXCEPT ![j] = S]
           /\ request' = request
           /\ j \notin Running
           /\ Running' = Running \cup {j}
    BY <1>1, StartAddsHolder
  <2>2. SUFFICES ASSUME NEW k \in Running', NEW l \in Running', k # l,
                        gpu_ids'[k] \cap gpu_ids'[l] # {}
                 PROVE  request[k].mode = "Shared" /\ request[l].mode = "Shared"
    BY <2>1 DEF ExclusiveIsolation
  <2>3. gpu_ids'[j] = S /\ \A i \in Running : gpu_ids'[i] = gpu_ids[i]
    BY <2>1 DEF TypeOK, Running
  <2>4. PICK g : g \in gpu_ids'[k] /\ g \in gpu_ids'[l]
    BY <2>2
  <2>5. CASE k = j
    <3>1. l \in Running /\ g \in gpu_ids[l] /\ g \in CompatibleGpus(request[j])
      BY <2>1, <2>2, <2>3, <2>4, <2>5
    <3>. QED BY <1>1, <2>5, <3>1, NewHolderCompatible
  <2>6. CASE l = j
    <3>1. k \in Running /\ g \in gpu_ids[k] /\ g \in CompatibleGpus(request[j])
      BY <2>1, <2>2, <2>3, <2>4, <2>6
    <3>. QED BY <1>1, <2>6, <3>1, NewHolderCompatible
  <2>7. CASE k # j /\ l # j
    BY <2>1, <2>2, <2>3, <2>7 DEF ExclusiveIsolation
  <2>. QED BY <2>5, <2>6, <2>7
<1>2. CASE ~\E j \in Jobs : StartJob(j)
  <2>1. KeepsRunning
    BY <1>2, StepsKeepRunning
  <2>. QED BY <2>1 DEF KeepsRunning, ExclusiveIsolation
<1>. QED
  BY <1>1, <1>2

-----------------------------------------------------------------------------
(* The group index.  *)
LEMMA GroupIndexStep ==
    TypeOK /\ PassListSound /\ GroupIndexExact /\ [Next]_vars => GroupIndexExact'
<1>. SUFFICES ASSUME TypeOK, PassListSound, GroupIndexExact, [Next]_vars,
                     NEW G \in Groups
              PROVE  group_running_count'[G] = Cardinality(RunningIn(G)')
  BY DEF GroupIndexExact
<1>. USE DEF jobVars, heapVars, indexVars, machineVars, passVars
<1>1. IsFiniteSet(RunningIn(G)) /\ group_running_count[G] = Cardinality(RunningIn(G))
  <2>1. RunningIn(G) \subseteq Jobs
    BY DEF RunningIn, Running
  <2>. QED BY <2>1, JobsAssumption, FS_Subset DEF GroupIndexExact
<1>2. ASSUME NEW j \in Jobs, state' = [state EXCEPT ![j] = "Running"],
             state[j] # "Running",
             group_running_count' = GroupCountEntering(j)
      PROVE  group_running_count'[G] = Cardinality(RunningIn(G)')
  <2>1. CASE GroupOf[j] = G
    <3>1. RunningIn(G)' = RunningIn(G) \cup {j} /\ j \notin RunningIn(G)
      BY <1>2, <2>1 DEF RunningIn, Running, TypeOK
    <3>2. group_running_count'[G] = group_running_count[G] + 1
      BY <1>2, <2>1, JobsAssumption DEF GroupCountEntering, TypeOK
    <3>. QED BY <1>1, <3>1, <3>2, FS_AddElement
  <2>2. CASE GroupOf[j] # G
    <3>1. RunningIn(G)' = RunningIn(G)
      BY <1>2, <2>2 DEF RunningIn, Running, TypeOK
    <3>2. group_running_count'[G] = group_running_count[G]
      BY <1>2, <2>2 DEF GroupCountEntering, TypeOK
    <3>. QED BY <1>1, <3>1, <3>2
  <2>. QED BY <2>1, <2>2
<1>3. ASSUME NEW j \in Jobs, state' = [state EXCEPT ![j] = "Over"],
             state[j] = "Running",
             group_running_count' = GroupCountLeaving(j)
      PROVE  group_running_count'[G] = Cardinality(RunningIn(G)')
  <2>1. CASE GroupOf[j] = G
    <3>1. RunningIn(G)' = RunningIn(G) \ {j} /\ j \in RunningIn(G)
      BY <1>3, <2>1 DEF RunningIn, Running, TypeOK
    <3>2. Cardinality(RunningIn(G)') = Cardinality(RunningIn(G)) - 1
      BY <1>1, <3>1, FS_RemoveElement
    <3>3. Cardinality(RunningIn(G)) \in Nat /\ Cardinality(RunningIn(G)') \in Nat
      BY <1>1, <3>1, FS_RemoveElement, FS_CardinalityType
    <3>4. group_running_count'[G] = Sub(group_running_count[G], 1)
      BY <1>3, <2>1, JobsAssumption DEF GroupCountLeaving, TypeOK
    <3>. QED BY <1>1, <3>2, <3>3, <3>4 DEF Sub
  <2>2. CASE GroupOf[j] # G
    <3>1. RunningIn(G)' = RunningIn(G)
      BY <1>3, <2>2 DEF RunningIn, Running, TypeOK
    <3>2. group_running_count'[G] = group_running_count[G]
      BY <1>3, <2>2 DEF GroupCountLeaving, TypeOK
    <3>. QED BY <1>1, <3>1, <3>2
  <2>. QED BY <2>1, <2>2
<1>4. ASSUME Running' = Running, group_running_count' = group_running_count
      PROVE  group_running_count'[G] = Cardinality(RunningIn(G)')
  BY <1>1, <1>4 DEF RunningIn
<1>5. ASSUME NEW j \in Jobs, StartJob(j)
      PROVE  group_running_count'[G] = Cardinality(RunningIn(G)')
  <2>1. state[j] = "Queued" /\ Transition(j, "Running")
    BY <1>5 DEF StartJob, First, PassListSound
  <2>. QED BY <1>2, <2>1 DEF Transition
<1>6. ASSUME NEW j \in Jobs, NEW next \in {"Queued", "Hold", "Over"},
             Transition(j, next)
      PROVE  group_running_count'[G] = Cardinality(RunningIn(G)')
  <2>1. CASE state[j] = "Running"
    <3>1. next = "Over"
      BY <1>6, <2>1, TransitionType
    <3>2. group_running_count' = GroupCountLeaving(j)
      BY <1>6, <2>1 DEF Transition
    <3>. QED BY <1>3, <1>6, <2>1, <3>1, <3>2 DEF Transition
  <2>2. CASE state[j] # "Running"
    <3>1. state' = [state EXCEPT ![j] = next] /\ group_running_count' = group_running_count
      BY <1>6, <2>2 DEF Transition
    <3>2. Running' = Running
      BY <2>2, <3>1 DEF Running, TypeOK
    <3>. QED BY <1>4, <3>1, <3>2
  <2>. QED BY <2>1, <2>2
<1>7. ASSUME NEW j \in Jobs, Submit(j)
      PROVE  group_running_count'[G] = Cardinality(RunningIn(G)')
  <2>1. Running' = Running
    BY <1>7 DEF Submit, Running, TypeOK
  <2>. QED BY <1>4, <1>7, <2>1 DEF Submit
<1>8. ASSUME NEW j \in Jobs, ExecutionFails(j)
      PROVE  group_running_count'[G] = Cardinality(RunningIn(G)')
  <2>1. Transition(j, "Over") \/ UNCHANGED <<state, indexVars>>
    BY <1>8 DEF ExecutionFails
  <2>. QED BY <1>4, <1>6, <2>1 DEF Running
<1>9. CASE UNCHANGED <<state, indexVars>>
  BY <1>4, <1>9 DEF Running
<1>10. \/ \E j \in Jobs : StartJob(j) \/ Submit(j) \/ ExecutionFails(j)
       \/ \E j \in Jobs : \E next \in {"Queued", "Hold", "Over"} : Transition(j, next)
       \/ UNCHANGED <<state, indexVars>>
  BY DEF Next, vars, Hold, Release, UpdateJob, Complete, Execute, Requeue,
         SetGroupMaxConcurrency, SetQuota, SetAllowedGpus, RefreshGpuSlots,
         StartPass, EndPass
<1>. QED
  BY <1>5, <1>6, <1>7, <1>8, <1>9, <1>10

-----------------------------------------------------------------------------
(* Sums over the running jobs.  *)

(* What each job asks for.  *)
HostNeeds == [j \in Jobs |-> HostNeed(request[j])]
SharedNeeds == [j \in Jobs |-> OrZero(request[j].gpu_mem)]
GpuNeeds == [j \in Jobs |-> request[j].gpus]

(* Requests are naturals.  *)
LEMMA NeedsType ==
    ASSUME NEW r \in Requests
    PROVE  /\ HostNeed(r) \in Nat /\ OrZero(r.gpu_mem) \in Nat /\ r.gpus \in Nat
           /\ r.gpu_mem \in Limit /\ r.mode \in {"Exclusive", "Shared"}
           /\ r.mode = "Shared" => r.gpu_mem \in Nat /\ OrZero(r.gpu_mem) = r.gpu_mem
<1>1. /\ r.gpus \in Nat /\ r.mem \in Nat /\ r.gpu_mem \in Limit
      /\ r.mode \in {"Exclusive", "Shared"}
      /\ r.mode = "Shared" => r.gpu_mem # NoLimit
  BY RequestAssumption DEF Request
<1>2. OrZero(r.gpu_mem) \in Nat /\ (r.gpu_mem # NoLimit => OrZero(r.gpu_mem) = r.gpu_mem)
  BY <1>1 DEF OrZero, Limit
<1>3. \A a, b \in Nat : a * b \in Nat
  OBVIOUS
<1>4. HostNeed(r) \in Nat
  <2>1. OrZero(r.gpu_mem) * r.gpus \in Nat
    BY <1>1, <1>2, <1>3
  <2>. QED BY <1>1, <2>1 DEF HostNeed
<1>. QED BY <1>1, <1>2, <1>4 DEF Limit

(* What the summed functions give for a job, and its type.  *)
LEMMA Needs ==
    ASSUME TypeOK, NEW j \in Jobs
    PROVE  /\ HostNeeds[j] = HostNeed(request[j]) /\ HostNeeds[j] \in Nat
           /\ SharedNeeds[j] = OrZero(request[j].gpu_mem) /\ SharedNeeds[j] \in Nat
           /\ GpuNeeds[j] = request[j].gpus /\ GpuNeeds[j] \in Nat
<1>1. request[j] \in Requests
  BY DEF TypeOK
<1>. QED BY <1>1, NeedsType DEF HostNeeds, SharedNeeds, GpuNeeds

(* The sets summed over are finite.  *)
LEMMA JobSets ==
    ASSUME NEW R, R \subseteq Jobs
    PROVE  IsFiniteSet(R) /\ Cardinality(R) \in Nat
BY JobsAssumption, FS_Subset, FS_CardinalityType

(* Everything summed over or counted is running jobs.  *)
LEMMA Subsets ==
    /\ Running \subseteq Jobs
    /\ \A g, m : HoldersOf(g, m) \subseteq Running
    /\ \A s : RunningFor(s) \subseteq Running
    /\ \A G : RunningIn(G) \subseteq Running
BY DEF Running, HoldersOf, RunningFor, RunningIn

(* The folds of the model are sums, and naturals.  *)
SumsAreTotals ==
    /\ HostUsed = Total(HostNeeds, Running) /\ HostUsed \in Nat
    /\ \A g \in Gpus : /\ SharedMemoryOn(g) = Total(SharedNeeds, HoldersOf(g, "Shared"))
                       /\ SharedMemoryOn(g) \in Nat
    /\ \A s \in Subjects : /\ GpusUsed(s) = Total(GpuNeeds, RunningFor(s))
                           /\ GpusUsed(s) \in Nat

(* The folds solve the equation of the total, so they are the total.  *)
LEMMA SumsTotal == TypeOK => SumsAreTotals
<1>. SUFFICES ASSUME TypeOK PROVE SumsAreTotals
  OBVIOUS
<1>0. \A j \in Jobs : HostNeeds[j] \in Nat /\ SharedNeeds[j] \in Nat /\ GpuNeeds[j] \in Nat
  BY Needs
<1>1. HostUsed = Total(HostNeeds, Running) /\ HostUsed \in Nat
  <2>. DEFINE Eq(it) == [s \in SUBSET Running |->
                  IF s = {} THEN 0 ELSE HostNeed(request[Chosen(s)]) + it[s \ {Chosen(s)}]]
  <2>1. IsFiniteSet(Running) /\ \A j \in Running : HostNeeds[j] \in Nat
    BY <1>0, JobSets, Subsets
  <2>2. \A it : Eq(it) = Unfolded(HostNeeds, Running, it)
    BY Needs, Subsets, ChosenIn DEF Unfolded
  <2>3. \E it : it = Eq(it)
    <3>1. PICK it : it = Unfolded(HostNeeds, Running, it)
      BY <2>1, Solvable
    <3>. QED BY <2>2, <3>1
  <2>4. \E it : it = Eq(it) /\ HostUsed = it[Running]
    BY <2>3 DEF HostUsed, MapThenSumSet, MapThenFoldSet, Chosen
  <2>5. HostUsed = Total(HostNeeds, Running)
    <3>. HIDE DEF Eq
    <3>. QED BY <2>1, <2>2, <2>4, TotalSolves
  <2>. QED BY <2>1, <2>5, TotalType
<1>2. ASSUME NEW g \in Gpus
      PROVE  /\ SharedMemoryOn(g) = Total(SharedNeeds, HoldersOf(g, "Shared"))
             /\ SharedMemoryOn(g) \in Nat
  <2>. DEFINE R == HoldersOf(g, "Shared")
              Eq(it) == [s \in SUBSET R |->
                  IF s = {} THEN 0
                  ELSE OrZero(request[Chosen(s)].gpu_mem) + it[s \ {Chosen(s)}]]
  <2>1. R \subseteq Jobs /\ IsFiniteSet(R) /\ \A j \in R : SharedNeeds[j] \in Nat
    BY <1>0, JobSets, Subsets
  <2>2. \A it : Eq(it) = Unfolded(SharedNeeds, R, it)
    <3>. HIDE DEF R
    <3>. QED BY <2>1, Needs, ChosenIn DEF Unfolded
  <2>3. \E it : it = Eq(it)
    <3>1. PICK it : it = Unfolded(SharedNeeds, R, it)
      BY <2>1, Solvable
    <3>. QED BY <2>2, <3>1
  <2>4. \E it : it = Eq(it) /\ SharedMemoryOn(g) = it[R]
    BY <2>3 DEF SharedMemoryOn, MapThenSumSet, MapThenFoldSet, Chosen
  <2>5. SharedMemoryOn(g) = Total(SharedNeeds, R)
    <3>. HIDE DEF Eq, R
    <3>. QED BY <2>1, <2>2, <2>4, TotalSolves
  <2>. QED BY <2>1, <2>5, TotalType
<1>3. ASSUME NEW u \in Subjects
      PROVE  GpusUsed(u) = Total(GpuNeeds, RunningFor(u)) /\ GpusUsed(u) \in Nat
  <2>. DEFINE R == RunningFor(u)
              Eq(it) == [s \in SUBSET R |->
                  IF s = {} THEN 0 ELSE request[Chosen(s)].gpus + it[s \ {Chosen(s)}]]
  <2>1. R \subseteq Jobs /\ IsFiniteSet(R) /\ \A j \in R : GpuNeeds[j] \in Nat
    BY <1>0, JobSets, Subsets
  <2>2. \A it : Eq(it) = Unfolded(GpuNeeds, R, it)
    <3>. HIDE DEF R
    <3>. QED BY <2>1, Needs, ChosenIn DEF Unfolded
  <2>3. \E it : it = Eq(it)
    <3>1. PICK it : it = Unfolded(GpuNeeds, R, it)
      BY <2>1, Solvable
    <3>. QED BY <2>2, <3>1
  <2>4. \E it : it = Eq(it) /\ GpusUsed(u) = it[R]
    BY <2>3 DEF GpusUsed, MapThenSumSet, MapThenFoldSet, Chosen
  <2>5. GpusUsed(u) = Total(GpuNeeds, R)
    <3>. HIDE DEF Eq, R
    <3>. QED BY <2>1, <2>2, <2>4, TotalSolves
  <2>. QED BY <2>1, <2>5, TotalType
<1>. QED BY <1>1, <1>2, <1>3 DEF SumsAreTotals

(* So they are after a step.  *)
LEMMA SumsNext == TypeOK' => SumsAreTotals'
BY SumsTotal, PTL

(* A step that starts no job adds to no sum.  *)
LEMMA SumsShrink ==
    ASSUME TypeOK, TypeOK', KeepsRunning
    PROVE  /\ HostUsed' <= HostUsed
           /\ \A g \in Gpus : SharedMemoryOn(g)' <= SharedMemoryOn(g)
<1>1. /\ Running' \subseteq Running
      /\ \A g : HoldersOf(g, "Shared")' \subseteq HoldersOf(g, "Shared")
  BY DEF KeepsRunning, HoldersOf
<1>2. /\ \A j \in Running' : j \in Jobs /\ HostNeeds'[j] = HostNeeds[j]
                                        /\ SharedNeeds'[j] = SharedNeeds[j]
      /\ \A g : \A j \in HoldersOf(g, "Shared")' : j \in Running'
  BY DEF KeepsRunning, HostNeeds, SharedNeeds, Running, HoldersOf
<1>3. /\ \A j \in Jobs : HostNeeds[j] \in Nat /\ SharedNeeds[j] \in Nat
      /\ Running \subseteq Jobs /\ \A g : HoldersOf(g, "Shared") \subseteq Jobs
  BY Needs, Subsets
<1>4. SumsAreTotals /\ SumsAreTotals'
  BY SumsTotal, SumsNext
<1>5. HostUsed' <= HostUsed
  <2>1. Total(HostNeeds', Running') = Total(HostNeeds, Running')
    BY <1>1, <1>2, <1>3, JobSets, TotalSame
  <2>2. Total(HostNeeds, Running') <= Total(HostNeeds, Running)
    BY <1>1, <1>3, JobSets, TotalSubset
  <2>. QED BY <1>4, <2>1, <2>2 DEF SumsAreTotals
<1>6. ASSUME NEW g \in Gpus PROVE SharedMemoryOn(g)' <= SharedMemoryOn(g)
  <2>. DEFINE H == HoldersOf(g, "Shared")
              I == HoldersOf(g, "Shared")'
  <2>1. H \subseteq Jobs /\ I \subseteq H /\ I \subseteq Running'
    BY <1>1, <1>2, <1>3
  <2>2. SharedMemoryOn(g) = Total(SharedNeeds, H) /\ SharedMemoryOn(g)' = Total(SharedNeeds', I)
    BY <1>4 DEF SumsAreTotals
  <2>. HIDE DEF H, I
  <2>3. Total(SharedNeeds', I) = Total(SharedNeeds, I)
    <3>1. IsFiniteSet(I)
      BY <2>1, JobSets
    <3>2. \A j \in I : SharedNeeds'[j] \in Nat /\ SharedNeeds'[j] = SharedNeeds[j]
      BY <1>2, <1>3, <2>1
    <3>. QED BY <3>1, <3>2, TotalSame
  <2>4. Total(SharedNeeds, I) <= Total(SharedNeeds, H)
    BY <1>3, <2>1, JobSets, TotalSubset
  <2>. QED BY <2>2, <2>3, <2>4
<1>. QED BY <1>5, <1>6

(* A start adds to the sums what the job asked for, and nothing else.  *)
LEMMA StartAdds ==
    ASSUME TypeOK, TypeOK', PassListSound, NEW j \in Jobs, StartJob(j)
    PROVE  /\ HostUsed' = HostUsed + HostNeed(request[j])
           /\ \A g \in Gpus :
                 SharedMemoryOn(g)' =
                     SharedMemoryOn(g) + IF request[j].mode = "Shared" /\ g \in gpu_ids'[j]
                                         THEN OrZero(request[j].gpu_mem) ELSE 0
           /\ \A s \in Subjects :
                 GpusUsed(s)' = GpusUsed(s) + IF s \in SubjectsOf[j] THEN request[j].gpus ELSE 0
<1>1. PICK S \in SUBSET CompatibleGpus(request[j]) :
         /\ gpu_ids' = [gpu_ids EXCEPT ![j] = S]
         /\ request' = request
         /\ j \notin Running
         /\ Running' = Running \cup {j}
         /\ \A g \in Gpus : \A m :
               HoldersOf(g, m)' = IF m = request[j].mode /\ g \in S
                                  THEN HoldersOf(g, m) \cup {j} ELSE HoldersOf(g, m)
  BY StartAddsHolder
<1>2. gpu_ids'[j] = S
  BY <1>1 DEF TypeOK
<1>3. HostNeeds' = HostNeeds /\ SharedNeeds' = SharedNeeds /\ GpuNeeds' = GpuNeeds
  BY <1>1 DEF HostNeeds, SharedNeeds, GpuNeeds, HostNeed
<1>4. /\ \A k \in Jobs : HostNeeds[k] \in Nat /\ SharedNeeds[k] \in Nat /\ GpuNeeds[k] \in Nat
      /\ HostNeeds[j] = HostNeed(request[j]) /\ GpuNeeds[j] = request[j].gpus
      /\ SharedNeeds[j] = OrZero(request[j].gpu_mem)
  BY Needs
<1>5. SumsAreTotals /\ SumsAreTotals'
  BY SumsTotal, SumsNext
<1>6. \A R, f : R \subseteq Jobs /\ j \notin R /\ (\A k \in Jobs : f[k] \in Nat) =>
                   Total(f, R \cup {j}) = Total(f, R) + f[j]
  <2>. SUFFICES ASSUME NEW R, NEW f, R \subseteq Jobs, j \notin R, \A k \in Jobs : f[k] \in Nat
                PROVE  Total(f, R \cup {j}) = Total(f, R) + f[j]
    OBVIOUS
  <2>1. IsFiniteSet(R)
    BY JobSets
  <2>2. Total(f, R) \in Nat /\ f[j] \in Nat
    BY <2>1, TotalType
  <2>3. Total(f, R \cup {j}) = f[j] + Total(f, R)
    BY <2>1, TotalAdd
  <2>. QED BY <2>2, <2>3
<1>7. /\ Running \subseteq Jobs
      /\ \A g, m : HoldersOf(g, m) \subseteq Jobs /\ j \notin HoldersOf(g, m)
      /\ \A s : RunningFor(s) \subseteq Jobs /\ j \notin RunningFor(s)
  BY <1>1, Subsets
<1>8. HostUsed' = HostUsed + HostNeed(request[j])
  BY <1>1, <1>3, <1>4, <1>5, <1>6, <1>7 DEF SumsAreTotals
<1>9. ASSUME NEW g \in Gpus
      PROVE  SharedMemoryOn(g)' =
                 SharedMemoryOn(g) + IF request[j].mode = "Shared" /\ g \in gpu_ids'[j]
                                     THEN OrZero(request[j].gpu_mem) ELSE 0
  <2>0. /\ SharedMemoryOn(g) = Total(SharedNeeds, HoldersOf(g, "Shared"))
        /\ SharedMemoryOn(g) \in Nat
        /\ SharedMemoryOn(g)' = Total(SharedNeeds', HoldersOf(g, "Shared")')
    BY <1>5 DEF SumsAreTotals
  <2>1. CASE request[j].mode = "Shared" /\ g \in gpu_ids'[j]
    <3>1. HoldersOf(g, "Shared")' = HoldersOf(g, "Shared") \cup {j}
      BY <1>1, <1>2, <2>1
    <3>2. Total(SharedNeeds, HoldersOf(g, "Shared") \cup {j})
             = Total(SharedNeeds, HoldersOf(g, "Shared")) + SharedNeeds[j]
      BY <1>4, <1>6, <1>7
    <3>. QED BY <1>3, <1>4, <2>0, <2>1, <3>1, <3>2
  <2>2. CASE ~(request[j].mode = "Shared" /\ g \in gpu_ids'[j])
    <3>1. HoldersOf(g, "Shared")' = HoldersOf(g, "Shared")
      BY <1>1, <1>2, <2>2
    <3>2. SharedMemoryOn(g)' = SharedMemoryOn(g)
      BY <1>3, <2>0, <3>1
    <3>. QED BY <2>0, <2>2, <3>2
  <2>. QED BY <2>1, <2>2
<1>10. ASSUME NEW s \in Subjects
       PROVE  GpusUsed(s)' = GpusUsed(s) + IF s \in SubjectsOf[j] THEN request[j].gpus ELSE 0
  <2>0. /\ GpusUsed(s) = Total(GpuNeeds, RunningFor(s)) /\ GpusUsed(s) \in Nat
        /\ GpusUsed(s)' = Total(GpuNeeds', RunningFor(s)')
    BY <1>5 DEF SumsAreTotals
  <2>1. CASE s \in SubjectsOf[j]
    <3>1. RunningFor(s)' = RunningFor(s) \cup {j}
      BY <1>1, <2>1 DEF RunningFor
    <3>2. Total(GpuNeeds, RunningFor(s) \cup {j}) = Total(GpuNeeds, RunningFor(s)) + GpuNeeds[j]
      BY <1>4, <1>6, <1>7
    <3>. QED BY <1>3, <1>4, <2>0, <2>1, <3>1, <3>2
  <2>2. CASE s \notin SubjectsOf[j]
    <3>1. RunningFor(s)' = RunningFor(s)
      BY <1>1, <2>2 DEF RunningFor
    <3>2. GpusUsed(s)' = GpusUsed(s)
      BY <1>3, <2>0, <3>1
    <3>. QED BY <2>0, <2>2, <3>2
  <2>. QED BY <2>1, <2>2
<1>. QED BY <1>8, <1>9, <1>10

-----------------------------------------------------------------------------
(* Memory.  *)

(* The steps of a pass; nothing else happens while it has the lock.  *)
LEMMA InPass ==
    ASSUME [Next]_vars, passing'
    PROVE  \/ \E j \in Jobs : StartJob(j) \/ Requeue(j)
           \/ StartPass
           \/ UNCHANGED vars
BY DEF Next, Submit, Hold, Release, UpdateJob, Complete, Execute, ExecutionFails,
       SetGroupMaxConcurrency, SetQuota, SetAllowedGpus, RefreshGpuSlots, EndPass,
       jobVars, indexVars, machineVars, passVars

(* Nothing that is summed changes.  *)
LEMMA SumsSame ==
    ASSUME TypeOK, TypeOK', UNCHANGED <<state, request, gpu_ids>>
    PROVE  /\ HostUsed' = HostUsed
           /\ \A g \in Gpus : SharedMemoryOn(g)' = SharedMemoryOn(g)
           /\ \A s \in Subjects : GpusUsed(s)' = GpusUsed(s)
           /\ Running' = Running
           /\ \A g, m : HoldersOf(g, m)' = HoldersOf(g, m)
           /\ \A s : RunningFor(s)' = RunningFor(s)
           /\ \A G : RunningIn(G)' = RunningIn(G)
<1>1. Running' = Running /\ request' = request
  BY DEF Running
<1>2. /\ \A g, m : HoldersOf(g, m)' = HoldersOf(g, m)
      /\ \A s : RunningFor(s)' = RunningFor(s)
      /\ \A G : RunningIn(G)' = RunningIn(G)
  BY <1>1 DEF HoldersOf, RunningFor, RunningIn
<1>3. HostNeeds' = HostNeeds /\ SharedNeeds' = SharedNeeds /\ GpuNeeds' = GpuNeeds
  BY <1>1 DEF HostNeeds, SharedNeeds, GpuNeeds, HostNeed
<1>. QED BY <1>1, <1>2, <1>3, SumsTotal, SumsNext DEF SumsAreTotals

(* What the pass believes of memory is a recount, job after job.  *)
LEMMA MemoryStep ==
    TypeOK /\ TypeOK' /\ PassListSound /\ MemoryExact /\ [Next]_vars => MemoryExact'
<1>. SUFFICES ASSUME TypeOK, TypeOK', PassListSound, MemoryExact, [Next]_vars, passing'
              PROVE  MemoryExact'
  BY DEF MemoryExact
<1>. USE DEF jobVars, heapVars, indexVars, machineVars, passVars
<1>1. ASSUME NEW j \in Jobs, StartJob(j) PROVE MemoryExact'
  <2>1. /\ passing /\ available_memory_mb = Sub(HostMemory, HostUsed)
        /\ \A g \in Gpus : shared_mem[g] = SharedMemoryOn(g)
    BY <1>1 DEF StartJob, MemoryExact
  <2>2. available_memory_mb' = Sub(available_memory_mb, HostNeed(request[j]))
    BY <1>1 DEF StartJob
  <2>3. /\ HostUsed \in Nat /\ HostNeed(request[j]) \in Nat /\ HostMemory \in Nat
        /\ \A g \in Gpus : SharedMemoryOn(g) \in Nat
    BY SumsTotal, NeedsType, MachineAssumption DEF SumsAreTotals, TypeOK
  <2>4. available_memory_mb' = Sub(HostMemory, HostUsed')
    <3>1. HostUsed' = HostUsed + HostNeed(request[j])
      BY <1>1, StartAdds
    <3>. QED BY <2>1, <2>2, <2>3, <3>1 DEF Sub
  <2>5. ASSUME NEW g \in Gpus PROVE shared_mem'[g] = SharedMemoryOn(g)'
    <3>1. PICK S \in Allocations(request[j]) :
             /\ gpu_ids' = [gpu_ids EXCEPT ![j] = S]
             /\ IF request[j].mode = "Shared"
                THEN shared_mem' = [h \in Gpus |->
                        shared_mem[h] + IF h \in S THEN OrZero(request[j].gpu_mem) ELSE 0]
                ELSE UNCHANGED shared_mem
      BY <1>1 DEF StartJob
    <3>2. gpu_ids'[j] = S
      BY <3>1 DEF TypeOK
    <3>3. SharedMemoryOn(g)' =
             SharedMemoryOn(g) + IF request[j].mode = "Shared" /\ g \in gpu_ids'[j]
                                 THEN OrZero(request[j].gpu_mem) ELSE 0
      BY <1>1, StartAdds
    <3>4. shared_mem[g] = SharedMemoryOn(g) /\ SharedMemoryOn(g) \in Nat
      BY <2>1, <2>3
    <3>5. CASE request[j].mode = "Shared"
      BY <3>1, <3>2, <3>3, <3>4, <3>5
    <3>6. CASE request[j].mode # "Shared"
      BY <3>1, <3>3, <3>4, <3>6
    <3>. QED BY <3>5, <3>6
  <2>. QED BY <2>4, <2>5 DEF MemoryExact
<1>2. ASSUME NEW j \in Jobs, Requeue(j) PROVE MemoryExact'
  <2>1. UNCHANGED <<state, request, gpu_ids, available_memory_mb, shared_mem, passing>>
    BY <1>2 DEF Requeue
  <2>. QED BY <2>1, SumsSame DEF MemoryExact
<1>3. CASE StartPass
  <2>1. UNCHANGED <<state, request, gpu_ids>>
    BY <1>3 DEF StartPass
  <2>2. /\ available_memory_mb' = Sub(HostMemory, HostUsed)
        /\ \A g \in Gpus : shared_mem'[g] = SharedMemoryOn(g)
    BY <1>3 DEF StartPass, FreeHostMemory
  <2>. QED BY <2>1, <2>2, SumsSame DEF MemoryExact
<1>4. CASE UNCHANGED vars
  <2>1. UNCHANGED <<state, request, gpu_ids, available_memory_mb, shared_mem, passing>>
    BY <1>4 DEF vars
  <2>. QED BY <2>1, SumsSame DEF MemoryExact
<1>. QED BY <1>1, <1>2, <1>3, <1>4, InPass

(* The memory it gives out is there: a start was checked against a recount, and
   anything else only gives back.  *)
LEMMA FitsStep ==
    TypeOK /\ TypeOK' /\ PassListSound /\ MemoryExact /\ HostMemoryFits /\ SharedMemoryFits
        /\ [Next]_vars => HostMemoryFits' /\ SharedMemoryFits'
<1>. SUFFICES ASSUME TypeOK, TypeOK', PassListSound, MemoryExact, HostMemoryFits,
                     SharedMemoryFits, [Next]_vars
              PROVE  HostMemoryFits' /\ SharedMemoryFits'
  OBVIOUS
<1>0. /\ HostUsed \in Nat /\ HostUsed' \in Nat /\ HostMemory \in Nat
      /\ \A g \in Gpus : /\ SharedMemoryOn(g) \in Nat /\ SharedMemoryOn(g)' \in Nat
                         /\ GpuMemory[g] \in Limit
  BY SumsTotal, SumsNext, MachineAssumption DEF SumsAreTotals
<1>1. ASSUME NEW j \in Jobs, StartJob(j) PROVE HostMemoryFits' /\ SharedMemoryFits'
  <2>1. /\ HostNeed(request[j]) <= available_memory_mb
        /\ available_memory_mb = Sub(HostMemory, HostUsed)
        /\ \A g \in Gpus : shared_mem[g] = SharedMemoryOn(g)
    BY <1>1 DEF StartJob, MayStart, MemoryExact
  <2>2. request[j] \in Requests /\ HostNeed(request[j]) \in Nat
    BY NeedsType DEF TypeOK
  <2>3. HostMemoryFits'
    <3>1. HostUsed' = HostUsed + HostNeed(request[j])
      BY <1>1, StartAdds
    <3>. QED BY <1>0, <2>1, <2>2, <3>1 DEF HostMemoryFits, Sub
  <2>4. ASSUME NEW g \in Gpus PROVE AtMost(SharedMemoryOn(g)', GpuMemory[g])
    <3>1. SharedMemoryOn(g)' =
             SharedMemoryOn(g) + IF request[j].mode = "Shared" /\ g \in gpu_ids'[j]
                                 THEN OrZero(request[j].gpu_mem) ELSE 0
      BY <1>1, StartAdds
    <3>2. CASE request[j].mode = "Shared" /\ g \in gpu_ids'[j]
      <4>1. g \in CompatibleGpus(request[j])
        <5>1. PICK S \in SUBSET CompatibleGpus(request[j]) :
                 gpu_ids' = [gpu_ids EXCEPT ![j] = S]
          BY <1>1, StartAddsHolder
        <5>. QED BY <3>2, <5>1 DEF TypeOK
      <4>2. request[j].gpu_mem \in Nat /\ OrZero(request[j].gpu_mem) = request[j].gpu_mem
        BY <2>2, <3>2, NeedsType
      <4>3. AtMost(SharedMemoryOn(g) + request[j].gpu_mem, GpuMemory[g])
        BY <2>1, <3>2, <4>1, <4>2, JobsAssumption DEF CompatibleGpus, FitsShared
      <4>. QED BY <3>1, <3>2, <4>2, <4>3
    <3>3. CASE ~(request[j].mode = "Shared" /\ g \in gpu_ids'[j])
      <4>1. SharedMemoryOn(g)' = SharedMemoryOn(g)
        BY <1>0, <3>1, <3>3
      <4>. QED BY <4>1 DEF SharedMemoryFits
    <3>. QED BY <3>2, <3>3
  <2>. QED BY <2>3, <2>4 DEF SharedMemoryFits
<1>2. CASE ~\E j \in Jobs : StartJob(j)
  <2>1. KeepsRunning
    BY <1>2, StepsKeepRunning
  <2>2. HostUsed' <= HostUsed /\ \A g \in Gpus : SharedMemoryOn(g)' <= SharedMemoryOn(g)
    BY <2>1, SumsShrink
  <2>3. HostMemoryFits'
    BY <1>0, <2>2 DEF HostMemoryFits
  <2>4. ASSUME NEW g \in Gpus PROVE AtMost(SharedMemoryOn(g)', GpuMemory[g])
    <3>1. AtMost(SharedMemoryOn(g), GpuMemory[g])
      BY DEF SharedMemoryFits
    <3>. QED BY <1>0, <2>2, <3>1 DEF AtMost, Limit
  <2>. QED BY <2>3, <2>4 DEF SharedMemoryFits
<1>. QED BY <1>1, <1>2

-----------------------------------------------------------------------------
(* The quota index.  *)

(* The end of a running job takes its GPUs from what its subjects use.  *)
LEMMA EndGivesBack ==
    ASSUME TypeOK, TypeOK', NEW j \in Jobs, state[j] = "Running",
           state' = [state EXCEPT ![j] = "Over"], request' = request, NEW s \in Subjects
    PROVE  IF s \in SubjectsOf[j]
           THEN /\ Cardinality(RunningFor(s)) \in Nat \ {0}
                /\ Cardinality(RunningFor(s)') = Cardinality(RunningFor(s)) - 1
                /\ GpusUsed(s) = request[j].gpus + GpusUsed(s)'
           ELSE RunningFor(s)' = RunningFor(s) /\ GpusUsed(s)' = GpusUsed(s)
<1>1. /\ GpusUsed(s) = Total(GpuNeeds, RunningFor(s)) /\ GpusUsed(s) \in Nat
      /\ GpusUsed(s)' = Total(GpuNeeds', RunningFor(s)')
  BY SumsTotal, SumsNext DEF SumsAreTotals
<1>2. GpuNeeds' = GpuNeeds /\ GpuNeeds[j] = request[j].gpus
  BY Needs DEF GpuNeeds
<1>3. Running' = Running \ {j} /\ j \in Running
  BY DEF Running, TypeOK
<1>4. /\ RunningFor(s) \subseteq Jobs /\ IsFiniteSet(RunningFor(s))
      /\ \A k \in RunningFor(s) : GpuNeeds[k] \in Nat
  BY Subsets, JobSets, Needs
<1>5. CASE s \in SubjectsOf[j]
  <2>1. RunningFor(s)' = RunningFor(s) \ {j} /\ j \in RunningFor(s)
    BY <1>3, <1>5 DEF RunningFor
  <2>2. Total(GpuNeeds, RunningFor(s)) = GpuNeeds[j] + Total(GpuNeeds, RunningFor(s) \ {j})
    BY <1>4, <2>1, TotalRemove
  <2>3. /\ Cardinality(RunningFor(s)) \in Nat
        /\ Cardinality(RunningFor(s)') = Cardinality(RunningFor(s)) - 1
        /\ Cardinality(RunningFor(s)) # 0
    BY <1>4, <2>1, FS_RemoveElement, FS_CardinalityType, FS_EmptySet
  <2>. QED BY <1>1, <1>2, <1>5, <2>1, <2>2, <2>3
<1>6. CASE s \notin SubjectsOf[j]
  <2>1. RunningFor(s)' = RunningFor(s)
    BY <1>3, <1>6 DEF RunningFor
  <2>. QED BY <1>1, <1>2, <1>6, <2>1
<1>. QED BY <1>5, <1>6

(* A request that changes is not a running job's.  *)
LEMMA SameUse ==
    ASSUME TypeOK, TypeOK', KeepsRunning, Running' = Running
    PROVE  \A s \in Subjects : RunningFor(s)' = RunningFor(s) /\ GpusUsed(s)' = GpusUsed(s)
<1>. SUFFICES ASSUME NEW s \in Subjects
              PROVE  RunningFor(s)' = RunningFor(s) /\ GpusUsed(s)' = GpusUsed(s)
  OBVIOUS
<1>1. RunningFor(s)' = RunningFor(s)
  BY DEF RunningFor
<1>2. IsFiniteSet(RunningFor(s)) /\ \A k \in RunningFor(s) : k \in Jobs /\ k \in Running'
  BY Subsets, JobSets
<1>3. \A k \in RunningFor(s) : GpuNeeds[k] \in Nat /\ GpuNeeds[k] = GpuNeeds'[k]
  BY <1>2, Needs DEF KeepsRunning, GpuNeeds
<1>4. Total(GpuNeeds, RunningFor(s)) = Total(GpuNeeds', RunningFor(s))
  BY <1>2, <1>3, TotalSame
<1>. QED BY <1>1, <1>4, SumsTotal, SumsNext DEF SumsAreTotals

(* What an ended job gives back to its quotas is what it took: its request can be
   updated only while it does not run.  *)
LEMMA QuotaIndexStep ==
    TypeOK /\ TypeOK' /\ PassListSound /\ QuotaIndexExact /\ [Next]_vars => QuotaIndexExact'
<1>. SUFFICES ASSUME TypeOK, TypeOK', PassListSound, QuotaIndexExact, [Next]_vars,
                     NEW s \in Subjects
              PROVE  quota_usage'[s] = [jobs |-> Cardinality(RunningFor(s)'),
                                        gpus |-> GpusUsed(s)']
  BY DEF QuotaIndexExact
<1>. USE DEF jobVars, heapVars, indexVars, machineVars, passVars
<1>. DEFINE Kept == quota_usage'[s] = [jobs |-> Cardinality(RunningFor(s)'),
                                       gpus |-> GpusUsed(s)']
<1>1. /\ quota_usage[s] = [jobs |-> Cardinality(RunningFor(s)), gpus |-> GpusUsed(s)]
      /\ IsFiniteSet(RunningFor(s)) /\ Cardinality(RunningFor(s)) \in Nat
      /\ GpusUsed(s) \in Nat /\ GpusUsed(s)' \in Nat
      /\ quota_usage \in [Subjects -> [jobs : Nat, gpus : Nat]]
  BY Subsets, JobSets, SumsTotal, SumsNext DEF QuotaIndexExact, SumsAreTotals, TypeOK
<1>2. ASSUME NEW j \in Jobs, StartJob(j) PROVE Kept
  <2>1. state[j] = "Queued" /\ quota_usage' = RecordRunning(j) /\ Running' = Running \cup {j}
    BY <1>2, StartAddsHolder DEF StartJob, Transition
  <2>2. GpusUsed(s)' = GpusUsed(s) + IF s \in SubjectsOf[j] THEN request[j].gpus ELSE 0
    BY <1>2, StartAdds
  <2>3. CASE s \in SubjectsOf[j]
    <3>1. RunningFor(s)' = RunningFor(s) \cup {j} /\ j \notin RunningFor(s)
      BY <2>1, <2>3 DEF RunningFor, Running
    <3>2. Cardinality(RunningFor(s)') = Cardinality(RunningFor(s)) + 1
      BY <1>1, <3>1, FS_AddElement
    <3>3. quota_usage'[s] = [jobs |-> quota_usage[s].jobs + 1,
                             gpus |-> quota_usage[s].gpus + request[j].gpus]
      BY <2>1, <2>3 DEF RecordRunning
    <3>. QED BY <1>1, <2>2, <2>3, <3>2, <3>3
  <2>4. CASE s \notin SubjectsOf[j]
    <3>1. RunningFor(s)' = RunningFor(s)
      BY <2>1, <2>4 DEF RunningFor
    <3>2. quota_usage'[s] = quota_usage[s] /\ GpusUsed(s)' = GpusUsed(s)
      BY <1>1, <2>1, <2>2, <2>4 DEF RecordRunning
    <3>. QED BY <1>1, <3>1, <3>2
  <2>. QED BY <2>3, <2>4
<1>3. ASSUME NEW j \in Jobs, state' = [state EXCEPT ![j] = "Over"], request' = request,
             state[j] = "Running", quota_usage' = ReleaseRunning(j)
      PROVE  Kept
  <2>1. request[j].gpus \in Nat
    BY NeedsType DEF TypeOK
  <2>2. CASE s \in SubjectsOf[j]
    <3>1. /\ Cardinality(RunningFor(s)) \in Nat \ {0}
          /\ Cardinality(RunningFor(s)') = Cardinality(RunningFor(s)) - 1
          /\ GpusUsed(s) = request[j].gpus + GpusUsed(s)'
      BY <1>3, <2>2, EndGivesBack
    <3>2. quota_usage'[s] = [jobs |-> Sub(quota_usage[s].jobs, 1),
                             gpus |-> Sub(quota_usage[s].gpus, request[j].gpus)]
      BY <1>3, <2>2 DEF ReleaseRunning
    <3>3. Sub(quota_usage[s].jobs, 1) = Cardinality(RunningFor(s)')
      BY <1>1, <3>1 DEF Sub
    <3>4. Sub(quota_usage[s].gpus, request[j].gpus) = GpusUsed(s)'
      BY <1>1, <2>1, <3>1 DEF Sub
    <3>. QED BY <3>2, <3>3, <3>4
  <2>3. CASE s \notin SubjectsOf[j]
    <3>1. RunningFor(s)' = RunningFor(s) /\ GpusUsed(s)' = GpusUsed(s)
      BY <1>3, <2>3, EndGivesBack
    <3>2. quota_usage'[s] = quota_usage[s]
      BY <1>3, <2>3 DEF ReleaseRunning
    <3>. QED BY <1>1, <3>1, <3>2
  <2>. QED BY <2>2, <2>3
<1>4. ASSUME KeepsRunning, Running' = Running, quota_usage' = quota_usage PROVE Kept
  BY <1>1, <1>4, SameUse
<1>5. ASSUME NEW j \in Jobs, NEW next \in {"Queued", "Hold", "Over"},
             Transition(j, next), request' = request, KeepsRunning
      PROVE  Kept
  <2>1. CASE state[j] = "Running"
    <3>1. next = "Over"
      BY <1>5, <2>1, TransitionType
    <3>. QED BY <1>3, <1>5, <2>1, <3>1 DEF Transition
  <2>2. CASE state[j] # "Running"
    <3>1. state' = [state EXCEPT ![j] = next] /\ quota_usage' = quota_usage
      BY <1>5, <2>2 DEF Transition
    <3>2. Running' = Running
      BY <2>2, <3>1 DEF Running, TypeOK
    <3>. QED BY <1>4, <1>5, <3>1, <3>2
  <2>. QED BY <2>1, <2>2
<1>6. ASSUME NEW j \in Jobs, Submit(j), KeepsRunning PROVE Kept
  <2>1. Running' = Running /\ quota_usage' = quota_usage
    BY <1>6 DEF Submit, Running, TypeOK
  <2>. QED BY <1>4, <1>6, <2>1
<1>7. ASSUME NEW j \in Jobs, ExecutionFails(j), KeepsRunning PROVE Kept
  <2>1. request' = request /\ (Transition(j, "Over") \/ UNCHANGED <<state, indexVars>>)
    BY <1>7 DEF ExecutionFails
  <2>2. CASE UNCHANGED <<state, indexVars>>
    BY <1>4, <1>7, <2>2 DEF Running
  <2>. QED BY <1>5, <1>7, <2>1, <2>2
<1>8. CASE UNCHANGED <<state, indexVars>> /\ KeepsRunning
  BY <1>4, <1>8 DEF Running
<1>9. \/ \E j \in Jobs : StartJob(j) \/ Submit(j) \/ ExecutionFails(j)
      \/ request' = request
            /\ \E j \in Jobs : \E next \in {"Queued", "Hold", "Over"} : Transition(j, next)
      \/ UNCHANGED <<state, indexVars>>
  BY DEF Next, vars, Hold, Release, UpdateJob, Complete, Execute, Requeue,
         SetGroupMaxConcurrency, SetQuota, SetAllowedGpus, RefreshGpuSlots,
         StartPass, EndPass
<1>10. (\E j \in Jobs : StartJob(j)) \/ KeepsRunning
  BY StepsKeepRunning
<1>. QED
  BY <1>2, <1>5, <1>6, <1>7, <1>8, <1>9, <1>10

-----------------------------------------------------------------------------
(* The order of the pass.  *)

(* The snapshot of the free GPUs stays true: nobody refreshes a slot or changes the
   restriction while the pass has the lock.  *)
AvailableExact == passing => avail = {g \in allowed : slot_available[g]}

(* What the pass put back cannot start, and will not before the pass ends.  *)
PassedOver == passing => \A k \in ready : ~Startable(k)

(* Only StartPass takes the snapshot and only EndPass drops it.  *)
LEMMA AvailableStep == AvailableExact /\ [Next]_vars => AvailableExact'
<1>. SUFFICES ASSUME AvailableExact, [Next]_vars, passing' PROVE AvailableExact'
  BY DEF AvailableExact
<1>. USE DEF jobVars, heapVars, indexVars, machineVars, passVars
<1>1. ASSUME NEW j \in Jobs, StartJob(j) \/ Requeue(j) PROVE AvailableExact'
  BY <1>1 DEF StartJob, Requeue, AvailableExact
<1>2. CASE StartPass
  BY <1>2 DEF StartPass, AvailableExact
<1>3. CASE UNCHANGED vars
  BY <1>3 DEF vars, AvailableExact
<1>. QED BY <1>1, <1>2, <1>3, InPass

(* The lowest n members of a set of numbers.  *)
LEMMA Lowest ==
    ASSUME NEW C \in SUBSET Nat, IsFiniteSet(C), NEW n \in Nat, n <= Cardinality(C)
    PROVE  \E S \in SUBSET C : Cardinality(S) = n /\ \A g \in S : \A h \in C \ S : g < h
<1>. DEFINE Splits(S) == \A g \in S : \A h \in C \ S : g < h
            Bad == {m \in Nat : m <= Cardinality(C)
                                /\ ~\E S \in SUBSET C : Cardinality(S) = m /\ Splits(S)}
<1>1. SUFFICES ASSUME Bad # {} PROVE FALSE
  OBVIOUS
<1>2. PICK m \in Bad : \A l \in Bad : m <= l
  BY <1>1, LeastOf
<1>3. m # 0
  <2>1. {} \in SUBSET C /\ Cardinality({}) = 0 /\ Splits({})
    BY FS_EmptySet
  <2>. QED BY <2>1
<1>4. m - 1 \in Nat /\ m - 1 < m /\ m - 1 \notin Bad /\ Cardinality(C) \in Nat
  BY <1>2, <1>3, FS_CardinalityType
<1>5. PICK S \in SUBSET C : Cardinality(S) = m - 1 /\ Splits(S)
  BY <1>2, <1>4
<1>6. C \ S # {}
  <2>1. SUFFICES ASSUME C = S PROVE FALSE
    OBVIOUS
  <2>. QED BY <1>2, <1>4, <1>5, <2>1
<1>7. PICK x \in C \ S : \A h \in C \ S : x <= h
  BY <1>6, LeastOf
<1>8. Cardinality(S \cup {x}) = m
  <2>1. IsFiniteSet(S)
    BY FS_Subset
  <2>2. Cardinality(S \cup {x}) = Cardinality(S) + 1
    BY <1>7, <2>1, FS_AddElement
  <2>. QED BY <1>2, <1>5, <2>2
<1>9. Splits(S \cup {x})
  <2>1. \A h \in C \ (S \cup {x}) : h \in C \ S /\ x <= h /\ x # h /\ h \in Nat /\ x \in Nat
    BY <1>7
  <2>. QED BY <1>5, <2>1
<1>. QED BY <1>2, <1>7, <1>8, <1>9

(* There is an allocation where there are enough compatible GPUs.  *)
LEMMA EnoughIsAllocated ==
    ASSUME TypeOK, NEW r, r.gpus \in Nat, r.gpus <= Cardinality(CompatibleGpus(r))
    PROVE  Allocations(r) # {}
<1>1. CompatibleGpus(r) \in SUBSET Nat /\ IsFiniteSet(CompatibleGpus(r))
  <2>1. CompatibleGpus(r) \subseteq Gpus
    BY DEF CompatibleGpus, TypeOK
  <2>. QED BY <2>1, JobsAssumption, FS_Subset
<1>2. \E S \in SUBSET CompatibleGpus(r) :
         /\ Cardinality(S) = r.gpus
         /\ \A g \in S : \A h \in CompatibleGpus(r) \ S : g < h
  <2>. DEFINE C == CompatibleGpus(r)
              n == r.gpus
  <2>1. C \in SUBSET Nat /\ IsFiniteSet(C) /\ n \in Nat /\ n <= Cardinality(C)
    BY <1>1
  <2>. HIDE DEF C, n
  <2>2. \E S \in SUBSET C : Cardinality(S) = n /\ \A g \in S : \A h \in C \ S : g < h
    BY <2>1, Lowest
  <2>. QED BY <2>2 DEF C, n
<1>. QED BY <1>2 DEF Allocations

(* The GPUs that are free for a request by a recount.  *)
FreeFor(r) == {g \in Gpus : g \in allowed /\ slot_available[g] /\ RoomOn(g, r)}

(* What the pass refuses could not be started: all it decides from is exact.  *)
LEMMA StartableMayStart ==
    ASSUME TypeOK, OccupancyExact, MemoryExact, AvailableExact, GroupIndexExact,
           QuotaIndexExact, passing, NEW k \in Jobs, Startable(k)
    PROVE  MayStart(k)
<1>. DEFINE r == request[k]
<1>1. r \in Requests /\ HostNeed(r) \in Nat /\ r.gpus \in Nat /\ r.mode \in {"Exclusive", "Shared"}
  BY NeedsType DEF TypeOK
<1>. HIDE DEF r
<1>2. HostNeed(r) <= available_memory_mb
  <2>1. HostUsed \in Nat /\ HostMemory \in Nat
    BY SumsTotal, MachineAssumption DEF SumsAreTotals
  <2>2. HostUsed + HostNeed(r) <= HostMemory /\ available_memory_mb = Sub(HostMemory, HostUsed)
    BY DEF Startable, MemoryExact, r
  <2>. QED BY <1>1, <2>1, <2>2 DEF Sub
<1>3. WithinGroupLimit(k)
  BY JobAttributesAssumption DEF Startable, WithinGroupLimit, GroupIndexExact
<1>4. WithinQuota(k)
  <2>1. ASSUME NEW s \in SubjectsOf[k]
        PROVE  /\ Below(quota_usage[s].jobs, quota[s].jobs)
               /\ AtMost(quota_usage[s].gpus + request[k].gpus, quota[s].gpus)
    <3>1. s \in Subjects
      BY JobAttributesAssumption
    <3>2. quota_usage[s] = [jobs |-> Cardinality(RunningFor(s)), gpus |-> GpusUsed(s)]
      BY <3>1 DEF QuotaIndexExact
    <3>3. quota_usage[s].jobs = Cardinality(RunningFor(s)) /\ quota_usage[s].gpus = GpusUsed(s)
      BY <3>2
    <3>. QED BY <3>3 DEF Startable
  <2>. QED BY <2>1 DEF WithinQuota
<1>5. CompatibleGpus(r) = FreeFor(r)
  <2>1. \A g : g \in avail <=> g \in Gpus /\ g \in allowed /\ slot_available[g]
    BY DEF AvailableExact, TypeOK
  <2>2. \A g \in Gpus : /\ g \in excl <=> HoldersOf(g, "Exclusive") # {}
                        /\ g \in shared <=> HoldersOf(g, "Shared") # {}
                        /\ shared_mem[g] = SharedMemoryOn(g)
    BY DEF OccupancyExact, MemoryExact
  <2>. QED BY <2>1, <2>2 DEF CompatibleGpus, FreeFor, RoomOn, FitsShared
<1>6. r.gpus <= Cardinality(CompatibleGpus(r))
  <2>1. Cardinality(FreeFor(r)) >= r.gpus
    BY DEF Startable, FreeFor, r
  <2>2. IsFiniteSet(FreeFor(r))
    BY JobsAssumption, FS_Subset DEF FreeFor
  <2>3. Cardinality(FreeFor(r)) \in Nat
    BY <2>2, FS_CardinalityType
  <2>. QED BY <1>1, <1>5, <2>1, <2>3
<1>7. Allocations(r) # {}
  BY <1>1, <1>6, EnoughIsAllocated
<1>. QED BY <1>2, <1>3, <1>4, <1>7 DEF MayStart, r

(* Whether a job could start depends on nothing else.  *)
LEMMA SameRoom ==
    ASSUME TypeOK, TypeOK', NEW k \in Jobs, Startable(k)',
           UNCHANGED <<state, request, gpu_ids, max_concurrent, quota, allowed, slot_available>>
    PROVE  Startable(k)
<1>1. /\ HostUsed' = HostUsed
      /\ \A g \in Gpus : SharedMemoryOn(g)' = SharedMemoryOn(g)
      /\ \A s \in Subjects : GpusUsed(s)' = GpusUsed(s)
      /\ \A g, m : HoldersOf(g, m)' = HoldersOf(g, m)
      /\ \A s : RunningFor(s)' = RunningFor(s)
      /\ \A G : RunningIn(G)' = RunningIn(G)
  BY SumsSame
<1>2. FreeFor(request[k])' = FreeFor(request[k])
  BY <1>1 DEF FreeFor, RoomOn
<1>3. SubjectsOf[k] \subseteq Subjects
  BY JobAttributesAssumption
<1>. QED BY <1>1, <1>2, <1>3 DEF Startable, FreeFor, HostNeed


(* A start only takes: what can start after it could before.  *)
LEMMA StartsOnlyTake ==
    ASSUME TypeOK, TypeOK', PassListSound, NEW j \in Jobs, StartJob(j),
           NEW k \in Jobs, Startable(k)'
    PROVE  Startable(k)
<1>. DEFINE r == request[k]
<1>0. /\ request' = request /\ max_concurrent' = max_concurrent /\ quota' = quota
      /\ allowed' = allowed /\ slot_available' = slot_available
      /\ state' = [state EXCEPT ![j] = "Running"]
      /\ Running' = Running \cup {j}
      /\ \A g \in Gpus : \A m : HoldersOf(g, m) \subseteq HoldersOf(g, m)'
  <2>1. PICK S \in SUBSET CompatibleGpus(request[j]) :
           /\ request' = request
           /\ state' = [state EXCEPT ![j] = "Running"]
           /\ Running' = Running \cup {j}
           /\ \A g \in Gpus : \A m :
                 HoldersOf(g, m)' = IF m = request[j].mode /\ g \in S
                                    THEN HoldersOf(g, m) \cup {j} ELSE HoldersOf(g, m)
    BY StartAddsHolder
  <2>2. \A g \in Gpus : \A m : HoldersOf(g, m) \subseteq HoldersOf(g, m)'
    BY <2>1
  <2>. QED BY <2>1, <2>2 DEF StartJob
<1>1. r \in Requests /\ r.gpus \in Nat /\ HostNeed(r) \in Nat /\ OrZero(r.gpu_mem) \in Nat
        /\ r.gpu_mem \in Limit
  BY NeedsType DEF TypeOK
<1>2. /\ HostUsed \in Nat /\ HostUsed' \in Nat /\ HostUsed <= HostUsed' /\ HostMemory \in Nat
      /\ \A g \in Gpus : /\ SharedMemoryOn(g) \in Nat /\ SharedMemoryOn(g)' \in Nat
                         /\ SharedMemoryOn(g) <= SharedMemoryOn(g)'
                         /\ GpuMemory[g] \in Limit
      /\ \A s \in Subjects : /\ GpusUsed(s) \in Nat /\ GpusUsed(s)' \in Nat
                             /\ GpusUsed(s) <= GpusUsed(s)'
  <2>1. request[j] \in Requests
    BY DEF TypeOK
  <2>2. /\ HostNeed(request[j]) \in Nat /\ OrZero(request[j].gpu_mem) \in Nat
        /\ request[j].gpus \in Nat
    BY <2>1, NeedsType
  <2>. QED BY <2>2, StartAdds, SumsTotal, SumsNext, MachineAssumption DEF SumsAreTotals
<1>3. state[k] = "Queued"
  BY <1>0 DEF Startable, TypeOK
<1>4. HostUsed + HostNeed(r) <= HostMemory
  <2>1. HostUsed' + HostNeed(r) <= HostMemory
    BY <1>0 DEF Startable, HostNeed
  <2>. QED BY <1>1, <1>2, <2>1
<1>5. \A A, B : A \subseteq B /\ B \subseteq Jobs =>
         /\ Cardinality(A) \in Nat /\ Cardinality(B) \in Nat /\ Cardinality(A) <= Cardinality(B)
  BY JobsAssumption, FS_Subset, FS_CardinalityType
<1>6. GroupOf[k] # NoGroup => Below(Cardinality(RunningIn(GroupOf[k])), max_concurrent[k])
  <2>. DEFINE A == RunningIn(GroupOf[k])
              B == RunningIn(GroupOf[k])'
  <2>1. A \subseteq B /\ B \subseteq Jobs
    BY <1>0 DEF RunningIn, Running
  <2>2. GroupOf[k] # NoGroup => Below(Cardinality(B), max_concurrent[k])
    BY <1>0 DEF Startable
  <2>3. max_concurrent[k] \in Limit
    BY RequestAssumption DEF TypeOK
  <2>. HIDE DEF A, B
  <2>4. Cardinality(A) \in Nat /\ Cardinality(B) \in Nat /\ Cardinality(A) <= Cardinality(B)
    BY <1>5, <2>1
  <2>5. GroupOf[k] # NoGroup => Below(Cardinality(A), max_concurrent[k])
    BY <2>2, <2>3, <2>4 DEF Below, Limit
  <2>. QED BY <2>5 DEF A
<1>7. ASSUME NEW s \in SubjectsOf[k]
      PROVE  /\ Below(Cardinality(RunningFor(s)), quota[s].jobs)
             /\ AtMost(GpusUsed(s) + r.gpus, quota[s].gpus)
  <2>. DEFINE A == RunningFor(s)
              B == RunningFor(s)'
  <2>1. A \subseteq B /\ B \subseteq Jobs
    BY <1>0 DEF RunningFor, Running
  <2>2. Below(Cardinality(B), quota[s].jobs) /\ AtMost(GpusUsed(s)' + r.gpus, quota[s].gpus)
    BY <1>0 DEF Startable
  <2>3. s \in Subjects /\ quota[s].jobs \in Limit /\ quota[s].gpus \in Limit
    BY JobAttributesAssumption DEF TypeOK, QuotaLimits
  <2>. HIDE DEF A, B
  <2>4. Cardinality(A) \in Nat /\ Cardinality(B) \in Nat /\ Cardinality(A) <= Cardinality(B)
    BY <1>5, <2>1
  <2>5. Below(Cardinality(A), quota[s].jobs)
    BY <2>2, <2>3, <2>4 DEF Below, Limit
  <2>6. AtMost(GpusUsed(s) + r.gpus, quota[s].gpus)
    BY <1>1, <1>2, <2>2, <2>3 DEF AtMost, Limit
  <2>. QED BY <2>5, <2>6 DEF A
<1>8. Cardinality(FreeFor(r)) >= r.gpus
  <2>1. ASSUME NEW g \in Gpus, RoomOn(g, r)' PROVE RoomOn(g, r)
    <3>1. HoldersOf(g, "Exclusive") = {} /\ (r.mode # "Shared" => HoldersOf(g, "Shared") = {})
      BY <1>0, <2>1 DEF RoomOn
    <3>2. ASSUME r.mode = "Shared", r.gpu_mem # NoLimit
          PROVE  AtMost(SharedMemoryOn(g) + r.gpu_mem, GpuMemory[g])
      <4>1. AtMost(SharedMemoryOn(g)' + r.gpu_mem, GpuMemory[g])
        BY <1>0, <2>1, <3>2 DEF RoomOn
      <4>2. r.gpu_mem \in Nat
        BY <1>1, <3>2 DEF Limit
      <4>. QED BY <1>2, <4>1, <4>2 DEF AtMost, Limit
    <3>. QED BY <3>1, <3>2 DEF RoomOn
  <2>2. {g \in Gpus : g \in allowed /\ slot_available[g] /\ RoomOn(g, r)'} \subseteq FreeFor(r)
    BY <2>1 DEF FreeFor
  <2>. DEFINE F == {g \in Gpus : g \in allowed /\ slot_available[g] /\ RoomOn(g, r)'}
  <2>3. Cardinality(F) >= r.gpus
    BY <1>0 DEF Startable, RoomOn
  <2>4. IsFiniteSet(FreeFor(r))
    BY JobsAssumption, FS_Subset DEF FreeFor
  <2>5. F \subseteq FreeFor(r)
    BY <2>2
  <2>. HIDE DEF F
  <2>6. Cardinality(F) <= Cardinality(FreeFor(r)) /\ IsFiniteSet(F)
    BY <2>4, <2>5, FS_Subset
  <2>7. Cardinality(F) \in Nat /\ Cardinality(FreeFor(r)) \in Nat
    BY <2>4, <2>6, FS_CardinalityType
  <2>. QED BY <1>1, <2>3, <2>6, <2>7
<1>. QED BY <1>3, <1>4, <1>6, <1>7, <1>8 DEF Startable, FreeFor

(* Every step of the pass keeps what was put back unstartable.  *)
LEMMA PassedOverStep ==
    ASSUME TypeOK, TypeOK', PassListSound, OccupancyExact, MemoryExact, AvailableExact,
           GroupIndexExact, QuotaIndexExact, PassedOver, [Next]_vars
    PROVE  PassedOver'
<1>. SUFFICES ASSUME passing', NEW k \in ready', Startable(k)' PROVE FALSE
  BY DEF PassedOver
<1>. USE DEF jobVars, heapVars, indexVars, machineVars, passVars
<1>0. k \in Jobs
  BY DEF TypeOK
<1>1. ASSUME NEW j \in Jobs, StartJob(j) PROVE FALSE
  <2>1. k \in ready /\ passing
    BY <1>1 DEF StartJob
  <2>2. Startable(k)
    BY <1>0, <1>1, StartsOnlyTake
  <2>. QED BY <2>1, <2>2 DEF PassedOver
<1>2. ASSUME NEW j \in Jobs, Requeue(j) PROVE FALSE
  <2>1. UNCHANGED <<state, request, gpu_ids, max_concurrent, quota, allowed, slot_available>>
    BY <1>2 DEF Requeue
  <2>2. Startable(k)
    BY <1>0, <2>1, SameRoom
  <2>3. passing /\ ready' = ready \cup {j} /\ ~MayStart(j)
    BY <1>2 DEF Requeue, Push
  <2>4. k # j
    BY <1>0, <2>2, <2>3, StartableMayStart
  <2>. QED BY <2>2, <2>3, <2>4 DEF PassedOver
<1>3. CASE StartPass
  BY <1>3 DEF StartPass
<1>4. CASE UNCHANGED vars
  <2>1. UNCHANGED <<state, request, gpu_ids, max_concurrent, quota, allowed, slot_available,
                    ready, passing>>
    BY <1>4 DEF vars
  <2>2. Startable(k)
    BY <1>0, <2>1, SameRoom
  <2>. QED BY <2>1, <2>2 DEF PassedOver
<1>. QED BY <1>1, <1>2, <1>3, <1>4, InPass

-----------------------------------------------------------------------------
(* The inductive invariant.  Isolation is not inductive alone: the pass decides
   from excl and shared, so these must equal the real occupancy (OccupancyExact),
   which in turn needs every job of the pass's list to be still Queued
   (PassListSound), for a job that already ran would be counted twice.  That the
   memory it gives out is there needs MemoryExact in the same way.  That the drain
   of the heap loses no job but those of lowered key needs HeapSound.  That a job put
   back cannot start needs all of it: a check fails in the code on the snapshots
   and the indexes, and Startable recounts.  *)
IInv == /\ TypeOK
        /\ PassListSound
        /\ HeapSound
        /\ NoJobForgotten
        /\ OccupancyExact
        /\ MemoryExact
        /\ AvailableExact
        /\ ExclusiveIsolation
        /\ HostMemoryFits
        /\ SharedMemoryFits
        /\ GroupIndexExact
        /\ QuotaIndexExact
        /\ PassedOver

(* The invariant holds at the start ...  *)
LEMMA InitIInv == Init => IInv
<1>. SUFFICES ASSUME Init PROVE IInv
  OBVIOUS
<1>0. TypeOK
  BY InitType
<1>1. Running = {}
  BY DEF Init, Running
<1>2. /\ \A G : RunningIn(G) = {}
      /\ \A s : RunningFor(s) = {}
      /\ \A g, m : HoldersOf(g, m) = {}
  BY <1>1 DEF RunningIn, RunningFor, HoldersOf
<1>3. /\ HostUsed = 0
      /\ \A g \in Gpus : SharedMemoryOn(g) = 0
      /\ \A s \in Subjects : GpusUsed(s) = 0
  BY <1>0, <1>1, <1>2, SumsTotal, TotalEmpty DEF SumsAreTotals
<1>4. GroupIndexExact /\ QuotaIndexExact
  BY <1>2, <1>3, FS_EmptySet DEF Init, GroupIndexExact, QuotaIndexExact
<1>5. HostMemoryFits /\ SharedMemoryFits
  BY <1>3, MachineAssumption DEF HostMemoryFits, SharedMemoryFits, AtMost, Limit
<1>6. ~passing
  BY DEF Init
<1>7. OccupancyExact /\ MemoryExact /\ AvailableExact /\ PassedOver
  BY <1>6 DEF OccupancyExact, MemoryExact, AvailableExact, PassedOver
<1>8. PassListSound /\ NoJobForgotten /\ ExclusiveIsolation
  BY <1>1 DEF Init, PassListSound, NoJobForgotten, ExclusiveIsolation
<1>9. HeapSound
  BY <1>0, KeyOrder DEF HeapSound, Hidden, Init, TypeOK
<1>. QED
  BY <1>0, <1>4, <1>5, <1>7, <1>8, <1>9 DEF IInv

(* ... and every step keeps it ...  *)
LEMMA NextIInv == IInv /\ [Next]_vars => IInv'
<1>. SUFFICES ASSUME IInv, [Next]_vars PROVE IInv'
  OBVIOUS
<1>1. TypeOK'
  BY NextType DEF IInv
<1>2. PassListSound' /\ HeapSound' /\ NoJobForgotten' /\ OccupancyExact' /\ ExclusiveIsolation'
        /\ GroupIndexExact'
  BY ListStep, HeapSoundStep, ForgottenStep, OccupancyStep, IsolationStep, GroupIndexStep DEF IInv
<1>3. MemoryExact' /\ HostMemoryFits' /\ SharedMemoryFits' /\ QuotaIndexExact'
  BY <1>1, MemoryStep, FitsStep, QuotaIndexStep DEF IInv
<1>4. AvailableExact' /\ PassedOver'
  BY <1>1, AvailableStep, PassedOverStep DEF IInv
<1>. QED BY <1>1, <1>2, <1>3, <1>4 DEF IInv

(* ... so it holds always.  *)
LEMMA Inductive == Spec => []IInv
BY InitIInv, NextIInv, PTL DEF Spec

(* No two running jobs ever hold a common GPU unless both share it.  *)
THEOREM Isolation == Spec => []ExclusiveIsolation
<1>1. IInv => ExclusiveIsolation
  BY DEF IInv
<1>. QED BY <1>1, Inductive, PTL

(* No queued job is lost but one whose key an update has lowered: every other has a valid
   entry on the heap or is in the pass's list, whatever outdated entries the heap still
   has of it.  *)
THEOREM NothingForgotten == Spec => []NoJobForgotten
<1>1. IInv => NoJobForgotten
  BY DEF IInv
<1>. QED BY <1>1, Inductive, PTL

(* group_running_count always equals the number of running jobs of the group. *)
THEOREM GroupIndexCorrect == Spec => []GroupIndexExact
<1>1. IInv => GroupIndexExact
  BY DEF IInv
<1>. QED BY <1>1, Inductive, PTL

(* The jobs a pass still has to consider are Queued and listed once, so the
   transition to Running is never refused and nothing is rolled back.  *)
THEOREM PassListCorrect == Spec => []PassListSound
<1>1. IInv => PassListSound
  BY DEF IInv
<1>. QED BY <1>1, Inductive, PTL

(* During a pass the occupancy and the memory it decides from equal a recount of the
   running jobs, and always what was promised of each GPU's memory and of the host's
   is there, however jobs were started, updated, ended and failed before.  *)
THEOREM Accounting == Spec => []AccountingExact
<1>1. IInv => AccountingExact
  BY DEF IInv, AccountingExact, SnapshotExact
<1>. QED BY <1>1, Inductive, PTL

-----------------------------------------------------------------------------
(* A job that starts is the first of a running pass that checked it.  *)
LEMMA OnlyPassStarts ==
    ASSUME IInv, [Next]_vars, NEW j \in Jobs, Starts(j)
    PROVE  StartJob(j)
<1>1. PICK k \in Jobs : StartJob(k)
  <2>1. SUFFICES ASSUME KeepsRunning PROVE FALSE
    BY StepsKeepRunning DEF IInv
  <2>. QED BY <2>1 DEF KeepsRunning, Starts, Running
<1>2. k = j
  BY <1>1, StartAddsHolder DEF IInv, Starts, TypeOK
<1>. QED BY <1>1, <1>2

(* A start respects the group's limit, for the group index the pass reads is
   exact.  *)
LEMMA GroupLimitStep == IInv /\ [Next]_vars => StartedWithinGroupLimit
<1>. SUFFICES ASSUME IInv, [Next]_vars, NEW j \in Jobs, Starts(j),
                     GroupOf[j] # NoGroup
              PROVE  AtMost(Cardinality(RunningIn(GroupOf[j])'), max_concurrent[j])
  BY DEF StartedWithinGroupLimit
<1>. DEFINE G == GroupOf[j]
<1>1. StartJob(j)
  BY OnlyPassStarts
<1>3. G \in Groups /\ Below(group_running_count[G], max_concurrent[j])
  BY <1>1, JobAttributesAssumption DEF StartJob, MayStart, WithinGroupLimit
<1>4. group_running_count'[G] = group_running_count[G] + 1
  BY <1>1, <1>3, JobsAssumption
     DEF StartJob, Transition, GroupCountEntering, IInv, TypeOK
<1>5. group_running_count'[G] = Cardinality(RunningIn(G)')
  BY <1>3, NextIInv DEF IInv, GroupIndexExact
<1>6. group_running_count[G] \in Nat
  BY <1>3 DEF IInv, TypeOK
<1>7. max_concurrent[j] \in Limit
  BY RequestAssumption DEF IInv, TypeOK
<1>. QED
  BY <1>3, <1>4, <1>5, <1>6, <1>7 DEF AtMost, Below, Limit

(* No step starts a job of a group that already runs max_concurrent jobs. *)
THEOREM GroupLimitRespected == Spec => [][StartedWithinGroupLimit]_vars
BY Inductive, GroupLimitStep, PTL DEF Spec

(* A start respects the quotas, for the index the pass reads is exact.  *)
LEMMA QuotaStep == IInv /\ [Next]_vars => StartedWithinQuota
<1>. SUFFICES ASSUME IInv, [Next]_vars, NEW j \in Jobs, Starts(j), NEW s \in SubjectsOf[j]
              PROVE  /\ AtMost(Cardinality(RunningFor(s)'), quota[s].jobs)
                     /\ AtMost(GpusUsed(s)', quota[s].gpus)
  BY DEF StartedWithinQuota
<1>1. StartJob(j)
  BY OnlyPassStarts
<1>2. s \in Subjects
  BY JobAttributesAssumption
<1>3. /\ Below(quota_usage[s].jobs, quota[s].jobs)
      /\ AtMost(quota_usage[s].gpus + request[j].gpus, quota[s].gpus)
  BY <1>1 DEF StartJob, MayStart, WithinQuota
<1>4. quota_usage'[s] = [jobs |-> quota_usage[s].jobs + 1,
                         gpus |-> quota_usage[s].gpus + request[j].gpus]
  BY <1>1, <1>2 DEF StartJob, Transition, RecordRunning
<1>5. quota_usage'[s] = [jobs |-> Cardinality(RunningFor(s)'), gpus |-> GpusUsed(s)']
  BY <1>2, NextIInv DEF IInv, QuotaIndexExact
<1>6. quota_usage[s].jobs \in Nat /\ quota[s].jobs \in Limit
  BY <1>2 DEF IInv, TypeOK, QuotaLimits
<1>7. /\ Cardinality(RunningFor(s)') = quota_usage[s].jobs + 1
      /\ GpusUsed(s)' = quota_usage[s].gpus + request[j].gpus
  BY <1>4, <1>5
<1>. QED
  BY <1>3, <1>6, <1>7 DEF AtMost, Below, Limit

(* No step starts a job over the limit of its group, its user or its project, counted
   with the job and by a recount; and the quota index always equals one.  *)
THEOREM Limited == Spec => LimitsKept
<1>1. IInv => QuotaIndexExact
  BY DEF IInv
<1>2. IInv /\ [Next]_vars => StartedWithinGroupLimit /\ StartedWithinQuota
  BY GroupLimitStep, QuotaStep
<1>. QED BY <1>1, <1>2, Inductive, PTL DEF Spec, LimitsKept, StartsWithinLimits

-----------------------------------------------------------------------------
(* A job that could start is in the pass's list and not among those put back.  *)
LEMMA StartableIsListed ==
    ASSUME IInv, passing, NEW k \in Jobs, Startable(k), ~Lost(k)
    PROVE  k \in todo
BY DEF IInv, NoJobForgotten, PassedOver, Startable, Lost, Listed

(* Who comes before in the pass has no lower priority.  *)
LEMMA PriorityStep ==
    ASSUME IInv, [Next]_vars, NEW j \in Jobs, NEW k \in Jobs, Starts(j),
           key[k].priority > key[j].priority
    PROVE  ~Startable(k) \/ Lost(k)
<1>1. passing /\ First(j)
  BY OnlyPassStarts DEF StartJob
<1>2. key[j].priority \in Nat /\ key[k].priority \in Nat
  BY DEF IInv, TypeOK, Key
<1>3. k \notin todo
  BY <1>1, <1>2 DEF First, Before
<1>. QED BY <1>1, <1>3, StartableIsListed

(* The pass ends with its list empty.  *)
LEMMA ConservingStep ==
    ASSUME IInv, [Next]_vars, passing, ~passing', NEW k \in Jobs
    PROVE  ~Startable(k) \/ Lost(k)
<1>1. todo = {}
  BY DEF Next, Submit, Hold, Release, UpdateJob, Complete, Execute, ExecutionFails,
         SetGroupMaxConcurrency, SetQuota, SetAllowedGpus, RefreshGpuSlots, EndPass,
         StartPass, StartJob, Requeue, vars, passVars
<1>. QED BY <1>1, StartableIsListed

(* A pass starts no job over the head of one of higher priority that could start at
   that moment, and does not end while any queued job could, but for jobs that were lost
   when an update lowered their key.  *)
THEOREM InOrder == Spec => PassInOrder
<1>1. IInv /\ [Next]_vars =>
         \A j, k \in Jobs : 
             Starts(j) /\ key[k].priority > key[j].priority => ~Startable(k) \/ Lost(k)
  BY PriorityStep
<1>2. IInv /\ [Next]_vars => (passing /\ ~passing' => \A k \in Jobs : ~Startable(k) \/ Lost(k))
  BY ConservingStep
<1>3. Spec => NoPriorityInversion
  BY <1>1, Inductive, PTL DEF Spec, NoPriorityInversion
<1>4. Spec => PassWorkConserving
  BY <1>2, Inductive, PTL DEF Spec, PassWorkConserving
<1>. QED BY <1>3, <1>4 DEF PassInOrder

-----------------------------------------------------------------------------
(* The allocator implements GpuLease.  *)
USE DEF LeasePhase, LeaseMode, LeaseHeld

(* The leases start empty.  *)
LEMMA LeaseInit == Init => Lease!Init
<1>. SUFFICES ASSUME Init PROVE Lease!Init
  OBVIOUS
<1>1. \A j \in Jobs : request[j].mode \in {"Exclusive", "Shared"}
  BY InitType, RequestAssumption DEF TypeOK, Request
<1>2. \A j \in Jobs : state[j] = "Absent"
  BY DEF Init
<1>. QED
  BY <1>1, <1>2 DEF Lease!Init, Lease!Modes

(* A start is an acquisition: the snapshot the pass chose from admits j.  *)
LEMMA StartAcquires ==
    ASSUME IInv, NEW j \in Jobs, StartJob(j)
    PROVE  Lease!Acquire(j)
<1>1. PICK S \in SUBSET CompatibleGpus(request[j]) :
         /\ gpu_ids' = [gpu_ids EXCEPT ![j] = S]
         /\ state[j] = "Queued"
         /\ state' = [state EXCEPT ![j] = "Running"]
         /\ request' = request
  BY StartAddsHolder DEF IInv
<1>2. S \in SUBSET Gpus
  BY DEF CompatibleGpus, IInv, TypeOK
<1>3. ASSUME NEW g \in S PROVE Lease!Admits(g, LeaseMode[j])
  <2>1. SUFFICES ASSUME NEW k \in Lease!Holders(g)
                 PROVE  LeaseMode[j] = "Shared" /\ LeaseMode[k] = "Shared"
    BY DEF Lease!Admits
  <2>2. k \in Running /\ g \in gpu_ids[k]
    BY <2>1 DEF Lease!Holders, Running
  <2>. QED
    BY <2>1, <2>2, <1>3, NewHolderCompatible DEF IInv, Running
<1>4. LeaseHeld' = [LeaseHeld EXCEPT ![j] = S]
  BY <1>1 DEF IInv, TypeOK
<1>5. LeasePhase[j] = "waiting" /\ LeasePhase' = [LeasePhase EXCEPT ![j] = "leased"]
  BY <1>1 DEF IInv, TypeOK
<1>6. LeaseMode' = LeaseMode
  BY <1>1
<1>. QED
  BY <1>2, <1>3, <1>4, <1>5, <1>6 DEF Lease!Acquire

(* The end of a job ends its lease, if it has one.  *)
LEMMA OverEnds ==
    ASSUME TypeOK, NEW j \in Jobs, state[j] \in {"Queued", "Hold", "Running"},
           state' = [state EXCEPT ![j] = "Over"], request' = request,
           \A k \in Jobs \ {j} : gpu_ids'[k] = gpu_ids[k]
    PROVE  Lease!End(j)
<1>1. LeasePhase[j] # "over" /\ LeasePhase' = [LeasePhase EXCEPT ![j] = "over"]
  BY DEF TypeOK
<1>2. LeaseHeld' = [LeaseHeld EXCEPT ![j] = {}]
  BY DEF TypeOK
<1>. QED
  BY <1>1, <1>2 DEF Lease!End

(* Every step of the allocator is a step of the leases or none.  *)
LEMMA LeaseStep == IInv /\ [Next]_vars => [Lease!Next]_(Lease!vars)
<1>. SUFFICES ASSUME IInv, [Next]_vars PROVE Lease!Next \/ UNCHANGED Lease!vars
  OBVIOUS
<1>. USE DEF jobVars, heapVars, indexVars, machineVars, passVars
<1>1. ASSUME NEW j \in Jobs, StartJob(j) PROVE Lease!Next
  BY <1>1, StartAcquires DEF Lease!Next
<1>2. ASSUME NEW j \in Jobs, Complete(j) PROVE Lease!Next
  BY <1>2, TransitionType, OverEnds DEF Complete, Lease!Next, IInv
<1>3. ASSUME NEW j \in Jobs, ExecutionFails(j)
      PROVE  Lease!Next \/ UNCHANGED Lease!vars
  <2>1. gpu_ids' = [gpu_ids EXCEPT ![j] = {}] /\ request' = request
    BY <1>3 DEF ExecutionFails
  <2>2. CASE state[j] = "Running"
    <3>1. state' = [state EXCEPT ![j] = "Over"]
      BY <1>3, <2>2 DEF ExecutionFails, Transition
    <3>. QED BY <2>1, <2>2, <3>1, OverEnds DEF Lease!Next, IInv, TypeOK
  <2>3. CASE state[j] # "Running"
    <3>1. state' = state
      BY <1>3, <2>3 DEF ExecutionFails
    <3>2. LeaseHeld' = LeaseHeld /\ LeasePhase' = LeasePhase /\ LeaseMode' = LeaseMode
      BY <2>1, <2>3, <3>1 DEF IInv, TypeOK
    <3>. QED BY <3>2 DEF Lease!vars
  <2>. QED BY <2>2, <2>3
<1>4. ASSUME NEW j \in Jobs, Submit(j) PROVE Lease!Next
  <2>1. PICK r \in Requests : request' = [request EXCEPT ![j] = r]
    BY <1>4 DEF Submit
  <2>2. r.mode \in {"Exclusive", "Shared"}
    BY RequestAssumption DEF Request
  <2>3. LeaseMode' = [LeaseMode EXCEPT ![j] = r.mode]
    BY <2>1 DEF IInv, TypeOK
  <2>4. state[j] = "Absent" /\ state' = [state EXCEPT ![j] = "Queued"] /\ gpu_ids' = gpu_ids
    BY <1>4 DEF Submit
  <2>5. LeasePhase[j] = "waiting" /\ LeasePhase' = LeasePhase /\ LeaseHeld' = LeaseHeld
    BY <2>4 DEF IInv, TypeOK
  <2>. QED BY <2>2, <2>3, <2>5 DEF Lease!Next, Lease!Configure, Lease!Modes
<1>5. ASSUME NEW j \in Jobs, Hold(j) \/ Release(j) PROVE UNCHANGED Lease!vars
  <2>1. /\ state[j] \in {"Queued", "Hold"}
        /\ \E next \in {"Queued", "Hold"} : state' = [state EXCEPT ![j] = next]
        /\ request' = request /\ gpu_ids' = gpu_ids
    BY <1>5, TransitionType DEF Hold, Release, IInv
  <2>. QED BY <2>1 DEF Lease!vars, IInv, TypeOK
<1>6. ASSUME NEW j \in Jobs, UpdateJob(j) PROVE UNCHANGED Lease!vars
  <2>1. PICK r \in Requests : /\ r.mode = request[j].mode
                              /\ request' = [request EXCEPT ![j] = r]
    BY <1>6 DEF UpdateJob
  <2>2. LeaseMode' = LeaseMode
    BY <2>1 DEF IInv, TypeOK
  <2>. QED BY <1>6, <2>2 DEF UpdateJob, Lease!vars
<1>7. CASE UNCHANGED <<state, request, gpu_ids>>
  BY <1>7 DEF Lease!vars
<1>8. \/ \E j \in Jobs : \/ StartJob(j) \/ Complete(j) \/ ExecutionFails(j)
                         \/ Submit(j) \/ Hold(j) \/ Release(j) \/ UpdateJob(j)
      \/ UNCHANGED <<state, request, gpu_ids>>
  BY DEF Next, vars, Execute, Requeue, SetGroupMaxConcurrency, SetQuota,
         SetAllowedGpus, RefreshGpuSlots, StartPass, EndPass
<1>. QED
  BY <1>1, <1>2, <1>3, <1>4, <1>5, <1>6, <1>7, <1>8

(* Every behaviour of the allocator is, seen through gpu_ids of the running
   jobs, a behaviour of the abstract leases.  *)
THEOREM Refinement == Spec => ImplementsLease
<1>1. Spec => Lease!Spec
  BY LeaseInit, LeaseStep, Inductive, PTL DEF Spec, Lease!Spec
<1>. QED BY <1>1 DEF ImplementsLease
=============================================================================
