---------------------------- MODULE TotalsProofs ----------------------------
(***************************************************************************)
(* Facts about SumFunctionOnSet, the sum the models take over accounts,    *)
(* over transfers and over the events of a stream.                         *)
(*                                                                         *)
(* The sum is defined by recursion on the set, one chosen element after    *)
(* the other.  Each fact is proved by the least counterexample: among the  *)
(* subsets for which it fails one has no proper subset for which it fails. *)
(***************************************************************************)
EXTENDS Integers, Functions, FiniteSetTheorems, TLAPS

-----------------------------------------------------------------------------
(* The recursion behind the sum *)

Pick(s) == CHOOSE x \in s : TRUE

\* g maps every subset of S to its sum.
SumsUp(g, f, S) ==
  g = [s \in SUBSET S |-> IF s = {} THEN 0 ELSE f[Pick(s)] + g[s \ {Pick(s)}]]

\* A non-empty family of finite sets has a member no proper subset of which
\* is in the family.
LEMMA LeastSet ==
  ASSUME NEW S, IsFiniteSet(S), NEW Family, Family \subseteq SUBSET S, Family # {}
  PROVE  \E T \in Family : \A u \in SUBSET T : u # T => u \notin Family
<1>1. /\ IsWellFoundedOn(StrictSubsetOrdering(S), SUBSET S)
  BY FS_StrictSubsetOrderingWellFounded, FS_FiniteSubsetsOfFinite
<1>2. PICK T \in Family :
        \A y \in Family : ~(<<y, T>> \in StrictSubsetOrdering(S))
  BY <1>1, WFMin
<1>3. ASSUME NEW u \in SUBSET T, u # T PROVE u \notin Family
  BY <1>2, <1>3 DEF StrictSubsetOrdering
<1>4. QED
  BY <1>3

LEMMA SumIsIterated ==
  ASSUME NEW f, NEW S
  PROVE  SumFunctionOnSet(f, S) = (CHOOSE g : SumsUp(g, f, S))[S]
BY DEF SumFunctionOnSet, FoldFunctionOnSet, MapThenFoldSet, SumsUp, Pick

LEMMA PickIsMember ==
  \A s : s # {} => Pick(s) \in s
BY DEF Pick

LEMMA SmallerWithoutPick ==
  ASSUME NEW s, s # {}
  PROVE  /\ s \ {Pick(s)} \in SUBSET s
         /\ s \ {Pick(s)} # s
BY PickIsMember

\* What SumsUp says of one subset.
LEMMA SumsUpAt ==
  ASSUME NEW g, NEW f, NEW S, SumsUp(g, f, S), NEW s \in SUBSET S
  PROVE  g[s] = IF s = {} THEN 0 ELSE f[Pick(s)] + g[s \ {Pick(s)}]
<1> DEFINE body(h) == [z \in SUBSET S |->
                        IF z = {} THEN 0 ELSE f[Pick(z)] + h[z \ {Pick(z)}]]
<1>1. g = body(g)
  BY DEF SumsUp
<1>2. body(g)[s] = IF s = {} THEN 0 ELSE f[Pick(s)] + g[s \ {Pick(s)}]
  OBVIOUS
<1>3. QED
  BY <1>1, <1>2

\* Two such functions agree wherever both are defined.
LEMMA SumsUpAgree ==
  ASSUME NEW f, NEW S, IsFiniteSet(S), NEW T, NEW g, NEW h,
         SumsUp(g, f, S), SumsUp(h, f, T)
  PROVE  \A s \in SUBSET (S \cap T) : g[s] = h[s]
<1> DEFINE Differ == {s \in SUBSET S : s \subseteq T /\ g[s] # h[s]}
<1>1. CASE Differ = {}
  BY <1>1
<1>2. CASE Differ # {}
  <2>1. PICK s \in Differ : \A u \in SUBSET s : u # s => u \notin Differ
    <3> HIDE DEF Differ
    <3>1. Differ \subseteq SUBSET S
      BY DEF Differ
    <3>2. QED
      BY <1>2, <3>1, LeastSet
  <2>2. s \in SUBSET S /\ s \in SUBSET T
    OBVIOUS
  <2>3. /\ g[s] = IF s = {} THEN 0 ELSE f[Pick(s)] + g[s \ {Pick(s)}]
        /\ h[s] = IF s = {} THEN 0 ELSE f[Pick(s)] + h[s \ {Pick(s)}]
    BY <2>2, SumsUpAt
  <2>4. s # {}
    BY <2>3
  <2>5. g[s \ {Pick(s)}] = h[s \ {Pick(s)}]
    BY <2>1, <2>2, <2>4, SmallerWithoutPick
  <2>6. QED
    BY <2>3, <2>5
<1>3. QED
  BY <1>1, <1>2

\* A finite set has such a function: the values of those of the smaller sets.
LEMMA SumsUpExists ==
  ASSUME NEW f, NEW S, IsFiniteSet(S)
  PROVE  \E g : SumsUp(g, f, S)
<1> DEFINE Lacking == {T \in SUBSET S : ~ \E g : SumsUp(g, f, T)}
<1>1. CASE Lacking = {}
  BY <1>1
<1>2. CASE Lacking # {}
  <2>1. PICK T \in Lacking : \A u \in SUBSET T : u # T => u \notin Lacking
    <3> HIDE DEF Lacking
    <3>1. Lacking \subseteq SUBSET S
      BY DEF Lacking
    <3>2. QED
      BY <1>2, <3>1, LeastSet
  <2> DEFINE chosen(u) == CHOOSE g : SumsUp(g, f, u)
             value(u) == chosen(u)[u]
  <2>2. ASSUME NEW u \in SUBSET T, u # T
        PROVE  SumsUp(chosen(u), f, u) /\ IsFiniteSet(u)
    <3>1. \E g : SumsUp(g, f, u)
      BY <2>1, <2>2
    <3>2. IsFiniteSet(u)
      BY FS_Subset
    <3>3. QED
      BY <3>1, <3>2
  <2> HIDE DEF chosen
  <2>3. ASSUME NEW u \in SUBSET T, u # T
        PROVE  value(u) = IF u = {} THEN 0 ELSE f[Pick(u)] + value(u \ {Pick(u)})
    <3>1. value(u) = IF u = {} THEN 0
                     ELSE f[Pick(u)] + chosen(u)[u \ {Pick(u)}]
      BY <2>2, <2>3, SumsUpAt
    <3>2. CASE u = {}
      BY <3>1, <3>2
    <3>3. CASE u # {}
      <4> DEFINE v == u \ {Pick(u)}
      <4>1. v \in SUBSET u /\ v \in SUBSET T /\ v # T
        BY <3>3, SmallerWithoutPick
      <4>2. /\ SumsUp(chosen(v), f, v) /\ IsFiniteSet(v)
            /\ SumsUp(chosen(u), f, u) /\ IsFiniteSet(u)
        BY <2>2, <2>3, <4>1
      <4>3. chosen(u)[v] = chosen(v)[v]
        BY <4>1, <4>2, SumsUpAgree
      <4>4. QED
        BY <3>1, <3>3, <4>3
    <3>4. QED
      BY <3>2, <3>3
  <2> HIDE DEF value
  <2> DEFINE total(s) == IF s = {} THEN 0 ELSE f[Pick(s)] + value(s \ {Pick(s)})
             g == [s \in SUBSET T |-> total(s)]
  <2>4. ASSUME NEW s \in SUBSET T, s # {}
        PROVE  g[s \ {Pick(s)}] = value(s \ {Pick(s)})
    <3> DEFINE u == s \ {Pick(s)}
    <3>1. u \in SUBSET T /\ u # T
      BY <2>4, SmallerWithoutPick
    <3>2. g[u] = total(u)
      BY <3>1
    <3>3. QED
      BY <2>3, <3>1, <3>2
  <2>5. ASSUME NEW s \in SUBSET T
        PROVE  total(s) = IF s = {} THEN 0 ELSE f[Pick(s)] + g[s \ {Pick(s)}]
    BY <2>4
  <2> HIDE DEF total
  <2>6. SumsUp(g, f, T)
    BY <2>5 DEF SumsUp
  <2>7. QED
    BY <2>6
<1>3. QED
  BY <1>1, <1>2

-----------------------------------------------------------------------------
(* Sums over finite sets *)

LEMMA SumStep ==
  ASSUME NEW f, NEW S, IsFiniteSet(S)
  PROVE  /\ S = {} => SumFunctionOnSet(f, S) = 0
         /\ S # {} => SumFunctionOnSet(f, S)
                       = f[Pick(S)] + SumFunctionOnSet(f, S \ {Pick(S)})
<1> DEFINE chosen(u) == CHOOSE g : SumsUp(g, f, u)
<1>1. ASSUME NEW u, IsFiniteSet(u)
      PROVE  SumsUp(chosen(u), f, u) /\ SumFunctionOnSet(f, u) = chosen(u)[u]
  <2>1. \E g : SumsUp(g, f, u)
    BY <1>1, SumsUpExists
  <2>2. QED
    BY <2>1, SumIsIterated
<1> HIDE DEF chosen
<1>2. chosen(S)[S] = IF S = {} THEN 0 ELSE f[Pick(S)] + chosen(S)[S \ {Pick(S)}]
  BY <1>1, SumsUpAt
<1>3. CASE S = {}
  BY <1>1, <1>2, <1>3
<1>4. CASE S # {}
  <2> DEFINE u == S \ {Pick(S)}
  <2>1. u \in SUBSET S /\ u \in SUBSET (S \cap u) /\ IsFiniteSet(u)
    BY FS_Subset
  <2>2. SumsUp(chosen(S), f, S) /\ SumsUp(chosen(u), f, u)
    BY <1>1, <2>1
  <2> HIDE DEF u
  <2>3. chosen(S)[u] = chosen(u)[u]
    BY <2>1, <2>2, SumsUpAgree
  <2>4. QED
    BY <1>1, <1>2, <1>4, <2>1, <2>3 DEF u
<1>5. QED
  BY <1>3, <1>4

\* The sum over nothing is 0.
LEMMA SumOfNone ==
  ASSUME NEW f
  PROVE  SumFunctionOnSet(f, {}) = 0
BY SumStep, FS_EmptySet

\* A sum of integers is an integer.
LEMMA SumIsInt ==
  ASSUME NEW f, NEW S, IsFiniteSet(S), \A x \in S : f[x] \in Int
  PROVE  SumFunctionOnSet(f, S) \in Int
<1> DEFINE Wrong == {T \in SUBSET S : SumFunctionOnSet(f, T) \notin Int}
<1>1. CASE Wrong = {}
  BY <1>1
<1>2. CASE Wrong # {}
  <2>1. PICK T \in Wrong : \A u \in SUBSET T : u # T => u \notin Wrong
    <3> HIDE DEF Wrong
    <3>1. Wrong \subseteq SUBSET S
      BY DEF Wrong
    <3>2. QED
      BY <1>2, <3>1, LeastSet
  <2>2. IsFiniteSet(T)
    BY FS_Subset
  <2>3. T # {}
    BY SumOfNone
  <2>4. SumFunctionOnSet(f, T \ {Pick(T)}) \in Int
    BY <2>1, <2>3, SmallerWithoutPick
  <2>5. f[Pick(T)] \in Int
    BY <2>3, PickIsMember
  <2>6. QED
    BY <2>2, <2>3, <2>4, <2>5, SumStep
<1>3. QED
  BY <1>1, <1>2

\* Whichever element is taken out of the set first.
LEMMA SumWithoutOne ==
  ASSUME NEW f, NEW S, IsFiniteSet(S), \A x \in S : f[x] \in Int, NEW x \in S
  PROVE  SumFunctionOnSet(f, S) = f[x] + SumFunctionOnSet(f, S \ {x})
<1> DEFINE Sum(T) == SumFunctionOnSet(f, T)
           Wrong == {T \in SUBSET S : \E y \in T : Sum(T) # f[y] + Sum(T \ {y})}
<1>1. CASE Wrong = {}
  BY <1>1
<1>2. CASE Wrong # {}
  <2>1. PICK T \in Wrong : \A u \in SUBSET T : u # T => u \notin Wrong
    <3> HIDE DEF Wrong
    <3>1. Wrong \subseteq SUBSET S
      BY DEF Wrong
    <3>2. QED
      BY <1>2, <3>1, LeastSet
  <2>2. PICK y \in T : Sum(T) # f[y] + Sum(T \ {y})
    OBVIOUS
  <2> DEFINE c == Pick(T)
  <2>3. /\ T \subseteq S
        /\ IsFiniteSet(T) /\ IsFiniteSet(T \ {y}) /\ IsFiniteSet(T \ {c})
        /\ IsFiniteSet(T \ {c, y})
    BY FS_Subset
  <2>4. c \in T
    BY PickIsMember
  <2>5. Sum(T) = f[c] + Sum(T \ {c})
    BY <2>3, SumStep
  <2>6. c # y
    BY <2>2, <2>5
  <2>7. /\ T \ {c} \notin Wrong /\ T \ {c} \in SUBSET S /\ y \in T \ {c}
        /\ T \ {y} \notin Wrong /\ T \ {y} \in SUBSET S /\ c \in T \ {y}
    <3> HIDE DEF Wrong
    <3>1. QED
      BY <2>1, <2>3, <2>4, <2>6
  <2> HIDE DEF c
  <2>8. /\ Sum(T \ {c}) = f[y] + Sum((T \ {c}) \ {y})
        /\ Sum(T \ {y}) = f[c] + Sum((T \ {y}) \ {c})
    <3> HIDE DEF Sum
    <3>1. QED
      BY <2>7
  <2>9. /\ Sum((T \ {c}) \ {y}) = Sum(T \ {c, y})
        /\ Sum((T \ {y}) \ {c}) = Sum(T \ {c, y})
    <3> HIDE DEF Sum
    <3>1. (T \ {c}) \ {y} = T \ {c, y} /\ (T \ {y}) \ {c} = T \ {c, y}
      OBVIOUS
    <3>2. QED
      BY <3>1
  <2>10. Sum(T \ {c, y}) \in Int /\ f[c] \in Int /\ f[y] \in Int
    BY <2>3, <2>4, SumIsInt
  <2>11. Sum(T) = f[y] + Sum(T \ {y})
    <3> HIDE DEF Sum
    <3>1. QED
      BY <2>5, <2>8, <2>9, <2>10
  <2>12. QED
    BY <2>2, <2>11
<1>3. QED
  BY <1>1, <1>2

\* One more element.
LEMMA SumWithOneMore ==
  ASSUME NEW f, NEW S, IsFiniteSet(S), NEW x, x \notin S,
         \A y \in S \cup {x} : f[y] \in Int
  PROVE  SumFunctionOnSet(f, S \cup {x}) = SumFunctionOnSet(f, S) + f[x]
<1>1. IsFiniteSet(S \cup {x})
  BY FS_AddElement
<1>2. SumFunctionOnSet(f, S \cup {x})
        = f[x] + SumFunctionOnSet(f, (S \cup {x}) \ {x})
  BY <1>1, SumWithoutOne
<1>3. SumFunctionOnSet(f, (S \cup {x}) \ {x}) = SumFunctionOnSet(f, S)
  <2>1. (S \cup {x}) \ {x} = S
    OBVIOUS
  <2>2. QED
    BY <2>1
<1>4. SumFunctionOnSet(f, S) \in Int /\ f[x] \in Int
  BY SumIsInt
<1>5. QED
  BY <1>2, <1>3, <1>4

\* Only the values on the set matter.
LEMMA SumOfEquals ==
  ASSUME NEW f, NEW g, NEW S, IsFiniteSet(S), \A x \in S : f[x] = g[x]
  PROVE  SumFunctionOnSet(f, S) = SumFunctionOnSet(g, S)
<1> DEFINE Wrong == {T \in SUBSET S : SumFunctionOnSet(f, T) # SumFunctionOnSet(g, T)}
<1>1. CASE Wrong = {}
  BY <1>1
<1>2. CASE Wrong # {}
  <2>1. PICK T \in Wrong : \A u \in SUBSET T : u # T => u \notin Wrong
    <3> HIDE DEF Wrong
    <3>1. Wrong \subseteq SUBSET S
      BY DEF Wrong
    <3>2. QED
      BY <1>2, <3>1, LeastSet
  <2>2. IsFiniteSet(T)
    BY FS_Subset
  <2>3. T # {}
    BY SumOfNone
  <2>4. SumFunctionOnSet(f, T \ {Pick(T)}) = SumFunctionOnSet(g, T \ {Pick(T)})
    BY <2>1, <2>3, SmallerWithoutPick
  <2>5. f[Pick(T)] = g[Pick(T)]
    BY <2>3, PickIsMember
  <2>6. QED
    BY <2>2, <2>3, <2>4, <2>5, SumStep
<1>3. QED
  BY <1>1, <1>2

\* One element has another value.
LEMMA SumWithOneChanged ==
  ASSUME NEW f, NEW g, NEW S, IsFiniteSet(S), NEW x \in S,
         \A y \in S : f[y] \in Int /\ g[y] \in Int,
         \A y \in S \ {x} : f[y] = g[y]
  PROVE  SumFunctionOnSet(g, S) = SumFunctionOnSet(f, S) + (g[x] - f[x])
<1>1. IsFiniteSet(S \ {x})
  BY FS_Subset
<1>2. SumFunctionOnSet(g, S \ {x}) = SumFunctionOnSet(f, S \ {x})
  BY <1>1, SumOfEquals
<1>3. /\ SumFunctionOnSet(g, S) = g[x] + SumFunctionOnSet(g, S \ {x})
      /\ SumFunctionOnSet(f, S) = f[x] + SumFunctionOnSet(f, S \ {x})
  BY SumWithoutOne
<1>4. SumFunctionOnSet(f, S \ {x}) \in Int
  BY <1>1, SumIsInt
<1>5. QED
  BY <1>2, <1>3, <1>4

\* What one element gives another takes.
LEMMA SumWithOneMoved ==
  ASSUME NEW f, NEW g, NEW S, IsFiniteSet(S), NEW x \in S, NEW z \in S, x # z,
         NEW n \in Int,
         \A y \in S : f[y] \in Int /\ g[y] \in Int,
         \A y \in S \ {x, z} : g[y] = f[y],
         g[x] = f[x] - n, g[z] = f[z] + n
  PROVE  SumFunctionOnSet(g, S) = SumFunctionOnSet(f, S)
<1> DEFINE h == [y \in S |-> IF y = x THEN g[x] ELSE f[y]]
<1>1. /\ \A y \in S : h[y] \in Int
      /\ \A y \in S \ {x} : f[y] = h[y]
      /\ \A y \in S \ {z} : h[y] = g[y]
      /\ h[x] = f[x] - n /\ h[z] = f[z]
  OBVIOUS
<1> HIDE DEF h
<1>2. SumFunctionOnSet(h, S) = SumFunctionOnSet(f, S) + (h[x] - f[x])
  BY <1>1, SumWithOneChanged
<1>3. SumFunctionOnSet(g, S) = SumFunctionOnSet(h, S) + (g[z] - h[z])
  BY <1>1, SumWithOneChanged
<1>4. SumFunctionOnSet(f, S) \in Int
  BY SumIsInt
<1>5. QED
  BY <1>1, <1>2, <1>3, <1>4

-----------------------------------------------------------------------------
(* Sums of functions *)

LEMMA SumOverDomain ==
  ASSUME NEW f
  PROVE  SumFunction(f) = SumFunctionOnSet(f, DOMAIN f)
BY DEF SumFunction

LEMMA TotalIsInt ==
  ASSUME NEW f, IsFiniteSet(DOMAIN f), \A x \in DOMAIN f : f[x] \in Int
  PROVE  SumFunction(f) \in Int
BY SumIsInt, SumOverDomain

\* A sum over nothing is 0.
LEMMA TotalOfNone ==
  ASSUME NEW f, DOMAIN f = {}
  PROVE  SumFunction(f) = 0
<1>1. SumFunction(f) = SumFunctionOnSet(f, {})
  BY SumOverDomain
<1>2. QED
  BY <1>1, SumOfNone

\* The domain has one more element.
LEMMA TotalWithOneMore ==
  ASSUME NEW f, NEW g, NEW S, IsFiniteSet(S), NEW x, x \notin S,
         DOMAIN f = S, DOMAIN g = S \cup {x},
         \A y \in S : g[y] = f[y],
         \A y \in S \cup {x} : g[y] \in Int
  PROVE  SumFunction(g) = SumFunction(f) + g[x]
<1>1. SumFunctionOnSet(g, S \cup {x}) = SumFunctionOnSet(g, S) + g[x]
  BY SumWithOneMore
<1>2. SumFunctionOnSet(g, S) = SumFunctionOnSet(f, S)
  BY SumOfEquals
<1>3. /\ SumFunction(f) = SumFunctionOnSet(f, S)
      /\ SumFunction(g) = SumFunctionOnSet(g, S \cup {x})
  <2>1. /\ SumFunction(f) = SumFunctionOnSet(f, DOMAIN f)
        /\ SumFunction(g) = SumFunctionOnSet(g, DOMAIN g)
    BY SumOverDomain
  <2>2. QED
    BY <2>1
<1>4. QED
  BY <1>1, <1>2, <1>3

\* One element less.
LEMMA TotalWithOneLess ==
  ASSUME NEW f, NEW g, NEW S, IsFiniteSet(S), NEW x \in S,
         DOMAIN f = S, DOMAIN g = S \ {x},
         \A y \in S \ {x} : g[y] = f[y],
         \A y \in S : f[y] \in Int
  PROVE  SumFunction(g) = SumFunction(f) - f[x]
<1> DEFINE rest == S \ {x}
<1>1. /\ IsFiniteSet(rest) /\ x \notin rest
      /\ DOMAIN g = rest /\ DOMAIN f = rest \cup {x}
      /\ \A y \in rest : f[y] = g[y]
      /\ \A y \in rest \cup {x} : f[y] \in Int
      /\ \A y \in rest : g[y] \in Int
  BY FS_Subset
<1> HIDE DEF rest
<1>2. SumFunction(f) = SumFunction(g) + f[x]
  BY <1>1, TotalWithOneMore
<1>3. SumFunction(g) \in Int /\ f[x] \in Int
  BY <1>1, TotalIsInt
<1>4. QED
  BY <1>2, <1>3

\* One element gives what another takes.
LEMMA TotalWithOneMoved ==
  ASSUME NEW f, NEW g, NEW S, IsFiniteSet(S), NEW x \in S, NEW z \in S, x # z,
         NEW n \in Int, DOMAIN f = S, DOMAIN g = S,
         \A y \in S : f[y] \in Int /\ g[y] \in Int,
         \A y \in S \ {x, z} : g[y] = f[y],
         g[x] = f[x] - n, g[z] = f[z] + n
  PROVE  SumFunction(g) = SumFunction(f)
<1>1. SumFunctionOnSet(g, S) = SumFunctionOnSet(f, S)
  BY SumWithOneMoved
<1>2. /\ SumFunction(f) = SumFunctionOnSet(f, DOMAIN f)
      /\ SumFunction(g) = SumFunctionOnSet(g, DOMAIN g)
  BY SumOverDomain
<1>3. QED
  BY <1>1, <1>2

\* The first n + 1 values of a sequence.
LEMMA TotalOfFirst ==
  ASSUME NEW f, NEW g, NEW n \in Nat, DOMAIN f = 1 .. n, DOMAIN g = 1 .. n + 1,
         \A v \in 1 .. n : g[v] = f[v], \A v \in 1 .. n + 1 : g[v] \in Int
  PROVE  SumFunction(g) = SumFunction(f) + g[n + 1]
<1> DEFINE first == 1 .. n
<1>1. /\ DOMAIN g = first \cup {n + 1} /\ n + 1 \notin first
      /\ \A v \in first \cup {n + 1} : g[v] \in Int
  OBVIOUS
<1>2. DOMAIN f = first /\ \A v \in first : g[v] = f[v]
  OBVIOUS
<1>3. IsFiniteSet(first)
  BY FS_Interval
<1> HIDE DEF first
<1>4. QED
  BY <1>1, <1>2, <1>3, TotalWithOneMore

-----------------------------------------------------------------------------
(* The least number of a set *)

LEMMA LeastNumber ==
  ASSUME NEW N, N \subseteq Nat, N # {}
  PROVE  \E n \in N : \A m \in N : m >= n
<1>1. PICK k \in N : TRUE
  OBVIOUS
<1> DEFINE Family == {1 .. n : n \in {m \in N : m <= k}}
<1>2. Family \subseteq SUBSET (1 .. k) /\ Family # {} /\ IsFiniteSet(1 .. k)
  <2>1. IsFiniteSet(1 .. k)
    BY FS_Interval
  <2>2. 1 .. k \in Family
    OBVIOUS
  <2>3. Family \subseteq SUBSET (1 .. k)
    OBVIOUS
  <2>4. QED
    BY <2>1, <2>2, <2>3
<1>3. PICK T \in Family : \A u \in SUBSET T : u # T => u \notin Family
  <2> HIDE DEF Family
  <2>1. QED
    BY <1>2, LeastSet
<1>4. PICK n \in N : n <= k /\ T = 1 .. n
  OBVIOUS
<1>5. ASSUME NEW m \in N, m < n PROVE FALSE
  <2>1. 1 .. m \in SUBSET T /\ 1 .. m # T
    <3>1. n \in T /\ n \notin 1 .. m
      BY <1>4, <1>5
    <3>2. 1 .. m \subseteq T
      BY <1>4, <1>5
    <3>3. QED
      BY <3>1, <3>2
  <2>2. 1 .. m \in Family
    BY <1>4, <1>5
  <2>3. QED
    BY <1>3, <2>1, <2>2
<1>6. QED
  BY <1>5

=============================================================================
