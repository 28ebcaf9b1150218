-------------------------- MODULE OddEvenSortProofs -------------------------
(***************************************************************************)
(* What holds of OddEvenSort for arrays of any size and any integers.      *)
(***************************************************************************)
EXTENDS OddEvenSort, FunctionTheorems, FiniteSetTheorems, TLAPS

-----------------------------------------------------------------------------
(* The inductive invariant, in named parts.                                *)

TypeInv ==
  /\ TypeOK
  /\ main = "iterate" => iteration <= 2 * ARRAY_SIZE

\* The left indices of an iteration's pairs are every second one, so that no
\* two of them are neighbours.
Parity(l) == \E k \in Int : l = Debut + 2 * k

\* Which threads there are, by where main is: those below next in its first
\* loop, those from next on in its second.
PhaseInv ==
  /\ \A l \in Lefts : pc[l] # "none" => Parity(l) /\ main \in {"create", "join"}
  /\ main \in {"create", "join"} => Parity(next)
  /\ main = "create" => \A l \in Lefts : l >= next => pc[l] = "none"
  /\ main = "join" => \A l \in Lefts : l < next => pc[l] = "none"

\* What a thread that swaps knows of its cells.
SwapInv(l) ==
  /\ pc[l] = "left" => tmp[l] = arr[l] /\ arr[l] > arr[l + 1]
  /\ pc[l] \in {"left", "right"} => tmp[l] \in Values

SameCounts ==
  \A v \in Values :
    Cardinality({x \in Index : Settled[x] = v}) = Cardinality({x \in Index : initial[x] = v})

\* Only the owner of swap_mutex is between its load and its store.
MutexInv ==
  \A l \in Lefts : pc[l] \in {"load", "store", "unlock_swap"} =>
    swap_mutex = l /\ (pc[l] = "store" => reg[l] = total_swaps)

\* The threads whose swap is in the array, or under way, but not counted.
Uncounted == {l \in Lefts : pc[l] \in {"right", "lock_swap", "load", "store"}}
SwapsInv == total_swaps + Cardinality(Uncounted) + Inversions(Settled) = Inversions(initial)

PairInv == TypeInv /\ PhaseInv /\ \A l \in Lefts : SwapInv(l)
SortInv == PairInv /\ MutexInv /\ SameCounts /\ SwapsInv

LEMMA IndexFacts ==
  /\ ARRAY_SIZE \in Nat /\ ARRAY_SIZE >= 2 /\ Values \subseteq Int
  /\ \A l \in Lefts : l \in Index /\ l + 1 \in Index /\ l \in Nat
  /\ IsFiniteSet(Index) /\ IsFiniteSet(Lefts) /\ IsFiniteSet(Index \X Index)
<1>1. ARRAY_SIZE \in Nat /\ ARRAY_SIZE >= 2 /\ Values \subseteq Int
  BY SortAssumption DEF SortAssumption
<1>2. \A l \in Lefts : l \in Index /\ l + 1 \in Index /\ l \in Nat
  BY <1>1 DEF Index, Lefts
<1>3. \A n \in Int : IsFiniteSet(0..n)
  BY FS_Interval
<1>4. ARRAY_SIZE - 1 \in Int /\ ARRAY_SIZE - 2 \in Int
  BY <1>1
<1>5. IsFiniteSet(Index) /\ IsFiniteSet(Lefts)
  BY <1>3, <1>4, Zenon DEF Index, Lefts
<1> QED
  BY <1>1, <1>2, <1>5, FS_Product, Zenon

\* Live threads have no cell in common, because their left indices have the
\* same parity.
LEMMA PhaseDisjoint ==
  ASSUME TypeInv, PhaseInv, NEW l \in Lefts, NEW r \in Lefts, l # r,
         pc[l] # "none", pc[r] # "none"
  PROVE  l # r + 1 /\ r # l + 1
<1>1. PICK j \in Int : l = Debut + 2 * j
  BY DEF PhaseInv, Parity
<1>2. PICK k \in Int : r = Debut + 2 * k
  BY DEF PhaseInv, Parity
<1>3. Debut \in Int
  BY DEF Debut
<1> HIDE DEF Debut
<1> QED
  BY <1>1, <1>2, <1>3

-----------------------------------------------------------------------------
(* What swapping two cells does.                                           *)

Other(x, a, b) == IF x = a THEN b ELSE IF x = b THEN a ELSE x

\* It leaves as many cells with each value.
Cells(f, v) == {x \in Index : f[x] = v}
LEMMA SwapCounts ==
  ASSUME NEW f, NEW g, NEW a \in Index, NEW b \in Index, a # b,
         g[a] = f[b], g[b] = f[a], \A x \in Index \ {a, b} : g[x] = f[x], NEW v
  PROVE  Cardinality(Cells(g, v)) = Cardinality(Cells(f, v))
<1> DEFINE S == {x \in Index : f[x] = v}
           T == {x \in Index : g[x] = v}
           sigma == [x \in S |-> Other(x, a, b)]
<1>1. \A x \in Index : Other(x, a, b) \in Index /\ Other(Other(x, a, b), a, b) = x
                       /\ g[Other(x, a, b)] = f[x]
  BY DEF Other
<1>2. sigma \in [S -> T]
  BY <1>1
<1>3. \A x, y \in S : sigma[x] = sigma[y] => x = y
  BY <1>1
<1>4. \A y \in T : \E x \in S : sigma[x] = y
  <2> SUFFICES ASSUME NEW y \in T PROVE \E x \in S : sigma[x] = y
    OBVIOUS
  <2>1. Other(y, a, b) \in S
    BY <1>1 DEF Other
  <2> QED
    BY <1>1, <2>1
<1>5. ExistsBijection(S, T)
  <2> HIDE DEF S, T, sigma
  <2> QED
    BY <1>2, <1>3, <1>4 DEF ExistsBijection, Bijection, Injection, Surjection, IsInjective
<1>6. IsFiniteSet(S)
  <2>1. S \in SUBSET Index
    OBVIOUS
  <2> QED
    BY <2>1, IndexFacts, FS_Subset, Zenon
<1> QED
  BY <1>5, <1>6, FS_Bijection, Zenon DEF Cells

\* Between neighbours of which the left one is greater, it removes the one
\* inversion they were.
InvSet(f) == {p \in Index \X Index : p[1] < p[2] /\ f[p[1]] > f[p[2]]}
LEMMA SwapInversions ==
  ASSUME NEW f \in [Index -> Values], NEW g \in [Index -> Values], NEW l \in Lefts,
         g[l] = f[l + 1], g[l + 1] = f[l], \A x \in Index \ {l, l + 1} : g[x] = f[x],
         f[l] > f[l + 1]
  PROVE  /\ Inversions(f) \in Nat /\ Inversions(g) \in Nat
         /\ Inversions(f) = Inversions(g) + 1
<1> DEFINE S == InvSet(f) \ {<<l, l + 1>>}
           T == InvSet(g)
           o(x) == Other(x, l, l + 1)
           sigma == [p \in S |-> <<o(p[1]), o(p[2])>>]
<1>0. Index \subseteq Nat /\ l \in Index /\ l + 1 \in Index /\ l \in Nat /\ Values \subseteq Int
  BY IndexFacts DEF Index
<1>1. \A x \in Index : o(x) \in Index /\ o(o(x)) = x /\ g[o(x)] = f[x] /\ f[o(x)] = g[x]
  BY <1>0 DEF Other
<1>2. \A x, y \in Index : x < y /\ <<x, y>> # <<l, l + 1>> => o(x) < o(y)
  BY <1>0 DEF Other
<1>3. \A x \in Index : f[x] \in Int /\ g[x] \in Int
  BY <1>0
<1>4. \A p \in S : <<o(p[1]), o(p[2])>> \in T
  <2> SUFFICES ASSUME NEW x \in Index, NEW y \in Index, x < y, f[x] > f[y],
                      <<x, y>> # <<l, l + 1>>
               PROVE  o(x) < o(y) /\ g[o(x)] > g[o(y)]
    BY <1>1 DEF InvSet
  <2> QED
    BY <1>1, <1>2
<1>5. \A p \in T : /\ <<o(p[1]), o(p[2])>> \in S
                   /\ <<o(o(p[1])), o(o(p[2]))>> = p
  <2> SUFFICES ASSUME NEW x \in Index, NEW y \in Index, x < y, g[x] > g[y]
               PROVE  /\ o(x) < o(y) /\ f[o(x)] > f[o(y)]
                      /\ <<o(x), o(y)>> # <<l, l + 1>>
    BY <1>1 DEF InvSet
  <2>1. <<x, y>> # <<l, l + 1>>
    BY <1>0, <1>3
  <2>2. o(x) < o(y) /\ f[o(x)] > f[o(y)]
    BY <1>1, <1>2, <2>1
  <2>3. <<o(x), o(y)>> # <<l, l + 1>>
    BY <1>0, <2>1 DEF Other
  <2> QED
    BY <2>2, <2>3
<1>6. sigma \in [S -> T]
  BY <1>4
<1>7. \A p, q \in S : sigma[p] = sigma[q] => p = q
  <2> SUFFICES ASSUME NEW p \in S, NEW q \in S, sigma[p] = sigma[q] PROVE p = q
    OBVIOUS
  <2>1. o(p[1]) = o(q[1]) /\ o(p[2]) = o(q[2])
    OBVIOUS
  <2>2. p \in Index \X Index /\ q \in Index \X Index
    BY DEF InvSet
  <2>3. p[1] = q[1] /\ p[2] = q[2]
    <3> HIDE DEF o
    <3> QED
      BY <1>1, <2>1, <2>2
  <2> QED
    BY <2>2, <2>3
<1>8. \A p \in T : \E q \in S : sigma[q] = p
  <2> SUFFICES ASSUME NEW p \in T PROVE \E q \in S : sigma[q] = p
    OBVIOUS
  <2> DEFINE q == <<o(p[1]), o(p[2])>>
  <2>1. q \in S /\ <<o(q[1]), o(q[2])>> = p
    <3> HIDE DEF o, S, T
    <3> QED
      BY <1>5
  <2>2. sigma[q] = <<o(q[1]), o(q[2])>>
    BY <2>1
  <2> QED
    BY <2>1, <2>2
<1>9. ExistsBijection(S, T)
  <2> HIDE DEF S, T, sigma
  <2> QED
    BY <1>6, <1>7, <1>8 DEF ExistsBijection, Bijection, Injection, Surjection, IsInjective
<1>10. IsFiniteSet(InvSet(f)) /\ IsFiniteSet(T)
  <2>1. InvSet(f) \in SUBSET (Index \X Index) /\ InvSet(g) \in SUBSET (Index \X Index)
    BY DEF InvSet
  <2> QED
    BY <2>1, IndexFacts, FS_Subset, Zenon
<1>11. <<l, l + 1>> \in InvSet(f)
  BY <1>0 DEF InvSet
<1>12. /\ IsFiniteSet(S) /\ Cardinality(S) = Cardinality(InvSet(f)) - 1
  BY <1>10, <1>11, FS_RemoveElement, Zenon
<1>13. Cardinality(S) = Cardinality(T)
  BY <1>9, <1>12, FS_Bijection, Zenon
<1>14. Cardinality(InvSet(f)) \in Nat /\ Cardinality(T) \in Nat
  BY <1>10, FS_CardinalityType, Zenon
<1>15. Inversions(f) = Cardinality(InvSet(f)) /\ Inversions(g) = Cardinality(T)
  BY DEF Inversions, InvSet
<1> HIDE DEF S, T
<1> QED
  BY <1>12, <1>13, <1>14, <1>15

-----------------------------------------------------------------------------
(* Main, and how a thread goes on.                                         *)

LEMMA InitSortInv == Init => SortInv
<1> SUFFICES ASSUME Init PROVE SortInv
  OBVIOUS
<1>1. TypeInv
  <2>1. 0 \in 0..(2 * ARRAY_SIZE + 1) /\ 0 \in 0..(ARRAY_SIZE + 1) /\ 0 <= 2 * ARRAY_SIZE
    BY IndexFacts
  <2>2. /\ pc \in [Lefts -> Labels] /\ tmp \in [Lefts -> Values \union {0}]
        /\ reg \in [Lefts -> Nat]
    BY DEF Init, Labels
  <2> QED
    BY <2>1, <2>2 DEF Init, TypeInv, TypeOK
<1>2. PhaseInv /\ MutexInv /\ \A l \in Lefts : SwapInv(l)
  BY DEF Init, PhaseInv, MutexInv, SwapInv
<1>3. Settled = initial
  BY DEF Init, Settled
<1>4. Uncounted = {}
  BY DEF Init, Uncounted
<1>5. Cardinality(Uncounted) = 0
  BY <1>4, FS_EmptySet, Zenon
<1>6. Inversions(initial) \in Nat
  <2>1. {p \in Index \X Index : p[1] < p[2] /\ initial[p[1]] > initial[p[2]]}
          \in SUBSET (Index \X Index)
    OBVIOUS
  <2> QED
    BY <2>1, IndexFacts, FS_Subset, FS_CardinalityType, Zenon DEF Inversions
<1>7. SwapsInv
  BY <1>3, <1>5, <1>6 DEF SwapsInv, Init
<1> QED
  BY <1>1, <1>2, <1>3, <1>7 DEF SortInv, PairInv, SameCounts

\* Settled is a function of what pc, tmp and arr are to each cell.
LEMMA SettledSame ==
  ASSUME \A x \in Index : (IF x - 1 \in Lefts /\ pc'[x - 1] = "right" THEN tmp'[x - 1] ELSE arr'[x])
                            = IF x - 1 \in Lefts /\ pc[x - 1] = "right" THEN tmp[x - 1] ELSE arr[x]
  PROVE  Settled' = Settled
BY DEF Settled

LEMMA MainPhase ==
  ASSUME PairInv, Main
  PROVE  /\ UNCHANGED <<dataVars, swapVars, tmp, reg>>
         /\ TypeInv' /\ PhaseInv'
         /\ \A l \in Lefts : \/ pc'[l] = pc[l]
                             \/ pc[l] = "none" /\ pc'[l] = "compare"
                             \/ pc[l] = "done" /\ pc'[l] = "none"
<1>0. /\ TypeOK /\ PhaseInv /\ (main = "iterate" => iteration <= 2 * ARRAY_SIZE)
      /\ ARRAY_SIZE \in Nat /\ ARRAY_SIZE >= 2 /\ Lefts = 0..(ARRAY_SIZE - 2)
      /\ Debut \in {0, 1}
  BY IndexFacts DEF PairInv, TypeInv, Lefts, Debut
<1>1. Parity(Debut) /\ (Parity(next) => Parity(next + 2)) /\ (Parity(next) => ~Parity(next + 1))
  <2>0. Debut \in Int /\ next \in Int
    BY <1>0 DEF TypeOK
  <2>1. Parity(Debut)
    BY <2>0 DEF Parity, Debut
  <2>2. ASSUME NEW k \in Int, next = Debut + 2 * k PROVE Parity(next + 2)
    <3> HIDE DEF Debut
    <3>1. next + 2 = Debut + 2 * (k + 1) /\ k + 1 \in Int
      BY <2>0, <2>2
    <3> QED
      BY <3>1 DEF Parity
  <2>3. ASSUME NEW k \in Int, next = Debut + 2 * k, NEW j \in Int, next + 1 = Debut + 2 * j
        PROVE  FALSE
    <3> HIDE DEF Debut
    <3> QED
      BY <2>0, <2>3
  <2> QED
    BY <2>1, <2>2, <2>3 DEF Parity
<1>2. UNCHANGED <<dataVars, swapVars, tmp, reg>>
  BY DEF Main, StartIteration, CreateThread, JoinThread, CheckSorted
<1>3. CASE StartIteration
  <2>1. /\ paire' = paire /\ next' = Debut /\ main' = "create" /\ pc' = pc
        /\ iteration' = iteration + 1 /\ Debut' = Debut
        /\ \A l \in Lefts : pc[l] = "none"
    BY <1>0, <1>3 DEF StartIteration, PhaseInv, Debut
  <2>2. TypeInv'
    <3>1. iteration' \in 0..(2 * ARRAY_SIZE + 1) /\ next' \in 0..(ARRAY_SIZE + 1)
      BY <1>0, <1>3, <2>1 DEF StartIteration, TypeOK
    <3>2. swapped' = FALSE /\ flag_mutex' = Free
      BY <1>3 DEF StartIteration
    <3> QED
      BY <1>0, <1>2, <2>1, <3>1, <3>2 DEF TypeInv, TypeOK, dataVars, swapVars
  <2>3. PhaseInv'
    BY <1>1, <2>1 DEF PhaseInv, Parity
  <2> QED
    BY <1>2, <2>1, <2>2, <2>3
<1>4. CASE CreateThread
  <2>0. /\ main = "create" /\ paire' = paire /\ iteration' = iteration /\ Debut' = Debut
        /\ UNCHANGED flagVars
    BY <1>4 DEF CreateThread, Debut
  <2>1. CASE /\ next \in Lefts /\ pc' = [pc EXCEPT ![next] = "compare"] /\ next' = next + 2
             /\ main' = main
    <3>1. /\ pc[next] = "none" /\ pc' \in [Lefts -> Labels] /\ pc'[next] = "compare"
          /\ \A l \in Lefts : l # next => pc'[l] = pc[l]
      BY <1>0, <2>0, <2>1 DEF PhaseInv, TypeOK, Labels
    <3>2. TypeInv'
      BY <1>0, <1>2, <2>0, <2>1, <3>1 DEF TypeInv, TypeOK, dataVars, swapVars, flagVars
    <3>3. PhaseInv'
      <4>1. \A l \in Lefts : pc'[l] # "none" => Parity(l)
        BY <1>0, <2>0, <2>1, <3>1 DEF PhaseInv
      <4>2. \A l \in Lefts : l >= next + 2 => pc'[l] = "none"
        BY <1>0, <2>0, <2>1, <3>1 DEF PhaseInv
      <4>3. Parity(next + 2)
        BY <1>0, <1>1, <2>0 DEF PhaseInv
      <4> QED
        BY <2>0, <2>1, <4>1, <4>2, <4>3 DEF PhaseInv, Parity
    <3>4. ASSUME NEW l \in Lefts
          PROVE  pc'[l] = pc[l] \/ (pc[l] = "none" /\ pc'[l] = "compare")
      BY <3>1, Zenon
    <3> QED
      BY <1>2, <3>2, <3>3, <3>4
  <2>2. CASE next \notin Lefts /\ next' = Debut /\ main' = "join" /\ pc' = pc
    <3>1. TypeInv'
      BY <1>0, <1>2, <2>0, <2>2 DEF TypeInv, TypeOK, dataVars, swapVars, flagVars
    <3>2. \A l \in Lefts : l < Debut => pc[l] = "none"
      <4> SUFFICES ASSUME NEW l \in Lefts, l < Debut, Parity(l) PROVE FALSE
        BY <1>0 DEF PhaseInv
      <4>1. PICK k \in Int : l = Debut + 2 * k
        BY DEF Parity
      <4> HIDE DEF Debut
      <4> QED
        BY <1>0, <4>1
    <3>3. PhaseInv'
      BY <1>0, <1>1, <2>0, <2>2, <3>2 DEF PhaseInv, Parity
    <3> QED
      BY <1>2, <2>2, <3>1, <3>3
  <2> QED
    BY <1>4, <2>1, <2>2 DEF CreateThread
<1>5. CASE JoinThread
  <2>0. /\ main = "join" /\ paire' = paire /\ iteration' = iteration /\ Debut' = Debut
        /\ UNCHANGED flagVars
    BY <1>5 DEF JoinThread, Debut
  <2>1. CASE next \in Lefts /\ Step(next, "done", "none") /\ next' = next + 2 /\ main' = main
    <3>1. /\ pc[next] = "done" /\ pc' \in [Lefts -> Labels] /\ pc'[next] = "none"
          /\ \A l \in Lefts : l # next => pc'[l] = pc[l]
      BY <1>0, <2>1 DEF Step, TypeOK, Labels
    <3>2. TypeInv'
      BY <1>0, <1>2, <2>0, <2>1, <3>1 DEF TypeInv, TypeOK, dataVars, swapVars, flagVars
    <3>3. PhaseInv'
      <4>1. \A l \in Lefts : pc'[l] # "none" => Parity(l)
        BY <1>0, <3>1 DEF PhaseInv
      <4>2. \A l \in Lefts : l < next + 2 => pc'[l] = "none"
        <5> SUFFICES ASSUME NEW l \in Lefts, l < next + 2 PROVE pc'[l] = "none"
          OBVIOUS
        <5>1. l < next \/ l = next \/ l = next + 1
          BY <1>0, <2>1
        <5>2. CASE l = next + 1
          BY <1>0, <1>1, <2>0, <4>1, <5>2 DEF PhaseInv
        <5> QED
          BY <1>0, <2>0, <2>1, <3>1, <5>1, <5>2 DEF PhaseInv
      <4>3. Parity(next + 2)
        BY <1>0, <1>1, <2>0 DEF PhaseInv
      <4> QED
        BY <2>0, <2>1, <4>1, <4>2, <4>3 DEF PhaseInv, Parity
    <3>4. ASSUME NEW l \in Lefts
          PROVE  pc'[l] = pc[l] \/ (pc[l] = "done" /\ pc'[l] = "none")
      BY <3>1, Zenon
    <3> QED
      BY <1>2, <3>2, <3>3, <3>4
  <2>2. CASE next \notin Lefts /\ main' = "check" /\ pc' = pc /\ next' = next
    <3>1. TypeInv'
      BY <1>0, <1>2, <2>0, <2>2 DEF TypeInv, TypeOK, dataVars, swapVars, flagVars
    <3>2. \A l \in Lefts : pc[l] = "none"
      BY <1>0, <2>0, <2>2 DEF PhaseInv, TypeOK
    <3>3. PhaseInv'
      BY <2>2, <3>2 DEF PhaseInv
    <3> QED
      BY <1>2, <2>2, <3>1, <3>3
  <2> QED
    BY <1>5, <2>1, <2>2 DEF JoinThread
<1>6. CASE CheckSorted
  <2>1. /\ main = "check" /\ pc' = pc /\ next' = next /\ iteration' = iteration
        /\ UNCHANGED flagVars /\ paire' \in BOOLEAN
        /\ main' \in {"sorted", "error", "iterate"}
        /\ main' = "iterate" => ~(iteration > 2 * ARRAY_SIZE)
    BY <1>0, <1>6 DEF CheckSorted, TypeOK
  <2>2. TypeInv'
    BY <1>0, <1>2, <2>1 DEF TypeInv, TypeOK, dataVars, swapVars, flagVars
  <2>3. PhaseInv'
    BY <1>0, <2>1 DEF PhaseInv
  <2> QED
    BY <1>2, <2>1, <2>2, <2>3
<1> QED
  BY <1>3, <1>4, <1>5, <1>6 DEF Main

\* Main neither swaps nor counts.
LEMMA NextMain ==
  ASSUME SortInv, Main
  PROVE  SortInv'
<1>1. /\ UNCHANGED <<initial, arr, total_swaps, swap_mutex, tmp, reg>>
      /\ TypeInv' /\ PhaseInv'
      /\ \A l \in Lefts : \/ pc'[l] = pc[l]
                          \/ pc[l] \in {"none", "done"} /\ pc'[l] \in {"none", "compare"}
  BY MainPhase DEF SortInv, dataVars, swapVars
<1>2. Settled' = Settled
  BY <1>1 DEF Settled
<1>3. Uncounted' = Uncounted
  BY <1>1 DEF Uncounted
<1>4. \A l \in Lefts : SwapInv(l)'
  BY <1>1 DEF SortInv, PairInv, SwapInv
<1>5. MutexInv'
  BY <1>1 DEF SortInv, MutexInv
<1>6. SameCounts'
  BY <1>1, <1>2 DEF SortInv, SameCounts
<1>7. SwapsInv'
  BY <1>1, <1>2, <1>3 DEF SortInv, SwapsInv, Inversions
<1> QED
  BY <1>1, <1>4, <1>5, <1>6, <1>7 DEF SortInv, PairInv

-----------------------------------------------------------------------------
(* The threads.                                                            *)

\* A live thread's step leaves main and the other threads where they are.
LEMMA ThreadPhase ==
  ASSUME PairInv, NEW l \in Lefts, ComparePair(l)
  PROVE  /\ UNCHANGED <<initial, iteration, paire, next, main>>
         /\ pc[l] \notin {"none", "done"} /\ pc'[l] # "none"
         /\ pc' \in [Lefts -> Labels] /\ \A r \in Lefts : r # l => pc'[r] = pc[r]
         /\ PhaseInv'
<1>0. TypeOK /\ PhaseInv /\ pc \in [Lefts -> Labels]
  BY DEF PairInv, TypeInv, TypeOK
<1>1. UNCHANGED <<initial, iteration, paire, next, main>>
  BY DEF ComparePair, Compare, WriteLeft, WriteRight, LockSwap, LoadSwaps, StoreSwaps,
     UnlockSwap, LockFlag, SetFlag, UnlockFlag, dataVars, mainVars
<1>2. PICK from \in Labels \ {"none", "done"}, to \in Labels \ {"none"} : Step(l, from, to)
  BY DEF ComparePair, Compare, WriteLeft, WriteRight, LockSwap, LoadSwaps, StoreSwaps,
     UnlockSwap, LockFlag, SetFlag, UnlockFlag, Labels
<1>3. /\ pc[l] = from /\ pc'[l] = to /\ pc' \in [Lefts -> Labels]
      /\ \A r \in Lefts : r # l => pc'[r] = pc[r]
  BY <1>0, <1>2 DEF Step
<1>4. PhaseInv'
  <2>1. \A r \in Lefts : pc'[r] = "none" <=> pc[r] = "none"
    BY <1>2, <1>3
  <2>2. Debut' = Debut
    BY <1>1 DEF Debut
  <2>3. \A r : Parity(r)' = Parity(r)
    BY <2>2 DEF Parity
  <2> QED
    BY <1>0, <1>1, <2>1, <2>2 DEF PhaseInv, Parity
<1> QED
  BY <1>1, <1>2, <1>3, <1>4

\* Whatever the thread writes, the others' cells stay as they are.
LEMMA NextPairInv ==
  ASSUME PairInv, NEW l \in Lefts, ComparePair(l)
  PROVE  PairInv'
<1>0. /\ TypeOK /\ PhaseInv /\ SwapInv(l) /\ Values \subseteq Int
      /\ l \in Index /\ l + 1 \in Index
      /\ arr \in [Index -> Values] /\ tmp \in [Lefts -> Values \union {0}]
  BY IndexFacts DEF PairInv, TypeInv, TypeOK
<1>1. /\ UNCHANGED <<initial, iteration, paire, next, main>>
      /\ pc[l] # "none" /\ pc' \in [Lefts -> Labels] /\ pc'[l] # "none"
      /\ \A r \in Lefts : r # l => pc'[r] = pc[r]
      /\ PhaseInv'
  BY ThreadPhase
<1>2. /\ arr' \in [Index -> Values] /\ tmp' \in [Lefts -> Values \union {0}]
      /\ \A r \in Lefts : r # l => tmp'[r] = tmp[r]
      /\ \A x \in Index : x \notin {l, l + 1} => arr'[x] = arr[x]
      /\ SwapInv(l)'
  <2>1. CASE Compare(l)
    BY <1>0, <2>1 DEF Compare, Step, SwapInv, TypeOK, dataVars
  <2>2. CASE WriteLeft(l)
    BY <1>0, <2>2 DEF WriteLeft, Step, SwapInv, TypeOK
  <2>3. CASE WriteRight(l)
    <3>1. tmp[l] \in Values /\ arr' = [arr EXCEPT ![l + 1] = tmp[l]] /\ tmp' = tmp
      BY <1>0, <2>3 DEF WriteRight, Step, SwapInv
    <3>2. pc'[l] = "lock_swap"
      BY <1>0, <2>3 DEF WriteRight, Step, TypeOK
    <3> QED
      BY <1>0, <3>1, <3>2 DEF SwapInv
  <2>4. CASE \/ LockSwap(l) \/ LoadSwaps(l) \/ StoreSwaps(l) \/ UnlockSwap(l)
             \/ LockFlag(l) \/ SetFlag(l) \/ UnlockFlag(l)
    <3>1. arr' = arr /\ tmp' = tmp
      BY <2>4 DEF LockSwap, LoadSwaps, StoreSwaps, UnlockSwap, LockFlag, SetFlag, UnlockFlag,
         dataVars
    <3>2. pc'[l] \notin {"left", "right"}
      BY <1>0, <2>4 DEF LockSwap, LoadSwaps, StoreSwaps, UnlockSwap, LockFlag, SetFlag,
         UnlockFlag, Step, TypeOK
    <3> QED
      BY <1>0, <3>1, <3>2 DEF SwapInv
  <2> QED
    BY <2>1, <2>2, <2>3, <2>4 DEF ComparePair
<1>3. TypeInv'
  <2>1. /\ total_swaps' \in Nat /\ reg' \in [Lefts -> Nat]
        /\ swap_mutex' \in Lefts \union {Free}
    BY <1>0 DEF ComparePair, Compare, WriteLeft, WriteRight, LockSwap, LoadSwaps, StoreSwaps,
       UnlockSwap, LockFlag, SetFlag, UnlockFlag, TypeOK, swapVars
  <2>2. swapped' \in BOOLEAN /\ flag_mutex' \in Lefts \union {Free}
    BY <1>0 DEF ComparePair, Compare, WriteLeft, WriteRight, LockSwap, LoadSwaps, StoreSwaps,
       UnlockSwap, LockFlag, SetFlag, UnlockFlag, TypeOK, flagVars
  <2> QED
    BY <1>0, <1>1, <1>2, <2>1, <2>2 DEF PairInv, TypeInv, TypeOK
<1>4. ASSUME NEW r \in Lefts PROVE SwapInv(r)'
  <2>1. CASE r = l
    BY <1>2, <2>1
  <2>2. CASE r # l /\ pc[r] = "none"
    BY <1>1, <2>2 DEF SwapInv
  <2>3. CASE r # l /\ pc[r] # "none"
    <3>1. l # r + 1 /\ r # l + 1
      BY <1>1, <2>3, PhaseDisjoint DEF PairInv
    <3>2. r \in Index /\ r + 1 \in Index /\ r \in Nat /\ l \in Nat
      BY IndexFacts
    <3>3. r \notin {l, l + 1} /\ r + 1 \notin {l, l + 1}
      BY <2>3, <3>1, <3>2
    <3> QED
      BY <1>1, <1>2, <2>3, <3>2, <3>3 DEF PairInv, SwapInv
  <2> QED
    BY <2>1, <2>2, <2>3
<1> QED
  BY <1>1, <1>3, <1>4 DEF PairInv

LEMMA NextMutexInv ==
  ASSUME PairInv, MutexInv, NEW l \in Lefts, ComparePair(l)
  PROVE  MutexInv'
<1>0. /\ pc \in [Lefts -> Labels] /\ reg \in [Lefts -> Nat] /\ Free \notin Lefts
  BY IndexFacts DEF PairInv, TypeInv, TypeOK, Free
<1>1. CASE LockSwap(l)
  BY <1>0, <1>1 DEF LockSwap, Step, MutexInv
<1>2. CASE LoadSwaps(l)
  BY <1>0, <1>2 DEF LoadSwaps, Step, MutexInv, swapVars
<1>3. CASE StoreSwaps(l)
  BY <1>0, <1>3 DEF StoreSwaps, Step, MutexInv
<1>4. CASE UnlockSwap(l)
  BY <1>0, <1>4 DEF UnlockSwap, Step, MutexInv
<1>5. CASE Compare(l) \/ WriteLeft(l) \/ WriteRight(l)
  BY <1>0, <1>5 DEF Compare, WriteLeft, WriteRight, Step, MutexInv, swapVars
<1>6. CASE LockFlag(l) \/ SetFlag(l) \/ UnlockFlag(l)
  BY <1>0, <1>6 DEF LockFlag, SetFlag, UnlockFlag, Step, MutexInv, swapVars
<1> QED
  BY <1>1, <1>2, <1>3, <1>4, <1>5, <1>6 DEF ComparePair

\* The first write makes a swap of the array, as Settled sees it; the second
\* only carries it out.
LEMMA SettledSwap ==
  ASSUME PairInv, NEW l \in Lefts, WriteLeft(l)
  PROVE  /\ Settled \in [Index -> Values] /\ Settled' \in [Index -> Values]
         /\ Settled'[l] = Settled[l + 1] /\ Settled'[l + 1] = Settled[l]
         /\ \A x \in Index \ {l, l + 1} : Settled'[x] = Settled[x]
         /\ Settled[l] > Settled[l + 1]
<1>0. /\ l \in Index /\ l + 1 \in Index /\ l \in Nat /\ Index \subseteq Nat
      /\ arr \in [Index -> Values] /\ pc \in [Lefts -> Labels]
      /\ \A r \in Lefts : SwapInv(r) /\ SwapInv(r)'
  <2>1. PairInv'
    <3>1. ComparePair(l)
      BY DEF ComparePair
    <3> QED
      BY <3>1, NextPairInv
  <2>2. \A r \in Lefts : SwapInv(r) /\ SwapInv(r)'
    BY <2>1 DEF PairInv
  <2>3. Index \subseteq Nat
    BY DEF Index
  <2> QED
    BY <2>2, <2>3, IndexFacts DEF PairInv, TypeInv, TypeOK
<1>1. /\ arr'[l] = arr[l + 1] /\ \A x \in Index \ {l} : arr'[x] = arr[x]
      /\ arr' \in [Index -> Values]
      /\ pc[l] = "left" /\ pc'[l] = "right" /\ \A r \in Lefts : r # l => pc'[r] = pc[r]
      /\ tmp' = tmp /\ tmp[l] = arr[l] /\ arr[l] > arr[l + 1]
  BY <1>0 DEF WriteLeft, Step, SwapInv
<1>2. ~(l - 1 \in Lefts /\ pc[l - 1] = "right")
  <2> SUFFICES ASSUME l - 1 \in Lefts, pc[l - 1] = "right" PROVE FALSE
    OBVIOUS
  <2>1. l # (l - 1) + 1
    BY <1>0, <1>1, PhaseDisjoint DEF PairInv
  <2> QED
    BY <1>0, <2>1
<1>3. (l + 1) - 1 = l /\ l # l + 1 /\ l - 1 # l
  BY <1>0
<1>4. Settled[l] = arr[l] /\ Settled[l + 1] = arr[l + 1]
  BY <1>0, <1>1, <1>2, <1>3 DEF Settled
<1>5. Settled'[l] = arr[l + 1] /\ Settled'[l + 1] = arr[l]
  BY <1>0, <1>1, <1>2, <1>3 DEF Settled
<1>6. ASSUME NEW x \in Index \ {l, l + 1} PROVE Settled'[x] = Settled[x]
  <2>1. x - 1 # l /\ x \in Index /\ x # l
    BY <1>0, <1>6
  <2> QED
    BY <1>1, <2>1 DEF Settled
<1>7. ASSUME NEW x \in Index PROVE Settled[x] \in Values /\ Settled'[x] \in Values
  BY <1>0, <1>1 DEF Settled, SwapInv
<1>8. Settled \in [Index -> Values] /\ Settled' \in [Index -> Values]
  BY <1>7 DEF Settled
<1> QED
  BY <1>1, <1>4, <1>5, <1>6, <1>8

LEMMA SettledStays ==
  ASSUME PairInv, NEW l \in Lefts, ComparePair(l), ~WriteLeft(l)
  PROVE  Settled' = Settled
<1>0. /\ l \in Index /\ l + 1 \in Index /\ l \in Nat /\ Index \subseteq Nat
      /\ arr \in [Index -> Values] /\ pc \in [Lefts -> Labels]
      /\ tmp \in [Lefts -> Values \union {0}]
  BY IndexFacts DEF PairInv, TypeInv, TypeOK, Index
<1>1. CASE WriteRight(l)
  <2>1. /\ arr'[l + 1] = tmp[l] /\ \A x \in Index \ {l + 1} : arr'[x] = arr[x]
        /\ pc[l] = "right" /\ pc'[l] = "lock_swap" /\ \A r \in Lefts : r # l => pc'[r] = pc[r]
        /\ tmp' = tmp
    BY <1>0, <1>1 DEF WriteRight, Step
  <2>2. ASSUME NEW x \in Index
        PROVE  (IF x - 1 \in Lefts /\ pc'[x - 1] = "right" THEN tmp'[x - 1] ELSE arr'[x])
                 = IF x - 1 \in Lefts /\ pc[x - 1] = "right" THEN tmp[x - 1] ELSE arr[x]
    <3>1. CASE x = l + 1
      <4>1. x - 1 = l
        BY <1>0, <3>1
      <4> QED
        BY <2>1, <3>1, <4>1
    <3>2. CASE x # l + 1
      <4>1. x - 1 # l
        BY <1>0, <3>2
      <4> QED
        BY <2>1, <3>2, <4>1
    <3> QED
      BY <3>1, <3>2
  <2> QED
    BY <2>2, SettledSame
<1>2. CASE ~WriteRight(l)
  <2>1. arr' = arr /\ pc[l] # "right" /\ pc'[l] # "right"
    BY <1>0, <1>2 DEF ComparePair, Compare, LockSwap, LoadSwaps, StoreSwaps, UnlockSwap,
       LockFlag, SetFlag, UnlockFlag, Step, dataVars
  <2>2. \A r \in Lefts : r # l => pc'[r] = pc[r] /\ tmp'[r] = tmp[r]
    BY <1>0, <1>2 DEF ComparePair, Compare, LockSwap, LoadSwaps, StoreSwaps, UnlockSwap,
       LockFlag, SetFlag, UnlockFlag, Step
  <2>3. ASSUME NEW x \in Index
        PROVE  (IF x - 1 \in Lefts /\ pc'[x - 1] = "right" THEN tmp'[x - 1] ELSE arr'[x])
                 = IF x - 1 \in Lefts /\ pc[x - 1] = "right" THEN tmp[x - 1] ELSE arr[x]
    BY <2>1, <2>2
  <2> QED
    BY <2>3, SettledSame
<1> QED
  BY <1>1, <1>2

LEMMA NextSwapsInv ==
  ASSUME SortInv, NEW l \in Lefts, ComparePair(l)
  PROVE  SameCounts' /\ SwapsInv'
<1>0. /\ PairInv /\ MutexInv /\ SameCounts /\ SwapsInv
      /\ pc \in [Lefts -> Labels] /\ initial' = initial
      /\ total_swaps \in Nat /\ Inversions(initial)' = Inversions(initial)
  BY ThreadPhase DEF SortInv, PairInv, TypeInv, TypeOK, Inversions
<1>1. /\ IsFiniteSet(Uncounted) /\ Cardinality(Uncounted) \in Nat
  <2>1. Uncounted \in SUBSET Lefts
    BY DEF Uncounted
  <2> QED
    BY <2>1, IndexFacts, FS_Subset, FS_CardinalityType, Zenon
<1>2. CASE WriteLeft(l)
  <2>1. /\ Settled \in [Index -> Values] /\ Settled' \in [Index -> Values]
        /\ Settled'[l] = Settled[l + 1] /\ Settled'[l + 1] = Settled[l]
        /\ \A x \in Index \ {l, l + 1} : Settled'[x] = Settled[x]
        /\ Settled[l] > Settled[l + 1]
        /\ l \in Index /\ l + 1 \in Index /\ l # l + 1
    BY <1>0, <1>2, SettledSwap, IndexFacts
  <2>2. PICK g : g = Settled'
    OBVIOUS
  <2>3. \A v : Cardinality(Cells(g, v)) = Cardinality(Cells(Settled, v))
    <3>1. /\ g[l] = Settled[l + 1] /\ g[l + 1] = Settled[l]
          /\ \A x \in Index \ {l, l + 1} : g[x] = Settled[x]
          /\ l \in Index /\ l + 1 \in Index /\ l # l + 1
      BY <2>1, <2>2
    <3> QED
      BY <3>1, SwapCounts
  <2>4. /\ Inversions(Settled) \in Nat /\ Inversions(g) \in Nat
        /\ Inversions(Settled) = Inversions(g) + 1
    BY <2>1, <2>2, SwapInversions
  <2>5. SameCounts'
    <3>1. \A v \in Values : Cardinality(Cells(g, v)) = Cardinality(Cells(initial, v))
      BY <1>0, <2>3 DEF SameCounts, Cells
    <3>2. /\ \A v \in Values : {x \in Index : Settled[x] = v}' = Cells(g, v)
          /\ \A v \in Values : {x \in Index : initial[x] = v}' = Cells(initial, v)
      BY <1>0, <2>2 DEF Cells
    <3> QED
      BY <3>1, <3>2 DEF SameCounts
  <2>6. l \notin Uncounted /\ Uncounted' = Uncounted \union {l}
    BY <1>0, <1>2 DEF WriteLeft, Step, Uncounted
  <2>7. Cardinality(Uncounted') = Cardinality(Uncounted) + 1
    BY <1>1, <2>6, FS_AddElement, Zenon
  <2>8. total_swaps' = total_swaps
    BY <1>2 DEF WriteLeft, swapVars
  <2>9. Inversions(Settled)' = Inversions(g)
    BY <2>2 DEF Inversions
  <2> QED
    BY <1>0, <1>1, <2>4, <2>5, <2>7, <2>8, <2>9 DEF SwapsInv
<1>3. CASE ~WriteLeft(l)
  <2>1. Settled' = Settled
    BY <1>0, <1>3, SettledStays
  <2>2. SameCounts' /\ Inversions(Settled)' = Inversions(Settled)
    BY <1>0, <2>1 DEF SameCounts, Inversions
  <2>3. CASE StoreSwaps(l)
    <3>1. l \in Uncounted /\ Uncounted' = Uncounted \ {l}
      BY <1>0, <2>3 DEF StoreSwaps, Step, Uncounted
    <3>2. Cardinality(Uncounted') = Cardinality(Uncounted) - 1
      BY <1>1, <3>1, FS_RemoveElement, Zenon
    <3>3. total_swaps' = total_swaps + 1
      BY <1>0, <2>3 DEF StoreSwaps, Step, MutexInv
    <3>4. (total_swaps + 1) + (Cardinality(Uncounted) - 1) = total_swaps + Cardinality(Uncounted)
      BY <1>0, <1>1
    <3> QED
      BY <1>0, <2>2, <3>2, <3>3, <3>4 DEF SwapsInv
  <2>4. CASE ~StoreSwaps(l)
    <3>1. Uncounted' = Uncounted
      BY <1>0, <1>3, <2>4 DEF ComparePair, Compare, WriteRight, LockSwap, LoadSwaps,
         UnlockSwap, LockFlag, SetFlag, UnlockFlag, Step, Uncounted
    <3>2. total_swaps' = total_swaps
      BY <1>3, <2>4 DEF ComparePair, Compare, WriteRight, LockSwap, LoadSwaps,
         UnlockSwap, LockFlag, SetFlag, UnlockFlag, swapVars
    <3> QED
      BY <1>0, <2>2, <3>1, <3>2 DEF SwapsInv
  <2> QED
    BY <2>3, <2>4
<1> QED
  BY <1>2, <1>3

LEMMA NextSortInv ==
  ASSUME SortInv, [Next]_vars
  PROVE  SortInv'
<1>1. CASE Main
  BY <1>1, NextMain
<1>2. CASE \E l \in Lefts : ComparePair(l)
  BY <1>2, NextPairInv, NextMutexInv, NextSwapsInv DEF SortInv
<1>3. CASE UNCHANGED vars
  <2>1. UNCHANGED <<initial, arr, total_swaps, swap_mutex, swapped, flag_mutex, pc, tmp, reg,
                    iteration, paire, next, main>>
    BY <1>3 DEF vars, dataVars, swapVars, flagVars, mainVars
  <2>2. Settled' = Settled /\ Uncounted' = Uncounted /\ Debut' = Debut
    BY <2>1 DEF Settled, Uncounted, Debut
  <2>3. TypeInv' /\ PhaseInv' /\ MutexInv'
    BY <2>1, <2>2 DEF SortInv, PairInv, TypeInv, TypeOK, PhaseInv, Parity, MutexInv
  <2>4. \A l \in Lefts : SwapInv(l)'
    BY <2>1 DEF SortInv, PairInv, SwapInv
  <2>5. SameCounts' /\ SwapsInv'
    BY <2>1, <2>2 DEF SortInv, SameCounts, SwapsInv, Inversions
  <2> QED
    BY <2>3, <2>4, <2>5 DEF SortInv, PairInv
<1> QED
  BY <1>1, <1>2, <1>3 DEF Next, Finished

-----------------------------------------------------------------------------
(* The theorems.                                                           *)

LEMMA SortInvImplies ==
  ASSUME SortInv
  PROVE  TypeOK /\ NoSharedCell /\ ThreadsEndFirst /\ Rearranged /\ CountsSwaps
<1>1. TypeOK /\ ThreadsEndFirst /\ Rearranged
  BY DEF SortInv, PairInv, TypeInv, PhaseInv, ThreadsEndFirst, SameCounts, Rearranged
<1>2. NoSharedCell
  <2> SUFFICES ASSUME NEW l \in Lefts, NEW r \in Lefts, l # r, Live(l), Live(r)
               PROVE  {l, l + 1} \intersect {r, r + 1} = {}
    BY DEF NoSharedCell
  <2>1. l # r + 1 /\ r # l + 1 /\ l \in Nat /\ r \in Nat
    BY PhaseDisjoint, IndexFacts DEF SortInv, PairInv, Live
  <2> QED
    BY <2>1
<1>3. ASSUME main = "check" PROVE total_swaps + Inversions(arr) = Inversions(initial)
  <2>1. \A l \in Lefts : pc[l] = "none"
    BY <1>3 DEF SortInv, PairInv, PhaseInv
  <2>2. Settled = arr
    BY <1>1, <2>1 DEF Settled, TypeOK
  <2>3. Uncounted = {}
    BY <2>1 DEF Uncounted
  <2>4. Cardinality(Uncounted) = 0
    BY <2>3, FS_EmptySet, Zenon
  <2>5. total_swaps + 0 = total_swaps
    BY <1>1 DEF TypeOK
  <2> QED
    BY <2>2, <2>4, <2>5 DEF SortInv, SwapsInv
<1> QED
  BY <1>1, <1>2, <1>3 DEF CountsSwaps

\* Type correctness, for every size of the array.
THEOREM TypeCorrect == Spec => []TypeOK
  BY InitSortInv, NextSortInv, SortInvImplies, PTL DEF Spec

\* The array needs no lock: live threads never have a cell in common.
THEOREM CellsCorrect == Spec => []NoSharedCell
  BY InitSortInv, NextSortInv, SortInvImplies, PTL DEF Spec

\* No thread outlives its iteration.
THEOREM JoinCorrect == Spec => []ThreadsEndFirst
  BY InitSortInv, NextSortInv, SortInvImplies, PTL DEF Spec

\* No value is lost or invented at any step.
THEOREM ValuesCorrect == Spec => []Rearranged
  BY InitSortInv, NextSortInv, SortInvImplies, PTL DEF Spec

\* The total of swaps is the number of inversions that are gone.
THEOREM SwapsCorrect == Spec => []CountsSwaps
  BY InitSortInv, NextSortInv, SortInvImplies, PTL DEF Spec

-----------------------------------------------------------------------------
(* Convergence. Fix a threshold t and call the cells with more than t ones, *)
(* the others zeros. The k-th one from the right waits at most until the    *)
(* k - 1 ones before it are gone and then moves one cell to the right in    *)
(* every iteration, until it is in its place. With m ones, m = 2h or        *)
(* m = 2h - 1, it is therefore at 2 (h - k) + r or beyond after r           *)
(* iterations, if that is not past its place: as many as k ones are there.  *)

Above(f, t, q) == {x \in Index : x >= q /\ f[x] > t}
Ones(f, t, q) == Cardinality(Above(f, t, q))

Advanced(f, r) ==
  \A t \in Values, h \in Nat :
    Ones(f, t, 0) \in {2 * h - 1, 2 * h} =>
      \A k \in 1..Ones(f, t, 0), q \in Index :
        q <= 2 * (h - k) + r /\ q <= ARRAY_SIZE - k => Ones(f, t, q) >= k

LEMMA OnesFinite ==
  ASSUME NEW f, NEW t, NEW q
  PROVE  IsFiniteSet(Above(f, t, q)) /\ Ones(f, t, q) \in Nat
<1>1. Above(f, t, q) \in SUBSET Index
  BY DEF Above
<1> QED
  BY <1>1, IndexFacts, FS_Subset, FS_CardinalityType, Zenon DEF Ones

\* One cell more.
LEMMA OnesStep ==
  ASSUME NEW f, NEW t, NEW q \in Index
  PROVE  /\ f[q] > t => Ones(f, t, q) = Ones(f, t, q + 1) + 1
         /\ ~(f[q] > t) => Ones(f, t, q) = Ones(f, t, q + 1)
<1>0. Index \subseteq Nat /\ q \in Nat /\ \A x \in Nat : x >= q <=> x = q \/ x >= q + 1
  <2>1. q \in Nat /\ Index \subseteq Nat
    BY IndexFacts DEF Index
  <2> QED
    BY <2>1
<1>1. ASSUME f[q] > t PROVE Ones(f, t, q) = Ones(f, t, q + 1) + 1
  <2>1. Above(f, t, q) = Above(f, t, q + 1) \union {q}
    BY <1>0, <1>1 DEF Above
  <2>2. q \notin Above(f, t, q + 1)
    BY <1>0 DEF Above
  <2>3. IsFiniteSet(Above(f, t, q + 1))
    BY OnesFinite, Zenon
  <2> QED
    BY <2>1, <2>2, <2>3, FS_AddElement, Zenon DEF Ones
<1>2. ASSUME ~(f[q] > t) PROVE Ones(f, t, q) = Ones(f, t, q + 1)
  <2>1. Above(f, t, q) = Above(f, t, q + 1)
    BY <1>0, <1>2 DEF Above
  <2> QED
    BY <2>1 DEF Ones
<1> QED
  BY <1>1, <1>2

\* At most q ones are left of q.
LEMMA OnesLeft ==
  ASSUME NEW f, NEW t, NEW q \in Index
  PROVE  Ones(f, t, 0) <= Ones(f, t, q) + q
<1>0. q \in Nat /\ Index \subseteq Nat
  BY IndexFacts DEF Index
<1>1. IsFiniteSet(0..(q - 1)) /\ Cardinality(0..(q - 1)) = q
  <2>1. 0 \in Int /\ q - 1 \in Int
    BY <1>0
  <2>2. /\ IsFiniteSet(0..(q - 1))
        /\ Cardinality(0..(q - 1)) = IF 0 > q - 1 THEN 0 ELSE q - 1 - 0 + 1
    BY <2>1, FS_Interval, Zenon
  <2>3. PICK c : c = Cardinality(0..(q - 1))
    OBVIOUS
  <2>4. c = IF 0 > q - 1 THEN 0 ELSE q - 1 - 0 + 1
    BY <2>2, <2>3, Zenon
  <2>5. c = q
    BY <1>0, <2>4
  <2> QED
    BY <2>2, <2>3, <2>5, Zenon
<1>2. /\ IsFiniteSet(Above(f, t, q) \union 0..(q - 1))
      /\ Cardinality(Above(f, t, q) \union 0..(q - 1))
           = Ones(f, t, q) + q - Cardinality(Above(f, t, q) \intersect 0..(q - 1))
  BY <1>1, OnesFinite, FS_Union, Zenon DEF Ones
<1>3. Above(f, t, 0) \in SUBSET (Above(f, t, q) \union 0..(q - 1))
  <2>1. \A x \in Index : x >= q \/ x \in 0..(q - 1)
    BY <1>0
  <2> QED
    BY <2>1 DEF Above
<1>4. Ones(f, t, 0) <= Cardinality(Above(f, t, q) \union 0..(q - 1))
  BY <1>2, <1>3, FS_Subset, Zenon DEF Ones
<1>5. Above(f, t, q) \intersect 0..(q - 1) = {}
  BY <1>0 DEF Above
<1>6. Cardinality(Above(f, t, q) \intersect 0..(q - 1)) = 0
  BY <1>5, FS_EmptySet, Zenon
<1>7. Ones(f, t, 0) \in Nat /\ Ones(f, t, q) \in Nat
  BY OnesFinite
<1> QED
  BY <1>0, <1>2, <1>4, <1>6, <1>7

-----------------------------------------------------------------------------
(* What an iteration makes of the array.                                   *)

PairLeft(d, x) == x \in Lefts /\ \E k \in Int : x = d + 2 * k
Moved(f, d, x) == PairLeft(d, x) /\ f[x] > f[x + 1]
Partner(f, d, x) == IF Moved(f, d, x) THEN x + 1 ELSE IF Moved(f, d, x - 1) THEN x - 1 ELSE x
Exchange(f, d) == [x \in Index |-> f[Partner(f, d, x)]]

LEMMA PairApart ==
  ASSUME NEW d \in Int, NEW l \in Int, PairLeft(d, l)
  PROVE  ~PairLeft(d, l + 1) /\ ~PairLeft(d, l - 1)
<1>1. PICK k \in Int : l = d + 2 * k
  BY DEF PairLeft
<1>2. \A j \in Int : l + 1 # d + 2 * j /\ l - 1 # d + 2 * j
  BY <1>1
<1> QED
  BY <1>2 DEF PairLeft

LEMMA PartnerFacts ==
  ASSUME NEW f \in [Index -> Values], NEW d \in Int, NEW x \in Index
  PROVE  /\ Partner(f, d, x) \in Index
         /\ Partner(f, d, Partner(f, d, x)) = x
         /\ Exchange(f, d)[Partner(f, d, x)] = f[x]
<1>0. /\ x \in Int /\ Index \subseteq Nat /\ Values \subseteq Int
      /\ \A l \in Lefts : l \in Index /\ l + 1 \in Index /\ l \in Nat
  BY IndexFacts DEF Index
<1>1. CASE Moved(f, d, x)
  <2>1. Partner(f, d, x) = x + 1 /\ x \in Lefts
    BY <1>1 DEF Partner, Moved, PairLeft
  <2>2. ~PairLeft(d, x + 1)
    BY <1>0, <1>1, PairApart DEF Moved
  <2>3. (x + 1) - 1 = x
    BY <1>0
  <2>4. Partner(f, d, x + 1) = x
    BY <1>1, <2>2, <2>3 DEF Partner, Moved
  <2> QED
    BY <1>0, <2>1, <2>4 DEF Exchange
<1>2. CASE ~Moved(f, d, x) /\ Moved(f, d, x - 1)
  <2>1. Partner(f, d, x) = x - 1 /\ x - 1 \in Lefts /\ (x - 1) + 1 = x
    BY <1>0, <1>2 DEF Partner, Moved, PairLeft
  <2>2. Partner(f, d, x - 1) = x
    BY <1>2, <2>1 DEF Partner
  <2> QED
    BY <1>0, <2>1, <2>2 DEF Exchange
<1>3. CASE ~Moved(f, d, x) /\ ~Moved(f, d, x - 1)
  BY <1>3 DEF Partner, Exchange
<1> QED
  BY <1>1, <1>2, <1>3

LEMMA ExchangeType ==
  ASSUME NEW f \in [Index -> Values], NEW d \in Int
  PROVE  Exchange(f, d) \in [Index -> Values]
BY PartnerFacts DEF Exchange

\* It takes no value across a border between two pairs.
LEMMA OnesExchange ==
  ASSUME NEW f \in [Index -> Values], NEW d \in Int, NEW t, NEW q \in Int,
         ~PairLeft(d, q - 1)
  PROVE  Ones(Exchange(f, d), t, q) = Ones(f, t, q)
<1> DEFINE g == Exchange(f, d)
           S == Above(f, t, q)
           T == Above(g, t, q)
           sigma == [x \in S |-> Partner(f, d, x)]
<1>0. Index \subseteq Nat
  BY DEF Index
<1>1. \A x \in Index : x >= q => Partner(f, d, x) >= q
  <2> SUFFICES ASSUME NEW x \in Index, x >= q, x - 1 < q, Moved(f, d, x - 1) PROVE FALSE
    BY <1>0 DEF Partner
  <2>1. x - 1 = q - 1
    BY <1>0
  <2> QED
    BY <2>1 DEF Moved
<1>2. \A x \in Index : /\ Partner(f, d, x) \in Index
                       /\ Partner(f, d, Partner(f, d, x)) = x
                       /\ g[Partner(f, d, x)] = f[x]
  BY PartnerFacts
<1> HIDE DEF g
<1>3. sigma \in [S -> T]
  BY <1>1, <1>2 DEF Above
<1>4. \A x, y \in S : sigma[x] = sigma[y] => x = y
  <2>1. \A x \in S : x \in Index /\ sigma[x] = Partner(f, d, x)
    BY DEF Above
  <2> QED
    BY <1>2, <2>1, Zenon
<1>5. \A y \in T : \E x \in S : sigma[x] = y
  <2> SUFFICES ASSUME NEW y \in T PROVE \E x \in S : sigma[x] = y
    OBVIOUS
  <2>1. y \in Index /\ y >= q /\ g[y] > t
    BY DEF Above
  <2>2. Partner(f, d, y) \in S
    <3>1. f[Partner(f, d, y)] = g[y]
      BY <1>2, <2>1
    <3> QED
      BY <1>1, <1>2, <2>1, <3>1 DEF Above
  <2> QED
    BY <1>2, <2>1, <2>2
<1>6. ExistsBijection(S, T)
  <2> HIDE DEF S, T, sigma
  <2> QED
    BY <1>3, <1>4, <1>5 DEF ExistsBijection, Bijection, Injection, Surjection, IsInjective
<1>7. IsFiniteSet(S)
  BY OnesFinite
<1> QED
  BY <1>6, <1>7, FS_Bijection, Zenon DEF Ones, g

\* Of a pair, the greater value is on the right afterwards.
LEMMA OnesPair ==
  ASSUME NEW f \in [Index -> Values], NEW d \in Int, NEW t \in Values, NEW l \in Lefts,
         PairLeft(d, l)
  PROVE  /\ f[l] > t \/ f[l + 1] > t =>
              Ones(Exchange(f, d), t, l + 1) = Ones(f, t, l + 2) + 1
         /\ ~(f[l] > t \/ f[l + 1] > t) =>
              Ones(Exchange(f, d), t, l + 1) = Ones(f, t, l + 2)
<1>0. /\ l \in Nat /\ l \in Index /\ l + 1 \in Index /\ (l + 1) - 1 = l
      /\ (l + 1) + 1 = l + 2 /\ (l + 2) - 1 = l + 1
      /\ f[l] \in Int /\ f[l + 1] \in Int /\ t \in Int
  <2>1. /\ Values \subseteq Int
        /\ \A r \in Lefts : r \in Index /\ r + 1 \in Index /\ r \in Nat
    BY IndexFacts, Zenon
  <2>2. l \in Index /\ l + 1 \in Index /\ l \in Nat
    BY <2>1
  <2>3. f[l] \in Int /\ f[l + 1] \in Int /\ t \in Int
    BY <2>1, <2>2
  <2>4. (l + 1) - 1 = l /\ (l + 1) + 1 = l + 2 /\ (l + 2) - 1 = l + 1
    BY <2>2
  <2> QED
    BY <2>2, <2>3, <2>4
<1>1. ~PairLeft(d, l + 1)
  BY <1>0, PairApart
<1>2. Ones(Exchange(f, d), t, l + 2) = Ones(f, t, l + 2)
  BY <1>0, <1>1, OnesExchange
<1>3. Exchange(f, d)[l + 1] = IF f[l] > f[l + 1] THEN f[l] ELSE f[l + 1]
  BY <1>0, <1>1 DEF Exchange, Partner, Moved
<1>4. Exchange(f, d)[l + 1] > t <=> f[l] > t \/ f[l + 1] > t
  BY <1>0, <1>3
<1>5. /\ Exchange(f, d)[l + 1] > t =>
           Ones(Exchange(f, d), t, l + 1) = Ones(Exchange(f, d), t, l + 2) + 1
      /\ ~(Exchange(f, d)[l + 1] > t) =>
           Ones(Exchange(f, d), t, l + 1) = Ones(Exchange(f, d), t, l + 2)
  BY <1>0, OnesStep
<1> QED
  BY <1>2, <1>4, <1>5

\* No ones are lost on the right of any cell.
LEMMA OnesGrow ==
  ASSUME NEW f \in [Index -> Values], NEW d \in Int, NEW t \in Values, NEW q \in Index
  PROVE  Ones(Exchange(f, d), t, q) >= Ones(f, t, q)
<1>0. q \in Nat /\ (q - 1) + 1 = q /\ (q - 1) + 2 = q + 1
  <2>1. q \in Nat
    BY IndexFacts DEF Index
  <2> QED
    BY <2>1
<1>1. \A x \in Int : Ones(f, t, x) \in Nat /\ Ones(Exchange(f, d), t, x) \in Nat
  BY OnesFinite
<1>2. CASE ~PairLeft(d, q - 1)
  <2>1. Ones(Exchange(f, d), t, q) = Ones(f, t, q)
    BY <1>0, <1>2, OnesExchange
  <2> QED
    BY <1>0, <1>1, <2>1
<1>3. CASE PairLeft(d, q - 1)
  <2>1. q - 1 \in Lefts
    BY <1>3 DEF PairLeft
  <2>2. PICK l \in Lefts : l = q - 1
    BY <2>1
  <2>3. /\ f[q] > t => Ones(Exchange(f, d), t, q) = Ones(f, t, q + 1) + 1
        /\ \/ Ones(Exchange(f, d), t, q) = Ones(f, t, q + 1) + 1
           \/ Ones(Exchange(f, d), t, q) = Ones(f, t, q + 1)
    <3>1. l + 1 = q /\ l + 2 = q + 1 /\ PairLeft(d, l)
      BY <1>0, <1>3, <2>2
    <3> QED
      BY <3>1, OnesPair
  <2>4. /\ f[q] > t => Ones(f, t, q) = Ones(f, t, q + 1) + 1
        /\ ~(f[q] > t) => Ones(f, t, q) = Ones(f, t, q + 1)
    BY OnesStep
  <2>5. q \in Int /\ q + 1 \in Int
    BY <1>0
  <2>6. /\ Ones(f, t, q) \in Nat /\ Ones(f, t, q + 1) \in Nat
        /\ Ones(Exchange(f, d), t, q) \in Nat
    BY <1>1, <2>5
  <2> QED
    BY <2>3, <2>4, <2>6
<1> QED
  BY <1>2, <1>3

LEMMA AdvancedStart ==
  ASSUME NEW f \in [Index -> Values]
  PROVE  Advanced(f, 0)
<1> SUFFICES ASSUME NEW t \in Values, NEW h \in Nat, Ones(f, t, 0) \in {2 * h - 1, 2 * h},
                    NEW k \in 1..Ones(f, t, 0), NEW q \in Index, q <= 2 * (h - k) + 0
             PROVE  Ones(f, t, q) >= k
  BY DEF Advanced
<1>1. Ones(f, t, 0) \in Nat /\ Ones(f, t, q) \in Nat /\ q \in Nat
  BY OnesFinite, IndexFacts DEF Index
<1>2. Ones(f, t, 0) <= Ones(f, t, q) + q
  BY OnesLeft
<1> QED
  BY <1>1, <1>2

\* What an iteration of the right parity adds.
LEMMA AdvancedStep ==
  ASSUME NEW f \in [Index -> Values], NEW d \in {0, 1}, NEW r \in Nat, NEW j \in Int,
         r = d + 2 * j, Advanced(f, r)
  PROVE  Advanced(Exchange(f, d), r + 1)
<1> DEFINE g == Exchange(f, d)
<1>0. ARRAY_SIZE \in Nat /\ ARRAY_SIZE >= 2 /\ d \in Int
  BY IndexFacts
<1> SUFFICES ASSUME NEW t \in Values, NEW h \in Nat, Ones(g, t, 0) \in {2 * h - 1, 2 * h},
                    NEW k \in 1..Ones(g, t, 0), NEW q \in Index,
                    q <= 2 * (h - k) + (r + 1), q <= ARRAY_SIZE - k
             PROVE  Ones(g, t, q) >= k
  BY DEF Advanced
<1>1. Ones(g, t, 0) = Ones(f, t, 0)
  <2>1. ~PairLeft(d, 0 - 1)
    BY IndexFacts DEF PairLeft, Lefts
  <2> QED
    BY <1>0, <2>1, OnesExchange
<1>2. \A x \in Int : Ones(f, t, x) \in Nat /\ Ones(g, t, x) \in Nat
  BY OnesFinite
<1>3. q \in Nat /\ q <= ARRAY_SIZE - 1
  BY <1>0 DEF Index
<1>4. \A i \in 1..Ones(f, t, 0), x \in Index :
        x <= 2 * (h - i) + r /\ x <= ARRAY_SIZE - i => Ones(f, t, x) >= i
  BY <1>1 DEF Advanced
<1>5. Ones(g, t, q) >= Ones(f, t, q)
  BY <1>0, OnesGrow
<1> HIDE DEF g
<1>6. k \in Nat /\ k >= 1 /\ k \in 1..Ones(f, t, 0) /\ Ones(f, t, 0) \in Nat
  BY <1>1, <1>2
<1>7. CASE q <= 2 * (h - k) + r
  <2>1. Ones(f, t, q) >= k
    BY <1>4, <1>6, <1>7
  <2>2. Ones(f, t, q) \in Nat /\ Ones(g, t, q) \in Nat
    BY <1>2, <1>3
  <2> QED
    BY <1>5, <1>6, <2>1, <2>2
<1>8. CASE q = 0
  BY <1>1, <1>2, <1>6, <1>8
<1>9. CASE q # 0 /\ ~(q <= 2 * (h - k) + r)
  <2>1. q = 2 * (h - k) + r + 1
    BY <1>3, <1>6, <1>9
  <2>2. q - 1 \in Lefts /\ q - 1 \in Index /\ (q - 1) + 1 = q /\ (q - 1) + 2 = q + 1
    BY <1>0, <1>3, <1>9 DEF Lefts, Index
  <2>3. PICK l \in Lefts : l = q - 1
    BY <2>2
  <2>4. l = d + 2 * (h - k + j) /\ h - k + j \in Int
    BY <1>0, <1>3, <1>6, <2>1, <2>3
  <2>5. PairLeft(d, l)
    BY <2>4 DEF PairLeft
  <2>6. l \in Index /\ l + 1 = q /\ l + 2 = q + 1 /\ l \in Int /\ q \in Int /\ q + 1 \in Int
    BY <1>3, <2>2, <2>3
  <2>7. Ones(f, t, l) >= k
    <3>1. l <= 2 * (h - k) + r /\ l <= ARRAY_SIZE - k
      BY <1>0, <1>3, <1>6, <2>1, <2>3
    <3> QED
      BY <1>4, <1>6, <2>6, <3>1
  <2>8. /\ f[l] > t => Ones(f, t, l) = Ones(f, t, q) + 1
        /\ ~(f[l] > t) => Ones(f, t, l) = Ones(f, t, q)
        /\ f[q] > t => Ones(f, t, q) = Ones(f, t, q + 1) + 1
        /\ ~(f[q] > t) => Ones(f, t, q) = Ones(f, t, q + 1)
    BY <2>6, OnesStep
  <2>9. /\ f[l] > t \/ f[q] > t => Ones(g, t, q) = Ones(f, t, q + 1) + 1
        /\ ~(f[l] > t \/ f[q] > t) => Ones(g, t, q) = Ones(f, t, q + 1)
    <3>1. /\ f[l] > t \/ f[l + 1] > t => Ones(g, t, l + 1) = Ones(f, t, l + 2) + 1
          /\ ~(f[l] > t \/ f[l + 1] > t) => Ones(g, t, l + 1) = Ones(f, t, l + 2)
      BY <1>0, <2>5, OnesPair, Zenon DEF g
    <3> QED
      BY <2>6, <3>1, Zenon
  <2>10. /\ Ones(f, t, l) \in Nat /\ Ones(f, t, q) \in Nat /\ Ones(f, t, q + 1) \in Nat
         /\ Ones(g, t, q) \in Nat
    BY <1>2, <2>6
  <2>11. CASE f[l] > t /\ f[q] > t
    <3>1. CASE k = 1
      BY <2>9, <2>10, <2>11, <3>1
    <3>2. CASE k # 1
      <4>1. /\ k - 1 \in 1..Ones(f, t, 0) /\ q + 1 \in Index
            /\ q + 1 <= 2 * (h - (k - 1)) + r /\ q + 1 <= ARRAY_SIZE - (k - 1)
        BY <1>0, <1>3, <1>6, <2>1, <3>2 DEF Index
      <4>2. Ones(f, t, q + 1) >= k - 1
        BY <1>4, <4>1
      <4> QED
        BY <1>6, <2>9, <2>10, <2>11, <4>2
    <3> QED
      BY <3>1, <3>2
  <2>12. CASE ~(f[l] > t /\ f[q] > t)
    BY <1>6, <2>7, <2>8, <2>9, <2>10, <2>12
  <2> QED
    BY <2>11, <2>12
<1> QED
  BY <1>7, <1>8, <1>9

\* A zero takes one of the places from q on.
LEMMA OnesRight ==
  ASSUME NEW f, NEW t, NEW q \in Nat, NEW x \in Index, x >= q, ~(f[x] > t)
  PROVE  Ones(f, t, q) <= ARRAY_SIZE - q - 1
<1>0. ARRAY_SIZE \in Nat /\ ARRAY_SIZE >= 2 /\ x \in Nat /\ x <= ARRAY_SIZE - 1
  BY IndexFacts DEF Index
<1>1. PICK n \in Nat : n = ARRAY_SIZE - 1
  BY <1>0
<1>2. IsFiniteSet(q..n) /\ Cardinality(q..n) = n - q + 1
  <2>1. q \in Int /\ n \in Int /\ ~(q > n)
    BY <1>0, <1>1
  <2>2. IsFiniteSet(q..n) /\ Cardinality(q..n) = IF q > n THEN 0 ELSE n - q + 1
    BY <2>1, FS_Interval, Zenon
  <2> QED
    BY <2>1, <2>2, Zenon
<1>3. x \in q..n
  BY <1>0, <1>1
<1>4. IsFiniteSet((q..n) \ {x}) /\ Cardinality((q..n) \ {x}) = Cardinality(q..n) - 1
  BY <1>2, <1>3, FS_RemoveElement, Zenon
<1>5. Above(f, t, q) \in SUBSET ((q..n) \ {x})
  <2>1. \A y \in Index : y >= q => y \in q..n
    BY <1>0, <1>1 DEF Index
  <2> QED
    BY <2>1 DEF Above
<1>6. Cardinality(Above(f, t, q)) <= Cardinality((q..n) \ {x})
  BY <1>4, <1>5, FS_Subset, Zenon
<1>7. Ones(f, t, q) <= (n - q + 1) - 1
  BY <1>2, <1>4, <1>6, Zenon DEF Ones
<1>8. (n - q + 1) - 1 = ARRAY_SIZE - q - 1
  BY <1>0, <1>1
<1> QED
  BY <1>7, <1>8, Zenon

\* After as many iterations as there are cells, every one is in its place.
LEMMA AdvancedEnd ==
  ASSUME NEW f \in [Index -> Values], Advanced(f, ARRAY_SIZE)
  PROVE  Sorted(f)
<1> SUFFICES ASSUME NEW l \in Lefts, ~(f[l] <= f[l + 1]) PROVE FALSE
  BY DEF Sorted
<1>0. /\ ARRAY_SIZE \in Nat /\ ARRAY_SIZE >= 2 /\ Index \subseteq Nat
      /\ l \in Nat /\ l \in Index /\ l + 1 \in Index /\ Values \subseteq Int
  BY IndexFacts DEF Index
<1>1. PICK t \in Values : t = f[l + 1]
  BY <1>0
<1>2. f[l] > t /\ ~(f[l + 1] > t)
  <2>1. f[l] \in Int /\ f[l + 1] \in Int
    BY <1>0
  <2> QED
    BY <1>1, <2>1
<1>3. PICK m \in Nat : m = Ones(f, t, 0)
  BY OnesFinite
<1>4. m <= ARRAY_SIZE - 1
  <2>1. l + 1 >= 0 /\ ARRAY_SIZE - 0 - 1 = ARRAY_SIZE - 1
    BY <1>0
  <2>2. Ones(f, t, 0) <= ARRAY_SIZE - 0 - 1
    BY <1>0, <1>2, <2>1, OnesRight
  <2> QED
    BY <1>3, <2>1, <2>2
<1>5. PICK q \in Nat : q = ARRAY_SIZE - m
  BY <1>0, <1>4
<1>6. Ones(f, t, q) \in Nat /\ IsFiniteSet(Above(f, t, q))
  BY OnesFinite
<1>7. m >= 1 /\ (l < q => Ones(f, t, q) <= m - 1)
  <2>1. l \in Above(f, t, 0) /\ IsFiniteSet(Above(f, t, 0))
    <3>1. l \in Above(f, t, 0)
      BY <1>0, <1>2 DEF Above
    <3> QED
      BY <3>1, OnesFinite, Zenon
  <2>2. /\ IsFiniteSet(Above(f, t, 0) \ {l})
        /\ Cardinality(Above(f, t, 0) \ {l}) = m - 1
    BY <1>3, <2>1, FS_RemoveElement, Zenon DEF Ones
  <2>3. Cardinality(Above(f, t, 0) \ {l}) \in Nat
    BY <2>2, FS_CardinalityType, Zenon
  <2>4. m >= 1
    BY <2>2, <2>3
  <2>5. ASSUME l < q PROVE Ones(f, t, q) <= m - 1
    <3>1. \A x \in Index : x >= q => x >= 0 /\ x # l
      BY <1>0, <2>5
    <3>2. Above(f, t, q) \in SUBSET (Above(f, t, 0) \ {l})
      BY <3>1 DEF Above
    <3>3. Cardinality(Above(f, t, q)) <= Cardinality(Above(f, t, 0) \ {l})
      BY <2>2, <3>2, FS_Subset, Zenon
    <3> QED
      BY <2>2, <3>3, Zenon DEF Ones
  <2> QED
    BY <2>4, <2>5
<1>8. Ones(f, t, q) >= m
  <2>1. PICK h \in Nat : m \in {2 * h - 1, 2 * h}
    <3>1. (m + 1) \div 2 \in Nat /\ m \in {2 * ((m + 1) \div 2) - 1, 2 * ((m + 1) \div 2)}
      BY Z3
    <3> QED
      BY <3>1
  <2>2. q \in Index /\ q <= 2 * (h - m) + ARRAY_SIZE /\ q <= ARRAY_SIZE - m /\ m \in 1..m
    BY <1>0, <1>5, <1>7, <2>1 DEF Index
  <2> QED
    BY <1>3, <2>1, <2>2 DEF Advanced
<1>9. CASE l + 1 >= q
  <2>1. Ones(f, t, q) <= ARRAY_SIZE - q - 1
    BY <1>0, <1>2, <1>9, OnesRight
  <2> QED
    BY <1>0, <1>5, <1>6, <1>8, <2>1
<1>10. CASE ~(l + 1 >= q)
  <2>1. l < q
    BY <1>0, <1>10
  <2> QED
    BY <1>6, <1>7, <1>8, <2>1
<1> QED
  BY <1>9, <1>10

-----------------------------------------------------------------------------
(* What a thread does to it.                                               *)

LEMMA ExchangeSwap ==
  ASSUME NEW f \in [Index -> Values], NEW g \in [Index -> Values], NEW d \in Int,
         NEW l \in Lefts, PairLeft(d, l), f[l] > f[l + 1],
         g[l] = f[l + 1], g[l + 1] = f[l], \A x \in Index \ {l, l + 1} : g[x] = f[x]
  PROVE  Exchange(g, d) = Exchange(f, d)
<1>0. /\ l \in Nat /\ l \in Index /\ l + 1 \in Index /\ Index \subseteq Nat
      /\ \A x \in Lefts : x \in Index /\ x + 1 \in Index
      /\ f[l] \in Int /\ f[l + 1] \in Int
  <2>1. /\ Values \subseteq Int /\ Index \subseteq Nat
        /\ \A r \in Lefts : r \in Index /\ r + 1 \in Index /\ r \in Nat
    BY IndexFacts DEF Index
  <2>2. l \in Index /\ l + 1 \in Index /\ l \in Nat
    BY <2>1
  <2> QED
    BY <2>1, <2>2
<1>1. ~PairLeft(d, l + 1) /\ ~PairLeft(d, l - 1)
  BY <1>0, PairApart
<1>2. Moved(f, d, l) /\ ~Moved(g, d, l)
  <2>1. ~(g[l] > g[l + 1])
    BY <1>0
  <2> QED
    BY <2>1 DEF Moved
<1>3. ASSUME NEW x \in Int, x # l PROVE Moved(g, d, x) <=> Moved(f, d, x)
  <2>1. CASE ~PairLeft(d, x)
    BY <2>1 DEF Moved
  <2>2. CASE PairLeft(d, x)
    <3>1. x \in Index /\ x + 1 \in Index
      BY <1>0, <2>2 DEF PairLeft
    <3>2. x # l + 1 /\ x # l - 1
      BY <1>1, <2>2
    <3>3. x + 1 # l /\ x + 1 # l + 1
      BY <1>0, <1>3, <3>2
    <3>4. g[x] = f[x] /\ g[x + 1] = f[x + 1]
      BY <1>3, <3>1, <3>2, <3>3
    <3> QED
      BY <3>4 DEF Moved
  <2> QED
    BY <2>1, <2>2
<1>4. ASSUME NEW x \in Index PROVE g[Partner(g, d, x)] = f[Partner(f, d, x)]
  <2>1. CASE x = l
    <3>1. Partner(f, d, x) = l + 1
      BY <1>2, <2>1 DEF Partner
    <3>2. ~Moved(g, d, l - 1)
      BY <1>1 DEF Moved
    <3>3. Partner(g, d, x) = l
      BY <1>2, <2>1, <3>2 DEF Partner
    <3> QED
      BY <3>1, <3>3
  <2>2. CASE x = l + 1
    <3>1. x - 1 = l /\ ~Moved(f, d, x) /\ ~Moved(g, d, x)
      BY <1>0, <1>1, <2>2 DEF Moved
    <3>2. Partner(f, d, x) = l /\ Partner(g, d, x) = l + 1
      BY <1>2, <2>2, <3>1 DEF Partner
    <3> QED
      BY <3>2
  <2>3. CASE x # l /\ x # l + 1
    <3>1. x \in Int /\ x - 1 \in Int /\ x - 1 # l
      BY <1>0, <2>3
    <3>2. (Moved(g, d, x) <=> Moved(f, d, x)) /\ (Moved(g, d, x - 1) <=> Moved(f, d, x - 1))
      BY <1>3, <2>3, <3>1
    <3>3. Partner(g, d, x) = Partner(f, d, x)
      BY <3>2 DEF Partner
    <3>4. Partner(f, d, x) \in Index /\ Partner(f, d, x) \notin {l, l + 1}
      <4>1. Partner(f, d, x) \in Index
        BY PartnerFacts
      <4>2. CASE Moved(f, d, x)
        <5>1. Partner(f, d, x) = x + 1 /\ x # l - 1
          BY <1>1, <4>2 DEF Partner, Moved
        <5>2. x + 1 # l /\ x + 1 # l + 1
          BY <1>0, <2>3, <3>1, <5>1
        <5> QED
          BY <4>1, <5>1, <5>2
      <4>3. CASE ~Moved(f, d, x) /\ Moved(f, d, x - 1)
        <5>1. Partner(f, d, x) = x - 1 /\ x - 1 # l + 1
          BY <1>1, <4>3 DEF Partner, Moved
        <5> QED
          BY <3>1, <4>1, <5>1
      <4>4. CASE ~Moved(f, d, x) /\ ~Moved(f, d, x - 1)
        BY <2>3, <4>1, <4>4 DEF Partner
      <4> QED
        BY <4>2, <4>3, <4>4
    <3> QED
      BY <3>3, <3>4
  <2> QED
    BY <2>1, <2>2, <2>3
<1> QED
  BY <1>4 DEF Exchange

LEMMA ExchangeFixed ==
  ASSUME NEW f \in [Index -> Values], NEW d \in Int,
         \A l \in Lefts : PairLeft(d, l) => f[l] <= f[l + 1]
  PROVE  Exchange(f, d) = f
<1>1. \A l : ~Moved(f, d, l)
  <2> SUFFICES ASSUME NEW l, PairLeft(d, l), f[l] > f[l + 1] PROVE FALSE
    BY DEF Moved
  <2>1. l \in Lefts
    BY DEF PairLeft
  <2>2. f[l] \in Int /\ f[l + 1] \in Int
    <3>1. l \in Index /\ l + 1 \in Index /\ Values \subseteq Int
      BY <2>1, IndexFacts
    <3> QED
      BY <3>1
  <2> QED
    BY <2>1, <2>2
<1>2. \A x \in Index : Partner(f, d, x) = x
  BY <1>1 DEF Partner
<1> QED
  BY <1>2 DEF Exchange

-----------------------------------------------------------------------------
(* The invariant of convergence. In an iteration it is not the array that   *)
(* has advanced already, but what the pairs will have made of it.           *)

Turn(d) == \E j \in Int : iteration = d + 2 * j
Ordered(l) == Settled[l] <= Settled[l + 1]

\* How far the thread of a pair is, by where main is.
PairDone(l) ==
  /\ main = "create" /\ l < next => pc[l] # "none"
  /\ main = "join" /\ l >= next => pc[l] # "none"
  /\ \/ main = "check"
     \/ main = "join" /\ l < next
     \/ pc[l] \notin {"none", "compare", "left"}
     => Ordered(l)

ConvInv ==
  /\ iteration <= ARRAY_SIZE
  /\ main = "iterate" =>
       iteration < ARRAY_SIZE /\ Turn(Debut) /\ Advanced(arr, iteration)
  /\ main \in {"create", "join", "check"} => Turn(1 - Debut)
  /\ main \in {"create", "join"} => Advanced(Exchange(Settled, Debut), iteration)
  /\ main = "check" => Advanced(arr, iteration)
  /\ main = "sorted" => Sorted(arr)
  /\ main # "error"
  /\ \A l \in Lefts : PairLeft(Debut, l) => PairDone(l)

LEMMA InitConvInv == Init => ConvInv
<1> SUFFICES ASSUME Init PROVE ConvInv
  OBVIOUS
<1>1. Advanced(arr, 0)
  BY AdvancedStart DEF Init
<1>2. Turn(Debut)
  <2>1. iteration = 0 + 2 * 0 /\ Debut = 0
    BY DEF Init, Debut
  <2> QED
    BY <2>1 DEF Turn
<1>3. 0 < ARRAY_SIZE /\ 0 <= ARRAY_SIZE
  BY IndexFacts
<1>4. main = "iterate" /\ iteration = 0 /\ \A l \in Lefts : pc[l] = "none"
  BY DEF Init
<1>5. \A l \in Lefts : PairDone(l)
  BY <1>4 DEF PairDone
<1> QED
  BY <1>1, <1>2, <1>3, <1>4, <1>5 DEF ConvInv

\* What the steps of main need to know.
LEMMA DebutFacts ==
  /\ Debut \in {0, 1} /\ Debut \in Int
  /\ \A l \in Lefts : PairLeft(Debut, l) <=> Parity(l)
  /\ \A l \in Lefts : Parity(l) => l >= Debut
<1>1. Debut \in {0, 1} /\ Debut \in Int
  BY DEF Debut
<1>2. \A l \in Lefts : PairLeft(Debut, l) <=> Parity(l)
  BY DEF PairLeft, Parity
<1> HIDE DEF Debut
<1>3. ASSUME NEW l \in Lefts, Parity(l) PROVE l >= Debut
  <2>1. PICK k \in Int : l = Debut + 2 * k
    BY <1>3 DEF Parity
  <2>2. l \in Nat
    BY IndexFacts
  <2> QED
    BY <1>1, <2>1, <2>2
<1> QED
  BY <1>1, <1>2, <1>3

\* No thread of the pairs that main looks at has a swap in its hands.
LEMMA SettledIdle ==
  ASSUME TypeOK, \A l \in Lefts : pc[l] # "right"
  PROVE  Settled = arr
BY DEF Settled, TypeOK

\* The invariant's main conjunct, one step later.
LEMMA AdvancedNext ==
  ASSUME NEW f, NEW d, Settled' = f, Debut' = d
  PROVE  Advanced(Exchange(Settled, Debut), iteration)' <=> Advanced(Exchange(f, d), iteration')
<1>1. PICK g : g = Exchange(f, d)
  OBVIOUS
<1>2. Exchange(Settled, Debut)' = g
  BY <1>1 DEF Exchange, Partner, Moved, PairLeft
<1>3. Advanced(Exchange(Settled, Debut), iteration)' <=> Advanced(g, iteration')
  BY <1>2 DEF Advanced, Ones, Above
<1> QED
  BY <1>1, <1>3

LEMMA MainConvInv ==
  ASSUME PairInv, ConvInv, Main
  PROVE  ConvInv'
<1>0. /\ TypeOK /\ PhaseInv /\ ARRAY_SIZE \in Nat /\ ARRAY_SIZE >= 2
      /\ Index \subseteq Nat /\ Lefts = 0..(ARRAY_SIZE - 2)
      /\ arr \in [Index -> Values] /\ iteration \in Nat /\ next \in Nat
      /\ pc \in [Lefts -> Labels]
  BY IndexFacts DEF PairInv, TypeInv, TypeOK, Index, Lefts
<1>1. /\ Debut \in {0, 1} /\ Debut \in Int
      /\ \A l \in Lefts : PairLeft(Debut, l) <=> Parity(l)
      /\ \A l \in Lefts : Parity(l) => l >= Debut
  BY DebutFacts
<1>2. UNCHANGED <<arr, tmp>>
  BY DEF Main, StartIteration, CreateThread, JoinThread, CheckSorted, dataVars
<1>3. ASSUME Parity(next) PROVE \A l \in Lefts : PairLeft(Debut, l) => l # next + 1
  <2> SUFFICES ASSUME NEW l \in Lefts, PairLeft(Debut, l), l = next + 1 PROVE FALSE
    OBVIOUS
  <2>1. PICK j \in Int : next = Debut + 2 * j
    BY <1>3 DEF Parity
  <2>2. PICK k \in Int : l = Debut + 2 * k
    BY DEF PairLeft
  <2> HIDE DEF Debut
  <2> QED
    BY <1>0, <1>1, <2>1, <2>2
<1> HIDE DEF Debut
<1>4. CASE StartIteration
  <2>1. /\ main = "iterate" /\ main' = "create" /\ iteration' = iteration + 1
        /\ next' = Debut /\ pc' = pc /\ Debut' = Debut
    BY <1>4 DEF StartIteration, Debut
  <2>2. iteration < ARRAY_SIZE /\ Turn(Debut) /\ Advanced(arr, iteration)
    BY <2>1 DEF ConvInv
  <2>3. PICK j \in Int : iteration = Debut + 2 * j
    BY <2>2 DEF Turn
  <2>4. \A l \in Lefts : pc[l] = "none"
    BY <1>0, <2>1 DEF PhaseInv
  <2>5. Settled' = arr
    BY <1>0, <1>2, <2>1, <2>4 DEF Settled
  <2>6. Advanced(Exchange(arr, Debut), iteration + 1)
    BY <1>0, <1>1, <2>2, <2>3, AdvancedStep
  <2>7. Turn(1 - Debut)'
    <3>1. iteration + 1 = (1 - Debut) + 2 * (j + Debut) /\ j + Debut \in Int
      BY <1>1, <2>3
    <3> QED
      BY <2>1, <3>1 DEF Turn
  <2>8. \A l \in Lefts : PairLeft(Debut, l)' => PairDone(l)'
    <3> SUFFICES ASSUME NEW l \in Lefts, PairLeft(Debut, l) PROVE PairDone(l)'
      BY <2>1 DEF PairLeft
    <3>1. ~(l < Debut)
      BY <1>0, <1>1
    <3> QED
      BY <2>1, <2>4, <3>1 DEF PairDone
  <2>9. Advanced(Exchange(Settled, Debut), iteration)'
    BY <2>1, <2>5, <2>6, AdvancedNext
  <2>10. iteration' <= ARRAY_SIZE
    BY <1>0, <2>1, <2>2
  <2> QED
    BY <2>1, <2>7, <2>8, <2>9, <2>10 DEF ConvInv
<1>5. CASE CreateThread
  <2>1. main = "create" /\ iteration' = iteration /\ Debut' = Debut /\ Parity(next)
    BY <1>0, <1>5 DEF CreateThread, Debut, PhaseInv
  <2>2. \/ /\ next \in Lefts /\ pc' = [pc EXCEPT ![next] = "compare"] /\ next' = next + 2
           /\ main' = "create"
        \/ next \notin Lefts /\ next' = Debut /\ main' = "join" /\ pc' = pc
    BY <1>5, <2>1 DEF CreateThread
  <2>3. next \in Lefts => pc[next] = "none"
    BY <1>0, <2>1 DEF PhaseInv
  <2>4. Settled' = Settled
    BY <1>0, <1>2, <2>2, <2>3 DEF Settled
  <2>5. Turn(1 - Debut)' /\ Advanced(Exchange(Settled, Debut), iteration)'
    <3>1. Turn(1 - Debut) /\ Advanced(Exchange(Settled, Debut), iteration)
      BY <2>1 DEF ConvInv
    <3>2. Turn(1 - Debut)'
      BY <2>1, <3>1 DEF Turn
    <3> QED
      BY <2>1, <2>4, <3>1, <3>2, AdvancedNext
  <2>6. ASSUME NEW l \in Lefts, PairLeft(Debut, l) PROVE PairDone(l)'
    <3>1. /\ l \in Nat /\ l >= Debut /\ l # next + 1 /\ Ordered(l)' = Ordered(l)
      BY <1>0, <1>1, <1>3, <2>1, <2>4, <2>6 DEF Ordered
    <3>2. PairDone(l)
      BY <2>6 DEF ConvInv
    <3>3. CASE /\ next \in Lefts /\ pc' = [pc EXCEPT ![next] = "compare"]
               /\ next' = next + 2 /\ main' = "create"
      <4>1. l < next + 2 => l < next \/ l = next
        BY <1>0, <3>1
      <4>2. pc'[next] = "compare" /\ \A r \in Lefts : r # next => pc'[r] = pc[r]
        BY <1>0, <3>3
      <4> QED
        BY <2>1, <3>1, <3>2, <3>3, <4>1, <4>2 DEF PairDone
    <3>4. CASE next \notin Lefts /\ next' = Debut /\ main' = "join" /\ pc' = pc
      <4>1. l < next /\ ~(l < Debut)
        BY <1>0, <1>1, <3>1, <3>4
      <4> QED
        BY <2>1, <3>1, <3>2, <3>4, <4>1 DEF PairDone
    <3> QED
      BY <2>2, <3>3, <3>4
  <2>7. \A l \in Lefts : PairLeft(Debut, l)' => PairDone(l)'
    BY <2>1, <2>6 DEF PairLeft
  <2>8. iteration' <= ARRAY_SIZE /\ main' \in {"create", "join"}
    BY <2>1, <2>2 DEF ConvInv
  <2> QED
    BY <2>5, <2>7, <2>8 DEF ConvInv
<1>6. CASE JoinThread
  <2>1. main = "join" /\ iteration' = iteration /\ Debut' = Debut /\ Parity(next)
    BY <1>0, <1>6 DEF JoinThread, Debut, PhaseInv
  <2>2. Turn(1 - Debut) /\ Advanced(Exchange(Settled, Debut), iteration)
    BY <2>1 DEF ConvInv
  <2>3. Turn(1 - Debut)' /\ iteration' <= ARRAY_SIZE
    BY <2>1, <2>2 DEF Turn, ConvInv
  <2>4. CASE next \in Lefts
    <3>1. /\ main' = "join" /\ next' = next + 2 /\ pc[next] = "done" /\ pc'[next] = "none"
          /\ \A r \in Lefts : r # next => pc'[r] = pc[r]
      BY <1>0, <1>6, <2>1, <2>4 DEF JoinThread, Step
    <3>2. Settled' = Settled
      BY <1>0, <1>2, <3>1 DEF Settled
    <3>3. ASSUME NEW l \in Lefts, PairLeft(Debut, l) PROVE PairDone(l)'
      <4>1. l \in Nat /\ l # next + 1 /\ Ordered(l)' = Ordered(l)
        BY <1>0, <1>3, <2>1, <3>2, <3>3 DEF Ordered
      <4>2. PairDone(l)
        BY <3>3 DEF ConvInv
      <4>3. /\ l < next + 2 => l < next \/ l = next
            /\ l >= next + 2 => l >= next /\ l # next
        BY <1>0, <4>1
      <4> QED
        BY <2>1, <3>1, <4>1, <4>2, <4>3 DEF PairDone
    <3>4. \A l \in Lefts : PairLeft(Debut, l)' => PairDone(l)'
      BY <2>1, <3>3 DEF PairLeft
    <3>5. Advanced(Exchange(Settled, Debut), iteration)'
      BY <2>1, <2>2, <3>2, AdvancedNext
    <3> QED
      BY <2>3, <3>1, <3>4, <3>5 DEF ConvInv
  <2>5. CASE next \notin Lefts
    <3>1. main' = "check" /\ pc' = pc
      BY <1>6, <2>5 DEF JoinThread
    <3>2. \A l \in Lefts : l < next
      BY <1>0, <2>5
    <3>3. \A l \in Lefts : pc[l] = "none"
      BY <1>0, <2>1, <3>2 DEF PhaseInv
    <3>4. Settled = arr /\ Settled' = Settled
      BY <1>0, <1>2, <3>1, <3>3 DEF Settled
    <3>5. ASSUME NEW l \in Lefts, PairLeft(Debut, l) PROVE arr[l] <= arr[l + 1]
      BY <2>1, <3>2, <3>4, <3>5 DEF ConvInv, PairDone, Ordered
    <3>6. Exchange(arr, Debut) = arr
      BY <1>0, <1>1, <3>5, ExchangeFixed
    <3>7. Advanced(arr, iteration)
      BY <2>2, <3>4, <3>6
    <3>8. Advanced(arr, iteration)'
      BY <1>2, <2>1, <3>7 DEF Advanced, Ones, Above
    <3>9. \A l \in Lefts : PairLeft(Debut, l)' => PairDone(l)'
      BY <2>1, <3>1, <3>4, <3>5 DEF PairDone, Ordered, PairLeft
    <3> QED
      BY <2>3, <3>1, <3>8, <3>9 DEF ConvInv
  <2> QED
    BY <2>4, <2>5
<1>7. CASE CheckSorted
  <2>1. /\ main = "check" /\ iteration' = iteration /\ pc' = pc
        /\ \A l \in Lefts : pc[l] = "none"
        /\ iteration <= ARRAY_SIZE /\ Turn(1 - Debut) /\ Advanced(arr, iteration)
    BY <1>0, <1>7 DEF CheckSorted, PhaseInv, ConvInv
  <2>2. CASE Sorted(arr)
    <3>1. main' = "sorted" /\ Sorted(arr)'
      BY <1>2, <1>7, <2>2 DEF CheckSorted, Sorted
    <3>2. \A l \in Lefts : PairDone(l)'
      BY <2>1, <3>1 DEF PairDone
    <3> QED
      BY <2>1, <3>1, <3>2 DEF ConvInv
  <2>3. CASE ~Sorted(arr)
    <3>1. iteration # ARRAY_SIZE
      BY <1>0, <2>1, <2>3, AdvancedEnd
    <3>2. iteration < ARRAY_SIZE /\ ~(iteration > 2 * ARRAY_SIZE)
      BY <1>0, <2>1, <3>1
    <3>3. main' = "iterate" /\ paire' = ~paire
      BY <1>7, <2>3, <3>2 DEF CheckSorted
    <3>4. Debut' = 1 - Debut
      <4>1. 1 - 0 = 1 /\ 1 - 1 = 0
        OBVIOUS
      <4> QED
        BY <3>3, <4>1, Zenon DEF Debut
    <3>5. Turn(Debut)' /\ Advanced(arr, iteration)'
      BY <1>2, <2>1, <3>4 DEF Turn, Advanced, Ones, Above
    <3>6. \A l \in Lefts : PairDone(l)'
      BY <2>1, <3>3 DEF PairDone
    <3> QED
      BY <2>1, <3>2, <3>3, <3>5, <3>6 DEF ConvInv
  <2> QED
    BY <2>2, <2>3
<1> QED
  BY <1>4, <1>5, <1>6, <1>7 DEF Main

LEMMA PairConvInv ==
  ASSUME PairInv, ConvInv, NEW l \in Lefts, ComparePair(l)
  PROVE  ConvInv'
<1>0. /\ TypeOK /\ PhaseInv /\ l \in Nat /\ l \in Index /\ l + 1 \in Index
      /\ Index \subseteq Nat /\ Values \subseteq Int
      /\ arr \in [Index -> Values] /\ pc \in [Lefts -> Labels]
  BY IndexFacts DEF PairInv, TypeInv, TypeOK, Index
<1>1. /\ UNCHANGED <<initial, iteration, paire, next, main>>
      /\ pc[l] # "none" /\ pc' \in [Lefts -> Labels] /\ pc'[l] # "none"
      /\ \A r \in Lefts : r # l => pc'[r] = pc[r]
  BY ThreadPhase DEF PairInv
<1>2. main \in {"create", "join"} /\ Debut' = Debut /\ Debut \in Int /\ PairLeft(Debut, l)
  BY <1>0, <1>1, DebutFacts DEF PhaseInv, Debut
<1> HIDE DEF Debut
<1>3. /\ iteration <= ARRAY_SIZE /\ Turn(1 - Debut)
      /\ Advanced(Exchange(Settled, Debut), iteration)
      /\ \A r \in Lefts : PairLeft(Debut, r) => PairDone(r)
  BY <1>2 DEF ConvInv
<1>4. /\ Exchange(Settled, Debut)' = Exchange(Settled, Debut)
      /\ \A r \in Lefts : PairLeft(Debut, r) /\ r # l => Ordered(r)' = Ordered(r)
      /\ pc'[l] \notin {"none", "compare", "left"} => Ordered(l)'
      /\ Ordered(l) => Ordered(l)'
  <2>1. CASE WriteLeft(l)
    <3>1. PICK g : g = Settled'
      OBVIOUS
    <3>2. /\ Settled \in [Index -> Values] /\ g \in [Index -> Values]
          /\ g[l] = Settled[l + 1] /\ g[l + 1] = Settled[l]
          /\ \A x \in Index \ {l, l + 1} : g[x] = Settled[x]
          /\ Settled[l] > Settled[l + 1]
      BY <2>1, <3>1, SettledSwap
    <3>3. Exchange(g, Debut) = Exchange(Settled, Debut)
      BY <1>2, <3>2, ExchangeSwap
    <3>4. Exchange(Settled, Debut)' = Exchange(Settled, Debut)
      BY <1>2, <3>1, <3>3 DEF Exchange, Partner, Moved, PairLeft
    <3>5. Ordered(l)'
      <4>1. Settled[l] \in Int /\ Settled[l + 1] \in Int
        BY <1>0, <3>2
      <4>2. g[l] <= g[l + 1]
        BY <3>2, <4>1
      <4> QED
        BY <3>1, <4>2 DEF Ordered
    <3>6. ASSUME NEW r \in Lefts, PairLeft(Debut, r), r # l PROVE Ordered(r)' = Ordered(r)
      <4>1. r \in Index /\ r + 1 \in Index /\ r \in Nat
        BY IndexFacts
      <4>2. r # l + 1 /\ r # l - 1
        BY <1>0, <1>2, <3>6, PairApart
      <4>3. r \notin {l, l + 1} /\ r + 1 \notin {l, l + 1}
        BY <1>0, <3>6, <4>1, <4>2
      <4> QED
        BY <3>1, <3>2, <4>1, <4>3 DEF Ordered
    <3> QED
      BY <3>4, <3>5, <3>6
  <2>2. CASE ~WriteLeft(l)
    <3>1. Settled' = Settled
      BY <2>2, SettledStays
    <3>2. Exchange(Settled, Debut)' = Exchange(Settled, Debut)
      BY <1>2, <3>1 DEF Exchange, Partner, Moved, PairLeft
    <3>3. \A r \in Lefts : Ordered(r)' = Ordered(r)
      BY <3>1 DEF Ordered
    <3>4. ASSUME pc'[l] \notin {"none", "compare", "left"} PROVE Ordered(l)
      <4>1. CASE Compare(l)
        <5>1. arr[l] <= arr[l + 1] /\ pc[l] = "compare"
          BY <1>0, <3>4, <4>1 DEF Compare, Step
        <5>2. ~(l - 1 \in Lefts /\ pc[l - 1] = "right")
          <6> SUFFICES ASSUME l - 1 \in Lefts, pc[l - 1] = "right" PROVE FALSE
            OBVIOUS
          <6>1. l # (l - 1) + 1
            BY <1>0, <1>1, PhaseDisjoint DEF PairInv
          <6> QED
            BY <1>0, <6>1
        <5>3. (l + 1) - 1 = l
          BY <1>0
        <5> QED
          BY <1>0, <5>1, <5>2, <5>3 DEF Ordered, Settled
      <4>2. CASE ~Compare(l)
        <5>1. pc[l] \notin {"none", "compare", "left"}
          BY <2>2, <4>2 DEF ComparePair, WriteRight, LockSwap, LoadSwaps, StoreSwaps,
             UnlockSwap, LockFlag, SetFlag, UnlockFlag, Step
        <5> QED
          BY <1>2, <1>3, <5>1 DEF PairDone
      <4> QED
        BY <4>1, <4>2
    <3> QED
      BY <3>2, <3>3, <3>4
  <2> QED
    BY <2>1, <2>2
<1>5. ASSUME NEW r \in Lefts, PairLeft(Debut, r) PROVE PairDone(r)'
  <2>1. CASE r # l
    BY <1>1, <1>3, <1>4, <1>5, <2>1 DEF PairDone
  <2>2. CASE r = l
    BY <1>1, <1>2, <1>3, <1>4, <2>2 DEF PairDone
  <2> QED
    BY <2>1, <2>2
<1>6. \A r \in Lefts : PairLeft(Debut, r)' => PairDone(r)'
  BY <1>2, <1>5 DEF PairLeft
<1>7. Turn(1 - Debut)' /\ Advanced(Exchange(Settled, Debut), iteration)'
  BY <1>1, <1>2, <1>3, <1>4 DEF Turn, Advanced, Ones, Above
<1> QED
  BY <1>1, <1>2, <1>3, <1>6, <1>7 DEF ConvInv

LEMMA NextConvInv ==
  ASSUME SortInv, ConvInv, [Next]_vars
  PROVE  ConvInv'
<1>1. CASE Main
  BY <1>1, MainConvInv DEF SortInv
<1>2. CASE \E l \in Lefts : ComparePair(l)
  BY <1>2, PairConvInv DEF SortInv
<1>3. CASE UNCHANGED vars
  <2>1. UNCHANGED <<arr, pc, tmp, iteration, paire, next, main>>
    BY <1>3 DEF vars, dataVars, mainVars
  <2>2. Settled' = Settled /\ Debut' = Debut
    BY <2>1 DEF Settled, Debut
  <2>3. \A l \in Lefts : PairLeft(Debut, l)' => PairDone(l)'
    BY <2>1, <2>2 DEF ConvInv, PairLeft, PairDone, Ordered
  <2>4. /\ Turn(Debut)' = Turn(Debut) /\ Turn(1 - Debut)' = Turn(1 - Debut)
        /\ Advanced(arr, iteration)' = Advanced(arr, iteration)
        /\ Advanced(Exchange(Settled, Debut), iteration)'
             = Advanced(Exchange(Settled, Debut), iteration)
        /\ Sorted(arr)' = Sorted(arr)
    BY <2>1, <2>2 DEF Turn, Advanced, Ones, Above, Exchange, Partner, Moved, PairLeft, Sorted
  <2> QED
    BY <2>1, <2>3, <2>4 DEF ConvInv
<1> QED
  BY <1>1, <1>2, <1>3 DEF Next, Finished

\* "converge en au plus N iterations": the array is sorted after at most as
\* many iterations as it has cells, so the guard against more never fires.
THEOREM ConvergeCorrect == Spec => []Converges
<1>1. ConvInv => Converges
  BY DEF ConvInv, Converges
<1> QED
  BY <1>1, InitSortInv, NextSortInv, InitConvInv, NextConvInv, PTL DEF Spec
=============================================================================
