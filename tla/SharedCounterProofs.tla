------------------------- MODULE SharedCounterProofs ------------------------
(***************************************************************************)
(* What holds of SharedCounter for any number of threads and increments.   *)
(***************************************************************************)
EXTENDS SharedCounter, FiniteSetTheorems, TLAPS

-----------------------------------------------------------------------------
(* The inductive invariant, in named parts.                                *)

Labels == {"none", "for", "load", "store", "unlock", "second", "both", "one", "end"}
Critical == {"load", "store", "unlock"}

TypeInv ==
  /\ program \in {"ex14", "ex15", "ex17", "ex18"}
  /\ use_mutex \in BOOLEAN
  /\ counter \in Nat
  /\ mutex \in [Mutexes -> Threads \union {Unowned}]
  /\ pc \in [Threads -> Labels]
  /\ i \in [Threads -> Nat]
  /\ reg \in [Threads -> Nat]
  /\ created \in 0..Created
  /\ joined \in 0..Created
  /\ main \in {"create", "join", "end", "failed"}

\* Where a thread is in its loop, and what main knows of it.
ThreadInv(t) ==
  /\ pc[t] # "none" <=> t <= created
  /\ pc[t] = "none" => i[t] = 0
  /\ i[t] <= Increments
  /\ pc[t] \in Critical => i[t] < Increments
  /\ pc[t] = "end" => i[t] = Increments
  /\ t <= joined => pc[t] = "end"
LoopInv ==
  /\ \A t \in Threads : ThreadInv(t)
  /\ main \in {"join", "end"} => created = Created
  /\ main = "end" => joined = Created

MutexInv == use_mutex => \A t \in Threads : pc[t] \in Critical => mutex["A"] = t

\* The increments thread t has stored, and the set of all that are stored.
Fin(t) == i[t] + IF pc[t] = "unlock" THEN 1 ELSE 0
Slots == (1..Created) \X (1..Increments)
DoneSet == {s \in Slots : s[2] <= Fin(s[1])}

\* No two threads are between their load and their store.
Exact == use_mutex \/ Created = 1

CountInv ==
  /\ counter <= Cardinality(DoneSet)
  /\ \A t \in Threads : reg[t] <= Cardinality(DoneSet)
  /\ Exact => /\ counter = Cardinality(DoneSet)
              /\ \A t \in Threads : pc[t] = "store" => reg[t] = counter

\* Without the mutex the counter may fall back, but only to 1, and only by a
\* thread's first store.
LowInv ==
  /\ \A t \in Threads : Fin(t) >= 1 => counter >= 1
  /\ \A t \in Threads : pc[t] = "store" /\ i[t] >= 1 => reg[t] >= 1
  /\ counter = 1 => \E t \in Threads : Fin(t) = 1

CounterInv == TypeInv /\ LoopInv /\ MutexInv /\ CountInv /\ LowInv

LEMMA OptionFacts ==
  ASSUME TypeInv
  PROVE  /\ Created \in Nat \ {0} /\ Increments \in Nat /\ 1..Created \subseteq Threads
         /\ Increments <= increments_per_thread /\ Threads \subseteq Nat \ {0}
         /\ Unowned \notin Threads
         /\ program \in {"ex14", "ex17"} => Increments = 0
BY CounterAssumption DEF CounterAssumption, TypeInv, Created, Increments, Threads, Unowned

LEMMA SlotFacts ==
  ASSUME TypeInv
  PROVE  /\ IsFiniteSet(Slots) /\ Cardinality(Slots) = Created * Increments
         /\ IsFiniteSet(DoneSet) /\ DoneSet \subseteq Slots
         /\ Cardinality(DoneSet) \in Nat /\ Cardinality(DoneSet) <= Created * Increments
<1>1. Created \in Nat /\ Increments \in Nat
  BY OptionFacts
<1>2. \A n \in Nat : IsFiniteSet(1..n) /\ Cardinality(1..n) = n
  <2> TAKE n \in Nat
  <2>1. IsFiniteSet(1..n) /\ Cardinality(1..n) = IF 1 > n THEN 0 ELSE n - 1 + 1
    BY FS_Interval
  <2> QED
    BY <2>1
<1>3. /\ IsFiniteSet(1..Created) /\ Cardinality(1..Created) = Created
      /\ IsFiniteSet(1..Increments) /\ Cardinality(1..Increments) = Increments
  BY <1>1, <1>2, Zenon
<1>4. IsFiniteSet(Slots) /\ Cardinality(Slots) = Created * Increments
  <2>1. /\ IsFiniteSet(Slots)
        /\ Cardinality(Slots) = Cardinality(1..Created) * Cardinality(1..Increments)
    BY <1>3, FS_Product, Zenon DEF Slots
  <2> QED
    BY <1>3, <2>1, Zenon
<1>5. DoneSet \subseteq Slots
  BY DEF DoneSet
<1>6. IsFiniteSet(DoneSet) /\ Cardinality(DoneSet) <= Cardinality(Slots)
  BY <1>4, <1>5, FS_Subset, Zenon
<1>7. Cardinality(DoneSet) \in Nat
  BY <1>6, FS_CardinalityType, Zenon
<1> QED
  BY <1>4, <1>5, <1>6, <1>7

LEMMA InitCounterInv == Init => CounterInv
<1> SUFFICES ASSUME Init PROVE CounterInv
  OBVIOUS
<1>1. TypeInv
  <2>1. 0 \in 0..Created
    BY CounterAssumption DEF CounterAssumption, Created
  <2>2. /\ mutex \in [Mutexes -> Threads \union {Unowned}]
        /\ pc \in [Threads -> Labels] /\ i \in [Threads -> Nat] /\ reg \in [Threads -> Nat]
    BY DEF Init, Labels
  <2> QED
    BY <2>1, <2>2 DEF Init, TypeInv
<1>2. /\ \A t \in Threads : pc[t] = "none" /\ i[t] = 0 /\ reg[t] = 0
      /\ counter = 0 /\ created = 0 /\ joined = 0 /\ main = "create"
  BY DEF Init
<1>3. LoopInv /\ MutexInv
  BY <1>1, <1>2, OptionFacts DEF LoopInv, ThreadInv, MutexInv, Critical
<1>4. \A t \in Threads : Fin(t) = 0
  BY <1>2 DEF Fin
<1>5. DoneSet = {}
  BY <1>1, <1>4, OptionFacts DEF DoneSet, Slots
<1>6. Cardinality(DoneSet) = 0
  BY <1>5, FS_EmptySet, Zenon
<1>7. CountInv
  BY <1>2, <1>6 DEF CountInv
<1>8. LowInv
  BY <1>2, <1>4 DEF LowInv
<1> QED
  BY <1>1, <1>3, <1>7, <1>8 DEF CounterInv

\* The stored increments change with a store only.
LEMMA SameDone ==
  ASSUME UNCHANGED options, \A t \in Threads : Fin(t)' = Fin(t), TypeInv
  PROVE  DoneSet' = DoneSet /\ Cardinality(DoneSet)' = Cardinality(DoneSet)
<1>1. Created' = Created /\ Increments' = Increments
  BY DEF options, Created, Increments
<1>2. Slots' = Slots
  BY <1>1 DEF Slots
<1>3. \A s \in Slots : Fin(s[1])' = Fin(s[1])
  BY OptionFacts DEF Slots
<1>4. DoneSet' = DoneSet
  BY <1>2, <1>3 DEF DoneSet
<1> QED
  BY <1>4

\* A step that moves thread t from one place to another.
LEMMA ThreadStep ==
  ASSUME CounterInv, NEW t \in Threads, NEW from, NEW to \in Labels \ {"none"},
         Step(t, from, to), UNCHANGED <<options, mainVars>>, from # "none", from # "end",
         i' \in [Threads -> Nat], \A u \in Threads : u # t => i'[u] = i[u],
         i'[t] <= Increments, to \in Critical => i'[t] < Increments,
         to = "end" => i'[t] = Increments
  PROVE  LoopInv' /\ pc' \in [Threads -> Labels] /\ pc'[t] = to
         /\ \A u \in Threads : u # t => pc'[u] = pc[u]
<1>1. Created' = Created /\ Increments' = Increments
  BY DEF options, Created, Increments
<1>2. pc[t] = from /\ pc' = [pc EXCEPT ![t] = to] /\ pc \in [Threads -> Labels]
  BY DEF Step, CounterInv, TypeInv
<1>3. /\ pc'[t] = to /\ pc' \in [Threads -> Labels]
      /\ \A u \in Threads : u # t => pc'[u] = pc[u]
  BY <1>2
<1>4. created' = created /\ joined' = joined /\ main' = main
  BY DEF mainVars
<1>5. ASSUME NEW u \in Threads PROVE ThreadInv(u)'
  <2>1. ThreadInv(u)
    BY DEF CounterInv, LoopInv
  <2>2. CASE u # t
    BY <1>1, <1>3, <1>4, <2>1, <2>2 DEF ThreadInv
  <2>3. CASE u = t
    <3>1. t <= created /\ ~(t <= joined) /\ to # "none"
      BY <1>2, <2>1, <2>3 DEF ThreadInv
    <3> QED
      BY <1>1, <1>3, <1>4, <2>3, <3>1 DEF ThreadInv
  <2> QED
    BY <2>2, <2>3
<1> QED
  BY <1>1, <1>3, <1>4, <1>5 DEF CounterInv, LoopInv

\* Main creates and joins; it touches no increment.
LEMMA NextMain ==
  ASSUME CounterInv, Main
  PROVE  CounterInv'
<1>0. /\ UNCHANGED <<program, use_mutex, counter, mutex, i, reg>>
      /\ Created' = Created /\ Increments' = Increments /\ Exact' = Exact /\ UNCHANGED options
  BY DEF Main, CreateThread, JoinThread, options, threadVars, Created, Increments, Exact
<1>1. /\ TypeInv /\ pc \in [Threads -> Labels] /\ created \in 0..Created /\ joined \in 0..Created
      /\ Created \in Nat \ {0} /\ 1..Created \subseteq Threads /\ Threads \subseteq Nat \ {0}
      /\ \A t \in Threads : ThreadInv(t)
  BY OptionFacts DEF CounterInv, TypeInv, LoopInv
<1>2. /\ pc' \in [Threads -> Labels] /\ created' \in 0..Created /\ joined' \in 0..Created
      /\ main' \in {"create", "join", "end", "failed"}
      /\ \A t \in Threads : pc'[t] = pc[t] \/ (pc[t] = "none" /\ pc'[t] = "for")
      /\ LoopInv'
  <2>1. CASE created < Created /\ created' = created + 1
             /\ pc' = [pc EXCEPT ![created + 1] = "for"] /\ main' = main /\ main = "create"
             /\ joined' = joined
    <3>1. created + 1 \in Threads /\ created + 1 \in 1..Created
      BY <1>1, <2>1
    <3>2. /\ pc' \in [Threads -> Labels] /\ pc'[created + 1] = "for"
          /\ \A t \in Threads : t # created + 1 => pc'[t] = pc[t]
      BY <1>1, <2>1, <3>1 DEF Labels
    <3>3. pc[created + 1] = "none"
      BY <1>1, <3>1 DEF ThreadInv
    <3>4. ASSUME NEW t \in Threads PROVE ThreadInv(t)'
      <4>1. CASE t = created + 1
        BY <1>0, <1>1, <2>1, <3>1, <3>2, <3>3, <4>1 DEF ThreadInv, Critical
      <4>2. CASE t # created + 1
        <5>1. t \in Nat /\ created \in Nat /\ (t <= created + 1 <=> t <= created)
          BY <1>1, <4>2
        <5> QED
          BY <1>0, <1>1, <2>1, <3>2, <4>2, <5>1 DEF ThreadInv
      <4> QED
        BY <4>1, <4>2
    <3>5. LoopInv'
      BY <2>1, <3>4 DEF LoopInv
    <3>6. created' \in 0..Created
      BY <1>1, <2>1
    <3>7. ASSUME NEW t \in Threads
          PROVE  pc'[t] = pc[t] \/ (pc[t] = "none" /\ pc'[t] = "for")
      BY <3>2, <3>3, Zenon
    <3>8. joined' \in 0..Created /\ main' \in {"create", "join", "end", "failed"}
      BY <1>1, <2>1
    <3> QED
      BY <3>2, <3>5, <3>6, <3>7, <3>8, Zenon
  <2>2. CASE created' = created /\ pc' = pc
    <3>1. \/ joined' = joined
          \/ joined < Created /\ joined' = joined + 1 /\ pc[joined + 1] = "end"
      BY <1>1, <2>2 DEF Main, CreateThread, JoinThread
    <3>2. ASSUME NEW t \in Threads PROVE ThreadInv(t)'
      <4>1. t <= joined' => pc[t] = "end"
        BY <1>1, <3>1 DEF ThreadInv
      <4> QED
        BY <1>0, <1>1, <2>2, <4>1 DEF ThreadInv
    <3>3. joined' \in 0..Created
      BY <1>1, <3>1
    <3>4. /\ main' \in {"create", "join", "end", "failed"}
          /\ main' \in {"join", "end"} => created = Created
          /\ main' = "end" => joined' = Created
      BY <1>1, <2>2 DEF Main, CreateThread, JoinThread, CounterInv, LoopInv, TypeInv
    <3>5. LoopInv'
      BY <1>0, <2>2, <3>2, <3>4 DEF LoopInv
    <3>6. pc' \in [Threads -> Labels] /\ created' \in 0..Created
      BY <1>1, <2>2
    <3>7. \A t \in Threads : pc'[t] = pc[t]
      BY <2>2
    <3> QED
      BY <3>3, <3>4, <3>5, <3>6, <3>7, Zenon
  <2> QED
    BY <2>1, <2>2 DEF Main, CreateThread, JoinThread
<1>3. \A t \in Threads : Fin(t)' = Fin(t)
  BY <1>0, <1>2 DEF Fin
<1>4. Cardinality(DoneSet)' = Cardinality(DoneSet)
  BY <1>0, <1>1, <1>3, SameDone
<1>5. TypeInv'
  BY <1>0, <1>1, <1>2 DEF TypeInv
<1>6. MutexInv'
  BY <1>0, <1>2 DEF CounterInv, MutexInv, Critical
<1>7. CountInv'
  BY <1>0, <1>2, <1>4 DEF CounterInv, CountInv
<1>8. LowInv'
  BY <1>0, <1>2, <1>3 DEF CounterInv, LowInv
<1> QED
  BY <1>2, <1>5, <1>6, <1>7, <1>8 DEF CounterInv

\* The steps of a thread but its store: Fin, and so the stored increments,
\* stay the same.
LEMMA NextThread ==
  ASSUME CounterInv, NEW t \in Threads, Increment(t), ~Store(t)
  PROVE  CounterInv'
<1>0. /\ UNCHANGED <<program, use_mutex, counter>> /\ UNCHANGED <<options, mainVars>>
      /\ Created' = Created /\ Increments' = Increments /\ Exact' = Exact
      /\ UNCHANGED <<created, joined, main>>
  BY DEF Increment, Lock, Load, Unlock, EndLoop, LockInTurn, options, threadVars, mainVars,
     Created, Increments, Exact
<1>1. /\ TypeInv /\ ThreadInv(t) /\ LowInv /\ CountInv /\ MutexInv
      /\ pc \in [Threads -> Labels] /\ i \in [Threads -> Nat]
      /\ reg \in [Threads -> Nat] /\ mutex \in [Mutexes -> Threads \union {Unowned}]
      /\ i[t] \in Nat /\ Increments \in Nat /\ counter \in Nat
  BY OptionFacts DEF CounterInv, TypeInv, LoopInv
<1>2. Threads \subseteq Nat \ {0} /\ Unowned \notin Threads
  BY <1>1, OptionFacts
\* What is left to show, whatever the step.
<1>p. \A from, to : Step(t, from, to) => pc[t] = from
  BY DEF Step
<1>3. ASSUME LoopInv', pc' \in [Threads -> Labels], i' \in [Threads -> Nat],
             reg' \in [Threads -> Nat], mutex' \in [Mutexes -> Threads \union {Unowned}],
             MutexInv', \A u \in Threads : Fin(u)' = Fin(u),
             \A u \in Threads : reg'[u] = reg[u] \/ reg'[u] = counter,
             \A u \in Threads : pc'[u] = "store" =>
               \/ pc[u] = "store" /\ reg'[u] = reg[u] /\ i'[u] = i[u]
               \/ reg'[u] = counter /\ i'[u] = i[u]
      PROVE  CounterInv'
  <2>1. Cardinality(DoneSet)' = Cardinality(DoneSet)
    BY <1>0, <1>1, <1>3, SameDone
  <2>2. TypeInv'
    BY <1>0, <1>1, <1>3 DEF TypeInv
  <2>3. CountInv'
    BY <1>0, <1>1, <1>3, <2>1 DEF CountInv
  <2>4. LowInv'
    <3>1. \A u \in Threads : i[u] >= 1 => Fin(u) >= 1
      BY <1>1 DEF Fin
    <3>2. \A u \in Threads : pc'[u] = "store" /\ i'[u] >= 1 => reg'[u] >= 1
      BY <1>1, <1>3, <3>1 DEF LowInv
    <3> QED
      BY <1>0, <1>1, <1>3, <3>2 DEF LowInv
  <2> QED
    BY <1>3, <2>2, <2>3, <2>4 DEF CounterInv
<1>4. CASE Lock(t)
  <2>1. /\ Step(t, "for", "load") /\ UNCHANGED <<i, reg>> /\ i[t] < Increments
        /\ IF use_mutex THEN Take(t, "A") ELSE UNCHANGED mutex
    BY <1>4 DEF Lock
  <2>2. /\ LoopInv' /\ pc' \in [Threads -> Labels] /\ pc'[t] = "load" /\ pc[t] = "for"
        /\ \A u \in Threads : u # t => pc'[u] = pc[u]
    BY <1>0, <1>1, <1>p, <2>1, ThreadStep DEF Labels
  <2>3. \A u \in Threads : Fin(u)' = Fin(u)
    BY <2>1, <2>2 DEF Fin
  <2>4. /\ mutex' \in [Mutexes -> Threads \union {Unowned}]
        /\ use_mutex => mutex["A"] = Unowned /\ mutex'["A"] = t
    BY <1>1, <2>1 DEF Take, Mutexes
  <2>5. MutexInv'
    BY <1>0, <1>1, <1>2, <2>2, <2>4 DEF MutexInv, Critical
  <2> QED
    BY <1>1, <1>3, <2>1, <2>2, <2>3, <2>4, <2>5
<1>5. CASE Load(t)
  <2>1. /\ Step(t, "load", "store") /\ UNCHANGED <<i, mutex>> /\ reg' = [reg EXCEPT ![t] = counter]
        /\ i[t] < Increments
    BY <1>1, <1>5 DEF Load, Step, ThreadInv, Critical
  <2>2. /\ LoopInv' /\ pc' \in [Threads -> Labels] /\ pc'[t] = "store" /\ pc[t] = "load"
        /\ \A u \in Threads : u # t => pc'[u] = pc[u]
    BY <1>0, <1>1, <1>p, <2>1, ThreadStep DEF Labels
  <2>3. \A u \in Threads : Fin(u)' = Fin(u)
    BY <2>1, <2>2 DEF Fin
  <2>4. reg' \in [Threads -> Nat] /\ reg'[t] = counter /\ \A u \in Threads : u # t => reg'[u] = reg[u]
    BY <1>1, <2>1
  <2>5. MutexInv'
    BY <1>0, <1>1, <2>1, <2>2 DEF MutexInv, Critical
  <2> QED
    BY <1>1, <1>3, <2>1, <2>2, <2>3, <2>4, <2>5
<1>6. CASE Unlock(t)
  <2>1. /\ Step(t, "unlock", "for") /\ UNCHANGED reg /\ i' = [i EXCEPT ![t] = i[t] + 1]
        /\ i[t] < Increments /\ IF use_mutex THEN Release("A") ELSE UNCHANGED mutex
    BY <1>1, <1>6 DEF Unlock, Step, ThreadInv, Critical
  <2>2. /\ i' \in [Threads -> Nat] /\ i'[t] = i[t] + 1 /\ i'[t] <= Increments
        /\ \A u \in Threads : u # t => i'[u] = i[u]
    BY <1>1, <2>1
  <2>3. /\ LoopInv' /\ pc' \in [Threads -> Labels] /\ pc'[t] = "for" /\ pc[t] = "unlock"
        /\ \A u \in Threads : u # t => pc'[u] = pc[u]
    BY <1>0, <1>1, <1>p, <2>1, <2>2, ThreadStep DEF Labels, Critical
  <2>4. \A u \in Threads : Fin(u)' = Fin(u)
    BY <1>1, <2>2, <2>3 DEF Fin
  <2>5. mutex' \in [Mutexes -> Threads \union {Unowned}]
    BY <1>1, <2>1 DEF Release, Mutexes
  <2>6. MutexInv'
    BY <1>0, <1>1, <1>2, <2>3 DEF MutexInv, Critical
  <2> QED
    BY <1>1, <1>3, <2>1, <2>2, <2>3, <2>4, <2>5, <2>6
<1>7. CASE EndLoop(t)
  <2>1. Step(t, "for", "end") /\ UNCHANGED <<i, reg, mutex>> /\ i[t] = Increments
    BY <1>7 DEF EndLoop, threadVars
  <2>2. /\ LoopInv' /\ pc' \in [Threads -> Labels] /\ pc'[t] = "end" /\ pc[t] = "for"
        /\ \A u \in Threads : u # t => pc'[u] = pc[u]
    BY <1>0, <1>1, <1>p, <2>1, ThreadStep DEF Labels, Critical
  <2>3. \A u \in Threads : Fin(u)' = Fin(u)
    BY <2>1, <2>2 DEF Fin
  <2>4. MutexInv'
    BY <1>0, <1>1, <2>1, <2>2 DEF MutexInv, Critical
  <2> QED
    BY <1>1, <1>3, <2>1, <2>2, <2>3, <2>4
<1>8. CASE LockInTurn(t)
  <2>1. PICK from \in {"for", "second", "both", "one"}, to \in {"second", "both", "one", "end"} :
          Step(t, from, to)
    BY <1>8 DEF LockInTurn
  <2>2. UNCHANGED <<i, reg>> /\ Increments = 0 /\ program = "ex17"
    BY <1>1, <1>8, OptionFacts DEF LockInTurn
  <2>3. /\ LoopInv' /\ pc' \in [Threads -> Labels] /\ pc'[t] = to /\ pc[t] = from
        /\ \A u \in Threads : u # t => pc'[u] = pc[u]
    BY <1>0, <1>1, <1>p, <2>1, <2>2, ThreadStep DEF Labels, Critical, ThreadInv
  <2>4. \A u \in Threads : Fin(u)' = Fin(u)
    BY <2>2, <2>3 DEF Fin
  <2>5. mutex' \in [Mutexes -> Threads \union {Unowned}]
    BY <1>1, <1>8 DEF LockInTurn, Take, Release, Mutexes, First, Second
  <2>6. \A u \in Threads : pc'[u] \notin Critical
    <3>1. \A u \in Threads : ThreadInv(u)' /\ i'[u] \in Nat
      BY <1>1, <2>2, <2>3 DEF LoopInv
    <3> QED
      BY <1>0, <2>2, <3>1 DEF ThreadInv
  <2>7. MutexInv'
    BY <2>6 DEF MutexInv
  <2> QED
    BY <1>1, <1>3, <2>2, <2>3, <2>4, <2>5, <2>6, <2>7 DEF Critical
<1> QED
  BY <1>4, <1>5, <1>6, <1>7, <1>8 DEF Increment

\* A store adds one increment to those stored. With the mutex, or with one
\* thread, the register is what the counter is; without, it is less or equal.
LEMMA NextStore ==
  ASSUME CounterInv, NEW t \in Threads, Store(t)
  PROVE  CounterInv'
<1>0. /\ UNCHANGED <<program, use_mutex, mutex, i, reg>> /\ UNCHANGED <<options, mainVars>>
      /\ Created' = Created /\ Increments' = Increments /\ Exact' = Exact
      /\ UNCHANGED <<created, joined, main>>
      /\ counter' = reg[t] + 1 /\ Step(t, "store", "unlock")
  BY DEF Store, options, mainVars, Created, Increments, Exact
<1>1. /\ TypeInv /\ LowInv /\ CountInv /\ MutexInv
      /\ pc \in [Threads -> Labels] /\ i \in [Threads -> Nat]
      /\ reg \in [Threads -> Nat] /\ reg[t] \in Nat
      /\ i[t] \in Nat /\ Increments \in Nat /\ counter \in Nat /\ i[t] < Increments
      /\ \A u \in Threads : ThreadInv(u)
      /\ Created \in Nat \ {0} /\ created \in 0..Created
      /\ Threads \subseteq Nat \ {0}
  BY <1>0, OptionFacts DEF CounterInv, TypeInv, LoopInv, ThreadInv, Critical, Step
<1>p. pc[t] = "store"
  BY <1>0 DEF Step
<1>2. /\ LoopInv' /\ pc' \in [Threads -> Labels] /\ pc'[t] = "unlock" /\ pc[t] = "store"
      /\ \A u \in Threads : u # t => pc'[u] = pc[u]
  BY <1>0, <1>1, <1>p, ThreadStep DEF Labels
<1>3. /\ Fin(t) = i[t] /\ Fin(t)' = i[t] + 1
      /\ \A u \in Threads : u # t => Fin(u)' = Fin(u)
      /\ \A u \in Threads : Fin(u) \in Nat
  BY <1>0, <1>1, <1>2 DEF Fin
<1>4. Cardinality(DoneSet)' = Cardinality(DoneSet) + 1
  <2>1. t \in 1..Created
    BY <1>1, <1>2 DEF ThreadInv
  <2>2. <<t, i[t] + 1>> \in Slots /\ <<t, i[t] + 1>> \notin DoneSet
    BY <1>1, <1>3, <2>1 DEF Slots, DoneSet
  <2>3. DoneSet' = DoneSet \union {<<t, i[t] + 1>>}
    <3>1. Slots' = Slots
      BY <1>0 DEF Slots
    <3>2. ASSUME NEW s \in Slots
          PROVE  s[2] <= Fin(s[1])' <=> s[2] <= Fin(s[1]) \/ s = <<t, i[t] + 1>>
      <4>1. s = <<s[1], s[2]>> /\ s[1] \in Threads /\ s[2] \in Nat
        BY <1>1, OptionFacts DEF Slots
      <4>2. CASE s[1] = t
        BY <1>1, <1>3, <4>1, <4>2
      <4>3. CASE s[1] # t
        BY <1>3, <4>1, <4>3
      <4> QED
        BY <4>2, <4>3
    <3> QED
      BY <2>2, <3>1, <3>2 DEF DoneSet
  <2>4. IsFiniteSet(DoneSet)
    BY <1>1, SlotFacts
  <2>5. Cardinality(DoneSet \union {<<t, i[t] + 1>>}) = Cardinality(DoneSet) + 1
    BY <2>2, <2>4, FS_AddElement, Zenon
  <2> QED
    BY <2>3, <2>5
<1>5. Cardinality(DoneSet) \in Nat
  BY <1>1, SlotFacts
<1>6. TypeInv'
  BY <1>0, <1>1, <1>2 DEF TypeInv
<1>7. MutexInv'
  BY <1>0, <1>1, <1>2 DEF MutexInv, Critical
<1>8. CountInv'
  <2>1. reg[t] <= Cardinality(DoneSet) /\ \A u \in Threads : reg[u] \in Nat /\ reg[u] <= Cardinality(DoneSet)
    BY <1>1 DEF CountInv
  <2>2. ASSUME Exact, NEW u \in Threads, pc'[u] = "store"
        PROVE  FALSE
    <3>1. u # t /\ pc[u] = "store"
      BY <1>2, <2>2
    <3>2. CASE use_mutex
      BY <1>1, <1>2, <3>1, <3>2 DEF MutexInv, Critical
    <3>3. CASE Created = 1
      <4>1. u <= created /\ t <= created
        BY <1>1, <1>2, <3>1 DEF ThreadInv
      <4> QED
        BY <1>1, <3>1, <3>3, <4>1
    <3> QED
      BY <2>2, <3>2, <3>3 DEF Exact
  <2>3. Exact => reg[t] = Cardinality(DoneSet)
    BY <1>1, <1>2 DEF CountInv
  <2>4. counter' <= Cardinality(DoneSet) + 1 /\ \A u \in Threads : reg[u] <= Cardinality(DoneSet) + 1
    BY <1>0, <1>1, <1>5, <2>1
  <2> QED
    BY <1>0, <1>4, <2>2, <2>3, <2>4 DEF CountInv
<1>9. LowInv'
  <2>1. counter' >= 1
    BY <1>0, <1>1
  <2>2. \A u \in Threads : pc'[u] = "store" /\ i'[u] >= 1 => reg'[u] >= 1
    BY <1>0, <1>1, <1>2 DEF LowInv
  <2>3. counter' = 1 => Fin(t)' = 1
    BY <1>0, <1>1, <1>2, <1>3 DEF LowInv
  <2> QED
    BY <2>1, <2>2, <2>3 DEF LowInv
<1> QED
  BY <1>2, <1>6, <1>7, <1>8, <1>9 DEF CounterInv

LEMMA NextCounterInv ==
  ASSUME CounterInv, [Next]_vars
  PROVE  CounterInv'
<1>1. CASE Main
  BY <1>1, NextMain
<1>2. CASE \E t \in Threads : Increment(t)
  BY <1>2, NextThread, NextStore
<1>3. CASE UNCHANGED vars
  <2>1. /\ UNCHANGED <<program, use_mutex, counter, mutex, pc, i, reg, created, joined, main>>
    BY <1>3 DEF vars, options, threadVars, mainVars
  <2>2. TypeInv' /\ LoopInv' /\ MutexInv'
    BY <2>1 DEF CounterInv, TypeInv, LoopInv, ThreadInv, MutexInv, Created, Increments
  <2>3. \A t \in Threads : Fin(t)' = Fin(t)
    BY <2>1 DEF Fin
  <2>4. Cardinality(DoneSet)' = Cardinality(DoneSet)
    BY <2>1, <2>3, SameDone DEF CounterInv, options
  <2>5. CountInv' /\ LowInv'
    BY <2>1, <2>3, <2>4 DEF CounterInv, CountInv, LowInv, Exact, Created
  <2> QED
    BY <2>2, <2>5 DEF CounterInv
<1> QED
  BY <1>1, <1>2, <1>3 DEF Next, Finished

-----------------------------------------------------------------------------
(* The theorems.                                                           *)

\* When main ends every increment has been stored.
LEMMA AllStored ==
  ASSUME CounterInv, main = "end"
  PROVE  /\ \A t \in 1..Created : t \in Threads /\ Fin(t) = Increments
         /\ Cardinality(DoneSet) = Created * Increments
<1>1. /\ TypeInv /\ 1..Created \subseteq Threads /\ joined = Created /\ Created \in Nat \ {0}
      /\ \A t \in Threads : ThreadInv(t)
  BY OptionFacts DEF CounterInv, LoopInv
<1>2. \A t \in 1..Created : t \in Threads /\ Fin(t) = Increments
  <2> SUFFICES ASSUME NEW t \in 1..Created PROVE t \in Threads /\ Fin(t) = Increments
    OBVIOUS
  <2>1. t \in Threads /\ pc[t] = "end" /\ i[t] = Increments
    BY <1>1 DEF ThreadInv
  <2> QED
    BY <1>1, <2>1, OptionFacts DEF Fin
<1>3. DoneSet = Slots
  <2> SUFFICES ASSUME NEW s \in Slots PROVE s[2] <= Fin(s[1])
    BY DEF DoneSet
  <2>1. s[1] \in 1..Created /\ s[2] \in 1..Increments
    BY DEF Slots
  <2> QED
    BY <1>1, <1>2, <2>1, OptionFacts
<1> QED
  BY <1>1, <1>2, <1>3, SlotFacts

LEMMA CounterInvImplies ==
  ASSUME CounterInv
  PROVE  TypeOK /\ CorrectWithMutex /\ RaceBounds
<1>1. /\ TypeInv /\ CountInv /\ LowInv
      /\ Created \in Nat \ {0} /\ Increments \in Nat /\ 1..Created \subseteq Threads
      /\ Increments <= increments_per_thread
      /\ Cardinality(DoneSet) \in Nat /\ Cardinality(DoneSet) <= Created * Increments
  BY OptionFacts, SlotFacts DEF CounterInv
<1>2. TypeOK
  <2>1. \A m, n \in Nat : m * n \in Nat
    OBVIOUS
  <2>2. PICK max \in Nat : max = Created * Increments
    BY <1>1, <2>1, Zenon
  <2>3. counter \in 0..max
    BY <1>1, <2>2 DEF TypeInv, CountInv
  <2>4. reg \in [Threads -> 0..max]
    BY <1>1, <2>2 DEF TypeInv, CountInv
  <2>5. i \in [Threads -> 0..increments_per_thread]
    BY <1>1, CounterAssumption DEF CounterInv, TypeInv, LoopInv, ThreadInv, CounterAssumption
  <2> QED
    BY <1>1, <2>2, <2>3, <2>4, <2>5 DEF TypeInv, TypeOK, Labels
<1>3. CorrectWithMutex
  BY <1>1, AllStored DEF CorrectWithMutex, CountInv, Exact
<1>4. ASSUME main = "end", program = "ex18"
      PROVE  /\ counter <= attendu
             /\ counter >= IF nb_threads = 1 \/ increments_per_thread = 1
                             THEN increments_per_thread ELSE 2
  <2>1. Created = nb_threads /\ Increments = increments_per_thread
    BY <1>4 DEF Created, Increments
  <2>2. /\ \A t \in 1..Created : t \in Threads /\ Fin(t) = Increments
        /\ Cardinality(DoneSet) = Created * Increments
    BY <1>4, AllStored
  <2>3. counter \in Nat /\ Increments >= 1 /\ Created >= 1
    BY <1>1, <2>1, CounterAssumption DEF TypeInv, CounterAssumption
  <2>4. counter <= attendu
    BY <1>1, <2>1, <2>2 DEF CountInv, attendu
  <2>5. counter >= 1
    BY <1>1, <2>2, <2>3 DEF LowInv
  <2>6. counter = 1 => Increments = 1
    <3> SUFFICES ASSUME counter = 1 PROVE Increments = 1
      OBVIOUS
    <3>1. PICK t \in Threads : Fin(t) = 1
      BY <1>1 DEF LowInv
    <3>2. ThreadInv(t) /\ created = Created /\ i[t] \in Nat /\ t \in Nat \ {0}
      BY <1>1, <1>4, OptionFacts DEF CounterInv, LoopInv, TypeInv
    <3>3. pc[t] # "none"
      BY <3>1, <3>2 DEF ThreadInv, Fin
    <3>4. t \in 1..Created
      BY <1>1, <3>2, <3>3 DEF ThreadInv
    <3> QED
      BY <2>2, <3>1, <3>4
  <2>7. Created = 1 => counter = Increments
    <3>1. Created = 1 => counter = Created * Increments
      BY <1>1, <2>2 DEF CountInv, Exact
    <3> QED
      BY <1>1, <3>1
  <2> QED
    BY <1>1, <2>1, <2>3, <2>4, <2>5, <2>6, <2>7
<1> QED
  BY <1>2, <1>3, <1>4 DEF RaceBounds

\* Type correctness; above all, neither the counter nor a register is ever
\* more than the number of increments.
THEOREM TypeCorrect == Spec => []TypeOK
  BY InitCounterInv, NextCounterInv, CounterInvImplies, PTL DEF Spec

\* "--mutex -> toujours correct": the result is the number of increments.
THEOREM MutexCorrect == Spec => []CorrectWithMutex
  BY InitCounterInv, NextCounterInv, CounterInvImplies, PTL DEF Spec

\* What the race can do to the result at worst, for any number of threads
\* and increments.
THEOREM RaceCorrect == Spec => []RaceBounds
  BY InitCounterInv, NextCounterInv, CounterInvImplies, PTL DEF Spec
=============================================================================
