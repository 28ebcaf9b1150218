------------------------- MODULE BoundedBufferProofs --------------------------
(***************************************************************************)
(* What holds of BoundedBuffer for every size of the ring, every number of *)
(* items and every number of spurious wakeups.                             *)
(***************************************************************************)
EXTENDS BoundedBuffer, SequenceTheorems, TLAPS

-----------------------------------------------------------------------------
(* The invariant.                                                          *)

\* The mutex excludes.
MutexInv == \A t \in Threads : Holding(t) => mutex = t

\* A loop that has not ended has a turn left.
LoopInv == \A t \in Threads : IF pc[t] = "done" THEN i[t] = ITEMS ELSE i[t] < ITEMS

\* The items count has been told of.
Counted(t) == i[t] + (IF pc[t] \in {"signal", "unlock"} THEN 1 ELSE 0)

\* count is right outside of the sections, and a thread that was let through
\* still need not wait when it changes the ring.
CountInv ==
  /\ count = Counted(P) - Counted(C)
  /\ \A t \in Threads : pc[t] = "store" => reg[t] = count
  /\ \A t \in Threads : pc[t] \in {"move", "load", "store"} => ~MustWait(t)

\* The items in the ring, and the slot of the n-th after the one at index x.
InRing == Moved(P) - Moved(C)
Wrap(x) == IF x < TAILLE THEN x ELSE x - TAILLE

\* The ring holds the items between the two ends, in order.
RingInv ==
  /\ Len(consumed) = Moved(C)
  /\ InOrder
  /\ in = Wrap(out + InRing)
  /\ \A n \in 0..(InRing - 1) : buffer[Wrap(out + n)] = Moved(C) + n

IInv == TypeOK /\ MutexInv /\ LoopInv /\ CountInv /\ RingInv

-----------------------------------------------------------------------------
\* An index steps around the ring without a division.
LEMMA WrapMod == \A x \in 0..(2 * TAILLE - 1) : x % TAILLE = Wrap(x)
<1>1. TAILLE \in Nat \ {0}
  BY BufferAssumption DEF BufferAssumption
<1>2. \A x \in 0..(TAILLE - 1) : x % TAILLE = x
  BY <1>1
<1>3. \A x \in TAILLE..(2 * TAILLE - 1) : x % TAILLE = x - TAILLE
  BY <1>1
<1> QED
  BY <1>1, <1>2, <1>3 DEF Wrap

\* There are two threads, and neither is the mutex's rest value.
LEMMA TwoThreads ==
  /\ P # C /\ P \in Threads /\ C \in Threads
  /\ Unowned \notin Threads
  /\ \A t \in Threads : Other(t) \in Threads /\ Other(t) # t
  /\ \A t \in Threads : t = P \/ t = C
  BY DEF P, C, Threads, Unowned, Other

\* Between two steps the distance of the ends is count, give or take the
\* item in the hands of the thread that holds the mutex.
LEMMA Distance ==
  ASSUME IInv
  PROVE  /\ InRing \in 0..TAILLE
         /\ pc[P] = "move" => InRing = count /\ count < TAILLE
         /\ pc[C] = "move" => InRing = count /\ count > 0
         /\ \A t \in Threads : pc[t] = "store" => count + (IF t = P THEN 1 ELSE -1) \in 0..TAILLE
<1>1. /\ count \in 0..TAILLE /\ TAILLE \in Nat \ {0}
      /\ i \in [Threads -> 0..ITEMS] /\ pc \in [Threads -> Labels]
      /\ ITEMS \in Nat
  BY BufferAssumption DEF BufferAssumption, IInv, TypeOK
<1>2. ~(Holding(P) /\ Holding(C))
  BY TwoThreads DEF IInv, MutexInv
<1>3. /\ count = Counted(P) - Counted(C)
      /\ pc[P] \in {"move", "load", "store"} => count # TAILLE
      /\ pc[C] \in {"move", "load", "store"} => count # 0
  BY TwoThreads DEF IInv, CountInv, MustWait
<1>4. i[P] \in Nat /\ i[C] \in Nat
  BY <1>1, TwoThreads
<1>5. InRing = count + (IF pc[P] \in {"load", "store"} THEN 1 ELSE 0)
                     - (IF pc[C] \in {"load", "store"} THEN 1 ELSE 0)
  BY <1>3, <1>4 DEF InRing, Moved, Counted
<1> QED
  BY <1>1, <1>2, <1>3, <1>5, TwoThreads DEF Holding

\* An empty ring, count 0 and two threads that hold nothing.
LEMMA InitIInv == Init => IInv
<1> SUFFICES ASSUME Init PROVE IInv
  OBVIOUS
<1>1. TAILLE \in Nat \ {0} /\ ITEMS \in Nat \ {0} /\ MAX_SPURIOUS \in Nat
  BY BufferAssumption DEF BufferAssumption
<1>2. TypeOK
  BY <1>1 DEF Init, TypeOK, Labels
<1>3. Moved(P) = 0 /\ Moved(C) = 0 /\ Counted(P) = 0 /\ Counted(C) = 0
  BY TwoThreads DEF Init, Moved, Counted
<1>4. MutexInv /\ LoopInv /\ CountInv
  BY <1>1, <1>3, TwoThreads DEF Init, MutexInv, LoopInv, CountInv, Holding, MustWait
<1>5. RingInv
  BY <1>1, <1>3 DEF Init, RingInv, InRing, InOrder, Wrap
<1> QED
  BY <1>2, <1>4, <1>5 DEF IInv

-----------------------------------------------------------------------------
(* Steps.                                                                  *)

\* Every step keeps the types; a store needs CountInv to stay in 0..TAILLE.
LEMMA NextTypeOK == IInv /\ Next => TypeOK'
<1> SUFFICES ASSUME IInv, Next PROVE TypeOK'
  OBVIOUS
<1>1. TypeOK /\ TAILLE \in Nat \ {0} /\ ITEMS \in Nat \ {0}
  BY BufferAssumption DEF BufferAssumption, IInv
<1> USE <1>1 DEF TypeOK
<1>2. ASSUME NEW t \in Threads, Lock(t) \/ Test(t) \/ LoadCount(t) \/ Signal(t)
      PROVE  TypeOK'
  <2>1. CASE Lock(t)
    BY <2>1, TwoThreads DEF Lock, ringVars, Goto, Labels
  <2>2. CASE Test(t)
    <3>1. pc' \in [Threads -> Labels]
      BY <2>2 DEF Test, Goto, Labels
    <3>2. mutex' \in Threads \union {Unowned}
      BY <2>2 DEF Test
    <3>3. UNCHANGED <<buffer, in, out, count, i, reg, consumed, spurious, joined>>
      BY <2>2 DEF Test, ringVars
    <3> QED
      BY <3>1, <3>2, <3>3
  <2>3. CASE LoadCount(t)
    BY <2>3, TwoThreads DEF LoadCount, ringVars, Goto, Labels
  <2>4. CASE Signal(t)
    BY <2>4, TwoThreads DEF Signal, ringVars, Labels
  <2> QED
    BY <1>2, <2>1, <2>2, <2>3, <2>4
<1>3. ASSUME NEW t \in Threads, StoreCount(t)
      PROVE  TypeOK'
  <2>1. count' \in 0..TAILLE
    <3>1. reg[t] = count
      BY <1>3 DEF StoreCount, IInv, CountInv
    <3> QED
      BY <1>3, <3>1, Distance DEF StoreCount
  <2> QED
    BY <1>3, <2>1 DEF StoreCount, ringVars, Goto, Labels
<1>4. ASSUME NEW t \in Threads, Unlock(t)
      PROVE  TypeOK'
  <2>1. i[t] < ITEMS
    BY <1>4 DEF Unlock, IInv, LoopInv
  <2>2. pc' \in [Threads -> Labels] /\ i' \in [Threads -> 0..ITEMS]
    BY <1>4, <2>1 DEF Unlock, Goto, Labels
  <2>3. mutex' = Unowned /\ UNCHANGED <<buffer, in, out, count, reg, consumed, spurious, joined>>
    BY <1>4 DEF Unlock, ringVars
  <2> QED
    BY <2>2, <2>3
<1>5. ASSUME NEW t \in Threads, WakeSpuriously(t)
      PROVE  TypeOK'
  BY <1>5, BufferAssumption DEF BufferAssumption, WakeSpuriously, ringVars, Goto, Labels
<1>6. CASE Put
  <2>1. i[P] \in 0..(ITEMS - 1)
    <3>1. i[P] < ITEMS
      BY <1>6, TwoThreads DEF Put, IInv, LoopInv
    <3> QED
      BY <3>1, TwoThreads
  <2>2. (in + 1) % TAILLE \in 0..(TAILLE - 1)
    BY WrapMod DEF Wrap
  <2> QED
    BY <1>6, <2>1, <2>2, TwoThreads DEF Put, Goto, Labels
<1>7. CASE Take
  <2>1. buffer[out] \in 0..(ITEMS - 1)
    OBVIOUS
  <2>2. (out + 1) % TAILLE \in 0..(TAILLE - 1)
    BY WrapMod DEF Wrap
  <2>3. consumed' \in Seq(0..(ITEMS - 1))
    BY <1>7, <2>1 DEF Take
  <2>4. pc' \in [Threads -> Labels] /\ out' \in 0..(TAILLE - 1)
    BY <1>7, <2>2, TwoThreads DEF Take, Goto, Labels
  <2>5. UNCHANGED <<buffer, in, count, mutex, i, reg, spurious, joined>>
    BY <1>7 DEF Take
  <2> QED
    BY <2>3, <2>4, <2>5
<1>8. CASE Join
  <2>1. /\ joined' \in 0..2
        /\ UNCHANGED <<buffer, in, out, count, mutex, pc, i, reg, consumed, spurious>>
    BY <1>8 DEF Join, ringVars
  <2> QED
    BY <2>1
<1>9. CASE Finished
  BY <1>9 DEF Finished, vars, ringVars
<1> QED
  BY <1>2, <1>3, <1>4, <1>5, <1>6, <1>7, <1>8, <1>9 DEF Next, Thread

\* Every step keeps the exclusion and the bound of both loops.
LEMMA NextMutexLoop == IInv /\ Next => MutexInv' /\ LoopInv'
<1> SUFFICES ASSUME IInv, Next PROVE MutexInv' /\ LoopInv'
  OBVIOUS
<1>1. /\ pc \in [Threads -> Labels] /\ i \in [Threads -> 0..ITEMS] /\ ITEMS \in Nat \ {0}
      /\ MutexInv /\ LoopInv
  BY BufferAssumption DEF BufferAssumption, IInv, TypeOK
<1> USE <1>1, TwoThreads DEF MutexInv, LoopInv, Holding
<1>2. ASSUME NEW t \in Threads, Thread(t) \/ WakeSpuriously(t)
      PROVE  MutexInv' /\ LoopInv'
  <2>1. CASE Lock(t)
    BY <2>1 DEF Lock, Goto
  <2>2. CASE Test(t)
    BY <2>2 DEF Test, Goto
  <2>3. CASE LoadCount(t) \/ StoreCount(t)
    BY <2>3 DEF LoadCount, StoreCount, Goto
  <2>4. CASE Signal(t)
    BY <2>4 DEF Signal
  <2>5. CASE Unlock(t)
    BY <2>5 DEF Unlock, Goto
  <2>6. CASE WakeSpuriously(t)
    BY <2>6 DEF WakeSpuriously, Goto
  <2> QED
    BY <1>2, <2>1, <2>2, <2>3, <2>4, <2>5, <2>6 DEF Thread
<1>3. CASE Put \/ Take
  BY <1>3 DEF Put, Take, Goto
<1>4. CASE Join \/ Finished
  BY <1>4 DEF Join, Finished, vars
<1> QED
  BY <1>2, <1>3, <1>4 DEF Next

\* Every step keeps count right: nobody else is between its load and its store.
LEMMA NextCountInv == IInv /\ Next => CountInv'
<1> SUFFICES ASSUME IInv, Next PROVE CountInv'
  OBVIOUS
<1>1. /\ pc \in [Threads -> Labels] /\ i \in [Threads -> 0..ITEMS] /\ ITEMS \in Nat
      /\ count \in 0..TAILLE /\ reg \in [Threads -> 0..TAILLE] /\ TAILLE \in Nat
      /\ CountInv /\ MutexInv
  BY BufferAssumption DEF BufferAssumption, IInv, TypeOK
<1> USE <1>1, TwoThreads DEF CountInv, MutexInv, Holding, Counted, MustWait
<1>2. ASSUME NEW t \in Threads, Thread(t) \/ WakeSpuriously(t)
      PROVE  CountInv'
  <2>1. CASE Lock(t)
    BY <2>1 DEF Lock, Goto
  <2>2. CASE Test(t)
    BY <2>2 DEF Test, Goto
  <2>3. CASE LoadCount(t)
    BY <2>3 DEF LoadCount, Goto
  <2>4. CASE StoreCount(t)
    <3>1. \A s \in Threads : s # t => pc[s] \notin {"move", "load", "store"}
      BY <2>4 DEF StoreCount
    <3>2. pc'[t] = "signal" /\ \A s \in Threads : s # t => pc'[s] = pc[s]
      BY <2>4 DEF StoreCount, Goto
    <3>3. i' = i /\ count' = count + (IF t = P THEN 1 ELSE -1)
      BY <2>4 DEF StoreCount
    <3>4. count' = (Counted(P) - Counted(C))'
      BY <2>4, <3>2, <3>3 DEF StoreCount
    <3> QED
      BY <3>1, <3>2, <3>4
  <2>5. CASE Signal(t)
    BY <2>5 DEF Signal
  <2>6. CASE Unlock(t)
    BY <2>6 DEF Unlock, Goto
  <2>7. CASE WakeSpuriously(t)
    BY <2>7 DEF WakeSpuriously, Goto
  <2> QED
    BY <1>2, <2>1, <2>2, <2>3, <2>4, <2>5, <2>6, <2>7 DEF Thread
<1>3. CASE Put \/ Take
  BY <1>3 DEF Put, Take, Goto
<1>4. CASE Join \/ Finished
  BY <1>4 DEF Join, Finished, vars
<1> QED
  BY <1>2, <1>3, <1>4 DEF Next

\* Only a Put and a Take change how many items were moved.
LEMMA QuietStep ==
  ASSUME TypeOK, NEW t \in Threads, Thread(t) \/ WakeSpuriously(t)
  PROVE  \A s \in Threads : Moved(s)' = Moved(s)
<1>1. pc \in [Threads -> Labels] /\ i \in [Threads -> 0..ITEMS] /\ ITEMS \in Nat
  BY BufferAssumption DEF BufferAssumption, TypeOK
<1> USE <1>1, TwoThreads DEF Moved, Goto
<1>2. CASE Lock(t)
  BY <1>2 DEF Lock
<1>3. CASE Test(t)
  BY <1>3 DEF Test
<1>4. CASE LoadCount(t)
  BY <1>4 DEF LoadCount
<1>5. CASE StoreCount(t)
  BY <1>5 DEF StoreCount
<1>6. CASE Signal(t)
  BY <1>6 DEF Signal
<1>7. CASE Unlock(t)
  BY <1>7 DEF Unlock
<1>8. CASE WakeSpuriously(t)
  BY <1>8 DEF WakeSpuriously
<1> QED
  BY <1>2, <1>3, <1>4, <1>5, <1>6, <1>7, <1>8 DEF Thread

\* The ring stays in order.
LEMMA NextRingInv == IInv /\ Next => RingInv'
<1> SUFFICES ASSUME IInv, Next PROVE RingInv'
  OBVIOUS
<1>1. /\ TAILLE \in Nat \ {0} /\ ITEMS \in Nat
      /\ pc \in [Threads -> Labels] /\ i \in [Threads -> 0..ITEMS]
      /\ in \in 0..(TAILLE - 1) /\ out \in 0..(TAILLE - 1)
      /\ buffer \in [0..(TAILLE - 1) -> 0..(ITEMS - 1)]
      /\ consumed \in Seq(0..(ITEMS - 1))
  BY BufferAssumption DEF BufferAssumption, IInv, TypeOK
<1>2. Moved(P) \in Nat /\ Moved(C) \in Nat /\ InRing \in 0..TAILLE
  BY <1>1, Distance, TwoThreads DEF Moved
<1>3. RingInv /\ LoopInv
  BY DEF IInv
<1>4. ASSUME UNCHANGED <<buffer, in, out, consumed>>,
             Moved(P)' = Moved(P), Moved(C)' = Moved(C)
      PROVE  RingInv'
  <2>1. InRing' = InRing
    BY <1>4 DEF InRing
  <2> QED
    BY <1>3, <1>4, <2>1 DEF RingInv, InOrder, Wrap
<1>5. ASSUME NEW t \in Threads, Thread(t) \/ WakeSpuriously(t)
      PROVE  RingInv'
  <2>1. UNCHANGED <<buffer, in, out, consumed>>
    BY <1>5 DEF Thread, Lock, Test, LoadCount, StoreCount, Signal, Unlock, WakeSpuriously, ringVars
  <2>2. \A s \in Threads : Moved(s)' = Moved(s)
    BY <1>5, QuietStep DEF IInv
  <2> QED
    BY <1>4, <2>1, <2>2, TwoThreads
<1>6. CASE Put
  <2>1. Moved(P)' = Moved(P) + 1 /\ Moved(C)' = Moved(C) /\ Moved(P) = i[P]
    BY <1>1, <1>6, TwoThreads DEF Put, Goto, Moved
  <2>2. InRing' = InRing + 1 /\ InRing < TAILLE
    BY <1>2, <1>6, <2>1, Distance DEF InRing, Put
  <2>3. in' = Wrap(in + 1) /\ out' = out /\ consumed' = consumed
    BY <1>1, <1>6, WrapMod DEF Put
  <2>4. in' = Wrap(out + InRing')
    BY <1>1, <1>2, <1>3, <2>2, <2>3 DEF RingInv, Wrap
  <2>5. ASSUME NEW n \in 0..(InRing' - 1)
        PROVE  buffer'[Wrap(out + n)] = Moved(C) + n
    <3>1. CASE n = InRing
      <4>1. Wrap(out + n) = in /\ Moved(C) + n = Moved(P)
        BY <1>2, <1>3, <3>1 DEF RingInv, InRing, Moved
      <4>2. buffer'[in] = i[P]
        BY <1>1, <1>6 DEF Put
      <4> QED
        BY <2>1, <4>1, <4>2
    <3>2. CASE n \in 0..(InRing - 1)
      <4>1. Wrap(out + n) # in
        BY <1>1, <1>2, <1>3, <2>2, <3>2 DEF RingInv, Wrap
      <4> QED
        BY <1>1, <1>3, <1>6, <3>2, <4>1 DEF RingInv, Put
    <3> QED
      BY <1>2, <2>2, <2>5, <3>1, <3>2
  <2> QED
    BY <1>3, <2>1, <2>3, <2>4, <2>5 DEF RingInv, InOrder, Wrap
<1>7. CASE Take
  <2>1. Moved(C)' = Moved(C) + 1 /\ Moved(P)' = Moved(P)
    BY <1>1, <1>7, TwoThreads DEF Take, Goto, Moved
  <2>2. InRing' = InRing - 1 /\ InRing > 0
    BY <1>2, <1>7, <2>1, Distance DEF InRing, Take
  <2>3. out' = Wrap(out + 1) /\ in' = in /\ buffer' = buffer
    BY <1>1, <1>7, WrapMod DEF Take
  <2>4. in' = Wrap(out' + InRing')
    BY <1>1, <1>2, <1>3, <2>2, <2>3 DEF RingInv, Wrap
  <2>5. ASSUME NEW n \in 0..(InRing' - 1)
        PROVE  buffer'[Wrap(out' + n)] = Moved(C)' + n
    <3>1. Wrap(out' + n) = Wrap(out + (n + 1)) /\ n + 1 \in 0..(InRing - 1)
      BY <1>1, <1>2, <2>2, <2>3 DEF Wrap
    <3> QED
      BY <1>2, <1>3, <2>1, <2>3, <3>1 DEF RingInv
  <2>6. buffer[out] = Moved(C)
    BY <1>1, <1>2, <1>3, <2>2 DEF RingInv, Wrap
  <2>7. Len(consumed') = Moved(C)' /\ InOrder'
    <3>1. consumed' = Append(consumed, Moved(C)) /\ Len(consumed) = Moved(C)
      BY <1>3, <1>7, <2>6 DEF RingInv, Take
    <3>2. Len(consumed') = Moved(C) + 1
      BY <1>1, <3>1
    <3>3. \A n \in 1..(Moved(C) + 1) : consumed'[n] = n - 1
      BY <1>1, <1>2, <1>3, <3>1 DEF RingInv, InOrder
    <3> QED
      BY <1>2, <2>1, <3>2, <3>3 DEF InOrder
  <2> QED
    BY <2>4, <2>5, <2>7 DEF RingInv
<1>8. CASE Join \/ Finished
  <2>1. UNCHANGED <<buffer, in, out, consumed, pc, i>>
    BY <1>8 DEF Join, Finished, vars, ringVars
  <2> QED
    BY <1>4, <2>1 DEF Moved
<1> QED
  BY <1>5, <1>6, <1>7, <1>8 DEF Next

-----------------------------------------------------------------------------
\* The invariant is inductive.
LEMMA Invariance == Spec => []IInv
<1>1. IInv /\ UNCHANGED vars => IInv'
  BY DEF IInv, TypeOK, MutexInv, LoopInv, CountInv, RingInv, InOrder, InRing, Wrap,
         Moved, Counted, Holding, MustWait, vars, ringVars
<1>2. IInv /\ [Next]_vars => IInv'
  <2>1. IInv /\ Next => IInv'
    BY NextTypeOK, NextMutexLoop, NextCountInv, NextRingInv DEF IInv
  <2> QED
    BY <1>1, <2>1
<1> QED
  BY InitIInv, <1>2, PTL DEF Spec

\* Every variable of the ring and of its two threads keeps its type: in and
\* out index a slot, and count stays in 0..TAILLE, however the load and the
\* store of count++ and of count-- interleave with the other thread.
THEOREM TypeCorrect == Spec => []TypeOK
<1>1. IInv => TypeOK
  BY DEF IInv
<1> QED
  BY <1>1, Invariance, PTL

\* The consumer takes 0, 1, 2, ... out of the ring in this order: the code's
\* buffer[in], buffer[out] and the wrap of both never lose an item, read it
\* twice, or read a slot before the producer filled it.
THEOREM OrderCorrect == Spec => []InOrder
<1>1. IInv => InOrder
  BY DEF IInv, RingInv
<1> QED
  BY <1>1, Invariance, PTL

\* The producer never runs over the consumer: it is between 0 and TAILLE
\* items ahead, also between the change of in or out and that of count.
THEOREM RingCorrect == Spec => []NeverOverrun
<1>1. IInv => NeverOverrun
  BY Distance DEF NeverOverrun, InRing
<1> QED
  BY <1>1, Invariance, PTL

\* No wakeup is lost: a thread that waits while its condition holds has a
\* signal coming, for the other one has changed count and not yet called
\* pthread_cond_signal.
THEOREM WakeupCorrect == Spec => []NoLostWakeup
<1>1. Init => NoLostWakeup
  BY DEF Init, NoLostWakeup
<1>2. NoLostWakeup /\ IInv /\ [Next]_vars => NoLostWakeup'
  <2> SUFFICES ASSUME NoLostWakeup, IInv, [Next]_vars PROVE NoLostWakeup'
    OBVIOUS
  <2>1. pc \in [Threads -> Labels] /\ MutexInv
    BY DEF IInv, TypeOK
  <2> USE <2>1, TwoThreads DEF NoLostWakeup, MustWait, Other
  <2>2. ASSUME NEW t \in Threads, Thread(t) \/ WakeSpuriously(t)
        PROVE  NoLostWakeup'
    <3>1. CASE Lock(t)
      BY <3>1 DEF Lock, Goto
    <3>2. CASE Test(t)
      BY <3>2 DEF Test, Goto, MutexInv, Holding
    <3>3. CASE LoadCount(t)
      BY <3>3 DEF LoadCount, Goto
    <3>4. CASE StoreCount(t)
      BY <3>4 DEF StoreCount, Goto
    <3>5. CASE Signal(t)
      BY <3>5 DEF Signal
    <3>6. CASE Unlock(t)
      BY <3>6 DEF Unlock, Goto
    <3>7. CASE WakeSpuriously(t)
      BY <3>7 DEF WakeSpuriously, Goto
    <3> QED
      BY <2>2, <3>1, <3>2, <3>3, <3>4, <3>5, <3>6, <3>7 DEF Thread
  <2>3. CASE Put \/ Take
    BY <2>3 DEF Put, Take, Goto
  <2>4. CASE Join \/ Finished \/ UNCHANGED vars
    BY <2>4 DEF Join, Finished, vars
  <2> QED
    BY <2>2, <2>3, <2>4 DEF Next
<1> QED
  BY <1>1, <1>2, Invariance, PTL DEF Spec

-----------------------------------------------------------------------------
(* Refinement. The slots from out on are the items under way, by number.   *)

QueueInv ==
  /\ InRing \in 0..TAILLE /\ Moved(P) \in Nat /\ Moved(C) \in Nat
  /\ Queue = [n \in 1..InRing |-> Moved(C) + n - 1]

\* The queue the channel sees, without the ring.
LEMMA QueueShape == IInv => QueueInv
<1> SUFFICES ASSUME IInv PROVE QueueInv
  OBVIOUS
<1>1. /\ TAILLE \in Nat \ {0} /\ out \in 0..(TAILLE - 1)
      /\ i \in [Threads -> 0..ITEMS] /\ ITEMS \in Nat
  BY BufferAssumption DEF BufferAssumption, IInv, TypeOK
<1>2. InRing \in 0..TAILLE /\ Moved(P) \in Nat /\ Moved(C) \in Nat
  BY <1>1, Distance, TwoThreads DEF Moved
<1>3. ASSUME NEW n \in 1..InRing
      PROVE  buffer[(out + n - 1) % TAILLE] = Moved(C) + n - 1
  <2>1. n - 1 \in 0..(InRing - 1) /\ out + n - 1 = out + (n - 1)
    BY <1>1, <1>2
  <2>2. out + n - 1 \in 0..(2 * TAILLE - 1)
    BY <1>1, <1>2
  <2>3. (out + n - 1) % TAILLE = Wrap(out + (n - 1))
    BY <2>1, <2>2, WrapMod
  <2>4. buffer[Wrap(out + (n - 1))] = Moved(C) + (n - 1)
    BY <2>1 DEF IInv, RingInv
  <2> QED
    BY <1>2, <2>3, <2>4
<1> QED
  BY <1>2, <1>3 DEF QueueInv, Queue, InRing

\* A sequence of consecutive numbers is given by its length and its start.
LEMMA NumberedItems ==
  ASSUME NEW s \in Seq(Int), NEW m \in Nat, NEW c \in Nat, Len(s) = m,
         \A n \in 1..m : s[n] = c + n - 1
  PROVE  s = [n \in 1..m |-> c + n - 1]
  OBVIOUS

\* A put is a send, a take is a receive, any other step moves nothing.
LEMMA StepRefines == IInv /\ Next /\ QueueInv' => [Channel!Next]_(Channel!vars)
<1> SUFFICES ASSUME IInv, Next, QueueInv' PROVE [Channel!Next]_(Channel!vars)
  OBVIOUS
<1> DEFINE q(m, c) == [n \in 1..m |-> c + n - 1]
<1>1. /\ TAILLE \in Nat \ {0} /\ ITEMS \in Nat /\ pc \in [Threads -> Labels]
      /\ i \in [Threads -> 0..ITEMS]
  BY BufferAssumption DEF BufferAssumption, IInv, TypeOK
<1>2. /\ InRing \in 0..TAILLE /\ Moved(P) \in Nat /\ Moved(C) \in Nat
      /\ Queue = q(InRing, Moved(C))
      /\ Queue' = q(InRing', Moved(C)')
  BY QueueShape DEF QueueInv
<1>3. Queue \in Seq(Int) /\ Len(Queue) = InRing
  BY <1>2
<1>4. ASSUME UNCHANGED <<Moved(P), Moved(C), consumed>>
      PROVE  UNCHANGED Channel!vars
  BY <1>2, <1>4 DEF Channel!vars, InRing
<1>5. ASSUME NEW t \in Threads, Thread(t) \/ WakeSpuriously(t)
      PROVE  UNCHANGED Channel!vars
  <2>1. consumed' = consumed
    BY <1>5 DEF Thread, Lock, Test, LoadCount, StoreCount, Signal, Unlock, WakeSpuriously
  <2>2. \A s \in Threads : Moved(s)' = Moved(s)
    BY <1>5, QuietStep DEF IInv
  <2> QED
    BY <1>4, <2>1, <2>2, TwoThreads
<1>6. CASE Put
  <2>1. Moved(P)' = Moved(P) + 1 /\ Moved(C)' = Moved(C) /\ Moved(P) < ITEMS
    BY <1>1, <1>6, TwoThreads DEF Put, Goto, Moved, IInv, LoopInv
  <2>2. InRing' = InRing + 1 /\ InRing < TAILLE /\ Moved(P) = Moved(C) + InRing
    BY <1>2, <1>6, <2>1, Distance DEF InRing, Put
  <2>3. Queue' = Append(Queue, Moved(P))
    <3>1. Append(Queue, Moved(P)) = q(InRing + 1, Moved(C))
      BY <1>2, <1>3, <2>2
    <3> QED
      BY <1>2, <2>1, <2>2, <3>1
  <2> QED
    BY <1>3, <1>6, <2>1, <2>2, <2>3 DEF Channel!Next, Channel!Send, Put
<1>7. CASE Take
  <2>1. Moved(C)' = Moved(C) + 1 /\ Moved(P)' = Moved(P)
    BY <1>1, <1>7, TwoThreads DEF Take, Goto, Moved
  <2>2. InRing' = InRing - 1 /\ InRing > 0
    BY <1>2, <1>7, <2>1, Distance DEF InRing, Take
  <2>3. Queue # <<>> /\ Head(Queue) = Moved(C)
    <3>1. Len(Queue) > 0 /\ Queue[1] = Moved(C)
      BY <1>2, <1>3, <2>2
    <3> QED
      BY <1>3, <3>1, HeadTailProperties
  <2>4. Queue' = Tail(Queue)
    <3>1. /\ Len(Tail(Queue)) = InRing - 1
          /\ \A n \in 1..(InRing - 1) : Tail(Queue)[n] = Queue[n + 1]
      BY <1>3, <2>3, HeadTailProperties
    <3>2. \A n \in 1..(InRing - 1) : Tail(Queue)[n] = Moved(C) + 1 + n - 1
      BY <1>2, <2>2, <3>1
    <3>3. Tail(Queue) \in Seq(Int) /\ InRing - 1 \in Nat /\ Moved(C) + 1 \in Nat
      <4>1. Tail(Queue) \in Seq(Int)
        BY <1>3, <2>3, HeadTailProperties
      <4>2. InRing - 1 \in Nat /\ Moved(C) + 1 \in Nat
        BY <1>2, <2>2
      <4> QED
        BY <4>1, <4>2
    <3>4. Tail(Queue) = q(InRing - 1, Moved(C) + 1)
      BY <3>1, <3>2, <3>3, NumberedItems
    <3> QED
      BY <1>2, <2>1, <2>2, <3>4
  <2>5. buffer[out] = Moved(C)
    <3>1. buffer[Wrap(out + 0)] = Moved(C) + 0
      BY <1>2, <2>2 DEF IInv, RingInv
    <3>2. out \in 0..(TAILLE - 1)
      BY DEF IInv, TypeOK
    <3> QED
      BY <1>1, <1>2, <3>1, <3>2 DEF Wrap
  <2> QED
    BY <1>7, <2>1, <2>3, <2>4, <2>5 DEF Channel!Next, Channel!Receive, Take
<1>8. CASE Join \/ Finished
  <2>1. UNCHANGED <<consumed, pc, i>>
    BY <1>8 DEF Join, Finished, vars
  <2> QED
    BY <1>4, <2>1 DEF Moved
<1> QED
  BY <1>5, <1>6, <1>7, <1>8 DEF Next

\* Ring, indices, count, mutex and conditions together implement a bounded
\* FIFO channel: each Put is a send when there is room, each Take receives the
\* oldest item, and no other step of the two threads is visible.
THEOREM ChannelCorrect == Spec => Channel!Spec
<1>1. Init => Channel!Init
  <2> SUFFICES ASSUME Init PROVE Channel!Init
    OBVIOUS
  <2>1. Moved(P) = 0 /\ Moved(C) = 0
    BY TwoThreads DEF Init, Moved
  <2>2. Queue = <<>>
    BY <2>1 DEF Queue
  <2> QED
    BY <2>1, <2>2 DEF Init, Channel!Init
<1>2. IInv /\ Next /\ QueueInv' => [Channel!Next]_(Channel!vars)
  BY StepRefines
<1>3. UNCHANGED vars => UNCHANGED Channel!vars
  BY DEF vars, ringVars, Channel!vars, Queue, Moved
<1>4. IInv /\ QueueInv' /\ [Next]_vars => [Channel!Next]_(Channel!vars)
  BY <1>2, <1>3
<1> QED
  BY <1>1, <1>4, Invariance, QueueShape, PTL DEF Spec, Channel!Spec
=============================================================================
