---------------------------- MODULE BoundedBuffer ---------------------------
(***************************************************************************)
(* The bounded buffer of src/ex16_cond_wait/main.c: a producer and a       *)
(* consumer share a ring of TAILLE slots, one mutex and the condition      *)
(* variables non_plein and non_vide. Both threads run the same steps (lock,*)
(* test, move an item, change count, signal, unlock); they differ in the   *)
(* condition they wait for and the end of the ring they work on.           *)
(***************************************************************************)
EXTENDS Integers, Sequences

CONSTANTS
  TAILLE,       \* the slots of the ring
  ITEMS,        \* the turns of both loops, 10 in the code
  MAX_SPURIOUS  \* bound: how often pthread_cond_wait returns unsignalled

ASSUME BufferAssumption ==
  /\ TAILLE \in Nat \ {0}
  /\ ITEMS \in Nat \ {0}
  /\ MAX_SPURIOUS \in Nat

P == "producteur"
C == "consommateur"
Threads == {P, C}
Other(t) == IF t = P THEN C ELSE P
Unowned == "unowned"

VARIABLES
  buffer, in, out, count,  \* the globals of main.c
  mutex,     \* the thread that holds mutex
  pc,        \* pc[t]: where thread t is
  i,         \* i[t]: the loop variable of t
  reg,       \* reg[t]: the register t changes count through
  consumed,  \* the values the consumer took out, in order
  spurious,  \* the spurious wakeups so far
  joined     \* how many of its two pthread_join main has passed

ringVars == <<buffer, in, out>>
vars == <<ringVars, count, mutex, pc, i, reg, consumed, spurious, joined>>

Labels == {"lock", "test", "wait", "relock", "move", "load", "store",
           "signal", "unlock", "done"}

TypeOK ==
  /\ buffer \in [0..(TAILLE - 1) -> 0..(ITEMS - 1)]
  /\ in \in 0..(TAILLE - 1)
  /\ out \in 0..(TAILLE - 1)
  /\ count \in 0..TAILLE
  /\ mutex \in Threads \union {Unowned}
  /\ pc \in [Threads -> Labels]
  /\ i \in [Threads -> 0..ITEMS]
  /\ reg \in [Threads -> 0..TAILLE]
  /\ consumed \in Seq(0..(ITEMS - 1))
  /\ spurious \in 0..MAX_SPURIOUS
  /\ joined \in 0..2

Init ==
  /\ buffer = [s \in 0..(TAILLE - 1) |-> 0]
  /\ in = 0
  /\ out = 0
  /\ count = 0
  /\ mutex = Unowned
  /\ pc = [t \in Threads |-> "lock"]
  /\ i = [t \in Threads |-> 0]
  /\ reg = [t \in Threads |-> 0]
  /\ consumed = <<>>
  /\ spurious = 0
  /\ joined = 0

-----------------------------------------------------------------------------
Goto(t, label) == pc' = [pc EXCEPT ![t] = label]

\* Mutant: pthread_mutex_lock is forgotten.
Lock_NoWait(t) ==
  /\ pc[t] \in {"lock", "relock"}
  /\ mutex' = t
  /\ Goto(t, "test")
  /\ UNCHANGED <<ringVars, count, i, reg, consumed, spurious, joined>>

\* Mutant: if in place of while, a woken thread does not test again.
Lock_If(t) ==
  /\ pc[t] \in {"lock", "relock"}
  /\ mutex = Unowned
  /\ mutex' = t
  /\ Goto(t, IF pc[t] = "lock" THEN "test" ELSE "move")
  /\ UNCHANGED <<ringVars, count, i, reg, consumed, spurious, joined>>

\* pthread_mutex_lock, and the end of pthread_cond_wait.
Lock(t) ==
  /\ pc[t] \in {"lock", "relock"}
  /\ mutex = Unowned
  /\ mutex' = t
  /\ Goto(t, "test")
  /\ UNCHANGED <<ringVars, count, i, reg, consumed, spurious, joined>>

\* count == TAILLE for the producer, count == 0 for the consumer.
MustWait(t) == count = (IF t = P THEN TAILLE ELSE 0)

\* The while condition; pthread_cond_wait releases the mutex and blocks in
\* one step.
Test(t) ==
  /\ pc[t] = "test"
  /\ \/ /\ MustWait(t)
        /\ mutex' = Unowned
        /\ Goto(t, "wait")
     \/ /\ ~MustWait(t)
        /\ Goto(t, "move")
        /\ UNCHANGED mutex
  /\ UNCHANGED <<ringVars, count, i, reg, consumed, spurious, joined>>

\* POSIX lets pthread_cond_wait return without a signal.
WakeSpuriously(t) ==
  /\ pc[t] = "wait" /\ spurious < MAX_SPURIOUS
  /\ spurious' = spurious + 1
  /\ Goto(t, "relock")
  /\ UNCHANGED <<ringVars, count, mutex, i, reg, consumed, joined>>

\* buffer[in] = i; in = (in + 1) % TAILLE
Put ==
  /\ pc[P] = "move"
  /\ buffer' = [buffer EXCEPT ![in] = i[P]]
  /\ in' = (in + 1) % TAILLE
  /\ Goto(P, "load")
  /\ UNCHANGED <<out, count, mutex, i, reg, consumed, spurious, joined>>

\* val = buffer[out]; out = (out + 1) % TAILLE
Take ==
  /\ pc[C] = "move"
  /\ consumed' = Append(consumed, buffer[out])
  /\ out' = (out + 1) % TAILLE
  /\ Goto(C, "load")
  /\ UNCHANGED <<buffer, in, count, mutex, i, reg, spurious, joined>>

\* count++ and count-- are a load and a store.
LoadCount(t) ==
  /\ pc[t] = "load"
  /\ reg' = [reg EXCEPT ![t] = count]
  /\ Goto(t, "store")
  /\ UNCHANGED <<ringVars, count, mutex, i, consumed, spurious, joined>>

StoreCount(t) ==
  /\ pc[t] = "store"
  /\ count' = IF t = P THEN reg[t] + 1 ELSE reg[t] - 1
  /\ Goto(t, "signal")
  /\ UNCHANGED <<ringVars, mutex, i, reg, consumed, spurious, joined>>

\* Mutant: a thread signals the condition variable it waits on itself.
Signal_OwnCondition(t) ==
  /\ pc[t] = "signal"
  /\ Goto(t, "unlock")
  /\ UNCHANGED <<ringVars, count, mutex, i, reg, consumed, spurious, joined>>

\* pthread_cond_signal: the other thread is the only one that can wait on
\* the condition variable signalled.
Signal(t) ==
  /\ pc[t] = "signal"
  /\ pc' = [pc EXCEPT ![t] = "unlock",
                      ![Other(t)] = IF @ = "wait" THEN "relock" ELSE @]
  /\ UNCHANGED <<ringVars, count, mutex, i, reg, consumed, spurious, joined>>

\* pthread_mutex_unlock, and the for loop's i++ and test.
Unlock(t) ==
  /\ pc[t] = "unlock"
  /\ mutex' = Unowned
  /\ i' = [i EXCEPT ![t] = @ + 1]
  /\ Goto(t, IF i[t] + 1 < ITEMS THEN "lock" ELSE "done")
  /\ UNCHANGED <<ringVars, count, reg, consumed, spurious, joined>>

\* main: pthread_join(tp), then pthread_join(tc).
Join ==
  /\ joined < 2 /\ pc[IF joined = 0 THEN P ELSE C] = "done"
  /\ joined' = joined + 1
  /\ UNCHANGED <<ringVars, count, mutex, pc, i, reg, consumed, spurious>>

Thread(t) ==
  \/ Lock(t) \/ Test(t)
  \/ LoadCount(t) \/ StoreCount(t) \/ Signal(t) \/ Unlock(t)

Finished == joined = 2 /\ UNCHANGED vars

Next ==
  \/ \E t \in Threads : Thread(t) \/ WakeSpuriously(t)
  \/ Put \/ Take
  \/ Join
  \/ Finished

Spec == Init /\ [][Next]_vars

\* Every thread keeps running. The mutex is taken finitely often, for the
\* spurious wakeups are bounded: weak fairness is enough to get it.
FairSpec ==
  /\ Spec
  /\ \A t \in Threads : WF_vars(Thread(t))
  /\ WF_vars(Put) /\ WF_vars(Take) /\ WF_vars(Join)

-----------------------------------------------------------------------------
\* A thread from pthread_mutex_lock to pthread_mutex_unlock.
Holding(t) == pc[t] \in {"test", "move", "load", "store", "signal", "unlock"}

\* The items put into and taken out of the ring so far.
Moved(t) == i[t] + (IF pc[t] \in {"load", "store", "signal", "unlock"} THEN 1 ELSE 0)

\* The consumer gets 0, 1, 2, ... in this order: none is lost, repeated,
\* overwritten or read before it is there, however the ring wraps around.
InOrder == \A n \in 1..Len(consumed) : consumed[n] = n - 1

\* The producer is never more than TAILLE items ahead, never behind.
NeverOverrun == Moved(P) - Moved(C) \in 0..TAILLE

\* A thread that waits although it need not is about to be signalled: a
\* wakeup is never missed between the test of count and the wait.
NoLostWakeup ==
  \A t \in Threads : pc[t] = "wait" /\ ~MustWait(t) => pc[Other(t)] = "signal"

\* The slots from out on, in the order they were put.
Queue == [n \in 1..(Moved(P) - Moved(C)) |-> buffer[(out + n - 1) % TAILLE]]

Channel == INSTANCE BoundedChannel WITH
  CAPACITY <- TAILLE, sent <- Moved(P), queue <- Queue, received <- consumed

\* The ring, its indices and its locking implement a bounded FIFO channel.
IsChannel == Channel!FairSpec
=============================================================================
