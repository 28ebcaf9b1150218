------------------------- MODULE StreamServersProofs -------------------------
(***************************************************************************)
(* What holds of StreamServers for every number of clients, every length   *)
(* of their messages and every number of rounds.                           *)
(***************************************************************************)
EXTENDS StreamServers, FiniteSetTheorems, SequenceTheorems, TLAPS

-----------------------------------------------------------------------------
(* The children of ex33. One is reaped per turn of main's loop and at most  *)
(* one is created, so that before accept() they are no more than once ran   *)
(* together: either one was reaped, or all of them run.                     *)

HandlerLabels == {"none", "start", "read", "write", "close", "done", "zombie", "reaped"}

\* The children main has not waited for.
Unreaped == {h \in Clients : Serving(h) \/ handler[h] = "zombie"}

ForkInv ==
  /\ handler \in [Clients -> HandlerLabels]
  /\ Forks => up
  /\ peak \in Nat
  /\ Forks => /\ main # "serve"
              /\ Cardinality(Children) <= peak
              /\ Cardinality(Unreaped) <= peak + 1
              /\ main \in {"accept", "create"} => Cardinality(Unreaped) <= peak

LEMMA ClientSets ==
  \A S \in SUBSET Clients : IsFiniteSet(S) /\ Cardinality(S) \in Nat
<1>1. NUM_CLIENTS \in Int
  BY ServersAssumption DEF ServersAssumption
<1>2. IsFiniteSet(Clients)
  BY <1>1, FS_Interval DEF Clients
<1> QED
  BY <1>2, FS_Subset, FS_CardinalityType

\* Fewer clients, and one more.
LEMMA ClientCounts ==
  ASSUME NEW S \in SUBSET Clients, NEW T \in SUBSET Clients, NEW h \in Clients
  PROVE  /\ S \subseteq T => Cardinality(S) <= Cardinality(T)
         /\ S \subseteq T \union {h} => Cardinality(S) <= Cardinality(T) + 1
         /\ h \in T /\ S \subseteq T \ {h} => Cardinality(S) <= Cardinality(T) - 1
<1>1. /\ IsFiniteSet(S) /\ Cardinality(S) \in Nat /\ IsFiniteSet(T) /\ Cardinality(T) \in Nat
  BY ClientSets
<1>2. ASSUME S \subseteq T PROVE Cardinality(S) <= Cardinality(T)
  BY <1>1, <1>2, FS_Subset, Zenon
<1>3. ASSUME S \subseteq T \union {h} PROVE Cardinality(S) <= Cardinality(T) + 1
  <2>1. /\ IsFiniteSet(T \union {h})
        /\ Cardinality(T \union {h}) = IF h \in T THEN Cardinality(T) ELSE Cardinality(T) + 1
    BY <1>1, FS_AddElement, Zenon
  <2>2. S \in SUBSET (T \union {h})
    BY <1>3
  <2>3. Cardinality(S) <= Cardinality(T \union {h})
    BY <2>1, <2>2, FS_Subset, Zenon
  <2> QED
    BY <1>1, <2>1, <2>3
<1>4. ASSUME h \in T, S \subseteq T \ {h} PROVE Cardinality(S) <= Cardinality(T) - 1
  <2>1. /\ IsFiniteSet(T \ {h})
        /\ Cardinality(T \ {h}) = IF h \in T THEN Cardinality(T) - 1 ELSE Cardinality(T)
    BY <1>1, FS_RemoveElement, Zenon
  <2>2. S \in SUBSET (T \ {h})
    BY <1>4
  <2>3. Cardinality(S) <= Cardinality(T \ {h})
    BY <2>1, <2>2, FS_Subset, Zenon
  <2> QED
    BY <1>1, <1>4, <2>1, <2>3
<1> QED
  BY <1>2, <1>3, <1>4

LEMMA InitForkInv == Init => ForkInv
<1> SUFFICES ASSUME Init PROVE ForkInv
  OBVIOUS
<1>1. Children = {} /\ Unreaped = {}
  BY DEF Init, Children, Unreaped, Serving
<1>2. Cardinality({}) = 0
  BY FS_EmptySet
<1> QED
  BY <1>1, <1>2 DEF Init, ForkInv, HandlerLabels, Forks, LoopStart

\* A step that adds no child and leaves main where it is, or takes it to a
\* place that asks for less.
LEMMA ForkFewer ==
  ASSUME ForkInv, handler' \in [Clients -> HandlerLabels], UNCHANGED <<program, peak>>,
         Forks => /\ up' /\ main' # "serve"
                  /\ Children' \subseteq Children /\ Unreaped' \subseteq Unreaped
                  /\ main' \in {"accept", "create"} => main \in {"accept", "create"}
  PROVE  ForkInv'
<1>1. /\ Children \in SUBSET Clients /\ Unreaped \in SUBSET Clients
      /\ Children' \in SUBSET Clients /\ Unreaped' \in SUBSET Clients
      /\ 1 \in Clients /\ Forks' = Forks
  BY ServersAssumption DEF ServersAssumption, Children, Unreaped, Clients, Forks
<1>2. /\ Cardinality(Children) \in Nat /\ Cardinality(Unreaped) \in Nat
      /\ Cardinality(Children)' \in Nat /\ Cardinality(Unreaped)' \in Nat
  BY <1>1, ClientSets
<1>3. Forks => /\ Cardinality(Children)' <= Cardinality(Children)
               /\ Cardinality(Unreaped)' <= Cardinality(Unreaped)
  BY <1>1, ClientCounts
<1> QED
  BY <1>1, <1>2, <1>3 DEF ForkInv

\* A handler goes on, within its process or thread.
LEMMA ForkMove ==
  ASSUME ForkInv, UNCHANGED <<program, peak>>, NEW h \in Clients, NEW label \in HandlerLabels,
         handler' = [handler EXCEPT ![h] = label],
         label \in {"read", "write", "close"} => Serving(h),
         label = "zombie" => Serving(h),
         label # "start",
         Forks => /\ up' /\ main' # "serve"
                  /\ main' \in {"accept", "create"} => main \in {"accept", "create"}
  PROVE  ForkInv'
<1>1. handler' \in [Clients -> HandlerLabels]
  BY DEF ForkInv
<1>2. Children' \subseteq Children /\ Unreaped' \subseteq Unreaped
  BY DEF ForkInv, Children, Unreaped, Serving
<1> QED
  BY <1>1, <1>2, ForkFewer

LEMMA ForkHandler ==
  ASSUME ForkInv, NEW h \in Clients, Handler(h)
  PROVE  ForkInv'
<1>0. UNCHANGED <<program, peak>>
  BY DEF Handler, Start, ReadRequest, ReadOctets, AnswerInvalid, EndOfInput, ReadFails,
     Fail, WriteReply, Close, mainVars
<1>1. CASE Start(h)
  BY <1>0, <1>1, ForkMove DEF Start, Goto, Serving, HandlerLabels, ForkInv, mainVars
<1>2. CASE ReadRequest(h)
  <2>0. Serving(h)
    BY <1>2 DEF ReadRequest, Serving
  <2>1. CASE UNCHANGED mainVars /\ \E label \in {"write", "close"} : Goto(h, label)
    BY <1>0, <2>0, <2>1, ForkMove DEF Goto, HandlerLabels, ForkInv, mainVars
  <2>2. CASE Fail(h) /\ Forks
    BY <1>0, <2>0, <2>2, ForkMove DEF Fail, Goto, HandlerLabels, ForkInv
  <2>3. CASE Fail(h) /\ ~Forks
    BY <1>0, <2>0, <2>3, ForkFewer DEF Fail, ForkInv
  <2> QED
    BY <1>2, <2>1, <2>2, <2>3 DEF ReadRequest, ReadOctets, AnswerInvalid, EndOfInput, ReadFails
<1>3. CASE WriteReply(h)
  <2>0. Serving(h)
    BY <1>3 DEF WriteReply, Serving
  <2>1. CASE UNCHANGED mainVars /\ \E label \in {"read", "close"} : Goto(h, label)
    BY <1>0, <2>0, <2>1, ForkMove DEF Goto, HandlerLabels, ForkInv, mainVars
  <2>2. CASE Fail(h) /\ Forks
    BY <1>0, <2>0, <2>2, ForkMove DEF Fail, Goto, HandlerLabels, ForkInv
  <2>3. CASE Fail(h) /\ ~Forks
    BY <1>0, <2>0, <2>3, ForkFewer DEF Fail, ForkInv
  <2> QED
    BY <1>3, <2>1, <2>2, <2>3 DEF WriteReply
<1>4. CASE Close(h)
  <2>1. Serving(h) /\ (Forks => up' = up /\ main' = main)
    BY <1>4 DEF Close, Serving, Forks, Concurrent, ForkInv
  <2>2. CASE Forks
    BY <1>0, <1>4, <2>1, <2>2, ForkMove DEF Close, Goto, HandlerLabels, ForkInv
  <2>3. CASE ~Forks
    <3>1. handler' \in [Clients -> HandlerLabels]
      BY <1>4, <2>3 DEF Close, Goto, HandlerLabels, ForkInv
    <3> QED
      BY <1>0, <2>3, <3>1, ForkFewer
  <2> QED
    BY <2>2, <2>3
<1> QED
  BY <1>1, <1>2, <1>3, <1>4 DEF Handler

LEMMA ForkReap ==
  ASSUME ForkInv, Reap
  PROVE  ForkInv'
<1>0. /\ UNCHANGED <<program, up, peak>> /\ main = "reap" /\ main' = "accept"
      /\ Forks' = Forks
  BY DEF Reap, Forks
<1>1. handler' \in [Clients -> HandlerLabels]
  BY DEF Reap, ForkInv, HandlerLabels
<1>2. Children' = Children /\ Children \in SUBSET Clients /\ Unreaped \in SUBSET Clients
      /\ Unreaped' \in SUBSET Clients
  BY DEF Reap, ForkInv, Children, Unreaped, Serving
<1>3. Cardinality(Unreaped) \in Nat /\ Cardinality(Unreaped') \in Nat
  BY <1>2, ClientSets
<1>4. ASSUME Forks PROVE Cardinality(Unreaped') <= peak
  <2>1. CASE \E h \in Clients : handler[h] = "zombie" /\ handler' = [handler EXCEPT ![h] = "reaped"]
    <3>1. PICK h \in Clients : handler[h] = "zombie" /\ handler' = [handler EXCEPT ![h] = "reaped"]
      BY <2>1
    <3>2. h \in Unreaped /\ Unreaped' \subseteq Unreaped \ {h}
      BY <3>1 DEF ForkInv, Unreaped, Serving
    <3>3. Cardinality(Unreaped') <= Cardinality(Unreaped) - 1
      BY <1>2, <3>2, ClientCounts
    <3> QED
      BY <1>3, <1>4, <3>3 DEF ForkInv
  <2>2. CASE \A h \in Clients : handler[h] # "zombie" /\ handler' = handler
    <3>1. Unreaped' = Children
      BY <2>2 DEF Unreaped, Children, Serving
    <3> QED
      BY <1>4, <3>1 DEF ForkInv
  <2> QED
    BY <2>1, <2>2 DEF Reap
<1> QED
  BY <1>0, <1>1, <1>2, <1>3, <1>4 DEF ForkInv

LEMMA ForkCreate ==
  ASSUME ForkInv, cfd \in Clients, Create
  PROVE  ForkInv'
<1>0. UNCHANGED <<program, up>> /\ main = "create" /\ Forks' = Forks
  BY DEF Create, Forks
<1>1. handler' \in [Clients -> HandlerLabels]
  BY DEF Create, ForkInv, HandlerLabels
<1>2. /\ Children \in SUBSET Clients /\ Unreaped \in SUBSET Clients
      /\ Children' \in SUBSET Clients /\ Unreaped' \in SUBSET Clients
  BY DEF Children, Unreaped
<1>3. /\ Cardinality(Children) \in Nat /\ Cardinality(Unreaped) \in Nat
      /\ Cardinality(Children') \in Nat /\ Cardinality(Unreaped') \in Nat
  BY <1>2, ClientSets
<1>4. Children' \subseteq Children \union {cfd} /\ Unreaped' \subseteq Unreaped \union {cfd}
  BY DEF Create, ForkInv, Children, Unreaped, Serving
<1>5. /\ Cardinality(Children') <= Cardinality(Children) + 1
      /\ Cardinality(Unreaped') <= Cardinality(Unreaped) + 1
  BY <1>2, <1>4, ClientCounts
<1>6. /\ peak' \in Nat /\ peak' >= peak
      /\ Forks => peak' >= Cardinality(Children) + 1
  BY <1>3 DEF Create, ForkInv
<1>7. Forks => main' \in {"parent", "reap"}
  BY DEF Create, LoopStart
<1> QED
  BY <1>0, <1>1, <1>3, <1>5, <1>6, <1>7 DEF ForkInv

\* main has accepted a connection when it is to create a child or thread.
AcceptInv == queue \in Seq(Clients) /\ (main \in {"create", "parent"} => cfd \in Clients)

LEMMA NextAcceptInv == AcceptInv /\ [Next]_vars => AcceptInv'
<1> SUFFICES ASSUME AcceptInv, [Next]_vars PROVE AcceptInv'
  OBVIOUS
<1>1. CASE Accept
  BY <1>1, HeadTailProperties DEF Accept, AcceptInv
<1>2. ASSUME NEW c \in Clients, Client(c) \/ Interrupt(c) PROVE AcceptInv'
  <2>1. main' = main /\ cfd' = cfd
    BY <1>2 DEF Client, Connect, Send, Receive, Interrupt, mainVars
  <2>2. queue' = queue \/ queue' = Append(queue, c)
    BY <1>2 DEF Client, Connect, Send, Receive, Interrupt, mainVars
  <2> QED
    BY <2>1, <2>2, AppendProperties DEF AcceptInv
<1>3. ASSUME NEW h \in Clients, Handler(h) PROVE AcceptInv'
  <2>1. cfd' = cfd /\ queue' = queue /\ main' \in {main, "accept"}
    BY <1>3 DEF Handler, Start, ReadRequest, ReadOctets, AnswerInvalid, EndOfInput, ReadFails,
       Fail, WriteReply, Close, mainVars
  <2> QED
    BY <2>1 DEF AcceptInv
<1>4. CASE Reap \/ Create \/ ParentClose \/ AcceptFails
  BY <1>4 DEF Reap, Create, ParentClose, AcceptFails, AcceptInv, LoopStart
<1>5. CASE Launch \/ WaitClient \/ Idle \/ UNCHANGED vars
  BY <1>5 DEF Launch, WaitClient, Idle, vars, mainVars, AcceptInv
<1> QED
  BY <1>1, <1>2, <1>3, <1>4, <1>5 DEF Next, Server

LEMMA NextForkInv == ForkInv /\ AcceptInv /\ [Next]_vars => ForkInv'
<1> SUFFICES ASSUME ForkInv, AcceptInv, [Next]_vars PROVE ForkInv'
  OBVIOUS
<1>1. CASE /\ UNCHANGED <<program, up, peak, handler>>
           /\ Forks => /\ main' # "serve"
                       /\ main' \in {"accept", "create"} => main \in {"accept", "create"}
  <2>1. Children' = Children /\ Unreaped' = Unreaped
    BY <1>1 DEF Children, Unreaped, Serving
  <2> QED
    BY <1>1, <2>1, ForkFewer DEF ForkInv
<1>2. ASSUME NEW c \in Clients, Client(c) \/ Interrupt(c) PROVE ForkInv'
  BY <1>1, <1>2 DEF Client, Connect, Send, Receive, Interrupt, mainVars, handlerVars, ForkInv
<1>3. ASSUME NEW h \in Clients, Handler(h) PROVE ForkInv'
  BY <1>3, ForkHandler
<1>4. CASE Accept
  <2>1. CASE Forks
    BY <1>1, <1>4, <2>1 DEF Accept, Forks, Concurrent
  <2>2. CASE ~Forks
    <3>1. handler' \in [Clients -> HandlerLabels] /\ UNCHANGED <<program, peak>>
      BY <1>4 DEF Accept, ForkInv, HandlerLabels
    <3> QED
      BY <2>2, <3>1, ForkFewer
  <2> QED
    BY <2>1, <2>2
<1>5. CASE AcceptFails
  <2>1. CASE Forks
    BY <1>1, <1>5, <2>1 DEF AcceptFails, handlerVars
  <2>2. CASE ~Forks
    <3>1. handler' \in [Clients -> HandlerLabels] /\ UNCHANGED <<program, peak>>
      BY <1>5 DEF AcceptFails, ForkInv, HandlerLabels, handlerVars
    <3> QED
      BY <2>2, <3>1, ForkFewer
  <2> QED
    BY <2>1, <2>2
<1>6. CASE Create
  BY <1>6, ForkCreate DEF Create, AcceptInv
<1>7. CASE Reap
  BY <1>7, ForkReap
<1>8. CASE ParentClose
  BY <1>1, <1>8 DEF ParentClose, handlerVars
<1>9. CASE Launch \/ WaitClient \/ Idle \/ UNCHANGED vars
  BY <1>1, <1>9 DEF Launch, WaitClient, Idle, vars, mainVars, handlerVars, ForkInv
<1> QED
  BY <1>2, <1>3, <1>4, <1>5, <1>6, <1>7, <1>8, <1>9 DEF Next, Server

LEMMA InitAcceptInv == Init => AcceptInv
  BY DEF Init, AcceptInv, LoopStart

\* ex33's server goes on whatever the clients, fork() and accept() do.
THEOREM SurvivalCorrect == Spec => []ForkingServerSurvives
<1>1. ForkInv => ForkingServerSurvives
  BY DEF ForkInv, ForkingServerSurvives
<1> QED
  BY <1>1, InitForkInv, InitAcceptInv, NextForkInv, NextAcceptInv, PTL DEF Spec

\* One waitpid() per turn of ex33's loop is enough, for any number of clients.
THEOREM ZombiesCorrect == Spec => []ZombiesBounded
<1>1. ForkInv => ZombiesBounded
  <2> SUFFICES ASSUME ForkInv PROVE ZombiesBounded
    OBVIOUS
  <2> DEFINE S == {h \in Clients : Forks /\ (Serving(h) \/ handler[h] = "zombie")}
  <2>1. CASE Forks
    <3>1. S = Unreaped
      BY <2>1 DEF Unreaped
    <3> QED
      BY <2>1, <3>1 DEF ForkInv, ZombiesBounded
  <2>2. CASE ~Forks
    <3>1. S = {} /\ Cardinality({}) = 0
      BY <2>2, FS_EmptySet
    <3> QED
      BY <3>1 DEF ForkInv, ZombiesBounded
  <2> QED
    BY <2>1, <2>2
<1> QED
  BY <1>1, InitForkInv, InitAcceptInv, NextForkInv, NextAcceptInv, PTL DEF Spec

-----------------------------------------------------------------------------
(* Whose octets. Between its client's message and its client's screen an   *)
(* octet is in inbox, in buf of the connection's own handler or in outbox, *)
(* and the three follow what was displayed without a gap.                  *)

ClientLabels == {"none", "connect", "send", "recv", "silent", "end", "failed", "killed"}

DataInv ==
  /\ up \in BOOLEAN
  /\ handler \in [Clients -> HandlerLabels]
  /\ fd \in [Clients -> Clients \union {0}]
  /\ client \in [Clients -> ClientLabels]
  /\ round \in [Clients -> Nat]
  /\ hung \in [Clients -> BOOLEAN]
  /\ buf \in [Clients -> Seq(Octets)]
  /\ inbox \in [Clients -> Seq(Octets)]
  /\ outbox \in [Clients -> Seq(Octets)]
  /\ got \in [Clients -> Seq(Octets)]

\* A connection is accepted once, and served by the handler of its name.
Queued(c) == \E i \in 1..Len(queue) : queue[i] = c
MainInv ==
  /\ \A i, j \in 1..Len(queue) : queue[i] = queue[j] => i = j
  /\ main = "create" => handler[cfd] = "none" /\ fd[cfd] = cfd
  /\ main = "parent" => Forks
LifeInv(c) ==
  /\ fd[c] \in {0, c}
  /\ handler[c] # "none" => fd[c] = c
  /\ Queued(c) => fd[c] = 0 /\ client[c] \notin {"none", "connect"}
  /\ client[c] \in {"none", "connect"} =>
       fd[c] = 0 /\ inbox[c] = <<>> /\ got[c] = <<>> /\ round[c] = 0
  /\ fd[c] = 0 => outbox[c] = <<>>
  /\ handler[c] # "write" => buf[c] = <<>>
  /\ hung[c] => Ended(c)

\* s is the octets of client c from the one after the n-th on.
Follows(s, c, n) == \A i \in 1..Len(s) : s[i] = <<c, n + i>>
InOrder(c) ==
  /\ Follows(outbox[c], c, Len(got[c]))
  /\ Follows(buf[c], c, Len(got[c]) + Len(outbox[c]))
  /\ Follows(inbox[c], c, Len(got[c]) + Len(outbox[c]) + Len(buf[c]))
  /\ client[c] = "send" =>
       /\ Len(got[c]) = round[c] /\ (program # "ex23" => round[c] = 0)
       /\ Len(outbox[c]) + Len(buf[c]) + Len(inbox[c]) = 0
  /\ client[c] = "recv" /\ program = "ex23" =>
       /\ Len(got[c]) = round[c]
       /\ Len(outbox[c]) + Len(buf[c]) + Len(inbox[c]) = 1
\* The client of ex23 has displayed a variable never set.
Spoiled(c) == program = "ex23" /\ Closed(c) /\ client[c] = "send"

AllDone(s) == \A i \in 1..Len(s) : s[i] = Done
Right(c, n) ==
  \/ got[c][n] = IF FixedAnswer THEN Done ELSE <<c, n>>
  \/ got[c][n] = Unset /\ program = "ex23" /\ Closed(c)
EchoInv(c) ==
  /\ \A n \in 1..Len(got[c]) : Right(c, n)
  /\ FixedAnswer => AllDone(outbox[c]) /\ AllDone(buf[c])
  /\ ~FixedAnswer /\ ~hung[c] => Spoiled(c) \/ InOrder(c)

StreamInv == DataInv /\ AcceptInv /\ MainInv /\ \A c \in Clients : LifeInv(c) /\ EchoInv(c)

\* What parts and concatenations of such sequences are.
LEMMA FollowsParts ==
  ASSUME NEW s \in Seq(Octets), NEW n \in 0..Len(s), NEW c, NEW m \in Nat
  PROVE  /\ SubSeq(s, 1, n) \in Seq(Octets) /\ Len(SubSeq(s, 1, n)) = n
         /\ SubSeq(s, n + 1, Len(s)) \in Seq(Octets)
         /\ Len(SubSeq(s, n + 1, Len(s))) = Len(s) - n
         /\ Follows(s, c, m) => /\ Follows(SubSeq(s, 1, n), c, m)
                                /\ Follows(SubSeq(s, n + 1, Len(s)), c, m + n)
         /\ AllDone(s) => AllDone(SubSeq(s, 1, n)) /\ AllDone(SubSeq(s, n + 1, Len(s)))
<1>1. /\ Len(s) \in Nat /\ n \in Int /\ n + 1 \in Int /\ Len(s) \in Int
      /\ \A i \in 1..n : s[i] \in Octets
      /\ \A i \in (n + 1)..Len(s) : s[i] \in Octets
  BY LenProperties, ElementOfSeq
<1>2. /\ SubSeq(s, 1, n) \in Seq(Octets) /\ Len(SubSeq(s, 1, n)) = n
      /\ \A i \in 1..n : SubSeq(s, 1, n)[i] = s[i]
  BY <1>1, SubSeqProperties
<1>3. /\ SubSeq(s, n + 1, Len(s)) \in Seq(Octets)
      /\ Len(SubSeq(s, n + 1, Len(s))) = Len(s) - n
      /\ \A i \in 1..(Len(s) - n) : SubSeq(s, n + 1, Len(s))[i] = s[n + i]
  <2>1. /\ SubSeq(s, n + 1, Len(s)) \in Seq(Octets)
        /\ Len(SubSeq(s, n + 1, Len(s)))
             = IF n + 1 <= Len(s) THEN Len(s) - (n + 1) + 1 ELSE 0
        /\ \A i \in 1..(Len(s) - (n + 1) + 1) : SubSeq(s, n + 1, Len(s))[i] = s[(n + 1) + i - 1]
    BY <1>1, SubSeqProperties
  <2> QED
    BY <1>1, <2>1
<1>4. ASSUME Follows(s, c, m)
      PROVE  Follows(SubSeq(s, 1, n), c, m) /\ Follows(SubSeq(s, n + 1, Len(s)), c, m + n)
  <2>1. \A i \in 1..Len(s) : s[i] = <<c, m + i>>
    BY <1>4 DEF Follows
  <2>2. \A i \in 1..n : SubSeq(s, 1, n)[i] = <<c, m + i>>
    BY <1>1, <1>2, <2>1
  <2>3. ASSUME NEW i \in 1..(Len(s) - n)
        PROVE  SubSeq(s, n + 1, Len(s))[i] = <<c, m + n + i>>
    <3>1. n + i \in 1..Len(s) /\ m + (n + i) = m + n + i
      BY <1>1
    <3> QED
      BY <1>3, <2>1, <3>1
  <2> QED
    BY <1>2, <1>3, <2>2, <2>3 DEF Follows
<1>5. ASSUME AllDone(s)
      PROVE  AllDone(SubSeq(s, 1, n)) /\ AllDone(SubSeq(s, n + 1, Len(s)))
  <2>1. \A i \in 1..Len(s) : s[i] = Done
    BY <1>5 DEF AllDone
  <2>2. \A i \in 1..n : SubSeq(s, 1, n)[i] = Done
    BY <1>1, <1>2, <2>1
  <2>3. ASSUME NEW i \in 1..(Len(s) - n)
        PROVE  SubSeq(s, n + 1, Len(s))[i] = Done
    <3>1. n + i \in 1..Len(s)
      BY <1>1
    <3> QED
      BY <1>3, <2>1, <3>1
  <2> QED
    BY <1>2, <1>3, <2>2, <2>3 DEF AllDone
<1> QED
  BY <1>2, <1>3, <1>4, <1>5

LEMMA FollowsConcat ==
  ASSUME NEW s \in Seq(Octets), NEW t \in Seq(Octets), NEW c, NEW m \in Nat
  PROVE  /\ s \o t \in Seq(Octets) /\ Len(s \o t) = Len(s) + Len(t)
         /\ Follows(s, c, m) /\ Follows(t, c, m + Len(s)) => Follows(s \o t, c, m)
         /\ AllDone(s) /\ AllDone(t) => AllDone(s \o t)
<1>1. Len(s) \in Nat /\ Len(t) \in Nat
  BY LenProperties
<1>2. /\ s \o t \in Seq(Octets) /\ Len(s \o t) = Len(s) + Len(t)
      /\ \A i \in 1..(Len(s) + Len(t)) :
           (s \o t)[i] = IF i <= Len(s) THEN s[i] ELSE t[i - Len(s)]
  BY ConcatProperties
<1> QED
  BY <1>1, <1>2 DEF Follows, AllDone

LEMMA OctetTypes ==
  /\ <<>> \in Seq(Octets) /\ <<Done>> \in Seq(Octets) /\ <<Invalid>> \in Seq(Octets)
  /\ Unset \in Octets /\ Len(<<>>) = 0
  /\ \A c \in Clients, n \in Nat \ {0} : <<c, n>> \in Octets
  /\ \A c, m : Follows(<<>>, c, m)
  /\ AllDone(<<>>) /\ AllDone(<<Done>>)
BY DEF Octets, Follows, AllDone

LEMMA InitStreamInv == Init => StreamInv
<1> SUFFICES ASSUME Init PROVE StreamInv
  OBVIOUS
<1>1. DataInv
  BY OctetTypes DEF Init, DataInv, HandlerLabels, ClientLabels
<1>2. MainInv /\ \A c \in Clients : LifeInv(c)
  BY DEF Init, MainInv, LifeInv, LoopStart, Queued
<1>3. \A c \in Clients : EchoInv(c)
  BY OctetTypes DEF Init, EchoInv, InOrder, Right
<1> QED
  BY <1>1, <1>2, <1>3, InitAcceptInv DEF StreamInv

\* A connection that one of ex23's threads has closed stays so.
LEMMA ClosedStays ==
  ASSUME StreamInv, [Next]_vars, program = "ex23", NEW c \in Clients, Closed(c)
  PROVE  Closed(c)'
<1>0. /\ handler \in [Clients -> HandlerLabels] /\ fd \in [Clients -> Clients \union {0}]
      /\ main # "parent" /\ ~Forks /\ \A h \in Clients : fd[h] \in {0, h}
      /\ queue \in Seq(Clients)
  BY DEF StreamInv, DataInv, AcceptInv, MainInv, LifeInv, Forks
<1>1. main' # "parent" /\ (up' => up)
  <2>1. CASE Server \/ AcceptFails
    BY <1>0, <2>1 DEF Server, Reap, Accept, Create, ParentClose, AcceptFails, LoopStart
  <2>2. ASSUME NEW h \in Clients, Handler(h) PROVE main' # "parent" /\ (up' => up)
    <3>1. main' \in {main, "accept"}
      BY <2>2 DEF Handler, Start, ReadRequest, ReadOctets, AnswerInvalid, EndOfInput,
         ReadFails, Fail, WriteReply, Close, mainVars
    <3>2. up
      BY <1>0, <2>2 DEF Handler, Start, ReadRequest, WriteReply, Close, Runs
    <3> QED
      BY <1>0, <3>1, <3>2
  <2>3. ASSUME NEW d \in Clients, Client(d) \/ Interrupt(d) PROVE main' # "parent" /\ (up' => up)
    BY <1>0, <2>3 DEF Client, Connect, Send, Receive, Interrupt, mainVars
  <2>4. CASE Launch \/ WaitClient \/ Idle \/ UNCHANGED vars
    BY <1>0, <2>4 DEF Launch, WaitClient, Idle, vars, mainVars
  <2> QED
    BY <2>1, <2>2, <2>3, <2>4 DEF Next
<1>2. CASE ~up
  BY <1>1, <1>2 DEF Closed
<1>3. CASE up
  <2>1. handler[c] \in {"done", "zombie", "reaped"} /\ fd[c] = c /\ 0 \notin Clients
    BY <1>0, <1>3 DEF Closed, Clients
  <2>2. handler'[c] \in {"done", "zombie", "reaped"} /\ fd'[c] = c
    <3>1. CASE Reap \/ ParentClose \/ AcceptFails
      BY <1>0, <2>1, <3>1 DEF Reap, ParentClose, AcceptFails, handlerVars
    <3>2. CASE Accept
      <4>1. queue # <<>> /\ Head(queue) \in Clients
        BY <1>0, <3>2, HeadTailProperties DEF Accept
      <4> QED
        BY <1>0, <2>1, <3>2, <4>1 DEF Accept, Concurrent
    <3>3. CASE Create
      <4>1. cfd # c
        BY <2>1, <3>3 DEF Create, StreamInv, MainInv
      <4> QED
        BY <1>0, <2>1, <3>3, <4>1 DEF Create
    <3>4. ASSUME NEW h \in Clients, Handler(h)
          PROVE  handler'[c] \in {"done", "zombie", "reaped"} /\ fd'[c] = c
      <4>1. h # c
        BY <2>1, <3>4 DEF Handler, Start, ReadRequest, WriteReply, Close
      <4> QED
        BY <1>0, <2>1, <3>4, <4>1 DEF Handler, Start, ReadRequest, ReadOctets, AnswerInvalid,
           EndOfInput, ReadFails, Fail, WriteReply, Close, Goto
    <3>5. ASSUME NEW d \in Clients, Client(d) \/ Interrupt(d)
          PROVE  handler'[c] \in {"done", "zombie", "reaped"} /\ fd'[c] = c
      BY <2>1, <3>5 DEF Client, Connect, Send, Receive, Interrupt, handlerVars
    <3>6. CASE Launch \/ WaitClient \/ Idle \/ UNCHANGED vars
      BY <2>1, <3>6 DEF Launch, WaitClient, Idle, vars, handlerVars
    <3> QED
      BY <3>1, <3>2, <3>3, <3>4, <3>5, <3>6 DEF Next, Server
  <2> QED
    BY <1>1, <2>2 DEF Closed
<1> QED
  BY <1>2, <1>3, <1>0 DEF StreamInv, DataInv

\* A step that leaves alone what connection c holds.
LEMMA EchoFrame ==
  ASSUME StreamInv, [Next]_vars, program' = program, NEW c \in Clients,
         buf'[c] = buf[c], client'[c] = client[c], round'[c] = round[c],
         inbox'[c] = inbox[c], outbox'[c] = outbox[c], got'[c] = got[c], hung'[c] = hung[c]
  PROVE  EchoInv(c)'
<1>1. program = "ex23" /\ Closed(c) => Closed(c)'
  BY ClosedStays
<1>2. InOrder(c)' = InOrder(c)
  BY DEF InOrder, Follows
<1>3. Spoiled(c) => Spoiled(c)'
  BY <1>1 DEF Spoiled
<1>4. \A n \in 1..Len(got[c]) : Right(c, n) => Right(c, n)'
  BY <1>1 DEF Right, FixedAnswer
<1> QED
  BY <1>2, <1>3, <1>4 DEF StreamInv, EchoInv, AllDone, FixedAnswer

LEMMA LifeFrame ==
  ASSUME NEW c \in Clients, LifeInv(c), Queued(c)' => Queued(c),
         handler'[c] = handler[c], fd'[c] = fd[c],
         buf'[c] = buf[c], client'[c] = client[c], round'[c] = round[c],
         inbox'[c] = inbox[c], outbox'[c] = outbox[c], got'[c] = got[c], hung'[c] = hung[c]
  PROVE  LifeInv(c)'
BY DEF LifeInv, Ended

\* accept(): the connection leaves the queue, where it was once.
LEMMA StreamAccept ==
  ASSUME StreamInv, Accept
  PROVE  StreamInv'
<1>k. PICK k \in Clients : k = Head(queue)
  BY HeadTailProperties DEF StreamInv, AcceptInv, Accept
<1>0. /\ queue \in Seq(Clients) /\ queue # <<>> /\ k = queue[1] /\ k \in Clients
      /\ Tail(queue) \in Seq(Clients) /\ Len(queue) \in Nat /\ Len(queue) >= 1
      /\ Len(Tail(queue)) = Len(queue) - 1
      /\ \A i \in 1..Len(Tail(queue)) : Tail(queue)[i] = queue[i + 1]
  BY <1>k, HeadTailProperties, LenProperties, EmptySeq DEF StreamInv, AcceptInv, Accept
<1>1. /\ cfd' = k /\ queue' = Tail(queue) /\ fd' = [fd EXCEPT ![k] = k]
      /\ main = "accept"
      /\ \/ main' = "create" /\ handler' = handler
         \/ main' = "serve" /\ handler' = [handler EXCEPT ![k] = "read"]
      /\ UNCHANGED <<program, up, buf, client, round, got, inbox, outbox, hung>>
  BY <1>k DEF Accept, clientVars, sockVars
<1>2. Queued(k) /\ fd[k] = 0 /\ client[k] \notin {"none", "connect"} /\ handler[k] = "none"
  <2>1. Queued(k)
    BY <1>0 DEF Queued
  <2> QED
    BY <1>0, <2>1 DEF StreamInv, LifeInv, Clients
<1>3. DataInv'
  BY <1>0, <1>1 DEF StreamInv, DataInv, HandlerLabels
<1>4. AcceptInv'
  BY <1>0, <1>1 DEF AcceptInv
<1>5. \A c \in Clients : Queued(c)' => Queued(c) /\ c # k
  <2> SUFFICES ASSUME NEW c \in Clients, NEW i \in 1..Len(Tail(queue)), Tail(queue)[i] = c
               PROVE  Queued(c) /\ c # k
    BY <1>1 DEF Queued
  <2>1. i + 1 \in 1..Len(queue) /\ queue[i + 1] = c /\ 1 \in 1..Len(queue) /\ i + 1 # 1
    BY <1>0
  <2> QED
    BY <1>0, <2>1 DEF Queued, StreamInv, MainInv
<1>6. MainInv'
  <2>1. \A i, j \in 1..Len(Tail(queue)) : Tail(queue)[i] = Tail(queue)[j] => i = j
    <3> SUFFICES ASSUME NEW i \in 1..Len(Tail(queue)), NEW j \in 1..Len(Tail(queue)),
                        Tail(queue)[i] = Tail(queue)[j]
                 PROVE  i = j
      OBVIOUS
    <3>1. /\ i + 1 \in 1..Len(queue) /\ j + 1 \in 1..Len(queue)
          /\ queue[i + 1] = queue[j + 1]
      BY <1>0
    <3>2. i + 1 = j + 1
      BY <3>1 DEF StreamInv, MainInv
    <3> QED
      BY <1>0, <3>2
  <2>2. main' = "create" => handler'[cfd'] = "none" /\ fd'[cfd'] = cfd'
    BY <1>0, <1>1, <1>2 DEF StreamInv, DataInv
  <2> QED
    BY <1>1, <2>1, <2>2 DEF MainInv
<1>7. ASSUME NEW c \in Clients PROVE LifeInv(c)' /\ EchoInv(c)'
  <2>1. EchoInv(c)'
    BY <1>1, EchoFrame DEF Next, Server
  <2>2. CASE c # k
    <3>1. handler'[c] = handler[c] /\ fd'[c] = fd[c] /\ LifeInv(c)
      BY <1>1, <2>2 DEF StreamInv, DataInv
    <3>2. LifeInv(c)'
      BY <1>1, <1>5, <3>1, LifeFrame
    <3> QED
      BY <2>1, <3>2
  <2>3. CASE c = k
    <3>1. /\ fd'[k] = k /\ handler'[k] \in {"none", "read"} /\ ~Queued(k)' /\ k # 0
      BY <1>0, <1>1, <1>2, <1>5 DEF StreamInv, DataInv, Clients
    <3>2. buf[k] = <<>> /\ LifeInv(k)
      BY <1>0, <1>2 DEF StreamInv, LifeInv
    <3>3. LifeInv(k)'
      BY <1>1, <1>2, <3>1, <3>2 DEF LifeInv, Ended
    <3> QED
      BY <2>1, <2>3, <3>3
  <2> QED
    BY <2>2, <2>3
<1> QED
  BY <1>3, <1>4, <1>6, <1>7 DEF StreamInv

\* The other steps of main and the launcher.
LEMMA StreamMain ==
  ASSUME StreamInv, [Next]_vars,
         \/ Reap \/ Create \/ ParentClose \/ AcceptFails \/ Launch \/ WaitClient \/ Idle
         \/ UNCHANGED vars
  PROVE  StreamInv'
<1>0. /\ handler \in [Clients -> HandlerLabels] /\ client \in [Clients -> ClientLabels]
      /\ up \in BOOLEAN /\ AcceptInv' /\ AcceptInv
      /\ \A c \in Clients : LifeInv(c)
  BY NextAcceptInv DEF StreamInv, DataInv
<1>1. /\ UNCHANGED <<program, queue, cfd, fd, buf, round, got, inbox, outbox, hung>>
      /\ up' \in BOOLEAN
  BY <1>0 DEF Reap, Create, ParentClose, AcceptFails, Launch, WaitClient, Idle, vars,
     mainVars, handlerVars, clientVars, launcherVars, sockVars
<1>2. /\ handler' \in [Clients -> HandlerLabels]
      /\ \A c \in Clients : \/ handler'[c] = handler[c]
                            \/ handler'[c] # "write" /\ handler[c] # "write" /\ fd[c] = c
      /\ main' = "create" => main = "create" /\ handler' = handler
      /\ main' = "parent" => Forks
  <2>1. CASE Reap
    BY <1>0, <2>1 DEF Reap, HandlerLabels, LifeInv
  <2>2. CASE Create
    BY <1>0, <2>2 DEF Create, HandlerLabels, StreamInv, MainInv, AcceptInv, LoopStart
  <2>3. CASE ParentClose \/ AcceptFails \/ Launch \/ WaitClient \/ Idle \/ UNCHANGED vars
    BY <1>0, <2>3 DEF ParentClose, AcceptFails, Launch, WaitClient, Idle, vars, mainVars,
       handlerVars, StreamInv, MainInv, LoopStart
  <2> QED
    BY <2>1, <2>2, <2>3
<1>3. /\ client' \in [Clients -> ClientLabels]
      /\ \A c \in Clients : \/ client'[c] = client[c]
                            \/ client[c] = "none" /\ client'[c] = "connect"
  <2>1. CASE Launch
    BY <1>0, <2>1 DEF Launch, ClientGoto, ClientLabels
  <2>2. CASE ~Launch
    BY <1>0, <2>2 DEF Reap, Create, ParentClose, AcceptFails, WaitClient, Idle, vars,
       clientVars, launcherVars
  <2> QED
    BY <2>1, <2>2
<1>4. DataInv' /\ MainInv'
  BY <1>0, <1>1, <1>2, <1>3 DEF StreamInv, DataInv, MainInv, Forks
<1>5. ASSUME NEW c \in Clients PROVE LifeInv(c)' /\ EchoInv(c)'
  <2>0. Queued(c)' = Queued(c)
    BY <1>1 DEF Queued
  <2>1. LifeInv(c)'
    BY <1>0, <1>1, <1>2, <1>3, <1>5, <2>0 DEF LifeInv, Ended
  <2>2. CASE client'[c] = client[c]
    BY <1>1, <2>1, <2>2, EchoFrame
  <2>3. CASE client[c] = "none" /\ client'[c] = "connect"
    <3>1. /\ inbox'[c] = <<>> /\ got'[c] = <<>> /\ outbox'[c] = <<>> /\ buf'[c] = <<>>
          /\ client'[c] \notin {"send", "recv"}
      BY <1>0, <1>1, <2>3 DEF LifeInv, Clients
    <3>2. EchoInv(c)'
      BY <3>1, OctetTypes DEF EchoInv, InOrder
    <3> QED
      BY <2>1, <3>2
  <2> QED
    BY <1>3, <2>2, <2>3
<1> QED
  BY <1>0, <1>4, <1>5 DEF StreamInv

\* What a handler does to its own connection.
LEMMA StreamRead ==
  ASSUME StreamInv, NEW h \in Clients, ReadRequest(h)
  PROVE  /\ buf' \in [Clients -> Seq(Octets)] /\ inbox' \in [Clients -> Seq(Octets)]
         /\ \A c \in Clients : c # h => buf'[c] = buf[c] /\ inbox'[c] = inbox[c]
         /\ handler' \in [Clients -> HandlerLabels]
         /\ \A c \in Clients : c # h => handler'[c] = handler[c]
         /\ handler'[h] # "none" /\ (handler'[h] # "write" => buf'[h] = <<>>)
         /\ FixedAnswer => AllDone(buf'[h])
         /\ ~FixedAnswer /\ ~hung[h] /\ InOrder(h) =>
              /\ Follows(buf'[h], h, Len(got[h]) + Len(outbox[h]))
              /\ Follows(inbox'[h], h, Len(got[h]) + Len(outbox[h]) + Len(buf'[h]))
              /\ Len(buf'[h]) + Len(inbox'[h]) = Len(buf[h]) + Len(inbox[h])
<1>0. /\ handler \in [Clients -> HandlerLabels] /\ handler[h] = "read" /\ fd[h] = h
      /\ buf[h] = <<>> /\ inbox[h] \in Seq(Octets) /\ Len(inbox[h]) \in Nat
      /\ buf \in [Clients -> Seq(Octets)] /\ inbox \in [Clients -> Seq(Octets)]
      /\ Len(got[h]) \in Nat /\ Len(outbox[h]) \in Nat
  BY LenProperties DEF ReadRequest, StreamInv, DataInv, LifeInv
<1>00. Len(got[h]) + Len(outbox[h]) \in Nat
  BY LenProperties DEF StreamInv, DataInv
<1>1. CASE ReadOctets(h)
  <2>1. PICK n \in 1..Len(inbox[h]) :
          /\ buf' = [buf EXCEPT ![h] = IF FixedAnswer THEN <<Done>> ELSE SubSeq(inbox[h], 1, n)]
          /\ inbox' = [inbox EXCEPT ![h] = SubSeq(inbox[h], n + 1, Len(inbox[h]))]
          /\ handler' = [handler EXCEPT ![h] = "write"]
    BY <1>0, <1>1 DEF ReadOctets, Goto, Buffer
  <2>2. n \in 0..Len(inbox[h])
    BY <1>0
  <2>3. /\ SubSeq(inbox[h], 1, n) \in Seq(Octets) /\ Len(SubSeq(inbox[h], 1, n)) = n
        /\ SubSeq(inbox[h], n + 1, Len(inbox[h])) \in Seq(Octets)
        /\ Len(SubSeq(inbox[h], n + 1, Len(inbox[h]))) = Len(inbox[h]) - n
        /\ \A m \in Nat : Follows(inbox[h], h, m) =>
             /\ Follows(SubSeq(inbox[h], 1, n), h, m)
             /\ Follows(SubSeq(inbox[h], n + 1, Len(inbox[h])), h, m + n)
    BY <1>0, <2>2, FollowsParts
  <2>4. /\ buf' \in [Clients -> Seq(Octets)] /\ inbox' \in [Clients -> Seq(Octets)]
        /\ handler' \in [Clients -> HandlerLabels] /\ handler'[h] = "write"
        /\ \A c \in Clients : c # h =>
             buf'[c] = buf[c] /\ inbox'[c] = inbox[c] /\ handler'[c] = handler[c]
        /\ buf'[h] = IF FixedAnswer THEN <<Done>> ELSE SubSeq(inbox[h], 1, n)
        /\ inbox'[h] = SubSeq(inbox[h], n + 1, Len(inbox[h]))
    BY <1>0, <2>1, <2>3, OctetTypes DEF HandlerLabels
  <2>5. FixedAnswer => AllDone(buf'[h])
    BY <2>4, OctetTypes
  <2>6. ASSUME ~FixedAnswer, ~hung[h], InOrder(h)
        PROVE  /\ Follows(buf'[h], h, Len(got[h]) + Len(outbox[h]))
               /\ Follows(inbox'[h], h, Len(got[h]) + Len(outbox[h]) + Len(buf'[h]))
               /\ Len(buf'[h]) + Len(inbox'[h]) = Len(buf[h]) + Len(inbox[h])
    <3>1. Len(buf[h]) = 0 /\ Len(buf'[h]) = n /\ Len(inbox'[h]) = Len(inbox[h]) - n
      BY <1>0, <2>3, <2>4, <2>6, OctetTypes
    <3>2. Follows(inbox[h], h, Len(got[h]) + Len(outbox[h]))
      <4>1. Len(got[h]) + Len(outbox[h]) + Len(buf[h]) = Len(got[h]) + Len(outbox[h])
        BY <1>0, <3>1
      <4>2. Follows(inbox[h], h, Len(got[h]) + Len(outbox[h]) + Len(buf[h]))
        BY <2>6 DEF InOrder
      <4> QED
        BY <4>1, <4>2
    <3>3. Len(got[h]) + Len(outbox[h]) \in Nat
      BY <1>00
    <3>4. /\ Follows(SubSeq(inbox[h], 1, n), h, Len(got[h]) + Len(outbox[h]))
          /\ Follows(SubSeq(inbox[h], n + 1, Len(inbox[h])), h, Len(got[h]) + Len(outbox[h]) + n)
      BY <2>3, <3>2, <3>3
    <3>5. Len(buf'[h]) + Len(inbox'[h]) = Len(buf[h]) + Len(inbox[h])
      BY <1>0, <3>1
    <3> QED
      BY <2>4, <2>6, <3>1, <3>4, <3>5
  <2> QED
    BY <2>4, <2>5, <2>6
<1>2. CASE inbox[h] = <<>> /\ hung[h] /\ AnswerInvalid(h)
  <2>1. /\ buf' = [buf EXCEPT ![h] = IF FixedAnswer THEN <<Done>> ELSE <<Invalid>>]
        /\ handler' = [handler EXCEPT ![h] = "write"] /\ inbox' = inbox
    BY <1>2 DEF AnswerInvalid, Goto, Buffer
  <2>2. FixedAnswer => AllDone(buf'[h])
    BY <1>0, <2>1, OctetTypes
  <2>3. /\ buf' \in [Clients -> Seq(Octets)] /\ handler' \in [Clients -> HandlerLabels]
    BY <1>0, <2>1, OctetTypes DEF HandlerLabels
  <2> QED
    BY <1>0, <1>2, <2>1, <2>2, <2>3
<1>3. CASE inbox[h] = <<>> /\ hung[h] /\ (EndOfInput(h) \/ ReadFails(h))
  <2>1. /\ buf' = buf /\ inbox' = inbox
        /\ \/ handler' = handler
           \/ handler' = [handler EXCEPT ![h] = "close"]
           \/ handler' = [handler EXCEPT ![h] = "zombie"]
    BY <1>3 DEF EndOfInput, ReadFails, Fail, Goto
  <2>2. AllDone(buf'[h])
    BY <1>0, <2>1, OctetTypes
  <2>3. handler' \in [Clients -> HandlerLabels] /\ handler'[h] # "none"
    BY <1>0, <2>1 DEF HandlerLabels
  <2> QED
    BY <1>0, <1>3, <2>1, <2>2, <2>3
<1> QED
  BY <1>0, <1>1, <1>2, <1>3 DEF ReadRequest

LEMMA StreamWrite ==
  ASSUME StreamInv, NEW h \in Clients, WriteReply(h)
  PROVE  /\ buf' \in [Clients -> Seq(Octets)] /\ outbox' \in [Clients -> Seq(Octets)]
         /\ \A c \in Clients : c # h => buf'[c] = buf[c] /\ outbox'[c] = outbox[c]
         /\ handler' \in [Clients -> HandlerLabels]
         /\ \A c \in Clients : c # h => handler'[c] = handler[c]
         /\ handler'[h] # "none" /\ buf'[h] = <<>> /\ fd[h] = h
         /\ FixedAnswer => AllDone(outbox'[h])
         /\ ~FixedAnswer /\ ~hung[h] /\ InOrder(h) =>
              /\ Follows(outbox'[h], h, Len(got[h]))
              /\ Len(outbox'[h]) = Len(outbox[h]) + Len(buf[h])
<1>0. /\ handler \in [Clients -> HandlerLabels] /\ handler[h] = "write" /\ fd[h] = h
      /\ outbox[h] \in Seq(Octets) /\ buf[h] \in Seq(Octets)
      /\ buf \in [Clients -> Seq(Octets)] /\ outbox \in [Clients -> Seq(Octets)]
  BY DEF WriteReply, StreamInv, DataInv, LifeInv
<1>00. Len(got[h]) \in Nat /\ Len(got[h]) + Len(outbox[h]) \in Nat
  BY LenProperties DEF StreamInv, DataInv
<1>1. buf' = [buf EXCEPT ![h] = <<>>]
  BY DEF WriteReply, Buffer
<1>2. /\ outbox[h] \o buf[h] \in Seq(Octets)
      /\ Len(outbox[h] \o buf[h]) = Len(outbox[h]) + Len(buf[h])
      /\ Follows(outbox[h], h, Len(got[h])) /\ Follows(buf[h], h, Len(got[h]) + Len(outbox[h]))
           => Follows(outbox[h] \o buf[h], h, Len(got[h]))
      /\ AllDone(outbox[h]) /\ AllDone(buf[h]) => AllDone(outbox[h] \o buf[h])
  BY <1>0, <1>00, FollowsConcat
<1>3. FixedAnswer => AllDone(outbox[h]) /\ AllDone(buf[h])
  BY DEF StreamInv, EchoInv
<1>4. \/ outbox' = outbox /\ hung[h]
      \/ outbox' = [outbox EXCEPT ![h] = outbox[h] \o buf[h]]
  BY <1>0 DEF WriteReply, Buffer
<1>5. \/ handler' = handler
      \/ \E label \in {"read", "close", "zombie"} : handler' = [handler EXCEPT ![h] = label]
  BY DEF WriteReply, Goto, Fail
<1>6. /\ handler' \in [Clients -> HandlerLabels] /\ handler'[h] # "none"
      /\ \A c \in Clients : c # h => handler'[c] = handler[c]
  BY <1>0, <1>5 DEF HandlerLabels
<1>7. /\ outbox' \in [Clients -> Seq(Octets)]
      /\ \A c \in Clients : c # h => outbox'[c] = outbox[c]
      /\ (outbox'[h] = outbox[h] /\ hung[h]) \/ outbox'[h] = outbox[h] \o buf[h]
  BY <1>0, <1>2, <1>4
<1>8. /\ buf' \in [Clients -> Seq(Octets)] /\ buf'[h] = <<>>
      /\ \A c \in Clients : c # h => buf'[c] = buf[c]
  BY <1>0, <1>1, OctetTypes
<1>9. FixedAnswer => AllDone(outbox'[h])
  BY <1>2, <1>3, <1>7
<1>10. ASSUME ~FixedAnswer, ~hung[h], InOrder(h)
       PROVE  /\ Follows(outbox'[h], h, Len(got[h]))
              /\ Len(outbox'[h]) = Len(outbox[h]) + Len(buf[h])
  BY <1>2, <1>7, <1>10 DEF InOrder
<1> QED
  BY <1>0, <1>6, <1>7, <1>8, <1>9, <1>10

LEMMA StreamHandler ==
  ASSUME StreamInv, [Next]_vars, NEW h \in Clients, Handler(h)
  PROVE  StreamInv'
<1>0. /\ UNCHANGED <<program, queue, cfd, fd, client, round, got, hung>>
      /\ main' \in {main, "accept"} /\ AcceptInv'
  <2>1. /\ UNCHANGED <<program, queue, cfd, fd, client, round, got, hung>>
        /\ main' \in {main, "accept"}
    BY DEF Handler, Start, ReadRequest, ReadOctets, AnswerInvalid, EndOfInput, ReadFails,
       Fail, WriteReply, Close, mainVars, clientVars, sockVars
  <2> QED
    BY <2>1, NextAcceptInv DEF StreamInv
<1>1. up' \in BOOLEAN
  BY DEF StreamInv, DataInv, Handler, Start, ReadRequest, ReadOctets, AnswerInvalid,
     EndOfInput, ReadFails, Fail, WriteReply, Close, mainVars
<1>2. /\ handler[h] # "none" /\ handler \in [Clients -> HandlerLabels]
      /\ fd[h] = h /\ 0 \notin Clients
  <2>1. handler[h] # "none"
    BY DEF Handler, Start, ReadRequest, WriteReply, Close
  <2> QED
    BY <2>1 DEF StreamInv, DataInv, LifeInv, Clients
\* What every one of its steps does.
<1>3. CASE /\ buf' \in [Clients -> Seq(Octets)] /\ inbox' \in [Clients -> Seq(Octets)]
           /\ outbox' \in [Clients -> Seq(Octets)] /\ handler' \in [Clients -> HandlerLabels]
           /\ \A c \in Clients : c # h => /\ buf'[c] = buf[c] /\ inbox'[c] = inbox[c]
                                          /\ outbox'[c] = outbox[c] /\ handler'[c] = handler[c]
           /\ handler'[h] # "none" /\ (handler'[h] # "write" => buf'[h] = <<>>)
           /\ EchoInv(h)'
  <2>1. DataInv'
    BY <1>0, <1>1, <1>3 DEF StreamInv, DataInv
  <2>2. MainInv'
    <3>1. main = "create" => cfd # h /\ cfd \in Clients
      BY <1>2 DEF StreamInv, MainInv, AcceptInv
    <3> QED
      BY <1>0, <1>3, <3>1 DEF StreamInv, MainInv, Forks
  <2>3. ASSUME NEW c \in Clients PROVE LifeInv(c)' /\ EchoInv(c)'
    <3>0. Queued(c)' = Queued(c) /\ LifeInv(c)
      BY <1>0 DEF Queued, StreamInv
    <3>1. CASE c # h
      BY <1>0, <1>3, <3>0, <3>1, EchoFrame, LifeFrame
    <3>2. CASE c = h
      <4>1. LifeInv(h)'
        BY <1>0, <1>2, <1>3, <3>0, <3>2 DEF LifeInv, Ended
      <4> QED
        BY <1>3, <3>2, <4>1
    <3> QED
      BY <3>1, <3>2
  <2> QED
    BY <1>0, <2>1, <2>2, <2>3 DEF StreamInv
<1>4. program = "ex23" /\ Closed(h) => Closed(h)'
  BY ClosedStays
<1>5. (\A n \in 1..Len(got[h]) : Right(h, n)) => \A n \in 1..Len(got'[h]) : Right(h, n)'
  BY <1>0, <1>4 DEF Right, FixedAnswer
<1>6. Spoiled(h) => Spoiled(h)'
  BY <1>0, <1>4 DEF Spoiled
<1>7. EchoInv(h) /\ FixedAnswer' = FixedAnswer
  BY <1>0 DEF StreamInv, FixedAnswer, EchoInv
<1>8. CASE Start(h) \/ Close(h)
  <2>1. UNCHANGED <<buf, inbox, outbox>>
    BY <1>8 DEF Start, Close, sockVars
  <2>2. /\ handler' \in [Clients -> HandlerLabels]
        /\ handler'[h] \in {"read", "done", "zombie"} /\ handler[h] # "write"
        /\ \A c \in Clients : c # h => handler'[c] = handler[c]
    BY <1>2, <1>8 DEF Start, Close, Goto, HandlerLabels
  <2>3. EchoInv(h)'
    BY <1>0, <2>1, EchoFrame
  <2> QED
    BY <1>3, <2>1, <2>2, <2>3 DEF StreamInv, DataInv, LifeInv
<1>9. CASE ReadRequest(h)
  <2>1. outbox' = outbox
    BY <1>9 DEF ReadRequest
  <2>2. /\ buf' \in [Clients -> Seq(Octets)] /\ inbox' \in [Clients -> Seq(Octets)]
        /\ \A c \in Clients : c # h => buf'[c] = buf[c] /\ inbox'[c] = inbox[c]
        /\ handler' \in [Clients -> HandlerLabels]
        /\ \A c \in Clients : c # h => handler'[c] = handler[c]
        /\ handler'[h] # "none" /\ (handler'[h] # "write" => buf'[h] = <<>>)
        /\ FixedAnswer => AllDone(buf'[h])
        /\ ~FixedAnswer /\ ~hung[h] /\ InOrder(h) =>
              /\ Follows(buf'[h], h, Len(got[h]) + Len(outbox[h]))
              /\ Follows(inbox'[h], h, Len(got[h]) + Len(outbox[h]) + Len(buf'[h]))
              /\ Len(buf'[h]) + Len(inbox'[h]) = Len(buf[h]) + Len(inbox[h])
    BY <1>9, StreamRead
  <2>3. ASSUME ~FixedAnswer, ~hung[h], InOrder(h) PROVE InOrder(h)'
    <3>1. /\ Len(outbox[h]) \in Nat /\ Len(buf[h]) \in Nat /\ Len(inbox[h]) \in Nat
          /\ Len(buf'[h]) \in Nat /\ Len(inbox'[h]) \in Nat
      BY <2>2, LenProperties DEF StreamInv, DataInv
    <3>2. Len(outbox[h]) + Len(buf'[h]) + Len(inbox'[h])
            = Len(outbox[h]) + Len(buf[h]) + Len(inbox[h])
      <4> DEFINE o == Len(outbox[h])
                 b == Len(buf[h])
                 i == Len(inbox[h])
                 bb == Len(buf'[h])
                 ii == Len(inbox'[h])
      <4>1. {o, b, i, bb, ii} \subseteq Nat /\ bb + ii = b + i
        BY <2>2, <2>3, <3>1
      <4> HIDE DEF o, b, i, bb, ii
      <4>2. o + bb + ii = o + b + i
        BY <4>1
      <4> QED
        BY <4>2 DEF o, b, i, bb, ii
    <3>3. /\ Follows(outbox'[h], h, Len(got'[h]))
          /\ Follows(buf'[h], h, Len(got'[h]) + Len(outbox'[h]))
          /\ Follows(inbox'[h], h, Len(got'[h]) + Len(outbox'[h]) + Len(buf'[h]))
      BY <1>0, <2>1, <2>2, <2>3 DEF InOrder
    <3> QED
      BY <1>0, <2>1, <2>3, <3>2, <3>3 DEF InOrder, Follows
  <2>4. EchoInv(h)'
    BY <1>0, <1>5, <1>6, <1>7, <2>1, <2>2, <2>3 DEF EchoInv
  <2> QED
    BY <1>3, <2>1, <2>2, <2>4 DEF StreamInv, DataInv
<1>10. CASE WriteReply(h)
  <2>1. inbox' = inbox
    BY <1>10 DEF WriteReply
  <2>2. /\ buf' \in [Clients -> Seq(Octets)] /\ outbox' \in [Clients -> Seq(Octets)]
        /\ \A c \in Clients : c # h => buf'[c] = buf[c] /\ outbox'[c] = outbox[c]
        /\ handler' \in [Clients -> HandlerLabels]
        /\ \A c \in Clients : c # h => handler'[c] = handler[c]
        /\ handler'[h] # "none" /\ buf'[h] = <<>> /\ fd[h] = h
        /\ FixedAnswer => AllDone(outbox'[h])
        /\ ~FixedAnswer /\ ~hung[h] /\ InOrder(h) =>
             /\ Follows(outbox'[h], h, Len(got[h]))
             /\ Len(outbox'[h]) = Len(outbox[h]) + Len(buf[h])
    BY <1>10, StreamWrite
  <2>3. ASSUME ~FixedAnswer, ~hung[h], InOrder(h) PROVE InOrder(h)'
    <3>0. Len(buf'[h]) = 0
      BY <2>2, OctetTypes
    <3>1. /\ Len(outbox[h]) \in Nat /\ Len(buf[h]) \in Nat /\ Len(inbox[h]) \in Nat
          /\ Len(got[h]) \in Nat
      BY LenProperties DEF StreamInv, DataInv
    <3>2. /\ Len(outbox'[h]) + Len(buf'[h]) + Len(inbox[h])
               = Len(outbox[h]) + Len(buf[h]) + Len(inbox[h])
          /\ Len(got[h]) + Len(outbox'[h]) + Len(buf'[h])
               = Len(got[h]) + Len(outbox[h]) + Len(buf[h])
      <4> DEFINE g == Len(got[h])
                 o == Len(outbox[h])
                 b == Len(buf[h])
                 i == Len(inbox[h])
                 oo == Len(outbox'[h])
                 bb == Len(buf'[h])
      <4>1. {g, o, b, i} \subseteq Nat /\ bb = 0 /\ oo = o + b
        BY <2>2, <2>3, <3>0, <3>1
      <4> HIDE DEF g, o, b, i, oo, bb
      <4>2. oo + bb + i = o + b + i /\ g + oo + bb = g + o + b
        BY <4>1
      <4> QED
        BY <4>2 DEF g, o, b, i, oo, bb
    <3>3. /\ Follows(outbox'[h], h, Len(got'[h]))
          /\ Follows(buf'[h], h, Len(got'[h]) + Len(outbox'[h]))
      BY <1>0, <2>2, <2>3, OctetTypes
    <3>4. Follows(inbox'[h], h, Len(got'[h]) + Len(outbox'[h]) + Len(buf'[h]))
      <4>1. Follows(inbox[h], h, Len(got[h]) + Len(outbox[h]) + Len(buf[h]))
        BY <2>3 DEF InOrder
      <4>2. Len(got'[h]) + Len(outbox'[h]) + Len(buf'[h])
               = Len(got[h]) + Len(outbox[h]) + Len(buf[h])
        BY <1>0, <3>2
      <4> QED
        BY <2>1, <4>1, <4>2
    <3> QED
      BY <1>0, <2>1, <2>3, <3>2, <3>3, <3>4 DEF InOrder
  <2>4. AllDone(buf'[h])
    BY <2>2, OctetTypes
  <2>5. EchoInv(h)'
    BY <1>0, <1>5, <1>6, <1>7, <2>2, <2>3, <2>4 DEF EchoInv
  <2> QED
    BY <1>3, <2>1, <2>2, <2>5 DEF StreamInv, DataInv
<1> QED
  BY <1>8, <1>9, <1>10 DEF Handler

\* A step of client c touches its own connection only.
LEMMA StreamClientFrame ==
  ASSUME StreamInv, [Next]_vars, NEW c \in Clients,
         UNCHANGED <<program, mainVars, handlerVars>>,
         client' \in [Clients -> ClientLabels], round' \in [Clients -> Nat],
         hung' \in [Clients -> BOOLEAN], inbox' \in [Clients -> Seq(Octets)],
         outbox' \in [Clients -> Seq(Octets)], got' \in [Clients -> Seq(Octets)],
         \A d \in Clients : d # c =>
           /\ client'[d] = client[d] /\ round'[d] = round[d] /\ hung'[d] = hung[d]
           /\ inbox'[d] = inbox[d] /\ outbox'[d] = outbox[d] /\ got'[d] = got[d],
         client[c] \notin {"none", "connect"}, client'[c] \notin {"none", "connect"},
         fd[c] = 0 => outbox'[c] = <<>>,
         hung'[c] => Ended(c)',
         EchoInv(c)'
  PROVE  StreamInv'
<1>1. UNCHANGED <<up, queue, main, cfd, handler, fd, buf>>
  BY DEF mainVars, handlerVars
<1>2. DataInv' /\ AcceptInv' /\ MainInv'
  BY <1>1 DEF StreamInv, DataInv, AcceptInv, MainInv, Forks
<1>3. ASSUME NEW d \in Clients PROVE LifeInv(d)' /\ EchoInv(d)'
  <2>0. Queued(d)' = Queued(d) /\ LifeInv(d)
    BY <1>1 DEF Queued, StreamInv
  <2>1. CASE d # c
    <3>1. EchoInv(d)'
      BY <1>1, <2>1, EchoFrame
    <3>2. LifeInv(d)'
      BY <1>1, <2>0, <2>1, LifeFrame
    <3> QED
      BY <3>1, <3>2
  <2>2. CASE d = c
    <3>1. LifeInv(c)'
      BY <1>1, <2>0, <2>2 DEF LifeInv
    <3> QED
      BY <2>2, <3>1
  <2> QED
    BY <2>1, <2>2
<1> QED
  BY <1>2, <1>3 DEF StreamInv

LEMMA StreamConnect ==
  ASSUME StreamInv, [Next]_vars, NEW c \in Clients, Connect(c)
  PROVE  StreamInv'
<1>0. /\ UNCHANGED <<program, up, main, cfd, handler, fd, buf, round, got, inbox, outbox>>
      /\ client[c] = "connect" /\ queue \in Seq(Clients) /\ Len(queue) \in Nat
      /\ client \in [Clients -> ClientLabels] /\ hung \in [Clients -> BOOLEAN]
      /\ LifeInv(c) /\ 0 \notin Clients
  BY LenProperties DEF Connect, handlerVars, StreamInv, DataInv, AcceptInv, Clients
<1>1. /\ fd[c] = 0 /\ handler[c] = "none" /\ ~Queued(c)
      /\ inbox[c] = <<>> /\ got[c] = <<>> /\ outbox[c] = <<>> /\ buf[c] = <<>> /\ round[c] = 0
  BY <1>0 DEF LifeInv, Clients
<1>2. \/ /\ queue' = Append(queue, c) /\ hung' = hung
         /\ client' = [client EXCEPT ![c] = IF c \in silent THEN "silent" ELSE "send"]
      \/ /\ queue' = queue /\ hung' = [hung EXCEPT ![c] = TRUE]
         /\ client' = [client EXCEPT ![c] = "failed"]
  BY DEF Connect, HangUp, ClientGoto
<1>3. /\ client' \in [Clients -> ClientLabels] /\ hung' \in [Clients -> BOOLEAN]
      /\ client'[c] \in {"silent", "send", "failed"}
      /\ client'[c] = "failed" \/ hung'[c] = hung[c]
      /\ \A d \in Clients : d # c => client'[d] = client[d] /\ hung'[d] = hung[d]
  BY <1>0, <1>2 DEF ClientLabels
<1>4. /\ \A d \in Clients : Queued(d)' => Queued(d) \/ d = c
      /\ \A i, j \in 1..Len(queue') : queue'[i] = queue'[j] => i = j
  <2>1. CASE queue' = queue
    BY <2>1 DEF Queued, StreamInv, MainInv
  <2>2. CASE queue' = Append(queue, c)
    <3>1. /\ Len(queue') = Len(queue) + 1 /\ queue'[Len(queue) + 1] = c
          /\ \A i \in 1..Len(queue) : queue'[i] = queue[i]
      BY <1>0, <2>2, AppendProperties
    <3>2. \A i \in 1..Len(queue) : queue[i] # c
      BY <1>1 DEF Queued
    <3>3. \A i \in 1..Len(queue') : i \in 1..Len(queue) \/ i = Len(queue) + 1
      BY <1>0, <3>1
    <3> QED
      BY <3>1, <3>2, <3>3 DEF Queued, StreamInv, MainInv
  <2> QED
    BY <1>2, <2>1, <2>2
<1>5. DataInv' /\ MainInv' /\ AcceptInv'
  BY <1>0, <1>3, <1>4, NextAcceptInv DEF StreamInv, DataInv, MainInv, Forks
<1>6. ASSUME NEW d \in Clients PROVE LifeInv(d)' /\ EchoInv(d)'
  <2>0. LifeInv(d)
    BY DEF StreamInv
  <2>1. CASE d # c
    <3>1. EchoInv(d)'
      BY <1>0, <1>3, <2>1, EchoFrame
    <3>2. LifeInv(d)'
      BY <1>0, <1>3, <1>4, <2>0, <2>1, LifeFrame
    <3> QED
      BY <3>1, <3>2
  <2>2. CASE d = c
    <3>1. LifeInv(c)'
      BY <1>0, <1>1, <1>3 DEF LifeInv, Ended
    <3>2. InOrder(c)'
      BY <1>0, <1>1, <1>3, OctetTypes DEF InOrder
    <3>3. EchoInv(c)'
      BY <1>0, <1>1, <3>2, OctetTypes DEF EchoInv
    <3> QED
      BY <2>2, <3>1, <3>3
  <2> QED
    BY <2>1, <2>2
<1> QED
  BY <1>5, <1>6 DEF StreamInv

LEMMA StreamSend ==
  ASSUME StreamInv, [Next]_vars, NEW c \in Clients, Send(c)
  PROVE  StreamInv'
<1>0. /\ UNCHANGED <<program, mainVars, handlerVars, round, got, outbox>>
      /\ client[c] = "send"
      /\ client \in [Clients -> ClientLabels] /\ hung \in [Clients -> BOOLEAN]
      /\ inbox \in [Clients -> Seq(Octets)] /\ inbox[c] \in Seq(Octets)
      /\ LifeInv(c) /\ EchoInv(c) /\ ~hung[c] /\ round[c] \in Nat
  BY DEF Send, StreamInv, DataInv, LifeInv, Ended
<1>1. /\ program' = program /\ up' = up /\ buf' = buf /\ handler' = handler /\ fd' = fd
      /\ main' = main /\ cfd' = cfd /\ FixedAnswer' = FixedAnswer
  BY <1>0 DEF mainVars, handlerVars, FixedAnswer
<1>2. Closed(c)' = Closed(c)
  BY <1>1 DEF Closed
<1>3. \A n \in 1..Len(got'[c]) : Right(c, n)'
  BY <1>0, <1>1, <1>2 DEF EchoInv, Right
<1>4. FixedAnswer' => AllDone(outbox'[c]) /\ AllDone(buf'[c])
  BY <1>0, <1>1 DEF EchoInv
<1> DEFINE base == round[c] * Size(c)
           msg == [n \in 1..Size(c) |-> <<c, base + n>>]
<1>5. Size(c) \in Nat \ {0} /\ base \in Nat
  <2>1. Size(c) \in Nat \ {0}
    BY ServersAssumption DEF ServersAssumption, Size, Clients
  <2>2. \A m, n \in Nat : m * n \in Nat
    OBVIOUS
  <2> HIDE DEF Size
  <2>3. round[c] \in Nat /\ Size(c) \in Nat
    BY <1>0, <2>1
  <2>4. base \in Nat
    BY <2>2, <2>3, Zenon DEF base
  <2> QED
    BY <2>1, <2>4
<1>6. msg \in Seq(Octets) /\ Len(msg) = Size(c) /\ \A n \in 1..Size(c) : msg[n] = <<c, base + n>>
  <2> HIDE DEF base
  <2>1. \A n \in 1..Size(c) : <<c, base + n>> \in Octets
    BY <1>5, OctetTypes
  <2>2. msg \in [1..Size(c) -> Octets] /\ \A n \in 1..Size(c) : msg[n] = <<c, base + n>>
    BY <2>1
  <2>3. \A m \in Nat : msg \in [1..m -> Octets] => msg \in Seq(Octets) /\ Len(msg) = m
    <3> HIDE DEF msg
    <3> QED
      OBVIOUS
  <2> HIDE DEF msg
  <2> QED
    BY <1>5, <2>2, <2>3
<1>7. CASE inbox' = [inbox EXCEPT ![c] = inbox[c] \o msg] /\ (~Closed(c) \/ Tcp)
           /\ client' = [client EXCEPT ![c] = "recv"] /\ hung' = hung
  <2>1. /\ inbox[c] \o msg \in Seq(Octets) /\ Len(inbox[c] \o msg) = Len(inbox[c]) + Len(msg)
        /\ \A m \in Nat : Follows(inbox[c], c, m) /\ Follows(msg, c, m + Len(inbox[c]))
              => Follows(inbox[c] \o msg, c, m)
    BY <1>0, <1>6, FollowsConcat
  <2>2. /\ inbox'[c] = inbox[c] \o msg /\ inbox' \in [Clients -> Seq(Octets)]
        /\ client'[c] = "recv" /\ client' \in [Clients -> ClientLabels]
        /\ \A d \in Clients : d # c => inbox'[d] = inbox[d] /\ client'[d] = client[d]
    BY <1>0, <1>7, <2>1 DEF ClientLabels
  <2>3. ASSUME ~FixedAnswer PROVE InOrder(c)'
    <3>1. InOrder(c)
      BY <1>0, <1>7, <2>3 DEF EchoInv, Spoiled, Tcp
    <3> DEFINE g == Len(got[c])
               o == Len(outbox[c])
               b == Len(buf[c])
               i == Len(inbox[c])
    <3>2. {g, o, b, i} \subseteq Nat /\ g = round[c] /\ o + b + i = 0
          /\ (program # "ex23" => round[c] = 0)
      BY <1>0, <3>1, LenProperties DEF InOrder, StreamInv, DataInv
    <3>3. base = round[c]
      <4>1. CASE program = "ex23"
        BY <1>0, <4>1 DEF Size
      <4>2. CASE program # "ex23"
        BY <1>5, <3>2, <4>2
      <4> QED
        BY <4>1, <4>2
    <3>4. /\ Follows(outbox[c], c, g) /\ Follows(buf[c], c, g + o)
          /\ Follows(inbox[c], c, g + o + b)
      BY <3>1 DEF InOrder
    <3>5. program = "ex23" => Size(c) = 1
      BY DEF Size
    <3> HIDE DEF g, o, b, i, base
    <3>6. g + o + b = base /\ base + i = base /\ o = 0 /\ b = 0 /\ i = 0 /\ base \in Nat
      BY <1>5, <3>2, <3>3
    <3>7. Follows(msg, c, base)
      BY <1>6 DEF Follows
    <3>8. Follows(inbox[c] \o msg, c, base)
      <4>1. Follows(inbox[c], c, base) /\ Follows(msg, c, base + i)
        BY <3>4, <3>6, <3>7
      <4> QED
        BY <2>1, <3>6, <4>1 DEF i
    <3>9. Follows(inbox'[c], c, g + o + b)
      BY <2>2, <3>6, <3>8
    <3>10. Len(inbox'[c]) = i + Size(c)
      BY <1>6, <2>1, <2>2 DEF i
    <3>11. program = "ex23" => o + b + Len(inbox'[c]) = 1
      BY <3>5, <3>6, <3>10
    <3>12. /\ Follows(outbox'[c], c, Len(got'[c])) /\ Follows(buf'[c], c, Len(got'[c]) + Len(outbox'[c]))
           /\ Follows(inbox'[c], c, Len(got'[c]) + Len(outbox'[c]) + Len(buf'[c]))
           /\ program = "ex23" => Len(outbox'[c]) + Len(buf'[c]) + Len(inbox'[c]) = 1
           /\ Len(got'[c]) = round'[c]
      BY <1>0, <1>1, <3>2, <3>4, <3>9, <3>11 DEF g, o, b
    <3> QED
      BY <1>1, <2>2, <3>12 DEF InOrder
  <2>4. EchoInv(c)'
    BY <1>1, <1>3, <1>4, <2>3 DEF EchoInv
  <2> QED
    BY <1>0, <1>7, <2>2, <2>4, StreamClientFrame DEF StreamInv, DataInv, LifeInv
<1>8. CASE inbox' = inbox /\ client' = [client EXCEPT ![c] = "failed"]
           /\ hung' = [hung EXCEPT ![c] = TRUE]
  <2>1. /\ client'[c] = "failed" /\ client' \in [Clients -> ClientLabels]
        /\ hung'[c] /\ hung' \in [Clients -> BOOLEAN]
        /\ \A d \in Clients : d # c => hung'[d] = hung[d] /\ client'[d] = client[d]
    BY <1>0, <1>8 DEF ClientLabels
  <2>2. EchoInv(c)'
    BY <1>3, <1>4, <2>1 DEF EchoInv
  <2> QED
    BY <1>0, <1>8, <2>1, <2>2, StreamClientFrame DEF StreamInv, DataInv, LifeInv, Ended
<1> QED
  BY <1>7, <1>8 DEF Send, HangUp, ClientGoto

LEMMA StreamReceive ==
  ASSUME StreamInv, [Next]_vars, NEW c \in Clients, Receive(c)
  PROVE  StreamInv'
<1>0. /\ UNCHANGED <<program, mainVars, handlerVars, inbox>>
      /\ client[c] = "recv"
      /\ client \in [Clients -> ClientLabels] /\ hung \in [Clients -> BOOLEAN]
      /\ outbox \in [Clients -> Seq(Octets)] /\ outbox[c] \in Seq(Octets)
      /\ got \in [Clients -> Seq(Octets)] /\ got[c] \in Seq(Octets)
      /\ round \in [Clients -> Nat] /\ round[c] \in Nat
      /\ inbox \in [Clients -> Seq(Octets)]
      /\ LifeInv(c) /\ EchoInv(c) /\ ~hung[c] /\ ~Spoiled(c)
  BY DEF Receive, StreamInv, DataInv, LifeInv, Ended, Spoiled
<1>1. /\ program' = program /\ up' = up /\ buf' = buf /\ handler' = handler /\ fd' = fd
      /\ main' = main /\ cfd' = cfd /\ FixedAnswer' = FixedAnswer
  BY <1>0 DEF mainVars, handlerVars, FixedAnswer
<1>2. Closed(c)' = Closed(c)
  BY <1>1 DEF Closed
<1>3. ASSUME UNCHANGED <<got, outbox, round>>, HangUp(c, "end") \/ HangUp(c, "failed")
      PROVE  StreamInv'
  <2>1. /\ client'[c] \in {"end", "failed"} /\ client' \in [Clients -> ClientLabels]
        /\ hung'[c] /\ hung' \in [Clients -> BOOLEAN]
        /\ \A d \in Clients : d # c => hung'[d] = hung[d] /\ client'[d] = client[d]
    BY <1>0, <1>3 DEF HangUp, ClientGoto, ClientLabels
  <2>2. EchoInv(c)'
    BY <1>0, <1>1, <1>2, <1>3, <2>1 DEF EchoInv, Right
  <2> QED
    BY <1>0, <1>3, <2>1, <2>2, StreamClientFrame DEF LifeInv, Ended
\* After a message: the next one, or the end.
<1>4. ASSUME \/ HangUp(c, "end")
             \/ program = "ex23" /\ ClientGoto(c, "send") /\ UNCHANGED hung
      PROVE  /\ client' \in [Clients -> ClientLabels] /\ client'[c] \in {"end", "send"}
             /\ hung' \in [Clients -> BOOLEAN]
             /\ \A d \in Clients : d # c => hung'[d] = hung[d] /\ client'[d] = client[d]
             /\ hung'[c] => client'[c] = "end"
             /\ ~hung'[c] => client'[c] = "send" /\ program = "ex23"
  BY <1>0, <1>4 DEF HangUp, ClientGoto, ClientLabels
<1>5. (IF LastRound(c) THEN HangUp(c, "end") ELSE ClientGoto(c, "send") /\ UNCHANGED hung)
        => \/ HangUp(c, "end")
           \/ program = "ex23" /\ ClientGoto(c, "send") /\ UNCHANGED hung
  <2>1. program # "ex23" => LastRound(c)
    BY <1>0 DEF LastRound, Rounds
  <2> QED
    BY <2>1
<1>6. ASSUME round' = [round EXCEPT ![c] = round[c] + 1]
      PROVE  /\ round' \in [Clients -> Nat] /\ round'[c] = round[c] + 1
             /\ \A d \in Clients : d # c => round'[d] = round[d]
  BY <1>0, <1>6
<1>7. ASSUME NEW n \in 1..Len(outbox[c]), n <= Size(c),
             got' = [got EXCEPT ![c] = got[c] \o SubSeq(outbox[c], 1, n)],
             outbox' = [outbox EXCEPT ![c] = SubSeq(outbox[c], n + 1, Len(outbox[c]))],
             round' = [round EXCEPT ![c] = round[c] + 1],
             \/ HangUp(c, "end")
             \/ program = "ex23" /\ ClientGoto(c, "send") /\ UNCHANGED hung
      PROVE  StreamInv'
  <2> DEFINE part == SubSeq(outbox[c], 1, n)
             rest == SubSeq(outbox[c], n + 1, Len(outbox[c]))
  <2>0. n \in 0..Len(outbox[c]) /\ n \in Nat /\ Len(outbox[c]) \in Nat /\ outbox[c] # <<>>
    BY <1>0, OctetTypes, LenProperties
  <2>1. /\ part \in Seq(Octets) /\ Len(part) = n
        /\ rest \in Seq(Octets) /\ Len(rest) = Len(outbox[c]) - n
        /\ \A m \in Nat : Follows(outbox[c], c, m) => Follows(part, c, m)
        /\ AllDone(outbox[c]) => AllDone(part) /\ AllDone(rest)
    BY <1>0, <2>0, FollowsParts
  <2> HIDE DEF part, rest
  <2>2. /\ got[c] \o part \in Seq(Octets) /\ Len(got[c] \o part) = Len(got[c]) + Len(part)
        /\ \A i \in 1..(Len(got[c]) + Len(part)) :
             (got[c] \o part)[i] = IF i <= Len(got[c]) THEN got[c][i] ELSE part[i - Len(got[c])]
    BY <1>0, <2>1, ConcatProperties
  <2>3. got' = [got EXCEPT ![c] = got[c] \o part] /\ outbox' = [outbox EXCEPT ![c] = rest]
    BY <1>7 DEF part, rest
  <2>4. /\ got'[c] = got[c] \o part /\ got' \in [Clients -> Seq(Octets)]
        /\ outbox'[c] = rest /\ outbox' \in [Clients -> Seq(Octets)]
        /\ \A d \in Clients : d # c => got'[d] = got[d] /\ outbox'[d] = outbox[d]
    BY <1>0, <2>1, <2>2, <2>3
  <2> DEFINE g == Len(got[c])
             o == Len(outbox[c])
             b == Len(buf[c])
             i == Len(inbox[c])
  <2>5. g \in Nat /\ o \in Nat /\ b \in Nat /\ i \in Nat
    BY LenProperties DEF StreamInv, DataInv
  <2>6. ~FixedAnswer => InOrder(c)
    BY <1>0 DEF EchoInv
  <2>7. \A m \in 1..n : part[m] = IF FixedAnswer THEN Done ELSE <<c, g + m>>
    <3>1. CASE FixedAnswer
      BY <1>0, <2>1, <3>1 DEF EchoInv, AllDone
    <3>2. CASE ~FixedAnswer
      <4>1. Follows(outbox[c], c, g)
        BY <2>6, <3>2 DEF InOrder
      <4> HIDE DEF g
      <4>2. Follows(part, c, g)
        BY <2>1, <2>5, <4>1
      <4> QED
        BY <2>1, <3>2, <4>2 DEF Follows
    <3> QED
      BY <3>1, <3>2
  <2>8. \A m \in 1..Len(got'[c]) : Right(c, m)'
    <3> SUFFICES ASSUME NEW m \in 1..(g + n) PROVE Right(c, m)'
      BY <2>1, <2>2, <2>4
    <3>1. CASE m <= g
      <4>1. m \in 1..g
        <5> HIDE DEF g
        <5> QED
          BY <2>0, <2>5, <3>1
      <4>2. got'[c][m] = got[c][m]
        BY <2>1, <2>2, <2>4, <3>1
      <4>3. Right(c, m)
        BY <1>0, <4>1 DEF EchoInv
      <4> QED
        BY <1>1, <1>2, <4>2, <4>3 DEF Right
    <3>2. CASE ~(m <= g)
      <4>1. m - g \in 1..n /\ g + (m - g) = m
        <5> HIDE DEF g
        <5> QED
          BY <2>0, <2>5, <3>2
      <4>2. got'[c][m] = part[m - g]
        BY <2>1, <2>2, <2>4, <3>2
      <4>3. got'[c][m] = IF FixedAnswer THEN Done ELSE <<c, m>>
        <5> HIDE DEF g
        <5> QED
          BY <2>7, <4>1, <4>2
      <4> QED
        BY <1>1, <4>3 DEF Right
    <3> QED
      BY <3>1, <3>2
  <2>9. FixedAnswer' => AllDone(outbox'[c]) /\ AllDone(buf'[c])
    BY <1>0, <1>1, <2>1, <2>4 DEF EchoInv
  <2>10. /\ client' \in [Clients -> ClientLabels] /\ client'[c] \in {"end", "send"}
         /\ hung' \in [Clients -> BOOLEAN]
         /\ \A d \in Clients : d # c => hung'[d] = hung[d] /\ client'[d] = client[d]
         /\ hung'[c] => client'[c] = "end"
         /\ ~hung'[c] => client'[c] = "send" /\ program = "ex23"
    BY <1>4, <1>7
  <2>11. ASSUME ~FixedAnswer, ~hung'[c] PROVE InOrder(c)'
    <3>1. g = round[c] /\ o + b + i = 1 /\ Size(c) = 1
      BY <1>0, <2>6, <2>10, <2>11 DEF InOrder, Size
    <3>2. n = 1
      BY <1>7, <3>1
    <3>3. o = 1 /\ b = 0 /\ i = 0
      <4>1. o >= 1
        BY <2>0
      <4> HIDE DEF o, b, i
      <4> QED
        BY <2>5, <3>1, <4>1
    <3>4. Len(outbox'[c]) = 0 /\ Len(buf'[c]) = 0 /\ Len(inbox'[c]) = 0
      BY <1>0, <1>1, <2>1, <2>4, <3>2, <3>3
    <3>5. Len(got'[c]) = round'[c]
      BY <1>6, <1>7, <2>1, <2>2, <2>4, <3>1, <3>2
    <3> QED
      BY <1>1, <2>10, <2>11, <3>4, <3>5 DEF InOrder, Follows
  <2>12. EchoInv(c)'
    BY <1>1, <2>8, <2>9, <2>11 DEF EchoInv
  <2>13. fd[c] = 0 => outbox'[c] = <<>>
    BY <1>0, <2>0 DEF LifeInv
  <2> QED
    BY <1>0, <1>6, <1>7, <2>4, <2>10, <2>12, <2>13, StreamClientFrame DEF Ended
<1>8. ASSUME outbox[c] = <<>>, Closed(c), outbox' = outbox,
             got' = [got EXCEPT ![c] =
                       IF program = "ex23" THEN Append(got[c], Unset) ELSE got[c]],
             round' = [round EXCEPT ![c] = round[c] + 1],
             \/ HangUp(c, "end")
             \/ program = "ex23" /\ ClientGoto(c, "send") /\ UNCHANGED hung
      PROVE  StreamInv'
  <2>1. /\ Append(got[c], Unset) \in Seq(Octets)
        /\ Len(Append(got[c], Unset)) = Len(got[c]) + 1
        /\ Append(got[c], Unset)[Len(got[c]) + 1] = Unset
        /\ \A m \in 1..Len(got[c]) : Append(got[c], Unset)[m] = got[c][m]
        /\ Len(got[c]) \in Nat
    BY <1>0, OctetTypes, AppendProperties, LenProperties
  <2>2. /\ got' \in [Clients -> Seq(Octets)]
        /\ \A d \in Clients : d # c => got'[d] = got[d]
        /\ got'[c] = IF program = "ex23" THEN Append(got[c], Unset) ELSE got[c]
    BY <1>0, <1>8, <2>1
  <2>3. \A m \in 1..Len(got[c]) : Right(c, m)
    BY <1>0 DEF EchoInv
  <2>4. \A m \in 1..Len(got'[c]) : Right(c, m)'
    <3>1. CASE program # "ex23"
      BY <1>1, <1>2, <2>2, <2>3, <3>1 DEF Right
    <3>2. CASE program = "ex23"
      <4> SUFFICES ASSUME NEW m \in 1..(Len(got[c]) + 1) PROVE Right(c, m)'
        BY <2>1, <2>2, <3>2
      <4>1. CASE m \in 1..Len(got[c])
        BY <1>1, <1>2, <2>1, <2>2, <2>3, <3>2, <4>1 DEF Right
      <4>2. CASE m = Len(got[c]) + 1
        BY <1>1, <1>2, <1>8, <2>1, <2>2, <3>2, <4>2 DEF Right
      <4> QED
        BY <2>1, <4>1, <4>2
    <3> QED
      BY <3>1, <3>2
  <2>5. /\ client' \in [Clients -> ClientLabels] /\ client'[c] \in {"end", "send"}
        /\ hung' \in [Clients -> BOOLEAN]
        /\ \A d \in Clients : d # c => hung'[d] = hung[d] /\ client'[d] = client[d]
        /\ hung'[c] => client'[c] = "end"
        /\ ~hung'[c] => client'[c] = "send" /\ program = "ex23"
    BY <1>4, <1>8
  <2>6. ~hung'[c] => Spoiled(c)'
    BY <1>1, <1>2, <1>8, <2>5 DEF Spoiled
  <2>7. EchoInv(c)'
    BY <1>0, <1>1, <1>8, <2>4, <2>6 DEF EchoInv
  <2> QED
    BY <1>0, <1>6, <1>8, <2>2, <2>5, <2>7, StreamClientFrame DEF Ended
<1> QED
  BY <1>3, <1>5, <1>7, <1>8 DEF Receive

LEMMA StreamInterrupt ==
  ASSUME StreamInv, [Next]_vars, NEW c \in Clients, Interrupt(c)
  PROVE  StreamInv'
<1>0. /\ UNCHANGED <<program, mainVars, handlerVars, round, got, inbox, outbox>>
      /\ client[c] \in {"send", "recv", "silent"}
      /\ client' = [client EXCEPT ![c] = "killed"] /\ hung' = [hung EXCEPT ![c] = TRUE]
  BY DEF Interrupt, HangUp, ClientGoto
<1>1. /\ client'[c] = "killed" /\ client' \in [Clients -> ClientLabels]
      /\ hung'[c] /\ hung' \in [Clients -> BOOLEAN]
      /\ \A d \in Clients : d # c => hung'[d] = hung[d] /\ client'[d] = client[d]
  BY <1>0 DEF StreamInv, DataInv, ClientLabels
<1>2. EchoInv(c)'
  <2>1. EchoInv(c) /\ Closed(c)' = Closed(c) /\ FixedAnswer' = FixedAnswer /\ buf' = buf
    BY <1>0 DEF StreamInv, Closed, FixedAnswer, mainVars, handlerVars
  <2> QED
    BY <1>0, <1>1, <2>1 DEF EchoInv, Right
<1>3. LifeInv(c) /\ DataInv
  BY DEF StreamInv
<1> QED
  BY <1>0, <1>1, <1>2, <1>3, StreamClientFrame DEF DataInv, LifeInv, Ended

LEMMA NextStreamInv ==
  ASSUME StreamInv, [Next]_vars
  PROVE  StreamInv'
<1>1. CASE \E h \in Clients : Handler(h)
  BY <1>1, StreamHandler
<1>2. CASE \E c \in Clients : Client(c) \/ Interrupt(c)
  BY <1>2, StreamConnect, StreamSend, StreamReceive, StreamInterrupt DEF Client
<1>3. CASE Server \/ AcceptFails \/ Launch \/ WaitClient \/ Idle \/ UNCHANGED vars
  BY <1>3, StreamAccept, StreamMain DEF Server
<1> QED
  BY <1>1, <1>2, <1>3 DEF Next

\* Whatever serves it, with any number of clients and messages of any length,
\* a client displays answers to its own octets, in order, or what a variable
\* never set holds when the server's end was closed.
THEOREM EchoCorrect == Spec => []OwnEcho
<1>1. StreamInv => OwnEcho
  BY DEF StreamInv, EchoInv, Right, OwnEcho
<1> QED
  BY <1>1, InitStreamInv, NextStreamInv, PTL DEF Spec

-----------------------------------------------------------------------------
(* The ranges of the counters. There are never more children than clients,  *)
(* for each serves a connection of its own; and a client that goes on has a *)
(* round left, which is why the comparison with Rounds need not be exact.   *)

RangeInv ==
  /\ program \in Programs /\ silent \subseteq Unruly
  /\ main \in {"reap", "accept", "create", "parent", "serve"}
  /\ cfd \in Clients \union {0}
  /\ peak \in 0..NUM_CLIENTS
  /\ launcher \in {"fork", "wait", "end", "failed"}
  /\ waited \in 0..NUM_CLIENTS
  /\ \A c \in Clients : round[c] <= Rounds /\ (~Ended(c) => round[c] < Rounds)

LEMMA RoundsType == NUM_CLIENTS \in Nat /\ Rounds \in Nat /\ Rounds >= 1
  BY ServersAssumption DEF ServersAssumption, Rounds

LEMMA ClientsCount ==
  \A S \in SUBSET Clients : Cardinality(S) \in Nat /\ Cardinality(S) <= NUM_CLIENTS
<1>1. NUM_CLIENTS \in Nat /\ NUM_CLIENTS >= 1
  BY ServersAssumption DEF ServersAssumption
<1>2. Cardinality(1..NUM_CLIENTS) = NUM_CLIENTS
  <2>1. PICK n \in Nat : n = Cardinality(1..NUM_CLIENTS)
    BY ClientSets DEF Clients
  <2>2. 1 \in Int /\ NUM_CLIENTS \in Int
    BY <1>1
  <2>3. n = IF 1 > NUM_CLIENTS THEN 0 ELSE NUM_CLIENTS - 1 + 1
    BY <2>1, <2>2, FS_Interval, Zenon
  <2>4. n = NUM_CLIENTS
    BY <1>1, <2>3
  <2> QED
    BY <2>1, <2>4
<1>3. 1 \in Clients /\ Clients \in SUBSET Clients
  BY <1>1 DEF Clients
<1>4. \A S \in SUBSET Clients : Cardinality(S) <= Cardinality(Clients)
  BY <1>3, ClientCounts
<1> QED
  BY <1>2, <1>4, ClientSets, Zenon DEF Clients

LEMMA InitRangeInv == Init => RangeInv
<1> SUFFICES ASSUME Init PROVE RangeInv
  OBVIOUS
<1>1. Rounds \in Nat /\ Rounds >= 1 /\ 0 \in 0..NUM_CLIENTS
  BY RoundsType
<1>2. \A c \in Clients : round[c] = 0
  BY DEF Init
<1> QED
  BY <1>1, <1>2 DEF Init, RangeInv, LoopStart

LEMMA NextRangeInv ==
  ASSUME StreamInv, RangeInv, [Next]_vars
  PROVE  RangeInv'
<1>0. UNCHANGED <<program, silent>> /\ Rounds' = Rounds
  <2>1. UNCHANGED <<program, silent>>
    BY DEF Next, Server, Reap, Accept, Create, ParentClose, AcceptFails, Launch, WaitClient,
       Handler, Start, ReadRequest, WriteReply, Close, Client, Connect, Send, Receive,
       Interrupt, Idle, vars
  <2> QED
    BY <2>1 DEF Rounds
<1>1. /\ round \in [Clients -> Nat] /\ client \in [Clients -> ClientLabels]
      /\ NUM_CLIENTS \in Nat /\ Rounds \in Nat
  BY RoundsType DEF StreamInv, DataInv
<1>2. main' \in {"reap", "accept", "create", "parent", "serve"}
      /\ cfd' \in Clients \union {0} /\ peak' \in 0..NUM_CLIENTS
  <2>1. CASE UNCHANGED <<cfd, peak>> /\ main' \in {main, "reap", "accept"}
    BY <2>1 DEF RangeInv
  <2>2. CASE Accept
    <3>1. Head(queue) \in Clients
      BY <2>2, HeadTailProperties DEF Accept, StreamInv, AcceptInv
    <3> QED
      BY <2>2, <3>1 DEF Accept, RangeInv
  <2>3. CASE Create
    <3>1. cfd \in Clients /\ handler[cfd] = "none"
      BY <2>3 DEF Create, StreamInv, AcceptInv, MainInv
    <3>2. Children \in SUBSET Clients /\ Children \union {cfd} \in SUBSET Clients
      BY <3>1 DEF Children
    <3>3. cfd \notin Children /\ IsFiniteSet(Children)
      BY <3>1, <3>2, ClientSets DEF Children, Serving
    <3>4. Cardinality(Children \union {cfd}) = Cardinality(Children) + 1
      BY <3>3, FS_AddElement, Zenon
    <3>5. Cardinality(Children) + 1 \in 0..NUM_CLIENTS
      <4>1. /\ Cardinality(Children) \in Nat
            /\ Cardinality(Children \union {cfd}) <= NUM_CLIENTS
        BY <3>2, ClientsCount
      <4> QED
        BY <1>1, <3>4, <4>1
    <3>6. peak' \in {peak, Cardinality(Children) + 1} /\ cfd' = cfd
      BY <2>3 DEF Create
    <3>7. main' \in {"parent", "accept", "reap"}
      BY <2>3 DEF Create, LoopStart
    <3> QED
      BY <3>5, <3>6, <3>7 DEF RangeInv
  <2>4. CASE Reap \/ ParentClose \/ AcceptFails
    BY <2>1, <2>4 DEF Reap, ParentClose, AcceptFails
  <2>5. ASSUME NEW h \in Clients, Handler(h)
        PROVE  UNCHANGED <<cfd, peak>> /\ main' \in {main, "reap", "accept"}
    BY <2>5 DEF Handler, Start, ReadRequest, ReadOctets, AnswerInvalid, EndOfInput, ReadFails,
       Fail, WriteReply, Close, mainVars
  <2>6. ASSUME NEW c \in Clients, Client(c) \/ Interrupt(c)
        PROVE  UNCHANGED <<cfd, peak>> /\ main' \in {main, "reap", "accept"}
    BY <2>6 DEF Client, Connect, Send, Receive, Interrupt, mainVars
  <2>7. CASE Launch \/ WaitClient \/ Idle \/ UNCHANGED vars
    BY <2>1, <2>7 DEF Launch, WaitClient, Idle, vars, mainVars
  <2> QED
    BY <2>1, <2>2, <2>3, <2>4, <2>5, <2>6, <2>7 DEF Next, Server
<1>3. launcher' \in {"fork", "wait", "end", "failed"} /\ waited' \in 0..NUM_CLIENTS
  <2>1. CASE UNCHANGED <<launcher, waited>>
    BY <2>1 DEF RangeInv
  <2>2. CASE Launch
    BY <2>2 DEF Launch, RangeInv
  <2>3. CASE WaitClient
    <3>1. {c \in Clients : Ended(c)} \in SUBSET Clients
      OBVIOUS
    <3>2. PICK n \in Nat : n = Cardinality({c \in Clients : Ended(c)}) /\ n <= NUM_CLIENTS
      BY <3>1, ClientsCount
    <3>3. waited < n /\ waited' = waited + 1 /\ waited \in 0..NUM_CLIENTS
      BY <2>3, <3>2 DEF WaitClient, RangeInv
    <3>4. waited' \in 0..NUM_CLIENTS
      BY <1>1, <3>2, <3>3
    <3> QED
      BY <2>3, <3>4 DEF WaitClient
  <2>4. CASE Server \/ AcceptFails \/ (\E h \in Clients : Handler(h))
    BY <2>1, <2>4 DEF Server, Reap, Accept, Create, ParentClose, AcceptFails, Handler, Start,
       ReadRequest, WriteReply, Close, clientVars, launcherVars
  <2>5. CASE (\E c \in Clients : Client(c) \/ Interrupt(c)) \/ Idle \/ UNCHANGED vars
    BY <2>1, <2>5 DEF Client, Connect, Send, Receive, Interrupt, Idle, vars, clientVars,
       launcherVars
  <2> QED
    BY <2>2, <2>3, <2>4, <2>5 DEF Next
<1>4. ASSUME NEW c \in Clients
      PROVE  round'[c] <= Rounds /\ (~Ended(c)' => round'[c] < Rounds)
  <2>0. round[c] \in Nat /\ round[c] <= Rounds /\ (~Ended(c) => round[c] < Rounds)
    BY <1>1 DEF RangeInv
  <2>1. CASE round'[c] = round[c] /\ (Ended(c) => Ended(c)')
    BY <2>0, <2>1
  <2>2. CASE round' = round /\ client' = client
    BY <2>1, <2>2 DEF Ended
  <2>3. CASE Launch
    <3>1. /\ round' = round
          /\ \/ client' = client
             \/ \E d \in Clients : client[d] = "none" /\ ClientGoto(d, "connect")
      BY <2>3 DEF Launch
    <3> QED
      BY <1>1, <2>1, <3>1 DEF ClientGoto, Ended
  <2>4. ASSUME NEW d \in Clients, Connect(d) \/ Send(d) \/ Interrupt(d)
        PROVE  round'[c] = round[c] /\ (Ended(c) => Ended(c)')
    BY <1>1, <2>4 DEF Connect, Send, Interrupt, HangUp, ClientGoto, Ended
  <2>5. ASSUME NEW d \in Clients, Receive(d)
        PROVE  round'[c] <= Rounds /\ (~Ended(c)' => round'[c] < Rounds)
    <3>1. client[d] = "recv"
      BY <2>5 DEF Receive
    <3>2. CASE c # d
      <4>1. round'[c] = round[c] /\ client'[c] = client[c]
        BY <1>1, <2>5, <3>2 DEF Receive, HangUp, ClientGoto
      <4> QED
        BY <2>1, <4>1 DEF Ended
    <3>3. CASE c = d /\ round' = [round EXCEPT ![c] = round[c] + 1]
      <4>1. round[c] < Rounds /\ round'[c] = round[c] + 1
        BY <1>1, <2>0, <3>1, <3>3 DEF Ended
      <4>2. CASE round[c] + 1 >= Rounds
        <5>1. Ended(c)'
          <6>1. client' = [client EXCEPT ![c] = "end"]
                  \/ (client' = [client EXCEPT ![c] = "failed"] /\ UNCHANGED round)
                  \/ (client' = [client EXCEPT ![c] = "end"] /\ UNCHANGED round)
            BY <2>5, <3>3, <4>2 DEF Receive, HangUp, ClientGoto, LastRound
          <6> QED
            BY <1>1, <6>1 DEF Ended
        <5> QED
          BY <1>1, <2>0, <4>1, <5>1
      <4>3. CASE ~(round[c] + 1 >= Rounds)
        BY <1>1, <2>0, <4>1, <4>3
      <4> QED
        BY <4>2, <4>3
    <3>4. CASE c = d /\ round' = round
      <4>1. client' = [client EXCEPT ![c] = "end"] \/ client' = [client EXCEPT ![c] = "failed"]
        <5>1. round' # [round EXCEPT ![c] = round[c] + 1]
          BY <1>1, <2>0, <3>4
        <5> QED
          BY <2>5, <3>4, <5>1 DEF Receive, HangUp, ClientGoto
      <4>2. Ended(c)'
        BY <1>1, <4>1 DEF Ended
      <4> QED
        BY <2>0, <3>4, <4>2
    <3> QED
      BY <2>5, <3>2, <3>3, <3>4 DEF Receive
  <2>6. CASE Server \/ AcceptFails \/ WaitClient \/ (\E h \in Clients : Handler(h))
    BY <2>2, <2>6 DEF Server, Reap, Accept, Create, ParentClose, AcceptFails, WaitClient,
       Handler, Start, ReadRequest, WriteReply, Close, clientVars
  <2>7. CASE Idle \/ UNCHANGED vars
    BY <2>2, <2>7 DEF Idle, vars, clientVars
  <2> QED
    BY <2>1, <2>3, <2>4, <2>5, <2>6, <2>7 DEF Next, Client
<1> QED
  BY <1>0, <1>2, <1>3, <1>4 DEF RangeInv

\* Type correctness. The counters stay in their ranges: the children that run
\* at once, the clients waited for and the rounds of each.
THEOREM TypeCorrect == Spec => []TypeOK
<1>1. StreamInv /\ RangeInv => TypeOK
  <2> SUFFICES ASSUME StreamInv, RangeInv PROVE TypeOK
    OBVIOUS
  <2>1. round \in [Clients -> 0..Rounds]
    <3>1. Rounds \in Nat /\ round \in [Clients -> Nat]
      BY RoundsType DEF StreamInv, DataInv
    <3>2. \A c \in Clients : round[c] \in 0..Rounds
      BY <3>1 DEF RangeInv
    <3> QED
      BY <3>1, <3>2
  <2> QED
    BY <2>1 DEF StreamInv, DataInv, AcceptInv, RangeInv, TypeOK, HandlerLabels, ClientLabels
<1> QED
  BY <1>1, InitStreamInv, NextStreamInv, InitRangeInv, NextRangeInv, PTL DEF Spec
=============================================================================
