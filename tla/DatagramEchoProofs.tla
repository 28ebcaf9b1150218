------------------------- MODULE DatagramEchoProofs -------------------------
(***************************************************************************)
(* What holds of DatagramEcho for any number of clients, any arguments,    *)
(* any size of the buffers, and however many datagrams are lost and        *)
(* duplicated.                                                             *)
(***************************************************************************)
EXTENDS DatagramEcho, SequenceTheorems, TLAPS

-----------------------------------------------------------------------------
(* The inductive invariant, in named parts.                                *)

\* A datagram carries a message of the client whose address it has, one the
\* client has come to, and no more of it than was sent; the address is that
\* of the nc that sent it.
Good(d) ==
  LET c == d.data[1] IN
    /\ d \in Datagram
    /\ d.addr[1] = c
    /\ d.data[2] <= at[c]
    /\ d.size <= Messages(c)[d.data[2]]
    /\ program[c] = "netcat" => d.addr[2] = d.data[2]

\* What ex26's server has received has room for the final '\0'.
Short(d) == server = "ex26" => d.size < BUF_SIZE

NetInv == \A d \in DOMAIN net : Good(d) /\ (d.to = "client" => Short(d))
HeldInv == main = "send" \/ held # NoDatagram => Good(held) /\ Short(held)

\* Of a client of ex31 none of whose datagrams was duplicated there is at
\* most one message or echo, that of the argument it waits for.
Holds(c) == main = "send" /\ held.addr[1] = c
Mine(d, c) == d \in DOMAIN net /\ d.addr[1] = c
CopyInv(c) ==
  program[c] = "ex31" /\ dups[c] = 0 =>
    /\ client[c] = "send" => ~Holds(c) /\ \A d \in DOMAIN net : ~Mine(d, c)
    /\ client[c] = "recv" =>
         /\ Holds(c) => held.data[2] = at[c] /\ \A d \in DOMAIN net : ~Mine(d, c)
         /\ \A d \in DOMAIN net : Mine(d, c) =>
              /\ net[d] = 1 /\ d.data[2] = at[c]
              /\ \A e \in DOMAIN net : Mine(e, c) => e = d

EchoInv ==
  /\ TypeOK
  /\ NetInv
  /\ HeldInv
  /\ \A c \in Clients : CopyInv(c)
  /\ InStep
  /\ TerminatorInside

-----------------------------------------------------------------------------
(* Bags, messages and buffers.                                             *)

\* Bag A holds nothing that bag B does not hold.
Fewer(A, B) ==
  /\ DOMAIN A \subseteq DOMAIN B
  /\ \A d \in DOMAIN A : A[d] \in Nat \ {0} /\ A[d] <= B[d]

IsNet(B) == \A d \in DOMAIN B : B[d] \in Nat \ {0}

LEMMA RemoveFacts ==
  ASSUME NEW B, NEW x \in DOMAIN B, IsNet(B)
  PROVE  /\ Fewer(BagRemove(B, x), B)
         /\ B[x] = 1 => x \notin DOMAIN BagRemove(B, x)
<1>1. CASE B[x] = 1
  <2>1. BagRemove(B, x) = [e \in DOMAIN B \ {x} |-> B[e]]
    BY <1>1 DEF BagRemove
  <2> QED
    BY <2>1 DEF Fewer, IsNet
<1>2. CASE B[x] # 1
  <2>1. BagRemove(B, x) = [e \in DOMAIN B |-> IF e = x THEN B[e] - 1 ELSE B[e]]
    BY <1>2 DEF BagRemove
  <2>2. B[x] \in Nat \ {0} /\ B[x] - 1 \in Nat \ {0} /\ B[x] - 1 <= B[x]
    BY <1>2 DEF IsNet
  <2> QED
    BY <1>2, <2>1, <2>2 DEF Fewer, IsNet
<1> QED
  BY <1>1, <1>2

LEMMA AddFacts ==
  ASSUME NEW B, NEW x, IsNet(B)
  PROVE  /\ DOMAIN BagAdd(B, x) = DOMAIN B \union {x}
         /\ IsNet(BagAdd(B, x))
         /\ \A d \in DOMAIN B : d # x => BagAdd(B, x)[d] = B[d]
         /\ x \notin DOMAIN B => BagAdd(B, x)[x] = 1
<1>1. CASE x \in DOMAIN B
  <2>1. BagAdd(B, x) = [e \in DOMAIN B |-> IF e = x THEN B[e] + 1 ELSE B[e]]
    BY <1>1 DEF BagAdd
  <2> QED
    BY <1>1, <2>1 DEF IsNet
<1>2. CASE x \notin DOMAIN B
  <2>1. BagAdd(B, x) = [e \in DOMAIN B \union {x} |-> IF e = x THEN 1 ELSE B[e]]
    BY <1>2 DEF BagAdd
  <2> QED
    BY <1>2, <2>1 DEF IsNet
<1> QED
  BY <1>1, <1>2

LEMMA WithoutFacts ==
  ASSUME NEW S, IsNet(net)
  PROVE  Fewer(Without(S), net) /\ DOMAIN Without(S) = DOMAIN net \ S
BY DEF Without, Fewer, IsNet

LEMMA MessageFacts ==
  ASSUME program \in [Clients -> {"ex26", "ex31", "netcat"}], NEW c \in Clients
  PROVE  /\ Messages(c) \in Seq(Nat) /\ Len(Messages(c)) \in Nat \ {0}
         /\ \A n \in 1..Len(Messages(c)) : Messages(c)[n] \in Nat
         /\ program[c] = "ex26" => Len(Messages(c)) = 1
         /\ program[c] = "netcat" => \A n \in 1..Len(Messages(c)) : Messages(c)[n] = 1
<1>1. CASE program[c] = "ex26"
  BY <1>1 DEF Messages
<1>2. CASE program[c] = "netcat"
  BY <1>2 DEF Messages
<1>3. CASE program[c] = "ex31"
  <2>1. Messages(c) = Args[c] /\ Args[c] \in Seq(Nat) /\ Args[c] # <<>>
    BY <1>3, EchoAssumption DEF EchoAssumption, Messages
  <2> QED
    BY <1>3, <2>1, LenProperties, EmptySeq, ElementOfSeq
<1> QED
  BY <1>1, <1>2, <1>3

LEMMA KeptFacts ==
  ASSUME NEW n \in Nat, NEW p
  PROVE  /\ Kept(n, p) \in Nat /\ Kept(n, p) <= n
         /\ p = "ex26" => Kept(n, p) < BUF_SIZE
BY EchoAssumption DEF EchoAssumption, Kept, Capacity

LEMMA CountedTypes ==
  ASSUME lost \in [Clients -> Nat], NEW c, CountLost(c)
  PROVE  lost' \in [Clients -> Nat]
<1>1. lost' = [lost EXCEPT ![c] = lost[c] + 1]
  BY DEF CountLost
<1>2. CASE c \in Clients
  BY <1>1, <1>2
<1>3. CASE c \notin Clients
  BY <1>1, <1>3
<1> QED
  BY <1>2, <1>3

LEMMA InitEchoInv == Init => EchoInv
<1> SUFFICES ASSUME Init PROVE EchoInv
  OBVIOUS
<1>1. DOMAIN net = {} /\ \A c \in Clients : shown[c] = <<>> /\ Len(shown[c]) = 0
  BY DEF Init, EmptyBag, SetToBag
<1>2. \A c \in Clients : 1 <= Len(Messages(c))
  BY MessageFacts DEF Init
<1>3. TypeOK
  BY <1>1, <1>2, EchoAssumption DEF EchoAssumption, Init, TypeOK
<1> QED
  BY <1>1, <1>3 DEF Init, EchoInv, NetInv, HeldInv, CopyInv, Holds, InStep, TerminatorInside

-----------------------------------------------------------------------------
(* Steps and the network.                                                  *)

\* A message is never longer than it was sent, and a client never goes back.
Onward ==
  /\ UNCHANGED programVars
  /\ \A c \in Clients : at'[c] \in Nat \ {0} /\ at[c] <= at'[c] /\ at'[c] <= Len(Messages(c))

LEMMA NextOnward ==
  ASSUME TypeOK, Next
  PROVE  Onward /\ at' \in [Clients -> Nat \ {0}]
<1>1. /\ at \in [Clients -> Nat \ {0}] /\ \A c \in Clients : at[c] <= Len(Messages(c))
      /\ \A c \in Clients : Len(Messages(c)) \in Nat
  BY MessageFacts DEF TypeOK
<1>2. ASSUME UNCHANGED <<programVars, at>>
      PROVE  Onward /\ at' \in [Clients -> Nat \ {0}]
  BY <1>1, <1>2 DEF Onward, programVars
<1>3. ASSUME NEW c \in Clients, UNCHANGED programVars, NextMessage(c)
      PROVE  Onward /\ at' \in [Clients -> Nat \ {0}]
  <2>1. CASE UNCHANGED at
    BY <1>2, <1>3, <2>1
  <2>2. CASE at[c] < Len(Messages(c)) /\ at' = [at EXCEPT ![c] = @ + 1]
    BY <1>1, <1>3, <2>2 DEF Onward
  <2> QED
    BY <1>3, <2>1, <2>2 DEF NextMessage
<1>4. CASE Server
  BY <1>2, <1>4 DEF Server, Bind, ServerRecv, ServerRecvFails, ServerSend, ServerSendFails, Exit,
     clientVars
<1>5. ASSUME NEW c \in Clients, Client(c)
      PROVE  Onward /\ at' \in [Clients -> Nat \ {0}]
  <2>1. CASE ClientSend(c)
    BY <1>2, <2>1 DEF ClientSend
  <2>2. CASE ClientRecv(c)
    <3>1. UNCHANGED programVars /\ (UNCHANGED at \/ NextMessage(c))
      BY <2>2 DEF ClientRecv
    <3> QED
      BY <1>2, <1>3, <3>1
  <2>3. CASE ClientRecvFails(c)
    BY <1>2, <2>3 DEF ClientRecvFails
  <2>4. CASE Timeout(c)
    BY <1>3, <2>4 DEF Timeout
  <2> QED
    BY <1>5, <2>1, <2>2, <2>3, <2>4 DEF Client
<1>6. ASSUME NEW d \in DOMAIN net, Lose(d) \/ Duplicate(d)
      PROVE  Onward /\ at' \in [Clients -> Nat \ {0}]
  BY <1>2, <1>6 DEF Lose, Duplicate, clientVars
<1> QED
  BY <1>4, <1>5, <1>6 DEF Next

LEMMA GoodStays ==
  ASSUME Onward, TypeOK, NEW d, Good(d)
  PROVE  Good(d)'
<1>1. d \in Datagram /\ d.data[1] \in Clients /\ d.data[2] \in Nat \ {0}
  BY DEF Good, Datagram, Addresses
<1>2. Messages(d.data[1])' = Messages(d.data[1]) /\ program' = program
  BY DEF Onward, programVars, Messages
<1>3. /\ at[d.data[1]] \in Nat /\ at'[d.data[1]] \in Nat
      /\ at[d.data[1]] <= at'[d.data[1]]
  BY <1>1 DEF Onward, TypeOK
<1> QED
  BY <1>1, <1>2, <1>3 DEF Good

\* What the server answers with, and what a client sends.
LEMMA AnswerGood ==
  ASSUME HeldInv, TypeOK, main = "send"
  PROVE  /\ Good([held EXCEPT !.to = "client"]) /\ Short([held EXCEPT !.to = "client"])
         /\ [held EXCEPT !.to = "client"].addr[1] = held.addr[1]
         /\ [held EXCEPT !.to = "client"].data = held.data
<1>1. Good(held) /\ Short(held) /\ held \in Datagram
  BY DEF HeldInv, Good
<1> DEFINE x == [held EXCEPT !.to = "client"]
<1>2. x \in Datagram /\ x.addr = held.addr /\ x.data = held.data /\ x.size = held.size
  BY <1>1 DEF Datagram
<1> HIDE DEF x
<1>3. Good(x) /\ Short(x) /\ x.addr[1] = held.addr[1] /\ x.data = held.data
  BY <1>1, <1>2 DEF Good, Short
<1> QED
  BY <1>3 DEF x

Request(c) == [to |-> "server", addr |-> Address(c), data |-> <<c, at[c]>>,
               size |-> Messages(c)[at[c]]]

LEMMA RequestGood ==
  ASSUME TypeOK, NEW c \in Clients
  PROVE  /\ Good(Request(c)) /\ Request(c).to = "server"
         /\ Request(c).addr[1] = c /\ Request(c).data[2] = at[c]
<1>1. /\ at[c] \in Nat \ {0} /\ at[c] <= Len(Messages(c)) /\ Len(Messages(c)) \in Nat
      /\ Messages(c)[at[c]] \in Nat
  BY MessageFacts DEF TypeOK
<1>2. /\ Address(c) \in Addresses /\ <<c, at[c]>> \in Addresses /\ Address(c)[1] = c
      /\ program[c] = "netcat" => Address(c)[2] = at[c]
  BY <1>1 DEF Address, Addresses
<1>3. /\ Request(c) \in Datagram /\ Request(c).to = "server" /\ Request(c).addr = Address(c)
      /\ Request(c).data = <<c, at[c]>> /\ Request(c).size = Messages(c)[at[c]]
  BY <1>1, <1>2 DEF Request, Datagram
<1> QED
  BY <1>1, <1>2, <1>3 DEF Good

\* What one step does to the network.
NetStep ==
  \/ net' = net
  \/ Fewer(net', net)
  \/ \E x : Good(x) /\ (x.to = "client" => Short(x)) /\ net' = BagAdd(net, x)

LEMMA CloseFewer ==
  ASSUME TypeOK, NEW c \in Clients, CloseSocket(c)
  PROVE  Fewer(net', net)
BY WithoutFacts DEF CloseSocket, TypeOK, IsNet

LEMMA ExitFewer ==
  ASSUME TypeOK, Exit
  PROVE  Fewer(net', net)
BY WithoutFacts DEF Exit, TypeOK, IsNet

LEMMA RemoveFewer ==
  ASSUME TypeOK, NEW d \in DOMAIN net, net' = BagRemove(net, d)
  PROVE  Fewer(net', net)
BY RemoveFacts DEF TypeOK, IsNet

LEMMA RecvFewer ==
  ASSUME TypeOK, NEW c \in Clients, ClientRecv(c)
  PROVE  Fewer(net', net)
<1>1. PICK d \in Inbox(c) : net' = BagRemove(net, d) \/ net' = Without(Inbox(c))
  BY DEF ClientRecv
<1>2. d \in DOMAIN net /\ IsNet(net)
  BY DEF Inbox, TypeOK, IsNet
<1>3. CASE net' = BagRemove(net, d)
  BY <1>2, <1>3, RemoveFewer
<1>4. CASE net' = Without(Inbox(c))
  BY <1>2, <1>4, WithoutFacts
<1> QED
  BY <1>1, <1>3, <1>4

LEMMA NextNetStep == EchoInv /\ Next => NetStep
<1> SUFFICES ASSUME EchoInv, Next PROVE NetStep
  OBVIOUS
<1>1. TypeOK /\ NetInv /\ HeldInv
  BY DEF EchoInv
<1>2. CASE Server
  <2>1. CASE Bind
    BY <2>1 DEF Bind, NetStep
  <2>2. CASE ServerRecv
    BY <1>1, <2>2, RemoveFewer DEF ServerRecv, NetStep
  <2>3. CASE ServerRecvFails
    BY <1>1, <2>3, ExitFewer DEF ServerRecvFails, NetStep
  <2>4. CASE ServerSend
    <3>1. net' = net \/ net' = BagAdd(net, [held EXCEPT !.to = "client"])
      BY <2>4 DEF ServerSend
    <3>2. Good([held EXCEPT !.to = "client"]) /\ Short([held EXCEPT !.to = "client"])
      BY <1>1, <2>4, AnswerGood DEF ServerSend
    <3> QED
      BY <3>1, <3>2 DEF NetStep
  <2>5. CASE ServerSendFails
    BY <1>1, <2>5, ExitFewer DEF ServerSendFails, NetStep
  <2> QED
    BY <1>2, <2>1, <2>2, <2>3, <2>4, <2>5 DEF Server
<1>3. ASSUME NEW c \in Clients, Client(c)
      PROVE  NetStep
  <2>1. CASE ClientSend(c)
    <3>1. \/ net' = net \/ CloseSocket(c) \/ net' = BagAdd(net, Request(c))
      BY <2>1 DEF ClientSend, Request
    <3>2. Good(Request(c)) /\ Request(c).to # "client"
      BY <1>1, RequestGood
    <3> QED
      BY <1>1, <3>1, <3>2, CloseFewer DEF NetStep
  <2>2. CASE ClientRecv(c)
    BY <1>1, <2>2, RecvFewer DEF NetStep
  <2>3. CASE ClientRecvFails(c) \/ Timeout(c)
    BY <1>1, <2>3, CloseFewer DEF ClientRecvFails, Timeout, NetStep
  <2> QED
    BY <1>3, <2>1, <2>2, <2>3 DEF Client
<1>4. ASSUME NEW d \in DOMAIN net, Lose(d)
      PROVE  NetStep
  BY <1>1, <1>4, RemoveFewer DEF Lose, NetStep
<1>5. ASSUME NEW d \in DOMAIN net, Duplicate(d)
      PROVE  NetStep
  BY <1>1, <1>5 DEF Duplicate, NetInv, NetStep
<1> QED
  BY <1>2, <1>3, <1>4, <1>5 DEF Next

LEMMA NextNetInv == EchoInv /\ Next => NetInv' /\ DOMAIN net' \subseteq Datagram /\ IsNet(net')
<1> SUFFICES ASSUME EchoInv, Next
             PROVE  NetInv' /\ DOMAIN net' \subseteq Datagram /\ IsNet(net')
  OBVIOUS
<1>1. TypeOK /\ NetInv /\ IsNet(net) /\ Onward /\ NetStep
  BY NextOnward, NextNetStep DEF EchoInv, TypeOK, IsNet
<1>2. ASSUME NEW d, Good(d), d.to = "client" => Short(d)
      PROVE  Good(d)' /\ (d.to = "client" => Short(d)') /\ d \in Datagram
  BY <1>1, <1>2, GoodStays DEF Onward, programVars, Short, Good
<1>3. CASE net' = net
  BY <1>1, <1>2, <1>3 DEF NetInv
<1>4. CASE Fewer(net', net)
  BY <1>1, <1>2, <1>4 DEF NetInv, Fewer, IsNet
<1>5. ASSUME NEW x, Good(x), x.to = "client" => Short(x), net' = BagAdd(net, x)
      PROVE  NetInv' /\ DOMAIN net' \subseteq Datagram /\ IsNet(net')
  <2>1. DOMAIN net' = DOMAIN net \union {x} /\ IsNet(net')
    BY <1>1, <1>5, AddFacts
  <2>2. \A d \in DOMAIN net' : Good(d) /\ (d.to = "client" => Short(d))
    BY <1>1, <1>5, <2>1 DEF NetInv
  <2> QED
    BY <1>2, <2>1, <2>2 DEF NetInv
<1> QED
  BY <1>1, <1>3, <1>4, <1>5 DEF NetStep

\* What ex26 and ex29 keep of a datagram.
LEMMA CutGood ==
  ASSUME TypeOK, NEW d, Good(d), NEW n \in Nat, n <= d.size, server = "ex26" => n < BUF_SIZE
  PROVE  \E x : /\ x = [d EXCEPT !.size = n] /\ Good(x) /\ Short(x)
                /\ x.addr = d.addr /\ x.data = d.data /\ x \in Datagram
<1> DEFINE x == [d EXCEPT !.size = n]
<1>1. d \in Datagram
  BY DEF Good
<1>2. x \in Datagram /\ x.addr = d.addr /\ x.data = d.data /\ x.size = n
  BY <1>1 DEF Datagram
<1> HIDE DEF x
<1>3. /\ d.data[1] \in Clients /\ d.data[2] \in Nat \ {0} /\ d.size \in Nat
      /\ at[d.data[1]] \in Nat /\ at[d.data[1]] <= Len(Messages(d.data[1]))
      /\ d.data[2] <= at[d.data[1]] /\ Len(Messages(d.data[1])) \in Nat
  BY <1>1, MessageFacts DEF Good, Datagram, Addresses, TypeOK
<1>4. d.size <= Messages(d.data[1])[d.data[2]] /\ Messages(d.data[1])[d.data[2]] \in Nat
  <2>1. d.size <= Messages(d.data[1])[d.data[2]]
    BY DEF Good
  <2>2. d.data[2] \in 1..Len(Messages(d.data[1]))
    BY <1>3
  <2>3. program \in [Clients -> {"ex26", "ex31", "netcat"}]
    BY DEF TypeOK
  <2> QED
    BY <1>3, <2>1, <2>2, <2>3, MessageFacts
<1>5. x.size <= Messages(x.data[1])[x.data[2]]
  BY <1>2, <1>3, <1>4
<1>6. Good(x) /\ Short(x)
  BY <1>1, <1>2, <1>5 DEF Good, Short
<1> QED
  BY <1>2, <1>6 DEF x

LEMMA RecvFacts ==
  ASSUME EchoInv, ServerRecv
  PROVE  \E d \in DOMAIN net, x \in Datagram :
           /\ d.to = "server" /\ net' = BagRemove(net, d)
           /\ held' = x /\ Good(x) /\ Short(x)
           /\ x.addr = d.addr /\ x.data = d.data
<1>1. PICK d \in DOMAIN net : /\ d.to = "server" /\ net' = BagRemove(net, d)
                              /\ held' = [d EXCEPT !.size = Kept(d.size, server)]
  BY DEF ServerRecv
<1>2. Good(d) /\ d.size \in Nat
  BY <1>1 DEF EchoInv, NetInv, Good, Datagram
<1>3. PICK n \in Nat : n = Kept(d.size, server) /\ n <= d.size /\ (server = "ex26" => n < BUF_SIZE)
  BY <1>2, KeptFacts
<1>4. PICK x : /\ x = [d EXCEPT !.size = n] /\ Good(x) /\ Short(x)
               /\ x.addr = d.addr /\ x.data = d.data /\ x \in Datagram
  BY <1>2, <1>3, CutGood DEF EchoInv
<1> QED
  BY <1>1, <1>3, <1>4

LEMMA NextHeldInv == EchoInv /\ Next => HeldInv'
<1> SUFFICES ASSUME EchoInv, Next PROVE HeldInv'
  OBVIOUS
<1>1. TypeOK /\ HeldInv /\ Onward /\ server' = server
  BY NextOnward DEF EchoInv, Onward, programVars
<1>2. ASSUME NEW x, held' = x, Good(x), Short(x)
      PROVE  HeldInv'
  <2>1. Good(x)' /\ Short(x)'
    BY <1>1, <1>2, GoodStays DEF Short
  <2> QED
    BY <1>2, <2>1 DEF HeldInv, Good, Short
<1>3. ASSUME held' = held, main' = "send" => main = "send"
      PROVE  HeldInv'
  <2>1. PICK x : x = held
    OBVIOUS
  <2>2. CASE Good(held) /\ Short(held)
    <3>1. Good(x) /\ Short(x)
      BY <2>1, <2>2
    <3> QED
      BY <1>2, <1>3, <2>1, <3>1
  <2>3. CASE ~(Good(held) /\ Short(held))
    <3>1. main # "send" /\ held = NoDatagram
      BY <1>1, <2>3 DEF HeldInv
    <3> QED
      BY <1>3, <3>1 DEF HeldInv
  <2> QED
    BY <2>2, <2>3
<1>4. CASE ServerRecv
  BY <1>2, <1>4, RecvFacts
<1>5. CASE Bind \/ ServerRecvFails \/ ServerSend \/ ServerSendFails
  BY <1>3, <1>5 DEF Bind, ServerRecvFails, ServerSend, ServerSendFails, Exit
<1>6. ASSUME NEW c \in Clients, Client(c)
      PROVE  HeldInv'
  BY <1>3, <1>6 DEF Client, ClientSend, ClientRecv, ClientRecvFails, Timeout
<1>7. ASSUME NEW d \in DOMAIN net, Lose(d) \/ Duplicate(d)
      PROVE  HeldInv'
  BY <1>3, <1>7 DEF Lose, Duplicate
<1> QED
  BY <1>4, <1>5, <1>6, <1>7 DEF Next, Server

-----------------------------------------------------------------------------
(* Steps and types.                                                        *)

\* What a client takes from its socket.
LEMMA TakenFacts ==
  ASSUME EchoInv, NEW c \in Clients, NEW d \in Inbox(c)
  PROVE  /\ d \in DOMAIN net /\ Good(d) /\ Short(d) /\ d.to = "client" /\ d.addr = Address(c)
         /\ d.addr[1] = c /\ d.data[1] = c /\ d.data[2] \in Nat \ {0}
         /\ d.data[2] <= at[c] /\ d.data[2] <= Len(Messages(c)) /\ d.size \in Nat
<1>1. d \in DOMAIN net /\ d.to = "client" /\ d.addr = Address(c) /\ Good(d) /\ Short(d)
  BY DEF Inbox, EchoInv, NetInv
<1>2. d.addr[1] = c
  BY <1>1 DEF Address
<1>3. d.data[1] = c /\ d.data[2] \in Nat \ {0} /\ d.data[2] <= at[c] /\ d.size \in Nat
  BY <1>1, <1>2 DEF Good, Datagram, Addresses
<1>4. at[c] \in Nat /\ at[c] <= Len(Messages(c)) /\ Len(Messages(c)) \in Nat
  BY MessageFacts DEF EchoInv, TypeOK
<1> QED
  BY <1>1, <1>2, <1>3, <1>4

\* What is displayed grows by at most one entry.
Displays(c, d) ==
  /\ d \in Inbox(c)
  /\ \/ shown' = shown
     \/ shown' = [shown EXCEPT ![c] = Append(shown[c],
           [at |-> at[c], data |-> d.data, size |-> Kept(d.size, program[c])])]

LEMMA RecvDisplays ==
  ASSUME TypeOK, NEW c \in Clients, ClientRecv(c)
  PROVE  \E d \in Inbox(c) : Displays(c, d)
<1>1. PICK d \in Inbox(c) :
        shown' = [shown EXCEPT ![c] =
                    IF program[c] = "ex26" /\ Kept(d.size, program[c]) = 0 THEN shown[c]
                    ELSE Append(shown[c], [at |-> at[c], data |-> d.data,
                                           size |-> Kept(d.size, program[c])])]
  BY DEF ClientRecv
<1>2. [shown EXCEPT ![c] = shown[c]] = shown
  BY DEF TypeOK
<1> QED
  BY <1>1, <1>2 DEF Displays

LEMMA NextTypeOK == EchoInv /\ Next => TypeOK'
<1> SUFFICES ASSUME EchoInv, Next PROVE TypeOK'
  OBVIOUS
<1>1. TypeOK /\ HeldInv
  BY DEF EchoInv
<1>2. /\ Onward /\ at' \in [Clients -> Nat \ {0}]
      /\ DOMAIN net' \subseteq Datagram /\ \A d \in DOMAIN net' : net'[d] \in Nat \ {0}
  BY <1>1, NextOnward, NextNetInv DEF IsNet
<1>3. /\ program' = program /\ server' = server
      /\ \A c \in Clients : at'[c] <= Len(Messages(c)')
  BY <1>2 DEF Onward, programVars, Messages
<1> DEFINE Rest == /\ main' \in {"off", "deaf", "recv", "send", "exited"}
                   /\ held' \in Datagram \union {NoDatagram}
                   /\ client' \in [Clients -> {"send", "recv", "end", "failed"}]
                   /\ shown' \in [Clients -> Seq(Shown)]
                   /\ lost' \in [Clients -> Nat] /\ dups' \in [Clients -> 0..MAX_DUPS]
<1>4. ASSUME Rest PROVE TypeOK'
  BY <1>1, <1>2, <1>3, <1>4 DEF TypeOK
<1>5. /\ main \in {"off", "deaf", "recv", "send", "exited"}
      /\ held \in Datagram \union {NoDatagram}
      /\ client \in [Clients -> {"send", "recv", "end", "failed"}]
      /\ shown \in [Clients -> Seq(Shown)]
      /\ lost \in [Clients -> Nat] /\ dups \in [Clients -> 0..MAX_DUPS]
      /\ MAX_DUPS \in Nat
  BY <1>1, EchoAssumption DEF EchoAssumption, TypeOK
<1>6. CASE ServerRecv
  <2>1. held' \in Datagram
    BY <1>6, RecvFacts
  <2>2. main' \in {"recv", "send"} /\ UNCHANGED <<client, shown, lost, dups>>
    BY <1>6 DEF ServerRecv, clientVars
  <2>3. Rest
    BY <1>5, <2>1, <2>2
  <2> QED
    BY <1>4, <2>3
<1>7. CASE Bind \/ ServerRecvFails \/ ServerSend \/ ServerSendFails
  <2>1. /\ UNCHANGED <<held, client, shown, dups>>
        /\ main' \in {"off", "deaf", "recv", "send", "exited"}
    BY <1>7 DEF Bind, ServerRecvFails, ServerSend, ServerSendFails, Exit, clientVars
  <2>2. lost' = lost \/ \E c : CountLost(c)
    BY <1>7 DEF Bind, ServerRecvFails, ServerSend, ServerSendFails, Exit
  <2>3. lost' \in [Clients -> Nat]
    BY <1>5, <2>2, CountedTypes
  <2>4. Rest
    BY <1>5, <2>1, <2>3
  <2> QED
    BY <1>4, <2>4
<1>8. ASSUME NEW c \in Clients, Client(c)
      PROVE  TypeOK'
  <2>1. /\ UNCHANGED <<main, held, dups>>
        /\ lost' = lost \/ CountLost(c)
        /\ client' = client \/ \E l \in {"send", "recv", "end", "failed"} : Goto(c, l)
    BY <1>8 DEF Client, ClientSend, ClientRecv, ClientRecvFails, Timeout, NextMessage
  <2>2. lost' \in [Clients -> Nat] /\ client' \in [Clients -> {"send", "recv", "end", "failed"}]
    BY <1>5, <2>1, CountedTypes DEF Goto
  <2>3. shown' \in [Clients -> Seq(Shown)]
    <3>1. CASE shown' = shown
      BY <1>5, <3>1
    <3>2. ASSUME NEW d, Displays(c, d), shown' # shown
          PROVE  shown' \in [Clients -> Seq(Shown)]
      <4>1. d.data \in Addresses /\ Kept(d.size, program[c]) \in Nat /\ at[c] \in Nat \ {0}
        BY <1>1, <3>2, TakenFacts, KeptFacts DEF Displays, Good, Datagram, TypeOK
      <4>2. [at |-> at[c], data |-> d.data, size |-> Kept(d.size, program[c])] \in Shown
        BY <4>1 DEF Shown
      <4>3. Append(shown[c], [at |-> at[c], data |-> d.data, size |-> Kept(d.size, program[c])])
              \in Seq(Shown)
        BY <1>5, <4>2, AppendProperties
      <4> QED
        BY <1>5, <3>2, <4>3 DEF Displays
    <3>3. shown' = shown \/ \E d : Displays(c, d)
      BY <1>1, <1>8, RecvDisplays DEF Client, ClientSend, ClientRecvFails, Timeout
    <3> QED
      BY <3>1, <3>2, <3>3
  <2>4. Rest
    BY <1>5, <2>1, <2>2, <2>3
  <2> QED
    BY <1>4, <2>4
<1>9. ASSUME NEW d \in DOMAIN net, Lose(d) \/ Duplicate(d)
      PROVE  TypeOK'
  <2>1. /\ UNCHANGED <<main, held, client, shown>>
        /\ \/ CountLost(d.addr[1]) /\ UNCHANGED dups
           \/ /\ dups[d.addr[1]] < MAX_DUPS /\ UNCHANGED lost
              /\ dups' = [dups EXCEPT ![d.addr[1]] = @ + 1]
    BY <1>9 DEF Lose, Duplicate, clientVars
  <2>2. lost' \in [Clients -> Nat] /\ dups' \in [Clients -> 0..MAX_DUPS]
    <3>1. PICK c : c = d.addr[1] /\ c \in Clients
      BY <1>1 DEF TypeOK, Datagram, Addresses
    <3>2. dups' = dups \/ (dups[c] < MAX_DUPS /\ dups' = [dups EXCEPT ![c] = dups[c] + 1])
      BY <2>1, <3>1
    <3>3. dups' \in [Clients -> 0..MAX_DUPS]
      <4>1. CASE dups' = dups
        BY <1>5, <4>1
      <4>2. CASE dups[c] < MAX_DUPS /\ dups' = [dups EXCEPT ![c] = dups[c] + 1]
        <5>1. dups[c] + 1 \in 0..MAX_DUPS
          BY <1>5, <3>1, <4>2
        <5> QED
          BY <1>5, <3>1, <4>2, <5>1
      <4> QED
        BY <3>2, <4>1, <4>2
    <3> QED
      BY <1>5, <2>1, <3>3, CountedTypes
  <2>3. Rest
    BY <1>5, <2>1, <2>2
  <2> QED
    BY <1>4, <2>3
<1> QED
  BY <1>6, <1>7, <1>8, <1>9 DEF Next, Server

-----------------------------------------------------------------------------
(* Steps and the copies of a message.                                      *)

\* No more datagrams of client c than before.
FewerOf(c) ==
  \A d \in DOMAIN net' : d.addr[1] = c =>
    d \in DOMAIN net /\ net'[d] \in Nat \ {0} /\ net'[d] <= net[d]

LEMMA CopyKeeps ==
  ASSUME NEW c \in Clients, CopyInv(c), IsNet(net), FewerOf(c),
         program' = program, dups'[c] = dups[c], client'[c] = client[c], at'[c] = at[c],
         Holds(c)' => Holds(c) /\ held' = held
  PROVE  CopyInv(c)'
<1> SUFFICES ASSUME program[c] = "ex31", dups[c] = 0
             PROVE  CopyInv(c)'
  BY DEF CopyInv
<1>1. \A d : Mine(d, c)' => Mine(d, c) /\ net'[d] \in Nat \ {0} /\ net'[d] <= net[d]
  BY DEF Mine, FewerOf
<1>2. ASSUME client[c] = "send"
      PROVE  CopyInv(c)'
  BY <1>1, <1>2 DEF CopyInv, Mine
<1>3. ASSUME client[c] = "recv"
      PROVE  CopyInv(c)'
  <2>1. Holds(c)' => held.data[2] = at[c] /\ held' = held /\ \A d : ~Mine(d, c)
    BY <1>3 DEF CopyInv, Mine
  <2>2. \A d : Mine(d, c) => /\ net[d] = 1 /\ d.data[2] = at[c]
                             /\ \A e : Mine(e, c) => e = d
    BY <1>3 DEF CopyInv, Mine
  <2>3. \A d : Mine(d, c)' => /\ net'[d] = 1 /\ d.data[2] = at[c]
                              /\ \A e : Mine(e, c)' => e = d
    <3> SUFFICES ASSUME NEW d, Mine(d, c)'
                 PROVE  /\ net'[d] = 1 /\ d.data[2] = at[c]
                        /\ \A e : Mine(e, c)' => e = d
      OBVIOUS
    <3>1. Mine(d, c) /\ net'[d] \in Nat \ {0} /\ net'[d] <= net[d]
      BY <1>1
    <3>2. net[d] = 1 /\ d.data[2] = at[c] /\ \A e : Mine(e, c) => e = d
      BY <2>2, <3>1
    <3> QED
      BY <1>1, <3>1, <3>2
  <2> QED
    BY <1>1, <1>3, <2>1, <2>3 DEF CopyInv
<1>4. ASSUME client[c] \notin {"send", "recv"}
      PROVE  CopyInv(c)'
  BY <1>4 DEF CopyInv
<1> QED
  BY <1>2, <1>3, <1>4

\* There is nothing left of client c, which is about to send.
LEMMA CopyGone ==
  ASSUME NEW c \in Clients, \A d \in DOMAIN net' : d.addr[1] # c, ~Holds(c)'
  PROVE  CopyInv(c)'
BY DEF CopyInv, Mine

\* There is one datagram of client c, and the server holds none.
LEMMA CopySent ==
  ASSUME NEW c \in Clients, NEW x \in DOMAIN net', x.addr[1] = c,
         net'[x] = 1, x.data[2] = at'[c], client'[c] # "send", ~Holds(c)',
         \A d \in DOMAIN net' : d.addr[1] = c => d = x
  PROVE  CopyInv(c)'
BY DEF CopyInv, Mine

LEMMA FewerOfFacts ==
  ASSUME IsNet(net)
  PROVE  /\ net' = net => \A c : FewerOf(c)
         /\ Fewer(net', net) => \A c : FewerOf(c)
         /\ \A x : net' = BagAdd(net, x) => \A c : x.addr[1] # c => FewerOf(c)
<1>1. net' = net => \A c : FewerOf(c)
  BY DEF FewerOf, IsNet
<1>2. Fewer(net', net) => \A c : FewerOf(c)
  BY DEF FewerOf, Fewer
<1>3. ASSUME NEW x, net' = BagAdd(net, x), NEW c, x.addr[1] # c
      PROVE  FewerOf(c)
  <2>1. DOMAIN net' = DOMAIN net \union {x} /\ \A d \in DOMAIN net : d # x => net'[d] = net[d]
    <3>1. /\ DOMAIN BagAdd(net, x) = DOMAIN net \union {x}
          /\ \A d \in DOMAIN net : d # x => BagAdd(net, x)[d] = net[d]
      BY AddFacts, Zenon
    <3> QED
      BY <1>3, <3>1, Zenon
  <2> QED
    BY <1>3, <2>1 DEF FewerOf, IsNet
<1> QED
  BY <1>1, <1>2, <1>3

LEMMA ServerCopyInv ==
  ASSUME EchoInv, Server, NEW c \in Clients
  PROVE  CopyInv(c)'
<1>1. TypeOK /\ HeldInv /\ CopyInv(c) /\ IsNet(net)
  BY DEF EchoInv, TypeOK, IsNet
<1>2. UNCHANGED <<program, client, at, dups>>
  BY DEF Server, Bind, ServerRecv, ServerRecvFails, ServerSend, ServerSendFails, Exit,
     clientVars, programVars
<1>3. ASSUME FewerOf(c), Holds(c)' => Holds(c) /\ held' = held
      PROVE  CopyInv(c)'
  BY <1>1, <1>2, <1>3, CopyKeeps
<1>4. CASE Bind
  BY <1>1, <1>3, <1>4, FewerOfFacts DEF Bind, Holds
<1>5. CASE Exit
  BY <1>1, <1>3, <1>5, ExitFewer, FewerOfFacts DEF Exit, Holds
<1>6. CASE ServerRecv
  <2>1. PICK d \in DOMAIN net, x \in Datagram :
          /\ net' = BagRemove(net, d) /\ held' = x /\ x.addr = d.addr /\ x.data = d.data
    BY <1>6, RecvFacts
  <2>2. main = "recv" /\ Fewer(net', net) /\ (net[d] = 1 => d \notin DOMAIN net')
    BY <1>1, <1>6, <2>1, RemoveFacts DEF ServerRecv
  <2>3. CASE d.addr[1] # c
    BY <1>1, <1>3, <2>1, <2>2, <2>3, FewerOfFacts DEF Holds
  <2>4. CASE d.addr[1] = c
    <3>1. CASE program[c] = "ex31" /\ dups[c] = 0 /\ client[c] \in {"send", "recv"}
      <4>1. Mine(d, c)
        BY <2>4 DEF Mine
      <4>2. client[c] = "recv" /\ net[d] = 1 /\ d.data[2] = at[c]
        BY <1>1, <3>1, <4>1 DEF CopyInv
      <4>3. \A e \in DOMAIN net : Mine(e, c) => e = d
        BY <1>1, <3>1, <4>1, <4>2 DEF CopyInv
      <4>4. \A e \in DOMAIN net' : ~Mine(e, c)'
        BY <2>2, <4>2, <4>3 DEF Mine, Fewer
      <4> QED
        BY <1>2, <2>1, <4>2, <4>4 DEF CopyInv
    <3>2. CASE ~(program[c] = "ex31" /\ dups[c] = 0 /\ client[c] \in {"send", "recv"})
      BY <1>2, <3>2 DEF CopyInv
    <3> QED
      BY <3>1, <3>2
  <2> QED
    BY <2>3, <2>4
<1>7. CASE ServerSend
  <2>1. ~Holds(c)' /\ main = "send"
    BY <1>7 DEF ServerSend, Holds
  <2>2. CASE net' = net
    BY <1>1, <1>3, <2>1, <2>2, FewerOfFacts
  <2>3. ASSUME NEW x, net' = BagAdd(net, x), x.addr[1] = held.addr[1], x.data = held.data
        PROVE  CopyInv(c)'
    <3>1. CASE held.addr[1] # c
      BY <1>1, <1>3, <2>1, <2>3, <3>1, FewerOfFacts
    <3>2. CASE held.addr[1] = c
      <4>1. CASE program[c] = "ex31" /\ dups[c] = 0 /\ client[c] \in {"send", "recv"}
        <5>1. Holds(c)
          BY <2>1, <3>2 DEF Holds
        <5>2. client[c] = "recv" /\ held.data[2] = at[c] /\ \A d \in DOMAIN net : ~Mine(d, c)
          BY <1>1, <4>1, <5>1 DEF CopyInv
        <5>3. x \notin DOMAIN net
          BY <2>3, <3>2, <5>2 DEF Mine
        <5>4. DOMAIN net' = DOMAIN net \union {x} /\ net'[x] = 1
          BY <1>1, <2>3, <5>3, AddFacts
        <5>5. \A d \in DOMAIN net' : d.addr[1] = c => d = x
          BY <5>2, <5>4 DEF Mine
        <5> QED
          BY <1>2, <2>1, <2>3, <3>2, <5>2, <5>4, <5>5, CopySent
      <4>2. CASE ~(program[c] = "ex31" /\ dups[c] = 0 /\ client[c] \in {"send", "recv"})
        BY <1>2, <4>2 DEF CopyInv
      <4> QED
        BY <4>1, <4>2
    <3> QED
      BY <3>1, <3>2
  <2>4. net' = net \/ net' = BagAdd(net, [held EXCEPT !.to = "client"])
    BY <1>7 DEF ServerSend
  <2>5. PICK x : x = [held EXCEPT !.to = "client"]
    OBVIOUS
  <2>6. x.addr[1] = held.addr[1] /\ x.data = held.data
    BY <1>1, <2>1, <2>5, AnswerGood
  <2> QED
    BY <2>2, <2>3, <2>4, <2>5, <2>6
<1>8. CASE ServerSendFails
  BY <1>1, <1>3, <1>5, <1>8, FewerOfFacts DEF ServerSendFails, Holds
<1> QED
  BY <1>4, <1>5, <1>6, <1>7, <1>8 DEF Server, ServerRecvFails

LEMMA ClientCopyInv ==
  ASSUME EchoInv, NEW b \in Clients, Client(b), NEW c \in Clients
  PROVE  CopyInv(c)'
<1>1. TypeOK /\ CopyInv(c) /\ IsNet(net) /\ client \in [Clients -> {"send", "recv", "end", "failed"}]
      /\ at \in [Clients -> Nat \ {0}]
  BY DEF EchoInv, TypeOK, IsNet
<1>2. UNCHANGED <<program, main, held, dups>> /\ Holds(c)' = Holds(c)
  BY DEF Client, ClientSend, ClientRecv, ClientRecvFails, Timeout, programVars, Holds
<1>3. CASE b # c
  <2>1. client'[c] = client[c] /\ at'[c] = at[c]
    BY <1>1, <1>3 DEF Client, ClientSend, ClientRecv, ClientRecvFails, Timeout, NextMessage, Goto
  <2>2. net' = net \/ CloseSocket(b) \/ net' = BagAdd(net, Request(b)) \/ Fewer(net', net)
    BY <1>1, RecvFewer DEF Client, ClientSend, ClientRecvFails, Timeout, Request
  <2>3. FewerOf(c)
    BY <1>1, <1>3, <2>2, CloseFewer, RequestGood, FewerOfFacts
  <2> QED
    BY <1>1, <1>2, <2>1, <2>3, CopyKeeps
<1>4. CASE b = c /\ (program[c] # "ex31" \/ dups[c] # 0)
  BY <1>2, <1>4 DEF CopyInv
<1>5. CASE b = c /\ program[c] = "ex31" /\ dups[c] = 0
  <2>1. CASE ClientSend(c)
    <3>1. client[c] = "send" /\ at' = at /\ ~Holds(c)' /\ \A d \in DOMAIN net : d.addr[1] # c
      BY <1>1, <1>2, <1>5, <2>1 DEF ClientSend, CopyInv, Mine
    <3>2. CASE net' = BagAdd(net, Request(c)) /\ Goto(c, "recv")
      <4>1. PICK x : x = Request(c)
        OBVIOUS
      <4>2. x.addr[1] = c /\ x.data[2] = at[c]
        BY <1>1, <4>1, RequestGood
      <4>3. DOMAIN net' = DOMAIN net \union {x} /\ net'[x] = 1
        <5>1. x \notin DOMAIN net /\ net' = BagAdd(net, x)
          BY <3>1, <3>2, <4>1, <4>2
        <5> QED
          BY <1>1, <5>1, AddFacts, Zenon
      <4>4. client'[c] = "recv"
        BY <1>1, <3>2 DEF Goto
      <4> QED
        BY <3>1, <4>2, <4>3, <4>4, CopySent
    <3>3. CASE net' = net
      BY <3>1, <3>3, CopyGone
    <3>4. CASE CloseSocket(c)
      <4>1. \A d \in DOMAIN net' : d.addr[1] # c
        BY <1>1, <3>1, <3>4, CloseFewer DEF Fewer
      <4> QED
        BY <3>1, <4>1, CopyGone
    <3> QED
      BY <2>1, <3>2, <3>3, <3>4 DEF ClientSend, Request
  <2>2. CASE ClientRecv(c)
    <3>1. PICK d \in Inbox(c) : net' = BagRemove(net, d) \/ net' = Without(Inbox(c))
      BY <2>2 DEF ClientRecv
    <3>2. client[c] = "recv" /\ d \in DOMAIN net /\ Mine(d, c)
      BY <2>2, <3>1, TakenFacts DEF ClientRecv, Mine
    <3>3. net[d] = 1 /\ ~Holds(c) /\ \A e \in DOMAIN net : Mine(e, c) => e = d
      BY <1>1, <1>5, <3>2 DEF CopyInv
    <3>4. Fewer(net', net) /\ d \notin DOMAIN net'
      <4>1. CASE net' = BagRemove(net, d)
        BY <1>1, <3>2, <3>3, <4>1, RemoveFacts
      <4>2. CASE net' = Without(Inbox(c))
        BY <1>1, <3>1, <4>2, WithoutFacts
      <4> QED
        BY <3>1, <4>1, <4>2
    <3>5. \A e \in DOMAIN net' : e.addr[1] # c
      BY <3>3, <3>4 DEF Fewer, Mine
    <3> QED
      BY <1>2, <3>3, <3>5, CopyGone
  <2>3. CASE ClientRecvFails(c)
    <3>1. client'[c] \in {"failed", "end"}
      BY <1>1, <2>3 DEF ClientRecvFails, Goto
    <3> QED
      BY <3>1 DEF CopyInv
  <2>4. CASE Timeout(c)
    BY <1>5, <2>4 DEF Timeout
  <2> QED
    BY <1>5, <2>1, <2>2, <2>3, <2>4 DEF Client
<1> QED
  BY <1>3, <1>4, <1>5

LEMMA NetworkCopyInv ==
  ASSUME EchoInv, NEW d \in DOMAIN net, Lose(d) \/ Duplicate(d), NEW c \in Clients
  PROVE  CopyInv(c)'
<1>1. /\ TypeOK /\ CopyInv(c) /\ IsNet(net) /\ dups \in [Clients -> 0..MAX_DUPS]
      /\ MAX_DUPS \in Nat
  BY EchoAssumption DEF EchoInv, EchoAssumption, TypeOK, IsNet
<1>2. UNCHANGED <<program, client, at, held>> /\ Holds(c)' = Holds(c)
  BY DEF Lose, Duplicate, clientVars, programVars, Holds
<1>3. CASE Lose(d)
  <2>1. FewerOf(c) /\ dups' = dups
    BY <1>1, <1>3, RemoveFewer, FewerOfFacts DEF Lose
  <2> QED
    BY <1>1, <1>2, <2>1, CopyKeeps
<1>4. CASE Duplicate(d) /\ d.addr[1] # c
  <2>1. FewerOf(c) /\ dups'[c] = dups[c]
    BY <1>1, <1>4, FewerOfFacts DEF Duplicate
  <2> QED
    BY <1>1, <1>2, <2>1, CopyKeeps
<1>5. CASE Duplicate(d) /\ d.addr[1] = c
  <2>1. dups'[c] = dups[c] + 1 /\ dups[c] \in Nat
    BY <1>1, <1>5 DEF Duplicate
  <2> QED
    BY <2>1 DEF CopyInv
<1> QED
  BY <1>3, <1>4, <1>5

-----------------------------------------------------------------------------
(* Steps and what is displayed.                                            *)

\* InStep and TerminatorInside say this of every entry a client displayed.
Right(c, e) ==
  /\ e.data[1] = c
  /\ e.data[2] <= e.at
  /\ e.data[2] < e.at => program[c] = "ex31" /\ dups[c] > 0
  /\ e.size >= BUF_SIZE => /\ program[c] = "ex31" /\ server = "ex29"
                           /\ Messages(c)[e.data[2]] >= BUF_SIZE
AllRight == \A c \in Clients : \A n \in 1..Len(shown[c]) : Right(c, shown[c][n])

LEMMA RightFacts == HeldInv => (InStep /\ TerminatorInside <=> AllRight)
BY DEF HeldInv, Short, InStep, TerminatorInside, AllRight, Right

LEMMA TakenRight ==
  ASSUME EchoInv, NEW c \in Clients, client[c] = "recv", NEW d \in Inbox(c)
  PROVE  Right(c, [at |-> at[c], data |-> d.data, size |-> Kept(d.size, program[c])])
<1> DEFINE n == Kept(d.size, program[c])
<1>1. /\ d \in DOMAIN net /\ Short(d) /\ d.to = "client" /\ d.addr = Address(c)
      /\ d.addr[1] = c /\ d.data[1] = c /\ d.data[2] \in Nat \ {0}
      /\ d.data[2] <= at[c] /\ d.data[2] <= Len(Messages(c)) /\ d.size \in Nat /\ Good(d)
  BY TakenFacts
<1>2. /\ program \in [Clients -> {"ex26", "ex31", "netcat"}] /\ server \in {"ex26", "ex29"}
      /\ at[c] \in Nat \ {0} /\ at[c] <= Len(Messages(c)) /\ CopyInv(c)
      /\ dups[c] \in Nat /\ BUF_SIZE \in Nat \ {0, 1}
  BY EchoAssumption DEF EchoInv, EchoAssumption, TypeOK
<1>3. /\ n \in Nat /\ n <= d.size /\ (program[c] = "ex26" => n < BUF_SIZE)
  BY <1>1, KeptFacts
<1>4. Messages(c)[d.data[2]] \in Nat /\ d.size <= Messages(c)[d.data[2]]
  <2>1. d.data[2] \in 1..Len(Messages(c)) /\ Len(Messages(c)) \in Nat
    BY <1>1, <1>2, MessageFacts
  <2> QED
    BY <1>1, <1>2, <2>1, MessageFacts DEF Good
<1> HIDE DEF n
<1>5. ASSUME d.data[2] < at[c] PROVE program[c] = "ex31" /\ dups[c] > 0
  <2>1. program[c] # "ex26"
    BY <1>1, <1>2, <1>5, MessageFacts
  <2>2. program[c] # "netcat"
    BY <1>1, <1>2, <1>5 DEF Good, Address
  <2>3. program[c] = "ex31"
    BY <1>2, <2>1, <2>2
  <2>4. dups[c] # 0
    BY <1>1, <1>2, <1>5, <2>3 DEF CopyInv, Mine
  <2> QED
    BY <1>2, <2>3, <2>4
<1>6. ASSUME n >= BUF_SIZE
      PROVE  program[c] = "ex31" /\ server = "ex29" /\ Messages(c)[d.data[2]] >= BUF_SIZE
  <2>1. d.size >= BUF_SIZE /\ Messages(c)[d.data[2]] >= BUF_SIZE /\ program[c] # "ex26"
    BY <1>1, <1>2, <1>3, <1>4, <1>6
  <2>2. server = "ex29"
    BY <1>1, <1>2, <2>1 DEF Short
  <2>3. program[c] # "netcat"
    <3>1. d.data[2] \in 1..Len(Messages(c)) /\ Len(Messages(c)) \in Nat
      BY <1>1, <1>2, MessageFacts
    <3>2. program[c] = "netcat" => Messages(c)[d.data[2]] = 1
      BY <1>2, <3>1, MessageFacts
    <3> QED
      BY <1>2, <2>1, <3>2
  <2> QED
    BY <1>2, <2>1, <2>2, <2>3
<1>7. Right(c, [at |-> at[c], data |-> d.data, size |-> n])
  BY <1>1, <1>2, <1>5, <1>6 DEF Right
<1> QED
  BY <1>7 DEF n

LEMMA NextAllRight == EchoInv /\ Next => AllRight'
<1> SUFFICES ASSUME EchoInv, Next PROVE AllRight'
  OBVIOUS
<1>1. TypeOK /\ AllRight /\ Onward
  BY RightFacts, NextOnward DEF EchoInv
<1>2. \A c \in Clients : dups[c] \in Nat /\ dups'[c] \in Nat /\ dups'[c] >= dups[c]
  <2>1. dups \in [Clients -> 0..MAX_DUPS] /\ MAX_DUPS \in Nat
    BY <1>1, EchoAssumption DEF EchoAssumption, TypeOK
  <2>2. dups' = dups \/ \E b : dups' = [dups EXCEPT ![b] = dups[b] + 1]
    BY DEF Next, Server, Bind, ServerRecv, ServerRecvFails, ServerSend, ServerSendFails, Exit,
       Client, ClientSend, ClientRecv, ClientRecvFails, Timeout, Lose, Duplicate
  <2> QED
    BY <2>1, <2>2
<1>3. ASSUME NEW c \in Clients, NEW e, Right(c, e) PROVE Right(c, e)'
  BY <1>1, <1>2, <1>3 DEF Right, Onward, programVars, Messages
<1>4. CASE shown' = shown
  BY <1>1, <1>3, <1>4 DEF AllRight
<1>5. ASSUME NEW b \in Clients, NEW d, client[b] = "recv", Displays(b, d), shown' # shown
      PROVE  AllRight'
  <2>1. PICK x : x = [at |-> at[b], data |-> d.data, size |-> Kept(d.size, program[b])]
    OBVIOUS
  <2>2. shown' = [shown EXCEPT ![b] = Append(shown[b], x)] /\ d \in Inbox(b)
    BY <1>5, <2>1 DEF Displays
  <2>3. Right(b, x)'
    BY <1>3, <1>5, <2>1, <2>2, TakenRight
  <2>4. /\ shown \in [Clients -> Seq(Shown)] /\ shown[b] \in Seq(Shown)
        /\ Len(shown[b]) \in Nat
    BY <1>1, LenProperties DEF TypeOK
  <2>5. ASSUME NEW c \in Clients, NEW n \in 1..Len(shown'[c]), NEW e, e = shown'[c][n]
        PROVE  Right(c, e)'
    <3>1. CASE c # b
      <4>1. shown'[c] = shown[c]
        BY <2>2, <2>4, <3>1
      <4>2. Right(c, e)
        BY <1>1, <2>5, <4>1 DEF AllRight
      <4> QED
        BY <1>3, <4>2
    <3>2. CASE c = b
      <4>1. /\ shown'[b] = Append(shown[b], x) /\ Len(shown'[b]) = Len(shown[b]) + 1
            /\ shown'[b][Len(shown[b]) + 1] = x
            /\ \A m \in 1..Len(shown[b]) : shown'[b][m] = shown[b][m]
        BY <2>2, <2>4
      <4>2. CASE n = Len(shown[b]) + 1
        <5>1. e = x
          BY <2>5, <3>2, <4>1, <4>2
        <5> QED
          BY <2>3, <3>2, <5>1
      <4>3. CASE n # Len(shown[b]) + 1
        <5>1. n \in 1..Len(shown[b])
          BY <2>4, <2>5, <3>2, <4>1, <4>3
        <5>2. Right(c, e)
          BY <1>1, <2>5, <3>2, <4>1, <5>1 DEF AllRight
        <5> QED
          BY <1>3, <5>2
      <4> QED
        BY <4>2, <4>3
    <3> QED
      BY <3>1, <3>2
  <2> QED
    BY <2>5 DEF AllRight, Right
<1>6. shown' = shown \/ \E b \in Clients : ClientRecv(b)
  BY DEF Next, Server, Bind, ServerRecv, ServerRecvFails, ServerSend, ServerSendFails, Exit,
     Client, ClientSend, ClientRecvFails, Timeout, Lose, Duplicate, clientVars
<1>7. ASSUME NEW b \in Clients, ClientRecv(b)
      PROVE  shown' = shown \/ AllRight'
  <2>1. client[b] = "recv" /\ \E d : Displays(b, d)
    BY <1>1, <1>7, RecvDisplays DEF ClientRecv
  <2> QED
    BY <1>5, <2>1
<1> QED
  BY <1>4, <1>6, <1>7

-----------------------------------------------------------------------------
\* The invariant is inductive.
LEMMA NextEchoInv == EchoInv /\ [Next]_vars => EchoInv'
<1> SUFFICES ASSUME EchoInv, [Next]_vars PROVE EchoInv'
  OBVIOUS
<1>1. CASE UNCHANGED vars
  <2>1. /\ server' = server /\ program' = program /\ main' = main /\ held' = held /\ net' = net
        /\ client' = client /\ at' = at /\ shown' = shown /\ lost' = lost /\ dups' = dups
    BY <1>1 DEF vars, programVars, clientVars
  <2>2. \A c : Messages(c)' = Messages(c)
    BY <2>1 DEF Messages
  <2>3. TypeOK'
    BY <2>1, <2>2 DEF EchoInv, TypeOK
  <2>4. NetInv' /\ HeldInv'
    BY <2>1, <2>2 DEF EchoInv, NetInv, HeldInv, Good, Short
  <2>5. \A c \in Clients : CopyInv(c)'
    BY <2>1 DEF EchoInv, CopyInv, Holds, Mine
  <2>6. InStep' /\ TerminatorInside'
    BY <2>1, <2>2 DEF EchoInv, InStep, TerminatorInside
  <2> QED
    BY <2>3, <2>4, <2>5, <2>6 DEF EchoInv
<1>2. CASE Next
  <2>1. TypeOK' /\ NetInv' /\ HeldInv' /\ AllRight'
    BY <1>2, NextTypeOK, NextNetInv, NextHeldInv, NextAllRight
  <2>2. \A c \in Clients : CopyInv(c)'
    BY <1>2, ServerCopyInv, ClientCopyInv, NetworkCopyInv DEF Next
  <2>3. InStep' /\ TerminatorInside'
    BY <2>1, RightFacts, PTL
  <2> QED
    BY <2>1, <2>2, <2>3 DEF EchoInv
<1> QED
  BY <1>1, <1>2

\* Every variable keeps its type; no client goes past its last argument.
THEOREM TypeCorrect == Spec => []TypeOK
<1>1. EchoInv => TypeOK
  BY DEF EchoInv
<1> QED
  BY <1>1, InitEchoInv, NextEchoInv, PTL DEF Spec

\* An echo is displayed by the client whose message it repeats, and as the
\* answer to that message unless ex31 met a duplicate.
THEOREM StepCorrect == Spec => []InStep
<1>1. EchoInv => InStep
  BY DEF EchoInv
<1> QED
  BY <1>1, InitEchoInv, NextEchoInv, PTL DEF Spec

\* The final '\0' is inside the buffer but for ex31's client when an echo
\* fills it.
THEOREM TerminatorCorrect == Spec => []TerminatorInside
<1>1. EchoInv => TerminatorInside
  BY DEF EchoInv
<1> QED
  BY <1>1, InitEchoInv, NextEchoInv, PTL DEF Spec
=============================================================================
