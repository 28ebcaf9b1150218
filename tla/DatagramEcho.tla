---------------------------- MODULE DatagramEcho ----------------------------
(***************************************************************************)
(* The UDP echo programs: the server and the client of ex26_udp, the       *)
(* server of ex29_prbl1, the client of ex31_prbl3 and the netcat script of *)
(* ex30_prbl2. They all use port 8080, so any client may meet either       *)
(* server. The network loses, duplicates and reorders datagrams, and drops *)
(* those sent to a port nobody has bound.                                  *)
(***************************************************************************)
EXTENDS Integers, Sequences, Bags, BagsExt

CONSTANTS
  Clients,    \* the client processes
  Args,       \* Args[c]: the lengths of the arguments of c, run as ex31
  BUF_SIZE,   \* the size of every buffer
  MAX_LOST,   \* bound: the datagrams of one client the network loses
  MAX_DUPS,   \* bound: the datagrams of one client it duplicates
  Faults,     \* {"io_fails"} if bind, sendto and recvfrom may fail
  NoDatagram  \* the server's buffers before the first recvfrom

ASSUME EchoAssumption ==
  /\ Args \in [Clients -> Seq(Nat)]
  /\ \A c \in Clients : Args[c] # <<>>
  /\ BUF_SIZE \in Nat \ {0, 1}
  /\ MAX_LOST \in Nat /\ MAX_DUPS \in Nat
  /\ Faults \subseteq {"io_fails"}

VARIABLES
  server,   \* the server program
  program,  \* program[c]: what client c runs
  main,     \* where the server's main is
  held,     \* the server's claddr and buf: the datagram last received
  net,      \* the bag of datagrams in flight or in a socket's queue
  client,   \* client[c]: where client c is
  at,       \* at[c]: the argument or line client c is at
  shown,    \* shown[c]: what it displayed, with the value of at
  lost,     \* lost[c]: the datagrams of c, or for c, that disappeared
  dups      \* dups[c]: those that were duplicated

programVars == <<server, program>>
clientVars == <<client, at, shown>>
vars == <<programVars, main, held, net, clientVars, lost, dups>>

\* The lengths of what client c sends: "Test UDP" in ex26, the two lines of
\* test_netcat.sh, or the arguments. All but the latter fit the buffers.
Messages(c) ==
  CASE program[c] = "ex26" -> <<1>>
    [] program[c] = "netcat" -> <<1, 1>>
    [] program[c] = "ex31" -> Args[c]

\* What one recvfrom() of program p keeps of a datagram.
\* Mutant: ex26 leaves no room for the final '\0' either.
Capacity_NoRoom(p) == BUF_SIZE
Capacity(p) == IF p = "ex26" THEN BUF_SIZE - 1 ELSE BUF_SIZE
Kept(size, p) == IF size < Capacity(p) THEN size ELSE Capacity(p)

\* The n-th message of client c is <<c, n>>; its address is <<c, port>>. Each
\* nc of the script has a port of its own.
Address(c) == <<c, IF program[c] = "netcat" THEN at[c] ELSE 1>>
Addresses == Clients \X (Nat \ {0})
Datagram == [to: {"server", "client"}, addr: Addresses, data: Addresses, size: Nat]
Shown == [at: Nat \ {0}, data: Addresses, size: Nat]

TypeOK ==
  /\ server \in {"ex26", "ex29"}
  /\ program \in [Clients -> {"ex26", "ex31", "netcat"}]
  /\ main \in {"off", "deaf", "recv", "send", "exited"}
  /\ held \in Datagram \union {NoDatagram}
  /\ DOMAIN net \subseteq Datagram /\ \A d \in DOMAIN net : net[d] \in Nat \ {0}
  /\ client \in [Clients -> {"send", "recv", "end", "failed"}]
  /\ at \in [Clients -> Nat \ {0}] /\ \A c \in Clients : at[c] <= Len(Messages(c))
  /\ shown \in [Clients -> Seq(Shown)]
  /\ lost \in [Clients -> Nat] /\ dups \in [Clients -> 0..MAX_DUPS]

\* The clients are started, perhaps before the server.
Init ==
  /\ server \in {"ex26", "ex29"}
  /\ program \in [Clients -> {"ex26", "ex31", "netcat"}]
  /\ main = "off"
  /\ held = NoDatagram
  /\ net = EmptyBag
  /\ client = [c \in Clients |-> "send"]
  /\ at = [c \in Clients |-> 1]
  /\ shown = [c \in Clients |-> <<>>]
  /\ lost = [c \in Clients |-> 0]
  /\ dups = [c \in Clients |-> 0]

-----------------------------------------------------------------------------
(* The network.                                                            *)

Fails == "io_fails" \in Faults
CountLost(c) == lost' = [lost EXCEPT ![c] = @ + 1]
\* The datagrams that are left when those in gone are dropped.
Without(gone) == [d \in DOMAIN net \ gone |-> net[d]]

Lose(d) ==
  /\ lost[d.addr[1]] < MAX_LOST
  /\ net' = BagRemove(net, d)
  /\ CountLost(d.addr[1])
  /\ UNCHANGED <<programVars, main, held, clientVars, dups>>

Duplicate(d) ==
  /\ dups[d.addr[1]] < MAX_DUPS
  /\ net' = BagAdd(net, d)
  /\ dups' = [dups EXCEPT ![d.addr[1]] = @ + 1]
  /\ UNCHANGED <<programVars, main, held, clientVars, lost>>

-----------------------------------------------------------------------------
(* The server.                                                             *)

\* socket() and bind(). When they fail ex29 exits; ex26 does not look and
\* calls recvfrom() on a socket nothing reaches.
Bind ==
  /\ main = "off"
  /\ \/ main' = "recv"
     \/ Fails /\ main' = (IF server = "ex29" THEN "exited" ELSE "deaf")
  /\ UNCHANGED <<programVars, held, net, clientVars, lost, dups>>

\* Mutant: claddr is filled in for the first datagram only.
ServerRecv_FirstAddress ==
  /\ main = "recv"
  /\ \E d \in DOMAIN net :
       /\ d.to = "server"
       /\ net' = BagRemove(net, d)
       /\ held' = [d EXCEPT !.size = Kept(@, server),
                            !.addr = IF held = NoDatagram THEN @ ELSE held.addr]
       /\ main' = IF server = "ex26" /\ held'.size = 0 THEN "recv" ELSE "send"
  /\ UNCHANGED <<programVars, clientVars, lost, dups>>

\* recvfrom(): ex26 answers only a datagram that is not empty.
ServerRecv ==
  /\ main = "recv"
  /\ \E d \in DOMAIN net :
       /\ d.to = "server"
       /\ net' = BagRemove(net, d)
       /\ held' = [d EXCEPT !.size = Kept(@, server)]
       /\ main' = IF server = "ex26" /\ held'.size = 0 THEN "recv" ELSE "send"
  /\ UNCHANGED <<programVars, clientVars, lost, dups>>

\* exit(): what was sent to the server's port disappears.
Exit ==
  /\ server = "ex29" /\ Fails
  /\ main' = "exited"
  /\ net' = Without({d \in DOMAIN net : d.to = "server"})
  /\ UNCHANGED <<programVars, held, clientVars, lost, dups>>

\* A recvfrom() that fails; ex26 goes round its loop as if nothing happened.
ServerRecvFails == main = "recv" /\ Exit

\* The socket with this address is still open.
Open(addr) == client[addr[1]] \in {"send", "recv"} /\ Address(addr[1]) = addr

\* sendto() of the echo to the address recvfrom() filled in.
ServerSend ==
  /\ main = "send"
  /\ main' = "recv"
  /\ net' = IF Open(held.addr) THEN BagAdd(net, [held EXCEPT !.to = "client"]) ELSE net
  /\ UNCHANGED <<programVars, held, clientVars, lost, dups>>

\* A sendto() that fails: ex26 does not notice.
ServerSendFails ==
  /\ main = "send"
  /\ \/ Exit
     \/ /\ server = "ex26" /\ Fails
        /\ main' = "recv"
        /\ CountLost(held.addr[1])
        /\ UNCHANGED <<programVars, held, net, clientVars, dups>>

Server == Bind \/ ServerRecv \/ ServerRecvFails \/ ServerSend \/ ServerSendFails

-----------------------------------------------------------------------------
(* The clients.                                                            *)

Goto(c, label) == client' = [client EXCEPT ![c] = label]
Inbox(c) == {d \in DOMAIN net : d.to = "client" /\ d.addr = Address(c)}
\* close() or exit(): what is still on its way to the client disappears.
CloseSocket(c) == net' = Without(Inbox(c))

\* sendto(); when it fails ex31 exits, and ex26 does not notice.
ClientSend(c) ==
  LET request == [to |-> "server", addr |-> Address(c), data |-> <<c, at[c]>>,
                  size |-> Messages(c)[at[c]]]
  IN  /\ client[c] = "send"
      /\ \/ /\ main \in {"recv", "send"}
            /\ net' = BagAdd(net, request)
            /\ Goto(c, "recv")
            /\ UNCHANGED lost
         \/ /\ main \notin {"recv", "send"} \/ (Fails /\ program[c] = "ex26")
            /\ CountLost(c)
            /\ Goto(c, "recv")
            /\ UNCHANGED net
         \/ /\ Fails /\ program[c] = "ex31"
            /\ CloseSocket(c)
            /\ Goto(c, "failed")
            /\ UNCHANGED lost
      /\ UNCHANGED <<programVars, main, held, at, shown, dups>>

\* The next argument or line, if there is one.
\* Mutant: the loop turns once more (i <= argc).
NextMessage_OneMore(c) ==
  IF at[c] <= Len(Messages(c))
    THEN at' = [at EXCEPT ![c] = @ + 1] /\ Goto(c, "send")
    ELSE Goto(c, "end") /\ UNCHANGED at

NextMessage(c) ==
  IF at[c] < Len(Messages(c))
    THEN at' = [at EXCEPT ![c] = @ + 1] /\ Goto(c, "send")
    ELSE Goto(c, "end") /\ UNCHANGED at

\* recvfrom() takes any datagram sent to the client's port, and what it holds
\* is displayed, by ex26 unless it is empty. ex26 then ends, ex31 goes on to
\* its next argument, and nc waits for more.
ClientRecv(c) ==
  /\ client[c] = "recv"
  /\ \E d \in Inbox(c) :
       LET n == Kept(d.size, program[c])
       IN  /\ shown' = [shown EXCEPT ![c] =
                          IF program[c] = "ex26" /\ n = 0 THEN @
                          ELSE Append(@, [at |-> at[c], data |-> d.data, size |-> n])]
           /\ net' = IF program[c] = "netcat" \/ at[c] < Len(Messages(c))
                       THEN BagRemove(net, d)
                       ELSE Without(Inbox(c))
           /\ IF program[c] = "netcat" THEN UNCHANGED <<client, at>> ELSE NextMessage(c)
  /\ UNCHANGED <<programVars, main, held, lost, dups>>

\* A recvfrom() that fails: ex31 exits, ex26 ends without a word.
ClientRecvFails(c) ==
  /\ client[c] = "recv" /\ Fails /\ program[c] # "netcat"
  /\ CloseSocket(c)
  /\ Goto(c, IF program[c] = "ex31" THEN "failed" ELSE "end")
  /\ UNCHANGED <<programVars, main, held, at, shown, lost, dups>>

\* nc -w1 ends when nothing has arrived for a second; then the script starts
\* the next one.
\* Mutant: without -w1.
Timeout_Never(c) == FALSE /\ UNCHANGED vars
Timeout(c) ==
  /\ client[c] = "recv" /\ program[c] = "netcat"
  /\ CloseSocket(c)
  /\ NextMessage(c)
  /\ UNCHANGED <<programVars, main, held, shown, lost, dups>>

Client(c) == ClientSend(c) \/ ClientRecv(c) \/ ClientRecvFails(c) \/ Timeout(c)

Next ==
  \/ Server
  \/ \E c \in Clients : Client(c)
  \/ \E d \in DOMAIN net : Lose(d) \/ Duplicate(d)

Spec == Init /\ [][Next]_vars

\* The processes keep running and read what has arrived; nothing need fail,
\* be lost or be duplicated.
FairSpec ==
  /\ Spec
  /\ WF_vars(Bind) /\ WF_vars(ServerRecv) /\ WF_vars(ServerSend)
  /\ \A c \in Clients :
       WF_vars(ClientSend(c)) /\ WF_vars(ClientRecv(c)) /\ WF_vars(Timeout(c))

-----------------------------------------------------------------------------
\* A client displays echoes of its own messages only, and as the answer to a
\* message the echo of that message: "Affichage de la reponse" (ex31:63). Only
\* a client of ex31 one of whose datagrams was duplicated may display an
\* earlier message's, for it does not compare the echo with what it sent.
InStep ==
  \A c \in Clients : \A i \in 1..Len(shown[c]) :
    LET e == shown[c][i]
    IN  /\ e.data[1] = c
        /\ e.data[2] <= e.at
        /\ e.data[2] < e.at => program[c] = "ex31" /\ dups[c] > 0

\* The '\0' written after recvfrom() at buf[n] is inside buf, in ex26's server
\* and in the clients, but for an echo that fills the buffer of ex31's client,
\* which only ex29 sends, and only for an argument as long as the buffer.
TerminatorInside ==
  /\ server = "ex26" /\ held # NoDatagram => held.size < BUF_SIZE
  /\ \A c \in Clients : \A i \in 1..Len(shown[c]) :
       LET e == shown[c][i]
       IN  e.size >= BUF_SIZE =>
             /\ program[c] = "ex31" /\ server = "ex29"
             /\ Messages(c)[e.data[2]] >= BUF_SIZE

\* A client that waits for ever, for no program sends again, has lost more
\* datagrams than were duplicated, or met a server that failed or, ex26's,
\* does not answer an empty argument. nc always ends.
Excused(c) ==
  /\ program[c] # "netcat"
  /\ \/ lost[c] > dups[c]
     \/ main \in {"exited", "deaf"}
     \/ server = "ex26" /\ \E i \in 1..Len(Messages(c)) : Messages(c)[i] = 0
Answered == \A c \in Clients : <>[](client[c] \in {"end", "failed"} \/ Excused(c))
=============================================================================
