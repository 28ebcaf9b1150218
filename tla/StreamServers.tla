---------------------------- MODULE StreamServers ---------------------------
(***************************************************************************)
(* The echo servers over stream sockets and their clients. They differ in  *)
(* who serves a connection: main itself, one client after the other        *)
(* (ex21_connexion, ex22_datas, ex27_tcp, ex32_devoir0) or only one        *)
(* (ex25_example), a thread per connection (ex23_concurrencyServer) or a   *)
(* child process per connection (ex33_devoir1).                            *)
(*                                                                         *)
(* Clients are numbered; client c makes one connection, also called c, and *)
(* the one that serves connection c is handler c. The n-th octet client c  *)
(* sends, and the answer to it (the same octet, or its upper case), is the *)
(* token <<c, n>>. ex25 and ex27 answer with a text of their own.          *)
(***************************************************************************)
EXTENDS Integers, Sequences, FiniteSets

CONSTANTS
  Programs,        \* the programs to look at
  NUM_CLIENTS,     \* the clients, argv[2] of the client of ex33
  Length,          \* Length[c]: the octets of c's message, but in ex22 and ex23
  ROUNDS,          \* the messages of a client of ex23, its argv[2]
  BACKLOG,         \* the pending connections the kernel queues
  Unruly,          \* bound: the clients that may never write or be interrupted
  Faults           \* "create_fails": fork and pthread_create may fail;
                   \* "accept_fails": accept may, but not for ever

ASSUME ServersAssumption ==
  /\ Programs \subseteq {"ex21", "ex22", "ex23", "ex25", "ex27", "ex32", "ex33"}
  /\ {NUM_CLIENTS, ROUNDS, BACKLOG} \subseteq Nat \ {0}
  /\ Length \in [1..NUM_CLIENTS -> Nat \ {0}]
  /\ Unruly \subseteq 1..NUM_CLIENTS
  /\ Faults \subseteq {"create_fails", "accept_fails"}

Clients == 1..NUM_CLIENTS

VARIABLES
  program,   \* the server, and its client, that run
  silent,    \* the clients that never write, as ex25's with an empty file
  up,        \* the server's first process is running
  queue,     \* the listen queue
  main,      \* where main is in its loop
  cfd,       \* main's variable client_fd or cfd, 0 before the first accept()
  handler,   \* handler[h]: where handler h is
  fd,        \* fd[h]: the connection handler h works on, 0 if none yet
  buf,       \* buf[h]: what buffer h holds that is still to be written
  peak,      \* the most children that ever ran at once
  launcher,  \* where main of ex33's client is; the user starts the others
  waited,    \* the clients it has waited for
  client,    \* client[c]: where client c is
  round,     \* round[c]: the messages it has been answered
  inbox,     \* inbox[k]: octets on connection k for the server
  outbox,    \* outbox[k]: octets on connection k for the client
  got,       \* got[c]: all the octets client c has displayed
  hung       \* hung[k]: the client's end of k is closed

mainVars == <<up, queue, main, cfd, peak>>
handlerVars == <<handler, fd, buf>>
launcherVars == <<launcher, waited>>
clientVars == <<launcherVars, client, round, got>>
sockVars == <<inbox, outbox, hung>>
vars == <<program, silent, mainVars, handlerVars, clientVars, sockVars>>

Concurrent == {"ex23", "ex33"}
\* Programs over TCP; the others use AF_UNIX sockets.
Tcp == program \in {"ex25", "ex27", "ex32", "ex33"}
Forks == program = "ex33"

Size(c) == IF program \in {"ex22", "ex23"} THEN 1 ELSE Length[c]
Rounds == IF program = "ex23" THEN ROUNDS ELSE 1
\* The answer "?", what a variable that was never set holds, and the text
\* "Done! :)" of ex25 or "Message bien recu" of ex27.
Invalid == <<0, 1>>
Unset == <<0, 0>>
Done == <<0, 2>>
FixedAnswer == program \in {"ex25", "ex27"}
Octets == (Clients \X (Nat \ {0})) \union {Invalid, Unset, Done}

TypeOK ==
  /\ program \in Programs /\ silent \subseteq Unruly
  /\ up \in BOOLEAN
  /\ queue \in Seq(Clients)
  /\ main \in {"reap", "accept", "create", "parent", "serve"}
  /\ cfd \in Clients \union {0}
  /\ handler \in [Clients -> {"none", "start", "read", "write", "close", "done",
                              "zombie", "reaped"}]
  /\ fd \in [Clients -> Clients \union {0}]
  /\ buf \in [Clients -> Seq(Octets)]
  /\ peak \in 0..NUM_CLIENTS
  /\ launcher \in {"fork", "wait", "end", "failed"}
  /\ waited \in 0..NUM_CLIENTS
  /\ client \in [Clients -> {"none", "connect", "send", "recv", "silent", "end",
                             "failed", "killed"}]
  /\ round \in [Clients -> 0..Rounds]
  /\ inbox \in [Clients -> Seq(Octets)] /\ outbox \in [Clients -> Seq(Octets)]
  /\ got \in [Clients -> Seq(Octets)]
  /\ hung \in [Clients -> BOOLEAN]

LoopStart == IF Forks THEN "reap" ELSE "accept"

\* The server listens; the user has started the clients, or ex33's launcher.
Init ==
  /\ program \in Programs
  /\ silent \in SUBSET Unruly
  /\ up = TRUE
  /\ queue = <<>>
  /\ main = LoopStart
  /\ cfd = 0
  /\ handler = [h \in Clients |-> "none"]
  /\ fd = [h \in Clients |-> 0]
  /\ buf = [h \in Clients |-> <<>>]
  /\ peak = 0
  /\ launcher = IF Forks THEN "fork" ELSE "end"
  /\ waited = 0
  /\ client = [c \in Clients |-> IF Forks THEN "none" ELSE "connect"]
  /\ round = [c \in Clients |-> 0]
  /\ inbox = [c \in Clients |-> <<>>]
  /\ outbox = [c \in Clients |-> <<>>]
  /\ got = [c \in Clients |-> <<>>]
  /\ hung = [c \in Clients |-> FALSE]

-----------------------------------------------------------------------------
(* The server's main.                                                      *)

Serving(h) == handler[h] \in {"start", "read", "write", "close"}
Children == {h \in Clients : Serving(h)}

\* Mutant: terminated children are not waited for.
Reap_Never ==
  /\ up /\ main = "reap"
  /\ main' = "accept"
  /\ UNCHANGED <<program, silent, up, queue, cfd, peak, handlerVars, clientVars, sockVars>>

\* waitpid(-1, NULL, WNOHANG): at most one terminated child.
Reap ==
  /\ up /\ main = "reap"
  /\ \/ \E h \in Clients : /\ handler[h] = "zombie"
                           /\ handler' = [handler EXCEPT ![h] = "reaped"]
     \/ /\ \A h \in Clients : handler[h] # "zombie"
        /\ UNCHANGED handler
  /\ main' = "accept"
  /\ UNCHANGED <<program, silent, up, queue, cfd, peak, fd, buf, clientVars, sockVars>>

\* accept(). Without threads or children main serves the client itself.
Accept ==
  /\ up /\ main = "accept" /\ queue # <<>>
  /\ cfd' = Head(queue)
  /\ queue' = Tail(queue)
  /\ fd' = [fd EXCEPT ![cfd'] = cfd']
  /\ IF program \in Concurrent
       THEN main' = "create" /\ UNCHANGED handler
       ELSE main' = "serve" /\ handler' = [handler EXCEPT ![cfd'] = "read"]
  /\ UNCHANGED <<program, silent, up, peak, buf, clientVars, sockVars>>

\* A failing accept(): ex33 goes on, ex27 too, for it does not look at the
\* result and read() and close() only fail; the others exit.
AcceptFails ==
  /\ "accept_fails" \in Faults
  /\ up /\ main = "accept" /\ program # "ex27"
  /\ IF Forks THEN main' = "reap" /\ UNCHANGED up
              ELSE up' = FALSE /\ UNCHANGED main
  /\ UNCHANGED <<program, silent, queue, cfd, peak, handlerVars, clientVars, sockVars>>

\* Mutant: a failing fork ends the server.
Create_FailExits ==
  /\ up /\ main = "create"
  /\ \/ /\ handler' = [handler EXCEPT ![cfd] = IF Forks THEN "read" ELSE "start"]
        /\ main' = IF Forks THEN "parent" ELSE "accept"
        /\ UNCHANGED up
     \/ /\ "create_fails" \in Faults
        /\ up' = FALSE
        /\ UNCHANGED <<handler, main>>
  /\ UNCHANGED <<program, silent, queue, cfd, peak, fd, buf, clientVars, sockVars>>

\* fork() or pthread_create(); when it fails the connection is closed.
Create ==
  /\ up /\ main = "create"
  /\ \/ /\ handler' = [handler EXCEPT ![cfd] = IF Forks THEN "read" ELSE "start"]
        /\ main' = IF Forks THEN "parent" ELSE "accept"
     \/ /\ "create_fails" \in Faults
        /\ handler' = [handler EXCEPT ![cfd] = "done"]
        /\ main' = LoopStart
  /\ peak' = LET n == Cardinality(Children) + 1 IN IF Forks /\ n > peak THEN n ELSE peak
  /\ UNCHANGED <<program, silent, up, queue, cfd, fd, buf, clientVars, sockVars>>

\* The parent's close(cfd).
ParentClose ==
  /\ up /\ main = "parent"
  /\ main' = "reap"
  /\ UNCHANGED <<program, silent, up, queue, cfd, peak, handlerVars, clientVars, sockVars>>

-----------------------------------------------------------------------------
(* Serving a connection.                                                   *)

\* A thread or main ends with its process, a child alone.
Runs(h) == up \/ Forks
Goto(h, label) == handler' = [handler EXCEPT ![h] = label]

\* Mutant: the thread is given the address of main's client_fd.
Start_SharedArgument(h) ==
  /\ up /\ handler[h] = "start"
  /\ fd' = [fd EXCEPT ![h] = cfd]
  /\ Goto(h, "read")
  /\ UNCHANGED <<program, silent, mainVars, buf, clientVars, sockVars>>

\* The thread takes its descriptor from the ClientArgs main allocated for it.
Start(h) ==
  /\ up /\ handler[h] = "start"
  /\ Goto(h, "read")
  /\ UNCHANGED <<program, silent, mainVars, fd, buf, clientVars, sockVars>>

\* The buffer handler h reads into: each thread has its own, and so has each
\* process.
\* Mutant: the threads share one.
Buffer_Static(h) == 1
Buffer(h) == h

\* The process dies, or the child of it that serves the connection.
Fail(h) ==
  /\ IF Forks THEN Goto(h, "zombie") /\ UNCHANGED up
              ELSE up' = FALSE /\ UNCHANGED handler
  /\ UNCHANGED <<queue, main, cfd, peak>>

\* read() gives the next octets, one or as many as there are, or a part; ex25
\* and ex27 put their text in their place.
ReadOctets(h) ==
  LET k == fd[h]
  IN  \E n \in 1..Len(inbox[k]) :
        /\ n <= Size(k)
        /\ buf' = [buf EXCEPT ![Buffer(h)] = IF FixedAnswer THEN <<Done>>
                                                ELSE SubSeq(inbox[k], 1, n)]
        /\ inbox' = [inbox EXCEPT ![k] = SubSeq(@, n + 1, Len(@))]
        /\ Goto(h, "write")
        /\ UNCHANGED mainVars

\* read() gives 0 when the client is gone: ex22 still answers "?", and ex25
\* its text ...
AnswerInvalid(h) ==
  /\ program \in {"ex22", "ex25"}
  /\ buf' = [buf EXCEPT ![Buffer(h)] = IF FixedAnswer THEN <<Done>> ELSE <<Invalid>>]
  /\ Goto(h, "write")
  /\ UNCHANGED <<mainVars, inbox>>

\* ... the others have nothing to write.
EndOfInput(h) ==
  /\ program \notin {"ex22", "ex25"}
  /\ Goto(h, "close")
  /\ UNCHANGED <<mainVars, buf, inbox>>

\* read() gives -1 when the client's machine reset the connection: ex25, ex32
\* and the child of ex33 exit; to ex27 it is as 0.
ReadFails(h) ==
  /\ Tcp /\ program # "ex27" /\ client[fd[h]] = "killed"
  /\ Fail(h)
  /\ UNCHANGED <<buf, inbox>>

ReadRequest(h) ==
  /\ Runs(h) /\ handler[h] = "read"
  /\ \/ ReadOctets(h)
     \/ /\ inbox[fd[h]] = <<>> /\ hung[fd[h]]
        /\ AnswerInvalid(h) \/ EndOfInput(h) \/ ReadFails(h)
  /\ UNCHANGED <<program, silent, fd, clientVars, outbox, hung>>

\* write() of the answer; ex23 goes on reading. When the client is gone, an
\* AF_UNIX socket raises SIGPIPE, a TCP one may or, before the reset, not.
WriteReply(h) ==
  LET k == fd[h]
  IN  /\ Runs(h) /\ handler[h] = "write"
      /\ \/ /\ ~hung[k] \/ Tcp
            /\ outbox' = [outbox EXCEPT ![k] = IF hung[k] THEN @ ELSE @ \o buf[Buffer(h)]]
            /\ Goto(h, IF program = "ex23" THEN "read" ELSE "close")
            /\ UNCHANGED mainVars
         \/ hung[k] /\ Fail(h) /\ UNCHANGED outbox
      /\ buf' = [buf EXCEPT ![Buffer(h)] = <<>>]
      /\ UNCHANGED <<program, silent, fd, clientVars, inbox, hung>>

\* close(cfd), with which main goes back to accept(), a child exits, and so
\* does ex25, which serves one client only.
Close(h) ==
  /\ Runs(h) /\ handler[h] = "close"
  /\ Goto(h, IF Forks THEN "zombie" ELSE "done")
  /\ main' = IF program \in Concurrent THEN main ELSE "accept"
  /\ up' = (up /\ program # "ex25")
  /\ UNCHANGED <<program, silent, queue, cfd, peak, fd, buf, clientVars, sockVars>>

Server == Reap \/ Accept \/ Create \/ ParentClose
Handler(h) == Start(h) \/ ReadRequest(h) \/ WriteReply(h) \/ Close(h)

\* Nobody at the server's end has connection k open any more.
Closed(k) ==
  \/ ~up
  \/ /\ \E h \in Clients : fd[h] = k /\ handler[h] \in {"done", "zombie", "reaped"}
     /\ ~(main = "parent" /\ cfd = k)

-----------------------------------------------------------------------------
(* The clients.                                                            *)

Ended(c) == client[c] \in {"end", "failed", "killed"}
ClientGoto(c, label) == client' = [client EXCEPT ![c] = label]
HangUp(c, label) == ClientGoto(c, label) /\ hung' = [hung EXCEPT ![c] = TRUE]

\* main of ex33's client: fork() for each client in turn; when one fails it
\* exits, and the children go on.
Launch ==
  /\ launcher = "fork"
  /\ \/ \E c \in Clients :
          /\ client[c] = "none" /\ \A b \in 1..(c - 1) : client[b] # "none"
          /\ ClientGoto(c, "connect")
          /\ launcher' = IF c = NUM_CLIENTS THEN "wait" ELSE "fork"
     \/ /\ "create_fails" \in Faults
        /\ launcher' = "failed"
        /\ UNCHANGED client
  /\ UNCHANGED <<program, silent, mainVars, handlerVars, waited, round, got, sockVars>>

\* waitpid(-1, NULL, 0), once per child: waits until one more has ended.
WaitClient ==
  /\ launcher = "wait"
  /\ waited < Cardinality({c \in Clients : Ended(c)})
  /\ waited' = waited + 1
  /\ launcher' = IF waited' = NUM_CLIENTS THEN "end" ELSE "wait"
  /\ UNCHANGED <<program, silent, mainVars, handlerVars, client, round, got, sockVars>>

\* connect(): waits while the queue is full, fails when nobody listens.
Connect(c) ==
  /\ client[c] = "connect"
  /\ \/ /\ up /\ Len(queue) < BACKLOG
        /\ queue' = Append(queue, c)
        /\ ClientGoto(c, IF c \in silent THEN "silent" ELSE "send")
        /\ UNCHANGED hung
     \/ ~up /\ HangUp(c, "failed") /\ UNCHANGED queue
  /\ UNCHANGED <<program, silent, up, main, cfd, peak, handlerVars, launcherVars, round, got,
                 inbox, outbox>>

\* write() of a message; when the server's end is closed, SIGPIPE, but TCP
\* only answers with a reset.
Send(c) ==
  /\ client[c] = "send"
  /\ \/ /\ ~Closed(c) \/ Tcp
        /\ inbox' = [inbox EXCEPT ![c] =
                       @ \o [n \in 1..Size(c) |-> <<c, round[c] * Size(c) + n>>]]
        /\ ClientGoto(c, "recv")
        /\ UNCHANGED hung
     \/ Closed(c) /\ ~Tcp /\ HangUp(c, "failed") /\ UNCHANGED inbox
  /\ UNCHANGED <<program, silent, mainVars, handlerVars, launcherVars, round, got, outbox>>

\* Mutant: the loop of ex23's client turns once more (i <= nb).
LastRound_OneMore(c) == round[c] >= Rounds
LastRound(c) == round[c] + 1 >= Rounds

\* One read() of the answer, part of it, or 0 when the server has closed;
\* then the next message or close(). A server that closes with octets unread
\* resets a TCP connection, which discards what had arrived: -1. The client
\* of ex23 does not look at the result and displays a variable never set.
Receive(c) ==
  /\ client[c] = "recv"
  /\ \/ /\ \/ \E n \in 1..Len(outbox[c]) :
                /\ n <= Size(c)
                /\ got' = [got EXCEPT ![c] = @ \o SubSeq(outbox[c], 1, n)]
                /\ outbox' = [outbox EXCEPT ![c] = SubSeq(@, n + 1, Len(@))]
           \/ /\ outbox[c] = <<>> /\ Closed(c)
              /\ got' = [got EXCEPT ![c] = IF program = "ex23" THEN Append(@, Unset) ELSE @]
              /\ UNCHANGED outbox
        /\ round' = [round EXCEPT ![c] = @ + 1]
        /\ IF LastRound(c) THEN HangUp(c, "end")
                           ELSE ClientGoto(c, "send") /\ UNCHANGED hung
     \/ /\ Tcp /\ Closed(c) /\ inbox[c] # <<>>
        /\ HangUp(c, IF program = "ex27" THEN "end" ELSE "failed")
        /\ UNCHANGED <<got, outbox, round>>
  /\ UNCHANGED <<program, silent, mainVars, handlerVars, launcherVars, inbox>>

Interrupt(c) ==
  /\ c \in Unruly /\ client[c] \in {"send", "recv", "silent"}
  /\ HangUp(c, "killed")
  /\ UNCHANGED <<program, silent, mainVars, handlerVars, launcherVars, round, got, inbox,
                 outbox>>

Client(c) == Connect(c) \/ Send(c) \/ Receive(c)

\* The server waits for clients in accept(), or is gone; or it is held up by
\* a client that never writes.
Idle ==
  /\ \/ up => main = "accept" /\ queue = <<>>
     \/ main = "serve" /\ client[cfd] = "silent"
  /\ launcher # "fork" /\ (launcher = "wait" => \E c \in Clients : ~Ended(c))
  /\ \A h \in Clients : Serving(h) /\ Runs(h) => client[fd[h]] = "silent"
  /\ UNCHANGED vars

Next ==
  \/ Server \/ AcceptFails
  \/ Launch \/ WaitClient
  \/ \E h \in Clients : Handler(h)
  \/ \E c \in Clients : Client(c) \/ Interrupt(c)
  \/ Idle

Spec == Init /\ [][Next]_vars

\* The processes and threads keep running; the user need not interrupt, and
\* accept() does not fail for ever.
FairSpec ==
  /\ Spec
  /\ WF_vars(Server) /\ SF_vars(Accept)
  /\ WF_vars(Launch) /\ WF_vars(WaitClient)
  /\ \A h \in Clients : WF_vars(Handler(h))
  /\ \A c \in Clients : WF_vars(Client(c))

-----------------------------------------------------------------------------
\* Whatever serves it, a client displays answers to its own octets, from the
\* first one on and in order, never another client's; and what it displays
\* is an answer unless the server's end was closed.
OwnEcho ==
  \A c \in Clients : \A n \in 1..Len(got[c]) :
    \/ got[c][n] = IF FixedAnswer THEN Done ELSE <<c, n>>
    \/ got[c][n] = Unset /\ Closed(c)

\* A client that goes away, and a fork that fails, never end the server of
\* ex33: "on continue plutot que de quitter" (line 59), and only the child
\* dies of a broken connection.
ForkingServerSurvives == Forks => up

\* "Nettoyage des processus enfants termines (evite les zombies)" (line 52):
\* one waitpid() per turn is enough, for the children not waited for are
\* never more than those that once ran at the same time, plus one.
ZombiesBounded ==
  Cardinality({h \in Clients : Forks /\ (Serving(h) \/ handler[h] = "zombie")}) <= peak + 1

\* With threads or children a silent client keeps nobody else waiting; where
\* main serves the clients itself, they all end if none is silent. So does
\* ex33's launcher, having waited for each of its clients.
Served ==
  <>[](/\ \A c \in Clients :
            /\ program \in Concurrent \/ silent = {}
            /\ client[c] # "none" /\ c \notin silent
            => Ended(c)
       /\ launcher \in {"end", "failed"} \/ silent # {})
=============================================================================
