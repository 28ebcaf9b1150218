# Formal models of the system and network programming exercises

The repository is a course in C: processes, threads, files and sockets, one
directory per exercise. Most programs are short; the ones worth a model are those
where several threads, processes or machines meet. This directory holds TLA+ models
of them, the TLC configurations that check the models, and TLAPS proofs of what
matters most for every value of the constants.

`tlc -config X.cfg M` checks module `M`; `tlapm MProofs.tla` checks the proofs about it.

## 1. Inventory

| Component | State | Operations | Interaction | What is hard | What makes it correct |
|---|---|---|---|---|---|
| **File server** `ex24_fileServer/server.c` | `file_locks` with its `table_mutex`, one mutex per entry, the files of `FILES_DIR`, one thread per connection | accept loop, `get_file_lock`, `op_create`, `op_read`, `op_append` | stream sockets with clients, files shared by threads | two-level locking, early returns with a mutex held, a table that fills, SIGPIPE, death and restart, two `write()` per line | one mutex per file, whole lines, what a client was told stays true, everybody is answered |
| **File client** `ex24_fileServer/client.c` | position in the demo script, response read so far | connect, write, read until a marker or the end | the server | decides from one block whether the response is complete | reads its response to the end |
| **Bounded buffer** `ex16_cond_wait/main.c` | ring, `in`, `out`, `count`, a mutex, two condition variables | put, take | producer and consumer thread | lost wakeups, spurious wakeups, wrap-around | a FIFO channel, both loops end |
| **Shared list** `ex19_linkedList/main.c` | list, `tail`, a mutex | `list_add`, `list_size`, `liste_get` | producer, polling consumer, main | link and count are two writes; the loop bound; a producer that gives up | no node missed or read twice, the program ends |
| **Odd-even sort** `ex20_sort/main.c` | `arr`, `total_swaps`, the iteration's flag, two mutexes | iterations of one thread per pair | main and threads share `arr` without a lock, threads use main's stack | disjointness of pairs, joins, the counter | sorted within N iterations, swaps counted |
| **Thread exercises** `ex18_incr`, `ex15_mutex`, `ex17_deadlock`, `ex14_threads` | `counter`, one or two mutexes | increment with or without the mutex; lock two mutexes in opposite orders | threads, main's joins | lost updates, the deadlock, `pthread_create` failing half-way | exact with the mutex, bounded damage without, no deadlock but ex17's |
| **Sequential stream servers** `ex21_connexion`, `ex22_datas`, `ex25_example`, `ex27_tcp`, `ex32_devoir0` | listen queue, the connection being served | accept, read, write, close; ex25 serves one client and ends | AF_UNIX or TCP sockets | silent or vanishing clients, resets, unchecked results | own answers, everybody served if nobody is silent |
| **Threaded server** `ex23_concurrencyServer` | the same, a thread per client with its `ClientArgs` | accept, `pthread_create`; rounds of one character | the same | thread arguments, a buffer per thread | own answers, no waiting for a silent client |
| **Forking server** `ex33_devoir1` | the same, children | `waitpid`, accept, fork; the client forks and waits for its processes | the same | zombies, two descriptors of one connection, failing fork and accept | the parent survives, few zombies |
| **UDP echo** `ex26_udp`, `ex29_prbl1` (servers), `ex26_udp`, `ex31_prbl3`, `ex30_prbl2` (clients; constants in `ex28_prbl0`) | the server's `claddr` and `buf`; the client's place in its arguments | send, receive, echo; netcat's timeout | datagrams | loss, duplication, reordering, a server that is not there yet or any more, a buffer filled to its end | echoes of one's own messages and, in ex26 and netcat, of the last one; the `'\0'` inside the buffer; only losses keep a client waiting |
| Processes `ex07`-`ex13` | none | one fork, wait, pipe, exec or dup2 each | parent and child | order of outputs | not modelled |
| File I/O `ex00`-`ex06`, algorithms `ex34` | none | straight-line system calls; loops over arrays and trees | | | not modelled |

The hazards, each with its source line and the properties that would catch it, are
listed in `PROJECT.json`.

## 2. Modules

| Module | Models | Used by |
|---|---|---|
| `FileServer` | the server process, its threads, the files, the kernel side of the sockets | `FileService` |
| `FileService` | the clients, composed with `FileServer`; all properties of the file service | `MCFileService`, `FileServiceProofs` |
| `FileStore` | abstract specification: every command takes effect at one instant | `FileService!Store` |
| `MCFileService` | the command scripts of the clients | TLC |
| `FileServiceProofs` | proofs: types, the table and the mutexes | `FileLinesProofs` |
| `FileLinesProofs` | proofs: lines, CREATE, what clients were told, survival, the refinement of `FileStore` | TLAPS |
| `BoundedBuffer`, `BoundedChannel`, `BoundedBufferProofs` | the ring buffer, the abstract FIFO channel it implements, the proofs | TLC, TLAPS |
| `SharedList`, `SharedListProofs` | the list with its three threads, the proofs | TLC, TLAPS |
| `OddEvenSort`, `OddEvenSortProofs` | main, `iterate` and `compare_pair`, the proofs | TLC, TLAPS |
| `SharedCounter`, `SharedCounterProofs` | the thread exercises ex14, ex15, ex17 and ex18, the proofs | TLC, TLAPS |
| `StreamServers`, `MCStreamServers`, `StreamServersProofs` | the seven echo servers over stream sockets and their clients, the message lengths, the proofs | TLC, TLAPS |
| `DatagramEcho`, `MCDatagramEcho`, `DatagramEchoProofs` | the UDP programs over an unreliable network, the arguments, the proofs | TLC, TLAPS |

### From code to model

*File service.* A connection `<<c, i>>` carries the i-th command of client `c` and
names the thread that serves it. `pc[k]` is the place of that thread in the code:

    read -> table -> search -> insert -> lock -> open -> block | data, nl -> ok | err -> unlock -> close

`GererClient` is the read and dispatch of `gerer_client`/`traiter_commande`;
`LockTable`, `SearchTable`, `InsertEntry` are `get_file_lock`, `LockFile` and
`UnlockFile` the file's mutex, `OpCreate`, `OpOpen`, `OpAppendData`,
`OpAppendNewline`, `OpReadBlock`, `OpReadEnd` the system calls of the operations.
Each system call and each mutex operation is one step, so that anything may happen
in between. `Die` is what the death of the process does; `SigPipe`, `Kill` and a failing
`accept()` (`AcceptFails`) cause it, and `Boot` is the next `main`. A file is a sequence of tokens: an append's data is
one token and its newline (`NL`) another, for they are two `write()` calls. `Stored[f]` is
path `f` as `strncpy` leaves it in the table. A response is a sequence of tokens on
`wire`, of which the client has read `nread`; `ReadReply` takes any part of it and
applies the client's `strstr` test to that part only. `Existing` are the files an earlier run
left, `FullFiles` those on which `write()` may fail, `Mortal` the clients that may be interrupted, and
`Faults` lists the calls that may fail: `accept`, `open`, `pthread_create`.

*Bounded buffer.* Both threads share the actions; `MustWait(t)` is the condition they
wait for. `pthread_cond_wait` releases the mutex and blocks in one step, `Signal` wakes the other
thread, `WakeSpuriously` wakes it unasked. `count++` and `count--` are a load and a store.

*Shared list.* The list is the sequence of the values reachable from `head`; linking and
counting a node are two steps, and in `--no-mutex` mode they may be seen in either
order. The consumer's calls of `list_size` and `liste_get` are critical sections of their own.

*Sort and counter.* Every read and write of a shared variable is a step, as the
unoptimised x86 build does them; `total_swaps++` and `counter++` are a load and a store. The
data race of `ex18` without `--mutex` is modelled as the interleavings of these
loads and stores. `program` tells the four thread exercises apart: ex15 is ex18 with two threads and the
mutex, the threads of ex14 share nothing, and those of ex17 take the mutexes `"A"` and `"B"` in opposite orders (`LockInTurn`).

*Stream servers.* `program` is the program that runs; the programs differ in who serves
a connection and in what they do when the client is gone. `Closed` knows that a forked
connection has two descriptors. A thread's `Start` is where it takes its argument. `launcher` is main of ex33's
client, which forks the clients and waits for each. `create_fails` and `accept_fails` are the calls that may fail. A client that
was interrupted resets a TCP connection, which `read()` at the other end reports as an
error, and a write to it may or may not raise SIGPIPE; on an AF_UNIX socket it always does.

*Datagrams.* `net` is the bag of all datagrams in flight or in a socket's queue, so they arrive in any
order; `Lose` and `Duplicate` take one out or put one more in. `held` is the server's `claddr` and `buf`. A
datagram carries the address of the client it comes from or goes to, which message it is and its length; `Kept` cuts the length to what
`recvfrom` is given room for. Each `nc` of the script has a port of its own, and what reaches a closed port
disappears. With `io_fails`, `bind`, `sendto` and `recvfrom` may fail, and each program goes on or exits as it does in the code.

## 3. Runs

| Run | Question | Bounds, and why they are enough |
|---|---|---|
| `service` | Is the server safe, live and atomic when nobody fails? | Two clients, one file, three commands each: both create it and append to it, one reads it, one sends an append without data. Two creators, two writers and a reader overlap in every order. `SOCK_BUF = 2` makes `write()` block, `BLOCK = 2` takes more than one read for the file. |
| `crash` | Does what clients were told survive deaths, restarts, SIGPIPE, failing threads, a full table, a full disk, interrupted clients, and is every command still atomic while two clients append to one file? | A kill or a failing accept while the server has not died before, and any SIGPIPE. Client 1, which may be interrupted, also in the middle of its READ, appends to `f1` and reads it back; client 2 tries to create `f1`, which exists, appends to it too and then to `f2`, whose disk is full. The four `write()` of the two appends to `f1` may come in any order the mutex allows, the server can end between any two of them, and then the append that comes next meets a torn line. `MAX_FILES = 1` with two files: the table overflows. Left to the proofs (`StoreCorrect`, `CreateCorrect`), for the states would be too many: a failing `open()`, and a death during a CREATE that makes its file; the run `service` has such CREATEs without deaths. |
| `long_name` (violated) | Is there one mutex per file for paths of any length? | Two clients with one APPEND to one file each. `Stored` truncates: the entry is never found again, each gets an entry of its own and both are inside `op_append` at once. |
| `disk_full` (violated) | Is "OK" true on a full disk? | One client suffices. |
| `early_stop` (violated) | Does the client read its response to the end? | One line whose text contains a marker. |
| `buffer` | The ring buffer | `TAILLE` and the ten items of the code itself; three spurious wakeups, one more than there are threads. |
| `list` | The shared list in both modes, producer failing or not | Three nodes of two values: the list is empty of unread nodes, one behind and two behind. |
| `list_last_node` (violated) | Does the consumer read all nodes? | same |
| `sort` | Sorting under all interleavings | Six cells: three threads at once in even iterations. Values 1 and 2 are enough by the 0-1 principle: a network of compare-exchange operations that sorts all arrays of two values sorts all arrays. |
| `counter` | The thread exercises in both modes, creation failing or not | Three threads, two increments: the smallest size at which the race can leave 2 of 6. |
| `servers` | The seven stream servers | Three clients, the least for zombies to pile up; client 1 may be silent, interrupted, or have its message read in two parts; two rounds in `ex23`; fork, `pthread_create` and accept may fail. |
| `datagrams` | Both UDP servers with two clients of any of the three kinds | Arguments `<<1, 2>>` and `<<0>>` with buffers of 2: an argument that fits, one that fills the buffer, and an empty one. For each client one datagram may be lost and one duplicated: a duplicate of the first echo can meet the second message. |

Bounds in the guards: `MAX_DEATHS` (deaths of the file server after which it is neither killed nor has a
failing accept), `MAX_SPURIOUS` (spurious wakeups), `Unruly` (the stream clients that may misbehave), `MAX_LOST` and
`MAX_DUPS` (datagrams lost and duplicated per client). All else is finite in the programs. The limits are part of
the guards, so the theorems hold for every value of them.

Deadlock is checked in all runs but `datagrams`: a UDP client really may wait for ever for
a lost datagram. In the other modules a step that changes nothing marks the states in which the program has ended or
waits for its user (`Idle`, `Finished`), so that any other stop is reported. In ex17 this step also
allows the deadlock the exercise is about, and `Terminates` says that nothing else stops it.

### What the runs show

The file service keeps its promises in the normal case: the table never has two entries for
a file, the file's mutex excludes, lines stay whole, nobody waits for ever, and the
whole implements `FileStore`, in which each command is atomic (`Linearizable`, a
refinement with liveness: the response of `k` is decided at the step that reaches
`ok`, `err` or the first block of a read). When the server may die and disks may be full it still implements `FileStore` on the other files (`Durable`, the
same refinement without the liveness): `Crash` closes every connection that has sent a command, so that a command not decided by then never
takes effect; a file may keep the first half of an append that was not answered, and of a response stays what was written. Across deaths and restarts acknowledged lines stay, each death tears at most one line, and a complete READ is a prefix of the file that
holds what the same client was told.

Three disagreements between the file programs' comments and the code, and one in the list, are kept as violated runs:
a path longer than 255 characters has no mutex of its own, but a new one per call
(`long_name`); `op_append` ignores failing writes and answers `OK` (`disk_full`); the client stops
at the first block that contains a marker, the file's own text included
(`early_stop`); the list's consumer does not read the last node (`list_last_node`).

The ring buffer is a FIFO channel with spurious wakeups included. The list's consumer
reads nodes in order and none twice, and main's last display is the whole list, of which the consumer has displayed all but the
last node at least. In `--no-mutex` mode none of this is claimed: the program says itself that pointers may be corrupted
(`main.c:9-10`, `main.c:173-174`), and the data race is undefined behaviour, of which the model has one outcome only, the two writes of
`list_add` in either order. Of that mode the run only shows that the indices stay in range and that the threads end, as long as that is all that happens. The sort sorts within N iterations, and the swaps counted are the array's
inversions. The forking server survives every client; its children that were not waited for are
never more than once ran at the same time, plus one.

A UDP client displays echoes of its own messages only. ex26 and netcat never take an old echo for
the answer to a new message: each `nc` has a port of its own. ex31 may after a duplication, since it does not compare the
echo with what it sent, and then stays one behind. A client that waits for ever has lost a datagram, has met a server
that failed, or has sent ex26's server an empty one, which it does not answer. `buf[numRead]` is inside `buf` but for one case: an
echo that fills the buffer of ex31's client, which takes an argument as long as `BUF_SIZE`; in the
build looked at, unoptimised x86-64, the octet after `buf` is padding, so the client goes on.

### Fairness

Threads and processes are scheduled: weak fairness of each one's steps. A mutex is no
queue, so a thread may be overtaken; but in these programs a mutex is taken finitely
often (each connection carries one command, loops are bounded, spurious wakeups are bounded), so in the end
the thread gets it and weak fairness suffices. The exception is `SharedList`,
whose consumer polls for ever: strong fairness of producer and consumer, for the consumer
sleeps outside of the mutex on every pass. ex33's `accept` may fail any number of times, but not for ever: strong
fairness of `Accept`. Faults, kills, interrupts, spurious wakeups, losses, duplications
and restarts have no fairness.

## 4. Proofs

Every theorem holds for all values of the constants that satisfy the module's assumption. For each module the proof has the
same shape: an inductive invariant `I` with `Init => I` and `I /\ [Next]_vars => I'`, one lemma per part that a step can
disturb and under it one step per action.

**`FileServiceProofs`** (any number of clients, commands, files, table entries, any block and buffer size, any faults):

- `TypeCorrect`: `TypeOK`. Inductive with `OpenInv` (a thread that reads or writes a file has found
  it, and no step removes a file) and `ConnInv` (a client is at a command it has).
- `EntriesCorrect`: `LocksOwnFile`, the entry a thread got stays its file's, and every locked mutex is held by a thread
  that still works under it (`HoldersProceed`): no early return, death or restart leaves one locked.
- `TableCorrect`: `OneEntryPerFile` if no path is truncated.
- `MutexCorrect`: `FileMutex` if no path is truncated. The `long_name` run shows that the
  hypothesis is needed.

The last three rest on one inductive invariant. `QueueInv`: a queued connection has no
thread yet and is queued once, so `Accept` starts one thread for it. `LockInv`: a thread past
`get_file_lock` has a slot (`OwnInv`) whose entry is its file's (`EntryInv`); a
thread inside holds `table_mutex`, and if it is about to insert, no entry matches
(`TableInv`): that is what keeps two threads from inserting the same file; a thread past the lock
holds the mutex of its slot (`HeldInv`), and conversely the holder of a mutex is such a thread (`HolderSteps`).
The holder of a file's mutex never waits for `table_mutex`, so no two threads wait for each other. Exclusion follows: same file, same
entry, same mutex, same thread. None of these facts survives a step alone.

**`FileLinesProofs`** builds on it:

- `LinesCorrect`: `WholeLines` if no path is truncated (`PathsFit`). `LineInv(f)` counts the lines without an end: at most one per death,
  and one more while a thread is between its two writes (`AtEnd`). `FileMutex` is what makes that thread unique, so that the end it
  writes follows its own data. Appending is the only change to a file, and the lemmas on `Open` say
  what a token more does to the count.
- `CreateCorrect`: `CreateOnce` (at most one CREATE of a file is ever told `OK`), for any paths and full disks. Only a CREATE that made the file reaches `ok`, no step removes a file, and no
  two CREATEs can have made it.
- `AckedCorrect`: `AckedKept` if no path is truncated. `KeptInv` counts, for every line, the appends past their second write (`Told`)
  against the copies of the line in the file (`LinesOf`); a death stops threads but leaves both counts.
- `ReadsCorrect`: `ReadConsistent` if no path is truncated. `CopyInv`: what was written to a client is the beginning of its file, up to `off`
  during the READ, and a marker is the last token written (`Copied`). Files only grow (`Grew`), so this stays true after the READ.
  `FoundInv`: from the moment a READ reaches its end, its answer holds the lines its client was told of before, which rests on `KeptInv` and on the
  order of one client's commands (`Earlier`).
- `SurvivalCorrect`: `ServerSurvives` while nobody is killed, `accept` works and no data holds a marker (`Peaceful`). `SurviveInv`: when a
  client's end is closed, its thread has written its last; the client closes on a marker, which by `CopyInv` nothing follows. The `early_stop` run shows why the data matters.
- `StoreCorrect`: `Durable` if no path is truncated (`Ample`), whatever dies, fails or is interrupted, for the files whose disk is not full
  (`SoundFiles`) and the connections about them (`SoundConns`); by `FullStore` the threads at work on the others change nothing of it. The conjunct `CanCrash`
  of `Crash` makes it the safety part of `Linearizable` where nothing can end the server. `ThreadStore`
  goes through the thread's steps: those to `ok`, `err` and the first block are `FileStore`'s `Create`, `AppendLine`, `Read` and `Reject`, all
  others but `close()` stutter. `ThreadFrame` shows that a step changes no other thread's response, since a file that is read is not written (`FileMutex`);
  `AskInv`, that only commands that were sent are answered; `HalfLine`, that an append is seen at its second write only. `FullTable` counts:
  by `NamedInv` and `OneEntryPerFile` a full table stands for `MAX_FILES` files of commands, so an ERROR for want of an entry means that
  there are more. `CloseStore` needs that a thread closes no connection without an answer but that of a client that left without sending
  (`ReplyInv`), and for this that a client that has closed its end is through with the connection (`HungInv`). `CrashStore` is the death:
  a connection with a command on it is queued or has a thread (`SentInv`), so it is closed; the half line that shows is the last token of its file
  (`KeptInv`), by a thread that has answered nothing; what was written to a client is the beginning of its response (`WirePart`). On the
  full disk itself the promise is not kept, as the `disk_full` run shows.

**`BoundedBufferProofs`** (any `TAILLE`, `ITEMS` and `MAX_SPURIOUS`): `TypeCorrect`
(`count` stays in 0..TAILLE), `OrderCorrect` (`InOrder`), `RingCorrect` (`NeverOverrun`),
`WakeupCorrect` (`NoLostWakeup`) and `ChannelCorrect`, the safety part of `IsChannel`. The
invariant behind them has four parts. `MutexInv`: whoever is between lock and unlock owns
the mutex. `LoopInv`: a thread that runs has a turn left, so an item never exceeds `ITEMS`.
`CountInv`: `count` is what both threads have added and taken out, the register of a thread about
to store is still `count`, and a thread let through still need not wait; without the last part
`count` could leave 0..TAILLE. `RingInv`: the slot `n` places after `out` holds the `n`-th
item under way, and `in` is the slot after the last. Indices step around the ring
with `Wrap`, a subtraction in place of `%`, which `WrapMod` shows to be the same. `Distance` draws
the bounds from these parts, and `StepRefines` maps a put to a send, a take to a receive and
everything else to a stutter.

**`SharedListProofs`** (any number of nodes, any values): `TypeCorrect`, `OrderCorrect` (`ReadsInOrder`), `TailCorrect` (`TailMatches`)
and `DisplayCorrect` (`ShowsAll`), the last three with the mutex. `ProdInv` ties the length of the list and `tail` to the nodes the producer has linked and
counted; `ConsInv` keeps the consumer below the size it was told and ends it only after `NB_AJOUTS` nodes; `MutexInv` says which sections hold the mutex and that with it
the producer links before it counts; `LookInv` then bounds what the consumer was told by the nodes that are linked; `MainInv`
puts the display after both threads. The list only grows, so what was read is still its beginning: at the end, all of it but for the last node at most.

**`SharedCounterProofs`** (any numbers of threads and increments): `TypeCorrect`, `MutexCorrect` (`CorrectWithMutex`) and
`RaceCorrect` (`RaceBounds`). `CountInv` bounds the counter and every register by the set of increments stored so far, and with the
mutex makes the counter exactly as many. The lower bound is `LowInv`: the counter falls back only to 1 and only by a
thread's first store, so while it is 1 some thread has stored just once, and at the end none has.

**`OddEvenSortProofs`** (any array of any size): `TypeCorrect`, `CellsCorrect` (`NoSharedCell`), `JoinCorrect` (`ThreadsEndFirst`),
`ValuesCorrect` (`Rearranged`) and `SwapsCorrect` (`CountsSwaps`). `PhaseInv`: the threads of an iteration all have left cells of
its parity, so their pairs are disjoint, and none is alive between iterations. The values are those of `Settled`, the array with the swaps
under way finished: in it a swap is one step, and `SwapInv` ties each thread's hands to it. `SwapCounts` shows with a bijection of positions that an
exchange keeps the number of each value, and `SwapInversions` with one of pairs of positions that exchanging a descending pair of
neighbours removes exactly one inversion. `SwapsInv`: `total_swaps`, the swaps done but not yet counted, and the inversions left
add up to the inversions of the input; `MutexInv` protects the load and store of `total_swaps`.
`ConvergeCorrect` (`Converges`) is that the iterations sort within `ARRAY_SIZE` rounds. `Advanced(f, r)` is the 0-1 argument as an invariant: for
every threshold `t`, call the cells above `t` ones; of `m` ones the `k`-th from the right waits at most for the `k - 1` before it
and then moves one cell per iteration, so that after `r` iterations it has reached a cell that depends only on `m`, `k` and `r`. It holds of any array for
`r = 0` (`AdvancedStart`), a whole iteration of the right parity takes it from `r` to `r + 1` (`AdvancedStep`), and after `ARRAY_SIZE` iterations
it leaves no descending neighbours (`AdvancedEnd`). `Exchange` is what the iteration makes of the array at once; the threads do it
in any order, so `ConvInv` says that what they are still to make of `Settled` has advanced already: a thread's swap leaves `Exchange(Settled, Debut)` as it is
(`ExchangeSwap`), and when all are joined nothing is left to exchange (`ExchangeFixed`). `PairDone` ties the pairs that are in order to main's loops.

**`StreamServersProofs`** (any clients, rounds, lengths, faults, unruly clients, all seven programs): `SurvivalCorrect`
(`ForkingServerSurvives`), `ZombiesCorrect` (`ZombiesBounded`), `EchoCorrect` (`OwnEcho`) and `TypeCorrect`, in which `RangeInv` bounds
`peak` (each child serves a connection of its own), `waited` and the rounds (a client that goes on has one left). `ForkInv` counts ex33's children around its loop:
`waitpid` either took one, or all that were not waited for are running, and then `peak` bounds them; `AcceptInv` says that the
descriptor a child gets is a client's. `StreamInv` follows the octets: of a connection, what was displayed, what is on its way
to the client, what is in the buffer of its handler and what is on its way to the server follow one another without gap or
repetition (`EchoInv`), each handler works on its own connection (`DataInv`), and a handler serves while its client's descriptor is open
(`LifeInv`, `MainInv`). After the server has closed, the octets of ex23's client are spoiled by the variable it never set.

**`DatagramEchoProofs`** (any clients, arguments and buffer size, any number of losses and duplications, failing calls):
`TypeCorrect`, `StepCorrect` (`InStep`) and `TerminatorCorrect` (`TerminatorInside`). `NetInv`: a datagram in flight carries a message
of the client whose address it has, no longer than it was sent, and for `nc` has the port of the `nc` that sent it; an echo
of ex26's server is shorter than the buffer. `HeldInv` says the same of what the server has in its buffer. `CopyInv`:
as long as none of its datagrams was duplicated, of a client of ex31 at most one message or echo exists, in the network
or held by the server; it is that of the argument the client waits for, and there is none while it is about to send. That is why ex31 may do
without numbering its messages, and why one duplicate is enough to put it out of step.

Assumptions: the named `ASSUME` of each module (`ServerAssumption`, `ClientAssumption`, `BufferAssumption`,
`ListAssumption`, ...), which TLC evaluates in the runs. The one that is not plain typing says that truncating a path twice is truncating it
once.

Only model-checked:

- liveness (TLAPS 1.4.5 does not treat fairness and `ENABLED`): `AllServed`, `IsChannel`'s fairness part, `Stops`,
  `Terminates`, `Served`, `Answered`;
- the fairness part of the refinement of `FileStore` (`Linearizable`).

## 5. Not modelled

- Formatting, logging, messages on the terminal; the parsing of a command is reduced to the kinds
  `traiter_commande` tells apart.
- `malloc` failing; `pthread_create` failing in the list and the sort.
- Buffer sizes in octets, except in `DatagramEcho`: the stream programs write `buf[numRead]` too (`ex25`, `ex32`, `ex33`), and
  their models have no buffer that fills.
- ex00 to ex06: sequences of `open`, `read`, `write`, `lseek` and their stdio forms by one process on its own file; a model would restate
  each call. ex07 to ex13: one `fork`, `wait`, `pipe`, `exec` or `dup2` each; parent and child share nothing a step of one could
  spoil for the other.
- ex34: loops over fixed arrays and trees that print what they compute; the tree exercise (`ex9.c`) lacks the body of its
  allocation function, so there is no behaviour to state.

## 6. Plan

Done, in this order: `FileServer`, `FileService`, `FileStore` and their proofs; `BoundedBuffer` with `BoundedChannel`;
`SharedList`; `OddEvenSort`; `SharedCounter` with ex14 and ex17; `StreamServers` with ex25, ex27, ex33's launcher and failing `accept`;
`DatagramEcho`; deaths by failing `accept`, full files and a full table in the file service; the proofs about lines and
acknowledgements, reads and the atomic store, the list, the counter, the sort, the stream servers and the datagrams.
