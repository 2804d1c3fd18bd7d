# Verification of Mastering-Multithreading-and-IPC-in-C

TLA+ models of the synchronisation primitives and programs of this repository, the TLC
configurations that check them on small instances, and TLAPS proofs of what must hold for every
number of threads.

The repository is a course: two dozen directories, each a small C library or program. The ones
that carry logic are the primitives built on a mutex and condition variables (11, 12, 13, 15, 17),
the programs built on shared state (9, 10), a linked list (5) and the servers on sockets (21, 22,
22.5, 7, 23). Nothing is persistent but the message queue of the kernel, which outlives its
processes; a killed client, a cancelled thread and a restarted receiver are the failures that matter.

## The system

| component | source | state | operations | what is hard | what makes it correct |
|---|---|---|---|---|---|
| counting semaphore `sema_t` | `12.Semaphore/sema.c` | counter, mutex, cv | init, wait, post, destroy, getvalue | barging, lost wakeups | no permit twice, none idle while somebody sleeps unattended; it is a counting semaphore |
| recursive mutex `rec_mutex_t` | `13.Recursive Mutex/rec_mutex.c` | owner, 16 bit count, mutex, cv | init, lock, unlock, destroy | barging, nested locks, foreign unlocks, overflow | one holder, asserts blame the caller, no waiter stranded |
| reusable barrier `th_barrier_t` | `11.Thread_Barrier/threadbarrier.c` | count, open flag, mutex, two cvs | init, wait | immediate reuse, relay of single signals | full batches only, nobody overtakes or is forgotten |
| thread pause | `15.Thread Pause/thread_pause.c` | request flag, mutex, two cvs | init, pause, resume, test-and-pause, destroy | two-way handshake, several controllers | a returned pause holds the worker, a resumed worker runs |
| one-lane bridge | `17.Bridge Problem/bridge.c` | two wait counts, cars, direction, mutex, two cvs | init, enter, exit, destroy | stale counts, handover, newcomers | one direction, at most three, nobody stranded |
| ring queue | `9.Producer_consumer/Queue.c` | slots, front, rear, count | init, enqueue, deque, full, empty, print | wrap-around, the last element | a bounded FIFO queue |
| producers and consumers | `9.Producer_consumer/Assignment.c` | the queue, mutex, two cvs | four endless threads | broadcasts outside the waits | queue handed over full or empty, in order, for ever |
| dining philosophers (two solutions) | `10.Dining Philosopher/*.c` | per spoon: mutex, cv, marks | take both, eat, put back | lock order, trylock, sleeping on another's cv | nobody blocks holding a spoon; somebody eats |
| doubly linked list | `5.Doubly Linked list/DLinkedL.c` | nodes, head, tail, size | insert, remove, get, find, clear | sequences of calls at the ends | links mirrored, no leak; it is a sequence |
| routing table server and client | `22.5. Socket Project (Routing Table Project)` | slots, fd sets, buffer | select, accept, answer, echo | many clients on one thread, killed clients, leftovers in the buffer | who is answered is served and gets its echo |
| select server | `22. Socket (Multiplexing) Select` | slots, fd sets | select, accept, read | slots never freed, clients that vanish | who is watched has a slot; newcomers are still reached |
| stream servers (four pairs) | `21.Sockets`, `7.Listener_threads` | a thread and a connection per client | accept, create, read until the last line, answer, join | handing a connection to its thread, one failing session ends all, strings that run together | sessions apart, only a killed client ends the server, sessions end |
| thread cancellation | `6.Thread Cancellation - Asynchronous` | the shared numbers, per thread a name, a file and its handlers | create, write for ever, cancel, unwind | a cancellation between any two calls | nothing released twice, nothing of a writing thread left |
| mutex demos | `8.Mutexes` | an array | swap, sum | torn sums | which sums can be printed |
| message queue | `23. Message Queue` | queue in the kernel, a buffer | open or create, send, receive, print | who creates the queue, receivers killed and restarted | if the receiver comes first messages get through, in order, none twice |
| serialization buffer | `14.TVL` | growing buffer, one cursor | init (two), serialize, deserialize, copy in by offset, empty test | doubling, one cursor for both ways, negative arguments | no copy leaves the buffer unless its caller passes something negative |
| semaphore demo, thread basics, buffers, offsets, signals | 12 `main.c`, 1, 2, 3, 4, 24, `main.c` | none shared | print and sleep | - | not modelled |

Interaction is by shared memory inside a process (threads around one struct), by one stream
per client between server and clients, and by the kernel's queue between senders and receiver. There are no callbacks beyond the list's `cmp` and
`printData`. `PROJECT.json` lists every hazard at its line with the properties that catch it, or a note where the code has the defect and no property can hold.

## The modules

| module | what it is |
|---|---|
| `PThreads` | the external part: threads, who sleeps on a condition variable, what signal and broadcast do. A signal wakes any one sleeper, or nobody when there is none; woken threads must get the mutex again |
| `Semaphore`, `RecMutex`, `ThreadBarrier`, `ThreadPause`, `Bridge`, `Dining` | one per component, over `PThreads` |
| `RingQueue`, `ProducerConsumer` | the queue, and the program that EXTENDS it: an action of a producer is `enqueue` plus its place in the loop |
| `DoublyLinkedList` | the list at the grain of a call, with nodes on a heap |
| `RoutingServer` | the two `select()` servers (22 and 22.5) and their clients; the variable `program` says which pair runs |
| `StreamServers` | the four pairs with a thread per connection; `program` says which |
| `Cancellation`, `ArraySum`, `MessageQueue`, `SerialBuffer` | one small program each |
| `CountingSemaphore`, `AbstractBarrier`, `BoundedFIFO`, `AbstractList` | what `Semaphore`, `ThreadBarrier`, `RingQueue` and `DoublyLinkedList` are shown to implement |
| `SmallPrograms`, `Servers` | compositions of machines that have nothing to do with each other: the list with the four small programs, and both kinds of servers. They give every machine its own variables and its constants their assumptions, so that one run and one module of proofs answer for all of them |
| `MC...` | instances for TLC. In those of the two compositions the first state picks the machine that moves |
| `SemaphoreProofs`, `RecMutexProofs`, `ThreadBarrierProofs`, `ThreadPauseProofs`, `BridgeProofs`, `ProducerConsumerProofs`, `ServersProofs` | theorems and proofs of the components they are named for |
| `ProgramProofs` | theorems and proofs of the programs that stand alone: the list and the small programs, and the philosophers |

**State.** The variables have the names of the C fields. `pc[t]` is the place of thread t in the
C code; the header of each module lists its labels. A mutex is its owner; a condition variable is
the set of threads whose `pc` is the label of its wait. Ghost variables are few: `depth`
(RecMutex), `passed` (barrier), `calls` (pause), `writing` (cancellation), `printed` (the last sum), `accepted`, `printed` and
`lost` of the message queue, `strayed` (serialization buffer), and the `line`/`sent`/`typed` of a client.

**Grain.** A step is a stretch of code that no other thread can see inside of: either it is one
access to shared state, or the mutex that guards the state is held throughout. Where no single
mutex guards the state the grain is finer: in `Dining` the failed `trylock` and the sleep are two
steps, because the holder of the spoon that is waited for does not need the sleeper's mutex. This
is what the deadlock of the second solution hinges on. In `ArraySum` a step is one access to one cell; in
`Cancellation` and the servers it is one system call. `pthread_cond_wait` is two steps: release
and sleep, then wake and lock again. Spurious wakeups (`SpuriousWake`) can happen in every wait
that sits in a loop, in every run.

**Slips.** A definition named `Action_Something`, marked *Slip* in its comment, is a plausible bug in that action.
It is not part of any specification; `PROJECT.json` pairs each property with a slip that breaks it.

## Abstract specifications

- `CountingSemaphore`: permits, pending waits; a wait is granted only from a positive count. If
  permits are left for pending threads, some pending wait is granted. `Semaphore` implements it,
  liveness included; the safety part is also proved.
- `AbstractBarrier`: a set of threads inside, and a door. One enters while the door is open and
  the batch not full, one leaves while it is closed; a full batch gets out. `ThreadBarrier`
  implements it, liveness included; the safety part is also proved, for any threshold but 0.
- `BoundedFIFO`: a sequence with Put and Get. `RingQueue` implements it (proved for every size),
  and `ProducerConsumer` uses the ring in no other way.
- `AbstractList`: a sequence and the value the last call returned. A node returned by `dll_get`
  stands for its datum.

## What the runs show

| run | instance | properties |
|---|---|---|
| `semaphore` | 3 threads, 1 permit at first, at most 2 | `NeverOverdrawn`, `NoLostWakeup`, `ImplementsCountingSemaphore` |
| `rec_mutex` | 3 threads, nesting to 3, count modulo 4 | `OneHolder`, `AssertsBlameCaller`, `NoStrandedWaiter`, `FreeMutexIsTaken` |
| `barrier` | 4 threads, 2 calls each, threshold 2 or 4 | `NeverExceeded`, `Rendezvous`, `NobodyForgotten`, `ImplementsBarrier`, `AllCleared` |
| `thread_pause` | 3 controllers with 2 pauses each, 1 worker | `PauseReturnsPaused`, `SleepsOnlyOnRequest`, `PauseOfRunningWorkerReturns`, `ResumedWorkerRuns` |
| `bridge` | 3 + 2 cars, 2 on the bridge | `OneDirection`, `NobodyStranded`, `EveryCarCrosses` |
| `producer_consumer` | 2 + 2 threads, queue of 5, as in the code | `HandedOverWhole`, `InOrder`, `UsesFIFO`, `Alternates` |
| `dining` | 5 philosophers, either solution, as in the code | `NoHoldAndWait`, `EatAssertsHold`, `SpoonsComeBack`, `EatOrAllAsleep` |
| `small_programs` | the list (up to 4 nodes, 2 data), the cancellation (3 threads), the array (5 cells), the message queue (3 senders, room for 2, any number of restarts), the buffer (up to 8 bytes, amounts from -2 to 3, offsets from -2 to 9) | `Mirrored`, `ImplementsList`, `NothingLeft`, `FilesApart`, `SumsPrinted`, `ReceiverFirstDelivers`, `OnlyNegativesStray` |
| `servers` | the `select()` servers (3 clients, 2 places, 1 line of at most 2 characters), the stream servers (2 clients) | `ServedAgree`, `FirstEchoIsMine`, `EveryClientIsAnswered`, `SessionsApart`, `DiesOfKilledClient`, `SessionsEnd` |
| `pause_again` | 1 controller, 2 pauses | `PauseReturns` is violated |
| `dining_forever` | 5 philosophers, second solution | `EatForever` is violated |
| `routing_server_full` | 2 clients, 3 places, 2 lines | `RefusedOnlyWhenFull` is violated |

Every module states its properties in its last section, each with a comment. The type and ownership
invariants `MutexInv`, `CountInv` and `RingInv` are not among the runs: the proofs establish them for
every instance.

**Bounds and why they are enough.** Three threads are the fewest that give a holder, a woken waiter and a
newcomer that overtakes it (semaphore, recursive mutex). Two permits allow two posts before a
woken thread runs. Nesting to 3 distinguishes "released at the first unlock" from "at the last".
The barrier needs more threads than a threshold (4 > 2) for a crowd at the door, and all of them
(4 = 4) for the shape of `main.c`; two calls make it reusable. The bridge needs a full bridge, a
waiter of its own direction and two of the other. Queue and table have the sizes of the code. The
list needs four nodes for a removal strictly between two inner nodes. Integers of
`new_int` are counted modulo `IntMod` = 7, more than fit into the queue. The pause has a third controller, so that two
are asleep while the third resumes.

The `select()` servers have one client more than places. A line fills the buffer (`Width` = 2) or leaves the
tail of what was there, and the buffer begins with anything; nothing tells one character from
another, so one initial buffer stands for all that are equal up to a renaming. Of the stream servers two clients are
enough for a session in progress while another is accepted; of the string server a buffer of six characters
holds a line of three and its `'\0'`, but not two of them, so that lines run together and are cut, and the user types
three of them; the integer client types two numbers. The cancellation has two threads to cancel and one to disturb.
The buffer begins with one, three or four bytes, powers of two and not, and grows to eight; its amounts
and offsets go below zero, and the offsets past the longest buffer. The message queue has one sender more than room, and restarts need
no bound.

**Deadlock** is checked except in the runs where the program may end or be left alone (semaphore,
recursive mutex, barrier, pause, the servers, the small programs), and in `dining_forever`, whose question it is.

**Fairness.** Weak fairness of every thread's steps: a thread that can go on does, eventually. That is
all the liveness properties need where waiting is on condition variables. `ThreadPause` needs
strong fairness of a controller's steps, because the worker locks and unlocks the same mutex in a
loop; POSIX does not promise it, every implementation of a mutex that blocks and queues comes
close. In the servers every thread and `main` go on when they can, and a client reads what has arrived. No thread is obliged to call into a library, and no client to connect, type or be killed.
`Calm`, in some modules, says that spurious wakeups do not go on for ever. Without it a thread could be woken for
nothing again and again and keep the mutex from the others.

## What the checks found

- `pause_again`: a controller that pauses, resumes and pauses again before the worker has run
  waits for ever. The worker notices only that it should pause, again or still, and it notifies
  before its loop only (`thread_pause.c:49-54`). Both sleep, nobody can resume the worker, and
  `thread_pause.h:12` promises a signal. `PauseOfRunningWorkerReturns` is what does hold.
- `dining_forever`: the second solution deadlocks. All five take their left spoons, fail on
  their right ones, and go to sleep giving the left ones up without a broadcast
  (`Assignment_sol_2.c:78-85`). `EatOrAllAsleep` says that this is the only way in which nobody eats.
- `routing_server_full`: `= {-1}` initialises the first slot only (`server.c:52`), so the server
  serves one client. `ServedAgree` shows that nevertheless no `FD_ISSET(-1)` happens: the one slot that
  begins as -1 is given out before `select()` can report a client.

Also true of the code, and kept out of the properties:

- The single waits of the barrier (`threadbarrier.c:49`) and of the pause (`thread_pause.c:24`)
  are not in loops. `Spec` of the two modules lets them be woken by a signal only;
  `UnguardedSpec` adds what POSIX allows, and under it `Rendezvous`, `AllCleared` and
  `PauseReturnsPaused` fail. What the theorems say of `UnguardedSpec` holds even then.
- A newcomer that finds the bridge empty turns it (`bridge.c:46`) although the last car has just
  handed it over (`bridge.h:13`); the cars woken for the other direction go back to sleep.
  `NobodyStranded` shows that none of them is forgotten.
- With a second controller, `thread_pause` returns before the worker is held, and one resume
  undoes both pauses; `PauseReturnsPaused` says when a returned pause means something.
- The worker of `15.Thread Pause/main.c` tests once, after two seconds (`main.c:38`): if it tests before `main` asks,
  `thread_pause` waits for ever. The worker of the model tests again and again.
- As long as cars of one direction keep coming the other direction waits (`bridge.c:91`); `EveryCarCrosses` is about cars
  that cross once.
- The count of the recursive mutex wraps at 65536 nested locks. With `CountMod` = `MaxDepth` TLC
  finds `OneHolder` broken; the theorems assume `MaxDepth < CountMod`.
- The first solution of the philosophers can take, fail, back off and sleep in step for ever.
- The server echoes whatever is in its buffer up to a `'\0'`; a later, shorter line is followed by
  the tail of an earlier one, which the client then reads as its next echo.
- The string client of 21 always ends with "error reading data from server": the answer of its server
  is commented out (`Multiple Clients (String)/server.c:51`), and what it reads is the end of the stream.
- That server looks for "0" with `strcmp` at the start of what one `read` returned. A "0" that arrives together
  with the line before it is missed, and both sides wait for each other from then on. So
  `SessionsEnd` speaks, of that server, of a "0" that is at some time the next line to be read.
  A line cut by the end of the buffer may conversely be taken for a "0" nobody typed, and the rest is thrown away.
- In the three servers of 21 one client that is killed at the wrong moment ends the process and everybody's
  session, by the exit after a failed `read` or by SIGPIPE (`DiesOfKilledClient`). The listener of 7 survives: it does not
  look at what `read` returned, and over TCP its one `send` to a client that has gone succeeds.
- The client of 22 takes the 0 of a successful `connect()` for a failure (`client.c`, `connect_res <= 0`) and exits;
  the server of 22 never frees a slot and is told of the end of file of a client that has gone for ever.
- If a sender opens the message queue first, it creates it with mode 0 and default attributes: the receiver
  may not open it, or, as root, finds its buffer of 266 bytes too small for the default 8192. Either way nothing is
  ever received. `ReceiverFirstDelivers` is about the other order.
- A receiver that is killed after `mq_receive` and before its `printf` takes the message with it (`lost`); the other
  messages stay in the kernel's queue for the next one.
- A thread that is cancelled between `malloc` or `fopen` and the push of its handler leaks what it got; when `fopen` fails,
  the handler calls `fclose(NULL)`. A thread cancelled before it has read its number opens `thread_-1.txt`,
  because `main` writes -1 over it (`main.c:85`); two such threads open the same file, nobody else does (`FilesApart`).
- Without the mutex the sums of `8.Mutexes` are 11, 15 or 19, as the comment of the code has it, and no others.
- Writer and reader of the serialization buffer share the cursor, so nothing that was written can be read back
  without moving it by hand; the doubling never ends for a size of 0.
- The functions of that buffer let some negative arguments through. `de_serialize_string` stops a `val_size` of 0 only
  (`serialize.c:61`), and a negative one passes the test of what is left (`:63`); `copy_in_serialized_buffer_by_offset` tests
  nothing but `size - offset < n` (`:71`), which neither a negative amount nor a negative offset fails. A negative amount
  becomes a huge `size_t` for `memcpy`, a negative offset writes in front of the buffer. `serialize_string` stops whatever is
  not positive. `OnlyNegativesStray` says that nothing else makes a copy leave the buffer; the model ends with
  the first copy that does, for what follows is undefined.

## What is proved

All theorems hold for every value of the constants that meets the module's ASSUME.

- `SemaphoreProofs`: `MutexCorrect` (types and ownership of the mutex; inductive as it stands),
  `NeverOverdrawnCorrect` (from it: a thread that decrements has tested under the same
  mutex), `NoLostWakeupCorrect`, and `RefinesCountingSemaphore` (initial states and steps
  map to the abstract ones). `NoLostWakeup` compares a count of permits with the cardinality of the set
  of threads on their way; the induction goes over how an action adds one thread to
  or removes one from that set (lemma `Counting`).
- `RecMutexProofs`: `MutexCorrect`, then `CountIsDepth` with the bounds of the depth as the inductive
  invariant. It is what makes `OneHolder` inductive: without the equality of `n` and `depth` an
  unlock could free the mutex early. `OneHolderCorrect`, `CountIsDepthCorrect` and
  `AssertsBlameCallerCorrect` follow, under `MaxDepth < CountMod`. `NoStrandedWaiterCorrect` needs no such assumption.
- `ThreadBarrierProofs`: `CountInvCorrect`, `NeverExceededCorrect` and `NobodyForgottenCorrect` hold of
  `UnguardedSpec`, that is even when both waits may return at any time (`SpecIsGuarded` carries
  them over to `Spec`). `NeverExceeded` needs `RoomLeft`: an open barrier has room, or the thread that
  has just filled it still holds the mutex. `RendezvousCorrect` is proved of `Spec` and false of
  `UnguardedSpec`; it rests on `Draining` (who is on the way out finds the barrier closed) and on
  `InStep`, which says how far each thread is ahead while a batch drains. `RefinesBarrier` combines
  `CountInv`, `RoomLeft` and `Draining`, and assumes that the threshold is not 0: with 0 the first thread
  runs into the `exit(0)`.
- `ThreadPauseProofs`: `MutexCorrect` and `SleepsOnlyOnRequestCorrect` hold of `UnguardedSpec`, that is even when
  both waits may return at any time (`SpecIsGuarded` carries them over to `Spec`). The second one joins the request
  flag with the places of the threads: whoever has asked is still to resume. `PauseReturnsPausedCorrect` is proved of
  `Spec` and false of `UnguardedSpec`: its invariant `Handshake` follows one request from the controller to the worker
  and back, `OwnRequest` says whose it is when there is one controller at a time.
- `BridgeProofs`: the inductive invariant `IInv` joins `CountInv`, `OneDirection` and `Cleared` (a car about
  to be counted has tested under the same mutex). They cannot be had one by one: the branch of
  `bridge_exit` that does not unlock is dead code only because at most `Capacity` cars are on the bridge,
  and that holds only because the mutex is sound. `NobodyStrandedCorrect` strengthens the statement
  from the cars asleep to all that may go to sleep again (`SomebodyMoves`): woken cars that find the bridge
  turned are the case the code makes hard. The proofs cover cars that come back (`Comeback`) and any
  capacity; TLC's run has cars that cross once on a bridge for two.
- `ProducerConsumerProofs`. Of the ring alone: `RingCorrect`, and `FIFOCorrect` from it: what enqueue and deque do to the
  sequence of elements, by the arithmetic of `Turn`. `RingInv` is what makes it inductive: outside the
  `count` slots from `front` everything is NULL, and `rear` is where it should be. Of the program, over the same
  lemmas: `MutexCorrect`; `HandedOverWholeCorrect`, whose invariant
  says that the queue is full or empty at every place of the program but inside the two loops; `InOrderCorrect`, for
  any number of values, where one more draw moves every earlier number one draw back, whether or not the count has wrapped
  (`DrawArithmetic`); and `UsesFIFOCorrect`, the refinement of the whole program.
- `ProgramProofs`, of the philosophers: `NoHoldAndWaitCorrect` (inductive as it stands), and `EatAssertsHoldCorrect` by way of
  `MarksOwned`: marked spoons are held spoons, so nobody else touches the marks, and only the second
  solution ever sleeps with its left spoon unmarked.
- `ProgramProofs`, of the list: `MirroredCorrect`, and `ImplementsListCorrect`, the refinement of `AbstractList` with the result of every
  call. `ListInv` says that the nodes can be laid out in an order `o` in which each is there once and every link, both
  ends and `size` agree (`Laid`). What a call does is then one of two things, a node put in at a place (`LaidPut`) or cut out
  (`LaidCut`), whatever links it changes to do so. `WalkInOrder` joins this to the walks of the code, which are recursive functions.
- `ProgramProofs`, of the buffer: `OnlyNegativesStrayCorrect`. The property is inductive: while no copy has left the buffer the cursor
  is inside, and a copy that is given nothing negative and has room stays inside (`RoomIsInside`). The work is in `GrownFits`, that doubling
  reaches a size that is large enough, which needs 2^k > k (`PowerGrows`: a set of k things has more than k subsets).
- `ProgramProofs`, of the cancellation: `NothingLeftCorrect` and `FilesApartCorrect`, from `CancelInv`. `Stage` says for each place of a thread
  which handlers are pushed, what the thread holds, and what of it the handlers still on the list will
  release; `Numbered`, that a thread works with its own number or with the -1 `main` writes over it.
- `ProgramProofs`, of the sum: `SumsPrintedCorrect`, for an array of any size. `SumInv` follows what the two ends hold while they are
  swapped, and what the sum has counted of each of them.
- `ProgramProofs`, of the message queue: `ReceiverFirstDeliversCorrect`. `QueueInv` adds that nobody has been refused before
  somebody has created the queue, that a receiver has a message in hand exactly when it is about to print it, and that the numbers
  of the messages printed, in hand and queued rise together (`Rising`): a send goes behind all of them, receiving and printing
  change nothing on the way, a kill takes one out of the middle (`WithoutRises`).
- `ProgramProofs`, of their composition: `MachinesAlone`, that the specification TLC checks in `small_programs` is, for each of
  the five machines, the one the theorems are about.
- `ServersProofs`, of the servers with a thread per connection: `SessionsApartCorrect` and `DiesOfKilledClientCorrect`, from `StreamInv`. Its first part
  (`InOrder`) says that connections are served in the order in which they come: the k-th thread works on the k-th client,
  however late it looks at its argument, and the backlog continues where the threads end. Its second part
  (`Session`) follows one client: the 0 that ends its numbers is the last thing on its stream, and it is neither answered nor failed
  while its thread may still read from it or write to it; so a read that fails, or a write to nobody, is due to a kill.
- `ServersProofs`, of both servers on `select()`: `ServedAgreeCorrect` by way of `SlotsInv`. The three records
  agree because a connection still in the backlog is in none of them and is there once (`Queued`). That the loop never
  meets -1 needs one more fact: only the listening socket can make the first `select()` return, and the accept
  that follows gives away the slot that holds it (`NoneUnused`). In "routing" no other slot is ever used (`FirstSlotOnly`). `FirstEchoIsMineCorrect` adds
  `EchoInv`: before its first line a client has nothing on its way in either direction, the line stays whole until
  it is read in one piece, and the loop over the slots comes to a connection only while something is there to read
  (`Ready`), so what the buffer held before is overwritten from its beginning. `strlen` is defined by what it
  returns; `StrlenCounts` shows that there is such a number. The module assumes that -1 and 0 are no client's descriptor.

Assumptions: in `SmallPrograms` an address is neither an index nor NULL, there is a node to allocate, the
array has two ends, and a buffer begins with at least one byte and is given integers, the amounts no further from 0 than
`MaxSize`, which is any number; in `Servers` a read has room for a character and users type
characters. A statement that needs induction over data is made one about sets of numbers, with the least number that does not
have the property as the counterexample that cannot be (`LeastNumber`, `AllNumbers`).

Only model-checked: all liveness (`ENABLED` and fairness are out of the prover's reach), that is the temporal
properties of the runs and the liveness half of `ImplementsCountingSemaphore` and `ImplementsBarrier`. Every invariant of a
run is proved too.

## Plan

Modules, in the order of their weight: (1) semaphore, recursive mutex, barrier, pause, bridge;
(2) ring queue with the producers and consumers, philosophers; (3) the servers and the list; (4) the small
programs. All are done, and every invariant that is checked is proved. What would come next:

1. Action properties: what a step of the primitives may never do, stated and proved from the invariants that are there.
2. The nesting of the recursive mutex at the width of its counter, as a theorem about what goes wrong there.
3. The routing table itself, once `updateTableToALlClients` has a body.

## Not modelled

Printing, sleeping times, `eat_count`, thread creation and attributes, failures of `malloc`, `calloc` and
`pthread_*` (the code does not look at them either), `printDLL`, `print_Queue` and `is_serialized_buffer_empty`, which only
read (the last of them answers the opposite of its name). Failures of `socket`, `bind` and `listen`, after which a
server does not run. A buffer of size 0. The programs of 1, 2, 3, 4 and 24 and the demonstration of 12 share no state, or
only a semaphore that the run `semaphore` has already. Destroying a primitive in use is undefined behaviour; the models destroy when nobody
is inside. What clients of the server do after the server has been killed is not modelled.
