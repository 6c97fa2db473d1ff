# Verification of SP2024

TLA+ models, TLC configurations and machine-checked proofs for the programs of
this repository: four independent C programs, `hw1` to `hw4` (and `hw0`, which
prints a line). They share no code and no data, so each has modules of its own
and nothing composes them with each other.

To check: `tlc -config X.cfg M` for every pair of *Runs* below, and
`tlapm M.tla` for every module of *Proofs*.

## The system

### hw4: a matrix multiplication machine with a thread pool

*Parts.* `main` submits requests, waits for all of them, prints and destroys the
pool. A frontend thread takes requests and cuts each one into works. The backend
threads compute works.

*State.* Two linked queues (requests, works), each with a mutex, a condition
variable and a stop flag; `active_requests` under `sync_mutex`; in each request
`remaining_works`, the transposed `b` and the result matrix.

*Interaction.* The queues, three condition variables, and free: the backend that
finishes the last work of a request frees it while the frontend may still be in
the loop over it.

*Hard.* Lost wakeups; `tpool_synchronize`, which reads two queues without their
locks; use after free; two threads writing one matrix without a lock; the rest of
`n*n` divided by `num_works`; the order in which destroy stops things.

*Correct when* `tpool_synchronize` returns exactly when every entry of every
result is its product and nobody will write any more, and destroy ends.

### hw3: user-level threads with a read-write lock

*Parts.* A library of macros (`thread_tool.h`), a scheduler that `setjmp` and
`longjmp` connect to the threads, and the routines `idle`, `fibonacci`, `pm` and
`enroll`.

*State.* The running thread, the ready and the waiting queue, the set of sleepers
and its size, the counts of the lock, the spots of two classes, the pending
signals and the alarm.

*Interaction.* One process. A thread leaves by yielding to a signal (SIGALRM, or
SIGTSTP from the user), by waiting for the lock, by sleeping or by exiting; the
integer that `longjmp` carries tells the scheduler which.

*Hard.* Every order of signals and threads; where a thread is put back; a copy of
the spots read under a lock and used after two switches; sleeping times that
shrink by a time slice with every signal; whom the lock lets in.

*Correct when* no thread is lost or duplicated, the lock excludes what it should,
the scheduler leaves nobody behind and returns when all threads have exited.

### hw1: booking seats of trains

*Parts.* Write servers, each a process with a poll loop over its connections, and
read servers, which list the seats; the train files; record locks (`fcntl`).

*State.* The bytes of the train files; the record locks, by process; in each
server a request per connection (state, shift, status of each seat, count of
chosen seats, deadline) and the table `seat_lock`, which holds descriptors.

*Interaction.* Clients send lines over connections and may leave at any moment;
servers meet only in the files and the record locks.

*Hard.* Record locks do not exclude the connections of one process; two servers
run between any two system calls; a descriptor is given to the next connection;
time-outs, with a clock that is cut to an `int`; a server that is killed between
the bytes of a payment; a listing that is put together from forty-one system
calls; lines that TCP tears; a loop that acts on what `poll` saw before it
accepted and closed connections.

*Correct when* no seat is reserved or sold twice, a sale is in the file, locks
belong to somebody and come back, a listing tells what was true, a line is what
the client has sent, and every connection is served and closed in time.

### hw2: a tree of friends

*Parts.* One process per friend, `fork`ed by its parent, with a pipe in each
direction; the root reads commands (Meet, Check, Graduate, Adopt); a fifo through
which an adopted subtree is taken down and built again.

*State.* In each process its name, value and children with their pipes, and for
each child a copy of its value; the messages in the pipes; the records in the fifo.

*Interaction.* A command goes down from child to child until one does not fail, and
its reply comes up the same way. Not_Tako asks for one thing after the other: an
adoption is a walk for the value of the parent, one for the records, one that ends
the subtree, and one for every friend in it that comes back.

*Hard.* Replies have no length and are whatever one `read` returns; an adoption
ends the processes of a subtree before it starts the new ones; buffers of fixed
size; the level order of a listing that is put together from subtrees.

*Correct when* the processes are the tree that the commands describe, nothing of
one command is left for the next, every command ends, and nobody stays behind.

### Components and modules

| Component | Modules | State of the work |
|---|---|---|
| hw4 `tpool.c`, `tpool.h`, `main.c` | `MatrixWork`, `ThreadPool`, `MatrixService`, `ThreadPoolInvariant`, `ThreadPoolProofs`, `MCThreadPool` | modelled, checked, proved |
| hw3 `scheduler.c`, `thread_tool.h`, `routine.c`, `main.c` | `RingQueue`, `UserThreads`, `CommandLine`, `UserThreadsInvariant`, `NumberLemmas`, `UserThreadsProofs`, `MCUserThreads` | modelled, checked, proved |
| hw1 write server in `server.c`, train files | `TrainBooking`, `SeatService`, `TrainBookingInvariant`, `TrainBookingProofs`, `MCTrainBooking` | modelled, checked, proved |
| hw1 read server in `server.c` | `TrainListing`, `TrainListingInvariant`, `TrainListingProofs`, `MCTrainListing` | modelled, checked, proved |
| hw1 loop of both servers | `PollLoop`, `PollLoopInvariant`, `PollLoopProofs`, `MCPollLoop` | modelled, checked, proved |
| hw1 line reading of both servers | `LineReader`, `LineReaderInvariant`, `LineReaderProofs`, `MCLineReader` | modelled, checked, proved |
| hw2 `friend.c`, `hw2.h` | `FriendTree`, `FriendService`, `FriendTreeInvariant`, `FriendTreeProofs`, `MCFriendTree` | modelled, checked, proved for adoptions that are not passed on |
| hw0; `hw4/test.c`; `hw2/test.c`, `checker.sh`, `change to stdout.c` | | not modelled: one line of output, scratch programs, a test driver, an old copy |

## The models

### MatrixWork and ThreadPool (hw4)

`MatrixWork` is the arithmetic: how `n*n` entries are divided among works, which
row and column an entry is, and what its value is. `ThreadPool` is the rest.

A critical section that takes one mutex and waits for nothing in it is one
action; `tpool_synchronize`, which reads the queues under `sync_mutex` only, is
three (`TestActive`, `TestWorkQueue`, `TestRequestQueue`), and nobody enters
another section of `sync_mutex` between them. `pthread_cond_wait` is a place
(`waiting`, `syncWait`) that a broadcast, or `SpuriousWakeup`, takes back to the
test of the loop around it. The computation is a step per entry, so that works
that overlap would be seen. `free(parent_request)` adds to `freed`; the loop test
of the frontend on a freed request may come out either way (`LoopMayGoOn`,
`LoopMayEnd`). `done` is a history variable and `i` of a work is kept for the
properties only.

`MatrixService` is what the pool promises: requests are submitted, each is
completed once, and then the products are printed. `ThreadPool!Service` is the
refinement mapping.

### UserThreads (hw3)

A step is a stretch of code that ends where another thread may take over or time
has passed. `Scheduler` is the whole of `scheduler()` after a `longjmp`: signals
are dropped, the alarm is set, due sleepers are moved by id, then waiting threads
from the head of their queue as far as the lock lets them in, then the thread that
ran is put where `jump` says, and the next one is taken; without one `idle` runs if
somebody sleeps, and otherwise `scheduler` returns. `YieldToSignal` is
`thread_yield` with a signal pending, and `SleptOn` the sleeping times that the
handler lowers. Every `sleep(1)` is `SecondPasses`, in which the alarm may fall
due. `enroll` is a chain of actions, one for each part between two yields or jumps.

`idle` has no loop: when it is resumed a second time, or no signal is pending after
its second, it returns into a frame that no longer exists. The model stops there
(`IdleFalls`). The compiled program ends early with status 0 and leaves its
sleepers behind, for instance with `hw3 3 5 6 3 3 2 8 2 3 2 3 2 1`.
`RingQueue` is the circular array of a queue, in which an entry that was taken stays.
`PushAll` and `Drop` are the loops that move several threads; the ASSUME
`RingIsQueue` of `MCUserThreads` compares them with one push after the other and with
sequences, for every place of the head. `CommandLine` is `spawn_thread`, and
`MCUserThreads` says which command lines its programs are.

`context_switch`, `print_ready_queue`, `push_to_waiting` and `move_threads` are
dead code. `waiting_for` is never reset to 0 (`thread_tool.h:19`), and the model
does not reset it either: it is overwritten before it is read again.

### TrainBooking (hw1)

Inside a server a handler is atomic, but other servers run between any two system
calls on a train file. So a handler with several of them is cut, and `doing` says
where its server is: choosing a seat is `CheckBooked` (the byte), then `GetLock`,
then `ChooseSeat` (or `Cancel`, for a seat that the client has already); paying is
`Pay`, one `PaySeat` per byte, `FinishPaying`; closing is `TimeOut` or `Exit`, one
`UnlockSeat` per lock, `Close`. A server that is in the middle of something does
nothing else. `SetLock` fails when another process holds the lock, and `GetLock`
does not see the locks of the own process, as `fcntl` does. `Crash` is the end and
restart of a server at any moment: the kernel releases its record locks, the files
stay. Time is whether the deadline has passed (`Expire`), and a message is a whole
line; `PollLoop` and `LineReader` say why that is right. The texts that are sent
back are left out.

`SeatService` is what a write server promises: each seat is free, held by one
connection, or sold; and a server that takes a payment sells all that its client
holds. `TrainBooking!SeatOf` is the refinement mapping: a seat is sold when its byte
says so, and until then it belongs to the connection in `seat_lock`. So it is held from
`ChooseSeat` on, given back by `Cancel`, `UnlockSeat` or a crash, and sold by `PaySeat`.

### TrainListing (hw1)

The read server, which takes its steps among those of the write servers of
`TrainBooking` (it EXTENDS that module and conjoins its own variables). `ReadFile` is
the one read of the train file, `QueryLock` one `fcntl(F_GETLK)`, and `SendListing` the
answer; its own loop is `AcceptChecker` to `CheckerExits`. `seen` is a history
variable: what every seat of the train has been since the file was read.

### PollLoop (hw1)

The loop of `main`, which both servers share. `Poll` stores in `revents` what there is
to read; `Accept`, `AcceptFails` (ENFILE) and `AcceptExits` are `accept_conn` (a full
table of descriptors, EMFILE, stands for every error that ends the server);
then each slot is visited once (`Skip`, `TimeOut`, `Quiet`, `Serve`, `Dismiss`), and
the clock may move between any two steps. The clock is an `int` that wraps around,
and a deadline is a sum in an `int`. A read with nothing to read would wait, so
`Serve` needs `readable`, and `ReadDoesNotWait` says that it never lacks it. `age` is a
history variable. `failed` counts the turns since the last visits: a turn in which
`accept` fails ends before anybody is visited, and those before it still delay the
visits when it succeeds or nobody knocks.

### LineReader (hw1)

One entry of `requestP`, for the connections that get its descriptor one after the
other. A client sends a line, ended by LF or CR LF, and waits for the answer; it may
press ctrl+C, or leave in the middle of a line. `read` returns any part of what is on
the wire. `ReadPart` and `ReadLine` are `handle_read` up to the complete line: the
search for CR LF, then LF, then ctrl+C at the beginning of the chunk; what comes after
the end of the line is dropped. Whether a line is allowed is `Clean` and a choice.

Tearing does harm in one place, which `LinesAreWhole` names as an exception. When a
read ends between the CR and the LF of a line, the CR is kept with the line, the next
read finds an LF alone (`server.c:239`), and the line is handled with its CR at the end:
it is refused and the connection is closed (`server.c:293`), so the client loses its
seats. `LinesAreWhole` says that such a line is the last one of its connection, and that
without ctrl+C no other line gets a byte into it. `EveryLineIsAnswered` counts being
closed as an answer.

### FriendTree and FriendService (hw2)

A process has one job at a time: the command it has read, the child it is asking
and the locals of the handler. `MeetHere`, `ValueHere`, `BeAdopted`, `Collect`,
`Graduate` and `PassOn` begin a command; `Ask` and `AskAdopted` write it to a child;
`Found`, `FoundGraduated`, `NotFound`, `Collected`, `WasAdopted` and `HasLeft` read
the answer of a child and are the bodies of the loops over the children; `Finish` is
what comes after a loop, and `Say` is one `write` to the parent. All children are
asked one after the other, but two processes do run at the same time when one goes
on after it has answered. `Exit` and `Eof` are the two ways to end; a write into a
pipe without a reader ends a process too.

A pipe is a sequence of messages, and a read takes all of them: so replies that
should have been two may be read as one, and `FirstOf`, `Failed`, `ValueOf` and
`Text` say what the parser makes of that. Messages are shorter than the buffers and
than `PIPE_BUF`, so a single one is never cut.

The loop of Not_Tako (`MeetCommand` to `Rebuild`) calls its handlers through the
pipes of the root process: it is the same thread, and a call is a command that the
root reads. `before` is a history variable for the refinement: while a command goes
on, the tree that a user knows is the one before it. A process id may be used again
when the process has ended and its parent has dropped it.

`FriendService` is the tree as the commands describe it, each in one step, with what
is printed: `Listing` is the level order by breadth-first search, while `Combine` in
`FriendTree` merges the lines of subtrees as the code does.

## Runs

| Run | Config | What it shows | Distinct states |
|---|---|---|---|
| `pool_safety` | `ThreadPoolSafety` | Three backends, two requests, works of equal and unequal sizes: every interleaving is safe, implements `MatrixService`, and ends with all threads joined | 56675 |
| `pool_excess_works` | `ThreadPoolExcessWorks` | *violated:* a request with more works than entries is never retired | |
| `threads_safety` | `UserThreadsSafety` | Five threads in queues of six places, three of which compete for three spots, up to four SIGTSTP at any moment; all exit, or sleep when `idle` gives up | 11721 |
| `threads_ties` | `UserThreadsTies` | *violated:* the remaining spots become negative while the other class has some | |
| `booking_safety` | `TrainBookingSafety` | One write server, two connections that are used again and again, any crash: safe, implements `SeatService`, and no connection keeps its seats for ever | 20054 |
| `booking_listing` | `TrainListing` | A read server lists two seats while a write server goes on | 68818 |
| `server_loop` | `PollLoop` | Two slots, accepts that fail, a clock of twelve values that starts anywhere | 169080 |
| `server_lines` | `LineReader` | Every line of up to two characters, torn in every way, is handled as it was sent, but for ctrl+C and for a line torn between CR and LF, which is refused | 41749 |
| `booking_two_servers` | `TrainBookingTwoServers` | *violated:* two servers reserve one seat for two clients | |
| `booking_disconnection` | `TrainBookingDisconnection` | *violated:* end of file does not close the connection | |
| `tree_service` | `FriendTreeService` | Every four commands on three friends, adoptions of friends of Not_Tako: implements `FriendService`, leaves nothing behind, and ends | 135442 |
| `tree_deep_adoption` | `FriendTreeDeep` | *violated:* a friend that is adopted away from a friend may be in no tree when nothing goes on any more | |

### Bounds

- `pool_*`: matrices of side 2. Three works of 2, 1 and 1 entries have a
  remainder, two of 2 have none, and two requests are enough for one to be retired
  while the other is being split or queued.
- `threads_*`: `MaxTstp` bounds the SIGTSTP of the user. Four are enough to hurry
  all the sleepers, to make `idle` run, and to switch at every yield of `enroll`;
  the alarm is not bounded. Programs have 2 to 5 threads. Three enrolling threads
  are the fewest with a reader, a writer and a waiting thread at the same time.
  Six places in the queues (`THREAD_MAX`) are one more than the threads, so that head
  and tail come round many times.
- `booking_*`: one train with free seats and one that is full, two seats (one with
  two servers), one or two servers, one or two connections per server.
  Nothing else is bounded: payments use up the seats, and connections come and go
  for ever. Two connections are enough for two to want the same seat and for one to
  get the descriptor of another. `booking_listing` has one write server with one
  connection, which changes a seat often enough between two queries; with two
  connections (2.9 million states) nothing changes, and with two write servers
  `ReservedWasReserved` fails because of finding 3.
- `server_loop`: a turn takes up to `MaxTurn` = 1 and a time-out is 2, so that deadlines
  pass before, in and after the turn in which they are looked at; `Width` = 12 is the
  least even number for which a deadline does not come round before it is acted on
  (`LoopAssumption`). `MaxFailures` bounds the turns in a row in which `accept` fails:
  without it nobody is visited for as long as it does. With `MaxTurn` = 1 time cannot
  pass both before and after a slot is visited in a turn; with 2 (and `Width` = 18, 1.2
  million states) all properties hold as well, and the proofs of all but
  `EveryConnectionEnds` are for every `MaxTurn`.
- `server_lines`: two characters, two lines per connection and two ctrl+Cs; connections
  are not bounded. Two characters are enough to tell a line from its parts.
- `tree_*`: three friends besides Not_Tako and four commands (`MaxCommands`), all
  of them chosen freely: names that are in the tree or not, in any order. Three
  meetings and an adoption move a friend with one below it to another friend, or
  the whole of a chain to Not_Tako; two meetings, an adoption and a graduation use
  the tree that the adoption has made. `MaxProcs` bounds the processes at a time.
  Where every friend has one process, one more than the friends are enough; in
  `tree_deep_adoption` a friend may be met again while its old process is still there,
  and there are seven. In `tree_service` only children of Not_Tako are
  adopted (`DeepAdoptions`), or adoptions are refused, because of finding 5. Adopt
  names a friend that is there, and a parent whose value is not 0 (`MayAdopt`).
  Both runs need `CHECK_DEADLOCK FALSE`: the program ends when all have left.

### Fairness

- `ThreadPool!Fairness`: weak fairness of each thread. The kernel runs every
  thread that can run, and no section of a mutex blocks, so who wants a mutex gets
  it; POSIX wakes all waiters on a broadcast.
- `UserThreads!FairSpec`: weak fairness of the one process. Signals are not fair:
  the user need not send any. `EveryThreadExits` allows for threads that are asleep
  when `idle` falls (`IdleFalls`).
- `TrainBooking!Fairness`: a server finishes its handler and time passes (weak
  fairness of `GoOn` and `Expire`); the poll loop visits every slot in every turn
  and looks at the deadline first, so a deadline that has passed again and again
  is acted on, however busy the other connections are (strong fairness of
  `TimeOut`). A crash needs no fairness and may always come in between.
- `PollLoop!FairSpec`: the server runs (weak fairness of `Loop`) and time passes (of
  `Tick`); clients need do nothing. That a deadline is acted on is a result there
  (`ClosedInTime`, `EveryConnectionEnds`), which is what the strong fairness of
  `TimeOut` in `TrainBooking` rests on.
- `LineReader!FairSpec`: `poll` returns as long as there is something to read.

- `FriendTree!FairSpec`: weak fairness of every process and of the loop of
  Not_Tako. Commands, and the end of them, need not come.

### Findings

1. `main.c` of hw4 accepts more works than entries; the frontend makes fewer works
   than `remaining_works` says, and `tpool_synchronize` waits for ever.
2. `enroll` of hw3 chooses a class without looking at its remaining spots when the
   preferences are equal. `hw3 1 1 2 3 2 1 1 1 3 2 1 1 1` puts two threads into a
   class with one spot.
3. Two write servers of hw1 can give one seat to two clients: `F_SETLK` may fail
   and nobody looks.
4. A client of hw1 that disconnects is treated as one that has sent half a line.
5. In hw2, a friend that passes on an adoption answers twice, "success" and "fail"
   (`friend.c:528` hides the variable that is tested after the loop). When its parent
   reads them apart, later answers are taken for earlier ones, and the adopted friend
   may be ended and not come back.

A sixth is an exception in a property that holds: a line of a hw1 client that is torn
between its CR and its LF is refused and ends its connection (see LineReader above).

`PROJECT.json` has the lines, and the hazards that each property is for.

## Proofs

The theorems hold for every value of the constants that the named assumptions
(`PoolAssumption`, `ProgramAssumption`, `TrainAssumption`, `ReadConnsAssumption`,
`LoopAssumption`, `LineAssumption`, `FriendAssumption`) allow, and rest on nothing else
but what a theorem states itself: `SeatHasOneHolder` and what follows from it have one
write server (finding 3), and those of hw2 have `DeepAdoptions = FALSE` (finding 5).
`FriendAssumption` has finitely many friends and a process id for each of them, so that
the bound `MaxProcs` never refuses a `fork`. Every inductive
invariant is in a module `...Invariant` of its own and was checked with TLC on the
instances of the runs before it was proved.

| Module | Proves |
|---|---|
| `ThreadPoolProofs` | every safety property of `pool_safety`, and that the pool implements `MatrixService` |
| `UserThreadsProofs` | every safety and action property of `threads_safety` |
| `TrainBookingProofs` | every safety property of `booking_safety`, and that one server implements `SeatService` |
| `TrainListingProofs` | every property of `booking_listing` |
| `PollLoopProofs` | every safety and action property of `server_loop` |
| `LineReaderProofs` | every safety property of `server_lines` |
| `FriendTreeProofs` | `QuietAtRest` of `tree_service` |
| `NumberLemmas` | the least number of a set, and remainders, for the others |

**hw4.** `ThreadPoolInvariant!IInv` is inductive. The properties are far from
inductive themselves: that `tpool_synchronize` may return rests on
`active_requests` counting the requests that are not retired, that on
`remaining_works` counting the works that are not done, that on each work existing
once (`UniqueInv`) and on the works of a request being just the slices `Slice(r, i)`
of its entries (`SplitInv`, `WorkInv`, with lemmas on division that say where the
i-th slice starts). `ResultInv` says which entries are right so far. From `IInv`
follow `TypeOK`, `NoLostWakeup`, `SynchronizedIsComplete`, `SynchronizedIsQuiet`,
`NoWorkOfFreedRequest`, `WorksAreDisjoint`, `WorksAreBalanced` and, as every step
maps to a step of the service or a stutter, `PoolImplementsService`. The proofs
cover requests with more works than entries too: those hang, and are safe.

**hw3.** `UserThreadsInvariant!IInv` says where a thread is (`PlaceInv`: the running
thread, the sleepers and the contents of the two circular arrays are disjoint and
make up the live threads; `QueueInv`: nobody is in a queue twice) and what
`longjmp` tells the scheduler (`JumpInv`, `RoutineInv`: who waits or sleeps stands at
the call that made it do so, and a thread that is put into the waiting queue has
found the lock taken). `LockIsHonest` is part of it, as whom the scheduler lets in
depends on the counts of the lock. The first part of
`UserThreadsProofs` says what `Push`, `PushAll`, `Pop`
and `Drop` do to the sequence that a circular array stands for; there is room because
the threads in a queue are different ones, and fewer than the places. `OnePlace`
counts occurrences, and follows from disjointness by cardinalities. `SnapshotHolds`
needs, besides, that nobody writes while there are readers; `OverbookedOnlyByTies` that
the spots that are gone are the threads that have enrolled (`SpotsInv`); and
`NumbersAreRight` the numbers of the turn before (`NumbersInv`). The library's induction
theorems cannot be used here, but that `Fib` satisfies its own equation does not need
them: the equation of a recursive function holds if some function satisfies it, and
that is shown with the least number for which there is no initial part of it
(`NumberLemmas!LeastNumber`).

**hw1, booking.** `TrainBookingInvariant!IInv` is inductive for any number of servers. It
relates three records of who has a seat: the status in the request, the entry in
`seat_lock` and the count. `HolderInv` and `LockInv` say that the first two agree
except for a connection that is being closed, and that a seat goes back only
through its holder; `DoingInv` carries the answer of `GetLock` to `ChooseSeat`;
`CountInv` allows for the count that `PaySeat` sets to 0 before the last byte is
written. It gives `TypeOK` (the count never leaves `0..SEAT_NUM`, which needs the
cardinality of the chosen seats) and `BookingIsRecorded`. With one server,
`OneServerInv` is inductive relative to `IInv` and gives `SeatHasOneHolder`,
`ChosenIsUnpaid`, `LocksHaveOwners` and the refinement `OneServerImplementsService`, with
one lemma for each action that changes what `SeatOf` says of a seat. With two servers
a seat may have two holders (`booking_two_servers`), so the theorems have one server
in their assumption.

**hw1, listing.** `CheckerInv` and `ReadInv` hold with any number of write servers,
as they use only that a byte that is 1 stays 1, and give `PaidIsListed`. `SoldInv`
carries the argument that makes a late answer about a lock tell anything: with one
write server a seat that was free in the file and is sold now was reserved after the
file was read.

**hw1, loop.** `SlotInv` and `FoundInv` say that the slots are the open connections and
that what `poll` has found is there when the slot is visited. `ClockInv` says how
clock, deadline and age of a connection are related modulo the width of an `int`, and
`LateInv` how late it is, by where the loop stands: before its slot, after it, or in
turns that ended before the visits. The proof of `LateInv` failed at first because
`failed` was reset when `accept` succeeded and not after the visits: when time passes
twice in a turn a connection could be older than `ClosedInTime` said. TLC shows it
with `MaxTurn` = 2, and now finds no error there.

**hw1, lines.** Sequences are compared byte by byte. `PendingInv` says that the line which
is not handled yet lies on the wire up to its LF, that `n` bytes of it have been read,
and that a buffer that is still allowed has the last of these (and, as long as ctrl+C was
not pressed, any buffer has all of them, so that a line with a byte too many can only
be one whose CR was read before its LF); `n` is negative as long
as what ctrl+C has sent comes first. A read without the end of a line moves the border,
and drops bytes only when they begin with a telnet command, which then begins the
wire. A read with the end of a line has the only LF on the wire; that the search for
CR LF first finds the right place needs the one case in which CR was read before.

**hw2.** `FriendTreeInvariant!IInv` is inductive for adoptions that are not passed on. Its
base is that the processes with a job are a chain of parents, each of which waits
for one child, and that only the last of them may do anything (`OneActive`).
`ServedInv` says what a child is asked, which follows from the job of its parent, and
for each stage of its work what its two pipes hold (`Serves`); a child nobody waits for is
free. From this `QuietAtRest` follows: when the root is free nobody is waited for.
That the tree stays one needs more, because an adoption ends a subtree and meets its
friends again, and a friend is met only where nobody has its name. `Grounded` says
that there is no circle of parents. `FindInv` carries the answer of the first walk: the
value of the parent is found only along a way up to the root that avoids the child
(`Way`). As `Subtree` is the least set that is closed under children, a parent in the
subtree of the child has no such way, and the adoption is refused; any other child that
`MayAdopt` names is one of the root. `RecordInv` says that who is recorded in the fifo is the
adopted friend or below somebody who is recorded; once the subtree has left, all names
recorded are free (`FreeInv`, `TodoInv`), each is recorded once, and the friends may be
met one after the other (`FreshInv`). The proof goes through every handler three
times, by who runs it: a process below a parent, the root, and the loop of Not_Tako.
Where an adoption is passed on, `IsReply` fails, as a friend answers twice; this is
what `tree_deep_adoption` shows.

**Model-checked only.** Liveness (`PoolIsDestroyed`, `EveryThreadExits`, `SeatsComeBack`,
`EveryConnectionEnds`, `EveryLineIsAnswered`, `EveryCommandEnds`, `EverybodyLeaves`), which is
out of the provers' reach here; that `FriendTree` implements `FriendService`; and what
the violated runs show. The refinement of hw2 compares the level order of a tree, by
breadth-first search, with what `Combine` merges from the listings of its subtrees. Both
are recursive over the data, and that they agree is an induction over the height of the
tree, as is that a subtree is rebuilt in the order of its records. The library's
induction theorems have an operator as a parameter, which the provers cannot
instantiate. `IInv` has what does not depend on the order.

## What is not modelled

- Failing allocations and system calls other than the locks and `accept`; writes that
  wait because a client does not read.
- Texts that are printed or sent, and reading numbers from text.
- hw4: the validation of the input. `err` in the middle of the input ends the process
  with its threads, and nothing is printed.
- hw3: 100 threads or more (`ProgramAssumption`); the linked queue of hw4 is a
  sequence.
- hw1: descriptor tables of more than 1024 entries, where a connection may find no slot
  and is then never read or closed (`LoopAssumption`; with one slot for two
  connections `SlotsAreRight` is violated); clients that send lines without waiting for
  the answers: what a read returns after the end of a line is dropped, and a line
  may lose its beginning; lines longer than `MAX_MSG_LEN`.
- hw2: the sizes of the buffers; adoptions of friends that are not there, which wait for
  ever (`friend.c:671`), and by a friend whose value is 0, which divide by zero
  (`friend.c:478`).
- `hw0`, `hw4/test.c`, hw2's `test.c`, `checker.sh` and `change to stdout.c`: a greeting, a
  scratch program, a test driver and an older copy of `friend.c` that is not built.

## What is left

Every safety and action property of the passing runs is proved, and so are the
refinements of hw4 and hw1. Not proved are those named under *Model-checked only*. Adoptions
that are passed on, adoptions of friends that are not there, and the sizes of the buffers
of hw2 have no invariant to prove: the code goes wrong there (findings and hazards in
`PROJECT.json`).
