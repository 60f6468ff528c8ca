# A TLA+ verification of hyperion-utils

hyperion-utils is a header-mostly C++20 library: a lock-free queue, a ring buffer, loggers, a
read-write lock, files, `Result`/`Option`/`Enum`, smart pointers and error codes. This directory
models the parts of it that keep state across calls or threads, checks the models with TLC, and
proves the central results with TLAPS. Paths below are relative to the repository; `X.h:n` is a
line of `include/Hyperion/X.h`.

Contents: 1 inventory, 2 modules and how they correspond to the code, 3 runs, 4 fairness,
5 proofs, 6 where code and comments disagree, 7 what is not modelled, 8 plan.

## 1. Inventory

| Component | State | Operations | Interacts with | What makes it correct |
|---|---|---|---|---|
| `LockFreeQueue` | ring of `m_capacity` slots; atomic `m_read`, `m_write`, `m_max_read`, `m_size` (u32) | `push_back`, `try_push_back`, `force_push_back`, their emplace forms, `pop_front`, `front`, `clear`, `reserve`, moves, `size`/`empty`/`full` | producer threads and one consumer thread share the counters and slots | FIFO order, nothing lost or made up, no slot used by two threads at once, refusal only when full, a blocked push returns |
| `logging::Queue` | a `LockFreeQueue` of entries | `push` by `QueuePolicy`, `read` as `Result` | used by the asynchronous loggers | the policy picks the right push |
| Asynchronous loggers (`LogBase`, Logger.h) | queue, semaphore `m_signal`, stop flag, thread | `log`, `message_thread_function`, `request_thread_stop`, destructor | client threads, logging thread, owner | every accepted entry reaches the sinks, in order, at the latest at destruction; `log` and the destructor return |
| `RingBuffer` | raw storage, `m_constructed` flags, start and write index, iterators (index and pointer) | push/emplace/insert/erase/pop/clear/reserve, moves, iteration | single-threaded | behaves like a bounded deque; every object constructed once and destroyed once |
| Synchronous loggers, `Logger`, `GlobalLog` | sinks behind a `ReadWriteLock` (multi-threaded) or bare (single-threaded), a global owning pointer | `log` per level, `set_global_logger`, `get_global_logger` | sinks; any thread through the global | every sink prints the entries in the order the logger took them; `log` returns |
| Sinks | stream or file, minimum level | `sink` | called by the loggers | prints what is at or above its level, once |
| `ReadWriteLock`, guards | a value and a `shared_mutex` | `read`, `write`, `try_read`, `try_write`, moves; copy, move and use of guards | reader and writer threads | what a guard refers to changes only through that guard |
| `File` | `FILE*`, buffer, open options | `open`, `read`, `write`, `print`, `flush`, `seek`, `size`, moves | the C library | an open stream has one File and that File its buffer; what a write accepted is in the file once |
| `Result`, `Option`, `Enum` | a tag and a union; `m_handled` | construct, copy, move, assign, take, map, match, destructor | everything returns them | exactly the tagged alternative is alive; an unhandled error is not lost |
| `UniquePtr` | pointer and deleter (`CompressedPair`) | reset, release, swap, move, `make_unique`, `allocate_unique` | owns the buffers of the above | freed exactly once, by the deleter it came with |
| `StatusCode`, `ErrorCode`, the domains | a code and a domain | construct, assign, clear, compare, convert | wrapped by `Error` | an error code stays an error; whether two codes are equal does not depend on their order |
| `Error`, `AnyError` | a code; an owned `ErrorBase` | construct, copy, move, assign, `message` | the `E` of `Result` | an error keeps its code while it changes hands |
| `ChangeDetector` | previous value | `changed` | - | reports exactly the changes |
| Formatting, panics, traits, platform macros | none at run time | - | - | - |

**What is hard here.** Producers and the consumer of the queue interleave between any two atomic
operations, and one logical step (taking a place, claiming a slot, storing, publishing) is four of
them; counters are words that wrap; `increment_size` is an addition and a later subtraction that
everybody else sees in between. The loggers add a semaphore that counts something else than the
entries, and a shutdown that races with both. The ring buffer is sequential, but it manages object
lifetimes by hand through flags that must agree with the storage after any sequence of calls, on
both sides of the point where the indices wrap. `Option`, `Result` and `Enum` do the same with a
union and a tag, with moves that leave the object they moved from undestroyed, constructors that
throw, and specialisations that store references; `Result` adds a flag that passes from copy to copy.
`File` hands a buffer it owns to a C stream it also owns. `PROJECT.json` lists the hazards line by line.

## 2. Modules

| Module | Role |
|---|---|
| `LockFreeQueue` | the queue, one action per atomic operation |
| `BoundedFifo` | abstract: a bounded FIFO queue with one consumer |
| `LockFreeQueueProofs` | theorems about `LockFreeQueue`, its refinement of `BoundedFifo` among them |
| `AsyncLogger` | the asynchronous loggers; EXTENDS `LockFreeQueue`, so each step of a `log()` or of the logging thread that touches the queue *is* a step of it |
| `AsyncLoggerProofs` | theorems about the asynchronous loggers, on top of those about the queue |
| `RingBuffer` | the ring buffer, one action per call |
| `BoundedDeque` | abstract: a bounded deque |
| `RingBufferProofs` | theorems about `RingBuffer`, its refinement of `BoundedDeque` among them |
| `Lifetimes` | the vocabulary of the next three: holders, values, husks, vacant storage |
| `Option`, `Result`, `Enum` | the tagged unions, one action per operation |
| `OptionProofs`, `ResultProofs` | theorems about `Option` and `Result`, with the refinement of `Slot` by each |
| `AnyError` | `Error<Domain>` and the owning `AnyError` |
| `EnumProofs` | theorems about `Enum` and `AnyError`, with their refinements of `Slot` |
| `Slot` | abstract: a holder of at most one value, call by call; the four above implement it |
| `UniquePtr` | the owning pointer with its four deleters |
| `StatusCode` | status codes, error codes and the five kinds of domains |
| `File` | the file with its stream and buffer, and what it relies on of the C library |
| `ReadWriteLock` | the lock and its guards, threads that wait |
| `OwnerProofs` | theorems about `UniquePtr`, `File` and `StatusCode` |
| `SyncLogger` | the synchronous loggers; EXTENDS `ReadWriteLock`, whose actions are its locking steps |
| `LockProofs` | theorems about `ReadWriteLock` and `SyncLogger` |
| `MCLockFreeQueue`, `MCRingBuffer` | for TLC: an instance for the calls that are right, and a second one on which everything is called, one at a time |
| `MCAsyncLogger` | the policies of the asynchronous loggers |
| `MCLoggers` | the asynchronous loggers, the lock and the synchronous loggers, one at a time |
| `MCLibrary` | the remaining components, which do not know of each other, one at a time |

**LockFreeQueue.** Variables carry the names of the members. A producer's `pc` walks through
`increment_size` (fetch_add and test), `decrement_size` (the failed increment taken back), `claim`
(`m_write.fetch_add`), `take_back` (`m_max_read.fetch_sub`, only `force_push_back` on a full queue),
`store` and `publish` (`m_max_read.fetch_add`). The six push functions of LockFreeQueue.h:218-341 are
the same walk: they differ in what follows a failed `increment_size` (spin, return false, take over a
slot), which is the `op` of the producer, and in how the element is made, which is abstracted. The
consumer's `pop_front` is three steps: test and `++m_read`, move out, `m_size.fetch_sub`. Each atomic
operation is one step and the code between two of them belongs to the second; plain loads of
`m_read` need no step of their own because only the consumer writes it. Elements are
`<<producer, number>>`, so that two of them are never equal by accident; `Vacant` is a moved-from or
default-constructed `T`, or memory not written since it was allocated. A pop leaves in its slot the element
itself or `Vacant`, whichever (`MoveOut`): a trivially copyable `T` is copied by `std::move`, another is hollowed out.
The filling constructors, `clear` and `reserve` allocate the new ring by `allocate_unique<T[]>`, which constructs
nothing, and assign into it (LockFreeQueue.h:79, :186, :209). That is defined for a trivially copyable `T` only, and for
such a `T` these three are modelled; what is shown of runs without them holds for any `T`. Counters are words: `Inc` and `Dec` are modulo `CounterModulus`, 2^32 in the
code. `clear`, `reserve` and the moves use no protocol, so their guard is that nobody is inside an
operation. `accepted` and `delivered` are history: what the pushes claimed a place for and what the
pops handed out. Memory orders are abstracted to sequential consistency, so a property that holds
here says nothing about reorderings that the acquire/release annotations permit.

**AsyncLogger.** `lpc` is where a client's `log()` is before and after its push, `tpc` where
`message_thread_function` is (test the flag, read, sink, acquire; flush after a stop request), `dpc`
where the destructor is. `log()` releases the permit *before* it pushes (Logger.h:776), and only in
the single-threaded logger; the model keeps that order. The stop flag of Logger.h is a `jthread` stop
token or an atomic flag, depending on the standard library: one Boolean either way. The policy is a
template argument: `LogInit` picks one of `Policies` and no step changes it. Entries are the
queue's elements, levels are numbers; formatting and the text of an entry are left out.

**RingBuffer.** A slot holds an element or `Raw`, storage without an object; `m_constructed` is the
vector of flags. Calls that would destroy, read or assign an object that is not there, or touch a
slot or flag outside its array, are undefined behaviour: the model sets `undefined` and stops there,
since nothing is known of what follows. The loops of insert and erase move objects one at a time
away from the gap; `Moved` and `MovedFlags` give their result in closed form, `MoveUndefined` says
whether one of the moves was undefined. `insert_internal` and `insert_emplace_internal` are the same
loop; with a full buffer they take another path, the action `InsertFull`. `T` has a destructor that
is not trivial, like the class the repository's tests use.

**Option, Result, Enum.** A program has a few variables of the type (`Holders`) and calls their
operations in any order. The record of a holder has the members of the class under their names
(`m_is_some`, `m_active`, `m_current_index`, `m_handled`) and one field for the union: `Vacant`, an
object made from a value, or the husk (`MovedFrom`) of one whose value was moved out. The
specialisations for references are a choice made initially (`optionIsReference`,
`resultReferences`); a `reference_wrapper` is copied by a move and never destroyed. The storage
classes (`OptionData`, `ResultData`, the `construct`/`assign`/`destruct` of `Enum`) are operators on
records, the operations of the classes are actions that use them in the code's order. A panic ends
the program; so does a read of a union member that does not live. `Result` is the build with
`HYPERION_RESULT_PANICS_ON_DESTRUCTION_IF_UNHANDLED`; each value is put into a Result once, so
that what becomes of it can be followed. In `Enum` a constructor or assignment may throw, `enumConverts`
says which alternatives accept a value of another, and `enumBuilds` whether `assign` constructs an alternative that does
not live from the value, default constructs it and assigns to it, or, when it has neither constructor, assigns into dead
storage (Enum.h:1549-1570), which stops the model. An exception out of the second leaves the new object alive
under no index; what an exception can leave is `AssignThrew`.

**Slot.** Each of the four records its last call as history (`optionCall` and so on): the name, the holder, the second argument
(another holder, the contents given, or the kind of contents asked for) and the answer. `Slot` fixes, from the call and what the
holders showed before it, what every holder shows after it, the answer, and whether the program ends: a copy makes the named
holder equal to the named source and changes no other, an answer is the contents of the holder asked, on the side asked for, and nothing
else. `keeps` is what a holder makes of contents given to it, for `Enum` the first alternative that accepts them and for the
others the identity; `left` is the husk of contents moved out. Both are chosen initially and never change, and each class
instantiates them with its own operators. Where `Slot` leaves a choice (the program ends or the holder is emptied), the
code has both, depending on what threw or on a flag that `Slot` does not show.

**AnyError, UniquePtr.** `AnyError` is the pointer it owns, null when it is default constructed; a call through `nullptr` stops the model. In
`UniquePtr` a block remembers which deleter state has to free it; invoking a deleter on a freed block or
with another state is the fault the property excludes. `UniquePtr` of an allocator-aware deleter is
invoked on `nullptr` too, and what that does depends on the deleter (UniquePtr.h:438).

**StatusCode.** Codes are small integers and a domain is its type and its id. The lookup tables are
abstracted to what the properties tell apart: success, codes with a counterpart, codes without.
`ConvertibleToGenericStatusCode` is false, because the concept asks a reference type for its
members (StatusCode.h:142); the branches that depend on it are kept. `Comparable` leaves out what is no program: an
`Errno` does not compare with an integer (PosixDomain.h:180), so the other domains cannot have a generic code on their right.
`statusUnchecked` is history: whose code came, itself or through copies, from the `assign` or `clear` that `ErrorCode` inherits. Widths matter in `NTDomain`:
`SignExtended` is the conversion of a negative code to `u64`.

**File.** Each path has at most one stream at a time, and is opened, written, read, sought and closed over and over. A File
comes from `open`, and owns the buffer it gave to `setvbuf`, or from a stream of the caller (File.h:162), and owns
none. With several paths, a File is moved onto one that has another stream open. `validate_open_options` is the list
of its tests, in order, over all 3 x 16 options. The C library is external and modelled as far as `File`
uses it: writes collect in a buffer of `BufferMarks`, `fflush`, `fseek` and a full buffer write it out,
any call may fail, a stream opened to append writes at the end, and reading directly after writing
is undefined. The destructor frees the buffer before the stream is closed (File.h:418, :420); with marks in
the buffer the model stops there.

**ReadWriteLock, SyncLogger.** A call that may wait is two actions, the call and its return. A guard
is its kind, its lock, whether it owns the mutex, and `saw`, history of what the caller last saw or wrote
through it. `std::shared_mutex` is external: it never admits a reader beside a writer or a writer beside anybody, and
the rest is left open as in the standard: whether a reader also waits for a writer that waits, and whether a try fails
without reason. `SyncLogger` composes with it: `log()` of the multi-threaded logger is `LockWrite`,
`WriteReturns`, one step per sink and `GuardDestroy`; that of the single-threaded logger has no lock and one
thread. `set_global_logger` is called while nobody logs, since nothing synchronises it (Logger.h:435).

## 3. Runs

A run that passes checks a promise that holds; a run that expects a violation shows, by TLC's
counterexample, that something a comment promises does not hold (section 6).

| Run | Instance | Shows |
|---|---|---|
| `lfq` | 1 producer, capacity 3, 6 pushes | with one producer: no slot race, in-order delivery, refusal only when full, implementation of `BoundedFifo`, blocked pushes return, accepted elements are delivered |
| | a second queue, capacity 2 to 4, 2 pushes, all operations of its owner | `OwnReserveKeepsOldest`: what `reserve` carries over, the oldest `m_capacity - 1`, it carries over in order, also after `m_size` has wrapped below zero |
| `lfq_mpsc_unpublished` | 2 producers | violation of `DeliveredInOrder` |
| `lfq_mpsc_livelock` | 2 producers, capacity 1 | violation of `PushBackReturns` |
| `lfq_reserve` | 1 producer, capacity 2, `reserve(4)` | violation of `ReserveLosesNothing` |
| `loggers` | see below | the three kinds of logging and locking that involve threads |
| `al_single_stranded` | single-threaded logger | violation of `EveryEntryIsSunk` |
| `al_multi_block_stuck` | multi-threaded logger, BlockWhenFull | violation of `LogReturns` |
| `rb` | capacity 3, the calls of `SoundCalls` | flags truthful, nothing undefined, implementation of `BoundedDeque` |
| | a second buffer, capacity 2 to 4, every call | `AllNoElementTwice`, `AllIteratorPointsAtItsIndex`: whatever is called, no object is in two slots, and moved iterators point where their index says |
| `rb_reserve` | capacity 2, push, pop, reserve | violation of `ReserveKeepsElements` |
| `library` | see below | everything sequential |
| `result_none` | 2 Results with `T` = None | violation of `ResultMovedFromIsDisengaged` |
| `any_error_default` | 2 AnyErrors | violation of `AnyErrorDefaultIsUnknown` |

A run about several things (`subject` in its module) picks one of them initially and runs it alone, through every sequence of its steps.

| Run | Component | Property | What it says |
|---|---|---|---|
| `loggers` | asynchronous loggers: the single-threaded one with its three policies, the multi-threaded one with DropWhenFull, 2 clients, capacity 2, 6 entries | `FlushedBeforeDestroyed`, `DrainedBeforeDestroyed` | entries are flushed before the destructor returns, in order; with two clients the queue is drained although their `log()` never signals |
| | | `AtMostOneStranded` | the sleeping thread has left at most one entry |
| | | `LogReturns`, `DestructorReturns` | `log` and the destructor return |
| | their queue, with two producers | `QuiescentCounts`, `NeverOverclaimed` | the counters agree at rest, no place is given away twice |
| | `ReadWriteLock` | `GuardSeesStable` | what a guard refers to changes only through it |
| | `SyncLogger` | `SinksAgree` | all sinks print in the order in which the logger took the entries |
| | | `SyncLogReturns` | every `log()` returns |
| `library` | `Option` | `OptionHidesNothing` | the flag and the storage agree; a disengaged Option hides at most a husk |
| | `Result` | `ResultTagTruthful` | the tag names the member that lives, and only a disengaged Result is ever read wrongly |
| | | `ResultEveryValueAccountedFor` | a value nobody looked at or overwrote has exactly one Result that will panic about it |
| | `Enum` | `EnumIndexTruthful` | an index below `SIZE` names the alternative that lives |
| | all three, `AnyError` | `...ImplementsSlot` | every call does to the holders it names, and to no other, what `Slot` says, and answers with what the holder it was asked of holds |
| | `UniquePtr` | `UniqueOwnsAndFrees` | one owner per block, the right deleter with it, nothing freed twice |
| | status codes | `ErrorSuccessConfined` | an `ErrorCode` says success only by way of the inherited `assign` and `clear` |
| | | `StatusEqualitySymmetric` | equality depends on the order of the operands only between an NTSTATUS and a Win32 code |
| | `File` | `FilePairIntact` | an open stream has one File, and that File the buffer the stream was given |
| | | `FileKeepsAndAppends` | a file opened with Append has what it had and what writes accepted, once, in order |

**Bounds.** `MaxPushes` bounds the pushes per producer and `MaxPops` the pops; with 6 pushes on a
queue of 2 or 3 slots every counter passes the capacity at least twice, and the queue becomes full
and empty with the ring at every position. Two producers are enough for each disagreement between
producers; a third only adds more of the same steps. `CounterModulus` is larger than the counters can get
except in the second queue of `lfq`, where `m_size` wraps below zero after a `reserve`. `QUEUE_SIZE` of the loggers is the queue's capacity 2. Entry
levels 3 and 4 lie on both sides of `MinimumLevel` 3: an entry at the minimum itself is dropped, which
is what the code's comparison does. The ring buffer's run has no bound on the number of calls: an
element may be stored again once no slot holds it (`Fresh`), so the state space is finite and calls
are made in every order and number. Capacity 3 (four slots) has a first, a last and a middle element
to insert and erase at, with the ring at every position. In `library` two holders suffice because every operation names at most two; two values
tell an object from the one that replaced it. There is no bound on the number of calls except
`MaxMarks` marks in a file and `MaxEntries` entries per thread. `OkTypes` is {value}: `T` = None is the run
`result_none`. A buffer of one mark in a file of two is full, written out and refilled; a second path, to which nothing is
written, is there to be moved onto. The three levels of the synchronous loggers lie below, at and above
each of `MINIMUM_LEVEL` and the sinks' levels (the two kinds of loggers have a constant each for the one setting of Config.h).

**Symmetry.** The elements of the ring buffers, and the holders and values of `library`, are interchangeable; no liveness
property is checked under symmetry.

**Deadlock** is checked in all runs but `library`, `result_none` and `any_error_default`, whose programs end in panics and other stops. A queue whose clients have used up their pushes can always be
popped from, a destroyed logger or buffer stutters explicitly (`Gone`, `Over`), and a program may stop taking locks and logging synchronously
at any time (`NobodyCalls`); that nobody waits for good there is the business of `SyncLogReturns`.

## 4. Fairness

`FairSpec` of the queue: a producer inside an operation keeps running and the consumer keeps calling
`pop_front`. The second is an assumption on the user of the queue: `push_back` spins until there is a
place, so its return depends on it. Nobody is obliged to push. `LogFairSpec`: a client inside `log()`,
the logging thread, and a destructor that has been entered keep running; they are ordinary threads
that the scheduler does not starve. `SyncLogFairness`: a thread inside `log()` runs on, and gets the
mutex if it stays free. Nobody is obliged to log or to destroy the logger. All of it is weak
fairness: where a thread is enabled only now and then (a spinning `push_back` is always enabled) the
model does not assume that it wins.

## 5. Proofs

Every safety property that a passing run checks, the refinements included, is also a theorem (but `StatusEqualitySymmetric`, a fact
about the definitions of equality that TLC decides over the codes):
the run shows it on a small instance, the theorem for every value of the constants that meets the assumptions below. `PROJECT.json` lists them; the
modules lay out the steps.

**Assumptions.** On the constants, each evaluated by TLC in the runs: `QueueAssumption` (a capacity is positive and less than the
modulus, bounds are natural numbers, the operations are those of the class), `ElementAssumption`
(marker values are not elements), `PolicyAssumption` (policies pair a threading policy with a push), `RingAssumption`
(positive capacity, known calls, `Raw` and `None` are not elements), `LifetimeAssumption`, `ResultAssumption`,
`EnumAssumption`, `UniqueAssumption` (objects, vacant storage, `None` and null differ; an Enum has an alternative),
`FileAssumption` (a buffer has room for something), `StatusAssumption` (codes are integers, 0 and -1 among them),
`LockAssumption` (threads and their guards are finitely many), `SyncLogAssumption` (numbers are numbers; `log()` has a
variable for its guard). Where the code is only right in part of its uses, a theorem names the
part as a hypothesis. The instances of `lfq`, `rb` and `library` meet those of their theorems. `loggers`
checks more than the theorems say: it has the overwriting policy as well, and what the properties say of it is checked by TLC only.

| Hypothesis | Says | Why |
|---|---|---|
| `SingleProducer` | one producer, no `force_push_back`, no relocation, no wrapped counter | with two producers order is lost (section 6), with the others too |
| `ManyProducers` | finitely many producers, the rest the same | what is left of the promises with several |
| `AddingPushes` | `push_back` and `try_push_back` are among the pushes | the policies need them |
| no policy overwrites | `Policies` is without `OverwriteWhenFull` | `force_push_back` gives up entries and breaks the counters |
| `OnlySoundCalls` | `Calls` is a subset of `SoundCalls` | the others are defective (section 6) |
| `OkTypes = {"value"}` | `T` is not `None` | a moved-from `Result<None, E>` still reads as Ok |

**LockFreeQueueProofs.**

- `TypeCorrect`: any number of producers, any mix of operations. `TypeOK` alone is not
  inductive: a step stores what an earlier one put in the producer's or the consumer's hands, so
  `TypeInv` adds `InProgress`, that an operation in progress has its operands.
- `SpscInvariant` (`SingleProducer`): `SpscInv` holds throughout. It has three parts. `CountersAgree` says how the four
  counters depend on where the producer and the consumer are: `m_size` counts a failed increment not yet
  taken back, and a slot the consumer has not yet released. `SlotsAgree` says that the producer is at
  the slot of `m_write - 1` and the consumer at that of `m_read - 1`. `ContentsAgree` says where each
  accepted element is: delivered, in the consumer's hand, in the slot of its number, or still with the
  producer. No part is inductive alone: that a store does not destroy an element waiting in another slot
  (contents) needs that the two counters are less than a capacity apart (counters) and that different
  numbers then fall on different slots (`RemaindersDiffer`, the one piece of arithmetic that matters).
- From it: `SpscSlotRaceFree`, `SpscDeliveredInOrder`, `SpscCounts`, `SpscEmpty`, and the action property
  `SpscRefusedOnlyWhenFull`: at the moment of the test the producer has nothing pending, so `CountersAgree` makes `m_size` the
  number of places taken exactly.
- `SpscIsFifo`: the refinement of `BoundedFifo`. `FifoInv` adds to `SpscInv` how far a push is answered (`AnswersAgree`);
  `PendingAgrees` reads the abstract queue off the counters, and then each atomic operation is a push, a pop, a refusal or a stutter.
- `MpscCountsAtRest`, `MpscNeverOverclaims` (`ManyProducers`): `MpscInv`. `CountsAgree` adds up the producers at each
  point of a push: `m_write` is ahead of `m_max_read` by those that store or publish, `m_size` ahead of the places
  taken by those about to claim and those about to take a failed increment back, and the places taken and promised never exceed
  the capacity. `ClaimedOnce` bounds what can have been claimed by what was issued, so that no counter wraps.
- `ReserveCopiesInOrder`: the action property `ReserveKeepsOldest`, without hypothesis. It is what is left of the promise that `lfq_reserve` refutes.

**AsyncLoggerProofs.** A step of a logger is a step of its queue or leaves it alone, so the lemmas about the queue's steps are
cited, not repeated. `Waits` says how the clients, the logging thread and the destructor wait for each other.

- `DrainsBeforeDestroyed` (`ManyProducers`): `ManyClientsInv` is `MpscInv` with `Waits`. The thread ends with nothing
  to read and nobody in a push, and then the counters leave no entry unaccounted.
- `FlushesBeforeDestroyed`, `StrandsAtMostOne` (`SingleProducer`): `OneClientInv` is `SpscInv` with `Waits` and `Covered`: the entries in
  the queue or on their way to it are at most the permits of `m_signal`, plus the read the thread is about to do, plus one. The
  one is the permit that came before its entry and was used up on an empty queue. Without the entry on its way (`Coming`) the
  bound is not inductive.

**RingBufferProofs.** The arithmetic of a ring (a slot's index and an index's slot, one turn) comes first, since no backend
reasons about `%` by itself; later steps use it through `Nth` and `Dist` only.

- `RingTypeCorrect`, `RingMovesOnce`, `RingIteratorInStep`: whatever is called, the defective operations included.
- `RingSound` (`OnlySoundCalls`): `Sound` says that each flag tells the truth (`Truthful`), that each index in use has an object (`InUse`) and that
  nothing undefined was done. `FlagsTruthful` is not inductive without `InUse`: a move of insert or erase from a slot without an object
  would be undefined. Slots outside the range may hold an object too, which the next append there destroys, so
  the invariant does not say that they are empty. `RingFlagsTruthful` and `RingWellDefined` follow.
- `RingIsDeque`: the refinement of `BoundedDeque`. The effect of each call is stated by index (`MovesRun` for the moves of insert and erase), then
  carried to sequences (`SequenceInserted`, `SequenceErased`).

**OptionProofs, ResultProofs, EnumProofs.** The invariants say what one holder's storage may be, and lemmas say what
the operations of the storage class make of good storage; the theorems have one step per group of operations that use the same.
`ResultDropsNothing` needs more: `OneCarrier`, that a value nobody looked at is in one Result that will panic about it, with `ValuesMade` and
`DeadEmpty`, since a copy marks its source as handled and the flag thereby passes from copy to copy. `EnumIndexNamesAlternative` rests on `LeastNatural`: the
search for an alternative finds the first that accepts the value. `OptionIsSlot`, `ResultIsSlot`, `EnumIsSlot` and `AnyErrorIsSlot` prove the
refinements of `Slot` from these invariants, one operation at a time: each is one call of `Slot` with the same holders and arguments.
For `Enum` that covers every relation of conversions and every way of building an alternative.

**OwnerProofs.** `UniqueOwnsOnce`: `UniqueOwnership` says that a block that is allocated has one owner, a pointer with the deleter it came with or
the program. `FileKeepsPair` and `FileAppendsOnce`: `FileInv` ties each stream's mode to the options of the one File that has it (`FileOwned`), so
that a file opened with Append is open in a mode that appends, and then disk and buffer together are what was accepted (`Stored`), for any
number of Files and streams. `ErrorsStayErrors`: `ErrorSuccessConfined` is inductive, since a copy takes the history of its source along.

**LockProofs.** `MutexCounts`: the count of a mutex is the number of read guards that own it, and it is exclusive exactly while
one write guard does. `LockInv` adds what a waiting call relies on: its target variable stays free, and a guard that is being copied stays. `GuardsSeeStable`
follows. `SinksPrintInOrder`: a step of a synchronous logger is a step of its lock, or replaces the locks while nobody has a guard, so
`LockInv` holds in it (`SyncLogInv`); `LogLockSides` ties where a thread is in `log()` to its guard, which gives `OneAtSinks`, and
`OutputOf` says that a sink has printed all that is due, or all but the entry of the one thread that has yet to reach it.

**Only model-checked.** Liveness (`PushBackReturns`, `AcceptedIsDelivered`, `LogReturns`, `DestructorReturns`, `SyncLogReturns`): fairness
and ENABLED are out of the prover's reach. The violations of section 6, which are counterexamples. That the sink's output is counted by place (`IsOutput`)
and not by `SelectSeq` is because the prover cannot unfold the latter.

## 6. Where code and comments disagree

With a run, and a finding in `PROJECT.json` that quotes the line:

1. **The queue is not safe for several producers** (LockFreeQueue.h:231, `lfq_mpsc_unpublished`). A
   push publishes by adding 1 to `m_max_read`, not by publishing its own slot. If the producer of a later
   slot is done first, an earlier, unwritten slot becomes readable.
2. **Two blocked `push_back` calls can keep each other out** (LockFreeQueue.h:223,
   `lfq_mpsc_livelock`), each failing on the other's increment that is not yet undone, although there is a
   free place all the time.
3. **An entry can be stranded** (Logger.h:776, `al_single_stranded`): the permit comes before the
   entry, the logging thread may use it up on an empty queue.
4. **BlockWhenFull with the multi-threaded logger blocks for good** (Logger.h:983,
   `al_multi_block_stuck`): that logger's `log()` never signals, so nothing is drained before the
   destructor, and the destructor cannot run while a `log()` is blocked.
5. **`reserve` on a ring buffer that is not full makes up elements** (RingBuffer.h:633, `rb_reserve`).
6. **`reserve` on a queue loses the newest element of a full queue** (LockFreeQueue.h:201, `lfq_reserve`): the counters are
   set from the old capacity, so a queue that is not full claims elements nobody pushed, too.
7. **A moved-from `Result<None, E>` is not disengaged** (Result.h:333, `result_none`): the `None` assigned to it is an Ok.
8. **A default constructed `AnyError` is not an unknown error** (Error.h:445, `any_error_default`): it owns nothing, and
   `message()` goes through `nullptr`.

Met while modelling; the models do what the code does, and no run is dedicated to them:

- `force_push_back` on a full queue stores into the slot of `m_max_read % m_capacity`, which is the oldest
  element's, not the "most recent entry" of LockFreeQueue.h:257-258. The order of what is
  delivered afterwards changes, which is why the properties on order exclude it.
- `front()` indexes with `m_read` itself, not reduced by the capacity (LockFreeQueue.h:351).
- `clear`, `reserve` and the filling constructors of the queue assign into memory in which nothing was constructed (:79, :186, :209),
  which only a trivially copyable `T` allows; and such a `T` is copied by a pop, so that elements `reserve` makes up may be ones
  delivered before. Moving sets `m_max_read` from the size (:425).
- With several producers `try_push_back` may be refused while a place is free (:429), and `full()`
  compares for equality with a counter that may be above the capacity (:149).
- After 2^32 operations the comparison in `pop_front` (:360) and a capacity that does not divide 2^32
  go wrong. The proofs assume fewer pushes.
- In the ring buffer, beside `reserve`: inserting into a full buffer anywhere but at the front
  (RingBuffer.h:1227), `clear` after the ring has turned (:645), `emplace` at a position (:734), erasing a
  range across the end of the storage (:1195), flags one short after `reserve` (:622), and move assignment
  (:1067). They are actions of the model, outside `SoundCalls`; `rb` shows that the
  remaining calls are sound in every order.
- Iterators stop at the capacity, not at the size (:122), so `++` on the last element of a buffer that is not full
  does not give `end()` by its index alone, although pointer and index agree, as the runs show.
- `RingBuffer<T>` for a trivially destructible `T` never sees a constructed slot (RingBuffer.h:1100), so insert and erase
  move nothing.

In the values:

- `map`, `match` and `and_then` on a disengaged `Result` read its error (Result.h:784).
- Copying an `Enum` searches the first alternative that accepts the value, which need not be the one it had (Enum.h:409), and a move
  assignment then panics.
  An assignment that throws leaves an object alive under no index, an alternative that can neither be constructed nor default
  constructed is assigned to where none lives (:1567), and assigning
  from a valueless Enum uses its index, which is out of range (:524).
- `AllocatorAwareDeleter` is invoked on `nullptr` (UniquePtr.h:438).
- A moved-from `AnyError` has no object: copying it or asking for its message goes through `nullptr`
  (Error.h:493).
- `ConvertibleToGenericStatusCode` is never satisfied, so that codes of different domains never compare equal by way of
  the generic code (error/GenericDomain.h:263). `NTDomain` extends the sign of a negative code (error/NTDomain.h:362).
  Two equal generic codes are therefore never equal, and an NTSTATUS may equal a Win32 code that does not equal it (error/NTDomain.h:194).
  `ErrorCode` inherits `assign` and `clear`, by which it can come to hold success (error/StatusCode.h:269).

In `File`: the buffer is freed before `fclose` writes it out (File.h:418-420); `read_line` loops for ever on a line that
is not empty (File.cpp:242), although File.h:356 says it returns the line; the options {} open to append (File.cpp:45); errors are read
from an `errno` no call has set (File.cpp:198); the seek back in `size()` (File.cpp:291) and `fclose` (File.h:70) may fail unnoticed.

In the locks and loggers:

- Copying a read guard locks again (ScopedLockGuard.h:249), which the standard does not allow of a `shared_mutex`: with one that prefers
  waiting writers the thread waits for itself. No property is stated, since it would be one of the mutex.
- A moved-from guard still gives access to the value (ScopedLockGuard.h:87). Move assignment of `ReadWriteLock` does not compile.
- `GlobalLog` is not synchronised (Logger.h:435).
- An entry exactly at the minimum level is dropped, and the level DISABLED disables nothing (Logger.h:709).
- The semaphore may be released beyond its declared maximum (Logger.h:829).
- `FileSink` ignores a failing `println` (Sink.cpp:96), and `StderrSink::sink` is declared but not defined.

## 7. Not modelled

- `RingBuffer<T>` for a trivially destructible `T`. The copy operations of the ring buffer and
  `RingBuffer(capacity, default_value)` use members that do not exist or are not const and cannot be instantiated, like
  the move assignment of `ReadWriteLock`.
- Weak memory orders: every atomic operation takes effect at once for everybody.
- Exceptions, except in `Enum`: the other classes require `noexcept` forms.
- `ChangeDetector`: one comparison and one assignment, by one caller.
- The text of messages and the lookup tables of the status domains, beyond which codes they relate; formatting and
  printing, which are I/O; panics and backtraces, which end the program; traits, concepts and macros,
  which exist at compile time only.

## 8. Plan

Order: what threads share first, then lifetimes, then values.

1. *Done*: `LockFreeQueue` with `BoundedFifo`; `AsyncLogger` on top of it; `RingBuffer` with
   `BoundedDeque`; type correctness and the single-producer theorems.
2. *Done*: `ReadWriteLock` with its guards; `SyncLogger` composed with it; the global logger.
3. *Done*: `Option`, `Result`, `Enum`, `AnyError` with the abstract `Slot`; `UniquePtr`.
4. *Done*: `File`; `StatusCode`.
5. *Done*, theorems: the safety properties and refinements of the passing runs.
6. *Next*, theorems that say more than the runs: `DeliveredInOrder` for several producers up to the first entry published out
   of turn; the refinement of `BoundedFifo` by the queue inside a logger; `SoundCalls` extended by the calls that
   are right under a condition (`reserve` on a full buffer, `clear` before the ring has turned).
