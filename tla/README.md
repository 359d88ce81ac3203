# Formal models of cpp-design-patterns

The repository is a collection of 25 small, independent C++ programs, one per
design pattern, under `src/examples/<name>/main.cpp`. They share one header,
`examples/common/log.h`. There are no tests: what a program promises is in the
comment at its head, in the comments beside its code, and in the code itself.

This directory holds TLA+ specifications of the programs that have behaviour
worth checking, the TLC configurations that check them on small instances, and
proofs, checked by TLAPS, of the theorems that hold for every instance.

## 1. Inventory

The programs do not call each other. Within a program, components interact by
shared state under a mutex, by condition variables, atomics, futures and pipes
(the four concurrent programs), or by plain calls (all others).

| program | state | operations | what is hard | what makes it correct |
|---|---|---|---|---|
| bounded_queue | `q_`, `closed_`, two condition variables | `push`, `pop`, `close`; producer and consumer threads | lost wakeups, closing while threads are blocked, notifying after unlock | FIFO, bounded, drained after close; everybody returns |
| thread_pool | `queue_`, `stopping_`, workers, futures | constructor, `submit`, `worker_loop`, destructor | notify outside the lock, shutdown with queued jobs, jobs that submit jobs | every accepted job runs once and its future becomes ready; the destructor returns |
| futures_promises | `done`, `remaining`, `last_error`, promise | `try_set_value`, `report_failure`; caller with timeout | value and last failure racing; caller that gave up | promise settled exactly once; error only if all failed |
| reactor | pipes, watchers, `revents`, descriptors | `poll` loop, `drain_one_message`, writer threads | stale readiness, blocking reads, hangup with unread data, ownership of descriptors | messages whole and in order, no blocking inside a handler, the loop ends |
| state | current state object | connect, authenticate, query, socket events | events that arrive late, several answers under way, events of an earlier connection | the state follows the socket; queries run only on a connection the server accepted |
| command | queue of commands, connection flag | `execute_all`, `execute_with_retry` | the connection lost in the middle of a batch or between two attempts | nothing leaves the queue unexecuted; a retried command is executed once or not at all |
| facade, proxy, abstract_factory, flyweight | caches | look up, load, fill | duplicates, alignment of results, staleness | what is cached equals what the source said, or the entry the cache was made with |
| nvi | cache, hit counters | `get`, `put`, `remove` | overrides callable past the validation | validation always precedes the operation |
| strategy | round-robin counter, load per backend | `choose_backend`, `handle_request` | wrap-around of the counter | requests, or loads, stay balanced |
| rule_of_0_5 | buffers of `Arena` | copy, move, swap, `write`, `read` | ownership over long sequences, arithmetic of bounds | each buffer freed exactly once |
| traits_tag_dispatch | none | key encoding | delimiter inside a part | different keys are encoded differently |
| composite | tree of routes | `try_handle` | order, prefixes | first match in depth-first order |
| observer | handlers per event type | `subscribe`, `publish` | subscribing while publishing | handlers called in order |
| smart_pointers, raii, pimpl, adapter, bridge, decorator, factory_method, type_erasure, visitor | none that changes | construction, forwarding, formatting, I/O | | |

`log_line` takes one mutex for one line of output and waits for nothing while
it holds it. `worker_loop` logs once with `mu_` held; as no thread takes `mu_`
while it logs, no cycle of waits arises, and logging is left out of the models.

## 2. Plan

| module | models | order |
|---|---|---|
| `BlockingChannel` | what a bounded blocking queue promises | done |
| `BoundedQueue`, `MCBoundedQueue`, `BoundedQueueProofs` | bounded_queue | done |
| `ThreadPool`, `MCThreadPool`, `ThreadPoolProofs` | thread_pool | done |
| `Race`, `FirstSuccess`, `MCFirstSuccess`, `FirstSuccessProofs` | futures_promises and what it promises | done |
| `Reactor`, `ReactorProofs` | reactor | done |
| `ArenaValues`, `Arena`, `MCArena`, `ArenaProofs` | rule_of_0_5 and what it promises | done |
| `ProfileFacade`, `RoleFactory` | facade, flyweight | done |
| `ReadThrough`, `UserRepository`, `FlagProxy` | what a read-through cache promises; abstract_factory, proxy | done |
| `MCLookups`, `LookupsProofs` | the four programs above together | done |
| `Connection`, `CommandQueue`, `Routing`, `KeyEncoding`, `MCServices`, `ServicesProofs` | state, command, strategy, traits_tag_dispatch | done |
| `CacheService` | nvi | done |

Left for later: theorems about `CacheService` (its public operations alone keep
`OnlyValidStored`), and about `Reactor` with an owner that gives the descriptor
up, the two places where the code does not do what its comments say.

No module that is proved about uses a `RECURSIVE` operator, parameters are
constants with a named assumption, and each operation is one action.

## 3. The models

### BoundedQueue

All of `q_` and `closed_` is accessed with `mu_` held, so one action is one
critical section, from the acquisition of `mu_` on entry to `push` or `pop`, or
after `wait` woke up, to its release on return or when `wait` blocks. The wait
sets are the threads whose `pc` is `"waiting"`. `notify_one` moves any one
waiter to `"notified"`, and a notified thread still has to get `mu_` and test
the predicate again: in between another thread may take what it was woken for.
`SpuriousWakeup` is the freedom a condition variable has to wake a thread for
no reason. `close()` is three actions, `CloseSetFlag`, `CloseNotifyEmpty` and
`CloseNotifyFull`, because it notifies after releasing `mu_`.
`producer()`, `consumer()` and `main()` are included; `JoinProducers` tells
`main()` as written, which joins the producers first, from an owner that closes
at any moment, which is what the `closed_` branch of `push` is for.

`BlockingChannel` is what the callers are promised: a FIFO channel with neither
lock nor wakeups. The refinement mapping hides the wait sets: a thread that is
calling, waiting or notified is `"active"`.

### ThreadPool

As above: an action is a critical section of `mu_` or a step outside it.
`submit()` is two actions (`Submit`, `SubmitNotifies`), as it notifies after
the unlock; so is the destructor (`Stop`, `StopNotifies`), followed by `Join`.
The future of a job is the state of its `packaged_task`. A call of `submit` on
a pool whose destructor has begun is possible without misuse only for a job
that submits to its own pool, so jobs in `Spawning` submit one more; when that
is refused, the exception of `submit` ends the job and is stored in its future.
`AwaitResults` tells `main()` as written, which reads all futures first, from
an owner that destroys the pool at once. `f.get()` would rethrow an exception and
end `main()`; it is modelled for a value only, since a future gets an exception
only from a pool that is stopping, and then `main()` awaits nothing.

### FirstSuccess

One action per atomic operation, critical section of `mu` and call on the
promise. `Lookups` may be any finite set (the example starts two), each lookup
may return or throw, and the caller of `run_lookup_demo` may time out at any
moment before the promise is set. `outcome` records what `fn()` did.
`Race` is the promise to the caller: settled once, with a value of a lookup
that succeeded, or with an error when all have failed.

### Reactor

One action per system call. A message is two tokens in its pipe, its text and
the newline. `Write` writes a whole line at once: POSIX makes the write of a
line shorter than `PIPE_BUF` to a pipe atomic, and the example's lines are short,
so the loop of `write_message` that goes on after a partial write ends after one
turn. `POLLERR`, the third bit the loop tests, is not reported for a read end.
`Poll` stores what the kernel reports at that moment in `revents`; handlers
later in the scan act on it when it may be old. `Read` is enabled only when
`read` would return, so a state in which neither `Read` nor `ReadEof` is
possible inside a handler is a loop blocked in `read`. `readOpen` is the
kernel's side of a read end, `watched` the loop's.

### Arena

One action per special member, `swap` and `write`; `Contents` is what
`read(0, size_)` returns. `heap` maps each address that `malloc` may return to
the bytes of its block, or to `Unallocated`, so that sharing, leaking and
freeing twice are visible. The bytes of a new block are any. The bounds test is
computed modulo the width of `size_t`, as in the code, and callers may ask for any
offset. A sum `offset + s.size()` that wraps passes the test: `WriteWraps` is that
write, which `memcpy` begins before the block, over memory that is nobody's or
another arena's, and ends within it; what it does to the data of `malloc` itself is
left out. A failed `malloc` or bounds test throws before anything has changed and
is no step; an arena assigned to itself returns at once and is none either. Of
`read` there is the copy at its end only, for all of the block: its test is that
of `write`, and it changes nothing.
`ArenaValues` is the promise: an arena is a value, without pointers. The
refinement mapping sends an arena to its contents. `ImplementsValues` excepts by name
the one operation that breaks the promise, a write that wraps.

### The lookups

`ProfileFacade` does a whole `fetch_profiles` in one action, for any batch of
ids, repeated and unknown ones included; results of the cache and the database
are sequences aligned with their ids, `Merge` writes by remembered positions.
`MissedPositions` is the increasing list of the positions without a profile,
which the loop of the code builds in one pass.
`UserRepository` and `FlagProxy` are caches in front of a source; both are
shown to implement `ReadThrough`: each answer is the source's, or else an entry
the cache was made with (the repositories have one each, of a user that their
databases do not know), the source is not asked about what is kept, and exactly the answers worth keeping are kept (the
repository does not keep "no such user", the proxy keeps `false`). `RoleFactory`
numbers role objects in the order of their creation, so that sharing and
duplication differ although the objects are equal.

### Connection

`state` is `state_`; a handler is the state it leads to. The socket and the
server are the environment: sockets open, fail and close, the server answers
each token or sends other bytes, and all of it reaches the connection through
`events`, later and in order. `tokens` and `verdict` are the server's side: the
tokens it has not answered, and its first answer.
Calls and events that a state only logs change nothing; an event is consumed.

`connect()` does not ask what became of the last socket, and events do not say
which socket they come from. `AUTH_FAIL` makes the connection `Disconnected` with
the socket still open, so a caller may connect again too early: the old socket is
then `abandoned`, and what it still raises is taken for the new one's. Nothing in
the repository says how callers should reconnect. The variable `waits`, fixed at
the start, says whether these callers wait until the last socket is closed and
all its events are delivered; both kinds are checked. `StateFollowsSocket` has two
halves. `NothingMissed` holds for all callers: an event that the connection waits
for, the opening of its socket, the first answer or the close, is still to be
delivered. `NothingMistaken` holds for callers that wait, and only for them: the
connection is `Ready` only on a socket whose server accepted first, gives a socket
up only on its own close or refusal, and is not told of a socket twice.

### CommandQueue

A call is a sequence of actions, one per command executed or attempted, and
the connection may be lost between any two. What the three kinds of command
write is one `Execute`; that the statement either throws before it has done
anything or is executed is how `PostgresClient` is written.
Each call of `execute_with_retry` has a `max_attempts` of its own. Zero, which
stands for the negative ones too, allows no attempt: the loop ends at once and
the call returns having done nothing (`LoopEnds`). `execute_all` does not use it. A batch that threw stays queued as a whole, so executing it
again repeats its first commands: the comment at line 160 calls it a transaction
batch, but there is no transaction in the program to promise more.

### Routing and KeyEncoding

`Routing` starts from `make_backends()` and chooses either strategy; `next_`
counts modulo `NextMod`, which stands for 2^64 and is, like it, no multiple of
the three backends. `in_flight` only grows, as in the code. `chosen` and
`handled` count what the program does not: how often each backend was chosen
and how many requests there were. There is at least one backend, as
`make_backends()` has three: of none neither strategy could choose (`next_ % 0`,
and the end of an empty vector dereferenced, are undefined). The work of a request
is what it adds to a load, so not negative; the `int` of the code is not checked.
`KeyEncoding` builds two keys by the same sequence of typed `append_part` calls
and remembers whether the values were the same. Different sequences of types
may give equal keys, and the program does not claim otherwise.

### CacheService

The public operations check, count and call the override; `InMemoryCache` makes
the overrides public, so `Next` also has the direct calls. A key or a value is
its length. `RedisCache` keeps no state, and nothing in the file takes a lock.

## 4. The runs

| run | question | bounds |
|---|---|---|
| `bounded_queue_early_close` | the queue is closed while threads are blocked | 2 producers, 2 consumers, one slot, 2 items each |
| `bounded_queue_main` | `main()` as written, progress without the help of `close()` | the same with 2 slots, 3 items each |
| `thread_pool_destroy` | destroyed with jobs queued, running and spawning | 3 workers, 2 jobs that submit one more each |
| `thread_pool_main` | `main()` as written, all futures read first | 2 workers, 3 jobs, one of them spawning |
| `first_success` | values, failures and the timeout in any order | 3 lookups |
| `reactor_loop` | the event loop as written | 2 sources, 3 messages each, pipes that hold 2 |
| `arena` | who owns which block, are arenas values | 3 arenas of at most 2 bytes, 4 addresses (symmetric), a `size_t` of 8 values, offsets 0, 1, 2 and 7 |
| `lookups` | answers and caches of facade, abstract_factory, proxy, flyweight | 4 ids and batches of 3, 6 ids in all; 2 families and 4 users; 3 flags; 4 roles and 4 users |
| `services` | state, command, strategy, traits_tag_dispatch | 4 events, 2 tokens, 1 abandoned socket; 3 commands, 0 to 3 attempts, 5 statements; 3 backends, 9 requests, counter of 8; keys of 2 parts, strings of 2 characters |
| `nvi_direct_calls` | validation and direct calls (a violation) | keys of length 0, 1, 256, 257 |
| `key_zero_bytes` | keys with zero bytes in strings (a violation) | 2 parts, strings of 2 characters |
| `reactor_owner` | who closes the read ends (a violation) | 2 sources, 1 message each |

What the properties say, and where a reader may expect them to fail:

- `NoLostWakeup` (queue and pool) relates the length of the queue to the number
  of woken threads. It would fail if a notification were lost, or if a running
  thread could take an item without the woken one going back to a predicate
  that is still right.
- `CloseWakesEveryone` and `StopWakesEveryone`: no thread slips into a wait
  between the setting of the flag and the notification that follows it.
- `ProcessedAtExit`, `NothingRefused`, `DrainedAtExit`, `AcceptedOnce`:
  accounting of items and jobs from acceptance to completion.
- `ImplementsChannel` and `ImplementsRace`: the whole component, liveness
  included, implements its abstract specification. In `bounded_queue_main`
  a lost `notify_one` would show here: `close()` comes only after the producers
  have finished, so it cannot cover for it, as it does in the other run.
- `OneClaim`, `ErrorMeansAllFailed`, `SettledWhenAllReturned`: the promise is
  claimed by one thread, an error is the last recorded one and only given when
  all lookups failed, and a caller that timed out and joined finds it settled.
- `NeverBlocksInRead`, `DeliveredInOrder`, `RetiredWhenDrained`: the blocking
  byte-wise reads are safe because messages are written whole, each dispatch
  reads one, and a hangup is acted on only at the end of the data.
- `MainEventuallyReturns`, `DestructorReturns`, `AcceptedJobsComplete`: nobody
  waits for ever.

- `OneOwner` and `ImplementsValues`: after any sequence of copies, moves and
  swaps each block has one owner and writing one arena does not show in another,
  unless `offset + s.size()` wraps.
- `AnswersAligned`, `EachIdCountedOnce`: a batch is answered in its order and
  counted by where each id was found, with ids repeated in it.
- `ReadThroughCaches`: two implementations of one abstract specification, whose
  second half (the source is not asked again) no caller can observe.
- `RolesShared`: one object per name, none unused.
- `StateFollowsSocket`: the connection is what its socket is, up to the events
  it has not been told. It fails if an event is missed in some state, the first
  answer included, and, for callers that wait before they connect again, if an
  answer or an event is taken for what it is not.
- `QueuedUntilApplied`, `RetryAppliesOnce`: commands are accounted for when the
  connection is lost at the worst moment. Only a retried command is executed at
  most once; a batch that threw is executed from its start when it is run again.
- `Balanced`: with round robin two backends differ by one request, and by one
  more for each wrap of the counter; with least loaded the loads differ by no
  more than at the start or by the largest request.
- `Unambiguous`: no two sequences of values of the same types share a key, with
  zero bytes in numbers but not in strings.

`MCLookups` and `MCServices` put independent programs into one state space: a
behaviour chooses one of them at the start and leaves the others alone, so the
state spaces add up and nothing is claimed about combinations.

The bounds are the smallest that make the cases meet: with two threads per side
and fewer slots than items both wait sets of the queue are non-empty at times
and two woken threads compete for one slot; three workers and up to four jobs
let one worker block, one run and one leave at once; with three lookups the
last failure differs from the first and from the second; and pipes that hold
two of three messages make writers wait and hangups overtake reads. Three arenas
are what an operation on two leaves alone one of; a batch of three ids holds a
hit, a miss and a repetition; two tokens make two answers cross, and one
abandoned socket is enough to mistake its events; the offset 7 is the largest of
a `size_t` of 8 values, so a write of one byte there hits the byte before the block,
and one of two bytes the first of the block too; five statements
are a batch that threw after two and its repetition; nine requests pass the wrap
of a counter of eight; two parts have a boundary to shift.

Each run has `CHECK_DEADLOCK FALSE`, because each program ends; that it does
is a liveness property or part of the refinement.

### Findings

`reactor_owner`: the event loop closes `watcher.fd` when a source ends
(`reactor/main.cpp:236`), but the descriptor belongs to `api.read_end` or
`metrics.read_end`, whose destructor closes the same number again when
`main()` returns. `UniqueFd` is documented as the owner of its descriptor
(line 48). Here the second `close` fails harmlessly; in a program that opens
descriptors in between it would close one of those.

`nvi_direct_calls`: the head of `nvi/main.cpp` promises that "locking, logging,
and validation always run, regardless of override" (line 9), and line 54 calls
the overridable members private. They are protected there and public in
`InMemoryCache` (from line 86), so `mem_cache.put_impl("", value)` stores an empty
key, with neither validation nor metrics; and there is no lock.

`key_zero_bytes`: line 43 of `traits_tag_dispatch/main.cpp` ends strings with a
zero byte "so boundaries are unambiguous", but a `std::string` may contain zero
bytes: the pair `"\0"`, `""` has the key of the pair `""`, `"\0"`.

## 5. Fairness

Weak fairness of each thread's next step: the operating system keeps scheduling
every `std::thread`, and a thread that asks for a mutex gets it in the end. No
fairness is assumed of spurious wakeups, of which waiter `notify_one` chooses,
or of which thread wins a mutex first. Jobs and lookups are assumed to
terminate: those of the examples compute or sleep for a fixed time.
`BlockingChannel` promises that some send and some receive happen while one is
possible, not that each caller gets a turn, because a mutex makes no such
promise. The sequential programs make no progress of their own, and their
properties assume no fairness.

## 6. What is proved

Every invariant of the passing runs is a theorem, and so are their action
properties and the safety halves of their refinements; what is left to TLC is
at the end of this section.

`BoundedQueueProofs`, from `BoundedQueueAssumption` alone (finite disjoint sets
of threads, at least one consumer, positive capacity, any number of items,
`main()` of either kind):

- `TypeCorrect`: `TypeOK` is an invariant. It is inductive; the one part that
  is not a type is that `closed_` is set exactly when `main()` has passed
  `CloseSetFlag`, which the other proofs use.
- `CloseWakes`: `CloseWakesEveryone` is an invariant, inductive on top of
  `TypeOK`: after the notification `closed_` is set, and with `closed_` set both
  predicates hold, so nobody blocks.
- `NoWakeupLost`: `NoLostWakeup` is an invariant, inductive on top of `TypeOK`.
  For each action the proof says how the length of the queue and the set of
  notified threads change; three lemmas on cardinalities (`LosesAtMostOne`,
  `GainsOne`, `NotifiedFinite`) turn the sets into numbers.
- `ChannelRefinement`: `SafeSpec => Channel!SafeSpec`. Each action is shown to
  be one action of the channel or to leave it unchanged.
- `CountsEveryItem` and `NothingIsRefused`: `ProcessedAtExit` and `NothingRefused`
  are about the end of `main()`, and `CountInv` is what holds on the way there:
  an accepted item is counted, with a consumer that handles it or in the queue;
  who is done has pushed everything; who was refused saw `closed_`; and a
  consumer that returned left an empty queue behind that nothing enters again.
  `Accepted` is a set of pairs of a producer and the number of one of its items,
  so that the three counts add up by facts on cardinalities. Without consumers
  the items would stay in the queue, hence the assumption; `main()` starts two.

`FirstSuccessProofs`, from `FirstSuccessAssumption` alone (a finite set of
lookups, `Unset` none of them):

- `TypeCorrect`: `TypeOK` is an invariant, and inductive thanks to two parts that
  are not types: `remaining` is the number of lookups that have not been counted
  as failed, and `Paths` ties the position of a thread to how its `fn()` ended
  and to its error having been recorded.
- `ClaimedOnce`: `OneClaim` is inductive on top of `TypeOK`.
- `ErrorOnlyWhenAllFailed`: `ErrorMeansAllFailed` is not inductive, as the thread
  that sets the exception read `last_error` earlier. `ErrorPath` carries over
  from the decrement that found one lookup left to `set_exception` that all
  failures are counted and, once it has been read, that the error to be
  delivered is the last one.
- `SettledAfterJoins`: `SettledWhenAllReturned` follows from `OneClaim` and
  `SomeoneClaims`: whoever returned from `try_set_value` has left `done` set, and
  when all failures are counted `done` is set or a thread is about to set it.
- `RaceRefinement`: `SafeSpec => R!SafeSpec`. `fn()` ending is `End`, setting the
  promise is `Settle`, all else is a stutter.

`ArenaProofs`, from `ArenaAssumption` alone (any arenas, addresses and bytes; the
markers are no strings; sizes and offsets are of type `size_t`):

- `TypeCorrect` and `EveryBlockOwnedOnce`: `TypeOK` and `OneOwner` are invariants.
  Neither is inductive alone: an operation leaves the contents of the arenas it
  does not name as they are only because no two share a block, and a fresh
  block is nobody's only because destroyed arenas hold none. `IInv` is both.
- `ValuesRefinement`: `Spec => ImplementsValues`. The same lemma that shows each
  action to keep `IInv` shows it to be the operation on values it stands for,
  or the write that wraps, which is no operation on values: it changes the bytes
  of blocks and neither their sizes nor their owners, so `IInv` outlives it.

`ThreadPoolProofs`, from `ThreadPoolAssumption` alone (any finite set of workers,
any number of jobs, any of them spawning, `main()` of either kind):

- `TypeCorrect`: `TypeOK`, inductive with the part that a worker holds a job
  exactly while it runs one.
- `StopWakes` and `NoWakeupLost`: as for the queue, with one more way to be
  on time: `submit()` notifies after the unlock, in `main()` or in a job, so that
  what covers a queued job may be a notification still to come.
- `JobsAcceptedOnce`, `DestructorDrains`, `NothingIsRefused`: none of the three is
  inductive. `IInv` adds `OnePlace` (a pending job is at one position of the
  queue or with one worker, and no other job is at any), `MainsJobs` (which jobs
  `main()` has submitted so far and which futures it has read), `ChildrensJobs`
  (the job that a job submits has been accepted before the job returns, and has
  been refused exactly when it threw) and `Stopped` (a worker returns from a
  stopping pool with an empty queue only).

`ReactorProofs`, from `ReactorAssumption` alone (any number of sources and
messages, any capacity of the pipes that a line fits):

- `TypeCorrect`: `TypeOK`, in which `active_sources` is the number of watched
  descriptors.
- `DeliversInOrder`: `Stream` says of each source that what its handler has
  logged, then what the handler is reading, then what is in the pipe, are the
  lines its writer has sent; all of a line but the text being read is whole.
- `NeverBlocks`: `StillReady` carries over from `poll` to the handler that a
  bit of `revents` that has not been handled in this scan is still true: only
  the handler of a source takes bytes out of its pipe, and a pipe that has hung
  up stays so.
- `RetiredDrained`: at the end of the data `Stream` leaves nothing undelivered,
  and the loop acts on a hangup only there.

`ServicesProofs`, from `ServicesAssumption` (at least one backend and one value of
the counter; bounds are numbers):

- `FollowsSocket`: for `NothingMissed`, whenever the callers connect, `MissedInv` adds
  only that the server has no token before the connection is told of the socket.
  For `NothingMistaken`, of callers that wait, `OneSocket` says what may still be
  under way: events of one socket, `"connected"` only as the first and to a
  connection that is connecting, `"closed"` only as the last, and to a connection
  that authenticates the server's first answer before any other.
- `KeepsUntilApplied` and `AppliesOnce`: two action properties. `QueueInv` says how
  far a call has come: a batch has executed its commands up to the next one, in
  order, and a retried command nothing, for any `max_attempts`.
- `BalancesRequests`: since `next_` last wrapped each backend has had its whole
  rounds, and those before the next one one more (`Rounds`, for the increments of
  `%` and `\div`, lemma `Successor`); each wrap may set two backends apart by one
  more. For the least loaded, `LoadsClose` is inductive because the backend that
  takes the work is the least one.
- `EqualKeysEqualParts`: `KeyInv` is that keys of different values disagree at some
  position that both have, which survives whatever is appended, while equal
  keys stay equal only if the parts are. The hypothesis that no string contains
  a zero byte is needed: `key_zero_bytes` shows what happens without it.
- `TypeCorrect`: the types of the three components.

`LookupsProofs`, from `LookupsAssumption` (the value for nothing is no id, number,
truth value or name; bounds are numbers). The ids, the cache and the rows of the
facade are any sets; flags, roles and the users of the two families are the
code's:

- `AlignsAnswers` and `CountsIdsOnce`: `MissedPositions` is defined by a choice, so
  the first lemma shows that there is such a list (`ListExists`: a shortest
  interval with a set that cannot be listed would end with an element of it),
  the next that it is one to one with the missed positions (`ListsAll`). With
  that `Merges` follows each position through the merge, and `Counts` maps the
  ids found by the database to their positions. `FacadeInv` adds that the cache
  keeps what it was made with, as an id that only the cache knows is answered
  from there alone.
- `ReadsThroughCaches`: each `get_user_name` and `is_enabled` is a `Hit` or a `Miss`
  of `ReadThrough`. That a kept answer is the source's, or an entry the cache was
  made with, needs the invariants `RepositoryInv` and `FlagInv`.
- `SharesRoles`: `RoleInv` says that an object is known under one name, which is
  what makes the sharing exact, and that every object has a user.
- `TypeCorrect`: the types of the four programs.

Only model-checked: all liveness, that is `MainEventuallyReturns`,
`DestructorReturns`, `AcceptedJobsComplete` and the fairness halves of
`ImplementsChannel` and `ImplementsRace`, as the prover treats neither `ENABLED` nor
fairness; and the three violations, which are counterexamples. Two arguments
above need an induction over data (`LeastLoadedIsLeast`, `ListExists`). They are made as a
least counterexample, from the well-foundedness of `<` on the natural numbers;
what a recursive definition computes is not proved anywhere, and no module
declares a `RECURSIVE` operator.

## 7. What is not modelled

The components marked `not_modelled` in `PROJECT.json` have no state that
changes after construction, or are I/O, construction, forwarding or formatting.
`composite` builds a routing tree and then only reads it, and `observer`
subscribes all handlers before it publishes; a handler that subscribes while its
event is published would invalidate the loop of `publish`, but the program has
none. Of `rule_of_0_5` the class `ResponseBuffer`, and of
`traits_tag_dispatch` the logging traits and `to_hex`, are left out.

Inside the modelled programs the following is left out: log output; the values
computed by jobs and lookups; the length of the sleeps (any interleaving is
allowed instead); failure to start a thread and errors of system calls, which
end the process; names, tiers, tables and data that no decision depends on.
