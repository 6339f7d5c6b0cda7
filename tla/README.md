# A TLA+ model of mpi_abi_wrapper

The repository implements the MPI-5.0 C ABI on top of an MPI implementation that
does not provide it. Most of it converts arguments and keeps nothing between
calls. What is hard to get right, and hard to test, is the state the wrapper
does keep: process-wide tables that are read and written without a lock by every
thread that calls MPI, keyed by numbers and handles whose reuse the wrapper does
not control. These modules are about that state.

Paths below are those of the repository; `H/` stands for `src/mpiwrapper/`.

## 1. The system

    application --> libmpi_abi.so --> libmpiwrapper.so --> libmpi.so
                    bootstrap.c       H/*.c, hw_*.c        (external)
                    entrypoints.c     gen: wrappers.c,
                    (one-line calls   constants.c
                    through the vtable)
                         <--- callbacks: attribute copy/delete, operations,
                              error handlers, requests, MPI_T events ---

A call crosses the layers on the caller's thread; there are no threads, locks or
files of the wrapper's own. `libmpi_abi` calls through `mpi_abi_vt`, which its
constructor obtained from `libmpiwrapper`; a body there converts the arguments,
calls the implementation once, and converts the results and the error code.
MPI calls the application back through trampolines in `libmpiwrapper`, which
convert in the other direction. Components meet only in the calls of a body
(for example: every body returns through `mpiwrapper_errorcode_toabi`; every
body that nulls requests ends in `mpiwrapper_staged_release`), and in the
tables they share between threads.

| Component | State it keeps | Operations | What makes it correct |
|---|---|---|---|
| Library bootstrap (`src/mpi_abi/bootstrap.c`) | `mpi_abi_vt` | constructor: load, hand over, probe for re-entry, publish | the vtable is set once, after every check; no call goes through the decoy |
| Handshake (`H/getvtable.c`) | `initialized` | `mpiwrapper_get_vtable` | refusals in order; reverse maps are built before the table is handed out |
| Attribute keys (`H/keyvals.c`, `hw_callbacks.c`, `extrastate.c`, `hw_attr.c`) | `keyval_impl[]`, `keyval_count` | create, set, get, delete, free; copy and delete trampolines | a call reaches its key; a callback names its key |
| Error codes (`H/errorcodes.c`, `hw_errors.c`, `hw_attr.c`) | `errorcode_impl[]`, `errorcode_count` | add/remove class, code, string; convert every result; `MPI_LASTUSEDCODE` | round trip; a named code keeps its name; last code covers all |
| Handle serialization (`H/serialize.c`, `hw_converters.c`) | `serial_bits[]`, `serial_count` | `_toint`, `_c2f`, `_fromint`, `_f2c` | an integer goes back to its handle; one integer for a handle |
| Staged request arrays (`H/staging.c`, `gen/mpiwrapper/wrappers.c`) | `staged_table[]`, `staged_live` | keep, any, release around posting and completion | arrays live as long as their operation and are freed once |
| Automatic buffers (`H/buffers.c`, `hw_buffers.c`) | `autobuf[]` | attach with its undo, detach | a slot belongs to one scope until its detach |
| Callback pools (`H/callbacks.c`, `hw_callbacks.c`) | pools of function slots | claim, release on failure, call | a trampoline calls the function it was made for |
| Extra state (`H/extrastate.c`) | heap pairs | wrap, call, free | a request's pair is freed once, last |
| MPI_T events (`H/toolevents.c`, `toolobj.c`) | table of entries by registration | set and get callbacks, deliver, free | a function is called with its own data |
| Handle conversion (`H/handles.c`) | perfect hash, thread-local error flag | convert; take the flag | the flag stops the call that set it |
| Lifecycle (`H/hw_lifecycle.c`) | one word | init, finalize | goes up only |
| Status, strings, spawn, GPU, extents, info tool | none | conversions | (tests reach them) |

**Hard behaviours.** Interleaving at every atomic access; tables at their limit
while several threads overflow them at once; numbers and handles the
implementation reuses (a freed keyval, a removed error class, a completed
request); calls that fail after the implementation has succeeded; a callback of
MPI that runs while other calls are in progress; persistent requests, which
answer that they are complete when they have not started; comments that promise
what single threads may observe. There are no messages, persistence, timeouts or
blocking waits in this code. `PROJECT.json` lists each hazard at its line.

## 2. Modules

| Module | Models | Extends |
|---|---|---|
| `AppendTable` | the lock-free append table of which `keyvals.c`, `errorcodes.c` and `serialize.c` each hold a copy: claim, publish, put back, scan, index | |
| `Keyvals` | attribute keys and the calls and trampolines around them | `AppendTable` |
| `KeyvalMap` | what the keyval registry promises: a map with atomic conversions | |
| `ErrorCodes` | error classes and codes | `AppendTable` |
| `Serialize` | handle serialization | `AppendTable` |
| `HandleNames` | what serialization promises: names that are looked up, given or refused at one moment of each call | |
| `StagedRequests` | the request-keyed table of staged arrays, and the implementation's requests | |
| `ToolEvents` | MPI_T event callbacks: the map from registrations to functions, the entry points that fill it, the trampolines that read it | |
| `Lent` | what is lent to the implementation and taken back: automatic buffers, slots of the trampoline pools, pairs of generalized requests | |
| `BodyRows` | what a row of the table of generated bodies says, and the steps it is made of | |
| `BodiesAtoI`, `BodiesMtoZ` | the 562 generated bodies of `wrappers.c`, a row each | `BodyRows` |
| `BodyTable` | all of them: the vtable without the functions written by hand | the two |
| `Bodies` | how a body runs: refusals, staging, conversions, the call, what it converts and frees on each path out, the thread's flag of a rejected conversion | |
| `Startup` | the constructor of `libmpi_abi` and `mpiwrapper_get_vtable` | |
| `Library` | both libraries: the constructor, then the calls | `Bodies`, `Startup` |
| `MC*` | small instances for TLC | the above |
| `AppendTableProofs` | lemmas about the accesses to an append table | `AppendTable` |
| `KeyvalsProofs` | the invariant of `Keyvals`, and that it implements `KeyvalMap` | `Keyvals`, `AppendTableProofs` |
| `ErrorCodesProofs` | the invariant of `ErrorCodes`, and that no call can be kept from its end | `ErrorCodes`, `AppendTableProofs` |
| `SerializeProofs` | the invariant of `Serialize`, and that it implements `HandleNames` | `Serialize`, `AppendTableProofs` |
| `LentProofs` | the invariant of `Lent` | `Lent` |
| `StagedRequestsProofs` | the invariant of `StagedRequests` | `StagedRequests` |
| `ToolEventsProofs` | the invariant of `ToolEvents` | `ToolEvents` |
| `LibraryProofs` | the invariants of `Library`: the handshake, and the bodies | `Library` |

**Grain.** One action is one atomic access of the C code together with the
thread-local work around it, so the actions of different threads interleave
wherever the accesses do. `pc[t]` is the place in the call: a fetch-and-add goes
from "claim" to "publish" or "overflow", the store from "publish" to "added",
each turn of a scan is a step of its own. `val[t]` and `idx[t]` are the locals of
the call. In `StagedRequests` the same holds for `key`, `block` and `staged_live`:
the exchange of a key, the store of a block and the count are three actions. The
order in which a release stores `KEY_TOMB` and frees the block is the code's. In
`ToolEvents` every load and store of an entry's flag, key and seven fields is a
step, and in `Lent` those of a slot's scope, block or function are. A loop without
a shared access (clearing a field excepted, which is one) is part of the step
before it.

`Bodies` is one thread in one body, because a body shares nothing but the tables
that the other modules are about: what it is about is the paths, of which a body
has up to seven. The flag (`mpiwrapper_handle_error`) is thread-local and is
carried from call to call, and so is one staged operation, so the module is run
over sequences of calls.

**From the bodies to rows.** `BodiesAtoI` and `BodiesMtoZ` record, for each body,
the steps of the emitted text that can refuse, stage, convert, call or keep; the
mapped lines of a row are the text of the bodies it covers, in their order in the
file (a definition covers the neighbours that fit in 150 lines). `Program` in
`Bodies` turns a row into the sequence of steps by the rules of the two assemblers
of `dev/generate.py`. Conversions that cannot fail, plain integers and `MPI_Status`
are abstracted from them. A body has three arms for three configurations of a
build -- `native`, `fallback` (calls the function without `_c`), `stub` (answers
`MPI_ERR_UNSUPPORTED_OPERATION`) -- and every arm is run.

**Memory order.** Steps are interleaved, that is, sequentially consistent. The
tables publish by release stores and read by acquire loads; the counters are
relaxed (in `serialize.c`, acquired by the reader). In the calls whose result the
properties speak of, the key, code or handle a thread uses reached it through the
application's or MPI's own synchronization, which orders the counter too. What
weaker orders allow to calls that are not so ordered is outside the model.

**The implementation and the application.** Neither is in the repository; both
are part of the model as what the wrapper must cope with. The implementation
issues a keyval number that names no key, and may issue it again when the key is
freed and no attribute refers to it (`Settle` in `Keyvals`); it issues and reuses
numbers of error codes and returns codes that nobody added (`Reportable`); it
creates handles; it reuses the handle of a request that is over, answers operations
that are complete on return with one built-in handle, and completes operations in
flight at any time (`Finish`); it raises events for a registration at any time
while a trampoline is installed, and calls the free trampoline when no other runs
for it; it keeps one buffer per scope, runs reductions that outlive
`MPI_Op_free`, and calls the free function of a request once, last. Any of its calls
may fail. The application is correct: it does not use a keyval
after or during its freeing, removes an error code it added, and once, waits only
for requests it has, frees a registration once. It may pass integers that are no
keyval, no code and no handle. An attribute function does not call MPI in the
model; another thread does.

**Abstractions.** Predefined keyvals, codes and handles never reach the tables and
are left out, except in `Serialize`, where their integers share a range with the
table's. An ABI value "base + index" is the index, except in `Serialize` again,
where the base separates the ranges. The families of keyvals, the classes of
handles, the seven pools of trampolines and the twelve forms of attach and detach
share one table and one body each. Error strings are left out. `kind`, `phase`,
`handle` and `block` in `StagedRequests` are the history of an operation: the table
itself has only keys and blocks. `mpiwrapper_staged_any` is read when the
implementation's call has returned, together with the handles the call nulled.
In `ToolEvents` a function and its data are one number, the tag of the call that
passed them, so that a field says which call it comes from. In `Bodies` the arrays
of a call have a length of none or some, and the table of requests has one entry,
whose detail is `StagedRequests`.

**State that is only there for the properties:** `meaning`, `before` (ErrorCodes),
`given`, `known`, `raced`, `out` (Serialize), `born`, `want`, `crossed` (ToolEvents), `before`
(Lent), `passed`, `read`, `completed`, `op` (Bodies), and `env`, chosen in `Init`.

**Variants.** An operator under a comment "Mistake:" is a plausible wrong version
of the definition that follows it. No specification uses it. `PROJECT.json`
("mutants") says which run and property notices when it takes that definition's
place; each property has one.

## 3. Runs

Each is complete (the whole state space of its instance, in `toolevents` within the
constraints named below) unless it is expected to be violated. `tlc -workers 2 -config X.cfg M`:

| Run | Instance | States | What it shows |
|---|---|---|---|
| `keyvals` (`MCKeyvals`) | 2 threads, 3 slots, 2 numbers, 2 objects | 268 867 | a call reaches its key, a callback names its key, the counter stays in reach, and the registry implements `KeyvalMap` |
| `errorcodes` (`MCErrorCodes`) | 2 threads, 3 slots, a user code, an invented code | 135 335 | codes round-trip and keep their names, the application's own code comes back as itself, `MPI_LASTUSEDCODE` covers every code handed out, each step of a call leaves it fewer, every conversion ends |
| `serialize` (`MCSerialize`) | 2 threads, 3 slots, 2 handles, a predefined one | 63 670 | integers go back to their handles; a full table keeps answering; one integer for a handle unless two calls raced; a race costs a slot per thread at the most; the table implements `HandleNames` |
| `serialize_race` (`MCSerializeRace`) | the same | violated | see finding 1 |
| `staged` (`MCStagedRequests`) | 2 threads, 3 operations, 2 handles and the built-in one, 2 slots | 1 858 678 | no array is freed in use or twice; with orderly handles all are reclaimed, no key is met twice, the table and its count match the operations |
| `staged_reuse` (`MCStagedRequestsReuse`) | the same | violated | see finding 2 |
| `toolevents` (`MCToolEvents`) | 2 callers, 1 thread that delivers, 2 handles, 2 slots, 4 calls with a function | 2 360 754 | an event reaches a function of this life of its handle with data that is no older; an entry holds what the last calls stored; entries are given back |
| `toolevents_race` (`MCToolEventsRace`) | 1 handle, 2 calls | violated | see finding 3 |
| `lent` (`MCLent`) | 2 threads, 3 scopes, 2 functions, 2 slots, 4 blocks, 5 calls | 1 746 265 | what the implementation holds is alive, nothing is freed twice or lost, a detach answers for its own buffer, trampolines call their functions |
| `lent_any` (`MCLentAny`) | 4 calls, no discipline | violated | see finding 4 |
| `library` (`MCLibrary`) | every capture, every body, every arm | 103 376 | no body runs before the checks; outputs agree with answers; temporaries and blocks are freed; kept blocks follow their operation; no rejection is passed on; only values that fit reach a narrower function; arrays that only the root has are not read elsewhere |
| `library_inplace` (`MCLibraryInPlace`) | also calls in place without send arrays | violated | see finding 5 |

**Why these bounds.** Three slots are enough for a number to be entered twice with
another entry before, between or after, and for the table to fill up in the middle
of that; two threads then overflow it together, so that the counter is put back
over another thread's increment. Two numbers (codes, handles) are what it takes to
answer with the wrong one; one user code in `errorcodes` is removed and issued
again, and the invented one competes for the slots. Two objects let a key that
was freed live on with the second attribute when the first is deleted. In
`staged`, both handles hash to the last slot, so each probing wraps around and
crosses the other's entry, lock and tombstone; three operations are an old one, a
new one with the same handle and one in between. Completion calls take one or two
requests, the shortest array in which one release is followed by another.

In `toolevents` a handle may live in a lower slot while another call claims the slot of
its first life, which still has its key: that is why `EntryHoldsLastCalls` has to look
at the first entry in use. It takes four calls (`MaxTag`): two handles are freed, which
claims both slots and leaves a key in each; the handle of slot 1 is used again and gets
slot 0; then a call for the other claims slot 1, which still has the first one's key.
`FourthCall` bounds the fourth to calls made one at a time, with a callback, when
every slot has had an owner. `TwoCalls` bounds "fresh", all of whose behaviours "apart"
has too. `FullMap` bounds "overlapping", where the properties claim nothing but types, to
what fills two slots with two handles: two calls for one of them claim both.
`MaxOverlapping` bounds the handles in use where calls overlap.

In `lent` the two tables of two slots fill up with three scopes and three creations;
`MaxAlloc` = 4 and `MaxCalls` = 5 allow an attach that fails for a full table, a
detach by a scope whose slot another one then claims, and a second attach and detach
after that. Everything else in these models, and `count` in the append tables
(`CounterStaysInReach`), is bounded by itself, so no other constraint is needed. In
`library`, an operation in flight when the next one is posted is what the kept block
of one can do to another; sequences of calls of any length follow from the state
between calls, which is `flag`, `op` and `kept`. Threads, numbers, handles and objects
are interchangeable, and `SYMMETRY` is declared except in `errorcodes`, which checks
liveness, and in `library`.

**Environments.** Where a promise of the code depends on what its callers or the
implementation do, the model says on what, as the variable `env`.

- `StagedRequests`: "serialized" (`MPI_THREAD_SERIALIZED`: calls do not overlap),
  "deferred" (a handle is not reused before the call that completed it is back in
  the application), "immediate" (it is reused at once), and "unasked" (as deferred,
  in a build without `MPI_Request_get_status`, the `#else` of `staged_is_complete`).
  `Orderly` is the first two. In "unasked" a block may be stored under the built-in
  handle, and is counted as leaked when that happens twice; that no array is freed in
  use or twice is claimed (and proved) there, that all are freed is not.
- `ToolEvents`: "serialized" (one call at a time; handles are used again), "fresh"
  (calls for different handles overlap; a handle is not used again), "apart" (calls for
  different handles overlap, and handles are used again) and "overlapping" (calls for
  one handle overlap too). Events are raised at any time in each. `Orderly` is the first
  two, and "apart" until a search takes an entry that another call has claimed and not
  yet put its key in (`crossed`): the entry may still show the searched handle from an
  earlier life. What follows from that is finding 6.
- `Lent`: "orderly" (calls for one scope do not overlap and an automatic buffer is
  attached only where none is, as MPI asks), and "any".
- `Library`: `Captures` is what the loader may bind back into `libmpi_abi`;
  `Withholding` is what an application may leave out: the arrays of the root at
  other processes, the send arrays of a call in place.

**Deadlock** is checked in every run but those of `ToolEvents`, `Lent` and
`Library`, which may stop: the first two when the bound on the calls is reached, the
third when the constructor has ended the process.

**Fairness.** Only `ErrorCodes` has a liveness property. `FairSpec` asks for weak
fairness of each thread's own steps inside the registry (`TableAction`, `Intern`),
which is what the operating system gives a thread that does not block; nothing is
assumed of the application, the implementation, or that a call is ever made. The
property then shows that no loop of the registry can be kept going by the others:
a scan is bounded by the count read at its start. The walks of the other tables are
bounded by a constant, and nothing waits. `StepsRunOut` says the part of this that needs
no fairness: a step of a call in progress leaves it fewer steps (`StepsLeft`, at most
`Capacity + 9`), and a step of another thread leaves it as many. It is proved.

**Hazards with a tested answer, in short.** Direction and extent of the scans
(`CallbackNamesItsKey`, `OwnCodeComesBack`, `OnceNamedAlwaysNamed`); a slot claimed and
not yet published (`ImplementsMap`, `KeepsPromise`, `RoundTrip`); overflow and the plain
store that puts the counter back (`CounterStaysInReach`, `CallReachesItsKey`), a call
refused while there is a slot (`KeepsPromise`); a loop that others keep going
(`StepsRunOut`); a creation that fails after the implementation has succeeded (`TypeOK`:
nobody holds an index out of range); tombstones, locks and the count of the staged table
(`BlockIsReclaimed`, `TableMatchesOperations`, `NoDuplicate`); persistent requests
(`BlockOutlivesOperation`); a flag claimed before its key, and fields that outlive their
entry (`EntryHoldsLastCalls`, `EventsFindTheirFunction`, `EntriesAreReclaimed`); an undo by scope
(`LentMemoryIsLive`, `DetachAnswersWhatWasAttached`); a slot given back too soon or
never (`TrampolineCallsItsFunction`, `NothingIsLost`); one early return among seven
(`OutputsMatchAnswer`, `TemporariesAreFreed`); a flag nobody takes
(`NoRejectionIsPassedOn`); the probe through a decoy (`CallsFollowTheHandshake`).

## 4. Findings

1. *`serialize.c:88-91`* says of two threads that serialize one handle at the same
   time: "both convert back to that handle, so the round trip stays exact, and the
   standard's requirement holds for every sequence of calls a single thread can
   observe". The round trip does (`RoundTrip`). The second half does not: the thread
   whose entry has the lower index is answered that index first and, because the
   scan begins with the newest entry, the other index from then on. Run
   `serialize_race` shows one thread with two integers for one handle.
2. *`NOTES.md:3251-3253`*: "What is left of the inference is only recycling, which
   the release-at-every-completion-site rule already underwrites". With
   overlapping calls and an implementation that reuses a handle as soon as it has
   freed it, the release of a completing call (`staging.c:256`) can run after
   another thread has posted a staged operation with the same handle, and frees the
   arrays of that one. Run `staged_reuse` shows it, with a wait for a plain request.
   In "deferred" and "serialized" the rule is enough (run `staged`).
3. *`toolevents.c:93-97`*: "A registration handle is claimed by exactly one entry:
   the CAS on `used` is what makes that true when two threads register callbacks for
   the same handle at once". The exchange makes one *slot* belong to one thread; the
   key is stored after it. Both threads miss the handle, claim different slots and
   store the same key. Run `toolevents_race` shows two entries in use for one handle;
   calls and events see the first, so the other's callback is lost.
4. *`buffers.c:64-67`*: the order of the two stores "is what makes it impossible for
   a release to free a block that a later claim has just put there". A release loads
   the scope and exchanges the block in two steps. If another release of the scope
   gives the slot back in between and an attach claims it, the exchange takes the new
   block. Run `lent_any` shows it; it takes overlapping calls for one scope, or an
   attach where one is attached. In "orderly" it cannot happen (run `lent`, and
   `LentProofs`).
5. *`NOTES.md:1373-1376`*: with `MPI_IN_PLACE`, "Two arrays must not be read at all
   [...] a legal program may pass a null pointer for them. Harmless for the two the
   wrapper forwards". The fallback arms of the large-count `MPI_Alltoallv_c` and
   `MPI_Alltoallw_c` (and their nonblocking and persistent forms) do not forward
   `sendcounts` and `sdispls`; they narrow them element by element
   (`wrappers.c:1652`). Run `library_inplace` shows a call in place whose send counts
   are read. The send types are guarded, which is why the run `library` holds.
6. *`toolevents.c:20-30`*: the implementation calls the free trampoline when "the entry
   is dead. So mpiwrapper_t_event_free_tramp releases it", "since otherwise a tool that
   allocates and frees registrations in a loop would exhaust the map". Calls for
   different handles that overlap, where the implementation uses a handle again, can
   lose an entry for good. Say slot 0 was a handle's in its first life and is free, with
   its key. A call for another handle claims slot 0 and is stopped before it stores its
   key (between `toolevents.c:105` and `:109`); the handle, allocated again, registers
   its free function in slot 1; its free trampoline then finds slot 0, in use under its
   handle, and gives up that one. Slot 1 stays in use for a registration that is gone,
   and the other call goes on in an entry that the map takes for free. With other orders
   a registration stores its callback into the other's entry, where the claimer clears
   it, and an event finds another registration's entry. `MCToolEventsReuse.cfg` is the
   instance: it checks `DeadEntriesAreReleased`, which is `EntriesAreReclaimed` without
   `Orderly`, and `tlc -config MCToolEventsReuse.cfg MCToolEvents` prints the steps. It
   shows the exception that `Orderly` makes in the run `toolevents` and in the theorems,
   and is not one of the runs of `PROJECT.json`.

## 5. Proofs

TLAPS proves, for any number of threads, any capacity above zero, any sets of
keyval numbers, codes, handles, objects, scopes and functions, and any table of
well-formed bodies:

| Theorem | Module | States |
|---|---|---|
| `InvariantHolds` | `KeyvalsProofs` | `Spec => []KeyvalInv` |
| `TypeCorrect` | `KeyvalsProofs` | `Spec => []TypeOK` |
| `CallbacksNameTheirKey` | `KeyvalsProofs` | `Spec => []CallbackNamesItsKey` |
| `CallsReachTheirKey` | `KeyvalsProofs` | `Spec => []CallReachesItsKey` |
| `CounterNeverRunsAway` | `KeyvalsProofs` | `Spec => []CounterStaysInReach` |
| `RegistryIsAMap` | `KeyvalsProofs` | `Spec => Map!Spec` |
| `TypeCorrect` | `ErrorCodesProofs` | `Spec => []TypeOK` |
| `CodesRoundTrip` | `ErrorCodesProofs` | `Spec => []CodeRoundTrips` |
| `NamedStaysNamed` | `ErrorCodesProofs` | `Spec => []NamedCodeStaysNamed` |
| `NewestNameComesBack` | `ErrorCodesProofs` | `Spec => []OwnCodeComesBack` |
| `LastUsedIsLast` | `ErrorCodesProofs` | `Spec => LastUsedCoversAll` |
| `CallsRunOutOfSteps` | `ErrorCodesProofs` | `Spec => StepsRunOut` |
| `TypeCorrect` | `SerializeProofs` | `Spec => []TypeOK` |
| `HandlesRoundTrip` | `SerializeProofs` | `Spec => []RoundTrip` |
| `NamedStaysNamed` | `SerializeProofs` | `Spec => []OnceNamedAlwaysNamed` |
| `OneIntegerEach` | `SerializeProofs` | `Spec => []OneIntegerUnlessRaced` |
| `RacesCostASlotPerThread` | `SerializeProofs` | `Spec => []SlotsPerHandle` |
| `PromiseIsKept` | `SerializeProofs` | `Spec => KeepsPromise`, which is `Promise!Spec` |
| `TypeCorrect` | `LentProofs` | `Spec => []TypeOK` |
| `LentMemoryLives` | `LentProofs` | `Spec => []LentMemoryIsLive` |
| `DetachAnswersRight` | `LentProofs` | `Spec => []DetachAnswersWhatWasAttached` |
| `NothingLeaks` | `LentProofs` | `Spec => []NothingIsLost` |
| `TrampolinesCallTheirFunctions` | `LentProofs` | `Spec => []TrampolineCallsItsFunction` |
| `TypeCorrect` | `StagedRequestsProofs` | `Spec => []TypeOK` |
| `Reclaimed` | `StagedRequestsProofs` | `Spec => []BlockIsReclaimed` |
| `KeysAreNew` | `StagedRequestsProofs` | `Spec => []NoDuplicate` |
| `TableMatches` | `StagedRequestsProofs` | `Spec => []TableMatchesOperations` |
| `ArraysOutlive` | `StagedRequestsProofs` | `Spec => [](env # "immediate" => BlockOutlivesOperation)` |
| `EventsAreTyped` | `ToolEventsProofs` | `Spec => []TypeOK` |
| `EventsReachTheirFunctions` | `ToolEventsProofs` | `Spec => []EventsFindTheirFunction` |
| `EntriesHoldLastCalls` | `ToolEventsProofs` | `Spec => []EntryHoldsLastCalls` |
| `EntriesComeBack` | `ToolEventsProofs` | `Spec => []EntriesAreReclaimed` |
| `HandshakeComesFirst` | `LibraryProofs` | `LibrarySpec => []CallsFollowTheHandshake` |
| `BodiesAreTyped` | `LibraryProofs` | `LibrarySpec => []TypeOK` |
| `EveryPathSetsItsOutputs` | `LibraryProofs` | `LibrarySpec => []OutputsMatchAnswer` |
| `EveryPathFrees` | `LibraryProofs` | `LibrarySpec => []TemporariesAreFreed` |
| `BlocksOutliveTheirOperations` | `LibraryProofs` | `LibrarySpec => []BlockFollowsItsOperation` |
| `EveryBodyTakesItsRejections` | `LibraryProofs` | `LibrarySpec => []NoRejectionIsPassedOn` |
| `TwinsGetSmallValues` | `LibraryProofs` | `LibrarySpec => []OnlySmallValuesReachTheTwin` |
| `OthersDoNotReadTheArraysOfTheRoot` | `LibraryProofs` | `LibrarySpec => []IgnoredIsNotRead`, if `"in place" \notin Withholding` |

The hypotheses in the table are where a finding begins: with `"immediate"` the
arrays of another operation are freed (finding 2), overlapping calls for one handle
leave two entries for it (finding 3), and calls in place have their send counts read
(finding 5). `EventsFindTheirFunction`, `EntryHoldsLastCalls`, `EntriesAreReclaimed` and
the properties of `Lent` and of `StagedRequests` that need a discipline name it
themselves. For `ToolEvents` it is that calls do not race for one handle, and, where they
overlap for different handles that are used again, that no search has taken an entry
not yet keyed (finding 6): the theorems say what holds up to that step, and nothing of
what comes after it.

*Assumptions* are those named in the modules that declare the constants, and TLC
evaluates them in every run: capacities above zero; values that stand for nothing
(`Unset`, `NoKey`, `NoCode`, `None`, `NoScope`, ...) are none of the values they stand
beside; in `Serialize`, the integers of predefined handles are below `Base`; `Threads` finite in
the append tables (only for the cardinalities in `CounterStaysInReach` and
`SlotsPerHandle`); in `ToolEvents`, a thread makes calls or delivers events, not both at
once; `Ops` finite in
`StagedRequests` (for the number of requests a call completes), its three reserved keys
distinct, and the home of a handle any slot. `TableAssumption` of `Bodies` says
what the generator guarantees of a row (`WellFormed`): what is asked and checked before
anything is staged and what is filled after it; that an operation in flight has
something in its block, changes no handle and completes no other operation; that a twin
checks all that is narrower in its prototype. TLC checks it for the 562 rows; the
proofs use nothing else of them, so they hold for whatever the generator emits by the
same rules. Its conjunct on `Filling` follows from the one on `arrays` by what
`SelectSeq` does, but proofs do not reason about `SelectSeq`, so it is written out.

*Why the properties are not inductive, and what is.*

- `KeyvalInv`. That the entry a scan stops at is the right one depends on what is
  above it in the table, and that on who may append. Besides the types it says:
  `TableInv` (an unclaimed cell is empty, a claimed index has one owner until it is
  published, "full" means full); `CreateOwnsNumber` (the number a create call holds is
  live, no other call's, and has no attribute yet -- this is what makes reuse of
  numbers harmless); `NewestIsLive` (no entry above the one bound to a number repeats
  the number); `ReferencedIsIssued` (what has an attribute has an ABI keyval);
  `HeldIsLive`, `CallHasObject` and `FreeIsExclusive` (a keyval on its way down keeps
  naming its key, since nothing can free it meanwhile); `ScanIsAhead` (the entry a
  trampoline looks for is at or below its index, and a scan never misses).
- `CodeInv` and `SerialInv` have the same shape over the same `TableInv`: what a
  thread has claimed or has been answered is what it says, what was named once is
  below every scan that could miss it, and (error codes) the newest entry of a code
  that is in use is the name it was handed out with.
- `LentInv` has a part for every environment -- a block that is live has one owner
  among slots, calls and requests (`OwnedIsLive`, `OneOwner`), a slot of a pool
  belongs to one operation or to the call that makes it (`SlotIsTaken`) -- and one
  that calls for one scope do not overlap for: a scope has one slot, the slot holds
  what the implementation has, or the one call of that scope has it in hand
  (`SlotHasReason`, `AttachedIsKept`, `CallKnowsItsSlot`). That the release finds its
  own block, and never an empty slot, follows from there.
- `StagedInv` has a part for every environment (`Types`, `InHand`, `RequestsHaveHandles`)
  and one for those of `Orderly`. A block is held by one slot or one call (`OnePlace`,
  `HeldHasPlace`, `LockIsExclusive`) under its operation's key (`KeyNamesBlock`); an
  operation whose block is held keeps its handle to itself (`OneHandle`), and one that is
  over is on the list of exactly one call (`PendingIsOver`, `OverIsPending`), so that a
  handle given to a new request names nothing old. The probing is right because no
  empty slot is between a key and its home (`Reachable`) and no key is inserted behind
  an attempt to find it (`AttachHasPassed`, `LookHasPassed`). `CountIsRight` counts the
  slots that hold a block, less those not counted yet, plus those not uncounted yet: a
  count of zero then means that no block is left to release. Outside
  `Orderly` a handle can name two operations at once; finding 2 shows what follows.
- `ArraysInOrder`, also in `StagedRequestsProofs`, holds in "unasked" too, where a
  handle can name an operation that is over besides the one that uses it, and blocks
  are left behind. It counts nothing and asks nothing of the probing: a stored block
  whose operation is not over is under that operation's key (`LiveUnderOwnKey`), a handle
  names at most one operation that is not over (`HandleNamesOne`) and, while a call
  releases it, none (`ReleasedIsOver`). So the operation whose block a release takes out
  of a slot is over (`TakenIsOver`), and one release takes it, the one that locked the
  slot (`LocksHold`).
- `ThreadsAreLeft`, for `RacesCostASlotPerThread`. That a handle has no more slots than
  there are threads says nothing of who may still append it. The invariant counts those
  in: the slots that hold the handle and the calls that may still append it are
  together no more than the threads. A call joins them only while the handle has no
  slot or its scan has not yet reached one, and when it publishes, one call becomes
  one slot.
- `ScanInBounds`, for `CallsRunOutOfSteps`. `StepsLeft` measures a call by its place and,
  in a scan, by the index it has reached. That the measure stays in `0 .. MostSteps`
  needs that a scan begins below the capacity, which holds because the count that it
  reads is clamped, whatever the counter has come to (`ScanInBounds`).
- `ClaimedIsTaken`, for `PromiseIsKept`: every index below the counter has an entry or a
  call that is about to store one. So no slot is lost, and a call that claims an index out
  of range has met a table of which each empty slot has a publisher; no two publish into
  one slot (`TableInv`), so they are the other givers that `NoNameIsLeft` asks for.
- `EventInv` has a part for every environment (the types: what each step carries) and
  `OrderlyInv` for calls that do not race for one handle. There, calls and the free
  trampoline of a handle do not overlap (`CallsAreApart`, `ReleasesAreAlone`); a
  registration for which a trampoline is installed has an entry until its free trampoline
  gives it up (`EntriesLive`), and only one (`KeysLeftBehind`); a key that an earlier life
  left in a slot comes after that entry, and where no handle is used again there is none
  of a live registration (`KeysLeftBehind`) -- but in "apart" it may come before, and then
  a search that meets it finds the slot free or has crossed; a slot that is claimed and
  has not got its key
  belongs to one call (`ClaimsAreApart`). So what a caller or a trampoline has
  found is still where it was (`CallerAt`, `DelivererAt`).
  On the data: an entry that is not being cleared holds what was stored last
  (`EntriesHold`); while its fields are cleared, nothing has been stored or installed
  for its registration (`ClearsFirst`); tags grow, and the call in progress has the newest of its
  field (`TagsGrow`, `CallIsLast`), so what a trampoline has loaded is of this life and
  its data no older than its function (`LoadIsRight`).
- `BodyInv` says, of the steps an arm has left (`todo`), that they are the early ones in
  order up to the call, or an end of the sequence after it (`BeforeCall` and
  `Called`), and what each of these means: nothing is changed
  and no output written before the call; what is staged is in the block or among the
  temporaries (`InBlock`, `InTemporaries`); an array is read after the question whether
  this process is the root (`RootIsAsked`), a wide value narrowed before the call
  (`WideIsChecked`); and at the label `done` the flag has been taken, every output
  has a value, the block is freed or kept by its operation (`Settled`).
- `HandshakeInv` says what each stage of the constructor has established.

*Layout.* `AppendTableProofs` proves once what each access to the table preserves;
`Elsewhere` there says that a step leaves the table alone. The other modules have one
lemma for each action, with a step for each conjunct of the invariant.
The end of `KeyvalsProofs` maps a step to the map's: publishing, claiming and scanning on
are stutters, `CreateReturns` binds, `ScanMatch` and `LoadCell` are the moment of the
answer, and a call that returns uses it. The table's moment of issue is the return of
the create call, not the store, because until then the index has no meaning to anyone.

The end of `SerializeProofs` does the same for `HandleNames`. There the store is the moment
at which a name is given (`PublishGives`), since other threads may find it from then on;
`ScanMatch` finds one (`ScanMatchFinds`), a claim out of range refuses (`ClaimFails`), the
range check or the load answers `_fromint` (`CheckOrLoadFinds`), the returns finish the
call (`ReturnFinishes`), and every other step is a stutter (`TableWorkIsUnseen`). A call
gives a name, or refuses one, only for a handle that nobody had been given when the call
began: that is `OnceNamedAlwaysNamed`, here as part of what a caller can rely on.

`ToolEventsProofs` and `LibraryProofs` go conjunct by conjunct where a conjunct has
an argument of its own, and have a lemma for the steps that leave it alone.

*Model-checked only.* Every invariant and action property of the passing runs is
stated by a theorem. What is left to TLC is liveness, `ConversionEnds`: it is a
statement about fairness and ENABLED, which this prover does not reach. `StepsRunOut`,
which is proved, is why it holds. TLC also
evaluates `TableAssumption` for the rows, and shows the findings, which no proof could.
Each inductive invariant was checked by TLC, on the instances of the runs, before it
was proved.

## 6. Plan

Done: the registries of keyvals, error codes and handles with their proofs, the abstract
map of the first and the abstract names of the third; staged requests, tool events, lent
memory and slots with their proofs; the bodies, all of them, over any table of
well-formed rows, and the constructor, composed, with their proofs.

Left, in the order of what the system would lose by it:

1. An abstract map for error codes, as `KeyvalMap` is for keyvals and `HandleNames` for
   serialized handles, and that the registry implements it. A code of the application may
   be entered twice there, which the abstraction has to allow for.
2. In `ToolEvents`, "overlapping", and "apart" after a search has taken an entry not yet
   keyed: what the map still promises there, which is little (findings 3 and 6).

## 7. Not modelled, and why

- *Lifecycle* (`hw_lifecycle.c`): one word that goes up when `MPI_Init` or
  `MPI_Finalize` succeeds and is read back; a property could only restate it.
- *Status, strings, info, spawn, GPU queries, profiling control, ABI queries*: field by
  field conversions of arguments without state that outlives a call, written by hand;
  their temporaries have the shape that `Bodies` has.
- *The entry points* (`entrypoints.c`) are one call through `mpi_abi_vt` each, with the
  arguments unchanged; `Enter` in `Bodies` stands for them.
- *The perfect hash* of predefined handles (`constants.c`, `handles.c`): built once over
  the implementation's constants and then only read; that it is built before a
  conversion reads it is in `Startup`, and failing to build it an outcome there.
- *Data representations* (`extrastate.c`): their pair is allocated once and neither
  freed nor changed, which is documented there, so no order of calls matters to it.
- *The generator* (`dev/generate.py`) reads `mpi.h` and `apis.json` and emits text. The
  rules by which it orders the steps of a body are operators of `Bodies`; what it emits
  is the rows.
- *The information tool, build, tests and examples.*

Hazards without a property, with the reason (`PROJECT.json`): a registration without a
callback cannot be freed when the map of events is full; the fields of an entry are
cleared after its key is stored, which erases what a racing call has stored; a function
whose registration the implementation refuses stays in the map; a fallback refuses a scalar
that MPI ignores in this call when it does not fit. One more is below the models'
grain: integers that a failed call leaves unwritten are copied out by some fallback
arms (`MPI_Type_get_envelope_c`), which is an answer nobody may use.
