# TLA+ models of the OP-TEE trusted applications of ot3_6

The repository holds a set of trusted applications (TAs) for OP-TEE 3.6
(`ta/`) and the client libraries, tools and tests that call them from the normal
world (`host/`).  This directory models the parts with state, checks them with TLC
on small instances and proves the main results with TLAPS for every value of the
constants.

## Inventory

How a call runs.  A client opens a session (`host/libsess`), which creates an
instance of the TA, sends one command at a time with `TEEC_InvokeCommand` and
waits for it.  A TA without `TA_FLAG_SINGLE_INSTANCE` gets a new instance for
every session: its globals (`hdb` in the crypt TA, `stor_session` in the key TA)
belong to that session.  Instances of different sessions run in parallel.
What they share is the persistent storage of the TA's UUID and the shared memory
of their clients.  A TA that passes a bad handle to the TEE API panics: its
instance dies, its handles are released and the client is told
`TEEC_ERROR_TARGET_DEAD` from then on.

| Component | State | Operations | What is hard | What makes it correct |
|---|---|---|---|---|
| Handle database (`ta/crypt/handle.c`) | array `ptrs`, `max_ptrs` | get, put, lookup, destroy | growth while handles are in use, handles at the limit, negative and huge handles | it is a map from handles to pointers; it grows only when it must |
| Arithmetic commands (`ta/crypt/arith_taf.c`) | handle database `hdb`, heap objects | 30 commands | stale and mistyped handles, failing allocation after part of the work | a store of typed variables; no slot dangles, no object is lost; errors change nothing |
| Concurrent TA (`ta/concurrent`, `ta/concurrent_large`) | counter in client memory, operation and buffer per call | busy_loop, sha256 | calls of several threads interleave, error exits must count out | the counter is the number of running calls |
| Key TA (`ta/key`) | transient object, name buffer, enumerator of a command; open handles | generate, list, open, close, delete, attributes, enumerator commands | sessions interleave between API calls, each API call may fail, panics | no temporary survives a command, handles are accounted for, keys opened exclusively stay intact |
| Key library (`host/libkey`, `host/libsess`) | session, handles given to the client, object list | one function per command, `keyEnumObjectList`, `keyFreeEnumObjectList` | an enumeration of several commands while another client changes the storage | the list is exact for what did not change; every call returns |
| Storage TA (`ta/storage`, `ta/storage2`) | open objects, positions, enumerators | open, create, read, write, seek, rename, unlink, truncate, enumerate, key_in_persistent, loop | goto-style cleanup in the middle of a sequence, ignored results | handles and objects accounted for after every failure |
| File client library (`host/libfs`, `host/storageTest`) | handles | one function per command | as above | as above |
| Crypt TA, operations and objects (`ta/crypt/cryp_taf.c`, `host/libcrypt`) | operation and object handles, packed attributes | one command per TEE function | attribute packing, handle values from the client | unpack inverts pack; bounds are checked |
| Sims TA (`ta/sims`, `ta/sims_keepalive`, `ta/miss`) | counter, buffers, nested sessions | open, close, read, write, counter, panic | a single instance with many sessions, panics while others have it open, keep-alive | the counter survives sessions exactly when the instance does |
| RPC test TA (`ta/rpc_test`) | nested session per call | sha256 and AES through the crypt TA | nested calls fail half way | nested session closed on every path |
| Storage benchmark (`ta/storage_benchmark`) | object, buffers | read, write, rewrite benchmarks | partial failure in a chunked loop | nothing left behind |
| AES and SHA performance TAs (`ta/aes_perf`, `ta/sha_perf`) | global operation handle and key objects | prepare, process, free | prepare called twice, process before prepare | at most one operation alive |
| Secure data path TA (`ta/sdp_basic`) | cached session | inject, transform, dump, nested invoke | cached session used after failure | cached session is valid or NULL |
| Socket TA (`ta/socket`, `host/libsocket`) | socket contexts in the client's handle | open, close, send, receive, ioctl | lifetime of contexts, deadlines | each context closed once |
| Others (`ta/os_test`, `ta/os_test_lib`, `ta/create_fail_test`, `ta/hello`, `host/hello`, AES, SHA-2 and mbedTLS code in `ta/crypt`) | - | self tests and pure computation | - | - |

## Modules

```
HandleMap <-implements- HandleDb <-extends- HandleDbCallers      MCHandleDb      HandleDbProofs
VarStore  <-implements- ArithTa  -extends-> HandleDb             MCArithTa       ArithProofs
                        ConcurrentTa                             MCConcurrentTa  ConcurrentProofs
TeeStorage <- TaInstance <- KeyTa ----+
                  ^                   +- LibKey                  MCLibKey        LibKeyProofs
                  +------- TaClient --+
                  |                   +- LibFs                   MCLibFs         LibFsProofs
                  +------- StorageTa -+
                  +------- BenchmarkTa                           MCBenchmark     BenchmarkProofs
TeeCrypto <- AttrBuffer, CryptTa <- LibCrypt ---+
          <- AesPerfTa, ShaPerfTa --------------+- ClientSession                 MCClientSession ClientSessionProofs
          <- SocketTa <- LibSocket -------------+
TeeSessions <- SimsTa <- RpcTa ---+
            <- SdpTa -------------+- NestedTas                   MCNestedTas     NestedProofs
```

### Handle database: `HandleDb`, `HandleDbCallers`, `HandleMap`

`ptrs` and `max_ptrs` are the fields of `struct handle_db` (`ta/crypt/handle.c`);
`ptrs` is a function on `0..max_ptrs-1`.  `handle_get` is the three ways through
the function: the first empty slot is taken, the array is doubled and its first
new slot is taken, or -1 is returned because the pointer is NULL or the
reallocation failed (it may fail at any size).  `handle_put` and `handle_lookup`
reject handles that are out of range.  `HandleDbCallers` closes the database with
callers that pass any pointer and any handle.  `HandleMap` is the promise of
`handle.h`: a partial map from handles to pointers, in which `get` adds one fresh
handle, `put` removes one, and nothing else moves.  The refinement mapping is
`live <- LiveMap`, the allocated slots with their pointers.

### Arithmetic commands: `ArithTa`, `VarStore`

One action per command of `ta/crypt/arith_taf.c`, on top of `HandleDb`.  A crypt
TA instance serves one session and runs one command at a time, so a command is one
step.  A handle is the set of type bits it carries and an index, so handles with no
or several type bits, and the invalid handle `0xffffffff`, can be passed.  `heap`
holds the allocated objects with their real type, which the code does not keep:
`lookup_handle` compares the bits of the handle only.  `put_handle` masks the type
bits and does not compare them, as in the code.  Every `TEE_Malloc` may fail.  The
values the `TEE_BigInt` functions compute are chosen from a small set.  `held`
records the handles the client was given and has not freed.

`VarStore` is what `ta_crypt.h` promises to a client that follows it: typed variables
that exist from their creation to their deletion.  Its state is the variables and the
last call, with its result and the variables it names as results (`dest`).  A command that
succeeds gives each result, which must be of the documented type, some value and
leaves all other variables alone; one that fails leaves everything alone.  In `ArithTa`
the history field `reply.dest` is filled from `ResultAt`, a table of `ta_crypt.h`: for
each command, which of the handles that the client passes are results, and of which type.
What a command assigns comes from `arith_taf.c` alone, from the parameters it
looks up and hands to `TEE_BigInt`, so that the two can disagree: a command that computes
in place, takes the wrong parameter as destination or assigns before all handles are
looked up does not implement `VarStore`.

### Concurrent TA: `ConcurrentTa`

One action per step of `busy_loop` and `sha256` (`ta/concurrent/ta_entry.c`) for
each of `Threads` client threads; the increment and the decrement of the shared
counter are one step each, as they are atomic instructions in the code.  The
history variables record how many calls ran at once, and what was reported.
`ta/concurrent_large` is the same source with a larger heap.

### Persistent storage, key TA and storage TA

`TeeStorage` (external) is the part of the TEE Internal API that these TAs use:
objects, access flags and their conflicts, open handles, the data stream, rename,
transient objects, enumerators, panics.  Each API call is one step, may fail in
the ways that the callers distinguish, and leaves its result in `ret`.  It is
modelled from how `ta/key` and `ta/storage` use it.  An enumeration that runs
while another session changes the storage promises little: an object that was
created, replaced or removed since the start may be returned or not.

`TaInstance` holds what command handlers have in common: the program counter of
the instance, the parameters of its command, and where control goes after a call
that succeeded, failed or panicked.

`KeyTa` is `ta/key/key.c` and `ta/key/ta_entry.c`: one action per API call of a
command, with the labels `out1` to `out3` as program counter values.
`StorageTa` is `ta/storage/storage.c`: commands with an identifier copy it, use
it and free it (`CopyId`, the command, `FreeId`); commands of one API call are
one action; `key_in_persistent` follows its labels `cleanup2` to `cleanup4`;
`loop` counts `n` to `LoopCount`.  `stranded` is a history variable: the handles
that `key_in_persistent` leaves open because the check of the object information
failed, after which the code jumps to a label that closes no object.

`TaClient` is `host/libsess` and what every library function does: send one
command, wait, take note of the answer.  `LibKey` (`host/libkey`) and `LibFs`
(`host/libfs`, and its copy in `host/storageTest/common`) add one action per
function; `keyEnumObjectList` is a loop of commands with its own program counter.
`Uses` says which functions each client calls and `Misusers` which clients also
pass handles they do not hold.  The two modules compose clients, TA instances and the
shared storage: clients interleave at every API call.

`ta/storage2` compiles the same source as a single instance without concurrent
sessions: the runs with one client (`fs_misuse`) cover it.

### Storage benchmark: `BenchmarkTa`

`ta/storage_benchmark/benchmark.c` on `TeeStorage` and `TaInstance`: a command
allocates its chunk, creates and fills the file, closes it, opens it again, runs the
read, write or rewrite test, verifies and removes the file.  Every call of the storage
API is a step with its failures, the loops go chunk by chunk, and `remain`, `pos` and
`chunk_buf` are the code's counters, the position of the handle and the buffer.  The
contents of the file are modelled: a byte is the position in the chunk it was
filled from.  In the code it is `SCRAMBLE` of the position, which repeats after 256 bytes: a
file in chunks of another size has other bytes, unless both sizes are multiples of
256.  The model tells those files apart too, which the code need not; that a verified
success means the pattern holds for the bytes all the same.  The negated size of
`TEE_SeekObjectData` (`benchmark.c:228`) is exact for chunks below 2 GB, and larger ones
cannot be allocated.
Sizes wrap at `2^SizeWidth`.  All sessions work on the one file name; `Restart`
switches the device off in the middle of anything and keeps only the storage.  The
history variables `opened` and `left` record the file as it was opened for the test,
and whether something may have left it behind.

### One client and a TA instance of its own: `ClientSession`

A client opens a session with the crypt, AES, SHA or socket TA and calls its commands
in any order; the instance and its static variables live as long as the session.
These TAs serve one session per instance, so a command is one step, in which every
call of the TEE may fail.

- `TeeCrypto` (external): live operations with their class and state (no key yet,
  ready, taking data) and transient objects with their contents, as the TAs use them.
  A call with a handle that is not live, or an operation in the wrong state, panics.
- `AttrBuffer`: `pack_attrs` of `host/libcrypt` and `unpack_attrs` of the TA as
  functions on buffers with their lengths, offsets, padding and bytes; `Touched` is
  what unpacking reads.
- `CryptTa` (`ta/crypt/cryp_taf.c`): one operator per command.  Handle values are
  addresses relative to `ta_head`, modulo `ValMod` (`VAL2HANDLE`, `HANDLE2VAL`).
- `LibCrypt` (`host/libcrypt`): the client keeps the values it was given and works
  out from results alone what state each of its operations and objects is in
  (`knownOps`, `knownObjs`).
- `AesPerfTa`, `ShaPerfTa`: the static handle that is freed and not reset, the exits
  of `cmd_prepare_key`, and how far updates get in the buffers.  `cmd_process` of AES
  advances `in` and `out` by `unit` and tells each update, as the size of the output,
  what the update before delivered.  An update needs the piece it takes and the
  whole output area it is told of (`Strays`), and refuses when that area is shorter than
  what it has to deliver (`RefusesPiece`).  How much an update delivers is external
  (`Blockwise`): as much as it takes when everything since the prepare came in whole blocks,
  otherwise, and for XTS, anything up to what it is told.
- `SocketTa`, `LibSocket`: the TA stores its context in a buffer of the client and
  compares nothing but the size; `sock_size` is the size of that structure, which
  differs between the 32-bit and the 64-bit TA kit.

What the code leaves undefined is a choice: freeing or using a stale handle panics or
goes unnoticed, reading behind a buffer panics or does not.

### Nested sessions: `NestedTas`

Threads of clients, and TAs that open sessions with other TAs.  `TeeSessions`
(external) keeps instances and sessions: a single instance serves all sessions and
goes with the last one, unless it is kept alive; a panic kills the instance for all its
sessions, and its close entry points no longer run.  A dead instance is destroyed with
its last session, also a kept-alive one, as OP-TEE does.  A TA that runs as a single
instance cannot be entered by a second thread, and OP-TEE lets one thread at a time
into all of them: a command of the sims TAs and what it calls is therefore one step,
while the RPC test TA, which has an instance per session, gives other threads room
between its calls.

- `SimsTa` (`ta/sims`, `ta/sims_keepalive`, `ta/miss`): contexts with their nested
  session, the counter of the instance, panics here and in the TA called.
- `RpcTa` (`ta/rpc_test`): open, copy the parameters, invoke, close and free.
- `SdpTa` (`ta/sdp_basic`): the two cached nested sessions.
- `NestedTas` adds the nested session of the key TA and the threads.

### Mutants

Some definitions are followed or preceded by a variant marked "Mutant": the
definition with a plausible mistake.  `PROJECT.json` says which property finds
it.  They are no part of any specification.

## Runs

Every run is `tlc -config <cfg> <module>`.

| Run | Configuration | What it shows |
|---|---|---|
| `handle_db` | `MCHandleDb.cfg` | With the initial capacity 4 of the code, two pointers and one doubling: the database is a map (`ImplementsHandleMap`) and is never longer than twice what was needed at once (`GrowsOnlyOnDemand`). |
| `arith_disciplined` | `ArithDisciplined.cfg` | A client that passes handles it holds, and handles that stand for nothing; three objects, two doublings, all failing allocations: its handles resolve to objects of their type, no slot points to a freed object, no object is lost or in two slots, and the TA implements `VarStore`, in which a command that succeeds creates, deletes or changes exactly the results that `ta_crypt.h` names, and one that fails changes nothing (`ImplementsVarStore`).  For stale and mistyped handles the theorems of `ArithProofs` speak, which hold for every set `Forged`. |
| `arith_doc` | `ArithDoc.cfg` | Violated: `ta_crypt.h` puts the new handle into `value.b`. |
| `concurrent` | `Concurrent.cfg` | Two threads, both commands, every failing allocation: the counter is right, the largest reported value is the true peak, nothing stays allocated, every call returns. |
| `key_handles` | `KeyHandles.cfg` | Two clients, one of which calls every function with any handle, compete for one key with exclusive and shared access: handles and enumerators are accounted for, also after a panic and in a new session, exclusively opened keys stay intact, the instance of the other client never panics. |
| `key_listing` | `KeyListing.cfg` | One client lists two names while the other creates, replaces and deletes them: nothing is left allocated, the list is exact for what did not change, every call returns. |
| `fs_objects` | `FsObjects.cfg` | One client writes while the other, with any handle, opens, renames, deletes and replaces: an object opened with meta access only changes by its owner, and a client that keeps to its handles never panics its instance. |
| `fs_key` | `FsKey.cfg` | Two sessions run `key_in_persistent` and open its object: handles are accounted for, the key that is deleted is the session's own. |
| `fs_misuse` | `FsMisuse.cfg` | One client, every object command, arbitrary handles: temporaries are freed on every path, a `loop` that succeeds leaves none of its objects, every command returns. |
| `client_session` | `ClientSession.cfg` | One client, four TAs, every order of commands and every failing call.  Crypt: what the client knows from results is the state of the TA (`ClientKnowsState`), `unpack_attrs` takes and restores whatever `pack_attrs` makes (`PackedIsAccepted`) and reads nothing outside a buffer it accepts, whoever made it (`AttributesInBuffer`).  AES and SHA: after a prepare that succeeded the static handle is usable; it is stale, and key objects are left behind, only after one that failed (`PerfHandlesReliable`).  Socket: open handles and open sockets are the same (`SocketsAccounted`).  A TA dies only of a failed or missing prepare, of several AES rounds, of AES data in several pieces that are no whole blocks or need more whole units than the output has, or of an offset behind the SHA input; the socket TA of a closed handle or, in the 64-bit kit, of one that no open filled (`DeathExplained`). |
| `nested` | `Nested.cfg` | Two threads, six TAs that open sessions: every handle of a nested session that a live instance keeps is one it opened, there are no other sessions but those whose handle `sims_open_ta_session` overwrote, and copies exist only during a command (`NestedSessionsAccounted`); without clients everything is released (`AllReleased`, with its two exceptions); the kept-alive counter only goes up; every RPC command returns. |
| `benchmark` | `Benchmark.cfg` | Two sessions work on the one test file with different sizes, every call may fail and the device may restart: a command returns with nothing held, and a file stays only after a failure that explains it (`NothingLeftBehind`), and then never keeps a later command from creating its own (`LeftoverOverwritten`); the rewrite test writes back what was there; a verified success means the pattern, a write test of whole chunks never reports corrupt data, a test that succeeded went through all of it (`ResultsTrue`); every command returns, although the count of `verify_file_data` wraps. |

### Bounds, and why they are enough

- `MaxPtrs` bounds the handle array: one doubling from 4, or two from 1.  The
  code treats every doubling alike, and the proofs hold for every bound.
- Three heap objects are as many as a command reads besides its results; aliasing
  between operands and results occurs.
- Two threads or two sessions: every hazard here is a pair of actors, one inside a
  command and one that changes what it relies on.  The proofs of `ConcurrentTa`
  hold for every finite number of threads.
- One storage identifier, one or two names, two handles: a conflict needs one name
  and two handles, rename and enumeration need two names.  With all handles taken
  `NewHandle` is disabled, and the model then takes the failing branch.
- `MaxGenerates` bounds how often a key is generated, so that listing meets keys
  created, replaced and deleted during the enumeration, in a finite state space.
- `LoopCount` is 2 where the code has 20: its iterations differ only
  in the name of the object, and two of them meet both a first and a repeated one.
- `FlagChoices` in the `Fs` configurations are exclusive access (with meta data),
  which the storage tests ask for, and fully shared access.  Access without meta
  data and without sharing is left out of the runs in which another client replaces
  objects: what a stream of a replaced object returns depends on the storage back
  end, which is not part of the repository.

- `ClientSession.cfg`: two operations and two objects, as many as a command names;
  addresses that differ from their offsets and a `ValMod` that cuts them, so that an
  absolute address does not come back; all lists of up to three attributes of five
  kinds (value, empty, one byte, longer than a word, no buffer) for packing, and
  hand-made buffers at every limit of the checks; sizes 0 to 8 of the AES buffers and
  units, with a block of 2: whole and broken blocks, one piece and several, a last piece
  that is no whole unit, and an output that is shorter, as long, and as long as the whole
  units; two rounds.  States that differ only in the results of the last call, which no
  later step reads and no property is about, count as one (`VIEW`).
- `Nested.cfg`: four instances and four sessions hold a client's session, a nested
  one and both again for the second thread; `MaxCounter` counts a second session.
- `Benchmark.cfg`: files of up to four bytes in chunks of one and two, multiples and
  not; the other session makes a shorter and a longer file.  `SizeWidth` 4 is wide
  enough that the wrapped count is far behind the file, as in the code.

Deadlock is checked in all runs: a client can always send, wait for an answer or
close its session.

Symmetry is used only without liveness properties, and only over sets whose
members no definition tells apart.

### Fairness

`ConcurrentTa` assumes weak fairness of the steps of each thread, `LibKey` and
`LibFs` weak fairness of `Progress(i)`: once a command was sent, the instance
runs it and the client takes the answer.  The normal world schedules its threads
preemptively and a TA command runs in the thread that invoked it, so none of them
starves.  `NestedTas` assumes it of the steps of a running RPC command and
`BenchmarkTa` of the steps of a command, for the same reason; a restart ends a
command, too, and is never assumed.  That a client calls anything is never assumed.

## Proofs

Eight modules, each with the theorems about one model, checked by TLAPS for every
value of the constants: any number of threads, sessions, instances, handles, names and
keys, any capacity, any set of functions that each client calls.  What they assume of
the constants are the named assumptions of the models, which TLC evaluates in every run:
that the model values that stand for nothing (`NULL`, `NoKey`) differ from the values
they are told apart from, that bounds are natural numbers, that sizes fit a `size_t`, that
`Threads`, `InstIds`, `SessIds`, `SockHandles` and the addresses of the crypto
objects are finite, that the heap of a TA lies within 4 GB behind `ta_head`, that a socket
handle fits the client's buffer, and that lists and buffers of attributes are such
(`IsAttrList`, `IsBuffer`).  Three theorems have a hypothesis of their own, stated
below.

Each theorem about an invariant has the same shape: an inductive invariant that holds in
`Init`, is kept by every action, and implies the property.  None of the properties is
inductive by itself; what had to be added is the interesting part of each proof.

- `HandleDbProofs`.  `DbTypeCorrect`, `DbImplementsMap`: the database implements
  `HandleMap`.  `DbTypeOK` is inductive by itself, and under it each operation maps to
  the operation of the map or to a stutter; the growing `handle_get` is the interesting
  case, because the domain of the array changes while the map gains one handle.
  `DbGrowsOnlyOnDemand` needs that the array only grows when every slot is taken, at which
  moment the number of handles in use is its length.
- `ArithProofs`.  `ArithNoDanglingSlot`, `ArithOneSlotPerObject`,
  `ArithHeldHandlesResolve`, for every set `Forged` of handles a client passes without
  holding them.  `IInv` adds that slots and objects have their types, that two slots never
  hold the same pointer, that every object has a slot, and that a held handle carries
  one type bit, that of its object.  The second is needed because `free_handle` frees the
  object of one slot: were it in two, the other one would dangle.  The commands that
  compute touch only values and are one case.
  `ArithImplementsVarStore` has the hypothesis `Disciplined`: a handle in `Forged`
  has an index that no object ever gets, beyond the longest array or beyond the number of
  objects, as in run `arith_disciplined`.  A client without forged handles is the case
  `Forged = {}`.  Stale handles are excluded by it and must be: a slot is given
  out again, and an old handle of the same type then names the new variable.  `RInv` adds
  that every used index is below the number of objects, because `handle_get` takes the
  first empty slot; so what a client passes and a lookup finds is a handle it
  holds.  Two held handles never share a slot (`HeldDiffer`), so freeing one
  deletes one variable, and assigning to the objects of the looked-up results
  (`CommandAssigns`) changes the variables of exactly those handles.  `OneResultAssigns`,
  `DivAssigns` and `EgcdAssigns` compare, command by command, what the code assigns with the
  results in the table of `ta_crypt.h`, in which `0xffffffff` stands for a cofactor
  that is not wanted.
- `ConcurrentProofs`.  `ConcurrentTypeCorrect`, `ConcurrentCounts`: `TypeOK` needs
  `CountsRunningCalls`, since the counter stays a natural number only because the call
  that decrements it is among those counted; `CInv` is both together.
  `ConcurrentPeak` adds `PeakInv`: the largest count so far was reported by a call that
  returned, or is in the hands of a call that has not returned yet.
  `ConcurrentNothingAllocated` adds which labels of `sha256` have the buffer and the operation.
- `LibKeyProofs`.  `KInv` says of each session by itself (`Local`) where client
  and TA are, which temporaries each label has, that the handles and enumerators the client
  knows are those that are open, but for what the command in progress opens or closes,
  and, of a client that keeps to its handles, that its next command finds them.  Of
  all sessions together it says that a handle with meta access is the only one on its
  object (`Exclusive`), and that such an object is stored as its holder sees it (`Intact`).
  The last two are what another session's step must not disturb: a create that replaces and
  a deletion need access, which an exclusive handle denies.  `KeyTemporariesFreed`,
  `KeyHandlesAccounted`, `KeyEnumeratorsAccounted`, `KeyExclusiveIntact` and
  `KeyDisciplineNeverPanics` follow.  `KeyListExact` needs `LInv` on top: what is in
  the list so far and what the enumerator has still to return are apart, and together
  contain whatever was stored throughout, at every point of `keyEnumObjectList` and while
  other sessions create and delete.
- `LibFsProofs`.  `FInv` has the same layers for the storage TA.  `Local` adds the labels
  of `key_in_persistent` and `loop` and the handles that the failed check leaves behind
  (`stranded`), and says of a handle the client holds on which object and with which
  flags; `ExclusiveMeta` and `Stored` are the shared part.  Its commands can
  rename, rewrite and truncate as well, so that every call of the TEE is first shown to
  have one of a few effects on handles and objects, each of which keeps the shared part.
  `FsTemporariesFreed`, `FsHandlesAccounted`, `FsDisciplineNeverPanics` and the action
  property `FsExclusiveObjectsStable` follow.  `FsOwnKeyDeleted` has the hypothesis
  `OnlyKeyCommands`: no client renames, replaces or deletes objects except through
  `key_in_persistent`, as in the run `fs_key`.  Without it the property is false: the object
  is closed in between and may be replaced.  `OwnKeys` then says that no two sessions own
  the same object and what is stored in it is the key that was generated.
  `FsLoopLeavesNothing` assumes that the set of sessions is finite and is about one
  session; `CleanAt` says that the objects of the iterations done are gone.
- `BenchmarkProofs`, in three layers.  `Ownership`: each session owns its buffer
  and at most one handle, where the program counter says, a handle is exclusive, and a file
  without a handle was left behind; from this `BenchmarkNothingLeft` and the
  action property `BenchmarkLeftover`.  `Progress`: position, remaining bytes and length
  of the file at each loop, among them that the chunk just read is the part of the file
  it is written back to; from this `BenchmarkRewriteKeeps`.  `PatternLayer`: the
  bytes before the position are whole chunks of the pattern, and how the wrapped count
  of `verify_file_data` is related to the position; from this `BenchmarkResults`.
  Ownership is what makes the others possible: a session's file changes only in its own steps.
- `NestedProofs`.  `NInv` says which sessions there are (`SessionInv`, `HostInv`), that an
  instance goes with its last session (`InstanceInv`), and that each handle which
  a context, a static variable or a running command keeps names an open session that
  this instance opened, in no second place (`ContextInv`, `StaticInv`, `CallInv`).
  `LostInv` counts the sessions without a handle.  `OpenerInv` is
  needed because closing a session may end an instance, which closes what it had open,
  and so on: an instance that opened a session and is no single instance still has the
  session of its client.  `NestedAccounted`,
  `NestedAllReleased` and the action property `NestedKeepAlive` follow.
- `ClientSessionProofs`.  `SInv`: the variables of the TAs without a session are as in a new
  instance, and those of the one with a session satisfy its part.  `AesInv` and `ShaInv`
  add little to the property; `CarefulStays` shows that one round in whole blocks, with
  an output of as many whole units as the input takes, stays inside both buffers.
  `SocketInv` says that each open socket belongs to exactly one
  handle in use (`Connected`) and which sizes handles have that nothing was stored in.  `CryptInv` says that the
  client's tables are the image of the live operations and objects under `HANDLE2VAL`
  (`Known`); since that is one to one (`HandleFacts`), every change of a
  table entry corresponds to a change at one address.  A dropped
  result of `TEE_AEUpdate` does no harm there because a refused update leaves the state
  alone.  `RoundTrip` and `NothingStrays` are about the buffer of attributes, for every list
  of any length: `Ends`, the running sum of `pack_attrs`, is a recursive function, and
  what is said of all its values is proved by looking at the least index for which it
  fails (`LeastExists`), since a theorem of induction cannot be cited.  From these
  `ClientKnows`, `ReadsInBuffer`, `PackedAccepted`, `HandlesReliable`,
  `DeathIsExplained` and `SocketsAreAccounted` follow.

The proofs changed the models in two places.  `AllReleased` claimed that without clients
nothing of a panicked instance remains; it does when two single instances have sessions with
each other and both panic: the property now names this exception.  And the case analysis for `stranded` in `LibFs.Returned` had two
alternatives that could both apply.

Only model-checked: liveness (`CallsReturn`, `CommandReturns`), since fairness and `ENABLED` are
out of the prover's reach.

## Disagreements with the documentation

1. `ta/crypt/include/ta_crypt.h:396` says that `TA_CRYPT_CMD_ARITH_NEW_VAR` returns
   the handle in `params[1].value.b`.  The TA (`arith_taf.c:88`) writes `value.a`,
   as for the two other kinds of variables (no client in the repository sends
   the command).  Run `arith_doc`.

Read and not made a run: `ta/concurrent/include/ta_concurrent.h:47` calls
`params[1].value.b` the maximal concurrency, while a call reports the number of calls
that ran when it started; taken over all calls the largest value is the maximum, which
is `PeakIsReported`.  The comments in `ta/key/include/user_ta_header_defines.h` and its
copy in `ta/storage` describe a single instance without concurrent sessions, the flags
below them say `TA_FLAG_MULTI_SESSION` only; the models follow the flags.

## Not modelled

Inside the modelled parts:

- a failing `TEEC_OpenSession` and a failing `malloc` in the host libraries: the
  functions then return before anything was sent;
- stream positions and the usage bits of an object: no command branches on them;
- the `_ID_IN_SHM` variants of the storage commands, which no client here sends;
- the values that `TEE_BigInt` computes, key material, digests: external;
- in the crypt TA `set_global` and `get_global`, the random pool and the TA unique
  keys; in `host/libcrypt` the one-shot digest and cipher functions, which keep no
  state; data that ciphers produce, so that the dropped result of `TEE_AEUpdate`
  (`cryp_taf.c:625`) has no effect here;
- the buckets of `sims_read` and `sims_write` and the copy of the counter in a context;
- `inject`, `transform` and `dump` of the secure data path TA, which copy between two
  buffers of the client and keep nothing;
- the times that the benchmark measures.

Hard to test, and not reached by these models because they abstract from it: an
identifier of the maximal length in `ta/key/key.c:105`, whose terminating zero lies
one behind `objectID`; a `keyEnumObjectList` that ended with an error of `keyNextEnum`
and returns the result of `keyFreeEnum` (`host/libkey/key.c:160`), so that a caller
cannot tell an incomplete list; the session structure of `host/libsess/session.c:21`,
which a second close would free twice.

Whole parts: AES, SHA-2 and test vectors in `ta/crypt` (wide arithmetic, out of
TLC's reach), `ta/os_test` and its libraries (self tests without state),
`ta/hello`, `ta/create_fail_test` (constant answers), the host test programs
(fixed callers of what is modelled with arbitrary inputs), the vendored test
framework and the OP-TEE build environment.  These vendored trees (googletest, two
copies of the TA kit with the headers of mbedTLS and libc, certificates) are more than
nine tenths of the lines in the repository.  They have no behaviour of this system to
model, so that the map can cover only a small share of all lines.  Of the 16,000 lines
under `ta/` and `host/` it covers a third; the rest is headers, imported ciphers, test
vectors, self tests and host test programs.

## Plan

The parts with state are modelled, and every invariant, every action property and both
refinements that a run checks are proved.  What is left are
statements that no run checks as a property of its own: an abstract specification of the
persistent objects as the clients of `host/libfs` see them, which `LibFs` would implement
except after the failures that leave an object behind, and one of the key store for
`LibKey`.
