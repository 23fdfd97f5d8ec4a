# Akkon: a verification project

Akkon is a C++ server that keeps identifiers (hashes) in SQLite shards and answers over
HTTP whether an identifier is known.  One thread polls the sockets, eight workers handle
requests, a broadcast thread sends statistics to WebSocket clients, and two monitors may
put the server into a lockdown.  This directory holds TLA+ models of the parts of it that
are hard to test, the TLC configurations that check them, and TLAPS proofs.

To check a run: `tlc -config MCServer.cfg MCServer`, and so on for each row of the table of
runs.  To prove: `tlapm ServerProofs.tla`, and the other `*Proofs` modules.
Paths of the form `network/Server.cpp` are below `src/` of the repository.

## The system and its parts

| part | state | operations | hard about it |
|---|---|---|---|
| `ThreadPool` (`network/Server.h`) | queue, stop flag, condition variable, workers | `enqueue`, worker loop, destructor | lost wakeups, draining at the end |
| `Server` (`network/Server.cpp`) | `m_fds` (pollfd vector), `m_pending_actions`, the kernel's descriptor table | poll loop, `closeClient`, `enablePolling`, `disconnectAll`, `sendData` | descriptors are reused while actions and tasks still name them |
| data handler (`main.cpp`) | `ws_clients` under `ws_mutex` | routing of one chunk, insert, exists, WebSocket upgrade and frames | runs on eight workers at once |
| `QueryEngine`, `BloomFilter` (`index/`) | bit vector, exact store | `insert`, `query` | no lock |
| `DataStorage` (`db/`) | open shards, round-robin index, rows on disk | `initialize`, `insertEntity`, `loadAllIdentifiers` | no lock, crashes, failing writes |
| `LifecycleManager`, `HealthMonitor` | lockdown state | polling a vulnerability service, disk and memory checks | two writers of one state, sampled by the loop |
| `SystemMonitor` | pipe to the watchdog process, log callback | `init`, `log`, `runWatchdog` | a callback under a mutex, from every thread; a full pipe; two processes that end in any order |
| `ArgumentRegistry`, `main` | the command line | `parse`, the evaluation of its result, `main`'s own loops | one vector read by several rules |
| `MasterDB`, `Shell` (`construction/`, `shell/`) | `master.db`, the files in `db/` | scan, import, recreate, create | crashes between file and catalogue |
| `ArenaAllocator`, `MemoryManager` (`memory/`) | bump pointer, canaries | `allocate`, `reset`, `verify` | unsynchronised callers, exhaustion |
| `TestFramework` (`testsuite/`) | table of child processes | start, status, stop, kill, wait | reaping, reuse of process numbers |
| protocols, crypto | none | parsing, framing, hashing | pure functions |

Interactions: the loop hands each chunk it reads to the pool as a closure; a worker runs
the handler, which sends directly on the descriptor and finally calls `closeClient` or
`enablePolling`; these push an action that the loop takes up in its next iteration.  The
broadcast thread and the log callback walk `ws_clients`, send to each, and push a CLOSE for
those that fail.  The monitors store the lockdown state; the handler reads it once per
chunk, the loop once per iteration.  The catalogue is settled by `Shell::run` before the
server starts, and gives `DataStorage` its shards.

What makes each part correct:

- **ThreadPool**: tasks run once, in order; no task waits beside a sleeping worker; the
  destructor returns and leaves no task behind.
- **Server and handler**: table and kernel agree; a connection has one owner at a time; a
  suspended connection always has somebody who will end the suspension; a reply goes to the
  client that asked; a WebSocket is in `ws_clients` as long as it is connected.
- **Log and mutexes**: one order of locking; one walk at a time; every broadcast ends.
- **Index and shards**: what is on disk is in the index; what got 200 is known, stored, and
  stored once; a duplicate is refused.
- **Catalogue**: a uuid and a file are named once; no shard file is lost; as many shards as
  were asked for, and no more because a start was cut short.
- **Lockdown and process**: the state comes back to what service and disk say; a shutdown
  ends; an entry logged while the server lives is written; the watchdog ends after the
  server and not before.
- **Arena**: blocks lie apart; `verify` fails after an overrun and never without one.
- **Frames**: a chunk gives the payloads of the frames it holds whole, wherever the stream
  was cut.
- **Command line**: the loops that read it agree.
- **TestFramework**: status and process agree; no child is lost; every call returns;
  `runtime` leaves no child behind.

## Modules

**TaskQueue** is the abstract specification of the pool: an ordered executor of bounded
width.

**ThreadPool** models the class at the granularity of its critical sections.  A worker is
`ready` (about to look at the queue), `waiting`, `running` or `returned`;
`Accept`/`NotifyOne` are the two halves of `enqueue`; `Stop`, `NotifyAll` and `Join` the
steps of the destructor.  It implements `TaskQueue` (property `ImplementsTaskQueue`, and a
proof of the same).

**Server** models the poll loop, the handler's routing, the walks over `ws_clients`, the
clients and the kernel's descriptor table.  `lpc` is the loop's place in an iteration
(`top`, `actions`, `poll`, `accept`, `scan`; `log` inside the log entry that ends
`disconnectAll`), `wpc` a worker's place in the handler, one step for each send, each look
at shared state and the final push.  A chunk is one result of `recv`, reduced to the branch
it selects.  The model is of a server without `--debug`.

**LogLocks** models the three mutexes `s_callback_mutex`, `ws_mutex` and `m_action_mutex`
and the threads that take them.  Server leaves mutexes to the atomicity of its actions; in
LogLocks waiting for one is a state, and a descriptor is just open or not.  `CallLog` is a
call of `log` that goes on at `ret`; `Debug` says whether `DEBUG` entries are logged.  The
recursion of `ws_mutex` is never used; the flag `in_log_callback` is never found set, since
the mutex around the callback keeps a second call out.

**Registry** models inserting identifiers: the handler's insert branch, the filter, the
exact store, the shards, and crashes of the process.  Reading and writing a word of
`vector<bool>`, a bucket of the hash set, and the round-robin index are separate steps.
`Restart` is `initialize` and `loadAllIdentifiers` as SQLite lets them: any of the shards may
fail to open, and is then not in `m_data_dbs`; of each other shard any number of first rows
is read, because a `prepare` that fails is skipped and a `step` that fails ends the loop.
The server listens all the same.  Two history variables say what the properties may claim:
`unread`, the identifiers with a row that this start has neither read nor written, and
`alone`, whether no two requests have overlapped since the start.  `NoSecondRow`,
`IndexCoversDisk` and `AckedIsKnown` hold while `alone`, and not after (`registry_twice`);
`TypeOK`, with the range of the round-robin index, holds whatever overlaps.

**Register** is the abstract specification of what a client may rely on: while requests do
not overlap, `Learn` an identifier once, `Persist` and `Acknowledge` it only while it is
being learnt; `Crash`; and `Restart`, which knows nothing that has no row, though not
always all that has one.  After `Overlap` only rows stay.  Registry implements it (property
`ImplementsRegister`, and a proof of the same): known is what `query` answers
DEFINITELY_YES, learning an identifier is what happens between the write of the exact store
and the reply, stored is what is in a shard.

**Catalog** models a start of the program: `Start`, then `Import` for each file of the
directory that no row names, `Load`, `Recreate` of missing files, `Create` of new shards up
to `-c`, `Open` and `Serve`.  Each durable write (a file, its table `metadata`, a row of
`master.db`) is an action of its own; `Crash` may follow any of them, and between two runs
a user adds, deletes and removes files.  Files and uuids are both `Names`, because
`db/<uuid>.db` is the file's name; `metadata` maps a file to the uuid it holds.

Every call of SQLite in that sequence may fail, and the code goes on: the query for the
mapped paths stops early (`Start`), a file's metadata cannot be read and its stem is taken
for the uuid (`ImportByName`), the INSERT of an import fails (`ImportFails`), `loadExisting`
ends at any row (`Load`), a missing file cannot be opened (`RecreateFails`) or gets no
metadata (`RecreateMeta`), a new one cannot be opened and is counted all the same
(`CreateFails`), gets no metadata (`CreateMeta`) or no row (`RegisterFails`, since
`createNewDatabase` ignores what `registerDatabase` returns), and a shard cannot be opened
for serving (`OpenFails`).  `failed` remembers the calls that failed in this start, `blind`
the paths that some scan could not read, `overlooked` how many files and rows some start did
not take in.  So the properties do not say that a start succeeds, but that a failure costs
no more than the shard it struck, and only in that start:

- `UniqueRows`: two rows name one file only where a scan could not read its path.
- `FilesAdopted`: a run with import that serves knows every file, but those whose own
  import, metadata or registration failed in this start.
- `EnoughShards`: a run that serves has `-c` shards, less those whose creation or
  registration failed in this start.
- `NoSurplus`: without changes by the user there are no more than `-c` shards and one for
  each file or row that some start overlooked.
- `OwnShardsPresent`: the program's own missing files are back, but those whose row was not
  loaded or whose file could not be opened in this start.

**Instances** models `TestFramework` against the kernel's process table.  Each system call
(`fork`, `kill`, `waitpid`) is a step, and children, and processes of strangers, come and
go between any two.  `owner` says whose process a number is; `Observe` is `getStatus`,
which all the other calls go through.

**Watchdog** models the pair of processes of a running server: `Fork` is `init`, `Log` an
entry on its way into the pipe (which may be full), the other actions are `runWatchdog`
(`poll`, `read`, the look at the parent).  A tagged entry is followed from `log` to the log
file.  `platform` says where the server runs, because three facts about it decide what the
watchdog sees: whether it is process 1, whether orphans go to a subreaper, and whether
`poll` reports the end of a pipe as readable.

**Process** EXTENDS Watchdog with the threads of the server: `main` from its first line to
its end, the thread of `LifecycleManager` with its request to the service, and the broadcast
thread with the health check.  The last two write one variable, `s_lockdown_state`.  The
poll loop is one place (`serve`) here; what it does is Server's.

**Arena** models `ArenaAllocator` byte by byte, but only which bytes hold the canary value
(`marked`); `Write` is a holder that writes one byte inside its block or next to it, at most
64 bytes past its ends, and `overrun` remembers whether one did.

**Frames** models `encodeFrame`, `decodeFrame` and `decodeFrames` as functions on sequences
of bytes, and the stream: `SendFrame` appends to it, `Receive` hands `decodeFrames` a prefix
of what is unread.  A byte has 2 * `Top` values; with `Top` = 4 the codes 126 and 127 for
longer lengths become 2 and 3, so that all three forms of a length occur in short frames.
`Turn` is a turn of the loop of `decodeFrames`, and `Turns` so many turns that it has ended:
each that goes on takes two bytes.  `XorBytes` is the exclusive or of two bytes, a constant
because all that matters of it is that it undoes itself.

**Arguments** models the loops over the command line: `Parse` is a turn of
`ArgumentRegistry::parse`, `Apply` of `Shell::run`, `FindHelp` and `FindPort` of `main`.
`Options` and `Asked` say what a command line means, and `ServesAsAsked` compares.  It
leaves two things open: what becomes of a line with `--debug` and an unregistered argument,
which is the question of `DebugOnlyWarns`, and which port is taken when one of the values
is no number.

**ThreadPoolProofs**, **ServerProofs**, **RegistryProofs**, **CatalogProofs**,
**InstancesProofs**, **LogLocksProofs**, **ProcessProofs** and **HelpersProofs** hold the
theorems; **MC...** the
instances for TLC.  MCHelpers puts Arena, Frames, Arguments and Instances, which share
nothing, side by side: `subject` says which one a behaviour is about.  Definitions marked "Faulty" are variants of the code with a plausible mistake;
nothing uses them except the check that each property can fail.

## Runs

| run | question | result |
|---|---|---|
| `pool` | Does the pool lose a wakeup or a task, and does its destructor return? | holds; it is an ordered executor |
| `server` | Do table, kernel, suspended connections and WebSockets stay consistent through lockdowns and reuse of descriptors? | holds |
| `server_http` | With HTTP clients only: one owner per connection, replies to the right client, every request answered? | holds |
| `server_ws` | Is the descriptor of a WebSocket client that left released? | holds |
| `registry` | Two workers, with crashes, failing writes, shards that do not open and partial loads: is the round-robin index in range; while requests do not overlap, do index, shards and replies agree, and does a client see a register? | holds; it implements Register |
| `catalog` | With crashes, failing calls and changes by the user: rows unique, files adopted, shards enough and not too many, own shards recreated, but for what failed in the same start? | holds |
| `locks` | Without `--debug`: one order of mutexes, exclusive walks, does every broadcast end and an unreachable WebSocket leave? | holds |
| `registry_twice` | Is a duplicate always refused? | violated by two workers |
| `locks_debug` | Do all threads go on with `--debug`? | violated: the loop waits for itself |
| `helpers` | Do blocks of an arena lie apart, and does `verify` tell every overrun? Does a chunk give the frames it holds? Do the loops over the command line agree? Do status and process of the test framework's children agree, is every child tracked, does every call return? | holds |
| `arguments_debug` | Does `--debug` turn an unregistered argument into a warning? | violated: `parse` runs before `m_debug` is set |
| `process` | Does the lockdown state follow service and disk, does a shutdown end, are log entries written and none lost before the end, does the watchdog follow the server? | holds |

The three violated runs are the entries under "findings" of `PROJECT.json`, each with the
line of documentation or test it is measured by.

The models also have behaviours that surprise a reader of the code but contradict no line of
the repository that a run could quote, or are named here because they need no run:

- Server: the descriptor of a WebSocket that left stays in `ws_clients` until the next walk
  fails on it; a client that connects in between and gets the number has its HTTP request
  decoded as frames.  `disconnectAll` may be followed by an ENABLE that arms a descriptor
  whose chunk another task handles.
- Registry: two workers that write one word of the filter lose a bit (`AddRead`,
  `AddWrite`); when `insertEntity` fails, its result is ignored and the client gets 200
  (`Write` without a row, then `Succeed`).  A start that could not read a row serves
  without it, and stores the identifier a second time when it is inserted again.
- Catalog: a missing file that was imported is not recreated, since its path is recomputed
  from its uuid.  A shard whose creation or registration failed is counted as made, so that
  a start may serve with fewer than `-c` shards, although flow.md:23 says that shards are
  created and registered until there are that many; the next start makes up
  for it.  A file whose import failed, or a row that was not loaded, makes for one
  shard too many.
- Instances: the exit status of a child that a poll has reaped is -1, which is what
  `runtime` then returns, and a signal may go to a process that has got the number of a
  reaped child.
- Process: a lockdown because of a full disk is lifted by the next SAFE answer and comes
  back at the next health check.  Every return of `main` with the polling thread started
  ends in `std::terminate`, also where docs/MemoryDomainDesign.md:42 says exit code 1.
  After an error of `poll`, `m_running` stays TRUE and the broadcast thread goes on.
- Watchdog: where the server is process 1, the watchdog takes it for gone at once, and log
  entries fail from then on; what is left in the pipe when the server ends is lost.
- Frames: fragments of a message are returned as messages (FIN is ignored), a frame cut by
  `recv` is lost and its rest decoded as a frame, and `encodeFrame` has no form for 65536
  bytes and more.
- Arguments: `-p --help` sets up the catalogue and ends without a message; `-p x` after `-p 80` leaves
  80, although the comment at main.cpp:154 speaks of the default.

### Bounds

- `pool`: three workers are the least with one running, one sleeping and one on its way to
  the queue; three tasks outnumber the two callers, so that the queue grows and drains.
- `server`: two connections over two descriptors, so that the second gets the number of the
  first or lives beside it; two workers, so that two handlers overlap; one chunk each (a
  handled chunk leaves no trace but the events of the connection).  `MaxChunks` bounds what
  a client sends; `server_http` has two chunks per client, which is pipelining.
  `m_pending_actions` is a set: the loop empties the vector in one pass under the mutex,
  and the order of CLOSE and ENABLE for one descriptor makes no difference to the outcome.
- `locks`: one descriptor, one worker, one monitor, the loop and the broadcast thread: every
  pair of roles contends for every mutex.  The theorems about its safety properties hold for
  any number of each.
- `registry`: two identifiers that share a bit and a bucket, over two words; two shards;
  two workers; three requests and two crashes, so that one may hit the insert and one what
  comes after the reload (`MaxRequests`, `MaxCrashes`).  Every subset of the shards may
  open, and any number of rows of each be read.
- `catalog`: four names for two shards, two crashes and one change by the user
  (`MaxCrashes`, `MaxChanges`), which may delete any set of files: a shard can be cut short
  between file and row twice, or be removed and come back.  Two calls of one start may fail
  (`MaxFailures`), of every kind, each start anew; an action that would be the third is
  disabled.  The theorems hold for any of these bounds.
- `helpers`: a buffer of 400 bytes at an address that is no multiple of 64 (`Base` = 16) holds up to three blocks
  of 0, 1 or 64 bytes, so that padding, an empty block and a reused canary occur.  Two
  frames of seven kinds (empty, masked, the longest short length, the two longer forms), cut
  at every place where something changes (`Arrivals`); opcodes are modulo 4, so that text,
  binary and others occur.  All command lines of up to four
  arguments: four are the least where an option has an option for its value and is given
  again; `arguments_debug` needs two.  Two instances over two process numbers that are given
  out again, to instances and to strangers; two attempts of the polling loops (`MaxTries`;
  the code has 50 and more, each the same).
- `process`: a pipe that is full after one entry (`PipeCap`), three platforms (a child of a
  shell, under a subreaper, process 1), a service that answers SAFE or CLOSE or hangs, and a
  disk that is or is not low.  The process really ends, so deadlock is not checked.

### Fairness

- Pool: weak fairness of each worker, of a pending `notify_one` and of the destructor's
  steps: threads run.  A worker that waits needs the notification.
- Server: strong fairness of the loop and of each worker, weak of the walk.  The steps of
  loop and workers are disabled while a mutex is held by another thread for a bounded time,
  and the scheduler and the mutex let each go on eventually.  Nothing is assumed of
  clients and monitors.
- LogLocks: strong fairness of each thread in the middle of something (a mutex that is free
  again and again is obtained: its holders sleep two seconds, or poll, between two critical
  sections), weak fairness of the timer.  What a client or a monitor starts is not fair.
- Process: strong fairness of the steps of `main` and of the two threads, since the pipe
  they log into has room again and again as long as the watchdog reads it; weak fairness of
  the watchdog.  Nothing is assumed of whoever waits for the server (`Reap`), of signals, of
  errors of `poll`, of the service and of the disk.  `StatusReached` and `LowDiskLocksDown`
  are about a service that answers and a disk that stays as it is.
- Instances: weak fairness of the framework's own steps, and a process with a pending
  SIGKILL ends.  Other children need not end.

## What is proved

Every theorem holds for all values of the constants that satisfy the module's named
assumption.

- **ThreadPool** (`PoolAssumption`: finite sets of workers and callers, at least one
  worker).  `PoolInv` strengthens the run's invariants with what each place of the
  destructor says about `m_stop` and the workers.  `NoIdleBacklog` is an inequality of
  cardinalities and needs lemmas on how `At(...)` and `Notifying` change by one element.
  Refinement: `PoolImplementsTaskQueue` shows that initial states map to initial states and
  every step to a step or a stutter of `TaskQueue`.
- **Server** (`ServerAssumption`).  `ServerInv` is needed because no property of the run is
  inductive by itself: that a suspended connection has somebody responsible depends on
  which task names which connection, and that on the table agreeing with the kernel.
  `ConnectionHasOneOwner` and `RepliesReachTheRequester` hold under `HttpOnly` (no upgrade
  and no IMMEDIATE lockdown), and are false without: a
  WebSocket that left its descriptor in `ws_clients` is one way.
- **Catalog** (`CatalogAssumption`).  `CatalogInv` adds to uniqueness that the scan's
  snapshot of paths is, but for what it could not read, the catalogue's as long as nothing
  is imported, and that a shard being made is in no row; `AdoptInv` adds what the scan has dealt with so far.  From them
  `RowsUnique`, `NoFileLost` and `ShardsEnough`.  `PresentInv` adds which rows still wait
  for their file, and gives `OwnShardsThere`.  `ShardsNotTooMany` needs `SurplusInv`: as long
  as nobody interferes, every file and row bears its shard's name, and files and rows
  together name at most `Count + overlooked` shards; a bound on the rows alone is not inductive, since a
  file without a row becomes one at the next start.
- **Instances** (`InstancesAssumption`).  `IInv` ties the table of instances to the kernel's:
  a child that has not been reaped has the number that its entry holds, and the entry says
  it runs (`Owned` in `TableInv`); a call in progress has an entry, and a number where its
  next step needs one (`CallInv`).  None of the four properties is inductive
  alone, because the number of a reaped child stays in the table and is given out again.
- **Arena** (`ArenaAssumption`: capacity and address any natural numbers).  `Layout` says
  that blocks follow each other inside of `m_used`, so that what one holder may reach lies
  in no canary of another block; that makes `AlarmIffOverrun` hold in both directions.
- **Command line** (`ArgumentsAssumption`: no number and no other word is the name of an
  option).  `ArgsInv` says, for each of the loops, what has been read so far: that the words
  before `pos` pair up as options and values, that the number of shards and the port are
  the last ones given among them (`IsLast`), and that `parsed_args` is the line read so far.
  `ServesAsAsked` follows at the end for lines of any length; the work is in lemmas on the
  recursive `IsOption`, which tells options from values.
- **Frames** (`FramesAssumption`: a byte has at least six values, FIN and text is text, the
  exclusive or undoes itself, and clients send frames of RFC 6455's form).  `WholeFrames`
  needs three groups of lemmas: a sequence that is flattened has its parts where their
  lengths say (`FlattenLies`); the header of a frame is read as what the client put there
  (`HeaderRead`, with `BigEndianHorner` for the length); and a turn at the start of a whole
  frame reads it (`TurnReads`), at a frame that is cut off ends (`TurnEnds`).
  `ChunkDecoded` puts them together by induction over the frames of the chunk.
  `EncodedIsDecoded` holds in every state in which the payloads have their type, since
  `encodeFrame`'s result is a frame of that form (`EncodedIsFrame`).
- **Watchdog and Process** (`WatchdogAssumption`).  `FateInv` follows the tagged entry: it is
  in the pipe once or not at all, what became of it says where it is, and a lost one is in
  the pipe only where the watchdog has ended.  `NotLostWhileRunning` is not inductive
  without the fact that a watchdog ends only after the server, or where that is process 1;
  with it hold `EntriesSettle` and `LocalsOutliveBroadcast`, which speaks of main and the
  broadcast thread alone.
- **LogLocks** (`LogLocksAssumption`).  `WalkInv` ties the holder of a mutex to the place of
  the thread; `QuietLoop`, under `~ Debug`, says that the loop is outside of `log` while it
  holds `m_action_mutex`.  `NoCircularWait` follows from both: a thread that holds one
  mutex only waits for one of higher rank.
- **Registry** (`RegistryAssumption`).  `TypeInv` adds to the types what each step of the
  handler says about a worker's locals; `TypeCorrect` holds for any number of workers, and
  with it the range of the round-robin index.  `OneInv`, which speaks of a process in which
  no requests have overlapped, is what the three other theorems
  rest on: how far the request has come (`Progress`), that the index covers the disk, that
  an acknowledged identifier is known, and that rows are unique.  It is inductive only
  `alone`, because then a word or bucket is still as it was read when it is written back
  (`Fresh`); after an overlap it is false, which
  `registry_twice` shows, and it holds again from the next start on.  No theorem restricts
  the workers.  Refinement: `RegistryImplementsRegister` needs `MapInv` besides: what is in the exact store has its bits in the filter,
  and a request past the duplicate check adds one identifier that was not there.  Of the
  steps of a request only `StoreWrite`, `Write` and `Succeed` are visible.

Recursive functions are proved about by induction: `NatSetInduction` (a set of numbers with 0
and every successor is all of them) follows from the well-founded order of the numbers, and
`NatRecursion` and `FiniteRecursion` from it, which unfold a function that is defined by
recursion.  They take sets and functions as parameters, never operators.

Invariants used in proofs (`PoolInv`, `ServerInv`, `CatalogInv`, `AdoptInv`, `PresentInv`,
`SurplusInv`, `WalkInv`, `QuietLoop`, `TypeInv`, `OneInv`, `MapInv`, `FateInv`, `IInv`, and those of Arena and
Arguments) were checked with TLC on the same small instances before they were proved.

Only model-checked: all liveness (`DtorReturns`, `HttpAnswered`, `DescriptorsReleased`,
`BroadcastsGoOn`, `UnreachableForgotten`, `CallsReturn`, `StatusReached`,
`LowDiskLocksDown`, `ShutdownCompletes`, `LoggedIsWritten`, `WatchdogFollowsServer`), since
the proof system covers neither liveness under fairness nor `ENABLED`.  Every safety
property of a passing run is proved.

Proved, and not repeated in a run: `TypeOK` of ThreadPool, Server, Catalog, Instances,
LogLocks and Process, `Fifo`, `NobodySleepsThroughStop` and `ReturnedMeansDrained` of
ThreadPool, `OneDescriptor` of Server, `FateIsFinal` of Watchdog, `BroadcastOutlived` of
Process, `ArenaTypeOK` and `FramesTypeOK`.

## What is not modelled

- The contents of requests and replies, JSON, static files: only the branch of the handler
  that a request selects.
- `send` that takes part of its data, and requests that `recv` splits: a chunk is a request
  and a send arrives or fails.
- `Server::stop` and what follows the loop: nothing calls `stop` while the loop runs.
- SQLite: a shard is a durable sequence of rows, `master.db` a durable sequence of rows
  with a unique column; its calls fail or do what they say.  The metrics table is left out.
- A `master.db` that does not open, with which the program ends before it has done anything.
- In Watchdog, a process that gets the number of a server that has ended (`main_pid`) before
  the watchdog looks again, which it does at least once a second.
- SHA-256, SHA-1, base64: fixed arithmetic for which the test vectors are the better check.
- Overlapping calls of an arena: `allocate` on several workers is undefined behaviour of
  `std::vector`, and Arena is about one caller at a time.  Holders that write into blocks
  that a reset has given up.
- The score of `HealthMonitor` and its SMART branch, which only log; the handshake of
  WebSockets (SHA-1, base64).
- The detection of containers, the Windows branches, the browser's dashboard and the
  stand-in for the vulnerability service.
- `ArgumentParser`, which the program does not use.
- Vendored code: `sqlite/` is 52000 of the 56000 lines of the repository and is not
  modelled.  Of the program's own C++ (4000 lines) the models stand for somewhat less than
  half; most of the rest is formatting, parsing of text and the branches named above.

## Plan

The modules of the original plan are written, and every safety property that a passing run
checks is proved.  What is left, in order of worth:

1. A proof that Server implements an abstract connection: polled, owned, answered, closed.
2. Lemmas that the proofs of Server and Instances repeat, stated once.
3. Compositions: Catalog with Registry (a start, then inserts, then a crash and a start);
   ThreadPool under Server, with the pool in place of `m_tasks`; Process with Server's loop
   in place of `serve`.
4. Arena with two callers, where each read and write of `m_used` is a step.
5. Reads that split a request, and sends that are taken in part, in Server.
