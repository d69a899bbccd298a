# A TLA+ model of py_lib_runtime

`py_lib_runtime` is a small Python runtime library: a persistent cache with
compute-on-miss, a `@cached` decorator over it, a process-wide configuration
registry, logging set-up with duration and retry events, and a few pure helpers
(previews, numeric validation). This directory holds TLA+ models of its
concurrent parts and of the data the cache stores, the TLC configurations that
check them on small instances, and proofs of the main results for every size.

Paths below are relative to `src/py_lib_runtime/` of the repository, and
`base.py` is `_internal/cache/base.py`,
`service.py` is `_internal/logging/service.py`.

    tlc -config manager_crash.cfg MCCacheManager    # one run
    tlapm CacheManagerProofs.tla                    # the proofs of a module

`PROJECT.json` lists the runs, the source lines each definition stands for, the
hazards the properties are aimed at, and for every property a faulty variant of
the code that it catches. The faulty variants are the operators marked
"Faulty variant" in the modules; no specification uses them.


## Inventory

| component | code | state | operations | what is hard |
|---|---|---|---|---|
| Cache manager, synchronous | `base.py` | the handle `_cache`, two hit/miss counters, entries and per-key lock rows in a diskcache directory shared by threads and processes | `get`, `set`, `delete`, `has`, `clear`, `stats`, `close`, `get_or_set` | double-checked lookup under a lock stored in the very table that is cleared and culled; handle checked, then used; crash of a lock holder |
| Cache manager, asynchronous | `base.py:192-232, 422-426` | the same, plus the default executor's queue and threads | `get_or_set_async` | acquire and release both need pool threads; cancellation at every await; synchronous calls on the loop |
| `@cached` | `_internal/cache/decorators.py` | none of its own: a call has its context, its result and the events it has emitted | cached, refreshing and bypassing calls, sync and async; `on_hit`, `on_miss`, `on_store` | refresh stores without the lock; events are reported apart from the writes they speak of; callbacks and functions raise |
| Key normalization | `base.py:370-384, 451-513` | none | `_storage_key`, `_normalize_key_value` | equal keys must get one storage key, different ones must not |
| Payload compression | `base.py:298-368` | three counters | `_prepare_for_storage`, `_restore_from_storage`, thresholds | type lost in a round trip, user dictionaries that look like wrappers, counters ahead of writes |
| Cache directories | `_internal/cache/paths.py`, `base.py:44-87` | environment, the directories made | path resolution, construction of a manager | the resolution and the constructor read the installed configuration each for itself; namespaces that climb |
| Configuration registry and models | `_internal/config/` | the installed `RuntimeConfig` | `install`, `get`, building and validating snapshots | readers that read twice across an install |
| Logging set-up | `_internal/logging/service.py:1-149` | root handlers, library handlers, structlog configuration | `get_logger`, `configure_logging` | check-then-act on process-wide state |
| Duration logging | `_internal/logging/service.py:150-257` | one `_start` slot per logger object | context-manager entry and exit, events | nested or concurrent use of one object; reports that raise |
| Retry logging | `_internal/logging/service.py:262-314, 382-443` | a callback's event type, resolved once; one event per call | before-sleep callback, report of exhaustion | the order of merge and sink; one callback called by many threads; what the application gives may raise |
| Previews | `_internal/previews/formatting.py` | none | truncation | length arithmetic |
| Numeric validation | `_internal/validation/numbers.py` | none | argument checks | bounds |
| Public facade | `_api/` | none | delegation | translation of exceptions |
| diskcache, asyncio, concurrent.futures | external | the SQLite table; the loop; the pool | as used by `base.py` | eviction, lock spin, FIFO queue, cancelled futures |

The decorator calls a manager found by its `cache_getter`; a manager calls
diskcache, user factories, `is_valid` predicates and the size and entry
callbacks; asynchronous managers also hand jobs to the executor. The manager
and the path helpers read the configuration registry when a manager is built.
Logging is a separate half that shares only the registry.

What makes each component correct:

* **manager**: one computation per key at a time, in any process, and only of
  what cannot be read; every lock is dropped, however the call ends; every call
  ends; callers that wait for one computation share its result;
* **asynchronous manager**: the same, with tasks that may be cancelled;
* **decorator**: the events of a call tell what it did; the cache does not go
  back to older results;
* **normalization, compression**: a directory is a map from what keys mean to
  what was stored, for managers with different thresholds; the counters are true;
* **registry**: a reader sees one valid snapshot, of the time of its call;
  **directories**: none outside the configured roots but those callers name;
* **retry logging**: an event tells of its own attempt; **logging set-up**: handlers do
  not pile up, loggers stay routed, levels belong together, the application's
  own set-up is respected; **durations**: one event per use, with its own start;
* **previews, validation**: results within the stated bounds.


## Modules

    ComputeOnce          what get_or_set promises
      ^            ^
    CacheManager   AsyncCacheManager      CachedDecorator
      ^                ^                     ^
    MCCacheManager   MCAsyncCacheManager   MCCachedDecorator

    NestedCalls      calls of get_or_set by factories
      ^
    MCNestedCalls

    EntryMap         what a directory promises
      ^
    StoredEntries -> Payloads      KeyMeaning -> CacheKeys
      ^                              ^
    MCStoredEntries -----------------+

    RuntimeConfig      the configuration registry
      ^         ^       ^
    LoggingSetup |      |                             DurationLogger
      ^          CacheOpening  RetryLogging -> Previews   ^
      |               ^         ^                      MCDurationLogger
    MCLoggingSetup   ConfigReaders
                       ^
                     MCConfigReaders

The proofs about a module `M` are in `MProofs`, which EXTENDS it:
CacheManagerProofs, AsyncCacheManagerProofs, NestedCallsProofs,
CachedDecoratorProofs, DurationLoggerProofs, LoggingSetupProofs and
ConfigReadersProofs, of which the last two also EXTEND RuntimeConfigProofs.
ConfigReadersProofs has those about CacheOpening, RetryLogging and Previews.
CacheManagerProofs also EXTENDS StoredEntries, the other model of the same file,
and has the proofs about it and Payloads; to that end the two models share no name.

### ComputeOnce

The abstract specification: a cell per key and at most one *flight*, a caller
that set out to fill the cell, with the predicate it judges entries by. A
flight publishes over a cell it could not use or leaves without a change.
Entries may be forgotten at any time.

### CacheManager

Threads (`Callers`) of several processes (`Managers`) share one directory. The
table is `entry` and `lockRow`; `handle` is `self._cache`; `hits` and `misses`
are `_cache_stats`. Each thread has a program counter, the arguments of its
call, the entry it has in hand and the way the call ended.

One step is the code between two accesses to what others can change. So the
check of `self._cache` and its use are two steps in every operation, and
`get_or_set` (base.py:158-190) is

| step | code |
|---|---|
| `Check` | `if self._cache is None` (167), `_storage_key` (170) |
| `Probe` | the first `_get_cached_entry`, without the lock (172-175) |
| `Lock`, `Acquire`, `Poll` | `_lock` (410-420) and the spin of `diskcache.Lock.acquire` (177) |
| `Recheck`, `Reread` | the second `_get_cached_entry`: its check of the handle and its read (178-181) |
| `Factory` | `factory()` with a result, without one, or raising (183-186) |
| `Store`, `Write` | `self.set`: its check of the handle and its write (188-190) |
| `Release` | leaving `with lock` (177), on every path |
| `Bypass` | a manager closed before the call only runs the factory (167-168) |

`Crash` ends the threads of a process and leaves the table. `Open` is a new
manager on the directory, put in place of one nobody is calling. Eviction is
part of the transactions that add rows (`PutEntry`, `PutLock`), as in
diskcache, and may take any rows, locks and the new row included.

Data is abstract: keys with their parameters are atoms; entries are atoms, some
of which `_deserialize_entry` refuses; `is_valid` is the set of entries it
accepts. Everything that may raise does so by choice. Counters are incremented
with `+=` under the GIL; the lost update Python allows there is not modelled,
since no property speaks of exact counts. `diskcache.Cache.clear` deletes in
chunks and is one step here: the rows added between its chunks belong to calls
that could have started after it.

### AsyncCacheManager

One event loop in one process. Between two awaits a task has the handle and the
entries to itself; lock rows change under it, because `lock.acquire` and
`lock.release` are jobs of the default executor: a FIFO `queue` and the jobs on
the threads (`worker`). `ready` says that a job has completed and its task may
resume. The stretches between awaits are `GetOrSetAsync` (201-214), `Locked`
(214-221), `Computed` (221-230) and `Released` (231-232); `Bypassed` is the
closed manager (201-205). The synchronous operations are whole steps, except
that a synchronous `get_or_set` called on the loop keeps it while it waits for
the lock (`Block`, with every other task stopped) and while it computes
(`Inline`).

`CancelFactory` is a cancellation in the `try` block: the `finally` clause
releases. `CancelAwait` is one at an await of `to_thread`: a queued job is
dropped with the task, a running job goes on for nobody. The request and its
delivery are one step. Entries do not expire in this module.

### NestedCalls

A factory may call `get_or_set` itself, as cached functions that call one
another do. A thread then keeps the locks of all its calls under way while it
waits for the next, and `diskcache.Lock` is not reentrant. `frames[c]` is the
stack of calls of thread `c`: each waits for its lock, runs its factory, or is
about to release. `asks` says whose factory may ask for what; it is chosen once
and any relation will do. A call is kept to what the properties of CacheManager
say of it: `Call` is the first lookup (158-175), `Acquire` the lock and the
second lookup (177-181), `Return` the factory and the store (183-189), `Raise`
a factory that raises, by itself or because a nested call did, `Leave` the
release. Managers stay open and lock rows are not evicted here. `Die` ends a
process; the rows of its locks stay.

A *knot* is a set of threads each of which waits for another of the set, or for
a lock of the dead; `Stuck` is to be in one.

### CacheKeys, KeyMeaning, Payloads, StoredEntries

CacheKeys is `_storage_key` with all it calls, on Python values with a kind, an
atom for the content and the items in order of iteration. `Normalize` tags a
value and sorts the items of mappings and sets by their JSON text; the text,
a sequence of tokens, is the key (SHA-256 is taken to tell texts apart, and so
is JSON to tell contents apart). What is refused, and text without an encoding,
makes the whole key fail.

KeyMeaning says when two ways to write a key mean the same, from the caller's
side: types and contents, with lists and tuples, the two kinds of set, and the
bytes-like types each taken for one. `KeyCalls` are calls of `_storage_key` with
what it makes of them, and `OneKeyPerMeaning` compares two of them with that.

Payloads is `_compress_value` and `_decompress_value`: which values are
compressed depends on type, length and what zlib makes of them; a value is its
type and its content. `"packed"` is a dict with a truthy `__compressed__`,
which nothing distinguishes from one the application stored.

StoredEntries puts them under the operations of managers that share a directory
and differ in their threshold. Storage keys are a constant there, `KeyOf`, zero
where `_storage_key` raises, and so is what arguments mean, `Meaning`: CacheKeys
has to be recursive over Python values, and nothing can be proved in a module
that reaches such a definition. `KeysFollowMeaning` is what StoredEntries needs
of the two, and `KeysTellMeaning` checks it of CacheKeys. `SetEntry` is `set`: it counts
what it compresses before the write, in totals over the values it gets to, and
fails where a value cannot be encoded (text without UTF-8) or pickled (a
memoryview that was not compressed), or where the disk does. `Found` is what
`get` restores. The module implements EntryMap, a map whose cells are shared by
arguments that mean the same. The timestamp that `set` adds to a payload is left
out.

### CachedDecorator

Callers of decorated functions on one manager. `Call` binds the arguments and
chooses the mode; `Get`, `Func` and `Leave` are a call through `get_or_set`,
kept to what its lock does when no row is lost (the property `SingleFlight` of
CacheManager); `EmitMissFirst`, `Func`, `Set` and `EmitStore` are a forced
refresh; a bypass is `no_cache` or a getter that finds no manager. What a
function returns is the version of its source it read, so the model can tell
which of two results is older. `emitted`, `ran`, `wrote` and `overtaken` record
the history the properties are about. Callbacks, functions, `to_entry` and the
manager may raise; the events of a call that raised must agree with what it did like
those of one that returned. `to_entry` is total here: a result has an entry unless it is
None. The async wrapper has the same steps as the sync one.


### RuntimeConfig

The registry: `installed` is `_installed_config`. A candidate snapshot is
normalized (`Normalize`: names lose the white space around them, and of the
quiet ones the first occurrence stays) and validated (`Valid`) when it is built,
so `Install` replaces the registry by a valid snapshot or `Refuse` leaves it.
Both happen under the registry's lock, in one step; a reader takes the reference
in one step. All fields are kept but the default level of local packages,
which a set-up may replace by any other. `exact` says whether a level given by
name is in upper case: validation looks the name up in upper case
(`_internal/config/validation.py:42-53`), `Logger.setLevel` as it is written.

### CacheOpening, RetryLogging, Previews, ConfigReaders

The readers of the registry beside the logging set-up. CacheOpening: `Resolve`
is `resolve_cache_dir` with `get_env_cache_dir`, the first read; `Construct` is
the constructor up to its checks, the second read; `Make` makes the directory
with its missing parents, one after the other, and opens diskcache's table in it;
each of these may fail and leave those made before. `during` remembers
the snapshots installed while a call ran, which the code does not.

RetryLogging: `Build` makes the before-sleep callback, whose event type is
resolved then. Threads run operations under tenacity (`Attempt`) and call it at
once; `Schedule` is the callback up to the end of the state sink, `AddContext`
and `ContextRaises` the rest, since the sink and the getter of the context are
the application's. `LogRetryExhausted` is the last report, whose event type is
resolved when it is made. An event is a function from its fields; a message is
its preview. Whatever the application gives may raise: the `str` of the exception
and the sink in `Schedule` (the sink before or after it keeps the numbers), the
getter and the log in `ContextRaises`, the `str` of the error in
`LogRetryExhausted`. A field of the name `event` is taken by `logger.warning` for
its message, which raises. An operation whose callback raised is over, and the sink
keeps what it was given.

Previews has the lengths of `preview_text`: pieces, and the dots of
`textwrap.shorten` after those that fit. A piece is a word or, in a word with
hyphens at which `textwrap` breaks lines, a part of it, which has no space before
it. One case is left out: of a piece wider than the whole preview that has a hyphen
at which lines are not broken, as between digits, `textwrap` may keep the part up to
its last such hyphen, and the model keeps nothing of it.

ConfigReaders composes the two with the installation of configurations: each
thread opens a cache or retries an operation.

### LoggingSetup

Threads set up the logging state of the process: the stream handlers of the
root logger, the null handlers of packages, the levels and the configuration of
structlog. It EXTENDS RuntimeConfig. Nothing locks this state as a whole, so a
step is one look at it or one change to it:

| steps | code in `service.py` |
|---|---|
| `Look`, `Route` | `configure_structlog_for_library`: the check of the logger factory, then `structlog.configure` (87-98) |
| `Package`, `NullCheck`, `NullAdd` | `add_library_null_handler`: the name, the look at the handlers, `addHandler` (79-84) |
| `Settings` | `build_logging_settings` with its one `get_config` (34-58) |
| `RootCheck`, `RootAdd` | `if not root.handlers`, `addHandler` (112-123) |
| `RootLevel` | `root.setLevel`, which raises for a level name in lower case (125) |
| `ConfigureStructlog` | the unconditional `structlog.configure` and `module_levels` (127-134) |
| `SetLevel`, `LevelsDone` | the loop of `set_module_log_levels` (322-328) |

`get_logger` is `Look` to `NullAdd`, `configure_package_logging` is `Settings`,
`NullCheck`, `NullAdd` and the rest, `configure_logging` is the same from `NullCheck`
on with settings the caller made of any valid snapshot (`ConfigureLogging`), and the
other functions are parts of these; `set_module_log_levels` takes one of the maps of
`LevelMaps`, of any length.
The application adds its own root handler and its own structlog configuration
once, or again after it was replaced, at any point: `"application"` stands for
one whose logger factory is not structlog's default. The level of the package comes from the call, the
environment or the settings and is any level. `began` remembers the structlog
configuration when a call began, and `alone` whether another call that sets
levels overlapped it or came after it; the code has neither. Renderers and
processors are left out.

### DurationLogger

Threads share one `OperationDurationLogger`, and nest its uses: `Enter` and
`Start` are the two halves of `__enter__` (the clock, then the slot), `Exit`,
`EmitDuration` and `Reset` are `__exit__`, which looks at the slot, reads it
again and empties it; `Call` and `Return` are the wrappers of a decorated
function, which keep their start to themselves. `EmitDuration` reads the slot
and the clock in one step: time that passes between them only delays the read.
A body that raises ends like one that does not. The report may raise too:
`logger.log` takes the caller's fields beside its own arguments
(`service.py:230-236`), so that a field named `event` or `duration_ms` makes every
report of the object a `TypeError`, and a processor may raise now and then. `log`
holds the ways it may end for this object. Out of `__exit__` the exception leaves the
slot full (line 184 is skipped), out of a wrapper's `finally` it takes the place of
the result; `end` in `report` says how a use was left. Each use remembers when it
began, whether another block overlapped it (`own`) and whether one of another
thread did (`local`).


## Runs

| run | instance | what it shows |
|---|---|---|
| `manager_lossy` | 2 threads, 1 process, 1 key, 3 calls each, all operations, eviction, expiry, undecodable entries, a predicate | `NoOrphanLock`: whatever is cleared, evicted, closed or raised, no lock row outlives the call that added it; `LossesAddOne`: a loss of rows lets at most one more call compute a key beside the holder of its lock, and nothing else does |
| `manager_crash` | 3 threads, 2 processes, 1 key, 1 call each, crashes, expiry, closes | `SingleFlight`, `NoWastedCompute`, and `ComputesOnce`: the implementation of ComputeOnce |
| `manager_coalesce` | 3 threads, 2 processes, 2 keys, 1 call each, closes | `Agreement`: all calls that got an entry got the same one; `CallsReturn` |
| `async_tasks` | 2 tasks, 2 pool threads, 2 calls each, all operations but the synchronous `get_or_set`, no cancellation | `TasksReturn`: every lock is given back and every call ends |
| `async_cancel` | 3 tasks, 2 pool threads, 2 calls each, cancellation, synchronous calls on the loop | `TypeOK`, with at most one job for each task in queue and workers; `Exclusive`: no late job takes a lock from its holder; `ComputesOnce`; `LeaksOnlyAroundLock`: a lock is left behind only by a task cancelled while its lock is taken or given back |
| `async_pool_hang` | 3 tasks, 2 pool threads | *violated*: `TasksReturn` |
| `decorator_calls` | 3 callers, 1 call each, all modes, 3 versions, close, expiry | `TypeOK`; `EventsMatch`: events agree with what the call did, whether it returned or raised; `OpenStoresAreReal`, `OnlyRefreshesGoBack` |
| `logging_setup` | 2 threads, 2 calls each, 1 package, 3 loggers, 2 levels, installs of good and bad snapshots, settings of a caller's own, a map of two levels of which one is unknown, the application's own set-up | `TypeOK`; `HandlersBounded`: no more handlers than threads, also after calls that raised; `LoggersRouted`: a logger handed out is routed and never silent for want of a null handler; `LevelsOfOneSnapshot`: an undisturbed configure call leaves the levels of one snapshot; `KeepsAppRouting`: who may replace the application's structlog configuration |
| `duration_logger` | 2 threads, 3 uses each, 2 deep, clock up to 2, reports that never, sometimes or always raise | `TypeOK`; `OwnUsesReport`: a call, or a block that no other overlaps, reports exactly its duration or ends with what `logger.log` raised, whatever went wrong before; `NeverTooLong`, `RaisesOnlyAcrossThreads`: it takes two threads to report too much or to raise anything else |
| `nested_calls` | 3 threads, 2 processes, 2 keys, any ways of asking, 2 calls each, 2 deep, crashes, expiry | `TypeOK`; `OneCallPerKey`: one computation of a key, of all threads and nested calls; `OrderedNeverStuck`: no deadlock where asking never leads round and nobody died; `StuckForever`: nothing frees a stuck thread; `CallsEnd`: every other call ends |
| `stored_entries` | 2 managers, one of which compresses; 5 arguments, of which two mean the same and two are refused; 10 payloads; 4 stores; and 52 ways to write a key with parameters | `StoresEntries`: the implementation of EntryMap; `SavingsAreReal`: what is counted as compressed has become shorter, whatever fails in between; `KeysTellMeaning`: any two calls of `_storage_key` get one key exactly when they mean the same, and are refused together if they do |
| `config_readers` | 2 threads, 1 install out of 4 candidates, 3 attempts, a message that is cut at a hyphen and an empty one, a known wait and no known last attempt | `TypeOK`; `MadeBelowRoots`: no directory is made but on the way to, or below, the roots and those callers name; `OpensOfItsTime`: root and size were configured during the call; `SinkKeepsNumbers`, `LogsOwnAttempt`: an event and the sink tell of this attempt and of no other, also where the callback raises; `OneTypePerCallback`; `MessagesBounded` |

**Bounds.** `MaxCalls`, `MaxVersion` and the sizes of the sets are the only
bounds. Two threads are enough for a race over a handle or a lock row; the
third in `manager_crash` gives a crash, the thread that inherits its leftovers
and a sibling of either; two processes differ in what a crash takes. In `async_cancel` two
calls each let a task come back while a job of its cancelled call runs on. One key is
enough wherever calls on different keys meet only through the handle; the two
of `manager_coalesce` show that agreement is per key. Two values tell a stale
or an undecodable entry from a good one. A pool of two threads is the smallest
in which a job can wait behind another that polls. Three calls of the decorator
give two that race and one that observes; a second call of the same caller
differs from a call of another only in the events, which a call starts anew.
The duplicates of `logging_setup` need two threads at a check; with two calls
each, a thread that has set up calls again, which must add nothing. A clock of
three values tells a start at zero, an overwritten start and the present apart;
three uses, two deep, give a nested pair and one that comes after it.
`clear` and eviction are absent from the runs of `SingleFlight`, because the
code does not keep it under them (see below); `LossesAddOne` says what it does keep.
A loss takes a holder, a call that loses its row and one that follows: with three
calls each, a thread comes back for the key while the late release of the other is
still to come. Two keys are the least that can
ask for each other, and one the least that asks for itself; with three threads
a circle of two has one outside that waits for it, and two processes let a
holder die with its waiters alive. Two calls each, nested ones included, are
the least for a nested call; the proofs do without these bounds. The four
stores of `stored_entries` let each manager overwrite the other and fail after it,
and its arguments are the least that tell a shared row from another and from
none; the proofs do without these bounds. The keys and
parameters of `KeysTellMeaning`, of every scalar type, collections and nested ones
in several orders, and what is refused, are those that a wrong normalization would
confuse or tell apart; pairs are all there is to compare, and no state has a part
in it, so TLC compares them once, in the initial state. In `config_readers` one install falls between any two reads; the third
attempt is the one that exhausts the operation, after two that are logged. Threads,
tasks and pool threads are alike wherever a run has symmetry; none of the runs with
symmetry has a liveness property.

**Fairness.** `FairSpec` of CacheManager is weak fairness of each thread's
steps: threads are scheduled, factories and SQLite return. The wait for a lock
is a poll, which is always enabled, so weak fairness of `Step(c)` lets a thread
poll for ever; that it does not starve in `manager_coalesce` is because the
other threads make finitely many calls, after which the row stays free. Under
unbounded contention the code promises no more: `diskcache.Lock` is not fair.
`FairSpec` of AsyncCacheManager is weak fairness of resuming each ready task and
of each pool thread. `FairSpec` of NestedCalls is weak fairness of each
thread's steps inside a call: no thread is made to ask again, so a lock that
others want becomes free in the end and stays so. Nothing makes a thread call, a process crash, an entry
expire or a task be cancelled.

Deadlock is checked in every run but `config_readers`, whose threads simply
stop after their one call; elsewhere `Finished` is the only end. That of
NestedCalls asks that every thread be done, dead or `Stuck`, so that TLC would
report a standstill that a knot does not explain.


## What the runs found

* **The pool deadlocks** (`async_pool_hang`). Waiting acquires occupy the
  threads the holder's release needs: with one waiter per pool thread no call
  returns, though a test of the repository asserts that concurrent calls of one
  key coalesce and return.

More behaviours are visible in the models without a run of their own.

* `clear` breaks the lock. The locks are rows of the table that `clear` empties,
  so a second thread enters the locked block of a key whose computation is
  running; the release of the first then deletes the row of the second. With
  `"clear"` among the `Ops` of `manager_crash`, `SingleFlight` fails; the theorem
  `OneFlightPerKey` needs the assumption that excludes it. `LossesAddOne` bounds the
  damage: one more call for each loss.
* A crash blocks a key for ever: lock rows are persistent and have no expiry.
  `StuckForever` says so of every thread that waits for the dead, and `CallsEnd`
  of `nested_calls` excepts it; `CallsReturn` fails under `MayCrash`.
* A cancelled wait leaks the lock: the acquire runs on after its task is gone and
  nobody releases what it takes. `LeaksOnlyAroundLock` says that this, and a
  cancellation while the lock is given back, are the only ways; with `MayCancel`
  in `async_tasks`, `TasksReturn` fails.
* A factory that asks for its own key waits for itself for ever, and two that ask
  for each other's wait for each other; `OrderedNeverStuck` states the rule an
  application has to keep.
* A dict that looks like a compressed value comes back as what it would contain,
  even from a manager without compression; bytearrays and memoryviews come back as
  bytes once compressed. EntryMap allows exactly this (`ComesBackAs`).
* A bad namespace is refused only where the environment names a root.

A synchronous `get_or_set` on the loop's thread waits for ever for a lock held by
a task of that loop: with `"get_or_set"` among the `Ops` of `async_tasks`,
`TasksReturn` fails, which is why that run leaves it out. And an older result may replace a refreshed one, since a
refresh stores without the lock: `OnlyRefreshesGoBack` says exactly when. On a
closed manager the decorator calls `on_store` though `set` returned without a
store: `OpenStoresAreReal` holds only for the open one. Validation accepts a
level name in lower case, and `configure_logging` then raises at `root.setLevel`
with its handlers added and no level set (`RootLevel`). Two threads that
configure logging at once may leave two stream handlers, and every line is then
logged twice: `HandlersBounded` is the best that holds. A duration logger used
as a context manager inside itself reports the inner block, shortens or loses
the outer one, and across threads may raise a `TypeError` from `__exit__`. Fields
named `event` or `duration_ms` make it raise one in any use, in place of the result
of the body.


## Proofs

TLAPS checks these theorems, for any number of threads, tasks, processes, keys,
values, depths and calls, and, where data is modelled, for any texts, words,
paths and snapshots.

| theorem | statement | under |
|---|---|---|
| **CacheManagerProofs** | | |
| `TypesHold` | `Spec => []TypeOK` | |
| `LocksAreDropped` | `Spec => []NoOrphanLock` | `~MayCrash` |
| `OneFlightPerKey` | `Spec => []SingleFlight` | `NoLockLoss` |
| `ComputesOnlyWhatIsMissing` | `Spec => []NoWastedCompute` | `NoLockLoss`, `NoBlindStore` |
| `CallsDoNotPileUp` | `Spec => LossesAddOne` | |
| `CallersAgree` | `Spec => []Agreement` | `EntriesStay` |
| `CacheManagerComputesOnce` | `Spec => ComputesOnce` | `NoLockLoss`, `NoBlindStore` |
| `TableTypesHold` | `TableSpec => []TableTypes` | |
| `SavingsHold` | `TableSpec => []SavingsAreReal` | |
| `TableIsMap` | `TableSpec => StoresEntries` | `KeysFollowMeaning` |
| **AsyncCacheManagerProofs** | | |
| `AsyncTypes` | `Spec => []TypeOK` | |
| `RowsAreGivenBack` | `Spec => LeaksOnlyAroundLock` | |
| `TasksExclude` | `Spec => []Exclusive` | `"clear" \notin Ops` |
| `TasksComputeOnce` | `Spec => ComputesOnce` | `"clear" \notin Ops`, `"set" \notin Ops` |
| **NestedCallsProofs** | | |
| `NestedTypes` | `Spec => []TypeOK` | |
| `NestedExclusion` | `Spec => []OneCallPerKey` | |
| `NestedOrder` | `Spec => []OrderedNeverStuck` | |
| `NestedStuck` | `Spec => StuckForever` | |
| **CachedDecoratorProofs** | | |
| `DecoratorTypes` | `Spec => []TypeOK` | |
| `EventsAgree` | `Spec => []EventsMatch` | |
| `ReportedStoresAreReal` | `Spec => []OpenStoresAreReal` | |
| `OnlyRefreshesRace` | `Spec => OnlyRefreshesGoBack` | |
| **DurationLoggerProofs** | | |
| `DurationTypes` | `Spec => []TypeOK` | |
| `OwnUsesAreExact` | `Spec => []OwnUsesReport` | |
| `NestingOnlyShortens` | `Spec => []NeverTooLong` | |
| `RaisesTakeTwoThreads` | `Spec => []RaisesOnlyAcrossThreads` | |
| **LoggingSetupProofs** | | |
| `LoggingTypes` | `Spec => []TypeOK` | |
| `HandlersStayBounded` | `Spec => []HandlersBounded` | |
| `LoggersStayRouted` | `Spec => []LoggersRouted` | |
| `AppRoutingIsKept` | `Spec => KeepsAppRouting` | |
| `LevelsBelongTogether` | `Spec => []LevelsOfOneSnapshot` | |
| **RuntimeConfigProofs** | | |
| `NormalizedIsReady` | a valid snapshot, normalized, is valid, its names are stripped and not blank, and no quiet package is listed twice | |
| **ConfigReadersProofs** | | |
| `ReadersTypes` | `Spec => []TypeOK` | |
| `CachesStayBelowRoots` | `Spec => []MadeBelowRoots` | |
| `CachesAreOfTheirTime` | `Spec => []OpensOfItsTime` | |
| `EventsAreOwn` | `Spec => []LogsOwnAttempt` | |
| `SnapshotsStay` | `Spec => []SinkKeepsNumbers` | |
| `CallbacksKeepTheirType` | `Spec => []OneTypePerCallback` | |
| `MessagesFit` | `Spec => []MessagesBounded` | |

*The conditions.* `NoLockLoss` is `~MayEvict /\ "clear" \notin Ops`,
`NoBlindStore` is `"set" \notin Ops`. They are needed: `clear` removes the row of
a computation, and a `set` by a thread that holds no lock stores under one.
`EntriesStay` adds to both that entries do not expire, nobody calls `delete` and
every caller accepts every entry; without any of these a later caller rightly
gets another entry. Crashes, closes and entries that do not decode are allowed
wherever `~MayCrash` is not assumed, and that is needed for
`LocksAreDropped`, because a dead process leaves its rows. AsyncCacheManager has
no eviction, so only `clear` loses a lock row there.
`KeysFollowMeaning`: arguments that `_storage_key` accepts share their key with
those that mean the same and with no others. It is a hypothesis and not an
assumption of the module, because it is no fact about constants but what
`_storage_key` must achieve: `KeysTellMeaning` in the run `stored_entries`
checks it of CacheKeys on 52 arguments, and TLC evaluates it on the smaller instance
of that run, as an assumption of MCStoredEntries.

*The assumptions* are the named ones of the modules, which TLC evaluates on every
run. Most give constants their types. The others: `None`, `Nothing`, `Nobody`,
`NoError` and their like are no values of the sort they stand for the lack of;
the default predicate of `is_valid` accepts every entry; the threads of
CacheManager and LoggingSetup are finitely many; stripping a text twice is stripping it once; the
default configuration is valid and normalized; what fails to be restored
(`Broken`) was not written by zlib but by the application, so it is a dict; pieces of a text have at least one
character, previews a width of at least one (it is the constant `_MAX_PREVIEW_CHARS`), and an
operation is tried at least once.

*The cache manager.* `TypeOK` and `NoOrphanLock` are inductive together.
`SingleFlight` is not: a step into the locked block needs to know that whoever
is there has its row. `LockInv` adds this, and that a thread only reaches the
code of operations in `Ops` (without which `clear` could not be excluded).
`NoWastedCompute` is strengthened to `FreshInv`: it must also speak of a thread
about to write whose manager was closed after its last check, and not of one
that skipped its second lookup because the manager was closed by then, for
which nothing is ensured and nothing is stored; and the value in hand must be
an entry. `LossesAddOne` is argued step by step from `TypeOK`: a step that enters the locked
block adds the row with the call (`Acquire`), one that leaves it drops at most one row
with its call, and only those of `Loses` may take a row more. `Agreement` follows from `AgreementInv`: what a caller was given is what
is stored, because by `FreshInv` a write finds no entry to replace, and nobody has
an outcome before the end of its call. The refinement maps a flight to a call
that holds the lock and has not stored yet; `Lands` states what almost every step
does to the flights, so that only `Acquire`, `Write` and the steps that remove
entries need an argument of their own.

*Stored entries.* `TableTypes` and `SavingsAreReal` are inductive together, and
`SavingsHold` does without any fact about keys. Their weight is in the totals,
which `Total` defines as a recursive function over the places of a payload:
`TotalsExist` and `TotalIsLast` give the list of partial totals, by induction over
sets of numbers (`AllNumbers`), and `TotalsCompare` says that what holds at every
place holds of the totals. A value is packed only if zlib made it shorter, so
at every place the compressed size and one are at most the size (`PackedNumbers`),
and `PackedTotals` follows for any payload, also where an exception ends the loop early;
`OffCountsNothing` is the case of no threshold. For the refinement, `ValueComesBack`
is the round trip of one value through any two managers, by cases on whether it is
compressed, and `PayloadComesBack` that of all of them. `SharedRow` turns
`KeysFollowMeaning` into what cells find. Each operation then maps to one of EntryMap
(`GetReads`, `SetPuts`, `ForgetForgets`, `ClearClears`), but for a `set` that fails
or stores what was there, which maps to no step.

*Tasks.* `JobsInv` ties tasks to the pool: a task that awaits has at most one
job, in the queue or on a thread, about its key and of the kind it expects, and
nothing is queued for nobody. From it every step is of one of seven kinds
(`StepKinds`): it keeps the locks, takes or gives back one for a task, takes or
gives back one for nobody, abandons a task, or clears the table. The rest is
argued by kind. `LockInv` must count the *orphans* too, threads that still give a
lock back for a task that was cancelled: their row is nobody else's, or their
late release would let two tasks in. `FreshInv` and the refinement are as for
threads, with a synchronous `get_or_set` on the loop as a flight of its own.

*The decorator.* `Told` says what a call has reported, run and written at each of
its points, from which a call may also end with an exception; with it `EventsMatch` and `OpenStoresAreReal` are inductive. `OrderInv`
adds that a caller behind the lock of an open manager holds it, and that a result
about to be stored is as new as the entry or was overtaken since its function
ran, by a refresh if the caller is behind the lock. So a store over a newer
result is one of two that race, of which one is a refresh.

*Durations.* `ClockInv` orders the beginnings of nested uses. `OwnInv`: the slot of
a block that nothing has overlapped holds its own start (`Sole`), which it has put
there over whatever a report that raised had left; `LocalInv`: that
of a block that only its own thread has overlapped is empty or holds a start no
earlier, and is not emptied between the two reads of `__exit__` (`Alone`). What is
reported follows when the block is left (`ReportInv`).

*Logging set-up.* `HandlersBounded` is not inductive: a thread past the check may still add.
`HandlersInv` counts it: the handlers there are and the threads about to add
one are together no more than the threads, because a check that sends a thread
to add one found none. `LoggersRouted` is strengthened to `Routed`, which says
the same of a call that is past the step in question; `Progress` states that no
step brings back structlog's default or removes a null handler. `RoutingInv` says
which steps a call of each operation can be at (`StepsOf`), and that a call about
to route found structlog's default, which was there when it began (`SinceBegan`).
For `LevelsOfOneSnapshot`, `LevelsInv` says that an undisturbed configure call is
the only one that sets levels (`OnlyOne`), and that in its loop each level its
snapshot asks for is set or still to set (`OnItsWay`).

*Snapshots and previews.* `Distinct` and `WordsLength` are recursive functions over
the places of a sequence. That such a function exists and what it returns is
proved by induction, in the form of a fact about sets of numbers (`Induction`,
from the least element of a set): a set that has 0 and the successor of each of
its members has every number. `Keeps` describes what `Distinct` has kept of a
prefix; `Lengths` the lengths of the first words, which grow, so that the pieces a
preview keeps are those that fit.

*Caches and retries.* `OpeningInv`: while a call runs, the installed snapshot is
among those of its time, and the root and the size it has read are from them; a
namespace that is not refused keeps `Join` below the root, and so the directories on
the way to it. `RetryInv`: the event in
the making and the sink are functions of the attempt that failed last, and no
thread touches another's. `MessagesInv` ties a logged message to the preview of an
exception unless the context brought it.

*Nested calls.* `NestedInv` ties the stacks to the locks: under a call there are only factories
that asked for it (`Stacked`), a call that does not wait has the lock of its key
and no other call of its thread has (`FramesOwn`), and a lock that is taken
was taken by a call under way, be it of a dead thread (`OwnersCall`). It is
inductive and implies `OneCallPerKey`. For `OrderedNeverStuck`, take the keys of
all calls of a knot: each asks for another of them, because a call that is not
innermost asked for the one above it, and the key an innermost call waits for
belongs to a call lower in the stack of a thread of the knot (`KnotAsks`); so
asking leads round. For `StuckForever`, no step moves a thread of a knot or frees
the lock it waits for, since only its owner does, which is of the knot or dead
(`OthersStep`, `KnotHolds`); what is left of the knot when some of it die is one
still (`StuckStep`).

*What the proofs changed.* `MessagesBounded` was not inductive, and false for a
context that brings an `error_message` of its own: the model forgot the context
when an operation ended, while the last event stayed. `context` now is that of the
last event logged, and `config_readers` has such a context. `MaxChars` and
`MaxAttempts` may not be zero, which the code never lets them be. The round trip of
`ValueComesBack` is false for a compressed value whose content is `Broken`, which the
runs never had: StoredEntries now assumes that what zlib wrote it can restore. And
the counters of StoredEntries added up sets of places by a fold, of which nothing
could be proved; they are totals over the payload now, as in the loop of the code.

*Only model-checked.* Liveness (`CallsReturn`, `TasksReturn`, `CallsEnd`) is out
of reach of the prover. CacheKeys and KeyMeaning are recursive over Python values,
so that storage keys tell meanings apart for all values (`KeysTellMeaning`) cannot
be proved. All other properties of the runs are theorems. The type invariants of
CacheManager and StoredEntries are theorems that no run checks, since the proofs cover
every instance of a run.


## Plan

All of it is done: the synchronous manager, its abstract specification, the
asynchronous manager, the decorator, the registry with the logging set-up, the
duration logger, nested calls, keys and payloads, and the other readers of the
registry; and the proofs of all their safety properties but that of keys. What
is left would need induction over data, or proofs of liveness.


## Not modelled

* The public facade, which only delegates, and the wording of log events.
* `preview_value` and `preview_mapping`: they format arguments with `reprlib`.
* `numbers.py` and the decorator's option classes: checks of single arguments.
* The timestamp that `set` adds to a payload that has none. It is written into
  the dict `_serialize_entry` returned, which may be the entry's own: that is up
  to the application's subclass.
* The default level of local packages in a snapshot and the names and defaults of
  environment variables in LoggingSettings: the level of a package is any level.
* SQLite and diskcache but for what `base.py` uses: a row is read or written in
  one transaction.
