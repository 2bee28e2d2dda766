# cbigcache in TLA+

A verification project for cbigcache, an in-memory cache written in C++ with a
Go wrapper. The cache is split into shards; each shard stores byte strings in
pages, in blocks that it cuts from a list of free blocks. Threads of the
application call `set`, `get` and `evict`; a supervisor thread starts, once per
lifetime, child threads that evict what has expired.

The modules are written from the code. Comments of headers, test assertions and
the meaning of the error codes are only used to say what the code is expected to
do, in the properties. Paths below are those of the repository.

## 1. The system

| Component | State | Operations | Interacts with |
|---|---|---|---|
| Shard, storage (`src/shard.cpp`, `shard_entry.h`, `shard_page.h`) | used index (key hash to list of blocks), free index (FIFO list of blocks), expiration index (time to keys), `sz_used`, `sz_free`, `sz_alloc`, pages | `__set`, `__get`, `__evict`, `reg_expire`, `page_reserve`, `set_byte`, `get_byte` | called with the shard's mutex held |
| Shard, locking and expiration (`src/shard.cpp`) | `mux` | `set`, `fset`, `get`, `evict`, `bulk_expire` | threads of the application; one child of the expiration supervisor |
| BigCache (`src/bigcache.cpp`) | shards, stop flags, supervisor threads | constructor, destructor, `freeze`, `set`, `get`, `evict`, `expire_ctl`, `vacuum_ctl` and their children | starts and joins threads; routes a key to its shard by its hash |
| Configuration (constructor of BigCache, `config.go`) | none after construction | defaults and limits of every parameter | JSON parser |
| JSON parser (`src/json.cpp`) | maps by type, nested objects | `unmarshal`, `marshal`, `get_*` | configuration |
| `ts_counter` | one counter with a mutex | `inc`, `dec` | children of the supervisors |
| C export, Go wrapper (`export.cpp`, `cbigcache.go`) | `alive`, `maxBufSize` | `NewCBigCache`, `Set`, `Get`, `Free` | BigCache; goroutines of the application; writes the configuration as JSON |
| Hash, debug output, helpers | none, or a verbosity level | pure functions, logging | everything |

What is hard in it:

* **Recycled space.** Blocks are cut, chained and given back in FIFO order and
  never merged; a set can throw half-way and leave a partial entry; the counters
  are not derived from the lists and can drift from them; pages are reserved by
  the counters although addresses come from the free index.
* **Two times for one entry.** `reg_expire` registers an entry under its time
  rounded up to a second, `__evict` clears it under the exact time. Stale
  registrations, empty buckets and (through `operator[]`) null nodes follow.
* **The walk of `bulk_expire`.** It reads the expiration index without the
  mutex, uses a reverse iterator across `lock()` and across erasures, leaves the
  loop body by `continue` with the mutex held and unlocks once more at the end.
* **Shutdown.** Plain boolean flags, looked at once per cycle; a chain of joins is
  all that keeps the destructor from deleting shards that are being swept.
* **64-bit unsigned differences** of counters and of clock readings.
* **Conversions.** A parameter goes from a Go integer or duration to decimal
  digits, through `strtol` to a signed 64-bit number, and from there to an
  unsigned number of 32 or 64 bits; only then its limits are checked.
* **A parser written by hand** that calls itself and then works out by arithmetic
  on positions where its caller goes on.
* **Unsynchronised fields of the Go wrapper.** `alive` and `maxBufSize` are tested
  and set by goroutines in parallel; `Free` waits for nobody; a slice goes to C
  without its length.

What makes each component correct: for the storage, that the blocks partition
the shard at all times, that no entry exposes bytes of another, that sets end
and the prepared pages suffice; for the expiration index, that it forgets no
entry; for the locking, that the walk's iterator stays valid, that the mutex
excludes and comes free again; for BigCache, that nothing is deleted in use,
that cycles cover every shard once, go on, and end after `freeze`; for the
configuration, that every parameter ends up valid, every key has a shard and the
shard its pages; for the parser, that it reads back what was written; for the Go
wrapper, that the buffer of a `Get` is large enough, and that a cache is not used
once it is deleted.

## 2. The modules

| Module | Models | Used by |
|---|---|---|
| `CacheSpec` | abstract: what a shard promises its callers, a map whose entries have a size and a time | `ShardStore` |
| `ShardStore` | storage of one shard: `__set` in steps, `__get`, `__evict`, the two storage operations of `bulk_expire`, a clock | `Shard`, `MCShardStore`, `ShardStoreProofs` |
| `Shard` | the mutex, client threads, the walk of `bulk_expire`; composes the actions of `ShardStore` | `MCShard`, `ShardProofs` |
| `ExpireCycle` | abstract: cycles that sweep each shard once, and the deletion of shards behind the last | `BigCache` |
| `BigCache` | supervisors, children, `freeze`, destructor | `MCBigCache`, `BigCacheProofs`, `BigCycleProofs` |
| `Helpers` | integer conversions, `atoi64`, `is_pow2`, `&` | `Json`, `Config` |
| `Json` | `unmarshal` step by step, `marshal`, `get_*` | `Startup` |
| `Config` | `Config.Marshal`, the constructor's limits, `get_shard`, the sizes of shards and pages | `Startup` |
| `Startup` | `cbc_new`: parse, look up, construct; composes `Json` and `Config` | `MCStartup`, `StartupProofs` |
| `GoWrapper` | `Set`, `Get`, `Free` of several goroutines over an abstract cache | `MCGoWrapper`, `GoWrapperProofs` |
| `ShardStoreProofs` | theorems about `ShardStore`: types, pages, registration | `StoreBlockProofs` |
| `StoreBlockProofs` | lemmas about lists of blocks; theorems: the blocks partition the shard | `StoreBytesProofs` |
| `StoreBytesProofs` | theorems: entries are isolated from each other; with aligned sizes the counters are exact, no set ends half-way, and the storage implements `CacheSpec` | `ShardProofs` |
| `ShardProofs` | theorems about `Shard`: types, the iterator, that it implements `ShardStore` and, with aligned sizes, `CacheSpec`; with `set` and `get` only, exact registration, no null node, no second `lock()`, no entry swept before its time | |
| `BigCacheProofs` | theorems about `BigCache`: pauses, stop signals, deletion | |
| `BigCycleProofs` | theorems: the threads of `BigCache` implement `ExpireCycle`, each shard is swept once and by one thread at a time, types and counters of children | |
| `StartupProofs` | theorems about `Startup`: types, parameters in range, pages for every shard, an even routing, a Go configuration obeyed, documents read back, and what `marshal` writes kept | |
| `GoWrapperProofs` | theorems about `GoWrapper`: types, buffers, deletion | |
| `MCShardStore`, `MCShard`, `MCBigCache`, `MCStartup`, `MCGoWrapper` | constants, symmetry and views for TLC | |

A definition named `Bug...` stands before a definition of the specification and
is that definition with a plausible mistake. The specification does not use it;
each is there to be put in place of its neighbour, and then a property named in
`PROJECT.json` ("mutants") fails.

### ShardStore and the code

* `idx_used[k]` is `Absent` (no node in the map), `Null` (a node with
  `nullptr`, left by `operator[]`) or an entry with `total_len`, `expire`, its
  list of blocks `chain`, and `open`: the last node of the list has been
  allocated by `new` and not been filled in.
* `idx_free` is the list of free blocks. The code takes blocks at the front
  (`Head`) and puts rests and evicted blocks at the end.
* `idx_expire` is a function from times to sets of keys, with the element 0 that
  `std::map{{}}` starts with.
* `op` is the `__set` in progress. Its steps are the checks (`SetRefused`,
  `SetAccepted`, with the eviction of a forced set), space and root
  (`SetNoSpace`, `SetNewPage`, `SetInPlace`), one step per block (`CopyBlock`, or
  `SetOutOfBlocks`, the exception) and the counters (`SetBalance`). Splitting
  matters in `Shard`, where the walk of `bulk_expire` meets a set half-way.
* `Get`, `Evict` are one step each: under the mutex nothing else sees their
  intermediate states. `ExpireKey` and `EraseBucket` are the two things
  `bulk_expire` does to the store, allowed here at any time; `Shard` decides when.
* `fault` records undefined behaviour or the death of the process; no action of
  the store follows it. `no_page`: a page beyond those prepared. `null_root`: a
  null root is dereferenced. `garbage_node`: a walk over a list follows the
  unfilled node; the alternative outcome is that the node holds zeroes, which
  reads as one more block of no bytes (`BlankBlock`).
* `front()` of the empty free list reads the list's own size field, zero, as the
  pointer (libstdc++), so the code's `nullptr` test sees it and throws.
* Bytes are pairs of payload and position; a page that is not initialised holds
  `Junk`. The code's `total_len`, `len` and page numbers are 32 bits wide in
  places (`uint`, `int`); entries and shards of 4 GiB and more are left out.
  `PayloadLen` is `byte_len`, the distance to the first zero byte.
* `given` is a history variable, the payload of the latest entry of a key.

### CacheSpec and ShardStore

`CacheSpec` has no blocks, pages, counters or indices: `entry` maps a key to nothing,
to a payload with its expiration time, or to `Blocked`. Each call is one step, and
`reply` is its answer. `Store` happens exactly if the payload has a byte, its key no
entry, and the bytes of all entries with it stay within `Size`; so there is no answer
for a set that fails in its middle. `ShardStore` maps to it as follows:

* A set is answered when it makes its root (`SetNewPage`, `SetInPlace`): what follows,
  the blocks and the counters, is its own business as long as the mutex is held.
  `entry` is read off `idx_used`, the payload off `given`.
* A null node is a `Blocked` key: `set` finds it existing, `get` may die of it.
* `Hit` copies out as many bytes as were stored, each one of that payload or one never
  written. Their order is not promised, nor that none is missing among them: the copying loop
  repeats the first bytes for each block (`ReadBackTorn`), and `set_byte` drops
  bytes in pages that are not reserved.
* `Expire` may take an entry away at any time. When `bulk_expire` does so is the
  subject of `TakesOnlyExpired` of `Shard`.

The mapping holds if the shard is a whole number of pages and no payload exceeds a
page (`Aligned`); `SetHalfDone` shows what is left of it otherwise.

### Shard and the code

`Lock` and `Unlock` are the calls on `mux`; waiting for it and taking it are one
step. Client threads run the actions of `ShardStore` between them. The sweep
keeps `since` (its `now`), `base` (a reverse iterator is stored as the element
above the one it denotes), `todo` (keys of the bucket still to evict) and `held`.
`Stepped` is `++it` after the erasure of the element. Unlocking a mutex that
another thread holds, or nobody, is undefined; the model takes what glibc's
default mutex does: it becomes free. When two threads are between `lock()` and
`unlock()`, or the walk reads the index while a client may write it, the
behaviour ends (`Racing`): anything may happen in a data race.

### BigCache and the code

Both supervisors run the same code on different data and are one set of actions,
parameterised by `"expire"` and `"vacuum"`. The children of the vacuum only
count themselves in and out, since their calls of `bulk_vacuum` are commented
out. `Instants` are readings of the system clock, taken at the beginning and the
end of a cycle in any order, so the clock may be set back. `SweepHangs` is a
`bulk_expire` that locks its mutex twice (see `NoSelfDeadlock`). The stop flags
are plain booleans and their concurrent use is formally a data race; because the
loop calls opaque functions each turn, the flag is really read each time, and
the model reads its current value. Supervisors sleep for any length of time;
`Pause` is the length the code asks for.

### ExpireCycle and BigCache

`ExpireCycle` is what the expiration promises with no thread in it: `Begin` puts
all shards into `pending`, `SweepShard` takes one out, `End` needs all of them
out, and `Delete` takes shards away only when the phase is `"over"`. `BigCache`
maps to it as follows: `count` is `shards_cnt` and `live` is `shards`; `pending`
is what the supervisor has started no child for (`NotSpawned`) and what its
children have still to do; `phase` follows from where the supervisor is (at the
top of its loop or asleep, spawning or joining, gone). The two histories `swept`
and `pending` are kept apart on purpose: one is counted by the children as they
go, the other is read off the control state.

### Json, Config, Startup and the code

* The text is a sequence of tokens: a string, a number, a truth value or `null`
  (with type and value), or one of the signs `{ } : ,` and space. The code goes by
  characters. The one place where that matters, `i += j->captured_len` behind a
  nested object (`src/json.cpp:66`), jumps over whole tokens as long as a nested
  object contains none itself; the one character it skips too many is a sign.
* `frames` are the calls of `unmarshal` in progress. A frame has the loop variable
  `i`, `captured_len`, the side `l` and what has been collected on each side
  (`left`, `right`); `data` stands for the five maps `data_s`, `data_i`, `data_f`,
  `data_b`, `data_o`, keyed by type and name. Each turn of the loop is a step;
  `CallNested` and `Return` are the recursion. `null` is not filed, as in the code.
* A `source` is a document or the text that `Config.Marshal` writes for a Go
  configuration. `GoText` gives that text position by position: the k-th of its
  members takes four tokens, behind the opening brace.
* `ReadsBack` is about documents that are `Proper`: no name twice on one level, no empty
  object, no object in an object. (`{}` and objects in objects are parsed to something
  else, see the observations.) Every source of the run is proper.
* A string is kept as the tokens it was collected from; the empty one is the word
  without characters. `Reparse` marshals data that are `Written`: each string is one
  word (one that was collected by mistake from a sign or several tokens has a quote in
  it, which `marshal` does not escape), no object is empty, and none is in an object
  that is a member itself.
* `Streamed` is what `operator<<` makes of floats that it does not write as they are
  (`Stream`): a rounded float, an integer, or a string, see the observations. Any such
  function will do for the proofs (`StreamedAssumption`).
* `stage` says what the text is parsed for: the constructor, or a second time
  after `marshal` (the round trip of `tests/test_json.cpp`).
* `Helpers` has 2^32 and 2^64 as constants and the conversions as what they do:
  remainders for unsigned types, cutting off at the limits for `strtol`.
* `Config` follows the code's order: `Marshalled` is `Config.Marshal`,
  `Constructed` converts and then checks, `Initial` are the members' initial values
  for a cache made without a configuration.
* `Avail` is half of the memory that `sysinfo` reports as free; any number below
  2^63.

### GoWrapper and the code

`calls` holds where each goroutine is: a call goes on in steps where another
goroutine can come between (test of `alive`, reading `maxBufSize`, the call into C,
the test of the maximum, the write). The C++ cache is one map whose entries have a
length (`byte_len` of what was stored), the slice they came from and whether they
are complete; `set` and `get` are one step each, since the shard's mutex makes them
so, and `set` may end in every way `ShardStore` has for it (`SetEmpty`,
`SetExists`, `SetNoSpace`, `SetInternal`, `SetStored`); one that fails half-way leaves
an entry of any shorter length, down to none. The null node of `ShardMiss`, on which a
later call for the key dies, is not in this map. A slice goes to C without
its length: `ByteLens` is what `byte_len` may find for it, the place of its first
zero byte or, if it has none, of one in the memory behind it. `object` is the
`BigCache`: `FreeDelete` begins the destructor, `FreeReturn` ends it, and in
between the cache still answers. `racing` is a history variable: which kinds of
calls have overlapped. `fault` is the first undefined behaviour that is reached: a
call on a deleted cache, or a terminator behind the buffer. Reads and writes of
`alive` and `maxBufSize` take effect at once and in one order; they are data races
in Go, and on the usual hardware aligned words behave this way. `NewCBigCache` is
`GoInit` (the fields) and `Startup` (the configuration).

## 3. The runs

Passing runs. `Word` is 2^64 scaled to 16 (8 in `BigCache`): larger than every
sum of sizes, so that differences wrap and sums do not, as with real sizes.

| Run | Properties | Bounds, and why they are enough |
|---|---|---|
| `StoreBlocks` | `TypeOK`, `NoOverlap`, `NoLeak`, `PagesSuffice`, `Isolation` | Two keys, payloads of 0, 2 and 3 bytes, a shard of 5 bytes, pages of 2 (50 %), three pages with one byte over the end: entries of one, two or three blocks, rests, failed sets and reused partial entries all occur. A payload of no byte is refused. The clock has two instants, so entries also expire. The free index is bounded by `MaxFreeBlocks` = 3, since each evicted partial entry adds an empty block to it. |
| `ShardPlain` | `ShardTypeOK`, `ExactRegistration`, `MissIsReported`, `NoSelfDeadlock`, `TakesOnlyExpired`, `LockComesFree`, `SetReturns` | Two clients that set and get, two keys, a payload of three bytes in a shard of three with pages of one byte: sets span blocks, use up rests, and run out of blocks, after which `sz_alloc - sz_used` wraps round. Time for an entry to be set, become due and be swept. The free index is bounded by `MaxFreeBlocks` = 3; the copying loop never lengthens it, so the bound cuts off no set that has begun. |
| `ShardFull` | `IteratorValid`, `Accounting`, `CopyFits`, `Registered`, `StoreSpec`, `ImplementsCache` | One client with all four calls, two keys, payloads of 1 and 2 bytes in a shard of two, which is one page, and buffers of one byte: the shard fills up by one entry or by two, blocks are cut and reused, a key finds no space, an entry is too long for the buffer. A clock from 2 to 6, buckets of two ticks, lifetime two: exact times that are buckets and exact times that are not, stale registrations and empty buckets before and during a sweep. `Accounting`, `CopyFits` and `ImplementsCache` hold only if the shard is a whole number of pages and no payload exceeds a page; `SetHalfDone` shows what happens otherwise. `StoreSpec` is the storage specification: every step of every thread is a step of it or leaves it alone, so what holds of `ShardStore` holds of each shard. `ImplementsCache` (the abstract specification `CacheSpec`) is what the client sees of all this; it contains `NoSpaceReported`, having no answer `ERR_INTERNAL`. |
| `BigCache` | `BigTypeOK`, `NothingDeletedInUse`, `OneSweeper`, `PauseWithinPeriod`, `OneCycleAfterStop`, `EverySweptOnce`, `ImplementsCycle`, `DestructorReturns`, `ExpirationGoesOn` | Two shards one by one, or four in groups of two (in the code sixteen and more in groups of four); a clock that reads 0 or 2 with a period of 1: cycles that take no time, too long, or (set back) a huge time. `ImplementsCycle` is the abstract specification `ExpireCycle`. |
| `Startup` | `StartupTypeOK`, `ParamsInRange`, `ValidIsObeyed`, `GoPeriodsPositive`, `Routing`, `SpaceIsHeld`, `ReadsBack`, `MarshalKeeps` | 2^32 and 2^64 are 16 and 64, shard counts go from 2 to 8, a page is 25 % of its shard. Go configurations over values that are zero, too small, valid, too large, negative, and beyond 2^32 or 2^63 (16, 18, 50, 63): each conversion wraps or cuts off for some of them. Documents of one to three members of all types, objects of one or two members among them, with and without spaces: objects first, between and last, next to each other, with a `null` in them, and parameters of the wrong type; floats that `marshal` writes as they are, rounded, as an integer and as a string. |
| `GoWrapper` | `GoTypeOK`, `BufferIsEnough`, `SpillNeedsRace`, `FreeIsSafeAlone` | Two goroutines are what a lost update needs, and two keys what it takes for the entry to outlive it. Slices of no, two and three bytes with a zero byte right behind them, one with a zero byte in it, and one whose next zero byte is up to two bytes further away. |

Views and symmetry: keys, clients and goroutines are interchangeable, and no step
of the code reads `reply`, `given`, the stored bytes, or the `result` of the
wrapper's last calls, so states that differ only there have the same future. A
view leaves them out only in runs whose properties do not speak of them. Runs with
liveness use neither. The view of `ShardFull` leaves out the bytes and `given`, which
`ImplementsCache` does speak of: there states that agree in the view differ only in the
bytes of entries of the same lengths, and which payload a length belongs to is
determined, no two payloads being equally long; that the bytes are
those of the entry is `Isolation` (`StoreBlocks`). Deadlock is not checked: a fault, a race, the bound of the
clock (`MaxNow`) or the end of a start-up ends a behaviour, and a deleted cache has
nothing more to do.

Violation runs, each a disagreement of the code with a sentence of the repository:

| Run | Property | What happens |
|---|---|---|
| `ReadBackTorn` | `ReadBack` | The copying loop restarts at the first byte of the payload for each block; an entry of several blocks is read back wrong. |
| `SetHalfDone` | `NoSpaceReported` | A set without room passes the space check and dies in the copying loop: `ERR_INTERNAL`, a partial entry stays. |
| `ShardMiss` | `MissIsReported` | After `evict` the stale registration makes `bulk_expire` insert a null node, which `__get` follows. |
| `ShardMutex` | `MutualExclusion` | The last `unlock()` of `bulk_expire` releases a mutex held by a client. |
| `StopForbids` | `NoCycleAfterStop` | `freeze` while a supervisor sleeps: the flag, which "forbids the further running" of its operations (`include/bigcache.h:155`, `:179`), is only looked at behind a cycle (`src/bigcache.cpp:182`), so a whole cycle begins after it. `OneCycleAfterStop` (run `BigCache`) is what is left of the claim: there is no second one. |
| `ShardSelfLock` | `NoSelfDeadlock` | `bulk_expire` keeps the mutex over `continue` and locks it again at the next bucket. |

Observations from the same models that have no run of their own:

* `set_byte` drops bytes at addresses in pages that are not reserved yet, and the
  set still returns `ERR_OK`: at most one page is reserved per set, while the
  FIFO free index moves on through the whole shard (`src/shard.cpp:118`, `:367`).
* `sz_used` and `sz_free` are wrong after a set that throws, because the loop
  ends before the update and `__evict` later gives back `total_len` (`:185`, `:324`).
* A null node counts as a key, so `set` answers `ERR_KEY_EXISTS` for a key
  without an entry (`:99`).
* `__get` accepts an entry exactly as long as the buffer and then writes the zero
  byte behind it (`:225`, `:245`); the model records it as `reply.spill`.
* Of two due buckets `bulk_expire` passes one over (`:283` and `++it`); and since
  it tests a bucket before `lock()` and uses the iterator after it, a bucket
  inserted in between is swept in its place, fresh entries and all (`:270`, `:280`).
* An entry is swept a whole lifetime after its expiration time (`:270` adds
  `expire_ns` once more); until then `__get` reports `ERR_KEY_EXPIRED`.
* `set_byte` of a shard whose page size rounds down to zero divides by zero: a
  shard of fewer than ten bytes, with pages of 10 % (`src/shard.cpp:23`). Below 90
  bytes the prepared pages may not hold the shard (`SpaceIsHeld`, `EnoughForPages`).
* The number of shards is cut to 32 bits before it is checked, so 2^32 + 4 shards
  are accepted and are 4 (`src/bigcache.cpp:26`).
* A negative `expire_ns` in hand-written JSON passes the minimum as a huge unsigned
  number, and the supervisor sleeps for it as a signed one, so not at all: it sweeps
  without a pause. The Go wrapper cannot write one (`GoPeriodsPositive`).
* Behind a nested object the parser goes on one character too far
  (`src/json.cpp:66`). In a text without spaces the next comma is skipped, and with
  it the next member: it ends up as a string under the object's name. If that
  member is an object too, it replaces the first. In a text with spaces the comma
  is read, and files an empty string under the object's name.
* In an object with a nested object of its own, `captured_len` does not count what
  the inner call has captured: the outer parser resumes inside the object.
* `{}` is parsed to an empty string under an empty name.
* `marshal` writes a float with `<<` (`src/json.cpp:115`), with six digits and a point
  only if digits follow it: 1.2345678 comes back as 1.23457, 2.0 as the integer 2, and
  1000000.5, written `1e+06`, as a string. `MarshalKeeps` says exactly this of floats,
  and that everything else is kept.
* A string collected from several tokens by these mistakes has quotes in it, which
  `marshal` does not escape.
* Of two Sets in parallel the one with the smaller slice may write `maxBufSize`
  last (`cbigcache.go:77`): every `Get` of the longer entry then fails with
  `ERR_BUF_LEN_LOW` until a longer slice is stored, or, if it is longer by one
  byte, writes its terminator behind the buffer. The same happens to a slice
  without a zero byte right behind it.
* `Free` in parallel with another call, or with itself, lets that call use a deleted
  cache (`cbigcache.go:53`): the flag is tested at the beginning of a call only.
* `Set` of an empty slice panics (`&data[0]`, `cbigcache.go:70`).
* `Config.Marshal` leaves the nanoseconds that it computes in the `Config` of its caller
  (`config.go:47`): if the same `Config` is given another `Expire` or `Vacuum` later
  and used again, the first one counts.
* `cbigcache.go:34` calls `cbc_debug_init`, which nothing in the repository declares.

### Fairness

`FairShardSpec`: weak fairness of each client inside a call, of the steps of a set
that has begun (nothing in `__set` waits) and of a sweep that has begun. No call has
to be made, and no thread is promised a mutex that others keep taking:
`LockComesFree` only says that it comes free, and `SetReturns` that a set which has
begun comes to an end, unless a data race has ended the behaviour.
`FairBigSpec`: each supervisor, the children of each and the destructor are
scheduled as long as they can run; a hung sweep is excepted in the properties.
The other modules state no liveness: a parser that has read everything stops, and
no call of the wrapper waits for another.

## 4. The proofs

The theorems about the storage hold for every set of keys and payloads, every size,
page percentage, lifetime, resolution and clock bound that satisfies
`StoreAssumption` (sizes are natural numbers whose sums stay below 2^64; a page has at least one
byte; the lifetime is at least a second and the epoch at least a lifetime ago).

`ShardStoreProofs`:

* `TypeCorrect`: `StoreSpec => []TypeOK`. `TypeOK` is not inductive: that
  `sz_used` and `sz_free` stay 64-bit numbers when `__evict` subtracts an entry's
  length needs that length to be one, and for a partial entry this follows only
  from the copying loop. The strengthening `TypeInv` adds `Lengths`: entries are
  shorter than the word, and while a set is copying, what is recorded and what
  remains add up to the payload.
* `PagesAlwaysSuffice`: if the prepared pages cover the shard
  (`PageCnt * SzPage >= SzMax`), `page_reserve` is never called without a page
  left. The invariant `PagesInv` ties `sz_alloc` to the number of pages; the
  lemma `FullIsExceeded` shows that with all pages reserved the two tests of
  `__set` exclude each other *whatever* `sz_used` is, wrapped round or not, so
  the drift of the counters does not matter. The condition fails for very small
  shards only: with 10 % pages rounded down, a shard of 19 bytes has eleven
  pages of one byte.
* `AlwaysRegistered`: `StoreSpec => []Registered`. With `TypeInv` the property is
  inductive; the argument is about `__evict`, which removes only the evicted key
  from whatever bucket it hits, and `EraseBucket`, which waits until no key of
  the bucket has an entry.

`StoreBlockProofs` treats a list of blocks as a sequence and states what the code
does to lists (append a list, append a block, drop the front) as lemmas over
`Spread` (no two blocks of a list meet), `Apart` (no block of one list meets one
of another) and `On` (an address lies in a block of a list):

* `BlocksNeverOverlap`: `StoreSpec => []NoOverlap`. `BlocksApart` is the property,
  list by list; with the types it is inductive. The one step that makes new blocks
  is `CopyBlock`: it cuts the front block in two (`CutApart`), and what lies inside
  a block meets nothing that the block did not meet. `__evict` only moves a list,
  with at most one empty block behind it.
* `NothingLeaks`: `StoreSpec => []NoLeak`. Not inductive alone: making a root for a
  key that has an entry would lose the entry's blocks. `Unrooted` says that a set
  which is about to make a root has none to lose, since a forced set has evicted it
  and any other was refused.

`StoreBytesProofs`:

* `EntriesAreIsolated`: `StoreSpec => []Isolation`. It rests on `BlocksApart` (the
  bytes that the copying loop writes belong to no other entry) and on three facts:
  every block lies inside the shard (`Bounded`), a byte in a page that is not
  reserved has never been written (`Unwritten`: the writes that `set_byte` drops
  leave no trace), and the payload being copied is the one the root was made for
  (`GivenIsCopied`).
* `AccountingIsExact`, `CopyAlwaysFits`, `NoSpaceAlwaysReported` (`Accounting`,
  `CopyFits`, `NoSpaceReported`) hold under `Aligned`: the shard is a whole number
  of pages and no payload exceeds one. The hypothesis is needed: `SetHalfDone`
  has a shard that is not, and there a set dies in the loop and the counters drift for
  good. The inductive invariant `SizeInv` counts addresses: an entry owns as many
  as its `total_len` says (`EntriesMeasured`); `sz_used` and what the set in
  progress has copied make up all addresses in use (`UsedIsCounted`), `sz_free` the
  others (`FreeIsRest`); the reserved pages stay within the shard (`AllocIsPages`)
  and have room for what is in use and for the set in hand (`AllocSuffices`: one page is
  enough for it, since the payload is not longer). That a set still has a free
  block then is a matter of counting (`RoomToCopy`): the free blocks and the used
  ones make up the shard, by `NothingLeaks` and `BlocksNeverOverlap`.
* `StoreImplementsCache` (`ImplementsCache`), also under `Aligned`: the storage
  implements `CacheSpec`. The space check of the code is about the counters, that of
  `CacheSpec` about the bytes of all entries; `CallerInv` ties the two: an entry is as long
  as its payload, and its blocks have as many bytes (`EntriesWhole`), or is being
  filled by the set in hand, which is going to make it so (`SetGoesOn`), and the bytes
  of all entries are `sz_used` and the payload of that set, which the code counts at
  its end (`HeldIsCounted`). That `Hit` copies the right bytes is `Isolation`; that they are as
  many as were stored follows from the blocks of an entry being measured.

`ShardProofs`, for any finite number of client threads (`ShardAssumption`):

* `ShardImplementsStore`: `ShardSpec => StoreSpec`, the refinement that the run
  `ShardFull` checks on a small instance. The mapping is the identity on the
  storage's variables, so what has to be shown is that each step meets the guards of
  the storage's action: `bulk_expire` may only evict and erase when no set is
  half-way, and may only erase a bucket whose keys have no entry. That needs an
  invariant of the threads, `ShardInv`: a set in progress has its caller inside the
  mutex (`SetInside`); while the sweep evicts, every key of its bucket is still in
  `todo` or has no entry (`BucketInHand`); and the lemma `Alone`, that without a race
  a client and the sweep are not both inside.
* `IteratorStaysValid`: `ShardSpec => []IteratorValid`. The bucket 0 is never erased
  (`IndexInv`), so there always is a bucket for `Stepped` to move to; that `Cur` and
  `Stepped` are buckets at all rests on `MaxOfBounded`, a bounded set of numbers has
  a maximum.
* `RegistrationIsExact` (`ExactRegistration`), `MissIsAlwaysReported`
  (`MissIsReported`) and `SweepNeverLocksTwice` (`NoSelfDeadlock`) for a shard that
  is used through `set` and `get` only (`OnlySetGet`). The hypothesis is needed: the
  runs `ShardMiss` and `ShardSelfLock` show what `evict` does to two of them. The three
  are proved together with `SetGetInv`, since each needs the others: a registration
  names an entry, in the bucket of its expiration time, until the sweep has evicted
  it (`InStep`), so each eviction of the sweep finds an entry and makes no null
  node (`NoNullNode`), so no bucket is found empty, and the mutex that `continue`
  leaves locked is kept only at the bucket 0, where the walk ends (`KeptAtEnd`).
* `SweepTakesOnlyExpired` (`TakesOnlyExpired`), under `OnlySetGet` too: what
  `bulk_expire` takes away is either past its time or was made after the sweep
  began. `WalkInv` says of every bucket the iterator has still before it, once one was
  found due, that it is due by the `now` of the sweep or holds only entries with a
  whole lifetime from that `now` (`DueOrFresh`): buckets are tested from the latest
  down, and what a client adds between test and `lock()` is made after the sweep began.
* `ShardTypeCorrect`, and `ThreadsKeepTheStore`: `NoOverlap`, `NoLeak`, `Isolation`
  and `Registered` hold of a shard with threads; under `Aligned` so do
  `Accounting`, `CopyFits` and `NoSpaceReported` (`ThreadsKeepTheCounts`), and
  `CacheSpec` is what any number of threads see of the shard
  (`ThreadsImplementCache`), by `ShardImplementsStore`. All of this speaks of behaviours up
  to a data race: `ShardMutex` shows that `bulk_expire` can bring one about, and
  what follows one is not described by the model.

`BigCacheProofs`, for every number of shards, period and behaviour of the clock
(`BigCacheAssumption`: from `GroupFrom` shards on their number is a multiple of
`GroupSize`, which the constructor ensures by admitting powers of two only). The
inductive invariant `BigInv` is a conjunction of one part for each thread:

* `PausesAreBounded` (`PauseWithinPeriod`): `SleepInv` says that `prev_took` is not
  above the period whenever a supervisor sleeps; readings of the clock may be in
  any order, so `prev_took` itself may be any 64-bit number.
* `StopIsObeyed` (`OneCycleAfterStop`): `StopInv` adds to the property that a
  supervisor between two cycles has begun none after its signal.
* `NothingIsDeletedInUse` (`NothingDeletedInUse`): by `PoolInv` the c-th child of a
  cycle only has shards of the c-th `Part`, since a supervisor that is spawning has
  reached shard `Len(pool) * Step`; by `OwnerInv` the owner is past a
  join only when that supervisor has ended; a supervisor that has
  ended has no children, and every part lies among the shards (`PartFits`: here the
  divisibility by `GroupSize` is needed).

`BigCycleProofs`, under the same assumption:

* `ExpirationImplementsCycle` (`ImplementsCycle`): the threads of the expiration
  implement `ExpireCycle`. Each step maps to a step of it or a stutter: starting a
  child moves shards from `NotSpawned` to the child (`SpawnKeeps`), a finished
  `bulk_expire` is `SweepShard`, the end of a cycle is `End`, which needs that
  nothing is pending (`JoinedIsSwept`), and deletions happen in the phase `"over"`.
  The invariant `CycleInv` adds to `BigInv` that a child that has ended has nothing
  left to do, that no shard is twice in a child's list, that joins go through the
  children in order, and that the vacuum's children sweep nothing (`ChildrenInv`).
* `EveryShardIsSweptOnce` (`EverySweptOnce`): `SweptInv` says that, during a cycle,
  `swept` is 0 for the shards that are pending and 1 for the others.
* `BigTypeCorrect` (`BigTypeOK`). That a counter never falls below zero is not a
  matter of types: `CountInv` says that it is the number of children between their
  `inc` and their `dec` (a hung one among them), and that those before the one being
  joined have ended.
* `OneSweeperAlways` (`OneSweeper`): bulk_expire of a shard is called by one thread at a
  time. The children of a cycle have disjoint parts (`ChildrenShareNothing`, from
  `PoolInv` and `PartsAreDisjoint`). That none of an earlier cycle is left is said with
  the counter: no cycle resets it, so a child that nobody joined would be counted in it
  beyond the present ones, and by `CountInv` there is none.

`StartupProofs`, for every set of documents, JSON or not, and of Go configurations
(`SourcesAssumption`), and every width, limit and percentage that satisfies
`ConfigAssumption`, `DefaultIsPow2`, `HelpersAssumption` and `WordIsPow2` (limits are
positive, below 2^32 or 2^63 and in order; the default number of shards is a power of
two; the percentage divides 100; 2^64 is a power of two, and at least twice 2^32):

* `ParamsAlwaysInRange` (`ParamsInRange`). The range checks alone are not enough: a
  conversion is a remainder only of an integer. `StartupInv` says that what is filed,
  in a frame or in the result, is a map of finitely many keys of the five types
  (`FramesFit`, `DataOK`) whose integers fit into 64 bits (`IntsFit`), which holds
  since `strtol` cuts off (`IntegersAreCut`), that there is a call in progress while there is text to parse, and that each nested call is for
  an object behind the one of its caller. The last is `StartupTypeCorrect`
  (`StartupTypeOK`): the recursion of `unmarshal` is no deeper than the text is long,
  also for texts in which the parser loses its place.
* `SpaceIsAlwaysHeld` (`SpaceIsHeld`): with `PageIsFraction` (a page is the shard
  divided by the number of pages, rounded down) and `PreparedPagesHold` (the one page
  more that the constructor prepares makes up for the rounding as soon as a page has
  as many bytes as there are pages, but one). For all but tiny shards this is the
  condition under which `PagesAlwaysSuffice` says that no page is missing.
* `RoutingIsEven` (`Routing`): each hash has a shard, and each shard the same number
  of hashes. `is_pow2` and `get_shard` work with `&`, which `Helpers` defines by
  recursion over the halves (`BitAnd`). That the definition has a value is proved by
  induction over a set of numbers (`Induction`, `AndIs`); what passes `is_pow2` is
  even with a half that passes it too, or is one (`Pow2Halves`), so `&` with one less
  is the remainder (`MaskIsRemainder`) and it divides 2^64 (`Pow2Divides`).
* `DocumentsReadBack` (`ReadsBack`): every proper document, of any length and in both
  layouts, is parsed to its members, with the exceptions that the code makes behind an
  object. The invariant `ReadsInv` says where the parser can be. The text is laid out as its
  members (`AllLaid`): the n-th begins at token `b[n]`, and the members of an object
  likewise inside it; `FlattenSeq` has no closed form, so that the text of `Tokens` and
  `Spaced` is laid out this way is proved of it first, by induction over sets of numbers
  (`TokensLaid`). The calls in progress are one, midway in the document (`Alone`), or
  one that waits with the nested one midway in an object (`Nested`); midway means
  before a name, a colon, a value, a comma or the brace, or just where the jump
  behind an object leads. What has been filed so far is `Known`: every member
  passed over, but those directly behind an object in a text without spaces, and no
  key that is not a member's, or an object's name with a string.
* `MarshalIsKept` (`MarshalKeeps`): data of any number of members, with no more than
  one object, come back key by key from `marshal` and a second `unmarshal`: strings, integers
  and truth values as they were, floats as what `Streamed` says the stream writes for
  them. In which order
  `marshal` takes the keys of a type is not known (`SetToSeq` chooses one), and need
  not be: the text is that of some list of members in which each key has one
  (`Enumerates`, `Says`, `MarshalSays`), and the only object is the last of them
  (`ObjectsLast`), so that nothing is lost behind it and no string strays. The text is
  laid out like that of a document (`MarshalLaid`), and `WritesInv` says of the second
  parse what `ReadsInv` says of the first. That what has been read of that list is what
  the data were printed as is `AllIsKept`: a string is written as its word, an integer is not
  cut off a second time, a float is read under the type of its text (`StreamedWord`,
  `ScalarOfKey`). Two keys that fall together this way (the float 2.0 and an integer of
  one name) are excepted in the property (`OneForOne`). It is here that `StartupInv` has to say that there are finitely many keys
  (`SetToSeq` enumerates only finite sets) and that they have no sixth type (`marshal`
  would leave it out).
* `GoConfigIsObeyed` (`ValidIsObeyed`) and `GoPeriodsArePositive`
  (`GoPeriodsPositive`): from the fields of `Config` to the members of the cache,
  through the text, the parser, and two conversions. The text of `Config.Marshal` is laid
  out like that of a document (its six members have no objects), so by the same lemmas
  the parser ends with the members (`GoRead`), and what the constructor looks up is
  what was written, cut off (`GoLookup`); cutting off leaves a positive number
  positive (`CutToPositive`).

`GoWrapperProofs`, for every finite number of goroutines, any keys and slices
(`GoAssumption`). The inductive invariant `GoInv` consists of the properties, the
types and one part for each of them:

* `BufferIsAlwaysEnough`, `SpillAlwaysNeedsRace`: by `SetInv`, unless Sets have
  overlapped, one Set at a time is between its call and its update, and what it is
  about to write is above the maximum; so the maximum never falls. By `GetInv`,
  unless a Get has overlapped with a Set, the buffer it holds is the maximum and one
  byte more.
* `FreeIsAlwaysSafeAlone`: by `FreeInv`, unless a Free has overlapped with another
  call, nobody is inside a call once the flag is clear, and the cache is deleted only
  behind that.
* `GoTypeCorrect`: among others, a buffer has at least two bytes.

Only model-checked is what is live, `LockComesFree`, `SetReturns`, `DestructorReturns`
and `ExpirationGoesOn`, which is outside the prover's reach. The properties of the
violation runs do not hold of the code: `NoSpaceReported`, `MissIsReported` and
`NoSelfDeadlock` do under the hypotheses above, and are checked and proved there;
`ReadBack` and `MutualExclusion` have no such theorem: an entry of several blocks is
enough to break the one, and the last `unlock()` of a walk the other.

## 5. What is not modelled

The hash function (models work on hashes; two keys with one hash are one key, as
in the code), debug output, the demonstration program, tests and build files,
the `ts_counter` functions nobody calls. `__set`'s memory leaks (free and used
nodes, roots, objects of the parser that are replaced) have no effect on the
behaviour. Allocation failure is left out. Shards whose page size rounds down to
zero are excluded by `StoreAssumption`: their first set divides by zero in
`set_byte`. `src/shard.cpp:23` computes the page size in single precision; above
2^24 bytes the result is rounded, and the model is exact. `src/shard.cpp:256` rounds
an expiration time up in double precision, in which today's nanoseconds lose their last
eight bits: an entry due a fraction of a microsecond behind a full second may be
registered under that second, just before its time; `Bucket` is exact. Objects in objects in
objects and the line breaks of `marshal_indent` are left out of `Json`: the parser
loses its place in the former (see the observations), and tokens cannot say where.
`split`, `trim`, `atof64` and `atob` are abstracted by the tokens. The wrapper's cache
is a map, not a `Shard`: what can happen to an entry there is a choice.

## 6. Plan

Done: the storage and the map it implements, the locking, the supervisors and their
abstract cycles, the configuration with the parser, the Go wrapper, and theorems for
all of them. What would come next:

1. **GoWrapper over CacheSpec**: the wrapper's cache is a map of its own; it could be
   `CacheSpec` with a map of shards between them.
2. **Json** by characters instead of tokens, for objects of any depth.
