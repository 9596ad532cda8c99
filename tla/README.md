# Lusca cache: TLA+ models, model checking and proofs

Lusca is a web proxy cache derived from Squid 2. This directory holds TLA+
models of the parts of it where the order of events decides what happens, the
TLC configurations that check them on small instances, and proofs checked by
TLAPS. Every definition that stands for code is translated from the source;
`PROJECT.json` maps it to its lines, and lists components, runs, mutants,
hazards, findings and theorems.

## 1. The system

One process runs an event loop: it polls descriptors, runs timed events and
calls handlers. Nothing in it is concurrent, but it is re-entrant: a handler
calls a callback, the callback calls back into the structure the handler was
working on. Truly concurrent are the disk I/O threads, the helper processes, the
kernel, and the other side of each connection. A crash can happen at any moment;
the swap log and the swap files are what survives it.

| Part | State | Operations | What makes it hard |
|---|---|---|---|
| Callback data (`libcb/cbdata.c`) | lock count and validity of each structure | alloc, free, lock, unlock, valid | owner frees while operations hold the structure; addresses are reused |
| Disk I/O threads (`libasyncio`) | request queue, overflow queue, done queues, mutexes, notification pipe, pending requests | open, read, write, close, unlink, cancel, poll, sync | threads, unlocked flags, trylock, reuse of descriptor numbers |
| Swap file I/O (`fs/aufs/store_io_aufs.c`) | handle with queued reads and writes, flags, offsets | create, open, read, write, close, unlink and their completions | out-of-order execution, close requested at any time, calls from callbacks |
| Objects in transit (`store.c`, `store_client.c`, `store_swapout.c`, `store_swapin.c`, `libstmem`, `forward.c`) | memory object, list of readers, swap out, lock count, flow control | append, complete, abort, copy, unregister, swap out, trim, release, defer, resume | re-entrancy, readers at different places, early trimming, failures |
| Index and swap log (`store.c`, `store_rebuild.c`, `fs/aufs`) | hash table, file map, log, counts | create, make public/private, swap out start and end, hit, release, rebuild, validate, clean log | crash at any moment, rebuild interleaved with requests |
| Descriptors, events, pconns (`libiapp`, `pconn.c`) | handlers, timeouts, deferred closes, event list, idle connections | open, close, set handler, connect, run | reuse of descriptor numbers, close inside a handler |
| Helpers (`libhelper`) | helpers, slots, queue | submit, dispatch, reply, death, restart, shutdown | death with requests outstanding, re-entrant callbacks |
| Names (`libsqname`, `libsqdns`) | caches with locks, pending queries, identifiers | lookup, answer, retry, time out, purge | late and duplicate answers, entries in use |
| Processes (`libmutiprocess`) | registered workers, shared sockets, forwarded requests | register, share, forward, answer, time out, restart | lost processes, late answers |
| COSS (`fs/coss`) | stripes, membufs, pending relocations | create, open, read, write, write back, rebuild | a stripe is reused while its objects are read |
| Requests (`client_side*.c`, `forward.c`, peers, ACLs, authentication) | pipelines, revalidation, redirects, retries | many | long chains of callbacks |
| Codecs, parsers, reports, tools | - | pure | - |

How they meet: a request looks its key up in the index and becomes a store
client of an entry; on a miss the forwarding side appends the reply, readers are
called back, and pages go to a swap file through an AUFS handle, which uses the
thread pool. The index logs what has a complete file; after a crash the rebuild
reads that log. Every asynchronous call carries cbdata.

What each modelled part has to get right:

- cbdata: memory is not given back while an operation will look at it, and is
  given back in the end.
- threads: each request is executed and answered once, files are closed exactly
  once, waiting for the queue to drain ends.
- handles: the caller sees an ordinary file although nothing happens in order;
  each handle is closed and answered; a reader reads its own object.
- objects: a reader gets every byte or an error, nothing it needs is freed,
  locks are exact, a file that is kept is whole, nobody waits forever.
- index: one entry per key, one per file, the log describes the index at every
  moment, a restart loses nothing that was logged and undisturbed.

`PROJECT.json` ("components") lists every part, with the reason for each one that
is not modelled; ("hazards") lists where the code could go wrong in a way a test
would hardly reach, with the properties that would notice.

## 2. The modules

A module describes one component. Modules that end in `MC` add only what TLC
needs (symmetry sets, constants a cfg cannot write). Modules that end in `Proofs`
hold theorems.

### Cbdata (`libcb/cbdata.c`)

`mem`, `valid` and `locks` are the structures' memory, flag and count; `life`
numbers the structures that lived at an address, and `op[p]` is what a blocking
operation holds. `Alloc`, `Free`, `Register` (lock), `Call` (the operation tests
`cbdataValid` and calls back), `Drop` (invalid: no call) and `Return` (unlock)
are the steps. Between `Call` and `Return` any other step may happen, which is
what a callback's own code can do. `NoDanglingData` says that the structure an
operation refers to is still the one that was registered, by its `life` number,
not merely that something lives at the address.

### Aiops (`libasyncio/aiops.c`, `async_io.c`)

The main thread, the pool's threads, both request queues, the done queues, the
notification pipe and the table of pending control blocks. Each thread's step
goes from one shared access to the next: lock, wait, take, test `cancelled`,
execute, lock the done queue, append, test `done_signalled`, set it, write the
byte. The main thread's critical sections are single steps. `done_signalled` is
accessed without a lock: the main thread's clearing of it may become visible
later (`clearPending`, `DrainStore`), and condition variables wake spuriously if
`Spurious`.
Requests open, read, write and close numbered descriptors, and the kernel hands
the lowest free number out again. A close may fail and has then released its
number all the same. The handlers that `aioCancel` calls on its way through the
list are counted and not run: the callers of `aioClose` have nothing in flight
(`NothingCancelled` of AufsIO).

### AufsIO and StoreIO (`fs/aufs/store_io_aufs.c`, `store_io.c`)

AufsIO follows one file number: the handles opened on it one after the other and
the file behind the name. The main thread's state is one record `st`; the C
functions are operators from record to record, so that an action is the whole
handler with everything it calls. `Execute(o)` is a thread executing a request,
on any request in any order; `Deliver(o)` is the completion handler. `dir`,
`holds` and `disk` are the file system. The pool is taken as what Aiops shows it
to be: each request is executed and answered once. `storeAufsCreate` returns
without a handle when the pool's queue is longer than MAGIC2; that return is left
out, because `storeDirSelectSwapDir` passes over a directory whose load is above
1000, which it is from MAGIC1 = MAGIC2 / 2 on.

StoreIO is what the callers of a handle rely on: one close callback, successful
only when everything given is stored; a read is answered at most once and never
after a close. `AufsIO!Promise` is StoreIO's specification under the refinement
mapping given by `IO == INSTANCE StoreIO WITH ...`, and TLC checks it as a
property. The thread-pool queues, flags and offsets disappear in the mapping.

Assumed of the callers, from reading `store_client.c`, `store_swapout.c`,
`peer_digest.c` and `net_db.c`: a read callback does nothing, reads on, or
closes, and does not read and then close; a client closes its handle before it is
freed, so the cbdata test of a queued read always succeeds. A write is whole or
fails. `USE_TRUNCATE` is off.

### StoreClient (`store_client.c`, `store_swapout.c`, `store_swapin.c`, `store.c`, `libstmem`, `forward.c`)

One object from the server to its readers. `entry` is the StoreEntry with its
MemObject and swap file, `list` the reader list in its order, `cl` the readers,
`server` the forwarding side. `stack` is the C call stack: an action runs the code
up to the next callback and leaves the rest of the handler as frames. Before the
handler goes on, a callback may return, ask for more, or end its request; and if
`Pipelines`, a client may have a second request of its connection behind it, for
the same object, and a callback may also drop what it was given because it is not
the request's turn, close the connection with both requests, or go on with the
next request, waiting or new. At most two requests of a connection are in progress
(`pipeline_prefetch`). A new event starts only when the stack is empty, as in
the event loop. A failing `assert` is recorded in `entry.failed`, which
`NoAssertFails` denies.

Assumed of pipelined requests: they register with the object in their order. The
list grows at its head, so the request behind comes before the one ahead, and
`connStateFree` never frees the node that `InvokeHandlers` has read ahead. A first
request that is held up by a slow ACL or redirector can register after the
second; this order is outside the model.

Offsets are in units, a page holds `PageSize` of them. Data is identified by its
offset: what matters is which bytes are in memory, on disk, and with each
reader. A reply may announce its length (`ContentLengths`; -1 is none), which
counts in `storeCheckCachable` and in trimming, and an object below
`MinObjectSize` is not kept. Readers are sequential; left out are ranges that go
backwards, `storeEntryReset`, ENTRY_SPECIAL, negative caching, delay pools, and
ENTRY_BAD_LENGTH, which a reply of `http.c` does not get: it is completed when
all of the announced length has come.

### StoreIndex (`store.c`, `store_rebuild.c`, `store_dir.c`, `fs/aufs`, `app/ufs_rebuild`)

`ent` are the StoreEntry structures with key, state, lock holders and file
number; `map` is the file map; `log` the log being written and `old` the one
being rebuilt from; `rd` the rebuild's buffer, `phase` its progress. `Crash` may
happen in every state: memory is gone, and the log becomes `old`, unless a replay
was under way: then the old log is still in place. The rebuild processes one
record at a time between requests, with its duplicate and collision rules, and
processes records again when a read ends between two of them; validation
(`storeCleanup`), late release, and the clean-log rotation follow. The choice of the replacement policy and of a free file
number are any choice. The contents of the files are not modelled, and reading
one may fail at any time.

Left out: collapsed forwarding's early public keys, Vary, ENTRY_SPECIAL, negative
caching, locks of revalidation, more than one cache_dir, the directory scan.

## 3. The runs

| Run | Bounds | Checks | Result |
|---|---|---|---|
| `cbdata` | 2 addresses, used twice each, 3 operations | NoDanglingData, LockAccounting, LiveIffUsable, FreedIsReclaimed | holds |
| `aio` | 2 threads, 4 requests, 1 descriptor number, spurious wake-ups, close may fail | Conservation, QueueLenExact, ClosedOnlyOnce, NoFdLeak | holds |
| `aio_sync` | 1 thread, 3 requests, overload at 2 | HandlerOnce, SyncDone, ResultsDelivered, QueueDrains | holds |
| `aio_overflow` | 1 thread, 2 requests | OverflowDrains | violated |
| `object` | 2 readers, 4 units, page of 2, limits 2 and 3, at least 2, lengths announced as 1, 2, 4 or not at all, pipelining, every failure | NoAssertFails, MemClientCovered, WriterPageKept, LockAccounting, UnlockedIsServable, SwapFileIsWhole, NoFalseEOF | holds |
| `object_live` | 2 readers, 4 units, memory limit 1, no failures | MemClientCovered, ClientAnswered, DeferResumed | holds |
| `object_read` | as `object_live`, readers may leave | ReadWhatIsWritten | violated |
| `object_stall` | as above, memory limit 8 | RepolledWhenAllSeen | violated |
| `index` | 2 keys, 2 files, 3 entries, log of 3, up to 2 restarts and 2 misses, 3 together | OnePerKey, FilesDistinct, NoBitLost, LogAgrees, LogIsHistory, SizeExact, NothingLost | holds |
| `index_deleted` | as `index`, 1 restart | DeletedStaysDeleted | violated |
| `aufs` | 3 handles, 2 writes | NothingCancelled, CountersExact, OffsetOnDisk, FreshOpenIsRight, Promise, CloseCompletes | holds |
| `aufs_wrong_object` | as `aufs` | RightObject | violated |

Each model's passing run also checks its `TypeOK`. Each property of a passing run has a mutant: a plausible slip in a translated
definition under which TLC finds that property violated.

Why the bounds are enough for the cases of interest:

- `cbdata`: one address reused under an operation that still holds the former
  structure, with a second holder, and an operation of another structure.
- `aio`: one descriptor number makes every open reuse the number just closed; two
  threads make executions overtake each other; `aio_sync` reaches the overload
  from inside a handler with RIDICULOUS_LENGTH at 1.
- `object`: 4 units in pages of 2 give a full page, a part page, and data after
  both limits; two readers give the slow and the fast one, one on disk and one
  in memory. Announced lengths are one below `MinObjectSize`, one that may be kept,
  and one above both limits, whose reply is always cut short; the other runs of the model announce none and have no minimum. The
  switches (DiskFails, ServerMayFail, EarlyClose, QuickAborts, Purges, Pipelines)
  turn environment events on and off: all on for safety.
- `index`: two keys and two files give every collision of key and file, three
  entries an old, a new and a displaced one. The second restart reads a log that a
  rebuild has written, with records whose times are not in order: only then does
  the rebuild meet a record that is newer than the entry under its key
  (`store_rebuild_aufs.c:232`). Restarts and misses are bounded together by
  MaxWork: two misses with one restart, one miss with two.
- `aufs`: three handles give a former writer, its successor and a reader; two
  chunks give one in flight and one queued.

## 4. Fairness

- Cbdata: an operation completes and a callback returns.
- Aiops: the event loop runs and handlers return, threads run, stores reach
  memory: weak fairness. Getting a mutex that is free again and again: strong
  fairness, what a pthread mutex gives in practice. Nothing is assumed about new
  requests.
- AufsIO: for each handle, the pool executes and the main thread delivers:
  weak fairness. `QueueDrains` and `ResultsDelivered` of Aiops show it for
  requests on the request queue and for results that are signalled; the exceptions
  are a stranded overflow queue (`aio_overflow`) and a lost wake-up (section 6),
  which both end with the next disk I/O.
- StoreClient: what stays ready is served, written as "infinitely often not
  ready, or infinitely often taken". Servers that answer and readers that read
  to the end are assumed in `object_live` only.
- StoreIndex: safety only.

`CHECK_DEADLOCK FALSE` is used where a behaviour ends: in the AufsIO runs when the
handles are used up, in `object_live` when the object is delivered and nothing
purges it. Every other run checks for deadlock.

## 5. What is proved

`CbdataProofs` proves, for any set of addresses, any finite set of operations
and any number of reuses (assumption `CbdataAssumption`: the operations are
finite, NULL is no address, the bound is a number):

    THEOREM CbdataSafety ==
        Spec => [](TypeOK /\ NoDanglingData /\ LockAccounting /\ LiveIffUsable)

The inductive invariant `IInv` is the conjunction itself; no conjunct is
inductive alone. That a structure's memory stays while it is locked
(LiveIffUsable) needs the count to be exact; that a lock or unlock changes the
count of the right structure (LockAccounting) needs that all holders of an
address hold the same structure (NoDanglingData); and that needs the memory of a
held structure to stay. There is one preservation lemma per action (`AllocIInv`,
`FreeIInv`, `RegisterIInv`, `CallIInv`, and `UnlockIInv` for `Drop` and
`Return`); `HoldersFinite` supplies the cardinality facts and `FreeUnheld` that
nobody holds free memory.

Only model-checked: everything about the other modules, and FreedIsReclaimed, as
liveness under fairness is outside what TLAPS proves here.

## 6. What the runs found

Eight places where the code does something else than a comment in it says. The
line and the quotation are in `PROJECT.json`, "findings". Items 6 to 8 come from
passing runs: the property of 6 and of 8 excepts the case described, and the one
of 7 holds where the comment says that it does not.

1. `aio_overflow`: a request that finds the queue's mutex taken goes to an
   overflow queue, and nothing moves it on until some other disk I/O completes
   or another request is made (`aiops.c:397`).
2. `object_read`: when a swap file is being closed, data that is only queued
   counts as on disk (`store_swapout.c:390`). A reader is then scheduled to read
   what is not written yet.
3. `object_stall`: a backed-off server connection is polled again only when a
   reader asks for data; when the slow reader leaves and the others already
   wait, nobody asks (`store_client.c:472`). The retrieval waits for its timeout.
4. `index_deleted`: a hit during the rebuild sets `lastref`, by which a following
   deletion in the old log is taken for that of an older copy
   (`store_rebuild_aufs.c:156`).
5. `aufs_wrong_object`: the metadata of a swap file is not compared when its
   header size is already known, and a reader's open may overtake the unlink of
   the number's former file and the creation of its own (`store_client.c:545`).
   `FreshOpenIsRight` shows that this needs an open executed before the create: a
   late unlink alone at worst makes the reader find no file.
6. `aio`: a close that failed is taken for one that was never executed if it is
   cancelled later, and the number is closed again under the file that has it by
   then (`aiops.c:482`). It takes a failing `close()`, the number opened anew and
   that file closed, all before the first result is fetched. `ClosedOnlyOnce`
   excepts this (`Reclosed`).
7. `aio`: the comment of `aioOpen` says that a descriptor will or may leak when
   the callback data is invalidated before the open completes; the code closes it
   (`async_io.c:457`), and `NoFdLeak` holds.
8. `aio_sync`: a thread that tests `done_signalled` while the main thread's
   clearing of it is on its way to memory does not signal, and if the main thread
   has looked at the done queue before, the result waits for the next one
   (`aiops.c:808`). `ResultsDelivered` leaves this window out.

Seen while modelling, within what the models allow and no property speaks of:

- a file number 0 whose swap out fails keeps its bit until the next restart
  (`NoBitLost` excepts number 0);
- a rebuild helper that dies early counts as complete, so the rest of the old log
  is lost with it;
- an entry that is released during the rebuild keeps its file until the end, and
  a later ADD of that number is dropped;
- log write errors are ignored; the update-metadata branch of the rebuild is
  never taken (`LogIsHistory`) and is left out;
- two pipelined requests for one object that register in the opposite order would
  let `connStateFree` free the node that `InvokeHandlers` has read ahead.

## 7. What is not modelled, and the plan

Not modelled and not planned, with reasons in `PROJECT.json`: message parsing and
packing, configuration, reports, protocol translators (FTP, Gopher, WHOIS),
WCCP, helper programs, SNMP, tools. They are sequential, or their counterpart is
outside the repository.

Planned, in this order:

1. **Helper** (`libhelper/helper.c`): submit, dispatch, reply, death and restart
   of stateless and stateful helpers. Each submitted request is called back
   exactly once; queue and load counts are exact; no request is left when a
   helper dies while its callbacks submit more.
2. **Names** (`ipcache.c`, `fqdncache.c`, `dns_internal.c`): a cache entry with a
   lock is not freed; each lookup is answered once; a late answer is matched to
   the right query; every query is answered or times out. An abstract lookup
   service, refined by cache over resolver.
3. **Comm** (`comm.c`, `event.c`, `pconn.c`): a handler is never called for a
   descriptor that was closed and reused; each close handler runs once; an idle
   connection is handed out once.
4. **Coordinator** (`libmutiprocess`): registration, shared sockets, a forwarded
   request answered or timed out exactly once, restart of a worker.
5. **COSS** (`fs/coss`): a stripe is not overwritten while an object in it is read
   or moved; a second implementation of StoreIO.
6. Requests: peer selection's ping timeouts, re-forwarding, authentication's
   stateful reservations, external ACL lookups, digests; heap order and
   freshness as pure algorithms against a reference.
7. A composition of AufsIO's handles with the index (several file numbers), in
   place of the two separate views of a release.

Theorems planned: StoreIndex (FilesDistinct and OnePerKey, by a preservation lemma
for each operator on the state), AufsIO (NothingCancelled, CountersExact and the
refinement of StoreIO), Aiops (Conservation, ClosedOnlyOnce), and the safety of
each new module. Runs of one module that differ only in a property are to be
merged as modules are added, to keep the list at one run per question.
