------------------------------- MODULE Aiops --------------------------------
(***************************************************************************)
(* The disk I/O thread pool: libasyncio/aiops.c and libasyncio/async_io.c. *)
(*                                                                         *)
(* The main thread queues requests, the worker threads execute them and    *)
(* put them on the done queue, and the main thread delivers the results.   *)
(* Queues are guarded by mutexes the main thread only ever tries to take   *)
(* (request_queue2 is where requests go when it fails), and workers wake   *)
(* the main thread through a pipe, written only when done_signalled is     *)
(* clear.                                                                  *)
(*                                                                         *)
(* A worker step is the code between two accesses to what is shared.  The  *)
(* main thread's critical sections are single steps: a worker that wants   *)
(* the mutex just waits for their end.  done_signalled is shared without   *)
(* a lock: the main thread's "done_signalled = 0" may still be in its      *)
(* store buffer when it goes on to read the done queue (clearPending), and *)
(* taking a mutex drains it.                                               *)
(*                                                                         *)
(* Request r and its aio_ctrl are one record; r is used once.  The client  *)
(* code is the environment: it runs in the event loop (main.pc = "loop")   *)
(* and inside completion handlers (main.pc = "cb").                        *)
(***************************************************************************)
EXTENDS Integers, Sequences, FiniteSets, FiniteSetsExt

CONSTANTS Workers,          \* the threads of the pool
          None,             \* no thread
          MaxReqs,          \* bound: requests in a behaviour
          NFds,             \* descriptors the kernel can hand out
          ClientOps,        \* what clients do besides opening and closing
          RIDICULOUS_LENGTH,\* queue length at which the main thread syncs
          Spurious          \* may pthread_cond_wait return for no reason?

ASSUME AiopsAssumption ==
    /\ IsFiniteSet(Workers) /\ None \notin Workers
    /\ MaxReqs \in Nat /\ NFds \in Nat \ {0} /\ RIDICULOUS_LENGTH \in Nat
    /\ ClientOps \subseteq {"READ", "WRITE", "PATH"}
    /\ Spurious \in BOOLEAN

VARIABLES
    main,              \* main thread: [pc, polled, pollRet, syncRet, cbRet]
    wpc, cur,          \* worker threads: place in squidaio_thread_loop, request
    requestMutex, requestQueue, requestQueue2,
    doneMutex, doneQueue, doneRequests,
    doneSignalled, clearPending, pipe,
    requestQueueLen,
    nreq, req,         \* requests made so far
    usedList,          \* used_list: requests whose aio_ctrl exists
    fdOwner,           \* kernel: fdOwner[f] is the OPEN that f stems from, or 0
    held               \* OPENs whose descriptor was delivered and not closed

queues == <<requestQueue, requestQueue2, doneQueue, doneRequests, requestQueueLen>>
signal == <<doneSignalled, clearPending, pipe>>
mutexes == <<requestMutex, doneMutex>>
threads == <<wpc, cur>>
clients == <<nreq, req, usedList, fdOwner, held>>
vars == <<main, threads, mutexes, queues, signal, clients>>

Reqs == 1..MaxReqs
Fds == 1..NFds

Blank == [type |-> "NONE", fd |-> 0, of |-> 0, ret |-> -1,
          cancelled |-> FALSE, valid |-> TRUE, called |-> 0]

TypeOK ==
    /\ main \in [pc : {"loop", "cb", "poll", "kick", "take", "syncchk"},
                 polled : BOOLEAN, pollRet : {"poll", "syncchk"},
                 syncRet : {"loop", "cb", "poll", "aiosync"}, cbRet : {"loop", "sync"}]
    /\ wpc \in [Workers -> {"lock", "check", "wait", "test", "exec", "dlock",
                            "append", "sigtest", "sigset", "sigwrite"}]
    /\ cur \in [Workers -> 0..MaxReqs]
    /\ requestMutex \in Workers \cup {None}
    /\ doneMutex \in Workers \cup {None}
    /\ {requestQueue, requestQueue2, doneQueue, doneRequests} \subseteq Seq(Reqs)
    /\ doneSignalled \in BOOLEAN /\ clearPending \in BOOLEAN
    /\ pipe \in Nat
    /\ requestQueueLen \in Nat
    /\ nreq \in 0..MaxReqs
    /\ req \in [Reqs -> [type : {"NONE", "OPEN", "READ", "WRITE", "CLOSE", "PATH"},
                         fd : {0} \cup Fds, of : 0..MaxReqs,
                         ret : {-1, 0} \cup Fds, cancelled : BOOLEAN,
                         valid : BOOLEAN, called : Nat]]
    /\ usedList \subseteq Reqs
    /\ fdOwner \in [Fds -> 0..MaxReqs]
    /\ held \subseteq Reqs

\* The main thread in its event loop, no function of the pool on its stack.
InLoop == [pc |-> "loop", polled |-> FALSE, pollRet |-> "poll",
           syncRet |-> "loop", cbRet |-> "loop"]

Init ==
    /\ main = InLoop
    /\ wpc = [w \in Workers |-> "lock"] /\ cur = [w \in Workers |-> 0]
    /\ requestMutex = None /\ doneMutex = None
    /\ requestQueue = <<>> /\ requestQueue2 = <<>>
    /\ doneQueue = <<>> /\ doneRequests = <<>>
    /\ doneSignalled = FALSE /\ clearPending = FALSE /\ pipe = 0
    /\ requestQueueLen = 0
    /\ nreq = 0 /\ req = [r \in Reqs |-> Blank]
    /\ usedList = {} /\ held = {}
    /\ fdOwner = [f \in Fds |-> 0]
-----------------------------------------------------------------------------
(* What several operations of the main thread share. *)

\* A lock instruction drains the store buffer: a pending clear lands.
Fence == doneSignalled' = (doneSignalled /\ ~clearPending) /\ clearPending' = FALSE

\* Mutant: the waiting threads are not woken.
CondSignalForgotten == UNCHANGED wpc

\* pthread_cond_signal: one waiting worker, if there is one, goes for the mutex.
CondSignal ==
    LET waiting == {w \in Workers : wpc[w] = "wait"}
    IN  IF waiting = {} THEN UNCHANGED wpc
        ELSE \E w \in waiting : wpc' = [wpc EXCEPT ![w] = "lock"]

\* Mutant: the length is not counted up.
QueueRequestUncounted(table, ctrls, r, q) ==
    /\ nreq' = r
    /\ req' = [table EXCEPT ![r] = q]
    /\ usedList' = ctrls \cup {r}
    /\ requestQueueLen' = requestQueueLen
    /\ Fence
    /\ IF requestMutex = None
       THEN /\ requestQueue' = requestQueue \o requestQueue2 \o <<r>>
            /\ requestQueue2' = <<>>
            /\ CondSignal
       ELSE /\ requestQueue2' = Append(requestQueue2, r)
            /\ UNCHANGED <<requestQueue, wpc>>
    /\ UNCHANGED <<cur, mutexes, doneQueue, pipe>>

\* Mutant: the overflow chain is overwritten.
QueueRequestOverflowLost(table, ctrls, r, q) ==
    /\ nreq' = r
    /\ req' = [table EXCEPT ![r] = q]
    /\ usedList' = ctrls \cup {r}
    /\ requestQueueLen' = requestQueueLen + 1
    /\ Fence
    /\ IF requestMutex = None
       THEN /\ requestQueue' = requestQueue \o requestQueue2 \o <<r>>
            /\ requestQueue2' = <<>>
            /\ CondSignal
       ELSE /\ requestQueue2' = <<r>>
            /\ UNCHANGED <<requestQueue, wpc>>
    /\ UNCHANGED <<cur, mutexes, doneQueue, pipe>>

\* squidaio_queue_request for a request r made with the fields q, the aio_ctrl
\* of which is put on the used list by the caller.  ctrls is what is on the
\* list otherwise, and table the other requests.
QueueRequest(table, ctrls, r, q) ==
    /\ nreq' = r
    /\ req' = [table EXCEPT ![r] = q]
    /\ usedList' = ctrls \cup {r}
    /\ requestQueueLen' = requestQueueLen + 1
    /\ Fence
    /\ IF requestMutex = None
       THEN /\ requestQueue' = requestQueue \o requestQueue2 \o <<r>>
            /\ requestQueue2' = <<>>
            /\ CondSignal
       ELSE /\ requestQueue2' = Append(requestQueue2, r)
            /\ UNCHANGED <<requestQueue, wpc>>
    /\ UNCHANGED <<cur, mutexes, doneQueue, pipe>>

\* Where the main thread goes after queueing: on, at pc, or into squidaio_sync
\* if the queue has grown uncontrollably.
AfterQueueing(pc) ==
    main' = IF requestQueueLen + 1 > RIDICULOUS_LENGTH
            THEN [main EXCEPT !.pc = "kick", !.polled = FALSE,
                              !.pollRet = "syncchk", !.syncRet = pc]
            ELSE [main EXCEPT !.pc = pc, !.polled = FALSE]

\* aioCancel(f): every request with an aio_ctrl on f is marked cancelled, its
\* handler, if it has one and the data is valid, is called with an error, and
\* the aio_ctrl goes.  CLOSE and PATH requests have no handler.  A handler is
\* called here, from within the walk of the list, only for a READ or WRITE that
\* is pending on f when f is closed.  The call is counted, and the handler's own
\* requests are left out: the only callers that close a descriptor with a
\* handler pending on it would be those of AUFS, which never do so
\* (AufsIO!NothingCancelled).
OnFd(f) == {r \in usedList : req[r].fd = f}
HasHandler(r) == req[r].type \in {"OPEN", "READ", "WRITE"}
\* Mutant: the request is not marked cancelled.
CancelUnmarked(f) ==
    [r \in Reqs |-> IF r \notin OnFd(f) THEN req[r]
                    ELSE [req[r] EXCEPT
                              !.called = @ + IF HasHandler(r) /\ req[r].valid THEN 1 ELSE 0]]

Cancel(f) ==
    [r \in Reqs |-> IF r \notin OnFd(f) THEN req[r]
                    ELSE [req[r] EXCEPT !.cancelled = TRUE,
                              !.called = @ + IF HasHandler(r) /\ req[r].valid THEN 1 ELSE 0]]
-----------------------------------------------------------------------------
(* The client interface, async_io.c. *)

ClientRuns == main.pc \in {"loop", "cb"}

\* Requests are kept in reserve so that every file opened can be closed.
Opening == {r \in usedList : req[r].type = "OPEN"}
Spare(n) == MaxReqs - nreq >= n + Cardinality(Opening) + Cardinality(held)

AioOpen ==
    /\ ClientRuns /\ Spare(2)
    /\ QueueRequest(req, usedList, nreq + 1, [Blank EXCEPT !.type = "OPEN"])
    /\ AfterQueueing(main.pc)
    /\ UNCHANGED <<doneRequests, fdOwner, held>>

\* aioRead and aioWrite on a file that a client holds.
AioReadWrite(i, type) ==
    /\ type \in ClientOps /\ ClientRuns /\ Spare(1) /\ i \in held
    /\ QueueRequest(req, usedList, nreq + 1,
                    [Blank EXCEPT !.type = type, !.fd = req[i].ret, !.of = i])
    /\ AfterQueueing(main.pc)
    /\ UNCHANGED <<doneRequests, fdOwner, held>>

\* aioStat, aioUnlink and aioTruncate, which name no descriptor.
AioPath ==
    /\ "PATH" \in ClientOps /\ ClientRuns /\ Spare(1)
    /\ QueueRequest(req, usedList, nreq + 1, [Blank EXCEPT !.type = "PATH"])
    /\ AfterQueueing(main.pc)
    /\ UNCHANGED <<doneRequests, fdOwner, held>>

CloseRequest(i) == [Blank EXCEPT !.type = "CLOSE", !.fd = req[i].ret, !.of = i]

\* aioClose: aioCancel, then a CLOSE is queued.
AioClose(i) ==
    /\ ClientRuns /\ i \in held
    /\ LET f == req[i].ret
       IN  QueueRequest(Cancel(f), usedList \ OnFd(f), nreq + 1, CloseRequest(i))
    /\ held' = held \ {i}
    /\ AfterQueueing(main.pc)
    /\ UNCHANGED <<doneRequests, fdOwner>>

\* The owner of the callback data of r frees it (cbdataFree).
Invalidate(r) ==
    /\ ClientRuns
    /\ r \in usedList /\ HasHandler(r) /\ req[r].valid
    /\ req' = [req EXCEPT ![r].valid = FALSE]
    /\ UNCHANGED <<main, threads, mutexes, queues, signal, nreq, usedList, fdOwner, held>>
-----------------------------------------------------------------------------
(* The main thread takes results. *)

\* squidaio_fdhandler: the pipe is readable; it is drained, and
\* aioCheckCallbacks runs.
FdHandler ==
    /\ main.pc = "loop" /\ pipe > 0
    /\ pipe' = 0
    /\ main' = [main EXCEPT !.pc = "poll", !.polled = FALSE, !.cbRet = "loop"]
    /\ UNCHANGED <<threads, mutexes, queues, doneSignalled, clearPending, clients>>

\* aioSync: aioCheckCallbacks and squidaio_sync in turn until nothing is pending.
AioSync ==
    /\ main.pc = "loop"
    /\ main' = [main EXCEPT !.pc = "poll", !.polled = FALSE, !.cbRet = "sync"]
    /\ UNCHANGED <<threads, mutexes, queues, signal, clients>>

\* Mutant: done_signalled stays set when the pipe is drained.
PollSignalKeepsFlag ==
    /\ main.pc = "poll" /\ doneRequests = <<>> /\ ~main.polled
    /\ pipe' = IF doneSignalled /\ ~clearPending THEN 0 ELSE pipe
    /\ main' = [main EXCEPT !.pc = "kick", !.polled = TRUE, !.pollRet = "poll"]
    /\ UNCHANGED <<threads, mutexes, queues, doneSignalled, clearPending, clients>>

\* squidaio_poll_done finds no result at hand: it drains the pipe, clears
\* done_signalled and polls the queues, once.
PollSignal ==
    /\ main.pc = "poll" /\ doneRequests = <<>> /\ ~main.polled
    /\ IF doneSignalled /\ ~clearPending
       THEN pipe' = 0 /\ clearPending' = TRUE
       ELSE UNCHANGED <<pipe, clearPending>>
    /\ main' = [main EXCEPT !.pc = "kick", !.polled = TRUE, !.pollRet = "poll"]
    /\ UNCHANGED <<threads, mutexes, queues, doneSignalled, clients>>

\* Mutant: the overflow queue is only kicked when the request queue is used up.
PollKickNever ==
    /\ main.pc = "kick"
    /\ IF requestQueue2 = <<>> THEN UNCHANGED <<requestQueue, requestQueue2, wpc, doneSignalled, clearPending>>
       ELSE /\ Fence
            /\ IF requestQueue = <<>> THEN UNCHANGED <<requestQueue, requestQueue2, wpc>>
               ELSE /\ requestQueue' = requestQueue \o requestQueue2
                    /\ requestQueue2' = <<>>
                    /\ CondSignal
    /\ main' = [main EXCEPT !.pc = "take"]
    /\ UNCHANGED <<cur, mutexes, doneQueue, doneRequests, requestQueueLen, pipe, clients>>

\* squidaio_poll_queues, first half: kick the overflow queue.
PollKick ==
    /\ main.pc = "kick"
    /\ IF requestQueue2 = <<>> THEN UNCHANGED <<requestQueue, requestQueue2, wpc, doneSignalled, clearPending>>
       ELSE /\ Fence
            /\ IF requestMutex # None THEN UNCHANGED <<requestQueue, requestQueue2, wpc>>
               ELSE /\ requestQueue' = requestQueue \o requestQueue2
                    /\ requestQueue2' = <<>>
                    /\ CondSignal
    /\ main' = [main EXCEPT !.pc = "take"]
    /\ UNCHANGED <<cur, mutexes, doneQueue, doneRequests, requestQueueLen, pipe, clients>>

\* Mutant: a chain of done requests is counted as one.
PollTakeCountsOne ==
    /\ main.pc = "take"
    /\ IF doneQueue = <<>> THEN UNCHANGED <<doneQueue, doneRequests, requestQueueLen, doneSignalled, clearPending>>
       ELSE /\ Fence
            /\ IF doneMutex # None THEN UNCHANGED <<doneQueue, doneRequests, requestQueueLen>>
               ELSE /\ doneRequests' = doneRequests \o doneQueue
                    /\ requestQueueLen' = requestQueueLen - 1
                    /\ doneQueue' = <<>>
    /\ main' = [main EXCEPT !.pc = main.pollRet]
    /\ UNCHANGED <<threads, mutexes, requestQueue, requestQueue2, pipe, clients>>

\* squidaio_poll_queues, second half: take what is done.  done_queue.head is
\* read without the mutex.
PollTake ==
    /\ main.pc = "take"
    /\ IF doneQueue = <<>> THEN UNCHANGED <<doneQueue, doneRequests, requestQueueLen, doneSignalled, clearPending>>
       ELSE /\ Fence
            /\ IF doneMutex # None THEN UNCHANGED <<doneQueue, doneRequests, requestQueueLen>>
               ELSE /\ doneRequests' = doneRequests \o doneQueue
                    /\ requestQueueLen' = requestQueueLen - Len(doneQueue)
                    /\ doneQueue' = <<>>
    /\ main' = [main EXCEPT !.pc = main.pollRet]
    /\ UNCHANGED <<threads, mutexes, requestQueue, requestQueue2, pipe, clients>>

\* squidaio_sync polls until the queue is empty, then returns: to where the
\* request was queued, or into aioSync, which goes on if results are at hand.
SyncCheck ==
    /\ main.pc = "syncchk"
    /\ main' = IF requestQueueLen > 0 THEN [main EXCEPT !.pc = "kick"]
               ELSE IF main.syncRet # "aiosync"
                    THEN [main EXCEPT !.pc = main.syncRet, !.pollRet = "poll", !.syncRet = "loop"]
               ELSE IF doneRequests # <<>>
                    THEN [main EXCEPT !.pc = "poll", !.polled = FALSE, !.pollRet = "poll",
                                      !.syncRet = "loop"]
               ELSE InLoop
    /\ UNCHANGED <<threads, mutexes, queues, signal, clients>>

\* squidaio_poll_done has nothing to return and aioCheckCallbacks ends.
PollNothing ==
    /\ main.pc = "poll" /\ doneRequests = <<>> /\ main.polled
    /\ main' = IF main.cbRet = "loop" THEN InLoop
               ELSE [main EXCEPT !.pc = "kick", !.pollRet = "syncchk", !.syncRet = "aiosync"]
    /\ UNCHANGED <<threads, mutexes, queues, signal, clients>>

\* Mutant: a cancelled close is made up for even if it was executed.
PopCancelledClosesAgain ==
    /\ main.pc = "poll" /\ doneRequests # <<>>
    /\ LET r == Head(doneRequests)
       IN  /\ req[r].cancelled
           /\ fdOwner' = IF req[r].type = "OPEN" /\ req[r].ret >= 0
                         THEN [fdOwner EXCEPT ![req[r].ret] = 0]
                         ELSE IF req[r].type = "CLOSE"
                         THEN [fdOwner EXCEPT ![req[r].fd] = 0]
                         ELSE fdOwner
    /\ doneRequests' = Tail(doneRequests)
    /\ UNCHANGED <<main, threads, mutexes, requestQueue, requestQueue2, doneQueue,
                   requestQueueLen, signal, nreq, req, usedList, held>>

\* squidaio_poll_done takes a request that was cancelled: squidaio_cleanup_request
\* closes what would leak, no result is returned and the poll goes on.
PopCancelled ==
    /\ main.pc = "poll" /\ doneRequests # <<>>
    /\ LET r == Head(doneRequests)
       IN  /\ req[r].cancelled
           /\ fdOwner' = IF req[r].type = "OPEN" /\ req[r].ret >= 0
                         THEN [fdOwner EXCEPT ![req[r].ret] = 0]
                         ELSE IF req[r].type = "CLOSE" /\ req[r].ret < 0
                         THEN [fdOwner EXCEPT ![req[r].fd] = 0]
                         ELSE fdOwner
    /\ doneRequests' = Tail(doneRequests)
    /\ UNCHANGED <<main, threads, mutexes, requestQueue, requestQueue2, doneQueue,
                   requestQueueLen, signal, nreq, req, usedList, held>>

\* aioCheckCallbacks with a result: the handler is called, if there is one and
\* its data is valid.
PopDeliver ==
    /\ main.pc = "poll" /\ doneRequests # <<>>
    /\ LET r == Head(doneRequests)
       IN  /\ ~req[r].cancelled
           /\ HasHandler(r) => req[r].valid
           /\ usedList' = usedList \ {r}
           /\ req' = [req EXCEPT ![r].called = @ + IF HasHandler(r) THEN 1 ELSE 0]
           /\ held' = IF req[r].type = "OPEN" /\ req[r].ret >= 0 THEN held \cup {r} ELSE held
           /\ main' = [main EXCEPT !.pc = IF HasHandler(r) THEN "cb" ELSE "poll", !.polled = FALSE]
    /\ doneRequests' = Tail(doneRequests)
    /\ UNCHANGED <<threads, mutexes, requestQueue, requestQueue2, doneQueue,
                   requestQueueLen, signal, nreq, fdOwner>>

\* Mutant: the file that was opened for nobody stays open.
PopInvalidLeaks ==
    /\ main.pc = "poll" /\ doneRequests # <<>>
    /\ LET r == Head(doneRequests)
       IN  /\ ~req[r].cancelled /\ HasHandler(r) /\ ~req[r].valid
           /\ usedList' = usedList \ {r}
    /\ main' = [main EXCEPT !.polled = FALSE]
    /\ doneRequests' = Tail(doneRequests)
    /\ UNCHANGED <<threads, mutexes, requestQueue, requestQueue2, doneQueue,
                   requestQueueLen, signal, nreq, req, fdOwner, held>>

\* aioCheckCallbacks with a result whose callback data is gone: no handler, and
\* a file that was opened for it is closed again.
PopInvalid ==
    /\ main.pc = "poll" /\ doneRequests # <<>>
    /\ LET r == Head(doneRequests)
           f == req[r].ret
       IN  /\ ~req[r].cancelled /\ HasHandler(r) /\ ~req[r].valid
           /\ IF req[r].type = "OPEN" /\ f >= 0
              THEN /\ QueueRequest(Cancel(f), usedList \ (OnFd(f) \cup {r}), nreq + 1, CloseRequest(r))
                   /\ AfterQueueing("poll")
              ELSE /\ usedList' = usedList \ {r}
                   /\ main' = [main EXCEPT !.polled = FALSE]
                   /\ UNCHANGED <<threads, mutexes, requestQueue, requestQueue2, doneQueue,
                                  requestQueueLen, signal, nreq, req>>
    /\ doneRequests' = Tail(doneRequests)
    /\ UNCHANGED <<fdOwner, held>>

\* The completion handler returns to aioCheckCallbacks.
HandlerReturns ==
    /\ main.pc = "cb"
    /\ main' = [main EXCEPT !.pc = "poll", !.polled = FALSE]
    /\ UNCHANGED <<threads, mutexes, queues, signal, clients>>

\* The store buffer drains by itself.
DrainStore == clearPending /\ Fence /\ UNCHANGED <<main, threads, mutexes, queues, pipe, clients>>
-----------------------------------------------------------------------------
(* A worker, squidaio_thread_loop. *)

Go(w, pc) == wpc' = [wpc EXCEPT ![w] = pc]

\* pthread_mutex_lock(&request_queue.mutex), also on the way out of cond_wait.
WLock(w) ==
    /\ wpc[w] = "lock" /\ requestMutex = None
    /\ requestMutex' = w
    /\ Go(w, "check")
    /\ UNCHANGED <<main, cur, doneMutex, queues, signal, clients>>

\* The queue is empty: pthread_cond_wait releases the mutex.
WWait(w) ==
    /\ wpc[w] = "check" /\ requestQueue = <<>>
    /\ requestMutex' = None
    /\ Go(w, "wait")
    /\ UNCHANGED <<main, cur, doneMutex, queues, signal, clients>>

\* pthread_cond_wait may return although nobody signalled.
WSpurious(w) ==
    /\ Spurious /\ wpc[w] = "wait"
    /\ Go(w, "lock")
    /\ UNCHANGED <<main, cur, mutexes, queues, signal, clients>>

\* A request is taken and the mutex released.
WTake(w) ==
    /\ wpc[w] = "check" /\ requestQueue # <<>>
    /\ cur' = [cur EXCEPT ![w] = Head(requestQueue)]
    /\ requestQueue' = Tail(requestQueue)
    /\ requestMutex' = None
    /\ Go(w, "test")
    /\ UNCHANGED <<main, doneMutex, requestQueue2, doneQueue, doneRequests, requestQueueLen, signal, clients>>

\* "if (!request->cancelled)", read without a lock.  A cancelled request keeps
\* its result, -1.
WTest(w) ==
    /\ wpc[w] = "test"
    /\ Go(w, IF req[cur[w]].cancelled THEN "dlock" ELSE "exec")
    /\ UNCHANGED <<main, cur, mutexes, queues, signal, clients>>

\* squidaio_do_open, _read, _write, _close, _stat, _unlink, _truncate.  open()
\* gives the lowest free descriptor or fails, and close() gives the number back
\* also when it fails (EIO, EINTR), as it does on Linux.
WExec(w) ==
    /\ wpc[w] = "exec"
    /\ LET r == cur[w]
           freeFds == {f \in Fds : fdOwner[f] = 0}
       IN  CASE req[r].type = "OPEN" ->
                  \/ UNCHANGED <<fdOwner, req>>
                  \/ /\ freeFds # {}
                     /\ fdOwner' = [fdOwner EXCEPT ![Min(freeFds)] = r]
                     /\ req' = [req EXCEPT ![r].ret = Min(freeFds)]
             [] req[r].type = "CLOSE" ->
                  /\ fdOwner' = [fdOwner EXCEPT ![req[r].fd] = 0]
                  /\ \E ret \in {0, -1} : req' = [req EXCEPT ![r].ret = ret]
             [] OTHER ->
                  /\ req' = [req EXCEPT ![r].ret = 0]
                  /\ UNCHANGED fdOwner
    /\ Go(w, "dlock")
    /\ UNCHANGED <<main, cur, mutexes, queues, signal, nreq, usedList, held>>

\* pthread_mutex_lock(&done_queue.mutex).
WDoneLock(w) ==
    /\ wpc[w] = "dlock" /\ doneMutex = None
    /\ doneMutex' = w
    /\ Go(w, "append")
    /\ UNCHANGED <<main, cur, requestMutex, queues, signal, clients>>

WAppend(w) ==
    /\ wpc[w] = "append"
    /\ doneQueue' = Append(doneQueue, cur[w])
    /\ cur' = [cur EXCEPT ![w] = 0]
    /\ doneMutex' = None
    /\ Go(w, "sigtest")
    /\ UNCHANGED <<main, requestMutex, requestQueue, requestQueue2, doneRequests, requestQueueLen, signal, clients>>

\* "if (!done_signalled)", "done_signalled = 1" and the write to the pipe are
\* three steps, none under a lock.
WSigTest(w) ==
    /\ wpc[w] = "sigtest"
    /\ Go(w, IF doneSignalled THEN "lock" ELSE "sigset")
    /\ UNCHANGED <<main, cur, mutexes, queues, signal, clients>>

WSigSet(w) ==
    /\ wpc[w] = "sigset"
    /\ doneSignalled' = TRUE
    /\ Go(w, "sigwrite")
    /\ UNCHANGED <<main, cur, mutexes, queues, clearPending, pipe, clients>>

WSigWrite(w) ==
    /\ wpc[w] = "sigwrite"
    /\ pipe' = pipe + 1
    /\ Go(w, "lock")
    /\ UNCHANGED <<main, cur, mutexes, queues, doneSignalled, clearPending, clients>>
-----------------------------------------------------------------------------
Client ==
    \/ AioOpen \/ AioPath
    \/ \E i \in Reqs : \/ \E type \in {"READ", "WRITE"} : AioReadWrite(i, type)
                       \/ AioClose(i) \/ Invalidate(i)

Main == FdHandler \/ PollSignal \/ PollKick \/ PollTake \/ SyncCheck
        \/ PollNothing \/ PopCancelled \/ PopDeliver \/ PopInvalid \/ HandlerReturns

Worker(w) == WLock(w) \/ WWait(w) \/ WTake(w) \/ WTest(w) \/ WExec(w) \/ WDoneLock(w)
             \/ WAppend(w) \/ WSigTest(w) \/ WSigSet(w) \/ WSigWrite(w)

Next == Client \/ Main \/ AioSync \/ DrainStore
        \/ \E w \in Workers : Worker(w) \/ WSpurious(w)

Spec == Init /\ [][Next]_vars

\* The event loop runs, handlers return, threads run and get a mutex that is
\* free again and again, and stores reach memory.
Fairness ==
    /\ WF_vars(Main) /\ WF_vars(DrainStore)
    /\ \A w \in Workers : /\ WF_vars(Worker(w))
                          /\ SF_vars(WLock(w)) /\ SF_vars(WDoneLock(w))

FairSpec == Spec /\ Fairness
-----------------------------------------------------------------------------
(* Properties. *)

\* In how many places request r is: the four queues and the threads' hands.
Places(r) ==
    LET all == requestQueue \o requestQueue2 \o doneQueue \o doneRequests
    IN  Cardinality({k \in DOMAIN all : all[k] = r}) + Cardinality({w \in Workers : cur[w] = r})

\* No request is lost and none is duplicated on its way through the queues:
\* one whose result somebody waits for is in exactly one place.
Conservation ==
    \A r \in Reqs : Places(r) <= 1 /\ (r \in usedList => Places(r) = 1)

\* request_queue_len, which decides when squidaio_sync and squidaio_shutdown
\* may stop polling, counts the requests that are not yet on done_requests.
QueueLenExact ==
    requestQueueLen = Len(requestQueue) + Len(requestQueue2) + Len(doneQueue)
                      + Cardinality({w \in Workers : cur[w] # 0})

\* A completion handler is called at most once, be the request completed,
\* cancelled, or cancelled while a thread executes it.
HandlerOnce == \A r \in Reqs : req[r].called <= 1

In(r, q) == \E k \in DOMAIN q : q[k] = r

\* The CLOSE requests that no thread has executed or skipped yet.
CloseAhead ==
    {c \in Reqs : /\ req[c].type = "CLOSE"
                  /\ \/ In(c, requestQueue) \/ In(c, requestQueue2)
                     \/ \E w \in Workers : cur[w] = c /\ wpc[w] \in {"test", "exec"}}

\* squidaio_cleanup_request has closed number f for a CLOSE that failed and was
\* cancelled when f had been opened anew: "The close() was cancelled and never
\* got executed" (aiops.c:483), but it was executed and f was free since.
Reclosed(f) ==
    \E c \in Reqs : /\ req[c].type = "CLOSE" /\ req[c].fd = f
                    /\ req[c].cancelled /\ req[c].ret < 0 /\ Places(c) = 0

\* A descriptor is closed once, by the close that was queued for it: as long as
\* a client holds it, or its close is still ahead, it is open and is the file
\* it was opened for, however late an older close of the same number is
\* cancelled and cleaned up (aiops.c:481-485), and no close is cancelled before
\* a thread has got to it.  The one exception is Reclosed.
ClosedOnlyOnce ==
    \A f \in Fds : ~Reclosed(f) =>
        /\ \A i \in held : req[i].ret = f => fdOwner[f] = i
        /\ \A c \in CloseAhead : req[c].fd = f => fdOwner[f] = req[c].of /\ ~req[c].cancelled

\* No descriptor leaks: an open one is in a client's hands, or its open is on
\* the way to a client, or its close is on the way to a thread.  This holds
\* also when the client is gone before its open completes, the case in which
\* aioOpen's comment says that the descriptor "will (may?) leak".
NoFdLeak ==
    \A f \in Fds : LET i == fdOwner[f] IN
        i # 0 => \/ i \in held
                 \/ Places(i) = 1
                 \/ \E c \in Reqs : req[c].type = "CLOSE" /\ req[c].of = i /\ Places(c) = 1

\* When aioSync returns nothing is pending any more, whatever the handlers it
\* ran have queued in the meantime.
SyncFlushes ==
    [][main.syncRet = "aiosync" /\ main.pc = "syncchk" /\ main'.pc = "loop" =>
           usedList = {} /\ \A r \in Reqs : Places(r) = 0]_vars

\* aioSync comes to an end.
SyncTerminates == (main.cbRet = "sync" /\ main.pc # "loop") ~> main.pc = "loop"

\* aioSync comes to an end although the handlers it runs queue more, and then
\* nothing is pending any more.
SyncDone == SyncFlushes /\ SyncTerminates

\* Some thread has told the main thread, or is about to.
Signalling == \/ doneSignalled \/ pipe > 0
              \/ \E w \in Workers : wpc[w] \in {"sigtest", "sigset", "sigwrite"}

\* No wake-up is lost for good: a result on the done queue is fetched without
\* further disk I/O, also if the byte in the pipe is that of another result or
\* was drained before the flag was cleared.  The exception: a thread that tests
\* done_signalled while the main thread's clearing of it is on the way to
\* memory, after the main thread has found the done queue empty (aiops.c:779,
\* read without a lock), does not signal; that result waits for the next one.
ResultsDelivered ==
    \A r \in Reqs : (In(r, doneQueue) /\ ~clearPending /\ Signalling) ~> ~In(r, doneQueue)

\* A request on the request queue is taken by a thread: one signal for a whole
\* chain of requests is enough.
QueueDrains == \A r \in Reqs : In(r, requestQueue) ~> ~In(r, requestQueue)

\* A request that had to go to the overflow queue is executed without further
\* disk I/O: "There's no need to call aioCheckCallbacks() - this will happen
\* through the aio notification pipe" (store_dir_coss.c:329).
OverflowDrains == \A r \in Reqs : In(r, requestQueue2) ~> ~In(r, requestQueue2)
=============================================================================
