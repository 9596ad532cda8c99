------------------------------- MODULE AufsIO -------------------------------
(***************************************************************************)
(* The handles on swap files: src/fs/aufs/store_io_aufs.c, over the thread *)
(* pool of libasyncio (modelled by Aiops).                                 *)
(*                                                                         *)
(* Opening, reading, writing and unlinking are requests to the pool: they  *)
(* return at once, some thread executes them later, in any order, and the  *)
(* main thread calls the completion handler later still.  Calls that come  *)
(* before their turn are queued in the handle (pending_reads,              *)
(* pending_writes, close_request).                                         *)
(*                                                                         *)
(* The model follows one file number: whoever is the object the number is  *)
(* allocated to, the handles opened on it one after the other, and the     *)
(* file of that name.  Handle h is used once, in turn; the object created  *)
(* through it is also called h.  The module's environment is the code that *)
(* calls the handles: store_swapout.c writes an object through one handle, *)
(* store_client.c reads it through others, and store.c releases it.        *)
(*                                                                         *)
(* s, in the operators below, is the main thread's state:                  *)
(*   s.sio[h]     storeIOState and squidaiostate_t of handle h             *)
(*   s.ops        requests handed to the pool and not yet delivered        *)
(*   s.unlinks    unlinks of the file handed to the pool                   *)
(*   s.owner      the object the file number is allocated to, or None      *)
(*   s.hdr        objects whose MemObject knows swap_hdr_sz                *)
(*   s.Opening_FD, s.store_open_disk_fd   the two counters                 *)
(***************************************************************************)
EXTENDS Integers, Sequences, FiniteSets

CONSTANTS MaxHandles,       \* bound: handles of a behaviour
          MaxWrites         \* bound: chunks written through a handle

ASSUME AufsIOAssumption == MaxHandles \in Nat /\ MaxWrites \in Nat \ {0}

VARIABLES
    st,         \* the main thread's state, described above
    dir,        \* the inode the file name leads to, or None
    holds,      \* holds[i]: the object whose data inode i holds
    disk        \* disk[h]: the chunks of object h that were written

vars == <<st, dir, holds, disk>>

Handles == 1..MaxHandles
None == 0

\* An inode is named after the object whose creation made it.
Inodes == Handles
Chunks == 1..MaxWrites

Closed(s, h) == s.sio[h].phase = "closed"
IsOpen(s, h) == s.sio[h].phase = "open"

\* Handles are taken in turn.
Unused(h) == /\ st.sio[h].phase = "unused"
             /\ \A g \in 1..(h - 1) : st.sio[g].phase # "unused"

NewHandle == [phase |-> "unused", mode |-> "none", obj |-> None, fd |-> None,
              opening |-> FALSE, writing |-> FALSE, reading |-> FALSE,
              inreaddone |-> FALSE, close_request |-> FALSE, closing |-> FALSE,
              pending_writes |-> <<>>, pending_read |-> FALSE,
              given |-> 0, offset |-> 0, result |-> "none"]

TypeOK ==
    /\ st.sio \in [Handles ->
         [phase : {"unused", "open", "closed"}, mode : {"none", "w", "r"},
          obj : Handles \cup {None}, fd : Inodes \cup {None},
          opening : BOOLEAN, writing : BOOLEAN, reading : BOOLEAN,
          inreaddone : {FALSE}, close_request : BOOLEAN, closing : BOOLEAN,
          pending_writes : Seq(Chunks), pending_read : BOOLEAN,
          given : 0..MaxWrites, offset : 0..MaxWrites,
          result : {"none", "ok", "failed"}]]
    /\ st.ops \subseteq
         [op : {"open", "read", "write"}, h : Handles, fd : Inodes \cup {None},
          n : 0..MaxWrites, state : {"queued", "ok", "error"},
          got : Handles \cup {None}, cancelled : BOOLEAN]
    /\ st.unlinks \in Nat
    /\ st.owner \in Handles \cup {None}
    /\ st.hdr \subseteq Handles
    /\ st.Opening_FD \in Int /\ st.store_open_disk_fd \in Int
    /\ dir \in Inodes \cup {None}
    /\ holds \in [Inodes -> Handles \cup {None}]
    /\ disk \in [Handles -> SUBSET Chunks]

Init ==
    /\ st = [sio |-> [h \in Handles |-> NewHandle], ops |-> {}, unlinks |-> 0,
             owner |-> None, hdr |-> {}, Opening_FD |-> 0, store_open_disk_fd |-> 0]
    /\ dir = None
    /\ holds = [i \in Inodes |-> None]
    /\ disk = [h \in Handles |-> {}]

-----------------------------------------------------------------------------
\* aioOpen, aioRead, aioWrite: a request for the pool.
Submit(s, h, op, n) ==
    [s EXCEPT !.ops = @ \cup
        {[op |-> op, h |-> h, fd |-> s.sio[h].fd, n |-> n,
          state |-> "queued", got |-> None, cancelled |-> FALSE]}]

\* storeAufsUnlink: the number is free at once, the file goes when a thread
\* gets to it.
storeAufsUnlink(s) == [s EXCEPT !.owner = None, !.unlinks = @ + 1]

\* aioClose cancels what is still in flight on the descriptor.
Cancel(ops, h) == {[o EXCEPT !.cancelled = @ \/ (o.h = h /\ o.op # "open")] : o \in ops}

\* storeSwapOutFileClosed with an error gives the file up; otherwise the close
\* callbacks (it and storeSwapInFileClosed) change nothing that is modelled here.
CloseCallback(s, h, result) ==
    IF s.sio[h].mode = "w" /\ result = "failed" THEN storeAufsUnlink(s) ELSE s

\* storeAufsIOCallback, with the queues emptied by storeAufsIOFreeEntry.
storeAufsIOCallback(s, h, result) ==
    LET x == s.sio[h] IN
    [CloseCallback(s, h, result) EXCEPT
        !.sio[h] = [x EXCEPT !.phase = "closed", !.fd = None, !.result = result,
                             !.pending_writes = <<>>, !.pending_read = FALSE],
        !.Opening_FD = IF x.opening THEN @ - 1 ELSE @,
        !.store_open_disk_fd = IF x.fd # None THEN @ - 1 ELSE @,
        !.ops = IF x.fd # None THEN Cancel(@, h) ELSE @]

NoWait(x) == FALSE

storeAufsNeedCompletetion(x) ==
    \/ x.writing
    \/ x.opening /\ x.mode = "w"
    \/ x.reading
    \/ x.inreaddone

\* storeClose, storeAufsClose
Close(s, h) ==
    LET x == [s.sio[h] EXCEPT !.closing = TRUE] IN
    IF storeAufsNeedCompletetion(x)
    THEN [s EXCEPT !.sio[h] = [x EXCEPT !.close_request = TRUE]]
    ELSE storeAufsIOCallback([s EXCEPT !.sio[h] = x], h, "ok")

storeAufsRead(s, h) ==
    IF s.sio[h].fd = None
    THEN [s EXCEPT !.sio[h].pending_read = TRUE]
    ELSE Submit([s EXCEPT !.sio[h].reading = TRUE], h, "read", 0)

EagerWrite(s, h, n) ==
    IF s.sio[h].fd = None
    THEN [s EXCEPT !.sio[h].pending_writes = Append(@, n)]
    ELSE Submit([s EXCEPT !.sio[h].writing = TRUE], h, "write", n)

storeAufsWrite(s, h, n) ==
    IF s.sio[h].fd = None \/ s.sio[h].writing
    THEN [s EXCEPT !.sio[h].pending_writes = Append(@, n)]
    ELSE Submit([s EXCEPT !.sio[h].writing = TRUE], h, "write", n)

storeAufsKickWriteQueue(s, h) ==
    LET q == s.sio[h].pending_writes IN
    storeAufsWrite([s EXCEPT !.sio[h].pending_writes = Tail(q)], h, Head(q))

storeAufsKickReadQueue(s, h) ==
    storeAufsRead([s EXCEPT !.sio[h].pending_read = FALSE], h)

-----------------------------------------------------------------------------
\* The file may be read for object o: it is swapped out, or part of its body (what
\* follows the first chunk, the metadata) counts as written and may be gone from
\* memory.  storeSwapOutObjectBytesOnDisk counts all that was queued once the
\* close is requested.
OnDisk(s, o) ==
    \/ s.sio[o].result = "ok"
    \/ s.sio[o].closing /\ s.sio[o].given > 1
    \/ s.sio[o].offset > 1

\* The open succeeded: fd_open, then the queued calls.
Opened(s, h) ==
    IF s.sio[h].mode = "w" /\ s.sio[h].pending_writes # <<>>
      THEN storeAufsKickWriteQueue(s, h)
    ELSE IF s.sio[h].mode = "r" /\ ~s.sio[h].close_request /\ s.sio[h].pending_read
      THEN storeAufsKickReadQueue(s, h)
    ELSE IF s.sio[h].close_request
      THEN storeAufsIOCallback(s, h, "ok")
      ELSE s

NoOpeningCount(s, h, o) ==
    IF o.state = "error"
    THEN storeAufsIOCallback([s EXCEPT !.Opening_FD = @ - 1], h, "failed")
    ELSE Opened([s EXCEPT !.Opening_FD = @ - 1, !.sio[h].opening = FALSE,
                          !.store_open_disk_fd = @ + 1, !.sio[h].fd = o.got], h)

storeAufsOpenDone(s, h, o) ==
    IF o.state = "error"
    THEN storeAufsIOCallback([s EXCEPT !.Opening_FD = @ - 1, !.sio[h].opening = FALSE],
                             h, "failed")
    ELSE Opened([s EXCEPT !.Opening_FD = @ - 1, !.sio[h].opening = FALSE,
                          !.store_open_disk_fd = @ + 1, !.sio[h].fd = o.got], h)

\* What the reader's callback does: storeClientReadHeader checks the metadata
\* and learns swap_hdr_sz when nobody knows it; then it may read on or close.
ReadCallback(s, h, o, then) ==
    LET t == [s EXCEPT !.hdr = IF o.state = "ok" /\ o.got = s.sio[h].obj
                               THEN @ \cup {o.got} ELSE @] IN
    CASE then = "read"  -> storeAufsRead(t, h)
      [] then = "close" -> Close(t, h)
      [] OTHER          -> t

LeaveReadDone(s, h, o) ==
    IF s.sio[h].close_request
    THEN storeAufsIOCallback(s, h, IF o.state = "ok" THEN "ok" ELSE "failed")
    ELSE s

\* The part of storeAufsReadDone up to the callback.
EnterReadDone(s, h, o, then) ==
    LET t == [s EXCEPT !.sio[h].reading = FALSE, !.sio[h].inreaddone = TRUE] IN
    IF s.sio[h].close_request THEN t ELSE ReadCallback(t, h, o, then)

StayInReadDone(s, h, o, then) ==
    LeaveReadDone(EnterReadDone(s, h, o, then), h, o)

storeAufsReadDone(s, h, o, then) ==
    LeaveReadDone([EnterReadDone(s, h, o, then) EXCEPT !.sio[h].inreaddone = FALSE], h, o)

\* A chunk is written: on with the queue, or with the close.
WriteNext(s, h) ==
    IF s.sio[h].pending_writes # <<>> THEN storeAufsKickWriteQueue(s, h)
    ELSE IF s.sio[h].close_request THEN storeAufsIOCallback(s, h, "ok")
    ELSE s

CloseFirst(s, h, o) ==
    IF o.state = "error"
    THEN storeAufsIOCallback([s EXCEPT !.sio[h].writing = FALSE], h, "failed")
    ELSE IF s.sio[h].close_request
    THEN storeAufsIOCallback([s EXCEPT !.sio[h].writing = FALSE,
                                       !.sio[h].offset = @ + 1], h, "ok")
    ELSE WriteNext([s EXCEPT !.sio[h].writing = FALSE, !.sio[h].offset = @ + 1], h)

NoKick(s, h, o) ==
    IF o.state = "error"
    THEN storeAufsIOCallback([s EXCEPT !.sio[h].writing = FALSE], h, "failed")
    ELSE [s EXCEPT !.sio[h].writing = FALSE, !.sio[h].offset = @ + 1]

storeAufsWriteDone(s, h, o) ==
    IF o.state = "error"
    THEN storeAufsIOCallback([s EXCEPT !.sio[h].writing = FALSE], h, "failed")
    ELSE WriteNext([s EXCEPT !.sio[h].writing = FALSE, !.sio[h].offset = @ + 1], h)

-----------------------------------------------------------------------------
\* Callers.

(* storeAufsCreate takes the number and asks for the file.  It would give  *)
(* up, with the number taken, when more than MAGIC2 requests are queued:   *)
(* storeDirSelectSwapDir does not choose a directory with such a load.     *)
storeAufsCreate(s, h) ==
    Submit([s EXCEPT !.sio[h] = [NewHandle EXCEPT !.phase = "open", !.mode = "w",
                                                  !.obj = h, !.opening = TRUE],
                     !.owner = h, !.Opening_FD = @ + 1], h, "open", 0)

\* storeSwapOutStart creates the file and writes the metadata.
storeSwapOutStart(h) ==
    /\ Unused(h) /\ st.owner = None
    /\ LET s == [storeAufsCreate(st, h) EXCEPT !.hdr = @ \cup {h}, !.sio[h].given = 1] IN
       st' = storeAufsWrite(s, h, 1)
    /\ UNCHANGED <<dir, holds, disk>>

\* storeAufsOpen, called by storeSwapInStart for an object that is written or
\* being written.
storeAufsOpen(h) ==
    /\ Unused(h) /\ st.owner # None
    /\ st' = Submit([st EXCEPT
                !.sio[h] = [NewHandle EXCEPT !.phase = "open", !.mode = "r",
                                             !.obj = st.owner, !.opening = TRUE],
                !.Opening_FD = @ + 1], h, "open", 0)
    /\ UNCHANGED <<dir, holds, disk>>

storeWrite(h) ==
    /\ IsOpen(st, h) /\ st.sio[h].mode = "w" /\ ~st.sio[h].closing
    /\ st.sio[h].given < MaxWrites
    /\ st' = storeAufsWrite([st EXCEPT !.sio[h].given = @ + 1], h, st.sio[h].given + 1)
    /\ UNCHANGED <<dir, holds, disk>>

\* storeClientFileRead: one read at a time, of what is on disk.
storeRead(h) ==
    /\ IsOpen(st, h) /\ st.sio[h].mode = "r" /\ ~st.sio[h].closing
    /\ ~st.sio[h].reading /\ ~st.sio[h].pending_read
    /\ OnDisk(st, st.sio[h].obj)
    /\ st' = storeAufsRead(st, h)
    /\ UNCHANGED <<dir, holds, disk>>

storeClose(h) ==
    /\ IsOpen(st, h) /\ ~st.sio[h].closing
    /\ st' = Close(st, h)
    /\ UNCHANGED <<dir, holds, disk>>

\* storeEntryLocked is false: the swapout is over and no reader is left (one
\* that has called storeClose has let go of the entry).
Unlocked(o) ==
    /\ Closed(st, o)
    /\ \A h \in Handles : st.sio[h].obj = o /\ IsOpen(st, h) => st.sio[h].closing

storeRelease ==
    /\ st.owner # None /\ Unlocked(st.owner)
    /\ st' = storeAufsUnlink([st EXCEPT !.hdr = @ \ {st.owner}])
    /\ UNCHANGED <<dir, holds, disk>>

\* The entry stays in the index, its MemObject goes.
destroy_MemObject ==
    /\ st.owner \in st.hdr /\ Unlocked(st.owner)
    /\ st' = [st EXCEPT !.hdr = @ \ {st.owner}]
    /\ UNCHANGED <<dir, holds, disk>>

-----------------------------------------------------------------------------
\* Threads.
Finish(o, state, got) ==
    st' = [st EXCEPT !.ops = (@ \ {o}) \cup {[o EXCEPT !.state = state, !.got = got]}]

Fails(o) == Finish(o, "error", None) /\ UNCHANGED <<dir, holds, disk>>

NoTrunc(o) ==
    LET i == IF dir = None THEN o.h ELSE dir IN
    /\ Finish(o, "ok", i)
    /\ dir' = i /\ holds' = [holds EXCEPT ![i] = IF @ = None THEN o.h ELSE @]
    /\ UNCHANGED disk

\* open with O_CREAT | O_TRUNC: the file that is there is emptied, or a new
\* one is made.
ExecuteCreate(o) ==
    LET i == IF dir = None THEN o.h ELSE dir IN
    /\ Finish(o, "ok", i)
    /\ dir' = i /\ holds' = [holds EXCEPT ![i] = o.h]
    /\ UNCHANGED disk

ExecuteOpen(o) ==
    /\ dir # None
    /\ Finish(o, "ok", dir)
    /\ UNCHANGED <<dir, holds, disk>>

ExecuteRead(o) ==
    /\ Finish(o, "ok", holds[o.fd])
    /\ UNCHANGED <<dir, holds, disk>>

ExecuteWrite(o) ==
    /\ Finish(o, "ok", None)
    /\ disk' = [disk EXCEPT ![o.h] = @ \cup {o.n}]
    /\ UNCHANGED <<dir, holds>>

Execute(o) ==
    /\ o.state = "queued"
    /\ \/ Fails(o)
       \/ o.op = "open" /\ st.sio[o.h].mode = "w" /\ ExecuteCreate(o)
       \/ o.op = "open" /\ st.sio[o.h].mode = "r" /\ ExecuteOpen(o)
       \/ o.op = "read" /\ ExecuteRead(o)
       \/ o.op = "write" /\ ExecuteWrite(o)

ExecuteUnlink ==
    /\ st.unlinks > 0
    /\ st' = [st EXCEPT !.unlinks = @ - 1]
    /\ dir' = None
    /\ UNCHANGED <<holds, disk>>

\* aioCheckCallbacks: the handler of a handle that was closed is not called
\* (a descriptor opened for it is closed).
Deliver(o) ==
    /\ o.state # "queued"
    /\ LET s == [st EXCEPT !.ops = @ \ {o}] IN
       \/ Closed(st, o.h) /\ st' = s
       \/ IsOpen(st, o.h) /\ o.op = "open" /\ st' = storeAufsOpenDone(s, o.h, o)
       \/ IsOpen(st, o.h) /\ o.op = "write" /\ st' = storeAufsWriteDone(s, o.h, o)
       \/ /\ IsOpen(st, o.h) /\ o.op = "read"
          /\ \E then \in {"nothing", "read", "close"} :
               /\ then = "read" => OnDisk(st, st.sio[o.h].obj)
               /\ st' = storeAufsReadDone(s, o.h, o, then)
    /\ UNCHANGED <<dir, holds, disk>>

Next ==
    \/ \E h \in Handles : storeSwapOutStart(h) \/ storeAufsOpen(h)
                          \/ storeWrite(h) \/ storeRead(h) \/ storeClose(h)
    \/ storeRelease \/ destroy_MemObject \/ ExecuteUnlink
    \/ \E o \in st.ops : Execute(o) \/ Deliver(o)

Spec == Init /\ [][Next]_vars

\* The pool executes every request and aioCheckCallbacks delivers every result.
Progress(h) ==
    \E o \in st.ops : o.h = h /\ (Execute(o) \/ Deliver(o))

FairSpec == Spec /\ \A h \in Handles : WF_vars(Progress(h))

-----------------------------------------------------------------------------
\* When a handle gives its descriptor up, nothing is in flight on it: aioCancel
\* ("Danger ahead!"), which frees the buffer of a request a thread may be
\* executing, never finds anything to cancel.
NothingCancelled == \A o \in st.ops : ~o.cancelled

\* Opening_FD and store_open_disk_fd, on which fdNFree and
\* storeTooManyDiskFilesOpen rely to refuse connections and caching, count the
\* handles that wait for their open and the descriptors that are open.
CountersExact ==
    /\ st.Opening_FD = Cardinality({h \in Handles : IsOpen(st, h) /\ st.sio[h].opening})
    /\ st.store_open_disk_fd = Cardinality({h \in Handles : st.sio[h].fd # None})

\* sio->offset, by which storeSwapOutMaintainMemObject frees memory and readers
\* turn to the file, never runs ahead of what the threads have written.
OffsetOnDisk == \A h \in Handles : 1..st.sio[h].offset \subseteq disk[h]

\* A reader whose open is executed once its object's file has been created gets
\* that file, however late the unlink of a former file of that name is: it can
\* at worst find no file.
FreshOpenIsRight ==
    [][\A o \in st.ops :
         /\ o.op = "open" /\ st.sio[o.h].mode = "r" /\ IsOpen(st, o.h)
         /\ Execute(o)
         /\ ~\E c \in st.ops : c.h = st.sio[o.h].obj /\ c.op = "open" /\ c.state # "ok"
         /\ st.owner = st.sio[o.h].obj
         => \A n \in st'.ops : n.h = o.h /\ n.state = "ok" => holds'[n.got] = st.sio[o.h].obj]_vars

\* The handles keep what StoreIO promises: one close callback, without an error
\* only if all that was given is in the file, and no answer after storeClose.
IO == INSTANCE StoreIO WITH
        phase <- [h \in Handles |->
                    CASE st.sio[h].phase = "unused" -> "unused"
                      [] IsOpen(st, h) -> IF st.sio[h].mode = "w" THEN "writing" ELSE "reading"
                      [] OTHER -> st.sio[h].result],
        given <- [h \in Handles |-> st.sio[h].given],
        stored <- disk,
        asked <- [h \in Handles |->
                    IsOpen(st, h) /\ (st.sio[h].reading \/ st.sio[h].pending_read)],
        closing <- [h \in Handles |-> st.sio[h].closing]

Promise == IO!Spec

\* storeClose is followed by the close callback, whatever was queued and whatever
\* fails.
CloseCompletes ==
    \A h \in Handles : st.sio[h].closing ~> Closed(st, h)

\* "Check the meta data and make sure we got the right object": what the reader of
\* an object that was swapped out without an error is given comes from the file of
\* that object.
RightObject ==
    \A o \in st.ops :
        /\ o.op = "read" /\ o.state = "ok" /\ ~st.sio[o.h].closing
        /\ st.sio[o.h].obj \in st.hdr /\ st.sio[st.sio[o.h].obj].result = "ok"
        => o.got = st.sio[o.h].obj
=============================================================================
