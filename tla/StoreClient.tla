---------------------------- MODULE StoreClient ----------------------------
(***************************************************************************)
(* One cache object on its way from the server to its readers:             *)
(* store_client.c, store_swapout.c, store_swapin.c, the transfer half of   *)
(* store.c and the flow control of forward.c.                              *)
(*                                                                         *)
(* The server side appends to the object in memory; storeSwapOut copies    *)
(* whole pages of it to a swap file; readers (store clients) are served    *)
(* from memory or from the file; what no reader needs is freed from        *)
(* memory, and the server is not read while the slowest reader is too far  *)
(* behind.  Readers join and leave, disk I/O completes or fails, and the   *)
(* object is released, while the transfer goes on.                         *)
(*                                                                         *)
(* The code is single threaded but re-entrant: a reader's callback runs in *)
(* the middle of InvokeHandlers or storeClientCopy and may call back into  *)
(* the store.  The C call stack is therefore a variable: an action runs    *)
(* the code up to the next callback and leaves the rest in stack.  A step  *)
(* of the event loop starts when the stack is empty.                       *)
(*                                                                         *)
(* Offsets are counted in units of which a page (SM_PAGE_SIZE) holds       *)
(* PageSize.  Data is identified by its offset, so what is modelled is     *)
(* which bytes are in memory, on disk and with each reader.                *)
(***************************************************************************)
EXTENDS Integers, Sequences, FiniteSetsExt

CONSTANTS Clients,          \* store clients
          None,             \* no client
          PageSize,         \* SM_PAGE_SIZE
          HdrSize,          \* size of the swap file's own header
          ReplyHdrSize,     \* size of the HTTP reply header, the object's first bytes
          MaxLen,           \* bound: length of the object
          MaxRead,          \* bound: what one read from the server brings
          ReadAheadGap,     \* Config.readAheadGap
          MaxInMemObjSize,  \* Config.Store.maxInMemObjSize
          MaxObjectSize,    \* Config.Store.maxObjectSize
          MinObjectSize,    \* Config.Store.minObjectSize
          ContentLengths,   \* the content lengths replies announce, -1 if none
          StoreMaxObjSize,  \* store_maxobjsize, -1 if no cache_dir has a max-size
          DiskFails,        \* TRUE: opens, reads and writes of the file may fail
          ServerMayFail,    \* TRUE: the server connection may fail
          EarlyClose,       \* TRUE: clients may leave before the end of the object
          QuickAborts,      \* TRUE: quick_abort may end a transfer nobody reads
          Pipelines,        \* TRUE: Config.onoff.pipeline_prefetch
          Purges            \* TRUE: memory pressure and purge requests

ASSUME StoreClientAssumption ==
    /\ None \notin Clients
    /\ PageSize \in Nat \ {0} /\ HdrSize \in 1..PageSize
    /\ ReplyHdrSize \in 1..PageSize /\ StoreMaxObjSize \in Nat \cup {-1}
    /\ {MaxLen, MaxRead, ReadAheadGap, MaxInMemObjSize, MaxObjectSize,
        MinObjectSize} \subseteq Nat
    /\ ContentLengths \subseteq Nat \cup {-1}
    /\ {DiskFails, ServerMayFail, EarlyClose, QuickAborts, Pipelines, Purges}
       \subseteq BOOLEAN

VARIABLES entry,    \* the StoreEntry, its MemObject and its swap file
          list,     \* mem->clients, from head to tail
          cl,       \* the store clients
          server,   \* "run" while a FwdState holds the entry
          stack     \* the pending rest of the running handler, top first

vars == <<entry, list, cl, server, stack>>

Flags == {"ENTRY_CACHABLE", "RELEASE_REQUEST", "KEY_PRIVATE", "ENTRY_ABORTED",
          "ENTRY_FWD_HDR_WAIT", "ENTRY_DEFER_READ"}

\* A client that is not registered.
Unregistered == [reg |-> FALSE, type |-> "MEM", hdr |-> FALSE, off |-> 0,
                 copy |-> 0, waiting |-> FALSE, io |-> "no", event |-> FALSE,
                 copying |-> FALSE, sio |-> "no", told |-> "no"]

\* An entry without memory object: only what is on disk is left.
NoMem(e) == [e EXCEPT !.mem = FALSE, !.inMemory = FALSE, !.lo = 0, !.hi = 0,
                      !.size = -1, !.hdr = 0, !.queue = 0, !.clen = -1]

Destroyed(e) == [NoMem(e) EXCEPT !.alive = FALSE, !.lock = 0, !.status = "OK",
                                 !.flags = {}, !.swap = "NONE", !.sio = FALSE,
                                 !.closing = FALSE, !.written = 0, !.queued = 0,
                                 !.filesz = 0]

\* A failed assertion: remembered, so that an invariant can deny it.
Asserted(e, cond, where) == IF cond THEN e ELSE [e EXCEPT !.failed = @ \cup {where}]

Frame(op, c, sz) == [op |-> op, c |-> c, sz |-> sz]
Call(op) == Frame(op, None, 0)

Idle == stack = <<>>
Top(op) == stack # <<>> /\ Head(stack).op = op

-----------------------------------------------------------------------------
(***************************************************************************)
(* The entry.  Each operator takes the entry (and the clients) before a    *)
(* call and gives the entry after it.                                      *)
(***************************************************************************)
Registered(k) == {c \in Clients : k[c].reg}

\* storeReleaseRequest and the storeSetPrivateKey in it.
ReleaseRequest(e) ==
    IF "RELEASE_REQUEST" \in e.flags THEN e
    ELSE [e EXCEPT !.flags = (@ \ {"ENTRY_CACHABLE"}) \cup {"RELEASE_REQUEST", "KEY_PRIVATE"}]

\* Mutant: the offset of the fastest reader is taken.
HighestReaderOffset(e, k) ==
    IF Registered(k) = {} THEN e.hi + 1 ELSE Max({k[c].copy : c \in Registered(k)})

\* Mutant: the type test is inverted, so the readers of memory do not count.
LowestOfDiskReaders(e, k) ==
    Min({e.hi + 1} \cup {k[c].copy : c \in {d \in Registered(k) :
                                             e.sio => k[d].type = "DISK"}})

\* storeLowestMemReaderOffset: clients that read from disk do not count
\* while the object is being written.
LowestMemReaderOffset(e, k) ==
    LET highest == Max({-1} \cup {k[c].copy : c \in Registered(k)})
        lowest  == Min({e.hi + 1} \cup
                       {k[c].copy : c \in {d \in Registered(k) :
                                             e.sio => k[d].type = "MEM"}})
    IN  IF highest < lowest /\ highest >= 0 THEN highest ELSE lowest

\* storeSwapOutObjectBytesOnDisk
ObjectBytesOnDisk(e) ==
    IF ~e.sio THEN e.queue ELSE Max({0, e.written - e.hdr})

\* storeSwapOutAble
SwapOutAble(e) ==
    /\ e.hi <= MaxObjectSize
    /\ "ENTRY_CACHABLE" \in e.flags
    /\ e.sio \/ (e.queue # 0 /\ e.queue = e.hi) \/ e.lo = 0

\* storeCheckTooSmall
TooSmall(e) ==
    \/ e.status = "OK" /\ e.size < MinObjectSize
    \/ e.clen > -1 /\ e.clen < MinObjectSize

\* The part of storeCheckCachable that looks at the entry only.  (What
\* storeComplete is told of is never of ENTRY_BAD_LENGTH: httpAppendBody
\* completes a reply when it has all of the announced length.)
Cachable(e) ==
    /\ "RELEASE_REQUEST" \notin e.flags
    /\ "ENTRY_CACHABLE" \in e.flags
    /\ e.clen <= MaxObjectSize /\ e.hi <= MaxObjectSize
    /\ ~TooSmall(e)
    /\ "KEY_PRIVATE" \notin e.flags

\* Mutant: the page of the target goes too.
FreeDataRoundsUp(e, target) ==
    Max({e.lo, PageSize * ((target + PageSize - 1) \div PageSize)})

\* stmemFreeDataUpto: whole pages go, the last page stays.
FreeDataUpto(e, target) ==
    Max({e.lo, Min({PageSize * (target \div PageSize),
                    PageSize * ((e.hi - 1) \div PageSize)})})

\* Mutants: memory is freed although it is not written yet; or one byte too
\* far, including the page the writer stands on.
TrimUnwritten(e, k, able) ==
    [e EXCEPT !.lo = FreeDataUpto(e, Max({@, LowestMemReaderOffset(e, k)}))]

TrimCurrentPage(e, k, able) ==
    LET want == IF able => Max({e.hi, e.clen}) > MaxInMemObjSize
                THEN LowestMemReaderOffset(e, k) ELSE e.lo
        new  == IF able THEN Min({want, ObjectBytesOnDisk(e)}) ELSE want
    IN  [e EXCEPT !.lo = FreeDataUpto(e, Max({new, @}))]

\* Memory before new goes; a smaller window lifts ENTRY_DEFER_READ.
FreeTo(e, lo) ==
    [e EXCEPT !.lo = lo,
              !.flags = IF e.hi - lo <= ReadAheadGap THEN @ \ {"ENTRY_DEFER_READ"} ELSE @]

TrimTo(e, new) == IF new = e.lo THEN e ELSE FreeTo(e, FreeDataUpto(e, new))

\* What is still to be written stays in memory.
CapToWritten(e, want, able) ==
    IF able /\ want # 0 THEN Min({want, ObjectBytesOnDisk(e) - 1}) ELSE want

\* The second half of storeSwapOutMaintainMemObject: free what no reader
\* needs and is not still to be written, once the object is or is announced
\* to be too large for memory.
Trim(e, k, able) ==
    LET want == IF able => Max({e.hi, e.clen}) > MaxInMemObjSize
                THEN LowestMemReaderOffset(e, k) ELSE e.lo
    IN  TrimTo(e, Max({CapToWritten(e, want, able), e.lo}))

\* storeRelease, when the store is not being rebuilt.
Release(e) ==
    IF e.lock > 0 \/ e.swap = "WRITING" \/ e.status = "PENDING"
    THEN ReleaseRequest(e)
    ELSE Destroyed(e)

\* storePurgeMem, with the assertion of destroy_MemObject.
ReleaseIfNotOnDisk(e) == IF e.swap = "DONE" THEN e ELSE Release(e)
PurgeMem(e) ==
    ReleaseIfNotOnDisk(NoMem(Asserted(e, ~e.sio, "destroy_MemObject: swapout.sio")))

\* Mutant: RELEASE_REQUEST is not looked at.
UnlockKeepsReleased(e, k) ==
    LET u == [e EXCEPT !.lock = @ - 1]
    IN  IF u.lock = 0 /\ u.hi > 0 /\ u.lo = 0 THEN [u EXCEPT !.inMemory = TRUE] ELSE u

\* storeUnlockObject drops the last lock.  The entry is used after
\* storePurgeMem, so that must not have released it.
StillThere(e) == Asserted(e, e.alive, "storeUnlockObject: use after release")

LastUnlock(e) ==
    IF "RELEASE_REQUEST" \in e.flags THEN Release(e)
    ELSE IF e.mem /\ e.hi > 0 /\ e.lo = 0 THEN [e EXCEPT !.inMemory = TRUE]
    ELSE StillThere(PurgeMem(e))

\* storeUnlockObject
Unlock(e, k) ==
    LET u == [e EXCEPT !.lock = @ - 1]
        v == [u EXCEPT !.flags = IF e.status = "PENDING"
                                 THEN @ \cup {"RELEASE_REQUEST"} ELSE @]
    IN  IF u.lock > 0 THEN u
        ELSE LastUnlock(Asserted(v, Registered(k) = {}, "storeUnlockObject: clients"))

\* Mutant: the lock of storeSwapOutStart is kept when the write failed.
FileClosedKeepsLock(e, k, err) ==
    IF err THEN ReleaseRequest([e EXCEPT !.swap = "NONE", !.sio = FALSE, !.closing = FALSE])
    ELSE Unlock([e EXCEPT !.swap = "DONE", !.filesz = e.size + e.hdr, !.sio = FALSE,
                          !.closing = FALSE], k)

\* storeSwapOutMaintainMemObject, when no swap file is open for writing.
TrimMemObject(e, k) ==
    IF e.inMemory THEN e
    ELSE IF SwapOutAble(e) THEN Trim(e, k, TRUE)
    ELSE Trim(ReleaseRequest(e), k, FALSE)

\* storeSwapOutFileClosed
ReleaseUnlessCachable(e) == IF Cachable(e) THEN e ELSE ReleaseRequest(e)
SwapOutResult(e, err) ==
    IF err THEN ReleaseRequest([e EXCEPT !.swap = "NONE"])
    ELSE ReleaseUnlessCachable([e EXCEPT !.swap = "DONE", !.filesz = e.size + e.hdr])
FileClosed(e, k, err) ==
    LET a == Asserted(e, e.swap = "WRITING", "storeSwapOutFileClosed: status")
    IN  Unlock(TrimMemObject([SwapOutResult(a, err) EXCEPT !.sio = FALSE, !.closing = FALSE], k), k)

\* storeSwapOutFileClose: at once if nothing is left to be written.
CloseIfWritten(e, k) == IF e.written = e.queued THEN FileClosed(e, k, FALSE) ELSE e
FileClose(e, k) ==
    IF e.sio THEN CloseIfWritten([e EXCEPT !.sio = FALSE, !.closing = TRUE], k) ELSE e

\* storeSwapOutMaintainMemObject
MaintainMemObject(e, k) ==
    IF e.inMemory \/ SwapOutAble(e) THEN TrimMemObject(e, k)
    ELSE Trim(FileClose(ReleaseRequest(e), k), k, FALSE)

\* storeSwapOutStart: the header is the first thing written.
SwapOutStart(e) ==
    [e EXCEPT !.swap = "WRITING", !.sio = TRUE, !.hdr = HdrSize, !.lock = @ + 1,
              !.written = 0, !.queued = HdrSize]

\* Mutant: only whole pages are written, at the end of the object too.
WriteWholePagesOnly(e, k) ==
    LET q == PageSize * (e.hi \div PageSize)
        w == [e EXCEPT !.queue = q, !.queued = @ + (q - e.queue)]
    IN  IF e.status = "OK" THEN FileClose(w, k) ELSE w

\* The write loop of storeSwapOut: whole pages, and the rest at the end.
\* It walks from the page written last to the next one.
WritePages(e, k) ==
    LET q == IF e.status = "PENDING" THEN PageSize * (e.hi \div PageSize) ELSE e.hi
        w == Asserted([e EXCEPT !.queue = q, !.queued = @ + (q - e.queue)],
                    e.queue = 0 \/ e.lo <= PageSize * ((e.queue - 1) \div PageSize),
                    "storeSwapOut: memnode freed")
    IN  IF e.status = "OK" THEN FileClose(w, k) ELSE w

\* The end of storeSwapOut, once memory is trimmed: start the file if it is
\* time to, and write.
SwapOutPages(e, k, how) ==
    LET size == e.hi - e.queue
        s    == Asserted(Asserted(e, ~e.sio, "storeSwapOut: swapout.sio"),
                         e.lo = 0, "storeSwapOut: inmem_lo")
    IN  IF size = 0 THEN IF e.status = "OK" THEN FileClose(e, k) ELSE e
        ELSE IF e.status = "PENDING" /\
                (size < PageSize \/ (how = "busy" /\ "ENTRY_DEFER_READ" \notin e.flags)) THEN e
        ELSE IF e.swap = "NONE" /\ "ENTRY_FWD_HDR_WAIT" \notin e.flags
             THEN IF ~Cachable(e) \/ how = "busy"
                  THEN MaintainMemObject(ReleaseRequest(s), k)
                  ELSE IF how = "nocreate" THEN [s EXCEPT !.hdr = HdrSize]
                  ELSE WritePages(SwapOutStart(s), k)
        ELSE IF ~e.sio THEN e
        ELSE WritePages(e, k)

\* storeSwapOut.  how: "yes" if a swap file can be created, "nocreate" if
\* no directory takes the object, "busy" if too many disk files are open.
SwapOut(e, k, how) ==
    IF ~e.mem THEN e
    ELSE IF "ENTRY_ABORTED" \in e.flags
         THEN FileClose(Asserted(e, "RELEASE_REQUEST" \in e.flags,
                                 "storeSwapOut: RELEASE_REQUEST"), k)
    ELSE IF e.status = "PENDING" /\ e.hi - e.queue < StoreMaxObjSize THEN e
    ELSE IF ~e.inMemory /\ ~SwapOutAble(e) THEN MaintainMemObject(e, k)
    ELSE SwapOutPages(TrimMemObject(e, k), k, how)

\* How an attempt to swap out may end.
Outcomes == IF DiskFails THEN {"yes", "nocreate", "busy"} ELSE {"yes"}

\* The same for a client that is served, if it has a file to open or
\* storeClientRef has to call storeSwapOut, and for one that leaves, when
\* storeSwapOut is tried if the object is complete and not on disk.
CopyOutcomes(c) ==
    IF cl[c].type = "DISK" \/ "ENTRY_DEFER_READ" \in entry.flags THEN Outcomes ELSE {"yes"}
LeaveOutcomes == IF entry.status = "OK" /\ entry.swap # "DONE" THEN Outcomes ELSE {"yes"}

\* What CheckQuickAbort2 may say of the lengths of a pending object.
QuickAbort == IF QuickAborts /\ entry.status = "PENDING" THEN BOOLEAN ELSE {FALSE}

-----------------------------------------------------------------------------
(***************************************************************************)
(* The clients.  A state s of the running handler has the entry s.e, the   *)
(* clients s.k, their list s.l and the stack s.st.                         *)
(***************************************************************************)
State == [e |-> entry, k |-> cl, l |-> list, st |-> stack]
Return == [State EXCEPT !.st = Tail(@)]
Become(s) == entry' = s.e /\ cl' = s.k /\ list' = s.l /\ stack' = s.st

Push(s, frames) == [s EXCEPT !.st = frames \o @]

\* storeClientCallback: the client is called with sz; the new_callback is
\* cleared before, so it may ask for more at once.
Callback(s, c, sz) ==
    Push([s EXCEPT !.k[c].waiting = FALSE,
                   !.e = Asserted(@, s.k[c].waiting, "storeClientCallback: new_callback")],
         <<Frame("callback", c, sz)>>)

\* Mutant: what is in memory so far is taken for the whole object.
NoMoreInMemory(e, sc) == e.hi > 0 /\ sc.copy >= e.hi

\* storeClientNoMoreToSend
NoMoreToSend(e, sc) == e.status = "OK" /\ e.size >= 0 /\ sc.copy >= e.size

\* storeClientFileRead
FileRead(s, c) ==
    LET e == s.e
        f == Asserted(e, s.k[c].io = "no", "storeClientFileRead: disk_io_pending")
        g == Asserted(f, (e.hdr # 0 /\ e.swap = "WRITING")
                         => ObjectBytesOnDisk(e) > s.k[c].copy,
                    "storeClientFileRead: not on disk")
    IN  [s EXCEPT !.e = g, !.k[c].io = IF e.hdr = 0 THEN "header" ELSE "body"]

\* The last part of storeClientCopy3: from memory (one page) or from disk.
CopyData(s, c) ==
    LET e    == s.e
        copy == s.k[c].copy
        end  == Min({e.hi, PageSize * (copy \div PageSize + 1)})
        m    == IF "RELEASE_REQUEST" \in e.flags THEN MaintainMemObject(e, s.k) ELSE e
    IN  IF copy >= e.lo /\ copy < e.hi
        THEN Callback([s EXCEPT !.e = m], c, end - copy)
        ELSE FileRead([s EXCEPT !.e = Asserted(e, s.k[c].type = "DISK",
                                             "storeClientCopy3: STORE_DISK_CLIENT")], c)

\* Mutant: a client that has seen everything never resumes the server.
Copy3NeverResumes(s, c, how) ==
    IF NoMoreToSend(s.e, s.k[c]) THEN Callback(s, c, 0)
    ELSE IF s.e.status = "PENDING" /\ s.k[c].copy >= s.e.hi THEN s
    ELSE CopyData(s, c)

\* storeClientCopy3.  how: "busy" if too many disk files are open,
\* "nocreate" if the swap file cannot be opened now.
Copy3(s, c, how) ==
    LET e  == s.e
        sc == s.k[c]
    IN  IF NoMoreToSend(e, sc) THEN Callback(s, c, 0)
        ELSE IF e.status = "PENDING" /\ sc.copy >= e.hi
             THEN IF LowestMemReaderOffset(e, s.k) = e.hi
                  THEN [s EXCEPT !.e.flags = @ \ {"ENTRY_DEFER_READ"}]
                  ELSE s
        ELSE IF sc.type = "DISK" /\ sc.sio = "no"
             THEN IF how = "busy" THEN Callback(s, c, -1)
                  ELSE IF sc.io # "no" THEN s
                  ELSE IF e.swap = "NONE" \/ how = "nocreate" THEN Callback(s, c, -1)
                  ELSE CopyData([s EXCEPT !.k[c].sio = "opening",
                                          !.e = Asserted(@, ~e.inMemory,
                                                       "storeSwapInStart: mem_status")], c)
        ELSE CopyData(s, c)

\* Mutant: a nested request schedules no storeClientCopyEvent.
Copy2Drops(s, c, how) ==
    IF s.k[c].copying \/ "ENTRY_FWD_HDR_WAIT" \in s.e.flags THEN s
    ELSE Copy3(Push([s EXCEPT !.k[c].copying = TRUE], <<Frame("copied", c, 0)>>), c, how)

\* storeClientCopy2: never two copies of one client at a time.
Copy2(s, c, how) ==
    IF s.k[c].event \/ "ENTRY_FWD_HDR_WAIT" \in s.e.flags THEN s
    ELSE IF s.k[c].copying THEN [s EXCEPT !.k[c].event = TRUE]
    ELSE LET a == Asserted(s.e, s.k[c].waiting, "storeClientCopy2: new_callback")
         IN  Copy3(Push([s EXCEPT !.e = a, !.k[c].copying = TRUE],
                        <<Frame("copied", c, 0)>>), c, how)

\* storeClientRef: the client asks for the data from its offset on.
Ref(s, c, how) ==
    LET r == [s EXCEPT !.k[c].copy = s.k[c].off, !.k[c].waiting = TRUE]
        d == IF "ENTRY_DEFER_READ" \in s.e.flags
             THEN [r EXCEPT !.e = SwapOut(r.e, r.k, how)] ELSE r
    IN  Copy2(d, c, how)

\* InvokeHandlers, from the head of the list.
InvokeHandlers(s) ==
    IF s.l = <<>> THEN s ELSE Push(s, <<Frame("invoke", Head(s.l), 0)>>)

\* storeAbort, when the last client has left.
Abort(e, k) ==
    LET a == ReleaseRequest([e EXCEPT !.lock = @ + 1])
        b == [a EXCEPT !.flags = @ \cup {"ENTRY_ABORTED"}, !.inMemory = FALSE,
                       !.status = "OK", !.size = e.hi]
    IN  Unlock(FileClose(b, k), k)

\* CheckQuickAbort.  quick: what CheckQuickAbort2 makes of the lengths.
CheckQuickAbort(e, k, quick) ==
    IF Registered(k) = {} /\ e.status = "PENDING" /\ (quick \/ "KEY_PRIVATE" \in e.flags)
    THEN Abort(e, k) ELSE e

\* The end of storeClientUnregister and the storeUnlockObject of its caller.
UnregisterRest(s, c, quick) ==
    LET k == [s.k EXCEPT ![c] = Unregistered]
        a == CheckQuickAbort(MaintainMemObject(s.e, k), k, quick)
    IN  [s EXCEPT !.k = k, !.e = Unlock(Unlock(a, k), k)]

\* storeClientUnregister: the client is taken off the list, its swap file is
\* closed, and if it still waits for data it is called with -1 (storeClose
\* calls it with 0 if it ends at once: the client does the same).
Unregister(s, c, how, quick) ==
    LET k == [s.k EXCEPT ![c].reg = FALSE]
        e == IF s.e.status = "OK" /\ s.e.swap # "DONE" THEN SwapOut(s.e, k, how) ELSE s.e
        l == [s EXCEPT !.e = e, !.l = SelectSeq(@, LAMBDA d : d # c),
                       !.k = [k EXCEPT ![c].sio = "no", ![c].io = "no", ![c].event = FALSE]]
    IN  IF s.k[c].waiting THEN Callback(Push(l, <<Frame("left", c, 0)>>), c, -1)
        ELSE UnregisterRest(l, c, quick)

\* storeClientType
ClientType(e, first) ==
    IF e.lo > 0 THEN "DISK"
    ELSE IF "ENTRY_ABORTED" \in e.flags THEN "MEM"
    ELSE IF e.status = "OK" THEN IF e.hi > 0 THEN "MEM" ELSE "DISK"
    ELSE IF first \/ e.swap = "NONE" THEN "MEM" ELSE "DISK"

\* The client of a hit: storeGet finds only public entries.
\* storeCreateMemObject, storeClientRegister, storeClientCopyHeaders.
MayHit(s, c) ==
    /\ s.e.alive /\ "KEY_PRIVATE" \notin s.e.flags /\ ~s.k[c].reg
    /\ \A i \in DOMAIN s.st : s.st[i].c # c
RegisterHit(s, c, how) ==
    LET sc == [Unregistered EXCEPT !.reg = TRUE, !.type = ClientType(s.e, s.l = <<>>)]
    IN  Ref([s EXCEPT !.e.lock = @ + 2, !.e.mem = TRUE, !.k[c] = sc, !.l = <<c>> \o @], c, how)

-----------------------------------------------------------------------------
(***************************************************************************)
(* The rest of a running handler: one action per kind of frame.            *)
(***************************************************************************)

\* One round of the loop of InvokeHandlers: the next node is read first.
InvokeHandler ==
    /\ Top("invoke")
    /\ \E how \in CopyOutcomes(Head(stack).c) :
          LET c    == Head(stack).c
              rest == {i \in 2..Len(list) : list[i - 1] = c}
              s    == Push([Return EXCEPT !.e = Asserted(@, cl[c].reg, "InvokeHandlers: node")],
                           IF rest = {} THEN <<>>
                           ELSE <<Frame("invoke", list[Max(rest)], 0)>>)
          IN  Become(IF cl[c].waiting /\ cl[c].io = "no" THEN Copy2(s, c, how) ELSE s)
    /\ UNCHANGED server

\* The end of storeClientCopy2.
Copied ==
    /\ Top("copied")
    /\ Become([Return EXCEPT !.k[Head(stack).c].copying = FALSE])
    /\ UNCHANGED server

\* What the client has after it was called with sz: the reply header, then
\* body; 0 is the end and -1 an error.
Received(sc, sz) ==
    IF sz < 0 \/ (sz = 0 /\ ~sc.hdr) THEN [sc EXCEPT !.told = "error"]
    ELSE IF sz = 0 THEN [sc EXCEPT !.told = "eof"]
    ELSE IF ~sc.hdr THEN [sc EXCEPT !.hdr = TRUE, !.off = ReplyHdrSize]
    ELSE [sc EXCEPT !.off = @ + sz]

\* The client's callback returns, having started to write what it got.
CallbackReturns ==
    /\ Top("callback")
    /\ LET f == Head(stack) IN Become([Return EXCEPT !.k[f.c] = Received(@, f.sz)])
    /\ UNCHANGED server

\* The callback asks for more before it returns.
CallbackRefs ==
    /\ Top("callback")
    /\ \E how \in CopyOutcomes(Head(stack).c) :
          LET f == Head(stack)
              s == [Return EXCEPT !.k[f.c] = Received(@, f.sz)]
          IN  /\ s.k[f.c].told = "no"
              /\ Become(Ref(s, f.c, how))
    /\ UNCHANGED server

\* The requests behind c on its connection: at most one, which comes before
\* c in the list.
Before(c) == {d \in Clients : \E i, j \in DOMAIN list : i < j /\ list[i] = d /\ list[j] = c}

\* The callback of a request that is not the first of its connection: the
\* answer is dropped until its turn comes (clientSendHeaders, clientCacheHit).
CallbackDefers ==
    /\ Top("callback") /\ Pipelines
    /\ LET c == Head(stack).c IN ~cl[c].hdr /\ \E d \in Clients : c \in Before(d)
    /\ Become(Return)
    /\ UNCHANGED server

\* The callback ends the request (httpRequestFree).
CallbackEnds ==
    /\ Top("callback") /\ cl[Head(stack).c].reg
    /\ EarlyClose \/ Head(stack).sz <= 0

CallbackCloses ==
    /\ CallbackEnds
    /\ \E how \in LeaveOutcomes, quick \in QuickAbort :
          Become(Unregister(Return, Head(stack).c, how, quick))
    /\ UNCHANGED server

\* It closes the connection, and the request behind goes with it (connStateFree).
CallbackClosesBoth ==
    /\ Pipelines /\ CallbackEnds
    /\ \E how \in LeaveOutcomes, quick \in QuickAbort, d \in Before(Head(stack).c) :
          Become(Unregister(Unregister(Return, Head(stack).c, how, quick), d, how, quick))
    /\ UNCHANGED server

\* It goes on with the request behind, or with the next one it finds in the
\* connection's buffer (clientKeepaliveNextRequest).
CallbackNextRequest ==
    /\ Pipelines /\ CallbackEnds
    /\ \E how \in Outcomes, quick \in QuickAbort :
          LET c == Head(stack).c
              s == Unregister(Return, c, how, quick)
          IN  \/ \E d \in Before(c) :
                    /\ ~cl[d].waiting /\ ~cl[d].hdr /\ cl[d].told = "no"
                    /\ Become(Ref(s, d, how))
              \/ \E d \in Clients \ {c} :
                    /\ Before(c) = {} /\ MayHit(s, d)
                    /\ Become(RegisterHit(s, d, how))
    /\ UNCHANGED server

\* The end of storeClientUnregister, after the last callback.
Left ==
    /\ Top("left")
    /\ \E quick \in QuickAbort : Become(UnregisterRest(Return, Head(stack).c, quick))
    /\ UNCHANGED server

\* The storeSwapOut after InvokeHandlers, in storeBufferFlush.
FlushSwapOut ==
    /\ Top("swapout")
    /\ \E how \in Outcomes : Become([Return EXCEPT !.e = SwapOut(@, cl, how)])
    /\ UNCHANGED server

\* storeComplete of a pending entry, up to InvokeHandlers.
Complete(s, how) ==
    LET e == [s.e EXCEPT !.flags = @ \ {"ENTRY_FWD_HDR_WAIT"}, !.status = "OK",
                         !.size = s.e.hi]
        a == Asserted(e, ~e.inMemory, "storeComplete: mem_status")
    IN  InvokeHandlers([s EXCEPT !.e = SwapOut(a, s.k, how)])

\* storeRequestFailed, up to InvokeHandlers: an error page if there is
\* nothing to send, else the entry is aborted.
RequestFailed(s) ==
    LET e == ReleaseRequest([Asserted(s.e, s.e.status = "PENDING", "storeRequestFailed: status")
                             EXCEPT !.lock = @ + 1])
    IN  IF e.hi = 0
        THEN InvokeHandlers(Push(
                [s EXCEPT !.e = [e EXCEPT !.flags = @ \ {"ENTRY_FWD_HDR_WAIT"}, !.lock = @ + 1,
                                          !.hi = ReplyHdrSize, !.total = ReplyHdrSize,
                                          !.clen = 0]],
                <<Call("swapout"), Call("errcomplete"), Call("failed")>>))
        ELSE Push([s EXCEPT !.e = [e EXCEPT !.flags = (@ \ {"ENTRY_FWD_HDR_WAIT"})
                                                      \cup {"ENTRY_ABORTED"}]],
                  <<Call("failed")>>)

\* The rest of httpAppendBody after the last read: nothing if a callback
\* aborted the entry, else fwdComplete, or comm_close on a short reply.
AppendBodyRest ==
    /\ Top("done") \/ Top("short")
    /\ \E how \in Outcomes :
          LET s == Push(Return, <<Call("fwdfree")>>)
          IN  Become(IF "ENTRY_ABORTED" \in entry.flags THEN Return
                     ELSE IF Top("done") THEN Complete(s, how)
                     ELSE RequestFailed(s))
    /\ UNCHANGED server

\* The storeComplete and storeUnlockObject at the end of errorAppendEntry.
ErrorComplete ==
    /\ Top("errcomplete")
    /\ \E how \in Outcomes :
          LET s == Push(Return, <<Call("unlock")>>)
          IN  Become(IF entry.status = "PENDING" THEN Complete(s, how)
                     ELSE [s EXCEPT !.e = Asserted(@, "ENTRY_ABORTED" \in entry.flags
                                                      /\ Registered(cl) = {}, "storeComplete")])
    /\ UNCHANGED server

ErrorUnlock ==
    /\ Top("unlock")
    /\ Become([Return EXCEPT !.e = Unlock(@, cl)])
    /\ UNCHANGED server

\* The middle of storeRequestFailed: the clients are told.
FailedNotify ==
    /\ Top("failed")
    /\ Become(InvokeHandlers(Push([Return EXCEPT !.e.status = "OK", !.e.size = entry.hi,
                                                 !.e.inMemory = FALSE],
                                  <<Call("aborted")>>)))
    /\ UNCHANGED server

\* The end of storeRequestFailed.
FailedClose ==
    /\ Top("aborted")
    /\ Become([Return EXCEPT !.e = Unlock(FileClose(@, cl), cl)])
    /\ UNCHANGED server

\* The end of fwdStateFree.
FwdFree(s) ==
    LET e == Asserted([s.e EXCEPT !.flags = @ \ {"ENTRY_DEFER_READ"}],
                    Registered(s.k) # {} => "ENTRY_FWD_HDR_WAIT" \notin s.e.flags,
                    "fwdStateFree: ENTRY_FWD_HDR_WAIT")
    IN  [s EXCEPT !.e = Unlock(Asserted(e, e.mem, "fwdStateFree: mem_obj"), s.k)]

FwdStateFree ==
    /\ Top("fwdfree")
    /\ Become(FwdFree(Return))
    /\ server' = "none"

-----------------------------------------------------------------------------
(***************************************************************************)
(* What the event loop starts.                                             *)
(***************************************************************************)

\* The client of a miss: storeCreateEntry, storeClientRegister,
\* storeClientCopyHeaders, fwdStart.
Miss(c) ==
    /\ Idle /\ ~entry.alive
    /\ Become([e  |-> [Destroyed(entry) EXCEPT
                         !.alive = TRUE, !.lock = 3, !.status = "PENDING", !.mem = TRUE,
                         !.total = 0,
                         !.flags = {"ENTRY_CACHABLE", "KEY_PRIVATE", "ENTRY_FWD_HDR_WAIT"}],
               k  |-> [cl EXCEPT ![c] = [Unregistered EXCEPT !.reg = TRUE, !.waiting = TRUE]],
               l  |-> <<c>>,
               st |-> <<>>])
    /\ server' = "run"

Hit(c) ==
    /\ Idle /\ MayHit(State, c)
    /\ \E how \in Outcomes : Become(RegisterHit(State, c, how))
    /\ UNCHANGED server

\* clientWriteComplete: the client asks for more.
ClientRef(c) ==
    /\ Idle /\ cl[c].reg /\ ~cl[c].waiting /\ cl[c].told = "no"
    /\ \E how \in CopyOutcomes(c) : Become(Ref(State, c, how))
    /\ UNCHANGED server

\* The client connection is closed, or the transfer is done.
ClientClose(c) ==
    /\ Idle /\ cl[c].reg
    /\ EarlyClose \/ cl[c].told # "no"
    /\ \E how \in LeaveOutcomes, quick \in QuickAbort :
          Become(Unregister(State, c, how, quick))
    /\ UNCHANGED server

\* storeClientCopyEvent
CopyEvent(c) ==
    /\ Idle /\ cl[c].event
    /\ \E how \in CopyOutcomes(c) :
          LET s == [State EXCEPT !.k[c].event = FALSE]
          IN  Become(IF cl[c].waiting THEN Copy2(s, c, how) ELSE s)
    /\ UNCHANGED server

\* fwdCheckDeferRead, for the server's connection.
MustDefer(e, k) ==
    \/ "ENTRY_DEFER_READ" \in e.flags
    \/ /\ "ENTRY_FWD_HDR_WAIT" \notin e.flags
       /\ \/ /\ "RELEASE_REQUEST" \in e.flags
             /\ e.hi - e.lo > PageSize + MaxInMemObjSize + ReadAheadGap
          \/ e.hi - LowestMemReaderOffset(e, k) > ReadAheadGap

ServerRunning == Idle /\ server = "run" /\ entry.status = "PENDING"

\* The first read holds the reply header, which decides whether the entry
\* gets a public key.  ENTRY_FWD_HDR_WAIT goes with the second read.
ParseReply(e, cachable, clen) ==
    LET r == [e EXCEPT !.clen = clen]
    IN  IF e.hi > 0 THEN [e EXCEPT !.flags = @ \ {"ENTRY_FWD_HDR_WAIT"}]
        ELSE IF ~cachable THEN ReleaseRequest(r)
        ELSE IF "ENTRY_CACHABLE" \in e.flags THEN [r EXCEPT !.flags = @ \ {"KEY_PRIVATE"}]
        ELSE r

\* httpReadReply with n bytes, up to the InvokeHandlers of storeBufferFlush.
\* fin: "done" if the reply is complete, "short" if the connection ends early.
\* A reply that announces its length is complete when it has it; the end of
\* one that does not is the end of the connection or the last chunk.
ServerRead(n, fin, cachable, clen) ==
    /\ ServerRunning /\ ~MustDefer(entry, cl)
    /\ entry.hi + n <= MaxLen
    /\ n = 0 => entry.hi > 0 /\ fin # "more"
    /\ fin = "short" => ServerMayFail
    /\ entry.hi > 0 => clen = entry.clen
    /\ clen >= 0 => /\ entry.hi + n <= ReplyHdrSize + clen
                    /\ fin = "done" <=> entry.hi + n = ReplyHdrSize + clen
    /\ LET p == ParseReply(entry, cachable, clen)
           s == Push([State EXCEPT !.e = [p EXCEPT !.hi = @ + n, !.total = @ + n]],
                     <<Call("swapout")>> \o IF fin = "more" THEN <<>> ELSE <<Call(fin)>>)
       IN  Become(InvokeHandlers(s))
    /\ UNCHANGED server

\* comm polls the connection and finds that it must not be read: storeDeferRead.
ServerDefers ==
    /\ ServerRunning /\ MustDefer(entry, cl)
    /\ "ENTRY_DEFER_READ" \notin entry.flags
    /\ entry' = [entry EXCEPT !.flags = @ \cup {"ENTRY_DEFER_READ"}]
    /\ UNCHANGED <<list, cl, server, stack>>

\* The connection fails or times out: fwdServerClosed, fwdStateFree.
ServerFails ==
    /\ ServerRunning /\ ServerMayFail
    /\ Become(RequestFailed(Push([State EXCEPT !.e.flags = @ \ {"ENTRY_DEFER_READ"}],
                                 <<Call("fwdfree")>>)))
    /\ UNCHANGED server

\* The event storeAbort scheduled: fwdAbort, fwdStateFree.
ServerAborted ==
    /\ Idle /\ server = "run" /\ "ENTRY_ABORTED" \in entry.flags
    /\ Become(FwdFree(State))
    /\ server' = "none"

\* The disk has written the next block.  The last one completes a close.
DiskWrite ==
    /\ Idle /\ entry.swap = "WRITING" /\ entry.written < entry.queued
    /\ LET w == IF entry.written = 0 THEN entry.hdr
                ELSE Min({entry.queued, entry.written + PageSize})
           e == [entry EXCEPT !.written = w]
       IN  entry' = IF e.closing /\ w = e.queued THEN FileClosed(e, cl, FALSE) ELSE e
    /\ UNCHANGED <<list, cl, server, stack>>

\* A write of the swap file fails.
DiskWriteFails ==
    /\ Idle /\ DiskFails /\ entry.swap = "WRITING" /\ entry.written < entry.queued
    /\ entry' = FileClosed(entry, cl, TRUE)
    /\ UNCHANGED <<list, cl, server, stack>>

\* storeClientReadHeader with len bytes of the swap file.
ReadHeader(s, c, len) ==
    LET m == [s EXCEPT !.e.hdr = HdrSize, !.e.size = s.e.filesz - HdrSize]
    IN  IF len < HdrSize THEN Callback(s, c, -1)
        ELSE IF s.k[c].copy < len - HdrSize THEN Callback(m, c, len - HdrSize)
        ELSE FileRead(m, c)

\* A read of the swap file is done: it returns what a thread found in the
\* file, which may hold a write that is not acknowledged yet.
ReadDone(c) ==
    /\ Idle /\ cl[c].reg /\ cl[c].io # "no" /\ cl[c].sio # "no"
    /\ \E end \in entry.written..entry.queued :
          LET pos == IF cl[c].io = "header" THEN 0 ELSE cl[c].copy + entry.hdr
              len == Max({0, Min({PageSize, end - pos})})
              s   == [State EXCEPT !.k[c].io = "no", !.k[c].sio = "open"]
          IN  Become(IF cl[c].io = "header" THEN ReadHeader(s, c, len) ELSE Callback(s, c, len))
    /\ UNCHANGED server

ReadFails(c) ==
    /\ Idle /\ DiskFails /\ cl[c].reg /\ cl[c].io # "no" /\ cl[c].sio # "no"
    /\ Become(Callback([State EXCEPT !.k[c].io = "no", !.k[c].sio = "open"], c, -1))
    /\ UNCHANGED server

\* The open of the swap file fails: storeSwapInFileClosed.  A read that was
\* waiting for it stays pending.
OpenFails(c) ==
    /\ Idle /\ DiskFails /\ cl[c].reg /\ cl[c].sio = "opening"
    /\ LET s == [State EXCEPT !.k[c].sio = "no", !.e = Release(@)]
       IN  Become(IF cl[c].waiting THEN Callback(s, c, -1) ELSE s)
    /\ UNCHANGED server

\* storeGetMemSpace purges an unused object that is held in memory.
GetMemSpace ==
    /\ Idle /\ Purges /\ entry.alive /\ entry.inMemory /\ entry.lock = 0
    /\ entry' = PurgeMem(entry)
    /\ UNCHANGED <<list, cl, server, stack>>

\* A PURGE request, a newer version or the replacement policy: storeRelease.
ReleaseEntry ==
    /\ Idle /\ Purges /\ entry.alive /\ "RELEASE_REQUEST" \notin entry.flags
    /\ entry' = Release(entry)
    /\ UNCHANGED <<list, cl, server, stack>>

-----------------------------------------------------------------------------
NoEntry == [alive |-> FALSE, lock |-> 0, status |-> "OK", flags |-> {}, inMemory |-> FALSE,
            mem |-> FALSE, lo |-> 0, hi |-> 0, size |-> -1, hdr |-> 0, queue |-> 0,
            sio |-> FALSE, swap |-> "NONE", filesz |-> 0, written |-> 0, queued |-> 0,
            closing |-> FALSE, total |-> 0, clen |-> -1, failed |-> {}]

Init ==
    /\ entry = NoEntry
    /\ list = <<>> /\ stack = <<>> /\ server = "none"
    /\ cl = [c \in Clients |-> Unregistered]

\* The running handler, up to its next callback.
Continue ==
    \/ InvokeHandler \/ Copied \/ CallbackReturns \/ CallbackRefs \/ CallbackCloses
    \/ CallbackDefers \/ CallbackClosesBoth \/ CallbackNextRequest \/ Left
    \/ FlushSwapOut \/ AppendBodyRest \/ ErrorComplete \/ ErrorUnlock
    \/ FailedNotify \/ FailedClose \/ FwdStateFree

ServerNext ==
    \/ \E n \in 0..MaxRead, fin \in {"more", "done", "short"}, cachable \in BOOLEAN,
          clen \in ContentLengths : ServerRead(n, fin, cachable, clen)
    \/ ServerDefers \/ ServerFails \/ ServerAborted

ClientNext == \E c \in Clients :
    \/ Miss(c) \/ Hit(c) \/ ClientRef(c) \/ ClientClose(c) \/ CopyEvent(c)
    \/ ReadDone(c) \/ ReadFails(c) \/ OpenFails(c)

Next == Continue \/ ServerNext \/ ClientNext
        \/ DiskWrite \/ DiskWriteFails \/ GetMemSpace \/ ReleaseEntry

Spec == Init /\ [][Next]_vars

-----------------------------------------------------------------------------
(***************************************************************************)
(* Fairness: the event loop runs handlers to their end, polls the server's *)
(* connection, delivers disk I/O and events, and a client that is sent     *)
(* something asks for more or closes.  Servers answer to the end: this is  *)
(* assumed only in the liveness properties.                                *)
(***************************************************************************)
ServerStep ==
    \/ \E n \in 0..MaxRead, fin \in {"more", "done"}, cachable \in BOOLEAN,
          clen \in ContentLengths : ServerRead(n, fin, cachable, clen)
    \/ ServerDefers \/ ServerAborted

\* What stays ready is served: the loop gets to every descriptor, event and
\* completed I/O, however many handlers it runs in between.
Fairness ==
    /\ []<>Idle \/ []<><<Continue>>_vars
    /\ \/ []<>~(server = "run" /\
                (entry.status = "PENDING" => "ENTRY_DEFER_READ" \notin entry.flags))
       \/ []<><<ServerStep>>_vars
    /\ \/ []<>~(entry.swap = "WRITING" /\ entry.written < entry.queued)
       \/ []<><<DiskWrite>>_vars
    /\ \A c \in Clients :
          /\ []<>~(cl[c].io # "no" /\ cl[c].sio # "no") \/ []<><<ReadDone(c)>>_vars
          /\ []<>~cl[c].event \/ []<><<CopyEvent(c)>>_vars
          /\ \/ []<>~(cl[c].reg /\ ~cl[c].waiting)
             \/ []<><<ClientRef(c) \/ (cl[c].told # "no" /\ ClientClose(c))>>_vars

FairSpec == Spec /\ Fairness

-----------------------------------------------------------------------------
(* Properties *)

\* Types of the state.
TypeOK ==
    /\ entry.alive \in BOOLEAN /\ entry.lock \in 0..(2 * Cardinality(Clients) + 4)
    /\ entry.status \in {"PENDING", "OK"} /\ entry.flags \subseteq Flags
    /\ entry.lo \in 0..entry.hi /\ entry.hi \in 0..MaxLen /\ entry.size \in -1..MaxLen
    /\ entry.queue \in 0..entry.hi /\ entry.written \in 0..entry.queued
    /\ entry.swap \in {"NONE", "WRITING", "DONE"}
    /\ \A c \in Clients :
          /\ cl[c].type \in {"MEM", "DISK"} /\ cl[c].off \in 0..MaxLen
          /\ cl[c].io \in {"no", "header", "body"}
          /\ cl[c].sio \in {"no", "opening", "open"}
          /\ cl[c].told \in {"no", "eof", "error"}
    /\ server \in {"run", "none"}

\* No assertion of store.c, store_client.c, store_swapout.c, store_swapin.c
\* or forward.c on the way of an object fails, whatever the interleaving of
\* server, readers, disk, failures and releases; among them: a page to be
\* written is still in memory, data that is not in memory is wanted by a
\* disk client only, a disk read is never started twice, a released entry
\* is not used.
NoAssertFails == entry.failed = {}

\* The next byte of a client that reads from memory has not been freed:
\* storeSwapOutMaintainMemObject never trims past such a client, although
\* it is called from other clients' requests, from disk callbacks and from
\* the server side.
MemClientCovered ==
    \A c \in Clients : cl[c].reg /\ cl[c].type = "MEM" => cl[c].copy >= entry.lo

\* The page swapout.memnode points to is not freed while the object is being
\* written, since storeSwapOut goes on from it ("The -1 makes sure the page
\* isn't freed until storeSwapOut has walked to the next page").
WriterPageKept ==
    entry.sio /\ entry.queue > 0 => entry.lo <= PageSize * ((entry.queue - 1) \div PageSize)

\* The lock count is what its holders add up to: two per client (the client
\* side's and the store client's), one each of the server side, an open swap
\* file, a running storeRequestFailed and a running errorAppendEntry.
LockAccounting ==
    LET Running(ops) == IF \E i \in DOMAIN stack : stack[i].op \in ops THEN 1 ELSE 0
    IN  entry.lock = 2 * (Cardinality(Registered(cl)) + Running({"left"}))
                     + (IF server = "run" THEN 1 ELSE 0)
                     + (IF entry.swap = "WRITING" THEN 1 ELSE 0)
                     + Running({"failed", "aborted"}) + Running({"errcomplete", "unlock"})

\* An entry nobody holds is complete, public and can be served: all of it is
\* in memory or in its swap file.  In particular no entry is left behind that
\* was to be released.
UnlockedIsServable ==
    entry.alive /\ entry.lock = 0 =>
        /\ entry.status = "OK" /\ entry.flags \cap {"RELEASE_REQUEST", "KEY_PRIVATE"} = {}
        /\ \/ entry.inMemory /\ entry.lo = 0 /\ entry.hi = entry.total
           \/ entry.swap = "DONE"

\* The swap file of an entry that may be hit is whole: header and every byte
\* of the object, and its recorded size is the file's.
SwapFileIsWhole ==
    entry.swap = "DONE" /\ "RELEASE_REQUEST" \notin entry.flags =>
        entry.filesz = HdrSize + entry.total /\ entry.written = entry.filesz

\* A client served from memory is told that the object ends only where it
\* ends, never where the transfer has got to.  If the server failed on the
\* way, or the reply was cut off before the length it announced, the entry is
\* marked ENTRY_ABORTED by then: that is what clientWriteComplete goes by when
\* it closes the connection, so that nobody takes the part for the whole.
NoFalseEOF ==
    \A c \in Clients : cl[c].type = "MEM" /\ cl[c].told = "eof" =>
        /\ cl[c].off = entry.total
        /\ \/ "ENTRY_ABORTED" \in entry.flags
           \/ entry.clen >= 0 => entry.total = ReplyHdrSize + entry.clen

\* A request for data is answered, or its client leaves.
ClientAnswered ==
    \A c \in Clients : (cl[c].reg /\ cl[c].waiting) ~> ~(cl[c].reg /\ cl[c].waiting)

\* A server connection that is not read because a client is too far behind
\* is read again, if no client leaves early.
DeferResumed ==
    "ENTRY_DEFER_READ" \in entry.flags ~> "ENTRY_DEFER_READ" \notin entry.flags

\* Data is read from the swap file only when it is there.  The comment on
\* store clients says "if the object is on disk, the data will be scheduled
\* for read via storeRead() when enough data is actually on the disk".  A
\* read that comes too early is short, and a short read is the end of the
\* object to the client.
ReadWhatIsWritten ==
    \A c \in Clients : cl[c].io = "body" => entry.written - entry.hdr > cl[c].copy

\* Not everybody waits for everybody: a state in which no handler, event or
\* disk I/O is pending and every client waits for more than there is has no
\* backed-off server connection.  storeClientCopy3 says "If the read is
\* backed off and all clients have seen all the data in memory, re-poll the fd".
RepolledWhenAllSeen ==
    LET Quiet   == /\ Idle /\ entry.written = entry.queued
                   /\ \A c \in Clients : ~cl[c].event /\ cl[c].io = "no"
        AllSeen == /\ entry.status = "PENDING" /\ Registered(cl) # {}
                   /\ \A c \in Registered(cl) : cl[c].waiting /\ cl[c].copy >= entry.hi
    IN  Quiet /\ AllSeen => "ENTRY_DEFER_READ" \notin entry.flags
=============================================================================
