----------------------------- MODULE StoreIndex -----------------------------
(***************************************************************************)
(* The index of the cache and its log: src/store.c (keys, locks, release), *)
(* src/store_swapout.c (start and end of a swap out), src/store_io.c,      *)
(* src/store_rebuild.c and src/fs/aufs (file map, swap log, rebuild).      *)
(*                                                                         *)
(* Store entries live in a hash table under a public key, where requests   *)
(* find them, or a private one.  An entry with a swap file keeps a bit of  *)
(* the directory's file map set.  The swap log (swap.state) records ADD    *)
(* and DEL of public entries with a file; after a crash a helper process   *)
(* sends the old log and the index is rebuilt from it, record by record,   *)
(* while requests are served and a new log (swap.state.new) is written.    *)
(*                                                                         *)
(* Every action runs inside the event loop and is atomic.  A private key   *)
(* is unique, so it is modelled by the absence of a public one; the choice *)
(* of a free file number (file_map_allocate) is any choice.  The contents  *)
(* of the swap files are not modelled: reading one may fail at any time.   *)
(***************************************************************************)
EXTENDS Integers, FiniteSets, Sequences

CONSTANTS Keys,       \* public keys: MD5 of method and URL
          Files,      \* file numbers of the cache_dir
          File0,      \* file number 0
          NoKey,      \* no public key
          NoFile,     \* swap_filen = -1
          Entries,    \* addresses of StoreEntry structures
          MaxTime,    \* bound on squid_curtime, which moves with a restart
          MaxLog,     \* bound on the log written: requests wait when it is reached
          MaxMisses,  \* bound on the entries created by requests
          MaxWork     \* bound on restarts and entries created together

ASSUME StoreIndexAssumption ==
    /\ File0 \in Files
    /\ NoFile \notin Files /\ NoKey \notin Keys
    /\ MaxTime \in Nat /\ MaxLog \in Nat /\ MaxMisses \in Nat /\ MaxWork \in Nat
    /\ IsFiniteSet(Entries) /\ IsFiniteSet(Files)

VARIABLES ent,      \* ent[e]: the StoreEntry at address e
          map,      \* the file map: numbers whose bit is set
          log,      \* the log being written
          size,     \* n_disk_objects, the count beside store_swap_size
          old,      \* the log the rebuild reads
          phase,    \* store_dirs_rebuilding: 2 "replay", 1 "validate", 0 "up"
          rd,       \* the rebuild's read buffer: see RebuildRecord
          now,      \* squid_curtime: the number of restarts
          touched,  \* history: keys and files in use since the start
          misses    \* number of entries created by requests

vars == <<ent, map, log, size, old, phase, rd, now, touched, misses>>

(* Who holds a lock: lock_count is the number of holders.  The client and  *)
(* the forwarding side each hold one, the swap out one from its start to   *)
(* its end, and the late-release stack one.                                *)
Holders == {"client", "fwd", "swapout", "late"}

Entry == [live : BOOLEAN,                           \* allocated
          key : Keys \cup {NoKey}, pub : BOOLEAN,   \* ~pub is KEY_PRIVATE
          filen : Files \cup {NoFile},
          swap : {"none", "writing", "done"},       \* swap_status
          pending : BOOLEAN,                        \* STORE_PENDING
          locks : SUBSET Holders,
          rel : BOOLEAN,                            \* RELEASE_REQUEST
          valid : BOOLEAN,                          \* ENTRY_VALIDATED
          lastref : 0..MaxTime]

Record == [op : {"ADD", "DEL"}, key : Keys, filen : Files, lastref : 0..MaxTime]

NoEntry == [live |-> FALSE, key |-> NoKey, pub |-> FALSE,
            filen |-> NoFile, swap |-> "none", pending |-> FALSE,
            locks |-> {}, rel |-> FALSE, valid |-> FALSE,
            lastref |-> 0]

\* Nothing read yet of the old log.
NothingRead == [start |-> 0, used |-> 0, done |-> 0, busy |-> FALSE]

\* An entry whose file is complete and validated.
OnDisk(k, f) == [NoEntry EXCEPT !.live = TRUE, !.key = k, !.pub = TRUE, !.filen = f,
                                !.swap = "done", !.valid = TRUE]

(* The index of an empty cache_dir, or of one with a single object, has    *)
(* been read.                                                              *)
Init ==
    /\ \/ /\ ent = [e \in Entries |-> NoEntry]
          /\ map = {} /\ log = <<>> /\ size = 0
       \/ \E e \in Entries, k \in Keys, f \in Files :
             /\ ent = [d \in Entries |-> IF d = e THEN OnDisk(k, f) ELSE NoEntry]
             /\ map = {f} /\ size = 1
             /\ log = <<[op |-> "ADD", key |-> k, filen |-> f, lastref |-> 0]>>
    /\ old = <<>> /\ phase = "up" /\ rd = NothingRead
    /\ now = 0 /\ touched = {} /\ misses = 0

-----------------------------------------------------------------------------
(* The functions of the store as operators on the part of the state they   *)
(* share, a record with the fields ent, map, log, size.                    *)
Store == [ent |-> ent, map |-> map, log |-> log, size |-> size]

Becomes(s) ==
    /\ ent' = s.ent /\ map' = s.map /\ log' = s.log /\ size' = s.size

Rebuilding == phase # "up"

\* storeEntryLocked
storeEntryLocked(x) == x.locks # {} \/ x.swap = "writing" \/ x.pending

\* storeGet of a public key: the entries found under k.
storeGet(s, k) == {e \in Entries : s.ent[e].live /\ s.ent[e].pub /\ s.ent[e].key = k}

\* storeDirSwapLog, storeAufsDirSwapLog
storeDirSwapLog(s, e, op) ==
    [s EXCEPT !.log = Append(@, [op |-> op, key |-> s.ent[e].key,
                                 filen |-> s.ent[e].filen,
                                 lastref |-> s.ent[e].lastref])]

\* Mutant: the deletion is not logged.
storeSetPrivateKeyUnlogged(s, e) == [s EXCEPT !.ent[e].pub = FALSE]

(* The log record is written before the entry loses its public key.  It    *)
(* never gets one again: every caller modelled here requests its release.  *)
(* Nothing reads the lastref of an entry that cannot be found.             *)
storeSetPrivateKey(s, e) ==
    IF ~s.ent[e].pub THEN s
    ELSE [(IF s.ent[e].filen # NoFile THEN storeDirSwapLog(s, e, "DEL") ELSE s)
          EXCEPT !.ent[e].pub = FALSE, !.ent[e].key = NoKey, !.ent[e].lastref = 0]

storeReleaseRequest(s, e) ==
    IF s.ent[e].rel THEN s
    ELSE storeSetPrivateKey([s EXCEPT !.ent[e].rel = TRUE], e)

\* storeAufsUnlink: the bit is cleared at once, the file goes later.
storeUnlink(s, e) == [s EXCEPT !.map = @ \ {s.ent[e].filen}]

Destroy(s, e) == [s EXCEPT !.ent[e] = NoEntry]

\* storeRelease while the cache is rebuilt: the file keeps its number.
ReleaseLate(s, e) ==
    [storeSetPrivateKey(s, e) EXCEPT !.ent[e].rel = TRUE,
                                     !.ent[e].locks = @ \cup {"late"}]

\* Is this entry's file counted in store_swap_size?
Counted(x) == x.live /\ x.filen # NoFile /\ x.swap = "done" /\ x.valid

\* Mutant: the size is lowered for an entry that was never counted.
ReleaseNowUnchecked(s, e) ==
    IF s.ent[e].filen = NoFile THEN Destroy(s, e)
    ELSE Destroy([storeUnlink(IF s.ent[e].pub THEN storeDirSwapLog(s, e, "DEL")
                              ELSE s, e) EXCEPT !.size = @ - 1], e)

\* storeRelease of an entry that is not locked and may be deleted now.
ReleaseNow(s, e) ==
    IF s.ent[e].filen = NoFile THEN Destroy(s, e)
    ELSE Destroy([storeUnlink(IF s.ent[e].pub THEN storeDirSwapLog(s, e, "DEL")
                              ELSE s, e)
                  EXCEPT !.size = IF Counted(s.ent[e]) THEN @ - 1 ELSE @], e)

storeRelease(s, e) ==
    IF storeEntryLocked(s.ent[e]) THEN storeReleaseRequest(s, e)
    ELSE IF Rebuilding /\ s.ent[e].filen # NoFile THEN ReleaseLate(s, e)
    ELSE ReleaseNow(s, e)

(* storeUnlockObject by holder h.  With the last lock gone the entry is    *)
(* released if that was requested; else its memory is kept (storeKeepIn-   *)
(* Memory) or purged, and an entry without a complete file goes with it.   *)
LastUnlock(s, e, keep) ==
    IF s.ent[e].locks # {} THEN s
    ELSE IF s.ent[e].rel \/ (~keep /\ s.ent[e].swap # "done")
         THEN storeRelease(s, e)
    ELSE s

storeUnlockObject(s, e, h, keep) ==
    LastUnlock([s EXCEPT !.ent[e].locks = @ \ {h}], e, keep)

\* The entry found under the key is made private and released.
Displace(s, e) == storeRelease(storeSetPrivateKey(s, e), e)

\* Mutant: the entry under the key stays.
DisplaceNone(s, found) == s

DisplaceAny(s, found) ==
    IF found = {} THEN s ELSE Displace(s, CHOOSE e \in found : TRUE)

PutPublic(s, e) ==
    IF s.ent[e].filen # NoFile
    THEN storeDirSwapLog([s EXCEPT !.ent[e].pub = TRUE], e, "ADD")
    ELSE [s EXCEPT !.ent[e].pub = TRUE]

storeSetPublicKey(s, e) ==
    IF s.ent[e].pub THEN s
    ELSE PutPublic(DisplaceAny(s, storeGet(s, s.ent[e].key)), e)

-----------------------------------------------------------------------------
\* What a log says is in the cache: the last record of a key decides.
Logged(q) == {<<q[i].key, q[i].filen>> : i \in
                {i \in DOMAIN q : /\ q[i].op = "ADD"
                                  /\ \A j \in DOMAIN q : j > i => q[j].key # q[i].key}}

\* The history of a rebuild: the keys of the old log that requests have used
\* since the start, and the files, with that of the entry under such a key.
Note(things) ==
    touched' = touched \cup (things \cap UNION {{o[1], o[2]} : o \in Logged(old)})

Touch(k) == Note({k} \cup {ent[e].filen : e \in storeGet(Store, k)})

-----------------------------------------------------------------------------
(* Requests.                                                               *)

\* The event loop is in no handler of the rebuild.
Idle == ~rd.busy

Live(e) == Idle /\ ent[e].live /\ Len(log) < MaxLog

\* storeKeepInMemory is asked when the last lock goes, that of h.
KeepAsked(e, h) == IF ent[e].locks = {h} THEN BOOLEAN ELSE {FALSE}

Unmoved == UNCHANGED <<old, phase, rd, now, misses>>

\* storeCreateEntry for a miss.
NewEntry(k) == [NoEntry EXCEPT !.live = TRUE, !.key = k, !.pending = TRUE,
                               !.locks = {"client", "fwd"}, !.valid = TRUE,
                               !.lastref = now]

(* Bound on the addresses: while the log is replayed one is kept for every *)
(* file, so that a record always finds a free one.                         *)
Room ==
    LET taken == {e \in Entries : ent[e].live /\ (phase = "replay" => ent[e].valid)}
    IN  Cardinality(taken) + (IF phase = "replay" THEN Cardinality(Files) ELSE 0)
            < Cardinality(Entries)

NoteCachable(s, e, cachable) == IF cachable THEN s ELSE storeReleaseRequest(s, e)

CreateIn(s, e, cachable, public) ==
    NoteCachable(IF public THEN storeSetPublicKey(s, e) ELSE s, e, cachable)

storeCreateEntry(e, k, cachable, public) ==
    /\ Idle /\ ~ent[e].live /\ Len(log) < MaxLog
    /\ misses < MaxMisses /\ misses + now < MaxWork
    /\ Room
    /\ Becomes(CreateIn([Store EXCEPT !.ent[e] = NewEntry(k)], e, cachable, public))
    /\ IF public THEN Touch(k) ELSE UNCHANGED touched
    /\ misses' = misses + 1
    /\ UNCHANGED <<old, phase, rd, now>>

\* httpMakePublic: a cachable reply gets the public key.
httpMakePublic(e) ==
    /\ Live(e) /\ ent[e].pending /\ ~ent[e].rel /\ ent[e].swap = "none"
    /\ Becomes(storeSetPublicKey(Store, e))
    /\ Touch(ent[e].key)
    /\ Unmoved

\* httpMakePrivate, and storeCheckCachable when it refuses the entry.
httpMakePrivate(e) ==
    /\ Live(e) /\ ent[e].pending /\ ~ent[e].rel
    /\ Becomes(storeReleaseRequest(Store, e))
    /\ Touch(ent[e].key)
    /\ Unmoved

\* storeComplete: the reply is complete; the forwarding side drops its lock.
storeComplete(e, keep) ==
    /\ Live(e) /\ ent[e].pending
    /\ Becomes(storeUnlockObject([Store EXCEPT !.ent[e].pending = FALSE], e, "fwd", keep))
    /\ Touch(ent[e].key)
    /\ Unmoved

\* storeAbort, storeRequestFailed, and the end of the forwarding side.
storeAbort(e) ==
    /\ Live(e) /\ ent[e].pending
    /\ Becomes(storeUnlockObject([storeReleaseRequest(Store, e)
                                  EXCEPT !.ent[e].pending = FALSE], e, "fwd", FALSE))
    /\ Touch(ent[e].key)
    /\ Unmoved

(* A hit: the entry is found and locked.  One holder stands for all of the *)
(* entry's clients.                                                        *)
clientHit(e) ==
    /\ Live(e) /\ ent[e].pub
    /\ ent' = [ent EXCEPT ![e].locks = @ \cup {"client"}, ![e].lastref = now]
    /\ Touch(ent[e].key)
    /\ UNCHANGED <<map, log, size>> /\ Unmoved

clientLeaves(e, keep) ==
    /\ Live(e) /\ "client" \in ent[e].locks
    /\ Becomes(storeUnlockObject(Store, e, "client", keep))
    /\ Touch(ent[e].key)
    /\ Unmoved

\* storeSwapInFileClosed: the file of a hit cannot be read.
storeSwapInFails(e) ==
    /\ Live(e) /\ "client" \in ent[e].locks /\ ent[e].swap = "done" /\ ent[e].valid
    /\ Becomes(storeRelease(Store, e))
    /\ Touch(ent[e].key)
    /\ Unmoved

\* clientPurgeRequest, httpRemovePublicByHeader, storeMaintainSwapSpace,
\* storeGetMemSpace: a public entry is released.
releasePublic(e) ==
    /\ Live(e) /\ ent[e].pub
    /\ Becomes(storeRelease(Store, e))
    /\ Touch(ent[e].key)
    /\ Unmoved

-----------------------------------------------------------------------------
(* Swap out.                                                               *)

\* storeSwapOutStart, storeAufsCreate: number f is allocated.
storeSwapOutStart(e, f) ==
    /\ Live(e) /\ ent[e].pending /\ ent[e].swap = "none"
    /\ ent[e].pub /\ ~ent[e].rel
    /\ f \notin map
    /\ ent' = [ent EXCEPT ![e].swap = "writing", ![e].filen = f,
                          ![e].locks = @ \cup {"swapout"}, ![e].lastref = now]
    /\ map' = map \cup {f}
    /\ Note({f})
    /\ UNCHANGED <<log, size>> /\ Unmoved

\* Number 0 is not unlinked and keeps its bit.
SwapOutFailed(s, e) ==
    storeReleaseRequest(
        [(IF s.ent[e].filen # File0 THEN storeUnlink(s, e) ELSE s)
         EXCEPT !.ent[e].filen = NoFile, !.ent[e].swap = "none"], e)

\* Mutant: an entry that lost its key meanwhile is logged.
LogAlways(s, e, ok) == storeDirSwapLog(s, e, "ADD")

\* storeCheckCachable: released, private, or refused for its size or reply.
LogIfCachable(s, e, ok) ==
    IF ok /\ s.ent[e].pub /\ ~s.ent[e].rel THEN storeDirSwapLog(s, e, "ADD")
    ELSE storeReleaseRequest(s, e)

\* Mutant: the object is not counted.
SwapOutDoneUncounted(s, e, ok) == LogIfCachable([s EXCEPT !.ent[e].swap = "done"], e, ok)

SwapOutDone(s, e, ok) ==
    LogIfCachable([s EXCEPT !.ent[e].swap = "done", !.size = @ + 1], e, ok)

\* The file is closed after an error, or when the entry is complete or is
\* no longer wanted on disk.
storeSwapOutFileClosed(e, result, keep) ==
    /\ Live(e) /\ ent[e].swap = "writing"
    /\ result = "error" \/ ~ent[e].pending \/ ent[e].rel
    /\ Becomes(storeUnlockObject(IF result = "error" THEN SwapOutFailed(Store, e)
                                 ELSE SwapOutDone(Store, e, result = "cachable"),
                                 e, "swapout", keep))
    /\ Touch(ent[e].key)
    /\ Unmoved

-----------------------------------------------------------------------------
(* Crash and rebuild.                                                      *)

(* The process dies and is started again: a rebuild that was not finished  *)
(* leaves the old log in place.  The parent sleeps before it restarts the  *)
(* child, so the clock has moved on.                                       *)
Crash ==
    /\ now < MaxTime /\ misses + now < MaxWork
    /\ now' = now + 1
    /\ old' = IF phase = "replay" THEN old ELSE log
    /\ log' = <<>> /\ ent' = [e \in Entries |-> NoEntry] /\ map' = {} /\ size' = 0
    /\ phase' = "replay" /\ rd' = NothingRead /\ touched' = {}
    /\ UNCHANGED misses

\* Mutant: the bit stays set.
RecycledKeepsBit(s, e) == [storeReleaseRequest(s, e) EXCEPT !.ent[e].filen = NoFile]

\* storeRecycle: the entry goes, its file stays for a later record.
Recycled(s, e) ==
    [storeReleaseRequest(s, e) EXCEPT !.map = @ \ {s.ent[e].filen},
                                      !.ent[e].filen = NoFile]

storeRecycle(s, e) ==
    storeRelease(IF s.ent[e].filen # NoFile /\ ~storeEntryLocked(s.ent[e])
                 THEN Recycled(s, e) ELSE s, e)

\* Mutant: a deletion of the same second is ignored.
ReplayDelStrict(s, r, found) ==
    IF \E e \in found : r.lastref > s.ent[e].lastref
    THEN storeRecycle(s, CHOOSE e \in found : r.lastref > s.ent[e].lastref)
    ELSE s

ReplayDel(s, r, found) ==
    IF \E e \in found : r.lastref >= s.ent[e].lastref
    THEN storeRecycle(s, CHOOSE e \in found : r.lastref >= s.ent[e].lastref)
    ELSE s

\* storeAufsDirAddDiskRestore
AddDiskRestore(s, r, x) ==
    storeDirSwapLog(
        [s EXCEPT !.ent[x] = [NoEntry EXCEPT !.live = TRUE, !.key = r.key,
                                 !.pub = TRUE, !.filen = r.filen,
                                 !.swap = "done", !.lastref = r.lastref],
                  !.map = @ \cup {r.filen}], x, "ADD")

\* Mutant: the file map is not consulted.
ReplayAddBlind(s, r, x, found, newer) ==
    IF found = {} THEN AddDiskRestore(s, r, x) ELSE s

(* A record whose file is in use is ignored.  The code would update the    *)
(* metadata of the entry under the key if it had this file and were older  *)
(* than the record: LogIsHistory says that no such record comes.           *)
ReplayAdd(s, r, x, found, newer) ==
    IF r.filen \in s.map THEN s
    ELSE IF found = {} THEN AddDiskRestore(s, r, x)
    ELSE IF newer
         THEN AddDiskRestore(storeRecycle(s, CHOOSE e \in found : TRUE), r, x)
    ELSE s

\* storeAufsDirRebuildFromSwapLogObject
Replay(s, r, x, found) ==
    IF r.op = "DEL" THEN ReplayDel(s, r, found)
    ELSE ReplayAdd(s, r, x, found, \E e \in found : r.lastref > s.ent[e].lastref)

(* storeAufsRebuildHelperRead, record by record; nothing else runs while   *)
(* it is busy.  The buffer holds the records after start; a read adds to   *)
(* the ones up to used, and the buffer is processed from its start.  It is *)
(* emptied only if it ends within a record: after a read that ends between *)
(* two records everything stays and is processed again with the next, as   *)
(* often as reads end so.                                                  *)
Last == IF Idle THEN rd.start ELSE rd.done

BufferEnds(at, end) ==
    \/ /\ end = "more"
       /\ rd' = [rd EXCEPT !.done = at, !.busy = TRUE]
    \/ /\ end = "between" /\ at > rd.used
       /\ rd' = [rd EXCEPT !.used = at, !.done = at, !.busy = FALSE]
    \/ /\ end = "within" /\ at >= rd.used
       /\ rd' = [start |-> at, used |-> at, done |-> at, busy |-> FALSE]

RebuildRecord(x, end) ==
    /\ phase = "replay" /\ Last < Len(old)
    /\ ~ent[x].live \/ \A y \in Entries : ent[y].live
    /\ BufferEnds(Last + 1, end)
    /\ Becomes(Replay(Store, old[Last + 1], x, storeGet(Store, old[Last + 1].key)))
    /\ UNCHANGED <<old, phase, now, touched, misses>>

\* storeAufsDirRebuildComplete: the last record (SWAP_LOG_COMPLETED) has come,
\* or the helper has died.  The new log takes the old one's place.
RebuildComplete ==
    /\ phase = "replay" /\ (Idle \/ rd.done = Len(old))
    /\ phase' = "validate" /\ old' = <<>> /\ rd' = NothingRead /\ touched' = {}
    /\ UNCHANGED <<ent, map, log, size, now, misses>>

Unvalidated == {e \in Entries : ent[e].live /\ ~ent[e].valid /\ ent[e].filen # NoFile}

\* storeCleanup on one entry.
Validated(s, e) == [s EXCEPT !.ent[e].valid = TRUE, !.size = @ + 1]

storeCleanup(e) ==
    /\ phase = "validate" /\ e \in Unvalidated
    /\ Becomes(IF ent[e].pub THEN Validated(Store, e)
               ELSE storeRelease(Validated(Store, e), e))
    /\ UNCHANGED <<old, phase, rd, now, touched, misses>>

\* All buckets are done.  An entry made private may have moved to a bucket
\* that had been done before it.
CleanupDone ==
    /\ phase = "validate" /\ \A e \in Unvalidated : ~ent[e].pub
    /\ phase' = "up"
    /\ UNCHANGED <<ent, map, log, size, old, rd, now, touched, misses>>

\* storeLateRelease, one pop of the stack.
storeLateRelease(e) ==
    /\ phase = "up" /\ "late" \in ent[e].locks
    /\ Becomes(storeUnlockObject(Store, e, "late", FALSE))
    /\ UNCHANGED <<old, phase, rd, now, touched, misses>>

\* storeDirWriteCleanLogs: the log is written anew, in the order of the
\* removal policy.
CleanRecord(e) == [op |-> "ADD", key |-> ent[e].key, filen |-> ent[e].filen,
                   lastref |-> ent[e].lastref]

CleanEntries == {e \in Entries : /\ ent[e].live /\ ent[e].filen # NoFile
                                 /\ ent[e].swap = "done"
                                 /\ ~ent[e].rel /\ ent[e].pub}

storeDirWriteCleanLogs ==
    /\ phase = "up"
    /\ \E order \in [1..Cardinality(CleanEntries) -> CleanEntries] :
          /\ \A i, j \in DOMAIN order : i # j => order[i] # order[j]
          /\ log' = [i \in DOMAIN order |-> CleanRecord(order[i])]
    /\ UNCHANGED <<ent, map, size, old, phase, rd, now, touched, misses>>

Next ==
    \/ \E e \in Entries :
          \/ \E k \in Keys, c, p \in BOOLEAN : storeCreateEntry(e, k, c, p)
          \/ httpMakePublic(e) \/ httpMakePrivate(e)
          \/ storeAbort(e) \/ clientHit(e) \/ storeSwapInFails(e) \/ releasePublic(e)
          \/ \E keep \in KeepAsked(e, "fwd") : storeComplete(e, keep)
          \/ \E keep \in KeepAsked(e, "client") : clientLeaves(e, keep)
          \/ \E f \in Files : storeSwapOutStart(e, f)
          \/ \E r \in {"error", "refused", "cachable"}, keep \in KeepAsked(e, "swapout") :
                storeSwapOutFileClosed(e, r, keep)
          \/ \E end \in {"more", "between", "within"} : RebuildRecord(e, end)
          \/ storeCleanup(e) \/ storeLateRelease(e)
    \/ RebuildComplete \/ CleanupDone
    \/ storeDirWriteCleanLogs
    \/ Crash

Spec == Init /\ [][Next]_vars

-----------------------------------------------------------------------------
TypeOK ==
    /\ ent \in [Entries -> Entry]
    /\ map \subseteq Files
    /\ log \in Seq(Record) /\ old \in Seq(Record)
    /\ size \in Nat
    /\ phase \in {"replay", "validate", "up"}
    /\ rd \in [start : Nat, used : Nat, done : Nat, busy : BOOLEAN]
    /\ rd.start <= rd.used /\ rd.used <= Len(old) /\ rd.done <= Len(old)
    /\ Idle => rd.done = rd.used
    /\ now \in 0..MaxTime
    /\ misses \in 0..MaxMisses
    /\ touched \subseteq Keys \cup Files \cup {NoFile}

\* At most one entry is found under a public key.  hash_join inserts without
\* a look, so storeSetPublicKey and the rebuild must have cleared the way.
OnePerKey == \A k \in Keys : Cardinality(storeGet(Store, k)) <= 1

\* No two entries use the same swap file, and the bit of a file in use is
\* set: AddDiskRestore's caller must be "sure file_number is not already in
\* use", and a release unlinks the file of nobody else.
FilesDistinct ==
    /\ \A e, d \in Entries : e # d /\ ent[e].filen # NoFile => ent[e].filen # ent[d].filen
    /\ \A e \in Entries : ent[e].filen # NoFile => ent[e].filen \in map

\* Every bit that is set belongs to an entry, number 0 excepted: otherwise
\* the number is lost until the next restart.
NoBitLost == \A f \in map \ {File0} : \E e \in Entries : ent[e].filen = f

Indexed == {<<ent[e].key, ent[e].filen>> : e \in
              {e \in Entries : ent[e].live /\ ent[e].pub /\ ent[e].swap = "done"}}

\* At every moment the log being written names exactly the objects on disk
\* that can be found, with their files.  The next start reads this log, so it
\* loses nothing and revives nothing; only a crash within a replay goes back
\* to the old log, which is still in place.
LogAgrees == Logged(log) = Indexed

(* A log is a history: an object is added under a key that is absent and   *)
(* in a file that is free; a deletion names the version that is there, if  *)
(* one is (the object may never have been added: its swap out had begun).  *)
History(q) ==
    \A i \in DOMAIN q : \A o \in Logged(SubSeq(q, 1, i - 1)) :
        IF q[i].op = "ADD" THEN o[1] # q[i].key /\ o[2] # q[i].filen
        ELSE o[1] = q[i].key <=> o[2] = q[i].filen

\* The record replayed next would update an entry's metadata in place.
UpdateNext ==
    /\ phase = "replay" /\ Last < Len(old)
    /\ LET r == old[Last + 1]
       IN  /\ r.op = "ADD"
           /\ \E e \in storeGet(Store, r.key) :
                 ent[e].filen = r.filen /\ r.lastref > ent[e].lastref

\* The log being written is a history, so that what a rebuild assumes of the
\* log it reads holds of the one it writes; and however often its records are
\* replayed, none is newer than the entry that was restored with its key and
\* its file.
LogIsHistory == History(log) /\ ~UpdateNext

\* The count of objects on disk is the number of entries whose file is
\* complete and validated, whatever the order of rebuild, validation and
\* (late) release.
SizeExact == size = Cardinality({e \in Entries : Counted(ent[e])})

\* The rebuild has processed all of the old log.
AllReplayed == phase = "replay" /\ rd.done = Len(old)

\* Every object the old log names is in the index when all of it has been
\* replayed, unless a request used its key or its file in the meantime.
NothingLost ==
    AllReplayed =>
        \A o \in Logged(old) : o \in Indexed \/ o[1] \in touched \/ o[2] \in touched

\* "Delete unless we already have a newer copy": an entry restored from the
\* old log is one that log still names.
DeletedStaysDeleted ==
    AllReplayed =>
        \A e \in Entries : ent[e].live /\ ent[e].pub /\ ~ent[e].valid
                              => <<ent[e].key, ent[e].filen>> \in Logged(old)
=============================================================================
