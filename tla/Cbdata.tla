------------------------------- MODULE Cbdata -------------------------------
(***************************************************************************)
(* Callback data: libcb/cbdata.c.                                          *)
(*                                                                         *)
(* A structure handed to a blocking operation as callback data is locked   *)
(* for the time of the operation (cbdataLock), tested before the callback  *)
(* is made (cbdataValid) and unlocked after it (cbdataUnlock).  Its owner  *)
(* frees it at any time (cbdataFree): the memory goes when the structure   *)
(* is invalid and its last lock is gone, and malloc() may then hand the    *)
(* same address to a new structure.                                        *)
(*                                                                         *)
(* The blocking operations are the environment: an operation holds one     *)
(* lock from registration to completion, and while its callback runs any   *)
(* other call of this module may be made (the callback's own code).        *)
(***************************************************************************)
EXTENDS Integers, FiniteSets

CONSTANTS Ptrs,      \* addresses cbdata structures may live at
          Ops,       \* blocking operations that take callback data
          NULL,      \* the null pointer, also legal as callback data
          MaxLife    \* bound: how often an address is handed out

ASSUME CbdataAssumption ==
    /\ IsFiniteSet(Ops)
    /\ NULL \notin Ptrs
    /\ MaxLife \in Nat

VARIABLES mem,          \* the addresses that hold an allocated structure
          valid,        \* cbdata.valid
          locks,        \* cbdata.locks
          life,         \* life[o]: structures that have lived at o so far
          op            \* op[p]: what blocking operation p holds

vars == <<mem, valid, locks, life, op>>

Idle == [phase |-> "idle", data |-> NULL, life |-> 0]

TypeOK ==
    /\ mem \subseteq Ptrs
    /\ valid \in [Ptrs -> BOOLEAN]
    /\ locks \in [Ptrs -> Nat]
    /\ life \in [Ptrs -> Nat]
    /\ op \in [Ops -> [phase : {"idle", "waiting", "calling"},
                       data : Ptrs \cup {NULL}, life : Nat]]

Init ==
    /\ mem = {}
    /\ valid = [o \in Ptrs |-> FALSE]
    /\ locks = [o \in Ptrs |-> 0]
    /\ life = [o \in Ptrs |-> 0]
    /\ op = [p \in Ops |-> Idle]

-----------------------------------------------------------------------------
\* The operations p that hold the structure at o.
Holders(o) == {p \in Ops : op[p].phase # "idle" /\ op[p].data = o}

\* cbdataInternalAlloc: malloc() returns an address that is not in use.
Alloc(o) ==
    /\ o \notin mem
    /\ life[o] < MaxLife
    /\ mem' = mem \cup {o}
    /\ valid' = [valid EXCEPT ![o] = TRUE]
    /\ locks' = [locks EXCEPT ![o] = 0]
    /\ life' = [life EXCEPT ![o] = @ + 1]
    /\ UNCHANGED op

\* The tail that cbdataInternalFree and cbdataUnlock share: free_func and
\* free() give the memory back.
Release(o) == mem' = mem \ {o}

\* Mutant: the structure is freed at once although operations hold it.
FreeIgnoresLocks(o) ==
    /\ o \in mem /\ valid[o]
    /\ valid' = [valid EXCEPT ![o] = FALSE]
    /\ Release(o)
    /\ UNCHANGED <<locks, life, op>>

\* cbdataInternalFree, called by the owner, whose pointer is good until then.
Free(o) ==
    /\ o \in mem /\ valid[o]
    /\ valid' = [valid EXCEPT ![o] = FALSE]
    /\ IF locks[o] > 0
       THEN UNCHANGED mem
       ELSE Release(o)
    /\ UNCHANGED <<locks, life, op>>

\* Who may pass o to a blocking operation: the owner, and the code of a
\* callback that is running on o.
MayUse(o) ==
    o # NULL => /\ o \in mem
                /\ valid[o] \/ \E q \in Holders(o) : op[q].phase = "calling"

\* Mutant: the operation is registered and its data is not locked.
RegisterUnlocked(p, o) ==
    /\ op[p].phase = "idle" /\ MayUse(o)
    /\ op' = [op EXCEPT ![p] = [phase |-> "waiting", data |-> o,
                                life |-> IF o = NULL THEN 0 ELSE life[o]]]
    /\ UNCHANGED <<locks, mem, valid, life>>

\* A blocking operation starts: cbdataLock(data), a no-op on NULL.
Register(p, o) ==
    /\ op[p].phase = "idle" /\ MayUse(o)
    /\ op' = [op EXCEPT ![p] = [phase |-> "waiting", data |-> o,
                                life |-> IF o = NULL THEN 0 ELSE life[o]]]
    /\ locks' = IF o = NULL THEN locks ELSE [locks EXCEPT ![o] = @ + 1]
    /\ UNCHANGED <<mem, valid, life>>

\* Mutant: the last unlock frees a structure its owner still uses.
UnlockIgnoresValid(o) ==
    IF o = NULL THEN UNCHANGED <<mem, locks>>
    ELSE /\ locks' = [locks EXCEPT ![o] = @ - 1]
         /\ IF locks[o] > 1
            THEN UNCHANGED mem
            ELSE Release(o)

\* Mutant: the memory of an invalid structure is never given back.
UnlockLeaks(o) ==
    IF o = NULL THEN UNCHANGED <<mem, locks>>
    ELSE /\ locks' = [locks EXCEPT ![o] = @ - 1]
         /\ UNCHANGED mem

\* Mutant: one unlock too many.
UnlockBelowZero(o) ==
    IF o = NULL THEN UNCHANGED <<mem, locks>>
    ELSE /\ locks' = [locks EXCEPT ![o] = @ - 2]
         /\ IF valid[o] \/ locks[o] > 1
            THEN UNCHANGED mem
            ELSE Release(o)

\* cbdataUnlock.
Unlock(o) ==
    IF o = NULL THEN UNCHANGED <<mem, locks>>
    ELSE /\ locks' = [locks EXCEPT ![o] = @ - 1]
         /\ IF valid[o] \/ locks[o] > 1
            THEN UNCHANGED mem
            ELSE Release(o)

\* cbdataValid.
CbdataValid(o) == o # NULL => valid[o]

\* The operation completes and its data is valid: the callback is entered.
Call(p) ==
    /\ op[p].phase = "waiting" /\ CbdataValid(op[p].data)
    /\ op' = [op EXCEPT ![p].phase = "calling"]
    /\ UNCHANGED <<mem, valid, locks, life>>

\* The operation completes and its data is gone: no callback, only the unlock.
Drop(p) ==
    /\ op[p].phase = "waiting" /\ ~CbdataValid(op[p].data)
    /\ op' = [op EXCEPT ![p] = Idle]
    /\ Unlock(op[p].data)
    /\ UNCHANGED <<valid, life>>

\* The callback returns and the operation unlocks the data.
Return(p) ==
    /\ op[p].phase = "calling"
    /\ op' = [op EXCEPT ![p] = Idle]
    /\ Unlock(op[p].data)
    /\ UNCHANGED <<valid, life>>

Next ==
    \/ \E o \in Ptrs : Alloc(o) \/ Free(o)
    \/ \E p \in Ops : \/ \E o \in Ptrs \cup {NULL} : Register(p, o)
                      \/ Call(p) \/ Drop(p) \/ Return(p)

\* An operation completes and its callback returns.
Fairness == \A p \in Ops : WF_vars(Call(p)) /\ WF_vars(Drop(p)) /\ WF_vars(Return(p))

Spec == Init /\ [][Next]_vars
FairSpec == Spec /\ Fairness
-----------------------------------------------------------------------------
\* No operation, waiting or in its callback, refers to memory that was given
\* back, nor to a later structure at the same address: what cbdataLock and
\* cbdataUnlock are for (cbdata.c:263-327).
NoDanglingData ==
    \A p \in Ops : op[p].phase # "idle" /\ op[p].data # NULL =>
        op[p].data \in mem /\ op[p].life = life[op[p].data]

\* cbdata.locks counts the operations that hold the structure, so the
\* assertions "c->locks > 0" of cbdataValid and cbdataUnlock never fail.
LockAccounting ==
    \A o \in Ptrs : o \in mem => locks[o] = Cardinality(Holders(o))

\* The memory of a structure is there exactly as long as the owner has not
\* freed it or an operation holds it: an unlock never takes a valid structure
\* away and the last unlock of an invalid one never leaks it (the
\* "if (c->valid || c->locks) return" of cbdata.c).
LiveIffUsable == \A o \in Ptrs : o \in mem <=> valid[o] \/ locks[o] > 0

\* Once the owner has freed a structure its memory is given back, whatever
\* operations were pending on it and however often a callback that is still
\* running registers new ones.
FreedIsReclaimed == \A o \in Ptrs : (o \in mem /\ ~valid[o]) ~> o \notin mem
=============================================================================
