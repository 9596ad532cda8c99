---------------------------- MODULE CbdataProofs ----------------------------
(***************************************************************************)
(* Safety of callback data for any number of addresses and operations.     *)
(*                                                                         *)
(* The inductive invariant is the conjunction of the checked invariants:   *)
(* none is inductive alone.  That a structure survives (LiveIffUsable)     *)
(* needs the lock count, the lock count needs that two operations never    *)
(* speak of different structures at one address, and that (NoDanglingData) *)
(* needs that the memory of a locked structure stays.                      *)
(***************************************************************************)
EXTENDS Cbdata, FiniteSetTheorems, TLAPS

IInv == TypeOK /\ NoDanglingData /\ LockAccounting /\ LiveIffUsable

\* The operations that hold a structure are finitely many, and a structure
\* with lock count zero has none.
LEMMA HoldersFinite ==
    ASSUME NEW o
    PROVE  /\ IsFiniteSet(Holders(o))
           /\ Cardinality(Holders(o)) \in Nat
           /\ Cardinality(Holders(o)) = 0 <=> Holders(o) = {}
<1>1. Holders(o) \in SUBSET Ops
  BY DEF Holders
<1>2. IsFiniteSet(Holders(o))
  BY <1>1, FS_Subset, CbdataAssumption
<1> QED
  BY <1>2, FS_CardinalityType, FS_EmptySet

\* Memory that is not allocated is held by nobody.
LEMMA FreeUnheld ==
    ASSUME IInv, NEW o \in Ptrs, o \notin mem
    PROVE  Holders(o) = {} /\ locks[o] = 0 /\ valid[o] = FALSE
<1>1. Holders(o) = {}
  BY CbdataAssumption DEF IInv, NoDanglingData, Holders
<1>2. locks[o] \in Nat /\ valid[o] \in BOOLEAN
  BY DEF IInv, TypeOK
<1> QED
  BY <1>1, <1>2 DEF IInv, LiveIffUsable

LEMMA InitIInv == Init => IInv
<1> SUFFICES ASSUME Init PROVE IInv
  OBVIOUS
<1>1. TypeOK
  BY CbdataAssumption DEF Init, TypeOK, Idle
<1>2. NoDanglingData /\ LockAccounting /\ LiveIffUsable
  BY DEF Init, NoDanglingData, LockAccounting, LiveIffUsable, Idle
<1> QED
  BY <1>1, <1>2 DEF IInv

\* cbdataInternalAlloc: the address was free, so no operation knows it.
LEMMA AllocIInv ==
    ASSUME IInv, NEW o \in Ptrs, Alloc(o)
    PROVE  IInv'
<1> USE DEF IInv
<1>1. TypeOK'
  BY DEF TypeOK, Alloc
<1>2. Holders(o) = {} /\ \A x : Holders(x)' = Holders(x)
  BY FreeUnheld DEF Alloc, Holders
<1>3. NoDanglingData'
  BY <1>2 DEF TypeOK, NoDanglingData, Alloc, Holders
<1>4. LockAccounting'
  BY <1>2, FS_EmptySet DEF TypeOK, LockAccounting, Alloc
<1>5. LiveIffUsable'
  BY DEF TypeOK, LiveIffUsable, Alloc
<1> QED
  BY <1>1, <1>3, <1>4, <1>5

\* cbdataInternalFree: the memory goes only if no operation holds it.
LEMMA FreeIInv ==
    ASSUME IInv, NEW o \in Ptrs, Free(o)
    PROVE  IInv'
<1> USE DEF IInv
<1>1. TypeOK'
  BY DEF TypeOK, Free, Release
<1>2. \A x : Holders(x)' = Holders(x)
  BY DEF Free, Holders
<1>3. locks[o] \in Nat /\ (locks[o] = 0 => Holders(o) = {})
  BY HoldersFinite DEF TypeOK, LockAccounting, Free
<1>4. NoDanglingData'
  BY <1>3 DEF TypeOK, NoDanglingData, Free, Release, Holders
<1>5. LockAccounting'
  BY <1>2 DEF TypeOK, LockAccounting, Free, Release
<1>6. LiveIffUsable'
  BY <1>3 DEF TypeOK, LiveIffUsable, Free, Release
<1> QED
  BY <1>1, <1>4, <1>5, <1>6

\* cbdataLock: one more holder, one more lock.
LEMMA RegisterIInv ==
    ASSUME IInv, NEW p \in Ops, NEW o \in Ptrs \cup {NULL}, Register(p, o)
    PROVE  IInv'
<1> USE DEF IInv
<1>1. TypeOK'
  BY CbdataAssumption DEF TypeOK, Register, MayUse
<1>2. NoDanglingData'
  BY CbdataAssumption DEF TypeOK, NoDanglingData, Register, MayUse
<1>3. ASSUME NEW x \in Ptrs
      PROVE  /\ x # o => Holders(x)' = Holders(x)
             /\ x = o => Holders(x)' = Holders(x) \cup {p}
             /\ p \notin Holders(x)
  BY DEF TypeOK, Register, Holders
<1>4. LockAccounting'
  <2> SUFFICES ASSUME NEW x \in Ptrs, x \in mem
               PROVE  locks'[x] = Cardinality(Holders(x)')
    BY DEF LockAccounting, Register
  <2>1. locks[x] = Cardinality(Holders(x)) /\ IsFiniteSet(Holders(x))
    BY HoldersFinite DEF LockAccounting
  <2>2. CASE x # o
    BY <2>1, <2>2, <1>3 DEF TypeOK, Register
  <2>3. CASE x = o
    <3>1. Cardinality(Holders(x) \cup {p}) = Cardinality(Holders(x)) + 1
      BY <2>1, <1>3, FS_AddElement
    <3>2. locks'[x] = locks[x] + 1
      BY <2>3, CbdataAssumption DEF TypeOK, Register
    <3> QED
      BY <3>1, <3>2, <2>1, <2>3, <1>3
  <2> QED
    BY <2>2, <2>3
<1>5. LiveIffUsable'
  BY CbdataAssumption DEF TypeOK, LiveIffUsable, Register, MayUse
<1> QED
  BY <1>1, <1>2, <1>4, <1>5

\* Entering the callback changes neither locks nor memory.
LEMMA CallIInv ==
    ASSUME IInv, NEW p \in Ops, Call(p)
    PROVE  IInv'
<1> USE DEF IInv
<1>1. TypeOK' /\ NoDanglingData'
  BY DEF TypeOK, NoDanglingData, Call
<1>2. \A x : Holders(x)' = Holders(x)
  BY DEF TypeOK, Call, Holders
<1>3. LockAccounting' /\ LiveIffUsable'
  BY <1>2 DEF LockAccounting, LiveIffUsable, Call
<1> QED
  BY <1>1, <1>3

\* cbdataUnlock: p was a holder, so the count was positive; if it reaches
\* zero on an invalid structure, p was the last one to know the address.
LEMMA UnlockIInv ==
    ASSUME IInv, NEW p \in Ops, op[p].phase # "idle",
           NEW o \in Ptrs \cup {NULL}, op[p].data = o,
           op' = [op EXCEPT ![p] = Idle], Unlock(o),
           UNCHANGED <<valid, life>>
    PROVE  IInv'
<1> USE DEF IInv
<1>2. ASSUME NEW x \in Ptrs
      PROVE  /\ x # o => Holders(x)' = Holders(x)
             /\ x = o => Holders(x)' = Holders(x) \ {p} /\ p \in Holders(x)
  BY DEF TypeOK, Holders, Idle
<1>3. CASE o = NULL
  <2>1. TypeOK' /\ NoDanglingData'
    BY <1>3, CbdataAssumption DEF TypeOK, NoDanglingData, Unlock, Idle
  <2>2. LockAccounting' /\ LiveIffUsable'
    BY <1>2, <1>3, CbdataAssumption DEF LockAccounting, LiveIffUsable, Unlock
  <2> QED
    BY <2>1, <2>2
<1>4. CASE o \in Ptrs
  <2>1. o \in mem /\ o # NULL
    BY <1>4, CbdataAssumption DEF NoDanglingData
  <2>2. /\ IsFiniteSet(Holders(o))
        /\ Cardinality(Holders(o)) = locks[o]
        /\ Cardinality(Holders(o)') = locks[o] - 1
        /\ locks[o] \in Nat \ {0}
    BY <1>2, <1>4, <2>1, HoldersFinite, FS_RemoveElement DEF TypeOK, LockAccounting
  <2>3. locks[o] = 1 => Holders(o)' = {}
    <3>1. IsFiniteSet(Holders(o)')
      BY <1>2, <1>4, <2>2, FS_RemoveElement
    <3> QED
      BY <2>2, <3>1, FS_EmptySet
  <2>4. locks' = [locks EXCEPT ![o] = locks[o] - 1]
    BY <2>1 DEF Unlock
  <2>5. mem' = IF valid[o] \/ locks[o] > 1 THEN mem ELSE mem \ {o}
    BY <2>1 DEF Unlock, Release
  <2>6. TypeOK'
    <3>1. locks' \in [Ptrs -> Nat]
      <4>1. locks[o] - 1 \in Nat
        BY <2>2
      <4>2. locks \in [Ptrs -> Nat]
        BY DEF TypeOK
      <4> QED
        BY <1>4, <2>4, <4>1, <4>2
    <3>2. mem' \subseteq Ptrs
      BY <2>5 DEF TypeOK
    <3>3. op' \in [Ops -> [phase : {"idle", "waiting", "calling"},
                           data : Ptrs \cup {NULL}, life : Nat]]
      BY CbdataAssumption DEF TypeOK, Idle
    <3> QED
      BY <3>1, <3>2, <3>3 DEF TypeOK
  <2>7. NoDanglingData'
    <3> SUFFICES ASSUME NEW q \in Ops, op'[q].phase # "idle", op'[q].data # NULL
                 PROVE  op'[q].data \in mem' /\ op'[q].life = life'[op'[q].data]
      BY DEF NoDanglingData
    <3>1. q # p /\ op'[q] = op[q]
      BY DEF TypeOK, Idle
    <3>2. op[q].data \in mem /\ op[q].life = life[op[q].data]
      BY <3>1 DEF NoDanglingData
    <3>3. op[q].data = o => locks[o] # 1
      BY <2>3, <3>1 DEF Holders
    <3> QED
      BY <3>1, <3>2, <3>3, <2>2, <2>5
  <2>8. LockAccounting'
    BY <1>2, <2>2, <2>4, <2>5 DEF TypeOK, LockAccounting
  <2>9. LiveIffUsable'
    BY <1>4, <2>1, <2>2, <2>4, <2>5 DEF TypeOK, LiveIffUsable
  <2> QED
    BY <2>6, <2>7, <2>8, <2>9
<1> QED
  BY <1>3, <1>4

LEMMA NextIInv == IInv /\ [Next]_vars => IInv'
<1> SUFFICES ASSUME IInv, [Next]_vars PROVE IInv'
  OBVIOUS
<1>1. ASSUME NEW o \in Ptrs, Alloc(o) PROVE IInv'
  BY <1>1, AllocIInv
<1>2. ASSUME NEW o \in Ptrs, Free(o) PROVE IInv'
  BY <1>2, FreeIInv
<1>3. ASSUME NEW p \in Ops, NEW o \in Ptrs \cup {NULL}, Register(p, o) PROVE IInv'
  BY <1>3, RegisterIInv
<1>4. ASSUME NEW p \in Ops, Call(p) PROVE IInv'
  BY <1>4, CallIInv
<1>5. ASSUME NEW p \in Ops, Drop(p) \/ Return(p) PROVE IInv'
  <2>1. op[p].data \in Ptrs \cup {NULL}
    BY DEF IInv, TypeOK
  <2> QED
    BY <1>5, <2>1, UnlockIInv DEF Drop, Return
<1>6. CASE UNCHANGED vars
  BY <1>6 DEF vars, IInv, TypeOK, NoDanglingData, LockAccounting, LiveIffUsable, Holders
<1> QED
  BY <1>1, <1>2, <1>3, <1>4, <1>5, <1>6 DEF Next

\* Types, lock accounting, life time and the absence of dangling callback
\* data hold in every behaviour of cbdata.c, for any set of addresses and any
\* finite set of operations.
THEOREM CbdataSafety == Spec => [](TypeOK /\ NoDanglingData /\ LockAccounting /\ LiveIffUsable)
<1>1. IInv => TypeOK /\ NoDanglingData /\ LockAccounting /\ LiveIffUsable
  BY DEF IInv
<1> QED
  BY <1>1, InitIInv, NextIInv, PTL DEF Spec
=============================================================================
