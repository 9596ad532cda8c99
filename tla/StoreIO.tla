------------------------------ MODULE StoreIO -------------------------------
(***************************************************************************)
(* What a swap file handle (storeIOState) promises to the code that calls  *)
(* storeCreate, storeOpen, storeWrite, storeRead and storeClose (store_io.c*)
(* and the callers in store_swapout.c, store_swapin.c, store_client.c):    *)
(*                                                                         *)
(*   - the close callback comes exactly once, and comes with no error only *)
(*     after storeClose and only when everything given to storeWrite is in *)
(*     the file;                                                           *)
(*   - a storeRead is answered at most once, and never after storeClose.   *)
(*                                                                         *)
(* How and when data reaches the disk is left open.  AufsIO implements     *)
(* this specification.                                                     *)
(***************************************************************************)
EXTENDS Integers

CONSTANTS Handles, MaxWrites

VARIABLES
    phase,      \* "unused", open for "writing" or "reading", closed "ok" or "failed"
    given,      \* number of chunks given to storeWrite
    stored,     \* the chunks that are in the file
    asked,      \* a storeRead waits for its answer
    closing     \* storeClose was called

vars == <<phase, given, stored, asked, closing>>

Open(h) == phase[h] \in {"writing", "reading"}
Whole(h) == stored[h] = 1..given[h]

Init ==
    /\ phase = [h \in Handles |-> "unused"]
    /\ given = [h \in Handles |-> 0]
    /\ stored = [h \in Handles |-> {}]
    /\ asked = [h \in Handles |-> FALSE]
    /\ closing = [h \in Handles |-> FALSE]

\* storeCreate, with the metadata given at once
StartWriting(h) ==
    /\ phase[h] = "unused"
    /\ phase' = [phase EXCEPT ![h] = "writing"]
    /\ given' = [given EXCEPT ![h] = 1]
    /\ UNCHANGED <<stored, asked, closing>>

\* storeOpen
StartReading(h) ==
    /\ phase[h] = "unused"
    /\ phase' = [phase EXCEPT ![h] = "reading"]
    /\ UNCHANGED <<given, stored, asked, closing>>

\* storeWrite
Give(h) ==
    /\ phase[h] = "writing" /\ ~closing[h] /\ given[h] < MaxWrites
    /\ given' = [given EXCEPT ![h] = @ + 1]
    /\ UNCHANGED <<phase, stored, asked, closing>>

\* A chunk reaches the file.
Store(h) ==
    /\ phase[h] = "writing"
    /\ \E n \in 1..given[h] : stored' = [stored EXCEPT ![h] = @ \cup {n}]
    /\ UNCHANGED <<phase, given, asked, closing>>

\* storeRead
Ask(h) ==
    /\ phase[h] = "reading" /\ ~closing[h] /\ ~asked[h]
    /\ asked' = [asked EXCEPT ![h] = TRUE]
    /\ UNCHANGED <<phase, given, stored, closing>>

\* The read callback, which may itself call storeRead or storeClose.
Answer(h) ==
    /\ phase[h] = "reading" /\ asked[h] /\ ~closing[h]
    /\ \/ asked' = [asked EXCEPT ![h] = FALSE]
          /\ UNCHANGED <<phase, closing>>
       \/ asked' = [asked EXCEPT ![h] = FALSE]
          /\ closing' = [closing EXCEPT ![h] = TRUE]
          /\ \E r \in {"ok", "failed"} : phase' = [phase EXCEPT ![h] = r]
    /\ UNCHANGED <<given, stored>>

\* storeClose, which may call the close callback itself.
Close(h) ==
    /\ Open(h) /\ ~closing[h]
    /\ closing' = [closing EXCEPT ![h] = TRUE]
    /\ \/ UNCHANGED <<phase, asked>>
       \/ /\ Whole(h)
          /\ phase' = [phase EXCEPT ![h] = "ok"]
          /\ asked' = [asked EXCEPT ![h] = FALSE]
    /\ UNCHANGED <<given, stored>>

\* The close callback.
Closed(h) ==
    /\ Open(h)
    /\ \/ closing[h] /\ Whole(h) /\ phase' = [phase EXCEPT ![h] = "ok"]
       \/ phase' = [phase EXCEPT ![h] = "failed"]
    /\ asked' = [asked EXCEPT ![h] = FALSE]
    /\ UNCHANGED <<given, stored, closing>>

Next == \E h \in Handles :
    \/ StartWriting(h) \/ StartReading(h)
    \/ Give(h) \/ Store(h) \/ Ask(h) \/ Answer(h) \/ Close(h) \/ Closed(h)

Spec == Init /\ [][Next]_vars
=============================================================================
