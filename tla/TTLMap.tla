------------------------------- MODULE TTLMap --------------------------------
(***************************************************************************)
(* What util.Cache promises its users (util/cache.go): a map from keys to  *)
(* values that forgets.  A read finds the last value written, unless the   *)
(* value has outlived its time to live, was deleted, or was lost when      *)
(* another, new key was written to a cache with a cap; one such write      *)
(* loses a bounded number of entries and never the one it writes.          *)
(*                                                                         *)
(* There is no garbage collector here: an expired entry is gone.           *)
(***************************************************************************)
EXTENDS Integers, FiniteSets

CONSTANTS Key, Value, TTLs, MaxEntries, EvictionDivisor, MaxTime, None

VARIABLES
    now,    \* the clock
    entry   \* key -> [value, until], or None

vars == <<now, entry>>

Init ==
    /\ now = 0
    /\ entry = [k \in Key |-> None]

\* A write of k, by Set or by a GetOrSet that finds no value.  Others are lost
\* only when k is new and the cache has a cap.
Write(k, v, t) ==
    \E lost \in SUBSET (Key \ {k}) :
        /\ lost # {} => /\ MaxEntries > 0
                        /\ entry[k] = None
                        /\ Cardinality(lost) <= 1 + MaxEntries \div EvictionDivisor
        /\ entry' = [j \in Key |-> CASE j = k -> [value |-> v, until |-> now + t]
                                     [] j \in lost -> None
                                     [] OTHER -> entry[j]]
        /\ UNCHANGED now

Remove(k) ==
    /\ entry' = [entry EXCEPT ![k] = None]
    /\ UNCHANGED now

Clear ==
    /\ entry' = [k \in Key |-> None]
    /\ UNCHANGED now

Tick ==
    /\ now < MaxTime
    /\ now' = now + 1
    /\ entry' = [k \in Key |-> IF entry[k] # None /\ entry[k].until < now + 1
                               THEN None ELSE entry[k]]

Next ==
    \/ \E k \in Key, v \in Value, t \in TTLs : Write(k, v, t)
    \/ \E k \in Key : Remove(k)
    \/ Clear
    \/ Tick

Spec == Init /\ [][Next]_vars
=============================================================================
