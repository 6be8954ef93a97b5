----------------------------- MODULE DurableLog -----------------------------
(***************************************************************************)
(* What a Ledger promises to its caller, without files, hashes, locks or   *)
(* processes: one log, a prefix of it on the disk, and the positions whose *)
(* append() has returned to a writer in "sync" mode.  A crash keeps the    *)
(* durable prefix and any part of the rest; a promise is never broken.     *)
(***************************************************************************)
EXTENDS Naturals, Sequences

CONSTANT Data

VARIABLES
    log,        \* the payloads, in order
    durable,    \* the length of the prefix no crash can take away
    promised    \* the positions returned by a sync append

vars == <<log, durable, promised>>

Init == log = << >> /\ durable = 0 /\ promised = {}

Extend(d) == log' = Append(log, d) /\ UNCHANGED <<durable, promised>>

Persist == durable' = Len(log) /\ UNCHANGED <<log, promised>>

Promise(p) ==
    /\ p \in 1..durable
    /\ promised' = promised \cup {p}
    /\ UNCHANGED <<log, durable>>

Crash(k) ==
    /\ k \in durable..Len(log)
    /\ log' = SubSeq(log, 1, k)
    /\ durable' = k
    /\ UNCHANGED promised

Next ==
    \/ \E d \in Data : Extend(d)
    \/ Persist
    \/ \E p \in 1..durable : Promise(p)
    \/ \E k \in durable..Len(log) : Crash(k)

Spec == Init /\ [][Next]_vars
=============================================================================
