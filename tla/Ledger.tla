------------------------------- MODULE Ledger -------------------------------
(***************************************************************************)
(* The write protocol of omega_evidence/ledger.py, one line of the JSONL   *)
(* file at a time: threads that share a Ledger instance, instances (one    *)
(* per process) that share the file, the instance lock, the flock held for *)
(* one append, the replay of what other writers appended, the fsync of     *)
(* "sync" and "batch" durability, process death, power loss and reload.    *)
(*                                                                         *)
(* A line reaches the page cache whole or not at all: lines cut in the     *)
(* middle and text retained by a failed flush are the subject of LedgerIO. *)
(* Sizes are counted in lines, so _size is a number of entries.            *)
(***************************************************************************)
EXTENDS LedgerChain, FiniteSets

CONSTANTS
    Threads,      \* threads calling append()
    Instances,    \* Ledger objects, each in a process of its own
    InstanceOf,   \* the instance a thread uses
    Batch,        \* the instances opened with durability="batch"
    BatchSize,    \* batch_size
    None,         \* no thread, no entry
    MaxEntries    \* bound: append() is not called on a ledger this long

ASSUME InstanceOfAssumption == InstanceOf \in [Threads -> Instances]
ASSUME BatchAssumption == Batch \subseteq Instances /\ BatchSize \in Nat \ {0}
ASSUME NoneAssumption == None \notin Threads
ASSUME BoundAssumption == MaxEntries \in Nat

-----------------------------------------------------------------------------
VARIABLES
    file,      \* the entries in the page cache, what every reader sees
    durable,   \* how many of them an fsync has put on the disk
    flock,     \* the thread that holds the exclusive flock
    ilock,     \* self._lock of each instance
    up,        \* the process is alive and its instance constructed
    count,     \* self._count
    last,      \* self._last
    size,      \* self._size
    pending,   \* self._pending
    pc,        \* what a thread inside append() does next
    entry,     \* the entry it has built
    acks       \* history: the entries append() has returned, by whom

vars == <<file, durable, flock, ilock, up, count, last, size, pending,
          pc, entry, acks>>
counters == <<count, last, size>>

Init ==
    /\ file = << >>
    /\ durable = 0
    /\ flock = None
    /\ ilock = [i \in Instances |-> None]
    /\ up = [i \in Instances |-> FALSE]
    /\ count = [i \in Instances |-> 0]
    /\ last = [i \in Instances |-> GENESIS]
    /\ size = [i \in Instances |-> 0]
    /\ pending = [i \in Instances |-> 0]
    /\ pc = [t \in Threads |-> "idle"]
    /\ entry = [t \in Threads |-> None]
    /\ acks = {}

Goto(t, from, to) ==
    /\ pc[t] = from
    /\ pc' = [pc EXCEPT ![t] = to]

-----------------------------------------------------------------------------
(* Construction: _load() reads the file under the shared flock, which an   *)
(* exclusive holder excludes, and raises on a chain that does not link.    *)
Start(i) ==
    /\ ~up[i]
    /\ flock = None
    /\ Continues(file, 0, GENESIS)
    /\ up' = [up EXCEPT ![i] = TRUE]
    /\ count' = [count EXCEPT ![i] = Len(file)]
    /\ last' = [last EXCEPT ![i] = LastHash(file)]
    /\ size' = [size EXCEPT ![i] = Len(file)]
    /\ UNCHANGED <<file, durable, flock, ilock, pending, pc, entry, acks>>

(* append(data), one step per lock, read or write another thread can see. *)
Call(t) ==
    /\ up[InstanceOf[t]]
    /\ Len(file) < MaxEntries
    /\ Goto(t, "idle", "enter")
    /\ UNCHANGED <<file, durable, flock, ilock, up, counters, pending, entry, acks>>

Enter(t) ==      \* with self._lock
    LET i == InstanceOf[t] IN
    /\ Goto(t, "enter", "lock")
    /\ ilock[i] = None
    /\ ilock' = [ilock EXCEPT ![i] = t]
    /\ UNCHANGED <<file, durable, flock, up, counters, pending, entry, acks>>

\* Faulty variants, named *_...: each is the definition that follows it with a
\* bug its author could have made, and violates a property of this module.
LockFile_Disabled(t) ==    \* the positive control of the repository's tests
    /\ Goto(t, "lock", "resync")
    /\ flock' = t
    /\ UNCHANGED <<file, durable, ilock, up, counters, pending, entry, acks>>

LockFile(t) ==   \* _lock_file
    /\ Goto(t, "lock", "resync")
    /\ flock = None
    /\ flock' = t
    /\ UNCHANGED <<file, durable, ilock, up, counters, pending, entry, acks>>

Accepted_Shorter(i) == Continues(file, size[i], last[i])

Accepted(i) ==   \* what _resync_locked requires of the file
    /\ size[i] <= Len(file)
    /\ Continues(file, size[i], last[i])

Adopt_CountKept(t) ==
    LET i == InstanceOf[t] IN
    /\ Goto(t, "resync", "write")
    /\ Accepted(i)
    /\ last' = [last EXCEPT ![i] = IF Len(file) = size[i] THEN @ ELSE LastHash(file)]
    /\ size' = [size EXCEPT ![i] = Len(file)]
    /\ UNCHANGED <<file, durable, flock, ilock, up, count, pending, entry, acks>>

Adopt(t) ==     \* what others wrote becomes what the instance knows
    LET i == InstanceOf[t] IN
    /\ Goto(t, "resync", "write")
    /\ Accepted(i)
    /\ count' = [count EXCEPT ![i] = @ + (Len(file) - size[i])]
    /\ last' = [last EXCEPT ![i] = IF Len(file) = size[i] THEN @
                                   ELSE LastHash(file)]
    /\ size' = [size EXCEPT ![i] = Len(file)]
    /\ UNCHANGED <<file, durable, flock, ilock, up, pending, entry, acks>>

Refuse(t) ==     \* raises: the file is shorter, or does not continue
    /\ Goto(t, "resync", "raise")
    /\ ~Accepted(InstanceOf[t])
    /\ UNCHANGED <<file, durable, flock, ilock, up, counters, pending, entry, acks>>

Resync(t) ==     \* _resync_locked: returns or raises
    /\ pc[t] = "resync"
    /\ Adopt(t) \/ Refuse(t)

FsyncDue_ByCount(i, n) == n >= BatchSize
FsyncDue_Late(i, n) == i \notin Batch \/ n > BatchSize
FsyncDue(i, n) == i \notin Batch \/ n >= BatchSize

\* _entry_locked, write and flush; in batch mode the pending count too.
Write(t, d) ==
    LET i == InstanceOf[t]
        e == NewEntry(count[i], d, last[i])
        n == IF i \in Batch THEN pending[i] + 1 ELSE 0
    IN
    /\ Goto(t, "write", IF FsyncDue(i, n) THEN "fsync" ELSE "unlock")
    /\ file' = Append(file, e)
    /\ entry' = [entry EXCEPT ![t] = e]
    /\ pending' = [pending EXCEPT ![i] = n]
    /\ UNCHANGED <<durable, flock, ilock, up, counters, acks>>

\* os.fsync puts on the disk every line of the inode, whoever wrote it.
Fsync(t) ==
    /\ Goto(t, "fsync", "unlock")
    /\ durable' = Len(file)
    /\ pending' = [pending EXCEPT ![InstanceOf[t]] = 0]
    /\ UNCHANGED <<file, flock, ilock, up, counters, entry, acks>>

FsyncFails_Swallowed(t) ==
    /\ Goto(t, "fsync", "unlock")
    /\ UNCHANGED <<file, durable, flock, ilock, up, counters, pending, entry, acks>>

FsyncFails(t) ==
    /\ Goto(t, "fsync", "raise")
    /\ UNCHANGED <<file, durable, flock, ilock, up, counters, pending, entry, acks>>

Unlock(t) ==
    /\ Goto(t, "unlock", "account")
    /\ flock' = None
    /\ UNCHANGED <<file, durable, ilock, up, counters, pending, entry, acks>>

\* After the flock is gone, still under self._lock: the counters, and return.
Account(t) ==
    LET i == InstanceOf[t] IN
    /\ Goto(t, "account", "idle")
    /\ count' = [count EXCEPT ![i] = @ + 1]
    /\ last' = [last EXCEPT ![i] = entry[t].self_hash]
    /\ size' = [size EXCEPT ![i] = @ + 1]
    /\ ilock' = [ilock EXCEPT ![i] = None]
    /\ entry' = [entry EXCEPT ![t] = None]
    /\ acks' = acks \cup {[by |-> i, live |-> TRUE, entry |-> entry[t]]}
    /\ UNCHANGED <<file, durable, flock, up, pending>>

Raise_KeepsLock(t) ==
    /\ Goto(t, "raise", "idle")
    /\ flock' = None
    /\ entry' = [entry EXCEPT ![t] = None]
    /\ UNCHANGED <<file, durable, ilock, up, counters, pending, acks>>

\* The exception leaves through both `finally` blocks, counters untouched.
Raise(t) ==
    /\ Goto(t, "raise", "idle")
    /\ flock' = None
    /\ ilock' = [ilock EXCEPT ![InstanceOf[t]] = None]
    /\ entry' = [entry EXCEPT ![t] = None]
    /\ UNCHANGED <<file, durable, up, counters, pending, acks>>

Flush_NoFsync(i) ==
    /\ up[i] /\ ilock[i] = None /\ pending[i] > 0
    /\ pending' = [pending EXCEPT ![i] = 0]
    /\ UNCHANGED <<file, durable, flock, ilock, up, counters, pc, entry, acks>>

\* flush(), and the flush of close(): fsync under self._lock, without flock.
Flush(i) ==
    /\ up[i] /\ ilock[i] = None /\ pending[i] > 0
    /\ durable' = Len(file)
    /\ pending' = [pending EXCEPT ![i] = 0]
    /\ UNCHANGED <<file, flock, ilock, up, counters, pc, entry, acks>>

-----------------------------------------------------------------------------
(* The end of processes: of the instances in Dead, at any point.  The      *)
(* kernel drops their flock and keeps what they wrote in the page cache.   *)
Stop(Dead) ==
    LET dying == {t \in Threads : InstanceOf[t] \in Dead} IN
    /\ up' = [i \in Instances |-> up[i] /\ i \notin Dead]
    /\ pc' = [t \in Threads |-> IF t \in dying THEN "idle" ELSE pc[t]]
    /\ entry' = [t \in Threads |-> IF t \in dying THEN None ELSE entry[t]]
    /\ flock' = IF flock \in dying THEN None ELSE flock
    /\ ilock' = [i \in Instances |-> IF i \in Dead THEN None ELSE ilock[i]]
    /\ count' = [i \in Instances |-> IF i \in Dead THEN 0 ELSE count[i]]
    /\ last' = [i \in Instances |-> IF i \in Dead THEN GENESIS ELSE last[i]]
    /\ size' = [i \in Instances |-> IF i \in Dead THEN 0 ELSE size[i]]
    /\ pending' = [i \in Instances |-> IF i \in Dead THEN 0 ELSE pending[i]]

Buried(a, Dead) == IF a.by \in Dead THEN [a EXCEPT !.live = FALSE] ELSE a

Kill(i) ==
    /\ up[i]
    /\ Stop({i})
    /\ acks' = {Buried(a, {i}) : a \in acks}
    /\ UNCHANGED <<file, durable>>

\* The page cache is gone but for a prefix of what fsync had not covered.
\* What batch writers lose is their declared window: it leaves the history.
PowerLoss ==
    /\ Stop(Instances)
    /\ \E k \in durable..Len(file) :
          /\ file' = SubSeq(file, 1, k)
          /\ durable' = k
          /\ acks' = {Buried(a, Instances) :
                        a \in {b \in acks : b.by \notin Batch \/ b.entry.idx < k}}

\* Someone who does not use this module cuts the file, in between two appends
\* (a cut inside one is past the check): in TruncSpec only, not in Spec.
Truncate ==
    /\ file # << >> /\ flock = None
    /\ \E k \in 0..(Len(file) - 1) :
          /\ file' = SubSeq(file, 1, k)
          /\ durable' = IF durable < k THEN durable ELSE k
    /\ UNCHANGED <<flock, ilock, up, counters, pending, pc, entry, acks>>

-----------------------------------------------------------------------------
Step(t) ==
    \/ Enter(t) \/ LockFile(t) \/ Resync(t)
    \/ \E d \in Data : Write(t, d)
    \/ Fsync(t) \/ FsyncFails(t) \/ Unlock(t) \/ Account(t) \/ Raise(t)

Next ==
    \/ \E t \in Threads : Call(t) \/ Step(t)
    \/ \E i \in Instances : Start(i) \/ Flush(i) \/ Kill(i)
    \/ PowerLoss

Spec == Init /\ [][Next]_vars
TruncSpec == Init /\ [][Next \/ Truncate]_vars

(* Scheduling: a running thread takes its next step (weak fairness).  The *)
(* kernel queues the waiters of both locks: one that finds its lock free   *)
(* again and again is taken to get it (strong fairness of the lock steps). *)
FairSpec ==
    /\ Spec
    /\ \A t \in Threads : WF_vars(Step(t)) /\ SF_vars(Enter(t)) /\ SF_vars(LockFile(t))
-----------------------------------------------------------------------------
(* Properties *)

PCs == {"idle", "enter", "lock", "resync", "write", "fsync", "unlock", "account", "raise"}
Ack == [by : Instances, live : BOOLEAN, entry : Entry]

\* Type invariant: what every variable of the protocol ranges over.
TypeOK ==
    /\ file \in Seq(Entry)
    /\ durable \in Nat
    /\ flock \in Threads \cup {None}
    /\ ilock \in [Instances -> Threads \cup {None}]
    /\ up \in [Instances -> BOOLEAN]
    /\ count \in [Instances -> Nat]
    /\ last \in [Instances -> Digest]
    /\ size \in [Instances -> Nat]
    /\ pending \in [Instances -> Nat]
    /\ pc \in [Threads -> PCs]
    /\ entry \in [Threads -> Entry \cup {None}]
    /\ \A t \in Threads : pc[t] \in {"fsync", "unlock", "account"} => entry[t] \in Entry
    /\ \A a \in acks : a \in Ack

\* Whatever threads, processes and crashes do, verify() finds every idx, every
\* prev_hash and every self_hash of the file in order: no duplicate idx, no
\* fork, and a power loss between fsyncs leaves a chain that still verifies.
ChainValid == VerifyText(file)

\* What append() returned is the line at its idx: another writer, a dead
\* process or a reload never replaces it, in either mode (a power loss takes
\* from batch writers what their window declares, and nothing else).
ReturnedIsOnFile ==
    \A a \in acks : /\ a.entry.idx < Len(file)
                    /\ file[a.entry.idx + 1] = a.entry

\* "sync": an append that returned is under an fsync, so no power loss takes
\* it, whichever instance wrote the lines before it and however it was flushed.
SyncIsDurable == \A a \in acks : a.by \notin Batch => a.entry.idx < durable

AtRisk(i) == {a \in acks : a.by = i /\ a.live /\ a.entry.idx >= durable}

\* An instance with nothing pending has nothing at risk: after flush(), or
\* the fsync of the batch_size-th append, what it returned survives a power
\* loss, though other processes wrote between its lines.
NothingPendingNothingAtRisk ==
    \A i \in Instances : pending[i] = 0 => AtRisk(i) = {}

\* The declared crash window, of one live instance: at most batch_size-1 of
\* the entries it has returned are not on the disk, failed fsyncs included.
WindowPerWriter == \A i \in Batch : Cardinality(AtRisk(i)) < BatchSize

(* The inductive invariant behind the four properties above.               *)
HoldsFile == {"resync", "write", "fsync", "unlock", "raise"}
HoldsInstance == HoldsFile \cup {"lock", "account"}

\* A thread holds each lock exactly between taking and releasing it.
Locking ==
    /\ \A t \in Threads : pc[t] \in HoldsFile <=> flock = t
    /\ \A t \in Threads : pc[t] \in HoldsInstance <=> ilock[InstanceOf[t]] = t

\* The counters of an instance describe a prefix of the file.
Accounted ==
    \A i \in Instances :
        /\ size[i] <= Len(file)
        /\ count[i] = size[i]
        /\ last[i] = IF size[i] = 0 THEN GENESIS ELSE file[size[i]].self_hash

\* The line of an append under way follows what its instance accounts for,
\* and is on the disk before it is returned unless it is counted as pending.
InFlight ==
    /\ \A i \in Instances : i \notin Batch => pending[i] = 0
    /\ \A t \in Threads :
        LET i == InstanceOf[t] IN
        /\ pc[t] # "idle" => up[i]
        /\ pc[t] = "write" => size[i] = Len(file)
        /\ pc[t] \in {"fsync", "unlock", "account"} =>
              size[i] < Len(file) /\ file[size[i] + 1] = entry[t]
        /\ pc[t] \in {"unlock", "account"} /\ pending[i] = 0 => size[i] < durable

\* Together they are inductive: the counters are what the next append links
\* to, the locks keep them current, and the fsync order keeps the promises.
IInv ==
    /\ TypeOK
    /\ durable <= Len(file)
    /\ Locking
    /\ Accounted
    /\ InFlight
    /\ ChainValid
    /\ ReturnedIsOnFile
    /\ SyncIsDurable
    /\ NothingPendingNothingAtRisk

\* "A file truncated by someone else is refused": a writer that gets to write
\* sees in the file every line its own appends returned.
TruncationRefused ==
    \A t \in Threads : pc[t] = "write" =>
        \A a \in acks : a.by = InstanceOf[t] /\ a.live =>
            /\ a.entry.idx < Len(file)
            /\ file[a.entry.idx + 1] = a.entry

\* Every append() ends, returned or refused: waiting for the instance lock and
\* then for the file lock is never waiting for oneself or in a circle.
AppendEnds == \A t \in Threads : pc[t] # "idle" ~> pc[t] = "idle"

Log == [k \in 1..Len(file) |-> file[k].data]
Promised == {a.entry.idx + 1 : a \in {b \in acks : b.by \notin Batch}}
Abstract == INSTANCE DurableLog WITH log <- Log, promised <- Promised

\* Threads, processes, locks and hashes implement the log callers are promised:
\* each append adds one payload or none, and what a sync append returned is
\* never given up, not even by a power loss in the middle of another append.
ImplementsDurableLog == Abstract!Spec
=============================================================================
