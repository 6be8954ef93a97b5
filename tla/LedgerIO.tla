------------------------------ MODULE LedgerIO ------------------------------
(***************************************************************************)
(* The same Ledger where its I/O can go wrong in the middle of a line.  A  *)
(* line is three pieces, the two halves of its JSON text and its newline;  *)
(* a flush writes them in one or more write() calls, so that a process     *)
(* death, a power loss or a full disk can fall between any two.  Python's  *)
(* file object keeps what a failed flush did not write: the handle of a    *)
(* batch writer for its next flush, that of a sync append until the with   *)
(* statement closes it, after the flock is released.  An fsync that fails  *)
(* leaves the line whole on the file and append() without a return value.  *)
(*                                                                         *)
(* One thread per instance here: threads sharing one are in Ledger.  The   *)
(* steps of append() that do no I/O (flock, replay, entry, line) are one.  *)
(***************************************************************************)
EXTENDS LedgerChain

CONSTANTS
    Instances,   \* Ledger objects, each in a process of its own
    Batch,       \* those opened with durability="batch"
    BatchSize,   \* batch_size
    Faults,      \* what happens to them: a subset of {"crash", "nospace", "nosync"}
    None,
    MaxPieces    \* bound, per instance: append() is not called on a file and
                 \* buffer this long

ASSUME IOAssumption == /\ Batch \subseteq Instances /\ BatchSize \in Nat \ {0}
                       /\ None \notin Instances \cup Entry
                       /\ Faults \subseteq {"crash", "nospace", "nosync"}

ASSUME BoundAssumption == MaxPieces \in [Instances -> Nat]

-----------------------------------------------------------------------------
(* The text of a file and its lines *)

Head1(e) == [part |-> "head", of |-> e]
Tail1(e) == [part |-> "tail", of |-> e]
LF == [part |-> "LF", of |-> None]

LineOf(e) == <<Head1(e), Tail1(e), LF>>

\* raw.split("\n") without the blank lines.
Ended(cut) == IF cut.open = << >> THEN cut.done ELSE Append(cut.done, cut.open)
Take(cut, c) == IF c = LF THEN [done |-> Ended(cut), open |-> << >>]
                          ELSE [done |-> cut.done, open |-> Append(cut.open, c)]
Lines(f) ==
    LET cut[n \in 0..Len(f)] ==
          IF n = 0 THEN [done |-> << >>, open |-> << >>] ELSE Take(cut[n - 1], f[n])
    IN  Ended(cut[Len(f)])

\* loads_strict accepts a line that is the whole text of one entry.
Parses(l) == \E k \in DOMAIN l : l = <<Head1(l[k].of), Tail1(l[k].of)>>
AllParse(f) == \A k \in DOMAIN Lines(f) : Parses(Lines(f)[k])
Entries(f) == [k \in DOMAIN Lines(f) |-> Lines(f)[k][1].of]

Loads(f, prev) == AllParse(f) /\ Continues(Entries(f), 0, prev)    \* _replay
Verifies(f) == AllParse(f) /\ VerifyText(Entries(f))              \* verify()

-----------------------------------------------------------------------------
VARIABLES
    file,      \* the pieces in the page cache
    durable,   \* how many an fsync has put on the disk
    flock,     \* the instance that holds the exclusive flock
    up, count, last, size, pending,   \* as in Ledger, _size in pieces
    buf,       \* what the instance's file object has not written yet
    pc, entry,
    acks,      \* history: what append() returned, by whom
    faulted    \* history: a process died, the power failed or a write did

vars == <<file, durable, flock, up, count, last, size, pending, buf, pc, entry,
          acks, faulted>>
counters == <<count, last, size>>

Init ==
    /\ file = << >>
    /\ durable = 0
    /\ flock = None
    /\ up = [i \in Instances |-> FALSE]
    /\ count = [i \in Instances |-> 0]
    /\ last = [i \in Instances |-> GENESIS]
    /\ size = [i \in Instances |-> 0]
    /\ pending = [i \in Instances |-> 0]
    /\ buf = [i \in Instances |-> << >>]
    /\ pc = [i \in Instances |-> "idle"]
    /\ entry = [i \in Instances |-> None]
    /\ acks = {}
    /\ faulted = FALSE

Goto(i, from, to) ==
    /\ pc[i] = from
    /\ pc' = [pc EXCEPT ![i] = to]

\* Faulty variants, named *_...: each is the definition that follows it with a
\* bug its author could have made, and violates a property of this module.
NextIdx_Stale(i, rest) == count[i]
NextIdx(i, rest) == count[i] + Len(Entries(rest))

NextPrev_Stale(i, rest) == last[i]
NextPrev(i, rest) == IF Lines(rest) = << >> THEN last[i] ELSE LastHash(Entries(rest))

\* _load, under the shared flock.
Start(i) ==
    /\ ~up[i] /\ flock = None
    /\ Loads(file, GENESIS)
    /\ up' = [up EXCEPT ![i] = TRUE]
    /\ count' = [count EXCEPT ![i] = Len(Entries(file))]
    /\ last' = [last EXCEPT ![i] = LastHash(Entries(file))]
    /\ size' = [size EXCEPT ![i] = Len(file)]
    /\ UNCHANGED <<file, durable, flock, pending, buf, pc, entry, acks, faulted>>

\* append(): the flock, _resync_locked over the bytes after _size, the entry,
\* and its line in the buffer.  A file _resync_locked refuses raises instead
\* and changes nothing.
Begin(i, d) ==
    LET rest == SubSeq(file, size[i] + 1, Len(file))
        e == NewEntry(NextIdx(i, rest), d, NextPrev(i, rest))
    IN
    /\ Goto(i, "idle", "flush")
    /\ up[i] /\ flock = None
    /\ Len(file) + Len(buf[i]) < MaxPieces[i]
    /\ size[i] <= Len(file) /\ Loads(rest, last[i])
    /\ flock' = i
    /\ count' = [count EXCEPT ![i] = e.idx]
    /\ last' = [last EXCEPT ![i] = e.prev_hash]
    /\ size' = [size EXCEPT ![i] = Len(file)]
    /\ entry' = [entry EXCEPT ![i] = e]
    /\ buf' = [buf EXCEPT ![i] = @ \o LineOf(e)]
    /\ UNCHANGED <<file, durable, up, pending, acks, faulted>>

\* The first n pieces of the buffer reach the page cache.
WriteOut(i, n) ==
    /\ file' = file \o SubSeq(buf[i], 1, n)
    /\ buf' = [buf EXCEPT ![i] = SubSeq(@, n + 1, Len(@))]

FsyncDue_ByCount(i, n) == n >= BatchSize
FsyncDue(i, n) == i \notin Batch \/ n >= BatchSize

FlushSome(i, n) ==
    LET rest == Len(buf[i]) - n
        p == IF i \in Batch /\ rest = 0 THEN pending[i] + 1 ELSE pending[i]
    IN
    /\ Goto(i, "flush", IF rest > 0 THEN "flush" ELSE IF FsyncDue(i, p) THEN "fsync" ELSE "return")
    /\ WriteOut(i, n)
    /\ pending' = [pending EXCEPT ![i] = p]
    /\ UNCHANGED <<durable, flock, up, counters, entry, acks, faulted>>

Fsync(i) ==
    /\ Goto(i, "fsync", "return")
    /\ durable' = Len(file)
    /\ pending' = [pending EXCEPT ![i] = 0]
    /\ UNCHANGED <<file, flock, up, counters, buf, entry, acks, faulted>>

\* fsync raises: the exception leaves append(), `finally` releases the flock.
\* The line stays on the file, and in a batch writer's pending count, which so
\* goes past BatchSize: its next append, flush() or close() tries again.
FsyncFails(i) ==
    /\ "nosync" \in Faults
    /\ Goto(i, "fsync", IF i \in Batch THEN "idle" ELSE "close")
    /\ flock' = None
    /\ entry' = [entry EXCEPT ![i] = None]
    /\ UNCHANGED <<file, durable, up, counters, pending, buf, acks, faulted>>

Return(i) ==
    /\ Goto(i, "return", "idle")
    /\ flock' = None
    /\ count' = [count EXCEPT ![i] = @ + 1]
    /\ last' = [last EXCEPT ![i] = entry[i].self_hash]
    /\ size' = [size EXCEPT ![i] = @ + Len(LineOf(entry[i]))]
    /\ entry' = [entry EXCEPT ![i] = None]
    /\ acks' = acks \cup {[by |-> i, entry |-> entry[i]]}
    /\ UNCHANGED <<file, durable, up, pending, buf, faulted>>

FlushFails_KeepsFlock(i) ==
    /\ "nospace" \in Faults
    /\ Goto(i, "flush", IF i \in Batch THEN "idle" ELSE "close")
    /\ entry' = [entry EXCEPT ![i] = None]
    /\ faulted' = TRUE
    /\ UNCHANGED <<file, durable, flock, up, counters, pending, buf, acks>>

\* No space left: the exception leaves append(), `finally` releases the flock,
\* the buffer keeps the rest.
FlushFails(i) ==
    /\ "nospace" \in Faults
    /\ Goto(i, "flush", IF i \in Batch THEN "idle" ELSE "close")
    /\ flock' = None
    /\ entry' = [entry EXCEPT ![i] = None]
    /\ faulted' = TRUE
    /\ UNCHANGED <<file, durable, up, counters, pending, buf, acks>>

\* Closing a file object writes what it kept, or as much as there is space
\* for, and forgets the rest.  Nobody holds the flock for it.
CloseFile(i, n) ==
    /\ n < Len(buf[i]) => "nospace" \in Faults
    /\ file' = file \o SubSeq(buf[i], 1, n)
    /\ buf' = [buf EXCEPT ![i] = << >>]

CloseSync(i, n) ==     \* the end of `with open(...)` in a failed append()
    /\ Goto(i, "close", "idle")
    /\ CloseFile(i, n)
    /\ UNCHANGED <<durable, flock, up, counters, pending, entry, acks, faulted>>

\* flush(), on a batch writer's handle.  One that raises changes nothing, nor
\* does a close() that raises there.
Flush(i) ==
    /\ pc[i] = "idle" /\ up[i] /\ pending[i] > 0
    /\ durable' = Len(file)
    /\ pending' = [pending EXCEPT ![i] = 0]
    /\ UNCHANGED <<file, flock, up, counters, buf, pc, entry, acks, faulted>>

\* close(): fsync what is pending, then close the handle.  When that raises,
\* _fh stays set to a closed file and every append raises until the next close(),
\* which would raise in its turn if there were something left to fsync.
CloseBatch(i, n) ==
    /\ Goto(i, "idle", IF n < Len(buf[i]) THEN "closed" ELSE "idle")
    /\ up[i] /\ i \in Batch
    /\ pending[i] > 0 \/ buf[i] # << >>
    /\ durable' = IF pending[i] > 0 THEN Len(file) ELSE durable
    /\ pending' = [pending EXCEPT ![i] = 0]
    /\ CloseFile(i, n)
    /\ UNCHANGED <<flock, up, counters, entry, acks, faulted>>

CloseAgain(i) ==
    /\ Goto(i, "closed", "idle")
    /\ pending[i] = 0
    /\ UNCHANGED <<file, durable, flock, up, counters, pending, buf, entry, acks, faulted>>

Stop(Dead) ==
    /\ "crash" \in Faults
    /\ faulted' = TRUE
    /\ flock' = IF flock \in Dead THEN None ELSE flock
    /\ up' = [i \in Instances |-> up[i] /\ i \notin Dead]
    /\ count' = [i \in Instances |-> IF i \in Dead THEN 0 ELSE count[i]]
    /\ last' = [i \in Instances |-> IF i \in Dead THEN GENESIS ELSE last[i]]
    /\ size' = [i \in Instances |-> IF i \in Dead THEN 0 ELSE size[i]]
    /\ pending' = [i \in Instances |-> IF i \in Dead THEN 0 ELSE pending[i]]
    /\ buf' = [i \in Instances |-> IF i \in Dead THEN << >> ELSE buf[i]]
    /\ pc' = [i \in Instances |-> IF i \in Dead THEN "idle" ELSE pc[i]]
    /\ entry' = [i \in Instances |-> IF i \in Dead THEN None ELSE entry[i]]

Kill(i) == up[i] /\ Stop({i}) /\ UNCHANGED <<file, durable, acks>>

\* A prefix survives, cut anywhere.  Only sync appends promise past it.
PowerLoss ==
    /\ Stop(Instances)
    /\ \E k \in durable..Len(file) :
          file' = SubSeq(file, 1, k) /\ durable' = k
    /\ acks' = {a \in acks : a.by \notin Batch}

Next ==
    \/ \E i \in Instances :
          \/ Start(i)
          \/ \E d \in Data : Begin(i, d)
          \/ \E n \in 1..Len(buf[i]) : FlushSome(i, n)
          \/ Fsync(i) \/ FsyncFails(i) \/ Return(i) \/ FlushFails(i) \/ Flush(i)
          \/ \E n \in 0..Len(buf[i]) : CloseSync(i, n) \/ CloseBatch(i, n)
          \/ CloseAgain(i) \/ Kill(i)
    \/ PowerLoss

Spec == Init /\ [][Next]_vars

-----------------------------------------------------------------------------
(* Properties *)

\* Type invariant, with what the flock and the counters owe the file: the
\* holder is the instance inside append(), and no counter is past the end.  The
\* appends pending are on the file, however often their fsync failed, and none
\* is left at a closed handle, which could neither sync nor be replaced.
TypeOK ==
    /\ durable \in 0..Len(file)
    /\ flock \in Instances \cup {None}
    /\ \A i \in Instances :
          /\ pc[i] \in {"idle", "flush", "fsync", "return", "close", "closed"}
          /\ flock = i <=> pc[i] \in {"flush", "fsync", "return"}
          /\ flock = i <=> entry[i] # None
          /\ pc[i] # "idle" => up[i]
          /\ size[i] \in 0..Len(file) /\ count[i] \in 0..size[i]
          /\ pending[i] \in 0..Len(file)
          /\ i \notin Batch \/ pc[i] = "closed" => pending[i] = 0

OnFile(a) == /\ a.entry.idx < Len(Entries(file))
             /\ Entries(file)[a.entry.idx + 1] = a.entry

\* Loss is never silent: whatever was torn, glued, doubled or forked on the
\* way, a file that verify() accepts holds every entry append() returned.
VerifiedMeansComplete == Verifies(file) => \A a \in acks : OnFile(a)

\* _replay does not read the stored idx and verify() does, yet no torn or
\* retained line gives a file that the loader takes and verify() rejects.
LoaderAgreesWithVerify == Loads(file, GENESIS) <=> Verifies(file)

\* While nothing failed, a reader holding the flock sees whole lines only and
\* a chain that verifies, though a line takes several writes.
SnapshotsAreWhole == ~faulted /\ flock = None => Verifies(file)

\* What append() returned in "sync" mode is a line of the file after any power
\* loss: at most the append in flight is torn.
ReturnedIsALine ==
    \A a \in acks : a.by \notin Batch =>
        \E k \in DOMAIN Lines(file) : Lines(file)[k] = <<Head1(a.entry), Tail1(a.entry)>>

\* "every entry links to the last hash on disk and carries the next idx": as
\* long as no process dies, the whole lines of the file are one chain.
WholeLinesChain ==
    LET whole == SelectSeq(Lines(file), Parses) IN
    VerifyText([k \in DOMAIN whole |-> whole[k][1].of])
=============================================================================
