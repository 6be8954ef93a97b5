------------------------------ MODULE Receipt ------------------------------
(***************************************************************************)
(* The end of verifier.main(): the receipt is written to stdout, whatever  *)
(* stdout is, and only then is the exit code chosen.  _write_all loops over*)
(* partial writes and waits on a non-blocking pipe that is full; a write   *)
(* that fails makes the exit code 74, never the verdict's.                 *)
(*                                                                         *)
(* External, as CPython implements them: the buffered writer below stdout, *)
(* the text layer's flush(), the raw stream of `python -u`, the flush at   *)
(* exit; and the operating system's pipe or file.  The texts are sequences *)
(* of pieces, of which a write(2) takes the first so many.                 *)
(***************************************************************************)
EXTENDS Integers, Sequences

CONSTANTS
    Length,     \* pieces of the receipt
    Held,       \* pieces the caller of main() wrote and left in the text layer
    BufSize,    \* capacity of the buffered writer
    PipeSize    \* capacity of a pipe; the largest room of a file

ASSUME ReceiptAssumption == Length \in Nat /\ Held \in Nat /\ BufSize \in Nat /\ PipeSize \in Nat

Piece == {"caller", "receipt"} \X Nat
CallerText == [k \in 1..Held |-> <<"caller", k>>]
ReceiptText == [k \in 1..Length |-> <<"receipt", k>>]

EX_IOERR == 74
Verdicts == {0, 1, 77}      \* PASS, FAIL, NOT_ASSESSED

\* What stdout can be.  "none": sys.stdout is None, fd 1 was closed at start.
Streams == [kind : {"pipe"}, raw : BOOLEAN, nonblocking : BOOLEAN]
           \cup [kind : {"file"}, raw : BOOLEAN, nonblocking : {FALSE}]
           \cup [kind : {"none"}, raw : {FALSE}, nonblocking : {FALSE}]

VARIABLES
    out,       \* the stream
    room,      \* pieces the pipe or file can take now
    reader,    \* the pipe's reader is there
    sink,      \* history: what the operating system has taken, in order
    buffer,    \* what the buffered writer holds
    arg,       \* what the write() call on the byte stream has not taken yet
    data,      \* `data` of _write_all
    pc,
    verdict,   \* the verdict's exit code
    exit,      \* the exit code of the process
    nulled     \* fd 1 is the null device

vars == <<out, room, reader, sink, buffer, arg, data, pc, verdict, exit, nulled>>
world == <<out, reader, verdict>>
ending == <<exit, nulled>>

First(s, n) == SubSeq(s, 1, n)
Rest(s, n) == SubSeq(s, n + 1, Len(s))

Init ==
    /\ out \in Streams
    /\ room \in 0..PipeSize
    /\ reader = TRUE
    /\ sink = << >> /\ buffer = << >> /\ data = ReceiptText
    /\ arg = IF out.raw \/ out.kind = "none" THEN << >> ELSE CallerText
    /\ pc = "text"
    /\ verdict \in Verdicts
    /\ exit = verdict
    /\ nulled = FALSE

-----------------------------------------------------------------------------
(* One write(2), and when it is due. *)

Broken == \/ out.kind = "none"
          \/ out.kind = "pipe" /\ ~reader         \* EPIPE
          \/ out.kind = "file" /\ room = 0        \* ENOSPC, EFBIG, EBADF
Full == out.kind = "pipe" /\ reader /\ room = 0
Takes(n) == ~Broken /\ n \in 1..room

Writing == pc \in {"text", "write"} /\ arg # << >>
Fits == ~out.raw /\ Len(arg) <= BufSize - Len(buffer)
Spills == Writing /\ ~Fits
Draining == buffer # << >> /\ (Spills \/ pc \in {"textflush", "flush"} \/ (pc = "exit" /\ ~nulled))
Direct == buffer = << >> /\ Spills
NoStream == pc = "text" /\ out.kind = "none"

Goto(from, to) == pc = from /\ pc' = to

\* Faulty variants, named *_...: each is the definition that follows it with a
\* bug its author could have made, and violates a property of this module.
Accounted_Not(left) == data

\* What remains of `data` when a call returns or raises with this much of it
\* left; what the text layer hands over it forgets, taken or not.
Accounted(left) == IF pc = "text" THEN data ELSE Rest(data, Len(data) - Len(left))

\* The buffered writer takes the rest of the call: write() returns its length.
Buffered ==
    /\ Writing /\ Fits
    /\ buffer' = buffer \o arg
    /\ data' = Accounted(<< >>)
    /\ arg' = IF pc = "text" THEN << >> ELSE data'
    /\ UNCHANGED <<world, room, sink, pc, ending>>

\* The buffer is full: it goes out first, then what does not fit goes direct.
Drain(n) ==
    /\ Draining /\ Takes(n) /\ n <= Len(buffer)
    /\ sink' = sink \o First(buffer, n)
    /\ buffer' = Rest(buffer, n)
    /\ room' = room - n
    /\ UNCHANGED <<world, arg, data, pc, ending>>

PassThrough(n) ==
    /\ Direct /\ ~out.raw /\ Takes(n) /\ n <= Len(arg)
    /\ sink' = sink \o First(arg, n)
    /\ arg' = Rest(arg, n)
    /\ data' = IF arg' = << >> THEN Accounted(<< >>) ELSE data
    /\ room' = room - n
    /\ UNCHANGED <<world, buffer, pc, ending>>

RawWrite_CountIgnored(n) ==
    /\ Direct /\ out.raw /\ Takes(n) /\ n <= Len(arg)
    /\ sink' = sink \o First(arg, n)
    /\ data' = << >>
    /\ arg' = << >>
    /\ room' = room - n
    /\ UNCHANGED <<world, buffer, pc, ending>>

\* A raw stream's write() returns after one write(2): a short count.
RawWrite(n) ==
    /\ Direct /\ out.raw /\ Takes(n) /\ n <= Len(arg)
    /\ sink' = sink \o First(arg, n)
    /\ data' = Accounted(Rest(arg, n))
    /\ arg' = data'
    /\ room' = room - n
    /\ UNCHANGED <<world, buffer, pc, ending>>

\* BlockingIOError: the writer keeps what it has space for and says how much
\* it took; a raw stream returns None.  Then _wait_writable.
WouldBlock ==
    LET space == IF out.raw THEN 0 ELSE BufSize - Len(buffer)
        left == Rest(arg, space)
    IN
    /\ Spills
    /\ Full /\ out.nonblocking
    /\ buffer' = buffer \o First(arg, space)
    /\ data' = Accounted(left)
    /\ arg' = IF pc = "text" THEN << >> ELSE data'
    /\ pc' = IF pc = "text" THEN "wait_text" ELSE "wait_write"
    /\ UNCHANGED <<world, room, sink, ending>>

FlushWouldBlock ==
    /\ buffer # << >>
    /\ Full /\ out.nonblocking
    /\ \/ Goto("textflush", "wait_text")
       \/ Goto("flush", "wait_flush")
    /\ UNCHANGED <<world, room, sink, buffer, arg, data, ending>>

Wait_ForRoomOnly ==
    /\ room > 0
    /\ \/ Goto("wait_text", "text")
       \/ Goto("wait_write", "write")
       \/ Goto("wait_flush", "flush")
    /\ UNCHANGED <<world, room, sink, buffer, arg, data, ending>>

\* select(): it can take more, or the next write will say EPIPE.
Wait ==
    /\ ~Full
    /\ \/ Goto("wait_text", "text")
       \/ Goto("wait_write", "write")
       \/ Goto("wait_flush", "flush")
    /\ UNCHANGED <<world, room, sink, buffer, arg, data, ending>>

-----------------------------------------------------------------------------
(* _write_all and what follows it *)

TextHanded ==      \* out.flush() goes on to flush the buffered writer
    /\ Goto("text", "textflush")
    /\ arg = << >> /\ out.kind # "none"
    /\ UNCHANGED <<world, room, sink, buffer, arg, data, ending>>

TextFlushed ==
    /\ Goto("textflush", "write")
    /\ buffer = << >>
    /\ arg' = data
    /\ UNCHANGED <<world, room, sink, buffer, data, ending>>

DataWritten ==     \* while data
    /\ Goto("write", "flush")
    /\ data = << >>
    /\ UNCHANGED <<world, room, sink, buffer, arg, data, ending>>

Flushed ==         \* flushed before the exit code is decided
    /\ Goto("flush", "exit")
    /\ buffer = << >>
    /\ UNCHANGED <<world, room, sink, buffer, arg, data, ending>>

Fails_NotNulled ==
    /\ Broken
    /\ Draining \/ Direct \/ NoStream
    /\ pc' = "exit"
    /\ exit' = EX_IOERR
    /\ UNCHANGED <<world, room, sink, buffer, arg, data, nulled>>

Fails ==           \* write_receipt: fd 1 becomes the null device, exit 74
    /\ Broken
    /\ Draining \/ Direct \/ NoStream
    /\ pc' = "exit"
    /\ exit' = EX_IOERR
    /\ nulled' = (out.kind # "none")
    /\ UNCHANGED <<world, room, sink, buffer, arg, data>>

\* The interpreter flushes stdout again; a failure there makes the code 120.
AtExit ==
    /\ Goto("exit", "done")
    /\ Draining => Broken \/ (Full /\ out.nonblocking)
    /\ exit' = IF Draining THEN 120 ELSE exit
    /\ UNCHANGED <<world, room, sink, buffer, arg, data, nulled>>

Process ==
    \/ Buffered
    \/ \E n \in 1..PipeSize : Drain(n) \/ PassThrough(n) \/ RawWrite(n)
    \/ WouldBlock \/ FlushWouldBlock \/ Wait
    \/ TextHanded \/ TextFlushed \/ DataWritten \/ Flushed \/ Fails \/ AtExit

\* Whoever is at the other end of the pipe reads, or goes away.
Reads ==
    /\ out.kind = "pipe" /\ reader
    /\ \E n \in 1..(PipeSize - room) : room' = room + n
    /\ UNCHANGED <<out, reader, verdict, sink, buffer, arg, data, pc, ending>>

Leaves ==
    /\ out.kind = "pipe" /\ reader
    /\ reader' = FALSE
    /\ UNCHANGED <<out, verdict, room, sink, buffer, arg, data, pc, ending>>

Next == Process \/ Reads \/ Leaves

Spec == Init /\ [][Next]_vars

\* The process runs; a reader that stays keeps reading what there is.
FairSpec == Spec /\ WF_vars(Process) /\ WF_vars(Reads \/ Leaves)

-----------------------------------------------------------------------------
(* Properties *)

PCs == {"text", "textflush", "write", "flush", "wait_text", "wait_write", "wait_flush", "exit", "done"}

\* Type invariant, with what each phase owes the next: a buffer never past its
\* capacity, a call in progress that has no more than `data` left, and nothing is left of it when the last flush begins.
TypeOK ==
    /\ out \in Streams
    /\ room \in 0..PipeSize /\ reader \in BOOLEAN
    /\ sink \in Seq(Piece) /\ buffer \in Seq(Piece)
    /\ arg \in Seq(Piece) /\ data \in Seq(Piece)
    /\ pc \in PCs
    /\ verdict \in Verdicts /\ exit \in Verdicts \cup {EX_IOERR, 120}
    /\ nulled \in BOOLEAN
    /\ Len(buffer) <= BufSize
    /\ pc \in {"write", "wait_write"} => Len(arg) <= Len(data)
    /\ pc \in {"flush", "wait_flush"} => data = << >> /\ arg = << >>

\* k pieces of the caller's text, then the receipt from its first piece on.
InOrder(s, k) ==
    /\ \A j \in 1..k : s[j][1] = "caller"
    /\ \A j \in (k + 1)..Len(s) : s[j] = ReceiptText[j - k]
    /\ Len(s) - k <= Length

\* What the system took is some of the caller's text, then the receipt from its
\* first piece on, no piece left out and none twice: short writes, blocked
\* writes, partial counts and retries included.
ReceiptInOrder == \E k \in 0..Len(sink) : InOrder(sink, k)

\* The exit code is a verdict only if the system took the whole receipt.
VerdictMeansWritten ==
    pc = "done" /\ exit \in Verdicts =>
        /\ exit = verdict
        /\ Len(sink) >= Length
        /\ \A j \in 1..Length : sink[Len(sink) - Length + j] = ReceiptText[j]

\* Otherwise it is 74 and stdout really cannot be written: a slow reader is
\* waited for, and the flush at exit does not change the code to 120.
GivesUpOnlyWhenBroken ==
    pc = "done" => exit = verdict \/ (exit = EX_IOERR /\ Broken)

(* The inductive invariant behind the three properties above.              *)
TextPCs == {"text", "textflush", "wait_text"}
WritePCs == {"write", "wait_write"}
Given == sink \o buffer
AllFromCaller(s) == \A j \in 1..Len(s) : s[j][1] = "caller"
IsTail(s) == Len(s) <= Length /\ s = Rest(ReceiptText, Length - Len(s))

\* Before the receipt is begun, only the caller's text is under way.
TextPhase ==
    pc \in TextPCs => /\ AllFromCaller(arg) /\ data = ReceiptText
                      /\ out.raw => arg = << >>

\* The loop and the call in progress each know a tail of the receipt.
WritePhase ==
    pc \in WritePCs => /\ IsTail(data) /\ IsTail(arg)
                       /\ pc = "wait_write" => arg = data

\* What the system and the buffer have is the caller's k pieces and the receipt
\* up to where the call in progress continues.
Conserved ==
    \E k \in 0..Len(Given) :
        /\ InOrder(Given, k)
        /\ pc \in TextPCs => k = Len(Given)
        /\ pc \in WritePCs => Len(Given) - k + Len(arg) = Length
        /\ pc \in {"flush", "wait_flush"} => Len(Given) - k = Length
        /\ pc \in {"exit", "done"} /\ exit # EX_IOERR => Len(Given) - k = Length

\* The exit code departs from the verdict's for good reason, and once.
Outcome ==
    /\ out.kind = "none" => pc \in {"text", "exit", "done"} /\ arg = << >> /\ buffer = << >>
    /\ pc \notin {"exit", "done"} => exit = verdict /\ ~nulled
    /\ pc \in {"exit", "done"} =>
          \/ exit = verdict /\ buffer = << >>
          \/ exit = EX_IOERR /\ Broken /\ (nulled \/ buffer = << >>)

\* Together they are inductive: pieces move from one place to the next and are
\* neither lost nor doubled, and only an empty pipeline gives the verdict.
IInv == TypeOK /\ TextPhase /\ WritePhase /\ Conserved /\ Outcome

\* Whatever stdout is, the process ends if its reader reads or leaves.
Ends == <>(pc = "done")

\* "the caller's text is flushed first and waited for like the receipt": with a
\* verdict's exit code, all of it is there before the receipt.
CallersTextToo ==
    pc = "done" /\ exit \in Verdicts /\ ~out.raw => sink = CallerText \o ReceiptText
=============================================================================
