------------------------------ MODULE MCLedger ------------------------------
(* Instances of Ledger for TLC. *)
EXTENDS Ledger, TLC

CONSTANTS t1, t2, t3, a, b

\* Two threads share instance a; b is another process.
SharedAndOther == (t1 :> a) @@ (t2 :> a) @@ (t3 :> b)
\* One thread per process.
OneEach == (t1 :> a) @@ (t2 :> b)
\* One instance, two threads.
BothOnA == (t1 :> a) @@ (t2 :> a)
=============================================================================
