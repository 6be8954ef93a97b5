--------------------------- MODULE Ledger_proofs ---------------------------
(***************************************************************************)
(* TLAPS proofs about Ledger, for every set of threads and instances, any  *)
(* assignment of threads to instances, any batch size and any bound.       *)
(***************************************************************************)
EXTENDS Ledger, FiniteSetTheorems, TLAPS

\* The next entry is an Entry: its digest extends the digest it links to.
LEMMA NewEntryType ==
    ASSUME NEW n \in Nat, NEW d \in Data, NEW h \in Digest
    PROVE  NewEntry(n, d, h) \in Entry
BY DEF NewEntry, HashEntry, Entry, Digest

\* The hash that continues a well-typed file is a digest.
LEMMA LastHashType ==
    ASSUME NEW f \in Seq(Entry)
    PROVE  LastHash(f) \in Digest
<1>1. CASE f = << >>
  BY <1>1 DEF LastHash, GENESIS, Digest
<1>2. CASE f # << >>
  <2>1. Len(f) \in 1..Len(f)
    BY <1>2
  <2>2. f[Len(f)] \in Entry
    BY <2>1
  <2>. QED BY <1>2, <2>2 DEF LastHash, Entry
<1>. QED BY <1>1, <1>2

\* Death of its writer changes nothing of a returned entry but its liveness.
LEMMA BuriedFields ==
    ASSUME NEW a \in Ack, NEW Dead
    PROVE  /\ Buried(a, Dead) \in Ack
           /\ Buried(a, Dead).entry = a.entry
           /\ Buried(a, Dead).by = a.by
           /\ Buried(a, Dead).live => a.live /\ a.by \notin Dead
BY DEF Buried, Ack

\* The end of processes leaves every variable it touches with its type.
LEMMA StopType ==
    ASSUME TypeOK, NEW Dead, Stop(Dead)
    PROVE  /\ flock' \in Threads \cup {None}
           /\ ilock' \in [Instances -> Threads \cup {None}]
           /\ up' \in [Instances -> BOOLEAN]
           /\ count' \in [Instances -> Nat]
           /\ last' \in [Instances -> Digest]
           /\ size' \in [Instances -> Nat]
           /\ pending' \in [Instances -> Nat]
           /\ pc' \in [Threads -> PCs]
           /\ entry' \in [Threads -> Entry \cup {None}]
           /\ \A t \in Threads : pc'[t] \in {"fsync", "unlock", "account"} => entry'[t] \in Entry
<1>1. GENESIS \in Digest
  BY DEF GENESIS, Digest
<1>. QED BY <1>1 DEF TypeOK, Stop, PCs

\* Every step, of a thread, of an instance or of the machine, keeps the types.
LEMMA TypeStep ==
    ASSUME TypeOK, [Next]_vars
    PROVE  TypeOK'
<1> USE InstanceOfAssumption
<1>1. ASSUME NEW t \in Threads, Call(t) PROVE TypeOK'
  BY <1>1 DEF TypeOK, PCs, Call, Goto, counters
<1>2. ASSUME NEW t \in Threads, Enter(t) PROVE TypeOK'
  BY <1>2 DEF TypeOK, PCs, Enter, Goto, counters
<1>3. ASSUME NEW t \in Threads, LockFile(t) PROVE TypeOK'
  BY <1>3 DEF TypeOK, PCs, LockFile, Goto, counters
<1>4. ASSUME NEW t \in Threads, Adopt(t) PROVE TypeOK'
  <2> DEFINE i == InstanceOf[t]
  <2>1. i \in Instances
    OBVIOUS
  <2>2. size[i] \in Nat /\ Len(file) \in Nat /\ size[i] <= Len(file)
    BY <1>4, <2>1 DEF TypeOK, Adopt, Accepted
  <2>3. count' \in [Instances -> Nat]
    BY <1>4, <2>1, <2>2 DEF TypeOK, Adopt
  <2>4. last' \in [Instances -> Digest]
    BY <1>4, <2>1, LastHashType DEF TypeOK, Adopt
  <2>5. size' \in [Instances -> Nat] /\ pc' \in [Threads -> PCs]
    BY <1>4 DEF TypeOK, Adopt, Goto, PCs
  <2>6. \A u \in Threads : pc'[u] \in {"fsync", "unlock", "account"} => entry'[u] \in Entry
    BY <1>4 DEF TypeOK, Adopt, Goto
  <2>. QED BY <1>4, <2>3, <2>4, <2>5, <2>6 DEF TypeOK, Adopt
<1>5. ASSUME NEW t \in Threads, Refuse(t) PROVE TypeOK'
  BY <1>5 DEF TypeOK, PCs, Refuse, Goto, counters
<1>6. ASSUME NEW t \in Threads, NEW d \in Data, Write(t, d) PROVE TypeOK'
  <2> DEFINE i == InstanceOf[t]
             e == NewEntry(count[i], d, last[i])
  <2>1. e \in Entry
    BY NewEntryType DEF TypeOK
  <2> HIDE DEF e
  <2>2. file' = Append(file, e) /\ entry' = [entry EXCEPT ![t] = e]
    BY <1>6 DEF Write, e
  <2>3. file' \in Seq(Entry) /\ entry' \in [Threads -> Entry \cup {None}]
    BY <2>1, <2>2 DEF TypeOK
  <2>4. pending' \in [Instances -> Nat] /\ pc' \in [Threads -> PCs]
    BY <1>6 DEF TypeOK, Write, Goto, PCs
  <2>5. \A u \in Threads : pc'[u] \in {"fsync", "unlock", "account"} => entry'[u] \in Entry
    BY <1>6, <2>1, <2>2 DEF TypeOK, Write, Goto
  <2>. QED BY <1>6, <2>3, <2>4, <2>5 DEF TypeOK, Write, counters
<1>7. ASSUME NEW t \in Threads, Fsync(t) PROVE TypeOK'
  BY <1>7 DEF TypeOK, PCs, Fsync, Goto, counters
<1>8. ASSUME NEW t \in Threads, FsyncFails(t) PROVE TypeOK'
  BY <1>8 DEF TypeOK, PCs, FsyncFails, Goto, counters
<1>9. ASSUME NEW t \in Threads, Unlock(t) PROVE TypeOK'
  BY <1>9 DEF TypeOK, PCs, Unlock, Goto, counters
<1>10. ASSUME NEW t \in Threads, Account(t) PROVE TypeOK'
  <2> DEFINE i == InstanceOf[t]
             a == [by |-> i, live |-> TRUE, entry |-> entry[t]]
  <2>1. pc[t] = "account" /\ i \in Instances
    BY <1>10 DEF Account, Goto
  <2>2. entry[t] \in Entry /\ entry[t].self_hash \in Digest
    BY <2>1 DEF TypeOK, Entry
  <2>3. a \in Ack
    BY <2>1, <2>2 DEF Ack
  <2>4. \A x \in acks' : x \in Ack
    BY <1>10, <2>3 DEF TypeOK, Account
  <2>5. pc' = [pc EXCEPT ![t] = "idle"] /\ entry' = [entry EXCEPT ![t] = None]
    BY <1>10 DEF Account, Goto
  <2>6. /\ pc' \in [Threads -> PCs]
        /\ entry' \in [Threads -> Entry \cup {None}]
        /\ \A u \in Threads : pc'[u] \in {"fsync", "unlock", "account"} => entry'[u] \in Entry
    BY <2>5 DEF TypeOK, PCs
  <2>7. /\ count' \in [Instances -> Nat]
        /\ last' \in [Instances -> Digest]
        /\ size' \in [Instances -> Nat]
        /\ ilock' \in [Instances -> Threads \cup {None}]
    BY <1>10, <2>2, SMTT(20) DEF TypeOK, Account
  <2>. QED BY <1>10, <2>4, <2>6, <2>7 DEF TypeOK, Account
<1>11. ASSUME NEW t \in Threads, Raise(t) PROVE TypeOK'
  BY <1>11 DEF TypeOK, PCs, Raise, Goto, counters
<1>12. ASSUME NEW i \in Instances, Start(i) PROVE TypeOK'
  BY <1>12, LastHashType DEF TypeOK, Start
<1>13. ASSUME NEW i \in Instances, Flush(i) PROVE TypeOK'
  BY <1>13 DEF TypeOK, Flush, counters
<1>14. ASSUME NEW i \in Instances, Kill(i) PROVE TypeOK'
  <2>1. Stop({i}) /\ file' = file /\ durable' = durable
    BY <1>14 DEF Kill
  <2>2. \A x \in acks' : x \in Ack
    BY <1>14, BuriedFields DEF Kill, TypeOK
  <2>. QED BY <2>1, <2>2, StopType DEF TypeOK
<1>15. CASE PowerLoss
  <2>1. Stop(Instances)
    BY <1>15 DEF PowerLoss
  <2>2. PICK k \in durable..Len(file) : file' = SubSeq(file, 1, k) /\ durable' = k
    BY <1>15 DEF PowerLoss
  <2>3. file' \in Seq(Entry) /\ durable' \in Nat
    BY <2>2 DEF TypeOK
  <2>4. \A x \in acks' : x \in Ack
    BY <1>15, BuriedFields DEF PowerLoss, TypeOK
  <2>. QED BY <2>1, <2>3, <2>4, StopType DEF TypeOK
<1>16. CASE UNCHANGED vars
  BY <1>16 DEF TypeOK, vars
<1>. QED
  BY <1>1, <1>2, <1>3, <1>4, <1>5, <1>6, <1>7, <1>8, <1>9, <1>10, <1>11,
     <1>12, <1>13, <1>14, <1>15, <1>16 DEF Next, Step, Resync

\* Every variable of the protocol keeps its type, whatever the interleaving.
THEOREM LedgerTypeOK == Spec => []TypeOK
<1>1. Init => TypeOK
  BY NoneAssumption DEF Init, TypeOK, PCs, Digest, GENESIS
<1>. QED BY <1>1, TypeStep, PTL DEF Spec

-----------------------------------------------------------------------------
(* The inductive invariant, one lemma per part.                            *)

\* Taking a lock needs it free, so at most one thread is past it.
LEMMA LockingStep ==
    ASSUME TypeOK, Locking, [Next]_vars
    PROVE  Locking'
<1> USE InstanceOfAssumption, NoneAssumption
    DEF TypeOK, Locking, HoldsFile, HoldsInstance, Goto
<1>1. ASSUME NEW t \in Threads, Call(t) PROVE Locking'
  BY <1>1 DEF Call
<1>2. ASSUME NEW t \in Threads, Enter(t) PROVE Locking'
  <2>1. ASSUME NEW u \in Threads, u # t PROVE pc'[u] = pc[u]
    BY <1>2, <2>1 DEF Enter
  <2>2. pc'[t] = "lock" /\ ilock'[InstanceOf[t]] = t
    BY <1>2 DEF Enter
  <2>3. ASSUME NEW u \in Threads, u # t
        PROVE  ilock'[InstanceOf[u]] = u <=> ilock[InstanceOf[u]] = u
    BY <1>2, <2>3 DEF Enter
  <2>. QED BY <1>2, <2>1, <2>2, <2>3 DEF Enter
<1>3. ASSUME NEW t \in Threads, LockFile(t) PROVE Locking'
  <2>1. ASSUME NEW u \in Threads, u # t PROVE pc'[u] = pc[u] /\ pc[u] \notin HoldsFile
    BY <1>3, <2>1 DEF LockFile
  <2>2. pc[t] = "lock" /\ pc'[t] = "resync" /\ flock' = t /\ ilock' = ilock
    BY <1>3 DEF LockFile
  <2>. QED BY <2>1, <2>2
<1>4. ASSUME NEW t \in Threads,
             \/ Adopt(t) \/ Refuse(t) \/ (\E d \in Data : Write(t, d))
             \/ Fsync(t) \/ FsyncFails(t)
      PROVE  Locking'
  <2>1. \A u \in Threads : pc'[u] \in HoldsFile <=> pc[u] \in HoldsFile
    BY <1>4 DEF Adopt, Refuse, Write, Fsync, FsyncFails
  <2>2. \A u \in Threads : pc'[u] \in HoldsInstance <=> pc[u] \in HoldsInstance
    BY <1>4 DEF Adopt, Refuse, Write, Fsync, FsyncFails
  <2>3. flock' = flock /\ ilock' = ilock
    BY <1>4 DEF Adopt, Refuse, Write, Fsync, FsyncFails
  <2>. QED BY <2>1, <2>2, <2>3 DEF Locking
<1>5. ASSUME NEW t \in Threads, Unlock(t) PROVE Locking'
  BY <1>5 DEF Unlock
<1>6. ASSUME NEW t \in Threads, Account(t) PROVE Locking'
  BY <1>6 DEF Account
<1>7. ASSUME NEW t \in Threads, Raise(t) PROVE Locking'
  BY <1>7 DEF Raise
<1>8. ASSUME NEW i \in Instances, Start(i) \/ Flush(i) PROVE Locking'
  BY <1>8 DEF Start, Flush
<1>9. ASSUME NEW Dead, Stop(Dead) PROVE Locking'
  BY <1>9 DEF Stop
<1>10. CASE UNCHANGED vars
  BY <1>10 DEF vars
<1>. QED
  BY <1>1, <1>2, <1>3, <1>4, <1>5, <1>6, <1>7, <1>8, <1>9, <1>10
     DEF Next, Step, Resync, Kill, PowerLoss

\* Two threads are never both past the file lock, nor past the lock of the
\* instance they share.
LEMMA Exclusion ==
    ASSUME Locking, NEW t \in Threads, NEW u \in Threads, t # u
    PROVE  /\ pc[t] \in HoldsFile => pc[u] \notin HoldsFile
           /\ InstanceOf[t] = InstanceOf[u] /\ pc[t] \in HoldsInstance
                => pc[u] \notin HoldsInstance
BY DEF Locking

\* Write puts the writer's next entry after the lines that are there.
LEMMA WriteEffect ==
    ASSUME TypeOK, NEW t \in Threads, NEW d \in Data, Write(t, d)
    PROVE  LET i == InstanceOf[t] IN
           /\ entry'[t] = NewEntry(count[i], d, last[i]) /\ entry'[t] \in Entry
           /\ Len(file') = Len(file) + 1
           /\ \A k \in 1..Len(file) : file'[k] = file[k]
           /\ file'[Len(file) + 1] = entry'[t]
           /\ UNCHANGED <<durable, up, count, last, size, acks>>
<1> DEFINE e == NewEntry(count[InstanceOf[t]], d, last[InstanceOf[t]])
<1>1. e \in Entry
  BY NewEntryType, InstanceOfAssumption DEF TypeOK
<1>2. file' = Append(file, e) /\ entry'[t] = e
  BY DEF TypeOK, Write
<1>3. UNCHANGED <<durable, up, count, last, size, acks>>
  BY DEF Write, counters
<1> HIDE DEF e
<1>4. /\ Len(file') = Len(file) + 1
      /\ \A k \in 1..Len(file) : file'[k] = file[k]
      /\ file'[Len(file) + 1] = e
  BY <1>1, <1>2 DEF TypeOK
<1>. QED BY <1>1, <1>2, <1>3, <1>4 DEF e

\* The counters of every instance keep describing a prefix of the file.
LEMMA AccountedStep ==
    ASSUME TypeOK, Accounted, InFlight, [Next]_vars
    PROVE  Accounted'
<1> USE InstanceOfAssumption DEF TypeOK, Accounted, Goto
<1>1. ASSUME UNCHANGED <<file, counters>> PROVE Accounted'
  BY <1>1 DEF counters
<1>2. ASSUME NEW t \in Threads, Adopt(t) PROVE Accounted'
  <2> DEFINE i == InstanceOf[t]
             l == IF Len(file) = size[i] THEN last[i] ELSE LastHash(file)
  <2>1. size[i] <= Len(file) /\ count[i] = size[i]
    OBVIOUS
  <2>2. l = IF Len(file) = 0 THEN GENESIS ELSE file[Len(file)].self_hash
    BY <2>1 DEF LastHash
  <2> HIDE DEF l
  <2>3. /\ file' = file
        /\ count' = [count EXCEPT ![i] = count[i] + (Len(file) - size[i])]
        /\ last' = [last EXCEPT ![i] = l]
        /\ size' = [size EXCEPT ![i] = Len(file)]
    BY <1>2 DEF Adopt, l
  <2>4. count'[i] = Len(file) /\ last'[i] = l /\ size'[i] = Len(file)
    BY <2>1, <2>3
  <2>5. \A j \in Instances : j # i =>
            count'[j] = count[j] /\ last'[j] = last[j] /\ size'[j] = size[j]
    BY <2>3
  <2>6. file' = file /\ Len(file) \in Nat
    BY <2>3
  <2>7. ASSUME NEW j \in Instances
        PROVE  /\ size'[j] <= Len(file)
               /\ count'[j] = size'[j]
               /\ last'[j] = IF size'[j] = 0 THEN GENESIS ELSE file[size'[j]].self_hash
    BY <2>2, <2>4, <2>5, <2>6
  <2>. QED BY <2>6, <2>7
<1>3. ASSUME NEW t \in Threads, NEW d \in Data, Write(t, d) PROVE Accounted'
  BY <1>3, WriteEffect
<1>4. ASSUME NEW t \in Threads, Account(t) PROVE Accounted'
  <2> DEFINE i == InstanceOf[t]
  <2>1. size[i] < Len(file) /\ file[size[i] + 1] = entry[t]
    BY <1>4 DEF Account, InFlight
  <2>2. /\ file' = file
        /\ count' = [count EXCEPT ![i] = count[i] + 1]
        /\ last' = [last EXCEPT ![i] = entry[t].self_hash]
        /\ size' = [size EXCEPT ![i] = size[i] + 1]
    BY <1>4 DEF Account
  <2>. QED BY <2>1, <2>2
<1>5. ASSUME NEW i \in Instances, Start(i) PROVE Accounted'
  BY <1>5 DEF Start, LastHash
<1>6. ASSUME NEW i \in Instances, Kill(i) PROVE Accounted'
  BY <1>6 DEF Kill, Stop
<1>7. CASE PowerLoss
  <2>1. PICK k \in durable..Len(file) : file' = SubSeq(file, 1, k)
    BY <1>7 DEF PowerLoss
  <2>2. Len(file') \in Nat
    BY <2>1
  <2>3. \A i \in Instances : count'[i] = 0 /\ last'[i] = GENESIS /\ size'[i] = 0
    BY <1>7 DEF PowerLoss, Stop
  <2>. QED BY <2>2, <2>3
<1>. QED
  BY <1>1, <1>2, <1>3, <1>4, <1>5, <1>6, <1>7
     DEF Next, Step, Resync, Call, Enter, LockFile, Refuse, Fsync, FsyncFails, Unlock,
         Raise, Flush, vars, counters

\* No step but a power loss shortens the file, and none but Write extends it.
LEMMA DurableStep ==
    ASSUME TypeOK, durable <= Len(file), [Next]_vars
    PROVE  durable' <= Len(file')
<1> USE DEF TypeOK
<1>1. ASSUME NEW t \in Threads, NEW d \in Data, Write(t, d) PROVE durable' <= Len(file')
  <2>1. Len(file') = Len(file) + 1 /\ durable' = durable
    BY <1>1, WriteEffect
  <2>. QED BY <2>1
<1>2. CASE PowerLoss
  <2>1. PICK k \in durable..Len(file) : file' = SubSeq(file, 1, k) /\ durable' = k
    BY <1>2 DEF PowerLoss
  <2>. QED BY <2>1
<1>3. CASE file' = file /\ (durable' = durable \/ durable' = Len(file))
  BY <1>3
<1>. QED
  BY <1>1, <1>2, <1>3, Zenon DEF Next, Step, Resync, Call, Enter, LockFile, Adopt, Refuse, Fsync,
     FsyncFails, Unlock, Account, Raise, Start, Flush, Kill, vars

\* The line of an append under way stays where its instance expects it, and
\* reaches the disk before it is returned unless it is counted as pending.
LEMMA InFlightStep ==
    ASSUME TypeOK, durable <= Len(file), Locking, Accounted, InFlight, [Next]_vars
    PROVE  InFlight'
<1> USE InstanceOfAssumption, NoneAssumption DEF Goto
<1> DEFINE Good(t) == LET i == InstanceOf[t] IN
      /\ pc[t] # "idle" => up[i]
      /\ pc[t] = "write" => size[i] = Len(file)
      /\ pc[t] \in {"fsync", "unlock", "account"} =>
            size[i] < Len(file) /\ file[size[i] + 1] = entry[t]
      /\ pc[t] \in {"unlock", "account"} /\ pending[i] = 0 => size[i] < durable
<1>0. \A t \in Threads : Good(t)
  BY DEF InFlight
<1>1. \A i \in Instances : i \notin Batch => pending'[i] = 0
  <2> SUFFICES ASSUME NEW k \in Instances, k \notin Batch PROVE pending'[k] = 0
    OBVIOUS
  <2>1. pending[k] = 0
    BY DEF InFlight
  <2>2. ASSUME NEW t \in Threads, NEW d \in Data, Write(t, d) PROVE pending'[k] = 0
    BY <2>1, <2>2 DEF Write, TypeOK
  <2>3. ASSUME NEW t \in Threads, Fsync(t) PROVE pending'[k] = 0
    BY <2>1, <2>3 DEF Fsync, TypeOK
  <2>4. ASSUME NEW i \in Instances, Flush(i) \/ Kill(i) PROVE pending'[k] = 0
    BY <2>1, <2>4 DEF Flush, Kill, Stop, TypeOK
  <2>5. CASE PowerLoss
    BY <2>5 DEF PowerLoss, Stop
  <2>6. CASE pending' = pending
    BY <2>1, <2>6
  <2>. QED
    BY <2>2, <2>3, <2>4, <2>5, <2>6, Zenon DEF Next, Step, Resync, Call, Enter, LockFile, Adopt,
       Refuse, FsyncFails, Unlock, Account, Raise, Start, vars
<1> SUFFICES ASSUME NEW u \in Threads PROVE Good(u)'
  BY <1>1 DEF InFlight
<1> DEFINE j == InstanceOf[u]
<1>2. ASSUME NEW t \in Threads, Adopt(t) PROVE Good(u)'
  <2>1. CASE u = t
    BY <1>2, <2>1, <1>0 DEF Adopt, TypeOK
  <2>2. CASE u # t /\ j = InstanceOf[t]
    BY <1>2, <2>2, <1>0, Exclusion DEF Adopt, TypeOK, HoldsFile, HoldsInstance
  <2>3. CASE j # InstanceOf[t]
    BY <1>2, <2>3, <1>0 DEF Adopt, TypeOK
  <2>. QED BY <2>1, <2>2, <2>3
<1>3. ASSUME NEW t \in Threads, NEW d \in Data, Write(t, d) PROVE Good(u)'
  <2>1. CASE u = t
    <3>1. pc[t] = "write" /\ size[j] = Len(file) /\ up[j]
      BY <1>0, <1>3, <2>1 DEF Write
    <3>2. pc'[t] = IF FsyncDue(j, pending'[j]) THEN "fsync" ELSE "unlock"
      BY <1>3, <2>1 DEF Write, TypeOK
    <3>3. pc'[t] = "unlock" => pending'[j] # 0
      <4>1. j \in Batch => pending'[j] = pending[j] + 1 /\ pending[j] \in Nat
        BY <1>3, <2>1 DEF Write, TypeOK
      <4>. QED BY <3>2, <4>1 DEF FsyncDue
    <3>4. /\ size' = size /\ up' = up /\ Len(file') = Len(file) + 1
          /\ file'[Len(file) + 1] = entry'[t]
      BY <1>3, WriteEffect
    <3>5. Len(file) \in Nat
      BY DEF TypeOK
    <3>6. size'[j] = Len(file) /\ up'[j] /\ file'[Len(file) + 1] = entry'[u]
      BY <2>1, <3>1, <3>4
    <3>8. size'[j] < Len(file')
      BY <3>4, <3>5, <3>6
    <3>7. pc'[u] \in {"fsync", "unlock"} /\ (pc'[u] = "unlock" => pending'[j] # 0)
      BY <2>1, <3>2, <3>3
    <3>. QED BY <3>6, <3>7, <3>8
  <2>2. CASE u # t
    <3>1. pc'[u] = pc[u] /\ pc[u] \notin HoldsFile /\ entry'[u] = entry[u]
      BY <1>3, <2>2, Exclusion DEF Write, TypeOK, HoldsFile
    <3>2. pc[u] = "account" => pending'[j] = pending[j]
      BY <1>3, <2>2, Exclusion DEF Write, TypeOK, HoldsFile, HoldsInstance
    <3>3. size[j] \in Nat /\ Len(file) \in Nat
      BY DEF TypeOK
    <3>. QED BY <1>0, <1>3, <3>1, <3>2, <3>3, WriteEffect DEF HoldsFile
  <2>. QED BY <2>1, <2>2
<1>4. ASSUME NEW t \in Threads, Fsync(t) PROVE Good(u)'
  <2>1. CASE u = t
    BY <1>4, <2>1, <1>0 DEF Fsync, TypeOK, counters
  <2>2. CASE u # t /\ j = InstanceOf[t]
    BY <1>4, <2>2, <1>0, Exclusion DEF Fsync, TypeOK, HoldsFile, HoldsInstance, counters
  <2>3. CASE j # InstanceOf[t]
    BY <1>4, <2>3, <1>0 DEF Fsync, TypeOK, counters
  <2>. QED BY <2>1, <2>2, <2>3
<1>5. ASSUME NEW t \in Threads, Account(t) PROVE Good(u)'
  <2>1. CASE u = t
    BY <1>5, <2>1 DEF Account, TypeOK
  <2>2. CASE u # t /\ j = InstanceOf[t]
    BY <1>5, <2>2, <1>0, Exclusion DEF Account, TypeOK, HoldsFile, HoldsInstance
  <2>3. CASE j # InstanceOf[t]
    BY <1>5, <2>3, <1>0 DEF Account, TypeOK
  <2>. QED BY <2>1, <2>2, <2>3
<1>6. ASSUME NEW t \in Threads,
             \/ Call(t) \/ Enter(t) \/ LockFile(t) \/ Refuse(t)
             \/ FsyncFails(t) \/ Unlock(t) \/ Raise(t)
      PROVE  Good(u)'
  <2>1. /\ file' = file /\ durable' = durable /\ up' = up
        /\ size' = size /\ pending' = pending
    BY <1>6 DEF Call, Enter, LockFile, Refuse, FsyncFails, Unlock, Raise, counters
  <2>2. u # t => pc'[u] = pc[u] /\ entry'[u] = entry[u]
    BY <1>6 DEF Call, Enter, LockFile, Refuse, FsyncFails, Unlock, Raise, TypeOK
  <2>3. pc'[t] \notin {"write", "fsync", "unlock"}
    BY <1>6 DEF Call, Enter, LockFile, Refuse, FsyncFails, Unlock, Raise, TypeOK
  <2>4. pc'[t] = "account" => pc[t] = "unlock" /\ entry' = entry
    BY <1>6 DEF Call, Enter, LockFile, Refuse, FsyncFails, Unlock, Raise, TypeOK
  <2>5. pc'[t] # "idle" => up[InstanceOf[t]]
    BY <1>0, <1>6 DEF Call, Enter, LockFile, Refuse, FsyncFails, Unlock, Raise, TypeOK
  <2>. QED BY <1>0, <2>1, <2>2, <2>3, <2>4, <2>5
<1>7. ASSUME NEW i \in Instances, Start(i) PROVE Good(u)'
  BY <1>0, <1>7 DEF Start, TypeOK
<1>8. ASSUME NEW i \in Instances, Flush(i) PROVE Good(u)'
  <2>1. CASE j = i
    BY <1>0, <1>8, <2>1 DEF Flush, TypeOK, Locking, HoldsFile, HoldsInstance, counters
  <2>2. CASE j # i
    BY <1>0, <1>8, <2>2 DEF Flush, TypeOK, counters
  <2>. QED BY <2>1, <2>2
<1>9. ASSUME NEW i \in Instances, Kill(i) PROVE Good(u)'
  BY <1>0, <1>9 DEF Kill, Stop, TypeOK
<1>10. CASE PowerLoss
  BY <1>10 DEF PowerLoss, Stop
<1>11. CASE UNCHANGED vars
  BY <1>0, <1>11 DEF vars
<1>. QED
  BY <1>2, <1>3, <1>4, <1>5, <1>6, <1>7, <1>8, <1>9, <1>10, <1>11 DEF Next, Step, Resync

\* The file is a verified chain after every step.
LEMMA ChainValidStep ==
    ASSUME TypeOK, durable <= Len(file), Accounted, InFlight, ChainValid, [Next]_vars
    PROVE  ChainValid'
<1> USE DEF ChainValid, VerifyText, PrevOf
<1>1. CASE file' = file
  BY <1>1
<1>2. ASSUME NEW t \in Threads, NEW d \in Data, Write(t, d) PROVE ChainValid'
  <2> DEFINE i == InstanceOf[t]
             n == Len(file)
  <2>1. i \in Instances /\ n \in Nat
    BY InstanceOfAssumption DEF TypeOK
  <2>2. pc[t] = "write"
    BY <1>2 DEF Write, Goto
  <2>3. count[i] = n /\ last[i] = IF n = 0 THEN GENESIS ELSE file[n].self_hash
    BY <2>1, <2>2 DEF InFlight, Accounted
  <2>4. file'[n + 1] = NewEntry(n, d, last[i])
    BY <1>2, <2>3, WriteEffect
  <2>5. /\ file'[n + 1].idx = n
        /\ file'[n + 1].prev_hash = last[i]
        /\ file'[n + 1].self_hash =
              HashEntry(file'[n + 1].idx, file'[n + 1].data, file'[n + 1].prev_hash)
    BY <2>4 DEF NewEntry
  <2>6. Len(file') = n + 1 /\ \A k \in 1..n : file'[k] = file[k]
    BY <1>2, WriteEffect
  <2>7. ASSUME NEW k \in 1..Len(file')
        PROVE  /\ file'[k].idx = k - 1
               /\ file'[k].prev_hash = IF k = 1 THEN GENESIS ELSE file'[k - 1].self_hash
               /\ file'[k].self_hash =
                     HashEntry(file'[k].idx, file'[k].data, file'[k].prev_hash)
    <3>1. CASE k \in 1..n
      <4>1. k # 1 => file'[k - 1] = file[k - 1]
        BY <2>1, <2>6, <3>1
      <4>. QED BY <2>6, <3>1, <4>1
    <3>2. CASE k = n + 1
      <4>1. k # 1 => file'[k - 1] = file[n] /\ n # 0
        BY <2>1, <2>6, <3>2
      <4>2. k = 1 => n = 0
        BY <2>1, <3>2
      <4>. QED BY <2>1, <2>3, <2>5, <3>2, <4>1, <4>2
    <3>. QED BY <2>1, <2>6, <3>1, <3>2
  <2>. QED BY <2>7
<1>3. CASE PowerLoss
  <2>1. PICK k \in durable..Len(file) : file' = SubSeq(file, 1, k)
    BY <1>3 DEF PowerLoss
  <2>2. k \in Nat /\ k <= Len(file) /\ Len(file') = k
    BY <2>1 DEF TypeOK
  <2>3. \A n \in 1..k : file'[n] = file[n]
    BY <2>1, <2>2 DEF TypeOK
  <2>4. ASSUME NEW n \in 1..k
        PROVE  PrevOf(file', n) = PrevOf(file, n) /\ n \in 1..Len(file)
    BY <2>2, <2>3 DEF TypeOK
  <2>. QED BY <2>2, <2>3, <2>4
<1>. QED
  BY <1>1, <1>2, <1>3, Zenon DEF Next, Step, Resync, Call, Enter, LockFile, Adopt, Refuse,
     Fsync, FsyncFails, Unlock, Account, Raise, Start, Flush, Kill, vars

\* An append that returns has its line at its idx, and on the disk unless its
\* instance counts it as pending.
LEMMA AccountEffect ==
    ASSUME IInv, NEW t \in Threads, Account(t)
    PROVE  LET i == InstanceOf[t] IN
           /\ i \in Instances
           /\ acks' = acks \cup {[by |-> i, live |-> TRUE, entry |-> entry[t]]}
           /\ entry[t].idx \in Nat
           /\ entry[t].idx < Len(file)
           /\ file[entry[t].idx + 1] = entry[t]
           /\ pending[i] = 0 => entry[t].idx < durable
           /\ i \notin Batch => pending[i] = 0
           /\ UNCHANGED <<file, durable, pending>>
<1> DEFINE i == InstanceOf[t]
<1>1. i \in Instances /\ size[i] \in Nat /\ Len(file) \in Nat
  BY InstanceOfAssumption DEF IInv, TypeOK
<1>2. pc[t] = "account"
  BY DEF Account, Goto
<1>3. size[i] < Len(file) /\ file[size[i] + 1] = entry[t]
  BY <1>2 DEF IInv, InFlight
<1>4. pending[i] = 0 => size[i] < durable
  BY <1>2 DEF IInv, InFlight
<1>5. size[i] + 1 \in 1..Len(file)
  BY <1>1, <1>3
<1>6. entry[t].idx = size[i]
  BY <1>1, <1>3, <1>5 DEF IInv, ChainValid, VerifyText
<1>. QED BY <1>1, <1>3, <1>4, <1>6 DEF Account, IInv, InFlight

\* What append() returned stays on the file and, when it was promised, on the
\* disk: the other writers only add lines, and a power loss keeps the prefix
\* that the fsync before the return covered.
LEMMA PromiseStep ==
    ASSUME IInv, [Next]_vars
    PROVE  ReturnedIsOnFile' /\ SyncIsDurable' /\ NothingPendingNothingAtRisk'
<1> USE DEF ReturnedIsOnFile, SyncIsDurable, NothingPendingNothingAtRisk, AtRisk
<1>0. /\ \A a \in acks : a \in Ack /\ a.entry.idx \in Nat
      /\ Len(file) \in Nat /\ durable \in Nat /\ durable <= Len(file)
      /\ ReturnedIsOnFile /\ SyncIsDurable /\ NothingPendingNothingAtRisk
  BY DEF IInv, TypeOK, Ack, Entry
<1>1. CASE UNCHANGED <<file, durable, pending, acks>>
  BY <1>0, <1>1
<1>2. ASSUME NEW t \in Threads, NEW d \in Data, Write(t, d)
      PROVE  ReturnedIsOnFile' /\ SyncIsDurable' /\ NothingPendingNothingAtRisk'
  <2> DEFINE i == InstanceOf[t]
  <2>1. /\ acks' = acks /\ durable' = durable /\ Len(file') = Len(file) + 1
        /\ \A k \in 1..Len(file) : file'[k] = file[k]
    BY <1>2, WriteEffect DEF IInv
  <2>2. \A a \in acks : a.entry.idx + 1 \in 1..Len(file)
    BY <1>0
  <2>3. ASSUME NEW k \in Instances, pending'[k] = 0 PROVE pending[k] = 0
    <3>1. i \in Instances /\ pending[i] \in Nat
      BY InstanceOfAssumption DEF IInv, TypeOK
    <3>2. i \notin Batch => pending[i] = 0
      BY <3>1 DEF IInv, InFlight
    <3>. QED BY <1>2, <2>3, <3>1, <3>2 DEF Write, IInv, TypeOK
  <2>. QED BY <1>0, <2>1, <2>2, <2>3
<1>3. ASSUME durable' = Len(file), UNCHANGED <<file, acks>>
      PROVE  ReturnedIsOnFile' /\ SyncIsDurable' /\ NothingPendingNothingAtRisk'
  BY <1>0, <1>3
<1>4. ASSUME NEW t \in Threads, Account(t)
      PROVE  ReturnedIsOnFile' /\ SyncIsDurable' /\ NothingPendingNothingAtRisk'
  BY <1>0, <1>4, AccountEffect
<1>5. ASSUME NEW i \in Instances, Kill(i)
      PROVE  ReturnedIsOnFile' /\ SyncIsDurable' /\ NothingPendingNothingAtRisk'
  <2>1. /\ file' = file /\ durable' = durable
        /\ acks' = {Buried(a, {i}) : a \in acks}
    BY <1>5 DEF Kill
  <2>2. \A k \in Instances : k # i => pending'[k] = pending[k]
    BY <1>5 DEF Kill, Stop, IInv, TypeOK
  <2>3. ASSUME NEW x \in acks'
        PROVE  \E a \in acks : /\ x.entry = a.entry /\ x.by = a.by
                               /\ x.live => a.live /\ a.by # i
    BY <1>0, <2>1, BuriedFields
  <2>4. ASSUME NEW x \in acks'
        PROVE  /\ x.entry.idx < Len(file) /\ file[x.entry.idx + 1] = x.entry
               /\ x.by \notin Batch => x.entry.idx < durable
    <3>1. PICK a \in acks : x.entry = a.entry /\ x.by = a.by
      BY <2>3
    <3>. QED BY <1>0, <3>1, Zenon
  <2>5. ASSUME NEW k \in Instances, pending'[k] = 0,
               NEW x \in acks', x.by = k, x.live, x.entry.idx >= durable
        PROVE  FALSE
    BY <1>0, <2>2, <2>3, <2>5
  <2>. QED BY <2>1, <2>4, <2>5
<1>6. CASE PowerLoss
  <2>1. PICK k \in durable..Len(file) :
          /\ file' = SubSeq(file, 1, k)
          /\ durable' = k
          /\ acks' = {Buried(a, Instances) :
                        a \in {b \in acks : b.by \notin Batch \/ b.entry.idx < k}}
    BY <1>6 DEF PowerLoss
  <2>2. /\ k \in Nat /\ durable <= k /\ Len(file') = k
        /\ \A n \in 1..k : file'[n] = file[n]
    BY <1>0, <2>1 DEF IInv, TypeOK
  <2>3. ASSUME NEW x \in acks'
        PROVE  \E a \in acks : /\ a.by \notin Batch \/ a.entry.idx < k
                               /\ x.entry = a.entry /\ x.by = a.by
                               /\ x.by \in Instances /\ ~x.live
    <3>1. PICK a \in acks : /\ a.by \notin Batch \/ a.entry.idx < k
                            /\ x = Buried(a, Instances)
      BY <2>1, <2>3
    <3>2. a \in Ack /\ a.by \in Instances
      BY <1>0 DEF Ack
    <3>3. x \in Ack /\ x.entry = a.entry /\ x.by = a.by /\ ~x.live
      BY <3>1, <3>2, BuriedFields DEF Ack
    <3>. QED BY <3>1, <3>2, <3>3
  <2>4. ASSUME NEW x \in acks'
        PROVE  x.entry.idx \in Nat /\ x.entry.idx < k /\ file[x.entry.idx + 1] = x.entry
    BY <1>0, <2>2, <2>3, <2>4
  <2>. QED BY <2>1, <2>2, <2>3, <2>4
<1>. QED
  <2>1. ASSUME NEW t \in Threads, Fsync(t) PROVE durable' = Len(file) /\ UNCHANGED <<file, acks>>
    BY <2>1 DEF Fsync
  <2>2. ASSUME NEW i \in Instances, Flush(i)
        PROVE  durable' = Len(file) /\ UNCHANGED <<file, acks>>
    BY <2>2 DEF Flush
  <2>. QED
    BY <1>1, <1>2, <1>3, <1>4, <1>5, <1>6, <2>1, <2>2, Zenon DEF Next, Step, Resync, Call,
       Enter, LockFile, Adopt, Refuse, FsyncFails, Unlock, Raise, Start, vars

-----------------------------------------------------------------------------
\* The inductive invariant holds of every behavior of the protocol.
THEOREM LedgerInvariant == Spec => []IInv
<1>1. Init => IInv
  BY InstanceOfAssumption, NoneAssumption
     DEF Init, IInv, TypeOK, PCs, Digest, GENESIS, Locking, HoldsFile, HoldsInstance,
         Accounted, InFlight, ChainValid, VerifyText, ReturnedIsOnFile,
         SyncIsDurable, NothingPendingNothingAtRisk, AtRisk
<1>2. IInv /\ [Next]_vars => IInv'
  <2> SUFFICES ASSUME IInv, [Next]_vars PROVE IInv'
    OBVIOUS
  <2>1. TypeOK' /\ durable' <= Len(file')
    BY TypeStep, DurableStep DEF IInv
  <2>2. Locking' /\ Accounted' /\ InFlight'
    BY LockingStep, AccountedStep, InFlightStep DEF IInv
  <2>3. ChainValid'
    BY ChainValidStep DEF IInv
  <2>. QED BY <2>1, <2>2, <2>3, PromiseStep DEF IInv
<1>. QED BY <1>1, <1>2, PTL DEF Spec

\* verify() succeeds on every file the protocol leaves, at every step and
\* after every crash.
THEOREM LedgerChainValid == Spec => []ChainValid
<1>1. IInv => ChainValid
  BY DEF IInv
<1>. QED BY <1>1, LedgerInvariant, PTL

\* No returned entry is ever replaced by another.
THEOREM LedgerReturned == Spec => []ReturnedIsOnFile
<1>1. IInv => ReturnedIsOnFile
  BY DEF IInv
<1>. QED BY <1>1, LedgerInvariant, PTL

\* No power loss takes an entry that a "sync" append returned.
THEOREM LedgerSyncIsDurable == Spec => []SyncIsDurable
<1>1. IInv => SyncIsDurable
  BY DEF IInv
<1>. QED BY <1>1, LedgerInvariant, PTL

\* After flush() nothing its instance returned is at risk.
THEOREM LedgerNothingAtRisk == Spec => []NothingPendingNothingAtRisk
<1>1. IInv => NothingPendingNothingAtRisk
  BY DEF IInv
<1>. QED BY <1>1, LedgerInvariant, PTL

-----------------------------------------------------------------------------
(* Refinement: every step is a step of DurableLog or leaves it alone.      *)

\* Burying acknowledgements, or dropping those of batch writers, does not
\* change which positions are promised.
LEMMA PromisedOf ==
    ASSUME \A x \in acks' : \E a \in acks : a.entry = x.entry /\ a.by = x.by,
           \A a \in acks : a.by \notin Batch =>
                \E x \in acks' : a.entry = x.entry /\ a.by = x.by
    PROVE  Promised' = Promised
<1>1. ASSUME NEW p \in Promised PROVE p \in Promised'
  BY <1>1 DEF Promised
<1>2. ASSUME NEW p \in Promised' PROVE p \in Promised
  BY <1>2 DEF Promised
<1>. QED BY <1>1, <1>2

\* One step of the protocol is one step of the promised log, or none.
LEMMA RefinementStep ==
    ASSUME IInv, IInv', [Next]_vars
    PROVE  [Abstract!Next]_<<Log, durable, Promised>>
<1>0. /\ file \in Seq(Entry) /\ Len(file) \in Nat /\ durable \in Nat
      /\ file' \in Seq(Entry) /\ Len(file') \in Nat
      /\ \A a \in acks : a \in Ack
      /\ durable <= Len(file)
  BY DEF IInv, TypeOK
<1>1. CASE UNCHANGED <<file, durable, acks>>
  BY <1>1 DEF Log, Promised
<1>2. ASSUME NEW t \in Threads, NEW d \in Data, Write(t, d) PROVE Abstract!Extend(d)
  <2>1. /\ Len(file') = Len(file) + 1
        /\ \A k \in 1..Len(file) : file'[k] = file[k]
        /\ file'[Len(file) + 1].data = d
        /\ UNCHANGED <<durable, acks>>
    <3>1. TypeOK
      BY DEF IInv
    <3>2. entry'[t].data = d
      <4>1. entry'[t] = NewEntry(count[InstanceOf[t]], d, last[InstanceOf[t]])
        BY <1>2, <3>1, WriteEffect
      <4>. QED BY <4>1 DEF NewEntry
    <3>. QED BY <1>2, <3>1, <3>2, WriteEffect
  <2>2. Log' = Append(Log, d)
    BY <1>0, <2>1 DEF Log
  <2>. QED BY <2>1, <2>2 DEF Abstract!Extend, Promised
<1>3. ASSUME durable' = Len(file), UNCHANGED <<file, acks>> PROVE Abstract!Persist
  BY <1>0, <1>3 DEF Abstract!Persist, Log, Promised
<1>4. ASSUME NEW t \in Threads, Account(t)
      PROVE  \/ \E p \in 1..durable : Abstract!Promise(p)
             \/ UNCHANGED <<Log, durable, Promised>>
  <2> DEFINE i == InstanceOf[t]
             p == entry[t].idx + 1
  <2>1. /\ acks' = acks \cup {[by |-> i, live |-> TRUE, entry |-> entry[t]]}
        /\ UNCHANGED <<file, durable>> /\ entry[t].idx \in Nat
        /\ i \notin Batch => entry[t].idx < durable
    BY <1>4, AccountEffect
  <2>2. Log' = Log /\ durable' = durable
    BY <2>1 DEF Log
  <2>3. CASE i \in Batch
    BY <2>1, <2>2, <2>3 DEF Promised
  <2>4. CASE i \notin Batch
    <3>1. p \in 1..durable
      BY <1>0, <2>1, <2>4
    <3>2. Promised' = Promised \cup {p}
      <4> DEFINE a == [by |-> i, live |-> TRUE, entry |-> entry[t]]
      <4>1. a.by = i /\ a.entry.idx + 1 = p
        OBVIOUS
      <4> HIDE DEF a
      <4>. QED BY <2>1, <2>4, <4>1, Zenon DEF Promised, a
    <3>. QED BY <2>2, <3>1, <3>2 DEF Abstract!Promise
  <2>. QED BY <2>3, <2>4
<1>5. ASSUME NEW i \in Instances, Kill(i) PROVE UNCHANGED <<Log, durable, Promised>>
  <2>1. file' = file /\ durable' = durable /\ acks' = {Buried(a, {i}) : a \in acks}
    BY <1>5 DEF Kill
  <2>2. \A a \in acks : Buried(a, {i}).entry = a.entry /\ Buried(a, {i}).by = a.by
    BY <1>0, BuriedFields
  <2>3. Promised' = Promised
    BY <2>1, <2>2, PromisedOf
  <2>. QED BY <2>1, <2>3 DEF Log
<1>6. CASE PowerLoss
  <2>1. PICK k \in durable..Len(file) :
          /\ file' = SubSeq(file, 1, k)
          /\ durable' = k
          /\ acks' = {Buried(a, Instances) :
                        a \in {b \in acks : b.by \notin Batch \/ b.entry.idx < k}}
    BY <1>6 DEF PowerLoss
  <2>2. \A a \in acks : /\ Buried(a, Instances).entry = a.entry
                        /\ Buried(a, Instances).by = a.by
    BY <1>0, BuriedFields
  <2>3. Promised' = Promised
    BY <2>1, <2>2, PromisedOf
  <2>4. /\ k \in Nat /\ k <= Len(file) /\ Len(file') = k
        /\ \A n \in 1..k : file'[n] = file[n]
    BY <1>0, <2>1
  <2>5. Log' = SubSeq(Log, 1, k) /\ Len(Log) = Len(file)
    <3>1. /\ Log = [n \in 1..Len(file) |-> file[n].data]
          /\ Log' = [n \in 1..k |-> file'[n].data]
      BY <2>4 DEF Log
    <3>2. Log' = [n \in 1..k |-> Log[n]] /\ Len(Log) = Len(file)
      BY <1>0, <2>4, <3>1
    <3>3. SubSeq(Log, 1, k) = [n \in 1..k |-> Log[n]]
      BY <1>0, <2>4, <3>1
    <3>. QED BY <3>2, <3>3
  <2>. QED BY <2>1, <2>3, <2>5 DEF Abstract!Next, Abstract!Crash
<1>. QED
  <2>1. ASSUME NEW t \in Threads, Fsync(t) PROVE durable' = Len(file) /\ UNCHANGED <<file, acks>>
    BY <2>1 DEF Fsync
  <2>2. ASSUME NEW i \in Instances, Flush(i)
        PROVE  durable' = Len(file) /\ UNCHANGED <<file, acks>>
    BY <2>2 DEF Flush
  <2>. QED
    BY <1>1, <1>2, <1>3, <1>4, <1>5, <1>6, <2>1, <2>2, Zenon DEF Abstract!Next, Next, Step, Resync,
       Call, Enter, LockFile, Adopt, Refuse, FsyncFails, Unlock, Raise, Start, vars

\* The write protocol implements the promised log, for any number of threads
\* and processes and across any number of crashes.
THEOREM LedgerImplementsDurableLog == Spec => ImplementsDurableLog
<1>1. Init => Abstract!Init
  BY DEF Init, Abstract!Init, Log, Promised
<1>2. IInv /\ IInv' /\ [Next]_vars => [Abstract!Next]_<<Log, durable, Promised>>
  BY RefinementStep
<1>. QED BY <1>1, <1>2, LedgerInvariant, PTL DEF Spec, ImplementsDurableLog, Abstract!Spec, Abstract!vars

-----------------------------------------------------------------------------
(* The crash window of a batch writer.                                     *)

\* The threads of i whose line is written, not yet returned, and not on the disk.
Unreturned(i) == {t \in Threads : /\ InstanceOf[t] = i /\ pc[t] \in {"unlock", "account"}
                                  /\ entry[t].idx >= durable}

\* What is at risk was counted, and the count had not reached the batch size.
Window(i) ==
    /\ IsFiniteSet(AtRisk(i))
    /\ Cardinality(AtRisk(i)) < BatchSize
    /\ Cardinality(AtRisk(i)) <= pending[i]
    /\ Unreturned(i) # {} => Cardinality(AtRisk(i)) + 1 < BatchSize /\ Cardinality(AtRisk(i)) + 1 <= pending[i]

\* Fewer at risk, as many counted.
LEMMA WindowShrinks ==
    ASSUME NEW i \in Batch, Window(i), pending[i] \in Nat, pending'[i] = pending[i],
           AtRisk(i)' \subseteq AtRisk(i), Unreturned(i)' \subseteq Unreturned(i)
    PROVE  Window(i)'
  <1>1. /\ IsFiniteSet(AtRisk(i)') /\ Cardinality(AtRisk(i)') <= Cardinality(AtRisk(i))
        /\ Cardinality(AtRisk(i)) \in Nat /\ Cardinality(AtRisk(i)') \in Nat
    BY FS_Subset, FS_CardinalityType DEF Window
  <1>2. BatchSize \in Nat
    BY BatchAssumption
  <1> QED BY <1>1, <1>2 DEF Window

\* Nothing at risk, and nobody with a line that is.
LEMMA WindowEmpty ==
    ASSUME NEW i \in Batch, AtRisk(i)' = {}, Unreturned(i)' = {}, pending'[i] \in Nat
    PROVE  Window(i)'
  <1>1. IsFiniteSet({}) /\ Cardinality({}) = 0
    BY FS_EmptySet
  <1>2. BatchSize \in Nat \ {0}
    BY BatchAssumption
  <1> QED BY <1>1, <1>2 DEF Window

\* The window holds of every batch writer after every step.
LEMMA WindowStep ==
    ASSUME IInv, IInv', [Next]_vars, NEW i \in Batch, Window(i)
    PROVE  Window(i)'
<1>0. /\ i \in Instances /\ pending[i] \in Nat /\ pending'[i] \in Nat /\ BatchSize \in Nat \ {0}
      /\ durable \in Nat /\ durable' \in Nat /\ Len(file) \in Nat /\ Cardinality(AtRisk(i)) \in Nat
      /\ pending' \in [Instances -> Nat] /\ pending \in [Instances -> Nat]
      /\ \A t \in Threads : InstanceOf[t] \in Instances
  <2>1. i \in Instances /\ BatchSize \in Nat \ {0} /\ \A t \in Threads : InstanceOf[t] \in Instances
    BY BatchAssumption, InstanceOfAssumption
  <2>2. /\ pending \in [Instances -> Nat] /\ durable \in Nat /\ file \in Seq(Entry)
        /\ pending' \in [Instances -> Nat] /\ durable' \in Nat
    BY DEF IInv, TypeOK
  <2>3. Cardinality(AtRisk(i)) \in Nat
    BY FS_CardinalityType DEF Window
  <2> QED BY <2>1, <2>2, <2>3
<1>1. \A a \in acks : a.entry.idx \in Nat /\ a.entry.idx < Len(file)
  BY DEF IInv, TypeOK, Ack, Entry, ReturnedIsOnFile
<1>2. ASSUME NEW t \in Threads, NEW u \in Threads, InstanceOf[t] = InstanceOf[u],
             pc[t] \in HoldsInstance, pc[u] \in HoldsInstance
      PROVE  t = u
  <2>1. Locking
    BY DEF IInv
  <2> QED BY <1>2, <2>1, Exclusion
<1>3. \A t \in Threads : pc[t] \in {"fsync", "unlock", "account"} =>
          entry[t].idx \in Nat /\ entry[t].idx < Len(file)
  <2> SUFFICES ASSUME NEW t \in Threads, pc[t] \in {"fsync", "unlock", "account"}
               PROVE  entry[t].idx \in Nat /\ entry[t].idx < Len(file)
    OBVIOUS
  <2>1. /\ size[InstanceOf[t]] \in Nat /\ size[InstanceOf[t]] < Len(file)
        /\ file[size[InstanceOf[t]] + 1] = entry[t]
    BY <1>0 DEF IInv, TypeOK, InFlight
  <2>2. entry[t].idx = size[InstanceOf[t]]
    <3> DEFINE n == size[InstanceOf[t]]
    <3>1. n + 1 \in 1..Len(file) /\ file[n + 1] = entry[t] /\ n \in Nat
      BY <1>0, <2>1
    <3> HIDE DEF n
    <3>2. file[n + 1].idx = (n + 1) - 1
      BY <3>1 DEF IInv, ChainValid, VerifyText
    <3> QED BY <3>1, <3>2 DEF n
  <2> QED BY <2>1, <2>2
<1>4. CASE UNCHANGED <<durable, acks>> /\ pending'[i] = pending[i]
           /\ (\A t \in Threads : pc'[t] = "account" => pc[t] \in {"unlock", "account"})
           /\ (\A t \in Threads : pc'[t] = "unlock" => pc[t] = "unlock")
           /\ (\A t \in Threads : pc'[t] \in {"unlock", "account"} => entry'[t] = entry[t])
  <2>1. AtRisk(i)' = AtRisk(i)
    BY <1>4 DEF AtRisk
  <2>2. Unreturned(i)' \subseteq Unreturned(i)
    BY <1>4 DEF Unreturned
  <2> QED BY <1>0, <1>4, <2>1, <2>2, WindowShrinks
<1>5. ASSUME NEW t \in Threads, NEW d \in Data, Write(t, d) PROVE Window(i)'
  <2>1. AtRisk(i)' = AtRisk(i)
    BY <1>5 DEF Write, AtRisk
  <2>2. CASE InstanceOf[t] # i
    <3>1. pending'[i] = pending[i]
      BY <1>0, <1>5, <2>2 DEF Write
    <3>2. \A u \in Threads : u # t => pc'[u] = pc[u] /\ entry'[u] = entry[u]
      BY <1>5 DEF Write, Goto, IInv, TypeOK
    <3>3. Unreturned(i)' \subseteq Unreturned(i)
      BY <1>5, <2>2, <3>2 DEF Unreturned, Write
    <3> QED BY <1>0, <2>1, <3>1, <3>3, WindowShrinks
  <2>3. CASE InstanceOf[t] = i
    <3>1. pending'[i] = pending[i] + 1
      BY <1>0, <1>5, <2>3 DEF Write
    <3>2. pc[t] = "write" /\ pc'[t] = IF pending[i] + 1 >= BatchSize THEN "fsync" ELSE "unlock"
      BY <1>0, <1>5, <2>3 DEF Write, Goto, FsyncDue, IInv, TypeOK
    <3>3. \A u \in Threads : u # t => pc'[u] = pc[u] /\ entry'[u] = entry[u]
      BY <1>5 DEF Write, Goto, IInv, TypeOK
    <3>4. \A u \in Threads : u # t /\ InstanceOf[u] = i => pc[u] \notin {"unlock", "account"}
      BY <1>2, <2>3, <3>2 DEF HoldsInstance, HoldsFile
    <3>5. Unreturned(i)' \subseteq {t}
      BY <3>3, <3>4 DEF Unreturned
    <3>6. CASE pending[i] + 1 >= BatchSize
      <4>1. Unreturned(i)' = {}
        BY <3>2, <3>5, <3>6 DEF Unreturned
      <4> QED BY <1>0, <2>1, <3>1, <4>1 DEF Window
    <3>7. CASE pending[i] + 1 < BatchSize
      BY <1>0, <2>1, <3>1, <3>7 DEF Window
    <3> QED BY <1>0, <3>6, <3>7
  <2> QED BY <2>2, <2>3
<1>6. ASSUME NEW t \in Threads, Fsync(t) PROVE Window(i)'
  <2>1. AtRisk(i)' = {}
    BY <1>1, <1>6 DEF Fsync, AtRisk
  <2>2. \A u \in Threads : u # t => pc'[u] = pc[u] /\ entry'[u] = entry[u]
    BY <1>6 DEF Fsync, Goto, IInv, TypeOK
  <2>3. Unreturned(i)' = {}
    <3>1. \A u \in Threads : pc'[u] \in {"unlock", "account"} =>
              entry'[u] = entry[u] /\ pc[u] \in {"fsync", "unlock", "account"}
      BY <1>6, <2>2 DEF Fsync, Goto
    <3>2. durable' = Len(file)
      BY <1>6 DEF Fsync
    <3> QED BY <1>0, <1>3, <3>1, <3>2 DEF Unreturned
  <2> QED BY <1>0, <2>1, <2>3, WindowEmpty
<1>7. ASSUME NEW j \in Instances, Flush(j) PROVE Window(i)'
  <2>1. durable' = Len(file) /\ UNCHANGED <<acks, pc, entry>>
    BY <1>7 DEF Flush
  <2>2. AtRisk(i)' = {}
    BY <1>1, <2>1 DEF AtRisk
  <2>3. Unreturned(i)' = {}
    BY <1>0, <1>3, <2>1 DEF Unreturned
  <2> QED BY <1>0, <2>2, <2>3, WindowEmpty
<1>8. ASSUME NEW t \in Threads, Account(t) PROVE Window(i)'
  <2> DEFINE new == [by |-> InstanceOf[t], live |-> TRUE, entry |-> entry[t]]
  <2>1. acks' = acks \cup {new} /\ durable' = durable /\ pending' = pending /\ pc[t] = "account"
    BY <1>8 DEF Account, Goto
  <2>2. \A u \in Threads : IF u = t THEN pc'[u] = "idle" ELSE pc'[u] = pc[u] /\ entry'[u] = entry[u]
    BY <1>8 DEF Account, Goto, IInv, TypeOK
  <2>3. Unreturned(i)' \subseteq Unreturned(i)
    BY <2>1, <2>2 DEF Unreturned
  <2>4. CASE InstanceOf[t] = i /\ entry[t].idx >= durable
    <3>1. t \in Unreturned(i)
      BY <2>1, <2>4 DEF Unreturned
    <3>2. Unreturned(i)' = {}
      BY <1>2, <2>1, <2>2, <2>4 DEF Unreturned, HoldsInstance, HoldsFile
    <3>3. AtRisk(i)' \subseteq AtRisk(i) \cup {new}
      BY <2>1 DEF AtRisk
    <3>4. /\ IsFiniteSet(AtRisk(i) \cup {new})
          /\ Cardinality(AtRisk(i) \cup {new}) \in Nat
          /\ Cardinality(AtRisk(i) \cup {new}) <= Cardinality(AtRisk(i)) + 1
      <4>1. /\ IsFiniteSet(AtRisk(i) \cup {new})
            /\ Cardinality(AtRisk(i) \cup {new}) =
                  IF new \in AtRisk(i) THEN Cardinality(AtRisk(i)) ELSE Cardinality(AtRisk(i)) + 1
        BY FS_AddElement DEF Window
      <4> QED BY <1>0, <4>1
    <3>5. /\ IsFiniteSet(AtRisk(i)') /\ Cardinality(AtRisk(i)') \in Nat
          /\ Cardinality(AtRisk(i)') <= Cardinality(AtRisk(i) \cup {new})
      BY <3>3, <3>4, FS_Subset, FS_CardinalityType
    <3> QED BY <1>0, <2>1, <3>1, <3>2, <3>4, <3>5 DEF Window
  <2>5. CASE ~(InstanceOf[t] = i /\ entry[t].idx >= durable)
    <3>1. AtRisk(i)' \subseteq AtRisk(i)
      BY <2>1, <2>5 DEF AtRisk
    <3> QED BY <1>0, <2>1, <2>3, <3>1, WindowShrinks
  <2> QED BY <2>4, <2>5
<1>9. ASSUME NEW j \in Instances, Kill(j) PROVE Window(i)'
  <2>1. /\ durable' = durable /\ acks' = {Buried(a, {j}) : a \in acks}
        /\ \A t \in Threads : IF InstanceOf[t] = j THEN pc'[t] = "idle"
                              ELSE pc'[t] = pc[t] /\ entry'[t] = entry[t]
        /\ pending'[i] = IF i = j THEN 0 ELSE pending[i]
    BY <1>0, <1>9 DEF Kill, Stop, IInv, TypeOK
  <2>2. \A a \in acks : LET b == Buried(a, {j}) IN
            /\ b.by = a.by /\ b.entry = a.entry
            /\ a.by = j => ~b.live
            /\ a.by # j => b = a
    BY BuriedFields DEF IInv, TypeOK, Buried, Ack
  <2>3. CASE i = j
    <3>1. ASSUME NEW x \in AtRisk(i)' PROVE FALSE
      <4>1. PICK a \in acks : x = Buried(a, {j})
        BY <2>1, <3>1 DEF AtRisk
      <4>2. x.by = i /\ x.live
        BY <3>1 DEF AtRisk
      <4> QED BY <2>2, <2>3, <4>1, <4>2
    <3>2. Unreturned(i)' = {}
      BY <2>1, <2>3 DEF Unreturned
    <3> QED BY <1>0, <3>1, <3>2, WindowEmpty
  <2>4. CASE i # j
    <3>1. ASSUME NEW x \in AtRisk(i)' PROVE x \in AtRisk(i)
      <4>1. PICK a \in acks : x = Buried(a, {j})
        BY <2>1, <3>1 DEF AtRisk
      <4>2. x.by = i /\ x.live /\ x.entry.idx >= durable
        BY <2>1, <3>1 DEF AtRisk
      <4>3. x = a
        BY <2>2, <2>4, <4>1, <4>2
      <4> QED BY <4>2, <4>3 DEF AtRisk
    <3>2. Unreturned(i)' \subseteq Unreturned(i)
      BY <2>1, <2>4 DEF Unreturned
    <3> QED BY <1>0, <2>1, <2>4, <3>1, <3>2, WindowShrinks
  <2> QED BY <2>3, <2>4
<1>10. ASSUME PowerLoss PROVE Window(i)'
  <2>1. \A a \in acks' : ~a.live
    <3>1. ASSUME NEW x \in acks' PROVE ~x.live
      <4>1. PICK a \in acks : x = Buried(a, Instances)
        BY <1>10, <3>1 DEF PowerLoss
      <4>2. a \in Ack /\ a.by \in Instances
        BY DEF IInv, TypeOK, Ack
      <4> QED BY <4>1, <4>2, BuriedFields DEF Ack
    <3> QED BY <3>1
  <2>2. \A t \in Threads : pc'[t] = "idle"
    BY <1>0, <1>10 DEF PowerLoss, Stop
  <2>3. AtRisk(i)' = {} /\ Unreturned(i)' = {}
    BY <2>1, <2>2 DEF AtRisk, Unreturned
  <2> QED BY <1>0, <2>3, WindowEmpty
<1>11. ASSUME NEW t \in Threads,
              \/ Call(t) \/ Enter(t) \/ LockFile(t) \/ Adopt(t) \/ Refuse(t)
              \/ FsyncFails(t) \/ Unlock(t) \/ Raise(t)
       PROVE  Window(i)'
  <2>1. UNCHANGED <<durable, acks, pending>>
    BY <1>11 DEF Call, Enter, LockFile, Adopt, Refuse, FsyncFails, Unlock, Raise, counters
  <2>2. \A u \in Threads : u # t => pc'[u] = pc[u] /\ entry'[u] = entry[u]
    BY <1>11 DEF Call, Enter, LockFile, Adopt, Refuse, FsyncFails, Unlock, Raise, Goto, IInv, TypeOK
  <2>3. /\ pc'[t] = "account" => pc[t] = "unlock"
        /\ pc'[t] # "unlock"
        /\ pc'[t] = "account" => entry'[t] = entry[t]
    BY <1>11 DEF Call, Enter, LockFile, Adopt, Refuse, FsyncFails, Unlock, Raise, Goto, IInv, TypeOK
  <2> QED BY <1>4, <2>1, <2>2, <2>3
<1>12. ASSUME NEW j \in Instances, Start(j) PROVE Window(i)'
  BY <1>4, <1>12 DEF Start
<1>13. CASE UNCHANGED vars
  BY <1>4, <1>13 DEF vars
<1> QED
  BY <1>5, <1>6, <1>7, <1>8, <1>9, <1>10, <1>11, <1>12, <1>13 DEF Next, Step, Resync

\* No live batch writer has batch_size or more returned entries that a power
\* loss could take: whatever fails, whoever flushes, whoever else writes.
THEOREM LedgerWindow == Spec => []WindowPerWriter
<1>1. IInv /\ Init => \A i \in Batch : Window(i)
  <2> SUFFICES ASSUME Init, NEW i \in Batch PROVE Window(i)
    OBVIOUS
  <2>1. AtRisk(i) = {} /\ Unreturned(i) = {}
    BY DEF Init, AtRisk, Unreturned
  <2>2. pending[i] = 0 /\ BatchSize \in Nat \ {0}
    BY BatchAssumption DEF Init
  <2> QED BY <2>1, <2>2, FS_EmptySet DEF Window
<1>2. IInv /\ IInv' /\ [Next]_vars /\ (\A i \in Batch : Window(i)) => (\A i \in Batch : Window(i))'
  BY WindowStep
<1>3. (\A i \in Batch : Window(i)) => WindowPerWriter
  BY DEF Window, WindowPerWriter
<1>. QED BY <1>1, <1>2, <1>3, LedgerInvariant, PTL DEF Spec

-----------------------------------------------------------------------------
(* A file cut by someone else, under one instance                           *)

OneInstance == \A i, j \in Instances : i = j

\* A live return is behind what its instance accounts for, and on the file as
\* long as the file is not shorter than that.
Remembered ==
    \A a \in acks : a.live =>
        /\ up[a.by] /\ a.entry.idx < size[a.by]
        /\ size[a.by] <= Len(file) => file[a.entry.idx + 1] = a.entry

\* The line of an append under way is the next one to account for, cut or not.
Underway ==
    \A t \in Threads :
        /\ pc[t] # "idle" => up[InstanceOf[t]]
        /\ pc[t] = "write" => size[InstanceOf[t]] = Len(file)
        /\ pc[t] \in {"fsync", "unlock", "account"} =>
             /\ entry[t].idx = size[InstanceOf[t]]
             /\ size[InstanceOf[t]] < Len(file) => file[size[InstanceOf[t]] + 1] = entry[t]

CutIInv ==
    /\ TypeOK
    /\ Locking
    /\ \A i \in Instances : count[i] = size[i]
    /\ Underway
    /\ Remembered

\* A cut leaves a shorter prefix, and happens while nobody holds the flock.
LEMMA CutStep ==
    ASSUME CutIInv, Truncate
    PROVE  CutIInv'
<1>1. PICK k \in 0 .. (Len(file) - 1) : /\ file' = SubSeq(file, 1, k)
                                        /\ durable' = IF durable < k THEN durable ELSE k
  BY DEF Truncate
<1>2. /\ flock = None /\ UNCHANGED <<flock, ilock, up, count, last, size, pending, pc, entry, acks>>
  BY DEF Truncate, counters
<1>3. /\ file' \in Seq(Entry) /\ durable' \in Nat
      /\ Len(file) \in Nat /\ k \in Nat /\ k < Len(file) /\ Len(file') = k
      /\ \A n \in 1 .. k : file'[n] = file[n]
  BY <1>1 DEF CutIInv, TypeOK
<1>4. TypeOK'
  BY <1>2, <1>3 DEF CutIInv, TypeOK
<1>5. Locking'
  BY <1>2 DEF CutIInv, Locking
<1>6. ASSUME NEW t \in Threads PROVE pc[t] # "write"
  BY <1>2, NoneAssumption DEF CutIInv, Locking, HoldsFile
<1>7. \A i \in Instances : size[i] \in Nat
  BY DEF CutIInv, TypeOK
<1>8. Underway'
  <2> SUFFICES ASSUME NEW t \in Threads
               PROVE  /\ pc[t] # "idle" => up[InstanceOf[t]]
                      /\ pc[t] \in {"fsync", "unlock", "account"} =>
                           /\ entry[t].idx = size[InstanceOf[t]]
                           /\ size[InstanceOf[t]] < k => file'[size[InstanceOf[t]] + 1] = entry[t]
    BY <1>2, <1>3, <1>6 DEF Underway
  <2>1. InstanceOf[t] \in Instances
    BY InstanceOfAssumption
  <2>2. size[InstanceOf[t]] < k => file'[size[InstanceOf[t]] + 1] = file[size[InstanceOf[t]] + 1]
    BY <1>3, <1>7, <2>1
  <2> QED BY <1>3, <1>7, <2>1, <2>2 DEF CutIInv, Underway
<1>9. Remembered'
  <2> SUFFICES ASSUME NEW a \in acks, a.live
               PROVE  /\ up[a.by] /\ a.entry.idx < size[a.by]
                      /\ size[a.by] <= k => file'[a.entry.idx + 1] = a.entry
    BY <1>2, <1>3 DEF Remembered
  <2>1. a.entry.idx \in Nat /\ a.by \in Instances
    BY DEF CutIInv, TypeOK, Ack, Entry
  <2>2. /\ up[a.by] /\ a.entry.idx < size[a.by]
        /\ size[a.by] <= Len(file) => file[a.entry.idx + 1] = a.entry
    BY DEF CutIInv, Remembered
  <2>3. size[a.by] <= k => a.entry.idx + 1 \in 1 .. k
    BY <1>3, <1>7, <2>1, <2>2
  <2> QED BY <1>3, <1>7, <2>1, <2>2, <2>3
<1> QED BY <1>2, <1>4, <1>5, <1>8, <1>9 DEF CutIInv

\* No step of one instance, of the machine or of its end forgets a return.
LEMMA CutNext ==
    ASSUME OneInstance, CutIInv, [Next]_vars
    PROVE  CutIInv'
<1>1. TypeOK' /\ Locking'
  BY TypeStep, LockingStep DEF CutIInv
<1>2. /\ TypeOK /\ Locking /\ Underway /\ Remembered /\ Len(file) \in Nat
      /\ \A i \in Instances : count[i] = size[i] /\ size[i] \in Nat
  BY DEF CutIInv, TypeOK
<1>3. \A t \in Threads : InstanceOf[t] \in Instances
  BY InstanceOfAssumption
<1>4. \A t, u \in Threads : InstanceOf[t] = InstanceOf[u]
  BY <1>3 DEF OneInstance
<1>5. \A a \in acks : a.by \in Instances /\ a.entry.idx \in Nat
  BY <1>2 DEF TypeOK, Ack, Entry
<1>6. ASSUME UNCHANGED <<file, up, count, size, acks>>,
             \A t \in Threads : \/ pc'[t] \in {"enter", "lock", "resync", "raise"} /\ up[InstanceOf[t]]
                                \/ pc'[t] = "idle"
                                \/ /\ pc'[t] # "write" /\ entry'[t] = entry[t]
                                   /\ pc[t] \in {"fsync", "unlock", "account"}
                                \/ pc'[t] = pc[t] /\ entry'[t] = entry[t]
      PROVE  CutIInv'
  <2>1. Underway'
    BY <1>2, <1>6 DEF Underway
  <2>2. Remembered'
    BY <1>2, <1>6 DEF Remembered
  <2> QED BY <1>1, <1>2, <1>6, <2>1, <2>2 DEF CutIInv
<1>7. ASSUME NEW t \in Threads,
             \/ Call(t) \/ Enter(t) \/ LockFile(t) \/ Refuse(t) \/ Fsync(t)
             \/ FsyncFails(t) \/ Unlock(t) \/ Raise(t)
      PROVE  CutIInv'
  <2>1. UNCHANGED <<file, up, count, size, acks>>
    BY <1>7 DEF Call, Enter, LockFile, Refuse, Fsync, FsyncFails, Unlock, Raise, counters
  <2>2. \A u \in Threads : u # t => pc'[u] = pc[u] /\ entry'[u] = entry[u]
    BY <1>7 DEF Call, Enter, LockFile, Refuse, Fsync, FsyncFails, Unlock, Raise, Goto, CutIInv, TypeOK
  <2>3. up[InstanceOf[t]]
    BY <1>2, <1>7
       DEF Underway, Call, Enter, LockFile, Refuse, Fsync, FsyncFails, Unlock, Raise, Goto
  <2>4. \/ pc'[t] \in {"enter", "lock", "resync", "raise"}
        \/ pc'[t] = "idle"
        \/ /\ pc'[t] # "write" /\ entry'[t] = entry[t]
           /\ pc[t] \in {"fsync", "unlock", "account"}
    BY <1>7 DEF Call, Enter, LockFile, Refuse, Fsync, FsyncFails, Unlock, Raise, Goto, CutIInv, TypeOK
  <2> QED BY <1>6, <2>1, <2>2, <2>3, <2>4
<1>8. ASSUME NEW t \in Threads, Adopt(t) PROVE CutIInv'
  <2> DEFINE i == InstanceOf[t]
  <2>1. /\ size[i] <= Len(file) /\ pc[t] = "resync" /\ pc'[t] = "write"
        /\ size'[i] = Len(file) /\ count'[i] = count[i] + (Len(file) - size[i])
        /\ UNCHANGED <<file, up, entry, acks>>
        /\ \A u \in Threads : u # t => pc'[u] = pc[u]
    BY <1>3, <1>8 DEF Adopt, Accepted, Goto, CutIInv, TypeOK
  <2>2. \A j \in Instances : j = i
    BY <1>3 DEF OneInstance
  <2>3. \A j \in Instances : count'[j] = size'[j]
    BY <1>2, <1>3, <2>1, <2>2
  <2>4. Underway'
    <3>1. ASSUME NEW u \in Threads, u # t PROVE pc'[u] \in {"idle", "enter"} \cup {"lock"}
      <4>1. pc[u] \notin HoldsInstance
        BY <1>2, <1>4, <2>1, <3>1, Exclusion DEF HoldsInstance, HoldsFile
      <4> QED BY <1>2, <2>1, <3>1, <4>1 DEF HoldsInstance, HoldsFile, TypeOK, PCs
    <3>2. \A u \in Threads : pc'[u] # "idle" => up'[InstanceOf[u]]
      BY <1>2, <1>4, <2>1 DEF Underway
    <3> QED BY <1>2, <2>1, <3>1, <3>2 DEF Underway
  <2>5. Remembered'
    <3> SUFFICES ASSUME NEW a \in acks, a.live
                 PROVE  /\ up[a.by] /\ a.entry.idx < size'[a.by]
                        /\ file[a.entry.idx + 1] = a.entry
      BY <2>1 DEF Remembered
    <3>1. a.by = i
      BY <1>5, <2>2
    <3>2. /\ up[a.by] /\ a.entry.idx < size[a.by]
          /\ size[a.by] <= Len(file) => file[a.entry.idx + 1] = a.entry
      BY <1>2 DEF Remembered
    <3> QED BY <1>2, <1>3, <1>5, <2>1, <3>1, <3>2
  <2> QED BY <1>1, <2>3, <2>4, <2>5 DEF CutIInv
<1>9. ASSUME NEW t \in Threads, NEW d \in Data, Write(t, d) PROVE CutIInv'
  <2> DEFINE i == InstanceOf[t]
  <2>1. /\ entry'[t] = NewEntry(count[i], d, last[i])
        /\ Len(file') = Len(file) + 1
        /\ \A k \in 1 .. Len(file) : file'[k] = file[k]
        /\ file'[Len(file) + 1] = entry'[t]
        /\ UNCHANGED <<up, count, size, acks>>
    BY <1>2, <1>9, WriteEffect
  <2>2. /\ pc[t] = "write" /\ pc'[t] \in {"fsync", "unlock"}
        /\ \A u \in Threads : u # t => pc'[u] = pc[u] /\ entry'[u] = entry[u]
    BY <1>9 DEF Write, Goto, CutIInv, TypeOK
  <2>3. size[i] = Len(file) /\ up[i] /\ entry'[t].idx = size[i]
    BY <1>2, <1>3, <2>1, <2>2 DEF Underway, NewEntry
  <2>4. Underway'
    <3>1. ASSUME NEW u \in Threads, u # t PROVE pc'[u] \in {"idle", "enter", "lock"}
      <4>1. pc[u] \notin HoldsInstance
        BY <1>2, <1>4, <2>2, <3>1, Exclusion DEF HoldsInstance, HoldsFile
      <4> QED BY <1>2, <2>2, <3>1, <4>1 DEF HoldsInstance, HoldsFile, TypeOK, PCs
    <3> QED BY <1>2, <1>4, <2>1, <2>2, <2>3, <3>1 DEF Underway
  <2>5. Remembered'
    <3> SUFFICES ASSUME NEW a \in acks, a.live
                 PROVE  /\ up[a.by] /\ a.entry.idx < size[a.by]
                        /\ file'[a.entry.idx + 1] = a.entry
      BY <2>1 DEF Remembered
    <3>1. a.by = i
      BY <1>3, <1>5 DEF OneInstance
    <3>2. a.entry.idx + 1 \in 1 .. Len(file) /\ file[a.entry.idx + 1] = a.entry /\ up[a.by]
      BY <1>2, <1>5, <2>3, <3>1 DEF Remembered
    <3> QED BY <1>2, <1>5, <2>1, <2>3, <3>1, <3>2 DEF Remembered
  <2> QED BY <1>1, <1>2, <2>1, <2>4, <2>5 DEF CutIInv
<1>10. ASSUME NEW t \in Threads, Account(t) PROVE CutIInv'
  <2> DEFINE i   == InstanceOf[t]
             new == [by |-> i, live |-> TRUE, entry |-> entry[t]]
  <2>1. /\ pc[t] = "account" /\ pc'[t] = "idle"
        /\ size'[i] = size[i] + 1 /\ count'[i] = count[i] + 1
        /\ acks' = acks \cup {new}
        /\ UNCHANGED <<file, up>>
        /\ \A u \in Threads : u # t => pc'[u] = pc[u] /\ entry'[u] = entry[u]
    BY <1>3, <1>10 DEF Account, Goto, CutIInv, TypeOK
  <2>2. \A j \in Instances : j = i
    BY <1>3 DEF OneInstance
  <2>3. \A j \in Instances : count'[j] = size'[j]
    BY <1>2, <1>3, <2>1, <2>2
  <2>4. /\ up[i] /\ entry[t].idx = size[i]
        /\ size[i] < Len(file) => file[size[i] + 1] = entry[t]
    BY <1>2, <2>1 DEF Underway
  <2>5. Underway'
    <3>1. ASSUME NEW u \in Threads, u # t PROVE pc'[u] \in {"idle", "enter"}
      <4>1. pc[u] \notin HoldsInstance
        BY <1>2, <1>4, <2>1, <3>1, Exclusion DEF HoldsInstance
      <4> QED BY <1>2, <2>1, <3>1, <4>1 DEF HoldsInstance, HoldsFile, TypeOK, PCs
    <3> QED BY <1>2, <1>4, <2>1, <2>4, <3>1 DEF Underway
  <2>6. ASSUME NEW a \in acks, a.live
        PROVE  /\ up[a.by] /\ a.entry.idx < size'[a.by]
               /\ size'[a.by] <= Len(file) => file[a.entry.idx + 1] = a.entry
    <3>1. a.by = i
      BY <1>5, <2>2
    <3>2. /\ up[a.by] /\ a.entry.idx < size[a.by]
          /\ size[a.by] <= Len(file) => file[a.entry.idx + 1] = a.entry
      BY <1>2, <2>6 DEF Remembered
    <3> QED BY <1>2, <1>3, <1>5, <2>1, <3>1, <3>2
  <2>7. /\ up[i] /\ entry[t].idx < size'[i]
        /\ size'[i] <= Len(file) => file[entry[t].idx + 1] = entry[t]
    BY <1>2, <1>3, <2>1, <2>4
  <2>8. new.by = i /\ new.entry = entry[t]
    OBVIOUS
  <2> HIDE DEF new, i
  <2>9. Remembered'
    BY <2>1, <2>6, <2>7, <2>8 DEF Remembered
  <2> QED BY <1>1, <2>3, <2>5, <2>9 DEF CutIInv
<1>11. ASSUME NEW i \in Instances, Start(i) PROVE CutIInv'
  <2>1. /\ ~up[i] /\ up'[i] /\ count'[i] = Len(file) /\ size'[i] = Len(file)
        /\ UNCHANGED <<file, pc, entry, acks>>
    BY <1>11 DEF Start, CutIInv, TypeOK
  <2>2. \A j \in Instances : j = i
    BY DEF OneInstance
  <2>3. Underway'
    BY <1>2, <1>3, <2>1, <2>2 DEF Underway
  <2>4. Remembered'
    BY <1>2, <1>5, <2>1, <2>2 DEF Remembered
  <2> QED BY <1>1, <2>1, <2>2, <2>3, <2>4 DEF CutIInv
<1>12. ASSUME NEW i \in Instances, Flush(i) PROVE CutIInv'
  <2>1. UNCHANGED <<file, up, count, size, acks, pc, entry>>
    BY <1>12 DEF Flush, counters
  <2> QED BY <1>6, <2>1
<1>13. ASSUME Stop(Instances), \A a \in acks' : ~a.live PROVE CutIInv'
  <2>1. /\ \A t \in Threads : pc'[t] = "idle"
        /\ \A i \in Instances : count'[i] = 0 /\ size'[i] = 0
    BY <1>3, <1>13 DEF Stop
  <2> QED BY <1>1, <1>13, <2>1 DEF CutIInv, Underway, Remembered
<1>14. ASSUME NEW i \in Instances, Kill(i) PROVE CutIInv'
  <2>1. {i} = Instances
    BY DEF OneInstance
  <2>2. \A a \in acks' : ~a.live
    <3>1. acks' = {Buried(a, Instances) : a \in acks}
      BY <1>14, <2>1 DEF Kill
    <3>2. ASSUME NEW a \in acks PROVE ~Buried(a, Instances).live
      <4>1. a \in Ack
        BY <1>2 DEF TypeOK
      <4> QED BY <1>5, <4>1 DEF Buried, Ack
    <3> QED BY <3>1, <3>2
  <2> QED BY <1>13, <1>14, <2>1, <2>2 DEF Kill
<1>15. CASE PowerLoss
  <2>1. PICK k \in durable .. Len(file) :
          acks' = {Buried(a, Instances) : a \in {b \in acks : b.by \notin Batch \/ b.entry.idx < k}}
    BY <1>15 DEF PowerLoss
  <2>2. ASSUME NEW a \in acks PROVE ~Buried(a, Instances).live
    <3>1. a \in Ack
      BY <1>2 DEF TypeOK
    <3> QED BY <1>5, <3>1 DEF Buried, Ack
  <2>3. \A a \in acks' : ~a.live
    BY <2>1, <2>2
  <2> QED BY <1>13, <1>15, <2>3 DEF PowerLoss
<1>16. CASE UNCHANGED vars
  <2>1. UNCHANGED <<file, up, count, size, acks, pc, entry>>
    BY <1>16 DEF vars
  <2> QED BY <1>6, <2>1
<1> QED
  BY <1>7, <1>8, <1>9, <1>10, <1>11, <1>12, <1>14, <1>15, <1>16 DEF Next, Step, Resync

\* A file that someone else cut between two appends is refused to the one
\* instance that writes it (ledger.py:236, 320-333): a writer that gets to
\* write sees every line the live instance returned.  With two instances the
\* file may grow back to the size remembered, and the run of two shows it.
THEOREM LedgerCutIsRefused == OneInstance => (TruncSpec => []TruncationRefused)
<1> SUFFICES ASSUME OneInstance PROVE TruncSpec => []TruncationRefused
  OBVIOUS
<1>1. Init => CutIInv
  <2> SUFFICES ASSUME Init PROVE CutIInv
    OBVIOUS
  <2>1. TypeOK
    BY NoneAssumption DEF Init, TypeOK, PCs, Digest, GENESIS
  <2>2. Locking
    BY NoneAssumption, InstanceOfAssumption DEF Init, Locking, HoldsFile, HoldsInstance
  <2>3. Underway /\ Remembered
    BY DEF Init, Underway, Remembered
  <2> QED BY <2>1, <2>2, <2>3 DEF CutIInv, Init
<1>2. CutIInv /\ [Next \/ Truncate]_vars => CutIInv'
  BY CutStep, CutNext
<1>3. CutIInv => TruncationRefused
  <2> SUFFICES ASSUME CutIInv, NEW t \in Threads, pc[t] = "write",
                      NEW a \in acks, a.by = InstanceOf[t], a.live
               PROVE  a.entry.idx < Len(file) /\ file[a.entry.idx + 1] = a.entry
    BY DEF TruncationRefused
  <2>1. size[a.by] = Len(file) /\ Len(file) \in Nat
    BY DEF CutIInv, Underway, TypeOK
  <2> QED BY <2>1 DEF CutIInv, Remembered
<1> QED BY <1>1, <1>2, <1>3, PTL DEF TruncSpec
=============================================================================
