------------------------------ MODULE AgentLog ------------------------------
(***************************************************************************)
(* omega_evidence/agent.py: threads of AgentEvidenceLog objects, one per    *)
(* process, that record actions in one ledger and build evidence packs over *)
(* it, while the chip registry of the first is being updated.  An           *)
(* attestation is checked before the lock is taken and reads the registry   *)
(* twice; a pack is made of a verification, a counter of the instance and a *)
(* second reading of the ledger.                                            *)
(*                                                                         *)
(* The ledger is the one Ledger shows: an append is one step that no reader *)
(* sees half of, and leaves the count of its instance at the file's length. *)
(***************************************************************************)
EXTENDS ChipRegistry, FiniteSets

CONSTANTS
    Threads,
    Instances,
    InstanceOf,     \* [Threads -> Instances]
    Registered,     \* the instances built with a chip_registry
    MaxLog          \* bound: entries

ASSUME AgentAssumption ==
    /\ InstanceOf \in [Threads -> Instances]
    /\ Registered \subseteq Instances

VARIABLES
    log,        \* the ledger's entries
    count,      \* [instance -> _ledger.count]
    task,       \* [thread -> its call]
    pack        \* the evidence pack just returned, with the log's length at each
                \*   reading; None after any other step

agentVars == <<log, count, task, pack>>
vars      == <<registryVars, agentVars>>

\* Another user of the ledger file appends entries of another kind.
Other == [kind |-> "other"]
Free  == [pc |-> "idle"]

LogInit ==
    /\ log = << >>
    /\ count = [i \in Instances |-> 0]
    /\ task = [t \in Threads |-> Free]
    /\ pack = None

AgentInit == Init /\ LogInit

\* is_known and service_for, or the baseline without a registry.
ServiceFor(i, c) ==
    IF i \in Registered THEN services[c]
    ELSE IF c \in DOMAIN Baseline THEN Baseline[c] ELSE None
IsKnown(i, c) == ServiceFor(i, c) # None

Room == Len(log) + Cardinality({t \in Threads : task[t].pc \in {"service", "append"}})
          < MaxLog

Step(t, from, to) ==
    /\ task[t].pc = from
    /\ task' = [task EXCEPT ![t] = to]
    /\ UNCHANGED registryVars

-----------------------------------------------------------------------------
(* record: check_attestation, then the entry under the lock.                *)

ReadKnown(t, c) ==
    /\ Room
    /\ Step(t, "idle", [pc |-> "service", class |-> c,
                        known |-> IsKnown(InstanceOf[t], c)])
    /\ pack' = None
    /\ UNCHANGED <<log, count>>

\* Faulty variants, named *_...: each is the definition that follows it with a
\* bug its author could have made, and violates a property.
Status_UnknownToo(c, known) ==
    IF c \in Untrusted THEN "untrusted-class" ELSE "producer-claimed"

\* The device says verified_by_service, without a token.
Status(c, known) ==
    IF c \in Untrusted \/ ~known THEN "untrusted-class" ELSE "producer-claimed"

ReadService(t) ==
    /\ task[t].pc = "service"
    /\ LET k == task[t]
       IN  Step(t, "service",
               [pc |-> "append", known |-> k.known,
                expected |-> ServiceFor(InstanceOf[t], k.class),
                class |-> k.class, status |-> Status(k.class, k.known)])
    /\ pack' = None
    /\ UNCHANGED <<log, count>>

AppendRecord(t, consistent) ==
    /\ Step(t, "append", Free)
    /\ log' = Append(log, [kind |-> "agent", device |-> task[t], consistent |-> consistent])
    /\ count' = [count EXCEPT ![InstanceOf[t]] = Len(log')]
    /\ pack' = None

AppendOther ==
    /\ Room
    /\ log' = Append(log, Other)
    /\ pack' = None
    /\ UNCHANGED <<registryVars, count, task>>

-----------------------------------------------------------------------------
(* evidence_pack: verify() reads the file, then the counter; stats() reads  *)
(* the file again.                                                          *)

VerifyLog(t) ==
    /\ Step(t, "idle", [pc |-> "count", verified |-> Len(log)])
    /\ pack' = None
    /\ UNCHANGED <<log, count>>

ReadCount(t) ==
    /\ task[t].pc = "count"
    /\ Step(t, "count", [pc |-> "stats", verified |-> task[t].verified,
                         entries |-> count[InstanceOf[t]], counted |-> Len(log)])
    /\ pack' = None
    /\ UNCHANGED <<log, count>>

IsAction(e)     == e.kind = "agent"
Actions(s)      == {i \in DOMAIN s : IsAction(s[i])}
Claims(s)       == {i \in DOMAIN s : IsAction(s[i]) /\ s[i].device.status = "producer-claimed"}
Inconsistent(s) == {i \in DOMAIN s : IsAction(s[i]) /\ ~s[i].consistent}

\* The statistics of no more entries than this instance counts.
ReadStats_AsCounted(t) ==
    /\ Step(t, "stats", Free)
    /\ pack' = LET k == task[t]
                   s == SubSeq(log, 1, k.entries)
               IN  [verified |-> k.verified, counted |-> k.counted, read |-> Len(log),
                    entries  |-> k.entries, total |-> Cardinality(Actions(s)),
                    recorded |-> Cardinality(Claims(s)),
                    all_consistent |-> Inconsistent(s) = {}]
    /\ UNCHANGED <<log, count>>

ReadStats(t) ==
    /\ Step(t, "stats", Free)
    /\ pack' = LET k == task[t]
               IN  [verified |-> k.verified, counted |-> k.counted, read |-> Len(log),
                    entries  |-> k.entries, total |-> Cardinality(Actions(log)),
                    recorded |-> Cardinality(Claims(log)),
                    all_consistent |-> Inconsistent(log) = {}]
    /\ UNCHANGED <<log, count>>

AgentNext ==
    \/ RegistryNext /\ pack' = None /\ UNCHANGED <<log, count, task>>
    \/ \E t \in Threads :
         \/ \E c \in Classes : ReadKnown(t, c)
         \/ ReadService(t)
         \/ \E consistent \in BOOLEAN : AppendRecord(t, consistent)
         \/ VerifyLog(t) \/ ReadCount(t) \/ ReadStats(t)
    \/ AppendOther

AgentSpec == AgentInit /\ [][AgentNext]_vars

-----------------------------------------------------------------------------
Statuses == {"producer-claimed", "untrusted-class"}
Attested == [pc : {"append"}, class : Classes, known : BOOLEAN,
             expected : Services \cup {None}, status : Statuses]
Tasks    == {Free} \cup [pc : {"service"}, class : Classes, known : BOOLEAN] \cup Attested
              \cup [pc : {"count"}, verified : Nat]
              \cup [pc : {"stats"}, verified : Nat, entries : Nat, counted : Nat]
Entries  == {Other} \cup [kind : {"agent"}, device : Attested, consistent : BOOLEAN]

AgentTypeOK ==
    /\ TypeOK
    /\ log \in Seq(Entries)
    /\ count \in [Instances -> Nat]
    /\ task \in [Threads -> Tasks]

(***************************************************************************)
(* PROPERTY AttestationsHold (agent.py:85-92, 165-174).  What the log says  *)
(* of a device stays true of the registry, although it was read in two      *)
(* steps and before the lock: a class recorded as known has a service, is   *)
(* known ever after and is not an untrusted one; a class recorded as        *)
(* unknown can at most name the service of an update merged meanwhile.      *)
(***************************************************************************)
Devices == {log[i].device : i \in {i \in DOMAIN log : IsAction(log[i])}}

AttestationsHold ==
    \A d \in Devices :
        /\ d.known => /\ d.expected # None
                      /\ d.class \notin Untrusted
                      /\ services[d.class] # None
        /\ d.status = "producer-claimed" => d.known
        /\ d.expected # None /\ ~d.known =>
             \E m \in merged : d.class \in DOMAIN m.body.classes

(***************************************************************************)
(* PROPERTY PacksBracket (agent.py:177-208).  The three readings of a pack  *)
(* are of three moments in order: its statistics cover every entry that was *)
(* verified, and its `entries` never says more than its statistics were     *)
(* read over, though it may say less than was verified.                     *)
(***************************************************************************)
PacksBracket ==
    pack # None =>
        LET p        == pack
            verified == SubSeq(log, 1, p.verified)
            read     == SubSeq(log, 1, p.read)
        IN  /\ p.entries <= p.counted
            /\ p.total \in Cardinality(Actions(verified)) .. p.read
            /\ p.recorded >= Cardinality(Claims(verified))
            /\ p.all_consistent => Inconsistent(verified) = {}
            /\ Inconsistent(read) = {} => p.all_consistent
=============================================================================
