----------------------------- MODULE MCArchive -----------------------------
(***************************************************************************)
(* One TLC instance for the parts of the system that live beside the packs: *)
(* the exported audit trail, the long-term evidence record, the chip        *)
(* registry alone and under an agent's log, and a ledger cut by others.     *)
(* They share no state, so a behaviour is one of one part, chosen at the    *)
(* start, while the others stay as they began.                              *)
(***************************************************************************)
EXTENDS AATSession, AgentLog, EvidenceRecord, EpochTree

CONSTANTS t1, t2, object,
    Parts           \* the parts this run explores

VARIABLES
    part,
    file, durable, flock, ilock, up, cutCount, last, size,  \* Cut
    pending, pc, entry, acks

cutVars    == <<file, durable, flock, ilock, up, cutCount, last, size, pending, pc,
                entry, acks>>

-----------------------------------------------------------------------------
(* The trail: an agent, its post-quantum key, a recorder, a deleting        *)
(* authority; an executed, a blocked and an incoherent entry, two sessions. *)

TrailKeys  == {"agent", "agentpq", "recorder", "deleter"}
TrailAlgOf == [k \in TrailKeys |-> IF k = "agentpq" THEN "ML-DSA-65" ELSE "ES256"]

OmegaEntry(action, outcome, consistent, time, session) ==
    [kind |-> "agent_governance_action", session |-> session, agent |-> "urn:agent",
     action |-> action, outcome |-> outcome, decision |-> "deny", resource |-> "res",
     consistent |-> consistent, approver |-> None, time |-> time]

TrailTemplates ==
    {OmegaEntry("file_write", "executed", TRUE, 1, "s1"),
     OmegaEntry("decision", "blocked", TRUE, 2, "s2"),
     OmegaEntry("file_read", "executed", FALSE, 1, "s1")}

ExportAs(classical, pq, recorder, close) ==
    [signer |-> [classical |-> classical, pq |-> pq], recorder |-> recorder,
     trust |-> "L2", close |-> close]

TrailExports == {ExportAs(None, None, None, TRUE),
                 ExportAs("agent", None, None, FALSE),
                 ExportAs("recorder", "agentpq", "urn:recorder", TRUE)}

Host(openssl, tmp, reply) == [openssl |-> openssl, tmp |-> tmp, reply |-> reply]

TrailAnchorHosts == {Host("runs", TRUE, "granted"), Host("runs", TRUE, "error")}

-----------------------------------------------------------------------------
(* The evidence record over two packs, with a 32-byte and a 64-byte hash.   *)

RecordPacks  == {<<"p1", "p2">>, <<"p1", None>>}
RecordHashes == ("sha256" :> 32) @@ ("sha3_512" :> 64)
RecordOn     == {Host("runs", TRUE, "granted"), Host("runs", FALSE, "granted")}

-----------------------------------------------------------------------------
(* The ledger of two threads of one instance, cut between their appends.    *)

Cut == INSTANCE Ledger WITH
    Threads <- {t1, t2}, Instances <- {object}, InstanceOf <- (t1 :> object) @@ (t2 :> object),
    Batch <- {}, BatchSize <- 2, Data <- {"x"}, MaxEntries <- 3, count <- cutCount

-----------------------------------------------------------------------------
(* The chip registry: one class of the baseline, one new, one untrusted.    *)

ChipBaseline   == "sev" :> "kds"
Update(k, map) == [kind |-> k, classes |-> map]
First          == Update(UPDATE_KIND, ("new" :> "svc1") @@ ("sev" :> "svc1"))
ChipUpdates    == {First,
                   Update(UPDATE_KIND, ("new" :> "svc2") @@ ("none" :> "svc2")),
                   Update("other", "new" :> "svc2"),
                   Update(UPDATE_KIND, None)}
LogInstanceOf  == (t1 :> "a") @@ (t2 :> "b")

\* The agents start when a signed update lies ready; it is applied once,
\* nothing else is written and no feed comes in.
UpdateLies ==
    /\ store = [p \in Places |-> IF p = "file"
                   THEN [pack |-> First, side |-> [of |-> First, signer |-> "curator"]]
                   ELSE Missing]
    /\ signed = {<<First, "curator">>}
    /\ writes = MaxWrites

-----------------------------------------------------------------------------
ArchiveInit ==
    /\ part \in Parts
    /\ IF part = "agents"
       THEN RegistryInit /\ UpdateLies /\ LogInit
       ELSE AgentInit
    /\ TreeInit
    /\ TrailInit
    /\ RecordInit
    /\ Cut!Init

TrailStep ==
    /\ part = "trail"
    /\ TrailNext
    /\ UNCHANGED <<part, leaves, vars, recordVars, cutVars>>

RecordStep ==
    /\ part = "record"
    /\ RecordNext
    /\ UNCHANGED <<part, leaves, vars, trailVars, cutVars>>

RegistryStep ==
    /\ part = "registry"
    /\ RegistryNext
    /\ UNCHANGED <<part, leaves, agentVars, trailVars, recordVars, cutVars>>

AgentsStep ==
    /\ part = "agents"
    /\ AgentNext
    /\ candidates' = candidates
    /\ sources # << >> => registryVars' = registryVars
    /\ UNCHANGED <<part, leaves, trailVars, recordVars, cutVars>>

CutStep ==
    /\ part = "cut"
    /\ Cut!Next \/ Cut!Truncate
    /\ UNCHANGED <<part, leaves, vars, trailVars, recordVars>>

TreeStep ==
    /\ part = "tree"
    /\ Grow
    /\ UNCHANGED <<part, vars, trailVars, recordVars, cutVars>>

ArchiveNext == TrailStep \/ RecordStep \/ RegistryStep \/ AgentsStep \/ CutStep \/ TreeStep

ArchiveSpec == ArchiveInit /\ [][ArchiveNext]_<<part, vars, leaves, trailVars, recordVars, cutVars>>

-----------------------------------------------------------------------------
(***************************************************************************)
(* PROPERTY TruncationRefused: Ledger's, of a ledger cut between appends    *)
(* (ledger.py:320-333).                                                     *)
(***************************************************************************)
TruncationRefused == Cut!TruncationRefused
=============================================================================
