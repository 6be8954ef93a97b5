---------------------------- MODULE ChipRegistry ----------------------------
(***************************************************************************)
(* omega_evidence/chip_registry.py: the registry that maps attestation      *)
(* classes to their services.  An updater applies signed update packs, one  *)
(* call at a time, from a local file or fetched over HTTP, and takes in     *)
(* feeds of candidates.  The files and the published pair belong to the     *)
(* curators, who replace the pack and its sidecar one after the other, at   *)
(* any moment of a call.                                                    *)
(*                                                                         *)
(* What verify_pack says of a pack is PackVerdict's subject; here it is the *)
(* part that an update needs: trusted-signed or not, read in one step.      *)
(***************************************************************************)
EXTENDS Integers, Sequences, Absent     \* None: no file, no service, no object

CONSTANTS
    Classes,        \* attestation classes
    Services,       \* attestation services
    Baseline,       \* _BASELINE: [some classes -> Services]
    Untrusted,      \* UNTRUSTED_CLASSES
    Updates,        \* packs: [kind, classes |-> function on some classes, or None]
    Signers,
    Trusted,        \* the signers in the trust store
    NotAnObject,    \* a sidecar that is JSON but not an object
    MaxWrites, MaxSources       \* bounds: files written; updates merged

UPDATE_KIND == "chip_attestation_registry_update"

Sidecars == [of : Updates, signer : Signers]
Places   == {"file", "web", "copy"}

ASSUME ClassesAssumption ==
    /\ Baseline \in [DOMAIN Baseline -> Services]
    /\ DOMAIN Baseline \subseteq Classes
    /\ Untrusted \subseteq Classes \ DOMAIN Baseline
    /\ None \notin Services
ASSUME UpdatesAssumption ==
    \A u \in Updates :
        /\ DOMAIN u = {"kind", "classes"}
        /\ u.classes = None \/ u.classes \in [DOMAIN u.classes -> Services]
        /\ u.classes # None => DOMAIN u.classes \subseteq Classes
ASSUME NoneAssumption ==
    /\ None \notin Updates
    /\ None \notin Sidecars
    /\ NotAnObject \notin Sidecars \cup {None}
ASSUME BoundAssumption == MaxWrites \in Nat /\ MaxSources \in Nat

VARIABLES
    store,      \* [place -> the pack and the sidecar that are there]
    services,   \* _services, None for a class that is not known
    candidates, \* the classes in _candidates
    sources,    \* _sources: [signer, body, added]
    call,       \* the updater's call: [pc, place, body, todo]
    merged,     \* history: the updates merged: [body, swapped]
    swapped,    \* history: the call's place was written since it was verified
    signed,     \* history: the signatures ever made
    lost,       \* history: a call failed after it had merged
    writes      \* files written so far

files        == <<store, signed, writes>>
registry     == <<services, candidates, sources>>
history      == <<merged, swapped, lost>>
registryVars == <<store, services, candidates, sources, call, merged,
                  swapped, signed, lost, writes>>

Idle    == [pc |-> "idle", place |-> "file", body |-> None, todo |-> {}]
Missing == [pack |-> None, side |-> None]
Here    == store[call.place]

RegistryInit ==
    /\ services = [c \in Classes |-> IF c \in DOMAIN Baseline THEN Baseline[c] ELSE None]
    /\ candidates = {}
    /\ sources = << >>
    /\ call = Idle
    /\ merged = {}
    /\ swapped = FALSE
    /\ lost = FALSE

\* Before anything was published.
NothingLies ==
    /\ store = [p \in Places |-> Missing]
    /\ signed = {}
    /\ writes = 0

Init == RegistryInit /\ NothingLies

-----------------------------------------------------------------------------
(* The curators: publish_signed_update writes the pack, then its sidecar.   *)

Write(p, pair) ==
    /\ writes < MaxWrites
    /\ store' = [store EXCEPT ![p] = pair]
    /\ writes' = writes + 1
    /\ swapped' = (swapped \/ (p = call.place /\ call.pc = "read"))
    /\ UNCHANGED <<registry, call, merged, lost>>

WritePack(p, u) ==
    /\ Write(p, [store[p] EXCEPT !.pack = u])
    /\ UNCHANGED signed

SignPack(p, s) ==
    /\ store[p].pack # None
    /\ Write(p, [store[p] EXCEPT !.side = [of |-> store[p].pack, signer |-> s]])
    /\ signed' = signed \cup {<<store[p].pack, s>>}

\* A sidecar replaced by JSON that is no object, a file removed.
SpoilSide(p) ==
    /\ Write(p, [store[p] EXCEPT !.side = NotAnObject])
    /\ UNCHANGED signed

RemovePack(p) ==
    /\ store[p] # Missing
    /\ Write(p, Missing)
    /\ UNCHANGED signed

-----------------------------------------------------------------------------
(* apply_signed_update.                                                     *)

\* Faulty variants, named *_...: each is the definition that follows it with a
\* bug its author could have made, and violates a property.
TrustedSigned_AnySigner(f) ==
    /\ f.pack # None
    /\ f.side \in Sidecars
    /\ f.side.of = f.pack

\* verify_pack: valid, with the authenticity layer "trusted-signed".
TrustedSigned(f) ==
    /\ f.pack # None
    /\ f.side \in Sidecars
    /\ f.side.of = f.pack
    /\ f.side.signer \in Trusted

Return == call' = Idle

BeginApply ==
    /\ call.pc = "idle"
    /\ call' = [Idle EXCEPT !.pc = "verify"]
    /\ UNCHANGED <<files, registry, history>>

Verify ==
    /\ call.pc = "verify"
    /\ IF TrustedSigned(Here)
       THEN /\ call' = [call EXCEPT !.pc = "read"]
            /\ swapped' = FALSE
       ELSE /\ Return
            /\ UNCHANGED swapped
    /\ UNCHANGED <<files, registry, merged, lost>>

\* The pack is opened again: gone it raises, of another kind it is refused,
\* and _merge raises on chip_classes that are no object.
Read ==
    /\ call.pc = "read"
    /\ IF \/ Here.pack = None
          \/ Here.pack.kind # UPDATE_KIND
          \/ Here.pack.classes = None
       THEN Return /\ UNCHANGED merged
       ELSE /\ Len(sources) < MaxSources
            /\ call' = [call EXCEPT !.pc = "merge", !.body = Here.pack,
                                    !.todo = DOMAIN Here.pack.classes]
            /\ merged' = merged \cup {[body |-> Here.pack, swapped |-> swapped]}
    /\ UNCHANGED <<files, registry, swapped, lost>>

Rejected(c) == c \in Untrusted \/ c \in DOMAIN Baseline

MergeClass_KeepsFirst(c) ==
    /\ call.pc = "merge"
    /\ c \in call.todo
    /\ IF Rejected(c) \/ services[c] # None
       THEN UNCHANGED <<services, candidates>>
       ELSE /\ services' = [services EXCEPT ![c] = call.body.classes[c]]
            /\ candidates' = candidates \ {c}
    /\ call' = [call EXCEPT !.todo = @ \ {c}]
    /\ UNCHANGED <<files, sources, history>>

\* One turn of the loop of _merge.
MergeClass(c) ==
    /\ call.pc = "merge"
    /\ c \in call.todo
    /\ IF Rejected(c)
       THEN UNCHANGED <<services, candidates>>
       ELSE /\ services' = [services EXCEPT ![c] = call.body.classes[c]]
            /\ candidates' = candidates \ {c}
    /\ call' = [call EXCEPT !.todo = @ \ {c}]
    /\ UNCHANGED <<files, sources, history>>

\* _signer_of opens the sidecar once more; one that is no object raises here,
\* with the classes merged and no source recorded.
RecordSource ==
    /\ call.pc = "merge"
    /\ call.todo = {}
    /\ IF Here.side = NotAnObject
       THEN lost' = TRUE /\ UNCHANGED sources
       ELSE /\ sources' = Append(sources,
                 [signer |-> IF Here.side = None THEN None ELSE Here.side.signer,
                  body   |-> call.body])
            /\ UNCHANGED lost
    /\ Return
    /\ UNCHANGED <<files, services, candidates, merged, swapped>>

-----------------------------------------------------------------------------
(* fetch_signed_update_online: the pack, then its sidecar, into a private   *)
(* directory; a failed fetch returns with nothing changed.                  *)

FetchPack ==
    /\ call.pc = "idle"
    /\ store["web"].pack # None
    /\ store' = [store EXCEPT !["copy"] = [pack |-> store["web"].pack, side |-> None]]
    /\ call' = [Idle EXCEPT !.pc = "fetch", !.place = "copy"]
    /\ UNCHANGED <<registry, history, signed, writes>>

FetchSidecar ==
    /\ call.pc = "fetch"
    /\ IF store["web"].side = None
       THEN Return /\ UNCHANGED store
       ELSE /\ store' = [store EXCEPT !["copy"].side = store["web"].side]
            /\ call' = [call EXCEPT !.pc = "verify"]
    /\ UNCHANGED <<registry, history, signed, writes>>

(* ingest_candidates, one entry of the feed.                                *)
IngestCandidate(c) ==
    /\ call.pc = "idle"
    /\ c \notin Untrusted
    /\ services[c] = None
    /\ candidates' = candidates \cup {c}
    /\ UNCHANGED <<files, services, sources, call, history>>

RegistryNext ==
    \/ \E p \in {"file", "web"} :
         \/ \E u \in Updates : WritePack(p, u)
         \/ \E s \in Signers : SignPack(p, s)
         \/ SpoilSide(p)
         \/ RemovePack(p)
    \/ BeginApply \/ Verify \/ Read \/ RecordSource
    \/ FetchPack \/ FetchSidecar
    \/ \E c \in Classes : MergeClass(c) \/ IngestCandidate(c)

Spec == Init /\ [][RegistryNext]_registryVars

-----------------------------------------------------------------------------
Files == [pack : Updates \cup {None}, side : Sidecars \cup {None, NotAnObject}]
Calls == [pc : {"idle", "fetch", "verify", "read", "merge"},
          place : {"file", "copy"}, body : Updates \cup {None}, todo : SUBSET Classes]

TypeOK ==
    /\ store \in [Places -> Files]
    /\ services \in [Classes -> Services \cup {None}]
    /\ candidates \subseteq Classes
    /\ sources \in Seq([signer : Signers \cup {None}, body : Updates])
    /\ call \in Calls
    /\ merged \subseteq [body : Updates, swapped : BOOLEAN]
    /\ signed \subseteq Updates \X Signers
    /\ swapped \in BOOLEAN /\ lost \in BOOLEAN
    /\ writes \in 0 .. MaxWrites

\* The update was signed by a trusted signer, as it was merged.
SignedByTrusted(u) == \E s \in Trusted : <<u, s>> \in signed

(***************************************************************************)
(* PROPERTY OnlyTrustedUpdates (chip_registry.py:26-39, 119-150).  The      *)
(* baseline is as rooted in the code and no untrusted class is known,       *)
(* whoever signed.  Any other known class has the service that some merged  *)
(* update gives it, and that update was signed by a trusted signer, unless  *)
(* the local file was replaced between its verification and its reading.    *)
(* A candidate of a feed is not known, however feeds and updates alternate. *)
(***************************************************************************)
OnlyTrustedUpdates ==
    /\ \A c \in DOMAIN Baseline : services[c] = Baseline[c]
    /\ \A c \in Untrusted : services[c] = None
    /\ \A c \in Classes \ DOMAIN Baseline : services[c] # None =>
         \E m \in merged : /\ c \in DOMAIN m.body.classes
                           /\ m.body.classes[c] = services[c]
                           /\ SignedByTrusted(m.body) \/ m.swapped
    /\ \A c \in candidates : services[c] = None

(***************************************************************************)
(* PROPERTY ServicesFollowSources (chip_registry.py:128-138, 147).  Between *)
(* calls, every class that is not of the baseline has the service of the    *)
(* last recorded source that names it, an older update applied again        *)
(* included; only a call that fails at its last read breaks the tie.        *)
(***************************************************************************)
Naming(c) == {i \in DOMAIN sources : c \in DOMAIN sources[i].body.classes}

FromSources(c) ==
    IF Rejected(c) THEN IF c \in DOMAIN Baseline THEN Baseline[c] ELSE None
    ELSE IF Naming(c) = {} THEN None
    ELSE LET last == CHOOSE i \in Naming(c) : \A j \in Naming(c) : j <= i
         IN  sources[last].body.classes[c]

ServicesFollowSources ==
    call.pc # "merge" /\ ~lost => \A c \in Classes : services[c] = FromSources(c)

=============================================================================
