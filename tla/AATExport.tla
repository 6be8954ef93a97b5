------------------------------ MODULE AATExport ------------------------------
(***************************************************************************)
(* interop/aat.py, from_omega: the entries of an omega agent ledger mapped  *)
(* to one AAT chain per session, each opened by a synthesised genesis       *)
(* record, signed record by record, closed on request, and verified before  *)
(* it is handed over.  Any entry that cannot be mapped raises ValueError    *)
(* and nothing is exported.                                                 *)
(*                                                                         *)
(* An entry is [kind, session, agent, seed, action, outcome, decision,      *)
(* resource, consistent, approver, time], seed being its self_hash; what    *)
(* the ledger entry lacks is None.  how is the caller's                     *)
(* [signer, recorder, trust, close].                                        *)
(***************************************************************************)
EXTENDS AATVerdict

Refused == [refused |-> TRUE, chains |-> << >>, seeds |-> {}]

(* The section 7 fields, derived from what the entry carries; None when     *)
(* they cannot be.                                                          *)
DetailFor(e) ==
    LET base == [omega_action |-> e.action, resource |-> e.resource,
                 decision |-> e.decision, omega_self_hash |-> e.seed]
    IN  IF ActionMap[e.action] = "tool_call"
        THEN IF e.resource = None THEN None
             ELSE [tool_name |-> e.action,
                   parameters_hash |-> <<"sha256", e.resource>>] ++ base
        ELSE IF e.decision = None THEN None
             ELSE [decision_type |-> e.decision] ++ base

(* The checks made on an entry before its record is built.                  *)
Unmappable(e, seeds, how) ==
    \/ e.session = None
    \/ e.agent = None
    \/ e.seed = None
    \/ e.seed \in seeds
    \/ how.recorder # None /\ how.recorder = e.agent
    \/ ~e.consistent
    \/ e.action \notin DOMAIN ActionMap
    \/ e.outcome \notin DOMAIN OutcomeMap
    \/ DetailFor(e) = None

WithRecorder(rec, how) ==
    IF how.recorder = None THEN rec ELSE [recording_component |-> how.recorder] ++ rec

(* The genesis is stamped with the time of the session's first action.      *)
Genesis(e, how) ==
    LET detail == [event |-> "session_start",
                   recording_mode |-> IF how.recorder = None THEN "self" ELSE "independent"]
                  ++ (IF how.recorder = None THEN << >>
                      ELSE [recording_component_id |-> how.recorder])
    IN  Sign(WithRecorder([record_id        |-> <<"genesis", e.session>>,
                           timestamp        |-> e.time,
                           agent_id         |-> e.agent,
                           agent_version    |-> "1",
                           session_id       |-> e.session,
                           action_type      |-> "lifecycle",
                           action_detail    |-> detail,
                           outcome          |-> "success",
                           trust_level      |-> how.trust,
                           record_phase     |-> "concurrent",
                           parent_record_id |-> None,
                           prev_hash        |-> None], how), how.signer)

ActionRecord(e, prev, how) ==
    LET rec == [record_id        |-> <<"record", e.seed>>,
                timestamp        |-> e.time,
                agent_id         |-> e.agent,
                agent_version    |-> "1",
                session_id       |-> e.session,
                action_type      |-> ActionMap[e.action],
                action_detail    |-> DetailFor(e),
                outcome          |-> OutcomeMap[e.outcome],
                trust_level      |-> how.trust,
                record_phase     |-> PhaseMap[e.outcome],
                parent_record_id |-> prev.record_id,
                prev_hash        |-> RecordHash(prev)]
        overridden == IF e.approver = None THEN rec
                      ELSE [human_override |-> e.approver] ++ rec
    IN  Sign(WithRecorder(overridden, how), how.signer)

(* One entry: skipped, refused, or one more record of its session's chain.  *)
ExportEntry(st, e, how) ==
    IF st.refused \/ e.kind # "agent_governance_action" THEN st
    ELSE IF Unmappable(e, st.seeds, how) THEN Refused
    ELSE LET chain == IF e.session \in DOMAIN st.chains THEN st.chains[e.session]
                      ELSE <<Genesis(e, how)>>
             prev  == Last(chain)
         IN  IF e.agent # prev.agent_id \/ e.time < prev.timestamp THEN Refused
             ELSE [refused |-> FALSE,
                   seeds   |-> st.seeds \cup {e.seed},
                   chains  |-> Put(st.chains, e.session,
                                   Append(chain, ActionRecord(e, prev, how)))]

\* The keys the export verifies itself with: its own, or none.
SelfOpts(how) ==
    LET own == {how.signer.pq, how.signer.classical} \ {None}
    IN  [keys |-> IF own = {} THEN None ELSE [k \in own |-> k],
         fallback |-> None, legacy |-> FALSE, agent_kid |-> None, recorder_kid |-> None,
         tombstone_kids |-> {}, require |-> FALSE, algs |-> SigAlgs]

(* The chains by session, or Refused.  An independent recording that nobody *)
(* signs is refused before any entry is read.                               *)
FromOmega(entries, how) ==
    LET st[n \in 0 .. Len(entries)] ==
            IF n = 0 THEN [refused |-> FALSE, chains |-> << >>, seeds |-> {}]
                     ELSE ExportEntry(st[n - 1], entries[n], how)
        mapped == st[Len(entries)]
        Closed(chain) == Append(chain, Sign(CloseRecord(chain, TRUE, Last(chain).timestamp),
                                            how.signer))
        done == [s \in DOMAIN mapped.chains |->
                    IF how.close THEN Closed(mapped.chains[s]) ELSE mapped.chains[s]]
    IN  IF \/ /\ how.recorder # None
              /\ how.signer.pq = None /\ how.signer.classical = None
           \/ mapped.refused
           \/ \E s \in DOMAIN done : ~VerifyChain(done[s], SelfOpts(how))
        THEN Refused
        ELSE [refused |-> FALSE, chains |-> done, seeds |-> mapped.seeds]
=============================================================================
