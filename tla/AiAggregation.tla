--------------------------- MODULE AiAggregation ----------------------------
(***************************************************************************)
(* How the events of an analysis are put into groups before the provider    *)
(* sees them: src/teald/src/ai/aggregator.rs.  An event is [id, subject];   *)
(* ids are in the order of the time stamps, and stand for them.            *)
(***************************************************************************)
EXTENDS Integers, SequencesExt

CONSTANTS
    MaxGap,     \* max_gap_ms
    MaxGroup    \* max_group_events

ASSUME AggregationAssumption == MaxGap \in Nat /\ MaxGroup \in Nat \ {0}

\* AggregatingBlock::can_merge: the subject is all that has to be the same.
CanMerge(group, e) ==
    /\ Len(group) < MaxGroup
    /\ e.id - Last(group).id \in 0 .. MaxGap
    /\ Last(group).subject = e.subject

\* aggregate_events, the next of the events.
Merged(groups, e) ==
    IF groups # <<>> /\ CanMerge(Last(groups), e)
    THEN [groups EXCEPT ![Len(groups)] = Append(@, e)]
    ELSE Append(groups, <<e>>)

\* evidence_event_ids: of a long group the first two and the last.
Representatives(group) ==
    {group[i].id : i \in {1, 2, Len(group)} \cap DOMAIN group}

\* sort_by time stamp in analyze_with_provenance.
Earliest(events) == CHOOSE e \in events : \A d \in events : e.id <= d.id

\* validate_request.
ValidRequest(request) ==
    \A i, j \in DOMAIN request : request[i].id = request[j].id => i = j

=============================================================================
