--------------------------- MODULE TealdEvidence ----------------------------
(***************************************************************************)
(* The evidence log of teald and what the analysis makes of it: entries go *)
(* through a queue to one writer, whose file is flushed every second and   *)
(* changed on SIGHUP, while writes fail and the machine loses power; the   *)
(* writer hands on what the analysis may see and never waits for it.       *)
(* src/teald/src/evidence/mod.rs and storage.rs, src/teald/src/ai.         *)
(*                                                                         *)
(* Entries are numbered by their time stamp.  A line is two pieces, of     *)
(* which the second ends it.  What an event tells of its subject is one     *)
(* value.  The provider answers with any events, fails or is never heard   *)
(* of.                                                                     *)
(***************************************************************************)
EXTENDS Integers, Sequences, FiniteSets, AiAggregation

CONSTANTS
    MaxEntry,       \* bound on the entries
    SubjectOf,      \* SubjectOf[e]: what the event of entry e tells of its subject
    QueueRoom,      \* buffer_size
    EventRoom,      \* event_queue_capacity
    AnalysisRoom,   \* analysis_queue_capacity
    MaxEvents,      \* max_events of the collector
    MaxFail,        \* bound on failing writes
    MaxCrash,       \* bound on power failures
    MaxFile,        \* bound on the log files
    MaxAnomaly      \* bound on the anomalies the provider reports at a time

ASSUME EvidenceAssumption ==
    /\ {MaxEntry, QueueRoom, EventRoom, AnalysisRoom, MaxEvents, MaxFile}
           \subseteq Nat \ {0}
    /\ MaxAnomaly \in Nat

VARIABLES
    made,           \* for each entry stamped, if the analysis may see it
    sending,        \* those of them a task still waits to send
    queue,          \* the channel to the writer
    buffer,         \* pieces in the BufWriter
    files,          \* log files, the current one last: pieces, how many synced
    events,         \* the channel to the collector
    batch,          \* events the collector has
    analyses,       \* the channel to the analysis worker
    work,           \* what the worker has: events not grouped yet, groups
    result,         \* the analysis stored last
    fails, crashes,
    written,        \* history: entries write_log wrote
    secured         \* history: entries to be read in the file when force_flush
                    \* succeeded

logVars == <<buffer, files, fails>>
aiVars == <<events, batch, analyses, work, result>>
vars == <<made, sending, queue, logVars, aiVars, crashes, written, secured>>

Id == 1 .. MaxEntry
NoResult == [groups |-> <<>>, anomalies |-> {}]
NoWork == [todo |-> {}, groups |-> <<>>]
Opening(e) == <<e, 1>>
Ending(e) == <<e, 2>>

Init ==
    /\ made = <<>>
    /\ sending = {}
    /\ queue = <<>>
    /\ buffer = <<>>
    /\ files = <<[data |-> <<>>, synced |-> 0]>>
    /\ events = <<>>
    /\ batch = <<>>
    /\ analyses = <<>>
    /\ work = NoWork
    /\ result = NoResult
    /\ fails = 0
    /\ crashes = 0
    /\ written = {}
    /\ secured = {}

-----------------------------------------------------------------------------
(* The log files. *)

Current == files[Len(files)]

\* The first n pieces of the buffer go to the file, and with it to the disk.
Put(pieces, n, sync) ==
    LET data == Current.data \o SubSeq(pieces, 1, n)
    IN  /\ buffer' = SubSeq(pieces, n + 1, Len(pieces))
        /\ files' = [files EXCEPT ![Len(files)] =
                        [data |-> data,
                         synced |-> IF sync THEN Len(data) ELSE @.synced]]
Fails == fails < MaxFail /\ fails' = fails + 1

\* Where the two pieces of an entry are one behind the other.
StandsAt(data, e) ==
    {i \in 1 .. Len(data) - 1 : data[i] = Opening(e) /\ data[i + 1] = Ending(e)}

\* teal-logview, process_log_line: a line is read if it is one entry, and
\* nothing else.
Readable(data, e) ==
    \E i \in StandsAt(data, e) : i = 1 \/ \E d \in Id : data[i - 1] = Ending(d)

\* A file, with what is still to be written into it.
Contents(f) == files[f].data \o (IF f = Len(files) THEN buffer ELSE <<>>)

-----------------------------------------------------------------------------
(* Tasks that log. *)

\* enqueue_fast_path, enqueue_slow_path, enqueue_ticket_add, enqueue_mgmt_ctl:
\* is_target_for_ai says of some entries that the analysis may see them.
Stamp(target) ==
    /\ Len(made) < MaxEntry
    /\ made' = Append(made, target)
    /\ sending' = sending \cup {Len(made) + 1}
    /\ UNCHANGED <<queue, logVars, aiVars, crashes, written, secured>>

\* send_entry: waits for a place.
SendEntry(e) ==
    /\ e \in sending
    /\ Len(queue) < QueueRoom
    /\ sending' = sending \ {e}
    /\ queue' = Append(queue, e)
    /\ UNCHANGED <<made, logVars, aiVars, crashes, written, secured>>

-----------------------------------------------------------------------------
(* The writer. *)

\* Faulty variant: the writer waits for the collector.
RoomForEvent == Len(events) < EventRoom
SendWaits(e) == RoomForEvent /\ events' = Append(events, e)

\* try_send: an event is dropped if there is no place.
TrySend(e) == events' = IF RoomForEvent THEN Append(events, e) ELSE events

Collect(e) == IF made[e] THEN TrySend([id |-> e, subject |-> SubjectOf[e]])
              ELSE UNCHANGED events

\* write_log: the buffer may run over while the entry is written, before its
\* last piece.
WriteLog ==
    LET pieces == buffer \o <<Opening(queue[1]), Ending(queue[1])>>
    IN  /\ queue # <<>>
        /\ queue' = SubSeq(queue, 2, Len(queue))
        /\ \E n \in {0, Len(pieces) - 1} : Put(pieces, n, FALSE)
        /\ written' = written \cup {queue[1]}
        /\ Collect(queue[1])
        /\ UNCHANGED <<made, sending, fails, batch, analyses, work, result,
                       crashes, secured>>

\* Faulty variant: an entry goes to the collector, though it is not written.
CollectLost(e) == Collect(e)

\* An entry that is not written is not collected either.
Lost(e) == UNCHANGED events

\* Nothing of the entry gets into the buffer, or its first piece.
WriteLogFails ==
    /\ queue # <<>>
    /\ Fails
    /\ queue' = SubSeq(queue, 2, Len(queue))
    /\ \E pieces \in {buffer, Append(buffer, Opening(queue[1]))} :
           \E n \in {0, Len(buffer)} : Put(pieces, n, FALSE)
    /\ Lost(queue[1])
    /\ UNCHANGED <<made, sending, batch, analyses, work, result, crashes,
                   written, secured>>

\* Faulty variant: what is flushed is not synced.
FlushOnly == Put(buffer, Len(buffer), FALSE)

FlushAndSync == Put(buffer, Len(buffer), TRUE)

ForceFlush ==
    /\ FlushAndSync
    /\ secured' = secured \cup
                      {e \in written : Readable(Current.data \o buffer, e)}
    /\ UNCHANGED <<made, sending, queue, fails, aiVars, crashes, written>>

\* The flush stops somewhere, or is done and the sync fails; so does reopen_log
\* that cannot flush, or not open the new file.
ForceFlushFails ==
    /\ Fails
    /\ \E n \in 0 .. Len(buffer) : Put(buffer, n, FALSE)
    /\ UNCHANGED <<made, sending, queue, aiVars, crashes, written, secured>>

\* Faulty variant: the buffer goes with the old file.
Discarded(pieces) == Current

Flushed(pieces) == [Current EXCEPT !.data = @ \o pieces]

\* reopen_log, after the file was renamed: what was flushed is not synced.
ReopenLog ==
    /\ Len(files) < MaxFile
    /\ files' = Append([files EXCEPT ![Len(files)] = Flushed(buffer)],
                       [data |-> <<>>, synced |-> 0])
    /\ buffer' = <<>>
    /\ UNCHANGED <<made, sending, queue, fails, aiVars, crashes, written, secured>>

-----------------------------------------------------------------------------
(* The collector and the analysis. *)

AiOnly == UNCHANGED <<made, sending, queue, logVars, crashes, written, secured>>

\* flush and submit: a batch is dropped if there is no place.
Submit(b) ==
    /\ batch' = <<>>
    /\ analyses' = IF b # <<>> /\ Len(analyses) < AnalysisRoom
                   THEN Append(analyses, b) ELSE analyses

Receive ==
    LET b == Append(batch, events[1])
    IN  /\ events # <<>>
        /\ events' = SubSeq(events, 2, Len(events))
        /\ IF Len(b) >= MaxEvents THEN Submit(b)
           ELSE batch' = b /\ UNCHANGED analyses
        /\ AiOnly /\ UNCHANGED <<work, result>>

WindowEnds ==
    /\ batch # <<>>
    /\ Submit(batch)
    /\ AiOnly /\ UNCHANGED <<events, work, result>>

\* validate_result: any anomalies or none, each with the ids of up to three
\* events that the provider was shown.
ValidResult(groups, anomalies) ==
    \A ids \in anomalies :
        /\ ids # {} /\ Cardinality(ids) <= 3
        /\ ids \subseteq UNION {Representatives(g) : g \in groups}

\* run_ai_analysis_worker takes the next analysis.
TakeAnalysis ==
    /\ work = NoWork /\ analyses # <<>>
    /\ analyses' = SubSeq(analyses, 2, Len(analyses))
    /\ work' = IF ValidRequest(analyses[1])
               THEN [NoWork EXCEPT !.todo = Range(analyses[1])] ELSE NoWork
    /\ AiOnly /\ UNCHANGED <<events, batch, result>>

\* aggregate_events: one event after the other.
Group ==
    LET e == Earliest(work.todo)
    IN  /\ work.todo # {}
        /\ work' = [todo |-> work.todo \ {e}, groups |-> Merged(work.groups, e)]
        /\ AiOnly /\ UNCHANGED <<events, batch, analyses, result>>

\* The provider reports anomalies of any events; what is not valid is not
\* stored, nor anything if it fails.
ProviderAnswers ==
    /\ work.todo = {} /\ work.groups # <<>>
    /\ work' = NoWork
    /\ \E anomalies \in SUBSET SUBSET DOMAIN made :
           /\ Cardinality(anomalies) <= MaxAnomaly
           /\ result' = IF ValidResult(Range(work.groups), anomalies)
                        THEN [groups |-> work.groups, anomalies |-> anomalies]
                        ELSE result
    /\ AiOnly /\ UNCHANGED <<events, batch, analyses>>

-----------------------------------------------------------------------------
\* Power fails: of the files there is what was synced, and maybe more; teald
\* starts again with the current one.
PowerFails ==
    /\ crashes < MaxCrash
    /\ crashes' = crashes + 1
    /\ \E kept \in [DOMAIN files -> 0 .. 2 * MaxEntry] :
           /\ \A f \in DOMAIN files :
                  kept[f] \in files[f].synced .. Len(files[f].data)
           /\ files' = [f \in DOMAIN files |->
                            [data |-> SubSeq(files[f].data, 1, kept[f]),
                             synced |-> kept[f]]]
    /\ buffer' = <<>>
    /\ sending' = {}
    /\ queue' = <<>>
    /\ events' = <<>>
    /\ batch' = <<>>
    /\ analyses' = <<>>
    /\ work' = NoWork
    /\ UNCHANGED <<made, fails, result, written, secured>>

Next ==
    \/ \E target \in BOOLEAN : Stamp(target)
    \/ \E e \in Id : SendEntry(e)
    \/ WriteLog \/ WriteLogFails \/ ForceFlush \/ ForceFlushFails \/ ReopenLog
    \/ Receive \/ WindowEnds
    \/ TakeAnalysis \/ Group \/ ProviderAnswers
    \/ PowerFails

Spec == Init /\ [][Next]_vars

\* Tasks and the writer are scheduled, and places in a channel are given in
\* turn; nothing is asked of the collector, the worker and the provider.
FairSpec ==
    /\ Spec
    /\ WF_vars(WriteLog)
    /\ \A e \in Id : WF_vars(SendEntry(e))

-----------------------------------------------------------------------------
(* Properties. *)

\* An entry that could be read when force_flush succeeded can be read for good,
\* also after the file was changed, a later write failed and power was lost
\* (storage.rs:62).
SecuredStays ==
    \A e \in secured : \E f \in DOMAIN files : Readable(files[f].data, e)

\* The entry is there, but on the line that a failed write left half done.
Spoiled(data, e) ==
    \E i \in StandsAt(data, e) :
        i # 1 /\ \E d \in Id \ written : data[i - 1] = Opening(d)

Logged(e) ==
    \E f \in DOMAIN files : Readable(Contents(f), e) \/ Spoiled(Contents(f), e)

\* An entry that write_log wrote is in a file or the buffer until power is lost,
\* however files are changed, and can be read, but for one right behind a write
\* that failed half way (storage.rs:77).
WrittenIsThere == crashes = 0 => \A e \in written : Logged(e)

\* Whatever the provider says, each anomaly stored tells of events that were
\* analysed, the groups of them follow one another in time, and each of them is
\* of an entry that write_log wrote: until power is lost, it is in the log
\* (validate_result, engine.rs:138).
AnalysisFromLog ==
    LET groups == result.groups
        shown == UNION {{groups[g][i].id : i \in DOMAIN groups[g]} : g \in DOMAIN groups}
    IN  /\ \A ids \in result.anomalies : ids # {} /\ ids \subseteq shown
        /\ \A e \in shown : e \in written /\ (crashes = 0 => Logged(e))
        /\ \A g, h \in DOMAIN groups :
               \A i \in DOMAIN groups[g], j \in DOMAIN groups[h] :
                   g < h \/ (g = h /\ i < j) => groups[g][i].id < groups[h][j].id

\* No task that logs is kept waiting: the writer goes on though collector,
\* worker or provider hang and writes fail (EvidenceManager::init, mod.rs:94).
NobodyWaits == \A e \in Id : e \in sending ~> e \notin sending

=============================================================================
