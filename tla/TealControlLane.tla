-------------------------- MODULE TealControlLane ---------------------------
(***************************************************************************)
(* The control lane of kernel/security/teal: teal_lsm.c's request queue    *)
(* and the part of teal_rs.rs that asks for approval.                      *)
(*                                                                         *)
(* A hooked operation that no ticket covers raises one or more events.     *)
(* Each is put to the daemon as a request with an id of its own.  Under    *)
(* AUDIT the request is sent and the event is let through; under ENFORCE   *)
(* it is listed, sent, and waited for until the daemon's APPROVE or DENY,  *)
(* a flush, a signal or the timeout ends the wait.  The first event that   *)
(* is refused refuses the operation.                                       *)
(*                                                                         *)
(* Of the daemon session (TealSession) only what the lane reads is kept:   *)
(* whether one lane, both or none are registered, the cleanup work item,   *)
(* and the policy updates.  Commands are handled one at a time.  The       *)
(* daemon may answer any request ever sent, at any time and repeatedly.    *)
(***************************************************************************)
EXTENDS Naturals, FiniteSets, FiniteSetsExt

CONSTANTS
    Thread,     \* user threads that run hooked operations
    MaxEvents,  \* most events one operation raises (CHMOD and CHOWN: 2)
    MaxId       \* bound on the requests of a behaviour

ASSUME LaneAssumption ==
    /\ MaxEvents \in Nat \ {0}
    /\ MaxId \in Nat

VARIABLES
    enforcing,  \* ENFORCING_MODE of teal_rs.rs
    link,       \* the lanes registered: none, RX only, both, none any more
    cleanup,    \* teal_daemon_disconnect_work is queued
    updating,   \* POLICY_UPDATE has published its epoch, has yet to flush
    nextId,     \* teal_next_id
    pc,         \* where each thread is
    todo,       \* the events of its operation still to be let through
    cur,        \* its current request, 0 if none
    list,       \* teal_ctl_list
    decision,   \* req->decision: 0, 1, -EACCES
    sent,       \* history: the requests that were sent and waited for
    fresh,      \* history: ... under the policy in force
    outcome,    \* history: how each request came out
    events,     \* history: how many events the thread's operation has
    asked,      \* history: the request each of them was put into, the one that
                \* comes last numbered 1; 0 if none was
    passed      \* history: teal_decision_logic returned 0

linkVars == <<enforcing, link, cleanup, updating>>
sentVars == <<sent, fresh>>
opVars == <<events, asked, passed>>
threadVars == <<nextId, pc, todo, cur, opVars>>
vars == <<linkVars, sentVars, threadVars, list, decision, outcome>>

Id == 1 .. MaxId

PC == {"idle",
       "mode",      \* about to read the mode for its next event
       "audit",     \* will only report the event
       "enlist",    \* will list its request
       "send",      \* listed, not yet sent
       "wait",      \* sent, in the wait queue
       "detach"}    \* done waiting, still listed

Outcomes == {"open", "audited", "unsent", "approved", "denied", "timeout",
             "interrupted"}
LetThrough == {"audited", "unsent", "approved", "timeout"}

TypeOK ==
    /\ enforcing \in BOOLEAN
    /\ link \in {"down", "rx", "up", "lost"}
    /\ cleanup \in BOOLEAN
    /\ updating \in BOOLEAN
    /\ nextId \in 0 .. MaxId
    /\ pc \in [Thread -> PC]
    /\ todo \in [Thread -> 0 .. MaxEvents]
    /\ cur \in [Thread -> 0 .. MaxId]
    /\ list \subseteq Id
    /\ decision \in [Id -> {"pending", "approve", "deny"}]
    /\ sent \subseteq Id
    /\ fresh \subseteq Id
    /\ outcome \in [Id -> Outcomes]
    /\ events \in [Thread -> 0 .. MaxEvents]
    /\ asked \in [Thread -> [1 .. MaxEvents -> 0 .. MaxId]]
    /\ passed \in [Thread -> BOOLEAN]

Init ==
    /\ enforcing = FALSE
    /\ link = "down"
    /\ cleanup = FALSE
    /\ updating = FALSE
    /\ nextId = 0
    /\ pc = [t \in Thread |-> "idle"]
    /\ todo = [t \in Thread |-> 0]
    /\ cur = [t \in Thread |-> 0]
    /\ list = {}
    /\ decision = [i \in Id |-> "pending"]
    /\ sent = {}
    /\ fresh = {}
    /\ outcome = [i \in Id |-> "open"]
    /\ events = [t \in Thread |-> 0]
    /\ asked = [t \in Thread |-> [k \in 1 .. MaxEvents |-> 0]]
    /\ passed = [t \in Thread |-> FALSE]

Goto(t, from, to) ==
    /\ pc[t] = from
    /\ pc' = [pc EXCEPT ![t] = to]

-----------------------------------------------------------------------------
(* The hooked operation. *)

\* Requests made so far and those the running operations may still make.
Demand == nextId + MapThenSumSet(LAMBDA t : todo[t], Thread)

\* teal_decision_logic is called with n event bits set.
Enter(t, n) ==
    /\ Goto(t, "idle", "mode")
    /\ Demand + n <= MaxId
    /\ todo' = [todo EXCEPT ![t] = n]
    /\ events' = [events EXCEPT ![t] = n]
    /\ asked' = [asked EXCEPT ![t] = [k \in 1 .. MaxEvents |-> 0]]
    /\ passed' = [passed EXCEPT ![t] = FALSE]
    /\ UNCHANGED <<linkVars, sentVars, nextId, cur, list, decision, outcome>>

\* request_approval_ex reads the mode once.
ReadMode(t) ==
    /\ Goto(t, "mode", IF enforcing THEN "enlist" ELSE "audit")
    /\ UNCHANGED <<linkVars, sentVars, nextId, todo, cur, list, decision,
                   outcome, opVars>>

\* The loop of teal_decision_logic over the event bits: the next event, or the
\* end after the last one or the first refusal.
Proceed(t, i, ok) ==
    LET last == ~ok \/ todo[t] = 1
    IN  /\ pc' = [pc EXCEPT ![t] = IF last THEN "idle" ELSE "mode"]
        /\ todo' = [todo EXCEPT ![t] = IF last THEN 0 ELSE todo[t] - 1]
        /\ asked' = [asked EXCEPT ![t][todo[t]] = i]
        /\ passed' = [passed EXCEPT ![t] = last /\ ok]
        /\ UNCHANGED events

-----------------------------------------------------------------------------
(* teal_wait_for_approval. *)

NewId ==
    /\ nextId < MaxId
    /\ nextId' = nextId + 1

Deliver(i) ==
    /\ link = "up"
    /\ sent' = sent \cup {i}
    /\ fresh' = fresh \cup {i}

SettleAs(i, o) == outcome' = [outcome EXCEPT ![i] = o]

\* The request cannot be built for want of memory: -ENOMEM.
BuildFails(t) ==
    /\ pc[t] \in {"audit", "enlist"}
    /\ Proceed(t, 0, FALSE)
    /\ UNCHANGED <<linkVars, sentVars, nextId, cur, list, decision, outcome>>

\* AUDIT: the request is never listed, and sent or not the event passes.  No
\* answer to it is of any effect, so the daemon's copy is left out.
AuditSend(t) ==
    /\ pc[t] = "audit"
    /\ NewId
    /\ SettleAs(nextId', "audited")
    /\ Proceed(t, nextId', TRUE)
    /\ UNCHANGED <<linkVars, sentVars, cur, list, decision>>

\* ENFORCE: the request is listed before it is sent, so that no answer and no
\* flush can miss it.
Enlist(t) ==
    /\ Goto(t, "enlist", "send")
    /\ NewId
    /\ cur' = [cur EXCEPT ![t] = nextId']
    /\ list' = list \cup {nextId'}
    /\ UNCHANGED <<linkVars, sentVars, todo, decision, outcome, opVars>>

Send(t) ==
    /\ Goto(t, "send", "wait")
    /\ Deliver(cur[t])
    /\ UNCHANGED <<linkVars, nextId, todo, cur, list, decision, outcome,
                   opVars>>

\* No session, no memory, or the daemon's socket is full or gone: the event is
\* let through, whatever a flush decided meanwhile.
SendFails(t) ==
    /\ pc[t] = "send"
    /\ SettleAs(cur[t], "unsent")
    /\ Proceed(t, cur[t], TRUE)
    /\ cur' = [cur EXCEPT ![t] = 0]
    /\ list' = list \ {cur[t]}
    /\ UNCHANGED <<linkVars, sentVars, nextId, decision>>

EndWait(t, o) ==
    /\ Goto(t, "wait", "detach")
    /\ SettleAs(cur[t], o)
    /\ UNCHANGED <<linkVars, sentVars, nextId, todo, cur, list, decision,
                   opVars>>

Finds(t, d) == pc[t] = "wait" /\ decision[cur[t]] = d

Decided(t) ==
    \/ Finds(t, "approve") /\ EndWait(t, "approved")
    \/ Finds(t, "deny") /\ EndWait(t, "denied")

\* Faulty variant: the wait has no limit.
TimeOutNever(t) == FALSE

\* Three seconds went by; the condition is looked at a last time.
TimeOut(t) == Finds(t, "pending") /\ EndWait(t, "timeout")

\* A signal: the operation fails with -EINTR.
Interrupt(t) == Finds(t, "pending") /\ EndWait(t, "interrupted")

\* teal_req_detach_free: until here an answer still finds the request.
Detach(t) ==
    /\ pc[t] = "detach"
    /\ list' = list \ {cur[t]}
    /\ Proceed(t, cur[t], outcome[cur[t]] \in LetThrough)
    /\ cur' = [cur EXCEPT ![t] = 0]
    /\ UNCHANGED <<linkVars, sentVars, nextId, decision, outcome>>

-----------------------------------------------------------------------------
(* Commands of the daemon, on the TX socket. *)

\* The sender is checked before anything else: a command that passed may still
\* take effect after its session was lost, though not after the next REGISTER.
Authorized == link \in {"up", "lost"} /\ ~updating

\* Faulty variant: a later answer replaces the earlier one.
OpenOverwrites(i) == i \in list

\* handle_approve_deny: listed and undecided; -ENOENT otherwise.
Open(i) == i \in list /\ decision[i] = "pending"

Answer(i, d) ==
    /\ Authorized
    /\ i \in sent
    /\ Open(i)
    /\ decision' = [decision EXCEPT ![i] = d]
    /\ UNCHANGED <<linkVars, sentVars, threadVars, list, outcome>>

Approve(i) == Answer(i, "approve")

Deny(i) == Answer(i, "deny")

ModeSwitch(m) ==
    /\ Authorized
    /\ enforcing' = m
    /\ UNCHANGED <<link, cleanup, updating, sentVars, threadVars, list,
                   decision, outcome>>

\* teal_flush_all_queues_locked: all waiters are refused under one lock.
DenyAll ==
    decision' = [i \in Id |-> IF Open(i) THEN "deny" ELSE decision[i]]

\* The session is looked at once more when the epoch is published.
PolicyPublish ==
    /\ Authorized
    /\ link = "up"
    /\ updating' = TRUE
    /\ fresh' = {}
    /\ UNCHANGED <<enforcing, link, cleanup, sent, threadVars, list,
                   decision, outcome>>

\* Faulty variant: only the ticket cache is flushed.
PolicyFlushTicketsOnly ==
    /\ updating
    /\ updating' = FALSE
    /\ UNCHANGED <<enforcing, link, cleanup, sentVars, threadVars, list,
                   decision, outcome>>

\* The ticket mutex is held since the publication.
PolicyFlush ==
    /\ updating
    /\ updating' = FALSE
    /\ DenyAll
    /\ UNCHANGED <<enforcing, link, cleanup, sentVars, threadVars, list,
                   outcome>>

-----------------------------------------------------------------------------
(* The session: TealSession in the large. *)

NoSession == link \in {"down", "lost"}

\* REGISTER RX flushes under the ticket mutex; its reply may fail.
RegisterRx(ok) ==
    /\ NoSession
    /\ ~updating
    /\ DenyAll
    /\ link' = IF ok THEN "rx" ELSE "down"
    /\ UNCHANGED <<enforcing, cleanup, updating, sentVars, threadVars, list,
                   outcome>>

RegisterTx ==
    /\ link = "rx"
    /\ link' = "up"
    /\ UNCHANGED <<enforcing, cleanup, updating, sentVars, threadVars, list,
                   decision, outcome>>

\* Faulty variant: the notifier forgets to schedule the cleanup.
DisconnectNoCleanup ==
    /\ ~NoSession
    /\ link' = IF link = "up" THEN "lost" ELSE "down"
    /\ UNCHANGED <<enforcing, cleanup, updating, sentVars, threadVars, list,
                   decision, outcome>>

\* Either socket goes away.
Disconnect ==
    /\ ~NoSession
    /\ link' = IF link = "up" THEN "lost" ELSE "down"
    /\ cleanup' = TRUE
    /\ UNCHANGED <<enforcing, updating, sentVars, threadVars, list, decision,
                   outcome>>

\* teal_daemon_disconnect_workfn
Cleanup ==
    /\ cleanup
    /\ ~updating
    /\ cleanup' = FALSE
    /\ IF NoSession THEN DenyAll ELSE UNCHANGED decision
    /\ UNCHANGED <<enforcing, link, updating, sentVars, threadVars, list,
                   outcome>>

-----------------------------------------------------------------------------
\* What a thread does on its own; only the timeout and signals are left out.
Run(t) ==
    \/ ReadMode(t) \/ BuildFails(t) \/ AuditSend(t) \/ Enlist(t)
    \/ Send(t) \/ SendFails(t) \/ Decided(t) \/ Detach(t)

ThreadStep(t) ==
    \/ \E n \in 1 .. MaxEvents : Enter(t, n)
    \/ Run(t) \/ TimeOut(t) \/ Interrupt(t)

DaemonStep ==
    \/ \E i \in Id : Approve(i) \/ Deny(i)
    \/ \E m \in BOOLEAN : ModeSwitch(m)
    \/ PolicyPublish \/ PolicyFlush

SessionStep ==
    \/ \E ok \in BOOLEAN : RegisterRx(ok)
    \/ RegisterTx \/ Disconnect \/ Cleanup

Next == (\E t \in Thread : ThreadStep(t)) \/ DaemonStep \/ SessionStep

Spec == Init /\ [][Next]_vars

\* The kernel schedules its threads and the work item; a POLICY_UPDATE under
\* way is finished.  The daemon need not answer anything.
KernelRuns ==
    /\ \A t \in Thread : WF_vars(Run(t))
    /\ WF_vars(PolicyFlush)
    /\ WF_vars(Cleanup)

TimersFire == \A t \in Thread : WF_vars(TimeOut(t))

FairSpec == Spec /\ KernelRuns

-----------------------------------------------------------------------------
(* Properties. *)

\* The list holds the requests of the threads that are between listing and
\* detaching and no other: no entry outlives its request, which is freed
\* whether the wait succeeded, was cut short or never began.
HasRequest(t) == pc[t] \in {"send", "wait", "detach"}

ListedWhileLive ==
    \A i \in Id :
        i \in list <=> \E t \in Thread : HasRequest(t) /\ cur[t] = i

\* An APPROVE is accepted only for a request that was sent under the policy in
\* force: the daemon's verdict under an older one meets a request the flush of
\* POLICY_UPDATE has refused, though APPROVE itself carries no epoch.
StaleApprovalRefused ==
    [][\A i \in Id : (decision[i] # "approve" /\ decision'[i] = "approve")
           => i \in fresh]_vars

\* teal_decision_logic returns 0 only if each event of the operation was put
\* into a request that came out so, whatever happened to the mode, the session
\* and the policy between its events (teal_rs.rs:512).
AllowedEventByEvent ==
    \A t \in Thread : passed[t] =>
        \A k \in 1 .. events[t] :
            asked[t][k] \in Id /\ outcome[asked[t][k]] \in LetThrough

\* "A request that is waiting when the daemon is lost or stops answering is
\* discarded with EACCES, and so is every new one": what is let through under
\* ENFORCE was approved.
FailSafeRefuses ==
    \A i \in Id : outcome[i] \notin {"unsent", "timeout"}

\* With timers that fire, every hooked operation returns to its thread: no
\* daemon can hold one up.
OperationsReturn ==
    TimersFire => \A t \in Thread : pc[t] # "idle" ~> pc[t] = "idle"

\* When the session ends, those who wait for it are released by the cleanup or
\* by the next REGISTER, without having to sit out the timeout.
OrphansReleased ==
    \A t \in Thread : (pc[t] = "wait" /\ link = "lost") ~> pc[t] # "wait"

\* A request gets one verdict and comes out as it says, a timeout or a signal
\* apart: a late, a second or another daemon's answer never changes it.
VerdictOn == [i \in Id |-> CASE decision[i] = "pending" -> "none"
                             [] decision[i] = "approve" -> "allow"
                             [] decision[i] = "deny"    -> "refuse"]

OutcomeOf == [i \in Id |-> IF outcome[i] = "open" THEN "open"
                           ELSE IF outcome[i] \in LetThrough THEN "allow"
                           ELSE "refuse"]

Judged == INSTANCE Verdict WITH asked <- sent, verdict <- VerdictOn,
                                outcome <- OutcomeOf

ImplementsVerdict == Judged!VerdictSpec

=============================================================================
