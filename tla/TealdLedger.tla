---------------------------- MODULE TealdLedger -----------------------------
(***************************************************************************)
(* From the kernel's messages to the evidence: the receiver thread, the    *)
(* channels of the two lanes, the decision worker, the audit worker with   *)
(* its tasks, the ledger ACTIVE_TICKETS and the sender.                    *)
(* src/teald/src/netlink.rs, worker/decision.rs, worker/audit.rs.          *)
(*                                                                         *)
(* A ticket is used in the kernel, and the kernel reports the use with     *)
(* nothing but the number of the ticket.  What was done by whom stands in  *)
(* the ledger only, so a report that finds no entry is evidence lost.      *)
(*                                                                         *)
(* The kernel's side of the tickets is in TealTicketCache, approvals are   *)
(* in TealdApproval, management commands in TealdControl.  What is sent to *)
(* the kernel arrives.                                                     *)
(***************************************************************************)
EXTENDS Naturals, FiniteSets, Sequences

CONSTANTS
    Request,    \* requests of the kernel in a behaviour
    Grant,      \* tickets approved in advance, in a behaviour
    Policies,   \* what the one rule may say, a subset of Effect
    MaxEpoch,   \* bound on the epochs
    MaxUses,    \* max_uses of the rule
    MaxSwitch,  \* bound on START and STOP
    SocketRoom, \* messages the receiving socket holds
    LaneRoom,   \* room of the channels of the two lanes, 1024 in the program
    EventRoom,  \* room of the channel of internal events, 5000
    SendRoom,   \* room of the sender's queue, 10240
    Standing,   \* T-000000000
    None

Effect == {"pass",      \* the object is not managed
           "allow", "deny",
           "ticket",    \* allow, and ttl_sec > 0
           "approval"}  \* need_approval

ASSUME LedgerAssumption ==
    /\ IsFiniteSet(Request \cup Grant)
    /\ Request \cap Grant = {}
    /\ {Standing, None} \cap (Request \cup Grant) = {} /\ Standing # None
    /\ Policies \subseteq Effect
    /\ {MaxEpoch, MaxUses} \subseteq Nat \ {0}
    /\ MaxSwitch \in Nat
    /\ {SocketRoom, LaneRoom, EventRoom, SendRoom} \subseteq Nat \ {0}

VARIABLES
    mode,       \* DAEMON_MODE
    epoch,      \* policy_snapshot().epoch
    rule,       \* ... and the effect of its rule, by epoch
    transition, \* the FLUSH or POLICY_UPDATE under way
    approved,   \* fast.approved, and which tickets have been there
    switches,   \* how often START or STOP was run
    ledger,     \* ACTIVE_TICKETS
    socket,     \* the kernel's messages, not received yet
    decision,   \* the channel to the decision worker
    audit,      \* the channel to the audit worker
    events,     \* the channel of internal events
    lane,       \* the queue of netlink_send_worker_loop
    worker,     \* decision_worker_loop
    tasks,      \* what the audit worker has spawned
    kernel,     \* the kernel's epoch, tickets, and what it was told
    state,      \* how each request stands
    logged,     \* the evidence of each request
    final,      \* history: tickets whose last report has been handled
    wiped       \* history: why the entry of a ticket was cleared

policyVars == <<mode, epoch, rule, transition, approved, switches>>
inVars == <<socket, decision, audit>>
historyVars == <<final, wiped>>
vars == <<policyVars, ledger, inVars, events, lane, worker, tasks, kernel,
          state, logged, historyVars>>

Epoch == 1 .. MaxEpoch

\* next_audit_ticket_id never gives a number twice, and a request has at most
\* one ticket of a rule: it is named by the request.
Id == Request \cup Grant

\* The kernel asks about an access that waits or, in AUDIT mode, one it has
\* let go; and it reports a ticket used, or expired.
Asked(r, a) == [req |-> r, audited |-> a]
Reported(i, left, gone) == [id |-> i, left |-> left, expired |-> gone]
Asking == [req : Request, audited : BOOLEAN]
Report == [id : Id, left : 0 .. MaxUses, expired : BOOLEAN]

\* What the decision worker or a task of the audit worker has in hand.
Job == [pc : {"idle",
              "judge",    \* about to judge by the snapshot
              "check",    \* allowed with a ticket: from_result_with_req
              "hydrate",  \* passed by a ticket approved in advance
              "approve", "ticket", "enqueue", "insert", "deny", "resolve",
              "log"},
        req : Request \cup {None},
        epoch : Epoch \cup {0},
        id : Id \cup {Standing, None},
        says : {"allow", "deny", "approval", "none"}]
NoJob == [pc |-> "idle", req |-> None, epoch |-> 0, id |-> None,
          says |-> "none"]

Message == [kind : {"approve", "deny"}, req : Request]
           \cup [kind : {"ticket"}, id : Id \cup {Standing}, epoch : Epoch]
           \cup [kind : {"sync"}, epoch : Epoch]

\* InternalEvent::Resolved.
Resolved == [req : Request, says : {"allow", "deny", "none"}, epoch : Epoch]

TypeOK ==
    /\ mode \in {"drain", "audit", "enforce"}
    /\ epoch \in Epoch
    /\ rule \in [Epoch -> Policies]
    /\ transition \in {"none", "sync", "ack", "commit", "clear", "open"}
    /\ approved \in [Grant -> {"no", "ready", "spent"}]
    /\ switches \in 0 .. MaxSwitch
    /\ ledger \subseteq Id
    /\ socket \in Seq(Asking \cup Report) /\ Len(socket) <= SocketRoom
    /\ decision \in Seq(Request) /\ Len(decision) <= LaneRoom
    /\ audit \in Seq(Asking \cup Report) /\ Len(audit) <= LaneRoom
    /\ events \in Seq(Resolved) /\ Len(events) <= EventRoom
    /\ lane \in Seq(Message) /\ Len(lane) <= SendRoom
    /\ worker \in Job
    /\ tasks \subseteq Job \cup Report \cup Resolved
    /\ kernel \in [epoch : Epoch,
                   tickets : SUBSET [id : Id, epoch : Epoch, left : 1 .. MaxUses],
                   told : [Request -> {"none", "allow", "deny"}]]
    /\ state \in [Request -> {"new", "lost", "waits", "audited", "parked",
                           "passed"}]
    /\ logged \in [Request -> {"none", "allow", "deny", "approval"}]
    /\ final \subseteq Id
    /\ wiped \in [Id -> {"no", "switch", "hand", "epoch"}]

\* teald has synchronised its first epoch, and is in DRAIN.
Init ==
    /\ mode = "drain"
    /\ epoch = 1
    /\ rule \in [Epoch -> Policies]
    /\ transition = "none"
    /\ approved = [g \in Grant |-> "no"]
    /\ switches = 0
    /\ ledger = {}
    /\ socket = <<>> /\ decision = <<>> /\ audit = <<>> /\ events = <<>>
    /\ lane = <<>>
    /\ worker = NoJob
    /\ tasks = {}
    /\ kernel = [epoch |-> 1, tickets |-> {},
                 told |-> [r \in Request |-> "none"]]
    /\ state = [r \in Request |-> "new"]
    /\ logged = [r \in Request |-> "none"]
    /\ final = {}
    /\ wiped = [i \in Id |-> "no"]

-----------------------------------------------------------------------------
(* The kernel. *)

\* A message that finds no room in the receiving socket is lost.
Arrives(m) ==
    socket' = IF Len(socket) < SocketRoom THEN Append(socket, m) ELSE socket

KernelOnly == UNCHANGED <<policyVars, ledger, decision, audit, events, lane,
                          worker, tasks, logged, historyVars>>

Ask(r, audited) ==
    /\ state[r] = "new"
    /\ Arrives(Asked(r, audited))
    /\ state' = [state EXCEPT ![r] =
                     IF socket' = socket THEN "lost"
                     ELSE IF audited THEN "audited" ELSE "waits"]
    /\ UNCHANGED kernel
    /\ KernelOnly

InForce(t) == t \in kernel.tickets /\ t.epoch = kernel.epoch

\* Which uses are reported is set by the audit level of the rule.
UseTicket(t, report) ==
    /\ InForce(t)
    /\ kernel' = [kernel EXCEPT !.tickets =
                      (@ \ {t}) \cup IF t.left = 1 THEN {}
                                     ELSE {[t EXCEPT !.left = @ - 1]}]
    /\ IF report THEN Arrives(Reported(t.id, t.left - 1, FALSE))
       ELSE UNCHANGED socket
    /\ UNCHANGED state
    /\ KernelOnly

ExpireTicket(t, report) ==
    /\ InForce(t)
    /\ kernel' = [kernel EXCEPT !.tickets = @ \ {t}]
    /\ IF report THEN Arrives(Reported(t.id, t.left, TRUE))
       ELSE UNCHANGED socket
    /\ UNCHANGED state
    /\ KernelOnly

-----------------------------------------------------------------------------
(* The receiver thread blocks on a full channel, and receives nothing. *)

IsAsking(m) == "req" \in DOMAIN m

\* Faulty variant: what finds no room is dropped.
Put_Dropping(channel, m, room) ==
    {IF Len(channel) < room THEN Append(channel, m) ELSE channel}

\* What becomes of a channel into which m is put: nothing, while it is full.
Put(channel, m, room) == IF Len(channel) < room THEN {Append(channel, m)} ELSE {}

Receive ==
    /\ socket # <<>>
    /\ LET m == Head(socket)
       IN  IF IsAsking(m) /\ ~m.audited
           THEN /\ decision' \in Put(decision, m.req, LaneRoom)
                /\ UNCHANGED audit
           ELSE /\ audit' \in Put(audit, m, LaneRoom)
                /\ UNCHANGED decision
    /\ socket' = Tail(socket)
    /\ UNCHANGED <<policyVars, ledger, events, lane, worker, tasks, kernel,
                   state, logged, historyVars>>

-----------------------------------------------------------------------------
(* The sender. *)

\* Faulty variant: what finds no room is dropped.
Send_Dropping(m) == lane' = IF Len(lane) < SendRoom THEN Append(lane, m) ELSE lane

Send(m) == Len(lane) < SendRoom /\ lane' = Append(lane, m)

Answering(kind, r) == [kind |-> kind, req |-> r]
Adding(i, e) == [kind |-> "ticket", id |-> i, epoch |-> e]
Syncing(e) == [kind |-> "sync", epoch |-> e]

Dispatch(kind) ==
    /\ lane # <<>>
    /\ Head(lane).kind = kind
    /\ lane' = Tail(lane)
    /\ UNCHANGED <<mode, epoch, rule, approved, switches, ledger, inVars,
                   events, worker, tasks, state, logged, historyVars>>

\* The first answer counts.
DispatchAnswer(kind, says) ==
    LET r == Head(lane).req
    IN  /\ Dispatch(kind)
        /\ kernel' = [kernel EXCEPT !.told[r] = IF @ = "none" THEN says ELSE @]
        /\ UNCHANGED transition

\* Faulty variant: the gate is opened as soon as the epoch is committed.
GateToCommit == transition \in {"sync", "ack", "commit"}

\* TicketTransitionGuard.
Gate == transition # "none"

\* teald drops a ticket while the epoch changes and one of another epoch, and
\* so does the kernel.
DispatchTicket ==
    LET m == Head(lane)
    IN  /\ Dispatch("ticket")
        /\ kernel' = IF /\ ~Gate /\ m.epoch = epoch /\ m.epoch = kernel.epoch
                        /\ m.id # Standing
                     THEN [kernel EXCEPT !.tickets = @ \cup
                               {[id |-> m.id, epoch |-> m.epoch,
                                 left |-> MaxUses]}]
                     ELSE kernel
        /\ UNCHANGED transition

\* POLICY_UPDATE discards the tickets.
DispatchSync ==
    /\ Dispatch("sync")
    /\ kernel' = [kernel EXCEPT !.epoch = Head(lane).epoch, !.tickets = {}]
    /\ transition' = "commit"

-----------------------------------------------------------------------------
(* The decision worker. *)

WorkOnly == UNCHANGED <<mode, epoch, rule, transition, switches, socket, audit,
                        tasks, kernel, logged, historyVars>>

Take ==
    /\ worker.pc = "idle"
    /\ decision # <<>>
    /\ decision' = Tail(decision)
    /\ worker' = [NoJob EXCEPT !.pc = "judge", !.req = Head(decision),
                               !.epoch = epoch]
    /\ UNCHANGED <<approved, ledger, events, lane, state>>
    /\ WorkOnly

\* The worker goes on, if it is at a step.
At(pc) == worker.pc = pc /\ UNCHANGED decision /\ WorkOnly
Goto(pc) == worker' = [worker EXCEPT !.pc = pc]

\* What evaluate says needs no more than the request, except for an approval.
Judge(effect) ==
    /\ At("judge")
    /\ rule[worker.epoch] = effect
    /\ effect # "approval"
    /\ worker' = [worker EXCEPT
           !.pc = CASE effect = "ticket" -> "check"
                    [] effect = "deny" -> "deny"
                    [] OTHER -> "approve",
           !.id = CASE effect = "ticket" -> worker.req
                    [] effect = "pass" -> Standing
                    [] OTHER -> None,
           !.says = IF effect = "deny" THEN "deny" ELSE "allow"]
    /\ UNCHANGED <<approved, ledger, events, lane, state>>

\* A ticket approved in advance leaves fast.approved and enters the ledger.
JudgeApproved(g) ==
    /\ At("judge")
    /\ rule[worker.epoch] = "approval"
    /\ approved[g] = "ready"
    /\ approved' = [approved EXCEPT ![g] = "spent"]
    /\ ledger' = ledger \cup {g}
    /\ worker' = [worker EXCEPT !.pc = "hydrate", !.id = g]
    /\ state' = [state EXCEPT ![worker.req] = "passed"]
    /\ UNCHANGED <<events, lane>>

\* Without one, the request waits for approvals and is not answered here.
JudgePending ==
    /\ At("judge")
    /\ rule[worker.epoch] = "approval"
    /\ \A g \in Grant : approved[g] # "ready"
    /\ state' = [state EXCEPT ![worker.req] = "parked"]
    /\ Goto("resolve")
    /\ UNCHANGED <<approved, ledger, events, lane>>

\* When reply_to_kernel fails, the worker denies.
Refused == "deny"

\* from_result_with_req finds the rule again, of the same epoch.
Check ==
    /\ At("check")
    /\ Goto(IF epoch = worker.epoch THEN "approve" ELSE Refused)
    /\ UNCHANGED <<approved, ledger, events, lane, state>>

\* The entry is made once more, with what the request has told.
Hydrate ==
    /\ At("hydrate")
    /\ ledger' = ledger \cup {worker.id}
    /\ Goto("approve")
    /\ UNCHANGED <<approved, events, lane, state>>

\* The request is answered before its ticket is sent.
Approve ==
    /\ At("approve")
    /\ Send(Answering("approve", worker.req))
    /\ Goto(IF worker.id = None THEN "resolve" ELSE "ticket")
    /\ UNCHANGED <<approved, ledger, events, state>>

\* send_ticket_add looks at the gate, and then waits for room.
SendTicketAdd ==
    /\ At("ticket")
    /\ Goto(IF Gate THEN Refused ELSE "enqueue")
    /\ UNCHANGED <<approved, ledger, events, lane, state>>

\* The entry of a rule's ticket is made only now.
Enqueue ==
    /\ At("enqueue")
    /\ Send(Adding(worker.id, worker.epoch))
    /\ Goto(IF worker.id \in Request THEN "insert" ELSE "resolve")
    /\ UNCHANGED <<approved, ledger, events, state>>

Insert ==
    /\ At("insert")
    /\ ledger' = ledger \cup {worker.id}
    /\ Goto("resolve")
    /\ UNCHANGED <<approved, events, lane, state>>

Deny ==
    /\ At("deny")
    /\ Send(Answering("deny", worker.req))
    /\ Goto("resolve")
    /\ UNCHANGED <<approved, ledger, events, state>>

\* What was decided goes to the audit worker, whatever became of the answer.
Resolve ==
    /\ At("resolve")
    /\ events' \in Put(events, [req |-> worker.req, says |-> worker.says, epoch |-> worker.epoch],
                       EventRoom)
    /\ worker' = NoJob
    /\ UNCHANGED <<approved, ledger, lane, state>>

-----------------------------------------------------------------------------
(* The audit worker spawns a task for each message and each event. *)

AuditOnly == UNCHANGED <<policyVars, socket, decision, worker, kernel>>

\* In DRAIN the messages are thrown away.
TakeMessage ==
    /\ audit # <<>>
    /\ audit' = Tail(audit)
    /\ LET m == Head(audit)
       IN  /\ tasks' = tasks \cup
                  IF mode = "drain" THEN {}
                  ELSE IF IsAsking(m)
                       THEN {[NoJob EXCEPT !.pc = "judge", !.req = m.req]}
                       ELSE {m}
           /\ state' = IF mode = "drain" /\ IsAsking(m)
                       THEN [state EXCEPT ![m.req] = "lost"] ELSE state
    /\ UNCHANGED <<ledger, events, lane, logged, historyVars>>
    /\ AuditOnly

TakeEvent ==
    /\ events # <<>>
    /\ events' = Tail(events)
    /\ tasks' = tasks \cup {Head(events)}
    /\ UNCHANGED <<ledger, audit, lane, state, logged, historyVars>>
    /\ AuditOnly

TaskOnly == UNCHANGED <<audit, events, state>> /\ AuditOnly
AtTask(t, pc) == t \in tasks /\ "pc" \in DOMAIN t /\ t.pc = pc /\ TaskOnly
Becomes(t, u) == tasks' = (tasks \ {t}) \cup {u}
GotoTask(t, pc) == Becomes(t, [t EXCEPT !.pc = pc])

\* evaluate_audit_request.
AuditJudge(t, effect) ==
    /\ AtTask(t, "judge")
    /\ rule[epoch] = effect
    /\ Becomes(t, [t EXCEPT
           !.epoch = epoch,
           !.pc = CASE effect = "ticket" -> "insert"
                    [] effect = "pass" -> "ticket"
                    [] OTHER -> "log",
           !.id = CASE effect = "ticket" -> t.req
                    [] effect = "pass" -> Standing
                    [] OTHER -> None,
           !.says = IF effect \in {"deny", "approval"} THEN effect
                    ELSE "allow"])
    /\ UNCHANGED <<ledger, lane, logged, historyVars>>

\* Here the entry is made before the ticket is sent.
AuditInsert(t) ==
    /\ AtTask(t, "insert")
    /\ ledger' = ledger \cup {t.id}
    /\ GotoTask(t, "ticket")
    /\ UNCHANGED <<lane, logged, historyVars>>

\* A ticket that is refused does not keep the access from the evidence.
Unsent == "log"

AuditTicket(t) ==
    /\ AtTask(t, "ticket")
    /\ GotoTask(t, IF Gate THEN Unsent ELSE "enqueue")
    /\ UNCHANGED <<ledger, lane, logged, historyVars>>

AuditEnqueue(t) ==
    /\ AtTask(t, "enqueue")
    /\ Send(Adding(t.id, t.epoch))
    /\ GotoTask(t, "log")
    /\ UNCHANGED <<ledger, logged, historyVars>>

AuditLog(t) ==
    /\ AtTask(t, "log")
    /\ logged' = [logged EXCEPT ![t.req] = t.says]
    /\ tasks' = tasks \ {t}
    /\ UNCHANGED <<ledger, lane, historyVars>>

\* Faulty variant: the decision is logged under the policy of the day.
ResolvedInAny(t) == TRUE

\* process_resolved_event: nothing is logged of a policy that was left.
ResolvedInForce(t) == t.epoch = epoch

LogResolved(t) ==
    /\ t \in tasks
    /\ "pc" \notin DOMAIN t /\ IsAsking(t)
    /\ tasks' = tasks \ {t}
    /\ logged' = IF t.says # "none" /\ ResolvedInForce(t)
                 THEN [logged EXCEPT ![t.req] = t.says] ELSE logged
    /\ UNCHANGED <<ledger, lane, historyVars>>
    /\ TaskOnly

\* Faulty variant: off by one.
LastReportEarly(t) == t.expired \/ t.left <= 1

LastReport(t) == t.expired \/ t.left = 0

\* handle_kernel_info: a report without an entry is not logged.
HandleReport(t) ==
    /\ t \in tasks
    /\ ~IsAsking(t)
    /\ tasks' = tasks \ {t}
    /\ ledger' = IF LastReport(t) THEN ledger \ {t.id} ELSE ledger
    /\ final' = IF t.expired \/ t.left = 0 THEN final \cup {t.id} ELSE final
    /\ UNCHANGED <<lane, logged, wiped>>
    /\ TaskOnly

-----------------------------------------------------------------------------
(* FLUSH and POLICY_UPDATE, START and STOP, and what makes tickets ready. *)

AdminOnly == UNCHANGED <<inVars, events, worker, tasks, kernel, state, logged,
                         final>>

\* An approval in advance reaches its quorum.
ApproveInAdvance(g) ==
    /\ mode = "enforce"
    /\ approved[g] = "no"
    /\ approved' = [approved EXCEPT ![g] = "ready"]
    /\ UNCHANGED <<mode, epoch, rule, transition, switches, ledger, lane, wiped>>
    /\ AdminOnly

Settle ==
    /\ mode = "drain"
    /\ mode' = "audit"
    /\ UNCHANGED <<epoch, rule, transition, approved, switches, ledger, lane,
                   wiped>>
    /\ AdminOnly

Clear(why) ==
    /\ ledger' = {}
    /\ wiped' = [i \in Id |-> IF i \in ledger THEN why[i] ELSE wiped[i]]

\* START and STOP clear the ledger, but not the kernel's tickets.
SwitchMode(m) ==
    /\ transition = "none"
    /\ switches < MaxSwitch
    /\ switches' = switches + 1
    /\ mode' = m
    /\ Clear([i \in Id |-> "switch"])
    /\ UNCHANGED <<epoch, rule, transition, approved, lane>>
    /\ AdminOnly

Change(from, to) == transition = from /\ transition' = to /\ AdminOnly

BeginTransition ==
    /\ Change("none", "sync")
    /\ epoch < MaxEpoch
    /\ UNCHANGED <<mode, epoch, rule, approved, switches, ledger, lane, wiped>>

SendSync ==
    /\ Change("sync", "ack")
    /\ Send(Syncing(epoch + 1))
    /\ UNCHANGED <<mode, epoch, rule, approved, switches, ledger, wiped>>

Commit ==
    /\ Change("commit", "clear")
    /\ epoch' = epoch + 1
    /\ UNCHANGED <<mode, rule, approved, switches, ledger, lane, wiped>>

\* A job that has its entry and will yet send its ticket.
InHand(i) == \E j \in tasks \cup {worker} :
                 /\ "pc" \in DOMAIN j
                 /\ j.id = i /\ j.epoch = epoch
                 /\ j.pc \in {"approve", "ticket", "enqueue"}

\* The old approvals and entries go before the gate opens.
ClearOld ==
    /\ Change("clear", "open")
    /\ Clear([i \in Id |-> IF InHand(i) THEN "hand" ELSE "epoch"])
    /\ approved' = [g \in Grant |-> IF approved[g] = "ready" THEN "spent"
                                    ELSE approved[g]]
    /\ UNCHANGED <<mode, epoch, rule, switches, lane>>

Open ==
    /\ Change("open", "none")
    /\ UNCHANGED <<mode, epoch, rule, approved, switches, ledger, lane, wiped>>

-----------------------------------------------------------------------------
WorkerStep ==
    \/ Take
    \/ \E effect \in Policies : Judge(effect)
    \/ \E g \in Grant : JudgeApproved(g)
    \/ JudgePending \/ Check \/ Hydrate \/ Approve \/ SendTicketAdd \/ Enqueue
    \/ Insert \/ Deny \/ Resolve

TaskStep(t) ==
    \/ \E effect \in Policies : AuditJudge(t, effect)
    \/ AuditInsert(t) \/ AuditTicket(t) \/ AuditEnqueue(t) \/ AuditLog(t)
    \/ LogResolved(t) \/ HandleReport(t)

SenderStep ==
    \/ DispatchAnswer("approve", "allow") \/ DispatchAnswer("deny", "deny")
    \/ DispatchTicket \/ DispatchSync

Next ==
    \/ \E r \in Request, audited \in BOOLEAN : Ask(r, audited)
    \/ \E t \in kernel.tickets, report \in BOOLEAN :
           UseTicket(t, report) \/ ExpireTicket(t, report)
    \/ Receive \/ SenderStep \/ WorkerStep
    \/ TakeMessage \/ TakeEvent
    \/ \E t \in tasks : TaskStep(t)
    \/ \E g \in Grant : ApproveInAdvance(g)
    \/ Settle
    \/ \E m \in {"audit", "enforce"} : SwitchMode(m)
    \/ BeginTransition \/ SendSync \/ Commit \/ ClearOld \/ Open

Spec == Init /\ [][Next]_vars

\* The receiver, the workers, the tasks and the sender run on; so does a
\* FLUSH or POLICY_UPDATE that has begun.  Nobody need ask or use anything.
Fairness ==
    /\ WF_vars(Receive) /\ WF_vars(SenderStep) /\ WF_vars(WorkerStep)
    /\ WF_vars(TakeMessage) /\ WF_vars(TakeEvent)
    /\ WF_vars(\E t \in tasks : TaskStep(t))
    /\ WF_vars(SendSync \/ Commit \/ ClearOld \/ Open)

FairSpec == Spec /\ Fairness

-----------------------------------------------------------------------------
(* Properties. *)

\* A ticket the kernel passes accesses by has its entry in the ledger: not
\* yet if the decision worker has just sent it, and no more if START or STOP
\* cleared the ledger, or if a job of the new policy had made the entry before
\* the ledger was cleared for it and sent the ticket after.  A new epoch clears
\* the ledger only while no ticket can reach the kernel
\* (audit.rs:359, decision.rs:396, admin.rs:1434, netlink.rs:787).
TicketsHaveEntries ==
    \A t \in kernel.tickets :
        t.epoch = epoch =>
            \/ t.id \in ledger
            \/ worker.pc = "insert" /\ worker.id = t.id
            \/ wiped[t.id] \in {"switch", "hand"}

Outstanding ==
    {m \in {socket[k] : k \in DOMAIN socket} \cup
           {audit[k] : k \in DOMAIN audit} \cup tasks :
        ~IsAsking(m)}

\* A report on its way finds the entry of its ticket, unless it overtakes the
\* decision worker, is overtaken by the last report of the ticket (each has a
\* task of its own), or the ledger was cleared
\* (handle_kernel_info, audit.rs:426).
ReportsFindEntries ==
    \A m \in Outstanding :
        \/ m.id \in ledger
        \/ m.id \in final
        \/ worker.pc = "insert" /\ worker.id = m.id
        \/ wiped[m.id] # "no"

\* What the kernel is told first of a request is this.
Answers(m, r) == m.kind \in {"approve", "deny"} /\ m.req = r
ToldFirst(r, says) ==
    \/ kernel.told[r] = says
    \/ /\ kernel.told[r] = "none"
       /\ \E k \in DOMAIN lane :
              /\ Answers(lane[k], r)
              /\ says = IF lane[k].kind = "approve" THEN "allow" ELSE "deny"
              /\ \A l \in 1 .. k - 1 : ~Answers(lane[l], r)

\* The evidence of a request that waited says what the kernel was told.  The
\* event is sent whatever became of the answer: that a refused one is not
\* logged as allowed depends on the epoch, checked once more as it is logged
\* (reply_to_kernel, decision.rs:374; process_resolved_event, audit.rs:517).
LoggedAsTold ==
    \A r \in Request :
        (state[r] = "waits" /\ logged[r] # "none") => ToldFirst(r, logged[r])

\* Every request received is answered, or waits for approvals, though the
\* receiver, the worker and the tasks wait for room in channels that the
\* others empty (netlink.rs:493, decision.rs:84).
Answered ==
    \A r \in Request :
        (state[r] = "waits") ~> (kernel.told[r] # "none" \/ state[r] = "parked")

\* And every request that has come in is in the evidence in the end, unless
\* DRAIN threw it away, it waits for approvals, it passed by a ticket (which is
\* in the evidence already), or the policy was left meanwhile
\* (audit.rs:46, audit.rs:522).
Recorded ==
    \A r \in Request, e \in Epoch :
        (\E k \in DOMAIN socket, a \in BOOLEAN :
             socket[k] = Asked(r, a) /\ epoch = e) ~>
            \/ logged[r] # "none"
            \/ state[r] \in {"lost", "parked", "passed"}
            \/ epoch # e

\* The order the specification asks for when a ticket approved in advance is
\* turned into one of the kernel: the ticket first, then the approval.
TicketBeforeApproval ==
    (worker.id \in Grant /\ worker.pc \in {"ticket", "enqueue"}) =>
        kernel.told[worker.req] = "none"

\* A new epoch comes to teald as EpochHandover says: the guard is taken before
\* the kernel is told and dropped after teald has published.
Handover == INSTANCE EpochHandover WITH
    known <- epoch, inForce <- kernel.epoch, shut <- (transition # "none")
ImplementsHandover == Handover!HandoverSpec

=============================================================================
