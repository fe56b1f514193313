---------------------------- MODULE TealdApproval ----------------------------
(***************************************************************************)
(* How teald comes to an answer: the decision worker, the approvals and    *)
(* denials of the admin socket, and what START, STOP, POLICY_UPDATE and    *)
(* FLUSH do to them.  src/teald/src/worker, types.rs, netlink.rs.          *)
(*                                                                         *)
(* The decision worker takes one request of the kernel after another.      *)
(* Every connection of the admin socket is a task of its own.  They meet   *)
(* in AppState, behind one mutex that is taken and released many times in  *)
(* a command, in the policy snapshot, which is read without a lock, and in *)
(* the queue to the kernel, which one sender empties.  A step is what      *)
(* happens between two of these points.                                    *)
(*                                                                         *)
(* One rule stands for all, named the same in every policy.  What a        *)
(* request, a draft or a ticket is about is left out.                      *)
(***************************************************************************)
EXTENDS Naturals, FiniteSets, Sequences

CONSTANTS
    User,       \* users of the admin socket
    Role,       \* approver roles
    Conn,       \* connections to the admin socket at a time
    Request,    \* requests of the kernel in a behaviour
    Policies,   \* what the rule may say, a subset of Policy
    MaxEpoch,   \* bound on the epochs
    MaxDraft,   \* bound on the drafts
    MaxStart,   \* bound on the changes from AUDIT to ENFORCE
    MaxLane,    \* bound on the queue that START and STOP find
    None

Policy == [effect    : {"allow", "deny", "approval"},
           ticket    : BOOLEAN,             \* ttl_sec > 0 and is_ticketable
           threshold : Nat \ {0},
           required  : SUBSET Role,         \* approver_roles
           holds     : [User -> SUBSET Role]]

ASSUME ApprovalAssumption ==
    /\ IsFiniteSet(User)
    /\ Policies \subseteq Policy
    /\ MaxEpoch \in Nat \ {0}
    /\ MaxDraft \in Nat
    /\ MaxStart \in Nat
    /\ MaxLane \in Nat
    /\ Request \cap (0 .. MaxDraft) = {}
    /\ None \notin Policies \cup Request

VARIABLES
    enforce,    \* is_enforce()
    epoch,      \* policy_snapshot().epoch
    bundle,     \* ... and the rule, by epoch
    gate,       \* ticket_transition
    ctl,        \* the management command under way
    pending,    \* slow.pending_requests
    drafts,     \* fast.drafts
    approved,   \* fast.approved
    drafted,    \* the drafts made so far
    worker,     \* decision_worker_loop
    conn,       \* the command of each connection
    lane,       \* the queue of netlink_send_worker_loop
    inbox,      \* requests on their way to the decision worker
    kernel,     \* the kernel's mode and epoch, and how each request stands
    votes,      \* history: approvals recorded
    ground,     \* history: the rule or approved draft a request passed by
    starts      \* history: how often START led from AUDIT to ENFORCE

policyVars == <<epoch, bundle, gate, ctl>>
stateVars == <<pending, drafts, approved, drafted>>
kernelVars == <<inbox, kernel>>
historyVars == <<votes, ground, starts>>
vars == <<enforce, policyVars, stateVars, worker, conn, lane, kernelVars,
          historyVars>>

Epoch == 1 .. MaxEpoch
Draft == 1 .. MaxDraft

Grant == [id : Draft, epoch : Epoch, start : 0 .. MaxStart]
Worker == [pc    : {"idle", "judge", "approve", "ticket", "enqueue", "deny"},
           req   : Request \cup {None},
           epoch : Epoch \cup {0},      \* of the snapshot it judges by
           cache : BOOLEAN]             \* a ticket goes with the approval
\* What a request passed by, and when.
Ground == [by : {"none", "rule", "draft"}, grant : Grant \cup {None},
           epoch : Epoch \cup {0}, start : 0 .. MaxStart]
NoGround == [by |-> "none", grant |-> None, epoch |-> 0, start |-> 0]

NoWork == [pc |-> "idle", req |-> None, epoch |-> 0, cache |-> FALSE]

Command == [pc    : {"idle",
                     "draft",       \* TICKET: may make a draft
                     "take",        \* APPROVE: the draft reached its quorum
                     "check",       \* ... and is taken off the drafts
                     "insert",      \* ... and is good
                     "entry",       \* APPROVE: the entry reached its quorum
                     "cache",       \* ... and is taken off the list
                     "reply",       \* ... its ticket, if any, is made
                     "ticket", "enqueue",
                     "denyDraft", "denyEntry",  \* DENY: permitted
                     "deny"},       \* ... the entry is taken off the list
            req   : Request \cup {None},
            draft : [id : Draft, epoch : Epoch, start : 0 .. MaxStart]
                    \cup {None},
            epoch : Epoch \cup {0},
            cache : BOOLEAN]
NoCommand == [pc |-> "idle", req |-> None, draft |-> None, epoch |-> 0,
              cache |-> FALSE]

NoControl == [pc |-> "idle", next |-> None, ids |-> {}]

Message == [kind : {"approve", "deny"}, req : Request]
           \cup [kind : {"ticket", "sync"}, epoch : Epoch]
           \cup [kind : {"mode"}, on : BOOLEAN]

TypeOK ==
    /\ enforce \in BOOLEAN
    /\ epoch \in Epoch
    /\ bundle \in [Epoch -> Policies \cup {None}]
    /\ \A e \in 1 .. epoch : bundle[e] # None
    /\ gate \in BOOLEAN
    /\ ctl \in [pc : {"idle", "start", "deny", "stop",
                      "sync", "ack", "commit", "clear", "open"},
                next : Policies \cup {None}, ids : SUBSET Request]
    /\ pending \in [Request -> [epoch : Epoch, by : SUBSET User] \cup {None}]
    /\ drafts \subseteq [id : Draft, epoch : Epoch, by : SUBSET User,
                         start : 0 .. MaxStart]
    /\ approved \subseteq Grant
    /\ drafted \in 0 .. MaxDraft
    /\ worker \in Worker
    /\ conn \in [Conn -> Command]
    /\ lane \in Seq(Message)
    /\ inbox \in Seq(Request)
    /\ kernel \in [on : BOOLEAN, epoch : Epoch,
                   state : [Request -> {"new", "waiting", "allow", "deny",
                                        "gone"}]]
    /\ votes \subseteq [on : Request \cup Draft, user : User, epoch : Epoch]
    /\ ground \in [Request -> Ground]
    /\ starts \in 0 .. MaxStart

\* teald has synchronised its first epoch and left DRAIN.
Init ==
    /\ enforce = FALSE
    /\ epoch = 1
    /\ \E p \in Policies :
           bundle = [e \in Epoch |-> IF e = 1 THEN p ELSE None]
    /\ gate = FALSE
    /\ ctl = NoControl
    /\ pending = [i \in Request |-> None]
    /\ drafts = {}
    /\ approved = {}
    /\ drafted = 0
    /\ worker = NoWork
    /\ conn = [c \in Conn |-> NoCommand]
    /\ lane = <<>>
    /\ inbox = <<>>
    /\ kernel = [on |-> FALSE, epoch |-> 1,
                 state |-> [i \in Request |-> "new"]]
    /\ votes = {}
    /\ ground = [i \in Request |-> NoGround]
    /\ starts = 0

Send(m) == lane' = Append(lane, m)

Approval(i) == [kind |-> "approve", req |-> i]
Denial(i) == [kind |-> "deny", req |-> i]
TicketOf(e) == [kind |-> "ticket", epoch |-> e]

-----------------------------------------------------------------------------
(* The kernel, and the sender of teald. *)

\* A hooked operation is put to the daemon.
Ask(i) ==
    /\ kernel.on
    /\ kernel.state[i] = "new"
    /\ kernel' = [kernel EXCEPT !.state[i] = "waiting"]
    /\ inbox' = Append(inbox, i)
    /\ UNCHANGED <<enforce, policyVars, stateVars, worker, conn, lane,
                   historyVars>>

\* Its wait is over before an answer came.
Expire(i) ==
    /\ kernel.state[i] = "waiting"
    /\ kernel' = [kernel EXCEPT !.state[i] = "gone"]
    /\ UNCHANGED <<enforce, policyVars, stateVars, worker, conn, lane, inbox,
                   historyVars>>

Dispatch(m) == lane # <<>> /\ Head(lane) = m /\ lane' = Tail(lane)

\* The first answer to a request that still waits counts.
Answer(i, kind) ==
    /\ Dispatch([kind |-> kind, req |-> i])
    /\ kernel' = IF kernel.state[i] = "waiting"
                 THEN [kernel EXCEPT !.state[i] =
                           IF kind = "approve" THEN "allow" ELSE "deny"]
                 ELSE kernel
    /\ UNCHANGED <<enforce, policyVars, stateVars, worker, conn, inbox,
                   historyVars>>

\* Faulty variant: only what is queued is held back, not what is dispatched.
DispatchedUngated(e) == e = epoch

\* Tickets queued before the epoch was about to change are dropped as well.
Dispatched(e) == ~gate /\ e = epoch

\* Dropped, or dispatched and left to the ticket cache of the kernel.
SendTicket(e) ==
    /\ Dispatch(TicketOf(e))
    /\ UNCHANGED <<enforce, policyVars, stateVars, worker, conn, kernelVars,
                   historyVars>>

SwitchMode(on) ==
    /\ Dispatch([kind |-> "mode", on |-> on])
    /\ kernel' = [kernel EXCEPT !.on = on]
    /\ UNCHANGED <<enforce, policyVars, stateVars, worker, conn, inbox,
                   historyVars>>

\* POLICY_UPDATE refuses the requests that wait; its acknowledgement is waited
\* for before anything else is sent.
SyncEpoch(e) ==
    /\ Dispatch([kind |-> "sync", epoch |-> e])
    /\ kernel' = [kernel EXCEPT
           !.epoch = e,
           !.state = [i \in Request |->
                          IF @[i] = "waiting" THEN "deny" ELSE @[i]]]
    /\ ctl' = [ctl EXCEPT !.pc = "commit"]
    /\ UNCHANGED <<enforce, epoch, bundle, gate, stateVars, worker, conn,
                   inbox, historyVars>>

-----------------------------------------------------------------------------
(* The decision worker. *)

WorkOnly == UNCHANGED <<enforce, policyVars, conn, kernel, votes, starts>>

\* process_policy_decision takes the snapshot it judges by.
Take ==
    /\ worker.pc = "idle"
    /\ inbox # <<>>
    /\ inbox' = Tail(inbox)
    /\ worker' = [NoWork EXCEPT !.pc = "judge", !.req = Head(inbox),
                                !.epoch = epoch]
    /\ UNCHANGED <<stateVars, lane, ground>>
    /\ WorkOnly

Judge(effect) ==
    /\ worker.pc = "judge"
    /\ bundle[worker.epoch].effect = effect

JudgeDeny ==
    /\ Judge("deny")
    /\ worker' = [worker EXCEPT !.pc = "deny"]
    /\ UNCHANGED <<stateVars, lane, inbox, ground>>
    /\ WorkOnly

\* from_result_with_req finds the rule again: with a ticket, the operation is
\* refused if the epoch has changed.
JudgeAllow ==
    LET t == bundle[worker.epoch].ticket
    IN  /\ Judge("allow")
        /\ IF t /\ epoch # worker.epoch
           THEN /\ worker' = [worker EXCEPT !.pc = "deny"]
                /\ UNCHANGED ground
           ELSE /\ worker' = [worker EXCEPT !.pc = "approve", !.cache = t]
                /\ ground' = [ground EXCEPT ![worker.req].by = "rule"]
        /\ UNCHANGED <<stateVars, lane, inbox>>
        /\ WorkOnly

\* An approved draft serves once.
Hydrate(g) == g \in approved /\ approved' = approved \ {g}

\* process_need_approval: an approved draft of the rule is turned into a
\* ticket, whatever the epoch of either.
JudgeApproved(g) ==
    /\ Judge("approval")
    /\ Hydrate(g)
    /\ worker' = [worker EXCEPT !.pc = "approve", !.cache = TRUE]
    /\ ground' = [ground EXCEPT ![worker.req] =
                      [by |-> "draft", grant |-> g, epoch |-> worker.epoch,
                       start |-> starts]]
    /\ UNCHANGED <<pending, drafts, drafted, lane, inbox>>
    /\ WorkOnly

\* No answer: the request waits for approvals.
JudgePending ==
    /\ Judge("approval")
    /\ approved = {}
    /\ pending' = [pending EXCEPT ![worker.req] =
                       [epoch |-> worker.epoch, by |-> {}]]
    /\ worker' = NoWork
    /\ UNCHANGED <<drafts, approved, drafted, lane, inbox, ground>>
    /\ WorkOnly

WorkerApproves ==
    /\ worker.pc = "approve"
    /\ Send(Approval(worker.req))
    /\ worker' = IF worker.cache THEN [worker EXCEPT !.pc = "ticket"]
                 ELSE NoWork
    /\ UNCHANGED <<stateVars, inbox, ground>>
    /\ WorkOnly

\* send_ticket_add looks at the gate; on its error the request is denied too.
WorkerTicket ==
    /\ worker.pc = "ticket"
    /\ worker' = [worker EXCEPT !.pc = IF gate THEN "deny" ELSE "enqueue"]
    /\ UNCHANGED <<stateVars, lane, inbox, ground>>
    /\ WorkOnly

WorkerEnqueues ==
    /\ worker.pc = "enqueue"
    /\ Send(TicketOf(worker.epoch))
    /\ worker' = NoWork
    /\ UNCHANGED <<stateVars, inbox, ground>>
    /\ WorkOnly

WorkerDenies ==
    /\ worker.pc = "deny"
    /\ Send(Denial(worker.req))
    /\ worker' = NoWork
    /\ UNCHANGED <<stateVars, inbox, ground>>
    /\ WorkOnly

-----------------------------------------------------------------------------
(* TICKET: a draft is asked for. *)

ConnOnly == UNCHANGED <<enforce, policyVars, worker, kernelVars, ground, starts>>

Goto(c, from, to) ==
    /\ conn[c].pc = from
    /\ conn' = [conn EXCEPT ![c] = IF to = "idle" THEN NoCommand
                                   ELSE [@ EXCEPT !.pc = to]]

Begin(c, cmd) ==
    /\ conn[c].pc = "idle"
    /\ conn' = [conn EXCEPT ![c] = cmd]

\* process_ticket: the gate is open and the rule can have tickets.
AskTicket(c) ==
    /\ ~gate
    /\ bundle[epoch].ticket
    /\ Begin(c, [NoCommand EXCEPT !.pc = "draft", !.epoch = epoch])
    /\ UNCHANGED <<stateVars, lane, votes>>
    /\ ConnOnly

\* One draft per rule, and no change of policy since.
DraftInOrder(e) == drafts = {} /\ epoch = e /\ ~gate

MakeDraft(c) ==
    /\ Goto(c, "draft", "idle")
    /\ IF DraftInOrder(conn[c].epoch)
       THEN /\ drafted < MaxDraft
            /\ drafted' = drafted + 1
            /\ drafts' = drafts \cup {[id |-> drafted', by |-> {},
                                       epoch |-> conn[c].epoch,
                                       start |-> starts]}
       ELSE UNCHANGED <<drafts, drafted>>
    /\ UNCHANGED <<pending, approved, lane, votes>>
    /\ ConnOnly

-----------------------------------------------------------------------------
(* APPROVE. *)

\* The user has one of the roles asked for, by the snapshot of now.
MayApprove(u) == bundle[epoch].holds[u] \cap bundle[epoch].required # {}

\* Faulty variant: enough approvals, whoever gave them.
FulfilledByNumber(by, p) == Cardinality(by) >= p.threshold

\* MpaState::is_fulfilled: enough users, and each role among them.
Fulfilled(by, p) ==
    /\ Cardinality(by) >= p.threshold
    /\ p.required \subseteq UNION {p.holds[u] : u \in by}

Vote(x, u) == votes' = votes \cup {[on |-> x, user |-> u, epoch |-> epoch]}

\* process_approve_draft, all under the lock.
ApproveDraft(c, u, d) ==
    LET by == d.by \cup {u}
    IN  /\ d \in drafts
        /\ d.epoch = epoch
        /\ MayApprove(u)
        /\ Vote(d.id, u)
        /\ drafts' = (drafts \ {d}) \cup {[d EXCEPT !.by = by]}
        /\ Begin(c, IF Fulfilled(by, bundle[epoch])
                    THEN [NoCommand EXCEPT !.pc = "take", !.draft =
                          [id |-> d.id, epoch |-> d.epoch, start |-> d.start]]
                    ELSE NoCommand)
        /\ UNCHANGED <<pending, approved, drafted, lane>>
        /\ ConnOnly

Without(id) == drafts' = {d \in drafts : d.id # id}

\* finalize_draft_approval: another connection may have taken the draft.
TakeDraft(c) ==
    LET id == conn[c].draft.id
    IN  /\ Goto(c, "take",
                IF \E d \in drafts : d.id = id THEN "check" ELSE "idle")
        /\ Without(id)
        /\ UNCHANGED <<pending, approved, drafted, lane, votes>>
        /\ ConnOnly

\* Not under ENFORCE, or the epoch has changed: the draft is lost.
CheckDraft(c) ==
    /\ Goto(c, "check", IF enforce /\ epoch = conn[c].draft.epoch
                        THEN "insert" ELSE "idle")
    /\ UNCHANGED <<stateVars, lane, votes>>
    /\ ConnOnly

\* Under a lock of its own.
InsertApproved(c) ==
    /\ Goto(c, "insert", "idle")
    /\ approved' = approved \cup {conn[c].draft}
    /\ UNCHANGED <<pending, drafts, drafted, lane, votes>>
    /\ ConnOnly

\* process_approve_entry, all under the lock.
ApproveEntry(c, u, i) ==
    LET by == pending[i].by \cup {u}
    IN  /\ pending[i] # None
        /\ pending[i].epoch = epoch
        /\ MayApprove(u)
        /\ Vote(i, u)
        /\ pending' = [pending EXCEPT ![i].by = by]
        /\ Begin(c, IF Fulfilled(by, bundle[epoch])
                    THEN [NoCommand EXCEPT !.pc = "entry", !.req = i]
                    ELSE NoCommand)
        /\ UNCHANGED <<drafts, approved, drafted, lane>>
        /\ ConnOnly

\* finalize_entry_approval: an entry that is gone is approved all the same, if
\* without a ticket.
TakeEntry(c) ==
    LET i == conn[c].req
    IN  /\ conn[c].pc = "entry"
        /\ conn' = [conn EXCEPT ![c] =
               IF pending[i] = None THEN [@ EXCEPT !.pc = "reply"]
               ELSE [@ EXCEPT !.pc = "cache", !.epoch = pending[i].epoch]]
        /\ pending' = [pending EXCEPT ![i] = None]
        /\ UNCHANGED <<drafts, approved, drafted, lane, votes>>
        /\ ConnOnly

\* find_rule and is_cacheable: a ticket goes with it if the policy is still
\* the same and no draft of the rule is under way.
CacheEntry(c) ==
    /\ conn[c].pc = "cache"
    /\ conn' = [conn EXCEPT ![c] = [@ EXCEPT
           !.pc = "reply",
           !.cache = bundle[epoch].ticket /\ epoch = conn[c].epoch
                    /\ drafts = {}]]
    /\ UNCHANGED <<stateVars, lane, votes>>
    /\ ConnOnly

ReplyEntry(c) ==
    /\ Goto(c, "reply", IF enforce /\ conn[c].cache THEN "ticket" ELSE "idle")
    /\ IF enforce THEN Send(Approval(conn[c].req)) ELSE UNCHANGED lane
    /\ UNCHANGED <<stateVars, votes>>
    /\ ConnOnly

ConnTicket(c) ==
    /\ Goto(c, "ticket", IF gate THEN "idle" ELSE "enqueue")
    /\ UNCHANGED <<stateVars, lane, votes>>
    /\ ConnOnly

ConnEnqueues(c) ==
    /\ Goto(c, "enqueue", "idle")
    /\ Send(TicketOf(conn[c].epoch))
    /\ UNCHANGED <<stateVars, votes>>
    /\ ConnOnly

-----------------------------------------------------------------------------
(* DENY. *)

\* The lock is released between the check and the removal.
DenyDraft(c, u, d) ==
    /\ d \in drafts
    /\ d.epoch = epoch
    /\ MayApprove(u)
    /\ Begin(c, [NoCommand EXCEPT !.pc = "denyDraft", !.draft =
                     [id |-> d.id, epoch |-> d.epoch, start |-> d.start]])
    /\ UNCHANGED <<stateVars, lane, votes>>
    /\ ConnOnly

DropDraft(c) ==
    /\ Goto(c, "denyDraft", "idle")
    /\ Without(conn[c].draft.id)
    /\ UNCHANGED <<pending, approved, drafted, lane, votes>>
    /\ ConnOnly

DenyEntry(c, u, i) ==
    /\ pending[i] # None
    /\ pending[i].epoch = epoch
    /\ MayApprove(u)
    /\ Begin(c, [NoCommand EXCEPT !.pc = "denyEntry", !.req = i])
    /\ UNCHANGED <<stateVars, lane, votes>>
    /\ ConnOnly

DropEntry(c) ==
    LET i == conn[c].req
    IN  /\ Goto(c, "denyEntry", IF pending[i] = None THEN "idle" ELSE "deny")
        /\ pending' = [pending EXCEPT ![i] = None]
        /\ UNCHANGED <<drafts, approved, drafted, lane, votes>>
        /\ ConnOnly

ConnDenies(c) ==
    /\ Goto(c, "deny", "idle")
    /\ IF enforce THEN Send(Denial(conn[c].req)) ELSE UNCHANGED lane
    /\ UNCHANGED <<stateVars, votes>>
    /\ ConnOnly

-----------------------------------------------------------------------------
(* Management commands, one at a time (MGMT_EXEC_LOCK). *)

CtlOnly == UNCHANGED <<worker, conn, kernelVars, votes, ground>>

\* clear_ephemeral_state_for_enforce; approved is not among it.
ClearEphemeral ==
    /\ pending' = [i \in Request |-> None]
    /\ drafts' = {}

CtlGoto(from, to) == ctl.pc = from /\ ctl' = [ctl EXCEPT !.pc = to]

CtlKeeps == UNCHANGED <<enforce, starts>>

\* execute_start: the kernel first, then teald, then the requests it dropped.
StartSwitches ==
    /\ Len(lane) < MaxLane
    /\ enforce \/ starts < MaxStart
    /\ CtlGoto("idle", "start")
    /\ Send([kind |-> "mode", on |-> TRUE])
    /\ UNCHANGED <<epoch, bundle, gate, stateVars>>
    /\ CtlKeeps /\ CtlOnly

StartClears ==
    /\ ctl.pc = "start"
    /\ ctl' = [NoControl EXCEPT !.pc = "deny",
                               !.ids = {i \in Request : pending[i] # None}]
    /\ enforce' = TRUE
    /\ starts' = IF enforce THEN starts ELSE starts + 1
    /\ ClearEphemeral
    /\ UNCHANGED <<epoch, bundle, gate, approved, drafted, lane>>
    /\ CtlOnly

StartDenies(i) ==
    /\ ctl.pc = "deny"
    /\ i \in ctl.ids
    /\ ctl' = [ctl EXCEPT !.ids = @ \ {i}]
    /\ Send(Denial(i))
    /\ UNCHANGED <<epoch, bundle, gate, stateVars>>
    /\ CtlKeeps /\ CtlOnly

\* preload_silent_directory_tickets, at the end of START and of POLICY_UPDATE:
\* no ticket, or one that stands for all.
Preload(from) ==
    /\ ctl.pc = from
    /\ ctl.ids = {}
    /\ ctl' = NoControl
    /\ \/ UNCHANGED lane
       \/ /\ bundle[epoch].effect = "allow"
          /\ Send(TicketOf(epoch))
    /\ UNCHANGED <<epoch, bundle, stateVars>>
    /\ CtlKeeps /\ CtlOnly

StartEnds == Preload("deny") /\ UNCHANGED gate

\* execute_stop
StopSwitches ==
    /\ Len(lane) < MaxLane
    /\ CtlGoto("idle", "stop")
    /\ Send([kind |-> "mode", on |-> FALSE])
    /\ UNCHANGED <<epoch, bundle, gate, stateVars>>
    /\ CtlKeeps /\ CtlOnly

StopClears ==
    /\ CtlGoto("stop", "idle")
    /\ enforce' = FALSE
    /\ ClearEphemeral
    /\ UNCHANGED <<epoch, bundle, gate, approved, drafted, lane, starts>>
    /\ CtlOnly

\* checked_add
HasSuccessor == epoch < MaxEpoch

CloseGate == gate' = TRUE

\* execute_policy_update, and execute_flush when p is the policy in force.
ShutGate(p) ==
    /\ ctl.pc = "idle"
    /\ HasSuccessor
    /\ CloseGate
    /\ ctl' = [NoControl EXCEPT !.pc = "sync", !.next = p]
    /\ UNCHANGED <<epoch, bundle, stateVars, lane>>
    /\ CtlKeeps /\ CtlOnly

RequestSync ==
    /\ CtlGoto("sync", "ack")
    /\ Send([kind |-> "sync", epoch |-> epoch + 1])
    /\ UNCHANGED <<epoch, bundle, gate, stateVars>>
    /\ CtlKeeps /\ CtlOnly

\* update_bundle, advance_epoch
Commit ==
    /\ CtlGoto("commit", "clear")
    /\ epoch' = epoch + 1
    /\ bundle' = [bundle EXCEPT ![epoch'] = ctl.next]
    /\ UNCHANGED <<gate, stateVars, lane>>
    /\ CtlKeeps /\ CtlOnly

\* invalidate_old_approvals
Invalidate == ClearEphemeral /\ approved' = {}

CtlInvalidate ==
    /\ CtlGoto("clear", "open")
    /\ Invalidate
    /\ UNCHANGED <<epoch, bundle, gate, drafted, lane>>
    /\ CtlKeeps /\ CtlOnly

OpenGate == gate' = FALSE

\* The update is refused before the kernel hears of it: what is staged is not
\* what was approved, does not compile or cannot be put in place.
UpdateFails ==
    /\ ctl.pc = "sync"
    /\ ctl' = NoControl
    /\ OpenGate
    /\ UNCHANGED <<epoch, bundle, stateVars, lane>>
    /\ CtlKeeps /\ CtlOnly

UpdateEnds == Preload("open") /\ OpenGate

-----------------------------------------------------------------------------
KernelStep == \E i \in Request : Ask(i) \/ Expire(i)

Sender ==
    \/ \E i \in Request, k \in {"approve", "deny"} : Answer(i, k)
    \/ \E e \in Epoch : SendTicket(e) \/ SyncEpoch(e)
    \/ \E on \in BOOLEAN : SwitchMode(on)

WorkerStep ==
    \/ Take \/ JudgeDeny \/ JudgeAllow \/ JudgePending
    \/ \E g \in Grant : JudgeApproved(g)
    \/ WorkerApproves \/ WorkerTicket \/ WorkerEnqueues \/ WorkerDenies

NewCommand(c) ==
    \/ AskTicket(c)
    \/ \E u \in User :
           \/ \E d \in drafts : ApproveDraft(c, u, d) \/ DenyDraft(c, u, d)
           \/ \E i \in Request : ApproveEntry(c, u, i) \/ DenyEntry(c, u, i)

Continue(c) ==
    \/ MakeDraft(c) \/ TakeDraft(c) \/ CheckDraft(c) \/ InsertApproved(c)
    \/ TakeEntry(c) \/ CacheEntry(c) \/ ReplyEntry(c)
    \/ ConnTicket(c) \/ ConnEnqueues(c)
    \/ DropDraft(c) \/ DropEntry(c) \/ ConnDenies(c)

CtlContinue ==
    \/ StartClears \/ (\E i \in Request : StartDenies(i)) \/ StartEnds
    \/ StopClears
    \/ RequestSync \/ UpdateFails \/ Commit \/ CtlInvalidate \/ UpdateEnds

CtlStep == StartSwitches \/ StopSwitches \/ (\E p \in Policies : ShutGate(p))
           \/ CtlContinue

Next == KernelStep \/ Sender \/ WorkerStep \/ CtlStep
        \/ \E c \in Conn : NewCommand(c) \/ Continue(c)

Spec == Init /\ [][Next]_vars

\* The tasks run, and the kernel acknowledges.
FairSpec == Spec /\ WF_vars(Sender) /\ WF_vars(CtlContinue)

-----------------------------------------------------------------------------
(* Properties. *)

\* The approvals given to x under epoch e were enough of them by users with
\* the roles asked for.
Quorum(x, e) ==
    LET p == bundle[e]
        by == {u \in User : /\ [on |-> x, user |-> u, epoch |-> e] \in votes
                            /\ p.holds[u] \cap p.required # {}}
    IN  /\ p # None
        /\ Cardinality(by) >= p.threshold
        /\ \A r \in p.required : \E u \in by : r \in p.holds[u]

\* A request is allowed by a rule that says so, by a draft that users with the
\* roles asked for approved in sufficient number under one policy, or by such
\* an approval of its own: whatever is denied, dropped or replaced meanwhile.
AllowedOnGrounds ==
    \A i \in Request : kernel.state[i] = "allow" =>
        \/ ground[i].by = "rule"
        \/ ground[i].by = "draft"
           /\ Quorum(ground[i].grant.id, ground[i].grant.epoch)
        \/ \E e \in Epoch : Quorum(i, e)

\* A draft once approved serves one request, however often it is approved and
\* however many connections complete its quorum.
ApprovalServesOnce ==
    \A i, j \in Request :
        (i # j /\ ground[i].by = "draft" /\ ground[j].by = "draft")
           => ground[i].grant.id # ground[j].grant.id

\* No ticket reaches the kernel that it would refuse as stale, though tickets
\* are queued by several tasks while the epoch changes (the gate is looked at
\* when a ticket is queued and again when it is sent).
DispatchInStep ==
    [][\A e \in Epoch : (SendTicket(e) /\ Dispatched(e)) => e = kernel.epoch]_vars

\* While tickets may be made, teald judges by the epoch the kernel has.
EpochInStep == ~gate => epoch = kernel.epoch

\* While tickets may be made, a draft is of the policy in force and can still
\* be approved or denied.
DraftsCurrent == ~gate => \A d \in drafts : d.epoch = epoch

\* A policy update is not held up: the gate opens again.
GateOpens == gate ~> ~gate

\* "The epoch is incremented when the settings are reloaded, and the tickets of
\* the old rules are void all at once": an approved draft is turned into a
\* ticket only under the policy it was approved under.
ApprovalInForce ==
    \A i \in Request : ground[i].by = "draft" =>
        ground[i].epoch = ground[i].grant.epoch

\* "To keep temporary state that was there before the transition from having
\* effects under ENFORCE": nothing that was asked for before the transition
\* from AUDIT serves after it.
StartForgets ==
    \A i \in Request : ground[i].by = "draft" =>
        ground[i].start = ground[i].grant.start

\* A new epoch comes to teald as EpochHandover says, whatever the workers do meanwhile:
\* TicketTransitionGuard, update_bundle, advance_epoch.
Handover == INSTANCE EpochHandover WITH
    known <- epoch, inForce <- kernel.epoch, shut <- gate
ImplementsHandover == Handover!HandoverSpec

=============================================================================
