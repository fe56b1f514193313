# A formal model of TEAL

TEAL puts the operations of Linux processes under a signed policy: a kernel
module hooks them, lets through what a *ticket* covers, and asks a daemon,
`teald`, about the rest; the daemon decides by the policy, or by the approvals
of people, and writes down what it decided. This directory holds TLA+ modules of
the parts whose order of events decides whether that works, TLC configurations
that check them on small instances, and TLAPS proofs about them for every
instance.

    tlc -config MCTealSession.cfg MCTealSession      # any run of the table below
    tlapm TealSession_proofs.tla                     # any module *_proofs

Paths such as `teal_lsm.c` are short for the files under `src/`:
`kernel/security/teal/{teal_lsm.c,teal_rs.rs}`, `src/teald/src/...` and
`src/teal_policy_engine/src/v14/...`.


## 1. The system

### Parts, state and operations

| Part | State | Operations | What makes it correct |
|---|---|---|---|
| kernel: **session and epoch** (`teal_lsm.c`) | ports of the two lanes, process of the daemon, current and last policy epoch, two mutexes, one spinlock | `REGISTER` of either lane, `POLICY_UPDATE`, `TICKET_ADD`, the disconnect notifier, the cleanup work item | a session is two open sockets of one process; no epoch without a session; no epoch twice; a flush leaves nothing of before and takes nothing of now; no command hangs |
| kernel: **control lane** (`teal_lsm.c`, `teal_rs.rs`) | list of waiting requests, wait queues, mode | request, wait, timeout, signal, `APPROVE`, `DENY`, `MODE_SWITCH`, flushes | one verdict per request, the operation comes out as it says; no approval from an older policy; list entries do not outlive their request; every operation returns |
| kernel: **ticket cache** (`teal_lsm.c`) | RCU list and hash table, uses left | lookup with climb to parent directories, use, insertion, flush, collector | a ticket is never used beyond its number, or after its epoch; its end is told once; what is dead is collected and nothing else |
| kernel: **task memory** (`teal_lsm.c`) | per task: program, pending program, epoch and flags of "self-baked" privileges | ticket use, fork, exec check and commit, exit | a privilege rests on a ticket of the epoch in force for the program that runs |
| kernel: LSM hooks, socket hooks | none of their own | argument collection, event names | they are what calls the parts above |
| teald: **decision worker** (`worker/decision.rs`) | policy snapshot, `pending_requests`, `approved` | judge, ask for approval, answer, issue tickets | an operation is allowed by a rule or by enough approvals; every request is answered |
| teald: **audit worker and ledger** (`worker/audit.rs`) | `ACTIVE_TICKETS` | judge what the kernel let through for audit, take its reports of uses and ends, log | a ticket in the kernel has its entry, a report finds it; the evidence says what the kernel was told |
| teald: **admin socket** (`worker/admin.rs`) | `drafts`, approvals | `TICKET`, `APPROVE`, `DENY` | one approval serves once; drafts are of the policy in force |
| teald: **management commands** (`worker/admin.rs`) | `pending_ctl`, `MGMT_EXEC_LOCK`, snapshot, management, ticket gate, policy directory | `START`, `STOP`, `POLICY_UPDATE`, `FLUSH` and their approval | what runs was approved, once, in the epoch it was approved in; teald and kernel agree on epoch and mode; a directory to start from; every command ends |
| teald: **start-up, mode, settle monitor** (`main.rs`) | `GLOBAL_DAEMON_MODE` | load, register, synchronise, count quiet intervals, die | as above, across restarts |
| teald: **netlink sender and receiver** (`netlink.rs`) | the queue to the kernel, acknowledgements, channels to the workers | receive, hand on, send, wait for the acknowledgement of an epoch | stale tickets are not sent; nobody waits for ever |
| **policy engine** (`v14/`), bundle loader (`bundle.rs`, `policy.rs`, `roles.rs`) | the snapshot | validate, compile, merge, evaluate | the decision is the one the documented priority gives; the quick test misses no rule; a quorum that is asked for can be reached |
| **login sessions** (`pam_teal`, `pam_server.rs`) | what a PAM handle keeps; `active_tty_sessions` | authentication, opening and closing of sessions, notification | a process is judged with the login of whoever is in on its terminal |
| **evidence log** (`evidence/`) | queue, buffered writer, log files; caches of program hashes | stamp, write, flush, rotate; hash and bind | what was flushed stays; a hash is of one content, the one that runs |
| **analysis** (`ai/`) | collector's batch, queue, stored results | collect, group, submit, validate, store | the log never waits for it; a result cites what was logged |
| teal-cli, teal-logview, bench, schemas | no state shared with the above | | `diff` shows every change to those who approve it |

### How they meet

* The kernel sends requests and reports on one lane, the daemon commands on the
  other. Nothing orders the two: an answer may meet a request that timed out, was
  flushed or belongs to an earlier policy.
* The **epoch** is the clock of the whole. `POLICY_UPDATE` publishes the next
  one; tickets and baked privileges carry the epoch they were made under and are
  void when it is over. The daemon's own epoch follows the kernel's.
* Inside the kernel, handlers share two mutexes and a spinlock with a work item,
  and the notifier takes only the spinlock; lookups take no lock at all.
* Inside teald, the receiver thread, the workers, each audit message, each admin
  connection, each PAM notification and the sender are threads or tasks. They
  share `AppState`, whose mutex a command takes and releases several times, a
  snapshot read without lock, an atomic gate, and bounded channels.
* A ticket is *used* in the kernel, which reports its number alone; who did what
  stands in the daemon's ledger.

### What is hard

Interleaving at the points where a lock is released between a check and its use;
death of the daemon with work under way; late, repeated or missing answers;
counters at their limit; bounded channels whose readers write to each other;
liveness of operations that wait for a daemon which itself performs operations.
PROJECT.json lists each hazard at its line with the properties that would catch
it.


## 2. Modules

| Module | Models | Source |
|---|---|---|
| `EpochClock` | abstract: the epochs in force one after another, and the flush each change owes | what the rest relies on of `teal_lsm.c` |
| `TealSession` | session and epoch, in detail; **implements `EpochClock`** | `teal_lsm.c` |
| `Verdict` | abstract: a request gets at most one verdict and comes out accordingly | |
| `TealControlLane` | the requests; **implements `Verdict`** | `teal_lsm.c`, `teal_rs.rs` |
| `TealTicketCache` | the tickets, over `EpochClock` | `teal_lsm.c`: insertion, lookups, use, collector |
| `TealTaskMeta` | privileges and program of tasks, over `EpochClock` | `teal_lsm.c`: `teal_task_meta`, exec and fork hooks |
| `EpochHandover` | abstract: how a new epoch gets from the kernel to teald while no ticket is sent | what `worker/admin.rs` and `netlink.rs` have in common with the rest |
| `TealdApproval` | decision worker, admin socket and what commands do to them, sender, against a kernel of its own | `worker/decision.rs`, `worker/admin.rs`, `netlink.rs`, `types.rs`, `ticket.rs` |
| `TealdControl` | start-up, modes, management commands and their approval, restart | `main.rs`, `worker/admin.rs`, `netlink.rs`, `management.rs`, `bundle.rs`, `state.rs` |
| `TealdLedger` | receiver, channels, decision and audit workers, `ACTIVE_TICKETS`, sender | `netlink.rs`, `worker/decision.rs`, `worker/audit.rs`, `types.rs` |
| `PolicyEngine` | from a policy directory to a decision | `v14/compile.rs`, `ir.rs`, `matchers.rs`, `management.rs`, `eval.rs`, `raw.rs`; `bundle.rs`, `policy.rs`, `roles.rs`, `decide.rs` |
| `PolicyDiff` | what `teal-cli diff` shows of an update, over `PolicyEngine` | `teal-cli/src/cmd/diff` |
| `ProgramHash` | hash of the program of a request, its cache and bindings | `evidence/mod.rs` from `FileMeta` on |
| `LoginSessions` | PAM module, notifications and registry | `pam_teal`, `pam_server.rs`, `types.rs` |
| `TealdEvidence` | evidence log and what the analysis takes of it | `evidence/mod.rs`, `evidence/storage.rs`, `ai/` |
| `AiAggregation` | grouping of events, used by `TealdEvidence` | `ai/aggregator.rs` |
| `MC*` | small instances of the above | |
| `TealSession_proofs`, `TealTicketCache_proofs`, `TealdApproval_proofs`, `TealdControl_proofs`, `TealdLedger_proofs`, `PolicyEngine_proofs` | theorems about the module of the same name | |
| `TealHooks_proofs` | theorems about `TealControlLane` and `TealTaskMeta` | |
| `Evidence_proofs` | theorems about `LoginSessions`, `ProgramHash` and `TealdEvidence` | |

The kernel's modules are joined by `EpochClock`: `TealSession` is shown to
implement it, and `TealTicketCache` and `TealTaskMeta` extend it and take its
steps as their environment. So what is checked of tickets and privileges holds
against the session protocol, without multiplying the two state spaces.

The daemon's modules cut it by question, each with the part of the kernel and of
the other modules it needs: `TealdApproval` has drafts and requests and takes
commands as approved; `TealdControl` has the commands, their approval and their
failures and leaves drafts and requests out; `TealdLedger` has messages, channels
and tickets and takes approvals as given; `PolicyEngine` has what a snapshot
says, which the other three take as the effect of one rule. What `TealdApproval`
and `TealdLedger` take of the commands is how a new epoch comes about:
`EpochHandover` says it, and the three **implement it**, `TealdControl` with the
failures that the others leave out.

### State and actions

A **step** is what happens between two points where another thread may get in: a
lock taken or released, an atomic read or written, a message sent or taken. A
handler that releases its lock in the middle is several actions joined by a
program counter; each action holds everything the code does there. A handler
that returns an error before it changed anything is no step. Names follow the
code; `map` in PROJECT.json gives the lines of each definition.

`TealSession`: `rxPort`, `txPort`, `tgid`, `curEpoch`, `lastEpoch` are the
globals `teal_daemon_*`, `teal_current_epoch`, `teal_last_epoch`; `table` is the
set of epochs that tickets in the cache have; `pc[s]` is where the handler of the
command sent on socket `s` is, and who holds a mutex is read off it. `RegisterRx`,
`RxCheck`, `RxFlush`, `RxSet`, `RxReply`/`RxReplyFails` are one `REGISTER`;
`Disconnect` is the notifier, `WorkerStart`, `WorkerFlush` the work item.
The model interleaves handlers at their locks and does not rely on generic
netlink running them one at a time.

`TealControlLane`: `list` is `teal_ctl_list`, `decision` the field of a request,
`pc[t]`, `cur[t]`, `todo[t]` where thread `t` is, its request and the events
still to ask about. `sent`, `fresh`, `outcome`, `events`, `asked`, `passed` are
history.
Of the session it keeps what the lane reads of it.

`TealTicketCache`: `offer`, `epoch`, `uses`, `cache` are the tickets, `hook[t]`
the lookup of task `t` with the entries it has yet to see, `gc` the collector and
`holder` the mutex. `uses` is an `int` and wraps as the `atomic_t` does, with
`Half` for 2^31. Removal only takes a ticket out of `cache`: a lookup under way
keeps what it had, as under RCU. `used`, `told` and `since` are history.

`TealTaskMeta`: `meta[t]` is the task's blob, `hook[t]` the hook that bakes a
ticket step by step (epoch read, ticket used, epoch read again, privileges
stored), `exec[t]` the file the exec under way will run. `image` and `earned` are
history.

`TealdApproval`: `epoch`, `bundle`, `gate`, `ctl` are the snapshot, the policies
by epoch, `ticket_transition` and the management command under way;
`pending`, `drafts`, `approved` are the fields of `AppState`; `worker`,
`conn[c]`, `lane` the decision worker, each connection and the sender's queue;
`inbox`, `kernel` what the kernel has asked and how each request stands.
`finalize_draft_approval` is `TakeDraft`, `CheckDraft`, `InsertApproved`:
one lock each. `votes`, `ground`, `starts` are history.

`TealdControl`: `proc` is where teald stands in `main`, `slot` is
`slow.pending_ctl`, `conn[c]` the command of a connection, `exec` the one that
holds `MGMT_EXEC_LOCK` with its step of `execute_policy_update`; `mgmt` and
`bundle` are published one after the other, as in the code. `disk` has the policy
directory, the staged one and the backup, `kernel` its epoch and mode; both
outlive `Crash` and `GiveUp` (`terminate_on_epoch_uncertainty`). An update reads
`new/` three times, for its hash, its bundle and its management (`Validate`,
`Compile`, `PrepareManagement`), before two renames put it in place (`Backup`, `Apply`);
`teal-cli` may stage another one at any of these points, as its lock is not taken
by teald. `ApplyFails` has both its ends: the first rename undone, or `/etc/teal.d`
gone with teald going on. `SwitchMode` may find the message lost on its way to the
kernel, which nobody is told. `voted`, `ids`, `overridden`, `unsent`, `over` and
`stranded` are history; the last three say that a `MODE_SWITCH` was lost, how often
an update was staged over while it was read, and that a rename was not undone.

`TealdLedger`: `socket`, `decision`, `audit`, `events`, `lane` are the channels
in their order, each with its room; `worker` and `tasks` the decision worker and
the tasks the audit worker has spawned, one step per lock or send; `ledger` is
`ACTIVE_TICKETS`. `logged`, `wiped`, `final` are history. Sends to the kernel
succeed, audit ids are unique, and the kernel's own timeouts are in
`TealControlLane`.

`PolicyEngine`: `dir`, `pc`, `done`, `core`, `policy` and `mgmt` are
`load_bundle_from_dir` under way, one step per assignment, login context and
policy file; `Fail` stands for every error, `Publish` for the snapshot. Assignments
to groups are compiled like those to users, into an index of their own, which
nothing reads (section 6). The clock is read once per request, in the code once
per rule.
`Evaluate` is `evaluate` with `is_request_managed` before it. Paths, globs,
networks and the calendar are constants with what the libraries say of them.

`ProgramHash`: `at`, `content`, `meta` and `process` are the file system and
`/proc`; `cache`, `bindings`, `locked` are `FILE_HASH_CACHE`, `PROCESS_BINDINGS`,
`HASH_LOCKS`; `task[t]` is `get_or_calculate_bound_program_hash` step by step.
`LoginSessions`: `handle` is what PAM keeps for a session, `flight` the
notifications not yet served, in any order, `sessions` is `active_tty_sessions`.
`TealdEvidence`: `queue`, `buffer`, `files` lead from a task to the disk,
`events`, `batch`, `analyses`, `work`, `result` from there to a stored analysis,
`Group` being one turn of the loop of `aggregate_events`; a file has pieces of
lines and how many of them are synced. `Readable` is what `teal-logview` can parse:
a line that is one entry and nothing else. The provider reports any set of
anomalies, none included, and what is valid is stored.

Each module has definitions marked *Faulty variant*: an existing definition with
a plausible mistake in it. Nothing in a specification uses them. Put in the place
of the right one, each makes one property of a run fail, which shows that the
property depends on that line of code.


## 3. Runs

| Run | Question | Instance |
|---|---|---|
| `session` | Do sessions, epochs and flushes keep together, is it an `EpochClock`, is what a dead session left flushed? | 2 processes, 3 sockets, epochs to 3 |
| `lane` | Does each operation come out as it was answered, under the policy in force, and does it return? | 2 threads, operations of 1 or 2 events, 2 requests |
| `cache` | Are tickets used within their number and epoch, is their end told once, do dead ones leave? | 2 tasks, a ticket of 4 kinds, one directory level, 2 time points, 2 epochs |
| `task_meta` | Do privileges rest on tickets in force for the program that runs? | 2 task slots, 2 programs, 2 kinds of tickets, 2 epochs |
| `approval` | Is a request allowed only on grounds, and are stale tickets held back? | 2 users, 2 roles, 2 connections, 1 request, 1 draft, 3 rules, 2 epochs |
| `control` | Do commands run once, as approved and in their epoch, is it an `EpochHandover`, do teald, kernel and directory agree across restarts, does every command end? | 2 users, 2 roles, 2 connections, 2 policies, 2 commands, 2 starts, 1 staging over an update, epochs to 3 |
| `policy` | Is what is loaded what the files say, and is every request decided by the documented priority? | every choice of 2 and 1 of a pool of 13 rules in two files, and 11 broken directories |
| `policy_diff` | expects a violation: an update reported as unchanged decides otherwise | 5 updates |
| `ledger` | Do tickets and reports find their entries, is the evidence what the kernel was told, is everything answered and recorded? | 1 request, 1 approved ticket, every effect of a rule, 2 epochs, 2 uses, 1 START or STOP; or 3 requests and no command; channels of one place, socket of 2 |
| `hash` | Is a hash of one content, and of what runs? | 2 files, 2 requests, 3 contents, 2 times, 2 executions |
| `pam` | Is a process judged with the login of who is in? | 2 sessions, 2 users, 1 terminal and none, 3 notifications under way |
| `evidence` | Does what was flushed stay, is only logged what is cited, does nobody wait for the analysis? | 3 entries, channels of one place, 2 files, a failing write, a loss of power, 2 anomalies at a time |

### The bounds, and why they are enough

Two of whatever competes (threads, tasks, connections, users, programs) are what
a race needs; the code has no rule that counts to three, but for the groups of
`AiAggregation`, which three entries reach. The epochs reach their limit, so that
overflow is met: `MaxEpoch` plays `U32_MAX`. `Half = 4` puts 2^31 at 4 so that
both signs occur. `MaxId`, `MaxDraft`, `MaxStart`, `MaxTime`, `MaxLane`,
`MaxSwitch`, `MaxLoads`, `MaxEntry`, `MaxFail`, `MaxCrash`, `MaxFile`,
`MaxVersion`, `MaxExec`, `MaxFlight`, `MaxOver`, `MaxAnomaly` only bound how long a behaviour goes on: they
stand in guards of the actions that would pass them. Channels of one place are
where waiting is most frequent; the program's have 1024 and more. In `lane`, two
requests are one operation of two events or two operations at once.
`TwoUsersOneRole` needs two approvals, `BothRoles` one of each role, so that
number and roles are told apart. `MaxQuiet = 2` makes the settle monitor count.
In `policy` the rules of the pool differ in what the sort, the scope and the
matching look at; two in one file and one in another is what order within a file
and between files needs.

In `ledger` all of two requests and one grant does not fit. The run has two kinds of
behaviours (`MCNext`): one request and the grant with every command, or up to three
requests while no command runs and a rule asks or passes. Three are what it takes
to fill every channel: the worker waits for the sender's queue, its own channel is
full, and the receiver waits for it with a request in its hands. A request and
a report that meet in this way are covered, a second request that meets a command
is not. A second instance of `cache`,
with two tickets and two kinds of offer, was found free of errors as well.
Where a theorem exists (section 5), the proof covers all larger instances.

Threads, tasks, files, sessions and users are interchangeable; runs that check no
liveness use this as symmetry where it pays.

Deadlock is checked in the runs whose system cannot stop: `session`, `lane`,
`cache`, `task_meta`, `approval`, `pam`. In the others a behaviour ends where a
bound is used up, or, in `control`, where teald has died for good.

### Fairness

* `session`: strong fairness of each handler and of the work item. The kernel
  runs a handler to its end, and a mutex is handed to a waiter that keeps
  asking. Nothing is asked of the processes: they may open, send and die as they
  like.
* `lane`: weak fairness of each thread's own steps, of a `POLICY_UPDATE` under way
  and of the work item. `OrphansReleased` needs no more. `OperationsReturn` states
  its further assumption, `TimersFire`. The daemon is never assumed to answer.
* `cache`: the collector runs again (it re-arms itself), and a handler that holds
  the mutex goes on.
* `control`: a connection's task, the command that holds the lock, the sender and
  the exit of the process go on. The kernel may or may not answer, administrators
  need not do anything, and teald may die.
* `ledger`: the receiver, the sender, both workers, the tasks, and an update that
  has begun go on. Nobody need ask or use anything.
* `evidence`: the writer, and each task that waits to send (a channel serves its
  senders in turn). Nothing is asked of the collector, the analysis or its
  provider.


## 4. Properties

Beside one type invariant for the modules with proofs:

* `TealSession`: `SessionPaired`, `FlushComplete`, `NoCurrentTicketLost`,
  `ImplementsClock`; liveness `LeftoversFlushed`. Proved alone:
  `EpochNeedsSession`, `RetiredForGood`, `OfferHolds`.
* `TealControlLane`: `StaleApprovalRefused`, `ImplementsVerdict`; liveness
  `OperationsReturn`, `OrphansReleased`. Proved alone: `AllowedEventByEvent`,
  `ListedWhileLive`.
* `TealTicketCache`: `BudgetKept`, `EndToldOnce`, `UsedInForce`; liveness
  `DeadCollected`. Proved alone: `CollectedOnlyDead`, `TurnedAwayWhenSpent`.
* `TealTaskMeta`: `PrivilegesGrounded`. Proved alone: `ProgramTrue`.
* `TealdApproval`: `AllowedOnGrounds`, `DispatchInStep`. Proved alone:
  `ApprovalServesOnce`, `EpochInStep`, `DraftsCurrent`, `ImplementsHandover`.
* `TealdControl`: `QuorumBehind`, `RunsInItsEpoch`, `RunsOnce`,
  `ImplementsHandover`, `DirectoryInForce`, `ModesAgree`; liveness `CommandsEnd`.
  Proved alone: `EpochsAgree`, `SlotInEpoch`, `PolicyAsSigned`.
* `TealdLedger`: `TicketsHaveEntries`, `ReportsFindEntries`, `LoggedAsTold`;
  liveness `Answered`, `Recorded`. Proved alone: `ImplementsHandover`.
* `PolicyEngine`: `DecisionByPriority`, `ScopeCovers`, `WindowsAsWritten`,
  `RolesAsAssigned`, `QuorumReachable`, each the engine's operators against what
  the files say.
* `ProgramHash`: `HashOfOneVersion`, `HashOfWhatRuns`.
* `LoginSessions`: `SessionIsWhoIsIn`.
* `TealdEvidence`: `SecuredStays`, `WrittenIsThere`, `AnalysisFromLog`; liveness
  `NobodyWaits`.

Each is stated in words above its definition, with the exceptions the code
makes. Those exceptions are the properties' second half: they name the cases in
which evidence or agreement is lost (section 6).


## 5. What is proved

All theorems are of the form `Spec => []P` or `Spec => [][A]_vars`, or a
refinement, for arbitrary constants under the module's assumption alone
(`SocketAssumption`, `LaneAssumption`, ...), which TLC evaluates in every run.

**`TealSession`**: every safety property and `Spec => ImplementsClock`.
None is inductive. `IInv` adds who holds the mutexes (`MutexInv`), that no
session is open while one is being prepared or cleaned up (`SessionInv`), that
what a handler computed from `lastEpoch` stays true while it relies on it
(`OfferInv`), and the ages of retired epochs and tickets (`RetiredInv`,
`TableInv`).

**`TealControlLane`** (in `TealHooks_proofs`): every safety property and `Spec =>
ImplementsVerdict`. `LInv` says of each place a thread can be in what holds of
its request: that it is listed and its own (`CurInv`), sent and open
(`PlaceInv`), that ids not handed out are untouched (`UnusedInv`), and that what
waits undecided was sent under the policy in force but for the time between
publication and flush (`FreshInv`): that window, and why nothing is approved in
it, is what `StaleApprovalRefused` rests on. `GroundsInv` says of the events the
loop of `teal_decision_logic` has behind it that each was put into a request which
was let through; `AllowedEventByEvent` is that at its end, whatever the loop was
told on its way.

**`TealTicketCache`**: every safety property. `CInv` ties the counter of
a ticket to the operations it let through (`BudgetInv`), the entries a lookup
holds to the epochs since it began (`HookInv`), and the collector to the cache it
walks under the mutex (`GcInv`). `TurnedAwayOnlyWhenSpent` covers every number of
uses a message can hold: a ticket of 2^31 or more, the unlimited one among them,
never serves anybody (section 6).

**`TealTaskMeta`** (in `TealHooks_proofs`): every safety property. `TInv` follows a ticket from
the hook that finds it to the flags it leaves (`HookInv`, `FlagInv`) and a
program from the check of an exec to its commit (`ExecInv`, `ProgramInv`).

**`TealdApproval`**: every safety property. Types need to know what each
task works on (`WorkInv`, `ConnInv`): a number kept in a command outlives the
entry it was taken from. `CtlInv` describes the stages of a management command:
the gate is shut exactly from the start of an update to its end, there is at most
one request to synchronise in the queue and it carries the next epoch, and the
kernel is ahead only between its acknowledgement and the commit. `DraftInv`
follows the drafts through the change of the epoch.

`GInv`, for `AllowedOnGrounds`, follows a quorum along its way. Whoever is listed
on a draft or an entry has voted for it under its epoch while entitled to
(`DraftGrounds`, `EntryGrounds`); so the connection that counts enough of them
holds a quorum (`ConnGrounds`), and so do the approved drafts (`ApprovedGrounds`),
the request the worker approves (`WorkGrounds`), each approval in the queue
(`LaneGrounds`) and each request the kernel lets through. A quorum once reached
stays one (`QuorumKept`), as votes are not taken back and the rule of an epoch is
not replaced (`Kept`). `OnceInv`, for `ApprovalServesOnce`, says that the number
of a draft is in one place at a time: among the drafts, with one connection that
took it off them, among the approved drafts, or with the request it served.

**`TealdLedger`**: every safety property. `LInv` says where a request is
(`PlaceInv`) and what each job is about (`JobInv`). Its heart is `StageInv`: a
ticket is not judged yet, held by a job, on its way to the kernel, in the kernel,
or its last report is under way, and in one of these only. So the report that
clears an entry comes after everything that needs the entry, which gives
`EntryInv`: what may yet be used in the epoch is in the ledger, or what took it
out is one of the causes `TicketsHaveEntries` names. `EpochInv` says that nothing
of the new epoch is sent while it changes, so that no ticket outlives the entries
that `FLUSH` clears. `ToldInv` follows a decision from the worker to the evidence:
until it is sent nothing was said of the request, and what was said first stays
first.

**`TealdControl`**: every safety property of the module. `SerialInv` says
that one command runs and which, `StartInv` that before teald runs nobody else
does; `SyncInv` and `EpochInv` place the epochs of teald, of the kernel and of
the message between them at each stage, so that the one stage in which they may
differ unknown to teald is the one from which it exits. `DirectoryInv` follows the
directory: `DiskInv` says that one to start from is at its place or in the backup,
whatever fails and whoever stages; `KeptInv` which policy it is at each stage, as
long as nothing was staged over the update. `ModeInv` follows the mode message
through the queue. `QuorumInv` says of
the slot, of the connection that emptied it and of the command that runs that
their approvers voted for that id while entitled to by the roles in force, which
stay what they were because an epoch's bundle is not replaced; `OnceInv` that an
id is in the slot, with one connection, or has run.

**`EpochHandover`** (in the proofs of the three modules that implement it): while
the gate is open teald and the kernel are of one epoch (`InStep`), and the kernel
goes ahead by one epoch with the gate shut. Each step of `TealdControl`,
`TealdApproval` and `TealdLedger` is one of it or changes nothing it sees. In
`TealdControl` a teald that is not running, or waits to exit because its epoch is
uncertain, counts as one that knows the kernel's epoch and has the gate shut: that
this is no pretence is that it serves no ticket and that its next start asks the
kernel. `EpochsAgree` follows from the abstract `InStep`.

**`ProgramHash`** (in `Evidence_proofs`): `HInv` follows a hash from the first part read to the
answer. The metadata of a file only grows; where it has not grown since some
moment, the content is that of the moment, or the file was changed twice at one
time of the clock. The locks of `HASH_LOCKS` are not needed: they save work.

**`LoginSessions`** (in `Evidence_proofs`): `LInv` says what the last notification under way of a
terminal comes to: who is in, unless the terminal is in doubt. It needs that a
session is listed once and on its terminal.

**`TealdEvidence`** (in `Evidence_proofs`): every safety property.
An entry is two pieces, which the `BufWriter` may part. They stay together because
what a file holds later begins with what it held before (`Begins`), so the
invariant speaks of what is on the disk (`DiskInv`) and of what is in a file with
what the writer still has for it (`WholeInv`), which a rotation moves from one to
the other. That the line is one entry and nothing else needs to know what stands
before it: half an entry is there only if its write failed (`TornInv`). A crash
cuts a file behind what was synced. `AiInv` says that what is
on its way to the analysis was written, `WorkInv` that the groups made so far come
before all that is not grouped yet, so that what is stored is in the order of
time; `ResultInv` says it of the analysis stored, and that its anomalies cite what is
in it. `OnceInv`, that an entry is in one place on its way to the collector and
there once, shows that `validate_request` never refuses an analysis for an event
that is in it twice (`NoneRefused`).

**`PolicyEngine`**: every safety property. The loops of the compiler are steps of
the model, one item each, so no induction over the directory is needed: `PInv`
says what the items done so far have made of it. A user has a role exactly if an
assignment that is done gives it (`RolesOf`), and a group likewise in the index of
groups; the rules of the policy are at
places of the directory, each of a file that is done there once, in the documented
order (`InOrder`), and the scope has the paths of all of them (`Indexed`). That
the sort puts rules in order goes by rank, the number of rules before one
(`SortedIsInOrder`); that the first rule that matches is the one of the highest
priority, by a least index (`FirstHitComesFirst`); that a window over midnight is
what the file says, by minutes of the week (`WindowAsStretch`).

**Only model-checked**: all liveness properties, which the prover cannot treat,
and the disagreement of `PolicyDiff`, a counterexample.


## 6. Where the code and its documents part

`policy_diff` (`rule_diff.rs:564`): `teal-cli diff` compares the days and the times
of a rule's windows but not `week_interval`; an update that differs in it alone is
reported as unchanged, and changes decisions. The same report leaves out the order
of the rules in a file, the order of the policy files, assignments by user name
and login contexts.

Six more have a configuration that TLC refutes; they are not among the runs and
are started by hand, with the `MC` module of the same subject:

* `TealControlLaneFailSafe.cfg` (`MCTealControlLane`): the specification
  (`docs/specs.jp/`, "the specification" below too) has
  requests refused (`EACCES`) when the daemon is lost or silent; the kernel lets
  them through. As a consequence a `DENY` that comes between the timeout and the
  removal of the request is acknowledged to the daemon though the operation has
  been let through.
* `TealTicketCacheUnlimited.cfg` (`MCTealTicketCache`): teald sends a numbered
  ticket "unlimited" as `u32::MAX` uses, which the kernel holds in an `atomic_t`
  as -1: valid at each lookup, and refused at each use.
* `TealdApprovalUpdate.cfg` (`MCTealdApproval`): an approval that was given under
  the old policy may be turned into a ticket of the new one: `approved` is looked
  up by rule alone, is filled in a step of its own, and is cleared a step after
  the new snapshot is out.
* `TealdApprovalStart.cfg` (`MCTealdApproval`): `approved` survives `STOP` and
  `START`, which clear every other temporary state.
* `TealdControlSettle.cfg` (`MCTealdControl`): the comment at `main.rs:199` has the
  settle monitor lead from DRAIN to AUDIT; it sets AUDIT whatever the mode, so a
  START that came between its counts is undone in teald while the kernel
  enforces.
* `TealdLedgerOrder.cfg` (`MCTealdLedger`): the specification (line 379) sends
  `TICKET_ADD` before `APPROVE`; for a ticket approved in advance the code sends
  them the other way round.

What the exceptions in the properties stand for:

* *Ledger.* `START` and `STOP` clear `ACTIVE_TICKETS` without a new epoch, while
  the kernel keeps its tickets: their later reports find no entry. So do the
  reports of a ticket whose job made its entry before an update cleared the ledger
  and sent it after, a `CONSUMED` that overtakes the decision worker, and one that
  is overtaken by `EXPIRED`. A ticket refused at the gate after its `APPROVE` gets
  a `DENY` that comes second.
* *Hashes.* Bindings by device and inode outlive a rewrite and the reuse of an
  inode across executions; the clock of the file system may not tell two changes
  apart; the three tables are never pruned.
* *Login sessions.* The documented PAM stack has `pam_teal` in `common-session`, so
  `su` opens a second session on the terminal: its login replaces the first and
  its logout removes it, whoever it was. Notifications are lost while teald is
  down, and may overtake each other.
* *Evidence.* On SIGHUP the old file is flushed but not synced, though the comment
  (`storage.rs:82`) says it is on the disk: a loss of power then takes entries from
  the middle of the log, and an analysis may be stored that cites them. A failed
  write leaves half a line onto which the next entry is written, so that
  `teal-logview` can read neither; a loss of power may cut a line as well, and the
  restarted teald appends to it.
* *Modes.* `init_socket` sets AUDIT at registration, though the specification (line
  152) has the kernel return to ENFORCE by itself; what the monitor does is above.
  A `MODE_SWITCH` that cannot be sent is logged and dropped (`netlink.rs:808`),
  and START and STOP, which have gone on by then, report success.
* *Directories.* If the rename that would undo a failed one fails too
  (`admin.rs:1396`), teald opens the gate and goes on without `/etc/teal.d`. So it does
  not start again, as it does not after a crash between the renames: the
  backup has the policy, and no start looks for it there. What is staged while an
  update is under way may get into force without having been signed: the hash,
  the bundle, the management and the rename each take `new/` as it is then.

Others met while modelling, without a configuration of their own: an exec drops
the baked privileges although the specification has `INHERIT` carry them over fork
*and* exec (`ExecCommit` of `TealTaskMeta`); a request judged by the old snapshot
may enter `pending_requests` after an update has cleared them, and stays until the
next; `group_assignments` and `roles_for_unknown_user` give nobody a role: both are
compiled (`compile.rs:261`), no code asks for the result, and `compile.rs:271` warns of
the first, while `raw.rs:307` and `docs/policy-examples.md:149` have them give roles; a
`subject.user` that nobody has becomes no condition at all (`compile.rs:895`), as
does a glob or an address that does not parse, which widens the rule; a rule that
names `FILE_RENAME` beside other operations never matches the others; the update
announced as atomic (`update.rs:72`) is two renames.


## 7. What is not modelled, and why

*Data.* Paths, argument collection, event names, signatures (taken to verify), the
encoding of messages, the JSON of entries. Which tasks a ticket fits is a set of
tasks; which rule a request falls under is left to `PolicyEngine`: in the daemon's
other modules one rule stands for all, "not managed" and "audit only" are its
`allow`, and preloading sends one ticket or none.

*Of the daemon*: failing sends to the kernel other than `MODE_SWITCH` and a missing
acknowledgement, an error of the TX socket that ends the sender's task, the removal
of what is left in `new/`, the commands that only read (`STATUS`, `LIST`), the checksums of a bundle, the
content of evidence. `kernel` in its modules is what the daemon can tell of it:
answers to requests that wait count, others do not; the four kernel modules have
the rest.

*Of the policy engine*: wording, warnings, and the difference between errors.

*Of the analysis*: adapters, prompts and settings. The provider answers with any
events, fails, or is never heard of.

*Socket hooks* have a ticket lookup of their own, of the same shape as the one
modelled; what it compares differs, which is data there.

*Not at all*: the other commands of `teal-cli`, its translation to Alloy,
`teal-logview` but for which lines it can read, the benchmark, schemas and test
data: user interfaces and text, no
state shared with the parts above.


## 8. What is left

The parts whose order of events matters are covered. Worth adding, in this order:

1. The socket lookup as a variant of `TealTicketCache`, to show the two copies
   agree on users.
2. That the kernel as the daemon's modules have it, whose epoch changes at one
   step, is the one of `TealSession` seen from outside, which is now said in
   words.
