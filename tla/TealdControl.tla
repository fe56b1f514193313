---------------------------- MODULE TealdControl ----------------------------
(***************************************************************************)
(* teald from its start to its end: the first epoch, the modes, and the    *)
(* management commands START, STOP, POLICY_UPDATE and FLUSH with their     *)
(* approval by several parties.  src/teald/src/main.rs, netlink.rs,        *)
(* worker/admin.rs, management.rs, bundle.rs.                              *)
(*                                                                         *)
(* A connection of the admin socket is a task of its own.  They meet in    *)
(* the slot of the one command that waits for approval, under the mutex    *)
(* of AppState, and in MGMT_EXEC_LOCK, under which commands run one at a   *)
(* time.  The policy snapshot and the management are published one after   *)
(* the other and are read without a lock.  teald may die at any step; the  *)
(* kernel and the directories outlive it.                                  *)
(*                                                                         *)
(* What requests, drafts and tickets become is TealdApproval's subject.    *)
(***************************************************************************)
EXTENDS Naturals, FiniteSets, Sequences

CONSTANTS
    User,       \* users of the admin socket
    Role,       \* approver roles
    Conn,       \* connections at a time
    Policies,   \* directories that compile, a subset of Policy
    Installed,  \* the one that is there at first
    MaxEpoch,   \* the last epoch
    MaxId,      \* bound on the commands
    MaxStart,   \* bound on the starts of teald
    MaxOver,    \* bound: in one life of teald, nothing is staged after so many
                \* stagings over an update that was being read
    MaxQuiet,   \* SETTLED_CONSECUTIVE_THRESHOLD
    None

\* The roles of a directory, and its management.json, in which one control
\* stands for those of the four commands.
Policy == [holds     : [User -> SUBSET Role],
           may       : SUBSET User,         \* initiator_uids
           mpa       : BOOLEAN,             \* Enabled
           threshold : Nat \ {0},
           required  : SUBSET Role]         \* approver_roles

Kind == {"START", "STOP", "POLICY_UPDATE", "FLUSH"}

ASSUME ControlAssumption ==
    /\ IsFiniteSet(User)
    /\ Policies \subseteq Policy
    /\ Installed \in Policies
    /\ MaxEpoch \in Nat \ {0}
    /\ MaxId \in Nat
    /\ MaxStart \in Nat
    /\ MaxOver \in Nat \ {0}
    /\ MaxQuiet \in Nat \ {0}
    /\ None \notin Policies \cup Conn

VARIABLES
    proc,       \* where teald stands
    mode,       \* GLOBAL_DAEMON_MODE
    quiet,      \* settled_consecutive of the settle monitor
    epoch,      \* policy_snapshot().epoch
    bundle,     \* ... and its bundle
    mgmt,       \* management()
    gate,       \* ticket_transition
    slot,       \* slow.pending_ctl
    keys,       \* users with a key in slow.registered_keys
    conn,       \* the command of each connection
    exec,       \* the command that holds MGMT_EXEC_LOCK
    lane,       \* the queue of netlink_send_worker_loop
    kernel,     \* ENFORCING_MODE and the policy epoch of the kernel
    disk,       \* /etc/teal.d, its new/, and where they go in between
    issued,     \* audit ids given out
    started,    \* history: starts of teald
    voted,      \* history: who approved which audit id
    ids,        \* history: audit ids that came to run
    overridden, \* history: the settle monitor spoke after a START or a STOP
    unsent,     \* history: the last MODE_SWITCH was lost, and made a difference
    over,       \* history: stagings over an update that was being read
    stranded    \* history: a rename failed and could not be undone

policyVars == <<epoch, bundle, mgmt>>
adminVars == <<slot, keys, conn, exec, issued>>
modeVars == <<mode, quiet, overridden>>
kernelVars == <<kernel, unsent>>
diskVars == <<disk, over, stranded>>
vars == <<proc, modeVars, policyVars, gate, adminVars, lane, kernelVars,
          diskVars, started, voted, ids>>

Epoch == 1 .. MaxEpoch
Id == 1 .. MaxId

\* MgmtPendingCtl.  What is asked of the approvers is the management's that
\* was read when the command came in.
Pending == [id : Id, kind : Kind, target : Policies \cup {None},
            epoch : Epoch, asks : Policies, by : SUBSET User]

Command == [pc     : {"idle",
                      "pend",   \* to be put to approval
                      "stamp",  \* to run at once
                      "final",  \* its approval is complete
                      "lock",   \* waits for MGMT_EXEC_LOCK
                      "run"},
            id     : Id \cup {0},
            kind   : Kind,
            target : Policies \cup {None},
            epoch  : Epoch \cup {0},    \* the one it expects
            asks   : Policies \cup {None}]
NoCommand == [pc |-> "idle", id |-> 0, kind |-> "START", target |-> None,
              epoch |-> 0, asks |-> None]

\* target is what the approvers signed, newBundle and newMgmt are what
\* PreparedPolicyUpdate was read from.
Exec == [conn : Conn \cup {None}, kind : Kind, target : Policies \cup {None},
         newBundle : Policies \cup {None}, newMgmt : Policies \cup {None},
         pc   : {"free", "switch", "clear", "validate", "compile", "prepare",
                 "backup", "apply", "sync", "ack", "uncertain", "commit",
                 "manage", "invalidate", "open"}]
NoExec == [conn |-> None, kind |-> "START", target |-> None,
           newBundle |-> None, newMgmt |-> None, pc |-> "free"]

Message == [kind : {"mode"}, on : BOOLEAN] \cup [kind : {"sync"}, epoch : Epoch]

\* base is None where /etc/teal.d is missing, or holds nothing that compiles.
Directory == [base : Policies \cup {None}, new : Policies \cup {None},
              saved : Policies \cup {None}, savedNew : Policies \cup {None}]

TypeOK ==
    /\ proc \in {"down", "register", "publish", "sync", "ack", "run"}
    /\ mode \in {"drain", "audit", "enforce"}
    /\ quiet \in 0 .. MaxQuiet
    /\ epoch \in Epoch \cup {0}
    /\ bundle \in Policies \cup {None}
    /\ mgmt \in Policies \cup {None}
    /\ gate \in BOOLEAN
    /\ slot \in Pending \cup {None}
    /\ keys \subseteq User
    /\ conn \in [Conn -> Command]
    /\ exec \in Exec
    /\ lane \in Seq(Message)
    /\ kernel \in [on : BOOLEAN, epoch : Epoch \cup {0}]
    /\ disk \in Directory
    /\ issued \in 0 .. MaxId
    /\ started \in 0 .. MaxStart
    /\ voted \subseteq [id : Id, user : User]
    /\ ids \subseteq Id
    /\ overridden \in BOOLEAN
    /\ unsent \in BOOLEAN
    /\ over \in 0 .. MaxOver
    /\ stranded \in BOOLEAN

Stopped ==
    [proc |-> "down", mode |-> "drain", quiet |-> 0, epoch |-> 0,
     bundle |-> None, mgmt |-> None, gate |-> FALSE, slot |-> None,
     keys |-> {}, conn |-> [c \in Conn |-> NoCommand], exec |-> NoExec, lane |-> <<>>]

Init ==
    /\ proc = Stopped.proc
    /\ mode = Stopped.mode
    /\ quiet = Stopped.quiet
    /\ epoch = Stopped.epoch
    /\ bundle = Stopped.bundle
    /\ mgmt = Stopped.mgmt
    /\ gate = Stopped.gate
    /\ slot = Stopped.slot
    /\ keys = Stopped.keys
    /\ conn = Stopped.conn
    /\ exec = Stopped.exec
    /\ lane = Stopped.lane
    /\ kernel = [on |-> FALSE, epoch |-> 0]
    /\ disk = [base |-> Installed, new |-> None,
               saved |-> None, savedNew |-> None]
    /\ issued = 0
    /\ started = 0
    /\ voted = {}
    /\ ids = {}
    /\ overridden = FALSE
    /\ unsent = FALSE
    /\ over = 0
    /\ stranded = FALSE

-----------------------------------------------------------------------------
(* The start of teald, and its end. *)

\* main: the directory is compiled before the kernel is told anything.
Load ==
    /\ proc = "down"
    /\ started < MaxStart
    /\ disk.base # None
    /\ proc' = "register"
    /\ mode' = "drain"
    /\ bundle' = disk.base
    /\ started' = started + 1
    /\ UNCHANGED <<quiet, overridden, epoch, mgmt, gate, adminVars, lane,
                   kernelVars, diskVars, voted, ids>>

\* init_socket: the kernel names the epoch to come, and is sent to AUDIT.
Register ==
    /\ proc = "register"
    /\ proc' = "publish"
    /\ lane' = Append(lane, [kind |-> "mode", on |-> FALSE])
    /\ UNCHANGED <<modeVars, policyVars, gate, adminVars, kernelVars, diskVars,
                   started, voted, ids>>

Publish ==
    /\ proc = "publish"
    /\ kernel.epoch < MaxEpoch
    /\ proc' = "sync"
    /\ epoch' = kernel.epoch + 1
    /\ mgmt' = disk.base
    /\ UNCHANGED <<modeVars, bundle, gate, adminVars, lane, kernelVars,
                   diskVars, started, voted, ids>>

SyncFirst ==
    /\ proc = "sync"
    /\ proc' = "ack"
    /\ lane' = Append(lane, [kind |-> "sync", epoch |-> epoch])
    /\ UNCHANGED <<modeVars, policyVars, gate, adminVars, kernelVars, diskVars,
                   started, voted, ids>>

Exit ==
    /\ proc' = Stopped.proc
    /\ mode' = Stopped.mode
    /\ quiet' = Stopped.quiet
    /\ epoch' = Stopped.epoch
    /\ bundle' = Stopped.bundle
    /\ mgmt' = Stopped.mgmt
    /\ gate' = Stopped.gate
    /\ slot' = Stopped.slot
    /\ keys' = Stopped.keys
    /\ conn' = Stopped.conn
    /\ exec' = Stopped.exec
    /\ lane' = Stopped.lane
    /\ overridden' = FALSE
    /\ unsent' = FALSE
    /\ over' = 0
    /\ stranded' = FALSE
    /\ UNCHANGED <<kernel, disk, issued, started, voted, ids>>

\* A signal, a panic, a power cut.
Crash == proc # "down" /\ Exit

\* Faulty variant: a panic, which ends the task of the connection alone.
GiveUpByPanic ==
    /\ exec.pc = "uncertain"
    /\ exec' = NoExec
    /\ gate' = FALSE
    /\ conn' = [conn EXCEPT ![exec.conn] = NoCommand]
    /\ UNCHANGED <<proc, modeVars, policyVars, slot, keys, issued, lane,
                   kernelVars, diskVars, started, voted, ids>>

\* terminate_on_epoch_uncertainty: whether the kernel took the epoch is not
\* known, and neither directory is touched.
GiveUp == exec.pc = "uncertain" /\ Exit

-----------------------------------------------------------------------------
(* The sender, and the kernel's end of it. *)

Dispatch(m) == lane # <<>> /\ Head(lane) = m /\ lane' = Tail(lane)

\* A send that fails is logged, and the message is gone.
SwitchMode(on, reached) ==
    /\ Dispatch([kind |-> "mode", on |-> on])
    /\ kernel' = IF reached THEN [kernel EXCEPT !.on = on] ELSE kernel
    /\ unsent' = (kernel'.on # on)
    /\ UNCHANGED <<proc, modeVars, policyVars, gate, adminVars, diskVars,
                   started, voted, ids>>

\* The epoch reaches the kernel, or does not; its acknowledgement comes back
\* in time, or does not.
SyncEpoch(e, reached, acked) ==
    /\ Dispatch([kind |-> "sync", epoch |-> e])
    /\ acked => reached
    /\ kernel' = IF reached THEN [kernel EXCEPT !.epoch = e] ELSE kernel
    /\ UNCHANGED <<gate, slot, keys, conn, issued, unsent, diskVars,
                   policyVars, started, voted, ids>>

SyncedFirst(e, reached, acked) ==
    /\ proc = "ack"
    /\ SyncEpoch(e, reached, acked)
    /\ proc' = IF acked THEN "run" ELSE proc
    /\ exec' = IF acked THEN exec ELSE [exec EXCEPT !.pc = "uncertain"]
    /\ UNCHANGED modeVars

\* Faulty variant: nothing bounds the wait.
SyncedOrWaits(e, reached, acked) ==
    /\ exec.pc = "ack"
    /\ SyncEpoch(e, reached, acked)
    /\ exec' = IF acked THEN [exec EXCEPT !.pc = "commit"] ELSE exec
    /\ UNCHANGED <<proc, modeVars>>

Synced(e, reached, acked) ==
    /\ exec.pc = "ack"
    /\ SyncEpoch(e, reached, acked)
    /\ exec' = [exec EXCEPT !.pc = IF acked THEN "commit" ELSE "uncertain"]
    /\ UNCHANGED <<proc, modeVars>>

-----------------------------------------------------------------------------
(* The settle monitor. *)

MonitorOnly == UNCHANGED <<proc, policyVars, gate, adminVars, lane, kernelVars,
                           diskVars, started, voted, ids>>

\* Few bytes in the receive buffer and no drops since the last look.
LookQuiet ==
    /\ proc = "run"
    /\ quiet < MaxQuiet
    /\ quiet' = quiet + 1
    /\ mode' = IF quiet' = MaxQuiet THEN "audit" ELSE mode
    /\ overridden' = (overridden \/ (quiet' = MaxQuiet /\ mode # "drain"))
    /\ MonitorOnly

LookBusy ==
    /\ proc = "run"
    /\ quiet \in 1 .. MaxQuiet - 1
    /\ quiet' = 0
    /\ UNCHANGED <<mode, overridden>>
    /\ MonitorOnly

-----------------------------------------------------------------------------
(* The admin socket. *)

AdminOnly == UNCHANGED <<proc, modeVars, policyVars, gate, lane, kernelVars,
                         diskVars, started, ids>>

\* handle_register: kept until teald ends.
RegisterKey(u) ==
    /\ proc = "run"
    /\ keys' = keys \cup {u}
    /\ UNCHANGED <<slot, conn, exec, issued, voted>>
    /\ AdminOnly

\* fetch_public_key; a FLUSH is not signed.
Signed(u, k) == k = "FLUSH" \/ u \in keys

\* check_initiator_and_handle: by the management as it is now.
Initiate(c, u, k) ==
    /\ proc = "run"
    /\ conn[c].pc = "idle"
    /\ issued < MaxId
    /\ issued' = issued + 1
    /\ Signed(u, k)
    /\ u \in mgmt.may
    /\ k = "POLICY_UPDATE" => disk.new # None
    /\ conn' = [conn EXCEPT ![c] =
           [NoCommand EXCEPT !.pc = IF mgmt.mpa THEN "pend" ELSE "stamp",
                             !.id = issued',
                             !.kind = k,
                             !.target = IF k = "POLICY_UPDATE" THEN disk.new
                                        ELSE None,
                             !.asks = mgmt]]
    /\ UNCHANGED <<slot, keys, exec, voted>>
    /\ AdminOnly

\* create_mgmt_pending: one command waits at a time.
Pend(c) ==
    /\ conn[c].pc = "pend"
    /\ conn' = [conn EXCEPT ![c] = NoCommand]
    /\ slot' = IF slot # None THEN slot
               ELSE [id |-> conn[c].id, kind |-> conn[c].kind,
                     target |-> conn[c].target, epoch |-> epoch,
                     asks |-> conn[c].asks, by |-> {}]
    /\ UNCHANGED <<keys, exec, issued, voted>>
    /\ AdminOnly

\* execute_mgmt_ctl.
Stamp(c) ==
    /\ conn[c].pc = "stamp"
    /\ conn' = [conn EXCEPT ![c] = [@ EXCEPT !.pc = "lock", !.epoch = epoch]]
    /\ UNCHANGED <<slot, keys, exec, issued, voted>>
    /\ AdminOnly

\* check_permission, insert_approver: a role the command asks for, by the
\* snapshot of the epoch the command was put to approval in.
MaySign(u, p) == p.epoch = epoch /\ bundle.holds[u] \cap p.asks.required # {}

\* is_fulfilled.
Fulfilled(asks, holds, by) ==
    /\ Cardinality(by) >= asks.threshold
    /\ asks.required \subseteq UNION {holds[u] : u \in by}

\* Faulty variant: the audit id is not compared, only the kind of command.
IsMeantAny(i) == slot # None /\ i # 0

IsMeant(i) == slot # None /\ slot.id = i

\* Faulty variant: the slot is emptied once the command has run.
TakeSlotLater(done) == slot

TakeSlot(done) == IF done THEN None ELSE slot

\* process_approve_ctl; i is what the approver signed.
ApproveCtl(c, u, i) ==
    /\ proc = "run"
    /\ conn[c].pc = "idle"
    /\ u \in keys
    /\ IsMeant(i)
    /\ MaySign(u, slot)
    /\ voted' = voted \cup {[id |-> i, user |-> u]}
    /\ LET by == slot.by \cup {u}
           done == Fulfilled(slot.asks, bundle.holds, by)
       IN  /\ slot' = IF done THEN TakeSlot(done)
                      ELSE [slot EXCEPT !.by = by]
           /\ conn' = IF ~done THEN conn
                      ELSE [conn EXCEPT ![c] =
                                [pc |-> "final", id |-> slot.id,
                                 kind |-> slot.kind, target |-> slot.target,
                                 epoch |-> slot.epoch, asks |-> slot.asks]]
    /\ UNCHANGED <<keys, exec, issued>>
    /\ AdminOnly

\* process_deny_ctl.
DenyCtl(c, u, i) ==
    /\ proc = "run"
    /\ conn[c].pc = "idle"
    /\ u \in keys
    /\ IsMeant(i)
    /\ MaySign(u, slot)
    /\ slot' = None
    /\ UNCHANGED <<keys, conn, exec, issued, voted>>
    /\ AdminOnly

\* finalize_ctl_approval, up to the lock.
Finalize(c) ==
    /\ conn[c].pc = "final"
    /\ conn' = [conn EXCEPT ![c] =
           IF @.epoch = epoch THEN [@ EXCEPT !.pc = "lock"] ELSE NoCommand]
    /\ UNCHANGED <<slot, keys, exec, issued, voted>>
    /\ AdminOnly

FirstStep(kind) ==
    CASE kind \in {"START", "STOP"} -> "switch"
      [] kind = "POLICY_UPDATE" -> "validate"
      [] kind = "FLUSH" -> "sync"

\* Faulty variant: the epoch is not looked at again under the lock.
ExpectedNot(e) == TRUE

Expected(e) == e = epoch

\* execute_mgmt_ctl_core.
Execute(c) ==
    /\ conn[c].pc = "lock"
    /\ exec.pc = "free"
    /\ IF Expected(conn[c].epoch)
       THEN /\ conn' = [conn EXCEPT ![c].pc = "run"]
            /\ exec' = [NoExec EXCEPT !.conn = c,
                                      !.kind = conn[c].kind,
                                      !.target = conn[c].target,
                                      !.pc = FirstStep(conn[c].kind)]
            /\ gate' = (conn[c].kind \in {"POLICY_UPDATE", "FLUSH"})
            /\ ids' = ids \cup {conn[c].id}
       ELSE /\ conn' = [conn EXCEPT ![c] = NoCommand]
            /\ UNCHANGED <<exec, gate, ids>>
    /\ UNCHANGED <<proc, modeVars, policyVars, slot, keys, issued, lane,
                   kernelVars, diskVars, started, voted>>

-----------------------------------------------------------------------------
(* The command that holds MGMT_EXEC_LOCK.  A step is named for what it     *)
(* does, and leads to the step named last.                                 *)

Step(from, to) == exec.pc = from /\ exec' = [exec EXCEPT !.pc = to]

\* The lock is released, the gate with it, and the connection answered.
Done ==
    /\ exec' = NoExec
    /\ gate' = FALSE
    /\ conn' = [conn EXCEPT ![exec.conn] = NoCommand]

ExecOnly == UNCHANGED <<proc, quiet, keys, issued, kernelVars, started, voted,
                        ids>>

\* execute_start, execute_stop: the kernel first.
Switch ==
    /\ Step("switch", "clear")
    /\ lane' = Append(lane, [kind |-> "mode", on |-> exec.kind = "START"])
    /\ UNCHANGED <<mode, overridden, policyVars, gate, slot, conn, diskVars>>
    /\ ExecOnly

\* Faulty variant: STOP tells the kernel only.
ModeAfterKept(kind) == IF kind = "START" THEN "enforce" ELSE mode

ModeAfter(kind) == IF kind = "START" THEN "enforce" ELSE "audit"

\* ... then teald.  clear_ephemeral_state_for_enforce drops the command that
\* waits for approval, whichever it is.
Clear ==
    /\ exec.pc = "clear"
    /\ mode' = ModeAfter(exec.kind)
    /\ overridden' = FALSE
    /\ slot' = None
    /\ Done
    /\ UNCHANGED <<policyVars, lane, diskVars>>
    /\ ExecOnly

\* Faulty variant: any directory that is staged will do.
SignedForAny(p, target) == p # None

SignedFor(p, target) == p = target

\* validate_staged_policy: the hash of new/ is the one that was signed.
Validate ==
    /\ exec.pc = "validate"
    /\ IF SignedFor(disk.new, exec.target) /\ epoch < MaxEpoch
       THEN Step("validate", "compile") /\ UNCHANGED <<gate, conn>>
       ELSE Done
    /\ UNCHANGED <<mode, overridden, policyVars, slot, lane, diskVars>>
    /\ ExecOnly

\* compile_staged_bundle, prepare_management: new/ is read again, and again.
Compile ==
    /\ exec.pc = "compile"
    /\ exec' = [exec EXCEPT !.pc = "prepare", !.newBundle = disk.new]
    /\ UNCHANGED <<mode, overridden, policyVars, gate, slot, conn, lane,
                   diskVars>>
    /\ ExecOnly

PrepareManagement ==
    /\ exec.pc = "prepare"
    /\ exec' = [exec EXCEPT !.pc = "backup", !.newMgmt = disk.new]
    /\ UNCHANGED <<mode, overridden, policyVars, gate, slot, conn, lane,
                   diskVars>>
    /\ ExecOnly

\* What was staged does not compile, or /etc/teal.d cannot be renamed.
PrepareFails ==
    /\ exec.pc \in {"compile", "prepare", "backup"}
    /\ Done
    /\ UNCHANGED <<mode, overridden, policyVars, slot, lane, diskVars>>
    /\ ExecOnly

\* switch_policy_directory: /etc/teal.d goes away with new/ in it.
Backup ==
    /\ Step("backup", "apply")
    /\ disk' = [base |-> None, new |-> None,
                saved |-> disk.base, savedNew |-> disk.new]
    /\ UNCHANGED <<over, stranded, mode, overridden, policyVars, gate, slot,
                   conn, lane>>
    /\ ExecOnly

\* ... and what was new/ becomes /etc/teal.d.  Nobody reads the backup again.
Apply ==
    /\ Step("apply", "sync")
    /\ disk' = [base |-> disk.savedNew, new |-> None,
                saved |-> None, savedNew |-> None]
    /\ UNCHANGED <<over, stranded, mode, overridden, policyVars, gate, slot,
                   conn, lane>>
    /\ ExecOnly

\* Faulty variant: the directory that went away is not brought back.
RolledBackNot == disk

RolledBack == [base |-> disk.saved, new |-> disk.savedNew,
               saved |-> None, savedNew |-> None]

\* The second rename fails, and the one that would undo the first may fail
\* too: teald goes on without /etc/teal.d.
ApplyFails(undone) ==
    /\ exec.pc = "apply"
    /\ disk' = IF undone THEN RolledBack ELSE disk
    /\ stranded' = (stranded \/ ~undone)
    /\ Done
    /\ UNCHANGED <<over, mode, overridden, policyVars, slot, lane>>
    /\ ExecOnly

Sync ==
    /\ epoch < MaxEpoch
    /\ Step("sync", "ack")
    /\ lane' = Append(lane, [kind |-> "sync", epoch |-> epoch + 1])
    /\ UNCHANGED <<mode, overridden, policyVars, gate, slot, conn, diskVars>>
    /\ ExecOnly

\* checked_add: of a FLUSH; Prepare has seen to that of a POLICY_UPDATE.
Overflow ==
    /\ exec.pc = "sync"
    /\ epoch = MaxEpoch
    /\ Done
    /\ UNCHANGED <<mode, overridden, policyVars, slot, lane, diskVars>>
    /\ ExecOnly

\* commit_policy_snapshot, advance_epoch.
Commit ==
    /\ Step("commit", IF exec.kind = "FLUSH" THEN "invalidate" ELSE "manage")
    /\ epoch' = epoch + 1
    /\ bundle' = IF exec.kind = "FLUSH" THEN bundle ELSE exec.newBundle
    /\ UNCHANGED <<mode, overridden, mgmt, gate, slot, conn, lane, diskVars>>
    /\ ExecOnly

\* commit_management.
Manage ==
    /\ Step("manage", "invalidate")
    /\ mgmt' = exec.newMgmt
    /\ UNCHANGED <<mode, overridden, epoch, bundle, gate, slot, conn, lane,
                   diskVars>>
    /\ ExecOnly

Invalidated == None

\* invalidate_old_approvals; clear_ephemeral_state_for_enforce of a FLUSH.
Invalidate ==
    /\ Step("invalidate", "open")
    /\ slot' = Invalidated
    /\ UNCHANGED <<mode, overridden, policyVars, gate, conn, lane, diskVars>>
    /\ ExecOnly

Open ==
    /\ exec.pc = "open"
    /\ Done
    /\ UNCHANGED <<mode, overridden, policyVars, slot, lane, diskVars>>
    /\ ExecOnly

Run ==
    \/ Switch \/ Clear
    \/ Validate \/ Compile \/ PrepareManagement \/ PrepareFails
    \/ Backup \/ Apply \/ \E undone \in BOOLEAN : ApplyFails(undone)
    \/ Sync \/ Overflow \/ Commit \/ Manage \/ Invalidate \/ Open

-----------------------------------------------------------------------------
(* An operator stages another directory, with teal-cli stage-init and an    *)
(* editor.  Nothing keeps them from it while teald reads what was staged.   *)

Stage(p) ==
    /\ disk.base # None
    /\ disk.new # p
    /\ over < MaxOver
    /\ disk' = [disk EXCEPT !.new = p]
    /\ over' = IF exec.pc \in {"compile", "prepare", "backup"} THEN over + 1
               ELSE over
    /\ UNCHANGED <<stranded, proc, modeVars, policyVars, gate, adminVars, lane,
                   kernelVars, started, voted, ids>>

Send ==
    \/ \E on, reached \in BOOLEAN : SwitchMode(on, reached)
    \/ \E e \in Epoch, reached, acked \in BOOLEAN :
           SyncedFirst(e, reached, acked) \/ Synced(e, reached, acked)

Next ==
    \/ Load \/ Register \/ Publish \/ SyncFirst
    \/ Crash \/ GiveUp
    \/ Send
    \/ LookQuiet \/ LookBusy
    \/ \E c \in Conn :
           \/ \E u \in User, k \in Kind : Initiate(c, u, k)
           \/ \E u \in User, i \in 1 .. issued : ApproveCtl(c, u, i)
           \/ \E u \in User, i \in 1 .. issued : DenyCtl(c, u, i)
           \/ Pend(c) \/ Stamp(c) \/ Finalize(c) \/ Execute(c)
    \/ \E u \in User : RegisterKey(u)
    \/ Run
    \/ \E p \in Policies : Stage(p)

Spec == Init /\ [][Next]_vars

\* Tasks, the sender and the kernel go on, and an exit is one.
FairSpec ==
    /\ Spec
    /\ \A c \in Conn : WF_vars(Pend(c) \/ Stamp(c) \/ Finalize(c) \/ Execute(c))
    /\ WF_vars(Run) /\ WF_vars(Send) /\ WF_vars(GiveUp)

-----------------------------------------------------------------------------
(* Properties. *)

\* A command runs that has not changed the epoch yet.
Runs(c) == conn[c].pc = "run" /\ exec.pc \notin {"manage", "invalidate", "open"}

\* A command that needs approval runs on the signatures of its own audit id
\* alone, and they are all it was asked for: as many, and every role.
\* process_approve_ctl, finalize_ctl_approval.
QuorumBehind ==
    \A c \in Conn : Runs(c) /\ conn[c].asks.mpa =>
        Fulfilled(conn[c].asks, bundle.holds,
                  {u \in User : [id |-> conn[c].id, user |-> u] \in voted})

\* It runs once, however many approve it at a time.  process_approve_ctl takes
\* it under the mutex under which it is found complete.
RunsOnce ==
    [][\A c \in Conn : conn[c].pc = "lock" /\ conn'[c].pc = "run"
                           => conn[c].id \notin ids]_vars

\* It runs in the epoch it was put to approval in, whatever ran while it
\* waited for the lock.  execute_mgmt_ctl_core.
RunsInItsEpoch == \A c \in Conn : Runs(c) => conn[c].epoch = epoch

\* What waits for approval is of the policy in force, but while a new epoch
\* is being published.  create_mgmt_pending, invalidate_old_approvals.
SlotInEpoch ==
    slot # None /\ exec.pc \notin {"manage", "invalidate"} => slot.epoch = epoch

\* While tickets may be made, the kernel and teald are of one epoch: across
\* restarts, and when the acknowledgement was lost.  terminate_on_epoch_-
\* uncertainty.
EpochsAgree == proc = "run" /\ ~gate /\ exec.pc # "uncertain" => kernel.epoch = epoch

\* Seen from tickets, a new epoch comes to teald as EpochHandover says: over
\* restarts, refused updates and lost acknowledgements.  An epoch that is
\* uncertain is one teald will never make a ticket for.
InUse == proc = "run" /\ exec.pc # "uncertain"
Handover == INSTANCE EpochHandover WITH
    known <- IF InUse THEN epoch ELSE kernel.epoch,
    inForce <- kernel.epoch,
    shut <- gate \/ ~InUse
ImplementsHandover == Handover!HandoverSpec

\* The next start loads the policy in force, and the management with it, if
\* nothing was staged between the hash and the renames, and no rename was
\* beyond undoing.  Where teald was cut off between the renames, or could not
\* undo the first, /etc/teal.d is gone and the backup holds it.
\* switch_policy_directory.
DirectoryInForce ==
    LET kept == IF disk.base = None THEN disk.saved ELSE disk.base
    IN  /\ kept # None
        /\ proc = "run" /\ over = 0
           /\ exec.pc \notin {"sync", "ack", "uncertain", "commit"} =>
               /\ kept = bundle
               /\ exec.pc # "manage" => kept = mgmt
               /\ exec.pc # "apply" /\ ~stranded => disk.base # None

\* A new policy is the one whose hash was signed, unless it was staged over
\* after the hash was taken.  validate_staged_policy.
PolicyAsSigned ==
    exec.pc \in {"apply", "sync", "ack", "commit", "manage"}
    /\ exec.kind = "POLICY_UPDATE" /\ over = 0 =>
        exec.newBundle = exec.target /\ exec.newMgmt = exec.target

\* The kernel enforces if and only if teald does, but while START or STOP is
\* on its way, where the settle monitor had the last word, and where the last
\* MODE_SWITCH could not be sent: START and STOP do not learn of that.
\* execute_start, execute_stop, netlink_send_worker_loop.
ModesAgree ==
    proc = "run" /\ exec.pc # "clear" /\ ~overridden /\ ~unsent
    /\ (\A n \in 1 .. Len(lane) : lane[n].kind # "mode")
        => kernel.on = (mode = "enforce")

\* main.rs has the monitor lead from DRAIN to AUDIT.
SettleLeavesDrain == [][LookQuiet => mode' = mode \/ mode = "drain"]_vars

\* Every command comes to its end, whatever holds the lock and whether or not
\* the kernel answers.  send_sync_epoch bounds the wait.
CommandsEnd == \A c \in Conn : conn[c].pc # "idle" ~> conn[c].pc = "idle"
=============================================================================
