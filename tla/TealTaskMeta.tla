---------------------------- MODULE TealTaskMeta ----------------------------
(***************************************************************************)
(* What kernel/security/teal remembers of a task, teal_task_meta of        *)
(* teal_lsm.c: the program it runs, by which its tickets are found, and    *)
(* the privileges that tickets have left with it ("self-baking").          *)
(*                                                                         *)
(* A hook that goes by a ticket (TealTicketCache) bakes the ticket's flags *)
(* into the task, to count while the epoch of EpochClock lasts.  An exec   *)
(* is checked once or more, and later committed or given up; a fork hands  *)
(* the program down, and the privileges if they may be inherited.  The     *)
(* epoch may change between any two steps.                                 *)
(*                                                                         *)
(* Paths, scripts and arguments go the way of the program and are left     *)
(* out, and so is a task whose blob was never initialised.                 *)
(***************************************************************************)
EXTENDS EpochClock

CONSTANTS
    Task,       \* slots for the tasks alive at a time
    Program,    \* executables, by device and inode
    Grants,     \* the sets of flags that tickets carry
    None        \* no program: device and inode 0

Flag == {"silent", "inherit"}   \* TEAL_BAKE_FLAGS_MASK: SILENT_IO (or
                                \* NAMELESS_IPC), INHERIT

ASSUME TaskAssumption ==
    /\ Grants \subseteq SUBSET (Flag \cup {"parent"})
    /\ None \notin Program

VARIABLES
    hook,       \* the hook that goes by a ticket, if the task is in one
    meta,       \* teal_task_meta
    alive,      \* the tasks that exist
    exec,       \* the file that the exec under way will run, if any
    image,      \* history: the program the task really runs
    earned      \* history: the tickets this image went by, or that were left
                \* to it with leave to inherit

taskVars == <<hook, meta, alive, exec, image, earned>>
metaVars == <<clockVars, taskVars>>

Ticket == [program : Program, epoch : 1 .. MaxEpoch, flags : Grants]

Meta == [program : Program \cup {None},     \* program_id
         epoch   : 0 .. MaxEpoch,           \* privilege_state, high half
         flags   : SUBSET Flag,             \* privilege_state, low half
         pending : Program \cup {None}]     \* pending_program_id, if valid

\* Outside a hook there is no ticket to speak of.
Hook == [pc : {"idle"}] \cup [pc : {"take", "bake", "store"}, ticket : Ticket]
Idle == [pc |-> "idle"]

MetaTypeOK ==
    /\ ClockTypeOK
    /\ hook \in [Task -> Hook]
    /\ meta \in [Task -> Meta]
    /\ alive \subseteq Task
    /\ exec \in [Task -> Program \cup {None}]
    /\ image \in [Task -> Program]
    /\ earned \in [Task -> SUBSET Ticket]

NewMeta(p) == [program |-> p, epoch |-> 0, flags |-> {}, pending |-> None]

\* A task born before the module was loaded may have no program on record.
MetaInit ==
    /\ ClockInit
    /\ hook = [t \in Task |-> Idle]
    /\ alive \in SUBSET Task \ {{}}
    /\ \E p \in Program : image = [t \in Task |-> p]
    /\ \E known \in BOOLEAN :
           meta = [t \in Task |-> NewMeta(IF known THEN image[t] ELSE None)]
    /\ exec = [t \in Task |-> None]
    /\ earned = [t \in Task |-> {}]

-----------------------------------------------------------------------------
(* The clock ticks on its own: no step of it waits for a task. *)

Clock == ClockNext /\ UNCHANGED taskVars

-----------------------------------------------------------------------------
(* A hook other than bprm_check that finds a ticket. *)

Free(t) == t \in alive /\ hook[t].pc = "idle"

\* Goes on from one stage of the hook to the next.
Step(t, from, to) ==
    /\ hook[t].pc = from
    /\ hook' = [hook EXCEPT ![t] =
                    IF to = "idle" THEN Idle ELSE [@ EXCEPT !.pc = to]]

\* is_ticket_matched: a ticket of the epoch in force, for the task's program.
Match(t, g) ==
    /\ Free(t)
    /\ curEpoch # 0
    /\ meta[t].program # None
    /\ hook' = [hook EXCEPT ![t] =
           [pc |-> "take",
            ticket |-> [program |-> meta[t].program, epoch |-> curEpoch,
                        flags |-> g]]]
    /\ UNCHANGED <<clockVars, meta, alive, exec, image, earned>>

\* A use of the ticket is left, or none is counted.
Use(t) ==
    /\ Step(t, "take", "bake")
    /\ earned' = [earned EXCEPT ![t] = @ \cup {hook[t].ticket}]
    /\ UNCHANGED <<clockVars, meta, alive, exec, image>>

\* Its uses have gone to other tasks.
PassOver(t) ==
    /\ Step(t, "take", "idle")
    /\ UNCHANGED <<clockVars, meta, alive, exec, image, earned>>

Bakeable(t) == hook[t].ticket.flags \cap Flag

\* teal_bake_ticket_flags reads the epoch twice before it writes; as epochs do
\* not come back the second reading decides.
Bake(t) ==
    /\ Step(t, "bake", IF /\ Bakeable(t) # {}
                          /\ curEpoch # 0
                          /\ hook[t].ticket.epoch = curEpoch
                       THEN "store" ELSE "idle")
    /\ UNCHANGED <<clockVars, meta, alive, exec, image, earned>>

\* Faulty variant: what was baked before is always kept.
BakedAlways(t, e) == meta[t].flags

\* What was baked under another epoch is dropped.
Baked(t, e) == IF meta[t].epoch = e THEN meta[t].flags ELSE {}

\* The epoch may have changed since it was read.  Only the task itself writes
\* its privileges, so the compare-and-swap does not fail.
Store(t) ==
    LET e == hook[t].ticket.epoch
    IN  /\ Step(t, "store", "idle")
        /\ meta' = [meta EXCEPT
               ![t].epoch = e,
               ![t].flags = Baked(t, e) \cup Bakeable(t)]
        /\ UNCHANGED <<clockVars, alive, exec, image, earned>>

\* teal_get_active_ticket_flags: what lets a task's temporary files and local
\* sockets through without a ticket.
Active(t) ==
    IF curEpoch # 0 /\ meta[t].epoch = curEpoch THEN meta[t].flags ELSE {}

\* teal_req_build: a request of a task without a program looks it up.
Recover(t) ==
    /\ Free(t)
    /\ meta[t].program = None
    /\ meta' = [meta EXCEPT ![t].program = image[t]]
    /\ UNCHANGED <<clockVars, hook, alive, exec, image, earned>>

-----------------------------------------------------------------------------
(* Exec. *)

\* "If it is checked several times, the last candidate allowed counts."
Candidate(t, p) == p

\* bprm_check lets the file p be run, by a ticket or on the slow path.  The
\* kernel checks a script and then its interpreter in the same exec.
CheckAllows(t, p) ==
    /\ Free(t)
    /\ exec' = [exec EXCEPT ![t] = p]
    /\ meta' = [meta EXCEPT ![t].pending = Candidate(t, p)]
    /\ UNCHANGED <<clockVars, hook, alive, image, earned>>

\* bprm_check refuses: the exec, the earlier checks of it included, is over.
CheckRefuses(t) ==
    /\ Free(t)
    /\ exec' = [exec EXCEPT ![t] = None]
    /\ meta' = [meta EXCEPT ![t].pending = None]
    /\ UNCHANGED <<clockVars, hook, alive, image, earned>>

\* The exec fails after its checks; teal is not told.
ExecFails(t) ==
    /\ Free(t)
    /\ exec[t] # None
    /\ exec' = [exec EXCEPT ![t] = None]
    /\ UNCHANGED <<clockVars, hook, meta, alive, image, earned>>

\* "No carrying over of self-baked privileges to another program by exec."
Committed(t) ==
    NewMeta(IF meta[t].pending # None THEN meta[t].pending ELSE exec[t])

\* teal_bprm_committed_creds
ExecCommit(t) ==
    /\ Free(t)
    /\ exec[t] # None
    /\ meta' = [meta EXCEPT ![t] = Committed(t)]
    /\ image' = [image EXCEPT ![t] = exec[t]]
    /\ exec' = [exec EXCEPT ![t] = None]
    /\ earned' = [earned EXCEPT ![t] = {}]
    /\ UNCHANGED <<clockVars, hook, alive>>

-----------------------------------------------------------------------------
(* Fork and exit. *)

Inherits(t) == "inherit" \in Active(t)

\* Some ticket of the epoch in force gives the image leave to inherit.
Heritable(t) ==
    \E k \in earned[t] : k.epoch = curEpoch /\ "inherit" \in k.flags

\* teal_task_alloc: the privileges are handed down whole or not at all.
Fork(t, c) ==
    /\ Free(t)
    /\ exec[t] = None
    /\ c \notin alive
    /\ alive' = alive \cup {c}
    /\ meta' = [meta EXCEPT ![c] =
           [NewMeta(meta[t].program) EXCEPT
                !.epoch = IF Inherits(t) THEN meta[t].epoch ELSE 0,
                !.flags = IF Inherits(t) THEN meta[t].flags ELSE {}]]
    /\ image' = [image EXCEPT ![c] = image[t]]
    /\ earned' = [earned EXCEPT ![c] = IF Heritable(t) THEN earned[t] ELSE {}]
    /\ UNCHANGED <<clockVars, hook, exec>>

Exit(t) ==
    /\ Free(t)
    /\ alive' = alive \ {t}
    /\ exec' = [exec EXCEPT ![t] = None]
    /\ meta' = [meta EXCEPT ![t] = NewMeta(image[t])]
    /\ earned' = [earned EXCEPT ![t] = {}]
    /\ UNCHANGED <<clockVars, hook, image>>

-----------------------------------------------------------------------------
TaskStep(t) ==
    \/ \E g \in Grants : Match(t, g)
    \/ Use(t) \/ PassOver(t) \/ Bake(t) \/ Store(t) \/ Recover(t)
    \/ \E p \in Program : CheckAllows(t, p)
    \/ CheckRefuses(t) \/ ExecFails(t) \/ ExecCommit(t)
    \/ \E c \in Task : Fork(t, c)
    \/ Exit(t)

MetaNext == Clock \/ \E t \in Task : TaskStep(t)

MetaSpec == MetaInit /\ [][MetaNext]_metaVars

-----------------------------------------------------------------------------
(* Properties. *)

\* A privilege in force rests on tickets of the epoch in force for the program
\* the task runs, that this image went by or that its parent's did with leave
\* to inherit: no exec, fork, policy update or end of a session carries one
\* along, however it falls between the steps of a hook.
PrivilegesGrounded ==
    \A t \in Task : Active(t) \subseteq
        UNION {k.flags : k \in {j \in earned[t] : /\ j.epoch = curEpoch
                                                  /\ j.program = image[t]}}

\* A task is held to be the program it runs, or none, through execs that check
\* several files, that are refused, or that fail after the check.
ProgramTrue == \A t \in alive : meta[t].program \in {image[t], None}

=============================================================================
