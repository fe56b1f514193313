---------------------------- MODULE TealSession -----------------------------
(***************************************************************************)
(* The daemon session and the policy epoch of kernel/security/teal,        *)
(* teal_lsm.c.                                                             *)
(*                                                                         *)
(* A policy daemon opens two generic netlink sockets and registers one for *)
(* each lane: RX, on which the kernel sends it requests, then TX, the only *)
(* one whose commands are obeyed.  POLICY_UPDATE publishes the next policy *)
(* epoch and flushes the ticket cache; TICKET_ADD inserts a ticket of the  *)
(* current epoch.  When either socket goes away a notifier ends the        *)
(* session, and a work item flushes what the session left behind.          *)
(*                                                                         *)
(* The handlers run in the context of the sending process and interleave   *)
(* with each other, with the work item and with the notifier, which takes  *)
(* only a spinlock and never waits.  One step is what happens between two  *)
(* points at which another of these may get in: taking a mutex, releasing  *)
(* a spinlock.  Both mutexes are read off the program counters.            *)
(*                                                                         *)
(* A command that returns an error before it changed anything is no step.  *)
(***************************************************************************)
EXTENDS Naturals

CONSTANTS
    Socket,     \* netlink sockets, named by their port
    Proc,       \* processes with CAP_MAC_ADMIN that may talk to the family
    Owner,      \* Owner[s]: the process (tgid) that opened socket s
    NoSocket,   \* portid 0
    NoProc,     \* tgid 0
    MaxEpoch    \* U32_MAX

ASSUME SocketAssumption ==
    /\ NoSocket \notin Socket
    /\ NoProc \notin Proc
    /\ Owner \in [Socket -> Proc]
    /\ MaxEpoch \in Nat \ {0}

VARIABLES
    rxPort,     \* teal_daemon_rx_portid
    txPort,     \* teal_daemon_tx_portid
    tgid,       \* teal_daemon_tgid
    curEpoch,   \* teal_current_epoch, 0 while unsynchronised
    lastEpoch,  \* teal_last_epoch, never reset
    table,      \* the epochs of the tickets in teal_ticket_ht and its list
    work,       \* teal_daemon_disconnect_work is queued
    worker,     \* what the disconnect work item is doing
    pc,         \* where the handler of a command sent on a socket is
    arg,        \* the epoch attribute of the command in progress
    offer,      \* next_epoch, as computed for the RX socket and told to it
    open,       \* the sockets that are open
    retired     \* history: the epochs that were current and no longer are

portVars == <<rxPort, txPort, tgid>>
epochVars == <<curEpoch, lastEpoch, retired>>
vars == <<portVars, epochVars, table, work, worker, pc, arg, offer, open>>

Epoch == 0 .. MaxEpoch

PC == {"idle",
       "rxLock",    \* REGISTER RX: holds the lifecycle mutex
       "rxFlush",   \* ... and the ticket mutex, all checks passed
       "rxSet",     \* ... queues flushed, ports not yet written
       "rxReply",   \* ... session open, the reply not yet sent
       "polLock",   \* POLICY_UPDATE: authorised, waits for the ticket mutex
       "polFlush",  \* ... epoch published, holds the ticket mutex
       "tickLock"}  \* TICKET_ADD: authorised, waits for the ticket mutex

TypeOK ==
    /\ rxPort \in Socket \cup {NoSocket}
    /\ txPort \in Socket \cup {NoSocket}
    /\ tgid \in Proc \cup {NoProc}
    /\ curEpoch \in Epoch
    /\ lastEpoch \in Epoch
    /\ table \subseteq Epoch
    /\ work \in BOOLEAN
    /\ worker \in {"idle", "flush"}
    /\ pc \in [Socket -> PC]
    /\ arg \in [Socket -> Epoch]
    /\ offer \in Epoch
    /\ open \subseteq Socket
    /\ retired \subseteq Epoch

Init ==
    /\ rxPort = NoSocket
    /\ txPort = NoSocket
    /\ tgid = NoProc
    /\ curEpoch = 0
    /\ lastEpoch = 0
    /\ table = {}
    /\ work = FALSE
    /\ worker = "idle"
    /\ pc = [s \in Socket |-> "idle"]
    /\ arg = [s \in Socket |-> 0]
    /\ offer = 0
    /\ open = {}
    /\ retired = {}

-----------------------------------------------------------------------------
(* The two mutexes. *)

\* teal_daemon_lifecycle_mutex
HoldsLifecycle(s) == pc[s] \in {"rxLock", "rxFlush", "rxSet", "rxReply"}
LifecycleFree == worker = "idle" /\ \A s \in Socket : ~HoldsLifecycle(s)

\* teal_ticket_update_mutex
HoldsTicketMutex(s) == pc[s] \in {"rxFlush", "rxSet", "polFlush"}
TicketMutexFree == \A s \in Socket : ~HoldsTicketMutex(s)

Goto(s, from, to) ==
    /\ pc[s] = from
    /\ pc' = [pc EXCEPT ![s] = to]

\* The handler of a command with an epoch attribute returns.
Return(s, from) ==
    /\ Goto(s, from, "idle")
    /\ arg' = [arg EXCEPT ![s] = 0]

\* The epoch in force, if any, stops being so.
Retire == retired' = IF curEpoch = 0 THEN retired ELSE retired \cup {curEpoch}

\* The session is over as far as every lock-free reader can tell.
EndSession ==
    /\ rxPort' = NoSocket
    /\ txPort' = NoSocket
    /\ tgid' = NoProc
    /\ curEpoch' = 0
    /\ Retire
    /\ offer' = 0
    /\ UNCHANGED lastEpoch

-----------------------------------------------------------------------------
(* Sockets. *)

\* A process opens a netlink socket; ports are reused once released.
OpenSocket(s) ==
    /\ s \notin open
    /\ open' = open \cup {s}
    /\ UNCHANGED <<portVars, epochVars, table, work, worker, pc, arg, offer>>

\* Faulty variant: the notifier forgets to schedule the cleanup.
DisconnectNoCleanup == EndSession /\ UNCHANGED work

\* teal_nl_notifier, when a registered port went away: losing either lane ends
\* the session at once, the cleanup is left to the work item.
Disconnect == EndSession /\ work' = TRUE

\* The last reference to a socket goes away: never while a command sent on it
\* is being handled, at any time otherwise.
ReleaseSocket(s) ==
    /\ s \in open
    /\ pc[s] = "idle"
    /\ open' = open \ {s}
    /\ IF s \in {rxPort, txPort}
       THEN Disconnect
       ELSE UNCHANGED <<portVars, epochVars, offer, work>>
    /\ UNCHANGED <<table, worker, pc, arg>>

-----------------------------------------------------------------------------
(* REGISTER, lane RX: a new session. *)

RegisterRx(s) ==
    /\ s \in open
    /\ LifecycleFree
    /\ Goto(s, "idle", "rxLock")
    /\ UNCHANGED <<portVars, epochVars, table, work, worker, arg, offer, open>>

RxCheckIf(s, refuse) ==
    /\ TicketMutexFree
    /\ IF refuse
       THEN /\ Goto(s, "rxLock", "idle")
            /\ UNCHANGED offer
       ELSE /\ Goto(s, "rxLock", "rxFlush")
            /\ offer' = lastEpoch + 1
    /\ UNCHANGED <<portVars, epochVars, table, work, worker, arg, open>>

SessionOpen == rxPort # NoSocket \/ txPort # NoSocket

\* The ticket mutex is taken.  -EBUSY while a session is open, -EOVERFLOW when
\* no epoch is left for the new one.
RxCheck(s) == RxCheckIf(s, SessionOpen \/ lastEpoch = MaxEpoch)

\* What the previous session left is dropped before the ports are written.
RxFlush(s) ==
    /\ Goto(s, "rxFlush", "rxSet")
    /\ curEpoch' = 0
    /\ Retire
    /\ table' = {}
    /\ UNCHANGED <<portVars, lastEpoch, work, worker, arg, offer, open>>

\* The session is open for a TX socket of the same process.  The ticket mutex
\* is released, the lifecycle mutex is not.
RxSet(s) ==
    /\ Goto(s, "rxSet", "rxReply")
    /\ tgid' = Owner[s]
    /\ rxPort' = s
    /\ UNCHANGED <<txPort, epochVars, table, work, worker, arg, offer, open>>

RxReply(s) ==
    /\ Goto(s, "rxReply", "idle")
    /\ UNCHANGED <<portVars, epochVars, table, work, worker, arg, offer, open>>

\* The reply could not be allocated or sent: the registration is undone.
RxReplyFails(s) ==
    /\ Goto(s, "rxReply", "idle")
    /\ IF rxPort = s
       THEN EndSession
       ELSE UNCHANGED <<portVars, epochVars, offer>>
    /\ UNCHANGED <<table, work, worker, arg, open>>

-----------------------------------------------------------------------------
(* REGISTER, lane TX: a second socket joins the session. *)

\* Faulty variant: any process may become the sender of commands.
RegisterTxAnyProcess(s) ==
    /\ s \in open
    /\ pc[s] = "idle"
    /\ LifecycleFree
    /\ rxPort \notin {NoSocket, s}
    /\ txPort = NoSocket
    /\ txPort' = s
    /\ UNCHANGED <<rxPort, tgid, epochVars, table, work, worker, pc, arg,
                   offer, open>>

\* -ENOTCONN, -EBUSY, -EPERM and -EINVAL in this order when a guard fails.
\* Neither the epoch nor the queues are touched.
RegisterTx(s) ==
    /\ s \in open
    /\ pc[s] = "idle"
    /\ LifecycleFree
    /\ rxPort # NoSocket
    /\ txPort = NoSocket
    /\ tgid = Owner[s]
    /\ rxPort # s
    /\ txPort' = s
    /\ UNCHANGED <<rxPort, tgid, epochVars, table, work, worker, pc, arg,
                   offer, open>>

-----------------------------------------------------------------------------
(* Commands of a registered daemon. *)

\* teal_nl_check_authorized, evaluated without any lock.
Authorized(s) == txPort = s

Command(s, e, to) ==
    /\ s \in open
    /\ Authorized(s)
    /\ Goto(s, "idle", to)
    /\ arg' = [arg EXCEPT ![s] = e]
    /\ UNCHANGED <<portVars, epochVars, table, work, worker, offer, open>>

PolicyUpdate(s, e) == Command(s, e, "polLock")

TicketAdd(s, e) == Command(s, e, "tickLock")

\* Only the successor of the last epoch is accepted, from 0 as well.
NextInOrder(e) ==
    /\ e # 0
    /\ lastEpoch # MaxEpoch
    /\ e = lastEpoch + 1

\* The ticket mutex is taken, held on success and released on refusal.
PublishIf(s, accept) ==
    /\ TicketMutexFree
    /\ IF accept
       THEN /\ Goto(s, "polLock", "polFlush")
            /\ lastEpoch' = arg[s]
            /\ curEpoch' = arg[s]
            /\ Retire
            /\ UNCHANGED arg
       ELSE /\ Return(s, "polLock")
            /\ UNCHANGED epochVars
    /\ UNCHANGED <<portVars, table, work, worker, offer, open>>

\* Faulty variant: any later epoch is accepted, not only the next one.
PolicyPublishSkips(s) == PublishIf(s, arg[s] > lastEpoch /\ Authorized(s))

\* The number is checked under the ticket mutex; under the spinlock the sender
\* is compared with the session once more and the epoch is published.
PolicyPublish(s) == PublishIf(s, NextInOrder(arg[s]) /\ Authorized(s))

PolicyFlush(s) ==
    /\ Return(s, "polFlush")
    /\ table' = {}
    /\ UNCHANGED <<portVars, epochVars, work, worker, offer, open>>

\* Faulty variant: the ticket need not be of the current epoch.
InsertableAnyEpoch(e) == e # 0

\* -ESTALE otherwise
Insertable(e) == e # 0 /\ e = curEpoch

\* handle_ticket_add, under the ticket mutex
TicketInsert(s) ==
    /\ TicketMutexFree
    /\ Return(s, "tickLock")
    /\ table' = IF Insertable(arg[s]) THEN table \cup {arg[s]} ELSE table
    /\ UNCHANGED <<portVars, epochVars, work, worker, offer, open>>

-----------------------------------------------------------------------------
(* The disconnect work item. *)

\* Faulty variant: the cleanup does not ask whether a new session began.
WorkerStartUnconditional ==
    /\ work
    /\ LifecycleFree
    /\ work' = FALSE
    /\ worker' = "flush"
    /\ UNCHANGED <<portVars, epochVars, table, pc, arg, offer, open>>

\* The work item may be queued again from here on.  It holds the lifecycle
\* mutex to its end; a session that began before it ran is left alone.
WorkerStart ==
    /\ work
    /\ LifecycleFree
    /\ work' = FALSE
    /\ worker' = IF rxPort = NoSocket THEN "flush" ELSE "idle"
    /\ UNCHANGED <<portVars, epochVars, table, pc, arg, offer, open>>

WorkerFlush ==
    /\ worker = "flush"
    /\ TicketMutexFree
    /\ worker' = "idle"
    /\ table' = {}
    /\ UNCHANGED <<portVars, epochVars, work, pc, arg, offer, open>>

-----------------------------------------------------------------------------
Handler(s) ==
    \/ RxCheck(s) \/ RxFlush(s) \/ RxSet(s) \/ RxReply(s) \/ RxReplyFails(s)
    \/ PolicyPublish(s) \/ PolicyFlush(s)
    \/ TicketInsert(s)

Client(s) ==
    \/ OpenSocket(s) \/ ReleaseSocket(s)
    \/ RegisterRx(s) \/ RegisterTx(s)
    \/ \E e \in Epoch : PolicyUpdate(s, e) \/ TicketAdd(s, e)

Next ==
    \/ \E s \in Socket : Handler(s) \/ Client(s)
    \/ WorkerStart
    \/ WorkerFlush

Spec == Init /\ [][Next]_vars

\* A handler runs to its end and the work item runs; a mutex is handed to a
\* waiter that keeps asking.  Nothing is asked of the processes.
Fairness ==
    /\ \A s \in Socket : SF_vars(Handler(s))
    /\ SF_vars(WorkerStart)
    /\ SF_vars(WorkerFlush)

FairSpec == Spec /\ Fairness

-----------------------------------------------------------------------------
(* Properties. *)

\* The two lanes of a session are two different open sockets of the one
\* process recorded as the daemon, and TX never outlives RX: the checks of
\* REGISTER and the notifier keep them together whatever else runs.
SessionPaired ==
    /\ rxPort # NoSocket => rxPort \in open /\ tgid = Owner[rxPort]
    /\ txPort # NoSocket => /\ txPort \in open
                            /\ rxPort \notin {NoSocket, txPort}
                            /\ tgid = Owner[txPort]

\* An epoch is in force only while a complete session is: a POLICY_UPDATE that
\* was authorised before the daemon died cannot switch the tickets back on.
EpochNeedsSession ==
    curEpoch # 0 => txPort # NoSocket /\ curEpoch = lastEpoch

\* An epoch that was replaced or revoked never comes back, whichever sessions
\* follow: a ticket or a self-baked privilege of its time stays void for good.
RetiredForGood == curEpoch \notin retired

\* The number in the REGISTER reply is still the one POLICY_UPDATE wants when
\* the daemon gets to use it, however long it takes.
OfferHolds ==
    rxPort # NoSocket /\ curEpoch = 0 => offer = lastEpoch + 1

\* Once POLICY_UPDATE has returned, every ticket in the cache is of the epoch
\* it published, also if TICKET_ADDs of the epoch before were under way.
FlushComplete ==
    curEpoch # 0 /\ (\A s \in Socket : pc[s] # "polFlush")
        => table \subseteq {curEpoch}

\* No flush drops a ticket of the current epoch: neither the cleanup of a dead
\* session nor REGISTER nor POLICY_UPDATE takes one from the session in force.
NoCurrentTicketLost == [][(curEpoch \in table) => (curEpoch \in table')]_vars

\* Tickets left by a dead session are removed even if no daemon comes back.
LeftoversFlushed == (curEpoch = 0 /\ table # {}) ~> (table = {})

\* Every command returns to its sender: no path keeps a mutex.
CommandsReturn == \A s \in Socket : pc[s] # "idle" ~> pc[s] = "idle"

\* The session is an epoch clock.  The flush is owed from POLICY_UPDATE's
\* publication to its flush, and from a disconnect to the end of the cleanup.
FlushDue ==
    \/ \E s \in Socket : pc[s] = "polFlush"
    \/ rxPort = NoSocket /\ work
    \/ worker = "flush"

Clock == INSTANCE EpochClock WITH flushDue <- FlushDue

ImplementsClock == Clock!ClockSpec

=============================================================================
