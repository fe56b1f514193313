-------------------------- MODULE TealTicketCache ---------------------------
(***************************************************************************)
(* The fast path of kernel/security/teal: the ticket cache of teal_lsm.c,  *)
(* the lookups of the hooks and the collector.                             *)
(*                                                                         *)
(* Lookups run under RCU with no lock: they see tickets that are being     *)
(* removed, and the epoch, the clock and the uses left may change between  *)
(* any two steps of theirs.  Insertions, flushes and the collector exclude *)
(* one another by teal_ticket_update_mutex.  The epoch is that of          *)
(* EpochClock, which TealSession implements.                               *)
(*                                                                         *)
(* One object and the directories above it stand for all: a hook sees the  *)
(* tickets of its own keys only.  teal_check_socket_ticket_match is the    *)
(* same lookup with a key of its own and no directories.  Which tasks a    *)
(* ticket fits (user, operation, program, script) is a set of tasks.  What *)
(* a used ticket leaves with its task is TealTaskMeta's.                   *)
(***************************************************************************)
EXTENDS EpochClock, Integers

CONSTANTS
    Task,       \* the tasks that run hooked operations
    Ticket,     \* the tickets teald sends in a behaviour
    Offers,     \* what teald may send in a ticket, a subset of Offer
    Depth,      \* TEAL_MAX_PARENT_TRAVERSE
    MaxTime,    \* bound on the clock
    Half,       \* 2^31, the first u32 that is negative as an int
    None

Offer == [managed : BOOLEAN,            \* ticket_id # 0
          audited : BOOLEAN,            \* audit_flags # 1
          uses    : 0 .. 2 * Half - 1,
          ends    : 0 .. MaxTime,       \* expires_at
          place   : 0 .. Depth,         \* 0 the object, n its n-th parent
          fits    : SUBSET Task]

ASSUME CacheAssumption ==
    /\ Depth \in Nat
    /\ MaxTime \in Nat
    /\ Half \in Nat \ {0}
    /\ Offers \subseteq Offer
    /\ None \notin Ticket \cup Offers

VARIABLES
    holder,     \* what holds teal_ticket_update_mutex
    adding,     \* the ticket being added
    offer,      \* the fields of each ticket that was accepted
    epoch,      \* ... and its epoch
    uses,       \* ... and its uses_left, an int
    cache,      \* the tickets in teal_ticket_list and teal_ticket_ht
    now,        \* ktime_get_real_seconds
    gc,         \* the collector
    hook,       \* the hook each task is in
    used,       \* history: the operations each managed ticket let through
    told        \* history: the reports of its end, of each kind

cacheVars == <<holder, adding, offer, epoch, uses, cache>>
vars == <<clockVars, cacheVars, now, gc, hook, used, told>>

End == {"spent", "expired"}     \* INFO CONSUMED with no use left, INFO EXPIRED

Idle == [pc |-> "idle", level |-> 0, rest |-> {}, at |-> None, now |-> 0,
         since |-> 0]
Resting == [pc |-> "off", now |-> 0, epoch |-> 0, todo |-> {}, log |-> {}]

Hooks == [pc    : {"idle", "scan", "take"},
          level : 0 .. Depth,           \* how far up the lookup is
          rest  : SUBSET Ticket,        \* entries still to be looked at
          at    : Ticket \cup {None},   \* the entry that matched
          now   : 0 .. MaxTime,         \* the time the lookup goes by
          since : 0 .. MaxEpoch + 1]    \* history: the first epoch in force
                                        \* when the operation began or later
Collector == [pc    : {"off", "lock", "run"},
              now   : 0 .. MaxTime,
              epoch : 0 .. MaxEpoch,
              todo  : SUBSET Ticket,
              log   : SUBSET Ticket]

TypeOK ==
    /\ ClockTypeOK
    /\ holder \in {"none", "add", "update", "gc"}
    /\ adding \in Ticket \cup {None}
    /\ offer \in [Ticket -> Offers \cup {None}]
    /\ epoch \in [Ticket -> 0 .. MaxEpoch]
    /\ uses \in [Ticket -> (-Half) .. (Half - 1)]
    /\ cache \subseteq Ticket
    /\ now \in 0 .. MaxTime
    /\ gc \in Collector
    /\ hook \in [Task -> Hooks]
    /\ used \in [Ticket -> Nat]
    /\ told \in [Ticket -> [End -> Nat]]

Init ==
    /\ ClockInit
    /\ holder = "none"
    /\ adding = None
    /\ offer = [k \in Ticket |-> None]
    /\ epoch = [k \in Ticket |-> 0]
    /\ uses = [k \in Ticket |-> 0]
    /\ cache = {}
    /\ now = 0
    /\ gc = Resting
    /\ hook = [t \in Task |-> Idle]
    /\ used = [k \in Ticket |-> 0]
    /\ told = [k \in Ticket |-> [e \in End |-> 0]]

-----------------------------------------------------------------------------
(* Commands of the daemon and the session, as far as they concern the cache. *)

\* A u32 of the message becomes an atomic_t.
AsInt(u) == IF u < Half THEN u ELSE u - 2 * Half

Lock(m) == holder = "none" /\ holder' = m

\* handle_ticket_add: a ticket without uses is dropped; the epoch is compared
\* under the mutex, one that is not in force is refused.
TicketAdd(k, o) ==
    /\ Lock("add")
    /\ offer[k] = None
    /\ AsInt(o.uses) # 0
    /\ curEpoch # 0
    /\ adding' = k
    /\ offer' = [offer EXCEPT ![k] = o]
    /\ epoch' = [epoch EXCEPT ![k] = curEpoch]
    /\ uses' = [uses EXCEPT ![k] = AsInt(o.uses)]
    /\ UNCHANGED <<clockVars, cache, now, gc, hook, used, told>>

\* The session may have been lost since the comparison.  The hash table may
\* refuse the entry for want of memory.
TicketInsert(ok) ==
    /\ holder = "add"
    /\ holder' = "none"
    /\ cache' = IF ok THEN cache \cup {adding} ELSE cache
    /\ adding' = None
    /\ UNCHANGED <<clockVars, offer, epoch, uses, now, gc, hook, used, told>>

\* The ticket part of teal_flush_all_queues_locked.  Lookups under way still
\* see the entries.
Empty == cache' = {}

\* POLICY_UPDATE publishes its epoch and flushes under one hold of the mutex.
PolicyPublish ==
    /\ Lock("update")
    /\ Publish
    /\ UNCHANGED <<adding, offer, epoch, uses, cache, now, gc, hook, used,
                   told>>

PolicyFlush ==
    /\ holder = "update"
    /\ holder' = "none"
    /\ FlushDone
    /\ Empty
    /\ UNCHANGED <<adding, offer, epoch, uses, now, gc, hook, used, told>>

\* The daemon's socket is gone; no lock of the cache is taken.
SessionLost ==
    /\ curEpoch # 0
    /\ Revoke
    /\ UNCHANGED <<cacheVars, now, gc, hook, used, told>>

\* The cleanup work item, or the next REGISTER.
SessionFlush ==
    /\ holder = "none"
    /\ curEpoch = 0
    /\ FlushDone
    /\ Empty
    /\ UNCHANGED <<holder, adding, offer, epoch, uses, now, gc, hook, used,
                   told>>

Tick ==
    /\ now < MaxTime
    /\ now' = now + 1
    /\ UNCHANGED <<clockVars, cacheVars, gc, hook, used, told>>

-----------------------------------------------------------------------------
(* teal_gc_worker *)

\* It looks at the clock before it waits for the mutex.
GcWake ==
    /\ gc.pc = "off"
    /\ gc' = [gc EXCEPT !.pc = "lock", !.now = now]
    /\ UNCHANGED <<clockVars, cacheVars, now, hook, used, told>>

GcStart ==
    /\ gc.pc = "lock"
    /\ Lock("gc")
    /\ gc' = [gc EXCEPT !.pc = "run", !.epoch = curEpoch, !.todo = cache]
    /\ UNCHANGED <<clockVars, adding, offer, epoch, uses, cache, now, hook,
                   used, told>>

GcExpired(k) == gc.now > offer[k].ends

\* Faulty variant: spent tickets are left to the next flush.
GcDeadUnspent(k) == epoch[k] # gc.epoch \/ GcExpired(k)

GcDead(k) == epoch[k] # gc.epoch \/ GcExpired(k) \/ uses[k] = 0

\* Only a ticket that ended by the clock is reported.
GcReports(k) ==
    /\ epoch[k] = gc.epoch
    /\ GcExpired(k)
    /\ uses[k] # 0
    /\ offer[k].managed
    /\ offer[k].audited

\* Faulty variant: a ticket is reported and not taken off.
GcVisitLeaves(k) ==
    /\ gc.pc = "run"
    /\ k \in gc.todo
    /\ gc' = [gc EXCEPT !.todo = @ \ {k},
                        !.log = IF GcReports(k) THEN @ \cup {k} ELSE @]
    /\ UNCHANGED <<clockVars, cacheVars, now, hook, used, told>>

GcVisit(k) ==
    /\ gc.pc = "run"
    /\ k \in gc.todo
    /\ gc' = [gc EXCEPT !.todo = @ \ {k},
                        !.log = IF GcReports(k) THEN @ \cup {k} ELSE @]
    /\ cache' = IF GcDead(k) THEN cache \ {k} ELSE cache
    /\ UNCHANGED <<clockVars, holder, adding, offer, epoch, uses, now, hook,
                   used, told>>

\* The reports are sent when the mutex is free again.
GcEnd ==
    /\ gc.pc = "run"
    /\ gc.todo = {}
    /\ holder' = "none"
    /\ gc' = Resting
    /\ told' = [k \in Ticket |-> IF k \in gc.log
                    THEN [told[k] EXCEPT !["expired"] = @ + 1]
                    ELSE told[k]]
    /\ UNCHANGED <<clockVars, adding, offer, epoch, uses, cache, now, hook,
                   used>>

-----------------------------------------------------------------------------
(* The hooks: teal_check_ticket_match and __check_ticket_for_inode. *)

HookOnly == UNCHANGED <<clockVars, cacheVars, now, gc, used, told>>

\* rhltable_lookup by the key of the object, or of a directory above it; the
\* clock is read anew each time.
Look(t, l, s) ==
    hook' = [hook EXCEPT ![t] =
                 [pc |-> "scan", level |-> l,
                  rest |-> {k \in cache : offer[k].place = l},
                  at |-> None, now |-> now, since |-> s]]

Enter(t) ==
    /\ hook[t].pc = "idle"
    /\ Look(t, 0, IF curEpoch = 0 THEN lastEpoch + 1 ELSE curEpoch)
    /\ HookOnly

\* Faulty variant: the epoch is left to the flush.
MatchesAnyEpoch(t, k) ==
    /\ hook[t].now <= offer[k].ends
    /\ uses[k] # 0
    /\ t \in offer[k].fits

\* is_ticket_matched.  The epoch and the uses are read one after the other;
\* what is read of the uses is settled by the decrement only.
Matches(t, k) ==
    /\ curEpoch # 0
    /\ epoch[k] = curEpoch
    /\ hook[t].now <= offer[k].ends
    /\ uses[k] # 0
    /\ t \in offer[k].fits

Match(t, k) ==
    /\ hook[t].pc = "scan"
    /\ k \in hook[t].rest
    /\ Matches(t, k)
    /\ hook' = [hook EXCEPT ![t].pc = "take", ![t].at = k,
                            ![t].rest = @ \ {k}]
    /\ HookOnly

\* The entry does not match, or is no longer on the chain.
Skip(t, k) ==
    /\ hook[t].pc = "scan"
    /\ k \in hook[t].rest
    /\ ~Matches(t, k) \/ k \notin cache
    /\ hook' = [hook EXCEPT ![t].rest = @ \ {k}]
    /\ HookOnly

\* The hook lets the operation through, or the slow path (TealControlLane)
\* takes over.
Return(t) == hook' = [hook EXCEPT ![t] = Idle]

\* ticket_id 0: no use is counted.
UseFreely(t) ==
    /\ hook[t].pc = "take"
    /\ ~offer[hook[t].at].managed
    /\ Return(t)
    /\ HookOnly

\* Faulty variant: a use that was there when is_ticket_matched looked.
SomeLeftUnchecked(k) == uses[k] > -Half

\* atomic_dec_if_positive
SomeLeft(k) == uses[k] > 0

UseUp(t) ==
    LET k == hook[t].at
    IN  /\ hook[t].pc = "take"
        /\ offer[k].managed
        /\ SomeLeft(k)
        /\ uses' = [uses EXCEPT ![k] = @ - 1]
        /\ used' = [used EXCEPT ![k] = @ + 1]
        /\ told' = IF uses[k] = 1 /\ offer[k].audited
                   THEN [told EXCEPT ![k]["spent"] = @ + 1] ELSE told
        /\ Return(t)
        /\ UNCHANGED <<clockVars, holder, adding, offer, epoch, cache, now, gc>>

\* The last use went to another task: on to the next entry.
PassOver(t) ==
    LET k == hook[t].at
    IN  /\ hook[t].pc = "take"
        /\ offer[k].managed
        /\ ~SomeLeft(k)
        /\ hook' = [hook EXCEPT ![t].pc = "scan", ![t].at = None]
        /\ HookOnly

\* On to the parent directory.
Climb(t) ==
    /\ hook[t].pc = "scan"
    /\ hook[t].rest = {}
    /\ hook[t].level < Depth
    /\ Look(t, hook[t].level + 1, hook[t].since)
    /\ HookOnly

\* No ticket at any level, the root is reached, or the hook looks at the object
\* alone.
Refer(t) ==
    /\ hook[t].pc = "scan"
    /\ hook[t].rest = {}
    /\ Return(t)
    /\ HookOnly

-----------------------------------------------------------------------------
Command ==
    \/ \E k \in Ticket, o \in Offers : TicketAdd(k, o)
    \/ \E ok \in BOOLEAN : TicketInsert(ok)
    \/ PolicyPublish \/ PolicyFlush \/ SessionLost \/ SessionFlush

Collect ==
    GcWake \/ GcStart \/ (\E k \in Ticket : GcVisit(k)) \/ GcEnd

Lookup(t) ==
    \/ Enter(t)
    \/ \E k \in Ticket : Match(t, k) \/ Skip(t, k)
    \/ UseFreely(t) \/ UseUp(t) \/ PassOver(t) \/ Climb(t) \/ Refer(t)

Next == Command \/ Tick \/ Collect \/ \E t \in Task : Lookup(t)

Spec == Init /\ [][Next]_vars

\* The collector runs again a minute after it has ended, and commands that hold
\* the mutex come to an end.
FairSpec ==
    /\ Spec
    /\ WF_vars(Collect)
    /\ WF_vars(PolicyFlush)
    /\ WF_vars(\E ok \in BOOLEAN : TicketInsert(ok))

-----------------------------------------------------------------------------
(* Properties. *)

\* However many tasks use a ticket at once, no more operations go by it than it
\* was issued for (atomic_dec_if_positive after the check of uses_left).
BudgetKept ==
    \A k \in Ticket : offer[k] # None => used[k] <= offer[k].uses

\* teald hears of the end of a ticket at most once of each kind, though the
\* last use and the collector race: by CONSUMED the decrement that got to zero,
\* by EXPIRED the collector that removed it.
EndToldOnce == \A k \in Ticket, e \in End : told[k][e] <= 1

\* An operation goes by a ticket only if the ticket's epoch was in force at
\* some time since the operation began.  The cache may not be flushed yet, and
\* the lookup may see tickets that are: after a POLICY_UPDATE or the end of a
\* session no operation that begins goes by an earlier ticket.
UsedInForce ==
    \A t \in Task :
        hook[t].pc = "take" => epoch[hook[t].at] >= hook[t].since

\* The collector takes no ticket that could still be used.
CollectedOnlyDead ==
    [][\A k \in cache \ cache' :
           (epoch[k] = curEpoch /\ epoch[k] = curEpoch')
           => now > offer[k].ends \/ uses[k] = 0]_vars

\* A lookup that found a ticket valid is turned away from it only when all its
\* uses have gone to other operations; a number of uses that is negative as an
\* int, as teald's u32::MAX is (decision.rs:251), has none to give.
Serves(k) == IF offer[k].uses < Half THEN offer[k].uses ELSE 0

TurnedAwayWhenSpent ==
    [][\A t \in Task : PassOver(t) => used[hook[t].at] = Serves(hook[t].at)]_vars

\* Spent and expired tickets leave the cache in the end.
Dead(k) == k \in cache /\ (now > offer[k].ends \/ uses[k] = 0)
DeadCollected == \A k \in Ticket : Dead(k) ~> k \notin cache

\* "To stop the log storm for certain, unlimited": a ticket sent with u32::MAX
\* uses serves the operations it matches.
UnlimitedServes ==
    [][\A t \in Task : PassOver(t) =>
           offer[hook[t].at].uses # 2 * Half - 1]_vars

=============================================================================
