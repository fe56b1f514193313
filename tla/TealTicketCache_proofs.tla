----------------------- MODULE TealTicketCache_proofs -----------------------
(***************************************************************************)
(* Proofs about TealTicketCache, for any tasks, tickets, uses and epochs.  *)
(*                                                                         *)
(* CInv ties the counter of each ticket to the operations it let through,  *)
(* the tickets a lookup holds to the epochs since the lookup began, and    *)
(* the collector to the cache it walks under the mutex.                    *)
(***************************************************************************)
EXTENDS TealTicketCache, TLAPS

-----------------------------------------------------------------------------
(* The strengthening. *)

Issued(k) == offer[k] # None

\* Tickets are issued under published epochs, and only issued ones get about.
IssuedInv ==
    /\ curEpoch \in {0, lastEpoch}
    /\ \A k \in Ticket : Issued(k) => epoch[k] \in 1 .. lastEpoch
    /\ \A k \in cache : Issued(k)
    /\ holder = "add" => adding \in Ticket /\ Issued(adding)
    /\ holder = "add" => adding \notin cache
    /\ holder = "update" => \A k \in cache : epoch[k] < lastEpoch

\* What a ticket has left is what it was issued with, less what it gave.
BudgetInv ==
    \A k \in Ticket :
        /\ ~Issued(k) => used[k] = 0
        /\ Issued(k) => uses[k] = AsInt(offer[k].uses) - used[k]
        /\ used[k] > 0 => uses[k] >= 0

\* The entries a lookup looks at were issued; the epoch in force, if any, is
\* one of those since it began.
HookInv ==
    \A t \in Task :
        /\ hook[t].pc # "idle" => /\ hook[t].since <= lastEpoch + 1
                                  /\ curEpoch # 0 => hook[t].since <= curEpoch
        /\ \A k \in hook[t].rest : Issued(k)
        /\ hook[t].pc = "take" => /\ hook[t].at \in Ticket
                                  /\ Issued(hook[t].at)
                                  /\ epoch[hook[t].at] >= hook[t].since

\* The collector runs alone in the cache, with a clock that may be slow and an
\* epoch that may have been revoked, but not replaced.
GcInv ==
    /\ gc.now <= now
    /\ gc.pc = "run" <=> holder = "gc"
    /\ gc.pc = "run" => curEpoch \in {0, gc.epoch}
    /\ gc.todo \subseteq cache
    /\ gc.pc # "run" => gc.todo = {} /\ gc.log = {}

\* A ticket whose end is told, or about to be, has ended.
ToldInv ==
    \A k \in Ticket :
        /\ told[k]["spent"] <= 1
        /\ told[k]["spent"] = 1 => Issued(k) /\ uses[k] = 0
        /\ told[k]["expired"] <= 1
        /\ told[k]["expired"] = 1 => k \notin gc.log
        /\ told[k]["expired"] = 1 \/ k \in gc.log =>
               /\ Issued(k)
               /\ k \notin cache
               /\ holder = "add" => k # adding

CInv ==
    /\ TypeOK
    /\ IssuedInv
    /\ BudgetInv
    /\ HookInv
    /\ GcInv
    /\ ToldInv

-----------------------------------------------------------------------------
LEMMA AsIntType ==
    ASSUME NEW u \in 0 .. 2 * Half - 1
    PROVE  /\ AsInt(u) \in (-Half) .. (Half - 1)
           /\ AsInt(u) <= u
           /\ u < Half => AsInt(u) = u
BY CacheAssumption DEF AsInt

LEMMA OfferFields ==
    ASSUME NEW o \in Offers
    PROVE  /\ o.uses \in 0 .. 2 * Half - 1
           /\ o.ends \in 0 .. MaxTime
           /\ o.managed \in BOOLEAN
           /\ o # None
BY CacheAssumption DEF Offer

LEMMA InitCInv == Init => CInv
<1>. SUFFICES ASSUME Init PROVE CInv
  OBVIOUS
<1>1. TypeOK
  <2>1. Idle \in Hooks
    BY CacheAssumption, MaxEpochAssumption DEF Idle, Hooks
  <2>2. Resting \in Collector
    BY CacheAssumption, MaxEpochAssumption DEF Resting, Collector
  <2>3. uses \in [Ticket -> (-Half) .. (Half - 1)]
    BY CacheAssumption DEF Init
  <2>4. told \in [Ticket -> [End -> Nat]] /\ used \in [Ticket -> Nat]
    BY DEF Init
  <2>5. flushDue \in BOOLEAN
    BY DEF Init, ClockInit
  <2>6. ClockTypeOK /\ epoch \in [Ticket -> 0 .. MaxEpoch]
    BY <2>5, MaxEpochAssumption DEF Init, ClockInit, ClockTypeOK
  <2>7. now \in 0 .. MaxTime
    BY CacheAssumption DEF Init
  <2>8. hook \in [Task -> Hooks] /\ gc \in Collector
    BY <2>1, <2>2 DEF Init
  <2>. QED
    BY <2>3, <2>4, <2>6, <2>7, <2>8 DEF Init, TypeOK
<1>. QED
  BY <1>1, CacheAssumption DEF Init, ClockInit, CInv, IssuedInv, BudgetInv,
     HookInv, GcInv, ToldInv, Issued, Idle, Resting, End

\* Steps of a hook that touch neither a counter nor the cache.
LEMMA HookStepCInv ==
    ASSUME CInv, HookOnly, hook' \in [Task -> Hooks], HookInv'
    PROVE  CInv'
<1>1. TypeOK'
  BY DEF CInv, TypeOK, ClockTypeOK, HookOnly, clockVars, cacheVars
<1>2. IssuedInv'
  BY DEF CInv, IssuedInv, Issued, HookOnly, clockVars, cacheVars
<1>3. BudgetInv'
  BY DEF CInv, BudgetInv, Issued, HookOnly, clockVars, cacheVars
<1>4. GcInv'
  BY DEF CInv, GcInv, HookOnly, clockVars, cacheVars
<1>5. ToldInv'
  BY DEF CInv, ToldInv, Issued, HookOnly, clockVars, cacheVars
<1>. QED
  BY <1>1, <1>2, <1>3, <1>4, <1>5 DEF CInv

LEMMA LookCInv ==
    ASSUME CInv, NEW t \in Task, NEW l \in 0 .. Depth,
           NEW s \in 0 .. MaxEpoch + 1, Look(t, l, s), HookOnly,
           s <= lastEpoch + 1, curEpoch # 0 => s <= curEpoch
    PROVE  CInv'
<1>1. hook' \in [Task -> Hooks]
  BY CacheAssumption DEF CInv, TypeOK, Look, Hooks
<1>2. HookInv'
  BY DEF CInv, TypeOK, IssuedInv, HookInv, Issued, Look, HookOnly, clockVars,
     cacheVars
<1>. QED
  BY <1>1, <1>2, HookStepCInv

LEMMA ReturnCInv ==
    ASSUME CInv, NEW t \in Task, Return(t), HookOnly
    PROVE  CInv'
<1>1. hook' \in [Task -> Hooks]
  BY CacheAssumption, MaxEpochAssumption DEF CInv, TypeOK, Return, Hooks, Idle
<1>2. HookInv'
  BY DEF CInv, TypeOK, HookInv, Issued, Return, Idle, HookOnly, clockVars,
     cacheVars
<1>. QED
  BY <1>1, <1>2, HookStepCInv

-----------------------------------------------------------------------------
(* Each action keeps it. *)

LEMMA TicketAddCInv ==
    ASSUME CInv, NEW k \in Ticket, NEW o \in Offers, TicketAdd(k, o)
    PROVE  CInv'
<1>1. TypeOK'
  <2>1. AsInt(o.uses) \in (-Half) .. (Half - 1)
    BY OfferFields, AsIntType
  <2>2. uses' \in [Ticket -> (-Half) .. (Half - 1)]
    BY <2>1 DEF CInv, TypeOK, TicketAdd
  <2>3. epoch' \in [Ticket -> 0 .. MaxEpoch]
    BY DEF CInv, TypeOK, ClockTypeOK, TicketAdd
  <2>4. /\ ClockTypeOK'
        /\ holder' = "add"
    BY DEF CInv, TypeOK, ClockTypeOK, TicketAdd, Lock, clockVars
  <2>5. /\ adding' \in Ticket \cup {None}
        /\ offer' \in [Ticket -> Offers \cup {None}]
    BY DEF CInv, TypeOK, TicketAdd
  <2>. QED
    BY <2>2, <2>3, <2>4, <2>5 DEF CInv, TypeOK, TicketAdd
<1>2. IssuedInv'
  <2>1. o # None
    BY OfferFields
  <2>2. lastEpoch \in Nat /\ curEpoch \in 1 .. lastEpoch
    BY MaxEpochAssumption DEF CInv, TypeOK, ClockTypeOK, IssuedInv, TicketAdd
  <2>. QED
    BY <2>1, <2>2 DEF CInv, TypeOK, IssuedInv, Issued, TicketAdd, Lock,
       clockVars
<1>3. BudgetInv'
  <2>1. o # None /\ AsInt(o.uses) \in Int
    BY OfferFields, AsIntType
  <2>. QED
    BY <2>1 DEF CInv, TypeOK, BudgetInv, Issued, TicketAdd
<1>4. HookInv'
  BY DEF CInv, TypeOK, IssuedInv, HookInv, Issued, TicketAdd, Lock, clockVars
<1>5. GcInv'
  BY DEF CInv, TypeOK, IssuedInv, GcInv, TicketAdd, Lock, clockVars
<1>6. ToldInv'
  BY DEF CInv, TypeOK, IssuedInv, ToldInv, GcInv, Issued, End, TicketAdd, Lock,
     clockVars
<1>. QED
  BY <1>1, <1>2, <1>3, <1>4, <1>5, <1>6 DEF CInv

LEMMA TicketInsertCInv ==
    ASSUME CInv, NEW ok \in BOOLEAN, TicketInsert(ok)
    PROVE  CInv'
<1>1. TypeOK'
  BY DEF CInv, TypeOK, IssuedInv, ClockTypeOK, TicketInsert, clockVars
<1>2. IssuedInv'
  BY DEF CInv, TypeOK, IssuedInv, Issued, TicketInsert, clockVars
<1>3. BudgetInv'
  BY DEF CInv, TypeOK, IssuedInv, BudgetInv, Issued, TicketInsert, clockVars
<1>4. HookInv'
  BY DEF CInv, TypeOK, IssuedInv, HookInv, Issued, TicketInsert, clockVars
<1>5. GcInv'
  BY DEF CInv, TypeOK, IssuedInv, GcInv, TicketInsert, clockVars
<1>6. ToldInv'
  BY DEF CInv, TypeOK, IssuedInv, ToldInv, GcInv, Issued, End, TicketInsert,
     clockVars
<1>. QED
  BY <1>1, <1>2, <1>3, <1>4, <1>5, <1>6 DEF CInv

LEMMA PolicyPublishCInv ==
    ASSUME CInv, PolicyPublish
    PROVE  CInv'
<1>1. TypeOK'
  BY CacheAssumption, MaxEpochAssumption DEF CInv, TypeOK, ClockTypeOK,
     Collector, Hooks, PolicyPublish, Lock, Publish
<1>2. IssuedInv'
  BY DEF CInv, TypeOK, ClockTypeOK, IssuedInv, Issued, PolicyPublish, Lock,
     Publish
<1>3. BudgetInv'
  BY DEF CInv, TypeOK, IssuedInv, BudgetInv, Issued, PolicyPublish, Lock,
     Publish
<1>4. HookInv'
  BY MaxEpochAssumption DEF CInv, TypeOK, ClockTypeOK, Hooks, HookInv, Issued,
     PolicyPublish, Publish
<1>5. GcInv'
  BY DEF CInv, TypeOK, IssuedInv, GcInv, PolicyPublish, Lock, Publish
<1>6. ToldInv'
  BY DEF CInv, TypeOK, IssuedInv, ToldInv, GcInv, Issued, End, PolicyPublish,
     Lock, Publish
<1>. QED
  BY <1>1, <1>2, <1>3, <1>4, <1>5, <1>6 DEF CInv

LEMMA PolicyFlushCInv ==
    ASSUME CInv, PolicyFlush
    PROVE  CInv'
<1>1. TypeOK'
  BY CacheAssumption, MaxEpochAssumption DEF CInv, TypeOK, ClockTypeOK,
     Collector, Hooks, PolicyFlush, FlushDone, Empty
<1>2. IssuedInv'
  BY DEF CInv, TypeOK, IssuedInv, Issued, PolicyFlush, FlushDone, Empty
<1>3. BudgetInv'
  BY DEF CInv, TypeOK, IssuedInv, BudgetInv, Issued, PolicyFlush, FlushDone,
     Empty
<1>4. HookInv'
  BY DEF CInv, TypeOK, IssuedInv, HookInv, Issued, PolicyFlush, FlushDone,
     Empty
<1>5. GcInv'
  BY DEF CInv, TypeOK, IssuedInv, GcInv, PolicyFlush, FlushDone, Empty
<1>6. ToldInv'
  BY DEF CInv, TypeOK, IssuedInv, ToldInv, GcInv, Issued, End, PolicyFlush,
     FlushDone, Empty
<1>. QED
  BY <1>1, <1>2, <1>3, <1>4, <1>5, <1>6 DEF CInv

LEMMA SessionLostCInv ==
    ASSUME CInv, SessionLost
    PROVE  CInv'
<1>1. TypeOK'
  BY CacheAssumption, MaxEpochAssumption DEF CInv, TypeOK, ClockTypeOK,
     Collector, Hooks, SessionLost, Revoke, cacheVars
<1>2. IssuedInv'
  BY DEF CInv, TypeOK, IssuedInv, Issued, SessionLost, Revoke, cacheVars
<1>3. BudgetInv'
  BY DEF CInv, TypeOK, IssuedInv, BudgetInv, Issued, SessionLost, Revoke,
     cacheVars
<1>4. HookInv'
  BY DEF CInv, TypeOK, IssuedInv, HookInv, Issued, SessionLost, Revoke,
     cacheVars
<1>5. GcInv'
  BY DEF CInv, TypeOK, IssuedInv, GcInv, SessionLost, Revoke, cacheVars
<1>6. ToldInv'
  BY DEF CInv, TypeOK, IssuedInv, ToldInv, GcInv, Issued, End, SessionLost,
     Revoke, cacheVars
<1>. QED
  BY <1>1, <1>2, <1>3, <1>4, <1>5, <1>6 DEF CInv

LEMMA SessionFlushCInv ==
    ASSUME CInv, SessionFlush
    PROVE  CInv'
<1>1. TypeOK'
  BY CacheAssumption, MaxEpochAssumption DEF CInv, TypeOK, ClockTypeOK,
     Collector, Hooks, SessionFlush, FlushDone, Empty
<1>2. IssuedInv'
  BY DEF CInv, TypeOK, IssuedInv, Issued, SessionFlush, FlushDone, Empty
<1>3. BudgetInv'
  BY DEF CInv, TypeOK, IssuedInv, BudgetInv, Issued, SessionFlush, FlushDone,
     Empty
<1>4. HookInv'
  BY DEF CInv, TypeOK, IssuedInv, HookInv, Issued, SessionFlush, FlushDone,
     Empty
<1>5. GcInv'
  BY DEF CInv, TypeOK, IssuedInv, GcInv, SessionFlush, FlushDone, Empty
<1>6. ToldInv'
  BY DEF CInv, TypeOK, IssuedInv, ToldInv, GcInv, Issued, End, SessionFlush,
     FlushDone, Empty
<1>. QED
  BY <1>1, <1>2, <1>3, <1>4, <1>5, <1>6 DEF CInv

LEMMA TickCInv ==
    ASSUME CInv, Tick
    PROVE  CInv'
<1>1. TypeOK'
  BY CacheAssumption, MaxEpochAssumption DEF CInv, TypeOK, ClockTypeOK,
     Collector, Hooks, Tick, clockVars, cacheVars
<1>2. IssuedInv'
  BY DEF CInv, TypeOK, IssuedInv, Issued, Tick, clockVars, cacheVars
<1>3. BudgetInv'
  BY DEF CInv, TypeOK, IssuedInv, BudgetInv, Issued, Tick, clockVars, cacheVars
<1>4. HookInv'
  BY DEF CInv, TypeOK, IssuedInv, HookInv, Issued, Tick, clockVars, cacheVars
<1>5. GcInv'
  BY CacheAssumption DEF CInv, TypeOK, Collector, GcInv, Tick, clockVars,
     cacheVars
<1>6. ToldInv'
  BY DEF CInv, TypeOK, IssuedInv, ToldInv, GcInv, Issued, End, Tick, clockVars,
     cacheVars
<1>. QED
  BY <1>1, <1>2, <1>3, <1>4, <1>5, <1>6 DEF CInv

LEMMA GcWakeCInv ==
    ASSUME CInv, GcWake
    PROVE  CInv'
<1>1. TypeOK'
  BY CacheAssumption, MaxEpochAssumption DEF CInv, TypeOK, ClockTypeOK,
     Collector, Hooks, GcWake, clockVars, cacheVars
<1>2. IssuedInv'
  BY DEF CInv, TypeOK, IssuedInv, GcInv, Issued, GcWake, clockVars, cacheVars
<1>3. BudgetInv'
  BY DEF CInv, TypeOK, IssuedInv, BudgetInv, Issued, GcWake, clockVars,
     cacheVars
<1>4. HookInv'
  BY DEF CInv, TypeOK, IssuedInv, HookInv, Issued, GcWake, clockVars, cacheVars
<1>5. GcInv'
  BY DEF CInv, TypeOK, IssuedInv, GcInv, GcWake, clockVars, cacheVars
<1>6. ToldInv'
  BY DEF CInv, TypeOK, IssuedInv, ToldInv, GcInv, Issued, End, GcWake,
     clockVars, cacheVars
<1>. QED
  BY <1>1, <1>2, <1>3, <1>4, <1>5, <1>6 DEF CInv

LEMMA GcStartCInv ==
    ASSUME CInv, GcStart
    PROVE  CInv'
<1>1. TypeOK'
  BY CacheAssumption, MaxEpochAssumption DEF CInv, TypeOK, ClockTypeOK,
     Collector, Hooks, GcStart, Lock, clockVars
<1>2. IssuedInv'
  BY DEF CInv, TypeOK, IssuedInv, GcInv, Issued, GcStart, Lock, clockVars
<1>3. BudgetInv'
  BY DEF CInv, TypeOK, IssuedInv, BudgetInv, Issued, GcStart, Lock, clockVars
<1>4. HookInv'
  BY DEF CInv, TypeOK, IssuedInv, HookInv, Issued, GcStart, Lock, clockVars
<1>5. GcInv'
  BY DEF CInv, TypeOK, IssuedInv, GcInv, GcStart, Lock, clockVars
<1>6. ToldInv'
  BY DEF CInv, TypeOK, IssuedInv, ToldInv, GcInv, Issued, End, GcStart, Lock,
     clockVars
<1>. QED
  BY <1>1, <1>2, <1>3, <1>4, <1>5, <1>6 DEF CInv

LEMMA GcVisitCInv ==
    ASSUME CInv, NEW k \in Ticket, GcVisit(k)
    PROVE  CInv'
<1>1. TypeOK'
  BY CacheAssumption, MaxEpochAssumption DEF CInv, TypeOK, ClockTypeOK,
     Collector, Hooks, GcVisit, GcReports, GcDead, GcExpired, clockVars
<1>2. IssuedInv'
  BY DEF CInv, TypeOK, IssuedInv, GcInv, Issued, GcVisit, GcReports, GcDead,
     GcExpired, clockVars
<1>3. BudgetInv'
  BY DEF CInv, TypeOK, IssuedInv, BudgetInv, Issued, GcVisit, GcReports,
     GcDead, GcExpired, clockVars
<1>4. HookInv'
  BY DEF CInv, TypeOK, IssuedInv, HookInv, Issued, GcVisit, GcReports, GcDead,
     GcExpired, clockVars
<1>5. GcInv'
  BY DEF CInv, TypeOK, IssuedInv, GcInv, GcVisit, GcReports, GcDead, GcExpired,
     clockVars
<1>6. ToldInv'
  BY DEF CInv, TypeOK, IssuedInv, ToldInv, GcInv, Issued, End, GcVisit,
     GcReports, GcDead, GcExpired, clockVars
<1>. QED
  BY <1>1, <1>2, <1>3, <1>4, <1>5, <1>6 DEF CInv

LEMMA GcEndCInv ==
    ASSUME CInv, GcEnd
    PROVE  CInv'
<1>1. TypeOK'
  <2>1. Resting \in Collector
    BY CacheAssumption, MaxEpochAssumption DEF Resting, Collector
  <2>2. told' \in [Ticket -> [End -> Nat]]
    BY DEF CInv, TypeOK, End, GcEnd
  <2>. QED
    BY <2>1, <2>2 DEF CInv, TypeOK, ClockTypeOK, GcEnd, clockVars
<1>2. IssuedInv'
  BY DEF CInv, TypeOK, IssuedInv, GcInv, Issued, GcEnd, Resting, clockVars
<1>3. BudgetInv'
  BY DEF CInv, TypeOK, IssuedInv, BudgetInv, Issued, GcEnd, Resting, clockVars
<1>4. HookInv'
  BY DEF CInv, TypeOK, IssuedInv, HookInv, Issued, GcEnd, Resting, clockVars
<1>5. GcInv'
  BY DEF CInv, TypeOK, IssuedInv, GcInv, GcEnd, Resting, clockVars
<1>6. ToldInv'
  BY DEF CInv, TypeOK, IssuedInv, ToldInv, GcInv, Issued, End, GcEnd, Resting,
     clockVars
<1>. QED
  BY <1>1, <1>2, <1>3, <1>4, <1>5, <1>6 DEF CInv

LEMMA UseUpCInv ==
    ASSUME CInv, NEW t \in Task, UseUp(t)
    PROVE  CInv'
<1>1. TypeOK'
  <2>1. hook' \in [Task -> Hooks]
    BY CacheAssumption, MaxEpochAssumption DEF CInv, TypeOK, UseUp, Return,
       Hooks, Idle
  <2>. DEFINE j == hook[t].at
  <2>0. /\ j \in Ticket
        /\ uses[j] \in 1 .. Half - 1
        /\ uses' = [uses EXCEPT ![j] = uses[j] - 1]
        /\ used' = [used EXCEPT ![j] = used[j] + 1]
    BY CacheAssumption DEF CInv, TypeOK, HookInv, UseUp, SomeLeft
  <2>2. uses' \in [Ticket -> (-Half) .. (Half - 1)]
    BY <2>0, CacheAssumption DEF CInv, TypeOK
  <2>3. used' \in [Ticket -> Nat]
    BY <2>0 DEF CInv, TypeOK
  <2>4. told' \in [Ticket -> [End -> Nat]]
    <3>1. told \in [Ticket -> [End -> Nat]]
      BY DEF CInv, TypeOK
    <3>2. CASE told' = [told EXCEPT ![j]["spent"] = @ + 1]
      BY <2>0, <3>1, <3>2 DEF End
    <3>3. CASE told' = told
      BY <3>1, <3>3
    <3>. QED
      BY <3>2, <3>3 DEF UseUp
  <2>. QED
    BY <2>1, <2>2, <2>3, <2>4 DEF CInv, TypeOK, ClockTypeOK, UseUp, clockVars
<1>2. IssuedInv'
  BY DEF CInv, TypeOK, IssuedInv, Issued, UseUp, SomeLeft, Return, Idle,
     clockVars
<1>3. BudgetInv'
  <2>. DEFINE j == hook[t].at
  <2>1. j \in Ticket /\ Issued(j)
    BY DEF CInv, HookInv, UseUp
  <2>2. offer[j] \in Offers /\ AsInt(offer[j].uses) \in Int
    BY <2>1, OfferFields, AsIntType, CacheAssumption DEF CInv, TypeOK, Issued
  <2>3. uses[j] \in Int /\ uses[j] > 0 /\ used[j] \in Nat
    BY <2>1, CacheAssumption DEF CInv, TypeOK, UseUp, SomeLeft
  <2>4. /\ uses' = [uses EXCEPT ![j] = uses[j] - 1]
        /\ used' = [used EXCEPT ![j] = used[j] + 1]
        /\ offer' = offer
    BY DEF UseUp
  <2>5. ASSUME NEW i \in Ticket, i # j
        PROVE  uses'[i] = uses[i] /\ used'[i] = used[i]
    BY <2>4, <2>5 DEF CInv, TypeOK
  <2>6. uses'[j] = uses[j] - 1 /\ used'[j] = used[j] + 1
    BY <2>1, <2>4 DEF CInv, TypeOK
  <2>7. uses[j] = AsInt(offer[j].uses) - used[j]
    BY <2>1 DEF CInv, BudgetInv
  <2>8. uses'[j] = AsInt(offer[j].uses) - used'[j] /\ uses'[j] >= 0
    BY <2>2, <2>3, <2>6, <2>7
  <2>. QED
    BY <2>1, <2>4, <2>5, <2>8 DEF CInv, BudgetInv, Issued
<1>4. HookInv'
  BY DEF CInv, TypeOK, IssuedInv, HookInv, Issued, UseUp, SomeLeft, Return,
     Idle, clockVars
<1>5. GcInv'
  BY DEF CInv, TypeOK, IssuedInv, GcInv, UseUp, SomeLeft, Return, Idle,
     clockVars
<1>6. ToldInv'
  <2>. DEFINE j == hook[t].at
  <2>1. /\ j \in Ticket /\ Issued(j)
        /\ uses[j] \in Int /\ uses[j] > 0
        /\ uses'[j] = uses[j] - 1
    BY CacheAssumption DEF CInv, TypeOK, HookInv, UseUp, SomeLeft
  <2>2. told[j]["spent"] = 0
    <3>1. told[j] \in [End -> Nat]
      BY <2>1 DEF CInv, TypeOK
    <3>2. told[j]["spent"] \in Nat
      BY <3>1 DEF End
    <3>. QED
      BY <2>1, <3>2 DEF CInv, ToldInv
  <2>3. \A i \in Ticket : i # j => uses'[i] = uses[i] /\ told'[i] = told[i]
    BY DEF CInv, TypeOK, UseUp
  <2>4. /\ told'[j]["expired"] = told[j]["expired"]
        /\ told'[j]["spent"] = 0 \/ (told'[j]["spent"] = 1 /\ uses[j] = 1)
    BY <2>1, <2>2 DEF CInv, TypeOK, End, UseUp
  <2>5. UNCHANGED <<offer, cache, holder, adding, gc>>
    BY DEF UseUp
  <2>. QED
    BY <2>1, <2>3, <2>4, <2>5 DEF CInv, ToldInv, Issued
<1>. QED
  BY <1>1, <1>2, <1>3, <1>4, <1>5, <1>6 DEF CInv

LEMMA HookCInv ==
    ASSUME CInv, NEW t \in Task, Lookup(t)
    PROVE  CInv'
<1>1. CASE Enter(t)
  <2>. DEFINE s == IF curEpoch = 0 THEN lastEpoch + 1 ELSE curEpoch
  <2>1. /\ s \in 0 .. MaxEpoch + 1
        /\ s <= lastEpoch + 1
        /\ curEpoch # 0 => s <= curEpoch
    BY MaxEpochAssumption DEF CInv, TypeOK, ClockTypeOK, IssuedInv
  <2>. QED
    BY <1>1, <2>1, LookCInv, CacheAssumption DEF Enter
<1>2. CASE \E k \in Ticket : Match(t, k)
  <2>1. PICK k \in Ticket : Match(t, k)
    BY <1>2
  <2>2. hook' \in [Task -> Hooks]
    BY <2>1 DEF CInv, TypeOK, Match, Hooks
  <2>3. HookInv'
    BY <2>1 DEF CInv, TypeOK, Hooks, HookInv, Issued, Match, Matches, HookOnly,
       clockVars, cacheVars
  <2>. QED
    BY <2>1, <2>2, <2>3, HookStepCInv DEF Match
<1>3. CASE \E k \in Ticket : Skip(t, k)
  <2>1. PICK k \in Ticket : Skip(t, k)
    BY <1>3
  <2>2. hook' \in [Task -> Hooks]
    BY <2>1 DEF CInv, TypeOK, Skip, Hooks
  <2>3. HookInv'
    BY <2>1 DEF CInv, TypeOK, Hooks, HookInv, Issued, Skip, HookOnly,
       clockVars, cacheVars
  <2>. QED
    BY <2>1, <2>2, <2>3, HookStepCInv DEF Skip
<1>4. CASE UseFreely(t) \/ Refer(t)
  BY <1>4, ReturnCInv DEF UseFreely, Refer
<1>5. CASE UseUp(t)
  BY <1>5, UseUpCInv
<1>6. CASE PassOver(t)
  <2>. DEFINE h == [hook[t] EXCEPT !.pc = "scan", !.at = None]
  <2>0. h \in Hooks
    BY DEF CInv, TypeOK, Hooks
  <2>1. hook' \in [Task -> Hooks]
    <3>1. hook' = [hook EXCEPT ![t] = h]
      BY <1>6, Zenon DEF PassOver
    <3>. QED
      BY <2>0, <3>1 DEF CInv, TypeOK
  <2>2. HookInv'
    BY <1>6 DEF CInv, TypeOK, Hooks, HookInv, Issued, PassOver, HookOnly,
       clockVars, cacheVars
  <2>. QED
    BY <1>6, <2>1, <2>2, HookStepCInv DEF PassOver
<1>7. CASE Climb(t)
  <2>1. /\ hook[t].level + 1 \in 0 .. Depth
        /\ hook[t].since \in 0 .. MaxEpoch + 1
    BY <1>7, CacheAssumption DEF CInv, TypeOK, Hooks, Climb
  <2>2. /\ hook[t].since <= lastEpoch + 1
        /\ curEpoch # 0 => hook[t].since <= curEpoch
    BY <1>7 DEF CInv, HookInv, Climb
  <2>. QED
    BY <1>7, <2>1, <2>2, LookCInv DEF Climb
<1>. QED
  BY <1>1, <1>2, <1>3, <1>4, <1>5, <1>6, <1>7 DEF Lookup

LEMMA NextCInv == CInv /\ [Next]_vars => CInv'
<1>. SUFFICES ASSUME CInv, [Next]_vars PROVE CInv'
  OBVIOUS
<1>1. CASE Command
  BY <1>1, TicketAddCInv, TicketInsertCInv, PolicyPublishCInv, PolicyFlushCInv,
     SessionLostCInv, SessionFlushCInv DEF Command
<1>2. CASE Collect
  BY <1>2, GcWakeCInv, GcStartCInv, GcVisitCInv, GcEndCInv DEF Collect
<1>3. CASE Tick
  BY <1>3, TickCInv
<1>4. CASE \E t \in Task : Lookup(t)
  BY <1>4, HookCInv
<1>5. CASE UNCHANGED vars
  <2>1. HookOnly /\ hook' = hook
    BY <1>5 DEF vars, HookOnly
  <2>2. HookInv'
    BY <2>1 DEF CInv, HookInv, Issued, HookOnly, clockVars, cacheVars
  <2>. QED
    BY <2>1, <2>2, HookStepCInv DEF CInv, TypeOK
<1>. QED
  BY <1>1, <1>2, <1>3, <1>4, <1>5 DEF Next

\* The strengthening is an invariant of the fast path.
THEOREM CInvHolds == Spec => []CInv
<1>. QED
  BY InitCInv, NextCInv, PTL DEF Spec

-----------------------------------------------------------------------------
(* What follows from the invariant. *)

\* The model keeps its types: the counter of a ticket stays an int.
THEOREM CacheTypeCorrect == Spec => []TypeOK
<1>1. CInv => TypeOK
  BY DEF CInv
<1>. QED
  BY <1>1, CInvHolds, PTL

\* No ticket lets more operations through than it was issued for, whatever the
\* number of tasks that use it at once.
THEOREM BudgetsAreKept == Spec => []BudgetKept
<1>1. ASSUME CInv, NEW k \in Ticket, offer[k] # None
      PROVE  used[k] <= offer[k].uses
  <2>1. /\ offer[k].uses \in 0 .. 2 * Half - 1
        /\ AsInt(offer[k].uses) \in Int
        /\ AsInt(offer[k].uses) <= offer[k].uses
    BY <1>1, OfferFields, AsIntType, CacheAssumption DEF CInv, TypeOK
  <2>2. used[k] \in Nat /\ uses[k] \in Int
    BY <1>1, CacheAssumption DEF CInv, TypeOK
  <2>3. /\ uses[k] = AsInt(offer[k].uses) - used[k]
        /\ used[k] > 0 => uses[k] >= 0
    BY <1>1 DEF CInv, BudgetInv, Issued
  <2>. QED
    BY <2>1, <2>2, <2>3, CacheAssumption
<1>2. CInv => BudgetKept
  BY <1>1 DEF BudgetKept
<1>. QED
  BY <1>2, CInvHolds, PTL

\* No operation goes by a ticket whose epoch was over before it began.
THEOREM TicketsUsedInForce == Spec => []UsedInForce
<1>1. CInv => UsedInForce
  BY DEF CInv, HookInv, UsedInForce
<1>. QED
  BY <1>1, CInvHolds, PTL

\* Each kind of end of a ticket is reported once at most.
THEOREM EndsToldOnce == Spec => []EndToldOnce
<1>1. CInv => EndToldOnce
  BY DEF CInv, ToldInv, EndToldOnce, End
<1>. QED
  BY <1>1, CInvHolds, PTL

\* The collector, and the flush of a replaced policy, take no ticket that an
\* operation could still go by.
THEOREM OnlyDeadCollected == Spec => CollectedOnlyDead
<1>1. ASSUME CInv, [Next]_vars, NEW k \in cache \ cache',
             epoch[k] = curEpoch, epoch[k] = curEpoch'
      PROVE  now > offer[k].ends \/ uses[k] = 0
  <2>1. /\ k \in Ticket /\ k \in cache /\ Issued(k)
        /\ epoch[k] \in 1 .. lastEpoch
        /\ lastEpoch \in Nat
    BY <1>1, MaxEpochAssumption DEF CInv, TypeOK, ClockTypeOK, IssuedInv
  <2>2. CASE PolicyFlush
    BY <2>1, <2>2, <1>1 DEF PolicyFlush, CInv, IssuedInv
  <2>3. CASE SessionFlush
    BY <2>1, <2>3, <1>1 DEF SessionFlush
  <2>4. CASE \E j \in Ticket : GcVisit(j)
    <3>1. PICK j \in Ticket : GcVisit(j)
      BY <2>4
    <3>2. j = k /\ GcDead(k) /\ gc.pc = "run"
      BY <3>1, <2>1, <1>1 DEF GcVisit
    <3>3. curEpoch = gc.epoch
      BY <3>2, <2>1, <1>1 DEF CInv, GcInv
    <3>4. GcExpired(k) \/ uses[k] = 0
      BY <3>2, <3>3, <1>1 DEF GcDead
    <3>5. gc.now \in Nat /\ now \in Nat /\ gc.now <= now
      BY <1>1, CacheAssumption DEF CInv, TypeOK, Collector, GcInv
    <3>6. offer[k].ends \in Nat
      BY <2>1, <1>1, OfferFields, CacheAssumption DEF CInv, TypeOK, Issued
    <3>. QED
      BY <3>4, <3>5, <3>6 DEF GcExpired
  <2>5. CASE cache \subseteq cache'
    BY <2>1, <2>5, <1>1
  <2>6. ASSUME NEW t \in Task, Lookup(t)
        PROVE  cache \subseteq cache'
    BY <2>6 DEF Lookup, Enter, Match, Skip, UseFreely, UseUp, PassOver, Climb,
       Refer, HookOnly, cacheVars
  <2>. QED
    BY <1>1, <2>2, <2>3, <2>4, <2>5, <2>6 DEF Next, Command, Collect, Tick,
       TicketAdd, TicketInsert, PolicyPublish, SessionLost, GcWake, GcStart,
       GcEnd, cacheVars, vars
<1>2. CInv /\ [Next]_vars =>
        [\A k \in cache \ cache' :
             (epoch[k] = curEpoch /\ epoch[k] = curEpoch')
             => now > offer[k].ends \/ uses[k] = 0]_vars
  BY <1>1
<1>. QED
  BY <1>2, CInvHolds, PTL DEF Spec, CollectedOnlyDead

\* A lookup is turned away from a ticket only when as many operations went by
\* it as it was issued for, or when its uses are negative as an int: then no
\* operation ever goes by it.
THEOREM TurnedAwayOnlyWhenSpent == Spec => TurnedAwayWhenSpent
<1>1. ASSUME CInv, NEW t \in Task, PassOver(t)
      PROVE  used[hook[t].at] = Serves(hook[t].at)
  <2>. DEFINE k == hook[t].at
  <2>1. k \in Ticket /\ Issued(k)
    BY <1>1 DEF PassOver, CInv, HookInv
  <2>2. ~(uses[k] > 0)
    BY <1>1 DEF PassOver, SomeLeft
  <2>3. offer[k].uses \in 0 .. 2 * Half - 1
    BY <1>1, <2>1, OfferFields DEF CInv, TypeOK, Issued
  <2>4. AsInt(offer[k].uses) = IF offer[k].uses < Half THEN offer[k].uses
                               ELSE offer[k].uses - 2 * Half
    BY DEF AsInt
  <2>5. used[k] \in Nat /\ uses[k] \in Int
    BY <1>1, <2>1, CacheAssumption DEF CInv, TypeOK
  <2>6. /\ uses[k] = AsInt(offer[k].uses) - used[k]
        /\ used[k] > 0 => uses[k] >= 0
    BY <1>1, <2>1 DEF CInv, BudgetInv
  <2>7. CASE offer[k].uses < Half
    BY <2>2, <2>3, <2>4, <2>5, <2>6, <2>7, CacheAssumption DEF Serves
  <2>8. CASE ~(offer[k].uses < Half)
    BY <2>3, <2>4, <2>5, <2>6, <2>8, CacheAssumption DEF Serves
  <2>. QED
    BY <2>7, <2>8
<1>2. CInv /\ [Next]_vars =>
        [\A t \in Task : PassOver(t) =>
             used[hook[t].at] = Serves(hook[t].at)]_vars
  BY <1>1
<1>. QED
  BY <1>2, CInvHolds, PTL DEF Spec, TurnedAwayWhenSpent

=============================================================================
