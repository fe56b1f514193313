------------------------- MODULE TealHooks_proofs -------------------------
(***************************************************************************)
(* Proofs about what a hook does: it puts an operation to the daemon       *)
(* (TealControlLane), for any threads, events and requests, and it keeps the *)
(* privileges that a ticket gave a task (TealTaskMeta), for any tasks,     *)
(* programs, tickets and epochs.                                           *)
(*                                                                         *)
(* What a request comes to depends on its place between three parties: its *)
(* thread, the list under the spinlock, and the daemon.  LInv says, for    *)
(* each place a thread can be in, what holds of its request.  TInv follows *)
(* a ticket from the hook that finds it to the flags it leaves, and a      *)
(* program from the check of an exec to its commit.                        *)
(***************************************************************************)
EXTENDS TealControlLane, TealTaskMeta, TLAPS

-----------------------------------------------------------------------------
(***************************************************************************)
(* Requests: TealControlLane.                                              *)
(***************************************************************************)

-----------------------------------------------------------------------------
(* The strengthening. *)

\* A thread has a request exactly while one is listed for it, its own.
CurInv ==
    /\ \A t \in Thread : HasRequest(t) <=> cur[t] # 0
    /\ \A t \in Thread : HasRequest(t) => cur[t] \in list
    /\ \A t, u \in Thread : HasRequest(t) /\ HasRequest(u) /\ t # u
                                => cur[t] # cur[u]
    /\ \A t \in Thread : pc[t] # "idle" => todo[t] # 0

\* What was said and done about the request of each thread.
PlaceInv ==
    /\ \A t \in Thread : pc[t] = "send" =>
           cur[t] \notin sent /\ outcome[cur[t]] = "open"
    /\ \A t \in Thread : pc[t] = "wait" =>
           cur[t] \in sent /\ outcome[cur[t]] = "open"

\* Ids not handed out yet are untouched.
UnusedInv ==
    \A i \in Id : i > nextId =>
        /\ i \notin list
        /\ i \notin sent
        /\ decision[i] = "pending"
        /\ outcome[i] = "open"

\* The events of an operation that the loop has behind it were let through.
GroundsInv ==
    \A t \in Thread :
        /\ pc[t] # "idle" => ~passed[t] /\ todo[t] \in 1 .. events[t]
        /\ \A k \in 1 .. events[t] :
               passed[t] \/ (pc[t] # "idle" /\ k > todo[t]) =>
                   asked[t][k] \in Id /\ outcome[asked[t][k]] \in LetThrough

\* What waits undecided was sent under the policy in force, but for the time
\* between the publication of a policy and its flush.
FreshInv ==
    \A i \in Id : Open(i) /\ i \in sent /\ ~updating => i \in fresh

LInv ==
    /\ TypeOK
    /\ ListedWhileLive
    /\ CurInv
    /\ PlaceInv
    /\ UnusedInv
    /\ GroundsInv
    /\ FreshInv

-----------------------------------------------------------------------------
LEMMA InitLInv == Init => LInv
<1>. SUFFICES ASSUME Init PROVE LInv
  OBVIOUS
<1>1. TypeOK
  <2>1. /\ enforcing \in BOOLEAN
        /\ cleanup \in BOOLEAN
        /\ updating \in BOOLEAN
    BY DEF Init
  <2>. QED
    BY <2>1, LaneAssumption DEF Init, TypeOK, PC, Id, Outcomes
<1>. QED
  BY <1>1 DEF Init, LInv, ListedWhileLive, CurInv, HasRequest, PlaceInv,
     UnusedInv, GroundsInv, FreshInv, Open, Id

-----------------------------------------------------------------------------
(* The operation and its requests. *)

LEMMA EnterLInv ==
    ASSUME LInv, NEW t \in Thread, NEW n \in 1 .. MaxEvents, Enter(t, n)
    PROVE  LInv'
<1>0. /\ pc \in [Thread -> PC] /\ todo \in [Thread -> 0 .. MaxEvents]
      /\ cur \in [Thread -> 0 .. MaxId]
      /\ events \in [Thread -> 0 .. MaxEvents] /\ passed \in [Thread -> BOOLEAN]
      /\ asked \in [Thread -> [1 .. MaxEvents -> 0 .. MaxId]]
  BY DEF LInv, TypeOK
<1>1. /\ pc[t] = "idle" /\ pc' = [pc EXCEPT ![t] = "mode"]
      /\ todo' = [todo EXCEPT ![t] = n]
      /\ events' = [events EXCEPT ![t] = n]
      /\ asked' = [asked EXCEPT ![t] = [k \in 1 .. MaxEvents |-> 0]]
      /\ passed' = [passed EXCEPT ![t] = FALSE]
  BY DEF Enter, Goto
<1>2. UNCHANGED <<enforcing, link, cleanup, updating, sent, fresh, nextId, cur,
                  list, decision, outcome>>
  BY DEF Enter, linkVars, sentVars
<1>3. \A u \in Thread : HasRequest(u)' <=> HasRequest(u)
  BY <1>0, <1>1 DEF HasRequest
<1>4. TypeOK'
  <2>1. /\ pc' \in [Thread -> PC] /\ todo' \in [Thread -> 0 .. MaxEvents]
        /\ events' \in [Thread -> 0 .. MaxEvents]
        /\ passed' \in [Thread -> BOOLEAN]
    BY <1>0, <1>1, LaneAssumption DEF PC
  <2>2. asked' \in [Thread -> [1 .. MaxEvents -> 0 .. MaxId]]
    <3>1. [k \in 1 .. MaxEvents |-> 0] \in [1 .. MaxEvents -> 0 .. MaxId]
      BY LaneAssumption
    <3>. QED
      BY <1>0, <1>1, <3>1
  <2>. QED
    BY <1>2, <2>1, <2>2 DEF LInv, TypeOK
<1>5. ListedWhileLive'
  BY <1>2, <1>3 DEF LInv, ListedWhileLive
<1>6. CurInv'
  <2>1. \A u \in Thread : pc'[u] # "idle" => todo'[u] # 0
    BY <1>0, <1>1, LaneAssumption DEF LInv, CurInv
  <2>. QED
    BY <1>2, <1>3, <2>1 DEF LInv, CurInv
<1>7. PlaceInv'
  BY <1>0, <1>1, <1>2 DEF LInv, PlaceInv
<1>8. UnusedInv'
  BY <1>2 DEF LInv, UnusedInv
<1>9. GroundsInv'
  <2>1. ASSUME NEW u \in Thread, u # t
        PROVE  /\ pc'[u] = pc[u] /\ todo'[u] = todo[u] /\ events'[u] = events[u]
               /\ asked'[u] = asked[u] /\ passed'[u] = passed[u]
    BY <1>0, <1>1, <2>1
  <2>2. /\ pc'[t] = "mode" /\ todo'[t] = n /\ events'[t] = n
        /\ passed'[t] = FALSE
    BY <1>0, <1>1
  <2>3. \A k \in 1 .. n : ~(k > n) /\ n \in 1 .. n
    BY LaneAssumption
  <2>. QED
    BY <1>2, <2>1, <2>2, <2>3 DEF LInv, GroundsInv
<1>10. FreshInv'
  BY <1>2 DEF LInv, FreshInv, Open
<1>. QED
  BY <1>4, <1>5, <1>6, <1>7, <1>8, <1>9, <1>10 DEF LInv

\* The loop goes on, or ends: what it has behind it was let through.
LEMMA ProceedOps ==
    ASSUME TypeOK, CurInv, GroundsInv, NEW t \in Thread, pc[t] # "idle",
           NEW i \in 0 .. MaxId, NEW ok \in BOOLEAN, Proceed(t, i, ok),
           ok => i \in Id /\ outcome'[i] \in LetThrough,
           \A j \in Id : outcome[j] \in LetThrough => outcome'[j] = outcome[j]
    PROVE  /\ events' \in [Thread -> 0 .. MaxEvents]
           /\ asked' \in [Thread -> [1 .. MaxEvents -> 0 .. MaxId]]
           /\ passed' \in [Thread -> BOOLEAN]
           /\ GroundsInv'
<1> DEFINE n == todo[t]
<1>1. /\ events' = events /\ events \in [Thread -> 0 .. MaxEvents]
      /\ todo \in [Thread -> 0 .. MaxEvents] /\ MaxEvents \in Nat
      /\ pc \in [Thread -> PC] /\ passed \in [Thread -> BOOLEAN]
      /\ asked \in [Thread -> [1 .. MaxEvents -> 0 .. MaxId]]
  BY LaneAssumption DEF TypeOK, Proceed
<1>2. n \in 1 .. events[t] /\ events[t] \in 0 .. MaxEvents /\ n \in 1 .. MaxEvents
  BY <1>1 DEF GroundsInv
<1>3. /\ asked' \in [Thread -> [1 .. MaxEvents -> 0 .. MaxId]]
      /\ asked'[t][n] = i
      /\ \A k \in 1 .. MaxEvents : k # n => asked'[t][k] = asked[t][k]
      /\ \A u \in Thread : u # t => asked'[u] = asked[u]
  BY <1>1, <1>2 DEF Proceed
<1>4. /\ passed' \in [Thread -> BOOLEAN]
      /\ passed'[t] = ((~ok \/ n = 1) /\ ok)
      /\ \A u \in Thread : u # t => passed'[u] = passed[u]
  BY <1>1 DEF Proceed
<1>5. /\ pc'[t] = (IF ~ok \/ n = 1 THEN "idle" ELSE "mode")
      /\ todo'[t] = (IF ~ok \/ n = 1 THEN 0 ELSE n - 1)
      /\ \A u \in Thread : u # t => pc'[u] = pc[u] /\ todo'[u] = todo[u]
  BY <1>1 DEF Proceed
<1>6. ASSUME NEW k \in 1 .. events[t], k > n
      PROVE  asked[t][k] \in Id /\ outcome[asked[t][k]] \in LetThrough
  BY <1>6 DEF GroundsInv
<1>7. ASSUME NEW k \in 1 .. events[t], k >= n, ok
      PROVE  asked'[t][k] \in Id /\ outcome'[asked'[t][k]] \in LetThrough
  <2>1. CASE k = n
    BY <1>3, <1>7, <2>1
  <2>2. CASE k # n
    <3>1. k > n /\ k \in 1 .. MaxEvents
      BY <1>1, <1>2, <1>7, <2>2
    <3>. QED
      BY <1>3, <1>6, <2>2, <3>1
  <2>. QED
    BY <2>1, <2>2
<1> HIDE DEF n
<1>8. /\ pc'[t] # "idle" => ~passed'[t] /\ todo'[t] \in 1 .. events'[t]
      /\ \A k \in 1 .. events'[t] :
             passed'[t] \/ (pc'[t] # "idle" /\ k > todo'[t]) =>
                 asked'[t][k] \in Id /\ outcome'[asked'[t][k]] \in LetThrough
  <2>1. pc'[t] # "idle" => ~passed'[t] /\ todo'[t] \in 1 .. events'[t]
    BY <1>1, <1>2, <1>4, <1>5
  <2>2. ASSUME NEW k \in 1 .. events[t], passed'[t] \/ (pc'[t] # "idle" /\ k > todo'[t])
        PROVE  ok /\ k >= n
    BY <1>1, <1>2, <1>4, <1>5, <2>2
  <2>. QED
    BY <1>1, <1>7, <2>1, <2>2
<1>9. ASSUME NEW u \in Thread, u # t
      PROVE  /\ pc'[u] # "idle" => ~passed'[u] /\ todo'[u] \in 1 .. events'[u]
             /\ \A k \in 1 .. events'[u] :
                    passed'[u] \/ (pc'[u] # "idle" /\ k > todo'[u]) =>
                        asked'[u][k] \in Id /\ outcome'[asked'[u][k]] \in LetThrough
  <2>1. /\ pc'[u] = pc[u] /\ todo'[u] = todo[u] /\ events'[u] = events[u]
        /\ asked'[u] = asked[u] /\ passed'[u] = passed[u]
    BY <1>1, <1>3, <1>4, <1>5, <1>9
  <2>2. pc[u] # "idle" => ~passed[u] /\ todo[u] \in 1 .. events[u]
    BY DEF GroundsInv
  <2>3. ASSUME NEW k \in 1 .. events[u],
               passed[u] \/ (pc[u] # "idle" /\ k > todo[u])
        PROVE  asked[u][k] \in Id /\ outcome'[asked[u][k]] \in LetThrough
    BY <2>3 DEF GroundsInv
  <2>. QED
    BY <2>1, <2>2, <2>3
<1>10. GroundsInv'
  BY <1>8, <1>9 DEF GroundsInv
<1>. QED
  BY <1>1, <1>3, <1>4, <1>10

\* Requests that come out do not change what others came out as.
LEMMA SameOps ==
    ASSUME TypeOK, GroundsInv, UNCHANGED <<todo, opVars>>,
           \A u \in Thread : pc'[u] = "idle" <=> pc[u] = "idle",
           \A j \in Id : outcome[j] \in LetThrough => outcome'[j] = outcome[j]
    PROVE  GroundsInv'
BY DEF GroundsInv, opVars

LEMMA ReadModeLInv ==
    ASSUME LInv, NEW t \in Thread, ReadMode(t)
    PROVE  LInv'
<1>1. TypeOK'
  BY LaneAssumption DEF ReadMode, Goto, LInv, TypeOK, Id, PC, Outcomes,
     linkVars, sentVars, threadVars, opVars
<1>2. ListedWhileLive'
  BY LaneAssumption DEF ReadMode, Goto, LInv, TypeOK, Id, ListedWhileLive,
     HasRequest, CurInv, linkVars, sentVars, threadVars, opVars
<1>3. CurInv'
  BY LaneAssumption DEF ReadMode, Goto, LInv, TypeOK, Id, CurInv, HasRequest,
     PC, UnusedInv, linkVars, sentVars, threadVars, opVars
<1>4. PlaceInv'
  BY LaneAssumption DEF ReadMode, Goto, LInv, TypeOK, Id, PlaceInv, HasRequest,
     PC, CurInv, UnusedInv, linkVars, sentVars, threadVars, opVars
<1>5. UnusedInv'
  BY LaneAssumption DEF ReadMode, Goto, LInv, TypeOK, Id, UnusedInv,
     HasRequest, CurInv, linkVars, sentVars, threadVars, opVars
<1>6. GroundsInv'
  <2>1. UNCHANGED <<todo, opVars>>
    BY DEF ReadMode, Goto, threadVars, opVars
  <2>2. /\ \A u \in Thread : pc'[u] = "idle" <=> pc[u] = "idle"
        /\ \A j \in Id : outcome[j] \in LetThrough => outcome'[j] = outcome[j]
    BY DEF ReadMode, Goto, LInv, TypeOK, PlaceInv, LetThrough
  <2>. QED
    BY <2>1, <2>2, SameOps DEF LInv
<1>7. FreshInv'
  BY LaneAssumption DEF ReadMode, Goto, LInv, TypeOK, Id, FreshInv, Open,
     HasRequest, CurInv, UnusedInv, linkVars, sentVars, threadVars, opVars
<1>. QED
  BY <1>1, <1>2, <1>3, <1>4, <1>5, <1>6, <1>7 DEF LInv

LEMMA BuildFailsLInv ==
    ASSUME LInv, NEW t \in Thread, BuildFails(t)
    PROVE  LInv'
<1>8. /\ events' \in [Thread -> 0 .. MaxEvents]
      /\ asked' \in [Thread -> [1 .. MaxEvents -> 0 .. MaxId]]
      /\ passed' \in [Thread -> BOOLEAN]
      /\ GroundsInv'
  <2>1. Proceed(t, 0, FALSE) /\ pc[t] # "idle"
    BY DEF BuildFails
  <2>2. /\ \A j \in Id : outcome[j] \in LetThrough => outcome'[j] = outcome[j]
        /\ FALSE => 0 \in Id /\ outcome'[0] \in LetThrough
    BY LaneAssumption DEF BuildFails, LInv, TypeOK, Id, UnusedInv, PlaceInv,
       LetThrough
  <2>3. 0 \in 0 .. MaxId /\ (FALSE) \in BOOLEAN
    BY LaneAssumption DEF Id
  <2>. QED
    BY <2>1, <2>2, <2>3, ProceedOps DEF LInv
<1>1. TypeOK'
  BY <1>8, LaneAssumption DEF BuildFails, Proceed, LInv, TypeOK, Id, PC,
     Outcomes, linkVars, sentVars, threadVars, opVars
<1>2. ListedWhileLive'
  BY LaneAssumption DEF BuildFails, Proceed, LInv, TypeOK, Id, ListedWhileLive,
     HasRequest, CurInv, linkVars, sentVars, threadVars, opVars
<1>3. CurInv'
  BY LaneAssumption DEF BuildFails, Proceed, LInv, TypeOK, Id, CurInv,
     HasRequest, PC, UnusedInv, linkVars, sentVars, threadVars, opVars
<1>4. PlaceInv'
  BY LaneAssumption DEF BuildFails, Proceed, LInv, TypeOK, Id, PlaceInv,
     HasRequest, PC, CurInv, UnusedInv, linkVars, sentVars, threadVars, opVars
<1>5. UnusedInv'
  BY LaneAssumption DEF BuildFails, Proceed, LInv, TypeOK, Id, UnusedInv,
     HasRequest, CurInv, linkVars, sentVars, threadVars, opVars
<1>7. FreshInv'
  BY LaneAssumption DEF BuildFails, Proceed, LInv, TypeOK, Id, FreshInv, Open,
     HasRequest, CurInv, UnusedInv, linkVars, sentVars, threadVars, opVars
<1>. QED
  BY <1>1, <1>2, <1>3, <1>4, <1>5, <1>7, <1>8 DEF LInv

LEMMA AuditSendLInv ==
    ASSUME LInv, NEW t \in Thread, AuditSend(t)
    PROVE  LInv'
<1>0. nextId' \in Id
  BY LaneAssumption DEF AuditSend, NewId, LInv, TypeOK, Id
<1>8. /\ events' \in [Thread -> 0 .. MaxEvents]
      /\ asked' \in [Thread -> [1 .. MaxEvents -> 0 .. MaxId]]
      /\ passed' \in [Thread -> BOOLEAN]
      /\ GroundsInv'
  <2>1. Proceed(t, nextId', TRUE) /\ pc[t] # "idle"
    BY DEF AuditSend, NewId, SettleAs
  <2>2. /\ \A j \in Id : outcome[j] \in LetThrough => outcome'[j] = outcome[j]
        /\ TRUE => nextId' \in Id /\ outcome'[nextId'] \in LetThrough
    BY <1>0, LaneAssumption DEF AuditSend, NewId, SettleAs, LInv, TypeOK, Id,
       UnusedInv, PlaceInv, LetThrough
  <2>3. nextId' \in 0 .. MaxId /\ (TRUE) \in BOOLEAN
    BY <1>0, LaneAssumption DEF Id
  <2>. QED
    BY <2>1, <2>2, <2>3, ProceedOps DEF LInv
<1>1. TypeOK'
  <2>2. todo' \in [Thread -> 0 .. MaxEvents] /\ pc' \in [Thread -> PC]
    BY LaneAssumption DEF AuditSend, NewId, SettleAs, Proceed, LInv, TypeOK,
       PC, CurInv
  <2>. QED
    BY <1>8, <2>2, <1>0, LaneAssumption DEF AuditSend, NewId, SettleAs,
       Proceed, LInv, TypeOK, Id, Outcomes, linkVars, sentVars, threadVars,
       opVars
<1>2. ListedWhileLive'
  BY LaneAssumption DEF AuditSend, NewId, SettleAs, Proceed, LInv, TypeOK, Id,
     ListedWhileLive, HasRequest, CurInv, linkVars, sentVars, threadVars,
     opVars
<1>3. CurInv'
  BY LaneAssumption DEF AuditSend, NewId, SettleAs, Proceed, LInv, TypeOK, Id,
     CurInv, HasRequest, PC, UnusedInv, linkVars, sentVars, threadVars, opVars
<1>4. PlaceInv'
  BY LaneAssumption DEF AuditSend, NewId, SettleAs, Proceed, LInv, TypeOK, Id,
     PlaceInv, HasRequest, PC, CurInv, UnusedInv, linkVars, sentVars,
     threadVars, opVars
<1>5. UnusedInv'
  BY LaneAssumption DEF AuditSend, NewId, SettleAs, Proceed, LInv, TypeOK, Id,
     UnusedInv, HasRequest, CurInv, linkVars, sentVars, threadVars, opVars
<1>7. FreshInv'
  BY LaneAssumption DEF AuditSend, NewId, SettleAs, Proceed, LInv, TypeOK, Id,
     FreshInv, Open, HasRequest, CurInv, UnusedInv, linkVars, sentVars,
     threadVars, opVars
<1>. QED
  BY <1>1, <1>2, <1>3, <1>4, <1>5, <1>7, <1>8 DEF LInv

LEMMA EnlistLInv ==
    ASSUME LInv, NEW t \in Thread, Enlist(t)
    PROVE  LInv'
<1>1. TypeOK'
  BY LaneAssumption DEF Enlist, NewId, Goto, LInv, TypeOK, Id, PC, Outcomes,
     linkVars, sentVars, threadVars, opVars
<1>2. ListedWhileLive'
  <2>1. /\ pc \in [Thread -> PC] /\ cur \in [Thread -> 0 .. MaxId]
        /\ nextId \in Nat /\ nextId' = nextId + 1 /\ nextId' \in Id
        /\ list \subseteq 1 .. nextId
    BY LaneAssumption DEF Enlist, NewId, LInv, TypeOK, Id, UnusedInv
  <2>2. /\ pc[t] = "enlist" /\ pc' = [pc EXCEPT ![t] = "send"]
        /\ cur' = [cur EXCEPT ![t] = nextId'] /\ list' = list \cup {nextId'}
    BY DEF Enlist, Goto
  <2>3. \A u \in Thread : u # t => pc'[u] = pc[u] /\ cur'[u] = cur[u]
    BY <2>1, <2>2
  <2>4. pc'[t] = "send" /\ cur'[t] = nextId'
    BY <2>1, <2>2
  <2>5. nextId' \notin list
    BY <2>1
  <2>. QED
    BY <2>2, <2>3, <2>4, <2>5 DEF LInv, ListedWhileLive, HasRequest
<1>3. CurInv'
  BY LaneAssumption DEF Enlist, NewId, Goto, LInv, TypeOK, Id, CurInv,
     HasRequest, PC, UnusedInv, linkVars, sentVars, threadVars, opVars
<1>4. PlaceInv'
  BY LaneAssumption DEF Enlist, NewId, Goto, LInv, TypeOK, Id, PlaceInv,
     HasRequest, PC, CurInv, UnusedInv, linkVars, sentVars, threadVars, opVars
<1>5. UnusedInv'
  BY LaneAssumption DEF Enlist, NewId, Goto, LInv, TypeOK, Id, UnusedInv,
     HasRequest, CurInv, linkVars, sentVars, threadVars, opVars
<1>6. GroundsInv'
  <2>1. UNCHANGED <<todo, opVars>>
    BY DEF Enlist, NewId, Goto, threadVars, opVars
  <2>2. /\ \A u \in Thread : pc'[u] = "idle" <=> pc[u] = "idle"
        /\ \A j \in Id : outcome[j] \in LetThrough => outcome'[j] = outcome[j]
    BY DEF Enlist, NewId, Goto, LInv, TypeOK, PlaceInv, LetThrough
  <2>. QED
    BY <2>1, <2>2, SameOps DEF LInv
<1>7. FreshInv'
  BY LaneAssumption DEF Enlist, NewId, Goto, LInv, TypeOK, Id, FreshInv, Open,
     HasRequest, CurInv, UnusedInv, linkVars, sentVars, threadVars, opVars
<1>. QED
  BY <1>1, <1>2, <1>3, <1>4, <1>5, <1>6, <1>7 DEF LInv

LEMMA SendLInv ==
    ASSUME LInv, NEW t \in Thread, Send(t)
    PROVE  LInv'
<1>0. cur[t] \in Id
  BY DEF LInv, TypeOK, CurInv, HasRequest, Id, Send, Goto
<1>1. TypeOK'
  <2>2. todo' \in [Thread -> 0 .. MaxEvents] /\ pc' \in [Thread -> PC]
    BY LaneAssumption DEF Send, Deliver, Goto, LInv, TypeOK, PC, CurInv
  <2>. QED
    BY <2>2, <1>0, LaneAssumption DEF Send, Deliver, Goto, LInv, TypeOK, Id,
       Outcomes, linkVars, sentVars, threadVars, opVars
<1>2. ListedWhileLive'
  BY LaneAssumption DEF Send, Deliver, Goto, LInv, TypeOK, Id, ListedWhileLive,
     HasRequest, CurInv, linkVars, sentVars, threadVars, opVars
<1>3. CurInv'
  BY LaneAssumption DEF Send, Deliver, Goto, LInv, TypeOK, Id, CurInv,
     HasRequest, PC, UnusedInv, linkVars, sentVars, threadVars, opVars
<1>4. PlaceInv'
  BY LaneAssumption DEF Send, Deliver, Goto, LInv, TypeOK, Id, PlaceInv,
     HasRequest, PC, CurInv, UnusedInv, linkVars, sentVars, threadVars, opVars
<1>5. UnusedInv'
  BY LaneAssumption DEF Send, Deliver, Goto, LInv, TypeOK, Id, UnusedInv,
     HasRequest, CurInv, linkVars, sentVars, threadVars, opVars
<1>6. GroundsInv'
  <2>1. UNCHANGED <<todo, opVars>>
    BY DEF Send, Deliver, Goto, threadVars, opVars
  <2>2. /\ \A u \in Thread : pc'[u] = "idle" <=> pc[u] = "idle"
        /\ \A j \in Id : outcome[j] \in LetThrough => outcome'[j] = outcome[j]
    BY DEF Send, Deliver, Goto, LInv, TypeOK, PlaceInv, LetThrough
  <2>. QED
    BY <2>1, <2>2, SameOps DEF LInv
<1>7. FreshInv'
  BY LaneAssumption DEF Send, Deliver, Goto, LInv, TypeOK, Id, FreshInv, Open,
     HasRequest, CurInv, UnusedInv, linkVars, sentVars, threadVars, opVars
<1>. QED
  BY <1>1, <1>2, <1>3, <1>4, <1>5, <1>6, <1>7 DEF LInv

LEMMA SendFailsLInv ==
    ASSUME LInv, NEW t \in Thread, SendFails(t)
    PROVE  LInv'
<1>0. cur[t] \in Id
  BY DEF LInv, TypeOK, CurInv, HasRequest, Id, SendFails
<1>8. /\ events' \in [Thread -> 0 .. MaxEvents]
      /\ asked' \in [Thread -> [1 .. MaxEvents -> 0 .. MaxId]]
      /\ passed' \in [Thread -> BOOLEAN]
      /\ GroundsInv'
  <2>1. Proceed(t, cur[t], TRUE) /\ pc[t] # "idle"
    BY DEF SendFails, SettleAs
  <2>2. /\ \A j \in Id : outcome[j] \in LetThrough => outcome'[j] = outcome[j]
        /\ TRUE => cur[t] \in Id /\ outcome'[cur[t]] \in LetThrough
    BY <1>0, LaneAssumption DEF SendFails, SettleAs, LInv, TypeOK, Id,
       UnusedInv, PlaceInv, LetThrough
  <2>3. cur[t] \in 0 .. MaxId /\ (TRUE) \in BOOLEAN
    BY <1>0, LaneAssumption DEF Id
  <2>. QED
    BY <2>1, <2>2, <2>3, ProceedOps DEF LInv
<1>1. TypeOK'
  <2>2. todo' \in [Thread -> 0 .. MaxEvents] /\ pc' \in [Thread -> PC]
    BY LaneAssumption DEF SendFails, SettleAs, Proceed, LInv, TypeOK, PC,
       CurInv
  <2>3. cur' \in [Thread -> 0 .. MaxId]
    BY LaneAssumption DEF SendFails, SettleAs, LInv, TypeOK
  <2>4. list' \subseteq Id
    BY DEF SendFails, SettleAs, LInv, TypeOK
  <2>5. outcome' \in [Id -> Outcomes]
    BY DEF SendFails, SettleAs, LInv, TypeOK, Outcomes
  <2>. QED
    BY <1>8, <2>2, <2>3, <2>4, <2>5 DEF SendFails, SettleAs, Proceed, LInv,
       TypeOK, Id, Outcomes, linkVars, sentVars, threadVars, opVars
<1>9. /\ pc[t] = "send" /\ pc'[t] \in {"idle", "mode"}
      /\ \A u \in Thread : u # t => pc'[u] = pc[u] /\ cur'[u] = cur[u]
  BY DEF SendFails, Proceed, LInv, TypeOK
<1>2. ListedWhileLive'
  BY <1>0, <1>9 DEF SendFails, LInv, ListedWhileLive, CurInv, HasRequest
<1>3. CurInv'
  BY LaneAssumption DEF SendFails, SettleAs, Proceed, LInv, TypeOK, Id, CurInv,
     HasRequest, PC, UnusedInv, linkVars, sentVars, threadVars, opVars
<1>4. PlaceInv'
  <2>1. sent' = sent /\ \A j \in Id : j # cur[t] => outcome'[j] = outcome[j]
    BY DEF SendFails, SettleAs, sentVars, LInv, TypeOK
  <2>2. ASSUME NEW u \in Thread, u # t, HasRequest(u)
        PROVE  cur[u] # cur[t] /\ cur[u] \in Id
    BY <2>2 DEF SendFails, LInv, CurInv, HasRequest, TypeOK
  <2>. QED
    BY <1>9, <2>1, <2>2 DEF LInv, PlaceInv, HasRequest
<1>5. UnusedInv'
  BY LaneAssumption DEF SendFails, SettleAs, Proceed, LInv, TypeOK, Id,
     UnusedInv, HasRequest, CurInv, linkVars, sentVars, threadVars, opVars
<1>7. FreshInv'
  BY LaneAssumption DEF SendFails, SettleAs, Proceed, LInv, TypeOK, Id,
     FreshInv, Open, HasRequest, CurInv, UnusedInv, linkVars, sentVars,
     threadVars, opVars
<1>. QED
  BY <1>1, <1>2, <1>3, <1>4, <1>5, <1>7, <1>8 DEF LInv

LEMMA EndWaitLInv ==
    ASSUME LInv, NEW t \in Thread, NEW o \in Outcomes, EndWait(t, o)
    PROVE  LInv'
<1>1. TypeOK'
  BY LaneAssumption DEF EndWait, Goto, SettleAs, LInv, TypeOK, Id, PC,
     Outcomes, linkVars, sentVars, threadVars, opVars
<1>2. ListedWhileLive'
  BY LaneAssumption DEF EndWait, Goto, SettleAs, LInv, TypeOK, Id,
     ListedWhileLive, HasRequest, CurInv, linkVars, sentVars, threadVars,
     opVars
<1>3. CurInv'
  BY LaneAssumption DEF EndWait, Goto, SettleAs, LInv, TypeOK, Id, CurInv,
     HasRequest, PC, UnusedInv, linkVars, sentVars, threadVars, opVars
<1>4. PlaceInv'
  BY LaneAssumption DEF EndWait, Goto, SettleAs, LInv, TypeOK, Id, PlaceInv,
     HasRequest, PC, CurInv, UnusedInv, linkVars, sentVars, threadVars, opVars
<1>5. UnusedInv'
  BY LaneAssumption DEF EndWait, Goto, SettleAs, LInv, TypeOK, Id, UnusedInv,
     HasRequest, CurInv, linkVars, sentVars, threadVars, opVars
<1>6. GroundsInv'
  <2>1. UNCHANGED <<todo, opVars>>
    BY DEF EndWait, Goto, SettleAs, threadVars, opVars
  <2>2. /\ \A u \in Thread : pc'[u] = "idle" <=> pc[u] = "idle"
        /\ \A j \in Id : outcome[j] \in LetThrough => outcome'[j] = outcome[j]
    BY DEF EndWait, Goto, SettleAs, LInv, TypeOK, PlaceInv, LetThrough
  <2>. QED
    BY <2>1, <2>2, SameOps DEF LInv
<1>7. FreshInv'
  BY LaneAssumption DEF EndWait, Goto, SettleAs, LInv, TypeOK, Id, FreshInv,
     Open, HasRequest, CurInv, UnusedInv, linkVars, sentVars, threadVars,
     opVars
<1>. QED
  BY <1>1, <1>2, <1>3, <1>4, <1>5, <1>6, <1>7 DEF LInv

LEMMA DetachLInv ==
    ASSUME LInv, NEW t \in Thread, Detach(t)
    PROVE  LInv'
<1>0. cur[t] \in Id
  BY DEF LInv, TypeOK, CurInv, HasRequest, Id, Detach
<1>8. /\ events' \in [Thread -> 0 .. MaxEvents]
      /\ asked' \in [Thread -> [1 .. MaxEvents -> 0 .. MaxId]]
      /\ passed' \in [Thread -> BOOLEAN]
      /\ GroundsInv'
  <2>1. Proceed(t, cur[t], outcome[cur[t]] \in LetThrough) /\ pc[t] # "idle"
    BY DEF Detach
  <2>2. /\ \A j \in Id : outcome[j] \in LetThrough => outcome'[j] = outcome[j]
        /\ outcome[cur[t]] \in LetThrough => cur[t] \in Id /\ outcome'[cur[t]] \in LetThrough
    BY <1>0, LaneAssumption DEF Detach, LInv, TypeOK, Id, UnusedInv, PlaceInv,
       LetThrough
  <2>3. cur[t] \in 0 .. MaxId /\ (outcome[cur[t]] \in LetThrough) \in BOOLEAN
    BY <1>0, LaneAssumption DEF Id
  <2>. QED
    BY <2>1, <2>2, <2>3, ProceedOps DEF LInv
<1>1. TypeOK'
  <2>2. todo' \in [Thread -> 0 .. MaxEvents] /\ pc' \in [Thread -> PC]
    BY LaneAssumption DEF Detach, Proceed, LInv, TypeOK, PC, CurInv
  <2>3. cur' \in [Thread -> 0 .. MaxId]
    BY LaneAssumption DEF Detach, LInv, TypeOK
  <2>4. list' \subseteq Id
    BY DEF Detach, LInv, TypeOK
  <2>5. outcome' \in [Id -> Outcomes]
    BY DEF Detach, LInv, TypeOK
  <2>. QED
    BY <1>8, <2>2, <2>3, <2>4, <2>5 DEF Detach, Proceed, LInv, TypeOK, Id,
       Outcomes, linkVars, sentVars, threadVars, opVars
<1>2. ListedWhileLive'
  BY LaneAssumption DEF Detach, Proceed, LInv, TypeOK, Id, ListedWhileLive,
     HasRequest, CurInv, linkVars, sentVars, threadVars, opVars
<1>3. CurInv'
  BY LaneAssumption DEF Detach, Proceed, LInv, TypeOK, Id, CurInv, HasRequest,
     PC, UnusedInv, linkVars, sentVars, threadVars, opVars
<1>4. PlaceInv'
  BY LaneAssumption DEF Detach, Proceed, LInv, TypeOK, Id, PlaceInv,
     HasRequest, PC, CurInv, UnusedInv, linkVars, sentVars, threadVars, opVars
<1>5. UnusedInv'
  BY LaneAssumption DEF Detach, Proceed, LInv, TypeOK, Id, UnusedInv,
     HasRequest, CurInv, linkVars, sentVars, threadVars, opVars
<1>7. FreshInv'
  BY LaneAssumption DEF Detach, Proceed, LInv, TypeOK, Id, FreshInv, Open,
     HasRequest, CurInv, UnusedInv, linkVars, sentVars, threadVars, opVars
<1>. QED
  BY <1>1, <1>2, <1>3, <1>4, <1>5, <1>7, <1>8 DEF LInv

-----------------------------------------------------------------------------
(* The daemon and the session. *)

LEMMA AnswerLInv ==
    ASSUME LInv, NEW i \in Id, NEW d \in {"approve", "deny"}, Answer(i, d)
    PROVE  LInv'
BY LaneAssumption DEF Answer, LInv, TypeOK, PC, Id, Outcomes, LetThrough,
   ListedWhileLive, CurInv, HasRequest, PlaceInv, UnusedInv, GroundsInv,
   FreshInv, Open, linkVars, sentVars, threadVars, opVars

\* A flush refuses waiters and touches nothing else.
LEMMA DenyAllLInv ==
    ASSUME LInv, DenyAll, updating' \in BOOLEAN, cleanup' \in BOOLEAN,
           link' \in {"down", "rx", "up", "lost"},
           UNCHANGED <<enforcing, sentVars, threadVars, list, outcome>>
    PROVE  LInv'
<1>1. decision' \in [Id -> {"pending", "approve", "deny"}]
  BY DEF DenyAll, LInv, TypeOK
<1>2. TypeOK'
  BY <1>1 DEF LInv, TypeOK, sentVars, threadVars, opVars, PC, Outcomes
<1>3. ListedWhileLive' /\ CurInv' /\ PlaceInv' /\ GroundsInv'
  BY DEF LInv, ListedWhileLive, CurInv, HasRequest, PlaceInv, GroundsInv,
     sentVars, threadVars, opVars
<1>4. UnusedInv'
  BY DEF DenyAll, Open, LInv, UnusedInv, sentVars, threadVars, opVars
<1>5. FreshInv'
  BY DEF DenyAll, Open, LInv, FreshInv, sentVars
<1>. QED
  BY <1>2, <1>3, <1>4, <1>5 DEF LInv

\* What leaves requests and threads alone, and promises no new freshness.
LEMMA QuietLInv ==
    ASSUME LInv, UNCHANGED <<sent, threadVars, list, decision, outcome>>,
           enforcing' \in BOOLEAN, updating' \in BOOLEAN, cleanup' \in BOOLEAN,
           link' \in {"down", "rx", "up", "lost"}, fresh' \subseteq Id,
           updating' \/ UNCHANGED <<updating, fresh>>
    PROVE  LInv'
<1>1. TypeOK'
  BY DEF LInv, TypeOK, threadVars, opVars, PC, Outcomes
<1>2. ListedWhileLive' /\ CurInv' /\ PlaceInv' /\ GroundsInv' /\ UnusedInv'
  BY DEF LInv, ListedWhileLive, CurInv, HasRequest, PlaceInv, GroundsInv,
     UnusedInv, threadVars, opVars
<1>3. FreshInv'
  BY DEF Open, LInv, FreshInv
<1>. QED
  BY <1>1, <1>2, <1>3 DEF LInv

LEMMA DaemonLInv ==
    ASSUME LInv, DaemonStep
    PROVE  LInv'
<1>1. ASSUME NEW i \in Id, Approve(i) \/ Deny(i) PROVE LInv'
  BY <1>1, AnswerLInv DEF Approve, Deny
<1>2. ASSUME NEW m \in BOOLEAN, ModeSwitch(m) PROVE LInv'
  <2>1. enforcing' \in BOOLEAN
    BY <1>2 DEF ModeSwitch
  <2>. QED
    BY <1>2, <2>1, QuietLInv DEF ModeSwitch, LInv, TypeOK, sentVars
<1>3. CASE PolicyPublish
  <2>1. updating' \in BOOLEAN /\ updating'
    BY <1>3 DEF PolicyPublish
  <2>. QED
    BY <1>3, <2>1, QuietLInv DEF PolicyPublish, LInv, TypeOK, sentVars
<1>4. CASE PolicyFlush
  <2>1. updating' \in BOOLEAN
    BY <1>4 DEF PolicyFlush
  <2>. QED
    BY <1>4, <2>1, DenyAllLInv DEF PolicyFlush, LInv, TypeOK
<1>. QED
  BY <1>1, <1>2, <1>3, <1>4 DEF DaemonStep

LEMMA SessionLInv ==
    ASSUME LInv, SessionStep
    PROVE  LInv'
<1>1. ASSUME NEW ok \in BOOLEAN, RegisterRx(ok) PROVE LInv'
  BY <1>1, DenyAllLInv DEF RegisterRx, LInv, TypeOK
<1>2. CASE RegisterTx
  BY <1>2, QuietLInv DEF RegisterTx, LInv, TypeOK, sentVars
<1>3. CASE Disconnect
  <2>1. cleanup' \in BOOLEAN
    BY <1>3 DEF Disconnect
  <2>. QED
    BY <1>3, <2>1, QuietLInv DEF Disconnect, LInv, TypeOK, sentVars
<1>4. CASE Cleanup
  <2>1. cleanup' \in BOOLEAN
    BY <1>4 DEF Cleanup
  <2>2. CASE NoSession
    BY <1>4, <2>1, <2>2, DenyAllLInv DEF Cleanup, LInv, TypeOK
  <2>3. CASE ~NoSession
    BY <1>4, <2>1, <2>3, QuietLInv DEF Cleanup, LInv, TypeOK, sentVars
  <2>. QED
    BY <2>2, <2>3
<1>. QED
  BY <1>1, <1>2, <1>3, <1>4 DEF SessionStep

-----------------------------------------------------------------------------
LEMMA ThreadLInv ==
    ASSUME LInv, NEW t \in Thread, ThreadStep(t)
    PROVE  LInv'
<1>1. ASSUME NEW n \in 1 .. MaxEvents, Enter(t, n) PROVE LInv'
  BY <1>1, EnterLInv
<1>2. CASE Run(t)
  <2>1. CASE Decided(t)
    BY <2>1, EndWaitLInv DEF Decided, Outcomes
  <2>. QED
    BY <1>2, <2>1, ReadModeLInv, BuildFailsLInv, AuditSendLInv, EnlistLInv,
       SendLInv, SendFailsLInv, DetachLInv DEF Run
<1>3. CASE TimeOut(t) \/ Interrupt(t)
  BY <1>3, EndWaitLInv DEF TimeOut, Interrupt, Outcomes
<1>. QED
  BY <1>1, <1>2, <1>3 DEF ThreadStep

LEMMA NextLInv == LInv /\ [Next]_vars => LInv'
<1>. SUFFICES ASSUME LInv, [Next]_vars PROVE LInv'
  OBVIOUS
<1>1. CASE Next
  BY <1>1, ThreadLInv, DaemonLInv, SessionLInv DEF Next
<1>2. CASE UNCHANGED vars
  BY <1>2, QuietLInv DEF vars, linkVars, sentVars, LInv, TypeOK
<1>. QED
  BY <1>1, <1>2

THEOREM LInvHolds == Spec => []LInv
<1>. QED
  BY InitLInv, NextLInv, PTL DEF Spec

-----------------------------------------------------------------------------
(* What follows from the invariant. *)

\* The model keeps its types: the loop over the events ends with the last one.
THEOREM LaneTypeCorrect == Spec => []TypeOK
<1>1. LInv => TypeOK
  BY DEF LInv
<1>. QED
  BY <1>1, LInvHolds, PTL

\* teal_ctl_list holds the requests between listing and detaching, exactly.
THEOREM ListIsExact == Spec => []ListedWhileLive
<1>1. LInv => ListedWhileLive
  BY DEF LInv
<1>. QED
  BY <1>1, LInvHolds, PTL

\* An operation that was let through was let through event by event.
THEOREM AllowedOnlyEventByEvent == Spec => []AllowedEventByEvent
<1>1. LInv => AllowedEventByEvent
  BY DEF LInv, GroundsInv, AllowedEventByEvent
<1>. QED
  BY <1>1, LInvHolds, PTL

\* No APPROVE that was decided under a replaced policy takes effect.
THEOREM StaleApprovalsRefused == Spec => StaleApprovalRefused
<1>1. ASSUME LInv, [Next]_vars, NEW i \in Id,
             decision[i] # "approve", decision'[i] = "approve"
      PROVE  i \in fresh
  <2>1. CASE \E j \in Id : Approve(j) \/ Deny(j)
    <3>1. PICK j \in Id : Approve(j) \/ Deny(j)
      BY <2>1
    <3>2. i = j
      BY <1>1, <3>1 DEF Approve, Deny, Answer, LInv, TypeOK
    <3>. QED
      BY <3>1, <3>2, <1>1 DEF Approve, Deny, Answer, Authorized, LInv, FreshInv
  <2>2. CASE DenyAll
    BY <2>2, <1>1 DEF DenyAll
  <2>3. CASE UNCHANGED decision
    BY <2>3, <1>1
  <2>4. (\E t \in Thread : ThreadStep(t)) => UNCHANGED decision
    BY DEF ThreadStep, Run, Enter, ReadMode, BuildFails, AuditSend, Enlist,
       Send, SendFails, Decided, TimeOut, Interrupt, EndWait, Detach
  <2>5. SessionStep => DenyAll \/ UNCHANGED decision
    BY DEF SessionStep, RegisterRx, RegisterTx, Disconnect, Cleanup
  <2>6. DaemonStep => \/ \E j \in Id : Approve(j) \/ Deny(j)
                     \/ DenyAll \/ UNCHANGED decision
    BY DEF DaemonStep, ModeSwitch, PolicyPublish, PolicyFlush
  <2>. QED
    BY <1>1, <2>1, <2>2, <2>3, <2>4, <2>5, <2>6 DEF Next, vars
<1>2. LInv /\ [Next]_vars
          => [\A i \in Id : (decision[i] # "approve" /\ decision'[i] = "approve")
                 => i \in fresh]_vars
  BY <1>1
<1>. QED
  BY <1>2, LInvHolds, PTL DEF Spec, StaleApprovalRefused

-----------------------------------------------------------------------------
(* Refinement. *)

LEMMA InitJudged == Init => Judged!VerdictInit
BY DEF Init, Judged!VerdictInit, VerdictOn, OutcomeOf

\* A request is settled by setting its outcome to what the verdict says.
LEMMA SettleJudged ==
    ASSUME LInv, NEW i \in Id, NEW o \in Outcomes \ {"open"},
           outcome[i] = "open", SettleAs(i, o),
           i \in sent =>
             (\/ decision[i] = "pending"
              \/ (decision[i] = "approve" /\ o \in LetThrough)
              \/ (decision[i] = "deny" /\ o \notin LetThrough)),
           i \notin sent => o \in LetThrough,
           UNCHANGED <<sent, decision>>
    PROVE  Judged!VerdictNext
<1>. DEFINE v == IF o \in LetThrough THEN "allow" ELSE "refuse"
<1>1. OutcomeOf' = [OutcomeOf EXCEPT ![i] = v]
  BY DEF OutcomeOf, SettleAs, LInv, TypeOK, LetThrough
<1>2. OutcomeOf[i] = "open"
  BY DEF OutcomeOf
<1>3. i \in sent => VerdictOn[i] = "none" \/ VerdictOn[i] = v
  BY DEF VerdictOn
<1>4. VerdictOn' = VerdictOn
  BY DEF VerdictOn
<1>5. Judged!Settle(i, v)
  BY <1>1, <1>2, <1>3, <1>4 DEF Judged!Settle
<1>. QED
  BY <1>5 DEF Judged!VerdictNext

LEMMA AnswerJudged ==
    ASSUME LInv, NEW i \in Id, NEW d \in {"approve", "deny"}, Answer(i, d)
    PROVE  Judged!VerdictNext
<1>. DEFINE v == IF d = "approve" THEN "allow" ELSE "refuse"
<1>1. VerdictOn' = [j \in Id |-> IF j \in {i} THEN v ELSE VerdictOn[j]]
  BY DEF VerdictOn, Answer, LInv, TypeOK
<1>2. \A j \in {i} : VerdictOn[j] = "none"
  BY DEF VerdictOn, Answer, Open
<1>3. Judged!Judge({i}, v)
  BY <1>1, <1>2 DEF Judged!Judge, Answer, sentVars, OutcomeOf
<1>. QED
  BY <1>3 DEF Judged!VerdictNext

LEMMA DenyAllJudged ==
    ASSUME LInv, DenyAll, UNCHANGED <<sentVars, outcome>>
    PROVE  Judged!VerdictNext
<1>. DEFINE I == {i \in Id : Open(i)}
<1>1. VerdictOn' = [j \in Id |-> IF j \in I THEN "refuse" ELSE VerdictOn[j]]
  BY DEF VerdictOn, DenyAll, Open, LInv, TypeOK
<1>2. \A j \in I : VerdictOn[j] = "none"
  BY DEF VerdictOn, Open
<1>3. Judged!Judge(I, "refuse")
  BY <1>1, <1>2 DEF Judged!Judge, sentVars, OutcomeOf
<1>4. I \in SUBSET Id
  OBVIOUS
<1>. QED
  BY <1>3, <1>4 DEF Judged!VerdictNext

LEMMA QuietJudged ==
    ASSUME UNCHANGED <<sent, decision, outcome>>
    PROVE  UNCHANGED Judged!verdictVars
BY DEF Judged!verdictVars, VerdictOn, OutcomeOf

LEMMA ThreadJudged ==
    ASSUME LInv, NEW t \in Thread, ThreadStep(t)
    PROVE  [Judged!VerdictNext]_(Judged!verdictVars)
<1>1. CASE AuditSend(t)
  <2>1. nextId' \in Id /\ nextId' > nextId
    BY <1>1, LaneAssumption DEF AuditSend, NewId, LInv, TypeOK, Id
  <2>2. outcome[nextId'] = "open" /\ nextId' \notin sent
    BY <2>1 DEF LInv, UnusedInv
  <2>. QED
    BY <1>1, <2>1, <2>2, SettleJudged DEF AuditSend, Outcomes, LetThrough,
       sentVars
<1>2. CASE Send(t)
  <2>1. cur[t] \in Id /\ outcome[cur[t]] = "open"
    BY <1>2 DEF Send, Goto, LInv, TypeOK, PlaceInv, CurInv, HasRequest, Id
  <2>2. Judged!Ask(cur[t])
    BY <1>2, <2>1 DEF Send, Deliver, Judged!Ask, VerdictOn, OutcomeOf
  <2>. QED
    BY <2>1, <2>2 DEF Judged!VerdictNext
<1>3. CASE SendFails(t)
  <2>1. cur[t] \in Id /\ outcome[cur[t]] = "open" /\ cur[t] \notin sent
    BY <1>3 DEF SendFails, LInv, TypeOK, PlaceInv, CurInv, HasRequest, Id
  <2>. QED
    BY <1>3, <2>1, SettleJudged DEF SendFails, Outcomes, LetThrough, sentVars
<1>4. CASE Decided(t) \/ TimeOut(t) \/ Interrupt(t)
  <2>1. /\ cur[t] \in Id
        /\ outcome[cur[t]] = "open"
        /\ cur[t] \in sent
    BY <1>4 DEF Decided, TimeOut, Interrupt, Finds, LInv, TypeOK, PlaceInv,
       CurInv, HasRequest, Id
  <2>2. ASSUME NEW o \in {"approved", "timeout"}, EndWait(t, o),
               Finds(t, "pending") \/ Finds(t, "approve")
        PROVE  Judged!VerdictNext
    <3>1. SettleAs(cur[t], o) /\ UNCHANGED <<sent, decision>>
      BY <2>2 DEF EndWait, sentVars
    <3>2. o \in Outcomes \ {"open"} /\ o \in LetThrough
      BY DEF Outcomes, LetThrough
    <3>3. \/ decision[cur[t]] = "pending"
          \/ decision[cur[t]] = "approve" /\ o \in LetThrough
      BY <2>2, <3>2 DEF Finds
    <3>. QED
      BY <2>1, <3>1, <3>2, <3>3, SettleJudged
  <2>3. ASSUME NEW o \in {"denied", "interrupted"}, EndWait(t, o),
               Finds(t, "pending") \/ Finds(t, "deny")
        PROVE  Judged!VerdictNext
    <3>1. SettleAs(cur[t], o) /\ UNCHANGED <<sent, decision>>
      BY <2>3 DEF EndWait, sentVars
    <3>2. o \in Outcomes \ {"open"} /\ o \notin LetThrough
      BY DEF Outcomes, LetThrough
    <3>3. \/ decision[cur[t]] = "pending"
          \/ decision[cur[t]] = "deny" /\ o \notin LetThrough
      BY <2>3, <3>2 DEF Finds
    <3>. QED
      BY <2>1, <3>1, <3>2, <3>3, SettleJudged
  <2>. QED
    BY <1>4, <2>2, <2>3 DEF Decided, TimeOut, Interrupt
<1>5. CASE \/ \E n \in 1 .. MaxEvents : Enter(t, n)
           \/ ReadMode(t) \/ BuildFails(t) \/ Enlist(t) \/ Detach(t)
  BY <1>5, QuietJudged DEF Enter, ReadMode, BuildFails, Enlist, Detach,
     sentVars
<1>. QED
  BY <1>1, <1>2, <1>3, <1>4, <1>5 DEF ThreadStep, Run

LEMMA NextJudged ==
    LInv /\ [Next]_vars => [Judged!VerdictNext]_(Judged!verdictVars)
<1>. SUFFICES ASSUME LInv, [Next]_vars
              PROVE  [Judged!VerdictNext]_(Judged!verdictVars)
  OBVIOUS
<1>1. CASE DaemonStep
  <2>1. ASSUME NEW i \in Id, Approve(i) \/ Deny(i)
        PROVE  Judged!VerdictNext
    BY <2>1, AnswerJudged DEF Approve, Deny
  <2>2. CASE PolicyFlush
    BY <2>2, DenyAllJudged DEF PolicyFlush
  <2>3. CASE PolicyPublish \/ \E m \in BOOLEAN : ModeSwitch(m)
    BY <2>3, QuietJudged DEF PolicyPublish, ModeSwitch, sentVars
  <2>. QED
    BY <1>1, <2>1, <2>2, <2>3 DEF DaemonStep
<1>2. CASE SessionStep
  <2>1. CASE DenyAll /\ UNCHANGED <<sentVars, outcome>>
    BY <2>1, DenyAllJudged
  <2>2. CASE UNCHANGED <<sentVars, decision, outcome>>
    BY <2>2, QuietJudged DEF sentVars
  <2>. QED
    BY <1>2, <2>1, <2>2 DEF SessionStep, RegisterRx, RegisterTx, Disconnect,
       Cleanup
<1>3. CASE UNCHANGED vars
  BY <1>3, QuietJudged DEF vars, sentVars
<1>. QED
  BY <1>1, <1>2, <1>3, ThreadJudged DEF Next

\* The control lane gives every request at most one verdict and settles its
\* operation by it, or either way while there is none.
THEOREM LaneImplementsVerdict == Spec => ImplementsVerdict
<1>. QED
  BY InitJudged, NextJudged, LInvHolds, PTL DEF Spec, ImplementsVerdict,
     Judged!VerdictSpec

-----------------------------------------------------------------------------
(***************************************************************************)
(* Privileges: TealTaskMeta.                                               *)
(***************************************************************************)

-----------------------------------------------------------------------------
(* The strengthening. *)

\* A hook runs in a living task and holds a ticket for the image; from "bake"
\* on the ticket counts as earned.
HookInv ==
    \A t \in Task : hook[t].pc # "idle" =>
        /\ t \in alive
        /\ hook[t].ticket.program = image[t]
        /\ hook[t].pc # "take" => hook[t].ticket \in earned[t]

\* The candidate of an exec under way is the file that will run.
ExecInv ==
    \A t \in Task :
        /\ exec[t] # None => meta[t].pending = exec[t]
        /\ t \notin alive => exec[t] = None

ProgramInv == \A t \in Task : meta[t].program \in {image[t], None}

\* Each flag on record comes from a ticket of the epoch on record.
Granted(t, f) ==
    \E k \in earned[t] : /\ k.epoch = meta[t].epoch
                         /\ k.program = image[t]
                         /\ f \in k.flags
FlagInv == \A t \in Task : \A f \in meta[t].flags : Granted(t, f)

TInv == MetaTypeOK /\ HookInv /\ ExecInv /\ ProgramInv /\ FlagInv

-----------------------------------------------------------------------------
(* Types. *)

LEMMA HookTyped ==
    ASSUME MetaTypeOK, NEW t \in Task, hook[t].pc # "idle"
    PROVE  /\ hook[t] \in [pc : {"take", "bake", "store"}, ticket : Ticket]
           /\ hook[t].ticket \in Ticket
BY DEF MetaTypeOK, Hook

LEMMA StepTyped ==
    ASSUME MetaTypeOK, NEW t \in Task, NEW from, NEW to \in {"idle", "bake", "store"},
           from # "idle", Step(t, from, to)
    PROVE  hook' \in [Task -> Hook]
<1>1. hook[t] \in [pc : {"take", "bake", "store"}, ticket : Ticket]
  BY HookTyped DEF Step
<1>2. [hook[t] EXCEPT !.pc = to] \in Hook \/ to = "idle"
  BY <1>1 DEF Hook
<1>3. Idle \in Hook
  BY DEF Idle, Hook
<1>4. QED BY <1>2, <1>3 DEF Step, MetaTypeOK

LEMMA InitTyped == MetaInit => MetaTypeOK
<1> SUFFICES ASSUME MetaInit PROVE MetaTypeOK
  OBVIOUS
<1>1. ClockTypeOK
  <2>1. flushDue \in BOOLEAN
    BY DEF MetaInit, ClockInit
  <2>2. lastEpoch \in 0 .. MaxEpoch /\ curEpoch \in 0 .. MaxEpoch
    BY MaxEpochAssumption DEF MetaInit, ClockInit
  <2>3. QED BY <2>1, <2>2 DEF ClockTypeOK
<1>2. image \in [Task -> Program]
  BY DEF MetaInit
<1>3. meta \in [Task -> Meta]
  <2>1. \A p \in Program \cup {None} : NewMeta(p) \in Meta
    BY MaxEpochAssumption DEF NewMeta, Meta
  <2>2. QED BY <1>2, <2>1 DEF MetaInit
<1>4. QED BY <1>1, <1>2, <1>3 DEF MetaInit, MetaTypeOK, Idle, Hook

LEMMA NextTyped == MetaTypeOK /\ [MetaNext]_metaVars => MetaTypeOK'
<1> SUFFICES ASSUME MetaTypeOK, [MetaNext]_metaVars PROVE MetaTypeOK'
  OBVIOUS
<1> USE MaxEpochAssumption, TaskAssumption
<1>1. CASE Clock
  <2>1. flushDue' \in BOOLEAN
    <3>1. flushDue' \in {TRUE, FALSE}
      BY <1>1 DEF Clock, ClockNext, Publish, Revoke, FlushDone
    <3>2. QED BY <3>1
  <2>2. lastEpoch' \in 0 .. MaxEpoch /\ curEpoch' \in 0 .. MaxEpoch
    BY <1>1 DEF Clock, ClockNext, Publish, Revoke, FlushDone, ClockTypeOK,
       MetaTypeOK
  <2>3. ClockTypeOK'
    BY <2>1, <2>2 DEF ClockTypeOK
  <2>4. QED BY <1>1, <2>3 DEF Clock, MetaTypeOK, taskVars
<1>2. ASSUME NEW t \in Task, TaskStep(t) PROVE MetaTypeOK'
  <2>1. ASSUME NEW g \in Grants, Match(t, g) PROVE MetaTypeOK'
    <3> DEFINE k == [program |-> meta[t].program, epoch |-> curEpoch,
                     flags |-> g]
    <3>1. k \in Ticket
      BY <2>1 DEF Match, MetaTypeOK, Meta, Ticket, ClockTypeOK
    <3>2. [pc |-> "take", ticket |-> k] \in Hook
      BY <3>1 DEF Hook
    <3>3. hook' = [hook EXCEPT ![t] = [pc |-> "take", ticket |-> k]]
      BY <2>1 DEF Match
    <3>4. hook' \in [Task -> Hook]
      BY <3>2, <3>3 DEF MetaTypeOK
    <3>5. QED BY <2>1, <3>4 DEF Match, MetaTypeOK, ClockTypeOK, clockVars
  <2>2. CASE Use(t)
    <3>1. hook' \in [Task -> Hook]
      BY <2>2, StepTyped DEF Use
    <3>2. hook[t].ticket \in Ticket
      BY <2>2, HookTyped DEF Use, Step
    <3>3. QED BY <2>2, <3>1, <3>2 DEF Use, MetaTypeOK, ClockTypeOK, clockVars
  <2>3. CASE PassOver(t)
    <3>1. hook' \in [Task -> Hook]
      BY <2>3, StepTyped DEF PassOver
    <3>2. QED BY <2>3, <3>1 DEF PassOver, MetaTypeOK, ClockTypeOK, clockVars
  <2>4. CASE Bake(t)
    <3>1. \E to \in {"idle", "store"} : Step(t, "bake", to)
      BY <2>4 DEF Bake
    <3>2. hook' \in [Task -> Hook]
      BY <3>1, StepTyped
    <3>3. QED BY <2>4, <3>2 DEF Bake, MetaTypeOK, ClockTypeOK, clockVars
  <2>5. CASE Store(t)
    <3> DEFINE e == hook[t].ticket.epoch
               F == Baked(t, e) \cup Bakeable(t)
    <3>1. hook' \in [Task -> Hook]
      BY <2>5, StepTyped DEF Store
    <3>2. hook[t].ticket \in Ticket
      BY <2>5, HookTyped DEF Store, Step
    <3>3. e \in 0 .. MaxEpoch
      BY <3>2 DEF Ticket
    <3>4. F \in SUBSET Flag
      BY DEF Baked, Bakeable, MetaTypeOK, Meta
    <3>5. meta' = [meta EXCEPT ![t] = [meta[t] EXCEPT !.epoch = e, !.flags = F]]
      BY <2>5, Zenon DEF Store, MetaTypeOK
    <3>6. [meta[t] EXCEPT !.epoch = e, !.flags = F] \in Meta
      BY <3>3, <3>4 DEF MetaTypeOK, Meta
    <3>7. meta' \in [Task -> Meta]
      BY <3>5, <3>6 DEF MetaTypeOK
    <3>8. QED BY <2>5, <3>1, <3>7 DEF Store, MetaTypeOK, ClockTypeOK, clockVars
  <2>6. CASE Recover(t)
    BY <2>6 DEF Recover, MetaTypeOK, Meta, ClockTypeOK, clockVars
  <2>7. ASSUME NEW p \in Program, CheckAllows(t, p) PROVE MetaTypeOK'
    BY <2>7 DEF CheckAllows, Candidate, MetaTypeOK, Meta, ClockTypeOK,
       clockVars
  <2>8. CASE CheckRefuses(t)
    BY <2>8 DEF CheckRefuses, MetaTypeOK, Meta, ClockTypeOK, clockVars
  <2>9. CASE ExecFails(t)
    BY <2>9 DEF ExecFails, MetaTypeOK, Meta, ClockTypeOK, clockVars
  <2>10. CASE ExecCommit(t)
    <3>1. Committed(t) \in Meta
      BY DEF Committed, NewMeta, MetaTypeOK, Meta
    <3>2. exec[t] \in Program
      BY <2>10 DEF ExecCommit, MetaTypeOK
    <3>3. QED BY <2>10, <3>1, <3>2 DEF ExecCommit, MetaTypeOK, ClockTypeOK, clockVars
  <2>11. ASSUME NEW c \in Task, Fork(t, c) PROVE MetaTypeOK'
    <3> DEFINE e == IF Inherits(t) THEN meta[t].epoch ELSE 0
               F == IF Inherits(t) THEN meta[t].flags ELSE {}
               m == [NewMeta(meta[t].program) EXCEPT !.epoch = e, !.flags = F]
    <3> HIDE DEF e, F
    <3>a. e \in 0 .. MaxEpoch /\ F \in SUBSET Flag
      BY DEF e, F, MetaTypeOK, Meta
    <3>1. m \in Meta
      BY <3>a DEF NewMeta, MetaTypeOK, Meta
    <3> USE DEF e, F
    <3>2. meta' = [meta EXCEPT ![c] = m]
      BY <2>11 DEF Fork
    <3>3. meta' \in [Task -> Meta]
      BY <3>1, <3>2 DEF MetaTypeOK
    <3>4. QED BY <2>11, <3>3 DEF Fork, MetaTypeOK, ClockTypeOK, clockVars
  <2>12. CASE Exit(t)
    <3>1. NewMeta(image[t]) \in Meta
      BY DEF NewMeta, MetaTypeOK, Meta
    <3>2. QED BY <2>12, <3>1 DEF Exit, MetaTypeOK, ClockTypeOK, clockVars
  <2>13. QED BY <1>2, <2>1, <2>2, <2>3, <2>4, <2>5, <2>6, <2>7, <2>8, <2>9,
                <2>10, <2>11, <2>12 DEF TaskStep
<1>3. CASE UNCHANGED metaVars
  BY <1>3 DEF metaVars, clockVars, taskVars, MetaTypeOK, ClockTypeOK
<1>4. QED BY <1>1, <1>2, <1>3 DEF MetaNext

-----------------------------------------------------------------------------
(* The strengthening is inductive. *)

LEMMA InitHolds == MetaInit => TInv
<1> SUFFICES ASSUME MetaInit PROVE TInv
  OBVIOUS
<1>1. MetaTypeOK
  BY InitTyped
<1>2. HookInv
  BY DEF MetaInit, Idle, HookInv
<1>3. ExecInv
  BY DEF MetaInit, ExecInv
<1>4. \E known \in BOOLEAN :
          meta = [t \in Task |-> NewMeta(IF known THEN image[t] ELSE None)]
  BY DEF MetaInit
<1>5. ProgramInv /\ FlagInv
  BY <1>4 DEF NewMeta, ProgramInv, FlagInv
<1>6. QED BY <1>1, <1>2, <1>3, <1>5 DEF TInv

\* Nothing of a task is looked at that the clock could change.
LEMMA ClockHolds == TInv /\ UNCHANGED taskVars => (HookInv /\ ExecInv /\ ProgramInv /\ FlagInv)'
BY DEF TInv, taskVars, HookInv, ExecInv, ProgramInv, FlagInv, Granted

\* The hook that goes by a ticket.
LEMMA HookHolds ==
    ASSUME TInv, NEW t \in Task,
           \/ \E g \in Grants : Match(t, g)
           \/ Use(t) \/ PassOver(t) \/ Bake(t) \/ Store(t)
    PROVE  (HookInv /\ ExecInv /\ ProgramInv /\ FlagInv)'
<1> USE DEF TInv
<1>1. ASSUME NEW g \in Grants, Match(t, g)
      PROVE  (HookInv /\ ExecInv /\ ProgramInv /\ FlagInv)'
  <2> DEFINE k == [program |-> meta[t].program, epoch |-> curEpoch,
                   flags |-> g]
  <2>1. hook' = [hook EXCEPT ![t] = [pc |-> "take", ticket |-> k]]
    BY <1>1 DEF Match
  <2>2. k.program = image[t]
    BY <1>1 DEF Match, ProgramInv
  <2>3. HookInv'
    BY <1>1, <2>1, <2>2 DEF Match, Free, HookInv, MetaTypeOK
  <2>4. QED BY <1>1, <2>3 DEF Match, ExecInv, ProgramInv, FlagInv, Granted
<1>2. CASE Use(t)
  <2> DEFINE k == hook[t].ticket
  <2>1. hook[t] \in [pc : {"take", "bake", "store"}, ticket : Ticket]
    BY <1>2, HookTyped DEF Use, Step
  <2>2. hook' = [hook EXCEPT ![t] = [hook[t] EXCEPT !.pc = "bake"]]
    BY <1>2 DEF Use, Step
  <2>3. hook'[t].ticket = k /\ \A u \in Task \ {t} : hook'[u] = hook[u]
    BY <2>1, <2>2 DEF MetaTypeOK
  <2>4. /\ earned'[t] = earned[t] \cup {k}
        /\ \A u \in Task \ {t} : earned'[u] = earned[u]
    BY <1>2 DEF Use, MetaTypeOK
  <2>5. HookInv'
    BY <1>2, <2>3, <2>4 DEF Use, Step, HookInv
  <2>6. FlagInv'
    BY <1>2, <2>4 DEF Use, FlagInv, Granted
  <2>7. QED BY <1>2, <2>5, <2>6 DEF Use, ExecInv, ProgramInv
<1>3. CASE PassOver(t)
  BY <1>3 DEF PassOver, Step, Idle, HookInv, ExecInv, ProgramInv, FlagInv,
     Granted, MetaTypeOK
<1>4. CASE Bake(t)
  <2>1. hook[t] \in [pc : {"take", "bake", "store"}, ticket : Ticket]
    BY <1>4, HookTyped DEF Bake, Step
  <2>2. \/ hook' = [hook EXCEPT ![t] = Idle]
        \/ hook' = [hook EXCEPT ![t] = [hook[t] EXCEPT !.pc = "store"]]
    BY <1>4 DEF Bake, Step
  <2>3. /\ hook'[t] = Idle \/ hook'[t] = [hook[t] EXCEPT !.pc = "store"]
        /\ \A u \in Task \ {t} : hook'[u] = hook[u]
    BY <2>2 DEF MetaTypeOK
  <2>4. hook[t].pc = "bake"
    BY <1>4 DEF Bake, Step
  <2>5. hook'[t].pc # "idle" => hook'[t].ticket = hook[t].ticket
    BY <2>1, <2>3 DEF Idle
  <2>6. HookInv'
    BY <1>4, <2>3, <2>4, <2>5 DEF Bake, HookInv
  <2>7. QED BY <1>4, <2>6 DEF Bake, ExecInv, ProgramInv, FlagInv, Granted
<1>5. CASE Store(t)
  <2> DEFINE k == hook[t].ticket
             F == Baked(t, k.epoch) \cup Bakeable(t)
  <2>1. meta' = [meta EXCEPT ![t] = [meta[t] EXCEPT !.epoch = k.epoch,
                                                    !.flags = F]]
    BY <1>5, Zenon DEF Store, MetaTypeOK
  <2>2. meta[t] \in Meta
    BY DEF MetaTypeOK
  <2>3. /\ meta'[t].epoch = k.epoch
        /\ meta'[t].flags = F
        /\ meta'[t].program = meta[t].program
        /\ meta'[t].pending = meta[t].pending
        /\ \A u \in Task \ {t} : meta'[u] = meta[u]
    BY <2>1, <2>2 DEF MetaTypeOK, Meta
  <2>4. k \in earned[t] /\ k.program = image[t]
    BY <1>5 DEF Store, Step, HookInv
  <2>5. \A f \in F : Granted(t, f)'
    <3> SUFFICES ASSUME NEW f \in F PROVE Granted(t, f)'
      OBVIOUS
    <3>1. CASE f \in Bakeable(t)
      BY <1>5, <2>3, <2>4, <3>1 DEF Bakeable, Granted, Store
    <3>2. CASE f \in Baked(t, k.epoch)
      BY <1>5, <2>3, <3>2 DEF Baked, FlagInv, Granted, Store
    <3>3. QED BY <3>1, <3>2
  <2>6. FlagInv'
    <3>1. ASSUME NEW u \in Task \ {t}, NEW f \in meta'[u].flags
          PROVE  Granted(u, f)'
      <4>1. Granted(u, f)
        BY <2>3, <3>1 DEF FlagInv
      <4>2. UNCHANGED <<image, earned>> /\ meta'[u] = meta[u]
        BY <1>5, <2>3 DEF Store
      <4>3. QED BY <4>1, <4>2 DEF Granted
    <3>2. \A f \in meta'[t].flags : Granted(t, f)'
      BY <2>3, <2>5
    <3>3. QED BY <3>1, <3>2 DEF FlagInv
  <2>7. HookInv'
    BY <1>5 DEF Store, Step, Idle, HookInv, MetaTypeOK
  <2>8. ExecInv' /\ ProgramInv'
    BY <1>5, <2>3 DEF Store, ExecInv, ProgramInv
  <2>9. QED BY <2>6, <2>7, <2>8
<1>6. QED BY <1>1, <1>2, <1>3, <1>4, <1>5

\* Exec, from its checks on.
LEMMA ExecHolds ==
    ASSUME TInv, NEW t \in Task,
           \/ Recover(t)
           \/ \E p \in Program : CheckAllows(t, p)
           \/ CheckRefuses(t) \/ ExecFails(t) \/ ExecCommit(t)
    PROVE  (HookInv /\ ExecInv /\ ProgramInv /\ FlagInv)'
<1> USE TaskAssumption DEF TInv
<1>1. CASE Recover(t)
  BY <1>1 DEF Recover, HookInv, ExecInv, ProgramInv, FlagInv, Granted,
     MetaTypeOK, Meta
<1>2. ASSUME NEW p \in Program, CheckAllows(t, p)
      PROVE  (HookInv /\ ExecInv /\ ProgramInv /\ FlagInv)'
  BY <1>2 DEF CheckAllows, Candidate, Free, HookInv, ExecInv, ProgramInv,
     FlagInv, Granted, MetaTypeOK, Meta
<1>3. CASE CheckRefuses(t)
  BY <1>3 DEF CheckRefuses, HookInv, ExecInv, ProgramInv, FlagInv, Granted,
     MetaTypeOK, Meta
<1>4. CASE ExecFails(t)
  BY <1>4 DEF ExecFails, HookInv, ExecInv, ProgramInv, FlagInv, Granted,
     MetaTypeOK
<1>5. CASE ExecCommit(t)
  <2>1. Committed(t) = NewMeta(exec[t])
    BY <1>5 DEF ExecCommit, ExecInv, Committed
  <2>2. /\ meta'[t] = NewMeta(exec[t]) /\ image'[t] = exec[t]
        /\ exec'[t] = None
        /\ \A u \in Task \ {t} : /\ meta'[u] = meta[u]
                                 /\ image'[u] = image[u]
                                 /\ exec'[u] = exec[u]
                                 /\ earned'[u] = earned[u]
    BY <1>5, <2>1 DEF ExecCommit, MetaTypeOK
  <2>3. hook[t].pc = "idle" /\ UNCHANGED <<hook, alive>>
    BY <1>5 DEF ExecCommit, Free
  <2>4. HookInv'
    BY <2>2, <2>3 DEF HookInv
  <2>5. ExecInv' /\ ProgramInv'
    BY <2>2, <2>3 DEF ExecInv, ProgramInv, NewMeta
  <2>6. FlagInv'
    BY <2>2 DEF FlagInv, Granted, NewMeta
  <2>7. QED BY <2>4, <2>5, <2>6
<1>6. QED BY <1>1, <1>2, <1>3, <1>4, <1>5

\* Fork and exit.
LEMMA LifeHolds ==
    ASSUME TInv, NEW t \in Task,
           Exit(t) \/ \E c \in Task : Fork(t, c)
    PROVE  (HookInv /\ ExecInv /\ ProgramInv /\ FlagInv)'
<1> USE TaskAssumption DEF TInv
<1>1. ASSUME NEW c \in Task, Fork(t, c)
      PROVE  (HookInv /\ ExecInv /\ ProgramInv /\ FlagInv)'
  <2>1. c # t /\ hook[c].pc = "idle" /\ exec[c] = None
    BY <1>1 DEF Fork, Free, HookInv, ExecInv
  <2>2. UNCHANGED <<curEpoch, hook, exec>> /\ alive' = alive \cup {c}
    BY <1>1 DEF Fork, clockVars
  <2>3. /\ image'[c] = image[t]
        /\ earned'[c] = IF Heritable(t) THEN earned[t] ELSE {}
        /\ \A u \in Task \ {c} : /\ meta'[u] = meta[u]
                                 /\ image'[u] = image[u]
                                 /\ earned'[u] = earned[u]
    <3>1. \A u \in Task \ {c} : meta'[u] = meta[u]
      BY <1>1 DEF Fork, MetaTypeOK
    <3>2. image'[c] = image[t] /\ \A u \in Task \ {c} : image'[u] = image[u]
      BY <1>1 DEF Fork, MetaTypeOK
    <3>3. /\ earned'[c] = IF Heritable(t) THEN earned[t] ELSE {}
          /\ \A u \in Task \ {c} : earned'[u] = earned[u]
      BY <1>1 DEF Fork, MetaTypeOK
    <3>4. QED BY <3>1, <3>2, <3>3
  <2> DEFINE e == IF Inherits(t) THEN meta[t].epoch ELSE 0
             F == IF Inherits(t) THEN meta[t].flags ELSE {}
  <2>4. meta'[c] = [NewMeta(meta[t].program) EXCEPT !.epoch = e, !.flags = F]
    BY <1>1 DEF Fork, MetaTypeOK
  <2>5. /\ meta'[c].program = meta[t].program
        /\ meta'[c].epoch = e
        /\ meta'[c].flags = F
    BY <2>4 DEF NewMeta
  <2>6. HookInv'
    BY <2>1, <2>2, <2>3 DEF HookInv
  <2>7. ExecInv'
    BY <2>1, <2>2, <2>3 DEF ExecInv
  <2>8. ProgramInv'
    BY <2>3, <2>5 DEF ProgramInv
  <2>9. FlagInv'
    <3>1. ASSUME Inherits(t) PROVE Heritable(t)
      <4>1. meta[t].epoch = curEpoch /\ "inherit" \in meta[t].flags
        BY <3>1 DEF Inherits, Active
      <4>2. QED BY <4>1 DEF FlagInv, Granted, Heritable
    <3>2. \A f \in F : Granted(c, f)'
      <4> SUFFICES ASSUME NEW f \in F PROVE Granted(c, f)'
        OBVIOUS
      <4>1. Inherits(t) /\ f \in meta[t].flags
        OBVIOUS
      <4>2. earned'[c] = earned[t] /\ meta'[c].epoch = meta[t].epoch
        BY <2>3, <2>5, <3>1, <4>1
      <4>3. PICK k \in earned[t] : /\ k.epoch = meta[t].epoch
                                  /\ k.program = image[t]
                                  /\ f \in k.flags
        BY <4>1 DEF FlagInv, Granted
      <4>4. QED BY <2>3, <4>2, <4>3 DEF Granted
    <3>3. \A u \in Task \ {c} : \A f \in meta'[u].flags : Granted(u, f)'
      BY <2>3 DEF FlagInv, Granted
    <3>4. QED BY <2>5, <3>2, <3>3 DEF FlagInv
  <2>10. QED BY <2>6, <2>7, <2>8, <2>9
<1>2. CASE Exit(t)
  <2>1. /\ meta'[t] = NewMeta(image[t]) /\ exec'[t] = None
        /\ \A u \in Task \ {t} : /\ meta'[u] = meta[u]
                                 /\ exec'[u] = exec[u]
                                 /\ earned'[u] = earned[u]
        /\ alive' = alive \ {t}
        /\ hook[t].pc = "idle" /\ UNCHANGED <<hook, image>>
    BY <1>2 DEF Exit, Free, MetaTypeOK
  <2>2. HookInv' /\ ExecInv'
    BY <2>1 DEF HookInv, ExecInv
  <2>3. ProgramInv' /\ FlagInv'
    BY <2>1 DEF ProgramInv, FlagInv, Granted, NewMeta
  <2>4. QED BY <2>2, <2>3
<1>3. QED BY <1>1, <1>2

LEMMA NextHolds == TInv /\ [MetaNext]_metaVars => TInv'
<1> SUFFICES ASSUME TInv, [MetaNext]_metaVars PROVE TInv'
  OBVIOUS
<1>1. MetaTypeOK'
  BY NextTyped DEF TInv
<1>2. CASE Clock \/ UNCHANGED metaVars
  BY <1>1, <1>2, ClockHolds DEF Clock, metaVars, TInv
<1>3. ASSUME NEW t \in Task, TaskStep(t) PROVE TInv'
  BY <1>1, <1>3, HookHolds, ExecHolds, LifeHolds DEF TaskStep, TInv
<1>4. QED BY <1>2, <1>3 DEF MetaNext

LEMMA Invariance == MetaSpec => []TInv
BY InitHolds, NextHolds, PTL DEF MetaSpec

-----------------------------------------------------------------------------
\* The memory of tasks keeps its types.
THEOREM TaskTypeCorrect == MetaSpec => []MetaTypeOK
BY Invariance, PTL DEF TInv

\* However hooks, execs, forks and changes of epoch fall between one another,
\* a privilege in force rests on tickets of the epoch in force for the program
\* that the task runs.
THEOREM PrivilegesAreGrounded == MetaSpec => []PrivilegesGrounded
<1>1. TInv => PrivilegesGrounded
  <2> SUFFICES ASSUME TInv, NEW t \in Task, NEW f \in Active(t)
               PROVE  \E k \in earned[t] : /\ k.epoch = curEpoch
                                           /\ k.program = image[t]
                                           /\ f \in k.flags
    BY DEF PrivilegesGrounded
  <2>1. meta[t].epoch = curEpoch /\ f \in meta[t].flags
    BY DEF Active
  <2>2. QED BY <2>1 DEF TInv, FlagInv, Granted
<1>2. QED BY <1>1, Invariance, PTL

\* A task is held to be the program it runs, or none.
THEOREM ProgramIsTrue == MetaSpec => []ProgramTrue
<1>1. TInv => ProgramTrue
  BY DEF TInv, MetaTypeOK, ProgramInv, ProgramTrue
<1>2. QED BY <1>1, Invariance, PTL

=============================================================================
