------------------------- MODULE TealdLedger_proofs --------------------------
(***************************************************************************)
(* Proofs about TealdLedger, for any requests, tickets, policies, epochs   *)
(* and any room in the channels.                                           *)
(*                                                                         *)
(* A ticket is in one place at a time: its request or approval is yet to   *)
(* be judged, a job holds it, it is on its way to the kernel, the kernel   *)
(* has it, or its last report is under way (StageInv).  So the report that *)
(* clears the entry comes after everything that needs it, and what clears  *)
(* entries before is seen in `wiped'.                                      *)
(***************************************************************************)
EXTENDS TealdLedger, TLAPS

-----------------------------------------------------------------------------
(* The strengthening. *)

IsJob(t) == "pc" \in DOMAIN t
Jobs == {t \in tasks : IsJob(t)}

InSocket(r) == \E k \in DOMAIN socket : IsAsking(socket[k]) /\ socket[k].req = r
InDecision(r) == \E k \in DOMAIN decision : decision[k] = r
InAudit(r) == \E k \in DOMAIN audit : IsAsking(audit[k]) /\ audit[k].req = r

\* A request is in one place, and stands accordingly.
Once(seq) ==
    \A k, l \in DOMAIN seq :
        IsAsking(seq[k]) /\ IsAsking(seq[l]) /\ seq[k].req = seq[l].req => k = l

PlaceInv ==
    /\ Once(socket) /\ Once(audit)
    /\ \A k, l \in DOMAIN decision : decision[k] = decision[l] => k = l
    /\ \A k \in DOMAIN socket : IsAsking(socket[k]) =>
           state[socket[k].req] = IF socket[k].audited THEN "audited" ELSE "waits"
    /\ \A k \in DOMAIN decision : state[decision[k]] = "waits"
    /\ \A k \in DOMAIN audit : IsAsking(audit[k]) =>
           audit[k].audited /\ state[audit[k].req] = "audited"
    /\ worker.pc # "idle" => state[worker.req] \in {"waits", "passed", "parked"}
    /\ \A t \in Jobs : state[t.req] = "audited"
    /\ \A r \in Request : InSocket(r) => /\ ~InDecision(r) /\ ~InAudit(r)
                                         /\ worker.pc # "idle" => worker.req # r
                                         /\ \A t \in Jobs : t.req # r
    /\ \A r \in Request : InDecision(r) /\ worker.pc # "idle" => worker.req # r
    /\ \A r \in Request : InAudit(r) => \A t \in Jobs : t.req # r
    /\ \A t, u \in Jobs : t.req = u.req => t = u

\* What a job is about, by the step it is at.
JobInv ==
    /\ worker.pc = "idle" => worker = NoJob
    /\ worker.pc # "idle" => worker.req \in Request /\ worker.epoch \in Epoch
    /\ worker.pc = "judge" => worker.id = None /\ worker.says = "none"
    /\ worker.id \in Request => worker.id = worker.req
    /\ worker.pc \in {"check", "insert"} => worker.id \in Request
    /\ worker.pc = "hydrate" => worker.id \in Grant
    /\ worker.pc \in {"ticket", "enqueue"} => worker.id # None
    /\ worker.pc # "log" /\ worker.says # "approval"
    /\ \A t \in Jobs :
           /\ t.pc \in {"judge", "insert", "ticket", "enqueue", "log"}
           /\ t.req \in Request
           /\ t.pc # "judge" => t.epoch \in Epoch /\ t.says # "none"
           /\ t.id \in {t.req, Standing, None}
           /\ t.pc = "judge" => t.id = None
           /\ t.pc = "insert" => t.id = t.req
           /\ t.pc \in {"ticket", "enqueue"} => t.id # None

\* The stages of a ticket: not judged yet, held by a job, on its way to the
\* kernel, in the kernel, its last report under way.
Fresh(i) ==
    \/ i \in Grant /\ approved[i] # "spent"
    \/ i \in Request /\ \/ state[i] = "new"
                        \/ InSocket(i) \/ InDecision(i) \/ InAudit(i)
                        \/ worker.pc = "judge" /\ worker.req = i
                        \/ \E t \in Jobs : t.pc = "judge" /\ t.req = i
Held(i) ==
    \/ worker.id = i /\ worker.pc \in {"check", "hydrate", "approve", "ticket", "enqueue"}
    \/ \E t \in Jobs : t.id = i /\ t.pc \in {"insert", "ticket", "enqueue"}
InLane(i) == \E k \in DOMAIN lane : lane[k].kind = "ticket" /\ lane[k].id = i
InKernel(i) == \E t \in kernel.tickets : t.id = i
Ending(i) == \E m \in Outstanding : m.id = i /\ LastReport(m)

OneStage(i) ==
    /\ Fresh(i) => ~Held(i) /\ ~InLane(i) /\ ~InKernel(i) /\ ~Ending(i)
    /\ Held(i) => ~InLane(i) /\ ~InKernel(i) /\ ~Ending(i)
    /\ InLane(i) => ~InKernel(i) /\ ~Ending(i)
    /\ InKernel(i) => ~Ending(i)

SentOnce ==
    \A k, l \in DOMAIN lane :
        (/\ lane[k].kind = "ticket" /\ lane[l].kind = "ticket"
         /\ lane[k].id = lane[l].id /\ lane[k].id # Standing) => k = l

StageInv ==
    /\ \A i \in Id : OneStage(i)
    /\ SentOnce
    /\ \A t, u \in kernel.tickets : t.id = u.id => t = u

\* The epochs.  While it changes, nothing of the new epoch is sent.
EpochInv ==
    /\ transition \in {"sync", "ack", "commit"} => epoch < MaxEpoch
    /\ kernel.epoch = IF transition = "commit" THEN epoch + 1 ELSE epoch
    /\ transition \in {"commit", "clear", "open"} => kernel.tickets = {}
    /\ \A t \in kernel.tickets : t.epoch <= epoch
    /\ \A k \in DOMAIN lane :
           /\ lane[k].kind = "ticket" => lane[k].epoch <= epoch
           /\ lane[k].kind = "sync" => /\ transition = "ack"
                                       /\ lane[k].epoch = epoch + 1
                                       /\ \A l \in DOMAIN lane : lane[l].kind = "sync" => l = k
    /\ worker.epoch <= epoch /\ \A t \in Jobs : t.epoch <= epoch
    /\ \A k \in DOMAIN events : events[k].epoch <= epoch
    /\ \A t \in tasks : t \in Resolved => t.epoch <= epoch
    /\ transition \in {"clear", "open"} =>
           /\ \A k \in DOMAIN lane : lane[k].kind = "ticket" => lane[k].epoch < epoch
           /\ worker.pc = "enqueue" => worker.epoch < epoch
           /\ \A t \in Jobs : t.pc = "enqueue" => t.epoch < epoch

\* What may yet be used in the epoch, and is in the ledger.
Live(i) ==
    \/ \E t \in kernel.tickets : t.id = i /\ t.epoch = epoch
    \/ \E k \in DOMAIN lane :
           lane[k].kind = "ticket" /\ lane[k].id = i /\ lane[k].epoch = epoch
    \/ /\ worker.id = i /\ i \in Grant /\ worker.epoch = epoch
       /\ worker.pc \in {"approve", "ticket", "enqueue"}
    \/ \E t \in Jobs : t.id = i /\ t.epoch = epoch /\ t.pc \in {"ticket", "enqueue"}
Entered(i) ==
    \/ i \in ledger
    \/ worker.pc = "insert" /\ worker.id = i
    \/ wiped[i] \in {"switch", "hand"}

EntryInv == \A i \in Id : Live(i) => Entered(i)

Silent(r) == kernel.told[r] = "none" /\ \A k \in DOMAIN lane : ~Answers(lane[k], r)

\* What is said of a decision, while its epoch lasts.
Holds(e, r, says) == e = epoch /\ says # "none" => ToldFirst(r, says)

ToldInv ==
    /\ \A r \in Request : state[r] = "new" => logged[r] = "none"
    /\ \A r \in Request : state[r] = "new" \/ InSocket(r) \/ InDecision(r) => Silent(r)
    /\ worker.pc \in {"judge", "check", "hydrate", "approve"} => Silent(worker.req)
    /\ worker.pc \in {"check", "approve", "hydrate", "ticket", "enqueue", "insert"}
           => worker.says # "deny"
    /\ worker.pc \in {"ticket", "enqueue", "insert", "resolve"}
           => Holds(worker.epoch, worker.req, worker.says)
    /\ worker.pc = "deny" => \/ worker.says = "deny" /\ Silent(worker.req)
                             \/ Holds(worker.epoch, worker.req, worker.says)
    /\ \A k \in DOMAIN events : Holds(events[k].epoch, events[k].req, events[k].says)
    /\ \A t \in tasks : t \in Resolved => Holds(t.epoch, t.req, t.says)

LInv ==
    /\ TypeOK /\ PlaceInv /\ JobInv /\ StageInv /\ EpochInv /\ EntryInv
    /\ ReportsFindEntries /\ ToldInv /\ LoggedAsTold

-----------------------------------------------------------------------------
(* Records and sequences. *)

LEMMA Kinds ==
    /\ \A m \in Asking : /\ IsAsking(m) /\ ~IsJob(m)
                         /\ m.req \in Request /\ m.audited \in BOOLEAN
    /\ \A m \in Report : /\ ~IsAsking(m) /\ ~IsJob(m) /\ m.id \in Id
                         /\ m.left \in 0 .. MaxUses /\ m.expired \in BOOLEAN
    /\ \A t \in Job : IsAsking(t) /\ IsJob(t)
    /\ \A t \in Resolved : IsAsking(t) /\ ~IsJob(t)
<1>1. \A m \in Asking : /\ IsAsking(m) /\ ~IsJob(m)
                        /\ m.req \in Request /\ m.audited \in BOOLEAN
  BY DEF IsAsking, IsJob, Asking
<1>2. \A m \in Report : /\ ~IsAsking(m) /\ ~IsJob(m) /\ m.id \in Id
                        /\ m.left \in 0 .. MaxUses /\ m.expired \in BOOLEAN
  BY DEF IsAsking, IsJob, Report
<1>3. \A t \in Job : IsAsking(t) /\ IsJob(t)
  BY DEF IsAsking, IsJob, Job
<1>4. \A t \in Resolved : IsAsking(t) /\ ~IsJob(t)
  BY DEF IsAsking, IsJob, Resolved
<1>5. QED BY <1>1, <1>2, <1>3, <1>4

LEMMA TailIs ==
    ASSUME NEW S, NEW s \in Seq(S), s # <<>>
    PROVE  /\ Head(s) = s[1] /\ 1 \in DOMAIN s /\ s[1] \in S /\ Len(s) \in Nat \ {0}
           /\ Tail(s) \in Seq(S) /\ Len(Tail(s)) = Len(s) - 1
           /\ \A k \in DOMAIN Tail(s) :
                  /\ k \in Nat \ {0} /\ k + 1 \in DOMAIN s
                  /\ Tail(s)[k] = s[k + 1] /\ Tail(s)[k] \in S
           /\ \A k \in DOMAIN s : k = 1 \/ (k - 1 \in DOMAIN Tail(s) /\ Tail(s)[k - 1] = s[k])
OBVIOUS

LEMMA AppendIs ==
    ASSUME NEW S, NEW s \in Seq(S), NEW e \in S
    PROVE  /\ Append(s, e) \in Seq(S) /\ Len(Append(s, e)) = Len(s) + 1 /\ Len(s) \in Nat
           /\ Len(s) + 1 \in DOMAIN Append(s, e) /\ Append(s, e)[Len(s) + 1] = e
           /\ Len(s) + 1 \notin DOMAIN s
           /\ \A k \in DOMAIN s : k \in DOMAIN Append(s, e) /\ Append(s, e)[k] = s[k]
           /\ \A k \in DOMAIN Append(s, e) : k \in DOMAIN s \/ k = Len(s) + 1
OBVIOUS

LEMMA TasksAre ==
    ASSUME TypeOK
    PROVE  /\ Jobs \subseteq Job /\ tasks \cap Job = Jobs
           /\ \A t \in tasks : /\ IsJob(t) <=> t \in Job
                               /\ ~IsAsking(t) <=> t \in Report
                               /\ IsAsking(t) /\ ~IsJob(t) <=> t \in Resolved
           /\ \A t \in Jobs : t \in tasks /\ IsJob(t) /\ IsAsking(t)
<1>1. tasks \subseteq Job \cup Report \cup Resolved
  BY DEF TypeOK
<1>2. QED BY <1>1, Kinds DEF Jobs

-----------------------------------------------------------------------------
(* Types. *)

LEMMA InitTyped == Init => TypeOK
<1> SUFFICES ASSUME Init PROVE TypeOK
  OBVIOUS
<1>1. NoJob \in Job
  BY DEF NoJob, Job
<1>2. /\ epoch \in Epoch /\ switches \in 0 .. MaxSwitch
      /\ {SocketRoom, LaneRoom, EventRoom, SendRoom} \subseteq Nat
  BY LedgerAssumption DEF Init, Epoch
<1>3. kernel \in [epoch : Epoch,
                  tickets : SUBSET [id : Id, epoch : Epoch, left : 1 .. MaxUses],
                  told : [Request -> {"none", "allow", "deny"}]]
  BY <1>2 DEF Init
<1>4. /\ socket \in Seq(Asking \cup Report) /\ Len(socket) <= SocketRoom
      /\ decision \in Seq(Request) /\ Len(decision) <= LaneRoom
      /\ audit \in Seq(Asking \cup Report) /\ Len(audit) <= LaneRoom
      /\ events \in Seq(Resolved) /\ Len(events) <= EventRoom
      /\ lane \in Seq(Message) /\ Len(lane) <= SendRoom
  BY <1>2 DEF Init
<1>5. QED BY <1>1, <1>2, <1>3, <1>4 DEF Init, TypeOK

LEMMA ArrivesTyped ==
    ASSUME TypeOK, NEW m \in Asking \cup Report, Arrives(m)
    PROVE  socket' \in Seq(Asking \cup Report) /\ Len(socket') <= SocketRoom
<1> DEFINE S == Asking \cup Report
<1> HIDE DEF S
<1>1. socket \in Seq(S) /\ Len(socket) <= SocketRoom /\ m \in S /\ SocketRoom \in Nat
  BY LedgerAssumption DEF TypeOK, S
<1>2. socket' = socket \/ (socket' = Append(socket, m) /\ Len(socket) < SocketRoom)
  BY DEF Arrives
<1>3. socket' \in Seq(S) /\ Len(socket') <= SocketRoom
  BY <1>1, <1>2, AppendIs
<1>4. QED BY <1>3 DEF S

LEMMA SendTyped ==
    ASSUME TypeOK, NEW m \in Message, Send(m)
    PROVE  lane' \in Seq(Message) /\ Len(lane') <= SendRoom
<1> HIDE DEF Message
<1>1. lane \in Seq(Message) /\ SendRoom \in Nat /\ Len(lane) < SendRoom /\ lane' = Append(lane, m)
  BY LedgerAssumption DEF TypeOK, Send
<1>2. QED BY <1>1, AppendIs

\* The records that the actions make.
LEMMA Made ==
    /\ NoJob \in Job
    /\ \A r \in Request, a \in BOOLEAN : Asked(r, a) \in Asking
    /\ \A i \in Id, n \in 0 .. MaxUses, g \in BOOLEAN : Reported(i, n, g) \in Report
    /\ \A r \in Request, k \in {"approve", "deny"} : Answering(k, r) \in Message
    /\ \A i \in Id \cup {Standing}, e \in Epoch : Adding(i, e) \in Message
    /\ \A e \in Epoch : Syncing(e) \in Message
<1>1. NoJob \in Job
  BY DEF NoJob, Job
<1>2. QED BY <1>1 DEF Asked, Asking, Reported, Report, Answering, Adding, Syncing, Message

LEMMA TicketTyped ==
    ASSUME TypeOK, NEW t \in kernel.tickets
    PROVE  /\ t \in [id : Id, epoch : Epoch, left : 1 .. MaxUses]
           /\ t.left # 1 => [t EXCEPT !.left = @ - 1]
                                \in [id : Id, epoch : Epoch, left : 1 .. MaxUses]
           /\ t.left - 1 \in 0 .. MaxUses /\ t.left \in 0 .. MaxUses
           /\ t.id \in Id /\ t.epoch \in Epoch
<1>1. t \in [id : Id, epoch : Epoch, left : 1 .. MaxUses] /\ MaxUses \in Nat
  BY LedgerAssumption DEF TypeOK
<1> HIDE DEF Id, Epoch
<1>2. QED BY <1>1

LEMMA KernelTyped ==
    ASSUME TypeOK,
           \/ \E r \in Request, audited \in BOOLEAN : Ask(r, audited)
           \/ \E t \in kernel.tickets, report \in BOOLEAN :
                  UseTicket(t, report) \/ ExpireTicket(t, report)
    PROVE  TypeOK'
<1>1. ASSUME NEW r \in Request, NEW audited \in BOOLEAN, Ask(r, audited) PROVE TypeOK'
  <2>1. socket' \in Seq(Asking \cup Report) /\ Len(socket') <= SocketRoom
    BY <1>1, ArrivesTyped, Made DEF Ask
  <2>2. state' \in [Request -> {"new", "lost", "waits", "audited", "parked", "passed"}]
    BY <1>1 DEF Ask, TypeOK
  <2>3. QED BY <1>1, <2>1, <2>2 DEF Ask, KernelOnly, policyVars, historyVars, TypeOK
<1>2. ASSUME NEW t \in kernel.tickets, NEW report \in BOOLEAN,
             UseTicket(t, report) \/ ExpireTicket(t, report)
      PROVE  TypeOK'
  <2> DEFINE Ticket == [id : Id, epoch : Epoch, left : 1 .. MaxUses]
  <2>1. /\ t \in Ticket /\ (t.left # 1 => [t EXCEPT !.left = @ - 1] \in Ticket)
        /\ Reported(t.id, t.left - 1, FALSE) \in Report /\ Reported(t.id, t.left, TRUE) \in Report
    BY TicketTyped, Made
  <2>2. socket' \in Seq(Asking \cup Report) /\ Len(socket') <= SocketRoom
    <3>1. CASE UNCHANGED socket
      BY <3>1 DEF TypeOK
    <3>2. CASE \E m \in Report : Arrives(m)
      BY <3>2, ArrivesTyped
    <3>3. QED BY <1>2, <2>1, <3>1, <3>2 DEF UseTicket, ExpireTicket
  <2> HIDE DEF Ticket
  <2>3. kernel \in [epoch : Epoch, tickets : SUBSET Ticket,
                    told : [Request -> {"none", "allow", "deny"}]]
    BY DEF TypeOK, Ticket
  <2>4. PICK T \in SUBSET Ticket : kernel' = [kernel EXCEPT !.tickets = T]
    <3>1. CASE UseTicket(t, report)
      BY <2>1, <2>3, <3>1 DEF UseTicket
    <3>2. CASE ExpireTicket(t, report)
      BY <2>3, <3>2 DEF ExpireTicket
    <3>3. QED BY <1>2, <3>1, <3>2
  <2>5. kernel' \in [epoch : Epoch, tickets : SUBSET Ticket,
                     told : [Request -> {"none", "allow", "deny"}]]
    BY <2>3, <2>4
  <2>6. UNCHANGED state /\ KernelOnly
    BY <1>2 DEF UseTicket, ExpireTicket
  <2>7. QED BY <2>2, <2>5, <2>6 DEF KernelOnly, policyVars, historyVars, TypeOK, Ticket
<1>3. QED BY <1>1, <1>2

LEMMA ReceiveTyped == ASSUME TypeOK, Receive PROVE TypeOK'
<1> DEFINE S == Asking \cup Report
<1>1. \A m \in S : IsAsking(m) => m.req \in Request
  BY Kinds
<1> HIDE DEF S
<1>2. /\ socket \in Seq(S) /\ Len(socket) <= SocketRoom /\ audit \in Seq(S)
      /\ decision \in Seq(Request) /\ socket # <<>> /\ socket' = Tail(socket)
      /\ Len(decision) <= LaneRoom /\ Len(audit) <= LaneRoom
      /\ SocketRoom \in Nat /\ LaneRoom \in Nat
  BY LedgerAssumption DEF TypeOK, Receive, S
<1>3. socket' \in Seq(S) /\ Len(socket') <= SocketRoom /\ Head(socket) \in S
  BY <1>2, TailIs
<1>4. decision' \in Seq(Request) /\ Len(decision') <= LaneRoom
  <2>1. \/ decision' = decision
        \/ /\ IsAsking(Head(socket)) /\ Len(decision) < LaneRoom
           /\ decision' = Append(decision, Head(socket).req)
    BY DEF Receive, Put
  <2>2. CASE decision' # decision
    <3>1. Head(socket).req \in Request
      BY <1>1, <1>3, <2>1, <2>2
    <3>2. decision \in Seq(Request)
      BY <1>2
    <3>3. Append(decision, Head(socket).req) \in Seq(Request)
          /\ Len(Append(decision, Head(socket).req)) = Len(decision) + 1 /\ Len(decision) \in Nat
      BY <3>1, <3>2, AppendIs
    <3>4. Len(decision) < LaneRoom /\ LaneRoom \in Nat
      BY <1>2, <2>1, <2>2
    <3>5. Len(decision) + 1 <= LaneRoom
      BY <3>3, <3>4
    <3>6. decision' = Append(decision, Head(socket).req)
      BY <2>1, <2>2
    <3> HIDE DEF S
    <3>7. QED BY <3>3, <3>5, <3>6
  <2>3. QED BY <1>2, <2>2
<1>5. audit' \in Seq(S) /\ Len(audit') <= LaneRoom
  <2>1. audit' = audit \/ (Len(audit) < LaneRoom /\ audit' = Append(audit, Head(socket)))
    BY DEF Receive, Put
  <2>2. audit \in Seq(S) /\ Head(socket) \in S
    BY <1>2, <1>3
  <2>3. Append(audit, Head(socket)) \in Seq(S) /\ Len(audit) \in Nat
        /\ Len(Append(audit, Head(socket))) = Len(audit) + 1
    BY <2>2, AppendIs
  <2>4. CASE audit' # audit
    <3>1. Len(audit) < LaneRoom /\ LaneRoom \in Nat /\ audit' = Append(audit, Head(socket))
      BY <1>2, <2>1, <2>4
    <3>2. Len(audit) + 1 <= LaneRoom
      BY <2>3, <3>1
    <3>3. QED BY <2>3, <3>1, <3>2
  <2>5. QED BY <1>2, <2>4
<1>6. QED BY <1>3, <1>4, <1>5 DEF Receive, policyVars, historyVars, TypeOK, S

LEMMA SenderTyped ==
    ASSUME TypeOK, EpochInv, SenderStep
    PROVE  TypeOK'
<1>1. ASSUME NEW kind, Dispatch(kind) PROVE lane' \in Seq(Message) /\ Len(lane') <= SendRoom
  <2> HIDE DEF Message
  <2>1. lane \in Seq(Message) /\ SendRoom \in Nat /\ Len(lane) <= SendRoom
        /\ lane # <<>> /\ lane' = Tail(lane)
    BY <1>1, LedgerAssumption DEF TypeOK, Dispatch
  <2>2. QED BY <2>1, TailIs
<1>2. ASSUME NEW kind, Dispatch(kind)
      PROVE  Head(lane) \in Message /\ Head(lane).kind = kind /\ Head(lane) = lane[1]
             /\ 1 \in DOMAIN lane
  <2> HIDE DEF Message
  <2>1. lane \in Seq(Message) /\ lane # <<>> /\ Head(lane).kind = kind
    BY <1>2 DEF TypeOK, Dispatch
  <2>2. QED BY <2>1, TailIs
<1> DEFINE Ticket == [id : Id, epoch : Epoch, left : 1 .. MaxUses]
           Kernel == [epoch : Epoch, tickets : SUBSET Ticket,
                      told : [Request -> {"none", "allow", "deny"}]]
<1>3. kernel \in Kernel
  BY DEF TypeOK
<1>4. ASSUME NEW kind, NEW says \in {"allow", "deny"}, DispatchAnswer(kind, says)
      PROVE  TypeOK'
  <2> HIDE DEF Ticket
  <2>1. kernel' \in Kernel
    BY <1>3, <1>4 DEF DispatchAnswer
  <2>2. lane' \in Seq(Message) /\ Len(lane') <= SendRoom
    BY <1>1, <1>4 DEF DispatchAnswer
  <2>3. QED BY <1>4, <2>1, <2>2 DEF DispatchAnswer, Dispatch, inVars, historyVars, TypeOK, Ticket
<1>5. ASSUME DispatchTicket PROVE TypeOK'
  <2>1. Dispatch("ticket") /\ UNCHANGED transition
    BY <1>5 DEF DispatchTicket
  <2> DEFINE m == Head(lane)
             new == [id |-> m.id, epoch |-> m.epoch, left |-> MaxUses]
  <2>2. m.id \in Id \cup {Standing} /\ m.epoch \in Epoch
    BY <1>2, <2>1 DEF Message
  <2>3. m.id # Standing => new \in Ticket
    BY <2>2, LedgerAssumption
  <2> HIDE DEF Ticket, m, new
  <2>4. kernel' = kernel \/ (m.id # Standing /\ kernel' = [kernel EXCEPT !.tickets = @ \cup {new}])
    BY <1>5 DEF DispatchTicket, m, new
  <2>5. kernel' \in Kernel
    BY <1>3, <2>3, <2>4
  <2>6. lane' \in Seq(Message) /\ Len(lane') <= SendRoom
    BY <1>1, <2>1
  <2>7. QED BY <2>1, <2>5, <2>6 DEF Dispatch, inVars, historyVars, TypeOK, Ticket
<1>6. ASSUME DispatchSync PROVE TypeOK'
  <2>1. Dispatch("sync") /\ transition' = "commit"
        /\ kernel' = [kernel EXCEPT !.epoch = Head(lane).epoch, !.tickets = {}]
    BY <1>6 DEF DispatchSync
  <2>2. Head(lane).epoch \in Epoch
    BY <1>2, <2>1 DEF Message
  <2>3. kernel' \in Kernel
    BY <1>3, <2>1, <2>2
  <2>4. lane' \in Seq(Message) /\ Len(lane') <= SendRoom
    BY <1>1, <2>1
  <2>5. QED BY <2>1, <2>3, <2>4 DEF Dispatch, inVars, historyVars, TypeOK
<1>7. QED BY <1>4, <1>5, <1>6 DEF SenderStep

\* A step of the decision worker leaves it at a step of the same request.
LEMMA WorkerTyped ==
    ASSUME TypeOK, JobInv, WorkerStep
    PROVE  TypeOK'
<1> DEFINE PC == {"idle", "judge", "check", "hydrate", "approve", "ticket",
                  "enqueue", "insert", "deny", "resolve", "log"}
           Says == {"allow", "deny", "approval", "none"}
<1>1. /\ worker \in Job /\ worker.req \in Request \cup {None} /\ worker.epoch \in Epoch \cup {0}
      /\ worker.id \in Id \cup {Standing, None}
  BY DEF TypeOK, Job
<1>2. worker.pc # "idle" => worker.req \in Request /\ worker.epoch \in Epoch
  BY DEF JobInv
<1>3. \A p \in PC, s \in Says, i \in Id \cup {Standing, None} :
          [worker EXCEPT !.pc = p, !.id = i, !.says = s] \in Job
          /\ [worker EXCEPT !.pc = p] \in Job /\ [worker EXCEPT !.pc = p, !.id = i] \in Job
  BY <1>1 DEF Job
<1>4. Request \subseteq Id /\ Grant \subseteq Id
  BY DEF Id
<1>5. WorkOnly
  BY DEF WorkerStep, Take, Judge, JudgeApproved, JudgePending, Check, Hydrate,
     Approve, SendTicketAdd, Enqueue, Insert, Deny, Resolve, At
<1>6. worker' \in Job
  <2>1. CASE Take
    <3>1. Head(decision) \in Request
      BY <2>1, TailIs DEF Take, TypeOK
    <3>2. QED BY <2>1, <3>1, Made DEF Take, TypeOK, Job
  <2>2. ASSUME NEW effect \in Policies, Judge(effect) PROVE worker' \in Job
    <3>1. worker.pc = "judge" /\ worker.req \in Id
      BY <1>2, <1>4, <2>2 DEF Judge, At
    <3> DEFINE p == CASE effect = "ticket" -> "check"
                      [] effect = "deny" -> "deny"
                      [] OTHER -> "approve"
               i == CASE effect = "ticket" -> worker.req
                      [] effect = "pass" -> Standing
                      [] OTHER -> None
               s == IF effect = "deny" THEN "deny" ELSE "allow"
    <3>2. worker' = [worker EXCEPT !.pc = p, !.id = i, !.says = s]
      BY <2>2 DEF Judge
    <3>3. p \in PC /\ i \in Id \cup {Standing, None} /\ s \in Says
      BY <3>1
    <3> HIDE DEF p, i, s
    <3>4. QED BY <1>3, <3>2, <3>3
  <2>3. ASSUME NEW g \in Grant, JudgeApproved(g) PROVE worker' \in Job
    BY <1>3, <1>4, <2>3 DEF JudgeApproved
  <2>4. CASE Resolve
    BY <2>4, Made DEF Resolve
  <2>5. CASE JudgePending \/ Check \/ Hydrate \/ Approve \/ SendTicketAdd \/ Enqueue \/ Insert \/ Deny
    <3>1. PICK p \in PC : Goto(p)
      BY <2>5 DEF JudgePending, Check, Hydrate, Approve, SendTicketAdd,
         Enqueue, Insert, Deny, Refused
    <3>2. QED BY <1>3, <3>1 DEF Goto
  <2>6. QED BY <2>1, <2>2, <2>3, <2>4, <2>5 DEF WorkerStep
<1>7. decision' \in Seq(Request) /\ Len(decision') <= LaneRoom
  <2>1. decision \in Seq(Request) /\ Len(decision) <= LaneRoom /\ LaneRoom \in Nat
    BY LedgerAssumption DEF TypeOK
  <2>2. decision' = decision \/ (decision # <<>> /\ decision' = Tail(decision))
    BY DEF WorkerStep, Take, Judge, JudgeApproved, JudgePending, Check,
       Hydrate, Approve, SendTicketAdd, Enqueue, Insert, Deny, Resolve, At
  <2>3. QED BY <2>1, <2>2, TailIs
<1>8. lane' \in Seq(Message) /\ Len(lane') <= SendRoom
  <2>1. CASE UNCHANGED lane
    BY <2>1 DEF TypeOK
  <2>2. CASE Approve
    BY <1>2, <2>2, Made, SendTyped DEF Approve, At
  <2>3. CASE Deny
    BY <1>2, <2>3, Made, SendTyped DEF Deny, At
  <2>4. CASE Enqueue
    <3>1. worker.id \in Id \cup {Standing} /\ worker.epoch \in Epoch /\ Send(Adding(worker.id, worker.epoch))
      BY <1>1, <1>2, <2>4 DEF Enqueue, At, JobInv
    <3>2. QED BY <3>1, Made, SendTyped
  <2>5. QED BY <2>1, <2>2, <2>3, <2>4 DEF WorkerStep, Take, Judge, JudgeApproved, JudgePending,
     Check, Hydrate, SendTicketAdd, Insert, Resolve
<1>9. events' \in Seq(Resolved) /\ Len(events') <= EventRoom
  <2>1. CASE UNCHANGED events
    BY <2>1 DEF TypeOK
  <2>2. CASE Resolve
    <3> DEFINE e == [req |-> worker.req, says |-> worker.says, epoch |-> worker.epoch]
    <3>1. e \in Resolved
      BY <1>1, <1>2, <2>2 DEF Resolve, At, Resolved, Job, JobInv
    <3> HIDE DEF e
    <3>2. events \in Seq(Resolved) /\ Len(events) < EventRoom /\ events' = Append(events, e)
          /\ EventRoom \in Nat
      BY <2>2, LedgerAssumption DEF Resolve, Put, TypeOK, e
    <3>3. QED BY <3>1, <3>2, AppendIs
  <2>3. QED BY <2>1, <2>2 DEF WorkerStep, Take, Judge, JudgeApproved, JudgePending,
     Check, Hydrate, Approve, SendTicketAdd, Enqueue, Insert, Deny
<1>10. ledger' \subseteq Id
  <2>1. worker.pc \in {"hydrate", "insert"} => worker.id \in Id
    BY <1>4 DEF JobInv
  <2>2. CASE ledger' = ledger
    BY <2>2 DEF TypeOK
  <2>3. CASE ledger' # ledger
    <3>1. PICK i \in Id : ledger' = ledger \cup {i}
      BY <1>4, <2>1, <2>3 DEF WorkerStep, Take, Judge, JudgeApproved,
         JudgePending, Check, Hydrate, Approve, SendTicketAdd, Enqueue, Insert,
         Deny, Resolve, At
    <3>2. QED BY <3>1 DEF TypeOK
  <2>4. QED BY <2>2, <2>3
<1>11. approved' \in [Grant -> {"no", "ready", "spent"}]
       /\ state' \in [Request -> {"new", "lost", "waits", "audited", "parked", "passed"}]
  BY DEF TypeOK, WorkerStep, Take, Judge, JudgeApproved, JudgePending, Check,
     Hydrate, Approve, SendTicketAdd, Enqueue, Insert, Deny, Resolve
<1>12. QED
  BY <1>5, <1>6, <1>7, <1>8, <1>9, <1>10, <1>11 DEF WorkOnly, historyVars,
     TypeOK

LEMMA TakeMessageTyped == ASSUME TypeOK, TakeMessage PROVE TypeOK'
<1> DEFINE S == Asking \cup Report
           m == Head(audit)
<1>1. audit \in Seq(S) /\ Len(audit) <= LaneRoom /\ audit # <<>> /\ audit' = Tail(audit)
      /\ LaneRoom \in Nat
  BY LedgerAssumption DEF TypeOK, TakeMessage
<1> HIDE DEF S
<1>2. audit' \in Seq(S) /\ Len(audit') <= LaneRoom /\ m \in S
  BY <1>1, TailIs
<1> HIDE DEF m
<1>3. (IsAsking(m) => m \in Asking) /\ (~IsAsking(m) => m \in Report)
  BY <1>2, Kinds DEF S
<1>4. tasks' \subseteq Job \cup Report \cup Resolved
  <2>1. IsAsking(m) => [NoJob EXCEPT !.pc = "judge", !.req = m.req] \in Job
    BY <1>3, Kinds, Made DEF Job
  <2>2. \/ tasks' = tasks
        \/ IsAsking(m) /\ tasks' = tasks \cup {[NoJob EXCEPT !.pc = "judge", !.req = m.req]}
        \/ ~IsAsking(m) /\ tasks' = tasks \cup {m}
    BY DEF TakeMessage, m
  <2> HIDE DEF Job, Report, Resolved
  <2>3. QED BY <1>3, <2>1, <2>2 DEF TypeOK
<1>5. state' \in [Request -> {"new", "lost", "waits", "audited", "parked", "passed"}]
  BY DEF TakeMessage, TypeOK
<1>6. QED BY <1>2, <1>4, <1>5 DEF TakeMessage, AuditOnly, policyVars, historyVars, TypeOK, S

LEMMA TakeEventTyped == ASSUME TypeOK, TakeEvent PROVE TypeOK'
<1>1. events \in Seq(Resolved) /\ Len(events) <= EventRoom /\ events # <<>> /\ events' = Tail(events)
      /\ EventRoom \in Nat
  BY LedgerAssumption DEF TypeOK, TakeEvent
<1>2. events' \in Seq(Resolved) /\ Len(events') <= EventRoom /\ Head(events) \in Resolved
  BY <1>1, TailIs
<1>3. tasks' \subseteq Job \cup Report \cup Resolved
  BY <1>2 DEF TakeEvent, TypeOK
<1>4. QED BY <1>2, <1>3 DEF TakeEvent, AuditOnly, policyVars, historyVars, TypeOK

\* A task that goes on.
LEMMA AtTaskIs ==
    ASSUME TypeOK, NEW t, NEW pc, AtTask(t, pc)
    PROVE  t \in Jobs /\ t \in Job /\ t \in tasks /\ t.pc = pc /\ TaskOnly
BY TasksAre DEF AtTask, Jobs, IsJob

LEMMA AuditJudgeIs ==
    ASSUME TypeOK, JobInv, NEW t \in tasks, NEW effect \in Policies, AuditJudge(t, effect)
    PROVE  \E u \in Job :
               /\ Becomes(t, u) /\ u.req = t.req /\ u.epoch = epoch
               /\ \/ u.pc = "insert" /\ u.id = t.req
                  \/ u.pc = "ticket" /\ u.id = Standing
                  \/ u.pc = "log" /\ u.id = None
               /\ u.says \in {"allow", "deny", "approval"}
<1>1. t \in Job /\ t.req \in Request
  BY AtTaskIs DEF AuditJudge, JobInv
<1>2. t.req \in Id /\ epoch \in Epoch
  BY <1>1 DEF Id, TypeOK
<1> DEFINE p == CASE effect = "ticket" -> "insert"
                  [] effect = "pass" -> "ticket"
                  [] OTHER -> "log"
           i == CASE effect = "ticket" -> t.req
                  [] effect = "pass" -> Standing
                  [] OTHER -> None
           s == IF effect \in {"deny", "approval"} THEN effect ELSE "allow"
           u == [t EXCEPT !.epoch = epoch, !.pc = p, !.id = i, !.says = s]
<1>3. Becomes(t, u)
  BY DEF AuditJudge
<1>4. /\ \/ p = "insert" /\ i = t.req
         \/ p = "ticket" /\ i = Standing
         \/ p = "log" /\ i = None
      /\ i \in Id \cup {Standing, None} /\ s \in {"allow", "deny", "approval"}
  BY <1>2
<1> HIDE DEF p, i, s
<1>5. /\ u \in Job /\ u.req = t.req /\ u.epoch = epoch /\ u.pc = p /\ u.id = i /\ u.says = s
  BY <1>1, <1>2, <1>4 DEF Job
<1> HIDE DEF u
<1>6. QED BY <1>3, <1>4, <1>5

LEMMA GotoTaskIs ==
    ASSUME NEW t \in Job, NEW p \in {"ticket", "enqueue", "log"}, GotoTask(t, p)
    PROVE  \E u \in Job : /\ Becomes(t, u) /\ u.pc = p
                          /\ u.req = t.req /\ u.epoch = t.epoch /\ u.id = t.id /\ u.says = t.says
<1> DEFINE u == [t EXCEPT !.pc = p]
<1>1. u \in Job /\ u.pc = p /\ u.req = t.req /\ u.epoch = t.epoch /\ u.id = t.id /\ u.says = t.says
  BY DEF Job
<1>2. Becomes(t, u)
  BY DEF GotoTask
<1>3. QED BY <1>1, <1>2

LEMMA TaskTyped ==
    ASSUME TypeOK, JobInv, NEW t \in tasks, TaskStep(t)
    PROVE  TypeOK'
<1>1. Request \subseteq Id /\ epoch \in Epoch
  BY DEF Id, TypeOK
<1>2. TaskOnly
  BY DEF TaskStep, AuditJudge, AuditInsert, AuditTicket, AuditEnqueue,
     AuditLog, LogResolved, HandleReport, AtTask
<1>3. tasks' \subseteq Job \cup Report \cup Resolved
  <2>1. ASSUME NEW effect \in Policies, AuditJudge(t, effect) PROVE tasks' \subseteq Job \cup tasks
    BY <2>1, AuditJudgeIs DEF Becomes
  <2>2. CASE AuditInsert(t) \/ AuditTicket(t) \/ AuditEnqueue(t)
    <3>1. t \in Job
      BY <2>2, AtTaskIs DEF AuditInsert, AuditTicket, AuditEnqueue
    <3>2. PICK p \in {"ticket", "enqueue", "log"} : GotoTask(t, p)
      BY <2>2 DEF AuditInsert, AuditTicket, AuditEnqueue, Unsent
    <3>3. [t EXCEPT !.pc = p] \in Job
      BY <3>1 DEF Job
    <3>4. tasks' \subseteq Job \cup tasks
      BY <3>2, <3>3 DEF GotoTask, Becomes
    <3> HIDE DEF Job, Report, Resolved
    <3>5. QED BY <3>4 DEF TypeOK
  <2>3. CASE AuditLog(t) \/ LogResolved(t) \/ HandleReport(t)
    BY <2>3 DEF AuditLog, LogResolved, HandleReport, TypeOK
  <2> HIDE DEF Job, Report, Resolved
  <2>4. QED BY <2>1, <2>2, <2>3 DEF TaskStep, TypeOK
<1>4. lane' \in Seq(Message) /\ Len(lane') <= SendRoom
  <2>1. CASE UNCHANGED lane
    BY <2>1 DEF TypeOK
  <2>2. CASE AuditEnqueue(t)
    <3>1. t \in Jobs /\ t.pc = "enqueue" /\ Send(Adding(t.id, t.epoch))
      BY <2>2, AtTaskIs DEF AuditEnqueue
    <3>2. t.id \in Id \cup {Standing} /\ t.epoch \in Epoch
      BY <1>1, <3>1 DEF JobInv
    <3>3. QED BY <3>1, <3>2, Made, SendTyped
  <2>3. QED BY <2>1, <2>2 DEF TaskStep, AuditJudge, AuditInsert, AuditTicket, AuditLog, LogResolved,
     HandleReport
<1>5. ledger' \subseteq Id /\ final' \subseteq Id
  <2>1. CASE AuditInsert(t)
    <3>1. t.id \in Id
      BY <1>1, <2>1, AtTaskIs DEF AuditInsert, JobInv
    <3>2. QED BY <2>1, <3>1 DEF AuditInsert, historyVars, TypeOK
  <2>2. CASE HandleReport(t)
    <3>1. t.id \in Id
      BY <2>2, TasksAre, Kinds DEF HandleReport
    <3>2. QED BY <2>2, <3>1 DEF HandleReport, TypeOK
  <2>3. QED BY <2>1, <2>2 DEF TypeOK, TaskStep, AuditJudge, AuditTicket, AuditEnqueue, AuditLog,
     LogResolved, historyVars
<1>6. logged' \in [Request -> {"none", "allow", "deny", "approval"}]
  <2>1. CASE AuditLog(t)
    <3>1. t \in Job /\ logged' = [logged EXCEPT ![t.req] = t.says]
      BY <2>1, AtTaskIs DEF AuditLog
    <3>2. QED BY <3>1 DEF TypeOK, Job
  <2>2. CASE LogResolved(t)
    <3>1. t \in Resolved
      BY <2>2, TasksAre DEF LogResolved, IsJob
    <3>2. logged' = logged \/ logged' = [logged EXCEPT ![t.req] = t.says]
      BY <2>2 DEF LogResolved
    <3>3. QED BY <3>1, <3>2 DEF TypeOK, Resolved
  <2>3. QED BY <2>1, <2>2 DEF TypeOK, TaskStep, AuditJudge, AuditInsert, AuditTicket, AuditEnqueue,
     HandleReport
<1>7. wiped' = wiped
  BY DEF TaskStep, AuditJudge, AuditInsert, AuditTicket, AuditEnqueue,
     AuditLog, LogResolved, HandleReport, historyVars
<1>8. QED BY <1>2, <1>3, <1>4, <1>5, <1>6, <1>7 DEF TaskOnly, AuditOnly, policyVars, TypeOK

Command ==
    \/ \E g \in Grant : ApproveInAdvance(g)
    \/ Settle
    \/ \E m \in {"audit", "enforce"} : SwitchMode(m)
    \/ BeginTransition \/ SendSync \/ Commit \/ ClearOld \/ Open

LEMMA CommandTyped == ASSUME TypeOK, EpochInv, Command PROVE TypeOK'
<1>1. AdminOnly
  BY DEF Command, ApproveInAdvance, Settle, SwitchMode, BeginTransition,
     SendSync, Commit, ClearOld, Open, Change
<1>2. epoch' \in Epoch /\ UNCHANGED rule
      /\ (epoch < MaxEpoch => epoch + 1 \in Epoch)
  <2>1. epoch \in Epoch /\ MaxEpoch \in Nat
    BY LedgerAssumption DEF TypeOK
  <2>2. epoch < MaxEpoch => epoch + 1 \in Epoch
    BY <2>1 DEF Epoch
  <2>3. CASE Commit
    BY <2>2, <2>3 DEF Commit, Change, EpochInv
  <2>4. QED BY <2>1, <2>2, <2>3 DEF Command, ApproveInAdvance, Settle, SwitchMode, BeginTransition,
     SendSync, Commit, ClearOld, Open
<1>3. lane' \in Seq(Message) /\ Len(lane') <= SendRoom
  <2>1. CASE UNCHANGED lane
    BY <2>1 DEF TypeOK
  <2>2. CASE SendSync
    <3>1. epoch + 1 \in Epoch /\ Send(Syncing(epoch + 1))
      BY <1>2, <2>2 DEF SendSync, Change, EpochInv
    <3>2. QED BY <3>1, Made, SendTyped
  <2>3. QED BY <2>1, <2>2 DEF Command, ApproveInAdvance, Settle, SwitchMode, BeginTransition, Commit,
     ClearOld, Open
<1>4. approved' \in [Grant -> {"no", "ready", "spent"}]
  BY DEF TypeOK, Command, ApproveInAdvance, Settle, SwitchMode,
     BeginTransition, SendSync, Commit, ClearOld, Open
<1>5. switches' \in 0 .. MaxSwitch
  BY LedgerAssumption DEF TypeOK, Command, ApproveInAdvance, Settle,
     SwitchMode, BeginTransition, SendSync, Commit, ClearOld, Open
<1>6. ledger' \subseteq Id /\ wiped' \in [Id -> {"no", "switch", "hand", "epoch"}]
  <2>1. CASE \E m \in {"audit", "enforce"} : SwitchMode(m)
    BY <2>1 DEF SwitchMode, Clear, TypeOK
  <2>2. CASE ClearOld
    BY <2>2 DEF ClearOld, Clear, TypeOK
  <2>3. QED BY <2>1, <2>2 DEF TypeOK, Command, ApproveInAdvance, Settle, BeginTransition, SendSync,
     Commit, Open
<1>7. /\ mode' \in {"drain", "audit", "enforce"}
      /\ transition' \in {"none", "sync", "ack", "commit", "clear", "open"}
  BY DEF TypeOK, Command, ApproveInAdvance, Settle, SwitchMode,
     BeginTransition, SendSync, Commit, ClearOld, Open, Change
<1>8. QED BY <1>1, <1>2, <1>3, <1>4, <1>5, <1>6, <1>7 DEF AdminOnly, inVars, TypeOK

-----------------------------------------------------------------------------
(* Where requests are. *)

LEMMA JobsAfter ==
    ASSUME TypeOK, NEW t \in tasks
    PROVE  /\ tasks' = tasks \ {t} => Jobs' = Jobs \ {t}
           /\ t \notin Jobs => Jobs \ {t} = Jobs
           /\ \A u \in Job : tasks' = (tasks \ {t}) \cup {u} => Jobs' = (Jobs \ {t}) \cup {u}
BY Kinds DEF Jobs

LEMMA TaskMoves ==
    ASSUME TypeOK, JobInv, NEW t \in tasks, TaskStep(t)
    PROVE  /\ TaskOnly
           /\ \/ tasks' = tasks \ {t} /\ Jobs' = Jobs \ {t}
              \/ /\ t \in Jobs
                 /\ \E u \in Job : /\ u.req = t.req /\ tasks' = (tasks \ {t}) \cup {u}
                                   /\ Jobs' = (Jobs \ {t}) \cup {u}
<1>1. TaskOnly
  BY DEF TaskStep, AuditJudge, AuditInsert, AuditTicket, AuditEnqueue,
     AuditLog, LogResolved, HandleReport, AtTask
<1>2. CASE AuditLog(t) \/ LogResolved(t) \/ HandleReport(t)
  BY <1>1, <1>2, JobsAfter DEF AuditLog, LogResolved, HandleReport
<1>3. CASE ~(AuditLog(t) \/ LogResolved(t) \/ HandleReport(t))
  <2>1. t \in Jobs /\ t \in Job
    BY <1>3, AtTaskIs DEF TaskStep, AuditJudge, AuditInsert, AuditTicket,
       AuditEnqueue
  <2>2. CASE \E effect \in Policies : AuditJudge(t, effect)
    <3>1. PICK u \in Job : Becomes(t, u) /\ u.req = t.req
      BY <2>2, AuditJudgeIs
    <3>2. QED BY <1>1, <2>1, <3>1, JobsAfter DEF Becomes
  <2>3. CASE AuditInsert(t) \/ AuditTicket(t) \/ AuditEnqueue(t)
    <3>1. PICK p \in {"ticket", "enqueue", "log"} : GotoTask(t, p)
      BY <2>3 DEF AuditInsert, AuditTicket, AuditEnqueue, Unsent
    <3>2. PICK u \in Job : Becomes(t, u) /\ u.req = t.req
      BY <2>1, <3>1, GotoTaskIs
    <3>3. QED BY <1>1, <2>1, <3>2, JobsAfter DEF Becomes
  <2>4. QED BY <1>3, <2>2, <2>3 DEF TaskStep
<1>4. QED BY <1>2, <1>3

LEMMA PlaceKept ==
    ASSUME PlaceInv, UNCHANGED <<inVars, state>>,
           worker'.pc # "idle" => worker.pc # "idle" /\ worker'.req = worker.req,
           \A t \in Jobs' : \E u \in Jobs : u.req = t.req,
           \A t, u \in Jobs' : t.req = u.req => t = u
    PROVE  PlaceInv'
BY DEF PlaceInv, inVars, InSocket, InDecision, InAudit, Once

LEMMA ArrivesPlace ==
    ASSUME TypeOK, JobInv, PlaceInv, NEW m \in Asking \cup Report, Arrives(m),
           UNCHANGED <<decision, audit, worker, tasks>>,
           \/ ~IsAsking(m) /\ UNCHANGED state
           \/ socket' = socket /\ \E r \in Request : state[r] = "new" /\ state' = [state EXCEPT ![r] = "lost"]
           \/ /\ IsAsking(m) /\ socket' # socket /\ state[m.req] = "new"
              /\ state' = [state EXCEPT ![m.req] = IF m.audited THEN "audited" ELSE "waits"]
    PROVE  PlaceInv'
<1> DEFINE S == Asking \cup Report
           n == Len(socket)
<1>1. \A x \in S : IsAsking(x) => x.req \in Request
  BY Kinds
<1> HIDE DEF S
<1>2. socket \in Seq(S) /\ m \in S /\ audit \in Seq(S) /\ decision \in Seq(Request)
      /\ state \in [Request -> {"new", "lost", "waits", "audited", "parked", "passed"}]
  BY DEF TypeOK, S
<1>3. socket' = socket \/ (/\ socket' = Append(socket, m) /\ n + 1 \in DOMAIN socket'
                           /\ socket'[n + 1] = m /\ n + 1 \notin DOMAIN socket
                           /\ \A k \in DOMAIN socket : k \in DOMAIN socket' /\ socket'[k] = socket[k]
                           /\ \A k \in DOMAIN socket' : k \in DOMAIN socket \/ k = n + 1)
  BY <1>2, AppendIs DEF Arrives
<1>4. \A k \in DOMAIN socket : socket[k] \in S
  BY <1>2
<1>5. \A k \in DOMAIN audit : audit[k] \in S
  BY <1>2
<1>6. \A k \in DOMAIN decision : decision[k] \in Request
  BY <1>2
<1>7. \A t \in Jobs : t.req \in Request
  BY DEF JobInv
<1> HIDE DEF n
<1>8. \A r \in Request : state[r] = "new" =>
          /\ ~InSocket(r) /\ ~InDecision(r) /\ ~InAudit(r)
          /\ worker.pc # "idle" => worker.req # r
          /\ \A t \in Jobs : t.req # r
  <2> SUFFICES ASSUME NEW r \in Request, state[r] = "new"
               PROVE  /\ ~InSocket(r) /\ ~InDecision(r) /\ ~InAudit(r)
                      /\ worker.pc # "idle" => worker.req # r
                      /\ \A t \in Jobs : t.req # r
    OBVIOUS
  <2>1. ~InSocket(r)
    BY DEF InSocket, PlaceInv
  <2>2. ~InDecision(r)
    BY DEF InDecision, PlaceInv
  <2>3. ~InAudit(r)
    BY DEF InAudit, PlaceInv
  <2>4. QED BY <2>1, <2>2, <2>3 DEF PlaceInv
<1>9. \A r \in Request : r # m.req \/ ~IsAsking(m) \/ socket' = socket => state'[r] = state[r] \/ state[r] = "new"
  BY <1>2
<1>10. IsAsking(m) /\ socket' # socket =>
           /\ m.req \in Request /\ state[m.req] = "new"
           /\ state'[m.req] = IF m.audited THEN "audited" ELSE "waits"
  BY <1>1, <1>2
<1>11. \A r \in Request : InSocket(r)' => InSocket(r) \/ (IsAsking(m) /\ socket' # socket /\ r = m.req)
  BY <1>3 DEF InSocket
<1>12. Jobs' = Jobs /\ \A r \in Request : (InDecision(r)' <=> InDecision(r)) /\ (InAudit(r)' <=> InAudit(r))
  BY DEF Jobs, InDecision, InAudit
<1>13. Once(socket)'
  <2> SUFFICES ASSUME NEW k \in DOMAIN socket', NEW l \in DOMAIN socket', IsAsking(socket'[k]), IsAsking(socket'[l]),
                      socket'[k].req = socket'[l].req
               PROVE  k = l
    BY DEF Once
  <2>1. CASE k \in DOMAIN socket /\ l \in DOMAIN socket
    BY <1>3, <2>1 DEF PlaceInv, Once
  <2>2. CASE k \notin DOMAIN socket \/ l \notin DOMAIN socket
    <3>1. IsAsking(m) /\ socket' # socket /\ ~InSocket(m.req)
      BY <1>3, <1>8, <1>10, <2>2
    <3>2. k \in DOMAIN socket => IsAsking(socket[k]) /\ socket[k].req # m.req
      BY <1>3, <3>1 DEF InSocket
    <3>3. l \in DOMAIN socket => IsAsking(socket[l]) /\ socket[l].req # m.req
      BY <1>3, <3>1 DEF InSocket
    <3>4. QED BY <1>3, <2>2, <3>2, <3>3
  <2>3. QED BY <2>1, <2>2
<1>14. \A k \in DOMAIN socket' : IsAsking(socket'[k]) =>
           state'[socket'[k].req] = IF socket'[k].audited THEN "audited" ELSE "waits"
  <2> SUFFICES ASSUME NEW k \in DOMAIN socket', IsAsking(socket'[k])
               PROVE  state'[socket'[k].req] = IF socket'[k].audited THEN "audited" ELSE "waits"
    OBVIOUS
  <2>1. CASE k \in DOMAIN socket
    <3>1. /\ socket'[k] = socket[k] /\ socket[k].req \in Request /\ InSocket(socket[k].req)
          /\ state[socket[k].req] = IF socket[k].audited THEN "audited" ELSE "waits"
      BY <1>1, <1>3, <1>4, <2>1 DEF PlaceInv, InSocket
    <3>2. state[socket[k].req] # "new"
      BY <3>1
    <3>3. (IsAsking(m) /\ socket' # socket) => socket[k].req # m.req
      BY <1>10, <3>2
    <3>4. QED BY <1>9, <3>1, <3>2, <3>3
  <2>2. CASE k \notin DOMAIN socket
    BY <1>3, <1>10, <2>2
  <2>3. QED BY <2>1, <2>2
<1>15. \A r \in Request : state[r] # "new" => state'[r] = state[r]
  BY <1>9, <1>10
<1>16. (\A k \in DOMAIN decision : state'[decision[k]] = "waits")
       /\ \A k \in DOMAIN audit : IsAsking(audit[k]) =>
              audit[k].audited /\ state'[audit[k].req] = "audited"
  BY <1>1, <1>5, <1>6, <1>15 DEF PlaceInv
<1>17. /\ worker.pc # "idle" => state'[worker.req] \in {"waits", "passed", "parked"}
       /\ \A t \in Jobs : state'[t.req] = "audited"
  BY <1>7, <1>15 DEF PlaceInv, JobInv
<1>18. QED
  BY <1>8, <1>10, <1>11, <1>12, <1>13, <1>14, <1>16, <1>17 DEF PlaceInv, Once

\* What is received moves from the socket to one of the channels.
LEMMA ReceiveIs ==
    ASSUME TypeOK, Receive
    PROVE  \E m \in Asking \cup Report :
               /\ 1 \in DOMAIN socket /\ m = socket[1]
               /\ \A k \in DOMAIN socket' : k # 0 /\ k + 1 \in DOMAIN socket /\ socket'[k] = socket[k + 1]
               /\ \A k, l \in DOMAIN socket' : k + 1 = l + 1 => k = l
               /\ \A k \in DOMAIN socket' : k + 1 # 1
               /\ \/ /\ IsAsking(m) /\ ~m.audited /\ UNCHANGED audit
                     /\ \A k \in DOMAIN decision' :
                            \/ k \in DOMAIN decision /\ decision'[k] = decision[k]
                            \/ k = Len(decision) + 1 /\ decision'[k] = m.req
                  \/ /\ IsAsking(m) => m.audited
                     /\ UNCHANGED decision
                     /\ \A k \in DOMAIN audit' :
                            \/ k \in DOMAIN audit /\ audit'[k] = audit[k]
                            \/ k = Len(audit) + 1 /\ audit'[k] = m
<1> DEFINE S == Asking \cup Report
           m == Head(socket)
<1>1. \A x \in S : IsAsking(x) => x.req \in Request
  BY Kinds
<1> HIDE DEF S
<1>2. socket \in Seq(S) /\ audit \in Seq(S) /\ decision \in Seq(Request)
      /\ socket # <<>> /\ socket' = Tail(socket)
  BY DEF TypeOK, Receive, S
<1>3. /\ m = socket[1] /\ 1 \in DOMAIN socket /\ m \in S
      /\ \A k \in DOMAIN socket' : k \in Nat \ {0} /\ k + 1 \in DOMAIN socket /\ socket'[k] = socket[k + 1]
  BY <1>2, TailIs
<1>4. \A k, l \in DOMAIN socket' : k + 1 = l + 1 => k = l
  BY <1>3
<1>5. \/ /\ IsAsking(m) /\ ~m.audited /\ UNCHANGED audit /\ decision' = Append(decision, m.req)
      \/ /\ IsAsking(m) => m.audited
         /\ UNCHANGED decision /\ audit' = Append(audit, m)
  BY DEF Receive, Put
<1> HIDE DEF m
<1>6. \A k \in DOMAIN Append(audit, m) :
          \/ k \in DOMAIN audit /\ Append(audit, m)[k] = audit[k]
          \/ k = Len(audit) + 1 /\ Append(audit, m)[k] = m
  <2>1. audit \in Seq(S) /\ m \in S
    BY <1>2, <1>3
  <2>2. QED BY <2>1, AppendIs
<1>7. IsAsking(m) => \A k \in DOMAIN Append(decision, m.req) :
          \/ k \in DOMAIN decision /\ Append(decision, m.req)[k] = decision[k]
          \/ k = Len(decision) + 1 /\ Append(decision, m.req)[k] = m.req
  <2>1. decision \in Seq(Request) /\ (IsAsking(m) => m.req \in Request)
    BY <1>1, <1>2, <1>3
  <2>2. QED BY <2>1, AppendIs
<1>8. \A k \in DOMAIN socket' : k # 0 /\ k + 1 # 1
  BY <1>3
<1>9. m \in Asking \cup Report
  BY <1>3 DEF S
<1>10. QED BY <1>3, <1>4, <1>5, <1>6, <1>7, <1>8, <1>9

LEMMA ReceivePlace == ASSUME TypeOK, JobInv, PlaceInv, Receive PROVE PlaceInv'
<1>1. UNCHANGED <<worker, tasks, state>> /\ Jobs' = Jobs
  BY DEF Receive, Jobs
<1>2. PICK m \in Asking \cup Report :
               /\ 1 \in DOMAIN socket /\ m = socket[1]
               /\ \A k \in DOMAIN socket' : k # 0 /\ k + 1 \in DOMAIN socket /\ socket'[k] = socket[k + 1]
               /\ \A k, l \in DOMAIN socket' : k + 1 = l + 1 => k = l
               /\ \A k \in DOMAIN socket' : k + 1 # 1
               /\ \/ /\ IsAsking(m) /\ ~m.audited /\ UNCHANGED audit
                     /\ \A k \in DOMAIN decision' :
                            \/ k \in DOMAIN decision /\ decision'[k] = decision[k]
                            \/ k = Len(decision) + 1 /\ decision'[k] = m.req
                  \/ /\ IsAsking(m) => m.audited
                     /\ UNCHANGED decision
                     /\ \A k \in DOMAIN audit' :
                            \/ k \in DOMAIN audit /\ audit'[k] = audit[k]
                            \/ k = Len(audit) + 1 /\ audit'[k] = m
  BY ReceiveIs
<1>3. Once(socket)'
  BY <1>2 DEF PlaceInv, Once
<1>4. \A r \in Request : InSocket(r)' => InSocket(r) /\ (IsAsking(m) => m.req # r)
  <2> SUFFICES ASSUME NEW r \in Request, InSocket(r)'
               PROVE  InSocket(r) /\ (IsAsking(m) => m.req # r)
    OBVIOUS
  <2>1. PICK k \in DOMAIN socket' : IsAsking(socket'[k]) /\ socket'[k].req = r
    BY DEF InSocket
  <2>2. k + 1 \in DOMAIN socket /\ k + 1 # 1 /\ socket'[k] = socket[k + 1]
    BY <1>2
  <2>3. InSocket(r)
    BY <2>1, <2>2 DEF InSocket
  <2>4. IsAsking(m) => m.req # r
    BY <1>2, <2>1, <2>2 DEF PlaceInv, Once
  <2>5. QED BY <2>3, <2>4
<1>5. IsAsking(m) => /\ m.req \in Request /\ InSocket(m.req)
                     /\ state[m.req] = IF m.audited THEN "audited" ELSE "waits"
  BY <1>2, Kinds DEF PlaceInv, InSocket
<1>6. \A k \in DOMAIN socket' : IsAsking(socket'[k]) =>
           state'[socket'[k].req] = IF socket'[k].audited THEN "audited" ELSE "waits"
  BY <1>1, <1>2 DEF PlaceInv
<1>7. CASE IsAsking(m) /\ ~m.audited
  <2>1. UNCHANGED audit /\ \A r \in Request : InAudit(r)' = InAudit(r)
    BY <1>2, <1>7 DEF InAudit
  <2>2. \A r \in Request : InDecision(r)' => InDecision(r) \/ r = m.req
    BY <1>2, <1>7 DEF InDecision
  <2>3. \A k \in DOMAIN decision : decision[k] # m.req
    BY <1>5, <1>7 DEF PlaceInv, InDecision
  <2>4. \A k, l \in DOMAIN decision' : decision'[k] = decision'[l] => k = l
    BY <1>2, <1>7, <2>3 DEF PlaceInv
  <2>5. \A k \in DOMAIN decision' : state'[decision'[k]] = "waits"
    BY <1>1, <1>2, <1>5, <1>7 DEF PlaceInv
  <2>6. QED
    BY <1>1, <1>3, <1>4, <1>5, <1>6, <1>7, <2>1, <2>2, <2>4, <2>5 DEF PlaceInv,
       Once
<1>8. CASE IsAsking(m) => m.audited
  <2>1. UNCHANGED decision /\ \A r \in Request : InDecision(r)' = InDecision(r)
    BY <1>2, <1>8 DEF InDecision
  <2>2. \A r \in Request : InAudit(r)' => InAudit(r) \/ (IsAsking(m) /\ r = m.req)
    BY <1>2, <1>8 DEF InAudit
  <2>3. \A k \in DOMAIN audit : IsAsking(audit[k]) /\ IsAsking(m) => audit[k].req # m.req
    BY <1>5, <1>8 DEF PlaceInv, InAudit
  <2>4. Once(audit)'
    BY <1>2, <1>8, <2>3 DEF PlaceInv, Once
  <2>5. \A k \in DOMAIN audit' : IsAsking(audit'[k]) =>
            audit'[k].audited /\ state'[audit'[k].req] = "audited"
    BY <1>1, <1>2, <1>5, <1>8 DEF PlaceInv
  <2>6. QED
    BY <1>1, <1>3, <1>4, <1>5, <1>6, <2>1, <2>2, <2>4, <2>5 DEF PlaceInv, Once
<1>9. QED BY <1>7, <1>8

\* What the steps of the decision worker have in common.
LEMMA WorkerGoesOn ==
    ASSUME TypeOK, JobInv, WorkerStep, ~Take
    PROVE  /\ worker.pc # "idle" /\ UNCHANGED decision /\ WorkOnly
           /\ worker'.pc # "idle" => worker'.req = worker.req /\ worker'.epoch = worker.epoch
           /\ \/ UNCHANGED state
              \/ /\ worker.pc = "judge"
                 /\ \/ state' = [state EXCEPT ![worker.req] = "passed"]
                    \/ state' = [state EXCEPT ![worker.req] = "parked"]
<1>1. worker \in Job
  BY DEF TypeOK
<1>2. worker.pc # "idle" /\ UNCHANGED decision /\ WorkOnly
  BY DEF WorkerStep, Judge, JudgeApproved, JudgePending, Check, Hydrate,
     Approve, SendTicketAdd, Enqueue, Insert, Deny, Resolve, At
<1>3. worker'.pc # "idle" => worker'.req = worker.req /\ worker'.epoch = worker.epoch
  <2>1. CASE Resolve
    BY <2>1 DEF Resolve, NoJob
  <2>2. CASE ~Resolve
    BY <1>1, <2>2 DEF Job, WorkerStep, Judge, JudgeApproved, JudgePending,
       Check, Hydrate, Approve, SendTicketAdd, Enqueue, Insert, Deny, Goto
  <2>3. QED BY <2>1, <2>2
<1>4. QED BY <1>2, <1>3 DEF WorkerStep, Judge, JudgeApproved, JudgePending, Check, Hydrate, Approve,
  SendTicketAdd, Enqueue, Insert, Deny, Resolve, At

LEMMA WorkerPlace == ASSUME TypeOK, JobInv, PlaceInv, WorkerStep PROVE PlaceInv'
<1>1. UNCHANGED <<socket, audit, tasks>> /\ Jobs' = Jobs
  BY DEF WorkerStep, Take, Judge, JudgeApproved, JudgePending, Check, Hydrate,
     Approve, SendTicketAdd, Enqueue, Insert, Deny, Resolve, At, WorkOnly, Jobs
<1>2. \A r \in Request : (InSocket(r)' <=> InSocket(r)) /\ (InAudit(r)' <=> InAudit(r))
  BY <1>1 DEF InSocket, InAudit
<1>3. CASE Take
  <2>1. decision \in Seq(Request) /\ decision # <<>> /\ decision' = Tail(decision)
    BY <1>3 DEF Take, TypeOK
  <2>2. /\ 1 \in DOMAIN decision /\ Head(decision) = decision[1] /\ decision[1] \in Request
        /\ \A k \in DOMAIN decision' : /\ k \in Nat \ {0} /\ k + 1 \in DOMAIN decision
                                       /\ decision'[k] = decision[k + 1]
    BY <2>1, TailIs
  <2>3. worker'.req = decision[1] /\ worker.pc = "idle" /\ UNCHANGED state
    BY <1>3, <2>2 DEF Take, NoJob
  <2>4. \A k, l \in DOMAIN decision' : decision'[k] = decision'[l] => k = l
    <3> SUFFICES ASSUME NEW k \in DOMAIN decision', NEW l \in DOMAIN decision', decision'[k] = decision'[l]
                 PROVE  k = l
      OBVIOUS
    <3>1. k + 1 = l + 1
      BY <2>2 DEF PlaceInv
    <3>2. QED BY <2>2, <3>1
  <2>5. \A k \in DOMAIN decision' : decision'[k] # decision[1]
    <3> SUFFICES ASSUME NEW k \in DOMAIN decision' PROVE decision'[k] # decision[1]
      OBVIOUS
    <3>1. k + 1 # 1 /\ k + 1 \in DOMAIN decision /\ decision'[k] = decision[k + 1]
      BY <2>2
    <3>2. QED BY <2>2, <3>1 DEF PlaceInv
  <2>6. \A r \in Request : InDecision(r)' => InDecision(r) /\ r # decision[1]
    BY <2>2, <2>5 DEF InDecision
  <2>7. /\ InDecision(decision[1]) /\ state[decision[1]] = "waits"
        /\ \A k \in DOMAIN decision' : state[decision'[k]] = "waits"
    BY <2>2 DEF InDecision, PlaceInv
  <2>8. QED BY <1>1, <1>2, <2>2, <2>3, <2>4, <2>6, <2>7 DEF PlaceInv, Once
<1>4. CASE ~Take
  <2>1. /\ worker.pc # "idle" /\ UNCHANGED decision
        /\ worker'.pc # "idle" => worker'.req = worker.req
        /\ \/ UNCHANGED state
           \/ /\ worker.pc = "judge"
              /\ \/ state' = [state EXCEPT ![worker.req] = "passed"]
                 \/ state' = [state EXCEPT ![worker.req] = "parked"]
    BY <1>4, WorkerGoesOn
  <2>2. CASE UNCHANGED state
    <3>1. QED BY <1>1, <2>1, <2>2, PlaceKept DEF inVars, PlaceInv
  <2>3. CASE ~UNCHANGED state
    <3>1. state \in [Request -> {"new", "lost", "waits", "audited", "parked", "passed"}]
          /\ socket \in Seq(Asking \cup Report) /\ audit \in Seq(Asking \cup Report)
          /\ decision \in Seq(Request)
      BY DEF TypeOK
    <3>2. /\ worker.req \in Request /\ state'[worker.req] \in {"passed", "parked"}
          /\ \A r \in Request \ {worker.req} : state'[r] = state[r]
      BY <2>1, <2>3, <3>1 DEF JobInv
    <3>3. \A k \in DOMAIN socket : IsAsking(socket[k]) => socket[k].req \in Request \ {worker.req}
      <4> SUFFICES ASSUME NEW k \in DOMAIN socket, IsAsking(socket[k])
                   PROVE  socket[k].req \in Request \ {worker.req}
        OBVIOUS
      <4>1. socket[k].req \in Request
        BY <3>1, Kinds
      <4>2. InSocket(socket[k].req)
        BY DEF InSocket
      <4>3. QED BY <2>1, <4>1, <4>2 DEF PlaceInv
    <3>4. \A k \in DOMAIN decision : decision[k] \in Request \ {worker.req}
      <4> SUFFICES ASSUME NEW k \in DOMAIN decision PROVE decision[k] \in Request \ {worker.req}
        OBVIOUS
      <4>1. decision[k] \in Request /\ InDecision(decision[k])
        BY <3>1 DEF InDecision
      <4>2. QED BY <2>1, <4>1 DEF PlaceInv
    <3>5. \A k \in DOMAIN audit : IsAsking(audit[k]) => audit[k].req \in Request \ {worker.req}
      <4> SUFFICES ASSUME NEW k \in DOMAIN audit, IsAsking(audit[k])
                   PROVE  audit[k].req \in Request \ {worker.req}
        OBVIOUS
      <4>1. audit[k].req \in Request
        BY <3>1, Kinds
      <4>2. QED BY <2>1, <4>1 DEF PlaceInv
    <3>6. \A t \in Jobs : t.req \in Request \ {worker.req}
      BY <2>1 DEF PlaceInv, JobInv
    <3>7. \A r \in Request : InDecision(r)' <=> InDecision(r)
      BY <2>1 DEF InDecision
    <3>8. QED BY <1>1, <1>2, <2>1, <3>2, <3>3, <3>4, <3>5, <3>6, <3>7 DEF PlaceInv, Once
  <2>4. QED BY <2>2, <2>3
<1>5. QED BY <1>3, <1>4

LEMMA TakeMessagePlace == ASSUME TypeOK, JobInv, PlaceInv, TakeMessage PROVE PlaceInv'
<1> DEFINE S == Asking \cup Report
           m == audit[1]
           u == [NoJob EXCEPT !.pc = "judge", !.req = m.req]
<1>1. \A x \in S : IsAsking(x) => x.req \in Request
  BY Kinds
<1> HIDE DEF S
<1>2. audit \in Seq(S) /\ audit # <<>> /\ audit' = Tail(audit) /\ socket \in Seq(S) /\ decision \in Seq(Request)
      /\ state \in [Request -> {"new", "lost", "waits", "audited", "parked", "passed"}]
      /\ UNCHANGED <<socket, decision, worker>>
  BY DEF TakeMessage, TypeOK, AuditOnly, S
<1>3. /\ 1 \in DOMAIN audit /\ Head(audit) = m /\ m \in S
      /\ \A k \in DOMAIN audit' : k \in Nat \ {0} /\ k + 1 \in DOMAIN audit /\ audit'[k] = audit[k + 1]
  BY <1>2, TailIs
<1>4. Once(audit)' /\ \A k \in DOMAIN audit' : IsAsking(audit'[k]) /\ IsAsking(m) => audit'[k].req # m.req
  <2>1. \A k, l \in DOMAIN audit' : k + 1 = l + 1 => k = l
    BY <1>3
  <2>2. \A k \in DOMAIN audit' : k + 1 # 1
    BY <1>3
  <2> HIDE DEF m
  <2>3. Once(audit)'
    BY <1>3, <2>1 DEF PlaceInv, Once
  <2>4. QED BY <1>3, <2>2, <2>3 DEF PlaceInv, Once, m
<1>5. \A r \in Request : InAudit(r)' => InAudit(r) /\ (IsAsking(m) => m.req # r)
  BY <1>3, <1>4 DEF InAudit
<1>6. IsAsking(m) => /\ m.req \in Request /\ state[m.req] = "audited" /\ InAudit(m.req)
                     /\ ~InSocket(m.req) /\ \A t \in Jobs : t.req # m.req
  <2>1. IsAsking(m) => m.req \in Request /\ state[m.req] = "audited" /\ InAudit(m.req)
    BY <1>1, <1>3 DEF PlaceInv, InAudit
  <2>2. QED BY <2>1 DEF PlaceInv
<1>7. \A r \in Request : (InSocket(r)' <=> InSocket(r)) /\ (InDecision(r)' <=> InDecision(r))
  BY <1>2 DEF InSocket, InDecision
<1> HIDE DEF m
<1>8. /\ IsAsking(m) => u \in Job /\ u.req = m.req
      /\ \/ ~IsAsking(m) /\ Jobs' = Jobs /\ state' = state
         \/ IsAsking(m) /\ Jobs' = Jobs /\ state' = [state EXCEPT ![m.req] = "lost"]
         \/ IsAsking(m) /\ Jobs' = Jobs \cup {u} /\ state' = state
  <2>1. IsAsking(m) => u \in Job /\ u.req = m.req
    BY <1>6, Made DEF Job
  <2>2. \/ ~IsAsking(m) /\ tasks' = tasks /\ state' = state
        \/ ~IsAsking(m) /\ tasks' = tasks \cup {m} /\ state' = state
        \/ IsAsking(m) /\ tasks' = tasks /\ state' = [state EXCEPT ![m.req] = "lost"]
        \/ IsAsking(m) /\ tasks' = tasks \cup {u} /\ state' = state
    BY <1>3 DEF TakeMessage
  <2>3. ~IsJob(m)
    BY <1>3, Kinds DEF S
  <2> HIDE DEF u
  <2>4. QED BY <2>1, <2>2, <2>3, Kinds DEF Jobs
<1> HIDE DEF u
<1>9. \A k \in DOMAIN socket : IsAsking(socket[k]) => socket[k].req \in Request
                                      /\ InSocket(socket[k].req)
  BY <1>1, <1>2 DEF InSocket
<1>10. /\ \A k \in DOMAIN decision : decision[k] \in Request
       /\ \A t \in Jobs : t.req \in Request
       /\ \A k \in DOMAIN audit' : audit'[k] \in S
  BY <1>2, <1>3 DEF JobInv
<1>11. \A r \in Request : (IsAsking(m) /\ r = m.req) \/ state'[r] = state[r]
  BY <1>2, <1>8
<1>12. \A k \in DOMAIN socket : IsAsking(socket[k]) =>
           state'[socket[k].req] = IF socket[k].audited THEN "audited" ELSE "waits"
  BY <1>6, <1>9, <1>11 DEF PlaceInv
<1>13. (\A k \in DOMAIN decision : state'[decision[k]] = "waits")
       /\ (worker.pc # "idle" => state'[worker.req] \in {"waits", "passed", "parked"})
  <2>1. \A k \in DOMAIN decision : IsAsking(m) => decision[k] # m.req
    BY <1>6 DEF PlaceInv
  <2>2. worker.pc # "idle" => worker.req \in Request /\ (IsAsking(m) => worker.req # m.req)
    BY <1>6 DEF PlaceInv, JobInv
  <2>3. QED BY <1>10, <1>11, <2>1, <2>2 DEF PlaceInv
<1>14. \A k \in DOMAIN audit' : IsAsking(audit'[k]) =>
           audit'[k].audited /\ state'[audit'[k].req] = "audited"
  <2> SUFFICES ASSUME NEW k \in DOMAIN audit', IsAsking(audit'[k])
               PROVE  audit'[k].audited /\ state'[audit'[k].req] = "audited"
    OBVIOUS
  <2>1. audit'[k].audited /\ state[audit'[k].req] = "audited"
    BY <1>3 DEF PlaceInv
  <2>2. audit'[k].req \in Request /\ ~(IsAsking(m) /\ audit'[k].req = m.req)
    <3>1. audit'[k] \in S
      BY <1>10
    <3>2. audit'[k].req \in Request
      BY <1>1, <3>1
    <3>3. IsAsking(m) => audit'[k].req # m.req
      BY <1>4
    <3>4. QED BY <3>2, <3>3
  <2>3. QED BY <1>11, <2>1, <2>2
<1>15. \A t \in Jobs' : state'[t.req] = "audited"
  BY <1>6, <1>8, <1>10, <1>11 DEF PlaceInv
<1>16. \A t, v \in Jobs' : t.req = v.req => t = v
  BY <1>6, <1>8 DEF PlaceInv
<1>17. \A r \in Request : /\ InSocket(r) => \A t \in Jobs' : t.req # r
                          /\ InAudit(r)' => \A t \in Jobs' : t.req # r
  BY <1>5, <1>6, <1>8 DEF PlaceInv
<1>18. QED
  BY <1>2, <1>4, <1>5, <1>7, <1>12, <1>13, <1>14, <1>15, <1>16, <1>17 DEF
     PlaceInv, Once

LEMMA PlaceHolds == ASSUME LInv, Next PROVE PlaceInv'
<1>1. TypeOK /\ JobInv /\ PlaceInv
  BY DEF LInv
<1>2. ASSUME NEW r \in Request, NEW audited \in BOOLEAN, Ask(r, audited) PROVE PlaceInv'
  <2>1. /\ Asked(r, audited) \in Asking /\ IsAsking(Asked(r, audited))
        /\ Asked(r, audited).req = r /\ Asked(r, audited).audited = audited
    BY Made, Kinds DEF Asked
  <2> DEFINE m == Asked(r, audited)
  <2>2. /\ Arrives(m) /\ UNCHANGED <<decision, audit, worker, tasks>> /\ state[r] = "new"
        /\ state' = [state EXCEPT ![r] = IF socket' = socket THEN "lost"
                                         ELSE IF audited THEN "audited" ELSE "waits"]
    BY <1>2 DEF Ask, KernelOnly
  <2> HIDE DEF m
  <2>3. \/ socket' = socket /\ state' = [state EXCEPT ![r] = "lost"]
        \/ socket' # socket /\ state' = [state EXCEPT ![r] = IF audited THEN "audited" ELSE "waits"]
    BY <2>2
  <2>4. QED BY <1>1, <2>1, <2>2, <2>3, ArrivesPlace DEF m
<1>3. ASSUME NEW t \in kernel.tickets, NEW report \in BOOLEAN,
             UseTicket(t, report) \/ ExpireTicket(t, report)
      PROVE  PlaceInv'
  <2>1. UNCHANGED <<decision, audit, worker, tasks, state>> /\ Jobs' = Jobs
    BY <1>3 DEF UseTicket, ExpireTicket, KernelOnly, Jobs
  <2>2. Reported(t.id, t.left - 1, FALSE) \in Report /\ Reported(t.id, t.left, TRUE) \in Report
    BY <1>1, TicketTyped, Made
  <2>3. CASE UNCHANGED socket
    BY <1>1, <2>1, <2>3, PlaceKept DEF inVars, PlaceInv
  <2>4. CASE \E m \in Report : Arrives(m)
    BY <1>1, <2>1, <2>4, ArrivesPlace, Kinds
  <2>5. QED BY <1>3, <2>2, <2>3, <2>4 DEF UseTicket, ExpireTicket
<1>4. CASE SenderStep \/ Command
  <2>1. UNCHANGED <<inVars, worker, tasks, state>>
    BY <1>4 DEF SenderStep, DispatchAnswer, DispatchTicket, DispatchSync,
       Dispatch, Command, ApproveInAdvance, Settle, SwitchMode,
       BeginTransition, SendSync, Commit, ClearOld, Open, Change, AdminOnly
  <2>2. Jobs' = Jobs
    BY <2>1 DEF Jobs
  <2>3. QED BY <1>1, <2>1, <2>2, PlaceKept DEF PlaceInv
<1>5. CASE TakeEvent
  <2>1. UNCHANGED <<inVars, worker, state>> /\ tasks' = tasks \cup {Head(events)}
    BY <1>5 DEF TakeEvent, AuditOnly, inVars
  <2>2. Head(events) \in Resolved
    BY <1>1, <1>5, TailIs DEF TakeEvent, TypeOK
  <2>3. Jobs' = Jobs
    BY <2>1, <2>2, Kinds DEF Jobs
  <2>4. QED BY <1>1, <2>1, <2>3, PlaceKept DEF PlaceInv
<1>6. ASSUME NEW t \in tasks, TaskStep(t) PROVE PlaceInv'
  <2>1. UNCHANGED <<inVars, worker, state>>
    BY <1>1, <1>6, TaskMoves DEF TaskOnly, AuditOnly, inVars
  <2>2. \/ Jobs' = Jobs \ {t}
        \/ t \in Jobs /\ \E u : u.req = t.req /\ Jobs' = (Jobs \ {t}) \cup {u}
    BY <1>1, <1>6, TaskMoves
  <2>3. (\A v \in Jobs' : \E w \in Jobs : w.req = v.req) /\ \A v, w \in Jobs' : v.req = w.req => v = w
    BY <1>1, <2>2 DEF PlaceInv
  <2>4. QED BY <1>1, <2>1, <2>3, PlaceKept
<1>7. QED
  BY <1>1, <1>2, <1>3, <1>4, <1>5, <1>6, ReceivePlace, WorkerPlace,
     TakeMessagePlace DEF Next, Command

-----------------------------------------------------------------------------
(* What jobs are about. *)

LEMMA JobHolds == ASSUME LInv, Next PROVE JobInv'
<1>1. TypeOK /\ JobInv
  BY DEF LInv
<1>2. ASSUME UNCHANGED <<worker, tasks>> PROVE JobInv'
  BY <1>1, <1>2 DEF JobInv, Jobs, Epoch
<1>3. CASE WorkerStep
  <2>1. Jobs' = Jobs /\ worker \in Job
    BY <1>1, <1>3 DEF TypeOK, WorkerStep, Take, Judge, JudgeApproved,
       JudgePending, Check, Hydrate, Approve, SendTicketAdd, Enqueue, Insert,
       Deny, Resolve, At, WorkOnly, Jobs
  <2>2. CASE Take
    <3>1. Head(decision) \in Request /\ epoch \in Epoch
      BY <1>1, <2>2, TailIs DEF Take, TypeOK
    <3>2. /\ worker'.pc = "judge" /\ worker'.req = Head(decision) /\ worker'.epoch = epoch
          /\ worker'.id = None /\ worker'.says = "none"
      BY <2>2 DEF Take, NoJob
    <3>3. QED BY <1>1, <2>1, <3>1, <3>2, LedgerAssumption DEF JobInv, Id
  <2>3. CASE Resolve
    BY <1>1, <2>1, <2>3, LedgerAssumption DEF Resolve, JobInv, NoJob, Id
  <2>4. ASSUME NEW effect \in Policies, Judge(effect) PROVE JobInv'
    <3> DEFINE p == CASE effect = "ticket" -> "check"
                      [] effect = "deny" -> "deny"
                      [] OTHER -> "approve"
               i == CASE effect = "ticket" -> worker.req
                      [] effect = "pass" -> Standing
                      [] OTHER -> None
               s == IF effect = "deny" THEN "deny" ELSE "allow"
    <3>1. worker' = [worker EXCEPT !.pc = p, !.id = i, !.says = s] /\ worker.pc = "judge"
      BY <2>4 DEF Judge, At
    <3>2. /\ \/ p = "check" /\ i = worker.req
             \/ p \in {"deny", "approve"} /\ i \in {Standing, None}
          /\ s \in {"allow", "deny"}
      OBVIOUS
    <3> HIDE DEF p, i, s
    <3>3. /\ worker'.pc = p /\ worker'.id = i /\ worker'.says = s
          /\ worker'.req = worker.req /\ worker'.epoch = worker.epoch
      BY <2>1, <3>1 DEF Job
    <3>4. QED BY <1>1, <2>1, <3>1, <3>2, <3>3, LedgerAssumption DEF JobInv, Id
  <2>5. ASSUME NEW g \in Grant, JudgeApproved(g) PROVE JobInv'
    <3>1. /\ worker.pc = "judge" /\ worker'.pc = "hydrate" /\ worker'.id = g /\ worker'.says = worker.says
          /\ worker'.req = worker.req /\ worker'.epoch = worker.epoch
      BY <2>1, <2>5 DEF JudgeApproved, At, Job
    <3>2. QED BY <1>1, <2>1, <3>1, LedgerAssumption DEF JobInv, Id
  <2>6. CASE JudgePending \/ Check \/ Hydrate \/ Approve \/ SendTicketAdd \/ Enqueue \/ Insert \/ Deny
    <3>1. PICK p : worker' = [worker EXCEPT !.pc = p] /\
             \/ worker.pc = "judge" /\ p = "resolve"
             \/ worker.pc = "check" /\ p \in {"approve", "deny"}
             \/ worker.pc = "hydrate" /\ p = "approve"
             \/ worker.pc = "approve" /\ p = IF worker.id = None THEN "resolve" ELSE "ticket"
             \/ worker.pc = "ticket" /\ p \in {"enqueue", "deny"}
             \/ worker.pc = "enqueue" /\ p = IF worker.id \in Request THEN "insert" ELSE "resolve"
             \/ worker.pc \in {"insert", "deny"} /\ p = "resolve"
      BY <2>6 DEF JudgePending, Check, Hydrate, Approve, SendTicketAdd,
         Enqueue, Insert, Deny, At, Goto, Refused
    <3>2. /\ worker'.pc = p /\ worker'.id = worker.id /\ worker'.says = worker.says
          /\ worker'.req = worker.req /\ worker'.epoch = worker.epoch
      BY <2>1, <3>1 DEF Job
    <3>3. QED BY <1>1, <2>1, <3>1, <3>2 DEF JobInv
  <2>7. QED BY <1>3, <2>2, <2>3, <2>4, <2>5, <2>6 DEF WorkerStep
<1>4. CASE TakeMessage
  <2>1. audit[1] \in Asking \cup Report /\ Head(audit) = audit[1] /\ worker' = worker
    BY <1>1, <1>4, TailIs DEF TakeMessage, TypeOK, AuditOnly
  <2> DEFINE m == audit[1]
             u == [NoJob EXCEPT !.pc = "judge", !.req = m.req]
  <2> HIDE DEF m
  <2>2. \/ tasks' = tasks
        \/ ~IsAsking(m) /\ tasks' = tasks \cup {m}
        \/ IsAsking(m) /\ tasks' = tasks \cup {u}
    BY <1>4, <2>1 DEF TakeMessage, m
  <2>3. ~IsJob(m) /\ (IsAsking(m) => m.req \in Request)
    BY <2>1, Kinds DEF m
  <2>4. u.pc = "judge" /\ u.req = m.req /\ u.id = None
    BY DEF NoJob
  <2> HIDE DEF u
  <2>5. Jobs' \subseteq Jobs \/ (Jobs' \subseteq Jobs \cup {u} /\ IsAsking(m))
    BY <2>2, <2>3 DEF Jobs
  <2>6. QED BY <1>1, <2>1, <2>3, <2>4, <2>5 DEF JobInv, Epoch
<1>5. CASE TakeEvent
  <2>1. worker' = worker /\ tasks' = tasks \cup {Head(events)}
    BY <1>5 DEF TakeEvent, AuditOnly
  <2>2. Head(events) \in Resolved
    BY <1>1, <1>5, TailIs DEF TakeEvent, TypeOK
  <2>3. Jobs' = Jobs
    BY <2>1, <2>2, Kinds DEF Jobs
  <2>4. QED BY <1>1, <2>1, <2>3 DEF JobInv, Epoch
<1>6. ASSUME NEW t \in tasks, TaskStep(t) PROVE JobInv'
  <2>1. worker' = worker
    BY <1>1, <1>6, TaskMoves DEF TaskOnly, AuditOnly
  <2>2. CASE Jobs' \subseteq Jobs
    BY <1>1, <2>1, <2>2 DEF JobInv, Epoch
  <2>3. CASE \E effect \in Policies : AuditJudge(t, effect)
    <3>1. PICK u \in Job :
               /\ Becomes(t, u) /\ u.req = t.req /\ u.epoch = epoch
               /\ \/ u.pc = "insert" /\ u.id = t.req
                  \/ u.pc = "ticket" /\ u.id = Standing
                  \/ u.pc = "log" /\ u.id = None
               /\ u.says \in {"allow", "deny", "approval"}
      BY <1>1, <2>3, AuditJudgeIs
    <3>2. t \in Jobs /\ epoch \in Epoch
      BY <1>1, <2>3, AtTaskIs DEF AuditJudge, TypeOK
    <3>3. Jobs' = (Jobs \ {t}) \cup {u}
      BY <1>1, <3>1, JobsAfter DEF Becomes
    <3>4. QED BY <1>1, <2>1, <3>1, <3>2, <3>3, LedgerAssumption DEF JobInv, Epoch
  <2>4. CASE AuditInsert(t) \/ AuditTicket(t) \/ AuditEnqueue(t)
    <3>1. t \in Jobs /\ t \in Job /\ t.pc \in {"insert", "ticket", "enqueue"}
      BY <1>1, <2>4, AtTaskIs DEF AuditInsert, AuditTicket, AuditEnqueue
    <3>2. PICK p \in {"ticket", "enqueue", "log"} : GotoTask(t, p)
      BY <2>4 DEF AuditInsert, AuditTicket, AuditEnqueue, Unsent
    <3>3. PICK u \in Job : /\ Becomes(t, u) /\ u.pc = p
                           /\ u.req = t.req /\ u.epoch = t.epoch /\ u.id = t.id /\ u.says = t.says
      BY <3>1, <3>2, GotoTaskIs
    <3>4. Jobs' = (Jobs \ {t}) \cup {u}
      BY <1>1, <3>3, JobsAfter DEF Becomes
    <3>5. QED BY <1>1, <2>1, <3>1, <3>2, <3>3, <3>4, LedgerAssumption DEF JobInv, Epoch
  <2>5. CASE AuditLog(t) \/ LogResolved(t) \/ HandleReport(t)
    <3>1. Jobs' \subseteq Jobs
      BY <2>5 DEF AuditLog, LogResolved, HandleReport, Jobs
    <3>2. QED BY <2>2, <3>1
  <2>6. QED BY <1>6, <2>3, <2>4, <2>5 DEF TaskStep
<1>7. CASE SenderStep \/ Command
  <2>1. UNCHANGED <<worker, tasks>>
    BY <1>7 DEF SenderStep, DispatchAnswer, DispatchTicket, DispatchSync,
       Dispatch, Command, ApproveInAdvance, Settle, SwitchMode,
       BeginTransition, SendSync, Commit, ClearOld, Open, Change, AdminOnly
  <2>2. QED BY <1>2, <2>1
<1>8. ASSUME \/ Receive
             \/ \E r \in Request, audited \in BOOLEAN : Ask(r, audited)
             \/ \E t \in kernel.tickets, report \in BOOLEAN :
                    UseTicket(t, report) \/ ExpireTicket(t, report)
      PROVE  JobInv'
  BY <1>2, <1>8 DEF Receive, Ask, UseTicket, ExpireTicket, KernelOnly
<1>9. QED
  BY <1>3, <1>4, <1>5, <1>6, <1>7, <1>8 DEF Next, Command

-----------------------------------------------------------------------------
(* The stages of a ticket. *)

UseOrExpire(t, report) == UseTicket(t, report) \/ ExpireTicket(t, report)

\* The steps of the rest leave what comes in and the tasks alone.
LEMMA InUntouched ==
    ASSUME SenderStep \/ Command \/ (WorkerStep /\ ~Take)
    PROVE  UNCHANGED <<socket, audit, decision, tasks>> /\ Jobs' = Jobs
BY DEF SenderStep, DispatchAnswer, DispatchTicket, DispatchSync, Dispatch,
   Command, ApproveInAdvance, Settle, SwitchMode, BeginTransition, SendSync,
   Commit, ClearOld, Open, Change, AdminOnly, WorkerStep, Judge, JudgeApproved,
   JudgePending, Check, Hydrate, Approve, SendTicketAdd, Enqueue, Insert, Deny,
   Resolve, At, WorkOnly, inVars, Jobs

LEMMA OutIs ==
    \A m : m \in Outstanding <=> /\ ~IsAsking(m)
                                 /\ \/ \E k \in DOMAIN socket : m = socket[k]
                                    \/ \E k \in DOMAIN audit : m = audit[k]
                                    \/ m \in tasks
BY DEF Outstanding

LEMMA OutIsNext ==
    \A m : m \in Outstanding' <=> /\ ~IsAsking(m)
                                  /\ \/ \E k \in DOMAIN socket' : m = socket'[k]
                                     \/ \E k \in DOMAIN audit' : m = audit'[k]
                                     \/ m \in tasks'
BY DEF Outstanding

\* What arrives in the socket.
LEMMA ArrivesIs ==
    ASSUME TypeOK, NEW m \in Asking \cup Report, Arrives(m)
    PROVE  \A k \in DOMAIN socket' : \/ k \in DOMAIN socket /\ socket'[k] = socket[k]
                                     \/ socket' # socket /\ socket'[k] = m
<1> DEFINE S == Asking \cup Report
<1> HIDE DEF S
<1>1. socket \in Seq(S) /\ m \in S
  BY DEF TypeOK, S
<1>2. \A k \in DOMAIN Append(socket, m) : \/ k \in DOMAIN socket /\ Append(socket, m)[k] = socket[k]
                                          \/ k = Len(socket) + 1 /\ Append(socket, m)[k] = m
  BY <1>1, AppendIs
<1>3. Append(socket, m) # socket
  BY <1>1, AppendIs
<1>4. QED BY <1>2, <1>3 DEF Arrives

\* No report comes up but by the use and the end of a ticket.
LEMMA OutKept ==
    ASSUME TypeOK, JobInv, Next,
           ~\E t \in kernel.tickets, report \in BOOLEAN : UseOrExpire(t, report)
    PROVE  Outstanding' \subseteq Outstanding
<1> SUFFICES ASSUME NEW m, m \in Outstanding' PROVE m \in Outstanding
  OBVIOUS
<1>1. CASE SenderStep \/ Command \/ (WorkerStep /\ ~Take)
  BY <1>1, InUntouched, OutIs, OutIsNext
<1>2. CASE Take
  BY <1>2, OutIs, OutIsNext DEF Take, WorkOnly
<1>3. ASSUME NEW r \in Request, NEW audited \in BOOLEAN, Ask(r, audited) PROVE m \in Outstanding
  <2>1. Asked(r, audited) \in Asking /\ Arrives(Asked(r, audited)) /\ UNCHANGED <<audit, tasks>>
    BY <1>3, Made DEF Ask, KernelOnly
  <2>2. IsAsking(Asked(r, audited))
    BY <2>1, Kinds
  <2>3. QED BY <2>1, <2>2, ArrivesIs, OutIs, OutIsNext
<1>4. CASE Receive
  <2>1. UNCHANGED tasks
    BY <1>4 DEF Receive
  <2>2. PICK x \in Asking \cup Report :
               /\ 1 \in DOMAIN socket /\ x = socket[1]
               /\ \A k \in DOMAIN socket' : k + 1 \in DOMAIN socket /\ socket'[k] = socket[k + 1]
               /\ \/ UNCHANGED audit
                  \/ \A k \in DOMAIN audit' :
                            \/ k \in DOMAIN audit /\ audit'[k] = audit[k]
                            \/ audit'[k] = x
    BY <1>4, ReceiveIs
  <2>3. QED BY <2>1, <2>2, OutIs, OutIsNext
<1>5. CASE TakeMessage
  <2>1. audit \in Seq(Asking \cup Report) /\ audit # <<>> /\ audit' = Tail(audit) /\ UNCHANGED socket
    BY <1>5 DEF TypeOK, TakeMessage, AuditOnly
  <2>2. /\ 1 \in DOMAIN audit /\ Head(audit) = audit[1] /\ audit[1] \in Asking \cup Report
        /\ \A k \in DOMAIN audit' : k + 1 \in DOMAIN audit /\ audit'[k] = audit[k + 1]
    BY <2>1, TailIs
  <2> DEFINE x == audit[1]
             u == [NoJob EXCEPT !.pc = "judge", !.req = x.req]
  <2>3. tasks' \subseteq tasks \cup {x} \/ (IsAsking(x) /\ tasks' \subseteq tasks \cup {u})
    BY <1>5, <2>2 DEF TakeMessage
  <2>4. IsAsking(u)
    BY DEF NoJob, IsAsking
  <2> HIDE DEF u
  <2>5. QED BY <2>1, <2>2, <2>3, <2>4, OutIs, OutIsNext
<1>6. CASE TakeEvent
  <2>1. Head(events) \in Resolved /\ tasks' = tasks \cup {Head(events)} /\ UNCHANGED <<socket, audit>>
    BY <1>6, TailIs DEF TakeEvent, TypeOK, AuditOnly
  <2>2. QED BY <2>1, Kinds, OutIs, OutIsNext
<1>7. ASSUME NEW t \in tasks, TaskStep(t) PROVE m \in Outstanding
  <2>1. UNCHANGED <<socket, audit>>
    BY <1>7, TaskMoves DEF TaskOnly, AuditOnly
  <2>2. tasks' = tasks \ {t} \/ \E u \in Job : tasks' = (tasks \ {t}) \cup {u}
    BY <1>7, TaskMoves
  <2>3. QED BY <2>1, <2>2, Kinds, OutIs, OutIsNext
<1>8. QED BY <1>1, <1>2, <1>3, <1>4, <1>5, <1>6, <1>7 DEF Next, Command, UseOrExpire

\* A request goes forward: from the socket to a channel, from there to a job.
LEMMA RequestsMove ==
    ASSUME TypeOK, JobInv, Next, NEW r \in Request
    PROVE  /\ state'[r] = "new" => state[r] = "new"
           /\ InSocket(r)' => InSocket(r) \/ state[r] = "new"
           /\ InDecision(r)' => InDecision(r) \/ InSocket(r)
           /\ InAudit(r)' => InAudit(r) \/ InSocket(r)
           /\ worker'.pc = "judge" /\ worker'.req = r =>
                  InDecision(r) \/ (worker.pc = "judge" /\ worker.req = r)
           /\ (\E t \in Jobs' : t.pc = "judge" /\ t.req = r) =>
                  InAudit(r) \/ \E t \in Jobs : t.pc = "judge" /\ t.req = r
<1>1. state'[r] = "new" => state[r] = "new"
  BY DEF TypeOK, Next, Ask, UseTicket, ExpireTicket, KernelOnly, Receive,
     SenderStep, DispatchAnswer, DispatchTicket, DispatchSync, Dispatch,
     WorkerStep, Take, Judge, JudgeApproved, JudgePending, Check, Hydrate,
     Approve, SendTicketAdd, Enqueue, Insert, Deny, Resolve, TakeMessage,
     TakeEvent, TaskStep, AuditJudge, AuditInsert, AuditTicket, AuditEnqueue,
     AuditLog, LogResolved, HandleReport, AtTask, TaskOnly, AuditOnly,
     ApproveInAdvance, Settle, SwitchMode, BeginTransition, SendSync, Commit,
     ClearOld, Open, Change, AdminOnly
<1>2. CASE SenderStep \/ Command
  <2>1. UNCHANGED <<socket, audit, decision, tasks>> /\ Jobs' = Jobs
    BY <1>2, InUntouched
  <2>2. UNCHANGED worker
    BY <1>2 DEF SenderStep, DispatchAnswer, DispatchTicket, DispatchSync,
       Dispatch, Command, ApproveInAdvance, Settle, SwitchMode,
       BeginTransition, SendSync, Commit, ClearOld, Open, Change, AdminOnly
  <2>3. QED BY <1>1, <2>1, <2>2 DEF InSocket, InDecision, InAudit
<1>3. CASE WorkerStep /\ ~Take
  <2>1. UNCHANGED <<socket, audit, decision, tasks>> /\ Jobs' = Jobs
    BY <1>3, InUntouched
  <2>2. worker'.pc # "judge"
    <3>1. worker \in Job
      BY DEF TypeOK
    <3>2. CASE Resolve
      BY <3>2 DEF Resolve, NoJob
    <3>3. ASSUME NEW effect \in Policies, Judge(effect) PROVE worker'.pc # "judge"
      <4> DEFINE p == CASE effect = "ticket" -> "check"
                        [] effect = "deny" -> "deny"
                        [] OTHER -> "approve"
      <4>1. worker'.pc = p
        BY <3>1, <3>3 DEF Judge, Job
      <4>2. p # "judge"
        OBVIOUS
      <4>3. QED BY <4>1, <4>2
    <3>4. CASE ~Resolve /\ ~\E effect \in Policies : Judge(effect)
      BY <1>3, <3>1, <3>4 DEF Job, WorkerStep, JudgeApproved, JudgePending,
         Check, Hydrate, Approve, SendTicketAdd, Enqueue, Insert, Deny, Goto,
         Refused
    <3>5. QED BY <3>2, <3>3, <3>4
  <2>3. QED BY <1>1, <2>1, <2>2 DEF InSocket, InDecision, InAudit
<1>4. CASE Take
  <2>1. UNCHANGED <<socket, audit, tasks>> /\ Jobs' = Jobs
    BY <1>4 DEF Take, WorkOnly, Jobs
  <2>2. decision \in Seq(Request) /\ decision # <<>> /\ decision' = Tail(decision)
    BY <1>4 DEF Take, TypeOK
  <2>3. /\ 1 \in DOMAIN decision /\ Head(decision) = decision[1]
        /\ \A k \in DOMAIN decision' : k + 1 \in DOMAIN decision /\ decision'[k] = decision[k + 1]
    BY <2>2, TailIs
  <2>4. worker'.req = decision[1]
    BY <1>4, <2>3 DEF Take, NoJob
  <2>5. QED BY <1>1, <2>1, <2>3, <2>4 DEF InSocket, InDecision, InAudit
<1>5. ASSUME NEW q \in Request, NEW audited \in BOOLEAN, Ask(q, audited)
      PROVE  InSocket(r)' => InSocket(r) \/ state[r] = "new"
  <2>1. Asked(q, audited) \in Asking /\ Arrives(Asked(q, audited)) /\ Asked(q, audited).req = q /\ state[q] = "new"
    BY <1>5, Made DEF Ask, Asked
  <2>2. \A k \in DOMAIN socket' : \/ k \in DOMAIN socket /\ socket'[k] = socket[k]
                                  \/ socket' # socket /\ socket'[k] = Asked(q, audited)
    BY <2>1, ArrivesIs
  <2>3. QED BY <2>1, <2>2 DEF InSocket
<1>6. ASSUME NEW t \in kernel.tickets, NEW report \in BOOLEAN, UseTicket(t, report) \/ ExpireTicket(t, report)
      PROVE  InSocket(r)' => InSocket(r)
  <2>1. CASE UNCHANGED socket
    BY <2>1 DEF InSocket
  <2>2. CASE \E m \in Report : Arrives(m)
    <3>1. PICK m \in Report : Arrives(m)
      BY <2>2
    <3>2. ~IsAsking(m)
      BY Kinds
    <3>3. QED BY <3>1, <3>2, ArrivesIs DEF InSocket
  <2>3. Reported(t.id, t.left - 1, FALSE) \in Report /\ Reported(t.id, t.left, TRUE) \in Report
    BY TicketTyped, Made
  <2>4. QED BY <1>6, <2>1, <2>2, <2>3 DEF UseTicket, ExpireTicket
<1>7. CASE \/ \E q \in Request, audited \in BOOLEAN : Ask(q, audited)
           \/ \E t \in kernel.tickets, report \in BOOLEAN : UseTicket(t, report) \/ ExpireTicket(t, report)
  <2>1. UNCHANGED <<decision, audit, worker, tasks>> /\ Jobs' = Jobs
    BY <1>7 DEF Ask, UseTicket, ExpireTicket, KernelOnly, Jobs
  <2>2. InSocket(r)' => InSocket(r) \/ state[r] = "new"
    BY <1>5, <1>6, <1>7
  <2>3. QED BY <1>1, <2>1, <2>2 DEF InDecision, InAudit
<1>8. CASE Receive
  <2>1. UNCHANGED <<worker, tasks>> /\ Jobs' = Jobs
    BY <1>8 DEF Receive, Jobs
  <2>2. PICK m \in Asking \cup Report :
               /\ 1 \in DOMAIN socket /\ m = socket[1]
               /\ \A k \in DOMAIN socket' : k + 1 \in DOMAIN socket /\ socket'[k] = socket[k + 1]
               /\ \/ /\ IsAsking(m) /\ UNCHANGED audit
                     /\ \A k \in DOMAIN decision' :
                            \/ k \in DOMAIN decision /\ decision'[k] = decision[k]
                            \/ decision'[k] = m.req
                  \/ /\ UNCHANGED decision
                     /\ \A k \in DOMAIN audit' :
                            \/ k \in DOMAIN audit /\ audit'[k] = audit[k]
                            \/ audit'[k] = m
    BY <1>8, ReceiveIs
  <2>3. InSocket(r)' => InSocket(r)
    BY <2>2 DEF InSocket
  <2>4. InDecision(r)' => InDecision(r) \/ InSocket(r)
    BY <2>2 DEF InSocket, InDecision
  <2>5. InAudit(r)' => InAudit(r) \/ InSocket(r)
    BY <2>2 DEF InSocket, InAudit
  <2>6. QED BY <1>1, <2>1, <2>3, <2>4, <2>5
<1>9. CASE TakeMessage
  <2>1. audit \in Seq(Asking \cup Report) /\ audit # <<>> /\ audit' = Tail(audit)
        /\ UNCHANGED <<socket, decision, worker>>
    BY <1>9 DEF TypeOK, TakeMessage, AuditOnly
  <2>2. /\ 1 \in DOMAIN audit /\ Head(audit) = audit[1] /\ audit[1] \in Asking \cup Report
        /\ \A k \in DOMAIN audit' : k + 1 \in DOMAIN audit /\ audit'[k] = audit[k + 1]
    BY <2>1, TailIs
  <2> DEFINE x == audit[1]
             u == [NoJob EXCEPT !.pc = "judge", !.req = x.req]
  <2>3. tasks' \subseteq tasks \cup {x} \/ (IsAsking(x) /\ tasks' \subseteq tasks \cup {u})
    BY <1>9, <2>2 DEF TakeMessage
  <2>4. u.req = x.req /\ ~IsJob(x)
    BY <2>2, Kinds DEF NoJob
  <2> HIDE DEF u
  <2>5. \A t \in Jobs' : t \in Jobs \/ (t = u /\ IsAsking(x))
    BY <2>3, <2>4 DEF Jobs
  <2>6. (\E t \in Jobs' : t.pc = "judge" /\ t.req = r) =>
            InAudit(r) \/ \E t \in Jobs : t.pc = "judge" /\ t.req = r
    BY <2>2, <2>4, <2>5 DEF InAudit
  <2>7. InAudit(r)' => InAudit(r)
    BY <2>2 DEF InAudit
  <2>8. QED BY <1>1, <2>1, <2>6, <2>7 DEF InSocket, InDecision
<1>10. CASE TakeEvent
  <2>1. Head(events) \in Resolved /\ tasks' = tasks \cup {Head(events)} /\ UNCHANGED <<inVars, worker>>
    BY <1>10, TailIs DEF TakeEvent, TypeOK, AuditOnly, inVars
  <2>2. Jobs' = Jobs
    BY <2>1, Kinds DEF Jobs
  <2>3. QED BY <1>1, <2>1, <2>2 DEF InSocket, InDecision, InAudit, inVars
<1>11. ASSUME NEW t \in tasks, TaskStep(t)
       PROVE  UNCHANGED <<inVars, worker>> /\ \A u \in Jobs' : u.pc = "judge" => u \in Jobs
  <2>1. UNCHANGED <<inVars, worker>>
    BY <1>11, TaskMoves DEF TaskOnly, AuditOnly, inVars
  <2>2. CASE \E effect \in Policies : AuditJudge(t, effect)
    <3>1. PICK u \in Job : Becomes(t, u) /\ u.pc # "judge"
      BY <2>2, AuditJudgeIs
    <3>2. QED BY <2>1, <3>1, JobsAfter DEF Becomes
  <2>3. CASE AuditInsert(t) \/ AuditTicket(t) \/ AuditEnqueue(t)
    <3>1. t \in Job
      BY <2>3, AtTaskIs DEF AuditInsert, AuditTicket, AuditEnqueue
    <3>2. PICK p \in {"ticket", "enqueue", "log"} : GotoTask(t, p)
      BY <2>3 DEF AuditInsert, AuditTicket, AuditEnqueue, Unsent
    <3>3. PICK u \in Job : Becomes(t, u) /\ u.pc = p
      BY <3>1, <3>2, GotoTaskIs
    <3>4. QED BY <2>1, <3>3, JobsAfter DEF Becomes
  <2>4. CASE AuditLog(t) \/ LogResolved(t) \/ HandleReport(t)
    BY <2>1, <2>4, JobsAfter DEF AuditLog, LogResolved, HandleReport
  <2>5. QED BY <1>11, <2>2, <2>3, <2>4 DEF TaskStep
<1>12. CASE \E t \in tasks : TaskStep(t)
  BY <1>1, <1>11, <1>12 DEF InSocket, InDecision, InAudit, inVars
<1>13. QED BY <1>2, <1>3, <1>4, <1>7, <1>8, <1>9, <1>10, <1>12 DEF Next, Command

\* What is judged once is not judged again.
LEMMA FreshKept ==
    ASSUME LInv, Next, NEW i \in Id, Fresh(i)'
    PROVE  Fresh(i)
<1>1. TypeOK /\ JobInv /\ PlaceInv
  BY DEF LInv
<1>2. \A g \in Grant : approved'[g] # "spent" => approved[g] # "spent"
  <2>1. \/ UNCHANGED approved
        \/ \E g \in Grant : JudgeApproved(g) \/ ApproveInAdvance(g)
        \/ ClearOld
    BY DEF Next, Ask, UseTicket, ExpireTicket, KernelOnly, Receive, SenderStep,
       DispatchAnswer, DispatchTicket, DispatchSync, Dispatch, WorkerStep,
       Take, Judge, JudgeApproved, JudgePending, Check, Hydrate, Approve,
       SendTicketAdd, Enqueue, Insert, Deny, Resolve, TakeMessage, TakeEvent,
       TaskStep, AuditJudge, AuditInsert, AuditTicket, AuditEnqueue, AuditLog,
       LogResolved, HandleReport, AtTask, TaskOnly, AuditOnly, policyVars,
       ApproveInAdvance, Settle, SwitchMode, BeginTransition, SendSync, Commit,
       Open
  <2>2. QED BY <1>1, <2>1 DEF JudgeApproved, ApproveInAdvance, ClearOld, TypeOK
<1>3. CASE i \in Grant
  <2>1. i \notin Request
    BY <1>3, LedgerAssumption
  <2>2. approved'[i] # "spent"
    BY <2>1 DEF Fresh
  <2>3. QED BY <1>2, <1>3, <2>2 DEF Fresh
<1>4. CASE i \in Request
  <2>1. i \notin Grant
    BY <1>4, LedgerAssumption
  <2>2. \/ state'[i] = "new" \/ InSocket(i)' \/ InDecision(i)' \/ InAudit(i)'
        \/ worker'.pc = "judge" /\ worker'.req = i
        \/ \E t \in Jobs' : t.pc = "judge" /\ t.req = i
    BY <2>1 DEF Fresh
  <2>3. \/ state[i] = "new" \/ InSocket(i) \/ InDecision(i) \/ InAudit(i)
        \/ worker.pc = "judge" /\ worker.req = i
        \/ \E t \in Jobs : t.pc = "judge" /\ t.req = i
    BY <1>1, <1>4, <2>2, RequestsMove
  <2>4. QED BY <1>4, <2>3 DEF Fresh
<1>5. QED BY <1>3, <1>4 DEF Id

\* A request that is judged is nowhere else.
LEMMA JudgedNext ==
    ASSUME PlaceInv', NEW i \in Request,
           \/ worker'.pc \notin {"idle", "judge"} /\ worker'.req = i
           \/ \E t \in Jobs' : t.pc # "judge" /\ t.req = i
    PROVE  ~Fresh(i)'
<1>1. i \notin Grant
  BY LedgerAssumption
<1>2. CASE worker'.pc \notin {"idle", "judge"} /\ worker'.req = i
  <2>1. state'[i] \in {"waits", "passed", "parked"}
    BY <1>2 DEF PlaceInv
  <2>2. state'[i] # "new" /\ ~InSocket(i)' /\ ~InDecision(i)'
    BY <1>2, <2>1 DEF PlaceInv
  <2>3. ~InAudit(i)' /\ \A t \in Jobs' : t.req # i
    BY <2>1 DEF PlaceInv, InAudit
  <2>4. QED BY <1>1, <1>2, <2>2, <2>3 DEF Fresh
<1>3. CASE \E t \in Jobs' : t.pc # "judge" /\ t.req = i
  <2>1. PICK t \in Jobs' : t.pc # "judge" /\ t.req = i
    BY <1>3
  <2>2. state'[i] = "audited"
    BY <2>1 DEF PlaceInv
  <2>3. ~InSocket(i)' /\ ~InAudit(i)' /\ \A u \in Jobs' : u.req = i => u = t
    BY <2>1 DEF PlaceInv
  <2>4. ~InDecision(i)' /\ (worker'.pc # "idle" => worker'.req # i)
    BY <2>2 DEF PlaceInv, InDecision
  <2>5. QED BY <1>1, <2>1, <2>2, <2>3, <2>4 DEF Fresh
<1>4. QED BY <1>2, <1>3

\* The steps of the worker, by where it stands.
LEMMA WorkerIs ==
    ASSUME TypeOK, JobInv, WorkerStep
    PROVE  \/ Take /\ worker'.pc = "judge" /\ worker'.id = None
           \/ Resolve /\ worker' = NoJob
           \/ /\ \E effect \in Policies : Judge(effect)
              /\ worker.pc = "judge" /\ worker'.req = worker.req /\ worker'.epoch = worker.epoch
              /\ \/ worker'.pc = "check" /\ worker'.id = worker.req /\ worker'.says = "allow"
                 \/ worker'.pc = "approve" /\ worker'.id \in {Standing, None} /\ worker'.says = "allow"
                 \/ worker'.pc = "deny" /\ worker'.id = None /\ worker'.says = "deny"
           \/ /\ worker.pc = "judge" /\ worker'.req = worker.req /\ worker'.epoch = worker.epoch
              /\ worker'.says = worker.says
              /\ \E g \in Grant : JudgeApproved(g) /\ worker'.id = g /\ worker'.pc = "hydrate"
           \/ /\ worker'.req = worker.req /\ worker'.epoch = worker.epoch
              /\ worker'.id = worker.id /\ worker'.says = worker.says
              /\ \/ JudgePending /\ worker.pc = "judge" /\ worker'.pc = "resolve"
                 \/ Check /\ worker.pc = "check" /\ epoch = worker.epoch /\ worker'.pc = "approve"
                 \/ Check /\ worker.pc = "check" /\ epoch # worker.epoch /\ worker'.pc = "deny"
                 \/ Hydrate /\ worker.pc = "hydrate" /\ worker'.pc = "approve"
                 \/ Approve /\ worker.pc = "approve"
                    /\ worker'.pc = IF worker.id = None THEN "resolve" ELSE "ticket"
                 \/ SendTicketAdd /\ worker.pc = "ticket" /\ worker'.pc = IF Gate THEN "deny" ELSE "enqueue"
                 \/ Enqueue /\ worker.pc = "enqueue"
                    /\ worker'.pc = IF worker.id \in Request THEN "insert" ELSE "resolve"
                 \/ Insert /\ worker.pc = "insert" /\ worker'.pc = "resolve"
                 \/ Deny /\ worker.pc = "deny" /\ worker'.pc = "resolve"
<1>1. worker \in Job
  BY DEF TypeOK
<1>2. CASE Take
  BY <1>2 DEF Take, NoJob
<1>3. CASE Resolve
  BY <1>3 DEF Resolve
<1>4. ASSUME NEW effect \in Policies, Judge(effect)
      PROVE  /\ worker.pc = "judge" /\ worker'.req = worker.req /\ worker'.epoch = worker.epoch
             /\ \/ worker'.pc = "check" /\ worker'.id = worker.req /\ worker'.says = "allow"
                \/ worker'.pc = "approve" /\ worker'.id \in {Standing, None} /\ worker'.says = "allow"
                \/ worker'.pc = "deny" /\ worker'.id = None /\ worker'.says = "deny"
  <2> DEFINE p == CASE effect = "ticket" -> "check"
                    [] effect = "deny" -> "deny"
                    [] OTHER -> "approve"
             i == CASE effect = "ticket" -> worker.req
                    [] effect = "pass" -> Standing
                    [] OTHER -> None
             s == IF effect = "deny" THEN "deny" ELSE "allow"
  <2>1. worker' = [worker EXCEPT !.pc = p, !.id = i, !.says = s] /\ worker.pc = "judge"
    BY <1>4 DEF Judge, At
  <2>2. \/ p = "check" /\ i = worker.req /\ s = "allow"
        \/ p = "approve" /\ i \in {Standing, None} /\ s = "allow"
        \/ p = "deny" /\ i = None /\ s = "deny"
    OBVIOUS
  <2> HIDE DEF p, i, s
  <2>3. /\ worker'.pc = p /\ worker'.id = i /\ worker'.says = s
        /\ worker'.req = worker.req /\ worker'.epoch = worker.epoch
    BY <1>1, <2>1 DEF Job
  <2>4. QED BY <2>1, <2>2, <2>3
<1>5. ASSUME NEW g \in Grant, JudgeApproved(g)
      PROVE  /\ worker.pc = "judge" /\ worker'.pc = "hydrate" /\ worker'.id = g /\ worker'.says = worker.says
             /\ worker'.req = worker.req /\ worker'.epoch = worker.epoch
  BY <1>1, <1>5 DEF JudgeApproved, At, Job
<1>6. CASE JudgePending \/ Check \/ Hydrate \/ Approve \/ SendTicketAdd \/ Enqueue \/ Insert \/ Deny
  <2>1. ASSUME NEW p, worker' = [worker EXCEPT !.pc = p]
        PROVE  /\ worker'.pc = p /\ worker'.id = worker.id /\ worker'.says = worker.says
               /\ worker'.req = worker.req /\ worker'.epoch = worker.epoch
    BY <1>1, <2>1 DEF Job
  <2>2. QED BY <1>6, <2>1 DEF JudgePending, Check, Hydrate, Approve, SendTicketAdd, Enqueue, Insert, Deny, At, Goto, Refused
<1>7. QED BY <1>2, <1>3, <1>4, <1>5, <1>6 DEF WorkerStep

\* The steps of a task.
LEMMA TaskIs ==
    ASSUME TypeOK, JobInv, NEW t \in tasks, TaskStep(t)
    PROVE  /\ TaskOnly
           /\ \/ /\ AuditLog(t) \/ LogResolved(t) \/ HandleReport(t)
                 /\ tasks' = tasks \ {t} /\ Jobs' = Jobs \ {t}
              \/ /\ t \in Jobs /\ t \in Job
                 /\ \E u \in Job :
                        /\ tasks' = (tasks \ {t}) \cup {u} /\ Jobs' = (Jobs \ {t}) \cup {u}
                        /\ u.req = t.req
                        /\ \/ /\ \E effect \in Policies : AuditJudge(t, effect)
                              /\ t.pc = "judge" /\ u.epoch = epoch
                              /\ \/ u.pc = "insert" /\ u.id = t.req
                                 \/ u.pc = "ticket" /\ u.id = Standing
                                 \/ u.pc = "log" /\ u.id = None
                           \/ /\ u.epoch = t.epoch /\ u.id = t.id /\ u.says = t.says
                              /\ \/ AuditInsert(t) /\ t.pc = "insert" /\ u.pc = "ticket"
                                 \/ AuditTicket(t) /\ t.pc = "ticket"
                                    /\ u.pc = IF Gate THEN "log" ELSE "enqueue"
                                 \/ AuditEnqueue(t) /\ t.pc = "enqueue" /\ u.pc = "log"
<1>1. TaskOnly
  BY TaskMoves
<1>2. CASE AuditLog(t) \/ LogResolved(t) \/ HandleReport(t)
  BY <1>1, <1>2, JobsAfter DEF AuditLog, LogResolved, HandleReport
<1>3. ASSUME NEW effect \in Policies, AuditJudge(t, effect)
      PROVE  /\ t \in Jobs /\ t \in Job /\ t.pc = "judge"
             /\ \E u \in Job :
                    /\ tasks' = (tasks \ {t}) \cup {u} /\ Jobs' = (Jobs \ {t}) \cup {u}
                    /\ u.req = t.req /\ u.epoch = epoch
                    /\ \/ u.pc = "insert" /\ u.id = t.req
                       \/ u.pc = "ticket" /\ u.id = Standing
                       \/ u.pc = "log" /\ u.id = None
  <2>1. t \in Jobs /\ t \in Job /\ t.pc = "judge"
    BY <1>3, AtTaskIs DEF AuditJudge
  <2>2. PICK u \in Job :
             /\ Becomes(t, u) /\ u.req = t.req /\ u.epoch = epoch
             /\ \/ u.pc = "insert" /\ u.id = t.req
                \/ u.pc = "ticket" /\ u.id = Standing
                \/ u.pc = "log" /\ u.id = None
    BY <1>3, AuditJudgeIs
  <2>3. tasks' = (tasks \ {t}) \cup {u} /\ Jobs' = (Jobs \ {t}) \cup {u}
    BY <2>2, JobsAfter DEF Becomes
  <2>4. QED BY <2>1, <2>2, <2>3
<1>4. CASE AuditInsert(t) \/ AuditTicket(t) \/ AuditEnqueue(t)
  <2>1. PICK p \in {"ticket", "enqueue", "log"} :
             /\ GotoTask(t, p) /\ t \in Jobs /\ t \in Job
             /\ \/ AuditInsert(t) /\ t.pc = "insert" /\ p = "ticket"
                \/ AuditTicket(t) /\ t.pc = "ticket" /\ p = IF Gate THEN "log" ELSE "enqueue"
                \/ AuditEnqueue(t) /\ t.pc = "enqueue" /\ p = "log"
    BY <1>4, AtTaskIs DEF AuditInsert, AuditTicket, AuditEnqueue, Unsent
  <2>2. PICK u \in Job : /\ Becomes(t, u) /\ u.pc = p
                         /\ u.req = t.req /\ u.epoch = t.epoch /\ u.id = t.id /\ u.says = t.says
    BY <2>1, GotoTaskIs
  <2>3. tasks' = (tasks \ {t}) \cup {u} /\ Jobs' = (Jobs \ {t}) \cup {u}
    BY <2>2, JobsAfter DEF Becomes
  <2>4. QED BY <1>1, <2>1, <2>2, <2>3
<1>5. QED BY <1>1, <1>2, <1>3, <1>4 DEF TaskStep

\* The other steps leave the worker alone, and no job goes on.
LEMMA HandsOff ==
    ASSUME TypeOK, Next, ~WorkerStep, ~\E t \in tasks : TaskStep(t)
    PROVE  /\ UNCHANGED worker
           /\ \A t \in Jobs' : t \in Jobs \/ (t.pc = "judge" /\ t.id = None /\ t.epoch = 0)
           /\ \A t \in Jobs : t \in Jobs'
<1>1. CASE TakeMessage
  <2>1. audit[1] \in Asking \cup Report /\ Head(audit) = audit[1] /\ UNCHANGED worker
    BY <1>1, TailIs DEF TypeOK, TakeMessage, AuditOnly
  <2> DEFINE x == audit[1]
             u == [NoJob EXCEPT !.pc = "judge", !.req = x.req]
  <2>2. /\ tasks' \subseteq tasks \cup {x} \/ tasks' \subseteq tasks \cup {u} \/ (~IsAsking(x) /\ tasks' \subseteq tasks \cup {x})
        /\ tasks \subseteq tasks'
    BY <1>1, <2>1 DEF TakeMessage
  <2>3. u.pc = "judge" /\ u.id = None /\ u.epoch = 0 /\ ~IsJob(x)
    BY <2>1, Kinds DEF NoJob
  <2> HIDE DEF u, x
  <2>4. QED BY <2>1, <2>2, <2>3 DEF Jobs
<1>2. CASE TakeEvent
  <2>1. Head(events) \in Resolved /\ tasks' = tasks \cup {Head(events)} /\ UNCHANGED worker
    BY <1>2, TailIs DEF TakeEvent, TypeOK, AuditOnly
  <2>2. QED BY <2>1, Kinds DEF Jobs
<1>3. CASE ~TakeMessage /\ ~TakeEvent
  BY <1>3 DEF Next, Ask, UseTicket, ExpireTicket, KernelOnly, Receive,
     SenderStep, DispatchAnswer, DispatchTicket, DispatchSync, Dispatch,
     ApproveInAdvance, Settle, SwitchMode, BeginTransition, SendSync, Commit,
     ClearOld, Open, Change, AdminOnly, Jobs
<1>4. QED BY <1>1, <1>2, <1>3

LEMMA WorkerAlone ==
    ASSUME WorkerStep
    PROVE  UNCHANGED <<mode, epoch, rule, transition, switches, socket, audit, tasks, kernel, logged, historyVars>>
           /\ Jobs' = Jobs
BY DEF WorkerStep, Take, Judge, JudgeApproved, JudgePending, Check, Hydrate,
   Approve, SendTicketAdd, Enqueue, Insert, Deny, Resolve, At, WorkOnly, Jobs

\* A job takes up a ticket as it judges.
LEMMA HeldFrom ==
    ASSUME LInv, Next, TypeOK', PlaceInv', NEW i \in Id, Held(i)'
    PROVE  Held(i) \/ (Fresh(i) /\ ~Fresh(i)')
<1>1. TypeOK /\ JobInv /\ PlaceInv /\ Standing # i /\ None # i
  BY LedgerAssumption DEF LInv, Id
<1>2. CASE WorkerStep
  <2>1. Jobs' = Jobs
    BY <1>2, WorkerAlone
  <2>2. SUFFICES ASSUME worker'.id = i, worker'.pc \in {"check", "hydrate", "approve", "ticket", "enqueue"}
                 PROVE  Held(i) \/ (Fresh(i) /\ ~Fresh(i)')
    BY <2>1 DEF Held
  <2>3. CASE worker.id = i /\ worker.pc # "judge"
    BY <1>1, <1>2, <2>2, <2>3, WorkerIs DEF Held, NoJob
  <2>4. CASE worker.pc = "judge" /\ worker'.pc = "check"
    <3>1. worker'.req = i /\ worker.req = i /\ i \in Request
      BY <1>1, <1>2, <2>2, <2>4, WorkerIs DEF NoJob, JobInv
    <3>2. ~Fresh(i)'
      BY <2>4, <3>1, JudgedNext
    <3>3. QED BY <2>4, <3>1, <3>2 DEF Fresh
  <2>5. CASE worker.pc = "judge" /\ worker'.pc # "check"
    <3>1. i \in Grant /\ JudgeApproved(i)
      BY <1>1, <1>2, <2>2, <2>5, WorkerIs DEF NoJob, JobInv
    <3>2. approved[i] = "ready" /\ approved'[i] = "spent" /\ i \notin Request
      BY <1>1, <3>1, LedgerAssumption DEF JudgeApproved, TypeOK
    <3>3. QED BY <3>1, <3>2 DEF Fresh
  <2>6. QED BY <1>1, <1>2, <2>2, <2>3, <2>4, <2>5, WorkerIs DEF JobInv, NoJob
<1>3. ASSUME NEW t \in tasks, TaskStep(t) PROVE Held(i) \/ (Fresh(i) /\ ~Fresh(i)')
  <2>1. UNCHANGED worker
    BY <1>1, <1>3, TaskIs DEF TaskOnly, AuditOnly
  <2>2. SUFFICES ASSUME NEW v \in Jobs', v \notin Jobs, v.id = i, v.pc \in {"insert", "ticket", "enqueue"}
                 PROVE  Held(i) \/ (Fresh(i) /\ ~Fresh(i)')
    BY <2>1 DEF Held
  <2>3. \/ t \in Jobs /\ t.pc = "judge" /\ v.pc = "insert" /\ v.req = t.req /\ i = t.req
        \/ t \in Jobs /\ t.id = i /\ t.pc \in {"insert", "ticket", "enqueue"}
    BY <1>1, <1>3, <2>2, TaskIs
  <2>4. CASE t \in Jobs /\ t.pc = "judge" /\ v.pc = "insert" /\ v.req = t.req /\ i = t.req
    <3>1. i \in Request
      BY <1>1, <2>4 DEF JobInv
    <3>2. ~Fresh(i)'
      BY <2>2, <2>4, <3>1, JudgedNext
    <3>3. QED BY <2>4, <3>1, <3>2 DEF Fresh
  <2>5. QED BY <2>3, <2>4 DEF Held
<1>4. CASE ~WorkerStep /\ ~\E t \in tasks : TaskStep(t)
  BY <1>1, <1>4, HandsOff DEF Held
<1>5. QED BY <1>2, <1>3, <1>4

\* What the sender is given, and what it takes.
LaneTakes == lane # <<>> /\ lane' = Tail(lane) /\ SenderStep

LaneGets(m) ==
    /\ Send(m)
    /\ \/ (Approve \/ Deny) /\ m \in [kind : {"approve", "deny"}, req : {worker.req}]
       \/ SendSync /\ m = Syncing(epoch + 1)
       \/ Enqueue /\ worker.pc = "enqueue" /\ m = Adding(worker.id, worker.epoch)
       \/ \E t \in Jobs : AuditEnqueue(t) /\ t.pc = "enqueue" /\ m = Adding(t.id, t.epoch)

LEMMA LaneIs ==
    ASSUME TypeOK, JobInv, EpochInv, Next
    PROVE  UNCHANGED lane \/ LaneTakes \/ \E m \in Message : LaneGets(m)
<1>1. CASE SenderStep
  BY <1>1 DEF SenderStep, DispatchAnswer, DispatchTicket, DispatchSync,
     Dispatch, LaneTakes
<1>2. CASE Approve \/ Deny
  <2>1. worker.req \in Request
    BY <1>2 DEF Approve, Deny, At, JobInv
  <2>2. PICK k \in {"approve", "deny"} : Send(Answering(k, worker.req))
    BY <1>2 DEF Approve, Deny
  <2>3. Answering(k, worker.req) \in Message
        /\ Answering(k, worker.req) \in [kind : {"approve", "deny"}, req : {worker.req}]
    BY <2>1, Made DEF Answering
  <2>4. QED BY <1>2, <2>2, <2>3 DEF LaneGets
<1>3. CASE Enqueue
  <2>1. /\ worker.pc = "enqueue" /\ worker.id \in Id \cup {Standing} /\ worker.epoch \in Epoch
        /\ Send(Adding(worker.id, worker.epoch))
    BY <1>3 DEF Enqueue, At, JobInv, TypeOK, Job
  <2>2. QED BY <1>3, <2>1, Made DEF LaneGets
<1>4. ASSUME NEW t \in tasks, AuditEnqueue(t) PROVE \E m \in Message : LaneGets(m)
  <2>1. t \in Jobs /\ t \in Job /\ t.pc = "enqueue" /\ Send(Adding(t.id, t.epoch))
    BY <1>4, AtTaskIs DEF AuditEnqueue
  <2>2. t.id \in Id \cup {Standing} /\ t.epoch \in Epoch
    BY <2>1 DEF JobInv, Job
  <2>3. QED BY <1>4, <2>1, <2>2, Made DEF LaneGets
<1>5. CASE SendSync
  <2>1. epoch + 1 \in Epoch /\ Send(Syncing(epoch + 1))
    BY <1>5, LedgerAssumption DEF SendSync, Change, EpochInv, TypeOK, Epoch
  <2>2. QED BY <1>5, <2>1, Made DEF LaneGets
<1>6. CASE ~SenderStep /\ ~Approve /\ ~Deny /\ ~Enqueue /\ ~SendSync /\ ~\E t \in tasks : AuditEnqueue(t)
  BY <1>6 DEF Next, Ask, UseTicket, ExpireTicket, KernelOnly, Receive,
     WorkerStep, Take, Judge, JudgeApproved, JudgePending, Check, Hydrate,
     SendTicketAdd, Insert, Resolve, TakeMessage, TakeEvent, TaskStep,
     AuditJudge, AuditInsert, AuditTicket, AuditLog, LogResolved, HandleReport,
     ApproveInAdvance, Settle, SwitchMode, BeginTransition, Commit, ClearOld,
     Open
<1>7. QED BY <1>1, <1>2, <1>3, <1>4, <1>5, <1>6

LEMMA LaneGrows ==
    ASSUME TypeOK, NEW m \in Message, Send(m)
    PROVE  \E n \in Nat : /\ n \notin DOMAIN lane /\ n \in DOMAIN lane' /\ lane'[n] = m
                          /\ \A k \in DOMAIN lane : k \in DOMAIN lane' /\ lane'[k] = lane[k] /\ k < n
                          /\ \A k \in DOMAIN lane' : k \in DOMAIN lane \/ k = n
                          /\ DOMAIN lane \subseteq Nat
<1> HIDE DEF Message
<1>1. lane \in Seq(Message) /\ lane' = Append(lane, m)
  BY DEF TypeOK, Send
<1>2. /\ Len(lane) \in Nat /\ Len(lane) + 1 \in DOMAIN lane' /\ lane'[Len(lane) + 1] = m
      /\ Len(lane) + 1 \notin DOMAIN lane
      /\ \A k \in DOMAIN lane : k \in DOMAIN lane' /\ lane'[k] = lane[k]
      /\ \A k \in DOMAIN lane' : k \in DOMAIN lane \/ k = Len(lane) + 1
  BY <1>1, AppendIs
<1>3. DOMAIN lane \subseteq Nat /\ \A k \in DOMAIN lane : k < Len(lane) + 1
  BY <1>1
<1>4. Len(lane) + 1 \in Nat
  BY <1>2
<1>5. QED BY <1>2, <1>3, <1>4

LEMMA LaneShrinks ==
    ASSUME TypeOK, LaneTakes
    PROVE  /\ 1 \in DOMAIN lane /\ Head(lane) = lane[1] /\ lane[1] \in Message
           /\ DOMAIN lane \subseteq Nat \ {0} /\ DOMAIN lane' \subseteq Nat \ {0}
           /\ \A k \in DOMAIN lane' : k + 1 \in DOMAIN lane /\ lane'[k] = lane[k + 1] /\ k + 1 # 1
           /\ \A k, l \in DOMAIN lane' : k + 1 = l + 1 => k = l
           /\ \A k \in DOMAIN lane : k = 1 \/ (k - 1 \in DOMAIN lane' /\ lane'[k - 1] = lane[k])
<1> HIDE DEF Message
<1>1. lane \in Seq(Message) /\ lane # <<>> /\ lane' = Tail(lane)
  BY DEF TypeOK, LaneTakes
<1>2. /\ 1 \in DOMAIN lane /\ Head(lane) = lane[1] /\ lane[1] \in Message
      /\ \A k \in DOMAIN lane' : k \in Nat \ {0} /\ k + 1 \in DOMAIN lane /\ lane'[k] = lane[k + 1]
      /\ \A k \in DOMAIN lane : k = 1 \/ (k - 1 \in DOMAIN lane' /\ lane'[k - 1] = lane[k])
  BY <1>1, TailIs
<1>3. DOMAIN lane \subseteq Nat \ {0}
  BY <1>1
<1>4. \A k \in DOMAIN lane' : k + 1 # 1 /\ \A l \in DOMAIN lane' : k + 1 = l + 1 => k = l
  BY <1>2
<1>5. QED BY <1>2, <1>3, <1>4

\* A job that sends a ticket gives it up.
LEMMA GivenUp ==
    ASSUME TypeOK, JobInv, PlaceInv, Next, NEW m \in Message, LaneGets(m), m.kind = "ticket", m.id \in Id
    PROVE  Held(m.id) /\ ~Held(m.id)'
<1> DEFINE i == m.id
<1>1. Standing # i /\ None # i /\ Request \cap Grant = {}
  BY LedgerAssumption DEF Id
<1>2. CASE Enqueue /\ worker.pc = "enqueue" /\ m = Adding(worker.id, worker.epoch)
  <2>1. worker.id = i
    BY <1>2 DEF Adding
  <2>2. WorkerStep /\ Jobs' = Jobs
    BY <1>2, WorkerAlone DEF WorkerStep
  <2>3. worker'.pc \in {"insert", "resolve"}
    BY <1>2 DEF Enqueue, Goto, TypeOK, Job
  <2>4. \A t \in Jobs : t.id # i
    BY <1>1, <1>2, <2>1 DEF JobInv, PlaceInv
  <2>5. QED BY <1>2, <2>1, <2>2, <2>3, <2>4 DEF Held
<1>3. ASSUME NEW t \in Jobs, AuditEnqueue(t), t.pc = "enqueue", m = Adding(t.id, t.epoch)
      PROVE  Held(i) /\ ~Held(i)'
  <2>1. t.id = i /\ t \in tasks /\ TaskStep(t) /\ t.req = i /\ i \in Request
    BY <1>1, <1>3, TasksAre DEF TaskStep, Adding, JobInv
  <2>2. UNCHANGED worker
    BY <2>1, TaskIs DEF TaskOnly, AuditOnly
  <2>3. worker.pc # "idle" => worker.id # i
    BY <1>1, <2>1 DEF JobInv, PlaceInv
  <2>4. \A v \in Jobs' : v \in Jobs \ {t} \/ v.pc = "log"
    BY <1>3, <2>1, TaskIs
  <2>5. \A v \in Jobs \ {t} : v.id # i
    BY <1>1, <2>1 DEF JobInv, PlaceInv
  <2>6. QED BY <1>3, <2>1, <2>2, <2>3, <2>4, <2>5 DEF Held
<1>4. QED BY <1>2, <1>3 DEF LaneGets, Syncing

LEMMA LaneFrom ==
    ASSUME LInv, Next, NEW i \in Id, InLane(i)'
    PROVE  InLane(i) \/ (Held(i) /\ ~Held(i)')
<1>1. TypeOK /\ JobInv /\ EpochInv /\ PlaceInv
  BY DEF LInv
<1>2. PICK k \in DOMAIN lane' : lane'[k].kind = "ticket" /\ lane'[k].id = i
  BY DEF InLane
<1>3. CASE UNCHANGED lane
  BY <1>2, <1>3 DEF InLane
<1>4. CASE LaneTakes
  BY <1>1, <1>2, <1>4, LaneShrinks DEF InLane
<1>5. ASSUME NEW m \in Message, LaneGets(m) PROVE InLane(i) \/ (Held(i) /\ ~Held(i)')
  <2>1. (k \in DOMAIN lane /\ lane'[k] = lane[k]) \/ lane'[k] = m
    BY <1>1, <1>2, <1>5, LaneGrows DEF LaneGets
  <2>2. CASE lane'[k] = m
    BY <1>1, <1>2, <1>5, <2>2, GivenUp
  <2>3. QED BY <1>2, <2>1, <2>2 DEF InLane
<1>6. QED BY <1>1, <1>3, <1>4, <1>5, LaneIs

LEMMA SentOnceKept ==
    ASSUME LInv, Next
    PROVE  SentOnce'
<1>1. TypeOK /\ JobInv /\ EpochInv /\ PlaceInv /\ SentOnce /\ \A i \in Id : OneStage(i)
  BY DEF LInv, StageInv
<1>2. CASE UNCHANGED lane
  BY <1>1, <1>2 DEF SentOnce
<1>3. CASE LaneTakes
  <2> SUFFICES ASSUME NEW k \in DOMAIN lane', NEW l \in DOMAIN lane',
                      lane'[k].kind = "ticket", lane'[l].kind = "ticket",
                      lane'[k].id = lane'[l].id, lane'[k].id # Standing
               PROVE  k = l
    BY DEF SentOnce
  <2>1. /\ k + 1 \in DOMAIN lane /\ lane'[k] = lane[k + 1]
        /\ l + 1 \in DOMAIN lane /\ lane'[l] = lane[l + 1]
        /\ k + 1 = l + 1 => k = l
    BY <1>1, <1>3, LaneShrinks
  <2>2. QED BY <1>1, <2>1 DEF SentOnce
<1>4. ASSUME NEW m \in Message, LaneGets(m) PROVE SentOnce'
  <2>1. PICK n \in Nat : /\ n \notin DOMAIN lane /\ n \in DOMAIN lane' /\ lane'[n] = m
                         /\ \A k \in DOMAIN lane : k \in DOMAIN lane' /\ lane'[k] = lane[k]
                         /\ \A k \in DOMAIN lane' : k \in DOMAIN lane \/ k = n
    BY <1>1, <1>4, LaneGrows DEF LaneGets
  <2>2. ASSUME m.kind = "ticket", m.id # Standing
        PROVE  \A k \in DOMAIN lane : lane[k].kind = "ticket" => lane[k].id # m.id
    <3>1. m.id \in Id
      BY <2>2 DEF Message
    <3>2. Held(m.id) /\ OneStage(m.id)
      BY <1>1, <1>4, <2>2, <3>1, GivenUp
    <3>3. QED BY <3>2 DEF OneStage, InLane
  <2>3. QED BY <1>1, <2>1, <2>2 DEF SentOnce
<1>5. QED BY <1>1, <1>2, <1>3, <1>4, LaneIs

\* What becomes of the kernel's tickets.
LEMMA KernelIs ==
    ASSUME TypeOK, Next
    PROVE  \/ UNCHANGED <<kernel.tickets, kernel.epoch>>
           \/ \E t \in kernel.tickets, report \in BOOLEAN : UseOrExpire(t, report)
           \/ /\ DispatchTicket /\ LaneTakes /\ lane[1].kind = "ticket" /\ lane[1].id \in Id
              /\ ~Gate /\ lane[1].epoch = epoch
              /\ kernel'.epoch = kernel.epoch
              /\ kernel'.tickets = kernel.tickets \cup
                     {[id |-> lane[1].id, epoch |-> lane[1].epoch, left |-> MaxUses]}
           \/ DispatchSync /\ LaneTakes /\ lane[1].kind = "sync" /\ kernel'.epoch = lane[1].epoch /\ kernel'.tickets = {}
<1> DEFINE Ticket == [id : Id, epoch : Epoch, left : 1 .. MaxUses]
<1>1. kernel \in [epoch : Epoch, tickets : SUBSET Ticket, told : [Request -> {"none", "allow", "deny"}]]
  BY DEF TypeOK
<1> HIDE DEF Ticket
<1>2. CASE SenderStep
  <2>1. LaneTakes /\ Head(lane) = lane[1] /\ lane[1] \in Message
    <3>1. LaneTakes
      BY <1>2 DEF SenderStep, DispatchAnswer, DispatchTicket, DispatchSync,
         Dispatch, LaneTakes
    <3>2. QED BY <3>1, LaneShrinks
  <2>2. CASE DispatchTicket
    <3>1. lane[1].kind = "ticket"
      BY <2>1, <2>2 DEF DispatchTicket, Dispatch
    <3>2. lane[1].id \in Id \cup {Standing}
      BY <2>1, <3>1 DEF Message
    <3>3. \/ kernel' = kernel
          \/ /\ ~Gate /\ lane[1].epoch = epoch /\ lane[1].id # Standing
             /\ kernel' = [kernel EXCEPT !.tickets = @ \cup
                               {[id |-> lane[1].id, epoch |-> lane[1].epoch, left |-> MaxUses]}]
      BY <2>1, <2>2 DEF DispatchTicket
    <3> HIDE DEF Message
    <3>4. QED BY <1>1, <2>1, <2>2, <3>1, <3>2, <3>3
  <2>3. CASE DispatchSync
    BY <1>1, <2>1, <2>3 DEF DispatchSync, Dispatch
  <2>4. ASSUME NEW kind, NEW says, DispatchAnswer(kind, says)
        PROVE  UNCHANGED <<kernel.tickets, kernel.epoch>>
    BY <1>1, <2>4 DEF DispatchAnswer
  <2>5. QED BY <1>2, <2>2, <2>3, <2>4 DEF SenderStep
<1>3. CASE ~SenderStep /\ ~\E t \in kernel.tickets, report \in BOOLEAN : UseOrExpire(t, report)
  <2>1. UNCHANGED kernel
    BY <1>3 DEF Next, Ask, UseOrExpire, Receive, WorkerStep, Take, Judge,
       JudgeApproved, JudgePending, Check, Hydrate, Approve, SendTicketAdd,
       Enqueue, Insert, Deny, Resolve, At, WorkOnly, TakeMessage, TakeEvent,
       TaskStep, AuditJudge, AuditInsert, AuditTicket, AuditEnqueue, AuditLog,
       LogResolved, HandleReport, AtTask, TaskOnly, AuditOnly,
       ApproveInAdvance, Settle, SwitchMode, BeginTransition, SendSync, Commit,
       ClearOld, Open, Change, AdminOnly
  <2>2. QED BY <2>1
<1>4. QED BY <1>2, <1>3

LEMMA UseIs ==
    ASSUME TypeOK, NEW t \in kernel.tickets, NEW report \in BOOLEAN, UseOrExpire(t, report)
    PROVE  /\ t.epoch = kernel.epoch /\ kernel'.epoch = kernel.epoch
           /\ KernelOnly /\ UNCHANGED state
           /\ \/ kernel'.tickets = kernel.tickets \ {t}
              \/ \E u \in [id : Id, epoch : Epoch, left : 1 .. MaxUses] :
                     /\ t.left # 1
                     /\ u.id = t.id /\ u.epoch = t.epoch
                     /\ kernel'.tickets = (kernel.tickets \ {t}) \cup {u}
           /\ \/ UNCHANGED socket
              \/ \E m \in Report : /\ Arrives(m) /\ m.id = t.id
                                   /\ LastReport(m) => kernel'.tickets = kernel.tickets \ {t}
<1> DEFINE Ticket == [id : Id, epoch : Epoch, left : 1 .. MaxUses]
<1>1. kernel \in [epoch : Epoch, tickets : SUBSET Ticket, told : [Request -> {"none", "allow", "deny"}]]
  BY DEF TypeOK
<1>2. t \in Ticket /\ t.left \in Nat
  BY <1>1, LedgerAssumption
<1>3. /\ Reported(t.id, t.left - 1, FALSE) \in Report /\ Reported(t.id, t.left, TRUE) \in Report
      /\ t.left # 1 => [t EXCEPT !.left = @ - 1] \in Ticket
  BY TicketTyped, Made
<1>4. /\ [t EXCEPT !.left = @ - 1].id = t.id
      /\ [t EXCEPT !.left = @ - 1].epoch = t.epoch
  BY <1>2
<1> DEFINE u == [t EXCEPT !.left = @ - 1]
<1>5. /\ t.epoch = kernel.epoch /\ KernelOnly /\ UNCHANGED state
  BY DEF UseOrExpire, UseTicket, ExpireTicket, InForce
<1>6. CASE UseTicket(t, report)
  <2> HIDE DEF Ticket, u
  <2>1. kernel'.epoch = kernel.epoch /\ kernel'.tickets = (kernel.tickets \ {t}) \cup IF t.left = 1 THEN {} ELSE {u}
    BY <1>1, <1>6 DEF UseTicket, u
  <2>2. LastReport(Reported(t.id, t.left - 1, FALSE)) => t.left = 1
    BY <1>2 DEF LastReport, Reported
  <2>3. UNCHANGED socket \/ Arrives(Reported(t.id, t.left - 1, FALSE))
    BY <1>6 DEF UseTicket
  <2>4. u \in Ticket \/ t.left = 1
    BY <1>3 DEF u
  <2>5. \/ UNCHANGED socket
        \/ \E m \in Report : /\ Arrives(m) /\ m.id = t.id
                             /\ LastReport(m) => kernel'.tickets = kernel.tickets \ {t}
    <3>1. Reported(t.id, t.left - 1, FALSE).id = t.id
      BY DEF Reported
    <3>2. t.left = 1 => kernel'.tickets = kernel.tickets \ {t}
      BY <2>1
    <3>3. QED BY <1>3, <2>2, <2>3, <3>1, <3>2
  <2>6. u.id = t.id /\ u.epoch = t.epoch
    BY <1>4 DEF u
  <2>7. QED BY <1>5, <2>1, <2>4, <2>5, <2>6 DEF Ticket
<1>7. CASE ExpireTicket(t, report)
  <2>1. kernel'.epoch = kernel.epoch /\ kernel'.tickets = kernel.tickets \ {t}
    BY <1>1, <1>7 DEF ExpireTicket
  <2>2. UNCHANGED socket \/ Arrives(Reported(t.id, t.left, TRUE))
    BY <1>7 DEF ExpireTicket
  <2>3. Reported(t.id, t.left, TRUE).id = t.id
    BY DEF Reported
  <2>4. QED BY <1>3, <1>5, <2>1, <2>2, <2>3
<1>8. QED BY <1>6, <1>7 DEF UseOrExpire

LEMMA KernelFrom ==
    ASSUME LInv, Next, NEW i \in Id, InKernel(i)'
    PROVE  InKernel(i) \/ (InLane(i) /\ ~InLane(i)')
<1>1. TypeOK /\ SentOnce /\ Standing # i
  BY LedgerAssumption DEF LInv, StageInv, Id
<1>2. PICK t \in kernel'.tickets : t.id = i
  BY DEF InKernel
<1>3. CASE UNCHANGED kernel.tickets
  BY <1>2, <1>3 DEF InKernel
<1>4. ASSUME NEW u \in kernel.tickets, NEW report \in BOOLEAN, UseOrExpire(u, report)
      PROVE  InKernel(i)
  BY <1>1, <1>2, <1>4, UseIs DEF InKernel
<1>5. CASE /\ LaneTakes /\ lane[1].kind = "ticket"
           /\ kernel'.tickets = kernel.tickets \cup
                  {[id |-> lane[1].id, epoch |-> lane[1].epoch, left |-> MaxUses]}
  <2>1. CASE t \in kernel.tickets
    BY <1>2, <2>1 DEF InKernel
  <2>2. CASE t \notin kernel.tickets
    <3>1. lane[1].id = i /\ 1 \in DOMAIN lane
      BY <1>1, <1>2, <1>5, <2>2, LaneShrinks
    <3>2. \A k \in DOMAIN lane' : k + 1 \in DOMAIN lane /\ lane'[k] = lane[k + 1] /\ k + 1 # 1
      BY <1>1, <1>5, LaneShrinks
    <3>3. ~InLane(i)'
      BY <1>1, <1>5, <3>1, <3>2 DEF InLane, SentOnce
    <3>4. QED BY <1>5, <3>1, <3>3 DEF InLane
  <2>3. QED BY <2>1, <2>2
<1>6. QED BY <1>1, <1>2, <1>3, <1>4, <1>5, KernelIs

LEMMA KernelUnique ==
    ASSUME LInv, Next
    PROVE  \A t, u \in kernel'.tickets : t.id = u.id => t = u
<1>1. /\ TypeOK /\ \A i \in Id : OneStage(i)
      /\ \A t, u \in kernel.tickets : t.id = u.id => t = u
  BY DEF LInv, StageInv
<1>2. CASE UNCHANGED kernel.tickets
  BY <1>1, <1>2
<1>3. ASSUME NEW t \in kernel.tickets, NEW report \in BOOLEAN, UseOrExpire(t, report)
      PROVE  \A v, u \in kernel'.tickets : v.id = u.id => v = u
  <2>1. \/ kernel'.tickets = kernel.tickets \ {t}
        \/ \E u : u.id = t.id /\ kernel'.tickets = (kernel.tickets \ {t}) \cup {u}
    BY <1>1, <1>3, UseIs
  <2>2. QED BY <1>1, <2>1
<1>4. CASE /\ LaneTakes /\ lane[1].kind = "ticket" /\ lane[1].id \in Id
           /\ kernel'.tickets = kernel.tickets \cup
                  {[id |-> lane[1].id, epoch |-> lane[1].epoch, left |-> MaxUses]}
  <2>1. InLane(lane[1].id)
    BY <1>1, <1>4, LaneShrinks DEF InLane
  <2>2. \A t \in kernel.tickets : t.id # lane[1].id
    BY <1>1, <1>4, <2>1 DEF OneStage, InKernel
  <2>3. QED BY <1>1, <1>4, <2>2
<1>5. QED BY <1>1, <1>2, <1>3, <1>4, KernelIs

LEMMA EndingFrom ==
    ASSUME LInv, Next, NEW i \in Id, Ending(i)'
    PROVE  Ending(i) \/ (InKernel(i) /\ ~InKernel(i)')
<1>1. TypeOK /\ JobInv /\ \A t, u \in kernel.tickets : t.id = u.id => t = u
  BY DEF LInv, StageInv
<1>2. PICK m \in Outstanding' : m.id = i /\ LastReport(m)
  BY DEF Ending, LastReport
<1>3. CASE ~\E t \in kernel.tickets, report \in BOOLEAN : UseOrExpire(t, report)
  BY <1>1, <1>2, <1>3, OutKept DEF Ending
<1>4. ASSUME NEW t \in kernel.tickets, NEW report \in BOOLEAN, UseOrExpire(t, report)
      PROVE  Ending(i) \/ (InKernel(i) /\ ~InKernel(i)')
  <2>1. UNCHANGED <<audit, tasks>>
    BY <1>1, <1>4, UseIs DEF KernelOnly
  <2>2. CASE m \in Outstanding
    BY <1>2, <2>2 DEF Ending
  <2>3. CASE m \notin Outstanding
    <3>1. ~IsAsking(m) /\ \E k \in DOMAIN socket' : m = socket'[k] /\ ~(k \in DOMAIN socket /\ socket'[k] = socket[k])
      BY <2>1, <2>3, OutIs, OutIsNext
    <3>2. PICK x \in Report : /\ Arrives(x) /\ x.id = t.id
                              /\ LastReport(x) => kernel'.tickets = kernel.tickets \ {t}
      BY <1>1, <1>4, <3>1, UseIs
    <3>3. m = x
      BY <1>1, <3>1, <3>2, ArrivesIs
    <3>4. kernel'.tickets = kernel.tickets \ {t} /\ t.id = i
      BY <1>2, <3>2, <3>3
    <3>5. QED BY <1>1, <3>4 DEF InKernel
  <2>4. QED BY <2>2, <2>3
<1>5. QED BY <1>3, <1>4

LEMMA StageHolds == ASSUME LInv, Next, TypeOK', PlaceInv' PROVE StageInv'
<1>1. ASSUME NEW i \in Id PROVE OneStage(i)'
  <2>1. OneStage(i)
    BY DEF LInv, StageInv
  <2>2. /\ Fresh(i)' => Fresh(i)
        /\ Held(i)' => Held(i) \/ (Fresh(i) /\ ~Fresh(i)')
        /\ InLane(i)' => InLane(i) \/ (Held(i) /\ ~Held(i)')
        /\ InKernel(i)' => InKernel(i) \/ (InLane(i) /\ ~InLane(i)')
        /\ Ending(i)' => Ending(i) \/ (InKernel(i) /\ ~InKernel(i)')
    BY FreshKept, HeldFrom, LaneFrom, KernelFrom, EndingFrom
  <2>3. QED BY <2>1, <2>2 DEF OneStage
<1>2. SentOnce'
  BY SentOnceKept
<1>3. \A t, u \in kernel'.tickets : t.id = u.id => t = u
  BY KernelUnique
<1>4. QED BY <1>1, <1>2, <1>3 DEF StageInv, Id

-----------------------------------------------------------------------------
(* The epochs. *)

LEMMA TypesHold == ASSUME LInv, Next PROVE TypeOK'
<1>1. TypeOK /\ JobInv /\ EpochInv
  BY DEF LInv
<1>2. QED
  BY <1>1, KernelTyped, ReceiveTyped, SenderTyped, WorkerTyped,
     TakeMessageTyped, TakeEventTyped, TaskTyped, CommandTyped DEF Next,
     Command

LEMMA EpochsAre ==
    /\ Epoch \subseteq Nat \ {0}
    /\ \A t \in Job : t.epoch \in Nat
    /\ \A t \in Resolved : t.epoch \in Nat
    /\ \A m \in Message : m.kind \in {"ticket", "sync"} => m.epoch \in Nat
<1>1. Epoch \subseteq Nat \ {0}
  BY LedgerAssumption DEF Epoch
<1> HIDE DEF Epoch
<1>2. \A t \in Job : t.epoch \in Epoch \cup {0}
  BY DEF Job
<1>3. \A t \in Resolved : t.epoch \in Epoch
  BY DEF Resolved
<1>4. ASSUME NEW m \in Message, m.kind \in {"ticket", "sync"} PROVE m.epoch \in Epoch
  <2>1. m \notin [kind : {"approve", "deny"}, req : Request]
    BY <1>4
  <2>2. \/ m \in [kind : {"ticket"}, id : Id \cup {Standing}, epoch : Epoch]
        \/ m \in [kind : {"sync"}, epoch : Epoch]
    BY <2>1 DEF Message
  <2>3. QED BY <2>2
<1>5. \A t \in Job : t.epoch \in Nat
  <2>1. Epoch \cup {0} \subseteq Nat
    BY <1>1
  <2>2. QED BY <1>2, <2>1
<1>6. \A t \in Resolved : t.epoch \in Nat
  BY <1>1, <1>3
<1>7. \A m \in Message : m.kind \in {"ticket", "sync"} => m.epoch \in Nat
  BY <1>1, <1>4
<1>8. QED BY <1>1, <1>5, <1>6, <1>7

LEMMA PolicyIs ==
    ASSUME Next
    PROVE  \/ UNCHANGED <<epoch, transition>> /\ ~SendSync /\ ~DispatchSync
           \/ BeginTransition /\ transition = "none" /\ transition' = "sync" /\ epoch' = epoch /\ epoch < MaxEpoch
           \/ SendSync /\ transition = "sync" /\ transition' = "ack" /\ epoch' = epoch
           \/ DispatchSync /\ transition' = "commit" /\ epoch' = epoch
           \/ Commit /\ transition = "commit" /\ transition' = "clear" /\ epoch' = epoch + 1
           \/ ClearOld /\ transition = "clear" /\ transition' = "open" /\ epoch' = epoch
           \/ Open /\ transition = "open" /\ transition' = "none" /\ epoch' = epoch
<1>1. CASE BeginTransition \/ SendSync \/ Commit \/ ClearOld \/ Open
  BY <1>1 DEF BeginTransition, SendSync, Commit, ClearOld, Open, Change
<1>2. CASE DispatchSync
  BY <1>2 DEF DispatchSync, Dispatch
<1>3. CASE ~BeginTransition /\ ~SendSync /\ ~Commit /\ ~ClearOld /\ ~Open /\ ~DispatchSync
  BY <1>3 DEF Next, Ask, UseTicket, ExpireTicket, KernelOnly, Receive,
     SenderStep, DispatchAnswer, DispatchTicket, Dispatch, WorkerStep, Take,
     Judge, JudgeApproved, JudgePending, Check, Hydrate, Approve,
     SendTicketAdd, Enqueue, Insert, Deny, Resolve, At, WorkOnly, TakeMessage,
     TakeEvent, TaskStep, AuditJudge, AuditInsert, AuditTicket, AuditEnqueue,
     AuditLog, LogResolved, HandleReport, AtTask, TaskOnly, AuditOnly,
     policyVars, ApproveInAdvance, Settle, SwitchMode
<1>4. QED BY <1>1, <1>2, <1>3

\* The commands leave the kernel, the jobs and the events alone.
LEMMA CommandAlone ==
    ASSUME TypeOK, Command
    PROVE  UNCHANGED <<inVars, events, worker, tasks, kernel, state, logged, final>> /\ Jobs' = Jobs
BY DEF Command, ApproveInAdvance, Settle, SwitchMode, BeginTransition,
   SendSync, Commit, ClearOld, Open, Change, AdminOnly, Jobs

LEMMA EpochClockHolds ==
    ASSUME LInv, Next
    PROVE  /\ (transition \in {"sync", "ack", "commit"} => epoch < MaxEpoch)'
           /\ (kernel.epoch = IF transition = "commit" THEN epoch + 1 ELSE epoch)'
           /\ (transition \in {"commit", "clear", "open"} => kernel.tickets = {})'
           /\ (\A t \in kernel.tickets : t.epoch <= epoch)'
<1>1. TypeOK /\ EpochInv /\ epoch \in Nat
  BY DEF LInv, TypeOK, Epoch
<1>2. CASE DispatchSync
  <2>1. LaneTakes /\ lane[1].kind = "sync" /\ kernel'.epoch = lane[1].epoch /\ kernel'.tickets = {}
    <3>1. LaneTakes /\ SenderStep
      BY <1>2 DEF SenderStep, DispatchSync, Dispatch, LaneTakes
    <3>2. Head(lane) = lane[1] /\ Head(lane).kind = "sync"
      BY <1>1, <1>2, <3>1, LaneShrinks DEF DispatchSync, Dispatch
    <3>3. kernel'.epoch = lane[1].epoch /\ kernel'.tickets = {}
      BY <1>1, <1>2, <3>2 DEF DispatchSync, TypeOK
    <3>4. QED BY <3>1, <3>2, <3>3
  <2>2. transition = "ack" /\ lane[1].epoch = epoch + 1
    BY <1>1, <2>1, LaneShrinks DEF EpochInv
  <2>3. transition' = "commit" /\ epoch' = epoch
    BY <1>2 DEF DispatchSync, Dispatch
  <2>4. QED BY <1>1, <2>1, <2>2, <2>3 DEF EpochInv
<1>3. CASE Command
  <2>1. UNCHANGED kernel
    BY <1>1, <1>3, CommandAlone
  <2>2. \A t \in kernel.tickets : t.epoch \in Nat
    <3> SUFFICES ASSUME NEW t \in kernel.tickets PROVE t.epoch \in Nat
      OBVIOUS
    <3>1. t.epoch \in Epoch
      BY <1>1, TicketTyped
    <3>2. QED BY <3>1, EpochsAre
  <2> HIDE DEF Command
  <2>3. QED BY <1>1, <1>2, <2>1, <2>2, PolicyIs DEF EpochInv
<1>4. CASE ~DispatchSync /\ ~Command
  <2>1. UNCHANGED <<epoch, transition>>
    BY <1>4, PolicyIs DEF Command
  <2>2. CASE UNCHANGED <<kernel.tickets, kernel.epoch>>
    BY <1>1, <2>1, <2>2 DEF EpochInv
  <2>3. ASSUME NEW t \in kernel.tickets, NEW report \in BOOLEAN, UseOrExpire(t, report)
        PROVE  /\ kernel'.epoch = kernel.epoch /\ kernel.tickets # {}
               /\ \A u \in kernel'.tickets : u.epoch <= epoch
    BY <1>1, <2>3, UseIs DEF EpochInv
  <2>4. CASE /\ ~Gate /\ lane[1].epoch = epoch
             /\ kernel'.epoch = kernel.epoch
             /\ kernel'.tickets = kernel.tickets \cup
                    {[id |-> lane[1].id, epoch |-> lane[1].epoch, left |-> MaxUses]}
    <3>1. \A u \in kernel'.tickets : u.epoch <= epoch
      BY <1>1, <2>4 DEF EpochInv
    <3>2. QED BY <1>1, <2>1, <2>4, <3>1 DEF EpochInv, Gate
  <2>5. QED BY <1>1, <1>4, <2>1, <2>2, <2>3, <2>4, KernelIs DEF EpochInv
<1>5. QED BY <1>2, <1>3, <1>4

\* The tickets that may be sent are those of jobs that passed the gate.
LEMMA EpochJobsHold ==
    ASSUME LInv, Next, TypeOK'
    PROVE  /\ (worker.epoch <= epoch)' /\ (\A t \in Jobs : t.epoch <= epoch)'
           /\ (transition \in {"clear", "open"} =>
                   /\ worker.pc = "enqueue" => worker.epoch < epoch
                   /\ \A t \in Jobs : t.pc = "enqueue" => t.epoch < epoch)'
<1>1. TypeOK /\ JobInv /\ EpochInv /\ epoch \in Nat /\ epoch' \in Nat
  <2>1. TypeOK /\ JobInv /\ EpochInv /\ epoch \in Epoch /\ epoch' \in Epoch
    BY DEF LInv, TypeOK
  <2>2. QED BY <2>1, EpochsAre
<1>2. worker.epoch \in Nat /\ \A t \in Jobs : t.epoch \in Nat
  <2>1. worker \in Job /\ Jobs \subseteq Job
    BY <1>1, TasksAre DEF TypeOK
  <2>2. QED BY <2>1, EpochsAre
<1>3. CASE Command
  <2>1. UNCHANGED worker /\ Jobs' = Jobs
    BY <1>1, <1>3, CommandAlone
  <2>2. \/ UNCHANGED <<epoch, transition>>
        \/ transition' \notin {"clear", "open"} /\ epoch' = epoch
        \/ transition' = "clear" /\ epoch' = epoch + 1
        \/ transition = "clear" /\ epoch' = epoch
    BY PolicyIs
  <2>3. worker.epoch <= epoch' /\ \A t \in Jobs : t.epoch <= epoch'
    BY <1>1, <1>2, <2>2 DEF EpochInv
  <2>4. CASE transition' = "clear" /\ epoch' = epoch + 1
    <3>1. worker.epoch < epoch' /\ \A t \in Jobs : t.epoch < epoch'
      BY <1>1, <1>2, <2>4 DEF EpochInv
    <3>2. QED BY <2>1, <2>3, <3>1
  <2>5. CASE transition' \in {"clear", "open"} => transition \in {"clear", "open"} /\ epoch' = epoch
    BY <1>1, <2>1, <2>3, <2>5 DEF EpochInv
  <2>6. QED BY <2>2, <2>4, <2>5
<1>4. CASE DispatchSync
  <2>1. UNCHANGED <<worker, tasks, epoch>> /\ transition' = "commit"
    BY <1>4 DEF DispatchSync, Dispatch
  <2>2. QED BY <1>1, <2>1 DEF EpochInv, Jobs
<1>5. CASE ~Command /\ ~DispatchSync
  <2>1. UNCHANGED <<epoch, transition>>
    BY <1>5, PolicyIs DEF Command
  <2>2. CASE WorkerStep
    <3>1. Jobs' = Jobs
      BY <2>2, WorkerAlone
    <3>2. worker'.epoch <= epoch
      <4>1. CASE Take
        BY <1>1, <4>1 DEF Take, NoJob
      <4>2. CASE ~Take
        BY <1>1, <2>2, <4>2, WorkerIs DEF EpochInv, NoJob
      <4>3. QED BY <4>1, <4>2
    <3>3. worker'.pc = "enqueue" => ~Gate
      BY <1>1, <2>2, WorkerIs DEF NoJob
    <3>4. QED BY <1>1, <2>1, <3>1, <3>2, <3>3 DEF EpochInv, Gate
  <2>3. ASSUME NEW t \in tasks, TaskStep(t)
        PROVE  /\ worker' = worker
               /\ \A v \in Jobs' : \/ v \in Jobs
                                   \/ /\ v.epoch <= epoch
                                      /\ v.pc = "enqueue" => ~Gate
    <3>1. UNCHANGED worker
      BY <1>1, <2>3, TaskIs DEF TaskOnly, AuditOnly
    <3>2. \A v \in Jobs' : \/ v \in Jobs
                           \/ /\ v.epoch = epoch \/ (t \in Jobs /\ v.epoch = t.epoch)
                              /\ v.pc = "enqueue" => ~Gate
      BY <1>1, <2>3, TaskIs
    <3>3. QED BY <1>1, <3>1, <3>2 DEF EpochInv
  <2>4. CASE \E t \in tasks : TaskStep(t)
    BY <1>1, <2>1, <2>3, <2>4 DEF EpochInv, Gate
  <2>5. CASE ~WorkerStep /\ ~\E t \in tasks : TaskStep(t)
    <3>1. UNCHANGED worker /\ \A t \in Jobs' : t \in Jobs \/ (t.pc = "judge" /\ t.epoch = 0)
      BY <1>1, <2>5, HandsOff
    <3>2. QED BY <1>1, <2>1, <3>1 DEF EpochInv
  <2>6. QED BY <2>2, <2>4, <2>5
<1>6. QED BY <1>3, <1>4, <1>5

LEMMA EpochLaneHolds ==
    ASSUME LInv, Next, TypeOK'
    PROVE  (\A k \in DOMAIN lane :
               /\ lane[k].kind = "ticket" => lane[k].epoch <= epoch
               /\ lane[k].kind = "sync" => /\ transition = "ack"
                                           /\ lane[k].epoch = epoch + 1
                                           /\ \A l \in DOMAIN lane : lane[l].kind = "sync" => l = k)'
           /\ (transition \in {"clear", "open"} =>
                   \A k \in DOMAIN lane : lane[k].kind = "ticket" => lane[k].epoch < epoch)'
<1>1. TypeOK /\ JobInv /\ EpochInv /\ epoch \in Nat /\ epoch' \in Nat
  <2>1. TypeOK /\ JobInv /\ EpochInv /\ epoch \in Epoch /\ epoch' \in Epoch
    BY DEF LInv, TypeOK
  <2>2. QED BY <2>1, EpochsAre
<1>2. \A k \in DOMAIN lane : lane[k].kind = "ticket" => lane[k].epoch \in Nat
  <2> SUFFICES ASSUME NEW k \in DOMAIN lane, lane[k].kind = "ticket" PROVE lane[k].epoch \in Nat
    OBVIOUS
  <2> HIDE DEF Message
  <2>1. lane[k] \in Message
    BY <1>1 DEF TypeOK
  <2>2. QED BY <2>1, EpochsAre
<1> DEFINE Fits(m, e, tr) ==
               /\ m.kind = "ticket" => m.epoch <= e
               /\ m.kind = "sync" => tr = "ack" /\ m.epoch = e + 1
               /\ m.kind = "ticket" /\ tr \in {"clear", "open"} => m.epoch < e
           Single(l) == \A j, k \in DOMAIN l : l[j].kind = "sync" /\ l[k].kind = "sync" => j = k
<1>3. (\A k \in DOMAIN lane : Fits(lane[k], epoch, transition)) /\ Single(lane)
  BY <1>1 DEF EpochInv
<1>4. (\A k \in DOMAIN lane' : Fits(lane'[k], epoch', transition')) /\ Single(lane')
  <2>1. CASE UNCHANGED <<epoch, transition>>
    <3>1. CASE UNCHANGED lane
      BY <1>3, <2>1, <3>1
    <3>2. CASE LaneTakes
      <4>1. /\ \A k \in DOMAIN lane' : k + 1 \in DOMAIN lane /\ lane'[k] = lane[k + 1]
            /\ \A k, l \in DOMAIN lane' : k + 1 = l + 1 => k = l
        BY <1>1, <3>2, LaneShrinks
      <4>2. \A k \in DOMAIN lane' : Fits(lane'[k], epoch', transition')
        BY <1>3, <2>1, <4>1
      <4>3. Single(lane')
        BY <1>3, <4>1
      <4>4. QED BY <4>2, <4>3
    <3>3. ASSUME NEW m \in Message, LaneGets(m)
          PROVE  (\A k \in DOMAIN lane' : Fits(lane'[k], epoch', transition')) /\ Single(lane')
      <4>1. /\ m.kind # "sync"
            /\ m.kind = "ticket" => m.epoch <= epoch /\ (transition \in {"clear", "open"} => m.epoch < epoch)
        <5>1. CASE SendSync
          BY <2>1, <5>1 DEF SendSync, Change
        <5>2. CASE m \in [kind : {"approve", "deny"}, req : {worker.req}]
          BY <5>2
        <5>3. CASE worker.pc = "enqueue" /\ m = Adding(worker.id, worker.epoch)
          BY <1>1, <5>3 DEF EpochInv, Adding
        <5>4. CASE \E t \in Jobs : t.pc = "enqueue" /\ m = Adding(t.id, t.epoch)
          BY <1>1, <5>4 DEF EpochInv, Adding
        <5>5. QED BY <3>3, <5>1, <5>2, <5>3, <5>4 DEF LaneGets
      <4>2. PICK n \in Nat : /\ lane'[n] = m
                             /\ \A k \in DOMAIN lane : lane'[k] = lane[k]
                             /\ \A k \in DOMAIN lane' : k \in DOMAIN lane \/ k = n
        BY <1>1, <3>3, LaneGrows DEF LaneGets
      <4>3. Fits(m, epoch, transition)
        BY <4>1
      <4> HIDE DEF Fits
      <4>4. \A k \in DOMAIN lane' : Fits(lane'[k], epoch', transition')
        BY <1>3, <2>1, <4>2, <4>3
      <4>5. QED BY <1>3, <4>1, <4>2, <4>4
    <3>4. QED BY <1>1, <3>1, <3>2, <3>3, LaneIs
  <2>2. CASE SendSync
    <3>1. transition = "sync" /\ transition' = "ack" /\ epoch' = epoch /\ Send(Syncing(epoch + 1))
      BY <2>2 DEF SendSync, Change
    <3>2. epoch + 1 \in Epoch
      BY <1>1, <3>1, LedgerAssumption DEF EpochInv, Epoch
    <3>3. Syncing(epoch + 1) \in Message /\ Syncing(epoch + 1).kind = "sync" /\ Syncing(epoch + 1).epoch = epoch + 1
      BY <3>2, Made DEF Syncing
    <3>4. PICK n \in Nat : /\ lane'[n] = Syncing(epoch + 1)
                           /\ \A k \in DOMAIN lane : lane'[k] = lane[k]
                           /\ \A k \in DOMAIN lane' : k \in DOMAIN lane \/ k = n
      BY <1>1, <3>1, <3>3, LaneGrows
    <3>5. \A k \in DOMAIN lane : lane[k].kind # "sync"
      BY <1>3, <3>1
    <3>6. QED BY <1>3, <3>1, <3>3, <3>4, <3>5
  <2>3. CASE DispatchSync
    <3>1. LaneTakes /\ transition' = "commit" /\ epoch' = epoch /\ Head(lane).kind = "sync"
      BY <2>3 DEF DispatchSync, Dispatch, LaneTakes, SenderStep
    <3>2. /\ lane[1].kind = "sync" /\ 1 \in DOMAIN lane
          /\ \A k \in DOMAIN lane' : k + 1 \in DOMAIN lane /\ lane'[k] = lane[k + 1] /\ k + 1 # 1
      BY <1>1, <3>1, LaneShrinks
    <3>3. \A k \in DOMAIN lane' : lane'[k].kind # "sync"
      BY <1>3, <3>2
    <3>4. \A k \in DOMAIN lane' : lane'[k].kind = "ticket" => lane'[k].epoch <= epoch
      BY <1>3, <3>2
    <3>5. QED BY <3>1, <3>3, <3>4
  <2>4. CASE Commit
    <3>1. transition = "commit" /\ transition' = "clear" /\ epoch' = epoch + 1 /\ UNCHANGED lane
      BY <2>4 DEF Commit, Change
    <3>2. \A k \in DOMAIN lane : lane[k].kind # "sync"
      BY <1>3, <3>1
    <3>3. \A k \in DOMAIN lane : lane[k].kind = "ticket" => lane[k].epoch <= epoch + 1 /\ lane[k].epoch < epoch + 1
      BY <1>1, <1>2, <1>3
    <3>4. QED BY <3>1, <3>2, <3>3
  <2>5. CASE BeginTransition \/ ClearOld \/ Open
    <3>1. /\ UNCHANGED <<lane, epoch>> /\ transition # "ack"
          /\ transition' \in {"clear", "open"} => transition \in {"clear", "open"}
      BY <2>5 DEF BeginTransition, ClearOld, Open, Change
    <3>2. QED BY <1>3, <3>1
  <2>6. QED BY <2>1, <2>2, <2>3, <2>4, <2>5, PolicyIs
<1>5. QED BY <1>4

\* Events come from the worker, and tasks take them over.
LEMMA EventsFrom ==
    ASSUME TypeOK, JobInv, Next
    PROVE  /\ \A k \in DOMAIN events' :
                  \/ \E l \in DOMAIN events : events'[k] = events[l]
                  \/ /\ Resolve /\ worker.pc = "resolve"
                     /\ events'[k] = [req |-> worker.req, says |-> worker.says, epoch |-> worker.epoch]
           /\ \A t \in tasks' : t \in Resolved => t \in tasks \/ \E l \in DOMAIN events : t = events[l]
<1>1. CASE TakeEvent
  <2>1. events \in Seq(Resolved) /\ events # <<>> /\ events' = Tail(events) /\ tasks' = tasks \cup {Head(events)}
    BY <1>1 DEF TakeEvent, TypeOK
  <2>2. /\ 1 \in DOMAIN events /\ Head(events) = events[1]
        /\ \A k \in DOMAIN events' : k + 1 \in DOMAIN events /\ events'[k] = events[k + 1]
    BY <2>1, TailIs
  <2>3. QED BY <2>1, <2>2
<1>2. CASE Resolve
  <2> DEFINE e == [req |-> worker.req, says |-> worker.says, epoch |-> worker.epoch]
  <2>1. e \in Resolved
    BY <1>2 DEF Resolve, At, Resolved, Job, JobInv, TypeOK
  <2>2. worker.pc = "resolve" /\ UNCHANGED tasks
    BY <1>2 DEF Resolve, At, WorkOnly
  <2>3. events \in Seq(Resolved) /\ events' = Append(events, e)
    BY <1>2 DEF Resolve, Put, TypeOK
  <2> HIDE DEF e
  <2>4. \A k \in DOMAIN events' : (k \in DOMAIN events /\ events'[k] = events[k]) \/ events'[k] = e
    BY <2>1, <2>3, AppendIs
  <2>5. QED BY <1>2, <2>2, <2>4 DEF e
<1>3. CASE WorkerStep /\ ~Resolve
  BY <1>3 DEF WorkerStep, Take, Judge, JudgeApproved, JudgePending, Check,
     Hydrate, Approve, SendTicketAdd, Enqueue, Insert, Deny, At, WorkOnly
<1>4. CASE \E t \in tasks : TaskStep(t)
  <2>1. UNCHANGED events
    BY <1>4, TaskMoves DEF TaskOnly
  <2>2. \A t \in tasks' : t \in tasks \/ t \in Job
    BY <1>4, TaskMoves
  <2>3. QED BY <2>1, <2>2, Kinds
<1>5. CASE TakeMessage
  <2>1. audit[1] \in Asking \cup Report /\ Head(audit) = audit[1] /\ UNCHANGED events
    BY <1>5, TailIs DEF TypeOK, TakeMessage, AuditOnly
  <2> DEFINE x == audit[1]
             u == [NoJob EXCEPT !.pc = "judge", !.req = x.req]
  <2>2. tasks' \subseteq tasks \/ (~IsAsking(x) /\ tasks' = tasks \cup {x}) \/ tasks' = tasks \cup {u}
    BY <1>5, <2>1 DEF TakeMessage
  <2>3. IsJob(u)
    BY DEF NoJob, IsJob
  <2> HIDE DEF u, x
  <2>4. \A t \in tasks' : t \in tasks \/ ~IsAsking(t) \/ IsJob(t)
    BY <2>2, <2>3
  <2>5. QED BY <2>1, <2>4, Kinds
<1>6. CASE Command
  BY <1>6, CommandAlone
<1>7. CASE ~WorkerStep /\ ~TakeEvent /\ ~TakeMessage /\ ~Command /\ ~\E t \in tasks : TaskStep(t)
  BY <1>7 DEF Next, Ask, UseTicket, ExpireTicket, KernelOnly, Receive,
     SenderStep, DispatchAnswer, DispatchTicket, DispatchSync, Dispatch,
     Command
<1>8. QED BY <1>1, <1>2, <1>3, <1>4, <1>5, <1>6, <1>7

LEMMA EpochEventsHold ==
    ASSUME LInv, Next, TypeOK'
    PROVE  /\ (\A k \in DOMAIN events : events[k].epoch <= epoch)'
           /\ (\A t \in tasks : t \in Resolved => t.epoch <= epoch)'
<1>1. TypeOK /\ JobInv /\ EpochInv /\ epoch \in Nat /\ epoch' \in Nat
  <2>1. TypeOK /\ JobInv /\ EpochInv /\ epoch \in Epoch /\ epoch' \in Epoch
    BY DEF LInv, TypeOK
  <2>2. QED BY <2>1, EpochsAre
<1>2. epoch <= epoch'
  BY <1>1, PolicyIs
<1>3. ASSUME NEW e \in Resolved, e.epoch <= epoch PROVE e.epoch <= epoch'
  <2>1. e.epoch \in Nat
    BY EpochsAre
  <2>2. QED BY <1>1, <1>2, <1>3, <2>1
<1>4. \A k \in DOMAIN events : events[k] \in Resolved
  BY <1>1 DEF TypeOK
<1>5. \A k \in DOMAIN events' : events'[k] \in Resolved
  BY DEF TypeOK
<1>6. \A k \in DOMAIN events' : events'[k].epoch <= epoch
  <2>1. ASSUME NEW k \in DOMAIN events', worker.pc = "resolve",
               events'[k] = [req |-> worker.req, says |-> worker.says, epoch |-> worker.epoch]
        PROVE  events'[k].epoch <= epoch
    BY <1>1, <2>1 DEF EpochInv
  <2>2. QED BY <1>1, <2>1, EventsFrom DEF EpochInv
<1>7. \A t \in tasks' : t \in Resolved => t.epoch <= epoch
  BY <1>1, EventsFrom DEF EpochInv
<1>8. QED BY <1>3, <1>5, <1>6, <1>7

LEMMA EpochHolds == ASSUME LInv, Next, TypeOK' PROVE EpochInv'
BY EpochClockHolds, EpochJobsHold, EpochLaneHolds, EpochEventsHold DEF EpochInv

-----------------------------------------------------------------------------
(* The entries. *)

\* What becomes of the ledger.
LEMMA LedgerIs ==
    ASSUME TypeOK, JobInv, Next
    PROVE  \/ ledger \subseteq ledger' /\ UNCHANGED <<wiped, final>>
           \/ \E t \in tasks : /\ HandleReport(t) /\ t \in Outstanding /\ t \notin Jobs /\ t.id \in Id
                               /\ UNCHANGED wiped
                               /\ \/ LastReport(t) /\ ledger' = ledger \ {t.id} /\ final' = final \cup {t.id}
                                  \/ ledger' = ledger /\ final' = final
           \/ \E m \in {"audit", "enforce"} : SwitchMode(m)
           \/ ClearOld
<1>1. ASSUME NEW t \in tasks, HandleReport(t)
      PROVE  /\ t \in Outstanding /\ t \notin Jobs /\ t.id \in Id /\ UNCHANGED wiped
             /\ \/ LastReport(t) /\ ledger' = ledger \ {t.id} /\ final' = final \cup {t.id}
                \/ ledger' = ledger /\ final' = final
  <2>1. t \in Report /\ ~IsAsking(t)
    BY <1>1, TasksAre DEF HandleReport
  <2>2. t \notin Jobs /\ t.id \in Id /\ t \in Outstanding
    BY <2>1, Kinds DEF Jobs, Outstanding
  <2>3. QED BY <1>1, <2>2 DEF HandleReport, LastReport
<1>2. CASE ClearOld \/ (\E m \in {"audit", "enforce"} : SwitchMode(m)) \/ \E t \in tasks : HandleReport(t)
  BY <1>1, <1>2
<1>3. CASE ~ClearOld /\ ~(\E m \in {"audit", "enforce"} : SwitchMode(m)) /\ ~\E t \in tasks : HandleReport(t)
  BY <1>3 DEF Next, Ask, UseTicket, ExpireTicket, KernelOnly, Receive,
     SenderStep, DispatchAnswer, DispatchTicket, DispatchSync, Dispatch,
     WorkerStep, Take, Judge, JudgeApproved, JudgePending, Check, Hydrate,
     Approve, SendTicketAdd, Enqueue, Insert, Deny, Resolve, At, WorkOnly,
     TakeMessage, TakeEvent, TaskStep, AuditJudge, AuditInsert, AuditTicket,
     AuditEnqueue, AuditLog, LogResolved, historyVars, ApproveInAdvance,
     Settle, BeginTransition, SendSync, Commit, Open, Change, AdminOnly
<1>4. QED BY <1>2, <1>3

\* The entry that the decision worker is about to make, is made.
LEMMA InsertKept ==
    ASSUME TypeOK, JobInv, Next, worker.pc = "insert"
    PROVE  UNCHANGED <<worker.pc, worker.id>> \/ worker.id \in ledger'
<1>1. CASE WorkerStep
  <2>1. Insert
    BY <1>1, WorkerIs DEF NoJob, Take, Resolve, At
  <2>2. QED BY <2>1 DEF Insert
<1>2. ASSUME NEW t \in tasks, TaskStep(t) PROVE UNCHANGED worker
  BY <1>2, TaskMoves DEF TaskOnly, AuditOnly
<1>3. QED BY <1>1, <1>2, HandsOff

LEMMA EnteredKept ==
    ASSUME LInv, Next, NEW i \in Id, Live(i), Entered(i)
    PROVE  Entered(i)'
<1>1. TypeOK /\ JobInv /\ OneStage(i) /\ EpochInv
  BY DEF LInv, StageInv
<1>2. CASE i \in ledger
  <2>1. ASSUME NEW t \in tasks, HandleReport(t), t \in Outstanding, LastReport(t), t.id = i
        PROVE  FALSE
    <3>1. Ending(i)
      BY <2>1 DEF Ending
    <3>2. InKernel(i) \/ InLane(i) \/ Held(i)
      BY DEF Live, InKernel, InLane, Held
    <3>3. QED BY <1>1, <3>1, <3>2 DEF OneStage
  <2>2. ASSUME NEW m \in {"audit", "enforce"}, SwitchMode(m) PROVE wiped'[i] = "switch"
    BY <1>2, <2>2 DEF SwitchMode, Clear
  <2>3. CASE ClearOld
    <3>1. kernel.tickets = {} /\ \A k \in DOMAIN lane : lane[k].kind = "ticket" => lane[k].epoch < epoch
      BY <1>1, <2>3 DEF ClearOld, Change, EpochInv
    <3>2. \A k \in DOMAIN lane : lane[k].kind = "ticket" => lane[k].epoch # epoch
      BY <1>1, <3>1, EpochsAre DEF TypeOK
    <3>3. \/ worker.id = i /\ worker.epoch = epoch /\ worker.pc \in {"approve", "ticket", "enqueue"}
          \/ \E t \in Jobs : t.id = i /\ t.epoch = epoch /\ t.pc \in {"ticket", "enqueue"}
      BY <3>1, <3>2 DEF Live
    <3>4. IsJob(worker) /\ \A t \in Jobs : t \in tasks /\ IsJob(t)
      BY <1>1, TasksAre, Kinds DEF TypeOK
    <3>5. InHand(i)
      BY <3>3, <3>4 DEF InHand, IsJob
    <3>6. wiped'[i] = "hand"
      BY <1>2, <2>3, <3>5 DEF ClearOld, Clear
    <3>7. QED BY <3>6 DEF Entered
  <2>4. QED BY <1>1, <1>2, <2>1, <2>2, <2>3, LedgerIs DEF Entered
<1>3. CASE i \notin ledger /\ worker.pc = "insert" /\ worker.id = i
  BY <1>1, <1>3, InsertKept DEF Entered
<1>4. CASE i \notin ledger /\ wiped[i] \in {"switch", "hand"}
  <2>1. wiped'[i] = wiped[i]
    BY <1>1, <1>4, LedgerIs DEF SwitchMode, ClearOld, Clear
  <2>2. QED BY <1>4, <2>1 DEF Entered
<1>5. QED BY <1>2, <1>3, <1>4 DEF Entered

\* Nothing of an epoch that has just been committed is under way.
LEMMA CommittedEmpty ==
    ASSUME LInv, TypeOK', Commit, NEW i \in Id
    PROVE  ~Live(i)'
<1>1. /\ TypeOK /\ JobInv /\ EpochInv /\ epoch \in Nat
      /\ transition = "commit" /\ epoch' = epoch + 1 /\ UNCHANGED <<lane, worker, tasks, kernel>>
  <2>1. TypeOK /\ JobInv /\ EpochInv /\ epoch \in Epoch
    BY DEF LInv, TypeOK
  <2>2. QED BY <2>1, EpochsAre DEF Commit, Change, AdminOnly
<1>2. kernel.tickets = {} /\ Jobs' = Jobs
  BY <1>1 DEF EpochInv, Jobs
<1>3. \A k \in DOMAIN lane : lane[k].kind = "ticket" => lane[k].epoch \in Nat /\ lane[k].epoch <= epoch
  <2> SUFFICES ASSUME NEW k \in DOMAIN lane, lane[k].kind = "ticket"
               PROVE  lane[k].epoch \in Nat /\ lane[k].epoch <= epoch
    OBVIOUS
  <2> HIDE DEF Message
  <2>1. lane[k] \in Message
    BY <1>1 DEF TypeOK
  <2>2. QED BY <1>1, <2>1, EpochsAre DEF EpochInv
<1>4. worker.epoch \in Nat /\ worker.epoch <= epoch /\ \A t \in Jobs : t.epoch \in Nat /\ t.epoch <= epoch
  <2>1. worker \in Job /\ Jobs \subseteq Job
    BY <1>1, TasksAre DEF TypeOK
  <2>2. QED BY <1>1, <2>1, EpochsAre DEF EpochInv
<1>5. \A k \in DOMAIN lane : lane[k].kind = "ticket" => lane[k].epoch # epoch'
  BY <1>1, <1>3
<1>6. worker.epoch # epoch' /\ \A t \in Jobs : t.epoch # epoch'
  BY <1>1, <1>4
<1>7. QED BY <1>1, <1>2, <1>5, <1>6 DEF Live

LEMMA LiveFrom ==
    ASSUME LInv, Next, TypeOK', NEW i \in Id, Live(i)'
    PROVE  Live(i) \/ i \in ledger' \/ (worker'.pc = "insert" /\ worker'.id = i)
<1>1. TypeOK /\ JobInv /\ EpochInv /\ Standing # i /\ None # i /\ i \in Request \cup Grant /\ Request \cap Grant = {}
  BY LedgerAssumption DEF LInv, Id
<1>2. CASE epoch' # epoch
  BY <1>2, CommittedEmpty, PolicyIs
<1>3. CASE epoch' = epoch
  <2> DEFINE Goal == Live(i) \/ i \in ledger' \/ (worker'.pc = "insert" /\ worker'.id = i)
  <2>1. ASSUME NEW t \in kernel'.tickets, t.id = i, t.epoch = epoch PROVE Live(i)
    <3>1. CASE UNCHANGED kernel.tickets
      BY <2>1, <3>1 DEF Live
    <3>2. ASSUME NEW u \in kernel.tickets, NEW report \in BOOLEAN, UseOrExpire(u, report) PROVE Live(i)
      BY <1>1, <2>1, <3>2, UseIs DEF Live
    <3>3. CASE /\ LaneTakes /\ lane[1].kind = "ticket"
               /\ kernel'.tickets = kernel.tickets \cup
                      {[id |-> lane[1].id, epoch |-> lane[1].epoch, left |-> MaxUses]}
      <4>1. 1 \in DOMAIN lane
        BY <1>1, <3>3, LaneShrinks
      <4>2. QED BY <2>1, <3>3, <4>1 DEF Live
    <3>4. QED BY <1>1, <2>1, <3>1, <3>2, <3>3, KernelIs
  <2>2. ASSUME NEW k \in DOMAIN lane', lane'[k].kind = "ticket", lane'[k].id = i, lane'[k].epoch = epoch
        PROVE  Goal
    <3>1. CASE UNCHANGED lane
      BY <2>2, <3>1 DEF Live
    <3>2. CASE LaneTakes
      BY <1>1, <2>2, <3>2, LaneShrinks DEF Live
    <3>3. ASSUME NEW m \in Message, LaneGets(m) PROVE Goal
      <4>1. (k \in DOMAIN lane /\ lane'[k] = lane[k]) \/ lane'[k] = m
        BY <1>1, <3>3, LaneGrows DEF LaneGets
      <4>2. CASE k \in DOMAIN lane /\ lane'[k] = lane[k]
        BY <2>2, <4>2 DEF Live
      <4>3. CASE lane'[k] = m /\ Enqueue /\ worker.pc = "enqueue" /\ m = Adding(worker.id, worker.epoch)
        <5>1. worker.id = i /\ worker.epoch = epoch
          BY <2>2, <4>3 DEF Adding
        <5>2. i \in Request => worker'.pc = "insert" /\ worker'.id = i
          BY <1>1, <4>3, <5>1 DEF Enqueue, Goto, TypeOK, Job
        <5>3. QED BY <1>1, <4>3, <5>1, <5>2 DEF Live
      <4>4. CASE lane'[k] = m /\ \E t \in Jobs : t.pc = "enqueue" /\ m = Adding(t.id, t.epoch)
        BY <2>2, <4>4 DEF Live, Adding
      <4>5. QED BY <2>2, <3>3, <4>1, <4>2, <4>3, <4>4 DEF LaneGets, Syncing
    <3>4. QED BY <1>1, <3>1, <3>2, <3>3, LaneIs
  <2>3. ASSUME worker'.id = i, i \in Grant, worker'.epoch = epoch, worker'.pc \in {"approve", "ticket", "enqueue"}
        PROVE  Goal
    <3>1. CASE UNCHANGED worker
      BY <2>3, <3>1 DEF Live
    <3>2. CASE WorkerStep
      <4>1. \/ worker.id = i /\ worker.epoch = epoch /\ worker.pc \in {"approve", "ticket"}
            \/ worker.id = i /\ worker.pc = "check"
            \/ worker.id = i /\ Hydrate
        BY <1>1, <2>3, <3>2, WorkerIs DEF NoJob
      <4>2. CASE worker.id = i /\ Hydrate
        BY <4>2 DEF Hydrate
      <4>3. QED BY <1>1, <2>3, <4>1, <4>2 DEF Live, JobInv
    <3>3. CASE \E t \in tasks : TaskStep(t)
      BY <1>1, <3>1, <3>3, TaskMoves DEF TaskOnly, AuditOnly
    <3>4. QED BY <1>1, <3>1, <3>2, <3>3, HandsOff
  <2>4. ASSUME NEW v \in Jobs', v.id = i, v.epoch = epoch, v.pc \in {"ticket", "enqueue"}
        PROVE  Goal
    <3>1. CASE v \in Jobs
      BY <2>4, <3>1 DEF Live
    <3>2. ASSUME NEW t \in tasks, TaskStep(t), v \notin Jobs PROVE Goal
      <4>1. \/ t \in Jobs /\ t.id = i /\ t.epoch = epoch /\ t.pc = "ticket"
            \/ t.id = i /\ AuditInsert(t)
        BY <1>1, <2>4, <3>2, TaskIs
      <4>2. CASE t.id = i /\ AuditInsert(t)
        BY <4>2 DEF AuditInsert
      <4>3. QED BY <4>1, <4>2 DEF Live
    <3>3. CASE WorkerStep
      BY <2>4, <3>1, <3>3, WorkerAlone
    <3>4. QED BY <1>1, <2>4, <3>1, <3>2, <3>3, HandsOff
  <2>5. QED BY <1>3, <2>1, <2>2, <2>3, <2>4 DEF Live
<1>4. QED BY <1>2, <1>3

LEMMA EntryHolds == ASSUME LInv, Next, TypeOK' PROVE EntryInv'
<1> SUFFICES ASSUME NEW i \in Id, Live(i)' PROVE Entered(i)'
  BY DEF EntryInv, Id
<1>1. CASE Live(i)
  <2>1. Entered(i)
    BY <1>1 DEF LInv, EntryInv
  <2>2. QED BY <1>1, <2>1, EnteredKept
<1>2. CASE i \in ledger' \/ (worker'.pc = "insert" /\ worker'.id = i)
  BY <1>2 DEF Entered
<1>3. QED BY <1>1, <1>2, LiveFrom

-----------------------------------------------------------------------------
(* The reports. *)

LEMMA ReportsHold == ASSUME LInv, Next, TypeOK' PROVE ReportsFindEntries'
<1>1. TypeOK /\ JobInv /\ EpochInv /\ EntryInv
  BY DEF LInv
<1> DEFINE Covered(i) == \/ i \in ledger \/ i \in final
                         \/ worker.pc = "insert" /\ worker.id = i
                         \/ wiped[i] # "no"
<1>2. ASSUME NEW i \in Id, Covered(i) PROVE Covered(i)'
  <2>1. CASE i \in ledger
    <3>1. ASSUME NEW m \in {"audit", "enforce"}, SwitchMode(m) PROVE wiped'[i] # "no"
      BY <2>1, <3>1 DEF SwitchMode, Clear
    <3>2. ASSUME ClearOld PROVE wiped'[i] # "no"
      BY <2>1, <3>2 DEF ClearOld, Clear
    <3>3. i \in ledger' \/ i \in final' \/ wiped'[i] # "no"
      BY <1>1, <2>1, <3>1, <3>2, LedgerIs
    <3>4. QED BY <3>3
  <2>2. CASE i \in final
    <3>1. i \in final'
      BY <1>1, <2>2, LedgerIs DEF SwitchMode, ClearOld, Change, AdminOnly
    <3>2. QED BY <3>1
  <2>3. CASE worker.pc = "insert" /\ worker.id = i
    BY <1>1, <2>3, InsertKept
  <2>4. CASE wiped[i] # "no"
    <3>1. wiped'[i] # "no"
      BY <1>1, <2>4, LedgerIs DEF SwitchMode, ClearOld, Clear
    <3>2. QED BY <3>1
  <2>5. QED BY <1>2, <2>1, <2>2, <2>3, <2>4
<1>3. \A m \in Outstanding' : m.id \in Id
  <2>1. \A m \in Outstanding' : m \in Report
    <3> SUFFICES ASSUME NEW m \in Outstanding' PROVE m \in Report
      OBVIOUS
    <3> DEFINE S == Asking \cup Report
    <3>1. socket' \in Seq(S) /\ audit' \in Seq(S) /\ tasks' \subseteq Job \cup Report \cup Resolved
      BY DEF TypeOK
    <3> HIDE DEF S
    <3>2. ~IsAsking(m) /\ (m \in S \/ m \in tasks')
      BY <3>1, OutIsNext
    <3>3. QED BY <3>1, <3>2, Kinds DEF S
  <2>2. QED BY <2>1, Kinds
<1>4. \A m \in Outstanding : Covered(m.id)
  BY DEF LInv, ReportsFindEntries
<1>5. \A m \in Outstanding' : Covered(m.id)'
  <2> SUFFICES ASSUME NEW m \in Outstanding' PROVE Covered(m.id)'
    OBVIOUS
  <2>1. CASE m \in Outstanding
    BY <1>2, <1>3, <1>4, <2>1
  <2>2. CASE m \notin Outstanding
    <3>1. PICK t \in kernel.tickets, report \in BOOLEAN : UseOrExpire(t, report)
      BY <1>1, <2>2, OutKept
    <3>2. ~IsAsking(m) /\ \E k \in DOMAIN socket' : m = socket'[k] /\ ~(k \in DOMAIN socket /\ socket'[k] = socket[k])
      <4>1. UNCHANGED <<audit, tasks>>
        BY <1>1, <3>1, UseIs DEF KernelOnly
      <4>2. QED BY <2>2, <4>1, OutIs, OutIsNext
    <3>3. PICK x \in Report : Arrives(x) /\ x.id = t.id
      BY <1>1, <3>1, <3>2, UseIs
    <3>4. m = x
      BY <1>1, <3>2, <3>3, ArrivesIs
    <3>5. t.epoch = epoch /\ t.id \in Id
      <4>1. t.epoch = kernel.epoch /\ t.id \in Id
        BY <1>1, <3>1, UseIs, TicketTyped
      <4>2. transition # "commit"
        BY <1>1 DEF EpochInv
      <4>3. QED BY <1>1, <4>1, <4>2 DEF EpochInv
    <3>6. Entered(t.id)
      BY <1>1, <3>5 DEF EntryInv, Live
    <3>7. Covered(t.id)
      BY <3>6 DEF Entered
    <3>8. QED BY <1>2, <3>3, <3>4, <3>5, <3>7
  <2>3. QED BY <2>1, <2>2
<1>6. QED BY <1>5 DEF ReportsFindEntries

-----------------------------------------------------------------------------
(* What the kernel is told. *)

LEMMA ToldIs ==
    ASSUME TypeOK, Next
    PROVE  \/ kernel'.told = kernel.told
           \/ \E says \in {"allow", "deny"} :
                  /\ LaneTakes /\ lane[1].req \in Request
                  /\ lane[1].kind = IF says = "allow" THEN "approve" ELSE "deny"
                  /\ kernel'.told = [kernel.told EXCEPT ![lane[1].req] = IF @ = "none" THEN says ELSE @]
<1> DEFINE Ticket == [id : Id, epoch : Epoch, left : 1 .. MaxUses]
<1>1. kernel \in [epoch : Epoch, tickets : SUBSET Ticket, told : [Request -> {"none", "allow", "deny"}]]
  BY DEF TypeOK
<1> HIDE DEF Ticket
<1>2. ASSUME NEW kind \in {"approve", "deny"}, NEW says, DispatchAnswer(kind, says), SenderStep
      PROVE  /\ LaneTakes /\ lane[1].kind = kind /\ lane[1].req \in Request
             /\ kernel'.told = [kernel.told EXCEPT ![lane[1].req] = IF @ = "none" THEN says ELSE @]
  <2>1. LaneTakes
    BY <1>2 DEF DispatchAnswer, Dispatch, LaneTakes, SenderStep
  <2>2. Head(lane) = lane[1] /\ lane[1] \in Message
    BY <2>1, LaneShrinks
  <2>3. lane[1].kind = kind
    BY <1>2, <2>2 DEF DispatchAnswer, Dispatch
  <2>4. lane[1].req \in Request
    BY <2>2, <2>3 DEF Message
  <2> HIDE DEF Message
  <2>5. kernel'.told = [kernel.told EXCEPT ![lane[1].req] = IF @ = "none" THEN says ELSE @]
    BY <1>1, <1>2, <2>2 DEF DispatchAnswer
  <2>6. QED BY <2>1, <2>3, <2>4, <2>5
<1>3. CASE DispatchAnswer("approve", "allow")
  BY <1>2, <1>3 DEF SenderStep
<1>4. CASE DispatchAnswer("deny", "deny")
  BY <1>2, <1>4 DEF SenderStep
<1>5. CASE DispatchTicket \/ DispatchSync
  BY <1>1, <1>5 DEF DispatchTicket, DispatchSync
<1>6. ASSUME NEW t \in kernel.tickets, NEW report \in BOOLEAN, UseTicket(t, report) \/ ExpireTicket(t, report)
      PROVE  kernel'.told = kernel.told
  BY <1>1, <1>6 DEF UseTicket, ExpireTicket
<1>7. CASE ~SenderStep /\ ~\E t \in kernel.tickets, report \in BOOLEAN : UseTicket(t, report) \/ ExpireTicket(t, report)
  BY <1>7 DEF Next, Ask, Receive, WorkerStep, Take, Judge, JudgeApproved,
     JudgePending, Check, Hydrate, Approve, SendTicketAdd, Enqueue, Insert,
     Deny, Resolve, At, WorkOnly, TakeMessage, TakeEvent, TaskStep, AuditJudge,
     AuditInsert, AuditTicket, AuditEnqueue, AuditLog, LogResolved,
     HandleReport, AtTask, TaskOnly, AuditOnly, ApproveInAdvance, Settle,
     SwitchMode, BeginTransition, SendSync, Commit, ClearOld, Open, Change,
     AdminOnly
<1>8. QED BY <1>3, <1>4, <1>5, <1>6, <1>7 DEF SenderStep

LEMMA SilentKept ==
    ASSUME TypeOK, JobInv, EpochInv, Next, NEW r \in Request, Silent(r),
           ~((Approve \/ Deny) /\ worker.req = r)
    PROVE  Silent(r)'
<1>1. kernel.told \in [Request -> {"none", "allow", "deny"}]
  BY DEF TypeOK
<1>2. kernel'.told[r] = "none"
  <2>1. CASE kernel'.told = kernel.told
    BY <2>1 DEF Silent
  <2>2. ASSUME NEW says \in {"allow", "deny"},
               LaneTakes, lane[1].req \in Request,
               lane[1].kind = IF says = "allow" THEN "approve" ELSE "deny",
               kernel'.told = [kernel.told EXCEPT ![lane[1].req] = IF @ = "none" THEN says ELSE @]
        PROVE  kernel'.told[r] = "none"
    <3>1. lane[1].req # r
      BY <2>2, LaneShrinks DEF Silent, Answers
    <3>2. QED BY <1>1, <2>2, <3>1 DEF Silent
  <2>3. QED BY <2>1, <2>2, ToldIs
<1>3. \A k \in DOMAIN lane' : ~Answers(lane'[k], r)
  <2>1. CASE UNCHANGED lane
    BY <2>1 DEF Silent
  <2>2. CASE LaneTakes
    BY <2>2, LaneShrinks DEF Silent
  <2>3. ASSUME NEW m \in Message, LaneGets(m) PROVE \A k \in DOMAIN lane' : ~Answers(lane'[k], r)
    <3>1. ~Answers(m, r)
      BY <2>3 DEF LaneGets, Answers, Syncing, Adding
    <3>2. \A k \in DOMAIN lane' : (k \in DOMAIN lane /\ lane'[k] = lane[k]) \/ lane'[k] = m
      BY <2>3, LaneGrows DEF LaneGets
    <3>3. QED BY <3>1, <3>2 DEF Silent
  <2>4. QED BY <2>1, <2>2, <2>3, LaneIs
<1>4. QED BY <1>2, <1>3 DEF Silent

\* The first answer to a request, on its way or arrived, stays the first.
LEMMA ToldFirstKept ==
    ASSUME TypeOK, JobInv, EpochInv, Next, NEW r \in Request, NEW says, says # "none", ToldFirst(r, says)
    PROVE  ToldFirst(r, says)'
<1>1. kernel.told \in [Request -> {"none", "allow", "deny"}]
  BY DEF TypeOK
<1>2. CASE kernel.told[r] = says
  <2>1. kernel'.told[r] = says
    BY <1>1, <1>2, ToldIs
  <2>2. QED BY <2>1 DEF ToldFirst
<1>3. CASE kernel.told[r] # says
  <2>1. kernel.told[r] = "none"
    BY <1>3 DEF ToldFirst
  <2>2. PICK k \in DOMAIN lane :
            /\ Answers(lane[k], r)
            /\ says = IF lane[k].kind = "approve" THEN "allow" ELSE "deny"
            /\ \A l \in 1 .. k - 1 : ~Answers(lane[l], r)
    BY <1>3 DEF ToldFirst
  <2>3. CASE LaneTakes
    <3>1. /\ 1 \in DOMAIN lane /\ DOMAIN lane \subseteq Nat \ {0} /\ DOMAIN lane' \subseteq Nat \ {0}
          /\ \A l \in DOMAIN lane' : l + 1 \in DOMAIN lane /\ lane'[l] = lane[l + 1]
          /\ k = 1 \/ (k - 1 \in DOMAIN lane' /\ lane'[k - 1] = lane[k])
      BY <2>3, LaneShrinks
    <3>2. CASE k = 1
      <4>1. SenderStep /\ Head(lane) = lane[1] /\ lane[1].req = r /\ lane[1].kind \in {"approve", "deny"}
        BY <2>2, <2>3, <3>2, LaneShrinks DEF LaneTakes, Answers
      <4>2. kernel \in [epoch : Epoch, tickets : SUBSET [id : Id, epoch : Epoch, left : 1 .. MaxUses],
                        told : [Request -> {"none", "allow", "deny"}]]
        BY DEF TypeOK
      <4>3. \/ lane[1].kind = "approve" /\ DispatchAnswer("approve", "allow")
            \/ lane[1].kind = "deny" /\ DispatchAnswer("deny", "deny")
        BY <4>1 DEF SenderStep, DispatchAnswer, DispatchTicket, DispatchSync,
           Dispatch
      <4>4. kernel'.told[r] = says
        BY <2>1, <2>2, <3>2, <4>1, <4>2, <4>3 DEF DispatchAnswer
      <4>5. QED BY <4>4 DEF ToldFirst
    <3>3. CASE k # 1
      <4>1. k \in Nat \ {0} /\ k - 1 \in DOMAIN lane' /\ lane'[k - 1] = lane[k] /\ 1 \in 1 .. k - 1
        BY <3>1, <3>3
      <4>2. ~Answers(lane[1], r)
        BY <2>2, <4>1
      <4>3. kernel'.told[r] = "none"
        BY <1>1, <2>1, <4>2, ToldIs DEF Answers
      <4>4. \A l \in 1 .. (k - 1) - 1 : ~Answers(lane'[l], r)
        <5> SUFFICES ASSUME NEW l \in 1 .. (k - 1) - 1 PROVE ~Answers(lane'[l], r)
          OBVIOUS
        <5> HIDE DEF Message
        <5>1. lane \in Seq(Message) /\ lane # <<>> /\ lane' = Tail(lane)
          BY <2>3 DEF TypeOK, LaneTakes
        <5>2. k \in 1 .. Len(lane) /\ Len(lane) \in Nat
          BY <5>1
        <5>3. l \in 1 .. Len(lane) - 1 /\ l + 1 \in 1 .. k - 1
          BY <4>1, <5>2
        <5>4. l \in DOMAIN lane'
          BY <5>1, <5>3
        <5>5. QED BY <2>2, <3>1, <5>3, <5>4
      <4>5. QED BY <2>2, <4>1, <4>3, <4>4 DEF ToldFirst
    <3>4. QED BY <3>2, <3>3
  <2>4. CASE ~LaneTakes
    <3>1. kernel'.told[r] = "none"
      BY <2>1, <2>4, ToldIs
    <3>2. k \in DOMAIN lane' /\ lane'[k] = lane[k]
          /\ \A l \in 1 .. k - 1 : lane'[l] = lane[l]
      <4>1. CASE UNCHANGED lane
        BY <4>1
      <4>2. ASSUME NEW m \in Message, LaneGets(m)
            PROVE  \A l \in DOMAIN lane : l \in DOMAIN lane' /\ lane'[l] = lane[l]
        BY <4>2, LaneGrows DEF LaneGets
      <4> HIDE DEF Message
      <4>3. \A l \in 1 .. k - 1 : l \in DOMAIN lane
        <5>1. k \in 1 .. Len(lane) /\ DOMAIN lane = 1 .. Len(lane) /\ Len(lane) \in Nat
          BY DEF TypeOK
        <5>2. QED BY <5>1
      <4>4. QED BY <2>4, <4>1, <4>2, <4>3, LaneIs
    <3>3. QED BY <2>2, <3>1, <3>2 DEF ToldFirst
  <2>5. QED BY <2>3, <2>4
<1>4. QED BY <1>2, <1>3

\* An answer to a request of which the kernel has not been told is the first.
LEMMA ToldNow ==
    ASSUME TypeOK, JobInv, Next, NEW r, r = worker.req, Silent(r), NEW says,
           (Approve /\ says = "allow") \/ (Deny /\ says = "deny")
    PROVE  ToldFirst(r, says)'
<1>1. r \in Request /\ WorkerStep
  BY DEF Approve, Deny, At, JobInv, WorkerStep
<1>2. UNCHANGED kernel
  BY <1>1, WorkerAlone
<1> DEFINE m == Answering(IF says = "allow" THEN "approve" ELSE "deny", r)
<1>3. Send(m) /\ m.kind = (IF says = "allow" THEN "approve" ELSE "deny") /\ m.req = r
  BY DEF Approve, Deny, Answering
<1>4. m \in Message
  BY <1>1, Made
<1> HIDE DEF m
<1>5. PICK n \in Nat : /\ n \in DOMAIN lane' /\ lane'[n] = m
                       /\ \A k \in DOMAIN lane : lane'[k] = lane[k] /\ k < n
                       /\ \A k \in DOMAIN lane' : k \in DOMAIN lane \/ k = n
                       /\ DOMAIN lane \subseteq Nat
  BY <1>3, <1>4, LaneGrows
<1>6. Answers(lane'[n], r)
  BY <1>3, <1>5 DEF Answers
<1>7. \A l \in 1 .. n - 1 : ~Answers(lane'[l], r)
  <2> SUFFICES ASSUME NEW l \in 1 .. n - 1 PROVE ~Answers(lane'[l], r)
    OBVIOUS
  <2>1. lane' \in Seq(Message)
    <3> HIDE DEF Message
    <3>1. lane \in Seq(Message) /\ lane' = Append(lane, m)
      BY <1>3 DEF TypeOK, Send
    <3>2. QED BY <1>4, <3>1, AppendIs
  <2>2. l \in DOMAIN lane' /\ l # n
    <3> HIDE DEF Message
    <3>1. n \in 1 .. Len(lane') /\ Len(lane') \in Nat /\ DOMAIN lane' = 1 .. Len(lane')
      BY <1>5, <2>1
    <3>2. QED BY <3>1
  <2>3. QED BY <1>5, <2>2 DEF Silent
<1>8. kernel'.told[r] = "none"
  BY <1>2 DEF Silent
<1>9. says = IF lane'[n].kind = "approve" THEN "allow" ELSE "deny"
  BY <1>3, <1>5
<1>10. QED BY <1>5, <1>6, <1>7, <1>8, <1>9 DEF ToldFirst

LEMMA HoldsKept ==
    ASSUME LInv, TypeOK', Next, NEW e \in Nat, e <= epoch, NEW r \in Request, NEW says, Holds(e, r, says)
    PROVE  Holds(e, r, says)'
<1>1. TypeOK /\ JobInv /\ EpochInv /\ epoch \in Nat
  <2>1. TypeOK /\ JobInv /\ EpochInv /\ epoch \in Epoch
    BY DEF LInv, TypeOK
  <2>2. QED BY <2>1, EpochsAre
<1>2. CASE epoch' = epoch
  BY <1>1, <1>2, ToldFirstKept DEF Holds
<1>3. CASE epoch' = epoch + 1
  <2>1. e # epoch'
    BY <1>1, <1>3
  <2>2. QED BY <2>1 DEF Holds
<1>4. QED BY <1>2, <1>3, PolicyIs

LEMMA SilentHolds ==
    ASSUME LInv, Next
    PROVE  \A r \in Request : (state'[r] = "new" \/ InSocket(r)' \/ InDecision(r)') => Silent(r)'
<1> SUFFICES ASSUME NEW r \in Request, state'[r] = "new" \/ InSocket(r)' \/ InDecision(r)'
             PROVE  Silent(r)'
  OBVIOUS
<1>1. TypeOK /\ JobInv /\ EpochInv /\ PlaceInv /\ ToldInv
  BY DEF LInv
<1>2. state[r] = "new" \/ InSocket(r) \/ InDecision(r)
  BY <1>1, RequestsMove
<1>3. ~((Approve \/ Deny) /\ worker.req = r)
  BY <1>1, <1>2 DEF PlaceInv, Approve, Deny, At
<1>4. QED BY <1>1, <1>2, <1>3, SilentKept DEF ToldInv

LEMMA WorkerTold ==
    ASSUME LInv, Next, TypeOK', WorkerStep
    PROVE  /\ (worker.pc \in {"judge", "check", "hydrate", "approve"} => Silent(worker.req))'
           /\ (worker.pc \in {"check", "approve", "hydrate", "ticket", "enqueue", "insert"}
                   => worker.says # "deny")'
           /\ (worker.pc \in {"ticket", "enqueue", "insert", "resolve"}
                   => Holds(worker.epoch, worker.req, worker.says))'
           /\ (worker.pc = "deny" => \/ worker.says = "deny" /\ Silent(worker.req)
                                     \/ Holds(worker.epoch, worker.req, worker.says))'
<1>1. TypeOK /\ JobInv /\ EpochInv /\ PlaceInv /\ ToldInv
  BY DEF LInv
<1>2. UNCHANGED epoch
  BY WorkerAlone
<1> PICK r, e, says : r = worker.req /\ e = worker.epoch /\ says = worker.says
  OBVIOUS
<1>3. worker.pc # "idle" => r \in Request /\ e \in Nat /\ e <= epoch
  <2>1. worker.pc # "idle" => worker.req \in Request /\ worker.epoch \in Epoch
    BY <1>1 DEF JobInv
  <2>2. QED BY <1>1, <2>1, EpochsAre DEF EpochInv
<1>4. CASE Take
  <2>1. decision \in Seq(Request) /\ decision # <<>>
    BY <1>1, <1>4 DEF Take, TypeOK
  <2>2. PICK q \in Request : q = Head(decision) /\ InDecision(q)
    BY <2>1, TailIs DEF InDecision
  <2>3. worker'.pc = "judge" /\ worker'.req = q /\ worker.pc = "idle"
    BY <1>4, <2>2 DEF Take, NoJob
  <2>4. Silent(q)'
    BY <1>1, <2>2, <2>3, SilentKept DEF ToldInv, Approve, Deny, At
  <2>5. QED BY <2>3, <2>4 DEF Silent
<1>5. CASE Resolve
  BY <1>5 DEF Resolve, NoJob
<1>6. CASE worker.pc = "approve" /\ Approve
  <2>1. /\ worker'.pc \in {"resolve", "ticket"} /\ worker'.req = r
        /\ worker'.epoch = e /\ worker'.says = says
    BY <1>1, <1>6 DEF Approve, Goto, TypeOK, Job
  <2>2. ToldFirst(r, "allow")'
    BY <1>1, <1>6, ToldNow DEF ToldInv
  <2>3. says \in {"allow", "none"}
    <3>1. worker.says \in {"allow", "deny", "approval", "none"}
      BY <1>1 DEF TypeOK, Job
    <3>2. QED BY <1>1, <1>6, <3>1 DEF JobInv, ToldInv
  <2>4. Holds(e, r, says)'
    BY <2>2, <2>3 DEF Holds
  <2>5. QED BY <2>1, <2>3, <2>4 DEF Holds, ToldFirst
<1>7. CASE worker.pc = "deny" /\ Deny
  <2>1. /\ worker'.pc = "resolve" /\ worker'.req = r
        /\ worker'.epoch = e /\ worker'.says = says
    BY <1>1, <1>7 DEF Deny, Goto, TypeOK, Job
  <2>2. CASE says = "deny" /\ Silent(r)
    <3>1. ToldFirst(r, "deny")'
      BY <1>1, <1>7, <2>2, ToldNow
    <3>2. QED BY <2>1, <2>2, <3>1 DEF Holds, ToldFirst
  <2>3. CASE Holds(e, r, says)
    <3>1. Holds(e, r, says)'
      BY <1>3, <1>7, <2>3, HoldsKept
    <3>2. QED BY <2>1, <3>1 DEF Holds, ToldFirst
  <2>4. QED BY <1>1, <1>7, <2>2, <2>3 DEF ToldInv
<1>8. CASE worker.pc \notin {"idle", "approve", "deny"} /\ ~Take /\ ~Resolve
  <2>1. ~Approve /\ ~Deny
    BY <1>8 DEF Approve, Deny, At
  <2>2. worker'.req = r /\ worker'.epoch = e
    BY <1>1, <1>8, WorkerIs
  <2>3. CASE worker.pc \in {"judge", "check", "hydrate"}
    <3>1. Silent(r)'
      BY <1>1, <1>3, <2>1, <2>3, SilentKept DEF ToldInv
    <3>2. \/ worker'.pc \in {"check", "approve"} /\ worker'.says = "allow"
          \/ worker'.pc = "deny" /\ worker'.says = "deny"
          \/ worker'.pc = "hydrate" /\ worker'.says = "none"
          \/ worker'.pc = "resolve" /\ worker'.says = "none"
          \/ worker'.pc = "approve" /\ worker'.says = says /\ says # "deny"
          \/ worker'.pc = "deny" /\ epoch # e
      BY <1>1, <1>8, <2>1, <2>3, WorkerIs DEF JobInv, ToldInv
    <3>3. QED BY <1>2, <2>2, <3>1, <3>2 DEF Holds, Silent
  <2>4. CASE worker.pc \in {"ticket", "enqueue", "insert"}
    <3>1. Holds(e, r, says)'
      BY <1>1, <1>3, <2>4, HoldsKept DEF ToldInv
    <3>2. worker'.pc \in {"ticket", "enqueue", "insert", "resolve", "deny"} /\ worker'.says = says
          /\ says # "deny"
      BY <1>1, <1>8, <2>1, <2>4, WorkerIs DEF ToldInv
    <3>3. QED BY <2>2, <3>1, <3>2 DEF Holds, ToldFirst
  <2>5. QED BY <1>1, <1>8, <2>1, <2>3, <2>4, WorkerIs
<1>9. QED BY <1>1, <1>4, <1>5, <1>6, <1>7, <1>8, WorkerIs

\* What is written into the evidence.
LEMMA LoggedIs ==
    ASSUME LInv, Next, NEW r \in Request
    PROVE  \/ logged'[r] = logged[r]
           \/ state[r] = "audited" /\ UNCHANGED state
           \/ /\ logged'[r] # "none" /\ ToldFirst(r, logged'[r])
              /\ UNCHANGED <<state, kernel, lane>>
<1>1. TypeOK /\ JobInv /\ PlaceInv /\ ToldInv /\ logged \in [Request -> {"none", "allow", "deny", "approval"}]
  BY DEF LInv, TypeOK
<1>2. ASSUME NEW t \in tasks, AuditLog(t) PROVE logged'[r] = logged[r] \/ (state[r] = "audited" /\ UNCHANGED state)
  <2>1. t \in Jobs /\ logged' = [logged EXCEPT ![t.req] = t.says] /\ UNCHANGED state
    BY <1>1, <1>2, AtTaskIs DEF AuditLog, TaskOnly
  <2>2. CASE t.req = r
    BY <1>1, <2>1, <2>2 DEF PlaceInv
  <2>3. CASE t.req # r
    BY <1>1, <2>1, <2>3
  <2>4. QED BY <2>2, <2>3
<1>3. ASSUME NEW t \in tasks, LogResolved(t)
      PROVE  \/ logged'[r] = logged[r]
             \/ /\ logged'[r] # "none" /\ ToldFirst(r, logged'[r])
                /\ UNCHANGED <<state, kernel, lane>>
  <2>1. t \in Resolved /\ t.req \in Request
    BY <1>1, <1>3, TasksAre DEF LogResolved, IsJob, Resolved
  <2>2. UNCHANGED <<state, kernel, lane>>
    BY <1>3 DEF LogResolved, TaskOnly, AuditOnly
  <2>3. Holds(t.epoch, t.req, t.says)
    BY <1>1, <2>1 DEF ToldInv
  <2>4. CASE logged'[r] # logged[r]
    <3>1. t.says # "none" /\ t.epoch = epoch /\ logged' = [logged EXCEPT ![t.req] = t.says]
      BY <1>3, <2>4 DEF LogResolved, ResolvedInForce
    <3>2. t.req = r /\ logged'[r] = t.says
      BY <1>1, <2>1, <2>4, <3>1
    <3>3. QED BY <2>2, <2>3, <3>1, <3>2 DEF Holds
  <2>5. QED BY <2>4
<1>4. CASE ~\E t \in tasks : AuditLog(t) \/ LogResolved(t)
  BY <1>4 DEF Next, Ask, UseTicket, ExpireTicket, KernelOnly, Receive,
     SenderStep, DispatchAnswer, DispatchTicket, DispatchSync, Dispatch,
     WorkerStep, Take, Judge, JudgeApproved, JudgePending, Check, Hydrate,
     Approve, SendTicketAdd, Enqueue, Insert, Deny, Resolve, At, WorkOnly,
     TakeMessage, TakeEvent, TaskStep, AuditJudge, AuditInsert, AuditTicket,
     AuditEnqueue, HandleReport, ApproveInAdvance, Settle, SwitchMode,
     BeginTransition, SendSync, Commit, ClearOld, Open, Change, AdminOnly
<1>5. QED BY <1>2, <1>3, <1>4

LEMMA ToldHolds == ASSUME LInv, Next, TypeOK' PROVE ToldInv'
<1>1. TypeOK /\ JobInv /\ EpochInv /\ PlaceInv /\ ToldInv
  BY DEF LInv
<1>2. \A r \in Request : state'[r] = "new" => logged'[r] = "none"
  <2> SUFFICES ASSUME NEW r \in Request, state'[r] = "new" PROVE logged'[r] = "none"
    OBVIOUS
  <2>1. state[r] = "new" /\ logged[r] = "none" /\ Silent(r)
    BY <1>1, RequestsMove DEF ToldInv
  <2>2. \A says : says # "none" => ~ToldFirst(r, says)
    BY <2>1 DEF Silent, ToldFirst
  <2>3. QED BY <2>1, <2>2, LoggedIs
<1>3. \A r \in Request : state'[r] = "new" \/ InSocket(r)' \/ InDecision(r)' => Silent(r)'
  BY SilentHolds
<1>4. ASSUME NEW e \in Resolved, e.epoch <= epoch, Holds(e.epoch, e.req, e.says)
      PROVE  Holds(e.epoch, e.req, e.says)'
  <2>1. e.epoch \in Nat /\ e.req \in Request
    BY EpochsAre DEF Resolved
  <2>2. QED BY <1>4, <2>1, HoldsKept
<1>5. \A k \in DOMAIN events' : Holds(events[k].epoch, events[k].req, events[k].says)'
  <2> SUFFICES ASSUME NEW k \in DOMAIN events'
               PROVE  Holds(events[k].epoch, events[k].req, events[k].says)'
    OBVIOUS
  <2> PICK e : e = events'[k]
    OBVIOUS
  <2>1. e \in Resolved
    BY DEF TypeOK
  <2>2. e.epoch <= epoch /\ Holds(e.epoch, e.req, e.says)
    <3>1. CASE \E l \in DOMAIN events : events'[k] = events[l]
      BY <1>1, <3>1 DEF EpochInv, ToldInv
    <3>2. CASE /\ worker.pc = "resolve"
               /\ events'[k] = [req |-> worker.req, says |-> worker.says, epoch |-> worker.epoch]
      <4>1. e.req = worker.req /\ e.says = worker.says /\ e.epoch = worker.epoch
        BY <3>2
      <4>2. Holds(worker.epoch, worker.req, worker.says) /\ worker.epoch <= epoch
        BY <1>1, <3>2 DEF EpochInv, ToldInv
      <4>3. QED BY <4>1, <4>2
    <3>3. QED BY <1>1, <3>1, <3>2, EventsFrom
  <2>3. Holds(e.epoch, e.req, e.says)'
    BY <1>4, <2>1, <2>2
  <2>4. QED BY <2>3 DEF Holds
<1>6. \A t \in tasks' : t \in Resolved => Holds(t.epoch, t.req, t.says)'
  <2> SUFFICES ASSUME NEW t \in tasks', t \in Resolved PROVE Holds(t.epoch, t.req, t.says)'
    OBVIOUS
  <2>1. t.epoch <= epoch /\ Holds(t.epoch, t.req, t.says)
    BY <1>1, EventsFrom DEF EpochInv, ToldInv
  <2>2. QED BY <1>4, <2>1
<1>7. CASE WorkerStep
  BY <1>2, <1>3, <1>5, <1>6, <1>7, WorkerTold DEF ToldInv
<1>8. CASE ~WorkerStep
  <2>1. UNCHANGED worker
    <3>1. CASE \E t \in tasks : TaskStep(t)
      BY <1>1, <3>1, TaskMoves DEF TaskOnly, AuditOnly
    <3>2. QED BY <1>1, <1>8, <3>1, HandsOff
  <2> PICK r, e, says : r = worker.req /\ e = worker.epoch /\ says = worker.says
    OBVIOUS
  <2>2. worker.pc # "idle" => r \in Request /\ e \in Nat /\ e <= epoch
    <3>1. worker.pc # "idle" => worker.req \in Request /\ worker.epoch \in Epoch
      BY <1>1 DEF JobInv
    <3>2. QED BY <1>1, <3>1, EpochsAre DEF EpochInv
  <2>3. worker.pc # "idle" /\ Silent(r) => Silent(r)'
    BY <1>1, <1>8, <2>2, SilentKept DEF WorkerStep
  <2>4. worker.pc # "idle" /\ Holds(e, r, says) => Holds(e, r, says)'
    BY <2>2, HoldsKept
  <2>5. /\ (worker.pc \in {"judge", "check", "hydrate", "approve"} => Silent(worker.req))'
        /\ (worker.pc \in {"ticket", "enqueue", "insert", "resolve"}
                => Holds(worker.epoch, worker.req, worker.says))'
        /\ (worker.pc = "deny" => \/ worker.says = "deny" /\ Silent(worker.req)
                                  \/ Holds(worker.epoch, worker.req, worker.says))'
    BY <1>1, <2>1, <2>3, <2>4 DEF ToldInv, Holds, ToldFirst, Silent
  <2>6. QED BY <1>1, <1>2, <1>3, <1>5, <1>6, <2>1, <2>5 DEF ToldInv
<1>9. QED BY <1>7, <1>8

\* A request waits from the moment it is asked.
LEMMA StateFrom ==
    ASSUME TypeOK, Next, NEW r \in Request, state'[r] = "waits"
    PROVE  state[r] \in {"new", "waits"}
BY DEF TypeOK, Next, Ask, UseTicket, ExpireTicket, KernelOnly, Receive,
   SenderStep, DispatchAnswer, DispatchTicket, DispatchSync, Dispatch,
   WorkerStep, Take, Judge, JudgeApproved, JudgePending, Check, Hydrate,
   Approve, SendTicketAdd, Enqueue, Insert, Deny, Resolve, TakeMessage,
   TakeEvent, TaskStep, AuditJudge, AuditInsert, AuditTicket, AuditEnqueue,
   AuditLog, LogResolved, HandleReport, AtTask, TaskOnly, AuditOnly,
   ApproveInAdvance, Settle, SwitchMode, BeginTransition, SendSync, Commit,
   ClearOld, Open, Change, AdminOnly

LEMMA LoggedHolds == ASSUME LInv, Next PROVE LoggedAsTold'
<1> SUFFICES ASSUME NEW r \in Request, state'[r] = "waits", logged'[r] # "none"
             PROVE  ToldFirst(r, logged[r])'
  BY DEF LoggedAsTold
<1> PICK says : says = logged'[r]
  OBVIOUS
<1>1. TypeOK /\ JobInv /\ EpochInv /\ PlaceInv /\ ToldInv
  BY DEF LInv
<1>2. ToldFirst(r, says)
  <2>1. CASE logged'[r] = logged[r]
    <3>1. state[r] # "new"
      BY <1>1, <2>1 DEF ToldInv
    <3>2. state[r] = "waits"
      BY <1>1, <3>1, StateFrom
    <3>3. QED BY <2>1, <3>2 DEF LInv, LoggedAsTold
  <2>2. CASE logged'[r] # logged[r]
    BY <2>2, LoggedIs
  <2>3. QED BY <2>1, <2>2
<1>3. ToldFirst(r, says)'
  BY <1>1, <1>2, ToldFirstKept
<1>4. QED BY <1>3 DEF ToldFirst

-----------------------------------------------------------------------------
(* The invariant. *)

LEMMA InitHolds == Init => LInv
<1> SUFFICES ASSUME Init PROVE LInv
  OBVIOUS
<1>1. TypeOK
  BY InitTyped
<1>2. Jobs = {} /\ worker = NoJob /\ worker.pc = "idle" /\ worker.id = None /\ worker.epoch = 0 /\ worker.says = "none"
  BY DEF Init, Jobs, NoJob
<1>3. /\ DOMAIN socket = {} /\ DOMAIN decision = {} /\ DOMAIN audit = {}
      /\ DOMAIN events = {} /\ DOMAIN lane = {}
  BY DEF Init
<1>4. /\ epoch = 1 /\ transition = "none" /\ tasks = {} /\ kernel.epoch = 1 /\ kernel.tickets = {}
      /\ \A r \in Request : kernel.told[r] = "none" /\ logged[r] = "none" /\ state[r] = "new"
  BY DEF Init
<1>5. None \notin Id
  BY LedgerAssumption DEF Id
<1>6. PlaceInv
  BY <1>2, <1>3 DEF PlaceInv, Once, InSocket, InDecision, InAudit
<1>7. JobInv
  BY <1>2, <1>5 DEF JobInv, Id
<1>8. Outstanding = {}
  BY <1>3, <1>4 DEF Outstanding
<1>9. StageInv
  <2>1. \A i \in Id : ~Held(i) /\ ~InLane(i) /\ ~InKernel(i) /\ ~Ending(i)
    BY <1>2, <1>3, <1>4, <1>8 DEF Held, InLane, InKernel, Ending
  <2>2. QED BY <1>3, <1>4, <2>1 DEF StageInv, OneStage, SentOnce
<1>10. EpochInv
  BY <1>2, <1>3, <1>4 DEF EpochInv
<1>11. EntryInv
  BY <1>2, <1>3, <1>4 DEF EntryInv, Live
<1>12. ReportsFindEntries
  BY <1>8 DEF ReportsFindEntries
<1>13. ToldInv
  BY <1>2, <1>3, <1>4 DEF ToldInv, Silent
<1>14. LoggedAsTold
  BY <1>4 DEF LoggedAsTold
<1>15. QED
  BY <1>1, <1>6, <1>7, <1>9, <1>10, <1>11, <1>12, <1>13, <1>14 DEF LInv

LEMMA NextHolds == LInv /\ [Next]_vars => LInv'
<1> SUFFICES ASSUME LInv, [Next]_vars PROVE LInv'
  OBVIOUS
<1>1. CASE Next
  <2>1. TypeOK' /\ PlaceInv' /\ JobInv'
    BY <1>1, TypesHold, PlaceHolds, JobHolds
  <2>2. QED
    BY <1>1, <2>1, StageHolds, EpochHolds, EntryHolds, ReportsHold, ToldHolds,
       LoggedHolds DEF LInv
<1>2. CASE UNCHANGED vars
  <2>1. UNCHANGED <<mode, epoch, rule, transition, approved, switches, ledger, socket, decision, audit,
                    events, lane, worker, tasks, kernel, state, logged, final, wiped>>
    BY <1>2 DEF vars, policyVars, inVars, historyVars
  <2>2. TypeOK' /\ PlaceInv' /\ JobInv' /\ EpochInv'
    BY <2>1 DEF LInv, TypeOK, PlaceInv, JobInv, EpochInv, Once, InSocket,
       InDecision, InAudit, Jobs
  <2>3. StageInv'
    BY <2>1 DEF LInv, StageInv, OneStage, SentOnce, Fresh, Held, InLane,
       InKernel, Ending, InSocket, InDecision, InAudit, Jobs, Outstanding
  <2>4. EntryInv' /\ ReportsFindEntries'
    BY <2>1 DEF LInv, EntryInv, Live, Entered, Jobs, ReportsFindEntries,
       Outstanding
  <2>5. ToldInv' /\ LoggedAsTold'
    BY <2>1 DEF LInv, ToldInv, LoggedAsTold, ToldFirst, Silent, Holds,
       InSocket, InDecision
  <2>6. QED BY <2>2, <2>3, <2>4, <2>5 DEF LInv
<1>3. QED BY <1>1, <1>2

\* The invariant holds of every behaviour: a request is in one place
\* (netlink.rs:493, decision.rs:84, audit.rs:46), a ticket in one stage of its
\* life, nothing of a new epoch is sent while it changes (netlink.rs:787,
\* admin.rs:1434), and what may be used has its entry.
THEOREM LedgerInvariance == Spec => []LInv
<1>1. Init => LInv
  BY InitHolds
<1>2. LInv /\ [Next]_vars => LInv'
  BY NextHolds
<1>3. QED BY <1>1, <1>2, PTL DEF Spec

\* Every state of the receiver, the workers, the ledger and the sender is of
\* its type, and no channel holds more than it has room for.
THEOREM LedgerTypeCorrect == Spec => []TypeOK
<1>1. LInv => TypeOK
  BY DEF LInv
<1>2. QED BY <1>1, LedgerInvariance, PTL

\* A ticket of the epoch that the kernel has is in the ledger, unless the
\* decision worker is about to make the entry, or START, STOP or a job of the
\* new epoch came between (audit.rs:359, decision.rs:396, admin.rs:1434).
THEOREM EntriesKept == Spec => []TicketsHaveEntries
<1>1. LInv => TicketsHaveEntries
  <2> SUFFICES ASSUME LInv, NEW t \in kernel.tickets, t.epoch = epoch PROVE Entered(t.id)
    BY DEF TicketsHaveEntries, Entered
  <2>1. t.id \in Id
    BY TicketTyped DEF LInv
  <2>2. Live(t.id)
    BY DEF Live
  <2>3. QED BY <2>1, <2>2 DEF LInv, EntryInv
<1>2. QED BY <1>1, LedgerInvariance, PTL

\* A report of the kernel finds the entry of its ticket, unless it overtakes
\* the decision worker, comes after the last report of the ticket, or the
\* ledger was cleared (handle_kernel_info, audit.rs:426).
THEOREM ReportsFound == Spec => []ReportsFindEntries
<1>1. LInv => ReportsFindEntries
  BY DEF LInv
<1>2. QED BY <1>1, LedgerInvariance, PTL

\* The evidence of a request that waited says what the kernel is told first
\* (reply_to_kernel, decision.rs:374; process_resolved_event, audit.rs:517).
THEOREM EvidenceTrue == Spec => []LoggedAsTold
<1>1. LInv => LoggedAsTold
  BY DEF LInv
<1>2. QED BY <1>1, LedgerInvariance, PTL

\* A ticket is held by a job, is on its way, is in the kernel, or its last
\* report is under way, and in one of these only: the kernel has one ticket of
\* an id, and none is sent twice (netlink.rs:787, audit.rs:426).
THEOREM OneStageOnly == Spec => []StageInv
<1>1. LInv => StageInv
  BY DEF LInv
<1>2. QED BY <1>1, LedgerInvariance, PTL

-----------------------------------------------------------------------------
(* How a new epoch comes to teald. *)

HandoverStep == Handover!HandoverNext \/ UNCHANGED Handover!handoverVars

LEMMA HandoverInitRefined == Init => Handover!HandoverInit
<1> SUFFICES ASSUME Init PROVE Handover!HandoverInit
  OBVIOUS
<1>1. epoch = 1 /\ kernel.epoch = 1 /\ MaxEpoch \in Nat \ {0}
  BY LedgerAssumption DEF Init
<1>2. QED BY <1>1 DEF Handover!HandoverInit

\* Only the synchronisation moves the kernel's epoch.
LEMMA HandoverSync ==
    ASSUME LInv, Next, DispatchSync
    PROVE  HandoverStep
<1>1. TypeOK /\ EpochInv /\ epoch \in Nat /\ MaxEpoch \in Nat
  BY LedgerAssumption DEF LInv, TypeOK, Epoch
<1>2. LaneTakes /\ SenderStep /\ lane[1].kind = "sync" /\ kernel'.epoch = lane[1].epoch
  <2>1. LaneTakes /\ SenderStep
    BY DEF SenderStep, DispatchSync, Dispatch, LaneTakes
  <2>2. Head(lane) = lane[1] /\ Head(lane).kind = "sync"
    BY <1>1, <2>1, LaneShrinks DEF DispatchSync, Dispatch
  <2>3. QED BY <1>1, <2>1, <2>2 DEF DispatchSync, TypeOK
<1>3. transition = "ack" /\ lane[1].epoch = epoch + 1
  BY <1>1, <1>2, LaneShrinks DEF EpochInv
<1>4. transition' = "commit" /\ epoch' = epoch
  BY DEF DispatchSync, Dispatch
<1>5. kernel.epoch = epoch /\ epoch < MaxEpoch
  BY <1>1, <1>3 DEF EpochInv
<1>6. Handover!Advance
  BY <1>1, <1>2, <1>3, <1>4, <1>5 DEF Handover!Advance
<1>7. QED BY <1>6 DEF HandoverStep, Handover!HandoverNext

LEMMA HandoverStepRefined ==
    LInv /\ [Next]_vars => [Handover!HandoverNext]_(Handover!handoverVars)
<1> SUFFICES ASSUME LInv, [Next]_vars PROVE HandoverStep
  BY DEF HandoverStep
<1>1. TypeOK /\ EpochInv
  BY DEF LInv
<1>2. CASE UNCHANGED vars
  BY <1>2 DEF vars, policyVars, HandoverStep, Handover!handoverVars
<1>3. CASE Next /\ ~DispatchSync
  <2>1. UNCHANGED kernel.epoch
    BY <1>1, <1>3, KernelIs, UseIs
  <2>2. CASE UNCHANGED <<epoch, transition>>
    BY <2>1, <2>2 DEF HandoverStep, Handover!handoverVars
  <2>3. CASE BeginTransition /\ transition = "none" /\ transition' = "sync" /\ epoch' = epoch
    BY <2>1, <2>3 DEF HandoverStep, Handover!HandoverNext, Handover!Shut
  <2>4. CASE \/ SendSync /\ transition = "sync" /\ transition' = "ack" /\ epoch' = epoch
             \/ ClearOld /\ transition = "clear" /\ transition' = "open" /\ epoch' = epoch
    BY <2>1, <2>4 DEF HandoverStep, Handover!handoverVars
  <2>5. CASE Commit /\ transition = "commit" /\ transition' = "clear" /\ epoch' = epoch + 1
    <3>1. kernel.epoch = epoch + 1
      BY <1>1, <2>5 DEF EpochInv
    <3>2. QED BY <2>1, <2>5, <3>1 DEF HandoverStep, Handover!HandoverNext, Handover!Follow
  <2>6. CASE Open /\ transition = "open" /\ transition' = "none" /\ epoch' = epoch
    <3>1. kernel.epoch = epoch
      BY <1>1, <2>6 DEF EpochInv
    <3>2. QED BY <2>1, <2>6, <3>1 DEF HandoverStep, Handover!HandoverNext, Handover!Reopen
  <2>7. QED BY <1>3, <2>2, <2>3, <2>4, <2>5, <2>6, PolicyIs
<1>4. QED BY <1>2, <1>3, HandoverSync

\* The tickets of the ledger are those of an epoch that comes to teald as
\* EpochHandover says: the guard is taken before the kernel is told and
\* dropped when the ledger is cleared (admin.rs:1434, netlink.rs:787).
THEOREM LedgerImplementsHandover == Spec => ImplementsHandover
BY HandoverInitRefined, HandoverStepRefined, LedgerInvariance, PTL DEF Spec,
   ImplementsHandover, Handover!HandoverSpec

=============================================================================
