------------------------ MODULE TealdApproval_proofs ------------------------
(***************************************************************************)
(* Proofs about TealdApproval, for any users, connections, requests, rules *)
(* and bounds.                                                             *)
(*                                                                         *)
(* Types hold because each task knows what it works on (WorkInv, ConnInv)  *)
(* and because the management command, the gate, the queue and the kernel  *)
(* go together (CtlInv).  That what is allowed has grounds follows from    *)
(* where each approval came from (GInv), that a draft serves once from     *)
(* where its number can be (OnceInv).                                      *)
(***************************************************************************)
EXTENDS TealdApproval, FiniteSetTheorems, TLAPS

-----------------------------------------------------------------------------
(* The strengthening of the types. *)

Kernel == [on : BOOLEAN, epoch : Epoch,
           state : [Request -> {"new", "waiting", "allow", "deny", "gone"}]]

\* What the decision worker works on.
WorkInv ==
    worker.pc # "idle" => worker.req \in Request /\ worker.epoch \in 1 .. epoch

\* What a connection works on.
Works(cmd) ==
    /\ cmd.pc \in {"take", "check", "insert", "denyDraft"} =>
           cmd.draft \in Grant
    /\ cmd.pc \in {"entry", "cache", "reply", "denyEntry", "deny"} =>
           cmd.req \in Request
    /\ cmd.pc \in {"draft", "cache", "ticket", "enqueue"} =>
           cmd.epoch \in Epoch
    /\ cmd.pc = "entry" => ~cmd.cache
    /\ cmd.pc = "reply" /\ cmd.cache => cmd.epoch \in Epoch

ConnInv == \A c \in Conn : Works(conn[c])

Sync(e) == [kind |-> "sync", epoch |-> e]

\* The stages of a management command: the gate, the number under way and what
\* the kernel has.
CtlInv ==
    /\ gate <=> ctl.pc \in {"sync", "ack", "commit", "clear", "open"}
    /\ ctl.pc \in {"sync", "ack", "commit"} =>
           ctl.next \in Policies /\ epoch < MaxEpoch
    /\ ctl.pc = "start" => enforce \/ starts < MaxStart
    /\ kernel.epoch = IF ctl.pc = "commit" THEN epoch + 1 ELSE epoch
    /\ \A n \in 1 .. Len(lane) : lane[n].kind = "sync" =>
           ctl.pc = "ack" /\ lane[n] = Sync(epoch + 1)
    /\ \A n, m \in 1 .. Len(lane) :
           lane[n].kind = "sync" /\ lane[m].kind = "sync" => n = m

TInv == TypeOK /\ WorkInv /\ ConnInv /\ CtlInv

-----------------------------------------------------------------------------
(* The queue. *)

LEMMA MessageTyped ==
    /\ \A i \in Request : Approval(i) \in Message /\ Denial(i) \in Message
    /\ \A e \in Epoch : TicketOf(e) \in Message /\ Sync(e) \in Message
    /\ \A on \in BOOLEAN : [kind |-> "mode", on |-> on] \in Message
BY DEF Approval, Denial, TicketOf, Sync, Message

LEMMA SendTyped ==
    ASSUME lane \in Seq(Message), NEW m \in Message, Send(m)
    PROVE  /\ lane' \in Seq(Message)
           /\ Len(lane') = Len(lane) + 1
           /\ \A n \in 1 .. Len(lane) : lane'[n] = lane[n]
           /\ lane'[Len(lane) + 1] = m
BY DEF Send

LEMMA DispatchTyped ==
    ASSUME lane \in Seq(Message), NEW m, Dispatch(m)
    PROVE  /\ lane' \in Seq(Message)
           /\ Len(lane) \in Nat \ {0}
           /\ m = lane[1] /\ m \in Message
           /\ Len(lane') = Len(lane) - 1
           /\ \A n \in 1 .. Len(lane) - 1 : lane'[n] = lane[n + 1]
BY DEF Dispatch

-----------------------------------------------------------------------------
(* Types. *)

LEMMA KernelTyped ==
    ASSUME TInv, KernelStep \/ Sender
    PROVE  TypeOK'
<1> USE ApprovalAssumption DEF TInv
<1>1. kernel \in Kernel /\ lane \in Seq(Message)
  BY DEF TypeOK, Kernel
<1>2. ASSUME NEW i \in Request, Ask(i) PROVE TypeOK'
  <2>1. kernel' \in Kernel
    BY <1>1, <1>2 DEF Ask, Kernel
  <2>2. inbox' \in Seq(Request)
    BY <1>2 DEF Ask, TypeOK
  <2>3. QED BY <1>2, <2>1, <2>2 DEF Ask, Kernel, TypeOK, policyVars,
                   stateVars, historyVars
<1>3. ASSUME NEW i \in Request, Expire(i) PROVE TypeOK'
  <2>1. kernel' \in Kernel
    BY <1>1, <1>3 DEF Expire, Kernel
  <2>2. QED BY <1>3, <2>1 DEF Expire, Kernel, TypeOK, policyVars, stateVars,
               historyVars
<1>4. ASSUME NEW i \in Request, NEW k \in {"approve", "deny"}, Answer(i, k)
      PROVE  TypeOK'
  <2>1. kernel' \in Kernel
    BY <1>1, <1>4 DEF Answer, Kernel
  <2>2. lane' \in Seq(Message)
    BY <1>1, <1>4, DispatchTyped DEF Answer
  <2>3. QED BY <1>4, <2>1, <2>2 DEF Answer, Kernel, TypeOK, policyVars,
               stateVars, historyVars
<1>5. ASSUME NEW e \in Epoch, SendTicket(e) PROVE TypeOK'
  <2>1. lane' \in Seq(Message)
    BY <1>1, <1>5, DispatchTyped DEF SendTicket
  <2>2. QED BY <1>5, <2>1 DEF SendTicket, TypeOK, policyVars, stateVars,
               kernelVars, historyVars
<1>6. ASSUME NEW on \in BOOLEAN, SwitchMode(on) PROVE TypeOK'
  <2>1. kernel' \in Kernel
    BY <1>1, <1>6 DEF SwitchMode, Kernel
  <2>2. lane' \in Seq(Message)
    BY <1>1, <1>6, DispatchTyped DEF SwitchMode
  <2>3. QED BY <1>6, <2>1, <2>2 DEF SwitchMode, Kernel, TypeOK, policyVars,
               stateVars, historyVars
<1>7. ASSUME NEW e \in Epoch, SyncEpoch(e) PROVE TypeOK'
  <2>1. kernel' \in Kernel
    BY <1>1, <1>7 DEF SyncEpoch, Kernel
  <2>2. lane' \in Seq(Message)
    BY <1>1, <1>7, DispatchTyped DEF SyncEpoch
  <2>3. ctl' = [ctl EXCEPT !.pc = "commit"]
    BY <1>7 DEF SyncEpoch
  <2>4. QED BY <1>7, <2>1, <2>2, <2>3 DEF SyncEpoch, Kernel, TypeOK,
               stateVars, historyVars
<1>8. QED BY <1>2, <1>3, <1>4, <1>5, <1>6, <1>7 DEF KernelStep, Sender

LEMMA WorkerTyped ==
    ASSUME TInv, WorkerStep
    PROVE  TypeOK'
<1> USE ApprovalAssumption DEF TInv
<1>1. worker \in Worker /\ lane \in Seq(Message)
  BY DEF TypeOK
<1>2. CASE Take
  <2>1. inbox \in Seq(Request) /\ inbox # <<>>
    BY <1>2 DEF Take, TypeOK
  <2>2. Head(inbox) \in Request /\ inbox' \in Seq(Request)
    BY <1>2, <2>1 DEF Take
  <2>3. worker' \in Worker
    BY <1>2, <2>2 DEF Take, NoWork, Worker, TypeOK, Epoch
  <2>4. QED BY <1>2, <2>2, <2>3 DEF Take, WorkOnly, TypeOK, policyVars,
               stateVars
<1>3. CASE JudgeDeny
  <2>1. worker' \in Worker
    BY <1>1, <1>3 DEF JudgeDeny, Worker
  <2>2. QED BY <1>3, <2>1 DEF JudgeDeny, WorkOnly, TypeOK, policyVars,
               stateVars
<1>4. CASE JudgeAllow
  <2>1. worker.req \in Request /\ worker.epoch \in Epoch
    BY <1>4 DEF JudgeAllow, Judge, WorkInv, TypeOK, Epoch
  <2>2. bundle[worker.epoch].ticket \in BOOLEAN
    <3>1. bundle[worker.epoch] \in Policies
      BY <1>4, <2>1 DEF JudgeAllow, Judge, WorkInv, TypeOK, Epoch
    <3>2. QED BY <3>1 DEF Policy
  <2>3. worker' \in Worker
    BY <1>1, <1>4, <2>2 DEF JudgeAllow, Worker
  <2>4. ground' \in [Request -> Ground]
    <3> DEFINE n == [ground[worker.req] EXCEPT !.by = "rule"]
    <3>1. ground[worker.req] \in Ground
      BY <2>1 DEF TypeOK
    <3>2. n \in Ground
      BY <3>1 DEF Ground
    <3>3. ground' = ground \/ ground' = [ground EXCEPT ![worker.req] = n]
      BY <1>4 DEF JudgeAllow
    <3>4. QED BY <3>2, <3>3 DEF TypeOK
  <2>5. QED BY <1>4, <2>3, <2>4 DEF JudgeAllow, WorkOnly, TypeOK, policyVars,
               stateVars
<1>5. ASSUME NEW g \in Grant, JudgeApproved(g) PROVE TypeOK'
  <2>1. worker.req \in Request /\ worker.epoch \in Epoch
    BY <1>5 DEF JudgeApproved, Judge, WorkInv, TypeOK, Epoch
  <2>2. worker' \in Worker
    BY <1>1, <1>5 DEF JudgeApproved, Worker
  <2> DEFINE n == [by |-> "draft", grant |-> g, epoch |-> worker.epoch,
                   start |-> starts]
  <2>3. n \in Ground
    BY <2>1 DEF Ground, TypeOK
  <2>4. ground' = [ground EXCEPT ![worker.req] = n]
    BY <1>5 DEF JudgeApproved
  <2>5. ground' \in [Request -> Ground]
    BY <2>1, <2>3, <2>4 DEF TypeOK
  <2>6. approved' \subseteq Grant
    BY <1>5 DEF JudgeApproved, Hydrate, TypeOK
  <2>7. QED BY <1>5, <2>2, <2>5, <2>6 DEF JudgeApproved, WorkOnly, TypeOK,
               policyVars
<1>6. CASE JudgePending
  <2>1. worker.req \in Request /\ worker.epoch \in Epoch
    BY <1>6 DEF JudgePending, Judge, WorkInv, TypeOK, Epoch
  <2>2. NoWork \in Worker
    BY DEF NoWork, Worker
  <2>3. pending' \in [Request -> [epoch : Epoch, by : SUBSET User]
                                  \cup {None}]
    BY <1>6, <2>1 DEF JudgePending, TypeOK
  <2>4. QED BY <1>6, <2>2, <2>3 DEF JudgePending, WorkOnly, TypeOK,
               policyVars
<1>7. NoWork \in Worker
  BY DEF NoWork, Worker
<1>8. CASE WorkerApproves
  <2>1. worker.req \in Request
    BY <1>8 DEF WorkerApproves, WorkInv
  <2>2. lane' \in Seq(Message)
    BY <1>1, <1>8, <2>1, MessageTyped, SendTyped DEF WorkerApproves
  <2>3. worker' \in Worker
    BY <1>1, <1>7, <1>8 DEF WorkerApproves, Worker
  <2>4. QED BY <1>8, <2>2, <2>3 DEF WorkerApproves, WorkOnly, TypeOK,
               policyVars, stateVars
<1>9. CASE WorkerTicket
  <2>1. worker' \in Worker
    BY <1>1, <1>9 DEF WorkerTicket, Worker
  <2>2. QED BY <1>9, <2>1 DEF WorkerTicket, WorkOnly, TypeOK, policyVars,
               stateVars
<1>10. CASE WorkerEnqueues
  <2>1. worker.epoch \in Epoch
    BY <1>10 DEF WorkerEnqueues, WorkInv, TypeOK, Epoch
  <2>2. lane' \in Seq(Message)
    BY <1>1, <1>10, <2>1, MessageTyped, SendTyped DEF WorkerEnqueues
  <2>3. QED BY <1>7, <1>10, <2>2 DEF WorkerEnqueues, WorkOnly, TypeOK,
               policyVars, stateVars
<1>11. CASE WorkerDenies
  <2>1. worker.req \in Request
    BY <1>11 DEF WorkerDenies, WorkInv
  <2>2. lane' \in Seq(Message)
    BY <1>1, <1>11, <2>1, MessageTyped, SendTyped DEF WorkerDenies
  <2>3. QED BY <1>7, <1>11, <2>2 DEF WorkerDenies, WorkOnly, TypeOK,
               policyVars, stateVars
<1>12. QED BY <1>2, <1>3, <1>4, <1>5, <1>6, <1>8, <1>9, <1>10, <1>11
           DEF WorkerStep

\* What a connection is about to do is a command.
LEMMA GotoTyped ==
    ASSUME TypeOK, NEW c \in Conn, NEW from, NEW to, Goto(c, from, to),
           to \in {"check", "insert", "idle", "ticket", "enqueue", "deny"}
    PROVE  conn' \in [Conn -> Command]
<1>1. NoCommand \in Command
  BY DEF NoCommand, Command
<1>2. conn[c] \in Command
  BY DEF TypeOK
<1>3. [conn[c] EXCEPT !.pc = to] \in Command
  BY <1>2 DEF Command
<1>4. conn' = [conn EXCEPT ![c] = IF to = "idle" THEN NoCommand
                                  ELSE [conn[c] EXCEPT !.pc = to]]
  BY DEF Goto
<1>5. QED BY <1>1, <1>3, <1>4 DEF TypeOK

LEMMA BeginTyped ==
    ASSUME TypeOK, NEW c \in Conn, NEW cmd \in Command, Begin(c, cmd)
    PROVE  conn' \in [Conn -> Command]
BY DEF Begin, TypeOK

LEMMA DraftTyped ==
    ASSUME TypeOK, NEW d \in drafts
    PROVE  /\ d \in [id : Draft, epoch : Epoch, by : SUBSET User,
                     start : 0 .. MaxStart]
           /\ [id |-> d.id, epoch |-> d.epoch, start |-> d.start] \in Grant
BY DEF TypeOK, Grant

LEMMA NewCommandTyped ==
    ASSUME TInv, NEW c \in Conn, NewCommand(c)
    PROVE  TypeOK'
<1> USE ApprovalAssumption DEF TInv
<1>1. NoCommand \in Command
  BY DEF NoCommand, Command
<1>2. epoch \in Epoch
  BY DEF TypeOK
<1>3. CASE AskTicket(c)
  <2>1. [NoCommand EXCEPT !.pc = "draft", !.epoch = epoch] \in Command
    BY <1>2 DEF NoCommand, Command
  <2>2. conn' \in [Conn -> Command]
    BY <1>3, <2>1, BeginTyped DEF AskTicket
  <2>3. QED BY <1>3, <2>2 DEF AskTicket, ConnOnly, TypeOK, policyVars,
               stateVars, kernelVars
<1>4. ASSUME NEW u \in User, NEW d \in drafts, ApproveDraft(c, u, d)
      PROVE  TypeOK'
  <2> DEFINE g == [id |-> d.id, epoch |-> d.epoch, start |-> d.start]
             n == [d EXCEPT !.by = d.by \cup {u}]
             D == [id : Draft, epoch : Epoch, by : SUBSET User,
                   start : 0 .. MaxStart]
  <2>1. d \in D /\ g \in Grant
    BY DraftTyped
  <2>2. [NoCommand EXCEPT !.pc = "take", !.draft = g] \in Command
    BY <2>1 DEF NoCommand, Command, Grant
  <2>3. conn' \in [Conn -> Command]
    BY <1>1, <1>4, <2>2, BeginTyped DEF ApproveDraft
  <2>4. n \in D
    BY <2>1
  <2>5. drafts' \subseteq D
    BY <1>4, <2>4 DEF ApproveDraft, TypeOK
  <2>6. votes' \subseteq [on : Request \cup Draft, user : User, epoch : Epoch]
    BY <1>2, <1>4, <2>1 DEF ApproveDraft, Vote, TypeOK
  <2>7. QED BY <1>4, <2>3, <2>5, <2>6 DEF ApproveDraft, ConnOnly, TypeOK,
               policyVars, kernelVars
<1>5. ASSUME NEW u \in User, NEW d \in drafts, DenyDraft(c, u, d)
      PROVE  TypeOK'
  <2> DEFINE g == [id |-> d.id, epoch |-> d.epoch, start |-> d.start]
  <2>1. g \in Grant
    BY DraftTyped
  <2>2. [NoCommand EXCEPT !.pc = "denyDraft", !.draft = g] \in Command
    BY <2>1 DEF NoCommand, Command, Grant
  <2>3. conn' \in [Conn -> Command]
    BY <1>5, <2>2, BeginTyped DEF DenyDraft
  <2>4. QED BY <1>5, <2>3 DEF DenyDraft, ConnOnly, TypeOK, policyVars,
               stateVars, kernelVars
<1>6. ASSUME NEW u \in User, NEW i \in Request, ApproveEntry(c, u, i)
      PROVE  TypeOK'
  <2> DEFINE P == [epoch : Epoch, by : SUBSET User]
             n == [pending[i] EXCEPT !.by = pending[i].by \cup {u}]
  <2>1. pending[i] \in P
    BY <1>6 DEF ApproveEntry, TypeOK
  <2>2. [NoCommand EXCEPT !.pc = "entry", !.req = i] \in Command
    BY DEF NoCommand, Command
  <2>3. conn' \in [Conn -> Command]
    BY <1>1, <1>6, <2>2, BeginTyped DEF ApproveEntry
  <2>4. n \in P
    BY <2>1
  <2>5. pending' = [pending EXCEPT ![i] = n]
    BY <1>6 DEF ApproveEntry
  <2>6. pending' \in [Request -> P \cup {None}]
    BY <2>4, <2>5 DEF TypeOK
  <2>7. votes' \subseteq [on : Request \cup Draft, user : User, epoch : Epoch]
    BY <1>2, <1>6 DEF ApproveEntry, Vote, TypeOK
  <2>8. QED BY <1>6, <2>3, <2>6, <2>7 DEF ApproveEntry, ConnOnly, TypeOK,
               policyVars, kernelVars
<1>7. ASSUME NEW u \in User, NEW i \in Request, DenyEntry(c, u, i)
      PROVE  TypeOK'
  <2>1. [NoCommand EXCEPT !.pc = "denyEntry", !.req = i] \in Command
    BY DEF NoCommand, Command
  <2>2. conn' \in [Conn -> Command]
    BY <1>7, <2>1, BeginTyped DEF DenyEntry
  <2>3. QED BY <1>7, <2>2 DEF DenyEntry, ConnOnly, TypeOK, policyVars,
               stateVars, kernelVars
<1>8. QED BY <1>3, <1>4, <1>5, <1>6, <1>7 DEF NewCommand

LEMMA ContinueTyped ==
    ASSUME TInv, NEW c \in Conn, Continue(c)
    PROVE  TypeOK'
<1> USE ApprovalAssumption DEF TInv
<1> DEFINE P == [epoch : Epoch, by : SUBSET User]
           D == [id : Draft, epoch : Epoch, by : SUBSET User,
                 start : 0 .. MaxStart]
<1>1. lane \in Seq(Message) /\ conn[c] \in Command
  BY DEF TypeOK
<1>2. CASE MakeDraft(c)
  <2>1. conn' \in [Conn -> Command]
    BY <1>2, GotoTyped DEF MakeDraft
  <2>2. conn[c].epoch \in Epoch
    BY <1>2 DEF MakeDraft, Goto, ConnInv, Works
  <2>3. drafted' \in 0 .. MaxDraft /\ drafts' \subseteq D
    BY <1>2, <2>2 DEF MakeDraft, TypeOK, Draft
  <2>4. QED BY <1>2, <2>1, <2>3 DEF MakeDraft, ConnOnly, TypeOK, policyVars,
               kernelVars
<1>3. CASE TakeDraft(c)
  <2>1. conn' \in [Conn -> Command]
    BY <1>3, GotoTyped DEF TakeDraft
  <2>2. QED BY <1>3, <2>1 DEF TakeDraft, Without, ConnOnly, TypeOK,
               policyVars, kernelVars
<1>4. CASE CheckDraft(c)
  <2>1. conn' \in [Conn -> Command]
    BY <1>4, GotoTyped DEF CheckDraft
  <2>2. QED BY <1>4, <2>1 DEF CheckDraft, ConnOnly, TypeOK, policyVars,
               stateVars, kernelVars
<1>5. CASE InsertApproved(c)
  <2>1. conn' \in [Conn -> Command]
    BY <1>5, GotoTyped DEF InsertApproved
  <2>2. conn[c].draft \in Grant
    BY <1>5 DEF InsertApproved, Goto, ConnInv, Works
  <2>3. QED BY <1>5, <2>1, <2>2 DEF InsertApproved, ConnOnly, TypeOK,
               policyVars, kernelVars
<1>6. CASE TakeEntry(c)
  <2>1. conn[c].req \in Request
    BY <1>6 DEF TakeEntry, ConnInv, Works
  <2>2. pending' \in [Request -> P \cup {None}]
    BY <1>6, <2>1 DEF TakeEntry, TypeOK
  <2> DEFINE n == [conn[c] EXCEPT !.pc = "cache",
                                  !.epoch = pending[conn[c].req].epoch]
  <2>3. CASE pending[conn[c].req] = None
    <3>1. [conn[c] EXCEPT !.pc = "reply"] \in Command
      BY <1>1 DEF Command
    <3>2. conn' = [conn EXCEPT ![c] = [conn[c] EXCEPT !.pc = "reply"]]
      BY <1>6, <2>3 DEF TakeEntry
    <3>3. conn' \in [Conn -> Command]
      BY <3>1, <3>2 DEF TypeOK
    <3>4. QED BY <1>6, <2>2, <3>3 DEF TakeEntry, ConnOnly, TypeOK, policyVars,
                 kernelVars
  <2>4. CASE pending[conn[c].req] # None
    <3>1. pending[conn[c].req] \in P
      BY <2>1, <2>4 DEF TypeOK
    <3>2. n \in Command
      BY <1>1, <3>1 DEF Command
    <3>3. conn' = [conn EXCEPT ![c] = n]
      BY <1>6, <2>4 DEF TakeEntry
    <3>4. conn' \in [Conn -> Command]
      BY <3>2, <3>3 DEF TypeOK
    <3>5. QED BY <1>6, <2>2, <3>4 DEF TakeEntry, ConnOnly, TypeOK, policyVars,
                 kernelVars
  <2>5. QED BY <2>3, <2>4
<1>7. CASE CacheEntry(c)
  <2> DEFINE b == bundle[epoch].ticket /\ epoch = conn[c].epoch /\ drafts = {}
             n == [conn[c] EXCEPT !.pc = "reply", !.cache = b]
  <2>1. b \in BOOLEAN
    OBVIOUS
  <2>2. n \in Command
    BY <1>1, <2>1 DEF Command
  <2>3. conn' = [conn EXCEPT ![c] = n]
    BY <1>7 DEF CacheEntry
  <2>4. conn' \in [Conn -> Command]
    BY <2>2, <2>3 DEF TypeOK
  <2>5. QED BY <1>7, <2>4 DEF CacheEntry, ConnOnly, TypeOK, policyVars,
               stateVars, kernelVars
<1>8. CASE ReplyEntry(c)
  <2>1. conn' \in [Conn -> Command]
    BY <1>8, GotoTyped DEF ReplyEntry
  <2>2. conn[c].req \in Request
    BY <1>8 DEF ReplyEntry, Goto, ConnInv, Works
  <2>3. lane' \in Seq(Message)
    BY <1>1, <1>8, <2>2, MessageTyped, SendTyped DEF ReplyEntry
  <2>4. QED BY <1>8, <2>1, <2>3 DEF ReplyEntry, ConnOnly, TypeOK, policyVars,
               stateVars, kernelVars
<1>9. CASE ConnTicket(c)
  <2>1. conn' \in [Conn -> Command]
    BY <1>9, GotoTyped DEF ConnTicket
  <2>2. QED BY <1>9, <2>1 DEF ConnTicket, ConnOnly, TypeOK, policyVars,
               stateVars, kernelVars
<1>10. CASE ConnEnqueues(c)
  <2>1. conn' \in [Conn -> Command]
    BY <1>10, GotoTyped DEF ConnEnqueues
  <2>2. conn[c].epoch \in Epoch
    BY <1>10 DEF ConnEnqueues, Goto, ConnInv, Works
  <2>3. lane' \in Seq(Message)
    BY <1>1, <1>10, <2>2, MessageTyped, SendTyped DEF ConnEnqueues
  <2>4. QED BY <1>10, <2>1, <2>3 DEF ConnEnqueues, ConnOnly, TypeOK,
               policyVars, stateVars, kernelVars
<1>11. CASE DropDraft(c)
  <2>1. conn' \in [Conn -> Command]
    BY <1>11, GotoTyped DEF DropDraft
  <2>2. QED BY <1>11, <2>1 DEF DropDraft, Without, ConnOnly, TypeOK,
               policyVars, kernelVars
<1>12. CASE DropEntry(c)
  <2>1. conn' \in [Conn -> Command]
    BY <1>12, GotoTyped DEF DropEntry
  <2>2. pending' \in [Request -> P \cup {None}]
    BY <1>12 DEF DropEntry, TypeOK
  <2>3. QED BY <1>12, <2>1, <2>2 DEF DropEntry, ConnOnly, TypeOK, policyVars,
               kernelVars
<1>13. CASE ConnDenies(c)
  <2>1. conn' \in [Conn -> Command]
    BY <1>13, GotoTyped DEF ConnDenies
  <2>2. conn[c].req \in Request
    BY <1>13 DEF ConnDenies, Goto, ConnInv, Works
  <2>3. lane' \in Seq(Message)
    BY <1>1, <1>13, <2>2, MessageTyped, SendTyped DEF ConnDenies
  <2>4. QED BY <1>13, <2>1, <2>3 DEF ConnDenies, ConnOnly, TypeOK, policyVars,
               stateVars, kernelVars
<1>14. QED BY <1>2, <1>3, <1>4, <1>5, <1>6, <1>7, <1>8, <1>9, <1>10, <1>11,
              <1>12, <1>13 DEF Continue

Control == [pc : {"idle", "start", "deny", "stop", "sync", "ack", "commit",
                  "clear", "open"},
            next : Policies \cup {None}, ids : SUBSET Request]

LEMMA CtlTyped ==
    ASSUME TInv, CtlStep
    PROVE  TypeOK'
<1> USE ApprovalAssumption DEF TInv
<1>1. lane \in Seq(Message) /\ ctl \in Control /\ NoControl \in Control
  BY DEF TypeOK, Control, NoControl
<1>2. CASE StartSwitches
  <2>1. lane' \in Seq(Message)
    BY <1>1, <1>2, MessageTyped, SendTyped DEF StartSwitches
  <2>2. ctl' \in Control
    BY <1>1, <1>2 DEF StartSwitches, CtlGoto, Control
  <2>3. QED BY <1>2, <2>1, <2>2 DEF StartSwitches, CtlKeeps, CtlOnly, TypeOK,
               Control, stateVars, kernelVars
<1>3. CASE StopSwitches
  <2>1. lane' \in Seq(Message)
    BY <1>1, <1>3, MessageTyped, SendTyped DEF StopSwitches
  <2>2. ctl' \in Control
    BY <1>1, <1>3 DEF StopSwitches, CtlGoto, Control
  <2>3. QED BY <1>3, <2>1, <2>2 DEF StopSwitches, CtlKeeps, CtlOnly, TypeOK,
               Control, stateVars, kernelVars
<1>4. ASSUME NEW p \in Policies, ShutGate(p) PROVE TypeOK'
  <2>1. ctl' \in Control
    BY <1>4 DEF ShutGate, NoControl, Control
  <2>2. gate' \in BOOLEAN
    BY <1>4 DEF ShutGate, CloseGate
  <2>3. QED BY <1>4, <2>1, <2>2 DEF ShutGate, CtlKeeps, CtlOnly, TypeOK,
               Control, stateVars, kernelVars
<1>5. CASE StartClears
  <2>1. ctl' \in Control
    BY <1>5 DEF StartClears, NoControl, Control
  <2>2. enforce' \in BOOLEAN
    BY <1>5 DEF StartClears
  <2>a. starts' \in 0 .. MaxStart
    BY <1>5 DEF StartClears, CtlInv, TypeOK
  <2>3. QED BY <1>5, <2>1, <2>2, <2>a DEF StartClears, ClearEphemeral, CtlOnly,
               TypeOK, Control, kernelVars
<1>6. ASSUME NEW i \in Request, StartDenies(i) PROVE TypeOK'
  <2>1. lane' \in Seq(Message)
    BY <1>1, <1>6, MessageTyped, SendTyped DEF StartDenies
  <2>2. ctl' \in Control
    BY <1>1, <1>6 DEF StartDenies, Control
  <2>3. QED BY <1>6, <2>1, <2>2 DEF StartDenies, CtlKeeps, CtlOnly, TypeOK,
               Control, stateVars, kernelVars
<1>7. ASSUME NEW from, Preload(from), gate' \in BOOLEAN PROVE TypeOK'
  <2>1. lane' \in Seq(Message)
    <3>1. epoch \in Epoch
      BY DEF TypeOK
    <3>2. QED BY <1>1, <1>7, <3>1, MessageTyped, SendTyped DEF Preload
  <2>2. QED BY <1>1, <1>7, <2>1 DEF Preload, CtlKeeps, CtlOnly, TypeOK,
               Control, stateVars, kernelVars
<1>8. CASE StartEnds
  BY <1>7, <1>8 DEF StartEnds, TypeOK
<1>9. CASE UpdateEnds
  <2>1. gate' \in BOOLEAN
    BY <1>9 DEF UpdateEnds, OpenGate
  <2>2. QED BY <1>7, <1>9, <2>1 DEF UpdateEnds
<1>10. CASE StopClears
  <2>1. ctl' \in Control
    BY <1>1, <1>10 DEF StopClears, CtlGoto, Control
  <2>2. enforce' \in BOOLEAN
    BY <1>10 DEF StopClears
  <2>3. QED BY <1>10, <2>1, <2>2 DEF StopClears, ClearEphemeral, CtlOnly,
               TypeOK, Control, kernelVars
<1>11. CASE RequestSync
  <2>1. epoch + 1 \in Epoch
    BY <1>11 DEF RequestSync, CtlGoto, CtlInv, TypeOK, Epoch
  <2>2. lane' \in Seq(Message)
    BY <1>1, <1>11, <2>1, MessageTyped, SendTyped DEF RequestSync, Sync
  <2>3. ctl' \in Control
    BY <1>1, <1>11 DEF RequestSync, CtlGoto, Control
  <2>4. QED BY <1>11, <2>2, <2>3 DEF RequestSync, CtlKeeps, CtlOnly, TypeOK,
               Control, stateVars, kernelVars
<1>12. CASE UpdateFails
  <2>1. gate' \in BOOLEAN
    BY <1>12 DEF UpdateFails, OpenGate
  <2>2. QED BY <1>1, <1>12, <2>1 DEF UpdateFails, CtlKeeps, CtlOnly, TypeOK,
               Control, stateVars, kernelVars
<1>13. CASE Commit
  <2>1. epoch' = epoch + 1 /\ epoch' \in Epoch /\ ctl.next \in Policies
    BY <1>13 DEF Commit, CtlGoto, CtlInv, TypeOK, Epoch
  <2>2. bundle' = [bundle EXCEPT ![epoch + 1] = ctl.next]
    BY <1>13, <2>1 DEF Commit
  <2>3. bundle' \in [Epoch -> Policies \cup {None}]
    BY <2>1, <2>2 DEF TypeOK
  <2>4. \A e \in 1 .. epoch' : bundle'[e] # None
    BY <2>1, <2>2 DEF TypeOK, Epoch
  <2>5. ctl' \in Control
    BY <1>1, <1>13 DEF Commit, CtlGoto, Control
  <2>6. QED BY <1>13, <2>1, <2>3, <2>4, <2>5 DEF Commit, CtlKeeps, CtlOnly,
               TypeOK, Control, stateVars, kernelVars
<1>14. CASE CtlInvalidate
  <2>1. ctl' \in Control
    BY <1>1, <1>14 DEF CtlInvalidate, CtlGoto, Control
  <2>2. QED BY <1>14, <2>1 DEF CtlInvalidate, Invalidate, ClearEphemeral,
               CtlKeeps, CtlOnly, TypeOK, Control, kernelVars
<1>15. QED BY <1>2, <1>3, <1>4, <1>5, <1>6, <1>8, <1>9, <1>10, <1>11, <1>12,
              <1>13, <1>14 DEF CtlStep, CtlContinue

LEMMA StutterTyped == TypeOK /\ UNCHANGED vars => TypeOK'
BY DEF vars, policyVars, stateVars, kernelVars, historyVars, TypeOK

LEMMA NextTyped == TInv /\ [Next]_vars => TypeOK'
BY KernelTyped, WorkerTyped, CtlTyped, NewCommandTyped, ContinueTyped,
   StutterTyped DEF Next, TInv

LEMMA InitTyped == Init => TypeOK
<1> SUFFICES ASSUME Init PROVE TypeOK
  OBVIOUS
<1> USE ApprovalAssumption
<1>1. enforce \in BOOLEAN /\ gate \in BOOLEAN
  BY DEF Init
<1>2. epoch \in Epoch
  BY DEF Init, Epoch
<1>3. /\ bundle \in [Epoch -> Policies \cup {None}]
      /\ \A e \in 1 .. epoch : bundle[e] # None
  <2>1. PICK p \in Policies :
            bundle = [e \in Epoch |-> IF e = 1 THEN p ELSE None]
    BY DEF Init
  <2>2. QED BY <1>2, <2>1 DEF Init, Epoch
<1>4. ctl \in Control
  BY DEF Init, NoControl, Control
<1>5. worker \in Worker /\ conn \in [Conn -> Command]
  BY DEF Init, NoWork, Worker, NoCommand, Command
<1>6. kernel \in Kernel
  <2>1. /\ kernel.on = FALSE /\ kernel.epoch = 1
        /\ kernel = [on |-> FALSE, epoch |-> 1,
                     state |-> [i \in Request |-> "new"]]
    BY DEF Init
  <2>2. QED BY <2>1 DEF Kernel, Epoch
<1>7. ground \in [Request -> Ground]
  BY DEF Init, NoGround, Ground
<1>8. QED BY <1>1, <1>2, <1>3, <1>4, <1>5, <1>6, <1>7 DEF Init, TypeOK,
             Control, Kernel

-----------------------------------------------------------------------------
(* What the worker and the connections work on. *)

\* All other steps leave the worker alone, and epochs only grow.
LEMMA WorkHolds == TInv /\ [Next]_vars => WorkInv'
<1> SUFFICES ASSUME TInv, [Next]_vars PROVE WorkInv'
  OBVIOUS
<1> USE DEF TInv
<1>1. epoch \in Nat
  BY DEF TypeOK, Epoch
<1>2. ASSUME worker' = worker, epoch' \in {epoch, epoch + 1} PROVE WorkInv'
  BY <1>1, <1>2 DEF WorkInv, TypeOK
<1>3. CASE KernelStep \/ Sender
  BY <1>2, <1>3 DEF KernelStep, Ask, Expire, Sender, Answer, SendTicket,
     SyncEpoch, SwitchMode, policyVars
<1>4. CASE CtlStep
  <2>1. worker' = worker
    BY <1>4 DEF CtlStep, CtlContinue, StartSwitches, StopSwitches, ShutGate,
       StartClears, StartDenies, StartEnds, StopClears, RequestSync,
       UpdateFails, Commit, CtlInvalidate, UpdateEnds, Preload, CtlOnly
  <2>2. epoch' \in {epoch, epoch + 1}
    BY <1>4 DEF CtlStep, CtlContinue, StartSwitches, StopSwitches, ShutGate,
       StartClears, StartDenies, StartEnds, StopClears, RequestSync,
       UpdateFails, Commit, CtlInvalidate, UpdateEnds, Preload
  <2>3. QED BY <1>2, <2>1, <2>2
<1>5. ASSUME NEW c \in Conn, NewCommand(c) \/ Continue(c) PROVE WorkInv'
  BY <1>2, <1>5 DEF NewCommand, AskTicket, ApproveDraft, DenyDraft,
     ApproveEntry, DenyEntry, Continue, MakeDraft, TakeDraft, CheckDraft,
     InsertApproved, TakeEntry, CacheEntry, ReplyEntry, ConnTicket,
     ConnEnqueues, DropDraft, DropEntry, ConnDenies, ConnOnly, policyVars
<1>6. CASE WorkerStep
  <2>1. epoch' = epoch
    BY <1>6 DEF WorkerStep, Take, JudgeDeny, JudgeAllow, JudgePending,
       JudgeApproved, WorkerApproves, WorkerTicket, WorkerEnqueues,
       WorkerDenies, WorkOnly, policyVars
  <2>2. CASE Take
    <3>1. Head(inbox) \in Request
      BY <2>2 DEF Take, TypeOK
    <3>2. worker' = [NoWork EXCEPT !.pc = "judge", !.req = Head(inbox),
                                   !.epoch = epoch]
      BY <2>2 DEF Take
    <3>3. QED BY <1>1, <2>1, <3>1, <3>2 DEF NoWork, WorkInv, TypeOK, Epoch
  <2>3. CASE worker' = NoWork
    BY <2>3 DEF NoWork, WorkInv
  <2>4. CASE /\ worker.pc # "idle"
             /\ worker' # NoWork
             /\ worker'.req = worker.req /\ worker'.epoch = worker.epoch
    BY <2>1, <2>4 DEF WorkInv
  <2>5. \/ Take \/ worker' = NoWork
        \/ /\ worker.pc # "idle"
           /\ worker'.req = worker.req /\ worker'.epoch = worker.epoch
    <3>1. worker \in Worker
      BY DEF TypeOK
    <3>2. QED BY <1>6, <3>1 DEF WorkerStep, Take, JudgeDeny, JudgeAllow,
                 JudgePending, JudgeApproved, Judge, WorkerApproves,
                 WorkerTicket, WorkerEnqueues, WorkerDenies, Worker
  <2>6. QED BY <2>2, <2>3, <2>4, <2>5
<1>7. CASE UNCHANGED vars
  BY <1>2, <1>7 DEF vars, policyVars
<1>8. QED BY <1>3, <1>4, <1>5, <1>6, <1>7 DEF Next

\* A connection that goes on works on what it worked on.
LEMMA GotoKeeps ==
    ASSUME TypeOK, NEW c \in Conn, NEW from, NEW to, Goto(c, from, to)
    PROVE  /\ \A d \in Conn \ {c} : conn'[d] = conn[d]
           /\ to = "idle" => conn'[c] = NoCommand
           /\ to # "idle" => conn'[c] = [conn[c] EXCEPT !.pc = to]
           /\ to # "idle" => /\ conn'[c].pc = to
                             /\ conn'[c].req = conn[c].req
                             /\ conn'[c].draft = conn[c].draft
                             /\ conn'[c].epoch = conn[c].epoch
                             /\ conn'[c].cache = conn[c].cache
<1>1. conn[c] \in Command
  BY DEF TypeOK
<1>2. conn' = [conn EXCEPT ![c] = IF to = "idle" THEN NoCommand
                                  ELSE [conn[c] EXCEPT !.pc = to]]
  BY DEF Goto
<1>3. /\ \A d \in Conn \ {c} : conn'[d] = conn[d]
      /\ conn'[c] = IF to = "idle" THEN NoCommand
                    ELSE [conn[c] EXCEPT !.pc = to]
  BY <1>2 DEF TypeOK
<1>4. QED BY <1>1, <1>3 DEF Command

LEMMA BeginKeeps ==
    ASSUME TypeOK, NEW c \in Conn, NEW cmd, Begin(c, cmd)
    PROVE  /\ \A d \in Conn \ {c} : conn'[d] = conn[d]
           /\ conn'[c] = cmd
BY DEF Begin, TypeOK

LEMMA NewCommandWorks ==
    ASSUME TInv, NEW c \in Conn, NewCommand(c)
    PROVE  /\ \A d \in Conn \ {c} : conn'[d] = conn[d]
           /\ Works(conn'[c])
<1> USE DEF TInv
<1>1. Works(NoCommand)
  BY DEF NoCommand, Works
<1>2. CASE AskTicket(c)
  <2>1. epoch \in Epoch
    BY DEF TypeOK
  <2>2. Works([NoCommand EXCEPT !.pc = "draft", !.epoch = epoch])
    BY <2>1 DEF NoCommand, Works
  <2>3. QED BY <1>2, <2>2, BeginKeeps DEF AskTicket
<1>3. ASSUME NEW u \in User, NEW d \in drafts,
             ApproveDraft(c, u, d) \/ DenyDraft(c, u, d)
      PROVE  /\ \A b \in Conn \ {c} : conn'[b] = conn[b]
             /\ Works(conn'[c])
  <2> DEFINE g == [id |-> d.id, epoch |-> d.epoch, start |-> d.start]
  <2>1. g \in Grant
    BY DraftTyped
  <2>2. \A pc \in {"take", "denyDraft"} :
            Works([NoCommand EXCEPT !.pc = pc, !.draft = g])
    BY <2>1 DEF NoCommand, Works
  <2>3. \E cmd : Begin(c, cmd) /\ Works(cmd)
    BY <1>1, <1>3, <2>2 DEF ApproveDraft, DenyDraft
  <2>4. QED BY <2>3, BeginKeeps
<1>4. ASSUME NEW u \in User, NEW i \in Request,
             ApproveEntry(c, u, i) \/ DenyEntry(c, u, i)
      PROVE  /\ \A b \in Conn \ {c} : conn'[b] = conn[b]
             /\ Works(conn'[c])
  <2>1. \A pc \in {"entry", "denyEntry"} :
            Works([NoCommand EXCEPT !.pc = pc, !.req = i])
    BY DEF NoCommand, Works
  <2>2. \E cmd : Begin(c, cmd) /\ Works(cmd)
    BY <1>1, <1>4, <2>1 DEF ApproveEntry, DenyEntry
  <2>3. QED BY <2>2, BeginKeeps
<1>5. QED BY <1>2, <1>3, <1>4 DEF NewCommand

LEMMA ContinueWorks ==
    ASSUME TInv, NEW c \in Conn, Continue(c)
    PROVE  /\ \A d \in Conn \ {c} : conn'[d] = conn[d]
           /\ Works(conn'[c])
<1> USE DEF TInv
<1>1. Works(NoCommand) /\ Works(conn[c]) /\ conn[c] \in Command
  BY DEF NoCommand, ConnInv, Works, TypeOK
<1>2. CASE MakeDraft(c) \/ InsertApproved(c) \/ ConnEnqueues(c) \/ DropDraft(c)
           \/ ConnDenies(c)
  <2>1. \E from : Goto(c, from, "idle")
    BY <1>2 DEF MakeDraft, InsertApproved, ConnEnqueues, DropDraft, ConnDenies
  <2>2. QED BY <1>1, <2>1, GotoKeeps
<1>3. CASE TakeDraft(c)
  <2>1. PICK to \in {"check", "idle"} : Goto(c, "take", to)
    BY <1>3 DEF TakeDraft
  <2>2. conn[c].pc = "take"
    BY <2>1 DEF Goto
  <2>3. QED BY <1>1, <2>1, <2>2, GotoKeeps DEF Works
<1>4. CASE CheckDraft(c)
  <2>1. PICK to \in {"insert", "idle"} : Goto(c, "check", to)
    BY <1>4 DEF CheckDraft
  <2>2. conn[c].pc = "check"
    BY <2>1 DEF Goto
  <2>3. QED BY <1>1, <2>1, <2>2, GotoKeeps DEF Works
<1>5. CASE TakeEntry(c)
  <2> DEFINE i == conn[c].req
             n == IF pending[i] = None THEN [conn[c] EXCEPT !.pc = "reply"]
                  ELSE [conn[c] EXCEPT !.pc = "cache",
                                       !.epoch = pending[i].epoch]
  <2>1. conn[c].pc = "entry" /\ conn' = [conn EXCEPT ![c] = n]
    BY <1>5 DEF TakeEntry
  <2>2. i \in Request
    BY <1>1, <2>1 DEF Works
  <2>3. pending[i] # None => pending[i].epoch \in Epoch
    BY <2>2 DEF TypeOK
  <2>4. Works(n)
    <3>1. CASE pending[i] = None
      <4>1. n = [conn[c] EXCEPT !.pc = "reply"]
        BY <3>1
      <4>2. QED BY <1>1, <2>1, <2>2, <4>1 DEF Works, Command
    <3>2. CASE pending[i] # None
      <4>1. n = [conn[c] EXCEPT !.pc = "cache", !.epoch = pending[i].epoch]
        BY <3>2
      <4>2. QED BY <1>1, <2>2, <2>3, <3>2, <4>1 DEF Works, Command
    <3>3. QED BY <3>1, <3>2
  <2>5. QED BY <2>1, <2>4 DEF TypeOK
<1>6. CASE CacheEntry(c)
  <2> DEFINE n == [conn[c] EXCEPT
           !.pc = "reply",
           !.cache = bundle[epoch].ticket /\ epoch = conn[c].epoch
                    /\ drafts = {}]
  <2>1. conn[c].pc = "cache" /\ conn' = [conn EXCEPT ![c] = n]
    BY <1>6 DEF CacheEntry
  <2>2. Works(n)
    BY <1>1, <2>1 DEF Works, Command
  <2>3. QED BY <2>1, <2>2 DEF TypeOK
<1>7. CASE ReplyEntry(c)
  <2>1. PICK to \in {"ticket", "idle"} :
            Goto(c, "reply", to) /\ (to = "ticket" => conn[c].cache)
    BY <1>7 DEF ReplyEntry
  <2>2. conn[c].pc = "reply"
    BY <2>1 DEF Goto
  <2>3. CASE to = "idle"
    BY <1>1, <2>1, <2>3, GotoKeeps
  <2>4. CASE to = "ticket"
    <3>1. conn[c].epoch \in Epoch
      BY <1>1, <2>1, <2>2, <2>4 DEF Works
    <3>2. conn'[c].pc = "ticket" /\ conn'[c].epoch = conn[c].epoch
      <4>1. conn' = [conn EXCEPT ![c] = [conn[c] EXCEPT !.pc = "ticket"]]
        BY <2>1, <2>4 DEF Goto
      <4>2. conn'[c] = [conn[c] EXCEPT !.pc = "ticket"]
        BY <4>1 DEF TypeOK
      <4>3. QED BY <1>1, <4>2 DEF Command
    <3>3. Works(conn'[c])
      BY <3>1, <3>2 DEF Works
    <3>4. QED BY <2>1, <3>3, GotoKeeps
  <2>5. QED BY <2>1, <2>3, <2>4
<1>8. CASE ConnTicket(c)
  <2>1. PICK to \in {"enqueue", "idle"} : Goto(c, "ticket", to)
    BY <1>8 DEF ConnTicket
  <2>2. conn[c].pc = "ticket"
    BY <2>1 DEF Goto
  <2>3. QED BY <1>1, <2>1, <2>2, GotoKeeps DEF Works
<1>9. CASE DropEntry(c)
  <2>1. PICK to \in {"deny", "idle"} : Goto(c, "denyEntry", to)
    BY <1>9 DEF DropEntry
  <2>2. conn[c].pc = "denyEntry"
    BY <2>1 DEF Goto
  <2>3. QED BY <1>1, <2>1, <2>2, GotoKeeps DEF Works
<1>10. QED BY <1>2, <1>3, <1>4, <1>5, <1>6, <1>7, <1>8, <1>9 DEF Continue

LEMMA ConnHolds == TInv /\ [Next]_vars => ConnInv'
<1> SUFFICES ASSUME TInv, [Next]_vars PROVE ConnInv'
  OBVIOUS
<1> USE DEF TInv
<1>1. ASSUME NEW c \in Conn, NewCommand(c) \/ Continue(c) PROVE ConnInv'
  <2>1. /\ \A d \in Conn \ {c} : conn'[d] = conn[d]
        /\ Works(conn'[c])
    BY <1>1, NewCommandWorks, ContinueWorks
  <2>2. QED BY <2>1 DEF ConnInv
<1>2. CASE UNCHANGED conn
  BY <1>2 DEF ConnInv
<1>3. CASE KernelStep \/ Sender
  BY <1>2, <1>3 DEF KernelStep, Ask, Expire, Sender, Answer, SendTicket,
     SyncEpoch, SwitchMode
<1>4. CASE CtlStep
  BY <1>2, <1>4 DEF CtlStep, CtlContinue, StartSwitches, StopSwitches,
     ShutGate, StartClears, StartDenies, StartEnds, StopClears, RequestSync,
     UpdateFails, Commit, CtlInvalidate, UpdateEnds, Preload, CtlOnly
<1>5. CASE WorkerStep
  BY <1>2, <1>5 DEF WorkerStep, Take, JudgeDeny, JudgeAllow, JudgePending,
     JudgeApproved, WorkerApproves, WorkerTicket, WorkerEnqueues, WorkerDenies,
     WorkOnly
<1>6. QED BY <1>1, <1>2, <1>3, <1>4, <1>5 DEF Next, vars

-----------------------------------------------------------------------------
(* The management command, the gate, the queue and the kernel. *)

\* The queue after a step, with no request to synchronise added: each message
\* was there, in another place if the head has left.
Passed ==
    \/ lane' = lane
    \/ \E m \in Message : m.kind # "sync" /\ Send(m)
    \/ \E m \in Message : m.kind # "sync" /\ Dispatch(m)

\* Such a queue keeps its requests to synchronise.
LEMMA PassedKeeps ==
    ASSUME TInv, Passed
    PROVE  /\ \A n \in 1 .. Len(lane') : lane'[n].kind = "sync" =>
                  ctl.pc = "ack" /\ lane'[n] = Sync(epoch + 1)
           /\ \A n, m \in 1 .. Len(lane') :
                  lane'[n].kind = "sync" /\ lane'[m].kind = "sync" => n = m
<1> USE DEF TInv
<1>1. lane \in Seq(Message) /\ Len(lane) \in Nat
  BY DEF TypeOK
<1>2. CASE lane' = lane
  BY <1>2 DEF CtlInv
<1>3. ASSUME NEW m \in Message, m.kind # "sync", Send(m)
      PROVE  \A n \in 1 .. Len(lane') : lane'[n].kind = "sync" =>
                 n \in 1 .. Len(lane) /\ lane'[n] = lane[n]
  BY <1>1, <1>3, SendTyped
<1>4. ASSUME NEW m \in Message, m.kind # "sync", Dispatch(m)
      PROVE  \A n \in 1 .. Len(lane') :
                 n + 1 \in 1 .. Len(lane) /\ lane'[n] = lane[n + 1]
  BY <1>1, <1>4, DispatchTyped
<1>5. CASE \E m \in Message : m.kind # "sync" /\ Send(m)
  BY <1>3, <1>5 DEF CtlInv
<1>6. CASE \E m \in Message : m.kind # "sync" /\ Dispatch(m)
  <2>1. \A n \in 1 .. Len(lane') :
            n + 1 \in 1 .. Len(lane) /\ lane'[n] = lane[n + 1]
    BY <1>4, <1>6
  <2>2. \A n \in 1 .. Len(lane') : lane'[n].kind = "sync" =>
            ctl.pc = "ack" /\ lane'[n] = Sync(epoch + 1)
    BY <2>1 DEF CtlInv
  <2>3. ASSUME NEW n \in 1 .. Len(lane'), NEW m \in 1 .. Len(lane'),
               lane'[n].kind = "sync", lane'[m].kind = "sync"
        PROVE  n = m
    <3>1. n + 1 = m + 1
      BY <2>1, <2>3 DEF CtlInv
    <3>2. QED BY <3>1
  <2>4. QED BY <2>2, <2>3
<1>7. QED BY <1>2, <1>5, <1>6 DEF Passed

\* A step of another task than the management command's.
Aside == UNCHANGED <<enforce, policyVars, starts>>
         /\ kernel'.epoch = kernel.epoch /\ Passed

LEMMA AsideKeeps == TInv /\ Aside => CtlInv'
<1> SUFFICES ASSUME TInv, Aside PROVE CtlInv'
  OBVIOUS
<1>1. UNCHANGED <<enforce, epoch, bundle, gate, ctl, starts>>
  BY DEF Aside, policyVars
<1>2. kernel'.epoch = kernel.epoch
  BY DEF Aside
<1>3. /\ \A n \in 1 .. Len(lane') : lane'[n].kind = "sync" =>
             ctl.pc = "ack" /\ lane'[n] = Sync(epoch + 1)
      /\ \A n, m \in 1 .. Len(lane') :
             lane'[n].kind = "sync" /\ lane'[m].kind = "sync" => n = m
  BY PassedKeeps DEF Aside
<1>4. QED BY <1>1, <1>2, <1>3 DEF TInv, CtlInv, Sync

LEMMA KernelAside == TInv /\ KernelStep => Aside
BY DEF TInv, TypeOK, KernelStep, Ask, Expire, Aside, Passed, historyVars

\* Of the messages, only a request to synchronise bears on the epoch.
LEMMA SenderAside ==
    ASSUME TInv, Sender, \A e \in Epoch : ~SyncEpoch(e)
    PROVE  Aside
<1> USE DEF TInv
<1>1. kernel \in Kernel /\ lane \in Seq(Message)
  BY DEF TypeOK, Kernel
<1>2. ASSUME NEW i \in Request, NEW k \in {"approve", "deny"}, Answer(i, k)
      PROVE  Aside
  <2> DEFINE m == [kind |-> k, req |-> i]
  <2>1. m \in Message /\ m.kind # "sync" /\ Dispatch(m)
    BY <1>2 DEF Answer, Message
  <2>2. kernel'.epoch = kernel.epoch
    BY <1>1, <1>2 DEF Answer, Kernel
  <2>3. QED BY <1>2, <2>1, <2>2 DEF Answer, Aside, Passed, historyVars
<1>3. ASSUME NEW e \in Epoch, SendTicket(e) PROVE Aside
  <2>1. /\ TicketOf(e) \in Message /\ TicketOf(e).kind # "sync"
        /\ Dispatch(TicketOf(e))
    BY <1>3 DEF SendTicket, Message, TicketOf
  <2>2. QED BY <1>3, <2>1 DEF SendTicket, Aside, Passed, kernelVars,
               historyVars
<1>4. ASSUME NEW on \in BOOLEAN, SwitchMode(on) PROVE Aside
  <2> DEFINE m == [kind |-> "mode", on |-> on]
  <2>1. m \in Message /\ m.kind # "sync" /\ Dispatch(m)
    BY <1>4 DEF SwitchMode, Message
  <2>2. kernel'.epoch = kernel.epoch
    BY <1>1, <1>4 DEF SwitchMode, Kernel
  <2>3. QED BY <1>4, <2>1, <2>2 DEF SwitchMode, Aside, Passed, historyVars
<1>5. QED BY <1>2, <1>3, <1>4 DEF Sender

LEMMA AnswersAside ==
    /\ \A i \in Request :
           /\ Approval(i) \in Message /\ Approval(i).kind # "sync"
           /\ Denial(i) \in Message /\ Denial(i).kind # "sync"
    /\ \A e \in Epoch : TicketOf(e) \in Message /\ TicketOf(e).kind # "sync"
BY DEF Approval, Denial, TicketOf, Message

LEMMA WorkerAside == TInv /\ WorkerStep => Aside
<1> SUFFICES ASSUME TInv, WorkerStep PROVE Aside
  OBVIOUS
<1>1. WorkOnly
  BY DEF WorkerStep, Take, JudgeDeny, JudgeAllow, JudgePending, JudgeApproved,
     WorkerApproves, WorkerTicket, WorkerEnqueues, WorkerDenies
<1>2. worker.pc # "idle" => worker.req \in Request /\ worker.epoch \in Epoch
  <2>1. epoch \in Epoch /\ WorkInv
    BY DEF TInv, TypeOK
  <2>2. QED BY <2>1, ApprovalAssumption DEF WorkInv, Epoch
<1>3. lane' = lane \/ \E m \in Message : m.kind # "sync" /\ Send(m)
  BY <1>2, AnswersAside DEF WorkerStep, Take, JudgeDeny, JudgeAllow,
     JudgePending, JudgeApproved, WorkerApproves, WorkerTicket, WorkerEnqueues,
     WorkerDenies
<1>4. QED BY <1>1, <1>3 DEF WorkOnly, Aside, Passed

LEMMA ConnAside ==
    ASSUME TInv, NEW c \in Conn, NewCommand(c) \/ Continue(c)
    PROVE  Aside
<1>1. ConnOnly
  BY DEF NewCommand, AskTicket, ApproveDraft, DenyDraft, ApproveEntry,
     DenyEntry, Continue, MakeDraft, TakeDraft, CheckDraft, InsertApproved,
     TakeEntry, CacheEntry, ReplyEntry, ConnTicket, ConnEnqueues, DropDraft,
     DropEntry, ConnDenies
<1>2. /\ conn[c].pc \in {"reply", "deny"} => conn[c].req \in Request
      /\ conn[c].pc = "enqueue" => conn[c].epoch \in Epoch
  BY DEF TInv, ConnInv, Works
<1>3. lane' = lane \/ \E m \in Message : m.kind # "sync" /\ Send(m)
  <2>1. CASE NewCommand(c)
    BY <2>1 DEF NewCommand, AskTicket, ApproveDraft, DenyDraft, ApproveEntry,
       DenyEntry
  <2>2. CASE Continue(c)
    BY <1>2, <2>2, AnswersAside DEF Continue, MakeDraft, TakeDraft, CheckDraft,
       InsertApproved, TakeEntry, CacheEntry, ReplyEntry, ConnTicket,
       ConnEnqueues, DropDraft, DropEntry, ConnDenies, Goto
  <2>3. QED BY <2>1, <2>2
<1>4. QED BY <1>1, <1>3 DEF ConnOnly, kernelVars, Aside, Passed


\* How the gate, the number under way and the kernel go together.
Stage ==
    /\ gate <=> ctl.pc \in {"sync", "ack", "commit", "clear", "open"}
    /\ ctl.pc \in {"sync", "ack", "commit"} =>
           ctl.next \in Policies /\ epoch < MaxEpoch
    /\ ctl.pc = "start" => enforce \/ starts < MaxStart
    /\ kernel.epoch = IF ctl.pc = "commit" THEN epoch + 1 ELSE epoch

\* A step of the management command that does not deal with the kernel's epoch.
LEMMA PassedHolds ==
    ASSUME TInv, ctl.pc # "ack", Passed, Stage'
    PROVE  CtlInv'
<1>1. \A n \in 1 .. Len(lane') : lane'[n].kind # "sync"
  BY PassedKeeps
<1>2. QED BY <1>1 DEF Stage, CtlInv

LEMMA ModeAside ==
    \A on \in BOOLEAN : /\ [kind |-> "mode", on |-> on] \in Message
                        /\ [kind |-> "mode", on |-> on].kind # "sync"
BY DEF Message

\* The steps of the management command.
LEMMA CtlHolds ==
    ASSUME TInv, CtlStep
    PROVE  CtlInv'
<1> USE ApprovalAssumption DEF TInv
<1>1. /\ lane \in Seq(Message) /\ epoch \in Nat /\ epoch \in Epoch
      /\ epoch + 1 \in Nat /\ ctl \in Control /\ gate \in BOOLEAN
  BY DEF TypeOK, Control, Epoch
<1>2. Stage
  BY DEF CtlInv, Stage
<1>3. CASE StartSwitches \/ StopSwitches
  <2>1. Passed
    BY <1>3, ModeAside DEF StartSwitches, StopSwitches, Passed
  <2>2. ctl.pc = "idle" /\ Stage'
    BY <1>1, <1>2, <1>3 DEF StartSwitches, StopSwitches, CtlGoto, CtlKeeps,
       CtlOnly, kernelVars, Control, Stage
  <2>3. QED BY <2>1, <2>2, PassedHolds
<1>4. CASE StartClears \/ StopClears
  <2>1. Passed /\ ctl.pc # "ack"
    BY <1>4 DEF StartClears, StopClears, CtlGoto, Passed
  <2>a. ctl'.pc \in {"deny", "idle"} /\ ctl.pc \in {"start", "stop"}
    BY <1>1, <1>4 DEF StartClears, StopClears, NoControl, CtlGoto, Control
  <2>b. UNCHANGED <<epoch, gate, kernel>>
    BY <1>4 DEF StartClears, StopClears, CtlOnly, kernelVars
  <2>2. Stage'
    BY <1>2, <2>a, <2>b DEF Stage
  <2>3. QED BY <2>1, <2>2, PassedHolds
<1>5. ASSUME NEW i \in Request, StartDenies(i) PROVE CtlInv'
  <2>1. Passed /\ ctl.pc # "ack"
    BY <1>5, AnswersAside DEF StartDenies, Passed
  <2>2. Stage'
    BY <1>1, <1>2, <1>5 DEF StartDenies, CtlKeeps, CtlOnly, kernelVars,
       Control, Stage
  <2>3. QED BY <2>1, <2>2, PassedHolds
<1>6. CASE StartEnds \/ UpdateEnds
  <2>1. Passed /\ ctl.pc # "ack"
    BY <1>1, <1>6, AnswersAside DEF StartEnds, UpdateEnds, Preload, Passed
  <2>2. Stage'
    BY <1>1, <1>2, <1>6 DEF StartEnds, UpdateEnds, Preload, OpenGate,
       NoControl, CtlKeeps, CtlOnly, kernelVars, Control, Stage
  <2>3. QED BY <2>1, <2>2, PassedHolds
<1>7. CASE UpdateFails \/ CtlInvalidate
  <2>1. Passed /\ ctl.pc # "ack"
    BY <1>7 DEF UpdateFails, CtlInvalidate, CtlGoto, Passed
  <2>2. Stage'
    BY <1>1, <1>2, <1>7 DEF UpdateFails, CtlInvalidate, CtlGoto, OpenGate,
       NoControl, CtlKeeps, CtlOnly, kernelVars, Control, Stage
  <2>3. QED BY <2>1, <2>2, PassedHolds
<1>8. CASE Commit
  <2>1. Passed /\ ctl.pc # "ack"
    BY <1>8 DEF Commit, CtlGoto, Passed
  <2>2. Stage'
    BY <1>1, <1>2, <1>8 DEF Commit, CtlGoto, CtlKeeps, CtlOnly, kernelVars,
       Control, Stage
  <2>3. QED BY <2>1, <2>2, PassedHolds
<1>9. ASSUME NEW p \in Policies, ShutGate(p) PROVE CtlInv'
  <2>1. Passed /\ ctl.pc # "ack"
    BY <1>9 DEF ShutGate, Passed
  <2>2. Stage'
    BY <1>1, <1>2, <1>9 DEF ShutGate, HasSuccessor, CloseGate, NoControl,
       CtlKeeps, CtlOnly, kernelVars, Control, Stage
  <2>3. QED BY <2>1, <2>2, PassedHolds
<1>10. CASE RequestSync
  <2>1. ctl.pc = "sync" /\ Send(Sync(epoch + 1)) /\ epoch + 1 \in Epoch
    BY <1>1, <1>2, <1>10 DEF RequestSync, CtlGoto, Sync, Stage, Epoch
  <2>2. \A n \in 1 .. Len(lane) : lane[n].kind # "sync"
    BY <2>1 DEF CtlInv
  <2>3. \A n \in 1 .. Len(lane') : lane'[n].kind = "sync" =>
            n = Len(lane) + 1 /\ lane'[n] = Sync(epoch + 1)
    BY <1>1, <2>1, <2>2, MessageTyped, SendTyped
  <2>4. Stage' /\ ctl'.pc = "ack" /\ epoch' = epoch
    BY <1>1, <1>2, <1>10 DEF RequestSync, CtlGoto, CtlKeeps, CtlOnly,
       kernelVars, Control, Stage
  <2>5. QED BY <2>3, <2>4 DEF CtlInv, Stage, Sync
<1>11. QED BY <1>3, <1>4, <1>5, <1>6, <1>7, <1>8, <1>9, <1>10
           DEF CtlStep, CtlContinue

\* The acknowledgement of the kernel.
LEMMA SyncHolds ==
    ASSUME TInv, NEW e \in Epoch, SyncEpoch(e)
    PROVE  CtlInv'
<1> USE DEF TInv
<1>1. /\ lane \in Seq(Message) /\ kernel \in Kernel /\ epoch \in Nat
      /\ ctl \in Control
  BY DEF TypeOK, Kernel, Control, Epoch
<1>2. Sync(e) = lane[1] /\ Len(lane) \in Nat \ {0}
  BY <1>1, DispatchTyped DEF SyncEpoch, Sync
<1>3. ctl.pc = "ack" /\ e = epoch + 1
  <2>1. lane[1].kind = "sync" /\ 1 \in 1 .. Len(lane)
    BY <1>2 DEF Sync
  <2>2. ctl.pc = "ack" /\ Sync(e) = Sync(epoch + 1)
    BY <1>2, <2>1 DEF CtlInv
  <2>3. QED BY <2>2 DEF Sync
<1>4. \A n \in 1 .. Len(lane') : lane'[n].kind # "sync"
  <2>1. \A n \in 1 .. Len(lane') :
            n + 1 \in 1 .. Len(lane) /\ n + 1 # 1 /\ lane'[n] = lane[n + 1]
    BY <1>1, DispatchTyped DEF SyncEpoch
  <2>2. 1 \in 1 .. Len(lane) /\ lane[1].kind = "sync"
    BY <1>2 DEF Sync
  <2>3. QED BY <2>1, <2>2 DEF CtlInv
<1>5. /\ kernel'.epoch = e /\ ctl'.pc = "commit" /\ ctl'.next = ctl.next
      /\ UNCHANGED <<enforce, epoch, gate, starts>>
  BY <1>1 DEF SyncEpoch, Kernel, Control, historyVars
<1>6. QED BY <1>3, <1>4, <1>5 DEF CtlInv

LEMMA CtlInvHolds == TInv /\ [Next]_vars => CtlInv'
<1> SUFFICES ASSUME TInv, [Next]_vars PROVE CtlInv'
  OBVIOUS
<1>1. CASE Sender
  BY <1>1, SenderAside, AsideKeeps, SyncHolds
<1>2. CASE UNCHANGED vars
  <2>1. Aside
    BY <1>2 DEF vars, policyVars, kernelVars, historyVars, Aside, Passed
  <2>2. QED BY <2>1, AsideKeeps
<1>3. QED BY <1>1, <1>2, KernelAside, WorkerAside, ConnAside, AsideKeeps,
             CtlHolds DEF Next

LEMMA InitHolds == Init => TInv
<1> SUFFICES ASSUME Init PROVE TInv
  OBVIOUS
<1>1. WorkInv /\ ConnInv
  BY DEF Init, NoWork, NoCommand, WorkInv, ConnInv, Works
<1>2. CtlInv
  BY DEF Init, NoControl, CtlInv
<1>3. QED BY <1>1, <1>2, InitTyped DEF TInv

LEMMA Invariance == Spec => []TInv
<1>1. TInv /\ [Next]_vars => TInv'
  BY NextTyped, WorkHolds, ConnHolds, CtlInvHolds DEF TInv
<1>2. QED BY InitHolds, <1>1, PTL DEF Spec

\* Whatever the tasks do, and in whatever order, the queue carries messages of
\* the kinds the sender knows and each task works on what it took up.
THEOREM TypeCorrect == Spec => []TypeOK
<1>1. TInv => TypeOK
  BY DEF TInv
<1>2. QED BY <1>1, Invariance, PTL

\* While the gate of send_ticket_add is open, teald judges by the epoch the
\* kernel has: begin_ticket_transition shuts it before the kernel is told, and
\* the guard is dropped when the new snapshot is published.
THEOREM EpochsInStep == Spec => []EpochInStep
<1>1. TInv => EpochInStep
  BY DEF TInv, CtlInv, EpochInStep
<1>2. QED BY <1>1, Invariance, PTL

\* A ticket that the sender lets through has the epoch of the kernel.
THEOREM TicketsInStep == Spec => DispatchInStep
<1>1. TInv /\ [Next]_vars =>
          [\A e \in Epoch : (SendTicket(e) /\ Dispatched(e)) =>
                                e = kernel.epoch]_vars
  BY DEF TInv, CtlInv, Dispatched
<1>2. QED BY <1>1, Invariance, PTL DEF Spec, DispatchInStep

-----------------------------------------------------------------------------
(* The drafts. *)

\* Between the change of the epoch and the end of the update, there are the
\* drafts of the policy before, then none.
DraftInv ==
    /\ ctl.pc = "open" => drafts = {}
    /\ ctl.pc \notin {"clear", "open"} => \A d \in drafts : d.epoch = epoch

LEMMA CtlDrafts == TInv /\ DraftInv /\ CtlStep => DraftInv'
<1> SUFFICES ASSUME TInv, DraftInv, CtlStep PROVE DraftInv'
  OBVIOUS
<1>1. ctl \in Control
  BY DEF TInv, TypeOK, Control
<1>2. CASE StartClears \/ StopClears \/ CtlInvalidate
  BY <1>2 DEF StartClears, StopClears, CtlInvalidate, Invalidate,
     ClearEphemeral, DraftInv
<1>3. CASE Commit
  BY <1>1, <1>3 DEF Commit, CtlGoto, Control, DraftInv
<1>4. CASE StartEnds \/ UpdateEnds
  <2>1. /\ ctl.pc \in {"deny", "open"} /\ ctl'.pc = "idle"
        /\ UNCHANGED <<drafts, epoch>>
    BY <1>4 DEF StartEnds, UpdateEnds, Preload, NoControl, stateVars
  <2>2. QED BY <2>1 DEF DraftInv
<1>5. CASE StartSwitches \/ StopSwitches \/ RequestSync \/ UpdateFails
           \/ (\E i \in Request : StartDenies(i))
           \/ (\E p \in Policies : ShutGate(p))
  <2>1. UNCHANGED <<drafts, epoch>>
    BY <1>5 DEF StartSwitches, StopSwitches, RequestSync, UpdateFails,
       StartDenies, ShutGate, stateVars
  <2>2. ctl.pc \notin {"clear", "open"} /\ ctl'.pc # "open"
    <3>1. CASE StartSwitches \/ StopSwitches \/ RequestSync
      BY <1>1, <3>1 DEF StartSwitches, StopSwitches, RequestSync, CtlGoto,
         Control
    <3>2. CASE UpdateFails
      BY <3>2 DEF UpdateFails, NoControl
    <3>3. ASSUME NEW i \in Request, StartDenies(i)
          PROVE  ctl.pc = "deny" /\ ctl'.pc = "deny"
      BY <1>1, <3>3 DEF StartDenies, Control
    <3>4. ASSUME NEW p \in Policies, ShutGate(p)
          PROVE  ctl.pc = "idle" /\ ctl'.pc = "sync"
      BY <3>4 DEF ShutGate, NoControl
    <3>5. QED BY <1>5, <3>1, <3>2, <3>3, <3>4
  <2>3. QED BY <2>1, <2>2 DEF DraftInv
<1>6. QED BY <1>2, <1>3, <1>4, <1>5 DEF CtlStep, CtlContinue

LEMMA ConnDrafts ==
    ASSUME TInv, DraftInv, NEW c \in Conn, NewCommand(c) \/ Continue(c)
    PROVE  DraftInv'
<1>1. UNCHANGED <<epoch, gate, ctl>>
  BY ConnAside DEF Aside, policyVars
<1>2. CASE drafts' \subseteq drafts
  BY <1>1, <1>2 DEF DraftInv
<1>3. ASSUME NEW u \in User, NEW d \in drafts, ApproveDraft(c, u, d)
      PROVE  DraftInv'
  <2> DEFINE n == [d EXCEPT !.by = d.by \cup {u}]
  <2>1. n.epoch = d.epoch
    BY DraftTyped DEF TInv
  <2>2. drafts' = (drafts \ {d}) \cup {n}
    BY <1>3 DEF ApproveDraft
  <2>3. QED BY <1>1, <2>1, <2>2 DEF DraftInv
<1>4. CASE MakeDraft(c)
  <2>1. CASE DraftInOrder(conn[c].epoch)
    <3>1. /\ ~gate /\ epoch = conn[c].epoch
          /\ drafts' = {[id |-> drafted', by |-> {},
                         epoch |-> conn[c].epoch, start |-> starts]}
      BY <1>4, <2>1 DEF MakeDraft, DraftInOrder
    <3>2. ctl.pc \notin {"clear", "open"}
      BY <3>1 DEF TInv, CtlInv
    <3>3. QED BY <1>1, <3>1, <3>2 DEF DraftInv
  <2>2. CASE ~DraftInOrder(conn[c].epoch)
    BY <1>2, <1>4, <2>2 DEF MakeDraft
  <2>3. QED BY <2>1, <2>2
<1>5. CASE AskTicket(c) \/ \E u \in User : \/ \E d \in drafts : DenyDraft(c, u, d)
                                           \/ \E i \in Request :
                                                  ApproveEntry(c, u, i)
                                                  \/ DenyEntry(c, u, i)
  BY <1>2, <1>5 DEF AskTicket, DenyDraft, ApproveEntry, DenyEntry, stateVars
<1>6. CASE Continue(c) /\ ~MakeDraft(c)
  BY <1>2, <1>6 DEF Continue, TakeDraft, CheckDraft, InsertApproved, TakeEntry,
     CacheEntry, ReplyEntry, ConnTicket, ConnEnqueues, DropDraft, DropEntry,
     ConnDenies, Without, stateVars
<1>7. QED BY <1>3, <1>4, <1>5, <1>6 DEF NewCommand

LEMMA DraftHolds == TInv /\ DraftInv /\ [Next]_vars => DraftInv'
<1> SUFFICES ASSUME TInv, DraftInv, [Next]_vars PROVE DraftInv'
  OBVIOUS
<1>1. CASE UNCHANGED <<drafts, epoch>> /\ ctl'.pc = ctl.pc
  BY <1>1 DEF DraftInv
<1>2. CASE KernelStep \/ WorkerStep
  <2>1. UNCHANGED <<drafts, epoch, ctl>>
    BY <1>2 DEF KernelStep, Ask, Expire, WorkerStep, Take, JudgeDeny,
       JudgeAllow, JudgePending, JudgeApproved, WorkerApproves, WorkerTicket,
       WorkerEnqueues, WorkerDenies, WorkOnly, policyVars, stateVars
  <2>2. QED BY <1>1, <2>1
<1>3. CASE Sender
  <2>1. UNCHANGED <<drafts, epoch>>
    BY <1>3 DEF Sender, Answer, SendTicket, SyncEpoch, SwitchMode, policyVars,
       stateVars
  <2>2. CASE \A e \in Epoch : ~SyncEpoch(e)
    BY <1>1, <1>3, <2>1, <2>2, SenderAside DEF Aside, policyVars
  <2>3. ASSUME NEW e \in Epoch, SyncEpoch(e) PROVE DraftInv'
    <3>1. lane # <<>> /\ lane \in Seq(Message) /\ lane[1] = Sync(e)
      BY <2>3, DispatchTyped DEF SyncEpoch, Dispatch, Sync, TInv, TypeOK
    <3>2. ctl.pc = "ack"
      <4>1. 1 \in 1 .. Len(lane) /\ lane[1].kind = "sync"
        BY <3>1 DEF Sync
      <4>2. QED BY <4>1 DEF TInv, CtlInv
    <3>3. ctl'.pc = "commit"
      BY <2>3 DEF SyncEpoch, TInv, TypeOK
    <3>4. QED BY <2>1, <3>2, <3>3 DEF DraftInv
  <2>4. QED BY <2>2, <2>3
<1>4. CASE UNCHANGED vars
  BY <1>1, <1>4 DEF vars, policyVars, stateVars
<1>5. QED BY <1>2, <1>3, <1>4, CtlDrafts, ConnDrafts DEF Next

\* While the gate is open, a draft is of the policy in force: process_ticket
\* looks at the epoch and the gate again under the lock it makes the draft
\* under, and the gate opens only after invalidate_old_approvals.
THEOREM DraftsInForce == Spec => []DraftsCurrent
<1>1. Init => DraftInv
  BY DEF Init, DraftInv
<1>2. TInv /\ DraftInv => DraftsCurrent
  BY DEF TInv, CtlInv, DraftInv, DraftsCurrent
<1>3. QED BY <1>1, <1>2, DraftHolds, Invariance, PTL DEF Spec

-----------------------------------------------------------------------------
(* Grounds: from the votes to the answer. *)

Voters(V, p, x, e) ==
    {u \in User : /\ [on |-> x, user |-> u, epoch |-> e] \in V
                  /\ p.holds[u] \cap p.required # {}}

\* The quorum as a function of the votes V and the rule p.
Enough(V, p, x, e) ==
    /\ Cardinality(Voters(V, p, x, e)) >= p.threshold
    /\ \A r \in p.required : \E u \in Voters(V, p, x, e) : r \in p.holds[u]

LEMMA QuorumIsEnough ==
    \A x, e : Quorum(x, e) <=> bundle[e] # None /\ Enough(votes, bundle[e], x, e)
BY DEF Quorum, Enough, Voters

LEMMA QuorumIsEnoughNext ==
    \A x, e : Quorum(x, e)' <=>
        bundle'[e] # None /\ Enough(votes', bundle'[e], x, e)
BY DEF Quorum, Enough, Voters

LEMMA VotersFinite ==
    ASSUME NEW V, NEW p, NEW x, NEW e, NEW S \in SUBSET Voters(V, p, x, e)
    PROVE  /\ IsFiniteSet(Voters(V, p, x, e)) /\ IsFiniteSet(S)
           /\ Cardinality(S) \in Nat /\ Cardinality(Voters(V, p, x, e)) \in Nat
           /\ Cardinality(S) <= Cardinality(Voters(V, p, x, e))
<1>1. Voters(V, p, x, e) \subseteq User
  BY DEF Voters
<1>2. IsFiniteSet(Voters(V, p, x, e))
  BY <1>1, ApprovalAssumption, FS_Subset
<1>3. QED BY <1>2, FS_Subset, FS_CardinalityType

\* More votes do no harm.
LEMMA EnoughGrows ==
    ASSUME NEW p \in Policies, NEW V, NEW W, V \subseteq W, NEW x, NEW e,
           Enough(V, p, x, e)
    PROVE  Enough(W, p, x, e)
<1>1. Voters(V, p, x, e) \subseteq Voters(W, p, x, e)
  BY DEF Voters
<1>2. /\ Cardinality(Voters(V, p, x, e)) \in Nat
      /\ Cardinality(Voters(W, p, x, e)) \in Nat
      /\ Cardinality(Voters(V, p, x, e)) <= Cardinality(Voters(W, p, x, e))
  BY <1>1, VotersFinite
<1>3. p.threshold \in Nat
  BY ApprovalAssumption DEF Policy
<1>4. QED BY <1>1, <1>2, <1>3 DEF Enough

\* is_fulfilled counts users who may approve, each with a vote.
LEMMA FulfilledIsEnough ==
    ASSUME NEW p \in Policies, NEW V, NEW x, NEW e,
           NEW by \in SUBSET Voters(V, p, x, e), Fulfilled(by, p)
    PROVE  Enough(V, p, x, e)
<1>1. /\ Cardinality(by) \in Nat /\ Cardinality(Voters(V, p, x, e)) \in Nat
      /\ Cardinality(by) <= Cardinality(Voters(V, p, x, e))
  BY VotersFinite
<1>2. p.threshold \in Nat
  BY ApprovalAssumption DEF Policy
<1>3. \A r \in p.required : \E u \in Voters(V, p, x, e) : r \in p.holds[u]
  <2> TAKE r \in p.required
  <2>1. PICK u \in by : r \in p.holds[u]
    BY DEF Fulfilled
  <2>2. QED BY <2>1
<1>4. QED BY <1>1, <1>2, <1>3 DEF Fulfilled, Enough

\* The rules of epochs to come are not known.
BundleInv == \A e \in Epoch : e > epoch => bundle[e] = None

\* A vote under e by one who may approve under e.
Voted(x, u, e) ==
    /\ e \in 1 .. epoch
    /\ u \in Voters(votes, bundle[e], x, e)

Approved(i) == \E e \in Epoch : Quorum(i, e)

Grounded(i) ==
    \/ ground[i].by = "rule"
    \/ /\ ground[i].by = "draft"
       /\ ground[i].grant \in Grant
       /\ Quorum(ground[i].grant.id, ground[i].grant.epoch)
    \/ Approved(i)

KernelGrounds == \A i \in Request : kernel.state[i] = "allow" => Grounded(i)
LaneGrounds ==
    \A n \in 1 .. Len(lane) : lane[n].kind = "approve" => Grounded(lane[n].req)
WorkGrounds == worker.pc = "approve" => Grounded(worker.req)
ConnGrounds ==
    \A c \in Conn :
        /\ conn[c].pc \in {"entry", "cache", "reply"} => Approved(conn[c].req)
        /\ conn[c].pc \in {"take", "check", "insert"} =>
               Quorum(conn[c].draft.id, conn[c].draft.epoch)
ApprovedGrounds == \A g \in approved : Quorum(g.id, g.epoch)
DraftGrounds == \A d \in drafts : \A u \in d.by : Voted(d.id, u, d.epoch)
EntryGrounds ==
    \A i \in Request : pending[i] # None =>
        \A u \in pending[i].by : Voted(i, u, pending[i].epoch)

GInv ==
    /\ TInv
    /\ BundleInv
    /\ KernelGrounds
    /\ LaneGrounds
    /\ WorkGrounds
    /\ ConnGrounds
    /\ ApprovedGrounds
    /\ DraftGrounds
    /\ EntryGrounds

\* Votes are never taken back, and the rule of an epoch is never replaced.
Kept ==
    /\ votes \subseteq votes'
    /\ epoch' \in {epoch, epoch + 1}
    /\ \A e \in 1 .. epoch : bundle'[e] = bundle[e]

LEMMA KeptNext == TInv /\ BundleInv /\ [Next]_vars => Kept /\ BundleInv'
<1> SUFFICES ASSUME TInv, BundleInv, [Next]_vars PROVE Kept /\ BundleInv'
  OBVIOUS
<1>1. epoch \in Nat /\ epoch + 1 \in Nat
  BY DEF TInv, TypeOK, Epoch
<1>2. ASSUME votes \subseteq votes', UNCHANGED <<epoch, bundle>>
      PROVE  Kept /\ BundleInv'
  BY <1>2 DEF Kept, BundleInv
<1>3. CASE KernelStep \/ Sender
  BY <1>2, <1>3 DEF KernelStep, Ask, Expire, Sender, Answer, SendTicket,
     SyncEpoch, SwitchMode, policyVars, historyVars
<1>4. CASE WorkerStep
  BY <1>2, <1>4 DEF WorkerStep, Take, JudgeDeny, JudgeAllow, JudgePending,
     JudgeApproved, WorkerApproves, WorkerTicket, WorkerEnqueues, WorkerDenies,
     WorkOnly, policyVars
<1>5. ASSUME NEW c \in Conn, NewCommand(c) \/ Continue(c)
      PROVE  Kept /\ BundleInv'
  <2>1. UNCHANGED <<epoch, bundle>>
    BY <1>5, ConnAside DEF Aside, policyVars
  <2>2. votes \subseteq votes'
    BY <1>5 DEF NewCommand, AskTicket, ApproveDraft, DenyDraft, ApproveEntry,
       DenyEntry, Vote, Continue, MakeDraft, TakeDraft, CheckDraft,
       InsertApproved, TakeEntry, CacheEntry, ReplyEntry, ConnTicket,
       ConnEnqueues, DropDraft, DropEntry, ConnDenies
  <2>3. QED BY <1>2, <2>1, <2>2
<1>6. CASE CtlStep
  <2>1. votes' = votes
    BY <1>6 DEF CtlStep, CtlContinue, StartSwitches, StopSwitches, ShutGate,
       StartClears, StartDenies, StartEnds, StopClears, RequestSync,
       UpdateFails, Commit, CtlInvalidate, UpdateEnds, Preload, CtlOnly
  <2>2. CASE Commit
    <3>1. epoch' = epoch + 1 /\ bundle' = [bundle EXCEPT ![epoch'] = ctl.next]
      BY <2>2 DEF Commit
    <3>2. bundle \in [Epoch -> Policies \cup {None}]
      BY DEF TInv, TypeOK
    <3>3. \A e \in Epoch : e # epoch + 1 => bundle'[e] = bundle[e]
      BY <3>1, <3>2
    <3>4. 1 .. epoch \subseteq Epoch
      BY <1>1, ApprovalAssumption DEF TInv, TypeOK, Epoch
    <3>5. \A e \in Epoch : e > epoch + 1 => e > epoch /\ e # epoch + 1
      BY <1>1 DEF Epoch
    <3>6. \A e \in 1 .. epoch : e # epoch + 1
      BY <1>1
    <3>7. Kept
      BY <2>1, <3>1, <3>3, <3>4, <3>6 DEF Kept
    <3>8. BundleInv'
      BY <3>1, <3>3, <3>5 DEF BundleInv, Epoch
    <3>9. QED BY <3>7, <3>8
  <2>3. CASE ~Commit
    <3>1. UNCHANGED <<epoch, bundle>>
      BY <1>6, <2>3 DEF CtlStep, CtlContinue, StartSwitches, StopSwitches,
         ShutGate, StartClears, StartDenies, StartEnds, StopClears,
         RequestSync, UpdateFails, CtlInvalidate, UpdateEnds, Preload
    <3>2. QED BY <1>2, <2>1, <3>1
  <2>4. QED BY <2>2, <2>3
<1>7. CASE UNCHANGED vars
  BY <1>2, <1>7 DEF vars, policyVars, historyVars
<1>8. QED BY <1>3, <1>4, <1>5, <1>6, <1>7 DEF Next

LEMMA QuorumKept ==
    ASSUME TInv, BundleInv, Kept, NEW x, NEW e \in Epoch, Quorum(x, e)
    PROVE  Quorum(x, e)'
<1>1. bundle[e] # None /\ Enough(votes, bundle[e], x, e)
  BY QuorumIsEnough
<1>2. e \in 1 .. epoch
  BY <1>1 DEF BundleInv, TInv, TypeOK, Epoch
<1>3. bundle[e] \in Policies /\ bundle'[e] = bundle[e]
  BY <1>1, <1>2 DEF TInv, TypeOK, Kept
<1>4. Enough(votes', bundle[e], x, e)
  BY <1>1, <1>3, EnoughGrows DEF Kept
<1>5. bundle'[e] # None /\ Enough(votes', bundle'[e], x, e)
  BY <1>1, <1>3, <1>4
<1>6. QED BY <1>5, QuorumIsEnoughNext

LEMMA VotedKept ==
    ASSUME TInv, Kept, NEW x, NEW u, NEW e, Voted(x, u, e)
    PROVE  Voted(x, u, e)'
<1>1. e \in 1 .. epoch /\ u \in Voters(votes, bundle[e], x, e)
  BY DEF Voted
<1>2. bundle'[e] = bundle[e] /\ votes \subseteq votes'
  BY <1>1 DEF Kept
<1>3. e \in 1 .. epoch'
  BY <1>1 DEF Kept, TInv, TypeOK, Epoch
<1>4. u \in Voters(votes', bundle'[e], x, e)
  BY <1>1, <1>2 DEF Voters
<1>5. QED BY <1>3, <1>4 DEF Voted, Voters

LEMMA ApprovedKept ==
    ASSUME TInv, BundleInv, Kept, NEW i, Approved(i)
    PROVE  Approved(i)'
BY QuorumKept DEF Approved

\* What a request passed by changes when it is judged, and then to a rule or to
\* an approved draft.
LEMMA GroundMoves ==
    ASSUME TInv, [Next]_vars, NEW i \in Request
    PROVE  \/ ground'[i] = ground[i]
           \/ ground'[i].by = "rule"
           \/ /\ ground'[i].by = "draft"
              /\ ground'[i].grant \in approved \cap Grant
<1>1. CASE UNCHANGED ground
  BY <1>1
<1>2. CASE KernelStep \/ Sender \/ CtlStep \/ UNCHANGED vars
  BY <1>1, <1>2 DEF KernelStep, Ask, Expire, Sender, Answer, SendTicket,
     SyncEpoch, SwitchMode, historyVars, CtlStep, CtlContinue, StartSwitches,
     StopSwitches, ShutGate, StartClears, StartDenies, StartEnds, StopClears,
     RequestSync, UpdateFails, Commit, CtlInvalidate, UpdateEnds, Preload,
     CtlOnly, vars
<1>3. ASSUME NEW c \in Conn, NewCommand(c) \/ Continue(c)
      PROVE  UNCHANGED ground
  BY <1>3 DEF NewCommand, AskTicket, ApproveDraft, DenyDraft, ApproveEntry,
     DenyEntry, Continue, MakeDraft, TakeDraft, CheckDraft, InsertApproved,
     TakeEntry, CacheEntry, ReplyEntry, ConnTicket, ConnEnqueues, DropDraft,
     DropEntry, ConnDenies, ConnOnly
<1>4. CASE WorkerStep
  <2>1. ground \in [Request -> Ground]
    BY DEF TInv, TypeOK
  <2>2. CASE JudgeAllow
    <3>1. ground[i] \in Ground
      BY <2>1
    <3>2. \/ ground'[i] = ground[i]
          \/ ground'[i] = [ground[i] EXCEPT !.by = "rule"]
      BY <2>1, <2>2 DEF JudgeAllow
    <3>3. QED BY <3>1, <3>2 DEF Ground
  <2>3. ASSUME NEW g \in Grant, JudgeApproved(g)
        PROVE  \/ ground'[i] = ground[i]
               \/ ground'[i].by = "draft" /\ ground'[i].grant = g
    BY <2>1, <2>3 DEF JudgeApproved
  <2>4. \A g \in Grant : JudgeApproved(g) => g \in approved
    BY DEF JudgeApproved, Hydrate
  <2>5. QED BY <1>1, <1>4, <2>2, <2>3, <2>4 DEF WorkerStep, Take, JudgeDeny,
               JudgePending, WorkerApproves, WorkerTicket, WorkerEnqueues,
               WorkerDenies
<1>5. QED BY <1>1, <1>2, <1>3, <1>4 DEF Next

LEMMA GroundedKept ==
    ASSUME GInv, [Next]_vars, NEW i \in Request, Grounded(i)
    PROVE  Grounded(i)'
<1> USE DEF GInv
<1>1. Kept
  BY KeptNext
<1>2. \A g \in Grant : Quorum(g.id, g.epoch) => Quorum(g.id, g.epoch)'
  <2> TAKE g \in Grant
  <2>1. g.epoch \in Epoch
    BY DEF Grant
  <2>2. QED BY <1>1, <2>1, QuorumKept
<1>3. CASE Approved(i)
  BY <1>1, <1>3, ApprovedKept DEF Grounded
<1>4. CASE ground'[i].by = "rule"
  BY <1>4 DEF Grounded
<1>5. ASSUME NEW g \in Grant, Quorum(g.id, g.epoch),
             ground'[i].by = "draft", ground'[i].grant = g
      PROVE  Grounded(i)'
  <2>1. Quorum(g.id, g.epoch)'
    BY <1>2, <1>5
  <2>2. QED BY <1>5, <2>1 DEF Grounded
<1>6. CASE ground'[i].by = "draft" /\ ground'[i].grant \in approved \cap Grant
  BY <1>5, <1>6 DEF ApprovedGrounds
<1>7. CASE ground'[i] = ground[i]
  BY <1>3, <1>4, <1>5, <1>7 DEF Grounded
<1>8. QED BY <1>4, <1>6, <1>7, GroundMoves

\* Only the answer at the head of the queue allows a request.
LEMMA KernelGrounded == GInv /\ [Next]_vars => KernelGrounds'
<1> SUFFICES ASSUME GInv, [Next]_vars, NEW i \in Request,
                    kernel'.state[i] = "allow"
             PROVE  Grounded(i)'
  BY DEF KernelGrounds
<1> USE DEF GInv
<1>1. kernel \in Kernel /\ lane \in Seq(Message)
  BY DEF TInv, TypeOK, Kernel
<1>2. CASE kernel.state[i] = "allow"
  BY <1>2, GroundedKept DEF KernelGrounds
<1>3. CASE kernel'.state = kernel.state
  BY <1>2, <1>3
<1>4. CASE KernelStep
  BY <1>1, <1>2, <1>4 DEF KernelStep, Ask, Expire, Kernel
<1>5. ASSUME NEW j \in Request, NEW k \in {"approve", "deny"}, Answer(j, k)
      PROVE  Grounded(i)'
  <2>1. (i = j /\ k = "approve") \/ kernel.state[i] = "allow"
    BY <1>1, <1>5 DEF Answer, Kernel
  <2>2. CASE i = j /\ k = "approve"
    <3>1. Len(lane) \in Nat \ {0} /\ lane[1] = [kind |-> "approve", req |-> i]
      BY <1>1, <1>5, <2>2, DispatchTyped DEF Answer
    <3>2. 1 \in 1 .. Len(lane) /\ lane[1].kind = "approve" /\ lane[1].req = i
      BY <3>1
    <3>3. Grounded(i)
      BY <3>2 DEF LaneGrounds
    <3>4. QED BY <3>3, GroundedKept
  <2>3. QED BY <1>2, <2>1, <2>2
<1>6. ASSUME NEW e \in Epoch, SendTicket(e) \/ SyncEpoch(e)
      PROVE  Grounded(i)'
  <2>1. CASE SendTicket(e)
    BY <1>3, <2>1 DEF SendTicket, kernelVars
  <2>2. CASE SyncEpoch(e)
    <3>1. kernel'.state[i] =
              IF kernel.state[i] = "waiting" THEN "deny" ELSE kernel.state[i]
      BY <1>1, <2>2 DEF SyncEpoch, Kernel
    <3>2. QED BY <1>2, <3>1
  <2>3. QED BY <1>6, <2>1, <2>2
<1>7. ASSUME NEW on \in BOOLEAN, SwitchMode(on) PROVE Grounded(i)'
  BY <1>1, <1>2, <1>7 DEF SwitchMode, Kernel
<1>8. CASE WorkerStep \/ CtlStep \/ UNCHANGED vars
           \/ \E c \in Conn : NewCommand(c) \/ Continue(c)
  <2>1. CASE WorkerStep
    BY <1>3, <2>1 DEF WorkerStep, Take, JudgeDeny, JudgeAllow, JudgePending,
       JudgeApproved, WorkerApproves, WorkerTicket, WorkerEnqueues,
       WorkerDenies, WorkOnly, kernelVars
  <2>2. CASE CtlStep
    <3>1. CtlOnly
      BY <2>2 DEF CtlStep, CtlContinue, StartSwitches, StopSwitches, ShutGate,
         StartClears, StartDenies, StartEnds, StopClears, RequestSync,
         UpdateFails, Commit, CtlInvalidate, UpdateEnds, Preload
    <3>2. QED BY <1>3, <3>1 DEF CtlOnly, kernelVars
  <2>3. ASSUME NEW c \in Conn, NewCommand(c) \/ Continue(c) PROVE Grounded(i)'
    <3>1. ConnOnly
      BY <2>3 DEF NewCommand, AskTicket, ApproveDraft, DenyDraft, ApproveEntry,
         DenyEntry, Continue, MakeDraft, TakeDraft, CheckDraft, InsertApproved,
         TakeEntry, CacheEntry, ReplyEntry, ConnTicket, ConnEnqueues,
         DropDraft, DropEntry, ConnDenies
    <3>2. QED BY <1>3, <3>1 DEF ConnOnly, kernelVars
  <2>4. CASE UNCHANGED vars
    BY <1>3, <2>4 DEF vars, kernelVars
  <2>5. QED BY <1>8, <2>1, <2>2, <2>3, <2>4
<1>9. QED BY <1>4, <1>5, <1>6, <1>7, <1>8 DEF Next, Sender

\* What a step may put into the queue, or take from it.
Fed ==
    \/ lane' = lane
    \/ \E m \in Message : Dispatch(m)
    \/ \E m \in Message : m.kind # "approve" /\ Send(m)
    \/ \E i \in Request : Grounded(i) /\ Send(Approval(i))

LEMMA FedKeeps == GInv /\ [Next]_vars /\ Fed => LaneGrounds'
<1> SUFFICES ASSUME GInv, [Next]_vars, Fed PROVE LaneGrounds'
  OBVIOUS
<1>1. lane \in Seq(Message) /\ Len(lane) \in Nat
  BY DEF GInv, TInv, TypeOK
<1>2. \A n \in 1 .. Len(lane) : lane[n].kind = "approve" =>
          \E i \in Request : lane[n].req = i /\ Grounded(i)
  <2> TAKE n \in 1 .. Len(lane)
  <2>1. lane[n] \in Message
    BY <1>1
  <2>2. lane[n].kind = "approve" => lane[n].req \in Request
    BY <2>1 DEF Message
  <2>3. QED BY <2>2 DEF GInv, LaneGrounds
<1>3. \A n \in 1 .. Len(lane') : lane'[n].kind = "approve" =>
          \E i \in Request : lane'[n].req = i /\ Grounded(i)
  <2> TAKE n \in 1 .. Len(lane')
  <2>1. CASE \E m \in 1 .. Len(lane) : lane'[n] = lane[m]
    BY <1>2, <2>1
  <2>2. CASE lane' = lane
    BY <1>2, <2>2
  <2>3. CASE \E m \in Message : Dispatch(m)
    BY <1>1, <2>1, <2>3, DispatchTyped
  <2>4. CASE \E m \in Message : m.kind # "approve" /\ Send(m)
    <3>1. \/ n \in 1 .. Len(lane) /\ lane'[n] = lane[n]
          \/ lane'[n].kind # "approve"
      BY <1>1, <2>4, SendTyped
    <3>2. QED BY <2>1, <3>1
  <2>5. ASSUME NEW i \in Request, Grounded(i), Send(Approval(i))
        PROVE  lane'[n].kind = "approve" =>
                   \E j \in Request : lane'[n].req = j /\ Grounded(j)
    <3>1. Approval(i) \in Message
      BY MessageTyped
    <3>2. \/ n \in 1 .. Len(lane) /\ lane'[n] = lane[n]
          \/ lane'[n] = Approval(i)
      BY <1>1, <2>5, <3>1, SendTyped
    <3>3. QED BY <2>1, <2>5, <3>2 DEF Approval
  <2>6. QED BY <2>2, <2>3, <2>4, <2>5 DEF Fed
<1>4. \A i \in Request : Grounded(i) => Grounded(i)'
  BY GroundedKept
<1>5. QED BY <1>3, <1>4 DEF LaneGrounds

LEMMA AnswersFed ==
    /\ \A i \in Request : Denial(i) \in Message /\ Denial(i).kind # "approve"
    /\ \A e \in Epoch : /\ TicketOf(e) \in Message
                        /\ TicketOf(e).kind # "approve"
                        /\ Sync(e) \in Message /\ Sync(e).kind # "approve"
    /\ \A on \in BOOLEAN : /\ [kind |-> "mode", on |-> on] \in Message
                           /\ [kind |-> "mode", on |-> on].kind # "approve"
BY DEF Denial, TicketOf, Sync, Message

\* Whoever queues an approval has grounds for it.
LEMMA LaneGrounded == GInv /\ [Next]_vars => LaneGrounds'
<1> SUFFICES ASSUME GInv, [Next]_vars PROVE Fed
  BY FedKeeps
<1> USE DEF GInv
<1>1. /\ lane \in Seq(Message) /\ epoch \in Epoch /\ epoch \in Nat
      /\ MaxEpoch \in Nat
  BY ApprovalAssumption DEF TInv, TypeOK, Epoch
<1>2. CASE KernelStep \/ Sender
  <2>1. lane' = lane \/ \E m : Dispatch(m)
    BY <1>2 DEF KernelStep, Ask, Expire, Sender, Answer, SendTicket, SyncEpoch,
       SwitchMode
  <2>2. QED BY <1>1, <2>1, DispatchTyped DEF Fed
<1>3. CASE WorkerStep
  <2>1. worker.pc # "idle" => worker.req \in Request /\ worker.epoch \in Epoch
    BY <1>1 DEF TInv, WorkInv, Epoch
  <2>2. CASE WorkerApproves
    BY <2>1, <2>2 DEF WorkerApproves, WorkGrounds, Fed
  <2>3. CASE WorkerEnqueues \/ WorkerDenies
    BY <2>1, <2>3, AnswersFed DEF WorkerEnqueues, WorkerDenies, Fed
  <2>4. QED BY <1>3, <2>2, <2>3 DEF WorkerStep, Take, JudgeDeny, JudgeAllow,
               JudgePending, JudgeApproved, WorkerTicket, Fed
<1>4. ASSUME NEW c \in Conn, NewCommand(c) \/ Continue(c) PROVE Fed
  <2>1. /\ conn[c].pc \in {"reply", "deny"} => conn[c].req \in Request
        /\ conn[c].pc = "enqueue" => conn[c].epoch \in Epoch
    BY DEF TInv, ConnInv, Works
  <2>2. CASE ReplyEntry(c)
    <3>1. conn[c].pc = "reply"
      BY <2>2 DEF ReplyEntry, Goto
    <3>2. Grounded(conn[c].req)
      BY <3>1 DEF ConnGrounds, Grounded
    <3>3. QED BY <2>1, <2>2, <3>1, <3>2 DEF ReplyEntry, Fed
  <2>3. CASE ConnEnqueues(c) \/ ConnDenies(c)
    BY <2>1, <2>3, AnswersFed DEF ConnEnqueues, ConnDenies, Goto, Fed
  <2>4. QED BY <1>4, <2>2, <2>3 DEF NewCommand, AskTicket, ApproveDraft,
               DenyDraft, ApproveEntry, DenyEntry, Continue, MakeDraft,
               TakeDraft, CheckDraft, InsertApproved, TakeEntry, CacheEntry,
               ConnTicket, DropDraft, DropEntry, Fed
<1>5. CASE CtlStep
  <2>1. CASE RequestSync
    <3>1. epoch + 1 \in Epoch
      BY <1>1, <2>1 DEF RequestSync, CtlGoto, TInv, CtlInv, Epoch
    <3>2. Send(Sync(epoch + 1))
      BY <2>1 DEF RequestSync, Sync
    <3>3. QED BY <3>1, <3>2, AnswersFed DEF Fed
  <2>2. CASE ~RequestSync
    BY <1>1, <1>5, <2>2, AnswersFed DEF CtlStep, CtlContinue, StartSwitches,
       StopSwitches, ShutGate, StartClears, StartDenies, StartEnds, StopClears,
       UpdateFails, Commit, CtlInvalidate, UpdateEnds, Preload, Fed
  <2>3. QED BY <2>1, <2>2
<1>6. CASE UNCHANGED vars
  BY <1>6 DEF vars, Fed
<1>7. QED BY <1>2, <1>3, <1>4, <1>5, <1>6 DEF Next

\* The worker approves by a rule or by an approved draft.
LEMMA WorkGrounded == GInv /\ [Next]_vars => WorkGrounds'
<1> SUFFICES ASSUME GInv, [Next]_vars, worker'.pc = "approve"
             PROVE  \E i \in Request : worker'.req = i /\ Grounded(i)'
  BY DEF WorkGrounds
<1> USE DEF GInv
<1>1. worker.pc # "idle" => worker.req \in Request
  BY DEF TInv, WorkInv
<1>2. CASE worker' = worker
  BY <1>1, <1>2, GroundedKept DEF WorkGrounds
<1>3. CASE WorkerStep
  <2>1. worker \in Worker /\ ground \in [Request -> Ground]
    BY DEF TInv, TypeOK
  <2>2. CASE JudgeAllow
    <3>1. /\ worker.req \in Request /\ worker'.req = worker.req
          /\ ground' = [ground EXCEPT ![worker.req].by = "rule"]
      BY <1>1, <2>1, <2>2 DEF JudgeAllow, Judge, Worker
    <3>2. PICK i \in Request : i = worker.req
      BY <3>1
    <3>3. ground'[i].by = "rule"
      BY <2>1, <3>1, <3>2 DEF Ground
    <3>4. Grounded(i)'
      BY <3>3 DEF Grounded
    <3>5. QED BY <3>1, <3>2, <3>4
  <2>3. ASSUME NEW g \in Grant, JudgeApproved(g)
        PROVE  \E i \in Request : worker'.req = i /\ Grounded(i)'
    <3>1. PICK i \in Request : i = worker.req /\ i = worker'.req
      BY <1>1, <2>1, <2>3 DEF JudgeApproved, Judge, Worker
    <3>2. ground'[i].by = "draft" /\ ground'[i].grant = g
      BY <2>1, <2>3, <3>1 DEF JudgeApproved
    <3>3. Quorum(g.id, g.epoch) /\ g.epoch \in Epoch
      BY <2>3 DEF JudgeApproved, Hydrate, ApprovedGrounds, Grant
    <3>4. Quorum(g.id, g.epoch)'
      BY <3>3, KeptNext, QuorumKept
    <3>5. QED BY <3>1, <3>2, <3>4 DEF Grounded
  <2>4. CASE Take \/ JudgePending \/ WorkerEnqueues \/ WorkerDenies
    <3>1. \/ worker' = [NoWork EXCEPT !.pc = "judge", !.req = Head(inbox),
                                     !.epoch = epoch]
          \/ worker' = NoWork
      BY <2>4 DEF Take, JudgePending, WorkerEnqueues, WorkerDenies
    <3>2. CASE worker' = NoWork
      BY <3>2 DEF NoWork
    <3>3. CASE worker' = [NoWork EXCEPT !.pc = "judge", !.req = Head(inbox),
                                        !.epoch = epoch]
      BY <3>3 DEF NoWork
    <3>4. QED BY <3>1, <3>2, <3>3
  <2>5. CASE JudgeDeny \/ WorkerApproves \/ WorkerTicket
    BY <2>1, <2>5 DEF JudgeDeny, WorkerApproves, WorkerTicket, NoWork, Worker
  <2>6. QED BY <1>3, <2>2, <2>3, <2>4, <2>5 DEF WorkerStep
<1>4. CASE KernelStep \/ Sender \/ CtlStep \/ UNCHANGED vars
           \/ \E c \in Conn : NewCommand(c) \/ Continue(c)
  <2>1. worker' = worker
    BY <1>4 DEF KernelStep, Ask, Expire, Sender, Answer, SendTicket, SyncEpoch,
       SwitchMode, CtlStep, CtlContinue, StartSwitches, StopSwitches, ShutGate,
       StartClears, StartDenies, StartEnds, StopClears, RequestSync,
       UpdateFails, Commit, CtlInvalidate, UpdateEnds, Preload, CtlOnly,
       NewCommand, AskTicket, ApproveDraft, DenyDraft, ApproveEntry, DenyEntry,
       Continue, MakeDraft, TakeDraft, CheckDraft, InsertApproved, TakeEntry,
       CacheEntry, ReplyEntry, ConnTicket, ConnEnqueues, DropDraft, DropEntry,
       ConnDenies, ConnOnly, vars
  <2>2. QED BY <1>2, <2>1
<1>5. QED BY <1>3, <1>4 DEF Next

LEMMA GrantsKept ==
    ASSUME GInv, [Next]_vars, NEW g \in Grant, Quorum(g.id, g.epoch)
    PROVE  Quorum(g.id, g.epoch)'
<1>1. g.epoch \in Epoch
  BY DEF Grant
<1>2. QED BY <1>1, KeptNext, QuorumKept DEF GInv

\* A draft is inserted into the approved ones with the quorum it came with.
LEMMA ApprovedGrounded == GInv /\ [Next]_vars => ApprovedGrounds'
<1> SUFFICES ASSUME GInv, [Next]_vars, NEW g \in approved'
             PROVE  g \in Grant /\ Quorum(g.id, g.epoch)
  BY GrantsKept DEF ApprovedGrounds
<1> USE DEF GInv
<1>1. CASE approved' \subseteq approved
  BY <1>1 DEF ApprovedGrounds, TInv, TypeOK
<1>2. CASE KernelStep \/ Sender \/ WorkerStep \/ CtlStep \/ UNCHANGED vars
  <2>1. approved' \subseteq approved
    BY <1>2 DEF KernelStep, Ask, Expire, Sender, Answer, SendTicket, SyncEpoch,
       SwitchMode, WorkerStep, Take, JudgeDeny, JudgeAllow, JudgePending,
       JudgeApproved, Hydrate, WorkerApproves, WorkerTicket, WorkerEnqueues,
       WorkerDenies, CtlStep, CtlContinue, StartSwitches, StopSwitches,
       ShutGate, StartClears, StartDenies, StartEnds, StopClears, RequestSync,
       UpdateFails, Commit, CtlInvalidate, Invalidate, UpdateEnds, Preload,
       stateVars, vars
  <2>2. QED BY <1>1, <2>1
<1>3. ASSUME NEW c \in Conn, InsertApproved(c)
      PROVE  g \in Grant /\ Quorum(g.id, g.epoch)
  <2>1. conn[c].pc = "insert" /\ approved' = approved \cup {conn[c].draft}
    BY <1>3 DEF InsertApproved, Goto
  <2>2. conn[c].draft \in Grant
    BY <2>1 DEF TInv, ConnInv, Works
  <2>3. QED BY <2>1, <2>2 DEF ConnGrounds, ApprovedGrounds, TInv, TypeOK
<1>4. ASSUME NEW c \in Conn, NewCommand(c) \/ Continue(c), ~InsertApproved(c)
      PROVE  approved' \subseteq approved
  BY <1>4 DEF NewCommand, AskTicket, ApproveDraft, DenyDraft, ApproveEntry,
     DenyEntry, Continue, MakeDraft, TakeDraft, CheckDraft, TakeEntry,
     CacheEntry, ReplyEntry, ConnTicket, ConnEnqueues, DropDraft, DropEntry,
     ConnDenies, stateVars
<1>5. QED BY <1>1, <1>2, <1>3, <1>4 DEF Next

\* process_approve_draft and process_approve_entry record a vote only of one
\* who may approve.
LEMMA NewVote ==
    ASSUME TInv, NEW x, NEW u \in User, MayApprove(u), Vote(x, u),
           UNCHANGED <<epoch, bundle>>, NEW e, e = epoch
    PROVE  Voted(x, u, e)'
<1>1. e \in 1 .. epoch'
  BY DEF TInv, TypeOK, Epoch
<1>2. u \in Voters(votes', bundle'[e], x, e)
  BY DEF MayApprove, Vote, Voters
<1>3. QED BY <1>1, <1>2 DEF Voted, Voters

\* Those counted for a draft or an entry have voted for it.
LEMMA EnoughVoted ==
    ASSUME TInv, UNCHANGED <<epoch, bundle>>, NEW e, e = epoch, NEW x,
           NEW by, \A v \in by : Voted(x, v, e)', Fulfilled(by, bundle[e])
    PROVE  Quorum(x, e)'
<1>1. e \in 1 .. epoch /\ bundle[e] \in Policies /\ bundle[e] # None
  BY ApprovalAssumption DEF TInv, TypeOK, Epoch
<1>2. by \subseteq Voters(votes', bundle[e], x, e)
  BY DEF Voted, Voters
<1>3. Enough(votes', bundle[e], x, e)
  BY <1>1, <1>2, FulfilledIsEnough
<1>4. bundle'[e] # None /\ Enough(votes', bundle'[e], x, e)
  BY <1>1, <1>3
<1>5. QED BY <1>4, QuorumIsEnoughNext

LEMMA DraftVoted ==
    ASSUME GInv, [Next]_vars, NEW c \in Conn, NEW u \in User, NEW d \in drafts,
           ApproveDraft(c, u, d)
    PROVE  \A v \in d.by \cup {u} : Voted(d.id, v, d.epoch)'
<1>1. /\ d.epoch = epoch /\ MayApprove(u) /\ Vote(d.id, u)
      /\ UNCHANGED <<epoch, bundle>>
  BY DEF ApproveDraft, ConnOnly, policyVars
<1>2. TInv /\ Kept
  BY KeptNext DEF GInv
<1>3. Voted(d.id, u, d.epoch)'
  BY <1>1, <1>2, NewVote
<1>4. \A v \in d.by : Voted(d.id, v, d.epoch)
  BY DEF GInv, DraftGrounds
<1>5. \A v \in d.by : Voted(d.id, v, d.epoch)'
  BY <1>2, <1>4, VotedKept
<1>6. QED BY <1>3, <1>5

LEMMA EntryVoted ==
    ASSUME GInv, [Next]_vars, NEW c \in Conn, NEW u \in User, NEW i \in Request,
           ApproveEntry(c, u, i), NEW e, e = epoch
    PROVE  \A v \in pending[i].by \cup {u} : Voted(i, v, e)'
<1>1. /\ pending[i] # None /\ pending[i].epoch = e
      /\ MayApprove(u) /\ Vote(i, u) /\ UNCHANGED <<epoch, bundle>>
  BY DEF ApproveEntry, ConnOnly, policyVars
<1>2. TInv /\ Kept
  BY KeptNext DEF GInv
<1>3. Voted(i, u, e)'
  BY <1>1, <1>2, NewVote
<1>4. \A v \in pending[i].by : Voted(i, v, e)
  BY <1>1 DEF GInv, EntryGrounds
<1>5. \A v \in pending[i].by : Voted(i, v, e)'
  BY <1>2, <1>4, VotedKept
<1>6. QED BY <1>3, <1>5

LEMMA DraftGrounded == GInv /\ [Next]_vars => DraftGrounds'
<1> SUFFICES ASSUME GInv, [Next]_vars, NEW n \in drafts', NEW v \in n.by
             PROVE  Voted(n.id, v, n.epoch)'
  BY DEF DraftGrounds
<1>1. CASE n \in drafts
  BY <1>1, KeptNext, VotedKept DEF GInv, DraftGrounds
<1>2. CASE KernelStep \/ Sender \/ WorkerStep \/ CtlStep \/ UNCHANGED vars
  <2>1. drafts' \subseteq drafts
    BY <1>2 DEF KernelStep, Ask, Expire, Sender, Answer, SendTicket, SyncEpoch,
       SwitchMode, WorkerStep, Take, JudgeDeny, JudgeAllow, JudgePending,
       JudgeApproved, WorkerApproves, WorkerTicket, WorkerEnqueues,
       WorkerDenies, CtlStep, CtlContinue, StartSwitches, StopSwitches,
       ShutGate, StartClears, StartDenies, StartEnds, StopClears, RequestSync,
       UpdateFails, Commit, CtlInvalidate, Invalidate, ClearEphemeral,
       UpdateEnds, Preload, stateVars, vars
  <2>2. QED BY <1>1, <2>1
<1>3. ASSUME NEW c \in Conn, NEW u \in User, NEW d \in drafts,
             ApproveDraft(c, u, d)
      PROVE  Voted(n.id, v, n.epoch)'
  <2> DEFINE w == [d EXCEPT !.by = d.by \cup {u}]
  <2>1. drafts' = (drafts \ {d}) \cup {w}
    BY <1>3 DEF ApproveDraft
  <2>2. w.id = d.id /\ w.epoch = d.epoch /\ w.by = d.by \cup {u}
    BY DraftTyped DEF GInv, TInv
  <2>3. CASE n = w
    BY <1>3, <2>2, <2>3, DraftVoted
  <2>4. QED BY <1>1, <2>1, <2>3
<1>4. ASSUME NEW c \in Conn, MakeDraft(c) PROVE Voted(n.id, v, n.epoch)'
  <2>1. n \in drafts \/ n.by = {}
    BY <1>4 DEF MakeDraft
  <2>2. QED BY <1>1, <2>1
<1>5. ASSUME NEW c \in Conn, Continue(c), ~MakeDraft(c)
      PROVE  drafts' \subseteq drafts
  BY <1>5 DEF Continue, TakeDraft, CheckDraft, InsertApproved, TakeEntry,
     CacheEntry, ReplyEntry, ConnTicket, ConnEnqueues, DropDraft, DropEntry,
     ConnDenies, Without, stateVars
<1>6. ASSUME NEW c \in Conn, NewCommand(c),
             \A u \in User : \A d \in drafts : ~ApproveDraft(c, u, d)
      PROVE  drafts' \subseteq drafts
  BY <1>6 DEF NewCommand, AskTicket, DenyDraft, ApproveEntry, DenyEntry,
     stateVars
<1>7. QED BY <1>1, <1>2, <1>3, <1>4, <1>5, <1>6 DEF Next

LEMMA EntryGrounded == GInv /\ [Next]_vars => EntryGrounds'
<1> SUFFICES ASSUME GInv, [Next]_vars, NEW i \in Request, pending'[i] # None,
                    NEW p, p = pending'[i], NEW v \in p.by
             PROVE  Voted(i, v, p.epoch)'
  BY DEF EntryGrounds
<1> USE DEF GInv
<1>1. pending \in [Request -> [epoch : Epoch, by : SUBSET User] \cup {None}]
  BY DEF TInv, TypeOK
<1>2. CASE p = pending[i]
  BY <1>2, KeptNext, VotedKept DEF EntryGrounds
<1>3. CASE KernelStep \/ Sender \/ CtlStep \/ UNCHANGED vars
  <2>1. pending'[i] = pending[i]
    BY <1>3 DEF KernelStep, Ask, Expire, Sender, Answer, SendTicket, SyncEpoch,
       SwitchMode, CtlStep, CtlContinue, StartSwitches, StopSwitches, ShutGate,
       StartClears, StartDenies, StartEnds, StopClears, RequestSync,
       UpdateFails, Commit, CtlInvalidate, Invalidate, ClearEphemeral,
       UpdateEnds, Preload, stateVars, vars
  <2>2. QED BY <1>2, <2>1
<1>4. CASE WorkerStep
  <2>1. CASE JudgePending
    <3>1. pending'[i] = pending[i] \/ pending'[i].by = {}
      BY <1>1, <2>1 DEF JudgePending
    <3>2. QED BY <1>2, <3>1
  <2>2. CASE ~JudgePending
    BY <1>2, <1>4, <2>2 DEF WorkerStep, Take, JudgeDeny, JudgeAllow,
       JudgeApproved, WorkerApproves, WorkerTicket, WorkerEnqueues,
       WorkerDenies, stateVars
  <2>3. QED BY <2>1, <2>2
<1>5. ASSUME NEW c \in Conn, NEW u \in User, NEW j \in Request,
             ApproveEntry(c, u, j)
      PROVE  Voted(i, v, p.epoch)'
  <2> DEFINE w == [pending[j] EXCEPT !.by = pending[j].by \cup {u}]
  <2>1. /\ pending' = [pending EXCEPT ![j] = w]
        /\ pending[j] # None /\ pending[j].epoch = epoch
    BY <1>5 DEF ApproveEntry
  <2>2. w.epoch = epoch /\ w.by = pending[j].by \cup {u}
    BY <1>1, <2>1
  <2>3. CASE i = j
    <3>1. p.epoch = epoch /\ p.by = pending[j].by \cup {u}
      BY <1>1, <2>1, <2>2, <2>3
    <3>2. QED BY <1>5, <2>3, <3>1, EntryVoted
  <2>4. CASE i # j
    BY <1>1, <1>2, <2>1, <2>4
  <2>5. QED BY <2>3, <2>4
<1>6. ASSUME NEW c \in Conn, TakeEntry(c) \/ DropEntry(c)
      PROVE  pending'[i] = pending[i]
  BY <1>1, <1>6 DEF TakeEntry, DropEntry
<1>7. ASSUME NEW c \in Conn, Continue(c), ~TakeEntry(c), ~DropEntry(c)
      PROVE  pending' = pending
  BY <1>7 DEF Continue, MakeDraft, TakeDraft, CheckDraft, InsertApproved,
     CacheEntry, ReplyEntry, ConnTicket, ConnEnqueues, DropDraft, ConnDenies,
     stateVars
<1>8. ASSUME NEW c \in Conn, NewCommand(c),
             \A u \in User : \A j \in Request : ~ApproveEntry(c, u, j)
      PROVE  pending' = pending
  BY <1>8 DEF NewCommand, AskTicket, ApproveDraft, DenyDraft, DenyEntry,
     stateVars
<1>9. QED BY <1>2, <1>3, <1>4, <1>5, <1>6, <1>7, <1>8 DEF Next

\* A command that goes on with an approval goes on with its request or draft.
Goes(c) ==
    /\ conn'[c].pc \in {"entry", "cache", "reply"} =>
           conn[c].pc \in {"entry", "cache", "reply"}
           /\ conn'[c].req = conn[c].req
    /\ conn'[c].pc \in {"take", "check", "insert"} =>
           conn[c].pc \in {"take", "check", "insert"}
           /\ conn'[c].draft = conn[c].draft

LEMMA ContinueGoes ==
    ASSUME TInv, NEW c \in Conn, Continue(c)
    PROVE  Goes(c)
<1> USE DEF TInv
<1>1. conn \in [Conn -> Command] /\ conn[c] \in Command
  BY DEF TypeOK
<1>2. ASSUME NEW from, Goto(c, from, "idle") PROVE Goes(c)
  <2>1. conn'[c] = NoCommand
    BY <1>1, <1>2 DEF Goto
  <2>2. QED BY <2>1 DEF NoCommand, Goes
<1>3. ASSUME NEW from, NEW to \in {"check", "insert", "ticket", "enqueue",
                                   "deny"},
             Goto(c, from, to), to = "check" => from = "take",
             to = "insert" => from = "check"
      PROVE  Goes(c)
  <2>1. conn[c].pc = from /\ conn'[c] = [conn[c] EXCEPT !.pc = to]
    BY <1>1, <1>3 DEF Goto
  <2>2. conn'[c].pc = to /\ conn'[c].draft = conn[c].draft
    BY <1>1, <2>1 DEF Command
  <2>3. QED BY <1>3, <2>1, <2>2 DEF Goes
<1>4. CASE MakeDraft(c) \/ InsertApproved(c) \/ ConnEnqueues(c) \/ DropDraft(c)
           \/ ConnDenies(c)
  <2>1. \E from : Goto(c, from, "idle")
    BY <1>4 DEF MakeDraft, InsertApproved, ConnEnqueues, DropDraft, ConnDenies
  <2>2. QED BY <1>2, <2>1
<1>5. CASE TakeDraft(c)
  <2>1. Goto(c, "take", "check") \/ Goto(c, "take", "idle")
    BY <1>5 DEF TakeDraft
  <2>2. QED BY <1>2, <1>3, <2>1
<1>6. CASE CheckDraft(c)
  <2>1. Goto(c, "check", "insert") \/ Goto(c, "check", "idle")
    BY <1>6 DEF CheckDraft
  <2>2. QED BY <1>2, <1>3, <2>1
<1>7. CASE ReplyEntry(c)
  <2>1. Goto(c, "reply", "ticket") \/ Goto(c, "reply", "idle")
    BY <1>7 DEF ReplyEntry
  <2>2. QED BY <1>2, <1>3, <2>1
<1>8. CASE ConnTicket(c)
  <2>1. Goto(c, "ticket", "enqueue") \/ Goto(c, "ticket", "idle")
    BY <1>8 DEF ConnTicket
  <2>2. QED BY <1>2, <1>3, <2>1
<1>9. CASE DropEntry(c)
  <2>1. Goto(c, "denyEntry", "deny") \/ Goto(c, "denyEntry", "idle")
    BY <1>9 DEF DropEntry
  <2>2. QED BY <1>2, <1>3, <2>1
<1>10. CASE TakeEntry(c) \/ CacheEntry(c)
  <2>1. conn[c].pc \in {"entry", "cache"}
    BY <1>10 DEF TakeEntry, CacheEntry
  <2>2. conn'[c].pc \in {"cache", "reply"} /\ conn'[c].req = conn[c].req
    <3>1. CASE TakeEntry(c)
      BY <1>1, <3>1 DEF TakeEntry, Command
    <3>2. CASE CacheEntry(c)
      BY <1>1, <3>2 DEF CacheEntry, Command
    <3>3. QED BY <1>10, <3>1, <3>2
  <2>3. QED BY <2>1, <2>2 DEF Goes
<1>11. QED BY <1>4, <1>5, <1>6, <1>7, <1>8, <1>9, <1>10 DEF Continue

\* A connection is grounded after a step.
Settled(c) ==
    /\ conn'[c].pc \in {"entry", "cache", "reply"} =>
           \E i \in Request : conn'[c].req = i /\ Approved(i)'
    /\ conn'[c].pc \in {"take", "check", "insert"} =>
           \E g \in Grant : conn'[c].draft = g /\ Quorum(g.id, g.epoch)'

LEMMA GoesSettles ==
    ASSUME GInv, [Next]_vars, NEW c \in Conn, Goes(c)
    PROVE  Settled(c)
<1>1. /\ conn[c].pc \in {"entry", "cache", "reply"} =>
             conn[c].req \in Request /\ Approved(conn[c].req)
      /\ conn[c].pc \in {"take", "check", "insert"} =>
             /\ conn[c].draft \in Grant
             /\ Quorum(conn[c].draft.id, conn[c].draft.epoch)
  BY DEF GInv, TInv, ConnInv, Works, ConnGrounds
<1>2. \A i \in Request : Approved(i) => Approved(i)'
  BY KeptNext, ApprovedKept DEF GInv
<1>3. \A g \in Grant : Quorum(g.id, g.epoch) => Quorum(g.id, g.epoch)'
  BY GrantsKept
<1>4. QED BY <1>1, <1>2, <1>3 DEF Goes, Settled

\* A command that starts with an approval has the quorum it counted.
LEMMA NewCommandSettles ==
    ASSUME GInv, [Next]_vars, NEW c \in Conn, NewCommand(c)
    PROVE  Settled(c)
<1> USE DEF GInv
<1>1. TypeOK /\ epoch \in Epoch
  BY DEF TInv, TypeOK
<1>2. CASE conn'[c].pc \in {"idle", "draft", "denyDraft", "denyEntry"}
  BY <1>2 DEF Settled
<1>3. ASSUME NEW cmd, Begin(c, cmd),
             cmd.pc \in {"idle", "draft", "denyDraft", "denyEntry"}
      PROVE  Settled(c)
  BY <1>1, <1>2, <1>3, BeginKeeps
<1>4. CASE AskTicket(c)
  <2>1. Begin(c, [NoCommand EXCEPT !.pc = "draft", !.epoch = epoch])
    BY <1>4 DEF AskTicket
  <2>2. QED BY <1>3, <2>1 DEF NoCommand
<1>5. ASSUME NEW u \in User, NEW d \in drafts, DenyDraft(c, u, d)
      PROVE  Settled(c)
  <2> DEFINE cmd == [NoCommand EXCEPT !.pc = "denyDraft", !.draft =
                         [id |-> d.id, epoch |-> d.epoch, start |-> d.start]]
  <2>1. Begin(c, cmd)
    BY <1>5 DEF DenyDraft
  <2>2. cmd.pc = "denyDraft"
    BY DEF NoCommand
  <2> HIDE DEF cmd
  <2>3. QED BY <1>3, <2>1, <2>2
<1>6. ASSUME NEW u \in User, NEW i \in Request, DenyEntry(c, u, i)
      PROVE  Settled(c)
  <2> DEFINE cmd == [NoCommand EXCEPT !.pc = "denyEntry", !.req = i]
  <2>1. Begin(c, cmd)
    BY <1>6 DEF DenyEntry
  <2>2. cmd.pc = "denyEntry"
    BY DEF NoCommand
  <2> HIDE DEF cmd
  <2>3. QED BY <1>3, <2>1, <2>2
<1>7. NoCommand.pc = "idle"
  BY DEF NoCommand
<1>8. ASSUME NEW u \in User, NEW d \in drafts, ApproveDraft(c, u, d)
      PROVE  Settled(c)
  <2> DEFINE by == d.by \cup {u}
             g == [id |-> d.id, epoch |-> d.epoch, start |-> d.start]
             cmd == [NoCommand EXCEPT !.pc = "take", !.draft = g]
  <2>1. g \in Grant /\ g.id = d.id /\ g.epoch = d.epoch /\ d.epoch = epoch
    BY <1>1, <1>8, DraftTyped DEF ApproveDraft
  <2>2. Begin(c, IF Fulfilled(by, bundle[epoch]) THEN cmd ELSE NoCommand)
    BY <1>8 DEF ApproveDraft
  <2>3. cmd.pc = "take" /\ cmd.draft = g
    BY DEF NoCommand
  <2> HIDE DEF cmd
  <2>4. CASE Fulfilled(by, bundle[epoch])
    <3>1. \A v \in by : Voted(d.id, v, d.epoch)'
      BY <1>8, DraftVoted
    <3>2. UNCHANGED <<epoch, bundle>>
      BY <1>8 DEF ApproveDraft, ConnOnly, policyVars
    <3>3. Quorum(d.id, d.epoch)'
      BY <2>1, <2>4, <3>1, <3>2, EnoughVoted
    <3>4. conn'[c] = cmd
      BY <1>1, <2>2, <2>4, BeginKeeps
    <3>5. QED BY <2>1, <2>3, <3>3, <3>4 DEF Settled
  <2>5. CASE ~Fulfilled(by, bundle[epoch])
    BY <1>3, <1>7, <2>2, <2>5
  <2>6. QED BY <2>4, <2>5
<1>9. ASSUME NEW u \in User, NEW i \in Request, ApproveEntry(c, u, i)
      PROVE  Settled(c)
  <2> DEFINE by == pending[i].by \cup {u}
             cmd == [NoCommand EXCEPT !.pc = "entry", !.req = i]
  <2>1. Begin(c, IF Fulfilled(by, bundle[epoch]) THEN cmd ELSE NoCommand)
    BY <1>9 DEF ApproveEntry
  <2>2. cmd.pc = "entry" /\ cmd.req = i
    BY DEF NoCommand
  <2> HIDE DEF cmd
  <2>3. CASE Fulfilled(by, bundle[epoch])
    <3>1. PICK e \in Epoch : e = epoch
      BY <1>1
    <3>2. \A v \in by : Voted(i, v, e)'
      BY <1>9, <3>1, EntryVoted
    <3>3. UNCHANGED <<epoch, bundle>>
      BY <1>9 DEF ApproveEntry, ConnOnly, policyVars
    <3>4. Quorum(i, e)'
      BY <2>3, <3>1, <3>2, <3>3, EnoughVoted
    <3>5. Approved(i)'
      BY <3>4 DEF Approved
    <3>6. conn'[c] = cmd
      BY <1>1, <2>1, <2>3, BeginKeeps
    <3>7. QED BY <2>2, <3>5, <3>6 DEF Settled
  <2>4. CASE ~Fulfilled(by, bundle[epoch])
    BY <1>3, <1>7, <2>1, <2>4
  <2>5. QED BY <2>3, <2>4
<1>10. QED BY <1>4, <1>5, <1>6, <1>8, <1>9 DEF NewCommand

LEMMA ConnGrounded == GInv /\ [Next]_vars => ConnGrounds'
<1> SUFFICES ASSUME GInv, [Next]_vars, NEW c \in Conn PROVE Settled(c)
  BY DEF ConnGrounds, Settled
<1> USE DEF GInv
<1>1. CASE conn'[c] = conn[c]
  <2>1. Goes(c)
    BY <1>1 DEF Goes
  <2>2. QED BY <2>1, GoesSettles
<1>2. ASSUME NEW b \in Conn, NewCommand(b) \/ Continue(b) PROVE Settled(c)
  <2>1. CASE b # c
    BY <1>1, <1>2, <2>1, NewCommandWorks, ContinueWorks
  <2>2. CASE b = c
    BY <1>2, <2>2, NewCommandSettles, ContinueGoes, GoesSettles
  <2>3. QED BY <2>1, <2>2
<1>3. CASE KernelStep \/ Sender \/ WorkerStep \/ CtlStep \/ UNCHANGED vars
  <2>1. conn' = conn
    BY <1>3 DEF KernelStep, Ask, Expire, Sender, Answer, SendTicket, SyncEpoch,
       SwitchMode, WorkerStep, Take, JudgeDeny, JudgeAllow, JudgePending,
       JudgeApproved, WorkerApproves, WorkerTicket, WorkerEnqueues,
       WorkerDenies, WorkOnly, CtlStep, CtlContinue, StartSwitches,
       StopSwitches, ShutGate, StartClears, StartDenies, StartEnds, StopClears,
       RequestSync, UpdateFails, Commit, CtlInvalidate, UpdateEnds, Preload,
       CtlOnly, vars
  <2>2. QED BY <1>1, <2>1
<1>4. QED BY <1>2, <1>3 DEF Next

LEMMA GInvInit == Init => GInv
<1> SUFFICES ASSUME Init PROVE GInv
  OBVIOUS
<1>1. TInv
  BY InitHolds
<1>2. BundleInv
  BY ApprovalAssumption DEF Init, BundleInv, Epoch
<1>3. KernelGrounds /\ LaneGrounds /\ ApprovedGrounds /\ DraftGrounds
      /\ EntryGrounds
  BY DEF Init, KernelGrounds, LaneGrounds, ApprovedGrounds, DraftGrounds,
     EntryGrounds
<1>4. WorkGrounds /\ ConnGrounds
  BY DEF Init, NoWork, NoCommand, WorkGrounds, ConnGrounds
<1>5. QED BY <1>1, <1>2, <1>3, <1>4 DEF GInv

LEMMA GroundsInvariance == Spec => []GInv
<1>1. TInv /\ [Next]_vars => TInv'
  BY NextTyped, WorkHolds, ConnHolds, CtlInvHolds DEF TInv
<1>2. GInv /\ [Next]_vars => GInv'
  BY <1>1, KeptNext, KernelGrounded, LaneGrounded, WorkGrounded, ConnGrounded,
     ApprovedGrounded, DraftGrounded, EntryGrounded DEF GInv
<1>3. QED BY GInvInit, <1>2, PTL DEF Spec

\* The daemon lets no operation through without a rule that allows it, an
\* approved draft or an approval of its own: is_fulfilled counted users who had
\* voted under the policy in force, and nothing that was denied, dropped or
\* replaced meanwhile takes the place of what they approved.
THEOREM AllowedGrounded == Spec => []AllowedOnGrounds
<1>1. GInv => AllowedOnGrounds
  BY DEF GInv, KernelGrounds, Grounded, Approved, AllowedOnGrounds
<1>2. QED BY <1>1, GroundsInvariance, PTL

-----------------------------------------------------------------------------
(* A draft serves once. *)

\* Where the draft numbered x is: among the drafts, taken off them by a
\* connection, among the approved ones, or used up for a request.
Open(x) == \E d \in drafts : d.id = x
Taken(c, x) == conn[c].pc \in {"check", "insert"} /\ conn[c].draft.id = x
Ready(x) == \E g \in approved : g.id = x
Used(i, x) == ground[i].by = "draft" /\ ground[i].grant.id = x

\* It is in one of these places at a time, and numbers are not used again.
Once(x) ==
    /\ Open(x) => x <= drafted /\ ~Ready(x)
    /\ Ready(x) => x <= drafted
    /\ \A c \in Conn : Taken(c, x) =>
           /\ x <= drafted /\ ~Open(x) /\ ~Ready(x)
           /\ \A b \in Conn : Taken(b, x) => b = c
    /\ \A i \in Request : Used(i, x) =>
           /\ x <= drafted /\ ~Open(x) /\ ~Ready(x)
           /\ \A c \in Conn : ~Taken(c, x)
           /\ \A j \in Request : Used(j, x) => j = i

OnceInv ==
    /\ \A x \in Draft : Once(x)
    /\ \A g, h \in approved : g.id = h.id => g = h
    /\ \A i \in Request : ground[i].by = "draft" => ground[i].grant \in Grant

\* A step that brings no draft to another place.
Rests ==
    /\ drafted' = drafted
    /\ approved' \subseteq approved
    /\ \A x \in Draft : Open(x)' => Open(x)
    /\ \A c \in Conn : \A x \in Draft : Taken(c, x)' => Taken(c, x)
    /\ \A i \in Request : ground'[i] = ground[i] \/ ground'[i].by = "rule"

LEMMA RestsKeeps == OnceInv /\ Rests => OnceInv'
<1> SUFFICES ASSUME OnceInv, Rests PROVE OnceInv'
  OBVIOUS
<1>1. \A x \in Draft : Ready(x)' => Ready(x)
  BY DEF Rests, Ready
<1>2. \A i \in Request : \A x \in Draft : Used(i, x)' => Used(i, x)
  BY DEF Rests, Used
<1>3. \A g, h \in approved' : g.id = h.id => g = h
  BY DEF Rests, OnceInv
<1>4. \A i \in Request : ground'[i].by = "draft" => ground'[i].grant \in Grant
  BY DEF Rests, OnceInv
<1>5. ASSUME NEW x \in Draft PROVE Once(x)'
  BY <1>1, <1>2 DEF Rests, OnceInv, Once
<1>6. QED BY <1>3, <1>4, <1>5 DEF OnceInv

\* A command that holds no draft it took off the drafts.
Fresh(cmd) == cmd.pc \notin {"check", "insert"}

LEMMA NewCommandTakes ==
    ASSUME TypeOK, NEW c \in Conn, NewCommand(c)
    PROVE  Fresh(conn'[c])
<1>1. SUFFICES \E cmd : Begin(c, cmd) /\ Fresh(cmd)
  BY BeginKeeps
<1>2. Fresh(NoCommand)
  BY DEF NoCommand, Fresh
<1>3. CASE AskTicket(c)
  <2>1. Fresh([NoCommand EXCEPT !.pc = "draft", !.epoch = epoch])
    BY DEF NoCommand, Fresh
  <2>2. QED BY <1>3, <2>1 DEF AskTicket
<1>4. ASSUME NEW u \in User, NEW d \in drafts,
             ApproveDraft(c, u, d) \/ DenyDraft(c, u, d)
      PROVE  \E cmd : Begin(c, cmd) /\ Fresh(cmd)
  <2> DEFINE g == [id |-> d.id, epoch |-> d.epoch, start |-> d.start]
  <2>1. \A pc \in {"take", "denyDraft"} :
            Fresh([NoCommand EXCEPT !.pc = pc, !.draft = g])
    BY DEF NoCommand, Fresh
  <2>2. QED BY <1>2, <1>4, <2>1 DEF ApproveDraft, DenyDraft
<1>5. ASSUME NEW u \in User, NEW i \in Request,
             ApproveEntry(c, u, i) \/ DenyEntry(c, u, i)
      PROVE  \E cmd : Begin(c, cmd) /\ Fresh(cmd)
  <2>1. \A pc \in {"entry", "denyEntry"} :
            Fresh([NoCommand EXCEPT !.pc = pc, !.req = i])
    BY DEF NoCommand, Fresh
  <2>2. QED BY <1>2, <1>5, <2>1 DEF ApproveEntry, DenyEntry
<1>6. QED BY <1>3, <1>4, <1>5 DEF NewCommand

LEMMA ContinueTakes ==
    ASSUME TInv, NEW c \in Conn, Continue(c)
    PROVE  /\ TakeDraft(c) \/ \A x : Taken(c, x)' => Taken(c, x)
           /\ InsertApproved(c) \/ MakeDraft(c) => \A x : ~Taken(c, x)'
<1>1. conn \in [Conn -> Command] /\ conn[c] \in Command
  BY DEF TInv, TypeOK
<1>2. CASE MakeDraft(c) \/ InsertApproved(c)
  <2>1. conn'[c] = NoCommand
    BY <1>1, <1>2 DEF MakeDraft, InsertApproved, Goto
  <2>2. QED BY <2>1 DEF NoCommand, Taken
<1>3. CASE CheckDraft(c)
  <2>1. conn[c].pc = "check" /\ conn'[c].pc \in {"insert", "idle"}
    BY <1>1, <1>3 DEF CheckDraft, Goto, NoCommand, Command
  <2>2. Goes(c)
    BY <1>3, ContinueGoes
  <2>3. conn'[c].pc = "insert" => conn'[c].draft = conn[c].draft
    BY <2>2 DEF Goes
  <2>4. ~(MakeDraft(c) \/ InsertApproved(c))
    BY <2>1 DEF MakeDraft, InsertApproved, Goto
  <2>5. QED BY <2>1, <2>3, <2>4 DEF Taken
<1>4. CASE ~(TakeDraft(c) \/ CheckDraft(c) \/ MakeDraft(c) \/ InsertApproved(c))
  <2>1. conn[c].pc \notin {"take", "check", "insert"}
    BY <1>4 DEF Continue, TakeEntry, CacheEntry, ReplyEntry, ConnTicket,
       ConnEnqueues, DropDraft, DropEntry, ConnDenies, Goto
  <2>2. conn'[c].pc \notin {"take", "check", "insert"}
    BY <2>1, ContinueGoes DEF Goes
  <2>3. QED BY <1>4, <2>2 DEF Taken
<1>5. CASE TakeDraft(c)
  BY <1>5 DEF TakeDraft, InsertApproved, MakeDraft, Goto
<1>6. QED BY <1>2, <1>3, <1>4, <1>5

LEMMA ConnRests ==
    ASSUME TInv, NEW c \in Conn, NewCommand(c) \/ Continue(c),
           ~MakeDraft(c), ~TakeDraft(c), ~InsertApproved(c)
    PROVE  Rests
<1>1. UNCHANGED <<drafted, approved, ground>>
  BY DEF NewCommand, AskTicket, ApproveDraft, DenyDraft, ApproveEntry,
     DenyEntry, Continue, CheckDraft, TakeEntry, CacheEntry, ReplyEntry,
     ConnTicket, ConnEnqueues, DropDraft, DropEntry, ConnDenies, ConnOnly,
     stateVars
<1>2. \A b \in Conn : \A x \in Draft : Taken(b, x)' => Taken(b, x)
  <2>1. \A b \in Conn \ {c} : conn'[b] = conn[b]
    BY NewCommandWorks, ContinueWorks
  <2>2. \A x \in Draft : Taken(c, x)' => Taken(c, x)
    BY NewCommandTakes, ContinueTakes DEF TInv, Fresh, Taken
  <2>3. QED BY <2>1, <2>2 DEF Taken
<1>3. \A x \in Draft : Open(x)' => Open(x)
  <2>1. CASE drafts' \subseteq drafts
    BY <2>1 DEF Open
  <2>2. ASSUME NEW u \in User, NEW d \in drafts, ApproveDraft(c, u, d)
        PROVE  \A x \in Draft : Open(x)' => Open(x)
    <3> DEFINE w == [d EXCEPT !.by = d.by \cup {u}]
    <3>1. drafts' = (drafts \ {d}) \cup {w}
      BY <2>2 DEF ApproveDraft
    <3>2. w.id = d.id
      BY DraftTyped DEF TInv
    <3>3. QED BY <3>1, <3>2 DEF Open
  <2>3. CASE Continue(c)
    BY <2>1, <2>3 DEF Continue, CheckDraft, TakeEntry, CacheEntry, ReplyEntry,
       ConnTicket, ConnEnqueues, DropDraft, DropEntry, ConnDenies, Without,
       stateVars
  <2>4. CASE AskTicket(c) \/ \E u \in User :
                 \/ \E d \in drafts : DenyDraft(c, u, d)
                 \/ \E i \in Request : ApproveEntry(c, u, i)
                                       \/ DenyEntry(c, u, i)
    BY <2>1, <2>4 DEF AskTicket, DenyDraft, ApproveEntry, DenyEntry, stateVars
  <2>5. QED BY <2>2, <2>3, <2>4 DEF NewCommand
<1>4. QED BY <1>1, <1>2, <1>3 DEF Rests

LEMMA OthersRest ==
    ASSUME TInv, [Next]_vars,
           KernelStep \/ Sender \/ WorkerStep \/ CtlStep \/ UNCHANGED vars,
           \A g \in Grant : ~JudgeApproved(g)
    PROVE  Rests
<1>1. UNCHANGED drafted /\ approved' \subseteq approved
      /\ drafts' \subseteq drafts
  BY DEF KernelStep, Ask, Expire, Sender, Answer, SendTicket, SyncEpoch,
     SwitchMode, WorkerStep, Take, JudgeDeny, JudgeAllow, JudgePending,
     WorkerApproves, WorkerTicket, WorkerEnqueues, WorkerDenies, CtlStep,
     CtlContinue, StartSwitches, StopSwitches, ShutGate, StartClears,
     StartDenies, StartEnds, StopClears, RequestSync, UpdateFails, Commit,
     CtlInvalidate, Invalidate, ClearEphemeral, UpdateEnds, Preload, stateVars,
     vars
<1>2. UNCHANGED conn
  BY DEF KernelStep, Ask, Expire, Sender, Answer, SendTicket, SyncEpoch,
     SwitchMode, WorkerStep, Take, JudgeDeny, JudgeAllow, JudgePending,
     WorkerApproves, WorkerTicket, WorkerEnqueues, WorkerDenies, WorkOnly,
     CtlStep, CtlContinue, StartSwitches, StopSwitches, ShutGate, StartClears,
     StartDenies, StartEnds, StopClears, RequestSync, UpdateFails, Commit,
     CtlInvalidate, UpdateEnds, Preload, CtlOnly, vars
<1>3. \A i \in Request : ground'[i] = ground[i] \/ ground'[i].by = "rule"
  <2>1. CASE UNCHANGED ground
    BY <2>1
  <2>2. CASE JudgeAllow
    <3>1. ground \in [Request -> Ground]
      BY DEF TInv, TypeOK
    <3>2. UNCHANGED ground
          \/ ground' = [ground EXCEPT ![worker.req].by = "rule"]
      BY <2>2 DEF JudgeAllow
    <3>3. QED BY <3>1, <3>2 DEF Ground
  <2>3. CASE ~JudgeAllow
    <3>1. UNCHANGED ground
      BY <2>3 DEF KernelStep, Ask, Expire, Sender, Answer, SendTicket,
         SyncEpoch, SwitchMode, WorkerStep, Take, JudgeDeny, JudgePending,
         WorkerApproves, WorkerTicket, WorkerEnqueues, WorkerDenies, CtlStep,
         CtlContinue, StartSwitches, StopSwitches, ShutGate, StartClears,
         StartDenies, StartEnds, StopClears, RequestSync, UpdateFails, Commit,
         CtlInvalidate, UpdateEnds, Preload, CtlOnly, historyVars, vars
    <3>2. QED BY <2>1, <3>1
  <2>4. QED BY <2>2, <2>3
<1>4. QED BY <1>1, <1>2, <1>3 DEF Rests, Open, Taken

\* process_ticket gives a draft a number that none had.
LEMMA MakeDraftOnce ==
    ASSUME TInv, OnceInv, NEW c \in Conn, MakeDraft(c)
    PROVE  OnceInv'
<1>1. /\ drafted \in Nat /\ UNCHANGED <<approved, ground>>
      /\ \A x \in Draft : x \in Nat
  BY ApprovalAssumption DEF MakeDraft, ConnOnly, TInv, TypeOK, Draft
<1>2. /\ drafted' = drafted \/ drafted' = drafted + 1
      /\ \A x \in Draft : Open(x)' =>
             Open(x) \/ (x = drafted + 1 /\ drafted' = drafted + 1)
  <2>1. CASE DraftInOrder(conn[c].epoch)
    <3> DEFINE w == [id |-> drafted', by |-> {}, epoch |-> conn[c].epoch,
                     start |-> starts]
    <3>1. drafted' = drafted + 1 /\ drafts' = drafts \cup {w}
      BY <2>1 DEF MakeDraft
    <3>2. w.id = drafted + 1
      BY <3>1
    <3>3. \A x \in Draft : Open(x)' => Open(x) \/ x = drafted + 1
      BY <3>1, <3>2 DEF Open
    <3>4. QED BY <3>1, <3>3
  <2>2. CASE ~DraftInOrder(conn[c].epoch)
    <3>1. drafts' = drafts /\ drafted' = drafted
      BY <2>2 DEF MakeDraft
    <3>2. \A x \in Draft : Open(x)' => Open(x)
      BY <3>1 DEF Open
    <3>3. QED BY <3>1, <3>2
  <2>3. QED BY <2>1, <2>2
<1>3. \A b \in Conn : \A x \in Draft : Taken(b, x)' => Taken(b, x)
  <2>1. \A b \in Conn \ {c} : conn'[b] = conn[b]
    BY ContinueWorks DEF Continue
  <2>2. \A x : ~Taken(c, x)'
    BY ContinueTakes DEF Continue
  <2>3. QED BY <2>1, <2>2 DEF Taken
<1>4. ASSUME NEW x \in Draft PROVE Once(x)'
  <2>1. /\ Ready(x)' <=> Ready(x)
        /\ \A i \in Request : Used(i, x)' <=> Used(i, x)
    BY <1>1 DEF Ready, Used
  <2>2. Once(x) /\ x \in Nat /\ (x <= drafted => x <= drafted' /\ x # drafted + 1)
    BY <1>1, <1>2 DEF OnceInv
  <2>3. Open(x)' => x <= drafted' /\ ~Ready(x)'
    BY <1>1, <1>2, <2>1, <2>2 DEF Once
  <2>4. \A b \in Conn : Taken(b, x)' => ~Open(x)'
    BY <1>2, <1>3, <2>2 DEF Once
  <2>5. \A i \in Request : Used(i, x)' => ~Open(x)'
    BY <1>2, <2>1, <2>2 DEF Once
  <2>6. QED BY <1>3, <2>1, <2>2, <2>3, <2>4, <2>5 DEF Once
<1>5. QED BY <1>1, <1>4 DEF OnceInv

\* finalize_draft_approval takes the draft off the drafts under the lock, so
\* that one of the connections that completed its quorum goes on with it.
LEMMA TakeDraftOnce ==
    ASSUME TInv, OnceInv, NEW c \in Conn, TakeDraft(c)
    PROVE  OnceInv'
<1> DEFINE id == conn[c].draft.id
<1>1. UNCHANGED <<drafted, approved, ground>>
  BY DEF TakeDraft, ConnOnly
<1>2. \A x \in Draft : Open(x)' => Open(x) /\ x # id
  BY DEF TakeDraft, Without, Open
<1>3. \A x \in Draft : Taken(c, x)' => x = id /\ Open(id)
  <2>1. conn \in [Conn -> Command] /\ conn[c] \in Command
    BY DEF TInv, TypeOK
  <2>2. CASE Open(id)
    <3>1. conn'[c] = [conn[c] EXCEPT !.pc = "check"]
      BY <2>1, <2>2 DEF TakeDraft, Goto, Open
    <3>2. conn'[c].draft = conn[c].draft
      BY <2>1, <3>1 DEF Command
    <3>3. QED BY <2>2, <3>2 DEF Taken
  <2>3. CASE ~Open(id)
    <3>1. conn'[c] = NoCommand
      BY <2>1, <2>3 DEF TakeDraft, Goto, Open
    <3>2. QED BY <3>1 DEF NoCommand, Taken
  <2>4. QED BY <2>2, <2>3
<1>4. \A b \in Conn \ {c} : \A x \in Draft : Taken(b, x)' => Taken(b, x)
  BY ContinueWorks DEF Continue, Taken
<1>5. ASSUME NEW x \in Draft PROVE Once(x)'
  <2>1. /\ Ready(x)' <=> Ready(x)
        /\ \A i \in Request : Used(i, x)' <=> Used(i, x)
    BY <1>1 DEF Ready, Used
  <2>2. Once(x)
    BY DEF OnceInv
  <2>3. CASE Taken(c, x)'
    <3>1. x = id /\ Open(x) /\ ~Open(x)'
      BY <1>2, <1>3, <2>3
    <3>2. QED BY <1>1, <1>4, <2>1, <2>2, <3>1 DEF Once
  <2>4. CASE ~Taken(c, x)'
    <3>1. \A b \in Conn : Taken(b, x)' => Taken(b, x)
      BY <1>4, <2>4
    <3>2. QED BY <1>1, <1>2, <2>1, <2>2, <3>1 DEF Once
  <2>5. QED BY <2>3, <2>4
<1>6. QED BY <1>1, <1>5 DEF OnceInv

LEMMA InsertApprovedOnce ==
    ASSUME TInv, OnceInv, NEW c \in Conn, InsertApproved(c)
    PROVE  OnceInv'
<1> DEFINE g == conn[c].draft
<1>1. /\ UNCHANGED <<drafts, drafted, ground>>
      /\ conn[c].pc = "insert" /\ approved' = approved \cup {g}
  BY DEF InsertApproved, Goto, ConnOnly
<1>2. g \in Grant /\ g.id \in Draft /\ Taken(c, g.id)
  BY <1>1 DEF TInv, ConnInv, Works, Grant, Taken
<1>3. Once(g.id) /\ ~Ready(g.id)
  BY <1>2 DEF OnceInv, Once
<1>4. \A b \in Conn : \A x \in Draft : Taken(b, x)' => Taken(b, x) /\ b # c
  <2>1. \A b \in Conn \ {c} : conn'[b] = conn[b]
    BY ContinueWorks DEF Continue
  <2>2. \A x : ~Taken(c, x)'
    BY ContinueTakes DEF Continue
  <2>3. QED BY <2>1, <2>2 DEF Taken
<1>5. \A x \in Draft : Ready(x)' => Ready(x) \/ x = g.id
  BY <1>1 DEF Ready
<1>6. ASSUME NEW x \in Draft PROVE Once(x)'
  <2>1. /\ Open(x)' <=> Open(x)
        /\ \A i \in Request : Used(i, x)' <=> Used(i, x)
    BY <1>1 DEF Open, Used
  <2>2. Once(x)
    BY DEF OnceInv
  <2>3. CASE x = g.id
    <3>1. x <= drafted /\ ~Open(x) /\ \A i \in Request : ~Used(i, x)
      BY <1>2, <1>3, <2>3 DEF Once
    <3>2. \A b \in Conn : ~Taken(b, x)'
      BY <1>2, <1>3, <1>4, <2>3 DEF Once
    <3>3. QED BY <1>1, <2>1, <3>1, <3>2 DEF Once
  <2>4. CASE x # g.id
    BY <1>1, <1>4, <1>5, <2>1, <2>2, <2>4 DEF Once
  <2>5. QED BY <2>3, <2>4
<1>7. \A h, k \in approved' : h.id = k.id => h = k
  BY <1>1, <1>3 DEF OnceInv, Ready
<1>8. QED BY <1>1, <1>6, <1>7 DEF OnceInv

\* hydrate_approved takes the draft off the approved ones.
LEMMA JudgeApprovedOnce ==
    ASSUME TInv, OnceInv, NEW g \in Grant, JudgeApproved(g)
    PROVE  OnceInv'
<1>1. /\ UNCHANGED <<drafts, drafted, conn>>
      /\ g \in approved /\ approved' = approved \ {g}
  BY DEF JudgeApproved, Hydrate, WorkOnly
<1>2. g.id \in Draft /\ Ready(g.id)
  BY <1>1 DEF Grant, Ready
<1>3. PICK r \in Request : r = worker.req
  BY DEF JudgeApproved, Judge, TInv, WorkInv
<1>4. /\ ground'[r].by = "draft" /\ ground'[r].grant = g
      /\ \A i \in Request \ {r} : ground'[i] = ground[i]
  BY <1>3 DEF JudgeApproved, TInv, TypeOK
<1>5. \A x \in Draft : Ready(x)' => Ready(x) /\ x # g.id
  BY <1>1 DEF OnceInv, Ready
<1>6. \A x \in Draft : /\ Used(r, x)' => x = g.id
                       /\ \A i \in Request \ {r} : Used(i, x)' => Used(i, x)
  BY <1>4 DEF Used
<1>7. ASSUME NEW x \in Draft PROVE Once(x)'
  <2>1. (Open(x)' <=> Open(x)) /\ \A c \in Conn : Taken(c, x)' <=> Taken(c, x)
    BY <1>1 DEF Open, Taken
  <2>2. Once(x)
    BY DEF OnceInv
  <2>3. CASE x = g.id
    <3>1. Ready(x) /\ ~Ready(x)'
      BY <1>2, <1>5, <2>3
    <3>2. \A i \in Request : Used(i, x)' => i = r
      BY <1>6, <2>2, <3>1 DEF Once
    <3>3. QED BY <1>1, <2>1, <2>2, <3>1, <3>2 DEF Once
  <2>4. CASE x # g.id
    <3>1. \A i \in Request : Used(i, x)' => Used(i, x)
      BY <1>6, <2>4
    <3>2. QED BY <1>1, <1>5, <2>1, <2>2, <3>1 DEF Once
  <2>5. QED BY <2>3, <2>4
<1>8. \A h, k \in approved' : h.id = k.id => h = k
  BY <1>1 DEF OnceInv
<1>9. \A i \in Request : ground'[i].by = "draft" => ground'[i].grant \in Grant
  BY <1>4 DEF OnceInv
<1>10. QED BY <1>7, <1>8, <1>9 DEF OnceInv

LEMMA OnceHolds == TInv /\ OnceInv /\ [Next]_vars => OnceInv'
<1> SUFFICES ASSUME TInv, OnceInv, [Next]_vars PROVE OnceInv'
  OBVIOUS
<1>1. CASE KernelStep \/ Sender \/ WorkerStep \/ CtlStep \/ UNCHANGED vars
  BY <1>1, JudgeApprovedOnce, OthersRest, RestsKeeps
<1>2. ASSUME NEW c \in Conn, NewCommand(c) \/ Continue(c) PROVE OnceInv'
  BY <1>2, MakeDraftOnce, TakeDraftOnce, InsertApprovedOnce, ConnRests,
     RestsKeeps
<1>3. QED BY <1>1, <1>2 DEF Next

\* A draft serves one request: its number is nobody else's, one connection takes
\* it off the drafts though several may have completed its quorum, and it leaves
\* the approved ones when it is turned into a ticket.
THEOREM ServesOnce == Spec => []ApprovalServesOnce
<1>1. Init => OnceInv
  BY DEF Init, NoGround, NoCommand, OnceInv, Once, Open, Taken, Ready, Used
<1>2. TInv /\ OnceInv => ApprovalServesOnce
  <2> SUFFICES ASSUME OnceInv, NEW i \in Request, NEW j \in Request,
                      ground[i].by = "draft", ground[j].by = "draft",
                      ground[i].grant.id = ground[j].grant.id
               PROVE  i = j
    BY DEF ApprovalServesOnce
  <2>1. PICK x \in Draft : x = ground[i].grant.id
    BY DEF OnceInv, Grant
  <2>2. Used(i, x) /\ Used(j, x) /\ Once(x)
    BY <2>1 DEF Used, OnceInv
  <2>3. QED BY <2>2 DEF Once
<1>3. QED BY <1>1, <1>2, OnceHolds, Invariance, PTL DEF Spec

-----------------------------------------------------------------------------
(* How a new epoch comes to teald. *)

HandoverStep == Handover!HandoverNext \/ UNCHANGED Handover!handoverVars

LEMMA HandoverInitRefined == Init => Handover!HandoverInit
<1> SUFFICES ASSUME Init PROVE Handover!HandoverInit
  OBVIOUS
<1>1. epoch = 1 /\ kernel.epoch = 1 /\ gate = FALSE
  BY DEF Init
<1>2. MaxEpoch \in Nat \ {0}
  BY ApprovalAssumption
<1>3. kernel.epoch \in 0 .. MaxEpoch /\ epoch = kernel.epoch
  BY <1>1, <1>2
<1>4. gate \in BOOLEAN
  BY <1>1
<1>5. QED BY <1>3, <1>4 DEF Handover!HandoverInit

LEMMA HandoverKept ==
    ASSUME UNCHANGED gate, UNCHANGED epoch, UNCHANGED kernel.epoch
    PROVE  HandoverStep
BY DEF HandoverStep, Handover!handoverVars

\* The management command shuts the gate, follows the kernel and opens it.
LEMMA HandoverCtl ==
    ASSUME TInv, CtlStep
    PROVE  HandoverStep
<1>1. CtlInv /\ gate \in BOOLEAN
  BY DEF TInv, TypeOK
<1>2. CASE \/ StartSwitches \/ StopSwitches \/ StartClears \/ StopClears
           \/ StartEnds \/ (\E i \in Request : StartDenies(i))
           \/ RequestSync \/ CtlInvalidate
  BY <1>2, HandoverKept DEF StartSwitches, StopSwitches, StartClears,
     StopClears, StartEnds, StartDenies, RequestSync, CtlInvalidate, Preload,
     CtlOnly, kernelVars
<1>3. ASSUME NEW p \in Policies, ShutGate(p) PROVE HandoverStep
  BY <1>3 DEF ShutGate, CloseGate, CtlOnly, kernelVars, HandoverStep,
     Handover!HandoverNext, Handover!Shut
<1>4. CASE Commit
  <2>1. gate /\ kernel.epoch = epoch + 1
    BY <1>1, <1>4 DEF Commit, CtlGoto, CtlInv
  <2>2. QED BY <1>4, <2>1 DEF Commit, CtlOnly, kernelVars, HandoverStep,
               Handover!HandoverNext, Handover!Follow
<1>5. CASE UpdateFails \/ UpdateEnds
  <2>1. ctl.pc \in {"sync", "open"}
    BY <1>5 DEF UpdateFails, UpdateEnds, Preload
  <2>2. gate /\ kernel.epoch = epoch
    BY <1>1, <2>1 DEF CtlInv
  <2>3. gate' = FALSE /\ UNCHANGED epoch /\ UNCHANGED kernel
    BY <1>5 DEF UpdateFails, UpdateEnds, Preload, OpenGate, CtlOnly, kernelVars
  <2>4. QED BY <2>2, <2>3 DEF HandoverStep, Handover!HandoverNext, Handover!Reopen
<1>6. QED BY <1>2, <1>3, <1>4, <1>5 DEF CtlStep, CtlContinue

\* The kernel takes the epoch that follows its own.
LEMMA HandoverSync ==
    ASSUME TInv, NEW e \in Epoch, SyncEpoch(e)
    PROVE  HandoverStep
<1>1. /\ TypeOK /\ CtlInv /\ lane \in Seq(Message) /\ kernel \in Kernel
      /\ epoch \in Nat
  BY DEF TInv, TypeOK, Kernel, Epoch
<1>a. MaxEpoch \in Nat
  BY ApprovalAssumption
<1>2. Sync(e) = lane[1] /\ 1 \in 1 .. Len(lane)
  BY <1>1, DispatchTyped DEF SyncEpoch, Sync
<1>3. ctl.pc = "ack" /\ Sync(e) = Sync(epoch + 1)
  BY <1>1, <1>2 DEF CtlInv, Sync
<1>4. e = epoch + 1
  BY <1>3 DEF Sync
<1>5. gate /\ kernel.epoch = epoch /\ epoch < MaxEpoch
  BY <1>1, <1>3 DEF CtlInv
<1>6. kernel'.epoch = e /\ UNCHANGED epoch /\ UNCHANGED gate
  BY <1>1 DEF SyncEpoch, Kernel, historyVars
<1>7. Handover!Advance
  BY <1>1, <1>a, <1>4, <1>5, <1>6 DEF Handover!Advance
<1>8. QED BY <1>7 DEF HandoverStep, Handover!HandoverNext

LEMMA HandoverStepRefined ==
    TInv /\ [Next]_vars => [Handover!HandoverNext]_(Handover!handoverVars)
<1> SUFFICES ASSUME TInv, [Next]_vars PROVE HandoverStep
  BY DEF HandoverStep
<1>1. Aside => HandoverStep
  BY HandoverKept DEF Aside, policyVars
<1>2. CASE Sender
  BY <1>1, <1>2, SenderAside, HandoverSync
<1>3. CASE UNCHANGED vars
  BY <1>3, HandoverKept DEF vars, policyVars, kernelVars
<1>4. QED BY <1>1, <1>2, <1>3, KernelAside, WorkerAside, ConnAside,
             HandoverCtl DEF Next

\* Whatever the workers do with tickets and approvals, a new epoch comes to
\* teald as EpochHandover says (TicketTransitionGuard, update_bundle,
\* advance_epoch): what TealdControl shows for a teald that ends and loses
\* acknowledgements is kept by one that serves tickets meanwhile.
THEOREM ApprovalImplementsHandover == Spec => ImplementsHandover
BY HandoverInitRefined, HandoverStepRefined, Invariance, PTL DEF Spec,
   ImplementsHandover, Handover!HandoverSpec

=============================================================================
