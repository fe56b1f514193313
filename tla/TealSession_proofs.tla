------------------------- MODULE TealSession_proofs -------------------------
(***************************************************************************)
(* Proofs about TealSession, for any set of sockets, any owners and any    *)
(* bound on the epochs.                                                    *)
(*                                                                         *)
(* None of the safety properties is inductive: each depends on who holds   *)
(* the two mutexes and on what a handler in progress has already checked.  *)
(* IInv collects these facts.                                              *)
(***************************************************************************)
EXTENDS TealSession, TLAPS

-----------------------------------------------------------------------------
(* The strengthening. *)

\* Each mutex has at most one holder, and the work item is one of them.
MutexInv ==
    /\ \A s, t \in Socket : HoldsLifecycle(s) /\ HoldsLifecycle(t) => s = t
    /\ \A s, t \in Socket : HoldsTicketMutex(s) /\ HoldsTicketMutex(t) => s = t
    /\ worker = "flush" => \A s \in Socket : ~HoldsLifecycle(s)

\* A socket is not released under a command, and no session is open while one
\* is being prepared or cleaned up.
SessionInv ==
    /\ \A s \in Socket : pc[s] # "idle" => s \in open
    /\ \A s \in Socket : pc[s] \in {"rxFlush", "rxSet"} => rxPort = NoSocket
    /\ \A s \in Socket : pc[s] = "rxReply" => rxPort = s /\ txPort = NoSocket
    /\ worker = "flush" => rxPort = NoSocket

\* What a handler computed from lastEpoch stays true while it relies on it.
OfferInv ==
    \A s \in Socket : pc[s] \in {"rxFlush", "rxSet"} => offer = lastEpoch + 1

\* Retired epochs are numbers already published.
RetiredInv == \A e \in retired : e # 0 /\ e <= lastEpoch

\* So are those of the tickets; all are older than an epoch being published.
TableInv ==
    /\ \A e \in table : e # 0 /\ e <= lastEpoch
    /\ \A s \in Socket : pc[s] = "polFlush" => lastEpoch \notin table

IInv ==
    /\ TypeOK
    /\ MutexInv
    /\ SessionInv
    /\ SessionPaired
    /\ EpochNeedsSession
    /\ OfferInv
    /\ OfferHolds
    /\ TableInv
    /\ RetiredInv
    /\ RetiredForGood
    /\ FlushComplete


-----------------------------------------------------------------------------
LEMMA InitIInv == Init => IInv
<1>. SUFFICES ASSUME Init PROVE IInv
  OBVIOUS
<1>1. TypeOK
  <2>1. work \in BOOLEAN
    BY DEF Init
  <2>. QED
    BY <2>1, SocketAssumption DEF Init, TypeOK, PC, Epoch
<1>2. MutexInv /\ SessionInv /\ OfferInv
  BY DEF Init, MutexInv, SessionInv, OfferInv, HoldsLifecycle, HoldsTicketMutex
<1>3. SessionPaired /\ EpochNeedsSession /\ OfferHolds
  BY DEF Init, SessionPaired, EpochNeedsSession, OfferHolds
<1>4. TableInv /\ RetiredInv /\ RetiredForGood /\ FlushComplete
  BY DEF Init, TableInv, RetiredInv, RetiredForGood, FlushComplete
<1>. QED
  BY <1>1, <1>2, <1>3, <1>4 DEF IInv

\* Retiring the current epoch adds a published number, if it adds any.
LEMMA RetireInv ==
    ASSUME TypeOK, RetiredInv, EpochNeedsSession, Retire,
           lastEpoch' \in Epoch, lastEpoch <= lastEpoch'
    PROVE  RetiredInv'
<1>1. \A e \in retired : e # 0 /\ e <= lastEpoch'
  BY SocketAssumption DEF TypeOK, RetiredInv, Epoch
<1>2. curEpoch # 0 => curEpoch <= lastEpoch'
  BY SocketAssumption DEF TypeOK, EpochNeedsSession, Epoch
<1>. QED
  BY <1>1, <1>2 DEF Retire, RetiredInv

LEMMA OpenSocketIInv ==
    ASSUME IInv, NEW s \in Socket, OpenSocket(s)
    PROVE  IInv'
BY SocketAssumption DEF OpenSocket, IInv, TypeOK, MutexInv, SessionInv,
   SessionPaired, EpochNeedsSession, OfferInv, OfferHolds, TableInv,
   RetiredInv, RetiredForGood, FlushComplete, HoldsLifecycle, HoldsTicketMutex,
   PC, Epoch, portVars, epochVars

LEMMA ReleaseSocketIInv ==
    ASSUME IInv, NEW s \in Socket, ReleaseSocket(s)
    PROVE  IInv'
<1>1. TypeOK'
  <2>1. work' \in BOOLEAN
    BY DEF ReleaseSocket, Disconnect, EndSession, Retire, IInv, TypeOK
  <2>2. retired' \subseteq Epoch /\ table' \subseteq Epoch
    BY SocketAssumption DEF ReleaseSocket, Disconnect, EndSession, Retire,
       IInv, TypeOK, Epoch, epochVars
  <2>3. curEpoch' \in Epoch /\ lastEpoch' \in Epoch /\ offer' \in Epoch
    BY SocketAssumption DEF ReleaseSocket, Disconnect, EndSession, Retire,
       IInv, TypeOK, Epoch, epochVars
  <2>. QED
    BY <2>1, <2>2, <2>3, SocketAssumption DEF ReleaseSocket, Disconnect,
       EndSession, Retire, IInv, TypeOK, PC, Epoch, portVars, epochVars
<1>2. MutexInv'
  BY DEF ReleaseSocket, Disconnect, EndSession, Retire, IInv, TypeOK, MutexInv,
     HoldsLifecycle, HoldsTicketMutex
<1>3. SessionInv' /\ SessionPaired'
  BY SocketAssumption DEF ReleaseSocket, Disconnect, EndSession, Retire, IInv,
     TypeOK, SessionInv, SessionPaired, portVars, MutexInv, HoldsLifecycle
<1>4. EpochNeedsSession' /\ OfferInv' /\ OfferHolds'
  BY SocketAssumption DEF ReleaseSocket, Disconnect, EndSession, Retire, IInv,
     TypeOK, Epoch, EpochNeedsSession, OfferInv, OfferHolds, SessionInv,
     SessionPaired, MutexInv, HoldsTicketMutex, portVars, epochVars
<1>5. TableInv' /\ RetiredInv' /\ RetiredForGood'
  <2>1. TableInv'
    BY SocketAssumption DEF ReleaseSocket, Disconnect, EndSession, Retire,
       IInv, TypeOK, Epoch, TableInv, EpochNeedsSession, MutexInv,
       HoldsTicketMutex, portVars, epochVars
  <2>2. RetiredInv'
    <3>1. CASE UNCHANGED <<retired, lastEpoch>>
      BY <3>1 DEF IInv, RetiredInv
    <3>2. CASE Retire /\ lastEpoch' \in Epoch /\ lastEpoch <= lastEpoch'
      BY <3>2, RetireInv DEF IInv
    <3>. QED
      BY <3>1, <3>2, SocketAssumption DEF ReleaseSocket, Disconnect,
         EndSession, IInv, TypeOK, Epoch, epochVars
  <2>3. RetiredForGood'
    BY SocketAssumption DEF ReleaseSocket, Disconnect, EndSession, Retire,
       IInv, TypeOK, Epoch, RetiredInv, RetiredForGood, EpochNeedsSession,
       epochVars
  <2>. QED
    BY <2>1, <2>2, <2>3
<1>6. FlushComplete'
  BY SocketAssumption DEF ReleaseSocket, Disconnect, EndSession, Retire, IInv,
     TypeOK, TableInv, RetiredInv, FlushComplete, MutexInv, HoldsTicketMutex,
     portVars, epochVars
<1>. QED
  BY <1>1, <1>2, <1>3, <1>4, <1>5, <1>6 DEF IInv

LEMMA RegisterRxIInv ==
    ASSUME IInv, NEW s \in Socket, RegisterRx(s)
    PROVE  IInv'
BY SocketAssumption DEF RegisterRx, LifecycleFree, Goto, IInv, TypeOK,
   MutexInv, SessionInv, SessionPaired, EpochNeedsSession, OfferInv,
   OfferHolds, TableInv, RetiredInv, RetiredForGood, FlushComplete,
   HoldsLifecycle, HoldsTicketMutex, PC, Epoch, portVars, epochVars

LEMMA RxCheckIInv ==
    ASSUME IInv, NEW s \in Socket, RxCheck(s)
    PROVE  IInv'
BY SocketAssumption DEF RxCheck, RxCheckIf, SessionOpen, TicketMutexFree, Goto,
   IInv, TypeOK, MutexInv, SessionInv, SessionPaired, EpochNeedsSession,
   OfferInv, OfferHolds, TableInv, RetiredInv, RetiredForGood, FlushComplete,
   HoldsLifecycle, HoldsTicketMutex, PC, Epoch, portVars, epochVars

LEMMA RxFlushIInv ==
    ASSUME IInv, NEW s \in Socket, RxFlush(s)
    PROVE  IInv'
BY SocketAssumption DEF RxFlush, Retire, Goto, IInv, TypeOK, MutexInv,
   SessionInv, SessionPaired, EpochNeedsSession, OfferInv, OfferHolds,
   TableInv, RetiredInv, RetiredForGood, FlushComplete, HoldsLifecycle,
   HoldsTicketMutex, PC, Epoch, portVars, epochVars

LEMMA RxSetIInv ==
    ASSUME IInv, NEW s \in Socket, RxSet(s)
    PROVE  IInv'
BY SocketAssumption DEF RxSet, Goto, IInv, TypeOK, MutexInv, SessionInv,
   SessionPaired, EpochNeedsSession, OfferInv, OfferHolds, TableInv,
   RetiredInv, RetiredForGood, FlushComplete, HoldsLifecycle, HoldsTicketMutex,
   PC, Epoch, portVars, epochVars

LEMMA RxReplyIInv ==
    ASSUME IInv, NEW s \in Socket, RxReply(s)
    PROVE  IInv'
BY SocketAssumption DEF RxReply, Goto, IInv, TypeOK, MutexInv, SessionInv,
   SessionPaired, EpochNeedsSession, OfferInv, OfferHolds, TableInv,
   RetiredInv, RetiredForGood, FlushComplete, HoldsLifecycle, HoldsTicketMutex,
   PC, Epoch, portVars, epochVars

LEMMA RxReplyFailsIInv ==
    ASSUME IInv, NEW s \in Socket, RxReplyFails(s)
    PROVE  IInv'
<1>1. TypeOK'
  <2>1. work' \in BOOLEAN
    BY DEF RxReplyFails, Goto, EndSession, Retire, IInv, TypeOK
  <2>2. retired' \subseteq Epoch /\ table' \subseteq Epoch
    BY SocketAssumption DEF RxReplyFails, Goto, EndSession, Retire, IInv,
       TypeOK, Epoch, epochVars
  <2>3. curEpoch' \in Epoch /\ lastEpoch' \in Epoch /\ offer' \in Epoch
    BY SocketAssumption DEF RxReplyFails, Goto, EndSession, Retire, IInv,
       TypeOK, Epoch, epochVars
  <2>. QED
    BY <2>1, <2>2, <2>3, SocketAssumption DEF RxReplyFails, Goto, EndSession,
       Retire, IInv, TypeOK, PC, Epoch, portVars, epochVars
<1>2. MutexInv'
  BY DEF RxReplyFails, Goto, EndSession, Retire, IInv, TypeOK, MutexInv,
     HoldsLifecycle, HoldsTicketMutex
<1>3. SessionInv' /\ SessionPaired'
  BY SocketAssumption DEF RxReplyFails, Goto, EndSession, Retire, IInv, TypeOK,
     SessionInv, SessionPaired, portVars, MutexInv, HoldsLifecycle
<1>4. EpochNeedsSession' /\ OfferInv' /\ OfferHolds'
  BY SocketAssumption DEF RxReplyFails, Goto, EndSession, Retire, IInv, TypeOK,
     Epoch, EpochNeedsSession, OfferInv, OfferHolds, SessionInv, SessionPaired,
     MutexInv, HoldsTicketMutex, portVars, epochVars
<1>5. TableInv' /\ RetiredInv' /\ RetiredForGood'
  <2>1. TableInv'
    BY SocketAssumption DEF RxReplyFails, Goto, EndSession, Retire, IInv,
       TypeOK, Epoch, TableInv, EpochNeedsSession, MutexInv, HoldsTicketMutex,
       portVars, epochVars
  <2>2. RetiredInv'
    <3>1. CASE UNCHANGED <<retired, lastEpoch>>
      BY <3>1 DEF IInv, RetiredInv
    <3>2. CASE Retire /\ lastEpoch' \in Epoch /\ lastEpoch <= lastEpoch'
      BY <3>2, RetireInv DEF IInv
    <3>. QED
      BY <3>1, <3>2, SocketAssumption DEF RxReplyFails, Goto, EndSession, IInv,
         TypeOK, Epoch, epochVars
  <2>3. RetiredForGood'
    BY SocketAssumption DEF RxReplyFails, Goto, EndSession, Retire, IInv,
       TypeOK, Epoch, RetiredInv, RetiredForGood, EpochNeedsSession, epochVars
  <2>. QED
    BY <2>1, <2>2, <2>3
<1>6. FlushComplete'
  BY SocketAssumption DEF RxReplyFails, Goto, EndSession, Retire, IInv, TypeOK,
     TableInv, RetiredInv, FlushComplete, MutexInv, HoldsTicketMutex, portVars,
     epochVars
<1>. QED
  BY <1>1, <1>2, <1>3, <1>4, <1>5, <1>6 DEF IInv

LEMMA RegisterTxIInv ==
    ASSUME IInv, NEW s \in Socket, RegisterTx(s)
    PROVE  IInv'
BY SocketAssumption DEF RegisterTx, LifecycleFree, IInv, TypeOK, MutexInv,
   SessionInv, SessionPaired, EpochNeedsSession, OfferInv, OfferHolds,
   TableInv, RetiredInv, RetiredForGood, FlushComplete, HoldsLifecycle,
   HoldsTicketMutex, PC, Epoch, portVars, epochVars

LEMMA PolicyPublishIInv ==
    ASSUME IInv, NEW s \in Socket, PolicyPublish(s)
    PROVE  IInv'
<1>1. TypeOK'
  <2>1. work' \in BOOLEAN
    BY DEF PolicyPublish, PublishIf, Retire, NextInOrder, Authorized,
       TicketMutexFree, Return, Goto, IInv, TypeOK
  <2>2. retired' \subseteq Epoch /\ table' \subseteq Epoch
    BY SocketAssumption DEF PolicyPublish, PublishIf, Retire, NextInOrder,
       Authorized, TicketMutexFree, Return, Goto, IInv, TypeOK, Epoch,
       epochVars
  <2>3. curEpoch' \in Epoch /\ lastEpoch' \in Epoch /\ offer' \in Epoch
    BY SocketAssumption DEF PolicyPublish, PublishIf, Retire, NextInOrder,
       Authorized, TicketMutexFree, Return, Goto, IInv, TypeOK, Epoch,
       epochVars
  <2>. QED
    BY <2>1, <2>2, <2>3, SocketAssumption DEF PolicyPublish, PublishIf, Retire,
       NextInOrder, Authorized, TicketMutexFree, Return, Goto, IInv, TypeOK,
       PC, Epoch, portVars, epochVars
<1>2. MutexInv'
  BY DEF PolicyPublish, PublishIf, Retire, NextInOrder, Authorized,
     TicketMutexFree, Return, Goto, IInv, TypeOK, MutexInv, HoldsLifecycle,
     HoldsTicketMutex
<1>3. SessionInv' /\ SessionPaired'
  BY SocketAssumption DEF PolicyPublish, PublishIf, Retire, NextInOrder,
     Authorized, TicketMutexFree, Return, Goto, IInv, TypeOK, SessionInv,
     SessionPaired, portVars, MutexInv, HoldsLifecycle
<1>4. EpochNeedsSession' /\ OfferInv' /\ OfferHolds'
  BY SocketAssumption DEF PolicyPublish, PublishIf, Retire, NextInOrder,
     Authorized, TicketMutexFree, Return, Goto, IInv, TypeOK, Epoch,
     EpochNeedsSession, OfferInv, OfferHolds, SessionInv, SessionPaired,
     MutexInv, HoldsTicketMutex, portVars, epochVars
<1>5. TableInv' /\ RetiredInv' /\ RetiredForGood'
  <2>1. TableInv'
    BY SocketAssumption DEF PolicyPublish, PublishIf, Retire, NextInOrder,
       Authorized, TicketMutexFree, Return, Goto, IInv, TypeOK, Epoch,
       TableInv, EpochNeedsSession, MutexInv, HoldsTicketMutex, portVars,
       epochVars
  <2>2. RetiredInv'
    <3>1. CASE UNCHANGED <<retired, lastEpoch>>
      BY <3>1 DEF IInv, RetiredInv
    <3>2. CASE Retire /\ lastEpoch' \in Epoch /\ lastEpoch <= lastEpoch'
      BY <3>2, RetireInv DEF IInv
    <3>. QED
      BY <3>1, <3>2, SocketAssumption DEF PolicyPublish, PublishIf,
         NextInOrder, Authorized, TicketMutexFree, Return, Goto, IInv, TypeOK,
         Epoch, epochVars
  <2>3. RetiredForGood'
    BY SocketAssumption DEF PolicyPublish, PublishIf, Retire, NextInOrder,
       Authorized, TicketMutexFree, Return, Goto, IInv, TypeOK, Epoch,
       RetiredInv, RetiredForGood, EpochNeedsSession, epochVars
  <2>. QED
    BY <2>1, <2>2, <2>3
<1>6. FlushComplete'
  BY SocketAssumption DEF PolicyPublish, PublishIf, Retire, NextInOrder,
     Authorized, TicketMutexFree, Return, Goto, IInv, TypeOK, TableInv,
     RetiredInv, FlushComplete, MutexInv, HoldsTicketMutex, portVars, epochVars
<1>. QED
  BY <1>1, <1>2, <1>3, <1>4, <1>5, <1>6 DEF IInv

LEMMA PolicyFlushIInv ==
    ASSUME IInv, NEW s \in Socket, PolicyFlush(s)
    PROVE  IInv'
BY SocketAssumption DEF PolicyFlush, Return, Goto, IInv, TypeOK, MutexInv,
   SessionInv, SessionPaired, EpochNeedsSession, OfferInv, OfferHolds,
   TableInv, RetiredInv, RetiredForGood, FlushComplete, HoldsLifecycle,
   HoldsTicketMutex, PC, Epoch, portVars, epochVars

LEMMA TicketInsertIInv ==
    ASSUME IInv, NEW s \in Socket, TicketInsert(s)
    PROVE  IInv'
<1>1. TypeOK'
  <2>1. work' \in BOOLEAN
    BY DEF TicketInsert, TicketMutexFree, Return, Goto, Insertable, IInv,
       TypeOK
  <2>2. retired' \subseteq Epoch /\ table' \subseteq Epoch
    BY SocketAssumption DEF TicketInsert, TicketMutexFree, Return, Goto,
       Insertable, IInv, TypeOK, Epoch, epochVars
  <2>3. curEpoch' \in Epoch /\ lastEpoch' \in Epoch /\ offer' \in Epoch
    BY SocketAssumption DEF TicketInsert, TicketMutexFree, Return, Goto,
       Insertable, IInv, TypeOK, Epoch, epochVars
  <2>. QED
    BY <2>1, <2>2, <2>3, SocketAssumption DEF TicketInsert, TicketMutexFree,
       Return, Goto, Insertable, IInv, TypeOK, PC, Epoch, portVars, epochVars
<1>2. MutexInv'
  BY DEF TicketInsert, TicketMutexFree, Return, Goto, Insertable, IInv, TypeOK,
     MutexInv, HoldsLifecycle, HoldsTicketMutex
<1>3. SessionInv' /\ SessionPaired'
  BY SocketAssumption DEF TicketInsert, TicketMutexFree, Return, Goto,
     Insertable, IInv, TypeOK, SessionInv, SessionPaired, portVars, MutexInv,
     HoldsLifecycle
<1>4. EpochNeedsSession' /\ OfferInv' /\ OfferHolds'
  BY SocketAssumption DEF TicketInsert, TicketMutexFree, Return, Goto,
     Insertable, IInv, TypeOK, Epoch, EpochNeedsSession, OfferInv, OfferHolds,
     SessionInv, SessionPaired, MutexInv, HoldsTicketMutex, portVars, epochVars
<1>5. TableInv' /\ RetiredInv' /\ RetiredForGood'
  <2>1. TableInv'
    BY SocketAssumption DEF TicketInsert, TicketMutexFree, Return, Goto,
       Insertable, IInv, TypeOK, Epoch, TableInv, EpochNeedsSession, MutexInv,
       HoldsTicketMutex, portVars, epochVars
  <2>2. RetiredInv'
    BY DEF TicketInsert, TicketMutexFree, Return, Goto, Insertable, IInv,
       RetiredInv, epochVars
  <2>3. RetiredForGood'
    BY SocketAssumption DEF TicketInsert, TicketMutexFree, Return, Goto,
       Insertable, IInv, TypeOK, Epoch, RetiredInv, RetiredForGood,
       EpochNeedsSession, epochVars
  <2>. QED
    BY <2>1, <2>2, <2>3
<1>6. FlushComplete'
  BY SocketAssumption DEF TicketInsert, TicketMutexFree, Return, Goto,
     Insertable, IInv, TypeOK, TableInv, RetiredInv, FlushComplete, MutexInv,
     HoldsTicketMutex, portVars, epochVars
<1>. QED
  BY <1>1, <1>2, <1>3, <1>4, <1>5, <1>6 DEF IInv

LEMMA WorkerStartIInv ==
    ASSUME IInv, WorkerStart
    PROVE  IInv'
BY SocketAssumption DEF WorkerStart, LifecycleFree, IInv, TypeOK, MutexInv,
   SessionInv, SessionPaired, EpochNeedsSession, OfferInv, OfferHolds,
   TableInv, RetiredInv, RetiredForGood, FlushComplete, HoldsLifecycle,
   HoldsTicketMutex, PC, Epoch, portVars, epochVars

LEMMA WorkerFlushIInv ==
    ASSUME IInv, WorkerFlush
    PROVE  IInv'
BY SocketAssumption DEF WorkerFlush, TicketMutexFree, IInv, TypeOK, MutexInv,
   SessionInv, SessionPaired, EpochNeedsSession, OfferInv, OfferHolds,
   TableInv, RetiredInv, RetiredForGood, FlushComplete, HoldsLifecycle,
   HoldsTicketMutex, PC, Epoch, portVars, epochVars

LEMMA PolicyUpdateIInv ==
    ASSUME IInv, NEW s \in Socket, NEW e \in Epoch, PolicyUpdate(s, e)
    PROVE  IInv'
BY SocketAssumption DEF PolicyUpdate, Command, Authorized, Goto, IInv, TypeOK,
   MutexInv, SessionInv, SessionPaired, EpochNeedsSession, OfferInv,
   OfferHolds, TableInv, RetiredInv, RetiredForGood, FlushComplete,
   HoldsLifecycle, HoldsTicketMutex, PC, Epoch, portVars, epochVars

LEMMA TicketAddIInv ==
    ASSUME IInv, NEW s \in Socket, NEW e \in Epoch, TicketAdd(s, e)
    PROVE  IInv'
BY SocketAssumption DEF TicketAdd, Command, Authorized, Goto, IInv, TypeOK,
   MutexInv, SessionInv, SessionPaired, EpochNeedsSession, OfferInv,
   OfferHolds, TableInv, RetiredInv, RetiredForGood, FlushComplete,
   HoldsLifecycle, HoldsTicketMutex, PC, Epoch, portVars, epochVars

LEMMA NextIInv == IInv /\ [Next]_vars => IInv'
<1>. SUFFICES ASSUME IInv, [Next]_vars PROVE IInv'
  OBVIOUS
<1>1. ASSUME NEW s \in Socket, Handler(s) PROVE IInv'
  BY <1>1, RxCheckIInv, RxFlushIInv, RxSetIInv, RxReplyIInv, RxReplyFailsIInv,
     PolicyPublishIInv, PolicyFlushIInv, TicketInsertIInv DEF Handler
<1>2. ASSUME NEW s \in Socket, Client(s) PROVE IInv'
  <2>1. CASE OpenSocket(s) \/ ReleaseSocket(s)
    BY <2>1, OpenSocketIInv, ReleaseSocketIInv
  <2>2. CASE RegisterRx(s) \/ RegisterTx(s)
    BY <2>2, RegisterRxIInv, RegisterTxIInv
  <2>3. CASE \E e \in Epoch : PolicyUpdate(s, e) \/ TicketAdd(s, e)
    BY <2>3, PolicyUpdateIInv, TicketAddIInv
  <2>. QED
    BY <1>2, <2>1, <2>2, <2>3 DEF Client
<1>3. CASE WorkerStart \/ WorkerFlush
  BY <1>3, WorkerStartIInv, WorkerFlushIInv
<1>4. CASE UNCHANGED vars
  BY <1>4 DEF vars, IInv, TypeOK, MutexInv, SessionInv, SessionPaired,
     EpochNeedsSession, OfferInv, OfferHolds, TableInv, RetiredInv,
     RetiredForGood, FlushComplete, HoldsLifecycle, HoldsTicketMutex, PC,
     Epoch, portVars, epochVars
<1>. QED
  BY <1>1, <1>2, <1>3, <1>4 DEF Next

LEMMA Inductive == Spec => []IInv
BY InitIInv, NextIInv, PTL DEF Spec

-----------------------------------------------------------------------------
(* The theorems. *)

\* Every variable keeps its type; in particular neither epoch counter passes
\* U32_MAX (the -EOVERFLOW of REGISTER, the -EINVAL of POLICY_UPDATE).
THEOREM TypeCorrect == Spec => []TypeOK
BY Inductive, PTL DEF IInv

\* The two lanes of teal_nl_recv_register never belong to two processes.
THEOREM SessionIsPaired == Spec => []SessionPaired
BY Inductive, PTL DEF IInv

\* teal_nl_recv_policy_update publishes only into a complete, live session.
THEOREM EpochNeedsLiveSession == Spec => []EpochNeedsSession
BY Inductive, PTL DEF IInv

\* No epoch ever becomes current a second time (teal_last_epoch is not reset).
THEOREM RetiredEpochsStayRetired == Spec => []RetiredForGood
BY Inductive, PTL DEF IInv

\* The epoch in the REGISTER reply is accepted when it comes back.
THEOREM OfferIsHonoured == Spec => []OfferHolds
BY Inductive, PTL DEF IInv

\* teal_flush_all_queues_locked leaves no ticket of an earlier epoch behind.
THEOREM FlushIsComplete == Spec => []FlushComplete
BY Inductive, PTL DEF IInv

\* The cleanup of a dead session (teal_daemon_disconnect_workfn) and the other
\* two flushes never take a ticket from the session in force.
THEOREM CurrentTicketsSurvive == Spec => NoCurrentTicketLost
<1>1. IInv /\ [Next]_vars => [(curEpoch \in table) => (curEpoch \in
   table')]_vars
  <2>. SUFFICES ASSUME IInv, [Next]_vars, curEpoch \in table
                PROVE  curEpoch \in table'
    OBVIOUS
  <2>1. curEpoch # 0 /\ rxPort # NoSocket /\ curEpoch = lastEpoch
    BY DEF IInv, TableInv, EpochNeedsSession, SessionPaired
  <2>2. ASSUME NEW s \in Socket, Handler(s) PROVE curEpoch \in table'
    <3>1. CASE RxFlush(s)
      BY <3>1, <2>1 DEF RxFlush, Goto, IInv, SessionInv, TypeOK
    <3>2. CASE PolicyFlush(s)
      BY <3>2, <2>1 DEF PolicyFlush, Return, Goto, IInv, TableInv, TypeOK
    <3>3. CASE TicketInsert(s)
      BY <3>3 DEF TicketInsert
    <3>4. CASE RxCheck(s) \/ RxSet(s) \/ RxReply(s) \/ RxReplyFails(s) \/ PolicyPublish(s)
      BY <3>4 DEF RxCheck, RxCheckIf, RxSet, RxReply, RxReplyFails,
         PolicyPublish, PublishIf
    <3>. QED
      BY <2>2, <3>1, <3>2, <3>3, <3>4 DEF Handler
  <2>3. ASSUME NEW s \in Socket, Client(s) PROVE curEpoch \in table'
    BY <2>3 DEF Client, OpenSocket, ReleaseSocket, RegisterRx, RegisterTx,
       PolicyUpdate, TicketAdd, Command
  <2>4. CASE WorkerStart \/ WorkerFlush
    BY <2>4, <2>1 DEF WorkerStart, WorkerFlush, IInv, SessionInv
  <2>5. CASE UNCHANGED vars
    BY <2>5 DEF vars
  <2>. QED
    BY <2>2, <2>3, <2>4, <2>5 DEF Next
<1>. QED
  BY <1>1, Inductive, PTL DEF Spec, NoCurrentTicketLost

-----------------------------------------------------------------------------
(* Refinement. *)

LEMMA ClockInitRefined == Init => Clock!ClockInit
BY DEF Init, Clock!ClockInit, FlushDue

ClockStep == Clock!ClockNext \/ UNCHANGED Clock!clockVars

\* The clock sees the two epochs and whether a flush is owed: a step that ends
\* with nothing but the latter changed is a flush or nothing at all.
LEMMA ClockFlush ==
    ASSUME UNCHANGED <<curEpoch, lastEpoch>>, FlushDue' => FlushDue
    PROVE  ClockStep
<1>1. FlushDue \in BOOLEAN /\ FlushDue' \in BOOLEAN
  BY DEF FlushDue
<1>2. CASE FlushDue /\ ~FlushDue'
  BY <1>2 DEF ClockStep, Clock!ClockNext, Clock!FlushDone
<1>3. CASE FlushDue = FlushDue'
  BY <1>3 DEF ClockStep, Clock!clockVars
<1>. QED
  BY <1>1, <1>2, <1>3

\* The end of a session revokes the epoch and leaves a flush owed.
LEMMA ClockRevoke ==
    ASSUME curEpoch' = 0, UNCHANGED lastEpoch, FlushDue'
    PROVE  ClockStep
<1>1. FlushDue' = TRUE
  BY DEF FlushDue
<1>. QED
  BY <1>1 DEF ClockStep, Clock!ClockNext, Clock!Revoke

\* POLICY_UPDATE publishes the next number when no flush is owed.
LEMMA ClockPublish ==
    ASSUME IInv, NEW s \in Socket, PolicyPublish(s)
    PROVE  ClockStep
<1>1. CASE NextInOrder(arg[s]) /\ Authorized(s)
  <2>1. ~FlushDue
    BY <1>1, SocketAssumption DEF PolicyPublish, PublishIf, TicketMutexFree,
       HoldsTicketMutex, Authorized, FlushDue, IInv, SessionPaired, SessionInv
  <2>2. FlushDue'
    BY <1>1 DEF PolicyPublish, PublishIf, Goto, FlushDue, IInv, TypeOK
  <2>3. lastEpoch < MaxEpoch /\ lastEpoch' = lastEpoch + 1 /\ curEpoch' = lastEpoch'
    BY <1>1, SocketAssumption DEF PolicyPublish, PublishIf, NextInOrder, IInv,
       TypeOK, Epoch
  <2>4. FlushDue' = TRUE
    BY <2>2 DEF FlushDue
  <2>. QED
    BY <2>1, <2>3, <2>4 DEF ClockStep, Clock!ClockNext, Clock!Publish
<1>2. CASE ~(NextInOrder(arg[s]) /\ Authorized(s))
  <2>1. UNCHANGED <<curEpoch, lastEpoch>>
    BY <1>2 DEF PolicyPublish, PublishIf, epochVars
  <2>2. FlushDue' => FlushDue
    BY <1>2 DEF PolicyPublish, PublishIf, Return, Goto, FlushDue, portVars,
       IInv, TypeOK
  <2>. QED
    BY <2>1, <2>2, ClockFlush
<1>. QED
  BY <1>1, <1>2

LEMMA ClockHandler ==
    ASSUME IInv, NEW s \in Socket, Handler(s)
    PROVE  ClockStep
<1>1. CASE RxFlush(s)
  <2>1. UNCHANGED <<curEpoch, lastEpoch>>
    BY <1>1 DEF RxFlush, Goto, IInv, SessionInv, SessionPaired,
       EpochNeedsSession
  <2>2. FlushDue' => FlushDue
    BY <1>1 DEF RxFlush, Goto, FlushDue, portVars, IInv, TypeOK
  <2>. QED
    BY <2>1, <2>2, ClockFlush
<1>2. CASE RxReplyFails(s)
  <2>1. rxPort = s /\ curEpoch = 0
    BY <1>2 DEF RxReplyFails, Goto, IInv, SessionInv, EpochNeedsSession
  <2>2. UNCHANGED lastEpoch /\ curEpoch' = 0
    BY <1>2, <2>1 DEF RxReplyFails, EndSession
  <2>3. FlushDue' \/ (FlushDue' => FlushDue)
    OBVIOUS
  <2>. QED
    BY <2>1, <2>2, <2>3, ClockFlush, ClockRevoke
<1>3. CASE PolicyPublish(s)
  BY <1>3, ClockPublish
<1>4. CASE RxCheck(s) \/ RxSet(s) \/ RxReply(s) \/ PolicyFlush(s) \/ TicketInsert(s)
  <2>1. UNCHANGED <<curEpoch, lastEpoch>>
    BY <1>4 DEF RxCheck, RxCheckIf, RxSet, RxReply, PolicyFlush, TicketInsert,
       epochVars
  <2>2. FlushDue' => FlushDue
    BY <1>4, SocketAssumption DEF RxCheck, RxCheckIf, RxSet, RxReply,
       PolicyFlush, TicketInsert, Return, Goto, FlushDue, portVars, IInv,
       TypeOK
  <2>. QED
    BY <2>1, <2>2, ClockFlush
<1>. QED
  BY <1>1, <1>2, <1>3, <1>4 DEF Handler

LEMMA ClockClient ==
    ASSUME IInv, NEW s \in Socket, Client(s)
    PROVE  ClockStep
<1>1. CASE ReleaseSocket(s) /\ s \in {rxPort, txPort}
  <2>1. UNCHANGED lastEpoch /\ curEpoch' = 0
    BY <1>1 DEF ReleaseSocket, Disconnect, EndSession
  <2>2. FlushDue'
    BY <1>1 DEF ReleaseSocket, Disconnect, EndSession, FlushDue
  <2>. QED
    BY <2>1, <2>2, ClockRevoke
<1>2. CASE ReleaseSocket(s) /\ s \notin {rxPort, txPort}
  <2>1. UNCHANGED <<curEpoch, lastEpoch, rxPort, work, worker, pc>>
    BY <1>2 DEF ReleaseSocket, portVars, epochVars
  <2>. QED
    BY <2>1, ClockFlush DEF FlushDue
<1>3. CASE Client(s) /\ ~ReleaseSocket(s)
  <2>1. UNCHANGED <<curEpoch, lastEpoch>>
    BY <1>3 DEF Client, OpenSocket, RegisterRx, RegisterTx, PolicyUpdate,
       TicketAdd, Command, epochVars
  <2>2. UNCHANGED <<rxPort, work, worker>>
    BY <1>3 DEF Client, OpenSocket, RegisterRx, RegisterTx, PolicyUpdate,
       TicketAdd, Command, portVars
  <2>3. \A t \in Socket : pc'[t] = "polFlush" => pc[t] = "polFlush"
    BY <1>3 DEF Client, OpenSocket, RegisterRx, RegisterTx, PolicyUpdate,
       TicketAdd, Command, Goto, IInv, TypeOK
  <2>. QED
    BY <2>1, <2>2, <2>3, ClockFlush DEF FlushDue
<1>. QED
  BY <1>1, <1>2, <1>3

LEMMA ClockWorker ==
    ASSUME IInv, WorkerStart \/ WorkerFlush
    PROVE  ClockStep
<1>1. UNCHANGED <<curEpoch, lastEpoch>>
  BY DEF WorkerStart, WorkerFlush, epochVars
<1>2. FlushDue' => FlushDue
  BY DEF WorkerStart, WorkerFlush, FlushDue, portVars
<1>. QED
  BY <1>1, <1>2, ClockFlush

LEMMA ClockStepRefined ==
    IInv /\ [Next]_vars => [Clock!ClockNext]_(Clock!clockVars)
<1>. SUFFICES ASSUME IInv, [Next]_vars PROVE ClockStep
  BY DEF ClockStep
<1>1. CASE UNCHANGED vars
  BY <1>1, ClockFlush DEF vars, portVars, epochVars, FlushDue
<1>. QED
  BY <1>1, ClockHandler, ClockClient, ClockWorker DEF Next

\* The session implements the epoch clock the caches rely on.
THEOREM SessionImplementsClock == Spec => ImplementsClock
BY ClockInitRefined, ClockStepRefined, Inductive, PTL DEF Spec,
   ImplementsClock, Clock!ClockSpec

=============================================================================
