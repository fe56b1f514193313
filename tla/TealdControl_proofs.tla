------------------------ MODULE TealdControl_proofs -------------------------
(***************************************************************************)
(* Proofs about TealdControl, for any users, roles, connections, policies, *)
(* epochs, commands and restarts.                                          *)
(*                                                                         *)
(* CInv follows a command from its audit id through the slot to the lock,  *)
(* the one that runs through its steps, and what teald, the kernel and the *)
(* directories know of one another at each of them.                        *)
(***************************************************************************)
EXTENDS TealdControl, SequenceTheorems, FiniteSetTheorems, TLAPS

-----------------------------------------------------------------------------
(* The strengthening. *)

\* What a command carries.
CommandInv ==
    /\ \A c \in Conn : conn[c].pc # "idle" =>
           /\ conn[c].id \in Id
           /\ conn[c].asks \in Policies
           /\ conn[c].kind = "POLICY_UPDATE" => conn[c].target # None
           /\ conn[c].pc \in {"final", "lock", "run"} => conn[c].epoch \in Epoch
    /\ slot # None => (slot.kind = "POLICY_UPDATE" => slot.target # None)
    /\ exec.pc \notin {"free", "uncertain"} =>
           (exec.kind = "POLICY_UPDATE" => exec.target # None)

\* Before it runs, teald serves no commands.
StartInv ==
    /\ proc # "down" => bundle # None
    /\ proc \in {"sync", "ack", "run"} => epoch \in Epoch /\ mgmt # None
    /\ proc # "run" => /\ slot = None
                       /\ \A c \in Conn : conn[c].pc = "idle"
                       /\ exec.conn = None
                       /\ exec.pc \in {"free", "uncertain"}
    /\ proc \notin {"ack", "run"} => exec.pc = "free"

\* One command runs at a time, on the connection that holds the lock.
SerialInv ==
    /\ \A c \in Conn : conn[c].pc = "run" => exec.conn = c
    /\ exec.pc = "free" => exec.conn = None
    /\ proc = "run" /\ exec.pc # "free" =>
           exec.conn \in Conn /\ conn[exec.conn].pc = "run"

Gated == {"validate", "compile", "prepare", "backup", "apply", "sync", "ack",
          "commit", "manage", "invalidate", "open"}
Both == {"sync", "ack", "commit", "invalidate", "open"}
KindInv ==
    /\ exec.pc \in {"switch", "clear"} => exec.kind \in {"START", "STOP"}
    /\ exec.pc \in Gated \ Both => exec.kind = "POLICY_UPDATE"
    /\ exec.pc \in Both => exec.kind \in {"POLICY_UPDATE", "FLUSH"}
    /\ exec.pc \in Gated => gate

\* An epoch on its way to the kernel is the one that is waited for.
IsSync(n) == lane[n].kind = "sync"
Awaited(e) ==
    \/ proc = "ack" /\ exec.pc = "free" /\ e = epoch
    \/ proc = "run" /\ exec.pc = "ack" /\ e = epoch + 1
SyncInv ==
    /\ \A n \in DOMAIN lane : IsSync(n) => Awaited(lane[n].epoch)
    /\ \A m, n \in DOMAIN lane : IsSync(m) /\ IsSync(n) => m = n

EpochInv ==
    /\ exec.pc \in {"ack", "commit"} => epoch < MaxEpoch
    /\ proc = "run" /\ exec.pc = "commit" => kernel.epoch = epoch + 1
    /\ proc = "run" /\ exec.pc \notin {"uncertain", "commit"} =>
           kernel.epoch = epoch
    /\ proc = "sync" \/ (proc = "ack" /\ exec.pc = "free") =>
           epoch = kernel.epoch + 1

\* Where the policy in force, and the one that is to follow it, are.  While
\* nothing was staged over what teald was reading, it is one policy that was
\* signed, compiled, made a management of and renamed.
Reading == {"compile", "prepare", "backup"}
Moving == {"sync", "ack", "commit"}
Prepared == /\ exec.kind = "POLICY_UPDATE"
            /\ exec.pc \in {"backup", "apply", "manage"} \cup Moving
Kept == IF disk.base = None THEN disk.saved ELSE disk.base
DiskInv ==
    /\ disk.base = None => disk.saved # None /\ disk.new = None
    /\ exec.pc = "apply" => disk.base = None /\ disk.savedNew # None
    /\ exec.pc \in Reading => disk.new # None
    /\ exec.pc = "prepare" \/ Prepared => exec.newBundle # None
    /\ Prepared => exec.newMgmt # None
    /\ proc # "down" /\ ~stranded /\ exec.pc # "apply" => disk.base # None
    /\ proc # "run" => ~stranded /\ over = 0
KeptInv ==
    /\ exec.pc \notin {"uncertain"} \cup Moving => Kept = bundle
    /\ proc \in {"sync", "ack", "run"}
       /\ exec.pc \notin {"uncertain", "manage"} \cup Moving => Kept = mgmt
    /\ exec.pc \in Moving /\ exec.kind = "FLUSH" => Kept = bundle /\ Kept = mgmt
    /\ exec.pc \in {"manage"} \cup Moving /\ exec.kind # "FLUSH" =>
           disk.base = exec.target
    /\ exec.pc \in Reading => disk.new = exec.target
    /\ exec.pc = "apply" => disk.savedNew = exec.target
    /\ exec.pc = "prepare" \/ Prepared => exec.newBundle = exec.target
    /\ Prepared => exec.newMgmt = exec.target
DirectoryInv ==
    /\ DiskInv
    /\ proc # "down" /\ over = 0 => KeptInv
    /\ \/ exec.pc \in Reading \cup {"apply"}
       \/ exec.pc = "sync" /\ exec.kind = "POLICY_UPDATE"
       => epoch < MaxEpoch

\* Who has approved, and in which epoch.
Voters(i) == {u \in User : [id |-> i, user |-> u] \in voted}
QuorumInv ==
    /\ \A c \in Conn : conn[c].pc = "stamp" => ~conn[c].asks.mpa
    /\ slot # None => slot.by \subseteq Voters(slot.id) /\ slot.epoch <= epoch
    /\ \A c \in Conn : conn[c].pc \in {"final", "lock", "run"} =>
           /\ conn[c].epoch <= epoch
           /\ conn[c].asks.mpa /\ conn[c].epoch = epoch =>
                  Fulfilled(conn[c].asks, bundle.holds, Voters(conn[c].id))

\* An audit id is in one place.
OnceInv ==
    /\ ids \subseteq 1 .. issued
    /\ slot # None => slot.id \in 1 .. issued /\ slot.id \notin ids
    /\ \A c \in Conn : conn[c].pc # "idle" =>
           /\ conn[c].id \in 1 .. issued
           /\ conn[c].pc # "run" => conn[c].id \notin ids
           /\ slot # None => conn[c].id # slot.id
    /\ \A c, d \in Conn :
           conn[c].pc # "idle" /\ conn[d].pc # "idle" /\ conn[c].id = conn[d].id
               => c = d

\* The last mode on its way to the kernel, or the kernel's, is that of teald.
IsMode(n) == lane[n].kind = "mode"
LastMode(n) == IsMode(n) /\ \A m \in DOMAIN lane : m > n => ~IsMode(m)
Enforcing ==
    IF exec.pc = "clear" THEN exec.kind = "START" ELSE mode = "enforce"
NoMode == \A n \in DOMAIN lane : ~IsMode(n)
ModesOf(on) ==
    /\ \A n \in DOMAIN lane : LastMode(n) => (lane[n].on <=> on)
    /\ NoMode /\ ~unsent => (kernel.on <=> on)
Told == proc \notin {"down", "register"} /\ (overridden => exec.pc = "clear")
ModeInv == /\ proc # "run" => mode = "drain"
           /\ Told => ModesOf(Enforcing)

CInv == /\ TypeOK
        /\ CommandInv /\ StartInv /\ SerialInv /\ KindInv
        /\ SyncInv /\ EpochInv /\ DirectoryInv
        /\ QuorumInv /\ RunsInItsEpoch
        /\ OnceInv
        /\ ModeInv

-----------------------------------------------------------------------------
(* Messages, steps and commands. *)

ModeMessage(on) == [kind |-> "mode", on |-> on]
SyncMessage(e) == [kind |-> "sync", epoch |-> e]

LEMMA Sends ==
    ASSUME lane \in Seq(Message), NEW m \in Message, lane' = Append(lane, m)
    PROVE  /\ lane' \in Seq(Message)
           /\ Len(lane) \in Nat
           /\ DOMAIN lane = 1 .. Len(lane)
           /\ DOMAIN lane' = 1 .. Len(lane) + 1
           /\ \A n \in 1 .. Len(lane) : lane'[n] = lane[n]
           /\ lane'[Len(lane) + 1] = m
BY AppendProperties, LenProperties

LEMMA Dispatches ==
    ASSUME lane \in Seq(Message), NEW m, Dispatch(m)
    PROVE  /\ lane' \in Seq(Message)
           /\ Len(lane) \in Nat \ {0}
           /\ DOMAIN lane = 1 .. Len(lane)
           /\ DOMAIN lane' = 1 .. Len(lane) - 1
           /\ m = lane[1] /\ m \in Message
           /\ \A n \in 1 .. Len(lane) - 1 : lane'[n] = lane[n + 1]
<1>1. lane # <<>> /\ m = Head(lane) /\ lane' = Tail(lane)
  BY DEF Dispatch
<1>2. Len(lane) \in Nat /\ Len(lane) # 0 /\ DOMAIN lane = 1 .. Len(lane)
  BY <1>1, LenProperties, EmptySeq
<1>3. /\ Head(lane) \in Message /\ lane' \in Seq(Message)
      /\ Head(lane) = lane[1] /\ Len(lane') = Len(lane) - 1
      /\ \A n \in 1 .. Len(lane) - 1 : lane'[n] = lane[n + 1]
  BY <1>1, HeadTailProperties
<1>4. DOMAIN lane' = 1 .. Len(lane) - 1
  BY <1>3, LenProperties
<1>5. QED BY <1>1, <1>2, <1>3, <1>4

LEMMA MessageTyped ==
    /\ \A on \in BOOLEAN : ModeMessage(on) \in Message
    /\ \A e \in Epoch : SyncMessage(e) \in Message
BY DEF ModeMessage, SyncMessage, Message

LEMMA CommandTyped == NoCommand \in Command /\ NoExec \in Exec
BY DEF NoCommand, NoExec, Command, Exec, Kind

\* The command that runs goes on.
LEMMA Steps ==
    ASSUME exec \in Exec, NEW from, NEW to, Step(from, to),
           to \in {"clear", "compile", "backup", "apply", "sync", "ack",
                   "uncertain", "commit", "manage", "invalidate", "open"}
    PROVE  /\ exec.pc = from /\ exec'.pc = to /\ exec' \in Exec
           /\ exec'.conn = exec.conn /\ exec'.kind = exec.kind
           /\ exec'.target = exec.target
           /\ exec'.newBundle = exec.newBundle
           /\ exec'.newMgmt = exec.newMgmt
BY DEF Step, Exec

\* ... reads what was staged ...
LEMMA Reads ==
    ASSUME TypeOK, Compile \/ PrepareManagement
    PROVE  /\ exec' \in Exec
           /\ exec'.conn = exec.conn /\ exec'.kind = exec.kind
           /\ exec'.target = exec.target
           /\ \/ /\ Compile
                 /\ exec.pc = "compile" /\ exec'.pc = "prepare"
                 /\ exec'.newBundle = disk.new
                 /\ exec'.newMgmt = exec.newMgmt
              \/ /\ PrepareManagement
                 /\ exec.pc = "prepare" /\ exec'.pc = "backup"
                 /\ exec'.newBundle = exec.newBundle
                 /\ exec'.newMgmt = disk.new
<1>1. exec \in Exec /\ disk.new \in Policies \cup {None}
  BY DEF TypeOK, Directory
<1>2. CASE Compile
  BY <1>1, <1>2 DEF Compile, Exec
<1>3. CASE PrepareManagement
  BY <1>1, <1>3 DEF PrepareManagement, Exec
<1>4. QED BY <1>2, <1>3

\* ... or is over.
LEMMA Ends ==
    ASSUME TypeOK, Done
    PROVE  /\ exec'.pc = "free" /\ exec'.conn = None /\ exec' \in Exec
           /\ ~gate'
           /\ conn' \in [Conn -> Command]
           /\ \A c \in Conn : conn'[c] = IF c = exec.conn THEN NoCommand
                                         ELSE conn[c]
BY CommandTyped DEF Done, NoExec, TypeOK

-----------------------------------------------------------------------------
(* Types. *)

LEMMA InitTyped == Init => TypeOK
<1> SUFFICES ASSUME Init PROVE TypeOK
  OBVIOUS
<1> USE ControlAssumption, CommandTyped
<1>1. conn \in [Conn -> Command] /\ exec \in Exec
  BY DEF Init, Stopped
<1>2. disk \in Directory
  BY DEF Init, Directory
<1>3. kernel \in [on : BOOLEAN, epoch : Epoch \cup {0}] /\ lane \in Seq(Message)
  BY DEF Init, Stopped
<1>4. /\ quiet \in 0 .. MaxQuiet /\ issued \in 0 .. MaxId
      /\ started \in 0 .. MaxStart
  BY DEF Init, Stopped
<1>7. gate \in BOOLEAN
  BY DEF Init, Stopped
<1>8. overridden \in BOOLEAN /\ unsent \in BOOLEAN /\ stranded \in BOOLEAN
  BY DEF Init
<1>9. over \in 0 .. MaxOver
  BY DEF Init
<1>5. /\ proc = "down" /\ mode = "drain" /\ epoch = 0 /\ bundle = None
      /\ mgmt = None /\ slot = None /\ keys = {} /\ voted = {} /\ ids = {}
  BY DEF Init, Stopped
<1>6. QED BY <1>1, <1>2, <1>3, <1>4, <1>5, <1>7, <1>8, <1>9 DEF TypeOK

LEMMA StartTyped ==
    ASSUME CInv, Load \/ Register \/ Publish \/ SyncFirst
    PROVE  TypeOK'
<1> USE ControlAssumption DEF modeVars, policyVars, adminVars, kernelVars,
   diskVars
<1>1. TypeOK /\ StartInv
  BY DEF CInv
<1>2. CASE Load
  <2>1. bundle' \in Policies \cup {None} /\ started' \in 0 .. MaxStart
    BY <1>1, <1>2 DEF Load, TypeOK, Directory
  <2>2. QED BY <1>1, <1>2, <2>1 DEF Load, TypeOK
<1>3. CASE Register
  <2>1. lane' \in Seq(Message)
    BY <1>1, <1>3, MessageTyped, Sends DEF Register, TypeOK, ModeMessage
  <2>2. QED BY <1>1, <1>3, <2>1 DEF Register, TypeOK
<1>4. CASE Publish
  <2>1. epoch' \in Epoch \cup {0} /\ mgmt' \in Policies \cup {None}
    BY <1>1, <1>4 DEF Publish, TypeOK, Directory, Epoch
  <2>2. QED BY <1>1, <1>4, <2>1 DEF Publish, TypeOK
<1>5. CASE SyncFirst
  <2>1. epoch \in Epoch
    BY <1>1, <1>5 DEF SyncFirst, StartInv
  <2>2. lane' \in Seq(Message)
    BY <1>1, <1>5, <2>1, MessageTyped, Sends DEF SyncFirst, TypeOK, SyncMessage
  <2>3. QED BY <1>1, <1>5, <2>2 DEF SyncFirst, TypeOK
<1>6. QED BY <1>2, <1>3, <1>4, <1>5

\* Of a teald that is down nothing is left.
LEMMA ExitIs ==
    Exit => /\ proc' = "down" /\ mode' = "drain" /\ quiet' = 0 /\ epoch' = 0
            /\ bundle' = None /\ mgmt' = None /\ gate' = FALSE /\ slot' = None
            /\ keys' = {} /\ conn' = [c \in Conn |-> NoCommand]
            /\ exec' = NoExec /\ lane' = <<>> /\ overridden' = FALSE
            /\ unsent' = FALSE /\ over' = 0 /\ stranded' = FALSE
BY DEF Exit, Stopped

LEMMA ExitTyped ==
    ASSUME CInv, Crash \/ GiveUp
    PROVE  TypeOK'
<1> USE ControlAssumption, CommandTyped
<1>1. TypeOK /\ Exit
  BY DEF CInv, Crash, GiveUp
<1>2. UNCHANGED <<kernel, disk, issued, started, voted, ids>>
  BY <1>1 DEF Exit
<1>3. conn' \in [Conn -> Command] /\ exec' \in Exec /\ lane' \in Seq(Message)
  BY <1>1, ExitIs
<1>4. gate' \in BOOLEAN
  BY <1>1, ExitIs
<1>7. overridden' \in BOOLEAN /\ unsent' \in BOOLEAN /\ stranded' \in BOOLEAN
  BY <1>1, ExitIs
<1>8. quiet' \in 0 .. MaxQuiet /\ over' \in 0 .. MaxOver
  BY <1>1, ExitIs
<1>5. /\ kernel' \in [on : BOOLEAN, epoch : Epoch \cup {0}]
      /\ disk' \in Directory /\ issued' \in 0 .. MaxId
      /\ started' \in 0 .. MaxStart
      /\ voted' \subseteq [id : Id, user : User] /\ ids' \subseteq Id
  BY <1>1, <1>2 DEF TypeOK
<1>6. QED BY <1>1, <1>3, <1>4, <1>5, <1>7, <1>8, ExitIs DEF TypeOK

\* What the sender and the kernel make of an epoch.
LEMMA Syncs ==
    ASSUME TypeOK, NEW e \in Epoch, NEW reached \in BOOLEAN,
           NEW acked \in BOOLEAN, SyncEpoch(e, reached, acked)
    PROVE  /\ lane' \in Seq(Message)
           /\ kernel' \in [on : BOOLEAN, epoch : Epoch \cup {0}]
           /\ kernel'.on = kernel.on
           /\ kernel'.epoch = IF reached THEN e ELSE kernel.epoch
           /\ Dispatch(SyncMessage(e))
BY Dispatches DEF SyncEpoch, SyncMessage, TypeOK

LEMMA SendTyped ==
    ASSUME CInv, Send
    PROVE  TypeOK'
<1> USE ControlAssumption DEF modeVars, policyVars, adminVars, kernelVars,
   diskVars
<1>1. TypeOK
  BY DEF CInv
<1>2. ASSUME NEW on \in BOOLEAN, NEW reached \in BOOLEAN,
             SwitchMode(on, reached) PROVE TypeOK'
  <2>1. lane' \in Seq(Message)
    BY <1>1, <1>2, Dispatches DEF SwitchMode, TypeOK
  <2>2. kernel' \in [on : BOOLEAN, epoch : Epoch \cup {0}]
    BY <1>1, <1>2 DEF SwitchMode, TypeOK
  <2>3. unsent' \in BOOLEAN
    BY <1>2 DEF SwitchMode
  <2>4. QED BY <1>1, <1>2, <2>1, <2>2, <2>3 DEF SwitchMode, TypeOK
<1>3. ASSUME NEW e \in Epoch, NEW reached \in BOOLEAN, NEW acked \in BOOLEAN,
             SyncedFirst(e, reached, acked)
      PROVE  TypeOK'
  <2>1. /\ lane' \in Seq(Message)
        /\ kernel' \in [on : BOOLEAN, epoch : Epoch \cup {0}]
    BY <1>1, <1>3, Syncs DEF SyncedFirst
  <2>2. exec' \in Exec /\ proc' \in {"ack", "run"}
    BY <1>1, <1>3 DEF SyncedFirst, TypeOK, Exec
  <2>3. QED BY <1>1, <1>3, <2>1, <2>2 DEF SyncedFirst, SyncEpoch, TypeOK
<1>4. ASSUME NEW e \in Epoch, NEW reached \in BOOLEAN, NEW acked \in BOOLEAN,
             Synced(e, reached, acked)
      PROVE  TypeOK'
  <2>1. /\ lane' \in Seq(Message)
        /\ kernel' \in [on : BOOLEAN, epoch : Epoch \cup {0}]
    BY <1>1, <1>4, Syncs DEF Synced
  <2>2. exec' \in Exec
    BY <1>1, <1>4 DEF Synced, TypeOK, Exec
  <2>3. QED BY <1>1, <1>4, <2>1, <2>2 DEF Synced, SyncEpoch, TypeOK
<1>5. QED BY <1>2, <1>3, <1>4 DEF Send

LEMMA MonitorTyped ==
    ASSUME CInv, LookQuiet \/ LookBusy
    PROVE  TypeOK'
<1> USE ControlAssumption DEF policyVars, adminVars, kernelVars, diskVars,
        MonitorOnly
<1>1. TypeOK
  BY DEF CInv
<1>2. CASE LookQuiet
  <2>1. overridden' \in BOOLEAN
    BY <1>1, <1>2 DEF LookQuiet, TypeOK
  <2>2. quiet' \in 0 .. MaxQuiet /\ mode' \in {"drain", "audit", "enforce"}
    BY <1>1, <1>2 DEF LookQuiet, TypeOK
  <2>3. QED BY <1>1, <1>2, <2>1, <2>2 DEF LookQuiet, TypeOK
<1>3. CASE LookBusy
  BY <1>1, <1>3 DEF LookBusy, TypeOK
<1>4. QED BY <1>2, <1>3

-----------------------------------------------------------------------------
(* Commands on their connections. *)

Others(c) == \A d \in Conn \ {c} : conn'[d] = conn[d]
SameCommand(c) ==
    /\ conn'[c].id = conn[c].id /\ conn'[c].kind = conn[c].kind
    /\ conn'[c].target = conn[c].target /\ conn'[c].asks = conn[c].asks

\* A teald that runs serves them.
LEMMA Serves ==
    ASSUME CInv
    PROVE  /\ TypeOK
           /\ \A c \in Conn : conn[c].pc # "idle" =>
                  /\ proc = "run"
                  /\ conn[c].id \in Id /\ conn[c].asks \in Policies
                  /\ conn[c].pc \in {"final", "lock", "run"} =>
                         conn[c].epoch \in Epoch
           /\ proc = "run" =>
                  bundle \in Policies /\ mgmt \in Policies /\ epoch \in Epoch
BY DEF CInv, StartInv, CommandInv, TypeOK

LEMMA Initiated ==
    ASSUME TypeOK, mgmt \in Policies, NEW c \in Conn, NEW u \in User,
           NEW k \in Kind, Initiate(c, u, k)
    PROVE  /\ conn' \in [Conn -> Command] /\ Others(c)
           /\ issued \in Nat /\ issued' = issued + 1 /\ issued' \in Id
           /\ conn'[c].pc = IF mgmt.mpa THEN "pend" ELSE "stamp"
           /\ conn'[c].id = issued' /\ conn'[c].kind = k
           /\ conn'[c].epoch = 0 /\ conn'[c].asks = mgmt
           /\ k = "POLICY_UPDATE" => conn'[c].target # None
<1> DEFINE pc == IF mgmt.mpa THEN "pend" ELSE "stamp"
           target == IF k = "POLICY_UPDATE" THEN disk.new ELSE None
           n == [NoCommand EXCEPT !.pc = pc, !.id = issued', !.kind = k,
                                  !.target = target, !.asks = mgmt]
<1>1. issued \in Nat /\ issued' = issued + 1 /\ issued' \in Id
  BY ControlAssumption DEF Initiate, TypeOK, Id
<1>2. conn' = [conn EXCEPT ![c] = n]
  BY DEF Initiate
<1>3. target \in Policies \cup {None} /\ pc \in {"pend", "stamp"}
  BY DEF TypeOK, Directory
<1>4. k = "POLICY_UPDATE" => target # None
  BY DEF Initiate
<1> HIDE DEF pc, target
<1>5. n \in Command /\ n.pc = pc /\ n.id = issued' /\ n.kind = k
      /\ n.target = target /\ n.epoch = 0 /\ n.asks = mgmt
  BY <1>1, <1>3, CommandTyped DEF Command, NoCommand
<1> HIDE DEF n
<1>6. conn' \in [Conn -> Command] /\ conn'[c] = n /\ Others(c)
  BY <1>2, <1>5 DEF TypeOK, Others
<1>7. QED BY <1>1, <1>4, <1>5, <1>6 DEF pc

LEMMA Pended ==
    ASSUME TypeOK, NEW c \in Conn, Pend(c)
    PROVE  /\ conn' \in [Conn -> Command] /\ Others(c) /\ conn'[c] = NoCommand
           /\ conn[c].pc = "pend"
           /\ slot' = IF slot # None THEN slot
                      ELSE [id |-> conn[c].id, kind |-> conn[c].kind,
                            target |-> conn[c].target, epoch |-> epoch,
                            asks |-> conn[c].asks, by |-> {}]
BY CommandTyped DEF Pend, TypeOK, Others

LEMMA Stamped ==
    ASSUME TypeOK, NEW c \in Conn, Stamp(c)
    PROVE  /\ conn' \in [Conn -> Command] /\ Others(c) /\ SameCommand(c)
           /\ conn[c].pc = "stamp" /\ conn'[c].pc = "lock"
           /\ conn'[c].epoch = epoch
<1> DEFINE n == [conn[c] EXCEPT !.pc = "lock", !.epoch = epoch]
<1>1. n \in Command /\ n.pc = "lock" /\ n.id = conn[c].id
      /\ n.kind = conn[c].kind /\ n.target = conn[c].target
      /\ n.epoch = epoch /\ n.asks = conn[c].asks
  BY DEF TypeOK, Command
<1>2. conn' = [conn EXCEPT ![c] = n]
  BY DEF Stamp, TypeOK
<1> HIDE DEF n
<1>3. QED BY <1>1, <1>2 DEF TypeOK, Others, SameCommand, Stamp

LEMMA Finalized ==
    ASSUME TypeOK, NEW c \in Conn, Finalize(c)
    PROVE  /\ conn' \in [Conn -> Command] /\ Others(c) /\ conn[c].pc = "final"
           /\ \/ conn'[c] = NoCommand
              \/ /\ SameCommand(c) /\ conn'[c].pc = "lock"
                 /\ conn'[c].epoch = conn[c].epoch
<1> DEFINE n == [conn[c] EXCEPT !.pc = "lock"]
<1>1. n \in Command /\ n.pc = "lock" /\ n.id = conn[c].id
      /\ n.kind = conn[c].kind /\ n.target = conn[c].target
      /\ n.epoch = conn[c].epoch /\ n.asks = conn[c].asks
  BY DEF TypeOK, Command
<1>2. conn' = [conn EXCEPT ![c] =
                   IF conn[c].epoch = epoch THEN n ELSE NoCommand]
  BY DEF Finalize, TypeOK
<1> HIDE DEF n
<1>3. QED BY <1>1, <1>2, CommandTyped DEF Finalize, TypeOK, Others, SameCommand

LEMMA Approved ==
    ASSUME TypeOK, NEW c \in Conn, NEW u \in User, NEW i \in 1 .. issued,
           ApproveCtl(c, u, i)
    PROVE  /\ slot \in Pending /\ slot.id = i /\ slot.epoch = epoch
           /\ conn[c].pc = "idle"
           /\ conn' \in [Conn -> Command] /\ Others(c)
           /\ voted' = voted \cup {[id |-> i, user |-> u]}
           /\ \/ /\ conn'[c] = conn[c]
                 /\ slot' \in Pending /\ slot'.by = slot.by \cup {u}
                 /\ slot'.id = slot.id /\ slot'.kind = slot.kind
                 /\ slot'.target = slot.target /\ slot'.epoch = slot.epoch
                 /\ slot'.asks = slot.asks
              \/ /\ slot' = None
                 /\ Fulfilled(slot.asks, bundle.holds, slot.by \cup {u})
                 /\ conn'[c].pc = "final" /\ conn'[c].id = slot.id
                 /\ conn'[c].kind = slot.kind /\ conn'[c].target = slot.target
                 /\ conn'[c].epoch = slot.epoch /\ conn'[c].asks = slot.asks
<1> DEFINE by == slot.by \cup {u}
           done == Fulfilled(slot.asks, bundle.holds, by)
           n == [pc |-> "final", id |-> slot.id, kind |-> slot.kind,
                 target |-> slot.target, epoch |-> slot.epoch,
                 asks |-> slot.asks]
<1>1. slot \in Pending /\ slot.id = i /\ slot.epoch = epoch
  BY DEF ApproveCtl, IsMeant, MaySign, TypeOK
<1>2. n \in Command
  BY <1>1 DEF Pending, Command
<1>3. /\ conn[c].pc = "idle"
      /\ voted' = voted \cup {[id |-> i, user |-> u]}
      /\ slot' = IF done THEN None ELSE [slot EXCEPT !.by = by]
      /\ conn' = IF ~done THEN conn ELSE [conn EXCEPT ![c] = n]
  BY DEF ApproveCtl, TakeSlot
<1>4. CASE done
  <2>1. slot' = None /\ conn' = [conn EXCEPT ![c] = n]
    BY <1>3, <1>4
  <2>2. conn'[c] = n /\ conn' \in [Conn -> Command] /\ Others(c)
    BY <1>2, <2>1 DEF TypeOK, Others
  <2>3. QED BY <1>1, <1>3, <1>4, <2>1, <2>2
<1>5. CASE ~done
  <2>1. slot' = [slot EXCEPT !.by = by] /\ conn' = conn
    BY <1>3, <1>5
  <2>2. /\ slot' \in Pending /\ slot'.by = slot.by \cup {u}
        /\ slot'.id = slot.id /\ slot'.kind = slot.kind
        /\ slot'.target = slot.target /\ slot'.epoch = slot.epoch
        /\ slot'.asks = slot.asks
    BY <1>1, <2>1 DEF Pending
  <2>3. QED BY <1>1, <1>3, <2>1, <2>2 DEF TypeOK, Others
<1>6. QED BY <1>4, <1>5

LEMMA Executed ==
    ASSUME TypeOK, NEW c \in Conn, Execute(c)
    PROVE  /\ conn[c].pc = "lock" /\ exec.pc = "free"
           /\ conn' \in [Conn -> Command] /\ Others(c)
           /\ exec' \in Exec
           /\ \/ /\ conn[c].epoch = epoch
                 /\ SameCommand(c) /\ conn'[c].pc = "run"
                 /\ conn'[c].epoch = conn[c].epoch
                 /\ exec'.conn = c /\ exec'.kind = conn[c].kind
                 /\ exec'.target = conn[c].target
                 /\ exec'.pc = FirstStep(conn[c].kind)
                 /\ gate' = (conn[c].kind \in {"POLICY_UPDATE", "FLUSH"})
                 /\ ids' = ids \cup {conn[c].id}
              \/ /\ conn'[c] = NoCommand
                 /\ UNCHANGED exec /\ UNCHANGED gate /\ UNCHANGED ids
<1>1. conn[c] \in Command /\ conn[c].pc = "lock" /\ exec.pc = "free"
  BY DEF Execute, TypeOK
<1>2. CASE conn[c].epoch = epoch
  <2> DEFINE n == [conn[c] EXCEPT !.pc = "run"]
             e == [conn |-> c, kind |-> conn[c].kind,
                   target |-> conn[c].target, newBundle |-> None,
                   newMgmt |-> None, pc |-> FirstStep(conn[c].kind)]
  <2>1. n \in Command /\ n.pc = "run" /\ n.id = conn[c].id
        /\ n.kind = conn[c].kind /\ n.target = conn[c].target
        /\ n.epoch = conn[c].epoch /\ n.asks = conn[c].asks
    BY <1>1 DEF Command
  <2>2. e \in Exec
    <3>1. conn[c].kind \in Kind /\ conn[c].target \in Policies \cup {None}
      BY <1>1 DEF Command
    <3>2. FirstStep(conn[c].kind) \in {"switch", "validate", "sync"}
      BY <3>1 DEF FirstStep, Kind
    <3>3. QED BY <3>1, <3>2 DEF Exec
  <2>3. conn' = [conn EXCEPT ![c] = n]
    BY <1>2 DEF Execute, Expected, TypeOK
  <2>4. exec' = e
    BY <1>2 DEF Execute, Expected, NoExec
  <2>5. /\ gate' = (conn[c].kind \in {"POLICY_UPDATE", "FLUSH"})
        /\ ids' = ids \cup {conn[c].id}
    BY <1>2 DEF Execute, Expected
  <2> HIDE DEF n
  <2>6. conn' \in [Conn -> Command] /\ Others(c) /\ conn'[c] = n
    BY <2>1, <2>3 DEF TypeOK, Others
  <2>7. QED BY <1>1, <1>2, <2>1, <2>2, <2>4, <2>5, <2>6 DEF SameCommand
<1>3. CASE conn[c].epoch # epoch
  <2>1. /\ conn' = [conn EXCEPT ![c] = NoCommand]
        /\ UNCHANGED exec /\ UNCHANGED gate /\ UNCHANGED ids
    BY <1>3 DEF Execute, Expected
  <2>2. QED BY <1>1, <2>1, CommandTyped DEF TypeOK, Others
<1>4. QED BY <1>2, <1>3

\* A command that comes in, is put to approval, is stamped or completes.
AdminStep(c) ==
    \/ Pend(c) \/ Stamp(c) \/ Finalize(c)
    \/ \E u \in User, k \in Kind : Initiate(c, u, k)
    \/ \E u \in User, i \in 1 .. issued : ApproveCtl(c, u, i) \/ DenyCtl(c, u, i)

LEMMA AdminTyped ==
    ASSUME CInv, NEW c \in Conn, AdminStep(c)
    PROVE  TypeOK'
<1> USE ControlAssumption DEF modeVars, policyVars, kernelVars, diskVars,
        AdminOnly
<1>1. TypeOK
  BY DEF CInv
<1>2. CASE Pend(c)
  <2>1. slot' \in Pending \cup {None}
    BY <1>1, <1>2, Serves, Pended DEF Pending, TypeOK, Command
  <2>2. conn' \in [Conn -> Command]
    BY <1>1, <1>2, Pended
  <2>3. QED BY <1>1, <1>2, <2>1, <2>2 DEF Pend, TypeOK
<1>3. CASE Stamp(c)
  <2>1. conn' \in [Conn -> Command]
    BY <1>1, <1>3, Stamped
  <2>2. QED BY <1>1, <1>3, <2>1 DEF Stamp, TypeOK
<1>4. CASE Finalize(c)
  <2>1. conn' \in [Conn -> Command]
    BY <1>1, <1>4, Finalized
  <2>2. QED BY <1>1, <1>4, <2>1 DEF Finalize, TypeOK
<1>5. ASSUME NEW u \in User, NEW k \in Kind, Initiate(c, u, k) PROVE TypeOK'
  <2>1. mgmt \in Policies
    BY <1>5, Serves DEF Initiate
  <2>2. conn' \in [Conn -> Command] /\ issued' \in 0 .. MaxId
    BY <1>1, <1>5, <2>1, Initiated DEF Id
  <2>3. QED BY <1>1, <1>5, <2>2 DEF Initiate, TypeOK
<1>6. ASSUME NEW u \in User, NEW i \in 1 .. issued, ApproveCtl(c, u, i)
      PROVE  TypeOK'
  <2>1. /\ conn' \in [Conn -> Command] /\ slot' \in Pending \cup {None}
        /\ voted' = voted \cup {[id |-> i, user |-> u]}
    BY <1>1, <1>6, Approved
  <2>2. voted' \subseteq [id : Id, user : User]
    BY <1>1, <2>1 DEF TypeOK, Id
  <2>3. QED BY <1>1, <1>6, <2>1, <2>2 DEF ApproveCtl, TypeOK
<1>7. ASSUME NEW u \in User, NEW i \in 1 .. issued, DenyCtl(c, u, i)
      PROVE  TypeOK'
  BY <1>1, <1>7 DEF DenyCtl, TypeOK
<1>8. QED BY <1>2, <1>3, <1>4, <1>5, <1>6, <1>7 DEF AdminStep

LEMMA RegisterTyped ==
    ASSUME CInv, NEW u \in User, RegisterKey(u)
    PROVE  TypeOK'
BY DEF CInv, RegisterKey, AdminOnly, TypeOK, modeVars, policyVars, kernelVars,
   diskVars

LEMMA ExecuteTyped ==
    ASSUME CInv, NEW c \in Conn, Execute(c)
    PROVE  TypeOK'
<1>1. TypeOK /\ conn[c].id \in Id
  BY Serves, Executed
<1>2. gate' \in BOOLEAN
  <2>1. CASE Expected(conn[c].epoch)
    BY <2>1 DEF Execute
  <2>2. CASE ~Expected(conn[c].epoch)
    BY <1>1, <2>2 DEF Execute, TypeOK
  <2>3. QED BY <2>1, <2>2
<1>3. /\ conn' \in [Conn -> Command] /\ exec' \in Exec /\ ids' \subseteq Id
  BY <1>1, Executed DEF TypeOK
<1>4. QED BY <1>1, <1>2, <1>3 DEF Execute, TypeOK, modeVars, policyVars,
             kernelVars, diskVars

\* What a step of the command that runs leaves alone.
LEMMA ExecTyped ==
    ASSUME TypeOK, ExecOnly, exec' \in Exec, gate' \in BOOLEAN,
           conn' \in [Conn -> Command], lane' \in Seq(Message),
           disk' \in Directory, slot' \in Pending \cup {None},
           mode' \in {"drain", "audit", "enforce"}, overridden' \in BOOLEAN,
           epoch' \in Epoch \cup {0}, bundle' \in Policies \cup {None},
           mgmt' \in Policies \cup {None}, UNCHANGED over,
           stranded' \in BOOLEAN
    PROVE  TypeOK'
BY DEF ExecOnly, TypeOK, kernelVars

LEMMA RunTyped ==
    ASSUME CInv, Run
    PROVE  TypeOK'
<1> USE DEF policyVars, diskVars
<1>1. TypeOK /\ EpochInv /\ exec \in Exec /\ disk \in Directory
  BY DEF CInv, TypeOK
<1>2. CASE Switch
  <2>1. lane' \in Seq(Message)
    BY <1>1, <1>2, MessageTyped, Sends DEF Switch, TypeOK, ModeMessage
  <2>2. exec' \in Exec
    BY <1>1, <1>2, Steps DEF Switch
  <2>3. QED BY <1>1, <1>2, <2>1, <2>2, ExecTyped DEF Switch, TypeOK
<1>3. CASE Clear
  <2>1. overridden' \in BOOLEAN
    BY <1>3 DEF Clear
  <2>2. gate' \in BOOLEAN
    BY <1>3 DEF Clear, Done
  <2>3. QED BY <1>1, <1>3, <2>1, <2>2, Ends, ExecTyped DEF Clear, ModeAfter,
               TypeOK
<1>4. CASE Validate \/ PrepareFails \/ Overflow \/ Open
  <2>1. CASE Done
    <3>1. gate' \in BOOLEAN
      BY <2>1 DEF Done
    <3>2. QED BY <1>1, <1>4, <2>1, <3>1, Ends, ExecTyped
                 DEF Validate, PrepareFails, Overflow, Open, TypeOK
  <2>2. CASE Step("validate", "compile") /\ UNCHANGED <<gate, conn>> /\ Validate
    BY <1>1, <2>2, Steps, ExecTyped DEF Validate, TypeOK
  <2>3. QED BY <1>4, <2>1, <2>2 DEF Validate, PrepareFails, Overflow, Open
<1>13. CASE Compile \/ PrepareManagement
  BY <1>1, <1>13, Reads, ExecTyped DEF Compile, PrepareManagement, TypeOK
<1>5. CASE Backup
  <2>1. disk' \in Directory
    BY <1>1, <1>5 DEF Backup, Directory
  <2>2. QED BY <1>1, <1>5, <2>1, Steps, ExecTyped DEF Backup, TypeOK
<1>6. CASE Apply
  <2>1. disk' \in Directory
    BY <1>1, <1>6 DEF Apply, Directory
  <2>2. QED BY <1>1, <1>6, <2>1, Steps, ExecTyped DEF Apply, TypeOK
<1>7. ASSUME NEW undone \in BOOLEAN, ApplyFails(undone) PROVE TypeOK'
  <2>1. disk' \in Directory
    BY <1>1, <1>7 DEF ApplyFails, RolledBack, Directory
  <2>2. gate' \in BOOLEAN /\ stranded' \in BOOLEAN
    BY <1>1, <1>7 DEF ApplyFails, Done, TypeOK
  <2>3. QED BY <1>1, <1>7, <2>1, <2>2, Ends, ExecTyped DEF ApplyFails, TypeOK
<1>8. CASE Sync
  <2>1. epoch + 1 \in Epoch
    BY <1>1, <1>8, ControlAssumption DEF Sync, TypeOK, Epoch
  <2>2. lane' \in Seq(Message)
    BY <1>1, <1>8, <2>1, MessageTyped, Sends DEF Sync, TypeOK, SyncMessage
  <2>3. QED BY <1>1, <1>8, <2>2, Steps, ExecTyped DEF Sync, TypeOK
<1>9. CASE Commit
  <2>1. epoch' \in Epoch \cup {0}
    BY <1>1, <1>9, ControlAssumption DEF Commit, Step, EpochInv, TypeOK, Epoch
  <2>2. bundle' \in Policies \cup {None}
    BY <1>1, <1>9 DEF Commit, TypeOK, Exec
  <2>3. exec' \in Exec
    BY <1>1, <1>9, Steps DEF Commit
  <2>4. QED BY <1>1, <1>9, <2>1, <2>2, <2>3, ExecTyped DEF Commit, TypeOK
<1>10. CASE Manage
  <2>1. mgmt' \in Policies \cup {None}
    BY <1>1, <1>10 DEF Manage, Exec
  <2>2. QED BY <1>1, <1>10, <2>1, Steps, ExecTyped DEF Manage, TypeOK
<1>11. CASE Invalidate
  BY <1>1, <1>11, Steps, ExecTyped DEF Invalidate, Invalidated, TypeOK
<1>12. QED BY <1>2, <1>3, <1>4, <1>5, <1>6, <1>7, <1>8, <1>9, <1>10, <1>11,
              <1>13 DEF Run

LEMMA StageTyped ==
    ASSUME CInv, NEW p \in Policies, Stage(p)
    PROVE  TypeOK'
<1>1. TypeOK /\ disk' \in Directory
  BY DEF CInv, TypeOK, Stage, Directory
<1>2. over' \in 0 .. MaxOver
  BY <1>1, ControlAssumption DEF Stage, TypeOK
<1>3. QED BY <1>1, <1>2 DEF Stage, TypeOK, modeVars, policyVars, adminVars,
             kernelVars

-----------------------------------------------------------------------------
(* The way of a command. *)

FlowInv == CommandInv /\ StartInv /\ SerialInv /\ KindInv

\* The steps of the command that runs, but its last.
Goes(from, to) == exec.pc = from /\ exec'.pc = to
GoesOn ==
    /\ UNCHANGED conn /\ UNCHANGED gate
    /\ exec'.conn = exec.conn /\ exec'.kind = exec.kind
    /\ exec'.target = exec.target
    /\ \/ Goes("switch", "clear")
       \/ Goes("validate", "compile") \/ Goes("compile", "prepare")
       \/ Goes("prepare", "backup")
       \/ Goes("backup", "apply") \/ Goes("apply", "sync") \/ Goes("sync", "ack")
       \/ exec.kind = "FLUSH" /\ Goes("commit", "invalidate")
       \/ exec.kind # "FLUSH" /\ Goes("commit", "manage")
       \/ Goes("manage", "invalidate") \/ Goes("invalidate", "open")

LEMMA RunGoes ==
    ASSUME TypeOK, Run
    PROVE  /\ exec.pc \notin {"free", "ack", "uncertain"}
           /\ UNCHANGED proc /\ UNCHANGED kernel /\ UNCHANGED unsent
           /\ UNCHANGED voted /\ UNCHANGED ids /\ UNCHANGED issued
           /\ \/ /\ Done
                 /\ exec.pc \in {"clear", "validate", "compile", "prepare",
                                 "backup", "apply", "sync", "open"}
              \/ GoesOn
<1> USE DEF ExecOnly, policyVars, kernelVars
<1>1. exec \in Exec
  BY DEF TypeOK
<1>2. CASE Switch
  BY <1>1, <1>2, Steps DEF Switch, GoesOn, Goes
<1>3. CASE \/ Clear \/ PrepareFails \/ (\E undone \in BOOLEAN : ApplyFails(undone))
           \/ Overflow \/ Open
  BY <1>3 DEF Clear, PrepareFails, ApplyFails, Overflow, Open
<1>4. CASE Validate
  BY <1>1, <1>4, Steps DEF Validate, GoesOn, Goes
<1>12. CASE Compile \/ PrepareManagement
  BY <1>1, <1>12, Reads DEF Compile, PrepareManagement, GoesOn, Goes
<1>5. CASE Backup
  BY <1>1, <1>5, Steps DEF Backup, GoesOn, Goes
<1>6. CASE Apply
  BY <1>1, <1>6, Steps DEF Apply, GoesOn, Goes
<1>7. CASE Sync
  BY <1>1, <1>7, Steps DEF Sync, GoesOn, Goes
<1>8. CASE Commit
  BY <1>1, <1>8, Steps DEF Commit, GoesOn, Goes
<1>9. CASE Manage
  BY <1>1, <1>9, Steps DEF Manage, GoesOn, Goes
<1>10. CASE Invalidate
  BY <1>1, <1>10, Steps DEF Invalidate, GoesOn, Goes
<1>11. QED BY <1>2, <1>3, <1>4, <1>5, <1>6, <1>7, <1>8, <1>9, <1>10, <1>12
           DEF Run

LEMMA RunOnPolicy ==
    ASSUME TypeOK, Run
    PROVE  /\ \/ UNCHANGED epoch /\ UNCHANGED bundle
              \/ /\ exec.pc = "commit" /\ epoch' = epoch + 1
                 /\ bundle' = IF exec.kind = "FLUSH" THEN bundle ELSE exec.newBundle
           /\ \/ UNCHANGED mgmt
              \/ exec.pc = "manage" /\ mgmt' = exec.newMgmt
           /\ UNCHANGED slot \/ slot' = None
BY DEF Run, Switch, Clear, Validate, Compile, PrepareManagement, PrepareFails,
   Backup, Apply, ApplyFails, Sync, Overflow, Commit, Manage, Invalidate,
   Invalidated, Open, Step, policyVars

LEMMA RunFlows ==
    ASSUME CInv, Run
    PROVE  FlowInv'
<1> USE ControlAssumption
<1>1. /\ TypeOK /\ CommandInv /\ StartInv /\ SerialInv /\ KindInv /\ EpochInv
      /\ DirectoryInv /\ exec \in Exec
  BY DEF CInv, TypeOK
<1>2. /\ proc = "run" /\ proc' = "run" /\ exec.conn \in Conn
      /\ exec.pc \notin {"free", "ack", "uncertain"} /\ (Done \/ GoesOn)
  BY <1>1, RunGoes DEF StartInv, SerialInv
<1>3. bundle' # None /\ mgmt' # None /\ epoch' \in Epoch
  <2>1. exec.pc = "manage" => exec.newMgmt # None
    BY <1>1 DEF DirectoryInv, DiskInv, Prepared, KindInv, Gated, Both
  <2>2. exec.pc = "commit" /\ exec.kind # "FLUSH" => exec.newBundle # None
    BY <1>1 DEF DirectoryInv, DiskInv, Prepared, Moving, KindInv, Gated, Both
  <2>3. exec.pc = "commit" => epoch + 1 \in Epoch
    BY <1>1, <1>2 DEF EpochInv, TypeOK, Epoch
  <2>4. QED BY <1>1, <1>2, <2>1, <2>2, <2>3, RunOnPolicy DEF StartInv
<1>4. CASE Done
  <2>1. /\ exec'.pc = "free" /\ exec'.conn = None
        /\ \A c \in Conn : conn'[c] = IF c = exec.conn THEN NoCommand
                                      ELSE conn[c]
    BY <1>1, <1>4, Ends
  <2>2. NoCommand.pc = "idle"
    BY DEF NoCommand
  <2>3. CommandInv'
    <3>1. slot' # None => slot' = slot
      BY <1>1, RunOnPolicy
    <3>2. QED BY <1>1, <2>1, <2>2, <3>1 DEF CommandInv
  <2>4. StartInv'
    BY <1>2, <1>3, <2>1 DEF StartInv
  <2>5. SerialInv'
    BY <1>1, <1>2, <2>1, <2>2 DEF SerialInv
  <2>6. KindInv'
    BY <2>1 DEF KindInv, Gated, Both
  <2>7. QED BY <2>3, <2>4, <2>5, <2>6 DEF FlowInv
<1>5. CASE GoesOn
  <2>1. CommandInv'
    <3>1. slot' # None => slot' = slot
      BY <1>1, RunOnPolicy
    <3>2. conn' = conn /\ exec'.kind = exec.kind /\ exec'.target = exec.target
      BY <1>5 DEF GoesOn
    <3>3. exec'.kind = "POLICY_UPDATE" => exec'.target # None
      BY <1>1, <1>2, <3>2 DEF CommandInv
    <3>4. slot' # None => (slot'.kind = "POLICY_UPDATE" => slot'.target # None)
      BY <1>1, <3>1 DEF CommandInv
    <3>5. QED BY <1>1, <3>2, <3>3, <3>4 DEF CommandInv
  <2>2. StartInv'
    BY <1>2, <1>3 DEF StartInv
  <2>3. SerialInv'
    BY <1>1, <1>2, <1>5 DEF SerialInv, GoesOn, Goes
  <2>4. KindInv'
    BY <1>1, <1>5 DEF KindInv, Gated, Both, GoesOn, Goes, Exec, Kind
  <2>5. QED BY <2>1, <2>2, <2>3, <2>4 DEF FlowInv
<1>6. QED BY <1>2, <1>4, <1>5

LEMMA StartFlows ==
    ASSUME CInv, Load \/ Register \/ Publish \/ SyncFirst
    PROVE  FlowInv'
<1> USE ControlAssumption
<1>1. TypeOK /\ CommandInv /\ StartInv /\ SerialInv /\ KindInv /\ DirectoryInv
  BY DEF CInv
<1>2. /\ UNCHANGED conn /\ UNCHANGED exec /\ UNCHANGED slot /\ UNCHANGED gate
      /\ proc # "run" /\ proc' # "run" /\ proc # "ack"
  BY DEF Load, Register, Publish, SyncFirst, adminVars
<1>3. CommandInv' /\ SerialInv' /\ KindInv'
  BY <1>1, <1>2 DEF CommandInv, SerialInv, KindInv
<1>4. bundle' # None
  BY <1>1 DEF Load, Register, Publish, SyncFirst, StartInv, policyVars
<1>5. proc' \in {"sync", "ack", "run"} => epoch' \in Epoch /\ mgmt' # None
  <2>1. CASE Publish
    <3>1. exec.pc = "free" /\ disk.base # None
      BY <1>1, <2>1 DEF Publish, StartInv, DirectoryInv, DiskInv
    <3>2. QED BY <1>1, <2>1, <3>1 DEF Publish, TypeOK, Epoch
  <2>2. CASE Load \/ Register \/ SyncFirst
    BY <1>1, <2>2 DEF Load, Register, SyncFirst, StartInv, policyVars
  <2>3. QED BY <2>1, <2>2
<1>6. StartInv'
  BY <1>1, <1>2, <1>4, <1>5 DEF StartInv
<1>7. QED BY <1>3, <1>6 DEF FlowInv

LEMMA ExitFlows ==
    ASSUME Exit
    PROVE  FlowInv'
<1>1. /\ proc' = "down" /\ slot' = None /\ gate' = FALSE /\ exec' = NoExec
      /\ conn' = [c \in Conn |-> NoCommand]
  BY ExitIs
<1>2. /\ exec'.pc = "free" /\ exec'.conn = None
      /\ \A c \in Conn : conn'[c].pc = "idle"
  BY <1>1 DEF NoExec, NoCommand
<1>3. CommandInv' /\ StartInv'
  BY <1>1, <1>2 DEF CommandInv, StartInv
<1>4. SerialInv' /\ KindInv'
  BY <1>1, <1>2 DEF SerialInv, KindInv, Gated, Both
<1>5. QED BY <1>3, <1>4 DEF FlowInv

\* An epoch that is sent is awaited.
LEMMA SyncAwaited ==
    ASSUME CInv, NEW e, Dispatch(SyncMessage(e))
    PROVE  Awaited(e)
<1>1. lane[1] = SyncMessage(e) /\ 1 \in DOMAIN lane
  BY Dispatches DEF CInv, TypeOK
<1>2. lane[1].kind = "sync" /\ lane[1].epoch = e
  BY <1>1 DEF SyncMessage
<1>3. QED BY <1>1, <1>2 DEF CInv, SyncInv, IsSync

LEMMA SendFlows ==
    ASSUME CInv, Send
    PROVE  FlowInv'
<1> USE DEF policyVars, adminVars, modeVars, kernelVars, diskVars
<1>1. /\ TypeOK /\ CommandInv /\ StartInv /\ SerialInv /\ KindInv
      /\ exec \in Exec
  BY DEF CInv, TypeOK
<1>2. ASSUME NEW on \in BOOLEAN, NEW reached \in BOOLEAN,
             SwitchMode(on, reached) PROVE FlowInv'
  <2>1. CommandInv' /\ StartInv'
    BY <1>1, <1>2 DEF SwitchMode, CommandInv, StartInv
  <2>2. SerialInv' /\ KindInv'
    BY <1>1, <1>2 DEF SwitchMode, SerialInv, KindInv
  <2>3. QED BY <2>1, <2>2 DEF FlowInv
<1>3. ASSUME NEW e \in Epoch, NEW reached \in BOOLEAN, NEW acked \in BOOLEAN,
             SyncedFirst(e, reached, acked)
      PROVE  FlowInv'
  <2>1. Awaited(e)
    BY <1>1, <1>3, Syncs, SyncAwaited DEF SyncedFirst
  <2>2. /\ UNCHANGED conn /\ UNCHANGED slot /\ UNCHANGED gate
        /\ UNCHANGED bundle /\ UNCHANGED epoch /\ UNCHANGED mgmt
        /\ proc = "ack" /\ exec.pc = "free"
    BY <1>3, <2>1 DEF SyncedFirst, SyncEpoch, Awaited
  <2>3. exec'.conn = exec.conn
        /\ \/ proc' = "run" /\ exec'.pc = "free"
           \/ proc' = "ack" /\ exec'.pc = "uncertain"
        /\ exec'.kind = exec.kind /\ exec'.target = exec.target
    BY <1>1, <1>3, <2>2 DEF SyncedFirst, Exec
  <2>4. \A c \in Conn : conn[c].pc = "idle"
    BY <1>1, <2>2 DEF StartInv
  <2>5. exec.conn = None /\ slot = None
    BY <1>1, <2>2 DEF StartInv
  <2>6. CommandInv'
    BY <2>2, <2>3, <2>4, <2>5 DEF CommandInv
  <2>7. StartInv'
    BY <1>1, <2>2, <2>3, <2>4, <2>5 DEF StartInv
  <2>8. SerialInv' /\ KindInv'
    BY <2>2, <2>3, <2>4, <2>5 DEF SerialInv, KindInv, Gated, Both
  <2>9. QED BY <2>6, <2>7, <2>8 DEF FlowInv
<1>4. ASSUME NEW e \in Epoch, NEW reached \in BOOLEAN, NEW acked \in BOOLEAN,
             Synced(e, reached, acked)
      PROVE  FlowInv'
  <2>1. /\ UNCHANGED conn /\ UNCHANGED slot /\ UNCHANGED gate /\ UNCHANGED proc
        /\ UNCHANGED bundle /\ UNCHANGED epoch /\ UNCHANGED mgmt
        /\ exec.pc = "ack"
    BY <1>4 DEF Synced, SyncEpoch
  <2>2. /\ exec'.conn = exec.conn /\ exec'.kind = exec.kind
        /\ exec'.target = exec.target /\ exec'.pc \in {"commit", "uncertain"}
    BY <1>1, <1>4 DEF Synced, Exec
  <2>3. proc = "run"
    BY <1>1, <2>1 DEF StartInv
  <2>4. CommandInv'
    <3>1. exec'.kind = "POLICY_UPDATE" => exec'.target # None
      BY <1>1, <2>1, <2>2 DEF CommandInv
    <3>2. QED BY <1>1, <2>1, <3>1 DEF CommandInv
  <2>5. StartInv'
    BY <1>1, <2>1, <2>2, <2>3 DEF StartInv
  <2>6. SerialInv' /\ KindInv'
    BY <1>1, <2>1, <2>2 DEF SerialInv, KindInv, Gated, Both
  <2>7. QED BY <2>4, <2>5, <2>6 DEF FlowInv
<1>5. QED BY <1>2, <1>3, <1>4 DEF Send

LEMMA OthersFlow ==
    ASSUME CInv,
           \/ LookQuiet \/ LookBusy
           \/ \E p \in Policies : Stage(p)
           \/ \E u \in User : RegisterKey(u)
           \/ UNCHANGED vars
    PROVE  FlowInv'
<1>1. CommandInv /\ StartInv /\ SerialInv /\ KindInv
  BY DEF CInv
<1>2. /\ UNCHANGED conn /\ UNCHANGED exec /\ UNCHANGED slot /\ UNCHANGED gate
      /\ UNCHANGED proc /\ UNCHANGED bundle /\ UNCHANGED epoch /\ UNCHANGED mgmt
  BY DEF LookQuiet, LookBusy, MonitorOnly, Stage, RegisterKey, AdminOnly, vars,
     policyVars, adminVars, kernelVars, diskVars
<1>3. CommandInv' /\ StartInv'
  BY <1>1, <1>2 DEF CommandInv, StartInv
<1>4. SerialInv' /\ KindInv'
  BY <1>1, <1>2 DEF SerialInv, KindInv
<1>5. QED BY <1>3, <1>4 DEF FlowInv

LEMMA AdminKeeps ==
    ASSUME CInv, NEW c \in Conn, AdminStep(c)
    PROVE  /\ proc = "run"
           /\ UNCHANGED proc /\ UNCHANGED exec /\ UNCHANGED gate
           /\ UNCHANGED epoch /\ UNCHANGED bundle /\ UNCHANGED mgmt
           /\ UNCHANGED lane /\ UNCHANGED kernel /\ UNCHANGED unsent
           /\ UNCHANGED <<disk, over, stranded>>
           /\ UNCHANGED mode /\ UNCHANGED overridden /\ UNCHANGED ids
           /\ conn[c].pc # "run"
           /\ Others(c)
<1>1. TypeOK
  BY DEF CInv
<1>2. CASE Pend(c) \/ Stamp(c) \/ Finalize(c)
  <2>1. conn[c].pc \in {"pend", "stamp", "final"}
    BY <1>2 DEF Pend, Stamp, Finalize
  <2>2. Others(c)
    BY <1>1, <1>2, Pended, Stamped, Finalized
  <2>3. QED BY <1>2, <2>1, <2>2, Serves DEF Pend, Stamp, Finalize, AdminOnly,
               policyVars, modeVars, kernelVars, diskVars
<1>3. ASSUME NEW u \in User, NEW k \in Kind, Initiate(c, u, k)
      PROVE  proc = "run" /\ conn[c].pc = "idle" /\ Others(c)
  <2>1. proc = "run" /\ conn[c].pc = "idle"
    BY <1>3 DEF Initiate
  <2>2. QED BY <1>1, <1>3, <2>1, Serves, Initiated
<1>4. ASSUME NEW u \in User, NEW i \in 1 .. issued,
             ApproveCtl(c, u, i) \/ DenyCtl(c, u, i)
      PROVE  proc = "run" /\ conn[c].pc = "idle" /\ Others(c)
  BY <1>1, <1>4, Approved DEF ApproveCtl, DenyCtl, Others
<1>5. CASE ~(Pend(c) \/ Stamp(c) \/ Finalize(c))
  <2>1. proc = "run" /\ conn[c].pc = "idle" /\ Others(c)
    BY <1>3, <1>4, <1>5 DEF AdminStep
  <2>2. QED BY <1>5, <2>1 DEF AdminStep, Initiate, ApproveCtl, DenyCtl,
               AdminOnly, policyVars, modeVars, kernelVars, diskVars
<1>6. QED BY <1>2, <1>5

\* What becomes of the command, and of the one that waits.
LEMMA AdminCommands ==
    ASSUME CInv, NEW c \in Conn, AdminStep(c)
    PROVE  /\ conn'[c].pc # "run"
           /\ conn'[c].pc # "idle" =>
                  /\ conn'[c].id \in Id /\ conn'[c].asks \in Policies
                  /\ conn'[c].kind = "POLICY_UPDATE" => conn'[c].target # None
                  /\ conn'[c].pc \in {"final", "lock", "run"} =>
                         conn'[c].epoch \in Epoch
           /\ slot' # None =>
                  (slot'.kind = "POLICY_UPDATE" => slot'.target # None)
<1>1. TypeOK /\ CommandInv /\ NoCommand.pc = "idle" /\ conn[c] \in Command
  BY DEF CInv, TypeOK, NoCommand
<1>2. proc = "run" /\ mgmt \in Policies /\ epoch \in Epoch
  BY AdminKeeps, Serves
<1>3. CASE Pend(c)
  BY <1>1, <1>3, Pended DEF CommandInv
<1>4. CASE Stamp(c)
  <2>1. slot' = slot
    BY <1>4 DEF Stamp
  <2>2. QED BY <1>1, <1>2, <1>4, <2>1, Stamped DEF CommandInv, SameCommand
<1>5. CASE Finalize(c)
  <2>1. slot' = slot
    BY <1>5 DEF Finalize
  <2>2. QED BY <1>1, <1>5, <2>1, Finalized DEF CommandInv, SameCommand
<1>6. ASSUME NEW u \in User, NEW k \in Kind, Initiate(c, u, k)
      PROVE  /\ conn'[c].pc \in {"pend", "stamp"} /\ conn'[c].id \in Id
             /\ conn'[c].asks \in Policies /\ slot' = slot
             /\ conn'[c].kind = "POLICY_UPDATE" => conn'[c].target # None
  BY <1>1, <1>2, <1>6, Initiated DEF Initiate
<1>7. ASSUME NEW u \in User, NEW i \in 1 .. issued, ApproveCtl(c, u, i)
      PROVE  /\ conn'[c].pc \in {"idle", "final"}
             /\ conn'[c].pc # "idle" =>
                    /\ conn'[c].id \in Id /\ conn'[c].asks \in Policies
                    /\ conn'[c].kind = "POLICY_UPDATE" =>
                           conn'[c].target # None
                    /\ conn'[c].epoch \in Epoch
             /\ slot' # None =>
                    (slot'.kind = "POLICY_UPDATE" => slot'.target # None)
  <2>1. /\ slot # None /\ slot.id \in Id /\ slot.asks \in Policies
        /\ slot.epoch \in Epoch
    BY <1>1, <1>2, <1>7, Approved DEF ApproveCtl, IsMeant, Pending
  <2>2. slot.kind = "POLICY_UPDATE" => slot.target # None
    BY <1>1, <2>1 DEF CommandInv
  <2>3. QED BY <1>1, <1>7, <2>1, <2>2, Approved
<1>8. ASSUME NEW u \in User, NEW i \in 1 .. issued, DenyCtl(c, u, i)
      PROVE  slot' = None /\ conn' = conn /\ conn[c].pc = "idle"
  BY <1>8 DEF DenyCtl
<1>9. QED BY <1>1, <1>3, <1>4, <1>5, <1>6, <1>7, <1>8 DEF AdminStep, CommandInv

LEMMA AdminFlows ==
    ASSUME CInv, NEW c \in Conn, AdminStep(c)
    PROVE  FlowInv'
<1>1. CommandInv /\ StartInv /\ SerialInv /\ KindInv
  BY DEF CInv
<1>2. /\ proc = "run" /\ UNCHANGED proc /\ UNCHANGED exec /\ UNCHANGED gate
      /\ UNCHANGED epoch /\ UNCHANGED bundle /\ UNCHANGED mgmt
      /\ conn[c].pc # "run" /\ \A d \in Conn \ {c} : conn'[d] = conn[d]
  BY AdminKeeps DEF Others
<1>3. CommandInv'
  BY <1>1, <1>2, AdminCommands DEF CommandInv
<1>4. StartInv'
  BY <1>1, <1>2 DEF StartInv
<1>5. SerialInv'
  <2>1. conn'[c].pc # "run"
    BY AdminCommands
  <2>2. QED BY <1>1, <1>2, <2>1 DEF SerialInv
<1>6. KindInv'
  BY <1>1, <1>2 DEF KindInv
<1>7. QED BY <1>3, <1>4, <1>5, <1>6 DEF FlowInv

LEMMA ExecuteFlows ==
    ASSUME CInv, NEW c \in Conn, Execute(c)
    PROVE  FlowInv'
<1> USE ControlAssumption
<1>1. TypeOK /\ CommandInv /\ StartInv /\ SerialInv /\ KindInv
  BY DEF CInv
<1>2. /\ conn[c].pc = "lock" /\ exec.pc = "free" /\ proc = "run"
      /\ UNCHANGED proc /\ UNCHANGED epoch /\ UNCHANGED bundle
      /\ UNCHANGED mgmt /\ UNCHANGED slot
  BY <1>1, Executed, Serves DEF Execute, policyVars, kernelVars
<1>3. /\ conn' \in [Conn -> Command]
      /\ \A d \in Conn \ {c} : conn'[d] = conn[d] /\ conn[d].pc # "run"
  BY <1>1, <1>2, Executed DEF Others, SerialInv
<1>4. StartInv'
  BY <1>1, <1>2 DEF StartInv
<1>5. CASE conn'[c] = NoCommand /\ UNCHANGED exec /\ UNCHANGED gate
  <2>1. conn'[c].pc = "idle"
    BY <1>5 DEF NoCommand
  <2>2. CommandInv'
    BY <1>1, <1>2, <1>3, <1>5, <2>1 DEF CommandInv
  <2>3. SerialInv' /\ KindInv'
    BY <1>1, <1>2, <1>3, <1>5, <2>1 DEF SerialInv, KindInv, Gated, Both
  <2>4. QED BY <1>4, <2>2, <2>3 DEF FlowInv
<1>6. CASE /\ SameCommand(c) /\ conn'[c].pc = "run"
           /\ conn'[c].epoch = conn[c].epoch
           /\ exec'.conn = c /\ exec'.kind = conn[c].kind
           /\ exec'.target = conn[c].target
           /\ exec'.pc = FirstStep(conn[c].kind)
           /\ gate' = (conn[c].kind \in {"POLICY_UPDATE", "FLUSH"})
  <2>1. CommandInv'
    <3>1. conn[c].kind = "POLICY_UPDATE" => conn[c].target # None
      BY <1>1, <1>2 DEF CommandInv
    <3>2. QED BY <1>1, <1>2, <1>3, <1>6, <3>1 DEF CommandInv, SameCommand
  <2>2. conn[c].kind \in Kind
    BY <1>1 DEF TypeOK, Command
  <2>3. exec'.pc # "free"
    BY <1>6, <2>2 DEF FirstStep, Kind
  <2>4. SerialInv'
    BY <1>3, <1>6, <2>3 DEF SerialInv
  <2>5. KindInv'
    BY <1>6, <2>2 DEF KindInv, Gated, Both, FirstStep, Kind
  <2>6. QED BY <1>4, <2>1, <2>4, <2>5 DEF FlowInv
<1>7. QED BY <1>1, <1>5, <1>6, Executed

LEMMA Flows == CInv /\ [Next]_vars => FlowInv'
BY StartFlows, ExitFlows, SendFlows, OthersFlow, AdminFlows, ExecuteFlows,
   RunFlows DEF Next, Crash, GiveUp, AdminStep

LEMMA Typed == CInv /\ [Next]_vars => TypeOK'
<1>1. CInv /\ UNCHANGED vars => TypeOK'
  BY DEF CInv, TypeOK, vars, modeVars, policyVars, adminVars, kernelVars,
     diskVars
<1>2. QED BY <1>1, StartTyped, ExitTyped, SendTyped, MonitorTyped, AdminTyped,
             RegisterTyped, ExecuteTyped, RunTyped, StageTyped
             DEF Next, AdminStep

-----------------------------------------------------------------------------
(* The epoch on its way to the kernel. *)

NoSync == \A n \in DOMAIN lane : ~IsSync(n)

LEMMA NoneAwaited ==
    ASSUME SyncInv, \A e : ~Awaited(e)
    PROVE  NoSync
BY DEF SyncInv, NoSync

LEMMA NoneLeft ==
    ASSUME CInv, NEW e, Dispatch(SyncMessage(e))
    PROVE  NoSync'
<1>1. /\ DOMAIN lane = 1 .. Len(lane) /\ Len(lane) \in Nat \ {0}
      /\ DOMAIN lane' = 1 .. Len(lane) - 1
      /\ lane[1] = SyncMessage(e)
      /\ \A n \in 1 .. Len(lane) - 1 : lane'[n] = lane[n + 1]
  BY Dispatches DEF CInv, TypeOK
<1>2. IsSync(1)
  BY <1>1 DEF SyncMessage, IsSync
<1>3. SUFFICES ASSUME NEW n \in DOMAIN lane', IsSync(n)' PROVE FALSE
  BY DEF NoSync
<1>4. n + 1 \in DOMAIN lane /\ 1 \in DOMAIN lane /\ n + 1 # 1
  BY <1>1, <1>3
<1>5. IsSync(n + 1)
  BY <1>1, <1>3 DEF IsSync
<1>6. QED BY <1>2, <1>4, <1>5 DEF CInv, SyncInv

\* A mode that is sent or taken is no epoch.
LEMMA ModeSent ==
    ASSUME lane \in Seq(Message), NEW on \in BOOLEAN,
           lane' = Append(lane, ModeMessage(on))
    PROVE  /\ \A n \in DOMAIN lane' : IsSync(n)' =>
                  n \in DOMAIN lane /\ IsSync(n) /\ lane'[n] = lane[n]
<1>1. ModeMessage(on) \in Message /\ ModeMessage(on).kind # "sync"
  BY MessageTyped DEF ModeMessage
<1>2. QED BY <1>1, Sends DEF IsSync

LEMMA Unsent ==
    ASSUME TypeOK, NEW m \in Message, Dispatch(m)
    PROVE  /\ \A n \in DOMAIN lane' : IsSync(n)' =>
                  n + 1 \in DOMAIN lane /\ IsSync(n + 1) /\ lane'[n] = lane[n + 1]
           /\ \A n \in DOMAIN lane' : n \in Nat
BY Dispatches DEF IsSync, TypeOK

LEMMA SyncSent ==
    ASSUME lane \in Seq(Message), NoSync, NEW e \in Epoch,
           lane' = Append(lane, SyncMessage(e))
    PROVE  /\ \A n \in DOMAIN lane' : IsSync(n)' =>
                  n = Len(lane) + 1 /\ lane'[n].epoch = e
<1>1. SyncMessage(e) \in Message /\ SyncMessage(e).epoch = e
  BY MessageTyped DEF SyncMessage
<1>2. QED BY <1>1, Sends DEF IsSync, NoSync

LEMMA StartSyncs ==
    ASSUME CInv, Load \/ Register \/ Publish \/ SyncFirst \/ Exit
    PROVE  SyncInv' /\ EpochInv'
<1>1. TypeOK /\ StartInv /\ SyncInv
  BY DEF CInv
<1>2. CASE Exit
  <2>1. lane' = <<>> /\ exec'.pc = "free" /\ proc' = "down"
    BY <1>2, ExitIs DEF NoExec
  <2>2. QED BY <2>1, EmptySeq DEF SyncInv, EpochInv
<1>3. CASE Load \/ Register \/ Publish \/ SyncFirst
  <2>1. proc \notin {"ack", "run"} /\ exec.pc = "free"
        /\ UNCHANGED exec /\ proc' # "run"
    BY <1>1, <1>3 DEF Load, Register, Publish, SyncFirst, StartInv, adminVars
  <2>2. EpochInv'
    BY <1>1, <1>3, <2>1 DEF CInv, EpochInv, Load, Register, Publish, SyncFirst,
       modeVars, policyVars, adminVars, kernelVars, diskVars
  <2>3. NoSync
    BY <1>1, <2>1, NoneAwaited DEF Awaited
  <2>4. CASE Load \/ Publish
    BY <2>2, <2>3, <2>4 DEF Load, Publish, NoSync, IsSync, SyncInv
  <2>5. CASE Register
    <3>1. lane' = Append(lane, ModeMessage(FALSE))
      BY <2>5 DEF Register, ModeMessage
    <3>2. NoSync'
      BY <1>1, <2>3, <3>1, ModeSent DEF NoSync, TypeOK
    <3>3. QED BY <2>2, <3>2 DEF NoSync, SyncInv
  <2>6. CASE SyncFirst
    <3>1. lane' = Append(lane, SyncMessage(epoch)) /\ epoch \in Epoch
          /\ epoch' = epoch /\ proc' = "ack"
      BY <1>1, <2>6 DEF SyncFirst, SyncMessage, StartInv, policyVars
    <3>2. \A n \in DOMAIN lane' : IsSync(n)' =>
              n = Len(lane) + 1 /\ lane'[n].epoch = epoch
      BY <1>1, <2>3, <3>1, SyncSent DEF TypeOK
    <3>3. QED BY <2>1, <2>2, <3>1, <3>2 DEF SyncInv, Awaited
  <2>7. QED BY <1>3, <2>2, <2>4, <2>5, <2>6, <2>1
<1>4. QED BY <1>2, <1>3

LEMMA SendSyncs ==
    ASSUME CInv, Send
    PROVE  SyncInv' /\ EpochInv'
<1> USE ControlAssumption DEF policyVars, adminVars, kernelVars, diskVars
<1>1. /\ TypeOK /\ StartInv /\ SyncInv /\ EpochInv /\ exec \in Exec
      /\ epoch \in Nat
  BY DEF CInv, TypeOK, Epoch
<1>2. ASSUME NEW on \in BOOLEAN, NEW reached \in BOOLEAN,
             SwitchMode(on, reached) PROVE SyncInv' /\ EpochInv'
  <2>1. /\ UNCHANGED proc /\ UNCHANGED exec /\ UNCHANGED epoch
        /\ kernel'.epoch = kernel.epoch
    BY <1>1, <1>2 DEF SwitchMode, TypeOK
  <2>2. ModeMessage(on) \in Message /\ Dispatch(ModeMessage(on))
    BY <1>2, MessageTyped DEF SwitchMode, ModeMessage
  <2>3. SyncInv'
    BY <1>1, <2>1, <2>2, Unsent DEF SyncInv, Awaited
  <2>4. EpochInv'
    BY <1>1, <2>1 DEF EpochInv
  <2>5. QED BY <2>3, <2>4
<1>3. ASSUME NEW e \in Epoch, NEW reached \in BOOLEAN, NEW acked \in BOOLEAN,
             SyncedFirst(e, reached, acked) \/ Synced(e, reached, acked)
      PROVE  SyncInv' /\ EpochInv'
  <2>1. SyncEpoch(e, reached, acked)
    BY <1>3 DEF SyncedFirst, Synced
  <2>2. /\ Dispatch(SyncMessage(e)) /\ UNCHANGED epoch
        /\ kernel'.epoch = IF reached THEN e ELSE kernel.epoch
        /\ acked => reached
    BY <1>1, <2>1, Syncs DEF SyncEpoch
  <2>3. Awaited(e) /\ NoSync'
    BY <2>2, SyncAwaited, NoneLeft
  <2>4. SyncInv'
    BY <2>3 DEF NoSync, SyncInv
  <2>5. CASE SyncedFirst(e, reached, acked)
    <3>1. proc = "ack" /\ exec.pc = "free" /\ e = epoch
      BY <2>3, <2>5 DEF SyncedFirst, Awaited
    <3>2. \/ acked /\ exec'.pc = "free" /\ proc' = "run"
          \/ ~acked /\ exec'.pc = "uncertain" /\ proc' = "ack"
      BY <1>1, <2>5, <3>1 DEF SyncedFirst, Exec
    <3>3. QED BY <2>2, <2>4, <3>1, <3>2 DEF EpochInv
  <2>6. CASE Synced(e, reached, acked)
    <3>1. exec.pc = "ack" /\ e = epoch + 1 /\ proc = "run" /\ UNCHANGED proc
      BY <2>3, <2>6 DEF Synced, Awaited
    <3>2. \/ acked /\ exec'.pc = "commit"
          \/ ~acked /\ exec'.pc = "uncertain"
      BY <1>1, <2>6 DEF Synced, Exec
    <3>3. QED BY <1>1, <2>2, <2>4, <3>1, <3>2 DEF EpochInv
  <2>7. QED BY <1>3, <2>5, <2>6
<1>4. QED BY <1>2, <1>3 DEF Send

LEMMA RunSyncs ==
    ASSUME CInv, Run
    PROVE  SyncInv' /\ EpochInv'
<1> USE ControlAssumption
<1>1. /\ TypeOK /\ SyncInv /\ EpochInv /\ DirectoryInv /\ KindInv
      /\ epoch \in Nat /\ MaxEpoch \in Nat
  BY DEF CInv, TypeOK, Epoch
<1>2. /\ exec.pc \notin {"free", "ack", "uncertain"}
      /\ UNCHANGED proc /\ UNCHANGED kernel
  BY <1>1, RunGoes
<1>3. proc = "run"
  BY <1>2 DEF CInv, StartInv
<1>4. NoSync
  BY <1>1, <1>2, <1>3, NoneAwaited DEF Awaited
<1>5. SyncInv'
  <2>1. CASE Switch
    <3>1. PICK on \in BOOLEAN : on <=> exec.kind = "START"
      OBVIOUS
    <3>2. lane' = Append(lane, ModeMessage(on))
      BY <2>1, <3>1 DEF Switch, ModeMessage
    <3>3. QED BY <1>1, <1>4, <3>2, ModeSent DEF NoSync, SyncInv, TypeOK
  <2>2. CASE Sync
    <3>1. /\ lane' = Append(lane, SyncMessage(epoch + 1))
          /\ epoch + 1 \in Epoch /\ epoch' = epoch /\ exec'.pc = "ack"
      BY <1>1, <2>2 DEF Sync, SyncMessage, Step, TypeOK, Exec, Epoch,
         policyVars
    <3>2. \A n \in DOMAIN lane' : IsSync(n)' =>
              n = Len(lane) + 1 /\ lane'[n].epoch = epoch + 1
      BY <1>1, <1>4, <3>1, SyncSent DEF TypeOK
    <3>3. QED BY <1>2, <1>3, <3>1, <3>2 DEF SyncInv, Awaited
  <2>3. CASE UNCHANGED lane
    BY <1>4, <2>3 DEF NoSync, IsSync, SyncInv
  <2>4. QED BY <2>1, <2>2, <2>3 DEF Run, Clear, Validate, Compile,
               PrepareManagement, PrepareFails, Backup, Apply, ApplyFails,
               Overflow, Commit, Manage, Invalidate, Open
<1>6. EpochInv'
  <2>1. CASE Commit
    <3>1. epoch' = epoch + 1 /\ exec'.pc \in {"invalidate", "manage"}
          /\ exec.pc = "commit"
      BY <1>1, <2>1 DEF Commit, Step, TypeOK, Exec
    <3>2. QED BY <1>1, <1>2, <1>3, <3>1 DEF EpochInv
  <2>2. CASE Sync
    <3>1. /\ epoch < MaxEpoch /\ epoch' = epoch /\ exec'.pc = "ack"
      BY <1>1, <2>2 DEF Sync, Step, TypeOK, Exec, policyVars
    <3>2. kernel.epoch = epoch
      BY <1>1, <1>3, <2>2 DEF EpochInv, Sync, Step
    <3>3. QED BY <1>1, <1>2, <1>3, <3>1, <3>2 DEF EpochInv
  <2>3. CASE ~Commit /\ ~Sync
    <3>1. epoch' = epoch /\ exec.pc # "commit"
      BY <2>3 DEF Run, Switch, Clear, Validate, Compile, PrepareManagement,
         PrepareFails, Backup, Apply, ApplyFails, Sync, Overflow, Manage,
         Invalidate, Open, Step, policyVars
    <3>2. exec'.pc \notin {"ack", "commit"}
      <4>1. CASE Done
        BY <1>1, <4>1, Ends
      <4>2. QED BY <1>1, <2>3, <4>1 DEF Run, Switch, Clear, Validate, Compile,
                   PrepareManagement, PrepareFails, Backup, Apply, ApplyFails,
                   Overflow, Manage, Invalidate, Open, Step, TypeOK, Exec
    <3>3. QED BY <1>1, <1>2, <1>3, <3>1, <3>2 DEF EpochInv
  <2>4. QED BY <2>1, <2>2, <2>3
<1>7. QED BY <1>5, <1>6

LEMMA OthersSync ==
    ASSUME CInv,
           UNCHANGED lane, UNCHANGED kernel, UNCHANGED proc, UNCHANGED epoch,
           UNCHANGED exec
    PROVE  SyncInv' /\ EpochInv'
<1>1. SyncInv'
  BY DEF CInv, SyncInv, IsSync, Awaited
<1>2. EpochInv'
  BY DEF CInv, EpochInv
<1>3. QED BY <1>1, <1>2

LEMMA ExecuteSyncs ==
    ASSUME CInv, NEW c \in Conn, Execute(c)
    PROVE  SyncInv' /\ EpochInv'
<1>1. TypeOK /\ SyncInv /\ EpochInv
  BY DEF CInv
<1>2. /\ exec.pc = "free" /\ proc = "run" /\ UNCHANGED proc
      /\ UNCHANGED epoch /\ UNCHANGED lane /\ UNCHANGED kernel
  BY <1>1, Executed, Serves DEF Execute, policyVars, kernelVars
<1>3. NoSync
  BY <1>1, <1>2, NoneAwaited DEF Awaited
<1>4. SyncInv'
  BY <1>2, <1>3 DEF NoSync, IsSync, SyncInv
<1>5. exec'.pc \in {"free", "switch", "validate", "sync"}
  BY <1>1, <1>2, Executed DEF FirstStep, TypeOK, Command, Kind
<1>6. EpochInv'
  BY <1>1, <1>2, <1>5 DEF EpochInv
<1>7. QED BY <1>4, <1>6

LEMMA SyncsHold == CInv /\ [Next]_vars => SyncInv' /\ EpochInv'
<1> SUFFICES ASSUME CInv, [Next]_vars PROVE SyncInv' /\ EpochInv'
  OBVIOUS
<1>1. ASSUME NEW c \in Conn, AdminStep(c) PROVE SyncInv' /\ EpochInv'
  BY <1>1, AdminKeeps, OthersSync
<1>2. CASE \/ LookQuiet \/ LookBusy \/ (\E p \in Policies : Stage(p))
           \/ (\E u \in User : RegisterKey(u)) \/ UNCHANGED vars
  BY <1>2, OthersSync DEF LookQuiet, LookBusy, MonitorOnly, Stage, RegisterKey,
     AdminOnly, vars, policyVars, adminVars, kernelVars, diskVars
<1>3. QED BY <1>1, <1>2, StartSyncs, SendSyncs, RunSyncs, ExecuteSyncs
          DEF Next, Crash, GiveUp, AdminStep

-----------------------------------------------------------------------------
(* The directories. *)

LEMMA OthersDirectory ==
    ASSUME CInv, UNCHANGED <<disk, over, stranded>>,
           UNCHANGED bundle, UNCHANGED mgmt, UNCHANGED epoch, UNCHANGED exec,
           UNCHANGED proc
    PROVE  DirectoryInv'
BY DEF CInv, DirectoryInv, DiskInv, KeptInv, Kept, Prepared, Moving

LEMMA SendDirectory ==
    ASSUME CInv, Send
    PROVE  DirectoryInv'
<1> USE DEF policyVars, adminVars, diskVars
<1>1. /\ TypeOK /\ StartInv /\ DirectoryInv /\ exec \in Exec
      /\ DiskInv /\ (proc # "down" /\ over = 0 => KeptInv)
  BY DEF CInv, TypeOK, DirectoryInv
<1>2. ASSUME NEW on \in BOOLEAN, NEW reached \in BOOLEAN,
             SwitchMode(on, reached)
      PROVE  DirectoryInv'
  BY <1>2, OthersDirectory DEF SwitchMode
<1>3. ASSUME NEW e \in Epoch, NEW reached \in BOOLEAN, NEW acked \in BOOLEAN,
             SyncedFirst(e, reached, acked) \/ Synced(e, reached, acked)
      PROVE  DirectoryInv'
  <2>1. SyncEpoch(e, reached, acked)
    BY <1>3 DEF SyncedFirst, Synced
  <2>2. /\ Awaited(e) /\ UNCHANGED <<disk, over, stranded>>
        /\ UNCHANGED bundle /\ UNCHANGED mgmt /\ UNCHANGED epoch
    BY <1>1, <2>1, Syncs, SyncAwaited DEF SyncEpoch
  <2>3. /\ exec'.kind = exec.kind /\ exec'.target = exec.target
        /\ exec'.newBundle = exec.newBundle /\ exec'.newMgmt = exec.newMgmt
        /\ proc # "down"
        /\ \/ proc = "ack" /\ proc' \in {"ack", "run"} /\ exec.pc = "free"
              /\ (proc' = "ack" => exec'.pc \in {"free", "uncertain"})
              /\ (proc' = "run" => exec'.pc = "free")
           \/ proc = "run" /\ proc' = "run" /\ exec.pc = "ack"
              /\ exec'.pc \in {"commit", "uncertain"}
    BY <1>1, <1>3, <2>2 DEF SyncedFirst, Synced, Awaited, Exec, StartInv
  <2>4. UNCHANGED Kept
    BY <2>2 DEF Kept
  <2>5. DiskInv'
    BY <1>1, <2>2, <2>3 DEF DiskInv, Prepared, Moving, Reading
  <2>6. ASSUME over = 0 PROVE KeptInv'
    BY <1>1, <2>2, <2>3, <2>4, <2>6 DEF KeptInv, Prepared, Moving, Reading
  <2>7. exec'.pc \in {"free", "uncertain", "commit"}
    BY <2>3
  <2>8. QED BY <2>2, <2>5, <2>6, <2>7 DEF DirectoryInv, Reading
<1>4. QED BY <1>2, <1>3 DEF Send

\* A step that leaves the directories alone.
LEMMA RunInPlace ==
    ASSUME CInv, Run, UNCHANGED disk, UNCHANGED bundle, UNCHANGED mgmt,
           UNCHANGED epoch, UNCHANGED stranded, UNCHANGED over,
           \/ exec'.pc \in {"free", "clear", "open"}
              /\ exec.pc \notin Moving \cup {"apply", "manage"}
           \/ exec'.pc = "free" /\ exec.pc = "sync" /\ exec.kind = "FLUSH"
    PROVE  DirectoryInv'
<1>1. DiskInv /\ (proc # "down" /\ over = 0 => KeptInv)
  BY DEF CInv, DirectoryInv
<1>2. /\ proc = "run" /\ proc' = "run" /\ exec.pc # "uncertain"
      /\ exec'.pc \in {"free", "clear", "open"}
  BY RunGoes DEF CInv, StartInv
<1>3. UNCHANGED Kept
  BY DEF Kept
<1>4. DiskInv'
  BY <1>1, <1>2 DEF DiskInv, Prepared, Moving, Reading
<1>5. ASSUME over = 0 PROVE KeptInv'
  BY <1>1, <1>2, <1>3, <1>5 DEF KeptInv, Prepared, Moving, Reading
<1>6. QED BY <1>2, <1>4, <1>5 DEF DirectoryInv, Reading

LEMMA RunDirectory ==
    ASSUME CInv, Run
    PROVE  DirectoryInv'
<1> USE ControlAssumption DEF policyVars, diskVars
<1>1. /\ TypeOK /\ DiskInv /\ KindInv /\ exec \in Exec
      /\ epoch \in Nat /\ MaxEpoch \in Nat
      /\ over = 0 => KeptInv
  BY RunGoes DEF CInv, TypeOK, Epoch, DirectoryInv, StartInv
<1>2. /\ exec.pc \notin {"free", "ack", "uncertain"} /\ UNCHANGED proc
      /\ proc = "run"
  BY <1>1, RunGoes DEF CInv, StartInv
<1>3. CASE Switch
  BY <1>1, <1>3, Steps, RunInPlace DEF Switch, Moving
<1>4. CASE Clear \/ PrepareFails \/ Open
  BY <1>1, <1>4, Ends, RunInPlace DEF Clear, PrepareFails, Open, Moving
<1>5. CASE Validate
  <2>1. /\ exec.pc = "validate" /\ UNCHANGED disk /\ UNCHANGED bundle
        /\ UNCHANGED mgmt /\ UNCHANGED epoch /\ UNCHANGED over
        /\ UNCHANGED stranded
    BY <1>5 DEF Validate
  <2>2. CASE disk.new = exec.target /\ epoch < MaxEpoch
    <3>1. exec'.pc = "compile" /\ exec'.target = exec.target
      BY <1>1, <1>5, <2>2, Steps DEF Validate, SignedFor
    <3>2. exec.target # None
      BY <2>1, <1>1 DEF CInv, CommandInv, KindInv, Gated, Both
    <3>3. UNCHANGED Kept
      BY <2>1 DEF Kept
    <3>4. DiskInv'
      BY <1>1, <1>2, <2>1, <2>2, <3>1, <3>2 DEF DiskInv, Prepared, Moving,
         Reading
    <3>5. ASSUME over = 0 PROVE KeptInv'
      BY <1>1, <1>2, <2>1, <2>2, <3>1, <3>3, <3>5 DEF KeptInv, Prepared,
         Moving, Reading
    <3>6. QED BY <2>1, <2>2, <3>1, <3>4, <3>5 DEF DirectoryInv, Reading
  <2>3. CASE ~(disk.new = exec.target /\ epoch < MaxEpoch)
    <3>1. exec'.pc = "free"
      BY <1>1, <1>5, <2>3, Ends DEF Validate, SignedFor
    <3>2. QED BY <2>1, <3>1, RunInPlace DEF Moving
  <2>4. QED BY <2>2, <2>3
<1>14. CASE Compile \/ PrepareManagement
  <2>1. /\ UNCHANGED disk /\ UNCHANGED bundle /\ UNCHANGED mgmt
        /\ UNCHANGED epoch /\ UNCHANGED over /\ UNCHANGED stranded
    BY <1>14 DEF Compile, PrepareManagement
  <2>2. /\ exec'.target = exec.target /\ exec'.kind = exec.kind
        /\ \/ /\ exec.pc = "compile" /\ exec'.pc = "prepare"
              /\ exec'.newBundle = disk.new
           \/ /\ exec.pc = "prepare" /\ exec'.pc = "backup"
              /\ exec'.newBundle = exec.newBundle /\ exec'.newMgmt = disk.new
    BY <1>1, <1>14, Reads
  <2>3. UNCHANGED Kept
    BY <2>1 DEF Kept
  <2>4. DiskInv'
    BY <1>1, <1>2, <2>1, <2>2 DEF DiskInv, Prepared, Moving, Reading
  <2>5. ASSUME over = 0 PROVE KeptInv'
    BY <1>1, <1>2, <2>1, <2>2, <2>3, <2>5 DEF KeptInv, Prepared, Moving,
       Reading
  <2>6. epoch < MaxEpoch
    BY <2>2 DEF CInv, DirectoryInv, Reading
  <2>7. QED BY <2>1, <2>4, <2>5, <2>6 DEF DirectoryInv
<1>6. CASE Backup
  <2>1. /\ exec.pc = "backup" /\ exec'.pc = "apply" /\ exec'.kind = exec.kind
        /\ exec'.target = exec.target /\ exec'.newBundle = exec.newBundle
        /\ exec'.newMgmt = exec.newMgmt
    BY <1>1, <1>6, Steps DEF Backup
  <2>2. /\ UNCHANGED bundle /\ UNCHANGED mgmt /\ UNCHANGED epoch
        /\ UNCHANGED over /\ UNCHANGED stranded
        /\ disk'.base = None /\ disk'.new = None
        /\ disk'.saved = disk.base /\ disk'.savedNew = disk.new
    BY <1>6 DEF Backup
  <2>3. exec.kind = "POLICY_UPDATE"
    BY <1>1, <2>1 DEF KindInv, Gated, Both
  <2>4. disk.new # None /\ disk.base # None /\ epoch < MaxEpoch
    BY <1>1, <2>1 DEF CInv, DirectoryInv, DiskInv, Reading
  <2>5. UNCHANGED Kept
    BY <2>2, <2>4 DEF Kept
  <2>6. DiskInv'
    BY <1>1, <1>2, <2>1, <2>2, <2>3, <2>4 DEF DiskInv, Prepared, Moving,
       Reading
  <2>7. ASSUME over = 0 PROVE KeptInv'
    BY <1>1, <1>2, <2>1, <2>2, <2>3, <2>5, <2>7 DEF KeptInv, Prepared, Moving,
       Reading
  <2>8. QED BY <2>2, <2>4, <2>6, <2>7 DEF DirectoryInv
<1>7. CASE Apply
  <2>1. /\ exec.pc = "apply" /\ exec'.pc = "sync" /\ exec'.kind = exec.kind
        /\ exec'.target = exec.target /\ exec'.newBundle = exec.newBundle
        /\ exec'.newMgmt = exec.newMgmt
    BY <1>1, <1>7, Steps DEF Apply
  <2>2. /\ UNCHANGED bundle /\ UNCHANGED mgmt /\ UNCHANGED epoch
        /\ UNCHANGED over /\ UNCHANGED stranded
        /\ disk'.base = disk.savedNew
    BY <1>7 DEF Apply
  <2>3. exec.kind = "POLICY_UPDATE"
    BY <1>1, <2>1 DEF KindInv, Gated, Both
  <2>4. epoch < MaxEpoch
    BY <2>1 DEF CInv, DirectoryInv
  <2>5. DiskInv'
    BY <1>1, <1>2, <2>1, <2>2, <2>3 DEF DiskInv, Prepared, Moving, Reading
  <2>6. ASSUME over = 0 PROVE KeptInv'
    BY <1>1, <1>2, <2>1, <2>2, <2>3, <2>6 DEF KeptInv, Prepared, Moving,
       Reading
  <2>7. QED BY <2>2, <2>4, <2>5, <2>6 DEF DirectoryInv
<1>8. ASSUME NEW undone \in BOOLEAN, ApplyFails(undone) PROVE DirectoryInv'
  <2>1. /\ exec.pc = "apply" /\ exec'.pc = "free" /\ UNCHANGED bundle
        /\ UNCHANGED mgmt /\ UNCHANGED epoch /\ UNCHANGED over
        /\ \/ /\ disk'.base = disk.saved /\ UNCHANGED stranded
           \/ UNCHANGED disk /\ stranded'
    BY <1>1, <1>8, Ends DEF ApplyFails, RolledBack, TypeOK
  <2>2. disk.base = None /\ disk.saved # None
    BY <1>1, <2>1 DEF DiskInv
  <2>3. UNCHANGED Kept
    BY <2>1, <2>2 DEF Kept
  <2>4. DiskInv'
    BY <1>1, <1>2, <2>1, <2>2 DEF DiskInv, Prepared, Moving, Reading
  <2>5. ASSUME over = 0 PROVE KeptInv'
    BY <1>1, <1>2, <2>1, <2>3, <2>5 DEF KeptInv, Prepared, Moving, Reading
  <2>6. QED BY <2>1, <2>4, <2>5 DEF DirectoryInv, Reading
<1>9. CASE Sync
  <2>1. /\ exec.pc = "sync" /\ exec'.pc = "ack" /\ exec'.kind = exec.kind
        /\ exec'.target = exec.target /\ exec'.newBundle = exec.newBundle
        /\ exec'.newMgmt = exec.newMgmt /\ UNCHANGED bundle /\ UNCHANGED mgmt
        /\ UNCHANGED disk /\ UNCHANGED over /\ UNCHANGED stranded
    BY <1>1, <1>9, Steps DEF Sync
  <2>2. UNCHANGED Kept
    BY <2>1 DEF Kept
  <2>3. DiskInv'
    BY <1>1, <1>2, <2>1 DEF DiskInv, Prepared, Moving, Reading
  <2>4. ASSUME over = 0 PROVE KeptInv'
    BY <1>1, <1>2, <2>1, <2>2, <2>4 DEF KeptInv, Prepared, Moving, Reading
  <2>5. QED BY <2>1, <2>3, <2>4 DEF DirectoryInv, Reading
<1>10. CASE Overflow
  <2>1. /\ exec.pc = "sync" /\ exec'.pc = "free" /\ epoch = MaxEpoch
        /\ UNCHANGED bundle /\ UNCHANGED mgmt /\ UNCHANGED epoch
        /\ UNCHANGED disk /\ UNCHANGED over /\ UNCHANGED stranded
    BY <1>1, <1>10, Ends DEF Overflow
  <2>2. exec.kind = "FLUSH"
    <3>1. ~(epoch < MaxEpoch)
      BY <1>1, <2>1
    <3>2. exec.kind # "POLICY_UPDATE"
      BY <2>1, <3>1 DEF CInv, DirectoryInv
    <3>3. QED BY <1>1, <2>1, <3>2 DEF KindInv, Both
  <2>3. QED BY <2>1, <2>2, RunInPlace
<1>11. CASE Commit
  <2>1. /\ exec.pc = "commit" /\ exec'.kind = exec.kind
        /\ exec'.target = exec.target /\ exec'.newBundle = exec.newBundle
        /\ exec'.newMgmt = exec.newMgmt
        /\ exec'.pc = IF exec.kind = "FLUSH" THEN "invalidate" ELSE "manage"
    BY <1>1, <1>11, Steps DEF Commit
  <2>2. /\ UNCHANGED mgmt /\ UNCHANGED disk /\ UNCHANGED over
        /\ UNCHANGED stranded
        /\ bundle' = IF exec.kind = "FLUSH" THEN bundle ELSE exec.newBundle
    BY <1>11 DEF Commit
  <2>3. UNCHANGED Kept
    BY <2>2 DEF Kept
  <2>4. exec.kind # "FLUSH" => exec.kind = "POLICY_UPDATE"
    BY <1>1, <2>1 DEF KindInv, Both
  <2>5. DiskInv'
    BY <1>1, <1>2, <2>1, <2>2, <2>4 DEF DiskInv, Prepared, Moving, Reading
  <2>6. ASSUME over = 0 PROVE KeptInv'
    <3>1. CASE exec.kind = "FLUSH"
      BY <1>1, <1>2, <2>1, <2>2, <2>3, <2>6, <3>1 DEF KeptInv, Prepared,
         Moving, Reading
    <3>2. CASE exec.kind = "POLICY_UPDATE"
      <4>1. /\ disk.base = exec.target /\ exec.newBundle = exec.target
            /\ exec.newMgmt = exec.target /\ exec.newBundle # None
        BY <1>1, <2>1, <2>6, <3>2 DEF KeptInv, DiskInv, Prepared, Moving
      <4>2. Kept' = bundle'
        BY <2>2, <2>3, <3>2, <4>1 DEF Kept
      <4>3. QED BY <2>1, <2>2, <3>2, <4>1, <4>2
                DEF KeptInv, Prepared, Moving, Reading
    <3>3. QED BY <2>4, <3>1, <3>2
  <2>7. exec'.pc \notin Reading \cup {"apply", "sync"}
    BY <2>1 DEF Reading
  <2>8. QED BY <2>2, <2>5, <2>6, <2>7 DEF DirectoryInv
<1>12. CASE Manage
  <2>1. /\ exec.pc = "manage" /\ exec'.pc = "invalidate"
        /\ UNCHANGED bundle /\ UNCHANGED disk /\ UNCHANGED over
        /\ UNCHANGED stranded /\ mgmt' = exec.newMgmt
    BY <1>1, <1>12, Steps DEF Manage
  <2>2. exec.kind = "POLICY_UPDATE"
    BY <1>1, <2>1 DEF KindInv, Gated, Both
  <2>3. DiskInv'
    BY <1>1, <1>2, <2>1 DEF DiskInv, Prepared, Moving, Reading
  <2>4. ASSUME over = 0 PROVE KeptInv'
    <3>1. /\ disk.base = exec.target /\ exec.newMgmt = exec.target
          /\ exec.newMgmt # None /\ Kept = bundle
      BY <1>1, <2>1, <2>2, <2>4 DEF KeptInv, DiskInv, Prepared, Moving
    <3>2. Kept' = bundle' /\ Kept' = mgmt'
      BY <2>1, <3>1 DEF Kept
    <3>3. QED BY <2>1, <3>2 DEF KeptInv, Prepared, Moving, Reading
  <2>5. QED BY <2>1, <2>3, <2>4 DEF DirectoryInv, Reading
<1>15. CASE Invalidate
  BY <1>1, <1>15, Steps, RunInPlace DEF Invalidate, Moving
<1>13. QED BY <1>3, <1>4, <1>5, <1>6, <1>7, <1>8, <1>9, <1>10, <1>11, <1>12,
              <1>14, <1>15 DEF Run

LEMMA StartDirectory ==
    ASSUME CInv, Load \/ Register \/ Publish \/ SyncFirst
    PROVE  DirectoryInv'
<1> USE DEF policyVars, adminVars, modeVars, diskVars
<1>1. /\ TypeOK /\ StartInv /\ DiskInv /\ exec.pc = "free"
      /\ proc # "down" /\ over = 0 => KeptInv
      /\ UNCHANGED exec /\ UNCHANGED <<disk, over, stranded>>
      /\ proc # "run" /\ proc' # "run"
  BY DEF CInv, DirectoryInv, StartInv, Load, Register, Publish, SyncFirst
<1>2. disk.base # None
  BY <1>1 DEF DiskInv, Load, Register, Publish, SyncFirst
<1>3. Kept = disk.base /\ UNCHANGED Kept
  BY <1>1, <1>2 DEF Kept
<1>4. DiskInv'
  BY <1>1, <1>2 DEF DiskInv, Prepared, Moving, Reading
<1>5. ASSUME over = 0 PROVE KeptInv'
  <2>1. CASE Load
    <3>1. proc' = "register" /\ bundle' = disk.base
      BY <2>1 DEF Load
    <3>2. QED BY <1>1, <1>3, <3>1 DEF KeptInv, Prepared, Moving, Reading
  <2>2. CASE Publish
    <3>1. mgmt' = disk.base /\ bundle' = bundle /\ proc = "publish"
      BY <2>2 DEF Publish
    <3>2. QED BY <1>1, <1>3, <1>5, <3>1 DEF KeptInv, Prepared, Moving, Reading
  <2>3. CASE Register \/ SyncFirst
    <3>1. /\ mgmt' = mgmt /\ bundle' = bundle
          /\ \/ proc = "register" /\ proc' = "publish"
             \/ proc = "sync" /\ proc' = "ack"
      BY <2>3 DEF Register, SyncFirst
    <3>2. QED BY <1>1, <1>3, <1>5, <3>1 DEF KeptInv, Prepared, Moving, Reading
  <2>4. QED BY <2>1, <2>2, <2>3
<1>6. QED BY <1>1, <1>4, <1>5 DEF DirectoryInv, Reading

\* Whoever stages over what is being read is counted.
LEMMA StageDirectory ==
    ASSUME CInv, NEW p \in Policies, Stage(p)
    PROVE  DirectoryInv'
<1> USE ControlAssumption DEF policyVars, adminVars
<1>1. /\ TypeOK /\ StartInv /\ DiskInv /\ over \in Nat /\ p # None
      /\ proc # "down" /\ over = 0 => KeptInv
  BY DEF CInv, DirectoryInv, TypeOK
<1>2. /\ UNCHANGED exec /\ UNCHANGED bundle /\ UNCHANGED mgmt
      /\ UNCHANGED epoch /\ UNCHANGED proc /\ UNCHANGED stranded
      /\ disk.base # None
      /\ over' = IF exec.pc \in Reading THEN over + 1 ELSE over
  BY DEF Stage, Reading
<1>3. /\ disk'.base = disk.base /\ disk'.new = p
      /\ disk'.saved = disk.saved /\ disk'.savedNew = disk.savedNew
  BY <1>1 DEF Stage, TypeOK, Directory
<1>4. UNCHANGED Kept
  BY <1>3 DEF Kept
<1>5. exec.pc \in Reading => proc = "run"
  BY <1>1 DEF StartInv, Reading
<1>6. DiskInv'
  BY <1>1, <1>2, <1>3, <1>5 DEF DiskInv, Prepared, Moving
<1>7. ASSUME over' = 0, proc # "down" PROVE KeptInv'
  <2>1. over = 0 /\ exec.pc \notin Reading
    BY <1>1, <1>2, <1>7
  <2>2. KeptInv
    BY <1>1, <1>7, <2>1
  <2>3. QED BY <1>2, <1>3, <1>4, <2>1, <2>2 DEF KeptInv, Prepared, Moving
<1>8. QED BY <1>2, <1>6, <1>7 DEF CInv, DirectoryInv

LEMMA ExecuteDirectory ==
    ASSUME CInv, NEW c \in Conn, Execute(c)
    PROVE  DirectoryInv'
<1> USE DEF policyVars, diskVars
<1>1. /\ TypeOK /\ DiskInv
      /\ proc # "down" /\ over = 0 => KeptInv
  BY DEF CInv, DirectoryInv
<1>2. /\ exec.pc = "free" /\ proc = "run" /\ UNCHANGED proc
      /\ UNCHANGED <<disk, over, stranded>> /\ UNCHANGED bundle
      /\ UNCHANGED mgmt /\ UNCHANGED epoch
  BY <1>1, Executed, Serves DEF Execute
<1>3. \/ UNCHANGED exec
      \/ /\ exec'.pc = FirstStep(conn[c].kind) /\ exec'.kind = conn[c].kind
         /\ conn[c].kind \in Kind
  BY <1>1, Executed DEF TypeOK, Command
<1>4. \/ exec'.pc \in {"free", "switch", "validate"}
      \/ exec'.pc = "sync" /\ exec'.kind = "FLUSH"
  BY <1>2, <1>3 DEF FirstStep, Kind
<1>5. UNCHANGED Kept
  BY <1>2 DEF Kept
<1>6. DiskInv'
  BY <1>1, <1>2, <1>4 DEF DiskInv, Prepared, Moving, Reading
<1>7. ASSUME over = 0 PROVE KeptInv'
  BY <1>1, <1>2, <1>4, <1>5, <1>7 DEF KeptInv, Prepared, Moving, Reading
<1>8. QED BY <1>2, <1>4, <1>6, <1>7 DEF DirectoryInv, Reading

\* Whoever comes last leaves the directories as they are.
LEMMA ExitDirectory ==
    ASSUME CInv, Exit
    PROVE  DirectoryInv'
<1>1. /\ proc' = "down" /\ exec'.pc = "free" /\ UNCHANGED disk
      /\ over' = 0 /\ stranded' = FALSE
  BY ExitIs DEF NoExec, Exit
<1>2. DiskInv
  BY DEF CInv, DirectoryInv
<1>3. DiskInv'
  BY <1>1, <1>2 DEF DiskInv, Prepared, Moving, Reading
<1>4. QED BY <1>1, <1>3 DEF DirectoryInv, Reading

LEMMA DirectoryHolds == CInv /\ [Next]_vars => DirectoryInv'
<1> SUFFICES ASSUME CInv, [Next]_vars PROVE DirectoryInv'
  OBVIOUS
<1>1. ASSUME NEW c \in Conn, AdminStep(c) PROVE DirectoryInv'
  BY <1>1, AdminKeeps, OthersDirectory
<1>2. CASE \/ LookQuiet \/ LookBusy \/ (\E u \in User : RegisterKey(u))
           \/ UNCHANGED vars
  <2>1. /\ UNCHANGED <<disk, over, stranded>> /\ UNCHANGED bundle
        /\ UNCHANGED mgmt /\ UNCHANGED epoch /\ UNCHANGED exec
        /\ UNCHANGED proc
    BY <1>2 DEF LookQuiet, LookBusy, MonitorOnly, RegisterKey, AdminOnly, vars,
       policyVars, adminVars, diskVars
  <2>2. QED BY <2>1, OthersDirectory
<1>3. QED BY <1>1, <1>2, StartDirectory, ExitDirectory, SendDirectory,
             RunDirectory, StageDirectory, ExecuteDirectory
             DEF Next, Crash, GiveUp, AdminStep

-----------------------------------------------------------------------------
(* Audit ids. *)

\* Commands and the one that waits keep their ids, or are gone.
LEMMA IdsKept ==
    ASSUME OnceInv, UNCHANGED ids, UNCHANGED issued,
           slot' = None \/ slot' = slot,
           \A c \in Conn : conn'[c].pc # "idle" =>
               /\ conn[c].pc # "idle" /\ conn'[c].id = conn[c].id
               /\ conn[c].pc = "run" => conn'[c].pc = "run"
    PROVE  OnceInv'
BY DEF OnceInv

LEMMA AdminOnce ==
    ASSUME CInv, NEW c \in Conn, AdminStep(c)
    PROVE  OnceInv'
<1> DEFINE n == 1 .. issued
<1>1. TypeOK /\ OnceInv /\ NoCommand.pc = "idle"
  BY DEF CInv, NoCommand
<1>2. Others(c) /\ UNCHANGED ids /\ conn[c].pc # "run"
  BY AdminKeeps
<1>3. CASE Pend(c)
  <2>1. conn'[c].pc = "idle" /\ conn[c].pc = "pend" /\ UNCHANGED issued
    BY <1>1, <1>3, Pended DEF Pend
  <2>2. slot' = slot \/ (slot' # None /\ slot'.id = conn[c].id)
    BY <1>1, <1>3, Pended DEF Pend
  <2>3. CASE slot' = slot
    BY <1>1, <1>2, <2>1, <2>3, IdsKept DEF Others
  <2>4. CASE slot' # None /\ slot'.id = conn[c].id
    <3>1. \A d \in Conn : conn'[d].pc # "idle" => d # c /\ conn'[d] = conn[d]
      BY <1>2, <2>1 DEF Others
    <3>2. slot'.id \in 1 .. issued /\ slot'.id \notin ids
      BY <1>1, <2>1, <2>4 DEF OnceInv
    <3>3. \A d \in Conn : conn'[d].pc # "idle" => conn'[d].id # slot'.id
      BY <1>1, <2>1, <2>4, <3>1 DEF OnceInv
    <3>4. QED BY <1>1, <1>2, <2>1, <2>4, <3>1, <3>2, <3>3 DEF OnceInv
  <2>5. QED BY <2>2, <2>3, <2>4
<1>4. CASE Stamp(c)
  <2>1. /\ UNCHANGED issued /\ UNCHANGED slot
        /\ conn[c].pc = "stamp" /\ conn'[c].id = conn[c].id
    BY <1>1, <1>4, Stamped DEF Stamp, SameCommand
  <2>2. QED BY <1>1, <1>2, <2>1, IdsKept DEF Others
<1>5. CASE Finalize(c)
  <2>1. /\ UNCHANGED issued /\ UNCHANGED slot /\ conn[c].pc = "final"
        /\ conn'[c].pc # "idle" => conn'[c].id = conn[c].id
    BY <1>1, <1>5, Finalized DEF Finalize, SameCommand
  <2>2. QED BY <1>1, <1>2, <2>1, IdsKept DEF Others
<1>6. ASSUME NEW u \in User, NEW k \in Kind, Initiate(c, u, k) PROVE OnceInv'
  <2>1. mgmt \in Policies
    BY <1>6, Serves DEF Initiate
  <2>2. /\ issued \in Nat /\ issued' = issued + 1 /\ conn'[c].id = issued + 1
        /\ slot' = slot /\ conn[c].pc = "idle"
    BY <1>1, <1>6, <2>1, Initiated DEF Initiate
  <2>3. issued + 1 \notin n /\ n \subseteq 1 .. issued' /\ issued + 1 \in 1 .. issued'
    BY <2>2
  <2> HIDE DEF n
  <2>4. /\ ids \subseteq n
        /\ slot # None => slot.id \in n
        /\ \A d \in Conn : conn[d].pc # "idle" => conn[d].id \in n
    BY <1>1 DEF OnceInv, n
  <2>5. QED BY <1>1, <1>2, <2>2, <2>3, <2>4 DEF OnceInv, Others
<1>7. ASSUME NEW u \in User, NEW i \in 1 .. issued, ApproveCtl(c, u, i)
      PROVE  OnceInv'
  <2>1. slot # None /\ UNCHANGED issued /\ conn[c].pc = "idle"
    BY <1>7 DEF ApproveCtl, IsMeant
  <2>2. CASE conn'[c] = conn[c] /\ slot' \in Pending /\ slot'.id = slot.id
    <3>1. \A d \in Conn : conn'[d] = conn[d]
      BY <1>2, <2>2 DEF Others
    <3>2. QED BY <1>1, <1>2, <2>1, <2>2, <3>1 DEF OnceInv
  <2>3. CASE slot' = None /\ conn'[c].pc = "final" /\ conn'[c].id = slot.id
    <3>1. /\ slot.id \in 1 .. issued /\ slot.id \notin ids
          /\ \A d \in Conn : conn[d].pc # "idle" => conn[d].id # slot.id
      BY <1>1, <2>1 DEF OnceInv
    <3>2. QED BY <1>1, <1>2, <2>1, <2>3, <3>1 DEF OnceInv, Others
  <2>4. QED BY <1>1, <1>7, <2>2, <2>3, Approved
<1>8. ASSUME NEW u \in User, NEW i \in 1 .. issued, DenyCtl(c, u, i)
      PROVE  OnceInv'
  BY <1>1, <1>2, <1>8, IdsKept DEF DenyCtl
<1>9. QED BY <1>3, <1>4, <1>5, <1>6, <1>7, <1>8 DEF AdminStep

LEMMA OnceHolds == CInv /\ [Next]_vars => OnceInv'
<1> SUFFICES ASSUME CInv, [Next]_vars PROVE OnceInv'
  OBVIOUS
<1> USE DEF policyVars, adminVars, modeVars, kernelVars, diskVars
<1>1. TypeOK /\ OnceInv /\ NoCommand.pc = "idle"
  BY DEF CInv, NoCommand
<1>2. CASE \/ Load \/ Register \/ Publish \/ SyncFirst
           \/ LookQuiet \/ LookBusy \/ (\E u \in User : RegisterKey(u))
           \/ (\E p \in Policies : Stage(p)) \/ UNCHANGED vars
  <2>1. UNCHANGED conn /\ UNCHANGED slot /\ UNCHANGED ids /\ UNCHANGED issued
    BY <1>2 DEF Load, Register, Publish, SyncFirst, LookQuiet, LookBusy,
       MonitorOnly, RegisterKey, AdminOnly, Stage, vars
  <2>2. QED BY <1>1, <2>1, IdsKept
<1>3. CASE Exit
  <2>1. /\ slot' = None /\ UNCHANGED ids /\ UNCHANGED issued
        /\ \A c \in Conn : conn'[c].pc = "idle"
    BY <1>1, <1>3, ExitIs DEF Exit
  <2>2. QED BY <1>1, <2>1, IdsKept
<1>4. CASE Send
  <2>1. UNCHANGED conn /\ UNCHANGED slot /\ UNCHANGED ids /\ UNCHANGED issued
    BY <1>4 DEF Send, SwitchMode, SyncedFirst, Synced, SyncEpoch
  <2>2. QED BY <1>1, <2>1, IdsKept
<1>5. CASE Run
  <2>1. /\ UNCHANGED ids /\ UNCHANGED issued
        /\ Done \/ UNCHANGED conn
        /\ slot' = slot \/ slot' = None
    BY <1>1, <1>5, RunGoes, RunOnPolicy DEF GoesOn
  <2>2. \A c \in Conn : conn'[c] = conn[c] \/ conn'[c].pc = "idle"
    BY <1>1, <2>1, Ends
  <2>3. QED BY <1>1, <2>1, <2>2, IdsKept
<1>6. ASSUME NEW c \in Conn, Execute(c) PROVE OnceInv'
  <2>1. /\ conn[c].pc = "lock" /\ UNCHANGED issued /\ UNCHANGED slot
        /\ Others(c)
    BY <1>1, <1>6, Executed DEF Execute
  <2>2. CASE conn'[c] = NoCommand /\ UNCHANGED ids
    BY <1>1, <2>1, <2>2, IdsKept DEF Others
  <2>3. CASE /\ conn'[c].pc = "run" /\ conn'[c].id = conn[c].id
             /\ ids' = ids \cup {conn[c].id}
    <3>1. /\ conn[c].id \in 1 .. issued
          /\ slot # None => slot.id # conn[c].id
          /\ \A d \in Conn \ {c} : conn[d].pc # "idle" => conn[d].id # conn[c].id
      BY <1>1, <2>1 DEF OnceInv
    <3>2. ids' \subseteq 1 .. issued'
      BY <1>1, <2>1, <2>3, <3>1 DEF OnceInv
    <3>3. slot' # None => slot'.id \in 1 .. issued' /\ slot'.id \notin ids'
      BY <1>1, <2>1, <2>3, <3>1 DEF OnceInv
    <3>4. QED BY <1>1, <2>1, <2>3, <3>1, <3>2, <3>3 DEF OnceInv, Others
  <2>4. QED BY <1>1, <1>6, <2>2, <2>3, Executed DEF SameCommand
<1>7. ASSUME NEW c \in Conn, AdminStep(c) PROVE OnceInv'
  BY <1>7, AdminOnce
<1>8. QED BY <1>2, <1>3, <1>4, <1>5, <1>6, <1>7
          DEF Next, Crash, GiveUp, AdminStep

-----------------------------------------------------------------------------
(* Approvals. *)

\* More approvers do not undo an approval.
LEMMA QuorumKept ==
    ASSUME NEW asks, asks.threshold \in Nat, NEW holds,
           NEW by, NEW more \in SUBSET User, by \subseteq more,
           Fulfilled(asks, holds, by)
    PROVE  Fulfilled(asks, holds, more)
<1>1. IsFiniteSet(more) /\ IsFiniteSet(by)
  BY ControlAssumption, FS_Subset
<1>2. Cardinality(by) <= Cardinality(more)
  BY <1>1, FS_Subset
<1>3. Cardinality(by) \in Nat /\ Cardinality(more) \in Nat
  BY <1>1, FS_CardinalityType
<1>4. UNION {holds[u] : u \in by} \subseteq UNION {holds[u] : u \in more}
  OBVIOUS
<1>5. QED BY <1>2, <1>3, <1>4 DEF Fulfilled

\* What QuorumInv says of a command.
Grounded(c) ==
    /\ conn[c].pc = "stamp" => ~conn[c].asks.mpa
    /\ conn[c].pc \in {"final", "lock", "run"} =>
           /\ conn[c].epoch <= epoch
           /\ conn[c].asks.mpa /\ conn[c].epoch = epoch =>
                  Fulfilled(conn[c].asks, bundle.holds, Voters(conn[c].id))
SlotGrounded ==
    slot # None => slot.by \subseteq Voters(slot.id) /\ slot.epoch <= epoch

LEMMA GroundedIs == QuorumInv <=> SlotGrounded /\ \A c \in Conn : Grounded(c)
BY DEF QuorumInv, SlotGrounded, Grounded

\* Voters stay.
LEMMA VotersKept ==
    ASSUME voted \subseteq voted', NEW i
    PROVE  Voters(i) \subseteq Voters(i)' /\ Voters(i)' \in SUBSET User
BY DEF Voters

LEMMA OthersGrounded ==
    ASSUME CInv, voted \subseteq voted', UNCHANGED epoch, UNCHANGED bundle,
           NEW c \in Conn,
           \/ conn'[c].pc \in {"idle", "pend"}
           \/ conn'[c] = conn[c]
    PROVE  Grounded(c)'
<1>1. CASE conn'[c].pc \in {"idle", "pend"}
  BY <1>1 DEF Grounded
<1>2. CASE conn'[c] = conn[c] /\ conn[c].pc \in {"stamp", "final", "lock", "run"}
  <2>1. Grounded(c)
    BY GroundedIs DEF CInv
  <2>2. conn[c].asks.threshold \in Nat
    BY <1>2, Serves, ControlAssumption DEF Policy
  <2>3. Fulfilled(conn[c].asks, bundle.holds, Voters(conn[c].id))
            => Fulfilled(conn[c].asks, bundle.holds, Voters(conn[c].id)')
    <3>1. Voters(conn[c].id) \subseteq Voters(conn[c].id)'
      BY <1>2 DEF Voters
    <3>2. Voters(conn[c].id)' \in SUBSET User
      BY DEF Voters
    <3>3. QED BY <2>2, <3>1, <3>2, QuorumKept
  <2>4. QED BY <1>2, <2>1, <2>3 DEF Grounded, Fulfilled
<1>3. conn[c] \in Command
  BY DEF CInv, TypeOK
<1>4. QED BY <1>1, <1>2, <1>3 DEF Command

LEMMA AdminGrounded ==
    ASSUME CInv, NEW c \in Conn, AdminStep(c)
    PROVE  QuorumInv'
<1>1. /\ TypeOK /\ SlotGrounded /\ Grounded(c) /\ NoCommand.pc = "idle"
      /\ epoch \in Nat
  BY GroundedIs DEF CInv, TypeOK, NoCommand, Epoch
<1>2. /\ UNCHANGED epoch /\ UNCHANGED bundle /\ UNCHANGED mgmt
      /\ proc = "run" /\ Others(c)
  BY AdminKeeps
<1>3. SUFFICES voted \subseteq voted' /\ Grounded(c)' /\ SlotGrounded'
  <2>1. ASSUME NEW d \in Conn, d # c, voted \subseteq voted' PROVE Grounded(d)'
    BY <1>2, <2>1, OthersGrounded DEF Others
  <2>2. ASSUME voted \subseteq voted', Grounded(c)', SlotGrounded'
        PROVE  QuorumInv'
    BY <2>1, <2>2 DEF QuorumInv, Grounded, SlotGrounded
  <2>3. QED BY <2>2
<1>4. CASE Pend(c)
  <2>1. voted' = voted /\ conn'[c].pc = "idle"
    BY <1>1, <1>4, Pended DEF Pend
  <2>2. Grounded(c)'
    BY <2>1 DEF Grounded
  <2>3. slot' = slot \/ (slot'.by = {} /\ slot'.epoch = epoch)
    BY <1>1, <1>4, Pended DEF Pend
  <2>4. SlotGrounded'
    BY <1>1, <1>2, <2>1, <2>3 DEF SlotGrounded, Voters
  <2>5. QED BY <2>1, <2>2, <2>4
<1>5. CASE Stamp(c)
  <2>1. /\ voted' = voted /\ slot' = slot /\ conn[c].pc = "stamp"
        /\ conn'[c].pc = "lock" /\ conn'[c].epoch = epoch
        /\ conn'[c].asks = conn[c].asks
    BY <1>1, <1>5, Stamped DEF Stamp, SameCommand
  <2>2. Grounded(c)'
    BY <1>1, <1>2, <2>1 DEF Grounded
  <2>3. SlotGrounded'
    BY <1>1, <1>2, <2>1 DEF SlotGrounded, Voters
  <2>4. QED BY <2>1, <2>2, <2>3
<1>6. CASE Finalize(c)
  <2>1. /\ voted' = voted /\ slot' = slot /\ conn[c].pc = "final"
        /\ \/ conn'[c].pc = "idle"
           \/ /\ conn'[c].pc = "lock" /\ conn'[c].epoch = conn[c].epoch
              /\ conn'[c].asks = conn[c].asks /\ conn'[c].id = conn[c].id
    BY <1>1, <1>6, Finalized DEF Finalize, SameCommand
  <2>2. Grounded(c)'
    BY <1>1, <1>2, <2>1 DEF Grounded, Voters, Fulfilled
  <2>3. SlotGrounded'
    BY <1>1, <1>2, <2>1 DEF SlotGrounded, Voters
  <2>4. QED BY <2>1, <2>2, <2>3
<1>7. ASSUME NEW u \in User, NEW k \in Kind, Initiate(c, u, k)
      PROVE  voted \subseteq voted' /\ Grounded(c)' /\ SlotGrounded'
  <2>1. mgmt \in Policies
    BY <1>2, Serves
  <2>2. /\ voted' = voted /\ slot' = slot /\ conn'[c].asks = mgmt
        /\ conn'[c].pc = IF mgmt.mpa THEN "pend" ELSE "stamp"
    BY <1>1, <1>7, <2>1, Initiated DEF Initiate
  <2>3. Grounded(c)'
    BY <2>2 DEF Grounded
  <2>4. SlotGrounded'
    BY <1>1, <1>2, <2>2 DEF SlotGrounded, Voters
  <2>5. QED BY <2>2, <2>3, <2>4
<1>8. ASSUME NEW u \in User, NEW i \in 1 .. issued, ApproveCtl(c, u, i)
      PROVE  voted \subseteq voted' /\ Grounded(c)' /\ SlotGrounded'
  <2>1. /\ slot \in Pending /\ slot # None /\ slot.id = i
        /\ slot.epoch = epoch /\ conn[c].pc = "idle"
        /\ voted' = voted \cup {[id |-> i, user |-> u]}
    BY <1>1, <1>8, Approved DEF ApproveCtl, IsMeant
  <2>2. slot.by \cup {u} \subseteq Voters(i)' /\ Voters(i)' \in SUBSET User
    <3>1. slot.by \subseteq Voters(i)
      BY <1>1, <2>1 DEF SlotGrounded
    <3>2. QED BY <2>1, <3>1 DEF Voters
  <2>3. CASE conn'[c] = conn[c] /\ slot'.by = slot.by \cup {u}
             /\ slot'.id = i /\ slot'.epoch = slot.epoch
    <3>1. Grounded(c)'
      BY <2>1, <2>3 DEF Grounded
    <3>2. SlotGrounded'
      BY <1>1, <1>2, <2>1, <2>2, <2>3 DEF SlotGrounded, Voters
    <3>3. QED BY <2>1, <3>1, <3>2
  <2>4. CASE /\ slot' = None
             /\ Fulfilled(slot.asks, bundle.holds, slot.by \cup {u})
             /\ conn'[c].pc = "final" /\ conn'[c].id = i
             /\ conn'[c].epoch = slot.epoch /\ conn'[c].asks = slot.asks
    <3>1. slot.asks.threshold \in Nat
      BY <2>1, ControlAssumption DEF Pending, Policy
    <3>2. Fulfilled(slot.asks, bundle.holds, Voters(i)')
      BY <2>2, <2>4, <3>1, QuorumKept
    <3>3. Fulfilled(conn'[c].asks, bundle'.holds, Voters(conn[c].id)')
      BY <1>2, <2>4, <3>2 DEF Voters
    <3>4. Grounded(c)'
      BY <1>1, <1>2, <2>1, <2>4, <3>3 DEF Grounded, Fulfilled
    <3>5. SlotGrounded'
      BY <2>4 DEF SlotGrounded
    <3>6. QED BY <2>1, <3>4, <3>5
  <2>5. QED BY <1>1, <1>8, <2>1, <2>3, <2>4, Approved
<1>9. ASSUME NEW u \in User, NEW i \in 1 .. issued, DenyCtl(c, u, i)
      PROVE  voted \subseteq voted' /\ Grounded(c)' /\ SlotGrounded'
  <2>1. slot' = None /\ voted' = voted /\ conn' = conn /\ conn[c].pc = "idle"
    BY <1>9 DEF DenyCtl
  <2>2. QED BY <2>1 DEF Grounded, SlotGrounded
<1>10. QED BY <1>4, <1>5, <1>6, <1>7, <1>8, <1>9 DEF AdminStep

LEMMA QuorumHolds == CInv /\ [Next]_vars => QuorumInv'
<1> SUFFICES ASSUME CInv, [Next]_vars PROVE QuorumInv'
  OBVIOUS
<1> USE DEF policyVars, adminVars, modeVars, kernelVars, diskVars
<1>1. /\ TypeOK /\ StartInv /\ SlotGrounded /\ \A c \in Conn : Grounded(c)
      /\ NoCommand.pc = "idle" /\ epoch \in Nat
  BY GroundedIs DEF CInv, TypeOK, NoCommand, Epoch
<1>2. ASSUME voted' = voted, epoch' = epoch, bundle' = bundle,
             slot' = slot \/ slot' = None,
             \A c \in Conn : conn'[c] = conn[c] \/ conn'[c].pc = "idle"
      PROVE  QuorumInv'
  <2>1. \A c \in Conn : Grounded(c)'
    BY <1>2, OthersGrounded
  <2>2. SlotGrounded'
    BY <1>1, <1>2 DEF SlotGrounded, Voters
  <2>3. QED BY <2>1, <2>2 DEF QuorumInv, Grounded, SlotGrounded
<1>3. CASE Load \/ Register \/ Publish \/ SyncFirst \/ Exit
  <2>1. slot' = None /\ \A c \in Conn : conn'[c].pc = "idle"
    <3>1. CASE Exit
      BY <1>1, <3>1, ExitIs
    <3>2. CASE Load \/ Register \/ Publish \/ SyncFirst
      BY <1>1, <3>2 DEF Load, Register, Publish, SyncFirst, StartInv
    <3>3. QED BY <1>3, <3>1, <3>2
  <2>2. QED BY <2>1 DEF QuorumInv
<1>4. CASE \/ LookQuiet \/ LookBusy \/ (\E u \in User : RegisterKey(u))
           \/ (\E p \in Policies : Stage(p)) \/ UNCHANGED vars
  BY <1>2, <1>4 DEF LookQuiet, LookBusy, MonitorOnly, RegisterKey, AdminOnly,
     Stage, vars
<1>5. CASE Send
  <2>1. /\ voted' = voted /\ epoch' = epoch /\ bundle' = bundle
        /\ slot' = slot /\ conn' = conn
    BY <1>5 DEF Send, SwitchMode, SyncedFirst, Synced, SyncEpoch
  <2>2. QED BY <1>2, <2>1
<1>6. CASE Run
  <2>1. /\ UNCHANGED voted
        /\ slot' = slot \/ slot' = None
        /\ \A c \in Conn : conn'[c] = conn[c] \/ conn'[c].pc = "idle"
    BY <1>1, <1>6, RunGoes, RunOnPolicy, Ends DEF GoesOn
  <2>2. CASE UNCHANGED epoch /\ UNCHANGED bundle
    BY <1>2, <2>1, <2>2
  <2>3. CASE epoch' = epoch + 1
    <3>1. ASSUME NEW c \in Conn, conn'[c] = conn[c] PROVE Grounded(c)'
      <4>1. CASE conn[c].pc \in {"final", "lock", "run"}
        <5>1. conn[c].epoch <= epoch /\ conn[c].epoch \in Nat
          BY <1>1, <4>1, Serves DEF Grounded, Epoch
        <5>2. QED BY <1>1, <2>3, <3>1, <4>1, <5>1 DEF Grounded
      <4>2. CASE conn[c].pc \notin {"final", "lock", "run"}
        BY <1>1, <3>1, <4>2 DEF Grounded
      <4>3. QED BY <4>1, <4>2
    <3>2. \A c \in Conn : Grounded(c)'
      <4>1. ASSUME NEW c \in Conn, conn'[c].pc = "idle" PROVE Grounded(c)'
        BY <4>1 DEF Grounded
      <4>2. QED BY <2>1, <3>1, <4>1
    <3>3. SlotGrounded'
      <4>1. slot # None => slot.epoch \in Nat
        BY <1>1 DEF TypeOK, Pending, Epoch
      <4>2. QED BY <1>1, <2>1, <2>3, <4>1 DEF SlotGrounded, Voters
    <3>4. QED BY <3>2, <3>3 DEF QuorumInv, Grounded, SlotGrounded
  <2>4. QED BY <1>1, <1>6, <2>2, <2>3, RunOnPolicy
<1>7. ASSUME NEW c \in Conn, Execute(c) PROVE QuorumInv'
  <2>1. /\ voted' = voted /\ epoch' = epoch /\ bundle' = bundle
        /\ slot' = slot /\ Others(c)
    BY <1>1, <1>7, Executed DEF Execute
  <2>2. CASE conn'[c] = NoCommand
    BY <1>1, <1>2, <2>1, <2>2 DEF Others
  <2>3. CASE /\ SameCommand(c) /\ conn'[c].pc = "run" /\ conn[c].pc = "lock"
             /\ conn'[c].epoch = conn[c].epoch
    <3>1. Grounded(c)'
      BY <1>1, <2>1, <2>3 DEF Grounded, SameCommand, Voters, Fulfilled
    <3>2. \A d \in Conn \ {c} : Grounded(d)'
      BY <2>1, OthersGrounded DEF Others
    <3>3. SlotGrounded'
      BY <1>1, <2>1 DEF SlotGrounded, Voters
    <3>4. QED BY <3>1, <3>2, <3>3 DEF QuorumInv, Grounded, SlotGrounded
  <2>4. QED BY <1>1, <1>7, <2>2, <2>3, Executed
<1>8. ASSUME NEW c \in Conn, AdminStep(c) PROVE QuorumInv'
  BY <1>8, AdminGrounded
<1>9. QED BY <1>3, <1>4, <1>5, <1>6, <1>7, <1>8
          DEF Next, Crash, GiveUp, AdminStep

LEMMA EpochOfCommandHolds == CInv /\ [Next]_vars => RunsInItsEpoch'
<1> SUFFICES ASSUME CInv, [Next]_vars, NEW d \in Conn, conn'[d].pc = "run",
                    exec'.pc \notin {"manage", "invalidate", "open"}
             PROVE  conn'[d].epoch = epoch'
  BY DEF RunsInItsEpoch, Runs
<1> USE DEF policyVars, adminVars, modeVars, kernelVars, diskVars
<1>1. /\ TypeOK /\ StartInv /\ SerialInv /\ RunsInItsEpoch
      /\ NoCommand.pc = "idle" /\ exec \in Exec
  BY DEF CInv, TypeOK, NoCommand
<1>2. ASSUME conn'[d] = conn[d], epoch' = epoch,
             exec.pc \in {"manage", "invalidate", "open"} => exec' = exec
      PROVE  conn'[d].epoch = epoch'
  BY <1>1, <1>2 DEF RunsInItsEpoch, Runs
<1>3. CASE Load \/ Register \/ Publish \/ SyncFirst
  BY <1>1, <1>3 DEF Load, Register, Publish, SyncFirst, StartInv
<1>4. CASE Exit
  BY <1>1, <1>4, ExitIs
<1>5. CASE \/ LookQuiet \/ LookBusy \/ (\E u \in User : RegisterKey(u))
           \/ (\E p \in Policies : Stage(p)) \/ UNCHANGED vars
  BY <1>2, <1>5 DEF LookQuiet, LookBusy, MonitorOnly, RegisterKey, AdminOnly,
     Stage, vars
<1>6. CASE Send
  <2>1. /\ conn' = conn /\ epoch' = epoch
        /\ (exec' = exec \/ proc = "ack" \/ exec.pc = "ack")
    BY <1>6 DEF Send, SwitchMode, SyncedFirst, Synced, SyncEpoch
  <2>2. proc # "ack"
    BY <1>1, <2>1 DEF StartInv
  <2>3. QED BY <1>2, <2>1, <2>2
<1>7. CASE Run
  <2>1. CASE Done
    <3>1. /\ exec.conn # d /\ conn'[d] = conn[d]
      BY <1>1, <2>1, Ends
    <3>2. QED BY <1>1, <3>1 DEF SerialInv
  <2>2. CASE GoesOn
    <3>1. /\ conn'[d] = conn[d]
          /\ exec.pc \notin {"manage", "invalidate", "open"}
          /\ exec.pc # "commit"
      BY <2>2 DEF GoesOn, Goes
    <3>2. epoch' = epoch
      BY <1>1, <1>7, <3>1, RunOnPolicy
    <3>3. QED BY <1>2, <3>1, <3>2
  <2>3. QED BY <1>1, <1>7, <2>1, <2>2, RunGoes
<1>8. ASSUME NEW c \in Conn, Execute(c) PROVE conn'[d].epoch = epoch'
  <2>1. epoch' = epoch /\ exec.pc = "free" /\ Others(c)
    BY <1>1, <1>8, Executed DEF Execute
  <2>2. CASE d = c
    BY <1>1, <1>8, <2>1, <2>2, Executed
  <2>3. CASE d # c
    BY <1>2, <2>1, <2>3 DEF Others
  <2>4. QED BY <2>2, <2>3
<1>9. ASSUME NEW c \in Conn, AdminStep(c) PROVE conn'[d].epoch = epoch'
  BY <1>2, <1>9, AdminKeeps, AdminCommands DEF Others
<1>10. QED BY <1>3, <1>4, <1>5, <1>6, <1>7, <1>8, <1>9
           DEF Next, Crash, GiveUp, AdminStep

-----------------------------------------------------------------------------
(* The modes. *)

\* A mode that is sent is the last.
LEMMA LastSent ==
    ASSUME lane \in Seq(Message), NEW on \in BOOLEAN,
           lane' = Append(lane, ModeMessage(on))
    PROVE  /\ \A n \in DOMAIN lane' : LastMode(n)' => (lane'[n].on <=> on)
           /\ ~NoMode'
<1>1. ModeMessage(on) \in Message /\ ModeMessage(on).kind = "mode"
  BY MessageTyped DEF ModeMessage
<1>2. PICK k \in Nat : k = Len(lane) + 1
  BY LenProperties
<1>3. DOMAIN lane' = 1 .. k /\ lane'[k] = ModeMessage(on)
  BY <1>1, <1>2, Sends
<1>4. k \in DOMAIN lane' /\ IsMode(k)'
  BY <1>1, <1>2, <1>3, LenProperties DEF IsMode
<1>5. ASSUME NEW n \in DOMAIN lane', LastMode(n)' PROVE n = k
  <2>1. ~(k > n)
    BY <1>4, <1>5 DEF LastMode
  <2>2. QED BY <1>2, <1>3, <2>1
<1>6. QED BY <1>3, <1>4, <1>5 DEF NoMode, ModeMessage

\* An epoch that is sent changes no mode.
LEMMA SyncSentAfter ==
    ASSUME lane \in Seq(Message), NEW e \in Epoch,
           lane' = Append(lane, SyncMessage(e))
    PROVE  /\ NoMode' => NoMode
           /\ \A n \in DOMAIN lane' : LastMode(n)' =>
                  n \in DOMAIN lane /\ LastMode(n) /\ lane'[n] = lane[n]
<1>1. SyncMessage(e) \in Message /\ SyncMessage(e).kind # "mode"
  BY MessageTyped DEF SyncMessage
<1>2. /\ DOMAIN lane = 1 .. Len(lane) /\ Len(lane) \in Nat
      /\ DOMAIN lane' = 1 .. Len(lane) + 1
      /\ lane'[Len(lane) + 1].kind # "mode"
      /\ \A n \in 1 .. Len(lane) : lane'[n] = lane[n]
  BY <1>1, Sends
<1>3. \A n \in DOMAIN lane : n \in DOMAIN lane' /\ (IsMode(n)' <=> IsMode(n))
  BY <1>2 DEF IsMode
<1>4. \A n \in DOMAIN lane' : IsMode(n)' => n \in DOMAIN lane
  BY <1>2 DEF IsMode
<1>5. QED BY <1>2, <1>3, <1>4 DEF NoMode, LastMode

\* What is taken off the queue is not the last mode, or is the kernel's.
LEMMA TakenOff ==
    ASSUME TypeOK, NEW m \in Message, Dispatch(m)
    PROVE  /\ \A n \in DOMAIN lane' : LastMode(n)' =>
                  /\ n + 1 \in DOMAIN lane /\ LastMode(n + 1)
                  /\ lane'[n] = lane[n + 1]
           /\ NoMode' => \/ m.kind = "mode" /\ LastMode(1)
                         \/ m.kind # "mode" /\ NoMode
           /\ 1 \in DOMAIN lane /\ lane[1] = m
<1>1. /\ DOMAIN lane = 1 .. Len(lane) /\ Len(lane) \in Nat \ {0}
      /\ DOMAIN lane' = 1 .. Len(lane) - 1 /\ m = lane[1]
      /\ \A n \in 1 .. Len(lane) - 1 : lane'[n] = lane[n + 1]
  BY Dispatches DEF TypeOK
<1>2. \A n \in DOMAIN lane' : n + 1 \in DOMAIN lane
          /\ (IsMode(n)' <=> IsMode(n + 1)) /\ lane'[n] = lane[n + 1]
  BY <1>1 DEF IsMode
<1>3. \A n \in DOMAIN lane : n # 1 => n - 1 \in DOMAIN lane' /\ (n - 1) + 1 = n
  BY <1>1
<1>4. \A n \in DOMAIN lane : n # 1 => (IsMode(n - 1)' <=> IsMode(n))
  BY <1>2, <1>3
<1>5. ASSUME NEW n \in DOMAIN lane', LastMode(n)' PROVE LastMode(n + 1)
  <2>1. IsMode(n + 1) /\ n \in Nat
    BY <1>1, <1>2, <1>5 DEF LastMode
  <2>2. ASSUME NEW k \in DOMAIN lane, k > n + 1 PROVE ~IsMode(k)
    <3>1. k # 1 /\ k - 1 \in DOMAIN lane' /\ k - 1 > n
      BY <1>1, <1>3, <2>1, <2>2
    <3>2. QED BY <1>4, <1>5, <3>1 DEF LastMode
  <2>3. QED BY <2>1, <2>2 DEF LastMode
<1>6. ASSUME NoMode' PROVE \A n \in DOMAIN lane : n # 1 => ~IsMode(n)
  BY <1>3, <1>4, <1>6 DEF NoMode
<1>7. NoMode' /\ m.kind = "mode" => LastMode(1)
  BY <1>1, <1>6 DEF LastMode, IsMode
<1>8. NoMode' /\ m.kind # "mode" => NoMode
  BY <1>1, <1>6 DEF NoMode, IsMode
<1>9. QED BY <1>1, <1>2, <1>5, <1>7, <1>8

LEMMA ModesKept ==
    ASSUME ModeInv, Told' => Told, Enforcing' <=> Enforcing,
           kernel'.on = kernel.on, UNCHANGED unsent,
           proc' # "run" => mode' = "drain",
           \/ UNCHANGED lane
           \/ \E e \in Epoch : lane' = Append(lane, SyncMessage(e)),
           lane \in Seq(Message)
    PROVE  ModeInv'
<1> SUFFICES ASSUME Told' PROVE ModesOf(Enforcing)'
  BY DEF ModeInv
<1>1. ModesOf(Enforcing)
  BY DEF ModeInv
<1>2. CASE UNCHANGED lane
  BY <1>1, <1>2 DEF ModesOf, NoMode, LastMode, IsMode
<1>3. ASSUME NEW e \in Epoch, lane' = Append(lane, SyncMessage(e))
      PROVE  ModesOf(Enforcing)'
  BY <1>1, <1>3, SyncSentAfter DEF ModesOf
<1>4. QED BY <1>2, <1>3

LEMMA StartModes ==
    ASSUME CInv, Load \/ Register \/ Publish \/ SyncFirst \/ Exit
    PROVE  ModeInv'
<1> USE DEF adminVars, modeVars, policyVars, kernelVars, diskVars
<1>1. TypeOK /\ StartInv /\ ModeInv /\ lane \in Seq(Message)
  BY DEF CInv, TypeOK
<1>2. CASE Load \/ Exit
  BY <1>2, ExitIs DEF Load, ModeInv, Told
<1>3. CASE Register
  <2>1. /\ lane' = Append(lane, ModeMessage(FALSE)) /\ mode' = "drain"
        /\ proc' = "publish" /\ exec' = exec /\ exec.pc = "free"
    BY <1>1, <1>3 DEF Register, ModeMessage, ModeInv, StartInv
  <2>2. ~Enforcing'
    BY <2>1 DEF Enforcing
  <2>3. /\ \A n \in DOMAIN lane' : LastMode(n)' => (lane'[n].on <=> FALSE)
        /\ ~NoMode'
    BY <1>1, <2>1, LastSent
  <2>4. ModesOf(Enforcing)'
    BY <2>2, <2>3 DEF ModesOf
  <2>5. QED BY <2>1, <2>4 DEF ModeInv
<1>4. CASE Publish \/ SyncFirst
  <2>1. /\ UNCHANGED mode /\ UNCHANGED exec /\ UNCHANGED overridden
        /\ UNCHANGED kernel /\ UNCHANGED unsent
        /\ proc \notin {"down", "register", "run"}
        /\ proc' \notin {"down", "register", "run"}
    BY <1>4 DEF Publish, SyncFirst
  <2>2. \/ UNCHANGED lane
        \/ epoch \in Epoch /\ lane' = Append(lane, SyncMessage(epoch))
    BY <1>1, <1>4 DEF Publish, SyncFirst, SyncMessage, StartInv
  <2>3. Told' => Told
    BY <2>1 DEF Told
  <2>4. Enforcing' <=> Enforcing
    BY <2>1 DEF Enforcing
  <2>5. mode' = "drain"
    BY <1>1, <2>1 DEF ModeInv
  <2>6. QED BY <1>1, <2>1, <2>2, <2>3, <2>4, <2>5, ModesKept
<1>5. QED BY <1>2, <1>3, <1>4

LEMMA SendModes ==
    ASSUME CInv, Send
    PROVE  ModeInv'
<1> USE DEF adminVars, modeVars, policyVars, kernelVars, diskVars
<1>1. TypeOK /\ StartInv /\ ModeInv /\ exec \in Exec
  BY DEF CInv, TypeOK
<1>2. PICK m \in Message :
          /\ Dispatch(m)
          /\ \/ m.kind # "mode" /\ kernel'.on = kernel.on /\ UNCHANGED unsent
             \/ m.kind = "mode" /\ (unsent' \/ kernel'.on = m.on)
  <2>1. ASSUME NEW on \in BOOLEAN, NEW reached \in BOOLEAN,
               SwitchMode(on, reached)
        PROVE  /\ ModeMessage(on) \in Message /\ Dispatch(ModeMessage(on))
               /\ ModeMessage(on).kind = "mode"
               /\ unsent' \/ kernel'.on = ModeMessage(on).on
    BY <1>1, <2>1, MessageTyped DEF SwitchMode, ModeMessage, TypeOK
  <2>2. ASSUME NEW e \in Epoch, NEW reached \in BOOLEAN, NEW acked \in BOOLEAN,
               SyncedFirst(e, reached, acked) \/ Synced(e, reached, acked)
        PROVE  /\ SyncMessage(e) \in Message /\ Dispatch(SyncMessage(e))
               /\ SyncMessage(e).kind # "mode" /\ kernel'.on = kernel.on
               /\ UNCHANGED unsent
    <3>1. SyncEpoch(e, reached, acked)
      BY <2>2 DEF SyncedFirst, Synced
    <3>2. UNCHANGED unsent
      BY <3>1 DEF SyncEpoch
    <3>3. QED BY <1>1, <3>1, <3>2, Syncs, MessageTyped DEF SyncMessage
  <2>3. QED BY <2>1, <2>2 DEF Send
<1>3. /\ UNCHANGED mode /\ UNCHANGED overridden
      /\ proc' = proc \/ (proc = "ack" /\ proc' = "run")
      /\ exec' = exec \/ (exec.pc # "clear" /\ exec'.pc # "clear")
  <2>1. ASSUME NEW on \in BOOLEAN, NEW reached \in BOOLEAN,
             SwitchMode(on, reached)
        PROVE  /\ UNCHANGED mode /\ UNCHANGED overridden /\ UNCHANGED exec
               /\ UNCHANGED proc
    BY <2>1 DEF SwitchMode
  <2>2. ASSUME NEW e \in Epoch, NEW reached \in BOOLEAN, NEW acked \in BOOLEAN,
               SyncedFirst(e, reached, acked)
        PROVE  /\ UNCHANGED mode /\ UNCHANGED overridden
               /\ proc = "ack" /\ proc' \in {"ack", "run"}
               /\ exec' = exec \/ exec'.pc = "uncertain"
               /\ exec.pc # "clear"
    BY <1>1, <2>2 DEF SyncedFirst, Exec, StartInv
  <2>3. ASSUME NEW e \in Epoch, NEW reached \in BOOLEAN, NEW acked \in BOOLEAN,
               Synced(e, reached, acked)
        PROVE  /\ UNCHANGED mode /\ UNCHANGED overridden /\ UNCHANGED proc
               /\ exec.pc = "ack" /\ exec'.pc \in {"commit", "uncertain"}
    BY <1>1, <2>3 DEF Synced, Exec
  <2>4. QED BY <2>1, <2>2, <2>3 DEF Send
<1>4. (Told' => Told) /\ (Enforcing' <=> Enforcing)
  BY <1>3 DEF Told, Enforcing
<1>5. proc' # "run" => mode' = "drain"
  BY <1>1, <1>3 DEF ModeInv
<1>6. ASSUME Told' PROVE ModesOf(Enforcing)'
  <2>1. ModesOf(Enforcing)
    BY <1>1, <1>4, <1>6 DEF ModeInv
  <2>2. QED BY <1>1, <1>2, <1>4, <2>1, TakenOff DEF ModesOf
<1>7. QED BY <1>5, <1>6 DEF ModeInv

LEMMA MonitorModes ==
    ASSUME CInv, LookQuiet \/ LookBusy
    PROVE  ModeInv'
<1> USE DEF adminVars, modeVars, policyVars, kernelVars, diskVars, MonitorOnly
<1>1. /\ ModeInv /\ lane \in Seq(Message) /\ UNCHANGED lane
      /\ UNCHANGED kernel /\ UNCHANGED unsent /\ UNCHANGED exec
      /\ UNCHANGED proc /\ proc = "run"
  BY DEF CInv, TypeOK, LookQuiet, LookBusy
<1>2. mode' = mode \/ (mode' = "audit" /\ mode = "drain") \/ overridden'
  <2>1. CASE LookBusy
    BY <2>1 DEF LookBusy
  <2>2. CASE LookQuiet /\ quiet' # MaxQuiet
    BY <2>2 DEF LookQuiet
  <2>3. CASE LookQuiet /\ quiet' = MaxQuiet
    <3>1. mode' = "audit" /\ (mode # "drain" => overridden')
      BY <2>3 DEF LookQuiet
    <3>2. QED BY <3>1
  <2>4. QED BY <2>1, <2>2, <2>3
<1>3. overridden => overridden'
  BY DEF LookQuiet, LookBusy
<1>4. ASSUME Told' PROVE Told /\ (Enforcing' <=> Enforcing)
  BY <1>1, <1>2, <1>3, <1>4 DEF Told, Enforcing
<1>5. CASE Told'
  BY <1>1, <1>4, <1>5, ModesKept
<1>6. CASE ~Told'
  BY <1>1, <1>6 DEF ModeInv
<1>7. QED BY <1>5, <1>6

LEMMA RunModes ==
    ASSUME CInv, Run
    PROVE  ModeInv'
<1> USE ControlAssumption DEF policyVars
<1>1. /\ TypeOK /\ ModeInv /\ KindInv /\ exec \in Exec /\ lane \in Seq(Message)
  BY DEF CInv, TypeOK
<1>2. proc = "run" /\ UNCHANGED proc /\ UNCHANGED kernel /\ UNCHANGED unsent
  BY <1>1, RunGoes DEF CInv, StartInv
<1>3. CASE Switch
  <2>1. PICK on \in BOOLEAN : on <=> exec.kind = "START"
    OBVIOUS
  <2>2. /\ lane' = Append(lane, ModeMessage(on)) /\ exec'.pc = "clear"
        /\ exec'.kind = exec.kind
    BY <1>1, <1>3, <2>1, Steps DEF Switch, ModeMessage
  <2>3. Enforcing' <=> on
    BY <2>1, <2>2 DEF Enforcing
  <2>4. ModesOf(Enforcing)'
    BY <1>1, <2>2, <2>3, LastSent DEF ModesOf
  <2>5. QED BY <1>2, <2>4 DEF ModeInv
<1>4. CASE Clear
  <2>1. /\ exec.pc = "clear" /\ exec'.pc = "free" /\ ~overridden'
        /\ mode' = ModeAfter(exec.kind) /\ UNCHANGED lane
    BY <1>1, <1>4, Ends DEF Clear
  <2>2. Enforcing' <=> Enforcing
    BY <2>1 DEF Enforcing, ModeAfter
  <2>3. Told
    BY <1>2, <2>1 DEF Told
  <2>4. QED BY <1>1, <1>2, <2>1, <2>2, <2>3, ModesKept
<1>5. CASE ~Switch /\ ~Clear
  <2>1. /\ UNCHANGED mode /\ UNCHANGED overridden
        /\ exec.pc # "clear"
    BY <1>5 DEF Run, Validate, Compile, PrepareManagement, PrepareFails,
       Backup, Apply, ApplyFails, Sync, Overflow, Commit, Manage, Invalidate,
       Open, Step
  <2>2. exec'.pc # "clear"
    <3>1. CASE Done
      BY <1>1, <3>1, Ends
    <3>2. CASE GoesOn
      <4>1. exec.pc # "switch"
        BY <1>5 DEF Run, Validate, Compile, PrepareManagement, PrepareFails,
           Backup, Apply, ApplyFails, Sync, Overflow, Commit, Manage,
           Invalidate, Open, Step
      <4>2. QED BY <3>2, <4>1 DEF GoesOn, Goes
    <3>3. QED BY <1>1, <3>1, <3>2, RunGoes
  <2>3. UNCHANGED lane \/ \E e \in Epoch : lane' = Append(lane, SyncMessage(e))
    <3>1. Sync => epoch + 1 \in Epoch
      BY <1>1 DEF Sync, TypeOK, Epoch
    <3>2. QED BY <1>5, <3>1 DEF Run, Validate, Compile, PrepareManagement,
                 PrepareFails, Backup, Apply, ApplyFails, Sync, Overflow,
                 Commit, Manage, Invalidate, Open, SyncMessage
  <2>4. (Told' => Told) /\ (Enforcing' <=> Enforcing)
    BY <1>2, <2>1, <2>2 DEF Told, Enforcing
  <2>5. QED BY <1>1, <1>2, <2>3, <2>4, ModesKept
<1>6. QED BY <1>3, <1>4, <1>5

LEMMA ModesHold == CInv /\ [Next]_vars => ModeInv'
<1> SUFFICES ASSUME CInv, [Next]_vars PROVE ModeInv'
  OBVIOUS
<1> USE DEF policyVars, adminVars, modeVars, kernelVars, diskVars
<1>1. TypeOK /\ ModeInv /\ lane \in Seq(Message)
  BY DEF CInv, TypeOK
<1>2. ASSUME UNCHANGED mode, UNCHANGED overridden, UNCHANGED lane,
             UNCHANGED kernel, UNCHANGED unsent, UNCHANGED proc, UNCHANGED exec
      PROVE  ModeInv'
  <2>1. (Told' => Told) /\ (Enforcing' <=> Enforcing)
    BY <1>2 DEF Told, Enforcing
  <2>2. proc' # "run" => mode' = "drain"
    BY <1>1, <1>2 DEF ModeInv
  <2>3. QED BY <1>1, <1>2, <2>1, <2>2, ModesKept
<1>3. CASE \/ (\E u \in User : RegisterKey(u))
           \/ (\E p \in Policies : Stage(p)) \/ UNCHANGED vars
  BY <1>2, <1>3 DEF RegisterKey, AdminOnly, Stage, vars
<1>4. ASSUME NEW c \in Conn, AdminStep(c) PROVE ModeInv'
  BY <1>2, <1>4, AdminKeeps
<1>5. ASSUME NEW c \in Conn, Execute(c) PROVE ModeInv'
  <2>1. /\ exec.pc = "free" /\ UNCHANGED mode /\ UNCHANGED overridden
        /\ UNCHANGED lane /\ UNCHANGED kernel /\ UNCHANGED unsent
        /\ UNCHANGED proc
        /\ proc = "run"
    BY <1>1, <1>5, Executed, Serves DEF Execute
  <2>2. exec'.pc # "clear"
    BY <1>1, <1>5, <2>1, Executed DEF FirstStep, TypeOK, Command, Kind
  <2>3. (Told' => Told) /\ (Enforcing' <=> Enforcing)
    BY <2>1, <2>2 DEF Told, Enforcing
  <2>4. QED BY <1>1, <2>1, <2>3, ModesKept
<1>6. QED BY <1>3, <1>4, <1>5, StartModes, SendModes, MonitorModes, RunModes
          DEF Next, Crash, GiveUp, AdminStep

-----------------------------------------------------------------------------
(* The invariant. *)

LEMMA InitHolds == Init => CInv
<1> SUFFICES ASSUME Init PROVE CInv
  OBVIOUS
<1> USE ControlAssumption
<1>1. /\ proc = "down" /\ slot = None /\ exec.pc = "free" /\ exec.conn = None
      /\ lane = <<>> /\ mode = "drain" /\ ids = {}
      /\ \A c \in Conn : conn[c].pc = "idle"
  BY DEF Init, Stopped, NoExec, NoCommand
<1>2. CommandInv /\ StartInv
  BY <1>1 DEF CommandInv, StartInv
<1>3. SerialInv /\ KindInv
  BY <1>1 DEF SerialInv, KindInv, Gated, Both
<1>4. SyncInv
  BY <1>1, EmptySeq DEF SyncInv
<1>10. EpochInv
  BY <1>1 DEF EpochInv
<1>5. DirectoryInv
  <2>1. /\ disk.base = Installed /\ Installed # None /\ over = 0
        /\ stranded = FALSE
    BY DEF Init
  <2>2. DiskInv
    BY <1>1, <2>1 DEF DiskInv, Prepared, Moving, Reading
  <2>3. QED BY <1>1, <2>2 DEF DirectoryInv, Reading
<1>6. QuorumInv /\ RunsInItsEpoch
  BY <1>1 DEF QuorumInv, RunsInItsEpoch, Runs
<1>7. OnceInv
  BY <1>1 DEF OnceInv
<1>8. ModeInv
  BY <1>1 DEF ModeInv, Told
<1>9. QED BY <1>2, <1>3, <1>4, <1>5, <1>6, <1>7, <1>8, <1>10, InitTyped DEF CInv

LEMMA NextHolds == CInv /\ [Next]_vars => CInv'
BY Typed, Flows, SyncsHold, DirectoryHolds, QuorumHolds, EpochOfCommandHolds,
   OnceHolds, ModesHold DEF CInv, FlowInv

LEMMA Invariance == Spec => []CInv
BY InitHolds, NextHolds, PTL DEF Spec

-----------------------------------------------------------------------------
\* Commands, the queue, the directories and the modes keep their types.
THEOREM ControlTypeCorrect == Spec => []TypeOK
BY Invariance, PTL DEF CInv

\* A command that needs approval runs only if as many as its management asked
\* for, of every role it asked for, signed its own audit id: through the slot,
\* the mutex, the wait for the lock and commands that ran in between.
THEOREM CommandsHaveQuorum == Spec => []QuorumBehind
<1>1. CInv => QuorumBehind
  <2> SUFFICES ASSUME CInv, NEW c \in Conn, Runs(c), conn[c].asks.mpa
               PROVE  Fulfilled(conn[c].asks, bundle.holds, Voters(conn[c].id))
    BY DEF QuorumBehind, Voters
  <2>1. conn[c].pc = "run" /\ conn[c].epoch = epoch
    BY DEF CInv, RunsInItsEpoch, Runs
  <2>2. QED BY <2>1 DEF CInv, QuorumInv
<1>2. QED BY <1>1, Invariance, PTL

\* A command runs in the epoch it was approved in, whatever ran while it waited
\* for MGMT_EXEC_LOCK.
THEOREM CommandsRunInTheirEpoch == Spec => []RunsInItsEpoch
BY Invariance, PTL DEF CInv

\* An audit id comes to run at most once, however many approve it at a time and
\* whatever teald's restarts.
THEOREM CommandsRunOnce == Spec => RunsOnce
<1>1. CInv => \A c \in Conn : conn[c].pc = "lock" => conn[c].id \notin ids
  BY DEF CInv, OnceInv
<1>2. CInv /\ [Next]_vars =>
          [\A c \in Conn : conn[c].pc = "lock" /\ conn'[c].pc = "run"
                               => conn[c].id \notin ids]_vars
  BY <1>1
<1>3. QED BY <1>2, Invariance, PTL DEF Spec, RunsOnce

\* /etc/teal.d, or the backup where that is gone, holds the policy in force and
\* its management, if nothing was staged between the hash and the renames: over
\* renames that fail, and fail to be undone, and wherever an update broke off
\* before the kernel was told.  switch_policy_directory,
\* rollback_policy_directory.
THEOREM DirectoryIsInForce == Spec => []DirectoryInForce
<1>1. CInv => DirectoryInForce
  <2> SUFFICES ASSUME CInv PROVE DirectoryInForce
    OBVIOUS
  <2>1. Kept # None
    BY DEF CInv, DirectoryInv, DiskInv, Kept
  <2>2. ASSUME proc = "run", over = 0,
               exec.pc \notin {"sync", "ack", "uncertain", "commit"}
        PROVE  /\ Kept = bundle
               /\ exec.pc # "manage" => Kept = mgmt
               /\ exec.pc # "apply" /\ ~stranded => disk.base # None
    BY <2>2 DEF CInv, DirectoryInv, DiskInv, KeptInv, Moving
  <2>3. QED BY <2>1, <2>2 DEF DirectoryInForce, Kept
<1>2. QED BY <1>1, Invariance, PTL

\* What comes into force is the directory whose hash the approvers signed, if
\* nothing was staged over it after the hash was taken.  validate_staged_policy.
THEOREM PolicyIsAsSigned == Spec => []PolicyAsSigned
<1>1. CInv => PolicyAsSigned
  <2> SUFFICES ASSUME CInv, over = 0, exec.kind = "POLICY_UPDATE",
                      exec.pc \in {"apply", "sync", "ack", "commit", "manage"}
               PROVE  exec.newBundle = exec.target /\ exec.newMgmt = exec.target
    BY DEF PolicyAsSigned
  <2>1. proc = "run"
    BY DEF CInv, StartInv
  <2>2. Prepared
    BY DEF Prepared, Moving
  <2>3. QED BY <2>1, <2>2 DEF CInv, DirectoryInv, KeptInv
<1>2. QED BY <1>1, Invariance, PTL

\* The kernel enforces if and only if teald does, but for START and STOP under
\* way, for what the settle monitor overrode and where the last MODE_SWITCH was
\* lost on its way: a later one, or a restart, brings them back in step.
THEOREM ModesAreInStep == Spec => []ModesAgree
<1>1. CInv => ModesAgree
  <2> SUFFICES ASSUME CInv, proc = "run", exec.pc # "clear", ~overridden,
                      ~unsent, \A n \in 1 .. Len(lane) : lane[n].kind # "mode"
               PROVE  kernel.on = (mode = "enforce")
    BY DEF ModesAgree
  <2>1. DOMAIN lane = 1 .. Len(lane) /\ kernel.on \in BOOLEAN
    BY LenProperties DEF CInv, TypeOK
  <2>2. Told /\ NoMode
    BY <2>1 DEF Told, NoMode, IsMode
  <2>3. kernel.on <=> mode = "enforce"
    BY <2>2 DEF CInv, ModeInv, ModesOf, Enforcing
  <2>4. QED BY <2>1, <2>3
<1>2. QED BY <1>1, Invariance, PTL

\* What waits for approval is of the policy in force, but while its epoch is
\* being published: commands that come in meanwhile are dropped with the rest.
THEOREM SlotIsInEpoch == Spec => []SlotInEpoch
<1> USE DEF policyVars, adminVars, modeVars, kernelVars, diskVars
<1>1. Init => SlotInEpoch
  BY DEF Init, Stopped, SlotInEpoch
<1>2. CInv /\ SlotInEpoch /\ [Next]_vars => SlotInEpoch'
  <2> SUFFICES ASSUME CInv, SlotInEpoch, [Next]_vars,
                      slot' # None, exec'.pc \notin {"manage", "invalidate"}
               PROVE  slot'.epoch = epoch'
    BY DEF SlotInEpoch
  <2>1. TypeOK /\ StartInv /\ exec \in Exec
    BY DEF CInv, TypeOK
  <2>2. ASSUME slot' = slot, epoch' = epoch,
               exec.pc \in {"manage", "invalidate"} => exec' = exec
        PROVE  slot'.epoch = epoch'
    BY <2>2 DEF SlotInEpoch
  <2>3. CASE Load \/ Register \/ Publish \/ SyncFirst \/ Exit
    BY <2>1, <2>3, ExitIs DEF Load, Register, Publish, SyncFirst, StartInv
  <2>4. CASE \/ LookQuiet \/ LookBusy \/ (\E u \in User : RegisterKey(u))
             \/ (\E p \in Policies : Stage(p)) \/ UNCHANGED vars
    BY <2>2, <2>4 DEF LookQuiet, LookBusy, MonitorOnly, RegisterKey, AdminOnly,
       Stage, vars
  <2>5. CASE Send
    <3>1. /\ slot' = slot /\ epoch' = epoch
          /\ (exec' = exec \/ proc = "ack" \/ exec.pc = "ack")
      BY <2>5 DEF Send, SwitchMode, SyncedFirst, Synced, SyncEpoch
    <3>2. CASE proc = "ack"
      BY <2>1, <3>1, <3>2 DEF StartInv
    <3>3. QED BY <2>2, <3>1, <3>2
  <2>6. CASE Run
    <3>1. slot' = slot /\ exec.pc # "invalidate"
      <4>1. CASE Clear \/ Invalidate
        BY <4>1 DEF Clear, Invalidate, Invalidated
      <4>2. CASE ~Clear /\ ~Invalidate
        BY <2>6, <4>2 DEF Run, Switch, Validate, Compile, PrepareManagement,
           PrepareFails, Backup, Apply, ApplyFails, Sync, Overflow, Commit,
           Manage, Open, Step
      <4>3. QED BY <4>1, <4>2
    <3>2. exec.pc \notin {"commit", "manage"}
      BY <2>1, <2>6, RunGoes DEF GoesOn, Goes
    <3>3. epoch' = epoch
      BY <2>1, <2>6, <3>2, RunOnPolicy
    <3>4. QED BY <2>2, <3>1, <3>2, <3>3
  <2>7. ASSUME NEW c \in Conn, Execute(c) PROVE slot'.epoch = epoch'
    BY <2>1, <2>2, <2>7, Executed DEF Execute
  <2>8. ASSUME NEW c \in Conn, AdminStep(c) PROVE slot'.epoch = epoch'
    <3>1. UNCHANGED epoch /\ UNCHANGED exec
      BY <2>8, AdminKeeps
    <3>2. CASE slot' = slot
      BY <2>2, <3>1, <3>2
    <3>3. CASE slot' # slot
      <4>1. CASE Pend(c)
        BY <2>1, <3>1, <3>3, <4>1, Pended
      <4>2. ASSUME NEW u \in User, NEW i \in 1 .. issued, ApproveCtl(c, u, i)
            PROVE  slot'.epoch = epoch'
        BY <2>1, <3>1, <4>2, Approved
      <4>3. QED BY <2>8, <3>3, <4>1, <4>2 DEF AdminStep, Stamp, Finalize,
                   Initiate, DenyCtl
    <3>4. QED BY <3>2, <3>3
  <2>9. QED BY <2>3, <2>4, <2>5, <2>6, <2>7, <2>8
            DEF Next, Crash, GiveUp, AdminStep
<1>3. QED BY <1>1, <1>2, Invariance, PTL DEF Spec

-----------------------------------------------------------------------------
(* How a new epoch comes to teald. *)

HandoverStep == Handover!HandoverNext \/ UNCHANGED Handover!handoverVars

LEMMA HandoverInitRefined == Init => Handover!HandoverInit
<1> SUFFICES ASSUME Init PROVE Handover!HandoverInit
  OBVIOUS
<1>1. proc = "down" /\ gate = FALSE /\ kernel.epoch = 0 /\ MaxEpoch \in Nat
  BY ControlAssumption DEF Init, Stopped
<1>2. QED BY <1>1 DEF Handover!HandoverInit, InUse

\* What nothing but the epochs and the gate is to be asked of.
LEMMA HandoverKept ==
    ASSUME UNCHANGED gate, UNCHANGED epoch, UNCHANGED kernel.epoch,
           InUse' <=> InUse
    PROVE  HandoverStep
BY DEF HandoverStep, Handover!handoverVars, InUse

LEMMA HandoverStart ==
    ASSUME CInv, Load \/ Register \/ Publish \/ SyncFirst
    PROVE  HandoverStep
<1>1. ~InUse /\ ~InUse' /\ UNCHANGED kernel
  BY DEF InUse, Load, Register, Publish, SyncFirst, kernelVars
<1>2. QED BY <1>1 DEF HandoverStep, Handover!handoverVars

\* An exit shuts the gate; what was uncertain is forgotten.
LEMMA HandoverExit ==
    ASSUME CInv, Exit
    PROVE  HandoverStep
<1>1. TypeOK /\ KindInv /\ EpochInv
  BY DEF CInv
<1>2. ~InUse' /\ UNCHANGED kernel
  BY ExitIs DEF Exit, InUse
<1>3. CASE gate \/ ~InUse
  BY <1>2, <1>3 DEF HandoverStep, Handover!HandoverNext, Handover!Follow
<1>4. CASE ~gate /\ InUse
  <2>1. kernel.epoch = epoch
    BY <1>1, <1>4 DEF InUse, KindInv, Gated, EpochInv
  <2>2. QED BY <1>2, <1>4, <2>1 DEF HandoverStep, Handover!HandoverNext,
               Handover!Shut
<1>5. QED BY <1>3, <1>4

\* What the kernel takes is one epoch more than it has.
LEMMA HandoverSend ==
    ASSUME CInv, Send
    PROVE  HandoverStep
<1>1. /\ TypeOK /\ StartInv /\ KindInv /\ EpochInv /\ exec \in Exec
      /\ epoch \in Nat /\ kernel.epoch \in Nat /\ MaxEpoch \in Nat
      /\ epoch \in Epoch \cup {0} /\ gate \in BOOLEAN
  BY ControlAssumption DEF CInv, TypeOK, Epoch
<1>2. ASSUME NEW on \in BOOLEAN, NEW reached \in BOOLEAN,
             SwitchMode(on, reached) PROVE HandoverStep
  <2>1. /\ UNCHANGED proc /\ UNCHANGED exec /\ UNCHANGED epoch
        /\ UNCHANGED gate /\ kernel'.epoch = kernel.epoch
    BY <1>1, <1>2 DEF SwitchMode, TypeOK, policyVars, adminVars
  <2>2. QED BY <2>1, HandoverKept DEF InUse
<1>3. ASSUME NEW e \in Epoch, NEW reached \in BOOLEAN, NEW acked \in BOOLEAN,
             SyncedFirst(e, reached, acked) \/ Synced(e, reached, acked)
      PROVE  HandoverStep
  <2>1. SyncEpoch(e, reached, acked)
    BY <1>3 DEF SyncedFirst, Synced
  <2>2. /\ Dispatch(SyncMessage(e)) /\ UNCHANGED epoch /\ UNCHANGED gate
        /\ kernel'.epoch = IF reached THEN e ELSE kernel.epoch
        /\ acked => reached
    BY <1>1, <2>1, Syncs DEF SyncEpoch, policyVars
  <2>3. Awaited(e) /\ e \in 1 .. MaxEpoch
    BY <2>2, SyncAwaited DEF Epoch
  <2>4. CASE SyncedFirst(e, reached, acked)
    <3>1. proc = "ack" /\ exec.pc = "free" /\ e = epoch /\ epoch = kernel.epoch + 1
      BY <1>1, <2>3, <2>4 DEF SyncedFirst, Awaited, EpochInv
    <3>2. ~InUse /\ (InUse' <=> acked)
      BY <1>1, <2>4, <3>1 DEF SyncedFirst, Exec, InUse
    <3>3. CASE reached
      <4>1. kernel'.epoch = kernel.epoch + 1 /\ kernel.epoch < MaxEpoch
            /\ kernel'.epoch = epoch'
        BY <1>1, <2>2, <2>3, <3>1, <3>3
      <4>2. Handover!Advance
        BY <1>1, <2>2, <3>2, <4>1 DEF Handover!Advance
      <4>3. QED BY <4>2 DEF HandoverStep, Handover!HandoverNext
    <3>4. CASE ~reached
      BY <2>2, <3>2, <3>4 DEF HandoverStep, Handover!handoverVars
    <3>5. QED BY <3>3, <3>4
  <2>5. CASE Synced(e, reached, acked)
    <3>1. proc = "run" /\ exec.pc = "ack" /\ e = epoch + 1 /\ gate
          /\ epoch < MaxEpoch /\ kernel.epoch = epoch /\ UNCHANGED proc
      BY <1>1, <2>3, <2>5 DEF Synced, Awaited, EpochInv, KindInv, Gated
    <3>2. InUse /\ (InUse' <=> acked)
      BY <1>1, <2>5, <3>1 DEF Synced, Exec, InUse
    <3>3. CASE reached
      <4>1. kernel'.epoch = kernel.epoch + 1 /\ kernel.epoch < MaxEpoch
        BY <1>1, <2>2, <3>1, <3>3
      <4>2. Handover!Advance
        BY <1>1, <2>2, <3>1, <3>2, <4>1 DEF Handover!Advance
      <4>3. QED BY <4>2 DEF HandoverStep, Handover!HandoverNext
    <3>4. CASE ~reached
      BY <2>2, <3>1, <3>2, <3>4 DEF HandoverStep, Handover!handoverVars
    <3>5. QED BY <3>3, <3>4
  <2>6. QED BY <1>3, <2>4, <2>5
<1>4. QED BY <1>2, <1>3 DEF Send

\* A command takes the gate as it gets the lock.
LEMMA HandoverExecute ==
    ASSUME CInv, NEW c \in Conn, Execute(c)
    PROVE  HandoverStep
<1>1. TypeOK /\ EpochInv /\ gate \in BOOLEAN
  BY DEF CInv, TypeOK
<1>2. /\ exec.pc = "free" /\ proc = "run" /\ UNCHANGED proc
      /\ UNCHANGED epoch /\ UNCHANGED kernel
  BY <1>1, Executed, Serves DEF Execute, policyVars, kernelVars
<1>3. exec'.pc \in {"free", "switch", "validate", "sync"}
  BY <1>1, <1>2, Executed DEF FirstStep, TypeOK, Command, Kind
<1>4. InUse /\ InUse' /\ kernel.epoch = epoch
  BY <1>1, <1>2, <1>3 DEF InUse, EpochInv
<1>5. gate' \in BOOLEAN
  BY ExecuteTyped DEF TypeOK
<1>6. CASE gate' = gate
  BY <1>2, <1>4, <1>6, HandoverKept
<1>7. CASE gate' = TRUE
  BY <1>2, <1>4, <1>7 DEF HandoverStep, Handover!HandoverNext, Handover!Shut
<1>8. CASE gate = TRUE /\ gate' = FALSE
  BY <1>2, <1>4, <1>8 DEF HandoverStep, Handover!HandoverNext, Handover!Reopen
<1>9. QED BY <1>1, <1>5, <1>6, <1>7, <1>8

\* ... publishes the epoch, and lets go of the gate as it is done.
LEMMA HandoverRun ==
    ASSUME CInv, Run
    PROVE  HandoverStep
<1>1. TypeOK /\ StartInv /\ KindInv /\ EpochInv /\ gate \in BOOLEAN
  BY DEF CInv, TypeOK
<1>2. /\ proc = "run" /\ UNCHANGED proc /\ UNCHANGED kernel
      /\ exec.pc \notin {"free", "ack", "uncertain"} /\ InUse
  BY <1>1, RunGoes DEF StartInv, InUse
<1>3. CASE Done /\ exec.pc \in {"clear", "validate", "compile", "prepare",
                              "backup", "apply", "sync", "open"}
  <2>1. InUse' /\ gate' = FALSE /\ UNCHANGED epoch
    BY <1>1, <1>2, <1>3, Ends, RunOnPolicy DEF InUse, Done
  <2>2. kernel.epoch = epoch
    BY <1>1, <1>2, <1>3 DEF EpochInv
  <2>3. CASE gate = TRUE
    BY <1>2, <2>1, <2>2, <2>3 DEF HandoverStep, Handover!HandoverNext,
       Handover!Reopen
  <2>4. CASE gate = FALSE
    BY <1>2, <2>1, <2>4, HandoverKept
  <2>5. QED BY <1>1, <2>3, <2>4
<1>4. CASE GoesOn
  <2>1. InUse' /\ UNCHANGED gate
    BY <1>2, <1>4 DEF InUse, GoesOn, Goes
  <2>2. CASE UNCHANGED epoch
    BY <1>2, <2>1, <2>2, HandoverKept
  <2>3. CASE exec.pc = "commit" /\ epoch' = epoch + 1
    <3>1. gate /\ kernel.epoch = epoch + 1
      BY <1>1, <1>2, <2>3 DEF KindInv, Gated, EpochInv
    <3>2. QED BY <1>2, <2>1, <2>3, <3>1 DEF HandoverStep,
                 Handover!HandoverNext, Handover!Follow
  <2>4. QED BY <1>1, <2>2, <2>3, RunOnPolicy
<1>5. QED BY <1>1, <1>3, <1>4, RunGoes

LEMMA HandoverStepRefined ==
    CInv /\ [Next]_vars => [Handover!HandoverNext]_(Handover!handoverVars)
<1> SUFFICES ASSUME CInv, [Next]_vars PROVE HandoverStep
  BY DEF HandoverStep
<1>1. ASSUME NEW c \in Conn, AdminStep(c) PROVE HandoverStep
  BY <1>1, AdminKeeps, HandoverKept DEF InUse
<1>2. CASE \/ LookQuiet \/ LookBusy \/ (\E p \in Policies : Stage(p))
           \/ (\E u \in User : RegisterKey(u)) \/ UNCHANGED vars
  BY <1>2, HandoverKept DEF LookQuiet, LookBusy, MonitorOnly, Stage,
     RegisterKey, AdminOnly, vars, policyVars, adminVars, kernelVars, diskVars,
     InUse
<1>3. QED BY <1>1, <1>2, HandoverStart, HandoverExit, HandoverSend,
             HandoverRun, HandoverExecute DEF Next, Crash, GiveUp, AdminStep

\* teald and the kernel come to a new epoch as EpochHandover says, over
\* restarts, refused updates and lost acknowledgements: whatever is made of an
\* epoch while the gate is open is made of the kernel's
\* (execute_mgmt_ctl_core, terminate_on_epoch_uncertainty).
THEOREM ControlImplementsHandover == Spec => ImplementsHandover
BY HandoverInitRefined, HandoverStepRefined, Invariance, PTL DEF Spec,
   ImplementsHandover, Handover!HandoverSpec

\* That is enough for tickets.
LEMMA HandoverInStep == Handover!HandoverSpec => []Handover!InStep
<1>1. Handover!HandoverInit => Handover!InStep
  BY DEF Handover!HandoverInit, Handover!InStep
<1>2. Handover!InStep /\ [Handover!HandoverNext]_(Handover!handoverVars) => Handover!InStep'
  BY DEF Handover!InStep, Handover!HandoverNext, Handover!handoverVars,
     Handover!Shut, Handover!Advance, Handover!Follow, Handover!Reopen
<1>3. QED BY <1>1, <1>2, PTL DEF Handover!HandoverSpec

\* While tickets may be made, teald and the kernel are of one epoch, whether
\* epochs or their acknowledgements were lost and however often teald ended.
THEOREM EpochsAreInStep == Spec => []EpochsAgree
<1>1. Handover!InStep => EpochsAgree
  BY DEF Handover!InStep, InUse, EpochsAgree
<1>2. QED BY <1>1, ControlImplementsHandover, HandoverInStep,
             PTL DEF ImplementsHandover

=============================================================================
