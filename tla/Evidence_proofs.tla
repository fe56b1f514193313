------------------------- MODULE Evidence_proofs --------------------------
(***************************************************************************)
(* Proofs about the evidence: who was logged in (LoginSessions), what      *)
(* program ran (ProgramHash), and how what is told of an access is kept    *)
(* (TealdEvidence), for any numbers of everything that is bounded in the   *)
(* runs.                                                                   *)
(***************************************************************************)
EXTENDS ProgramHash, LoginSessions, TealdEvidence, SequenceTheorems,
        WellFoundedInduction, TLAPS

-----------------------------------------------------------------------------
(***************************************************************************)
(* ProgramHash.  HInv follows a hash from the first part that is read to   *)
(* the answer.  The metadata of a file only grows; where it has not grown  *)
(* since some moment, the content is that of the moment, or the file was   *)
(* changed twice at one time of the clock.                                 *)
(***************************************************************************)

-----------------------------------------------------------------------------
(* The strengthening. *)

Runs(exec) == process.exec = exec /\ process.file # None
Whole(hash, f) == hash = <<content[f], content[f]>>

\* A hash of file f, given to a request of an execution.
Good(hash, f, exec) ==
    f \notin twice => /\ IsOneVersion(hash)
                      /\ Runs(exec) => Whole(hash, f)

\* A request of the execution that still runs asked for the file that runs.
Asks(exec, f) ==
    /\ exec <= process.exec
    /\ Runs(exec) => process.file = f

CacheGood(f, c) ==
    c # None =>
        /\ c.time <= meta[f]
        /\ f \notin twice => /\ IsOneVersion(c.hash)
                             /\ c.time = meta[f] => Whole(c.hash, f)

BindingGood(b) ==
    b # None => Asks(b.exec, b.file) /\ Good(b.hash, b.file, b.exec)

\* The file is open, and as it was when its metadata was read.
Reads(r) == r.pc \in {"read", "rest", "check"}
Still(r) == r.time = meta[r.file] /\ r.file \notin twice

RequestGood(r) ==
    r.pc # "idle" =>
        /\ r.file \in File
        /\ Asks(r.exec, r.file)
        /\ r.pc = "bound" => r.start # 0
        /\ Reads(r) \/ r.pc = "lock" => r.fd = r.file
        /\ Reads(r) => r.time \in 1 .. MaxTime /\ r.time <= meta[r.file]
        /\ r.pc = "rest" => r.read \in Version
        /\ r.pc \in {"check", "bind"} => r.hash \in Hash
        /\ r.pc = "rest" /\ Still(r) => r.read = content[r.file]
        /\ r.pc = "check" /\ Still(r) => Whole(r.hash, r.file)
        /\ r.pc = "bind" => Good(r.hash, r.file, r.exec)
        /\ r.pc = "done" /\ r.hash # Failed /\ r.file \notin twice =>
               /\ IsOneVersion(r.hash)
               /\ ~r.other /\ Runs(r.exec) => Whole(r.hash, r.file)

HInv ==
    /\ HashTypeOK
    /\ \A f \in File : meta[f] <= now
    /\ \A f \in File : CacheGood(f, cache[f])
    /\ \A s \in 1 .. MaxExec : BindingGood(bindings[s])
    /\ \A t \in Task : RequestGood(task[t])

-----------------------------------------------------------------------------
(* Types. *)

LEMMA TimesAreNumbers ==
    ASSUME HashTypeOK PROVE \A f \in File : meta[f] \in Nat
<1>1. \A n \in 1 .. MaxTime : n \in Nat
  BY HashAssumption
<1>2. QED BY <1>1 DEF HashTypeOK

LEMMA NoTaskTyped == NoTask \in Request
BY HashAssumption DEF NoTask, Request

LEMMA HashInitTyped == HashInit => HashTypeOK
<1> SUFFICES ASSUME HashInit PROVE HashTypeOK
  OBVIOUS
<1> USE HashAssumption
<1>1. NoTask \in Request
  BY NoTaskTyped
<1>2. content \in [File -> Version] /\ meta \in [File -> 1 .. MaxTime]
  BY DEF HashInit, Version
<1>3. QED BY <1>1, <1>2 DEF HashInit, HashTypeOK, Version

LEMMA DiskTyped ==
    ASSUME HashTypeOK, Tick \/ Write \/ Leave \/ (\E f \in File : Replace(f))
                   \/ (\E new \in BOOLEAN : Exec(new))
    PROVE  HashTypeOK'
<1> USE HashAssumption
<1>1. CASE Tick
  BY <1>1 DEF Tick, HashTypeOK, cacheVars
<1>2. ASSUME NEW f \in File, Change(f), at' \in File PROVE HashTypeOK'
  <2>1. version' \in Version /\ now \in 1 .. MaxTime
    BY <1>2 DEF Change, HashTypeOK, Version
  <2>2. content' \in [File -> Version] /\ meta' \in [File -> 1 .. MaxTime]
    BY <1>2, <2>1 DEF Change, HashTypeOK
  <2>3. twice' \subseteq File
    BY <1>2 DEF Change, HashTypeOK
  <2>4. QED BY <1>2, <2>1, <2>2, <2>3 DEF Change, HashTypeOK, cacheVars
<1>3. CASE Write
  BY <1>2, <1>3 DEF Write, HashTypeOK
<1>4. CASE Leave
  BY <1>4 DEF Leave, HashTypeOK, diskVars, cacheVars
<1>5. CASE \E f \in File : Replace(f)
  BY <1>2, <1>5 DEF Replace
<1>6. ASSUME NEW new \in BOOLEAN, Exec(new) PROVE HashTypeOK'
  <2>1. process' \in [start : 1 .. MaxExec, exec : 0 .. MaxExec,
                      file : File \cup {None}]
    BY <1>6 DEF Exec, HashTypeOK
  <2>2. QED BY <1>6, <2>1 DEF Exec, HashTypeOK, diskVars, cacheVars
<1>7. QED BY <1>1, <1>3, <1>4, <1>5, <1>6

-----------------------------------------------------------------------------
(* The files and the process: what is known of hashes stays known. *)

\* What a step of the disk or of the process does to what the parts look at.
Onwards ==
    /\ now <= now'
    /\ process.exec <= process'.exec
    /\ \A x : Runs(x)' /\ x <= process.exec =>
                 Runs(x) /\ process'.file = process.file
    /\ \A f \in File :
           /\ meta[f] <= meta'[f] /\ meta'[f] <= now'
           /\ f \in twice => f \in twice'
           /\ meta'[f] = meta[f] /\ f \notin twice' => content'[f] = content[f]
           /\ process.file = f => content'[f] = content[f]
    /\ UNCHANGED <<cacheVars, task>>

LEMMA StepsOnwards ==
    ASSUME HashTypeOK, \A f \in File : meta[f] <= now,
           Tick \/ Write \/ Leave \/ (\E f \in File : Replace(f))
           \/ (\E new \in BOOLEAN : Exec(new))
    PROVE  Onwards
<1>1. CASE Tick
  BY <1>1 DEF Tick, Onwards, Runs, HashTypeOK, diskVars, cacheVars
<1>2. ASSUME NEW g \in File, Change(g) PROVE Onwards
  <2>1. \A f \in File :
            /\ meta'[f] = IF f = g THEN now ELSE meta[f]
            /\ f # g => content'[f] = content[f]
    BY <1>2 DEF Change, HashTypeOK
  <2>2. \A f \in File : f \in twice => f \in twice'
    BY <1>2 DEF Change
  <2>3. meta[g] = now => g \in twice'
    BY <1>2 DEF Change
  <2>4. now' = now /\ process' = process /\ process.file # g
        /\ UNCHANGED <<cacheVars, task>>
    BY <1>2 DEF Change
  <2>5. now \in Nat /\ process.exec \in Nat /\ \A f \in File : meta[f] \in Nat
    BY HashAssumption DEF HashTypeOK
  <2>6. QED BY <2>1, <2>2, <2>3, <2>4, <2>5 DEF Onwards, Runs
<1>3. CASE Write
  BY <1>2, <1>3 DEF Write, HashTypeOK
<1>4. CASE Leave
  BY <1>4 DEF Leave, Onwards, Runs, HashTypeOK, diskVars, cacheVars
<1>5. CASE \E f \in File : Replace(f)
  BY <1>2, <1>5 DEF Replace
<1>6. ASSUME NEW new \in BOOLEAN, Exec(new) PROVE Onwards
  <2>1. process'.exec = process.exec + 1 /\ process.exec \in Nat
    BY <1>6, HashAssumption DEF Exec, HashTypeOK
  <2>2. UNCHANGED <<diskVars, cacheVars, task>>
    BY <1>6 DEF Exec
  <2>3. \A x : Runs(x)' => x = process.exec + 1
    BY <2>1 DEF Runs
  <2>4. now \in Nat /\ \A f \in File : meta[f] \in Nat
    BY HashAssumption DEF HashTypeOK
  <2>5. QED BY <2>1, <2>2, <2>3, <2>4 DEF Onwards, diskVars
<1>7. QED BY <1>1, <1>3, <1>4, <1>5, <1>6

LEMMA GoodStays ==
    ASSUME Onwards, HashTypeOK, HashTypeOK', NEW f \in File, NEW exec \in 0 .. MaxExec,
           Asks(exec, f)
    PROVE  /\ Asks(exec, f)'
           /\ \A hash : Good(hash, f, exec) => Good(hash, f, exec)'
<1>1. exec <= process'.exec
  BY HashAssumption DEF Onwards, Asks, HashTypeOK
<1>2. Runs(exec)' => Runs(exec) /\ process'.file = process.file
  BY DEF Onwards, Asks
<1>3. QED BY <1>1, <1>2 DEF Onwards, Asks, Good, Whole

LEMMA CacheStays ==
    ASSUME Onwards, HashTypeOK, HashTypeOK', NEW f \in File, CacheGood(f, cache[f])
    PROVE  CacheGood(f, cache[f])'
<1> SUFFICES ASSUME cache[f] # None PROVE CacheGood(f, cache[f])'
  BY DEF Onwards, cacheVars, CacheGood
<1>1. cache[f] \in Entry
  BY DEF HashTypeOK
<1>2. cache[f].time \in Nat
  BY <1>1, HashAssumption DEF Entry
<1>3. meta[f] \in Nat
  BY TimesAreNumbers
<1>4. meta'[f] \in 1 .. MaxTime
  BY DEF HashTypeOK
<1>5. meta'[f] \in Nat
  BY <1>4, HashAssumption
<1>6. QED BY <1>2, <1>3, <1>5 DEF Onwards, cacheVars, CacheGood, Whole

LEMMA RequestStays ==
    ASSUME Onwards, HashTypeOK, HashTypeOK', NEW r \in Request, RequestGood(r)
    PROVE  RequestGood(r)'
<1> SUFFICES ASSUME r.pc # "idle" PROVE RequestGood(r)'
  BY DEF RequestGood
<1> DEFINE f == r.file
<1>1. f \in File /\ r.exec \in 0 .. MaxExec /\ Asks(r.exec, f)
  BY DEF RequestGood, Request
<1>2. /\ Asks(r.exec, f)'
      /\ \A hash : Good(hash, f, r.exec) => Good(hash, f, r.exec)'
  BY <1>1, GoodStays
<1>3. meta[f] \in Nat /\ meta'[f] \in Nat /\ meta[f] <= meta'[f]
  <2>1. meta'[f] \in 1 .. MaxTime /\ meta[f] <= meta'[f]
    BY <1>1 DEF HashTypeOK, Onwards
  <2>2. meta'[f] \in Nat
    BY <2>1, HashAssumption
  <2>3. QED BY <1>1, <2>1, <2>2, TimesAreNumbers
<1>4. Reads(r) => r.time \in 1 .. MaxTime /\ r.time <= meta[f] /\ r.time <= meta'[f]
  BY <1>1, <1>3, HashAssumption DEF RequestGood
<1>5. Still(r)' /\ Reads(r) => Still(r) /\ content'[f] = content[f]
  BY <1>1, <1>3, <1>4, HashAssumption DEF Still, Onwards
<1>6. r.pc = "done" /\ r.hash # Failed /\ f \notin twice' =>
          /\ IsOneVersion(r.hash)
          /\ ~r.other /\ Runs(r.exec)' => Whole(r.hash, f)'
  <2> SUFFICES ASSUME r.pc = "done", r.hash # Failed, f \notin twice'
               PROVE  /\ IsOneVersion(r.hash)
                      /\ ~r.other /\ Runs(r.exec)' => Whole(r.hash, f)'
    OBVIOUS
  <2>1. f \notin twice
    BY <1>1 DEF Onwards
  <2>2. IsOneVersion(r.hash) /\ (~r.other /\ Runs(r.exec) => Whole(r.hash, f))
    BY <2>1 DEF RequestGood
  <2>3. Runs(r.exec)' => Runs(r.exec) /\ content'[f] = content[f]
    BY <1>1 DEF Onwards, Asks
  <2>4. QED BY <2>2, <2>3 DEF Whole
<1>7. QED
  BY <1>1, <1>2, <1>4, <1>5, <1>6 DEF RequestGood, Whole, Reads

LEMMA DiskHolds ==
    ASSUME HInv, Tick \/ Write \/ Leave \/ (\E f \in File : Replace(f))
                 \/ (\E new \in BOOLEAN : Exec(new))
    PROVE  HInv'
<1>1. HashTypeOK' /\ Onwards
  BY DiskTyped, StepsOnwards DEF HInv
<1>2. \A f \in File : CacheGood(f, cache[f])'
  BY <1>1, CacheStays DEF HInv
<1>3. ASSUME NEW s \in 1 .. MaxExec PROVE BindingGood(bindings[s])'
  <2> SUFFICES ASSUME bindings[s] # None PROVE BindingGood(bindings[s])'
    BY <1>1 DEF Onwards, cacheVars, BindingGood
  <2>1. bindings[s] \in Binding
    BY DEF HInv, HashTypeOK
  <2>2. BindingGood(bindings[s])
    BY DEF HInv
  <2>3. bindings'[s] = bindings[s]
    BY <1>1 DEF Onwards, cacheVars
  <2>4. QED
    BY <1>1, <2>1, <2>2, <2>3, GoodStays DEF HInv, BindingGood, Binding
<1>4. \A t \in Task : RequestGood(task[t])'
  <2>1. \A t \in Task : task[t] \in Request /\ task'[t] = task[t]
    BY <1>1 DEF HInv, HashTypeOK, Onwards
  <2>2. QED BY <1>1, <2>1, RequestStays DEF HInv
<1>5. \A f \in File : meta'[f] <= now'
  BY <1>1 DEF Onwards
<1>6. QED BY <1>1, <1>2, <1>3, <1>4, <1>5 DEF HInv

-----------------------------------------------------------------------------
(* The steps of requests. *)

\* Of a step that changes one request, its caches and no more, it is enough
\* to look at what it makes.
LEMMA RequestStep ==
    ASSUME HInv, TaskOnly, NEW t \in Task, NEW r \in Request, Becomes(t, r),
           RequestGood(r),
           cache' \in [File -> Entry \cup {None}],
           bindings' \in [1 .. MaxExec -> Binding \cup {None}],
           locked' \in [File -> Task \cup {None}],
           \A f \in File : cache'[f] = cache[f] \/ CacheGood(f, cache'[f]),
           \A s \in 1 .. MaxExec :
               bindings'[s] = bindings[s] \/ BindingGood(bindings'[s])
    PROVE  HInv'
<1> USE DEF TaskOnly, diskVars
<1>1. /\ task' \in [Task -> Request]
      /\ \A u \in Task : task'[u] = IF u = t THEN r ELSE task[u]
  BY DEF HInv, HashTypeOK, Becomes
<1>2. HashTypeOK'
  BY <1>1 DEF HInv, HashTypeOK
<1>3. \A u \in Task : RequestGood(task'[u])
  BY <1>1 DEF HInv
<1>4. \A x : RequestGood(x) => RequestGood(x)'
  BY DEF RequestGood, Asks, Runs, Good, Whole, Still, Reads
<1>5. \A u \in Task : RequestGood(task[u])'
  BY <1>3 DEF RequestGood, Asks, Runs, Good, Whole, Still, Reads
<1>6. \A f \in File : CacheGood(f, cache'[f])
  BY DEF HInv
<1>7. \A f \in File : CacheGood(f, cache[f])'
  BY <1>6 DEF CacheGood, Whole
<1>8. \A s \in 1 .. MaxExec : BindingGood(bindings'[s])
  BY DEF HInv
<1>9. \A s \in 1 .. MaxExec : BindingGood(bindings[s])'
  BY <1>8 DEF BindingGood, Asks, Runs, Good, Whole
<1>10. QED BY <1>2, <1>5, <1>7, <1>9 DEF HInv

LEMMA AskHolds == ASSUME HInv, NEW t \in Task, Ask(t) PROVE HInv'
<1> DEFINE r == [NoTask EXCEPT !.pc = "key", !.file = process.file,
                               !.exec = process.exec]
<1>1. process.file \in File /\ process.exec \in 0 .. MaxExec
  <2>1. process.file # None
    BY DEF Ask
  <2>2. QED BY <2>1 DEF HInv, HashTypeOK
<1>2. NoTask \in Request
  BY NoTaskTyped
<1>3. r.pc = "key" /\ r.file = process.file /\ r.exec = process.exec
  BY <1>2 DEF Request
<1>4. r \in Request
  BY <1>1, <1>2 DEF Request
<1>5. RequestGood(r)
  BY <1>1, <1>3, HashAssumption DEF RequestGood, Asks, Runs, Reads
<1>6. TaskOnly /\ Becomes(t, r) /\ UNCHANGED cacheVars
  BY DEF Ask, At
<1>7. QED BY <1>4, <1>5, <1>6, RequestStep DEF HInv, HashTypeOK, cacheVars

LEMMA ReadStartTimeHolds ==
    ASSUME HInv, NEW t \in Task, ReadStartTime(t) PROVE HInv'
<1>1. PICK alive \in BOOLEAN :
          Becomes(t, [task[t] EXCEPT
                          !.pc = IF alive THEN "bound" ELSE "open",
                          !.start = IF alive THEN process.start ELSE 0])
  BY DEF ReadStartTime
<1> DEFINE r == [task[t] EXCEPT
                     !.pc = IF alive THEN "bound" ELSE "open",
                     !.start = IF alive THEN process.start ELSE 0]
<1>2. task[t] \in Request /\ task[t].pc = "key" /\ RequestGood(task[t])
  BY DEF ReadStartTime, At, HInv, HashTypeOK
<1>3. process.start \in 1 .. MaxExec
  BY DEF HInv, HashTypeOK
<1>4. r \in Request /\ RequestGood(r)
  <2>1. r.pc \in {"bound", "open"} /\ r.file = task[t].file
        /\ r.exec = task[t].exec /\ (r.pc = "bound" => r.start = process.start)
    BY <1>2 DEF Request
  <2>2. IF alive THEN process.start \in 0 .. MaxExec ELSE 0 \in 0 .. MaxExec
    BY <1>3, HashAssumption
  <2>3. r \in Request
    BY <1>2, <2>2 DEF Request
  <2>4. process.start # 0
    BY <1>3
  <2>5. QED BY <1>2, <2>1, <2>3, <2>4 DEF RequestGood, Reads
<1>5. TaskOnly /\ UNCHANGED cacheVars
  BY DEF ReadStartTime, At
<1>6. QED BY <1>1, <1>4, <1>5, RequestStep DEF HInv, HashTypeOK, cacheVars

LEMMA LookUpBindingHolds ==
    ASSUME HInv, NEW t \in Task, LookUpBinding(t) PROVE HInv'
<1> DEFINE b == bindings[task[t].start]
           r == IF BoundTo(b, task[t].file)
                THEN [task[t] EXCEPT !.pc = "done", !.hash = b.hash,
                                     !.other = b.exec # task[t].exec]
                ELSE [task[t] EXCEPT !.pc = "open"]
<1>1. task[t] \in Request /\ task[t].pc = "bound" /\ RequestGood(task[t])
  BY DEF LookUpBinding, At, HInv, HashTypeOK
<1>2. task[t].start \in 1 .. MaxExec
  BY <1>1 DEF RequestGood, Request
<1>3. BindingGood(b) /\ (b # None => b \in Binding)
  BY <1>2 DEF HInv, HashTypeOK
<1>4. r \in Request /\ RequestGood(r)
  <2>1. CASE BoundTo(b, task[t].file)
    <3>1. b \in Binding /\ b.file = task[t].file
          /\ Good(b.hash, b.file, b.exec)
      BY <1>3, <2>1 DEF BoundTo, BindingGood
    <3>2. PICK other \in BOOLEAN : other <=> b.exec # task[t].exec
      OBVIOUS
    <3>3. r = [task[t] EXCEPT !.pc = "done", !.hash = b.hash, !.other = other]
      <4>1. (b.exec # task[t].exec) = other
        BY <3>2, Zenon
      <4>2. QED BY <2>1, <4>1, Zenon
    <3>4. r \in Request
      BY <1>1, <3>1, <3>2, <3>3 DEF Binding, Request
    <3>5. /\ r.pc = "done" /\ r.hash = b.hash /\ r.file = task[t].file
          /\ r.exec = task[t].exec
          /\ ~r.other => b.exec = r.exec
      BY <1>1, <3>2, <3>3 DEF Request
    <3>6. RequestGood(r)
      BY <1>1, <3>1, <3>5 DEF RequestGood, Good, Reads
    <3>7. QED BY <3>4, <3>6
  <2>2. CASE ~BoundTo(b, task[t].file)
    BY <1>1, <2>2 DEF Request, RequestGood, Reads
  <2>3. QED BY <2>1, <2>2
<1>5. TaskOnly /\ Becomes(t, r) /\ UNCHANGED cacheVars
  BY DEF LookUpBinding, At, Goto
<1>6. QED BY <1>4, <1>5, RequestStep DEF HInv, HashTypeOK, cacheVars

-----------------------------------------------------------------------------
(* get_or_calculate_hash. *)

LEMMA CachedIsGood ==
    ASSUME HInv, NEW f \in File, Cached(f), NEW exec
    PROVE  cache[f].hash \in Hash /\ Good(cache[f].hash, f, exec)
<1>1. cache[f] \in Entry
  BY DEF HInv, HashTypeOK, Cached
<1>2. QED BY <1>1 DEF HInv, CacheGood, Cached, Good, Entry

\* What an answer makes of a request, for a hash that is good.
LEMMA AnswerGood ==
    ASSUME HInv, NEW t \in Task, task[t].pc # "idle", NEW hash \in Hash,
           Good(hash, task[t].file, task[t].exec),
           NEW r, r = [task[t] EXCEPT !.pc = "bind", !.hash = hash, !.fd = None]
    PROVE  r \in Request /\ RequestGood(r)
<1>1. task[t] \in Request /\ RequestGood(task[t])
  BY DEF HInv, HashTypeOK
<1>2. r \in Request
  BY <1>1 DEF Request
<1>3. r.pc = "bind" /\ r.hash = hash /\ r.file = task[t].file
      /\ r.exec = task[t].exec
  BY <1>1 DEF Request
<1>4. QED BY <1>1, <1>2, <1>3 DEF RequestGood, Reads

LEMMA StaleRemoved ==
    ASSUME HInv, NEW f \in File, RemoveStale(f)
    PROVE  /\ cache' \in [File -> Entry \cup {None}]
           /\ \A g \in File : cache'[g] = cache[g] \/ CacheGood(g, cache'[g])
<1>1. \A g \in File : cache'[g] = IF g = f THEN None ELSE cache[g]
  BY DEF RemoveStale, HInv, HashTypeOK
<1>2. QED BY <1>1 DEF RemoveStale, HInv, HashTypeOK, CacheGood

LEMMA OpenFileHolds == ASSUME HInv, NEW t \in Task, Open(t) PROVE HInv'
<1>1. /\ task[t] \in Request /\ task[t].pc = "open" /\ RequestGood(task[t])
      /\ at \in File /\ TaskOnly /\ UNCHANGED <<bindings, locked>>
  BY DEF Open, At, HInv, HashTypeOK
<1>2. CASE ~SameFile(at, task[t].file)
  <2> DEFINE r == [task[t] EXCEPT !.pc = "done", !.hash = Failed]
  <2>1. r \in Request /\ r.pc = "done" /\ r.hash = Failed
        /\ r.file = task[t].file /\ r.exec = task[t].exec
    BY <1>1 DEF Request
  <2>2. RequestGood(r)
    BY <1>1, <2>1 DEF RequestGood, Reads
  <2>3. Becomes(t, r) /\ UNCHANGED cache
    BY <1>2 DEF Open
  <2>4. QED BY <1>1, <2>1, <2>2, <2>3, RequestStep DEF HInv, HashTypeOK
<1>3. CASE SameFile(at, task[t].file) /\ Cached(at)
  <2> DEFINE r == [task[t] EXCEPT !.pc = "bind", !.hash = cache[at].hash,
                                  !.fd = None]
  <2>1. at = task[t].file
    BY <1>3 DEF SameFile
  <2>2. cache[at].hash \in Hash /\ Good(cache[at].hash, at, task[t].exec)
    BY <1>1, <1>3, CachedIsGood
  <2>3. r \in Request /\ RequestGood(r)
    BY <1>1, <2>1, <2>2, AnswerGood
  <2>4. Becomes(t, r) /\ UNCHANGED cache
    BY <1>3 DEF Open, Answer
  <2>5. QED BY <1>1, <2>3, <2>4, RequestStep DEF HInv, HashTypeOK
<1>4. CASE SameFile(at, task[t].file) /\ ~Cached(at)
  <2> DEFINE r == [task[t] EXCEPT !.pc = "lock", !.fd = at]
  <2>1. r \in Request /\ r.pc = "lock" /\ r.fd = at
        /\ r.file = task[t].file /\ r.exec = task[t].exec
    BY <1>1 DEF Request
  <2>2. RequestGood(r)
    BY <1>1, <1>4, <2>1 DEF RequestGood, Reads, SameFile
  <2>3. Becomes(t, r) /\ RemoveStale(at)
    BY <1>4 DEF Open
  <2>4. QED BY <1>1, <2>1, <2>2, <2>3, RequestStep, StaleRemoved
     DEF HInv, HashTypeOK
<1>5. QED BY <1>2, <1>3, <1>4

LEMMA LockHolds == ASSUME HInv, NEW t \in Task, Lock(t) PROVE HInv'
<1> DEFINE f == task[t].fd
<1>1. /\ task[t] \in Request /\ task[t].pc = "lock" /\ RequestGood(task[t])
      /\ TaskOnly /\ UNCHANGED bindings
  BY DEF Lock, At, HInv, HashTypeOK
<1>2. f = task[t].file /\ f \in File
  BY <1>1 DEF RequestGood
<1>3. CASE Cached(f)
  <2> DEFINE r == [task[t] EXCEPT !.pc = "bind", !.hash = cache[f].hash,
                                  !.fd = None]
  <2>1. cache[f].hash \in Hash /\ Good(cache[f].hash, f, task[t].exec)
    BY <1>2, <1>3, CachedIsGood
  <2>2. r \in Request /\ RequestGood(r)
    BY <1>1, <1>2, <2>1, AnswerGood
  <2>3. Becomes(t, r) /\ UNCHANGED <<cache, locked>>
    BY <1>3 DEF Lock, Answer
  <2>4. QED BY <1>1, <2>2, <2>3, RequestStep DEF HInv, HashTypeOK
<1>4. CASE ~Cached(f)
  <2> DEFINE r == [task[t] EXCEPT !.pc = "read", !.time = meta[f]]
  <2>1. meta[f] \in 1 .. MaxTime /\ meta[f] \in 0 .. MaxTime
    <3>1. meta[f] \in 1 .. MaxTime
      BY <1>2 DEF HInv, HashTypeOK
    <3>2. QED BY <3>1, HashAssumption
  <2>2. r \in Request /\ r.pc = "read" /\ r.time = meta[f] /\ r.fd = f
        /\ r.file = task[t].file /\ r.exec = task[t].exec
    BY <1>1, <2>1 DEF Request
  <2>3. RequestGood(r)
    BY <1>1, <1>2, <2>1, <2>2, HashAssumption DEF RequestGood, Reads
  <2>4. Becomes(t, r) /\ RemoveStale(f) /\ locked' = [locked EXCEPT ![f] = t]
    BY <1>4 DEF Lock
  <2>5. locked' \in [File -> Task \cup {None}]
    BY <2>4 DEF HInv, HashTypeOK
  <2>6. QED BY <1>1, <1>2, <2>2, <2>3, <2>4, <2>5, RequestStep, StaleRemoved
     DEF HInv, HashTypeOK
<1>5. QED BY <1>3, <1>4

LEMMA ReadHolds ==
    ASSUME HInv, NEW t \in Task, ReadFirst(t) \/ ReadRest(t) PROVE HInv'
<1> DEFINE f == task[t].file
<1>1. /\ task[t] \in Request /\ task[t].pc \in {"read", "rest"}
      /\ RequestGood(task[t]) /\ TaskOnly /\ UNCHANGED cacheVars
  BY DEF ReadFirst, ReadRest, At, HInv, HashTypeOK
<1>2. task[t].fd = f /\ f \in File /\ content[f] \in Version
  BY <1>1 DEF RequestGood, Reads, HInv, HashTypeOK
<1>3. CASE ReadFirst(t)
  <2> DEFINE r == [task[t] EXCEPT !.pc = "rest", !.read = content[f]]
  <2>1. content[f] \in 0 .. MaxVersion
    BY <1>2, HashAssumption DEF Version
  <2>2. r \in Request /\ r.pc = "rest" /\ r.read = content[f]
        /\ r.file = f /\ r.exec = task[t].exec /\ r.fd = f
        /\ r.time = task[t].time
    BY <1>1, <1>2, <2>1 DEF Request
  <2>3. RequestGood(r)
    BY <1>1, <1>2, <2>2 DEF RequestGood, Reads
  <2>4. Becomes(t, r)
    BY <1>2, <1>3 DEF ReadFirst
  <2>5. QED BY <1>1, <2>2, <2>3, <2>4, RequestStep DEF HInv, HashTypeOK, cacheVars
<1>4. CASE ReadRest(t)
  <2> DEFINE h == <<task[t].read, content[f]>>
             r == [task[t] EXCEPT !.pc = "check", !.hash = h]
  <2>1. task[t].pc = "rest" /\ h \in Hash
    BY <1>1, <1>2, <1>4 DEF ReadRest, At, RequestGood, Hash
  <2>2. r \in Request /\ r.pc = "check" /\ r.hash = h
        /\ r.file = f /\ r.exec = task[t].exec /\ r.fd = f
        /\ r.time = task[t].time
    BY <1>1, <1>2, <2>1 DEF Request
  <2>3. RequestGood(r)
    BY <1>1, <1>2, <2>1, <2>2 DEF RequestGood, Reads, Still, Whole
  <2>4. Becomes(t, r)
    BY <1>2, <1>4 DEF ReadRest
  <2>5. QED BY <1>1, <2>2, <2>3, <2>4, RequestStep DEF HInv, HashTypeOK, cacheVars
<1>5. QED BY <1>3, <1>4

LEMMA CheckAgainHolds == ASSUME HInv, NEW t \in Task, CheckAgain(t) PROVE HInv'
<1> DEFINE f == task[t].fd
<1>1. /\ task[t] \in Request /\ task[t].pc = "check" /\ RequestGood(task[t])
      /\ TaskOnly /\ UNCHANGED bindings
  BY DEF CheckAgain, At, HInv, HashTypeOK
<1>2. f = task[t].file /\ f \in File /\ task[t].hash \in Hash
      /\ task[t].time \in 1 .. MaxTime
  BY <1>1 DEF RequestGood, Reads
<1>3. locked' \in [File -> Task \cup {None}]
  BY DEF CheckAgain, HInv, HashTypeOK
<1>4. CASE Same(task[t].time, meta[f])
  <2> DEFINE e == [time |-> meta[f], hash |-> task[t].hash]
             r == [task[t] EXCEPT !.pc = "bind", !.hash = task[t].hash,
                                  !.fd = None]
  <2>1. f \notin twice => Whole(task[t].hash, f) /\ IsOneVersion(task[t].hash)
    BY <1>1, <1>2, <1>4 DEF RequestGood, Still, Same, Whole, IsOneVersion
  <2>2. r \in Request /\ RequestGood(r)
    BY <1>1, <1>2, <2>1, AnswerGood DEF Good
  <2>3. e \in Entry /\ CacheGood(f, e)
    <3>1. meta[f] \in 1 .. MaxTime
      BY <1>2 DEF HInv, HashTypeOK
    <3>2. QED BY <1>2, <2>1, <3>1, HashAssumption DEF Entry, CacheGood
  <2>4. cache' = [cache EXCEPT ![f] = e] /\ Becomes(t, r)
    BY <1>4 DEF CheckAgain, Answer
  <2>5. cache' \in [File -> Entry \cup {None}]
        /\ \A g \in File : cache'[g] = cache[g] \/ CacheGood(g, cache'[g])
    BY <1>2, <2>3, <2>4 DEF HInv, HashTypeOK
  <2>6. QED BY <1>1, <1>3, <2>2, <2>4, <2>5, RequestStep DEF HInv, HashTypeOK
<1>5. CASE ~Same(task[t].time, meta[f])
  <2> DEFINE r == [task[t] EXCEPT !.pc = "done", !.fd = None, !.hash = Failed]
  <2>1. r \in Request /\ r.pc = "done" /\ r.hash = Failed
        /\ r.file = task[t].file /\ r.exec = task[t].exec
    BY <1>1 DEF Request
  <2>2. RequestGood(r)
    BY <1>1, <2>1 DEF RequestGood, Reads
  <2>3. Becomes(t, r) /\ UNCHANGED cache
    BY <1>5 DEF CheckAgain
  <2>4. QED BY <1>1, <1>3, <2>1, <2>2, <2>3, RequestStep DEF HInv, HashTypeOK
<1>6. QED BY <1>4, <1>5

LEMMA BindHolds == ASSUME HInv, NEW t \in Task, Bind(t) PROVE HInv'
<1> DEFINE b == [file |-> task[t].file, hash |-> task[t].hash,
                 exec |-> task[t].exec]
           r == [task[t] EXCEPT !.pc = "done"]
<1>1. /\ task[t] \in Request /\ task[t].pc = "bind" /\ RequestGood(task[t])
      /\ TaskOnly /\ UNCHANGED <<cache, locked>> /\ Becomes(t, r)
  BY DEF Bind, At, Goto, HInv, HashTypeOK
<1>2. r \in Request /\ r.pc = "done" /\ r.hash = task[t].hash
      /\ r.file = task[t].file /\ r.exec = task[t].exec
  BY <1>1 DEF Request
<1>3. task[t].hash \in Hash /\ Good(r.hash, r.file, r.exec) /\ r.file \in File
      /\ Asks(r.exec, r.file)
  BY <1>1, <1>2 DEF RequestGood
<1>4. RequestGood(r)
  BY <1>2, <1>3 DEF RequestGood, Good, Reads
<1>5. b \in Binding /\ BindingGood(b)
  BY <1>1, <1>2, <1>3 DEF Binding, BindingGood, Request
<1>6. \/ bindings' = bindings
      \/ bindings' = [bindings EXCEPT ![task[t].start] = b]
  BY DEF Bind
<1>7. bindings' \in [1 .. MaxExec -> Binding \cup {None}]
      /\ \A s \in 1 .. MaxExec :
             bindings'[s] = bindings[s] \/ BindingGood(bindings'[s])
  BY <1>5, <1>6 DEF HInv, HashTypeOK
<1>8. QED BY <1>1, <1>2, <1>4, <1>7, RequestStep DEF HInv, HashTypeOK

LEMMA FinishHolds == ASSUME HInv, NEW t \in Task, Finish(t) PROVE HInv'
<1>1. NoTask \in Request /\ RequestGood(NoTask)
  BY NoTaskTyped DEF NoTask, RequestGood
<1>2. TaskOnly /\ Becomes(t, NoTask) /\ UNCHANGED cacheVars
  BY DEF Finish, At
<1>3. QED BY <1>1, <1>2, RequestStep DEF HInv, HashTypeOK, cacheVars

LEMMA InvalidateHolds ==
    ASSUME HInv, NEW f \in File, Invalidate(f) PROVE HInv'
<1>1. TaskOnly /\ UNCHANGED <<bindings, locked, task>> /\ RemoveStale(f)
  BY DEF Invalidate, RemoveStale
<1>2. /\ cache' \in [File -> Entry \cup {None}]
      /\ \A g \in File : CacheGood(g, cache'[g])
  BY <1>1, StaleRemoved DEF HInv
<1>3. HashTypeOK'
  BY <1>1, <1>2 DEF HInv, HashTypeOK, TaskOnly, diskVars
<1>4. \A g \in File : CacheGood(g, cache[g])'
  BY <1>1, <1>2 DEF CacheGood, Whole, TaskOnly, diskVars
<1>5. \A s \in 1 .. MaxExec : BindingGood(bindings[s])'
  BY <1>1 DEF HInv, BindingGood, Asks, Runs, Good, Whole, TaskOnly, diskVars
<1>6. \A t \in Task : RequestGood(task[t])'
  BY <1>1 DEF HInv, RequestGood, Asks, Runs, Good, Whole, Still, Reads,
     TaskOnly, diskVars
<1>7. QED BY <1>1, <1>3, <1>4, <1>5, <1>6 DEF HInv, TaskOnly, diskVars

-----------------------------------------------------------------------------
(* Together. *)

LEMMA HashInitHolds == HashInit => HInv
<1> SUFFICES ASSUME HashInit PROVE HInv
  OBVIOUS
<1>1. HashTypeOK
  BY HashInitTyped
<1>2. ASSUME NEW f \in File PROVE meta[f] <= now
  <2>1. meta[f] = 1 /\ now = 1
    BY DEF HashInit
  <2>2. 1 <= 1
    OBVIOUS
  <2>3. QED BY <2>1, <2>2
<1>3. \A t \in Task : RequestGood(task[t])
  BY DEF HashInit, NoTask, RequestGood
<1>4. QED BY <1>1, <1>2, <1>3 DEF HashInit, HInv, CacheGood, BindingGood

LEMMA HashNextHolds == HInv /\ [HashNext]_hashVars => HInv'
<1> SUFFICES ASSUME HInv, [HashNext]_hashVars PROVE HInv'
  OBVIOUS
<1>1. CASE Tick \/ Write \/ Leave \/ (\E f \in File : Replace(f))
           \/ (\E new \in BOOLEAN : Exec(new))
  BY <1>1, DiskHolds
<1>2. CASE \E f \in File : Invalidate(f)
  BY <1>2, InvalidateHolds
<1>3. ASSUME NEW t \in Task,
             \/ Ask(t) \/ ReadStartTime(t) \/ LookUpBinding(t) \/ Open(t)
             \/ Lock(t) \/ ReadFirst(t) \/ ReadRest(t) \/ CheckAgain(t)
             \/ Bind(t) \/ Finish(t)
      PROVE  HInv'
  BY <1>3, AskHolds, ReadStartTimeHolds, LookUpBindingHolds, OpenFileHolds,
     LockHolds, ReadHolds, CheckAgainHolds, BindHolds, FinishHolds
<1>4. CASE UNCHANGED hashVars
  BY <1>4 DEF hashVars, diskVars, cacheVars, HInv, HashTypeOK, CacheGood,
     BindingGood, RequestGood, Asks, Runs, Good, Whole, Still, Reads
<1>5. QED BY <1>1, <1>2, <1>3, <1>4 DEF HashNext

LEMMA HashInvariance == HashSpec => []HInv
BY HashInitHolds, HashNextHolds, PTL DEF HashSpec

-----------------------------------------------------------------------------
\* Files, caches and requests keep their types.
THEOREM HashTypeCorrect == HashSpec => []HashTypeOK
BY HashInvariance, PTL DEF HInv

\* However writes and replacements of the program fall between the parts that
\* are read, no hash of half of one content and half of another is cached,
\* bound or given.
THEOREM HashesAreOfOneVersion == HashSpec => []HashOfOneVersion
<1>1. HInv => HashOfOneVersion
  <2> SUFFICES ASSUME HInv, NEW f \in File \ twice PROVE HashOfOneVersion!(f)
    BY DEF HashOfOneVersion
  <2>1. cache[f] # None => IsOneVersion(cache[f].hash)
    BY DEF HInv, CacheGood
  <2>2. ASSUME NEW s \in DOMAIN bindings, BoundTo(bindings[s], f)
        PROVE  IsOneVersion(bindings[s].hash)
    <3>1. s \in 1 .. MaxExec
      BY DEF HInv, HashTypeOK
    <3>2. QED BY <2>2, <3>1 DEF HInv, BindingGood, Good, BoundTo
  <2>3. ASSUME NEW t \in Task, task[t].file = f,
               task[t].pc \in {"bind", "done"}, task[t].hash # Failed
        PROVE  IsOneVersion(task[t].hash)
    BY <2>3 DEF HInv, RequestGood, Good
  <2>4. QED BY <2>1, <2>2, <2>3
<1>2. QED BY <1>1, HashInvariance, PTL

\* While a process runs the program it asked with, the hash it is given is of
\* the content that runs, whatever has come to the path, was cached or bound
\* before.
THEOREM HashesAreOfWhatRuns == HashSpec => []HashOfWhatRuns
<1>1. HInv => HashOfWhatRuns
  BY DEF HInv, RequestGood, Runs, Whole, HashOfWhatRuns
<1>2. QED BY <1>1, HashInvariance, PTL

-----------------------------------------------------------------------------
(***************************************************************************)
(* LoginSessions.  LInv says what the last notification under way of a     *)
(* terminal comes to: who is in, unless the terminal is in doubt.  It needs *)
(* that a session is listed once, on its terminal.                         *)
(***************************************************************************)

-----------------------------------------------------------------------------
(* The strengthening. *)

OnItsTerminal ==
    /\ \A t \in Key : \A i \in DOMAIN onTty[t] : handle[onTty[t][i]].tty = t
    /\ \A t \in Key : \A i, j \in DOMAIN onTty[t] :
           onTty[t][i] = onTty[t][j] => i = j
    /\ \A s \in Session : handle[s].tty = Nobody => handle[s].login = Nobody

WhoIsIn(t) == IF onTty[t] = <<>> THEN Nobody ELSE handle[onTty[t][1]].login

\* What a notification leaves in the registry.
Left(e) == IF e.action = "login" THEN e.login ELSE Nobody

Served(t) == \A i \in DOMAIN flight : flight[i].tty # t
LastOf(t, i) ==
    flight[i].tty = t /\ \A j \in DOMAIN flight : j > i => flight[j].tty # t

InStep(t) ==
    /\ Len(onTty[t]) < 2
    /\ Served(t) => sessions[t] = WhoIsIn(t)
    /\ \A i \in DOMAIN flight : LastOf(t, i) => Left(flight[i]) = WhoIsIn(t)

LInv == LoginTypeOK /\ OnItsTerminal /\ \A t \in Key \ doubtful : InStep(t)

-----------------------------------------------------------------------------
(* Sequences. *)

LEMMA RemovedAtIs ==
    ASSUME NEW S, NEW seq \in Seq(S), NEW i \in 1 .. Len(seq)
    PROVE  /\ RemovedAt(seq, i) \in Seq(S)
           /\ Len(RemovedAt(seq, i)) = Len(seq) - 1
           /\ DOMAIN RemovedAt(seq, i) = 1 .. Len(seq) - 1
           /\ \A j \in 1 .. Len(seq) - 1 :
                  RemovedAt(seq, i)[j] = seq[IF j < i THEN j ELSE j + 1]
<1> DEFINE n == Len(seq) - 1
           r == RemovedAt(seq, i)
<1>1. Len(seq) \in Nat /\ n \in Nat /\ \A j \in 1 .. Len(seq) : seq[j] \in S
  BY LenProperties, ElementOfSeq
<1>2. r \in [1 .. n -> S]
  BY <1>1 DEF RemovedAt
<1>3. r \in Seq(S)
  BY <1>1, <1>2, SeqDef
<1>4. Len(r) = n
  BY <1>1, <1>2, <1>3, LenProperties
<1>5. QED BY <1>2, <1>3, <1>4 DEF RemovedAt

LEMMA AppendIs ==
    ASSUME NEW S, NEW seq \in Seq(S), NEW x \in S
    PROVE  /\ Append(seq, x) \in Seq(S)
           /\ Len(Append(seq, x)) = Len(seq) + 1
           /\ DOMAIN seq = 1 .. Len(seq)
           /\ DOMAIN Append(seq, x) = 1 .. Len(seq) + 1
           /\ Append(seq, x)[Len(seq) + 1] = x
           /\ \A j \in 1 .. Len(seq) : Append(seq, x)[j] = seq[j]
BY AppendProperties, LenProperties

-----------------------------------------------------------------------------
(* Types. *)

LEMMA LoginInitTyped == LoginInit => LoginTypeOK
<1> SUFFICES ASSUME LoginInit PROVE LoginTypeOK
  OBVIOUS
<1>1. Out \in Handle
  BY DEF Out, Handle
<1>2. QED BY <1>1 DEF LoginInit, LoginTypeOK

-----------------------------------------------------------------------------
(* Notifications. *)

\* Another terminal's notifications are as they were.
SameUnderWay(u) ==
    /\ Served(u)' => Served(u)
    /\ \A i \in DOMAIN flight' : LastOf(u, i)' =>
           \E j \in DOMAIN flight : LastOf(u, j) /\ flight[j] = flight'[i]

LEMMA StaysInStep ==
    ASSUME NEW u \in Key, InStep(u), SameUnderWay(u),
           onTty'[u] = onTty[u], WhoIsIn(u)' = WhoIsIn(u),
           sessions'[u] = sessions[u]
    PROVE  InStep(u)'
BY DEF InStep, SameUnderWay, Left

LEMMA SameFlight == UNCHANGED flight => \A u \in Key : SameUnderWay(u)
BY DEF SameUnderWay, Served, LastOf

LEMMA Notified ==
    ASSUME LoginTypeOK, NEW t \in Key, NEW action \in {"login", "logout"},
           NEW login \in Login, Notify(action, t, login)
    PROVE  /\ flight' \in Seq(Event)
           /\ \A u \in Key \ {t} : SameUnderWay(u)
           /\ up => /\ ~Served(t)'
                    /\ \A i \in DOMAIN flight' : LastOf(t, i)' =>
                           Left(flight'[i]) =
                               IF action = "login" THEN login ELSE Nobody
<1> DEFINE e == [action |-> action, tty |-> t, login |-> login]
           n == Len(flight)
<1>1. CASE ~up
  <2>1. UNCHANGED flight
    BY <1>1 DEF Notify
  <2>2. QED BY <1>1, <2>1, SameFlight DEF LoginTypeOK
<1>2. CASE up
  <2>1. e \in Event /\ flight \in Seq(Event) /\ n \in Nat
    BY LenProperties DEF Event, LoginTypeOK
  <2>2. flight' = Append(flight, e)
    BY <1>2 DEF Notify
  <2>3. /\ flight' \in Seq(Event)
        /\ DOMAIN flight = 1 .. n /\ DOMAIN flight' = 1 .. n + 1
        /\ flight'[n + 1] = e
        /\ \A j \in 1 .. n : flight'[j] = flight[j]
    BY <2>1, <2>2, AppendIs
  <2>4. e.tty = t /\ e.action = action /\ e.login = login
    OBVIOUS
  <2> HIDE DEF e, n
  <2>5. ASSUME NEW u \in Key \ {t} PROVE SameUnderWay(u)
    <3>1. Served(u)' => Served(u)
      BY <2>1, <2>3 DEF Served
    <3>2. ASSUME NEW i \in DOMAIN flight', LastOf(u, i)'
          PROVE  i \in 1 .. n /\ LastOf(u, i) /\ flight[i] = flight'[i]
      <4>1. flight'[i].tty = u
        BY <3>2 DEF LastOf
      <4>2. i \in 1 .. n
        BY <2>1, <2>3, <2>4, <4>1
      <4>3. QED BY <2>1, <2>3, <3>2, <4>1, <4>2 DEF LastOf
    <3>3. QED BY <2>3, <3>1, <3>2 DEF SameUnderWay
  <2>6. ~Served(t)'
    BY <2>1, <2>3, <2>4 DEF Served
  <2>7. ASSUME NEW i \in DOMAIN flight', LastOf(t, i)' PROVE i = n + 1
    <3>1. \A j \in 1 .. n + 1 : j > i => flight'[j].tty # t
      BY <2>3, <2>7 DEF LastOf
    <3>2. n + 1 \in 1 .. n + 1 /\ i \in 1 .. n + 1
      BY <2>1, <2>3
    <3>3. ~(n + 1 > i)
      BY <2>3, <2>4, <3>1, <3>2
    <3>4. QED BY <2>1, <3>2, <3>3
  <2>8. QED BY <2>3, <2>4, <2>5, <2>6, <2>7 DEF Left
<1>3. QED BY <1>1, <1>2

-----------------------------------------------------------------------------
(* Sessions. *)

LEMMA LoginInitHolds == LoginInit => LInv
<1> SUFFICES ASSUME LoginInit PROVE LInv
  OBVIOUS
<1>1. LoginTypeOK
  BY LoginInitTyped
<1>2. OnItsTerminal
  BY DEF LoginInit, OnItsTerminal, Out
<1>3. \A t \in Key : InStep(t)
  <2>1. \A t \in Key : onTty[t] = <<>> /\ sessions[t] = Nobody
    BY DEF LoginInit
  <2>2. flight = <<>> /\ DOMAIN flight = {}
    BY DEF LoginInit
  <2>3. \A t \in Key : Len(onTty[t]) = 0 /\ WhoIsIn(t) = Nobody
    BY <2>1 DEF WhoIsIn
  <2>4. QED BY <2>1, <2>2, <2>3 DEF InStep
<1>4. QED BY <1>1, <1>2, <1>3 DEF LInv

LEMMA AuthenticateHolds ==
    ASSUME LInv, NEW s \in Session, Authenticate(s) PROVE LInv'
<1>1. /\ handle[s] \in Handle
      /\ handle' = [handle EXCEPT ![s].method = "password"]
      /\ UNCHANGED <<up, onTty, flight, sessions, doubtful>>
  BY DEF Authenticate, LInv, LoginTypeOK
<1>2. /\ handle' \in [Session -> Handle]
      /\ \A x \in Session : /\ handle'[x].tty = handle[x].tty
                            /\ handle'[x].login = handle[x].login
  BY <1>1 DEF LInv, LoginTypeOK, Handle
<1>3. LoginTypeOK'
  BY <1>1, <1>2 DEF LInv, LoginTypeOK
<1>4. \A t \in Key : \A i \in DOMAIN onTty[t] : onTty[t][i] \in Session
  BY ElementOfSeq, LenProperties DEF LInv, LoginTypeOK
<1>5. OnItsTerminal'
  BY <1>1, <1>2, <1>4 DEF LInv, OnItsTerminal
<1>6. ASSUME NEW t \in Key PROVE WhoIsIn(t)' = WhoIsIn(t)
  <2>1. onTty[t] # <<>> => 1 \in DOMAIN onTty[t]
    BY LenProperties, EmptySeq DEF LInv, LoginTypeOK
  <2>2. onTty[t] # <<>> => onTty[t][1] \in Session
    BY <1>4, <2>1
  <2>3. QED BY <1>1, <1>2, <2>2 DEF WhoIsIn
<1>7. \A t \in Key \ doubtful : InStep(t)'
  BY <1>1, <1>6, StaysInStep, SameFlight DEF LInv
<1>8. QED BY <1>1, <1>3, <1>5, <1>7 DEF LInv

\* A session s of login l has come to terminal t.
LEMMA Entered ==
    ASSUME LInv, NEW s \in Session, NEW t \in Key, Enter(s, t),
           handle' \in [Session -> Handle],
           \A x \in Session : x # s => handle'[x] = handle[x],
           handle'[s].tty = t
    PROVE  /\ onTty' \in [Key -> Seq(Session)]
           /\ OnItsTerminal'
           /\ \A u \in Key \ {t} : /\ onTty'[u] = onTty[u]
                                   /\ WhoIsIn(u)' = WhoIsIn(u)
           /\ Len(onTty'[t]) < 2 =>
                  onTty[t] = <<>> /\ WhoIsIn(t)' = handle'[s].login
<1> USE LoginAssumption
<1> DEFINE n == Len(onTty[t])
<1>1. /\ onTty \in [Key -> Seq(Session)] /\ onTty[t] \in Seq(Session)
      /\ n \in Nat
      /\ \A u \in Key : DOMAIN onTty[u] = 1 .. Len(onTty[u])
      /\ \A u \in Key : \A i \in DOMAIN onTty[u] : onTty[u][i] \in Session
  BY ElementOfSeq, LenProperties DEF LInv, LoginTypeOK
<1>2. \A u \in Key : onTty'[u] = IF u = t THEN Append(onTty[t], s) ELSE onTty[u]
  BY <1>1 DEF Enter
<1>3. /\ onTty'[t] \in Seq(Session)
      /\ Len(onTty'[t]) = n + 1
      /\ DOMAIN onTty'[t] = 1 .. n + 1
      /\ onTty'[t][n + 1] = s
      /\ \A j \in 1 .. n : onTty'[t][j] = onTty[t][j]
  <2>1. onTty'[t] = Append(onTty[t], s) /\ onTty[t] \in Seq(Session)
    BY <1>1, <1>2
  <2>2. QED BY <2>1, AppendIs
<1>4. onTty' \in [Key -> Seq(Session)]
  BY <1>1, <1>3 DEF Enter
<1>5. \A u \in Key : \A i \in DOMAIN onTty[u] :
          onTty[u][i] # s /\ handle'[onTty[u][i]] = handle[onTty[u][i]]
  <2>1. handle[s].tty = Nobody /\ Nobody \notin Key
    BY DEF Enter, Key
  <2>2. QED BY <1>1, <2>1 DEF LInv, OnItsTerminal
<1> HIDE DEF n
<1>6. OnItsTerminal'
  <2>1. ASSUME NEW u \in Key, NEW i \in DOMAIN onTty'[u]
        PROVE  handle'[onTty'[u][i]].tty = u
    <3>1. CASE u # t
      BY <1>2, <1>5, <2>1, <3>1 DEF LInv, OnItsTerminal
    <3>2. CASE u = t /\ i \in 1 .. n
      BY <1>1, <1>3, <1>5, <2>1, <3>2 DEF LInv, OnItsTerminal, n
    <3>3. CASE u = t /\ i = n + 1
      BY <1>3, <3>3
    <3>4. QED BY <1>1, <1>3, <2>1, <3>1, <3>2, <3>3
  <2>2. ASSUME NEW u \in Key, NEW i \in DOMAIN onTty'[u],
               NEW j \in DOMAIN onTty'[u], onTty'[u][i] = onTty'[u][j]
        PROVE  i = j
    <3>1. CASE u # t
      BY <1>2, <2>2, <3>1 DEF LInv, OnItsTerminal
    <3>2. CASE u = t
      <4>1. i \in 1 .. n + 1 /\ j \in 1 .. n + 1
        BY <1>3, <3>2
      <4>2. \A k \in 1 .. n : k \in DOMAIN onTty[t] /\ onTty'[t][k] # s
        BY <1>1, <1>3, <1>5 DEF n
      <4>3. CASE i \in 1 .. n /\ j \in 1 .. n
        BY <1>3, <2>2, <3>2, <4>2, <4>3 DEF LInv, OnItsTerminal
      <4>4. QED BY <1>1, <1>3, <2>2, <3>2, <4>1, <4>2, <4>3
    <3>3. QED BY <3>1, <3>2
  <2>3. ASSUME NEW x \in Session, handle'[x].tty = Nobody
        PROVE  handle'[x].login = Nobody
    <3>1. x # s
      BY <2>3 DEF Key
    <3>2. QED BY <2>3, <3>1 DEF LInv, OnItsTerminal
  <2>4. QED BY <2>1, <2>2, <2>3 DEF OnItsTerminal
<1>7. ASSUME NEW u \in Key \ {t}
      PROVE  onTty'[u] = onTty[u] /\ WhoIsIn(u)' = WhoIsIn(u)
  <2>1. onTty'[u] = onTty[u]
    BY <1>2
  <2>2. onTty[u] # <<>> => 1 \in DOMAIN onTty[u]
    BY <1>1, EmptySeq, LenProperties
  <2>3. QED BY <1>5, <2>1, <2>2 DEF WhoIsIn
<1>8. ASSUME Len(onTty'[t]) < 2
      PROVE  onTty[t] = <<>> /\ WhoIsIn(t)' = handle'[s].login
  <2>1. n = 0
    BY <1>1, <1>3, <1>8
  <2>2. onTty[t] = <<>>
    BY <1>1, <2>1, EmptySeq DEF n
  <2>3. onTty'[t] # <<>> /\ onTty'[t][1] = s
    BY <1>3, <2>1, EmptySeq
  <2>4. QED BY <2>2, <2>3 DEF WhoIsIn
<1>9. QED BY <1>4, <1>6, <1>7, <1>8
LEMMA OpenHolds ==
    ASSUME LInv, NEW s \in Session, NEW t \in Key, NEW uid \in User,
           NEW from \in From, OpenSession(s, t, uid, from)
    PROVE  LInv'
<1> DEFINE login == [uid |-> uid, from |-> from, method |-> handle[s].method]
<1>1. handle[s] \in Handle /\ Enter(s, t) /\ UNCHANGED <<up, sessions>>
  BY DEF OpenSession, Enter, LInv, LoginTypeOK
<1>2. login \in Login
  BY <1>1 DEF Handle, Login
<1>3. /\ handle' = [handle EXCEPT ![s].tty = t, ![s].login = login]
      /\ Notify("login", t, login)
      /\ doubtful' = Doubt(t)
  BY DEF OpenSession
<1> HIDE DEF login
<1>4. /\ handle' \in [Session -> Handle]
      /\ \A x \in Session : x # s => handle'[x] = handle[x]
      /\ handle'[s].tty = t /\ handle'[s].login = login
  BY <1>1, <1>2, <1>3 DEF Handle, LInv, LoginTypeOK
<1>5. /\ onTty' \in [Key -> Seq(Session)]
      /\ OnItsTerminal'
      /\ \A u \in Key \ {t} : onTty'[u] = onTty[u] /\ WhoIsIn(u)' = WhoIsIn(u)
      /\ Len(onTty'[t]) < 2 => onTty[t] = <<>> /\ WhoIsIn(t)' = login
  BY <1>1, <1>4, Entered
<1>6. /\ flight' \in Seq(Event)
      /\ \A u \in Key \ {t} : SameUnderWay(u)
      /\ up => /\ ~Served(t)'
               /\ \A i \in DOMAIN flight' : LastOf(t, i)' =>
                      Left(flight'[i]) = login
  BY <1>2, <1>3, Notified DEF LInv
<1>7. doubtful' \subseteq Key /\ doubtful \subseteq doubtful'
      /\ (t \notin doubtful' => up /\ Len(onTty'[t]) < 2)
  BY <1>3 DEF Doubt, LInv, LoginTypeOK
<1>8. LoginTypeOK'
  BY <1>1, <1>4, <1>5, <1>6, <1>7 DEF LInv, LoginTypeOK
<1>9. ASSUME NEW u \in Key \ doubtful' PROVE InStep(u)'
  <2>1. CASE u # t
    BY <1>1, <1>5, <1>6, <1>7, <2>1, StaysInStep DEF LInv
  <2>2. CASE u = t
    BY <1>5, <1>6, <1>7, <2>2 DEF InStep
  <2>3. QED BY <2>1, <2>2
<1>10. QED BY <1>5, <1>8, <1>9 DEF LInv

LEMMA OpenUnresolvedHolds ==
    ASSUME LInv, NEW s \in Session, NEW t \in Key, OpenUnresolved(s, t)
    PROVE  LInv'
<1>1. /\ handle[s] \in Handle /\ Enter(s, t) /\ UNCHANGED <<up, sessions, flight>>
      /\ handle' = [handle EXCEPT ![s].tty = t]
      /\ doubtful' = doubtful \cup (IF onTty[t] = <<>> THEN {} ELSE {t})
  BY DEF OpenUnresolved, Enter, LInv, LoginTypeOK
<1>2. handle[s].login = Nobody
  BY <1>1 DEF Enter, LInv, OnItsTerminal
<1>3. /\ handle' \in [Session -> Handle]
      /\ \A x \in Session : x # s => handle'[x] = handle[x]
      /\ handle'[s].tty = t /\ handle'[s].login = Nobody
  BY <1>1, <1>2 DEF Handle, LInv, LoginTypeOK
<1>4. /\ onTty' \in [Key -> Seq(Session)]
      /\ OnItsTerminal'
      /\ \A u \in Key \ {t} : onTty'[u] = onTty[u] /\ WhoIsIn(u)' = WhoIsIn(u)
      /\ Len(onTty'[t]) < 2 => onTty[t] = <<>> /\ WhoIsIn(t)' = Nobody
  BY <1>1, <1>3, Entered
<1>5. LoginTypeOK'
  BY <1>1, <1>3, <1>4 DEF LInv, LoginTypeOK
<1>6. ASSUME NEW u \in Key \ doubtful' PROVE InStep(u)'
  <2>1. CASE u # t
    BY <1>1, <1>4, <2>1, StaysInStep, SameFlight DEF LInv
  <2>2. CASE u = t
    <3>1. onTty[t] = <<>> /\ InStep(t)
      BY <1>1, <2>2 DEF LInv
    <3>2. Len(onTty'[t]) < 2
      <4>1. onTty'[t] = Append(onTty[t], s) /\ onTty[t] \in Seq(Session)
        BY <1>1 DEF Enter, LInv, LoginTypeOK
      <4>2. Len(onTty'[t]) = Len(onTty[t]) + 1
        BY <4>1, AppendIs
      <4>3. QED BY <3>1, <4>2, EmptySeq
    <3>3. WhoIsIn(t)' = WhoIsIn(t)
      BY <1>4, <3>1, <3>2 DEF WhoIsIn
    <3>4. QED
      BY <1>1, <2>2, <3>1, <3>2, <3>3 DEF InStep, Served, LastOf, Left
  <2>3. QED BY <2>1, <2>2
<1>7. QED BY <1>4, <1>5, <1>6 DEF LInv

\* Session s has left terminal t.
LEMMA Closed ==
    ASSUME LInv, NEW s \in Session, NEW t \in Key, handle[s].tty = t,
           handle' = [handle EXCEPT ![s] = Out],
           NEW i \in DOMAIN onTty[t], onTty[t][i] = s,
           onTty' = [onTty EXCEPT ![t] = RemovedAt(@, i)]
    PROVE  /\ handle' \in [Session -> Handle]
           /\ onTty' \in [Key -> Seq(Session)]
           /\ OnItsTerminal'
           /\ \A u \in Key \ {t} : onTty'[u] = onTty[u] /\ WhoIsIn(u)' = WhoIsIn(u)
           /\ Len(onTty[t]) < 2 => /\ Len(onTty'[t]) < 2
                                   /\ WhoIsIn(t) = handle[s].login
                                   /\ WhoIsIn(t)' = Nobody
<1> USE LoginAssumption
<1> DEFINE n == Len(onTty[t])
<1>1. /\ onTty \in [Key -> Seq(Session)] /\ onTty[t] \in Seq(Session)
      /\ n \in Nat
      /\ \A u \in Key : DOMAIN onTty[u] = 1 .. Len(onTty[u])
      /\ \A u \in Key : \A k \in DOMAIN onTty[u] : onTty[u][k] \in Session
  BY ElementOfSeq, LenProperties DEF LInv, LoginTypeOK
<1>2. \A u \in Key : onTty'[u] = IF u = t THEN RemovedAt(onTty[t], i) ELSE onTty[u]
  BY <1>1
<1>3. i \in 1 .. n /\ RemovedAt(onTty[t], i) = onTty'[t]
  BY <1>1, <1>2
<1>4. /\ onTty'[t] \in Seq(Session)
      /\ Len(onTty'[t]) = n - 1
      /\ DOMAIN onTty'[t] = 1 .. n - 1
      /\ \A j \in 1 .. n - 1 : onTty'[t][j] = onTty[t][IF j < i THEN j ELSE j + 1]
  <2>1. RemovedAt(onTty[t], i) = onTty'[t] /\ onTty[t] \in Seq(Session)
        /\ i \in 1 .. Len(onTty[t])
    BY <1>1, <1>3
  <2>2. PICK seq \in Seq(Session) : seq = onTty[t]
    BY <2>1
  <2>3. PICK r : r = RemovedAt(seq, i)
    OBVIOUS
  <2>4. i \in 1 .. Len(seq)
    BY <2>1, <2>2
  <2>5. /\ r \in Seq(Session)
        /\ Len(r) = Len(seq) - 1
        /\ DOMAIN r = 1 .. Len(seq) - 1
        /\ \A j \in 1 .. Len(seq) - 1 :
               r[j] = seq[IF j < i THEN j ELSE j + 1]
    BY <2>3, <2>4, RemovedAtIs
  <2>6. QED BY <2>1, <2>2, <2>3, <2>5
<1>5. onTty' \in [Key -> Seq(Session)]
  BY <1>1, <1>3, <1>4
<1>6. /\ handle' \in [Session -> Handle]
      /\ \A x \in Session : handle'[x] = IF x = s THEN Out ELSE handle[x]
  <2>1. Out \in Handle
    BY DEF Out, Handle
  <2>2. QED BY <2>1 DEF LInv, LoginTypeOK
<1>7. \A u \in Key \ {t} : \A k \in DOMAIN onTty[u] :
          onTty[u][k] # s /\ handle'[onTty[u][k]] = handle[onTty[u][k]]
  BY <1>1, <1>6 DEF LInv, OnItsTerminal
<1>8. \A k \in DOMAIN onTty[t] : k # i =>
          onTty[t][k] # s /\ handle'[onTty[t][k]] = handle[onTty[t][k]]
  BY <1>1, <1>6 DEF LInv, OnItsTerminal
<1> HIDE DEF n
<1>9. ASSUME NEW j \in DOMAIN onTty'[t]
      PROVE  \E k \in DOMAIN onTty[t] : /\ k = IF j < i THEN j ELSE j + 1
                                        /\ k # i /\ onTty'[t][j] = onTty[t][k]
  <2> DEFINE k == IF j < i THEN j ELSE j + 1
  <2>1. k \in 1 .. n /\ k # i
    BY <1>1, <1>3, <1>4, <1>9
  <2>2. onTty'[t][j] = onTty[t][k]
    BY <1>4, <1>9
  <2>3. QED BY <1>1, <2>1, <2>2 DEF n
<1>10. OnItsTerminal'
  <2>1. ASSUME NEW u \in Key, NEW j \in DOMAIN onTty'[u]
        PROVE  handle'[onTty'[u][j]].tty = u
    <3>1. CASE u # t
      BY <1>2, <1>7, <2>1, <3>1 DEF LInv, OnItsTerminal
    <3>2. CASE u = t
      BY <1>8, <1>9, <2>1, <3>2 DEF LInv, OnItsTerminal
    <3>3. QED BY <3>1, <3>2
  <2>2. ASSUME NEW u \in Key, NEW j \in DOMAIN onTty'[u],
               NEW k \in DOMAIN onTty'[u], onTty'[u][j] = onTty'[u][k]
        PROVE  j = k
    <3>1. CASE u # t
      BY <1>2, <2>2, <3>1 DEF LInv, OnItsTerminal
    <3>2. CASE u = t
      <4>1. (IF j < i THEN j ELSE j + 1) = (IF k < i THEN k ELSE k + 1)
        BY <1>9, <2>2, <3>2 DEF LInv, OnItsTerminal
      <4>2. j \in 1 .. n - 1 /\ k \in 1 .. n - 1
        BY <1>4, <3>2
      <4>3. QED BY <1>1, <1>3, <4>1, <4>2
    <3>3. QED BY <3>1, <3>2
  <2>3. \A x \in Session : handle'[x].tty = Nobody => handle'[x].login = Nobody
    BY <1>6 DEF LInv, OnItsTerminal, Out
  <2>4. QED BY <2>1, <2>2, <2>3 DEF OnItsTerminal
<1>11. ASSUME NEW u \in Key \ {t}
       PROVE  onTty'[u] = onTty[u] /\ WhoIsIn(u)' = WhoIsIn(u)
  <2>1. onTty'[u] = onTty[u]
    BY <1>2
  <2>2. onTty[u] # <<>> => 1 \in DOMAIN onTty[u]
    BY <1>1, EmptySeq, LenProperties
  <2>3. QED BY <1>7, <2>1, <2>2 DEF WhoIsIn
<1>12. ASSUME n < 2
       PROVE  /\ Len(onTty'[t]) < 2
              /\ WhoIsIn(t) = handle[s].login
              /\ WhoIsIn(t)' = Nobody
  <2>1. n = 1 /\ i = 1
    BY <1>1, <1>3, <1>12
  <2>2. onTty[t] # <<>>
    <3>1. Len(<<>>) = 0
      BY EmptySeq
    <3>2. QED BY <2>1, <3>1 DEF n
  <2>3. Len(onTty'[t]) = 0
    BY <1>4, <2>1
  <2>4. onTty'[t] = <<>>
    BY <1>4, <2>3, EmptySeq
  <2>5. QED BY <2>1, <2>2, <2>3, <2>4 DEF WhoIsIn
<1>13. QED BY <1>5, <1>6, <1>10, <1>11, <1>12 DEF n

LEMMA CloseHolds ==
    ASSUME LInv, NEW s \in Session, CloseSession(s) PROVE LInv'
<1>1. PICK t \in Key : t = handle[s].tty
  BY DEF CloseSession, LInv, LoginTypeOK, Handle
<1>2. /\ UNCHANGED <<up, sessions>>
      /\ handle' = [handle EXCEPT ![s] = Out]
      /\ handle[s].login \in Login \cup {Nobody}
  BY DEF CloseSession, LInv, LoginTypeOK, Handle
<1>3. PICK i \in DOMAIN onTty[t] :
          /\ onTty[t][i] = s
          /\ onTty' = [onTty EXCEPT ![t] = RemovedAt(@, i)]
  BY <1>1 DEF CloseSession
<1>4. /\ handle' \in [Session -> Handle]
      /\ onTty' \in [Key -> Seq(Session)]
      /\ OnItsTerminal'
      /\ \A u \in Key \ {t} : onTty'[u] = onTty[u] /\ WhoIsIn(u)' = WhoIsIn(u)
      /\ Len(onTty[t]) < 2 => /\ Len(onTty'[t]) < 2
                              /\ WhoIsIn(t) = handle[s].login
                              /\ WhoIsIn(t)' = Nobody
  BY <1>1, <1>2, <1>3, Closed
<1>5. CASE handle[s].login = Nobody
  <2>1. UNCHANGED <<flight, doubtful>>
    BY <1>1, <1>5 DEF CloseSession
  <2>2. LoginTypeOK'
    BY <1>1, <1>2, <1>4, <2>1 DEF LInv, LoginTypeOK
  <2>3. ASSUME NEW u \in Key \ doubtful PROVE InStep(u)'
    <3>1. InStep(u)
      BY DEF LInv
    <3>2. CASE u # t
      BY <1>1, <1>2, <1>4, <2>1, <3>1, <3>2, StaysInStep, SameFlight
    <3>3. CASE u = t
      <4>1. Len(onTty[t]) < 2
        BY <3>1, <3>3 DEF InStep
      <4>2. QED
        BY <1>1, <1>2, <1>4, <1>5, <2>1, <3>1, <3>3, <4>1 DEF InStep, Served,
           LastOf, Left
    <3>4. QED BY <3>2, <3>3
  <2>4. QED BY <1>4, <2>1, <2>2, <2>3 DEF LInv
<1>6. CASE handle[s].login # Nobody
  <2>1. Notify("logout", t, handle[s].login) /\ doubtful' = Doubt(t)
    BY <1>1, <1>6 DEF CloseSession
  <2>2. handle[s].login \in Login
    BY <1>1, <1>2, <1>6
  <2>3. /\ flight' \in Seq(Event)
        /\ \A u \in Key \ {t} : SameUnderWay(u)
        /\ up => /\ ~Served(t)'
                 /\ \A k \in DOMAIN flight' : LastOf(t, k)' =>
                        Left(flight'[k]) = Nobody
    BY <1>1, <1>2, <2>1, <2>2, Notified DEF LInv
  <2>4. doubtful' \subseteq Key /\ doubtful \subseteq doubtful'
        /\ (t \notin doubtful' => up /\ Len(onTty'[t]) < 2)
    BY <1>1, <1>2, <2>1 DEF Doubt, LInv, LoginTypeOK
  <2>5. LoginTypeOK'
    BY <1>1, <1>2, <1>4, <2>3, <2>4 DEF LInv, LoginTypeOK
  <2>6. ASSUME NEW u \in Key \ doubtful' PROVE InStep(u)'
    <3>1. InStep(u)
      BY <2>4 DEF LInv
    <3>2. CASE u # t
      BY <1>1, <1>2, <1>4, <2>3, <3>1, <3>2, StaysInStep
    <3>3. CASE u = t
      <4>1. Len(onTty[t]) < 2
        BY <3>1, <3>3 DEF InStep
      <4>2. QED BY <1>4, <2>3, <2>4, <3>3, <4>1 DEF InStep
    <3>4. QED BY <3>2, <3>3
  <2>7. QED BY <1>4, <2>5, <2>6 DEF LInv
<1>7. QED BY <1>5, <1>6
-----------------------------------------------------------------------------
(* teald. *)

LEMMA ProcessHolds ==
    ASSUME LInv, NEW i \in DOMAIN flight, ProcessEvent(i) PROVE LInv'
<1> DEFINE n == Len(flight)
<1>1. /\ flight \in Seq(Event) /\ n \in Nat /\ DOMAIN flight = 1 .. n
      /\ \A j \in 1 .. n : flight[j] \in Event
  BY ElementOfSeq, LenProperties DEF LInv, LoginTypeOK
<1>2. PICK e \in Event : e = flight[i]
  BY <1>1
<1> DEFINE t == e.tty
           others == {j \in DOMAIN flight \ {i} : flight[j].tty = t}
           last == IF e.action = "login" THEN <<e.login>> ELSE <<>>
<1>3. /\ t \in Key /\ e.login \in Login /\ e.action \in {"login", "logout"}
      /\ UNCHANGED <<up, handle, onTty>>
      /\ flight' = RemovedAt(flight, i)
      /\ sessions' = [sessions EXCEPT ![t] = Left(e)]
  <2>1. t \in Key /\ e.login \in Login /\ e.action \in {"login", "logout"}
    BY DEF Event
  <2>2. QED BY <1>2, <2>1 DEF ProcessEvent, Registered, Left
<1>4. doubtful' =
          IF \E j \in others : j < i THEN doubtful \cup {t}
          ELSE IF others = {} /\ last = [j \in DOMAIN onTty[t] |->
                                             handle[onTty[t][j]].login]
          THEN doubtful \ {t}
          ELSE doubtful
  BY <1>2 DEF ProcessEvent
<1>5. /\ flight' \in Seq(Event)
      /\ DOMAIN flight' = 1 .. n - 1
      /\ \A j \in 1 .. n - 1 : flight'[j] = flight[IF j < i THEN j ELSE j + 1]
  <2>1. i \in 1 .. Len(flight)
    BY <1>1
  <2>2. QED BY <1>1, <1>3, <2>1, RemovedAtIs
<1> HIDE DEF n
<1>6. LoginTypeOK'
  <2>1. Left(e) \in Login \cup {Nobody}
    BY <1>3 DEF Left
  <2>2. sessions' \in [Key -> Login \cup {Nobody}]
    BY <1>3, <2>1 DEF LInv, LoginTypeOK
  <2>3. doubtful' \subseteq Key
    BY <1>3, <1>4 DEF LInv, LoginTypeOK
  <2>4. QED BY <1>3, <1>5, <2>2, <2>3 DEF LInv, LoginTypeOK
<1>7. OnItsTerminal' /\ \A u \in Key : WhoIsIn(u)' = WhoIsIn(u)
  BY <1>3 DEF LInv, OnItsTerminal, WhoIsIn
<1>8. \A j \in 1 .. n : j # i =>
          \E k \in 1 .. n - 1 : /\ flight'[k] = flight[j]
                                /\ j = IF k < i THEN k ELSE k + 1
  <2> SUFFICES ASSUME NEW j \in 1 .. n, j # i
               PROVE  \E k \in 1 .. n - 1 : /\ flight'[k] = flight[j]
                                            /\ j = IF k < i THEN k ELSE k + 1
    OBVIOUS
  <2> DEFINE k == IF j < i THEN j ELSE j - 1
  <2>1. k \in 1 .. n - 1 /\ j = IF k < i THEN k ELSE k + 1
    BY <1>1
  <2>2. QED BY <1>5, <2>1
<1>9. ASSUME NEW u \in Key, NEW k \in DOMAIN flight', LastOf(u, k)',
             u # t \/ (\A j \in others : j > i)
      PROVE  \E j \in DOMAIN flight : LastOf(u, j) /\ flight[j] = flight'[k]
  <2> DEFINE j == IF k < i THEN k ELSE k + 1
  <2>1. k \in 1 .. n - 1 /\ j \in 1 .. n /\ j # i /\ flight'[k] = flight[j]
    BY <1>1, <1>5
  <2>2. flight'[k].tty = u /\ flight[j].tty = u
    BY <1>9, <2>1 DEF LastOf
  <2>3. ASSUME NEW l \in 1 .. n, l > j PROVE flight[l].tty # u
    <3>1. CASE l = i
      <4>1. CASE u # t
        BY <1>2, <3>1, <4>1
      <4>2. CASE \A x \in others : x > i
        <5>1. u # t \/ j \in others
          BY <1>1, <2>1, <2>2
        <5>2. u # t \/ j > i
          BY <4>2, <5>1
        <5>3. QED BY <1>1, <1>2, <2>1, <2>3, <3>1, <5>2
      <4>3. QED BY <1>9, <4>1, <4>2
    <3>2. CASE l # i
      <4>1. PICK m \in 1 .. n - 1 : /\ flight'[m] = flight[l]
                                    /\ l = IF m < i THEN m ELSE m + 1
        BY <1>8, <3>2
      <4>2. m > k
        BY <1>1, <2>1, <2>3, <4>1
      <4>3. flight'[m].tty # u
        BY <1>5, <1>9, <4>2 DEF LastOf
      <4>4. QED BY <4>1, <4>3
    <3>3. QED BY <3>1, <3>2
  <2>4. QED BY <1>1, <2>1, <2>2, <2>3 DEF LastOf
<1>10. ASSUME NEW u \in Key \ {t} PROVE SameUnderWay(u) /\ sessions'[u] = sessions[u]
  <2>1. ASSUME Served(u)', NEW j \in DOMAIN flight PROVE flight[j].tty # u
    <3>1. CASE j = i
      BY <1>2, <3>1
    <3>2. CASE j # i
      BY <1>1, <1>5, <1>8, <2>1, <3>2 DEF Served
    <3>3. QED BY <3>1, <3>2
  <2>2. Served(u)' => Served(u)
    BY <2>1 DEF Served
  <2>3. sessions'[u] = sessions[u]
    BY <1>3 DEF LInv, LoginTypeOK
  <2>4. QED BY <1>9, <2>2, <2>3 DEF SameUnderWay
<1>11. ASSUME NEW u \in Key \ doubtful', u # t PROVE InStep(u)'
  <2>1. u \notin doubtful
    BY <1>4, <1>11
  <2>2. QED BY <1>3, <1>7, <1>10, <1>11, <2>1, StaysInStep DEF LInv
<1>12. ASSUME t \notin doubtful' PROVE InStep(t)'
  <2>1. ~ \E j \in others : j < i
    BY <1>4, <1>12
  <2>2. \A j \in others : j > i
    BY <1>1, <2>1
  <2>3. CASE others # {}
    <3>1. t \notin doubtful /\ InStep(t)
      BY <1>3, <1>4, <1>12, <2>1, <2>3 DEF LInv
    <3>2. ~Served(t)'
      <4>1. PICK j \in 1 .. n : j # i /\ flight[j].tty = t
        BY <1>1, <2>3
      <4>2. PICK k \in 1 .. n - 1 : flight'[k] = flight[j]
        BY <1>8, <4>1
      <4>3. QED BY <1>5, <4>1, <4>2 DEF Served
    <3>3. \A k \in DOMAIN flight' : LastOf(t, k)' => Left(flight'[k]) = WhoIsIn(t)
      <4>1. \A k \in DOMAIN flight' : LastOf(t, k)' =>
                \E j \in DOMAIN flight : LastOf(t, j) /\ flight[j] = flight'[k]
        BY <1>3, <1>9, <2>2
      <4>2. QED BY <3>1, <4>1 DEF InStep
    <3>4. QED BY <1>3, <1>7, <3>1, <3>2, <3>3 DEF InStep, Left
  <2>4. CASE others = {}
    <3>1. \A k \in DOMAIN flight' : flight'[k].tty # t
      <4>1. ASSUME NEW k \in DOMAIN flight' PROVE flight'[k].tty # t
        <5> DEFINE j == IF k < i THEN k ELSE k + 1
        <5>1. j \in 1 .. n /\ j # i /\ flight'[k] = flight[j]
          BY <1>1, <1>5
        <5>2. QED BY <1>1, <2>4, <5>1
      <4>2. QED BY <4>1
    <3>2. sessions'[t] = Left(e)
      BY <1>3 DEF LInv, LoginTypeOK
    <3>3. Len(onTty[t]) < 2 /\ Left(e) = WhoIsIn(t)
      <4>1. CASE t \notin doubtful
        <5>1. InStep(t)
          BY <1>3, <4>1 DEF LInv
        <5>2. LastOf(t, i)
          BY <1>1, <1>2, <2>4 DEF LastOf
        <5>3. QED BY <1>2, <5>1, <5>2 DEF InStep
      <4>2. CASE last = [j \in DOMAIN onTty[t] |-> handle[onTty[t][j]].login]
        <5>1. onTty[t] \in Seq(Session) /\ Len(onTty[t]) \in Nat
              /\ DOMAIN onTty[t] = 1 .. Len(onTty[t])
          BY <1>3, LenProperties DEF LInv, LoginTypeOK
        <5>2. CASE e.action = "login"
          <6>1. DOMAIN onTty[t] = 1 .. 1
            BY <4>2, <5>2
          <6>2. Len(onTty[t]) = 1 /\ 1 \in DOMAIN onTty[t]
            <7>1. 1 .. Len(onTty[t]) = 1 .. 1
              BY <5>1, <6>1
            <7>2. 1 \in 1 .. Len(onTty[t])
              BY <7>1
            <7>3. Len(onTty[t]) \in 1 .. Len(onTty[t])
              BY <5>1, <7>2
            <7>4. Len(onTty[t]) \in 1 .. 1
              BY <7>1, <7>3
            <7>5. QED BY <5>1, <7>2, <7>4
          <6>3. last[1] = e.login
            BY <5>2
          <6>4. handle[onTty[t][1]].login = e.login
            BY <4>2, <6>2, <6>3
          <6>5. onTty[t] # <<>>
            BY <6>2, EmptySeq
          <6>6. QED BY <5>2, <6>2, <6>4, <6>5 DEF WhoIsIn, Left
        <5>3. CASE e.action # "login"
          <6>1. DOMAIN onTty[t] = {}
            BY <4>2, <5>3
          <6>2. Len(onTty[t]) = 0
            <7>1. 1 \notin 1 .. Len(onTty[t])
              BY <5>1, <6>1
            <7>2. QED BY <5>1, <7>1
          <6>3. onTty[t] = <<>>
            BY <5>1, <6>2, EmptySeq
          <6>4. QED BY <5>3, <6>2, <6>3 DEF WhoIsIn, Left
        <5>4. QED BY <5>2, <5>3
      <4>3. QED BY <1>4, <1>12, <2>1, <2>4, <4>1, <4>2
    <3>4. QED BY <1>3, <1>7, <3>1, <3>2, <3>3 DEF InStep, Served, LastOf
  <2>5. QED BY <2>3, <2>4
<1>13. QED BY <1>6, <1>7, <1>11, <1>12 DEF LInv

LEMMA StopHolds == ASSUME LInv, Stop PROVE LInv'
<1>1. /\ flight' = <<>> /\ sessions' = [t \in Key |-> Nobody]
      /\ doubtful' = doubtful \cup {t \in Key : onTty[t] # <<>>}
                              \cup {flight[i].tty : i \in DOMAIN flight}
      /\ UNCHANGED <<handle, onTty>> /\ up' = FALSE
  BY DEF Stop
<1>2. doubtful' \subseteq Key
  <2>1. \A i \in DOMAIN flight : flight[i].tty \in Key
    <3>1. \A i \in DOMAIN flight : flight[i] \in Event
      BY ElementOfSeq, LenProperties DEF LInv, LoginTypeOK
    <3>2. QED BY <3>1 DEF Event
  <2>2. QED BY <1>1, <2>1 DEF LInv, LoginTypeOK
<1>3. flight' \in Seq(Event) /\ DOMAIN flight' = {} /\ Len(<<>>) = 0
  BY <1>1, EmptySeq
<1>4. up' \in BOOLEAN
  BY <1>1
<1>5. LoginTypeOK'
  BY <1>1, <1>2, <1>3, <1>4 DEF LInv, LoginTypeOK
<1>6. OnItsTerminal'
  BY <1>1 DEF LInv, OnItsTerminal
<1>7. ASSUME NEW t \in Key \ doubtful' PROVE InStep(t)'
  <2>1. onTty[t] = <<>> /\ sessions'[t] = Nobody
    BY <1>1
  <2>2. QED BY <1>1, <1>3, <2>1 DEF InStep, WhoIsIn
<1>8. QED BY <1>5, <1>6, <1>7 DEF LInv

-----------------------------------------------------------------------------
(* Together. *)

LEMMA SameHolds ==
    ASSUME LInv, up' \in BOOLEAN,
           UNCHANGED <<handle, onTty, flight, sessions, doubtful>>
    PROVE  LInv'
<1>1. LoginTypeOK' /\ OnItsTerminal'
  BY DEF LInv, LoginTypeOK, OnItsTerminal
<1>2. \A t \in Key \ doubtful : InStep(t)'
  BY DEF LInv, InStep, Served, LastOf, WhoIsIn, Left
<1>3. QED BY <1>1, <1>2 DEF LInv

LEMMA LoginNextHolds == LInv /\ [LoginNext]_loginVars => LInv'
<1> SUFFICES ASSUME LInv, [LoginNext]_loginVars PROVE LInv'
  OBVIOUS
<1>1. CASE Stop
  BY <1>1, StopHolds
<1>2. CASE Start
  <2>1. up' \in BOOLEAN
    BY <1>2 DEF Start
  <2>2. QED BY <1>2, <2>1, SameHolds DEF Start
<1>3. ASSUME NEW s \in Session, Authenticate(s) PROVE LInv'
  BY <1>3, AuthenticateHolds
<1>4. ASSUME NEW s \in Session, NEW t \in Key,
             \/ OpenUnresolved(s, t)
             \/ \E uid \in User, from \in From : OpenSession(s, t, uid, from)
      PROVE  LInv'
  BY <1>4, OpenHolds, OpenUnresolvedHolds
<1>5. ASSUME NEW s \in Session, CloseSession(s) PROVE LInv'
  BY <1>5, CloseHolds
<1>6. ASSUME NEW i \in DOMAIN flight, ProcessEvent(i) PROVE LInv'
  BY <1>6, ProcessHolds
<1>7. CASE UNCHANGED loginVars
  <2>1. up' \in BOOLEAN
    BY <1>7 DEF loginVars, LInv, LoginTypeOK
  <2>2. QED BY <1>7, <2>1, SameHolds DEF loginVars
<1>8. QED BY <1>1, <1>2, <1>3, <1>4, <1>5, <1>6, <1>7 DEF LoginNext

LEMMA LoginInvariance == LoginSpec => []LInv
BY LoginInitHolds, LoginNextHolds, PTL DEF LoginSpec

-----------------------------------------------------------------------------
\* Handles, notifications and the registry keep their types.
THEOREM LoginTypeCorrect == LoginSpec => []LoginTypeOK
BY LoginInvariance, PTL DEF LInv

\* However sessions open and close, their notifications overtake, and teald
\* stops and starts: where the registry can know, it says who is in.
THEOREM RegistryIsInStep == LoginSpec => []SessionIsWhoIsIn
<1>1. LInv => SessionIsWhoIsIn
  <2> SUFFICES ASSUME LInv, NEW t \in Tty \ doubtful, NEW uid \in User,
                      \A i \in DOMAIN flight : flight[i].tty # t
               PROVE  CheckRegisteredSession(t, uid) =
                          IF WhoIsIn(t) # Nobody /\ WhoIsIn(t).uid = uid
                          THEN WhoIsIn(t) ELSE Nobody
    BY DEF SessionIsWhoIsIn, WhoIsIn
  <2>1. t \in Key \ doubtful /\ t # Unknown
    BY LoginAssumption DEF Key
  <2>2. sessions[t] = WhoIsIn(t)
    BY <2>1 DEF LInv, InStep, Served
  <2>3. QED BY <2>1, <2>2 DEF CheckRegisteredSession, OfUser
<1>2. QED BY <1>1, LoginInvariance, PTL

-----------------------------------------------------------------------------
(***************************************************************************)
(* TealdEvidence.  An entry is two pieces, and stays whole because a file  *)
(* only grows behind what it holds: what is in it at one moment begins what *)
(* is in it later (Begins), and a crash cuts off no more than was not      *)
(* synced.                                                                 *)
(***************************************************************************)

-----------------------------------------------------------------------------
(* The strengthening. *)

Piece == Id \X {1, 2}
LogFile == [data : Seq(Piece), synced : Nat]
AiEvent == {[id |-> e, subject |-> SubjectOf[e]] : e \in Id}

EntriesOK ==
    /\ made \in Seq(BOOLEAN) /\ Len(made) <= MaxEntry
    /\ sending \subseteq 1 .. Len(made)
    /\ queue \in Seq(1 .. Len(made)) /\ Len(queue) <= QueueRoom
    /\ written \subseteq 1 .. Len(made)
    /\ secured \subseteq written

FilesOK ==
    /\ buffer \in Seq(Piece)
    /\ files \in Seq(LogFile) /\ Len(files) \in 1 .. MaxFile
    /\ \A f \in DOMAIN files : files[f].synced <= Len(files[f].data)

AiOK ==
    /\ events \in Seq(AiEvent) /\ Len(events) <= EventRoom
    /\ batch \in Seq(AiEvent) /\ Len(batch) < MaxEvents
    /\ analyses \in Seq(Seq(AiEvent)) /\ Len(analyses) <= AnalysisRoom

LogTypeOK == EntriesOK /\ FilesOK /\ AiOK /\ fails \in Nat /\ crashes \in Nat

Stands(data, e) == StandsAt(data, e) # {}

\* What of a file is on the disk.
OnDisk(f) == SubSeq(files[f].data, 1, files[f].synced)

\* All of them are of entries that write_log wrote.
OfLog(s) == \A i \in DOMAIN s : s[i].id \in written

DiskInv == \A e \in secured : \E f \in DOMAIN files : Readable(OnDisk(f), e)
WholeInv == crashes = 0 => \A e \in written : \E f \in DOMAIN files : Stands(Contents(f), e)
AiInv == OfLog(events) /\ OfLog(batch) /\ \A i \in DOMAIN analyses : OfLog(analyses[i])

LogInv == LogTypeOK /\ DiskInv /\ WholeInv /\ AiInv

-----------------------------------------------------------------------------
(* Sequences of pieces. *)

\* s is the beginning of t.
Begins(s, t) == Len(s) <= Len(t) /\ \A i \in 1 .. Len(s) : t[i] = s[i]

LEMMA StandsOn ==
    ASSUME NEW s \in Seq(Piece), NEW t \in Seq(Piece), Begins(s, t), NEW e
    PROVE  StandsAt(s, e) \subseteq StandsAt(t, e) /\ (Stands(s, e) => Stands(t, e))
<1> HIDE DEF Piece
<1>1. ASSUME NEW i \in 1 .. Len(s) - 1
      PROVE  i \in 1 .. Len(t) - 1 /\ t[i] = s[i] /\ t[i + 1] = s[i + 1]
  BY DEF Begins
<1>2. StandsAt(s, e) \subseteq StandsAt(t, e)
  BY <1>1 DEF StandsAt
<1>3. QED BY <1>2 DEF Stands

LEMMA ReadableOn ==
    ASSUME NEW s \in Seq(Piece), NEW t \in Seq(Piece), Begins(s, t), NEW e,
           Readable(s, e)
    PROVE  Readable(t, e)
<1>1. PICK i \in StandsAt(s, e) : i = 1 \/ \E d \in Id : s[i - 1] = Ending(d)
  BY DEF Readable
<1>2. i \in 1 .. Len(s) - 1 /\ Len(s) \in Nat
  BY <1>1 DEF StandsAt
<1>3. i # 1 => t[i - 1] = s[i - 1]
  <2>1. i # 1 => i - 1 \in 1 .. Len(s)
    BY <1>2
  <2>2. QED BY <2>1 DEF Begins
<1>4. i \in StandsAt(t, e)
  BY <1>1, StandsOn
<1>5. QED BY <1>1, <1>3, <1>4 DEF Readable

LEMMA BeginsAppended ==
    ASSUME NEW S, NEW s \in Seq(S), NEW t \in Seq(S)
    PROVE  s \o t \in Seq(S) /\ Begins(s, s \o t) /\ Begins(s, s)
BY DEF Begins

LEMMA BeginsCut ==
    ASSUME NEW S, NEW s \in Seq(S), NEW n \in 0 .. Len(s)
    PROVE  /\ SubSeq(s, 1, n) \in Seq(S) /\ Len(SubSeq(s, 1, n)) = n
           /\ \A i \in 1 .. n : SubSeq(s, 1, n)[i] = s[i]
           /\ Begins(SubSeq(s, 1, n), s)
BY DEF Begins

LEMMA TwoParts ==
    ASSUME NEW S, NEW s \in Seq(S), NEW t \in Seq(S)
    PROVE  /\ s \o t \in Seq(S) /\ Len(s \o t) = Len(s) + Len(t)
           /\ Len(s) \in Nat /\ Len(t) \in Nat
           /\ \A i \in 1 .. Len(s) : (s \o t)[i] = s[i]
           /\ \A i \in Len(s) + 1 .. Len(s) + Len(t) : (s \o t)[i] = t[i - Len(s)]
OBVIOUS

LEMMA SeqsEqual ==
    ASSUME NEW S, NEW s \in Seq(S), NEW t \in Seq(S), Len(s) = Len(t),
           \A i \in 1 .. Len(s) : s[i] = t[i]
    PROVE  s = t
OBVIOUS

\* What is cut off and put back in order is the whole again.
LEMMA CutAndPut ==
    ASSUME NEW S, NEW s \in Seq(S), NEW t \in Seq(S), NEW n \in 0 .. Len(t)
    PROVE  /\ SubSeq(t, n + 1, Len(t)) \in Seq(S)
           /\ s \o SubSeq(t, 1, n) \in Seq(S)
           /\ (s \o SubSeq(t, 1, n)) \o SubSeq(t, n + 1, Len(t)) = s \o t
<1> DEFINE a == SubSeq(t, 1, n)
           b == SubSeq(t, n + 1, Len(t))
<1>1. /\ a \in Seq(S) /\ Len(a) = n /\ \A i \in 1 .. n : a[i] = t[i]
      /\ b \in Seq(S) /\ Len(b) = Len(t) - n /\ \A i \in 1 .. Len(t) - n : b[i] = t[n + i]
  OBVIOUS
<1> HIDE DEF a, b
<1> DEFINE c == s \o a
           k == Len(s)
           l == Len(t)
<1>2. /\ c \in Seq(S) /\ Len(c) = k + n /\ k \in Nat /\ l \in Nat /\ n \in 0 .. l
      /\ \A i \in 1 .. k : c[i] = s[i]
      /\ \A i \in k + 1 .. k + n : c[i] = a[i - k]
  <2>1. /\ s \o a \in Seq(S) /\ Len(s \o a) = Len(s) + Len(a) /\ Len(s) \in Nat
        /\ \A i \in 1 .. Len(s) : (s \o a)[i] = s[i]
        /\ \A i \in Len(s) + 1 .. Len(s) + Len(a) : (s \o a)[i] = a[i - Len(s)]
    <3>1. a \in Seq(S)
      BY <1>1
    <3>2. QED BY <3>1, TwoParts
  <2>2. Len(t) \in Nat
    OBVIOUS
  <2>3. QED BY <1>1, <2>1, <2>2
<1> HIDE DEF c
<1>3. /\ Len(c \o b) = k + l /\ \A i \in 1 .. k + n : (c \o b)[i] = c[i]
      /\ \A i \in k + n + 1 .. k + l : (c \o b)[i] = b[i - (k + n)]
  <2> HIDE DEF k, l
  <2>1. Len(b) = l - n /\ (k + n) + (l - n) = k + l
    BY <1>1, <1>2 DEF l
  <2>2. /\ Len(c \o b) = Len(c) + Len(b)
        /\ \A i \in 1 .. Len(c) : (c \o b)[i] = c[i]
        /\ \A i \in Len(c) + 1 .. Len(c) + Len(b) : (c \o b)[i] = b[i - Len(c)]
    <3>1. c \in Seq(S) /\ b \in Seq(S)
      BY <1>1, <1>2
    <3>2. QED BY <3>1, TwoParts
  <2>3. QED BY <1>2, <2>1, <2>2
<1>4. /\ Len(s \o t) = k + l /\ \A i \in 1 .. k : (s \o t)[i] = s[i]
      /\ \A i \in k + 1 .. k + l : (s \o t)[i] = t[i - k]
  OBVIOUS
<1> HIDE DEF k, l
<1>5. ASSUME NEW i \in 1 .. k + l
      PROVE  (c \o b)[i] = (s \o t)[i]
  <2>1. CASE i \in 1 .. k
    BY <1>2, <1>3, <1>4, <2>1
  <2>2. CASE i \in k + 1 .. k + n
    <3>1. i - k \in 1 .. n /\ i \in 1 .. k + n
      BY <1>2, <2>2
    <3>2. QED BY <1>1, <1>2, <1>3, <1>4, <2>2, <3>1
  <2>3. CASE i \in k + n + 1 .. k + l
    <3>1. i - (k + n) \in 1 .. l - n /\ n + (i - (k + n)) = i - k /\ i \in k + 1 .. k + l
      BY <1>2, <2>3
    <3>2. b[i - (k + n)] = t[i - k]
      BY <1>1, <3>1 DEF l
    <3>3. QED BY <1>3, <1>4, <2>3, <3>1, <3>2
  <2>4. i \in 1 .. k \/ i \in k + 1 .. k + n \/ i \in k + n + 1 .. k + l
    BY <1>2
  <2>5. QED BY <2>1, <2>2, <2>3, <2>4
<1>6. c \o b = s \o t
  <2>1. c \o b \in Seq(S) /\ s \o t \in Seq(S)
    BY <1>1, <1>2, TwoParts
  <2>2. QED BY <1>3, <1>4, <1>5, <2>1, SeqsEqual
<1>7. QED BY <1>1, <1>2, <1>6 DEF a, b, c

-----------------------------------------------------------------------------
(* The files. *)

LEMMA FilesTyped ==
    ASSUME FilesOK
    PROVE  /\ Len(files) \in Nat \ {0} /\ DOMAIN files = 1 .. Len(files) /\ Len(files) \in DOMAIN files
           /\ Current \in LogFile
           /\ \A f \in DOMAIN files : /\ files[f] \in LogFile /\ files[f].data \in Seq(Piece)
                                      /\ files[f].synced \in 0 .. Len(files[f].data)
                                      /\ Contents(f) \in Seq(Piece) /\ OnDisk(f) \in Seq(Piece)
           /\ Contents(Len(files)) = Current.data \o buffer
<1>1. files \in Seq(LogFile) /\ Len(files) \in 1 .. MaxFile /\ buffer \in Seq(Piece)
      /\ \A f \in DOMAIN files : files[f].synced <= Len(files[f].data)
  BY DEF FilesOK
<1>2. \A g \in LogFile : g.data \in Seq(Piece) /\ Len(g.data) \in Nat /\ g.synced \in Nat
  BY DEF LogFile
<1> HIDE DEF LogFile, Piece
<1>3. Len(files) \in Nat \ {0} /\ DOMAIN files = 1 .. Len(files) /\ Len(files) \in DOMAIN files
      /\ \A f \in DOMAIN files : files[f] \in LogFile
  BY <1>1
<1>4. \A f \in DOMAIN files : Contents(f) \in Seq(Piece)
  BY <1>1, <1>2, <1>3 DEF Contents
<1>5. \A f \in DOMAIN files : OnDisk(f) \in Seq(Piece)
  <2> TAKE f \in DOMAIN files
  <2>1. files[f].data \in Seq(Piece) /\ files[f].synced \in 0 .. Len(files[f].data)
    BY <1>1, <1>2, <1>3
  <2>2. QED BY <2>1, BeginsCut DEF OnDisk
<1>6. QED BY <1>1, <1>2, <1>3, <1>4, <1>5 DEF Current, Contents

\* What Put leaves: nothing of the files is lost, and no piece on its way.
LEMMA PutKeeps ==
    ASSUME FilesOK, NEW pieces \in Seq(Piece), NEW n \in 0 .. Len(pieces),
           NEW sync \in BOOLEAN, Put(pieces, n, sync)
    PROVE  /\ buffer' \in Seq(Piece) /\ files' \in Seq(LogFile) /\ Len(files') = Len(files)
           /\ FilesOK'
           /\ \A f \in DOMAIN files : OnDisk(f)' \in Seq(Piece) /\ Begins(OnDisk(f), OnDisk(f)')
           /\ \A f \in DOMAIN files : f # Len(files) => Contents(f)' = Contents(f)
           /\ Contents(Len(files))' = Current.data \o pieces
           /\ Current.data \o pieces \in Seq(Piece)
           /\ sync => \E f \in DOMAIN files : OnDisk(f)' = Current.data \o SubSeq(pieces, 1, n)
<1> DEFINE m == Len(files)
           data == Current.data \o SubSeq(pieces, 1, n)
           new == [data |-> data, synced |-> IF sync THEN Len(data) ELSE Current.synced]
<1>1. /\ m \in Nat \ {0} /\ DOMAIN files = 1 .. m /\ m \in DOMAIN files /\ files[m] = Current
      /\ Current.data \in Seq(Piece) /\ Current.synced \in Nat /\ Current.synced <= Len(Current.data)
  BY FilesTyped DEF Current
<1>2. buffer' = SubSeq(pieces, n + 1, Len(pieces)) /\ files' = [files EXCEPT ![m] = new]
  BY <1>1 DEF Put, Current
<1>3. /\ data \in Seq(Piece) /\ buffer' \in Seq(Piece)
      /\ data \o buffer' = Current.data \o pieces
      /\ Current.data \o pieces \in Seq(Piece)
  <2> HIDE DEF Piece
  <2> DEFINE rest == SubSeq(pieces, n + 1, Len(pieces))
  <2>1. /\ data \in Seq(Piece) /\ rest \in Seq(Piece) /\ data \o rest = Current.data \o pieces
    <3> DEFINE d == Current.data
    <3>1. d \in Seq(Piece)
      BY <1>1
    <3> HIDE DEF d
    <3>2. /\ d \o SubSeq(pieces, 1, n) \in Seq(Piece) /\ rest \in Seq(Piece)
          /\ (d \o SubSeq(pieces, 1, n)) \o rest = d \o pieces
      BY <3>1, CutAndPut
    <3>3. QED BY <3>2 DEF d
  <2>2. buffer' = rest
    BY <1>2
  <2>3. Current.data \o pieces \in Seq(Piece)
    BY <1>1, TwoParts
  <2>4. QED BY <2>1, <2>2, <2>3
<1>4. Begins(Current.data, data) /\ Len(data) \in Nat
  <2> DEFINE d == Current.data
             a == SubSeq(pieces, 1, n)
  <2>1. a \in Seq(Piece) /\ d \in Seq(Piece)
    BY <1>1, BeginsCut
  <2> HIDE DEF d, a
  <2>2. Begins(d, d \o a) /\ d \o a \in Seq(Piece)
    BY <2>1, BeginsAppended
  <2> HIDE DEF Piece
  <2>3. Len(d \o a) \in Nat
    BY <2>2
  <2>4. QED BY <2>2, <2>3 DEF d, a
<1> HIDE DEF data
<1>5. new \in LogFile /\ new.data = data /\ new.synced <= Len(data)
      /\ new.synced = (IF sync THEN Len(data) ELSE Current.synced)
  BY <1>1, <1>3, <1>4 DEF LogFile, Begins
<1>6. Current.synced <= new.synced
  BY <1>1, <1>4, <1>5 DEF Begins
<1> HIDE DEF new
<1>7. /\ files' \in Seq(LogFile) /\ Len(files') = m /\ DOMAIN files' = 1 .. m
      /\ files'[m] = new /\ \A f \in 1 .. m : f # m => files'[f] = files[f]
  <2>1. files \in Seq(LogFile)
    BY DEF FilesOK
  <2> HIDE DEF LogFile, m
  <2>2. files \in [1 .. m -> LogFile] /\ m \in 1 .. m
    BY <1>1, <2>1 DEF m
  <2>3. files' \in [1 .. m -> LogFile]
    BY <1>2, <1>5, <2>2
  <2>4. files' \in Seq(LogFile) /\ Len(files') = m
    BY <1>1, <2>3
  <2>5. QED BY <1>2, <2>2, <2>3, <2>4
<1>8. FilesOK'
  <2>1. \A f \in 1 .. m : files[f].synced <= Len(files[f].data)
    BY <1>1 DEF FilesOK
  <2>2. \A f \in DOMAIN files' : files'[f].synced <= Len(files'[f].data)
    BY <1>5, <1>7, <2>1
  <2>3. m \in 1 .. MaxFile
    BY DEF FilesOK
  <2>4. QED BY <1>3, <1>7, <2>2, <2>3 DEF FilesOK
<1>9. ASSUME NEW f \in DOMAIN files
      PROVE  OnDisk(f)' \in Seq(Piece) /\ Begins(OnDisk(f), OnDisk(f)')
  <2> DEFINE s == files[f].data
             k == files[f].synced
             t == files'[f].data
             l == files'[f].synced
  <2>1. s \in Seq(Piece) /\ k \in 0 .. Len(s)
    BY FilesTyped
  <2>2. t \in Seq(Piece) /\ l \in 0 .. Len(t) /\ k <= l /\ Begins(s, t)
    <3>1. CASE f = m
      <4>1. s = Current.data /\ k = Current.synced /\ t = data /\ l = new.synced
        BY <1>1, <1>5, <1>7, <3>1
      <4> HIDE DEF s, k, t, l
      <4>2. new.synced \in Nat
        BY <1>1, <1>4, <1>5
      <4>3. QED BY <1>3, <1>4, <1>5, <1>6, <4>1, <4>2
    <3>2. CASE f # m
      <4>1. t = s /\ l = k
        BY <1>1, <1>7, <3>2
      <4> HIDE DEF s, k, t, l
      <4>2. Begins(s, s) /\ k <= k
        BY <2>1, BeginsAppended
      <4>3. QED BY <2>1, <4>1, <4>2
    <3>3. QED BY <3>1, <3>2
  <2> HIDE DEF s, k, t, l
  <2>3. Begins(SubSeq(s, 1, k), SubSeq(t, 1, l)) /\ SubSeq(t, 1, l) \in Seq(Piece)
    BY <2>1, <2>2, BeginsCut DEF Begins
  <2>4. QED BY <2>3 DEF OnDisk, s, k, t, l
<1>10. \A f \in DOMAIN files : f # m => Contents(f)' = Contents(f)
  BY <1>1, <1>7 DEF Contents
<1>11. Contents(m)' = data \o buffer'
  BY <1>5, <1>7 DEF Contents
<1>12. sync => \E f \in DOMAIN files : OnDisk(f)' = data
  <2> PICK f \in DOMAIN files : f = m
    BY <1>1
  <2>1. OnDisk(f)' = SubSeq(new.data, 1, new.synced)
    BY <1>7 DEF OnDisk
  <2>2. SubSeq(data, 1, Len(data)) = data
    BY <1>3
  <2>3. QED BY <1>5, <2>1, <2>2
<1>13. QED BY <1>3, <1>7, <1>8, <1>9, <1>10, <1>11, <1>12 DEF data

-----------------------------------------------------------------------------
(* What the invariant says of the log follows the files. *)

LEMMA BeginsLonger ==
    ASSUME NEW S, NEW s \in Seq(S), NEW t \in Seq(S), NEW u \in Seq(S), Begins(t, u)
    PROVE  Begins(s \o t, s \o u)
<1>1. Len(t) <= Len(u) /\ \A i \in 1 .. Len(t) : u[i] = t[i]
  BY DEF Begins
<1>2. /\ Len(s) \in Nat /\ Len(t) \in Nat /\ Len(u) \in Nat
      /\ Len(s \o t) = Len(s) + Len(t) /\ Len(s \o u) = Len(s) + Len(u)
      /\ \A i \in 1 .. Len(s) : (s \o t)[i] = s[i]
      /\ \A i \in Len(s) + 1 .. Len(s) + Len(t) : (s \o t)[i] = t[i - Len(s)]
      /\ \A i \in 1 .. Len(s) : (s \o u)[i] = s[i]
      /\ \A i \in Len(s) + 1 .. Len(s) + Len(u) : (s \o u)[i] = u[i - Len(s)]
  BY TwoParts
<1>3. ASSUME NEW i \in 1 .. Len(s) + Len(t) PROVE (s \o u)[i] = (s \o t)[i]
  <2>1. CASE i \in 1 .. Len(s)
    BY <1>2, <2>1
  <2>2. CASE i \in Len(s) + 1 .. Len(s) + Len(t)
    <3>1. i - Len(s) \in 1 .. Len(t) /\ i \in Len(s) + 1 .. Len(s) + Len(u)
      BY <1>1, <1>2, <2>2
    <3>2. QED BY <1>1, <1>2, <2>2, <3>1
  <2>3. Len(s) \in Nat /\ Len(t) \in Nat
    BY <1>2
  <2>4. i \in 1 .. Len(s) \/ i \in Len(s) + 1 .. Len(s) + Len(t)
    BY <2>3
  <2>5. QED BY <2>1, <2>2, <2>4
<1>4. QED BY <1>1, <1>2, <1>3 DEF Begins

\* Files that only grow on the disk keep what was secured.
LEMMA DiskKept ==
    ASSUME DiskInv, secured' = secured,
           \A f \in DOMAIN files : /\ f \in DOMAIN files'
                                   /\ OnDisk(f) \in Seq(Piece) /\ OnDisk(f)' \in Seq(Piece)
                                   /\ Begins(OnDisk(f), OnDisk(f)')
    PROVE  DiskInv'
<1> SUFFICES ASSUME NEW e \in secured PROVE \E f \in DOMAIN files' : Readable(OnDisk(f)', e)
  BY DEF DiskInv
<1>1. PICK f \in DOMAIN files : Readable(OnDisk(f), e)
  BY DEF DiskInv
<1>2. Readable(OnDisk(f)', e)
  BY <1>1, ReadableOn
<1>3. QED BY <1>2

\* Files that grow, with what is in the buffer, keep what was written.
LEMMA WholeKept ==
    ASSUME WholeInv, crashes' = crashes, written' = written,
           \A f \in DOMAIN files : /\ f \in DOMAIN files'
                                   /\ Contents(f) \in Seq(Piece) /\ Contents(f)' \in Seq(Piece)
                                   /\ Begins(Contents(f), Contents(f)')
    PROVE  WholeInv'
<1> SUFFICES ASSUME crashes = 0, NEW e \in written
             PROVE  \E f \in DOMAIN files' : Stands(Contents(f)', e)
  BY DEF WholeInv
<1>1. PICK f \in DOMAIN files : Stands(Contents(f), e)
  BY DEF WholeInv
<1>2. Stands(Contents(f)', e)
  BY <1>1, StandsOn
<1>3. QED BY <1>2

LEMMA PutDisk ==
    ASSUME FilesOK, DiskInv, NEW pieces \in Seq(Piece), NEW n \in 0 .. Len(pieces),
           NEW sync \in BOOLEAN, Put(pieces, n, sync), secured' = secured
    PROVE  DiskInv'
<1>1. \A f \in DOMAIN files : OnDisk(f) \in Seq(Piece)
  BY FilesTyped
<1>2. /\ Len(files') = Len(files) /\ files' \in Seq(LogFile)
      /\ \A f \in DOMAIN files : OnDisk(f)' \in Seq(Piece) /\ Begins(OnDisk(f), OnDisk(f)')
  BY PutKeeps
<1>3. DOMAIN files' = DOMAIN files
  <2> HIDE DEF LogFile
  <2>1. QED BY <1>2, FilesTyped
<1>4. QED BY <1>1, <1>2, <1>3, DiskKept

\* All that was in the file and the buffer is there, and so is what was put
\* behind it.
LEMMA PutWhole ==
    ASSUME FilesOK, NEW pieces \in Seq(Piece), Begins(buffer, pieces),
           NEW n \in 0 .. Len(pieces), NEW sync \in BOOLEAN, Put(pieces, n, sync)
    PROVE  /\ DOMAIN files' = DOMAIN files
           /\ \A f \in DOMAIN files : Contents(f)' \in Seq(Piece) /\ Begins(Contents(f), Contents(f)')
           /\ \E f \in DOMAIN files : \A e : Stands(Current.data \o pieces, e) => Stands(Contents(f)', e)
<1> DEFINE m == Len(files)
           d == Current.data
<1>1. /\ m \in DOMAIN files /\ DOMAIN files = 1 .. m /\ Contents(m) = d \o buffer
      /\ \A f \in DOMAIN files : Contents(f) \in Seq(Piece)
      /\ Current \in LogFile
  BY FilesTyped
<1>2. d \in Seq(Piece) /\ buffer \in Seq(Piece)
  BY <1>1 DEF LogFile, FilesOK
<1>3. /\ Len(files') = m /\ files' \in Seq(LogFile)
      /\ \A f \in DOMAIN files : f # m => Contents(f)' = Contents(f)
      /\ Contents(m)' = d \o pieces /\ Contents(m)' \in Seq(Piece)
  BY PutKeeps
<1>4. DOMAIN files' = DOMAIN files
  <2> HIDE DEF LogFile
  <2>1. QED BY <1>1, <1>3
<1>5. \A f \in DOMAIN files : f = m => Contents(f)' = Contents(m)'
  BY <1>3 DEF Contents
<1> HIDE DEF m, d
<1>6. Begins(d \o buffer, d \o pieces)
  BY <1>2, BeginsLonger
<1>7. d \o buffer \in Seq(Piece) /\ d \o pieces \in Seq(Piece)
  BY <1>2, TwoParts
<1>8. Begins(Contents(m), Contents(m)')
  BY <1>1, <1>3, <1>6
<1>9. \A f \in DOMAIN files : Contents(f)' \in Seq(Piece) /\ Begins(Contents(f), Contents(f)')
  <2> TAKE f \in DOMAIN files
  <2>1. CASE f = m
    BY <1>3, <1>8, <1>5, <2>1
  <2>2. CASE f # m
    <3>1. Contents(f)' = Contents(f) /\ Contents(f) \in Seq(Piece)
      BY <1>1, <1>3, <2>2
    <3>2. Begins(Contents(f), Contents(f))
      BY <3>1, BeginsAppended
    <3>3. QED BY <3>1, <3>2
  <2>3. QED BY <2>1, <2>2
<1>10. \E f \in DOMAIN files : \A e : Stands(d \o pieces, e) => Stands(Contents(f)', e)
  <2>1. PICK f \in DOMAIN files : f = m
    BY <1>1
  <2>2. Contents(f)' = d \o pieces
    BY <1>3, <1>5, <2>1
  <2>3. \A e : Stands(d \o pieces, e) => Stands(Contents(f)', e)
    BY <2>2
  <2>4. QED BY <2>3
<1>11. QED BY <1>4, <1>9, <1>10 DEF d

-----------------------------------------------------------------------------
(* The invariant is inductive. *)

LEMMA LogInitHolds == Init => LogInv
<1> SUFFICES ASSUME Init PROVE LogInv
  OBVIOUS
<1> USE EvidenceAssumption
<1>1. EntriesOK /\ AiOK /\ fails \in Nat /\ crashes \in Nat
  BY DEF Init, EntriesOK, AiOK
<1>2. FilesOK
  <2>1. <<>> \in Seq(Piece) /\ Len(<<>>) = 0
    OBVIOUS
  <2>2. [data |-> <<>>, synced |-> 0] \in LogFile
    BY <2>1 DEF LogFile
  <2> HIDE DEF LogFile, Piece
  <2>3. QED BY <2>1, <2>2 DEF Init, FilesOK
<1>3. DiskInv /\ WholeInv /\ AiInv
  BY DEF Init, DiskInv, WholeInv, AiInv, OfLog
<1>4. QED BY <1>1, <1>2, <1>3 DEF LogInv, LogTypeOK

\* The files, and what is said of them, do not change with the rest.
LEMMA FilesUntouched ==
    ASSUME FilesOK, DiskInv, WholeInv, buffer' = buffer, files' = files,
           crashes' = crashes, written' = written, secured' = secured
    PROVE  FilesOK' /\ DiskInv' /\ WholeInv'
BY DEF FilesOK, DiskInv, WholeInv, OnDisk, Contents

LEMMA AiUntouched ==
    ASSUME AiOK, AiInv, UNCHANGED aiVars, written \subseteq written'
    PROVE  AiOK' /\ AiInv'
BY DEF AiOK, AiInv, OfLog, aiVars

\* The first of a sequence is taken.
LEMMA TakenFirst ==
    ASSUME NEW S, NEW s \in Seq(S), s # <<>>
    PROVE  /\ s[1] \in S /\ Len(s) \in Nat \ {0}
           /\ SubSeq(s, 2, Len(s)) \in Seq(S) /\ Len(SubSeq(s, 2, Len(s))) = Len(s) - 1
           /\ \A i \in 1 .. Len(s) - 1 : SubSeq(s, 2, Len(s))[i] = s[i + 1]
<1>1. s[1] \in S /\ Len(s) \in Nat \ {0}
  OBVIOUS
<1>2. SubSeq(s, 2, Len(s)) \in Seq(S) /\ Len(SubSeq(s, 2, Len(s))) = Len(s) - 1
  <2>1. 1 \in 0 .. Len(s) /\ 1 + 1 = 2
    BY <1>1
  <2>2. SubSeq(s, 1 + 1, Len(s)) \in Seq(S)
    BY <2>1, CutAndPut
  <2>3. Len(SubSeq(s, 2, Len(s))) = Len(s) - 1
    <3> DEFINE n == Len(s)
    <3>1. n \in Nat \ {0}
      BY <1>1
    <3> HIDE DEF n
    <3>2. Len(SubSeq(s, 2, n)) = IF 2 <= n THEN n - 2 + 1 ELSE 0
      BY <3>1
    <3>3. Len(SubSeq(s, 2, n)) = n - 1
      BY <3>1, <3>2
    <3>4. QED BY <3>3 DEF n
  <2>4. QED BY <2>1, <2>2, <2>3
<1>3. \A i \in 1 .. Len(s) - 1 : SubSeq(s, 2, Len(s))[i] = s[i + 1]
  BY <1>1
<1>4. QED BY <1>1, <1>2, <1>3

LEMMA StampHolds == ASSUME LogInv, NEW target \in BOOLEAN, Stamp(target) PROVE LogInv'
<1>1. /\ Len(made) < MaxEntry /\ made' = Append(made, target)
      /\ sending' = sending \cup {Len(made) + 1}
      /\ queue' = queue /\ buffer' = buffer /\ files' = files /\ fails' = fails
      /\ UNCHANGED aiVars /\ crashes' = crashes /\ written' = written /\ secured' = secured
  BY DEF Stamp, logVars
<1>2. EntriesOK /\ FilesOK /\ AiOK /\ DiskInv /\ WholeInv /\ AiInv
      /\ fails \in Nat /\ crashes \in Nat
  BY DEF LogInv, LogTypeOK
<1>3. made \in Seq(BOOLEAN) /\ Len(made) \in Nat /\ queue \in Seq(1 .. Len(made))
  BY <1>2 DEF EntriesOK
<1>4. made' \in Seq(BOOLEAN) /\ Len(made') = Len(made) + 1 /\ MaxEntry \in Nat
  BY <1>1, <1>3, EvidenceAssumption
<1>5. queue \in Seq(1 .. Len(made) + 1)
  BY <1>3
<1>6. EntriesOK'
  <2>1. 1 .. Len(made) \subseteq 1 .. Len(made) + 1 /\ Len(made) + 1 \in 1 .. Len(made) + 1
        /\ Len(made) + 1 <= MaxEntry
    BY <1>1, <1>3, <1>4
  <2>2. sending' \subseteq 1 .. Len(made) + 1 /\ written \subseteq 1 .. Len(made) + 1
    BY <1>1, <1>2, <2>1 DEF EntriesOK
  <2>3. QED BY <1>1, <1>2, <1>4, <1>5, <2>1, <2>2 DEF EntriesOK
<1>7. QED BY <1>1, <1>2, <1>6, FilesUntouched, AiUntouched DEF LogInv, LogTypeOK

LEMMA SendEntryHolds == ASSUME LogInv, NEW e \in Id, SendEntry(e) PROVE LogInv'
<1>1. /\ e \in sending /\ Len(queue) < QueueRoom /\ sending' = sending \ {e}
      /\ queue' = Append(queue, e)
      /\ made' = made /\ buffer' = buffer /\ files' = files /\ fails' = fails
      /\ UNCHANGED aiVars /\ crashes' = crashes /\ written' = written /\ secured' = secured
  BY DEF SendEntry, logVars
<1>2. EntriesOK /\ FilesOK /\ AiOK /\ DiskInv /\ WholeInv /\ AiInv
      /\ fails \in Nat /\ crashes \in Nat
  BY DEF LogInv, LogTypeOK
<1>3. e \in 1 .. Len(made) /\ queue \in Seq(1 .. Len(made))
  BY <1>1, <1>2 DEF EntriesOK
<1>4. queue' \in Seq(1 .. Len(made)) /\ Len(queue') <= QueueRoom
  BY <1>1, <1>3, EvidenceAssumption
<1>5. EntriesOK'
  BY <1>1, <1>2, <1>4 DEF EntriesOK
<1>6. QED BY <1>1, <1>2, <1>5, FilesUntouched, AiUntouched DEF LogInv, LogTypeOK

\* The entry taken from the queue.
LEMMA TakenEntry ==
    ASSUME EntriesOK, queue # <<>>, queue' = SubSeq(queue, 2, Len(queue)),
           made' = made, sending' = sending,
           written' \in {written, written \cup {queue[1]}}, secured' = secured
    PROVE  EntriesOK' /\ queue[1] \in 1 .. Len(made) /\ queue[1] \in Id
<1>1. /\ made \in Seq(BOOLEAN) /\ Len(made) \in Nat /\ Len(made) <= MaxEntry
      /\ queue \in Seq(1 .. Len(made)) /\ Len(queue) <= QueueRoom /\ written \subseteq 1 .. Len(made)
  BY DEF EntriesOK
<1>2. /\ queue[1] \in 1 .. Len(made) /\ queue' \in Seq(1 .. Len(made))
      /\ Len(queue') = Len(queue) - 1 /\ Len(queue) \in Nat
  BY <1>1, TakenFirst
<1>3. queue[1] \in Id /\ Len(queue') <= QueueRoom
  BY <1>1, <1>2, EvidenceAssumption DEF Id
<1>4. EntriesOK'
  BY <1>1, <1>2, <1>3 DEF EntriesOK
<1>5. QED BY <1>2, <1>3, <1>4

\* What goes to the collector is of the entry.
LEMMA CollectHolds ==
    ASSUME AiOK, AiInv, NEW e \in Id, Collect(e), e \in written', written \subseteq written',
           batch' = batch, analyses' = analyses
    PROVE  AiOK' /\ AiInv'
<1> DEFINE event == [id |-> e, subject |-> SubjectOf[e]]
<1>1. events \in Seq(AiEvent) /\ Len(events) <= EventRoom /\ OfLog(events) /\ EventRoom \in Nat
  BY EvidenceAssumption DEF AiOK, AiInv
<1>2. event \in AiEvent /\ event.id = e
  BY DEF AiEvent
<1>3. events' = events \/ (events' = Append(events, event) /\ Len(events) < EventRoom)
  BY DEF Collect, TrySend, RoomForEvent
<1> HIDE DEF event, AiEvent
<1>4. /\ events' \in Seq(AiEvent) /\ Len(events') <= EventRoom
      /\ \A i \in DOMAIN events' : events'[i] = event \/ (i \in DOMAIN events /\ events'[i] = events[i])
  BY <1>1, <1>2, <1>3
<1>5. \A i \in DOMAIN events' : events'[i].id \in written'
  BY <1>1, <1>2, <1>4 DEF OfLog
<1>6. QED BY <1>4, <1>5 DEF AiOK, AiInv, OfLog

\* The pieces of an entry, behind those of the buffer.
LEMMA TwoPieces ==
    ASSUME NEW s \in Seq(Piece), NEW e \in Id
    PROVE  /\ s \o <<Opening(e), Ending(e)>> \in Seq(Piece)
           /\ Len(s \o <<Opening(e), Ending(e)>>) = Len(s) + 2
           /\ Begins(s, s \o <<Opening(e), Ending(e)>>)
           /\ Append(s, Opening(e)) \in Seq(Piece)
           /\ Len(Append(s, Opening(e))) = Len(s) + 1
           /\ Begins(s, Append(s, Opening(e)))
<1>1. Opening(e) \in Piece /\ Ending(e) \in Piece
  BY DEF Piece, Opening, Ending
<1> HIDE DEF Piece
<1>2. <<Opening(e), Ending(e)>> \in Seq(Piece) /\ Len(<<Opening(e), Ending(e)>>) = 2
  BY <1>1
<1> DEFINE two == <<Opening(e), Ending(e)>>
<1>3. two \in Seq(Piece) /\ Len(two) = 2
  BY <1>2
<1> HIDE DEF two
<1>4. s \o two \in Seq(Piece) /\ Len(s \o two) = Len(s) + Len(two) /\ Begins(s, s \o two)
  BY <1>3, TwoParts, BeginsAppended
<1>5. Len(s \o two) = Len(s) + 2
  BY <1>3, <1>4
<1>6. Append(s, Opening(e)) \in Seq(Piece) /\ Len(Append(s, Opening(e))) = Len(s) + 1
      /\ Begins(s, Append(s, Opening(e)))
  BY <1>1 DEF Begins
<1>7. QED BY <1>4, <1>5, <1>6 DEF two

LEMMA HeldBehind ==
    ASSUME NEW d \in Seq(Piece), NEW s \in Seq(Piece), NEW e \in Id
    PROVE  Stands(d \o (s \o <<Opening(e), Ending(e)>>), e)
<1> DEFINE two == <<Opening(e), Ending(e)>>
           k == Len(d)
           l == Len(s)
           t == s \o two
<1>1. Opening(e) \in Piece /\ Ending(e) \in Piece
  BY DEF Piece, Opening, Ending
<1> HIDE DEF Piece
<1>2. two \in Seq(Piece) /\ Len(two) = 2 /\ two[1] = Opening(e) /\ two[2] = Ending(e)
  BY <1>1
<1> HIDE DEF two
<1>3. t \in Seq(Piece) /\ Len(t) = l + 2 /\ l \in Nat
      /\ \A i \in l + 1 .. l + 2 : t[i] = two[i - l]
  <2>1. two \in Seq(Piece) /\ Len(two) = 2
    BY <1>2
  <2>2. /\ s \o two \in Seq(Piece) /\ Len(s \o two) = Len(s) + Len(two) /\ Len(s) \in Nat
        /\ \A i \in Len(s) + 1 .. Len(s) + Len(two) : (s \o two)[i] = two[i - Len(s)]
    BY <2>1, TwoParts
  <2>3. QED BY <2>1, <2>2
<1>4. t[l + 1] = Opening(e) /\ t[l + 2] = Ending(e)
  BY <1>2, <1>3
<1> HIDE DEF t, l
<1>5. Len(d \o t) = k + Len(t) /\ k \in Nat
      /\ \A i \in k + 1 .. k + Len(t) : (d \o t)[i] = t[i - k]
  BY <1>3, TwoParts
<1> HIDE DEF k
<1>6. (d \o t)[k + l + 1] = Opening(e) /\ (d \o t)[k + l + 2] = Ending(e)
  <2>1. (k + l + 1) - k = l + 1 /\ (k + l + 2) - k = l + 2
    BY <1>3, <1>5
  <2>2. k + l + 1 \in k + 1 .. k + Len(t) /\ k + l + 2 \in k + 1 .. k + Len(t)
    BY <1>3, <1>5
  <2>3. QED BY <1>4, <1>5, <2>1, <2>2
<1>7. k + l + 1 \in 1 .. Len(d \o t) - 1 /\ (k + l + 1) + 1 = k + l + 2
  BY <1>3, <1>5
<1>8. Stands(d \o t, e)
  BY <1>6, <1>7 DEF Stands, StandsAt
<1>9. QED BY <1>8 DEF t, two

LEMMA WriteLogHolds == ASSUME LogInv, WriteLog PROVE LogInv'
<1> DEFINE e == queue[1]
           pieces == buffer \o <<Opening(e), Ending(e)>>
<1>1. /\ queue # <<>> /\ queue' = SubSeq(queue, 2, Len(queue))
      /\ \E n \in {0, Len(pieces) - 1} : Put(pieces, n, FALSE)
      /\ written' = written \cup {e} /\ Collect(e)
      /\ made' = made /\ sending' = sending /\ fails' = fails /\ batch' = batch /\ analyses' = analyses
      /\ crashes' = crashes /\ secured' = secured
  BY DEF WriteLog
<1>2. EntriesOK /\ FilesOK /\ AiOK /\ DiskInv /\ WholeInv /\ AiInv
      /\ fails \in Nat /\ crashes \in Nat
  BY DEF LogInv, LogTypeOK
<1>3. EntriesOK' /\ e \in Id
  BY <1>1, <1>2, TakenEntry
<1>4. AiOK' /\ AiInv'
  BY <1>1, <1>2, <1>3, CollectHolds
<1> HIDE DEF e
<1>5. buffer \in Seq(Piece) /\ Current.data \in Seq(Piece)
  BY <1>2, FilesTyped DEF FilesOK, LogFile
<1>6. pieces \in Seq(Piece) /\ Begins(buffer, pieces) /\ Len(pieces) = Len(buffer) + 2
      /\ Len(buffer) \in Nat
  BY <1>3, <1>5, TwoPieces
<1>7. Stands(Current.data \o pieces, e)
  BY <1>3, <1>5, HeldBehind
<1> HIDE DEF pieces
<1>8. PICK n \in {0, Len(pieces) - 1} : Put(pieces, n, FALSE)
  BY <1>1
<1>9. n \in 0 .. Len(pieces)
  BY <1>6
<1>10. FilesOK' /\ DiskInv'
  BY <1>1, <1>2, <1>6, <1>8, <1>9, PutKeeps, PutDisk
<1>11. /\ DOMAIN files' = DOMAIN files
       /\ \A f \in DOMAIN files : Contents(f)' \in Seq(Piece) /\ Begins(Contents(f), Contents(f)')
       /\ \E f \in DOMAIN files : Stands(Contents(f)', e)
  BY <1>2, <1>6, <1>7, <1>8, <1>9, PutWhole
<1>12. WholeInv'
  <2> SUFFICES ASSUME crashes' = 0, NEW x \in written'
               PROVE  \E f \in DOMAIN files' : Stands(Contents(f)', x)
    BY DEF WholeInv
  <2>1. CASE x = e
    BY <1>11, <2>1
  <2>2. CASE x \in written
    <3>1. PICK f \in DOMAIN files : Stands(Contents(f), x)
      BY <1>1, <1>2, <2>2 DEF WholeInv
    <3>2. Contents(f) \in Seq(Piece)
      BY <1>2, FilesTyped
    <3>3. Stands(Contents(f)', x)
      BY <1>11, <3>1, <3>2, StandsOn
    <3>4. QED BY <1>11, <3>3
  <2>3. QED BY <1>1, <2>1, <2>2
<1>13. QED BY <1>1, <1>2, <1>3, <1>4, <1>10, <1>12 DEF LogInv, LogTypeOK

LEMMA WriteLogFailsHolds == ASSUME LogInv, WriteLogFails PROVE LogInv'
<1> DEFINE e == queue[1]
<1>1. /\ queue # <<>> /\ queue' = SubSeq(queue, 2, Len(queue)) /\ fails' = fails + 1
      /\ \E pieces \in {buffer, Append(buffer, Opening(e))} :
             \E n \in {0, Len(buffer)} : Put(pieces, n, FALSE)
      /\ UNCHANGED aiVars /\ made' = made /\ sending' = sending
      /\ crashes' = crashes /\ written' = written /\ secured' = secured
  BY DEF WriteLogFails, Fails, Lost, aiVars
<1>2. EntriesOK /\ FilesOK /\ AiOK /\ DiskInv /\ WholeInv /\ AiInv
      /\ fails \in Nat /\ crashes \in Nat
  BY DEF LogInv, LogTypeOK
<1>3. EntriesOK' /\ e \in Id
  BY <1>1, <1>2, TakenEntry
<1> HIDE DEF e
<1>4. buffer \in Seq(Piece)
  BY <1>2 DEF FilesOK
<1>5. PICK pieces \in {buffer, Append(buffer, Opening(e))}, n \in {0, Len(buffer)} :
          Put(pieces, n, FALSE)
  BY <1>1
<1>6. pieces \in Seq(Piece) /\ Begins(buffer, pieces) /\ n \in 0 .. Len(pieces)
  <2>1. Append(buffer, Opening(e)) \in Seq(Piece) /\ Len(Append(buffer, Opening(e))) = Len(buffer) + 1
        /\ Begins(buffer, Append(buffer, Opening(e))) /\ Begins(buffer, buffer)
    BY <1>3, <1>4, TwoPieces, BeginsAppended
  <2>2. Len(buffer) \in Nat
    BY <1>4
  <2>3. CASE pieces = buffer
    BY <1>4, <1>5, <2>1, <2>2, <2>3
  <2>4. CASE pieces = Append(buffer, Opening(e))
    <3> DEFINE longer == Append(buffer, Opening(e))
    <3>1. longer \in Seq(Piece) /\ Len(longer) = Len(buffer) + 1 /\ Begins(buffer, longer)
          /\ pieces = longer
      BY <2>1, <2>4
    <3> HIDE DEF longer, Piece
    <3>2. QED BY <1>5, <2>2, <3>1
  <2>5. QED BY <1>5, <2>3, <2>4
<1>7. FilesOK' /\ DiskInv'
  BY <1>1, <1>2, <1>5, <1>6, PutKeeps, PutDisk
<1>8. /\ DOMAIN files' = DOMAIN files
      /\ \A f \in DOMAIN files : Contents(f)' \in Seq(Piece) /\ Begins(Contents(f), Contents(f)')
  BY <1>2, <1>5, <1>6, PutWhole
<1>9. WholeInv'
  BY <1>1, <1>2, <1>8, FilesTyped, WholeKept
<1>10. fails' \in Nat
  BY <1>1, <1>2
<1>11. QED BY <1>1, <1>2, <1>3, <1>7, <1>9, <1>10, AiUntouched DEF LogInv, LogTypeOK

\* Flushing loses nothing that was written.
LEMMA FlushKeeps ==
    ASSUME FilesOK, WholeInv, NEW n \in 0 .. Len(buffer), NEW sync \in BOOLEAN,
           Put(buffer, n, sync), crashes' = crashes, written' = written
    PROVE  FilesOK' /\ WholeInv'
<1>1. buffer \in Seq(Piece)
  BY DEF FilesOK
<1>2. Begins(buffer, buffer)
  BY <1>1, BeginsAppended
<1>3. FilesOK'
  BY <1>1, PutKeeps
<1>4. /\ DOMAIN files' = DOMAIN files
      /\ \A f \in DOMAIN files : Contents(f)' \in Seq(Piece) /\ Begins(Contents(f), Contents(f)')
  BY <1>1, <1>2, PutWhole
<1>5. QED BY <1>3, <1>4, FilesTyped, WholeKept

LEMMA ForceFlushHolds == ASSUME LogInv, ForceFlush PROVE LogInv'
<1>1. /\ Put(buffer, Len(buffer), TRUE)
      /\ secured' = secured \cup {e \in written : Readable(Current.data \o buffer, e)}
      /\ made' = made /\ sending' = sending /\ queue' = queue /\ fails' = fails
      /\ UNCHANGED aiVars /\ crashes' = crashes /\ written' = written
  BY DEF ForceFlush, FlushAndSync
<1>2. EntriesOK /\ FilesOK /\ AiOK /\ DiskInv /\ WholeInv /\ AiInv
      /\ fails \in Nat /\ crashes \in Nat
  BY DEF LogInv, LogTypeOK
<1>3. EntriesOK'
  BY <1>1, <1>2 DEF EntriesOK
<1>4. buffer \in Seq(Piece) /\ Len(buffer) \in 0 .. Len(buffer)
  BY <1>2 DEF FilesOK
<1>5. FilesOK' /\ WholeInv'
  BY <1>1, <1>2, <1>4, FlushKeeps
<1>6. SubSeq(buffer, 1, Len(buffer)) = buffer
  <2> HIDE DEF Piece
  <2>1. QED BY <1>4
<1>7. /\ Len(files') = Len(files) /\ files' \in Seq(LogFile)
      /\ \A f \in DOMAIN files : OnDisk(f)' \in Seq(Piece) /\ Begins(OnDisk(f), OnDisk(f)')
      /\ \E f \in DOMAIN files : OnDisk(f)' = Current.data \o buffer
  BY <1>1, <1>2, <1>4, <1>6, PutKeeps
<1>8. DOMAIN files' = DOMAIN files
  <2> HIDE DEF LogFile
  <2>1. QED BY <1>2, <1>7, FilesTyped
<1>9. DiskInv'
  <2> SUFFICES ASSUME NEW e \in secured' PROVE \E f \in DOMAIN files' : Readable(OnDisk(f)', e)
    BY DEF DiskInv
  <2>1. CASE e \in secured
    <3>1. PICK f \in DOMAIN files : Readable(OnDisk(f), e)
      BY <1>2, <2>1 DEF DiskInv
    <3>2. OnDisk(f) \in Seq(Piece)
      BY <1>2, FilesTyped
    <3>3. Readable(OnDisk(f)', e)
      BY <1>7, <3>1, <3>2, ReadableOn
    <3>4. QED BY <1>8, <3>3
  <2>2. CASE Readable(Current.data \o buffer, e)
    BY <1>7, <1>8, <2>2
  <2>3. QED BY <1>1, <2>1, <2>2
<1>10. QED BY <1>1, <1>2, <1>3, <1>5, <1>9, AiUntouched DEF LogInv, LogTypeOK

LEMMA ForceFlushFailsHolds == ASSUME LogInv, ForceFlushFails PROVE LogInv'
<1>1. /\ fails' = fails + 1
      /\ \E n \in 0 .. Len(buffer) : Put(buffer, n, FALSE)
      /\ made' = made /\ sending' = sending /\ queue' = queue
      /\ UNCHANGED aiVars /\ crashes' = crashes /\ written' = written /\ secured' = secured
  BY DEF ForceFlushFails, Fails
<1>2. EntriesOK /\ FilesOK /\ AiOK /\ DiskInv /\ WholeInv /\ AiInv
      /\ fails \in Nat /\ crashes \in Nat
  BY DEF LogInv, LogTypeOK
<1>3. EntriesOK' /\ fails' \in Nat
  BY <1>1, <1>2 DEF EntriesOK
<1>4. FilesOK' /\ WholeInv'
  BY <1>1, <1>2, FlushKeeps
<1>5. DiskInv'
  <2>1. buffer \in Seq(Piece)
    BY <1>2 DEF FilesOK
  <2>2. QED BY <1>1, <1>2, <2>1, PutDisk
<1>6. QED BY <1>1, <1>2, <1>3, <1>4, <1>5, AiUntouched DEF LogInv, LogTypeOK

\* Files keep what they have, and what the writer had for them.
LEMMA ReopenKeeps ==
    ASSUME FilesOK, ReopenLog
    PROVE  /\ DOMAIN files' = DOMAIN files \cup {Len(files) + 1}
           /\ \A f \in DOMAIN files' :
                  Contents(f)' = IF f = Len(files) + 1 THEN <<>> ELSE Contents(f)
<1> DEFINE m == Len(files)
           empty == [data |-> <<>>, synced |-> 0]
           old == [Current EXCEPT !.data = @ \o buffer]
           firsts == [files EXCEPT ![m] = old]
<1>1. files' = Append(firsts, empty) /\ buffer' = <<>>
  BY DEF ReopenLog, Flushed
<1>2. /\ m \in Nat \ {0} /\ DOMAIN files = 1 .. m /\ m \in DOMAIN files /\ Current \in LogFile
      /\ Contents(m) = Current.data \o buffer
      /\ \A f \in DOMAIN files : files[f].data \in Seq(Piece)
  BY FilesTyped
<1>3. old.data = Current.data \o buffer /\ old.data \in Seq(Piece)
  <2>1. Current.data \in Seq(Piece) /\ buffer \in Seq(Piece)
    BY <1>2 DEF LogFile, FilesOK
  <2>2. old.data = Current.data \o buffer
    BY <1>2 DEF LogFile
  <2>3. QED BY <2>1, <2>2, TwoParts
<1> HIDE DEF old, empty
<1>4. /\ firsts = [f \in 1 .. m |-> IF f = m THEN old ELSE files[f]]
      /\ DOMAIN firsts = 1 .. m
  BY <1>2
<1> HIDE DEF firsts, m
<1>5. firsts \in Seq({firsts[f] : f \in 1 .. m}) /\ Len(firsts) = m
  BY <1>2, <1>4
<1>6. /\ DOMAIN files' = 1 .. m + 1 /\ Len(files') = m + 1 /\ files'[m + 1] = empty
      /\ \A f \in 1 .. m : files'[f] = firsts[f]
  BY <1>1, <1>2, <1>5
<1>7. ASSUME NEW f \in DOMAIN files', f = m + 1 PROVE Contents(f)' = <<>>
  <2>1. files'[f].data = <<>>
    BY <1>6, <1>7 DEF empty
  <2>2. Contents(f)' = files'[f].data \o buffer'
    BY <1>6, <1>7 DEF Contents
  <2>3. QED BY <1>1, <2>1, <2>2
<1>8. ASSUME NEW f \in DOMAIN files PROVE Contents(f)' = Contents(f)
  <2>1. f \in 1 .. m /\ f # m + 1
    BY <1>2
  <2>2. Contents(f)' = files'[f].data \o <<>>
    BY <1>6, <2>1 DEF Contents
  <2>3. CASE f = m
    <3>1. files'[f].data = Contents(m) /\ Contents(m) \in Seq(Piece)
      BY <1>2, <1>3, <1>4, <1>6, <2>1, <2>3
    <3> HIDE DEF Piece
    <3>2. QED BY <2>2, <2>3, <3>1
  <2>4. CASE f # m
    <3>1. files'[f] = files[f] /\ Contents(f) = files[f].data \o <<>>
      BY <1>4, <1>6, <2>1, <2>4 DEF Contents, m
    <3>2. QED BY <2>2, <3>1
  <2>5. QED BY <2>3, <2>4
<1>9. DOMAIN files' = DOMAIN files \cup {m + 1}
  BY <1>2, <1>6
<1>10. QED BY <1>7, <1>8, <1>9 DEF m

LEMMA ReopenLogHolds == ASSUME LogInv, ReopenLog PROVE LogInv'
<1> DEFINE m == Len(files)
           empty == [data |-> <<>>, synced |-> 0]
           old == [Current EXCEPT !.data = @ \o buffer]
<1>1. /\ m < MaxFile /\ files' = Append([files EXCEPT ![m] = old], empty) /\ buffer' = <<>>
      /\ made' = made /\ sending' = sending /\ queue' = queue /\ fails' = fails
      /\ UNCHANGED aiVars /\ crashes' = crashes /\ written' = written /\ secured' = secured
  BY DEF ReopenLog, Flushed
<1>2. EntriesOK /\ FilesOK /\ AiOK /\ DiskInv /\ WholeInv /\ AiInv
      /\ fails \in Nat /\ crashes \in Nat
  BY DEF LogInv, LogTypeOK
<1>3. EntriesOK'
  BY <1>1, <1>2 DEF EntriesOK
<1>4. /\ m \in Nat \ {0} /\ DOMAIN files = 1 .. m /\ m \in DOMAIN files /\ Current = files[m]
      /\ Current \in LogFile /\ Current.synced \in 0 .. Len(Current.data) /\ Current.data \in Seq(Piece)
      /\ Contents(m) = Current.data \o buffer
      /\ \A f \in DOMAIN files : /\ files[f] \in LogFile /\ files[f].data \in Seq(Piece)
                                 /\ files[f].synced \in 0 .. Len(files[f].data)
                                 /\ Contents(f) \in Seq(Piece) /\ OnDisk(f) \in Seq(Piece)
      /\ buffer \in Seq(Piece) /\ files \in Seq(LogFile) /\ MaxFile \in Nat
  BY <1>2, FilesTyped, EvidenceAssumption DEF Current, FilesOK
<1> DEFINE d == Current.data
<1>5. /\ d \o buffer \in Seq(Piece) /\ Begins(d, d \o buffer)
  BY <1>4, BeginsAppended
<1>6. old \in LogFile /\ old.data = d \o buffer /\ old.synced = Current.synced
      /\ empty \in LogFile /\ empty.data = <<>> /\ empty.synced = 0
  <2>1. <<>> \in Seq(Piece)
    OBVIOUS
  <2>2. QED BY <1>4, <1>5, <2>1 DEF LogFile
<1> HIDE DEF old, empty, m
<1>7. /\ files' \in Seq(LogFile) /\ Len(files') = m + 1 /\ DOMAIN files' = 1 .. m + 1
      /\ files'[m] = old /\ files'[m + 1] = empty
      /\ \A f \in 1 .. m : f # m => files'[f] = files[f]
  <2> HIDE DEF LogFile
  <2> DEFINE firsts == [files EXCEPT ![m] = old]
  <2>1. files \in [1 .. m -> LogFile] /\ m \in 1 .. m
    BY <1>4
  <2>2. firsts \in [1 .. m -> LogFile]
    BY <1>6, <2>1
  <2>3. firsts \in Seq(LogFile) /\ Len(firsts) = m
    BY <1>4, <2>2
  <2>4. firsts[m] = old /\ \A f \in 1 .. m : f # m => firsts[f] = files[f]
    BY <2>1
  <2> HIDE DEF firsts
  <2>5. files' = Append(firsts, empty)
    BY <1>1 DEF firsts
  <2>6. QED BY <1>4, <1>6, <2>3, <2>4, <2>5
<1>8. FilesOK'
  <2>1. \A f \in DOMAIN files' : files'[f].synced <= Len(files'[f].data)
    <3> TAKE f \in DOMAIN files'
    <3>1. CASE f = m
      <4>1. Current.synced <= Len(d) /\ Len(d) <= Len(d \o buffer)
        BY <1>4, <1>5 DEF Begins
      <4>2. Current.synced \in Nat /\ Len(d) \in Nat /\ Len(d \o buffer) \in Nat
        BY <1>4, <1>5
      <4>3. files'[f].synced = Current.synced /\ files'[f].data = d \o buffer
        BY <1>6, <1>7, <3>1
      <4> HIDE DEF d
      <4>4. QED BY <4>1, <4>2, <4>3
    <3>2. CASE f \in 1 .. m /\ f # m
      <4>1. files[f].synced <= Len(files[f].data)
        BY <1>4, <3>2
      <4>2. QED BY <1>7, <3>2, <4>1
    <3>3. CASE f = m + 1
      BY <1>6, <1>7, <3>3
    <3>4. QED BY <1>4, <1>7, <3>1, <3>2, <3>3
  <2>2. m + 1 \in 1 .. MaxFile
    BY <1>1, <1>4
  <2>3. buffer' \in Seq(Piece)
    BY <1>1
  <2>4. QED BY <1>7, <2>1, <2>2, <2>3 DEF FilesOK
<1>9. \A f \in DOMAIN files : f \in DOMAIN files'
  BY <1>4, <1>7
<1>10. ASSUME NEW f \in DOMAIN files
       PROVE  OnDisk(f)' \in Seq(Piece) /\ Begins(OnDisk(f), OnDisk(f)')
  <2>1. CASE f = m
    <3>1. OnDisk(f) = SubSeq(d, 1, Current.synced) /\ OnDisk(f)' = SubSeq(d \o buffer, 1, Current.synced)
      BY <1>4, <1>6, <1>7, <2>1 DEF OnDisk
    <3>2. Current.synced \in 0 .. Len(d) /\ Current.synced \in 0 .. Len(d \o buffer)
          /\ \A i \in 1 .. Current.synced : (d \o buffer)[i] = d[i]
      BY <1>4, <1>5 DEF Begins
    <3> HIDE DEF d
    <3>3. QED BY <1>4, <1>5, <3>1, <3>2, BeginsCut DEF Begins, d
  <2>2. CASE f # m
    <3>1. OnDisk(f)' = OnDisk(f) /\ OnDisk(f) \in Seq(Piece)
      BY <1>4, <1>7, <2>2 DEF OnDisk
    <3>2. QED BY <3>1, BeginsAppended
  <2>3. QED BY <2>1, <2>2
<1>11. ASSUME NEW f \in DOMAIN files
       PROVE  Contents(f)' \in Seq(Piece) /\ Begins(Contents(f), Contents(f)')
  <2>1. f # Len(files) + 1 /\ f \in DOMAIN files'
    BY <1>4, <1>9 DEF m
  <2>2. Contents(f)' = Contents(f) /\ Contents(f) \in Seq(Piece)
    BY <1>2, <1>4, <2>1, ReopenKeeps
  <2>3. QED BY <2>2, BeginsAppended
<1>12. DiskInv' /\ WholeInv'
  BY <1>1, <1>2, <1>4, <1>9, <1>10, <1>11, DiskKept, WholeKept
<1>13. QED BY <1>1, <1>2, <1>3, <1>8, <1>12, AiUntouched DEF LogInv, LogTypeOK

\* The channels of the analysis alone.
LEMMA AiOnlyHolds ==
    ASSUME LogInv, AiOnly, AiOK', AiInv'
    PROVE  LogInv'
<1>1. /\ made' = made /\ sending' = sending /\ queue' = queue /\ buffer' = buffer /\ files' = files
      /\ fails' = fails /\ crashes' = crashes /\ written' = written /\ secured' = secured
  BY DEF AiOnly, logVars
<1>2. EntriesOK /\ FilesOK /\ DiskInv /\ WholeInv /\ fails \in Nat /\ crashes \in Nat
  BY DEF LogInv, LogTypeOK
<1>3. EntriesOK'
  BY <1>1, <1>2 DEF EntriesOK
<1>4. QED BY <1>1, <1>2, <1>3, FilesUntouched DEF LogInv, LogTypeOK

\* A batch that is submitted, or dropped.
LEMMA SubmitHolds ==
    ASSUME NEW b \in Seq(AiEvent), OfLog(b), Submit(b), AiOK, AiInv, written' = written
    PROVE  /\ batch' \in Seq(AiEvent) /\ Len(batch') < MaxEvents
           /\ analyses' \in Seq(Seq(AiEvent)) /\ Len(analyses') <= AnalysisRoom
           /\ \A i \in DOMAIN analyses' : OfLog(analyses'[i])
<1>1. analyses \in Seq(Seq(AiEvent)) /\ Len(analyses) <= AnalysisRoom
      /\ \A i \in DOMAIN analyses : OfLog(analyses[i])
  BY DEF AiOK, AiInv
<1>2. batch' = <<>> /\ analyses' \in {analyses, Append(analyses, b)}
      /\ (analyses' # analyses => Len(analyses) < AnalysisRoom)
  BY DEF Submit
<1>3. AnalysisRoom \in Nat /\ MaxEvents \in Nat \ {0}
  BY EvidenceAssumption
<1> HIDE DEF AiEvent
<1>4. analyses' \in Seq(Seq(AiEvent)) /\ Len(analyses') <= AnalysisRoom
  BY <1>1, <1>2, <1>3
<1>5. \A i \in DOMAIN analyses' : analyses'[i] = b \/ (i \in DOMAIN analyses /\ analyses'[i] = analyses[i])
  <2>1. CASE analyses' = analyses
    BY <2>1
  <2>2. CASE analyses' = Append(analyses, b)
    <3>1. Len(analyses) \in Nat /\ DOMAIN analyses = 1 .. Len(analyses)
      BY <1>1
    <3>2. DOMAIN analyses' = 1 .. Len(analyses) + 1 /\ analyses'[Len(analyses) + 1] = b
          /\ \A i \in 1 .. Len(analyses) : analyses'[i] = analyses[i]
      BY <1>1, <2>2, <3>1
    <3>3. QED BY <3>1, <3>2
  <2>3. QED BY <1>2, <2>1, <2>2
<1>6. \A i \in DOMAIN analyses' : OfLog(analyses'[i])
  BY <1>1, <1>5
<1>7. QED BY <1>2, <1>3, <1>4, <1>6 DEF OfLog

LEMMA ReceiveHolds == ASSUME LogInv, Receive PROVE LogInv'
<1> DEFINE b == Append(batch, events[1])
<1>1. /\ events # <<>> /\ events' = SubSeq(events, 2, Len(events)) /\ AiOnly /\ written' = written
      /\ \/ Submit(b)
         \/ ~(Len(b) >= MaxEvents) /\ batch' = b /\ analyses' = analyses
  BY DEF Receive, AiOnly
<1>2. AiOK /\ AiInv
  BY DEF LogInv, LogTypeOK
<1>3. /\ events \in Seq(AiEvent) /\ Len(events) <= EventRoom /\ batch \in Seq(AiEvent)
      /\ analyses \in Seq(Seq(AiEvent)) /\ Len(analyses) <= AnalysisRoom
      /\ OfLog(events) /\ OfLog(batch) /\ \A i \in DOMAIN analyses : OfLog(analyses[i])
      /\ MaxEvents \in Nat /\ EventRoom \in Nat
  BY <1>2, EvidenceAssumption DEF AiOK, AiInv
<1> HIDE DEF AiEvent
<1>4. /\ events[1] \in AiEvent /\ Len(events) \in Nat \ {0}
      /\ events' \in Seq(AiEvent) /\ Len(events') = Len(events) - 1
      /\ \A i \in 1 .. Len(events) - 1 : events'[i] = events[i + 1]
  BY <1>1, <1>3, TakenFirst
<1>5. OfLog(events)'
  <2>1. \A i \in DOMAIN events' : i \in 1 .. Len(events) - 1 /\ i + 1 \in DOMAIN events
    BY <1>3, <1>4
  <2>2. QED BY <1>1, <1>3, <1>4, <2>1 DEF OfLog
<1>6. b \in Seq(AiEvent) /\ OfLog(b) /\ Len(b) \in Nat
  <2>1. b \in Seq(AiEvent) /\ 1 \in DOMAIN events /\ Len(b) \in Nat
        /\ \A i \in DOMAIN b : b[i] = events[1] \/ (i \in DOMAIN batch /\ b[i] = batch[i])
    BY <1>3, <1>4
  <2> HIDE DEF b
  <2>2. QED BY <1>3, <2>1 DEF OfLog
<1> HIDE DEF b
<1>7. /\ batch' \in Seq(AiEvent) /\ Len(batch') < MaxEvents /\ OfLog(batch)'
      /\ analyses' \in Seq(Seq(AiEvent)) /\ Len(analyses') <= AnalysisRoom
      /\ (\A i \in DOMAIN analyses : OfLog(analyses[i]))'
  <2>1. CASE Submit(b)
    <3>1. /\ batch' \in Seq(AiEvent) /\ Len(batch') < MaxEvents /\ batch' = <<>>
          /\ analyses' \in Seq(Seq(AiEvent)) /\ Len(analyses') <= AnalysisRoom
          /\ \A i \in DOMAIN analyses' : OfLog(analyses'[i])
      BY <1>1, <1>2, <1>6, <2>1, SubmitHolds DEF Submit
    <3>2. QED BY <1>1, <3>1 DEF OfLog
  <2>2. CASE ~(Len(b) >= MaxEvents) /\ batch' = b /\ analyses' = analyses
    BY <1>1, <1>3, <1>6, <2>2 DEF OfLog
  <2>3. QED BY <1>1, <2>1, <2>2
<1>8. AiOK' /\ AiInv'
  BY <1>3, <1>4, <1>5, <1>7 DEF AiOK, AiInv
<1>9. QED BY <1>1, <1>8, AiOnlyHolds

LEMMA WindowEndsHolds == ASSUME LogInv, WindowEnds PROVE LogInv'
<1>1. Submit(batch) /\ batch' = <<>> /\ AiOnly /\ written' = written /\ events' = events
  BY DEF WindowEnds, AiOnly, Submit
<1>2. AiOK /\ AiInv /\ batch \in Seq(AiEvent) /\ OfLog(batch)
  BY DEF LogInv, LogTypeOK, AiOK, AiInv
<1>3. /\ batch' \in Seq(AiEvent) /\ Len(batch') < MaxEvents
      /\ analyses' \in Seq(Seq(AiEvent)) /\ Len(analyses') <= AnalysisRoom
      /\ \A i \in DOMAIN analyses' : OfLog(analyses'[i])
  BY <1>1, <1>2, SubmitHolds
<1>4. AiOK' /\ AiInv'
  BY <1>1, <1>2, <1>3 DEF AiOK, AiInv, OfLog
<1>5. QED BY <1>1, <1>4, AiOnlyHolds

LEMMA TakeAnalysisHolds == ASSUME LogInv, TakeAnalysis PROVE LogInv'
<1>1. /\ analyses # <<>> /\ analyses' = SubSeq(analyses, 2, Len(analyses))
      /\ AiOnly /\ written' = written /\ events' = events /\ batch' = batch
  BY DEF TakeAnalysis, AiOnly
<1>2. AiOK /\ AiInv /\ analyses \in Seq(Seq(AiEvent)) /\ Len(analyses) <= AnalysisRoom
      /\ AnalysisRoom \in Nat
  BY EvidenceAssumption DEF LogInv, LogTypeOK, AiOK
<1>3. /\ Len(analyses) \in Nat \ {0}
      /\ analyses' \in Seq(Seq(AiEvent)) /\ Len(analyses') = Len(analyses) - 1
      /\ \A i \in 1 .. Len(analyses) - 1 : analyses'[i] = analyses[i + 1]
  BY <1>1, <1>2, TakenFirst
<1> HIDE DEF AiEvent
<1>4. \A i \in DOMAIN analyses' : i \in 1 .. Len(analyses) - 1 /\ i + 1 \in DOMAIN analyses
  BY <1>2, <1>3
<1>5. \A i \in DOMAIN analyses' : OfLog(analyses'[i])
  BY <1>2, <1>3, <1>4 DEF AiInv
<1>6. AiOK' /\ AiInv'
  BY <1>1, <1>2, <1>3, <1>5 DEF AiOK, AiInv, OfLog
<1>7. QED BY <1>1, <1>6, AiOnlyHolds

\* What the worker does with an analysis once it has it.
LEMMA WorkerHolds == ASSUME LogInv, Group \/ ProviderAnswers PROVE LogInv'
<1>1. /\ AiOnly /\ written' = written /\ events' = events /\ batch' = batch
      /\ analyses' = analyses
  BY DEF Group, ProviderAnswers, AiOnly
<1>2. AiOK' /\ AiInv'
  BY <1>1 DEF LogInv, LogTypeOK, AiOK, AiInv, OfLog
<1>3. QED BY <1>1, <1>2, AiOnlyHolds

LEMMA PowerFailsHolds == ASSUME LogInv, PowerFails PROVE LogInv'
<1>1. PICK kept \in [DOMAIN files -> 0 .. 2 * MaxEntry] :
          /\ \A f \in DOMAIN files : kept[f] \in files[f].synced .. Len(files[f].data)
          /\ files' = [f \in DOMAIN files |->
                           [data |-> SubSeq(files[f].data, 1, kept[f]), synced |-> kept[f]]]
  BY DEF PowerFails
<1>2. /\ crashes' = crashes + 1 /\ buffer' = <<>> /\ sending' = {} /\ queue' = <<>>
      /\ events' = <<>> /\ batch' = <<>> /\ analyses' = <<>>
      /\ made' = made /\ fails' = fails /\ written' = written /\ secured' = secured
  BY DEF PowerFails
<1>3. EntriesOK /\ FilesOK /\ DiskInv /\ fails \in Nat /\ crashes \in Nat
  BY DEF LogInv, LogTypeOK
<1>4. EntriesOK'
  BY <1>2, <1>3, EvidenceAssumption DEF EntriesOK
<1>5. AiOK' /\ AiInv'
  BY <1>2, EvidenceAssumption DEF AiOK, AiInv, OfLog
<1>6. /\ Len(files) \in Nat \ {0} /\ DOMAIN files = 1 .. Len(files)
      /\ \A f \in DOMAIN files : /\ files[f].data \in Seq(Piece)
                                 /\ files[f].synced \in 0 .. Len(files[f].data)
                                 /\ OnDisk(f) \in Seq(Piece)
  BY <1>3, FilesTyped
<1>7. ASSUME NEW f \in DOMAIN files
      PROVE  /\ files'[f] \in LogFile /\ files'[f].synced = Len(files'[f].data)
             /\ OnDisk(f)' \in Seq(Piece) /\ Begins(OnDisk(f), OnDisk(f)')
  <2> DEFINE s == files[f].data
             k == files[f].synced
             l == kept[f]
             cut == SubSeq(s, 1, l)
  <2>1. s \in Seq(Piece) /\ k \in 0 .. Len(s) /\ l \in 0 .. Len(s) /\ k <= l
    BY <1>1, <1>6
  <2>2. files'[f] = [data |-> cut, synced |-> l] /\ OnDisk(f) = SubSeq(s, 1, k)
        /\ OnDisk(f)' = SubSeq(cut, 1, l)
    BY <1>1 DEF OnDisk
  <2> HIDE DEF s, k, l
  <2>3. cut \in Seq(Piece) /\ Len(cut) = l /\ \A i \in 1 .. l : cut[i] = s[i]
    BY <2>1, BeginsCut
  <2>4. /\ SubSeq(s, 1, k) \in Seq(Piece) /\ Len(SubSeq(s, 1, k)) = k
        /\ \A i \in 1 .. k : SubSeq(s, 1, k)[i] = s[i]
    BY <2>1, BeginsCut
  <2> HIDE DEF cut
  <2>5. SubSeq(cut, 1, l) = cut
    <3> HIDE DEF Piece
    <3>1. QED BY <2>3
  <2>6. Begins(SubSeq(s, 1, k), cut)
    BY <2>1, <2>3, <2>4 DEF Begins
  <2>7. l \in Nat
    BY <2>1
  <2>8. files'[f] \in LogFile /\ files'[f].synced = Len(files'[f].data)
    BY <2>2, <2>3, <2>7 DEF LogFile
  <2>9. OnDisk(f)' = cut /\ OnDisk(f) = SubSeq(s, 1, k)
    BY <2>2, <2>5
  <2>10. QED BY <2>3, <2>6, <2>8, <2>9
<1>8. /\ files' \in Seq(LogFile) /\ Len(files') = Len(files) /\ DOMAIN files' = DOMAIN files
  <2>1. files' \in [1 .. Len(files) -> LogFile]
    BY <1>1, <1>6, <1>7
  <2> HIDE DEF LogFile
  <2>2. QED BY <1>6, <2>1
<1>9. FilesOK'
  <2>1. \A f \in DOMAIN files' : files'[f].synced <= Len(files'[f].data)
    <3> TAKE f \in DOMAIN files'
    <3>1. files'[f].synced = Len(files'[f].data) /\ files'[f].synced \in Nat
      BY <1>7, <1>8 DEF LogFile
    <3>2. QED BY <3>1
  <2>2. buffer' \in Seq(Piece) /\ Len(files) \in 1 .. MaxFile
    BY <1>2, <1>3 DEF FilesOK
  <2>3. QED BY <1>8, <2>1, <2>2 DEF FilesOK
<1>10. DiskInv'
  BY <1>2, <1>3, <1>6, <1>7, <1>8, DiskKept
<1>11. WholeInv'
  BY <1>2, <1>3 DEF WholeInv
<1>12. QED BY <1>2, <1>3, <1>4, <1>5, <1>9, <1>10, <1>11 DEF LogInv, LogTypeOK

LEMMA StepHolds == LogInv /\ [Next]_vars => LogInv'
<1> SUFFICES ASSUME LogInv, [Next]_vars PROVE LogInv'
  OBVIOUS
<1>1. CASE \E target \in BOOLEAN : Stamp(target)
  BY <1>1, StampHolds
<1>2. CASE \E e \in Id : SendEntry(e)
  BY <1>2, SendEntryHolds
<1>3. CASE WriteLog
  BY <1>3, WriteLogHolds
<1>4. CASE WriteLogFails
  BY <1>4, WriteLogFailsHolds
<1>5. CASE ForceFlush
  BY <1>5, ForceFlushHolds
<1>6. CASE ForceFlushFails
  BY <1>6, ForceFlushFailsHolds
<1>7. CASE ReopenLog
  BY <1>7, ReopenLogHolds
<1>8. CASE Receive
  BY <1>8, ReceiveHolds
<1>9. CASE WindowEnds
  BY <1>9, WindowEndsHolds
<1>10. CASE TakeAnalysis \/ Group \/ ProviderAnswers
  BY <1>10, TakeAnalysisHolds, WorkerHolds
<1>11. CASE PowerFails
  BY <1>11, PowerFailsHolds
<1>12. CASE UNCHANGED vars
  <2>1. /\ made' = made /\ sending' = sending /\ queue' = queue /\ buffer' = buffer /\ files' = files
        /\ fails' = fails /\ UNCHANGED aiVars /\ crashes' = crashes
        /\ written' = written /\ secured' = secured
    BY <1>12 DEF vars, logVars
  <2>2. EntriesOK /\ FilesOK /\ AiOK /\ DiskInv /\ WholeInv /\ AiInv
        /\ fails \in Nat /\ crashes \in Nat
    BY DEF LogInv, LogTypeOK
  <2>3. EntriesOK'
    BY <2>1, <2>2 DEF EntriesOK
  <2>4. QED BY <2>1, <2>2, <2>3, FilesUntouched, AiUntouched DEF LogInv, LogTypeOK
<1>13. QED
  BY <1>1, <1>2, <1>3, <1>4, <1>5, <1>6, <1>7, <1>8, <1>9, <1>10, <1>11, <1>12
     DEF Next

\* The log, the channels and what was synced, whatever fails.
THEOREM LogInvariance == Spec => []LogInv
BY LogInitHolds, StepHolds, PTL DEF Spec

-----------------------------------------------------------------------------
(* The analysis. *)

\* Events that a group shows the provider.
Shown(groups) == UNION {{groups[g][i].id : i \in DOMAIN groups[g]} : g \in DOMAIN groups}
\* The events of the groups follow one another in time.
Increasing(groups) ==
    \A g, h \in DOMAIN groups :
        \A i \in DOMAIN groups[g], j \in DOMAIN groups[h] :
            g < h \/ (g = h /\ i < j) => groups[g][i].id < groups[h][j].id

\* What is stored is of the events analysed, and these are of the log.
ResultInv ==
    /\ \A ids \in result.anomalies : ids # {} /\ ids \subseteq Shown(result.groups)
    /\ Shown(result.groups) \subseteq written
    /\ Increasing(result.groups)

\* What the worker makes of an analysis: groups of what comes before all that
\* is not grouped yet.
WorkInv ==
    /\ work.todo \subseteq AiEvent /\ work.groups \in Seq(Seq(AiEvent))
    /\ \A e \in work.todo : e.id \in written
    /\ Shown(work.groups) \subseteq written
    /\ Increasing(work.groups)
    /\ \A n \in Shown(work.groups), e \in work.todo : n < e.id
    /\ ResultInv

\* An event is told by its id, and the ids are in order.
LEMMA EventsTold ==
    \A d, e \in AiEvent : e.id \in Nat /\ (d.id = e.id => d = e)
BY EvidenceAssumption DEF AiEvent, Id

\* What is grouped next comes before the rest.
LEMMA EarliestIs ==
    ASSUME NEW todo \in SUBSET AiEvent, todo # {}
    PROVE  /\ Earliest(todo) \in todo
           /\ \A d \in todo \ {Earliest(todo)} : Earliest(todo).id < d.id
<1> DEFINE ids == {e.id : e \in todo}
           first == Earliest(todo)
<1>1. \A d, e \in todo : e.id \in Nat /\ (d.id = e.id => d = e)
  BY EventsTold
<1>2. ids \subseteq Nat /\ ids # {}
  BY <1>1
<1>3. PICK n \in ids : \A k \in ids : ~(<<k, n>> \in OpToRel(<, Nat))
  BY <1>2, NatLessThanWellFounded, WFMin
<1>4. \A k \in ids : ~(k < n)
  BY <1>2, <1>3 DEF OpToRel
<1>5. \E e \in todo : \A d \in todo : e.id <= d.id
  <2>1. PICK e \in todo : n = e.id
    BY <1>3
  <2>2. \A d \in todo : d.id \in ids /\ d.id \in Nat /\ e.id \in Nat
    BY <1>1
  <2> HIDE DEF ids
  <2>3. \A d \in todo : e.id <= d.id
    BY <1>4, <2>1, <2>2
  <2>4. QED BY <2>3
<1>6. first \in todo /\ \A d \in todo : first.id <= d.id
  BY <1>5 DEF Earliest
<1> HIDE DEF first
<1>7. \A d \in todo \ {first} : first.id < d.id
  BY <1>1, <1>6
<1>8. QED BY <1>6, <1>7 DEF first

\* Groups m are the given ones with e as the last event, at [g][i].
Behind(groups, m, e, g, i) ==
    /\ m[g][i] = e
    /\ \A h \in DOMAIN groups : \A j \in DOMAIN groups[h] :
           /\ h \in DOMAIN m /\ j \in DOMAIN m[h] /\ m[h][j] = groups[h][j]
           /\ h < g \/ (h = g /\ j < i)
    /\ \A h \in DOMAIN m : \A j \in DOMAIN m[h] :
           (h = g /\ j = i) \/ (h \in DOMAIN groups /\ j \in DOMAIN groups[h])

LEMMA MergedPlace ==
    ASSUME NEW groups \in Seq(Seq(AiEvent)), NEW e \in AiEvent
    PROVE  /\ Merged(groups, e) \in Seq(Seq(AiEvent))
           /\ \E g \in DOMAIN Merged(groups, e) : \E i \in DOMAIN Merged(groups, e)[g] :
                  Behind(groups, Merged(groups, e), e, g, i)
<1> HIDE DEF AiEvent
<1> DEFINE m == Merged(groups, e)
           n == Len(groups)
<1>1. n \in Nat /\ DOMAIN groups = 1 .. n
      /\ \A h \in 1 .. n : /\ groups[h] \in Seq(AiEvent) /\ Len(groups[h]) \in Nat
                           /\ DOMAIN groups[h] = 1 .. Len(groups[h])
  OBVIOUS
<1>2. \/ n # 0 /\ m = [groups EXCEPT ![n] = Append(groups[n], e)]
      \/ m = Append(groups, <<e>>)
  <2>1. groups # <<>> => n # 0
    OBVIOUS
  <2>2. QED BY <2>1 DEF Merged
<1> HIDE DEF m
<1>3. CASE n # 0 /\ m = [groups EXCEPT ![n] = Append(groups[n], e)]
  <2> DEFINE longer == Append(groups[n], e)
             i == Len(groups[n]) + 1
  <2>1. n \in 1 .. n /\ groups[n] \in Seq(AiEvent)
    BY <1>1, <1>3
  <2>2. /\ longer \in Seq(AiEvent) /\ DOMAIN longer = 1 .. i /\ longer[i] = e /\ i \in 1 .. i
        /\ \A j \in DOMAIN groups[n] : longer[j] = groups[n][j] /\ j \in 1 .. i /\ j < i
        /\ \A j \in 1 .. i : j = i \/ j \in DOMAIN groups[n]
    BY <2>1
  <2>3. /\ m \in [1 .. n -> Seq(AiEvent)] /\ DOMAIN m = 1 .. n /\ m[n] = longer
        /\ \A h \in 1 .. n : h # n => m[h] = groups[h]
    BY <1>1, <1>3, <2>1, <2>2
  <2> HIDE DEF longer, i
  <2>4. m \in Seq(Seq(AiEvent))
    <3> DEFINE S == Seq(AiEvent)
    <3> HIDE DEF S
    <3>1. m \in [1 .. n -> S] /\ n \in Nat
      BY <1>1, <2>3 DEF S
    <3> HIDE DEF n
    <3>2. m \in Seq(S)
      BY <3>1
    <3>3. QED BY <3>2 DEF S
  <2> HIDE DEF n
  <2>5. Behind(groups, m, e, n, i)
    <3>1. ASSUME NEW h \in DOMAIN groups, NEW j \in DOMAIN groups[h]
          PROVE  /\ h \in DOMAIN m /\ j \in DOMAIN m[h] /\ m[h][j] = groups[h][j]
                 /\ h < n \/ (h = n /\ j < i)
      <4>1. CASE h = n
        BY <1>1, <2>1, <2>2, <2>3, <4>1
      <4>2. CASE h # n
        BY <1>1, <2>1, <2>2, <2>3, <4>2
      <4>3. QED BY <4>1, <4>2
    <3>2. ASSUME NEW h \in DOMAIN m, NEW j \in DOMAIN m[h]
          PROVE  (h = n /\ j = i) \/ (h \in DOMAIN groups /\ j \in DOMAIN groups[h])
      BY <1>1, <2>1, <2>2, <2>3
    <3>3. QED BY <2>2, <2>3, <3>1, <3>2 DEF Behind
  <2>6. n \in DOMAIN m /\ i \in DOMAIN m[n]
    BY <2>1, <2>2, <2>3
  <2>7. QED BY <2>4, <2>5, <2>6 DEF m
<1>4. CASE m = Append(groups, <<e>>)
  <2> DEFINE one == <<e>>
             g == n + 1
  <2>1. one \in Seq(AiEvent) /\ DOMAIN one = {1} /\ one[1] = e
    OBVIOUS
  <2> HIDE DEF one
  <2>2. /\ m \in Seq(Seq(AiEvent)) /\ DOMAIN m = 1 .. g /\ m[g] = one
        /\ \A h \in 1 .. n : m[h] = groups[h]
    BY <1>1, <1>4, <2>1 DEF one
  <2> HIDE DEF n
  <2>3. g \in DOMAIN m /\ 1 \in DOMAIN m[g] /\ m[g][1] = e
    BY <1>1, <2>1, <2>2
  <2>4. \A h \in DOMAIN groups : \A j \in DOMAIN groups[h] :
            /\ h \in DOMAIN m /\ j \in DOMAIN m[h] /\ m[h][j] = groups[h][j]
            /\ h < g
    BY <1>1, <2>2
  <2>5. \A h \in DOMAIN m : \A j \in DOMAIN m[h] :
            (h = g /\ j = 1) \/ (h \in DOMAIN groups /\ j \in DOMAIN groups[h])
    BY <1>1, <2>1, <2>2
  <2> HIDE DEF g
  <2>6. Behind(groups, m, e, g, 1)
    BY <2>3, <2>4, <2>5 DEF Behind
  <2>7. QED BY <2>2, <2>3, <2>6 DEF m
<1>5. QED BY <1>2, <1>3, <1>4

LEMMA MergedIs ==
    ASSUME NEW groups \in Seq(Seq(AiEvent)), NEW e \in AiEvent,
           Increasing(groups), \A n \in Shown(groups) : n < e.id
    PROVE  /\ Merged(groups, e) \in Seq(Seq(AiEvent))
           /\ Shown(Merged(groups, e)) \subseteq Shown(groups) \cup {e.id}
           /\ Increasing(Merged(groups, e))
<1> DEFINE m == Merged(groups, e)
<1>1. m \in Seq(Seq(AiEvent))
  BY MergedPlace
<1>2. PICK g \in DOMAIN m : \E i \in DOMAIN m[g] : Behind(groups, m, e, g, i)
  BY MergedPlace
<1>3. PICK i \in DOMAIN m[g] : Behind(groups, m, e, g, i)
  BY <1>2
<1>4. /\ DOMAIN m \subseteq Nat
      /\ \A h \in DOMAIN m : DOMAIN m[h] \subseteq Nat
  <2> HIDE DEF m, AiEvent
  <2>1. QED BY <1>1
<1> HIDE DEF m
<1>5. Shown(m) \subseteq Shown(groups) \cup {e.id}
  <2> SUFFICES ASSUME NEW x \in Shown(m) PROVE x \in Shown(groups) \cup {e.id}
    OBVIOUS
  <2> PICK h \in DOMAIN m : x \in {m[h][j].id : j \in DOMAIN m[h]}
    BY DEF Shown
  <2> PICK j \in DOMAIN m[h] : x = m[h][j].id
    OBVIOUS
  <2>1. CASE h = g /\ j = i
    BY <1>3, <2>1 DEF Behind
  <2>2. CASE h \in DOMAIN groups /\ j \in DOMAIN groups[h]
    <3>1. m[h][j] = groups[h][j]
      BY <1>3, <2>2 DEF Behind
    <3>2. groups[h][j].id \in Shown(groups)
      BY <2>2 DEF Shown
    <3>3. QED BY <3>1, <3>2
  <2>3. QED BY <1>3, <2>1, <2>2 DEF Behind
<1>6. Increasing(m)
  <2> SUFFICES ASSUME NEW h \in DOMAIN m, NEW k \in DOMAIN m,
                      NEW j \in DOMAIN m[h], NEW l \in DOMAIN m[k],
                      h < k \/ (h = k /\ j < l)
               PROVE  m[h][j].id < m[k][l].id
    BY DEF Increasing
  <2>1. h \in Nat /\ k \in Nat /\ j \in Nat /\ l \in Nat /\ g \in Nat /\ i \in Nat
    BY <1>3, <1>4
  <2>2. CASE k = g /\ l = i
    <3>1. h \in DOMAIN groups /\ j \in DOMAIN groups[h] /\ m[h][j] = groups[h][j]
      BY <1>3, <2>1, <2>2 DEF Behind
    <3>2. QED BY <1>3, <2>2, <3>1 DEF Shown, Behind
  <2>3. CASE ~(k = g /\ l = i)
    <3>1. k \in DOMAIN groups /\ l \in DOMAIN groups[k] /\ m[k][l] = groups[k][l]
          /\ (k < g \/ (k = g /\ l < i))
      BY <1>3, <2>3 DEF Behind
    <3>2. ~(h = g /\ j = i)
      BY <2>1, <3>1
    <3>3. h \in DOMAIN groups /\ j \in DOMAIN groups[h] /\ m[h][j] = groups[h][j]
      BY <1>3, <3>2 DEF Behind
    <3>4. QED BY <3>1, <3>3 DEF Increasing
  <2>4. QED BY <2>2, <2>3
<1>7. QED BY <1>1, <1>5, <1>6 DEF m

\* The worker goes on with what it has, whatever is written meanwhile.
LEMMA WorkUntouched ==
    ASSUME WorkInv, work' = work, result' = result, written \subseteq written'
    PROVE  WorkInv'
<1>1. ResultInv'
  BY DEF WorkInv, ResultInv
<1>2. QED BY <1>1 DEF WorkInv

LEMMA WorkInitHolds == Init => WorkInv
<1> SUFFICES ASSUME Init PROVE WorkInv
  OBVIOUS
<1>1. work.todo = {} /\ work.groups = <<>> /\ result.groups = <<>> /\ result.anomalies = {}
  BY DEF Init, NoWork, NoResult
<1>2. Shown(<<>>) = {} /\ Increasing(<<>>) /\ <<>> \in Seq(Seq(AiEvent))
  BY DEF Shown, Increasing
<1>3. ResultInv
  BY <1>1, <1>2 DEF ResultInv, Shown, Increasing
<1>4. QED BY <1>1, <1>2, <1>3 DEF WorkInv

LEMMA NoWorkHolds ==
    ASSUME work' = NoWork, ResultInv'
    PROVE  WorkInv'
<1>1. work'.todo = {} /\ work'.groups = <<>>
  BY DEF NoWork
<1>2. Shown(<<>>) = {} /\ Increasing(<<>>) /\ <<>> \in Seq(Seq(AiEvent))
  BY DEF Shown, Increasing
<1>3. Shown(work.groups)' = {} /\ Increasing(work.groups)'
  BY <1>1, <1>2 DEF Shown, Increasing
<1>4. QED BY <1>1, <1>2, <1>3 DEF WorkInv

LEMMA TakeAnalysisWorks ==
    ASSUME LogInv, WorkInv, TakeAnalysis
    PROVE  WorkInv'
<1> DEFINE todo == Range(analyses[1])
<1>1. /\ analyses # <<>> /\ result' = result /\ written' = written
      /\ work' \in {NoWork, [NoWork EXCEPT !.todo = todo]}
  BY DEF TakeAnalysis, AiOnly
<1>2. ResultInv'
  BY <1>1 DEF WorkInv, ResultInv
<1>3. CASE work' = [NoWork EXCEPT !.todo = todo]
  <2>1. work'.todo = todo /\ work'.groups = <<>>
    BY <1>3 DEF NoWork
  <2>2. analyses \in Seq(Seq(AiEvent)) /\ \A i \in DOMAIN analyses : OfLog(analyses[i])
    BY DEF LogInv, LogTypeOK, AiOK, AiInv
  <2>3. analyses[1] \in Seq(AiEvent) /\ OfLog(analyses[1])
    <3> HIDE DEF AiEvent
    <3>1. 1 \in DOMAIN analyses /\ analyses[1] \in Seq(AiEvent)
      BY <1>1, <2>2
    <3>2. QED BY <2>2, <3>1
  <2>4. todo \subseteq AiEvent /\ \A e \in todo : e.id \in written
    <3> HIDE DEF AiEvent
    <3>1. QED BY <2>3 DEF Range, OfLog
  <2> HIDE DEF todo
  <2>5. Shown(<<>>) = {} /\ Increasing(<<>>) /\ <<>> \in Seq(Seq(AiEvent))
    BY DEF Shown, Increasing
  <2>6. Shown(work.groups)' = {} /\ Increasing(work.groups)'
    BY <2>1, <2>5 DEF Shown, Increasing
  <2>7. QED BY <1>1, <1>2, <2>1, <2>4, <2>5, <2>6 DEF WorkInv
<1>4. QED BY <1>1, <1>2, <1>3, NoWorkHolds

LEMMA GroupWorks ==
    ASSUME WorkInv, Group
    PROVE  WorkInv'
<1> DEFINE e == Earliest(work.todo)
           groups == Merged(work.groups, e)
<1>1. /\ work.todo # {} /\ result' = result /\ written' = written
      /\ work' = [todo |-> work.todo \ {e}, groups |-> groups]
  BY DEF Group, AiOnly
<1>2. /\ work.todo \subseteq AiEvent /\ work.groups \in Seq(Seq(AiEvent))
      /\ \A d \in work.todo : d.id \in written
      /\ Shown(work.groups) \subseteq written /\ Increasing(work.groups)
      /\ \A n \in Shown(work.groups), d \in work.todo : n < d.id
  BY DEF WorkInv
<1>3. e \in work.todo /\ \A d \in work.todo \ {e} : e.id < d.id
  BY <1>1, <1>2, EarliestIs
<1> HIDE DEF e
<1>4. /\ groups \in Seq(Seq(AiEvent)) /\ Shown(groups) \subseteq Shown(work.groups) \cup {e.id}
      /\ Increasing(groups)
  BY <1>2, <1>3, MergedIs
<1> HIDE DEF groups
<1>5. work'.todo = work.todo \ {e} /\ work'.groups = groups
  BY <1>1
<1>6. Shown(work.groups)' = Shown(groups) /\ Increasing(work.groups)'
  BY <1>4, <1>5 DEF Shown, Increasing
<1>7. ResultInv'
  BY <1>1 DEF WorkInv, ResultInv
<1>8. \A n \in Shown(groups), d \in work.todo \ {e} : n < d.id
  BY <1>2, <1>3, <1>4
<1>9. QED BY <1>1, <1>2, <1>3, <1>4, <1>5, <1>6, <1>7, <1>8 DEF WorkInv

\* What validate_result lets through is of the groups.
LEMMA ValidIsShown ==
    ASSUME NEW groups \in Seq(Seq(AiEvent)), NEW anomalies,
           ValidResult(Range(groups), anomalies), NEW ids \in anomalies
    PROVE  ids # {} /\ ids \subseteq Shown(groups)
<1> SUFFICES ASSUME NEW n \in ids PROVE n \in Shown(groups)
  BY DEF ValidResult
<1>1. PICK g \in DOMAIN groups : n \in Representatives(groups[g])
  BY DEF ValidResult, Range
<1>2. PICK i \in DOMAIN groups[g] : n = groups[g][i].id
  BY <1>1 DEF Representatives
<1>3. QED BY <1>2 DEF Shown

LEMMA ProviderAnswersWorks ==
    ASSUME WorkInv, ProviderAnswers
    PROVE  WorkInv'
<1>1. PICK anomalies :
          result' = IF ValidResult(Range(work.groups), anomalies)
                    THEN [groups |-> work.groups, anomalies |-> anomalies]
                    ELSE result
  BY DEF ProviderAnswers
<1>2. work' = NoWork /\ written' = written
  BY DEF ProviderAnswers, AiOnly
<1>3. /\ work.groups \in Seq(Seq(AiEvent)) /\ Shown(work.groups) \subseteq written
      /\ Increasing(work.groups) /\ ResultInv
  BY DEF WorkInv
<1>4. ResultInv'
  <2>1. CASE result' = result
    BY <1>2, <1>3, <2>1 DEF ResultInv
  <2>2. CASE /\ ValidResult(Range(work.groups), anomalies)
             /\ result' = [groups |-> work.groups, anomalies |-> anomalies]
    <3>1. /\ result'.groups = work.groups /\ result'.anomalies = anomalies
          /\ \A ids \in anomalies : ids # {} /\ ids \subseteq Shown(work.groups)
      BY <1>3, <2>2, ValidIsShown
    <3>2. Shown(result.groups)' = Shown(work.groups) /\ Increasing(result.groups)'
      BY <1>3, <3>1 DEF Shown, Increasing
    <3>3. QED BY <1>2, <1>3, <3>1, <3>2 DEF ResultInv
  <2>3. QED BY <1>1, <2>1, <2>2
<1>5. QED BY <1>2, <1>4, NoWorkHolds

LEMMA WorkHolds == LogInv /\ WorkInv /\ [Next]_vars => WorkInv'
<1> SUFFICES ASSUME LogInv, WorkInv, [Next]_vars PROVE WorkInv'
  OBVIOUS
<1>1. CASE TakeAnalysis
  BY <1>1, TakeAnalysisWorks
<1>2. CASE Group
  BY <1>2, GroupWorks
<1>3. CASE ProviderAnswers
  BY <1>3, ProviderAnswersWorks
<1>4. CASE PowerFails
  <2>1. work' = NoWork /\ result' = result /\ written' = written
    BY <1>4 DEF PowerFails
  <2>2. ResultInv'
    BY <2>1 DEF WorkInv, ResultInv
  <2>3. QED BY <2>1, <2>2, NoWorkHolds
<1>5. CASE \/ \E target \in BOOLEAN : Stamp(target)
           \/ \E e \in Id : SendEntry(e)
           \/ WriteLogFails \/ ForceFlush \/ ForceFlushFails \/ ReopenLog
           \/ Receive \/ WindowEnds \/ UNCHANGED vars
  <2>1. work' = work /\ result' = result /\ written' = written
    BY <1>5 DEF Stamp, SendEntry, WriteLogFails, ForceFlush, ForceFlushFails,
       ReopenLog, Receive, WindowEnds, AiOnly, aiVars, vars
  <2>2. QED BY <2>1, WorkUntouched
<1>6. CASE WriteLog
  <2>1. work' = work /\ result' = result /\ written \subseteq written'
    BY <1>6 DEF WriteLog
  <2>2. QED BY <2>1, WorkUntouched
<1>7. QED BY <1>1, <1>2, <1>3, <1>4, <1>5, <1>6 DEF Next

-----------------------------------------------------------------------------
(* No event twice. *)

RequestsValid == \A i \in DOMAIN analyses : ValidRequest(analyses[i])

\* An entry is waiting to be sent, in the queue, or written, and in one of these
\* once; an event of it is in the channel, or with the collector.
OnceInv ==
    /\ \A i, j \in DOMAIN queue : queue[i] = queue[j] => i = j
    /\ \A i \in DOMAIN queue : queue[i] \notin sending \cup written
    /\ sending \cap written = {}
    /\ ValidRequest(events) /\ ValidRequest(batch)
    /\ \A i \in DOMAIN events, j \in DOMAIN batch : events[i].id # batch[j].id
    /\ RequestsValid

LEMMA OneMore ==
    ASSUME NEW S, NEW s \in Seq(S), NEW x \in S
    PROVE  /\ Append(s, x) \in Seq(S)
           /\ DOMAIN Append(s, x) = DOMAIN s \cup {Len(s) + 1}
           /\ Len(s) + 1 \notin DOMAIN s /\ Append(s, x)[Len(s) + 1] = x
           /\ \A i \in DOMAIN s : Append(s, x)[i] = s[i]
OBVIOUS

LEMMA OneLess ==
    ASSUME NEW S, NEW s \in Seq(S), s # <<>>
    PROVE  LET t == SubSeq(s, 2, Len(s)) IN
           \A i \in DOMAIN t : /\ i \in Nat /\ i + 1 \in DOMAIN s /\ i + 1 # 1
                               /\ t[i] = s[i + 1] /\ 1 \in DOMAIN s
<1> DEFINE t == SubSeq(s, 2, Len(s))
<1>1. /\ Len(s) \in Nat \ {0} /\ t \in Seq(S) /\ Len(t) = Len(s) - 1
      /\ \A i \in 1 .. Len(s) - 1 : t[i] = s[i + 1]
  BY TakenFirst
<1> HIDE DEF t
<1>2. DOMAIN t = 1 .. Len(s) - 1 /\ DOMAIN s = 1 .. Len(s)
  BY <1>1
<1>3. \A i \in DOMAIN t : /\ i \in Nat /\ i + 1 \in DOMAIN s /\ i + 1 # 1
                          /\ t[i] = s[i + 1] /\ 1 \in DOMAIN s
  BY <1>1, <1>2
<1>4. QED BY <1>3 DEF t

LEMMA OnceInitHolds == Init => OnceInv
BY DEF Init, OnceInv, ValidRequest, RequestsValid

LEMMA StampOnce ==
    ASSUME LogInv, OnceInv, NEW target \in BOOLEAN, Stamp(target)
    PROVE  OnceInv'
<1>1. /\ sending' = sending \cup {Len(made) + 1} /\ queue' = queue /\ written' = written
      /\ events' = events /\ batch' = batch /\ analyses' = analyses
  BY DEF Stamp, aiVars
<1>2. /\ queue \in Seq(1 .. Len(made)) /\ written \subseteq 1 .. Len(made)
      /\ Len(made) \in Nat
  BY DEF LogInv, LogTypeOK, EntriesOK
<1>3. /\ \A i \in DOMAIN queue : queue[i] # Len(made) + 1
      /\ Len(made) + 1 \notin written
  <2>1. \A i \in DOMAIN queue : queue[i] \in 1 .. Len(made)
    BY <1>2
  <2>2. QED BY <1>2, <2>1
<1>4. QED BY <1>1, <1>3 DEF OnceInv, RequestsValid

LEMMA SendEntryOnce ==
    ASSUME LogInv, OnceInv, NEW e \in Id, SendEntry(e)
    PROVE  OnceInv'
<1>1. /\ e \in sending /\ sending' = sending \ {e} /\ queue' = Append(queue, e)
      /\ written' = written /\ events' = events /\ batch' = batch /\ analyses' = analyses
  BY DEF SendEntry, aiVars
<1>2. queue \in Seq(1 .. Len(made)) /\ e \in 1 .. Len(made)
  BY <1>1 DEF LogInv, LogTypeOK, EntriesOK
<1>3. /\ DOMAIN queue' = DOMAIN queue \cup {Len(queue) + 1}
      /\ Len(queue) + 1 \notin DOMAIN queue /\ queue'[Len(queue) + 1] = e
      /\ \A i \in DOMAIN queue : queue'[i] = queue[i]
  BY <1>1, <1>2, OneMore
<1>4. \A i \in DOMAIN queue : queue[i] # e
  BY <1>1 DEF OnceInv
<1>5. /\ \A i, j \in DOMAIN queue' : queue'[i] = queue'[j] => i = j
      /\ \A i \in DOMAIN queue' : queue'[i] \notin sending' \cup written'
  BY <1>1, <1>3, <1>4 DEF OnceInv
<1>6. QED BY <1>1, <1>5 DEF OnceInv, RequestsValid

\* The entry that is taken from the queue was in it once.
LEMMA TakenOnce ==
    ASSUME LogInv, OnceInv, queue # <<>>, queue' = SubSeq(queue, 2, Len(queue)),
           sending' = sending, written' \subseteq written \cup {queue[1]}
    PROVE  /\ \A i, j \in DOMAIN queue' : queue'[i] = queue'[j] => i = j
           /\ \A i \in DOMAIN queue' : queue'[i] \notin sending' \cup written'
           /\ sending' \cap written' = {}
           /\ queue[1] \notin written
<1>1. queue \in Seq(1 .. Len(made))
  BY DEF LogInv, LogTypeOK, EntriesOK
<1>2. \A i \in DOMAIN queue' : /\ i \in Nat /\ i + 1 \in DOMAIN queue /\ i + 1 # 1
                               /\ queue'[i] = queue[i + 1]
  BY <1>1, OneLess
<1>3. 1 \in DOMAIN queue
  BY <1>1
<1>4. QED BY <1>2, <1>3 DEF OnceInv

LEMMA WriteLogOnce ==
    ASSUME LogInv, OnceInv, WriteLog
    PROVE  OnceInv'
<1> DEFINE e == queue[1]
           event == [id |-> e, subject |-> SubjectOf[e]]
<1>1. /\ queue # <<>> /\ queue' = SubSeq(queue, 2, Len(queue)) /\ sending' = sending
      /\ written' = written \cup {e} /\ batch' = batch /\ analyses' = analyses
      /\ Collect(e)
  BY DEF WriteLog
<1>2. /\ \A i, j \in DOMAIN queue' : queue'[i] = queue'[j] => i = j
      /\ \A i \in DOMAIN queue' : queue'[i] \notin sending' \cup written'
      /\ sending' \cap written' = {} /\ e \notin written
  BY <1>1, TakenOnce
<1>3. events' = events \/ events' = Append(events, event)
  BY <1>1 DEF Collect, TrySend
<1>4. events \in Seq(AiEvent) /\ OfLog(events) /\ OfLog(batch)
  BY DEF LogInv, LogTypeOK, AiOK, AiInv
<1>5. event \in AiEvent /\ event.id = e
  <2>1. e \in 1 .. Len(made) /\ Len(made) \in Nat /\ Len(made) <= MaxEntry
    BY <1>1 DEF LogInv, LogTypeOK, EntriesOK
  <2>2. e \in Id
    BY <2>1, EvidenceAssumption DEF Id
  <2>3. QED BY <2>2 DEF AiEvent
<1> HIDE DEF e, event, AiEvent
<1>6. CASE events' = Append(events, event)
  <2>1. /\ DOMAIN events' = DOMAIN events \cup {Len(events) + 1}
        /\ Len(events) + 1 \notin DOMAIN events /\ events'[Len(events) + 1] = event
        /\ \A i \in DOMAIN events : events'[i] = events[i]
    BY <1>4, <1>5, <1>6, OneMore
  <2>2. /\ \A i \in DOMAIN events : events[i].id # e
        /\ \A i \in DOMAIN batch : batch[i].id # e
    BY <1>2, <1>4 DEF OfLog
  <2>3. ValidRequest(events)'
    BY <1>5, <2>1, <2>2 DEF OnceInv, ValidRequest
  <2>4. \A i \in DOMAIN events', j \in DOMAIN batch' : events'[i].id # batch'[j].id
    BY <1>1, <1>5, <2>1, <2>2 DEF OnceInv
  <2>5. QED BY <1>1, <1>2, <2>3, <2>4 DEF OnceInv, RequestsValid, ValidRequest
<1>7. CASE events' = events
  BY <1>1, <1>2, <1>7 DEF OnceInv, RequestsValid
<1>8. QED BY <1>3, <1>6, <1>7

LEMMA WriteLogFailsOnce ==
    ASSUME LogInv, OnceInv, WriteLogFails
    PROVE  OnceInv'
<1>1. /\ queue # <<>> /\ queue' = SubSeq(queue, 2, Len(queue)) /\ sending' = sending
      /\ written' = written /\ events' = events /\ batch' = batch /\ analyses' = analyses
  BY DEF WriteLogFails, Lost
<1>2. /\ \A i, j \in DOMAIN queue' : queue'[i] = queue'[j] => i = j
      /\ \A i \in DOMAIN queue' : queue'[i] \notin sending' \cup written'
      /\ sending' \cap written' = {}
  BY <1>1, TakenOnce
<1>3. QED BY <1>1, <1>2 DEF OnceInv, RequestsValid

LEMMA SubmitOnce ==
    ASSUME LogInv, OnceInv, NEW b \in Seq(AiEvent), ValidRequest(b), Submit(b)
    PROVE  batch' = <<>> /\ RequestsValid'
<1>1. batch' = <<>> /\ analyses' \in {analyses, Append(analyses, b)}
  BY DEF Submit
<1>2. analyses \in Seq(Seq(AiEvent)) /\ RequestsValid
  BY DEF LogInv, LogTypeOK, AiOK, OnceInv
<1> HIDE DEF AiEvent
<1>3. CASE analyses' = Append(analyses, b)
  <2>1. /\ DOMAIN analyses' = DOMAIN analyses \cup {Len(analyses) + 1}
        /\ analyses'[Len(analyses) + 1] = b
        /\ \A i \in DOMAIN analyses : analyses'[i] = analyses[i]
    <3> DEFINE S == Seq(AiEvent)
    <3>1. analyses \in Seq(S) /\ b \in S
      BY <1>2
    <3> HIDE DEF S
    <3>2. QED BY <1>3, <3>1, OneMore
  <2>2. QED BY <1>1, <1>2, <2>1 DEF RequestsValid
<1>4. QED BY <1>1, <1>2, <1>3 DEF RequestsValid

LEMMA ReceiveOnce ==
    ASSUME LogInv, OnceInv, Receive
    PROVE  OnceInv'
<1> DEFINE b == Append(batch, events[1])
<1>1. /\ events # <<>> /\ events' = SubSeq(events, 2, Len(events))
      /\ queue' = queue /\ sending' = sending /\ written' = written
      /\ Submit(b) \/ (batch' = b /\ analyses' = analyses)
  BY DEF Receive, AiOnly
<1>2. events \in Seq(AiEvent) /\ batch \in Seq(AiEvent)
  BY DEF LogInv, LogTypeOK, AiOK
<1> HIDE DEF AiEvent
<1>3. 1 \in DOMAIN events /\ events[1] \in AiEvent
  BY <1>1, <1>2
<1>4. \A i \in DOMAIN events' : /\ i \in Nat /\ i + 1 \in DOMAIN events /\ i + 1 # 1
                                /\ events'[i] = events[i + 1]
  BY <1>1, <1>2, OneLess
<1>5. /\ b \in Seq(AiEvent) /\ DOMAIN b = DOMAIN batch \cup {Len(batch) + 1}
      /\ Len(batch) + 1 \notin DOMAIN batch /\ b[Len(batch) + 1] = events[1]
      /\ \A i \in DOMAIN batch : b[i] = batch[i]
  BY <1>2, <1>3, OneMore
<1> HIDE DEF b
<1>6. ValidRequest(events)'
  BY <1>4 DEF OnceInv, ValidRequest
<1>7. ValidRequest(b)
  BY <1>3, <1>5 DEF OnceInv, ValidRequest
<1>8. \A i \in DOMAIN events', j \in DOMAIN b : events'[i].id # b[j].id
  BY <1>3, <1>4, <1>5 DEF OnceInv, ValidRequest
<1>9. CASE Submit(b)
  <2>1. batch' = <<>> /\ RequestsValid'
    BY <1>5, <1>7, <1>9, SubmitOnce
  <2>2. QED BY <1>1, <1>6, <2>1 DEF OnceInv, ValidRequest
<1>10. CASE batch' = b /\ analyses' = analyses
  <2>1. ValidRequest(batch)'
    BY <1>7, <1>10 DEF ValidRequest
  <2>2. QED BY <1>1, <1>6, <1>8, <1>10, <2>1 DEF OnceInv, RequestsValid
<1>11. QED BY <1>1, <1>9, <1>10

LEMMA WindowEndsOnce ==
    ASSUME LogInv, OnceInv, WindowEnds
    PROVE  OnceInv'
<1>1. /\ Submit(batch) /\ events' = events
      /\ queue' = queue /\ sending' = sending /\ written' = written
  BY DEF WindowEnds, AiOnly
<1>2. batch \in Seq(AiEvent) /\ ValidRequest(batch)
  BY DEF LogInv, LogTypeOK, AiOK, OnceInv
<1>3. batch' = <<>> /\ RequestsValid'
  BY <1>1, <1>2, SubmitOnce
<1>4. QED BY <1>1, <1>3 DEF OnceInv, ValidRequest

LEMMA TakeAnalysisOnce ==
    ASSUME LogInv, OnceInv, TakeAnalysis
    PROVE  OnceInv'
<1>1. /\ analyses # <<>> /\ analyses' = SubSeq(analyses, 2, Len(analyses))
      /\ queue' = queue /\ sending' = sending /\ written' = written
      /\ events' = events /\ batch' = batch
  BY DEF TakeAnalysis, AiOnly
<1>2. analyses \in Seq(Seq(AiEvent))
  BY DEF LogInv, LogTypeOK, AiOK
<1>3. RequestsValid'
  BY <1>1, <1>2, OneLess DEF OnceInv, RequestsValid
<1>4. QED BY <1>1, <1>3 DEF OnceInv

LEMMA OnceHolds == LogInv /\ OnceInv /\ [Next]_vars => OnceInv'
<1> SUFFICES ASSUME LogInv, OnceInv, [Next]_vars PROVE OnceInv'
  OBVIOUS
<1>1. CASE \E target \in BOOLEAN : Stamp(target)
  BY <1>1, StampOnce
<1>2. CASE \E e \in Id : SendEntry(e)
  BY <1>2, SendEntryOnce
<1>3. CASE WriteLog
  BY <1>3, WriteLogOnce
<1>4. CASE WriteLogFails
  BY <1>4, WriteLogFailsOnce
<1>5. CASE Receive
  BY <1>5, ReceiveOnce
<1>6. CASE WindowEnds
  BY <1>6, WindowEndsOnce
<1>7. CASE TakeAnalysis
  BY <1>7, TakeAnalysisOnce
<1>8. CASE PowerFails
  <2>1. /\ sending' = {} /\ queue' = <<>> /\ events' = <<>> /\ batch' = <<>>
        /\ analyses' = <<>>
    BY <1>8 DEF PowerFails
  <2>2. QED BY <2>1 DEF OnceInv, ValidRequest, RequestsValid
<1>9. CASE \/ ForceFlush \/ ForceFlushFails \/ ReopenLog
           \/ Group \/ ProviderAnswers \/ UNCHANGED vars
  <2>1. /\ sending' = sending /\ queue' = queue /\ written' = written
        /\ events' = events /\ batch' = batch /\ analyses' = analyses
    BY <1>9 DEF ForceFlush, ForceFlushFails, ReopenLog, Group, ProviderAnswers,
       AiOnly, aiVars, vars
  <2>2. QED BY <2>1 DEF OnceInv, RequestsValid
<1>10. QED
  BY <1>1, <1>2, <1>3, <1>4, <1>5, <1>6, <1>7, <1>8, <1>9 DEF Next

-----------------------------------------------------------------------------
(* Halves of entries. *)

Torn(data, d) ==
    \E i \in DOMAIN data :
        data[i] = Opening(d) /\ (i = Len(data) \/ data[i + 1] # Ending(d))

\* Entries of which write_log may still make, or has made, a whole line.
Sound == written \cup sending \cup {queue[i] : i \in DOMAIN queue}

\* Half of an entry is in a file only if its write failed.
TornInv ==
    crashes = 0 =>
        \A f \in DOMAIN files, d \in Id :
            Torn(Contents(f), d) => d \in 1 .. Len(made) /\ d \notin Sound

LEMMA TornInitHolds == Init => TornInv
<1> SUFFICES ASSUME Init, NEW f \in DOMAIN files
             PROVE  Contents(f) = <<>>
  BY DEF TornInv, Torn
<1>1. files = <<[data |-> <<>>, synced |-> 0]>> /\ buffer = <<>>
  BY DEF Init
<1>2. files[f].data = <<>>
  BY <1>1
<1>3. QED BY <1>1, <1>2 DEF Contents

LEMMA Tails ==
    ASSUME NEW e \in Id,
           NEW tail \in {<<>>, <<Opening(e)>>, <<Opening(e), Ending(e)>>}
    PROVE  tail \in Seq(Piece) /\ Len(tail) \in 0 .. 2
<1>1. Opening(e) \in Piece /\ Ending(e) \in Piece
  BY DEF Piece, Opening, Ending
<1> HIDE DEF Piece
<1>2. CASE tail = <<>>
  BY <1>2
<1>3. CASE tail = <<Opening(e)>>
  BY <1>1, <1>3
<1>4. CASE tail = <<Opening(e), Ending(e)>>
  BY <1>1, <1>4
<1>5. QED BY <1>2, <1>3, <1>4

\* Of what is put behind s, the half of an entry alone is torn.
LEMMA TornOn ==
    ASSUME NEW s \in Seq(Piece), NEW e \in Id, NEW d \in Id,
           NEW tail \in {<<>>, <<Opening(e)>>, <<Opening(e), Ending(e)>>},
           Torn(s \o tail, d)
    PROVE  Torn(s, d) \/ (d = e /\ tail = <<Opening(e)>>)
<1> DEFINE t == s \o tail
           k == Len(s)
           l == Len(tail)
<1>1. tail \in Seq(Piece) /\ l \in 0 .. 2
  BY Tails
<1>2. /\ DOMAIN t = 1 .. k + l /\ Len(t) = k + l /\ k \in Nat /\ l \in Nat /\ DOMAIN s = 1 .. k
      /\ \A i \in 1 .. k : t[i] = s[i]
      /\ \A i \in k + 1 .. k + l : t[i] = tail[i - k]
  <2>1. t \in Seq(Piece)
    BY <1>1, TwoParts
  <2> HIDE DEF Piece
  <2>2. DOMAIN t = 1 .. Len(t) /\ DOMAIN s = 1 .. Len(s)
    BY <2>1
  <2>3. QED BY <1>1, <2>2, TwoParts
<1> HIDE DEF t
<1>3. PICK i \in DOMAIN t : t[i] = Opening(d) /\ (i = k + l \/ t[i + 1] # Ending(d))
  BY <1>2 DEF Torn, t
<1> HIDE DEF k, l, Piece
<1>4. CASE i \in 1 .. k
  <2>1. s[i] = Opening(d) /\ (i = k \/ s[i + 1] # Ending(d))
    <3>1. i # k => i + 1 \in 1 .. k /\ i # k + l
      BY <1>2, <1>4
    <3>2. QED BY <1>2, <1>3, <1>4, <3>1
  <2>2. QED BY <1>2, <1>4, <2>1 DEF Torn, k
<1>5. CASE i \in k + 1 .. k + l
  <2>1. i - k \in 1 .. l /\ tail[i - k] = Opening(d)
    BY <1>2, <1>3, <1>5
  <2>2. CASE tail = <<Opening(e)>>
    <3>1. l = 1 /\ tail[1] = Opening(e)
      BY <2>2 DEF l
    <3>2. i - k = 1
      BY <2>1, <3>1
    <3>3. QED BY <2>1, <2>2, <3>1, <3>2 DEF Opening
  <2>3. CASE tail = <<Opening(e), Ending(e)>>
    <3>1. l = 2 /\ tail[1] = Opening(e) /\ tail[2] = Ending(e)
      BY <2>3 DEF l
    <3>2. i - k # 2
      BY <2>1, <3>1 DEF Opening, Ending
    <3>3. i = k + 1
      BY <1>2, <1>5, <2>1, <3>1, <3>2
    <3>4. d = e
      BY <1>2, <2>1, <3>1, <3>3 DEF Opening
    <3>5. i # k + l /\ i + 1 \in k + 1 .. k + l /\ (i + 1) - k = 2
      BY <1>2, <3>1, <3>3
    <3>6. t[i + 1] = Ending(e)
      BY <1>2, <3>1, <3>5
    <3>7. QED BY <1>3, <3>4, <3>5, <3>6
  <2>4. CASE tail = <<>>
    <3>1. l = 0
      BY <2>4 DEF l
    <3>2. QED BY <2>1, <3>1
  <2>5. QED BY <2>2, <2>3, <2>4
<1>6. i \in 1 .. k \/ i \in k + 1 .. k + l
  BY <1>2, <1>3
<1>7. QED BY <1>4, <1>5, <1>6

LEMMA ThreeParts ==
    ASSUME NEW S, NEW s \in Seq(S), NEW t \in Seq(S), NEW u \in Seq(S)
    PROVE  s \o (t \o u) = (s \o t) \o u
<1> DEFINE a == s \o (t \o u)
           b == (s \o t) \o u
           k == Len(s)
           l == Len(t)
           n == Len(u)
<1>1. /\ t \o u \in Seq(S) /\ Len(t \o u) = l + n /\ k \in Nat /\ l \in Nat /\ n \in Nat
      /\ \A i \in 1 .. l : (t \o u)[i] = t[i]
      /\ \A i \in l + 1 .. l + n : (t \o u)[i] = u[i - l]
      /\ s \o t \in Seq(S) /\ Len(s \o t) = k + l
      /\ \A i \in 1 .. k : (s \o t)[i] = s[i]
      /\ \A i \in k + 1 .. k + l : (s \o t)[i] = t[i - k]
  BY TwoParts
<1>2. /\ a \in Seq(S) /\ Len(a) = k + (l + n)
      /\ \A i \in 1 .. k : a[i] = s[i]
      /\ \A i \in k + 1 .. k + (l + n) : a[i] = (t \o u)[i - k]
  BY <1>1, TwoParts
<1>3. /\ b \in Seq(S) /\ Len(b) = (k + l) + n
      /\ \A i \in 1 .. k + l : b[i] = (s \o t)[i]
      /\ \A i \in k + l + 1 .. (k + l) + n : b[i] = u[i - (k + l)]
  <2> DEFINE st == s \o t
  <2>1. st \in Seq(S) /\ Len(st) = k + l
    BY <1>1
  <2> HIDE DEF st
  <2>2. /\ st \o u \in Seq(S) /\ Len(st \o u) = Len(st) + n
        /\ \A i \in 1 .. Len(st) : (st \o u)[i] = st[i]
        /\ \A i \in Len(st) + 1 .. Len(st) + n : (st \o u)[i] = u[i - Len(st)]
    <3>1. st \in Seq(S)
      BY <2>1
    <3> HIDE DEF k, l
    <3>2. QED BY <3>1, TwoParts
  <2>3. QED BY <2>1, <2>2 DEF st
<1> HIDE DEF a, b, k, l, n
<1>4. ASSUME NEW i \in 1 .. k + (l + n) PROVE a[i] = b[i]
  <2>1. CASE i \in 1 .. k
    <3>1. i \in 1 .. k + l
      BY <1>1, <2>1
    <3>2. QED BY <1>1, <1>2, <1>3, <2>1, <3>1
  <2>2. CASE i \in k + 1 .. k + l
    <3>1. i \in 1 .. k + l /\ i \in k + 1 .. k + (l + n) /\ i - k \in 1 .. l
      BY <1>1, <2>2
    <3>2. QED BY <1>1, <1>2, <1>3, <2>2, <3>1
  <2>3. CASE i \in k + l + 1 .. (k + l) + n
    <3>1. i \in k + 1 .. k + (l + n) /\ i - k \in l + 1 .. l + n /\ (i - k) - l = i - (k + l)
      BY <1>1, <2>3
    <3>2. QED BY <1>1, <1>2, <1>3, <2>3, <3>1
  <2>4. i \in 1 .. k \/ i \in k + 1 .. k + l \/ i \in k + l + 1 .. (k + l) + n
    BY <1>1
  <2>5. QED BY <2>1, <2>2, <2>3, <2>4
<1>5. Len(a) = Len(b)
  BY <1>1, <1>2, <1>3
<1>6. a = b
  BY <1>2, <1>3, <1>4, <1>5, SeqsEqual
<1>7. QED BY <1>6 DEF a, b

\* What Put leaves in the files and the buffer together.
LEMMA PutBehind ==
    ASSUME FilesOK, NEW tail \in Seq(Piece), NEW n \in 0 .. Len(buffer \o tail),
           NEW sync \in BOOLEAN, Put(buffer \o tail, n, sync)
    PROVE  /\ DOMAIN files' = DOMAIN files
           /\ \A f \in DOMAIN files : Contents(f)' \in {Contents(f), Contents(f) \o tail}
<1>1. /\ buffer \in Seq(Piece) /\ Current.data \in Seq(Piece)
      /\ Contents(Len(files)) = Current.data \o buffer
  BY FilesTyped DEF FilesOK, LogFile
<1>2. buffer \o tail \in Seq(Piece) /\ Begins(buffer, buffer \o tail)
  BY <1>1, BeginsAppended
<1>3. /\ Len(files') = Len(files)
      /\ \A f \in DOMAIN files : f # Len(files) => Contents(f)' = Contents(f)
      /\ Contents(Len(files))' = Current.data \o (buffer \o tail)
  BY <1>2, PutKeeps
<1>4. Contents(Len(files))' = Contents(Len(files)) \o tail
  <2> DEFINE d == Current.data
  <2>1. d \in Seq(Piece) /\ buffer \in Seq(Piece)
    BY <1>1
  <2> HIDE DEF d
  <2>2. d \o (buffer \o tail) = (d \o buffer) \o tail
    BY <2>1, ThreeParts
  <2>3. QED BY <1>1, <1>3, <2>2 DEF d
<1>5. \A f \in DOMAIN files : f = Len(files) => Contents(f)' = Contents(f) \o tail
  <2> SUFFICES ASSUME NEW f \in DOMAIN files, f = Len(files)
               PROVE  Contents(f)' = Contents(f) \o tail
    OBVIOUS
  <2>1. Contents(f)' = Contents(Len(files))'
    BY <1>3 DEF Contents
  <2>2. QED BY <1>4, <2>1
<1>6. DOMAIN files' = DOMAIN files
  BY <1>2, PutWhole
<1>7. QED BY <1>3, <1>5, <1>6

\* After Put, with e behind what was in the buffer, half of it or nothing.
LEMMA PutTorn ==
    ASSUME LogInv, TornInv, NEW e \in Id,
           NEW tail \in {<<>>, <<Opening(e)>>, <<Opening(e), Ending(e)>>},
           NEW n \in 0 .. Len(buffer \o tail), NEW sync \in BOOLEAN,
           Put(buffer \o tail, n, sync),
           crashes' = crashes, made' = made, Sound' \subseteq Sound,
           tail = <<Opening(e)>> => e \in 1 .. Len(made) /\ e \notin Sound'
    PROVE  TornInv'
<1> SUFFICES ASSUME crashes' = 0, NEW f \in DOMAIN files', NEW d \in Id, Torn(Contents(f)', d)
             PROVE  d \in 1 .. Len(made') /\ d \notin Sound'
  BY DEF TornInv, Torn
<1>1. FilesOK
  BY DEF LogInv, LogTypeOK
<1>2. tail \in Seq(Piece)
  BY Tails
<1>3. f \in DOMAIN files /\ Contents(f)' \in {Contents(f), Contents(f) \o tail}
  BY <1>1, <1>2, PutBehind
<1>4. Contents(f) \in Seq(Piece)
  BY <1>1, <1>3, FilesTyped
<1>5. Torn(Contents(f), d) \/ (d = e /\ tail = <<Opening(e)>>)
  <2>1. CASE Contents(f)' = Contents(f) \o tail
    <3> DEFINE s == Contents(f)
    <3>1. s \in Seq(Piece) /\ Torn(s \o tail, d)
      BY <1>4, <2>1
    <3> HIDE DEF s
    <3>2. Torn(s, d) \/ (d = e /\ tail = <<Opening(e)>>)
      BY <3>1, TornOn
    <3>3. QED BY <3>2 DEF s
  <2>2. CASE Contents(f)' = Contents(f)
    BY <2>2
  <2>3. QED BY <1>3, <2>1, <2>2
<1>6. CASE Torn(Contents(f), d)
  BY <1>3, <1>6 DEF TornInv
<1>7. CASE d = e /\ tail = <<Opening(e)>>
  BY <1>7
<1>8. QED BY <1>5, <1>6, <1>7

\* The first of the queue is one of the entries that are sound.
LEMMA FirstIsSound ==
    ASSUME LogInv, queue # <<>>, queue' = SubSeq(queue, 2, Len(queue))
    PROVE  /\ queue[1] \in Sound /\ queue[1] \in Id /\ queue[1] \in 1 .. Len(made)
           /\ {queue'[i] : i \in DOMAIN queue'} \subseteq {queue[i] : i \in DOMAIN queue}
<1>1. queue \in Seq(1 .. Len(made)) /\ Len(made) \in Nat /\ Len(made) <= MaxEntry
  BY DEF LogInv, LogTypeOK, EntriesOK
<1>2. 1 \in DOMAIN queue /\ queue[1] \in 1 .. Len(made)
  BY <1>1
<1>3. \A i \in DOMAIN queue' : i + 1 \in DOMAIN queue /\ queue'[i] = queue[i + 1]
  BY <1>1, OneLess
<1>4. queue[1] \in Id
  BY <1>1, <1>2, EvidenceAssumption DEF Id
<1>5. QED BY <1>2, <1>3, <1>4 DEF Sound

LEMMA WriteLogTorn ==
    ASSUME LogInv, TornInv, WriteLog
    PROVE  TornInv'
<1> DEFINE e == queue[1]
           tail == <<Opening(e), Ending(e)>>
<1>1. /\ queue # <<>> /\ queue' = SubSeq(queue, 2, Len(queue)) /\ written' = written \cup {e}
      /\ sending' = sending /\ made' = made /\ crashes' = crashes
      /\ \E n \in {0, Len(buffer \o tail) - 1} : Put(buffer \o tail, n, FALSE)
  BY DEF WriteLog
<1>2. /\ e \in Sound /\ e \in Id
      /\ {queue'[i] : i \in DOMAIN queue'} \subseteq {queue[i] : i \in DOMAIN queue}
  BY <1>1, FirstIsSound
<1>3. Sound' \subseteq Sound
  BY <1>1, <1>2 DEF Sound
<1>4. PICK n \in {0, Len(buffer \o tail) - 1} : Put(buffer \o tail, n, FALSE)
  BY <1>1
<1>5. buffer \in Seq(Piece)
  BY DEF LogInv, LogTypeOK, FilesOK
<1> HIDE DEF e
<1>6. Len(buffer \o tail) = Len(buffer) + 2 /\ Len(buffer) \in Nat
  BY <1>2, <1>5, TwoPieces
<1>7. tail # <<Opening(e)>>
  <2>1. Len(tail) = 2 /\ Len(<<Opening(e)>>) = 1
    OBVIOUS
  <2>2. QED BY <2>1
<1> HIDE DEF tail
<1>8. n \in 0 .. Len(buffer \o tail)
  BY <1>6, <1>4
<1>9. tail \in {<<>>, <<Opening(e)>>, <<Opening(e), Ending(e)>>}
  BY DEF tail
<1>10. QED BY <1>1, <1>2, <1>3, <1>4, <1>7, <1>8, <1>9, PutTorn

LEMMA WriteLogFailsTorn ==
    ASSUME LogInv, OnceInv, TornInv, WriteLogFails
    PROVE  TornInv'
<1> DEFINE e == queue[1]
<1>1. /\ queue # <<>> /\ queue' = SubSeq(queue, 2, Len(queue)) /\ written' = written
      /\ sending' = sending /\ made' = made /\ crashes' = crashes
      /\ \E pieces \in {buffer, Append(buffer, Opening(e))} :
             \E n \in {0, Len(buffer)} : Put(pieces, n, FALSE)
  BY DEF WriteLogFails
<1>2. /\ e \in Sound /\ e \in Id /\ e \in 1 .. Len(made)
      /\ {queue'[i] : i \in DOMAIN queue'} \subseteq {queue[i] : i \in DOMAIN queue}
  BY <1>1, FirstIsSound
<1>3. Sound' \subseteq Sound
  BY <1>1, <1>2 DEF Sound
<1>4. e \notin Sound'
  <2>1. /\ e \notin written /\ e \notin sending
        /\ \A i, j \in DOMAIN queue : queue[i] = queue[j] => i = j
        /\ 1 \in DOMAIN queue
    <3>1. queue \in Seq(1 .. Len(made))
      BY DEF LogInv, LogTypeOK, EntriesOK
    <3>2. 1 \in DOMAIN queue
      BY <1>1, <3>1
    <3>3. QED BY <3>2 DEF OnceInv
  <2>2. \A i \in DOMAIN queue' : i + 1 \in DOMAIN queue /\ i + 1 # 1 /\ queue'[i] = queue[i + 1]
    <3>1. queue \in Seq(1 .. Len(made))
      BY DEF LogInv, LogTypeOK, EntriesOK
    <3>2. QED BY <1>1, <3>1, OneLess
  <2>3. QED BY <1>1, <2>1, <2>2 DEF Sound
<1>5. buffer \in Seq(Piece)
  BY DEF LogInv, LogTypeOK, FilesOK
<1> HIDE DEF e
<1>6. PICK pieces \in {buffer, Append(buffer, Opening(e))}, n \in {0, Len(buffer)} :
          Put(pieces, n, FALSE)
  BY <1>1
<1> DEFINE half == <<Opening(e)>>
           none == <<>>
<1>7. /\ buffer \o none = buffer /\ buffer \o half = Append(buffer, Opening(e))
      /\ Len(buffer) \in Nat /\ Len(Append(buffer, Opening(e))) = Len(buffer) + 1
  <2>1. Opening(e) \in Piece
    BY <1>2 DEF Piece, Opening
  <2> HIDE DEF Piece
  <2>2. QED BY <1>5, <2>1
<1>8. PICK tail \in {none, half} : pieces = buffer \o tail
  BY <1>6, <1>7
<1>9. n \in 0 .. Len(buffer \o tail)
  BY <1>6, <1>7, <1>8
<1>10. tail \in {<<>>, <<Opening(e)>>, <<Opening(e), Ending(e)>>}
  BY <1>8
<1>11. Put(buffer \o tail, n, FALSE)
  BY <1>6, <1>8
<1> HIDE DEF half, none
<1>12. QED BY <1>1, <1>2, <1>3, <1>4, <1>9, <1>10, <1>11, PutTorn

LEMMA FlushTorn ==
    ASSUME LogInv, TornInv, NEW n \in 0 .. Len(buffer), NEW sync \in BOOLEAN,
           Put(buffer, n, sync), crashes' = crashes, made' = made,
           queue' = queue, sending' = sending, written' = written
    PROVE  TornInv'
<1> DEFINE none == <<>>
<1>1. buffer \in Seq(Piece)
  BY DEF LogInv, LogTypeOK, FilesOK
<1>2. buffer \o none = buffer
  <2> HIDE DEF Piece
  <2>1. QED BY <1>1
<1>3. Sound' = Sound
  BY DEF Sound
<1>4. 1 \in Id
  BY EvidenceAssumption DEF Id
<1>5. none # <<Opening(1)>> /\ none \in {<<>>, <<Opening(1)>>, <<Opening(1), Ending(1)>>}
  OBVIOUS
<1> HIDE DEF none
<1>6. Put(buffer \o none, n, sync) /\ n \in 0 .. Len(buffer \o none)
  BY <1>2
<1>7. QED BY <1>3, <1>4, <1>5, <1>6, PutTorn

\* With the new file, the contents of the others are what they were.
LEMMA ReopenLogTorn ==
    ASSUME LogInv, TornInv, ReopenLog
    PROVE  TornInv'
<1>1. /\ crashes' = crashes /\ made' = made /\ queue' = queue /\ sending' = sending
      /\ written' = written
  BY DEF ReopenLog
<1>2. FilesOK
  BY DEF LogInv, LogTypeOK
<1>3. /\ DOMAIN files' = DOMAIN files \cup {Len(files) + 1}
      /\ \A f \in DOMAIN files' :
             Contents(f)' = IF f = Len(files) + 1 THEN <<>> ELSE Contents(f)
  BY <1>2, ReopenKeeps
<1>4. Sound' = Sound
  BY <1>1 DEF Sound
<1>5. ASSUME crashes' = 0, NEW f \in DOMAIN files', NEW d \in Id, Torn(Contents(f)', d)
      PROVE  d \in 1 .. Len(made') /\ d \notin Sound'
  <2>1. f \in DOMAIN files
    <3>1. Contents(f)' # <<>>
      BY <1>5 DEF Torn
    <3>2. f = Len(files) + 1 => Contents(f)' = <<>>
      BY <1>3
    <3>3. QED BY <1>3, <3>1, <3>2
  <2>2. f # Len(files) + 1
    BY <1>2, <2>1, FilesTyped
  <2>3. Torn(Contents(f), d)
    BY <1>3, <1>5, <2>2
  <2>4. QED BY <1>1, <1>4, <1>5, <2>1, <2>3 DEF TornInv
<1>6. QED BY <1>5 DEF TornInv, Torn

LEMMA TornHolds == LogInv /\ OnceInv /\ TornInv /\ [Next]_vars => TornInv'
<1> SUFFICES ASSUME LogInv, OnceInv, TornInv, [Next]_vars PROVE TornInv'
  OBVIOUS
<1>1. CASE \E target \in BOOLEAN : Stamp(target)
  <2>1. /\ Len(made') = Len(made) + 1 /\ sending' = sending \cup {Len(made) + 1}
        /\ queue' = queue /\ written' = written /\ buffer' = buffer /\ files' = files
        /\ crashes' = crashes /\ Len(made) \in Nat
    <3>1. made \in Seq(BOOLEAN)
      BY DEF LogInv, LogTypeOK, EntriesOK
    <3>2. QED BY <1>1, <3>1 DEF Stamp, logVars
  <2>2. Sound' = Sound \cup {Len(made) + 1}
    BY <2>1 DEF Sound
  <2>3. \A d \in 1 .. Len(made) : d \in 1 .. Len(made') /\ d # Len(made) + 1
    BY <2>1
  <2>4. QED BY <2>1, <2>2, <2>3 DEF TornInv, Contents
<1>2. CASE \E e \in Id : SendEntry(e)
  <2>1. PICK e \in Id : SendEntry(e)
    BY <1>2
  <2>2. /\ made' = made /\ e \in sending /\ sending' = sending \ {e} /\ queue' = Append(queue, e)
        /\ written' = written /\ buffer' = buffer /\ files' = files /\ crashes' = crashes
    BY <2>1 DEF SendEntry, logVars
  <2>3. \A i \in DOMAIN queue' : queue'[i] = e \/ (i \in DOMAIN queue /\ queue'[i] = queue[i])
    <3>1. queue \in Seq(1 .. Len(made)) /\ e \in 1 .. Len(made)
      BY <2>2 DEF LogInv, LogTypeOK, EntriesOK
    <3>2. QED BY <2>2, <3>1, OneMore
  <2>4. Sound' \subseteq Sound
    BY <2>2, <2>3 DEF Sound
  <2>5. QED BY <2>2, <2>4 DEF TornInv, Contents
<1>3. CASE WriteLog
  BY <1>3, WriteLogTorn
<1>4. CASE WriteLogFails
  BY <1>4, WriteLogFailsTorn
<1>5. CASE ForceFlush \/ ForceFlushFails
  <2>1. /\ crashes' = crashes /\ made' = made /\ queue' = queue /\ sending' = sending
        /\ written' = written
        /\ \E sync \in BOOLEAN : \E n \in 0 .. Len(buffer) : Put(buffer, n, sync)
    <3>1. Len(buffer) \in 0 .. Len(buffer)
      BY DEF LogInv, LogTypeOK, FilesOK
    <3>2. QED BY <1>5, <3>1 DEF ForceFlush, FlushAndSync, ForceFlushFails
  <2>2. QED BY <2>1, FlushTorn
<1>6. CASE ReopenLog
  BY <1>6, ReopenLogTorn
<1>7. CASE PowerFails
  <2>1. crashes' # 0
    BY <1>7 DEF PowerFails, LogInv, LogTypeOK
  <2>2. QED BY <2>1 DEF TornInv
<1>8. CASE Receive \/ WindowEnds \/ TakeAnalysis \/ Group \/ ProviderAnswers \/ UNCHANGED vars
  <2>1. /\ made' = made /\ queue' = queue /\ sending' = sending /\ written' = written
        /\ buffer' = buffer /\ files' = files /\ crashes' = crashes
    BY <1>8 DEF Receive, WindowEnds, TakeAnalysis, Group, ProviderAnswers,
       AiOnly, logVars, vars
  <2>2. QED BY <2>1 DEF TornInv, Contents, Sound
<1>9. QED BY <1>1, <1>2, <1>3, <1>4, <1>5, <1>6, <1>7, <1>8 DEF Next

\* What is before a whole entry is the end of one, or such a half.
LEMMA WrittenIsLogged ==
    ASSUME LogInv, TornInv
    PROVE  WrittenIsThere
<1> SUFFICES ASSUME crashes = 0, NEW e \in written PROVE Logged(e)
  BY DEF WrittenIsThere
<1>1. PICK f \in DOMAIN files : Stands(Contents(f), e)
  BY DEF LogInv, WholeInv
<1>2. Contents(f) \in Seq(Piece)
  BY FilesTyped DEF LogInv, LogTypeOK
<1> DEFINE data == Contents(f)
<1>3. PICK i \in StandsAt(data, e) : TRUE
  BY <1>1 DEF Stands
<1> HIDE DEF data
<1>4. data \in Seq(Piece) /\ i \in 1 .. Len(data) - 1 /\ data[i] = Opening(e)
  BY <1>2, <1>3 DEF StandsAt, data
<1>5. CASE i = 1
  BY <1>3, <1>5 DEF Readable, Logged, data
<1>6. CASE i # 1
  <2>1. i - 1 \in DOMAIN data /\ (i - 1) + 1 = i /\ i - 1 # Len(data)
    BY <1>4, <1>6
  <2>2. PICK d \in Id : data[i - 1] \in {Opening(d), Ending(d)}
    <3>1. data[i - 1] \in Piece
      <4> HIDE DEF Piece
      <4>1. QED BY <1>4, <2>1
    <3>2. QED BY <3>1 DEF Piece, Opening, Ending
  <2>3. CASE data[i - 1] = Ending(d)
    BY <1>3, <2>2, <2>3 DEF Readable, Logged, data
  <2>4. CASE data[i - 1] = Opening(d)
    <3>1. data[i] # Ending(d)
      BY <1>4 DEF Opening, Ending
    <3>2. Torn(data, d)
      BY <2>1, <2>4, <3>1 DEF Torn
    <3>3. d \notin written
      BY <1>1, <2>2, <3>2 DEF TornInv, Sound, data
    <3>4. QED BY <1>1, <1>3, <1>6, <2>2, <2>4, <3>3 DEF Spoiled, Logged, data
  <2>5. QED BY <2>2, <2>3, <2>4
<1>7. QED BY <1>5, <1>6

-----------------------------------------------------------------------------
(* What is promised of the log. *)

\* What was written when force_flush succeeded is in the log for good, also
\* after the file was changed, a later write failed and power was lost.
\* [storage.rs, force_flush]
THEOREM Secured == Spec => []SecuredStays
<1>1. LogInv => SecuredStays
  <2> SUFFICES ASSUME LogInv, NEW e \in secured
               PROVE  \E f \in DOMAIN files : Readable(files[f].data, e)
    BY DEF SecuredStays
  <2>1. FilesOK
    BY DEF LogInv, LogTypeOK
  <2>2. PICK f \in DOMAIN files : Readable(OnDisk(f), e)
    BY DEF LogInv, DiskInv
  <2>3. /\ files[f].data \in Seq(Piece) /\ files[f].synced \in 0 .. Len(files[f].data)
    BY <2>1, FilesTyped
  <2>4. OnDisk(f) \in Seq(Piece) /\ Begins(OnDisk(f), files[f].data)
    BY <2>3, BeginsCut DEF OnDisk
  <2>5. Readable(files[f].data, e)
    BY <2>2, <2>3, <2>4, ReadableOn
  <2>6. QED BY <2>5
<1>2. QED BY <1>1, LogInvariance, PTL

\* An entry that write_log wrote is in a file or the buffer until power is lost,
\* and can be read but behind half of an entry whose write failed: no other
\* half is ever left.  [write_log, reopen_log]
THEOREM Written == Spec => []WrittenIsThere
<1>1. Init => OnceInv /\ TornInv
  BY OnceInitHolds, TornInitHolds
<1>2. LogInv /\ OnceInv /\ TornInv /\ [Next]_vars => OnceInv' /\ TornInv'
  BY OnceHolds, TornHolds
<1>3. LogInv /\ TornInv => WrittenIsThere
  BY WrittenIsLogged
<1>4. QED BY <1>1, <1>2, <1>3, LogInvariance, PTL DEF Spec

\* Everything on its way to the provider is of an entry that was written.
\* [try_send after write_log]
THEOREM OnlyWrittenIsAnalysed == Spec => []AiInv
<1>1. LogInv => AiInv
  BY DEF LogInv
<1>2. QED BY <1>1, LogInvariance, PTL

\* What the worker has, and what is stored of an analysis, is of the log and in
\* the order of time.  [analyze_with_provenance, aggregate_events]
THEOREM WorkInvariance == Spec => []WorkInv
<1>1. Init => WorkInv
  BY WorkInitHolds
<1>2. LogInv /\ WorkInv /\ [Next]_vars => WorkInv'
  BY WorkHolds
<1>3. QED BY <1>1, <1>2, LogInvariance, PTL DEF Spec

\* Whatever the provider says, each anomaly stored tells of events that were
\* analysed, and these are of the log.  [validate_result, aggregate_events]
THEOREM AnalysisIsFromLog == Spec => []AnalysisFromLog
<1>1. WorkInv /\ WrittenIsThere => AnalysisFromLog
  BY DEF WorkInv, ResultInv, WrittenIsThere, AnalysisFromLog, Shown, Increasing
<1>2. QED BY <1>1, WorkInvariance, Written, PTL

\* No analysis is refused because an event is in it twice: an entry is written
\* once, and told to the collector once.  [validate_request, collect_ai_event]
THEOREM NoneRefused == Spec => []RequestsValid
<1>1. Init => OnceInv
  BY OnceInitHolds
<1>2. LogInv /\ OnceInv /\ [Next]_vars => OnceInv'
  BY OnceHolds
<1>3. OnceInv => RequestsValid
  BY DEF OnceInv
<1>4. QED BY <1>1, <1>2, <1>3, LogInvariance, PTL DEF Spec

=============================================================================
