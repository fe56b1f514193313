---------------------------- MODULE ProgramHash -----------------------------
(***************************************************************************)
(* The hash of the program in the evidence of a request: computed while    *)
(* the file may change, kept by file and metadata, and bound to the        *)
(* process.  src/teald/src/evidence/mod.rs, from FileMeta on.              *)
(*                                                                         *)
(* One path and one process number.  A file is told by device and inode,   *)
(* and so is the file that takes its inode over.  Two files take turns at  *)
(* the path; one that has left it, that is not executed and not open gives *)
(* its inode away.  A file that is executed cannot be written.  Its        *)
(* metadata is the time of its last change, on a clock that may stand      *)
(* still between two changes.  A file is read in two parts.                *)
(***************************************************************************)
EXTENDS Naturals

CONSTANTS
    File,       \* devices and inodes
    Task,       \* requests handled at a time
    MaxVersion, \* bound on the contents
    MaxTime,    \* bound on the clock
    MaxExec,    \* bound on the executions
    None,
    Failed      \* HASH_CALC_FAILED

ASSUME HashAssumption ==
    /\ {MaxVersion, MaxTime, MaxExec} \subseteq Nat \ {0}
    /\ None \notin File
    /\ Failed \notin (1 .. MaxVersion) \X (1 .. MaxVersion)

VARIABLES
    now,        \* the clock
    version,    \* the last content written
    at,         \* the file at the path
    content,    \* what is in each file
    meta,       \* file_meta
    process,    \* the process of that number
    cache,      \* FILE_HASH_CACHE
    bindings,   \* PROCESS_BINDINGS, by start time
    locked,     \* HASH_LOCKS: who holds the lock of a file
    task,       \* get_or_calculate_bound_program_hash, for each request
    twice       \* history: files changed twice at one time of the clock

diskVars == <<now, version, at, content, meta, twice>>
cacheVars == <<cache, bindings, locked>>
hashVars == <<diskVars, process, cacheVars, task>>

Version == 1 .. MaxVersion
\* The hash of what was read: of one version if both parts are.
Hash == Version \X Version

NoTask == [pc |-> "idle", file |-> None, exec |-> 0, start |-> 0, fd |-> None,
           time |-> 0, read |-> 0, hash |-> None, other |-> FALSE]

Entry == [time : 1 .. MaxTime, hash : Hash]
Binding == [file : File, hash : Hash, exec : 0 .. MaxExec]
Request == [pc    : {"idle", "key", "bound", "open", "lock", "read", "rest",
                     "check", "bind", "done"},
            file  : File \cup {None},           \* the program it asked for
            exec  : 0 .. MaxExec,               \* history: which execution
            start : 0 .. MaxExec,               \* start time, 0 if unknown
            fd    : File \cup {None},
            time  : 0 .. MaxTime,               \* metadata before reading
            read  : 0 .. MaxVersion,
            hash  : Hash \cup {None, Failed},
            other : BOOLEAN]                    \* history: bound by another

HashTypeOK ==
    /\ now \in 1 .. MaxTime
    /\ version \in Version
    /\ at \in File
    /\ content \in [File -> Version]
    /\ meta \in [File -> 1 .. MaxTime]
    /\ process \in [start : 1 .. MaxExec, exec : 0 .. MaxExec,
                    file : File \cup {None}]
    /\ cache \in [File -> Entry \cup {None}]
    /\ bindings \in [1 .. MaxExec -> Binding \cup {None}]
    /\ locked \in [File -> Task \cup {None}]
    /\ task \in [Task -> Request]
    /\ twice \subseteq File

HashInit ==
    /\ now = 1
    /\ version = 1
    /\ at \in File
    /\ content = [f \in File |-> 1]
    /\ meta = [f \in File |-> 1]
    /\ process = [start |-> 1, exec |-> 0, file |-> None]
    /\ cache = [f \in File |-> None]
    /\ bindings = [s \in 1 .. MaxExec |-> None]
    /\ locked = [f \in File |-> None]
    /\ task = [t \in Task |-> NoTask]
    /\ twice = {}

-----------------------------------------------------------------------------
(* The files and the process. *)

Tick ==
    /\ now < MaxTime
    /\ now' = now + 1
    /\ UNCHANGED <<version, at, content, meta, twice, process, cacheVars, task>>

Change(f) ==
    /\ version < MaxVersion
    /\ process.file # f
    /\ version' = version + 1
    /\ content' = [content EXCEPT ![f] = version']
    /\ meta' = [meta EXCEPT ![f] = now]
    /\ twice' = IF meta[f] = now THEN twice \cup {f} ELSE twice
    /\ UNCHANGED <<now, process, cacheVars, task>>

Write == Change(at) /\ UNCHANGED at

\* Another file is put at the path, with an inode that is free.
Replace(f) ==
    /\ f # at
    /\ \A t \in Task : task[t].fd # f
    /\ Change(f)
    /\ at' = f

\* In the same process, or in a new one that was given its number.
Exec(new) ==
    /\ process.exec < MaxExec
    /\ process' = [start |-> process.start + IF new THEN 1 ELSE 0,
                   exec |-> process.exec + 1, file |-> at]
    /\ process'.start <= MaxExec
    /\ UNCHANGED <<diskVars, cacheVars, task>>

\* It ends, or executes some other program.
Leave ==
    /\ process.file # None
    /\ process' = [process EXCEPT !.file = None]
    /\ UNCHANGED <<diskVars, cacheVars, task>>

-----------------------------------------------------------------------------
(* A request of the process, and a request to change the file. *)

TaskOnly == UNCHANGED <<diskVars, process>>
At(t, pc) == task[t].pc = pc /\ TaskOnly
Becomes(t, r) == task' = [task EXCEPT ![t] = r]
Goto(t, pc) == Becomes(t, [task[t] EXCEPT !.pc = pc])
Answer(t, hash) ==
    Becomes(t, [task[t] EXCEPT !.pc = "bind", !.hash = hash, !.fd = None])

Ask(t) ==
    /\ At(t, "idle")
    /\ process.file # None
    /\ Becomes(t, [NoTask EXCEPT !.pc = "key", !.file = process.file,
                                 !.exec = process.exec])
    /\ UNCHANGED cacheVars

\* invalidate_hash_cache_for_request.
Invalidate(f) ==
    /\ cache[f] # None
    /\ cache' = [cache EXCEPT ![f] = None]
    /\ UNCHANGED <<bindings, locked, task>>
    /\ TaskOnly

\* process_start_time, of the process that has the number now; without one,
\* nothing is bound.
ReadStartTime(t) ==
    /\ At(t, "key")
    /\ \E alive \in BOOLEAN :
           /\ alive \/ process.file = None
           /\ Becomes(t, [task[t] EXCEPT
                              !.pc = IF alive THEN "bound" ELSE "open",
                              !.start = IF alive THEN process.start ELSE 0])
    /\ UNCHANGED cacheVars

BoundTo(b, f) == b # None /\ b.file = f

LookUpBinding(t) ==
    LET b == bindings[task[t].start]
    IN  /\ At(t, "bound")
        /\ IF BoundTo(b, task[t].file)
           THEN Becomes(t, [task[t] EXCEPT
                                !.pc = "done", !.hash = b.hash,
                                !.other = b.exec # task[t].exec])
           ELSE Goto(t, "open")
        /\ UNCHANGED cacheVars

-----------------------------------------------------------------------------
(* get_or_calculate_hash. *)

\* Faulty variant: the path is trusted.
AnyFile(f, g) == TRUE

SameFile(f, g) == f = g

\* What is cached of an open file counts if the metadata is the same; else it
\* is removed.
Cached(f) == cache[f] # None /\ cache[f].time = meta[f]
RemoveStale(f) == cache' = [cache EXCEPT ![f] = None]

Open(t) ==
    /\ At(t, "open")
    /\ IF ~SameFile(at, task[t].file)
       THEN Becomes(t, [task[t] EXCEPT !.pc = "done", !.hash = Failed])
            /\ UNCHANGED cache
       ELSE IF Cached(at) THEN Answer(t, cache[at].hash) /\ UNCHANGED cache
       ELSE Becomes(t, [task[t] EXCEPT !.pc = "lock", !.fd = at])
            /\ RemoveStale(at)
    /\ UNCHANGED <<bindings, locked>>

\* The metadata may have changed, and another task may have been faster.
Lock(t) ==
    LET f == task[t].fd
    IN  /\ At(t, "lock")
        /\ locked[f] = None
        /\ IF Cached(f) THEN Answer(t, cache[f].hash) /\ UNCHANGED <<cache, locked>>
           ELSE /\ locked' = [locked EXCEPT ![f] = t]
                /\ RemoveStale(f)
                /\ Becomes(t, [task[t] EXCEPT !.pc = "read", !.time = meta[f]])
        /\ UNCHANGED bindings

ReadFirst(t) ==
    /\ At(t, "read")
    /\ Becomes(t, [task[t] EXCEPT !.pc = "rest", !.read = content[task[t].fd]])
    /\ UNCHANGED cacheVars

ReadRest(t) ==
    /\ At(t, "rest")
    /\ Becomes(t, [task[t] EXCEPT !.pc = "check",
                                  !.hash = <<task[t].read,
                                             content[task[t].fd]>>])
    /\ UNCHANGED cacheVars

\* Faulty variant: the metadata is not looked at again.
NotLookedAt(before, after) == TRUE

Same(before, after) == before = after

\* If the metadata has changed meanwhile, there is no hash.
CheckAgain(t) ==
    LET f == task[t].fd
    IN  /\ At(t, "check")
        /\ locked' = [locked EXCEPT ![f] = None]
        /\ IF Same(task[t].time, meta[f])
           THEN /\ cache' = [cache EXCEPT ![f] = [time |-> meta[f],
                                                  hash |-> task[t].hash]]
                /\ Answer(t, task[t].hash)
           ELSE /\ Becomes(t, [task[t] EXCEPT !.pc = "done", !.fd = None,
                                              !.hash = Failed])
                /\ UNCHANGED cache
        /\ UNCHANGED bindings

\* The hash is bound to the process whose start time was read.
Bind(t) ==
    /\ At(t, "bind")
    /\ bindings' = IF task[t].start = 0 THEN bindings
                   ELSE [bindings EXCEPT ![task[t].start] =
                             [file |-> task[t].file, hash |-> task[t].hash,
                              exec |-> task[t].exec]]
    /\ Goto(t, "done")
    /\ UNCHANGED <<cache, locked>>

Finish(t) ==
    /\ At(t, "done")
    /\ Becomes(t, NoTask)
    /\ UNCHANGED cacheVars

-----------------------------------------------------------------------------
HashNext ==
    \/ Tick \/ Write \/ Leave
    \/ \E f \in File : Replace(f) \/ Invalidate(f)
    \/ \E new \in BOOLEAN : Exec(new)
    \/ \E t \in Task :
           \/ Ask(t) \/ ReadStartTime(t) \/ LookUpBinding(t) \/ Open(t)
           \/ Lock(t) \/ ReadFirst(t) \/ ReadRest(t) \/ CheckAgain(t)
           \/ Bind(t) \/ Finish(t)

HashSpec == HashInit /\ [][HashNext]_hashVars

-----------------------------------------------------------------------------
(* Properties. *)

IsOneVersion(hash) == hash[1] = hash[2]

\* A hash that is cached, bound or given is of a content the file had as a
\* whole, though it is written while it is read: the metadata is compared
\* before and after.  Two changes the clock does not tell apart may pass
\* (get_or_calculate_hash, mod.rs:744).
HashOfOneVersion ==
    \A f \in File \ twice :
        /\ cache[f] # None => IsOneVersion(cache[f].hash)
        /\ \A s \in DOMAIN bindings :
               BoundTo(bindings[s], f) => IsOneVersion(bindings[s].hash)
        /\ \A t \in Task :
               (task[t].file = f /\ task[t].pc \in {"bind", "done"}
                    /\ task[t].hash # Failed) => IsOneVersion(task[t].hash)

\* As long as the process runs the program it asked with, the hash it is given
\* is of what it runs: not of a file that has come to the path since, nor of a
\* content of before.  Only a binding made for another execution, of a file
\* with the same inode, is not told apart, and two changes at one time
\* (get_or_calculate_bound_program_hash, mod.rs:816; mod.rs:685, mod.rs:700).
HashOfWhatRuns ==
    \A t \in Task :
        LET r == task[t]
        IN  (/\ r.pc = "done" /\ r.hash # Failed
             /\ process.exec = r.exec /\ process.file # None
             /\ ~r.other /\ r.file \notin twice) =>
                r.hash = <<content[r.file], content[r.file]>>

=============================================================================
