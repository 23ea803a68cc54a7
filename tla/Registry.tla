------------------------------ MODULE Registry ------------------------------
(***************************************************************************)
(* Registry (session.py): which session serves which notebook, and what    *)
(* becomes of its executor and its kernel process when the notebook is     *)
(* deleted, created again, or the server exits.  The tools run one after   *)
(* the other in one thread; every session has a worker, which is here at   *)
(* most one run; users delete and create files at any time.                *)
(***************************************************************************)
EXTENDS Naturals

CONSTANTS
  Paths,
  MaxSessions,  \* bound: NotebookSessions made
  None

ASSUME RegistryAssumption ==
  MaxSessions \in Nat /\ None \notin 1..MaxSessions /\ None \notin Paths

VARIABLES
  file,         \* the paths where there is a file
  sessions,     \* Registry._sessions
  path,         \* NotebookSession.path; None for a session not made yet
  worker,       \* where the session's executor is in _run_task
  stopping,     \* the sessions with _stopping
  kernel,       \* the sessions with a kernel process
  tpc, target,  \* what the tool thread does, and with which session
  server,
  wrote,        \* history: the session whose save() this step was
  overwritten,  \* history: sessions register_new() put another in place of
  late          \* history: sessions that started a kernel after stop() began

registry == <<sessions, path>>
tool     == <<tpc, target>>
vars     == <<file, registry, worker, stopping, kernel, tool, server, wrote, overwritten, late>>

Ids   == 1..MaxSessions
Made  == {s \in Ids : path[s] # None}
Next1 == CHOOSE s \in Ids : path[s] = None

Registered(s) == path[s] # None /\ sessions[path[s]] = s
Busy(s)       == worker[s] # "idle"

Init ==
  /\ file \in SUBSET Paths
  /\ sessions = [p \in Paths |-> None] /\ path = [s \in Ids |-> None]
  /\ worker = [s \in Ids |-> "idle"] /\ stopping = {} /\ kernel = {}
  /\ tpc = "free" /\ target = None /\ server = "up"
  /\ wrote = None /\ overwritten = {} /\ late = {}

----------------------------------------------------------------------------
(* The notebook file, as far as it may be gone.                            *)

ChangedIfThere(s) == FALSE \* mutant: a file that is gone counts as unchanged

\* disk_changed(): the file cannot be loaded, and load() raises.  (If it was
\* changed, it is read before it is written.)
Missing(s) == path[s] \notin file

\* save() makes the file if it has to.
Save(s) == file' = file \cup {path[s]} /\ wrote' = s

NoSave == UNCHANGED file /\ wrote' = None

----------------------------------------------------------------------------
(* Registry.                                                               *)

NewSession(p) ==
  /\ \E s \in Ids : path[s] = None
  /\ path' = [path EXCEPT ![Next1] = p]
  /\ sessions' = [sessions EXCEPT ![p] = Next1]

\* expire_idle_kernel() of every registered session: those that were idle for
\* too long lose their kernel.
Expirable == {s \in kernel : Registered(s) /\ ~Busy(s)}

BeginStop(s) == stopping' = stopping \cup {s} /\ tpc' = "stop" /\ target' = s

\* get(), first of all in every tool but create_notebook.
Get(p) ==
  /\ tpc = "free" /\ server = "up"
  /\ \E expired \in SUBSET Expirable : kernel' = kernel \ expired
  /\ \/ /\ sessions[p] # None /\ p \in file
        /\ tpc' = "call" /\ target' = sessions[p]
        /\ UNCHANGED <<registry, stopping>>
     \/ /\ sessions[p] # None /\ p \notin file \* evict()
        /\ sessions' = [sessions EXCEPT ![p] = None]
        /\ BeginStop(sessions[p])
        /\ UNCHANGED path
     \/ /\ sessions[p] = None /\ p \in file
        /\ NewSession(p)
        /\ tpc' = "call" /\ target' = sessions'[p]
        /\ UNCHANGED stopping
     \/ /\ sessions[p] = None /\ p \notin file
        /\ UNCHANGED <<registry, stopping, tool>>
  /\ NoSave
  /\ UNCHANGED <<worker, server, overwritten, late>>

\* register_new(): the session that served a deleted notebook is replaced, and
\* not stopped.
RegisterNew(p) ==
  /\ tpc = "free" /\ server = "up"
  /\ p \notin file
  /\ file' = file \cup {p} /\ wrote' = None
  /\ NewSession(p)
  /\ overwritten' = overwritten \cup ({sessions[p]} \ {None})
  /\ UNCHANGED <<worker, stopping, kernel, tool, server, late>>

KernelsKeptBusy(s) == IF Busy(s) THEN kernel ELSE kernel \ {s} \* mutant: a busy kernel is only interrupted
KernelsAfterStop(s) == kernel \ {s}

\* The end of stop(): interrupt() and shutdown_kernel().
StopKernel ==
  /\ tpc = "stop"
  /\ kernel' = KernelsAfterStop(target)
  /\ tpc' = "free" /\ target' = None
  /\ NoSave
  /\ UNCHANGED <<registry, worker, stopping, server, overwritten, late>>

----------------------------------------------------------------------------
(* What a tool does with the session it got.                               *)

ReturnHolding == tpc' = "free" /\ UNCHANGED target \* mutant: the session is not let go
Return        == tpc' = "free" /\ target' = None

\* mutate() and undo_last: guard_mutation() raises, or the file is written.
Change ==
  /\ tpc = "call"
  /\ IF Missing(target) THEN NoSave ELSE Save(target)
  /\ Return
  /\ UNCHANGED <<registry, worker, stopping, kernel, server, overwritten, late>>

\* submit_cells().
Submit ==
  /\ tpc = "call"
  /\ ~Busy(target) /\ ~Missing(target)
  /\ worker' = [worker EXCEPT ![target] = "taken"]
  /\ NoSave /\ Return
  /\ UNCHANGED <<registry, stopping, kernel, server, overwritten, late>>

\* restart_kernel.
RestartKernel ==
  /\ tpc = "call"
  /\ ~Busy(target)
  /\ kernel' \in {kernel \cup {target}, kernel \ {target}}
  /\ NoSave /\ Return
  /\ UNCHANGED <<registry, worker, stopping, server, overwritten, late>>

----------------------------------------------------------------------------
(* A worker.                                                               *)

Goes(s, to) == worker' = [worker EXCEPT ![s] = to]

\* _run_task() looks at _stopping when it begins ...
Check(s) ==
  /\ worker[s] = "taken"
  /\ Goes(s, IF s \in stopping THEN "idle" ELSE "starting")
  /\ NoSave
  /\ UNCHANGED <<registry, stopping, kernel, tool, server, overwritten, late>>

\* ... and ensure_started(), called here and again by execute(), does not.
EnsureStarted(s) ==
  /\ worker[s] \in {"starting", "ready"}
  /\ \/ /\ kernel' = kernel \cup {s}
        /\ late' = IF s \in stopping THEN late \cup {s} ELSE late
        /\ Goes(s, IF worker[s] = "starting" THEN "ready" ELSE "running")
     \/ /\ s \notin kernel
        /\ Goes(s, "idle") /\ UNCHANGED <<kernel, late>>
  /\ NoSave
  /\ UNCHANGED <<registry, stopping, tool, server, overwritten>>

StoppedForgotten(s) == FALSE \* mutant: the second check of _stopping is dropped
Stopped(s)          == s \in stopping

\* The cell is over, and its outcome is written back.
WriteBack(s) ==
  /\ worker[s] = "running"
  /\ IF Stopped(s) \/ Missing(s) THEN NoSave ELSE Save(s)
  /\ Goes(s, "idle")
  /\ UNCHANGED <<registry, stopping, kernel, tool, server, overwritten, late>>

----------------------------------------------------------------------------
(* The environment, and the end of the server.                             *)

UserDeletes(p) ==
  /\ p \in file /\ file' = file \ {p} /\ wrote' = None
  /\ UNCHANGED <<registry, worker, stopping, kernel, tool, server, overwritten, late>>

UserCreates(p) ==
  /\ p \notin file /\ file' = file \cup {p} /\ wrote' = None
  /\ UNCHANGED <<registry, worker, stopping, kernel, tool, server, overwritten, late>>

KernelDies(s) ==
  /\ s \in kernel /\ kernel' = kernel \ {s}
  /\ NoSave
  /\ UNCHANGED <<registry, worker, stopping, tool, server, overwritten, late>>

\* shutdown_all(), at exit: one session after the other is stopped.
Shutdown(s) ==
  /\ tpc = "free" /\ server \in {"up", "exiting"}
  /\ Registered(s) /\ s \notin stopping
  /\ server' = "exiting"
  /\ BeginStop(s)
  /\ NoSave
  /\ UNCHANGED <<registry, worker, kernel, overwritten, late>>

\* The workers are daemon threads: they go with the process.
Exit ==
  /\ tpc = "free" /\ server # "down"
  /\ \A s \in Ids : Registered(s) => s \in stopping
  /\ server' = "down"
  /\ worker' = [s \in Ids |-> "idle"]
  /\ NoSave
  /\ UNCHANGED <<registry, stopping, kernel, tool, overwritten, late>>

----------------------------------------------------------------------------
ToolStep ==
  \/ \E p \in Paths : Get(p) \/ RegisterNew(p)
  \/ StopKernel \/ Change \/ Submit \/ RestartKernel
  \/ \E s \in Ids : Shutdown(s)
  \/ Exit

WorkerStep == \E s \in Ids : Check(s) \/ EnsureStarted(s) \/ WriteBack(s)

Outside ==
  \/ \E p \in Paths : UserDeletes(p) \/ UserCreates(p)
  \/ \E s \in Ids : KernelDies(s)

Next == ToolStep \/ WorkerStep \/ Outside

Spec == Init /\ [][Next]_vars

----------------------------------------------------------------------------
(* Properties.                                                             *)

TypeOK ==
  /\ file \subseteq Paths
  /\ sessions \in [Paths -> Ids \cup {None}] /\ path \in [Ids -> Paths \cup {None}]
  /\ \A p \in Paths : sessions[p] # None => path[sessions[p]] = p
  /\ worker \in [Ids -> {"idle", "taken", "starting", "ready", "running"}]
  /\ stopping \subseteq Made /\ kernel \subseteq Made
  /\ tpc \in {"free", "call", "stop"}
  /\ IF tpc = "free" THEN target = None ELSE target \in Made
  /\ server \in {"up", "exiting", "down"}
  /\ wrote \in Ids \cup {None}
  /\ overwritten \subseteq Made /\ late \subseteq stopping

\* The server brings no deleted notebook back: it only writes where there is a
\* file, whenever that went (_run_task: "it may have been deleted - a save
\* would resurrect it").
NeverResurrected == [][wrote' # None => path[wrote'] \in file]_vars

\* A session that was stopped writes nothing, and neither does one that lost
\* its notebook to another session, unless create_notebook put that there.
OnlyOwnersWrite ==
  wrote # None => wrote \notin stopping /\ (Registered(wrote) \/ wrote \in overwritten)

\* A kernel process belongs to a session the registry knows, or to the one that
\* is being stopped, and none survives the server.  There are two ways out:
\* create_notebook replaces the session of a deleted notebook without stopping
\* it, and a worker past its check starts a kernel after stop().
KernelsOwned ==
  \A s \in kernel \ (overwritten \cup late) :
    \/ server # "down" /\ Registered(s)
    \/ tpc = "stop" /\ target = s
=============================================================================
