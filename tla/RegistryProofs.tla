--------------------------- MODULE RegistryProofs ---------------------------
(***************************************************************************)
(* Registry: its types, who writes notebook files, and who owns kernels,   *)
(* for any paths and any number of sessions.                               *)
(***************************************************************************)
EXTENDS Registry, TLAPS

\* A session that is not stopped is registered, or was replaced.
Unstopped == \A s \in Made : s \notin stopping => Registered(s) \/ s \in overwritten

\* While the server is up, the registry holds no stopped session.
UpUnstopped == server = "up" => \A p \in Paths : sessions[p] \notin stopping

\* A tool call works with a session that is not stopped.
CallsUnstopped == tpc = "call" => server = "up" /\ target \notin stopping

\* When the server is down nothing goes on.
DownIdle == server = "down" => tpc = "free" /\ \A s \in Ids : worker[s] = "idle"

\* Only made sessions have a worker at work.
WorkersMade == \A s \in Ids : worker[s] # "idle" => s \in Made

\* A stopped session has a kernel only if it started that late, or until the
\* end of stop().
StoppedKernels == \A s \in stopping \cap kernel : s \in late \/ (tpc = "stop" /\ target = s)

OwnInv ==
  /\ TypeOK
  /\ Unstopped /\ UpUnstopped /\ CallsUnstopped /\ DownIdle /\ WorkersMade
  /\ StoppedKernels /\ KernelsOwned

----------------------------------------------------------------------------
\* Where there is room, Next1 is a number no session has.
LEMMA FreshId ==
  ASSUME \E s \in Ids : path[s] = None
  PROVE  Next1 \in Ids /\ path[Next1] = None
BY DEF Next1

LEMMA InitType == Init => TypeOK
BY RegistryAssumption DEF Init, TypeOK, Ids, Made

\* What a new session for p does to the registry: s is new, all others stay.
LEMMA NewSessionFacts ==
  ASSUME TypeOK, NEW p \in Paths, NewSession(p)
  PROVE  \E s \in Ids \ Made :
           /\ sessions' = [sessions EXCEPT ![p] = s] /\ path' = [path EXCEPT ![s] = p]
           /\ sessions'[p] = s
           /\ Made' = Made \cup {s}
           /\ sessions' \in [Paths -> Ids \cup {None}] /\ path' \in [Ids -> Paths \cup {None}]
           /\ \A q \in Paths : sessions'[q] # None => path'[sessions'[q]] = q
           /\ Registered(s)'
           /\ \A t \in Made : Registered(t)' <=> Registered(t) /\ path[t] # p
<1>1. Next1 \in Ids /\ path[Next1] = None
  BY FreshId DEF NewSession
<1>2. p # None
  BY RegistryAssumption
<1>0. PICK s \in Ids : s = Next1
  BY <1>1
<1>3. s \in Ids \ Made
  BY <1>0, <1>1 DEF Made
<1>4. sessions' = [sessions EXCEPT ![p] = s] /\ path' = [path EXCEPT ![s] = p]
  BY <1>0 DEF NewSession
<1>5. sessions' \in [Paths -> Ids \cup {None}] /\ path' \in [Ids -> Paths \cup {None}]
  BY <1>3, <1>4 DEF TypeOK
<1>6. sessions'[p] = s /\ path'[s] = p
  BY <1>3, <1>4 DEF TypeOK
<1>7. \A t \in Ids : t # s => path'[t] = path[t]
  BY <1>4 DEF TypeOK
<1>8. \A q \in Paths : q # p => sessions'[q] = sessions[q]
  BY <1>4 DEF TypeOK
<1>9. path[s] = None
  BY <1>3 DEF Made
<1>10. Made' = Made \cup {s}
  BY <1>2, <1>3, <1>6, <1>7 DEF Made, Ids
<1>11. s # None
  BY <1>3, RegistryAssumption DEF Ids
<1>12. \A q \in Paths : sessions'[q] # None => path'[sessions'[q]] = q
  <2> SUFFICES ASSUME NEW q \in Paths, sessions'[q] # None PROVE path'[sessions'[q]] = q
    OBVIOUS
  <2>1. CASE q = p
    BY <2>1, <1>6
  <2>2. CASE q # p
    <3>1. sessions[q] \in Ids /\ path[sessions[q]] = q
      BY <2>2, <1>8 DEF TypeOK
    <3>2. sessions[q] # s
      BY <3>1, <1>9, RegistryAssumption
    <3> QED BY <3>1, <3>2, <2>2, <1>7, <1>8
  <2> QED BY <2>1, <2>2
<1>13. Registered(s)'
  BY <1>2, <1>6 DEF Registered
<1>14. \A t \in Made : Registered(t)' <=> Registered(t) /\ path[t] # p
  <2> SUFFICES ASSUME NEW t \in Made PROVE Registered(t)' <=> Registered(t) /\ path[t] # p
    OBVIOUS
  <2>1. t \in Ids /\ t # s /\ path[t] \in Paths /\ path[t] # None
    BY <1>3 DEF Made, TypeOK
  <2>2. path'[t] = path[t]
    BY <2>1, <1>7
  <2>3. CASE path[t] = p
    BY <2>1, <2>2, <2>3, <1>6 DEF Registered
  <2>4. CASE path[t] # p
    BY <2>1, <2>2, <2>4, <1>8 DEF Registered
  <2> QED BY <2>3, <2>4
<1> QED BY <1>3, <1>4, <1>5, <1>6, <1>10, <1>12, <1>13, <1>14

----------------------------------------------------------------------------
(* Types.                                                                  *)

\* Steps that leave the registry alone keep the types of everything else.
LEMMA QuietTypes ==
  ASSUME TypeOK, UNCHANGED registry,
         file' \subseteq Paths, wrote' \in Ids \cup {None},
         worker' \in [Ids -> {"idle", "taken", "starting", "ready", "running"}],
         stopping' \subseteq Made, kernel' \subseteq Made,
         overwritten' \subseteq Made, late' \subseteq stopping',
         server' \in {"up", "exiting", "down"},
         (tpc' = "free" /\ target' = None) \/ (tpc' \in {"call", "stop"} /\ target' \in Made)
  PROVE  TypeOK' /\ Made' = Made /\ \A s \in Made : Registered(s)' <=> Registered(s)
<1>1. Made' = Made /\ path' = path /\ sessions' = sessions
  BY DEF registry, Made
<1> QED BY <1>1 DEF TypeOK, Registered

\* Every session made is in Ids; the tool's session is one.
LEMMA MadeFacts ==
  ASSUME TypeOK
  PROVE  /\ Made \subseteq Ids /\ None \notin Ids
         /\ \A p \in Paths : sessions[p] # None => sessions[p] \in Made /\ Registered(sessions[p])
         /\ \A s \in Made : path[s] \in Paths /\ path[s] # None
BY RegistryAssumption DEF TypeOK, Made, Ids, Registered

----------------------------------------------------------------------------
(* Each action keeps OwnInv.                                               *)

\* Steps of a worker.
LEMMA WorkerOwn == ASSUME OwnInv, WorkerStep PROVE OwnInv'
<1> USE DEF OwnInv
<1> PICK s \in Ids : Check(s) \/ EnsureStarted(s) \/ WriteBack(s)
  BY DEF WorkerStep
<1>1. s \in Made /\ worker[s] # "idle"
  BY DEF Check, EnsureStarted, WriteBack, WorkersMade
<1>2. server # "down"
  BY <1>1 DEF DownIdle
<1>3. UNCHANGED <<registry, stopping, tool, server, overwritten>>
  BY DEF Check, EnsureStarted, WriteBack
<1>4. /\ worker' \in [Ids -> {"idle", "taken", "starting", "ready", "running"}]
      /\ \A t \in Ids : worker'[t] # "idle" => worker[t] # "idle"
  BY <1>1 DEF Check, EnsureStarted, WriteBack, Goes, TypeOK
<1>5. kernel' \subseteq kernel \cup {s} /\ (kernel' # kernel => s \notin stopping \/ s \in late')
  BY DEF Check, EnsureStarted, WriteBack
<1>6. late \subseteq late' /\ late' \subseteq stopping
  BY DEF Check, EnsureStarted, WriteBack, TypeOK
<1>7. file' \subseteq Paths /\ wrote' \in Ids \cup {None}
  BY MadeFacts, <1>1 DEF Check, EnsureStarted, WriteBack, Save, NoSave, TypeOK
<1>8. TypeOK' /\ Made' = Made /\ \A t \in Made : Registered(t)' <=> Registered(t)
  <2>1. kernel' \subseteq Made /\ stopping' \subseteq Made /\ overwritten' \subseteq Made
        /\ late' \subseteq stopping' /\ server' \in {"up", "exiting", "down"}
    BY <1>1, <1>3, <1>5, <1>6 DEF TypeOK
  <2>2. (tpc' = "free" /\ target' = None) \/ (tpc' \in {"call", "stop"} /\ target' \in Made)
    BY <1>3 DEF TypeOK, tool
  <2>3. UNCHANGED registry
    BY <1>3
  <2> QED BY <1>4, <1>7, <2>1, <2>2, <2>3, QuietTypes
<1>9. Unstopped' /\ UpUnstopped' /\ CallsUnstopped' /\ DownIdle' /\ WorkersMade'
  BY <1>2, <1>3, <1>4, <1>8
  DEF Unstopped, UpUnstopped, CallsUnstopped, DownIdle, WorkersMade, registry, tool
<1>10. StoppedKernels'
  BY <1>3, <1>5, <1>6 DEF StoppedKernels, tool
<1>11. KernelsOwned'
  <2> SUFFICES ASSUME NEW t \in kernel', t \notin overwritten', t \notin late'
               PROVE  (server' # "down" /\ Registered(t)') \/ (tpc' = "stop" /\ target' = t)
    BY DEF KernelsOwned
  <2>1. CASE t \in kernel
    BY <2>1, <1>3, <1>6, <1>8 DEF KernelsOwned, TypeOK, tool
  <2>2. CASE t \notin kernel
    BY <2>2, <1>1, <1>2, <1>3, <1>5, <1>8 DEF Unstopped
  <2> QED BY <2>1, <2>2
<1> QED BY <1>8, <1>9, <1>10, <1>11

\* What the tool thread does with a session, the end of the server, and what
\* happens outside.
LEMMA QuietOwn ==
  ASSUME OwnInv,
         \/ StopKernel \/ Change \/ Submit \/ RestartKernel \/ Exit \/ Outside
         \/ \E s \in Ids : Shutdown(s)
  PROVE  OwnInv'
<1> USE DEF OwnInv
<1>1. CASE StopKernel
  <2>1. UNCHANGED <<registry, worker, stopping, server, overwritten, late, file>>
        /\ kernel' = kernel \ {target} /\ tpc = "stop" /\ tpc' = "free" /\ target' = None /\ wrote' = None
    BY <1>1 DEF StopKernel, KernelsAfterStop, NoSave
  <2>2. TypeOK' /\ Made' = Made /\ \A t \in Made : Registered(t)' <=> Registered(t)
    <3>1. /\ file' \subseteq Paths /\ wrote' \in Ids \cup {None}
          /\ worker' \in [Ids -> {"idle", "taken", "starting", "ready", "running"}]
      BY <2>1 DEF TypeOK
    <3>2. /\ stopping' \subseteq Made /\ kernel' \subseteq Made
          /\ overwritten' \subseteq Made /\ late' \subseteq stopping'
      BY <2>1 DEF TypeOK
    <3>3. /\ server' \in {"up", "exiting", "down"}
          /\ (tpc' = "free" /\ target' = None) \/ (tpc' \in {"call", "stop"} /\ target' \in Made)
      BY <2>1 DEF TypeOK, tool
    <3>4. UNCHANGED registry
      BY <2>1
    <3> QED BY <3>1, <3>2, <3>3, <3>4, QuietTypes
  <2> QED BY <2>1, <2>2 DEF Unstopped, UpUnstopped, CallsUnstopped, DownIdle, WorkersMade,
             StoppedKernels, KernelsOwned, registry, TypeOK
<1>2. CASE Change
  <2>1. UNCHANGED <<registry, worker, stopping, kernel, server, overwritten, late>>
        /\ tpc = "call" /\ tpc' = "free" /\ target' = None
    BY <1>2 DEF Change, Return
  <2>2. file' \subseteq Paths /\ wrote' \in Ids \cup {None}
    BY <1>2, MadeFacts DEF Change, Save, NoSave, TypeOK
  <2>3. TypeOK' /\ Made' = Made /\ \A t \in Made : Registered(t)' <=> Registered(t)
    <3>1. /\ file' \subseteq Paths /\ wrote' \in Ids \cup {None}
          /\ worker' \in [Ids -> {"idle", "taken", "starting", "ready", "running"}]
      BY <2>1, <2>2 DEF TypeOK
    <3>2. /\ stopping' \subseteq Made /\ kernel' \subseteq Made
          /\ overwritten' \subseteq Made /\ late' \subseteq stopping'
      BY <2>1, <2>2 DEF TypeOK
    <3>3. /\ server' \in {"up", "exiting", "down"}
          /\ (tpc' = "free" /\ target' = None) \/ (tpc' \in {"call", "stop"} /\ target' \in Made)
      BY <2>1, <2>2 DEF TypeOK, tool
    <3>4. UNCHANGED registry
      BY <2>1, <2>2
    <3> QED BY <3>1, <3>2, <3>3, <3>4, QuietTypes
  <2> QED BY <2>1, <2>3 DEF Unstopped, UpUnstopped, CallsUnstopped, DownIdle, WorkersMade,
             StoppedKernels, KernelsOwned, registry, TypeOK
<1>3. CASE Submit
  <2>1. UNCHANGED <<registry, stopping, kernel, server, overwritten, late, file>>
        /\ tpc = "call" /\ tpc' = "free" /\ target' = None /\ wrote' = None
    BY <1>3 DEF Submit, Return, NoSave
  <2>2. target \in Made /\ server = "up" /\ worker' = [worker EXCEPT ![target] = "taken"]
    BY <1>3, <2>1 DEF Submit, CallsUnstopped, TypeOK
  <2>3. TypeOK' /\ Made' = Made /\ \A t \in Made : Registered(t)' <=> Registered(t)
    <3>1. /\ file' \subseteq Paths /\ wrote' \in Ids \cup {None}
          /\ worker' \in [Ids -> {"idle", "taken", "starting", "ready", "running"}]
      BY <2>1, <2>2 DEF TypeOK
    <3>2. /\ stopping' \subseteq Made /\ kernel' \subseteq Made
          /\ overwritten' \subseteq Made /\ late' \subseteq stopping'
      BY <2>1, <2>2 DEF TypeOK
    <3>3. /\ server' \in {"up", "exiting", "down"}
          /\ (tpc' = "free" /\ target' = None) \/ (tpc' \in {"call", "stop"} /\ target' \in Made)
      BY <2>1, <2>2 DEF TypeOK, tool
    <3>4. UNCHANGED registry
      BY <2>1, <2>2
    <3> QED BY <3>1, <3>2, <3>3, <3>4, QuietTypes
  <2>4. WorkersMade'
    BY <2>2, <2>3 DEF WorkersMade, TypeOK
  <2> QED BY <2>1, <2>2, <2>3, <2>4 DEF Unstopped, UpUnstopped, CallsUnstopped, DownIdle,
             StoppedKernels, KernelsOwned, registry, TypeOK
<1>4. CASE RestartKernel
  <2>1. UNCHANGED <<registry, worker, stopping, server, overwritten, late, file>>
        /\ tpc = "call" /\ tpc' = "free" /\ target' = None /\ wrote' = None
        /\ kernel' \subseteq kernel \cup {target}
    BY <1>4 DEF RestartKernel, Return, NoSave
  <2>2. target \in Made /\ server = "up" /\ target \notin stopping
    BY <2>1 DEF CallsUnstopped, TypeOK
  <2>3. TypeOK' /\ Made' = Made /\ \A t \in Made : Registered(t)' <=> Registered(t)
    <3>1. /\ file' \subseteq Paths /\ wrote' \in Ids \cup {None}
          /\ worker' \in [Ids -> {"idle", "taken", "starting", "ready", "running"}]
      BY <2>1, <2>2 DEF TypeOK
    <3>2. /\ stopping' \subseteq Made /\ kernel' \subseteq Made
          /\ overwritten' \subseteq Made /\ late' \subseteq stopping'
      BY <2>1, <2>2 DEF TypeOK
    <3>3. /\ server' \in {"up", "exiting", "down"}
          /\ (tpc' = "free" /\ target' = None) \/ (tpc' \in {"call", "stop"} /\ target' \in Made)
      BY <2>1, <2>2 DEF TypeOK, tool
    <3>4. UNCHANGED registry
      BY <2>1, <2>2
    <3> QED BY <3>1, <3>2, <3>3, <3>4, QuietTypes
  <2> QED BY <2>1, <2>2, <2>3 DEF Unstopped, UpUnstopped, CallsUnstopped, DownIdle, WorkersMade,
             StoppedKernels, KernelsOwned, registry, TypeOK
<1>5. CASE Exit
  <2>1. UNCHANGED <<registry, stopping, kernel, tool, overwritten, late, file>>
        /\ tpc = "free" /\ server' = "down" /\ worker' = [t \in Ids |-> "idle"] /\ wrote' = None
    BY <1>5 DEF Exit, NoSave
  <2>2. TypeOK' /\ Made' = Made /\ \A t \in Made : Registered(t)' <=> Registered(t)
    <3>1. /\ file' \subseteq Paths /\ wrote' \in Ids \cup {None}
          /\ worker' \in [Ids -> {"idle", "taken", "starting", "ready", "running"}]
      BY <2>1 DEF TypeOK
    <3>2. /\ stopping' \subseteq Made /\ kernel' \subseteq Made
          /\ overwritten' \subseteq Made /\ late' \subseteq stopping'
      BY <2>1 DEF TypeOK
    <3>3. /\ server' \in {"up", "exiting", "down"}
          /\ (tpc' = "free" /\ target' = None) \/ (tpc' \in {"call", "stop"} /\ target' \in Made)
      BY <2>1 DEF TypeOK, tool
    <3>4. UNCHANGED registry
      BY <2>1
    <3> QED BY <3>1, <3>2, <3>3, <3>4, QuietTypes
  <2>3. \A t \in Ids : Registered(t) => t \in stopping
    BY <1>5 DEF Exit
  <2>4. KernelsOwned'
    BY <2>1, <2>3 DEF KernelsOwned, StoppedKernels, TypeOK, Made
  <2> QED BY <2>1, <2>2, <2>4 DEF Unstopped, UpUnstopped, CallsUnstopped, DownIdle, WorkersMade,
             StoppedKernels, tool, registry
<1>6. CASE Outside
  <2>1. UNCHANGED <<registry, worker, stopping, tool, server, overwritten, late>>
        /\ kernel' \subseteq kernel /\ file' \subseteq Paths /\ wrote' = None
    BY <1>6 DEF Outside, UserDeletes, UserCreates, KernelDies, NoSave, TypeOK
  <2>2. TypeOK' /\ Made' = Made /\ \A t \in Made : Registered(t)' <=> Registered(t)
    <3>1. /\ file' \subseteq Paths /\ wrote' \in Ids \cup {None}
          /\ worker' \in [Ids -> {"idle", "taken", "starting", "ready", "running"}]
      BY <2>1 DEF TypeOK
    <3>2. /\ stopping' \subseteq Made /\ kernel' \subseteq Made
          /\ overwritten' \subseteq Made /\ late' \subseteq stopping'
      BY <2>1 DEF TypeOK
    <3>3. /\ server' \in {"up", "exiting", "down"}
          /\ (tpc' = "free" /\ target' = None) \/ (tpc' \in {"call", "stop"} /\ target' \in Made)
      BY <2>1 DEF TypeOK, tool
    <3>4. UNCHANGED registry
      BY <2>1
    <3> QED BY <3>1, <3>2, <3>3, <3>4, QuietTypes
  <2> QED BY <2>1, <2>2 DEF Unstopped, UpUnstopped, CallsUnstopped, DownIdle, WorkersMade,
             StoppedKernels, KernelsOwned, tool, registry, TypeOK
<1>7. CASE \E s \in Ids : Shutdown(s)
  <2> PICK s \in Ids : Shutdown(s)
    BY <1>7
  <2>1. UNCHANGED <<registry, worker, kernel, overwritten, late, file>> /\ wrote' = None
        /\ server' = "exiting" /\ stopping' = stopping \cup {s} /\ tpc' = "stop" /\ target' = s
        /\ tpc = "free"
    BY DEF Shutdown, NoSave, BeginStop
  <2>2. s \in Made
    BY DEF Shutdown, Registered, Made
  <2>3. TypeOK' /\ Made' = Made /\ \A t \in Made : Registered(t)' <=> Registered(t)
    <3>1. /\ file' \subseteq Paths /\ wrote' \in Ids \cup {None}
          /\ worker' \in [Ids -> {"idle", "taken", "starting", "ready", "running"}]
      BY <2>1, <2>2 DEF TypeOK
    <3>2. /\ stopping' \subseteq Made /\ kernel' \subseteq Made
          /\ overwritten' \subseteq Made /\ late' \subseteq stopping'
      BY <2>1, <2>2 DEF TypeOK
    <3>3. /\ server' \in {"up", "exiting", "down"}
          /\ (tpc' = "free" /\ target' = None) \/ (tpc' \in {"call", "stop"} /\ target' \in Made)
      BY <2>1, <2>2 DEF TypeOK, tool
    <3>4. UNCHANGED registry
      BY <2>1, <2>2
    <3> QED BY <3>1, <3>2, <3>3, <3>4, QuietTypes
  <2>4. server # "down"
    BY DEF Shutdown
  <2> QED BY <2>1, <2>2, <2>3, <2>4 DEF Unstopped, UpUnstopped, CallsUnstopped, DownIdle, WorkersMade,
             StoppedKernels, KernelsOwned, registry, TypeOK
<1> QED BY <1>1, <1>2, <1>3, <1>4, <1>5, <1>6, <1>7

\* get(): the session is there, is evicted, is made, or there is no notebook.
LEMMA GetOwn == ASSUME OwnInv, NEW p \in Paths, Get(p) PROVE OwnInv'
<1> USE DEF OwnInv
<1>1. /\ tpc = "free" /\ server = "up" /\ target = None
      /\ wrote' = None /\ UNCHANGED <<file, worker, server, overwritten, late>>
      /\ kernel' \subseteq kernel
  BY DEF Get, NoSave, TypeOK
<1>2. \A s \in stopping \cap kernel : s \in late
  BY <1>1 DEF StoppedKernels
<1>3. CASE UNCHANGED <<registry, stopping>> /\ ((tpc' = "free" /\ target' = None)
              \/ (tpc' = "call" /\ target' = sessions[p] /\ sessions[p] # None))
  <2>1. /\ file' \subseteq Paths /\ wrote' \in Ids \cup {None}
        /\ worker' \in [Ids -> {"idle", "taken", "starting", "ready", "running"}]
        /\ stopping' \subseteq Made /\ kernel' \subseteq Made
        /\ overwritten' \subseteq Made /\ late' \subseteq stopping'
        /\ server' \in {"up", "exiting", "down"}
    BY <1>1, <1>3 DEF TypeOK
  <2>2. (tpc' = "free" /\ target' = None) \/ (tpc' \in {"call", "stop"} /\ target' \in Made)
    BY <1>3, MadeFacts
  <2>3. UNCHANGED registry
    BY <1>3
  <2>4. TypeOK' /\ Made' = Made /\ \A t \in Made : Registered(t)' <=> Registered(t)
    BY <2>1, <2>2, <2>3, QuietTypes
  <2>5. CallsUnstopped'
    BY <1>1, <1>3 DEF CallsUnstopped, UpUnstopped
  <2> QED BY <1>1, <1>2, <1>3, <2>4, <2>5 DEF Unstopped, UpUnstopped, DownIdle, WorkersMade,
             StoppedKernels, KernelsOwned, registry, TypeOK
<1>4. CASE sessions[p] # None /\ p \notin file
  <2> PICK s \in Made : s = sessions[p] /\ path[s] = p /\ Registered(s)
    BY <1>4, MadeFacts DEF TypeOK
  <2>1. /\ path' = path /\ sessions' = [sessions EXCEPT ![p] = None]
        /\ stopping' = stopping \cup {s} /\ tpc' = "stop" /\ target' = s
    BY <1>4 DEF Get, BeginStop
  <2>2. Made' = Made
    BY <2>1 DEF Made
  <2>3. /\ sessions' \in [Paths -> Ids \cup {None}] /\ sessions'[p] = None
        /\ \A q \in Paths : q # p => sessions'[q] = sessions[q]
    BY <2>1 DEF TypeOK
  <2>4. TypeOK'
    <3>1. \A q \in Paths : sessions'[q] # None => path'[sessions'[q]] = q
      BY <2>1, <2>3 DEF TypeOK
    <3>2. path' \in [Ids -> Paths \cup {None}]
      BY <2>1 DEF TypeOK
    <3>3. /\ stopping' \subseteq Made /\ kernel' \subseteq Made
          /\ overwritten' \subseteq Made /\ late' \subseteq stopping'
      BY <1>1, <2>1 DEF TypeOK
    <3> QED BY <1>1, <2>1, <2>2, <2>3, <3>1, <3>2, <3>3 DEF TypeOK
  <2>5. \A t \in Made : t # s /\ Registered(t) => Registered(t)'
    BY <2>1, <2>3, MadeFacts DEF Registered
  <2>6. Unstopped'
    BY <1>1, <2>1, <2>2, <2>5 DEF Unstopped
  <2>7. UpUnstopped'
    <3> SUFFICES ASSUME NEW q \in Paths PROVE sessions'[q] \notin stopping'
      BY DEF UpUnstopped
    <3>1. CASE q = p
      BY <3>1, <2>1, <2>3, MadeFacts DEF TypeOK
    <3>2. CASE q # p
      BY <3>2, <1>1, <2>1, <2>3, MadeFacts DEF UpUnstopped, TypeOK
    <3> QED BY <3>1, <3>2
  <2>8. CallsUnstopped' /\ DownIdle' /\ WorkersMade'
    BY <1>1, <2>1, <2>2 DEF CallsUnstopped, DownIdle, WorkersMade
  <2>9. StoppedKernels'
    BY <1>1, <1>2, <2>1 DEF StoppedKernels
  <2>10. KernelsOwned'
    <3> SUFFICES ASSUME NEW t \in kernel', t \notin overwritten', t \notin late', t # s
                 PROVE  server' # "down" /\ Registered(t)'
      BY <2>1 DEF KernelsOwned
    <3>1. t \in Made /\ Registered(t)
      BY <1>1 DEF KernelsOwned, TypeOK
    <3> QED BY <1>1, <2>5, <3>1
  <2> QED BY <2>4, <2>6, <2>7, <2>8, <2>9, <2>10
<1>5. CASE sessions[p] = None /\ p \in file
  <2>1. NewSession(p) /\ UNCHANGED stopping /\ tpc' = "call" /\ target' = sessions'[p]
    BY <1>5 DEF Get
  <2> PICK s \in Ids \ Made :
         /\ sessions' = [sessions EXCEPT ![p] = s] /\ path' = [path EXCEPT ![s] = p]
         /\ sessions'[p] = s
         /\ Made' = Made \cup {s}
         /\ sessions' \in [Paths -> Ids \cup {None}] /\ path' \in [Ids -> Paths \cup {None}]
         /\ \A q \in Paths : sessions'[q] # None => path'[sessions'[q]] = q
         /\ Registered(s)'
         /\ \A t \in Made : Registered(t)' <=> Registered(t) /\ path[t] # p
    BY <2>1, NewSessionFacts
  <2>2. \A t \in Made : Registered(t) => Registered(t)'
    BY <1>5, RegistryAssumption DEF Registered, Made, Ids
  <2>3. TypeOK'
    BY <1>1, <2>1 DEF TypeOK
  <2>4. Unstopped' /\ WorkersMade'
    BY <1>1, <2>1, <2>2 DEF Unstopped, WorkersMade
  <2>5. UpUnstopped' /\ CallsUnstopped' /\ DownIdle'
    <3>1. s \notin stopping
      BY DEF TypeOK
    <3>2. \A q \in Paths : q # p => sessions'[q] = sessions[q]
      BY DEF TypeOK
    <3>3. \A q \in Paths : sessions'[q] \notin stopping'
      BY <1>1, <2>1, <3>1, <3>2 DEF UpUnstopped
    <3> QED BY <1>1, <2>1, <3>1, <3>3 DEF UpUnstopped, CallsUnstopped, DownIdle
  <2>6. StoppedKernels'
    BY <1>1, <1>2, <2>1 DEF StoppedKernels
  <2>7. KernelsOwned'
    <3> SUFFICES ASSUME NEW t \in kernel', t \notin overwritten', t \notin late'
                 PROVE  server' # "down" /\ Registered(t)'
      BY DEF KernelsOwned
    <3>1. t \in Made /\ Registered(t)
      BY <1>1 DEF KernelsOwned, TypeOK
    <3> QED BY <1>1, <2>2, <3>1
  <2> QED BY <2>3, <2>4, <2>5, <2>6, <2>7
<1>6. \/ UNCHANGED <<registry, stopping>> /\ ((tpc' = "free" /\ target' = None)
              \/ (tpc' = "call" /\ target' = sessions[p] /\ sessions[p] # None))
      \/ sessions[p] # None /\ p \notin file
      \/ sessions[p] = None /\ p \in file
  BY <1>1 DEF Get, tool
<1> QED BY <1>3, <1>4, <1>5, <1>6

\* register_new(): the session that was there is in overwritten from now on.
LEMMA RegisterNewOwn == ASSUME OwnInv, NEW p \in Paths, RegisterNew(p) PROVE OwnInv'
<1> USE DEF OwnInv
<1>1. /\ tpc = "free" /\ server = "up" /\ wrote' = None /\ file' = file \cup {p}
      /\ NewSession(p)
      /\ overwritten' = overwritten \cup ({sessions[p]} \ {None})
      /\ UNCHANGED <<worker, stopping, kernel, tool, server, late>>
  BY DEF RegisterNew
<1> PICK s \in Ids \ Made :
       /\ sessions' = [sessions EXCEPT ![p] = s] /\ path' = [path EXCEPT ![s] = p]
       /\ sessions'[p] = s
       /\ Made' = Made \cup {s}
       /\ sessions' \in [Paths -> Ids \cup {None}] /\ path' \in [Ids -> Paths \cup {None}]
       /\ \A q \in Paths : sessions'[q] # None => path'[sessions'[q]] = q
       /\ Registered(s)'
       /\ \A t \in Made : Registered(t)' <=> Registered(t) /\ path[t] # p
  BY <1>1, NewSessionFacts
<1>2. \A t \in Made : Registered(t) => Registered(t)' \/ t \in overwritten'
  <2> SUFFICES ASSUME NEW t \in Made, Registered(t), path[t] = p PROVE t \in overwritten'
    OBVIOUS
  <2>1. sessions[p] = t /\ t # None
    BY MadeFacts DEF Registered
  <2> QED BY <1>1, <2>1
<1>3. TypeOK'
  <2>1. overwritten' \subseteq Made
    BY <1>1, MadeFacts DEF TypeOK
  <2>2. tpc' = "free" /\ target' = None
    BY <1>1 DEF tool, TypeOK
  <2> QED BY <1>1, <2>1, <2>2 DEF TypeOK
<1>4. Unstopped' /\ WorkersMade'
  BY <1>1, <1>2 DEF Unstopped, WorkersMade
<1>5. UpUnstopped' /\ CallsUnstopped' /\ DownIdle'
  <2>1. s \notin stopping
    BY DEF TypeOK
  <2>2. \A q \in Paths : q # p => sessions'[q] = sessions[q]
    BY DEF TypeOK
  <2>3. \A q \in Paths : sessions'[q] \notin stopping'
    BY <1>1, <2>1, <2>2 DEF UpUnstopped
  <2> QED BY <1>1, <2>3 DEF UpUnstopped, CallsUnstopped, DownIdle, tool
<1>6. StoppedKernels'
  BY <1>1 DEF StoppedKernels, tool
<1>7. KernelsOwned'
  <2> SUFFICES ASSUME NEW t \in kernel', t \notin overwritten', t \notin late'
               PROVE  server' # "down" /\ Registered(t)'
    BY DEF KernelsOwned
  <2>1. t \in Made /\ Registered(t)
    BY <1>1 DEF KernelsOwned, TypeOK
  <2> QED BY <1>1, <1>2, <2>1
<1> QED BY <1>3, <1>4, <1>5, <1>6, <1>7

----------------------------------------------------------------------------
LEMMA InitOwn == Init => OwnInv
<1> SUFFICES ASSUME Init PROVE OwnInv
  OBVIOUS
<1>1. TypeOK
  BY InitType
<1>2. Made = {} /\ \A p \in Paths : sessions[p] = None
  BY DEF Init, Made
<1> QED BY <1>1, <1>2 DEF Init, OwnInv, Unstopped, UpUnstopped, CallsUnstopped, DownIdle,
           WorkersMade, StoppedKernels, KernelsOwned

LEMMA OwnInductive == OwnInv /\ [Next]_vars => OwnInv'
<1> SUFFICES ASSUME OwnInv, [Next]_vars PROVE OwnInv'
  OBVIOUS
<1>1. CASE ToolStep
  BY <1>1, GetOwn, RegisterNewOwn, QuietOwn DEF ToolStep
<1>2. CASE WorkerStep
  BY <1>2, WorkerOwn
<1>3. CASE Outside
  BY <1>3, QuietOwn
<1>4. CASE UNCHANGED vars
  BY <1>4 DEF vars, registry, tool, OwnInv, TypeOK, Made, Registered, Unstopped, UpUnstopped,
     CallsUnstopped, DownIdle, WorkersMade, StoppedKernels, KernelsOwned
<1> QED BY <1>1, <1>2, <1>3, <1>4 DEF Next

LEMMA SpecOwnInv == Spec => []OwnInv
BY InitOwn, OwnInductive, PTL DEF Spec

----------------------------------------------------------------------------
(* Who writes.                                                             *)

\* Only mutations and write-backs save: over a file that is there, for a
\* session that is not stopped.
LEMMA WriterFacts ==
  ASSUME OwnInv, Next, wrote' # None
  PROVE  /\ wrote' \in Made \ stopping /\ path[wrote'] \in file
         /\ UNCHANGED <<registry, stopping, overwritten>>
<1> USE DEF OwnInv
<1>1. CASE Change
  <2>1. tpc = "call" /\ wrote' = target /\ ~Missing(target)
        /\ UNCHANGED <<registry, stopping, overwritten>>
    BY <1>1 DEF Change, Save, NoSave
  <2> QED BY <2>1 DEF CallsUnstopped, TypeOK, Missing
<1>2. ASSUME NEW s \in Ids, WriteBack(s) PROVE wrote' \in Made \ stopping /\ path[wrote'] \in file
        /\ UNCHANGED <<registry, stopping, overwritten>>
  <2>1. worker[s] = "running" /\ wrote' = s /\ ~Missing(s) /\ s \notin stopping
        /\ UNCHANGED <<registry, stopping, overwritten>>
    BY <1>2 DEF WriteBack, Stopped, Save, NoSave
  <2> QED BY <2>1 DEF WorkersMade, Missing
<1>3. Change \/ \E s \in Ids : WriteBack(s)
  BY DEF Next, ToolStep, WorkerStep, Outside, Get, RegisterNew, StopKernel, Submit, RestartKernel,
     Shutdown, Exit, Check, EnsureStarted, UserDeletes, UserCreates, KernelDies, NoSave
<1> QED BY <1>1, <1>2, <1>3

LEMMA OwnersWrite == OwnInv /\ OnlyOwnersWrite /\ [Next]_vars => OnlyOwnersWrite'
<1> SUFFICES ASSUME OwnInv, OnlyOwnersWrite, [Next]_vars PROVE OnlyOwnersWrite'
  OBVIOUS
<1>1. CASE Next /\ wrote' # None
  <2>1. wrote' \in Made \ stopping /\ UNCHANGED <<registry, stopping, overwritten>>
    BY <1>1, WriterFacts
  <2>2. Registered(wrote') \/ wrote' \in overwritten
    BY <2>1 DEF OwnInv, Unstopped
  <2> QED BY <2>1, <2>2 DEF OnlyOwnersWrite, Registered, registry
<1>2. CASE wrote' = None
  BY <1>2 DEF OnlyOwnersWrite
<1>3. CASE UNCHANGED vars
  BY <1>3 DEF OnlyOwnersWrite, Registered, vars, registry
<1> QED BY <1>1, <1>2, <1>3

----------------------------------------------------------------------------
\* Types: sessions are registered under their own paths, only sessions that
\* were made are stopped, replaced or have kernels, and a tool that is free
\* holds no session.
THEOREM TypeCorrect == Spec => []TypeOK
<1>1. OwnInv => TypeOK
  BY DEF OwnInv
<1> QED BY <1>1, SpecOwnInv, PTL

\* A kernel belongs to a session the registry knows or is stopping, and none
\* survives the server, but for the two ways out KernelsOwned names: a session
\* that create_notebook replaced (register_new()), and a kernel a worker starts
\* after stop().
THEOREM KernelsHaveOwners == Spec => []KernelsOwned
<1>1. OwnInv => KernelsOwned
  BY DEF OwnInv
<1> QED BY <1>1, SpecOwnInv, PTL

\* No session writes a notebook file after its stop(), nor does one the
\* registry does not have, unless register_new() replaced it.
THEOREM OnlyOwnersWriteFiles == Spec => []OnlyOwnersWrite
<1>1. Init => OnlyOwnersWrite
  BY DEF Init, OnlyOwnersWrite
<1> QED BY <1>1, OwnersWrite, SpecOwnInv, PTL DEF Spec

\* disk_changed() before every save(): what a user deleted stays deleted.
THEOREM NotebooksStayDeleted == Spec => NeverResurrected
<1>1. OwnInv /\ [Next]_vars => [wrote' # None => path[wrote'] \in file]_vars
  BY WriterFacts
<1> QED BY <1>1, SpecOwnInv, PTL DEF Spec, NeverResurrected
=============================================================================
