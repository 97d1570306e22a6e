--------------------------- MODULE LifecycleProofs ---------------------------
(***************************************************************************)
(* Theorems of Lifecycle, for any number of processes and any plists, and    *)
(* any sequence of scripts, crashes, signals and logins.                    *)
(***************************************************************************)
EXTENDS Lifecycle, TLAPS

(***************************************************************************)
(* The job's process is the only one alive, it is past its first step only  *)
(* when it has made its directory and tried to clear the marker, and a       *)
(* script that removes files has the job booted out.                        *)
(***************************************************************************)
OneProcess ==
  \A d \in Daemon : pc[d] \in D!Alive => d = instance /\ job # "none"

Prepared ==
  /\ prepared \in {"no", "cleared", "kept"}
  /\ \A d \in Daemon : pc[d] \in D!Alive =>
       /\ pc[d] = "probe" \/ prepared # "no"
       /\ prepared = "cleared" => marker \in {None, d}

Reachable ==
  \A d \in Daemon : job = "loaded" /\ pc[d] \in {"chmod", "loop"} => socket = d

BootedOut == at \in {"rm_plist", "rm_socket", "rmdir"} => job # "loaded"

PInv == /\ pc \in [Daemon -> D!Alive \cup {"off", "dead"}]
        /\ OneProcess /\ Prepared /\ Reachable /\ BootedOut

\* What a step of the process may do to the sockets and the labels.
LEMMA DaemonMoves ==
  ASSUME PInv, NEW d \in Daemon, D!Sigterm(d) \/ D!Kill(d)
  PROVE  /\ pc[d] \in D!Alive
         /\ pc' = pc \/ pc' = [pc EXCEPT ![d] = "dead"]
         /\ UNCHANGED socket
BY DEF D!Sigterm, D!Kill, D!Die, D!Goto

\* The end of a process, or a signal it survives, breaks nothing.
LEMMA EndKeeps ==
  ASSUME PInv, NEW d \in Daemon,
         pc' = pc \/ pc' = [pc EXCEPT ![d] = "dead"],
         UNCHANGED <<socket, prepared, instance, job, marker, at>>
  PROVE  PInv'
BY DEF PInv, OneProcess, Prepared, Reachable, BootedOut, D!Alive, D!Starting

LEMMA ProcessKeeps ==
  ASSUME PInv, NEW d \in Daemon, ProcessStep(d)
  PROVE  PInv'
<1> USE LifecycleAssumption
        DEF PInv, OneProcess, Prepared, Reachable, BootedOut, D!Alive, D!Starting,
            daemonVars, scriptVars, jobVars, fileVars
<1>1. CASE Prepare(d)
  <2>1. /\ d = instance /\ prepared' \in {"cleared", "kept"}
        /\ prepared' = "cleared" => marker' = None
        /\ UNCHANGED <<pc, socket, instance, job, at>>
    BY <1>1 DEF Prepare, Clear
  <2> QED
    BY <2>1
<1>2. CASE Startup(d)
  <2>1. d = instance /\ prepared # "no" /\ UNCHANGED <<prepared, instance, job, marker, at>>
    BY <1>2 DEF Startup, Ending
  <2>2. CASE D!Probe(d) \/ D!Unlink(d) \/ D!Bind(d) \/ D!Chmod(d)
    <3>1. CASE D!Probe(d)
      BY <2>1, <3>1 DEF D!Probe, D!Goto
    <3>2. CASE D!Unlink(d)
      BY <2>1, <3>2 DEF D!Unlink, D!Die, D!Goto
    <3>3. CASE D!Bind(d)
      BY <2>1, <3>3 DEF D!Bind, D!Die, D!Goto
    <3>4. CASE D!Chmod(d)
      BY <2>1, <3>4 DEF D!Chmod, D!Goto
    <3> QED
      BY <2>2, <3>1, <3>2, <3>3, <3>4
  <2>3. CASE D!Kill(d)
    BY <2>1, <2>3, DaemonMoves, EndKeeps
  <2> QED
    BY <1>2, <2>2, <2>3 DEF Startup
<1>3. CASE Run(d)
  <2>1. d = instance /\ UNCHANGED <<prepared, instance, job, marker, at>>
    BY <1>3 DEF Run
  <2>2. CASE D!Arm(d)
    BY <2>1, <2>2 DEF D!Arm
  <2>3. CASE D!TakeSignal(d) \/ D!Cleanup(d)
    BY <2>1, <2>3 DEF D!TakeSignal, D!Cleanup, D!Goto
  <2>4. CASE D!Exit(d)
    BY <2>1, <2>4 DEF D!Exit, D!Die, D!Goto
  <2> QED
    BY <1>3, <2>2, <2>3, <2>4 DEF Run
<1> QED
  BY <1>1, <1>2, <1>3 DEF ProcessStep

LEMMA EventsKeep ==
  ASSUME PInv, NEW d \in Daemon,
         Launch(d) \/ Stop(d) \/ Accepts(d) \/ Mark(d) \/ Crash(d) \/ KilledByHand(d)
  PROVE  PInv'
<1>1. CASE Launch(d)
  BY <1>1
  DEF Launch, D!Start, D!Goto, PInv, OneProcess, Prepared, Reachable, BootedOut,
      D!Alive, D!Starting, fileVars, scriptVars
<1>2. CASE Stop(d) \/ Crash(d) \/ KilledByHand(d)
  <2>1. /\ D!Sigterm(d) \/ D!Kill(d)
        /\ UNCHANGED <<prepared, instance, job, marker, at>>
    BY <1>2 DEF Stop, Crash, KilledByHand, Ending, jobVars, fileVars, scriptVars
  <2> QED
    BY <2>1, DaemonMoves, EndKeeps
<1>3. CASE Accepts(d)
  BY <1>3
  DEF Accepts, PInv, OneProcess, Prepared, Reachable, BootedOut,
      processVars, jobVars, fileVars, scriptVars
<1>4. CASE Mark(d)
  <2>1. pc[d] \in D!Alive /\ marker' \in {marker, d}
        /\ UNCHANGED <<pc, socket, prepared, instance, job, at>>
    BY <1>4 DEF Mark, D!Serving, D!Alive, daemonVars, processVars, jobVars, scriptVars
  <2> QED
    BY <2>1 DEF PInv, OneProcess, Prepared, Reachable, BootedOut
<1> QED
  BY <1>1, <1>2, <1>3, <1>4

\* launchd loads a job where no process is alive.
LEMMA LoginKeeps ==
  ASSUME PInv, Login
  PROVE  PInv' /\ \A d \in Daemon : pc'[d] \notin D!Alive
<1>1. /\ IF Alive(instance) THEN D!Kill(instance) ELSE UNCHANGED daemonVars
      /\ UNCHANGED marker
      /\ at' = "idle"
  BY DEF Login, fileVars
<1>2. /\ \A d \in Daemon : pc'[d] \notin D!Alive
      /\ pc' \in [Daemon -> D!Alive \cup {"off", "dead"}]
  <2>1. CASE Alive(instance)
    <3>1. D!Kill(instance)
      BY <1>1, <2>1
    <3>2. pc' = [pc EXCEPT ![instance] = "dead"]
      BY <3>1 DEF D!Kill, D!Die, D!Goto
    <3> QED
      BY <3>2 DEF PInv, OneProcess, D!Alive, D!Starting
  <2>2. CASE ~Alive(instance)
    BY <1>1, <2>2, LifecycleAssumption DEF Alive, PInv, OneProcess, daemonVars
  <2> QED
    BY <2>1, <2>2
<1>3. prepared' \in {"no", "cleared", "kept"}
  BY DEF Login, Load, processVars, PInv, Prepared
<1> QED
  BY <1>1, <1>2, <1>3
  DEF PInv, OneProcess, Prepared, Reachable, BootedOut, D!Alive, D!Starting

LEMMA ScriptKeeps ==
  ASSUME PInv, ScriptStep \/ Gone \/ \E s \in Script : Begin(s)
  PROVE  PInv'
<1> USE DEF PInv, OneProcess, Prepared, Reachable, BootedOut, GoOn, End,
            daemonVars, processVars, jobVars, fileVars, scriptVars
<1>1. CASE \E s \in Script : Begin(s)
  <2>1. PICK s \in Script : Begin(s)
    BY <1>1
  <2>2. at' \in {"render", "check", "bootout"}
    BY <2>1 DEF Begin, FirstStep, Script
  <2> QED
    BY <2>1, <2>2 DEF Begin
<1>2. CASE Render \/ EnsureDirs \/ CheckLoaded \/ WaitSocketGone
  BY <1>2 DEF Render, EnsureDirs, CheckLoaded, WaitSocketGone
<1>3. CASE Bootout
  BY <1>3 DEF Bootout, LaunchctlBootout
<1>4. CASE Bootstrap
  <2>1. at' = "kickstart" /\ UNCHANGED <<pc, socket, marker>>
    BY <1>4 DEF Bootstrap
  <2>2. CASE job = "none" /\ plist # None
    <3>1. \A d \in Daemon : pc[d] \notin D!Alive
      BY <2>2
    <3>2. prepared' = "no"
      BY <1>4, <2>2 DEF Bootstrap, Load
    <3> QED
      BY <2>1, <3>1, <3>2 DEF D!Alive, D!Starting
  <2>3. CASE ~(job = "none" /\ plist # None)
    BY <1>4, <2>1, <2>3 DEF Bootstrap
  <2> QED
    BY <2>2, <2>3
<1>5. CASE Kickstart
  BY <1>5 DEF Kickstart
<1>6. CASE RemovePlist
  BY <1>6 DEF RemovePlist
<1>7. CASE RemoveSocket
  BY <1>7 DEF RemoveSocket
<1>8. CASE RemoveDir
  BY <1>8 DEF RemoveDir
<1>9. CASE Gone
  BY <1>9, LifecycleAssumption DEF Gone, Alive
<1> QED
  BY <1>1, <1>2, <1>3, <1>4, <1>5, <1>6, <1>7, <1>8, <1>9 DEF ScriptStep

LEMMA InitPInv == Init => PInv
BY LifecycleAssumption
DEF Init, D!Init, PInv, OneProcess, Prepared, Reachable, BootedOut, D!Alive, D!Starting

LEMMA NextPInv == PInv /\ [Next]_vars => PInv'
<1> SUFFICES ASSUME PInv, [Next]_vars PROVE PInv'
  OBVIOUS
<1>1. CASE UNCHANGED vars
  BY <1>1 DEF vars, PInv, OneProcess, Prepared, Reachable, BootedOut
<1>2. CASE Login
  BY <1>2, LoginKeeps
<1>3. CASE ScriptStep \/ Gone \/ \E s \in Script : Begin(s)
  BY <1>3, ScriptKeeps
<1>4. ASSUME NEW d \in Daemon, ProcessStep(d) PROVE PInv'
  BY <1>4, ProcessKeeps
<1>5. ASSUME NEW d \in Daemon,
             Launch(d) \/ Stop(d) \/ Accepts(d) \/ Mark(d) \/ Crash(d) \/ KilledByHand(d)
      PROVE  PInv'
  BY <1>5, EventsKeep
<1> QED
  BY <1>1, <1>2, <1>3, <1>4, <1>5 DEF Next

LEMMA AlwaysPInv == Spec => []PInv
<1> QED
  BY InitPInv, NextPInv, PTL DEF Spec

\* No script and no other process takes the socket file away from the loaded
\* agent (main.rs:111-113, uninstall-agent.sh:100-112), whatever the scripts, logins,
\* crashes and signals before.
THEOREM LoadedAgentsAreReachable == Spec => []LoadedIsReachable
<1>1. PInv => LoadedIsReachable
  BY DEF PInv, OneProcess, Reachable, LoadedIsReachable, D!Alive, D!Starting
<1> QED
  BY AlwaysPInv, <1>1, PTL

\* A daemon that has bound, and did not fail to remove the marker it found, shows no
\* marker but its own (degraded.rs:34-47, main.rs:92-94), whatever earlier processes
\* left and whichever of them failed to remove it.
THEOREM MarkersAreCurrent == Spec => []MarkerIsCurrent
<1>1. PInv => MarkerIsCurrent
  BY DEF PInv, Prepared, MarkerIsCurrent, D!Alive, D!Starting
<1> QED
  BY AlwaysPInv, <1>1, PTL
-------------------------------------------------------------------------------
(***************************************************************************)
(* A restart.  It boots the job out before it loads it, and what it loads    *)
(* is on disk until a script removes or replaces it.                        *)
(***************************************************************************)
Loaded == job = "loaded" /\ config = plist

RestartOK ==
  /\ job \in {"none", "loaded", "leaving"}
  /\ at # "idle" => status = "none"
  /\ script.verb = "restart" =>
       /\ at \in {"idle", "check", "bootout", "wait", "bootstrap", "kickstart"}
       /\ at \in {"bootout", "wait", "bootstrap", "kickstart"} => plist # None
       /\ at \in {"wait", "bootstrap"} => job # "loaded"
       /\ at = "kickstart" /\ ~early => Loaded
       /\ at = "idle" /\ status = "ok" => plist # None /\ (~early => Loaded)

\* Steps of processes do not reach it.
LEMMA ProcessesApart ==
  ASSUME NEW d \in Daemon,
         \/ ProcessStep(d) \/ Launch(d) \/ Stop(d)
         \/ Accepts(d) \/ Mark(d) \/ Crash(d) \/ KilledByHand(d)
  PROVE  UNCHANGED <<job, config, plist, script, at, early, status>>
<1> USE DEF jobVars, fileVars, scriptVars
<1>1. CASE ProcessStep(d)
  BY <1>1 DEF ProcessStep, Prepare, Startup, Run, Ending
<1>2. CASE Launch(d) \/ Accepts(d) \/ Mark(d)
  BY <1>2 DEF Launch, Accepts, Mark
<1>3. CASE Stop(d) \/ Crash(d) \/ KilledByHand(d)
  BY <1>3 DEF Stop, Crash, KilledByHand, Ending
<1> QED
  BY <1>1, <1>2, <1>3

LEMMA NextRestart == RestartOK /\ [Next]_vars => RestartOK'
<1> SUFFICES ASSUME RestartOK, [Next]_vars PROVE RestartOK'
  OBVIOUS
<1> USE DEF RestartOK, Loaded, GoOn, End, jobVars, fileVars, scriptVars
<1>1. CASE UNCHANGED vars
  BY <1>1 DEF vars
<1>2. ASSUME NEW s \in Script, Begin(s) PROVE RestartOK'
  BY <1>2 DEF Begin, FirstStep, Script
<1>3. CASE Render \/ EnsureDirs
  BY <1>3 DEF Render, EnsureDirs
<1>4. CASE CheckLoaded
  BY <1>4 DEF CheckLoaded
<1>5. CASE Bootout
  BY <1>5 DEF Bootout, LaunchctlBootout
<1>6. CASE WaitSocketGone
  BY <1>6 DEF WaitSocketGone
<1>7. CASE Bootstrap
  BY <1>7 DEF Bootstrap, Load
<1>8. CASE Kickstart
  BY <1>8 DEF Kickstart
<1>9. CASE RemovePlist \/ RemoveSocket \/ RemoveDir
  BY <1>9 DEF RemovePlist, RemoveSocket, RemoveDir
<1>10. CASE Gone
  BY <1>10 DEF Gone
<1>11. CASE Login
  BY <1>11 DEF Login, Load
<1>12. ASSUME NEW d \in Daemon,
              \/ ProcessStep(d) \/ Launch(d) \/ Stop(d)
              \/ Accepts(d) \/ Mark(d) \/ Crash(d) \/ KilledByHand(d)
       PROVE  RestartOK'
  BY <1>12, ProcessesApart
<1> QED
  BY <1>1, <1>2, <1>3, <1>4, <1>5, <1>6, <1>7, <1>8, <1>9, <1>10, <1>11, <1>12
     DEF Next, ScriptStep

LEMMA AlwaysRestart == Spec => []RestartOK
<1>1. Init => RestartOK
  BY DEF Init, RestartOK
<1> QED
  BY <1>1, NextRestart, PTL DEF Spec

\* After a restart that exits 0 the job runs the plist on disk
\* (install-lifecycle.md:157-159), unless the old process outlived the wait
\* (restart-agent.sh:92-105).
THEOREM RestartsReload == Spec => []RestartReloads
<1>1. RestartOK => RestartReloads
  BY DEF RestartOK, RestartReloads, Loaded
<1> QED
  BY <1>1, AlwaysRestart, PTL
-------------------------------------------------------------------------------
(***************************************************************************)
(* An uninstall.  Once the job is booted out and its process gone, nothing   *)
(* of the daemon moves, so what the script removes stays removed.           *)
(***************************************************************************)
Uninstalled ==
  /\ plist = None /\ job # "loaded"
  /\ ~early =>
       /\ job = "none"
       /\ script.purge => socket = None /\ (dir => marker # None)

UninstallOK ==
  /\ at # "idle" => status = "none"
  /\ script.verb = "uninstall" =>
       /\ at \in {"idle", "bootout", "rm_plist", "rm_socket", "rmdir"}
       /\ at \in {"rm_socket", "rmdir"} => plist = None /\ (~early => job = "none")
       /\ at = "rmdir" /\ ~early => socket = None
       /\ at = "idle" /\ status = "ok" => Uninstalled

\* Without a job, no process takes a step.
LEMMA NoJobNoSteps ==
  ASSUME PInv, job = "none", NEW d \in Daemon,
         \/ ProcessStep(d) \/ Launch(d) \/ Stop(d)
         \/ Accepts(d) \/ Mark(d) \/ Crash(d) \/ KilledByHand(d)
  PROVE  FALSE
<1>1. pc[d] \notin D!Alive
  BY DEF PInv, OneProcess
<1> USE DEF D!Alive, D!Starting
<1>2. CASE Prepare(d) \/ Accepts(d) \/ Mark(d) \/ Launch(d)
  BY <1>1, <1>2 DEF Prepare, Accepts, Mark, Launch, D!Serving
<1>3. CASE Startup(d)
  BY <1>1, <1>3 DEF Startup, D!Probe, D!Unlink, D!Bind, D!Chmod, D!Kill
<1>4. CASE Run(d)
  BY <1>1, <1>4 DEF Run, D!Arm, D!TakeSignal, D!Cleanup, D!Exit
<1>5. CASE Stop(d) \/ Crash(d) \/ KilledByHand(d)
  BY <1>1, <1>5 DEF Stop, Crash, KilledByHand, D!Sigterm, D!Kill
<1> QED
  BY <1>2, <1>3, <1>4, <1>5 DEF ProcessStep

LEMMA NextUninstall == PInv /\ RestartOK /\ UninstallOK /\ [Next]_vars => UninstallOK'
<1> SUFFICES ASSUME PInv, RestartOK, UninstallOK, [Next]_vars PROVE UninstallOK'
  OBVIOUS
<1> USE DEF UninstallOK, Uninstalled, GoOn, End
<1>1. CASE UNCHANGED vars
  BY <1>1 DEF vars
<1>2. ASSUME NEW s \in Script, Begin(s) PROVE UninstallOK'
  BY <1>2 DEF Begin, FirstStep, Script
<1>3. CASE Render \/ EnsureDirs \/ CheckLoaded \/ WaitSocketGone \/ Bootstrap \/ Kickstart
  BY <1>3 DEF Render, EnsureDirs, CheckLoaded, WaitSocketGone, Bootstrap, Kickstart
<1>4. CASE Bootout
  BY <1>4 DEF Bootout
<1>5. CASE RemovePlist
  <2>1. job # "loaded" /\ UNCHANGED <<job, script>>
    BY <1>5 DEF RemovePlist, PInv, BootedOut, jobVars
  <2>2. ~early' => job = "none"
    BY <1>5, <2>1 DEF RemovePlist, RestartOK
  <2> QED
    BY <1>5, <2>1, <2>2 DEF RemovePlist
<1>6. CASE RemoveSocket
  BY <1>6 DEF RemoveSocket, jobVars, fileVars
<1>7. CASE RemoveDir
  BY <1>7 DEF RemoveDir, PInv, BootedOut, jobVars, daemonVars
<1>8. CASE Gone
  BY <1>8 DEF Gone, daemonVars, fileVars, scriptVars
<1>9. CASE Login
  <2>1. UNCHANGED <<socket, plist, dir, marker, script, early>>
    BY <1>9 DEF Login, fileVars, daemonVars, D!Kill, D!Die
  <2>2. /\ at' = "idle" /\ (at # "idle" => status' = "killed")
        /\ at = "idle" => status' = status
    BY <1>9 DEF Login
  <2>3. plist = None => job' = "none"
    BY <1>9 DEF Login
  <2> QED
    BY <2>1, <2>2, <2>3
<1>10. ASSUME NEW d \in Daemon,
              \/ ProcessStep(d) \/ Launch(d) \/ Stop(d)
              \/ Accepts(d) \/ Mark(d) \/ Crash(d) \/ KilledByHand(d)
       PROVE  UninstallOK'
  BY <1>10, ProcessesApart, NoJobNoSteps
<1> QED
  BY <1>1, <1>2, <1>3, <1>4, <1>5, <1>6, <1>7, <1>8, <1>9, <1>10 DEF Next, ScriptStep

LEMMA AlwaysUninstall == Spec => []UninstallOK
<1>1. Init => UninstallOK
  BY DEF Init, UninstallOK
<1> QED
  BY <1>1, NextUninstall, AlwaysPInv, AlwaysRestart, PTL DEF Spec

\* An uninstall that exits 0 leaves no plist, and once the old process is gone no
\* job and no process; after --purge no socket file either, and a directory only
\* around a marker (uninstall-agent.sh:100-112).
THEOREM UninstallsAreClean == Spec => []UninstallIsClean
<1>1. PInv /\ UninstallOK => UninstallIsClean
  <2> SUFFICES ASSUME PInv, UninstallOK, script.verb = "uninstall", status = "ok"
               PROVE  /\ plist = None
                      /\ ~early =>
                           /\ job = "none" /\ \A d \in Daemon : ~Alive(d)
                           /\ script.purge => socket = None /\ (dir => marker # None)
    BY DEF UninstallIsClean
  <2>1. Uninstalled
    BY DEF UninstallOK
  <2>2. job = "none" => \A d \in Daemon : ~Alive(d)
    BY DEF PInv, OneProcess, Alive
  <2> QED
    BY <2>1, <2>2 DEF Uninstalled
<1> QED
  BY <1>1, AlwaysPInv, AlwaysUninstall, PTL

\* Only launchd brings a process to life.
LEMMA OnlyLaunchStarts ==
  ASSUME PInv, [Next]_vars, NEW d \in Daemon, Alive(d)', ~Alive(d)
  PROVE  job = "loaded"
<1> USE DEF Alive, daemonVars
<1>1. CASE UNCHANGED pc
  BY <1>1
<1>2. CASE Login
  BY <1>2, LoginKeeps
<1>3. CASE ScriptStep \/ Gone \/ \E s \in Script : Begin(s)
  <2>1. UNCHANGED pc
    BY <1>3 DEF ScriptStep, Render, EnsureDirs, CheckLoaded, Bootout, WaitSocketGone,
                Bootstrap, Kickstart, RemovePlist, RemoveSocket, RemoveDir, Gone, Begin
  <2> QED
    BY <2>1
<1>4. ASSUME NEW e \in Daemon, Launch(e) PROVE job = "loaded"
  BY <1>4 DEF Launch
<1>5. ASSUME NEW e \in Daemon, Prepare(e) \/ Accepts(e) \/ Mark(e) PROVE FALSE
  BY <1>5 DEF Prepare, Accepts, Mark
<1>6. ASSUME NEW e \in Daemon, Startup(e) \/ Run(e) PROVE FALSE
  <2>1. pc[e] \in D!Alive /\ \E where : pc' = [pc EXCEPT ![e] = where]
    <3>1. CASE D!Probe(e) \/ D!Unlink(e) \/ D!Bind(e) \/ D!Chmod(e) \/ D!Kill(e)
      BY <3>1 DEF D!Probe, D!Unlink, D!Bind, D!Chmod, D!Kill, D!Die, D!Goto,
                  D!Alive, D!Starting, PInv
    <3>2. CASE D!Arm(e)
      <4>1. pc[e] = "loop" /\ pc' = [pc EXCEPT ![e] = pc[e]]
        BY <3>2 DEF D!Arm, PInv
      <4> QED
        BY <4>1 DEF D!Alive
    <3>3. CASE D!TakeSignal(e) \/ D!Cleanup(e) \/ D!Exit(e)
      BY <3>3 DEF D!TakeSignal, D!Cleanup, D!Exit, D!Die, D!Goto, D!Alive
    <3> QED
      BY <1>6, <3>1, <3>2, <3>3 DEF Startup, Run
  <2> QED
    BY <2>1 DEF PInv
<1>7. ASSUME NEW e \in Daemon, Stop(e) \/ Crash(e) \/ KilledByHand(e) PROVE FALSE
  <2>1. D!Sigterm(e) \/ D!Kill(e)
    BY <1>7 DEF Stop, Crash, KilledByHand
  <2>2. pc' = pc \/ pc' = [pc EXCEPT ![e] = "dead"]
    BY <2>1, DaemonMoves
  <2> QED
    BY <2>2 DEF PInv, D!Alive, D!Starting
<1> QED
  BY <1>1, <1>2, <1>3, <1>4, <1>5, <1>6, <1>7 DEF Next, ProcessStep, vars

\* And until another script is run, nothing starts again
\* (install-lifecycle.md:126-128).
THEOREM UninstallsLast == Spec => UninstallLasts
<1>1. PInv /\ UninstallOK /\ [Next]_vars =>
        [script.verb = "uninstall" /\ status = "ok" =>
           \A d \in Daemon : Alive(d)' => Alive(d)]_vars
  <2> SUFFICES ASSUME PInv, UninstallOK, Next, script.verb = "uninstall", status = "ok",
                      NEW d \in Daemon, Alive(d)', ~Alive(d)
               PROVE  FALSE
    OBVIOUS
  <2>1. job # "loaded"
    BY DEF UninstallOK, Uninstalled
  <2> QED
    BY <2>1, OnlyLaunchStarts
<1> QED
  BY <1>1, AlwaysPInv, AlwaysUninstall, PTL DEF Spec, UninstallLasts
-------------------------------------------------------------------------------
(***************************************************************************)
(* Types.  Delivery's invariant is about hooks as well, of which there are   *)
(* none here; and only install-agent.sh renders a plist.                    *)
(***************************************************************************)
DaemonTypes ==
  /\ pc \in [Daemon -> {"off", "dead"} \cup D!Alive]
  /\ receiver \in [Daemon -> {"default", "idle", "armed", "fired"}]
  /\ socket \in Daemon \cup {None}
  /\ signalled \in SUBSET Daemon

ProcessTypes ==
  /\ prepared \in {"no", "cleared", "kept"} /\ told \in BOOLEAN
  /\ instance \in Daemon \cup {None}
  /\ exit \in {"none", "success", "failure"}

JobTypes ==
  /\ job \in {"none", "loaded", "leaving"}
  /\ config \in Version \cup {None} /\ due \in BOOLEAN

FileTypes ==
  /\ plist \in Version \cup {None}
  /\ agents \in BOOLEAN /\ dir \in BOOLEAN
  /\ marker \in Daemon \cup {None}

ScriptTypes ==
  /\ script \in Script \cup {[verb |-> "none"]}
  /\ at \in {"idle", "render", "dirs", "check", "bootout", "wait", "bootstrap",
             "kickstart", "rm_plist", "rm_socket", "rmdir"}
  /\ at = "render" => script.verb = "install"
  /\ early \in BOOLEAN
  /\ status \in {"none", "ok", "failed", "killed"}

TInv == DaemonTypes /\ ProcessTypes /\ JobTypes /\ FileTypes /\ ScriptTypes

LEMMA NoHooks == DaemonTypes => D!TypeOK
<1>1. <<>> = [h \in {} |-> 0]
  OBVIOUS
<1>2. ASSUME NEW S PROVE <<>> \in [{} -> S]
  <2>1. [h \in {} |-> 0] \in [{} -> S]
    OBVIOUS
  <2> QED
    BY <1>1, <2>1
<1> QED
  BY <1>2 DEF DaemonTypes, D!TypeOK

LEMMA DaemonMovesType ==
  ASSUME DaemonTypes, NEW d \in Daemon,
         \/ D!Start(d) \/ D!Probe(d) \/ D!Unlink(d) \/ D!Bind(d) \/ D!Chmod(d)
         \/ D!Arm(d) \/ D!TakeSignal(d) \/ D!Cleanup(d) \/ D!Exit(d)
         \/ D!Sigterm(d) \/ D!Kill(d)
  PROVE  DaemonTypes'
<1> USE DEF DaemonTypes, D!Alive, D!Starting, D!Goto, D!Die
<1>1. CASE D!Start(d) \/ D!Probe(d) \/ D!Chmod(d) \/ D!TakeSignal(d) \/ D!Cleanup(d)
  BY <1>1 DEF D!Start, D!Probe, D!Chmod, D!TakeSignal, D!Cleanup
<1>2. CASE D!Unlink(d) \/ D!Bind(d)
  BY <1>2 DEF D!Unlink, D!Bind
<1>3. CASE D!Arm(d)
  BY <1>3 DEF D!Arm
<1>4. CASE D!Exit(d) \/ D!Kill(d)
  BY <1>4 DEF D!Exit, D!Kill
<1>5. CASE D!Sigterm(d)
  BY <1>5 DEF D!Sigterm
<1> QED
  BY <1>1, <1>2, <1>3, <1>4, <1>5

LEMMA Kept ==
  /\ DaemonTypes /\ UNCHANGED daemonVars => DaemonTypes'
  /\ ProcessTypes /\ UNCHANGED processVars => ProcessTypes'
  /\ JobTypes /\ UNCHANGED jobVars => JobTypes'
  /\ FileTypes /\ UNCHANGED fileVars => FileTypes'
  /\ ScriptTypes /\ UNCHANGED scriptVars => ScriptTypes'
<1>1. DaemonTypes /\ UNCHANGED daemonVars => DaemonTypes'
  BY DEF DaemonTypes, daemonVars
<1>2. ProcessTypes /\ UNCHANGED processVars => ProcessTypes'
  BY DEF ProcessTypes, processVars
<1>3. JobTypes /\ UNCHANGED jobVars => JobTypes'
  BY DEF JobTypes, jobVars
<1>4. FileTypes /\ UNCHANGED fileVars => FileTypes'
  BY DEF FileTypes, fileVars
<1>5. ScriptTypes /\ UNCHANGED scriptVars => ScriptTypes'
  BY DEF ScriptTypes, scriptVars
<1> QED
  BY <1>1, <1>2, <1>3, <1>4, <1>5

LEMMA ProcessesType ==
  ASSUME TInv, NEW d \in Daemon,
         \/ ProcessStep(d) \/ Launch(d) \/ Stop(d)
         \/ Accepts(d) \/ Mark(d) \/ Crash(d) \/ KilledByHand(d)
  PROVE  TInv'
<1> USE Kept DEF TInv
<1>1. CASE Prepare(d)
  <2>1. ProcessTypes'
    BY <1>1 DEF Prepare, Clear, ProcessTypes
  <2>2. FileTypes'
    BY <1>1 DEF Prepare, Clear, FileTypes
  <2> QED
    BY <1>1, <2>1, <2>2 DEF Prepare
<1>2. CASE Startup(d) \/ Stop(d) \/ Crash(d) \/ KilledByHand(d)
  <2>1. DaemonTypes'
    BY <1>2, DaemonMovesType DEF Startup, Stop, Crash, KilledByHand
  <2>2. Ending(d) /\ (told' = told \/ told' = TRUE)
    BY <1>2 DEF Startup, Stop, Crash, KilledByHand
  <2>3. ProcessTypes'
    BY <2>2 DEF Ending, Failure, ProcessTypes
  <2> QED
    BY <2>1, <2>2, <2>3 DEF Ending
<1>3. CASE Run(d)
  <2>1. DaemonTypes'
    BY <1>3, DaemonMovesType DEF Run
  <2>2. ProcessTypes'
    BY <1>3 DEF Run, ProcessTypes
  <2> QED
    BY <1>3, <2>1, <2>2 DEF Run
<1>4. CASE Launch(d)
  <2>1. DaemonTypes'
    BY <1>4, DaemonMovesType DEF Launch
  <2>2. ProcessTypes' /\ JobTypes'
    BY <1>4 DEF Launch, ProcessTypes, JobTypes
  <2> QED
    BY <1>4, <2>1, <2>2 DEF Launch
<1>5. CASE Accepts(d)
  <2>1. DaemonTypes'
    BY <1>5 DEF Accepts, DaemonTypes
  <2> QED
    BY <1>5, <2>1 DEF Accepts
<1>6. CASE Mark(d)
  <2>1. FileTypes'
    BY <1>6 DEF Mark, FileTypes
  <2> QED
    BY <1>6, <2>1 DEF Mark
<1> QED
  BY <1>1, <1>2, <1>3, <1>4, <1>5, <1>6 DEF ProcessStep

LEMMA LoadType ==
  ASSUME FileTypes, Load
  PROVE  ProcessTypes' /\ JobTypes'
BY DEF Load, FileTypes, ProcessTypes, JobTypes

LEMMA ScriptsType ==
  ASSUME TInv, ScriptStep \/ Gone \/ Login \/ \E s \in Script : Begin(s)
  PROVE  TInv'
<1> USE Kept DEF TInv
<1>1. CASE Login
  <2>1. DaemonTypes'
    <3>1. CASE Alive(instance)
      BY <1>1, <3>1, DaemonMovesType DEF Login, Alive, ProcessTypes
    <3>2. CASE ~Alive(instance)
      BY <1>1, <3>2 DEF Login
    <3> QED
      BY <3>1, <3>2
  <2>2. ProcessTypes' /\ JobTypes'
    <3>1. CASE plist # None
      BY <1>1, <3>1, LoadType DEF Login
    <3>2. CASE plist = None
      BY <1>1, <3>2 DEF Login, JobTypes
    <3> QED
      BY <3>1, <3>2
  <2>3. ScriptTypes'
    BY <1>1 DEF Login, ScriptTypes
  <2> QED
    BY <1>1, <2>1, <2>2, <2>3 DEF Login
<1>2. CASE Bootstrap
  <2>1. ProcessTypes' /\ JobTypes'
    <3>1. CASE job = "none" /\ plist # None
      BY <1>2, <3>1, LoadType DEF Bootstrap
    <3>2. CASE ~(job = "none" /\ plist # None)
      BY <1>2, <3>2 DEF Bootstrap
    <3> QED
      BY <3>1, <3>2
  <2>2. ScriptTypes'
    BY <1>2 DEF Bootstrap, ScriptTypes
  <2> QED
    BY <1>2, <2>1, <2>2 DEF Bootstrap
<1>3. CASE Render
  <2>1. script.verb = "install" /\ script \in Script
    BY <1>3 DEF Render, ScriptTypes
  <2>2. script.version \in Version
    BY <2>1 DEF Script
  <2>3. FileTypes'
    BY <1>3, <2>2 DEF Render, FileTypes
  <2>4. ScriptTypes'
    BY <1>3 DEF Render, GoOn, End, ScriptTypes
  <2> QED
    BY <1>3, <2>3, <2>4 DEF Render
<1>4. CASE EnsureDirs
  <2>1. FileTypes'
    BY <1>4 DEF EnsureDirs, FileTypes
  <2>2. ScriptTypes'
    BY <1>4 DEF EnsureDirs, GoOn, End, ScriptTypes
  <2> QED
    BY <1>4, <2>1, <2>2 DEF EnsureDirs
<1>5. CASE CheckLoaded \/ WaitSocketGone
  <2>1. ScriptTypes'
    BY <1>5 DEF CheckLoaded, WaitSocketGone, GoOn, End, ScriptTypes
  <2> QED
    BY <1>5, <2>1 DEF CheckLoaded, WaitSocketGone
<1>6. CASE Bootout \/ Kickstart
  <2>1. JobTypes'
    BY <1>6 DEF Bootout, LaunchctlBootout, Kickstart, JobTypes, jobVars
  <2>2. ScriptTypes'
    BY <1>6 DEF Bootout, Kickstart, GoOn, End, ScriptTypes
  <2> QED
    BY <1>6, <2>1, <2>2 DEF Bootout, Kickstart
<1>7. CASE RemovePlist
  <2>1. FileTypes'
    BY <1>7 DEF RemovePlist, FileTypes
  <2>2. ScriptTypes'
    BY <1>7 DEF RemovePlist, ScriptTypes
  <2> QED
    BY <1>7, <2>1, <2>2 DEF RemovePlist
<1>8. CASE RemoveSocket
  <2>1. DaemonTypes'
    BY <1>8 DEF RemoveSocket, DaemonTypes
  <2>2. ScriptTypes'
    BY <1>8 DEF RemoveSocket, GoOn, ScriptTypes
  <2> QED
    BY <1>8, <2>1, <2>2 DEF RemoveSocket
<1>9. CASE RemoveDir
  <2>1. FileTypes'
    BY <1>9 DEF RemoveDir, FileTypes
  <2>2. ScriptTypes'
    BY <1>9 DEF RemoveDir, End, ScriptTypes
  <2> QED
    BY <1>9, <2>1, <2>2 DEF RemoveDir
<1>10. CASE Gone
  <2>1. JobTypes'
    BY <1>10 DEF Gone, JobTypes
  <2> QED
    BY <1>10, <2>1 DEF Gone
<1>11. ASSUME NEW s \in Script, Begin(s) PROVE TInv'
  <2>1. at' \in {"render", "check", "bootout"} /\ (at' = "render" => s.verb = "install")
    BY <1>11 DEF Begin, FirstStep, Script
  <2>2. ScriptTypes'
    BY <1>11, <2>1 DEF Begin, ScriptTypes
  <2> QED
    BY <1>11, <2>2 DEF Begin
<1> QED
  BY <1>1, <1>2, <1>3, <1>4, <1>5, <1>6, <1>7, <1>8, <1>9, <1>10, <1>11 DEF ScriptStep

\* Every variable keeps its type (main.rs:88-117, and the scripts).
THEOREM TypeCorrect == Spec => []TypeOK
<1>1. Init => TInv
  BY DEF Init, D!Init, TInv, DaemonTypes, ProcessTypes, JobTypes, FileTypes, ScriptTypes,
         D!Alive, D!Starting
<1>2. TInv /\ [Next]_vars => TInv'
  <2> SUFFICES ASSUME TInv, [Next]_vars PROVE TInv'
    OBVIOUS
  <2>1. CASE UNCHANGED vars
    BY <2>1, Kept
    DEF vars, TInv, daemonVars, processVars, jobVars, fileVars, scriptVars
  <2> QED
    BY <2>1, ProcessesType, ScriptsType DEF Next
<1>3. TInv => TypeOK
  BY NoHooks DEF TInv, ProcessTypes, JobTypes, FileTypes, ScriptTypes, TypeOK
<1> QED
  BY <1>1, <1>2, <1>3, PTL DEF Spec
===============================================================================
