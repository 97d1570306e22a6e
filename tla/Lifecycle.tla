------------------------------ MODULE Lifecycle ------------------------------
(***************************************************************************)
(* The agent's life on the operator's machine: install-agent.sh,            *)
(* restart-agent.sh and uninstall-agent.sh (scripts/), step by step, the    *)
(* launchd job of the plist that they install, and the daemon process of    *)
(* Delivery that the job runs, which shares the socket file, its directory  *)
(* and the DEGRADED marker with the scripts.                                *)
(*                                                                          *)
(* launchd is modelled from the verbs the scripts call and the keys of the  *)
(* plist: at most one process for a label, RunAtLoad, and KeepAlive with    *)
(* SuccessfulExit false.  The operator runs one script at a time; --dry-run *)
(* is modelled for install-agent.sh only, since the others do nothing then. *)
(* The log directory is left out, and time is abstracted: a bounded wait    *)
(* may end at once.                                                         *)
(***************************************************************************)
EXTENDS Naturals

CONSTANTS
  Daemon,   \* daemon processes, each started at most once
  None,
  Version   \* what install-agent.sh may render: its flags, the template

ASSUME LifecycleAssumption == None \notin Daemon /\ None \notin Version

VARIABLES
  pc, receiver, socket, signalled,  \* the processes and the socket file: Delivery
  prepared, \* of the job's process: "no", or its directory is made and the marker
            \* "cleared" or, where that failed, "kept"
  instance, \* the job's process, its latest one, or None
  exit,     \* its exit: "none" yet, "success" or "failure"
  told,     \* history: did a person ask it to end?
  job,      \* the label in launchd's domain: "none", "loaded", "leaving"
  config,   \* the version of the plist it was loaded with, or None
  due,      \* is a start of the job asked for?
  plist,    \* the version of the installed plist, or None: no file
  agents,   \* is there a directory for it, ~/Library/LaunchAgents?
  dir,      \* is there a socket directory?
  marker,   \* whose DEGRADED marker is in it, or None: no file
  script,   \* the script that runs or ran last, with its arguments
  at,       \* where it is, "idle" when none runs
  early,    \* history: did it go on while the old process was still leaving?
  status    \* how it ended: "none" yet, "ok", "failed" or "killed"

D == INSTANCE Delivery
       WITH Hook <- {}, BodyLen <- <<>>, PrefixLen <- 1, LenRange <- 1,
            BufferCap <- 1, Backlog <- 1, Overlap <- FALSE,
            hook <- <<>>, outcome <- <<>>, conn <- <<>>, peer <- <<>>,
            sent <- <<>>, got <- <<>>, forwarded <- {}

daemonVars  == <<pc, receiver, socket, signalled>>
processVars == <<prepared, instance, exit, told>>
jobVars     == <<job, config, due>>
fileVars    == <<plist, agents, dir, marker>>
scriptVars  == <<script, at, early, status>>
vars == <<pc, receiver, socket, signalled, prepared, instance, exit, told, job,
          config, due, plist, agents, dir, marker, script, at, early, status>>

Script == [verb : {"install"}, version : Version, dry_run : BOOLEAN]
          \cup [verb : {"restart"}]
          \cup [verb : {"uninstall"}, purge : BOOLEAN]

Alive(d)  == d # None /\ pc[d] \in D!Alive
Unused    == {d \in Daemon : pc[d] = "off"}

Init ==
  /\ D!Init
  /\ prepared = "no" /\ instance = None /\ exit = "none" /\ told = FALSE
  /\ job = "none" /\ config = None /\ due = FALSE
  /\ plist = None /\ agents \in BOOLEAN /\ dir = FALSE /\ marker = None
  /\ script = [verb |-> "none"] /\ at = "idle" /\ early = FALSE /\ status = "none"
-------------------------------------------------------------------------------
(***************************************************************************)
(* The daemon process (main.rs), as far as the lifecycle sees it.           *)
(***************************************************************************)
\* Seeded fault: the marker of an earlier run is left in place.
ClearNothing == prepared' = "cleared" /\ UNCHANGED marker

\* clear_degraded.  A marker that cannot be removed stays: main logs that and
\* goes on.
Clear ==
  \/ marker' = None /\ prepared' = "cleared"
  \/ marker # None /\ prepared' = "kept" /\ UNCHANGED marker

\* ensure_parent_dir, then clear_degraded.
Prepare(d) ==
  /\ d = instance /\ pc[d] = "probe" /\ prepared = "no"
  /\ dir' = TRUE /\ Clear
  /\ UNCHANGED <<daemonVars, instance, exit, told, jobVars, plist, agents, scriptVars>>

\* Seeded faults: main returns Ok after a startup that failed, or there is no
\* telling how it ended.
FailQuietly == "success"
FailUntold  == "unknown"

\* The status of a process that main leaves with an error, or a signal ends.
Failure == "failure"

\* A step of the process that may end it with a failure.
Ending(d) ==
  /\ exit' = IF pc'[d] = "dead" THEN Failure ELSE exit
  /\ UNCHANGED <<prepared, instance, jobVars, fileVars, scriptVars>>

\* The bind fails where there is no directory, and set_permissions where the
\* socket file has gone.
Startup(d) ==
  /\ d = instance /\ prepared # "no"
  /\ \/ D!Probe(d) \/ D!Unlink(d)
     \/ dir /\ D!Bind(d)
     \/ ~dir /\ pc[d] = "bind" /\ D!Kill(d)
     \/ socket # None /\ D!Chmod(d)
     \/ socket = None /\ pc[d] = "chmod" /\ D!Kill(d)
  /\ Ending(d) /\ UNCHANGED told

\* The accept loop and the clean way out of it, with exit 0.
Run(d) ==
  /\ d = instance
  /\ \/ (D!Arm(d) \/ D!TakeSignal(d) \/ D!Cleanup(d)) /\ UNCHANGED exit
     \/ D!Exit(d) /\ exit' = "success"
  /\ UNCHANGED <<prepared, instance, told, jobVars, fileVars, scriptVars>>

\* A hook's connection is accepted, which drops what the receiver holds.
Accepts(d) ==
  /\ pc[d] = "loop"
  /\ receiver' = [receiver EXCEPT ![d] = IF @ = "default" THEN @ ELSE "idle"]
  /\ UNCHANGED <<pc, socket, signalled, processVars, jobVars, fileVars, scriptVars>>

\* A handler marks a degradation: create_dir_all, then write, which may fail.
Mark(d) ==
  /\ pc[d] \in D!Serving
  /\ dir' = TRUE /\ marker' \in {marker, d}
  /\ UNCHANGED <<daemonVars, processVars, jobVars, plist, agents, scriptVars>>

\* A crash, an out-of-memory kill or kill -9; a person's plain kill.
Crash(d) == D!Kill(d) /\ Ending(d) /\ UNCHANGED told
KilledByHand(d) == D!Sigterm(d) /\ told' = TRUE /\ Ending(d)

(***************************************************************************)
(* launchd.                                                                 *)
(***************************************************************************)
\* The job has a start to make: asked for, or KeepAlive's after a failure.
Launch(d) ==
  /\ job = "loaded" /\ ~Alive(instance)
  /\ due \/ exit = "failure"
  /\ d \in Unused /\ d = CHOOSE e \in Unused : TRUE
  /\ D!Start(d)
  /\ instance' = d /\ prepared' = "no" /\ exit' = "none" /\ told' = FALSE
  /\ due' = FALSE
  /\ UNCHANGED <<job, config, fileVars, scriptVars>>

\* The process of a job that was booted out, or kickstarted with -k, is asked
\* to end, and then made to.
Stop(d) ==
  /\ d = instance /\ (job = "leaving" \/ due)
  /\ D!Sigterm(d) \/ D!Kill(d)
  /\ Ending(d) /\ UNCHANGED told

\* The label is free once its process is gone.
Gone ==
  /\ job = "leaving" /\ ~Alive(instance)
  /\ job' = "none" /\ config' = None
  /\ UNCHANGED <<daemonVars, processVars, due, fileVars, scriptVars>>

\* What is loaded anew starts at once: RunAtLoad.
Load ==
  /\ job' = "loaded" /\ config' = plist /\ due' = TRUE
  /\ instance' = None /\ exit' = "none" /\ told' = FALSE /\ prepared' = "no"

\* The machine goes down or the operator logs out, in the middle of whatever
\* runs, and at the next login the installed plist is loaded.
Login ==
  /\ IF Alive(instance) THEN D!Kill(instance) ELSE UNCHANGED daemonVars
  /\ IF plist # None THEN Load
     ELSE /\ job' = "none" /\ config' = None /\ due' = FALSE
          /\ UNCHANGED processVars
  /\ IF at # "idle" THEN at' = "idle" /\ status' = "killed" ELSE UNCHANGED <<at, status>>
  /\ UNCHANGED <<fileVars, script, early>>

(***************************************************************************)
(* The scripts.                                                             *)
(***************************************************************************)
FirstStep(verb) == CASE verb = "install"   -> "render"
                     [] verb = "restart"   -> "check"
                     [] verb = "uninstall" -> "bootout"

Begin(s) ==
  /\ at = "idle"
  /\ script' = s /\ at' = FirstStep(s.verb)
  /\ early' = FALSE /\ status' = "none"
  /\ UNCHANGED <<daemonVars, processVars, jobVars, fileVars>>

GoOn(label) == at' = label /\ UNCHANGED <<script, early, status>>
End(code)   == at' = "idle" /\ status' = code /\ UNCHANGED <<script, early>>

\* render_plist: mktemp comes before mkdir -p, so without a directory for the
\* plist the script ends here, under set -e.
Render ==
  /\ at = "render"
  /\ IF agents THEN plist' = script.version /\ GoOn("dirs")
     ELSE UNCHANGED plist /\ End("failed")
  /\ UNCHANGED <<daemonVars, processVars, jobVars, agents, dir, marker>>

EnsureDirs ==
  /\ at = "dirs"
  /\ dir' = TRUE
  /\ IF script.dry_run THEN End("ok") ELSE GoOn("bootstrap")
  /\ UNCHANGED <<daemonVars, processVars, jobVars, plist, agents, marker>>

\* The plist must be there; then launchctl print, which may or may not find a
\* job that is leaving.
CheckLoaded ==
  /\ at = "check"
  /\ \/ plist = None /\ End("failed")
     \/ plist # None /\ job # "none" /\ GoOn("bootout")
     \/ plist # None /\ job # "loaded" /\ GoOn("bootstrap")
  /\ UNCHANGED <<daemonVars, processVars, jobVars, fileVars>>

\* Seeded fault: the job is not booted out.
BootoutSkipped == UNCHANGED jobVars

\* launchctl bootout, whose failure both scripts tolerate.
LaunchctlBootout ==
  IF job = "loaded" THEN job' = "leaving" /\ due' = FALSE /\ UNCHANGED config
  ELSE UNCHANGED jobVars

\* It may return before the process is gone.
Bootout ==
  /\ at = "bootout"
  /\ LaunchctlBootout
  /\ GoOn(IF script.verb = "restart" THEN "wait" ELSE "rm_plist")
  /\ UNCHANGED <<daemonVars, processVars, fileVars>>

\* _wait_socket_gone: the socket file has gone, or the wait has been long enough.
WaitSocketGone ==
  /\ at = "wait"
  /\ GoOn("bootstrap")
  /\ UNCHANGED <<daemonVars, processVars, jobVars, fileVars>>

\* launchctl bootstrap, which fails while the label is taken; tolerated.
Bootstrap ==
  /\ at = "bootstrap"
  /\ IF job = "none" /\ plist # None THEN Load ELSE UNCHANGED <<jobVars, processVars>>
  /\ early' = (job = "leaving")
  /\ at' = "kickstart"
  /\ UNCHANGED <<daemonVars, fileVars, script, status>>

\* launchctl enable; launchctl kickstart -k.
Kickstart ==
  /\ at = "kickstart"
  /\ due' = (job = "loaded")
  /\ End("ok")
  /\ UNCHANGED <<daemonVars, processVars, job, config, fileVars>>

RemovePlist ==
  /\ at = "rm_plist"
  /\ plist' = None
  /\ early' = (job = "leaving")
  /\ IF script.purge THEN at' = "rm_socket" /\ UNCHANGED <<script, status>>
     ELSE at' = "idle" /\ status' = "ok" /\ UNCHANGED script
  /\ UNCHANGED <<daemonVars, processVars, jobVars, agents, dir, marker>>

\* Seeded fault: the directory is tried before the socket file is removed.
DirFirst ==
  /\ at = "rm_socket"
  /\ socket' = None
  /\ dir' = (dir /\ (socket # None \/ marker # None))
  /\ End("ok")
  /\ UNCHANGED <<pc, receiver, signalled, processVars, jobVars, plist, agents, marker>>

RemoveSocket ==
  /\ at = "rm_socket"
  /\ socket' = None
  /\ GoOn("rmdir")
  /\ UNCHANGED <<pc, receiver, signalled, processVars, jobVars, fileVars>>

\* rmdir, which fails unless the directory is empty; tolerated.
RemoveDir ==
  /\ at = "rmdir"
  /\ dir' = (dir /\ (socket # None \/ marker # None))
  /\ End("ok")
  /\ UNCHANGED <<daemonVars, processVars, jobVars, plist, agents, marker>>

ScriptStep == \/ Render \/ EnsureDirs \/ CheckLoaded \/ Bootout \/ WaitSocketGone
              \/ Bootstrap \/ Kickstart \/ RemovePlist \/ RemoveSocket \/ RemoveDir

ProcessStep(d) == Prepare(d) \/ Startup(d) \/ Run(d)

Next == \/ ScriptStep \/ Gone \/ Login
        \/ \E s \in Script : Begin(s)
        \/ \E d \in Daemon : \/ ProcessStep(d) \/ Launch(d) \/ Stop(d)
                              \/ Accepts(d) \/ Mark(d) \/ Crash(d) \/ KilledByHand(d)

Spec == Init /\ [][Next]_vars

\* Scripts and processes run on, and launchd does its part: a process that it
\* has to end it kills in the end.  Nobody has to run a script, to crash or to
\* log in.
FairSpec ==
  /\ Spec /\ WF_vars(ScriptStep) /\ WF_vars(Gone)
  /\ \A d \in Daemon : /\ WF_vars(ProcessStep(d)) /\ WF_vars(Launch(d))
                       /\ WF_vars(Stop(d) /\ D!Kill(d))
-------------------------------------------------------------------------------
(***************************************************************************)
(* Properties.                                                              *)
(***************************************************************************)
\* Every variable keeps its type.
TypeOK ==
  /\ D!TypeOK
  /\ prepared \in {"no", "cleared", "kept"} /\ told \in BOOLEAN /\ due \in BOOLEAN
  /\ instance \in Daemon \cup {None}
  /\ exit \in {"none", "success", "failure"}
  /\ job \in {"none", "loaded", "leaving"}
  /\ config \in Version \cup {None} /\ plist \in Version \cup {None}
  /\ agents \in BOOLEAN /\ dir \in BOOLEAN
  /\ marker \in Daemon \cup {None}
  /\ script \in Script \cup {[verb |-> "none"]}
  /\ at \in {"idle", "render", "dirs", "check", "bootout", "wait", "bootstrap",
             "kickstart", "rm_plist", "rm_socket", "rmdir"}
  /\ early \in BOOLEAN
  /\ status \in {"none", "ok", "failed", "killed"}

\* No script takes the socket file away from a running agent, and no process
\* takes it from the next: while the job is loaded, its daemon can be reached
\* once it has bound (main.rs:111-113, uninstall-agent.sh:100-112).
LoadedIsReachable ==
  \A d \in Daemon :
    job = "loaded" /\ pc[d] \in {"chmod", "loop"} => instance = d /\ socket = d

\* "a clean restart must surface as healthy, not carry a stale degraded state
\* from a prior crash" (degraded.rs:34-36): once a daemon has bound, a marker is
\* its own, whatever crashes, scripts and logins came before, unless this very
\* process found one that it could not remove (main.rs:92-94).  That an earlier
\* process could not remove it is no excuse.
MarkerIsCurrent ==
  \A d \in Daemon :
    pc[d] \in {"chmod", "loop"} /\ prepared # "kept" => marker \in {None, d}

\* "re-reading the existing plist, so the binary path is whatever is currently
\* there" (install-lifecycle.md:157-159): after a restart that exits 0 the job
\* runs the plist on disk, also when it was re-installed meanwhile, unless
\* the old process outlived the wait (restart-agent.sh:92-105).
RestartReloads ==
  script.verb = "restart" /\ status = "ok" /\ ~early =>
    job = "loaded" /\ config = plist

\* What an uninstall that exits 0 leaves behind: no plist for the next login to
\* load, and, once the old process is gone, no job and no process; after --purge
\* no socket file either, and a directory only if a marker is in it
\* (uninstall-agent.sh:100-112, install-lifecycle.md:186-196).
UninstallIsClean ==
  script.verb = "uninstall" /\ status = "ok" =>
    /\ plist = None
    /\ ~early =>
         /\ job = "none" /\ \A d \in Daemon : ~Alive(d)
         /\ script.purge => socket = None /\ (dir => marker # None)

\* And until another script is run nothing starts again, neither by KeepAlive
\* when the old process fails on its way out nor at a login
\* (install-lifecycle.md:126-128).
UninstallLasts ==
  [][script.verb = "uninstall" /\ status = "ok" =>
       \A d \in Daemon : Alive(d)' => Alive(d)]_vars

\* "To fully stop the auto-restart agent ... use uninstall-agent.sh"
\* (install-lifecycle.md:126-128): after it the daemon goes down and stays
\* down, whatever state its process was in, until a script is run.
UninstallStops ==
  script.verb = "uninstall" /\ status = "ok" ~>
    \/ script.verb # "uninstall" \/ status # "ok"
    \/ job = "none" /\ \A d \in Daemon : ~Alive(d)

\* "kill the daemon -> it comes back" (install-lifecycle.md:12-13): a loaded job
\* comes to accept connections, through crashes and failed startups
\* (main.rs:96-102), unless a person told the process to end.  The model ends
\* when there are no more processes to start.
LoadedComesUp ==
  job = "loaded" ~> \/ job # "loaded" \/ told
                    \/ instance # None /\ pc[instance] = "loop"
                    \/ Unused = {} /\ ~Alive(instance)

\* "The DEGRADED marker lives in the socket dir, so --purge removes it too"
\* (install-lifecycle.md:195-196).
PurgeRemovesMarker ==
  script = [verb |-> "uninstall", purge |-> TRUE] /\ status = "ok" /\ ~early => marker = None
===============================================================================
