# pulse-narrator: a TLA+ model of the hook, the daemon and the reader

pulse-narrator tells a user what a coding agent has done. An agent (Claude Code) runs
`pulse-hook` when a turn ends or it needs attention; the hook hands one event over a
Unix socket to the resident `pulse-daemon`, which deduplicates it per session and reads
the agent's transcript file to the end of the turn. Anything that goes wrong on the way
has to become visible in a marker file, `DEGRADED` ("loud, never silent"). Three shell
scripts and a launchd job keep the daemon running.

The repository at this commit has that path and nothing behind it: speech and playback
are types only. This directory models the path, checks it with TLC on small instances,
and proves every safety property it checks with TLAPS, for every instance.

## 1. The system

| Component (source) | State | Operations | Talks to |
|---|---|---|---|
| hook events (`pulse-hook` payload.rs, lib.rs, cli.rs, main.rs) | none; one process per event | parse stdin, derive the event's identity, build the envelope | hook delivery |
| hook delivery (`pulse-hook` dispatch.rs, main.rs) | where `deliver` is, what it has written | look for the socket file, connect within 200 ms, write within 500 ms, exit 0, 2, 3 or 4 | socket file, kernel, daemon |
| wire format (`pulse-core` wire.rs) | none | length-prefixed JSON: encode, decode, read_frame, write_frame | hook and daemon |
| daemon process (`pulse-daemon` main.rs, shutdown.rs) | life of the process, signal receiver | clear the marker, bind, accept loop, signal, clean up, exit | everything in the daemon, launchd |
| listener (listener.rs) | the socket file, shared with other daemons | test, unlink, bind, set permissions | hooks, other daemons |
| connection handlers (connection.rs) | one task per connection with its local variables | read a frame, check its version, record, read the transcript, store the offset, mark | sessions (one mutex), reader, marker |
| sessions (session.rs) | map from session to path, last event id, receipt counter, last read offset | record (three kinds of event), get, get_mut | connection handlers |
| DEGRADED marker (degraded.rs) | one file, written by all handlers | clear, mark | the user, the next daemon |
| transcript reader (`pulse-source` reader.rs) | local to a call: settle window, sizes, counts | read_complete: regression check, settle, read, probe | the transcript, which Claude Code writes meanwhile |
| schema probe (probe.rs) | none | probe_line, aggregate | reader |
| adapter (`pulse-source` adapter.rs) | none | emits one fixed event | nobody yet |
| core vocabulary (`pulse-core` event.rs, tts.rs, adapter.rs, source.rs, error.rs) | none | types | all |
| agent lifecycle (scripts/, resources/launchd) | plist, directories, launchd's job | install, restart, uninstall, restart after a crash, load at login | daemon process, socket file, marker |

What is hard here, and hard to test:

* **Handlers interleave.** The mutex is taken three times per event, for record, for
  fetching the offset and for storing it, and up to two seconds of reading lie between
  the last two. Handlers run on several worker threads, so that two of them are inside
  `mark_degraded` at once.
* **Another program writes the file that is read**, in bursts, and can truncate or remove it.
* **Processes end at any point**: hooks by timeout, daemons by SIGTERM, crash or restart.
  A socket file and a marker survive them; sessions do not.
* **The kernel is in between**: a connection can be written before it is accepted, and a
  frame can arrive in pieces or never completely.
* **Identity** is derived in the hook and relied upon in the daemon.
* **Scripts and launchd act on files of a process that may still be ending.** A `bootout`
  returns before the process is gone, the waits of the scripts are bounded, and a logout cuts
  them short between any two commands.

`PROJECT.json` lists each of these hazards at its line with the properties that cover it.

What makes each component right:

* sessions: counters agree with what was processed; a retry is processed once; a
  duplicate verdict stands for a processed event;
* handlers: everyone ends, the mutex is not left locked, concurrent offsets raise no false alarm;
* marker: every degraded outcome shows; nothing shows without a cause in this process;
* reader: bounded waiting, whole turns only, drift exactly for wrong lines;
* delivery: hooks end; a failure means unprocessed; success means it arrives if the daemon lives;
* wire format: an event is forwarded exactly if its frame decodes, in however many pieces it came;
* listener: an accepting daemon can be reached, whatever crashes left behind;
* hook events: what can be told apart is never dropped, what is retried is;
* agent lifecycle: a loaded agent comes up and can be reached, its marker is its own unless
  an older one could not be removed, a restart loads the plist on disk, an uninstall stops it for good.

## 2. Modules

    SessionManager   operators on the session map             session.rs
      Daemon           process, handlers, mutex, marker, files  main.rs connection.rs session.rs degraded.rs reader.rs
        MCDaemon         small instances
        DaemonProofs     theorems
      HookEvents       stdin -> identity -> envelope -> dedup   payload.rs lib.rs main.rs session.rs
        MCHookEvents
        HookEventsProofs
    ReadContract     what a call of read_complete promises    reader.rs source.rs
      TranscriptReader implements it, in ms                     reader.rs probe.rs
        MCTranscriptReader
        TranscriptReaderProofs
      Daemon           uses no more of it, per connection       connection.rs
    Handoff          what hook and daemon promise together    dispatch.rs main.rs connection.rs
      Delivery         hooks, kernel, socket file, daemons      dispatch.rs listener.rs main.rs shutdown.rs wire.rs
        MCDelivery
        DeliveryProofs
      Lifecycle        scripts and launchd around Delivery      scripts/ resources/launchd main.rs
        MCLifecycle
        LifecycleProofs

`Daemon` and `HookEvents` share the operators of `SessionManager`, so that the identity
which a hook derives meets the deduplication that the daemon really performs. `Daemon`
composes process, handlers, sessions, marker and transcripts; `Delivery` composes hooks,
socket file, kernel and daemons. `Lifecycle` instantiates `Delivery` without hooks, so that the
process which launchd runs takes the very steps of `Delivery`: probe, unlink, bind, loop,
signal, cleanup, exit. `Daemon` sees the same process by its effect on handlers and marker.

**SessionManager.** The `HashMap` is a function on the tracked sessions; `entry().or_default()`
is `StateOf` and `Put`. u64 has its width as `U64Max`, which the runs set to 2 or 3, so
that saturation happens.

**Daemon.** A handler is a program counter per connection. An action is the code between
two `.await`s, for that is where tasks interleave, and what was read before one is kept in
`prior`, `offset` and `outcome`. The mutex is free at every action but those of
`mark_degraded` on behalf of `HookDegraded`, which `record` calls with the mutex held
(`holder`). `mark_degraded` is `MarkOpen` (create or truncate) and `MarkWrite` (at offset
0 of its own descriptor), because two threads can be inside `std::fs::write`. `Exit`
cancels the handlers at their next `.await`, as dropping the tokio runtime does, and lets
a running `mark_degraded` finish. The settle window is one step here, its last poll.
`log` is a history variable: the ids found New, in order.

**TranscriptReader.** Sizes are bytes and times milliseconds. A file is a sequence of
cells of `CellBytes` bytes, each a fragment of a line or the end of a line of some shape, so
that a poll interval that grows with the size, the bound that cuts the last sleep short,
and a half-flushed line are all there. The clock runs while the reader sleeps; inside a
turn a writer pauses for at most `MaxGap`. `grew` is a history variable.

**ReadContract** is the abstract specification of that call: a size that others change, an
offset to resume from, and the verdict and offset that come back; no polls, no time, no
content. It is used from both sides. `TranscriptReader!MeetsContract` says that the reader
implements it, `Daemon!ReadsByContract` that the part of each handler which stands for the call
does nothing that the contract forbids and makes at most one call. So the reading
that `Daemon` abstracts to three steps is one that the detailed reader is shown to do.

**Delivery.** A frame is a length prefix of `PrefixLen` units and a body of `BodyLen[h]`; the
prefix has the room for lengths below `LenRange` (2^32 in the code, 2 in the run), so that it
claims `BodyLen % LenRange`, as the code's `as u32` does. `ReadFrame` is the reader of
connection.rs, which takes the units as they come; `Decode` is `decode_wire` on the
whole. A body that is cut off is taken not to be JSON. The kernel holds `BufferCap` units per connection
and `Backlog` connections per listener. A timeout may fire whenever what it guards is
pending. The socket file names the daemon that bound it, or nothing. The signal receiver
is modelled because the biased `select!` drops `wait_for_signal` with every accepted
connection. `forwarded` and `signalled` are history variables.

**Handoff** is the abstract specification of one event's delivery: the verdict of the hook
(`deliver`'s outcome) and what the daemon makes of the event. A verdict is final; an event is
taken once, only when the hook has reported or is sure to report it delivered; what was lost
stays lost. Frames, queues, timeouts, crashes and restarts do not appear. `Delivery!HandsOff(h)`
maps the state of hook `h` and of its connection to it, and `DeliversByContract` says that each
of the hooks implements it. The write of the last unit and the verdict `Delivered` are one step in
`Delivery`: `write_all` returns in the same poll in which it has written everything, `timeout` asks
it before it asks the timer, and a failing `flush` is ignored. A hook that is killed in between
has no verdict to speak of.

**Lifecycle.** Each command of a script that changes something is an action, in the script's
order, with its `|| true` or its exit under `set -e`; the operator runs one script at a
time and may be logged out between any two of them. launchd and `launchctl` are not part of
the repository and are modelled from the verbs and plist keys that it uses: one process per
label, `RunAtLoad`, `KeepAlive` after an unsuccessful exit only, `bootstrap` that fails while
the label is taken, `bootout` and `kickstart -k` that send SIGTERM and kill in the end. The
socket wait of restart-agent.sh may give up at any time. `told`, `early` and `status` are
history variables: whether a person told the process to end, whether the script went on while
the old process was still leaving, and how the script ended. A process first makes its directory
and removes the marker (`Prepare`), which may fail without stopping it; `prepared` says which it
was. A handler's `Mark` may fail too.

**HookEvents.** An input is a payload (the three fields that are looked at, and the rest),
or no JSON, or nothing. The content hash is an arbitrary function, `Digest`; the code's
argument that turns do not collide rests on `NoCollision` (injective, and no message id
looks like a synthesized key), which the run's instance satisfies.

Actions, operators and the lines they translate are listed in `PROJECT.json` under "map".
Definitions commented as seeded faults are plausible bugs of the operator that follows
them; each property is shown to fail when one is put in its place.

## 3. What is checked

| Run | Shows | Instance |
|---|---|---|
| DaemonSessions | `TypeOK`; `BooksMatchLog`, `NoImmediateRepeat`, `DuplicateWasProcessed`; `NoFalseTruncation`, `NoReadFallsBack`; `MarkerHasCause`; `OffsetsFallOnlyInRaces` | 3 connections, 2 sessions, 2 lives, 7 envelopes, a transcript of 0 to 2 units, counters up to 2 |
| DaemonLive | `LoudDegradation`, `EachConnectionEnds`, `DegradationIsMarked`, `ReadsByContract` | 2 connections, 2 lives, the transcript may shrink or vanish, the marker may be unwritable |
| ReaderSettles | `TypeOK`, `SettledIsWhole`, `DriftIsReal`, `AtBoundOnlyIfGrew`, `SettlesOnlyIfFits` | the code's 2000 ms, 50 ms and 3 polls; up to 3 cells of 800 KB; 7 kinds of cell; pauses up to 100 ms |
| ReaderLive | `SettleWithinBound`, `OffsetIsConsumed`, `EachCallReturns`, `CallsOnlyAdvance`, `MeetsContract` | bound of 380 ms, pauses up to 200 ms, truncation, removal, any offset |
| Delivery | `TypeOK`, `FailureMeansUnprocessed`, `ReadAgreesWithDecode`, `AcceptingIsReachable`, `EachHookEnds`, `DeliveredArrives`, `DeliversByContract`, `HooksOnlyAdvance` | 2 hooks, 2 daemons in turn, prefix of 2 units, lengths below 2, bodies of 1 and 3, buffer 2, backlog 1 |
| HookIdentity | `ToldApartIsProcessed`, `RetryIsDropped` | 2 turns over 12 inputs and both hooks, 5 deliveries |
| Lifecycle | `TypeOK`, `LoadedIsReachable`, `MarkerIsCurrent`, `RestartReloads`, `UninstallIsClean`, `UninstallLasts`, `UninstallStops`, `LoadedComesUp` | 2 processes, 2 versions of the plist, any sequence of scripts |

**Why the bounds are enough.** The shortest violations of the daemon's properties need two
handlers, or three events of a session (A, B, A) for deduplication; two lives show what
survives a restart. Three units of size distinguish below, at and above an offset. In
ReaderSettles a file of one or two cells has polls that fit into the bound and one of
three has not, so both sides of `PollsFit` occur, and an empty file has the 50 ms floor.
A bound of 380 ms makes the last sleep a partial one. In Delivery frames of three and five
units and a buffer of two force the partial write and the partial read, also inside the
prefix; of the lengths one fits the prefix and one wraps; a backlog of one gives the full
queue, and two daemons the stale socket file. In Lifecycle two processes are the old one and
the one that replaces it, two versions the plist that was loaded and the one on disk, and
scripts and logins are not bounded at all. The content of a frame, a path or a name
only matters by equality, hence the model values. Deadlock is not checked: a daemon may
exit for good, hooks end, and bounded lives and cells run out.

**Conditions that are part of a property.** They are where the code's promise ends, and
each has a behaviour of the model behind it:

* `NoFalseTruncation` and `NoReadFallsBack` need transcripts that are only appended to and
  one transcript per session (`OnePathPerSession`). The offset is kept per session: a
  session that goes on in another, shorter file is reported truncated. A file that shrinks
  after the size check passes as settled with a lower offset. And of two concurrent
  turns the one that read less may store last, which moves the offset back, although
  that alone raises no alarm.
* `SettledIsWhole` and `DriftIsReal` need pauses of at most 100 ms (`PausesOutlasted`):
  the third poll of a window can be cut short by the bound, so only two full intervals are sure.
* `AtBoundOnlyIfGrew` needs `PollsFit`: two intervals shorter than the bound. From 2000 KB on the
  interval is at least half the bound and the third poll never comes, although nothing grows.
* `OffsetIsConsumed`: nothing beyond the offset is ever consumed; that everything up to it is needs a
  file that does not shrink between the last poll and the read. The run has files that shrink and
  that grow after the window; the part for files that are only appended to is the theorem's, and
  a cell left out of them breaks `DriftIsReal` in ReaderSettles.
* `AcceptingIsReachable` needs daemons that do not overlap: `bind_socket` removes whatever
  file is at the path, and so does the exit of the older daemon.
* `ToldApartIsProcessed` needs something in the input that differs: two turns with the same
  payload bytes and no message id collide, and the second is dropped as a retry.
* `DeliveredArrives` needs the daemon to stay in its accept loop: exit status 0 means that the
  kernel has the frame. It needs the body to fit its length prefix (`Fits`) as well: one of 4 GiB or more is
  written whole, reported delivered, and read as what its shortened length says.
* `RestartReloads` needs a restart that did not overtake the old process (`~early`): once the
  wait for the socket has run out, `bootstrap` fails on the taken label, `|| true` hides that, and
  the script exits 0 with a label that launchd drops a moment later, or has dropped already.
* `UninstallIsClean` says less while the old process is still leaving (`early`): the uninstall does not
  wait for it after `bootout`, so that a job, a process and their files may be there for a while.
  After `--purge` a directory is left if a marker is in it, which is what LifecyclePurge shows.
* `OffsetsFallOnlyInRaces` speaks of one life of the daemon: sessions are in memory only. Nothing
  in the map is dropped, but an offset may give way to an older one. With transcripts that are only
  appended to and one per session, only a handler does that which another has overtaken between
  its fetch and its store; the run has such steps.
* `MarkerIsCurrent` excuses a process that failed to remove the marker it found, which main only
  logs before it binds (main.rs:92-94). That an earlier process failed to is no excuse.
  `MarkerHasCause` has the same condition, for all lives at once (`MarkerCanFail`).
* `LoadedComesUp` is not asked of a process that a person told to end: it exits 0, and
  `SuccessfulExit=false` leaves it down, as the documentation says. It ends with the processes
  of the model (`Unused`).
* `LoadedIsReachable` speaks of a loaded job only: after a `bootout` the leaving process may
  well have lost its socket file, to an uninstall with `--purge`.

**Where code and documentation differ.** Five runs end in a counterexample; the sentence
that each refutes is quoted with the property and in `PROJECT.json`.

| Run | Sentence | Counterexample |
|---|---|---|
| DaemonOnce | "the daemon speaks each logical event once" | A, B, then a late retry of A: only the last id is remembered |
| DaemonDrain | "in-flight connection reads drain" on SIGTERM | `main` returns at once and the runtime cancels the handlers |
| ReaderBursty | a pause of 50-200 ms "is NOT falsely reported Settled" | three polls of 50 ms are over before 200 ms are |
| DeliverySignal | "On SIGTERM or SIGINT, the select returns" | the signal falls between a dropped `wait_for_signal` and the next one |
| LifecyclePurge | "`--purge` removes it too", of the marker | `rmdir` fails on a directory that is not empty, and its failure is ignored |

Three more were met while modelling and are visible in the models, without a run of their own:

* A file of 2 MB never settles, although reader.rs calls SettledAtBound "still growing at the bound":
  two polls of 1000 ms fill the window (`PollsFit`).
* install-agent.sh makes its temporary file in the plist's directory before it makes that
  directory (`Render`): in a home without `Library/LaunchAgents` it ends with exit 1, where
  docs/install-lifecycle.md:84-86 has it create the directories.
* Installing over a loaded job writes the new plist and then fails to load it, silently: the job
  runs with the old one until a restart (`Bootstrap`).

**Fairness.** `Daemon!FairSpec`: every handler of a running daemon goes on. Tokio polls every
ready task; the frame read is bounded by `READ_TIMEOUT`, so `FrameFails` can always
happen; the settle window is bounded; the mutex is fair. It is asked for only while the
daemon is "up" (once it is stopping, the exit may come first), except that a running
`mark_degraded`, which has no `.await`, always completes. `TranscriptReader!FairSpec`:
timers fire and file operations return; a writer inside a turn goes on, which it must for the
clock not to wait for it. `Delivery!FairSpec`: only the hook's process and its timers go
on, so `EachHookEnds` holds with a daemon that is stuck for good; `DeliveredArrives` and
`SignalStopsLoop` assume `DaemonFairness` as a premise, which does not include that anyone
starts or stops a daemon or that `accept` fails. `Lifecycle!FairSpec`: a running script and the
job's process go on, and launchd does what it was asked: it starts a job that is due, frees the
label of a process that has gone, and kills a process that did not end on SIGTERM. Nobody has to
run a script, to log in or to crash. No run assumes strong fairness.

## 4. What is proved

The five proof modules prove for all constants that satisfy the modules' named assumptions:

| Theorem | States | Argument |
|---|---|---|
| DaemonProofs!TypeCorrect | `TypeOK` | with `TInv`: a handler past the frame has an envelope of `Frame`, and one that compares an offset has one |
| BooksCorrect | `BooksMatchLog` | inductive with the types: only `Record` changes map and log, both in one critical section |
| NoEventTwiceInARow | `NoImmediateRepeat` | from the same invariant: the last logged id of a session is its dedup key, and an equal one is not logged |
| DuplicatesAreSafe | `DuplicateWasProcessed` | strengthened: each id in a session's log belongs to a connection of this life that found it New; handlers move on but keep session and id |
| NoFalseAlarms, ReadsGoForward | `NoFalseTruncation`, `NoReadFallsBack` | strengthened: every stored offset, fetched offset and settled offset is at most the current size of its transcript, which only grows |
| DegradationIsLoud | `LoudDegradation` | strengthened over the handlers between open and write of the marker, for two of them may interleave |
| MarkersAreCaused | `MarkerHasCause` | by the steps: the marker changes only where a handler of this life opens or writes it, a start removes it, and a handler never takes its outcome back |
| EachReadIsACall | `ReadsByContract` | step simulation: each action is a step of the contract for its own connection and a stutter, or the others' writing, for the rest; a connection reads once (`BeforeCall`) |
| SessionsAreKept | `OffsetsFallOnlyInRaces` | by the steps: only `Record`, `RecordDegraded` and `StoreOffset` write the map, each as an update of what it reads in the same critical section, and each such update remembers (`RecordRemembers`, `TouchRemembers`, `StoreRemembers`); a handler whose fetched offset is still the session's stores no less, by the invariant of `NoReadFallsBack` (`StepFallsInRace`) |
| MutexIsReleased | a step ends with the mutex held only by a handler that is writing the marker of a degenerate payload | with the types: the holder's program counter and outcome (`HeldOnlyWhileMarking`); `EachConnectionEnds` is the property that a mutex left locked breaks |
| TranscriptReaderProofs!TypeCorrect | `TypeOK` | with the range of `stable_count` |
| WindowIsBounded | `SettleWithinBound` | what is left of a sleep plus what has elapsed is at most the bound, because each sleep is cut to what remains |
| SettledReadsAreWhole | `SettledIsWhole` | strengthened (`QuietOK`): after n stable polls of a turn that is not over, a writer has been quiet for at least n - 1 full intervals, which is as long as it can be |
| OnlyGrowthMeetsTheBound | `AtBoundOnlyIfGrew` | strengthened (`PacedOK`): after n polls of a file that did not grow the clock shows n intervals, so that where they fit the count is reached first (`PollsTake`) |
| OnlyWhatFitsSettles | `SettlesOnlyIfFits` | strengthened (`FitsOK`): the sleep before a poll began before the bound, after the polls that were counted, and only the last can be cut short |
| LongTranscriptsWaitForTheBound | no transcript of 2000 KiB or more settles, with the code's 2000 ms, 50 ms and 3 polls | from `FitsOK` and the sizes that fit (`FittingSizes`) |
| PausesUpTo100ms | with the code's 50 ms and 3 polls, what settles is a whole turn if its writer pauses for 100 ms at most | from `SettledIsWhole`: the part of the promised 50-200 ms that holds |
| CallsAdvance | `CallsOnlyAdvance` | a rank (`WorkLeft`): what remains of the bound, then the steps between two sleeps; no sleep is empty, and nothing is slept before the window (`Fresh`) |
| SettledDriftIsReal | `DriftIsReal` | from `SettledIsWhole`: what was probed is the whole turn, its drift is of wrong lines (`DriftsAreWrong`) and the first of them is reported (`AggregateIsFirst`; that there is a first one is `HasLeast`, from the well-foundedness of <) |
| OffsetsAreConsumed | `OffsetIsConsumed` | with the types: the offset is a size the file had, and what is read is cut to it |
| ReaderImplementsContract | `MeetsContract` | step simulation under the refinement mapping: polls and time stutter, a write is the others' step, a verdict is a return |
| DeliveryProofs!TypeCorrect | `TypeOK` | with `Shortfall` below: a hook still writing has room in its frame |
| FailureIsFinal | `FailureMeansUnprocessed` | strengthened (`Shortfall`): a hook that failed or goes on has written less than a frame, the daemon has read no more than that, and processing takes a whole one |
| PiecesMakeTheFrame | `ReadAgreesWithDecode` | with the types: a task that has read the units its prefix claims has them all, and `Parses` of them is `Decode` of the whole |
| OnlyWholeFramesDecode | `Decode` finds an event in a prefix of a frame exactly if it is the whole frame and its length fits | by what the prefix claims, modulo `LenRange` |
| EachDeliveryIsAHandoff | `DeliversByContract` | step simulation under the refinement mapping, with `Shortfall` (nothing is taken before the last unit is written) and `FrameInv` (the step that reads the last unit closes the connection, so that nothing is taken later) |
| HooksAdvance | `HooksOnlyAdvance` | a rank (`StepsLeft`): the units to write, and the steps before the first |
| AcceptingDaemonsAreReachable | `AcceptingIsReachable` | with `OneAlive`: only the one daemon alive touches the file, and it bound it |
| HookEventsProofs!DistinctTurnsAreProcessed | `ToldApartIsProcessed` | assumes `NoCollision`; with `RemembersDelivered`: a session remembers only ids of what was delivered, and ids of turns that are told apart differ (`IdsDiffer`) |
| RetriesAreDropped | `RetryIsDropped` | with `RemembersLast`: an event to whose session no other turn has come since is the one the session remembers |
| LifecycleProofs!TypeCorrect | `TypeOK` | with the types of `Delivery` |
| LoadedAgentsAreReachable | `LoadedIsReachable` | strengthened (`PInv`): one process is alive, the job's (`OneProcess`), and a script that removes files has the job booted out (`BootedOut`) |
| MarkersAreCurrent | `MarkerIsCurrent` | from `PInv`: a process past its first step has cleared the marker or is excused, for it could not, and none other can write one (`Prepared`) |
| RestartsReload | `RestartReloads` | strengthened (`RestartOK`) along the steps of the script; from bootout on, only the restart or a login can load the job, and both load what is on disk |
| UninstallsAreClean | `UninstallIsClean` | strengthened (`UninstallOK`) along the steps of the script: each step's removal is kept up to the end, as no process is left to undo it, and after it only another script changes anything |
| UninstallsLast | `UninstallLasts` | from `UninstallOK`: without a plist a login loads nothing, without a loaded job launchd starts nothing (`OnlyLaunchStarts`, `NoJobNoSteps`) |

`TypeOK` alone is not inductive in any of the modules, and no invariant above is: an action's
effect depends on what an earlier step of the same handler fetched, so that each proof
carries what the program counters imply about the local variables. The assumptions are
`SessionManagerAssumption`, `DaemonAssumption`, `ReaderAssumption`, `DeliveryAssumption`,
`HookEventsAssumption` and `LifecycleAssumption`: that `None` is different from the values it
stands beside, that the kinds of cell are different, that a frame which decodes has its session
and id, that sizes and times are natural numbers and the intervals are not zero. TLC
evaluates them in every run of their modules.

Only model-checked, because fairness and ENABLED are out of the prover's reach: the liveness
properties `EachConnectionEnds`, `DegradationIsMarked`, `EachCallReturns`, `EachHookEnds`,
`DeliveredArrives`, `UninstallStops` and `LoadedComesUp`. Of three of them the part that needs no
fairness is a theorem: `EachHookEnds` is `HooksOnlyAdvance` and that an unfinished hook can and does
take a step, `EachCallReturns` is `CallsOnlyAdvance` and the same of the reader, and
`UninstallStops` is `UninstallLasts` and that the old process leaves. The ranks are natural
numbers, so that a hook takes at most its frame's length and two more steps, and a call of the reader at most
`4 * DEFAULT_SETTLE_BOUND + 5`. Every invariant, every action property and the three refinements that a
passing run checks are theorems.

## 5. What is not modelled

* The vocabulary of speech and segments (event.rs, tts.rs, adapter.rs, error.rs of pulse-core): types and
  traits without behaviour. The adapter of pulse-source is a placeholder that emits one fixed
  event and that nothing calls.
* `write_frame`, which is `encode_wire` over a stream and which only tests call.
* The digest of a read, which nobody uses; log lines; argument parsing; paths and file modes.
* In the scripts: the log directory, the check for the binary, flags that only rename a path.
* Growth of the session map, which has no bound in the code: nothing removes a session, so that
  the only thing to say of it is that it grows.
* An `accept` that fails for good, as with EMFILE, in which the loop spins: the
  step is there (`AcceptFails`), but `DaemonFairness` takes it that `accept` succeeds in the end.
* What the tests alone use (`last_stable_size_hint`), and non-Unix targets.

## 6. Plan

Done, so that what decides whether an event is spoken came first: SessionManager, Daemon,
TranscriptReader, Delivery, HookEvents; then ReadContract with its two refinements, the framing
in Delivery, and Lifecycle; then Handoff with its refinement, and the ranks and the
uninstall; each with its theorems.

What is left is small. `Lifecycle` could carry the hooks of `Delivery`, to say what becomes of an
event that is delivered during a restart. A rank for the handlers of `Daemon`, as the hooks and
the reader have, would be the safety half of `EachConnectionEnds`. `Daemon` could take its
frames from `HookEvents` and its lives from `Lifecycle`; the parts they would share are the operators they share now. The
liveness properties stay with TLC.
