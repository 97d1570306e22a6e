------------------------------- MODULE Delivery -------------------------------
(***************************************************************************)
(* From a hook process to a daemon process: deliver                         *)
(* (crates/pulse-hook/src/dispatch.rs), the socket file, the kernel's       *)
(* listen queue and socket buffers, and the daemon's bind, accept loop,     *)
(* signal branch, frame read and exit (main.rs, listener.rs, shutdown.rs,   *)
(* connection.rs of crates/pulse-daemon, and read_frame of pulse-core).     *)
(*                                                                          *)
(* A frame is a length prefix and a JSON body (wire.rs), in units of bytes; *)
(* the prefix tells the length of the body as far as its 32 bits go.  Time  *)
(* is abstracted: a timeout may fire whenever what it guards is pending.    *)
(***************************************************************************)
EXTENDS Integers, FiniteSets

CONSTANTS
  Hook,       \* hook processes, one event each
  Daemon,     \* daemon processes, each started at most once
  None,
  PrefixLen,  \* units of the length prefix, LEN_PREFIX_BYTES
  LenRange,   \* how many lengths it can tell, 2^32
  BodyLen,    \* units of each hook's JSON body
  BufferCap,  \* units that the kernel holds for a connection
  Backlog,    \* connections it holds for a listener
  Overlap     \* may a daemon be started while another is alive?

ASSUME DeliveryAssumption ==
  /\ None \notin Daemon
  /\ PrefixLen \in Nat \ {0} /\ LenRange \in Nat \ {0}
  /\ BodyLen \in [Hook -> Nat \ {0}]
  /\ BufferCap \in Nat \ {0}
  /\ Backlog \in Nat \ {0}
  /\ Overlap \in BOOLEAN

VARIABLES
  pc,        \* where each daemon process is
  receiver,  \* its SIGTERM handling: "default" until a handler is installed,
             \* then "idle" (nobody listens), "armed" or "fired"
  socket,    \* whose listener the socket file names, or None: no file
  hook,      \* where each hook process is
  outcome,   \* its DeliverOutcome, or "none"
  conn,      \* its connection: "none", "queued", "open", "closed"
  peer,      \* the daemon it was made to
  sent,      \* units written by the hook
  got,       \* units read by the daemon
  forwarded, \* history: hooks whose event reached a SessionManager
  signalled  \* history: daemons that got SIGTERM while their loop ran

daemonVars == <<pc, receiver, socket, signalled>>
hookVars   == <<hook, outcome>>
connVars   == <<conn, peer, sent, got, forwarded>>
vars == <<pc, receiver, socket, signalled, hook, outcome, conn, peer, sent, got,
          forwarded>>

\* encode_wire: what the hook writes, and the length its prefix tells.
FrameLen(h) == PrefixLen + BodyLen[h]
Claimed(h)  == BodyLen[h] % LenRange

\* Seeded fault: a body cut short is parsed as far as it goes.
IsJsonSoFar(h, n) == n > 0

\* A body cut short is not JSON.
IsJson(h, n) == n = BodyLen[h]

\* Seeded fault: the prefix is counted as part of the body.
DecodeShort(h, n) ==
  IF n < PrefixLen THEN "truncated_prefix"
  ELSE IF n < Claimed(h) THEN "truncated_body"
  ELSE IF IsJson(h, Claimed(h)) THEN "event" ELSE "json"

\* decode_wire of the first n units of a frame.
Decode(h, n) ==
  IF n < PrefixLen THEN "truncated_prefix"
  ELSE IF n < PrefixLen + Claimed(h) THEN "truncated_body"
  ELSE IF IsJson(h, Claimed(h)) THEN "event" ELSE "json"

Starting == {"probe", "unlink", "bind", "chmod"}
Alive    == Starting \cup {"loop", "cleanup", "exit"}

\* The listener exists from bind until main returns.
Listening == {"chmod", "loop", "cleanup", "exit"}

\* Connection handlers run on worker threads, also while main cleans up.
Serving == {"loop", "cleanup", "exit"}

Init ==
  /\ pc = [d \in Daemon |-> "off"]
  /\ receiver = [d \in Daemon |-> "default"]
  /\ socket = None
  /\ hook = [h \in Hook |-> "check"]
  /\ outcome = [h \in Hook |-> "none"]
  /\ conn = [h \in Hook |-> "none"]
  /\ peer = [h \in Hook |-> None]
  /\ sent = [h \in Hook |-> 0]
  /\ got = [h \in Hook |-> 0]
  /\ forwarded = {} /\ signalled = {}

Goto(d, label) == pc' = [pc EXCEPT ![d] = label]

\* The end of a process closes its connections.
Hangup(d) == [h \in Hook |-> IF peer[h] = d THEN "closed" ELSE conn[h]]

Die(d) ==
  /\ Goto(d, "dead")
  /\ conn' = Hangup(d)
  /\ UNCHANGED <<peer, sent, got, forwarded, hookVars>>

(***************************************************************************)
(* The daemon process.                                                      *)
(***************************************************************************)
\* launchd, an operator script or a person starts it.
Start(d) ==
  /\ pc[d] = "off"
  /\ Overlap \/ \A e \in Daemon : pc[e] \notin Alive
  /\ Goto(d, "probe")
  /\ UNCHANGED <<receiver, socket, signalled, hookVars, connVars>>

\* bind_socket: path.exists().
Probe(d) ==
  /\ pc[d] = "probe"
  /\ Goto(d, IF socket = None THEN "bind" ELSE "unlink")
  /\ UNCHANGED <<receiver, socket, signalled, hookVars, connVars>>

\* remove_file, which fails if the file has gone meanwhile.
Unlink(d) ==
  /\ pc[d] = "unlink"
  /\ socket' = None
  /\ IF socket = None THEN Die(d)
     ELSE Goto(d, "bind") /\ UNCHANGED <<connVars, hookVars>>
  /\ UNCHANGED <<receiver, signalled>>

\* UnixListener::bind, which fails if a file is there (again).
Bind(d) ==
  /\ pc[d] = "bind"
  /\ IF socket # None THEN Die(d) /\ UNCHANGED socket
     ELSE socket' = d /\ Goto(d, "chmod") /\ UNCHANGED <<connVars, hookVars>>
  /\ UNCHANGED <<receiver, signalled>>

\* set_permissions; main goes on to the accept loop.
Chmod(d) ==
  /\ pc[d] = "chmod"
  /\ Goto(d, "loop")
  /\ UNCHANGED <<receiver, socket, signalled, hookVars, connVars>>

Waiting(d) == {h \in Hook : conn[h] = "queued" /\ peer[h] = d}

\* The accept arm, which biased polls first: the wait_for_signal of this turn
\* of the loop is dropped, with whatever its receiver holds.
Accept(d) ==
  /\ pc[d] = "loop"
  /\ \E h \in Waiting(d) : conn' = [conn EXCEPT ![h] = "open"]
  /\ receiver' = [receiver EXCEPT ![d] = IF @ = "default" THEN @ ELSE "idle"]
  /\ UNCHANGED <<pc, socket, signalled, hookVars, peer, sent, got, forwarded>>

\* accept returns an error, such as EMFILE: logged, and the loop goes on.
AcceptFails(d) ==
  /\ pc[d] = "loop" /\ Waiting(d) # {}
  /\ receiver' = [receiver EXCEPT ![d] = IF @ = "default" THEN @ ELSE "idle"]
  /\ UNCHANGED <<pc, socket, signalled, hookVars, connVars>>

\* With nothing to accept, wait_for_signal is polled and registers.
Arm(d) ==
  /\ pc[d] = "loop" /\ Waiting(d) = {}
  /\ receiver[d] \in {"default", "idle"}
  /\ receiver' = [receiver EXCEPT ![d] = "armed"]
  /\ UNCHANGED <<pc, socket, signalled, hookVars, connVars>>

\* The signal arm.
TakeSignal(d) ==
  /\ pc[d] = "loop" /\ Waiting(d) = {}
  /\ receiver[d] = "fired"
  /\ Goto(d, "cleanup")
  /\ UNCHANGED <<receiver, socket, signalled, hookVars, connVars>>

\* Seeded fault: the socket file is removed while the loop still runs.
CleanupEarly(d) ==
  /\ pc[d] = "loop" /\ receiver[d] = "fired"
  /\ socket' = None
  /\ UNCHANGED <<pc, receiver, signalled, hookVars, connVars>>

\* main removes whatever is at the path.
Cleanup(d) ==
  /\ pc[d] = "cleanup"
  /\ socket' = None
  /\ Goto(d, "exit")
  /\ UNCHANGED <<receiver, signalled, hookVars, connVars>>

\* main returns: the listener and the runtime are dropped.
Exit(d) ==
  /\ pc[d] = "exit"
  /\ Die(d)
  /\ UNCHANGED <<receiver, socket, signalled>>

\* SIGTERM: its default action until a handler is installed, and nothing at
\* all while no receiver is listening.
Sigterm(d) ==
  /\ pc[d] \in Alive
  /\ signalled' = IF pc[d] = "loop" /\ receiver[d] # "default"
                  THEN signalled \cup {d} ELSE signalled
  /\ IF receiver[d] = "default" THEN Die(d) ELSE UNCHANGED <<pc, hookVars, connVars>>
  /\ receiver' = [receiver EXCEPT ![d] = IF @ = "armed" THEN "fired" ELSE @]
  /\ UNCHANGED socket

\* SIGKILL, power loss, an abort, or a startup step that fails.
Kill(d) ==
  /\ pc[d] \in Alive
  /\ Die(d)
  /\ UNCHANGED <<receiver, socket, signalled>>

(***************************************************************************)
(* One connection of the daemon: read_frame under READ_TIMEOUT.             *)
(***************************************************************************)
Served(h) == conn[h] = "open" /\ pc[peer[h]] \in Serving

\* Seeded fault: one unit more than the frame is waited for.
CompletePastEnd(h, n) == n > FrameLen(h)

\* Both read_exacts are satisfied: the prefix, and as much body as it tells.
Complete(h, n) == n = PrefixLen + Claimed(h)

\* serde_json::from_slice on the body that was read.
Parses(h, n) == IsJson(h, n - PrefixLen)

\* More of the frame arrives; once it is complete the connection is closed, and
\* the event forwarded if the body parses.
ReadSome(h) ==
  /\ Served(h) /\ got[h] < sent[h]
  /\ got' = [got EXCEPT ![h] = @ + 1]
  /\ IF Complete(h, got'[h])
     THEN /\ forwarded' = IF Parses(h, got'[h]) THEN forwarded \cup {h} ELSE forwarded
          /\ conn' = [conn EXCEPT ![h] = "closed"]
     ELSE UNCHANGED <<forwarded, conn>>
  /\ UNCHANGED <<daemonVars, hookVars, peer, sent>>

\* The end of the stream, or READ_TIMEOUT, comes first: ShortFrame.
ShortFrame(h) ==
  /\ Served(h) /\ got[h] = sent[h]
  /\ conn' = [conn EXCEPT ![h] = "closed"]
  /\ UNCHANGED <<daemonVars, hookVars, peer, sent, got, forwarded>>

(***************************************************************************)
(* One hook process: deliver.                                               *)
(***************************************************************************)
Finish(h, how) ==
  /\ hook' = [hook EXCEPT ![h] = "done"]
  /\ outcome' = [outcome EXCEPT ![h] = how]

\* socket_path.exists()
CheckSocket(h) ==
  /\ hook[h] = "check"
  /\ IF socket = None
     THEN Finish(h, "socket_absent")
     ELSE hook' = [hook EXCEPT ![h] = "connect"] /\ UNCHANGED outcome
  /\ UNCHANGED <<daemonVars, connVars>>

\* The file names a listener that is there and whose queue has room.
CanConnect == /\ socket # None
              /\ pc[socket] \in Listening
              /\ Cardinality(Waiting(socket)) < Backlog

Enqueue(h) ==
  /\ conn' = [conn EXCEPT ![h] = "queued"]
  /\ peer' = [peer EXCEPT ![h] = socket]

Connect(h) ==
  /\ hook[h] = "connect" /\ CanConnect
  /\ Enqueue(h)
  /\ hook' = [hook EXCEPT ![h] = "write"]
  /\ UNCHANGED <<daemonVars, outcome, sent, got, forwarded>>

\* Seeded fault: a refused connection is tried again.
ConnectRefusedRetries(h) ==
  /\ hook[h] = "connect" /\ ~CanConnect
  /\ hook' = [hook EXCEPT ![h] = "check"]
  /\ UNCHANGED <<daemonVars, outcome, connVars>>

ConnectRefused(h) ==
  /\ hook[h] = "connect" /\ ~CanConnect
  /\ Finish(h, "connect_failed")
  /\ UNCHANGED <<daemonVars, connVars>>

\* The connect timeout fires, with or without a connection in the queue.
ConnectTimedOut(h) ==
  /\ hook[h] = "connect"
  /\ Finish(h, "connect_failed")
  /\ \/ CanConnect /\ Enqueue(h)
     \/ UNCHANGED <<conn, peer>>
  /\ UNCHANGED <<daemonVars, sent, got, forwarded>>

\* Seeded fault: one unit too many is written.
WrittenPastEnd(h, n) == n > FrameLen(h)

Written(h, n) == n = FrameLen(h)

\* write_all makes progress while the kernel's buffer has room.
Write(h) ==
  /\ hook[h] = "write" /\ conn[h] # "closed"
  /\ sent[h] - got[h] < BufferCap
  /\ sent' = [sent EXCEPT ![h] = @ + 1]
  /\ IF Written(h, sent'[h]) THEN Finish(h, "delivered") ELSE UNCHANGED hookVars
  /\ UNCHANGED <<daemonVars, conn, peer, got, forwarded>>

\* Seeded fault: no timeout around the write.
WriteFailsUnbounded(h) ==
  /\ hook[h] = "write" /\ conn[h] = "closed"
  /\ Finish(h, "write_timed_out")
  /\ UNCHANGED <<daemonVars, connVars>>

\* The peer has hung up, the write timeout fires, or the frame could not be
\* encoded in the first place.
WriteFails(h) ==
  /\ hook[h] = "write"
  /\ Finish(h, "write_timed_out")
  /\ UNCHANGED <<daemonVars, connVars>>

DaemonStep(d) == \/ Probe(d) \/ Unlink(d) \/ Bind(d) \/ Chmod(d)
                 \/ Accept(d) \/ Arm(d) \/ TakeSignal(d) \/ Cleanup(d) \/ Exit(d)

HandlerStep(h) == ReadSome(h) \/ ShortFrame(h)

HookStep(h) == \/ CheckSocket(h) \/ Connect(h) \/ ConnectRefused(h)
               \/ ConnectTimedOut(h) \/ Write(h) \/ WriteFails(h)

Next == \/ \E d \in Daemon : \/ DaemonStep(d) \/ AcceptFails(d)
                              \/ Start(d) \/ Sigterm(d) \/ Kill(d)
        \/ \E h \in Hook : HandlerStep(h) \/ HookStep(h)

Spec == Init /\ [][Next]_vars

\* The hook's process and its timers go on; nobody has to start or to stop a
\* daemon, and a daemon may be stuck for good.
FairSpec == Spec /\ \A h \in Hook : WF_vars(HookStep(h))

\* A daemon that is not stuck: its loop and its handlers go on, and accept does
\* not fail for ever.
DaemonFairness == /\ \A d \in Daemon : WF_vars(DaemonStep(d))
                  /\ \A h \in Hook : WF_vars(HandlerStep(h))
-------------------------------------------------------------------------------
(***************************************************************************)
(* Properties.                                                              *)
(***************************************************************************)
\* Every variable keeps its type.
TypeOK ==
  /\ pc \in [Daemon -> {"off", "dead"} \cup Alive]
  /\ receiver \in [Daemon -> {"default", "idle", "armed", "fired"}]
  /\ socket \in Daemon \cup {None}
  /\ hook \in [Hook -> {"check", "connect", "write", "done"}]
  /\ outcome \in [Hook -> {"none", "delivered", "socket_absent",
                           "connect_failed", "write_timed_out"}]
  /\ conn \in [Hook -> {"none", "queued", "open", "closed"}]
  /\ peer \in [Hook -> Daemon \cup {None}]
  /\ sent \in [Hook -> Nat] /\ got \in [Hook -> Nat]
  /\ \A h \in Hook : sent[h] <= FrameLen(h) /\ got[h] <= FrameLen(h)
  /\ forwarded \in SUBSET Hook /\ signalled \in SUBSET Daemon

\* A non-zero exit means that the event did not and will not reach a
\* SessionManager (dispatch.rs:11-18): what the hook reports as lost is never
\* processed behind its back, so an agent that retries it cannot double it.
FailureMeansUnprocessed ==
  \A h \in Hook :
    outcome[h] \in {"socket_absent", "connect_failed", "write_timed_out"} =>
      h \notin forwarded

\* read_frame takes a frame in pieces and decode_wire takes bytes as they are
\* (wire.rs:184-238): an event is forwarded exactly when decode_wire would find
\* it in what was read, whatever its length, and however it was cut.
ReadAgreesWithDecode ==
  \A h \in Hook : h \in forwarded <=> Decode(h, got[h]) = "event"

\* The delivery of one hook's event, without the ways it takes.
HandoffVerdict(h) == IF outcome[h] \in {"none", "delivered"} THEN outcome[h] ELSE "failed"

HandoffEvent(h) == IF h \in forwarded THEN "taken"
                   ELSE IF conn[h] = "closed" THEN "lost" ELSE "pending"

HandsOff(h) == INSTANCE Handoff
                 WITH verdict <- HandoffVerdict(h), event <- HandoffEvent(h)

\* Each delivery is a handoff (dispatch.rs:11-18, connection.rs:49-86): whichever
\* pieces, timeouts, crashes and daemons it takes, the exit status is final, the
\* event is processed at most once, never before the hook is sure to report it
\* delivered, and never after its connection was lost.  This is
\* \A h \in Hook : HandsOff(h)!Spec, in the form TLC checks.
DeliversByContract ==
  /\ \A h \in Hook : HandsOff(h)!Init
  /\ [][\A h \in Hook : [HandsOff(h)!Next]_(HandsOff(h)!vars)]_vars

\* What a hook has left to do at most: units to write, and a connection to look
\* for and to make.
StepsLeft(h) ==
  CASE hook[h] = "done"    -> 0
    [] hook[h] = "write"   -> FrameLen(h) - sent[h]
    [] hook[h] = "connect" -> FrameLen(h) + 1
    [] hook[h] = "check"   -> FrameLen(h) + 2

\* "There is no retry loop in the hook" (dispatch.rs:20): each of its steps
\* leaves less to do, and nothing that daemons or other hooks do gives it more.
\* What EachHookEnds adds is that it takes those steps.
HooksOnlyAdvance ==
  [][\A h \in Hook : /\ StepsLeft(h)' <= StepsLeft(h)
                     /\ HookStep(h) => StepsLeft(h)' < StepsLeft(h)]_vars

\* While daemons do not overlap, one that accepts connections can be reached:
\* whatever stale socket files crashes left, the file names its listener
\* (listener.rs:16-19, main.rs:111-113).
AcceptingIsReachable ==
  ~Overlap => \A d \in Daemon : pc[d] \in {"chmod", "loop"} => socket = d

\* "The hook never blocks the agent" (dispatch.rs:9): every hook process ends,
\* also when the daemon is wedged, starting, going down or gone.
EachHookEnds == \A h \in Hook : <>(hook[h] = "done")

\* The prefix can tell the length of the body.
Fits(h) == BodyLen[h] < LenRange

\* An exit status of 0 means that the event arrives, unless the daemon that
\* was to have it goes down first, or its body is so long that the prefix
\* cannot tell its length (wire.rs:171).
DeliveredArrives ==
  DaemonFairness =>
    \A h \in Hook :
      outcome[h] = "delivered" /\ Fits(h) ~>
        h \in forwarded \/ \E d \in Daemon : peer[h] = d /\ pc[d] \notin {"chmod", "loop"}

\* "On SIGTERM or SIGINT, the select returns, the accept loop stops accepting"
\* (shutdown.rs:4-5).
SignalStopsLoop ==
  DaemonFairness => \A d \in Daemon : d \in signalled ~> pc[d] # "loop"
===============================================================================
