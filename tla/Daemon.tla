-------------------------------- MODULE Daemon --------------------------------
(***************************************************************************)
(* The resident daemon (crates/pulse-daemon): its process life, the accept  *)
(* loop, one concurrent handler per connection, the mutex around the        *)
(* SessionManager, the DEGRADED marker file, and the transcript files that  *)
(* another program writes while a handler reads them.                       *)
(*                                                                          *)
(* A handler yields the processor at each .await of handle_connection, so   *)
(* each action below is the code between two of them; what it read before   *)
(* an .await is in prior, offset and outcome when it goes on.  The settle   *)
(* loop's polls are one action here, the last of them, which is the one     *)
(* whose size is returned.  mark_degraded is two actions, because two       *)
(* handlers on two worker threads can interleave inside std::fs::write.     *)
(***************************************************************************)
EXTENDS SessionManager, Sequences

CONSTANTS Conn,          \* connections, each used at most once
          Frame,         \* the envelopes peers may send
          WireVersion,   \* wire_version()
          AppendOnly,    \* do writers only ever append to a transcript?
          MarkerCanFail, \* can the marker file be unwritable?
          MaxSize,       \* bound: a transcript's size
          MaxLives       \* bound: starts of the daemon process

Reading == {"turn_complete"}
Kind    == {"turn_complete", "attention_hint", "hook_degraded"}

\* What a handler may find out; the reasons that go into the marker.
Degrading == {"truncated", "drift", "read_error", "hook_degraded"}
Outcome   == Degrading \cup {"none", "dropped", "duplicate", "new", "settled"}

WireEvent == [kind           : Kind,
              schema_version : Nat,
              session        : SessionId \cup {None},
              id             : EventId \cup {None},
              path           : Path \cup {EmptyPath, None}]

ASSUME DaemonAssumption ==
  /\ None \notin Conn /\ None \notin WireEvent
  /\ \A reasons \in SUBSET Degrading : reasons # None
  /\ Frame \subseteq WireEvent
  /\ \A f \in Frame : f.kind # "hook_degraded" =>
                        f.session \in SessionId /\ f.id \in EventId
  /\ AppendOnly \in BOOLEAN /\ MarkerCanFail \in BOOLEAN
  /\ MaxSize \in Nat /\ MaxLives \in Nat

VARIABLES
  daemon,   \* "down", "up", "stopping" (accept loop left), "exited", "crashed"
  lives,    \* starts so far
  sessions, \* the SessionManager's map
  holder,   \* the handler that keeps the mutex across a step, or None
  log,      \* history: per session, the ids found New in this life, in order
  pc,       \* where each connection's handler is
  ev,       \* the envelope the handler decoded
  prior,    \* the last_read_offset it fetched
  offset,   \* the read_offset its reader computed
  outcome,  \* what it has found out about its event so far
  marker,   \* the DEGRADED file: None, or the set of reasons written in it
  warned,   \* connections whose mark_degraded failed
  size      \* size of each transcript, None when there is none to read

serverVars == <<daemon, lives>>
stateVars  == <<sessions, holder, log>>
localVars  == <<ev, prior, offset, outcome>>
markVars   == <<marker, warned>>
vars == <<daemon, lives, sessions, holder, log, pc, ev, prior, offset, outcome,
          marker, warned, size>>

PC == {"idle", "frame", "record", "fetch", "check", "settle", "bytes", "store",
       "mark", "mark_write", "done", "cut", "gone"}

\* A handler at one of these has been cut off from its connection or has
\* none yet; at the others it is a live task.
Dead == {"idle", "done", "cut", "gone"}

-------------------------------------------------------------------------------
Init ==
  /\ daemon = "down" /\ lives = 0
  /\ sessions = [s \in {} |-> DefaultState]
  /\ holder = None
  /\ log = [s \in SessionId |-> <<>>]
  /\ pc = [c \in Conn |-> "idle"]
  /\ ev = [c \in Conn |-> None]
  /\ prior = [c \in Conn |-> None]
  /\ offset = [c \in Conn |-> None]
  /\ outcome = [c \in Conn |-> "none"]
  /\ marker = None /\ warned = {}
  /\ size \in [Path -> 0..MaxSize \cup {None}]

(***************************************************************************)
(* The process.                                                             *)
(***************************************************************************)
\* Seeded fault: a marker left by an earlier process is kept.
ClearDegradedSkipped == UNCHANGED marker

\* clear_degraded: a failure to remove the file is only logged.
ClearDegraded ==
  \/ marker' = None
  \/ MarkerCanFail /\ UNCHANGED marker

\* Connections of an earlier process are closed for good.
Closed(p) == IF p = "idle" THEN "idle" ELSE "gone"

\* main, up to the accept loop: the marker is cleared, the socket bound, and
\* the SessionManager is a new one.
Start ==
  /\ daemon \in {"down", "exited", "crashed"} /\ lives < MaxLives
  /\ ClearDegraded
  /\ daemon' = "up" /\ lives' = lives + 1
  /\ sessions' = [s \in {} |-> DefaultState]
  /\ log' = [s \in SessionId |-> <<>>]
  /\ holder' = None
  /\ pc' = [c \in Conn |-> Closed(pc[c])]
  /\ UNCHANGED <<localVars, warned, size>>

\* main, when bind_socket fails: the marker has been cleared all the same, and
\* the process ends with a failure.
BindFails ==
  /\ daemon \in {"down", "exited", "crashed"} /\ lives < MaxLives
  /\ ClearDegraded
  /\ daemon' = "crashed" /\ lives' = lives + 1
  /\ UNCHANGED <<stateVars, pc, localVars, warned, size>>

\* run_accept_loop's accept arm.
Accept(c) ==
  /\ daemon = "up" /\ pc[c] = "idle"
  /\ pc' = [pc EXCEPT ![c] = "frame"]
  /\ UNCHANGED <<serverVars, stateVars, localVars, markVars, size>>

\* run_accept_loop's signal arm.  The handlers already spawned go on, on
\* other worker threads, while main removes the socket and returns.  With
\* --once the loop ends in the same way right after an accept.
Signal ==
  /\ daemon = "up"
  /\ daemon' = "stopping"
  /\ UNCHANGED <<lives, stateVars, pc, localVars, markVars, size>>

\* Dropping the runtime at the end of main cancels every handler at its next
\* .await.  mark_degraded has none, so a handler inside it completes first.
CutOff(p) == IF p \in Dead THEN p ELSE "cut"

Exit ==
  /\ daemon = "stopping"
  /\ \A c \in Conn : pc[c] \notin {"mark", "mark_write"}
  /\ daemon' = "exited"
  /\ holder' = None
  /\ pc' = [c \in Conn |-> CutOff(pc[c])]
  /\ UNCHANGED <<lives, sessions, log, localVars, markVars, size>>

\* SIGKILL, power loss, an abort: handlers stop wherever they are.
Crash ==
  /\ daemon \in {"up", "stopping"}
  /\ daemon' = "crashed"
  /\ holder' = None
  /\ pc' = [c \in Conn |-> CutOff(pc[c])]
  /\ UNCHANGED <<lives, sessions, log, localVars, markVars, size>>

(***************************************************************************)
(* One connection: handle_connection.                                       *)
(***************************************************************************)
Running == daemon \in {"up", "stopping"}

At(c, p) == Running /\ pc[c] = p

\* The mutex is free, so a critical section that does not outlive this step
\* can run.
Unlocked == holder = None

\* read_frame delivered a whole frame that decodes.
ReadFrame(c) ==
  /\ At(c, "frame")
  /\ \E f \in Frame :
       IF f.schema_version = WireVersion
       THEN /\ ev' = [ev EXCEPT ![c] = f]
            /\ pc' = [pc EXCEPT ![c] = "record"]
            /\ UNCHANGED outcome
       ELSE /\ outcome' = [outcome EXCEPT ![c] = "dropped"]
            /\ pc' = [pc EXCEPT ![c] = "done"]
            /\ UNCHANGED ev
  /\ UNCHANGED <<serverVars, stateVars, prior, offset, markVars, size>>

\* The peer closed mid-frame, sent no JSON, or READ_TIMEOUT passed.
FrameFails(c) ==
  /\ At(c, "frame")
  /\ outcome' = [outcome EXCEPT ![c] = "dropped"]
  /\ pc' = [pc EXCEPT ![c] = "done"]
  /\ UNCHANGED <<serverVars, stateVars, ev, prior, offset, markVars, size>>

\* Where a handler goes once its event is New.
AfterNew(e) == IF e.kind \in Reading THEN "fetch" ELSE "done"

\* SessionManager::record for TurnComplete and AttentionHint.
Record(c) ==
  LET e   == ev[c]
      dup == IsDuplicate(StateOf(sessions, e.session), e.id)
  IN  /\ At(c, "record") /\ Unlocked
      /\ e.kind # "hook_degraded"
      /\ sessions' = RecordDedup(sessions, e.session, e.id, e.path)
      /\ log' = [log EXCEPT ![e.session] = IF dup THEN @ ELSE Append(@, e.id)]
      /\ outcome' = [outcome EXCEPT ![c] = IF dup THEN "duplicate" ELSE "new"]
      /\ pc' = [pc EXCEPT ![c] = IF dup THEN "done" ELSE AfterNew(e)]
      /\ UNCHANGED <<serverVars, holder, ev, prior, offset, markVars, size>>

\* SessionManager::record for HookDegraded: the session is touched and the
\* marker is written, all of it with the mutex held.
RecordDegraded(c) ==
  /\ At(c, "record") /\ Unlocked
  /\ ev[c].kind = "hook_degraded"
  /\ holder' = c
  /\ sessions' = Touch(sessions, ev[c].session)
  /\ outcome' = [outcome EXCEPT ![c] = "hook_degraded"]
  /\ pc' = [pc EXCEPT ![c] = "mark"]
  /\ UNCHANGED <<serverVars, log, ev, prior, offset, markVars, size>>

\* The path decides whether there is anything to read, and the offset whether
\* there is a regression to look for.
AfterFetch(e, last) == IF e.path \notin Path THEN "done"
                       ELSE IF last = None THEN "settle" ELSE "check"

\* The offset is fetched in a critical section of its own.
FetchOffset(c) ==
  /\ At(c, "fetch") /\ Unlocked
  /\ LET last == StateOf(sessions, ev[c].session).last_read_offset
     IN  /\ prior' = [prior EXCEPT ![c] = last]
         /\ pc' = [pc EXCEPT ![c] = AfterFetch(ev[c], last)]
  /\ UNCHANGED <<serverVars, stateVars, ev, offset, outcome, markVars, size>>

\* Seeded fault: an unchanged size counts as a regression.
RegressedOrEqual(current, before) == current <= before

Regressed(current, before) == current < before

\* A file operation of read_complete that finds no file.
ReadFails(c) ==
  /\ pc[c] \in {"check", "settle", "bytes"} /\ Running
  /\ size[ev[c].path] = None
  /\ outcome' = [outcome EXCEPT ![c] = "read_error"]
  /\ pc' = [pc EXCEPT ![c] = "mark"]
  /\ UNCHANGED <<serverVars, stateVars, ev, prior, offset, markVars, size>>

\* read_complete's regression test, made before the settle window.
CheckTruncated(c) ==
  LET current == size[ev[c].path]
  IN  /\ At(c, "check") /\ current # None
      /\ IF Regressed(current, prior[c])
         THEN /\ outcome' = [outcome EXCEPT ![c] = "truncated"]
              /\ offset' = [offset EXCEPT ![c] = current]
              /\ pc' = [pc EXCEPT ![c] = "store"]
         ELSE /\ pc' = [pc EXCEPT ![c] = "settle"]
              /\ UNCHANGED <<outcome, offset>>
      /\ UNCHANGED <<serverVars, stateVars, ev, prior, markVars, size>>

\* The settle window's last poll, whether the size was stable or the bound
\* was reached.
Settle(c) ==
  /\ At(c, "settle") /\ size[ev[c].path] # None
  /\ offset' = [offset EXCEPT ![c] = size[ev[c].path]]
  /\ pc' = [pc EXCEPT ![c] = "bytes"]
  /\ UNCHANGED <<serverVars, stateVars, ev, prior, outcome, markVars, size>>

\* tokio::fs::read and the probe of the lines up to the settled size: any
\* non-empty content may hold a line that drifts.
ReadBytes(c) ==
  /\ At(c, "bytes") /\ size[ev[c].path] # None
  /\ \E found \in {"settled", "drift"} :
       /\ found = "drift" => size[ev[c].path] > 0 /\ offset[c] > 0
       /\ outcome' = [outcome EXCEPT ![c] = found]
  /\ pc' = [pc EXCEPT ![c] = "store"]
  /\ UNCHANGED <<serverVars, stateVars, ev, prior, offset, markVars, size>>

\* Seeded faults of handle_read_outcome.
NeedsMarkNotDrift(o) == o = "truncated"

NeedsMark(o) == o \in {"truncated", "drift"}

\* The offset is stored back in a third critical section, then
\* handle_read_outcome decides about the marker.
StoreOffset(c) ==
  /\ At(c, "store") /\ Unlocked
  /\ sessions' = StoreReadOffset(sessions, ev[c].session, offset[c])
  /\ pc' = [pc EXCEPT ![c] = IF NeedsMark(outcome[c]) THEN "mark" ELSE "done"]
  /\ UNCHANGED <<serverVars, holder, log, localVars, markVars, size>>

\* Seeded fault: the guard outlives record.
ReleaseForgotten(c) == holder

\* record's guard is dropped when it returns.
Release(c) == IF holder = c THEN None ELSE holder

\* mark_degraded opens the file, which creates it or empties it.
MarkOpen(c) ==
  /\ At(c, "mark")
  /\ marker' = {}
  /\ pc' = [pc EXCEPT ![c] = "mark_write"]
  /\ UNCHANGED <<serverVars, stateVars, localVars, warned, size>>

\* mark_degraded writes the reason at offset 0 of its own descriptor: what
\* another handler wrote in between is covered, or its tail still shows.
MarkWrite(c) ==
  /\ At(c, "mark_write")
  /\ \E kept \in {{}, marker} : marker' = kept \cup {outcome[c]}
  /\ holder' = Release(c)
  /\ pc' = [pc EXCEPT ![c] = "done"]
  /\ UNCHANGED <<serverVars, sessions, log, localVars, warned, size>>

\* mark_degraded failed, to create or open the file or to write it: logged.
MarkFails(c) ==
  /\ MarkerCanFail
  /\ At(c, "mark") \/ At(c, "mark_write")
  /\ warned' = warned \cup {c}
  /\ holder' = Release(c)
  /\ pc' = [pc EXCEPT ![c] = "done"]
  /\ UNCHANGED <<serverVars, sessions, log, localVars, marker, size>>

Marking(c) == MarkOpen(c) \/ MarkWrite(c) \/ MarkFails(c)

Handler(c) ==
  \/ ReadFrame(c) \/ FrameFails(c)
  \/ Record(c) \/ RecordDegraded(c)
  \/ FetchOffset(c) \/ ReadFails(c) \/ CheckTruncated(c)
  \/ Settle(c) \/ ReadBytes(c) \/ StoreOffset(c)
  \/ Marking(c)

(***************************************************************************)
(* The writers of the transcripts, which are not part of this program.      *)
(***************************************************************************)
Grow(p) ==
  /\ \E n \in 0..MaxSize : /\ size[p] # None => n > size[p]
                           /\ size' = [size EXCEPT ![p] = n]
  /\ UNCHANGED <<serverVars, stateVars, pc, localVars, markVars>>

Shrink(p) ==
  /\ ~AppendOnly /\ size[p] # None
  /\ \E n \in 0..MaxSize : n < size[p] /\ size' = [size EXCEPT ![p] = n]
  /\ UNCHANGED <<serverVars, stateVars, pc, localVars, markVars>>

Remove(p) ==
  /\ ~AppendOnly /\ size[p] # None
  /\ size' = [size EXCEPT ![p] = None]
  /\ UNCHANGED <<serverVars, stateVars, pc, localVars, markVars>>

Next ==
  \/ Start \/ BindFails \/ Signal \/ Exit \/ Crash
  \/ \E c \in Conn : Accept(c) \/ Handler(c)
  \/ \E p \in Path : Grow(p) \/ Shrink(p) \/ Remove(p)

Spec == Init /\ [][Next]_vars

\* The runtime polls every ready task, the frame read and the settle window
\* are bounded by timers, and dropping the runtime waits for running polls.
Fairness ==
  /\ \A c \in Conn : /\ WF_vars(daemon = "up" /\ Handler(c))
                     /\ WF_vars(Marking(c))
  /\ WF_vars(Exit)

FairSpec == Spec /\ Fairness
-------------------------------------------------------------------------------
(***************************************************************************)
(* Properties.                                                              *)
(***************************************************************************)
\* Every variable keeps its type (session.rs:38-51, and the handler's locals
\* in connection.rs:49-199).
TypeOK ==
  /\ daemon \in {"down", "up", "stopping", "exited", "crashed"}
  /\ lives \in Nat
  /\ IsSessionMap(sessions)
  /\ holder \in Conn \cup {None}
  /\ log \in [SessionId -> Seq(EventId)]
  /\ pc \in [Conn -> PC]
  /\ ev \in [Conn -> WireEvent \cup {None}]
  /\ prior \in [Conn -> Nat \cup {None}]
  /\ offset \in [Conn -> Nat \cup {None}]
  /\ outcome \in [Conn -> Outcome]
  /\ marker \in (SUBSET Degrading) \cup {None}
  /\ warned \in SUBSET Conn
  /\ size \in [Path -> Nat \cup {None}]

\* The connections whose event this process found New for session s.
NewFor(s) ==
  {c \in Conn : /\ pc[c] # "gone"
                /\ outcome[c] \in {"new", "settled", "truncated", "drift",
                                   "read_error"}
                /\ ev[c].session = s}

Smaller(m, n) == IF m < n THEN m ELSE n

\* The session's counters agree with what was processed: last_event_id is the
\* latest New id and receipt_seq counts them, saturating at u64::MAX
\* (session.rs:42-46, 187-191), whatever the interleaving of the handlers.
BooksMatchLog ==
  \A s \in SessionId :
    LET st == StateOf(sessions, s)
        n  == Len(log[s])
    IN  /\ st.receipt_seq = Smaller(n, U64Max)
        /\ st.last_event_id = IF n = 0 THEN None ELSE log[s][n]

\* An event delivered twice in a row is processed once: no id is New twice
\* with no other New between (the contract of record_dedup, session.rs:169-193).
NoImmediateRepeat ==
  \A s \in SessionId : \A i \in 1..(Len(log[s]) - 1) : log[s][i] # log[s][i + 1]

\* Deduplication never loses an event: a connection acknowledged as Duplicate
\* (connection.rs:87-91) stands for one of the same session and id that was
\* processed in the same life of the daemon.
DuplicateWasProcessed ==
  \A c \in Conn :
    outcome[c] = "duplicate" /\ pc[c] # "gone" =>
      \E d \in NewFor(ev[c].session) : ev[d].id = ev[c].id

\* "The daemon speaks each logical event once" (lib.rs:13-15): no id is New
\* twice for a session in one life of the daemon.
EachEventOnce ==
  \A s \in SessionId :
    \A i, j \in 1..Len(log[s]) : i # j => log[s][i] # log[s][j]

\* Degradation is loud (NFR-15, degraded.rs:3-9): while the daemon has not
\* crashed, a handler of this life that ended on a degraded outcome and did
\* not fail to mark it leaves the marker present, and the marker is only
\* blank while another handler is inside mark_degraded, or failed there.
LoudDegradation ==
  daemon # "crashed" =>
    \A c \in Conn \ warned :
      pc[c] = "done" /\ outcome[c] \in Degrading =>
        /\ marker # None
        /\ marker = {} => \E d \in Conn : d \in warned \/ pc[d] = "mark_write"

\* A healthy run shows no marker ("a clean startup always begins un-degraded",
\* degraded.rs:6-9): unless an old marker could not be removed, each reason in
\* it, and its existence, is due to a handler of the current process.
MarkerHasCause ==
  ~MarkerCanFail /\ daemon # "crashed" /\ marker # None =>
    /\ \E c \in Conn : pc[c] # "gone" /\ outcome[c] \in Degrading
    /\ \A r \in marker : \E c \in Conn : pc[c] # "gone" /\ outcome[c] = r

\* A session's events all name one transcript.
OnePathPerSession ==
  \A f, g \in Frame : /\ f.session = g.session
                      /\ f.path \in Path /\ g.path \in Path
                      => f.path = g.path

\* With a transcript that is only appended to, and one per session, the
\* offset bookkeeping raises no false alarm: no interleaving of handlers and
\* appends makes the reader see a size below a stored offset
\* (connection.rs:110-126, reader.rs:213-230).
NoFalseTruncation ==
  AppendOnly /\ OnePathPerSession =>
    \A c \in Conn : outcome[c] # "truncated"

\* ... and what a handler goes on to store never falls short of what it
\* resumed from.
NoReadFallsBack ==
  AppendOnly /\ OnePathPerSession =>
    \A c \in Conn :
      offset[c] # None /\ prior[c] # None => offset[c] >= prior[c]

\* Every session is still there, with at least its receipts, and with an id, a path
\* and an offset if it had them.
Remembers(before, after) ==
  \A s \in DOMAIN before :
    /\ s \in DOMAIN after
    /\ before[s].receipt_seq <= after[s].receipt_seq
    /\ before[s].last_event_id # None => after[s].last_event_id # None
    /\ before[s].transcript_path # None => after[s].transcript_path # None
    /\ before[s].last_read_offset # None => after[s].last_read_offset # None

\* This step is the store of a handler of s, where another one has stored since it
\* fetched.
Overtaken(s) ==
  \E c \in Conn : /\ pc[c] = "store" /\ pc'[c] # "store"
                  /\ ev[c].session = s /\ prior[c] # sessions[s].last_read_offset

FallsBack(s) ==
  /\ sessions[s].last_read_offset # None
  /\ sessions'[s].last_read_offset < sessions[s].last_read_offset

\* In one life of the daemon no step drops a session, its dedup key, its path or
\* its offset, or lowers its counter (session.rs:38-60, 128-193).  An offset may be
\* replaced by an older one, but with transcripts as in NoFalseTruncation only in a
\* race: by a handler that another has overtaken between its fetch and its store
\* (connection.rs:110-126).
OffsetsFallOnlyInRaces ==
  [][lives' = lives =>
       /\ Remembers(sessions, sessions')
       /\ AppendOnly /\ OnePathPerSession =>
            \A s \in DOMAIN sessions : FallsBack(s) => Overtaken(s)]_vars

\* The part of a handler that is its call of read_complete: a connection's
\* transcript, and where the call is.
ReadResult == {"settled", "drift", "truncated", "read_error"}

HasPath(c) == ev[c] # None /\ ev[c].path \in Path

ReadPhase(c) ==
  IF outcome[c] \in ReadResult THEN "done"
  ELSE IF pc[c] \in {"check", "settle", "bytes"} THEN pc[c]
  ELSE IF pc[c] \in {"cut", "gone"} THEN "gone" ELSE "idle"

ReadSize(c)    == IF HasPath(c) THEN size[ev[c].path] ELSE None
ReadPrior(c)   == IF HasPath(c) THEN prior[c] ELSE None
ReadVerdict(c) == IF outcome[c] \in ReadResult THEN outcome[c] ELSE "none"

Reads(c) == INSTANCE ReadContract
              WITH size    <- ReadSize(c),
                   phase   <- ReadPhase(c),
                   prior   <- ReadPrior(c),
                   offset  <- offset[c],
                   verdict <- ReadVerdict(c)

\* Each handler's reading is a call of read_complete as its contract has it
\* (connection.rs:114-148): at most one call per connection, with the offset
\* that was fetched before it, however handlers, writers, signals and crashes
\* interleave.  This is \A c \in Conn : Reads(c)!Spec, in the form TLC checks.
ReadsByContract ==
  /\ \A c \in Conn : Reads(c)!Init
  /\ [][\A c \in Conn : [Reads(c)!Next]_(Reads(c)!vars)]_vars

\* "In-flight connection reads drain" on SIGTERM (shutdown.rs:4-7): a graceful
\* exit leaves no accepted connection cut off.
DrainOnShutdown ==
  daemon = "exited" => \A c \in Conn : pc[c] # "cut"

\* An accepted connection is finished with or cut off by the end of its
\* process: no handler waits for ever, for a peer, for the mutex or for a
\* transcript (READ_TIMEOUT, connection.rs:36-39; NFR-11, reader.rs:37-41).
EachConnectionEnds ==
  \A c \in Conn : pc[c] = "frame" ~> pc[c] \in Dead

\* A degraded outcome reaches the marker, or its failure is reported, or the
\* process ends first.
DegradationIsMarked ==
  \A c \in Conn :
    pc[c] \in {"store", "mark"} /\ outcome[c] \in Degrading ~>
      \/ pc[c] = "done" /\ (marker # None \/ c \in warned)
      \/ pc[c] \in {"cut", "gone"}
===============================================================================
