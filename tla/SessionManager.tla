---------------------------- MODULE SessionManager ----------------------------
(***************************************************************************)
(* The daemon's session multiplexer (crates/pulse-daemon/src/session.rs)   *)
(* as operators on its one piece of state, the HashMap from session to     *)
(* SessionState.  The map has no lock of its own: module Daemon calls these *)
(* operators inside the critical sections of its mutex.                     *)
(***************************************************************************)
EXTENDS Naturals

CONSTANTS SessionId,   \* sessions a hook may name
          EventId,     \* turn ids and notification event ids
          Path,        \* non-empty transcript paths
          EmptyPath,   \* the path Some(""), which is never read
          None,        \* Option::None
          U64Max       \* u64::MAX

ASSUME SessionManagerAssumption ==
  /\ U64Max \in Nat \ {0}
  /\ EmptyPath \notin Path
  /\ None \notin SessionId \cup EventId \cup Path \cup {EmptyPath} \cup Nat

SessionState == [transcript_path  : Path \cup {EmptyPath, None},
                 last_event_id    : EventId \cup {None},
                 receipt_seq      : 0..U64Max,
                 last_read_offset : Nat \cup {None}]

DefaultState == [transcript_path  |-> None,
                 last_event_id    |-> None,
                 receipt_seq      |-> 0,
                 last_read_offset |-> None]

\* The map has a state for each tracked session.
IsSessionMap(m) ==
  DOMAIN m \subseteq SessionId /\ m \in [DOMAIN m -> SessionState]

\* sessions.entry(sid).or_default(), and what get(sid) is read for: an
\* untracked session has no offset, as a default one has.
StateOf(m, sid) == IF sid \in DOMAIN m THEN m[sid] ELSE DefaultState

Put(m, sid, st) ==
  [s \in DOMAIN m \cup {sid} |-> IF s = sid THEN st ELSE m[s]]

\* entry(sid).or_default() alone: what a HookDegraded event does.
Touch(m, sid) == IF sid = None THEN m ELSE Put(m, sid, StateOf(m, sid))

\* Seeded faults of the receipt counter and of the dedup test.
SaturatingIncPlain(n) == n + 1
SaturatingIncWraps(n) == (n + 1) % (U64Max + 1)

SaturatingInc(n) == IF n < U64Max THEN n + 1 ELSE n

IsDuplicateNever(st, id) == FALSE
IsDuplicateAnySeen(st, id) == st.last_event_id # None

IsDuplicate(st, id) == st.last_event_id = id

\* Seeded fault: the entry is written anew, without what it knew.
RecordedAfresh(st, id, path) ==
  [DefaultState EXCEPT !.last_event_id   = id,
                       !.transcript_path = IF path # None THEN path ELSE st.transcript_path,
                       !.receipt_seq     = SaturatingInc(st.receipt_seq)]

\* The New branch of record_dedup.
Recorded(st, id, path) ==
  [st EXCEPT !.last_event_id   = id,
             !.transcript_path = IF path # None THEN path ELSE @,
             !.receipt_seq     = SaturatingInc(@)]

\* record_dedup: the map after the event, whichever the verdict.
RecordDedup(m, sid, id, path) ==
  LET st == StateOf(m, sid)
  IN  Put(m, sid, IF IsDuplicate(st, id) THEN st ELSE Recorded(st, id, path))

\* Seeded fault: one byte past what was read.
StoreReadOffsetPastEnd(m, sid, offset) ==
  IF sid \in DOMAIN m
  THEN [m EXCEPT ![sid].last_read_offset = offset + 1]
  ELSE m

\* get_mut(sid).last_read_offset = Some(offset), when sid is tracked.
StoreReadOffset(m, sid, offset) ==
  IF sid \in DOMAIN m
  THEN [m EXCEPT ![sid].last_read_offset = offset]
  ELSE m
===============================================================================
