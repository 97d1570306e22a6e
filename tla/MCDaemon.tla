------------------------------- MODULE MCDaemon -------------------------------
(***************************************************************************)
(* Small instances of Daemon: the envelopes that peers send in each run.    *)
(***************************************************************************)
EXTENDS Daemon, TLC

CONSTANTS s1, s2, e1, e2, p1, c1, c2, c3

Env(kind, s, id, path) ==
  [kind |-> kind, schema_version |-> 1, session |-> s, id |-> id, path |-> path]

Turn(s, id, path) == Env("turn_complete", s, id, path)
Hint(s, id)       == Env("attention_hint", s, id, None)
HookDegraded(s)   == Env("hook_degraded", s, None, None)

\* Turns and hints of two sessions, retried, with nothing to read.
DedupFrames ==
  {Turn(s1, e1, None), Turn(s1, e2, EmptyPath), Hint(s1, e1), Hint(s2, e1),
   HookDegraded(s1), HookDegraded(None),
   [Turn(s1, e1, None) EXCEPT !.schema_version = 2]}

\* Turns of one session whose transcript is p1, and a degenerate payload.
ReadFrames == {Turn(s1, e1, p1), Turn(s1, e2, p1), HookDegraded(None)}

\* Turns of a session with a transcript, among what else peers send: a hint
\* with the id of a turn, a turn of another session that has nothing to read,
\* degenerate payloads, and an envelope of another version.
SessionFrames ==
  {Turn(s1, e1, p1), Turn(s1, e2, p1), Turn(s2, e1, EmptyPath), Hint(s1, e1),
   HookDegraded(s1), HookDegraded(None),
   [Turn(s1, e1, None) EXCEPT !.schema_version = 2]}

ConnSymmetry == Permutations(Conn)
===============================================================================
