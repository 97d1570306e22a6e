----------------------------- MODULE MCHookEvents -----------------------------
(***************************************************************************)
(* Small instances of HookEvents: the payloads that hooks find on stdin.    *)
(***************************************************************************)
EXTENDS HookEvents

CONSTANTS s1, s2, blank, empty, m1, m2, p1, c1, c2, t1, t2

P(mid, sid, path, rest) ==
  [message_id |-> mid, session_id |-> sid, transcript_path |-> path, rest |-> rest]

\* With and without a message id, a session or a path; the same but for one
\* field, and the degenerate ones.
MixedInputs ==
  {P(m1, s1, p1, c1), P(m1, s2, p1, c1), P(m2, None, p1, c1),
   P(None, s1, p1, c1), P(None, s1, p1, c2), P(None, s2, EmptyPath, c1),
   P(BlankMessage, s1, p1, c1), P(None, blank, p1, c1), P(None, empty, None, c1),
   P(None, None, p1, c1), NotJson, EmptyInput}

\* A content hash without collisions.
Injective == [p \in Input \cap Payload |-> p]

ASSUME HashAssumption == NoCollision

Ids == MessageId \cup {EventKey(p, k) : p \in Input \cap Payload, k \in HookKind}
===============================================================================
