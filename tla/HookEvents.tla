------------------------------ MODULE HookEvents ------------------------------
(***************************************************************************)
(* What a hook makes of its input (crates/pulse-hook: payload.rs, lib.rs,   *)
(* main.rs), and what becomes of it in the daemon's SessionManager: the     *)
(* identity that deduplication rests on is derived by one program and used  *)
(* by the other.  Delivery itself is perfect here; see module Delivery.     *)
(*                                                                          *)
(* An input stands for the bytes on stdin: two inputs are equal exactly     *)
(* when their bytes are.                                                    *)
(***************************************************************************)
EXTENDS SessionManager, Sequences

CONSTANTS
  MessageId,      \* message ids that are not blank
  BlankMessage,   \* a message id of white space only
  BlankSession,   \* the names of SessionId that are empty or white space
  EmptySession,   \* the empty one of them
  Unknown,        \* SessionId::new("unknown")
  Content,        \* whatever else a payload holds
  NotJson,        \* an input that is not JSON
  EmptyInput,     \* no bytes at all
  Digest,         \* content hash and size of a payload's bytes
  Input,          \* the inputs that are considered
  Turn,           \* logical events of the agent, each one firing of a hook
  MaxDeliveries   \* bound: hook runs, retries included

\* ClaudeHookPayload, and the bytes it was parsed from.
Payload == [message_id      : MessageId \cup {BlankMessage, None},
            session_id      : SessionId \cup {None},
            transcript_path : Path \cup {EmptyPath, None},
            rest            : Content]

HookKind == {"stop", "notification"}

ASSUME HookEventsAssumption ==
  /\ Input \subseteq Payload \cup {NotJson, EmptyInput}
  /\ BlankSession \subseteq SessionId /\ Unknown \in SessionId \ BlankSession
  /\ EmptySession \in BlankSession
  /\ {BlankMessage, None} \cap MessageId = {}
  /\ {NotJson, EmptyInput} \cap Payload = {}
  /\ DOMAIN Digest = Input \cap Payload
  /\ MaxDeliveries \in Nat

VARIABLES
  input,     \* what each turn's hook finds on stdin
  kind,      \* which hook fires for it
  sessions,  \* the SessionManager's map
  receipts   \* history: what was delivered, in order, with its verdict

vars == <<input, kind, sessions, receipts>>
-------------------------------------------------------------------------------
(***************************************************************************)
(* The hook.                                                                *)
(***************************************************************************)
\* Seeded fault: the "naive" key that payload.rs argues against.
EventKeyNaive(p, k) == <<p.session_id, k, p.transcript_path>>

\* A synthesized event_id.
EventKey(p, k) == <<p.session_id, k, Digest[p]>>

\* The content hash tells the inputs apart, and no message id looks like a
\* synthesized one.
NoCollision ==
  /\ \A p, q \in Input \cap Payload : Digest[p] = Digest[q] => p = q
  /\ \A p \in Input \cap Payload, k \in HookKind :
       EventKey(p, k) \notin MessageId \cup {None}

Stable(id, sid, path) ==
  [stable |-> TRUE, event_id |-> id, session_id |-> sid, transcript_path |-> path]

Undeterminable == [stable |-> FALSE]

\* derive_event: the message id, else a key of the content, else nothing.
derive_event(p, k) ==
  IF p.message_id \in MessageId
    THEN Stable(p.message_id, IF p.session_id = None THEN Unknown ELSE p.session_id,
                p.transcript_path)
  ELSE IF p.session_id \in SessionId \ BlankSession
    THEN Stable(EventKey(p, k), p.session_id, p.transcript_path)
  ELSE Undeterminable

Degraded(sid) == [kind |-> "hook_degraded", session |-> sid, id |-> None, path |-> None]

\* build_event: Stop is a turn, Notification a hint; an empty path is none.
build_event(p, k) ==
  LET identity == derive_event(p, k)
  IN  IF identity.stable
      THEN [kind    |-> IF k = "stop" THEN "turn_complete" ELSE "attention_hint",
            session |-> identity.session_id,
            id      |-> identity.event_id,
            path    |-> IF identity.transcript_path = EmptyPath THEN None
                        ELSE identity.transcript_path]
      ELSE Degraded(IF p.session_id = EmptySession THEN None ELSE p.session_id)

\* run: no JSON, and no bytes, are forwarded as degraded events.
EventFor(in, k) ==
  IF in \in {NotJson, EmptyInput} THEN Degraded(None) ELSE build_event(in, k)
-------------------------------------------------------------------------------
(***************************************************************************)
(* The turns of an agent, each delivered, and perhaps retried.              *)
(***************************************************************************)
Init ==
  /\ input \in [Turn -> Input]
  /\ kind \in [Turn -> HookKind]
  /\ sessions = [s \in {} |-> DefaultState]
  /\ receipts = <<>>

\* SessionManager::record of a turn's event.
Deliver(t) ==
  LET e   == EventFor(input[t], kind[t])
      dup == e.kind # "hook_degraded" /\ IsDuplicate(StateOf(sessions, e.session), e.id)
  IN  /\ Len(receipts) < MaxDeliveries
      /\ sessions' = IF e.kind = "hook_degraded"
                     THEN Touch(sessions, e.session)
                     ELSE RecordDedup(sessions, e.session, e.id, e.path)
      /\ receipts' = Append(receipts, [turn |-> t, event |-> e, new |-> ~dup])
      /\ UNCHANGED <<input, kind>>

Next == \E t \in Turn : Deliver(t)

Spec == Init /\ [][Next]_vars
-------------------------------------------------------------------------------
(***************************************************************************)
(* Properties.                                                              *)
(***************************************************************************)
FirstReceipt(i) == \A j \in 1..(i - 1) : receipts[j].turn # receipts[i].turn

HasMessageId(t) == input[t] \in Payload /\ input[t].message_id \in MessageId

\* Two turns that the hook's input tells apart: by their message ids, or, if
\* one of them has none, by any byte or by the hook that fired.
ToldApart(t, u) ==
  IF HasMessageId(t) /\ HasMessageId(u)
  THEN input[t].message_id # input[u].message_id
  ELSE input[t] # input[u] \/ kind[t] # kind[u]

\* Two distinct turns "cannot collide" (payload.rs:16-19, 173-175): as long as
\* something in their input tells them apart and the content hash does not
\* collide, no turn's first delivery is ever dropped as a duplicate, whatever
\* was delivered or retried before it, and in whatever session.
ToldApartIsProcessed ==
  \A i \in DOMAIN receipts :
    FirstReceipt(i)
    /\ (\A u \in Turn \ {receipts[i].turn} : ToldApart(receipts[i].turn, u))
    => receipts[i].new

\* "Retried/duplicate hooks are deduped by the daemon" (dispatch.rs:20-21): a
\* retry right after its original is not processed again, unless the turn has
\* no identity at all, and events of other sessions in between do not matter.
RetryIsDropped ==
  \A i, j \in DOMAIN receipts :
    /\ i < j /\ receipts[i].turn = receipts[j].turn
    /\ receipts[i].event.kind # "hook_degraded"
    /\ \A n \in i..j : receipts[n].turn = receipts[i].turn
                       \/ receipts[n].event.session # receipts[i].event.session
    => ~receipts[j].new
===============================================================================
