-------------------------------- MODULE Handoff --------------------------------
(***************************************************************************)
(* What deliver (crates/pulse-hook/src/dispatch.rs) and the daemon promise  *)
(* together for one event, in the vocabulary of DeliverOutcome: the hook's  *)
(* exit status is given once and is never taken back, an event reaches a    *)
(* SessionManager at most once and only after the hook has written all of   *)
(* it, and a connection that was lost stays lost.  Frames, sockets, queues, *)
(* timeouts and processes do not appear.                                    *)
(***************************************************************************)
VARIABLES verdict, \* of the hook: "none" yet, "delivered" or "failed"
          event    \* in the daemon: "pending", "taken" or "lost"

vars == <<verdict, event>>

Init == verdict = "none" /\ event = "pending"

\* Exit status 0, for an event that can still be taken.
Deliver ==
  /\ verdict = "none" /\ event = "pending"
  /\ verdict' = "delivered" /\ UNCHANGED event

\* Exit status 2, 3 or 4, for one that has not been and will not be.
Fail ==
  /\ verdict = "none" /\ event # "taken"
  /\ verdict' = "failed" /\ UNCHANGED event

\* The daemon forwards the event.
Take ==
  /\ verdict = "delivered" /\ event = "pending"
  /\ event' = "taken" /\ UNCHANGED verdict

\* The connection ends without it, with or without its daemon.
Lose ==
  /\ event = "pending"
  /\ event' = "lost" /\ UNCHANGED verdict

Next == Deliver \/ Fail \/ Take \/ Lose

Spec == Init /\ [][Next]_vars
===============================================================================
