----------------------------- MODULE ReadContract -----------------------------
(***************************************************************************)
(* What read_complete (crates/pulse-source/src/reader.rs) promises to its   *)
(* caller, in the vocabulary that crates/pulse-core/src/source.rs gives the *)
(* two: the size of a transcript that others write, the offset a caller     *)
(* resumes from, and the verdict and offset it gets back.  Polls, time and  *)
(* content do not appear.  TranscriptReader implements this; Daemon uses no *)
(* more than this of it, once for each connection.                          *)
(***************************************************************************)
EXTENDS Integers

CONSTANTS None,       \* Option::None; as a size, no file
          AppendOnly  \* do others only ever append to the transcript?

VARIABLES size,    \* of the transcript
          phase,   \* of the call
          prior,   \* the last_read_offset it was given
          offset,  \* the read_offset it computes
          verdict  \* what it returns

vars == <<size, phase, prior, offset, verdict>>

Size == Nat \cup {None}

\* A first read has no offset, hence no regression to look for.
First(last) == IF last = None THEN "settle" ELSE "check"

Init ==
  /\ size \in Size /\ prior \in Size
  /\ phase \in {"idle", First(prior)}
  /\ offset = None /\ verdict = "none"

\* Others write, and may truncate or remove, at any time.
Others ==
  /\ size' \in Size
  /\ AppendOnly /\ size # None => size' # None /\ size' >= size
  /\ UNCHANGED <<phase, prior, offset, verdict>>

Call ==
  /\ phase = "idle"
  /\ prior' \in Size
  /\ phase' = First(prior')
  /\ UNCHANGED <<size, offset, verdict>>

Return(how) == phase' = "done" /\ verdict' = how

\* Truncated: the size has gone below the offset, and says where to resume.
Regress ==
  /\ phase = "check" /\ size # None /\ size < prior
  /\ Return("truncated") /\ offset' = size
  /\ UNCHANGED <<size, prior>>

Pass ==
  /\ phase = "check" /\ size # None /\ size >= prior
  /\ phase' = "settle"
  /\ UNCHANGED <<size, prior, offset, verdict>>

\* The window closes, stable or at its bound, with a size that the file has.
Settle ==
  /\ phase = "settle" /\ size # None
  /\ phase' = "bytes" /\ offset' = size
  /\ UNCHANGED <<size, prior, verdict>>

\* What was there is read and probed; only what is not empty can drift.
Read ==
  /\ phase = "bytes" /\ size # None
  /\ \/ Return("settled")
     \/ size > 0 /\ offset > 0 /\ Return("drift")
  /\ UNCHANGED <<size, prior, offset>>

\* An error needs a file that is not there.
Fail ==
  /\ phase \in {"check", "settle", "bytes"} /\ size = None
  /\ Return("read_error")
  /\ UNCHANGED <<size, prior, offset>>

\* The caller is gone before the call returned, or never made it.
Abandon ==
  /\ phase \notin {"done", "gone"}
  /\ phase' = "gone"
  /\ UNCHANGED <<size, prior, offset, verdict>>

Next == Others \/ Call \/ Regress \/ Pass \/ Settle \/ Read \/ Fail \/ Abandon

Spec == Init /\ [][Next]_vars
===============================================================================
