--------------------------- MODULE TranscriptReader ---------------------------
(***************************************************************************)
(* One call of read_complete (crates/pulse-source/src/reader.rs): the       *)
(* regression check, the adaptive settle window with its polls, the read of *)
(* the settled prefix and the probe of its lines (probe.rs), against a      *)
(* program that is flushing a turn to the same file meanwhile.              *)
(*                                                                          *)
(* A transcript is a sequence of cells of CellBytes bytes each.  A cell is  *)
(* Part, a fragment of a line that goes on in the next cell, or the end of  *)
(* a line: Blank, Malformed, or the top-level shape of its JSON value.      *)
(* Time passes in steps of Unit milliseconds and only while the reader      *)
(* sleeps; file operations take none, but writes may come between them.     *)
(***************************************************************************)
EXTENDS Integers, Sequences

CONSTANTS
  CellKinds,             \* the cells the writer uses
  Part, Blank, Malformed,
  Missing,               \* no file at the path
  None,                  \* Option::None
  CellBytes,             \* bytes in a cell
  Prior,                 \* the last_read_offsets the daemon may pass, in bytes
  DEFAULT_SETTLE_BOUND,  \* milliseconds
  BASE_POLL_INTERVAL,    \* milliseconds
  STABLE_POLLS_REQUIRED,
  Unit,                  \* milliseconds of one step of the clock
  MaxGap,                \* the longest pause of a writer inside a turn, ms
  MaxCells,              \* bound: cells in the file
  AppendOnly             \* is the file never truncated or removed?

\* A deserialized line, by what probe_line looks at: the type field (absent,
\* one of the two role-bearing names, or anything else) and the message field.
LineShape == [type    : {"absent", "user", "assistant", "other"},
              message : {"absent", "object", "other"}]

ASSUME ReaderAssumption ==
  /\ CellKinds \subseteq LineShape \cup {Part, Blank, Malformed}
  /\ {Part, Blank, Malformed} \cap LineShape = {}
  /\ Part # Blank /\ Part # Malformed /\ Blank # Malformed
  /\ Prior \subseteq Nat \cup {None} /\ None \notin Nat
  /\ Missing \notin Seq(CellKinds)
  /\ {CellBytes, Unit, STABLE_POLLS_REQUIRED, BASE_POLL_INTERVAL} \subseteq Nat \ {0}
  /\ {DEFAULT_SETTLE_BOUND, MaxGap, MaxCells} \subseteq Nat
  /\ AppendOnly \in BOOLEAN

VARIABLES
  file,          \* the transcript, or Missing
  writing,       \* is a turn still being flushed?
  since,         \* milliseconds since its last write
  grew,          \* history: was the file written since settle began?
  pc,            \* where read_complete is
  prior,         \* its argument last_read_offset
  left,          \* milliseconds of the current sleep still to pass
  elapsed,       \* settle's elapsed
  current_size,  \* settle's current_size, in bytes
  stable_count,  \* settle's stable_count
  read_offset,   \* up to where the caller is told it was read
  consumed,      \* the bytes that were
  verdict,       \* "none", a ReadVerdict, or "error"
  probe          \* the aggregated ProbeOutcome

settleVars == <<left, elapsed, current_size, stable_count>>
resultVars == <<read_offset, consumed, verdict, probe>>
writerVars == <<file, writing, since, grew>>
vars == <<file, writing, since, grew, pc, prior, left, elapsed, current_size,
          stable_count, read_offset, consumed, verdict, probe>>

Smaller(m, n) == IF m < n THEN m ELSE n
Larger(m, n)  == IF m < n THEN n ELSE m

FileSize == Len(file) * CellBytes
-------------------------------------------------------------------------------
(***************************************************************************)
(* The probe.                                                               *)
(***************************************************************************)
RoleBearing == {"user", "assistant"}

ProbeLine(v) ==
  IF v.type = "absent" THEN "no_type"
  ELSE IF v.type \in RoleBearing /\ v.message # "object" THEN "bad_message"
  ELSE "ok"

\* The split at newlines: a line ends with each cell that is no fragment, and
\* an unterminated fragment at the end of the bytes counts as a line too.
LineEnds(bytes) ==
  {i \in DOMAIN bytes : bytes[i] # Blank /\ (bytes[i] # Part \/ i = Len(bytes))}

\* A fragment of a JSON line is not JSON.
OutcomeAt(bytes, i) ==
  IF bytes[i] \in {Part, Malformed} THEN "malformed" ELSE ProbeLine(bytes[i])

\* Seeded fault: the last drift wins.
AggregateLast(bytes) ==
  LET drifts == {i \in LineEnds(bytes) : OutcomeAt(bytes, i) # "ok"}
  IN  IF drifts = {} THEN "ok"
      ELSE OutcomeAt(bytes, CHOOSE i \in drifts : \A j \in drifts : j <= i)

\* aggregate: the first drift wins.
Aggregate(bytes) ==
  LET drifts == {i \in LineEnds(bytes) : OutcomeAt(bytes, i) # "ok"}
  IN  IF drifts = {} THEN "ok"
      ELSE OutcomeAt(bytes, CHOOSE i \in drifts : \A j \in drifts : i <= j)
-------------------------------------------------------------------------------
(***************************************************************************)
(* The writer.                                                              *)
(***************************************************************************)
\* Inside a line: a fragment is the last cell.
MidLine(f) == f # <<>> /\ f[Len(f)] = Part

\* What may follow: no empty line after a fragment, and no fragment in the
\* last cell there is room for.
MayFollow(f, cell) == /\ MidLine(f) => cell # Blank
                      /\ Len(f) = MaxCells - 1 => cell # Part

Files == {f \in UNION {[1..n -> CellKinds] : n \in 0..MaxCells} :
            \A i \in DOMAIN f : MayFollow(SubSeq(f, 1, i - 1), f[i])}

\* A call begins while a turn is being flushed, right after one of its writes,
\* or after the last of it; a regression is possible because the caller's offset
\* is arbitrary.
Init ==
  /\ file \in Files \cup {Missing}
  /\ writing \in BOOLEAN
  /\ IF file = Missing THEN ~writing ELSE MidLine(file) => writing
  /\ since = 0 /\ grew = FALSE
  /\ prior \in Prior
  /\ pc = IF prior = None THEN "start" ELSE "check"
  /\ left = 0 /\ elapsed = 0 /\ current_size = 0 /\ stable_count = 0
  /\ read_offset = None /\ consumed = None
  /\ verdict = "none" /\ probe = "none"

\* One more cell is flushed.
Write(cell) ==
  /\ writing /\ Len(file) < MaxCells
  /\ MayFollow(file, cell)
  /\ file' = Append(file, cell)
  /\ since' = 0 /\ grew' = TRUE
  /\ UNCHANGED <<writing, pc, prior, settleVars, resultVars>>

\* A turn ends with a whole line.
EndTurn ==
  /\ writing /\ ~MidLine(file)
  /\ writing' = FALSE
  /\ UNCHANGED <<file, since, grew, pc, prior, settleVars, resultVars>>

\* Truncation or rotation by whatever owns the file.
Truncate ==
  /\ ~AppendOnly /\ file # Missing
  /\ \E n \in 0..(Len(file) - 1) : file' = SubSeq(file, 1, n)
  /\ UNCHANGED <<writing, since, grew, pc, prior, settleVars, resultVars>>

Remove ==
  /\ ~AppendOnly /\ file # Missing
  /\ file' = Missing /\ writing' = FALSE
  /\ UNCHANGED <<since, grew, pc, prior, settleVars, resultVars>>

(***************************************************************************)
(* The settle window.                                                       *)
(***************************************************************************)
\* max(50 ms, size_kb * 0.5 ms), in integer arithmetic.
poll_interval_for_size(bytes) ==
  Larger((bytes \div 1024) \div 2, BASE_POLL_INTERVAL)

\* Seeded fault: the last sleep may pass the bound.
SleepUnbounded(size, spent) == poll_interval_for_size(size)

\* Seeded fault: without the floor, a small file is polled without a pause.
SleepNoFloor(size, spent) ==
  Smaller((size \div 1024) \div 2, DEFAULT_SETTLE_BOUND - spent)

\* min(interval, bound - elapsed)
Sleep(size, spent) ==
  Smaller(poll_interval_for_size(size), DEFAULT_SETTLE_BOUND - spent)

\* Seeded fault: one stable poll fewer is enough.
EnoughEarly(count) == count >= STABLE_POLLS_REQUIRED - 1

\* Seeded fault: one more is needed.
EnoughLate(count) == count > STABLE_POLLS_REQUIRED

Enough(count) == count >= STABLE_POLLS_REQUIRED

\* The size is taken and the first sleep begins; a bound of zero leaves none.
SettleStart ==
  /\ pc = "start" /\ file # Missing
  /\ current_size' = FileSize /\ elapsed' = 0 /\ stable_count' = 0
  /\ left' = Sleep(FileSize, 0)
  /\ IF left' = 0
     THEN /\ pc' = "read" /\ verdict' = "settled_at_bound"
          /\ read_offset' = FileSize
     ELSE pc' = "sleep" /\ UNCHANGED <<verdict, read_offset>>
  /\ grew' = FALSE
  /\ UNCHANGED <<file, writing, since, prior, consumed, probe>>

\* The clock; a writer inside a turn writes again within MaxGap.
Tick ==
  /\ pc = "sleep"
  /\ LET d == Smaller(Unit, left)
     IN  /\ writing => since + d <= MaxGap
         /\ since' = IF writing THEN since + d ELSE since
         /\ left' = left - d
         /\ elapsed' = elapsed + d
  /\ pc' = IF left' = 0 THEN "poll" ELSE "sleep"
  /\ UNCHANGED <<file, writing, grew, prior, current_size, stable_count, resultVars>>

\* The window closes with what is known about the size.
Close(size, how) ==
  /\ read_offset' = size /\ verdict' = how
  /\ pc' = "read" /\ left' = 0

\* Seeded fault: growth does not reset the count.
CountOnGrowth(same) == stable_count + 1

\* stable_count after a poll.
Count(same) == IF same THEN stable_count + 1 ELSE 0

\* The re-probe after a sleep, and the test for the bound after it.
Poll ==
  /\ pc = "poll" /\ file # Missing
  /\ current_size' = FileSize
  /\ stable_count' = Count(FileSize = current_size)
  /\ \/ /\ Enough(stable_count')
        /\ Close(FileSize, "settled")
     \/ /\ ~Enough(stable_count') /\ elapsed >= DEFAULT_SETTLE_BOUND
        /\ Close(FileSize, "settled_at_bound")
     \/ /\ ~Enough(stable_count') /\ elapsed < DEFAULT_SETTLE_BOUND
        /\ pc' = "sleep" /\ left' = Sleep(FileSize, elapsed)
        /\ UNCHANGED <<read_offset, verdict>>
  /\ UNCHANGED <<writerVars, prior, elapsed, consumed, probe>>

(***************************************************************************)
(* read_complete around it.                                                 *)
(***************************************************************************)
\* Seeded fault: equality counts as a regression.
RegressedOrEqual(size, before) == size <= before

Regressed(size, before) == size < before

\* The test for size regression, before anything else.
CheckRegression ==
  /\ pc = "check" /\ file # Missing
  /\ IF Regressed(FileSize, prior)
     THEN /\ pc' = "done"
          /\ verdict' = "truncated" /\ probe' = "ok"
          /\ read_offset' = FileSize /\ consumed' = 0
     ELSE /\ pc' = "start"
          /\ UNCHANGED resultVars
  /\ UNCHANGED <<writerVars, prior, settleVars>>

\* Seeded fault: bytes that came after the window are read as well.
CappedNot(bytes, offset) == bytes

\* The whole file is read, then cut at the settled size.
Capped(bytes, offset) == SubSeq(bytes, 1, Smaller(Len(bytes), offset \div CellBytes))

ReadBytes ==
  /\ pc = "read" /\ file # Missing
  /\ LET bytes == Capped(file, read_offset)
     IN  /\ probe' = Aggregate(bytes)
         /\ consumed' = Len(bytes) * CellBytes
  /\ pc' = "done"
  /\ UNCHANGED <<writerVars, prior, settleVars, read_offset, verdict>>

\* Seeded fault: a failed poll is tried again.
FileOpsNotPoll == {"check", "start", "read"}

\* The steps that touch the file, each of which ends the call if it fails.
FileOps == {"check", "start", "poll", "read"}

FileError ==
  /\ pc \in FileOps /\ file = Missing
  /\ verdict' = "error" /\ pc' = "done"
  /\ UNCHANGED <<writerVars, prior, settleVars, read_offset, consumed, probe>>

Reader == CheckRegression \/ SettleStart \/ Tick \/ Poll \/ ReadBytes \/ FileError

Next == \/ Reader
        \/ \E cell \in CellKinds : Write(cell)
        \/ EndTurn \/ Truncate \/ Remove

Spec == Init /\ [][Next]_vars

\* Timers fire and file operations return; a writer inside a turn goes on.
FairSpec == Spec /\ WF_vars(Reader) /\ WF_vars(EndTurn \/ \E k \in CellKinds : Write(k))
-------------------------------------------------------------------------------
(***************************************************************************)
(* Properties.                                                              *)
(***************************************************************************)
\* Every variable keeps its type (reader.rs:107-164, 205-318).
TypeOK ==
  /\ file \in Seq(CellKinds) \cup {Missing}
  /\ writing \in BOOLEAN /\ grew \in BOOLEAN
  /\ since \in Nat
  /\ pc \in {"check", "start", "sleep", "poll", "read", "done"}
  /\ prior \in Nat \cup {None}
  /\ left \in Nat /\ elapsed \in Nat /\ current_size \in Nat
  /\ stable_count \in 0..STABLE_POLLS_REQUIRED
  /\ read_offset \in Nat \cup {None} /\ consumed \in Nat \cup {None}
  /\ verdict \in {"none", "settled", "settled_at_bound", "truncated", "error"}
  /\ probe \in {"none", "ok", "malformed", "no_type", "bad_message"}

\* The wait is bounded (NFR-11, reader.rs:37-41, 102-103): however the file
\* grows, its polls never take the settle window past its bound.
SettleWithinBound == elapsed + left <= DEFAULT_SETTLE_BOUND

\* A writer's pauses are so short that the required polls outlast them even
\* when the bound cuts the last sleep short.
PausesOutlasted == MaxGap <= (STABLE_POLLS_REQUIRED - 1) * BASE_POLL_INTERVAL

\* "Detect end-of-write before reading the content so we don't snapshot a
\* half-flushed line" (reader.rs:232-233): when the pauses are outlasted, a
\* window that settles has seen the end of the turn and all of its bytes.
SettledIsWhole ==
  AppendOnly /\ PausesOutlasted /\ verdict = "settled" =>
    ~writing /\ read_offset = FileSize

\* A whole line that is not of the expected shape.
Wrong(cell) ==
  \/ cell = Malformed
  \/ cell \in LineShape /\ \/ cell.type = "absent"
                           \/ cell.type \in RoleBearing /\ cell.message # "object"

\* A settled read raises drift for no other reason than a line that is wrong
\* in the finished transcript, and names the first such line: what is being
\* flushed is never taken for a schema change (probe.rs:67-80,
\* reader.rs:253-295).
DriftIsReal ==
  AppendOnly /\ PausesOutlasted /\ pc = "done" /\ verdict = "settled" =>
    LET wrong == {i \in DOMAIN file : Wrong(file[i])}
    IN  /\ probe = "ok" <=> wrong = {}
        /\ \A i \in wrong : (\A j \in wrong : i <= j) => probe = OutcomeAt(file, i)

\* What the caller is told was consumed was consumed, and nothing beyond it:
\* "Byte offset within the transcript the reader consumed up to" (pulse-core
\* source.rs:84).  Only a file that shrinks before it is read has less.
OffsetIsConsumed ==
  pc = "done" /\ verdict \in {"settled", "settled_at_bound"} =>
    consumed <= read_offset /\ (AppendOnly => consumed = read_offset)

\* The polls that a file of this size takes begin before the bound; the last
\* of them may come early because of it.
PollsFit(bytes) ==
  (STABLE_POLLS_REQUIRED - 1) * poll_interval_for_size(bytes) < DEFAULT_SETTLE_BOUND

\* A file whose polls fit into the window and that nobody writes to settles:
\* the bound is only reached when there was growth (reader.rs:93-95).
AtBoundOnlyIfGrew ==
  AppendOnly /\ verdict = "settled_at_bound" /\ PollsFit(current_size) => grew

\* And no other settles: a window only closes as Settled on a size whose polls
\* fit into it, however the file grew or shrank meanwhile (reader.rs:122-164),
\* so that each transcript beyond that size waits for the bound.
SettlesOnlyIfFits == verdict = "settled" => PollsFit(read_offset)

\* "A writer that appends lines, pauses 50-200 ms, appends more, then
\* completes is NOT falsely reported Settled mid-write"
\* (tests/read_complete.rs:11-14, reader.rs:50-52).
NoFalseSettled == verdict = "settled" => ~writing

\* What is left of a call: of its window, and of the steps around it.
Stage == CASE pc = "check" -> 5 [] pc = "start" -> 4 [] pc = "poll" -> 3
           [] pc = "sleep" -> 2 [] pc = "read" -> 1 [] pc = "done" -> 0

WorkLeft == 4 * (DEFAULT_SETTLE_BOUND - elapsed) + Stage

\* "Tail-latency guarantee" (reader.rs:102-103): the loop has no counter and is
\* left when time has passed, so no step of the reader may come without a sleep
\* of some length or an end, and no write, cut or removal may set it back.
CallsOnlyAdvance ==
  [][WorkLeft' <= WorkLeft /\ (Reader => WorkLeft' < WorkLeft)]_vars

\* Every call returns (NFR-11), whatever happens to the file.
EachCallReturns == <>(pc = "done")
-------------------------------------------------------------------------------
(***************************************************************************)
(* The contract with the caller, to which polls, time and the verdict of a  *)
(* call that has not returned yet are invisible.                            *)
(***************************************************************************)
ContractSize == IF file = Missing THEN None ELSE FileSize

ContractPhase == IF pc \in {"start", "sleep", "poll"} THEN "settle"
                 ELSE IF pc = "read" THEN "bytes" ELSE pc

ContractVerdict ==
  IF pc # "done" THEN "none"
  ELSE IF verdict = "error" THEN "read_error"
  ELSE IF verdict = "truncated" THEN "truncated"
  ELSE IF probe = "ok" THEN "settled" ELSE "drift"

Contract == INSTANCE ReadContract
              WITH size    <- ContractSize,
                   phase   <- ContractPhase,
                   offset  <- read_offset,
                   verdict <- ContractVerdict

\* However the file is written, cut or removed between its steps, a call does
\* what read_complete promises (reader.rs:182-204, source.rs:71-87): the offset
\* it returns is a size that the file had when the window closed, Truncated
\* means that the file was shorter than the caller's offset, an error that there
\* was no file, and drift is never raised for an empty read.
MeetsContract == Contract!Spec
===============================================================================
