------------------------ MODULE TranscriptReaderProofs ------------------------
(***************************************************************************)
(* Proofs about TranscriptReader, for any cell and file sizes, any settle    *)
(* bound, poll interval and number of stable polls, and any writer.         *)
(***************************************************************************)
EXTENDS TranscriptReader, SequenceTheorems, WellFoundedInduction, TLAPS

(***************************************************************************)
(* Types, and the bookkeeping of the settle window.                         *)
(***************************************************************************)
WindowOK ==
  /\ elapsed + left <= DEFAULT_SETTLE_BOUND
  /\ pc = "sleep" => left > 0
  /\ pc = "poll" => left = 0
  /\ pc \in {"sleep", "poll"} => stable_count < STABLE_POLLS_REQUIRED
  /\ pc = "read" => read_offset \in Nat
  /\ pc \in {"check", "start", "sleep", "poll"} => verdict = "none"
  /\ pc = "check" => prior # None
  /\ file = Missing => ~writing

TInv == TypeOK /\ WindowOK

LEMMA ConstantTypes ==
  /\ CellBytes \in Nat /\ CellBytes > 0
  /\ Unit \in Nat /\ Unit > 0
  /\ STABLE_POLLS_REQUIRED \in Nat /\ STABLE_POLLS_REQUIRED > 0
  /\ BASE_POLL_INTERVAL \in Nat /\ BASE_POLL_INTERVAL > 0
  /\ DEFAULT_SETTLE_BOUND \in Nat /\ MaxGap \in Nat /\ MaxCells \in Nat
<1>1. /\ \A n \in {CellBytes, Unit, STABLE_POLLS_REQUIRED, BASE_POLL_INTERVAL} :
            n \in Nat \ {0}
      /\ \A n \in {DEFAULT_SETTLE_BOUND, MaxGap, MaxCells} : n \in Nat
  BY ReaderAssumption
<1>2. \A n \in Nat \ {0} : n \in Nat /\ n > 0
  OBVIOUS
<1> QED
  BY <1>1, <1>2

LEMMA SizeType ==
  ASSUME file \in Seq(CellKinds)
  PROVE  FileSize \in Nat
<1>1. Len(file) \in Nat /\ CellBytes \in Nat
  BY ConstantTypes
<1> QED
  BY <1>1 DEF FileSize

\* A sleep is never longer than what is left of the window, and it is shorter
\* than the base interval only if it ends at the bound.
LEMMA SleepFacts ==
  ASSUME NEW n \in Nat, NEW e \in Nat, e <= DEFAULT_SETTLE_BOUND
  PROVE  /\ Sleep(n, e) \in Nat
         /\ e + Sleep(n, e) <= DEFAULT_SETTLE_BOUND
         /\ e + Sleep(n, e) < DEFAULT_SETTLE_BOUND
              => Sleep(n, e) >= BASE_POLL_INTERVAL
         /\ e < DEFAULT_SETTLE_BOUND => Sleep(n, e) > 0
<1> DEFINE i == poll_interval_for_size(n)
<1>1. (n \div 1024) \div 2 \in Nat
  <2>1. n \div 1024 \in Nat
    OBVIOUS
  <2> QED
    BY <2>1
<1>2. i \in Nat /\ i >= BASE_POLL_INTERVAL /\ i > 0
  BY <1>1, ConstantTypes DEF poll_interval_for_size, Larger
<1> HIDE DEF i
<1>3. Sleep(n, e) = IF i < DEFAULT_SETTLE_BOUND - e
                    THEN i ELSE DEFAULT_SETTLE_BOUND - e
  BY DEF Sleep, Smaller, i
<1> QED
  BY <1>2, <1>3, ConstantTypes

LEMMA InitTInv == Init => TInv
<1> SUFFICES ASSUME Init PROVE TInv
  OBVIOUS
<1>1. file \in Seq(CellKinds) \cup {Missing}
  <2>1. \A n \in Nat : \A f \in [1..n -> CellKinds] : f \in Seq(CellKinds)
    OBVIOUS
  <2> QED
    BY <2>1, ConstantTypes DEF Init, Files
<1>2. prior \in Nat \cup {None}
  BY ReaderAssumption DEF Init
<1>3. TypeOK
  <2>1. writing \in BOOLEAN /\ grew \in BOOLEAN
    BY DEF Init
  <2>2. /\ since = 0 /\ left = 0 /\ elapsed = 0 /\ current_size = 0
        /\ stable_count = 0 /\ pc \in {"start", "check"}
        /\ read_offset = None /\ consumed = None
        /\ verdict = "none" /\ probe = "none"
    BY DEF Init
  <2> QED
    BY <1>1, <1>2, <2>1, <2>2, ConstantTypes DEF TypeOK
<1>4. WindowOK
  <2>1. /\ elapsed = 0 /\ left = 0 /\ verdict = "none"
        /\ pc = IF prior = None THEN "start" ELSE "check"
    BY DEF Init
  <2>2. file = Missing => ~writing
    BY DEF Init
  <2> QED
    BY <2>1, <2>2, ConstantTypes DEF WindowOK
<1> QED
  BY <1>3, <1>4 DEF TInv

LEMMA WriterTInv ==
  ASSUME TInv, \/ \E cell \in CellKinds : Write(cell)
               \/ EndTurn \/ Truncate \/ Remove
  PROVE  TInv'
<1> USE DEF TInv, TypeOK, WindowOK, settleVars, resultVars
<1>1. CASE \E cell \in CellKinds : Write(cell)
  <2>1. PICK cell \in CellKinds : Write(cell)
    BY <1>1
  <2>2. file \in Seq(CellKinds)
    BY <2>1 DEF Write
  <2>3. file' \in Seq(CellKinds)
    BY <2>1, <2>2 DEF Write
  <2> QED
    BY <2>1, <2>3, ReaderAssumption DEF Write
<1>2. CASE EndTurn
  BY <1>2 DEF EndTurn
<1>3. CASE Truncate
  <2>1. PICK n \in 0..(Len(file) - 1) : file' = SubSeq(file, 1, n)
    BY <1>3 DEF Truncate
  <2>2. file \in Seq(CellKinds)
    BY <1>3 DEF Truncate
  <2>3. file' \in Seq(CellKinds)
    BY <2>1, <2>2
  <2>4. file' # Missing
    BY <2>3, ReaderAssumption
  <2>5. UNCHANGED <<writing, since, grew, pc, prior, left, elapsed, current_size,
                    stable_count, read_offset, consumed, verdict, probe>>
    BY <1>3 DEF Truncate
  <2> QED
    BY <2>3, <2>4, <2>5
<1>4. CASE Remove
  <2>1. /\ file' = Missing /\ writing' = FALSE
        /\ UNCHANGED <<since, grew, pc, prior, left, elapsed, current_size,
                       stable_count, read_offset, consumed, verdict, probe>>
    BY <1>4 DEF Remove
  <2>2. TypeOK'
    BY <2>1
  <2>3. WindowOK'
    BY <2>1
  <2> QED
    BY <2>2, <2>3
<1> QED
  BY <1>1, <1>2, <1>3, <1>4

LEMMA ReaderTInv ==
  ASSUME TInv, Reader
  PROVE  TInv'
<1> USE DEF TInv, TypeOK, WindowOK, settleVars, resultVars, writerVars
<1>1. CASE CheckRegression
  BY <1>1, SizeType DEF CheckRegression
<1>2. CASE SettleStart
  <2>1. FileSize \in Nat /\ 0 <= DEFAULT_SETTLE_BOUND /\ pc = "start"
    BY <1>2, SizeType, ConstantTypes DEF SettleStart
  <2>2. Sleep(FileSize, 0) \in Nat /\ Sleep(FileSize, 0) <= DEFAULT_SETTLE_BOUND
    <3>1. 0 \in Nat
      OBVIOUS
    <3>2. /\ Sleep(FileSize, 0) \in Nat
          /\ 0 + Sleep(FileSize, 0) <= DEFAULT_SETTLE_BOUND
      BY <2>1, <3>1, SleepFacts
    <3> HIDE DEF Sleep
    <3> QED
      BY <3>2
  <2>3. /\ current_size' = FileSize /\ elapsed' = 0 /\ stable_count' = 0
        /\ left' = Sleep(FileSize, 0) /\ grew' = FALSE
        /\ UNCHANGED <<file, writing, since, prior, consumed, probe>>
        /\ \/ /\ left' = 0 /\ pc' = "read" /\ verdict' = "settled_at_bound"
              /\ read_offset' = FileSize
           \/ /\ left' # 0 /\ pc' = "sleep" /\ UNCHANGED <<verdict, read_offset>>
    BY <1>2 DEF SettleStart
  <2> HIDE DEF FileSize
  <2>4. TypeOK'
    <3>1. /\ pc' \in {"sleep", "read"} /\ verdict' \in {"none", "settled_at_bound"}
          /\ read_offset' \in Nat \cup {None}
      BY <2>1, <2>3
    <3>2. left' \in Nat /\ current_size' \in Nat /\ elapsed' \in Nat
      BY <2>1, <2>2, <2>3
    <3>3. stable_count' \in 0..STABLE_POLLS_REQUIRED
      BY <2>3, ConstantTypes
    <3>5. grew' \in BOOLEAN
      BY <2>3
    <3>4. /\ file' \in Seq(CellKinds) \cup {Missing} /\ writing' \in BOOLEAN
          /\ since' \in Nat /\ prior' \in Nat \cup {None}
          /\ consumed' \in Nat \cup {None}
          /\ probe' \in {"none", "ok", "malformed", "no_type", "bad_message"}
      BY <2>3
    <3> QED
      BY <3>1, <3>2, <3>3, <3>4, <3>5
  <2>5. WindowOK'
    BY <2>1, <2>2, <2>3, ConstantTypes
  <2> QED
    BY <2>4, <2>5
<1>3. CASE Tick
  <2> DEFINE d == Smaller(Unit, left)
  <2>1. d \in Nat /\ d > 0 /\ d <= left
    BY <1>3, ConstantTypes DEF Tick, Smaller
  <2>2. /\ pc = "sleep" /\ since' \in Nat
        /\ left' = left - d /\ elapsed' = elapsed + d
        /\ pc' = IF left' = 0 THEN "poll" ELSE "sleep"
        /\ UNCHANGED <<file, writing, grew, prior, current_size, stable_count,
                       read_offset, consumed, verdict, probe>>
    BY <1>3, <2>1 DEF Tick
  <2> HIDE DEF d
  <2> QED
    BY <2>1, <2>2
<1>4. CASE Poll
  <2>1. /\ pc = "poll" /\ file # Missing /\ FileSize \in Nat
        /\ elapsed <= DEFAULT_SETTLE_BOUND
    BY <1>4, SizeType, ConstantTypes DEF Poll
  <2>2. stable_count' \in 0..STABLE_POLLS_REQUIRED
    BY <1>4, <2>1, ConstantTypes DEF Poll, Count
  <2>3. /\ current_size' = FileSize
        /\ UNCHANGED <<file, writing, since, grew, prior, elapsed, consumed,
                       probe>>
    BY <1>4 DEF Poll
  <2>4. CASE \E how \in {"settled", "settled_at_bound"} : Close(FileSize, how)
    BY <2>1, <2>2, <2>3, <2>4 DEF Close
  <2>5. CASE /\ ~Enough(stable_count') /\ elapsed < DEFAULT_SETTLE_BOUND
             /\ pc' = "sleep" /\ left' = Sleep(FileSize, elapsed)
             /\ UNCHANGED <<read_offset, verdict>>
    <3>1. /\ left' \in Nat /\ left' > 0
          /\ elapsed + left' <= DEFAULT_SETTLE_BOUND
      BY <2>1, <2>5, SleepFacts
    <3>2. stable_count' < STABLE_POLLS_REQUIRED
      BY <2>2, <2>5, ConstantTypes DEF Enough
    <3> QED
      BY <2>1, <2>2, <2>3, <2>5, <3>1, <3>2
  <2> QED
    BY <1>4, <2>4, <2>5 DEF Poll
<1>5. CASE ReadBytes
  <2> DEFINE bytes == Capped(file, read_offset)
  <2>1. file \in Seq(CellKinds) /\ read_offset \in Nat
    BY <1>5 DEF ReadBytes
  <2>2. Len(bytes) * CellBytes \in Nat
    <3>1. Len(file) \in Nat /\ read_offset \div CellBytes \in Nat
      BY <2>1, ConstantTypes
    <3>2. Smaller(Len(file), read_offset \div CellBytes) \in 0..Len(file)
      BY <3>1 DEF Smaller
    <3>3. Len(bytes) \in Nat
      BY <2>1, <3>2 DEF Capped
    <3> QED
      BY <3>3, ConstantTypes
  <2>3. Aggregate(bytes) \in {"ok", "malformed", "no_type", "bad_message"}
    BY DEF Aggregate, OutcomeAt, ProbeLine
  <2> HIDE DEF bytes
  <2>4. /\ probe' = Aggregate(bytes) /\ consumed' = Len(bytes) * CellBytes
        /\ pc' = "done"
        /\ UNCHANGED <<writerVars, prior, settleVars, read_offset, verdict>>
    BY <1>5 DEF ReadBytes, bytes
  <2> QED
    BY <2>2, <2>3, <2>4
<1>6. CASE FileError
  BY <1>6 DEF FileError
<1> QED
  BY <1>1, <1>2, <1>3, <1>4, <1>5, <1>6 DEF Reader

LEMMA NextTInv == TInv /\ [Next]_vars => TInv'
<1>1. TInv /\ UNCHANGED vars => TInv'
  BY DEF TInv, TypeOK, WindowOK, vars
<1> QED
  BY <1>1, WriterTInv, ReaderTInv DEF Next

\* Every variable keeps its type (reader.rs:107-164, 205-318).
THEOREM TypeCorrect == Spec => []TypeOK
<1>1. TInv => TypeOK
  BY DEF TInv
<1> QED
  BY <1>1, InitTInv, NextTInv, PTL DEF Spec

\* The settle window never passes its bound, whatever its constants are and
\* however the file changes (reader.rs:102-103, 124-162).
THEOREM WindowIsBounded == Spec => []SettleWithinBound
<1>1. TInv => SettleWithinBound
  BY DEF TInv, WindowOK, SettleWithinBound
<1> QED
  BY <1>1, InitTInv, NextTInv, PTL DEF Spec
-------------------------------------------------------------------------------
(***************************************************************************)
(* What a settled window has seen.  While the size has not changed since    *)
(* the last poll and the turn is not over, the writer has been silent for   *)
(* every stable poll, so enough of them outlast any pause it may make.      *)
(***************************************************************************)
Wait(k) == k * BASE_POLL_INTERVAL

QuietOK ==
  /\ writing => since <= MaxGap
  /\ pc \in {"sleep", "poll"} => file # Missing /\ current_size <= FileSize
  /\ pc = "sleep" /\ writing /\ current_size = FileSize =>
       /\ since >= Wait(stable_count)
       /\ elapsed + left < DEFAULT_SETTLE_BOUND =>
            since + left >= Wait(stable_count + 1)
  /\ pc = "poll" /\ writing /\ current_size = FileSize =>
       /\ since > Wait(stable_count)
       /\ elapsed < DEFAULT_SETTLE_BOUND => since >= Wait(stable_count + 1)
  /\ verdict = "settled" => file # Missing /\ ~writing /\ read_offset = FileSize

LEMMA WaitFacts ==
  ASSUME NEW k \in Nat
  PROVE  /\ Wait(k) \in Nat
         /\ Wait(k + 1) = Wait(k) + BASE_POLL_INTERVAL
         /\ Wait(0) = 0
  BY ConstantTypes DEF Wait

\* One more cell makes a file longer.
LEMMA AppendGrows ==
  ASSUME file \in Seq(CellKinds), NEW cell \in CellKinds,
         file' = Append(file, cell)
  PROVE  FileSize' > FileSize
<1>1. Len(file) \in Nat /\ Len(file') = Len(file) + 1
  OBVIOUS
<1>2. ASSUME NEW n \in Nat PROVE (n + 1) * CellBytes > n * CellBytes
  BY ConstantTypes
<1> QED
  BY <1>1, <1>2 DEF FileSize

LEMMA InitQuiet == Init => QuietOK
<1> SUFFICES ASSUME Init PROVE QuietOK
  OBVIOUS
<1>1. pc \in {"start", "check"} /\ verdict = "none" /\ since = 0
  BY DEF Init
<1> QED
  BY <1>1, ConstantTypes DEF QuietOK

LEMMA WriterQuiet ==
  ASSUME TInv, QuietOK, AppendOnly,
         \/ \E cell \in CellKinds : Write(cell)
         \/ EndTurn \/ Truncate \/ Remove
  PROVE  QuietOK'
<1> USE DEF TInv, TypeOK, WindowOK, QuietOK, settleVars, resultVars
<1>1. CASE \E cell \in CellKinds : Write(cell)
  <2>1. PICK cell \in CellKinds : Write(cell)
    BY <1>1
  <2>2. file \in Seq(CellKinds) /\ file' = Append(file, cell)
    BY <2>1 DEF Write
  <2>3. FileSize \in Nat /\ FileSize' \in Nat /\ FileSize' > FileSize
    <3>1. file' \in Seq(CellKinds)
      BY <2>2
    <3>2. FileSize' \in Nat
      <4>1. Len(file') \in Nat /\ CellBytes \in Nat
        BY <3>1, ConstantTypes
      <4> QED
        BY <4>1 DEF FileSize
    <3> QED
      BY <2>2, <3>2, SizeType, AppendGrows
  <2>4. file' # Missing
    <3>1. file' \in Seq(CellKinds)
      BY <2>2
    <3> QED
      BY <3>1, ReaderAssumption
  <2>5. /\ writing /\ since' = 0
        /\ UNCHANGED <<writing, pc, left, elapsed, current_size, stable_count,
                       read_offset, verdict>>
    BY <2>1 DEF Write
  <2> HIDE DEF FileSize
  <2>6. verdict' # "settled"
    BY <2>5
  <2>7. pc' \in {"sleep", "poll"} =>
          current_size' <= FileSize' /\ current_size' # FileSize'
    BY <2>3, <2>5
  <2>8. since' <= MaxGap
    BY <2>5, ConstantTypes
  <2> QED
    BY <2>4, <2>6, <2>7, <2>8
<1>2. CASE EndTurn
  <2>1. FileSize' = FileSize
    BY <1>2 DEF EndTurn, FileSize
  <2>2. /\ writing' = FALSE
        /\ UNCHANGED <<file, pc, left, elapsed, current_size, stable_count,
                       read_offset, verdict>>
    BY <1>2 DEF EndTurn
  <2> HIDE DEF FileSize
  <2> QED
    BY <2>1, <2>2
<1>3. CASE Truncate \/ Remove
  BY <1>3 DEF Truncate, Remove
<1> QED
  BY <1>1, <1>2, <1>3

LEMMA ReaderQuiet ==
  ASSUME TInv, TInv', QuietOK, AppendOnly, PausesOutlasted, Reader
  PROVE  QuietOK'
<1> USE DEF QuietOK
<1>1. CASE CheckRegression
  <2>1. /\ pc' \in {"done", "start"} /\ verdict' # "settled"
        /\ UNCHANGED <<writing, since>>
    BY <1>1 DEF CheckRegression, writerVars, resultVars, TInv, WindowOK
  <2> QED
    BY <2>1
<1>2. CASE SettleStart
  <2>1. /\ file # Missing /\ UNCHANGED <<file, writing, since>>
        /\ current_size' = FileSize /\ elapsed' = 0 /\ stable_count' = 0
        /\ left' = Sleep(FileSize, 0) /\ pc' \in {"read", "sleep"}
        /\ verdict' # "settled" /\ FileSize' = FileSize
    BY <1>2 DEF SettleStart, FileSize, TInv, WindowOK
  <2>2. FileSize \in Nat /\ left' \in Nat /\ since \in Nat
    BY <2>1, SizeType DEF TInv, TypeOK
  <2>3. left' < DEFAULT_SETTLE_BOUND => left' >= BASE_POLL_INTERVAL
    <3>1. 0 \in Nat /\ 0 <= DEFAULT_SETTLE_BOUND
      BY ConstantTypes
    <3>2. 0 + left' < DEFAULT_SETTLE_BOUND => left' >= BASE_POLL_INTERVAL
      BY <2>1, <2>2, <3>1, SleepFacts
    <3> QED
      BY <2>2, <3>2
  <2>4. Wait(0) = 0 /\ Wait(0 + 1) = BASE_POLL_INTERVAL
    BY WaitFacts, ConstantTypes
  <2> HIDE DEF FileSize
  <2>5. /\ since' >= Wait(stable_count')
        /\ elapsed' + left' < DEFAULT_SETTLE_BOUND =>
             since' + left' >= Wait(stable_count' + 1)
    BY <2>1, <2>2, <2>3, <2>4, ConstantTypes
  <2>6. writing' => since' <= MaxGap
    BY <2>1
  <2> QED
    BY <2>1, <2>2, <2>5, <2>6
<1>3. CASE Tick
  <2> DEFINE d == Smaller(Unit, left)
  <2>1. d \in Nat /\ d > 0 /\ d <= left
    BY <1>3, ConstantTypes DEF Tick, Smaller, TInv, TypeOK, WindowOK
  <2>2. /\ pc = "sleep" /\ left' = left - d /\ elapsed' = elapsed + d
        /\ writing => since + d <= MaxGap /\ since' = since + d
        /\ pc' = IF left' = 0 THEN "poll" ELSE "sleep"
        /\ UNCHANGED <<file, writing, current_size, stable_count, read_offset,
                       verdict>>
    BY <1>3 DEF Tick, resultVars
  <2>3. FileSize' = FileSize
    BY <2>2 DEF FileSize
  <2>4. /\ since \in Nat /\ left \in Nat /\ elapsed \in Nat /\ stable_count \in Nat
        /\ verdict # "settled"
    BY <2>2 DEF TInv, TypeOK, WindowOK
  <2>5. Wait(stable_count) \in Nat /\ Wait(stable_count + 1) \in Nat
    BY <2>4, WaitFacts, ConstantTypes
  <2> HIDE DEF d, FileSize
  <2>6. writing' => since' <= MaxGap
    BY <2>2
  <2>7. ASSUME writing', current_size' = FileSize'
        PROVE  /\ since' > Wait(stable_count')
               /\ since' + left' = since + left /\ elapsed' + left' = elapsed + left
               /\ elapsed + left < DEFAULT_SETTLE_BOUND =>
                    since + left >= Wait(stable_count + 1)
    BY <2>1, <2>2, <2>3, <2>4, <2>5, <2>7
  <2>8. CASE left' = 0
    BY <2>1, <2>2, <2>3, <2>4, <2>5, <2>6, <2>7, <2>8
  <2>9. CASE left' # 0
    BY <2>1, <2>2, <2>3, <2>4, <2>5, <2>6, <2>7, <2>9
  <2> QED
    BY <2>8, <2>9
<1>4. CASE Poll
  <2>1. /\ pc = "poll" /\ file # Missing /\ current_size' = FileSize
        /\ UNCHANGED <<file, writing, since, elapsed>>
        /\ stable_count' = Count(FileSize = current_size)
    BY <1>4 DEF Poll, writerVars
  <2>2. FileSize' = FileSize
    BY <2>1 DEF FileSize
  <2>3. /\ FileSize \in Nat /\ since \in Nat /\ elapsed \in Nat
        /\ elapsed <= DEFAULT_SETTLE_BOUND
        /\ stable_count \in Nat /\ stable_count < STABLE_POLLS_REQUIRED
    BY <2>1, SizeType, ConstantTypes DEF TInv, TypeOK, WindowOK
  <2>4. /\ Wait(0) = 0 /\ Wait(stable_count) \in Nat
        /\ Wait(stable_count + 1) = Wait(stable_count) + BASE_POLL_INTERVAL
    BY <2>3, WaitFacts
  <2> HIDE DEF FileSize
  <2>5. CASE Enough(stable_count') /\ Close(FileSize, "settled")
    <3>1. FileSize = current_size /\ stable_count = STABLE_POLLS_REQUIRED - 1
      BY <2>1, <2>3, <2>5, ConstantTypes DEF Enough, Count
    <3>2. ~writing
      <4>1. SUFFICES ASSUME writing PROVE FALSE
        OBVIOUS
      <4>2. since > Wait(stable_count) /\ since <= MaxGap
        BY <2>1, <3>1, <4>1
      <4>3. MaxGap <= Wait(stable_count)
        BY <3>1 DEF PausesOutlasted, Wait
      <4> QED
        BY <2>3, <2>4, <4>2, <4>3, ConstantTypes
    <3>3. read_offset' = FileSize /\ pc' = "read"
      BY <2>5 DEF Close
    <3> QED
      BY <2>1, <2>2, <3>2, <3>3
  <2>6. CASE Close(FileSize, "settled_at_bound")
    BY <2>1, <2>6 DEF Close
  <2>7. CASE /\ elapsed < DEFAULT_SETTLE_BOUND
             /\ pc' = "sleep" /\ left' = Sleep(FileSize, elapsed)
             /\ UNCHANGED verdict
    <3>1. verdict' # "settled"
      BY <2>1, <2>7 DEF TInv, WindowOK
    <3>2. /\ left' \in Nat
          /\ elapsed + left' < DEFAULT_SETTLE_BOUND =>
               left' >= BASE_POLL_INTERVAL
      BY <2>3, <2>7, SleepFacts
    <3>3. ASSUME writing
          PROVE  /\ since >= Wait(stable_count')
                 /\ elapsed + left' < DEFAULT_SETTLE_BOUND =>
                      since + left' >= Wait(stable_count' + 1)
      <4>1. CASE FileSize = current_size
        <5>1. stable_count' = stable_count + 1
          BY <2>1, <4>1 DEF Count
        <5>2. since >= Wait(stable_count + 1)
          BY <2>1, <2>7, <3>3, <4>1
        <5>3. stable_count' \in Nat
          BY <2>3, <5>1
        <5>4. /\ Wait(stable_count') \in Nat
              /\ Wait(stable_count' + 1) = Wait(stable_count') + BASE_POLL_INTERVAL
          BY <5>3, WaitFacts
        <5>5. since >= Wait(stable_count')
          BY <5>1, <5>2
        <5>6. left' >= BASE_POLL_INTERVAL
                => since + left' >= Wait(stable_count') + BASE_POLL_INTERVAL
          BY <2>3, <3>2, <5>4, <5>5, ConstantTypes
        <5> QED
          BY <3>2, <5>4, <5>5, <5>6
      <4>2. CASE FileSize # current_size
        <5>1. stable_count' = 0
          BY <2>1, <4>2 DEF Count
        <5>2. stable_count' \in Nat /\ Wait(stable_count') = 0
          BY <2>4, <5>1
        <5>3. Wait(stable_count' + 1) = Wait(stable_count') + BASE_POLL_INTERVAL
          BY <5>2, WaitFacts
        <5>4. since >= 0 /\ left' \in Nat /\ since + left' >= left'
          <6>1. \A a, b \in Nat : a >= 0 /\ a + b >= b
            OBVIOUS
          <6>2. since \in Nat /\ left' \in Nat
            BY <2>3, <3>2
          <6> QED
            BY <6>1, <6>2
        <5>5. Wait(stable_count' + 1) = BASE_POLL_INTERVAL
          BY <5>2, <5>3, ConstantTypes
        <5>6. elapsed + left' < DEFAULT_SETTLE_BOUND =>
                since + left' >= BASE_POLL_INTERVAL
          <6>1. \A a, b \in Nat : b >= BASE_POLL_INTERVAL => a + b >= BASE_POLL_INTERVAL
            BY ConstantTypes
          <6> QED
            BY <2>3, <3>2, <6>1
        <5> QED
          BY <5>2, <5>4, <5>5, <5>6
      <4> QED
        BY <4>1, <4>2
    <3> QED
      BY <2>1, <2>2, <2>3, <2>7, <3>1, <3>3
  <2> QED
    BY <1>4, <2>5, <2>6, <2>7 DEF Poll
<1>5. CASE ReadBytes
  <2>1. /\ pc' = "done" /\ UNCHANGED <<file, writing, since, read_offset, verdict>>
    BY <1>5 DEF ReadBytes, writerVars
  <2> QED
    BY <2>1 DEF FileSize
<1>6. CASE FileError
  <2>1. /\ pc' = "done" /\ verdict' = "error" /\ UNCHANGED <<writing, since>>
    BY <1>6 DEF FileError, writerVars
  <2> QED
    BY <2>1
<1> QED
  BY <1>1, <1>2, <1>3, <1>4, <1>5, <1>6 DEF Reader

LEMMA NextQuiet ==
  ASSUME TInv, TInv', QuietOK, AppendOnly, PausesOutlasted, [Next]_vars
  PROVE  QuietOK'
<1>1. CASE UNCHANGED vars
  BY <1>1 DEF QuietOK, FileSize, vars
<1> QED
  BY <1>1, WriterQuiet, ReaderQuiet DEF Next

\* When the polls outlast a writer's pauses, a settled read is of a turn that
\* is over, and of all of it (reader.rs:50-55, 140-155, 232-238).
THEOREM SettledReadsAreWhole == Spec => []SettledIsWhole
<1>1. CASE AppendOnly /\ PausesOutlasted
  <2>1. Init => QuietOK
    BY InitQuiet
  <2>2. TInv /\ TInv' /\ QuietOK /\ [Next]_vars => QuietOK'
    BY <1>1, NextQuiet
  <2>3. QuietOK => SettledIsWhole
    BY DEF QuietOK, SettledIsWhole
  <2> QED
    BY <2>1, <2>2, <2>3, InitTInv, NextTInv, PTL DEF Spec
<1>2. CASE ~(AppendOnly /\ PausesOutlasted)
  <2>1. SettledIsWhole
    BY <1>2 DEF SettledIsWhole
  <2> QED
    BY <2>1, PTL
<1> QED
  BY <1>1, <1>2

\* With the constants of the code (reader.rs:46-52) that is so for pauses of up to
\* 100 ms, half of what "50-200 ms" promises (reader.rs:50-52): three stable polls
\* outlast two intervals for certain, since the bound may cut the last one short.
THEOREM PausesUpTo100ms ==
  ASSUME BASE_POLL_INTERVAL = 50, STABLE_POLLS_REQUIRED = 3,
         AppendOnly, MaxGap <= 100
  PROVE  Spec => [](verdict = "settled" => ~writing /\ read_offset = FileSize)
<1>1. PausesOutlasted
  BY DEF PausesOutlasted
<1>2. SettledIsWhole => (verdict = "settled" => ~writing /\ read_offset = FileSize)
  BY <1>1 DEF SettledIsWhole
<1> QED
  BY <1>2, SettledReadsAreWhole, PTL
-------------------------------------------------------------------------------
(***************************************************************************)
(* The contract with the caller.                                            *)
(***************************************************************************)
\* Only a window that closed is followed by a read.
ClosedOK == pc = "read" => verdict \in {"settled", "settled_at_bound"}

LEMMA InitClosed == Init => ClosedOK
  BY DEF Init, ClosedOK

LEMMA NextClosed == TInv /\ ClosedOK /\ [Next]_vars => ClosedOK'
<1> SUFFICES ASSUME TInv, ClosedOK, [Next]_vars PROVE ClosedOK'
  OBVIOUS
<1> USE DEF ClosedOK
<1>1. CASE UNCHANGED vars
  BY <1>1 DEF vars
<1>2. CASE (\E cell \in CellKinds : Write(cell)) \/ EndTurn \/ Truncate \/ Remove
  BY <1>2 DEF Write, EndTurn, Truncate, Remove, resultVars
<1>3. CASE CheckRegression \/ SettleStart
  BY <1>3 DEF CheckRegression, SettleStart
<1>4. CASE Tick \/ ReadBytes \/ FileError
  BY <1>4 DEF Tick, ReadBytes, FileError
<1>5. CASE Poll
  BY <1>5 DEF Poll, Close
<1> QED
  BY <1>1, <1>2, <1>3, <1>4, <1>5 DEF Next, Reader

\* What the refinement mapping makes of each place in the call.
Mapped ==
  /\ pc = "check" => ContractPhase = "check"
  /\ pc \in {"start", "sleep", "poll"} => ContractPhase = "settle"
  /\ pc = "read" => ContractPhase = "bytes"
  /\ pc = "done" => ContractPhase = "done"
  /\ pc # "done" => ContractVerdict = "none"
  /\ pc = "done" /\ verdict = "error" => ContractVerdict = "read_error"
  /\ pc = "done" /\ verdict = "truncated" => ContractVerdict = "truncated"
  /\ pc = "done" /\ verdict \in {"settled", "settled_at_bound"} =>
       ContractVerdict = IF probe = "ok" THEN "settled" ELSE "drift"

LEMMA MappedPhases == Mapped
  BY DEF Mapped, ContractPhase, ContractVerdict

\* Drift takes a line, hence a byte, below the offset and in the file.
LEMMA DriftTakesBytes ==
  ASSUME file \in Seq(CellKinds), read_offset \in Nat,
         Aggregate(Capped(file, read_offset)) # "ok"
  PROVE  FileSize > 0 /\ read_offset > 0
<1> DEFINE m == Smaller(Len(file), read_offset \div CellBytes)
           bytes == SubSeq(file, 1, m)
<1>1. /\ Len(file) \in Nat /\ read_offset \div CellBytes \in Nat
      /\ m \in Nat /\ m <= Len(file) /\ m <= read_offset \div CellBytes
  BY ConstantTypes DEF Smaller
<1>2. Len(bytes) = m /\ DOMAIN bytes = 1..m
  BY <1>1
<1>3. PICK i \in DOMAIN bytes : TRUE
  BY DEF Aggregate, LineEnds, Capped
<1>4. m > 0
  BY <1>1, <1>2, <1>3
<1> HIDE DEF m, bytes
<1>5. Len(file) > 0 /\ read_offset \div CellBytes > 0
  BY <1>1, <1>4
<1>6. ASSUME NEW n \in Nat, n > 0 PROVE n * CellBytes > 0
  BY <1>6, ConstantTypes
<1>7. read_offset # 0
  <2>1. 0 \div CellBytes = 0
    BY ConstantTypes
  <2> QED
    BY <1>5, <2>1
<1> QED
  BY <1>1, <1>5, <1>6, <1>7 DEF FileSize

\* The writer's steps are others' steps of the contract, which shrink a file
\* only if it is not one that is appended to.
LEMMA WriterMeetsContract ==
  ASSUME TInv, TInv', \/ \E cell \in CellKinds : Write(cell)
                     \/ EndTurn \/ Truncate \/ Remove
  PROVE  [Contract!Others]_(Contract!vars)
<1>1. UNCHANGED <<pc, prior, read_offset, verdict, probe>>
  BY DEF Write, EndTurn, Truncate, Remove, resultVars
<1>2. UNCHANGED <<ContractPhase, prior, read_offset, ContractVerdict>>
  BY <1>1 DEF ContractPhase, ContractVerdict
<1>3. ContractSize \in Nat \cup {None} /\ ContractSize' \in Nat \cup {None}
  <2>1. file # Missing => FileSize \in Nat
    BY SizeType DEF TInv, TypeOK
  <2>2. file' # Missing => FileSize' \in Nat
    <3>1. ASSUME file' \in Seq(CellKinds) PROVE Len(file') * CellBytes \in Nat
      BY <3>1, ConstantTypes
    <3> QED
      BY <3>1 DEF TInv, TypeOK, FileSize
  <2> QED
    BY <2>1, <2>2 DEF ContractSize
<1>4. AppendOnly /\ ContractSize # None =>
        ContractSize' # None /\ ContractSize' >= ContractSize
  <2> SUFFICES ASSUME AppendOnly, file # Missing
               PROVE  ContractSize' \in Nat /\ ContractSize' >= ContractSize
    BY ReaderAssumption DEF ContractSize
  <2>1. CASE EndTurn
    BY <2>1, <1>3, ReaderAssumption, SizeType DEF EndTurn, ContractSize, FileSize, TInv, TypeOK
  <2>2. ASSUME NEW cell \in CellKinds, Write(cell)
        PROVE  ContractSize' \in Nat /\ ContractSize' >= ContractSize
    <3>1. file \in Seq(CellKinds) /\ file' = Append(file, cell)
      BY <2>2 DEF Write, TInv, TypeOK
    <3>2. FileSize' > FileSize
      BY <3>1, AppendGrows
    <3>3. file' # Missing
      <4>1. Append(file, cell) \in Seq(CellKinds)
        BY <3>1
      <4> QED
        BY <3>1, <4>1, ReaderAssumption
    <3>4. ContractSize = FileSize /\ ContractSize' = FileSize'
      BY <3>3 DEF ContractSize
    <3>5. FileSize' \in Nat /\ FileSize \in Nat
      BY <1>3, <3>4, <3>1, SizeType, ReaderAssumption, <3>2
    <3> QED
      BY <3>2, <3>4, <3>5
  <2>3. ~Truncate /\ ~Remove
    BY DEF Truncate, Remove
  <2> QED
    BY <2>1, <2>2, <2>3
<1> QED
  BY <1>2, <1>3, <1>4 DEF Contract!Others, Contract!Size

\* Each step of the reader is one of the contract, or invisible to it.
LEMMA ReaderMeetsContract ==
  ASSUME TInv, TInv', ClosedOK, Reader
  PROVE  [Contract!Next]_(Contract!vars)
<1>1. Mapped /\ Mapped'
  BY MappedPhases, PTL
<1>2. /\ file # Missing => ContractSize = FileSize /\ FileSize \in Nat
      /\ file = Missing => ContractSize = None
      /\ None \notin Nat
  BY SizeType, ReaderAssumption DEF TInv, TypeOK, ContractSize
<1> USE DEF Mapped
<1>3. CASE CheckRegression
  <2>1. /\ pc = "check" /\ file # Missing /\ prior \in Nat
        /\ UNCHANGED <<file, prior>>
        /\ \/ /\ FileSize < prior /\ pc' = "done" /\ verdict' = "truncated"
              /\ read_offset' = FileSize
           \/ /\ ~(FileSize < prior) /\ pc' = "start" /\ UNCHANGED read_offset
    BY <1>3 DEF CheckRegression, Regressed, resultVars, writerVars, TInv, TypeOK, WindowOK
  <2>2. UNCHANGED ContractSize
    BY <2>1 DEF ContractSize, FileSize
  <2>3. Contract!Regress \/ Contract!Pass
    BY <1>1, <1>2, <2>1, <2>2 DEF Contract!Regress, Contract!Pass, Contract!Return
  <2> QED
    BY <2>3 DEF Contract!Next
<1>4. CASE Tick
  <2>1. pc = "sleep" /\ pc' \in {"poll", "sleep"} /\ UNCHANGED <<file, prior, read_offset>>
    BY <1>4 DEF Tick, resultVars
  <2>2. UNCHANGED ContractSize
    BY <2>1 DEF ContractSize, FileSize
  <2> QED
    BY <1>1, <2>1, <2>2 DEF Contract!vars
<1>5. CASE SettleStart \/ Poll
  <2>1. /\ pc \in {"start", "poll"} /\ file # Missing /\ UNCHANGED <<file, prior>>
        /\ \/ pc' = "read" /\ read_offset' = FileSize
           \/ pc' = "sleep" /\ UNCHANGED read_offset
    BY <1>5 DEF SettleStart, Poll, Close, writerVars
  <2>2. UNCHANGED ContractSize
    BY <2>1 DEF ContractSize, FileSize
  <2>3. CASE pc' = "read" /\ read_offset' = FileSize
    BY <1>1, <1>2, <2>1, <2>2, <2>3 DEF Contract!Settle, Contract!Next
  <2>4. CASE pc' = "sleep" /\ UNCHANGED read_offset
    BY <1>1, <2>1, <2>2, <2>4 DEF Contract!vars
  <2> QED
    BY <2>1, <2>3, <2>4
<1>6. CASE ReadBytes
  <2>1. /\ pc = "read" /\ pc' = "done" /\ file # Missing
        /\ UNCHANGED <<file, prior, read_offset, verdict>>
        /\ probe' = Aggregate(Capped(file, read_offset))
        /\ verdict \in {"settled", "settled_at_bound"}
        /\ file \in Seq(CellKinds) /\ read_offset \in Nat
    BY <1>6 DEF ReadBytes, writerVars, ClosedOK, TInv, TypeOK, WindowOK
  <2>2. UNCHANGED ContractSize
    BY <2>1 DEF ContractSize, FileSize
  <2>3. probe' # "ok" => ContractSize > 0 /\ read_offset > 0
    BY <1>2, <2>1, DriftTakesBytes
  <2>4. Contract!Read
    BY <1>1, <1>2, <2>1, <2>2, <2>3 DEF Contract!Read, Contract!Return
  <2> QED
    BY <2>4 DEF Contract!Next
<1>7. CASE FileError
  <2>1. /\ pc \in FileOps /\ file = Missing /\ pc' = "done" /\ verdict' = "error"
        /\ UNCHANGED <<file, prior, read_offset>>
    BY <1>7 DEF FileError, writerVars
  <2>2. UNCHANGED ContractSize
    BY <2>1 DEF ContractSize, FileSize
  <2>3. Contract!Fail
    BY <1>1, <1>2, <2>1, <2>2 DEF FileOps, Contract!Fail, Contract!Return
  <2> QED
    BY <2>3 DEF Contract!Next
<1> QED
  BY <1>3, <1>4, <1>5, <1>6, <1>7 DEF Reader

\* read_complete, with its polls, its clock and its probe, keeps the contract
\* that its caller relies on (reader.rs:182-204, source.rs:71-87), for any file,
\* writer, offset, bound and intervals.
THEOREM ReaderImplementsContract == Spec => MeetsContract
<1>1. Init => Contract!Init
  <2> SUFFICES ASSUME Init PROVE Contract!Init
    OBVIOUS
  <2>1. TInv
    BY InitTInv
  <2>2. /\ pc = IF prior = None THEN "start" ELSE "check"
        /\ read_offset = None /\ verdict = "none"
    BY DEF Init
  <2>3. ContractSize \in Nat \cup {None} /\ prior \in Nat \cup {None}
    BY <2>1, SizeType DEF TInv, TypeOK, ContractSize
  <2> QED
    BY <2>2, <2>3, MappedPhases
    DEF Mapped, Contract!Init, Contract!Size, Contract!First
<1>2. TInv /\ TInv' /\ ClosedOK /\ [Next]_vars => [Contract!Next]_(Contract!vars)
  <2> SUFFICES ASSUME TInv, TInv', ClosedOK, [Next]_vars
               PROVE  [Contract!Next]_(Contract!vars)
    OBVIOUS
  <2>1. CASE UNCHANGED vars
    BY <2>1 DEF vars, Contract!vars, ContractSize, ContractPhase, ContractVerdict, FileSize
  <2>2. CASE (\E cell \in CellKinds : Write(cell)) \/ EndTurn \/ Truncate \/ Remove
    BY <2>2, WriterMeetsContract DEF Contract!Next
  <2>3. CASE Reader
    BY <2>3, ReaderMeetsContract
  <2> QED
    BY <2>1, <2>2, <2>3 DEF Next
<1> QED
  BY <1>1, <1>2, InitTInv, NextTInv, InitClosed, NextClosed, PTL
  DEF Spec, MeetsContract, Contract!Spec
-------------------------------------------------------------------------------
(***************************************************************************)
(* What a call reports as consumed.  The offset of a window is a whole      *)
(* number of cells, all of them in a file that is only appended to, so the  *)
(* read finds no less than the window settled on.                           *)
(***************************************************************************)
WholeCells(n, k) == n = k * CellBytes /\ (AppendOnly => file # Missing /\ k <= Len(file))

PrefixOK ==
  /\ pc = "read" => \E k \in Nat : WholeCells(read_offset, k)
  /\ OffsetIsConsumed

LEMMA WholeDivision ==
  ASSUME NEW k \in Nat, NEW b \in Nat, b > 0
  PROVE  (k * b) \div b = k
<1> DEFINE q == (k * b) \div b
<1>1. k * b \in Nat
  OBVIOUS
<1>2. q \in Nat /\ q * b <= k * b /\ k * b < (q + 1) * b
  BY <1>1
<1> HIDE DEF q
<1>3. q >= k
  <2>1. SUFFICES ASSUME q + 1 <= k PROVE FALSE
    BY <1>2
  <2>2. (q + 1) * b <= k * b
    BY <1>2, <2>1
  <2> QED
    BY <1>2, <2>2
<1>4. q <= k
  <2>1. SUFFICES ASSUME k + 1 <= q PROVE FALSE
    BY <1>2
  <2>2. (k + 1) * b <= q * b
    BY <1>2, <2>1
  <2>3. (k + 1) * b = k * b + b
    OBVIOUS
  <2> QED
    BY <1>2, <2>2, <2>3
<1> QED
  BY <1>2, <1>3, <1>4 DEF q

\* The bytes below an offset of whole cells.
LEMMA CappedLength ==
  ASSUME file \in Seq(CellKinds), NEW k \in Nat
  PROVE  /\ Capped(file, k * CellBytes) = SubSeq(file, 1, Smaller(Len(file), k))
         /\ Len(Capped(file, k * CellBytes)) = Smaller(Len(file), k)
<1>1. (k * CellBytes) \div CellBytes = k
  BY ConstantTypes, WholeDivision
<1>2. Smaller(Len(file), k) \in 0..Len(file)
  BY DEF Smaller
<1> QED
  BY <1>1, <1>2 DEF Capped

LEMMA InitPrefix == Init => PrefixOK
  BY DEF Init, PrefixOK, OffsetIsConsumed

LEMMA NextPrefix == TInv /\ ClosedOK /\ PrefixOK /\ [Next]_vars => PrefixOK'
<1> SUFFICES ASSUME TInv, ClosedOK, PrefixOK, [Next]_vars PROVE PrefixOK'
  OBVIOUS
<1> USE DEF PrefixOK, OffsetIsConsumed, WholeCells
<1>1. CASE UNCHANGED vars
  BY <1>1 DEF vars
<1>2. CASE (\E cell \in CellKinds : Write(cell)) \/ EndTurn \/ Truncate \/ Remove
  <2>1. UNCHANGED <<pc, verdict, consumed, read_offset>>
    BY <1>2 DEF Write, EndTurn, Truncate, Remove, resultVars
  <2>2. ASSUME NEW cell \in CellKinds, Write(cell), pc = "read"
        PROVE  \E k \in Nat : WholeCells(read_offset, k)'
    <3>1. file \in Seq(CellKinds) /\ file' = Append(file, cell)
      BY <2>2 DEF Write, TInv, TypeOK, WindowOK
    <3>2. Len(file') = Len(file) + 1 /\ file' \in Seq(CellKinds)
      BY <3>1
    <3>3. file' # Missing
      BY <3>2, ReaderAssumption
    <3>4. PICK k \in Nat : WholeCells(read_offset, k)
      BY <2>2
    <3> QED
      BY <2>1, <3>1, <3>2, <3>3, <3>4
  <2>3. CASE EndTurn
    BY <2>1, <2>3 DEF EndTurn
  <2>4. CASE Truncate \/ Remove
    BY <2>1, <2>4 DEF Truncate, Remove
  <2> QED
    BY <1>2, <2>1, <2>2, <2>3, <2>4
<1>3. CASE SettleStart \/ Poll
  <2>1. /\ pc' # "done" /\ file # Missing /\ UNCHANGED file
        /\ pc' = "read" => read_offset' = FileSize
    BY <1>3 DEF SettleStart, Poll, Close, writerVars
  <2>2. Len(file) \in Nat
    BY <2>1 DEF TInv, TypeOK
  <2>3. pc' = "read" => WholeCells(read_offset, Len(file))'
    BY <2>1, <2>2 DEF FileSize
  <2> QED
    BY <2>1, <2>2, <2>3
<1>4. CASE CheckRegression \/ Tick \/ FileError
  BY <1>4 DEF CheckRegression, Tick, FileError
<1>5. CASE ReadBytes
  <2>1. /\ pc = "read" /\ file \in Seq(CellKinds) /\ pc' = "done"
        /\ consumed' = Len(Capped(file, read_offset)) * CellBytes
        /\ UNCHANGED <<file, read_offset, verdict>>
    BY <1>5 DEF ReadBytes, writerVars, TInv, TypeOK
  <2>2. PICK k \in Nat : WholeCells(read_offset, k)
    BY <2>1
  <2>3. Len(Capped(file, read_offset)) = Smaller(Len(file), k)
    BY <2>1, <2>2, CappedLength
  <2>4. /\ Smaller(Len(file), k) \in Nat /\ Smaller(Len(file), k) <= k
        /\ AppendOnly => Smaller(Len(file), k) = k
    BY <2>1, <2>2 DEF Smaller
  <2>5. \A m, n \in Nat : m <= n => m * CellBytes <= n * CellBytes
    BY ConstantTypes
  <2> QED
    BY <2>1, <2>2, <2>3, <2>4, <2>5
<1> QED
  BY <1>1, <1>2, <1>3, <1>4, <1>5 DEF Next, Reader

\* The offset that is returned is where the bytes that were read end
\* (source.rs:84-86), and never beyond the file as the window found it.
THEOREM OffsetsAreConsumed == Spec => []OffsetIsConsumed
<1>1. PrefixOK => OffsetIsConsumed
  BY DEF PrefixOK
<1> QED
  BY <1>1, InitTInv, NextTInv, InitClosed, NextClosed, InitPrefix, NextPrefix, PTL
  DEF Spec
-------------------------------------------------------------------------------
(***************************************************************************)
(* The bound.  Without growth the polls come one interval after another,    *)
(* and the size that sets the interval stays the same.                      *)
(***************************************************************************)
PollsTake(k, bytes) == k * poll_interval_for_size(bytes)

LEMMA PollsTakeFacts ==
  ASSUME NEW bytes \in Nat
  PROVE  /\ poll_interval_for_size(bytes) \in Nat
         /\ poll_interval_for_size(bytes) > 0
         /\ \A k \in Nat : /\ PollsTake(k, bytes) \in Nat
                           /\ PollsTake(k + 1, bytes)
                                = PollsTake(k, bytes) + poll_interval_for_size(bytes)
                           /\ \A j \in Nat : j <= k =>
                                PollsTake(j, bytes) <= PollsTake(k, bytes)
         /\ PollsTake(0, bytes) = 0
<1> DEFINE i == poll_interval_for_size(bytes)
<1>1. i \in Nat /\ i > 0
  <2>1. bytes \div 1024 \in Nat
    OBVIOUS
  <2>2. (bytes \div 1024) \div 2 \in Nat
    BY <2>1
  <2> QED
    BY <2>2, ConstantTypes DEF poll_interval_for_size, Larger
<1> HIDE DEF i
<1>2. /\ 0 * i = 0
      /\ \A k \in Nat : k * i \in Nat /\ (k + 1) * i = k * i + i
      /\ \A j, k \in Nat : j <= k => j * i <= k * i
  BY <1>1
<1> QED
  BY <1>1, <1>2 DEF PollsTake, i

PacedOK ==
  ~grew =>
    /\ pc \in {"sleep", "poll"} =>
         /\ file # Missing /\ current_size = FileSize
         /\ elapsed + left = Smaller(PollsTake(stable_count + 1, current_size),
                                     DEFAULT_SETTLE_BOUND)
    /\ verdict = "settled_at_bound" => ~PollsFit(current_size)

LEMMA InitPaced == Init => PacedOK
  BY DEF Init, PacedOK

LEMMA NextPaced ==
  ASSUME TInv, TInv', PacedOK, AppendOnly, [Next]_vars
  PROVE  PacedOK'
<1> USE DEF TInv, TypeOK, WindowOK, PacedOK
<1>1. CASE UNCHANGED vars
  BY <1>1 DEF vars, FileSize, PollsFit
<1>2. CASE \E cell \in CellKinds : Write(cell)
  BY <1>2 DEF Write
<1>3. CASE EndTurn
  BY <1>3 DEF EndTurn, settleVars, resultVars, FileSize, PollsFit
<1>4. CASE Truncate \/ Remove
  BY <1>4 DEF Truncate, Remove
<1>5. CASE CheckRegression \/ FileError
  <2>1. pc' \in {"done", "start"} /\ verdict' # "settled_at_bound"
    BY <1>5 DEF CheckRegression, FileError, FileOps, resultVars
  <2> QED
    BY <2>1
<1>6. CASE ReadBytes
  <2>1. pc' = "done" /\ UNCHANGED <<grew, verdict, current_size>>
    BY <1>6 DEF ReadBytes, writerVars, settleVars
  <2> QED
    BY <2>1 DEF PollsFit
<1>7. CASE SettleStart
  <2> DEFINE n == FileSize
             i == poll_interval_for_size(FileSize)
  <2>1. /\ file # Missing /\ file' = file /\ current_size' = n /\ elapsed' = 0
        /\ stable_count' = 0 /\ left' = Smaller(i, DEFAULT_SETTLE_BOUND - 0)
        /\ verdict' = "settled_at_bound" => left' = 0
    BY <1>7 DEF SettleStart, Sleep
  <2>2. n \in Nat /\ FileSize' = n
    BY <2>1, SizeType DEF FileSize
  <2>3. /\ i \in Nat /\ i > 0 /\ PollsTake(0, n) = 0
        /\ PollsTake(0 + 1, n) = PollsTake(0, n) + i
    BY <2>2, PollsTakeFacts
  <2>4. \A k \in Nat : k < STABLE_POLLS_REQUIRED => PollsTake(k, n) \in Nat
    BY <2>2, PollsTakeFacts
  <2> HIDE DEF n, i
  <2>5. elapsed' + left' = Smaller(PollsTake(stable_count' + 1, current_size'),
                                   DEFAULT_SETTLE_BOUND)
    BY <2>1, <2>3, ConstantTypes DEF Smaller
  <2>6. ASSUME verdict' = "settled_at_bound" PROVE ~PollsFit(current_size')
    <3>1. DEFAULT_SETTLE_BOUND = 0
      BY <2>1, <2>3, <2>6, ConstantTypes DEF Smaller
    <3>2. PollsTake(STABLE_POLLS_REQUIRED - 1, n) \in Nat
      BY <2>4, ConstantTypes
    <3>3. ~(PollsTake(STABLE_POLLS_REQUIRED - 1, n) < DEFAULT_SETTLE_BOUND)
      BY <3>1, <3>2
    <3> QED
      BY <2>1, <3>3 DEF PollsFit, PollsTake
  <2> QED
    BY <2>1, <2>2, <2>5, <2>6 DEF PollsFit
<1>8. CASE Tick
  <2>1. /\ pc = "sleep" /\ elapsed' + left' = elapsed + left
        /\ UNCHANGED <<file, grew, current_size, stable_count, verdict>>
    <3> DEFINE d == Smaller(Unit, left)
    <3>1. d \in Nat /\ d <= left
      BY ConstantTypes DEF Smaller
    <3>2. /\ pc = "sleep" /\ left' = left - d /\ elapsed' = elapsed + d
          /\ UNCHANGED <<file, grew, current_size, stable_count, verdict>>
      BY <1>8 DEF Tick, resultVars
    <3> HIDE DEF d
    <3> QED
      BY <3>1, <3>2
  <2>2. FileSize' = FileSize /\ verdict # "settled_at_bound"
    BY <2>1 DEF FileSize
  <2> HIDE DEF FileSize
  <2> QED
    BY <2>1, <2>2
<1>9. CASE Poll
  <2>1. /\ pc = "poll" /\ left = 0 /\ file # Missing /\ file' = file
        /\ current_size' = FileSize /\ elapsed' = elapsed /\ grew' = grew
        /\ stable_count' = Count(FileSize = current_size)
        /\ verdict # "settled_at_bound"
    BY <1>9 DEF Poll, writerVars
  <2>2. FileSize' = FileSize /\ FileSize \in Nat
    BY <2>1, SizeType DEF FileSize
  <2>3. SUFFICES ASSUME ~grew
                 PROVE  /\ pc' \in {"sleep", "poll"} =>
                             elapsed' + left'
                               = Smaller(PollsTake(stable_count' + 1, current_size'),
                                         DEFAULT_SETTLE_BOUND)
                        /\ verdict' = "settled_at_bound" => ~PollsFit(current_size')
    BY <2>1, <2>2
  <2> DEFINE n == current_size
             i == poll_interval_for_size(current_size)
             k == stable_count + 1
  <2>4. n = FileSize /\ stable_count' = k /\ k \in Nat
    BY <2>1, <2>3 DEF Count
  <2>5. elapsed = Smaller(PollsTake(k, n), DEFAULT_SETTLE_BOUND)
    BY <2>1, <2>3
  <2>6. /\ i \in Nat /\ i > 0
        /\ PollsTake(k, n) \in Nat /\ PollsTake(k + 1, n) = PollsTake(k, n) + i
    BY <2>4, PollsTakeFacts
  <2>7. CASE Enough(stable_count') /\ Close(FileSize, "settled")
    BY <2>7 DEF Close
  <2>8. CASE /\ ~Enough(stable_count') /\ elapsed >= DEFAULT_SETTLE_BOUND
             /\ Close(FileSize, "settled_at_bound")
    <3>1. k <= STABLE_POLLS_REQUIRED - 1 /\ STABLE_POLLS_REQUIRED - 1 \in Nat
      BY <2>4, <2>8, ConstantTypes DEF Enough
    <3>2. /\ PollsTake(STABLE_POLLS_REQUIRED - 1, n) \in Nat
          /\ PollsTake(k, n) <= PollsTake(STABLE_POLLS_REQUIRED - 1, n)
      BY <2>4, <3>1, PollsTakeFacts
    <3>3. PollsTake(k, n) >= DEFAULT_SETTLE_BOUND
      BY <2>5, <2>6, <2>8, ConstantTypes DEF Smaller
    <3>4. ~(PollsTake(STABLE_POLLS_REQUIRED - 1, n) < DEFAULT_SETTLE_BOUND)
      BY <2>6, <3>2, <3>3, ConstantTypes
    <3> QED
      BY <2>1, <2>4, <2>8, <3>4 DEF Close, PollsFit, PollsTake
  <2>9. CASE /\ elapsed < DEFAULT_SETTLE_BOUND
             /\ pc' = "sleep" /\ left' = Sleep(FileSize, elapsed)
             /\ UNCHANGED verdict
    <3>1. left' = Smaller(i, DEFAULT_SETTLE_BOUND - elapsed)
      BY <2>4, <2>9 DEF Sleep
    <3>2. elapsed = PollsTake(k, n)
      BY <2>5, <2>6, <2>9, ConstantTypes DEF Smaller
    <3> HIDE DEF i, n, k
    <3>3. elapsed + left' = Smaller(PollsTake(k + 1, n), DEFAULT_SETTLE_BOUND)
      BY <2>6, <2>9, <3>1, <3>2, ConstantTypes DEF Smaller
    <3>4. current_size' = n
      BY <2>1, <2>4
    <3> QED
      BY <2>1, <2>4, <2>9, <3>3, <3>4
  <2> QED
    BY <1>9, <2>7, <2>8, <2>9 DEF Poll
<1> QED
  BY <1>1, <1>2, <1>3, <1>4, <1>5, <1>6, <1>7, <1>8, <1>9 DEF Next, Reader

\* A file whose polls fit into the window and that nobody writes to settles
\* before the bound (reader.rs:93-95, 266-305), for any bound and interval.
THEOREM OnlyGrowthMeetsTheBound == Spec => []AtBoundOnlyIfGrew
<1>1. CASE AppendOnly
  <2>1. TInv /\ TInv' /\ PacedOK /\ [Next]_vars => PacedOK'
    BY <1>1, NextPaced
  <2>2. PacedOK => AtBoundOnlyIfGrew
    BY DEF PacedOK, AtBoundOnlyIfGrew
  <2> QED
    BY <2>1, <2>2, InitPaced, InitTInv, NextTInv, PTL DEF Spec
<1>2. CASE ~AppendOnly
  <2>1. AtBoundOnlyIfGrew
    BY <1>2 DEF AtBoundOnlyIfGrew
  <2> QED
    BY <2>1, PTL
<1> QED
  BY <1>1, <1>2, ReaderAssumption
-------------------------------------------------------------------------------
(***************************************************************************)
(* The other direction, for any file.  Each sleep begins before the bound   *)
(* and after the polls that were counted; only the last one can be cut.     *)
(***************************************************************************)
FitsOK ==
  /\ pc \in {"sleep", "poll"} =>
       \E begun \in Nat :
         /\ begun < DEFAULT_SETTLE_BOUND
         /\ PollsTake(stable_count, current_size) <= begun
         /\ elapsed + left = Smaller(begun + poll_interval_for_size(current_size),
                                     DEFAULT_SETTLE_BOUND)
  /\ verdict = "settled" => read_offset \in Nat
  /\ SettlesOnlyIfFits

LEMMA InitFits == Init => FitsOK
  BY DEF Init, FitsOK, SettlesOnlyIfFits

\* A sleep that begins at e, after k stable polls.
LEMMA SleepBegins ==
  ASSUME NEW n \in Nat, NEW e \in Nat, NEW k \in Nat, e < DEFAULT_SETTLE_BOUND,
         PollsTake(k, n) <= e
  PROVE  \E begun \in Nat :
           /\ begun < DEFAULT_SETTLE_BOUND
           /\ PollsTake(k, n) <= begun
           /\ e + Sleep(n, e) = Smaller(begun + poll_interval_for_size(n),
                                        DEFAULT_SETTLE_BOUND)
<1> DEFINE i == poll_interval_for_size(n)
<1>1. i \in Nat /\ DEFAULT_SETTLE_BOUND \in Nat
  BY PollsTakeFacts, ConstantTypes
<1>2. Sleep(n, e) = Smaller(i, DEFAULT_SETTLE_BOUND - e)
  BY DEF Sleep
<1> HIDE DEF i
<1>3. e + Sleep(n, e) = Smaller(e + i, DEFAULT_SETTLE_BOUND)
  BY <1>1, <1>2 DEF Smaller
<1> QED
  BY <1>3 DEF i

LEMMA NextFits ==
  ASSUME TInv, TInv', FitsOK, [Next]_vars
  PROVE  FitsOK'
<1> USE DEF TInv, TypeOK, WindowOK, FitsOK, SettlesOnlyIfFits
<1>1. CASE UNCHANGED vars
  BY <1>1 DEF vars, PollsFit, PollsTake
<1>2. CASE (\E cell \in CellKinds : Write(cell)) \/ EndTurn \/ Truncate \/ Remove
  <2>1. UNCHANGED <<pc, settleVars, resultVars>>
    BY <1>2 DEF Write, EndTurn, Truncate, Remove
  <2> QED
    BY <2>1 DEF settleVars, resultVars, PollsFit, PollsTake
<1>3. CASE CheckRegression \/ ReadBytes \/ FileError
  <2>1. pc' \in {"done", "start"} /\ (verdict' = "settled" => UNCHANGED <<verdict, read_offset>>)
    BY <1>3 DEF CheckRegression, ReadBytes, FileError, resultVars
  <2> QED
    BY <2>1 DEF PollsFit
<1>4. CASE SettleStart
  <2> DEFINE n == FileSize
  <2>1. /\ file # Missing /\ current_size' = n /\ elapsed' = 0 /\ stable_count' = 0
        /\ left' = Sleep(n, 0) /\ verdict' # "settled"
        /\ pc' \in {"sleep", "poll"} => left' # 0
    BY <1>4 DEF SettleStart
  <2>2. n \in Nat /\ PollsTake(0, n) = 0
    BY <2>1, SizeType, PollsTakeFacts
  <2> HIDE DEF n
  <2>3. left' \in Nat /\ 0 + left' <= DEFAULT_SETTLE_BOUND
    BY <2>1, <2>2, SleepFacts, ConstantTypes
  <2>4. ASSUME pc' \in {"sleep", "poll"}
        PROVE  \E begun \in Nat :
                 /\ begun < DEFAULT_SETTLE_BOUND
                 /\ PollsTake(0, n) <= begun
                 /\ 0 + Sleep(n, 0) = Smaller(begun + poll_interval_for_size(n),
                                              DEFAULT_SETTLE_BOUND)
    <3>1. 0 < DEFAULT_SETTLE_BOUND
      BY <2>1, <2>3, <2>4, ConstantTypes
    <3>2. 0 \in Nat /\ PollsTake(0, n) <= 0
      BY <2>2
    <3> QED
      BY ONLY <2>2, <3>1, <3>2, SleepBegins
  <2> QED
    BY <2>1, <2>4
<1>5. CASE Tick
  <2>1. /\ pc = "sleep" /\ elapsed' + left' = elapsed + left
        /\ UNCHANGED <<current_size, stable_count, verdict, read_offset>>
    <3> DEFINE d == Smaller(Unit, left)
    <3>1. d \in Nat /\ d <= left
      BY ConstantTypes DEF Smaller
    <3>2. /\ pc = "sleep" /\ left' = left - d /\ elapsed' = elapsed + d
          /\ UNCHANGED <<current_size, stable_count, verdict, read_offset>>
      BY <1>5 DEF Tick, resultVars
    <3> HIDE DEF d
    <3> QED
      BY <3>1, <3>2
  <2> QED
    BY <2>1
<1>6. CASE Poll
  <2> DEFINE n == FileSize
             i == poll_interval_for_size(current_size)
  <2>1. /\ pc = "poll" /\ left = 0 /\ file # Missing /\ elapsed' = elapsed
        /\ current_size' = n /\ verdict = "none"
        /\ stable_count' = Count(n = current_size)
    BY <1>6 DEF Poll
  <2>2. n \in Nat
    BY <2>1, SizeType
  <2>3. PICK begun \in Nat :
               /\ begun < DEFAULT_SETTLE_BOUND
               /\ PollsTake(stable_count, current_size) <= begun
               /\ elapsed + left = Smaller(begun + i, DEFAULT_SETTLE_BOUND)
    BY <2>1
  <2>4. /\ i \in Nat
        /\ PollsTake(stable_count, current_size) \in Nat
        /\ PollsTake(stable_count + 1, current_size)
             = PollsTake(stable_count, current_size) + i
        /\ PollsTake(0, n) = 0
    <3>1. current_size \in Nat /\ stable_count \in Nat
      BY ConstantTypes
    <3> HIDE DEF n
    <3> QED
      BY ONLY <2>2, <3>1, PollsTakeFacts DEF i
  <2> HIDE DEF n, i
  <2>5. CASE Enough(stable_count') /\ Close(n, "settled")
    <3>1. stable_count = STABLE_POLLS_REQUIRED - 1 /\ n = current_size
      BY <2>1, <2>5, ConstantTypes DEF Enough, Count
    <3>2. PollsFit(n)
      BY <2>3, <2>4, <3>1, ConstantTypes DEF PollsFit, PollsTake
    <3> QED
      BY <2>2, <2>5, <3>2 DEF Close, PollsFit
  <2>6. CASE Close(n, "settled_at_bound")
    BY <2>6 DEF Close
  <2>7. CASE /\ elapsed < DEFAULT_SETTLE_BOUND
             /\ pc' = "sleep" /\ left' = Sleep(n, elapsed)
             /\ UNCHANGED <<read_offset, verdict>>
    <3>1. PollsTake(stable_count', n) <= elapsed
      <4>1. CASE n = current_size
        BY <2>1, <2>3, <2>4, <2>7, <4>1, ConstantTypes DEF Count, Smaller
      <4>2. CASE n # current_size
        BY <2>1, <2>4, <4>2 DEF Count
      <4> QED
        BY <4>1, <4>2
    <3>2. \E start \in Nat :
            /\ start < DEFAULT_SETTLE_BOUND
            /\ PollsTake(stable_count', n) <= start
            /\ elapsed + Sleep(n, elapsed)
                 = Smaller(start + poll_interval_for_size(n), DEFAULT_SETTLE_BOUND)
      BY <2>2, <2>7, <3>1, SleepBegins
    <3> QED
      BY <2>1, <2>7, <3>2
  <2> QED
    BY <1>6, <2>5, <2>6, <2>7 DEF Poll, n
<1> QED
  BY <1>1, <1>2, <1>3, <1>4, <1>5, <1>6 DEF Next, Reader

\* A window closes as Settled only on a size whose polls fit into it
\* (reader.rs:122-164), whatever the file does and whoever writes to it.
THEOREM OnlyWhatFitsSettles == Spec => []SettlesOnlyIfFits
<1>1. TInv /\ TInv' /\ FitsOK /\ [Next]_vars => FitsOK'
  BY NextFits
<1>2. FitsOK => SettlesOnlyIfFits
  BY DEF FitsOK
<1> QED
  BY <1>1, <1>2, InitFits, InitTInv, NextTInv, PTL DEF Spec

\* With the constants of the code (reader.rs:41-52) the polls of a file fit into
\* the window if and only if it has fewer than 2000 KiB.
LEMMA FittingSizes ==
  ASSUME DEFAULT_SETTLE_BOUND = 2000, BASE_POLL_INTERVAL = 50,
         STABLE_POLLS_REQUIRED = 3, NEW bytes \in Nat
  PROVE  PollsFit(bytes) <=> bytes < 2000 * 1024
<1> DEFINE kb   == bytes \div 1024
           half == kb \div 2
<1>1. kb \in Nat /\ 1024 * kb <= bytes /\ bytes < 1024 * kb + 1024
  OBVIOUS
<1> HIDE DEF kb
<1>2. half \in Nat /\ 2 * half <= kb /\ kb < 2 * half + 2
  BY <1>1
<1> HIDE DEF half
<1>3. poll_interval_for_size(bytes) = IF half < 50 THEN 50 ELSE half
  BY DEF poll_interval_for_size, Larger, half, kb
<1>4. PollsFit(bytes) <=> 2 * half < 2000
  BY <1>2, <1>3 DEF PollsFit
<1> QED
  BY <1>1, <1>2, <1>4

\* In the program as it is configured, a transcript of 2000 KiB or more is never
\* found settled: each read of it waits for the bound and is reported, and logged
\* as "file still growing", whether or not anybody writes to it
\* (reader.rs:122-138).
THEOREM LongTranscriptsWaitForTheBound ==
  ASSUME DEFAULT_SETTLE_BOUND = 2000, BASE_POLL_INTERVAL = 50,
         STABLE_POLLS_REQUIRED = 3
  PROVE  Spec => [](verdict = "settled" => read_offset \in Nat
                                           /\ read_offset < 2000 * 1024)
<1>1. FitsOK =>
        (verdict = "settled" => read_offset \in Nat /\ read_offset < 2000 * 1024)
  BY FittingSizes DEF FitsOK, SettlesOnlyIfFits
<1>2. TInv /\ TInv' /\ FitsOK /\ [Next]_vars => FitsOK'
  BY NextFits
<1> QED
  BY <1>1, <1>2, InitFits, InitTInv, NextTInv, PTL DEF Spec
-------------------------------------------------------------------------------
(***************************************************************************)
(* The probe.  In a file that does not end inside a line, the lines that    *)
(* raise drift are the cells that are wrong, and a settled window reads      *)
(* such a file, all of it.                                                  *)
(***************************************************************************)
LEMMA HasLeast ==
  ASSUME NEW T \in SUBSET Nat, T # {}
  PROVE  \E i \in T : \A j \in T : i <= j
<1> DEFINE R == {ss \in Nat \X Nat : ss[1] < ss[2]}
<1>1. OpToRel(<, Nat) = R
  BY DEF OpToRel
<1>2. IsWellFoundedOn(R, Nat)
  BY <1>1, NatLessThanWellFounded
<1> HIDE DEF R
<1>3. PICK i \in T : \A j \in T : ~ (<<j, i>> \in R)
  BY <1>2, WFMin
<1>4. ASSUME NEW j \in T PROVE i <= j
  <2>1. ~ (j < i)
    BY <1>3, <1>4 DEF R
  <2> QED
    BY <2>1
<1> QED
  BY <1>4

Drifts(bytes) == {i \in LineEnds(bytes) : OutcomeAt(bytes, i) # "ok"}

\* A cell is wrong if and only if it is taken for a line and raises drift.
LEMMA DriftsAreWrong ==
  ASSUME NEW f \in Seq(CellKinds), ~MidLine(f)
  PROVE  Drifts(f) = {i \in DOMAIN f : Wrong(f[i])}
<1>1. SUFFICES ASSUME NEW i \in DOMAIN f
               PROVE  i \in LineEnds(f) /\ OutcomeAt(f, i) # "ok" <=> Wrong(f[i])
  BY <1>1 DEF Drifts, LineEnds
<1>2. f[i] \in LineShape \cup {Part, Blank, Malformed}
  BY ReaderAssumption
<1>3. CASE f[i] \in LineShape
  <2>1. f[i] # Part /\ f[i] # Blank /\ f[i] # Malformed
    BY <1>3, ReaderAssumption
  <2>2. i \in LineEnds(f) /\ OutcomeAt(f, i) = ProbeLine(f[i])
    BY <2>1 DEF LineEnds, OutcomeAt
  <2> QED
    BY <1>3, <2>1, <2>2 DEF ProbeLine, Wrong, RoleBearing
<1>4. CASE f[i] = Malformed
  BY <1>4, ReaderAssumption DEF LineEnds, OutcomeAt, Wrong
<1>5. CASE f[i] = Blank
  BY <1>5, ReaderAssumption DEF LineEnds, Wrong
<1>6. CASE f[i] = Part
  <2>1. i # Len(f)
    BY <1>6 DEF MidLine
  <2> QED
    BY <1>6, <2>1, ReaderAssumption DEF LineEnds, Wrong
<1> QED
  BY <1>2, <1>3, <1>4, <1>5, <1>6

\* aggregate is "ok" if nothing drifts, and otherwise the first drift.
LEMMA AggregateIsFirst ==
  ASSUME NEW f \in Seq(CellKinds)
  PROVE  /\ Aggregate(f) = "ok" <=> Drifts(f) = {}
         /\ \A i \in Drifts(f) :
              (\A j \in Drifts(f) : i <= j) => Aggregate(f) = OutcomeAt(f, i)
<1> DEFINE First(i) == i \in Drifts(f) /\ \A j \in Drifts(f) : i <= j
<1>1. Drifts(f) \in SUBSET Nat
  BY DEF Drifts, LineEnds
<1>2. CASE Drifts(f) = {}
  BY <1>2 DEF Aggregate, Drifts
<1>3. CASE Drifts(f) # {}
  <2> DEFINE first == CHOOSE i \in Drifts(f) : \A j \in Drifts(f) : i <= j
  <2>1. \E i \in Drifts(f) : \A j \in Drifts(f) : i <= j
    BY <1>1, <1>3, HasLeast
  <2>2. first \in Drifts(f) /\ \A j \in Drifts(f) : first <= j
    BY <2>1
  <2>3. Aggregate(f) = OutcomeAt(f, first)
    BY <1>3 DEF Aggregate, Drifts
  <2> HIDE DEF first
  <2>4. OutcomeAt(f, first) # "ok"
    BY <2>2 DEF Drifts
  <2>5. ASSUME NEW i \in Drifts(f), \A j \in Drifts(f) : i <= j PROVE i = first
    BY <1>1, <2>2, <2>5
  <2> QED
    BY <1>3, <2>3, <2>4, <2>5
<1> QED
  BY <1>2, <1>3

ProbedOK ==
  /\ file # Missing /\ ~writing => ~MidLine(file)
  /\ pc = "done" /\ verdict = "settled" => probe = Aggregate(file)

LEMMA InitProbed == Init => ProbedOK
  BY DEF Init, ProbedOK

LEMMA NextProbed ==
  ASSUME TInv, TInv', QuietOK, ProbedOK, AppendOnly, [Next]_vars
  PROVE  ProbedOK'
<1> USE DEF TInv, TypeOK, WindowOK, ProbedOK
<1>1. CASE UNCHANGED vars
  BY <1>1 DEF vars, MidLine
<1>2. CASE \E cell \in CellKinds : Write(cell)
  <2>1. writing /\ UNCHANGED <<writing, pc, verdict>>
    BY <1>2 DEF Write, resultVars
  <2> QED
    BY <2>1 DEF QuietOK
<1>3. CASE EndTurn
  BY <1>3 DEF EndTurn, resultVars, MidLine
<1>4. CASE Truncate \/ Remove
  BY <1>4 DEF Truncate, Remove
<1>5. CASE ReadBytes
  <2>1. /\ pc = "read" /\ file # Missing /\ UNCHANGED <<file, writing, verdict>>
        /\ probe' = Aggregate(Capped(file, read_offset))
    BY <1>5 DEF ReadBytes, writerVars
  <2>2. ASSUME verdict = "settled" PROVE Capped(file, read_offset) = file
    <3>1. file \in Seq(CellKinds) /\ read_offset = Len(file) * CellBytes
      BY <2>1, <2>2 DEF QuietOK, FileSize
    <3>2. Len(file) \in Nat /\ Smaller(Len(file), Len(file)) = Len(file)
      BY <3>1 DEF Smaller
    <3>3. Capped(file, read_offset) = SubSeq(file, 1, Len(file))
      BY <3>1, <3>2, CappedLength
    <3> QED
      BY <3>1, <3>3, SubSeqFull
  <2> QED
    BY <2>1, <2>2 DEF MidLine
<1>6. CASE CheckRegression \/ FileError
  <2>1. UNCHANGED <<file, writing>> /\ (pc' = "done" => verdict' # "settled")
    BY <1>6 DEF CheckRegression, FileError, writerVars
  <2> QED
    BY <2>1 DEF MidLine
<1>7. CASE SettleStart \/ Tick \/ Poll
  <2>1. UNCHANGED <<file, writing>> /\ pc' # "done"
    BY <1>7 DEF SettleStart, Tick, Poll, Close, writerVars
  <2> QED
    BY <2>1 DEF MidLine
<1> QED
  BY <1>1, <1>2, <1>3, <1>4, <1>5, <1>6, <1>7 DEF Next, Reader

\* When the polls outlast a writer's pauses, a settled read raises drift for a line
\* that is wrong in the finished transcript and for nothing else, and names the
\* first such line (probe.rs:67-80, reader.rs:253-295).
THEOREM SettledDriftIsReal == Spec => []DriftIsReal
<1>1. CASE AppendOnly /\ PausesOutlasted
  <2>1. TInv /\ QuietOK /\ ProbedOK => DriftIsReal
    <3> SUFFICES ASSUME TInv, QuietOK, ProbedOK, pc = "done", verdict = "settled"
                 PROVE  LET wrong == {i \in DOMAIN file : Wrong(file[i])}
                        IN  /\ probe = "ok" <=> wrong = {}
                            /\ \A i \in wrong :
                                 (\A j \in wrong : i <= j) => probe = OutcomeAt(file, i)
      BY DEF DriftIsReal
    <3>1. file \in Seq(CellKinds) /\ ~MidLine(file) /\ probe = Aggregate(file)
      BY DEF QuietOK, ProbedOK, TInv, TypeOK
    <3> QED
      BY <3>1, DriftsAreWrong, AggregateIsFirst
  <2>2. TInv /\ TInv' /\ QuietOK /\ [Next]_vars => QuietOK'
    BY <1>1, NextQuiet
  <2>3. TInv /\ TInv' /\ QuietOK /\ ProbedOK /\ [Next]_vars => ProbedOK'
    BY <1>1, NextProbed
  <2> QED
    BY <2>1, <2>2, <2>3, InitQuiet, InitProbed, InitTInv, NextTInv, PTL DEF Spec
<1>2. CASE ~(AppendOnly /\ PausesOutlasted)
  <2>1. DriftIsReal
    BY <1>2 DEF DriftIsReal
  <2> QED
    BY <2>1, PTL
<1> QED
  BY <1>1, <1>2
-------------------------------------------------------------------------------
(***************************************************************************)
(* Progress.  A sleep takes time, and every other step of the reader is one *)
(* of finitely many between two sleeps.                                     *)
(***************************************************************************)
Fresh == pc \in {"check", "start"} => elapsed = 0

LEMMA InitFresh == Init => Fresh
  BY DEF Init, Fresh

LEMMA NextFresh == Fresh /\ [Next]_vars => Fresh'
<1> SUFFICES ASSUME Fresh, [Next]_vars PROVE Fresh'
  OBVIOUS
<1> USE DEF Fresh
<1>1. CASE UNCHANGED vars
  BY <1>1 DEF vars
<1>2. CASE (\E cell \in CellKinds : Write(cell)) \/ EndTurn \/ Truncate \/ Remove
  BY <1>2 DEF Write, EndTurn, Truncate, Remove, settleVars
<1>3. CASE CheckRegression
  BY <1>3 DEF CheckRegression, settleVars
<1>4. CASE SettleStart \/ Tick \/ Poll \/ ReadBytes \/ FileError
  <2>1. pc' \notin {"check", "start"}
    BY <1>4 DEF SettleStart, Tick, Poll, Close, ReadBytes, FileError
  <2> QED
    BY <2>1
<1> QED
  BY <1>1, <1>2, <1>3, <1>4 DEF Next, Reader

LEMMA StageType ==
  ASSUME TypeOK
  PROVE  Stage \in 0..5
  BY DEF TypeOK, Stage

LEMMA ReaderAdvances ==
  ASSUME TInv, TInv', Fresh, Reader
  PROVE  WorkLeft' < WorkLeft
<1> DEFINE before == Stage
           after  == Stage'
<1>1. /\ elapsed \in Nat /\ elapsed' \in Nat /\ before \in 0..5 /\ after \in 0..5
      /\ elapsed <= DEFAULT_SETTLE_BOUND /\ elapsed' <= DEFAULT_SETTLE_BOUND
  <2>1. before \in 0..5
    BY StageType DEF TInv
  <2>2. after \in 0..5
    BY DEF TInv, TypeOK, Stage
  <2>3. /\ elapsed \in Nat /\ left \in Nat /\ elapsed + left <= DEFAULT_SETTLE_BOUND
        /\ elapsed' \in Nat /\ left' \in Nat
        /\ elapsed' + left' <= DEFAULT_SETTLE_BOUND
    BY DEF TInv, TypeOK, WindowOK
  <2>4. elapsed <= DEFAULT_SETTLE_BOUND
    BY <2>3, ConstantTypes
  <2>5. elapsed' <= DEFAULT_SETTLE_BOUND
    <3>1. \A e, l, b \in Nat : e + l <= b => e <= b
      OBVIOUS
    <3>2. /\ elapsed' \in Nat /\ left' \in Nat /\ DEFAULT_SETTLE_BOUND \in Nat
          /\ elapsed' + left' <= DEFAULT_SETTLE_BOUND
      BY <2>3, ConstantTypes
    <3> QED
      BY ONLY <3>1, <3>2
  <2> QED
    BY <2>1, <2>2, <2>3, <2>4, <2>5
<1>2. /\ WorkLeft = 4 * (DEFAULT_SETTLE_BOUND - elapsed) + before
      /\ WorkLeft' = 4 * (DEFAULT_SETTLE_BOUND - elapsed') + after
  BY DEF WorkLeft
<1>3. CASE Tick
  <2> DEFINE d == Smaller(Unit, left)
  <2>1. left \in Nat /\ left > 0
    BY <1>3 DEF Tick, TInv, TypeOK, WindowOK
  <2>2. d \in Nat /\ d > 0
    BY <2>1, ConstantTypes DEF Smaller
  <2>3. elapsed' = elapsed + d /\ pc = "sleep" /\ pc' \in {"sleep", "poll"}
    BY <1>3 DEF Tick
  <2> HIDE DEF d
  <2>4. before = 2 /\ after <= 3
    BY <2>3 DEF Stage
  <2> HIDE DEF before, after
  <2> QED
    BY <1>1, <1>2, <2>2, <2>3, <2>4, ConstantTypes
<1>4. CASE CheckRegression \/ SettleStart \/ Poll \/ ReadBytes \/ FileError
  <2>1. elapsed' = elapsed
    BY <1>4 DEF CheckRegression, SettleStart, Poll, ReadBytes, FileError, settleVars, Fresh
  <2>2. \/ pc = "check" /\ pc' \in {"start", "done"}
        \/ pc = "start" /\ pc' \in {"sleep", "read", "done"}
        \/ pc = "poll" /\ pc' \in {"sleep", "read", "done"}
        \/ pc = "read" /\ pc' = "done"
    BY <1>4 DEF CheckRegression, SettleStart, Poll, Close, ReadBytes, FileError, FileOps
  <2>3. after < before
    BY <2>2 DEF Stage
  <2> HIDE DEF before, after
  <2> QED
    BY <1>1, <1>2, <2>1, <2>3, ConstantTypes
<1> QED
  BY <1>3, <1>4 DEF Reader

\* Every step of the reader leaves it less to do, and nothing that is done to the
\* file gives it more (reader.rs:102-103, 122-164): whatever the file does, a call
\* takes at most 4 * DEFAULT_SETTLE_BOUND + 5 steps.
THEOREM CallsAdvance == Spec => CallsOnlyAdvance
<1>1. TInv /\ TInv' /\ Fresh /\ [Next]_vars =>
        [WorkLeft' <= WorkLeft /\ (Reader => WorkLeft' < WorkLeft)]_vars
  <2> SUFFICES ASSUME TInv, TInv', Fresh, Next
               PROVE  WorkLeft' <= WorkLeft /\ (Reader => WorkLeft' < WorkLeft)
    OBVIOUS
  <2>1. WorkLeft \in Int /\ WorkLeft' \in Int
    <3>1. elapsed \in Nat /\ Stage \in 0..5
      BY StageType DEF TInv, TypeOK
    <3>2. elapsed' \in Nat /\ Stage' \in 0..5
      BY DEF TInv, TypeOK, Stage
    <3> QED
      BY <3>1, <3>2, ConstantTypes DEF WorkLeft
  <2>2. CASE Reader
    BY <2>1, <2>2, ReaderAdvances
  <2>3. CASE (\E cell \in CellKinds : Write(cell)) \/ EndTurn \/ Truncate \/ Remove
    <3>1. pc' = pc /\ elapsed' = elapsed
      BY <2>3 DEF Write, EndTurn, Truncate, Remove, settleVars
    <3>2. WorkLeft' = WorkLeft
      BY <3>1 DEF WorkLeft, Stage
    <3>3. ASSUME Reader PROVE WorkLeft' < WorkLeft
      BY <3>3, ReaderAdvances
    <3> QED
      BY <2>1, <3>2, <3>3
  <2> QED
    BY <2>2, <2>3 DEF Next
<1> QED
  BY <1>1, InitFresh, NextFresh, InitTInv, NextTInv, PTL DEF Spec, CallsOnlyAdvance
===============================================================================
