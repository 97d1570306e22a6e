----------------------------- MODULE DaemonProofs -----------------------------
(***************************************************************************)
(* Proofs about Daemon, for any sets of sessions, ids, paths, connections   *)
(* and envelopes and any bounds.                                            *)
(***************************************************************************)
EXTENDS Daemon, TLAPS

(***************************************************************************)
(* What a handler knows where it is: its envelope, once decoded, is one a   *)
(* peer may send, only an event with an id is read, and only with a path,   *)
(* and its outcome goes with how far it has come.                           *)
(***************************************************************************)
HandlerOK ==
  \A c \in Conn :
    /\ pc[c] \in {"record", "fetch", "check", "settle", "bytes", "store"}
         => ev[c] \in Frame
    /\ pc[c] \in {"fetch", "check", "settle", "bytes", "store"}
         => ev[c].session \in SessionId /\ ev[c].id \in EventId
    /\ pc[c] \in {"check", "settle", "bytes", "store"} => ev[c].path \in Path
    /\ pc[c] = "check" => prior[c] \in Nat
    /\ pc[c] \in {"bytes", "store"} => offset[c] \in Nat
    /\ pc[c] \in {"idle", "frame", "record"} => outcome[c] = "none"
    /\ pc[c] \in {"fetch", "check", "settle", "bytes"} => outcome[c] = "new"
    /\ pc[c] = "store" => outcome[c] \in {"truncated", "drift", "settled"}
    /\ pc[c] \in {"mark", "mark_write"} => outcome[c] \in Degrading
    /\ pc[c] = "mark_write" => marker # None
    /\ pc[c] \notin Dead => Running

TInv == TypeOK /\ HandlerOK

LEMMA StateOfType ==
  ASSUME NEW m, IsSessionMap(m), NEW sid
  PROVE  StateOf(m, sid) \in SessionState
BY SessionManagerAssumption DEF IsSessionMap, StateOf, DefaultState, SessionState

LEMMA PutType ==
  ASSUME NEW m, IsSessionMap(m), NEW sid \in SessionId,
         NEW st \in SessionState
  PROVE  IsSessionMap(Put(m, sid, st))
BY DEF IsSessionMap, Put

LEMMA RecordedType ==
  ASSUME NEW st \in SessionState, NEW id \in EventId,
         NEW path \in Path \cup {EmptyPath, None}
  PROVE  Recorded(st, id, path) \in SessionState
<1>1. st.receipt_seq \in 0..U64Max /\ U64Max \in Nat
  BY SessionManagerAssumption DEF SessionState
<1>2. SaturatingInc(st.receipt_seq) \in 0..U64Max
  BY <1>1 DEF SaturatingInc
<1>3. (IF path # None THEN path ELSE st.transcript_path)
        \in Path \cup {EmptyPath, None}
  BY DEF SessionState
<1> QED
  BY <1>2, <1>3 DEF Recorded, SessionState

LEMMA RecordDedupType ==
  ASSUME NEW m, IsSessionMap(m), NEW sid \in SessionId, NEW id \in EventId,
         NEW path \in Path \cup {EmptyPath, None}
  PROVE  IsSessionMap(RecordDedup(m, sid, id, path))
<1>1. StateOf(m, sid) \in SessionState
  BY StateOfType
<1>2. Recorded(StateOf(m, sid), id, path) \in SessionState
  BY <1>1, RecordedType
<1> QED
  BY <1>1, <1>2, PutType DEF RecordDedup

LEMMA TouchType ==
  ASSUME NEW m, IsSessionMap(m), NEW sid \in SessionId \cup {None}
  PROVE  IsSessionMap(Touch(m, sid))
BY StateOfType, PutType DEF Touch

LEMMA StoreType ==
  ASSUME NEW m, IsSessionMap(m), NEW sid, NEW n \in Nat
  PROVE  IsSessionMap(StoreReadOffset(m, sid, n))
BY DEF IsSessionMap, StoreReadOffset, SessionState
-------------------------------------------------------------------------------
(***************************************************************************)
(* Type correctness.                                                        *)
(***************************************************************************)
LEMMA InitTInv == Init => TInv
BY SessionManagerAssumption, DaemonAssumption
   DEF Init, TInv, TypeOK, HandlerOK, IsSessionMap, PC, Outcome, Dead

LEMMA ProcessTInv ==
  ASSUME TInv, Start \/ BindFails \/ Signal \/ Exit \/ Crash
  PROVE  TInv'
<1> USE DEF TInv, TypeOK, HandlerOK, PC, Outcome, Dead, Running, localVars, stateVars,
            markVars, serverVars
<1>1. CASE Start
  BY <1>1, SessionManagerAssumption
     DEF Start, ClearDegraded, Closed, IsSessionMap
<1>2. CASE BindFails
  <2>1. marker' = None \/ marker' = marker
    BY <1>2 DEF BindFails, ClearDegraded
  <2> QED
    BY <1>2, <2>1 DEF BindFails
<1>3. CASE Signal
  BY <1>3 DEF Signal
<1>4. CASE Exit
  BY <1>4 DEF Exit, CutOff
<1>5. CASE Crash
  BY <1>5 DEF Crash, CutOff
<1> QED
  BY <1>1, <1>2, <1>3, <1>4, <1>5

LEMMA WriterTInv ==
  ASSUME TInv, NEW p \in Path, Grow(p) \/ Shrink(p) \/ Remove(p)
  PROVE  TInv'
<1>1. size' \in [Path -> Nat \cup {None}]
  <2>1. CASE Grow(p)
    BY <2>1, DaemonAssumption DEF TInv, TypeOK, Grow
  <2>2. CASE Shrink(p)
    BY <2>2, DaemonAssumption DEF TInv, TypeOK, Shrink
  <2>3. CASE Remove(p)
    BY <2>3 DEF TInv, TypeOK, Remove
  <2> QED
    BY <2>1, <2>2, <2>3
<1>2. UNCHANGED <<serverVars, stateVars, pc, localVars, markVars>>
  BY DEF Grow, Shrink, Remove
<1> QED
  BY <1>1, <1>2 DEF TInv, TypeOK, HandlerOK, Running, serverVars, stateVars, localVars,
                    markVars

LEMMA HandlerTInv ==
  ASSUME TInv, NEW c \in Conn, Accept(c) \/ Handler(c)
  PROVE  TInv'
<1> USE DEF TInv, TypeOK, HandlerOK, PC, Outcome, Dead, Running, localVars, stateVars,
            markVars, serverVars, At
<1>1. CASE Accept(c)
  BY <1>1 DEF Accept
<1>2. CASE ReadFrame(c)
  <2>1. PICK f \in Frame :
          IF f.schema_version = WireVersion
          THEN ev' = [ev EXCEPT ![c] = f] /\ pc' = [pc EXCEPT ![c] = "record"]
               /\ UNCHANGED outcome
          ELSE /\ outcome' = [outcome EXCEPT ![c] = "dropped"]
               /\ pc' = [pc EXCEPT ![c] = "done"] /\ UNCHANGED ev
    BY <1>2 DEF ReadFrame
  <2>2. f \in WireEvent
    BY DaemonAssumption
  <2>3. UNCHANGED <<serverVars, stateVars, prior, offset, markVars, size>>
        /\ pc[c] = "frame" /\ Running
    BY <1>2 DEF ReadFrame
  <2>4. CASE f.schema_version = WireVersion
    <3>1. ev' = [ev EXCEPT ![c] = f] /\ pc' = [pc EXCEPT ![c] = "record"]
          /\ UNCHANGED outcome
      BY <2>1, <2>4
    <3>2. TypeOK'
      BY <2>2, <2>3, <3>1
    <3>3. HandlerOK'
      BY <2>3, <3>1
    <3> QED
      BY <3>2, <3>3
  <2>5. CASE f.schema_version # WireVersion
    <3>1. outcome' = [outcome EXCEPT ![c] = "dropped"] /\ UNCHANGED ev
          /\ pc' = [pc EXCEPT ![c] = "done"]
      BY <2>1, <2>5
    <3>2. TypeOK'
      BY <2>3, <3>1
    <3>3. HandlerOK'
      BY <2>3, <3>1
    <3> QED
      BY <3>2, <3>3
  <2> QED
    BY <2>4, <2>5
<1>3. CASE FrameFails(c)
  BY <1>3 DEF FrameFails
<1>4. CASE Record(c)
  <2> DEFINE e == ev[c]
  <2>1. /\ pc[c] = "record" /\ e \in Frame /\ e.kind # "hook_degraded"
        /\ e.session \in SessionId /\ e.id \in EventId
        /\ e.path \in Path \cup {EmptyPath, None}
    BY <1>4, DaemonAssumption DEF Record, WireEvent
  <2>2. IsSessionMap(sessions')
    BY <1>4, <2>1, RecordDedupType DEF Record
  <2>3. log' \in [SessionId -> Seq(EventId)]
    BY <1>4, <2>1 DEF Record
  <2>4. TypeOK'
    BY <1>4, <2>2, <2>3 DEF Record, AfterNew
  <2>5. HandlerOK'
    BY <1>4, <2>1 DEF Record, AfterNew, Reading, Degrading
  <2> QED
    BY <2>4, <2>5
<1>5. CASE RecordDegraded(c)
  <2>1. ev[c].session \in SessionId \cup {None}
    BY <1>5, DaemonAssumption DEF RecordDegraded, WireEvent
  <2>2. IsSessionMap(sessions')
    BY <1>5, <2>1, TouchType DEF RecordDegraded
  <2> QED
    BY <1>5, <2>2 DEF RecordDegraded, Degrading
<1>6. CASE FetchOffset(c)
  <2> DEFINE o == StateOf(sessions, ev[c].session).last_read_offset
             q == AfterFetch(ev[c], o)
  <2>1. o \in Nat \cup {None}
    BY StateOfType DEF SessionState
  <2>2. /\ pc[c] = "fetch" /\ Running
        /\ prior' = [prior EXCEPT ![c] = o]
        /\ pc' = [pc EXCEPT ![c] = q]
        /\ UNCHANGED <<serverVars, stateVars, ev, offset, outcome, markVars,
                       size>>
    BY <1>6 DEF FetchOffset
  <2> HIDE DEF o
  <2>3. TypeOK'
    BY <2>1, <2>2 DEF AfterFetch
  <2>4. HandlerOK'
    BY <2>1, <2>2 DEF AfterFetch
  <2> QED
    BY <2>3, <2>4
<1>7. CASE ReadFails(c)
  <2>1. TypeOK'
    BY <1>7 DEF ReadFails, Degrading
  <2>2. HandlerOK'
    BY <1>7 DEF ReadFails, Degrading
  <2> QED
    BY <2>1, <2>2
<1>8. CASE CheckTruncated(c)
  <2>1. TypeOK'
    BY <1>8 DEF CheckTruncated, Degrading
  <2>2. HandlerOK'
    BY <1>8 DEF CheckTruncated, Degrading
  <2> QED
    BY <2>1, <2>2
<1>9. CASE Settle(c)
  BY <1>9 DEF Settle
<1>10. CASE ReadBytes(c)
  BY <1>10 DEF ReadBytes, Degrading
<1>11. CASE StoreOffset(c)
  <2>1. IsSessionMap(sessions')
    BY <1>11, StoreType DEF StoreOffset
  <2> QED
    BY <1>11, <2>1 DEF StoreOffset, NeedsMark, Degrading
<1>12. CASE MarkOpen(c)
  BY <1>12, DaemonAssumption DEF MarkOpen, Degrading
<1>13. CASE MarkWrite(c)
  <2>1. marker # None /\ outcome[c] \in Degrading /\ pc[c] = "mark_write"
    BY <1>13 DEF MarkWrite
  <2>2. marker' \in SUBSET Degrading
    BY <1>13, <2>1 DEF MarkWrite
  <2>3. marker' # None
    BY <2>2, DaemonAssumption
  <2>4. holder' \in Conn \cup {None}
    BY <1>13 DEF MarkWrite, Release
  <2> QED
    BY <1>13, <2>2, <2>3, <2>4 DEF MarkWrite
<1>14. CASE MarkFails(c)
  BY <1>14, DaemonAssumption DEF MarkFails, Release
<1> QED
  BY <1>1, <1>2, <1>3, <1>4, <1>5, <1>6, <1>7, <1>8, <1>9, <1>10, <1>11,
     <1>12, <1>13, <1>14 DEF Handler, Marking

LEMMA NextTInv == TInv /\ [Next]_vars => TInv'
<1> SUFFICES ASSUME TInv, [Next]_vars PROVE TInv'
  OBVIOUS
<1>1. CASE UNCHANGED vars
  BY <1>1 DEF vars, TInv, TypeOK, HandlerOK, Running
<1>2. CASE Start \/ BindFails \/ Signal \/ Exit \/ Crash
  BY <1>2, ProcessTInv
<1>3. ASSUME NEW c \in Conn, Accept(c) \/ Handler(c) PROVE TInv'
  BY <1>3, HandlerTInv
<1>4. ASSUME NEW p \in Path, Grow(p) \/ Shrink(p) \/ Remove(p) PROVE TInv'
  BY <1>4, WriterTInv
<1> QED
  BY <1>1, <1>2, <1>3, <1>4 DEF Next

LEMMA AlwaysTInv == Spec => []TInv
<1> QED
  BY InitTInv, NextTInv, PTL DEF Spec

\* Every variable keeps its type (session.rs:38-51, connection.rs:49-199).
THEOREM TypeCorrect == Spec => []TypeOK
<1>1. TInv => TypeOK
  BY DEF TInv
<1> QED
  BY AlwaysTInv, <1>1, PTL
-------------------------------------------------------------------------------
(***************************************************************************)
(* Deduplication and the receipt counter.                                   *)
(***************************************************************************)
\* A session's entry after entry(sid).or_default() and an assignment to it.
LEMMA StateOfPut ==
  ASSUME NEW m, NEW sid, NEW st, NEW s
  PROVE  StateOf(Put(m, sid, st), s) = IF s = sid THEN st ELSE StateOf(m, s)
BY DEF StateOf, Put

\* Touching a session changes no session's state.
LEMMA StateOfTouch ==
  ASSUME NEW m, NEW sid, NEW s
  PROVE  StateOf(Touch(m, sid), s) = StateOf(m, s)
BY StateOfPut DEF Touch

\* Storing an offset changes neither the dedup key nor the counter.
LEMMA StateOfStore ==
  ASSUME NEW m, IsSessionMap(m), NEW sid, NEW n, NEW s
  PROVE  LET st == StateOf(StoreReadOffset(m, sid, n), s)
         IN  /\ st.last_event_id = StateOf(m, s).last_event_id
             /\ st.receipt_seq = StateOf(m, s).receipt_seq
BY DEF StateOf, StoreReadOffset, IsSessionMap, SessionState

\* A session's books do not depend on how its state is laid out in the map.
LEMMA BooksKept ==
  ASSUME TInv, BooksMatchLog, NoImmediateRepeat, UNCHANGED log,
         \A s \in SessionId :
           /\ StateOf(sessions', s).last_event_id
                = StateOf(sessions, s).last_event_id
           /\ StateOf(sessions', s).receipt_seq
                = StateOf(sessions, s).receipt_seq
  PROVE  BooksMatchLog' /\ NoImmediateRepeat'
BY DEF BooksMatchLog, NoImmediateRepeat

BInv == TInv /\ BooksMatchLog /\ NoImmediateRepeat

LEMMA InitBInv == Init => BooksMatchLog /\ NoImmediateRepeat
BY SessionManagerAssumption
   DEF Init, BooksMatchLog, NoImmediateRepeat, StateOf, DefaultState, Smaller

\* The one step that adds to a session's books: record_dedup.
LEMMA RecordBooks ==
  ASSUME BInv, NEW c \in Conn, Record(c)
  PROVE  BooksMatchLog' /\ NoImmediateRepeat'
<1> DEFINE e  == ev[c]
           st == StateOf(sessions, e.session)
           n  == Len(log[e.session])
<1>1. /\ e.kind # "hook_degraded" /\ e \in Frame
      /\ e.session \in SessionId /\ e.id \in EventId
      /\ e.path \in Path \cup {EmptyPath, None}
  BY DaemonAssumption DEF BInv, TInv, HandlerOK, Record, At, WireEvent
<1>2. /\ sessions' = RecordDedup(sessions, e.session, e.id, e.path)
      /\ log' = [log EXCEPT ![e.session] =
                   IF IsDuplicate(st, e.id) THEN @ ELSE Append(@, e.id)]
  BY DEF Record
<1>3. st \in SessionState /\ IsSessionMap(sessions)
  BY StateOfType DEF BInv, TInv, TypeOK
<1>4. log \in [SessionId -> Seq(EventId)] /\ n \in Nat
  BY <1>1 DEF BInv, TInv, TypeOK
<1>5. CASE IsDuplicate(st, e.id)
  <2>1. \A s \in SessionId : StateOf(sessions', s) = StateOf(sessions, s)
    BY <1>2, <1>5, StateOfPut DEF RecordDedup
  <2>2. log' = log
    BY <1>1, <1>2, <1>4, <1>5
  <2> QED
    BY <2>1, <2>2, BooksKept DEF BInv
<1>6. CASE ~IsDuplicate(st, e.id)
  <2> DEFINE new == Recorded(st, e.id, e.path)
  <2>1. /\ new.last_event_id = e.id
        /\ new.receipt_seq = SaturatingInc(st.receipt_seq)
    BY <1>3 DEF Recorded, SessionState
  <2>2. \A s \in SessionId :
          StateOf(sessions', s) = IF s = e.session THEN new
                                  ELSE StateOf(sessions, s)
    BY <1>2, <1>6, StateOfPut DEF RecordDedup
  <2>3. /\ st.receipt_seq = Smaller(n, U64Max)
        /\ st.last_event_id = IF n = 0 THEN None ELSE log[e.session][n]
    BY <1>1 DEF BInv, BooksMatchLog
  <2>4. /\ log'[e.session] = Append(log[e.session], e.id)
        /\ \A s \in SessionId \ {e.session} : log'[s] = log[s]
    BY <1>1, <1>2, <1>4, <1>6
  <2>5. /\ Len(log'[e.session]) = n + 1
        /\ log'[e.session][n + 1] = e.id
        /\ \A i \in 1..n : log'[e.session][i] = log[e.session][i]
    BY <1>1, <1>4, <2>4
  <2>6. SaturatingInc(Smaller(n, U64Max)) = Smaller(n + 1, U64Max)
    BY <1>4, SessionManagerAssumption DEF SaturatingInc, Smaller
  <2> HIDE DEF new, st, n
  <2>7. BooksMatchLog'
    BY <1>4, <2>1, <2>2, <2>3, <2>4, <2>5, <2>6 DEF BInv, BooksMatchLog
  <2>8. n > 0 => log[e.session][n] # e.id
    BY <1>6, <2>3 DEF IsDuplicate
  <2>9. NoImmediateRepeat'
    <3> SUFFICES ASSUME NEW s \in SessionId, NEW i \in 1..(Len(log'[s]) - 1)
                 PROVE  log'[s][i] # log'[s][i + 1]
      BY DEF NoImmediateRepeat
    <3>1. CASE s # e.session
      BY <2>4, <3>1 DEF BInv, NoImmediateRepeat
    <3>2. CASE s = e.session /\ i = n
      BY <1>4, <2>5, <2>8, <3>2
    <3>3. CASE s = e.session /\ i # n
      <4>1. i \in 1..(n - 1) /\ i \in 1..n /\ i + 1 \in 1..n
        BY <1>4, <2>5, <3>3
      <4>2. log[s][i] # log[s][i + 1]
        BY <3>3, <4>1 DEF BInv, NoImmediateRepeat, n
      <4> QED
        BY <2>5, <3>3, <4>1, <4>2
    <3> QED
      BY <3>1, <3>2, <3>3
  <2> QED
    BY <2>7, <2>9
<1> QED
  BY <1>5, <1>6

LEMMA NextBInv == BInv /\ [Next]_vars => BInv'
<1> SUFFICES ASSUME BInv, [Next]_vars PROVE BooksMatchLog' /\ NoImmediateRepeat'
  BY NextTInv DEF BInv
<1> USE DEF BInv
<1>1. CASE UNCHANGED <<sessions, log>>
  BY <1>1, BooksKept
<1>2. CASE Start
  BY <1>2, SessionManagerAssumption
     DEF Start, BooksMatchLog, NoImmediateRepeat, StateOf, DefaultState, Smaller
<1>3. ASSUME NEW c \in Conn, Record(c) PROVE BooksMatchLog' /\ NoImmediateRepeat'
  BY <1>3, RecordBooks
<1>4. ASSUME NEW c \in Conn, RecordDegraded(c)
      PROVE  BooksMatchLog' /\ NoImmediateRepeat'
  BY <1>4, StateOfTouch, BooksKept DEF RecordDegraded
<1>5. ASSUME NEW c \in Conn, StoreOffset(c)
      PROVE  BooksMatchLog' /\ NoImmediateRepeat'
  <2>1. \A s \in SessionId :
          /\ StateOf(sessions', s).last_event_id
               = StateOf(sessions, s).last_event_id
          /\ StateOf(sessions', s).receipt_seq = StateOf(sessions, s).receipt_seq
    BY <1>5, StateOfStore DEF StoreOffset, TInv, TypeOK
  <2> QED
    BY <1>5, <2>1, BooksKept DEF StoreOffset
<1>6. \/ UNCHANGED <<sessions, log>>
      \/ Start
      \/ \E c \in Conn : Record(c) \/ RecordDegraded(c) \/ StoreOffset(c)
  BY DEF Next, vars, BindFails, Signal, Exit, Crash, Accept, Handler, ReadFrame,
         FrameFails, FetchOffset, ReadFails, CheckTruncated, Settle, ReadBytes,
         Marking, MarkOpen, MarkWrite, MarkFails, Grow, Shrink, Remove, stateVars
<1> QED
  BY <1>1, <1>2, <1>3, <1>4, <1>5, <1>6

LEMMA AlwaysBInv == Spec => []BInv
<1>1. Init => BInv
  BY InitTInv, InitBInv DEF BInv
<1> QED
  BY <1>1, NextBInv, PTL DEF Spec

\* The books agree with what was processed, for any number of sessions and any
\* interleaving of their connections (session.rs:169-193).
THEOREM BooksCorrect == Spec => []BooksMatchLog
<1>1. BInv => BooksMatchLog
  BY DEF BInv
<1> QED
  BY AlwaysBInv, <1>1, PTL

\* An event delivered twice in a row is processed once (session.rs:169-193).
THEOREM NoEventTwiceInARow == Spec => []NoImmediateRepeat
<1>1. BInv => NoImmediateRepeat
  BY DEF BInv
<1> QED
  BY AlwaysBInv, <1>1, PTL
-------------------------------------------------------------------------------
(***************************************************************************)
(* A Duplicate stands for an event that was processed.                      *)
(***************************************************************************)
\* The dedup key of a session is the id of a connection found New in this life.
KeyHasOwner ==
  \A s \in SessionId :
    LET key == StateOf(sessions, s).last_event_id
    IN  key # None => \E d \in NewFor(s) : ev[d].id = key

DInv == TInv /\ KeyHasOwner /\ DuplicateWasProcessed

\* Until the process ends, a connection found New stays so, and so does its
\* envelope.
LEMMA NewForGrows ==
  ASSUME TInv, [Next]_vars, ~Start, NEW s, NEW d \in NewFor(s)
  PROVE  d \in NewFor(s)' /\ ev'[d] = ev[d]
<1> USE DEF NewFor, TInv, TypeOK, HandlerOK, At, localVars, stateVars,
            serverVars, markVars
<1>1. CASE UNCHANGED <<pc, ev, outcome>>
  BY <1>1
<1>2. CASE Exit \/ Crash
  BY <1>2 DEF Exit, Crash, CutOff
<1>3. ASSUME NEW c \in Conn, Accept(c) \/ Handler(c)
      PROVE  d \in NewFor(s)' /\ ev'[d] = ev[d]
  <2>1. CASE Accept(c)
    BY <2>1 DEF Accept
  <2>2. CASE ReadFrame(c) \/ FrameFails(c)
    BY <2>2 DEF ReadFrame, FrameFails
  <2>3. CASE Record(c) \/ RecordDegraded(c)
    BY <2>3 DEF Record, RecordDegraded, AfterNew
  <2>4. CASE FetchOffset(c) \/ ReadFails(c) \/ CheckTruncated(c)
    BY <2>4 DEF FetchOffset, AfterFetch, ReadFails, CheckTruncated
  <2>5. CASE Settle(c) \/ ReadBytes(c) \/ StoreOffset(c)
    BY <2>5 DEF Settle, ReadBytes, StoreOffset
  <2>6. CASE Marking(c)
    BY <2>6 DEF Marking, MarkOpen, MarkWrite, MarkFails
  <2> QED
    BY <1>3, <2>1, <2>2, <2>3, <2>4, <2>5, <2>6 DEF Handler
<1> QED
  BY <1>1, <1>2, <1>3
     DEF Next, vars, BindFails, Signal, Grow, Shrink, Remove

LEMMA RecordKeepsOwner ==
  ASSUME DInv, NEW c \in Conn, Record(c), [Next]_vars, ~Start
  PROVE  KeyHasOwner' /\ DuplicateWasProcessed'
<1> DEFINE e  == ev[c]
           st == StateOf(sessions, e.session)
<1>1. /\ pc[c] = "record" /\ outcome[c] = "none"
      /\ e.session \in SessionId /\ e.id \in EventId
      /\ e.path \in Path \cup {EmptyPath, None}
  BY DaemonAssumption DEF DInv, TInv, HandlerOK, Record, At, WireEvent
<1>2. /\ sessions' = RecordDedup(sessions, e.session, e.id, e.path)
      /\ outcome' = [outcome EXCEPT ![c] =
                       IF IsDuplicate(st, e.id) THEN "duplicate" ELSE "new"]
      /\ pc'[c] # "gone" /\ ev' = ev
      /\ \A d \in Conn : d # c => pc'[d] = pc[d]
  BY DEF Record, AfterNew, DInv, TInv, TypeOK
<1>3. st \in SessionState
  BY StateOfType DEF DInv, TInv, TypeOK
<1>4. \A s : \A d \in NewFor(s) : d \in NewFor(s)' /\ ev'[d] = ev[d]
  BY NewForGrows DEF DInv
<1>5. CASE IsDuplicate(st, e.id)
  <2>1. \A s \in SessionId : StateOf(sessions', s) = StateOf(sessions, s)
    BY <1>2, <1>5, StateOfPut DEF RecordDedup
  <2>2. KeyHasOwner'
    BY <1>4, <2>1 DEF DInv, KeyHasOwner
  <2>3. \E d \in NewFor(e.session) : ev[d].id = e.id
    BY <1>1, <1>5, SessionManagerAssumption DEF DInv, KeyHasOwner, IsDuplicate
  <2>4. DuplicateWasProcessed'
    <3> SUFFICES ASSUME NEW b \in Conn, outcome'[b] = "duplicate",
                        pc'[b] # "gone"
                 PROVE  (\E d \in NewFor(ev[b].session) : ev[d].id = ev[b].id)'
      BY DEF DuplicateWasProcessed
    <3>1. CASE b = c
      <4>1. PICK s : s = e.session
        OBVIOUS
      <4>2. PICK d \in NewFor(s) : ev[d].id = e.id
        BY <2>3, <4>1
      <4>3. d \in NewFor(s)' /\ ev'[d] = ev[d]
        BY <1>4, <4>2
      <4> QED
        BY <1>2, <3>1, <4>1, <4>2, <4>3 DEF NewFor
    <3>2. CASE b # c
      <4>1. outcome[b] = "duplicate" /\ pc[b] # "gone"
        BY <1>2, <3>2 DEF DInv, TInv, TypeOK
      <4>2. PICK s : s = ev[b].session
        OBVIOUS
      <4>3. PICK d \in NewFor(s) : ev[d].id = ev[b].id
        BY <4>1, <4>2 DEF DInv, DuplicateWasProcessed
      <4>4. d \in NewFor(s)' /\ ev'[d] = ev[d]
        BY <1>4, <4>3
      <4> QED
        BY <1>2, <4>2, <4>3, <4>4 DEF NewFor
    <3> QED
      BY <3>1, <3>2
  <2> QED
    BY <2>2, <2>4
<1>6. CASE ~IsDuplicate(st, e.id)
  <2>1. \A s \in SessionId :
          StateOf(sessions', s).last_event_id =
            IF s = e.session THEN e.id ELSE StateOf(sessions, s).last_event_id
    <3>1. Recorded(st, e.id, e.path).last_event_id = e.id
      BY <1>3 DEF Recorded, SessionState
    <3> QED
      BY <1>2, <1>6, <3>1, StateOfPut DEF RecordDedup
  <2>2. c \in NewFor(e.session)'
    BY <1>2, <1>6 DEF NewFor, DInv, TInv, TypeOK
  <2>3. KeyHasOwner'
    BY <1>2, <1>4, <2>1, <2>2 DEF DInv, KeyHasOwner
  <2>4. DuplicateWasProcessed'
    BY <1>2, <1>4, <1>6 DEF DInv, DuplicateWasProcessed, TInv, TypeOK
  <2> QED
    BY <2>3, <2>4
<1> QED
  BY <1>5, <1>6

LEMMA NextDInv == DInv /\ [Next]_vars => DInv'
<1> SUFFICES ASSUME DInv, [Next]_vars
             PROVE  KeyHasOwner' /\ DuplicateWasProcessed'
  BY NextTInv DEF DInv
<1>1. CASE Start
  BY <1>1 DEF Start, Closed, KeyHasOwner, DuplicateWasProcessed, StateOf,
              DefaultState, localVars, DInv, TInv, TypeOK, HandlerOK
<1>2. ASSUME ~Start, NEW c \in Conn, Record(c)
      PROVE  KeyHasOwner' /\ DuplicateWasProcessed'
  BY <1>2, RecordKeepsOwner
<1>3. ASSUME ~Start, ~\E c \in Conn : Record(c)
      PROVE  KeyHasOwner' /\ DuplicateWasProcessed'
  <2>1. \A s : \A d \in NewFor(s) : d \in NewFor(s)' /\ ev'[d] = ev[d]
    BY <1>3, NewForGrows DEF DInv
  <2>2. \A s \in SessionId : StateOf(sessions', s).last_event_id
                               = StateOf(sessions, s).last_event_id
    <3>1. CASE UNCHANGED sessions
      BY <3>1
    <3>2. CASE \E c \in Conn : RecordDegraded(c)
      BY <3>2, StateOfTouch DEF RecordDegraded
    <3>3. CASE \E c \in Conn : StoreOffset(c)
      BY <3>3, StateOfStore DEF StoreOffset, DInv, TInv, TypeOK
    <3> QED
      BY <1>3, <3>1, <3>2, <3>3
         DEF Next, vars, BindFails, Signal, Exit, Crash, Accept, Handler,
             ReadFrame, FrameFails, FetchOffset, ReadFails, CheckTruncated,
             Settle, ReadBytes, Marking, MarkOpen, MarkWrite, MarkFails, Grow,
             Shrink, Remove, stateVars
  <2>3. KeyHasOwner'
    BY <2>1, <2>2 DEF DInv, KeyHasOwner
  <2>4. \A b \in Conn :
          outcome'[b] = "duplicate" /\ pc'[b] # "gone" =>
            outcome[b] = "duplicate" /\ pc[b] # "gone" /\ ev'[b] = ev[b]
    <3> USE DEF DInv, TInv, TypeOK, HandlerOK, At, localVars, Degrading
    <3>1. CASE UNCHANGED <<pc, ev, outcome>>
      BY <3>1
    <3>2. CASE Exit \/ Crash
      BY <3>2 DEF Exit, Crash, CutOff, Dead
    <3>3. ASSUME NEW c \in Conn, Accept(c) \/ Handler(c)
          PROVE  \A b \in Conn :
                   outcome'[b] = "duplicate" /\ pc'[b] # "gone" =>
                     outcome[b] = "duplicate" /\ pc[b] # "gone" /\ ev'[b] = ev[b]
      <4>1. CASE Accept(c) \/ ReadFrame(c) \/ FrameFails(c)
        BY <4>1 DEF Accept, ReadFrame, FrameFails
      <4>2. CASE RecordDegraded(c) \/ FetchOffset(c) \/ ReadFails(c)
        BY <4>2 DEF RecordDegraded, FetchOffset, ReadFails
      <4>3. CASE CheckTruncated(c) \/ Settle(c) \/ ReadBytes(c)
        BY <4>3 DEF CheckTruncated, Settle, ReadBytes
      <4>4. CASE StoreOffset(c) \/ Marking(c)
        BY <4>4 DEF StoreOffset, Marking, MarkOpen, MarkWrite, MarkFails
      <4> QED
        BY <1>3, <3>3, <4>1, <4>2, <4>3, <4>4 DEF Handler
    <3> QED
      BY <1>3, <3>1, <3>2, <3>3
         DEF Next, vars, BindFails, Signal, Grow, Shrink, Remove
  <2>5. DuplicateWasProcessed'
    BY <2>1, <2>4 DEF DInv, DuplicateWasProcessed
  <2> QED
    BY <2>3, <2>5
<1> QED
  BY <1>1, <1>2, <1>3

\* Deduplication loses no event: what is acknowledged as a Duplicate was
\* processed for the same session in the same life (connection.rs:87-91).
THEOREM DuplicatesAreSafe == Spec => []DuplicateWasProcessed
<1>1. Init => DInv
  BY InitTInv, SessionManagerAssumption
     DEF DInv, Init, KeyHasOwner, DuplicateWasProcessed, StateOf, DefaultState
<1>2. DInv => DuplicateWasProcessed
  BY DEF DInv
<1> QED
  BY <1>1, <1>2, NextDInv, PTL DEF Spec
-------------------------------------------------------------------------------
(***************************************************************************)
(* No false truncation of a transcript that is only appended to.            *)
(***************************************************************************)
\* Offset n does not pass the end of p.
Within(n, p) == n # None => size[p] # None /\ n <= size[p]

OffsetsWithin ==
  /\ \A f \in Frame : f.path \in Path =>
       Within(StateOf(sessions, f.session).last_read_offset, f.path)
  /\ \A c \in Conn :
       /\ pc[c] \in {"check", "settle", "bytes", "store"} =>
            Within(prior[c], ev[c].path)
       /\ pc[c] \in {"bytes", "store"} => Within(offset[c], ev[c].path)
       /\ pc[c] \in {"idle", "frame", "record", "fetch", "check", "settle"} =>
            offset[c] = None

NeverBack ==
  \A c \in Conn : /\ outcome[c] # "truncated"
                  /\ offset[c] # None /\ prior[c] # None
                       => offset[c] >= prior[c]

OInv == TInv /\ OffsetsWithin /\ NeverBack

\* The offset of a session after a store to it or to another one.
LEMMA OffsetOfStore ==
  ASSUME NEW m, IsSessionMap(m), NEW sid, NEW n, NEW s
  PROVE  \/ StateOf(StoreReadOffset(m, sid, n), s).last_read_offset
              = StateOf(m, s).last_read_offset
         \/ /\ StateOf(StoreReadOffset(m, sid, n), s).last_read_offset = n
            /\ s = sid
<1>1. CASE sid \in DOMAIN m /\ s = sid
  <2>1. m[sid] \in SessionState
    BY <1>1 DEF IsSessionMap
  <2>2. [m[sid] EXCEPT !.last_read_offset = n].last_read_offset = n
    BY <2>1 DEF SessionState
  <2>3. StateOf(StoreReadOffset(m, sid, n), sid)
          = [m[sid] EXCEPT !.last_read_offset = n]
    BY <1>1 DEF StateOf, StoreReadOffset, IsSessionMap
  <2> QED
    BY <1>1, <2>2, <2>3
<1>2. CASE ~(sid \in DOMAIN m /\ s = sid)
  BY <1>2 DEF StateOf, StoreReadOffset
<1> QED
  BY <1>1, <1>2

\* Recording an event leaves every session's offset as it was.
LEMMA OffsetOfRecord ==
  ASSUME NEW m, IsSessionMap(m), NEW sid, NEW id, NEW path, NEW s
  PROVE  StateOf(RecordDedup(m, sid, id, path), s).last_read_offset
           = StateOf(m, s).last_read_offset
<1>1. StateOf(m, sid) \in SessionState
  BY StateOfType
<1>2. Recorded(StateOf(m, sid), id, path).last_read_offset
        = StateOf(m, sid).last_read_offset
  BY <1>1 DEF Recorded, SessionState
<1> QED
  BY <1>2, StateOfPut DEF RecordDedup

LEMMA HandlerOInv ==
  ASSUME AppendOnly, OnePathPerSession, OInv, TInv',
         NEW c \in Conn, Accept(c) \/ Handler(c)
  PROVE  OffsetsWithin' /\ NeverBack'
<1> USE DEF OInv, TInv, TypeOK, HandlerOK, At, Within, OffsetsWithin, NeverBack,
            localVars, stateVars
<1>1. CASE Accept(c)
  BY <1>1 DEF Accept
<1>2. CASE ReadFrame(c) \/ FrameFails(c)
  BY <1>2 DEF ReadFrame, FrameFails
<1>3. CASE Record(c)
  <2>1. \A s : StateOf(sessions', s).last_read_offset
                 = StateOf(sessions, s).last_read_offset
    BY <1>3, OffsetOfRecord DEF Record
  <2>2. /\ pc[c] = "record" /\ pc'[c] \in {"done", "fetch"}
        /\ outcome'[c] \in {"duplicate", "new"}
        /\ \A d \in Conn : d # c => pc'[d] = pc[d] /\ outcome'[d] = outcome[d]
        /\ UNCHANGED <<ev, prior, offset, size>>
    BY <1>3 DEF Record, AfterNew
  <2> QED
    BY <2>1, <2>2
<1>4. CASE RecordDegraded(c)
  <2>1. \A s : StateOf(sessions', s).last_read_offset
                 = StateOf(sessions, s).last_read_offset
    BY <1>4, StateOfTouch DEF RecordDegraded
  <2> QED
    BY <1>4, <2>1 DEF RecordDegraded
<1>5. CASE FetchOffset(c)
  <2> DEFINE last == StateOf(sessions, ev[c].session).last_read_offset
  <2>1. /\ pc[c] = "fetch" /\ offset[c] = None
        /\ prior' = [prior EXCEPT ![c] = last]
        /\ pc' = [pc EXCEPT ![c] = AfterFetch(ev[c], last)]
        /\ UNCHANGED <<sessions, ev, offset, outcome, size>>
    BY <1>5 DEF FetchOffset
  <2>2. ev[c] \in Frame
    BY <2>1
  <2>3. ev[c].path \in Path => Within(last, ev[c].path)
    BY <2>2
  <2> HIDE DEF last
  <2>4. OffsetsWithin'
    BY <2>1, <2>2, <2>3 DEF AfterFetch
  <2>5. NeverBack'
    BY <2>1
  <2> QED
    BY <2>4, <2>5
<1>6. CASE ReadFails(c)
  BY <1>6 DEF ReadFails
<1>7. CASE CheckTruncated(c)
  <2>1. prior[c] \in Nat /\ ev[c].path \in Path
        /\ size[ev[c].path] \in Nat /\ pc[c] = "check"
    BY <1>7 DEF CheckTruncated
  <2>2. ~Regressed(size[ev[c].path], prior[c])
    BY <2>1, SessionManagerAssumption DEF Regressed
  <2> QED
    BY <1>7, <2>2 DEF CheckTruncated
<1>8. CASE Settle(c)
  <2>1. ev[c].path \in Path /\ size[ev[c].path] \in Nat /\ pc[c] = "settle"
    BY <1>8 DEF Settle
  <2>2. offset' = [offset EXCEPT ![c] = size[ev[c].path]]
        /\ pc' = [pc EXCEPT ![c] = "bytes"]
        /\ UNCHANGED <<sessions, ev, prior, outcome, size>>
    BY <1>8 DEF Settle
  <2>3. OffsetsWithin'
    BY <2>1, <2>2
  <2>4. NeverBack'
    BY <2>1, <2>2
  <2> QED
    BY <2>3, <2>4
<1>9. CASE ReadBytes(c)
  BY <1>9 DEF ReadBytes
<1>10. CASE StoreOffset(c)
  <2>1. /\ pc[c] = "store" /\ ev[c] \in Frame /\ ev[c].path \in Path
        /\ sessions' = StoreReadOffset(sessions, ev[c].session, offset[c])
        /\ pc'[c] \in {"mark", "done"}
        /\ \A d \in Conn : d # c => pc'[d] = pc[d]
        /\ UNCHANGED <<ev, prior, offset, outcome, size>>
    BY <1>10 DEF StoreOffset
  <2>2. ASSUME NEW f \in Frame, f.path \in Path
        PROVE  Within(StateOf(sessions', f.session).last_read_offset, f.path)
    <3>1. CASE StateOf(sessions', f.session).last_read_offset
                 = StateOf(sessions, f.session).last_read_offset
      BY <2>2, <3>1
    <3>2. CASE /\ StateOf(sessions', f.session).last_read_offset = offset[c]
               /\ f.session = ev[c].session
      <4>1. f.path = ev[c].path
        BY <2>1, <2>2, <3>2 DEF OnePathPerSession
      <4> QED
        BY <2>1, <3>2, <4>1
    <3> QED
      BY <2>1, <3>1, <3>2, OffsetOfStore
  <2> QED
    BY <2>1, <2>2
<1>11. CASE Marking(c)
  BY <1>11 DEF Marking, MarkOpen, MarkWrite, MarkFails
<1> QED
  BY <1>1, <1>2, <1>3, <1>4, <1>5, <1>6, <1>7, <1>8, <1>9, <1>10, <1>11
     DEF Handler

LEMMA NextOInv ==
  ASSUME AppendOnly, OnePathPerSession, OInv, [Next]_vars
  PROVE  OInv'
<1>1. TInv'
  BY NextTInv DEF OInv
<1> SUFFICES OffsetsWithin' /\ NeverBack'
  BY <1>1 DEF OInv
<1>2. CASE UNCHANGED <<sessions, pc, prior, offset, ev, outcome, size>>
  BY <1>2 DEF OInv, OffsetsWithin, NeverBack, Within
<1>3. CASE Start
  BY <1>3 DEF Start, Closed, localVars, OInv, OffsetsWithin, NeverBack, Within,
              StateOf, DefaultState, TInv, TypeOK
<1>4. CASE Exit \/ Crash
  BY <1>4 DEF Exit, Crash, CutOff, Dead, localVars, OInv, OffsetsWithin,
              NeverBack, Within, TInv, TypeOK
<1>5. ASSUME NEW c \in Conn, Accept(c) \/ Handler(c)
      PROVE  OffsetsWithin' /\ NeverBack'
  BY <1>1, <1>5, HandlerOInv
<1>6. ASSUME NEW p \in Path, Grow(p) PROVE OffsetsWithin' /\ NeverBack'
  <2>1. PICK n \in 0..MaxSize : /\ size[p] # None => n > size[p]
                                /\ size' = [size EXCEPT ![p] = n]
    BY <1>6 DEF Grow
  <2>2. UNCHANGED <<sessions, pc, prior, offset, ev, outcome>>
    BY <1>6 DEF Grow, stateVars, localVars
  <2>3. \A q \in Path : size[q] # None =>
          size'[q] # None /\ size'[q] \in Nat /\ size[q] \in Nat
            /\ size[q] <= size'[q]
    BY <2>1, DaemonAssumption, SessionManagerAssumption DEF OInv, TInv, TypeOK
  <2>4. ASSUME NEW m \in Nat \cup {None}, NEW q \in Path, Within(m, q)
        PROVE  m # None => size'[q] # None /\ m <= size'[q]
    BY <2>3, <2>4 DEF Within
  <2>5. \A s : StateOf(sessions, s).last_read_offset \in Nat \cup {None}
    BY StateOfType DEF SessionState, OInv, TInv, TypeOK
  <2>6. OffsetsWithin'
    BY <2>2, <2>4, <2>5
       DEF OInv, OffsetsWithin, Within, TInv, TypeOK, HandlerOK
  <2> QED
    BY <2>2, <2>6 DEF OInv, NeverBack
<1>7. ASSUME NEW p \in Path, Shrink(p) \/ Remove(p) PROVE FALSE
  BY <1>7 DEF Shrink, Remove
<1> QED
  BY <1>2, <1>3, <1>4, <1>5, <1>6, <1>7
     DEF Next, vars, BindFails, Signal, stateVars, localVars

LEMMA AlwaysOInv == AppendOnly /\ OnePathPerSession /\ Spec => []OInv
<1> SUFFICES ASSUME AppendOnly, OnePathPerSession PROVE Spec => []OInv
  OBVIOUS
<1>1. Init => OInv
  BY InitTInv, SessionManagerAssumption
     DEF Init, OInv, OffsetsWithin, NeverBack, Within, StateOf, DefaultState
<1>2. OInv /\ [Next]_vars => OInv'
  BY NextOInv
<1> QED
  BY <1>1, <1>2, PTL DEF Spec

\* A transcript that is only appended to, and is its session's only one, is
\* never reported Truncated, however many handlers and appends interleave
\* (connection.rs:110-126, reader.rs:213-230).
THEOREM NoFalseAlarms == Spec => []NoFalseTruncation
<1>1. CASE AppendOnly /\ OnePathPerSession
  <2>1. OInv => NoFalseTruncation
    BY DEF OInv, NeverBack, NoFalseTruncation
  <2> QED
    BY <1>1, <2>1, AlwaysOInv, PTL
<1>2. CASE ~(AppendOnly /\ OnePathPerSession)
  <2>1. NoFalseTruncation
    BY <1>2 DEF NoFalseTruncation
  <2> QED
    BY <2>1, PTL
<1> QED
  BY <1>1, <1>2

\* ... and no read of it ends below the offset it resumed from, which is the
\* offset that is stored next (connection.rs:128-148).
THEOREM ReadsGoForward == Spec => []NoReadFallsBack
<1>1. CASE AppendOnly /\ OnePathPerSession
  <2>1. OInv => NoReadFallsBack
    BY DEF OInv, NeverBack, NoReadFallsBack
  <2> QED
    BY <1>1, <2>1, AlwaysOInv, PTL
<1>2. CASE ~(AppendOnly /\ OnePathPerSession)
  <2>1. NoReadFallsBack
    BY <1>2 DEF NoReadFallsBack
  <2> QED
    BY <2>1, PTL
<1> QED
  BY <1>1, <1>2
-------------------------------------------------------------------------------
(***************************************************************************)
(* The mutex and the DEGRADED marker.                                       *)
(***************************************************************************)
\* The mutex is kept across a step only by a handler of a HookDegraded event
\* that is still writing the marker (session.rs:143-165): it is never left
\* locked by a handler that has ended.
HeldOnlyWhileMarking ==
  holder # None => /\ pc[holder] \in {"mark", "mark_write"}
                   /\ outcome[holder] = "hook_degraded"

LInv == TInv /\ HeldOnlyWhileMarking /\ LoudDegradation

LEMMA HandlerLInv ==
  ASSUME LInv, TInv', NEW c \in Conn, Accept(c) \/ Handler(c)
  PROVE  HeldOnlyWhileMarking' /\ LoudDegradation'
<1> USE DEF LInv, TInv, TypeOK, HandlerOK, At, Running, Degrading, serverVars,
            stateVars, markVars, localVars, HeldOnlyWhileMarking, LoudDegradation
<1>1. CASE Accept(c)
  BY <1>1 DEF Accept
<1>2. CASE ReadFrame(c) \/ FrameFails(c)
  BY <1>2 DEF ReadFrame, FrameFails
<1>3. CASE Record(c)
  <2>1. /\ holder' = None
        /\ outcome'[c] \in {"duplicate", "new"}
        /\ \A d \in Conn : d # c => pc'[d] = pc[d] /\ outcome'[d] = outcome[d]
        /\ pc[c] = "record"
        /\ UNCHANGED <<daemon, marker, warned>>
    BY <1>3 DEF Record, Unlocked
  <2>2. HeldOnlyWhileMarking'
    BY <2>1
  <2>3. LoudDegradation'
    <3> SUFFICES ASSUME daemon' # "crashed", NEW d \in Conn \ warned',
                        pc'[d] = "done", outcome'[d] \in Degrading
                 PROVE  /\ marker' # None
                        /\ marker' = {} => \E b \in Conn :
                             b \in warned' \/ pc'[b] = "mark_write"
      OBVIOUS
    <3>1. d # c /\ pc[d] = "done" /\ outcome[d] \in Degrading
      BY <2>1
    <3>2. /\ marker # None
          /\ marker = {} => \E b \in Conn :
               b \in warned \/ pc[b] = "mark_write"
      BY <2>1, <3>1
    <3>3. \A b \in Conn : pc[b] = "mark_write" => pc'[b] = "mark_write"
      BY <2>1
    <3> QED
      BY <2>1, <3>2, <3>3
  <2> QED
    BY <2>2, <2>3
<1>4. CASE RecordDegraded(c)
  BY <1>4 DEF RecordDegraded, Unlocked
<1>5. CASE FetchOffset(c)
  BY <1>5 DEF FetchOffset, AfterFetch, Unlocked
<1>6. CASE ReadFails(c) \/ CheckTruncated(c) \/ Settle(c) \/ ReadBytes(c)
  BY <1>6 DEF ReadFails, CheckTruncated, Settle, ReadBytes
<1>7. CASE StoreOffset(c)
  BY <1>7 DEF StoreOffset, NeedsMark, Unlocked
<1>8. CASE MarkOpen(c)
  <2>1. marker' # None
    BY <1>8, DaemonAssumption DEF MarkOpen
  <2> QED
    BY <1>8, <2>1 DEF MarkOpen
<1>9. CASE MarkWrite(c)
  <2>1. PICK kept \in {{}, marker} : marker' = kept \cup {outcome[c]}
    BY <1>9 DEF MarkWrite
  <2>2. outcome[c] \in marker'
    BY <2>1
  <2>3. marker' # None
    <3>1. marker # None /\ outcome[c] \in Degrading
      BY <1>9 DEF MarkWrite
    <3>2. marker' \in SUBSET Degrading
      BY <2>1, <3>1
    <3> QED
      BY <3>2, DaemonAssumption
  <2>4. marker' # {}
    BY <2>2
  <2> QED
    BY <1>9, <2>3, <2>4 DEF MarkWrite, Release
<1>10. CASE MarkFails(c)
  BY <1>10 DEF MarkFails, Release
<1> QED
  BY <1>1, <1>2, <1>3, <1>4, <1>5, <1>6, <1>7, <1>8, <1>9, <1>10
     DEF Handler, Marking

LEMMA NextLInv == LInv /\ [Next]_vars => LInv'
<1> SUFFICES ASSUME LInv, [Next]_vars
             PROVE  HeldOnlyWhileMarking' /\ LoudDegradation'
  BY NextTInv DEF LInv
<1>1. TInv'
  BY NextTInv DEF LInv
<1> USE DEF LInv, TInv, TypeOK, HandlerOK, Running, serverVars, stateVars,
            markVars, localVars, HeldOnlyWhileMarking, LoudDegradation
<1>2. CASE UNCHANGED <<daemon, holder, pc, outcome, marker, warned>>
  BY <1>2
<1>3. CASE Start
  BY <1>3 DEF Start, Closed
<1>4. CASE BindFails
  BY <1>4 DEF BindFails
<1>5. CASE Signal
  BY <1>5 DEF Signal
<1>6. CASE Exit
  BY <1>6 DEF Exit, CutOff, Dead
<1>7. CASE Crash
  BY <1>7 DEF Crash
<1>8. ASSUME NEW c \in Conn, Accept(c) \/ Handler(c)
      PROVE  HeldOnlyWhileMarking' /\ LoudDegradation'
  BY <1>1, <1>8, HandlerLInv
<1> QED
  BY <1>2, <1>3, <1>4, <1>5, <1>6, <1>7, <1>8
     DEF Next, vars, Grow, Shrink, Remove

\* A degradation that was found is loud: the marker is there, and readable
\* once no other handler is writing it (degraded.rs:3-9).
THEOREM DegradationIsLoud == Spec => []LoudDegradation
<1>1. Init => LInv
  BY InitTInv DEF LInv, Init, HeldOnlyWhileMarking, LoudDegradation
<1>2. LInv => LoudDegradation
  BY DEF LInv
<1> QED
  BY <1>1, <1>2, NextLInv, PTL DEF Spec

\* The mutex is never left locked (session.rs:143-165).
THEOREM MutexIsReleased == Spec => []HeldOnlyWhileMarking
<1>1. Init => LInv
  BY InitTInv DEF LInv, Init, HeldOnlyWhileMarking, LoudDegradation
<1>2. LInv => HeldOnlyWhileMarking
  BY DEF LInv
<1> QED
  BY <1>1, <1>2, NextLInv, PTL DEF Spec

(***************************************************************************)
(* A marker has a cause in the process that runs.                           *)
(***************************************************************************)
LEMMA HandlerCause ==
  ASSUME TInv, TInv', MarkerHasCause, ~MarkerCanFail,
         NEW c \in Conn, Accept(c) \/ Handler(c)
  PROVE  MarkerHasCause'
<1> USE DEF MarkerHasCause, TInv, TypeOK, HandlerOK, At, Running, Dead,
            Degrading, serverVars, stateVars, markVars, localVars
<1>1. CASE MarkOpen(c)
  <2>1. marker' = {} /\ pc'[c] = "mark_write" /\ outcome'[c] \in Degrading
    BY <1>1 DEF MarkOpen
  <2> QED
    BY <2>1
<1>2. CASE MarkWrite(c)
  <2>1. PICK kept \in {{}, marker} : marker' = kept \cup {outcome[c]}
    BY <1>2 DEF MarkWrite
  <2>2. /\ pc' = [pc EXCEPT ![c] = "done"] /\ UNCHANGED <<daemon, outcome>>
        /\ pc[c] = "mark_write" /\ outcome[c] \in Degrading
        /\ marker # None /\ daemon # "crashed"
    BY <1>2 DEF MarkWrite
  <2>3. ASSUME NEW r \in marker' PROVE \E d \in Conn : pc'[d] # "gone" /\ outcome'[d] = r
    <3>1. CASE r = outcome[c]
      BY <2>2, <3>1
    <3>2. CASE r \in marker
      BY <2>2, <3>2
    <3> QED
      BY <2>1, <2>3, <3>1, <3>2
  <2>4. pc'[c] # "gone" /\ outcome'[c] \in Degrading
    BY <2>2
  <2> QED
    BY <2>3, <2>4
<1>3. CASE ~(MarkOpen(c) \/ MarkWrite(c))
  <2>1. /\ UNCHANGED <<daemon, marker>> /\ pc[c] # "gone" /\ pc'[c] # "gone"
        /\ outcome'[c] = outcome[c] \/ outcome[c] \notin Degrading
        /\ \A d \in Conn : d # c => pc'[d] = pc[d] /\ outcome'[d] = outcome[d]
    <3>1. CASE Accept(c) \/ ReadFrame(c) \/ FrameFails(c)
      BY <3>1 DEF Accept, ReadFrame, FrameFails
    <3>2. CASE Record(c) \/ RecordDegraded(c)
      BY <3>2 DEF Record, RecordDegraded, AfterNew
    <3>3. CASE FetchOffset(c) \/ StoreOffset(c)
      BY <3>3 DEF FetchOffset, AfterFetch, StoreOffset
    <3>4. CASE ReadFails(c) \/ CheckTruncated(c) \/ Settle(c) \/ ReadBytes(c)
      BY <3>4 DEF ReadFails, CheckTruncated, Settle, ReadBytes
    <3>5. CASE MarkFails(c)
      BY <3>5 DEF MarkFails
    <3> QED
      BY <1>3, <3>1, <3>2, <3>3, <3>4, <3>5 DEF Handler, Marking
  <2>2. ASSUME NEW d \in Conn, pc[d] # "gone", outcome[d] \in Degrading
        PROVE  pc'[d] # "gone" /\ outcome'[d] = outcome[d]
    BY <2>1, <2>2
  <2>3. SUFFICES ASSUME daemon # "crashed", marker # None
                 PROVE  /\ \E d \in Conn : pc'[d] # "gone" /\ outcome'[d] \in Degrading
                        /\ \A r \in marker :
                             \E d \in Conn : pc'[d] # "gone" /\ outcome'[d] = r
    BY <2>1
  <2>4. \E d \in Conn : pc'[d] # "gone" /\ outcome'[d] \in Degrading
    BY <2>2, <2>3
  <2>5. ASSUME NEW r \in marker
        PROVE  \E d \in Conn : pc'[d] # "gone" /\ outcome'[d] = r
    <3>1. r \in Degrading
      BY <2>3, <2>5
    <3>2. PICK d \in Conn : pc[d] # "gone" /\ outcome[d] = r
      BY <2>3, <2>5
    <3> QED
      BY <2>2, <3>1, <3>2
  <2> QED
    BY <2>4, <2>5
<1> QED
  BY <1>1, <1>2, <1>3

LEMMA NextCause ==
  ASSUME TInv, TInv', MarkerHasCause, ~MarkerCanFail, [Next]_vars
  PROVE  MarkerHasCause'
<1> USE DEF MarkerHasCause, serverVars, stateVars, markVars, localVars
<1>1. CASE UNCHANGED vars
  BY <1>1 DEF vars
<1>2. CASE Start
  BY <1>2 DEF Start, ClearDegraded
<1>3. CASE BindFails \/ Crash
  BY <1>3 DEF BindFails, Crash
<1>4. CASE Signal
  BY <1>4 DEF Signal
<1>5. CASE Exit
  <2>1. \A c \in Conn : pc[c] # "gone" => pc'[c] # "gone"
    BY <1>5 DEF Exit, CutOff, TInv, TypeOK
  <2> QED
    BY <1>5, <2>1 DEF Exit
<1>6. ASSUME NEW c \in Conn, Accept(c) \/ Handler(c) PROVE MarkerHasCause'
  BY <1>6, HandlerCause
<1>7. ASSUME NEW p \in Path, Grow(p) \/ Shrink(p) \/ Remove(p) PROVE MarkerHasCause'
  BY <1>7 DEF Grow, Shrink, Remove
<1> QED
  BY <1>1, <1>2, <1>3, <1>4, <1>5, <1>6, <1>7 DEF Next

\* A clean start begins un-degraded, and what the marker says is due to a handler
\* of this process (degraded.rs:3-9), wherever the marker can be written and
\* removed.
THEOREM MarkersAreCaused == Spec => []MarkerHasCause
<1>1. CASE ~MarkerCanFail
  <2>1. Init => MarkerHasCause
    BY DEF Init, MarkerHasCause
  <2>2. TInv /\ TInv' /\ MarkerHasCause /\ [Next]_vars => MarkerHasCause'
    BY <1>1, NextCause
  <2> QED
    BY <2>1, <2>2, InitTInv, NextTInv, PTL DEF Spec
<1>2. CASE MarkerCanFail
  <2>1. MarkerHasCause
    BY <1>2 DEF MarkerHasCause
  <2> QED
    BY <2>1, PTL
<1> QED
  BY <1>1, <1>2, DaemonAssumption
-------------------------------------------------------------------------------
(***************************************************************************)
(* The contract of read_complete, kept by each handler's reading.  A handler *)
(* has no envelope before it has read one, and no offset to resume from      *)
(* before it has fetched it.                                                *)
(***************************************************************************)
BeforeCall ==
  \A c \in Conn :
    /\ pc[c] \in {"idle", "frame"} => ev[c] = None
    /\ pc[c] \in {"idle", "frame", "record", "fetch"} => prior[c] = None

LEMMA NextBeforeCall == TInv /\ BeforeCall /\ [Next]_vars => BeforeCall'
<1> SUFFICES ASSUME TInv, BeforeCall, [Next]_vars PROVE BeforeCall'
  OBVIOUS
<1> USE DEF TInv, TypeOK, BeforeCall, localVars, At, Running
<1>1. CASE UNCHANGED <<pc, ev, prior>>
  BY <1>1
<1>2. CASE Start \/ Exit \/ Crash
  BY <1>2 DEF Start, Exit, Crash, Closed, CutOff, Dead
<1>3. ASSUME NEW c \in Conn, Accept(c) \/ Handler(c) PROVE BeforeCall'
  <2>1. CASE Accept(c) \/ ReadFrame(c) \/ FrameFails(c)
    BY <2>1 DEF Accept, ReadFrame, FrameFails
  <2>2. CASE Record(c) \/ RecordDegraded(c)
    BY <2>2 DEF Record, RecordDegraded, AfterNew
  <2>3. CASE FetchOffset(c)
    BY <2>3 DEF FetchOffset, AfterFetch
  <2>4. CASE ReadFails(c) \/ CheckTruncated(c) \/ Settle(c) \/ ReadBytes(c)
    BY <2>4 DEF ReadFails, CheckTruncated, Settle, ReadBytes
  <2>5. CASE StoreOffset(c) \/ MarkOpen(c) \/ MarkWrite(c) \/ MarkFails(c)
    BY <2>5 DEF StoreOffset, MarkOpen, MarkWrite, MarkFails
  <2> QED
    BY <1>3, <2>1, <2>2, <2>3, <2>4, <2>5 DEF Handler, Marking
<1> QED
  BY <1>1, <1>2, <1>3
     DEF Next, vars, BindFails, Signal, Grow, Shrink, Remove

\* What the mapping of a connection to a call depends on.
LEMMA MappingOf ==
  ASSUME NEW c \in Conn, UNCHANGED <<pc[c], ev[c], prior[c], offset[c], outcome[c]>>,
         HasPath(c) => UNCHANGED size[ev[c].path]
  PROVE  UNCHANGED Reads(c)!vars
BY DEF Reads!vars, ReadSize, ReadPrior, ReadPhase, ReadVerdict, HasPath

\* Others write to the transcript.
LEMMA WriterKeepsContract ==
  ASSUME TInv, TInv', NEW c \in Conn, NEW p \in Path,
         Grow(p) \/ Shrink(p) \/ Remove(p)
  PROVE  [Reads(c)!Next]_(Reads(c)!vars)
<1>1. UNCHANGED <<pc, ev, prior, offset, outcome>>
  BY DEF Grow, Shrink, Remove, localVars
<1>2. CASE HasPath(c)
  <2>1. ev[c].path \in Path /\ HasPath(c)'
    BY <1>1, <1>2 DEF HasPath
  <2>2. size[ev[c].path] \in Nat \cup {None} /\ size'[ev[c].path] \in Nat \cup {None}
    BY <2>1 DEF TInv, TypeOK
  <2>3. AppendOnly /\ size[ev[c].path] # None
          => size'[ev[c].path] # None /\ size'[ev[c].path] >= size[ev[c].path]
    <3>1. CASE Grow(p)
      <4>1. PICK n \in 0..MaxSize : (size[p] # None => n > size[p])
                                     /\ size' = [size EXCEPT ![p] = n]
        BY <3>1 DEF Grow
      <4>2. n \in Nat /\ n # None
        BY SessionManagerAssumption, DaemonAssumption
      <4> QED
        BY <2>1, <2>2, <4>1, <4>2 DEF TInv, TypeOK
    <3>2. CASE Shrink(p) \/ Remove(p)
      BY <3>2 DEF Shrink, Remove
    <3> QED
      BY <3>1, <3>2
  <2>4. Reads(c)!Others
    BY <1>1, <1>2, <2>1, <2>2, <2>3
       DEF Reads!Others, Reads!Size, ReadSize, ReadPhase, ReadPrior, ReadVerdict
  <2> QED
    BY <2>4 DEF Reads!Next
<1>3. CASE ~HasPath(c)
  BY <1>1, <1>3, MappingOf
<1> QED
  BY <1>2, <1>3

\* The process starts or ends.
LEMMA ProcessKeepsContract ==
  ASSUME TInv, NEW c \in Conn, Start \/ Exit \/ Crash
  PROVE  [Reads(c)!Next]_(Reads(c)!vars)
<1>1. UNCHANGED <<localVars, size>> /\ pc'[c] \in {pc[c], "gone", "cut"}
      /\ (pc'[c] = "cut" => pc[c] # "idle")
  BY DEF Start, Exit, Crash, Closed, CutOff, Dead, TInv, TypeOK
<1>2. CASE ReadPhase(c)' = ReadPhase(c)
  BY <1>1, <1>2 DEF Reads!vars, ReadSize, ReadPrior, ReadVerdict, HasPath, localVars
<1>3. CASE ReadPhase(c)' # ReadPhase(c)
  <2>1. ReadPhase(c)' = "gone" /\ ReadPhase(c) \notin {"done", "gone"}
    BY <1>1, <1>3 DEF ReadPhase, localVars
  <2>2. Reads(c)!Abandon
    BY <1>1, <2>1
       DEF Reads!Abandon, ReadSize, ReadPrior, ReadVerdict, HasPath, localVars
  <2> QED
    BY <2>2 DEF Reads!Next
<1> QED
  BY <1>2, <1>3

\* A handler's own steps: only those inside read_complete are visible.
LEMMA HandlerKeepsContract ==
  ASSUME TInv, TInv', BeforeCall, NEW c \in Conn, Accept(c) \/ Handler(c)
  PROVE  [Reads(c)!Next]_(Reads(c)!vars)
<1> USE DEF TInv, TypeOK, HandlerOK, At, localVars, ReadResult
<1>1. CASE Accept(c) \/ FrameFails(c)
  BY <1>1 DEF Accept, FrameFails, ReadPhase, ReadSize, ReadPrior, ReadVerdict, HasPath,
              Reads!vars
<1>2. CASE ReadFrame(c)
  <2>1. /\ ev[c] = None /\ prior[c] = None /\ prior'[c] = None /\ UNCHANGED <<size, offset>>
        /\ ReadPhase(c) = "idle" /\ ReadPhase(c)' = "idle"
        /\ ReadVerdict(c) = "none" /\ ReadVerdict(c)' = "none"
    BY <1>2 DEF ReadFrame, BeforeCall, ReadPhase, ReadVerdict
  <2>2. /\ ReadSize(c) = None /\ ReadSize(c)' \in Nat \cup {None}
        /\ ReadPrior(c) = None /\ ReadPrior(c)' = None
    BY <2>1 DEF ReadSize, ReadPrior, HasPath
  <2>3. Reads(c)!Others
    BY <2>1, <2>2 DEF Reads!Others, Reads!Size
  <2> QED
    BY <2>3 DEF Reads!Next
<1>3. CASE Record(c) \/ RecordDegraded(c)
  <2>1. UNCHANGED <<ev[c], prior[c], offset[c], size>>
        /\ ReadPhase(c) = "idle" /\ ReadPhase(c)' = "idle"
        /\ ReadVerdict(c) = "none" /\ ReadVerdict(c)' = "none"
    BY <1>3 DEF Record, RecordDegraded, AfterNew, ReadPhase, ReadVerdict
  <2> QED
    BY <2>1 DEF Reads!vars, ReadSize, ReadPrior, HasPath
<1>4. CASE FetchOffset(c)
  <2> DEFINE last == StateOf(sessions, ev[c].session).last_read_offset
  <2>1. last \in Nat \cup {None}
    BY StateOfType DEF SessionState
  <2>2. /\ prior' = [prior EXCEPT ![c] = last]
        /\ pc' = [pc EXCEPT ![c] = AfterFetch(ev[c], last)]
        /\ pc[c] = "fetch" /\ outcome[c] = "new"
        /\ UNCHANGED <<ev, offset, outcome, size>>
    BY <1>4 DEF FetchOffset
  <2> HIDE DEF last
  <2>3. ReadPhase(c) = "idle" /\ ReadVerdict(c) = "none" /\ ReadVerdict(c)' = "none"
    BY <2>2 DEF ReadPhase, ReadVerdict
  <2>4. CASE ~HasPath(c)
    <3>1. pc'[c] = "done"
      BY <2>2, <2>4, DaemonAssumption DEF AfterFetch, HasPath
    <3> QED
      BY <2>2, <2>3, <2>4, <3>1 DEF Reads!vars, ReadPhase, ReadSize, ReadPrior, HasPath
  <2>5. CASE HasPath(c)
    <3>1. pc'[c] = IF last = None THEN "settle" ELSE "check"
      BY <2>2, <2>5 DEF AfterFetch, HasPath
    <3>2. ReadPhase(c)' = Reads(c)!First(ReadPrior(c)') /\ ReadPrior(c)' \in Nat \cup {None}
      BY <2>1, <2>2, <2>5, <3>1 DEF Reads!First, ReadPhase, ReadPrior, HasPath
    <3>3. UNCHANGED <<ReadSize(c), offset[c]>>
      BY <2>2 DEF ReadSize, HasPath
    <3>4. Reads(c)!Call
      BY <2>3, <3>2, <3>3 DEF Reads!Call, Reads!Size
    <3> QED
      BY <3>4 DEF Reads!Next
  <2> QED
    BY <2>4, <2>5
<1>5. CASE ReadFails(c) \/ CheckTruncated(c) \/ Settle(c) \/ ReadBytes(c)
  <2>1. /\ pc[c] \in {"check", "settle", "bytes"} /\ ReadPhase(c) = pc[c]
        /\ outcome[c] = "new" /\ ReadVerdict(c) = "none"
        /\ HasPath(c) /\ HasPath(c)' /\ UNCHANGED <<ev, prior, size>>
        /\ ReadSize(c) = size[ev[c].path] /\ ReadPrior(c) = prior[c]
        /\ UNCHANGED <<ReadSize(c), ReadPrior(c)>>
    <3>1. /\ pc[c] \in {"check", "settle", "bytes"} /\ outcome[c] = "new"
          /\ UNCHANGED <<ev, prior, size>>
      BY <1>5 DEF ReadFails, CheckTruncated, Settle, ReadBytes
    <3>2. HasPath(c) /\ HasPath(c)'
      BY <3>1, DaemonAssumption DEF HasPath
    <3> QED
      BY <3>1, <3>2 DEF ReadPhase, ReadVerdict, ReadSize, ReadPrior
  <2>2. ReadSize(c) \in Nat \cup {None}
    BY <2>1 DEF HasPath
  <2>3. CASE ReadFails(c)
    <3>1. Reads(c)!Fail
      BY <2>1, <2>3
         DEF ReadFails, Reads!Fail, Reads!Return, ReadPhase, ReadVerdict
    <3> QED
      BY <3>1 DEF Reads!Next
  <2>4. CASE CheckTruncated(c)
    <3>1. CASE Regressed(size[ev[c].path], prior[c])
      <4>1. Reads(c)!Regress
        BY <2>1, <2>4, <3>1
           DEF CheckTruncated, Regressed, Reads!Regress, Reads!Return, ReadPhase,
               ReadVerdict
      <4> QED
        BY <4>1 DEF Reads!Next
    <3>2. CASE ~Regressed(size[ev[c].path], prior[c])
      <4>1. prior[c] \in Nat /\ ReadSize(c) \in Nat
        BY <2>1, <2>2, <2>4 DEF CheckTruncated
      <4>2. ReadSize(c) >= ReadPrior(c)
        BY <2>1, <3>2, <4>1 DEF Regressed
      <4>3. Reads(c)!Pass
        BY <2>1, <2>4, <3>2, <4>2
           DEF CheckTruncated, Reads!Pass, ReadPhase, ReadVerdict
      <4> QED
        BY <4>3 DEF Reads!Next
    <3> QED
      BY <3>1, <3>2
  <2>5. CASE Settle(c)
    <3>1. Reads(c)!Settle
      BY <2>1, <2>5 DEF Settle, Reads!Settle, ReadPhase, ReadVerdict
    <3> QED
      BY <3>1 DEF Reads!Next
  <2>6. CASE ReadBytes(c)
    <3>1. Reads(c)!Read
      BY <2>1, <2>6 DEF ReadBytes, Reads!Read, Reads!Return, ReadPhase, ReadVerdict
    <3> QED
      BY <3>1 DEF Reads!Next
  <2> QED
    BY <1>5, <2>3, <2>4, <2>5, <2>6
<1>6. CASE StoreOffset(c) \/ Marking(c)
  <2>1. /\ UNCHANGED <<ev, prior, offset, outcome, size>>
        /\ pc[c] \in {"store", "mark", "mark_write"}
        /\ pc'[c] \in {"mark", "mark_write", "done"}
    BY <1>6 DEF StoreOffset, Marking, MarkOpen, MarkWrite, MarkFails
  <2>2. UNCHANGED ReadPhase(c)
    BY <2>1 DEF ReadPhase
  <2> QED
    BY <2>1, <2>2 DEF Reads!vars, ReadSize, ReadPrior, ReadVerdict, HasPath
<1> QED
  BY <1>1, <1>2, <1>3, <1>4, <1>5, <1>6 DEF Handler

\* Another connection's step changes nothing of this one's call.
LEMMA OtherHandlerKeeps ==
  ASSUME TInv, NEW c \in Conn, NEW d \in Conn, c # d, Accept(d) \/ Handler(d)
  PROVE  UNCHANGED Reads(c)!vars
<1> USE DEF TInv, TypeOK, localVars
<1>1. UNCHANGED <<pc[c], ev[c], prior[c], offset[c], outcome[c], size>>
  <2>1. CASE Accept(d) \/ ReadFrame(d) \/ FrameFails(d)
    BY <2>1 DEF Accept, ReadFrame, FrameFails
  <2>2. CASE Record(d) \/ RecordDegraded(d)
    BY <2>2 DEF Record, RecordDegraded
  <2>3. CASE FetchOffset(d) \/ StoreOffset(d)
    BY <2>3 DEF FetchOffset, StoreOffset
  <2>4. CASE ReadFails(d) \/ CheckTruncated(d) \/ Settle(d) \/ ReadBytes(d)
    BY <2>4 DEF ReadFails, CheckTruncated, Settle, ReadBytes
  <2>5. CASE Marking(d)
    BY <2>5 DEF Marking, MarkOpen, MarkWrite, MarkFails
  <2> QED
    BY <2>1, <2>2, <2>3, <2>4, <2>5 DEF Handler
<1> QED
  BY <1>1, MappingOf

LEMMA StepKeepsContract ==
  ASSUME TInv, TInv', BeforeCall, Next, NEW c \in Conn
  PROVE  [Reads(c)!Next]_(Reads(c)!vars)
<1>1. CASE BindFails \/ Signal
  BY <1>1, MappingOf DEF BindFails, Signal, localVars
<1>2. CASE Start \/ Exit \/ Crash
  BY <1>2, ProcessKeepsContract
<1>3. ASSUME NEW d \in Conn, Accept(d) \/ Handler(d)
      PROVE  [Reads(c)!Next]_(Reads(c)!vars)
  BY <1>3, HandlerKeepsContract, OtherHandlerKeeps
<1>4. ASSUME NEW p \in Path, Grow(p) \/ Shrink(p) \/ Remove(p)
      PROVE  [Reads(c)!Next]_(Reads(c)!vars)
  BY <1>4, WriterKeepsContract
<1> QED
  BY <1>1, <1>2, <1>3, <1>4 DEF Next

\* Each handler's reading is a call of read_complete as its contract has it
\* (connection.rs:114-148), for any number of connections, sessions and files.
THEOREM EachReadIsACall == Spec => ReadsByContract
<1>1. Init => \A c \in Conn : Reads(c)!Init
  <2> SUFFICES ASSUME Init, NEW c \in Conn PROVE Reads(c)!Init
    OBVIOUS
  <2> QED
    BY DEF Init, Reads!Init, Reads!Size, ReadSize, ReadPhase, ReadPrior, ReadVerdict,
           ReadResult, HasPath
<1>2. Init => BeforeCall
  BY DEF Init, BeforeCall
<1>3. TInv /\ TInv' /\ BeforeCall /\ [Next]_vars
        => [\A c \in Conn : [Reads(c)!Next]_(Reads(c)!vars)]_vars
  BY StepKeepsContract
<1> QED
  BY <1>1, <1>2, <1>3, InitTInv, NextTInv, NextBeforeCall, PTL
  DEF Spec, ReadsByContract
-------------------------------------------------------------------------------
(***************************************************************************)
(* What the map remembers: each critical section replaces one entry by one  *)
(* that knows at least as much.                                             *)
(***************************************************************************)
Grew(before, after) ==
  /\ before.receipt_seq <= after.receipt_seq
  /\ before.last_event_id # None => after.last_event_id # None
  /\ before.transcript_path # None => after.transcript_path # None
  /\ before.last_read_offset # None => after.last_read_offset # None

LEMMA PutRemembers ==
  ASSUME NEW m, IsSessionMap(m), NEW sid \in SessionId, NEW st \in SessionState,
         Grew(StateOf(m, sid), st)
  PROVE  Remembers(m, Put(m, sid, st))
<1> SUFFICES ASSUME NEW s \in DOMAIN m
             PROVE  s \in DOMAIN Put(m, sid, st) /\ Grew(m[s], Put(m, sid, st)[s])
  BY DEF Remembers, Grew
<1>1. m[s] \in SessionState /\ StateOf(m, s) = m[s]
  BY DEF IsSessionMap, StateOf
<1>2. s \in DOMAIN Put(m, sid, st)
  BY DEF Put
<1>3. Put(m, sid, st)[s] = IF s = sid THEN st ELSE m[s]
  BY DEF Put
<1>4. m[s].receipt_seq \in Nat
  BY <1>1, SessionManagerAssumption DEF SessionState
<1> QED
  BY <1>1, <1>2, <1>3, <1>4 DEF Grew

LEMMA RecordRemembers ==
  ASSUME NEW m, IsSessionMap(m), NEW sid \in SessionId, NEW id \in EventId,
         NEW path \in Path \cup {EmptyPath, None}
  PROVE  Remembers(m, RecordDedup(m, sid, id, path))
<1> DEFINE st == StateOf(m, sid)
<1>1. st \in SessionState
  BY StateOfType
<1> HIDE DEF st
<1>2. st.receipt_seq \in 0..U64Max /\ U64Max \in Nat /\ id # None
  BY <1>1, SessionManagerAssumption DEF SessionState
<1>3. Recorded(st, id, path) \in SessionState
  BY <1>1, RecordedType
<1>4. Grew(st, st)
  BY <1>2 DEF Grew
<1>5. Grew(st, Recorded(st, id, path))
  <2>1. /\ Recorded(st, id, path).last_event_id = id
        /\ Recorded(st, id, path).receipt_seq = SaturatingInc(st.receipt_seq)
        /\ Recorded(st, id, path).last_read_offset = st.last_read_offset
        /\ Recorded(st, id, path).transcript_path
             = IF path # None THEN path ELSE st.transcript_path
    BY <1>1 DEF Recorded, SessionState
  <2>2. st.receipt_seq <= SaturatingInc(st.receipt_seq)
    BY <1>2 DEF SaturatingInc
  <2> QED
    BY <1>2, <2>1, <2>2 DEF Grew
<1> QED
  BY <1>1, <1>3, <1>4, <1>5, PutRemembers DEF RecordDedup, st

LEMMA TouchRemembers ==
  ASSUME NEW m, IsSessionMap(m), NEW sid \in SessionId \cup {None}
  PROVE  Remembers(m, Touch(m, sid))
<1>1. ASSUME NEW st \in SessionState PROVE Grew(st, st)
  <2>1. st.receipt_seq \in Nat
    BY SessionManagerAssumption DEF SessionState
  <2> QED
    BY <2>1 DEF Grew
<1>2. CASE sid = None
  <2>1. \A s \in DOMAIN m : Grew(m[s], m[s])
    BY <1>1 DEF IsSessionMap
  <2> QED
    BY <1>2, <2>1 DEF Touch, Remembers, Grew
<1>3. CASE sid # None
  <2>1. StateOf(m, sid) \in SessionState
    BY StateOfType
  <2> QED
    BY <1>1, <1>3, <2>1, PutRemembers DEF Touch
<1> QED
  BY <1>2, <1>3

LEMMA StoreRemembers ==
  ASSUME NEW m, IsSessionMap(m), NEW sid, NEW n \in Nat
  PROVE  Remembers(m, StoreReadOffset(m, sid, n))
<1> SUFFICES ASSUME NEW s \in DOMAIN m
             PROVE  /\ s \in DOMAIN StoreReadOffset(m, sid, n)
                    /\ Grew(m[s], StoreReadOffset(m, sid, n)[s])
  BY DEF Remembers, Grew
<1>1. m[s] \in SessionState /\ n # None
  BY SessionManagerAssumption DEF IsSessionMap
<1>2. m[s].receipt_seq \in Nat
  BY <1>1, SessionManagerAssumption DEF SessionState
<1>3. \/ StoreReadOffset(m, sid, n)[s] = m[s]
      \/ StoreReadOffset(m, sid, n)[s] = [m[s] EXCEPT !.last_read_offset = n]
  BY DEF StoreReadOffset
<1>4. s \in DOMAIN StoreReadOffset(m, sid, n)
  BY DEF StoreReadOffset
<1> QED
  BY <1>1, <1>2, <1>3, <1>4 DEF Grew, SessionState

LEMMA UnchangedRemembers ==
  ASSUME NEW m, IsSessionMap(m)
  PROVE  Remembers(m, m)
BY TouchRemembers DEF Touch

\* The steps that do not write the map.
LEMMA OthersKeepSessions ==
  /\ \A c \in Conn :
       \/ Accept(c) \/ ReadFrame(c) \/ FrameFails(c) \/ FetchOffset(c)
       \/ ReadFails(c) \/ CheckTruncated(c) \/ Settle(c) \/ ReadBytes(c) \/ Marking(c)
       => UNCHANGED sessions
  /\ \/ BindFails \/ Signal \/ Exit \/ Crash
     \/ \E p \in Path : Grow(p) \/ Shrink(p) \/ Remove(p)
     => UNCHANGED sessions
BY DEF Accept, ReadFrame, FrameFails, FetchOffset, ReadFails, CheckTruncated, Settle,
       ReadBytes, Marking, MarkOpen, MarkWrite, MarkFails, BindFails, Signal, Exit,
       Crash, Grow, Shrink, Remove, stateVars

\* No step of a life of the daemon drops anything from the map.
LEMMA StepRemembers ==
  ASSUME TInv, Next, lives' = lives
  PROVE  Remembers(sessions, sessions')
<1>1. IsSessionMap(sessions)
  BY DEF TInv, TypeOK
<1>2. CASE UNCHANGED sessions
  BY <1>1, <1>2, UnchangedRemembers
<1>3. ~Start
  BY DEF Start, TInv, TypeOK
<1>4. ASSUME NEW c \in Conn, Record(c) PROVE Remembers(sessions, sessions')
  <2>1. /\ ev[c].session \in SessionId /\ ev[c].id \in EventId
        /\ ev[c].path \in Path \cup {EmptyPath, None}
        /\ sessions' = RecordDedup(sessions, ev[c].session, ev[c].id, ev[c].path)
    BY <1>4, DaemonAssumption DEF Record, At, TInv, HandlerOK, WireEvent
  <2> QED
    BY <1>1, <2>1, RecordRemembers
<1>5. ASSUME NEW c \in Conn, RecordDegraded(c) PROVE Remembers(sessions, sessions')
  <2>1. /\ ev[c].session \in SessionId \cup {None}
        /\ sessions' = Touch(sessions, ev[c].session)
    BY <1>5, DaemonAssumption DEF RecordDegraded, At, TInv, HandlerOK, WireEvent
  <2> QED
    BY <1>1, <2>1, TouchRemembers
<1>6. ASSUME NEW c \in Conn, StoreOffset(c) PROVE Remembers(sessions, sessions')
  <2>1. /\ offset[c] \in Nat
        /\ sessions' = StoreReadOffset(sessions, ev[c].session, offset[c])
    BY <1>6 DEF StoreOffset, At, TInv, HandlerOK
  <2> QED
    BY <1>1, <2>1, StoreRemembers
<1> QED
  BY <1>2, <1>3, <1>4, <1>5, <1>6, OthersKeepSessions DEF Next, Handler

\* An offset falls only by a store, and a handler whose fetched offset is still the
\* session's does not store less than it.
LEMMA StepFallsInRace ==
  ASSUME AppendOnly, OnePathPerSession, OInv, Next, lives' = lives,
         NEW s \in DOMAIN sessions, FallsBack(s)
  PROVE  Overtaken(s)
<1> DEFINE last == StateOf(sessions, s).last_read_offset
           now  == StateOf(sessions', s).last_read_offset
<1>1. TInv /\ IsSessionMap(sessions)
  BY DEF OInv, TInv, TypeOK
<1>2. s \in DOMAIN sessions'
  BY <1>1, StepRemembers DEF Remembers
<1>3. last = sessions[s].last_read_offset /\ now = sessions'[s].last_read_offset
  BY <1>2 DEF StateOf
<1>4. last \in Nat /\ now < last
  <2>1. sessions[s] \in SessionState
    BY <1>1 DEF IsSessionMap
  <2> QED
    BY <1>3, <2>1 DEF FallsBack, SessionState
<1> HIDE DEF last, now
<1>5. now # last
  BY <1>4
<1>6. ASSUME NEW c \in Conn, StoreOffset(c) PROVE Overtaken(s)
  <2>1. /\ pc[c] = "store" /\ pc'[c] # "store"
        /\ sessions' = StoreReadOffset(sessions, ev[c].session, offset[c])
    BY <1>1, <1>6 DEF StoreOffset, At, TInv, TypeOK
  <2>2. now = offset[c] /\ ev[c].session = s
    BY <1>1, <1>5, <2>1, OffsetOfStore DEF last, now
  <2>3. offset[c] \in Nat /\ offset[c] # None
    BY <1>1, <2>1, SessionManagerAssumption DEF TInv, HandlerOK
  <2>4. prior[c] # last
    <3>1. CASE prior[c] = last
      <4>1. prior[c] # None
        BY <1>4, <3>1, SessionManagerAssumption
      <4>2. offset[c] >= prior[c]
        BY <2>3, <4>1 DEF OInv, NeverBack
      <4> QED
        BY <1>4, <2>2, <2>3, <3>1, <4>2
    <3> QED
      BY <3>1
  <2> QED
    BY <1>3, <2>1, <2>2, <2>4 DEF Overtaken
<1>7. ASSUME NEW c \in Conn, Record(c) \/ RecordDegraded(c) PROVE FALSE
  BY <1>1, <1>5, <1>7, OffsetOfRecord, StateOfTouch DEF Record, RecordDegraded, last, now
<1>8. CASE UNCHANGED sessions
  BY <1>5, <1>8 DEF last, now
<1>9. ~Start
  BY DEF Start, OInv, TInv, TypeOK
<1> QED
  BY <1>6, <1>7, <1>8, <1>9, OthersKeepSessions DEF Next, Handler

\* No step drops what the map holds (session.rs:38-60, 128-193), for any number of
\* handlers; and with transcripts as in NoFalseTruncation an offset is replaced by
\* an older one only by a handler that another has overtaken (connection.rs:110-126).
THEOREM SessionsAreKept == Spec => OffsetsFallOnlyInRaces
<1> DEFINE Race == \A s \in DOMAIN sessions : FallsBack(s) => Overtaken(s)
<1>1. CASE AppendOnly /\ OnePathPerSession
  <2>1. OInv /\ [Next]_vars =>
          [lives' = lives =>
             /\ Remembers(sessions, sessions')
             /\ AppendOnly /\ OnePathPerSession => Race]_vars
    BY <1>1, StepRemembers, StepFallsInRace DEF OInv
  <2> QED
    BY <1>1, <2>1, AlwaysOInv, PTL DEF Spec, OffsetsFallOnlyInRaces
<1>2. CASE ~(AppendOnly /\ OnePathPerSession)
  <2>1. TInv /\ [Next]_vars =>
          [lives' = lives =>
             /\ Remembers(sessions, sessions')
             /\ AppendOnly /\ OnePathPerSession => Race]_vars
    BY <1>2, StepRemembers
  <2> QED
    BY <2>1, AlwaysTInv, PTL DEF Spec, OffsetsFallOnlyInRaces
<1> QED
  BY <1>1, <1>2
===============================================================================
