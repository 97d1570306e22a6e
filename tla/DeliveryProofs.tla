----------------------------- MODULE DeliveryProofs -----------------------------
(***************************************************************************)
(* Theorems of Delivery, for any number of hooks and daemons, any size of   *)
(* frame and of the kernel's buffers, and daemons that overlap or not.      *)
(***************************************************************************)
EXTENDS Delivery, TLAPS

Failures == {"socket_absent", "connect_failed", "write_timed_out"}

\* A hook that has not ended, or has ended with a failure, has written less
\* than a frame; the daemon has read no more than was written, and a whole
\* frame where it processed the event.
Shortfall ==
  \A h \in Hook : /\ hook[h] # "done" => outcome[h] = "none" /\ sent[h] < FrameLen(h)
                  /\ hook[h] = "done" => outcome[h] # "none"
                  /\ outcome[h] \in Failures => sent[h] < FrameLen(h)
                  /\ got[h] <= sent[h]
                  /\ h \in forwarded => got[h] = FrameLen(h)

\* A connection is made once, has nothing read before, and is closed by the
\* step that reads the last unit its prefix tells of; that step forwards the
\* event if the prefix told the truth.
ReadToTheEnd ==
  \A h \in Hook : /\ hook[h] \in {"check", "connect"} =>
                       conn[h] = "none" /\ peer[h] = None /\ got[h] = 0
                  /\ conn[h] # "closed" => got[h] < PrefixLen + Claimed(h)
                  /\ got[h] <= PrefixLen + Claimed(h)
                  /\ h \in forwarded <=>
                       got[h] = PrefixLen + Claimed(h) /\ IsJson(h, Claimed(h))

\* Without overlap, at most one daemon is alive.
OneAlive ==
  ~Overlap => \A d, e \in Daemon : pc[d] \in Alive /\ pc[e] \in Alive => d = e

IInv == TypeOK /\ Shortfall

FrameInv == TypeOK /\ ReadToTheEnd

ReachInv == TypeOK /\ OneAlive /\ AcceptingIsReachable
-------------------------------------------------------------------------------
\* Lengths are lengths: a frame is longer than its prefix, and the length that
\* the prefix tells is at most that of the body, and of the body if it fits.
LEMMA Lengths ==
  ASSUME NEW h \in Hook
  PROVE  /\ BodyLen[h] \in Nat /\ BodyLen[h] > 0
         /\ FrameLen(h) \in Nat /\ FrameLen(h) > PrefixLen
         /\ Claimed(h) \in Nat
         /\ IsJson(h, Claimed(h)) => PrefixLen + Claimed(h) = FrameLen(h)
<1>1. BodyLen[h] \in Nat /\ BodyLen[h] > 0 /\ PrefixLen \in Nat
  BY DeliveryAssumption
<1>2. BodyLen[h] % LenRange \in Nat
  BY <1>1, DeliveryAssumption
<1> QED
  BY <1>1, <1>2 DEF FrameLen, Claimed, IsJson

\* The initial state has every part of the invariants.
LEMMA InitInv == Init => IInv /\ ReachInv
<1> SUFFICES ASSUME Init PROVE IInv /\ ReachInv
  OBVIOUS
<1>1. TypeOK
  BY DeliveryAssumption, Lengths DEF Init, TypeOK, Alive, Starting
<1>2. Shortfall
  BY DeliveryAssumption, Lengths DEF Init, Shortfall, Failures
<1>3. OneAlive /\ AcceptingIsReachable
  BY DEF Init, OneAlive, AcceptingIsReachable, Alive, Starting
<1> QED
  BY <1>1, <1>2, <1>3 DEF IInv, ReachInv

\* Steps of a daemon process, among them the end of it, touch neither a hook
\* nor the bytes of a connection.
LEMMA DaemonStepType ==
  ASSUME TypeOK, NEW d \in Daemon,
         DaemonStep(d) \/ AcceptFails(d) \/ Start(d) \/ Sigterm(d) \/ Kill(d)
  PROVE  TypeOK' /\ UNCHANGED <<hookVars, sent, got, forwarded>>
<1> USE DEF TypeOK, Alive, Starting, Goto
<1>1. ASSUME Die(d)
      PROVE  /\ pc' = [pc EXCEPT ![d] = "dead"]
             /\ conn' \in [Hook -> {"none", "queued", "open", "closed"}]
             /\ UNCHANGED <<peer, hookVars, sent, got, forwarded>>
  BY <1>1 DEF Die, Hangup
<1>2. CASE Probe(d) \/ Chmod(d) \/ TakeSignal(d) \/ Cleanup(d) \/ Start(d)
  BY <1>2 DEF Probe, Chmod, TakeSignal, Cleanup, Start, hookVars, connVars
<1>3. CASE Unlink(d)
  BY <1>1, <1>3 DEF Unlink, hookVars, connVars
<1>4. CASE Bind(d)
  BY <1>1, <1>4 DEF Bind, hookVars, connVars
<1>5. CASE Accept(d) \/ AcceptFails(d) \/ Arm(d)
  BY <1>5 DEF Accept, AcceptFails, Arm, Waiting, hookVars, connVars
<1>6. CASE Exit(d) \/ Kill(d)
  BY <1>1, <1>6 DEF Exit, Kill, hookVars
<1>7. CASE Sigterm(d)
  BY <1>1, <1>7 DEF Sigterm, hookVars, connVars
<1> QED
  BY <1>2, <1>3, <1>4, <1>5, <1>6, <1>7 DEF DaemonStep

\* What the daemon reads of a frame never exceeds what the hook has written.
LEMMA HandlerStepInv ==
  ASSUME IInv, NEW h \in Hook, HandlerStep(h)
  PROVE  IInv' /\ UNCHANGED daemonVars
<1> USE DeliveryAssumption DEF IInv, TypeOK, daemonVars, hookVars
<1>1. CASE ReadSome(h)
  <2>1. TypeOK'
    BY <1>1, Lengths DEF ReadSome, Shortfall
  <2>2. Shortfall'
    BY <1>1, Lengths DEF ReadSome, Shortfall, Complete, Parses, FrameLen, IsJson
  <2> QED
    BY <1>1, <2>1, <2>2 DEF ReadSome
<1>2. CASE ShortFrame(h)
  BY <1>2 DEF ShortFrame, Shortfall
<1> QED
  BY <1>1, <1>2 DEF HandlerStep

\* A hook ends with a failure only before its last unit is written, and writes
\* nothing afterwards.
LEMMA HookStepInv ==
  ASSUME IInv, NEW h \in Hook, HookStep(h)
  PROVE  IInv' /\ UNCHANGED daemonVars
<1> USE DeliveryAssumption DEF IInv, TypeOK, daemonVars, connVars, Finish
<1> USE Lengths
<1>1. CASE CheckSocket(h)
  BY <1>1 DEF CheckSocket, Shortfall, Failures
<1>2. CASE Connect(h)
  BY <1>2 DEF Connect, Enqueue, CanConnect, Shortfall, Failures
<1>3. CASE ConnectRefused(h)
  BY <1>3 DEF ConnectRefused, Shortfall, Failures
<1>4. CASE ConnectTimedOut(h)
  BY <1>4 DEF ConnectTimedOut, Enqueue, Shortfall, Failures
<1>5. CASE Write(h)
  <2>1. TypeOK'
    BY <1>5 DEF Write, Shortfall, Written, hookVars
  <2>2. Shortfall'
    BY <1>5 DEF Write, Shortfall, Failures, Written, hookVars
  <2> QED
    BY <1>5, <2>1, <2>2 DEF Write
<1>6. CASE WriteFails(h)
  BY <1>6 DEF WriteFails, Shortfall, Failures
<1> QED
  BY <1>1, <1>2, <1>3, <1>4, <1>5, <1>6 DEF HookStep

\* The bookkeeping of bytes and outcomes survives every step.
LEMMA StepInv == IInv /\ [Next]_vars => IInv'
<1> SUFFICES ASSUME IInv, [Next]_vars PROVE IInv'
  OBVIOUS
<1>1. CASE UNCHANGED vars
  BY <1>1 DEF vars, IInv, TypeOK, Shortfall
<1>2. ASSUME NEW d \in Daemon,
             DaemonStep(d) \/ AcceptFails(d) \/ Start(d) \/ Sigterm(d) \/ Kill(d)
      PROVE  IInv'
  <2>1. TypeOK' /\ UNCHANGED <<hookVars, sent, got, forwarded>>
    BY <1>2, DaemonStepType DEF IInv
  <2> QED
    BY <2>1 DEF IInv, Shortfall, hookVars
<1>3. ASSUME NEW h \in Hook, HandlerStep(h) PROVE IInv'
  BY <1>3, HandlerStepInv
<1>4. ASSUME NEW h \in Hook, HookStep(h) PROVE IInv'
  BY <1>4, HookStepInv
<1> QED
  BY <1>1, <1>2, <1>3, <1>4 DEF Next

\* Every variable keeps its type: no unit is written or read past the end of
\* the frame (dispatch.rs, read_frame of wire.rs).
THEOREM TypeCorrect == Spec => []TypeOK
<1>1. Init => IInv
  BY InitInv
<1>2. IInv /\ [Next]_vars => IInv'
  BY StepInv
<1>3. IInv => TypeOK
  BY DEF IInv
<1> QED
  BY <1>1, <1>2, <1>3, PTL DEF Spec

\* The event of a hook that reports a failure is never processed, whichever
\* daemon, timeout or crash came in between (dispatch.rs:11-18).
THEOREM FailureIsFinal == Spec => []FailureMeansUnprocessed
<1>1. Init => IInv
  BY InitInv
<1>2. IInv /\ [Next]_vars => IInv'
  BY StepInv
<1>3. IInv => FailureMeansUnprocessed
  BY Lengths DEF IInv, TypeOK, Shortfall, Failures, FailureMeansUnprocessed
<1> QED
  BY <1>1, <1>2, <1>3, PTL DEF Spec
-------------------------------------------------------------------------------
\* A daemon process touches a connection only to open or to close it.
LEMMA DaemonStepFrame ==
  ASSUME TypeOK, ReadToTheEnd, NEW d \in Daemon,
         DaemonStep(d) \/ AcceptFails(d) \/ Start(d) \/ Sigterm(d) \/ Kill(d)
  PROVE  ReadToTheEnd'
<1>1. UNCHANGED <<hook, got, forwarded>>
  BY DaemonStepType DEF hookVars
<1>2. ASSUME NEW h \in Hook
      PROVE  /\ hook[h] \in {"check", "connect"} =>
                  UNCHANGED <<conn[h], peer[h]>>
             /\ conn'[h] # "closed" => conn[h] # "closed"
  <2> USE DEF TypeOK, ReadToTheEnd, connVars
  <2>1. ASSUME Die(d)
        PROVE  /\ hook[h] \in {"check", "connect"} => UNCHANGED <<conn[h], peer[h]>>
               /\ conn'[h] # "closed" => conn[h] # "closed"
    BY <2>1, DeliveryAssumption DEF Die, Hangup
  <2>2. CASE Accept(d)
    BY <2>2 DEF Accept, Waiting
  <2>3. CASE Probe(d) \/ Chmod(d) \/ TakeSignal(d) \/ Cleanup(d) \/ Start(d)
             \/ AcceptFails(d) \/ Arm(d)
    BY <2>3 DEF Probe, Chmod, TakeSignal, Cleanup, Start, AcceptFails, Arm
  <2>4. CASE Unlink(d) \/ Bind(d) \/ Exit(d) \/ Kill(d) \/ Sigterm(d)
    BY <2>1, <2>4 DEF Unlink, Bind, Exit, Kill, Sigterm
  <2> QED
    BY <2>2, <2>3, <2>4 DEF DaemonStep
<1> QED
  BY <1>1, <1>2 DEF ReadToTheEnd, Claimed, IsJson

\* No unit is read past what the prefix tells, and the one that completes it
\* settles whether there is an event.
LEMMA StepFrame == IInv /\ FrameInv /\ [Next]_vars => FrameInv'
<1> SUFFICES ASSUME IInv, FrameInv, [Next]_vars PROVE FrameInv'
  OBVIOUS
<1>0. TypeOK'
  BY StepInv DEF IInv
<1> SUFFICES ReadToTheEnd'
  BY <1>0 DEF FrameInv
<1> USE DEF FrameInv, TypeOK
<1>1. CASE UNCHANGED vars
  BY <1>1 DEF vars, ReadToTheEnd, Claimed, IsJson
<1>2. ASSUME NEW d \in Daemon,
             DaemonStep(d) \/ AcceptFails(d) \/ Start(d) \/ Sigterm(d) \/ Kill(d)
      PROVE  ReadToTheEnd'
  BY <1>2, DaemonStepFrame
<1>3. ASSUME NEW h \in Hook, HandlerStep(h) PROVE ReadToTheEnd'
  <2>1. CASE ReadSome(h)
    <3>1. /\ UNCHANGED <<hook, peer>>
          /\ \A g \in Hook \ {h} : /\ UNCHANGED <<conn[g], got[g]>>
                                   /\ g \in forwarded' <=> g \in forwarded
      BY <2>1 DEF ReadSome, hookVars
    <3>2. /\ hook[h] \notin {"check", "connect"}
          /\ conn'[h] # "closed" => got'[h] < PrefixLen + Claimed(h)
          /\ got'[h] <= PrefixLen + Claimed(h)
          /\ h \in forwarded' <=>
               got'[h] = PrefixLen + Claimed(h) /\ IsJson(h, Claimed(h))
      <4>1. /\ conn[h] = "open" /\ got[h] < PrefixLen + Claimed(h)
            /\ got'[h] = got[h] + 1 /\ got[h] \in Nat /\ Claimed(h) \in Nat
            /\ hook[h] \notin {"check", "connect"} /\ h \notin forwarded
        BY <2>1, Lengths, DeliveryAssumption DEF ReadSome, Served, ReadToTheEnd
      <4>2. CASE got'[h] = PrefixLen + Claimed(h)
        <5>1. got'[h] - PrefixLen = Claimed(h)
          BY <4>1, <4>2, DeliveryAssumption
        <5> QED
          BY <2>1, <4>1, <4>2, <5>1 DEF ReadSome, Complete, Parses
      <4>3. CASE got'[h] # PrefixLen + Claimed(h)
        BY <2>1, <4>1, <4>3, DeliveryAssumption DEF ReadSome, Complete
      <4> QED
        BY <4>2, <4>3
    <3> QED
      BY <3>1, <3>2 DEF ReadToTheEnd, Claimed, IsJson
  <2>2. CASE ShortFrame(h)
    BY <2>2 DEF ShortFrame, ReadToTheEnd, hookVars, Served, Claimed, IsJson
  <2> QED
    BY <1>3, <2>1, <2>2 DEF HandlerStep
<1>4. ASSUME NEW h \in Hook, HookStep(h) PROVE ReadToTheEnd'
  <2> USE DEF ReadToTheEnd, Finish, Enqueue, connVars, Claimed, IsJson
  <2>1. CASE CheckSocket(h) \/ ConnectRefused(h)
    BY <2>1 DEF CheckSocket, ConnectRefused
  <2>2. CASE Connect(h) \/ ConnectTimedOut(h)
    BY <2>2, Lengths DEF Connect, ConnectTimedOut
  <2>3. CASE Write(h) \/ WriteFails(h)
    BY <2>3 DEF Write, WriteFails, hookVars
  <2> QED
    BY <1>4, <2>1, <2>2, <2>3 DEF HookStep
<1> QED
  BY <1>1, <1>2, <1>3, <1>4 DEF Next

\* Read in pieces or as a whole, a frame holds the same event or the same error
\* (wire.rs:184-238), for prefixes of any length and range, and any bodies.
THEOREM PiecesMakeTheFrame == Spec => []ReadAgreesWithDecode
<1>1. Init => IInv /\ FrameInv
  <2>1. ASSUME Init PROVE ReadToTheEnd
    BY <2>1, Lengths, DeliveryAssumption DEF Init, ReadToTheEnd
  <2> QED
    BY <2>1, InitInv DEF IInv, FrameInv
<1>2. IInv /\ FrameInv /\ [Next]_vars => (IInv /\ FrameInv)'
  BY StepInv, StepFrame
<1>3. FrameInv => ReadAgreesWithDecode
  BY Lengths, DeliveryAssumption DEF FrameInv, TypeOK, ReadToTheEnd, ReadAgreesWithDecode, Decode
<1> QED
  BY <1>1, <1>2, <1>3, PTL DEF Spec
-------------------------------------------------------------------------------
\* A whole frame that fits its prefix decodes to its event, no part of one does,
\* and one that does not fit never does (encode_wire and decode_wire,
\* wire.rs:162-207), for prefixes of any length and range, and any bodies.
THEOREM OnlyWholeFramesDecode ==
  ASSUME NEW h \in Hook, NEW n \in 0..FrameLen(h)
  PROVE  Decode(h, n) = "event" <=> n = FrameLen(h) /\ Fits(h)
<1>1. /\ BodyLen[h] \in Nat /\ PrefixLen \in Nat /\ n \in Nat /\ n <= PrefixLen + BodyLen[h]
      /\ LenRange \in Nat \ {0}
  BY Lengths, DeliveryAssumption DEF FrameLen
<1>2. BodyLen[h] % LenRange = BodyLen[h] <=> BodyLen[h] < LenRange
  BY <1>1
<1> QED
  BY <1>1, <1>2 DEF Decode, IsJson, Claimed, Fits, FrameLen
-------------------------------------------------------------------------------
(***************************************************************************)
(* The refinement: each hook's event is handed off as Handoff has it.       *)
(***************************************************************************)
HInv == IInv /\ FrameInv

LEMMA InitHInv == Init => HInv
<1>1. ASSUME Init PROVE ReadToTheEnd
  BY <1>1, Lengths, DeliveryAssumption DEF Init, ReadToTheEnd
<1> QED
  BY <1>1, InitInv DEF HInv, IInv, FrameInv

LEMMA StepHInv == HInv /\ [Next]_vars => HInv'
  BY StepInv, StepFrame DEF HInv

\* What a step leaves alone of one event it leaves alone of its handoff.
LEMMA Apart ==
  ASSUME NEW h \in Hook,
         UNCHANGED outcome[h], h \in forwarded' <=> h \in forwarded,
         conn'[h] = "closed" <=> conn[h] = "closed"
  PROVE  UNCHANGED HandsOff(h)!vars
BY DEF HandsOff!vars, HandoffVerdict, HandoffEvent

\* A daemon process can only lose connections.
LEMMA DaemonStepHandsOff ==
  ASSUME HInv, NEW d \in Daemon, NEW h \in Hook,
         DaemonStep(d) \/ AcceptFails(d) \/ Start(d) \/ Sigterm(d) \/ Kill(d)
  PROVE  [HandsOff(h)!Next]_(HandsOff(h)!vars)
<1> USE DEF HInv, IInv, TypeOK
<1>1. UNCHANGED <<outcome, forwarded>>
  BY DaemonStepType DEF hookVars
<1>2. \/ conn'[h] = conn[h]
      \/ conn'[h] = "closed"
      \/ conn[h] = "queued" /\ conn'[h] = "open"
  <2>1. ASSUME Die(d) PROVE conn'[h] = conn[h] \/ conn'[h] = "closed"
    BY <2>1 DEF Die, Hangup
  <2>2. CASE Accept(d)
    BY <2>2 DEF Accept, Waiting
  <2>3. CASE Probe(d) \/ Chmod(d) \/ TakeSignal(d) \/ Cleanup(d) \/ Start(d)
             \/ AcceptFails(d) \/ Arm(d)
    BY <2>3 DEF Probe, Chmod, TakeSignal, Cleanup, Start, AcceptFails, Arm, connVars
  <2>4. CASE Unlink(d) \/ Bind(d) \/ Exit(d) \/ Kill(d) \/ Sigterm(d)
    BY <2>1, <2>4 DEF Unlink, Bind, Exit, Kill, Sigterm, connVars
  <2> QED
    BY <2>2, <2>3, <2>4 DEF DaemonStep
<1>3. CASE (conn'[h] = "closed") <=> (conn[h] = "closed")
  BY <1>1, <1>3, Apart
<1>4. CASE conn[h] # "closed" /\ conn'[h] = "closed" /\ h \in forwarded
  BY <1>1, <1>4 DEF HandsOff!vars, HandoffVerdict, HandoffEvent
<1>5. CASE conn[h] # "closed" /\ conn'[h] = "closed" /\ h \notin forwarded
  <2>1. HandsOff(h)!Lose
    BY <1>1, <1>5 DEF HandsOff!Lose, HandoffVerdict, HandoffEvent
  <2> QED
    BY <2>1 DEF HandsOff!Next
<1> QED
  BY <1>2, <1>3, <1>4, <1>5

\* A handler takes the event of a hook that has reported it delivered, or loses it.
LEMMA HandlerStepHandsOff ==
  ASSUME HInv, NEW g \in Hook, HandlerStep(g), NEW h \in Hook
  PROVE  [HandsOff(h)!Next]_(HandsOff(h)!vars)
<1> USE DEF HInv, IInv, FrameInv, TypeOK
<1>1. UNCHANGED outcome
  BY DEF HandlerStep, ReadSome, ShortFrame, hookVars
<1>2. CASE h # g
  <2>1. UNCHANGED conn[h] /\ (h \in forwarded' <=> h \in forwarded)
    BY <1>2 DEF HandlerStep, ReadSome, ShortFrame
  <2> QED
    BY <1>1, <2>1, Apart
<1>3. CASE h = g
  <2>1. conn[h] = "open" /\ h \notin forwarded
    BY <1>3, Lengths, DeliveryAssumption
    DEF HandlerStep, ReadSome, ShortFrame, Served, ReadToTheEnd
  <2>2. CASE UNCHANGED <<conn, forwarded>>
    BY <1>1, <2>2, Apart
  <2>3. CASE conn'[h] = "closed" /\ h \notin forwarded'
    <3>1. HandsOff(h)!Lose
      BY <1>1, <2>1, <2>3 DEF HandsOff!Lose, HandoffVerdict, HandoffEvent
    <3> QED
      BY <3>1 DEF HandsOff!Next
  <2>4. CASE h \in forwarded'
    <3>1. ReadSome(h) /\ got'[h] = PrefixLen + Claimed(h) /\ IsJson(h, got'[h] - PrefixLen)
      BY <1>3, <2>1, <2>4 DEF HandlerStep, ReadSome, ShortFrame, Complete, Parses
    <3>2. got'[h] = FrameLen(h) /\ got'[h] <= sent[h]
      BY <3>1, Lengths, DeliveryAssumption DEF ReadSome, IsJson, FrameLen
    <3>3. outcome[h] = "delivered"
      BY <3>2, Lengths DEF Shortfall, Failures
    <3>4. HandsOff(h)!Take
      BY <1>1, <2>1, <2>4, <3>3 DEF HandsOff!Take, HandoffVerdict, HandoffEvent
    <3> QED
      BY <3>4 DEF HandsOff!Next
  <2> QED
    BY <1>3, <2>1, <2>2, <2>3, <2>4 DEF HandlerStep, ReadSome, ShortFrame
<1> QED
  BY <1>2, <1>3

\* A hook reports once, before its event can have been taken.
LEMMA HookStepHandsOff ==
  ASSUME HInv, NEW g \in Hook, HookStep(g), NEW h \in Hook
  PROVE  [HandsOff(h)!Next]_(HandsOff(h)!vars)
<1> USE DEF HInv, IInv, FrameInv, TypeOK
<1>1. UNCHANGED forwarded /\ (conn'[h] = "closed" <=> conn[h] = "closed")
  BY DEF HookStep, CheckSocket, Connect, ConnectRefused, ConnectTimedOut, Write, WriteFails,
         Enqueue, connVars, ReadToTheEnd
<1>2. \/ UNCHANGED outcome[h]
      \/ h = g /\ outcome'[h] = "delivered" /\ Write(h)
      \/ h = g /\ outcome'[h] \in Failures
  BY DEF HookStep, CheckSocket, Connect, ConnectRefused, ConnectTimedOut, Write, WriteFails,
         Finish, hookVars, Failures
<1>3. CASE UNCHANGED outcome[h]
  BY <1>1, <1>3, Apart
<1>4. CASE h = g /\ outcome'[h] # outcome[h]
  <2>1. outcome[h] = "none" /\ h \notin forwarded
    BY <1>4, Lengths
    DEF HookStep, CheckSocket, Connect, ConnectRefused, ConnectTimedOut, Write, WriteFails,
        Shortfall
  <2>2. CASE outcome'[h] = "delivered" /\ Write(h)
    <3>1. HandsOff(h)!Deliver
      BY <1>1, <2>1, <2>2 DEF Write, HandsOff!Deliver, HandoffVerdict, HandoffEvent
    <3> QED
      BY <3>1 DEF HandsOff!Next
  <2>3. CASE outcome'[h] \in Failures
    <3>1. HandsOff(h)!Fail
      BY <1>1, <2>1, <2>3 DEF HandsOff!Fail, HandoffVerdict, HandoffEvent, Failures
    <3> QED
      BY <3>1 DEF HandsOff!Next
  <2> QED
    BY <1>2, <1>4, <2>2, <2>3
<1> QED
  BY <1>2, <1>3, <1>4

LEMMA StepHandsOff ==
  ASSUME HInv, [Next]_vars, NEW h \in Hook
  PROVE  [HandsOff(h)!Next]_(HandsOff(h)!vars)
<1>1. CASE UNCHANGED vars
  BY <1>1, Apart DEF vars
<1> QED
  BY <1>1, DaemonStepHandsOff, HandlerStepHandsOff, HookStepHandsOff DEF Next

\* For any number of hooks and daemons, overlapping or not, each delivery is a
\* behaviour of Handoff: a final exit status, and an event that is processed at
\* most once, only after it was written whole (dispatch.rs:11-18).
THEOREM EachDeliveryIsAHandoff == Spec => DeliversByContract
<1>1. Init => \A h \in Hook : HandsOff(h)!Init
  BY DEF Init, HandsOff!Init, HandoffVerdict, HandoffEvent
<1>2. HInv /\ [Next]_vars
      => [\A h \in Hook : [HandsOff(h)!Next]_(HandsOff(h)!vars)]_vars
  BY StepHandsOff
<1> QED
  BY <1>1, <1>2, InitHInv, StepHInv, PTL DEF Spec, DeliversByContract
-------------------------------------------------------------------------------
\* What is left to do is a number, and only the hook's own steps change it.
LEMMA StepsLeftFalls ==
  ASSUME IInv, IInv', [Next]_vars, NEW h \in Hook
  PROVE  /\ StepsLeft(h) \in Nat /\ StepsLeft(h)' <= StepsLeft(h)
         /\ HookStep(h) => StepsLeft(h)' < StepsLeft(h)
<1> USE Lengths DEF IInv, TypeOK
<1>1. StepsLeft(h) \in Nat /\ StepsLeft(h)' \in Nat
  BY DEF StepsLeft, FrameLen, Shortfall
<1>2. HookStep(h) => StepsLeft(h)' < StepsLeft(h)
  <2> USE DEF StepsLeft, FrameLen, Finish, connVars, Shortfall
  <2>1. CASE CheckSocket(h)
    BY <2>1 DEF CheckSocket
  <2>2. CASE Connect(h)
    BY <2>2 DEF Connect
  <2>3. CASE ConnectRefused(h) \/ ConnectTimedOut(h)
    BY <2>3 DEF ConnectRefused, ConnectTimedOut
  <2>4. CASE Write(h)
    BY <2>4 DEF Write, hookVars, Written
  <2>5. CASE WriteFails(h)
    BY <2>5 DEF WriteFails
  <2> QED
    BY <2>1, <2>2, <2>3, <2>4, <2>5 DEF HookStep
<1>3. ASSUME UNCHANGED <<hook[h], sent[h]>> PROVE StepsLeft(h)' = StepsLeft(h)
  BY <1>3 DEF StepsLeft, FrameLen
<1>4. CASE UNCHANGED vars
  BY <1>1, <1>2, <1>3, <1>4 DEF vars
<1>5. ASSUME NEW d \in Daemon,
             DaemonStep(d) \/ AcceptFails(d) \/ Start(d) \/ Sigterm(d) \/ Kill(d)
      PROVE  UNCHANGED <<hook[h], sent[h]>>
  BY <1>5, DaemonStepType DEF hookVars
<1>6. ASSUME NEW g \in Hook, HandlerStep(g) PROVE UNCHANGED <<hook[h], sent[h]>>
  BY <1>6 DEF HandlerStep, ReadSome, ShortFrame, hookVars
<1>7. ASSUME NEW g \in Hook \ {h}, HookStep(g) PROVE UNCHANGED <<hook[h], sent[h]>>
  BY <1>7
  DEF HookStep, CheckSocket, Connect, ConnectRefused, ConnectTimedOut, Write, WriteFails,
      Finish, hookVars, connVars
<1> QED
  BY <1>1, <1>2, <1>3, <1>4, <1>5, <1>6, <1>7 DEF Next

\* No hook does more than look for the file, connect and write its frame once
\* (dispatch.rs:20), for frames of any length and any number of hooks and daemons.
THEOREM HooksAdvance == Spec => HooksOnlyAdvance
<1>1. IInv /\ IInv' /\ [Next]_vars
      => [\A h \in Hook : /\ StepsLeft(h)' <= StepsLeft(h)
                          /\ HookStep(h) => StepsLeft(h)' < StepsLeft(h)]_vars
  BY StepsLeftFalls
<1> QED
  BY <1>1, InitInv, StepInv, PTL DEF Spec, HooksOnlyAdvance
-------------------------------------------------------------------------------
\* The socket file is written only by the one daemon that is alive, so that it
\* names that daemon from bind to the end of the loop.
LEMMA StepReach == IInv /\ ReachInv /\ [Next]_vars => ReachInv'
<1> SUFFICES ASSUME IInv, ReachInv, [Next]_vars PROVE ReachInv'
  OBVIOUS
<1>0. TypeOK'
  BY StepInv DEF IInv
<1> USE DEF ReachInv, OneAlive, AcceptingIsReachable
<1>1. CASE UNCHANGED <<pc, socket>>
  BY <1>0, <1>1
<1>2. ASSUME NEW d \in Daemon,
             DaemonStep(d) \/ AcceptFails(d) \/ Start(d) \/ Sigterm(d) \/ Kill(d)
      PROVE  ReachInv'
  <2> USE DEF Goto, Alive, Starting
  <2> SUFFICES ASSUME ~Overlap PROVE OneAlive' /\ AcceptingIsReachable'
    BY <1>0
  <2> USE DEF TypeOK
  <2>1. CASE Start(d)
    BY <2>1 DEF Start
  <2>2. CASE Probe(d) \/ Chmod(d) \/ TakeSignal(d)
    BY <2>2 DEF Probe, Chmod, TakeSignal
  <2>3. CASE Unlink(d) \/ Cleanup(d)
    BY <2>3 DEF Unlink, Cleanup, Die
  <2>4. CASE Bind(d)
    BY <2>4 DEF Bind, Die
  <2>5. CASE Accept(d) \/ AcceptFails(d) \/ Arm(d)
    BY <2>5 DEF Accept, AcceptFails, Arm
  <2>6. CASE Exit(d) \/ Kill(d)
    BY <2>6 DEF Exit, Kill, Die
  <2>7. CASE Sigterm(d)
    BY <2>7 DEF Sigterm, Die
  <2> QED
    BY <1>2, <2>1, <2>2, <2>3, <2>4, <2>5, <2>6, <2>7 DEF DaemonStep
<1>3. ASSUME NEW h \in Hook, HandlerStep(h) \/ HookStep(h)
      PROVE  UNCHANGED <<pc, socket>>
  BY <1>3, HandlerStepInv, HookStepInv DEF daemonVars
<1> QED
  BY <1>1, <1>2, <1>3 DEF Next, vars

\* Without overlap, whatever socket files crashed daemons left behind, a daemon
\* that accepts is the one that the file names (listener.rs:16-19).
THEOREM AcceptingDaemonsAreReachable == Spec => []AcceptingIsReachable
<1>1. Init => IInv /\ ReachInv
  BY InitInv
<1>2. IInv /\ ReachInv /\ [Next]_vars => (IInv /\ ReachInv)'
  BY StepInv, StepReach
<1>3. ReachInv => AcceptingIsReachable
  BY DEF ReachInv
<1> QED
  BY <1>1, <1>2, <1>3, PTL DEF Spec
===============================================================================
