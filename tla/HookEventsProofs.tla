---------------------------- MODULE HookEventsProofs ----------------------------
(***************************************************************************)
(* Theorems of HookEvents, for any number of turns, any inputs and any      *)
(* number of deliveries in any order.                                       *)
(***************************************************************************)
EXTENDS HookEvents, TLAPS

Event == {EventFor(in, k) : in \in Input, k \in HookKind}

Receipt == [turn : Turn, event : Event, new : BOOLEAN]

\* A turn keeps its input and its hook, and with them its event.
TypeInv ==
  /\ input \in [Turn -> Input] /\ kind \in [Turn -> HookKind]
  /\ receipts \in Seq(Receipt)
  /\ \A s \in DOMAIN sessions : "last_event_id" \in DOMAIN sessions[s]
  /\ \A i \in DOMAIN receipts :
       receipts[i].event = EventFor(input[receipts[i].turn], kind[receipts[i].turn])

LastId(s) == StateOf(sessions, s).last_event_id

HasId(i) == receipts[i].event.kind # "hook_degraded"

\* A session remembers no id but that of something delivered.
RemembersDelivered ==
  \A s \in DOMAIN sessions :
    LastId(s) # None =>
      \E i \in DOMAIN receipts : HasId(i) /\ receipts[i].event.id = LastId(s)

\* Between i and n nothing but the turn of i was delivered in its session.
Undisturbed(i, n) ==
  \A m \in i..n : receipts[m].turn = receipts[i].turn
                  \/ receipts[m].event.session # receipts[i].event.session

\* An undisturbed event is the one that its session remembers.
RemembersLast ==
  \A i \in DOMAIN receipts :
    HasId(i) /\ Undisturbed(i, Len(receipts)) =>
      LastId(receipts[i].event.session) = receipts[i].event.id
-------------------------------------------------------------------------------
\* An event is degraded, or has the message id or else the synthesized key.
LEMMA IdOfEvent ==
  ASSUME NEW in \in Input, NEW k \in HookKind,
         EventFor(in, k).kind # "hook_degraded"
  PROVE  /\ in \in Payload
         /\ EventFor(in, k).id =
              IF in.message_id \in MessageId THEN in.message_id ELSE EventKey(in, k)
<1>1. in \in Payload
  BY HookEventsAssumption DEF EventFor, Degraded
<1>2. EventFor(in, k) = build_event(in, k)
  BY <1>1, HookEventsAssumption DEF EventFor
<1>3. derive_event(in, k).stable
  BY <1>2 DEF build_event, Degraded
<1>4. EventFor(in, k).id = derive_event(in, k).event_id
  BY <1>2, <1>3 DEF build_event
<1> QED
  BY <1>1, <1>3, <1>4 DEF derive_event, Stable, Undeterminable

\* Turns that are told apart have different ids.
LEMMA IdsDiffer ==
  ASSUME NoCollision, TypeInv, NEW t \in Turn, NEW u \in Turn, ToldApart(t, u),
         EventFor(input[t], kind[t]).kind # "hook_degraded",
         EventFor(input[u], kind[u]).kind # "hook_degraded"
  PROVE  EventFor(input[t], kind[t]).id # EventFor(input[u], kind[u]).id
<1>1. /\ input[t] \in Input \cap Payload /\ input[u] \in Input \cap Payload
      /\ kind[t] \in HookKind /\ kind[u] \in HookKind
  BY IdOfEvent DEF TypeInv
<1>2. /\ EventFor(input[t], kind[t]).id =
           IF HasMessageId(t) THEN input[t].message_id ELSE EventKey(input[t], kind[t])
      /\ EventFor(input[u], kind[u]).id =
           IF HasMessageId(u) THEN input[u].message_id ELSE EventKey(input[u], kind[u])
  BY <1>1, IdOfEvent DEF HasMessageId
<1>3. CASE HasMessageId(t) /\ HasMessageId(u)
  BY <1>2, <1>3 DEF ToldApart
<1>4. CASE HasMessageId(t) # HasMessageId(u)
  BY <1>1, <1>2, <1>4 DEF NoCollision, HasMessageId
<1>5. CASE ~HasMessageId(t) /\ ~HasMessageId(u)
  <2>1. input[t] # input[u] \/ kind[t] # kind[u]
    BY <1>5 DEF ToldApart
  <2>2. EventKey(input[t], kind[t]) # EventKey(input[u], kind[u])
    BY <1>1, <2>1 DEF NoCollision, EventKey
  <2> QED
    BY <1>2, <1>5, <2>2
<1> QED
  BY <1>3, <1>4, <1>5

\* After a delivery its session remembers the event, unless it has no id; the
\* other sessions remember what they did.
LEMMA DeliverMap ==
  ASSUME TypeInv, NEW t \in Turn, Deliver(t), NEW e, e = EventFor(input[t], kind[t])
  PROVE  /\ \A s \in DOMAIN sessions' : "last_event_id" \in DOMAIN sessions'[s]
         /\ \A s : LastId(s)' = IF e.kind # "hook_degraded" /\ s = e.session
                                THEN e.id ELSE LastId(s)
         /\ \A s \in DOMAIN sessions' :
              s \in DOMAIN sessions \/ s = e.session
<1> DEFINE st == StateOf(sessions, e.session)
<1>1. "last_event_id" \in DOMAIN st
  BY DEF TypeInv, StateOf, DefaultState
<1>2. CASE e.kind = "hook_degraded"
  <2>1. sessions' = Touch(sessions, e.session)
    BY <1>2 DEF Deliver
  <2>2. CASE e.session = None
    BY <1>2, <2>1, <2>2 DEF Touch, TypeInv, LastId
  <2>3. CASE e.session # None
    <3>1. sessions' = Put(sessions, e.session, st)
      BY <2>1, <2>3 DEF Touch
    <3>2. /\ DOMAIN sessions' = DOMAIN sessions \cup {e.session}
          /\ \A s : StateOf(sessions', s) = StateOf(sessions, s)
      BY <3>1 DEF Put, StateOf
    <3>3. \A s \in DOMAIN sessions' : sessions'[s] = StateOf(sessions, s)
      BY <3>2 DEF StateOf
    <3>4. \A s : "last_event_id" \in DOMAIN StateOf(sessions, s)
      BY DEF TypeInv, StateOf, DefaultState
    <3> QED
      BY <1>2, <3>2, <3>3, <3>4 DEF LastId
  <2> QED
    BY <2>2, <2>3
<1>3. CASE e.kind # "hook_degraded"
  <2> DEFINE new == IF IsDuplicate(st, e.id) THEN st ELSE Recorded(st, e.id, e.path)
  <2>1. sessions' = Put(sessions, e.session, new)
    BY <1>3 DEF Deliver, RecordDedup
  <2>2. "last_event_id" \in DOMAIN new /\ new.last_event_id = e.id
    BY <1>1 DEF IsDuplicate, Recorded
  <2>3. /\ DOMAIN sessions' = DOMAIN sessions \cup {e.session}
        /\ \A s : StateOf(sessions', s) =
                    IF s = e.session THEN new ELSE StateOf(sessions, s)
    BY <2>1 DEF Put, StateOf
  <2>4. \A s \in DOMAIN sessions' :
          sessions'[s] = IF s = e.session THEN new ELSE StateOf(sessions, s)
    BY <2>3 DEF StateOf
  <2>5. \A s : "last_event_id" \in DOMAIN StateOf(sessions, s)
    BY DEF TypeInv, StateOf, DefaultState
  <2> HIDE DEF new
  <2> QED
    BY <1>3, <2>2, <2>3, <2>4, <2>5 DEF LastId
<1> QED
  BY <1>2, <1>3

\* The receipt that a delivery appends.
LEMMA DeliverReceipt ==
  ASSUME TypeInv, NEW t \in Turn, Deliver(t), NEW e, e = EventFor(input[t], kind[t])
  PROVE  LET n == Len(receipts) + 1
         IN  /\ Len(receipts) \in Nat /\ DOMAIN receipts = 1..Len(receipts)
             /\ DOMAIN receipts' = 1..n /\ Len(receipts') = n
             /\ \A i \in DOMAIN receipts : receipts'[i] = receipts[i]
             /\ receipts'[n].turn = t /\ receipts'[n].event = e
             /\ receipts'[n].new = ~(e.kind # "hook_degraded"
                                     /\ LastId(e.session) = e.id)
             /\ receipts' \in Seq(Receipt)
<1> DEFINE dup == e.kind # "hook_degraded" /\ IsDuplicate(StateOf(sessions, e.session), e.id)
           r == [turn |-> t, event |-> e, new |-> ~dup]
<1>1. receipts' = Append(receipts, r)
  BY DEF Deliver
<1>2. e \in Event
  BY DEF Event, TypeInv
<1>3. r \in Receipt
  BY <1>2 DEF Receipt
<1>4. dup = (e.kind # "hook_degraded" /\ LastId(e.session) = e.id)
  BY DEF IsDuplicate, LastId
<1>5. r.turn = t /\ r.event = e /\ r.new = ~dup
  OBVIOUS
<1> HIDE DEF r
<1>6. receipts \in Seq(Receipt)
  BY DEF TypeInv
<1> QED
  BY <1>1, <1>3, <1>4, <1>5, <1>6
-------------------------------------------------------------------------------
\* Deliveries keep the types, and each receipt the event of its turn.
LEMMA TypeStep == TypeInv /\ [Next]_vars => TypeInv'
<1> SUFFICES ASSUME TypeInv, [Next]_vars PROVE TypeInv'
  OBVIOUS
<1>1. CASE UNCHANGED vars
  BY <1>1 DEF vars, TypeInv
<1>2. ASSUME NEW t \in Turn, Deliver(t) PROVE TypeInv'
  <2> DEFINE e == EventFor(input[t], kind[t])
  <2>1. UNCHANGED <<input, kind>>
    BY <1>2 DEF Deliver
  <2> QED
    BY <1>2, <2>1, DeliverMap, DeliverReceipt DEF TypeInv
<1> QED
  BY <1>1, <1>2 DEF Next
\* Nothing is remembered that was not delivered.
LEMMA RemembersDeliveredStep ==
  TypeInv /\ RemembersDelivered /\ [Next]_vars => RemembersDelivered'
<1> SUFFICES ASSUME TypeInv, RemembersDelivered, [Next]_vars PROVE RemembersDelivered'
  OBVIOUS
<1>1. CASE UNCHANGED vars
  BY <1>1 DEF vars, RemembersDelivered, LastId, HasId
<1>2. ASSUME NEW t \in Turn, Deliver(t) PROVE RemembersDelivered'
  <2> DEFINE e == EventFor(input[t], kind[t])
  <2> PICK n : n = Len(receipts) + 1
    OBVIOUS
  <2>1. /\ \A s : LastId(s)' = IF e.kind # "hook_degraded" /\ s = e.session
                              THEN e.id ELSE LastId(s)
        /\ \A s \in DOMAIN sessions' : s \in DOMAIN sessions \/ s = e.session
    BY <1>2, DeliverMap
  <2>2. /\ Len(receipts) \in Nat /\ DOMAIN receipts = 1..Len(receipts)
        /\ DOMAIN receipts' = 1..n
        /\ \A i \in DOMAIN receipts : receipts'[i] = receipts[i]
        /\ receipts'[n].event = e
    BY <1>2, DeliverReceipt
  <2> HIDE DEF e
  <2> SUFFICES ASSUME NEW s \in DOMAIN sessions', LastId(s)' # None
               PROVE  \E i \in DOMAIN receipts' :
                        HasId(i)' /\ receipts'[i].event.id = LastId(s)'
    BY DEF RemembersDelivered
  <2>3. CASE e.kind # "hook_degraded" /\ s = e.session
    <3>1. n \in DOMAIN receipts' /\ HasId(n)' /\ receipts'[n].event.id = LastId(s)'
      BY <2>1, <2>2, <2>3 DEF HasId
    <3> QED
      BY <3>1
  <2>4. CASE ~(e.kind # "hook_degraded" /\ s = e.session)
    <3>1. LastId(s) # None /\ LastId(s)' = LastId(s)
      BY <2>1, <2>4
    <3>2. s \in DOMAIN sessions
      BY <3>1 DEF LastId, StateOf, DefaultState
    <3>3. PICK i \in DOMAIN receipts : HasId(i) /\ receipts[i].event.id = LastId(s)
      BY <3>1, <3>2 DEF RemembersDelivered
    <3>4. i \in DOMAIN receipts' /\ HasId(i)' /\ receipts'[i].event.id = LastId(s)'
      BY <2>2, <3>1, <3>3 DEF HasId
    <3> QED
      BY <3>4
  <2> QED
    BY <2>3, <2>4
<1> QED
  BY <1>1, <1>2 DEF Next

\* A first delivery finds another turn's id, if any, in its session.
LEMMA ToldApartStep ==
  ASSUME NoCollision
  PROVE  TypeInv /\ RemembersDelivered /\ ToldApartIsProcessed /\ [Next]_vars
           => ToldApartIsProcessed'
<1> SUFFICES ASSUME TypeInv, RemembersDelivered, ToldApartIsProcessed, [Next]_vars
             PROVE  ToldApartIsProcessed'
  OBVIOUS
<1>1. CASE UNCHANGED vars
  BY <1>1 DEF vars, ToldApartIsProcessed, FirstReceipt, ToldApart, HasMessageId
<1>2. ASSUME NEW t \in Turn, Deliver(t) PROVE ToldApartIsProcessed'
  <2> DEFINE e == EventFor(input[t], kind[t])
  <2> PICK n : n = Len(receipts) + 1
    OBVIOUS
  <2>1. /\ Len(receipts) \in Nat /\ DOMAIN receipts = 1..Len(receipts)
        /\ DOMAIN receipts' = 1..n
        /\ \A i \in DOMAIN receipts : receipts'[i] = receipts[i]
        /\ receipts'[n].turn = t
        /\ receipts'[n].new = ~(e.kind # "hook_degraded" /\ LastId(e.session) = e.id)
    BY <1>2, DeliverReceipt
  <2>2. \A i \in DOMAIN receipts : receipts[i].turn \in Turn
    <3>1. receipts \in Seq(Receipt)
      BY DEF TypeInv
    <3>2. \A i \in DOMAIN receipts : receipts[i] \in Receipt
      BY <3>1
    <3> QED
      BY <3>2 DEF Receipt
  <2>3. UNCHANGED <<input, kind>>
    BY <1>2 DEF Deliver
  <2>4. ASSUME NEW i \in DOMAIN receipts', FirstReceipt(i)',
               \A u \in Turn \ {receipts'[i].turn} : ToldApart(receipts'[i].turn, u)
        PROVE  receipts'[i].new
    <3>1. CASE i \in DOMAIN receipts
      <4>1. FirstReceipt(i)
        BY <2>1, <2>4, <3>1 DEF FirstReceipt
      <4>2. receipts'[i] = receipts[i] /\ receipts[i].turn \in Turn
        BY <2>1, <2>2, <3>1
      <4>3. \A u \in Turn \ {receipts[i].turn} : ToldApart(receipts[i].turn, u)
        BY <2>4, <4>2
      <4> QED
        BY <3>1, <4>1, <4>2, <4>3 DEF ToldApartIsProcessed
    <3>2. CASE i = n
      <4>1. \A u \in Turn \ {t} : ToldApart(t, u)
        BY <2>1, <2>4, <3>2
      <4>2. \A j \in DOMAIN receipts : receipts[j].turn # t
        BY <2>1, <2>4, <3>2 DEF FirstReceipt
      <4>3. ASSUME e.kind # "hook_degraded", LastId(e.session) = e.id PROVE FALSE
        <5>1. input[t] \in Input /\ kind[t] \in HookKind
          BY DEF TypeInv
        <5>2. e.id # None
          BY <4>3, <5>1, IdOfEvent, HookEventsAssumption DEF NoCollision
        <5>3. e.session \in DOMAIN sessions
          BY <4>3, <5>2 DEF LastId, StateOf, DefaultState
        <5>4. PICK j \in DOMAIN receipts :
                HasId(j) /\ receipts[j].event.id = LastId(e.session)
          BY <4>3, <5>2, <5>3 DEF RemembersDelivered
        <5>5. /\ receipts[j].turn \in Turn /\ receipts[j].turn # t
              /\ receipts[j].event =
                   EventFor(input[receipts[j].turn], kind[receipts[j].turn])
          BY <2>2, <4>2, <5>4 DEF TypeInv
        <5>6. e.id # receipts[j].event.id
          BY <4>1, <4>3, <5>4, <5>5, IdsDiffer DEF HasId
        <5> QED
          BY <4>3, <5>4, <5>6
      <4> QED
        BY <2>1, <3>2, <4>3
    <3> QED
      BY <2>1, <3>1, <3>2
  <2> QED
    BY <2>3, <2>4 DEF ToldApartIsProcessed, ToldApart, HasMessageId
<1> QED
  BY <1>1, <1>2 DEF Next

\* An event stays the remembered one until another turn comes to its session,
\* and is therefore found a duplicate.
LEMMA RetryStep ==
  TypeInv /\ RemembersLast /\ RetryIsDropped /\ [Next]_vars
    => RemembersLast' /\ RetryIsDropped'
<1> SUFFICES ASSUME TypeInv, RemembersLast, RetryIsDropped, [Next]_vars
             PROVE  RemembersLast' /\ RetryIsDropped'
  OBVIOUS
<1>1. CASE UNCHANGED vars
  BY <1>1 DEF vars, RemembersLast, RetryIsDropped, LastId, HasId, Undisturbed
<1>2. ASSUME NEW t \in Turn, Deliver(t) PROVE RemembersLast' /\ RetryIsDropped'
  <2> DEFINE e == EventFor(input[t], kind[t])
  <2> PICK n : n = Len(receipts) + 1
    OBVIOUS
  <2>1. /\ Len(receipts) \in Nat /\ DOMAIN receipts = 1..Len(receipts)
        /\ DOMAIN receipts' = 1..n /\ Len(receipts') = n
        /\ \A i \in DOMAIN receipts : receipts'[i] = receipts[i]
        /\ receipts'[n].turn = t /\ receipts'[n].event = e
        /\ receipts'[n].new = ~(e.kind # "hook_degraded" /\ LastId(e.session) = e.id)
    BY <1>2, DeliverReceipt
  <2>2. \A s : LastId(s)' = IF e.kind # "hook_degraded" /\ s = e.session
                           THEN e.id ELSE LastId(s)
    BY <1>2, DeliverMap
  <2>3. \A i \in DOMAIN receipts : receipts[i].turn = t => receipts[i].event = e
    BY DEF TypeInv
  <2> HIDE DEF e
  <2>4. ASSUME NEW i \in DOMAIN receipts, HasId(i),
               \A m \in i..Len(receipts) :
                 receipts[m].turn = receipts[i].turn
                 \/ receipts[m].event.session # receipts[i].event.session
        PROVE  LastId(receipts[i].event.session) = receipts[i].event.id
    BY <2>4 DEF RemembersLast, Undisturbed
  <2>5. RemembersLast'
    <3> SUFFICES ASSUME NEW i \in DOMAIN receipts', HasId(i)', Undisturbed(i, n)',
                        NEW s, s = receipts'[i].event.session
                 PROVE  LastId(s)' = receipts'[i].event.id
      BY <2>1 DEF RemembersLast, LastId
    <3>1. CASE i = n
      BY <2>1, <2>2, <3>1 DEF HasId
    <3>2. CASE i \in DOMAIN receipts
      <4>1. receipts'[i] = receipts[i] /\ HasId(i)
        BY <2>1, <3>2 DEF HasId
      <4>2. \A m \in i..n :
              receipts'[m].turn = receipts[i].turn
              \/ receipts'[m].event.session # receipts[i].event.session
        BY <4>1 DEF Undisturbed
      <4>3. LastId(s) = receipts[i].event.id
        BY <2>1, <2>4, <3>2, <4>1, <4>2
      <4>4. t = receipts[i].turn \/ e.session # s
        BY <2>1, <3>2, <4>1, <4>2
      <4>5. LastId(s)' = receipts[i].event.id
        BY <2>2, <2>3, <3>2, <4>3, <4>4
      <4> QED
        BY <4>1, <4>5
    <3> QED
      BY <2>1, <3>1, <3>2
  <2>6. RetryIsDropped'
    <3> SUFFICES ASSUME NEW i \in DOMAIN receipts', NEW j \in DOMAIN receipts', i < j,
                        receipts'[i].turn = receipts'[j].turn, HasId(i)',
                        Undisturbed(i, j)'
                 PROVE  ~receipts'[j].new
      BY DEF RetryIsDropped, HasId, Undisturbed
    <3>1. i \in DOMAIN receipts /\ receipts'[i] = receipts[i] /\ HasId(i)
      BY <2>1 DEF HasId
    <3>2. CASE j \in DOMAIN receipts
      <4>1. \A m \in i..j : receipts'[m] = receipts[m]
        BY <2>1, <3>1, <3>2
      <4>2. Undisturbed(i, j)
        BY <4>1, <3>1 DEF Undisturbed
      <4> QED
        BY <2>1, <3>1, <3>2, <4>2 DEF RetryIsDropped, HasId, Undisturbed
    <3>3. CASE j = n
      <4>1. \A m \in i..Len(receipts) :
              receipts[m].turn = receipts[i].turn
              \/ receipts[m].event.session # receipts[i].event.session
        BY <2>1, <3>1, <3>3 DEF Undisturbed
      <4>2. LastId(receipts[i].event.session) = receipts[i].event.id
        BY <2>4, <3>1, <4>1
      <4>3. receipts[i].event = e
        BY <2>1, <2>3, <3>1, <3>3
      <4> QED
        BY <2>1, <3>1, <3>3, <4>2, <4>3 DEF HasId
    <3> QED
      BY <2>1, <3>2, <3>3
  <2> QED
    BY <2>5, <2>6
<1> QED
  BY <1>1, <1>2 DEF Next
-------------------------------------------------------------------------------
\* If the content hash does not collide, the first delivery of a turn that can
\* be told apart from all others is processed, whatever came before and in
\* whatever session (payload.rs:16-19, 173-175).
THEOREM DistinctTurnsAreProcessed ==
  ASSUME NoCollision
  PROVE  Spec => []ToldApartIsProcessed
<1> DEFINE Inv == TypeInv /\ RemembersDelivered /\ ToldApartIsProcessed
<1>1. Init => Inv
  BY DEF Init, TypeInv, RemembersDelivered, ToldApartIsProcessed
<1>2. Inv /\ [Next]_vars => Inv'
  BY TypeStep, RemembersDeliveredStep, ToldApartStep
<1>3. Inv => ToldApartIsProcessed
  OBVIOUS
<1> QED
  BY <1>1, <1>2, <1>3, PTL DEF Spec

\* A retry is dropped as long as no other turn came to its session after the
\* original, however many retries and whatever other sessions come in between
\* (dispatch.rs:20-21).
THEOREM RetriesAreDropped == Spec => []RetryIsDropped
<1> DEFINE Inv == TypeInv /\ RemembersLast /\ RetryIsDropped
<1>1. Init => Inv
  BY DEF Init, TypeInv, RemembersLast, RetryIsDropped
<1>2. Inv /\ [Next]_vars => Inv'
  BY TypeStep, RetryStep
<1>3. Inv => RetryIsDropped
  OBVIOUS
<1> QED
  BY <1>1, <1>2, <1>3, PTL DEF Spec
===============================================================================
