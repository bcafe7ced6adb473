--------------------------- MODULE MailboxProofs ---------------------------
(***************************************************************************)
(* Proofs about Mailbox, for any number of responsers, parameters,         *)
(* messages and spurious wakeups.                                          *)
(***************************************************************************)
EXTENDS Mailbox, TLAPS

\* The number of the message whose eventID is in a responser's slot.
Latest(r) == eventMsg[r][0].id

\* The eventID is in the slot and its signal is still to come.
Announcing(r) == fpc = "set" /\ fres = r /\ 0 \in copied

\* Between two messages nothing is half copied; the one being copied is newer than
\* what it overwrites.
ForwarderInv ==
  /\ fpc = "idle" => copied = {}
  /\ fpc = "set" => /\ fmsg.id > 0
                    /\ 0 \in copied => fmsg.id = Latest(fres)
                    /\ 0 \notin copied => fmsg.id > Latest(fres)

\* What a thread has called is not newer than what it is about to call, nor that
\* than its slot, which is only ever overwritten by newer messages.
OrderInv ==
  \A r \in Responsers :
    /\ \A k \in DOMAIN calls[r] : calls[r][k].event.id <= Latest(r)
    /\ spc[r] = "unpack" =>
         /\ event[r].id <= Latest(r)
         /\ \A k \in DOMAIN calls[r] : calls[r][k].event.id <= event[r].id

\* A thread that signals alone can wake is awake only if a message was copied.
Asked(r) ==
  /\ spc[r] \in {"switch", "unpack"} => Latest(r) > 0
  /\ spc[r] = "unpack" => event[r].id > 0
  /\ \A k \in DOMAIN calls[r] : calls[r][k].event.id > 0
AskedInv == spurious = 0 => \A r \in Responsers : Asked(r)

\* How often message i has been called; Due says that the thread, as it stands,
\* will call it once more.
None(r, i)  == CallsOf(r, i) = {}
Once(r, i)  == \A j, k \in CallsOf(r, i) : j = k
Twice(r, i) == \A j, k, l \in CallsOf(r, i) : j = k \/ k = l \/ j = l
Due(r, i) ==
  \/ spc[r] = "switch" /\ Latest(r) = i
  \/ spc[r] = "unpack" /\ event[r].id = i

\* Before its signal a message is called once at most, calls that are due counted
\* in, and twice after it: a signal makes one call due, and only of a thread that
\* waits, so of one with none due.
Counted(r, i) ==
  /\ Twice(r, i)
  /\ Due(r, i) => Once(r, i)
  /\ Announcing(r) /\ Latest(r) = i => Once(r, i) /\ (Due(r, i) => None(r, i))
CountInv == spurious = 0 => \A r \in Responsers : \A i \in Nat : Counted(r, i)

-----------------------------------------------------------------------------
(* Types.                                                                   *)

LEMMA SlotTyped ==
  /\ Zero \in Slot /\ Zero.id = 0 /\ 0 \in Fields
  /\ \A m \in Slot : Copy(m) \in Slot /\ Copy(m).id = m.id
  BY ResponserAssumption DEF Zero, Slot, Copy, Fields

LEMMA LatestTyped == TypeOK => \A r \in Responsers : Latest(r) \in Nat /\ event[r].id \in Nat
  BY SlotTyped DEF TypeOK, Latest, Slot

\* What a call adds to the history.
Grows(r, m) ==
  \E n \in Nat :
    /\ DOMAIN calls[r] = 1..n /\ DOMAIN calls'[r] = 1..n + 1
    /\ calls'[r][n + 1].event = m
    /\ \A k \in 1..n : calls'[r][k] = calls[r][k]

LEMMA CalledGrows ==
  ASSUME calls \in [Responsers -> Seq(CallRec)], NEW r \in Responsers,
         NEW m \in Slot, NEW s \in Seq(Slot), Called(r, m, s)
  PROVE  /\ calls' \in [Responsers -> Seq(CallRec)]
         /\ \A q \in Responsers : q # r => calls'[q] = calls[q]
         /\ Grows(r, m)
<1>. DEFINE c == [event |-> m, args |-> s]
            t == calls[r]
<1>1. c \in CallRec /\ c.event = m /\ t \in Seq(CallRec)
  BY DEF CallRec
<1>2. calls' = [calls EXCEPT ![r] = Append(t, c)]
  BY DEF Called
<1>3. /\ Append(t, c) \in Seq(CallRec) /\ Len(t) \in Nat
      /\ DOMAIN t = 1..Len(t) /\ DOMAIN Append(t, c) = 1..Len(t) + 1
      /\ Append(t, c)[Len(t) + 1] = c /\ \A k \in 1..Len(t) : Append(t, c)[k] = t[k]
  BY <1>1
<1>4. calls'[r] = Append(t, c)
  BY <1>2
<1>. HIDE DEF c
<1>. QED BY <1>1, <1>2, <1>3, <1>4 DEF Grows

LEMMA TypeInit == MailboxInit => TypeOK
<1>. SUFFICES ASSUME MailboxInit PROVE TypeOK
  OBVIOUS
<1>1. NoOne \in Responsers
  BY ComDefAssumption DEF NoOne
<1>2. <<>> \in Seq(Slot) /\ <<>> \in Seq(CallRec)
  OBVIOUS
<1>. QED
  BY <1>1, <1>2, SlotTyped, ResponserAssumption DEF MailboxInit, ResInit, Empty, TypeOK, ResPC

LEMMA TypeStep == TypeOK /\ [MailboxNext]_mailboxVars => TypeOK'
<1>. SUFFICES ASSUME TypeOK, [MailboxNext]_mailboxVars PROVE TypeOK'
  OBVIOUS
<1>. USE ResponserAssumption, SlotTyped DEF TypeOK
<1>1. ASSUME NEW r \in Responsers, NEW i \in 1..MaxDeliver[r], NEW e \in EventIDs, Take(r, i, e)
      PROVE  TypeOK'
  <2>1. [id |-> i, eventID |-> e] \in Slot
    BY MailboxAssumption DEF Slot
  <2>. QED BY <1>1, <2>1 DEF Take, resVars
<1>2. ASSUME NEW f \in Fields, SetEventField(f) PROVE TypeOK'
  BY <1>2 DEF SetEventField, CopyField, forwarder
<1>3. CASE SignalRes
  <2>1. NoOne \in Responsers
    BY ComDefAssumption DEF NoOne
  <2>. QED BY <1>3, <2>1 DEF SignalRes, Signal, ResPC
<1>4. ASSUME NEW r \in Responsers, OnResponser(r), UNCHANGED forwarder PROVE TypeOK'
  <2>1. CASE Wait(r)
    BY <1>4, <2>1 DEF Wait, Resume, ResPC, forwarder
  <2>2. CASE SpuriousWakeup(r)
    BY <1>4, <2>2 DEF SpuriousWakeup, Resume, ResPC, forwarder
  <2>3. CASE Switch(r)
    <3>1. eventMsg[r][0] \in Slot /\ <<>> \in Seq(Slot)
      OBVIOUS
    <3>2. calls' \in [Responsers -> Seq(CallRec)]
      <4>1. calls' = calls \/ Called(r, eventMsg[r][0], <<>>)
        BY <2>3 DEF Switch
      <4>. QED BY <3>1, <4>1, CalledGrows
    <3>3. spc' \in [Responsers -> ResPC] /\ event' \in [Responsers -> Slot]
      BY <2>3, <3>1 DEF Switch, Resume, ResPC
    <3>. QED BY <1>4, <2>3, <3>2, <3>3 DEF Switch, forwarder
  <2>4. CASE UnPack(r)
    <3>1. Len(args[r]) + 1 \in Fields /\ args[r] \in Seq(Slot)
      BY <2>4 DEF UnPack, Fields
    <3>2. Append(args[r], eventMsg[r][Len(args[r]) + 1]) \in Seq(Slot)
      BY <3>1
    <3>3. args' \in [Responsers -> Seq(Slot)]
      BY <2>4, <3>2 DEF UnPack
    <3>. QED BY <1>4, <2>4, <3>3 DEF UnPack, forwarder
  <2>5. CASE CallFun(r)
    <3>1. calls' \in [Responsers -> Seq(CallRec)]
      BY <2>5, CalledGrows DEF CallFun
    <3>2. /\ spc' \in [Responsers -> ResPC] /\ event' \in [Responsers -> Slot]
          /\ args' \in [Responsers -> Seq(Slot)]
      BY <2>5 DEF CallFun, Resume, ResPC
    <3>. QED BY <1>4, <2>5, <3>1, <3>2 DEF CallFun, forwarder
  <2>. QED BY <1>4, <2>1, <2>2, <2>3, <2>4, <2>5 DEF OnResponser
<1>5. CASE Rest \/ UNCHANGED mailboxVars
  BY <1>5 DEF Rest, mailboxVars, resVars, forwarder
<1>. QED BY <1>1, <1>2, <1>3, <1>4, <1>5 DEF MailboxNext, ForwarderStep

\* The responsers' state and the forwarder's keep their types.
THEOREM MailboxTypeOK == MailboxSpec => []TypeOK
  BY TypeInit, TypeStep, PTL DEF MailboxSpec

-----------------------------------------------------------------------------
(* What the steps do, as far as the invariants can see.                     *)

\* The number of the message that thread r calls in this step, if it does.
Calling(r) == IF spc[r] = "switch" THEN Latest(r) ELSE event[r].id

\* A step of thread r calls the function that was due, or none; it then goes on
\* unless it was woken for nothing.
ThreadStep(r) ==
  /\ UNCHANGED <<eventMsg, copied, fpc, fres, fmsg>> /\ spurious' \in {spurious, spurious + 1}
  /\ \A q \in Responsers : q # r => spc'[q] = spc[q] /\ event'[q] = event[q] /\ calls'[q] = calls[q]
  /\ \/ /\ spc[r] \in {"switch", "unpack"} /\ spc'[r] = "start"
        /\ \E m \in Slot : m.id = Calling(r) /\ Grows(r, m)
     \/ /\ calls'[r] = calls[r]
        /\ \/ spc'[r] \in {"start", "wait"}
           \/ spc'[r] = "switch" /\ spurious' = spurious + 1
           \/ spc'[r] = "unpack" /\ spc[r] \in {"switch", "unpack"} /\ event'[r].id = Calling(r)

LEMMA ResponserSteps ==
  ASSUME TypeOK, NEW r \in Responsers, OnResponser(r), UNCHANGED forwarder
  PROVE  ThreadStep(r)
<1>. USE DEF TypeOK
<1>0. spc \in [Responsers -> ResPC] /\ event \in [Responsers -> Slot]
      /\ calls \in [Responsers -> Seq(CallRec)]
  OBVIOUS
<1>1. CASE Wait(r)
  BY <1>1 DEF Wait, Resume, ThreadStep, forwarder
<1>2. CASE SpuriousWakeup(r)
  BY <1>2 DEF SpuriousWakeup, Resume, ThreadStep, forwarder
<1>3. CASE Switch(r)
  <2>. DEFINE e == eventMsg[r][0]
  <2>1. e \in Slot /\ e.id = Latest(r) /\ spc[r] = "switch" /\ <<>> \in Seq(Slot)
    BY <1>3, SlotTyped DEF Switch, Latest
  <2>2. UNCHANGED <<eventMsg, copied, fpc, fres, fmsg, spurious>>
    BY <1>3 DEF Switch, forwarder
  <2>3. \/ Resume(r, "start") /\ UNCHANGED <<event, calls>>
        \/ Resume(r, "start") /\ Called(r, e, <<>>) /\ UNCHANGED event
        \/ Resume(r, "unpack") /\ event' = [event EXCEPT ![r] = e] /\ UNCHANGED calls
    BY <1>3 DEF Switch
  <2>. HIDE DEF e
  <2>4. CASE Resume(r, "start") /\ UNCHANGED <<event, calls>>
    BY <2>2, <2>4 DEF Resume, ThreadStep
  <2>5. CASE Resume(r, "start") /\ Called(r, e, <<>>) /\ UNCHANGED event
    <3>1. Grows(r, e) /\ \A q \in Responsers : q # r => calls'[q] = calls[q]
      BY <2>1, <2>5, CalledGrows
    <3>2. spc'[r] = "start" /\ \A q \in Responsers : q # r => spc'[q] = spc[q]
      BY <2>5 DEF Resume
    <3>. QED BY <2>1, <2>2, <2>5, <3>1, <3>2 DEF ThreadStep, Calling
  <2>6. CASE Resume(r, "unpack") /\ event' = [event EXCEPT ![r] = e] /\ UNCHANGED calls
    BY <2>1, <2>2, <2>6 DEF Resume, ThreadStep, Calling
  <2>. QED BY <2>3, <2>4, <2>5, <2>6
<1>4. CASE UnPack(r)
  BY <1>4 DEF UnPack, ThreadStep, Calling, forwarder
<1>5. CASE CallFun(r)
  <2>1. Grows(r, event[r]) /\ \A q \in Responsers : q # r => calls'[q] = calls[q]
    BY <1>5, CalledGrows DEF CallFun
  <2>2. /\ spc[r] = "unpack" /\ spc'[r] = "start"
        /\ \A q \in Responsers : q # r => spc'[q] = spc[q] /\ event'[q] = event[q]
    BY <1>5 DEF CallFun, Resume
  <2>3. UNCHANGED <<eventMsg, copied, fpc, fres, fmsg, spurious>>
    BY <1>5 DEF CallFun, forwarder
  <2>. QED BY <2>1, <2>2, <2>3 DEF ThreadStep, Calling
<1>. QED BY <1>1, <1>2, <1>3, <1>4, <1>5 DEF OnResponser

LEMMA CopySteps ==
  ASSUME TypeOK, NEW f \in Fields, SetEventField(f)
  PROVE  /\ fpc = "set" /\ f \notin copied /\ copied' = copied \cup {f}
         /\ UNCHANGED <<fpc, fres, fmsg, spc, event, calls, spurious>>
         /\ \A q \in Responsers :
              Latest(q)' = IF q = fres /\ f = 0 THEN fmsg.id ELSE Latest(q)
<1>1. eventMsg' = [eventMsg EXCEPT ![fres][f] = Copy(fmsg)] /\ Copy(fmsg).id = fmsg.id
  BY SlotTyped DEF SetEventField, CopyField, TypeOK
<1>2. \A q \in Responsers :
         eventMsg'[q][0] = IF q = fres /\ f = 0 THEN Copy(fmsg) ELSE eventMsg[q][0]
  BY <1>1, SlotTyped DEF TypeOK
<1>. QED BY <1>1, <1>2 DEF SetEventField, CopyField, forwarder, Latest

LEMMA SignalSteps ==
  ASSUME TypeOK, SignalRes
  PROVE  /\ fpc = "set" /\ 0 \in copied /\ fpc' = "idle" /\ copied' = {}
         /\ UNCHANGED <<eventMsg, event, calls, spurious>>
         /\ \A q \in Responsers :
              \/ spc'[q] = spc[q]
              \/ q = fres /\ spc[q] = "wait" /\ spc'[q] = "switch"
  BY SlotTyped DEF SignalRes, SetDone, Signal, TypeOK

\* Every step is one of these.
LEMMA StepKinds ==
  ASSUME TypeOK, [MailboxNext]_mailboxVars
  PROVE  \/ \E r \in Responsers : \E i \in 1..MaxDeliver[r], e \in EventIDs : Take(r, i, e)
         \/ \E f \in Fields : SetEventField(f)
         \/ SignalRes
         \/ \E r \in Responsers : ThreadStep(r)
         \/ UNCHANGED mailboxVars
  BY ResponserSteps DEF MailboxNext, ForwarderStep, Rest

-----------------------------------------------------------------------------
(* The forwarder, and the order of the calls.                               *)

LEMMA ForwarderInvStep ==
  ASSUME TypeOK, ForwarderInv, [MailboxNext]_mailboxVars PROVE ForwarderInv'
<1>0. fres \in Responsers
  BY DEF TypeOK
<1>1. ASSUME NEW r \in Responsers, NEW i \in 1..MaxDeliver[r], NEW e \in EventIDs, Take(r, i, e)
      PROVE  ForwarderInv'
  BY <1>1 DEF Take, ForwarderInv, Latest, resVars
<1>2. ASSUME NEW f \in Fields, SetEventField(f) PROVE ForwarderInv'
  BY <1>0, <1>2, CopySteps DEF ForwarderInv
<1>3. CASE SignalRes
  BY <1>3, SignalSteps DEF ForwarderInv
<1>4. CASE (\E r \in Responsers : ThreadStep(r)) \/ UNCHANGED mailboxVars
  BY <1>4 DEF ThreadStep, mailboxVars, resVars, forwarder, ForwarderInv, Latest
<1>. QED BY <1>1, <1>2, <1>3, <1>4, StepKinds

LEMMA OrderInvStep ==
  ASSUME TypeOK, ForwarderInv, OrderInv, CallsInOrder, [MailboxNext]_mailboxVars
  PROVE  OrderInv' /\ CallsInOrder'
<1>0. \A r \in Responsers :
        /\ Latest(r) \in Nat /\ event[r].id \in Nat
        /\ \A k \in DOMAIN calls[r] : calls[r][k].event.id \in Nat
  <2>1. \A r \in Responsers : \A k \in DOMAIN calls[r] : calls[r][k] \in CallRec
    BY DEF TypeOK
  <2>. QED BY <2>1, LatestTyped DEF CallRec, Slot
<1>1. ASSUME NEW f \in Fields, SetEventField(f) PROVE OrderInv' /\ CallsInOrder'
  <2>1. \A q \in Responsers : Latest(q)' \in Nat /\ Latest(q) <= Latest(q)'
    <3>1. fmsg.id \in Nat /\ fres \in Responsers
      BY DEF TypeOK, Slot
    <3>2. f = 0 => fmsg.id > Latest(fres)
      BY <1>1, CopySteps DEF ForwarderInv
    <3>3. \A q \in Responsers : Latest(q)' = IF q = fres /\ f = 0 THEN fmsg.id ELSE Latest(q)
      BY <1>1, CopySteps
    <3>. QED BY <1>0, <3>1, <3>2, <3>3
  <2>2. UNCHANGED <<spc, event, calls>>
    BY <1>1, CopySteps
  <2>. QED BY <1>0, <2>1, <2>2 DEF OrderInv, CallsInOrder
<1>2. CASE SignalRes
  BY <1>2, SignalSteps DEF OrderInv, CallsInOrder, Latest
<1>3. ASSUME NEW r \in Responsers, ThreadStep(r) PROVE OrderInv' /\ CallsInOrder'
  <2>1. \A q \in Responsers : Latest(q)' = Latest(q)
    BY <1>3 DEF ThreadStep, Latest
  <2>2. CASE calls'[r] = calls[r]
    BY <1>0, <1>3, <2>1, <2>2 DEF ThreadStep, Calling, OrderInv, CallsInOrder
  <2>3. ASSUME NEW m \in Slot, m.id = Calling(r), Grows(r, m),
               spc[r] \in {"switch", "unpack"}, spc'[r] = "start"
        PROVE  OrderInv' /\ CallsInOrder'
    <3>1. m.id <= Latest(r) /\ \A k \in DOMAIN calls[r] : calls[r][k].event.id <= m.id
      BY <1>0, <2>3 DEF Calling, OrderInv
    <3>2. PICK n \in Nat :
            /\ DOMAIN calls[r] = 1..n /\ DOMAIN calls'[r] = 1..n + 1
            /\ calls'[r][n + 1].event = m
            /\ \A k \in 1..n : calls'[r][k] = calls[r][k]
      BY <2>3 DEF Grows
    <3>3. \A k \in DOMAIN calls'[r] : k = n + 1 \/ k \in 1..n
      BY <3>2
    <3>4. \A k \in DOMAIN calls'[r] : calls'[r][k].event.id <= Latest(r)
      BY <3>1, <3>2, <3>3 DEF OrderInv
    <3>5. \A j, k \in DOMAIN calls'[r] :
            j < k => calls'[r][j].event.id <= calls'[r][k].event.id
      BY <3>1, <3>2, <3>3 DEF CallsInOrder
    <3>. QED BY <1>3, <2>1, <2>3, <3>4, <3>5 DEF ThreadStep, OrderInv, CallsInOrder
  <2>. QED BY <1>3, <2>2, <2>3 DEF ThreadStep
<1>4. CASE UNCHANGED <<eventMsg, spc, event, calls>>
  BY <1>4 DEF OrderInv, CallsInOrder, Latest
<1>. QED BY <1>1, <1>2, <1>3, <1>4, StepKinds DEF Take, mailboxVars, resVars

\* Calls never go back to an older message, for any number of messages, and however
\* often threads wake up spuriously (responser12.cpp:35-36, receiver.cpp:121-122).
THEOREM MailboxCallsInOrder == MailboxSpec => []CallsInOrder
<1>. DEFINE I == TypeOK /\ ForwarderInv /\ OrderInv /\ CallsInOrder
<1>1. MailboxInit => I
  <2>1. MailboxInit => ForwarderInv
    BY DEF MailboxInit, ResInit, ForwarderInv
  <2>2. MailboxInit => OrderInv /\ CallsInOrder
    BY DEF MailboxInit, ResInit, OrderInv, CallsInOrder
  <2>. QED BY <2>1, <2>2, TypeInit
<1>2. I /\ [MailboxNext]_mailboxVars => I'
  BY TypeStep, ForwarderInvStep, OrderInvStep
<1>. QED BY <1>1, <1>2, PTL DEF MailboxSpec

-----------------------------------------------------------------------------
(* How often a message is called.                                           *)

LEMMA AskedInvStep ==
  ASSUME TypeOK, ForwarderInv, AskedInv, [MailboxNext]_mailboxVars PROVE AskedInv'
<1>. SUFFICES ASSUME spurious' = 0, NEW q \in Responsers PROVE Asked(q)'
  BY DEF AskedInv
<1>0. /\ spurious \in Nat /\ fres \in Responsers
      /\ \A r \in Responsers : Latest(r) \in Nat /\ event[r].id \in Nat
  BY LatestTyped DEF TypeOK
<1>1. ASSUME NEW f \in Fields, SetEventField(f) PROVE Asked(q)'
  BY <1>0, <1>1, CopySteps DEF ForwarderInv, AskedInv, Asked
<1>2. CASE SignalRes
  <2>1. Latest(fres) > 0
    BY <1>0, <1>2, SignalSteps DEF ForwarderInv
  <2>2. UNCHANGED <<event, calls, spurious>> /\ Latest(q)' = Latest(q)
    BY <1>2, SignalSteps DEF Latest
  <2>3. Asked(q)
    BY <2>2 DEF AskedInv
  <2>. QED BY <1>2, <2>1, <2>2, <2>3, SignalSteps DEF Asked
<1>3. ASSUME NEW r \in Responsers, ThreadStep(r) PROVE Asked(q)'
  <2>1. spurious = 0 /\ spurious' # spurious + 1
    BY <1>0, <1>3 DEF ThreadStep
  <2>2. Asked(q) /\ Asked(r) /\ Latest(q)' = Latest(q)
    BY <1>3, <2>1 DEF AskedInv, ThreadStep, Latest
  <2>3. CASE q # r
    BY <1>3, <2>2, <2>3 DEF ThreadStep, Asked
  <2>4. CASE q = r /\ calls'[r] = calls[r]
    BY <1>3, <2>1, <2>2, <2>4 DEF ThreadStep, Calling, Asked
  <2>5. ASSUME q = r, NEW m \in Slot, m.id = Calling(r), Grows(r, m),
               spc[r] \in {"switch", "unpack"}, spc'[r] = "start"
        PROVE  Asked(q)'
    <3>1. m.id > 0
      BY <2>2, <2>5 DEF Calling, Asked
    <3>2. PICK n \in Nat :
            /\ DOMAIN calls[r] = 1..n /\ DOMAIN calls'[r] = 1..n + 1
            /\ calls'[r][n + 1].event = m
            /\ \A k \in 1..n : calls'[r][k] = calls[r][k]
      BY <2>5 DEF Grows
    <3>3. \A k \in DOMAIN calls'[r] : k = n + 1 \/ k \in 1..n
      BY <3>2
    <3>. QED BY <2>2, <2>5, <3>1, <3>2, <3>3 DEF Asked
  <2>. QED BY <1>3, <2>3, <2>4, <2>5 DEF ThreadStep
<1>4. CASE UNCHANGED <<eventMsg, spc, event, calls, spurious>>
  BY <1>4 DEF AskedInv, Asked, Latest
<1>. QED BY <1>1, <1>2, <1>3, <1>4, StepKinds DEF Take, mailboxVars, resVars

\* A responser that was never sent a message calls nothing (responser12.cpp:20-28,
\* 35-50).
THEOREM MailboxNoCallUnasked == MailboxSpec => []NoCallUnasked
<1>. DEFINE I == TypeOK /\ ForwarderInv /\ AskedInv
<1>1. MailboxInit => I
  BY TypeInit DEF MailboxInit, ResInit, ForwarderInv, AskedInv, Asked
<1>2. I /\ [MailboxNext]_mailboxVars => I'
  BY TypeStep, ForwarderInvStep, AskedInvStep
<1>3. I => NoCallUnasked
  BY DEF AskedInv, Asked, NoCallUnasked
<1>. QED BY <1>1, <1>2, <1>3, PTL DEF MailboxSpec

\* A call adds one index to the calls of its message and none to the others'.
LEMMA CallsOfGrows ==
  ASSUME NEW r \in Responsers, NEW m \in Slot, Grows(r, m), NEW i \in Nat
  PROVE  \E k : CallsOf(r, i)' = IF m.id = i THEN CallsOf(r, i) \cup {k} ELSE CallsOf(r, i)
<1>1. PICK n \in Nat :
        /\ DOMAIN calls[r] = 1..n /\ DOMAIN calls'[r] = 1..n + 1
        /\ calls'[r][n + 1].event = m
        /\ \A k \in 1..n : calls'[r][k] = calls[r][k]
  BY DEF Grows
<1>2. 1..n + 1 = (1..n) \cup {n + 1} /\ n + 1 \notin 1..n
  OBVIOUS
<1>3. CallsOf(r, i)' = IF m.id = i THEN CallsOf(r, i) \cup {n + 1} ELSE CallsOf(r, i)
  BY <1>1, <1>2 DEF CallsOf
<1>. QED BY <1>3

LEMMA CountInvStep ==
  ASSUME TypeOK, ForwarderInv, OrderInv, CountInv, [MailboxNext]_mailboxVars PROVE CountInv'
<1>. SUFFICES ASSUME spurious' = 0, NEW q \in Responsers, NEW i \in Nat PROVE Counted(q, i)'
  BY DEF CountInv
<1>0. /\ spurious \in Nat /\ fres \in Responsers /\ fmsg \in Slot
      /\ \A r \in Responsers : Latest(r) \in Nat /\ event[r].id \in Nat
  BY LatestTyped DEF TypeOK
<1>. USE DEF Counted, None, Once, Twice, Due
<1>1. ASSUME NEW r \in Responsers, NEW n, NEW e, Take(r, n, e) PROVE Counted(q, i)'
  <2>1. UNCHANGED <<eventMsg, copied, spc, event, calls, spurious>> /\ copied = {}
    BY <1>1 DEF Take, resVars, ForwarderInv
  <2>2. ~Announcing(q)' /\ CallsOf(q, i)' = CallsOf(q, i) /\ Latest(q)' = Latest(q)
    BY <2>1 DEF Announcing, CallsOf, Latest
  <2>. QED BY <2>1, <2>2 DEF CountInv
<1>2. ASSUME NEW f \in Fields, SetEventField(f) PROVE Counted(q, i)'
  <2>1. /\ UNCHANGED <<fpc, fres, fmsg, spc, event, calls, spurious>>
        /\ f \notin copied /\ copied' = copied \cup {f}
        /\ Latest(q)' = IF q = fres /\ f = 0 THEN fmsg.id ELSE Latest(q)
    BY <1>2, CopySteps
  <2>2. CallsOf(q, i)' = CallsOf(q, i) /\ Counted(q, i)
    BY <2>1 DEF CallsOf, CountInv
  <2>3. CASE q = fres /\ f = 0
    <3>1. fmsg.id > Latest(q) /\ Latest(q)' = fmsg.id
      BY <1>2, <2>1, <2>3, CopySteps DEF ForwarderInv
    <3>2. CASE i = fmsg.id
      <4>1. CallsOf(q, i) = {}
        <5>1. \A k \in DOMAIN calls[q] : calls[q][k].event.id <= Latest(q)
          BY DEF OrderInv
        <5>2. \A k \in DOMAIN calls[q] : calls[q][k].event.id \in Nat
          <6>1. \A k \in DOMAIN calls[q] : calls[q][k] \in CallRec
            BY DEF TypeOK
          <6>. QED BY <6>1 DEF CallRec, Slot
        <5>3. fmsg.id \in Nat
          BY <1>0 DEF Slot
        <5>. QED BY <1>0, <3>1, <3>2, <5>1, <5>2, <5>3 DEF CallsOf
      <4>. QED BY <2>2, <4>1
    <3>3. CASE i # fmsg.id
      BY <2>1, <2>2, <3>1, <3>3
    <3>. QED BY <3>2, <3>3
  <2>4. CASE ~(q = fres /\ f = 0)
    <3>1. Announcing(q)' => Announcing(q)
      BY <2>1, <2>4 DEF Announcing
    <3>. QED BY <2>1, <2>2, <2>4, <3>1
  <2>. QED BY <2>3, <2>4
<1>3. CASE SignalRes
  <2>1. /\ Latest(q)' = Latest(q) /\ CallsOf(q, i)' = CallsOf(q, i) /\ event' = event
        /\ ~Announcing(q)' /\ Counted(q, i)
    BY <1>3, SignalSteps DEF Latest, CallsOf, Announcing, CountInv
  <2>2. CASE spc'[q] = spc[q]
    BY <2>1, <2>2
  <2>3. CASE q = fres /\ spc[q] = "wait" /\ spc'[q] = "switch"
    <3>1. Announcing(q)
      BY <1>3, <2>3, SignalSteps DEF Announcing
    <3>. QED BY <2>1, <2>3, <3>1
  <2>. QED BY <1>3, <2>2, <2>3, SignalSteps
<1>4. ASSUME NEW r \in Responsers, ThreadStep(r) PROVE Counted(q, i)'
  <2>1. spurious = 0 /\ spurious' # spurious + 1
    BY <1>0, <1>4 DEF ThreadStep
  <2>2. Counted(q, i) /\ Latest(q)' = Latest(q) /\ Announcing(q)' = Announcing(q)
    BY <1>4, <2>1 DEF CountInv, ThreadStep, Latest, Announcing
  <2>3. CASE q # r
    <3>1. CallsOf(q, i)' = CallsOf(q, i)
      BY <1>4, <2>3 DEF ThreadStep, CallsOf
    <3>. QED BY <1>4, <2>2, <2>3, <3>1 DEF ThreadStep
  <2>4. CASE q = r /\ calls'[r] = calls[r]
    <3>1. CallsOf(q, i)' = CallsOf(q, i)
      BY <2>4 DEF CallsOf
    <3>2. Due(q, i)' => Due(q, i)
      BY <1>4, <2>1, <2>2, <2>4 DEF ThreadStep, Calling
    <3>. QED BY <2>2, <3>1, <3>2
  <2>5. ASSUME q = r, NEW m \in Slot, m.id = Calling(r), Grows(r, m),
               spc[r] \in {"switch", "unpack"}, spc'[r] = "start"
        PROVE  Counted(q, i)'
    <3>1. ~Due(q, i)' /\ (m.id = i <=> Due(q, i))
      BY <2>5 DEF Calling
    <3>2. PICK k : CallsOf(q, i)' = IF m.id = i THEN CallsOf(q, i) \cup {k} ELSE CallsOf(q, i)
      <4>1. Grows(q, m)
        BY <2>5
      <4>. QED BY <4>1, CallsOfGrows
    <3>. QED BY <2>2, <3>1, <3>2
  <2>. QED BY <1>4, <2>3, <2>4, <2>5 DEF ThreadStep
<1>5. CASE UNCHANGED mailboxVars
  <2>1. UNCHANGED <<eventMsg, copied, spc, event, calls, spurious, fpc, fres>>
    BY <1>5 DEF mailboxVars, resVars, forwarder
  <2>2. Announcing(q)' = Announcing(q) /\ CallsOf(q, i)' = CallsOf(q, i) /\ Latest(q)' = Latest(q)
    BY <2>1 DEF Announcing, CallsOf, Latest
  <2>. QED BY <2>1, <2>2 DEF CountInv
<1>. QED BY <1>1, <1>2, <1>3, <1>4, <1>5, StepKinds

\* No message is executed a third time, whatever falls between the copying of a
\* message and its signal (responser12.cpp:35-36, receiver.cpp:121-122).
THEOREM MailboxAtMostTwice == MailboxSpec => []AtMostTwice
<1>. DEFINE I == TypeOK /\ ForwarderInv /\ OrderInv /\ CallsInOrder /\ CountInv
<1>1. MailboxInit => I
  BY TypeInit
  DEF MailboxInit, ResInit, ForwarderInv, OrderInv, CallsInOrder, CountInv, Counted, Twice, Once,
    None, Due, CallsOf, Announcing
<1>2. I /\ [MailboxNext]_mailboxVars => I'
  BY TypeStep, ForwarderInvStep, OrderInvStep, CountInvStep
<1>3. I => AtMostTwice
  <2>. SUFFICES ASSUME I, spurious = 0, NEW r \in Responsers, NEW i \in 1..MaxDeliver[r]
                PROVE  Twice(r, i)
    BY DEF AtMostTwice, Twice
  <2>1. i \in Nat
    BY MailboxAssumption
  <2>. QED BY <2>1 DEF CountInv, Counted
<1>. QED BY <1>1, <1>2, <1>3, PTL DEF MailboxSpec
=============================================================================
