------------------------------ MODULE Mailbox ------------------------------
(***************************************************************************)
(* The hand-over of messages from processMsg to the responsers, with the   *)
(* rest of the forwarder abstracted to a thread that delivers messages one *)
(* after the other (receiver.cpp:120-122).  A responser gets its messages  *)
(* in the order of their numbers; those of different responsers may come   *)
(* in any order, as they do from queues of different priority.             *)
(***************************************************************************)
EXTENDS Responser

CONSTANT MaxDeliver   \* model bound: the highest number of a message to a responser

ASSUME MailboxAssumption == MaxDeliver \in [Responsers -> Nat]

VARIABLES
  fpc, fres, fmsg   \* the forwarder: program counter, responser, message

forwarder   == <<fpc, fres, fmsg>>
mailboxVars == <<resVars, forwarder>>

\* Contents of pRes outside of its block: never read.
NoOne == CHOOSE r \in Responsers : TRUE

MailboxInit ==
  /\ ResInit
  /\ fpc = "idle" /\ fmsg = Zero /\ fres = NoOne

\* pRes = ite->second
Take(r, i, e) ==
  /\ fpc = "idle" /\ i > eventMsg[r][0].id
  /\ fpc' = "set" /\ fres' = r /\ fmsg' = [id |-> i, eventID |-> e]
  /\ UNCHANGED resVars

SetEventField(f) ==
  /\ fpc = "set" /\ CopyField(fres, fmsg, f)
  /\ UNCHANGED forwarder

\* Mutant: the signal is sent before the message is copied.
SignalRes_First ==
  /\ fpc = "set"
  /\ Signal(fres, fmsg)
  /\ fpc' = "idle" /\ fmsg' = Zero /\ fres' = NoOne

SignalRes ==
  /\ fpc = "set" /\ SetDone
  /\ Signal(fres, fmsg)
  /\ fpc' = "idle" /\ fmsg' = Zero /\ fres' = NoOne

\* The bounded model stops when every message is delivered and every responser
\* is back at its condition variable; the program waits there for the next.
AllDelivered == fpc = "idle" /\ \A r \in Responsers : eventMsg[r][0].id = MaxDeliver[r]
Quiet == AllDelivered /\ \A r \in Responsers : spc[r] = "wait"
Rest == Quiet /\ spurious = MaxSpurious /\ UNCHANGED mailboxVars

ForwarderStep ==
  \/ \E r \in Responsers : \E i \in 1..MaxDeliver[r], e \in EventIDs : Take(r, i, e)
  \/ \E f \in Fields : SetEventField(f)
  \/ SignalRes

MailboxNext ==
  \/ ForwarderStep
  \/ \E r \in Responsers : OnResponser(r) /\ UNCHANGED forwarder
  \/ Rest

MailboxSpec == MailboxInit /\ [][MailboxNext]_mailboxVars

MailboxFairness ==
  /\ WF_mailboxVars(ForwarderStep)
  /\ \A r \in Responsers :
       WF_mailboxVars((Wait(r) \/ Switch(r) \/ UnPack(r) \/ CallFun(r)) /\ UNCHANGED forwarder)

MailboxFairSpec == MailboxSpec /\ MailboxFairness

-----------------------------------------------------------------------------
(* Properties                                                               *)

Slot    == [id : Nat, eventID : EventIDs]
ResPC   == {"start", "wait", "switch", "unpack"}
CallRec == [event : Slot, args : Seq(Slot)]

\* Type correctness of the responsers and of the forwarder that feeds them.
TypeOK ==
  /\ eventMsg \in [Responsers -> [Fields -> Slot]]
  /\ copied \subseteq Fields
  /\ spc \in [Responsers -> ResPC]
  /\ event \in [Responsers -> Slot] /\ woken \in [Responsers -> Slot]
  /\ args \in [Responsers -> Seq(Slot)]
  /\ spurious \in 0..MaxSpurious
  /\ calls \in [Responsers -> Seq(CallRec)]
  /\ fpc \in {"idle", "set"} /\ fres \in Responsers /\ fmsg \in Slot

\* A message's function is called at most twice, and twice only because its
\* eventID can be read before its own signal has been sent: once by a thread
\* that an earlier message woke late, and again after that signal.  Spurious
\* wakeups add to it (responser12.cpp:35-36, receiver.cpp:121-122).
CallsOf(r, i) == {k \in DOMAIN calls[r] : calls[r][k].event.id = i}
AtMostTwice ==
  \A r \in Responsers : \A i \in 1..MaxDeliver[r] :
    \A j, k, l \in CallsOf(r, i) : spurious = 0 => j = k \/ k = l \/ j = l

\* Calls never go back to an older message, spurious wakeups included.
CallsInOrder ==
  \A r \in Responsers : \A j, k \in DOMAIN calls[r] :
    j < k => calls[r][j].event.id <= calls[r][k].event.id

\* No function is called for the zeroed slot of a responser that never got a
\* message, as long as the condition variable wakes it for signals only.
NoCallUnasked ==
  spurious = 0 => \A r \in Responsers : \A k \in DOMAIN calls[r] : calls[r][k].event.id > 0

\* A signal that finds the thread waiting is never wasted: the function of that
\* message or of a later one is called, if the class has one for every event.
WakeServed ==
  \A r \in {s \in Responsers : FunctionsOf[s] = EventIDs} : \A i \in 1..MaxDeliver[r] :
    (spc[r] = "switch" /\ woken[r].id = i)
      ~> \E k \in DOMAIN calls[r] : calls[r][k].event.id >= i
=============================================================================
