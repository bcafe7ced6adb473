----------------------------- MODULE Responser -----------------------------
(***************************************************************************)
(* A responser of Template3 (responser/responser.cpp, responser12.cpp): an *)
(* object with one message slot, a condition variable, and a thread that   *)
(* waits for a signal, reads the slot and calls the function its eventID   *)
(* names.                                                                  *)
(*                                                                         *)
(* The receiver writes the slot and signals without the responser's mutex, *)
(* so nothing orders its memcpy with the thread's reads: the fields of a   *)
(* message are written one at a time, in any order, and read one at a      *)
(* time, the eventID first.  The mutex itself is locked by the responser's *)
(* own thread only; it is never contended and has no variable here.        *)
(***************************************************************************)
EXTENDS ComDef

CONSTANTS
  ZeroEvent,      \* the event whose number is 0
  ArgNum,         \* number of parameters in msgData
  FunctionsOf,    \* for each responser, the events its switch has a case for
  Unpacks,        \* the events whose case calls msgDataUnPack
  MaxSpurious     \* model bound: spurious wakeups in a behaviour

ASSUME ResponserAssumption ==
  /\ ZeroEvent \in EventIDs
  /\ ArgNum \in Nat /\ MaxSpurious \in Nat
  /\ FunctionsOf \in [Responsers -> SUBSET EventIDs]
  /\ Unpacks \subseteq EventIDs

VARIABLES
  eventMsg, \* [responser -> [field -> the message the field's bytes are of]]
  copied,   \* fields that the setEventMsg under way has written
  spc,      \* program counter of the responser's thread
  event,    \* the message whose eventID the thread switched on
  args,     \* the messages whose parameters it has unpacked, in order
  woken,    \* history: the message whose signal woke the thread, or Zero
  spurious, \* history: number of spurious wakeups
  calls     \* history: functions called, in order

resVars == <<eventMsg, copied, spc, event, args, woken, spurious, calls>>

Fields == 0..ArgNum   \* field 0 is eventID, the others the parameters

\* A message as far as a slot is concerned.
Copy(m) == [id |-> m.id, eventID |-> m.eventID]

\* memset(&eventMsg, 0, ..): the slot of a new responser.
Zero == [id |-> 0, eventID |-> ZeroEvent]

Empty == [r \in Responsers |-> Zero]

ResInit ==
  /\ eventMsg = [r \in Responsers |-> [f \in Fields |-> Zero]]
  /\ copied = {}
  /\ spc = [r \in Responsers |-> "start"]
  /\ event = Empty /\ args = [r \in Responsers |-> <<>>] /\ woken = Empty
  /\ spurious = 0 /\ calls = [r \in Responsers |-> <<>>]

-----------------------------------------------------------------------------
(* What the receiver's thread does to a responser.                          *)

\* setEventMsg: one field of its memcpy.
CopyField(r, m, f) ==
  /\ f \in Fields \ copied
  /\ eventMsg' = [eventMsg EXCEPT ![r][f] = Copy(m)]
  /\ copied' = copied \cup {f}
  /\ UNCHANGED <<spc, event, args, woken, spurious, calls>>

SetDone == copied = Fields

\* Mutant: the slot is cleared once its message has been announced.
Signal_ClearsSlot(r, m) ==
  /\ copied' = {}
  /\ eventMsg' = [eventMsg EXCEPT ![r] = [f \in Fields |-> Zero]]
  /\ IF spc[r] = "wait"
       THEN /\ spc' = [spc EXCEPT ![r] = "switch"]
            /\ woken' = [woken EXCEPT ![r] = Copy(m)]
       ELSE UNCHANGED <<spc, woken>>
  /\ UNCHANGED <<event, args, spurious, calls>>

\* pthread_cond_signal: lost unless the thread is inside pthread_cond_wait.
Signal(r, m) ==
  /\ copied' = {}
  /\ IF spc[r] = "wait"
       THEN /\ spc' = [spc EXCEPT ![r] = "switch"]
            /\ woken' = [woken EXCEPT ![r] = Copy(m)]
       ELSE UNCHANGED <<spc, woken>>
  /\ UNCHANGED <<eventMsg, event, args, spurious, calls>>

-----------------------------------------------------------------------------
(* onResponser                                                              *)

Resume(r, l) == spc' = [spc EXCEPT ![r] = l]

\* Mutant: the thread does not wait for a signal.
Wait_Polls(r) ==
  /\ spc[r] = "start" /\ Resume(r, "switch")
  /\ UNCHANGED <<eventMsg, copied, event, args, woken, spurious, calls>>

\* pthread_cond_wait, not in a loop over a predicate.
Wait(r) ==
  /\ spc[r] = "start" /\ Resume(r, "wait")
  /\ UNCHANGED <<eventMsg, copied, event, args, woken, spurious, calls>>

SpuriousWakeup(r) ==
  /\ spc[r] = "wait" /\ spurious < MaxSpurious
  /\ Resume(r, "switch") /\ spurious' = spurious + 1
  /\ woken' = [woken EXCEPT ![r] = Zero]
  /\ UNCHANGED <<eventMsg, copied, event, args, calls>>

Called(r, m, s) == calls' = [calls EXCEPT ![r] = Append(@, [event |-> m, args |-> s])]

\* switch(eventMsg.eventID), with a case that has no parameters to unpack
\* done at once: call, unlock, back to the head of the loop.
Switch(r) ==
  LET e == eventMsg[r][0] IN
  /\ spc[r] = "switch"
  /\ \/ /\ e.eventID \notin FunctionsOf[r]
        /\ Resume(r, "start") /\ UNCHANGED <<event, calls>>
     \/ /\ e.eventID \in FunctionsOf[r] /\ e.eventID \notin Unpacks
        /\ Resume(r, "start") /\ Called(r, e, <<>>) /\ UNCHANGED event
     \/ /\ e.eventID \in FunctionsOf[r] /\ e.eventID \in Unpacks
        /\ Resume(r, "unpack") /\ event' = [event EXCEPT ![r] = e] /\ UNCHANGED calls
  /\ UNCHANGED <<eventMsg, copied, args, woken, spurious>>

\* One round of the loop of msgDataUnPack.
UnPack(r) ==
  /\ spc[r] = "unpack" /\ Len(args[r]) < ArgNum
  /\ args' = [args EXCEPT ![r] = Append(@, eventMsg[r][Len(@) + 1])]
  /\ UNCHANGED <<eventMsg, copied, spc, event, woken, spurious, calls>>

\* r1_fun2(a, b), r2_fun1(a, b), r2_fun2(c, d); then unlock.
CallFun(r) ==
  /\ spc[r] = "unpack" /\ Len(args[r]) = ArgNum
  /\ Called(r, event[r], args[r])
  /\ Resume(r, "start")
  /\ event' = [event EXCEPT ![r] = Zero] /\ args' = [args EXCEPT ![r] = <<>>]
  /\ UNCHANGED <<eventMsg, copied, woken, spurious>>

OnResponser(r) == Wait(r) \/ SpuriousWakeup(r) \/ Switch(r) \/ UnPack(r) \/ CallFun(r)

\* A responser's thread keeps running; spurious wakeups need not happen.
ResFairness == \A r \in Responsers :
  WF_resVars(Wait(r) \/ Switch(r) \/ UnPack(r) \/ CallFun(r))
=============================================================================
