------------------------------ MODULE AsyncMsg ------------------------------
(***************************************************************************)
(* Template3 as a whole: the forwarder with its clients (Receiver) and the *)
(* responsers it hands messages to (Responser).  The receiver's thread is  *)
(* the only one that acts on both: it copies a message into the slot of    *)
(* the responser it looked up, and signals that responser.                 *)
(***************************************************************************)
EXTENDS Receiver, Responser

asyncVars == <<recVars, resVars>>

AsyncInit == RecInit /\ ResInit

\* pRes->setEventMsg(&pMsgInfo.msg), field by field, and its return.
SetField(f)  == rpc = "set" /\ CopyField(pRes, Head1, f) /\ UNCHANGED recVars
SetReturn    == SetDone /\ SetEventMsg /\ UNCHANGED resVars

\* pthread_cond_signal(pRes->getPthreadCond())
SignalRes    == SignalCond /\ Signal(pRes, Head1)

\* Steps of processMsg that no responser sees.
ForwardStep == (PollHit \/ PollMiss \/ RecLock \/ Lookup \/ Pop \/ RecUnlock) /\ UNCHANGED resVars

ReceiverStep == (\E f \in Fields : SetField(f)) \/ SetReturn \/ SignalRes \/ ForwardStep

ResponserStep(r) == OnResponser(r) /\ UNCHANGED recVars

\* The part of a responser's thread that is bound to go on.
ResponserRuns(r) ==
  (Wait(r) \/ Switch(r) \/ UnPack(r) \/ CallFun(r)) /\ UNCHANGED recVars
=============================================================================
