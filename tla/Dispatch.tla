------------------------------ MODULE Dispatch ------------------------------
(***************************************************************************)
(* What the message forwarder of Template3 promises its clients, without   *)
(* queues, lock or threads: a set of waiting messages, each with the level *)
(* it waits at.  A forward takes the oldest message of some level.  It may *)
(* pass over messages of higher levels, but no message is ever passed over *)
(* twice: that much, and no more, is left of "by priority" (main.cpp:12)   *)
(* once the queues are polled without the lock.                            *)
(***************************************************************************)
EXTENDS Integers

CONSTANT Levels   \* a set of integers, higher is more urgent

VARIABLES
  waiting,   \* messages accepted and not forwarded: [id, level]
  overtaken, \* ids of messages some lower message was forwarded before
  sent,      \* number of messages accepted
  forwarded  \* number of messages handed to a responser

dispatchVars == <<waiting, overtaken, sent, forwarded>>

Message == [id : Nat, level : Levels]

Above(m) == {n \in waiting : n.level > m.level}
Oldest(m) == \A n \in waiting : n.level = m.level => m.id <= n.id

DispatchInit == waiting = {} /\ overtaken = {} /\ sent = 0 /\ forwarded = 0

Accept(q) ==
  /\ sent' = sent + 1
  /\ waiting' = waiting \cup {[id |-> sent + 1, level |-> q]}
  /\ UNCHANGED <<overtaken, forwarded>>

Forward(m) ==
  /\ Oldest(m)
  /\ \A n \in Above(m) : n.id \notin overtaken
  /\ waiting' = waiting \ {m}
  /\ overtaken' = overtaken \cup {n.id : n \in Above(m)}
  /\ forwarded' = forwarded + 1
  /\ UNCHANGED sent

DispatchNext == (\E q \in Levels : Accept(q)) \/ (\E m \in waiting : Forward(m))

DispatchSpec == DispatchInit /\ [][DispatchNext]_dispatchVars
=============================================================================
