------------------------------ MODULE Receiver ------------------------------
(***************************************************************************)
(* The message forwarder of Template3 (receiver/receiver.cpp) and the      *)
(* threads that call it: sender::sendMsg from any client thread,           *)
(* addResponser and deleteResponser from one of them, and the receiver's   *)
(* own thread, processMsg.                                                 *)
(*                                                                         *)
(* One action per step another thread can observe.  processMsg polls the   *)
(* queues without the mutex, so each poll is a step of its own.  recMap is *)
(* read under the mutex but changed without it, so a change has a          *)
(* beginning and an end, and a lookup that falls between the two has the   *)
(* outcomes a racing read of a std::map can have.                          *)
(***************************************************************************)
EXTENDS ComDef

CONSTANTS
  Clients,          \* threads that call sendMsg
  Registrar,        \* the client that also registers responsers
  NoRes,            \* "no responser": recMap has no such key
  Free, RecThread,  \* values of mutex: unlocked, held by processMsg
  responserMaxNum,  \* bound on successful addResponser calls
  MaxPush           \* model bound: no sendMsg call starts after so many pushes

ASSUME ReceiverAssumption ==
  /\ Registrar \in Clients
  /\ NoRes \notin Responsers
  /\ Free \notin Clients /\ RecThread \notin Clients /\ Free # RecThread
  /\ responserMaxNum \in Nat
  /\ MaxPush \in Nat

VARIABLES
  recMap, priortyMap, responserNum,  \* registry
  queue, mutex,                      \* recHighQueue.. and the lock around them
  cpc, cmsg, reg,    \* clients: program counter, message being sent, registration
  rpc, recQueue, pRes,               \* processMsg: program counter and locals
  pushed, handed, passed             \* history: see Push, SetEventMsg and Pop

registry == <<recMap, priortyMap, responserNum>>
client   == <<cpc, cmsg, reg>>
thread   == <<rpc, recQueue, pRes>>
history  == <<pushed, handed, passed>>
recVars  == <<registry, queue, mutex, client, thread, history>>

Registration == [resType : ResTypes, prior : RES_PRIOR, res : Responsers]

\* Contents of a local before it is assigned and after its scope: never read.
AnyRequest      == CHOOSE m \in Request : TRUE
AnyRegistration == CHOOSE g \in Registration : TRUE

\* receiver::receiver: empty queues, and priortyMap zeroed by memset, so that
\* a type nobody registered has priority LOW.
RecInit ==
  /\ recMap = [t \in ResTypes |-> NoRes]
  /\ priortyMap = [t \in ResTypes |-> LOW]
  /\ responserNum = 0
  /\ queue = [q \in Levels |-> <<>>]
  /\ mutex = Free
  /\ cpc = [c \in Clients |-> "idle"]
  /\ cmsg = [c \in Clients |-> AnyRequest]
  /\ reg = AnyRegistration
  /\ rpc = "poll" /\ recQueue = HIGH /\ pRes = NoRes
  /\ pushed = 0 /\ handed = 0 /\ passed = {}

-----------------------------------------------------------------------------
(* sender::sendMsg and receiver::addMsgIntoQue.  Both pointer arguments are *)
(* never NULL in a client of this repository, so the early return of        *)
(* sendMsg is not taken.                                                    *)

Goto(c, l) == cpc' = [cpc EXCEPT ![c] = l]

Call(c, m) ==
  /\ cpc[c] = "idle" /\ pushed < MaxPush
  /\ Goto(c, "call") /\ cmsg' = [cmsg EXCEPT ![c] = m]
  /\ UNCHANGED <<registry, queue, mutex, reg, thread, history>>

Lock(c) ==
  /\ cpc[c] = "call" /\ mutex = Free
  /\ mutex' = c /\ Goto(c, "push")
  /\ UNCHANGED <<registry, queue, cmsg, reg, thread, history>>

\* switch(priortyMap[..]): anything but the three priorities goes to the
\* middle queue.
Level(p) == IF p \in Levels THEN p ELSE MID

Stamped(m) == [id |-> pushed + 1, resType |-> m.resType, eventID |-> m.eventID]

\* Mutant: the case of HIGH has no break.
Push_FallsThrough(c) ==
  /\ cpc[c] = "push"
  /\ LET l == Level(priortyMap[cmsg[c].resType]) IN
     queue' = [q \in Levels |-> IF q = l \/ (l = HIGH /\ q = MID)
                                THEN Append(queue[q], Stamped(cmsg[c])) ELSE queue[q]]
  /\ pushed' = pushed + 1
  /\ Goto(c, "unlock")
  /\ UNCHANGED <<registry, mutex, cmsg, reg, thread, handed, passed>>

\* Mutant: a stack in place of a queue.
Push_Stack(c) ==
  /\ cpc[c] = "push"
  /\ queue' = [queue EXCEPT ![Level(priortyMap[cmsg[c].resType])] =
                  <<Stamped(cmsg[c])>> \o @]
  /\ pushed' = pushed + 1
  /\ Goto(c, "unlock")
  /\ UNCHANGED <<registry, mutex, cmsg, reg, thread, handed, passed>>

Push(c) ==
  /\ cpc[c] = "push"
  /\ queue' = [queue EXCEPT ![Level(priortyMap[cmsg[c].resType])] =
                  Append(@, Stamped(cmsg[c]))]
  /\ pushed' = pushed + 1
  /\ Goto(c, "unlock")
  /\ UNCHANGED <<registry, mutex, cmsg, reg, thread, handed, passed>>

Unlock(c) ==
  /\ cpc[c] = "unlock"
  /\ mutex' = Free
  /\ Goto(c, "idle") /\ cmsg' = [cmsg EXCEPT ![c] = AnyRequest]
  /\ UNCHANGED <<registry, queue, reg, thread, history>>

-----------------------------------------------------------------------------
(* addResponser and deleteResponser, without the mutex.                     *)

\* Mutant: off by one, <= responserMaxNum.
BeginAdd_OffByOne(g) ==
  /\ cpc[Registrar] = "idle" /\ responserNum <= responserMaxNum
  /\ Goto(Registrar, "insert") /\ reg' = g
  /\ UNCHANGED <<registry, queue, mutex, cmsg, thread, history>>

BeginAdd(g) ==
  /\ cpc[Registrar] = "idle"
  /\ responserNum < responserMaxNum
  /\ Goto(Registrar, "insert") /\ reg' = g
  /\ UNCHANGED <<registry, queue, mutex, cmsg, thread, history>>

\* std::map::insert leaves the value of a key that is there already.
Insert ==
  /\ cpc[Registrar] = "insert"
  /\ recMap' = [recMap EXCEPT ![reg.resType] = IF @ = NoRes THEN reg.res ELSE @]
  /\ Goto(Registrar, "prior")
  /\ UNCHANGED <<priortyMap, responserNum, queue, mutex, cmsg, reg, thread, history>>

SetPrior ==
  /\ cpc[Registrar] = "prior"
  /\ priortyMap' = [priortyMap EXCEPT ![reg.resType] = reg.prior]
  /\ responserNum' = responserNum + 1
  /\ Goto(Registrar, "idle") /\ reg' = AnyRegistration
  /\ UNCHANGED <<recMap, queue, mutex, cmsg, thread, history>>

\* Deleting a type that is not registered prints a line and does nothing.
BeginDelete(t) ==
  /\ cpc[Registrar] = "idle" /\ recMap[t] # NoRes
  /\ Goto(Registrar, "erase") /\ reg' = [reg EXCEPT !.resType = t]
  /\ UNCHANGED <<registry, queue, mutex, cmsg, thread, history>>

\* responserNum and priortyMap keep their values.
Erase ==
  /\ cpc[Registrar] = "erase"
  /\ recMap' = [recMap EXCEPT ![reg.resType] = NoRes]
  /\ Goto(Registrar, "idle") /\ reg' = AnyRegistration
  /\ UNCHANGED <<priortyMap, responserNum, queue, mutex, cmsg, thread, history>>

-----------------------------------------------------------------------------
(* receiver::processMsg                                                     *)

\* The map's tree is being changed by a thread that does not hold the mutex;
\* inserting a key that is there already changes nothing.
Touching ==
  \/ cpc[Registrar] = "insert" /\ recMap[reg.resType] = NoRes
  \/ cpc[Registrar] = "erase"

Head1 == Head(queue[recQueue])

\* if(!recHighQueue.empty()) .. else if .. : recQueue is the queue polled next.
PollHit ==
  /\ rpc = "poll" /\ queue[recQueue] # <<>>
  /\ rpc' = "lock"
  /\ UNCHANGED <<registry, queue, mutex, client, recQueue, pRes, history>>

\* Mutant: `else' in place of the last `else if': the lowest queue is chosen
\* without a test.
PollMiss_ElseLow ==
  /\ rpc = "poll" /\ queue[recQueue] = <<>>
  /\ recQueue' = IF recQueue = LOW THEN HIGH ELSE recQueue - 1
  /\ rpc' = IF recQueue = MID THEN "lock" ELSE "poll"
  /\ UNCHANGED <<registry, queue, mutex, client, pRes, history>>


\* Mutant: polling with the mutex held.
PollMiss_Locked ==
  /\ rpc = "poll" /\ queue[recQueue] = <<>> /\ mutex \in {Free, RecThread}
  /\ mutex' = RecThread
  /\ recQueue' = IF recQueue = LOW THEN HIGH ELSE recQueue - 1
  /\ UNCHANGED <<registry, queue, client, rpc, pRes, history>>

PollMiss ==
  /\ rpc = "poll" /\ queue[recQueue] = <<>>
  /\ recQueue' = IF recQueue = LOW THEN HIGH ELSE recQueue - 1
  /\ UNCHANGED <<registry, queue, mutex, client, rpc, pRes, history>>

\* The second emptiness test (receiver.cpp:107) has no branch of its own:
\* SelectedNonEmpty says that it always succeeds.
RecLock ==
  /\ rpc = "lock" /\ mutex = Free
  /\ mutex' = RecThread /\ rpc' = "lookup"
  /\ UNCHANGED <<registry, queue, client, recQueue, pRes, history>>

\* The responsers a scan of recMap for t can find: while an insert of t is
\* under way, the new entry is one of them.
Visible(t) ==
  IF recMap[t] # NoRes THEN {recMap[t]}
  ELSE IF cpc[Registrar] = "insert" /\ reg.resType = t THEN {reg.res} ELSE {}

\* Mutant: the scan stops at the first entry, whatever its key.
LookupHit_AnyKey(r) ==
  /\ rpc = "lookup" /\ r \in {recMap[t] : t \in ResTypes}
  /\ pRes' = r /\ rpc' = "set"
  /\ UNCHANGED <<registry, queue, mutex, client, recQueue, history>>

LookupHit(r) ==
  /\ rpc = "lookup" /\ r \in Visible(Head1.resType)
  /\ pRes' = r /\ rpc' = "set"
  /\ UNCHANGED <<registry, queue, mutex, client, recQueue, history>>

\* Mutant: `continue' without the cleanup handler, the mutex stays locked.
LookupMiss_KeepsLock ==
  /\ rpc = "lookup" /\ (recMap[Head1.resType] = NoRes \/ Touching)
  /\ rpc' = "poll" /\ recQueue' = HIGH
  /\ UNCHANGED <<registry, queue, mutex, client, pRes, history>>

\* Mutant: a message nobody is registered for is dropped.
LookupMiss_Drops ==
  /\ rpc = "lookup" /\ (recMap[Head1.resType] = NoRes \/ Touching)
  /\ queue' = [queue EXCEPT ![recQueue] = Tail(@)]
  /\ mutex' = Free /\ rpc' = "poll" /\ recQueue' = HIGH
  /\ UNCHANGED <<registry, client, pRes, history>>

\* `continue' leaves the do-while that pthread_cleanup_push opens, and its
\* handler unlocks the mutex.  The message stays at the head of its queue.
LookupMiss ==
  /\ rpc = "lookup" /\ (recMap[Head1.resType] = NoRes \/ Touching)
  /\ mutex' = Free /\ rpc' = "poll" /\ recQueue' = HIGH
  /\ UNCHANGED <<registry, queue, client, pRes, history>>

\* A scan of a tree that is being relinked can follow a freed or half-linked
\* node: it faults or never ends, with the mutex held.
LookupCrash ==
  /\ rpc = "lookup" /\ Touching
  /\ rpc' = "crashed"
  /\ UNCHANGED <<registry, queue, mutex, client, recQueue, pRes, history>>

\* pRes->setEventMsg: what it does to the responser is in module Responser.
SetEventMsg ==
  /\ rpc = "set" /\ rpc' = "signal"
  /\ handed' = handed + 1
  /\ UNCHANGED <<registry, queue, mutex, client, recQueue, pRes, pushed, passed>>

SignalCond ==
  /\ rpc = "signal" /\ rpc' = "pop"
  /\ UNCHANGED <<registry, queue, mutex, client, recQueue, pRes, history>>

HigherQueued == UNION {Ids(queue[q]) : q \in {l \in Levels : l > recQueue}}

\* passed collects the messages that this one, of a lower level, went before.
Pop ==
  /\ rpc = "pop"
  /\ queue' = [queue EXCEPT ![recQueue] = Tail(@)]
  /\ passed' = passed \cup HigherQueued
  /\ rpc' = "unlock"
  /\ UNCHANGED <<registry, mutex, client, recQueue, pRes, pushed, handed>>

\* Mutant: polling resumes at the queue just served.
RecUnlock_SameQueue ==
  /\ rpc = "unlock"
  /\ mutex' = Free /\ rpc' = "poll" /\ pRes' = NoRes
  /\ UNCHANGED <<registry, queue, client, recQueue, history>>

RecUnlock ==
  /\ rpc = "unlock"
  /\ mutex' = Free /\ rpc' = "poll" /\ recQueue' = HIGH /\ pRes' = NoRes
  /\ UNCHANGED <<registry, queue, client, history>>

\* If the scan faulted nothing runs any more, if it hangs the other threads
\* still do.
Crashed == rpc = "crashed" /\ UNCHANGED recVars

-----------------------------------------------------------------------------
SendStep(c) == (\E m \in Request : Call(c, m)) \/ Lock(c) \/ Push(c) \/ Unlock(c)

RegStep ==
  \/ \E g \in Registration : BeginAdd(g)
  \/ Insert \/ SetPrior
  \/ \E t \in ResTypes : BeginDelete(t)
  \/ Erase

Lookup == (\E r \in Responsers : LookupHit(r)) \/ LookupMiss \/ LookupCrash

RecStep ==
  \/ PollHit \/ PollMiss \/ RecLock \/ Lookup
  \/ SetEventMsg \/ SignalCond \/ Pop \/ RecUnlock

RecNext ==
  \/ \E c \in Clients : SendStep(c)
  \/ RegStep
  \/ RecStep
  \/ Crashed

RecSpec == RecInit /\ [][RecNext]_recVars

\* Every thread that can run does in the end.  Nothing more: a mutex of pthreads
\* may pass a waiting client over for ever while others keep taking it.
RecFairness ==
  /\ WF_recVars(RecStep)
  /\ WF_recVars(Insert \/ SetPrior \/ Erase)
  /\ \A c \in Clients : WF_recVars(Lock(c) \/ Push(c) \/ Unlock(c))

RecFairSpec == RecSpec /\ RecFairness

-----------------------------------------------------------------------------
(* Properties                                                               *)

ClientPC   == {"idle", "call", "push", "unlock", "insert", "prior", "erase"}
ReceiverPC == {"poll", "lock", "lookup", "set", "signal", "pop", "unlock", "crashed"}

\* Type correctness of the forwarder's state.
TypeOK ==
  /\ recMap \in [ResTypes -> Responsers \cup {NoRes}]
  /\ priortyMap \in [ResTypes -> RES_PRIOR]
  /\ responserNum \in 0..responserMaxNum
  /\ queue \in [Levels -> Seq(MSG_INFO)]
  /\ mutex \in Clients \cup {Free, RecThread}
  /\ cpc \in [Clients -> ClientPC] /\ cmsg \in [Clients -> Request]
  /\ reg \in Registration
  /\ rpc \in ReceiverPC /\ recQueue \in Levels /\ pRes \in Responsers \cup {NoRes}
  /\ pushed \in Nat /\ handed \in Nat /\ passed \subseteq Nat

\* The mutex is held by exactly the thread that is in its critical section,
\* on every path: also on the one where `continue' leaves processMsg's block
\* without reaching its pthread_mutex_unlock (receiver.cpp:118), and where a
\* queue is chosen before the lock is taken (receiver.cpp:90-111).
MutexDiscipline ==
  /\ \A c \in Clients : mutex = c <=> cpc[c] \in {"push", "unlock"}
  /\ mutex = RecThread <=> rpc \in {"lookup", "set", "signal", "pop", "unlock", "crashed"}

\* A queue that processMsg found non-empty before it had the lock is still
\* non-empty whenever it uses it: front() and pop() never meet an empty queue
\* (receiver.cpp:112, 123), and the test of line 107 cannot fail.
SelectedNonEmpty ==
  rpc \in {"lock", "lookup", "set", "signal", "pop"} => queue[recQueue] # <<>>

\* A message is overtaken by a message of a lower level at most once, however
\* pushes fall between the unlocked polls and the pop: what waits in a queue that
\* this round of polls has passed over, and will be overtaken by its pop, arrived
\* after the poll and was never overtaken before (receiver.cpp:88-123).
PassedOver(q) == q > recQueue /\ rpc \in {"poll", "lock", "lookup", "set", "signal", "pop"}
OvertakenOnce == \A q \in Levels : PassedOver(q) => Ids(queue[q]) \cap passed = {}

\* Every message waits in one queue, once, behind the messages of its queue that
\* were pushed before it, and is handed to a responser exactly once: none is
\* dropped and none is forwarded again (receiver.cpp:111-124).
Increasing(s) == \A i, j \in DOMAIN s : i < j => s[i].id < s[j].id
QueuesOrdered ==
  /\ \A q \in Levels : Increasing(queue[q]) /\ Ids(queue[q]) \subseteq 1..pushed
  /\ \A p, q \in Levels : p # q => Ids(queue[p]) \cap Ids(queue[q]) = {}
  /\ passed \subseteq 1..pushed
Forwarded == IF rpc \in {"signal", "pop"} THEN handed - 1 ELSE handed
EachHandedOnce ==
  /\ QueuesOrdered
  /\ Forwarded + Len(queue[LOW]) + Len(queue[MID]) + Len(queue[HIGH]) = pushed

\* The forwarder implements Dispatch: what Push and Pop do to the three queues
\* is accepting and forwarding a message, and every other step is invisible.
Waiting == UNION {{[id |-> i, level |-> q] : i \in Ids(queue[q])} : q \in Levels}
D == INSTANCE Dispatch
       WITH waiting <- Waiting, overtaken <- passed, sent <- pushed, forwarded <- Forwarded
Dispatches == D!DispatchSpec

-----------------------------------------------------------------------------
(* What a comment of the code says, and the code does not do.               *)

\* "forwards the message to the responser it belongs to" (main.cpp:13-14): a
\* queued message with a registered responser is forwarded in the end, unless
\* its responser is removed or the process is lost.
Hosted(i) ==
  \E q \in Levels : \E k \in DOMAIN queue[q] :
    queue[q][k].id = i /\ recMap[queue[q][k].resType] # NoRes
HostedForwarded ==
  \A i \in 1..MaxPush : Hosted(i) ~> (~Hosted(i) \/ rpc = "crashed")
=============================================================================
