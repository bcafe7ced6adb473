--------------------------- MODULE ReceiverProofs ---------------------------
(***************************************************************************)
(* Proofs about Receiver, for any number of clients, types, responsers and *)
(* messages.                                                               *)
(***************************************************************************)
EXTENDS Receiver, TLAPS

LEMMA AnyTyped == AnyRequest \in Request /\ AnyRegistration \in Registration
<1>1. \E m \in Request : TRUE
  <2>1. PICK t \in ResTypes, e \in EventIDs : TRUE
    BY ComDefAssumption
  <2>2. [resType |-> t, eventID |-> e] \in Request
    BY DEF Request
  <2>. QED BY <2>2
<1>2. \E g \in Registration : TRUE
  <2>1. PICK t \in ResTypes, r \in Responsers : TRUE
    BY ComDefAssumption
  <2>2. [resType |-> t, prior |-> LOW, res |-> r] \in Registration
    BY DEF Registration, RES_PRIOR
  <2>. QED BY <2>2
<1>. QED BY <1>1, <1>2 DEF AnyRequest, AnyRegistration

\* A registration that passed the test against responserMaxNum is still within
\* it when responserNum is incremented: only the registrar changes the number.
Room == cpc[Registrar] \in {"insert", "prior"} => responserNum < responserMaxNum

\* Types and the selected queue go together: pop() on an empty queue would leave
\* anything behind.
TypeInv == TypeOK /\ Room /\ SelectedNonEmpty

LEMMA LevelTyped == HIGH \in Levels /\ \A p \in RES_PRIOR : Level(p) \in Levels
  BY DEF Level, Levels, RES_PRIOR, LOW, MID, HIGH, NULL_VALUE

LEMMA IdsTyped == ASSUME NEW s \in Seq(MSG_INFO) PROVE Ids(s) \subseteq Nat
<1>1. \A i \in DOMAIN s : s[i] \in MSG_INFO
  OBVIOUS
<1>. QED BY <1>1 DEF Ids, MSG_INFO

LEMMA AppendNonEmpty ==
  ASSUME NEW s \in Seq(MSG_INFO), NEW m \in MSG_INFO PROVE Append(s, m) # <<>>
  OBVIOUS

\* The initial state and every step keep the types, and leave room for the
\* registration under way.
LEMMA TypeInvInit == RecInit => TypeInv
  BY AnyTyped, ReceiverAssumption
  DEF RecInit, TypeInv, TypeOK, Room, SelectedNonEmpty, ClientPC, ReceiverPC, Levels, RES_PRIOR, LOW

LEMMA TypeInvStep == TypeInv /\ [RecNext]_recVars => TypeInv'
<1>. SUFFICES ASSUME TypeInv, [RecNext]_recVars PROVE TypeInv'
  OBVIOUS
<1>. USE ReceiverAssumption DEF TypeInv, TypeOK, Room, SelectedNonEmpty, ClientPC, ReceiverPC
<1>1. ASSUME NEW c \in Clients, NEW m \in Request, Call(c, m) PROVE TypeInv'
  BY <1>1 DEF Call, Goto, registry, thread, history
<1>2. ASSUME NEW c \in Clients, Lock(c) PROVE TypeInv'
  BY <1>2 DEF Lock, Goto, registry, thread, history
<1>3. ASSUME NEW c \in Clients, Push(c) PROVE TypeInv'
  <2>1. Stamped(cmsg[c]) \in MSG_INFO
    BY DEF Stamped, MSG_INFO, Request
  <2>2. queue' \in [Levels -> Seq(MSG_INFO)]
    BY <1>3, <2>1, LevelTyped DEF Push, Request
  <2>3. \A q \in Levels : queue'[q] = queue[q] \/ queue'[q] # <<>>
    BY <1>3, <2>1, AppendNonEmpty DEF Push
  <2>4. TypeOK'
    BY <1>3, <2>2 DEF Push, Goto, registry, thread, history
  <2>5. Room' /\ SelectedNonEmpty'
    BY <1>3, <2>3 DEF Push, Goto, registry, thread
  <2>. QED BY <2>4, <2>5
<1>4. ASSUME NEW c \in Clients, Unlock(c) PROVE TypeInv'
  BY <1>4, AnyTyped DEF Unlock, Goto, registry, thread, history
<1>5. ASSUME NEW g \in Registration, BeginAdd(g) PROVE TypeInv'
  BY <1>5 DEF BeginAdd, Goto, registry, thread, history
<1>6. CASE Insert
  BY <1>6 DEF Insert, Goto, registry, thread, history, Registration
<1>7. CASE SetPrior
  BY <1>7, AnyTyped DEF SetPrior, Goto, registry, thread, history, Registration
<1>8. ASSUME NEW t \in ResTypes, BeginDelete(t) PROVE TypeInv'
  BY <1>8 DEF BeginDelete, Goto, registry, thread, history, Registration
<1>9. CASE Erase
  BY <1>9, AnyTyped DEF Erase, Goto, registry, thread, history, Registration
<1>10. CASE PollHit \/ PollMiss \/ RecLock
  <2>1. recQueue' \in Levels
    BY <1>10 DEF PollHit, PollMiss, RecLock, Levels, LOW, MID, HIGH
  <2>. QED
    BY <1>10, <2>1 DEF PollHit, PollMiss, RecLock, registry, client, history
<1>11. CASE Lookup
  BY <1>11, LevelTyped DEF Lookup, LookupHit, LookupMiss, LookupCrash, registry, client, history
<1>12. CASE SetEventMsg
  BY <1>12 DEF SetEventMsg, registry, client
<1>16. CASE SignalCond
  BY <1>16 DEF SignalCond, registry, client, history
<1>15. CASE RecUnlock
  BY <1>15, LevelTyped DEF RecUnlock, registry, client, history
<1>13. CASE Pop
  <2>1. HigherQueued \subseteq Nat
    BY IdsTyped DEF HigherQueued
  <2>2. passed' \subseteq Nat
    BY <1>13, <2>1 DEF Pop
  <2>3. queue' \in [Levels -> Seq(MSG_INFO)]
    <3>1. queue[recQueue] \in Seq(MSG_INFO) /\ queue[recQueue] # <<>>
      BY <1>13 DEF Pop
    <3>2. Tail(queue[recQueue]) \in Seq(MSG_INFO)
      BY <3>1
    <3>. QED BY <1>13, <3>2 DEF Pop
  <2>. QED BY <1>13, <2>2, <2>3 DEF Pop, registry, client, history
<1>14. CASE UNCHANGED recVars
  BY <1>14 DEF recVars, registry, client, thread, history
<1>. QED
  BY <1>1, <1>2, <1>3, <1>4, <1>5, <1>6, <1>7, <1>8, <1>9, <1>10, <1>11, <1>12, <1>13, <1>14,
    <1>15, <1>16
  DEF RecNext, SendStep, RegStep, RecStep, Crashed

\* The forwarder's state keeps its types.
THEOREM ReceiverTypeOK == RecSpec => []TypeOK
<1>1. RecInit => TypeInv
  BY TypeInvInit
<1>2. TypeInv /\ [RecNext]_recVars => TypeInv'
  BY TypeInvStep
<1>3. TypeInv => TypeOK
  BY DEF TypeInv
<1>. QED BY <1>1, <1>2, <1>3, PTL DEF RecSpec

THEOREM ReceiverSelectedNonEmpty == RecSpec => []SelectedNonEmpty
<1>1. TypeInv => SelectedNonEmpty
  BY DEF TypeInv
<1>. QED BY <1>1, TypeInvInit, TypeInvStep, PTL DEF RecSpec

-----------------------------------------------------------------------------
(* The mutex                                                                *)

LEMMA MutexStep ==
  TypeInv /\ MutexDiscipline /\ [RecNext]_recVars => MutexDiscipline'
<1>. SUFFICES ASSUME TypeInv, MutexDiscipline, [RecNext]_recVars PROVE MutexDiscipline'
  OBVIOUS
<1>0. cpc \in [Clients -> ClientPC] /\ mutex \in Clients \cup {Free, RecThread}
  BY DEF TypeInv, TypeOK
<1>. USE <1>0, ReceiverAssumption DEF MutexDiscipline, ClientPC
<1>1. ASSUME NEW c \in Clients, SendStep(c) PROVE MutexDiscipline'
  BY <1>1 DEF SendStep, Call, Lock, Push, Unlock, Goto, thread
<1>2. CASE RegStep
  BY <1>2 DEF RegStep, BeginAdd, Insert, SetPrior, BeginDelete, Erase, Goto, thread
<1>3. CASE RecStep
  BY <1>3 DEF RecStep, PollHit, PollMiss, RecLock, Lookup, LookupHit, LookupMiss, LookupCrash,
    SetEventMsg, SignalCond, Pop, RecUnlock, client
<1>4. CASE UNCHANGED recVars
  BY <1>4 DEF recVars, client, thread
<1>. QED BY <1>1, <1>2, <1>3, <1>4 DEF RecNext, Crashed

\* The mutex is held by exactly the thread that is in its critical section.
THEOREM ReceiverMutex == RecSpec => []MutexDiscipline
<1>1. RecInit => MutexDiscipline
  BY ReceiverAssumption DEF RecInit, MutexDiscipline
<1>. QED BY <1>1, TypeInvInit, TypeInvStep, MutexStep, PTL DEF RecSpec

-----------------------------------------------------------------------------
(* Sequences of messages                                                    *)

LEMMA IdsAppend ==
  ASSUME NEW s \in Seq(MSG_INFO), NEW m \in MSG_INFO
  PROVE  Ids(Append(s, m)) = Ids(s) \cup {m.id}
<1>. DEFINE a == Append(s, m)
<1>1. DOMAIN a = DOMAIN s \cup {Len(s) + 1} /\ a[Len(s) + 1] = m
  OBVIOUS
<1>2. \A i \in DOMAIN s : a[i] = s[i]
  OBVIOUS
<1>. QED BY <1>1, <1>2 DEF Ids

LEMMA IdsTail ==
  ASSUME NEW s \in Seq(MSG_INFO), s # <<>>
  PROVE  /\ Ids(s) = Ids(Tail(s)) \cup {Head(s).id}
         /\ Increasing(s) => /\ Increasing(Tail(s))
                             /\ Head(s).id \notin Ids(Tail(s))
                             /\ \A i \in Ids(s) : Head(s).id <= i
<1>. DEFINE t == Tail(s)
<1>1. /\ Len(s) \in Nat \ {0} /\ DOMAIN s = 1..Len(s) /\ Head(s) = s[1]
      /\ DOMAIN t = 1..(Len(s) - 1) /\ \A i \in DOMAIN t : t[i] = s[i + 1]
  OBVIOUS
<1>2. \A i \in DOMAIN s : s[i].id \in Nat
  <2>1. \A i \in DOMAIN s : s[i] \in MSG_INFO
    OBVIOUS
  <2>. QED BY <2>1 DEF MSG_INFO
<1>. HIDE DEF t
<1>3. \A i \in DOMAIN s : i = 1 \/ (i - 1 \in DOMAIN t /\ s[i] = t[i - 1])
  BY <1>1
<1>4. Ids(s) = Ids(t) \cup {Head(s).id}
  <2>1. \A i \in DOMAIN s : s[i].id \in Ids(t) \cup {Head(s).id}
    BY <1>1, <1>3 DEF Ids
  <2>2. \A i \in DOMAIN t : i + 1 \in DOMAIN s /\ s[i + 1].id = t[i].id
    BY <1>1
  <2>3. Ids(t) \subseteq Ids(s)
    BY <2>2 DEF Ids
  <2>4. 1 \in DOMAIN s /\ Head(s).id = s[1].id
    BY <1>1
  <2>. QED BY <2>1, <2>3, <2>4 DEF Ids
<1>5. ASSUME Increasing(s) PROVE Increasing(t)
  BY <1>1, <1>5 DEF Increasing
<1>6. ASSUME Increasing(s), NEW i \in DOMAIN t PROVE Head(s).id < t[i].id
  BY <1>1, <1>6 DEF Increasing
<1>7. ASSUME Increasing(s) PROVE Head(s).id \notin Ids(t)
  BY <1>1, <1>2, <1>6, <1>7 DEF Ids
<1>8. ASSUME Increasing(s), NEW i \in Ids(s) PROVE Head(s).id <= i
  BY <1>1, <1>2, <1>3, <1>6, <1>8 DEF Ids
<1>. QED BY <1>4, <1>5, <1>7, <1>8 DEF t

LEMMA IncreasingAppend ==
  ASSUME NEW s \in Seq(MSG_INFO), NEW m \in MSG_INFO, NEW n \in Nat,
         Increasing(s), Ids(s) \subseteq 1..n, m.id = n + 1
  PROVE  Increasing(Append(s, m))
<1>. DEFINE a == Append(s, m)
<1>1. /\ DOMAIN s = 1..Len(s) /\ Len(s) \in Nat
      /\ DOMAIN a = 1..(Len(s) + 1) /\ a[Len(s) + 1] = m
      /\ \A i \in DOMAIN s : a[i] = s[i] /\ s[i].id \in 1..n
  BY DEF Ids
<1>. HIDE DEF a
<1>2. ASSUME NEW i \in DOMAIN a, NEW j \in DOMAIN a, i < j PROVE a[i].id < a[j].id
  <2>1. i \in DOMAIN s
    BY <1>1, <1>2
  <2>2. CASE j = Len(s) + 1
    BY <1>1, <2>1, <2>2
  <2>3. CASE j # Len(s) + 1
    BY <1>1, <1>2, <2>1, <2>3 DEF Increasing
  <2>. QED BY <2>2, <2>3
<1>. QED BY <1>2 DEF Increasing, a

-----------------------------------------------------------------------------
(* The queues.  A step pushes a message, pops one, or leaves the queues as  *)
(* they are and passes over a queue only if that queue is empty.            *)

QuietStep ==
  /\ UNCHANGED <<queue, pushed, passed>> /\ Forwarded' = Forwarded
  /\ \A q \in Levels : PassedOver(q)' => PassedOver(q) \/ queue[q] = <<>>

LEMMA StepKinds ==
  ASSUME TypeInv, [RecNext]_recVars
  PROVE  QuietStep \/ Pop \/ \E c \in Clients : Push(c)
<1>. USE DEF QuietStep, Forwarded, PassedOver
<1>0. handed \in Nat /\ recQueue \in Levels
  BY DEF TypeInv, TypeOK
<1>1. ASSUME NEW c \in Clients, SendStep(c), ~Push(c) PROVE QuietStep
  BY <1>1 DEF SendStep, Call, Lock, Unlock, thread, history
<1>2. CASE RegStep
  BY <1>2 DEF RegStep, BeginAdd, Insert, SetPrior, BeginDelete, Erase, thread, history
<1>3. CASE PollHit \/ RecLock \/ LookupCrash \/ SignalCond
  BY <1>3 DEF PollHit, RecLock, LookupCrash, SignalCond, history
<1>4. CASE PollMiss
  <2>1. \A q \in Levels : q > recQueue' => q > recQueue \/ q = recQueue
    BY <1>0, <1>4 DEF PollMiss, Levels, LOW, MID, HIGH
  <2>. QED BY <1>4, <2>1 DEF PollMiss, history
<1>5. CASE LookupMiss \/ RecUnlock
  <2>1. \A q \in Levels : ~(q > recQueue')
    BY <1>5 DEF LookupMiss, RecUnlock, Levels, LOW, MID, HIGH
  <2>. QED BY <1>5, <2>1 DEF LookupMiss, RecUnlock, history
<1>6. CASE \E r \in Responsers : LookupHit(r)
  BY <1>6 DEF LookupHit, history
<1>7. CASE SetEventMsg
  BY <1>0, <1>7 DEF SetEventMsg, history
<1>8. CASE UNCHANGED recVars
  BY <1>8 DEF recVars, thread, history
<1>. QED
  BY <1>1, <1>2, <1>3, <1>4, <1>5, <1>6, <1>7, <1>8
  DEF RecNext, RecStep, Lookup, Crashed

\* What a push and a pop do to the three queues.
LEMMA PushQueues ==
  ASSUME TypeInv, NEW c \in Clients, Push(c)
  PROVE  \E l \in Levels, m \in MSG_INFO :
           /\ m.id = pushed + 1
           /\ queue' = [queue EXCEPT ![l] = Append(@, m)]
<1>1. Stamped(cmsg[c]) \in MSG_INFO /\ Stamped(cmsg[c]).id = pushed + 1
  BY DEF Stamped, MSG_INFO, Request, TypeInv, TypeOK
<1>2. Level(priortyMap[cmsg[c].resType]) \in Levels
  BY LevelTyped DEF Request, TypeInv, TypeOK
<1>. QED BY <1>1, <1>2 DEF Push

LEMMA SelectedQueue ==
  ASSUME TypeInv, rpc = "pop"
  PROVE  recQueue \in Levels /\ queue[recQueue] \in Seq(MSG_INFO) /\ queue[recQueue] # <<>>
  BY DEF TypeInv, TypeOK, SelectedNonEmpty

LEMMA OrderedStep ==
  ASSUME TypeInv, QueuesOrdered, [RecNext]_recVars PROVE QueuesOrdered'
<1>0. /\ queue \in [Levels -> Seq(MSG_INFO)] /\ pushed \in Nat
      /\ 1..pushed \subseteq 1..(pushed + 1) /\ pushed + 1 \notin 1..pushed
  BY DEF TypeInv, TypeOK
<1>1. CASE QuietStep
  BY <1>1 DEF QuietStep, QueuesOrdered
<1>2. ASSUME NEW c \in Clients, Push(c) PROVE QueuesOrdered'
  <2>1. PICK l \in Levels, m \in MSG_INFO :
          m.id = pushed + 1 /\ queue' = [queue EXCEPT ![l] = Append(@, m)]
    BY <1>2, PushQueues
  <2>2. Increasing(queue'[l]) /\ Ids(queue'[l]) = Ids(queue[l]) \cup {pushed + 1}
    BY <1>0, <2>1, IdsAppend, IncreasingAppend DEF QueuesOrdered
  <2>3. \A q \in Levels : q # l => queue'[q] = queue[q]
    BY <1>0, <2>1
  <2>4. pushed' = pushed + 1 /\ passed' = passed
    BY <1>2 DEF Push
  <2>. QED BY <1>0, <2>2, <2>3, <2>4 DEF QueuesOrdered
<1>3. CASE Pop
  <2>1. recQueue \in Levels /\ queue[recQueue] \in Seq(MSG_INFO) /\ queue[recQueue] # <<>>
    BY <1>3, SelectedQueue DEF Pop
  <2>2. queue'[recQueue] = Tail(queue[recQueue])
    BY <1>0, <1>3, <2>1 DEF Pop
  <2>3. Increasing(queue'[recQueue]) /\ Ids(queue'[recQueue]) \subseteq Ids(queue[recQueue])
    BY <2>1, <2>2, IdsTail DEF QueuesOrdered
  <2>4. \A q \in Levels : q # recQueue => queue'[q] = queue[q]
    BY <1>0, <1>3 DEF Pop
  <2>5. pushed' = pushed /\ passed' \subseteq 1..pushed
    BY <1>3 DEF Pop, HigherQueued, QueuesOrdered
  <2>. QED BY <2>1, <2>3, <2>4, <2>5 DEF QueuesOrdered
<1>. QED BY <1>1, <1>2, <1>3, StepKinds

LEMMA OvertakenStep ==
  ASSUME TypeInv, QueuesOrdered, OvertakenOnce, [RecNext]_recVars PROVE OvertakenOnce'
<1>1. CASE QuietStep
  BY <1>1 DEF QuietStep, OvertakenOnce, Ids
<1>2. ASSUME NEW c \in Clients, Push(c) PROVE OvertakenOnce'
  <2>0. queue \in [Levels -> Seq(MSG_INFO)] /\ pushed + 1 \notin 1..pushed
    BY DEF TypeInv, TypeOK
  <2>1. PICK l \in Levels, m \in MSG_INFO :
          m.id = pushed + 1 /\ queue' = [queue EXCEPT ![l] = Append(@, m)]
    BY <1>2, PushQueues
  <2>2. \A q \in Levels : Ids(queue'[q]) \subseteq Ids(queue[q]) \cup {pushed + 1}
    BY <2>0, <2>1, IdsAppend
  <2>3. passed' = passed /\ \A q \in Levels : PassedOver(q)' => PassedOver(q)
    BY <1>2 DEF Push, thread, PassedOver
  <2>4. pushed + 1 \notin passed
    BY <2>0 DEF QueuesOrdered
  <2>5. \A q \in Levels : Ids(queue'[q]) \cap passed' \subseteq Ids(queue[q]) \cap passed
    BY <2>2, <2>3, <2>4
  <2>. QED BY <2>3, <2>5 DEF OvertakenOnce
<1>3. CASE Pop
  BY <1>3 DEF Pop, OvertakenOnce, PassedOver
<1>. QED BY <1>1, <1>2, <1>3, StepKinds

QueueInv == TypeInv /\ QueuesOrdered /\ OvertakenOnce

LEMMA QueueInvInit == RecInit => QueueInv
<1>1. RecInit => \A q \in Levels : queue[q] = <<>>
  BY DEF RecInit
<1>2. Ids(<<>>) = {} /\ Increasing(<<>>)
  BY DEF Ids, Increasing
<1>. QED
  BY <1>1, <1>2, TypeInvInit DEF QueueInv, QueuesOrdered, OvertakenOnce, RecInit

LEMMA QueueInvStep == QueueInv /\ [RecNext]_recVars => QueueInv'
  BY TypeInvStep, OrderedStep, OvertakenStep DEF QueueInv

\* No message is overtaken by a lower one twice, for any number of clients and
\* messages and any interleaving of their pushes with the unlocked polls.
THEOREM ReceiverOvertakenOnce == RecSpec => []OvertakenOnce
<1>1. QueueInv => OvertakenOnce
  BY DEF QueueInv
<1>. QED BY <1>1, QueueInvInit, QueueInvStep, PTL DEF RecSpec

\* What is counted as handed over and what is queued add up to what was pushed.
Balance == Forwarded + Len(queue[LOW]) + Len(queue[MID]) + Len(queue[HIGH]) = pushed

LEMMA BalanceStep == TypeInv /\ Balance /\ [RecNext]_recVars => Balance'
<1>. SUFFICES ASSUME TypeInv, Balance, [RecNext]_recVars PROVE Balance'
  OBVIOUS
<1>0. /\ queue \in [Levels -> Seq(MSG_INFO)] /\ pushed \in Nat /\ handed \in Nat
      /\ Levels = {LOW, MID, HIGH} /\ LOW # MID /\ MID # HIGH /\ LOW # HIGH
  BY DEF TypeInv, TypeOK, Levels, LOW, MID, HIGH
<1>a. /\ Len(queue[LOW]) \in Nat /\ Len(queue[MID]) \in Nat /\ Len(queue[HIGH]) \in Nat
      /\ Forwarded \in Int
  BY <1>0 DEF Forwarded
<1>b. Forwarded + Len(queue[LOW]) + Len(queue[MID]) + Len(queue[HIGH]) = pushed
  BY DEF Balance
<1>1. CASE QuietStep
  BY <1>1 DEF QuietStep, Balance
<1>2. ASSUME NEW c \in Clients, Push(c) PROVE Balance'
  <2>1. PICK l \in Levels, m \in MSG_INFO :
          m.id = pushed + 1 /\ queue' = [queue EXCEPT ![l] = Append(@, m)]
    BY <1>2, PushQueues
  <2>2. Len(queue'[l]) = Len(queue[l]) + 1
    BY <1>0, <2>1
  <2>3. \A q \in Levels : q # l => queue'[q] = queue[q]
    BY <1>0, <2>1
  <2>4. pushed' = pushed + 1 /\ Forwarded' = Forwarded
    BY <1>2 DEF Push, thread, Forwarded
  <2>5. CASE l = LOW
    <3>1. /\ Len(queue'[LOW]) = Len(queue[LOW]) + 1
          /\ Len(queue'[MID]) = Len(queue[MID]) /\ Len(queue'[HIGH]) = Len(queue[HIGH])
      BY <1>0, <2>2, <2>3, <2>5
    <3>. QED BY <1>0, <1>a, <1>b, <2>4, <3>1 DEF Balance
  <2>6. CASE l = MID
    <3>1. /\ Len(queue'[MID]) = Len(queue[MID]) + 1
          /\ Len(queue'[LOW]) = Len(queue[LOW]) /\ Len(queue'[HIGH]) = Len(queue[HIGH])
      BY <1>0, <2>2, <2>3, <2>6
    <3>. QED BY <1>0, <1>a, <1>b, <2>4, <3>1 DEF Balance
  <2>7. CASE l = HIGH
    <3>1. /\ Len(queue'[HIGH]) = Len(queue[HIGH]) + 1
          /\ Len(queue'[LOW]) = Len(queue[LOW]) /\ Len(queue'[MID]) = Len(queue[MID])
      BY <1>0, <2>2, <2>3, <2>7
    <3>. QED BY <1>0, <1>a, <1>b, <2>4, <3>1 DEF Balance
  <2>. QED BY <1>0, <2>5, <2>6, <2>7
<1>3. CASE Pop
  <2>1. recQueue \in Levels /\ queue[recQueue] \in Seq(MSG_INFO) /\ queue[recQueue] # <<>>
    BY <1>3, SelectedQueue DEF Pop
  <2>2. Len(queue'[recQueue]) = Len(queue[recQueue]) - 1
    BY <1>0, <1>3, <2>1 DEF Pop
  <2>3. \A q \in Levels : q # recQueue => queue'[q] = queue[q]
    BY <1>0, <1>3 DEF Pop
  <2>4. pushed' = pushed /\ Forwarded' = Forwarded + 1
    BY <1>0, <1>3 DEF Pop, Forwarded
  <2>5. CASE recQueue = LOW
    <3>1. /\ Len(queue'[LOW]) = Len(queue[LOW]) - 1
          /\ Len(queue'[MID]) = Len(queue[MID]) /\ Len(queue'[HIGH]) = Len(queue[HIGH])
      BY <1>0, <2>2, <2>3, <2>5
    <3>. QED BY <1>0, <1>a, <1>b, <2>4, <3>1 DEF Balance
  <2>6. CASE recQueue = MID
    <3>1. /\ Len(queue'[MID]) = Len(queue[MID]) - 1
          /\ Len(queue'[LOW]) = Len(queue[LOW]) /\ Len(queue'[HIGH]) = Len(queue[HIGH])
      BY <1>0, <2>2, <2>3, <2>6
    <3>. QED BY <1>0, <1>a, <1>b, <2>4, <3>1 DEF Balance
  <2>7. CASE recQueue = HIGH
    <3>1. /\ Len(queue'[HIGH]) = Len(queue[HIGH]) - 1
          /\ Len(queue'[LOW]) = Len(queue[LOW]) /\ Len(queue'[MID]) = Len(queue[MID])
      BY <1>0, <2>2, <2>3, <2>7
    <3>. QED BY <1>0, <1>a, <1>b, <2>4, <3>1 DEF Balance
  <2>. QED BY <1>0, <2>1, <2>5, <2>6, <2>7
<1>. QED BY <1>1, <1>2, <1>3, StepKinds

\* Every message waits once and in order, and is handed over exactly once.
THEOREM ReceiverEachHandedOnce == RecSpec => []EachHandedOnce
<1>1. RecInit => Balance
  BY DEF RecInit, Balance, Forwarded, Levels, LOW, MID, HIGH
<1>2. QueueInv /\ Balance => EachHandedOnce
  BY DEF QueueInv, Balance, EachHandedOnce
<1>3. QueueInv /\ Balance /\ [RecNext]_recVars => Balance'
  BY BalanceStep DEF QueueInv
<1>. QED BY <1>1, <1>2, <1>3, QueueInvInit, QueueInvStep, PTL DEF RecSpec

-----------------------------------------------------------------------------
(* Receiver implements Dispatch.                                            *)

LEMMA WaitingMember ==
  \A x : x \in Waiting <=> \E q \in Levels : \E i \in Ids(queue[q]) : x = [id |-> i, level |-> q]
  BY DEF Waiting

LEMMA PushAccepts ==
  ASSUME QueueInv, NEW c \in Clients, Push(c)
  PROVE  \E q \in Levels : D!Accept(q)
<1>1. PICK l \in Levels, m \in MSG_INFO :
        m.id = pushed + 1 /\ queue' = [queue EXCEPT ![l] = Append(@, m)]
  BY PushQueues DEF QueueInv
<1>2. queue \in [Levels -> Seq(MSG_INFO)]
  BY DEF QueueInv, TypeInv, TypeOK
<1>3. Ids(queue'[l]) = Ids(queue[l]) \cup {pushed + 1}
  BY <1>1, <1>2, IdsAppend
<1>4. \A q \in Levels : q # l => queue'[q] = queue[q]
  BY <1>1, <1>2
<1>5. Waiting' = Waiting \cup {[id |-> pushed + 1, level |-> l]}
  BY <1>3, <1>4 DEF Waiting
<1>6. pushed' = pushed + 1 /\ passed' = passed /\ Forwarded' = Forwarded
  BY DEF Push, thread, Forwarded
<1>. QED BY <1>5, <1>6 DEF D!Accept

LEMMA PopForwards ==
  ASSUME QueueInv, Pop
  PROVE  \E m \in Waiting : D!Forward(m)
<1>. DEFINE h == Head(queue[recQueue]).id
            m == [id |-> h, level |-> recQueue]
<1>1. recQueue \in Levels /\ queue[recQueue] \in Seq(MSG_INFO) /\ queue[recQueue] # <<>>
  BY SelectedQueue DEF Pop, QueueInv
<1>2. /\ Ids(queue[recQueue]) = Ids(queue'[recQueue]) \cup {h}
      /\ h \notin Ids(queue'[recQueue]) /\ \A i \in Ids(queue[recQueue]) : h <= i
  <2>1. queue'[recQueue] = Tail(queue[recQueue])
    BY <1>1 DEF Pop, QueueInv, TypeInv, TypeOK
  <2>. QED BY <1>1, <2>1, IdsTail DEF QueueInv, QueuesOrdered
<1>3. \A q \in Levels : q # recQueue => queue'[q] = queue[q]
  BY DEF Pop, QueueInv, TypeInv, TypeOK
<1>. HIDE DEF h
<1>4. m \in Waiting /\ D!Oldest(m)
  BY <1>1, <1>2, WaitingMember DEF D!Oldest
<1>5. {n.id : n \in D!Above(m)} = HigherQueued
  <2>1. \A n \in D!Above(m) : n.id \in HigherQueued
    BY WaitingMember DEF D!Above, HigherQueued
  <2>2. ASSUME NEW i \in HigherQueued PROVE \E n \in D!Above(m) : i = n.id
    <3>1. PICK q \in Levels : q > recQueue /\ i \in Ids(queue[q])
      BY <2>2 DEF HigherQueued
    <3>2. [id |-> i, level |-> q] \in D!Above(m)
      BY <3>1, WaitingMember DEF D!Above
    <3>. QED BY <3>2
  <2>. QED BY <2>1, <2>2
<1>6. HigherQueued \cap passed = {}
  BY DEF Pop, QueueInv, OvertakenOnce, PassedOver, HigherQueued
<1>7. Waiting' = Waiting \ {m}
  BY <1>1, <1>2, <1>3 DEF Waiting
<1>8. pushed' = pushed /\ passed' = passed \cup HigherQueued /\ Forwarded' = Forwarded + 1
  BY DEF Pop, Forwarded, QueueInv, TypeInv, TypeOK
<1>9. D!Forward(m)
  BY <1>4, <1>5, <1>6, <1>7, <1>8 DEF D!Forward
<1>. QED BY <1>4, <1>9

LEMMA StepDispatches ==
  QueueInv /\ [RecNext]_recVars => [D!DispatchNext]_(D!dispatchVars)
<1>. SUFFICES ASSUME QueueInv, [RecNext]_recVars PROVE [D!DispatchNext]_(D!dispatchVars)
  OBVIOUS
<1>1. CASE QuietStep
  BY <1>1 DEF QuietStep, D!dispatchVars, Waiting, Ids
<1>2. ASSUME NEW c \in Clients, Push(c) PROVE D!DispatchNext
  BY <1>2, PushAccepts DEF D!DispatchNext
<1>3. CASE Pop
  BY <1>3, PopForwards DEF D!DispatchNext
<1>. QED BY <1>1, <1>2, <1>3, StepKinds DEF QueueInv

\* The forwarder, with its queues, mutex and unlocked polls, implements the
\* abstract dispatcher.
THEOREM ReceiverDispatches == RecSpec => Dispatches
<1>1. RecInit => D!DispatchInit
  BY DEF RecInit, D!DispatchInit, Waiting, Ids, Forwarded
<1>. QED
  BY <1>1, QueueInvInit, QueueInvStep, StepDispatches, PTL DEF RecSpec, Dispatches, D!DispatchSpec
=============================================================================
