--------------------------- MODULE MainAppProofs ---------------------------
(***************************************************************************)
(* Proofs about MainApp, for any number of rounds, messages, parameters    *)
(* and spurious wakeups: the program is an instance of the forwarder and   *)
(* of the hand-over, and what is proved of these holds of it.              *)
(***************************************************************************)
EXTENDS MainApp, ReceiverProofs

\* A message that main sends, and the queue it goes through.
Good(m, q) ==
  \/ q = MID  /\ m.resType = RES1 /\ m.eventID \in {R1_FUN1, R1_FUN2}
  \/ q = HIGH /\ m.resType = RES2 /\ m.eventID \in {R2_FUN1, R2_FUN2}

\* The object whose messages go through a queue.
Host(q) == IF q = MID THEN res1_instance ELSE res2_instance

\* addResponser is still to be called, or has not returned.
Adds == line \in {"add1", "add2"} \/ cpc[main] \in {"insert", "prior"}

\* Where main is in its program, and what it has given to the function it is in.
ProgramInv ==
  /\ line \in {"add1", "add2", "send1", "send2", "send3", "send4", "sleep"}
  /\ \A c \in Clients : c # main => cpc[c] = "idle"
  /\ cpc[main] # "erase"
  /\ line = "add1" => cpc[main] = "idle"
  /\ line = "add2" => cpc[main] \in {"idle", "insert", "prior"}
  /\ cpc[main] \in {"insert", "prior"} =>
       \/ line = "add2" /\ reg = Adding.add1
       \/ line = "send1" /\ reg = Adding.add2
  /\ cpc[main] \in {"call", "push"} => pushed < MaxPush /\ \E q \in Levels : Good(cmsg[main], q)
  /\ pushed <= MaxPush

\* What the registrations have done so far; until both are done there is nothing
\* for the receiver to look up.
RegisteredInv ==
  /\ recMap[RES1] = IF line = "add1" \/ (line = "add2" /\ cpc[main] = "insert")
                    THEN NoRes ELSE res1_instance
  /\ recMap[RES2] = IF line \in {"add1", "add2"} \/ cpc[main] = "insert" THEN NoRes ELSE res2_instance
  /\ ~Adds => priortyMap[RES1] = MID /\ priortyMap[RES2] = HIGH
  /\ (line = "add2" /\ cpc[main] = "idle") \/ line = "send1" => priortyMap[RES1] = MID
  /\ Adds => rpc = "poll" /\ \A q \in Levels : queue[q] = <<>>

\* Every queue holds the messages of one responser, and that is the one found.
HostInv ==
  /\ \A q \in Levels : \A k \in DOMAIN queue[q] : Good(queue[q][k], q)
  /\ rpc \in {"set", "signal", "pop"} => pRes = Host(recQueue)
  /\ \A r \in Responsers : eventMsg[r][0].id > 0 => eventMsg[r][0].eventID \in FunctionsOf[r]

\* The slot of a responser is older than what waits for it, but for the message at
\* the head of the queue once that has been copied.
SlotInv ==
  /\ rpc = "signal" => copied = Fields
  /\ rpc \notin {"set", "signal"} => copied = {}
  /\ \A r \in Responsers : eventMsg[r][0].id <= pushed
  /\ \A q \in {MID, HIGH} : \A i \in Ids(queue[q]) :
       IF recQueue = q /\ (0 \in copied \/ rpc = "pop")
       THEN i >= eventMsg[Host(q)][0].id ELSE i > eventMsg[Host(q)][0].id

-----------------------------------------------------------------------------
(* The program is an instance of the forwarder with its clients.            *)

LEMMA MainIs ==
  /\ Registrar = main /\ main \in Clients
  /\ DOMAIN Adding = {"add1", "add2"} /\ DOMAIN Sending = {"send1", "send2", "send3", "send4"}
  /\ \A l \in DOMAIN Adding : Adding[l] \in Registration
  /\ \A l \in DOMAIN Sending : Sending[l] \in Request /\ \E q \in Levels : Good(Sending[l], q)
  /\ After["add1"] = "add2" /\ After["add2"] = "send1" /\ After["send1"] = "send2"
  /\ After["send2"] = "send3" /\ After["send3"] = "send4" /\ After["send4"] = "sleep"
<1>1. Registrar = main /\ main \in Clients
  BY MainAssumption, ReceiverAssumption
<1>2. DOMAIN Adding = {"add1", "add2"} /\ DOMAIN Sending = {"send1", "send2", "send3", "send4"}
  BY DEF Adding, Sending
<1>3. Adding["add1"] \in Registration /\ Adding["add2"] \in Registration
  BY MainAssumption DEF Adding, Registration, RES_PRIOR, MID, HIGH
<1>4. \A l \in DOMAIN Sending : Sending[l] \in Request
  BY <1>2, MainAssumption DEF Sending, Request
<1>5. /\ Good(Sending["send1"], MID) /\ Good(Sending["send2"], MID)
      /\ Good(Sending["send3"], HIGH) /\ Good(Sending["send4"], HIGH)
  BY DEF Sending, Good
<1>6. MID \in Levels /\ HIGH \in Levels
  BY DEF Levels
<1>7. /\ After["add1"] = "add2" /\ After["add2"] = "send1" /\ After["send1"] = "send2"
      /\ After["send2"] = "send3" /\ After["send3"] = "send4" /\ After["send4"] = "sleep"
  BY DEF After
<1>. QED BY <1>1, <1>2, <1>3, <1>4, <1>5, <1>6, <1>7

LEMMA MainStepsReceiver == [MainNext]_mainVars => [RecNext]_recVars
<1>. SUFFICES ASSUME [MainNext]_mainVars PROVE [RecNext]_recVars
  OBVIOUS
<1>1. CASE Register
  BY <1>1, MainIs DEF Register, RecNext, RegStep
<1>2. CASE Send
  BY <1>2, MainIs DEF Send, RecNext, SendStep
<1>3. CASE InCall
  BY <1>3, MainIs DEF InCall, RecNext, SendStep, RegStep
<1>4. CASE Sleep \/ UNCHANGED mainVars
  BY <1>4 DEF Sleep, mainVars, asyncVars
<1>5. CASE ReceiverStep
  BY <1>5 DEF ReceiverStep, SetField, SetReturn, SignalRes, ForwardStep, RecNext, RecStep
<1>6. ASSUME NEW r \in Responsers, ResponserStep(r) PROVE UNCHANGED recVars
  BY <1>6 DEF ResponserStep
<1>. QED BY <1>1, <1>2, <1>3, <1>4, <1>5, <1>6 DEF MainNext, MainStep

\* The program is one client of the forwarder and its only registrar, and its
\* receiver a receiver: what is proved of Receiver holds of it (main.cpp:18-60).
THEOREM MainImplementsReceiver == MainSpec => RecSpec
<1>1. MainInit => RecInit
  BY DEF MainInit, AsyncInit
<1>. QED BY <1>1, MainStepsReceiver, PTL DEF MainSpec, RecSpec

-----------------------------------------------------------------------------
(* Where main is, and what it has registered.                               *)

LEMMA ProgramInvStep ==
  ASSUME TypeInv, ProgramInv, [MainNext]_mainVars PROVE ProgramInv'
<1>0. /\ cpc \in [Clients -> ClientPC] /\ cmsg \in [Clients -> Request] /\ pushed \in Nat
      /\ MaxPush \in Nat
  BY ReceiverAssumption DEF TypeInv, TypeOK
<1>. USE <1>0, MainIs DEF ProgramInv
<1>1. CASE Register
  BY <1>1 DEF Register, BeginAdd, Advance, Goto, history
<1>2. CASE Send
  <2>1. line' # "add1" /\ line' # "add2" /\ line' \in {"send2", "send3", "send4", "sleep"}
    BY <1>2 DEF Send, Advance
  <2>2. \E q \in Levels : Good(cmsg'[main], q)
    BY <1>2 DEF Send, Call
  <2>. QED BY <1>2, <2>1, <2>2 DEF Send, Call, Goto, thread, history
<1>3. CASE InCall
  <2>1. line' = line
    BY <1>3 DEF InCall
  <2>2. CASE Insert \/ SetPrior
    BY <2>1, <2>2 DEF Insert, SetPrior, Goto, history
  <2>3. CASE Lock(main)
    BY <2>1, <2>3 DEF Lock, Goto, history
  <2>4. CASE Push(main)
    BY <2>1, <2>4 DEF Push, Goto
  <2>5. CASE Unlock(main)
    BY <2>1, <2>5 DEF Unlock, Goto, history
  <2>. QED BY <1>3, <2>2, <2>3, <2>4, <2>5 DEF InCall
<1>4. CASE Sleep
  BY <1>4 DEF Sleep, asyncVars, recVars, client, history
<1>5. CASE ReceiverStep /\ UNCHANGED <<line, round>>
  <2>1. UNCHANGED <<client, pushed>>
    BY <1>5 DEF ReceiverStep, SetField, SetReturn, SignalRes, ForwardStep, recVars, history,
      PollHit, PollMiss, RecLock, Lookup, LookupHit, LookupMiss, LookupCrash, SetEventMsg, SignalCond, Pop, RecUnlock
  <2>. QED BY <1>5, <2>1 DEF client
<1>6. CASE (\E r \in Responsers : ResponserStep(r)) /\ UNCHANGED <<line, round>>
  BY <1>6 DEF ResponserStep, recVars, client, history
<1>7. CASE UNCHANGED mainVars
  BY <1>7 DEF mainVars, asyncVars, recVars, client, history
<1>. QED BY <1>1, <1>2, <1>3, <1>4, <1>5, <1>6, <1>7 DEF MainNext, MainStep

LEMMA RegisteredInvStep ==
  ASSUME TypeInv, ProgramInv, RegisteredInv, [MainNext]_mainVars PROVE RegisteredInv'
<1>0. /\ cpc \in [Clients -> ClientPC]
      /\ recMap \in [ResTypes -> Responsers \cup {NoRes}]
      /\ priortyMap \in [ResTypes -> RES_PRIOR]
      /\ RES1 \in ResTypes /\ RES2 \in ResTypes /\ RES1 # RES2
      /\ res1_instance # NoRes /\ res2_instance # NoRes
  BY MainAssumption, ReceiverAssumption DEF TypeInv, TypeOK
<1>a. /\ Adding.add1 = [resType |-> RES1, prior |-> MID,  res |-> res1_instance]
      /\ Adding.add2 = [resType |-> RES2, prior |-> HIGH, res |-> res2_instance]
  BY DEF Adding
<1>. USE <1>0, MainIs DEF RegisteredInv, Adds
<1>1. CASE Register
  <2>1. /\ cpc[main] = "idle" /\ cpc'[main] = "insert"
        /\ UNCHANGED <<recMap, priortyMap, queue, rpc>>
    BY <1>1 DEF Register, BeginAdd, Goto, registry, thread
  <2>2. CASE line = "add1"
    BY <1>1, <2>1, <2>2 DEF Register, Advance
  <2>3. CASE line = "add2"
    BY <1>1, <2>1, <2>3 DEF Register, Advance
  <2>. QED BY <1>1, <2>2, <2>3 DEF Register
<1>2. CASE Send
  <2>1. /\ cpc[main] = "idle" /\ cpc'[main] = "call"
        /\ UNCHANGED <<recMap, priortyMap, queue, rpc>>
    BY <1>2 DEF Send, Call, Goto, registry, thread
  <2>2. line \notin {"add1", "add2"} /\ line' \notin {"add1", "add2", "send1"}
    BY <1>2 DEF Send, Advance
  <2>. QED BY <2>1, <2>2
<1>3. CASE Insert /\ line' = line
  <2>1. /\ cpc[main] = "insert" /\ cpc'[main] = "prior"
        /\ recMap' = [recMap EXCEPT ![reg.resType] = IF @ = NoRes THEN reg.res ELSE @]
        /\ UNCHANGED <<priortyMap, queue, rpc>>
    BY <1>3 DEF Insert, Goto, thread
  <2>2. \/ line = "add2" /\ reg = Adding.add1
        \/ line = "send1" /\ reg = Adding.add2
    BY <2>1 DEF ProgramInv
  <2>. QED BY <1>3, <1>a, <2>1, <2>2
<1>4. CASE SetPrior /\ line' = line
  <2>1. /\ cpc[main] = "prior" /\ cpc'[main] = "idle"
        /\ priortyMap' = [priortyMap EXCEPT ![reg.resType] = reg.prior]
        /\ UNCHANGED <<recMap, queue, rpc>>
    BY <1>4 DEF SetPrior, Goto, thread
  <2>2. \/ line = "add2" /\ reg = Adding.add1
        \/ line = "send1" /\ reg = Adding.add2
    BY <2>1 DEF ProgramInv
  <2>. QED BY <1>4, <1>a, <2>1, <2>2
<1>5. CASE (Lock(main) \/ Push(main) \/ Unlock(main)) /\ line' = line
  <2>1. /\ cpc[main] \in {"call", "push", "unlock"} /\ cpc'[main] \in {"push", "unlock", "idle"}
        /\ UNCHANGED <<recMap, priortyMap, rpc>>
    BY <1>5 DEF Lock, Push, Unlock, Goto, registry, thread
  <2>2. line \notin {"add1", "add2"} /\ ~Adds /\ ~Adds'
    BY <1>5, <2>1 DEF ProgramInv
  <2>. QED BY <1>5, <2>1, <2>2
<1>6. CASE Sleep
  BY <1>6 DEF Sleep, asyncVars, recVars, registry, client, thread
<1>7. CASE ReceiverStep /\ UNCHANGED <<line, round>>
  <2>1. UNCHANGED <<recMap, priortyMap, cpc>>
    BY <1>7 DEF ReceiverStep, SetField, SetReturn, SignalRes, ForwardStep, recVars, registry, client,
      PollHit, PollMiss, RecLock, Lookup, LookupHit, LookupMiss, LookupCrash, SetEventMsg, SignalCond, Pop, RecUnlock
  <2>2. ASSUME Adds PROVE rpc' = "poll" /\ UNCHANGED queue
    BY <1>7, <2>2 DEF ReceiverStep, SetField, SetReturn, SignalRes, ForwardStep, TypeInv, TypeOK,
      PollHit, PollMiss, RecLock, Lookup, LookupHit, LookupMiss, LookupCrash, SetEventMsg, SignalCond, Pop, RecUnlock
  <2>. QED BY <1>7, <2>1, <2>2
<1>8. CASE (\E r \in Responsers : ResponserStep(r)) /\ UNCHANGED <<line, round>>
  BY <1>8 DEF ResponserStep, recVars, registry, client, thread
<1>9. CASE UNCHANGED mainVars
  BY <1>9 DEF mainVars, asyncVars, recVars, registry, client, thread
<1>. QED BY <1>1, <1>2, <1>3, <1>4, <1>5, <1>6, <1>7, <1>8, <1>9 DEF MainNext, MainStep, InCall

MainInv == QueueInv /\ ProgramInv /\ RegisteredInv

LEMMA MainInvInit == MainInit => MainInv
<1>. SUFFICES ASSUME MainInit PROVE MainInv
  OBVIOUS
<1>1. QueueInv
  BY QueueInvInit DEF MainInit, AsyncInit
<1>2. /\ line = "add1" /\ cpc = [c \in Clients |-> "idle"] /\ pushed = 0 /\ rpc = "poll"
      /\ recMap = [t \in ResTypes |-> NoRes] /\ queue = [q \in Levels |-> <<>>]
  BY DEF MainInit, AsyncInit, RecInit
<1>3. ProgramInv
  BY <1>2, MainIs, ReceiverAssumption DEF ProgramInv
<1>4. RegisteredInv
  BY <1>2, MainAssumption DEF RegisteredInv, Adds
<1>. QED BY <1>1, <1>3, <1>4 DEF MainInv

LEMMA MainInvStep == MainInv /\ [MainNext]_mainVars => MainInv'
  BY MainStepsReceiver, QueueInvStep, ProgramInvStep, RegisteredInvStep DEF MainInv, QueueInv

LEMMA LookupAfterAdds == MainInv /\ rpc \notin {"poll"} => ~Adds
  BY DEF MainInv, RegisteredInv

\* The receiver never reads recMap while a registration changes it, although no lock
\* protects the change (receiver.cpp:40, 113): main registers before it sends.
THEOREM MainNoMapRace == MainSpec => []NoMapRace
<1>1. MainInv => NoMapRace
  BY LookupAfterAdds, MainIs DEF MainInv, ProgramInv, NoMapRace, Touching, Adds
<1>. QED BY <1>1, MainInvInit, MainInvStep, PTL DEF MainSpec
-----------------------------------------------------------------------------
(* What a step does to the queues, the receiver's locals and the slots.     *)

Serving == rpc \in {"set", "signal", "pop"}

\* A client or a responser moves.
Elsewhere ==
  /\ UNCHANGED <<queue, pushed, thread>>
  /\ UNCHANGED resVars \/ \E r \in Responsers : OnResponser(r)

\* The receiver polls, locks, unlocks, or finds nothing.
Searches == ~Serving /\ ~Serving' /\ UNCHANGED <<queue, pushed, resVars>>

LEMMA MainStepKinds ==
  ASSUME [MainNext]_mainVars
  PROVE  \/ Elsewhere \/ Searches
         \/ Push(main) /\ UNCHANGED resVars
         \/ (\E r \in Responsers : LookupHit(r)) /\ UNCHANGED resVars
         \/ (\E f \in Fields : SetField(f)) \/ SetReturn \/ SignalRes
         \/ Pop /\ UNCHANGED resVars
<1>1. CASE Register
  BY <1>1 DEF Register, BeginAdd, Advance, Elsewhere, thread, history
<1>2. CASE Send
  BY <1>2 DEF Send, Call, Advance, Elsewhere, thread, history
<1>3. CASE InCall
  BY <1>3 DEF InCall, Insert, SetPrior, Lock, Unlock, Elsewhere, thread, history
<1>4. CASE Sleep \/ UNCHANGED mainVars
  BY <1>4 DEF Sleep, mainVars, asyncVars, recVars, Elsewhere, thread, history
<1>5. CASE ForwardStep
  <2>1. CASE PollHit \/ PollMiss \/ RecLock \/ LookupMiss \/ LookupCrash \/ RecUnlock
    BY <1>5, <2>1 DEF ForwardStep, PollHit, PollMiss, RecLock, LookupMiss, LookupCrash, RecUnlock,
      Searches, Serving, history
  <2>. QED BY <1>5, <2>1 DEF ForwardStep, Lookup
<1>6. CASE \E r \in Responsers : ResponserStep(r)
  BY <1>6 DEF ResponserStep, recVars, Elsewhere, thread, history
<1>. QED BY <1>1, <1>2, <1>3, <1>4, <1>5, <1>6 DEF MainNext, MainStep, ReceiverStep

Message == [id : Nat, eventID : EventIDs]

\* The part of the responsers' state that the receiver writes.
SlotTypeOK == eventMsg \in [Responsers -> [Fields -> Message]] /\ copied \subseteq Fields

\* The message that is being served: the oldest of its queue, which is the queue of
\* the responser that was found for it.
LEMMA Served ==
  ASSUME MainInv, HostInv, rpc \in {"lookup", "set", "signal", "pop"}
  PROVE  /\ recQueue \in {MID, HIGH} /\ queue[recQueue] \in Seq(MSG_INFO) /\ queue[recQueue] # <<>>
         /\ Head1 \in MSG_INFO /\ Good(Head1, recQueue) /\ Head1.id \in Ids(queue[recQueue])
         /\ Copy(Head1) \in Message /\ Copy(Head1).id = Head1.id
         /\ Copy(Head1).eventID \in FunctionsOf[Host(recQueue)]
         /\ Head1.id \in 1..pushed /\ \A i \in Ids(queue[recQueue]) : Head1.id <= i
<1>1. recQueue \in Levels /\ queue[recQueue] \in Seq(MSG_INFO) /\ queue[recQueue] # <<>>
  BY DEF MainInv, QueueInv, TypeInv, TypeOK, SelectedNonEmpty
<1>2. 1 \in DOMAIN queue[recQueue] /\ Head1 = queue[recQueue][1] /\ Head1 \in MSG_INFO
  BY <1>1 DEF Head1
<1>3. Good(Head1, recQueue)
  BY <1>1, <1>2 DEF HostInv
<1>4. recQueue \in {MID, HIGH}
  BY <1>3 DEF Good
<1>5. Head1.id \in Ids(queue[recQueue])
  BY <1>2 DEF Ids
<1>6. Copy(Head1) \in Message /\ Copy(Head1).id = Head1.id /\ Copy(Head1).eventID = Head1.eventID
  BY <1>2 DEF Copy, Message, MSG_INFO
<1>7. Head1.eventID \in FunctionsOf[Host(recQueue)]
  BY <1>3, MainAssumption DEF Good, Host, MID, HIGH
<1>8. Head1.id \in 1..pushed
  BY <1>1, <1>5 DEF MainInv, QueueInv, QueuesOrdered
<1>9. \A i \in Ids(queue[recQueue]) : Head1.id <= i
  <2>1. Increasing(queue[recQueue])
    BY <1>1 DEF MainInv, QueueInv, QueuesOrdered
  <2>2. Head1 = Head(queue[recQueue])
    BY DEF Head1
  <2>. QED BY <1>1, <2>1, <2>2, IdsTail
<1>. QED BY <1>1, <1>2, <1>3, <1>4, <1>5, <1>6, <1>7, <1>8, <1>9

\* What sendMsg adds, and where.
LEMMA Pushes ==
  ASSUME MainInv, Push(main)
  PROVE  \E l \in {MID, HIGH}, m \in MSG_INFO :
           /\ Good(m, l) /\ m.id = pushed + 1
           /\ queue' = [queue EXCEPT ![l] = Append(@, m)]
           /\ pushed' = pushed + 1 /\ pushed < MaxPush
           /\ rpc' = rpc /\ recQueue' = recQueue /\ pRes' = pRes
<1>. DEFINE m == Stamped(cmsg[main])
<1>1. cmsg[main] \in Request /\ pushed \in Nat
  BY MainIs DEF MainInv, QueueInv, TypeInv, TypeOK
<1>2. m \in MSG_INFO /\ m.id = pushed + 1
      /\ m.resType = cmsg[main].resType /\ m.eventID = cmsg[main].eventID
  BY <1>1 DEF Stamped, MSG_INFO, Request
<1>3. pushed < MaxPush /\ \E q \in Levels : Good(cmsg[main], q)
  BY DEF Push, MainInv, ProgramInv
<1>4. priortyMap[RES1] = MID /\ priortyMap[RES2] = HIGH
  BY DEF Push, MainInv, ProgramInv, RegisteredInv, Adds
<1>5. Level(MID) = MID /\ Level(HIGH) = HIGH
  BY DEF Level, Levels
<1>6. Level(priortyMap[cmsg[main].resType]) \in {MID, HIGH}
      /\ Good(m, Level(priortyMap[cmsg[main].resType]))
  BY <1>2, <1>3, <1>4, <1>5 DEF Good
<1>. QED BY <1>2, <1>3, <1>6 DEF Push, thread

LEMMA HostInvStep ==
  ASSUME MainInv, HostInv, SlotTypeOK, [MainNext]_mainVars PROVE HostInv'
<1>0. queue \in [Levels -> Seq(MSG_INFO)] /\ MID \in Levels /\ HIGH \in Levels /\ 0 \in Fields
  BY ResponserAssumption DEF MainInv, QueueInv, TypeInv, TypeOK, Levels, Fields
<1>1. CASE Elsewhere
  <2>1. UNCHANGED <<queue, rpc, recQueue, pRes>>
    BY <1>1 DEF Elsewhere, thread
  <2>2. UNCHANGED eventMsg
    BY <1>1 DEF Elsewhere, resVars, OnResponser, Wait, SpuriousWakeup, Switch, UnPack, CallFun
  <2>. QED BY <2>1, <2>2 DEF HostInv, Host
<1>2. CASE Searches
  BY <1>2 DEF Searches, Serving, HostInv, resVars
<1>3. CASE Push(main) /\ UNCHANGED resVars
  <2>1. PICK l \in {MID, HIGH}, m \in MSG_INFO :
          /\ Good(m, l) /\ queue' = [queue EXCEPT ![l] = Append(@, m)]
          /\ rpc' = rpc /\ recQueue' = recQueue /\ pRes' = pRes
    BY <1>3, Pushes
  <2>2. queue[l] \in Seq(MSG_INFO) /\ queue'[l] = Append(queue[l], m)
    BY <1>0, <2>1
  <2>3. \A k \in DOMAIN queue'[l] : queue'[l][k] = m \/ (k \in DOMAIN queue[l] /\ queue'[l][k] = queue[l][k])
    BY <2>2
  <2>4. \A q \in Levels : q # l => queue'[q] = queue[q]
    BY <1>0, <2>1
  <2>5. \A q \in Levels : \A k \in DOMAIN queue'[q] : Good(queue'[q][k], q)
    BY <1>0, <2>1, <2>3, <2>4 DEF HostInv
  <2>. QED BY <1>3, <2>1, <2>5 DEF HostInv, Host, resVars
<1>4. CASE (\E r \in Responsers : LookupHit(r)) /\ UNCHANGED resVars
  <2>1. PICK r \in Responsers : LookupHit(r)
    BY <1>4
  <2>2. rpc = "lookup" /\ pRes' = r /\ r \in Visible(Head1.resType) /\ UNCHANGED <<queue, recQueue>>
    BY <2>1 DEF LookupHit
  <2>3. ~Adds /\ Good(Head1, recQueue)
    BY <2>2, LookupAfterAdds, Served
  <2>4. /\ recMap[RES1] = res1_instance /\ recMap[RES2] = res2_instance
        /\ res1_instance # NoRes /\ res2_instance # NoRes
    BY <2>3, MainAssumption, ReceiverAssumption DEF MainInv, RegisteredInv, Adds
  <2>5. r = Host(recQueue)
    BY <2>2, <2>3, <2>4 DEF Visible, Good, Host, MID, HIGH
  <2>. QED BY <1>4, <2>2, <2>5 DEF HostInv, Host, resVars
<1>5. CASE \E f \in Fields : SetField(f)
  <2>1. PICK f \in Fields : SetField(f)
    BY <1>5
  <2>2. /\ rpc = "set" /\ eventMsg' = [eventMsg EXCEPT ![pRes][f] = Copy(Head1)]
        /\ UNCHANGED <<queue, rpc, recQueue, pRes>>
    BY <2>1 DEF SetField, CopyField, recVars, thread
  <2>3. pRes = Host(recQueue) /\ Copy(Head1).eventID \in FunctionsOf[pRes]
    BY <2>2, Served DEF HostInv
  <2>4. \A r \in Responsers : eventMsg'[r][0] = eventMsg[r][0] \/ (r = pRes /\ eventMsg'[r][0] = Copy(Head1))
    BY <1>0, <2>2 DEF SlotTypeOK
  <2>. QED BY <2>2, <2>3, <2>4 DEF HostInv, Host
<1>6. CASE SetReturn \/ SignalRes
  <2>1. /\ rpc \in {"set", "signal"} /\ UNCHANGED <<queue, recQueue, pRes, eventMsg>>
    BY <1>6 DEF SetReturn, SetEventMsg, SignalRes, SignalCond, Signal, resVars
  <2>. QED BY <2>1 DEF HostInv, Host
<1>7. CASE Pop /\ UNCHANGED resVars
  <2>1. recQueue \in Levels /\ queue[recQueue] \in Seq(MSG_INFO) /\ queue[recQueue] # <<>>
    BY <1>7, SelectedQueue DEF Pop, MainInv, QueueInv
  <2>2. queue'[recQueue] = Tail(queue[recQueue]) /\ rpc' = "unlock"
    BY <1>0, <1>7, <2>1 DEF Pop
  <2>3. \A k \in DOMAIN queue'[recQueue] :
          k + 1 \in DOMAIN queue[recQueue] /\ queue'[recQueue][k] = queue[recQueue][k + 1]
    BY <2>1, <2>2
  <2>4. \A q \in Levels : q # recQueue => queue'[q] = queue[q]
    BY <1>0, <1>7 DEF Pop
  <2>5. \A q \in Levels : \A k \in DOMAIN queue'[q] : Good(queue'[q][k], q)
    BY <2>1, <2>3, <2>4 DEF HostInv
  <2>. QED BY <1>7, <2>2, <2>5 DEF HostInv, resVars
<1>. QED BY <1>1, <1>2, <1>3, <1>4, <1>5, <1>6, <1>7, MainStepKinds
LEMMA SlotInvStep ==
  ASSUME MainInv, HostInv, SlotInv, SlotTypeOK, [MainNext]_mainVars PROVE SlotInv' /\ SlotTypeOK'
<1>0. /\ queue \in [Levels -> Seq(MSG_INFO)] /\ pushed \in Nat
      /\ MID \in Levels /\ HIGH \in Levels /\ MID # HIGH /\ 0 \in Fields
  BY ResponserAssumption DEF MainInv, QueueInv, TypeInv, TypeOK, Levels, Fields, MID, HIGH
<1>a. /\ Host(MID) \in Responsers /\ Host(HIGH) \in Responsers /\ Host(MID) # Host(HIGH)
  BY <1>0, MainAssumption DEF Host
<1>b. \A r \in Responsers : eventMsg[r][0].id \in Nat
  <2>1. \A r \in Responsers : eventMsg[r][0] \in Message
    BY <1>0 DEF SlotTypeOK
  <2>. QED BY <2>1 DEF Message
<1>c. \A q \in Levels : Ids(queue[q]) \subseteq 1..pushed
  BY DEF MainInv, QueueInv, QueuesOrdered
<1>1. CASE Elsewhere
  <2>1. UNCHANGED <<queue, pushed, rpc, recQueue>>
    BY <1>1 DEF Elsewhere, thread
  <2>2. UNCHANGED <<eventMsg, copied>>
    BY <1>1 DEF Elsewhere, resVars, OnResponser, Wait, SpuriousWakeup, Switch, UnPack, CallFun
  <2>. QED BY <2>1, <2>2 DEF SlotInv, SlotTypeOK, Ids
<1>2. CASE Searches
  <2>1. copied = {} /\ copied' = {} /\ UNCHANGED <<queue, pushed, eventMsg>>
        /\ rpc \notin {"set", "signal", "pop"} /\ rpc' \notin {"set", "signal", "pop"}
    BY <1>2 DEF Searches, Serving, SlotInv, resVars
  <2>. QED BY <2>1 DEF SlotInv, SlotTypeOK, Ids
<1>3. CASE Push(main) /\ UNCHANGED resVars
  <2>1. PICK l \in {MID, HIGH}, m \in MSG_INFO :
          /\ m.id = pushed + 1 /\ queue' = [queue EXCEPT ![l] = Append(@, m)]
          /\ pushed' = pushed + 1 /\ rpc' = rpc /\ recQueue' = recQueue
    BY <1>3, Pushes
  <2>2. \A q \in Levels : Ids(queue'[q]) \subseteq Ids(queue[q]) \cup {pushed + 1}
    BY <1>0, <2>1, IdsAppend
  <2>3. \A r \in Responsers : eventMsg[r][0].id <= pushed /\ eventMsg[r][0].id < pushed + 1
    BY <1>0, <1>b DEF SlotInv
  <2>. QED BY <1>0, <1>3, <1>a, <1>b, <2>1, <2>2, <2>3 DEF SlotInv, SlotTypeOK, resVars, Host
<1>4. CASE (\E r \in Responsers : LookupHit(r)) /\ UNCHANGED resVars
  <2>1. /\ UNCHANGED <<queue, pushed, recQueue, eventMsg, copied>>
        /\ rpc = "lookup" /\ rpc' = "set"
    BY <1>4 DEF LookupHit, history, resVars
  <2>. QED BY <2>1 DEF SlotInv, SlotTypeOK, Ids
<1>5. CASE \E f \in Fields : SetField(f)
  <2>1. PICK f \in Fields : SetField(f)
    BY <1>5
  <2>2. /\ rpc = "set" /\ eventMsg' = [eventMsg EXCEPT ![pRes][f] = Copy(Head1)]
        /\ copied' = copied \cup {f} /\ UNCHANGED <<queue, pushed, rpc, recQueue>>
    BY <2>1 DEF SetField, CopyField, recVars, thread, history
  <2>3. /\ recQueue \in {MID, HIGH} /\ pRes = Host(recQueue) /\ Copy(Head1) \in Message
        /\ Copy(Head1).id = Head1.id /\ Head1.id \in 1..pushed
        /\ \A i \in Ids(queue[recQueue]) : Head1.id <= i
    BY <2>2, Served DEF HostInv
  <2>4. SlotTypeOK'
    BY <1>a, <2>2, <2>3 DEF SlotTypeOK
  <2>5. \A r \in Responsers : r # pRes => eventMsg'[r][0] = eventMsg[r][0]
    BY <1>0, <2>2 DEF SlotTypeOK
  <2>6. CASE f = 0
    <3>1. eventMsg'[pRes][0] = Copy(Head1) /\ 0 \in copied'
      BY <1>0, <1>a, <2>2, <2>3, <2>6 DEF SlotTypeOK
    <3>2. \A r \in Responsers : eventMsg'[r][0].id <= pushed
      BY <1>0, <2>3, <2>5, <3>1 DEF SlotInv
    <3>3. ASSUME NEW q \in {MID, HIGH}, NEW i \in Ids(queue[q])
          PROVE  IF recQueue = q THEN i >= eventMsg'[Host(q)][0].id ELSE i > eventMsg'[Host(q)][0].id
      <4>1. CASE recQueue = q
        <5>1. Head1.id <= i /\ i \in Nat /\ Head1.id \in Nat
          BY <1>0, <1>c, <2>3, <4>1
        <5>. QED BY <2>3, <3>1, <4>1, <5>1
      <4>2. CASE recQueue # q
        BY <1>a, <2>3, <2>5, <4>2 DEF SlotInv
      <4>. QED BY <4>1, <4>2
    <3>. QED BY <2>2, <2>4, <3>1, <3>2, <3>3 DEF SlotInv, Ids, Host
  <2>7. CASE f # 0
    <3>1. eventMsg'[pRes][0] = eventMsg[pRes][0] /\ (0 \in copied' <=> 0 \in copied)
      BY <1>0, <2>2, <2>7, <2>3, <1>a DEF SlotTypeOK
    <3>2. \A r \in Responsers : eventMsg'[r][0] = eventMsg[r][0]
      BY <2>5, <3>1
    <3>. QED BY <1>a, <2>2, <2>4, <3>1, <3>2 DEF SlotInv, Ids, Host
  <2>. QED BY <2>6, <2>7
<1>6. CASE SetReturn
  <2>1. /\ UNCHANGED <<queue, pushed, recQueue, eventMsg, copied>>
        /\ rpc = "set" /\ rpc' = "signal" /\ copied = Fields
    BY <1>6 DEF SetReturn, SetDone, SetEventMsg, resVars
  <2>. QED BY <2>1 DEF SlotInv, SlotTypeOK, Ids
<1>7. CASE SignalRes
  <2>1. /\ UNCHANGED <<queue, pushed, recQueue, eventMsg>>
        /\ rpc = "signal" /\ rpc' = "pop" /\ copied' = {}
    BY <1>7 DEF SignalRes, SignalCond, Signal, history
  <2>2. 0 \in copied
    BY <1>0, <2>1 DEF SlotInv
  <2>. QED BY <2>1, <2>2 DEF SlotInv, SlotTypeOK, Ids
<1>8. CASE Pop /\ UNCHANGED resVars
  <2>1. /\ rpc = "pop" /\ rpc' = "unlock" /\ UNCHANGED <<pushed, recQueue, eventMsg, copied>>
    BY <1>8 DEF Pop, resVars
  <2>2. /\ recQueue \in {MID, HIGH} /\ queue[recQueue] \in Seq(MSG_INFO) /\ queue[recQueue] # <<>>
        /\ Head1.id \in Ids(queue[recQueue]) /\ \A i \in Ids(queue[recQueue]) : Head1.id <= i
    BY <2>1, Served
  <2>3. queue'[recQueue] = Tail(queue[recQueue]) /\ \A q \in Levels : q # recQueue => queue'[q] = queue[q]
    BY <1>0, <1>8, <2>2 DEF Pop
  <2>4. /\ Ids(queue'[recQueue]) \subseteq Ids(queue[recQueue])
        /\ Head1.id \notin Ids(queue'[recQueue])
    <3>1. Increasing(queue[recQueue])
      BY <1>0, <2>2 DEF MainInv, QueueInv, QueuesOrdered
    <3>. QED BY <2>2, <2>3, <3>1, IdsTail DEF Head1
  <2>5. ASSUME NEW q \in {MID, HIGH}, NEW i \in Ids(queue'[q]) PROVE i > eventMsg[Host(q)][0].id
    <3>1. CASE q = recQueue
      <4>1. i \in Ids(queue[q]) /\ i # Head1.id /\ Head1.id <= i
        BY <2>2, <2>4, <2>5, <3>1
      <4>2. i \in Nat /\ Head1.id \in Nat
        BY <1>0, <1>c, <2>2, <3>1, <4>1
      <4>3. Head1.id >= eventMsg[Host(q)][0].id
        BY <2>1, <2>2, <3>1 DEF SlotInv
      <4>. QED BY <1>a, <1>b, <4>1, <4>2, <4>3
    <3>2. CASE q # recQueue
      BY <1>0, <2>3, <2>5, <3>2 DEF SlotInv
    <3>. QED BY <3>1, <3>2
  <2>6. copied = {}
    BY <2>1 DEF SlotInv
  <2>. QED BY <2>1, <2>5, <2>6 DEF SlotInv, SlotTypeOK, Host
<1>. QED BY <1>1, <1>2, <1>3, <1>4, <1>5, <1>6, <1>7, <1>8, MainStepKinds

SlotsInv == MainInv /\ HostInv /\ SlotInv /\ SlotTypeOK

LEMMA SlotsInvInit == MainInit => SlotsInv
<1>. SUFFICES ASSUME MainInit PROVE SlotsInv
  OBVIOUS
<1>1. MainInv
  BY MainInvInit
<1>2. /\ queue = [q \in Levels |-> <<>>] /\ rpc = "poll" /\ pushed = 0 /\ copied = {}
      /\ eventMsg = [r \in Responsers |-> [f \in Fields |-> Zero]] /\ 0 \in Fields
  BY ResponserAssumption DEF MainInit, AsyncInit, RecInit, ResInit, Fields
<1>3. \A r \in Responsers : eventMsg[r][0] = Zero
  BY <1>2
<1>4. Zero.id = 0 /\ Zero \in Message
  BY ResponserAssumption DEF Zero, Message
<1>5. MID \in Levels /\ HIGH \in Levels
  BY DEF Levels
<1>6. HostInv
  BY <1>2, <1>3, <1>4 DEF HostInv
<1>7. SlotInv
  BY <1>2, <1>3, <1>4, <1>5, MainAssumption DEF SlotInv, Ids, Host
<1>8. SlotTypeOK
  BY <1>2, <1>4 DEF SlotTypeOK
<1>. QED BY <1>1, <1>6, <1>7, <1>8 DEF SlotsInv

LEMMA SlotsInvStep == SlotsInv /\ [MainNext]_mainVars => SlotsInv'
  BY MainInvStep, HostInvStep, SlotInvStep DEF SlotsInv

\* A message reaches the object registered for its type, whose class has a function
\* for it (receiver.cpp:111-122, main.cpp:24-60).
THEOREM MainHandedToHost == MainSpec => []HandedToHost
<1>1. SlotsInv => HandedToHost
  <2>. SUFFICES ASSUME SlotsInv PROVE HandedToHost
    OBVIOUS
  <2>1. ASSUME rpc \in {"set", "signal", "pop"}
        PROVE  pRes = Adding[IF Head1.resType = RES1 THEN "add1" ELSE "add2"].res
    <3>1. pRes = Host(recQueue) /\ Good(Head1, recQueue)
      BY <2>1, Served DEF SlotsInv, HostInv
    <3>. QED BY <3>1, MainAssumption DEF Host, Good, Adding, MID, HIGH
  <2>. QED BY <2>1 DEF SlotsInv, HostInv, HandedToHost
<1>. QED BY <1>1, SlotsInvInit, SlotsInvStep, PTL DEF MainSpec
-----------------------------------------------------------------------------
(* The program implements Mailbox.                                          *)

\* While a message is handed over it stays at the head of its queue.
LEMMA HeadStays ==
  ASSUME SlotsInv, Handing, Push(main) PROVE Head1' = Head1 /\ Handing' /\ pRes' = pRes
<1>1. PICK l \in {MID, HIGH}, m \in MSG_INFO :
        /\ queue' = [queue EXCEPT ![l] = Append(@, m)]
        /\ rpc' = rpc /\ recQueue' = recQueue /\ pRes' = pRes
  BY Pushes DEF SlotsInv
<1>2. recQueue \in Levels /\ queue[recQueue] \in Seq(MSG_INFO) /\ queue[recQueue] # <<>>
      /\ queue \in [Levels -> Seq(MSG_INFO)]
  BY Served DEF SlotsInv, Handing, MainInv, QueueInv, TypeInv, TypeOK, Levels
<1>3. Head(Append(queue[recQueue], m)) = Head(queue[recQueue])
  BY <1>1, <1>2
<1>4. queue'[recQueue] = queue[recQueue] \/ queue'[recQueue] = Append(queue[recQueue], m)
  BY <1>1, <1>2
<1>. QED BY <1>1, <1>3, <1>4 DEF Head1, Handing

LEMMA CopyCopy == \A m : Copy(Copy(m)) = Copy(m)
  BY DEF Copy

LEMMA ResponserHands ==
  ASSUME NEW r \in Responsers, OnResponser(r) PROVE M!OnResponser(r)
<1>1. CASE Wait(r)
  BY <1>1 DEF Wait, Resume, M!OnResponser, M!Wait, M!Resume
<1>2. CASE SpuriousWakeup(r)
  BY <1>2 DEF SpuriousWakeup, Resume, Zero, M!OnResponser, M!SpuriousWakeup, M!Resume, M!Zero
<1>3. CASE Switch(r)
  BY <1>3 DEF Switch, Resume, Called, M!OnResponser, M!Switch, M!Resume, M!Called
<1>4. CASE UnPack(r)
  BY <1>4 DEF UnPack, M!OnResponser, M!UnPack
<1>5. CASE CallFun(r)
  BY <1>5 DEF CallFun, Resume, Called, Zero, M!OnResponser, M!CallFun, M!Resume, M!Called, M!Zero
<1>. QED BY <1>1, <1>2, <1>3, <1>4, <1>5 DEF OnResponser

LEMMA StepHands ==
  ASSUME SlotsInv, SlotsInv', [MainNext]_mainVars PROVE [M!MailboxNext]_(M!mailboxVars)
<1>. USE DEF M!mailboxVars, M!resVars, M!forwarder
<1>1. CASE Elsewhere
  <2>1. Handing' = Handing /\ pRes' = pRes /\ Head1' = Head1
    BY <1>1 DEF Elsewhere, thread, Handing, Head1
  <2>2. UNCHANGED M!forwarder
    BY <2>1 DEF Copy
  <2>. QED BY <1>1, <2>2, ResponserHands DEF Elsewhere, resVars, M!MailboxNext
<1>2. CASE Searches
  BY <1>2 DEF Searches, Serving, Handing, resVars
<1>3. CASE Push(main) /\ UNCHANGED resVars
  <2>1. CASE Handing
    <3>1. Head1' = Head1 /\ Handing' /\ pRes' = pRes
      BY <1>3, <2>1, HeadStays
    <3>. QED BY <1>3, <2>1, <3>1 DEF resVars, Copy
  <2>2. CASE ~Handing
    BY <1>3, <2>2 DEF resVars, Push, thread, Handing
  <2>. QED BY <2>1, <2>2
<1>4. CASE (\E r \in Responsers : LookupHit(r)) /\ UNCHANGED resVars
  <2>1. PICK r \in Responsers : LookupHit(r)
    BY <1>4
  <2>2. /\ ~Handing /\ Handing' /\ pRes' = r /\ Head1' = Head1 /\ recQueue' = recQueue
        /\ rpc = "lookup"
    BY <2>1 DEF LookupHit, Handing, Head1
  <2>3. r = Host(recQueue) /\ Host(recQueue)' = Host(recQueue)
    BY <2>2 DEF SlotsInv, HostInv, Handing, Host
  <2>4. /\ recQueue \in {MID, HIGH} /\ Head1 \in MSG_INFO /\ Head1.id \in Ids(queue[recQueue])
        /\ Head1.id \in 1..pushed
    BY <2>2, Served DEF SlotsInv
  <2>5. Head1.id > eventMsg[r][0].id
    BY <2>2, <2>3, <2>4 DEF SlotsInv, SlotInv
  <2>6. Head1.id \in 1..MaxPush /\ Head1.eventID \in EventIDs
    BY <2>4, ReceiverAssumption
    DEF MSG_INFO, SlotsInv, MainInv, ProgramInv, QueueInv, TypeInv, TypeOK
  <2>7. M!Take(r, Head1.id, Head1.eventID)
    BY <1>4, <2>2, <2>5 DEF M!Take, Copy, resVars
  <2>. QED BY <2>6, <2>7 DEF M!MailboxNext, M!ForwarderStep
<1>5. CASE \E f \in Fields : SetField(f)
  <2>1. PICK f \in Fields : SetField(f)
    BY <1>5
  <2>2. Handing /\ Handing' /\ pRes' = pRes /\ Head1' = Head1
    BY <2>1 DEF SetField, recVars, thread, Handing, Head1
  <2>3. M!CopyField(pRes, Copy(Head1), f)
    BY <2>1, CopyCopy DEF SetField, CopyField, M!CopyField, Copy, M!Copy, Fields, M!Fields
  <2>4. M!SetEventField(f)
    BY <2>2, <2>3 DEF M!SetEventField, Copy
  <2>. QED BY <2>4 DEF M!MailboxNext, M!ForwarderStep, Fields, M!Fields
<1>6. CASE SetReturn
  <2>1. Handing /\ Handing' /\ pRes' = pRes /\ Head1' = Head1 /\ UNCHANGED resVars
    BY <1>6 DEF SetReturn, SetEventMsg, Handing, Head1
  <2>. QED BY <2>1 DEF resVars, Copy
<1>7. CASE SignalRes
  <2>1. Handing /\ ~Handing' /\ rpc = "signal"
    BY <1>7 DEF SignalRes, SignalCond, Handing
  <2>2. copied = Fields
    BY <2>1 DEF SlotsInv, SlotInv
  <2>3. M!Signal(pRes, Copy(Head1))
    BY <1>7, CopyCopy DEF SignalRes, Signal, M!Signal, Copy, M!Copy
  <2>4. M!SignalRes
    BY <2>1, <2>2, <2>3 DEF M!SignalRes, M!SetDone, Fields, M!Fields, Zero, M!Zero, M!NoOne
  <2>. QED BY <2>4 DEF M!MailboxNext, M!ForwarderStep
<1>8. CASE Pop /\ UNCHANGED resVars
  <2>1. ~Handing /\ ~Handing'
    BY <1>8 DEF Pop, Handing
  <2>. QED BY <1>8, <2>1 DEF resVars
<1>. QED BY <1>1, <1>2, <1>3, <1>4, <1>5, <1>6, <1>7, <1>8, MainStepKinds

\* The program implements Mailbox: every responser is handed its own messages one at a
\* time and in the order they were sent, each newer than what its slot holds
\* (receiver.cpp:61-82, 88-124).
THEOREM MainHandsOver == MainSpec => HandsOver
<1>1. MainInit => M!MailboxInit
  BY DEF MainInit, AsyncInit, RecInit, ResInit, M!MailboxInit, M!ResInit, Handing, Fields, M!Fields,
    Zero, M!Zero, Empty, M!Empty, M!NoOne
<1>. QED
  BY <1>1, SlotsInvInit, SlotsInvStep, StepHands, PTL DEF MainSpec, HandsOver, M!MailboxSpec
-----------------------------------------------------------------------------
(* What is proved of Mailbox, for the calls of the program.                 *)

MP == INSTANCE MailboxProofs WITH
        MaxDeliver <- [r \in Responsers |-> MaxPush],
        fpc  <- IF Handing THEN "set" ELSE "idle",
        fres <- IF Handing THEN pRes ELSE CHOOSE r \in Responsers : TRUE,
        fmsg <- IF Handing THEN Copy(Head1) ELSE Zero

LEMMA MailboxAssumptions ==
  MP!ComDefAssumption /\ MP!ResponserAssumption /\ MP!MailboxAssumption
  BY ComDefAssumption, ResponserAssumption, ReceiverAssumption
  DEF MP!ComDefAssumption, MP!ResponserAssumption, MP!MailboxAssumption

\* M and MP are the same instance, once without and once with the proofs.
LEMMA SameInit == M!MailboxInit => MP!MailboxInit
  BY DEF M!MailboxInit, MP!MailboxInit, M!ResInit, MP!ResInit, M!Zero, MP!Zero,
    M!Fields, MP!Fields, M!Empty, MP!Empty, M!NoOne, MP!NoOne

LEMMA SameNext == [M!MailboxNext]_(M!mailboxVars) => [MP!MailboxNext]_(MP!mailboxVars)
<1>0. M!Zero = MP!Zero /\ M!Fields = MP!Fields /\ M!NoOne = MP!NoOne /\ \A m : M!Copy(m) = MP!Copy(m)
  BY DEF M!Zero, MP!Zero, M!Fields, MP!Fields, M!NoOne, MP!NoOne, M!Copy, MP!Copy
<1>. USE <1>0 DEF M!resVars, MP!resVars, M!forwarder, MP!forwarder
<1>1. ASSUME NEW r \in Responsers, NEW i \in 1..MaxPush, NEW e \in EventIDs, M!Take(r, i, e)
      PROVE  MP!MailboxNext
  <2>1. MP!Take(r, i, e)
    BY <1>1 DEF M!Take, MP!Take
  <2>. QED BY <2>1 DEF MP!MailboxNext, MP!ForwarderStep
<1>2. ASSUME NEW f \in M!Fields, M!SetEventField(f) PROVE MP!MailboxNext
  <2>1. MP!SetEventField(f)
    BY <1>2 DEF M!SetEventField, MP!SetEventField, M!CopyField, MP!CopyField
  <2>. QED BY <2>1 DEF MP!MailboxNext, MP!ForwarderStep
<1>3. CASE M!SignalRes
  <2>1. MP!SignalRes
    BY <1>3 DEF M!SignalRes, MP!SignalRes, M!SetDone, MP!SetDone, M!Signal, MP!Signal
  <2>. QED BY <2>1 DEF MP!MailboxNext, MP!ForwarderStep
<1>4. ASSUME NEW r \in Responsers, M!OnResponser(r), UNCHANGED M!forwarder PROVE MP!MailboxNext
  <2>1. MP!OnResponser(r)
    BY <1>4 DEF M!OnResponser, MP!OnResponser, M!Wait, MP!Wait, M!SpuriousWakeup, MP!SpuriousWakeup,
      M!Switch, MP!Switch, M!UnPack, MP!UnPack, M!CallFun, MP!CallFun, M!Resume, MP!Resume, M!Called, MP!Called
  <2>. QED BY <1>4, <2>1 DEF MP!MailboxNext
<1>5. CASE M!Rest \/ UNCHANGED M!mailboxVars
  BY <1>5 DEF M!Rest, M!mailboxVars, MP!mailboxVars
<1>. QED BY <1>1, <1>2, <1>3, <1>4, <1>5 DEF M!MailboxNext, M!ForwarderStep

LEMMA MainHands == MainSpec => MP!MailboxSpec
  BY MainHandsOver, SameInit, SameNext, PTL DEF HandsOver, M!MailboxSpec, MP!MailboxSpec

\* The functions of the program are called in the order in which their messages were
\* sent, each at most twice, and never for a slot that no message was copied to; the
\* last two unless a thread wakes up spuriously (responser12.cpp:35-36).
THEOREM MainCallsInOrder == MainSpec => []M!CallsInOrder
<1>1. MP!CallsInOrder => M!CallsInOrder
  BY DEF MP!CallsInOrder, M!CallsInOrder
<1>. QED BY <1>1, MainHands, MP!MailboxCallsInOrder, MailboxAssumptions, PTL

THEOREM MainAtMostTwice == MainSpec => []M!AtMostTwice
<1>1. MP!AtMostTwice => M!AtMostTwice
  BY DEF MP!AtMostTwice, M!AtMostTwice, MP!CallsOf, M!CallsOf
<1>. QED BY <1>1, MainHands, MP!MailboxAtMostTwice, MailboxAssumptions, PTL

THEOREM MainNoCallUnasked == MainSpec => []M!NoCallUnasked
<1>1. MP!NoCallUnasked => M!NoCallUnasked
  BY DEF MP!NoCallUnasked, M!NoCallUnasked
<1>. QED BY <1>1, MainHands, MP!MailboxNoCallUnasked, MailboxAssumptions, PTL
=============================================================================
