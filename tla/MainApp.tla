------------------------------ MODULE MainApp ------------------------------
(***************************************************************************)
(* The program of Template3/main.cpp: one thread that registers two        *)
(* responsers and then sends four messages and sleeps, over and over.      *)
(* sleep(1) orders nothing, so it is a step that takes any time.           *)
(***************************************************************************)
EXTENDS AsyncMsg

CONSTANTS
  main,                                  \* the thread
  RES1, RES2, res1_instance, res2_instance,
  R1_FUN1, R1_FUN2, R2_FUN1, R2_FUN2,    \* enum event_type
  MaxRound                               \* model bound: rounds of the loop

ASSUME MainAssumption ==
  /\ Registrar = main
  /\ RES1 \in ResTypes /\ RES2 \in ResTypes /\ RES1 # RES2
  /\ res1_instance \in Responsers /\ res2_instance \in Responsers
  /\ res1_instance # res2_instance
  /\ {R1_FUN1, R1_FUN2, R2_FUN1, R2_FUN2} \subseteq EventIDs
  /\ {R1_FUN1, R1_FUN2} \subseteq FunctionsOf[res1_instance]
  /\ {R2_FUN1, R2_FUN2} \subseteq FunctionsOf[res2_instance]
  /\ MaxRound \in Nat \ {0}

VARIABLES
  line,   \* the statement of main that is next
  round   \* history: the round the loop is in

mainVars == <<asyncVars, line, round>>

MainInit == AsyncInit /\ line = "add1" /\ round = 1

\* rec_instance->addResponser(..), twice
Adding == [add1 |-> [resType |-> RES1, prior |-> MID,  res |-> res1_instance],
           add2 |-> [resType |-> RES2, prior |-> HIGH, res |-> res2_instance]]

\* send_instance->sendMsg(rec_instance, &msgInfo), four times
Sending == [send1 |-> [resType |-> RES1, eventID |-> R1_FUN1],
            send2 |-> [resType |-> RES1, eventID |-> R1_FUN2],
            send3 |-> [resType |-> RES2, eventID |-> R2_FUN1],
            send4 |-> [resType |-> RES2, eventID |-> R2_FUN2]]

\* Mutant: the second responser is registered after the first message is sent.
After_LateAdd == [add1 |-> "send1", send1 |-> "add2", add2 |-> "send2", send2 |-> "send3",
                  send3 |-> "send4", send4 |-> "sleep"]

After == [add1 |-> "add2", add2 |-> "send1", send1 |-> "send2", send2 |-> "send3",
          send3 |-> "send4", send4 |-> "sleep"]

Advance == line' = After[line] /\ UNCHANGED <<resVars, round>>

Register == line \in DOMAIN Adding /\ BeginAdd(Adding[line]) /\ Advance

Send == line \in DOMAIN Sending /\ Call(main, Sending[line]) /\ Advance

\* Inside addResponser and sendMsg.
InCall ==
  /\ Insert \/ SetPrior \/ Lock(main) \/ Push(main) \/ Unlock(main)
  /\ UNCHANGED <<resVars, line, round>>

\* The loop comes round; the bounded model stops here in the last round.
Sleep ==
  /\ line = "sleep" /\ cpc[main] = "idle" /\ round < MaxRound
  /\ line' = "send1" /\ round' = round + 1
  /\ UNCHANGED asyncVars

MainStep == Register \/ Send \/ InCall \/ Sleep

MainNext ==
  \/ MainStep
  \/ (ReceiverStep \/ \E r \in Responsers : ResponserStep(r)) /\ UNCHANGED <<line, round>>

MainSpec == MainInit /\ [][MainNext]_mainVars

\* The three kinds of threads keep running.  One client alone contends with
\* the receiver, which blocks on an empty queue by polling, not by locking.
MainFairness ==
  /\ WF_mainVars(MainStep)
  /\ WF_mainVars(ReceiverStep /\ UNCHANGED <<line, round>>)
  /\ \A r \in Responsers : WF_mainVars(ResponserRuns(r) /\ UNCHANGED <<line, round>>)

MainFairSpec == MainSpec /\ MainFairness

-----------------------------------------------------------------------------
(* Properties                                                               *)

\* recMap is never read while it is being changed, although no lock protects
\* the change: both responsers are registered before the first message is
\* pushed, and without a message the receiver does not look at recMap.
NoMapRace == rpc = "lookup" => ~Touching

\* Every message is handed to the object registered for its type, and to the
\* right class: the slot of a responser only ever names one of its functions.
HandedToHost ==
  /\ rpc \in {"set", "signal", "pop"} => pRes = Adding[IF Head1.resType = RES1 THEN "add1" ELSE "add2"].res
  /\ \A r \in Responsers : eventMsg[r][0].id > 0 => eventMsg[r][0].eventID \in FunctionsOf[r]

\* The program implements Mailbox: each responser is handed its messages one at a
\* time and in the order they were sent, although the two are served from queues
\* that overtake one another, and nothing else touches its slot (receiver.cpp:61-82,
\* 88-124).  What Mailbox promises of the calls, their order among it, thus holds of
\* the program.
Handing == rpc \in {"set", "signal"}
M == INSTANCE Mailbox WITH
       MaxDeliver <- [r \in Responsers |-> MaxPush],
       fpc  <- IF Handing THEN "set" ELSE "idle",
       fres <- IF Handing THEN pRes ELSE CHOOSE r \in Responsers : TRUE,
       fmsg <- IF Handing THEN Copy(Head1) ELSE Zero
HandsOver == M!MailboxSpec

\* sendMsg returns, under weak fairness alone: while main waits for the mutex
\* nothing is pushed, so the receiver hands over what is queued, one message per
\* turn of the lock, and then polls the empty queues without it (receiver.cpp:60,
\* 88-111, 124).  In a program of several clients, or with a message that no
\* responser is registered for, a client may starve.
SendReturns == cpc[main] = "call" ~> cpc[main] = "idle"

\* A queued message is handed over in the end, unless messages of a higher level
\* are handed over again and again: a level is passed over for a higher one only,
\* and the highest never is (receiver.cpp:90-105).
Queued(i) == \E q \in Levels : i \in Ids(queue[q])
Passed(i) == rpc = "set" /\ \E q \in Levels : q < recQueue /\ i \in Ids(queue[q])

-----------------------------------------------------------------------------
(* What main.cpp and its comment say of the program, and the program does   *)
(* not do.                                                                  *)

\* "receiver keeps taking messages from the queues .. and forwards each to the
\* responser it belongs to" (main.cpp:12-14): when all threads have come to
\* rest, every message that was sent has been executed.
AtRest ==
  /\ line = "sleep" /\ cpc[main] = "idle"
  /\ \A q \in Levels : queue[q] = <<>>
  /\ rpc = "poll" /\ \A r \in Responsers : spc[r] = "wait"
EveryMessageExecuted ==
  AtRest => \A i \in 1..pushed :
    \E r \in Responsers : \E k \in DOMAIN calls[r] : calls[r][k].event.id = i

\* "the function to execute and the parameters the function needs" are sent
\* together (main.cpp:10-11): a function is called with its own parameters.
CalledWithOwnArgs ==
  \A r \in Responsers : \A k \in DOMAIN calls[r] : \A n \in DOMAIN calls[r][k].args :
    calls[r][k].args[n] = calls[r][k].event
=============================================================================
