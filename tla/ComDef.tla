------------------------------- MODULE ComDef -------------------------------
(***************************************************************************)
(* The vocabulary of Template3/include/comDef.h: the priorities a          *)
(* responser registers with, the waiting queues they select, and messages. *)
(***************************************************************************)
EXTENDS Integers, Sequences

CONSTANTS
  ResTypes,   \* RES_TYPE without RES_MAX: the names a responser registers under
  EventIDs,   \* the values EVENT_MSG.eventID takes
  Responsers  \* responser objects

ASSUME ComDefAssumption == ResTypes # {} /\ EventIDs # {} /\ Responsers # {}

LOW        == 0
MID        == 1
HIGH       == 2
NULL_VALUE == 3
RES_PRIOR  == {LOW, MID, HIGH, NULL_VALUE}

\* The queues recLowQueue, recMidQueue and recHighQueue, named by the
\* priority they serve.
Levels == {LOW, MID, HIGH}

\* What a client fills in before it calls sendMsg.  The parameters in
\* msgData are abstracted to the message they belong to.
Request == [resType : ResTypes, eventID : EventIDs]

\* MSG_INFO as it lies in a queue.  The code gives a message no identity; id
\* is the rank of its push, so that the copies it leaves behind in a responser
\* can be told from those of other messages.
MSG_INFO == [id : Nat, resType : ResTypes, eventID : EventIDs]

Ids(s) == {s[i].id : i \in DOMAIN s}
=============================================================================
