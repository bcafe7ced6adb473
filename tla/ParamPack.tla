----------------------------- MODULE ParamPack -----------------------------
(***************************************************************************)
(* Parameters in messages (Template3): msgDataPack puts them one behind    *)
(* the other into the msgData of the one MSG_INFO that main fills again    *)
(* and again, sendMsg pushes a copy of it, and msgDataUnPack takes them    *)
(* out of the slot that the receiver copied the message into.  Both are    *)
(* told the lengths, in the same order, by what main.cpp and the           *)
(* responser's switch pass: sizes of types, and -1 behind the last.        *)
(*                                                                         *)
(* A byte is known by the message, parameter and place it was copied from. *)
(* The responser's mutex is not held by setEventMsg, so its memcpy goes on, *)
(* one place after the other and in any order, while the thread reads the  *)
(* slot.                                                                   *)
(***************************************************************************)
EXTENDS Integers, Sequences

CONSTANTS
  Lengths,      \* sizeof of the parameters' types
  Capacity,     \* sizeof(msgData)
  MaxParams,    \* model bound: parameters of a message
  MaxMessages   \* model bound: messages sent

ASSUME ParamAssumption ==
  /\ Lengths \subseteq Nat \ {0} /\ Capacity \in Nat
  /\ MaxParams \in Nat /\ MaxMessages \in Nat

VARIABLES
  \* main
  msgData,      \* of its msgInfo
  given,        \* lengths passed to the msgDataPack under way or done last
  funParam, packing,
  sent,         \* messages sent
  \* the receiver
  queue,        \* its copies, with the lengths their function expects
  uncopied,     \* places that setEventMsg has still to copy from the first of them
  \* the responser's slot, eventMsg
  event, slot,  \* eventID, as the message and what its function expects; msgData
  \* the responser's thread
  number,       \* the message whose function its switch chose
  expected,     \* lengths not unpacked yet, of those it passes to msgDataUnPack
  at, param, byte,  \* msgDataUnPack's funParam; parameters and bytes behind it done
  out,          \* bytes unpacked, by parameter and place
  mix           \* history: whether setEventMsg ran in between, see Switch

mainVars   == <<msgData, given, funParam, packing, sent>>
slotVars   == <<event, slot>>
threadVars == <<number, expected, at, param, byte, out>>
paramVars  == <<mainVars, queue, uncopied, slotVars, threadVars, mix>>

Unset == <<0, 0, 0>>
Bytes == 0..Capacity - 1
EventPlace == -1
Places == Bytes \cup {EventPlace}
Message == sent + 1    \* the message being prepared

ParamInit ==
  /\ msgData = [b \in Bytes |-> Unset] /\ slot = [b \in Bytes |-> Unset]
  /\ given = <<>> /\ funParam = 0 /\ packing = FALSE
  /\ sent = 0 /\ queue = <<>> /\ uncopied = {}
  /\ event = [number |-> 0, lens |-> <<>>]
  /\ number = 0 /\ expected = <<>> /\ at = 0 /\ param = 0 /\ byte = 0
  /\ out = {} /\ mix = "none"

-----------------------------------------------------------------------------
(* main.                                                                    *)

\* main calls msgDataPack for a message, or sends it as it is (R1_FUN1).
BeginPack ==
  /\ ~packing /\ given = <<>> /\ sent < MaxMessages
  /\ packing' = TRUE /\ funParam' = 0
  /\ UNCHANGED <<msgData, given, sent, queue, uncopied, slotVars, threadVars, mix>>

\* One round of the loop copies a parameter.  The callers keep their parameters
\* inside msgData.
Pack(len) ==
  /\ packing /\ Len(given) < MaxParams
  /\ funParam + len <= Capacity
  /\ msgData' = [b \in Bytes |-> IF b \in funParam..funParam + len - 1
                                 THEN <<Message, Len(given) + 1, b - funParam>> ELSE msgData[b]]
  /\ given' = Append(given, len) /\ funParam' = funParam + len
  /\ UNCHANGED <<packing, sent, queue, uncopied, slotVars, threadVars, mix>>

EndPack ==
  /\ packing /\ given # <<>>
  /\ packing' = FALSE
  /\ UNCHANGED <<msgData, given, funParam, sent, queue, uncopied, slotVars, threadVars, mix>>

Copy == [number |-> Message, lens |-> given, data |-> msgData]

\* Mutant: the queue refers to main's message.
Send_ByReference ==
  /\ ~packing /\ sent < MaxMessages
  /\ queue' = [n \in 1..Len(queue) + 1 |-> IF n <= Len(queue) THEN [queue[n] EXCEPT !.data = msgData] ELSE Copy]
  /\ sent' = Message /\ given' = <<>>
  /\ UNCHANGED <<msgData, funParam, packing, uncopied, slotVars, threadVars, mix>>

Send ==
  /\ ~packing /\ sent < MaxMessages
  /\ queue' = Append(queue, Copy)
  /\ sent' = Message /\ given' = <<>>
  /\ UNCHANGED <<msgData, funParam, packing, uncopied, slotVars, threadVars, mix>>

-----------------------------------------------------------------------------
(* The receiver.                                                            *)

\* Calls setEventMsg, whatever the responser's thread is doing.
SetEventMsg ==
  /\ queue # <<>> /\ uncopied = {}
  /\ uncopied' = Places
  /\ mix' = IF mix = "none" THEN "late" ELSE mix
  /\ UNCHANGED <<mainVars, queue, slotVars, threadVars>>

\* One place of its memcpy.  The message is popped behind it.
CopyPlace(p) ==
  /\ p \in uncopied
  /\ uncopied' = uncopied \ {p}
  /\ IF p = EventPlace
     THEN event' = [number |-> Head(queue).number, lens |-> Head(queue).lens] /\ UNCHANGED slot
     ELSE slot' = [slot EXCEPT ![p] = Head(queue).data[p]] /\ UNCHANGED event
  /\ queue' = IF uncopied = {p} THEN Tail(queue) ELSE queue
  /\ UNCHANGED <<mainVars, threadVars, mix>>

-----------------------------------------------------------------------------
(* The responser's thread.                                                  *)

\* Awake, by a signal or without one, it switches on the slot's eventID.  From here
\* mix says of setEventMsg: a call was under way at the switch ("early"), none was
\* but one has begun since ("late"), neither ("none").
Switch ==
  /\ expected = <<>>
  /\ number' = event.number /\ expected' = event.lens
  /\ at' = 0 /\ param' = 0 /\ byte' = 0 /\ out' = {}
  /\ mix' = IF uncopied = {} THEN "none" ELSE "early"
  /\ UNCHANGED <<mainVars, queue, uncopied, slotVars>>

Unpacked == [param |-> param + 1, place |-> byte, byte |-> slot[at + byte]]

\* A byte of the memcpy of a parameter; behind the last of them the pointer moves on.
UnPack ==
  /\ expected # <<>>
  /\ out' = out \cup {Unpacked}
  /\ IF byte + 1 < Head(expected)
     THEN byte' = byte + 1 /\ UNCHANGED <<expected, at, param>>
     ELSE byte' = 0 /\ param' = param + 1 /\ at' = at + Head(expected) /\ expected' = Tail(expected)
  /\ UNCHANGED <<mainVars, queue, uncopied, slotVars, number, mix>>

ParamNext ==
  \/ BeginPack \/ (\E len \in Lengths : Pack(len)) \/ EndPack \/ Send
  \/ SetEventMsg \/ (\E p \in Places : CopyPlace(p))
  \/ Switch \/ UnPack
ParamSpec == ParamInit /\ [][ParamNext]_paramVars

-----------------------------------------------------------------------------
(* Properties                                                               *)

\* If setEventMsg does not run between the switch and the end of the unpacking, every
\* parameter comes out as it was packed for the message switched on, byte for byte,
\* whatever main has packed into its msgInfo since, and whatever of a longer message
\* is left there and in the slot.  If it does, but did not at the switch, a byte
\* can be a newer message's; it is never left over from an older one
\* (sender.cpp:27-44, responser.cpp:15-47, main.cpp:28-57).  Of a switch in the
\* middle of setEventMsg nothing is said: MainApp's CalledWithOwnArgs has that case.
Own(o) == o.byte = <<number, o.param, o.place>>
UnpackedAsPacked ==
  /\ mix = "none" => \A o \in out : Own(o)
  /\ mix = "late" => \A o \in out : Own(o) \/ o.byte[1] > number
=============================================================================
