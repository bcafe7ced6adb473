----------------------------- MODULE GattServer ----------------------------
(***************************************************************************)
(* The GATT application of Template2: on_method_call (gatt.cpp) and the    *)
(* handlers it calls (char_respond.cpp), as bluez drives them over D-Bus   *)
(* once the objects are registered and the main loop runs.                 *)
(*                                                                         *)
(* The main loop takes one method call after another, in the order bluez   *)
(* sent them; a handler runs to its end before the next call is looked at. *)
(* The handler of a write to WiFiServices runs a scan of several seconds,  *)
(* while which bluez goes on sending, so it is two steps.                  *)
(***************************************************************************)
EXTENDS Integers, Sequences

CONSTANTS
  Chars,     \* the characteristics bluez uses: all of 0..12, or some
  Networks,  \* lists of network names a scan can bring
  MaxCalls   \* model bound: calls bluez makes

ASSUME GattAssumption ==
  /\ Chars \subseteq 0..12
  /\ <<>> \in Networks
  /\ MaxCalls \in Nat

VARIABLES
  log,       \* calls sent, in order: the n-th has the id n
  handled,   \* how many of them the main loop has taken
  loop,      \* main loop: "idle", "scan" (in WifiServices_Write), "stuck"
  Value, Notifying,    \* server_ctx.gatt
  wifi_ssid_buffer,
  answers,   \* replies returned, in order
  signals,   \* PropertiesChanged signals emitted, in order
  scans      \* history: what the scan of each write brought

vars == <<log, handled, loop, Value, Notifying, wifi_ssid_buffer, answers, signals, scans>>

-----------------------------------------------------------------------------
(* server_ctx: the flags say which calls bluez makes on a characteristic.   *)

Readable  == {0, 1, 2, 3, 4, 5, 11, 12} \cap Chars
Writable  == {2, 3, 6, 7, 8, 9, 10} \cap Chars   \* "write-without-response"
Notifiers == {2} \cap Chars

Calls ==
  [op : {"ReadValue"}, char : Readable] \cup [op : {"WriteValue"}, char : Writable]
    \cup [op : {"StartNotify", "StopNotify"}, char : Notifiers]
    \cup [op : {"Get"}, char : Chars]         \* org.freedesktop.DBus.Properties
    \cup [op : {"GetManagedObjects"}, char : {-1}]

\* What a Value holds: nothing, the payload of a write (named by the id of its
\* call), a list of networks, or a text the handler makes up or finds in a file.
Content(kind, of) == [kind |-> kind, of |-> of]
Nothing == Content("nothing", <<>>)
Written(id) == Content("written", <<id>>)
Listed(names) == Content("list", names)
Text(t) == Content(t, <<>>)

\* The buffer: the names that parse_wifi_ssid_data finds in it, and whether its
\* last line was cut off in the middle of one (see SsidParse).
Buffer(names, cut) == [names |-> names, cut |-> cut]

GattInit ==
  /\ log = <<>> /\ handled = 0 /\ loop = "idle"
  /\ Value = [c \in Chars |-> Nothing] /\ Notifying = [c \in Chars |-> FALSE]
  /\ wifi_ssid_buffer = Buffer(<<>>, FALSE)
  /\ answers = <<>> /\ signals = <<>>
  /\ scans = [n \in 1..MaxCalls |-> Buffer(<<>>, FALSE)]

\* bluez sends a call.
Send(call) ==
  /\ Len(log) < MaxCalls
  /\ log' = Append(log, call)
  /\ UNCHANGED <<handled, loop, Value, Notifying, wifi_ssid_buffer, answers, signals, scans>>

-----------------------------------------------------------------------------
(* on_method_call, one action per kind of handler.                          *)

id == handled + 1
call == log[id]

Taking(op, chars) ==
  /\ loop = "idle" /\ handled < Len(log)
  /\ call.op = op /\ call.char \in chars
  /\ handled' = id

Reply(content) == answers' = Append(answers, [id |-> id, content |-> content])

\* gatt_tx_callback and uart_tx_callback: the reply goes through Value.
gatt_tx_callback(c, content) ==
  /\ Value' = [Value EXCEPT ![c] = content]
  /\ Reply(content)

\* Mutant: appends behind the value before.
gatt_rx_callback_Appends(c) ==
  Value' = [Value EXCEPT ![c] = Content("written", @.of \o <<id>>)]

\* gatt_rx_callback and uart_rx_callback.  The payload is taken to have at most the
\* 512 bytes of Value, which the code does not test.
gatt_rx_callback(c) == Value' = [Value EXCEPT ![c] = Written(id)]

\* GetManagedObjects: the properties of every object, as they are.
GetManagedObjects ==
  /\ Taking("GetManagedObjects", {-1})
  /\ Reply(Content("objects", <<Value, Notifying>>))
  /\ UNCHANGED <<log, loop, Value, Notifying, wifi_ssid_buffer, signals, scans>>

\* get_property of Value.
GetProperty ==
  /\ Taking("Get", Chars)
  /\ Reply(Value[call.char])
  /\ UNCHANGED <<log, loop, Value, Notifying, wifi_ssid_buffer, signals, scans>>

\* OnboardingKey_Read, PublicKey_Read, WiFi_MAC_Address_Read: a text from a file,
\* or one zero byte if it is not found.
ReadFile ==
  /\ Taking("ReadValue", {0, 1, 4})
  /\ \E t \in {"found", "zero byte"} : gatt_tx_callback(call.char, Text(t))
  /\ UNCHANGED <<log, loop, Notifying, wifi_ssid_buffer, signals, scans>>

Constant(c) == Text(IF c = 3 THEN "diagnostics" ELSE IF c = 5 THEN "on" ELSE "false")

\* Diagnostics_Read, and the constants "on" and "false".
ReadConstant ==
  /\ Taking("ReadValue", {3, 5, 11})
  /\ gatt_tx_callback(call.char, Constant(call.char))
  /\ UNCHANGED <<log, loop, Notifying, wifi_ssid_buffer, signals, scans>>

\* Mutant: char0012 answers with what char0002 holds.
ReadServices_FromValue ==
  /\ Taking("ReadValue", {2, 12})
  /\ ~wifi_ssid_buffer.cut
  /\ gatt_tx_callback(call.char, IF call.char = 12 /\ 2 \in Chars THEN Value[2]
                                 ELSE Listed(wifi_ssid_buffer.names))
  /\ UNCHANGED <<log, loop, Notifying, wifi_ssid_buffer, signals, scans>>

\* WifiServices_Read, for char0002 and char0012.  For char0012 the code does not look
\* at the method: it has the flag "read" alone, and bluez calls nothing else on it.
ReadServices ==
  /\ Taking("ReadValue", {2, 12})
  /\ ~wifi_ssid_buffer.cut
  /\ gatt_tx_callback(call.char, Listed(wifi_ssid_buffer.names))
  /\ UNCHANGED <<log, loop, Notifying, wifi_ssid_buffer, signals, scans>>

\* Mutant: the loop does not end on an empty text.
ReadServicesSpins_OnEmpty ==
  /\ Taking("ReadValue", {2, 12})
  /\ wifi_ssid_buffer.cut \/ wifi_ssid_buffer.names = <<>>
  /\ loop' = "stuck"
  /\ UNCHANGED <<log, Value, Notifying, wifi_ssid_buffer, answers, signals, scans>>

\* The same with a buffer on which parse_wifi_ssid_data does not return.
ReadServicesSpins ==
  /\ Taking("ReadValue", {2, 12})
  /\ wifi_ssid_buffer.cut
  /\ loop' = "stuck"
  /\ UNCHANGED <<log, Value, Notifying, wifi_ssid_buffer, answers, signals, scans>>

\* AssertLocation_Write, AddGateway_Write, WiFiConnect_Write, WiFiRemove_Write
\* (the parsed message is only printed), and the bare uart_rx_callback.  The
\* receive callback is not called, and the invocation gets no reply.
Write ==
  /\ Taking("WriteValue", Chars \ {2})
  /\ gatt_rx_callback(call.char)
  /\ UNCHANGED <<log, loop, Notifying, wifi_ssid_buffer, answers, signals, scans>>

\* Mutant: StopNotify is taken for StartNotify.
SetNotify_OnlyStarts ==
  /\ \E op \in {"StartNotify", "StopNotify"} :
       /\ Taking(op, {2})
       /\ Notifying' = [Notifying EXCEPT ![2] = TRUE]
  /\ UNCHANGED <<log, loop, Value, wifi_ssid_buffer, answers, signals, scans>>

\* StartNotify, StopNotify: no reply either.
SetNotify ==
  /\ \E op \in {"StartNotify", "StopNotify"} :
       /\ Taking(op, {2})
       /\ Notifying' = [Notifying EXCEPT ![2] = (op = "StartNotify")]
  /\ UNCHANGED <<log, loop, Value, wifi_ssid_buffer, answers, signals, scans>>

\* WifiServices_Write up to the scan.
BeginScan ==
  /\ Taking("WriteValue", {2})
  /\ gatt_rx_callback(2)
  /\ wifi_ssid_buffer' = Buffer(<<>>, FALSE)
  /\ loop' = "scan"
  /\ UNCHANGED <<log, Notifying, answers, signals, scans>>

\* gatt_notify_callback.
gatt_notify_callback(str) ==
  signals' = IF Notifying[2] THEN Append(signals, [id |-> handled, value |-> str]) ELSE signals

\* get_wifi_ssid_data returned: "ok" if the result is positive.  It is not if the
\* command failed or its reading was given up (see SystemEx), whatever that left
\* in the buffer; it is if blank lines are all there was, from hidden networks.
\* Nothing has dropped the buffer's last, cut, line.
EndScan(names, cut, positive) ==
  /\ loop = "scan" /\ loop' = "idle"
  /\ cut => names # <<>>
  /\ wifi_ssid_buffer' = Buffer(names, cut)
  /\ scans' = [scans EXCEPT ![handled] = Buffer(names, cut)]
  /\ gatt_notify_callback(IF positive THEN "ok" ELSE "false")
  /\ UNCHANGED <<log, handled, Value, Notifying, answers>>

ScanEnds == \E names \in Networks, cut, positive \in BOOLEAN : EndScan(names, cut, positive)

Handle ==
  \/ GetManagedObjects \/ GetProperty
  \/ ReadFile \/ ReadConstant \/ ReadServices \/ ReadServicesSpins
  \/ Write \/ SetNotify \/ BeginScan

GattNext ==
  \/ \E c \in Calls : Send(c)
  \/ Handle
  \/ ScanEnds

GattSpec == GattInit /\ [][GattNext]_vars

\* The main loop runs while it has calls to take, and a scan ends.
GattFairSpec == GattSpec /\ WF_vars(Handle) /\ WF_vars(ScanEnds)

-----------------------------------------------------------------------------
(* Properties                                                               *)

Answered == {answers[n].id : n \in DOMAIN answers}
AnswerTo(n) == answers[CHOOSE k \in DOMAIN answers : answers[k].id = n].content
Latest(hits) == IF hits = {} THEN 0 ELSE CHOOSE k \in hits : \A h \in hits : h <= k
\* The last of the calls before the n-th that is in S, or 0.
LastIn(calls, n, S) == Latest({k \in 1..n - 1 : calls[k] \in S})
LastBefore(n, S) == LastIn(log, n, S)
Busy == IF loop = "idle" THEN {} ELSE {handled}

\* Type correctness; an answer or a signal is for a call that was taken.
TypeOK ==
  /\ log \in Seq(Calls) /\ Len(log) <= MaxCalls /\ handled \in 0..Len(log)
  /\ loop \in {"idle", "scan", "stuck"}
  /\ DOMAIN Value = Chars /\ Notifying \in [Chars -> BOOLEAN]
  /\ wifi_ssid_buffer \in [names : Networks, cut : BOOLEAN]
  /\ scans \in [1..MaxCalls -> [names : Networks, cut : BOOLEAN]]
  /\ Answered \subseteq 1..handled
  /\ \A n \in DOMAIN signals : signals[n].id \in 1..handled

\* A read of WiFiServices or WiFiConfiguredServices is answered with the networks
\* of the last scan that was asked for before it, whole, however many calls
\* bluez sends while a scan runs: never with those of an earlier scan, nor
\* with a buffer that is being filled (char_respond.cpp:404-418, 464-466).
ReadsLatestScan ==
  \A n \in Answered :
    log[n].op = "ReadValue" /\ log[n].char \in {2, 12} =>
      LET w == LastBefore(n, [op : {"WriteValue"}, char : {2}])
      IN  AnswerTo(n) = Listed(IF w = 0 THEN <<>> ELSE scans[w].names)

\* A notification is sent for a scan exactly if the last Start- or StopNotify sent
\* before the write that asked for it was a StartNotify; what bluez sends during
\* the scan counts only for the next one (char_respond.cpp:229, gatt.cpp:1321-1328).
NotifiedAsAsked ==
  \A n \in 1..handled : log[n] = [op |-> "WriteValue", char |-> 2] /\ n \notin Busy =>
    LET s == LastBefore(n, [op : {"StartNotify", "StopNotify"}, char : {2}])
    IN  (\E k \in DOMAIN signals : signals[k].id = n) <=> (s # 0 /\ log[s].op = "StartNotify")

\* The Value of each characteristic is what the last read or write of that one
\* left there, and no other call's: the table of handlers passes each its own
\* index (gatt.cpp:1299-1381).
ValuesKeptApart ==
  \A c \in Chars :
    LET n == LastBefore(handled + 1, [op : {"ReadValue", "WriteValue"}, char : {c}])
    IN  n \notin Busy =>
          Value[c] = IF n = 0 THEN Nothing
                     ELSE IF log[n].op = "ReadValue" THEN AnswerTo(n) ELSE Written(n)

\* The main loop hangs, with a read of networks whose scan was cut off by the size
\* of the buffer.
HungByCut ==
  /\ loop = "stuck"
  /\ log[handled].op = "ReadValue" /\ log[handled].char \in {2, 12}
  /\ LET w == LastBefore(handled, [op : {"WriteValue"}, char : {2}])
     IN  w # 0 /\ scans[w].cut

\* Every read is answered, unless a scan that was cut off makes the main loop hang:
\* nothing else does (char_respond.cpp:155-169, sys_utils.cpp:70).
ReadsAnswered ==
  \A n \in 1..MaxCalls :
    (n <= Len(log) /\ log[n].op \in {"ReadValue", "Get", "GetManagedObjects"})
      ~> (n \in Answered \/ HungByCut)

-----------------------------------------------------------------------------
(* "you must call one of the methods of #GDBusMethodInvocation to return a   *)
(* reply (possibly empty), or an error", says gio of a method_call handler   *)
(* (3rd/glib/include/glib-2.0/gio/gdbusconnection.h:348-350).                *)

\* Every call that was taken, and whose handler has returned, has been answered.
EveryCallAnswered == 1..handled \subseteq Answered \cup Busy
=============================================================================
