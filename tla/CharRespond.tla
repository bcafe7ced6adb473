---------------------------- MODULE CharRespond ----------------------------
(***************************************************************************)
(* The handlers of Template2/char_respond.cpp, each with the functions it  *)
(* calls: WifiServices_Write, which runs the scan with utils_system_ex     *)
(* into wifi_ssid_buffer, and WifiServices_Read, which parses that buffer  *)
(* and answers with the list; the reads of the key file and of the MAC     *)
(* address; Diagnostics_Read; and the writes that parse a message.         *)
(*                                                                         *)
(* Handlers run one after the other in the main loop, and nothing but the  *)
(* buffer passes from one to another: a behaviour is one call, a write of  *)
(* WifiServices being followed by a read (GattServer has the calls in any  *)
(* order, with what the handlers do as single steps).                      *)
(***************************************************************************)
EXTENDS SystemEx, SsidParse, ConfParse, Messages

CONSTANTS
  Calls,      \* the calls examined, of those below
  Outputs,    \* texts that the scan may print
  Payloads,   \* by schema, sequences of parts that a peer may send
  sizeof_buf, \* size of the array that the handlers of texts copy into
  BeyondBuffer    \* texts that may stand in memory behind wifi_ssid_buffer

ASSUME CharRespondAssumption ==
  /\ Calls \subseteq {"WifiServices", "Key", "MacAddress", "Diagnostics", "Message"}
  /\ Outputs \subseteq Seq(Char) /\ <<>> \in Outputs
  /\ BeyondBuffer \subseteq Seq(Char)
  /\ \A text \in Outputs : Len(text) <= MaxOutput
  /\ \A text \in {<<>>} \cup BeyondBuffer : max_size + Len(text) < 2^Width
  /\ sizeof_buf \in Nat \ {0}

\* What a peer sends: messages with a value of its kind in each field, the items among
\* them being of no field; the empty text, which no item stands for, is valid.
ASSUME PayloadsAssumption ==
  /\ Default("string") \notin NotUtf8
  /\ \A s \in Schemas : \A seq \in Payloads[s] : IsList(seq) /\ \A n \in DOMAIN seq : IsPart(s, seq[n])

VARIABLES
  call,
  scan,        \* what the scan prints
  reply        \* what gatt_tx_callback is given: a size and a content, once it is

charVars == <<sysVars, ssidVars, confVars, msgVars, call, scan, reply>>

NoReply == [size |-> -1, content |-> <<>>]
Lost    == [size |-> -2, content |-> <<>>]   \* the process has died of the copy

\* char Value[512] of struct char_t.
sizeof_Value == 512

CharInit ==
  /\ call \in Calls
  /\ scan \in IF call = "WifiServices" THEN Outputs ELSE {<<>>}
  /\ SysInit /\ output = Len(scan) /\ (call = "WifiServices" \/ errno = "other")
  /\ SsidInit /\ ConfInit
  /\ MessagesInit(IF call = "Message" THEN Schemas ELSE {<<>>})
  /\ reply = NoReply

-----------------------------------------------------------------------------
(* WifiServices: the scan, and the read of its list.                        *)

\* get_wifi_ssid_data, after the buffer was zeroed; it gives utils_system_ex the
\* buffer.
WifiServices_Write ==
  /\ call = "WifiServices"
  /\ Popen(TRUE) \/ Fread \/ Terminate \/ Pclose
  /\ UNCHANGED <<ssidVars, confVars, msgVars, call, scan, reply>>

\* wifi_ssid_buffer as a C string: what the last fread put there up to the
\* terminator, or to the zeros behind it, or, if there are none, to where memory
\* beyond the buffer has a zero.
wifi_ssid_buffer ==
  LET content == SubSeq(scan, taken - filled + 1, taken) IN
  IF nul >= 0 THEN {SubSeq(content, 1, nul)}
  ELSE IF filled < max_size THEN {content}
  ELSE {content \o text : text \in BeyondBuffer}

WifiServices_Read ==
  /\ call = "WifiServices" /\ pc = "done"
  /\ \E data \in wifi_ssid_buffer : Parse(data)
  /\ UNCHANGED <<sysVars, confVars, msgVars, call, scan, reply>>

ParseStep ==
  /\ Loop
  /\ UNCHANGED <<sysVars, confVars, msgVars, call, scan, reply>>

\* The reply of a handler that serializes a message, with one field, into a buffer
\* of its size.
Encoded(s, field) == [size |-> ByteSizeLong(s[1], field), content |-> Serialize(s, <<field>>)]

\* add_services for every name, serialized, and gatt_tx_callback.
Answer ==
  /\ ssid_pc = "done" /\ reply = NoReply
  /\ reply' = Encoded(wifi_services_v1, ssid_vector)
  /\ UNCHANGED <<sysVars, ssidVars, confVars, msgVars, call, scan>>

-----------------------------------------------------------------------------
(* The other handlers.                                                      *)

Loading == "Loading..."
Address == "00:01:02:03:04:05"
Texts_of_Diagnostics == [
  connected |-> Loading, dialable |-> Loading, height |-> Loading, nat_type |-> Loading,
  eth |-> Address, wifi |-> Address, fw |-> "v1.0", miner |-> "v2.0", ip |-> ""]

\* Evaluated by TLC: the provers know no length of a string.
ASSUME DiagnosticsSize ==
  LET size_of_texts == ByteSizeLong("map", Texts_of_Diagnostics) IN
  /\ size_of_texts = Written("map", Serialize(diagnostics_v1, <<Texts_of_Diagnostics>>))
  /\ size_of_texts <= sizeof_Value

Diagnostics_Read ==
  /\ call = "Diagnostics" /\ reply = NoReply
  /\ reply' = Encoded(diagnostics_v1, Texts_of_Diagnostics)
  /\ UNCHANGED <<sysVars, ssidVars, confVars, msgVars, call, scan>>

\* OnboardingKey_Read, PublicKey_Read, WiFi_MAC_Address_Read: the function called,
\* and after it the text, or one zero byte if it failed.
TextStep ==
  /\ \/ call = "Key" /\ OpenFile("parse_conf", ConfFiles)
     \/ call = "MacAddress" /\ OpenFile("get_mac_address", MacFiles)
     \/ ReadLines
  /\ UNCHANGED <<sysVars, ssidVars, msgVars, call, scan, reply>>

\* strcpy does not look at the size of buf: a longer text writes on beyond it.
Copied == [size |-> Len(value), content |-> value]

Text_Read ==
  /\ conf_pc = "done" /\ reply = NoReply
  /\ reply' \in IF conf_ret < 0 THEN {[size |-> 1, content |-> <<"NUL">>]}
                ELSE IF Len(value) < sizeof_buf THEN {Copied} ELSE {Copied, Lost}
  /\ UNCHANGED <<sysVars, ssidVars, confVars, msgVars, call, scan>>

\* AssertLocation_Write, AddGateway_Write, WiFiConnect_Write, WiFiRemove_Write, and
\* the client, which reads the two replies with the same generated code.
Message_Write ==
  /\ (call = "Message" /\ Receive(Payloads)) \/ ParseNext
  /\ UNCHANGED <<sysVars, ssidVars, confVars, call, scan, reply>>

CharNext ==
  \/ WifiServices_Write \/ WifiServices_Read \/ ParseStep \/ Answer
  \/ Diagnostics_Read \/ TextStep \/ Text_Read \/ Message_Write

\* Fairness: a handler runs to its end once it has begun; no call need come.
CharSpec ==
  /\ CharInit /\ [][CharNext]_charVars
  /\ WF_charVars(WifiServices_Write) /\ WF_charVars(ParseStep) /\ WF_charVars(Answer)

-----------------------------------------------------------------------------
(* Properties                                                               *)

Listed == {reply.content[k].val : k \in DOMAIN reply.content}
Terminated == nul >= 0 \/ filled < max_size
Complete == output < max_size /\ ~lost /\ ret > 0

\* The reply is the scan's names, as far as they were read.
IsOfScan ==
  /\ Terminated => Listed \subseteq NamesIn(scan)
  /\ Complete => Listed = NamesIn(scan) /\ Len(reply.content) = Cardinality(Listed)

\* A list that is answered from a terminated buffer holds names of the scan and no
\* part of one, wherever the buffer or a failed read cut it off; and a scan that
\* printed less than the buffer holds, and was read without a failure, is answered
\* with exactly its names, each once, however many reads were interrupted
\* (char_respond.cpp:126-170, 399-419; sys_utils.cpp:58-71).  Such a scan is
\* answered in the end.
ScanIsListed ==
  /\ [](call = "WifiServices" /\ reply # NoReply => IsOfScan)
  /\ ssid_pc = "loop" /\ Complete ~> reply # NoReply

\* cut leaves the blank behind the colon of "SSID: name"; a line that has no colon it
\* prints whole.
BlankBegun == \A s \in LineStarts(scan) : s <= Len(scan) => scan[s] = Space

LinesFit == \A n \in DOMAIN conf_file : Len(conf_file[n]) < sizeof_buf

\* The bytes serialized are as many as were counted for the buffer they go into, and
\* fit into Value: the diagnostics always, the list of names because Value is as
\* large as wifi_ssid_buffer and the list not longer than the text was, if each line
\* had a blank in front and a newline behind where the list has a tag and a length
\* of one byte, as it is below 128 (char_respond.cpp:28, 130, 311, 413-417, 436-440;
\* gatt.h:23).  The copy of a key or an address, whose length is not tested, stays
\* inside the handler's array if every line of the file is shorter than it, though
\* the text is put together from several reads (char_respond.cpp:63-124, 357-393).
ReplyFits ==
  /\ reply # NoReply /\ call = "WifiServices" =>
       /\ reply.size = Written("strings", reply.content)
       /\ Terminated /\ BlankBegun /\ (\A name \in Listed : Len(name) < 2^7) =>
            reply.size <= Len(mixture) /\ Len(mixture) < max_size
  /\ reply # NoReply /\ call = "Diagnostics" =>
       reply.size = Written("map", reply.content) /\ reply.size <= sizeof_Value
  /\ reply # NoReply /\ call \in {"Key", "MacAddress"} /\ LinesFit => reply # Lost
=============================================================================
