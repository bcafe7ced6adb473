-------------------------- MODULE GattServerProofs --------------------------
(***************************************************************************)
(* Proofs about GattServer, for any characteristics, networks and calls.   *)
(***************************************************************************)
EXTENDS GattServer, NaturalsInduction, WellFoundedInduction, TLAPS

-----------------------------------------------------------------------------
(* What LastIn returns.                                                     *)

\* A set of numbers up to n has a greatest one.
LEMMA Greatest ==
  ASSUME NEW n \in Nat, NEW H \in SUBSET (1..n), H # {}
  PROVE  \E k \in H : \A h \in H : h <= k
<1>. DEFINE R == OpToRel(<, Nat)
            D == {n - h : h \in H}
<1>1. \A x, y \in Nat : <<y, x>> \in R <=> y < x
  BY DEF OpToRel
<1>2. IsWellFoundedOn(R, Nat)
  BY NatLessThanWellFounded
<1>3. D \subseteq Nat /\ D # {}
  <2>1. \A h \in H : h \in Int /\ h <= n
    OBVIOUS
  <2>2. D \subseteq Nat
    BY <2>1
  <2>3. PICK h \in H : TRUE
    OBVIOUS
  <2>. QED BY <2>2, <2>3
<1>. HIDE DEF R
<1>4. PICK d \in D : \A e \in D : ~(<<e, d>> \in R)
  <2>. HIDE DEF D
  <2>. QED BY <1>2, <1>3, WFMin
<1>5. PICK k \in H : d = n - k
  BY <1>4
<1>6. ASSUME NEW h \in H PROVE h <= k
  <2>1. n - h \in D /\ n - h \in Nat /\ d \in Nat
    BY <1>3, <1>4
  <2>2. ~(n - h < d)
    BY <2>1, <1>1, <1>4
  <2>. QED BY <2>2, <1>5
<1>. QED BY <1>6

LEMMA LastInFirst == \A l, S : LastIn(l, 1, S) = 0
BY DEF LastIn, Latest

\* Only the calls before the n-th count.
LEMMA LastInSame ==
  ASSUME NEW l, NEW m, NEW n, NEW S, \A k \in 1..n - 1 : l[k] = m[k]
  PROVE  LastIn(l, n, S) = LastIn(m, n, S)
<1>1. {k \in 1..n - 1 : l[k] \in S} = {k \in 1..n - 1 : m[k] \in S}
  OBVIOUS
<1>. QED BY <1>1 DEF LastIn

\* The n-th call itself is the last before the next, if it is in S.
LEMMA LastInNext ==
  ASSUME NEW l, NEW n \in Nat \ {0}, NEW S
  PROVE  LastIn(l, n + 1, S) = IF l[n] \in S THEN n ELSE LastIn(l, n, S)
<1>. DEFINE H(j) == {k \in 1..j - 1 : l[k] \in S}
<1>1. CASE l[n] \in S
  <2>1. n \in H(n + 1) /\ \A h \in H(n + 1) : h \in Int /\ h <= n
    BY <1>1
  <2>2. LastIn(l, n + 1, S) = CHOOSE k \in H(n + 1) : \A h \in H(n + 1) : h <= k
    BY <2>1, Zenon DEF LastIn, Latest
  <2>. HIDE DEF H
  <2>3. \E k \in H(n + 1) : \A h \in H(n + 1) : h <= k
    BY <2>1
  <2>4. PICK m : /\ m = CHOOSE k \in H(n + 1) : \A h \in H(n + 1) : h <= k
                 /\ m \in H(n + 1) /\ \A h \in H(n + 1) : h <= m
    BY <2>3
  <2>. QED BY <1>1, <2>1, <2>2, <2>4
<1>2. CASE l[n] \notin S
  <2>1. {k \in 1..n + 1 - 1 : l[k] \in S} = {k \in 1..n - 1 : l[k] \in S}
    BY <1>2
  <2>2. LastIn(l, n + 1, S) = LastIn(l, n, S)
    BY <2>1 DEF LastIn
  <2>. QED BY <1>2, <2>2
<1>. QED BY <1>1, <1>2

\* It is a call of S before the n-th, if there is one.
LEMMA LastInRange ==
  ASSUME NEW l, NEW n \in Nat \ {0}, NEW S
  PROVE  /\ LastIn(l, n, S) \in 0..n - 1
         /\ LastIn(l, n, S) # 0 => l[LastIn(l, n, S)] \in S
<1>. DEFINE H == {k \in 1..n - 1 : l[k] \in S}
<1>1. CASE H = {}
  BY <1>1 DEF LastIn, Latest
<1>2. CASE H # {}
  <2>1. n - 1 \in Nat /\ H \in SUBSET (1..n - 1)
    OBVIOUS
  <2>2. LastIn(l, n, S) = CHOOSE k \in H : \A h \in H : h <= k
    BY <1>2 DEF LastIn, Latest
  <2>3. \E k \in H : \A h \in H : h <= k
    <3>. HIDE DEF H
    <3>. QED BY <1>2, <2>1, Greatest
  <2>4. LastIn(l, n, S) \in H
    <3>. HIDE DEF H
    <3>. QED BY <2>2, <2>3
  <2>. QED BY <2>4
<1>. QED BY <1>1, <1>2

-----------------------------------------------------------------------------
(* Sequences and calls.                                                     *)

IsSeq(s) == \E S : s \in Seq(S)

LEMMA AppendIs ==
  ASSUME NEW s, IsSeq(s), NEW x
  PROVE  /\ IsSeq(Append(s, x)) /\ Len(s) \in Nat
         /\ DOMAIN s = 1..Len(s) /\ DOMAIN Append(s, x) = 1..Len(s) + 1
         /\ \A k \in 1..Len(s) : Append(s, x)[k] = s[k]
         /\ Append(s, x)[Len(s) + 1] = x
<1>1. PICK S : s \in Seq(S)
  BY DEF IsSeq
<1>. DEFINE T == S \cup {x}
<1>2. s \in Seq(T) /\ x \in T
  BY <1>1
<1>3. Append(s, x) \in Seq(T)
  BY <1>2
<1>4. IsSeq(Append(s, x))
  BY <1>3 DEF IsSeq
<1>. HIDE DEF T
<1>. QED BY <1>2, <1>4

LEMMA CallIs ==
  ASSUME NEW c \in Calls, NEW O, NEW C
  PROVE  c \in [op : O, char : C] <=> c.op \in O /\ c.char \in C
BY DEF Calls

LEMMA CallKinds ==
  ASSUME NEW c \in Calls
  PROVE  /\ c.op \in {"ReadValue", "WriteValue", "StartNotify", "StopNotify", "Get", "GetManagedObjects"}
         /\ c.op \in {"ReadValue", "WriteValue", "StartNotify", "StopNotify", "Get"} => c.char \in Chars
         /\ c = [op |-> "WriteValue", char |-> 2] <=> c.op = "WriteValue" /\ c.char = 2
BY DEF Calls, Readable, Writable, Notifiers

-----------------------------------------------------------------------------
(* The invariant.                                                           *)

ScanWrite == [op : {"WriteValue"}, char : {2}]
StartStop == [op : {"StartNotify", "StopNotify"}, char : {2}]
Accesses(c) == [op : {"ReadValue", "WriteValue"}, char : {c}]

\* The call that the main loop is at.
Stage ==
  /\ loop # "idle" => handled > 0
  /\ loop = "scan" => log[handled] = [op |-> "WriteValue", char |-> 2]
  /\ loop = "stuck" => log[handled].op = "ReadValue"

\* A reply is for a call of the reading kind, and a call gets one at most.
AnswersKnown ==
  /\ \A k \in DOMAIN answers : log[answers[k].id].op \in {"ReadValue", "Get", "GetManagedObjects"}
  /\ \A j, k \in DOMAIN answers : answers[j].id = answers[k].id => j = k
  /\ loop # "idle" => handled \notin Answered

\* A scan that is under way has not been signalled.
SignalsKnown == loop = "scan" => \A k \in DOMAIN signals : signals[k].id # handled

\* The networks of the last scan asked for before the n-th call.
LastScan(n) ==
  LET w == LastBefore(n, ScanWrite) IN IF w = 0 THEN Buffer(<<>>, FALSE) ELSE scans[w]
BufferIsLast == loop # "scan" => wifi_ssid_buffer = LastScan(handled + 1)

LastSwitchOn(n) ==
  LET s == LastBefore(n, StartStop) IN s # 0 /\ log[s].op = "StartNotify"
NotifyingIsLast == 2 \in Chars => (Notifying[2] <=> LastSwitchOn(handled + 1))

\* ReadsLatestScan, NotifiedAsAsked and ValuesKeptApart, over the replies and the
\* signals instead of the calls.
ListsLatest ==
  \A k \in DOMAIN answers :
    LET n == answers[k].id IN
    log[n].op = "ReadValue" /\ log[n].char \in {2, 12} =>
      answers[k].content = Listed(LastScan(n).names)
Signalled(n) == \E k \in DOMAIN signals : signals[k].id = n
ScansSignalled ==
  \A n \in 1..handled : log[n] \in ScanWrite /\ n \notin Busy =>
    (Signalled(n) <=> LastSwitchOn(n))
ValueIs(c, n) ==
  IF n = 0 THEN Value[c] = Nothing
  ELSE IF log[n].op = "ReadValue"
  THEN \E k \in DOMAIN answers : answers[k].id = n /\ answers[k].content = Value[c]
  ELSE Value[c] = Written(n)
ValuesApart ==
  \A c \in Chars :
    LET n == LastBefore(handled + 1, Accesses(c)) IN
    (loop = "stuck" => n # handled) => ValueIs(c, n)

Lists == IsSeq(answers) /\ IsSeq(signals)
GattInv ==
  /\ TypeOK /\ Lists /\ Stage /\ AnswersKnown /\ SignalsKnown
  /\ BufferIsLast /\ NotifyingIsLast /\ ListsLatest /\ ScansSignalled /\ ValuesApart

LEMMA GattInvInit == GattInit => GattInv
<1>. SUFFICES ASSUME GattInit PROVE GattInv
  OBVIOUS
<1>. USE GattAssumption
<1>1. /\ log = <<>> /\ handled = 0 /\ loop = "idle" /\ answers = <<>> /\ signals = <<>>
      /\ Value = [c \in Chars |-> Nothing] /\ Notifying = [c \in Chars |-> FALSE]
      /\ wifi_ssid_buffer = Buffer(<<>>, FALSE)
      /\ scans = [n \in 1..MaxCalls |-> Buffer(<<>>, FALSE)]
  BY DEF GattInit
<1>2. Notifying \in [Chars -> BOOLEAN]
  BY <1>1
<1>3. \A S : LastBefore(handled + 1, S) = 0
  BY <1>1, LastInFirst DEF LastBefore
<1>4. TypeOK
  BY <1>1, <1>2 DEF TypeOK, Buffer, Answered
<1>5. Lists
  BY <1>1 DEF Lists, IsSeq
<1>6. Stage /\ AnswersKnown /\ SignalsKnown /\ ListsLatest /\ ScansSignalled
  BY <1>1 DEF Stage, AnswersKnown, SignalsKnown, ListsLatest, ScansSignalled
<1>7. BufferIsLast
  BY <1>1, <1>3 DEF BufferIsLast, LastScan
<1>8. NotifyingIsLast
  BY <1>1, <1>3, Zenon DEF NotifyingIsLast, LastSwitchOn
<1>9. ValuesApart
  BY <1>1, <1>3 DEF ValuesApart, ValueIs
<1>. QED BY <1>4, <1>5, <1>6, <1>7, <1>8, <1>9 DEF GattInv

-----------------------------------------------------------------------------
(* Steps: bluez sends, a scan ends, or the main loop takes a call, and then *)
(* one of five things.                                                      *)

Took ==
  /\ loop = "idle" /\ handled < Len(log) /\ handled' = handled + 1
  /\ UNCHANGED <<log, scans, signals>>
Now == log[handled + 1]

Asked ==
  /\ Now.op \in {"Get", "GetManagedObjects"}
  /\ \E x : answers' = Append(answers, [id |-> handled + 1, content |-> x])
  /\ UNCHANGED <<loop, Value, Notifying, wifi_ssid_buffer>>
Read ==
  /\ Now.op = "ReadValue"
  /\ \E x :
       /\ answers' = Append(answers, [id |-> handled + 1, content |-> x])
       /\ Value' = [Value EXCEPT ![Now.char] = x]
       /\ Now.char \in {2, 12} => x = Listed(wifi_ssid_buffer.names)
  /\ UNCHANGED <<loop, Notifying, wifi_ssid_buffer>>
Hung ==
  /\ Now.op = "ReadValue" /\ loop' = "stuck"
  /\ UNCHANGED <<answers, Value, Notifying, wifi_ssid_buffer>>
Wrote ==
  /\ Now.op = "WriteValue" /\ Value' = [Value EXCEPT ![Now.char] = Written(handled + 1)]
  /\ \/ Now.char # 2 /\ UNCHANGED <<loop, wifi_ssid_buffer>>
     \/ Now.char = 2 /\ loop' = "scan" /\ wifi_ssid_buffer' = Buffer(<<>>, FALSE)
  /\ UNCHANGED <<answers, Notifying>>
Switched ==
  /\ Now.op \in {"StartNotify", "StopNotify"} /\ Now.char = 2
  /\ Notifying' = [Notifying EXCEPT ![2] = (Now.op = "StartNotify")]
  /\ UNCHANGED <<loop, answers, Value, wifi_ssid_buffer>>

LEMMA Numbers == \A c : c \in {0, 1, 4} => c \notin {2, 12}
OBVIOUS

LEMMA HandleKinds ==
  ASSUME TypeOK, Handle
  PROVE  Took /\ (Asked \/ Read \/ Hung \/ Wrote \/ Switched)
<1>. USE DEF Took, Now, Taking, id, call
<1>1. CASE GetManagedObjects \/ GetProperty
  BY <1>1 DEF GetManagedObjects, GetProperty, Reply, Asked
<1>2. CASE ReadFile \/ ReadConstant \/ ReadServices
  <2>1. PICK x :
          /\ gatt_tx_callback(Now.char, x)
          /\ Now.char \in {2, 12} => x = Listed(wifi_ssid_buffer.names)
    <3>1. CASE ReadFile
      <4>1. PICK t \in {"found", "zero byte"} : gatt_tx_callback(Now.char, Text(t))
        BY <3>1 DEF ReadFile
      <4>2. Now.char \in {0, 1, 4}
        BY <3>1 DEF ReadFile
      <4>3. Now.char \in {2, 12} => Text(t) = Listed(wifi_ssid_buffer.names)
        BY <4>2, Numbers, Zenon
      <4>. QED BY <4>1, <4>3, Zenon
    <3>2. CASE ReadConstant
      <4>1. gatt_tx_callback(Now.char, Constant(Now.char)) /\ Now.char \in {3, 5, 11}
        BY <3>2 DEF ReadConstant
      <4>. QED BY <4>1
    <3>3. CASE ReadServices
      BY <3>3 DEF ReadServices
    <3>. QED BY <1>2, <3>1, <3>2, <3>3
  <2>2. Now.op = "ReadValue" /\ UNCHANGED <<loop, Notifying, wifi_ssid_buffer>> /\ Took
    BY <1>2 DEF ReadFile, ReadConstant, ReadServices
  <2>3. Read
    BY <2>1, <2>2 DEF gatt_tx_callback, Reply, Read
  <2>. QED BY <2>2, <2>3
<1>3. CASE ReadServicesSpins
  BY <1>3 DEF ReadServicesSpins, Hung
<1>4. CASE Write
  <2>1. Now.op = "WriteValue" /\ Now.char # 2
    BY <1>4 DEF Write
  <2>. QED BY <1>4, <2>1 DEF Write, gatt_rx_callback, Wrote
<1>5. CASE SetNotify
  BY <1>5 DEF SetNotify, Switched
<1>6. CASE BeginScan
  BY <1>6 DEF BeginScan, gatt_rx_callback, Wrote
<1>. QED BY <1>1, <1>2, <1>3, <1>4, <1>5, <1>6 DEF Handle

-----------------------------------------------------------------------------
(* bluez sends: what was sent before stays, and so does what is last there. *)

LEMMA SendKeeps ==
  ASSUME TypeOK, NEW c \in Calls, Send(c)
  PROVE  /\ log' \in Seq(Calls) /\ Len(log') = Len(log) + 1 /\ Len(log') <= MaxCalls
         /\ \A k \in 1..Len(log) : log'[k] = log[k]
         /\ \A n \in 1..Len(log) + 1 : \A S : LastIn(log', n, S) = LastIn(log, n, S)
         /\ handled \in Nat /\ handled <= Len(log) /\ Len(log) \in Nat
         /\ UNCHANGED <<handled, loop, Value, Notifying, wifi_ssid_buffer, answers, signals, scans>>
<1>1. /\ log \in Seq(Calls) /\ Len(log) \in Nat /\ handled \in Nat /\ handled <= Len(log)
      /\ log' = Append(log, c) /\ Len(log) < MaxCalls
      /\ UNCHANGED <<handled, loop, Value, Notifying, wifi_ssid_buffer, answers, signals, scans>>
  BY DEF TypeOK, Send
<1>2. /\ log' \in Seq(Calls) /\ Len(log') = Len(log) + 1
      /\ \A k \in 1..Len(log) : log'[k] = log[k]
  BY <1>1
<1>3. ASSUME NEW n \in 1..Len(log) + 1, NEW S
      PROVE  LastIn(log', n, S) = LastIn(log, n, S)
  <2>1. \A k \in 1..n - 1 : log'[k] = log[k]
    BY <1>1, <1>2
  <2>. QED BY <2>1, LastInSame
<1>. QED BY <1>1, <1>2, <1>3, GattAssumption

LEMMA SendStep == ASSUME GattInv, NEW c \in Calls, Send(c) PROVE GattInv'
<1>. USE DEF GattInv
<1>1. /\ log' \in Seq(Calls) /\ Len(log') = Len(log) + 1 /\ Len(log') <= MaxCalls
      /\ \A k \in 1..Len(log) : log'[k] = log[k]
      /\ \A n \in 1..Len(log) + 1 : \A S : LastIn(log', n, S) = LastIn(log, n, S)
      /\ handled \in Nat /\ handled <= Len(log) /\ Len(log) \in Nat
      /\ UNCHANGED <<handled, loop, Value, Notifying, wifi_ssid_buffer, answers, signals, scans>>
  BY SendKeeps
<1>2. \A k \in DOMAIN answers : answers[k].id \in 1..handled
  BY DEF TypeOK, Answered
<1>3. ASSUME NEW n \in 1..handled + 1, NEW S
      PROVE  /\ LastBefore(n, S)' = LastBefore(n, S)
             /\ LastBefore(n, S) \in 0..handled
  BY <1>1, LastInRange DEF LastBefore
<1>4. \A k \in 1..handled : log'[k] = log[k]
  BY <1>1
<1>5. \A n \in 1..handled + 1 : LastScan(n)' = LastScan(n) /\ (LastSwitchOn(n)' <=> LastSwitchOn(n))
  <2>. SUFFICES ASSUME NEW n \in 1..handled + 1
                PROVE  LastScan(n)' = LastScan(n) /\ (LastSwitchOn(n)' <=> LastSwitchOn(n))
    OBVIOUS
  <2>1. LastScan(n)' = LastScan(n)
    BY <1>1, <1>3 DEF LastScan
  <2>2. LET s == LastBefore(n, StartStop) IN s # 0 => log'[s].op = log[s].op
    BY <1>1, <1>3, <1>4
  <2>3. LastBefore(n, StartStop)' = LastBefore(n, StartStop)
    BY <1>3
  <2>4. LastSwitchOn(n)' <=> LastSwitchOn(n)
    BY <2>2, <2>3 DEF LastSwitchOn
  <2>. QED BY <2>1, <2>4
<1>6. TypeOK'
  <2>1. log' \in Seq(Calls) /\ Len(log') <= MaxCalls /\ handled' \in 0..Len(log')
    BY <1>1
  <2>. QED BY <1>1, <2>1, Zenon DEF TypeOK, Answered
<1>7. Lists' /\ SignalsKnown' /\ (Stage' /\ AnswersKnown')
  <2>1. Lists' /\ SignalsKnown'
    BY <1>1 DEF Lists, SignalsKnown
  <2>2. Stage'
    BY <1>1, <1>4 DEF Stage
  <2>3. AnswersKnown'
    BY <1>1, <1>2, <1>4 DEF AnswersKnown, Answered
  <2>. QED BY <2>1, <2>2, <2>3
<1>8. BufferIsLast' /\ NotifyingIsLast'
  <2>1. handled + 1 \in 1..handled + 1
    BY <1>1
  <2>2. BufferIsLast'
    BY <1>1, <1>5, <2>1 DEF BufferIsLast
  <2>3. NotifyingIsLast'
    BY <1>1, <1>5, <2>1 DEF NotifyingIsLast
  <2>. QED BY <2>2, <2>3
<1>9. ListsLatest'
  <2>. SUFFICES ASSUME NEW k \in DOMAIN answers, log'[answers[k].id].op = "ReadValue",
                       log'[answers[k].id].char \in {2, 12}
                PROVE  answers[k].content = Listed(LastScan(answers[k].id)'.names)
    BY <1>1 DEF ListsLatest
  <2>1. answers[k].id \in 1..handled /\ answers[k].id \in 1..handled + 1
    BY <1>1, <1>2
  <2>2. LastScan(answers[k].id)' = LastScan(answers[k].id)
    BY <1>1, <1>5, <2>1
  <2>. QED BY <1>4, <2>1, <2>2 DEF ListsLatest
<1>10. ScansSignalled'
  <2>. SUFFICES ASSUME NEW n \in 1..handled, log'[n] \in ScanWrite, n \notin Busy
                PROVE  Signalled(n) <=> LastSwitchOn(n)'
    BY <1>1 DEF ScansSignalled, Signalled, Busy
  <2>1. n \in 1..handled + 1
    BY <1>1
  <2>. QED BY <1>4, <1>5, <2>1 DEF ScansSignalled
<1>11. ValuesApart'
  <2>. SUFFICES ASSUME NEW c1 \in Chars,
                       loop = "stuck" => LastBefore(handled + 1, Accesses(c1))' # handled
                PROVE  ValueIs(c1, LastBefore(handled + 1, Accesses(c1)))'
    BY <1>1 DEF ValuesApart
  <2>. DEFINE m == LastBefore(handled + 1, Accesses(c1))
  <2>1. m \in 0..handled /\ m' = m
    BY <1>1, <1>3
  <2>2. m # 0 => log'[m] = log[m]
    BY <1>1, <1>4, <2>1
  <2>3. ValueIs(c1, m)
    BY <2>1 DEF ValuesApart
  <2>. HIDE DEF m
  <2>4. ValueIs(c1, m)'
    BY <1>1, <2>1, <2>2, <2>3 DEF ValueIs
  <2>. QED BY <2>4 DEF m
<1>. QED BY <1>6, <1>7, <1>8, <1>9, <1>10, <1>11

-----------------------------------------------------------------------------
(* A scan ends.                                                             *)

LEMMA EndScanStep ==
  ASSUME GattInv, NEW names \in Networks, NEW cut \in BOOLEAN, NEW positive \in BOOLEAN,
         EndScan(names, cut, positive)
  PROVE  GattInv'
<1>. USE DEF GattInv
<1>1. /\ loop = "scan" /\ loop' = "idle"
      /\ wifi_ssid_buffer' = Buffer(names, cut)
      /\ scans' = [scans EXCEPT ![handled] = Buffer(names, cut)]
      /\ UNCHANGED <<log, handled, Value, Notifying, answers>>
  BY DEF EndScan
<1>2. /\ log \in Seq(Calls) /\ Len(log) \in Nat /\ Len(log) <= MaxCalls
      /\ handled \in 1..Len(log) /\ handled \in 1..MaxCalls
      /\ scans \in [1..MaxCalls -> [names : Networks, cut : BOOLEAN]]
      /\ \A k \in DOMAIN answers : answers[k].id \in 1..handled
      /\ \A k \in DOMAIN signals : signals[k].id \in 1..handled
  BY <1>1, GattAssumption DEF TypeOK, Stage, Answered
<1>3. log[handled].op = "WriteValue" /\ log[handled].char = 2 /\ log[handled] \in Calls
  BY <1>1, <1>2 DEF Stage
<1>4. 2 \in Chars
  BY <1>3, CallKinds
<1>5. \A S : LastBefore(handled + 1, S) = IF log[handled] \in S THEN handled ELSE LastBefore(handled, S)
  BY <1>2, LastInNext DEF LastBefore
<1>6. /\ LastBefore(handled + 1, ScanWrite) = handled
      /\ LastBefore(handled + 1, StartStop) = LastBefore(handled, StartStop)
  BY <1>3, <1>5, CallIs DEF ScanWrite, StartStop
<1>7. \A n \in 1..handled : \A S : LastBefore(n, S) \in 0..n - 1
  BY <1>2, LastInRange DEF LastBefore
<1>8. \A n \in 1..handled : LastScan(n)' = LastScan(n)
  <2>. SUFFICES ASSUME NEW n \in 1..handled PROVE LastScan(n)' = LastScan(n)
    OBVIOUS
  <2>. DEFINE w == LastIn(log, n, ScanWrite)
  <2>1. w \in 0..n - 1
    BY <1>7 DEF LastBefore
  <2>2. w # 0 => scans'[w] = scans[w]
    BY <1>1, <1>2, <2>1
  <2>3. LastScan(n)' = IF w = 0 THEN Buffer(<<>>, FALSE) ELSE scans'[w]
    BY <1>1 DEF LastScan, LastBefore
  <2>. HIDE DEF w
  <2>4. LastScan(n) = IF w = 0 THEN Buffer(<<>>, FALSE) ELSE scans[w]
    BY DEF LastScan, LastBefore, w
  <2>. QED BY <2>2, <2>3, <2>4
<1>9. /\ LastScan(handled + 1)' = Buffer(names, cut)
      /\ \A n : LastSwitchOn(n)' <=> LastSwitchOn(n)
  <2>1. \A n, S : LastBefore(n, S)' = LastBefore(n, S)
    BY <1>1 DEF LastBefore
  <2>2. LastIn(log, handled + 1, ScanWrite) = handled
    BY <1>6 DEF LastBefore
  <2>3. scans'[handled] = Buffer(names, cut) /\ handled # 0
    BY <1>1, <1>2
  <2>4. LastScan(handled + 1)' = Buffer(names, cut)
    BY <1>1, <2>2, <2>3 DEF LastScan, LastBefore
  <2>. QED BY <1>1, <2>1, <2>4 DEF LastSwitchOn
<1>10. \/ ~Notifying[2] /\ signals' = signals
       \/ Notifying[2] /\ \E x : signals' = Append(signals, [id |-> handled, value |-> x])
  BY DEF EndScan, gatt_notify_callback
<1>11. /\ IsSeq(signals')
       /\ \A n \in 1..handled - 1 : Signalled(n)' <=> Signalled(n)
       /\ Signalled(handled)' <=> Notifying[2]
       /\ \A k \in DOMAIN signals' : signals'[k].id \in 1..handled
  <2>1. ~Signalled(handled)
    BY <1>1 DEF SignalsKnown, Signalled
  <2>2. CASE ~Notifying[2] /\ signals' = signals
    BY <1>1, <1>2, <2>1, <2>2 DEF Signalled, Lists
  <2>3. CASE Notifying[2] /\ \E x : signals' = Append(signals, [id |-> handled, value |-> x])
    <3>1. PICK x : signals' = Append(signals, [id |-> handled, value |-> x])
      BY <2>3
    <3>2. /\ IsSeq(signals') /\ Len(signals) \in Nat
          /\ DOMAIN signals = 1..Len(signals) /\ DOMAIN signals' = 1..Len(signals) + 1
          /\ \A k \in 1..Len(signals) : signals'[k] = signals[k]
          /\ signals'[Len(signals) + 1] = [id |-> handled, value |-> x]
      BY <3>1, AppendIs DEF Lists
    <3>3. signals'[Len(signals) + 1].id = handled /\ Len(signals) + 1 \in DOMAIN signals'
      BY <3>2
    <3>4. \A k \in DOMAIN signals' : k \in DOMAIN signals \/ k = Len(signals) + 1
      BY <3>2
    <3>5. \A k \in DOMAIN signals : k \in DOMAIN signals' /\ signals'[k] = signals[k]
      BY <3>2
    <3>6. \A n \in 1..handled - 1 : n # handled
      BY <1>2
    <3>7. \A n \in 1..handled - 1 : Signalled(n)' <=> Signalled(n)
      BY <3>3, <3>4, <3>5, <3>6 DEF Signalled
    <3>8. Signalled(handled)'
      BY <1>1, <3>3 DEF Signalled
    <3>9. \A k \in DOMAIN signals' : signals'[k].id \in 1..handled
      BY <1>2, <3>3, <3>4, <3>5
    <3>. QED BY <2>3, <3>2, <3>7, <3>8, <3>9
  <2>. QED BY <1>10, <2>2, <2>3
<1>12. TypeOK'
  <2>1. wifi_ssid_buffer' \in [names : Networks, cut : BOOLEAN]
    BY <1>1 DEF Buffer
  <2>2. scans' \in [1..MaxCalls -> [names : Networks, cut : BOOLEAN]]
    BY <1>1, <1>2 DEF Buffer
  <2>3. Answered' = Answered
    BY <1>1 DEF Answered
  <2>. QED BY <1>1, <1>11, <2>1, <2>2, <2>3, Zenon DEF TypeOK
<1>13. Lists' /\ Stage' /\ SignalsKnown' /\ AnswersKnown'
  BY <1>1, <1>11 DEF Lists, Stage, SignalsKnown, AnswersKnown, Answered
<1>14. BufferIsLast'
  BY <1>1, <1>9 DEF BufferIsLast
<1>15. NotifyingIsLast'
  BY <1>1, <1>9, Zenon DEF NotifyingIsLast
<1>16. ListsLatest'
  <2>. SUFFICES ASSUME NEW k \in DOMAIN answers, log[answers[k].id].op = "ReadValue",
                       log[answers[k].id].char \in {2, 12}
                PROVE  answers[k].content = Listed(LastScan(answers[k].id)'.names)
    BY <1>1 DEF ListsLatest
  <2>1. answers[k].id \in 1..handled
    BY <1>2
  <2>2. LastScan(answers[k].id)' = LastScan(answers[k].id)
    BY <1>1, <1>8, <2>1
  <2>. QED BY <2>2 DEF ListsLatest
<1>17. ScansSignalled'
  <2>. SUFFICES ASSUME NEW n \in 1..handled, log[n] \in ScanWrite
                PROVE  Signalled(n)' <=> LastSwitchOn(n)'
    BY <1>1 DEF ScansSignalled
  <2>1. CASE n = handled
    <3>1. LastSwitchOn(handled + 1) <=> LastSwitchOn(handled)
      BY <1>6 DEF LastSwitchOn
    <3>2. Notifying[2] <=> LastSwitchOn(handled + 1)
      BY <1>4, Zenon DEF NotifyingIsLast
    <3>3. Signalled(n)' <=> Signalled(handled)'
      BY <1>1, <2>1
    <3>4. LastSwitchOn(n)' <=> LastSwitchOn(handled)
      BY <1>9, <2>1
    <3>. QED BY <1>11, <3>1, <3>2, <3>3, <3>4, Zenon
  <2>2. CASE n # handled
    <3>1. n \in 1..handled - 1 /\ n \notin Busy
      BY <1>1, <1>2, <2>2 DEF Busy
    <3>2. Signalled(n) <=> LastSwitchOn(n)
      BY <3>1 DEF ScansSignalled
    <3>. QED BY <1>9, <1>11, <3>1, <3>2, Zenon
  <2>. QED BY <2>1, <2>2
<1>18. ValuesApart'
  <2>1. \A c \in Chars : \A n : ValueIs(c, n)' <=> ValueIs(c, n)
    BY <1>1 DEF ValueIs
  <2>2. \A c : LastBefore(handled + 1, Accesses(c))' = LastBefore(handled + 1, Accesses(c))
    BY <1>1 DEF LastBefore
  <2>. QED BY <1>1, <2>1, <2>2 DEF ValuesApart
<1>. QED BY <1>12, <1>13, <1>14, <1>15, <1>16, <1>17, <1>18

-----------------------------------------------------------------------------
(* The main loop takes a call.                                              *)

\* What a reply adds to answers.
LEMMA Replied ==
  ASSUME Lists, NEW n, NEW x, answers' = Append(answers, [id |-> n, content |-> x])
  PROVE  /\ IsSeq(answers')
         /\ \A k \in DOMAIN answers : k \in DOMAIN answers' /\ answers'[k] = answers[k]
         /\ \E last \in DOMAIN answers' :
              /\ answers'[last].id = n /\ answers'[last].content = x
              /\ \A k \in DOMAIN answers' : k \in DOMAIN answers \/ k = last
<1>1. /\ IsSeq(answers') /\ Len(answers) \in Nat
      /\ DOMAIN answers = 1..Len(answers) /\ DOMAIN answers' = 1..Len(answers) + 1
      /\ \A k \in 1..Len(answers) : answers'[k] = answers[k]
      /\ answers'[Len(answers) + 1] = [id |-> n, content |-> x]
  BY AppendIs DEF Lists
<1>2. Len(answers) + 1 \in DOMAIN answers'
  BY <1>1
<1>3. \A k \in DOMAIN answers' : k \in DOMAIN answers \/ k = Len(answers) + 1
  BY <1>1
<1>. QED BY <1>1, <1>2, <1>3

\* What was replied before stays, and another reply is to the call taken.
LEMMA TookKeeps ==
  ASSUME GattInv, Took, Asked \/ Read \/ Hung \/ Wrote \/ Switched
  PROVE  /\ IsSeq(answers')
         /\ \A k \in DOMAIN answers : k \in DOMAIN answers' /\ answers'[k] = answers[k]
         /\ \/ answers' = answers
            \/ \E last \in DOMAIN answers' :
                 /\ answers'[last].id = handled + 1
                 /\ \A k \in DOMAIN answers' : k \in DOMAIN answers \/ k = last
                 /\ Asked \/ Read
<1>1. CASE answers' = answers
  BY <1>1 DEF GattInv, Lists
<1>2. ASSUME NEW x, answers' = Append(answers, [id |-> handled + 1, content |-> x]), Asked \/ Read
      PROVE  /\ IsSeq(answers')
             /\ \A k \in DOMAIN answers : k \in DOMAIN answers' /\ answers'[k] = answers[k]
             /\ \E last \in DOMAIN answers' :
                  /\ answers'[last].id = handled + 1
                  /\ \A k \in DOMAIN answers' : k \in DOMAIN answers \/ k = last
  <2>1. Lists
    BY DEF GattInv
  <2>2. /\ IsSeq(answers')
        /\ \A k \in DOMAIN answers : k \in DOMAIN answers' /\ answers'[k] = answers[k]
        /\ \E last \in DOMAIN answers' :
             /\ answers'[last].id = handled + 1 /\ answers'[last].content = x
             /\ \A k \in DOMAIN answers' : k \in DOMAIN answers \/ k = last
    BY <1>2, <2>1, Replied
  <2>. QED BY <2>2
<1>3. CASE Asked \/ Read
  <2>1. PICK x : answers' = Append(answers, [id |-> handled + 1, content |-> x])
    BY <1>3 DEF Asked, Read
  <2>. QED BY <1>2, <1>3, <2>1, Zenon
<1>. QED BY <1>1, <1>3 DEF Hung, Wrote, Switched

\* The call taken, the n-th, and what is last before the one after it.
LEMMA TookIs ==
  ASSUME TypeOK, Took
  PROVE  /\ handled \in Nat /\ handled + 1 \in 1..Len(log) /\ handled + 1 \in 1..MaxCalls
         /\ Len(log) \in Nat /\ Now \in Calls
         /\ handled' = handled + 1 /\ loop = "idle" /\ UNCHANGED <<log, scans, signals>>
         /\ \A S : LastIn(log, handled' + 1, S)
                   = IF Now \in S THEN handled + 1 ELSE LastIn(log, handled + 1, S)
         /\ \A S : LastIn(log, handled + 1, S) \in 0..handled
<1>1. /\ handled \in Nat /\ handled + 1 \in 1..Len(log) /\ Len(log) \in Nat
      /\ Len(log) <= MaxCalls /\ log \in Seq(Calls)
      /\ handled' = handled + 1 /\ loop = "idle" /\ UNCHANGED <<log, scans, signals>>
  BY DEF TypeOK, Took
<1>2. \A S : /\ LastIn(log, handled + 1 + 1, S)
                 = IF log[handled + 1] \in S THEN handled + 1 ELSE LastIn(log, handled + 1, S)
             /\ LastIn(log, handled + 1, S) \in 0..handled
  <2>. SUFFICES ASSUME NEW S
                PROVE  /\ LastIn(log, handled + 1 + 1, S)
                          = IF log[handled + 1] \in S THEN handled + 1 ELSE LastIn(log, handled + 1, S)
                       /\ LastIn(log, handled + 1, S) \in 0..handled
    OBVIOUS
  <2>. DEFINE n == handled + 1
  <2>1. n \in Nat \ {0} /\ n - 1 = handled
    BY <1>1
  <2>. HIDE DEF n
  <2>2. LastIn(log, n + 1, S) = IF log[n] \in S THEN n ELSE LastIn(log, n, S)
    BY <2>1, LastInNext
  <2>3. LastIn(log, n, S) \in 0..n - 1
    BY <2>1, LastInRange
  <2>. QED BY <2>1, <2>2, <2>3 DEF n
<1>. QED BY <1>1, <1>2, GattAssumption DEF Now

LEMMA TakeStep ==
  ASSUME GattInv, Took, Asked \/ Read \/ Hung \/ Wrote \/ Switched
  PROVE  GattInv'
<1>. USE DEF GattInv
<1>1. /\ handled \in Nat /\ handled + 1 \in 1..Len(log) /\ handled + 1 \in 1..MaxCalls
      /\ Len(log) \in Nat /\ Now \in Calls
      /\ handled' = handled + 1 /\ loop = "idle" /\ UNCHANGED <<log, scans, signals>>
      /\ \A S : LastIn(log, handled' + 1, S)
                = IF Now \in S THEN handled + 1 ELSE LastIn(log, handled + 1, S)
      /\ \A S : LastIn(log, handled + 1, S) \in 0..handled
  BY TookIs
<1>2. /\ IsSeq(answers')
      /\ \A k \in DOMAIN answers : k \in DOMAIN answers' /\ answers'[k] = answers[k]
      /\ \/ answers' = answers
         \/ \E last \in DOMAIN answers' :
              /\ answers'[last].id = handled + 1
              /\ \A k \in DOMAIN answers' : k \in DOMAIN answers \/ k = last
              /\ Asked \/ Read
  BY TookKeeps
<1>3. /\ \A k \in DOMAIN answers : answers[k].id \in 1..handled
      /\ \A k \in DOMAIN signals : signals[k].id \in 1..handled
      /\ DOMAIN Value = Chars /\ Notifying \in [Chars -> BOOLEAN]
      /\ wifi_ssid_buffer \in [names : Networks, cut : BOOLEAN]
  BY DEF TypeOK, Answered
<1>4. \A n : LastScan(n)' = LastScan(n)
  BY <1>1 DEF LastScan, LastBefore
<1>5. \A n : LastSwitchOn(n)' <=> LastSwitchOn(n)
  BY <1>1 DEF LastSwitchOn, LastBefore
<1>6. \A O, C : Now \in [op : O, char : C] <=> Now.op \in O /\ Now.char \in C
  BY <1>1, CallIs
<1>7. /\ Now = log[handled']
      /\ Now.op \in {"ReadValue", "WriteValue", "StartNotify", "StopNotify", "Get"} => Now.char \in Chars
      /\ Now = [op |-> "WriteValue", char |-> 2] <=> Now.op = "WriteValue" /\ Now.char = 2
  BY <1>1, CallKinds DEF Now
<1>8. TypeOK'
  <2>1. log' \in Seq(Calls) /\ Len(log') <= MaxCalls /\ handled' \in 0..Len(log')
    BY <1>1 DEF TypeOK
  <2>2. loop' \in {"idle", "scan", "stuck"}
    BY <1>1 DEF Asked, Read, Hung, Wrote, Switched
  <2>3. DOMAIN Value' = Chars
    BY <1>3 DEF Asked, Read, Hung, Wrote, Switched
  <2>4. Notifying' \in [Chars -> BOOLEAN]
    <3>1. CASE Switched
      BY <1>3, <3>1, Zenon DEF Switched
    <3>. QED BY <1>3, <3>1 DEF Asked, Read, Hung, Wrote
  <2>5. wifi_ssid_buffer' \in [names : Networks, cut : BOOLEAN]
    <3>1. Buffer(<<>>, FALSE) \in [names : Networks, cut : BOOLEAN]
      BY GattAssumption DEF Buffer
    <3>2. wifi_ssid_buffer' \in {wifi_ssid_buffer, Buffer(<<>>, FALSE)}
      BY DEF Asked, Read, Hung, Wrote, Switched
    <3>. QED BY <1>3, <3>1, <3>2
  <2>6. \A k \in DOMAIN answers' : answers'[k].id \in 1..handled'
    BY <1>1, <1>2, <1>3
  <2>7. Answered' \subseteq 1..handled'
    BY <2>6 DEF Answered
  <2>8. \A n \in DOMAIN signals' : signals'[n].id \in 1..handled'
    BY <1>1, <1>3
  <2>9. scans' \in [1..MaxCalls -> [names : Networks, cut : BOOLEAN]]
    BY <1>1 DEF TypeOK
  <2>. QED BY <2>1, <2>2, <2>3, <2>4, <2>5, <2>7, <2>8, <2>9, Zenon DEF TypeOK
<1>9. Lists' /\ SignalsKnown'
  BY <1>1, <1>2, <1>3 DEF Lists, SignalsKnown
<1>10. Stage'
  <2>1. loop' = "scan" => Now.op = "WriteValue" /\ Now.char = 2
    BY <1>1 DEF Asked, Read, Hung, Wrote, Switched
  <2>2. loop' = "stuck" => Now.op = "ReadValue"
    BY <1>1 DEF Asked, Read, Hung, Wrote, Switched
  <2>. QED BY <1>1, <1>7, <2>1, <2>2 DEF Stage
<1>11. AnswersKnown'
  <2>1. Asked \/ Read => loop' = "idle" /\ Now.op \in {"ReadValue", "Get", "GetManagedObjects"}
    BY <1>1 DEF Asked, Read
  <2>2. \A k \in DOMAIN answers' : log'[answers'[k].id].op \in {"ReadValue", "Get", "GetManagedObjects"}
    BY <1>1, <1>2, <1>7, <2>1 DEF AnswersKnown
  <2>3. ASSUME NEW j \in DOMAIN answers', NEW k \in DOMAIN answers', answers'[j].id = answers'[k].id
        PROVE  j = k
    <3>1. \A i \in DOMAIN answers : answers[i].id # handled + 1
      BY <1>1, <1>3
    <3>. QED BY <1>2, <2>3, <3>1 DEF AnswersKnown
  <2>4. loop' # "idle" => handled' \notin Answered'
    <3>1. loop' # "idle" => answers' = answers
      BY <1>2, <2>1
    <3>2. handled + 1 \notin Answered
      BY <1>1, <1>3 DEF Answered
    <3>. QED BY <1>1, <3>1, <3>2 DEF Answered
  <2>. QED BY <2>2, <2>3, <2>4 DEF AnswersKnown
<1>12. BufferIsLast'
  <2>. SUFFICES ASSUME loop' # "scan" PROVE wifi_ssid_buffer' = LastScan(handled + 2)
    BY <1>1, <1>4 DEF BufferIsLast
  <2>1. wifi_ssid_buffer' = wifi_ssid_buffer /\ ~(Now.op = "WriteValue" /\ Now.char = 2)
    BY <1>1 DEF Asked, Read, Hung, Wrote, Switched
  <2>2. Now \notin ScanWrite
    BY <1>6, <2>1 DEF ScanWrite
  <2>3. LastBefore(handled + 2, ScanWrite) = LastBefore(handled + 1, ScanWrite)
    <3>1. handled' + 1 = handled + 2
      BY <1>1
    <3>. QED BY <1>1, <2>2, <3>1 DEF LastBefore
  <2>4. LastScan(handled + 2) = LastScan(handled + 1)
    BY <2>3 DEF LastScan
  <2>. QED BY <1>1, <2>1, <2>4 DEF BufferIsLast
<1>13. NotifyingIsLast'
  <2>. SUFFICES ASSUME 2 \in Chars PROVE Notifying'[2] <=> LastSwitchOn(handled + 2)
    BY <1>1, <1>5 DEF NotifyingIsLast
  <2>0. handled' + 1 = handled + 2
    BY <1>1
  <2>1. CASE Switched
    <3>1. Now \in StartStop
      BY <1>6, <2>1 DEF Switched, StartStop
    <3>2. LastBefore(handled + 2, StartStop) = handled + 1 /\ handled + 1 # 0
      BY <1>1, <2>0, <3>1 DEF LastBefore
    <3>3. LastSwitchOn(handled + 2) <=> Now.op = "StartNotify"
      BY <3>2 DEF LastSwitchOn, Now
    <3>4. Notifying'[2] <=> Now.op = "StartNotify"
      BY <1>3, <2>1, Zenon DEF Switched
    <3>. QED BY <3>3, <3>4, Zenon
  <2>2. CASE Asked \/ Read \/ Hung \/ Wrote
    <3>1. Now.op \notin {"StartNotify", "StopNotify"} /\ Notifying' = Notifying
      BY <2>2 DEF Asked, Read, Hung, Wrote
    <3>2. Now \notin StartStop
      BY <1>6, <3>1 DEF StartStop
    <3>3. LastBefore(handled + 2, StartStop) = LastBefore(handled + 1, StartStop)
      BY <1>1, <2>0, <3>2 DEF LastBefore
    <3>4. LastSwitchOn(handled + 2) <=> LastSwitchOn(handled + 1)
      BY <3>3 DEF LastSwitchOn
    <3>. QED BY <3>1, <3>4, Zenon DEF NotifyingIsLast
  <2>. QED BY <2>1, <2>2
<1>14. ListsLatest'
  <2>. SUFFICES ASSUME NEW k \in DOMAIN answers', log[answers'[k].id].op = "ReadValue",
                       log[answers'[k].id].char \in {2, 12}
                PROVE  answers'[k].content = Listed(LastScan(answers'[k].id).names)
    BY <1>1, <1>4 DEF ListsLatest
  <2>1. CASE k \in DOMAIN answers
    BY <1>2, <2>1 DEF ListsLatest
  <2>2. CASE k \notin DOMAIN answers
    <3>1. answers'[k].id = handled + 1 /\ (Asked \/ Read)
      BY <1>2, <2>2
    <3>2. Now.op = "ReadValue" /\ Now.char \in {2, 12}
      BY <3>1 DEF Now
    <3>3. PICK x : /\ answers' = Append(answers, [id |-> handled + 1, content |-> x])
                   /\ x = Listed(wifi_ssid_buffer.names)
      BY <3>1, <3>2 DEF Asked, Read
    <3>4. Lists
      OBVIOUS
    <3>5. \E last \in DOMAIN answers' :
            /\ answers'[last].content = x
            /\ \A j \in DOMAIN answers' : j \in DOMAIN answers \/ j = last
      BY <3>3, <3>4, Replied
    <3>6. answers'[k].content = Listed(wifi_ssid_buffer.names)
      BY <2>2, <3>3, <3>5
    <3>7. wifi_ssid_buffer = LastScan(handled + 1)
      BY <1>1 DEF BufferIsLast
    <3>. QED BY <3>1, <3>6, <3>7
  <2>. QED BY <2>1, <2>2
<1>15. ScansSignalled'
  <2>. SUFFICES ASSUME NEW n \in 1..handled + 1, log[n] \in ScanWrite, n \notin Busy'
                PROVE  Signalled(n) <=> LastSwitchOn(n)
    BY <1>1, <1>5 DEF ScansSignalled, Signalled
  <2>1. n # handled + 1
    <3>1. CASE n = handled + 1
      <4>1. Now.op = "WriteValue" /\ Now.char = 2
        BY <1>6, <3>1 DEF Now, ScanWrite
      <4>2. loop' = "scan"
        BY <4>1 DEF Asked, Read, Hung, Wrote, Switched
      <4>. QED BY <1>1, <3>1, <4>2 DEF Busy
    <3>. QED BY <3>1
  <2>2. n \in 1..handled /\ n \notin Busy
    BY <1>1, <2>1 DEF Busy
  <2>. QED BY <2>2 DEF ScansSignalled
<1>16. ValuesApart'
  <2>. SUFFICES ASSUME NEW c \in Chars, NEW m, m = LastIn(log, handled' + 1, Accesses(c)),
                       loop' = "stuck" => m # handled + 1
                PROVE  ValueIs(c, m)'
    BY <1>1 DEF ValuesApart, LastBefore
  <2>1. CASE Now \notin Accesses(c)
    <3>1. m \in 0..handled /\ m = LastIn(log, handled + 1, Accesses(c))
      BY <1>1, <2>1
    <3>2. ValueIs(c, m)
      BY <1>1, <3>1 DEF ValuesApart, LastBefore
    <3>3. Value'[c] = Value[c]
      <4>1. ~(Now.op \in {"ReadValue", "WriteValue"} /\ Now.char = c)
        BY <1>6, <2>1 DEF Accesses
      <4>. QED BY <1>3, <4>1 DEF Asked, Read, Hung, Wrote, Switched
    <3>. QED BY <1>1, <1>2, <3>2, <3>3 DEF ValueIs
  <2>2. CASE Now \in Accesses(c)
    <3>1. m = handled + 1 /\ handled + 1 # 0
      BY <1>1, <2>2
    <3>2. Now.op \in {"ReadValue", "WriteValue"} /\ Now.char = c
      BY <1>6, <2>2 DEF Accesses
    <3>3. loop' # "stuck"
      BY <3>1
    <3>4. CASE Now.op = "ReadValue"
      <4>1. PICK x : /\ answers' = Append(answers, [id |-> handled + 1, content |-> x])
                     /\ Value' = [Value EXCEPT ![c] = x]
        BY <3>2, <3>3, <3>4 DEF Asked, Read, Hung, Wrote, Switched
      <4>2. Value'[c] = x
        BY <1>3, <4>1
      <4>3. Lists
        OBVIOUS
      <4>4. \E k \in DOMAIN answers' : answers'[k].id = handled + 1 /\ answers'[k].content = x
        BY <4>1, <4>3, Replied
      <4>. QED BY <1>1, <3>1, <3>4, <4>2, <4>4 DEF ValueIs, Now
    <3>5. CASE Now.op = "WriteValue"
      <4>1. Value'[c] = Written(handled + 1)
        BY <1>3, <3>2, <3>5 DEF Asked, Read, Hung, Wrote, Switched
      <4>. QED BY <1>1, <3>1, <3>5, <4>1 DEF ValueIs, Now
    <3>. QED BY <3>2, <3>4, <3>5
  <2>. QED BY <2>1, <2>2
<1>. QED BY <1>8, <1>9, <1>10, <1>11, <1>12, <1>13, <1>14, <1>15, <1>16

-----------------------------------------------------------------------------
(* The theorems.                                                            *)

LEMMA GattInvStep == GattInv /\ [GattNext]_vars => GattInv'
<1>. SUFFICES ASSUME GattInv, [GattNext]_vars PROVE GattInv'
  OBVIOUS
<1>1. ASSUME NEW c \in Calls, Send(c) PROVE GattInv'
  BY <1>1, SendStep
<1>2. CASE Handle
  <2>1. TypeOK
    BY DEF GattInv
  <2>2. Took /\ (Asked \/ Read \/ Hung \/ Wrote \/ Switched)
    BY <1>2, <2>1, HandleKinds
  <2>. QED BY <2>2, TakeStep
<1>3. CASE ScanEnds
  <2>1. PICK names \in Networks, cut \in BOOLEAN, positive \in BOOLEAN : EndScan(names, cut, positive)
    BY <1>3, Zenon DEF ScanEnds
  <2>. QED BY <2>1, EndScanStep
<1>4. CASE UNCHANGED vars
  <2>1. /\ UNCHANGED <<log, handled, loop, Value, Notifying>>
        /\ UNCHANGED <<wifi_ssid_buffer, answers, signals, scans>>
    BY <1>4 DEF vars
  <2>2. \A n : LastScan(n)' = LastScan(n) /\ (LastSwitchOn(n)' <=> LastSwitchOn(n))
    BY <2>1 DEF LastScan, LastSwitchOn, LastBefore
  <2>3. TypeOK'
    BY <2>1, Zenon DEF GattInv, TypeOK, Answered
  <2>4. Lists' /\ Stage' /\ AnswersKnown' /\ SignalsKnown'
    BY <2>1 DEF GattInv, Lists, Stage, AnswersKnown, Answered, SignalsKnown
  <2>5. BufferIsLast' /\ NotifyingIsLast' /\ ListsLatest'
    BY <2>1, <2>2 DEF GattInv, BufferIsLast, NotifyingIsLast, ListsLatest
  <2>6. ScansSignalled'
    BY <2>1, <2>2 DEF GattInv, ScansSignalled, Signalled, Busy
  <2>7. ValuesApart'
    BY <2>1 DEF GattInv, ValuesApart, ValueIs, LastBefore
  <2>. QED BY <2>3, <2>4, <2>5, <2>6, <2>7 DEF GattInv
<1>. QED BY <1>1, <1>2, <1>3, <1>4 DEF GattNext

LEMMA GattInvAlways == GattSpec => []GattInv
BY GattInvInit, GattInvStep, PTL DEF GattSpec

\* The reply to a call is the only one it got.
LEMMA AnswerToIs ==
  ASSUME AnswersKnown, NEW k \in DOMAIN answers
  PROVE  AnswerTo(answers[k].id) = answers[k].content
<1>. DEFINE n == answers[k].id
<1>1. \A j \in DOMAIN answers : answers[j].id = n => j = k
  BY DEF AnswersKnown
<1>2. (CHOOSE j \in DOMAIN answers : answers[j].id = n) = k
  BY <1>1
<1>. QED BY <1>2 DEF AnswerTo

\* The state of the GATT application keeps its types, for any characteristics,
\* networks and calls, and a reply or a signal is for a call that was taken.
THEOREM GattTypeOK == GattSpec => []TypeOK
<1>1. GattInv => TypeOK
  BY DEF GattInv
<1>. QED BY <1>1, GattInvAlways, PTL

\* A read of the networks gets those of the last scan asked for before it, whatever
\* bluez sends while scans run (char_respond.cpp:404-418, 464-466).
THEOREM GattReadsLatestScan == GattSpec => []ReadsLatestScan
<1>1. GattInv => ReadsLatestScan
  <2>. SUFFICES ASSUME GattInv, NEW n \in Answered,
                       log[n].op = "ReadValue", log[n].char \in {2, 12}
                PROVE  LET w == LastBefore(n, ScanWrite)
                       IN  AnswerTo(n) = Listed(IF w = 0 THEN <<>> ELSE scans[w].names)
    BY DEF ReadsLatestScan, ScanWrite
  <2>1. PICK k \in DOMAIN answers : answers[k].id = n
    BY DEF Answered
  <2>2. AnswerTo(n) = answers[k].content
    BY <2>1, AnswerToIs DEF GattInv
  <2>3. answers[k].content = Listed(LastScan(n).names)
    BY <2>1 DEF GattInv, ListsLatest
  <2>. QED BY <2>2, <2>3 DEF LastScan, Buffer
<1>. QED BY <1>1, GattInvAlways, PTL

\* A scan that has ended was signalled exactly if notifying was switched on by the
\* last switch before the write that asked for it (char_respond.cpp:229).
THEOREM GattNotifiedAsAsked == GattSpec => []NotifiedAsAsked
<1>1. GattInv => NotifiedAsAsked
  <2>. SUFFICES ASSUME GattInv, NEW n \in 1..handled,
                       log[n] = [op |-> "WriteValue", char |-> 2], n \notin Busy
                PROVE  Signalled(n) <=> LastSwitchOn(n)
    BY DEF NotifiedAsAsked, Signalled, LastSwitchOn, StartStop
  <2>1. log[n] \in ScanWrite
    BY DEF ScanWrite
  <2>. QED BY <2>1 DEF GattInv, ScansSignalled
<1>. QED BY <1>1, GattInvAlways, PTL

\* Each characteristic's Value is what its own last read or write left there
\* (gatt.cpp:1299-1381).
THEOREM GattValuesKeptApart == GattSpec => []ValuesKeptApart
<1>1. GattInv => ValuesKeptApart
  <2>. SUFFICES ASSUME GattInv, NEW c \in Chars, NEW n, n = LastBefore(handled + 1, Accesses(c)),
                       n \notin Busy
                PROVE  Value[c] = IF n = 0 THEN Nothing
                                  ELSE IF log[n].op = "ReadValue" THEN AnswerTo(n) ELSE Written(n)
    BY DEF ValuesKeptApart, Accesses
  <2>1. ValueIs(c, n)
    BY DEF GattInv, ValuesApart, Busy
  <2>2. CASE n # 0 /\ log[n].op = "ReadValue"
    <3>1. PICK k \in DOMAIN answers : answers[k].id = n /\ answers[k].content = Value[c]
      BY <2>1, <2>2 DEF ValueIs
    <3>2. AnswerTo(n) = answers[k].content
      BY <3>1, AnswerToIs DEF GattInv
    <3>. QED BY <2>2, <3>1, <3>2
  <2>. QED BY <2>1, <2>2 DEF ValueIs
<1>. QED BY <1>1, GattInvAlways, PTL
=============================================================================
