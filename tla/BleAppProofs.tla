---------------------------- MODULE BleAppProofs ----------------------------
(***************************************************************************)
(* Proofs about BleApp, for any number of objects and samples, any clock   *)
(* and any faults.                                                         *)
(***************************************************************************)
EXTENDS BleApp, TLAPS

-----------------------------------------------------------------------------
(* Types.                                                                   *)

\* An advertisement has been sent before the objects are registered.
Advertised == tpc \in {"objects", "application", "conn", "loop"} => advert # "none"
BleInv == TypeOK /\ Advertised

LEMMA BleInvInit == BleInit => BleInv
<1>. SUFFICES ASSUME BleInit PROVE BleInv
  OBVIOUS
<1>1. {is_init, powered, discoverable, advert_object, conn} \subseteq BOOLEAN
  BY DEF BleInit
<1>2. samples \in Seq(Sampled) /\ Len(samples) = 0
  BY DEF BleInit
<1>3. Advertised
  BY DEF BleInit, Advertised
<1>. QED BY <1>1, <1>2, <1>3, BleAssumption DEF BleInit, TypeOK, BleInv, Registration

\* LastOf keeps the last elements, in their order.
LEMMA LastOfLen ==
  ASSUME NEW S, NEW s \in Seq(S), NEW n \in Nat
  PROVE  /\ LastOf(s, n) \in Seq(S)
         /\ Len(LastOf(s, n)) \in Nat /\ Len(LastOf(s, n)) <= n
         /\ Len(LastOf(s, n)) = Len(s) \/ Len(LastOf(s, n)) = n
         /\ \A k \in 1..Len(LastOf(s, n)) :
              LastOf(s, n)[Len(LastOf(s, n)) - k + 1] = s[Len(s) - k + 1]
<1>1. CASE Len(s) <= n
  BY <1>1 DEF LastOf
<1>2. CASE Len(s) > n
  <2>. DEFINE m == Len(s) - n + 1
              t == SubSeq(s, m, Len(s))
  <2>1. m \in 1..Len(s) + 1 /\ Len(s) \in Nat /\ LastOf(s, n) = t
    BY <1>2 DEF LastOf
  <2>2. t \in Seq(S) /\ Len(t) = n
    BY <2>1, <1>2
  <2>3. \A j \in 1..n : t[j] = s[m + j - 1]
    BY <2>1, <1>2
  <2>4. \A k \in 1..n : t[n - k + 1] = s[Len(s) - k + 1]
    <3>. SUFFICES ASSUME NEW k \in 1..n PROVE t[n - k + 1] = s[Len(s) - k + 1]
      OBVIOUS
    <3>1. n - k + 1 \in 1..n /\ m + (n - k + 1) - 1 = Len(s) - k + 1
      BY <2>1
    <3>. HIDE DEF t, m
    <3>. QED BY <2>3, <3>1
  <2>. QED BY <1>2, <2>1, <2>2, <2>4
<1>. QED BY <1>1, <1>2

LEMMA LastOfShorter ==
  ASSUME NEW S, NEW s \in Seq(S), NEW n \in Nat
  PROVE  Len(LastOf(s, n)) <= Len(s)
<1>1. CASE Len(s) <= n
  BY <1>1 DEF LastOf
<1>2. CASE Len(s) > n
  BY <1>2, LastOfLen
<1>. QED BY <1>1, <1>2

LEMMA BleInvStep == BleInv /\ [BleNext]_vars => BleInv'
<1>. SUFFICES ASSUME BleInv, [BleNext]_vars PROVE BleInv'
  OBVIOUS
<1>. USE BleAssumption DEF BleInv, TypeOK, Registration, Advertised, objects
<1>1. CASE Fork \/ Open
  BY <1>1 DEF Fork, Open, adapter, server, bluez
<1>2. CASE Turn
  <2>1. elapsed' = elapsed \/ elapsed' = 0
    BY <1>2, Zenon DEF Turn, Sample
  <2>2. count' \in 0..Press
    <3>1. CASE elapsed >= 1
      <4>1. PICK val \in gpio_read : count' = Counted(val)
        BY <1>2, <3>1, Zenon DEF Turn, Sample
      <4>. QED BY <4>1 DEF Counted
    <3>2. CASE ~(elapsed >= 1)
      <4>1. count' = count
        BY <1>2, <3>2, Zenon DEF Turn
      <4>. QED BY <4>1
    <3>. QED BY <3>1, <3>2
  <2>3. samples' \in Seq(Sampled) /\ Len(samples') <= Press
    <3>1. CASE elapsed >= 1
      <4>1. PICK val \in gpio_read : samples' = LastOf(Append(samples, [val |-> val, waited |-> elapsed]), Press)
        BY <1>2, <3>1 DEF Turn, Sample
      <4>2. [val |-> val, waited |-> elapsed] \in Sampled
        BY DEF gpio_read, Sampled
      <4>3. Append(samples, [val |-> val, waited |-> elapsed]) \in Seq(Sampled)
        BY <4>2
      <4>4. Press \in Nat
        OBVIOUS
      <4>. QED BY <4>1, <4>3, <4>4, LastOfLen
    <3>2. CASE ~(elapsed >= 1)
      BY <1>2, <3>2 DEF Turn
    <3>. QED BY <3>1, <3>2
  <2>4. is_init' \in BOOLEAN /\ tpc' \in {"bus", "none", tpc} /\ (tpc' # "none" => is_init')
    BY <1>2 DEF Turn, StartIfHeld, uart_server_init
  <2>. QED BY <1>2, <2>1, <2>2, <2>3, <2>4 DEF Turn, StartIfHeld, adapter, bluez
<1>3. CASE Second \/ Button \/ Attach \/ Detach
  <2>1. CASE Second \/ Button \/ Attach
    BY <2>1 DEF Second, Button, Attach, parent, adapter, server, bluez
  <2>2. CASE Detach
    <3>1. powered' \in BOOLEAN /\ discoverable' \in BOOLEAN
      BY <2>2, Zenon DEF Detach
    <3>. QED BY <2>2, <3>1 DEF Detach, Forgotten, parent, server
  <2>. QED BY <1>3, <2>1, <2>2
<1>4. CASE SetBack
  BY <1>4 DEF SetBack, adapter, server, bluez
<1>5. CASE ThreadStep
  <2>1. CASE GetBus
    BY <2>1 DEF GetBus, parent, adapter, bluez
  <2>2. CASE adapter_power_on
    <3>1. powered' \in BOOLEAN
      BY <2>2, Zenon DEF adapter_power_on
    <3>. QED BY <2>2, <3>1 DEF adapter_power_on, Step, parent, bluez
  <2>3. CASE adapter_discoverable_enable
    <3>1. discoverable' \in BOOLEAN
      BY <2>3, Zenon DEF adapter_discoverable_enable
    <3>. QED BY <2>3, <3>1 DEF adapter_discoverable_enable, Step, parent, bluez
  <2>4. CASE PrintStates
    BY <2>4 DEF PrintStates, Step, parent, adapter, bluez
  <2>5. CASE advertising_start
    <3>1. advert_object' \in BOOLEAN
      BY <2>5, Zenon DEF advertising_start
    <3>2. /\ tpc = "advertise" /\ tpc' = "objects" /\ advert' = "sent"
          /\ UNCHANGED <<level, parent, adapter, registered, conn, app>>
      BY <2>5, Zenon DEF advertising_start, Step
    <3>. QED BY <3>1, <3>2 DEF parent, adapter
  <2>6. CASE gatt_object_register \/ ObjectsDone
    BY <2>6 DEF gatt_object_register, ObjectsDone, Step, parent, adapter, bluez
  <2>7. CASE RegisterApplication
    BY <2>7 DEF RegisterApplication, Step, parent, adapter
  <2>8. CASE SetConn
    BY <2>8 DEF SetConn, Step, parent, adapter, bluez
  <2>. QED BY <1>5, <2>1, <2>2, <2>3, <2>4, <2>5, <2>6, <2>7, <2>8 DEF ThreadStep
<1>6. CASE BluezTakes \/ Answer \/ BluezForgets
  BY <1>6 DEF BluezTakes, Taken, Answer, BluezForgets, Forgotten, parent, adapter, server
<1>7. CASE UNCHANGED vars
  BY <1>7 DEF vars, parent, adapter, server, bluez
<1>. QED BY <1>1, <1>2, <1>3, <1>4, <1>5, <1>6, <1>7 DEF BleNext

LEMMA BleInvAlways == BleSpec => []BleInv
BY BleInvInit, BleInvStep, PTL DEF BleSpec

\* Every variable keeps its type; the server thread has been started through
\* uart_server_init, and the application is registered after the advertisement
\* (main.cpp:17-70, uart_server.cpp:16-75).
THEOREM BleTypeOK == BleSpec => []TypeOK
<1>1. BleInv => TypeOK
  BY DEF BleInv
<1>. QED BY BleInvAlways, <1>1, PTL

-----------------------------------------------------------------------------
(* The server thread.                                                       *)

\* The thread is created once: is_init, set before it is, keeps any later call of
\* uart_server_init from creating another (uart_server.cpp:63-73).
THEOREM BleStartedOnce == BleSpec => StartedOnce
<1>1. BleInv /\ [BleNext]_vars => [tpc' = "bus" => tpc = "none" \/ UNCHANGED tpc]_vars
  <2>. SUFFICES ASSUME BleInv, [BleNext]_vars, tpc' = "bus" PROVE tpc = "none" \/ tpc' = tpc
    OBVIOUS
  <2>1. CASE Turn
    BY <2>1 DEF Turn, StartIfHeld, uart_server_init, BleInv, TypeOK
  <2>2. CASE ThreadStep
    BY <2>2 DEF ThreadStep, GetBus, adapter_power_on, adapter_discoverable_enable, PrintStates,
                advertising_start, gatt_object_register, ObjectsDone, RegisterApplication,
                SetConn, Step
  <2>3. CASE Fork \/ Open \/ Second \/ SetBack \/ Button \/ Attach \/ Detach
    BY <2>3 DEF Fork, Open, Second, SetBack, Button, Attach, Detach, server
  <2>4. CASE BluezTakes \/ Answer \/ BluezForgets \/ UNCHANGED vars
    BY <2>4 DEF BluezTakes, Answer, BluezForgets, vars, server
  <2>. QED BY <2>1, <2>2, <2>3, <2>4 DEF BleNext
<1>. QED BY BleInvAlways, <1>1, PTL DEF BleSpec, StartedOnce

\* The main loop is entered with the connection set, and never left.
Looping == tpc = "loop" => conn

\* bluez' questions are answered by a server that is complete (gatt.cpp:1420,
\* 1712-1715).
THEOREM BleAnsweredComplete == BleSpec => AnsweredComplete
<1>1. BleInit => Looping
  BY DEF BleInit, Looping
<1>2. Looping /\ [BleNext]_vars => Looping'
  <2>. SUFFICES ASSUME Looping, [BleNext]_vars PROVE Looping'
    OBVIOUS
  <2>. USE DEF Looping
  <2>1. CASE Turn
    BY <2>1 DEF Turn, StartIfHeld, uart_server_init
  <2>2. CASE ThreadStep
    BY <2>2 DEF ThreadStep, GetBus, adapter_power_on, adapter_discoverable_enable, PrintStates,
                advertising_start, gatt_object_register, ObjectsDone, RegisterApplication,
                SetConn, Step
  <2>3. CASE Fork \/ Open \/ Second \/ SetBack \/ Button \/ Attach \/ Detach
    BY <2>3 DEF Fork, Open, Second, SetBack, Button, Attach, Detach, server
  <2>4. CASE BluezTakes \/ Answer \/ BluezForgets \/ UNCHANGED vars
    BY <2>4 DEF BluezTakes, Answer, BluezForgets, vars, server
  <2>. QED BY <2>1, <2>2, <2>3, <2>4 DEF BleNext
<1>3. Looping /\ [BleNext]_vars =>
        [(advert' = "ok" /\ advert # "ok") \/ (app' = "ok" /\ app # "ok") => conn /\ tpc = "loop"]_vars
  <2>. SUFFICES ASSUME Looping, [BleNext]_vars,
                       (advert' = "ok" /\ advert # "ok") \/ (app' = "ok" /\ app # "ok")
                PROVE  conn /\ tpc = "loop"
    OBVIOUS
  <2>1. CASE Answer
    BY <2>1 DEF Answer, MainLoop, Looping
  <2>2. CASE ThreadStep
    BY <2>2 DEF ThreadStep, GetBus, adapter_power_on, adapter_discoverable_enable, PrintStates,
                advertising_start, gatt_object_register, ObjectsDone, RegisterApplication,
                SetConn, Step, bluez
  <2>3. CASE Fork \/ Open \/ Turn \/ Second \/ SetBack \/ Button \/ Attach \/ UNCHANGED vars
    BY <2>3 DEF Fork, Open, Turn, StartIfHeld, Second, SetBack, Button, Attach, vars, bluez
  <2>4. CASE Detach \/ BluezTakes \/ BluezForgets
    BY <2>4 DEF Detach, BluezTakes, Taken, BluezForgets, Forgotten
  <2>. QED BY <2>1, <2>2, <2>3, <2>4 DEF BleNext
<1>. QED BY <1>1, <1>2, <1>3, PTL DEF BleSpec, AnsweredComplete

-----------------------------------------------------------------------------
(* The button.                                                              *)

\* A sample is taken only when the clock has gone on.
AllWaited == \A k \in DOMAIN samples : samples[k].waited >= 1

\* count is never more than the number of samples at the end that had the button
\* held.
CountHeld ==
  /\ count <= Len(samples)
  /\ \A k \in 1..count : samples[Len(samples) - k + 1].val = 0

\* One sample more.
LEMMA SampleKeepsCountHeld ==
  ASSUME BleInv, CountHeld, AllWaited, NEW new \in Sampled, new.waited >= 1,
         count' = Counted(new.val), samples' = LastOf(Append(samples, new), Press)
  PROVE  CountHeld' /\ AllWaited'
<1>. DEFINE t == Append(samples, new)
            val == new.val
<1>1. /\ samples \in Seq(Sampled) /\ count \in 0..Press /\ Press \in Nat
  BY BleAssumption DEF BleInv, TypeOK
<1>2. /\ t \in Seq(Sampled) /\ Len(t) = Len(samples) + 1 /\ Len(samples) \in Nat
      /\ t[Len(t)] = new /\ \A j \in 1..Len(samples) : t[j] = samples[j]
  BY <1>1
<1>. HIDE DEF t
<1>3. /\ Len(samples') \in Nat /\ (Len(samples') = Len(t) \/ Len(samples') = Press)
      /\ \A k \in 1..Len(samples') : samples'[Len(samples') - k + 1] = t[Len(t) - k + 1]
  BY <1>1, <1>2, LastOfLen DEF t
<1>4. count' \in 0..Press /\ count' <= count + 1 /\ (val # 0 => count' = 0)
  BY <1>1 DEF Counted
<1>8. Len(samples') <= Len(t)
  BY <1>1, <1>2, <1>3, LastOfShorter DEF t
<1>5. count' <= Len(samples')
  BY <1>1, <1>2, <1>3, <1>4 DEF CountHeld
<1>6. ASSUME NEW k \in 1..count' PROVE samples'[Len(samples') - k + 1].val = 0
  <2>0. /\ k \in 1..Len(samples') /\ count' \in Nat /\ count \in Nat
        /\ val = 0 /\ k - 1 <= count
    BY <1>1, <1>3, <1>4, <1>5, <1>6
  <2>1. samples'[Len(samples') - k + 1] = t[Len(t) - k + 1] /\ val = 0 /\ k - 1 <= count
    BY <1>3, <2>0
  <2>2. CASE k = 1
    BY <1>2, <2>1, <2>2
  <2>3. CASE k # 1
    <3>1. k - 1 \in 1..count /\ Len(samples) - (k - 1) + 1 \in 1..Len(samples)
      BY <1>1, <1>2, <1>4, <2>1, <2>3 DEF CountHeld
    <3>2. samples[Len(samples) - (k - 1) + 1].val = 0
      BY <3>1 DEF CountHeld
    <3>3. Len(t) - k + 1 = Len(samples) - (k - 1) + 1
      BY <1>2, <1>4
    <3>. QED BY <1>2, <2>1, <3>1, <3>2, <3>3
  <2>. QED BY <2>2, <2>3
<1>7. ASSUME NEW j \in 1..Len(samples') PROVE samples'[j].waited >= 1
  <2>1. Len(samples') - j + 1 \in 1..Len(samples') /\ Len(samples') - (Len(samples') - j + 1) + 1 = j
    BY <1>3
  <2>2. samples'[j] = t[Len(t) - (Len(samples') - j + 1) + 1]
    BY <1>3, <2>1
  <2>3. Len(t) - (Len(samples') - j + 1) + 1 \in 1..Len(t)
    BY <1>1, <1>2, <1>3, <1>8, <2>1
  <2>4. \A i \in 1..Len(t) : i = Len(t) \/ i \in 1..Len(samples)
    BY <1>2
  <2>. QED BY <1>2, <2>2, <2>3, <2>4 DEF AllWaited
<1>. QED BY <1>5, <1>6, <1>7 DEF CountHeld, AllWaited

LEMMA CountHeldStep == BleInv /\ CountHeld /\ AllWaited /\ [BleNext]_vars => CountHeld' /\ AllWaited'
<1>. SUFFICES ASSUME BleInv, CountHeld, AllWaited, [BleNext]_vars PROVE CountHeld' /\ AllWaited'
  OBVIOUS
<1>1. CASE Turn /\ elapsed >= 1
  <2>1. PICK val \in gpio_read :
          count' = Counted(val) /\ samples' = LastOf(Append(samples, [val |-> val, waited |-> elapsed]), Press)
    BY <1>1 DEF Turn, Sample
  <2>2. [val |-> val, waited |-> elapsed] \in Sampled
    BY DEF gpio_read, BleInv, TypeOK, Sampled
  <2>. QED BY <1>1, <2>1, <2>2, SampleKeepsCountHeld
<1>2. CASE ~(Turn /\ elapsed >= 1)
  <2>1. UNCHANGED <<count, samples>>
    <3>1. CASE Turn
      BY <1>2, <3>1 DEF Turn
    <3>2. CASE ThreadStep
      BY <3>2 DEF ThreadStep, GetBus, adapter_power_on, adapter_discoverable_enable, PrintStates,
                  advertising_start, gatt_object_register, ObjectsDone, RegisterApplication,
                  SetConn, parent
    <3>3. CASE Fork \/ Open \/ Second \/ SetBack \/ Button \/ Attach \/ Detach
      BY <3>3 DEF Fork, Open, Second, SetBack, Button, Attach, Detach, parent
    <3>4. CASE BluezTakes \/ Answer \/ BluezForgets \/ UNCHANGED vars
      BY <3>4 DEF BluezTakes, Answer, BluezForgets, vars, parent
    <3>. QED BY <3>1, <3>2, <3>3, <3>4 DEF BleNext
  <2>. QED BY <2>1 DEF CountHeld, AllWaited
<1>. QED BY <1>1, <1>2

\* The server is started only by Press samples in a row that read the pin as held, each
\* a second or more of the clock after the one before (main.cpp:26-45).
THEOREM BleStartsWhenHeld == BleSpec => StartsWhenHeld
<1>1. BleInit => CountHeld /\ AllWaited
  BY DEF BleInit, CountHeld, AllWaited
<1>2. BleSpec => [](CountHeld /\ AllWaited)
  BY <1>1, CountHeldStep, BleInvAlways, PTL DEF BleSpec
<1>3. BleInv' /\ CountHeld' /\ AllWaited' /\ [BleNext]_vars =>
        [is_init' # is_init =>
           /\ Len(samples') = Press
           /\ \A k \in 1..Press : samples'[k].val = 0 /\ samples'[k].waited >= 1]_vars
  <2>. SUFFICES ASSUME BleInv', CountHeld', AllWaited', [BleNext]_vars, is_init' # is_init
                PROVE  /\ Len(samples') = Press
                       /\ \A k \in 1..Press : samples'[k].val = 0 /\ samples'[k].waited >= 1
    OBVIOUS
  <2>1. Turn /\ count' >= Press
    <3>1. CASE Turn
      BY <1>2, <3>1 DEF Turn, StartIfHeld
    <3>2. CASE ThreadStep
      BY <3>2 DEF ThreadStep, GetBus, adapter_power_on, adapter_discoverable_enable, PrintStates,
                  advertising_start, gatt_object_register, ObjectsDone, RegisterApplication,
                  SetConn, parent
    <3>3. CASE Fork \/ Open \/ Second \/ SetBack \/ Button \/ Attach \/ Detach
      BY <3>3 DEF Fork, Open, Second, SetBack, Button, Attach, Detach, parent
    <3>4. CASE BluezTakes \/ Answer \/ BluezForgets \/ UNCHANGED vars
      BY <3>4 DEF BluezTakes, Answer, BluezForgets, vars, parent
    <3>. QED BY <3>1, <3>2, <3>3, <3>4 DEF BleNext
  <2>2. /\ count' = Press /\ Len(samples') = Press /\ Press \in Nat
        /\ samples' \in Seq(Sampled)
    BY <2>1, BleAssumption DEF BleInv, TypeOK, CountHeld
  <2>3. ASSUME NEW j \in 1..Press PROVE samples'[j].val = 0 /\ samples'[j].waited >= 1
    <3>1. Press - j + 1 \in 1..count' /\ Len(samples') - (Press - j + 1) + 1 = j
      BY <2>2
    <3>2. j \in DOMAIN samples'
      BY <2>2
    <3>. QED BY <3>1, <3>2 DEF CountHeld, AllWaited
  <2>. QED BY <2>2, <2>3
<1>. QED BY <1>2, <1>3, BleInvAlways, PTL DEF BleSpec, StartsWhenHeld
=============================================================================
