------------------------------- MODULE BleApp ------------------------------
(***************************************************************************)
(* How the program of Template2 comes up (main.cpp, uart_server.cpp,       *)
(* adapter.cpp, advertising.cpp, gatt.cpp): the parent process polls a     *)
(* button and starts the server thread once it has been held, the child    *)
(* attaches the controller, and the server thread goes through its calls   *)
(* to bluez and its registrations to the main loop.                        *)
(*                                                                         *)
(* bluez is external: it is modelled by the calls it gets and makes.       *)
(***************************************************************************)
EXTENDS Integers, Sequences

CONSTANTS
  Objects,  \* number of objects gatt_object_register registers
  Press,    \* samples for which the button must be held
  MaxBack,  \* model bound: seconds by which the clock is set back at a time
  MaxBacks, \* model bound: how often it is
  Faults    \* what may fail: see Failure

Failure == {"fork", "gpio", "read", "clock", "thread", "bus", "object", "hci", "bluez"}

ASSUME BleAssumption ==
  /\ Objects \in Nat \ {0} /\ Press \in Nat \ {0} /\ MaxBack \in Nat /\ MaxBacks \in Nat
  /\ Faults \subseteq Failure

VARIABLES
  level,                    \* the pin: 0 while the button is held
  phase,                    \* of main: "fork", "open" of the pin; whether it succeeded
  elapsed,                  \* nowTm - lastTm, from 1 on not told apart
  backs,                    \* how often the clock was set back
  count, is_init,           \* locals of ble_task and uart_server_init
  samples,                  \* history: the last Press levels sampled, see Sample
  hci, powered, discoverable,   \* the controller, as bluez knows it
  tpc,                      \* server thread: program counter
  advert_object, registered,    \* objects it has registered
  conn,                     \* server_ctx.conn
  advert, app               \* the two registrations with bluez

parent  == <<phase, elapsed, backs, count, is_init, samples>>
Registration == {"none", "sent", "asked", "ok", "refused", "lost"}

adapter == <<hci, powered, discoverable>>
objects == <<advert_object, registered>>
server  == <<tpc, objects, conn>>
bluez   == <<advert, app>>
vars    == <<level, parent, adapter, server, bluez>>

BleInit ==
  /\ level \in {0, 1}
  /\ phase = "fork" /\ elapsed = 1 /\ backs = 0 /\ count = 0 /\ is_init = FALSE /\ samples = <<>>
  /\ hci = "absent" /\ powered = FALSE /\ discoverable = FALSE
  /\ tpc = "none" /\ advert_object = FALSE /\ registered = 0 /\ conn = FALSE
  /\ advert = "none" /\ app = "none"

-----------------------------------------------------------------------------
(* The parent: main and ble_task.                                           *)

\* The child is the one that runs btattach; if fork fails there is neither.
Fork ==
  /\ phase = "fork"
  /\ phase' \in {"open"} \cup (IF "fork" \in Faults THEN {"exited"} ELSE {})
  /\ UNCHANGED <<level, elapsed, backs, count, is_init, samples, adapter, server, bluez>>

Open ==
  /\ phase = "open"
  /\ phase' \in {"ok"} \cup (IF "gpio" \in Faults THEN {"failed"} ELSE {})
  /\ UNCHANGED <<level, elapsed, backs, count, is_init, samples, adapter, server, bluez>>

\* gpio_read: -1 for a pin that is not open; anything if the read fails.
gpio_read ==
  IF phase = "failed" THEN {-1}
  ELSE {level} \cup (IF "read" \in Faults THEN {-1, 0, 1} ELSE {})

LastOf(s, n) == IF Len(s) <= n THEN s ELSE SubSeq(s, Len(s) - n + 1, Len(s))

\* From Press on the count is not told apart.
Counted(val) == IF val # 0 THEN 0 ELSE IF count < Press THEN count + 1 ELSE count

\* Mutant: is_init is only set once the server runs.
uart_server_init_Late ==
  /\ tpc' = "bus"
  /\ is_init' = (tpc = "loop")

\* The flag is set first, and stays set if pthread_create fails.
uart_server_init ==
  IF is_init THEN UNCHANGED <<is_init, tpc>>
  ELSE /\ is_init' = TRUE
       /\ tpc' \in {"bus"} \cup (IF "thread" \in Faults THEN {"none"} ELSE {})

\* The history has how far the clock had gone on since the sample before.
Sample ==
  \E val \in gpio_read :
    /\ count' = Counted(val) /\ elapsed' = 0
    /\ samples' = LastOf(Append(samples, [val |-> val, waited |-> elapsed]), Press)

StartIfHeld ==
  /\ IF count' >= Press THEN uart_server_init ELSE UNCHANGED <<is_init, tpc>>
  /\ UNCHANGED <<level, phase, backs, adapter, objects, conn, bluez>>

\* Mutant: a sample every half second.
Turn_Always == phase \in {"ok", "failed"} /\ Sample /\ StartIfHeld

\* One turn of the loop.
Turn ==
  /\ phase \in {"ok", "failed"}
  /\ IF elapsed >= 1 THEN Sample ELSE UNCHANGED <<elapsed, count, samples>>
  /\ StartIfHeld

\* time(NULL) goes on, or is set back.
Second ==
  /\ elapsed < 1 /\ elapsed' = elapsed + 1
  /\ UNCHANGED <<level, phase, backs, count, is_init, samples, adapter, server, bluez>>
SetBack ==
  /\ "clock" \in Faults /\ backs < MaxBacks /\ backs' = backs + 1
  /\ \E n \in 1..MaxBack : elapsed' = elapsed - n
  /\ UNCHANGED <<level, phase, count, is_init, samples, adapter, server, bluez>>

Button ==
  /\ level' = 1 - level
  /\ UNCHANGED <<parent, adapter, server, bluez>>

-----------------------------------------------------------------------------
(* The child: btattach, and what the controller does.                       *)

Attach ==
  /\ phase \notin {"fork", "exited"}
  /\ hci = "absent" /\ hci' = "attached"
  /\ UNCHANGED <<level, parent, powered, discoverable, server, bluez>>

\* A registration after the controller or bluez is gone.
Forgotten(r) == IF r \in {"asked", "ok"} THEN "lost" ELSE r

\* btattach ends, and the child with it; nobody starts it again.
Detach ==
  /\ "hci" \in Faults /\ hci = "attached" /\ hci' = "gone"
  /\ powered' = FALSE /\ discoverable' = FALSE
  /\ advert' = Forgotten(advert) /\ app' = Forgotten(app)
  /\ UNCHANGED <<level, parent, server>>

-----------------------------------------------------------------------------
(* The server thread: uart_server_process.                                  *)

Step(from, to) == tpc = from /\ tpc' = to

GetBus ==
  /\ tpc = "bus"
  /\ tpc' \in {"power"} \cup (IF "bus" \in Faults THEN {"nobus"} ELSE {})
  /\ UNCHANGED <<level, parent, adapter, objects, conn, bluez>>

\* Mutant: the thread ends with the first error.
adapter_power_on_Aborts ==
  /\ tpc = "power"
  /\ powered' \in {hci = "attached"} \cup (IF "bluez" \in Faults THEN {FALSE} ELSE {})
  /\ tpc' = IF powered' THEN "discoverable" ELSE "dead"
  /\ UNCHANGED <<level, parent, hci, discoverable, objects, conn, bluez>>

\* adapter_properties_set: an error is printed, and the thread goes on.
adapter_power_on ==
  /\ Step("power", "discoverable")
  /\ powered' \in {hci = "attached"} \cup (IF "bluez" \in Faults THEN {FALSE} ELSE {})
  /\ UNCHANGED <<level, parent, hci, discoverable, objects, conn, bluez>>

adapter_discoverable_enable ==
  /\ Step("discoverable", "states")
  /\ discoverable' \in {powered} \cup (IF "bluez" \in Faults THEN {FALSE} ELSE {})
  /\ UNCHANGED <<level, parent, hci, powered, objects, conn, bluez>>

\* adapter_power_state, adapter_discoverable_state: what they return is printed.
PrintStates ==
  /\ Step("states", "advertise")
  /\ UNCHANGED <<level, parent, adapter, objects, conn, bluez>>

\* advertising_start: one object, whose failure nobody looks at, and
\* RegisterAdvertisement without waiting.
advertising_start ==
  /\ Step("advertise", "objects")
  /\ advert_object' \in {TRUE} \cup (IF "object" \in Faults THEN {FALSE} ELSE {})
  /\ advert' = "sent"
  /\ UNCHANGED <<level, parent, adapter, registered, conn, app>>

\* gatt_object_register: one object after another, the ObjectManager first; the
\* first error ends it, and its result is not looked at.
gatt_object_register ==
  /\ tpc = "objects" /\ registered < Objects
  /\ \/ registered' = registered + 1 /\ UNCHANGED tpc
     \/ "object" \in Faults /\ tpc' = "application" /\ UNCHANGED registered
  /\ UNCHANGED <<level, parent, adapter, advert_object, conn, bluez>>
ObjectsDone ==
  /\ registered = Objects /\ Step("objects", "application")
  /\ UNCHANGED <<level, parent, adapter, objects, conn, bluez>>

\* uart_register_application_async, without waiting.
RegisterApplication ==
  /\ Step("application", "conn")
  /\ app' = "sent"
  /\ UNCHANGED <<level, parent, adapter, objects, conn, advert>>

SetConn ==
  /\ Step("conn", "loop")
  /\ conn' = TRUE
  /\ UNCHANGED <<level, parent, adapter, objects, bluez>>

ThreadStep ==
  \/ GetBus \/ adapter_power_on \/ adapter_discoverable_enable \/ PrintStates
  \/ advertising_start \/ gatt_object_register \/ ObjectsDone
  \/ RegisterApplication \/ SetConn

-----------------------------------------------------------------------------
(* bluez and the main loop.  bluez asks for the properties of what is to be *)
(* registered before it answers; handlers run in the main loop only.        *)

\* bluez takes a registration: refused without a controller.
Taken == (IF hci = "attached" THEN {"asked"} ELSE {"refused"})
           \cup (IF "bluez" \in Faults THEN {"refused"} ELSE {})
BluezTakes ==
  \/ /\ advert = "sent" /\ advert' \in Taken
     /\ UNCHANGED <<level, parent, adapter, server, app>>
  \/ /\ app = "sent" /\ app' \in Taken
     /\ UNCHANGED <<level, parent, adapter, server, advert>>

\* Mutant: handlers run as soon as their object is registered.
MainLoop_Early == tpc \in {"objects", "application", "conn", "loop"}

MainLoop == tpc = "loop"

\* get_property of the advertisement, GetManagedObjects of the application; then
\* bluez accepts.  Without the object it asks nobody answers and it refuses.
Answer ==
  /\ MainLoop
  /\ \/ /\ advert = "asked" /\ advert' = (IF advert_object THEN "ok" ELSE "refused") /\ UNCHANGED app
     \/ /\ app = "asked" /\ app' = (IF registered > 0 THEN "ok" ELSE "refused") /\ UNCHANGED advert
  /\ UNCHANGED <<level, parent, adapter, server>>

\* bluez is restarted, or calls Release: what was registered is gone.
BluezForgets ==
  /\ "bluez" \in Faults
  /\ advert' = Forgotten(advert) /\ app' = Forgotten(app)
  /\ <<advert', app'>> # <<advert, app>>
  /\ UNCHANGED <<level, parent, adapter, server>>

BleNext ==
  \/ Fork \/ Open \/ Turn \/ Second \/ SetBack \/ Button
  \/ Attach \/ Detach
  \/ ThreadStep
  \/ BluezTakes \/ Answer \/ BluezForgets

BleSpec == BleInit /\ [][BleNext]_vars

\* Both threads and the clock go on, bluez and btattach do what they are asked.
BleFairSpec ==
  /\ BleSpec
  /\ WF_vars(Fork) /\ WF_vars(Open) /\ WF_vars(Turn) /\ WF_vars(Second) /\ WF_vars(Attach)
  /\ WF_vars(ThreadStep) /\ WF_vars(BluezTakes) /\ WF_vars(Answer)

-----------------------------------------------------------------------------
(* Properties                                                               *)

Sampled == [val : {-1, 0, 1}, waited : Int]

\* Type correctness; the server thread runs only after uart_server_init, and only
\* what it has sent is known to bluez.
TypeOK ==
  /\ level \in {0, 1} /\ phase \in {"fork", "open", "ok", "failed", "exited"}
  /\ elapsed \in Int /\ elapsed <= 1 /\ backs \in 0..MaxBacks
  /\ count \in 0..Press /\ is_init \in BOOLEAN
  /\ samples \in Seq(Sampled) /\ Len(samples) <= Press
  /\ hci \in {"absent", "attached", "gone"}
  /\ powered \in BOOLEAN /\ discoverable \in BOOLEAN
  /\ tpc \in {"none", "bus", "nobus", "power", "discoverable", "states", "advertise",
             "objects", "application", "conn", "loop"}
  /\ advert_object \in BOOLEAN /\ registered \in 0..Objects /\ conn \in BOOLEAN
  /\ advert \in Registration /\ app \in Registration
  /\ tpc # "none" => is_init
  /\ app # "none" => advert # "none"

\* The server is started only when the last Press samples all read the pin as held,
\* each of them at a time that the clock showed a second or more after the one before:
\* a release in between starts the wait again, a clock that is set back prolongs it,
\* and the half second of the loop does not shorten it (main.cpp:26-45).  A read that
\* fails may return 0 (sys_utils.cpp:137) and then counts as held.
StartsWhenHeld ==
  [][is_init' # is_init =>
       /\ Len(samples') = Press
       /\ \A k \in 1..Press : samples'[k].val = 0 /\ samples'[k].waited >= 1]_vars

\* However long the button is held and however often it is pressed again, the
\* server thread is started once, also while the one before is still on its way
\* to the main loop (uart_server.cpp:63-73).
StartedOnce == [][tpc' = "bus" => tpc = "none" \/ UNCHANGED tpc]_vars

\* When bluez' questions are answered, the server is complete: the connection that
\* gatt_notify_callback uses is set, and no object is registered any more, though
\* bluez may ask as soon as the registration is sent (gatt.cpp:1420, 1712-1715).
AnsweredComplete ==
  [][(advert' = "ok" /\ advert # "ok") \/ (app' = "ok" /\ app # "ok") => conn /\ tpc = "loop"]_vars

\* What keeps the server from coming up for ever, since nothing is tried twice: a
\* process, a thread or a bus that could not be had, a controller that is gone, a
\* registration that bluez refused or forgot.  An error of the adapter's properties is
\* none of them.
GivenUp ==
  \/ phase = "exited"
  \/ is_init /\ tpc = "none"
  \/ tpc = "nobus"
  \/ hci = "gone"
  \/ {advert, app} \cap {"refused", "lost"} # {}

\* If from some time on every sample has the button held, and the clock is set back
\* only finitely often, the server starts and has its advertisement and its
\* application registered, unless one of the failures above keeps it from it; whatever
\* else fails, it goes on (main.cpp:26-69, uart_server.cpp:29-73).
ComesUp ==
  <>[](samples # <<>> /\ samples[Len(samples)].val = 0) =>
    (~is_init ~> (advert = "ok" /\ app = "ok") \/ GivenUp)
=============================================================================
