----------------------------- MODULE GpioTable -----------------------------
(***************************************************************************)
(* The table of open pins in Template2/sys_utils.cpp: gpio_open, gpio_read *)
(* and gpio_close over gpio_entry, together with the descriptor table of   *)
(* the process, which other code (popen, the D-Bus connection) shares.     *)
(***************************************************************************)
EXTENDS Integers

CONSTANTS
  Gpios,    \* pin numbers; 0 marks an empty entry and is not one of them
  Slots,    \* array_num(gpio_entry)
  MaxFd,    \* model bound: the process has descriptors 0..MaxFd
  Closed, Other   \* a descriptor that is not open, or open on something else

ASSUME GpioAssumption ==
  /\ Gpios \subseteq Nat \ {0}
  /\ Slots \in Nat \ {0} /\ MaxFd \in Nat
  /\ Closed \notin Nat /\ Other \notin Nat /\ Closed # Other

VARIABLES
  gpio_entry,  \* the table
  opened,      \* what each descriptor of the process is open on
  level,       \* the value file of each pin
  last         \* history: the last call, its pin, and what gpio_read returned

vars == <<gpio_entry, opened, level, last>>

Index == 0..Slots - 1
Fds == 0..MaxFd
Entry == [gpio : Gpios \cup {0}, fd : Fds \cup {-1}]
NULL == -1

First(S) == IF S = {} THEN NULL ELSE CHOOSE k \in S : \A j \in S : k <= j

-----------------------------------------------------------------------------
gpio_entry_empty_get == First({k \in Index : gpio_entry[k].gpio = 0})

gpio_entry_search(gpio) == First({k \in Index : gpio_entry[k].gpio = gpio})

\* Mutant: always a fresh entry.
gpio_entry_get_Fresh(gpio) == gpio_entry_empty_get

gpio_entry_get(gpio) ==
  IF gpio_entry_search(gpio) # NULL THEN gpio_entry_search(gpio) ELSE gpio_entry_empty_get

\* The table is static: all zero.  Descriptors are taken by whoever started
\* the program, or not.
GpioInit ==
  /\ gpio_entry = [k \in Index |-> [gpio |-> 0, fd |-> 0]]
  /\ opened \in [Fds -> {Closed, Other}]
  /\ level \in [Gpios -> {0, 1}]
  /\ last = [call |-> "none", gpio |-> 0, val |-> -1]

\* open: the lowest descriptor that is free, or -1 (pin not exported, none left).
Free == First({f \in Fds : opened[f] = Closed})
Reserved(fd, owner) == IF fd = -1 THEN opened ELSE [opened EXCEPT ![fd] = owner]

Called(call, gpio, val) == last' = [call |-> call, gpio |-> gpio, val |-> val]

\* A full table is not reported; a pin that is open already is opened again over
\* the old descriptor, and forgotten if that fails.
gpio_open(gpio) ==
  LET k == gpio_entry_get(gpio) IN
  /\ Called("open", gpio, -1) /\ UNCHANGED level
  /\ IF k = NULL THEN UNCHANGED <<gpio_entry, opened>>
     ELSE \E fd \in {Free, -1} :
            /\ opened' = Reserved(fd, gpio)
            /\ gpio_entry' = [gpio_entry EXCEPT ![k] =
                                [gpio |-> IF fd >= 0 THEN gpio ELSE 0, fd |-> fd]]

\* gpio_close's condition: the pin is in the table, and its descriptor is not 0.
Closing(k) == k # NULL /\ gpio_entry[k].gpio # 0 /\ gpio_entry[k].fd # 0
Emptied(k) == [gpio_entry EXCEPT ![k] = [gpio |-> 0, fd |-> -1]]

\* Mutant: the descriptor is closed and stays in the table.
gpio_close_KeepsEntry(gpio) ==
  LET k == gpio_entry_get(gpio) IN
  /\ opened' = IF Closing(k) THEN [opened EXCEPT ![gpio_entry[k].fd] = Closed] ELSE opened
  /\ Called("close", gpio, -1) /\ UNCHANGED <<gpio_entry, level>>

\* Mutant: close is forgotten.
gpio_close_NoClose(gpio) ==
  LET k == gpio_entry_get(gpio) IN
  /\ gpio_entry' = IF Closing(k) THEN Emptied(k) ELSE gpio_entry
  /\ Called("close", gpio, -1) /\ UNCHANGED <<opened, level>>

gpio_close(gpio) ==
  LET k == gpio_entry_get(gpio) IN
  /\ opened' = IF Closing(k) THEN [opened EXCEPT ![gpio_entry[k].fd] = Closed] ELSE opened
  /\ gpio_entry' = IF Closing(k) THEN Emptied(k) ELSE gpio_entry
  /\ Called("close", gpio, -1) /\ UNCHANGED level

Readable(k) == k # NULL /\ gpio_entry[k].fd > 0

\* Mutant: the first entry that is in use, whatever its pin.
gpio_read_AnyEntry(gpio) ==
  LET k == First({j \in Index : gpio_entry[j].gpio # 0}) IN
  /\ Called("read", gpio, IF Readable(k) THEN level[opened[gpio_entry[k].fd]] ELSE -1)
  /\ UNCHANGED <<gpio_entry, opened, level>>

\* lseek to the start, read, and the first character as a digit.  The result of
\* read is not looked at: if it fails, the digit is whatever the stack held.
gpio_read(gpio) ==
  LET k == gpio_entry_search(gpio) IN
  /\ \/ Called("read", gpio, IF Readable(k) THEN level[opened[gpio_entry[k].fd]] ELSE -1)
     \/ Readable(k) /\ \E v \in {-1, 0, 1} : Called("read failed", gpio, v)
  /\ UNCHANGED <<gpio_entry, opened, level>>

\* The world: a pin changes, other code of the process opens and closes.
SetLevel(gpio) ==
  /\ level' = [level EXCEPT ![gpio] = 1 - @]
  /\ UNCHANGED <<gpio_entry, opened, last>>
OtherOpens ==
  /\ Free # NULL /\ opened' = Reserved(Free, Other)
  /\ UNCHANGED <<gpio_entry, level, last>>
OtherCloses(fd) ==
  /\ opened[fd] = Other /\ opened' = Reserved(fd, Closed)
  /\ UNCHANGED <<gpio_entry, level, last>>

GpioNext ==
  \/ \E g \in Gpios : gpio_open(g) \/ gpio_close(g) \/ gpio_read(g) \/ SetLevel(g)
  \/ OtherOpens
  \/ \E fd \in Fds : OtherCloses(fd)

GpioSpec == GpioInit /\ [][GpioNext]_vars

-----------------------------------------------------------------------------
(* Properties                                                               *)

\* Type correctness; an entry with a pin has a descriptor.
TypeOK ==
  /\ gpio_entry \in [Index -> Entry]
  /\ opened \in [Fds -> Gpios \cup {Closed, Other}]
  /\ level \in [Gpios -> {0, 1}]
  /\ last \in [call : {"none", "open", "close", "read", "read failed"}, gpio : Gpios \cup {0}, val : {-1, 0, 1}]
  /\ \A k \in Index : gpio_entry[k].gpio # 0 => gpio_entry[k].fd # -1

\* However pins are opened, reopened and closed, a pin has one entry and its
\* descriptor is open on that pin: never on another one, never on a descriptor
\* that was closed and has since been given to other code of the process
\* (sys_utils.cpp:115-126, 144-170).
OwnsItsFd ==
  /\ \A j, k \in Index :
       gpio_entry[j].gpio # 0 /\ gpio_entry[j].gpio = gpio_entry[k].gpio => j = k
  /\ \A k \in Index :
       gpio_entry[k].gpio # 0 => opened[gpio_entry[k].fd] = gpio_entry[k].gpio

\* Unless the read itself fails, gpio_read returns the level its pin has at that
\* moment, or -1 (sys_utils.cpp:133-141).
ReadsItsPin == [][last'.call = "read" /\ last' # last => last'.val \in {level[last'.gpio], -1}]_vars

InTable == {gpio_entry[k].fd : k \in {j \in Index : gpio_entry[j].gpio # 0}}

\* A descriptor that leaves the table is closed, unless its pin was opened a
\* second time: gpio_open then drops the old one, which nothing can close any
\* more (sys_utils.cpp:147-153).
LostOnlyByReopening ==
  [][\A fd \in InTable \ InTable' :
       opened'[fd] = Closed \/ (last'.call = "open" /\ last'.gpio = opened[fd])]_vars

\* After gpio_close the pin is not in the table any more, unless its descriptor is
\* 0: then it stays, and gpio_read does not read it (sys_utils.cpp:134, 163).
ClosesUnlessZero ==
  last.call = "close" =>
    \A k \in Index : gpio_entry[k].gpio = last.gpio => gpio_entry[k].fd = 0
=============================================================================
