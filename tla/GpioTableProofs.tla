-------------------------- MODULE GpioTableProofs --------------------------
(***************************************************************************)
(* Proofs about GpioTable, for any pins, any table and any descriptors.    *)
(***************************************************************************)
EXTENDS GpioTable, WellFoundedInduction, TLAPS

LEMMA NatMinimum ==
  ASSUME NEW S \in SUBSET Nat, S # {} PROVE \E x \in S : \A y \in S : x <= y
<1>. DEFINE R == OpToRel(<, Nat)
<1>1. \A x, y \in Nat : <<y, x>> \in R <=> y < x
  BY DEF OpToRel
<1>2. IsWellFoundedOn(R, Nat)
  BY NatLessThanWellFounded
<1>. HIDE DEF R
<1>3. \E x \in S : \A y \in S : ~(<<y, x>> \in R)
  BY <1>2, WFMin
<1>4. PICK x \in S : \A y \in S : ~(<<y, x>> \in R)
  BY <1>3
<1>5. ASSUME NEW y \in S PROVE x <= y
  <2>1. ~(y < x)
    BY <1>1, <1>4
  <2>. QED BY <2>1
<1>. QED BY <1>5

\* What the searches find: an index of the set, unless it is empty.
LEMMA FirstFinds ==
  ASSUME NEW S \in SUBSET Nat PROVE IF S = {} THEN First(S) = -1 ELSE First(S) \in S
<1>1. CASE S = {}
  BY <1>1 DEF First, NULL
<1>2. CASE S # {}
  BY <1>2, NatMinimum DEF First
<1>. QED BY <1>1, <1>2

\* gpio_entry_get: the pin's own entry; else an empty one, and the pin has none;
\* else nothing.
LEMMA EntryOf ==
  ASSUME TypeOK, NEW gpio \in Gpios
  PROVE  LET k == gpio_entry_get(gpio) IN
         \/ k = -1 /\ \A j \in Index : gpio_entry[j].gpio # gpio
         \/ /\ k \in Index
            /\ \/ gpio_entry[k].gpio = gpio
               \/ gpio_entry[k].gpio = 0 /\ \A j \in Index : gpio_entry[j].gpio # gpio
<1>. DEFINE Own == {k \in Index : gpio_entry[k].gpio = gpio}
            Empty == {k \in Index : gpio_entry[k].gpio = 0}
<1>1. Own \in SUBSET Nat /\ Empty \in SUBSET Nat
  BY GpioAssumption DEF Index
<1>2. gpio_entry_search(gpio) = First(Own) /\ gpio_entry_empty_get = First(Empty)
  BY DEF gpio_entry_search, gpio_entry_empty_get
<1>3. CASE Own # {}
  <2>1. First(Own) \in Own
    BY <1>1, <1>3, FirstFinds
  <2>2. First(Own) # -1
    BY <1>1, <2>1
  <2>. QED BY <1>2, <2>1, <2>2 DEF gpio_entry_get, NULL
<1>4. CASE Own = {}
  <2>1. gpio_entry_get(gpio) = First(Empty)
    BY <1>1, <1>2, <1>4, FirstFinds DEF gpio_entry_get, NULL
  <2>2. \A j \in Index : gpio_entry[j].gpio # gpio
    BY <1>4
  <2>3. First(Empty) = -1 \/ First(Empty) \in Empty
    BY <1>1, FirstFinds
  <2>. QED BY <2>1, <2>2, <2>3
<1>. QED BY <1>3, <1>4

\* open's descriptor is free, or -1.
LEMMA FreeIsClosed ==
  /\ Free \in Fds \cup {-1}
  /\ Free # -1 => opened[Free] = Closed
<1>. DEFINE S == {f \in Fds : opened[f] = Closed}
<1>1. S \in SUBSET Nat
  BY GpioAssumption DEF Fds
<1>2. Free = First(S)
  BY DEF Free
<1>. QED BY <1>1, <1>2, FirstFinds
LEMMA SearchFinds ==
  ASSUME NEW gpio
  PROVE  LET k == gpio_entry_search(gpio) IN
         k = -1 \/ (k \in Index /\ gpio_entry[k].gpio = gpio)
<1>. DEFINE S == {k \in Index : gpio_entry[k].gpio = gpio}
<1>1. S \in SUBSET Nat
  BY GpioAssumption DEF Index
<1>2. gpio_entry_search(gpio) = First(S)
  BY DEF gpio_entry_search
<1>. QED BY <1>1, <1>2, FirstFinds

-----------------------------------------------------------------------------
\* OwnsItsFd is inductive with the types alone: a descriptor that open returns
\* was closed, so that no other entry can hold it, and one that is closed was
\* held by one entry only.
Inv == TypeOK /\ OwnsItsFd

Calls == {"none", "open", "close", "read", "read failed"}
LEMMA CalledTyped ==
  ASSUME NEW c \in Calls, NEW g \in Gpios, NEW v \in {-1, 0, 1}, Called(c, g, v)
  PROVE  last' \in [call : Calls, gpio : Gpios \cup {0}, val : {-1, 0, 1}]
  BY DEF Called

LEMMA InvInit == GpioInit => Inv
<1>. SUFFICES ASSUME GpioInit PROVE Inv
  OBVIOUS
<1>1. gpio_entry \in [Index -> Entry] /\ \A k \in Index : gpio_entry[k].gpio = 0
  BY GpioAssumption DEF GpioInit, Entry, Fds
<1>2. opened \in [Fds -> Gpios \cup {Closed, Other}] /\ level \in [Gpios -> {0, 1}]
  BY DEF GpioInit
<1>3. last \in [call : Calls, gpio : Gpios \cup {0}, val : {-1, 0, 1}]
  BY DEF GpioInit, Calls
<1>. QED BY <1>1, <1>2, <1>3 DEF Inv, TypeOK, OwnsItsFd, Calls

LEMMA OpenKeepsInv == ASSUME Inv, NEW gpio \in Gpios, gpio_open(gpio) PROVE Inv'
<1>. DEFINE k == gpio_entry_get(gpio)
<1>0. TypeOK /\ OwnsItsFd
  BY DEF Inv
<1>1. last' \in [call : Calls, gpio : Gpios \cup {0}, val : {-1, 0, 1}] /\ UNCHANGED level
  BY CalledTyped DEF gpio_open, Calls
<1>2. CASE k = -1
  <2>1. UNCHANGED <<gpio_entry, opened>>
    BY <1>2 DEF gpio_open, NULL
  <2>. QED BY <1>0, <1>1, <2>1 DEF Inv, TypeOK, OwnsItsFd, Calls
<1>3. CASE k # -1
  <2>1. k \in Index /\ \/ gpio_entry[k].gpio = gpio
                       \/ \A j \in Index : gpio_entry[j].gpio # gpio
    BY <1>0, <1>3, EntryOf
  <2>2. PICK fd \in {Free, -1} :
          /\ opened' = Reserved(fd, gpio)
          /\ gpio_entry' = [gpio_entry EXCEPT ![k] =
                              [gpio |-> IF fd >= 0 THEN gpio ELSE 0, fd |-> fd]]
    BY <1>3 DEF gpio_open, NULL
  <2>. HIDE DEF k
  <2>3. fd \in Fds \cup {-1} /\ (fd # -1 => fd \in Fds /\ opened[fd] = Closed)
    BY FreeIsClosed
  <2>4. gpio_entry \in [Index -> Entry] /\ opened \in [Fds -> Gpios \cup {Closed, Other}]
    BY <1>0 DEF TypeOK
  <2>5. \A j \in Index : j # k => gpio_entry'[j] = gpio_entry[j] /\ gpio_entry[j].gpio # gpio
    BY <1>0, <2>1, <2>2, <2>4, GpioAssumption DEF OwnsItsFd
  <2>6. CASE fd = -1
    <3>1. opened' = opened
      BY <2>2, <2>6 DEF Reserved
    <3>2. gpio_entry'[k] = [gpio |-> 0, fd |-> -1] /\ gpio_entry' \in [Index -> Entry]
      BY <2>1, <2>2, <2>4, <2>6 DEF Entry
    <3>3. TypeOK'
      <4>0. \A j \in Index : gpio_entry[j].gpio # 0 => gpio_entry[j].fd # -1
        BY <1>0 DEF TypeOK
      <4>1. \A j \in Index : gpio_entry'[j].gpio # 0 => gpio_entry'[j].fd # -1
        BY <2>5, <3>2, <4>0
      <4>. QED BY <1>0, <1>1, <3>1, <3>2, <4>1 DEF TypeOK, Calls
    <3>4. OwnsItsFd'
      BY <1>0, <2>5, <3>1, <3>2 DEF OwnsItsFd
    <3>. QED BY <3>3, <3>4 DEF Inv
  <2>7. CASE fd # -1
    <3>1. opened' = [opened EXCEPT ![fd] = gpio] /\ fd \in Fds /\ opened[fd] = Closed
      BY <2>2, <2>3, <2>7 DEF Reserved
    <3>2. fd >= 0
      BY <3>1, GpioAssumption DEF Fds
    <3>3. gpio_entry'[k] = [gpio |-> gpio, fd |-> fd] /\ gpio_entry' \in [Index -> Entry]
      BY <2>1, <2>2, <2>4, <3>1, <3>2 DEF Entry
    <3>4. opened' \in [Fds -> Gpios \cup {Closed, Other}] /\ opened'[fd] = gpio
      BY <2>4, <3>1
    <3>5. TypeOK'
      <4>0. \A j \in Index : gpio_entry[j].gpio # 0 => gpio_entry[j].fd # -1
        BY <1>0 DEF TypeOK
      <4>1. \A j \in Index : gpio_entry'[j].gpio # 0 => gpio_entry'[j].fd # -1
        BY <2>5, <2>7, <3>3, <4>0
      <4>. QED BY <1>0, <1>1, <3>3, <3>4, <4>1 DEF TypeOK, Calls
    <3>6. ASSUME NEW j \in Index, j # k, gpio_entry[j].gpio # 0
          PROVE  opened'[gpio_entry[j].fd] = gpio_entry[j].gpio
      <4>1. gpio_entry[j].gpio \in Gpios /\ gpio_entry[j].fd \in Fds
        BY <1>0, <2>4, <3>6 DEF TypeOK, Entry
      <4>2. opened[gpio_entry[j].fd] = gpio_entry[j].gpio
        BY <1>0, <3>6 DEF OwnsItsFd
      <4>3. gpio_entry[j].fd # fd
        BY <3>1, <4>1, <4>2, GpioAssumption
      <4>. QED BY <2>4, <3>1, <4>1, <4>2, <4>3
    <3>7. OwnsItsFd'
      <4>1. \A j \in Index : gpio_entry'[j].gpio # 0 => opened'[gpio_entry'[j].fd] = gpio_entry'[j].gpio
        BY <2>5, <3>3, <3>4, <3>6
      <4>2. \A i, j \in Index :
              gpio_entry'[i].gpio # 0 /\ gpio_entry'[i].gpio = gpio_entry'[j].gpio => i = j
        BY <1>0, <2>5, <3>3 DEF OwnsItsFd
      <4>. QED BY <4>1, <4>2 DEF OwnsItsFd
    <3>. QED BY <3>5, <3>7 DEF Inv
  <2>. QED BY <2>6, <2>7
<1>. QED BY <1>2, <1>3

LEMMA CloseKeepsInv == ASSUME Inv, NEW gpio \in Gpios, gpio_close(gpio) PROVE Inv'
<1>. DEFINE k == gpio_entry_get(gpio)
<1>0. TypeOK /\ OwnsItsFd
  BY DEF Inv
<1>1. last' \in [call : Calls, gpio : Gpios \cup {0}, val : {-1, 0, 1}] /\ UNCHANGED level
  BY CalledTyped DEF gpio_close, Calls
<1>2. CASE ~Closing(k)
  <2>1. UNCHANGED <<gpio_entry, opened>>
    BY <1>2 DEF gpio_close
  <2>. QED BY <1>0, <1>1, <2>1 DEF Inv, TypeOK, OwnsItsFd, Calls
<1>3. CASE Closing(k)
  <2>1. k \in Index /\ gpio_entry[k].gpio # 0
    BY <1>0, <1>3, EntryOf DEF Closing, NULL
  <2>2. /\ opened' = [opened EXCEPT ![gpio_entry[k].fd] = Closed]
        /\ gpio_entry' = [gpio_entry EXCEPT ![k] = [gpio |-> 0, fd |-> -1]]
    BY <1>3 DEF gpio_close, Emptied
  <2>. HIDE DEF k
  <2>3. gpio_entry \in [Index -> Entry] /\ opened \in [Fds -> Gpios \cup {Closed, Other}]
    BY <1>0 DEF TypeOK
  <2>4. \A j \in Index : j # k => gpio_entry'[j] = gpio_entry[j]
    BY <2>2, <2>3
  <2>5. gpio_entry'[k] = [gpio |-> 0, fd |-> -1] /\ gpio_entry' \in [Index -> Entry]
    BY <2>1, <2>2, <2>3 DEF Entry
  <2>6. opened' \in [Fds -> Gpios \cup {Closed, Other}]
    BY <2>2, <2>3
  <2>7. TypeOK'
    <3>0. \A j \in Index : gpio_entry[j].gpio # 0 => gpio_entry[j].fd # -1
      BY <1>0 DEF TypeOK
    <3>1. \A j \in Index : gpio_entry'[j].gpio # 0 => gpio_entry'[j].fd # -1
      BY <2>4, <2>5, <3>0
    <3>. QED BY <1>0, <1>1, <2>5, <2>6, <3>1 DEF TypeOK, Calls
  <2>8. ASSUME NEW j \in Index, j # k, gpio_entry[j].gpio # 0
        PROVE  opened'[gpio_entry[j].fd] = gpio_entry[j].gpio
    <3>1. gpio_entry[j].fd \in Fds /\ opened[gpio_entry[j].fd] = gpio_entry[j].gpio
      BY <1>0, <2>3, <2>8 DEF TypeOK, Entry, OwnsItsFd
    <3>2. gpio_entry[j].fd # gpio_entry[k].fd
      BY <1>0, <2>1, <2>8, <3>1 DEF OwnsItsFd
    <3>. QED BY <2>2, <2>3, <3>1, <3>2
  <2>9. OwnsItsFd'
    BY <1>0, <2>4, <2>5, <2>8 DEF OwnsItsFd
  <2>. QED BY <2>7, <2>9 DEF Inv
<1>. QED BY <1>2, <1>3
\* What gpio_read may return is the level of its pin, because the entry it found
\* owns its descriptor.
LEMMA ReadValue ==
  ASSUME Inv, NEW gpio \in Gpios, Readable(gpio_entry_search(gpio))
  PROVE  level[opened[gpio_entry[gpio_entry_search(gpio)].fd]] = level[gpio]
<1>. DEFINE k == gpio_entry_search(gpio)
<1>1. k \in Index /\ gpio_entry[k].gpio = gpio
  BY SearchFinds DEF Readable, NULL
<1>2. opened[gpio_entry[k].fd] = gpio
  BY <1>1, GpioAssumption DEF Inv, OwnsItsFd
<1>. QED BY <1>2

LEMMA ReadKeepsInv == ASSUME Inv, NEW gpio \in Gpios, gpio_read(gpio) PROVE Inv'
<1>1. UNCHANGED <<gpio_entry, opened, level>>
  BY DEF gpio_read
<1>2. level[gpio] \in {0, 1}
  BY DEF Inv, TypeOK
<1>3. \E c \in Calls, v \in {-1, 0, 1} : Called(c, gpio, v)
  BY <1>2, ReadValue DEF gpio_read, Calls
<1>4. last' \in [call : Calls, gpio : Gpios \cup {0}, val : {-1, 0, 1}]
  BY <1>3, CalledTyped
<1>. QED BY <1>1, <1>4 DEF Inv, TypeOK, OwnsItsFd, Calls

\* The rest of the process opens what is closed and closes what is not a pin's.
LEMMA OthersKeepInv ==
  ASSUME Inv, OtherOpens \/ \E fd \in Fds : OtherCloses(fd) PROVE Inv'
<1>0. TypeOK /\ OwnsItsFd
  BY DEF Inv
<1>1. PICK fd \in Fds, o \in {Closed, Other} :
        /\ opened[fd] \in {Closed, Other} /\ opened' = [opened EXCEPT ![fd] = o]
        /\ UNCHANGED <<gpio_entry, level, last>>
  <2>1. CASE OtherOpens
    BY <2>1, FreeIsClosed DEF OtherOpens, Reserved, NULL
  <2>2. CASE \E fd \in Fds : OtherCloses(fd)
    <3>1. \A fd \in Fds : fd # -1
      BY GpioAssumption DEF Fds
    <3>. QED BY <2>2, <3>1 DEF OtherCloses, Reserved
  <2>. QED BY <2>1, <2>2
<1>2. opened' \in [Fds -> Gpios \cup {Closed, Other}]
  BY <1>0, <1>1 DEF TypeOK
<1>3. TypeOK'
  BY <1>0, <1>1, <1>2 DEF TypeOK
<1>4. ASSUME NEW j \in Index, gpio_entry[j].gpio # 0
      PROVE  opened'[gpio_entry[j].fd] = gpio_entry[j].gpio
  <2>1. gpio_entry[j].gpio \in Gpios /\ gpio_entry[j].fd \in Fds
    <3>1. gpio_entry[j] \in Entry /\ gpio_entry[j].fd # -1
      BY <1>0, <1>4 DEF TypeOK
    <3>. QED BY <1>4, <3>1 DEF Entry
  <2>2. gpio_entry[j].fd # fd
    BY <1>0, <1>1, <1>4, <2>1, GpioAssumption DEF OwnsItsFd
  <2>3. opened[gpio_entry[j].fd] = gpio_entry[j].gpio /\ opened \in [Fds -> Gpios \cup {Closed, Other}]
    BY <1>0, <1>4 DEF OwnsItsFd, TypeOK
  <2>. QED BY <1>1, <2>1, <2>2, <2>3
<1>5. OwnsItsFd'
  BY <1>0, <1>1, <1>4 DEF OwnsItsFd
<1>. QED BY <1>3, <1>5 DEF Inv

LEMMA InvStep == Inv /\ [GpioNext]_vars => Inv'
<1>. SUFFICES ASSUME Inv, [GpioNext]_vars PROVE Inv'
  OBVIOUS
<1>1. ASSUME NEW gpio \in Gpios, gpio_open(gpio) PROVE Inv'
  BY <1>1, OpenKeepsInv
<1>2. ASSUME NEW gpio \in Gpios, gpio_close(gpio) PROVE Inv'
  BY <1>2, CloseKeepsInv
<1>3. ASSUME NEW gpio \in Gpios, gpio_read(gpio) PROVE Inv'
  BY <1>3, ReadKeepsInv
<1>4. ASSUME NEW gpio \in Gpios, SetLevel(gpio) PROVE Inv'
  <2>1. level' \in [Gpios -> {0, 1}]
    <3>1. level \in [Gpios -> {0, 1}]
      BY DEF Inv, TypeOK
    <3>2. 1 - level[gpio] \in {0, 1}
      <4>1. level[gpio] = 0 \/ level[gpio] = 1
        BY <1>4, <3>1
      <4>. QED BY <4>1
    <3>. QED BY <1>4, <3>1, <3>2 DEF SetLevel
  <2>. QED BY <1>4, <2>1 DEF SetLevel, Inv, TypeOK, OwnsItsFd
<1>5. CASE OtherOpens \/ \E fd \in Fds : OtherCloses(fd)
  BY <1>5, OthersKeepInv
<1>6. CASE UNCHANGED vars
  BY <1>6 DEF vars, Inv, TypeOK, OwnsItsFd
<1>. QED BY <1>1, <1>2, <1>3, <1>4, <1>5, <1>6 DEF GpioNext

LEMMA InvAlways == GpioSpec => []Inv
  BY InvInit, InvStep, PTL DEF GpioSpec

-----------------------------------------------------------------------------
\* The table keeps its types, and an entry with a pin has a descriptor.
THEOREM GpioTypeOK == GpioSpec => []TypeOK
<1>1. Inv => TypeOK
  BY DEF Inv
<1>. QED BY InvAlways, <1>1, PTL

\* A pin has one entry, and its descriptor is open on that pin, however the rest
\* of the process uses descriptors (sys_utils.cpp:115-126, 144-170).
THEOREM GpioOwnsItsFd == GpioSpec => []OwnsItsFd
<1>1. Inv => OwnsItsFd
  BY DEF Inv
<1>. QED BY InvAlways, <1>1, PTL
LEMMA CalledIs ==
  ASSUME NEW c, NEW g, NEW v, Called(c, g, v)
  PROVE  last'.call = c /\ last'.gpio = g /\ last'.val = v
  BY DEF Called

\* What a step of the table does to last: the call it was, or nothing.
LEMMA LastIs ==
  ASSUME [GpioNext]_vars, last' # last
  PROVE  \E gpio \in Gpios :
           /\ last'.gpio = gpio
           /\ \/ gpio_open(gpio) /\ last'.call = "open"
              \/ gpio_close(gpio) /\ last'.call = "close"
              \/ gpio_read(gpio) /\ last'.call \in {"read", "read failed"}
<1>1. PICK gpio \in Gpios : gpio_open(gpio) \/ gpio_close(gpio) \/ gpio_read(gpio)
  BY DEF GpioNext, vars, SetLevel, OtherOpens, OtherCloses
<1>2. CASE gpio_open(gpio)
  BY <1>2 DEF gpio_open, Called
<1>3. CASE gpio_close(gpio)
  BY <1>3 DEF gpio_close, Called
<1>4. CASE gpio_read(gpio)
  <2>1. last'.gpio = gpio /\ last'.call \in {"read", "read failed"}
    BY <1>4, CalledIs DEF gpio_read
  <2>. QED BY <1>4, <2>1
<1>. QED BY <1>1, <1>2, <1>3, <1>4

\* Unless the read fails, gpio_read returns its pin's level, or -1
\* (sys_utils.cpp:133-141).
THEOREM GpioReadsItsPin == GpioSpec => ReadsItsPin
<1>1. ASSUME Inv, [GpioNext]_vars, last'.call = "read", last' # last
      PROVE  last'.val \in {level[last'.gpio], -1}
  <2>1. PICK gpio \in Gpios : gpio_read(gpio) /\ last'.gpio = gpio
    BY <1>1, LastIs
  <2>2. \/ Called("read", gpio, IF Readable(gpio_entry_search(gpio))
             THEN level[opened[gpio_entry[gpio_entry_search(gpio)].fd]] ELSE -1)
        \/ \E v \in {-1, 0, 1} : Called("read failed", gpio, v)
    BY <2>1 DEF gpio_read
  <2>3. ~ \E v \in {-1, 0, 1} : Called("read failed", gpio, v)
    <3>. SUFFICES ASSUME NEW v \in {-1, 0, 1}, Called("read failed", gpio, v) PROVE FALSE
      OBVIOUS
    <3>1. last'.call = "read failed"
      BY DEF Called
    <3>. QED BY <1>1, <3>1
  <2>4. last'.val = IF Readable(gpio_entry_search(gpio))
                    THEN level[opened[gpio_entry[gpio_entry_search(gpio)].fd]] ELSE -1
    BY <2>2, <2>3, CalledIs
  <2>5. last'.val = IF Readable(gpio_entry_search(gpio)) THEN level[gpio] ELSE -1
    BY <1>1, <2>4, ReadValue
  <2>. QED BY <2>1, <2>5
<1>2. Inv /\ [GpioNext]_vars => [last'.call = "read" /\ last' # last => last'.val \in {level[last'.gpio], -1}]_vars
  BY <1>1
<1>. QED BY InvAlways, <1>2, PTL DEF GpioSpec, ReadsItsPin

\* A descriptor is in no table after a step only if it was closed, or its pin has
\* been opened again (sys_utils.cpp:147-153).
THEOREM GpioLostOnlyByReopening == GpioSpec => LostOnlyByReopening
<1>1. ASSUME Inv, [GpioNext]_vars, NEW fd \in InTable \ InTable'
      PROVE  opened'[fd] = Closed \/ (last'.call = "open" /\ last'.gpio = opened[fd])
  <2>1. PICK k \in Index : gpio_entry[k].gpio # 0 /\ gpio_entry[k].fd = fd
    BY <1>1 DEF InTable
  <2>2. gpio_entry'[k] # gpio_entry[k]
    BY <1>1, <2>1 DEF InTable
  <2>3. opened[fd] = gpio_entry[k].gpio /\ gpio_entry \in [Index -> Entry]
           /\ opened \in [Fds -> Gpios \cup {Closed, Other}] /\ fd \in Fds
    <3>1. gpio_entry[k] \in Entry /\ gpio_entry[k].fd # -1
      BY <1>1, <2>1 DEF Inv, TypeOK
    <3>. QED BY <1>1, <2>1, <3>1 DEF Inv, OwnsItsFd, TypeOK, Entry
  <2>4. PICK gpio \in Gpios : gpio_open(gpio) \/ gpio_close(gpio)
    BY <1>1, <2>2 DEF GpioNext, vars, gpio_read, SetLevel, OtherOpens, OtherCloses
  <2>5. CASE gpio_open(gpio)
    <3>. DEFINE g == gpio_entry_get(gpio)
    <3>1. g # -1 /\ \E e : gpio_entry' = [gpio_entry EXCEPT ![g] = e]
      BY <2>2, <2>5 DEF gpio_open, NULL
    <3>. HIDE DEF g
    <3>2. g = k
      BY <2>2, <2>3, <3>1
    <3>3. gpio_entry[k].gpio = gpio
      BY <1>1, <2>1, <3>1, <3>2, EntryOf DEF Inv, g
    <3>. QED BY <2>3, <2>5, <3>3 DEF gpio_open, Called
  <2>6. CASE gpio_close(gpio)
    <3>. DEFINE g == gpio_entry_get(gpio)
    <3>1. /\ gpio_entry' = [gpio_entry EXCEPT ![g] = [gpio |-> 0, fd |-> -1]]
          /\ opened' = [opened EXCEPT ![gpio_entry[g].fd] = Closed]
      BY <2>2, <2>6 DEF gpio_close, Emptied
    <3>. HIDE DEF g
    <3>2. g = k
      BY <2>2, <2>3, <3>1
    <3>. QED BY <2>1, <2>3, <3>1, <3>2
  <2>. QED BY <2>4, <2>5, <2>6
<1>2. Inv /\ [GpioNext]_vars =>
        [\A fd \in InTable \ InTable' :
           opened'[fd] = Closed \/ (last'.call = "open" /\ last'.gpio = opened[fd])]_vars
  BY <1>1
<1>. QED BY InvAlways, <1>2, PTL DEF GpioSpec, LostOnlyByReopening
\* A pin that has been closed is not in the table, unless its descriptor is 0
\* (sys_utils.cpp:163).
THEOREM GpioClosesUnlessZero == GpioSpec => []ClosesUnlessZero
<1>1. GpioInit => ClosesUnlessZero
  BY DEF GpioInit, ClosesUnlessZero
<1>2. ASSUME Inv, ClosesUnlessZero, [GpioNext]_vars PROVE ClosesUnlessZero'
  <2>1. CASE UNCHANGED <<gpio_entry, last>>
    BY <1>2, <2>1 DEF ClosesUnlessZero
  <2>2. ASSUME NEW gpio \in Gpios, gpio_open(gpio) PROVE ClosesUnlessZero'
    BY <2>2, CalledIs DEF gpio_open, ClosesUnlessZero
  <2>3. ASSUME NEW gpio \in Gpios, gpio_read(gpio) PROVE ClosesUnlessZero'
    <3>1. last'.call \in {"read", "read failed"}
      BY <2>3, CalledIs DEF gpio_read
    <3>. QED BY <3>1 DEF ClosesUnlessZero
  <2>4. ASSUME NEW gpio \in Gpios, gpio_close(gpio) PROVE ClosesUnlessZero'
    <3>. DEFINE k == gpio_entry_get(gpio)
    <3>1. last'.gpio = gpio /\ gpio \in Nat \ {0}
      BY <2>4, CalledIs, GpioAssumption DEF gpio_close
    <3>2. gpio_entry \in [Index -> Entry]
      BY <1>2 DEF Inv, TypeOK
    <3>3. CASE Closing(k)
      <4>1. k \in Index /\ \A j \in Index : j # k => gpio_entry[j].gpio # gpio
        BY <1>2, <3>1, <3>3, EntryOf DEF Inv, OwnsItsFd, Closing, NULL
      <4>2. gpio_entry' = [gpio_entry EXCEPT ![k] = [gpio |-> 0, fd |-> -1]]
        BY <2>4, <3>3 DEF gpio_close, Emptied
      <4>. HIDE DEF k
      <4>3. \A j \in Index : gpio_entry'[j].gpio # gpio
        BY <3>1, <3>2, <4>1, <4>2
      <4>. QED BY <3>1, <4>3 DEF ClosesUnlessZero
    <3>4. CASE ~Closing(k)
      <4>1. gpio_entry' = gpio_entry
        BY <2>4, <3>4 DEF gpio_close
      <4>2. ASSUME NEW j \in Index, gpio_entry[j].gpio = gpio PROVE gpio_entry[j].fd = 0
        <5>1. k = j
          BY <1>2, <3>1, <4>2, EntryOf DEF Inv, OwnsItsFd
        <5>. QED BY <3>1, <3>4, <4>2, <5>1, GpioAssumption DEF Closing, NULL, Index
      <4>. QED BY <3>1, <4>1, <4>2 DEF ClosesUnlessZero
    <3>. QED BY <3>3, <3>4
  <2>. QED BY <1>2, <2>1, <2>2, <2>3, <2>4
         DEF GpioNext, vars, SetLevel, OtherOpens, OtherCloses
<1>. QED BY InvAlways, <1>1, <1>2, PTL DEF GpioSpec
=============================================================================
