-------------------------- MODULE ParamPackProofs --------------------------
(***************************************************************************)
(* Proofs about ParamPack, for any types of parameters, any size of        *)
(* msgData and any number of parameters and messages.                      *)
(***************************************************************************)
EXTENDS ParamPack, TLAPS

\* Byte b of parameter k of message n; or, if newer, a later message's.
Holds(x, n, k, b, newer) == x = <<n, k, b>> \/ (newer /\ x[1] > n)

\* In each of the datas the bytes from start to end are the parameters of message n
\* behind the first ones, of these lengths, one behind the other.  off says where
\* each begins.
Follow(off, datas, newer, n, lens, start, end, first) ==
  /\ off[1] = start /\ off[Len(lens) + 1] = end
  /\ \A k \in 1..Len(lens) :
       /\ off[k + 1] = off[k] + lens[k]
       /\ \A data \in datas : \A b \in 0..lens[k] - 1 :
            Holds(data[off[k] + b], n, first + k, b, newer)

Packed(datas, newer, n, lens, start, end, first) ==
  \E off \in [1..Len(lens) + 1 -> 0..end] : Follow(off, datas, newer, n, lens, start, end, first)

\* Where the bytes of a message end does not matter once it is sent.
PackedFrom(datas, newer, n, lens, start, first) ==
  \E end \in 0..Capacity : Packed(datas, newer, n, lens, start, end, first)

Data   == [Bytes -> Nat \X Nat \X Nat]
Queued == [number : Nat, lens : Seq(Lengths), data : Data]

ParamTypeOK ==
  /\ msgData \in Data /\ given \in Seq(Lengths) /\ sent \in Nat
  /\ packing => funParam \in 0..Capacity
  /\ queue \in Seq(Queued) /\ uncopied \subseteq Places
  /\ event.number \in Nat /\ event.lens \in Seq(Lengths) /\ slot \in Data
  /\ number \in Nat /\ expected \in Seq(Lengths) /\ at \in Nat /\ param \in Nat
  /\ byte \in Nat /\ (expected # <<>> => byte < Head(expected))

\* No message is newer than the one being prepared.
NumbersInv ==
  /\ event.number <= sent /\ number <= sent
  /\ \A q \in DOMAIN queue : queue[q].number <= sent

\* What can come into the slot behind the q-th copy.
Behind(q) == {msgData} \cup {queue[r].data : r \in {s \in DOMAIN queue : s >= q}}
Anywhere  == {slot, msgData} \cup {queue[r].data : r \in DOMAIN queue}

\* main's message holds what was packed for it so far; every copy of a message holds
\* its parameters, and nothing older stands at their places in what comes behind it.
QueueInv ==
  /\ packing => Packed({msgData}, FALSE, Message, given, 0, funParam, 0)
  /\ PackedFrom({msgData}, FALSE, Message, given, 0, 0)
  /\ \A q \in DOMAIN queue :
       /\ PackedFrom({queue[q].data}, FALSE, queue[q].number, queue[q].lens, 0, 0)
       /\ PackedFrom(Behind(q), TRUE, queue[q].number, queue[q].lens, 0, 0)

\* Between two calls of setEventMsg the slot holds a message; during one, the places
\* that are copied hold those of the first copy.
SlotInv ==
  /\ uncopied = {} =>
       /\ PackedFrom({slot}, FALSE, event.number, event.lens, 0, 0)
       /\ PackedFrom(Anywhere, TRUE, event.number, event.lens, 0, 0)
  /\ uncopied # {} =>
       /\ queue # <<>>
       /\ \A p \in Bytes \ uncopied : slot[p] = queue[1].data[p]
       /\ EventPlace \notin uncopied => event.number = queue[1].number /\ event.lens = queue[1].lens

\* What is still to be unpacked stands in the slot.
ThreadInv ==
  /\ mix \in {"none", "late", "early"}
  /\ uncopied # {} => mix # "none"
  /\ mix = "none" => PackedFrom({slot}, FALSE, number, expected, at, param)
  /\ mix # "early" => PackedFrom(Anywhere, TRUE, number, expected, at, param)

ParamInv == ParamTypeOK /\ NumbersInv /\ QueueInv /\ SlotInv /\ ThreadInv

-----------------------------------------------------------------------------
(* Packing one parameter more, unpacking one, and mixing messages.          *)

LEMMA PackedEmpty ==
  ASSUME NEW datas, NEW n, NEW start \in Nat, NEW first
  PROVE  /\ Packed(datas, FALSE, n, <<>>, start, start, first)
         /\ Packed(datas, TRUE, n, <<>>, start, start, first)
<1>. DEFINE off == [k \in 1..1 |-> start]
<1>1. off \in [1..Len(<<>>) + 1 -> 0..start] /\ off[1] = start /\ Len(<<>>) = 0
  OBVIOUS
<1>2. /\ Follow(off, datas, FALSE, n, <<>>, start, start, first)
      /\ Follow(off, datas, TRUE, n, <<>>, start, start, first)
  BY <1>1 DEF Follow
<1>. QED BY <1>1, <1>2 DEF Packed

LEMMA PackedAppend ==
  ASSUME NEW data, NEW more, NEW n, NEW lens \in Seq(Lengths), NEW len \in Lengths, NEW end \in Nat,
         Packed({data}, FALSE, n, lens, 0, end, 0),
         \A b \in 0..end - 1 : more[b] = data[b],
         \A b \in 0..len - 1 : more[end + b] = <<n, Len(lens) + 1, b>>
  PROVE  Packed({more}, FALSE, n, Append(lens, len), 0, end + len, 0)
<1>. DEFINE m == Len(lens)
            all == Append(lens, len)
<1>1. PICK off \in [1..m + 1 -> 0..end] : Follow(off, {data}, FALSE, n, lens, 0, end, 0)
  BY DEF Packed
<1>. DEFINE off2 == [k \in 1..m + 2 |-> IF k = m + 2 THEN end + len ELSE off[k]]
<1>a. /\ off[1] = 0 /\ off[m + 1] = end
      /\ \A k \in 1..m : /\ off[k + 1] = off[k] + lens[k]
                         /\ \A b \in 0..lens[k] - 1 : data[off[k] + b] = <<n, 0 + k, b>>
  BY <1>1 DEF Follow, Holds
<1>b. \A k \in 1..m : lens[k] \in Lengths /\ all[k] = lens[k]
  OBVIOUS
<1>c. m \in Nat /\ Len(all) = m + 1 /\ all[m + 1] = len
  OBVIOUS
<1>2. /\ m \in Nat /\ len \in Nat /\ Len(all) = m + 1 /\ all[m + 1] = len
      /\ \A k \in 1..m : all[k] = lens[k] /\ lens[k] \in Nat
  BY <1>b, <1>c, ParamAssumption
<1>. HIDE DEF m, all
<1>3. off2 \in [1..Len(all) + 1 -> 0..end + len] /\ off2[1] = 0 /\ off2[m + 2] = end + len
      /\ \A k \in 1..m + 1 : off2[k] = off[k] /\ off[k] \in 0..end
  <2>1. off[1] = 0 /\ \A k \in 1..m + 1 : off[k] \in 0..end
    BY <1>1, <1>2, <1>a
  <2>2. \A k \in 1..m + 2 : k # m + 2 => k \in 1..m + 1
    BY <1>2
  <2>3. \A k \in 1..m + 2 : off2[k] \in 0..end + len
    BY <1>2, <2>1, <2>2
  <2>. QED BY <1>2, <2>1, <2>3
<1>. HIDE DEF off2
<1>5. ASSUME NEW k \in 1..m
      PROVE  /\ off2[k + 1] = off2[k] + all[k]
             /\ \A b \in 0..all[k] - 1 : more[off2[k] + b] = <<n, 0 + k, b>>
  <2>1. /\ off[k + 1] = off[k] + lens[k] /\ k \in 1..m + 1 /\ k + 1 \in 1..m + 1
        /\ \A b \in 0..lens[k] - 1 : data[off[k] + b] = <<n, 0 + k, b>>
    <3>1. k \in 1..m + 1 /\ k + 1 \in 1..m + 1
      BY <1>2
    <3>2. off[k + 1] = off[k] + lens[k] /\ \A b \in 0..lens[k] - 1 : data[off[k] + b] = <<n, 0 + k, b>>
      BY <1>a, Zenon
    <3>. QED BY <3>1, <3>2
  <2>2. \A b \in 0..lens[k] - 1 : off[k] + b \in 0..end - 1
    <3>1. off[k] \in 0..end /\ off[k + 1] \in 0..end /\ lens[k] \in Nat /\ off[k + 1] = off[k] + lens[k]
      BY <1>2, <1>3, <2>1
    <3>. SUFFICES ASSUME NEW b \in 0..lens[k] - 1 PROVE off[k] + b \in 0..end - 1
      OBVIOUS
    <3>2. off[k] + b < off[k + 1]
      BY <3>1
    <3>. QED BY <3>1, <3>2
  <2>. QED BY <1>2, <1>3, <2>1, <2>2
<1>6. /\ off2[m + 1 + 1] = off2[m + 1] + all[m + 1]
      /\ \A b \in 0..all[m + 1] - 1 : more[off2[m + 1] + b] = <<n, 0 + (m + 1), b>>
  <2>1. off2[m + 1] = end /\ off2[m + 1 + 1] = end + len
    BY <1>2, <1>3, <1>a
  <2>2. 0 + (m + 1) = Len(lens) + 1
    BY <1>2 DEF m
  <2>. QED BY <1>2, <2>1, <2>2
<1>7. ASSUME NEW k \in 1..Len(all)
      PROVE  /\ off2[k + 1] = off2[k] + all[k]
             /\ \A b \in 0..all[k] - 1 : more[off2[k] + b] = <<n, 0 + k, b>>
  <2>1. k \in 1..m \/ k = m + 1
    BY <1>2
  <2>. QED BY <1>5, <1>6, <2>1
<1>8. off2[1] = 0 /\ off2[Len(all) + 1] = end + len
  <2>1. Len(all) + 1 = m + 2
    BY <1>2
  <2>. QED BY <1>3, <2>1
<1>9. Follow(off2, {more}, FALSE, n, all, 0, end + len, 0)
  BY <1>7, <1>8 DEF Follow, Holds
<1>. QED BY <1>3, <1>9 DEF Packed, all

LEMMA PackedTail ==
  ASSUME NEW datas, NEW newer, NEW n, NEW lens \in Seq(Lengths), lens # <<>>, NEW start \in Nat,
         NEW end \in Nat, NEW first \in Nat, Packed(datas, newer, n, lens, start, end, first)
  PROVE  Packed(datas, newer, n, Tail(lens), start + Head(lens), end, first + 1)
<1>. DEFINE m == Len(lens)
            rest == Tail(lens)
<1>1. PICK off \in [1..m + 1 -> 0..end] : Follow(off, datas, newer, n, lens, start, end, first)
  BY DEF Packed
<1>2. /\ m \in Nat /\ 1 \in 1..m /\ Len(rest) = m - 1 /\ Head(lens) = lens[1]
      /\ \A k \in 1..m - 1 : rest[k] = lens[k + 1]
  OBVIOUS
<1>3. /\ off[1] = start /\ off[m + 1] = end
      /\ \A k \in 1..m : /\ off[k + 1] = off[k] + lens[k]
                         /\ \A data \in datas : \A b \in 0..lens[k] - 1 :
                              Holds(data[off[k] + b], n, first + k, b, newer)
  BY <1>1 DEF Follow
<1>. HIDE DEF m, rest
<1>. DEFINE off2 == [k \in 1..m |-> off[k + 1]]
<1>4. off2 \in [1..Len(rest) + 1 -> 0..end]
  BY <1>1, <1>2
<1>5. \A k \in 1..m : off2[k] = off[k + 1]
  OBVIOUS
<1>. HIDE DEF off2
<1>6. off2[1] = start + Head(lens) /\ off2[Len(rest) + 1] = end
  BY <1>2, <1>3, <1>5
<1>7. ASSUME NEW k \in 1..Len(rest)
      PROVE  /\ off2[k + 1] = off2[k] + rest[k]
             /\ \A data \in datas : \A b \in 0..rest[k] - 1 :
                  Holds(data[off2[k] + b], n, (first + 1) + k, b, newer)
  <2>1. k \in 1..m /\ k + 1 \in 1..m /\ rest[k] = lens[k + 1] /\ first + (k + 1) = (first + 1) + k
    BY <1>2
  <2>2. off2[k + 1] = off[k + 1 + 1] /\ off2[k] = off[k + 1]
    BY <1>5, <2>1
  <2>. QED BY <1>3, <2>1, <2>2
<1>8. Follow(off2, datas, newer, n, rest, start + Head(lens), end, first + 1)
  BY <1>6, <1>7 DEF Follow
<1>. QED BY <1>4, <1>8 DEF Packed, rest

\* The first parameter stands at start, inside msgData.
LEMMA PackedHead ==
  ASSUME NEW datas, NEW newer, NEW n, NEW lens \in Seq(Lengths), lens # <<>>, NEW start \in Nat,
         NEW end \in Nat, NEW first \in Nat, Packed(datas, newer, n, lens, start, end, first),
         NEW data \in datas
  PROVE  \A b \in 0..Head(lens) - 1 : Holds(data[start + b], n, first + 1, b, newer)
<1>1. PICK off \in [1..Len(lens) + 1 -> 0..end] : Follow(off, datas, newer, n, lens, start, end, first)
  BY DEF Packed
<1>2. 1 \in 1..Len(lens) /\ Head(lens) = lens[1]
  OBVIOUS
<1>. QED BY <1>1, <1>2 DEF Follow

LEMMA WithinBytes ==
  ASSUME NEW lens \in Seq(Lengths), NEW end \in 0..Capacity, NEW off \in [1..Len(lens) + 1 -> 0..end],
         NEW k \in 1..Len(lens), off[k + 1] = off[k] + lens[k], NEW b \in 0..lens[k] - 1
  PROVE  off[k] + b \in Bytes
<1>. DEFINE m == Len(lens)
<1>1. m \in Nat /\ lens[k] \in Lengths
  OBVIOUS
<1>. HIDE DEF m
<1>2. k \in 1..m + 1 /\ k + 1 \in 1..m + 1 /\ k \in 1..m
  <2>1. k \in 1..m
    BY DEF m
  <2>. QED BY <1>1, <2>1
<1>3. off[k] \in 0..end /\ off[k + 1] \in 0..end
  BY <1>2 DEF m
<1>4. lens[k] \in Nat /\ Capacity \in Nat
  BY <1>1, ParamAssumption
<1>5. off[k] \in Nat /\ b \in Nat /\ off[k] + b < off[k + 1] /\ off[k + 1] <= Capacity
  BY <1>3, <1>4
<1>. QED BY <1>4, <1>5 DEF Bytes

\* Data that has, place for place, what one of these has, or a newer message's.
LEMMA PackedMix ==
  ASSUME NEW datas, NEW newer, NEW n, NEW lens \in Seq(Lengths), NEW start \in Nat, NEW first,
         PackedFrom(datas, newer, n, lens, start, first),
         NEW others,
         \A e \in others : \A b \in Bytes : (\E d \in datas : e[b] = d[b]) \/ e[b][1] > n
  PROVE  PackedFrom(others, TRUE, n, lens, start, first)
<1>1. PICK end \in 0..Capacity : Packed(datas, newer, n, lens, start, end, first)
  BY DEF PackedFrom
<1>2. PICK off \in [1..Len(lens) + 1 -> 0..end] : Follow(off, datas, newer, n, lens, start, end, first)
  BY <1>1 DEF Packed
<1>3. ASSUME NEW k \in 1..Len(lens), NEW e \in others, NEW b \in 0..lens[k] - 1
      PROVE  Holds(e[off[k] + b], n, first + k, b, TRUE)
  <2>3. off[k + 1] = off[k] + lens[k]
        /\ \A d \in datas : Holds(d[off[k] + b], n, first + k, b, newer)
    BY <1>2 DEF Follow
  <2>4. off[k] + b \in Bytes
    BY <2>3, WithinBytes
  <2>. QED BY <2>3, <2>4 DEF Holds
<1>4. Follow(off, others, TRUE, n, lens, start, end, first)
  BY <1>2, <1>3 DEF Follow
<1>. QED BY <1>1, <1>2, <1>4 DEF Packed, PackedFrom

\* Data with the same bytes.
LEMMA PackedSame ==
  ASSUME NEW data, NEW n, NEW lens \in Seq(Lengths), NEW start \in Nat, NEW first,
         PackedFrom({data}, FALSE, n, lens, start, first),
         NEW other, \A b \in Bytes : other[b] = data[b]
  PROVE  PackedFrom({other}, FALSE, n, lens, start, first)
<1>1. PICK end \in 0..Capacity : Packed({data}, FALSE, n, lens, start, end, first)
  BY DEF PackedFrom
<1>2. PICK off \in [1..Len(lens) + 1 -> 0..end] : Follow(off, {data}, FALSE, n, lens, start, end, first)
  BY <1>1 DEF Packed
<1>3. ASSUME NEW k \in 1..Len(lens), NEW b \in 0..lens[k] - 1
      PROVE  Holds(other[off[k] + b], n, first + k, b, FALSE)
  <2>1. off[k + 1] = off[k] + lens[k] /\ Holds(data[off[k] + b], n, first + k, b, FALSE)
    BY <1>2 DEF Follow
  <2>2. off[k] + b \in Bytes
    BY <2>1, WithinBytes
  <2>. QED BY <2>1, <2>2
<1>4. Follow(off, {other}, FALSE, n, lens, start, end, first)
  BY <1>2, <1>3 DEF Follow
<1>. QED BY <1>1, <1>2, <1>4 DEF Packed, PackedFrom
-----------------------------------------------------------------------------
(* The steps.                                                               *)

LEMMA QueueTyped ==
  ASSUME ParamTypeOK
  PROVE  \A q \in DOMAIN queue : queue[q] \in Queued
<1>1. queue \in Seq(Queued)
  BY DEF ParamTypeOK
<1>. QED BY <1>1

LEMMA Packs ==
  ASSUME ParamTypeOK, NEW len \in Lengths, Pack(len)
  PROVE  /\ funParam \in 0..Capacity /\ len \in Nat \ {0} /\ funParam' \in 0..Capacity
         /\ funParam' = funParam + len /\ given' = Append(given, len) /\ given' \in Seq(Lengths)
         /\ \A b \in 0..funParam - 1 : msgData'[b] = msgData[b]
         /\ \A b \in 0..len - 1 : msgData'[funParam + b] = <<Message, Len(given) + 1, b>>
         /\ \A b \in Bytes : msgData'[b] = msgData[b] \/ msgData'[b][1] = Message
         /\ msgData' \in Data
<1>1. /\ funParam \in 0..Capacity /\ len \in Nat \ {0} /\ funParam + len <= Capacity
      /\ Capacity \in Nat
  BY ParamAssumption DEF Pack, ParamTypeOK
<1>2. /\ given' = Append(given, len) /\ funParam' = funParam + len
      /\ msgData' = [b \in Bytes |-> IF b \in funParam..funParam + len - 1
                                    THEN <<Message, Len(given) + 1, b - funParam>> ELSE msgData[b]]
  BY DEF Pack
<1>3. \A b \in 0..funParam - 1 : b \in Bytes /\ b \notin funParam..funParam + len - 1
  BY <1>1 DEF Bytes
<1>4. \A b \in 0..len - 1 : /\ funParam + b \in Bytes /\ funParam + b \in funParam..funParam + len - 1
                            /\ (funParam + b) - funParam = b
  BY <1>1 DEF Bytes
<1>5. \A b \in funParam..funParam + len - 1 : b - funParam \in Nat
  BY <1>1
<1>6. Message \in Nat /\ Len(given) + 1 \in Nat /\ msgData \in Data
  BY DEF ParamTypeOK, Message
<1>7. msgData' \in Data
  BY <1>2, <1>5, <1>6 DEF Data
<1>8. given' \in Seq(Lengths)
  BY <1>2 DEF ParamTypeOK
<1>9. \A b \in 0..funParam - 1 : msgData'[b] = msgData[b]
  BY <1>2, <1>3
<1>10. \A b \in 0..len - 1 : msgData'[funParam + b] = <<Message, Len(given) + 1, b>>
  BY <1>2, <1>4
<1>11. funParam' \in 0..Capacity
  BY <1>1, <1>2
<1>12. \A b \in Bytes : msgData'[b] = msgData[b] \/ msgData'[b][1] = Message
  BY <1>2
<1>. QED BY <1>1, <1>2, <1>7, <1>8, <1>9, <1>10, <1>11, <1>12

LEMMA Sends ==
  ASSUME ParamTypeOK, Send
  PROVE  /\ queue' \in Seq(Queued)
         /\ \A q \in DOMAIN queue : q \in DOMAIN queue' /\ queue'[q] = queue[q]
         /\ \A q \in DOMAIN queue' :
              \/ q \in DOMAIN queue /\ queue'[q] = queue[q]
              \/ queue'[q] = Copy /\ \A r \in DOMAIN queue' : r >= q => r = q
<1>1. Copy \in Queued /\ queue' = Append(queue, Copy) /\ queue \in Seq(Queued)
  BY DEF Copy, Message, Queued, Send, ParamTypeOK
<1>. DEFINE m == Len(queue)
<1>2. m \in Nat /\ DOMAIN queue = 1..m /\ DOMAIN queue' = 1..m + 1 /\ queue'[m + 1] = Copy
      /\ \A q \in 1..m : queue'[q] = queue[q]
  BY <1>1
<1>3. queue' \in Seq(Queued)
  BY <1>1
<1>. HIDE DEF m
<1>4. ASSUME NEW q \in 1..m + 1
      PROVE  q \in 1..m \/ (q = m + 1 /\ \A r \in 1..m + 1 : r >= q => r = q)
  BY <1>2
<1>5. \A q \in 1..m : q \in 1..m + 1
  BY <1>2
<1>. QED BY <1>2, <1>3, <1>4, <1>5

\* The place is copied from the first message, which is popped behind the last.
LEMMA Copies ==
  ASSUME ParamTypeOK, SlotInv, NEW p \in Places, CopyPlace(p)
  PROVE  /\ 1 \in DOMAIN queue /\ queue[1] \in Queued /\ queue' \in Seq(Queued)
         /\ \/ uncopied' # {} /\ queue' = queue
            \/ uncopied' = {} /\ \A q \in DOMAIN queue' : q + 1 \in DOMAIN queue /\ queue'[q] = queue[q + 1]
         /\ uncopied # {} /\ uncopied' = uncopied \ {p} /\ slot' \in Data
         /\ \A b \in Bytes : slot'[b] = IF b = p THEN queue[1].data[b] ELSE slot[b]
         /\ IF p = EventPlace THEN event'.number = queue[1].number /\ event'.lens = queue[1].lens
                              ELSE event' = event
<1>1. p \in uncopied /\ queue # <<>> /\ queue \in Seq(Queued)
  BY DEF CopyPlace, SlotInv, ParamTypeOK
<1>2. 1 \in DOMAIN queue /\ queue[1] \in Queued /\ Head(queue) = queue[1] /\ Tail(queue) \in Seq(Queued)
      /\ \A q \in DOMAIN Tail(queue) : q + 1 \in DOMAIN queue /\ Tail(queue)[q] = queue[q + 1]
  BY <1>1
<1>3. uncopied' = uncopied \ {p} /\ queue' = IF uncopied = {p} THEN Tail(queue) ELSE queue
  BY DEF CopyPlace
<1>4. uncopied' = {} <=> uncopied = {p}
  BY <1>1, <1>3
<1>5. EventPlace \notin Bytes
  BY ParamAssumption DEF EventPlace, Bytes
<1>6. /\ slot' \in Data
      /\ \A b \in Bytes : slot'[b] = IF b = p THEN queue[1].data[b] ELSE slot[b]
  <2>1. slot \in Data /\ queue[1].data \in Data
    BY <1>2 DEF ParamTypeOK, Queued
  <2>2. CASE p = EventPlace
    BY <1>5, <2>1, <2>2 DEF CopyPlace
  <2>3. CASE p # EventPlace
    <3>1. p \in Bytes /\ slot' = [slot EXCEPT ![p] = queue[1].data[p]]
      BY <1>2, <2>3 DEF CopyPlace, Places
    <3>. QED BY <2>1, <3>1 DEF Data
  <2>. QED BY <2>2, <2>3
<1>7. IF p = EventPlace THEN event'.number = queue[1].number /\ event'.lens = queue[1].lens
                        ELSE event' = event
  BY <1>2 DEF CopyPlace
<1>. QED BY <1>1, <1>2, <1>3, <1>4, <1>6, <1>7

LEMMA LengthsPositive ==
  ASSUME NEW lens \in Seq(Lengths), lens # <<>>
  PROVE  Head(lens) \in Nat \ {0} /\ Tail(lens) \in Seq(Lengths)
<1>1. Head(lens) \in Lengths /\ Tail(lens) \in Seq(Lengths)
  OBVIOUS
<1>. QED BY <1>1, ParamAssumption

LEMMA ParamTypeStep ==
  ASSUME ParamTypeOK, SlotInv, [ParamNext]_paramVars PROVE ParamTypeOK'
<1>. USE DEF mainVars, slotVars, threadVars
<1>1. CASE BeginPack
  BY <1>1, ParamAssumption DEF BeginPack, ParamTypeOK
<1>2. ASSUME NEW len \in Lengths, Pack(len) PROVE ParamTypeOK'
  BY <1>2, Packs DEF Pack, ParamTypeOK
<1>3. CASE EndPack
  BY <1>3 DEF EndPack, ParamTypeOK
<1>4. CASE Send
  <2>1. queue' \in Seq(Queued) /\ sent' \in Nat /\ given' \in Seq(Lengths)
    BY <1>4, Sends DEF Send, ParamTypeOK, Message
  <2>. QED BY <1>4, <2>1 DEF Send, ParamTypeOK
<1>5. CASE SetEventMsg
  BY <1>5 DEF SetEventMsg, ParamTypeOK
<1>6. ASSUME NEW p \in Places, CopyPlace(p) PROVE ParamTypeOK'
  <2>1. /\ queue' \in Seq(Queued) /\ uncopied' \subseteq Places /\ slot' \in Data
        /\ queue[1].number \in Nat /\ queue[1].lens \in Seq(Lengths)
    BY <1>6, Copies DEF ParamTypeOK, Queued
  <2>2. event'.number \in Nat /\ event'.lens \in Seq(Lengths)
    BY <1>6, <2>1, Copies DEF ParamTypeOK
  <2>. QED BY <1>6, <2>1, <2>2 DEF CopyPlace, ParamTypeOK
<1>7. CASE Switch
  <2>1. number' \in Nat /\ expected' \in Seq(Lengths) /\ at' = 0 /\ param' = 0 /\ byte' = 0
        /\ UNCHANGED <<mainVars, queue, uncopied, slotVars>>
    BY <1>7 DEF Switch, ParamTypeOK
  <2>2. expected' # <<>> => byte' < Head(expected')
    <3>1. expected' # <<>> => Head(expected') \in Nat \ {0}
      BY <2>1, LengthsPositive
    <3>. QED BY <2>1, <3>1
  <2>. QED BY <2>1, <2>2 DEF ParamTypeOK
<1>8. CASE UnPack
  <2>1. Head(expected) \in Nat \ {0} /\ Tail(expected) \in Seq(Lengths)
        /\ UNCHANGED <<mainVars, queue, uncopied, slotVars, number>>
    BY <1>8, LengthsPositive DEF UnPack, ParamTypeOK
  <2>2. CASE byte + 1 < Head(expected)
    BY <1>8, <2>1, <2>2 DEF UnPack, ParamTypeOK
  <2>3. CASE ~(byte + 1 < Head(expected))
    <3>1. /\ byte' = 0 /\ param' = param + 1 /\ at' = at + Head(expected) /\ expected' = Tail(expected)
          /\ at \in Nat /\ param \in Nat
      BY <1>8, <2>3 DEF UnPack, ParamTypeOK
    <3>2. expected' # <<>> => Head(expected') \in Nat \ {0}
      BY <2>1, <3>1, LengthsPositive
    <3>3. expected' # <<>> => byte' < Head(expected')
      BY <3>1, <3>2
    <3>4. at' \in Nat /\ param' \in Nat /\ byte' \in Nat /\ expected' \in Seq(Lengths)
      BY <2>1, <3>1
    <3>. QED BY <2>1, <3>3, <3>4 DEF ParamTypeOK
  <2>. QED BY <2>2, <2>3
<1>9. CASE UNCHANGED paramVars
  BY <1>9 DEF paramVars, ParamTypeOK
<1>. QED BY <1>1, <1>2, <1>3, <1>4, <1>5, <1>6, <1>7, <1>8, <1>9 DEF ParamNext

LEMMA NumbersStep ==
  ASSUME ParamTypeOK, NumbersInv, SlotInv, [ParamNext]_paramVars PROVE NumbersInv'
<1>. USE DEF mainVars, slotVars, threadVars
<1>1. CASE Send
  <2>1. sent' = sent + 1 /\ sent \in Nat /\ event' = event /\ number' = number /\ Copy.number = sent + 1
    BY <1>1 DEF Send, ParamTypeOK, Copy, Message
  <2>2. \A q \in DOMAIN queue : queue[q].number \in Nat
    BY QueueTyped DEF Queued
  <2>3. \A q \in DOMAIN queue' : queue'[q].number <= sent'
    BY <1>1, <2>1, <2>2, Sends DEF NumbersInv
  <2>. QED BY <2>1, <2>3 DEF NumbersInv, ParamTypeOK
<1>2. ASSUME NEW p \in Places, CopyPlace(p) PROVE NumbersInv'
  <2>1. event'.number <= sent /\ \A q \in DOMAIN queue' : queue'[q].number <= sent
    BY <1>2, Copies DEF NumbersInv
  <2>. QED BY <1>2, <2>1 DEF CopyPlace, NumbersInv
<1>3. CASE BeginPack \/ (\E len \in Lengths : Pack(len)) \/ EndPack \/ SetEventMsg \/ Switch \/ UnPack
           \/ UNCHANGED paramVars
  BY <1>3 DEF BeginPack, Pack, EndPack, SetEventMsg, Switch, UnPack, paramVars, NumbersInv
<1>. QED BY <1>1, <1>2, <1>3 DEF ParamNext

LEMMA QueueStep ==
  ASSUME ParamTypeOK, NumbersInv, QueueInv, SlotInv, [ParamNext]_paramVars PROVE QueueInv'
<1>. USE DEF mainVars, slotVars, threadVars
<1>00. 0 \in Nat /\ 0 \in 0..Capacity
  BY ParamAssumption
<1>0. 0 \in 0..Capacity /\ \A datas, n : Packed(datas, FALSE, n, <<>>, 0, 0, 0)
  BY <1>00, PackedEmpty, Zenon
<1>t. \A q \in DOMAIN queue : queue[q].number \in Nat /\ queue[q].lens \in Seq(Lengths)
  BY QueueTyped DEF Queued
<1>1. CASE BeginPack
  BY <1>0, <1>1 DEF BeginPack, QueueInv, Behind, Message
<1>2. ASSUME NEW len \in Lengths, Pack(len) PROVE QueueInv'
  <2>1. Packed({msgData}, FALSE, Message, given, 0, funParam, 0) /\ given \in Seq(Lengths)
        /\ UNCHANGED <<packing, sent, queue>>
    BY <1>2 DEF Pack, QueueInv, ParamTypeOK
  <2>2. funParam \in Nat
    BY <1>2, Packs
  <2>3. Packed({msgData'}, FALSE, Message, Append(given, len), 0, funParam + len, 0)
    BY <1>2, <2>1, <2>2, Packs, PackedAppend
  <2>4. Packed({msgData'}, FALSE, Message, given', 0, funParam', 0) /\ funParam' \in 0..Capacity
    BY <1>2, <2>3, Packs
  <2>5. ASSUME NEW q \in DOMAIN queue
        PROVE  PackedFrom(Behind(q)', TRUE, queue[q].number, queue[q].lens, 0, 0)
    <3>1. queue[q].number \in Nat /\ queue[q].lens \in Seq(Lengths) /\ Message > queue[q].number
      BY <1>t DEF NumbersInv, Message, ParamTypeOK
    <3>2. \A b \in Bytes : msgData'[b] = msgData[b] \/ msgData'[b][1] > queue[q].number
      BY <1>2, <3>1, Packs
    <3>3. \A e \in Behind(q)' : e = msgData' \/ e \in Behind(q)
      BY <2>1 DEF Behind
    <3>4. msgData \in Behind(q)
      BY DEF Behind
    <3>5. \A e \in Behind(q)' : \A b \in Bytes : (\E d \in Behind(q) : e[b] = d[b]) \/ e[b][1] > queue[q].number
      BY <3>2, <3>3, <3>4
    <3>6. PackedFrom(Behind(q), TRUE, queue[q].number, queue[q].lens, 0, 0)
      BY DEF QueueInv
    <3>. QED BY <3>1, <3>5, <3>6, PackedMix
  <2>6. PackedFrom({msgData'}, FALSE, Message, given', 0, 0)
    BY <2>4 DEF PackedFrom
  <2>. QED BY <2>1, <2>4, <2>5, <2>6 DEF QueueInv, Message
<1>3. CASE EndPack
  BY <1>3 DEF EndPack, QueueInv, Behind, Message
<1>4. CASE Send
  <2>1. given' = <<>> /\ ~packing' /\ UNCHANGED <<msgData, slot>> /\ Copy.data = msgData
        /\ Copy.number = Message /\ Copy.lens = given /\ given \in Seq(Lengths)
    BY <1>4 DEF Send, Copy, ParamTypeOK
  <2>2. PackedFrom({Copy.data}, FALSE, Copy.number, Copy.lens, 0, 0)
    BY <2>1 DEF QueueInv
  <2>3. \A q \in DOMAIN queue' : PackedFrom({queue'[q].data}, FALSE, queue'[q].number, queue'[q].lens, 0, 0)
    BY <1>4, <2>2, Sends DEF QueueInv
  <2>4. ASSUME NEW q \in DOMAIN queue', queue'[q] = Copy, \A r \in DOMAIN queue' : r >= q => r = q
        PROVE  PackedFrom(Behind(q)', TRUE, queue'[q].number, queue'[q].lens, 0, 0)
    <3>1. \A e \in Behind(q)' : e = msgData
      BY <2>1, <2>4 DEF Behind
    <3>2. \A e \in Behind(q)' : \A b \in Bytes : (\E d \in {Copy.data} : e[b] = d[b]) \/ e[b][1] > Copy.number
      BY <2>1, <3>1
    <3>3. PackedFrom(Behind(q)', TRUE, Copy.number, Copy.lens, 0, 0)
      BY <2>1, <2>2, <3>2, PackedMix
    <3>. QED BY <2>4, <3>3
  <2>5. ASSUME NEW q \in DOMAIN queue, queue'[q] = queue[q]
        PROVE  PackedFrom(Behind(q)', TRUE, queue'[q].number, queue'[q].lens, 0, 0)
    <3>1. \A e \in Behind(q)' : e \in Behind(q)
      <4>1. ASSUME NEW r \in DOMAIN queue', r >= q PROVE queue'[r].data \in Behind(q)
        BY <1>4, <2>1, <4>1, Sends DEF Behind
      <4>. QED BY <2>1, <4>1 DEF Behind
    <3>2. \A e \in Behind(q)' : \A b \in Bytes : (\E d \in Behind(q) : e[b] = d[b]) \/ e[b][1] > queue[q].number
      BY <3>1
    <3>3. PackedFrom(Behind(q), TRUE, queue[q].number, queue[q].lens, 0, 0)
      BY DEF QueueInv
    <3>4. PackedFrom(Behind(q)', TRUE, queue[q].number, queue[q].lens, 0, 0)
      BY <1>t, <3>2, <3>3, PackedMix
    <3>. QED BY <2>5, <3>4
  <2>6. \A q \in DOMAIN queue' : PackedFrom(Behind(q)', TRUE, queue'[q].number, queue'[q].lens, 0, 0)
    BY <1>4, <2>4, <2>5, Sends
  <2>7. PackedFrom({msgData'}, FALSE, Message', given', 0, 0)
    BY <1>0, <2>1 DEF PackedFrom
  <2>. QED BY <2>1, <2>3, <2>6, <2>7 DEF QueueInv
<1>5. ASSUME NEW p \in Places, CopyPlace(p) PROVE QueueInv'
  <2>1. UNCHANGED mainVars
    BY <1>5 DEF CopyPlace
  <2>2. CASE queue' = queue
    BY <2>1, <2>2 DEF QueueInv, Behind, Message
  <2>3. CASE \A q \in DOMAIN queue' : q + 1 \in DOMAIN queue /\ queue'[q] = queue[q + 1]
    <3>1. ASSUME NEW q \in DOMAIN queue'
          PROVE  PackedFrom(Behind(q)', TRUE, queue'[q].number, queue'[q].lens, 0, 0)
      <4>0. queue \in Seq(Queued) /\ queue' \in Seq(Queued)
        BY <1>5, Copies DEF ParamTypeOK
      <4>1. ASSUME NEW r \in DOMAIN queue', r >= q PROVE queue'[r].data \in Behind(q + 1)
        <5>1. r + 1 >= q + 1
          BY <4>0, <4>1
        <5>2. r + 1 \in DOMAIN queue /\ queue'[r] = queue[r + 1]
          BY <2>3
        <5>. QED BY <5>1, <5>2 DEF Behind
      <4>2. \A e \in Behind(q)' : e \in Behind(q + 1)
        BY <2>1, <4>1 DEF Behind
      <4>3. q + 1 \in DOMAIN queue /\ queue'[q] = queue[q + 1]
        BY <2>3
      <4>4. PackedFrom(Behind(q + 1), TRUE, queue'[q].number, queue'[q].lens, 0, 0)
        BY <4>3 DEF QueueInv
      <4>5. \A e \in Behind(q)' : \A b \in Bytes : (\E d \in Behind(q + 1) : e[b] = d[b]) \/ e[b][1] > queue'[q].number
        BY <4>2
      <4>6. queue'[q].lens \in Seq(Lengths)
        BY <1>t, <4>3
      <4>. QED BY <4>4, <4>5, <4>6, PackedMix
    <3>2. \A q \in DOMAIN queue' : PackedFrom({queue'[q].data}, FALSE, queue'[q].number, queue'[q].lens, 0, 0)
      BY <2>3 DEF QueueInv
    <3>. QED BY <2>1, <3>1, <3>2 DEF QueueInv, Message
  <2>4. \/ queue' = queue
        \/ \A q \in DOMAIN queue' : q + 1 \in DOMAIN queue /\ queue'[q] = queue[q + 1]
    BY <1>5, Copies
  <2>. QED BY <2>2, <2>3, <2>4
<1>6. CASE SetEventMsg \/ Switch \/ UnPack \/ UNCHANGED paramVars
  <2>1. UNCHANGED <<msgData, given, funParam, packing, sent, queue>>
    BY <1>6 DEF SetEventMsg, Switch, UnPack, paramVars
  <2>. QED BY <2>1 DEF QueueInv, Behind, Message
<1>. QED BY <1>1, <1>2, <1>3, <1>4, <1>5, <1>6 DEF ParamNext

\* What is anywhere after a step is there before it, or newer, place for place.
LEMMA AnywhereStep ==
  ASSUME ParamTypeOK, NumbersInv, SlotInv, [ParamNext]_paramVars, NEW n \in Nat, n <= sent
  PROVE  \A e \in Anywhere' : \A b \in Bytes : (\E d \in Anywhere : e[b] = d[b]) \/ e[b][1] > n
<1>. USE DEF mainVars, slotVars, threadVars
<1>1. ASSUME NEW len \in Lengths, Pack(len)
      PROVE  \A e \in Anywhere' : \A b \in Bytes : (\E d \in Anywhere : e[b] = d[b]) \/ e[b][1] > n
  <2>1. \A b \in Bytes : msgData'[b] = msgData[b] \/ msgData'[b][1] > n
    <3>1. Message > n
      BY DEF Message, ParamTypeOK
    <3>. QED BY <1>1, <3>1, Packs
  <2>2. \A e \in Anywhere' : e = msgData' \/ e \in Anywhere
    BY <1>1 DEF Pack, Anywhere
  <2>3. msgData \in Anywhere
    BY DEF Anywhere
  <2>. QED BY <2>1, <2>2, <2>3
<1>2. CASE Send
  <2>1. \A e \in Anywhere' : e \in Anywhere
    <3>1. UNCHANGED <<msgData, slot>> /\ Copy.data = msgData
      BY <1>2 DEF Send, Copy
    <3>2. \A q \in DOMAIN queue' : queue'[q].data \in Anywhere
      BY <1>2, <3>1, Sends DEF Anywhere
    <3>. QED BY <3>1, <3>2 DEF Anywhere
  <2>. QED BY <2>1
<1>3. ASSUME NEW p \in Places, CopyPlace(p)
      PROVE  \A e \in Anywhere' : \A b \in Bytes : (\E d \in Anywhere : e[b] = d[b]) \/ e[b][1] > n
  <2>1. \A q \in DOMAIN queue' : queue'[q].data \in Anywhere
    BY <1>3, Copies DEF Anywhere
  <2>2. msgData' = msgData /\ msgData \in Anywhere /\ slot \in Anywhere
    BY <1>3 DEF CopyPlace, Anywhere
  <2>3. \A e \in Anywhere' : e = slot' \/ e \in Anywhere
    BY <2>1, <2>2 DEF Anywhere
  <2>4. queue[1].data \in Anywhere
    BY <1>3, Copies DEF Anywhere
  <2>5. \A b \in Bytes : slot'[b] = slot[b] \/ slot'[b] = queue[1].data[b]
    BY <1>3, Copies
  <2>. QED BY <2>2, <2>3, <2>4, <2>5
<1>4. CASE BeginPack \/ EndPack \/ SetEventMsg \/ Switch \/ UnPack \/ UNCHANGED paramVars
  <2>1. Anywhere' = Anywhere
    BY <1>4 DEF BeginPack, EndPack, SetEventMsg, Switch, UnPack, paramVars, Anywhere
  <2>. QED BY <2>1
<1>. QED BY <1>1, <1>2, <1>3, <1>4 DEF ParamNext

LEMMA SlotStep ==
  ASSUME ParamTypeOK, NumbersInv, QueueInv, SlotInv, [ParamNext]_paramVars PROVE SlotInv'
<1>. USE DEF mainVars, slotVars, threadVars
<1>1. CASE UNCHANGED <<uncopied, slotVars>>
  <2>1. uncopied = {} => PackedFrom(Anywhere', TRUE, event.number, event.lens, 0, 0)
    <3>1. event.number \in Nat /\ event.number <= sent /\ event.lens \in Seq(Lengths)
      BY DEF ParamTypeOK, NumbersInv
    <3>2. \A e \in Anywhere' : \A b \in Bytes : (\E d \in Anywhere : e[b] = d[b]) \/ e[b][1] > event.number
      BY <3>1, AnywhereStep
    <3>3. uncopied = {} => PackedFrom(Anywhere, TRUE, event.number, event.lens, 0, 0)
      BY DEF SlotInv
    <3>. QED BY <3>1, <3>2, <3>3, PackedMix
  <2>2. uncopied # {} => queue' # <<>> /\ queue'[1] = queue[1]
    <3>1. CASE Send
      <4>1. queue # <<>> => 1 \in DOMAIN queue /\ queue'[1] = queue[1] /\ 1 \in DOMAIN queue'
        <5>1. queue # <<>> => 1 \in DOMAIN queue
          BY DEF ParamTypeOK
        <5>. QED BY <3>1, <5>1, Sends
      <4>. QED BY <4>1 DEF SlotInv
    <3>2. CASE UNCHANGED queue
      BY <3>2 DEF SlotInv
    <3>3. ASSUME NEW p \in Places PROVE ~CopyPlace(p)
      BY <1>1 DEF CopyPlace
    <3>. QED BY <3>1, <3>2, <3>3
           DEF ParamNext, BeginPack, Pack, EndPack, SetEventMsg, Switch, UnPack, paramVars
  <2>. QED BY <1>1, <2>1, <2>2 DEF SlotInv
<1>2. CASE SetEventMsg
  BY <1>2 DEF SetEventMsg, SlotInv, Places
<1>3. ASSUME NEW p \in Places, CopyPlace(p) PROVE SlotInv'
  <2>0. /\ uncopied # {} /\ uncopied' = uncopied \ {p} /\ 1 \in DOMAIN queue
        /\ \A b \in Bytes : slot'[b] = IF b = p THEN queue[1].data[b] ELSE slot[b]
        /\ IF p = EventPlace THEN event'.number = queue[1].number /\ event'.lens = queue[1].lens
                             ELSE event' = event
    BY <1>3, Copies
  <2>1. \A b \in Bytes \ uncopied' : slot'[b] = queue[1].data[b]
    BY <2>0 DEF SlotInv
  <2>2. EventPlace \notin uncopied' => event'.number = queue[1].number /\ event'.lens = queue[1].lens
    BY <2>0 DEF SlotInv
  <2>3. CASE uncopied' # {} /\ queue' = queue
    BY <2>0, <2>1, <2>2, <2>3 DEF SlotInv
  <2>4. CASE /\ uncopied' = {}
             /\ \A q \in DOMAIN queue' : q + 1 \in DOMAIN queue /\ queue'[q] = queue[q + 1]
    <3>0. queue[1].lens \in Seq(Lengths) /\ queue[1].number \in Nat
      BY <1>3, Copies DEF Queued
    <3>1. \A b \in Bytes : slot'[b] = queue[1].data[b]
      BY <2>1, <2>4
    <3>2. event'.number = queue[1].number /\ event'.lens = queue[1].lens
      BY <2>2, <2>4
    <3>3. PackedFrom({queue[1].data}, FALSE, queue[1].number, queue[1].lens, 0, 0)
          /\ PackedFrom(Behind(1), TRUE, queue[1].number, queue[1].lens, 0, 0)
      BY <2>0 DEF QueueInv
    <3>5. PackedFrom({slot'}, FALSE, queue[1].number, queue[1].lens, 0, 0)
      BY <3>0, <3>1, <3>3, PackedSame
    <3>6. queue[1].data \in Behind(1) /\ msgData \in Behind(1)
      BY <2>0 DEF Behind
    <3>7. \A q \in DOMAIN queue' : queue'[q].data \in Behind(1)
      <4>1. \A q \in DOMAIN queue : q >= 1
        BY DEF ParamTypeOK
      <4>. QED BY <2>4, <4>1 DEF Behind
    <3>8. msgData' = msgData
      BY <1>3 DEF CopyPlace
    <3>9. \A e \in Anywhere' : e = slot' \/ e \in Behind(1)
      BY <3>6, <3>7, <3>8 DEF Anywhere
    <3>10. \A e \in Anywhere' : \A b \in Bytes : (\E d \in Behind(1) : e[b] = d[b]) \/ e[b][1] > queue[1].number
      BY <3>1, <3>6, <3>9
    <3>11. PackedFrom(Anywhere', TRUE, queue[1].number, queue[1].lens, 0, 0)
      BY <3>0, <3>3, <3>10, PackedMix
    <3>. QED BY <2>4, <3>2, <3>5, <3>11 DEF SlotInv
  <2>. QED BY <1>3, <2>3, <2>4, Copies
<1>. QED BY <1>1, <1>2, <1>3
       DEF ParamNext, BeginPack, Pack, EndPack, Send, Switch, UnPack, paramVars

LEMMA ThreadStep ==
  ASSUME ParamTypeOK, NumbersInv, SlotInv, ThreadInv, [ParamNext]_paramVars PROVE ThreadInv'
<1>. USE DEF mainVars, slotVars, threadVars
<1>1. ASSUME mix # "early", UNCHANGED <<number, expected, at, param>>
      PROVE  PackedFrom(Anywhere', TRUE, number', expected', at', param')
  <2>1. number \in Nat /\ number <= sent /\ expected \in Seq(Lengths) /\ at \in Nat
    BY DEF ParamTypeOK, NumbersInv
  <2>2. \A e \in Anywhere' : \A b \in Bytes : (\E d \in Anywhere : e[b] = d[b]) \/ e[b][1] > number
    BY <2>1, AnywhereStep
  <2>3. PackedFrom(Anywhere, TRUE, number, expected, at, param)
    BY <1>1 DEF ThreadInv
  <2>4. PackedFrom(Anywhere', TRUE, number, expected, at, param)
    BY <2>1, <2>2, <2>3, PackedMix
  <2>. QED BY <1>1, <2>4
<1>2. CASE SetEventMsg
  <2>1. UNCHANGED threadVars /\ mix' \in {"late", "early"} /\ (mix' # "early" => mix # "early")
    BY <1>2 DEF SetEventMsg, ThreadInv
  <2>. QED BY <1>1, <2>1 DEF ThreadInv
<1>3. ASSUME NEW p \in Places, CopyPlace(p) PROVE ThreadInv'
  <2>1. UNCHANGED threadVars /\ mix' = mix /\ mix # "none"
    BY <1>3, Copies DEF CopyPlace, ThreadInv
  <2>. QED BY <1>1, <2>1 DEF ThreadInv
<1>4. CASE Switch
  BY <1>4 DEF Switch, ThreadInv, SlotInv, Anywhere
<1>5. CASE UnPack
  <2>1. /\ expected # <<>> /\ expected \in Seq(Lengths) /\ at \in Nat /\ param \in Nat
        /\ UNCHANGED <<mainVars, queue, uncopied, slotVars, number, mix>>
    BY <1>5 DEF UnPack, ParamTypeOK
  <2>2. Anywhere' = Anywhere
    BY <2>1 DEF Anywhere
  <2>3. CASE UNCHANGED <<expected, at, param>>
    BY <2>1, <2>2, <2>3 DEF ThreadInv
  <2>4. CASE param' = param + 1 /\ at' = at + Head(expected) /\ expected' = Tail(expected)
    <3>1. ASSUME NEW datas, NEW newer, PackedFrom(datas, newer, number, expected, at, param)
          PROVE  PackedFrom(datas, newer, number', expected', at', param')
      <4>1. PICK end \in 0..Capacity : Packed(datas, newer, number, expected, at, end, param)
        BY <3>1 DEF PackedFrom
      <4>2. end \in Nat
        BY ParamAssumption
      <4>3. Packed(datas, newer, number, Tail(expected), at + Head(expected), end, param + 1)
        BY <2>1, <4>1, <4>2, PackedTail
      <4>. QED BY <2>1, <2>4, <4>3 DEF PackedFrom
    <3>. QED BY <2>1, <2>2, <3>1 DEF ThreadInv
  <2>. QED BY <1>5, <2>3, <2>4 DEF UnPack
<1>6. CASE UNCHANGED <<uncopied, slotVars, threadVars, mix>>
  BY <1>1, <1>6 DEF ThreadInv
<1>. QED BY <1>2, <1>3, <1>4, <1>5, <1>6 DEF ParamNext, BeginPack, Pack, EndPack, Send, paramVars

LEMMA UnpackedStep ==
  ASSUME ParamTypeOK, ThreadInv, UnpackedAsPacked, [ParamNext]_paramVars PROVE UnpackedAsPacked'
<1>1. CASE UnPack
  <2>1. /\ expected # <<>> /\ expected \in Seq(Lengths) /\ at \in Nat /\ param \in Nat
        /\ byte \in 0..Head(expected) - 1 /\ number' = number /\ mix' = mix
        /\ out' = out \cup {Unpacked}
    <3>1. expected # <<>> /\ expected \in Seq(Lengths) /\ byte \in Nat /\ byte < Head(expected)
      BY <1>1 DEF UnPack, ParamTypeOK
    <3>2. Head(expected) \in Nat \ {0}
      BY <3>1, LengthsPositive
    <3>3. byte \in 0..Head(expected) - 1
      BY <3>1, <3>2
    <3>. QED BY <1>1, <3>1, <3>3 DEF UnPack, ParamTypeOK
  <2>2. ASSUME NEW datas, NEW newer, slot \in datas, PackedFrom(datas, newer, number, expected, at, param)
        PROVE  Holds(slot[at + byte], number, param + 1, byte, newer)
    <3>1. PICK end \in 0..Capacity : Packed(datas, newer, number, expected, at, end, param)
      BY <2>2 DEF PackedFrom
    <3>2. end \in Nat
      BY ParamAssumption
    <3>. QED BY <2>1, <2>2, <3>1, <3>2, PackedHead
  <2>3. mix = "none" => Own(Unpacked)
    <3>. SUFFICES ASSUME mix = "none" PROVE Own(Unpacked)
      OBVIOUS
    <3>1. slot \in {slot} /\ PackedFrom({slot}, FALSE, number, expected, at, param)
      BY DEF ThreadInv
    <3>2. PICK end \in 0..Capacity : Packed({slot}, FALSE, number, expected, at, end, param)
      BY <3>1 DEF PackedFrom
    <3>3. end \in Nat
      BY ParamAssumption
    <3>4. Holds(slot[at + byte], number, param + 1, byte, FALSE)
      BY <2>1, <3>1, <3>2, <3>3, PackedHead
    <3>. QED BY <3>4 DEF Own, Unpacked, Holds
  <2>4. mix = "late" => Own(Unpacked) \/ Unpacked.byte[1] > number
    <3>1. slot \in Anywhere
      BY DEF Anywhere
    <3>2. mix = "late" => Holds(slot[at + byte], number, param + 1, byte, TRUE)
      BY <2>2, <3>1 DEF ThreadInv
    <3>. QED BY <3>2 DEF Own, Unpacked, Holds
  <2>. QED BY <2>1, <2>3, <2>4 DEF UnpackedAsPacked, Own
<1>2. CASE SetEventMsg
  BY <1>2 DEF SetEventMsg, threadVars, UnpackedAsPacked, Own
<1>3. CASE Switch
  BY <1>3 DEF Switch, UnpackedAsPacked
<1>4. CASE UNCHANGED <<number, out, mix>>
  BY <1>4 DEF UnpackedAsPacked, Own
<1>. QED BY <1>1, <1>2, <1>3, <1>4
       DEF ParamNext, BeginPack, Pack, EndPack, Send, CopyPlace, paramVars, threadVars

\* What is unpacked is what was packed for the message switched on, byte for byte, as
\* long as setEventMsg does not run meanwhile, and nothing older than it if it begins
\* after the switch, for any lengths and any messages before and after
\* (sender.cpp:27-44, responser.cpp:15-47).
THEOREM ParamUnpackedAsPacked == ParamSpec => []UnpackedAsPacked
<1>1. ParamInit => ParamInv /\ UnpackedAsPacked
  <2>. SUFFICES ASSUME ParamInit PROVE ParamInv /\ UnpackedAsPacked
    OBVIOUS
  <2>0. 0 \in 0..Capacity /\ \A datas, n : /\ Packed(datas, FALSE, n, <<>>, 0, 0, 0)
                                         /\ Packed(datas, TRUE, n, <<>>, 0, 0, 0)
    <3>1. 0 \in Nat /\ 0 \in 0..Capacity
      BY ParamAssumption
    <3>. QED BY <3>1, PackedEmpty, Zenon
  <2>1. ParamTypeOK
    BY ParamAssumption DEF ParamInit, ParamTypeOK, Unset, Data
  <2>2. NumbersInv /\ QueueInv
    <3>1. queue = <<>> /\ DOMAIN queue = {} /\ ~packing /\ given = <<>>
          /\ event.number = 0 /\ number = 0 /\ sent = 0
      BY DEF ParamInit
    <3>2. PackedFrom({msgData}, FALSE, Message, <<>>, 0, 0)
      BY <2>0, Zenon DEF PackedFrom
    <3>3. NumbersInv
      BY <3>1 DEF NumbersInv
    <3>4. QueueInv
      BY <3>1, <3>2 DEF QueueInv
    <3>. QED BY <3>3, <3>4
  <2>3. SlotInv /\ ThreadInv
    BY <2>0 DEF ParamInit, SlotInv, ThreadInv, PackedFrom
  <2>. QED BY <2>1, <2>2, <2>3 DEF ParamInit, ParamInv, UnpackedAsPacked
<1>2. ParamInv /\ UnpackedAsPacked /\ [ParamNext]_paramVars => ParamInv' /\ UnpackedAsPacked'
  BY ParamTypeStep, NumbersStep, QueueStep, SlotStep, ThreadStep, UnpackedStep DEF ParamInv
<1>. QED BY <1>1, <1>2, PTL DEF ParamSpec
=============================================================================
