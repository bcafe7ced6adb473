-------------------------- MODULE CharRespondProofs -------------------------
(***************************************************************************)
(* Proofs about the handlers of char_respond.cpp and the three functions   *)
(* behind them, which are proved about one by one: the command runner, for *)
(* any buffer, retry limit and output; the parser of the scan, for any     *)
(* text and width of size_t; the reader of the key file, for any file; and *)
(* the parser of messages, for any payload.                                *)
(* The handlers use them as they are specified alone, so that what is      *)
(* proved of each holds in every behaviour of the handlers.                *)
(***************************************************************************)
EXTENDS CharRespond, SequenceTheorems, FiniteSetTheorems, WellFoundedInduction, TLAPS

-----------------------------------------------------------------------------
(* Numbers and sequences.                                                   *)

\* The least element of a set of numbers, which CHOOSE picks.
LEMMA Least ==
  ASSUME NEW S \in SUBSET Nat, S # {} PROVE \E n \in S : \A m \in S : n <= m
<1>. DEFINE R == OpToRel(<, Nat)
<1>1. IsWellFoundedOn(R, Nat)
  BY NatLessThanWellFounded
<1>2. \A m, n \in Nat : <<m, n>> \in R <=> m < n
  BY DEF OpToRel
<1>. HIDE DEF R
<1>3. PICK n \in S : \A m \in S : ~ (<<m, n>> \in R)
  BY <1>1, WFMin
<1>4. \A m \in S : ~(m < n)
  BY <1>2, <1>3
<1>5. \A m \in S : m \in Nat /\ n \in Nat
  OBVIOUS
<1>6. \A m \in S : n <= m
  BY <1>4, <1>5
<1>. QED BY <1>6

LEMMA LeastIs ==
  ASSUME NEW S \in SUBSET Nat, NEW k \in S, \A h \in S : k <= h
  PROVE  (CHOOSE x \in S : \A h \in S : x <= h) = k
<1>. DEFINE c == CHOOSE x \in S : \A h \in S : x <= h
<1>1. c \in S /\ \A h \in S : c <= h
  OBVIOUS
<1>. HIDE DEF c
<1>2. c \in Nat /\ k \in Nat /\ c <= k /\ k <= c
  BY <1>1
<1>3. c = k
  BY <1>2
<1>. QED BY <1>3 DEF c

LEMMA MinIs ==
  ASSUME NEW S \in SUBSET Nat, NEW k \in S, \A h \in S : k <= h PROVE Min(S) = k
<1>1. Min(S) \in S /\ \A h \in S : Min(S) <= h
  BY DEF Min
<1>2. Min(S) \in Nat /\ k \in Nat /\ Min(S) <= k /\ k <= Min(S)
  BY <1>1
<1>. QED BY <1>2

LEMMA MinIn ==
  ASSUME NEW S \in SUBSET Nat, S # {} PROVE Min(S) \in S /\ \A h \in S : Min(S) <= h
  BY Least DEF Min

LEMMA MaxIs ==
  ASSUME NEW S \in SUBSET Nat, NEW k \in S, \A h \in S : h <= k PROVE Max(S) = k
<1>1. k \in Nat /\ \A h \in S : h \in Nat
  OBVIOUS
<1>2. Max(S) \in S /\ \A h \in S : Max(S) >= h
  <2>1. \A h \in S : k >= h
    BY <1>1
  <2>. QED BY <2>1 DEF Max
<1>3. Max(S) \in Nat /\ Max(S) <= k /\ k <= Max(S)
  BY <1>1, <1>2
<1>. QED BY <1>1, <1>3

LEMMA MaxIn ==
  ASSUME NEW n \in Nat, NEW S \in SUBSET (0..n), S # {}
  PROVE  Max(S) \in S /\ \A h \in S : h <= Max(S)
<1>. DEFINE D == {n - h : h \in S}
<1>1. \A h \in S : h \in Nat /\ h <= n /\ n - h \in Nat
  OBVIOUS
<1>2. PICK d \in D : \A x \in D : d <= x
  <2>1. D \in SUBSET Nat /\ D # {}
    BY <1>1
  <2>. HIDE DEF D
  <2>. QED BY <2>1, Least
<1>3. PICK k \in S : d = n - k
  BY <1>2
<1>4. \A h \in S : h <= k
  <2>1. \A h \in S : n - k <= n - h
    BY <1>2, <1>3
  <2>. QED BY <1>1, <2>1
<1>5. Max(S) = k
  BY <1>4, MaxIs
<1>. QED BY <1>4, <1>5

\* Part of a sequence.
LEMMA Slice ==
  ASSUME NEW S, NEW text \in Seq(S), NEW s \in Nat, s > 0,
         NEW e \in Nat, e <= Len(text), s <= e + 1
  PROVE  /\ SubSeq(text, s, e) \in Seq(S)
         /\ Len(SubSeq(text, s, e)) = e - s + 1
         /\ \A k \in 1..e - s + 1 : SubSeq(text, s, e)[k] = text[s + k - 1]
<1>1. \A k \in s..e : text[k] \in S
  OBVIOUS
<1>. QED BY <1>1, SubSeqProperties

-----------------------------------------------------------------------------
(* The command runner.                                                      *)

\* Before the terminator is written nothing has been read but by the last fread:
\* a read is repeated only if it brought nothing.
Fresh == taken = 0 /\ filled = 0 /\ sizet = 0 /\ nul = -1 /\ ~lost /\ ret = 0

Opened == pipes.opened = 1 /\ pipes.closed = 0

\* len bytes are a terminated prefix of the output, and what is missing did not
\* fit or was lost.
Prefix(len) ==
  /\ nul = len /\ len <= filled /\ filled = taken /\ len < max_size
  /\ len > 0 /\ len < output => len = max_size - 1 \/ lost

SysInv ==
  /\ SysTypeOK
  /\ pc = "popen" => Fresh /\ cnt = 0 /\ pipes.opened = 0 /\ pipes.closed = 0
  /\ pc = "read" => Fresh /\ Opened /\ cnt <= MaxReads
  /\ pc = "terminate" =>
       /\ Opened /\ nul = -1 /\ sizet = filled /\ filled = taken /\ ret = 0
       /\ sizet > 0 /\ sizet < output => sizet = max_size \/ lost
  /\ pc = "pclose" =>
       /\ Opened /\ ret = 0
       /\ \/ nul = -1 /\ sizet = 0 /\ (filled > 0 => cnt = MaxReads + 1)
          \/ Prefix(sizet)
  /\ pc = "done" =>
       /\ pipes.opened = pipes.closed
       /\ nul = -1 => ret <= 0 /\ (filled > 0 => cnt = MaxReads + 1)
       /\ ret > 0 => Prefix(ret)

LEMMA SysInvInit == SysInit => SysInv
<1>. SUFFICES ASSUME SysInit PROVE SysInv
  OBVIOUS
<1>1. lost \in BOOLEAN /\ ~lost
  BY DEF SysInit
<1>2. Fresh
  BY <1>1 DEF SysInit, Fresh
<1>3. SysTypeOK
  BY <1>1, SystemExAssumption DEF SysInit, SysTypeOK
<1>. QED BY <1>2, <1>3 DEF SysInit, SysInv

\* One fread of n bytes, whichever way it ended.
LEMMA ReadKeepsSysInv ==
  ASSUME SysInv, pc = "read",
         NEW n \in 0..max_size, NEW e \in {"EINTR", "other"},
         n <= output, Retry(n, e),
         filled' = (IF n = 0 THEN filled ELSE n), taken' = taken + n,
         errno' \in {"EINTR", "other"}, lost' \in BOOLEAN,
         n = 0 => lost' = lost,
         n > 0 /\ n < output => n = max_size \/ lost',
         UNCHANGED <<output, nul, pipes, ret>>
  PROVE  SysInv'
<1>. USE SystemExAssumption DEF SysInv, SysTypeOK, Fresh, Opened
<1>1. taken' = n /\ filled' = n /\ nul' = -1 /\ ret' = 0
  OBVIOUS
<1>2. CASE cnt + 1 > MaxReads
  <2>1. cnt' = MaxReads + 1 /\ sizet' = 0 /\ pc' = "pclose"
    BY <1>2 DEF Retry
  <2>. QED BY <1>1, <2>1
<1>3. CASE cnt + 1 <= MaxReads /\ n = 0 /\ e = "EINTR"
  <2>1. cnt' \in 0..MaxReads /\ sizet' = 0 /\ pc' = "read"
    BY <1>3 DEF Retry
  <2>. QED BY <1>1, <1>3, <2>1
<1>4. CASE cnt + 1 <= MaxReads /\ ~(n = 0 /\ e = "EINTR")
  <2>1. cnt' \in 0..MaxReads /\ sizet' = n /\ pc' = "terminate"
    BY <1>4 DEF Retry
  <2>. QED BY <1>1, <2>1
<1>. QED BY <1>2, <1>3, <1>4

LEMMA SysInvStep == SysInv /\ [SysNext]_sysVars => SysInv'
<1>. SUFFICES ASSUME SysInv, [SysNext]_sysVars PROVE SysInv'
  OBVIOUS
<1>. USE SystemExAssumption
<1>1. CASE \E given \in BOOLEAN : Popen(given)
  BY <1>1 DEF Popen, SysInv, SysTypeOK, Fresh, Opened
<1>2. CASE Fread
  <2>0. pc = "read" /\ taken = 0 /\ ~lost /\ lost \in BOOLEAN /\ output \in Nat /\ max_size \in Nat
    BY <1>2 DEF Fread, SysInv, Fresh, SysTypeOK
  <2>1. CASE \E n \in 0..Lesser(max_size, output - taken), e \in {"EINTR", "other"} :
               /\ n < max_size
               /\ Retry(n, e) /\ filled' = (IF n = 0 THEN filled ELSE n)
               /\ taken' = taken + n
               /\ errno' = e /\ lost' = (lost \/ n > 0)
    <3>1. PICK n \in 0..Lesser(max_size, output - taken), e \in {"EINTR", "other"} :
               /\ n < max_size
               /\ Retry(n, e) /\ filled' = (IF n = 0 THEN filled ELSE n)
               /\ taken' = taken + n
               /\ errno' = e /\ lost' = (lost \/ n > 0)
      BY <2>1
    <3>2. n \in 0..max_size /\ n <= output
      BY <2>0 DEF Lesser
    <3>3. lost' \in BOOLEAN /\ (n = 0 => lost' = lost) /\ (n > 0 => lost')
      <4>1. CASE n = 0
        <5>1. ~(n > 0)
          BY <4>1
        <5>2. lost' = lost
          BY <5>1, <3>1, <2>0, Zenon
        <5>. QED BY <4>1, <5>1, <5>2, <2>0, Zenon
      <4>2. CASE n > 0
        <5>1. lost' = TRUE
          BY <4>2, <3>1, Zenon
        <5>2. n # 0
          BY <4>2
        <5>. QED BY <5>1, <5>2, Zenon
      <4>. QED BY <4>1, <4>2, <3>2
    <3>. QED BY <1>2, <2>0, <3>1, <3>2, <3>3, ReadKeepsSysInv DEF Fread
  <2>2. CASE LET n == Lesser(max_size, output - taken) IN
               /\ Retry(n, errno) /\ filled' = (IF n = 0 THEN filled ELSE n)
               /\ taken' = taken + n
               /\ UNCHANGED <<errno, lost>>
    <3>. DEFINE n == Lesser(max_size, output - taken)
    <3>1. n \in 0..max_size /\ n <= output /\ (n < output => n = max_size)
      BY <2>0 DEF Lesser
    <3>2. errno \in {"EINTR", "other"}
      BY DEF SysInv, SysTypeOK
    <3>3. lost' = lost /\ lost \in BOOLEAN
      BY <2>2 DEF SysInv, SysTypeOK
    <3>4. Retry(n, errno) /\ filled' = (IF n = 0 THEN filled ELSE n) /\ taken' = taken + n /\ errno' = errno
      BY <2>2
    <3>5. UNCHANGED <<output, nul, pipes, ret>>
      BY <1>2 DEF Fread
    <3>. HIDE DEF n
    <3>. QED BY <2>0, <3>1, <3>2, <3>3, <3>4, <3>5, ReadKeepsSysInv
  <2>. QED BY <1>2, <2>1, <2>2 DEF Fread
<1>3. CASE Terminate
  <2>1. sizet' \in 0..max_size - 1 /\ sizet' <= sizet /\ nul' = sizet'
    BY <1>3 DEF Terminate, SysInv, SysTypeOK
  <2>2. sizet' < sizet => sizet' = max_size - 1
    BY <1>3 DEF Terminate, SysInv, SysTypeOK
  <2>. QED BY <1>3, <2>1, <2>2 DEF Terminate, SysInv, SysTypeOK, Opened, Prefix
<1>4. CASE Pclose
  <2>1. ret' = sizet \/ ret' = -1
    BY <1>4 DEF Pclose
  <2>. QED BY <1>4, <2>1 DEF Pclose, SysInv, SysTypeOK, Opened, Prefix
<1>5. CASE UNCHANGED sysVars
  BY <1>5 DEF sysVars, SysInv, SysTypeOK, Fresh, Opened, Prefix
<1>. QED BY <1>1, <1>2, <1>3, <1>4, <1>5 DEF SysNext

LEMMA SysInvAlways == SysSpec => []SysInv
  BY SysInvInit, SysInvStep, PTL DEF SysSpec

\* Every variable keeps its type, and the terminator is inside the buffer
\* (sys_utils.cpp:70-71).
THEOREM SystemExTypeOK == SysSpec => []SysTypeOK
<1>1. SysInv => SysTypeOK
  BY DEF SysInv
<1>. QED BY SysInvAlways, <1>1, PTL

\* A positive result is the length of a terminated prefix of the output, for every
\* buffer, whatever reads were interrupted (sys_utils.cpp:58-71).
THEOREM SystemExPrefix == SysSpec => []PositiveIsPrefix
<1>1. SysInv => PositiveIsPrefix
  BY DEF SysInv, PositiveIsPrefix, Prefix
<1>. QED BY SysInvAlways, <1>1, PTL

\* What is missing from it did not fit, or a read failed (sys_utils.cpp:68).
THEOREM SystemExShort == SysSpec => []ShortOnlyWhenFullOrFailed
<1>1. SysInv => ShortOnlyWhenFullOrFailed
  BY DEF SysInv, ShortOnlyWhenFullOrFailed, Prefix
<1>. QED BY SysInvAlways, <1>1, PTL

\* A buffer with output is left unterminated only after MaxReads + 1 reads
\* (sys_utils.cpp:61-66).
THEOREM SystemExGivenUp == SysSpec => []UnterminatedOnlyWhenGivenUp
<1>1. SysInv => UnterminatedOnlyWhenGivenUp
  BY DEF SysInv, UnterminatedOnlyWhenGivenUp
<1>. QED BY SysInvAlways, <1>1, PTL

\* The pipe is closed on every path (sys_utils.cpp:48-75).
THEOREM SystemExCloses == SysSpec => []ClosesItsPipe
<1>1. SysInv => ClosesItsPipe
  BY DEF SysInv, ClosesItsPipe
<1>. QED BY SysInvAlways, <1>1, PTL

-----------------------------------------------------------------------------
(* The parser of the scan: the set and the vector.                          *)

\* NoDuplicates is inductive once the vector is known to be a sequence.
SsidInv == ssid_vector \in Seq(ssid_set) /\ NoDuplicates

LEMMA RecordKeepsSsidInv ==
  ASSUME SsidInv, NEW ssid, Record(ssid) PROVE SsidInv'
<1>1. CASE ssid # <<>> /\ ssid \notin ssid_set
  <2>. DEFINE n == Len(ssid_vector)
  <2>1. ssid_set' = ssid_set \cup {ssid} /\ ssid_vector' = Append(ssid_vector, ssid)
    BY <1>1 DEF Record
  <2>2. ssid_vector \in Seq(ssid_set \cup {ssid}) /\ n \in Nat
    BY DEF SsidInv
  <2>3. ssid_vector' \in Seq(ssid_set')
    BY <2>1, <2>2
  <2>4. /\ DOMAIN ssid_vector = 1..n /\ DOMAIN ssid_vector' = 1..n + 1
        /\ \A k \in 1..n : ssid_vector'[k] = ssid_vector[k]
        /\ ssid_vector'[n + 1] = ssid
    BY <2>1, <2>2
  <2>5. \A k \in 1..n : ssid_vector[k] \in ssid_set
    BY DEF SsidInv
  <2>6. ssid_set' = {ssid_vector'[k] : k \in DOMAIN ssid_vector'}
    BY <2>1, <2>2, <2>4, <2>5 DEF SsidInv, NoDuplicates
  <2>7. ASSUME NEW j \in 1..n + 1, NEW k \in 1..n + 1, ssid_vector'[j] = ssid_vector'[k]
        PROVE  j = k
    <3>1. CASE j \in 1..n /\ k \in 1..n
      BY <2>4, <2>7, <3>1 DEF SsidInv, NoDuplicates
    <3>2. CASE j = n + 1 /\ k \in 1..n
      BY <1>1, <2>4, <2>5, <2>7, <3>2
    <3>3. CASE j \in 1..n /\ k = n + 1
      BY <1>1, <2>4, <2>5, <2>7, <3>3
    <3>. QED BY <2>2, <3>1, <3>2, <3>3
  <2>. QED BY <2>3, <2>4, <2>6, <2>7 DEF SsidInv, NoDuplicates
<1>2. CASE ~(ssid # <<>> /\ ssid \notin ssid_set)
  BY <1>2 DEF Record, SsidInv, NoDuplicates
<1>. QED BY <1>1, <1>2

\* ssid_vector holds the elements of ssid_set, each once, also for a text that is
\* read for ever (char_respond.cpp:161-166).
THEOREM SsidNoDuplicates == SsidSpec => []NoDuplicates
<1>1. SsidInit => SsidInv
  BY DEF SsidInit, SsidInv, NoDuplicates
<1>2. SsidInv /\ [SsidNext]_ssidVars => SsidInv'
  <2>. SUFFICES ASSUME SsidInv, [SsidNext]_ssidVars PROVE SsidInv'
    OBVIOUS
  <2>1. CASE Take
    BY <2>1, RecordKeepsSsidInv DEF Take
  <2>2. CASE Skip \/ Return \/ UNCHANGED ssidVars
    BY <2>2 DEF Skip, Return, ssidVars, SsidInv, NoDuplicates
  <2>3. ASSUME NEW data \in Seq(Char), Parse(data) PROVE SsidInv'
    BY <2>3 DEF Parse, SsidInv, NoDuplicates
  <2>. QED BY <2>1, <2>2, <2>3 DEF SsidNext, Loop
<1>3. SsidInv => NoDuplicates
  BY DEF SsidInv
<1>. QED BY <1>1, <1>2, <1>3, PTL DEF SsidSpec

-----------------------------------------------------------------------------
(* Lines and names.                                                         *)

Blank(text, s, e) == \A k \in s..e : text[k] = Space

\* The line from s ends at e: before the first newline from s on, or with the text.
EndsAt(text, s, e) ==
  /\ \A k \in LineEnds(text) : k < s \/ e < k
  /\ e + 1 \in LineEnds(text) \/ e = Len(text)

LEMMA LineIs ==
  ASSUME NEW text \in Seq(Char), NEW s \in Nat, NEW e \in Nat, s <= e + 1, EndsAt(text, s, e)
  PROVE  LineFrom(text, s) = SubSeq(text, s, e)
<1>. DEFINE stop == {k \in LineEnds(text) : k >= s}
<1>1. stop \in SUBSET Nat /\ \A k \in LineEnds(text) : k \in Nat /\ k <= Len(text)
  BY DEF LineEnds
<1>2. CASE e + 1 \in LineEnds(text)
  <2>1. e + 1 \in stop /\ \A h \in stop : e + 1 <= h
    BY <1>1, <1>2 DEF EndsAt
  <2>2. (CHOOSE k \in stop : \A h \in stop : k <= h) = e + 1
    BY <1>1, <2>1, LeastIs
  <2>3. LineFrom(text, s) = SubSeq(text, s, (e + 1) - 1)
    BY <2>1, <2>2 DEF LineFrom
  <2>. QED BY <2>3
<1>3. CASE e + 1 \notin LineEnds(text)
  <2>1. e = Len(text)
    BY <1>3 DEF EndsAt
  <2>2. stop = {}
    BY <1>1, <2>1 DEF EndsAt
  <2>. QED BY <2>1, <2>2 DEF LineFrom
<1>. QED BY <1>2, <1>3

LEMMA SpaceIsNoNewline == Space # "\n"
  BY Zenon DEF Space

\* The name in a line is what begins at its first character that is not blank.
LEMMA NameFrom ==
  ASSUME NEW text \in Seq(Char), NEW s \in Nat, s > 0, NEW e \in Nat, e <= Len(text),
         NEW f \in Nat, s <= f, f <= e, text[f] # Space, Blank(text, s, f - 1)
  PROVE  NameOf(SubSeq(text, s, e)) = SubSeq(text, f, e)
<1>. DEFINE line == SubSeq(text, s, e)
            size_ == e - s + 1
            seen == {k \in DOMAIN line : line[k] # Space}
            g == f - s + 1
<1>1. /\ line \in Seq(Char) /\ Len(line) = size_ /\ DOMAIN line = 1..size_
      /\ \A k \in 1..size_ : line[k] = text[s + k - 1]
  BY Slice
<1>2. g \in Nat /\ 1 <= g /\ g <= size_ /\ s + g - 1 = f /\ size_ \in Nat
  OBVIOUS
<1>3. g \in seen
  BY <1>1, <1>2
<1>4. \A k \in seen : g <= k
  <2>1. ASSUME NEW k \in 1..size_, k < g PROVE line[k] = Space
    <3>1. s + k - 1 \in s..f - 1
      BY <2>1
    <3>. QED BY <1>1, <3>1 DEF Blank
  <2>2. \A k \in seen : k \in 1..size_ /\ ~(k < g)
    BY <1>1, <2>1
  <2>3. \A k \in 1..size_ : ~(k < g) => g <= k
    BY <1>2
  <2>. QED BY <2>2, <2>3
<1>5. seen \in SUBSET Nat
  BY <1>1
<1>6. NameOf(line) = SubSeq(line, g, size_)
  <2>1. (CHOOSE k \in seen : \A h \in seen : k <= h) = g
    <3>. HIDE DEF seen, g
    <3>. QED BY <1>3, <1>4, <1>5, LeastIs
  <2>2. seen # {}
    BY <1>3
  <2>3. NameOf(line) = SubSeq(line, g, Len(line))
    BY <2>1, <2>2 DEF NameOf
  <2>. QED BY <1>1, <2>3
<1>7. SubSeq(line, g, size_) = SubSeq(text, s + g - 1, s + size_ - 1)
  <2>1. s \in 1..Len(text) /\ e \in 1..Len(text) /\ g \in 1..e - s + 1 /\ size_ \in 1..e - s + 1
    BY <1>2
  <2>. QED BY <2>1, SubSeqOfSubSeq
<1>8. s + size_ - 1 = e
  OBVIOUS
<1>. QED BY <1>2, <1>6, <1>7, <1>8

LEMMA NoName ==
  ASSUME NEW text \in Seq(Char), NEW s \in Nat, s > 0, NEW e \in Nat, e <= Len(text), s <= e + 1,
         Blank(text, s, e)
  PROVE  NameOf(SubSeq(text, s, e)) = <<>>
<1>. DEFINE line == SubSeq(text, s, e)
<1>1. DOMAIN line = 1..e - s + 1 /\ \A k \in 1..e - s + 1 : line[k] = text[s + k - 1]
  BY Slice
<1>2. \A k \in 1..e - s + 1 : s + k - 1 \in s..e
  OBVIOUS
<1>3. \A k \in DOMAIN line : line[k] = Space
  BY <1>1, <1>2 DEF Blank
<1>. QED BY <1>3 DEF NameOf

\* The two together: where the line from s ends at e and its blanks at f - 1.
LEMMA NameAtIs ==
  ASSUME NEW text \in Seq(Char), NEW s \in Nat, s > 0, NEW e \in Nat, e <= Len(text), s <= e + 1,
         EndsAt(text, s, e),
         NEW b \in Nat, s <= b + 1, b <= e, Blank(text, s, b), b < e => text[b + 1] # Space
  PROVE  NameAt(text, s) = SubSeq(text, b + 1, e)
<1>. DEFINE f == b + 1
<1>1. NameAt(text, s) = NameOf(SubSeq(text, s, e))
  BY LineIs DEF NameAt
<1>2. CASE b < e
  <2>1. f \in Nat /\ s <= f /\ f <= e /\ f - 1 = b
    BY <1>2
  <2>2. text[f] # Space /\ Blank(text, s, f - 1)
    BY <1>2, <2>1
  <2>. HIDE DEF f
  <2>3. NameOf(SubSeq(text, s, e)) = SubSeq(text, f, e)
    BY <2>1, <2>2, NameFrom
  <2>. QED BY <1>1, <2>3 DEF f
<1>3. CASE b = e
  <2>2. NameOf(SubSeq(text, s, e)) = <<>>
    BY <1>3, NoName
  <2>3. SubSeq(text, f, e) = <<>>
    BY <1>3, SubSeqEmpty
  <2>. QED BY <1>1, <2>2, <2>3
<1>. QED BY <1>2, <1>3

LEMMA StartsAre ==
  ASSUME NEW text \in Seq(Char)
  PROVE  /\ LineEnds(text) \subseteq 1..Len(text)
         /\ LineStarts(text) \in SUBSET Nat
         /\ 1 \in LineStarts(text) /\ \A k \in LineEnds(text) : k + 1 \in LineStarts(text)
         /\ \A t \in LineStarts(text) : t > 0 /\ (t = 1 \/ \E k \in LineEnds(text) : t = k + 1)
<1>1. LineEnds(text) \subseteq 1..Len(text)
  BY DEF LineEnds
<1>. HIDE DEF LineEnds
<1>. QED BY <1>1 DEF LineStarts

\* The names of the lines above the line from s.
NamesAbove(text, s) == {NameAt(text, t) : t \in {u \in LineStarts(text) : u < s}} \ {<<>>}

\* The lines up to the one that ends at e.
LEMMA StartsUpTo ==
  ASSUME NEW text \in Seq(Char), NEW s \in LineStarts(text), NEW e \in Nat, EndsAt(text, s, e),
         NEW t \in LineStarts(text)
  PROVE  t < s \/ t = s \/ (e + 2 <= t /\ e + 1 <= Len(text))
<1>1. s \in Nat /\ s > 0 /\ t \in Nat /\ Len(text) \in Nat
  BY StartsAre
<1>2. CASE t = 1
  BY <1>1, <1>2
<1>3. CASE \E k \in LineEnds(text) : t = k + 1
  <2>1. PICK k \in LineEnds(text) : t = k + 1
    BY <1>3
  <2>2. k \in Nat /\ k <= Len(text)
    BY StartsAre
  <2>3. k < s \/ e < k
    BY DEF EndsAt
  <2>. QED BY <1>1, <2>1, <2>2, <2>3
<1>. QED BY <1>2, <1>3, StartsAre

LEMMA NamesAboveNext ==
  ASSUME NEW text \in Seq(Char), NEW s \in LineStarts(text), NEW e \in Nat, s <= e + 1,
         EndsAt(text, s, e)
  PROVE  NamesAbove(text, e + 2) = (NamesAbove(text, s) \cup {NameAt(text, s)}) \ {<<>>}
<1>1. s \in Nat /\ s < e + 2
  BY StartsAre
<1>2. \A t \in LineStarts(text) : t \in Nat
  BY StartsAre
<1>3. \A t \in LineStarts(text) : t < e + 2 <=> t < s \/ t = s
  <2>. SUFFICES ASSUME NEW t \in LineStarts(text) PROVE t < e + 2 <=> t < s \/ t = s
    OBVIOUS
  <2>1. t < s \/ t = s \/ e + 2 <= t
    BY StartsUpTo
  <2>. QED BY <1>1, <1>2, <2>1
<1>4. {u \in LineStarts(text) : u < e + 2} = {u \in LineStarts(text) : u < s} \cup {s}
  BY <1>3
<1>. QED BY <1>4, Zenon DEF NamesAbove

LEMMA NamesInLast ==
  ASSUME NEW text \in Seq(Char), NEW s \in LineStarts(text), EndsAt(text, s, Len(text))
  PROVE  NamesIn(text) = (NamesAbove(text, s) \cup {NameAt(text, s)}) \ {<<>>}
<1>1. Len(text) \in Nat
  OBVIOUS
<1>2. \A t \in LineStarts(text) : t < s \/ t = s
  <2>. SUFFICES ASSUME NEW t \in LineStarts(text) PROVE t < s \/ t = s
    OBVIOUS
  <2>1. t < s \/ t = s \/ (Len(text) + 2 <= t /\ Len(text) + 1 <= Len(text))
    BY <1>1, StartsUpTo
  <2>. QED BY <1>1, <2>1
<1>3. LineStarts(text) = {u \in LineStarts(text) : u < s} \cup {s}
  BY <1>2
<1>. QED BY <1>3, Zenon DEF NamesAbove, NamesIn

LEMMA NamesAboveIn ==
  ASSUME NEW text, NEW s PROVE NamesAbove(text, s) \subseteq NamesIn(text)
  BY DEF NamesAbove, NamesIn

LEMMA FirstLineIs ==
  ASSUME NEW text \in Seq(Char), NEW s \in LineStarts(text), NEW name, NameAt(text, s) = name,
         \A t \in LineStarts(text) : NameAt(text, t) = name => s <= t
  PROVE  FirstLine(text, name) = s
<1>. DEFINE c == FirstLine(text, name)
<1>1. /\ c \in LineStarts(text) /\ NameAt(text, c) = name
      /\ \A t \in LineStarts(text) : NameAt(text, t) = name => c <= t
  BY DEF FirstLine
<1>. HIDE DEF c
<1>2. c \in Nat /\ s \in Nat /\ c <= s /\ s <= c
  BY <1>1, StartsAre
<1>3. c = s
  BY <1>2
<1>. QED BY <1>3 DEF c

LEMMA FirstLineBelow ==
  ASSUME NEW text \in Seq(Char), NEW s \in LineStarts(text), NEW name \in NamesAbove(text, s)
  PROVE  FirstLine(text, name) \in Nat /\ FirstLine(text, name) < s
<1>. DEFINE S == {t \in LineStarts(text) : NameAt(text, t) = name}
<1>1. PICK u \in LineStarts(text) : u < s /\ NameAt(text, u) = name
  BY DEF NamesAbove
<1>2. S \in SUBSET Nat /\ u \in S
  BY <1>1, StartsAre
<1>3. PICK n \in S : \A m \in S : n <= m
  BY <1>2, Least
<1>4. FirstLine(text, name) = n
  BY <1>3, FirstLineIs
<1>5. n <= u /\ n \in Nat /\ u \in Nat /\ s \in Nat
  BY <1>2, <1>3, StartsAre
<1>. QED BY <1>1, <1>4, <1>5

-----------------------------------------------------------------------------
(* The loop.  Where it stands, a line begins with blanks only up to i, and *)
(* the set holds the names of the lines above, or, once a text without a   *)
(* last newline is read again, those of all lines.                         *)

InOrder == \A j, k \in DOMAIN ssid_vector :
  j < k => FirstLine(mixture, ssid_vector[j]) < FirstLine(mixture, ssid_vector[k])

\* The loop is at k, in the line from s.
In(s, k) ==
  /\ s \in LineStarts(mixture) /\ s <= k + 1 /\ Blank(mixture, s, k)
  /\ NamesAbove(mixture, s) \subseteq ssid_set
  /\ ssid_set = NamesAbove(mixture, s) \/ ssid_set = NamesIn(mixture)

Scanned ==
  /\ ssid_set \subseteq NamesIn(mixture)
  /\ InOrder
  /\ ssid_pc = "done" => ssid_set = NamesIn(mixture) /\ Whole
  /\ ssid_pc = "loop" => i \in Nat /\ i <= size /\ \E s \in Nat : In(s, i)

ScanInv == SsidInv /\ mixture \in Seq(Char) /\ (size <= npos => Scanned)

LEMMA NposIs == npos = 2^Width - 1 /\ 2^Width \in Int
  BY SsidAssumption DEF npos

LEMMA SuccIs ==
  ASSUME NEW k \in Nat
  PROVE  /\ k < size /\ size \in Nat /\ size <= npos => Succ(k) = k + 1
         /\ 0 <= npos /\ k = npos => Succ(k) = 0
<1>. DEFINE N == 2^Width
<1>1. N \in Int /\ npos = N - 1
  BY NposIs
<1>. HIDE DEF N
<1>2. ASSUME k < size, size \in Nat, size <= npos PROVE (k + 1) % N = k + 1
  <2>1. k + 1 \in 0..N - 1 /\ N > 0
    BY <1>1, <1>2
  <2>. QED BY <1>1, <2>1
<1>3. ASSUME 0 <= npos, k = npos PROVE (k + 1) % N = 0
  <2>1. k + 1 = N /\ N > 0
    BY <1>1, <1>3
  <2>. QED BY <1>1, <2>1
<1>. QED BY <1>2, <1>3 DEF Succ, N

\* What find returns: the next newline, or npos.
LEMMA FindIs ==
  ASSUME mixture \in Seq(Char), NEW k \in Nat
  PROVE  \/ /\ Find(k) \in k..size - 1 /\ At(Find(k)) = "\n"
            /\ \A h \in k..Find(k) - 1 : At(h) # "\n"
         \/ Find(k) = npos /\ \A h \in k..size - 1 : At(h) # "\n"
<1>. DEFINE hits == {h \in k..size - 1 : At(h) = "\n"}
<1>1. size \in Nat
  BY DEF size
<1>2. hits \in SUBSET Nat
  BY <1>1
<1>3. CASE hits = {}
  BY <1>3 DEF Find
<1>4. CASE hits # {}
  <2>1. PICK n \in hits : \A h \in hits : n <= h
    BY <1>2, <1>4, Least
  <2>2. (CHOOSE x \in hits : \A h \in hits : x <= h) = n
    <3>. HIDE DEF hits
    <3>. QED BY <1>2, <2>1, LeastIs
  <2>3. Find(k) = n
    BY <1>4, <2>2 DEF Find
  <2>4. n \in k..size - 1 /\ At(n) = "\n" /\ n \in Nat
    BY <1>2, <2>1
  <2>5. ASSUME NEW h \in k..n - 1, At(h) = "\n" PROVE FALSE
    <3>1. h \in k..size - 1
      BY <1>1, <2>4
    <3>2. h \in hits /\ ~(n <= h)
      BY <2>4, <2>5, <3>1
    <3>. QED BY <2>1, <3>2
  <2>. QED BY <2>3, <2>4, <2>5
<1>. QED BY <1>3, <1>4

\* A name is new to the set only on the first line that has it.
LEMMA RecordScanned ==
  ASSUME SsidInv, mixture \in Seq(Char), mixture' = mixture,
         ssid_set \subseteq NamesIn(mixture), InOrder,
         NEW s \in LineStarts(mixture), NamesAbove(mixture, s) \subseteq ssid_set,
         ssid_set = NamesAbove(mixture, s) \/ ssid_set = NamesIn(mixture),
         NEW name, name = NameAt(mixture, s), Record(name)
  PROVE  LET above == (NamesAbove(mixture, s) \cup {name}) \ {<<>>} IN
         /\ ssid_set' \subseteq NamesIn(mixture) /\ InOrder'
         /\ above \subseteq ssid_set'
         /\ ssid_set' = above \/ ssid_set' = NamesIn(mixture)
<1>1. <<>> \notin NamesAbove(mixture, s)
  BY DEF NamesAbove
<1>2. name # <<>> => name \in NamesIn(mixture)
  BY DEF NamesIn
<1>3. CASE name # <<>> /\ name \notin ssid_set
  <2>. DEFINE n == Len(ssid_vector)
  <2>1. ssid_set' = ssid_set \cup {name} /\ ssid_vector' = Append(ssid_vector, name)
    BY <1>3 DEF Record
  <2>2. ssid_set = NamesAbove(mixture, s)
    BY <1>2, <1>3
  <2>3. ssid_vector \in Seq(ssid_set \cup {name}) /\ n \in Nat
    BY DEF SsidInv
  <2>4. /\ DOMAIN ssid_vector = 1..n /\ DOMAIN ssid_vector' = 1..n + 1
        /\ \A k \in 1..n : ssid_vector'[k] = ssid_vector[k] /\ ssid_vector[k] \in ssid_set
        /\ ssid_vector'[n + 1] = name
    BY <2>1, <2>3 DEF SsidInv
  <2>5. FirstLine(mixture, name) = s
    <3>1. ASSUME NEW t \in LineStarts(mixture), NameAt(mixture, t) = name PROVE s <= t
      <4>1. ~(t < s)
        BY <1>3, <2>2, <3>1 DEF NamesAbove
      <4>2. s \in Nat /\ t \in Nat
        BY StartsAre
      <4>. QED BY <4>1, <4>2
    <3>. QED BY <3>1, FirstLineIs
  <2>6. \A k \in 1..n : FirstLine(mixture, ssid_vector[k]) < s
    BY <2>2, <2>4, FirstLineBelow
  <2>7. ASSUME NEW j \in 1..n + 1, NEW k \in 1..n + 1, j < k
        PROVE  FirstLine(mixture, ssid_vector'[j]) < FirstLine(mixture, ssid_vector'[k])
    <3>1. CASE k \in 1..n
      <4>1. j \in 1..n
        BY <2>3, <2>7, <3>1
      <4>. QED BY <2>4, <2>7, <3>1, <4>1 DEF InOrder
    <3>2. CASE k = n + 1
      <4>1. j \in 1..n
        BY <2>3, <2>7, <3>2
      <4>. QED BY <2>4, <2>5, <2>6, <3>2, <4>1
    <3>. QED BY <2>3, <3>1, <3>2
  <2>8. InOrder'
    BY <2>4, <2>7 DEF InOrder
  <2>9. ssid_set' \subseteq NamesIn(mixture) /\ ssid_set' = (NamesAbove(mixture, s) \cup {name}) \ {<<>>}
    BY <1>1, <1>2, <1>3, <2>1, <2>2
  <2>. QED BY <2>8, <2>9
<1>4. CASE ~(name # <<>> /\ name \notin ssid_set)
  <2>1. UNCHANGED <<ssid_set, ssid_vector>>
    BY <1>4 DEF Record
  <2>2. InOrder'
    BY <2>1 DEF InOrder
  <2>. QED BY <1>1, <1>4, <2>1, <2>2
<1>. QED BY <1>3, <1>4

\* One line taken: up to its newline, or to the end of a text that has none left.
LEMMA TakeScanned ==
  ASSUME ScanInv, size <= npos, Take, mixture' = mixture
  PROVE  Scanned'
<1>. DEFINE pos == Find(i)
<1>1. /\ i \in Nat /\ i < size /\ size \in Nat /\ At(i) # Space /\ ssid_pc = "loop" /\ ssid_pc' = ssid_pc
      /\ i' = Succ(pos) /\ Record(Substr(i, pos - i))
  BY DEF Take, ScanInv, Scanned, size, pos
<1>2. PICK s \in Nat : In(s, i)
  BY <1>1 DEF ScanInv, Scanned
<1>. HIDE DEF pos
<1>3. s \in LineStarts(mixture) /\ s > 0 /\ s <= i + 1 /\ Blank(mixture, s, i)
  BY <1>2, StartsAre DEF In, ScanInv
<1>4. npos \in Int /\ LineEnds(mixture) \subseteq 1..size /\ \A k \in 1..size : k \in LineEnds(mixture) <=> At(k - 1) = "\n"
  <2>1. npos \in Int
    BY NposIs
  <2>2. \A k \in 1..size : k - 1 + 1 = k /\ k \in DOMAIN mixture
    BY <1>1 DEF ScanInv, size
  <2>. QED BY <2>1, <2>2, StartsAre DEF ScanInv, LineEnds, At, size
<1>5. \A k \in LineEnds(mixture) : ~(s <= k /\ k <= i)
  <2>. SUFFICES ASSUME NEW k \in LineEnds(mixture), s <= k, k <= i PROVE FALSE
    OBVIOUS
  <2>1. k \in Nat /\ s \in Nat /\ mixture[k] = "\n"
    BY <1>2, <1>4 DEF LineEnds
  <2>2. k \in s..i
    BY <1>1, <2>1
  <2>. QED BY <1>3, <2>1, <2>2, SpaceIsNoNewline DEF Blank
<1>6. ASSUME NEW e \in Nat, i <= e, e <= size, \A h \in i..e - 1 : At(h) # "\n",
             e + 1 \in LineEnds(mixture) \/ e = size,
             Substr(i, pos - i) = SubSeq(mixture, i + 1, e)
      PROVE  /\ EndsAt(mixture, s, e) /\ NameAt(mixture, s) = Substr(i, pos - i) /\ s <= e + 1
  <2>1. \A k \in LineEnds(mixture) : k < s \/ e < k
    <3>. SUFFICES ASSUME NEW k \in LineEnds(mixture), ~(k < s), ~(e < k) PROVE FALSE
      OBVIOUS
    <3>1. k \in 1..size /\ At(k - 1) = "\n"
      BY <1>4
    <3>2. s <= k /\ ~(k <= i)
      BY <1>2, <1>5, <3>1
    <3>3. k - 1 \in i..e - 1
      BY <1>1, <1>6, <3>1, <3>2
    <3>. QED BY <1>6, <3>1, <3>3
  <2>2. EndsAt(mixture, s, e)
    BY <1>6, <2>1 DEF EndsAt, size
  <2>3. s <= e + 1 /\ e <= Len(mixture)
    BY <1>1, <1>2, <1>3, <1>6 DEF size
  <2>4. mixture[i + 1] # Space
    BY <1>1 DEF At
  <2>5. mixture \in Seq(Char)
    BY DEF ScanInv
  <2>6. NameAt(mixture, s) = SubSeq(mixture, i + 1, e)
    BY <1>1, <1>3, <1>6, <2>2, <2>3, <2>4, <2>5, NameAtIs
  <2>. QED BY <1>6, <2>2, <2>3, <2>6
<1>7. ASSUME NEW e \in Nat, EndsAt(mixture, s, e), NameAt(mixture, s) = Substr(i, pos - i)
      PROVE  LET above == (NamesAbove(mixture, s) \cup {NameAt(mixture, s)}) \ {<<>>} IN
             /\ ssid_set' \subseteq NamesIn(mixture) /\ InOrder'
             /\ above \subseteq ssid_set'
             /\ ssid_set' = above \/ ssid_set' = NamesIn(mixture)
  <2>1. SsidInv /\ mixture \in Seq(Char) /\ ssid_set \subseteq NamesIn(mixture) /\ InOrder
    BY DEF ScanInv, Scanned
  <2>2. NamesAbove(mixture, s) \subseteq ssid_set /\ (ssid_set = NamesAbove(mixture, s) \/ ssid_set = NamesIn(mixture))
    BY <1>2 DEF In
  <2>3. Record(NameAt(mixture, s))
    BY <1>1, <1>7
  <2>. QED BY <1>3, <2>1, <2>2, <2>3, RecordScanned
<1>8. CASE pos \in i..size - 1 /\ At(pos) = "\n" /\ \A h \in i..pos - 1 : At(h) # "\n"
  <2>1. pos \in Nat /\ i <= pos /\ pos < size /\ i + (pos - i) = pos
    BY <1>1, <1>8
  <2>2. Substr(i, pos - i) = SubSeq(mixture, i + 1, pos)
    BY <1>1, <2>1 DEF Substr
  <2>3. pos + 1 \in LineEnds(mixture)
    BY <1>1, <1>4, <1>8, <2>1
  <2>4. EndsAt(mixture, s, pos) /\ NameAt(mixture, s) = Substr(i, pos - i) /\ s <= pos + 1
    BY <1>1, <1>6, <1>8, <2>1, <2>2, <2>3
  <2>5. i' = pos + 1
    BY <1>1, <2>1, SuccIs
  <2>6. pos + 2 \in LineStarts(mixture) /\ pos + 2 \in Nat
    <3>1. pos + 1 + 1 \in LineStarts(mixture)
      BY <2>3, StartsAre DEF ScanInv
    <3>. QED BY <2>1, <3>1
  <2>7. NamesAbove(mixture, pos + 2) = (NamesAbove(mixture, s) \cup {NameAt(mixture, s)}) \ {<<>>}
    BY <1>3, <2>1, <2>4, NamesAboveNext DEF ScanInv
  <2>8. Blank(mixture, pos + 2, pos + 1)
    BY <2>1 DEF Blank
  <2>9. PICK t \in Nat : t = pos + 2
    BY <2>6
  <2>10. /\ ssid_set' \subseteq NamesIn(mixture) /\ InOrder'
         /\ NamesAbove(mixture, t) \subseteq ssid_set'
         /\ ssid_set' = NamesAbove(mixture, t) \/ ssid_set' = NamesIn(mixture)
    BY <1>7, <2>1, <2>4, <2>7, <2>9
  <2>11. t <= i' + 1 /\ i' \in Nat /\ i' <= size
    BY <1>1, <2>1, <2>5, <2>9
  <2>12. Blank(mixture, t, i') /\ t \in LineStarts(mixture)
    BY <2>5, <2>6, <2>8, <2>9
  <2>13. In(t, i)'
    BY <2>10, <2>11, <2>12 DEF In
  <2>. QED BY <1>1, <2>10, <2>11, <2>13 DEF Scanned, size
<1>9. CASE pos = npos /\ \A h \in i..size - 1 : At(h) # "\n"
  <2>1. Substr(i, pos - i) = SubSeq(mixture, i + 1, size)
    <3>1. i + (pos - i) = npos /\ (npos > size \/ npos = size)
      BY <1>1, <1>4, <1>9
    <3>. QED BY <3>1 DEF Substr
  <2>2. EndsAt(mixture, s, size) /\ NameAt(mixture, s) = Substr(i, pos - i)
    BY <1>1, <1>6, <1>9, <2>1
  <2>3. i' = 0
    <3>1. npos \in Nat
      BY <1>1, <1>4
    <3>. QED BY <1>1, <1>9, <3>1, SuccIs
  <2>4. NamesIn(mixture) = (NamesAbove(mixture, s) \cup {NameAt(mixture, s)}) \ {<<>>}
    BY <1>3, <2>2, NamesInLast DEF ScanInv, size
  <2>5. ssid_set' = NamesIn(mixture) /\ InOrder'
    BY <1>1, <1>7, <2>2, <2>4
  <2>6. NamesAbove(mixture, 1) = {} /\ 1 \in LineStarts(mixture)
    <3>1. \A t \in LineStarts(mixture) : t \in Nat /\ t > 0
      BY StartsAre DEF ScanInv
    <3>2. {u \in LineStarts(mixture) : u < 1} = {}
      BY <3>1
    <3>. QED BY <3>2, StartsAre DEF NamesAbove, ScanInv
  <2>7. Blank(mixture, 1, 0)
    BY DEF Blank
  <2>8. In(1, i)'
    BY <2>3, <2>5, <2>6, <2>7 DEF In
  <2>. QED BY <1>1, <2>3, <2>5, <2>8 DEF Scanned, size
<1>. QED
  <2>1. mixture \in Seq(Char) /\ i \in Nat
    BY <1>1 DEF ScanInv
  <2>. QED BY <1>8, <1>9, <2>1, FindIs DEF pos

LEMMA NoNamesAboveFirst ==
  ASSUME NEW text \in Seq(Char) PROVE NamesAbove(text, 1) = {} /\ 1 \in LineStarts(text)
<1>1. \A t \in LineStarts(text) : t \in Nat /\ t > 0
  BY StartsAre
<1>2. {u \in LineStarts(text) : u < 1} = {}
  BY <1>1
<1>. QED BY <1>2, StartsAre DEF NamesAbove

LEMMA ParseScanned ==
  ASSUME NEW data \in Seq(Char), Parse(data) PROVE Scanned'
<1>1. /\ mixture' = data /\ i' = 0 /\ ssid_set' = {} /\ ssid_vector' = <<>> /\ ssid_pc' = "loop"
  BY DEF Parse
<1>2. In(1, i)'
  BY <1>1, NoNamesAboveFirst DEF In, Blank
<1>3. i' \in Nat /\ i' <= size' /\ size' \in Nat
  BY <1>1 DEF size
<1>4. InOrder'
  BY <1>1 DEF InOrder
<1>5. ssid_set' \subseteq NamesIn(mixture)'
  BY <1>1
<1>. QED BY <1>1, <1>2, <1>3, <1>4, <1>5 DEF Scanned

LEMMA SkipScanned ==
  ASSUME ScanInv, size <= npos, Skip PROVE Scanned'
<1>1. /\ i \in Nat /\ i < size /\ size \in Nat /\ At(i) = Space /\ ssid_pc = "loop"
      /\ i' = Succ(i) /\ UNCHANGED <<mixture, ssid_set, ssid_vector, ssid_pc>>
  BY DEF Skip, ScanInv, Scanned, size
<1>2. PICK s \in Nat : In(s, i)
  BY <1>1 DEF ScanInv, Scanned
<1>3. i' = i + 1
  BY <1>1, SuccIs
<1>4. Blank(mixture, s, i + 1)
  <2>1. \A k \in s..i + 1 : k \in s..i \/ k = i + 1
    BY <1>1
  <2>. QED BY <1>1, <1>2, <2>1 DEF Blank, In, At
<1>5. In(s, i)'
  <2>1. s <= i + 1 + 1
    BY <1>1, <1>2 DEF In
  <2>. QED BY <1>1, <1>2, <1>3, <1>4, <2>1 DEF In
<1>6. ssid_set' \subseteq NamesIn(mixture)' /\ InOrder'
  BY <1>1 DEF ScanInv, Scanned, InOrder
<1>7. i' \in Nat /\ i' <= size'
  BY <1>1, <1>3 DEF size
<1>. QED BY <1>1, <1>5, <1>6, <1>7 DEF Scanned

LEMMA ReturnScanned ==
  ASSUME ScanInv, size <= npos, Return PROVE Scanned'
<1>1. /\ ssid_pc = "loop" /\ i >= size /\ i \in Nat /\ i <= size /\ size \in Nat /\ mixture \in Seq(Char)
      /\ ssid_pc' = "done" /\ UNCHANGED <<mixture, i, ssid_set, ssid_vector>>
  BY DEF Return, ScanInv, Scanned, size
<1>2. PICK s \in Nat : In(s, i)
  BY <1>1 DEF ScanInv, Scanned
<1>3. i = size /\ s \in LineStarts(mixture) /\ s > 0 /\ s <= size + 1 /\ Blank(mixture, s, size)
  BY <1>1, <1>2, StartsAre DEF In
<1>4. EndsAt(mixture, s, size)
  <2>1. ASSUME NEW k \in LineEnds(mixture) PROVE k < s \/ size < k
    <3>1. k \in Nat /\ mixture[k] = "\n"
      BY StartsAre, <1>1 DEF LineEnds
    <3>2. ~(k \in s..size)
      BY <1>3, <3>1, SpaceIsNoNewline DEF Blank
    <3>. QED BY <1>1, <1>2, <3>1, <3>2
  <2>. QED BY <2>1 DEF EndsAt, size
<1>5. NameAt(mixture, s) = <<>>
  <2>1. NameAt(mixture, s) = SubSeq(mixture, size + 1, size)
    <3>1. size <= Len(mixture) /\ ~(size < size)
      BY <1>1 DEF size
    <3>. QED BY <1>1, <1>3, <1>4, <3>1, NameAtIs
  <2>. QED BY <1>1, <2>1, SubSeqEmpty
<1>6. NamesIn(mixture) = (NamesAbove(mixture, s) \cup {NameAt(mixture, s)}) \ {<<>>}
  BY <1>1, <1>3, <1>4, NamesInLast DEF size
<1>7. ssid_set = NamesIn(mixture)
  <2>1. NamesIn(mixture) \subseteq ssid_set /\ ssid_set \subseteq NamesIn(mixture)
    BY <1>2, <1>5, <1>6 DEF In, ScanInv, Scanned
  <2>. QED BY <2>1
<1>8. Whole
  <2>. SUFFICES ASSUME NEW t \in LineStarts(mixture), \A k \in LineEnds(mixture) : k < t
                PROVE  NameAt(mixture, t) = <<>>
    BY DEF Whole
  <2>1. t < s \/ t = s
    <3>1. t < s \/ t = s \/ size + 1 <= Len(mixture)
      BY <1>1, <1>3, <1>4, StartsUpTo
    <3>. QED BY <1>1, <3>1 DEF size
  <2>2. ~(t < s)
    <3>1. s = 1 \/ \E k \in LineEnds(mixture) : s = k + 1
      BY <1>1, <1>3, StartsAre
    <3>2. t \in Nat /\ t > 0 /\ \A k \in LineEnds(mixture) : k \in Nat
      BY <1>1, StartsAre
    <3>. QED BY <3>1, <3>2
  <2>. QED BY <1>5, <2>1, <2>2
<1>9. Whole'
  BY <1>1, <1>8 DEF Whole
<1>. QED BY <1>1, <1>7, <1>9 DEF ScanInv, Scanned, InOrder

LEMMA SsidInvStep ==
  ASSUME SsidInv, [SsidNext]_ssidVars PROVE SsidInv'
<1>1. CASE Take
  BY <1>1, RecordKeepsSsidInv DEF Take
<1>2. CASE Skip \/ Return \/ UNCHANGED ssidVars
  BY <1>2 DEF Skip, Return, ssidVars, SsidInv, NoDuplicates
<1>3. ASSUME NEW data \in Seq(Char), Parse(data) PROVE SsidInv'
  BY <1>3 DEF Parse, SsidInv, NoDuplicates
<1>. QED BY <1>1, <1>2, <1>3 DEF SsidNext, Loop

LEMMA ScanInvStep ==
  ASSUME ScanInv, [SsidNext]_ssidVars PROVE ScanInv'
<1>1. SsidInv'
  BY SsidInvStep DEF ScanInv
<1>2. ASSUME NEW data \in Seq(Char), Parse(data) PROVE ScanInv'
  BY <1>1, <1>2, ParseScanned DEF ScanInv, Parse
<1>3. CASE Loop
  <2>1. mixture' = mixture
    BY <1>3 DEF Loop, Skip, Take, Return
  <2>2. ASSUME size <= npos PROVE Scanned'
    BY <1>3, <2>1, <2>2, SkipScanned, TakeScanned, ReturnScanned DEF Loop
  <2>. QED BY <1>1, <2>1, <2>2 DEF ScanInv, size, npos
<1>4. CASE UNCHANGED ssidVars
  <2>1. UNCHANGED <<mixture, i, ssid_set, ssid_vector, ssid_pc>>
    BY <1>4 DEF ssidVars
  <2>2. UNCHANGED <<size, npos>>
    BY <2>1 DEF size, npos
  <2>3. Scanned => Scanned'
    BY <2>1, <2>2 DEF Scanned, InOrder, In, Whole
  <2>. QED BY <1>1, <2>1, <2>2, <2>3 DEF ScanInv
<1>. QED BY <1>2, <1>3, <1>4 DEF SsidNext

LEMMA ScanInvInit == SsidInit => ScanInv
<1>. SUFFICES ASSUME SsidInit PROVE ScanInv
  OBVIOUS
<1>. USE DEF SsidInit
<1>1. SsidInv /\ mixture \in Seq(Char)
  BY DEF SsidInv, NoDuplicates
<1>2. Scanned
  BY DEF Scanned, InOrder
<1>. QED BY <1>1, <1>2 DEF ScanInv

LEMMA ScanInvAlways == SsidSpec => []ScanInv
  BY ScanInvInit, ScanInvStep, PTL DEF SsidSpec

\* Of every text that a size_t can index, the names come out as its lines give
\* them: all, each once, in their order (char_respond.cpp:143-171).
THEOREM SsidParsesLines == SsidSpec => [](size <= npos => ParsesLines)
<1>1. ScanInv => (size <= npos => ParsesLines)
  BY DEF ScanInv, Scanned, InOrder, ParsesLines
<1>. QED BY <1>1, ScanInvAlways, PTL

\* The loop ends only for a text whose last line is whole (char_respond.cpp:155, 169).
THEOREM SsidEndsOnlyWhole == SsidSpec => [](size <= npos /\ ssid_pc = "done" => Whole)
<1>1. ScanInv => (size <= npos /\ ssid_pc = "done" => Whole)
  BY DEF ScanInv, Scanned
<1>. QED BY <1>1, ScanInvAlways, PTL

-----------------------------------------------------------------------------
(* What parse_line makes of a line from its keyword on.                    *)

LEMMA QuoteIs == Quote # ":"
  BY Zenon DEF Quote

\* The places of a token in a line, and in the line from kw on.
LEMMA PlacesFrom ==
  ASSUME NEW line \in Seq(Token), NEW kw \in 1..Len(line), NEW c
  PROVE  LET tail == SubSeq(line, kw, Len(line)) IN
         /\ tail \in Seq(Token) /\ Len(tail) = Len(line) - kw + 1
         /\ Places(line, c) \subseteq 1..Len(line)
         /\ Places(tail, c) \subseteq 1..Len(tail)
         /\ \A k \in 1..Len(tail) : tail[k] = line[kw + k - 1]
         /\ \A k \in kw..Len(line) : line[k] = c <=> k - kw + 1 \in Places(tail, c)
<1>. DEFINE tail == SubSeq(line, kw, Len(line))
<1>1. Len(line) \in Nat /\ kw \in Nat /\ 1 <= kw /\ kw <= Len(line)
  OBVIOUS
<1>2. /\ tail \in Seq(Token) /\ Len(tail) = Len(line) - kw + 1
      /\ \A k \in 1..Len(line) - kw + 1 : tail[k] = line[kw + k - 1]
  BY <1>1, Slice
<1>3. DOMAIN tail = 1..Len(line) - kw + 1 /\ DOMAIN line = 1..Len(line)
  BY <1>2
<1>4. Places(line, c) \subseteq 1..Len(line) /\ Places(tail, c) \subseteq 1..Len(tail)
  BY <1>2, <1>3 DEF Places
<1>5. ASSUME NEW k \in kw..Len(line) PROVE line[k] = c <=> k - kw + 1 \in Places(tail, c)
  <2>1. k - kw + 1 \in 1..Len(line) - kw + 1 /\ kw + (k - kw + 1) - 1 = k
    BY <1>1
  <2>2. tail[k - kw + 1] = line[k]
    BY <1>2, <2>1
  <2>. HIDE DEF tail
  <2>. QED BY <1>3, <2>1, <2>2 DEF Places
<1>. QED BY <1>2, <1>4, <1>5

\* A line of the shape gives what stands between its quotes.
LEMMA MarksGive ==
  ASSUME NEW line \in Seq(Token), NEW n \in Nat, n = Len(line),
         NEW kw \in Nat, NEW colon \in Nat, NEW open \in Nat, NEW close \in Nat,
         1 <= kw, close <= n, Marks(line, kw, colon, open, close)
  PROVE  /\ Places(line, Keyword) # {}
         /\ parse_line(FromKeyword(line)) = SubSeq(line, open + 1, close - 1)
         /\ parse_line(FromKeyword(line)) # NoValue
<1>. DEFINE tail == SubSeq(line, kw, n)
            colons == Places(tail, ":")
            quotes == {k \in Places(tail, Quote) : colons # {} /\ k > Min(colons)}
            c == colon - kw + 1
            o == open - kw + 1
            e == close - kw + 1
<1>1. /\ kw \in 1..n /\ colon \in 1..n /\ open \in 1..n /\ close \in 1..n /\ DOMAIN line = 1..n
      /\ kw < colon /\ colon < open /\ open + 1 < close
  BY DEF Marks
<1>2. /\ c \in Nat /\ o \in Nat /\ e \in Nat /\ 1 < c /\ c < o /\ o + 1 < e /\ e <= n - kw + 1
      /\ kw + c - 1 = colon /\ kw + o - 1 = open /\ kw + e - 1 = close
  BY <1>1
<1>3. Min(Places(line, Keyword)) = kw /\ Places(line, Keyword) # {}
  <2>1. Places(line, Keyword) \in SUBSET Nat /\ \A h \in Places(line, Keyword) : h \in 1..n
    BY <1>1, PlacesFrom
  <2>2. kw \in Places(line, Keyword)
    BY <1>1 DEF Marks, Places
  <2>3. \A h \in Places(line, Keyword) : kw <= h
    <3>. SUFFICES ASSUME NEW h \in Places(line, Keyword), ~(kw <= h) PROVE FALSE
      OBVIOUS
    <3>1. h \in 1..kw - 1 /\ line[h] = Keyword
      BY <1>1, <2>1 DEF Places
    <3>. QED BY <3>1 DEF Marks
  <2>. QED BY <2>1, <2>2, <2>3, MinIs
<1>4. FromKeyword(line) = tail
  BY <1>3 DEF FromKeyword
<1>5. /\ tail \in Seq(Token) /\ Len(tail) = n - kw + 1
      /\ \A k \in kw..n : line[k] = ":" <=> k - kw + 1 \in colons
      /\ \A k \in kw..n : line[k] = Quote <=> k - kw + 1 \in Places(tail, Quote)
      /\ colons \subseteq 1..n - kw + 1 /\ Places(tail, Quote) \subseteq 1..n - kw + 1
  BY <1>1, PlacesFrom, SMTT(30)
<1>. HIDE DEF tail
<1>6. c \in colons /\ Min(colons) = c
  <2>1. c \in colons
    BY <1>1, <1>5 DEF Marks
  <2>2. \A h \in colons : c <= h
    <3>. SUFFICES ASSUME NEW h \in colons, ~(c <= h) PROVE FALSE
      OBVIOUS
    <3>1. h \in 1..n - kw + 1 /\ kw + h - 1 \in kw..colon - 1 /\ kw + h - 1 \in kw..n /\ (kw + h - 1) - kw + 1 = h
      BY <1>1, <1>2, <1>5
    <3>2. line[kw + h - 1] = ":"
      BY <1>5, <3>1
    <3>. QED BY <3>1, <3>2 DEF Marks
  <2>3. colons \in SUBSET Nat
    BY <1>1, <1>5
  <2>. HIDE DEF colons, c
  <2>. QED BY <2>1, <2>2, <2>3, MinIs
<1>7. quotes = {k \in Places(tail, Quote) : k > c}
  BY <1>6
<1>8. o \in quotes /\ Min(quotes) = o /\ quotes \in SUBSET Nat
  <2>1. o \in quotes
    BY <1>1, <1>2, <1>5, <1>7 DEF Marks
  <2>2. quotes \in SUBSET Nat
    BY <1>1, <1>5, <1>7
  <2>3. \A h \in quotes : o <= h
    <3>. SUFFICES ASSUME NEW h \in quotes, ~(o <= h) PROVE FALSE
      OBVIOUS
    <3>0. h \in 1..n - kw + 1 /\ h > c /\ h \in Places(tail, Quote)
      BY <1>5, <1>7
    <3>1. kw + h - 1 \in colon..open - 1 /\ kw + h - 1 \in kw..n /\ (kw + h - 1) - kw + 1 = h
      BY <1>1, <1>2, <3>0
    <3>2. line[kw + h - 1] = Quote
      BY <1>5, <3>0, <3>1
    <3>. QED BY <3>1, <3>2 DEF Marks
  <2>. HIDE DEF quotes, o
  <2>. QED BY <2>1, <2>2, <2>3, MinIs
<1>9. e \in quotes /\ Max(quotes) = e
  <2>1. e \in quotes
    BY <1>1, <1>2, <1>5, <1>7 DEF Marks
  <2>2. \A h \in quotes : h <= e
    <3>. SUFFICES ASSUME NEW h \in quotes, ~(h <= e) PROVE FALSE
      OBVIOUS
    <3>0. h \in 1..n - kw + 1 /\ h \in Places(tail, Quote)
      BY <1>5, <1>7
    <3>1. kw + h - 1 \in close + 1..Len(line) /\ kw + h - 1 \in kw..n /\ (kw + h - 1) - kw + 1 = h
      BY <1>1, <1>2, <3>0
    <3>2. line[kw + h - 1] = Quote
      BY <1>5, <3>0, <3>1
    <3>. QED BY <3>1, <3>2 DEF Marks
  <2>. HIDE DEF quotes, e
  <2>. QED BY <1>8, <2>1, <2>2, MaxIs
<1>10. parse_line(tail) = SubSeq(tail, o + 1, e - 1)
  <2>. HIDE DEF o, e, c
  <2>. QED BY <1>6, <1>8, <1>9, Zenon DEF parse_line
<1>11. SubSeq(tail, o + 1, e - 1) = SubSeq(line, open + 1, close - 1)
  <2>1. /\ kw \in 1..Len(line) /\ n \in 1..Len(line)
        /\ o + 1 \in 1..n - kw + 1 /\ e - 1 \in 1..n - kw + 1
        /\ kw + (o + 1) - 1 = open + 1 /\ kw + (e - 1) - 1 = close - 1
    BY <1>1, <1>2
  <2>2. SubSeq(SubSeq(line, kw, n), o + 1, e - 1) = SubSeq(line, kw + (o + 1) - 1, kw + (e - 1) - 1)
    BY <2>1, SubSeqOfSubSeq
  <2>. QED BY <2>1, <2>2 DEF tail
<1>12. SubSeq(line, open + 1, close - 1) # <<>>
  <2>1. Len(SubSeq(line, open + 1, close - 1)) = (close - 1) - (open + 1) + 1
    <3>1. open + 1 \in Nat /\ open + 1 > 0 /\ close - 1 \in Nat /\ close - 1 <= Len(line) /\ open + 1 <= close - 1 + 1
      BY <1>1
    <3>. QED BY <3>1, Slice
  <2>2. (close - 1) - (open + 1) + 1 # 0
    BY <1>1
  <2>. QED BY <2>1, <2>2
<1>. QED BY <1>3, <1>4, <1>10, <1>11, <1>12 DEF NoValue

\* What parse_line returns comes from a line of the shape.
LEMMA GivesMarks ==
  ASSUME NEW line \in Seq(Token), NEW n \in Nat, n = Len(line),
         Places(line, Keyword) # {}, parse_line(FromKeyword(line)) # NoValue
  PROVE  \E kw, colon, open, close \in Nat : 1 <= kw /\ close <= n /\ Marks(line, kw, colon, open, close)
<1>1. DOMAIN line = 1..n /\ Places(line, Keyword) \in SUBSET Nat
  BY DEF Places
<1>2. PICK kw \in Nat : kw = Min(Places(line, Keyword))
  BY <1>1, MinIn
<1>3. kw \in Places(line, Keyword) /\ \A h \in Places(line, Keyword) : kw <= h
  BY <1>1, <1>2, MinIn
<1>4. kw \in 1..n /\ line[kw] = Keyword /\ \A k \in 1..kw - 1 : line[k] # Keyword
  <2>1. kw \in 1..n /\ line[kw] = Keyword
    BY <1>1, <1>3 DEF Places
  <2>2. ASSUME NEW k \in 1..kw - 1, line[k] = Keyword PROVE FALSE
    <3>1. k \in 1..n /\ ~(kw <= k)
      BY <2>1
    <3>. QED BY <1>1, <1>3, <2>2, <3>1 DEF Places
  <2>. QED BY <2>1, <2>2
<1>. DEFINE tail == SubSeq(line, kw, n)
            colons == Places(tail, ":")
            quotes == {k \in Places(tail, Quote) : colons # {} /\ k > Min(colons)}
<1>5. /\ tail \in Seq(Token) /\ Len(tail) = n - kw + 1
      /\ \A k \in kw..n : line[k] = ":" <=> k - kw + 1 \in colons
      /\ \A k \in kw..n : line[k] = Quote <=> k - kw + 1 \in Places(tail, Quote)
      /\ colons \subseteq 1..n - kw + 1 /\ Places(tail, Quote) \subseteq 1..n - kw + 1
  BY <1>4, PlacesFrom
<1>. HIDE DEF tail
<1>6. FromKeyword(line) = tail
  BY <1>2 DEF FromKeyword, tail
<1>7. colons # {} /\ quotes # {} /\ SubSeq(tail, Min(quotes) + 1, Max(quotes) - 1) # <<>>
  <2>1. parse_line(tail) # <<>>
    BY <1>6 DEF NoValue
  <2>. QED BY <2>1, Zenon DEF parse_line, NoValue
<1>8. PICK c \in Nat : c \in colons /\ c = Min(colons) /\ \A h \in colons : c <= h
  <2>1. colons \in SUBSET Nat
    BY <1>5
  <2>. HIDE DEF colons
  <2>2. Min(colons) \in colons /\ Min(colons) \in Nat /\ \A h \in colons : Min(colons) <= h
    BY <1>7, <2>1, MinIn
  <2>. QED BY <2>2
<1>9. quotes = {k \in Places(tail, Quote) : k > c}
  BY <1>7, <1>8
<1>10. quotes \in SUBSET Nat /\ quotes \in SUBSET (0..n)
  BY <1>4, <1>5, <1>9
<1>11. PICK o \in Nat : o \in quotes /\ o = Min(quotes) /\ \A h \in quotes : o <= h
  <2>. HIDE DEF quotes
  <2>1. Min(quotes) \in quotes /\ Min(quotes) \in Nat /\ \A h \in quotes : Min(quotes) <= h
    BY <1>7, <1>10, MinIn
  <2>. QED BY <2>1
<1>12. PICK e \in Nat : e \in quotes /\ e = Max(quotes) /\ \A h \in quotes : h <= e
  <2>. HIDE DEF quotes
  <2>1. Max(quotes) \in quotes /\ \A h \in quotes : h <= Max(quotes)
    BY <1>7, <1>10, MaxIn
  <2>2. Max(quotes) \in Nat
    BY <1>10, <2>1
  <2>. QED BY <2>1, <2>2
<1>13. o + 1 <= e - 1
  <2>1. SubSeq(tail, o + 1, e - 1) # <<>>
    BY <1>7, <1>11, <1>12
  <2>. QED BY <2>1, SubSeqEmpty
<1>. DEFINE colon == kw + c - 1
            open == kw + o - 1
            close == kw + e - 1
<1>14. /\ c \in 1..n - kw + 1 /\ o \in 1..n - kw + 1 /\ e \in 1..n - kw + 1 /\ c < o
       /\ o \in Places(tail, Quote) /\ e \in Places(tail, Quote)
  BY <1>5, <1>8, <1>9, <1>11, <1>12
<1>15. /\ colon \in Nat /\ open \in Nat /\ close \in Nat /\ close <= n
       /\ colon \in kw..n /\ open \in kw..n /\ close \in kw..n
       /\ colon - kw + 1 = c /\ open - kw + 1 = o /\ close - kw + 1 = e
       /\ colon < open /\ open + 1 < close
  BY <1>4, <1>13, <1>14
<1>16. line[colon] = ":" /\ line[open] = Quote /\ line[close] = Quote
  BY <1>5, <1>8, <1>14, <1>15
<1>17. kw < colon
  <2>1. colon # kw
    BY <1>4, <1>16, ConfAssumption
  <2>. QED BY <1>15, <2>1
<1>18. ASSUME NEW k \in kw..colon - 1, line[k] = ":" PROVE FALSE
  <2>1. k \in kw..n /\ ~(c <= k - kw + 1)
    BY <1>15
  <2>. QED BY <1>5, <1>8, <1>18, <2>1
<1>19. ASSUME NEW k \in colon..open - 1, line[k] = Quote PROVE FALSE
  <2>1. k \in kw..n /\ ~(o <= k - kw + 1) /\ (k = colon \/ k - kw + 1 > c)
    BY <1>15
  <2>2. k # colon
    BY <1>16, <1>19, QuoteIs
  <2>3. k - kw + 1 \in quotes
    BY <1>5, <1>9, <1>19, <2>1, <2>2
  <2>. QED BY <1>11, <2>1, <2>3
<1>20. ASSUME NEW k \in close + 1..Len(line), line[k] = Quote PROVE FALSE
  <2>1. k \in kw..n /\ ~(k - kw + 1 <= e) /\ k - kw + 1 > c
    BY <1>15
  <2>2. k - kw + 1 \in quotes
    BY <1>5, <1>9, <1>20, <2>1
  <2>. QED BY <1>12, <2>1, <2>2
<1>21. 1 <= kw
  BY <1>4
<1>. HIDE DEF colon, open, close
<1>22. Marks(line, kw, colon, open, close)
  BY <1>4, <1>15, <1>16, <1>17, <1>18, <1>19, <1>20 DEF Marks
<1>. QED BY <1>15, <1>21, <1>22

\* A line is read for its value if it has one, and then that value is read.
LEMMA LineGives ==
  ASSUME NEW line \in Seq(Token)
  PROVE  LET given == Places(line, Keyword) # {} /\ parse_line(FromKeyword(line)) # NoValue IN
         /\ given <=> ValuesIn(line) # {}
         /\ given => parse_line(FromKeyword(line)) \in ValuesIn(line)
<1>. DEFINE n == Len(line)
            given == Places(line, Keyword) # {} /\ parse_line(FromKeyword(line)) # NoValue
<1>1. n \in Nat /\ DOMAIN line = 1..n
  OBVIOUS
<1>2. ASSUME given PROVE parse_line(FromKeyword(line)) \in ValuesIn(line)
  <2>1. PICK kw, colon, open, close \in Nat : 1 <= kw /\ close <= n /\ Marks(line, kw, colon, open, close)
    BY <1>1, <1>2, GivesMarks
  <2>2. kw \in DOMAIN line /\ colon \in DOMAIN line /\ open \in DOMAIN line /\ close \in DOMAIN line
    BY <1>1, <2>1 DEF Marks
  <2>3. parse_line(FromKeyword(line)) = SubSeq(line, open + 1, close - 1)
    BY <1>1, <2>1, MarksGive
  <2>4. <<open, close>>[1] = open /\ <<open, close>>[2] = close
    OBVIOUS
  <2>. QED BY <2>1, <2>2, <2>3, <2>4, Zenon DEF ValuesIn
<1>3. ASSUME NEW v \in ValuesIn(line) PROVE given
  <2>1. PICK kw, colon, open, close \in DOMAIN line : Marks(line, kw, colon, open, close)
    BY <1>3 DEF ValuesIn
  <2>2. kw \in Nat /\ colon \in Nat /\ open \in Nat /\ close \in Nat /\ 1 <= kw /\ close <= n
    BY <1>1, <2>1
  <2>. QED BY <1>1, <2>1, <2>2, MarksGive
<1>. QED BY <1>2, <1>3

-----------------------------------------------------------------------------
(* parse_conf: after every line, what the lines so far give.               *)

Found ==
  IF Giving = {} THEN conf_ret = -1
  ELSE conf_ret = 0 /\ \E n \in Giving : value \in ValuesIn(conf_file[n]) /\ \A m \in Giving : m <= n

ConfInv ==
  /\ conf_pc = "idle" => conf_read = 0
  /\ conf_pc # "idle" /\ conf_fun = "parse_conf" =>
       /\ conf_file \in Seq(Seq(Token)) /\ conf_read \in 0..Len(conf_file) /\ Found
       /\ conf_pc = "done" /\ conf_ret = 0 => conf_read = Len(conf_file)

LEMMA OpenKeepsConfInv ==
  ASSUME ConfInv, NEW fun, NEW files, OpenFile(fun, files), fun = "parse_conf" => files \subseteq Seq(Seq(Token))
  PROVE  ConfInv'
<1>1. /\ conf_read = 0 /\ conf_read' = 0 /\ conf_fun' = fun /\ conf_file' \in files /\ conf_ret' = -1
      /\ conf_pc' \in {"read", "done"}
  BY DEF OpenFile, ConfInv
<1>2. Giving' = {}
  BY <1>1 DEF Giving
<1>3. Found'
  BY <1>1, <1>2 DEF Found
<1>4. fun = "parse_conf" => conf_file' \in Seq(Seq(Token)) /\ conf_read' \in 0..Len(conf_file')
  BY <1>1
<1>. QED BY <1>1, <1>3, <1>4 DEF ConfInv

LEMMA LineKeepsConfInv ==
  ASSUME ConfInv, ConfLine PROVE ConfInv'
<1>. DEFINE r == conf_read + 1
            given == Places(Line, Keyword) # {} /\ parse_line(FromKeyword(Line)) # NoValue
<1>1. /\ conf_pc = "read" /\ conf_pc' = "read" /\ conf_fun = "parse_conf" /\ conf_fun' = "parse_conf"
      /\ conf_file \in Seq(Seq(Token)) /\ conf_file' = conf_file
      /\ conf_read \in Nat /\ conf_read < Len(conf_file) /\ conf_read' = r /\ Found
  BY DEF ConfLine, ConfInv
<1>2. r \in Nat /\ r \in 1..Len(conf_file) /\ Line = conf_file[r] /\ Line \in Seq(Token)
  BY <1>1 DEF Line
<1>3. /\ given <=> ValuesIn(conf_file[r]) # {}
      /\ given => parse_line(FromKeyword(Line)) \in ValuesIn(conf_file[r])
  BY <1>2, LineGives
<1>4. Giving' = {n \in 1..r : ValuesIn(conf_file[n]) # {}} /\ r \notin Giving /\ \A n \in Giving : n \in Nat /\ n <= r
  BY <1>1 DEF Giving
<1>5. \A n \in 1..r : n \in 1..conf_read \/ n = r
  BY <1>1
<1>6. \A n \in 1..conf_read : n \in 1..r
  BY <1>1
<1>7. CASE given
  <2>1. value' = parse_line(FromKeyword(Line)) /\ conf_ret' = 0
    BY <1>7 DEF ConfLine
  <2>2. Giving' = Giving \cup {r}
    <3>1. Giving = {n \in 1..conf_read : ValuesIn(conf_file[n]) # {}}
      BY DEF Giving
    <3>2. r \in 1..r
      BY <1>2
    <3>3. ValuesIn(conf_file[r]) # {}
      BY <1>3, <1>7
    <3>. HIDE DEF r, given
    <3>. QED BY <1>4, <1>5, <1>6, <3>1, <3>2, <3>3
  <2>3. r \in Giving' /\ value' \in ValuesIn(conf_file'[r]) /\ \A m \in Giving' : m <= r
    BY <1>1, <1>2, <1>3, <1>4, <1>7, <2>1, <2>2
  <2>. HIDE DEF given, r
  <2>4. PICK n \in Nat : n = r
    BY <1>2
  <2>5. Giving' # {}
    BY <2>3
  <2>6. \E m \in Giving' : value' \in ValuesIn(conf_file'[m]) /\ \A h \in Giving' : h <= m
    BY <2>3
  <2>. QED BY <1>1, <1>2, <2>1, <2>5, <2>6 DEF Found, ConfInv
<1>8. CASE ~given
  <2>1. value' = value /\ conf_ret' = conf_ret
    BY <1>8 DEF ConfLine
  <2>2. Giving' = Giving
    BY <1>2, <1>3, <1>4, <1>5, <1>6, <1>8 DEF Giving
  <2>3. Found'
    BY <1>1, <2>1, <2>2 DEF Found
  <2>. QED BY <1>1, <1>2, <2>3 DEF ConfInv
<1>. QED BY <1>7, <1>8

LEMMA EndKeepsConfInv ==
  ASSUME ConfInv, EndOfFile PROVE ConfInv'
<1>1. /\ conf_pc = "read" /\ conf_pc' = "done" /\ conf_read = Len(conf_file)
      /\ UNCHANGED <<conf_fun, conf_file, conf_read, value>>
      /\ conf_fun = "parse_conf" => conf_ret' = conf_ret
  BY DEF EndOfFile
<1>2. CASE conf_fun = "parse_conf"
  <2>1. Giving' = Giving
    BY <1>1 DEF Giving
  <2>2. Found'
    BY <1>1, <1>2, <2>1 DEF Found, ConfInv
  <2>. QED BY <1>1, <1>2, <2>2 DEF ConfInv
<1>3. CASE conf_fun # "parse_conf"
  BY <1>1, <1>3 DEF ConfInv
<1>. QED BY <1>2, <1>3

ConfStep == OpenFile("parse_conf", ConfFiles) \/ OpenFile("get_mac_address", MacFiles) \/ ReadLines

LEMMA ConfInvStep ==
  ASSUME ConfInv, [ConfStep]_confVars PROVE ConfInv'
<1>1. CASE OpenFile("parse_conf", ConfFiles)
  BY <1>1, OpenKeepsConfInv, ConfAssumption
<1>2. CASE OpenFile("get_mac_address", MacFiles)
  BY <1>2, OpenKeepsConfInv
<1>3. CASE MacLine
  BY <1>3 DEF MacLine, ConfInv
<1>4. CASE UNCHANGED confVars
  BY <1>4 DEF confVars, ConfInv, Found, Giving
<1>. QED BY <1>1, <1>2, <1>3, <1>4, LineKeepsConfInv, EndKeepsConfInv DEF ConfStep, ReadLines

LEMMA ConfInvInit == ConfInit => ConfInv
  BY DEF ConfInit, ConfInv

LEMMA ConfInvParses == ConfInv => ParsesConf
<1>. SUFFICES ASSUME ConfInv, conf_pc = "done", conf_fun = "parse_conf" PROVE ParsesConf
  BY DEF ParsesConf
<1>1. Found /\ (conf_ret = 0 => conf_read = Len(conf_file))
  BY DEF ConfInv
<1>. QED BY <1>1 DEF Found, ParsesConf

-----------------------------------------------------------------------------
(* get_mac_address: colon by colon, and line by line.                      *)

\* r is s without the first e in it.
Erased(s, e, r) ==
  /\ (\A k \in 1..Len(s) : s[k] # e) => r = s
  /\ (\E k \in 1..Len(s) : s[k] = e) =>
       /\ Len(r) = Len(s) - 1
       /\ \E p \in 1..Len(s) :
            /\ s[p] = e /\ \A k \in 1..p - 1 : s[k] # e
            /\ \A k \in 1..Len(s) - 1 : r[k] = IF k < p THEN s[k] ELSE s[k + 1]

LEMMA RemoveFirstErases ==
  ASSUME NEW S, NEW s \in Seq(S), NEW e
  PROVE  RemoveFirst(s, e) \in Seq(S) /\ Erased(s, e, RemoveFirst(s, e))
<1>1. CASE \A k \in 1..Len(s) : s[k] # e
  <2>1. RemoveFirst(s, e) = s
    BY <1>1, Zenon DEF RemoveFirst
  <2>. QED BY <1>1, <2>1 DEF Erased
<1>2. CASE \E k \in 1..Len(s) : s[k] = e
  <2>. DEFINE I == {k \in 1..Len(s) : s[k] = e}
  <2>1. I \in SUBSET Nat /\ \E k \in I : TRUE
    BY <1>2
  <2>2. PICK p \in I : \A m \in I : p <= m
    <3>1. I # {}
      BY <2>1
    <3>. HIDE DEF I
    <3>. QED BY <2>1, <3>1, Least
  <2>3. Min(I) = p /\ I # {}
    BY <2>1, <2>2, MinIs
  <2>4. RemoveFirst(s, e) = SubSeq(s, 1, p - 1) \o SubSeq(s, p + 1, Len(s))
    <3>1. RemoveFirst(s, e) = RemoveAt(s, IF I # {} THEN Min(I) ELSE 0)
      BY <1>2, Zenon DEF RemoveFirst, SelectInSeq
    <3>. QED BY <3>1, <2>3, Zenon DEF RemoveAt
  <2>. DEFINE a == SubSeq(s, 1, p - 1)
              b == SubSeq(s, p + 1, Len(s))
  <2>5. p \in 1..Len(s) /\ Len(s) \in Nat /\ s[p] = e /\ \A k \in 1..p - 1 : s[k] # e
    BY <2>2
  <2>6. a \in Seq(S) /\ Len(a) = p - 1 /\ \A k \in 1..p - 1 : a[k] = s[k]
    BY <2>5
  <2>7. b \in Seq(S) /\ Len(b) = Len(s) - p /\ \A k \in 1..Len(s) - p : b[k] = s[p + k]
    BY <2>5
  <2>. HIDE DEF a, b
  <2>8. /\ a \o b \in Seq(S) /\ Len(a \o b) = Len(s) - 1
        /\ \A k \in 1..Len(s) - 1 : (a \o b)[k] = IF k < p THEN a[k] ELSE b[k - (p - 1)]
    <3>1. /\ a \o b \in Seq(S) /\ Len(a \o b) = Len(a) + Len(b)
          /\ \A k \in 1..Len(a) + Len(b) : (a \o b)[k] = IF k <= Len(a) THEN a[k] ELSE b[k - Len(a)]
      BY <2>6, <2>7, ConcatProperties
    <3>2. Len(a) + Len(b) = Len(s) - 1 /\ Len(a) = p - 1 /\ p \in Int
      BY <2>5, <2>6, <2>7
    <3>3. \A k \in 1..Len(s) - 1 : k <= Len(a) <=> k < p
      BY <2>5, <3>2
    <3>. QED BY <3>1, <3>2, <3>3
  <2>9. \A k \in 1..Len(s) - 1 : (a \o b)[k] = IF k < p THEN s[k] ELSE s[k + 1]
    <3>. SUFFICES ASSUME NEW k \in 1..Len(s) - 1 PROVE (a \o b)[k] = IF k < p THEN s[k] ELSE s[k + 1]
      OBVIOUS
    <3>1. CASE k < p
      BY <2>5, <2>6, <2>8, <3>1
    <3>2. CASE ~(k < p)
      <4>1. k - (p - 1) \in 1..Len(s) - p /\ p + (k - (p - 1)) = k + 1
        BY <2>5, <3>2
      <4>. QED BY <2>7, <2>8, <3>2, <4>1
    <3>. QED BY <3>1, <3>2
  <2>. QED BY <1>2, <2>4, <2>5, <2>8, <2>9 DEF a, b, Erased
<1>. QED BY <1>1, <1>2

\* One round more.
LEMMA RoundStrips ==
  ASSUME NEW line \in Seq(Token), NEW s \in Seq(Token), NEW n \in Nat, WithoutColons(line, n, s)
  PROVE  RemoveFirst(s, ":") \in Seq(Token) /\ WithoutColons(line, n + 1, RemoveFirst(s, ":"))
<1>. SUFFICES ASSUME NEW r, r = RemoveFirst(s, ":")
              PROVE  r \in Seq(Token) /\ WithoutColons(line, n + 1, r)
  OBVIOUS
<1>1. PICK gone \in SUBSET Places(line, ":") :
        /\ Cardinality(gone) = n \/ (Cardinality(gone) < n /\ gone = Places(line, ":"))
        /\ \A g \in gone, c \in Places(line, ":") \ gone : g < c
        /\ Without(line, gone, s)
  BY DEF WithoutColons
<1>2. PICK at \in [DOMAIN s -> DOMAIN line \ gone] :
        /\ \A j, k \in DOMAIN s : j < k => at[j] < at[k]
        /\ \A p \in DOMAIN line \ gone : \E k \in DOMAIN s : at[k] = p
        /\ \A k \in DOMAIN s : s[k] = line[at[k]]
  BY <1>1 DEF Without
<1>3. r \in Seq(Token) /\ Erased(s, ":", r)
  BY RemoveFirstErases
<1>4. DOMAIN s = 1..Len(s) /\ DOMAIN line = 1..Len(line) /\ Len(s) \in Nat /\ Len(line) \in Nat
  OBVIOUS
<1>5. IsFiniteSet(gone) /\ Cardinality(gone) \in Nat
  <2>1. gone \subseteq 1..Len(line) /\ IsFiniteSet(1..Len(line))
    BY <1>4, FS_Interval DEF Places
  <2>. QED BY <2>1, FS_Subset, FS_CardinalityType
<1>6. \A c \in Places(line, ":") \ gone : \E k \in DOMAIN s : at[k] = c /\ s[k] = ":"
  BY <1>2 DEF Places
<1>7. CASE \A k \in 1..Len(s) : s[k] # ":"
  <2>1. r = s
    BY <1>7, <1>3 DEF Erased
  <2>2. gone = Places(line, ":")
    BY <1>1, <1>4, <1>6, <1>7
  <2>3. Cardinality(gone) < n + 1
    BY <1>1, <1>5
  <2>4. WithoutColons(line, n + 1, r)
    BY <1>1, <2>1, <2>2, <2>3 DEF WithoutColons
  <2>. QED BY <1>3, <2>4
<1>8. CASE \E k \in 1..Len(s) : s[k] = ":"
  <2>1. PICK p \in 1..Len(s) :
          /\ s[p] = ":" /\ \A k \in 1..p - 1 : s[k] # ":"
          /\ \A k \in 1..Len(s) - 1 : r[k] = IF k < p THEN s[k] ELSE s[k + 1]
    BY <1>8, <1>3 DEF Erased
  <2>2. Len(r) = Len(s) - 1
    BY <1>8, <1>3 DEF Erased
  <2>. DEFINE less == gone \cup {at[p]}
              to(k) == IF k < p THEN k ELSE k + 1
              at2 == [k \in DOMAIN r |-> at[to(k)]]
  <2>3. at[p] \in Places(line, ":") \ gone
    BY <1>2, <1>4, <2>1 DEF Places
  <2>4. Cardinality(less) = n + 1
    <3>1. Cardinality(gone) = n
      BY <1>1, <2>3
    <3>. QED BY <1>5, <2>3, <3>1, FS_AddElement
  <2>5. ASSUME NEW g \in less, NEW c \in Places(line, ":") \ less PROVE g < c
    <3>1. PICK k \in DOMAIN s : at[k] = c /\ s[k] = ":"
      BY <1>6
    <3>2. k # p /\ k \in 1..Len(s) /\ k \notin 1..p - 1
      BY <1>4, <2>1, <3>1
    <3>3. p < k
      BY <2>1, <3>2
    <3>4. at[p] < at[k]
      BY <1>2, <1>4, <2>1, <3>2, <3>3
    <3>. QED BY <1>1, <3>1, <3>4
  <2>6. DOMAIN r = 1..Len(s) - 1
    BY <1>3, <2>2, <1>4
  <2>7. /\ \A k \in DOMAIN r : to(k) \in DOMAIN s /\ to(k) # p
        /\ \A j, k \in DOMAIN r : j < k => to(j) < to(k)
        /\ \A k \in DOMAIN s : k # p => \E j \in DOMAIN r : to(j) = k
    <3>1. \A k \in DOMAIN r : to(k) \in DOMAIN s /\ to(k) # p
      BY <1>4, <2>1, <2>6
    <3>2. \A j, k \in DOMAIN r : j < k => to(j) < to(k)
      BY <1>4, <2>1, <2>6
    <3>3. ASSUME NEW k \in DOMAIN s, k # p PROVE \E j \in DOMAIN r : to(j) = k
      <4>1. CASE k < p
        BY <1>4, <2>1, <2>6, <4>1
      <4>2. CASE k > p
        <5>1. k - 1 \in DOMAIN r /\ to(k - 1) = k
          BY <1>4, <2>1, <2>6, <4>2
        <5>. QED BY <5>1
      <4>. QED BY <1>4, <3>3, <4>1, <4>2
    <3>. QED BY <3>1, <3>2, <3>3
  <2>8. \A k \in DOMAIN r : r[k] = s[to(k)]
    BY <2>1, <2>6
  <2>. HIDE DEF to
  <2>9. \A k \in DOMAIN s : k # p => at[k] # at[p]
    <3>. SUFFICES ASSUME NEW k \in DOMAIN s, k # p PROVE at[k] # at[p]
      OBVIOUS
    <3>1. k < p \/ p < k
      BY <1>4, <2>1
    <3>2. at[k] \in Nat /\ at[p] \in Nat
      BY <1>2, <1>4, <2>1
    <3>. QED BY <1>2, <1>4, <2>1, <3>1, <3>2
  <2>10. at2 \in [DOMAIN r -> DOMAIN line \ less]
    BY <1>2, <2>7, <2>9
  <2>11. \A j, k \in DOMAIN r : j < k => at2[j] < at2[k]
    BY <1>2, <2>7
  <2>12. ASSUME NEW q \in DOMAIN line \ less PROVE \E k \in DOMAIN r : at2[k] = q
    <3>1. PICK k \in DOMAIN s : at[k] = q
      BY <1>2
    <3>2. k # p
      BY <3>1
    <3>3. PICK j \in DOMAIN r : to(j) = k
      BY <2>7, <3>2
    <3>. QED BY <3>1, <3>3
  <2>13. \A k \in DOMAIN r : r[k] = line[at2[k]]
    BY <1>2, <2>7, <2>8
  <2>14. Without(line, less, r)
    BY <2>10, <2>11, <2>12, <2>13 DEF Without
  <2>15. less \in SUBSET Places(line, ":")
    BY <1>1, <2>3
  <2>16. WithoutColons(line, n + 1, r)
    BY <2>4, <2>5, <2>14, <2>15 DEF WithoutColons
  <2>. QED BY <1>3, <2>16
<1>. QED BY <1>7, <1>8

LEMMA NothingStripped ==
  ASSUME NEW line \in Seq(Token) PROVE WithoutColons(line, 0, line)
<1>. DEFINE at == [k \in DOMAIN line |-> k]
<1>1. at \in [DOMAIN line -> DOMAIN line \ {}]
  OBVIOUS
<1>2. Without(line, {}, line)
  BY <1>1 DEF Without
<1>3. Cardinality({}) = 0
  BY FS_EmptySet
<1>. QED BY <1>2, <1>3 DEF WithoutColons

LEMMA StrippedIs ==
  ASSUME NEW line \in Seq(Token) PROVE WithoutColons(line, 5, Stripped(line))
<1>. DEFINE strip(s) == RemoveFirst(s, ":")
            s1 == strip(line)
            s2 == strip(s1)
            s3 == strip(s2)
            s4 == strip(s3)
            s5 == strip(s4)
<1>1. s1 \in Seq(Token) /\ WithoutColons(line, 1, s1)
  BY NothingStripped, RoundStrips
<1>. HIDE DEF s1
<1>2. s2 \in Seq(Token) /\ WithoutColons(line, 2, s2)
  BY <1>1, RoundStrips
<1>. HIDE DEF s2
<1>3. s3 \in Seq(Token) /\ WithoutColons(line, 3, s3)
  BY <1>2, RoundStrips
<1>. HIDE DEF s3
<1>4. s4 \in Seq(Token) /\ WithoutColons(line, 4, s4)
  BY <1>3, RoundStrips
<1>. HIDE DEF s4
<1>5. WithoutColons(line, 5, s5)
  BY <1>4, RoundStrips
<1>6. Stripped(line) = s5
  BY Zenon DEF Stripped, s1, s2, s3, s4
<1>. QED BY <1>5, <1>6

MacInv ==
  conf_pc # "idle" /\ conf_fun = "get_mac_address" =>
    /\ conf_file \in Seq(Seq(Token)) /\ conf_read \in 0..Len(conf_file)
    /\ conf_read > 0 => value = Stripped(conf_file[conf_read])
    /\ conf_pc = "done" => conf_read \in {0, Len(conf_file)}

LEMMA MacInvStep ==
  ASSUME ConfInv, MacInv, [ConfStep]_confVars PROVE MacInv'
<1>1. ASSUME NEW fun, NEW files, OpenFile(fun, files), fun = "get_mac_address" => files \subseteq Seq(Seq(Token))
      PROVE  MacInv'
  <2>1. /\ conf_read = 0 /\ conf_read' = 0 /\ conf_fun' = fun /\ conf_file' \in files
    BY <1>1 DEF OpenFile, ConfInv
  <2>2. fun = "get_mac_address" => conf_file' \in Seq(Seq(Token)) /\ conf_read' \in 0..Len(conf_file')
    BY <1>1, <2>1
  <2>. QED BY <2>1, <2>2 DEF MacInv
<1>2. CASE OpenFile("parse_conf", ConfFiles)
  BY <1>1, <1>2
<1>3. CASE OpenFile("get_mac_address", MacFiles)
  <2>1. MacFiles \subseteq Seq(Seq(Token))
    BY ConfAssumption
  <2>. QED BY <1>1, <1>3, <2>1
<1>4. CASE MacLine
  <2>1. /\ conf_pc = "read" /\ conf_pc' = "read" /\ conf_fun = "get_mac_address"
        /\ conf_read < Len(conf_file) /\ conf_read' = conf_read + 1 /\ value' = Stripped(Line)
        /\ conf_file' = conf_file
    BY <1>4 DEF MacLine
  <2>2. conf_file \in Seq(Seq(Token)) /\ conf_read \in 0..Len(conf_file)
    BY <2>1 DEF MacInv
  <2>3. conf_read' \in 0..Len(conf_file') /\ value' = Stripped(conf_file'[conf_read'])
    BY <2>1, <2>2 DEF Line
  <2>. QED BY <2>1, <2>2, <2>3 DEF MacInv
<1>5. CASE ConfLine
  BY <1>5 DEF ConfLine, MacInv
<1>6. CASE EndOfFile
  BY <1>6 DEF EndOfFile, MacInv
<1>7. CASE UNCHANGED confVars
  BY <1>7 DEF confVars, MacInv
<1>. QED BY <1>2, <1>3, <1>4, <1>5, <1>6, <1>7 DEF ConfStep, ReadLines

LEMMA MacInvInit == ConfInit => MacInv
  BY DEF ConfInit, MacInv

LEMMA MacInvStrips == MacInv => MacStripped
<1>. SUFFICES ASSUME MacInv, conf_pc = "done", conf_fun = "get_mac_address", conf_read > 0
              PROVE  WithoutColons(conf_file[Len(conf_file)], 5, value)
  BY DEF MacStripped
<1>1. /\ conf_file \in Seq(Seq(Token)) /\ conf_read = Len(conf_file) /\ conf_read \in 1..Len(conf_file)
      /\ value = Stripped(conf_file[Len(conf_file)])
  BY DEF MacInv
<1>2. conf_file[Len(conf_file)] \in Seq(Token)
  BY <1>1
<1>. QED BY <1>1, <1>2, StrippedIs

\* A text read from a file is not longer than one of its lines.
TextInv ==
  /\ value \in Seq(Token)
  /\ conf_pc = "idle" => value = <<>>
  /\ LinesFit => Len(value) < sizeof_buf

LEMMA StrippedShorter ==
  ASSUME NEW line \in Seq(Token)
  PROVE  Stripped(line) \in Seq(Token) /\ Len(Stripped(line)) <= Len(line)
<1>1. ASSUME NEW s \in Seq(Token)
      PROVE  RemoveFirst(s, ":") \in Seq(Token) /\ Len(RemoveFirst(s, ":")) <= Len(s)
  <2>1. RemoveFirst(s, ":") \in Seq(Token) /\ Erased(s, ":", RemoveFirst(s, ":"))
    BY RemoveFirstErases
  <2>2. RemoveFirst(s, ":") = s \/ Len(RemoveFirst(s, ":")) = Len(s) - 1
    BY <2>1 DEF Erased
  <2>3. Len(s) \in Nat
    OBVIOUS
  <2>. QED BY <2>1, <2>2, <2>3
<1>. DEFINE strip(s) == RemoveFirst(s, ":")
            s1 == strip(line)
            s2 == strip(s1)
            s3 == strip(s2)
            s4 == strip(s3)
            s5 == strip(s4)
<1>2. s1 \in Seq(Token) /\ Len(s1) <= Len(line)
  BY <1>1
<1>. HIDE DEF s1
<1>3. s2 \in Seq(Token) /\ Len(s2) <= Len(s1)
  BY <1>1, <1>2
<1>. HIDE DEF s2
<1>4. s3 \in Seq(Token) /\ Len(s3) <= Len(s2)
  BY <1>1, <1>3
<1>. HIDE DEF s3
<1>5. s4 \in Seq(Token) /\ Len(s4) <= Len(s3)
  BY <1>1, <1>4
<1>. HIDE DEF s4
<1>6. s5 \in Seq(Token) /\ Len(s5) <= Len(s4)
  BY <1>1, <1>5
<1>7. Stripped(line) = s5
  BY Zenon DEF Stripped, s1, s2, s3, s4
<1>. HIDE DEF s5
<1>8. /\ Len(line) \in Nat /\ Len(s1) \in Nat /\ Len(s2) \in Nat /\ Len(s3) \in Nat
      /\ Len(s4) \in Nat /\ Len(s5) \in Nat
  BY <1>2, <1>3, <1>4, <1>5, <1>6
<1>9. Len(s5) <= Len(line)
  BY <1>2, <1>3, <1>4, <1>5, <1>6, <1>8
<1>. QED BY <1>6, <1>7, <1>9

LEMMA ValueShorter ==
  ASSUME NEW line \in Seq(Token),
         Places(line, Keyword) # {}, parse_line(FromKeyword(line)) # NoValue
  PROVE  /\ parse_line(FromKeyword(line)) \in Seq(Token)
         /\ Len(parse_line(FromKeyword(line))) <= Len(line)
<1>. DEFINE n == Len(line)
<1>1. n \in Nat
  OBVIOUS
<1>2. PICK kw, colon, open, close \in Nat : 1 <= kw /\ close <= n /\ Marks(line, kw, colon, open, close)
  BY <1>1, GivesMarks
<1>3. parse_line(FromKeyword(line)) = SubSeq(line, open + 1, close - 1)
  BY <1>1, <1>2, MarksGive
<1>4. open + 1 < close
  BY <1>2 DEF Marks
<1>5. open + 1 \in Nat /\ open + 1 > 0 /\ close - 1 \in Nat /\ close - 1 <= n /\ open + 1 <= (close - 1) + 1
  BY <1>1, <1>2, <1>4
<1>6. /\ SubSeq(line, open + 1, close - 1) \in Seq(Token)
      /\ Len(SubSeq(line, open + 1, close - 1)) = (close - 1) - (open + 1) + 1
  BY <1>5, Slice
<1>. QED BY <1>1, <1>2, <1>3, <1>5, <1>6

LEMMA TextInvStep ==
  ASSUME ConfInv, MacInv, TextInv, [ConfStep]_confVars PROVE TextInv'
<1>1. sizeof_buf \in Nat /\ 0 < sizeof_buf
  BY CharRespondAssumption
<1>2. ASSUME value' = <<>>, conf_pc' # "idle" PROVE TextInv'
  BY <1>1, <1>2 DEF TextInv
<1>3. CASE ConfLine \/ MacLine
  <2>. DEFINE r == conf_read + 1
  <2>1. /\ conf_pc' = "read" /\ conf_file' = conf_file /\ Line = conf_file[r]
        /\ conf_file \in Seq(Seq(Token)) /\ r \in 1..Len(conf_file)
    BY <1>3 DEF ConfLine, MacLine, Line, ConfInv, MacInv
  <2>2. Line \in Seq(Token) /\ Len(Line) \in Nat /\ (LinesFit => Len(Line) < sizeof_buf)
    BY <2>1 DEF LinesFit
  <2>3. value' = value \/ (value' \in Seq(Token) /\ Len(value') <= Len(Line))
    <3>1. CASE ConfLine
      <4>1. CASE Places(Line, Keyword) # {} /\ parse_line(FromKeyword(Line)) # NoValue
        <5>1. value' = parse_line(FromKeyword(Line))
          BY <3>1, <4>1 DEF ConfLine
        <5>. QED BY <2>2, <4>1, <5>1, ValueShorter
      <4>. QED BY <3>1, <4>1 DEF ConfLine
    <3>2. CASE MacLine
      <4>1. value' = Stripped(Line)
        BY <3>2 DEF MacLine
      <4>. QED BY <2>2, <4>1, StrippedShorter
    <3>. QED BY <1>3, <3>1, <3>2
  <2>4. LinesFit' = LinesFit
    BY <2>1 DEF LinesFit
  <2>5. value' \in Seq(Token) /\ (LinesFit => Len(value') < sizeof_buf)
    <3>1. CASE value' = value
      BY <3>1 DEF TextInv
    <3>2. CASE value' \in Seq(Token) /\ Len(value') <= Len(Line)
      BY <1>1, <2>2, <3>2
    <3>. QED BY <2>3, <3>1, <3>2
  <2>. QED BY <2>1, <2>4, <2>5 DEF TextInv
<1>4. CASE EndOfFile \/ UNCHANGED confVars
  <2>1. value' = value /\ conf_file' = conf_file /\ (conf_pc' = "idle" => conf_pc = "idle")
    BY <1>4 DEF EndOfFile, confVars
  <2>. QED BY <2>1 DEF TextInv, LinesFit
<1>5. CASE OpenFile("parse_conf", ConfFiles) \/ OpenFile("get_mac_address", MacFiles)
  BY <1>2, <1>5 DEF OpenFile, TextInv
<1>. QED BY <1>3, <1>4, <1>5 DEF ConfStep, ReadLines

-----------------------------------------------------------------------------
(* The handlers, one action of which is a step of one of the three.        *)

\* The actions that are not a step of utils_system_ex, nor of the parser.
Quiet == Answer \/ Diagnostics_Read \/ TextStep \/ Text_Read \/ Message_Write

LEMMA QuietSteps == Quiet => UNCHANGED <<sysVars, ssidVars, call, scan>>
BY DEF Quiet, Answer, Diagnostics_Read, TextStep, Text_Read, Message_Write

-----------------------------------------------------------------------------
(* The command runner, in the handlers.                                    *)

\* The scan of WifiServices_Write is a run of utils_system_ex, whose variables no
\* other handler touches (char_respond.cpp:126-140).
THEOREM CharImplementsSystemEx == CharSpec => SysSpec
<1>1. CharInit => SysInit
  BY DEF CharInit
<1>2. [CharNext]_charVars => [SysNext]_sysVars
  <2>. SUFFICES ASSUME [CharNext]_charVars PROVE [SysNext]_sysVars
    OBVIOUS
  <2>1. CASE WifiServices_Write
    BY <2>1 DEF WifiServices_Write, SysNext
  <2>2. CASE WifiServices_Read \/ ParseStep \/ UNCHANGED charVars
    BY <2>2 DEF WifiServices_Read, ParseStep, charVars
  <2>3. CASE Quiet
    BY <2>3, QuietSteps
  <2>. QED BY <2>1, <2>2, <2>3 DEF CharNext, Quiet
<1>. QED BY <1>1, <1>2, PTL DEF CharSpec, SysSpec

\* What the results of utils_system_ex mean, to get_wifi_ssid_data as to any caller
\* (sys_utils.cpp:58-82).
THEOREM CharResults ==
  CharSpec => [](PositiveIsPrefix /\ ShortOnlyWhenFullOrFailed /\ UnterminatedOnlyWhenGivenUp)
BY CharImplementsSystemEx, SystemExPrefix, SystemExShort, SystemExGivenUp, PTL

-----------------------------------------------------------------------------
(* The parser of the scan, in the handlers: it is given a text.            *)

\* The terminator is behind bytes that the buffer holds, and these are all that was
\* taken from the pipe.
Held == nul <= filled /\ filled = taken

LEMMA HeldInit == SysInit => Held
BY DEF SysInit, Held

LEMMA HeldStep == SysInv /\ Held /\ [SysNext]_sysVars => Held'
<1>. SUFFICES ASSUME SysInv, Held, [SysNext]_sysVars PROVE Held'
  OBVIOUS
<1>. USE SystemExAssumption
<1>1. /\ taken \in Int /\ filled \in 0..max_size /\ nul \in Int /\ sizet \in Int
      /\ output \in Int
  BY DEF SysInv, SysTypeOK
<1>2. CASE Fread
  <2>1. nul = -1 /\ filled = 0 /\ taken = 0
    BY <1>2 DEF Fread, SysInv, Fresh
  <2>2. \E n \in Int : 0 <= n /\ filled' = (IF n = 0 THEN filled ELSE n) /\ taken' = taken + n
    <3>1. \A n \in 0..Lesser(max_size, output - taken) : n \in Int /\ 0 <= n
      OBVIOUS
    <3>2. Lesser(max_size, output - taken) \in Nat
      BY <1>1 DEF Lesser, SysInv, SysTypeOK
    <3>. QED BY <1>2, <3>1, <3>2 DEF Fread
  <2>3. nul' = nul
    BY <1>2 DEF Fread
  <2>. QED BY <1>1, <2>1, <2>2, <2>3 DEF Held
<1>3. CASE Terminate
  BY <1>1, <1>3 DEF Terminate, SysInv, Held
<1>4. CASE Pclose \/ (\E given \in BOOLEAN : Popen(given)) \/ UNCHANGED sysVars
  BY <1>4 DEF Pclose, Popen, sysVars, Held
<1>. QED BY <1>2, <1>3, <1>4 DEF SysNext

\* What the scan printed is a text, and of the length the command runner is told.
ScanOK == scan \in Seq(Char) /\ output = Len(scan)

LEMMA BufferIsText ==
  ASSUME SysInv, Held, ScanOK, NEW data \in wifi_ssid_buffer PROVE data \in Seq(Char)
<1>. DEFINE content == SubSeq(scan, taken - filled + 1, taken)
<1>1. /\ taken \in 0..Len(scan) /\ filled \in 0..taken /\ nul \in Int /\ nul <= filled
  BY SystemExAssumption DEF SysInv, SysTypeOK, Held, ScanOK
<1>2. content \in Seq(Char) /\ Len(content) = filled
  BY <1>1 DEF ScanOK
<1>3. nul >= 0 => SubSeq(content, 1, nul) \in Seq(Char)
  BY <1>1, <1>2
<1>4. \A text \in BeyondBuffer : content \o text \in Seq(Char)
  BY <1>2, CharRespondAssumption
<1>. QED BY <1>2, <1>3, <1>4 DEF wifi_ssid_buffer

LEMMA ScanStays == ScanOK /\ [CharNext]_charVars => ScanOK'
<1>. SUFFICES ASSUME [CharNext]_charVars PROVE UNCHANGED <<scan, output>>
  BY DEF ScanOK
<1>1. CASE WifiServices_Write
  BY <1>1 DEF WifiServices_Write, Popen, Fread, Terminate, Pclose
<1>2. CASE WifiServices_Read \/ ParseStep \/ UNCHANGED charVars
  BY <1>2 DEF WifiServices_Read, ParseStep, charVars, sysVars
<1>3. CASE Quiet
  BY <1>3, QuietSteps DEF sysVars
<1>. QED BY <1>1, <1>2, <1>3 DEF CharNext, Quiet

\* The read of WiFiServices is a run of parse_wifi_ssid_data on what the scan left
\* in the buffer, wherever it was cut off (char_respond.cpp:142-171, 399-409).
THEOREM CharImplementsSsidParse == CharSpec => SsidSpec
<1>1. CharInit => SsidInit /\ ScanOK /\ Held
  <2>. SUFFICES ASSUME CharInit PROVE SsidInit /\ ScanOK /\ Held
    OBVIOUS
  <2>1. scan \in Seq(Char)
    BY CharRespondAssumption DEF CharInit
  <2>. QED BY <2>1, HeldInit DEF CharInit, ScanOK
<1>2. SysInv /\ Held /\ ScanOK /\ [CharNext]_charVars => [SsidNext]_ssidVars
  <2>. SUFFICES ASSUME SysInv, Held, ScanOK, [CharNext]_charVars PROVE [SsidNext]_ssidVars
    OBVIOUS
  <2>1. CASE WifiServices_Read
    <3>1. PICK data \in wifi_ssid_buffer : Parse(data)
      BY <2>1 DEF WifiServices_Read
    <3>. QED BY <3>1, BufferIsText DEF SsidNext
  <2>2. CASE ParseStep
    BY <2>2 DEF ParseStep, SsidNext
  <2>3. CASE WifiServices_Write \/ UNCHANGED charVars
    BY <2>3 DEF WifiServices_Write, charVars
  <2>4. CASE Quiet
    BY <2>4, QuietSteps
  <2>. QED BY <2>1, <2>2, <2>3, <2>4 DEF CharNext, Quiet
<1>3. SysSpec => []SysInv
  BY SysInvAlways
<1>4. CharSpec => []Held
  BY <1>1, <1>3, HeldStep, CharImplementsSystemEx, PTL DEF CharSpec, SysSpec
<1>5. CharSpec => []ScanOK
  BY <1>1, ScanStays, PTL DEF CharSpec
<1>. QED BY <1>1, <1>2, <1>3, <1>4, <1>5, CharImplementsSystemEx, PTL DEF CharSpec, SsidSpec

\* The list has no name twice (char_respond.cpp:161-166).
THEOREM CharNoDuplicates == CharSpec => []NoDuplicates
BY CharImplementsSsidParse, SsidNoDuplicates, PTL

-----------------------------------------------------------------------------
(* The buffer as the parser finds it.                                       *)

LEMMA BufferFits ==
  ASSUME SysInv, Held, ScanOK, NEW data \in wifi_ssid_buffer PROVE Len(data) <= npos
<1>. DEFINE content == SubSeq(scan, taken - filled + 1, taken)
<1>1. /\ taken \in 0..Len(scan) /\ filled \in 0..taken /\ nul \in Int /\ nul <= filled /\ filled <= max_size
      /\ max_size \in Nat
  BY SystemExAssumption DEF SysInv, SysTypeOK, Held, ScanOK
<1>2. content \in Seq(Char) /\ Len(content) = filled
  BY <1>1 DEF ScanOK
<1>3. npos = 2^Width - 1 /\ 2^Width \in Int
  BY NposIs
<1>4. max_size <= npos /\ \A text \in BeyondBuffer : max_size + Len(text) <= npos /\ text \in Seq(Char)
  <2>1. max_size + Len(<<>>) < 2^Width /\ Len(<<>>) = 0
    BY CharRespondAssumption
  <2>2. \A text \in BeyondBuffer : max_size + Len(text) < 2^Width /\ text \in Seq(Char)
    BY CharRespondAssumption
  <2>3. \A text \in BeyondBuffer : Len(text) \in Nat
    BY <2>2
  <2>. QED BY <1>1, <1>3, <2>1, <2>2, <2>3
<1>. HIDE DEF content
<1>5. nul >= 0 => Len(SubSeq(content, 1, nul)) = nul
  <2>. SUFFICES ASSUME nul >= 0 PROVE Len(SubSeq(content, 1, nul)) = nul
    OBVIOUS
  <2>1. nul \in Nat /\ nul <= Len(content) /\ 1 <= nul + 1
    BY <1>1, <1>2
  <2>. QED BY <1>2, <2>1, Slice
<1>6. \A text \in BeyondBuffer : Len(content \o text) = filled + Len(text) /\ Len(text) \in Nat
  BY <1>2, <1>4
<1>7. npos \in Int
  BY <1>3
<1>8. CASE nul >= 0
  <2>1. data = SubSeq(content, 1, nul)
    BY <1>8 DEF wifi_ssid_buffer, content
  <2>. QED BY <1>1, <1>4, <1>5, <1>7, <1>8, <2>1
<1>9. CASE ~(nul >= 0) /\ filled < max_size
  <2>1. data = content
    BY <1>9 DEF wifi_ssid_buffer, content
  <2>. QED BY <1>1, <1>2, <1>4, <1>7, <2>1
<1>10. CASE ~(nul >= 0) /\ ~(filled < max_size)
  <2>1. PICK text \in BeyondBuffer : data = content \o text
    BY <1>10 DEF wifi_ssid_buffer, content
  <2>2. Len(data) = filled + Len(text) /\ Len(text) \in Nat /\ max_size + Len(text) <= npos
    BY <1>4, <1>6, <2>1
  <2>. QED BY <1>1, <1>7, <2>2
<1>. QED BY <1>8, <1>9, <1>10

\* The reply is written for a list that has been parsed from the buffer, after the
\* scan and before anything else is read into it.
HandInv ==
  /\ ssid_pc = "idle" => mixture = <<>>
  /\ ssid_pc # "idle" => call = "WifiServices" /\ pc = "done" /\ mixture \in wifi_ssid_buffer
  /\ conf_pc # "idle" => call \in {"Key", "MacAddress"}
  /\ reply # NoReply /\ call = "WifiServices" =>
       ssid_pc = "done" /\ reply = Encoded(wifi_services_v1, ssid_vector)

LEMMA HandInvInit == CharInit => HandInv
  BY DEF CharInit, SsidInit, ConfInit, HandInv

LEMMA HandInvStep ==
  ASSUME HandInv, [CharNext]_charVars PROVE HandInv'
<1>1. CASE WifiServices_Write
  <2>1. ssid_pc = "idle"
    BY <1>1 DEF WifiServices_Write, HandInv, Popen, Fread, Terminate, Pclose
  <2>. QED BY <1>1, <2>1 DEF WifiServices_Write, HandInv, ssidVars, confVars
<1>2. CASE WifiServices_Read
  <2>1. /\ call = "WifiServices" /\ pc = "done" /\ \E data \in wifi_ssid_buffer : Parse(data)
        /\ UNCHANGED <<sysVars, confVars, call, scan, reply>>
    BY <1>2 DEF WifiServices_Read
  <2>2. wifi_ssid_buffer' = wifi_ssid_buffer
    BY <2>1 DEF wifi_ssid_buffer, sysVars
  <2>3. mixture' \in wifi_ssid_buffer' /\ ssid_pc' = "loop" /\ ssid_pc = "idle"
    BY <2>1, <2>2 DEF Parse
  <2>. QED BY <2>1, <2>3 DEF HandInv, sysVars, confVars
<1>3. CASE ParseStep
  <2>1. /\ ssid_pc = "loop" /\ ssid_pc' # "idle" /\ mixture' = mixture
        /\ UNCHANGED <<sysVars, confVars, call, scan, reply>>
    BY <1>3 DEF ParseStep, Loop, Skip, Take, Return
  <2>2. wifi_ssid_buffer' = wifi_ssid_buffer
    BY <2>1 DEF wifi_ssid_buffer, sysVars
  <2>. QED BY <2>1, <2>2 DEF HandInv, sysVars, confVars
<1>4. CASE Quiet \/ UNCHANGED charVars
  <2>1. UNCHANGED <<sysVars, ssidVars, call, scan>>
    BY <1>4, QuietSteps DEF charVars
  <2>2. wifi_ssid_buffer' = wifi_ssid_buffer
    BY <2>1 DEF wifi_ssid_buffer, sysVars
  <2>3. conf_pc' # "idle" => call \in {"Key", "MacAddress"}
    <3>1. CASE TextStep
      BY <3>1 DEF TextStep, HandInv, ReadLines, ConfLine, MacLine, EndOfFile
    <3>2. CASE ~TextStep
      <4>1. conf_pc' = conf_pc
        BY <1>4, <3>2 DEF Quiet, charVars, confVars, Answer, Diagnostics_Read, Text_Read, Message_Write
      <4>. QED BY <4>1 DEF HandInv
    <3>. QED BY <3>1, <3>2
  <2>4. reply' # NoReply /\ call = "WifiServices" =>
          ssid_pc = "done" /\ reply' = Encoded(wifi_services_v1, ssid_vector)
    <3>1. CASE Answer
      BY <3>1 DEF Answer
    <3>2. CASE Diagnostics_Read
      BY <3>2 DEF Diagnostics_Read
    <3>3. CASE Text_Read
      BY <3>3 DEF Text_Read, HandInv
    <3>4. CASE TextStep \/ Message_Write \/ UNCHANGED charVars
      <4>1. reply' = reply
        BY <3>4 DEF TextStep, Message_Write, charVars
      <4>. QED BY <4>1 DEF HandInv
    <3>. QED BY <1>4, <3>1, <3>2, <3>3, <3>4 DEF Quiet
  <2>5. (Encoded(wifi_services_v1, ssid_vector))' = Encoded(wifi_services_v1, ssid_vector)
    <3>1. ssid_vector' = ssid_vector
      BY <2>1 DEF ssidVars
    <3>. QED BY <3>1
  <2>. QED BY <2>1, <2>2, <2>3, <2>4, <2>5 DEF HandInv, ssidVars, sysVars
<1>. QED BY <1>1, <1>2, <1>3, <1>4 DEF CharNext, Quiet

-----------------------------------------------------------------------------
(* What is answered.                                                        *)

\* A message with one repeated field is written as one item for each element.
LEMMA FlattenOne ==
  ASSUME NEW x PROVE FlattenSeq(<<x>>) = x
<1>. DEFINE flatten == CHOOSE f : f = [k \in 1..Len(<<x>>) |-> IF k = 1 THEN <<x>>[k] ELSE f[k - 1] \o <<x>>[k]]
<1>1. Len(<<x>>) = 1 /\ <<x>>[1] = x /\ Len(<<x>>) # 0
  OBVIOUS
<1>2. \E f : f = [k \in 1..Len(<<x>>) |-> IF k = 1 THEN <<x>>[k] ELSE f[k - 1] \o <<x>>[k]]
  <2>. DEFINE g == [k \in 1..1 |-> x]
  <2>1. \A k \in 1..1 : k = 1
    OBVIOUS
  <2>2. g = [k \in 1..Len(<<x>>) |-> IF k = 1 THEN <<x>>[k] ELSE g[k - 1] \o <<x>>[k]]
    BY <1>1, <2>1
  <2>. QED BY <2>2
<1>3. flatten = [k \in 1..Len(<<x>>) |-> IF k = 1 THEN <<x>>[k] ELSE flatten[k - 1] \o <<x>>[k]]
  BY <1>2
<1>. HIDE DEF flatten
<1>4. flatten[1] = x
  BY <1>1, <1>3
<1>5. FlattenSeq(<<x>>) = flatten[Len(<<x>>)]
  BY <1>1 DEF FlattenSeq, flatten
<1>. QED BY <1>1, <1>4, <1>5

LEMMA ListWritten ==
  ASSUME NEW v
  PROVE  Serialize(wifi_services_v1, <<v>>) = [j \in DOMAIN v |-> Item(1, "strings", v[j])]
<1>. DEFINE items == [j \in DOMAIN v |-> Item(1, "strings", v[j])]
<1>1. ItemsOf(1, "strings", v) = items
  BY DEF ItemsOf
<1>2. [k \in DOMAIN <<"strings">> |-> ItemsOf(k, <<"strings">>[k], <<v>>[k])] = <<items>>
  <2>1. DOMAIN <<"strings">> = {1} /\ <<"strings">>[1] = "strings" /\ <<v>>[1] = v
    OBVIOUS
  <2>2. [k \in {1} |-> ItemsOf(k, <<"strings">>[k], <<v>>[k])] = [k \in {1} |-> items]
    BY <1>1, <2>1, Zenon
  <2>. HIDE DEF items
  <2>3. [k \in {1} |-> items] = <<items>>
    OBVIOUS
  <2>. QED BY <2>1, <2>2, <2>3
<1>3. Serialize(wifi_services_v1, <<v>>) = FlattenSeq(<<items>>)
  BY <1>2, Zenon DEF Serialize, wifi_services_v1
<1>. QED BY <1>3, FlattenOne

\* A name of a whole text is one of every text that begins with it.
LEMMA NamesOfWhole ==
  ASSUME NEW text \in Seq(Char), NEW m \in 0..Len(text), mixture = SubSeq(text, 1, m), Whole
  PROVE  NamesIn(mixture) \subseteq NamesIn(text)
<1>1. /\ mixture \in Seq(Char) /\ Len(mixture) = m /\ DOMAIN mixture = 1..m /\ DOMAIN text = 1..Len(text)
      /\ m \in Nat /\ Len(text) \in Nat /\ m <= Len(text) /\ \A k \in 1..m : mixture[k] = text[k]
  <2>1. m \in Nat /\ 1 <= m + 1 /\ m <= Len(text)
    OBVIOUS
  <2>2. /\ mixture \in Seq(Char) /\ Len(mixture) = m - 1 + 1
        /\ \A k \in 1..m - 1 + 1 : mixture[k] = text[1 + k - 1]
    BY <2>1, Slice
  <2>. QED BY <2>1, <2>2
<1>2. \A k : k \in LineEnds(mixture) <=> k \in LineEnds(text) /\ k \in 1..m
  BY <1>1 DEF LineEnds
<1>3. LineStarts(mixture) \subseteq LineStarts(text)
  BY <1>2 DEF LineStarts
<1>4. ASSUME NEW s \in LineStarts(mixture), NameAt(mixture, s) # <<>>
      PROVE  NameAt(mixture, s) = NameAt(text, s)
  <2>. DEFINE stop == {k \in LineEnds(mixture) : ~(k < s)}
  <2>1. s \in Nat /\ s > 0 /\ stop \in SUBSET Nat
    <3>1. LineEnds(mixture) \in SUBSET Nat
      BY <1>1, <1>2
    <3>. QED BY <1>1, <3>1, StartsAre
  <2>2. stop # {}
    BY <1>4 DEF Whole
  <2>3. PICK k \in stop : \A h \in stop : k <= h
    BY <2>1, <2>2, Least
  <2>4. k \in Nat /\ k > 0 /\ k <= m /\ s <= k /\ k \in LineEnds(mixture)
    BY <1>1, <1>2, <2>1, <2>3
  <2>5. PICK e \in Nat : e = k - 1
    BY <2>4
  <2>6. EndsAt(mixture, s, e)
    <3>1. \A h \in LineEnds(mixture) : h \in Nat /\ (h < s \/ k <= h)
      BY <1>2, <2>3
    <3>. QED BY <2>1, <2>4, <2>5, <3>1 DEF EndsAt
  <2>7. EndsAt(text, s, e)
    <3>1. ASSUME NEW h \in LineEnds(text) PROVE h < s \/ e < h
      <4>1. h \in Nat /\ h > 0
        BY StartsAre
      <4>2. CASE h <= m
        BY <1>2, <2>6, <4>1, <4>2 DEF EndsAt
      <4>3. CASE ~(h <= m)
        BY <1>1, <2>4, <2>5, <4>1, <4>3
      <4>. QED BY <4>2, <4>3
    <3>2. e + 1 \in LineEnds(text)
      BY <1>2, <2>4, <2>5
    <3>. QED BY <3>1, <3>2 DEF EndsAt
  <2>8. s <= e + 1 /\ e <= m /\ e <= Len(text)
    BY <1>1, <2>4, <2>5
  <2>9. LineFrom(mixture, s) = SubSeq(mixture, s, e) /\ LineFrom(text, s) = SubSeq(text, s, e)
    BY <1>1, <2>1, <2>6, <2>7, <2>8, LineIs
  <2>10. SubSeq(mixture, s, e) = SubSeq(text, s, e)
    <3>1. CASE s <= e
      <4>1. 1 \in 1..Len(text) /\ m \in 1..Len(text) /\ s \in 1..m - 1 + 1 /\ e \in 1..m - 1 + 1
        BY <1>1, <2>1, <2>8, <3>1
      <4>2. SubSeq(SubSeq(text, 1, m), s, e) = SubSeq(text, 1 + s - 1, 1 + e - 1)
        BY <4>1, SubSeqOfSubSeq
      <4>3. 1 + s - 1 = s /\ 1 + e - 1 = e
        BY <2>1
      <4>. QED BY <4>2, <4>3
    <3>2. CASE ~(s <= e)
      <4>1. SubSeq(mixture, s, e) = <<>> /\ SubSeq(text, s, e) = <<>>
        BY <2>1, <3>2, SubSeqEmpty
      <4>. QED BY <4>1
    <3>. QED BY <3>1, <3>2
  <2>. QED BY <2>9, <2>10 DEF NameAt
<1>. QED BY <1>3, <1>4 DEF NamesIn

\* Where the buffer was terminated, or has zeros behind what was read, the text is
\* what the scan begins with.
LEMMA BufferBegins ==
  ASSUME SysInv, Held, ScanOK, Terminated, mixture \in wifi_ssid_buffer
  PROVE  \E m \in 0..Len(scan) : mixture = SubSeq(scan, 1, m) /\ (nul >= 0 => m = nul)
<1>1. /\ taken \in 0..Len(scan) /\ filled = taken /\ nul \in Int /\ nul <= filled /\ Len(scan) \in Nat
      /\ scan \in Seq(Char)
  BY SystemExAssumption DEF SysInv, SysTypeOK, Held, ScanOK
<1>. DEFINE content == SubSeq(scan, 1, taken)
<1>2. SubSeq(scan, taken - filled + 1, taken) = content
  <2>1. taken - filled + 1 = 1
    BY <1>1
  <2>. QED BY <2>1
<1>3. CASE nul >= 0
  <2>1. mixture = SubSeq(content, 1, nul)
    BY <1>2, <1>3 DEF wifi_ssid_buffer
  <2>2. CASE nul = 0
    <3>1. SubSeq(content, 1, 0) = <<>> /\ SubSeq(scan, 1, 0) = <<>>
      BY SubSeqEmpty
    <3>. QED BY <1>1, <2>1, <2>2, <3>1
  <2>3. CASE nul > 0
    <3>1. 1 \in 1..Len(scan) /\ taken \in 1..Len(scan) /\ 1 \in 1..taken - 1 + 1 /\ nul \in 1..taken - 1 + 1
      BY <1>1, <2>3
    <3>2. SubSeq(content, 1, nul) = SubSeq(scan, 1 + 1 - 1, 1 + nul - 1)
      BY <1>1, <3>1, SubSeqOfSubSeq
    <3>3. 1 + 1 - 1 = 1 /\ 1 + nul - 1 = nul /\ nul \in 0..Len(scan)
      BY <1>1, <2>3
    <3>. QED BY <2>1, <3>2, <3>3
  <2>. QED BY <1>1, <1>3, <2>2, <2>3
<1>4. CASE ~(nul >= 0)
  <2>1. mixture = content
    BY <1>2, <1>4 DEF wifi_ssid_buffer, Terminated
  <2>. QED BY <1>1, <1>4, <2>1
<1>. QED BY <1>3, <1>4

\* A vector without duplicates is as long as its set is large.
LEMMA VectorCounts ==
  ASSUME SsidInv PROVE Cardinality(ssid_set) = Len(ssid_vector)
<1>. DEFINE n == Len(ssid_vector)
<1>1. n \in Nat /\ DOMAIN ssid_vector = 1..n /\ ssid_vector \in [1..n -> ssid_set]
  BY DEF SsidInv
<1>2. ssid_set = {ssid_vector[k] : k \in 1..n} /\ \A j, k \in 1..n : ssid_vector[j] = ssid_vector[k] => j = k
  BY <1>1 DEF SsidInv, NoDuplicates
<1>3. ssid_vector \in Bijection(1..n, ssid_set)
  BY <1>1, <1>2 DEF Bijection, Injection, Surjection, IsInjective
<1>4. ExistsBijection(1..n, ssid_set)
  BY <1>3 DEF ExistsBijection
<1>. QED BY <1>1, <1>4, FS_CountingElements

LEMMA ListOfScan ==
  ASSUME SysInv, Held, ScanOK, ScanInv, HandInv, size <= npos
  PROVE  call = "WifiServices" /\ reply # NoReply => IsOfScan
<1>. SUFFICES ASSUME call = "WifiServices", reply # NoReply
              PROVE  /\ Terminated => Listed \subseteq NamesIn(scan)
                     /\ Complete => Listed = NamesIn(scan) /\ Len(reply.content) = Cardinality(Listed)
  BY DEF IsOfScan
<1>1. /\ ssid_pc = "done" /\ pc = "done" /\ mixture \in wifi_ssid_buffer
      /\ reply = Encoded(wifi_services_v1, ssid_vector)
  BY DEF HandInv
<1>2. ssid_set = NamesIn(mixture) /\ Whole /\ SsidInv
  BY <1>1 DEF ScanInv, Scanned
<1>3. reply.content = [j \in DOMAIN ssid_vector |-> Item(1, "strings", ssid_vector[j])]
  BY <1>1, ListWritten DEF Encoded
<1>4. \A j \in DOMAIN ssid_vector : Item(1, "strings", ssid_vector[j]).val = ssid_vector[j]
  BY DEF Item
<1>5. Listed = ssid_set
  <2>1. /\ DOMAIN reply.content = DOMAIN ssid_vector
        /\ \A k \in DOMAIN ssid_vector : reply.content[k].val = ssid_vector[k]
    BY <1>3, <1>4, Zenon
  <2>2. ssid_set = {ssid_vector[k] : k \in DOMAIN ssid_vector}
    BY <1>2 DEF SsidInv, NoDuplicates
  <2>3. \A x : x \in Listed <=> \E k \in DOMAIN ssid_vector : x = ssid_vector[k]
    BY <2>1, Zenon DEF Listed
  <2>. QED BY <2>2, <2>3, Zenon
<1>6. ASSUME Terminated PROVE Listed \subseteq NamesIn(scan)
  <2>1. PICK m \in 0..Len(scan) : mixture = SubSeq(scan, 1, m)
    BY <1>1, <1>6, BufferBegins
  <2>. QED BY <1>2, <1>5, <2>1, NamesOfWhole DEF ScanOK
<1>7. ASSUME Complete PROVE Listed = NamesIn(scan) /\ Len(reply.content) = Cardinality(Listed)
  <2>1. /\ nul = ret /\ ret > 0 /\ ret <= filled /\ filled = taken /\ taken <= output /\ output = Len(scan)
        /\ ret < output => ret = max_size - 1 \/ lost
        /\ output < max_size /\ ~lost
        /\ output \in Nat /\ taken \in Nat /\ max_size \in Nat /\ ret \in Int
    BY <1>1, <1>7, SystemExAssumption DEF Complete, SysInv, SysTypeOK, Prefix, Held, ScanOK
  <2>2. nul = Len(scan) /\ nul >= 0
    BY <2>1
  <2>3. mixture = SubSeq(scan, 1, Len(scan))
    BY <1>1, <2>2, BufferBegins DEF Terminated
  <2>4. mixture = scan
    BY <2>3, SubSeqFull DEF ScanOK
  <2>5. Len(reply.content) = Len(ssid_vector)
    BY <1>2, <1>3 DEF SsidInv
  <2>. QED BY <1>2, <1>5, <2>4, <2>5, VectorCounts
<1>. QED BY <1>6, <1>7

-----------------------------------------------------------------------------
(* From the scan to the reply.                                             *)

LEMMA CharInvs == CharSpec => [](SysInv /\ Held /\ ScanOK /\ ScanInv /\ HandInv)
<1>1. CharInit => ScanOK /\ Held /\ HandInv
  <2>. SUFFICES ASSUME CharInit PROVE ScanOK /\ Held /\ HandInv
    OBVIOUS
  <2>1. scan \in Seq(Char)
    BY CharRespondAssumption DEF CharInit
  <2>. QED BY <2>1, HeldInit, HandInvInit DEF CharInit, ScanOK
<1>2. SysSpec => []SysInv
  BY SysInvAlways
<1>3. CharSpec => []Held
  BY <1>1, <1>2, HeldStep, CharImplementsSystemEx, PTL DEF CharSpec, SysSpec
<1>4. CharSpec => []ScanOK
  BY <1>1, ScanStays, PTL DEF CharSpec
<1>5. CharSpec => []HandInv
  BY <1>1, HandInvStep, PTL DEF CharSpec
<1>. QED BY <1>2, <1>3, <1>4, <1>5, CharImplementsSystemEx, CharImplementsSsidParse, ScanInvAlways, PTL

LEMMA TextFits ==
  ASSUME SysInv, Held, ScanOK, HandInv PROVE size <= npos
<1>1. CASE ssid_pc = "idle"
  <2>1. size = 0
    BY <1>1 DEF HandInv, size
  <2>2. Len(<<>>) = 0 /\ max_size + Len(<<>>) < 2^Width /\ max_size \in Nat /\ 2^Width \in Int /\ npos = 2^Width - 1
    BY NposIs, CharRespondAssumption, SystemExAssumption
  <2>. QED BY <2>1, <2>2
<1>2. CASE ssid_pc # "idle"
  BY <1>2, BufferFits DEF HandInv, size
<1>. QED BY <1>1, <1>2

\* The list read is that of the text's lines: all names, each once, in their order
\* (char_respond.cpp:143-171).
THEOREM CharParsesLines == CharSpec => []ParsesLines
<1>1. SysInv /\ Held /\ ScanOK /\ HandInv => size <= npos
  BY TextFits
<1>. QED BY <1>1, CharInvs, CharImplementsSsidParse, SsidParsesLines, PTL

\* The safety half of ScanIsListed: what WifiServices_Read answers are names of the
\* scan, and if it was read whole all of them, each once (char_respond.cpp:126-170,
\* 399-419; sys_utils.cpp:58-71).
THEOREM CharListIsOfScan ==
  CharSpec => [](call = "WifiServices" /\ reply # NoReply => IsOfScan)
<1>1. SysInv /\ Held /\ ScanOK /\ ScanInv /\ HandInv => (call = "WifiServices" /\ reply # NoReply => IsOfScan)
  BY TextFits, ListOfScan
<1>. QED BY <1>1, CharInvs, PTL

-----------------------------------------------------------------------------
(* Folds.                                                                  *)

\* A fold over the subsets of D, which takes away the element that c names and does
\* to the rest's result what T does with it.
Folded(g, sets, c, base, T) ==
  g = [s \in sets |-> IF s = {} THEN base ELSE T[g[s \ {c[s]}], c[s]]]

\* There is such a function of the sets, which a CHOOSE can pick.
LEMMA FoldedExists ==
  ASSUME NEW D, IsFiniteSet(D), NEW c, \A s \in SUBSET D : s # {} => c[s] \in s,
         NEW X, NEW base \in X, NEW T \in [X \X D -> X]
  PROVE  \E g \in [SUBSET D -> X] : Folded(g, SUBSET D, c, base, T)
<1>. DEFINE Upto(m) == {s \in SUBSET D : Cardinality(s) <= m}
            Bad == {m \in Nat : ~ \E g \in [Upto(m) -> X] : Folded(g, Upto(m), c, base, T)}
<1>1. \A s \in SUBSET D : IsFiniteSet(s) /\ Cardinality(s) \in Nat /\ Cardinality(s) <= Cardinality(D)
  BY FS_Subset, FS_CardinalityType
<1>2. \A s \in SUBSET D : s # {} => s \ {c[s]} \in SUBSET D /\ Cardinality(s \ {c[s]}) = Cardinality(s) - 1
  BY <1>1, FS_RemoveElement
<1>3. Cardinality({}) = 0 /\ {} \in SUBSET D /\ \A s \in SUBSET D : Cardinality(s) = 0 => s = {}
  BY <1>1, FS_EmptySet
<1>4. Cardinality(D) \in Nat /\ Upto(Cardinality(D)) = SUBSET D
  BY <1>1, FS_CardinalityType
<1>5. SUFFICES ASSUME Bad # {} PROVE FALSE
  <2>1. Cardinality(D) \notin Bad
    BY <1>5
  <2>2. \E g \in [Upto(Cardinality(D)) -> X] : Folded(g, Upto(Cardinality(D)), c, base, T)
    BY <1>4, <2>1
  <2>. HIDE DEF Upto
  <2>. QED BY <1>4, <2>2
<1>6. PICK m \in Bad : \A k \in Bad : m <= k
  <2>1. Bad \in SUBSET Nat
    OBVIOUS
  <2>. HIDE DEF Bad
  <2>. QED BY <1>5, <2>1, Least
<1>7. CASE m = 0
  <2>. DEFINE g == [s \in Upto(0) |-> base]
  <2>1. \A s \in Upto(0) : s = {}
    BY <1>1, <1>3
  <2>2. Folded(g, Upto(0), c, base, T)
    BY <2>1 DEF Folded
  <2>3. g \in [Upto(0) -> X]
    OBVIOUS
  <2>. QED BY <1>6, <1>7, <2>2, <2>3
<1>8. CASE m # 0
  <2>1. m - 1 \in Nat /\ m \in Nat /\ m - 1 \notin Bad
    <3>1. m \in Nat
      OBVIOUS
    <3>. HIDE DEF Bad
    <3>. QED BY <1>6, <1>8, <3>1
  <2>. DEFINE sets == Upto(m)
              less == Upto(m - 1)
  <2>2. PICK f \in [less -> X] : Folded(f, less, c, base, T)
    BY <2>1
  <2>. DEFINE g == [s \in sets |-> IF s \in less THEN f[s] ELSE T[f[s \ {c[s]}], c[s]]]
  <2>3. \A s \in sets : s # {} => c[s] \in D /\ s \ {c[s]} \in less /\ s \ {c[s]} \in sets
    BY <1>1, <1>2, <2>1
  <2>4. \A s \in less : s \in sets /\ (s # {} => s \ {c[s]} \in less)
    BY <1>1, <1>2, <2>1
  <2>5. {} \in less
    BY <1>3, <2>1
  <2>6. \A s \in less : f[s] = IF s = {} THEN base ELSE T[f[s \ {c[s]}], c[s]]
    <3>. HIDE DEF less
    <3>. QED BY <2>2 DEF Folded
  <2>. HIDE DEF sets, less
  <2>7. \A s \in sets : g[s] \in X /\ g[s] = IF s = {} THEN base ELSE T[g[s \ {c[s]}], c[s]]
    <3>. SUFFICES ASSUME NEW s \in sets
                  PROVE  g[s] \in X /\ g[s] = IF s = {} THEN base ELSE T[g[s \ {c[s]}], c[s]]
      OBVIOUS
    <3>1. CASE s \in less
      <4>1. g[s] = f[s]
        BY <3>1
      <4>2. s # {} => g[s \ {c[s]}] = f[s \ {c[s]}]
        BY <2>3, <2>4, <3>1
      <4>. HIDE DEF g
      <4>. QED BY <2>6, <3>1, <4>1, <4>2
    <3>2. CASE s \notin less
      <4>1. g[s] = T[f[s \ {c[s]}], c[s]] /\ s # {}
        BY <2>5, <3>2
      <4>2. g[s \ {c[s]}] = f[s \ {c[s]}] /\ f[s \ {c[s]}] \in X
        BY <2>3, <4>1
      <4>3. <<f[s \ {c[s]}], c[s]>> \in X \X D
        BY <2>3, <4>1, <4>2
      <4>. HIDE DEF g
      <4>. QED BY <4>1, <4>2, <4>3
    <3>. QED BY <3>1, <3>2
  <2>8. g = [s \in sets |-> g[s]]
    OBVIOUS
  <2>. HIDE DEF g
  <2>9. g \in [sets -> X] /\ Folded(g, sets, c, base, T)
    BY <2>7, <2>8 DEF Folded
  <2>. QED BY <1>6, <2>9 DEF sets
<1>. QED BY <1>7, <1>8

-----------------------------------------------------------------------------
(* Sums of sizes.                                                          *)

\* A fold that adds up a number for each of 1..n, as FoldLeft defines it.
Folds(g, n, base, w) ==
  g = [s \in SUBSET (1..n) |-> IF s = {} THEN base ELSE g[s \ {Max(s)}] + w[Max(s)]]

LEMMA FoldExists ==
  ASSUME NEW n \in Nat, NEW base \in Nat, NEW w \in [1..n -> Nat] PROVE \E g : Folds(g, n, base, w)
<1>. DEFINE D == 1..n
            c == [s \in SUBSET D |-> Max(s)]
            plus == [x \in Nat \X D |-> x[1] + w[x[2]]]
<1>1. IsFiniteSet(D)
  BY FS_Interval
<1>2. \A s \in SUBSET D : s # {} => Max(s) \in s
  <2>1. \A s \in SUBSET D : s \in SUBSET (0..n)
    OBVIOUS
  <2>. QED BY <2>1, MaxIn
<1>3. \A s \in SUBSET D : s # {} => c[s] \in s
  BY <1>2
<1>4. plus \in [Nat \X D -> Nat]
  OBVIOUS
<1>. HIDE DEF D, c, plus
<1>5. PICK g \in [SUBSET D -> Nat] : Folded(g, SUBSET D, c, base, plus)
  BY <1>1, <1>3, <1>4, FoldedExists
<1>6. ASSUME NEW s \in SUBSET D PROVE g[s] = IF s = {} THEN base ELSE g[s \ {Max(s)}] + w[Max(s)]
  <2>1. g[s] = IF s = {} THEN base ELSE plus[g[s \ {c[s]}], c[s]]
    BY <1>5 DEF Folded
  <2>2. CASE s # {}
    <3>1. c[s] = Max(s) /\ Max(s) \in D /\ s \ {Max(s)} \in SUBSET D
      BY <1>2, <2>2 DEF c
    <3>2. <<g[s \ {Max(s)}], Max(s)>> \in Nat \X D
      BY <3>1
    <3>3. plus[g[s \ {Max(s)}], Max(s)] = g[s \ {Max(s)}] + w[Max(s)]
      BY <3>2 DEF plus
    <3>. QED BY <2>1, <2>2, <3>1, <3>3
  <2>. QED BY <2>1, <2>2
<1>7. g = [s \in SUBSET D |-> g[s]]
  OBVIOUS
<1>8. g = [s \in SUBSET D |-> IF s = {} THEN base ELSE g[s \ {Max(s)}] + w[Max(s)]]
  BY <1>6, <1>7
<1>9. Folds(g, n, base, w)
  BY <1>8 DEF Folds, D
<1>. QED BY <1>9

\* h is the sum at each of its steps.
Sums(h, n, base, w) == h[0] = base /\ \A k \in 1..n : h[k] = h[k - 1] + w[k]

LEMMA FoldSums ==
  ASSUME NEW n \in Nat, NEW base, NEW w, NEW g, Folds(g, n, base, w)
  PROVE  \E h : Sums(h, n, base, w) /\ h[n] = g[1..n]
<1>. DEFINE h == [k \in 0..n |-> g[1..k]]
<1>1. \A s \in SUBSET (1..n) : g[s] = IF s = {} THEN base ELSE g[s \ {Max(s)}] + w[Max(s)]
  <2>. DEFINE sets == SUBSET (1..n)
  <2>1. g = [s \in sets |-> IF s = {} THEN base ELSE g[s \ {Max(s)}] + w[Max(s)]]
    BY DEF Folds
  <2>. HIDE DEF sets
  <2>2. \A s \in sets : g[s] = IF s = {} THEN base ELSE g[s \ {Max(s)}] + w[Max(s)]
    BY <2>1
  <2>. QED BY <2>2 DEF sets
<1>2. h[0] = base
  <2>1. 1..0 = {} /\ {} \in SUBSET (1..n) /\ 0 \in 0..n
    OBVIOUS
  <2>2. g[{}] = base
    BY <1>1, <2>1
  <2>3. h[0] = g[1..0]
    BY <2>1
  <2>. QED BY <2>1, <2>2, <2>3
<1>3. ASSUME NEW k \in 1..n PROVE h[k] = h[k - 1] + w[k]
  <2>1. 1..k \in SUBSET (1..n) /\ 1..k # {} /\ (1..k) \ {k} = 1..k - 1 /\ k - 1 \in 0..n /\ k \in 0..n
    OBVIOUS
  <2>2. Max(1..k) = k
    <3>1. 1..k \in SUBSET Nat /\ k \in 1..k /\ \A x \in 1..k : x <= k
      OBVIOUS
    <3>. QED BY <3>1, MaxIs
  <2>3. g[1..k] = g[1..k - 1] + w[k]
    BY <1>1, <2>1, <2>2
  <2>. QED BY <2>1, <2>3
<1>4. h[n] = g[1..n]
  OBVIOUS
<1>. HIDE DEF h
<1>. QED BY <1>2, <1>3, <1>4 DEF Sums

LEMMA TotalSums ==
  ASSUME NEW v \in Seq(Nat), NEW base \in Nat
  PROVE  \E h : h[Len(v)] = Total(base, v) /\ Sums(h, Len(v), base, v)
<1>. DEFINE n == Len(v)
            g == CHOOSE f : f = [s \in SUBSET (DOMAIN v) |-> IF s = {} THEN base ELSE f[s \ {Max(s)}] + v[Max(s)]]
<1>1. n \in Nat /\ DOMAIN v = 1..n /\ v \in [1..n -> Nat]
  OBVIOUS
<1>2. Total(base, v) = g[DOMAIN v]
  BY Zenon DEF Total, FoldLeft, MapThenFoldSet
<1>3. \E f : f = [s \in SUBSET (DOMAIN v) |-> IF s = {} THEN base ELSE f[s \ {Max(s)}] + v[Max(s)]]
  <2>1. PICK f : Folds(f, n, base, v)
    BY <1>1, FoldExists
  <2>. QED BY <1>1, <2>1, Zenon DEF Folds
<1>4. Folds(g, n, base, v)
  BY <1>1, <1>3, Zenon DEF Folds
<1>. HIDE DEF g
<1>. QED BY <1>1, <1>2, <1>4, FoldSums

\* A sum of sizes that are one more each is larger by their number.
LEMMA TotalWithTags ==
  ASSUME NEW v \in Seq(Nat), NEW w \in Seq(Nat), Len(w) = Len(v), \A k \in 1..Len(v) : w[k] = 1 + v[k]
  PROVE  Total(0, w) = Total(Len(v), v)
<1>. DEFINE n == Len(v)
<1>1. n \in Nat /\ \A k \in 1..n : v[k] \in Nat
  OBVIOUS
<1>2. PICK h : h[n] = Total(n, v) /\ Sums(h, n, n, v)
  BY <1>1, TotalSums
<1>3. PICK t : t[n] = Total(0, w) /\ Sums(t, n, 0, w)
  BY <1>1, TotalSums
<1>. DEFINE Bad == {k \in 0..n : ~(h[k] \in Nat /\ t[k] = (h[k] - n) + k)}
<1>4. SUFFICES ASSUME Bad # {} PROVE FALSE
  <2>1. n \in 0..n /\ n \notin Bad
    BY <1>1, <1>4
  <2>2. h[n] \in Nat /\ t[n] = (h[n] - n) + n
    BY <2>1
  <2>. QED BY <1>1, <1>2, <1>3, <2>2
<1>5. PICK k \in Bad : \A j \in Bad : k <= j
  <2>1. Bad \in SUBSET Nat
    BY <1>1
  <2>. HIDE DEF Bad
  <2>. QED BY <1>4, <2>1, Least
<1>6. k \in 0..n /\ ~(h[k] \in Nat /\ t[k] = (h[k] - n) + k)
  BY <1>5
<1>7. CASE k = 0
  BY <1>1, <1>2, <1>3, <1>6, <1>7 DEF Sums
<1>8. CASE k # 0
  <2>1. k - 1 \in 0..n /\ k \in 1..n /\ k - 1 \notin Bad
    BY <1>1, <1>5, <1>6, <1>8
  <2>2. h[k - 1] \in Nat /\ t[k - 1] = (h[k - 1] - n) + (k - 1)
    BY <2>1
  <2>3. h[k] = h[k - 1] + v[k] /\ t[k] = t[k - 1] + w[k] /\ w[k] = 1 + v[k] /\ v[k] \in Nat
    BY <1>1, <1>2, <1>3, <2>1 DEF Sums
  <2>4. PICK a \in Nat, b \in Nat : a = h[k - 1] /\ b = v[k]
    BY <2>2, <2>3
  <2>5. h[k] = a + b /\ t[k] = ((a - n) + (k - 1)) + (1 + b) /\ k \in Nat
    BY <2>1, <2>2, <2>3, <2>4
  <2>6. h[k] \in Nat /\ t[k] = (h[k] - n) + k
    <3>. HIDE DEF n
    <3>. QED BY <1>1, <2>5
  <2>. QED BY <1>6, <2>6
<1>. QED BY <1>7, <1>8

\* A sum is not above what its steps keep it below.
LEMMA TotalBelow ==
  ASSUME NEW w \in Seq(Nat), NEW low, NEW high,
         \A k \in 1..Len(w) : low[k] \in Nat /\ high[k] \in Nat /\ low[k] + w[k] <= high[k],
         \A k \in 1..Len(w) : k > 1 => high[k - 1] <= low[k],
         NEW end \in Nat, Len(w) > 0 => high[Len(w)] <= end
  PROVE  Total(0, w) <= end
<1>. DEFINE n == Len(w)
<1>1. n \in Nat /\ \A k \in 1..n : w[k] \in Nat
  OBVIOUS
<1>2. PICK h : h[n] = Total(0, w) /\ Sums(h, n, 0, w)
  BY <1>1, TotalSums
<1>. DEFINE Bad == {k \in 1..n : ~(h[k] \in Nat /\ h[k] <= high[k])}
<1>3. CASE n = 0
  BY <1>1, <1>2, <1>3 DEF Sums
<1>4. CASE n # 0 /\ Bad = {}
  <2>1. n \in 1..n
    BY <1>1, <1>4
  <2>2. h[n] \in Nat /\ h[n] <= high[n] /\ high[n] \in Nat
    BY <1>4, <2>1
  <2>. QED BY <1>1, <1>2, <1>4, <2>2
<1>5. CASE Bad # {}
  <2>1. PICK k \in Bad : \A j \in Bad : k <= j
    <3>1. Bad \in SUBSET Nat
      OBVIOUS
    <3>. HIDE DEF Bad
    <3>. QED BY <1>5, <3>1, Least
  <2>2. k \in 1..n /\ ~(h[k] \in Nat /\ h[k] <= high[k])
    BY <2>1
  <2>3. h[k] = h[k - 1] + w[k] /\ w[k] \in Nat /\ low[k] \in Nat /\ high[k] \in Nat /\ low[k] + w[k] <= high[k]
    BY <1>1, <1>2, <2>2 DEF Sums
  <2>4. h[k - 1] \in Nat /\ h[k - 1] <= low[k]
    <3>1. CASE k = 1
      <4>1. h[k - 1] = 0
        BY <1>2, <3>1 DEF Sums
      <4>. QED BY <2>3, <4>1
    <3>2. CASE k # 1
      <4>1. k - 1 \in 1..n /\ k - 1 \notin Bad /\ k > 1
        BY <2>1, <2>2, <3>2
      <4>2. h[k - 1] \in Nat /\ h[k - 1] <= high[k - 1] /\ high[k - 1] \in Nat /\ high[k - 1] <= low[k]
        BY <2>2, <4>1
      <4>. QED BY <2>3, <4>2
    <3>. QED BY <3>1, <3>2
  <2>. QED BY <2>2, <2>3, <2>4, SMTT(30)
<1>. QED BY <1>3, <1>4, <1>5

-----------------------------------------------------------------------------
(* The list is not longer than the text.                                   *)

\* Where the line from s ends.
Stop(text, s) == CHOOSE e \in LineEnds(text) : s <= e /\ \A h \in LineEnds(text) : s <= h => e <= h

LEMMA NameIsText ==
  ASSUME NEW line \in Seq(Char) PROVE NameOf(line) \in Seq(Char)
<1>. DEFINE seen == {k \in DOMAIN line : line[k] # Space}
<1>1. CASE seen = {}
  <2>1. NameOf(line) = <<>> /\ <<>> \in Seq(Char)
    BY <1>1 DEF NameOf
  <2>. QED BY <2>1
<1>2. CASE seen # {}
  <2>1. seen \in SUBSET Nat /\ \A k \in seen : k > 0 /\ k <= Len(line)
    OBVIOUS
  <2>. HIDE DEF seen
  <2>2. PICK f \in seen : \A h \in seen : f <= h
    BY <1>2, <2>1, Least
  <2>3. (CHOOSE k \in seen : \A h \in seen : k <= h) = f
    BY <2>1, <2>2, LeastIs
  <2>4. NameOf(line) = SubSeq(line, f, Len(line))
    BY <1>2, <2>3 DEF NameOf, seen
  <2>5. f \in Nat /\ f > 0 /\ Len(line) \in Nat /\ f <= Len(line) + 1
    BY <2>1, <2>2
  <2>. QED BY <2>4, <2>5, Slice
<1>. QED BY <1>1, <1>2

\* A name behind a blank takes two places less than its line with the newline.
LEMMA NameShort ==
  ASSUME NEW line \in Seq(Char), line # <<>>, line[1] = Space
  PROVE  NameOf(line) \in Seq(Char) /\ Len(NameOf(line)) <= Len(line) - 1
<1>. DEFINE seen == {k \in DOMAIN line : line[k] # Space}
<1>1. Len(line) \in Nat /\ DOMAIN line = 1..Len(line) /\ Len(line) > 0
  OBVIOUS
<1>2. CASE seen = {}
  <2>1. NameOf(line) = <<>> /\ Len(<<>>) = 0 /\ <<>> \in Seq(Char)
    BY <1>2 DEF NameOf
  <2>. QED BY <1>1, <2>1
<1>3. CASE seen # {}
  <2>1. seen \in SUBSET Nat
    BY <1>1
  <2>2. PICK f \in seen : \A h \in seen : f <= h
    <3>. HIDE DEF seen
    <3>. QED BY <1>3, <2>1, Least
  <2>3. (CHOOSE k \in seen : \A h \in seen : k <= h) = f
    <3>. HIDE DEF seen
    <3>. QED BY <2>1, <2>2, LeastIs
  <2>4. NameOf(line) = SubSeq(line, f, Len(line))
    BY <1>3, <2>3 DEF NameOf
  <2>5. f \in Nat /\ f > 1 /\ f <= Len(line)
    BY <1>1, <2>2
  <2>6. SubSeq(line, f, Len(line)) \in Seq(Char) /\ Len(SubSeq(line, f, Len(line))) = Len(line) - f + 1
    <3>1. f > 0 /\ Len(line) <= Len(line) /\ f <= Len(line) + 1
      BY <1>1, <2>5
    <3>. QED BY <1>1, <2>5, <3>1, Slice
  <2>. QED BY <1>1, <2>4, <2>5, <2>6
<1>. QED BY <1>2, <1>3

LEMMA NamedLine ==
  ASSUME NEW text \in Seq(Char), NEW s \in LineStarts(text), s <= Len(text) => text[s] = Space,
         NEW e0 \in LineEnds(text), s <= e0
  PROVE  /\ Stop(text, s) \in LineEnds(text) /\ s <= Stop(text, s)
         /\ \A h \in LineEnds(text) : s <= h => Stop(text, s) <= h
         /\ NameAt(text, s) \in Seq(Char)
         /\ s + Len(NameAt(text, s)) + 1 <= Stop(text, s)
<1>. DEFINE stop == {k \in LineEnds(text) : s <= k}
<1>1. /\ LineEnds(text) \subseteq 1..Len(text) /\ Len(text) \in Nat /\ s \in Nat /\ s > 0
      /\ stop \in SUBSET Nat /\ e0 \in stop
  BY StartsAre
<1>2. \E e \in stop : \A h \in stop : e <= h
  <2>1. stop # {}
    BY <1>1
  <2>. HIDE DEF stop
  <2>. QED BY <1>1, <2>1, Least
<1>3. /\ Stop(text, s) \in LineEnds(text) /\ s <= Stop(text, s)
      /\ \A h \in LineEnds(text) : s <= h => Stop(text, s) <= h
  <2>1. \E e \in LineEnds(text) : s <= e /\ \A h \in LineEnds(text) : s <= h => e <= h
    BY <1>2
  <2>. QED BY <2>1, Zenon DEF Stop
<1>4. PICK k \in 1..Len(text) : k = Stop(text, s)
  BY <1>1, <1>3
<1>5. text[k] = "\n" /\ text[s] = Space /\ s < k
  <2>1. text[k] = "\n" /\ text[s] = Space
    BY <1>1, <1>3, <1>4 DEF LineEnds
  <2>2. s # k
    BY <2>1, SpaceIsNoNewline
  <2>. QED BY <1>1, <1>3, <1>4, <2>1, <2>2
<1>6. PICK e \in Nat : e = k - 1
  BY <1>4
<1>7. EndsAt(text, s, e)
  <2>1. \A h \in LineEnds(text) : h \in Nat /\ (h < s \/ k <= h)
    BY <1>1, <1>3, <1>4
  <2>2. e + 1 \in LineEnds(text)
    BY <1>3, <1>4, <1>6
  <2>. QED BY <1>4, <1>6, <2>1, <2>2 DEF EndsAt
<1>. DEFINE line == SubSeq(text, s, e)
<1>8. NameAt(text, s) = NameOf(line)
  <2>1. s \in Nat /\ e \in Nat /\ s <= e + 1
    BY <1>1, <1>4, <1>5, <1>6
  <2>2. LineFrom(text, s) = line
    BY <1>7, <2>1, LineIs
  <2>. HIDE DEF line
  <2>. QED BY <2>2, Zenon DEF NameAt
<1>9. line \in Seq(Char) /\ Len(line) = e - s + 1 /\ \A j \in 1..e - s + 1 : line[j] = text[s + j - 1]
  <2>1. e <= Len(text) /\ s <= e + 1
    BY <1>1, <1>4, <1>5, <1>6
  <2>. QED BY <1>1, <2>1, Slice
<1>10. line # <<>> /\ line[1] = Space
  <2>1. 1 \in 1..e - s + 1 /\ s + 1 - 1 = s /\ e - s + 1 > 0
    BY <1>1, <1>4, <1>5, <1>6
  <2>. HIDE DEF line
  <2>2. line[1] = text[s]
    BY <1>9, <2>1
  <2>3. Len(line) # 0
    BY <1>9, <2>1
  <2>. QED BY <1>5, <2>2, <2>3
<1>. HIDE DEF line
<1>11. NameOf(line) \in Seq(Char) /\ Len(NameOf(line)) <= Len(line) - 1 /\ Len(NameOf(line)) \in Nat
  BY <1>9, <1>10, NameShort
<1>. QED BY <1>1, <1>3, <1>4, <1>6, <1>8, <1>9, <1>11, SMTT(30)

\* The first line with a name of the text.
LEMMA FirstLineOf ==
  ASSUME NEW text \in Seq(Char), NEW name \in NamesIn(text)
  PROVE  FirstLine(text, name) \in LineStarts(text) /\ NameAt(text, FirstLine(text, name)) = name
<1>. DEFINE S == {t \in LineStarts(text) : NameAt(text, t) = name}
<1>1. S \in SUBSET Nat /\ S # {}
  BY StartsAre DEF NamesIn
<1>2. PICK n \in S : \A m \in S : n <= m
  <2>. HIDE DEF S
  <2>. QED BY <1>1, Least
<1>3. FirstLine(text, name) = n
  BY <1>2, FirstLineIs
<1>. QED BY <1>2, <1>3

\* Every name of a whole text that has a blank in front of each line: together they
\* take, with a tag and a length each, no more than the text.
LEMMA NamesFit ==
  ASSUME mixture \in Seq(Char), Whole, InOrder, ssid_vector \in Seq(NamesIn(mixture)),
         \A s \in LineStarts(mixture) : s <= Len(mixture) => mixture[s] = Space,
         NEW w \in Seq(Nat), Len(w) = Len(ssid_vector),
         \A k \in 1..Len(ssid_vector) : w[k] = 2 + Len(ssid_vector[k])
  PROVE  Total(0, w) <= Len(mixture)
<1>. DEFINE n == Len(ssid_vector)
            L(k) == FirstLine(mixture, ssid_vector[k])
            low == [k \in 1..n |-> L(k) - 1]
            high == [k \in 1..n |-> Stop(mixture, L(k))]
<1>1. n \in Nat /\ Len(mixture) \in Nat /\ \A k \in 1..n : ssid_vector[k] \in NamesIn(mixture)
  OBVIOUS
<1>2. ASSUME NEW k \in 1..n
      PROVE  /\ L(k) \in LineStarts(mixture) /\ L(k) \in Nat /\ L(k) > 0
             /\ high[k] \in LineEnds(mixture) /\ high[k] \in 1..Len(mixture)
             /\ \A h \in LineEnds(mixture) : L(k) <= h => high[k] <= h
             /\ low[k] \in Nat /\ low[k] + w[k] <= high[k]
  <2>1. L(k) \in LineStarts(mixture) /\ NameAt(mixture, L(k)) = ssid_vector[k] /\ ssid_vector[k] # <<>>
    BY <1>1, FirstLineOf DEF NamesIn
  <2>. HIDE DEF L
  <2>2. \E e \in LineEnds(mixture) : ~(e < L(k))
    BY <2>1 DEF Whole
  <2>3. L(k) \in Nat /\ L(k) > 0 /\ LineEnds(mixture) \subseteq 1..Len(mixture)
    BY <2>1, StartsAre
  <2>4. PICK e0 \in LineEnds(mixture) : L(k) <= e0
    BY <1>1, <2>2, <2>3
  <2>5. high[k] = Stop(mixture, L(k)) /\ low[k] = L(k) - 1
    OBVIOUS
  <2>. HIDE DEF high, low
  <2>6. /\ high[k] \in LineEnds(mixture)
        /\ \A h \in LineEnds(mixture) : L(k) <= h => high[k] <= h
        /\ ssid_vector[k] \in Seq(Char) /\ L(k) + Len(ssid_vector[k]) + 1 <= high[k]
    BY <2>1, <2>4, <2>5, NamedLine
  <2>7. w[k] = 2 + Len(ssid_vector[k]) /\ Len(ssid_vector[k]) \in Nat
    BY <2>6
  <2>8. high[k] \in 1..Len(mixture)
    BY <2>3, <2>6
  <2>. QED BY <1>1, <2>1, <2>3, <2>5, <2>6, <2>7, <2>8, SMTT(30)
<1>3. ASSUME NEW k \in 1..n, k > 1 PROVE high[k - 1] <= low[k]
  <2>1. k - 1 \in 1..n
    BY <1>1, <1>3
  <2>2. L(k - 1) < L(k)
    <3>1. DOMAIN ssid_vector = 1..n /\ k - 1 < k
      BY <1>1
    <3>. QED BY <2>1, <3>1 DEF InOrder
  <2>3. low[k] = L(k) - 1
    OBVIOUS
  <2>4. /\ L(k - 1) \in Nat /\ L(k - 1) > 0
         /\ \A h \in LineEnds(mixture) : L(k - 1) <= h => high[k - 1] <= h
    BY <1>2, <2>1
  <2>5. L(k) \in LineStarts(mixture) /\ L(k) \in Nat
    BY <1>2
  <2>. HIDE DEF L, low, high
  <2>6. L(k) \in Nat /\ L(k) # 1
    BY <2>2, <2>4, <2>5
  <2>7. PICK h \in LineEnds(mixture) : L(k) = h + 1
    BY <2>5, <2>6, StartsAre
  <2>8. h \in Nat
    BY StartsAre
  <2>9. L(k - 1) <= h
    BY <2>2, <2>4, <2>7, <2>8
  <2>10. high[k - 1] <= h
    BY <2>4, <2>9
  <2>. QED BY <2>3, <2>7, <2>8, <2>10
<1>. HIDE DEF L, low, high
<1>4. \A k \in 1..Len(w) : low[k] \in Nat /\ high[k] \in Nat /\ low[k] + w[k] <= high[k]
  BY <1>1, <1>2
<1>5. Len(w) > 0 => high[Len(w)] <= Len(mixture)
  <2>1. Len(w) > 0 => Len(w) \in 1..n
    BY <1>1
  <2>. QED BY <1>1, <1>2, <2>1
<1>. QED BY <1>1, <1>3, <1>4, <1>5, TotalBelow

\* The names of a text are sequences of its characters.
LEMMA NamesAreTexts ==
  ASSUME NEW text \in Seq(Char), NEW name \in NamesIn(text) PROVE name \in Seq(Char)
<1>1. PICK s \in LineStarts(text) : name = NameAt(text, s)
  BY DEF NamesIn
<1>. DEFINE stop == {k \in LineEnds(text) : k >= s}
            e == IF stop = {} THEN Len(text) ELSE (CHOOSE k \in stop : \A h \in stop : k <= h) - 1
<1>2. /\ Len(text) \in Nat /\ s \in Nat /\ s > 0 /\ LineEnds(text) \subseteq 1..Len(text)
      /\ s <= Len(text) + 1
  <2>1. /\ Len(text) \in Nat /\ s \in Nat /\ s > 0 /\ LineEnds(text) \subseteq 1..Len(text)
        /\ s = 1 \/ \E k \in LineEnds(text) : s = k + 1
    BY StartsAre
  <2>. QED BY <2>1
<1>3. e \in Nat /\ e <= Len(text) /\ s <= e + 1
  <2>1. stop \in SUBSET (1..Len(text)) /\ stop \in SUBSET Nat /\ \A k \in stop : k >= s
    BY <1>2
  <2>2. CASE stop = {}
    BY <1>2, <2>2
  <2>3. CASE stop # {}
    <3>. HIDE DEF stop
    <3>1. PICK k \in stop : \A h \in stop : k <= h
      BY <2>1, <2>3, Least
    <3>2. (CHOOSE j \in stop : \A h \in stop : j <= h) = k
      BY <2>1, <3>1, LeastIs
    <3>3. e = k - 1 /\ k \in 1..Len(text) /\ k >= s
      BY <2>1, <2>3, <3>2
    <3>. HIDE DEF e
    <3>. QED BY <1>2, <3>3
  <2>. QED BY <2>2, <2>3
<1>4. LineFrom(text, s) = SubSeq(text, s, e)
  BY Zenon DEF LineFrom
<1>. HIDE DEF e
<1>5. LineFrom(text, s) \in Seq(Char)
  BY <1>2, <1>3, <1>4, Slice
<1>. QED BY <1>1, <1>5, NameIsText DEF NameAt

-----------------------------------------------------------------------------
(* The replies fit into their buffers.                                     *)

\* What the buffer keeps of such a scan has lines of the same kind.
LEMMA BeginsBlank ==
  ASSUME ScanOK, BlankBegun, NEW m \in 0..Len(scan), mixture = SubSeq(scan, 1, m)
  PROVE  Len(mixture) = m /\ \A s \in LineStarts(mixture) : s <= Len(mixture) => mixture[s] = Space
<1>1. /\ mixture \in Seq(Char) /\ scan \in Seq(Char) /\ Len(mixture) = m /\ m \in Nat /\ Len(scan) \in Nat
      /\ m <= Len(scan) /\ \A k \in 1..m : mixture[k] = scan[k]
  <2>1. m \in Nat /\ 1 <= m + 1 /\ m <= Len(scan) /\ scan \in Seq(Char)
    BY DEF ScanOK
  <2>2. /\ mixture \in Seq(Char) /\ Len(mixture) = m - 1 + 1
        /\ \A k \in 1..m - 1 + 1 : mixture[k] = scan[1 + k - 1]
    BY <2>1, Slice
  <2>. QED BY <2>1, <2>2
<1>2. LineStarts(mixture) \subseteq LineStarts(scan)
  <2>1. LineEnds(mixture) \subseteq LineEnds(scan)
    BY <1>1 DEF LineEnds
  <2>. QED BY <2>1 DEF LineStarts
<1>3. ASSUME NEW s \in LineStarts(mixture), s <= Len(mixture) PROVE mixture[s] = Space
  <2>1. s \in Nat /\ s > 0
    BY <1>1, StartsAre
  <2>2. s \in 1..m /\ s <= Len(scan)
    BY <1>1, <1>3, <2>1
  <2>3. mixture[s] = scan[s] /\ s \in LineStarts(scan)
    BY <1>1, <1>2, <2>2
  <2>. QED BY <2>2, <2>3 DEF BlankBegun
<1>. QED BY <1>1, <1>3

\* A terminated text leaves a byte of the buffer.
LEMMA TextShorter ==
  ASSUME SysInv, Held, ScanOK, Terminated, mixture \in wifi_ssid_buffer
  PROVE  Len(mixture) < max_size
<1>1. /\ taken \in 0..Len(scan) /\ filled = taken /\ filled \in 0..max_size /\ nul \in -1..max_size - 1
      /\ Len(scan) \in Nat /\ max_size \in Nat /\ scan \in Seq(Char)
  BY SystemExAssumption DEF SysInv, SysTypeOK, Held, ScanOK
<1>2. PICK m \in 0..Len(scan) : mixture = SubSeq(scan, 1, m) /\ (nul >= 0 => m = nul)
  BY BufferBegins
<1>3. \A l \in 0..Len(scan) : Len(SubSeq(scan, 1, l)) = l
  <2>. SUFFICES ASSUME NEW l \in 0..Len(scan) PROVE Len(SubSeq(scan, 1, l)) = l
    OBVIOUS
  <2>1. l \in Nat /\ l <= Len(scan) /\ 1 <= l + 1 /\ l - 1 + 1 = l
    BY <1>1
  <2>. QED BY <1>1, <2>1, Slice
<1>4. CASE nul >= 0
  BY <1>1, <1>2, <1>3, <1>4
<1>5. CASE ~(nul >= 0)
  <2>1. filled < max_size /\ taken - filled + 1 = 1
    BY <1>1, <1>5 DEF Terminated
  <2>2. mixture = SubSeq(scan, 1, taken)
    BY <1>5, <2>1 DEF wifi_ssid_buffer
  <2>. QED BY <1>1, <1>3, <2>1, <2>2
<1>. QED BY <1>4, <1>5

\* The sizes of names are numbers, of short ones a byte more than their length.
LEMMA StringSizeIs ==
  ASSUME NEW S, NEW s \in Seq(S)
  PROVE  StringSize(s) \in Nat /\ (Len(s) < 2^7 => StringSize(s) = 1 + Len(s))
<1>1. Len(s) \in Nat
  OBVIOUS
<1>2. VarintSize(Len(s)) \in Nat /\ (Len(s) < 2^7 => VarintSize(Len(s)) = 1)
  BY DEF VarintSize
<1>. QED BY <1>1, <1>2 DEF StringSize

LEMMA ListFits ==
  ASSUME SysInv, Held, ScanOK, ScanInv, HandInv, size <= npos,
         call = "WifiServices", reply # NoReply
  PROVE  /\ reply.size = Written("strings", reply.content)
         /\ Terminated /\ BlankBegun /\ (\A name \in Listed : Len(name) < 2^7) =>
              reply.size <= Len(mixture) /\ Len(mixture) < max_size
<1>. DEFINE n == Len(ssid_vector)
            sizes == [k \in 1..n |-> StringSize(ssid_vector[k])]
            tagged == [k \in 1..n |-> 1 + sizes[k]]
<1>1. /\ ssid_pc = "done" /\ mixture \in wifi_ssid_buffer /\ reply = Encoded(wifi_services_v1, ssid_vector)
      /\ mixture \in Seq(Char)
  BY DEF HandInv, ScanInv
<1>2. ssid_set = NamesIn(mixture) /\ Whole /\ InOrder /\ ssid_vector \in Seq(NamesIn(mixture))
  BY <1>1 DEF ScanInv, Scanned, SsidInv
<1>3. n \in Nat /\ DOMAIN ssid_vector = 1..n /\ \A k \in 1..n : ssid_vector[k] \in NamesIn(mixture)
  BY <1>2
<1>4. ASSUME NEW k \in 1..n PROVE ssid_vector[k] \in Seq(Char)
  BY <1>1, <1>3, NamesAreTexts
<1>5. sizes \in Seq(Nat) /\ tagged \in Seq(Nat) /\ Len(sizes) = n /\ Len(tagged) = n
  <2>1. \A k \in 1..n : StringSize(ssid_vector[k]) \in Nat
    BY <1>4, StringSizeIs
  <2>. QED BY <1>3, <2>1
<1>6. reply.content = [k \in 1..n |-> Item(1, "strings", ssid_vector[k])]
  BY <1>1, <1>3, ListWritten DEF Encoded
<1>7. DOMAIN reply.content = 1..n /\ \A k \in 1..n : reply.content[k].val = ssid_vector[k]
  BY <1>6 DEF Item
<1>8. reply.size = Total(n, sizes)
  <2>1. reply.size = ByteSizeLong("strings", ssid_vector)
    BY <1>1 DEF Encoded, wifi_services_v1
  <2>2. Sizes("strings", ssid_vector) = sizes
    BY <1>3 DEF Sizes
  <2>. HIDE DEF sizes
  <2>. QED BY <2>1, <2>2 DEF ByteSizeLong
<1>9. Written("strings", reply.content) = Total(0, tagged)
  <2>1. Sizes("strings", [k \in DOMAIN reply.content |-> reply.content[k].val]) = sizes
    BY <1>7 DEF Sizes
  <2>2. DOMAIN sizes = 1..n
    OBVIOUS
  <2>3. [k \in DOMAIN sizes |-> 1 + sizes[k]] = tagged
    BY <2>2
  <2>. HIDE DEF sizes, tagged
  <2>. QED BY <2>1, <2>3, Zenon DEF Written
<1>10. \A k \in 1..n : sizes[k] = StringSize(ssid_vector[k]) /\ tagged[k] = 1 + sizes[k]
  OBVIOUS
<1>. HIDE DEF n, sizes, tagged
<1>11. Total(0, tagged) = Total(n, sizes)
  BY <1>5, <1>10, TotalWithTags
<1>12. ASSUME Terminated, BlankBegun, \A name \in Listed : Len(name) < 2^7
       PROVE  reply.size <= Len(mixture) /\ Len(mixture) < max_size
  <2>1. \A k \in 1..n : Len(ssid_vector[k]) < 2^7
    BY <1>7, <1>12 DEF Listed
  <2>2. ASSUME NEW k \in 1..n PROVE tagged[k] = 2 + Len(ssid_vector[k])
    <3>1. ssid_vector[k] \in Seq(Char) /\ Len(ssid_vector[k]) < 2^7 /\ Len(ssid_vector[k]) \in Nat
      BY <1>4, <2>1
    <3>2. StringSize(ssid_vector[k]) = 1 + Len(ssid_vector[k])
      BY <3>1, StringSizeIs
    <3>. QED BY <1>10, <3>1, <3>2
  <2>3. PICK m \in 0..Len(scan) : mixture = SubSeq(scan, 1, m)
    BY <1>1, <1>12, BufferBegins
  <2>4. \A s \in LineStarts(mixture) : s <= Len(mixture) => mixture[s] = Space
    BY <1>12, <2>3, BeginsBlank
  <2>5. Total(0, tagged) <= Len(mixture)
    BY <1>1, <1>2, <1>5, <2>2, <2>4, NamesFit DEF n
  <2>6. Len(mixture) < max_size
    BY <1>1, <1>12, TextShorter
  <2>. QED BY <1>8, <1>11, <2>5, <2>6
<1>. QED BY <1>8, <1>9, <1>11, <1>12

\* What Diagnostics_Read answers is always the same.
DiagnosticsInv ==
  reply # NoReply /\ call = "Diagnostics" => reply = Encoded(diagnostics_v1, Texts_of_Diagnostics)

LEMMA DiagnosticsStep ==
  ASSUME HandInv, DiagnosticsInv, [CharNext]_charVars PROVE DiagnosticsInv'
<1>. DEFINE texts == Encoded(diagnostics_v1, Texts_of_Diagnostics)
<1>1. CASE Diagnostics_Read
  BY <1>1 DEF Diagnostics_Read, DiagnosticsInv
<1>2. CASE Answer
  <2>1. call = "WifiServices" /\ call' = call
    BY <1>2 DEF Answer, HandInv
  <2>. QED BY <2>1 DEF DiagnosticsInv
<1>3. CASE Text_Read
  <2>1. call \in {"Key", "MacAddress"} /\ call' = call
    BY <1>3 DEF Text_Read, HandInv
  <2>. QED BY <2>1 DEF DiagnosticsInv
<1>4. CASE ~(Diagnostics_Read \/ Answer \/ Text_Read)
  <2>1. call' = call /\ reply' = reply
    BY <1>4 DEF CharNext, WifiServices_Write, WifiServices_Read, ParseStep, TextStep, Message_Write, charVars
  <2>. QED BY <2>1 DEF DiagnosticsInv
<1>. QED BY <1>1, <1>2, <1>3, <1>4

-----------------------------------------------------------------------------
(* The key file, in the handlers.                                          *)

LEMMA CharConfStep == [CharNext]_charVars => [ConfStep]_confVars
<1>. SUFFICES ASSUME [CharNext]_charVars PROVE [ConfStep]_confVars
  OBVIOUS
<1>1. CASE TextStep
  BY <1>1 DEF TextStep, ConfStep
<1>2. CASE ~TextStep
  BY <1>2 DEF CharNext, charVars, WifiServices_Write, WifiServices_Read, ParseStep, Answer,
              Diagnostics_Read, Text_Read, Message_Write
<1>. QED BY <1>1, <1>2

\* parse_conf succeeds exactly if a line gives the keyword a value, and returns that of
\* the last such line (char_respond.cpp:63-91).
THEOREM CharParsesConf == CharSpec => []ParsesConf
<1>1. CharInit => ConfInv
  BY ConfInvInit DEF CharInit
<1>2. ConfInv /\ [CharNext]_charVars => ConfInv'
  BY CharConfStep, ConfInvStep
<1>. QED BY <1>1, <1>2, ConfInvParses, PTL DEF CharSpec

\* get_mac_address returns the last line of its file without its first five colons,
\* with nothing else left out and no colon before a kept one left in
\* (char_respond.cpp:93-124).
THEOREM CharMacStripped == CharSpec => []MacStripped
<1>1. CharInit => ConfInv /\ MacInv
  BY ConfInvInit, MacInvInit DEF CharInit
<1>2. ConfInv /\ MacInv /\ [CharNext]_charVars => ConfInv' /\ MacInv'
  BY CharConfStep, ConfInvStep, MacInvStep
<1>. QED BY <1>1, <1>2, MacInvStrips, PTL DEF CharSpec

-----------------------------------------------------------------------------
(* The replies.                                                             *)

Survives ==
  call \in {"Key", "MacAddress"} =>
    /\ reply # NoReply => conf_pc = "done"
    /\ LinesFit => reply # Lost

LEMMA NotLost == NoReply # Lost
<1>1. NoReply.size # Lost.size
  BY DEF NoReply, Lost
<1>. QED BY <1>1

LEMMA SurvivesStep ==
  ASSUME HandInv, TextInv, Survives, [CharNext]_charVars PROVE Survives'
<1>1. CASE Text_Read
  <2>1. call' = call /\ LinesFit' = LinesFit /\ conf_pc = "done" /\ conf_pc' = "done"
    BY <1>1 DEF Text_Read, confVars, LinesFit
  <2>2. ASSUME LinesFit PROVE reply' # Lost
    <3>1. Len(value) < sizeof_buf /\ Len(value) \in Nat
      BY <2>2 DEF TextInv
    <3>2. reply' = [size |-> 1, content |-> <<"NUL">>] \/ reply' = Copied
      BY <1>1, <3>1 DEF Text_Read
    <3>3. reply'.size \in Nat
      BY <3>1, <3>2 DEF Copied
    <3>4. Lost.size \notin Nat
      BY DEF Lost
    <3>. QED BY <3>3, <3>4
  <2>. QED BY <2>1, <2>2 DEF Survives
<1>2. CASE TextStep
  <2>1. call' = call /\ reply' = reply /\ conf_pc # "done"
    BY <1>2 DEF TextStep, OpenFile, ReadLines, ConfLine, MacLine, EndOfFile
  <2>2. call \in {"Key", "MacAddress"} => reply = NoReply
    BY <2>1 DEF Survives
  <2>. QED BY <2>1, <2>2, NotLost DEF Survives
<1>3. CASE Diagnostics_Read \/ Answer
  <2>1. call \notin {"Key", "MacAddress"} /\ call' = call
    BY <1>3 DEF Diagnostics_Read, Answer, HandInv
  <2>. QED BY <2>1 DEF Survives
<1>4. CASE ~(Text_Read \/ TextStep \/ Diagnostics_Read \/ Answer)
  <2>1. call' = call /\ reply' = reply /\ conf_file' = conf_file /\ conf_pc' = conf_pc
    BY <1>4 DEF CharNext, WifiServices_Write, WifiServices_Read, ParseStep, Message_Write, charVars, confVars
  <2>. QED BY <2>1 DEF Survives, LinesFit
<1>. QED BY <1>1, <1>2, <1>3, <1>4

\* The bytes written are those counted, and fit: the diagnostics into Value, the list
\* of names, if each line of the scan began with a blank, into as many bytes as the text
\* had.  A text from a file fits into the handler's array if the file's lines do
\* (char_respond.cpp:28, 63-124, 311, 357-393, 413-417, 436-440; gatt.h:23).
THEOREM CharReplyFits == CharSpec => []ReplyFits
<1>1. CharInit => DiagnosticsInv
  BY DEF CharInit, DiagnosticsInv
<1>2. CharSpec => []DiagnosticsInv
  BY <1>1, DiagnosticsStep, CharInvs, PTL DEF CharSpec
<1>3. DiagnosticsInv => (reply # NoReply /\ call = "Diagnostics" =>
        reply.size = Written("map", reply.content) /\ reply.size <= sizeof_Value)
  <2>. SUFFICES ASSUME reply = Encoded(diagnostics_v1, Texts_of_Diagnostics)
                PROVE  reply.size = Written("map", reply.content) /\ reply.size <= sizeof_Value
    BY DEF DiagnosticsInv
  <2>1. diagnostics_v1[1] = "map"
    BY DEF diagnostics_v1
  <2>2. /\ reply.size = ByteSizeLong("map", Texts_of_Diagnostics)
        /\ reply.content = Serialize(diagnostics_v1, <<Texts_of_Diagnostics>>)
    BY <2>1 DEF Encoded
  <2>. QED BY <2>2, DiagnosticsSize
<1>4. CharSpec => [](TextInv /\ Survives)
  <2>1. CharInit => ConfInv /\ MacInv /\ TextInv /\ Survives
    <3>1. ConfInit => TextInv
      BY CharRespondAssumption DEF ConfInit, TextInv
    <3>2. CharInit => ConfInit /\ reply = NoReply
      BY Zenon DEF CharInit
    <3>3. reply = NoReply => Survives
      BY NotLost, Zenon DEF Survives
    <3>. QED BY <3>1, <3>2, <3>3, ConfInvInit, MacInvInit
  <2>2. ConfInv /\ MacInv /\ TextInv /\ Survives /\ HandInv /\ [CharNext]_charVars
          => ConfInv' /\ MacInv' /\ TextInv' /\ Survives'
    BY CharConfStep, ConfInvStep, MacInvStep, TextInvStep, SurvivesStep
  <2>. QED BY <2>1, <2>2, CharInvs, PTL DEF CharSpec
<1>5. SysInv /\ Held /\ ScanOK /\ ScanInv /\ HandInv /\ DiagnosticsInv /\ Survives => ReplyFits
  BY <1>3, TextFits, ListFits DEF ReplyFits, Survives
<1>. QED BY <1>2, <1>4, <1>5, CharInvs, PTL
-----------------------------------------------------------------------------
(* Sequences, one behind the other.                                        *)

\* The steps of FlattenSeq: what it has made of the first sequences.
LEMMA FlattenSteps ==
  ASSUME NEW X, NEW seqs \in Seq(Seq(X))
  PROVE  \E h \in [0..Len(seqs) -> Seq(X)] :
           /\ h[0] = <<>> /\ FlattenSeq(seqs) = h[Len(seqs)]
           /\ \A n \in 1..Len(seqs) : h[n] = h[n - 1] \o seqs[n]
<1>. DEFINE N == Len(seqs)
            Flat(f, m) == f = [k \in 1..m |-> IF k = 1 THEN seqs[k] ELSE f[k - 1] \o seqs[k]]
            Bad == {m \in 0..N : ~ \E f : Flat(f, m)}
<1>1. N \in Nat /\ N = Len(seqs) /\ \A k \in 1..N : seqs[k] \in Seq(X)
  OBVIOUS
<1>. HIDE DEF N
<1>2. \E f : Flat(f, N)
  <2>1. SUFFICES ASSUME Bad # {} PROVE FALSE
    <3>1. N \in 0..N
      BY <1>1
    <3>. HIDE DEF Flat
    <3>. QED BY <3>1
  <2>2. PICK m \in Bad : \A k \in Bad : m <= k
    <3>1. Bad \in SUBSET Nat
      <4>. HIDE DEF Flat
      <4>. QED BY <1>1
    <3>. HIDE DEF Bad
    <3>. QED BY <2>1, <3>1, Least
  <2>3. m \in 0..N /\ ~ \E f : Flat(f, m)
    OBVIOUS
  <2>4. CASE m = 0
    <3>. DEFINE f == [k \in 1..0 |-> <<>>]
    <3>1. Flat(f, 0)
      OBVIOUS
    <3>. QED BY <2>3, <2>4, <3>1
  <2>5. CASE m # 0
    <3>1. m - 1 \in 0..N /\ m - 1 \notin Bad
      <4>1. m - 1 \in 0..N /\ m \in Nat /\ m - 1 < m
        BY <1>1, <2>3, <2>5
      <4>. HIDE DEF Bad
      <4>. QED BY <2>2, <4>1
    <3>2. PICK f : Flat(f, m - 1)
      BY <3>1
    <3>. DEFINE g == [k \in 1..m |-> IF k < m THEN f[k] ELSE IF k = 1 THEN seqs[k] ELSE f[k - 1] \o seqs[k]]
    <3>3. ASSUME NEW k \in 1..m PROVE g[k] = IF k = 1 THEN seqs[k] ELSE g[k - 1] \o seqs[k]
      <4>1. CASE k < m
        <5>1. k \in 1..m - 1 /\ (k # 1 => k - 1 \in 1..m - 1 /\ k - 1 \in 1..m /\ k - 1 < m)
          BY <2>3, <4>1
        <5>2. f[k] = IF k = 1 THEN seqs[k] ELSE f[k - 1] \o seqs[k]
          BY <3>2, <5>1
        <5>3. g[k] = f[k] /\ (k # 1 => g[k - 1] = f[k - 1])
          BY <4>1, <5>1
        <5>. HIDE DEF g
        <5>. QED BY <5>2, <5>3
      <4>2. CASE k = m
        <5>1. k # 1 => k - 1 \in 1..m /\ k - 1 < m
          BY <2>3, <4>2
        <5>2. g[k] = (IF k = 1 THEN seqs[k] ELSE f[k - 1] \o seqs[k]) /\ (k # 1 => g[k - 1] = f[k - 1])
          BY <2>3, <4>2, <5>1
        <5>. HIDE DEF g
        <5>. QED BY <5>2
      <4>. QED BY <2>3, <4>1, <4>2
    <3>4. Flat(g, m)
      <4>1. g = [k \in 1..m |-> g[k]]
        OBVIOUS
      <4>. HIDE DEF g
      <4>. QED BY <3>3, <4>1
    <3>. QED BY <2>3, <3>4
  <2>. QED BY <2>4, <2>5
<1>. DEFINE flatten == CHOOSE f : f = [k \in 1..Len(seqs) |-> IF k = 1 THEN seqs[k] ELSE f[k - 1] \o seqs[k]]
            h == [k \in 0..N |-> IF k = 0 THEN <<>> ELSE flatten[k]]
<1>3. flatten = [k \in 1..N |-> IF k = 1 THEN seqs[k] ELSE flatten[k - 1] \o seqs[k]]
  BY <1>1, <1>2
<1>4. FlattenSeq(seqs) = IF N = 0 THEN <<>> ELSE flatten[N]
  <2>1. N = 0 => seqs = <<>>
    <3>1. Len(seqs) = 0 => seqs = <<>>
      OBVIOUS
    <3>. QED BY <1>1, <3>1
  <2>2. FlattenSeq(seqs) = IF Len(seqs) = 0 THEN seqs ELSE flatten[Len(seqs)]
    BY Zenon DEF FlattenSeq
  <2>. HIDE DEF flatten
  <2>. QED BY <1>1, <2>1, <2>2
<1>. HIDE DEF flatten
<1>5. \A k \in 1..N : flatten[k] \in Seq(X)
  <2>. DEFINE Not == {k \in 1..N : flatten[k] \notin Seq(X)}
  <2>1. SUFFICES ASSUME Not # {} PROVE FALSE
    OBVIOUS
  <2>2. PICK k \in Not : \A j \in Not : k <= j
    <3>1. Not \in SUBSET Nat
      OBVIOUS
    <3>. HIDE DEF Not
    <3>. QED BY <2>1, <3>1, Least
  <2>3. k \in 1..N /\ flatten[k] \notin Seq(X) /\ flatten[k] = IF k = 1 THEN seqs[k] ELSE flatten[k - 1] \o seqs[k]
    BY <1>3
  <2>4. k # 1 /\ seqs[k] \in Seq(X)
    BY <1>1, <2>3
  <2>5. k - 1 \in 1..N /\ k - 1 \notin Not
    <3>1. k - 1 \in 1..N /\ k - 1 < k /\ k \in Nat
      BY <1>1, <2>3, <2>4
    <3>. HIDE DEF Not
    <3>. QED BY <2>2, <3>1
  <2>6. flatten[k - 1] \in Seq(X)
    BY <2>5
  <2>. QED BY <2>3, <2>4, <2>6
<1>6. h \in [0..N -> Seq(X)]
  BY <1>1, <1>5
<1>7. h[0] = <<>> /\ FlattenSeq(seqs) = h[N]
  BY <1>1, <1>4
<1>8. ASSUME NEW n \in 1..N PROVE h[n] = h[n - 1] \o seqs[n]
  <2>1. n \in 0..N /\ n - 1 \in 0..N /\ n # 0 /\ (n # 1 => n - 1 # 0) /\ seqs[n] \in Seq(X)
    BY <1>1
  <2>2. flatten[n] = IF n = 1 THEN seqs[n] ELSE flatten[n - 1] \o seqs[n]
    BY <1>3
  <2>3. CASE n = 1
    <3>1. h[n] = seqs[n] /\ h[n - 1] = <<>>
      BY <2>1, <2>2, <2>3
    <3>2. <<>> \o seqs[n] = seqs[n]
      BY <2>1
    <3>. HIDE DEF h
    <3>. QED BY <3>1, <3>2
  <2>4. CASE n # 1
    BY <2>1, <2>2, <2>4
  <2>. QED BY <2>3, <2>4
<1>. HIDE DEF h
<1>. QED BY <1>1, <1>6, <1>7, <1>8

\* Where each of the sequences ends.
EndsOf(at, seqs) ==
  /\ at \in [0..Len(seqs) -> Nat] /\ at[0] = 0
  /\ \A n \in 1..Len(seqs) : at[n] = at[n - 1] + Len(seqs[n])

\* All places of the sequence that is made of them.
LaidAs(at, seqs, whole) ==
  /\ Len(whole) = at[Len(seqs)]
  /\ \A n \in 1..Len(seqs) : at[n] <= at[Len(seqs)] /\
       \A j \in 1..Len(seqs[n]) : whole[at[n - 1] + j] = seqs[n][j]
  /\ \A p \in 1..at[Len(seqs)] : \E n \in 1..Len(seqs) : \E j \in 1..Len(seqs[n]) : p = at[n - 1] + j

LEMMA Flattened ==
  ASSUME NEW X, NEW seqs \in Seq(Seq(X))
  PROVE  FlattenSeq(seqs) \in Seq(X) /\ \E at : EndsOf(at, seqs) /\ LaidAs(at, seqs, FlattenSeq(seqs))
<1>. DEFINE N == Len(seqs)
<1>1. N \in Nat /\ N = Len(seqs) /\ \A k \in 1..N : seqs[k] \in Seq(X) /\ Len(seqs[k]) \in Nat
  OBVIOUS
<1>2. PICK h \in [0..N -> Seq(X)] :
           /\ h[0] = <<>> /\ FlattenSeq(seqs) = h[N]
           /\ \A n \in 1..N : h[n] = h[n - 1] \o seqs[n]
  BY FlattenSteps
<1>. HIDE DEF N
<1>. DEFINE at == [k \in 0..N |-> Len(h[k])]
<1>3. ASSUME NEW n \in 1..N
      PROVE  /\ n - 1 \in 0..N /\ h[n - 1] \in Seq(X) /\ h[n] = h[n - 1] \o seqs[n]
             /\ at[n - 1] \in Nat /\ at[n] = at[n - 1] + Len(seqs[n])
             /\ \A r \in 1..at[n - 1] : h[n][r] = h[n - 1][r]
             /\ \A j \in 1..Len(seqs[n]) : h[n][at[n - 1] + j] = seqs[n][j]
  <2>1. n - 1 \in 0..N /\ n \in 0..N
    BY <1>1
  <2>2. h[n - 1] \in Seq(X) /\ seqs[n] \in Seq(X) /\ h[n] = h[n - 1] \o seqs[n]
    BY <1>1, <1>2, <2>1
  <2>3. at[n - 1] = Len(h[n - 1]) /\ at[n] = Len(h[n])
    BY <2>1
  <2>. HIDE DEF at
  <2>. QED BY <2>1, <2>2, <2>3
<1>4. EndsOf(at, seqs)
  <2>1. at \in [0..N -> Nat]
    BY <1>2
  <2>2. at[0] = 0
    BY <1>1, <1>2
  <2>. HIDE DEF at
  <2>. QED BY <1>1, <1>3, <2>1, <2>2 DEF EndsOf
<1>5. at \in [0..N -> Nat] /\ at[0] = 0 /\ at[N] = Len(h[N]) /\ \A n \in 0..N : at[n] \in Nat
  BY <1>1, <1>4 DEF EndsOf
<1>. HIDE DEF at
<1>. DEFINE len(n) == Len(seqs[n])
<1>6. ASSUME NEW n \in 1..N
      PROVE  at[n - 1] \in Nat /\ at[n] = at[n - 1] + len(n) /\ at[n] \in Nat /\ len(n) \in Nat
  <2>1. n - 1 \in 0..N /\ n \in 0..N
    BY <1>1
  <2>2. at[n] = at[n - 1] + len(n)
    BY <1>3
  <2>3. len(n) \in Nat
    BY <1>1
  <2>. HIDE DEF len
  <2>. QED BY <1>5, <2>1, <2>2, <2>3
<1>7. ASSUME NEW n \in 1..N
      PROVE  /\ \A r \in 1..at[n - 1] : r \in 1..at[n] /\ h[n][r] = h[n - 1][r]
             /\ \A j \in 1..len(n) : at[n - 1] + j \in 1..at[n] /\ h[n][at[n - 1] + j] = seqs[n][j]
  <2>1. /\ \A r \in 1..at[n - 1] : h[n][r] = h[n - 1][r]
        /\ \A j \in 1..len(n) : h[n][at[n - 1] + j] = seqs[n][j]
    BY <1>3
  <2>. HIDE DEF len
  <2>2. /\ \A r \in 1..at[n - 1] : r \in 1..at[n]
        /\ \A j \in 1..len(n) : at[n - 1] + j \in 1..at[n]
    BY <1>6
  <2>. QED BY <2>1, <2>2
<1>. HIDE DEF len
<1>. DEFINE Kept(n) == at[n] <= at[N] /\ \A r \in 1..at[n] : h[N][r] = h[n][r]
            Bad == {d \in 0..N : ~ Kept(N - d)}
<1>8. \A n \in 0..N : Kept(n)
  <2>1. ASSUME Bad # {} PROVE FALSE
    <3>1. PICK d \in Bad : \A e \in Bad : d <= e
      <4>1. Bad \in SUBSET Nat
        BY <1>1
      <4>. HIDE DEF Bad
      <4>. QED BY <2>1, <4>1, Least
    <3>. HIDE DEF Kept
    <3>2. d \in 0..N /\ ~ Kept(N - d)
      OBVIOUS
    <3>3. CASE d = 0
      <4>1. N - d = N
        BY <1>1, <3>3
      <4>2. Kept(N)
        BY <1>1, <1>5 DEF Kept
      <4>. QED BY <3>2, <4>1, <4>2
    <3>4. CASE d # 0
      <4>1. d - 1 \in 0..N /\ d \in Nat /\ d - 1 < d /\ N - d \in 0..N /\ d - 1 \in Nat
        BY <1>1, <3>2, <3>4
      <4>2. d - 1 \notin Bad
        <5>. HIDE DEF Bad
        <5>. QED BY <3>1, <4>1
      <4>3. N - (d - 1) \in 1..N /\ (N - (d - 1)) - 1 = N - d
        BY <1>1, <3>2, <3>4
      <4>4. Kept(N - (d - 1))
        BY <4>1, <4>2
      <4>. HIDE DEF Bad
      <4>5. PICK n \in 1..N : Kept(n) /\ n - 1 = N - d
        BY <4>3, <4>4
      <4>6. at[n - 1] \in Nat /\ at[n - 1] <= at[n] /\ at[n] \in Nat /\ at[N] \in Nat
        BY <1>5, <1>6
      <4>7. Kept(n - 1)
        BY <1>7, <4>5, <4>6 DEF Kept
      <4>. QED BY <3>2, <4>5, <4>7
    <3>. QED BY <3>3, <3>4
  <2>2. ASSUME NEW n \in 0..N PROVE Kept(n)
    <3>. HIDE DEF Kept
    <3>1. N - n \in 0..N /\ N - (N - n) = n
      BY <1>1
    <3>2. N - n \notin Bad
      BY <2>1
    <3>. QED BY <3>1, <3>2
  <2>. QED BY <2>2
<1>. HIDE DEF Bad
<1>9. ASSUME NEW n \in 1..N
      PROVE  at[n] <= at[N] /\ \A j \in 1..Len(seqs[n]) : h[N][at[n - 1] + j] = seqs[n][j]
  <2>1. at[n] <= at[N] /\ \A r \in 1..at[n] : h[N][r] = h[n][r]
    BY <1>1, <1>8
  <2>2. \A j \in 1..len(n) : h[N][at[n - 1] + j] = seqs[n][j]
    BY <1>7, <2>1
  <2>. QED BY <2>1, <2>2 DEF len
<1>10. ASSUME NEW p \in 1..at[N]
       PROVE  \E n \in 1..N : \E j \in 1..Len(seqs[n]) : p = at[n - 1] + j
  <2>. DEFINE S == {n \in 0..N : p <= at[n]}
  <2>1. S \in SUBSET Nat /\ N \in S /\ p \in Nat /\ p > 0 /\ 0 \notin S
    BY <1>1, <1>5
  <2>2. PICK n \in S : \A m \in S : n <= m
    <3>. HIDE DEF S
    <3>. QED BY <2>1, Least
  <2>3. n \in 1..N /\ p <= at[n]
    BY <1>1, <2>1
  <2>4. n - 1 \in 0..N /\ n - 1 \notin S
    <3>1. n - 1 \in 0..N /\ n \in Nat /\ n - 1 < n /\ n - 1 \in Nat
      BY <1>1, <2>3
    <3>. HIDE DEF S
    <3>. QED BY <2>2, <3>1
  <2>5. ~(p <= at[n - 1])
    BY <2>4
  <2>. HIDE DEF S
  <2>6. p - at[n - 1] \in 1..len(n) /\ p = at[n - 1] + (p - at[n - 1])
    <3>1. at[n - 1] \in Nat /\ at[n] = at[n - 1] + len(n) /\ len(n) \in Nat
      BY <1>6, <2>3
    <3>. QED BY <2>1, <2>3, <2>5, <3>1, SMTT(30)
  <2>. QED BY <2>3, <2>6 DEF len
<1>11. LaidAs(at, seqs, FlattenSeq(seqs))
  BY <1>1, <1>2, <1>5, <1>9, <1>10 DEF LaidAs
<1>12. FlattenSeq(seqs) \in Seq(X)
  BY <1>1, <1>2
<1>. QED BY <1>4, <1>11, <1>12

-----------------------------------------------------------------------------
(* Reading them stretch by stretch.                                        *)

\* Stretches of a sequence, the n-th from behind s[n] to e[n], one after the other up
\* to length, and what reading makes of a value in each: P[n][j] after j of its places,
\* from M[n - 1] to M[n].
IsLane(N, length, s, e, M, P) ==
  /\ N \in Nat /\ length \in Nat
  /\ s \in [1..N + 1 -> Nat] /\ e \in [0..N -> Nat] /\ e[0] = 0 /\ s[N + 1] = length
  /\ \A n \in 1..N : s[n] <= e[n] /\ P[n][0] = M[n - 1] /\ P[n][e[n] - s[n]] = M[n]
  /\ \A n \in 1..N + 1 : e[n - 1] <= s[n]

\* x is what reading up to p makes of the value.
Read(x, p, N, s, e, M, P) ==
  /\ \A n \in 1..N + 1 : e[n - 1] <= p /\ p <= s[n] => x = M[n - 1]
  /\ \A n \in 1..N : s[n] <= p /\ p <= e[n] => x = P[n][p - s[n]]

LEMMA LaneOrder ==
  ASSUME NEW N, NEW length, NEW s, NEW e, NEW M, NEW P, IsLane(N, length, s, e, M, P)
  PROVE  \A r \in 1..N, j \in 1..N + 1 : r < j => e[r] <= s[j]
<1>. DEFINE Bad == {j \in 1..N + 1 : \E r \in 1..N : r < j /\ ~(e[r] <= s[j])}
<1>1. SUFFICES ASSUME Bad # {} PROVE FALSE
  OBVIOUS
<1>2. PICK j \in Bad : \A k \in Bad : j <= k
  <2>1. Bad \in SUBSET Nat
    OBVIOUS
  <2>. HIDE DEF Bad
  <2>. QED BY <1>1, <2>1, Least
<1>3. PICK r \in 1..N : r < j /\ ~(e[r] <= s[j])
  OBVIOUS
<1>4. N \in Nat /\ j \in 1..N + 1 /\ e[j - 1] <= s[j] /\ s[j] \in Nat /\ e[r] \in Nat
  <2>1. j \in 1..N + 1 /\ N \in Nat
    BY DEF IsLane
  <2>2. r \in 0..N
    BY <2>1
  <2>. HIDE DEF Bad
  <2>. QED BY <2>1, <2>2 DEF IsLane
<1>5. r # j - 1
  BY <1>3, <1>4
<1>6. j - 1 \in 1..N /\ j - 1 \in 1..N + 1 /\ r < j - 1 /\ j - 1 < j
  BY <1>3, <1>4, <1>5
<1>7. j - 1 \notin Bad
  <2>1. j \in Nat /\ j - 1 \in Nat
    BY <1>4, <1>6
  <2>. HIDE DEF Bad
  <2>. QED BY <1>2, <1>6, <2>1
<1>8. e[r] <= s[j - 1]
  BY <1>6, <1>7
<1>9. s[j - 1] <= e[j - 1] /\ s[j - 1] \in Nat /\ e[j - 1] \in Nat
  BY <1>6 DEF IsLane
<1>. QED BY <1>3, <1>4, <1>8, <1>9

\* What is true between the stretches is true of p in a stretch that it begins.
LEMMA BetweenReads ==
  ASSUME NEW N, NEW length, NEW s, NEW e, NEW M, NEW P, IsLane(N, length, s, e, M, P),
         NEW p \in Nat, NEW x,
         \A n \in 1..N + 1 : e[n - 1] <= p /\ p <= s[n] => x = M[n - 1],
         \A n \in 1..N : s[n] < p /\ p <= e[n] => x = P[n][p - s[n]]
  PROVE  Read(x, p, N, s, e, M, P)
<1>1. ASSUME NEW n \in 1..N, s[n] = p PROVE x = P[n][p - s[n]]
  <2>1. n \in 1..N + 1 /\ e[n - 1] <= s[n] /\ s[n] \in Nat /\ P[n][0] = M[n - 1] /\ N \in Nat
    BY DEF IsLane
  <2>2. x = M[n - 1] /\ p - s[n] = 0
    BY <1>1, <2>1
  <2>. QED BY <2>1, <2>2
<1>2. \A n \in 1..N : s[n] \in Nat /\ (s[n] <= p => s[n] < p \/ s[n] = p)
  BY SMTT(30) DEF IsLane
<1>. QED BY <1>1, <1>2 DEF Read

LEMMA Before == \A a \in Nat : \A b \in 1..a + 1, c \in 1..a : c < b => c = b - 1 \/ (c < b - 1 /\ b - 1 \in 1..a)
OBVIOUS

LEMMA ReadBegins ==
  ASSUME NEW N, NEW length, NEW s, NEW e, NEW M, NEW P, IsLane(N, length, s, e, M, P), NEW x, x = M[0]
  PROVE  Read(x, 0, N, s, e, M, P)
<1>. DEFINE Bad == {n \in 1..N + 1 : e[n - 1] <= 0 /\ x # M[n - 1]}
<1>1. N \in Nat
  BY DEF IsLane
<1>2. Bad = {}
  <2>1. SUFFICES ASSUME Bad # {} PROVE FALSE
    OBVIOUS
  <2>2. PICK n \in Bad : \A k \in Bad : n <= k
    <3>1. Bad \in SUBSET Nat
      OBVIOUS
    <3>. HIDE DEF Bad
    <3>. QED BY <2>1, <3>1, Least
  <2>3. n \in 1..N + 1 /\ e[n - 1] <= 0 /\ x # M[n - 1]
    OBVIOUS
  <2>4. n # 1
    BY <2>3
  <2>5. n - 1 \in 1..N /\ n - 1 \in 1..N + 1 /\ n - 1 < n
    BY <1>1, <2>3, <2>4
  <2>6. n - 1 \notin Bad
    <3>1. n \in Nat /\ n - 1 \in Nat
      BY <2>3, <2>5
    <3>. HIDE DEF Bad
    <3>. QED BY <2>2, <2>5, <3>1
  <2>7. /\ s[n - 1] \in Nat /\ e[n - 1] \in Nat /\ s[n - 1] <= e[n - 1]
        /\ P[n - 1][0] = M[n - 1 - 1] /\ P[n - 1][e[n - 1] - s[n - 1]] = M[n - 1]
    BY <2>5, SMTT(30) DEF IsLane
  <2>8. e[n - 1 - 1] <= s[n - 1] /\ e[n - 1 - 1] \in Nat
    <3>1. n - 1 - 1 \in 0..N
      BY <1>1, <2>5
    <3>. QED BY <2>5, <3>1 DEF IsLane
  <2>9. e[n - 1] - s[n - 1] = 0 /\ e[n - 1 - 1] <= 0
    BY <2>3, <2>7, <2>8
  <2>. QED BY <2>3, <2>5, <2>6, <2>7, <2>9
<1>3. \A n \in 1..N + 1 : e[n - 1] <= 0 /\ 0 <= s[n] => x = M[n - 1]
  BY <1>2
<1>4. \A n \in 1..N : ~(s[n] < 0)
  BY DEF IsLane
<1>. QED BY <1>3, <1>4, BetweenReads

\* The next place: it is in a stretch, and x becomes what that makes of it, or x stays.
LEMMA ReadOn ==
  ASSUME NEW N, NEW length, NEW s, NEW e, NEW M, NEW P, IsLane(N, length, s, e, M, P),
         NEW x, NEW p \in Nat, Read(x, p, N, s, e, M, P), NEW y, NEW q \in Nat, q = p + 1,
         \A n \in 1..N : s[n] < q /\ q <= e[n] => y = P[n][q - s[n]],
         (\A n \in 1..N : ~(s[n] < q /\ q <= e[n])) => y = x
  PROVE  Read(y, q, N, s, e, M, P)
<1>. DEFINE Bad == {n \in 1..N + 1 : e[n - 1] <= q /\ q <= s[n] /\ y # M[n - 1]}
<1>1. N \in Nat /\ (\A n \in 1..N + 1 : s[n] \in Nat) /\ (\A n \in 0..N : e[n] \in Nat) /\ e[0] = 0
  BY DEF IsLane
<1>2. Bad = {}
  <2>1. SUFFICES ASSUME Bad # {} PROVE FALSE
    OBVIOUS
  <2>2. PICK n \in Bad : \A k \in Bad : n <= k
    <3>1. Bad \in SUBSET Nat
      OBVIOUS
    <3>. HIDE DEF Bad
    <3>. QED BY <2>1, <3>1, Least
  <2>3. n \in 1..N + 1 /\ e[n - 1] <= q /\ q <= s[n] /\ y # M[n - 1]
    OBVIOUS
  <2>4. n - 1 \in 0..N /\ e[n - 1] \in Nat /\ s[n] \in Nat
    BY <1>1, <2>3
  <2>5. CASE e[n - 1] <= p
    <3>1. ASSUME NEW m \in 1..N, s[m] < q, q <= e[m] PROVE FALSE
      <4>0. s[m] <= e[m]
        BY Zenon DEF IsLane
      <4>1. m \in 1..N + 1 /\ m \in 0..N /\ s[m] \in Nat /\ e[m] \in Nat /\ s[m] <= e[m]
        <5>1. m \in 1..N + 1 /\ m \in 0..N
          BY <1>1
        <5>. QED BY <1>1, <4>0, <5>1, Zenon
      <4>2. CASE m < n
        <5>1. m = n - 1 \/ (m < n - 1 /\ n - 1 \in 1..N)
          <6>1. N \in Nat /\ n \in 1..N + 1 /\ m \in 1..N
            BY <1>1, <2>3
          <6>. QED BY <4>2, <6>1, Before, Zenon
        <5>2. ASSUME m < n - 1, n - 1 \in 1..N
              PROVE  e[m] <= s[n - 1] /\ s[n - 1] <= e[n - 1] /\ s[n - 1] \in Nat
          <6>1. PICK k \in 1..N : k = n - 1
            BY <5>2
          <6>2. k \in 1..N + 1 /\ s[k] <= e[k] /\ s[k] \in Nat
            BY <1>1, SMTT(30) DEF IsLane
          <6>3. e[m] <= s[k]
            BY <5>2, <6>1, <6>2, LaneOrder
          <6>. QED BY <6>1, <6>2, <6>3
        <5>. QED BY <2>4, <2>5, <3>1, <4>1, <5>1, <5>2
      <4>3. CASE m = n
        BY <2>3, <2>4, <3>1, <4>3
      <4>4. CASE n < m
        <5>1. n \in 1..N /\ s[n] <= e[n] /\ e[n] <= s[m] /\ e[n] \in Nat
          <6>1. n \in 1..N
            BY <1>1, <2>3, <4>4
          <6>2. e[n] \in Nat /\ s[n] <= e[n]
            BY <1>1, <6>1 DEF IsLane
          <6>. QED BY <4>1, <4>4, <6>1, <6>2, LaneOrder
        <5>. QED BY <2>3, <2>4, <3>1, <4>1, <5>1
      <4>. QED BY <2>3, <4>2, <4>3, <4>4
    <3>2. y = x
      BY <3>1
    <3>3. p <= s[n]
      BY <2>3, <2>4
    <3>. QED BY <2>3, <2>5, <3>2, <3>3 DEF Read
  <2>6. CASE ~(e[n - 1] <= p)
    <3>1. e[n - 1] = q /\ n # 1
      BY <1>1, <2>3, <2>4, <2>6
    <3>2. n - 1 \in 1..N /\ n - 1 \in 1..N + 1 /\ n - 1 < n /\ n - 1 - 1 \in 0..N
      BY <1>1, <2>3, <3>1
    <3>3. /\ s[n - 1] \in Nat /\ s[n - 1] <= e[n - 1]
          /\ P[n - 1][0] = M[n - 1 - 1] /\ P[n - 1][e[n - 1] - s[n - 1]] = M[n - 1]
          /\ e[n - 1 - 1] <= s[n - 1] /\ e[n - 1 - 1] \in Nat
      BY <1>1, <3>2 DEF IsLane
    <3>4. CASE s[n - 1] < q
      <4>1. y = P[n - 1][q - s[n - 1]]
        BY <2>3, <3>1, <3>2, <3>4
      <4>. QED BY <2>3, <3>1, <3>3, <4>1
    <3>5. CASE s[n - 1] = q
      <4>1. n - 1 \notin Bad
        <5>1. n \in Nat /\ n - 1 \in Nat
          BY <2>3, <3>2
        <5>. HIDE DEF Bad
        <5>. QED BY <2>2, <3>2, <5>1
      <4>2. e[n - 1] - s[n - 1] = 0 /\ q <= s[n - 1] /\ e[n - 1 - 1] <= q
        BY <3>1, <3>3, <3>5
      <4>. QED BY <2>3, <3>2, <3>3, <4>1, <4>2
    <3>. QED BY <3>1, <3>3, <3>4, <3>5
  <2>. HIDE DEF Bad
  <2>. QED BY <2>4, <2>5, <2>6
<1>3. \A n \in 1..N + 1 : e[n - 1] <= q /\ q <= s[n] => y = M[n - 1]
  BY <1>2
<1>. HIDE DEF Bad
<1>4. ASSUME NEW n \in 1..N, s[n] < q, q <= e[n] PROVE y = P[n][q - s[n]]
  BY <1>4
<1>. HIDE DEF Bad
<1>. QED BY <1>3, <1>4, BetweenReads

\* In front of a place that no stretch has, or at the end, x is one of M.
LEMMA ReadOutside ==
  ASSUME NEW N, NEW length, NEW s, NEW e, NEW M, NEW P, IsLane(N, length, s, e, M, P),
         NEW x, NEW p \in 0..length, Read(x, p, N, s, e, M, P),
         \A n \in 1..N : ~(s[n] < p + 1 /\ p + 1 <= e[n])
  PROVE  \E n \in 0..N : x = M[n]
<1>. DEFINE S == {n \in 1..N + 1 : p <= s[n]}
<1>1. /\ N \in Nat /\ length \in Nat /\ (\A n \in 1..N + 1 : s[n] \in Nat) /\ (\A n \in 0..N : e[n] \in Nat)
      /\ e[0] = 0 /\ s[N + 1] = length /\ p \in Nat
  <2>1. /\ N \in Nat /\ length \in Nat /\ s \in [1..N + 1 -> Nat] /\ e \in [0..N -> Nat]
        /\ e[0] = 0 /\ s[N + 1] = length
    BY DEF IsLane
  <2>2. p \in Nat
    BY <2>1
  <2>. QED BY <2>1, <2>2
<1>2. N + 1 \in S /\ S \in SUBSET Nat
  BY <1>1
<1>3. PICK n \in S : \A m \in S : n <= m
  <2>. HIDE DEF S
  <2>. QED BY <1>2, Least
<1>4. n \in 1..N + 1 /\ p <= s[n] /\ n - 1 \in 0..N
  BY <1>1
<1>5. CASE e[n - 1] <= p
  <2>1. x = M[n - 1]
    BY <1>4, <1>5 DEF Read
  <2>. QED BY <1>4, <2>1
<1>6. CASE ~(e[n - 1] <= p)
  <2>1. n # 1
    BY <1>1, <1>6
  <2>2. n - 1 \in 1..N /\ n - 1 \in 1..N + 1 /\ n - 1 < n /\ n \in Nat /\ n - 1 \in Nat
    BY <1>1, <1>4, <2>1
  <2>3. n - 1 \notin S
    <3>. HIDE DEF S
    <3>. QED BY <1>3, <2>2
  <2>4. s[n - 1] < p /\ s[n - 1] \in Nat /\ e[n - 1] \in Nat
    BY <1>1, <2>2, <2>3
  <2>. QED BY <1>1, <1>6, <2>2, <2>4
<1>. QED BY <1>5, <1>6

LEMMA ReadAll ==
  ASSUME NEW N, NEW length, NEW s, NEW e, NEW M, NEW P, IsLane(N, length, s, e, M, P),
         NEW x, Read(x, length, N, s, e, M, P)
  PROVE  x = M[N]
<1>1. N \in Nat /\ length \in Nat /\ e[N + 1 - 1] <= s[N + 1] /\ s[N + 1] = length /\ N + 1 \in 1..N + 1 /\ N + 1 - 1 = N
  <2>1. N \in Nat /\ N + 1 \in 1..N + 1 /\ N + 1 - 1 = N
    BY DEF IsLane
  <2>. QED BY <2>1 DEF IsLane
<1>. QED BY <1>1 DEF Read

-----------------------------------------------------------------------------
(* The kinds of fields, and merging.                                       *)

Kinds == {"float", "uint64", "string", "strings", "map"}
IsSchema(s) == s \in Seq(Kinds)

\* A value of texts of T.
IsOf(T, kind, v) ==
  CASE kind = "strings" -> v \in Seq(T)
    [] kind = "map" -> IsFiniteSet(DOMAIN v) /\ DOMAIN v \subseteq T /\ v \in [DOMAIN v -> T]
    [] OTHER -> v \in T

\* The empty ones are.
HasDefaults(T) == \A kind \in {"float", "uint64", "string"} : Default(kind) \in T

AnyValue(T) == T \cup Seq(T) \cup UNION {[keys -> T] : keys \in SUBSET T}
Messages_of(T, s) == {m \in [DOMAIN s -> AnyValue(T)] : \A k \in DOMAIN s : IsOf(T, s[k], m[k])}
PartsOf(T, s, parts) == \A n \in DOMAIN parts, k \in DOMAIN s : IsOf(T, s[k], parts[n].msg[k])

LEMMA SchemasAre == \A s \in Schemas : IsSchema(s)
<1>1. IsSchema(assert_loc_v1)
  BY DEF IsSchema, Kinds, assert_loc_v1
<1>2. IsSchema(add_gateway_v1)
  BY DEF IsSchema, Kinds, add_gateway_v1
<1>3. IsSchema(wifi_connect_v1) /\ IsSchema(wifi_remove_v1)
  BY DEF IsSchema, Kinds, wifi_connect_v1, wifi_remove_v1
<1>4. IsSchema(wifi_services_v1) /\ IsSchema(diagnostics_v1)
  BY DEF IsSchema, Kinds, wifi_services_v1, diagnostics_v1
<1>. QED BY <1>1, <1>2, <1>3, <1>4 DEF Schemas

LEMMA DefaultIs == ASSUME NEW T, HasDefaults(T), NEW kind \in Kinds PROVE IsOf(T, kind, Default(kind))
<1>1. CASE kind = "strings"
  BY <1>1 DEF IsOf, Default
<1>2. CASE kind = "map"
  <2>1. Default(kind) = <<>> /\ DOMAIN <<>> = {} /\ <<>> \in [{} -> T]
    BY <1>2 DEF Default
  <2>2. IsFiniteSet({})
    BY FS_EmptySet
  <2>. QED BY <1>2, <2>1, <2>2 DEF IsOf
<1>3. CASE kind \in {"float", "uint64", "string"}
  <2>3. Default(kind) \in T
    BY <1>3 DEF HasDefaults
  <2>. QED BY <1>3, <2>3 DEF IsOf
<1>. QED BY <1>1, <1>2, <1>3 DEF Kinds

LEMMA MergedIs ==
  ASSUME NEW T, HasDefaults(T), NEW kind \in Kinds, NEW old, NEW v, IsOf(T, kind, old), IsOf(T, kind, v)
  PROVE  IsOf(T, kind, Merged(kind, old, v))
<1>1. CASE kind = "strings"
  BY <1>1 DEF IsOf, Merged
<1>2. CASE kind = "map"
  <2>. DEFINE all == DOMAIN old \cup DOMAIN v
              m == [key \in all |-> IF key \in DOMAIN v THEN v[key] ELSE old[key]]
  <2>1. Merged(kind, old, v) = m
    BY <1>2 DEF Merged
  <2>2. /\ IsFiniteSet(DOMAIN old) /\ DOMAIN old \subseteq T /\ old \in [DOMAIN old -> T]
        /\ IsFiniteSet(DOMAIN v) /\ DOMAIN v \subseteq T /\ v \in [DOMAIN v -> T]
    BY <1>2 DEF IsOf
  <2>3. IsFiniteSet(all)
    BY <2>2, FS_Union
  <2>4. DOMAIN m = all /\ m \in [all -> T] /\ all \subseteq T
    BY <2>2
  <2>. HIDE DEF m, all
  <2>. QED BY <1>2, <2>1, <2>3, <2>4 DEF IsOf
<1>3. CASE kind \in {"float", "uint64", "string"}
  BY <1>3 DEF IsOf, Merged
<1>. QED BY <1>1, <1>2, <1>3 DEF Kinds

LEMMA ValuesAre ==
  ASSUME NEW T, HasDefaults(T), NEW kind \in Kinds, NEW v, IsOf(T, kind, v) PROVE v \in AnyValue(T)
<1>1. CASE kind = "map"
  <2>1. v \in [DOMAIN v -> T] /\ DOMAIN v \in SUBSET T
    BY <1>1 DEF IsOf
  <2>. QED BY <2>1 DEF AnyValue
<1>2. CASE kind # "map"
  BY <1>2 DEF AnyValue, IsOf, Kinds
<1>. QED BY <1>1, <1>2

LEMMA ClearIs ==
  ASSUME NEW T, HasDefaults(T), NEW s, IsSchema(s) PROVE Clear(s) \in Messages_of(T, s)
<1>1. \A k \in DOMAIN s : s[k] \in Kinds
  BY DEF IsSchema
<1>2. \A k \in DOMAIN s : IsOf(T, s[k], Default(s[k])) /\ Default(s[k]) \in AnyValue(T)
  BY <1>1, DefaultIs, ValuesAre
<1>. QED BY <1>2 DEF Clear, Messages_of

LEMMA MergeIs ==
  ASSUME NEW T, HasDefaults(T), NEW s, IsSchema(s), NEW m \in Messages_of(T, s), NEW v, \A k \in DOMAIN s : IsOf(T, s[k], v[k])
  PROVE  MergeFrom(s, m, v) \in Messages_of(T, s)
<1>1. \A k \in DOMAIN s : s[k] \in Kinds /\ IsOf(T, s[k], m[k])
  BY DEF IsSchema, Messages_of
<1>2. \A k \in DOMAIN s : IsOf(T, s[k], Merged(s[k], m[k], v[k])) /\ Merged(s[k], m[k], v[k]) \in AnyValue(T)
  BY <1>1, MergedIs, ValuesAre
<1>. QED BY <1>2 DEF MergeFrom, Messages_of

\* What parts merge to, and the first n of them.
MergeAll(s, parts) == FoldLeft(LAMBDA m, part : MergeFrom(s, m, part.msg), Clear(s), parts)
MergedUpto(s, parts, n) == MergeAll(s, SubSeq(parts, 1, n))

\* The steps of such a fold.
Merges(h, s, parts) ==
  h[0] = Clear(s) /\ \A k \in 1..Len(parts) : h[k] = MergeFrom(s, h[k - 1], parts[k].msg)

LEMMA FoldMerges ==
  ASSUME NEW T, HasDefaults(T), NEW s, IsSchema(s), NEW Y, NEW parts \in Seq(Y), PartsOf(T, s, parts)
  PROVE  \E h : /\ Merges(h, s, parts)
                /\ h[Len(parts)] = MergeAll(s, parts)
<1>. DEFINE D == DOMAIN parts
            g == CHOOSE f : f = [t \in SUBSET D |->
                   IF t = {} THEN Clear(s) ELSE MergeFrom(s, f[t \ {Max(t)}], parts[Max(t)].msg)]
<1>1. Len(parts) \in Nat /\ D = 1..Len(parts) /\ IsFiniteSet(D)
  BY FS_Interval
<1>2. MergeAll(s, parts) = g[D]
  BY Zenon DEF MergeAll, FoldLeft, MapThenFoldSet
<1>. HIDE DEF D
<1>3. \A t \in SUBSET D : t # {} => Max(t) \in t
  <2>. SUFFICES ASSUME NEW t \in SUBSET D, t # {} PROVE Max(t) \in t
    OBVIOUS
  <2>1. t \in SUBSET (0..Len(parts))
    BY <1>1
  <2>. QED BY <1>1, <2>1, MaxIn
<1>4. \E f : f = [t \in SUBSET D |->
                   IF t = {} THEN Clear(s) ELSE MergeFrom(s, f[t \ {Max(t)}], parts[Max(t)].msg)]
  <2>. DEFINE X == Messages_of(T, s)
              c == [t \in SUBSET D |-> Max(t)]
              step == [x \in X \X D |-> MergeFrom(s, x[1], parts[x[2]].msg)]
  <2>1. step \in [X \X D -> X]
    <3>1. \A x \in X \X D : MergeFrom(s, x[1], parts[x[2]].msg) \in X
      <4>. SUFFICES ASSUME NEW x \in X \X D PROVE MergeFrom(s, x[1], parts[x[2]].msg) \in X
        OBVIOUS
      <4>1. x[1] \in X /\ x[2] \in D
        OBVIOUS
      <4>2. \A k \in DOMAIN s : IsOf(T, s[k], parts[x[2]].msg[k])
        BY <4>1 DEF PartsOf, D
      <4>. QED BY <4>1, <4>2, MergeIs
    <3>. HIDE DEF X
    <3>. QED BY <3>1
  <2>2. Clear(s) \in X
    BY ClearIs
  <2>3. \A t \in SUBSET D : t # {} => c[t] \in t
    BY <1>3
  <2>. HIDE DEF X, step, c
  <2>4. PICK f \in [SUBSET D -> X] : Folded(f, SUBSET D, c, Clear(s), step)
    BY <1>1, <2>1, <2>2, <2>3, FoldedExists
  <2>5. \A t \in SUBSET D : f[t] = IF t = {} THEN Clear(s) ELSE MergeFrom(s, f[t \ {Max(t)}], parts[Max(t)].msg)
    <3>. SUFFICES ASSUME NEW t \in SUBSET D
                  PROVE  f[t] = IF t = {} THEN Clear(s) ELSE MergeFrom(s, f[t \ {Max(t)}], parts[Max(t)].msg)
      OBVIOUS
    <3>1. f[t] = IF t = {} THEN Clear(s) ELSE step[f[t \ {c[t]}], c[t]]
      BY <2>4 DEF Folded
    <3>2. CASE t # {}
      <4>1. c[t] = Max(t) /\ Max(t) \in D /\ t \ {Max(t)} \in SUBSET D
        BY <1>3, <3>2 DEF c
      <4>2. f[t \ {Max(t)}] \in X
        BY <4>1
      <4>3. <<f[t \ {Max(t)}], Max(t)>> \in X \X D
        BY <4>1, <4>2
      <4>4. step[f[t \ {Max(t)}], Max(t)] = MergeFrom(s, f[t \ {Max(t)}], parts[Max(t)].msg)
        BY <4>3 DEF step
      <4>. QED BY <3>1, <3>2, <4>1, <4>4
    <3>. QED BY <3>1, <3>2
  <2>6. f = [t \in SUBSET D |-> f[t]]
    OBVIOUS
  <2>. QED BY <2>5, <2>6
<1>5. g = [t \in SUBSET D |-> IF t = {} THEN Clear(s) ELSE MergeFrom(s, g[t \ {Max(t)}], parts[Max(t)].msg)]
  BY <1>4, Zenon
<1>. HIDE DEF g
<1>6. \A t \in SUBSET D : g[t] = IF t = {} THEN Clear(s) ELSE MergeFrom(s, g[t \ {Max(t)}], parts[Max(t)].msg)
  BY <1>5
<1>. DEFINE h == [k \in 0..Len(parts) |-> g[1..k]]
<1>7. h[0] = Clear(s)
  <2>1. 1..0 = {} /\ {} \in SUBSET D /\ 0 \in 0..Len(parts)
    BY <1>1
  <2>2. g[{}] = Clear(s)
    BY <1>6, <2>1
  <2>. QED BY <2>1, <2>2
<1>8. ASSUME NEW k \in 1..Len(parts) PROVE h[k] = MergeFrom(s, h[k - 1], parts[k].msg)
  <2>1. 1..k \in SUBSET D /\ 1..k # {} /\ (1..k) \ {k} = 1..k - 1 /\ k - 1 \in 0..Len(parts) /\ k \in 0..Len(parts)
    <3>1. k \in Nat /\ k - 1 \in 0..Len(parts) /\ k \in 0..Len(parts) /\ k \in 1..k
      BY <1>1
    <3>2. 1..k \in SUBSET D
      BY <1>1
    <3>3. \A r : r \in (1..k) \ {k} <=> r \in 1..k - 1
      BY <3>1
    <3>. QED BY <3>1, <3>2, <3>3
  <2>2. Max(1..k) = k
    <3>1. 1..k \in SUBSET Nat /\ k \in 1..k /\ \A x \in 1..k : x <= k
      BY <1>1
    <3>. QED BY <3>1, MaxIs
  <2>3. g[1..k] = MergeFrom(s, g[1..k - 1], parts[k].msg)
    BY <1>6, <2>1, <2>2
  <2>4. h[k] = g[1..k] /\ h[k - 1] = g[1..k - 1]
    BY <2>1
  <2>. HIDE DEF h
  <2>. QED BY <2>3, <2>4
<1>9. h[Len(parts)] = g[D]
  BY <1>1
<1>. HIDE DEF h
<1>. QED BY <1>2, <1>7, <1>8, <1>9 DEF Merges

\* One part after the other.
LEMMA MergesOn ==
  ASSUME NEW T, HasDefaults(T), NEW s, IsSchema(s), NEW Y, NEW parts \in Seq(Y), PartsOf(T, s, parts)
  PROVE  /\ MergedUpto(s, parts, 0) = Clear(s)
         /\ \A n \in 1..Len(parts) : MergedUpto(s, parts, n) = MergeFrom(s, MergedUpto(s, parts, n - 1), parts[n].msg)
         /\ \A n \in 0..Len(parts) : MergedUpto(s, parts, n) \in Messages_of(T, s)
<1>1. Len(parts) \in Nat /\ DOMAIN parts = 1..Len(parts)
  OBVIOUS
<1>2. ASSUME NEW n \in 0..Len(parts)
      PROVE  \E h : /\ h[0] = Clear(s) /\ \A k \in 1..n : h[k] = MergeFrom(s, h[k - 1], parts[k].msg)
                    /\ h[n] = MergedUpto(s, parts, n)
  <2>. DEFINE first == SubSeq(parts, 1, n)
  <2>1. first \in Seq(Y) /\ Len(first) = n /\ \A k \in 1..n : first[k] = parts[k]
    <3>1. n \in Nat /\ n <= Len(parts) /\ 1 <= n + 1 /\ n - 1 + 1 = n /\ \A k \in 1..n : 1 + k - 1 = k
      BY <1>1
    <3>. QED BY <3>1, Slice
  <2>. HIDE DEF first
  <2>2. DOMAIN first = 1..n /\ PartsOf(T, s, first)
    BY <1>1, <2>1 DEF PartsOf
  <2>3. PICK h : /\ Merges(h, s, first)
                 /\ h[n] = MergeAll(s, first)
    BY <2>1, <2>2, FoldMerges
  <2>4. h[n] = MergedUpto(s, parts, n)
    BY <2>3 DEF MergedUpto, first
  <2>5. h[0] = Clear(s) /\ \A k \in 1..n : h[k] = MergeFrom(s, h[k - 1], parts[k].msg)
    BY <2>1, <2>3 DEF Merges
  <2>. QED BY <2>4, <2>5
<1>3. MergedUpto(s, parts, 0) = Clear(s)
  BY <1>1, <1>2
<1>4. ASSUME NEW n \in 1..Len(parts)
      PROVE  MergedUpto(s, parts, n) = MergeFrom(s, MergedUpto(s, parts, n - 1), parts[n].msg)
  <2>1. n - 1 \in 0..Len(parts) /\ n \in 0..Len(parts) /\ n \in 1..n /\ n \in Nat
    BY <1>1
  <2>2. PICK h : /\ h[0] = Clear(s) /\ \A k \in 1..n : h[k] = MergeFrom(s, h[k - 1], parts[k].msg)
                 /\ h[n] = MergedUpto(s, parts, n)
    BY <1>2, <2>1
  <2>3. PICK f : /\ f[0] = Clear(s) /\ \A k \in 1..n - 1 : f[k] = MergeFrom(s, f[k - 1], parts[k].msg)
                 /\ f[n - 1] = MergedUpto(s, parts, n - 1)
    BY <1>2, <2>1
  <2>. DEFINE Bad == {k \in 0..n - 1 : f[k] # h[k]}
  <2>4. Bad = {}
    <3>1. SUFFICES ASSUME Bad # {} PROVE FALSE
      OBVIOUS
    <3>2. PICK k \in Bad : \A j \in Bad : k <= j
      <4>1. Bad \in SUBSET Nat
        OBVIOUS
      <4>. HIDE DEF Bad
      <4>. QED BY <3>1, <4>1, Least
    <3>3. k \in 0..n - 1 /\ f[k] # h[k]
      OBVIOUS
    <3>4. k # 0
      BY <2>2, <2>3, <3>3
    <3>5. k \in 1..n - 1 /\ k \in 1..n /\ k - 1 \in 0..n - 1 /\ k - 1 < k /\ k \in Nat /\ k - 1 \in Nat
      BY <2>1, <3>3, <3>4
    <3>6. k - 1 \notin Bad
      <4>. HIDE DEF Bad
      <4>. QED BY <3>2, <3>5
    <3>7. f[k - 1] = h[k - 1]
      BY <3>5, <3>6
    <3>. HIDE DEF Bad
    <3>8. f[k] = h[k]
      BY <2>2, <2>3, <3>5, <3>7
    <3>. QED BY <3>3, <3>8
  <2>5. f[n - 1] = h[n - 1]
    <3>1. n - 1 \in 0..n - 1
      BY <2>1
    <3>. QED BY <2>4, <3>1
  <2>. QED BY <2>1, <2>2, <2>3, <2>5
<1>5. \A n \in 0..Len(parts) : MergedUpto(s, parts, n) \in Messages_of(T, s)
  <2>. DEFINE Bad == {n \in 0..Len(parts) : MergedUpto(s, parts, n) \notin Messages_of(T, s)}
  <2>1. SUFFICES ASSUME Bad # {} PROVE FALSE
    OBVIOUS
  <2>2. PICK n \in Bad : \A j \in Bad : n <= j
    <3>1. Bad \in SUBSET Nat
      BY <1>1
    <3>. HIDE DEF Bad
    <3>. QED BY <2>1, <3>1, Least
  <2>3. n \in 0..Len(parts) /\ MergedUpto(s, parts, n) \notin Messages_of(T, s)
    OBVIOUS
  <2>4. n # 0
    BY <1>3, <2>3, ClearIs
  <2>5. n \in 1..Len(parts) /\ n - 1 \in 0..Len(parts) /\ n - 1 < n /\ n \in Nat /\ n - 1 \in Nat
    BY <1>1, <2>3, <2>4
  <2>6. n - 1 \notin Bad
    <3>. HIDE DEF Bad
    <3>. QED BY <2>2, <2>5
  <2>7. MergedUpto(s, parts, n - 1) \in Messages_of(T, s)
    BY <2>5, <2>6
  <2>8. \A k \in DOMAIN s : IsOf(T, s[k], parts[n].msg[k])
    BY <1>1, <2>5 DEF PartsOf
  <2>. HIDE DEF Bad
  <2>. QED BY <1>4, <2>3, <2>5, <2>7, <2>8, MergeIs
<1>. QED BY <1>3, <1>4, <1>5

-----------------------------------------------------------------------------
(* What is written of a field, and what storing that makes of it.          *)

\* The entries of a map: each of its keys with its value, in some order.
LEMMA EntriesAre ==
  ASSUME NEW map, IsFiniteSet(DOMAIN map)
  PROVE  /\ Entries(map) \in Seq({<<key, map[key]>> : key \in DOMAIN map})
         /\ \A key \in DOMAIN map : \E j \in 1..Len(Entries(map)) : Entries(map)[j] = <<key, map[key]>>
<1>. DEFINE D == DOMAIN map
            E == {<<key, map[key]>> : key \in D}
            pick == [t \in SUBSET D |-> CHOOSE x \in t : TRUE]
            g == CHOOSE f : f = [t \in SUBSET D |->
                   IF t = {} THEN <<>> ELSE Append(f[t \ {CHOOSE x \in t : TRUE}], <<CHOOSE x \in t : TRUE, map[CHOOSE x \in t : TRUE]>>)]
<1>1. Entries(map) = g[D]
  BY Zenon DEF Entries, FoldSet, MapThenFoldSet
<1>2. \E f : f = [t \in SUBSET D |->
                   IF t = {} THEN <<>> ELSE Append(f[t \ {CHOOSE x \in t : TRUE}], <<CHOOSE x \in t : TRUE, map[CHOOSE x \in t : TRUE]>>)]
  <2>. DEFINE X == Seq(E)
              step == [x \in X \X D |-> Append(x[1], <<x[2], map[x[2]]>>)]
  <2>1. step \in [X \X D -> X]
    <3>1. \A x \in X \X D : x[1] \in Seq(E) /\ <<x[2], map[x[2]]>> \in E
      OBVIOUS
    <3>2. \A x \in X \X D : Append(x[1], <<x[2], map[x[2]]>>) \in Seq(E)
      <4>. HIDE DEF E, D
      <4>. QED BY <3>1
    <3>. QED BY <3>2
  <2>2. <<>> \in X
    OBVIOUS
  <2>3. \A t \in SUBSET D : t # {} => pick[t] \in t
    OBVIOUS
  <2>4. IsFiniteSet(D)
    OBVIOUS
  <2>. HIDE DEF X, step, pick, D
  <2>5. PICK f \in [SUBSET D -> X] : Folded(f, SUBSET D, pick, <<>>, step)
    BY <2>1, <2>2, <2>3, <2>4, FoldedExists
  <2>6. \A t \in SUBSET D : f[t] = IF t = {} THEN <<>> ELSE Append(f[t \ {pick[t]}], <<pick[t], map[pick[t]]>>)
    <3>. SUFFICES ASSUME NEW t \in SUBSET D
                  PROVE  f[t] = IF t = {} THEN <<>> ELSE Append(f[t \ {pick[t]}], <<pick[t], map[pick[t]]>>)
      OBVIOUS
    <3>1. f[t] = IF t = {} THEN <<>> ELSE step[f[t \ {pick[t]}], pick[t]]
      BY <2>5 DEF Folded
    <3>2. CASE t # {}
      <4>1. pick[t] \in D /\ t \ {pick[t]} \in SUBSET D
        BY <2>3, <3>2
      <4>2. f[t \ {pick[t]}] \in X
        BY <4>1
      <4>3. <<f[t \ {pick[t]}], pick[t]>> \in X \X D
        BY <4>1, <4>2
      <4>4. step[f[t \ {pick[t]}], pick[t]] = Append(f[t \ {pick[t]}], <<pick[t], map[pick[t]]>>)
        BY <4>3 DEF step
      <4>. QED BY <3>1, <3>2, <4>4
    <3>. QED BY <3>1, <3>2
  <2>7. \A t \in SUBSET D : pick[t] = CHOOSE x \in t : TRUE
    BY DEF pick
  <2>8. f = [t \in SUBSET D |->
               IF t = {} THEN <<>> ELSE Append(f[t \ {CHOOSE x \in t : TRUE}], <<CHOOSE x \in t : TRUE, map[CHOOSE x \in t : TRUE]>>)]
    <3>1. f = [t \in SUBSET D |-> f[t]]
      OBVIOUS
    <3>2. \A t \in SUBSET D : f[t] =
               IF t = {} THEN <<>> ELSE Append(f[t \ {CHOOSE x \in t : TRUE}], <<CHOOSE x \in t : TRUE, map[CHOOSE x \in t : TRUE]>>)
      BY <2>6, <2>7, Zenon
    <3>. QED BY <3>1, <3>2, Zenon
  <2>. QED BY <2>8, Zenon
<1>3. g = [t \in SUBSET D |->
             IF t = {} THEN <<>> ELSE Append(g[t \ {CHOOSE x \in t : TRUE}], <<CHOOSE x \in t : TRUE, map[CHOOSE x \in t : TRUE]>>)]
  BY <1>2, Zenon
<1>. HIDE DEF g
<1>4. \A t \in SUBSET D : g[t] = IF t = {} THEN <<>> ELSE Append(g[t \ {pick[t]}], <<pick[t], map[pick[t]]>>)
  <2>. HIDE DEF pick, D
  <2>1. \A t \in SUBSET D : pick[t] = CHOOSE x \in t : TRUE
    BY DEF pick
  <2>. QED BY <1>3, <2>1, Zenon
<1>5. IsFiniteSet(D) /\ \A t \in SUBSET D : t # {} => pick[t] \in t
  OBVIOUS
<1>. HIDE DEF pick, D
<1>. DEFINE Has(t) == /\ g[t] \in Seq(E)
                      /\ \A key \in t : \E j \in 1..Len(g[t]) : g[t][j] = <<key, map[key]>>
            Bad == {n \in Nat : \E t \in SUBSET D : Cardinality(t) = n /\ ~Has(t)}
<1>6. \A t \in SUBSET D : IsFiniteSet(t) /\ Cardinality(t) \in Nat
  BY <1>5, FS_Subset, FS_CardinalityType
<1>7. ASSUME Bad # {} PROVE FALSE
  <2>1. PICK n \in Bad : \A m \in Bad : n <= m
    <3>1. Bad \in SUBSET Nat
      OBVIOUS
    <3>. HIDE DEF Bad
    <3>. QED BY <1>7, <3>1, Least
  <2>2. PICK t \in SUBSET D : Cardinality(t) = n /\ ~Has(t)
    OBVIOUS
  <2>3. CASE t = {}
    <3>1. g[t] = <<>>
      BY <1>4, <2>3
    <3>. QED BY <2>2, <2>3, <3>1
  <2>4. CASE t # {}
    <3>. DEFINE x == pick[t]
                u == t \ {x}
    <3>1. x \in t /\ x \in D /\ u \in SUBSET D /\ g[t] = Append(g[u], <<x, map[x]>>)
      BY <1>4, <1>5, <2>4
    <3>2. Cardinality(u) = n - 1 /\ n \in Nat /\ Cardinality(u) \in Nat
      <4>1. Cardinality(u) = Cardinality(t) - 1
        BY <1>6, <3>1, FS_RemoveElement
      <4>. HIDE DEF Bad, u
      <4>. QED BY <1>6, <2>2, <3>1, <4>1
    <3>3. Cardinality(u) \notin Bad
      <4>1. ~(n <= Cardinality(u))
        <5>. HIDE DEF u, Bad
        <5>. QED BY <3>2
      <4>. HIDE DEF Bad, u
      <4>. QED BY <2>1, <4>1
    <3>4. Has(u)
      <4>. HIDE DEF Has, u
      <4>. QED BY <3>1, <3>2, <3>3
    <3>5. <<x, map[x]>> \in E
      BY <3>1
    <3>6. \A key \in t : key \in u \/ key = x
      OBVIOUS
    <3>. HIDE DEF E, x, u, Bad
    <3>. DEFINE had == g[u]
                entry == <<x, map[x]>>
    <3>7. had \in Seq(E) /\ entry \in E /\ g[t] = Append(had, entry)
      BY <3>1, <3>4, <3>5
    <3>8. \A key \in u : \E j \in 1..Len(had) : had[j] = <<key, map[key]>>
      BY <3>4
    <3>. HIDE DEF had
    <3>9. entry = <<x, map[x]>>
      OBVIOUS
    <3>. HIDE DEF entry
    <3>10. /\ Append(had, entry) \in Seq(E) /\ Len(Append(had, entry)) = Len(had) + 1 /\ Len(had) \in Nat
           /\ Append(had, entry)[Len(had) + 1] = entry
           /\ \A j \in 1..Len(had) : Append(had, entry)[j] = had[j]
      BY <3>7
    <3>11. \A key \in t : \E j \in 1..Len(Append(had, entry)) : Append(had, entry)[j] = <<key, map[key]>>
      <4>. SUFFICES ASSUME NEW key \in t PROVE \E j \in 1..Len(Append(had, entry)) : Append(had, entry)[j] = <<key, map[key]>>
        OBVIOUS
      <4>1. CASE key \in u
        <5>1. PICK j \in 1..Len(had) : had[j] = <<key, map[key]>>
          BY <3>8, <4>1
        <5>2. j \in 1..Len(Append(had, entry))
          BY <3>10
        <5>. QED BY <3>10, <5>1, <5>2
      <4>2. CASE key = x
        <5>1. Len(had) + 1 \in 1..Len(Append(had, entry))
          BY <3>10
        <5>. QED BY <3>9, <3>10, <4>2, <5>1
      <4>. QED BY <3>6, <4>1, <4>2
    <3>12. Has(t)
      BY <3>7, <3>10, <3>11
    <3>. QED BY <2>2, <3>12
  <2>. QED BY <2>3, <2>4
<1>8. Has(D)
  <2>1. D \in SUBSET D /\ Cardinality(D) \in Nat /\ Cardinality(D) \notin Bad
    <3>. HIDE DEF Bad
    <3>. QED BY <1>6, <1>7
  <2>. HIDE DEF Has
  <2>. QED BY <2>1
<1>. HIDE DEF E, g
<1>. QED BY <1>1, <1>8 DEF E, D

LEMMA ItemIs == \A k, kind, x : LET item == Item(k, kind, x) IN item.num = k /\ item.wire = Wire(kind) /\ item.val = x
BY DEF Item

\* The items of a field, by its kind.
LEMMA ItemsOfStrings ==
  ASSUME NEW kind, kind = "strings", NEW k, NEW v, IsValue(kind, v), NEW items, items = ItemsOf(k, kind, v)
  PROVE  /\ Len(v) \in Nat /\ DOMAIN v = 1..Len(v)
         /\ items = [j \in 1..Len(v) |-> items[j]] /\ Len(items) = Len(v)
         /\ \A j \in 1..Len(v) : items[j] = Item(k, kind, v[j])
<1>1. v \in Seq({v[n] : n \in DOMAIN v})
  BY DEF IsValue, IsList
<1>2. DOMAIN v = 1..Len(v) /\ Len(v) \in Nat
  BY <1>1
<1>3. items = [j \in 1..Len(v) |-> Item(k, kind, v[j])]
  BY <1>2 DEF ItemsOf
<1>. QED BY <1>2, <1>3

LEMMA ItemsOfMap ==
  ASSUME NEW kind, kind = "map", NEW k, NEW v, IsValue(kind, v), NEW items, items = ItemsOf(k, kind, v),
         NEW entries, entries = Entries(v)
  PROVE  /\ Len(entries) \in Nat
         /\ items = [j \in 1..Len(entries) |-> items[j]] /\ Len(items) = Len(entries)
         /\ \A j \in 1..Len(entries) : items[j] = Item(k, kind, entries[j])
         /\ \A j \in 1..Len(entries) : \E key \in DOMAIN v : entries[j] = <<key, v[key]>>
         /\ \A key \in DOMAIN v : \E j \in 1..Len(entries) : entries[j] = <<key, v[key]>>
<1>1. IsFiniteSet(DOMAIN v)
  BY DEF IsValue
<1>2. /\ entries \in Seq({<<key, v[key]>> : key \in DOMAIN v})
      /\ \A key \in DOMAIN v : \E j \in 1..Len(entries) : entries[j] = <<key, v[key]>>
  BY <1>1, EntriesAre
<1>3. items = [j \in DOMAIN entries |-> Item(k, kind, entries[j])]
  BY DEF ItemsOf
<1>4. DOMAIN entries = 1..Len(entries) /\ Len(entries) \in Nat
  BY <1>2
<1>5. items = [j \in 1..Len(entries) |-> Item(k, kind, entries[j])]
  BY <1>3, <1>4
<1>6. \A j \in 1..Len(entries) : entries[j] \in {<<key, v[key]>> : key \in DOMAIN v}
  BY <1>2
<1>7. \A j \in 1..Len(entries) : \E key \in DOMAIN v : entries[j] = <<key, v[key]>>
  BY <1>6
<1>8. items = [j \in 1..Len(entries) |-> items[j]] /\ Len(items) = Len(entries)
  BY <1>4, <1>5
<1>9. \A j \in 1..Len(entries) : items[j] = Item(k, kind, entries[j])
  BY <1>5
<1>. QED BY <1>2, <1>4, <1>7, <1>8, <1>9

LEMMA ItemsOfScalar ==
  ASSUME NEW k, NEW kind \in {"float", "uint64", "string"}, NEW v
  PROVE  ItemsOf(k, kind, v) = IF IsDefault(kind, v) THEN <<>> ELSE <<Item(k, kind, v)>>
BY DEF ItemsOf

\* They are of the field's number and type.
LEMMA ItemsAre ==
  ASSUME NEW kind \in Kinds, NEW k, NEW v, IsValue(kind, v), NEW items, items = ItemsOf(k, kind, v)
  PROVE  /\ IsList(items)
         /\ \A j \in 1..Len(items) : items[j].num = k /\ items[j].wire = Wire(kind)
<1>1. ASSUME NEW n \in Nat, items = [j \in 1..n |-> items[j]], \A j \in 1..n : \E x : items[j] = Item(k, kind, x)
      PROVE  /\ IsList(items)
             /\ \A j \in 1..Len(items) : items[j].num = k /\ items[j].wire = Wire(kind)
  <2>1. DOMAIN items = 1..n
    BY <1>1
  <2>2. items = [j \in 1..n |-> items[j]]
    BY <1>1
  <2>3. items \in Seq({items[j] : j \in DOMAIN items})
    BY <2>1, <2>2
  <2>4. Len(items) = n
    BY <2>1, <2>3
  <2>5. ASSUME NEW j \in 1..n PROVE items[j].num = k /\ items[j].wire = Wire(kind)
    <3>1. PICK x : items[j] = Item(k, kind, x)
      BY <1>1
    <3>. QED BY <3>1 DEF Item, IsList
  <2>. QED BY <2>3, <2>4, <2>5 DEF IsList
<1>2. CASE kind = "strings"
  <2>1. /\ Len(v) \in Nat /\ items = [j \in 1..Len(v) |-> items[j]]
        /\ \A j \in 1..Len(v) : items[j] = Item(k, kind, v[j])
    BY <1>2, ItemsOfStrings
  <2>. QED BY <1>1, <2>1
<1>3. CASE kind = "map"
  <2>1. PICK entries : entries = Entries(v)
    OBVIOUS
  <2>2. /\ Len(entries) \in Nat /\ items = [j \in 1..Len(entries) |-> items[j]]
        /\ \A j \in 1..Len(entries) : items[j] = Item(k, kind, entries[j])
    BY <1>3, <2>1, ItemsOfMap
  <2>. QED BY <1>1, <2>2
<1>4. CASE kind \in {"float", "uint64", "string"}
  <2>1. CASE IsDefault(kind, v)
    <3>1. items = <<>>
      BY <1>4, <2>1, ItemsOfScalar
    <3>. QED BY <3>1 DEF IsList
  <2>2. CASE ~IsDefault(kind, v)
    <3>1. items = <<Item(k, kind, v)>>
      BY <1>4, <2>2, ItemsOfScalar
    <3>. QED BY <3>1 DEF Item, IsList
  <2>. QED BY <2>1, <2>2
<1>. QED BY <1>2, <1>3, <1>4 DEF Kinds

\* What storing them one by one makes of a field, when it is what merging makes of it.
Stores(f, kind, old, v, items) ==
  /\ f[0] = old /\ f[Len(items)] = Merged(kind, old, v)
  /\ \A j \in 1..Len(items) : f[j] = Stored(kind, f[j - 1], items[j].val)

\* Appending one by one.
Appends(f, old, v, new) ==
  /\ f[0] = old /\ f[Len(v)] = new
  /\ \A j \in 1..Len(v) : f[j] = Append(f[j - 1], v[j])

LEMMA Appending ==
  ASSUME NEW T, NEW old \in Seq(T), NEW v \in Seq(T), NEW new, new = old \o v
  PROVE  \E f : Appends(f, old, v, new)
<1>. DEFINE N == Len(v)
            f == [j \in 0..N |-> old \o SubSeq(v, 1, j)]
<1>1. N \in Nat /\ N = Len(v)
  OBVIOUS
<1>3. ASSUME NEW j \in 0..N
      PROVE  /\ SubSeq(v, 1, j) \in Seq(T) /\ Len(SubSeq(v, 1, j)) = j
             /\ \A r \in 1..j : SubSeq(v, 1, j)[r] = v[r]
  <2>1. j \in Nat /\ j <= Len(v) /\ 1 <= j + 1 /\ j - 1 + 1 = j /\ \A r \in 1..j : 1 + r - 1 = r
    BY <1>1
  <2>. QED BY <2>1, Slice
<1>. HIDE DEF N
<1>4. f[0] = old
  <2>1. 0 \in 0..N /\ SubSeq(v, 1, 0) = <<>>
    BY <1>1, <1>3
  <2>2. old \o <<>> = old
    OBVIOUS
  <2>. QED BY <2>1, <2>2
<1>5. f[N] = old \o v
  <2>1. N \in 0..N
    BY <1>1
  <2>2. SubSeq(v, 1, N) = v
    BY <1>1, <1>3, <2>1
  <2>. QED BY <2>1, <2>2
<1>6. ASSUME NEW j \in 1..N PROVE f[j] = Append(f[j - 1], v[j])
  <2>1. j \in 0..N /\ j - 1 \in 0..N /\ v[j] \in T /\ j \in Nat
    BY <1>1
  <2>. DEFINE a == SubSeq(v, 1, j - 1)
              b == SubSeq(v, 1, j)
  <2>2. /\ a \in Seq(T) /\ Len(a) = j - 1 /\ \A r \in 1..j - 1 : a[r] = v[r]
        /\ b \in Seq(T) /\ Len(b) = j /\ \A r \in 1..j : b[r] = v[r]
    BY <1>3, <2>1
  <2>. HIDE DEF a, b
  <2>3. b = Append(a, v[j])
    <3>1. /\ Append(a, v[j]) \in Seq(T) /\ Len(Append(a, v[j])) = j
          /\ Append(a, v[j])[j] = v[j] /\ \A r \in 1..j - 1 : Append(a, v[j])[r] = a[r]
      BY <2>1, <2>2
    <3>2. \A r \in 1..j : r \in 1..j - 1 \/ r = j
      BY <2>1
    <3>3. \A r \in 1..j : b[r] = Append(a, v[j])[r]
      BY <2>2, <3>1, <3>2
    <3>. QED BY <2>2, <3>1, <3>3
  <2>4. old \o Append(a, v[j]) = Append(old \o a, v[j])
    BY <2>1, <2>2
  <2>5. f[j] = old \o b /\ f[j - 1] = old \o a
    BY <2>1 DEF a, b
  <2>. HIDE DEF f
  <2>. QED BY <2>3, <2>4, <2>5
<1>. HIDE DEF f
<1>7. Appends(f, old, v, new)
  BY <1>1, <1>4, <1>5, <1>6 DEF Appends
<1>. QED BY <1>7

LEMMA StringsStore ==
  ASSUME NEW T, NEW kind, kind = "strings", NEW old \in Seq(T), NEW v \in Seq(T), NEW items, Len(items) = Len(v),
         \A j \in 1..Len(v) : items[j].val = v[j]
  PROVE  \E f : Stores(f, kind, old, v, items)
<1>1. PICK f : Appends(f, old, v, old \o v)
  BY Appending, Zenon
<1>2. Merged(kind, old, v) = old \o v
  BY DEF Merged
<1>3. \A x, y : Stored(kind, x, y) = Append(x, y)
  BY DEF Stored
<1>4. \A j \in 1..Len(v) : f[j] = Stored(kind, f[j - 1], v[j])
  BY <1>1, <1>3 DEF Appends
<1>5. \A j \in 1..Len(v) : f[j] = Stored(kind, f[j - 1], items[j].val)
  BY <1>4
<1>6. f[0] = old /\ f[Len(v)] = old \o v
  BY <1>1 DEF Appends
<1>. QED BY <1>2, <1>5, <1>6 DEF Stores

LEMMA MapStores ==
  ASSUME NEW kind, kind = "map", NEW old, NEW v, old = [key \in DOMAIN old |-> old[key]], v = [key \in DOMAIN v |-> v[key]],
         NEW entries, Len(entries) \in Nat,
         \A j \in 1..Len(entries) : \E key \in DOMAIN v : entries[j] = <<key, v[key]>>,
         \A key \in DOMAIN v : \E j \in 1..Len(entries) : entries[j] = <<key, v[key]>>,
         NEW items, Len(items) = Len(entries), \A j \in 1..Len(entries) : items[j].val = entries[j]
  PROVE  \E f : Stores(f, kind, old, v, items)
<1>. DEFINE N == Len(entries)
            keys(j) == {entries[r][1] : r \in 1..j}
            f == [j \in 0..N |-> [key \in DOMAIN old \cup keys(j) |-> IF key \in keys(j) THEN v[key] ELSE old[key]]]
<1>1. N \in Nat /\ N = Len(entries)
  OBVIOUS
<1>2. Len(items) = N /\ \A j \in 1..N : items[j].val = entries[j]
  OBVIOUS
<1>3. \A j \in 1..N : entries[j][1] \in DOMAIN v /\ entries[j] = <<entries[j][1], v[entries[j][1]]>>
  BY <1>1
<1>. HIDE DEF N
<1>4. f[0] = old
  <2>1. 0 \in 0..N /\ keys(0) = {}
    BY <1>1
  <2>. HIDE DEF keys
  <2>2. f[0] = [key \in DOMAIN old |-> old[key]]
    BY <2>1
  <2>. HIDE DEF f
  <2>. QED BY <2>2
<1>5. f[N] = [key \in DOMAIN old \cup DOMAIN v |-> IF key \in DOMAIN v THEN v[key] ELSE old[key]]
  <2>1. N \in 0..N
    BY <1>1
  <2>2. keys(N) = DOMAIN v
    <3>1. \A key \in DOMAIN v : \E j \in 1..N : entries[j][1] = key
      BY <1>1
    <3>2. ASSUME NEW key \in keys(N) PROVE key \in DOMAIN v
      BY <1>3, Zenon
    <3>3. ASSUME NEW key \in DOMAIN v PROVE key \in keys(N)
      <4>1. PICK j \in 1..N : entries[j][1] = key
        BY <3>1
      <4>. QED BY <4>1, Zenon
    <3>. HIDE DEF keys
    <3>. QED BY <3>2, <3>3, Zenon
  <2>. HIDE DEF keys
  <2>. QED BY <2>1, <2>2
<1>6. ASSUME NEW j \in 1..N
      PROVE  f[j] = [key \in DOMAIN f[j - 1] \cup {entries[j][1]} |-> IF key = entries[j][1] THEN entries[j][2] ELSE f[j - 1][key]]
  <2>1. j \in 0..N /\ j - 1 \in 0..N
    BY <1>1
  <2>2. keys(j) = keys(j - 1) \cup {entries[j][1]}
    <3>1. \A r : r \in 1..j <=> r \in 1..j - 1 \/ r = j
      BY <1>1
    <3>. QED BY <3>1
  <2>3. entries[j][2] = v[entries[j][1]]
    BY <1>3
  <2>. HIDE DEF keys
  <2>. DEFINE was == f[j - 1]
              key1 == entries[j][1]
  <2>4. was = [key \in DOMAIN old \cup keys(j - 1) |-> IF key \in keys(j - 1) THEN v[key] ELSE old[key]]
    BY <2>1
  <2>5. f[j] = [key \in DOMAIN old \cup keys(j) |-> IF key \in keys(j) THEN v[key] ELSE old[key]]
    BY <2>1
  <2>. HIDE DEF f
  <2>. HIDE DEF was, key1
  <2>6. DOMAIN was \cup {key1} = DOMAIN old \cup keys(j)
    BY <2>2, <2>4 DEF key1
  <2>7. \A key \in DOMAIN old \cup keys(j) :
          (IF key \in keys(j) THEN v[key] ELSE old[key]) = IF key = key1 THEN v[key1] ELSE was[key]
    BY <2>2, <2>4 DEF key1
  <2>8. f[j] = [key \in DOMAIN was \cup {key1} |-> IF key = key1 THEN v[key1] ELSE was[key]]
    BY <2>5, <2>6, <2>7
  <2>. QED BY <2>3, <2>8 DEF was, key1
<1>. HIDE DEF f, keys
<1>7. Merged(kind, old, v) = [key \in DOMAIN old \cup DOMAIN v |-> IF key \in DOMAIN v THEN v[key] ELSE old[key]]
  BY DEF Merged
<1>8. Stores(f, kind, old, v, items)
  <2>1. ASSUME NEW j \in 1..N PROVE f[j] = Stored(kind, f[j - 1], entries[j])
    <3>1. Stored(kind, f[j - 1], entries[j]) =
            [key \in DOMAIN f[j - 1] \cup {entries[j][1]} |-> IF key = entries[j][1] THEN entries[j][2] ELSE f[j - 1][key]]
      BY DEF Stored
    <3>. QED BY <1>6, <3>1, Zenon
  <2>2. \A j \in 1..N : f[j] = Stored(kind, f[j - 1], items[j].val)
    BY <1>2, <2>1
  <2>. QED BY <1>2, <1>4, <1>5, <1>7, <2>2 DEF Stores
<1>. QED BY <1>8

LEMMA ScalarStores ==
  ASSUME NEW kind \in {"float", "uint64", "string"}, NEW old, NEW v, NEW k, NEW items,
         items = IF IsDefault(kind, v) THEN <<>> ELSE <<Item(k, kind, v)>>
  PROVE  \E f : Stores(f, kind, old, v, items)
<1>1. Merged(kind, old, v) = (IF IsDefault(kind, v) THEN old ELSE v) /\ \A x, y : Stored(kind, x, y) = y
  BY DEF Merged, Stored
<1>. DEFINE f == [j \in {0, 1} |-> IF j = 0 THEN old ELSE v]
<1>2. CASE IsDefault(kind, v)
  <2>1. items = <<>> /\ f[0] = old /\ Merged(kind, old, v) = old
    BY <1>1, <1>2
  <2>2. Len(items) = 0 /\ 1..0 = {}
    BY <2>1
  <2>. HIDE DEF f
  <2>. QED BY <2>1, <2>2 DEF Stores
<1>3. CASE ~IsDefault(kind, v)
  <2>1. items = <<Item(k, kind, v)>> /\ f[0] = old /\ f[1] = v /\ Merged(kind, old, v) = v
    BY <1>1, <1>3
  <2>2. Len(items) = 1 /\ items[1].val = v
    BY <2>1, ItemIs
  <2>3. \A j \in 1..1 : j = 1
    OBVIOUS
  <2>. HIDE DEF f
  <2>. QED BY <1>1, <2>1, <2>2, <2>3 DEF Stores
<1>. QED BY <1>2, <1>3

LEMMA ItemsStore ==
  ASSUME NEW T, NEW kind \in Kinds, NEW old, IsOf(T, kind, old), NEW v, IsOf(T, kind, v), IsValue(kind, v), NEW k
  PROVE  \E f : Stores(f, kind, old, v, ItemsOf(k, kind, v))
<1>. DEFINE items == ItemsOf(k, kind, v)
<1>1. CASE kind = "strings"
  <2>1. old \in Seq(T) /\ v \in Seq(T)
    BY <1>1 DEF IsOf
  <2>2. Len(items) = Len(v) /\ \A j \in 1..Len(v) : items[j] = Item(k, kind, v[j])
    BY <1>1, ItemsOfStrings
  <2>. HIDE DEF items
  <2>3. \A j \in 1..Len(v) : items[j].val = v[j]
    BY <2>2, ItemIs
  <2>4. \E f : Stores(f, kind, old, v, items)
    BY <1>1, <2>1, <2>2, <2>3, StringsStore
  <2>. QED BY <2>4 DEF items
<1>2. CASE kind = "map"
  <2>1. old = [key \in DOMAIN old |-> old[key]] /\ v = [key \in DOMAIN v |-> v[key]]
    BY <1>2 DEF IsOf
  <2>2. PICK entries : entries = Entries(v)
    OBVIOUS
  <2>3. /\ Len(entries) \in Nat /\ Len(items) = Len(entries)
        /\ \A j \in 1..Len(entries) : items[j] = Item(k, kind, entries[j])
        /\ \A j \in 1..Len(entries) : \E key \in DOMAIN v : entries[j] = <<key, v[key]>>
        /\ \A key \in DOMAIN v : \E j \in 1..Len(entries) : entries[j] = <<key, v[key]>>
    BY <1>2, <2>2, ItemsOfMap
  <2>. HIDE DEF items
  <2>4. \A j \in 1..Len(entries) : items[j].val = entries[j]
    BY <2>3, ItemIs
  <2>5. \E f : Stores(f, kind, old, v, items)
    BY <1>2, <2>1, <2>3, <2>4, MapStores
  <2>. QED BY <2>5 DEF items
<1>3. CASE kind \in {"float", "uint64", "string"}
  BY <1>3, ItemsOfScalar, ScalarStores
<1>. QED BY <1>1, <1>2, <1>3 DEF Kinds

\* A field's texts are those of its items, and the empty one.
LEMMA ItemsTexts ==
  ASSUME NEW kind \in Kinds, NEW v, IsValue(kind, v), NEW k, NEW items, items = ItemsOf(k, kind, v),
         Default("string") \notin NotUtf8
  PROVE  TextsIn(kind, v) \cap NotUtf8 = {} <=> \A j \in 1..Len(items) : Texts(kind, items[j].val) \cap NotUtf8 = {}
<1>1. CASE kind = "strings"
  <2>1. DOMAIN v = 1..Len(v) /\ Len(items) = Len(v) /\ \A j \in 1..Len(v) : items[j] = Item(k, kind, v[j])
    BY <1>1, ItemsOfStrings
  <2>3. \A j \in 1..Len(v) : items[j].val = v[j]
    BY <2>1, ItemIs
  <2>4. TextsIn(kind, v) = {v[n] : n \in DOMAIN v} /\ \A x : Texts(kind, x) = {x}
    BY <1>1 DEF TextsIn, Texts
  <2>. QED BY <2>1, <2>3, <2>4
<1>2. CASE kind = "map"
  <2>1. PICK entries : entries = Entries(v)
    OBVIOUS
  <2>2. /\ Len(items) = Len(entries) /\ \A j \in 1..Len(entries) : items[j] = Item(k, kind, entries[j])
        /\ \A j \in 1..Len(entries) : \E key \in DOMAIN v : entries[j] = <<key, v[key]>>
        /\ \A key \in DOMAIN v : \E j \in 1..Len(entries) : entries[j] = <<key, v[key]>>
    BY <1>2, <2>1, ItemsOfMap
  <2>3. Len(items) = Len(entries) /\ \A j \in 1..Len(entries) : items[j].val = entries[j]
    BY <2>2, ItemIs
  <2>4. /\ TextsIn(kind, v) = DOMAIN v \cup {v[key] : key \in DOMAIN v}
        /\ \A x : Texts(kind, x) = {x[1], x[2]}
    BY <1>2 DEF TextsIn, Texts
  <2>5. ASSUME TextsIn(kind, v) \cap NotUtf8 = {}, NEW j \in 1..Len(items)
        PROVE  Texts(kind, items[j].val) \cap NotUtf8 = {}
    <3>1. PICK key \in DOMAIN v : items[j].val = <<key, v[key]>>
      BY <2>2, <2>3
    <3>. QED BY <2>4, <2>5, <3>1
  <2>6. ASSUME \A j \in 1..Len(items) : Texts(kind, items[j].val) \cap NotUtf8 = {}
        PROVE  TextsIn(kind, v) \cap NotUtf8 = {}
    <3>1. ASSUME NEW key \in DOMAIN v PROVE key \notin NotUtf8 /\ v[key] \notin NotUtf8
      <4>1. PICK j \in 1..Len(entries) : entries[j] = <<key, v[key]>>
        BY <2>2
      <4>2. Texts(kind, items[j].val) = {key, v[key]} /\ j \in 1..Len(items)
        BY <2>3, <2>4, <4>1
      <4>. QED BY <2>6, <4>2
    <3>. QED BY <2>4, <3>1
  <2>. QED BY <2>5, <2>6
<1>3. CASE kind \in {"float", "uint64"}
  <2>1. TextsIn(kind, v) = {} /\ \A x : Texts(kind, x) = {}
    BY <1>3 DEF TextsIn, Texts
  <2>. QED BY <2>1
<1>4. CASE kind = "string"
  <2>1. TextsIn(kind, v) = {v} /\ \A x : Texts(kind, x) = {x}
    BY <1>4 DEF TextsIn, Texts
  <2>2. IsDefault(kind, v) <=> v = Default("string")
    BY <1>4 DEF IsDefault
  <2>3. items = IF IsDefault(kind, v) THEN <<>> ELSE <<Item(k, kind, v)>>
    BY <1>4, ItemsOfScalar
  <2>4. CASE v = Default("string")
    <3>1. Len(items) = 0 /\ 1..0 = {}
      BY <2>2, <2>3, <2>4
    <3>. QED BY <2>1, <2>4, <3>1
  <2>5. CASE v # Default("string")
    <3>1. Len(items) = 1 /\ items[1].val = v
      BY <2>2, <2>3, <2>5 DEF Item
    <3>2. \A j : j \in 1..1 <=> j = 1
      OBVIOUS
    <3>. QED BY <2>1, <3>1, <3>2
  <2>. QED BY <2>4, <2>5
<1>. QED BY <1>1, <1>2, <1>3, <1>4 DEF Kinds

-----------------------------------------------------------------------------
(* Where the items of each field stand.                                    *)

\* Where the items of each field stand.

\* What a part has of a field, the last of which are the foreign ones.
Block(s, part, k) == IF k \in DOMAIN s THEN ItemsOf(k, s[k], part.msg[k]) ELSE part.foreign
Blocks(s, part) == [k \in 1..Len(s) + 1 |-> Block(s, part, k)]
PartItems(s, part) == Serialize(s, part.msg) \o part.foreign

LEMMA PartLaid ==
  ASSUME NEW s, IsSchema(s), NEW part, NEW X, \A k \in 1..Len(s) + 1 : Block(s, part, k) \in Seq(X)
  PROVE  /\ PartItems(s, part) \in Seq(X)
         /\ \E at : EndsOf(at, Blocks(s, part)) /\ LaidAs(at, Blocks(s, part), PartItems(s, part))
<1>. DEFINE K == Len(s)
            fields == [k \in DOMAIN s |-> ItemsOf(k, s[k], part.msg[k])]
            whole == FlattenSeq(fields)
            foreign == part.foreign
            blocks == Blocks(s, part)
<1>1. K \in Nat /\ DOMAIN s = 1..K /\ K = Len(s)
  BY DEF IsSchema
<1>2. /\ \A k \in 1..K : fields[k] = Block(s, part, k) /\ Block(s, part, k) \in Seq(X)
      /\ foreign = Block(s, part, K + 1) /\ foreign \in Seq(X)
  BY <1>1 DEF Block
<1>3. fields \in Seq(Seq(X)) /\ Len(fields) = K
  <2>1. fields = [k \in 1..K |-> fields[k]]
    BY <1>1
  <2>. HIDE DEF fields, K
  <2>. QED BY <1>1, <1>2, <2>1
<1>4. PartItems(s, part) = whole \o foreign
  BY DEF PartItems, Serialize
<1>5. Len(blocks) = K + 1 /\ \A k \in 1..K + 1 : blocks[k] = Block(s, part, k)
  BY <1>1 DEF Blocks
<1>. HIDE DEF fields, blocks, foreign, whole, K
<1>6. whole \in Seq(X) /\ \E at : EndsOf(at, fields) /\ LaidAs(at, fields, whole)
  BY <1>3, Flattened DEF whole
<1>7. PICK at : EndsOf(at, fields) /\ LaidAs(at, fields, whole)
  BY <1>6
<1>8. /\ at \in [0..K -> Nat] /\ at[0] = 0 /\ Len(whole) = at[K]
      /\ \A k \in 1..K : at[k] = at[k - 1] + Len(fields[k]) /\ at[k] <= at[K]
      /\ \A k \in 1..K : \A j \in 1..Len(fields[k]) : whole[at[k - 1] + j] = fields[k][j]
      /\ \A p \in 1..at[K] : \E k \in 1..K : \E j \in 1..Len(fields[k]) : p = at[k - 1] + j
  BY <1>3, <1>7 DEF EndsOf, LaidAs
<1>. DEFINE F == Len(foreign)
            ends == [k \in 0..K + 1 |-> IF k = K + 1 THEN at[K] + F ELSE at[k]]
            all == whole \o foreign
<1>9. F \in Nat /\ at[K] \in Nat /\ Len(all) = at[K] + F /\ all \in Seq(X)
      /\ (\A p \in 1..at[K] : all[p] = whole[p]) /\ (\A j \in 1..F : all[at[K] + j] = foreign[j])
  <2>1. at[K] \in Nat /\ foreign \in Seq(X) /\ whole \in Seq(X) /\ Len(whole) = at[K]
    BY <1>1, <1>2, <1>6, <1>8
  <2>. QED BY <2>1
<1>. HIDE DEF F, all
<1>10. /\ ends[K + 1] = at[K] + F /\ \A k \in 0..K : ends[k] = at[k] /\ at[k] \in Nat
       /\ ends \in [0..K + 1 -> Nat]
  <2>1. K + 1 \in 0..K + 1 /\ \A k \in 0..K : k \in 0..K + 1 /\ k # K + 1
    BY <1>1
  <2>2. \A k \in 0..K : at[k] \in Nat
    BY <1>8
  <2>3. \A k \in 0..K + 1 : k \in 0..K \/ k = K + 1
    BY <1>1
  <2>4. at[K] + F \in Nat
    BY <1>9
  <2>. QED BY <2>1, <2>2, <2>3, <2>4
<1>. HIDE DEF ends
<1>11. ASSUME NEW k \in 1..K
       PROVE  /\ ends[k] = ends[k - 1] + Len(blocks[k]) /\ ends[k] <= ends[K + 1] /\ blocks[k] = fields[k]
              /\ \A j \in 1..Len(blocks[k]) : all[ends[k - 1] + j] = blocks[k][j]
  <2>1. k \in 0..K /\ k - 1 \in 0..K /\ k \in 1..K + 1
    BY <1>1
  <2>2. ends[k] = at[k] /\ ends[k - 1] = at[k - 1] /\ blocks[k] = fields[k] /\ ends[K + 1] = at[K] + F
    BY <1>2, <1>5, <1>10, <2>1
  <2>3. at[k] \in Nat /\ at[k - 1] \in Nat /\ at[k] = at[k - 1] + Len(fields[k]) /\ at[k] <= at[K]
    BY <1>8, <1>10, <2>1
  <2>4. ASSUME NEW j \in 1..Len(fields[k]) PROVE all[at[k - 1] + j] = fields[k][j]
    <3>1. Len(fields[k]) \in Nat
      BY <1>2
    <3>2. at[k - 1] + j \in 1..at[K]
      BY <1>9, <2>3, <3>1, SMTT(30)
    <3>. QED BY <1>8, <1>9, <3>2
  <2>5. at[k] <= at[K] + F
    BY <1>9, <2>3
  <2>. QED BY <2>2, <2>3, <2>4, <2>5
<1>12. /\ ends[K + 1] = ends[K] + Len(blocks[K + 1]) /\ blocks[K + 1] = foreign
       /\ \A j \in 1..F : all[ends[K] + j] = foreign[j]
  <2>1. K \in 0..K /\ K + 1 \in 1..K + 1
    BY <1>1
  <2>2. ends[K + 1] = at[K] + F /\ ends[K] = at[K] /\ blocks[K + 1] = foreign
    BY <1>2, <1>5, <1>10, <2>1
  <2>. QED BY <1>9, <2>2 DEF F
<1>13. EndsOf(ends, blocks)
  <2>1. ASSUME NEW k \in 1..K + 1 PROVE ends[k] = ends[k - 1] + Len(blocks[k])
    <3>1. k \in 1..K \/ (k = K + 1 /\ k - 1 = K)
      BY <1>1
    <3>. QED BY <1>11, <1>12, <3>1
  <2>2. ends[0] = 0
    <3>1. 0 \in 0..K
      BY <1>1
    <3>. QED BY <1>8, <1>10, <3>1
  <2>. QED BY <1>5, <1>10, <2>1, <2>2 DEF EndsOf
<1>14. LaidAs(ends, blocks, all)
  <2>1. Len(all) = ends[K + 1]
    BY <1>9, <1>10
  <2>2. ASSUME NEW k \in 1..K + 1
        PROVE  ends[k] <= ends[K + 1] /\ \A j \in 1..Len(blocks[k]) : all[ends[k - 1] + j] = blocks[k][j]
    <3>1. CASE k \in 1..K
      BY <1>11, <3>1
    <3>2. CASE k = K + 1
      <4>1. k - 1 = K /\ ends[K + 1] <= ends[K + 1]
        BY <1>1, <1>9, <1>10, <3>2
      <4>. QED BY <1>12, <3>2, <4>1 DEF F
    <3>. QED BY <1>1, <3>1, <3>2
  <2>3. ASSUME NEW p \in 1..ends[K + 1]
        PROVE  \E k \in 1..K + 1 : \E j \in 1..Len(blocks[k]) : p = ends[k - 1] + j
    <3>1. p \in 1..at[K] \/ (p \in Nat /\ p - at[K] \in 1..F)
      BY <1>9, <1>10
    <3>2. CASE p \in 1..at[K]
      <4>1. PICK k \in 1..K : \E j \in 1..Len(fields[k]) : p = at[k - 1] + j
        BY <1>8, <3>2
      <4>2. k \in 1..K + 1 /\ k - 1 \in 0..K
        BY <1>1
      <4>. QED BY <1>10, <1>11, <4>1, <4>2
    <3>3. CASE p \in Nat /\ p - at[K] \in 1..F
      <4>1. K + 1 \in 1..K + 1 /\ K + 1 - 1 = K /\ K \in 0..K
        BY <1>1
      <4>2. p = ends[K] + (p - at[K])
        BY <1>9, <1>10, <3>3, <4>1
      <4>3. p - at[K] \in 1..Len(blocks[K + 1])
        BY <1>12, <3>3 DEF F
      <4>. QED BY <4>1, <4>2, <4>3
    <3>. QED BY <3>1, <3>2, <3>3
  <2>. QED BY <1>5, <2>1, <2>2, <2>3 DEF LaidAs
<1>. QED BY <1>4, <1>9, <1>13, <1>14 DEF all, blocks

Items_of(s, parts) == FlattenSeq([n \in DOMAIN parts |-> PartItems(s, parts[n])])

LEMMA WithinBlock == \A a, c, d, l \in Nat : \A j \in 1..l : c = a + l /\ c <= d => a + j \in 1..d
OBVIOUS

\* Field k's items of the n-th part stand behind b[k][n] up to e[k][n].
IsLayout(b, e, s, parts, items) ==
  /\ IsList(items)
  /\ \A k \in 1..Len(s) + 1 :
       /\ b[k] \in [1..Len(parts) + 1 -> Nat] /\ e[k] \in [0..Len(parts) -> Nat]
       /\ e[k][0] = 0 /\ b[k][Len(parts) + 1] = Len(items)
       /\ \A n \in 1..Len(parts) + 1 : e[k][n - 1] <= b[k][n]
       /\ \A n \in 1..Len(parts) :
            /\ IsList(Block(s, parts[n], k))
            /\ e[k][n] = b[k][n] + Len(Block(s, parts[n], k))
            /\ \A j \in 1..Len(Block(s, parts[n], k)) : items[b[k][n] + j] = Block(s, parts[n], k)[j]
  /\ \A p \in 1..Len(items) :
       \E k \in 1..Len(s) + 1, n \in 1..Len(parts) : \E j \in 1..Len(Block(s, parts[n], k)) : p = b[k][n] + j

LEMMA BlockIs ==
  ASSUME NEW s, IsSchema(s), NEW part, IsPart(s, part), NEW k \in 1..Len(s) + 1
  PROVE  IsList(Block(s, part, k))
<1>1. Len(s) \in Nat /\ DOMAIN s = 1..Len(s)
  BY DEF IsSchema
<1>2. CASE k \in DOMAIN s
  <2>1. s[k] \in Kinds /\ IsValue(s[k], part.msg[k])
    BY <1>2 DEF IsSchema, IsPart
  <2>2. PICK items : items = ItemsOf(k, s[k], part.msg[k])
    OBVIOUS
  <2>3. IsList(items)
    BY <2>1, <2>2, ItemsAre
  <2>. QED BY <1>2, <2>2, <2>3 DEF Block
<1>3. CASE k \notin DOMAIN s
  BY <1>3 DEF Block, IsPart
<1>. QED BY <1>2, <1>3

LEMMA Layout ==
  ASSUME NEW s, IsSchema(s), NEW Y, NEW parts \in Seq(Y), \A n \in DOMAIN parts : IsPart(s, parts[n]),
         NEW items, items = Items_of(s, parts)
  PROVE  \E b, e : IsLayout(b, e, s, parts, items)
<1>. DEFINE N == Len(parts)
            K == Len(s) + 1
            block(n, k) == Block(s, parts[n], k)
            elements(n, k) == {block(n, k)[j] : j \in DOMAIN block(n, k)}
            X == UNION {UNION {elements(n, k) : k \in 1..K} : n \in 1..N}
            wholes == [n \in DOMAIN parts |-> PartItems(s, parts[n])]
<1>1. N \in Nat /\ N = Len(parts) /\ DOMAIN parts = 1..N /\ K \in Nat /\ K = Len(s) + 1 /\ K - 1 \in Nat
  BY DEF IsSchema
<1>. HIDE DEF N, K
<1>2. ASSUME NEW n \in 1..N, NEW k \in 1..K
      PROVE  block(n, k) \in Seq(elements(n, k)) /\ block(n, k) \in Seq(X)
  <2>1. block(n, k) \in Seq(elements(n, k))
    BY <1>1, BlockIs DEF IsList
  <2>. HIDE DEF block, elements
  <2>2. elements(n, k) \subseteq X
    OBVIOUS
  <2>. HIDE DEF X
  <2>. QED BY <2>1, <2>2
<1>. HIDE DEF X
<1>3. ASSUME NEW n \in 1..N
      PROVE  /\ PartItems(s, parts[n]) \in Seq(X)
             /\ \E at : EndsOf(at, Blocks(s, parts[n])) /\ LaidAs(at, Blocks(s, parts[n]), PartItems(s, parts[n]))
  <2>1. \A k \in 1..Len(s) + 1 : Block(s, parts[n], k) \in Seq(X)
    BY <1>1, <1>2
  <2>. QED BY <2>1, PartLaid
<1>. HIDE DEF block
<1>. DEFINE ends == [n \in 1..N |-> CHOOSE at : EndsOf(at, Blocks(s, parts[n])) /\ LaidAs(at, Blocks(s, parts[n]), PartItems(s, parts[n]))]
<1>4. ASSUME NEW n \in 1..N
      PROVE  EndsOf(ends[n], Blocks(s, parts[n])) /\ LaidAs(ends[n], Blocks(s, parts[n]), PartItems(s, parts[n]))
  BY <1>3
<1>. HIDE DEF ends
<1>5. ASSUME NEW n \in 1..N
      PROVE  /\ ends[n] \in [0..K -> Nat] /\ ends[n][0] = 0 /\ Len(PartItems(s, parts[n])) = ends[n][K]
             /\ \A k \in 1..K : ends[n][k] = ends[n][k - 1] + Len(block(n, k)) /\ ends[n][k] <= ends[n][K]
             /\ \A k \in 1..K : \A j \in 1..Len(block(n, k)) : PartItems(s, parts[n])[ends[n][k - 1] + j] = block(n, k)[j]
             /\ \A p \in 1..ends[n][K] : \E k \in 1..K : \E j \in 1..Len(block(n, k)) : p = ends[n][k - 1] + j
  <2>. DEFINE blocks == Blocks(s, parts[n])
  <2>1. Len(blocks) = K /\ \A k \in 1..K : blocks[k] = block(n, k)
    BY <1>1 DEF Blocks, block
  <2>2. EndsOf(ends[n], blocks) /\ LaidAs(ends[n], blocks, PartItems(s, parts[n]))
    BY <1>4
  <2>. HIDE DEF blocks
  <2>3. /\ ends[n] \in [0..K -> Nat] /\ ends[n][0] = 0
        /\ \A k \in 1..K : ends[n][k] = ends[n][k - 1] + Len(blocks[k])
    BY <2>1, <2>2 DEF EndsOf
  <2>4. /\ Len(PartItems(s, parts[n])) = ends[n][K]
        /\ \A k \in 1..K : ends[n][k] <= ends[n][K]
        /\ \A k \in 1..K : \A j \in 1..Len(blocks[k]) : PartItems(s, parts[n])[ends[n][k - 1] + j] = blocks[k][j]
        /\ \A p \in 1..ends[n][K] : \E k \in 1..K : \E j \in 1..Len(blocks[k]) : p = ends[n][k - 1] + j
    BY <2>1, <2>2 DEF LaidAs
  <2>. QED BY <2>1, <2>3, <2>4
<1>6. wholes \in Seq(Seq(X)) /\ Len(wholes) = N /\ \A n \in 1..N : wholes[n] = PartItems(s, parts[n])
  <2>1. wholes = [n \in 1..N |-> PartItems(s, parts[n])]
    BY <1>1
  <2>2. \A n \in 1..N : PartItems(s, parts[n]) \in Seq(X)
    BY <1>3
  <2>. HIDE DEF wholes
  <2>. QED BY <1>1, <2>1, <2>2
<1>7. items = FlattenSeq(wholes)
  BY DEF Items_of
<1>. HIDE DEF wholes
<1>8. items \in Seq(X) /\ \E at : EndsOf(at, wholes) /\ LaidAs(at, wholes, items)
  BY <1>6, <1>7, Flattened
<1>9. PICK at : EndsOf(at, wholes) /\ LaidAs(at, wholes, items)
  BY <1>8
<1>10. /\ at \in [0..N -> Nat] /\ at[0] = 0 /\ Len(items) = at[N]
       /\ \A n \in 1..N : at[n] = at[n - 1] + ends[n][K] /\ at[n] <= at[N]
       /\ \A n \in 1..N : \A r \in 1..ends[n][K] : items[at[n - 1] + r] = PartItems(s, parts[n])[r]
       /\ \A p \in 1..at[N] : \E n \in 1..N : \E r \in 1..ends[n][K] : p = at[n - 1] + r
  <2>1. /\ at \in [0..N -> Nat] /\ at[0] = 0
        /\ \A n \in 1..N : at[n] = at[n - 1] + Len(wholes[n])
    BY <1>6, <1>9 DEF EndsOf
  <2>2. /\ Len(items) = at[N] /\ \A n \in 1..N : at[n] <= at[N]
        /\ \A n \in 1..N : \A r \in 1..Len(wholes[n]) : items[at[n - 1] + r] = wholes[n][r]
        /\ \A p \in 1..at[N] : \E n \in 1..N : \E r \in 1..Len(wholes[n]) : p = at[n - 1] + r
    BY <1>6, <1>9 DEF LaidAs
  <2>3. \A n \in 1..N : wholes[n] = PartItems(s, parts[n]) /\ Len(wholes[n]) = ends[n][K]
    BY <1>5, <1>6
  <2>4. \A n \in 1..N : at[n] = at[n - 1] + ends[n][K] /\ at[n] <= at[N]
    BY <2>1, <2>2, <2>3
  <2>5. \A n \in 1..N : \A r \in 1..ends[n][K] : items[at[n - 1] + r] = PartItems(s, parts[n])[r]
    BY <2>2, <2>3
  <2>6. \A p \in 1..at[N] : \E n \in 1..N : \E r \in 1..ends[n][K] : p = at[n - 1] + r
    BY <2>2, <2>3
  <2>. QED BY <2>1, <2>2, <2>4, <2>5, <2>6
<1>. DEFINE len(n, k) == Len(block(n, k))
            b == [k \in 1..K |-> [n \in 1..N + 1 |-> IF n = N + 1 THEN at[N] ELSE at[n - 1] + ends[n][k - 1]]]
            e == [k \in 1..K |-> [n \in 0..N |-> IF n = 0 THEN 0 ELSE at[n - 1] + ends[n][k]]]
<1>11. ASSUME NEW k \in 1..K, NEW n \in 1..N
       PROVE  /\ at[n - 1] \in Nat /\ at[n] \in Nat /\ ends[n][k - 1] \in Nat /\ ends[n][k] \in Nat /\ ends[n][K] \in Nat
              /\ at[n] = at[n - 1] + ends[n][K]
              /\ ends[n][k] = ends[n][k - 1] + len(n, k) /\ ends[n][k] <= ends[n][K] /\ len(n, k) \in Nat
  <2>1. n - 1 \in 0..N /\ n \in 0..N /\ k - 1 \in 0..K /\ k \in 0..K /\ K \in 0..K
    BY <1>1
  <2>2. len(n, k) \in Nat
    <3>1. block(n, k) \in Seq(X)
      BY <1>2
    <3>. QED BY <3>1
  <2>. HIDE DEF len
  <2>3. at[n - 1] \in Nat /\ at[n] \in Nat /\ ends[n][k - 1] \in Nat /\ ends[n][k] \in Nat /\ ends[n][K] \in Nat
    BY <1>5, <1>10, <2>1
  <2>4. at[n] = at[n - 1] + ends[n][K] /\ ends[n][k] = ends[n][k - 1] + len(n, k) /\ ends[n][k] <= ends[n][K]
    BY <1>5, <1>10 DEF len
  <2>. QED BY <2>2, <2>3, <2>4
<1>12. ASSUME NEW k \in 1..K, NEW n \in 1..N
       PROVE  b[k][n] = at[n - 1] + ends[n][k - 1] /\ e[k][n] = at[n - 1] + ends[n][k] /\ e[k][n] = b[k][n] + len(n, k)
  <2>1. n \in 1..N + 1 /\ n \in 0..N /\ n # N + 1 /\ n # 0
    BY <1>1
  <2>2. b[k][n] = at[n - 1] + ends[n][k - 1] /\ e[k][n] = at[n - 1] + ends[n][k]
    BY <2>1
  <2>. HIDE DEF b, e, len
  <2>3. /\ at[n - 1] \in Nat /\ ends[n][k - 1] \in Nat /\ len(n, k) \in Nat
        /\ ends[n][k] = ends[n][k - 1] + len(n, k)
    BY <1>11, Zenon
  <2>. QED BY <2>2, <2>3
<1>13. ASSUME NEW k \in 1..K PROVE e[k][0] = 0 /\ b[k][N + 1] = at[N] /\ b[k] \in [1..N + 1 -> Nat] /\ e[k] \in [0..N -> Nat]
  <2>1. 0 \in 0..N /\ N + 1 \in 1..N + 1 /\ at[N] \in Nat
    BY <1>1, <1>10
  <2>2. \A n \in 1..N + 1 : n = N + 1 \/ n \in 1..N
    BY <1>1
  <2>3. \A n \in 0..N : n = 0 \/ n \in 1..N
    BY <1>1
  <2>4. ASSUME NEW n \in 1..N PROVE at[n - 1] + ends[n][k - 1] \in Nat /\ at[n - 1] + ends[n][k] \in Nat
    <3>1. at[n - 1] \in Nat /\ ends[n][k - 1] \in Nat /\ ends[n][k] \in Nat
      BY <1>11
    <3>. HIDE DEF b, e, len
    <3>. QED BY <3>1, SMTT(30)
  <2>. QED BY <2>1, <2>2, <2>3, <2>4
<1>. HIDE DEF b, e, len
<1>14. ASSUME NEW k \in 1..K, NEW n \in 1..N + 1 PROVE e[k][n - 1] <= b[k][n]
  <2>1. n - 1 \in 0..N /\ at[n - 1] \in Nat
    <3>1. n - 1 \in 0..N
      BY <1>1
    <3>2. at \in [0..N -> Nat]
      BY <1>10
    <3>. QED BY <3>1, <3>2
  <2>2. e[k][n - 1] <= at[n - 1] /\ e[k][n - 1] \in Nat
    <3>1. CASE n = 1
      BY <1>10, <1>13, <3>1, <2>1
    <3>2. CASE n # 1
      <4>1. PICK m \in 1..N : m = n - 1
        BY <1>1, <3>2
      <4>2. e[k][m] = at[m - 1] + ends[m][k] /\ e[k][m] <= at[m] /\ e[k][m] \in Nat
        <5>1. /\ at[m - 1] \in Nat /\ ends[m][k] \in Nat /\ ends[m][K] \in Nat
              /\ at[m] = at[m - 1] + ends[m][K] /\ ends[m][k] <= ends[m][K]
          BY <1>11
        <5>2. e[k][m] = at[m - 1] + ends[m][k]
          BY <1>12
        <5>. QED BY <5>1, <5>2
      <4>. QED BY <4>1, <4>2
    <3>. QED BY <3>1, <3>2
  <2>3. at[n - 1] <= b[k][n] /\ b[k][n] \in Nat
    <3>1. CASE n = N + 1
      BY <1>1, <1>10, <1>13, <2>1, <3>1
    <3>2. CASE n # N + 1
      <4>1. n \in 1..N
        BY <1>1, <3>2
      <4>2. at[n - 1] \in Nat /\ ends[n][k - 1] \in Nat
        BY <1>11, <4>1
      <4>3. b[k][n] = at[n - 1] + ends[n][k - 1]
        BY <1>12, <4>1
      <4>. QED BY <4>2, <4>3
    <3>. QED BY <3>1, <3>2
  <2>. QED BY <2>1, <2>2, <2>3
<1>15. ASSUME NEW k \in 1..K, NEW n \in 1..N, NEW j \in 1..len(n, k) PROVE items[b[k][n] + j] = block(n, k)[j]
  <2>. DEFINE r == ends[n][k - 1] + j
  <2>0. /\ at[n - 1] \in Nat /\ ends[n][k - 1] \in Nat /\ ends[n][k] \in Nat /\ ends[n][K] \in Nat /\ len(n, k) \in Nat
        /\ ends[n][k] = ends[n][k - 1] + len(n, k) /\ ends[n][k] <= ends[n][K]
    BY <1>11
  <2>1. r \in 1..ends[n][K] /\ r = ends[n][k - 1] + j
    BY <2>0, WithinBlock, Zenon
  <2>2. b[k][n] + j = at[n - 1] + r
    <3>1. b[k][n] = at[n - 1] + ends[n][k - 1]
      BY <1>12
    <3>. QED BY <2>0, <3>1
  <2>. HIDE DEF r
  <2>3. items[at[n - 1] + r] = PartItems(s, parts[n])[r] /\ PartItems(s, parts[n])[r] = block(n, k)[j]
    BY <1>5, <1>10, <2>1 DEF len
  <2>. QED BY <2>2, <2>3
<1>16. ASSUME NEW p \in 1..Len(items)
       PROVE  \E k \in 1..K, n \in 1..N : \E j \in 1..len(n, k) : p = b[k][n] + j
  <2>1. PICK n \in 1..N : \E r \in 1..ends[n][K] : p = at[n - 1] + r
    <3>1. Len(items) = at[N]
      BY <1>10
    <3>2. p \in 1..at[N]
      BY <3>1, Zenon
    <3>3. \A q \in 1..at[N] : \E n \in 1..N : \E r \in 1..ends[n][K] : q = at[n - 1] + r
      BY <1>10, Zenon
    <3>. QED BY <3>2, <3>3, Zenon
  <2>2. PICK r \in 1..ends[n][K] : p = at[n - 1] + r
    BY <2>1
  <2>3. PICK k \in 1..K : \E j \in 1..len(n, k) : r = ends[n][k - 1] + j
    BY <1>5 DEF len
  <2>4. PICK j \in 1..len(n, k) : r = ends[n][k - 1] + j
    BY <2>3
  <2>5. p = b[k][n] + j
    <3>1. at[n - 1] \in Nat /\ ends[n][k - 1] \in Nat /\ len(n, k) \in Nat
      BY <1>11
    <3>2. b[k][n] = at[n - 1] + ends[n][k - 1]
      BY <1>12
    <3>3. j \in Nat
      BY <3>1
    <3>4. p = at[n - 1] + (ends[n][k - 1] + j)
      BY <2>2, <2>4
    <3>. QED BY <3>1, <3>2, <3>3, <3>4, SMTT(30)
  <2>. QED BY <2>5
<1>17. IsList(items)
  BY <1>8 DEF IsList
<1>18. ASSUME NEW k \in 1..K, NEW n \in 1..N
       PROVE  /\ IsList(Block(s, parts[n], k))
              /\ e[k][n] = b[k][n] + Len(Block(s, parts[n], k))
              /\ \A j \in 1..Len(Block(s, parts[n], k)) : items[b[k][n] + j] = Block(s, parts[n], k)[j]
  BY <1>2, <1>12, <1>15 DEF len, block, IsList
<1>19. \A p \in 1..Len(items) : \E k \in 1..K, n \in 1..N : \E j \in 1..Len(Block(s, parts[n], k)) : p = b[k][n] + j
  BY <1>16 DEF len, block
<1>20. Len(items) = at[N]
  BY <1>10
<1>21. IsLayout(b, e, s, parts, items)
  BY <1>1, <1>13, <1>14, <1>17, <1>18, <1>19, <1>20 DEF IsLayout
<1>. QED BY <1>21

\* All that parts are made of.
LEMMA TextsExist ==
  ASSUME NEW s, IsSchema(s), NEW Y, NEW parts \in Seq(Y), \A n \in DOMAIN parts : IsPart(s, parts[n])
  PROVE  \E T : HasDefaults(T) /\ PartsOf(T, s, parts)
<1>. DEFINE texts(kind, v) ==
              IF kind = "strings" THEN {v[j] : j \in DOMAIN v}
              ELSE IF kind = "map" THEN DOMAIN v \cup {v[key] : key \in DOMAIN v} ELSE {v}
            of(n, k) == texts(s[k], parts[n].msg[k])
            T == {Default(kind) : kind \in Kinds} \cup UNION {UNION {of(n, k) : k \in DOMAIN s} : n \in DOMAIN parts}
<1>1. HasDefaults(T)
  BY DEF HasDefaults, Kinds
<1>2. ASSUME NEW n \in DOMAIN parts, NEW k \in DOMAIN s PROVE of(n, k) \subseteq T
  <2>. HIDE DEF of
  <2>. QED OBVIOUS
<1>. HIDE DEF T
<1>3. ASSUME NEW kind \in Kinds, NEW v, IsValue(kind, v), texts(kind, v) \subseteq T PROVE IsOf(T, kind, v)
  <2>1. CASE kind = "strings"
    <3>. DEFINE range == {v[j] : j \in DOMAIN v}
    <3>1. range \subseteq T /\ v \in Seq(range)
      BY <1>3, <2>1 DEF IsValue, IsList
    <3>. HIDE DEF range
    <3>2. v \in Seq(T)
      BY <3>1
    <3>. QED BY <2>1, <3>2 DEF IsOf
  <2>2. CASE kind = "map"
    <3>1. DOMAIN v \subseteq T /\ (\A key \in DOMAIN v : v[key] \in T) /\ IsFiniteSet(DOMAIN v) /\ v = [key \in DOMAIN v |-> v[key]]
      BY <1>3, <2>2 DEF IsValue
    <3>2. v \in [DOMAIN v -> T]
      BY <3>1
    <3>. QED BY <2>2, <3>1, <3>2 DEF IsOf
  <2>3. CASE kind \in {"float", "uint64", "string"}
    BY <1>3, <2>3 DEF IsOf
  <2>. QED BY <2>1, <2>2, <2>3 DEF Kinds
<1>. HIDE DEF texts
<1>4. ASSUME NEW n \in DOMAIN parts, NEW k \in DOMAIN s PROVE IsOf(T, s[k], parts[n].msg[k])
  <2>1. s[k] \in Kinds /\ IsValue(s[k], parts[n].msg[k])
    <3>1. s[k] \in Kinds
      BY DEF IsSchema
    <3>2. IsPart(s, parts[n])
      OBVIOUS
    <3>. QED BY <3>1, <3>2 DEF IsPart
  <2>2. texts(s[k], parts[n].msg[k]) \subseteq T
    BY <1>2
  <2>. QED BY <1>3, <2>1, <2>2
<1>5. PartsOf(T, s, parts)
  BY <1>4 DEF PartsOf
<1>. QED BY <1>1, <1>5

\* What stands at a place.
InStretch(b, e, k, n, p) == b[k][n] < p /\ p <= e[k][n]

LEMMA FromStretch == \A a, c, l, p \in Nat : a < p /\ p <= c /\ c = a + l => p - a \in 1..l /\ p = a + (p - a)
OBVIOUS

LEMMA InBlock ==
  ASSUME NEW s, IsSchema(s), NEW parts, Len(parts) \in Nat, NEW items, NEW b, NEW e, IsLayout(b, e, s, parts, items),
         NEW p \in Nat, NEW k \in 1..Len(s) + 1, NEW n \in 1..Len(parts), InStretch(b, e, k, n, p)
  PROVE  /\ p - b[k][n] \in 1..Len(Block(s, parts[n], k)) /\ b[k][n] \in Nat /\ e[k][n] \in Nat
         /\ items[p] = Block(s, parts[n], k)[p - b[k][n]]
<1>. DEFINE block == Block(s, parts[n], k)
<1>1. /\ IsList(block)
      /\ e[k][n] = b[k][n] + Len(block)
      /\ \A j \in 1..Len(block) : items[b[k][n] + j] = block[j]
  BY DEF IsLayout
<1>2. b[k] \in [1..Len(parts) + 1 -> Nat] /\ n \in 1..Len(parts) + 1
  BY DEF IsLayout
<1>3. Len(block) \in Nat
  BY <1>1 DEF IsList
<1>. HIDE DEF block
<1>4. b[k][n] \in Nat
  BY <1>2
<1>. DEFINE j == p - b[k][n]
<1>5. j \in 1..Len(block) /\ p = b[k][n] + j /\ e[k][n] \in Nat
  <2>1. b[k][n] < p /\ p <= e[k][n] /\ e[k][n] = b[k][n] + Len(block) /\ e[k][n] \in Nat
    BY <1>1, <1>3, <1>4 DEF InStretch
  <2>. QED BY <1>3, <1>4, <2>1, FromStretch, ZenonT(60)
<1>. HIDE DEF j
<1>6. items[p] = block[j]
  BY <1>1, <1>5
<1>. QED BY <1>4, <1>5, <1>6 DEF j, block

LEMMA FieldItem ==
  ASSUME NEW s, IsSchema(s), NEW part, IsPart(s, part), NEW k \in DOMAIN s, NEW j \in 1..Len(Block(s, part, k))
  PROVE  Block(s, part, k)[j].num = k /\ IsKnown(s, Block(s, part, k)[j])
<1>1. s[k] \in Kinds /\ IsValue(s[k], part.msg[k])
  BY DEF IsSchema, IsPart
<1>2. PICK items : items = ItemsOf(k, s[k], part.msg[k])
  OBVIOUS
<1>3. \A r \in 1..Len(items) : items[r].num = k /\ items[r].wire = Wire(s[k])
  BY <1>1, <1>2, ItemsAre
<1>4. Block(s, part, k) = items
  BY <1>2 DEF Block
<1>. QED BY <1>3, <1>4 DEF IsKnown

LEMMA ForeignItem ==
  ASSUME NEW s, IsSchema(s), NEW part, IsPart(s, part), NEW j \in 1..Len(Block(s, part, Len(s) + 1))
  PROVE  ~IsKnown(s, Block(s, part, Len(s) + 1)[j])
<1>1. Len(s) + 1 \notin DOMAIN s
  BY DEF IsSchema
<1>2. Block(s, part, Len(s) + 1) = part.foreign
  BY <1>1 DEF Block
<1>3. DOMAIN part.foreign = 1..Len(part.foreign)
  BY DEF IsPart, IsList
<1>. QED BY <1>2, <1>3 DEF IsPart

\* An item that is known is of the field that it names, and of no other.
LEMMA PlaceIs ==
  ASSUME NEW s, IsSchema(s), NEW parts, Len(parts) \in Nat, \A n \in 1..Len(parts) : IsPart(s, parts[n]),
         NEW items, NEW b, NEW e, IsLayout(b, e, s, parts, items), NEW p \in 1..Len(items)
  PROVE  /\ \A k \in DOMAIN s : \A n \in 1..Len(parts) : InStretch(b, e, k, n, p) => IsKnown(s, items[p]) /\ items[p].num = k
         /\ \A n \in 1..Len(parts) : InStretch(b, e, Len(s) + 1, n, p) => ~IsKnown(s, items[p])
         /\ IsKnown(s, items[p]) => \E n \in 1..Len(parts) : InStretch(b, e, items[p].num, n, p)
         /\ ~IsKnown(s, items[p]) => \E n \in 1..Len(parts) : InStretch(b, e, Len(s) + 1, n, p)
<1>1. Len(s) \in Nat /\ DOMAIN s = 1..Len(s) /\ Len(s) + 1 \in 1..Len(s) + 1 /\ p \in Nat
  BY DEF IsSchema
<1>2. ASSUME NEW k \in DOMAIN s, NEW n \in 1..Len(parts), InStretch(b, e, k, n, p)
      PROVE  IsKnown(s, items[p]) /\ items[p].num = k
  <2>1. k \in 1..Len(s) + 1
    BY <1>1
  <2>2. p - b[k][n] \in 1..Len(Block(s, parts[n], k)) /\ items[p] = Block(s, parts[n], k)[p - b[k][n]]
    BY <1>1, <1>2, <2>1, InBlock
  <2>. QED BY <2>2, FieldItem
<1>3. ASSUME NEW n \in 1..Len(parts), InStretch(b, e, Len(s) + 1, n, p) PROVE ~IsKnown(s, items[p])
  <2>1. p - b[Len(s) + 1][n] \in 1..Len(Block(s, parts[n], Len(s) + 1)) /\ items[p] = Block(s, parts[n], Len(s) + 1)[p - b[Len(s) + 1][n]]
    BY <1>1, <1>3, InBlock
  <2>. QED BY <2>1, ForeignItem
<1>4. PICK k \in 1..Len(s) + 1, n \in 1..Len(parts) : InStretch(b, e, k, n, p)
  <2>1. PICK k \in 1..Len(s) + 1, n \in 1..Len(parts) : \E j \in 1..Len(Block(s, parts[n], k)) : p = b[k][n] + j
    BY DEF IsLayout
  <2>2. PICK j \in 1..Len(Block(s, parts[n], k)) : p = b[k][n] + j
    BY <2>1
  <2>. DEFINE block == Block(s, parts[n], k)
  <2>3. IsList(block) /\ e[k][n] = b[k][n] + Len(block) /\ b[k] \in [1..Len(parts) + 1 -> Nat]
    BY DEF IsLayout
  <2>4. Len(block) \in Nat /\ b[k][n] \in Nat
    BY <2>3 DEF IsList
  <2>5. j \in 1..Len(block)
    OBVIOUS
  <2>. HIDE DEF block
  <2>6. b[k][n] < p /\ p <= e[k][n]
    <3>1. e[k][n] = b[k][n] + Len(block)
      BY <2>3
    <3>. QED BY <2>2, <2>4, <2>5, <3>1, SMTT(30)
  <2>. QED BY <2>6 DEF InStretch
<1>5. k \in DOMAIN s \/ k = Len(s) + 1
  BY <1>1
<1>. QED BY <1>2, <1>3, <1>4, <1>5

-----------------------------------------------------------------------------
(* Reading one field, and what no field is for.                            *)

\* What the peer's messages, and the parts' foreign items, come to part by part.
MergesOf(s, parts, k) == [n \in 0..Len(parts) |-> MergedUpto(s, parts, n)[k]]
ForeignOf(parts) == FlattenSeq([n \in DOMAIN parts |-> parts[n].foreign])

FieldLane(P, b, e, s, parts, items, k) ==
  /\ IsLane(Len(parts), Len(items), b[k], e[k], MergesOf(s, parts, k), P)
  /\ \A n \in 1..Len(parts) : \A j \in 1..Len(Block(s, parts[n], k)) :
       P[n][j] = Stored(s[k], P[n][j - 1], Block(s, parts[n], k)[j].val)

ForeignLane(M, P, b, e, s, parts, items) ==
  /\ M[0] = <<>> /\ M[Len(parts)] = ForeignOf(parts)
  /\ IsLane(Len(parts), Len(items), b[Len(s) + 1], e[Len(s) + 1], M, P)
  /\ \A n \in 1..Len(parts) : \A j \in 1..Len(Block(s, parts[n], Len(s) + 1)) :
       P[n][j] = Append(P[n][j - 1], Block(s, parts[n], Len(s) + 1)[j])

LEMMA LaneIs ==
  ASSUME NEW s, IsSchema(s), NEW Y, NEW parts \in Seq(Y), NEW items, NEW b, NEW e, IsLayout(b, e, s, parts, items),
         NEW k \in 1..Len(s) + 1, NEW M, NEW P,
         \A n \in 1..Len(parts) : P[n][0] = M[n - 1] /\ P[n][Len(Block(s, parts[n], k))] = M[n]
  PROVE  IsLane(Len(parts), Len(items), b[k], e[k], M, P)
<1>. DEFINE N == Len(parts)
            length == Len(items)
            len(n) == Len(Block(s, parts[n], k))
<1>1. N \in Nat /\ length \in Nat
  BY DEF IsLayout, IsList
<1>2. /\ b[k] \in [1..N + 1 -> Nat] /\ e[k] \in [0..N -> Nat]
      /\ e[k][0] = 0 /\ b[k][N + 1] = length
      /\ \A n \in 1..N + 1 : e[k][n - 1] <= b[k][n]
  BY DEF IsLayout
<1>3. \A n \in 1..N : IsList(Block(s, parts[n], k)) /\ e[k][n] = b[k][n] + len(n)
  BY DEF IsLayout
<1>4. \A n \in 1..N : len(n) \in Nat
  BY <1>3 DEF IsList
<1>5. \A n \in 1..N : P[n][0] = M[n - 1] /\ P[n][len(n)] = M[n]
  OBVIOUS
<1>. HIDE DEF N, length, len
<1>6. ASSUME NEW n \in 1..N PROVE b[k][n] <= e[k][n] /\ e[k][n] - b[k][n] = len(n)
  <2>1. b[k][n] \in Nat
    <3>1. n \in 1..N + 1
      BY <1>1
    <3>. QED BY <1>2, <3>1
  <2>2. e[k][n] = b[k][n] + len(n) /\ len(n) \in Nat
    BY <1>3, <1>4
  <2>. QED BY <2>1, <2>2
<1>7. IsLane(N, length, b[k], e[k], M, P)
  BY <1>1, <1>2, <1>5, <1>6 DEF IsLane
<1>. QED BY <1>7 DEF N, length

LEMMA FieldLaneExists ==
  ASSUME NEW s, IsSchema(s), NEW Y, NEW parts \in Seq(Y), \A n \in DOMAIN parts : IsPart(s, parts[n]),
         NEW items, NEW b, NEW e, IsLayout(b, e, s, parts, items), NEW k \in DOMAIN s
  PROVE  \E P : FieldLane(P, b, e, s, parts, items, k)
<1>. DEFINE N == Len(parts)
            M == MergesOf(s, parts, k)
            of(n) == parts[n].msg[k]
            block(n) == Block(s, parts[n], k)
<1>1. N \in Nat /\ DOMAIN parts = 1..N /\ s[k] \in Kinds /\ k \in 1..Len(s) + 1 /\ N = Len(parts)
  BY DEF IsSchema
<1>2. PICK T : HasDefaults(T) /\ PartsOf(T, s, parts)
  BY TextsExist
<1>3. /\ \A n \in 1..N : MergedUpto(s, parts, n) = MergeFrom(s, MergedUpto(s, parts, n - 1), parts[n].msg)
      /\ \A n \in 0..N : MergedUpto(s, parts, n) \in Messages_of(T, s)
  BY <1>2, MergesOn
<1>. HIDE DEF N
<1>4. \A n \in 0..N : M[n] = MergedUpto(s, parts, n)[k]
  BY <1>1 DEF MergesOf
<1>. HIDE DEF M
<1>5. ASSUME NEW n \in 1..N PROVE \E f : Stores(f, s[k], M[n - 1], of(n), block(n)) /\ Merged(s[k], M[n - 1], of(n)) = M[n]
  <2>1. n - 1 \in 0..N /\ n \in 0..N
    BY <1>1
  <2>2. IsOf(T, s[k], M[n - 1])
    BY <1>3, <1>4, <2>1 DEF Messages_of
  <2>3. IsOf(T, s[k], of(n))
    BY <1>1, <1>2 DEF PartsOf
  <2>4. IsValue(s[k], of(n))
    <3>1. IsPart(s, parts[n])
      BY <1>1
    <3>. QED BY <3>1 DEF IsPart
  <2>5. block(n) = ItemsOf(k, s[k], of(n))
    BY DEF Block
  <2>6. Merged(s[k], M[n - 1], of(n)) = M[n]
    <3>1. MergedUpto(s, parts, n)[k] = Merged(s[k], MergedUpto(s, parts, n - 1)[k], of(n))
      BY <1>3 DEF MergeFrom
    <3>. QED BY <1>4, <2>1, <3>1
  <2>. HIDE DEF of, block
  <2>. QED BY <1>1, <2>2, <2>3, <2>4, <2>5, <2>6, ItemsStore
<1>. HIDE DEF of, block
<1>. DEFINE P == [n \in 1..N |-> CHOOSE f : Stores(f, s[k], M[n - 1], of(n), block(n))]
<1>6. ASSUME NEW n \in 1..N PROVE Stores(P[n], s[k], M[n - 1], of(n), block(n)) /\ Merged(s[k], M[n - 1], of(n)) = M[n]
  BY <1>5
<1>. HIDE DEF P
<1>7. ASSUME NEW n \in 1..N
      PROVE  /\ P[n][0] = M[n - 1] /\ P[n][Len(block(n))] = M[n]
             /\ \A j \in 1..Len(block(n)) : P[n][j] = Stored(s[k], P[n][j - 1], block(n)[j].val)
  BY <1>6 DEF Stores
<1>8. /\ \A n \in 1..Len(parts) : P[n][0] = M[n - 1] /\ P[n][Len(Block(s, parts[n], k))] = M[n]
      /\ \A n \in 1..Len(parts) : \A j \in 1..Len(Block(s, parts[n], k)) :
           P[n][j] = Stored(s[k], P[n][j - 1], Block(s, parts[n], k)[j].val)
  BY <1>1, <1>7 DEF block
<1>9. IsLane(Len(parts), Len(items), b[k], e[k], M, P)
  BY <1>1, <1>8, LaneIs, Zenon
<1>10. FieldLane(P, b, e, s, parts, items, k)
  BY <1>8, <1>9 DEF FieldLane, M
<1>. QED BY <1>10

LEMMA ForeignLaneExists ==
  ASSUME NEW s, IsSchema(s), NEW Y, NEW parts \in Seq(Y), \A n \in DOMAIN parts : IsPart(s, parts[n]),
         NEW items, NEW b, NEW e, IsLayout(b, e, s, parts, items)
  PROVE  \E M, P : ForeignLane(M, P, b, e, s, parts, items)
<1>. DEFINE N == Len(parts)
            K == Len(s) + 1
            seqs == [n \in DOMAIN parts |-> parts[n].foreign]
            elements(n) == {parts[n].foreign[j] : j \in DOMAIN parts[n].foreign}
            X == UNION {elements(n) : n \in 1..N}
<1>1. N \in Nat /\ DOMAIN parts = 1..N /\ K \in 1..Len(s) + 1 /\ N = Len(parts) /\ K \notin DOMAIN s
  BY DEF IsSchema
<1>. HIDE DEF N
<1>2. ASSUME NEW n \in 1..N PROVE Block(s, parts[n], K) = parts[n].foreign /\ parts[n].foreign \in Seq(X)
  <2>1. IsList(parts[n].foreign)
    <3>1. IsPart(s, parts[n])
      BY <1>1
    <3>. QED BY <3>1 DEF IsPart
  <2>2. parts[n].foreign \in Seq(elements(n))
    BY <2>1 DEF IsList
  <2>. HIDE DEF elements
  <2>3. elements(n) \subseteq X
    OBVIOUS
  <2>. HIDE DEF X
  <2>4. parts[n].foreign \in Seq(X)
    BY <2>2, <2>3
  <2>. QED BY <1>1, <2>4 DEF Block
<1>. HIDE DEF X
<1>3. seqs \in Seq(Seq(X)) /\ Len(seqs) = N /\ \A n \in 1..N : seqs[n] = parts[n].foreign
  <2>1. seqs = [n \in 1..N |-> parts[n].foreign]
    BY <1>1
  <2>2. \A n \in 1..N : parts[n].foreign \in Seq(X)
    BY <1>2
  <2>. HIDE DEF seqs
  <2>. QED BY <1>1, <2>1, <2>2
<1>4. FlattenSeq(seqs) = ForeignOf(parts)
  BY DEF ForeignOf
<1>. HIDE DEF seqs
<1>5. PICK M \in [0..N -> Seq(X)] :
           /\ M[0] = <<>> /\ FlattenSeq(seqs) = M[N]
           /\ \A n \in 1..N : M[n] = M[n - 1] \o seqs[n]
  <2>1. seqs \in Seq(Seq(X)) /\ Len(seqs) = N
    BY <1>3
  <2>2. \E h \in [0..Len(seqs) -> Seq(X)] :
           /\ h[0] = <<>> /\ FlattenSeq(seqs) = h[Len(seqs)]
           /\ \A n \in 1..Len(seqs) : h[n] = h[n - 1] \o seqs[n]
    BY <2>1, FlattenSteps, Zenon
  <2>. QED BY <2>1, <2>2, Zenon
<1>6. ASSUME NEW n \in 1..N PROVE \E f : Appends(f, M[n - 1], seqs[n], M[n])
  <2>1. n - 1 \in 0..N
    BY <1>1
  <2>2. M[n - 1] \in Seq(X) /\ seqs[n] \in Seq(X) /\ M[n] = M[n - 1] \o seqs[n]
    BY <1>2, <1>3, <1>5, <2>1
  <2>. QED BY <2>2, Appending, Zenon
<1>. DEFINE P == [n \in 1..N |-> CHOOSE f : Appends(f, M[n - 1], seqs[n], M[n])]
<1>7. \A n \in 1..N : Appends(P[n], M[n - 1], seqs[n], M[n])
  BY <1>6
<1>. HIDE DEF P
<1>8. ASSUME NEW n \in 1..Len(parts)
      PROVE  /\ P[n][0] = M[n - 1] /\ P[n][Len(Block(s, parts[n], K))] = M[n]
             /\ \A j \in 1..Len(Block(s, parts[n], K)) : P[n][j] = Append(P[n][j - 1], Block(s, parts[n], K)[j])
  <2>1. n \in 1..N
    BY <1>1
  <2>2. seqs[n] = Block(s, parts[n], K)
    BY <1>2, <1>3, <2>1
  <2>3. Appends(P[n], M[n - 1], Block(s, parts[n], K), M[n])
    BY <1>7, <2>1, <2>2
  <2>. HIDE DEF K
  <2>. QED BY <2>3 DEF Appends
<1>. HIDE DEF K
<1>9. IsLane(Len(parts), Len(items), b[K], e[K], M, P)
  <2>1. K \in 1..Len(s) + 1
    BY <1>1
  <2>2. \A n \in 1..Len(parts) : P[n][0] = M[n - 1] /\ P[n][Len(Block(s, parts[n], K))] = M[n]
    BY <1>8
  <2>. QED BY <2>1, <2>2, LaneIs, Zenon
<1>10. ForeignLane(M, P, b, e, s, parts, items)
  <2>1. M[0] = <<>> /\ M[Len(parts)] = ForeignOf(parts)
    BY <1>1, <1>4, <1>5
  <2>. QED BY <1>8, <1>9, <2>1 DEF ForeignLane, K
<1>. QED BY <1>10

\* Parts of a schema, laid into items.
Laid(b, e, s, parts, items) ==
  /\ IsSchema(s) /\ IsList(parts)
  /\ \A n \in 1..Len(parts) : IsPart(s, parts[n])
  /\ IsLayout(b, e, s, parts, items)

LEMMA LaidIs ==
  ASSUME NEW b, NEW e, NEW s, NEW parts, NEW items, Laid(b, e, s, parts, items)
  PROVE  /\ IsSchema(s) /\ IsLayout(b, e, s, parts, items) /\ \A n \in 1..Len(parts) : IsPart(s, parts[n])
         /\ \A n \in DOMAIN parts : IsPart(s, parts[n])
         /\ Len(parts) \in Nat /\ Len(items) \in Nat /\ Len(s) \in Nat
         /\ \A k \in DOMAIN s : k \in 1..Len(s) + 1
         /\ \E Y : parts \in Seq(Y)
<1>1. IsSchema(s) /\ IsList(parts) /\ IsList(items)
  BY DEF Laid, IsLayout
<1>2. PICK Y : parts \in Seq(Y)
  BY <1>1 DEF IsList
<1>3. DOMAIN parts = 1..Len(parts) /\ Len(parts) \in Nat
  BY <1>2
<1>4. Len(items) \in Nat
  BY <1>1 DEF IsList
<1>5. Len(s) \in Nat /\ DOMAIN s = 1..Len(s)
  BY <1>1 DEF IsSchema
<1>. QED BY <1>2, <1>3, <1>4, <1>5 DEF Laid

\* x is what reading the items up to p makes of field k.
FieldRead(x, p, b, e, s, parts, items, k) ==
  \E P : /\ FieldLane(P, b, e, s, parts, items, k)
         /\ Read(x, p, Len(parts), b[k], e[k], MergesOf(s, parts, k), P)

LEMMA FieldBegins ==
  ASSUME NEW b, NEW e, NEW s, NEW parts, NEW items, Laid(b, e, s, parts, items), NEW k \in DOMAIN s,
         NEW x, x = Default(s[k])
  PROVE  FieldRead(x, 0, b, e, s, parts, items, k)
<1>1. PICK Y : parts \in Seq(Y)
  BY LaidIs
<1>2. IsSchema(s) /\ IsLayout(b, e, s, parts, items) /\ Len(parts) \in Nat /\ \A n \in DOMAIN parts : IsPart(s, parts[n])
  BY LaidIs
<1>3. PICK P : FieldLane(P, b, e, s, parts, items, k)
  BY <1>1, <1>2, FieldLaneExists
<1>4. PICK T : HasDefaults(T) /\ PartsOf(T, s, parts)
  BY <1>1, <1>2, TextsExist
<1>5. MergedUpto(s, parts, 0) = Clear(s)
  BY <1>1, <1>2, <1>4, MergesOn
<1>6. x = MergesOf(s, parts, k)[0]
  BY <1>2, <1>5 DEF MergesOf, Clear
<1>7. IsLane(Len(parts), Len(items), b[k], e[k], MergesOf(s, parts, k), P)
  BY <1>3 DEF FieldLane
<1>8. Read(x, 0, Len(parts), b[k], e[k], MergesOf(s, parts, k), P)
  BY <1>6, <1>7, ReadBegins, Zenon
<1>. QED BY <1>3, <1>8 DEF FieldRead

LEMMA NextInStretch ==
  \A p, q, c, d \in Nat : q = p + 1 /\ c < q /\ q <= d => c <= p /\ p <= d /\ (q - c) - 1 = p - c
OBVIOUS

\* The next item is stored, when it is the field's.
LEMMA FieldOn ==
  ASSUME NEW b, NEW e, NEW s, NEW parts, NEW items, Laid(b, e, s, parts, items), NEW k \in DOMAIN s,
         NEW p \in Nat, NEW q \in 1..Len(items), q = p + 1, NEW x, FieldRead(x, p, b, e, s, parts, items, k),
         NEW y, y = IF IsKnown(s, items[q]) /\ items[q].num = k THEN Stored(s[k], x, items[q].val) ELSE x
  PROVE  FieldRead(y, q, b, e, s, parts, items, k)
<1>1. /\ IsSchema(s) /\ IsLayout(b, e, s, parts, items) /\ Len(parts) \in Nat /\ Len(items) \in Nat
      /\ (\A n \in 1..Len(parts) : IsPart(s, parts[n])) /\ k \in 1..Len(s) + 1
  BY LaidIs
<1>2. q \in Nat
  BY <1>1
<1>3. PICK P : /\ FieldLane(P, b, e, s, parts, items, k)
               /\ Read(x, p, Len(parts), b[k], e[k], MergesOf(s, parts, k), P)
  BY DEF FieldRead
<1>4. IsLane(Len(parts), Len(items), b[k], e[k], MergesOf(s, parts, k), P)
  BY <1>3 DEF FieldLane
<1>5. /\ \A n \in 1..Len(parts) : InStretch(b, e, k, n, q) => IsKnown(s, items[q]) /\ items[q].num = k
      /\ IsKnown(s, items[q]) => \E n \in 1..Len(parts) : InStretch(b, e, items[q].num, n, q)
  BY <1>1, PlaceIs
<1>6. ASSUME NEW n \in 1..Len(parts), b[k][n] < q, q <= e[k][n] PROVE y = P[n][q - b[k][n]]
  <2>1. InStretch(b, e, k, n, q)
    BY <1>6 DEF InStretch
  <2>2. IsKnown(s, items[q]) /\ items[q].num = k
    BY <1>5, <2>1
  <2>3. /\ q - b[k][n] \in 1..Len(Block(s, parts[n], k)) /\ b[k][n] \in Nat /\ e[k][n] \in Nat
        /\ items[q] = Block(s, parts[n], k)[q - b[k][n]]
    BY <1>1, <1>2, <2>1, InBlock, SMTT(30)
  <2>4. P[n][q - b[k][n]] = Stored(s[k], P[n][(q - b[k][n]) - 1], items[q].val)
    BY <1>3, <2>3 DEF FieldLane
  <2>5. b[k][n] <= p /\ p <= e[k][n] /\ (q - b[k][n]) - 1 = p - b[k][n]
    BY <1>2, <1>6, <2>3, NextInStretch, ZenonT(60)
  <2>6. x = P[n][p - b[k][n]]
    BY <1>3, <2>5 DEF Read
  <2>. QED BY <2>2, <2>4, <2>5, <2>6
<1>7. ASSUME \A n \in 1..Len(parts) : ~(b[k][n] < q /\ q <= e[k][n]) PROVE y = x
  <2>1. \A n \in 1..Len(parts) : ~InStretch(b, e, k, n, q)
    BY <1>7 DEF InStretch
  <2>. QED BY <1>5, <2>1
<1>8. Read(y, q, Len(parts), b[k], e[k], MergesOf(s, parts, k), P)
  BY <1>2, <1>3, <1>4, <1>6, <1>7, ReadOn
<1>. QED BY <1>3, <1>8 DEF FieldRead

\* In front of an item that is not its own, it is what some of the messages merge to.
LEMMA FieldOutside ==
  ASSUME NEW b, NEW e, NEW s, NEW parts, NEW items, Laid(b, e, s, parts, items), NEW k \in DOMAIN s,
         NEW p \in Nat, NEW q \in 1..Len(items), q = p + 1, NEW x, FieldRead(x, p, b, e, s, parts, items, k),
         ~(IsKnown(s, items[q]) /\ items[q].num = k)
  PROVE  \E n \in 0..Len(parts) : x = MergedUpto(s, parts, n)[k]
<1>1. /\ IsSchema(s) /\ IsLayout(b, e, s, parts, items) /\ Len(parts) \in Nat /\ Len(items) \in Nat
      /\ (\A n \in 1..Len(parts) : IsPart(s, parts[n])) /\ k \in 1..Len(s) + 1
  BY LaidIs
<1>2. p \in 0..Len(items)
  BY <1>1
<1>3. PICK P : /\ FieldLane(P, b, e, s, parts, items, k)
               /\ Read(x, p, Len(parts), b[k], e[k], MergesOf(s, parts, k), P)
  BY DEF FieldRead
<1>4. IsLane(Len(parts), Len(items), b[k], e[k], MergesOf(s, parts, k), P)
  BY <1>3 DEF FieldLane
<1>5. \A n \in 1..Len(parts) : InStretch(b, e, k, n, q) => IsKnown(s, items[q]) /\ items[q].num = k
  BY <1>1, PlaceIs
<1>6. \A n \in 1..Len(parts) : ~(b[k][n] < p + 1 /\ p + 1 <= e[k][n])
  BY <1>5 DEF InStretch
<1>7. PICK n \in 0..Len(parts) : x = MergesOf(s, parts, k)[n]
  BY <1>2, <1>3, <1>4, <1>6, ReadOutside
<1>. QED BY <1>7 DEF MergesOf

LEMMA FieldAll ==
  ASSUME NEW b, NEW e, NEW s, NEW parts, NEW items, Laid(b, e, s, parts, items), NEW k \in DOMAIN s,
         NEW x, FieldRead(x, Len(items), b, e, s, parts, items, k)
  PROVE  x = MergedUpto(s, parts, Len(parts))[k]
<1>1. PICK P : /\ FieldLane(P, b, e, s, parts, items, k)
               /\ Read(x, Len(items), Len(parts), b[k], e[k], MergesOf(s, parts, k), P)
  BY DEF FieldRead
<1>2. IsLane(Len(parts), Len(items), b[k], e[k], MergesOf(s, parts, k), P)
  BY <1>1 DEF FieldLane
<1>3. x = MergesOf(s, parts, k)[Len(parts)]
  BY <1>1, <1>2, ReadAll, Zenon
<1>4. Len(parts) \in Nat
  BY LaidIs
<1>. QED BY <1>3, <1>4 DEF MergesOf

\* x is what reading the items up to p makes of the unknown fields.
ForeignRead(x, p, b, e, s, parts, items) ==
  \E M, P : /\ ForeignLane(M, P, b, e, s, parts, items)
            /\ Read(x, p, Len(parts), b[Len(s) + 1], e[Len(s) + 1], M, P)

LEMMA ForeignBegins ==
  ASSUME NEW b, NEW e, NEW s, NEW parts, NEW items, Laid(b, e, s, parts, items)
  PROVE  ForeignRead(<<>>, 0, b, e, s, parts, items)
<1>. DEFINE K == Len(s) + 1
<1>1. PICK Y : parts \in Seq(Y)
  BY LaidIs
<1>2. IsSchema(s) /\ IsLayout(b, e, s, parts, items) /\ \A n \in DOMAIN parts : IsPart(s, parts[n])
  BY LaidIs
<1>3. PICK M, P : ForeignLane(M, P, b, e, s, parts, items)
  BY <1>1, <1>2, ForeignLaneExists
<1>4. PICK x : x = <<>>
  OBVIOUS
<1>5. x = M[0] /\ IsLane(Len(parts), Len(items), b[K], e[K], M, P)
  BY <1>3, <1>4 DEF ForeignLane
<1>6. Read(x, 0, Len(parts), b[K], e[K], M, P)
  BY <1>5, ReadBegins, Zenon
<1>. QED BY <1>3, <1>4, <1>6 DEF ForeignRead

\* The next item is kept, when no field is its.
LEMMA ForeignOn ==
  ASSUME NEW b, NEW e, NEW s, NEW parts, NEW items, Laid(b, e, s, parts, items),
         NEW p \in Nat, NEW q \in 1..Len(items), q = p + 1, NEW x, ForeignRead(x, p, b, e, s, parts, items),
         NEW y, y = IF IsKnown(s, items[q]) THEN x ELSE Append(x, items[q])
  PROVE  ForeignRead(y, q, b, e, s, parts, items)
<1>. DEFINE K == Len(s) + 1
<1>1. /\ IsSchema(s) /\ IsLayout(b, e, s, parts, items) /\ Len(parts) \in Nat /\ Len(items) \in Nat
      /\ (\A n \in 1..Len(parts) : IsPart(s, parts[n])) /\ K \in 1..Len(s) + 1
  BY LaidIs
<1>2. q \in Nat
  BY <1>1
<1>3. PICK M, P : /\ ForeignLane(M, P, b, e, s, parts, items)
                  /\ Read(x, p, Len(parts), b[K], e[K], M, P)
  BY DEF ForeignRead
<1>4. IsLane(Len(parts), Len(items), b[K], e[K], M, P)
  BY <1>3 DEF ForeignLane
<1>5. /\ \A n \in 1..Len(parts) : InStretch(b, e, K, n, q) => ~IsKnown(s, items[q])
      /\ ~IsKnown(s, items[q]) => \E n \in 1..Len(parts) : InStretch(b, e, K, n, q)
  BY <1>1, PlaceIs
<1>6. \A n \in 1..Len(parts) : \A j \in 1..Len(Block(s, parts[n], K)) :
         P[n][j] = Append(P[n][j - 1], Block(s, parts[n], K)[j])
  BY <1>3 DEF ForeignLane
<1>. HIDE DEF K
<1>7. ASSUME NEW n \in 1..Len(parts), b[K][n] < q, q <= e[K][n] PROVE y = P[n][q - b[K][n]]
  <2>1. InStretch(b, e, K, n, q)
    BY <1>7 DEF InStretch
  <2>2. ~IsKnown(s, items[q])
    BY <1>5, <2>1
  <2>3. /\ q - b[K][n] \in 1..Len(Block(s, parts[n], K)) /\ b[K][n] \in Nat /\ e[K][n] \in Nat
        /\ items[q] = Block(s, parts[n], K)[q - b[K][n]]
    BY <1>1, <1>2, <2>1, InBlock
  <2>4. P[n][q - b[K][n]] = Append(P[n][(q - b[K][n]) - 1], items[q])
    BY <1>6, <2>3
  <2>5. b[K][n] <= p /\ p <= e[K][n] /\ (q - b[K][n]) - 1 = p - b[K][n]
    BY <1>2, <1>7, <2>3, NextInStretch, ZenonT(60)
  <2>6. x = P[n][p - b[K][n]]
    BY <1>3, <2>5 DEF Read
  <2>. QED BY <2>2, <2>4, <2>5, <2>6, Zenon
<1>8. ASSUME \A n \in 1..Len(parts) : ~(b[K][n] < q /\ q <= e[K][n]) PROVE y = x
  <2>1. \A n \in 1..Len(parts) : ~InStretch(b, e, K, n, q)
    BY <1>8 DEF InStretch
  <2>. QED BY <1>5, <2>1
<1>9. Read(y, q, Len(parts), b[K], e[K], M, P)
  BY <1>2, <1>3, <1>4, <1>7, <1>8, ReadOn
<1>. QED BY <1>3, <1>9 DEF ForeignRead, K

LEMMA ForeignAll ==
  ASSUME NEW b, NEW e, NEW s, NEW parts, NEW items, Laid(b, e, s, parts, items),
         NEW x, ForeignRead(x, Len(items), b, e, s, parts, items)
  PROVE  x = ForeignOf(parts)
<1>1. PICK M, P : /\ ForeignLane(M, P, b, e, s, parts, items)
                  /\ Read(x, Len(items), Len(parts), b[Len(s) + 1], e[Len(s) + 1], M, P)
  BY DEF ForeignRead
<1>2. IsLane(Len(parts), Len(items), b[Len(s) + 1], e[Len(s) + 1], M, P) /\ M[Len(parts)] = ForeignOf(parts)
  BY <1>1 DEF ForeignLane
<1>3. x = M[Len(parts)]
  BY <1>1, <1>2, ReadAll, Zenon
<1>. QED BY <1>2, <1>3

-----------------------------------------------------------------------------
(* Reading the items.                                                      *)

\* A field's items are where the layout says.
LEMMA InItems ==
  ASSUME NEW b, NEW e, NEW s, NEW parts, NEW items, Laid(b, e, s, parts, items), NEW k \in DOMAIN s,
         NEW n \in 1..Len(parts), NEW j \in 1..Len(Block(s, parts[n], k))
  PROVE  b[k][n] + j \in 1..Len(items) /\ items[b[k][n] + j] = Block(s, parts[n], k)[j]
<1>. DEFINE N == Len(parts)
            length == Len(items)
            len == Len(Block(s, parts[n], k))
<1>1. PICK Y : parts \in Seq(Y)
  BY LaidIs
<1>2. /\ IsSchema(s) /\ IsLayout(b, e, s, parts, items) /\ N \in Nat /\ length \in Nat /\ k \in 1..Len(s) + 1
      /\ \A r \in DOMAIN parts : IsPart(s, parts[r])
  BY LaidIs
<1>3. PICK P : FieldLane(P, b, e, s, parts, items, k)
  BY <1>1, <1>2, FieldLaneExists
<1>4. IsLane(N, length, b[k], e[k], MergesOf(s, parts, k), P)
  BY <1>3 DEF FieldLane
<1>5. /\ IsList(Block(s, parts[n], k)) /\ e[k][n] = b[k][n] + len
      /\ items[b[k][n] + j] = Block(s, parts[n], k)[j]
      /\ b[k] \in [1..N + 1 -> Nat] /\ b[k][N + 1] = length
  BY <1>2 DEF IsLayout
<1>6. len \in Nat
  BY <1>5 DEF IsList
<1>7. j \in 1..len /\ n \in 1..N
  OBVIOUS
<1>. HIDE DEF N, length, len
<1>8. n \in 1..N + 1 /\ N + 1 \in 1..N + 1 /\ n < N + 1
  BY <1>2, <1>7
<1>9. e[k][n] <= length
  BY <1>4, <1>5, <1>7, <1>8, LaneOrder
<1>10. b[k][n] \in Nat
  BY <1>5, <1>8
<1>11. b[k][n] + j \in 1..length
  <2>1. e[k][n] \in Nat
    BY <1>5, <1>6, <1>10
  <2>2. e[k][n] = b[k][n] + len /\ length \in Nat /\ j \in 1..len
    BY <1>2, <1>5, <1>7
  <2>. QED BY <1>6, <1>9, <1>10, <2>1, <2>2, WithinBlock, Zenon
<1>. QED BY <1>5, <1>11 DEF length

\* The texts of all messages are those of the items that are known.
AllValid(s, parts) == \A n \in 1..Len(parts), k \in DOMAIN s : TextsIn(s[k], parts[n].msg[k]) \cap NotUtf8 = {}
ItemValid(s, item) == IsKnown(s, item) => Texts(s[item.num], item.val) \cap NotUtf8 = {}

LEMMA TextsAreItems ==
  ASSUME NEW b, NEW e, NEW s, NEW parts, NEW items, Laid(b, e, s, parts, items), Default("string") \notin NotUtf8
  PROVE  AllValid(s, parts) <=> \A p \in 1..Len(items) : ItemValid(s, items[p])
<1>1. /\ IsSchema(s) /\ IsLayout(b, e, s, parts, items) /\ Len(parts) \in Nat /\ Len(items) \in Nat
      /\ (\A n \in 1..Len(parts) : IsPart(s, parts[n])) /\ \A k \in DOMAIN s : k \in 1..Len(s) + 1
  BY LaidIs
<1>2. ASSUME NEW n \in 1..Len(parts), NEW k \in DOMAIN s
      PROVE  TextsIn(s[k], parts[n].msg[k]) \cap NotUtf8 = {} <=>
               \A j \in 1..Len(Block(s, parts[n], k)) : Texts(s[k], Block(s, parts[n], k)[j].val) \cap NotUtf8 = {}
  <2>1. s[k] \in Kinds /\ IsValue(s[k], parts[n].msg[k])
    <3>1. s[k] \in Kinds
      BY <1>1 DEF IsSchema
    <3>2. IsPart(s, parts[n])
      BY <1>1
    <3>. QED BY <3>1, <3>2 DEF IsPart
  <2>2. Block(s, parts[n], k) = ItemsOf(k, s[k], parts[n].msg[k])
    BY DEF Block
  <2>. QED BY <2>1, <2>2, ItemsTexts
<1>3. ASSUME AllValid(s, parts), NEW p \in 1..Len(items), IsKnown(s, items[p])
      PROVE  Texts(s[items[p].num], items[p].val) \cap NotUtf8 = {}
  <2>. DEFINE k == items[p].num
  <2>1. k \in DOMAIN s
    BY <1>3 DEF IsKnown
  <2>2. PICK n \in 1..Len(parts) : InStretch(b, e, k, n, p)
    BY <1>1, <1>3, PlaceIs
  <2>. HIDE DEF k
  <2>3. p - b[k][n] \in 1..Len(Block(s, parts[n], k)) /\ items[p] = Block(s, parts[n], k)[p - b[k][n]]
    <3>1. p \in Nat /\ k \in 1..Len(s) + 1
      BY <1>1, <2>1
    <3>. QED BY <1>1, <2>2, <3>1, InBlock
  <2>4. TextsIn(s[k], parts[n].msg[k]) \cap NotUtf8 = {}
    BY <1>3, <2>1 DEF AllValid
  <2>5. Texts(s[k], items[p].val) \cap NotUtf8 = {}
    BY <1>2, <2>1, <2>3, <2>4
  <2>. QED BY <2>5 DEF k
<1>4. ASSUME \A p \in 1..Len(items) : ItemValid(s, items[p]), NEW n \in 1..Len(parts), NEW k \in DOMAIN s
      PROVE  TextsIn(s[k], parts[n].msg[k]) \cap NotUtf8 = {}
  <2>1. ASSUME NEW j \in 1..Len(Block(s, parts[n], k))
        PROVE  Texts(s[k], Block(s, parts[n], k)[j].val) \cap NotUtf8 = {}
    <3>1. PICK p \in 1..Len(items) : items[p] = Block(s, parts[n], k)[j]
      BY InItems
    <3>2. items[p].num = k /\ IsKnown(s, items[p])
      BY <1>1, <3>1, FieldItem
    <3>. QED BY <1>4, <3>1, <3>2 DEF ItemValid
  <2>. QED BY <1>2, <2>1
<1>. QED BY <1>3, <1>4 DEF AllValid, ItemValid

\* The items up to p are read, into m and the unknown fields, and none is invalid.
ReadUpto(p, m, unknown, b, e, s, parts, items) ==
  /\ Laid(b, e, s, parts, items) /\ p \in 0..Len(items)
  /\ m = [k \in DOMAIN s |-> m[k]] /\ \A k \in DOMAIN s : FieldRead(m[k], p, b, e, s, parts, items, k)
  /\ ForeignRead(unknown, p, b, e, s, parts, items)
  /\ \A r \in 1..p : ItemValid(s, items[r])

LEMMA ReadStarts ==
  ASSUME NEW b, NEW e, NEW s, NEW parts, NEW items, Laid(b, e, s, parts, items)
  PROVE  ReadUpto(0, Clear(s), <<>>, b, e, s, parts, items)
<1>1. 0 \in 0..Len(items) /\ 1..0 = {}
  <2>1. Len(items) \in Nat
    BY LaidIs
  <2>. QED BY <2>1
<1>2. ASSUME NEW k \in DOMAIN s PROVE FieldRead(Clear(s)[k], 0, b, e, s, parts, items, k)
  <2>1. Clear(s)[k] = Default(s[k])
    BY DEF Clear
  <2>. QED BY <2>1, FieldBegins
<1>3. ForeignRead(<<>>, 0, b, e, s, parts, items)
  BY ForeignBegins
<1>4. Clear(s) = [k \in DOMAIN s |-> Clear(s)[k]]
  BY DEF Clear
<1>. QED BY <1>1, <1>2, <1>3, <1>4 DEF ReadUpto

LEMMA KnownRead ==
  ASSUME NEW p, NEW m, NEW unknown, NEW b, NEW e, NEW s, NEW parts, NEW items,
         ReadUpto(p, m, unknown, b, e, s, parts, items), NEW q \in 1..Len(items), q = p + 1,
         IsKnown(s, items[q]), ItemValid(s, items[q]), NEW h, h = items[q].num,
         NEW new, new = [m EXCEPT ![h] = Stored(s[h], m[h], items[q].val)]
  PROVE  ReadUpto(q, new, unknown, b, e, s, parts, items)
<1>1. Laid(b, e, s, parts, items) /\ p \in Nat /\ Len(items) \in Nat
  <2>1. Laid(b, e, s, parts, items) /\ p \in 0..Len(items)
    BY DEF ReadUpto
  <2>. QED BY <2>1, LaidIs
<1>2. h \in DOMAIN s /\ m = [k \in DOMAIN s |-> m[k]]
  BY DEF ReadUpto, IsKnown
<1>3. ASSUME NEW k \in DOMAIN s
      PROVE  new[k] = IF IsKnown(s, items[q]) /\ items[q].num = k THEN Stored(s[k], m[k], items[q].val) ELSE m[k]
  BY <1>2
<1>4. new = [k \in DOMAIN s |-> new[k]]
  BY <1>2
<1>5. ASSUME NEW k \in DOMAIN s PROVE FieldRead(new[k], q, b, e, s, parts, items, k)
  <2>1. FieldRead(m[k], p, b, e, s, parts, items, k)
    BY DEF ReadUpto
  <2>. QED BY <1>1, <1>3, <2>1, FieldOn
<1>6. ForeignRead(unknown, q, b, e, s, parts, items)
  <2>1. ForeignRead(unknown, p, b, e, s, parts, items)
    BY DEF ReadUpto
  <2>. QED BY <1>1, <2>1, ForeignOn
<1>7. ASSUME NEW r \in 1..q PROVE ItemValid(s, items[r])
  <2>1. r \in 1..p \/ r = q
    BY <1>1
  <2>2. \A j \in 1..p : ItemValid(s, items[j])
    BY DEF ReadUpto
  <2>. QED BY <2>1, <2>2
<1>8. q \in 0..Len(items)
  BY <1>1
<1>. QED BY <1>1, <1>4, <1>5, <1>6, <1>7, <1>8 DEF ReadUpto

LEMMA UnknownRead ==
  ASSUME NEW p, NEW m, NEW unknown, NEW b, NEW e, NEW s, NEW parts, NEW items,
         ReadUpto(p, m, unknown, b, e, s, parts, items), NEW q \in 1..Len(items), q = p + 1,
         ~IsKnown(s, items[q]), NEW new, new = Append(unknown, items[q])
  PROVE  ReadUpto(q, m, new, b, e, s, parts, items)
<1>1. Laid(b, e, s, parts, items) /\ p \in Nat /\ Len(items) \in Nat
  <2>1. Laid(b, e, s, parts, items) /\ p \in 0..Len(items)
    BY DEF ReadUpto
  <2>. QED BY <2>1, LaidIs
<1>2. ASSUME NEW k \in DOMAIN s PROVE FieldRead(m[k], q, b, e, s, parts, items, k)
  <2>1. FieldRead(m[k], p, b, e, s, parts, items, k)
    BY DEF ReadUpto
  <2>. QED BY <1>1, <2>1, FieldOn
<1>3. ForeignRead(new, q, b, e, s, parts, items)
  <2>1. ForeignRead(unknown, p, b, e, s, parts, items)
    BY DEF ReadUpto
  <2>. QED BY <1>1, <2>1, ForeignOn
<1>4. ASSUME NEW r \in 1..q PROVE ItemValid(s, items[r])
  <2>1. r \in 1..p \/ r = q
    BY <1>1
  <2>2. \A j \in 1..p : ItemValid(s, items[j])
    BY DEF ReadUpto
  <2>3. ItemValid(s, items[q])
    BY DEF ItemValid
  <2>. QED BY <2>1, <2>2, <2>3
<1>5. q \in 0..Len(items)
  BY <1>1
<1>. QED BY <1>1, <1>2, <1>3, <1>4, <1>5 DEF ReadUpto

\* Reading that stops at an item leaves the fields it is not of as some of the
\* messages merge.
OthersMerged(m, h, s, parts) ==
  \A k \in DOMAIN s \ {h} : \E n \in 0..Len(parts) : m[k] = MergedUpto(s, parts, n)[k]

LEMMA StopsAt ==
  ASSUME NEW p, NEW m, NEW unknown, NEW b, NEW e, NEW s, NEW parts, NEW items,
         ReadUpto(p, m, unknown, b, e, s, parts, items), NEW q \in 1..Len(items), q = p + 1,
         NEW h, h = items[q].num, NEW new, \A k \in DOMAIN s \ {h} : new[k] = m[k]
  PROVE  OthersMerged(new, h, s, parts)
<1>1. Laid(b, e, s, parts, items) /\ p \in Nat
  <2>1. Laid(b, e, s, parts, items) /\ p \in 0..Len(items)
    BY DEF ReadUpto
  <2>. QED BY <2>1, LaidIs
<1>2. ASSUME NEW k \in DOMAIN s, k # h PROVE \E n \in 0..Len(parts) : new[k] = MergedUpto(s, parts, n)[k]
  <2>1. FieldRead(m[k], p, b, e, s, parts, items, k)
    BY DEF ReadUpto
  <2>2. ~(IsKnown(s, items[q]) /\ items[q].num = k)
    BY <1>2
  <2>3. \E n \in 0..Len(parts) : m[k] = MergedUpto(s, parts, n)[k]
    BY <1>1, <2>1, <2>2, FieldOutside
  <2>4. new[k] = m[k]
    BY <1>2
  <2>. QED BY <2>3, <2>4
<1>. QED BY <1>2 DEF OthersMerged

LEMMA ReadDone ==
  ASSUME NEW p, NEW m, NEW unknown, NEW b, NEW e, NEW s, NEW parts, NEW items,
         ReadUpto(p, m, unknown, b, e, s, parts, items), p = Len(items), Default("string") \notin NotUtf8
  PROVE  AllValid(s, parts) /\ m = MergedUpto(s, parts, Len(parts)) /\ unknown = ForeignOf(parts)
<1>1. Laid(b, e, s, parts, items)
  BY DEF ReadUpto
<1>2. AllValid(s, parts)
  <2>1. \A r \in 1..Len(items) : ItemValid(s, items[r])
    BY DEF ReadUpto
  <2>. QED BY <1>1, <2>1, TextsAreItems
<1>3. unknown = ForeignOf(parts)
  <2>1. ForeignRead(unknown, Len(items), b, e, s, parts, items)
    BY DEF ReadUpto
  <2>. QED BY <1>1, <2>1, ForeignAll
<1>. DEFINE all == MergedUpto(s, parts, Len(parts))
<1>4. ASSUME NEW k \in DOMAIN s PROVE m[k] = all[k]
  <2>1. FieldRead(m[k], Len(items), b, e, s, parts, items, k)
    BY DEF ReadUpto
  <2>. QED BY <1>1, <2>1, FieldAll
<1>5. all = [k \in DOMAIN s |-> all[k]]
  <2>1. PICK Y : parts \in Seq(Y)
    BY <1>1, LaidIs
  <2>2. IsSchema(s) /\ Len(parts) \in Nat /\ \A n \in DOMAIN parts : IsPart(s, parts[n])
    BY <1>1, LaidIs
  <2>3. PICK T : HasDefaults(T) /\ PartsOf(T, s, parts)
    BY <2>1, <2>2, TextsExist
  <2>4. all \in Messages_of(T, s)
    <3>1. \A n \in 0..Len(parts) : MergedUpto(s, parts, n) \in Messages_of(T, s)
      BY <2>1, <2>2, <2>3, MergesOn
    <3>. QED BY <2>2, <3>1
  <2>. HIDE DEF all
  <2>5. all \in [DOMAIN s -> AnyValue(T)]
    BY <2>4 DEF Messages_of
  <2>. QED BY <2>5
<1>6. m = [k \in DOMAIN s |-> m[k]]
  BY DEF ReadUpto
<1>. HIDE DEF all
<1>7. m = all
  BY <1>4, <1>5, <1>6
<1>. QED BY <1>2, <1>3, <1>7 DEF all

-----------------------------------------------------------------------------
(* Parsing.                                                                *)

\* What parsing keeps.
ParseInv ==
  /\ msg_pc \in {"idle", "parse", "ok", "failed"}
  /\ msg_pc = "idle" => parsed = 0 /\ unknown_fields = <<>>
  /\ msg_pc \in {"parse", "ok"} =>
       /\ cut \in BOOLEAN /\ (cut => parsed < Len(payload))
       /\ \E b, e : ReadUpto(parsed, msg, unknown_fields, b, e, schema, sent, payload)
  /\ msg_pc = "ok" => parsed = Len(payload)
  /\ msg_pc = "failed" =>
       /\ cut \/ (\E n \in DOMAIN payload : payload[n].wire = "end") \/ ~AllValid(schema, sent)
       /\ OthersMerged(msg, payload[parsed + 1].num, schema, sent)
       /\ DOMAIN sent = 1..Len(sent)

LEMMA ReceiveKeepsParseInv ==
  ASSUME ParseInv, schema \in Schemas, Receive(Payloads) PROVE ParseInv'
<1>1. /\ msg_pc' = "parse" /\ schema' = schema /\ parsed' = 0 /\ unknown_fields' = <<>> /\ msg' = Clear(schema)
      /\ sent' \in Payloads[schema]
      /\ cut' \in BOOLEAN /\ (payload' = <<>> => cut' = FALSE)
  BY DEF Receive, ParseInv
<1>2. payload' = Items_of(schema, sent')
  BY Zenon DEF Receive, Items_of, PartItems
<1>3. IsSchema(schema) /\ IsList(sent') /\ \A n \in DOMAIN sent' : IsPart(schema, sent'[n])
  BY <1>1, PayloadsAssumption, SchemasAre
<1>4. PICK parts : parts = sent'
  OBVIOUS
<1>5. PICK items : items = payload'
  OBVIOUS
<1>6. PICK Y : parts \in Seq(Y)
  BY <1>3, <1>4 DEF IsList
<1>7. PICK b, e : IsLayout(b, e, schema, parts, items)
  BY <1>2, <1>3, <1>4, <1>5, <1>6, Layout
<1>8. Laid(b, e, schema, parts, items)
  <2>1. DOMAIN parts = 1..Len(parts)
    BY <1>6
  <2>. QED BY <1>3, <1>4, <1>7, <2>1 DEF Laid
<1>9. ReadUpto(0, Clear(schema), <<>>, b, e, schema, parts, items)
  BY <1>8, ReadStarts
<1>10. cut' => 0 < Len(items)
  <2>1. IsList(items)
    BY <1>7 DEF IsLayout
  <2>2. items # <<>> => Len(items) \in Nat /\ Len(items) # 0
    BY <2>1 DEF IsList
  <2>. QED BY <1>1, <1>5, <2>2
<1>11. ReadUpto(parsed', msg', unknown_fields', b, e, schema', sent', payload')
  BY <1>1, <1>4, <1>5, <1>9
<1>. QED BY <1>1, <1>5, <1>10, <1>11 DEF ParseInv

\* What is known before the next item is read.
LEMMA BeforeNext ==
  ASSUME ParseInv, msg_pc = "parse", parsed < Len(payload)
  PROVE  /\ \E b, e : ReadUpto(parsed, msg, unknown_fields, b, e, schema, sent, payload)
         /\ parsed \in Nat /\ Len(payload) \in Nat /\ parsed + 1 \in 1..Len(payload)
         /\ DOMAIN payload = 1..Len(payload) /\ DOMAIN sent = 1..Len(sent)
<1>1. PICK b, e : ReadUpto(parsed, msg, unknown_fields, b, e, schema, sent, payload)
  BY DEF ParseInv
<1>2. Laid(b, e, schema, sent, payload) /\ parsed \in 0..Len(payload)
  BY <1>1 DEF ReadUpto
<1>3. Len(payload) \in Nat
  BY <1>2, LaidIs
<1>4. IsList(sent) /\ IsList(payload)
  BY <1>2 DEF Laid, IsLayout
<1>5. DOMAIN payload = 1..Len(payload) /\ DOMAIN sent = 1..Len(sent)
  BY <1>4 DEF IsList
<1>. QED BY <1>1, <1>2, <1>3, <1>5

\* Ending the parse at the next item.
LEMMA FailureKeepsParseInv ==
  ASSUME ParseInv, msg_pc = "parse", parsed < Len(payload), msg_pc' = "failed",
         UNCHANGED <<schema, payload, cut, parsed, sent>>,
         \A k \in DOMAIN schema \ {Next_item.num} : msg'[k] = msg[k],
         cut \/ Next_item.wire = "end" \/ ~ItemValid(schema, Next_item)
  PROVE  ParseInv'
<1>1. /\ parsed \in Nat /\ parsed + 1 \in 1..Len(payload) /\ DOMAIN payload = 1..Len(payload) /\ DOMAIN sent = 1..Len(sent)
      /\ \E b, e : ReadUpto(parsed, msg, unknown_fields, b, e, schema, sent, payload)
  BY BeforeNext
<1>2. PICK b, e : ReadUpto(parsed, msg, unknown_fields, b, e, schema, sent, payload)
  BY <1>1
<1>3. PICK new : new = msg'
  OBVIOUS
<1>4. OthersMerged(new, payload[parsed + 1].num, schema, sent)
  BY <1>1, <1>2, <1>3, StopsAt DEF Next_item
<1>5. cut \/ (\E n \in DOMAIN payload : payload[n].wire = "end") \/ ~AllValid(schema, sent)
  <2>1. CASE cut \/ Next_item.wire = "end"
    BY <1>1, <2>1 DEF Next_item
  <2>2. CASE ~ItemValid(schema, Next_item)
    <3>1. Laid(b, e, schema, sent, payload)
      BY <1>2 DEF ReadUpto
    <3>2. ~ItemValid(schema, payload[parsed + 1])
      BY <2>2 DEF Next_item
    <3>. QED BY <1>1, <3>1, <3>2, PayloadsAssumption, TextsAreItems
  <2>. QED BY <2>1, <2>2
<1>6. OthersMerged(msg', payload'[parsed' + 1].num, schema', sent')
  BY <1>3, <1>4
<1>7. cut' \/ (\E n \in DOMAIN payload' : payload'[n].wire = "end") \/ ~AllValid(schema', sent')
  BY <1>5
<1>. QED BY <1>1, <1>6, <1>7 DEF ParseInv

LEMMA FieldKeepsParseInv == ASSUME ParseInv, Field PROVE ParseInv'
<1>. DEFINE k == Next_item.num
            valid == Texts(schema[k], Next_item.val) \cap NotUtf8 = {}
<1>1. /\ msg_pc = "parse" /\ parsed < Len(payload) /\ Known /\ Whole_item
      /\ msg' = IF valid \/ schema[k] # "map" THEN [msg EXCEPT ![k] = Stored(schema[k], msg[k], Next_item.val)] ELSE msg
      /\ parsed' = IF valid THEN parsed + 1 ELSE parsed
      /\ msg_pc' = IF valid THEN "parse" ELSE "failed"
      /\ UNCHANGED <<schema, payload, cut, unknown_fields, sent>>
  BY DEF Field
<1>2. /\ parsed \in Nat /\ Len(payload) \in Nat /\ parsed + 1 \in 1..Len(payload)
      /\ \E b, e : ReadUpto(parsed, msg, unknown_fields, b, e, schema, sent, payload)
  BY <1>1, BeforeNext
<1>3. PICK b, e : ReadUpto(parsed, msg, unknown_fields, b, e, schema, sent, payload)
  BY <1>2
<1>4. IsKnown(schema, Next_item) /\ (ItemValid(schema, Next_item) <=> valid)
  BY <1>1 DEF Known, ItemValid
<1>. HIDE DEF valid, k
<1>5. CASE valid
  <2>1. PICK q : q = parsed + 1
    OBVIOUS
  <2>2. /\ q \in 1..Len(payload) /\ payload[q] = Next_item
    BY <1>2, <2>1 DEF Next_item
  <2>3. PICK new : new = msg'
    OBVIOUS
  <2>4. new = [msg EXCEPT ![k] = Stored(schema[k], msg[k], payload[q].val)] /\ k = payload[q].num
    BY <1>1, <1>5, <2>2, <2>3 DEF k
  <2>5. IsKnown(schema, payload[q]) /\ ItemValid(schema, payload[q])
    BY <1>4, <1>5, <2>2
  <2>6. ReadUpto(q, new, unknown_fields, b, e, schema, sent, payload)
    BY <1>3, <2>1, <2>2, <2>4, <2>5, KnownRead
  <2>7. ReadUpto(parsed', msg', unknown_fields', b, e, schema', sent', payload')
    BY <1>1, <1>5, <2>1, <2>3, <2>6
  <2>8. cut' \in BOOLEAN /\ (cut' => parsed' < Len(payload'))
    <3>1. cut \in BOOLEAN /\ (cut => parsed + 1 # Len(payload))
      BY <1>1 DEF ParseInv, Whole_item
    <3>. QED BY <1>1, <1>2, <1>5, <3>1
  <2>. QED BY <1>1, <1>5, <2>7, <2>8 DEF ParseInv
<1>6. CASE ~valid
  <2>1. \A h \in DOMAIN schema \ {Next_item.num} : msg'[h] = msg[h]
    <3>1. msg = [h \in DOMAIN schema |-> msg[h]]
      BY <1>3 DEF ReadUpto
    <3>. QED BY <1>1, <3>1 DEF k
  <2>2. msg_pc' = "failed" /\ parsed' = parsed
    BY <1>1, <1>6
  <2>. QED BY <1>1, <1>4, <1>6, <2>1, <2>2, FailureKeepsParseInv
<1>. QED BY <1>5, <1>6

LEMMA FieldCutKeepsParseInv == ASSUME ParseInv, FieldCut PROVE ParseInv'
<1>1. /\ msg_pc = "parse" /\ parsed < Len(payload) /\ cut /\ msg_pc' = "failed"
      /\ UNCHANGED <<schema, payload, cut, parsed, sent>>
  BY DEF FieldCut, Whole_item
<1>2. \A k \in DOMAIN schema \ {Next_item.num} : msg'[k] = msg[k]
  <2>1. PICK b, e : ReadUpto(parsed, msg, unknown_fields, b, e, schema, sent, payload)
    BY <1>1, BeforeNext
  <2>2. msg = [h \in DOMAIN schema |-> msg[h]]
    BY <2>1 DEF ReadUpto
  <2>3. msg' = msg \/ \E v : msg' = [msg EXCEPT ![Next_item.num] = v]
    BY DEF FieldCut
  <2>. QED BY <2>2, <2>3
<1>. QED BY <1>1, <1>2, FailureKeepsParseInv

LEMMA UnusualKeepsParseInv == ASSUME ParseInv, Unusual PROVE ParseInv'
<1>1. /\ msg_pc = "parse" /\ parsed < Len(payload) /\ ~IsKnown(schema, Next_item)
      /\ UNCHANGED <<schema, payload, cut, msg, sent>>
  BY DEF Unusual, Known
<1>2. /\ parsed \in Nat /\ Len(payload) \in Nat /\ parsed + 1 \in 1..Len(payload)
      /\ \E b, e : ReadUpto(parsed, msg, unknown_fields, b, e, schema, sent, payload)
  BY <1>1, BeforeNext
<1>3. PICK b, e : ReadUpto(parsed, msg, unknown_fields, b, e, schema, sent, payload)
  BY <1>2
<1>4. CASE Next_item.wire = "end" \/ ~Whole_item
  <2>1. msg_pc' = "failed" /\ parsed' = parsed /\ (cut \/ Next_item.wire = "end")
    BY <1>4 DEF Unusual, Whole_item
  <2>. QED BY <1>1, <2>1, FailureKeepsParseInv
<1>5. CASE ~(Next_item.wire = "end" \/ ~Whole_item)
  <2>1. /\ unknown_fields' = Append(unknown_fields, Next_item) /\ parsed' = parsed + 1 /\ msg_pc' = msg_pc
        /\ Whole_item
    BY <1>5 DEF Unusual
  <2>2. PICK q : q = parsed + 1
    OBVIOUS
  <2>3. q \in 1..Len(payload) /\ payload[q] = Next_item
    BY <1>2, <2>2 DEF Next_item
  <2>4. PICK new : new = unknown_fields'
    OBVIOUS
  <2>5. ReadUpto(q, msg, new, b, e, schema, sent, payload)
    BY <1>1, <1>3, <2>1, <2>2, <2>3, <2>4, UnknownRead
  <2>6. ReadUpto(parsed', msg', unknown_fields', b, e, schema', sent', payload')
    BY <1>1, <2>1, <2>2, <2>4, <2>5
  <2>7. cut' \in BOOLEAN /\ (cut' => parsed' < Len(payload'))
    <3>1. cut \in BOOLEAN /\ (cut => parsed + 1 # Len(payload))
      BY <1>1, <2>1 DEF ParseInv, Whole_item
    <3>. QED BY <1>1, <1>2, <2>1, <3>1
  <2>. QED BY <1>1, <2>1, <2>6, <2>7 DEF ParseInv
<1>. QED BY <1>4, <1>5

LEMMA DoneKeepsParseInv == ASSUME ParseInv, Done PROVE ParseInv'
BY DEF Done, ParseInv

LEMMA ParseInvStutters == ASSUME ParseInv, UNCHANGED msgVars PROVE ParseInv'
BY DEF ParseInv, msgVars

\* The merges of the property are those of the proof.
LEMMA MergedPartsAre == ASSUME NEW n PROVE MergedParts(n) = MergedUpto(schema, sent, n)
BY Zenon DEF MergedParts, MergedUpto, MergeAll

LEMMA ParseInvParses == ParseInv => ParsedAsSent
<1>. SUFFICES ASSUME ParseInv PROVE ParsedAsSent
  OBVIOUS
<1>1. ASSUME DOMAIN sent = 1..Len(sent)
      PROVE  AllValid(schema, sent) <=> \A n \in DOMAIN sent : ValidText(sent[n].msg)
  BY <1>1 DEF AllValid, ValidText
<1>2. ASSUME msg_pc = "ok"
      PROVE  /\ ~cut /\ \A n \in DOMAIN sent : ValidText(sent[n].msg)
             /\ msg = MergedParts(Len(sent)) /\ unknown_fields = Foreign
  <2>1. PICK b, e : ReadUpto(parsed, msg, unknown_fields, b, e, schema, sent, payload)
    BY <1>2 DEF ParseInv
  <2>2. parsed = Len(payload) /\ cut \in BOOLEAN /\ (cut => parsed < Len(payload))
    BY <1>2 DEF ParseInv
  <2>3. Laid(b, e, schema, sent, payload)
    BY <2>1 DEF ReadUpto
  <2>4. Len(payload) \in Nat /\ DOMAIN sent = 1..Len(sent)
    <3>1. IsList(sent)
      BY <2>3 DEF Laid
    <3>2. DOMAIN sent = 1..Len(sent)
      BY <3>1 DEF IsList
    <3>. QED BY <2>3, <3>2, LaidIs
  <2>5. AllValid(schema, sent) /\ msg = MergedUpto(schema, sent, Len(sent)) /\ unknown_fields = ForeignOf(sent)
    BY <2>1, <2>2, PayloadsAssumption, ReadDone
  <2>6. Foreign = ForeignOf(sent)
    BY Zenon DEF Foreign, ForeignOf
  <2>7. ~cut
    BY <2>2, <2>4
  <2>. QED BY <1>1, <2>4, <2>5, <2>6, <2>7, MergedPartsAre
<1>3. ASSUME msg_pc = "failed"
      PROVE  /\ cut \/ (\E n \in DOMAIN payload : payload[n].wire = "end") \/ \E n \in DOMAIN sent : ~ValidText(sent[n].msg)
             /\ \A k \in DOMAIN schema \ {Next_item.num} : \E n \in 0..Len(sent) : msg[k] = MergedParts(n)[k]
  <2>1. /\ cut \/ (\E n \in DOMAIN payload : payload[n].wire = "end") \/ ~AllValid(schema, sent)
        /\ OthersMerged(msg, payload[parsed + 1].num, schema, sent) /\ DOMAIN sent = 1..Len(sent)
    BY <1>3 DEF ParseInv
  <2>2. \A k \in DOMAIN schema \ {Next_item.num} : \E n \in 0..Len(sent) : msg[k] = MergedUpto(schema, sent, n)[k]
    BY <2>1 DEF OthersMerged, Next_item
  <2>3. \A k \in DOMAIN schema \ {Next_item.num} : \E n \in 0..Len(sent) : msg[k] = MergedParts(n)[k]
    BY <2>2, MergedPartsAre
  <2>. QED BY <1>1, <2>1, <2>3
<1>. QED BY <1>2, <1>3 DEF ParsedAsSent

-----------------------------------------------------------------------------
(* The messages, in the handlers.                                          *)

Expects == call = "Message" => schema \in Schemas

\* Parsing succeeds exactly for a payload that is whole, and gives what the peer's
\* messages merge to; if it fails, every field but the one that failed holds what
\* they merge to up to some one of them (WiFiConnect.pb.cpp:142-187, 267-277;
\* char_respond.cpp:497, 526, 552, 576).
THEOREM CharParsedAsSent == CharSpec => []ParsedAsSent
<1>1. CharInit => ParseInv /\ Expects
  BY DEF CharInit, MessagesInit, ParseInv, Expects
<1>2. ParseInv /\ Expects /\ [CharNext]_charVars => ParseInv' /\ Expects'
  <2>. SUFFICES ASSUME ParseInv, Expects, [CharNext]_charVars PROVE ParseInv' /\ Expects'
    OBVIOUS
  <2>1. CASE Message_Write
    <3>1. CASE call = "Message" /\ Receive(Payloads)
      <4>1. ParseInv'
        BY <3>1, ReceiveKeepsParseInv DEF Expects
      <4>2. call' = call /\ schema' = schema
        BY <2>1, <3>1 DEF Message_Write, Receive
      <4>. QED BY <4>1, <4>2 DEF Expects
    <3>2. CASE ParseNext
      <4>1. ParseInv'
        BY <3>2, FieldKeepsParseInv, FieldCutKeepsParseInv, UnusualKeepsParseInv, DoneKeepsParseInv DEF ParseNext
      <4>2. call' = call /\ schema' = schema
        BY <2>1, <3>2 DEF Message_Write, ParseNext, Field, FieldCut, Unusual, Done
      <4>. QED BY <4>1, <4>2 DEF Expects
    <3>. QED BY <2>1, <3>1, <3>2 DEF Message_Write
  <2>2. CASE ~Message_Write
    <3>1. UNCHANGED <<msgVars, call>>
      BY <2>2 DEF CharNext, charVars, WifiServices_Write, WifiServices_Read, ParseStep, Answer,
                  Diagnostics_Read, TextStep, Text_Read
    <3>2. ParseInv'
      BY <3>1, ParseInvStutters
    <3>3. call' = call /\ schema' = schema
      BY <3>1 DEF msgVars
    <3>. QED BY <3>2, <3>3 DEF Expects
  <2>. QED BY <2>1, <2>2
<1>. QED BY <1>1, <1>2, ParseInvParses, PTL DEF CharSpec
=============================================================================
