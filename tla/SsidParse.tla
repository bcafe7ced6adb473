----------------------------- MODULE SsidParse -----------------------------
(***************************************************************************)
(* parse_wifi_ssid_data (Template2/char_respond.cpp): the loop that turns  *)
(* the scan's output into the list of network names, one action per        *)
(* iteration.  Characters are told apart only as blank, newline and        *)
(* letters.                                                                *)
(***************************************************************************)
EXTENDS Integers, Sequences, FiniteSets

CONSTANTS
  Letter,    \* characters of a name other than the blank
  Width      \* bits of size_t

\* The blank that the loop skips.
Space == " "

ASSUME SsidAssumption ==
  /\ Width \in Nat
  /\ Space \notin Letter /\ "\n" \notin Letter

Char == Letter \cup {Space, "\n"}

VARIABLES
  mixture,      \* the text being parsed
  i,            \* index of the loop, from 0 as in the code
  ssid_set, ssid_vector,
  ssid_pc       \* "idle" before the call, "loop", "done"

ssidVars == <<mixture, i, ssid_set, ssid_vector, ssid_pc>>

-----------------------------------------------------------------------------
(* The loop.                                                                *)

size == Len(mixture)
npos == 2^Width - 1
At(k) == mixture[k + 1]

\* Mutant: the end of the text when there is no newline.
Find_OrEnd(from) ==
  LET hits == {k \in from..size - 1 : At(k) = "\n"} IN
  IF hits = {} THEN size ELSE CHOOSE k \in hits : \A h \in hits : k <= h

\* string::find("\n", from).
Find(from) ==
  LET hits == {k \in from..size - 1 : At(k) = "\n"} IN
  IF hits = {} THEN npos ELSE CHOOSE k \in hits : \A h \in hits : k <= h

\* string::substr(from, n): to the end of the string if n goes beyond it.
Substr(from, n) == SubSeq(mixture, from + 1, IF from + n > size THEN size ELSE from + n)

\* i++, in size_t.
Succ(k) == (k + 1) % 2^Width

\* Mutant: an empty name counts.
Record_KeepsEmpty(ssid) ==
  IF ssid \notin ssid_set
  THEN ssid_set' = ssid_set \cup {ssid} /\ ssid_vector' = Append(ssid_vector, ssid)
  ELSE UNCHANGED <<ssid_set, ssid_vector>>

\* Mutant: the set is asked but never filled.
Record_ForgetsSet(ssid) ==
  /\ ssid_vector' = IF ssid # <<>> /\ ssid \notin ssid_set
                    THEN Append(ssid_vector, ssid) ELSE ssid_vector
  /\ UNCHANGED ssid_set

Record(ssid) ==
  IF ssid # <<>> /\ ssid \notin ssid_set
  THEN ssid_set' = ssid_set \cup {ssid} /\ ssid_vector' = Append(ssid_vector, ssid)
  ELSE UNCHANGED <<ssid_set, ssid_vector>>

SsidInit ==
  /\ mixture = <<>> /\ i = 0 /\ ssid_set = {} /\ ssid_vector = <<>> /\ ssid_pc = "idle"

\* The call, with an empty vector and set.
Parse(data) ==
  /\ ssid_pc = "idle"
  /\ mixture' = data /\ i' = 0 /\ ssid_set' = {} /\ ssid_vector' = <<>>
  /\ ssid_pc' = "loop"

Skip ==
  /\ ssid_pc = "loop" /\ i < size /\ At(i) = Space
  /\ i' = Succ(i)
  /\ UNCHANGED <<mixture, ssid_set, ssid_vector, ssid_pc>>

\* i = pos and then i++: from npos, i becomes 0 and the text is read again.
Take ==
  /\ ssid_pc = "loop" /\ i < size /\ At(i) # Space
  /\ LET pos == Find(i) IN Record(Substr(i, pos - i)) /\ i' = Succ(pos)
  /\ UNCHANGED <<mixture, ssid_pc>>

Return ==
  /\ ssid_pc = "loop" /\ i >= size
  /\ ssid_pc' = "done"
  /\ UNCHANGED <<mixture, i, ssid_set, ssid_vector>>

Loop == Skip \/ Take \/ Return
SsidNext == (\E data \in Seq(Char) : Parse(data)) \/ Loop
SsidSpec == SsidInit /\ [][SsidNext]_ssidVars

-----------------------------------------------------------------------------
(* Properties                                                               *)

\* Type correctness of the loop's variables: i is a size_t, and the vector holds
\* only what the set holds.
SsidTypeOK ==
  /\ mixture \in Seq(Char)
  /\ i \in 0..(2^Width - 1)
  /\ ssid_set \subseteq Seq(Char) /\ ssid_vector \in Seq(ssid_set)
  /\ ssid_pc \in {"idle", "loop", "done"}

\* ssid_set is exactly what ssid_vector holds, and it holds no name twice,
\* however often the text is read again (char_respond.cpp:161-166).
NoDuplicates ==
  /\ ssid_set = {ssid_vector[k] : k \in DOMAIN ssid_vector}
  /\ \A j, k \in DOMAIN ssid_vector : ssid_vector[j] = ssid_vector[k] => j = k

\* The names of a text, defined from its lines and not from the loop.
LineEnds(text) == {k \in DOMAIN text : text[k] = "\n"}
LineStarts(text) == {1} \cup {k + 1 : k \in LineEnds(text)}
LineFrom(text, s) ==
  LET stop == {k \in LineEnds(text) : k >= s}
  IN SubSeq(text, s, IF stop = {} THEN Len(text) ELSE (CHOOSE k \in stop : \A h \in stop : k <= h) - 1)
NameOf(line) ==
  LET seen == {k \in DOMAIN line : line[k] # Space}
  IN  IF seen = {} THEN <<>>
      ELSE SubSeq(line, CHOOSE k \in seen : \A h \in seen : k <= h, Len(line))
NameAt(text, s) == NameOf(LineFrom(text, s))
NamesIn(text) == {NameAt(text, s) : s \in LineStarts(text)} \ {<<>>}
FirstLine(text, name) == CHOOSE s \in LineStarts(text) :
  NameAt(text, s) = name /\ \A t \in LineStarts(text) : NameAt(text, t) = name => s <= t

\* When the loop ends the vector holds the name of every line that has one,
\* each once, in the order of the scan and without its leading blanks; before
\* that it holds nothing else (char_respond.cpp:148-170).
ParsesLines ==
  /\ ssid_set \subseteq NamesIn(mixture)
  /\ ssid_pc = "done" => ssid_set = NamesIn(mixture)
  /\ \A j, k \in DOMAIN ssid_vector :
       j < k => FirstLine(mixture, ssid_vector[j]) < FirstLine(mixture, ssid_vector[k])

\* The last line is whole, or there is nothing but blanks after it.
Whole == \A s \in LineStarts(mixture) :
  (\A k \in LineEnds(mixture) : k < s) => NameAt(mixture, s) = <<>>

\* The loop ends exactly for a text whose last line is whole: from any other, cut
\* off in the middle of a name, i wraps from npos to 0 and the text is read again
\* for ever (char_respond.cpp:155, 169).
EndsIffWhole ==
  /\ [](ssid_pc = "done" => Whole)
  /\ ssid_pc = "loop" /\ Whole ~> ssid_pc = "done"
=============================================================================
