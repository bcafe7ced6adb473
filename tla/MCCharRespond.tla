--------------------------- MODULE MCCharRespond ---------------------------
(***************************************************************************)
(* Small instance of CharRespond: every scan of a few short names, with a  *)
(* buffer that some of them do not fit into, every short key file, and     *)
(* messages with every field set, alone and in pairs.                      *)
(***************************************************************************)
EXTENDS CharRespond

CONSTANTS NameLen, MaxLines, LineLen

\* What the scan prints: a line " name\n" per network, and one of another kind.
Names == UNION {[1..n -> Letter \cup {" "}] : n \in 0..NameLen}
ScanLine(name) == <<" ">> \o name \o <<"\n">>
Scans[n \in Nat] ==
  IF n = 0 THEN {<<>>}
  ELSE Scans[n - 1] \cup {text \o ScanLine(name) : text \in Scans[n - 1], name \in Names}
MCOutputs == Scans[MaxLines] \cup {<<"a", "\n">> \o text : text \in Scans[1]}

MCBeyondBuffer == {<<>>} \cup {<<c>> : c \in Char}

\* Every line of up to LineLen tokens as a file of its own, and files of several.
MCToken == {Keyword, ":", Quote, "a", "b"}
SomeLines == {<<Keyword, ":", "\"", "a", "\"">>, <<Keyword, ":", "\"", "b", "\"">>,
              <<Keyword, ":", "\"", "\"">>, <<Keyword>>, <<"a">>, <<>>}
MCConfFiles == {<<>>} \cup {<<line>> : line \in UNION {[1..n -> MCToken \ {"b"}] : n \in 0..LineLen}}
  \cup {<<<<":", Keyword, "a", ":", "a", "\"", "a", "\"", "b", "\"", "a">>>>}
  \cup [1..2 -> SomeLines] \cup [1..3 -> SomeLines]

MacLines == UNION {[1..n -> {":", "a"}] : n \in 0..7}
MCMacFiles == {<<>>} \cup {<<line>> : line \in MacLines}
  \cup {<<<<"a", ":", "b">>, line>> : line \in MacLines}

\* A value of more than 127 bytes, whose length takes two.
Long == "aaaaaaaaaaaaaaaaaaaaaaaaaaaaaaaaaaaaaaaaaaaaaaaaaaaaaaaaaaaa" \o "aaaaaaaaaaaaaaaaaaaaaaaaaaaaaaaaaaaaaaaaaaaaaaaaaaaaaaaaaaaaaaaaaaaaaa"
MCNotUtf8 == {"not UTF-8"}
Values(kind) ==
  CASE kind = "float" -> {"1.5", "-0"}
    [] kind = "uint64" -> {"1", "200"}
    [] kind = "string" -> {"a", Long, "not UTF-8"}
    [] kind = "strings" -> {<<"a">>, <<"a", "">>, <<"not UTF-8", "b">>}
    [] OTHER -> {[a |-> "b"], [a |-> "", b |-> Long], [c |-> "not UTF-8"]}
MCGarbage == [kind \in {"float", "uint64", "string", "strings", "map"} |->
  CASE kind = "float" -> {"0", "2.5"}
    [] kind = "uint64" -> {"0", "5"}
    [] OTHER -> {"", "a"}]

\* Messages with at most one field set, and one with all.
SomeMessages(s) == {Clear(s), [k \in DOMAIN s |-> CHOOSE v \in Values(s[k]) : TRUE]} \cup
  UNION {{[Clear(s) EXCEPT ![k] = v] : v \in Values(s[k])} : k \in DOMAIN s}

\* A field of another version, one of the same number and another type, and the
\* end of a group.
SomeForeign(s) == {<<>>} \cup {<<[num |-> nw[1], wire |-> nw[2], val |-> IF s = diagnostics_v1 THEN <<"x", "y">> ELSE "x"]>> :
                                 nw \in {<<9, "length">>, <<1, "group">>, <<1, "end">>}}
Parts(s) == [msg : SomeMessages(s), foreign : SomeForeign(s)]
MCPayloads == [s \in Schemas |-> [1..1 -> Parts(s)] \cup [1..2 -> Parts(s)]]
=============================================================================
