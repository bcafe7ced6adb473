----------------------------- MODULE ConfParse -----------------------------
(***************************************************************************)
(* parse_conf and get_mac_address (Template2/char_respond.cpp): the two    *)
(* readers of text files behind OnboardingKey_Read, PublicKey_Read and     *)
(* WiFi_MAC_Address_Read.                                                  *)
(*                                                                         *)
(* A line is a sequence of tokens: the keyword, the colon, the quote and   *)
(* letters.  A file is the sequence of its lines; one action per getline.  *)
(***************************************************************************)
EXTENDS Integers, Sequences, SequencesExt

CONSTANTS
  Token,     \* what a line is made of
  Keyword,   \* what parse_conf looks for, one token
  ConfFiles, \* files that parse_conf is given
  MacFiles   \* files that get_mac_address is given

Quote == "\""

ASSUME ConfAssumption ==
  /\ Keyword # ":" /\ Keyword # Quote
  /\ ConfFiles \cup MacFiles \subseteq Seq(Seq(Token))

VARIABLES
  conf_fun,    \* the function called
  conf_file, conf_read,   \* its file, and how many lines of it were read
  value,       \* the string passed by reference: value, mac_addr
  conf_ret, conf_pc

confVars == <<conf_fun, conf_file, conf_read, value, conf_ret, conf_pc>>

\* Where a token stands in a line.
Places(line, c) == {k \in DOMAIN line : line[k] = c}

\* No value: the result -1 of parse_line.
NoValue == <<>>

\* Mutant: the value ends at the second quote.
parse_line_Find(line) ==
  LET colons == Places(line, ":")
      quotes == {k \in Places(line, Quote) : colons # {} /\ k > Min(colons)}
      closing == quotes \ {Min(quotes)}
  IN IF colons = {} \/ quotes = {} \/ closing = {} THEN NoValue
     ELSE SubSeq(line, Min(quotes) + 1, Min(closing) - 1)

\* The value between the first and the last quote behind the first colon; an
\* empty one is none (end <= start).
parse_line(line) ==
  LET colons == Places(line, ":")
      quotes == {k \in Places(line, Quote) : colons # {} /\ k > Min(colons)}
  IN IF colons = {} \/ quotes = {} THEN NoValue
     ELSE SubSeq(line, Min(quotes) + 1, Max(quotes) - 1)

\* The line from its first keyword on.
FromKeyword(line) == SubSeq(line, Min(Places(line, Keyword)), Len(line))

\* Mutant: one iteration too few.
Stripped_Four(line) ==
  LET strip(s) == RemoveFirst(s, ":") IN strip(strip(strip(strip(line))))

\* Five times the first colon is taken out; a round that finds none changes
\* nothing.
Stripped(line) ==
  LET strip(s) == RemoveFirst(s, ":") IN strip(strip(strip(strip(strip(line)))))

ConfInit ==
  /\ conf_fun = "none" /\ conf_file = <<>> /\ conf_read = 0
  /\ value = <<>> /\ conf_ret = 0 /\ conf_pc = "idle"

\* The stream's constructor: without the file both return -1 at once.
OpenFile(fun, files) ==
  /\ conf_pc = "idle"
  /\ conf_fun' = fun /\ conf_file' \in files
  /\ conf_ret' = -1
  /\ conf_pc' \in {"read", "done"}
  /\ UNCHANGED <<conf_read, value>>

Line == conf_file[conf_read + 1]

ConfLine ==
  /\ conf_pc = "read" /\ conf_fun = "parse_conf" /\ conf_read < Len(conf_file)
  /\ conf_read' = conf_read + 1
  /\ IF Places(Line, Keyword) # {} /\ parse_line(FromKeyword(Line)) # NoValue
     THEN value' = parse_line(FromKeyword(Line)) /\ conf_ret' = 0
     ELSE UNCHANGED <<value, conf_ret>>
  /\ UNCHANGED <<conf_fun, conf_file, conf_pc>>

MacLine ==
  /\ conf_pc = "read" /\ conf_fun = "get_mac_address" /\ conf_read < Len(conf_file)
  /\ conf_read' = conf_read + 1
  /\ value' = Stripped(Line)
  /\ UNCHANGED <<conf_fun, conf_file, conf_ret, conf_pc>>

\* get_mac_address returns 0 also for a file without a line.
EndOfFile ==
  /\ conf_pc = "read" /\ conf_read = Len(conf_file)
  /\ conf_ret' = IF conf_fun = "get_mac_address" THEN 0 ELSE conf_ret
  /\ conf_pc' = "done"
  /\ UNCHANGED <<conf_fun, conf_file, conf_read, value>>

ReadLines == ConfLine \/ MacLine \/ EndOfFile

-----------------------------------------------------------------------------
(* Properties                                                               *)

\* The shape of a line that gives the keyword a value: the first keyword, the first
\* colon behind it, the first quote behind that, and the last quote of the line.
Marks(line, kw, colon, open, close) ==
  /\ kw < colon /\ colon < open /\ open + 1 < close
  /\ line[kw] = Keyword /\ \A k \in 1..kw - 1 : line[k] # Keyword
  /\ line[colon] = ":" /\ \A k \in kw..colon - 1 : line[k] # ":"
  /\ line[open] = Quote /\ \A k \in colon..open - 1 : line[k] # Quote
  /\ line[close] = Quote /\ \A k \in close + 1..Len(line) : line[k] # Quote

ValuesIn(line) ==
  {SubSeq(line, at[1] + 1, at[2] - 1) :
     at \in {oc \in (DOMAIN line) \X (DOMAIN line) :
             \E kw, colon \in DOMAIN line : Marks(line, kw, colon, oc[1], oc[2])}}

\* The lines read that give it one.
Giving == {n \in 1..conf_read : ValuesIn(conf_file[n]) # {}}

\* parse_conf succeeds exactly if a line of the file gives its keyword a value
\* that is not empty, and returns the value of the last such line, whatever
\* broken lines with the keyword come behind it (char_respond.cpp:63-91).
ParsesConf ==
  conf_pc = "done" /\ conf_fun = "parse_conf" =>
    IF Giving = {} THEN conf_ret = -1
    ELSE /\ conf_ret = 0 /\ conf_read = Len(conf_file)
         /\ \E n \in Giving : value \in ValuesIn(conf_file[n]) /\ \A m \in Giving : m <= n

\* s is the line without the places in gone.
Without(line, gone, s) ==
  \E at \in [DOMAIN s -> DOMAIN line \ gone] :
    /\ \A j, k \in DOMAIN s : j < k => at[j] < at[k]
    /\ \A p \in DOMAIN line \ gone : \E k \in DOMAIN s : at[k] = p
    /\ \A k \in DOMAIN s : s[k] = line[at[k]]

\* s is the line without its first n colons, or without all if it has fewer.
WithoutColons(line, n, s) ==
  \E gone \in SUBSET Places(line, ":") :
    /\ Cardinality(gone) = n \/ (Cardinality(gone) < n /\ gone = Places(line, ":"))
    /\ \A g \in gone, c \in Places(line, ":") \ gone : g < c
    /\ Without(line, gone, s)

\* get_mac_address returns the last line of its file without its first five
\* colons and otherwise as it is, so that nothing of an address is left out and
\* no colon left in (char_respond.cpp:93-124).
MacStripped ==
  conf_pc = "done" /\ conf_fun = "get_mac_address" /\ conf_read > 0 =>
    WithoutColons(conf_file[Len(conf_file)], 5, value)
=============================================================================
