------------------------------ MODULE Messages -----------------------------
(***************************************************************************)
(* The messages of Template2/proto: what _InternalSerialize writes, what   *)
(* ByteSizeLong counts and what _InternalParse makes of a payload, field   *)
(* by field as the generated code goes through it.                         *)
(*                                                                         *)
(* A payload is a sequence of items, a field number with a wire type and a *)
(* value each, the last of which may be incomplete.  The bytes of an item  *)
(* are the protobuf library's business; of the messages that the program   *)
(* itself writes their number matters.  Values are TLA+ strings, told      *)
(* apart by content, length and whether they are valid UTF-8.              *)
(***************************************************************************)
EXTENDS Integers, Sequences, FiniteSets, SequencesExt

CONSTANTS
  NotUtf8,    \* strings that VerifyUTF8 refuses
  Garbage     \* by kind, what a field may hold whose item was cut off

-----------------------------------------------------------------------------
(* The messages: the kinds of their fields, by number.                      *)

assert_loc_v1 == <<"float", "float", "string", "uint64", "uint64", "uint64", "string">>
add_gateway_v1 == <<"string", "uint64", "uint64", "string">>
wifi_connect_v1 == <<"string", "string">>
wifi_remove_v1 == <<"string">>
wifi_services_v1 == <<"strings">>
diagnostics_v1 == <<"map">>

Schemas == {assert_loc_v1, add_gateway_v1, wifi_connect_v1, wifi_remove_v1,
            wifi_services_v1, diagnostics_v1}

Wire(kind) == CASE kind = "float" -> "fixed32"
                [] kind = "uint64" -> "varint"
                [] OTHER -> "length"

Default(kind) == CASE kind = "float" -> "0"
                   [] kind = "uint64" -> "0"
                   [] kind = "string" -> ""
                   [] OTHER -> <<>>

Clear(schema) == [k \in DOMAIN schema |-> Default(schema[k])]

\* A field at its default is not written, nor merged.  Floats are compared with
\* <= and >=, so that -0 counts as the default.
IsDefault(kind, v) == v = Default(kind) \/ (kind = "float" /\ v = "-0")

\* Maps are functions from their keys.
Merged(kind, old, v) ==
  CASE kind = "strings" -> old \o v
    [] kind = "map" -> [key \in DOMAIN old \cup DOMAIN v |-> IF key \in DOMAIN v THEN v[key] ELSE old[key]]
    [] OTHER -> IF IsDefault(kind, v) THEN old ELSE v

MergeFrom(schema, to, from) == [k \in DOMAIN schema |-> Merged(schema[k], to[k], from[k])]

-----------------------------------------------------------------------------
(* Writing.                                                                 *)

Item(k, kind, v) == [num |-> k, wire |-> Wire(kind), val |-> v]

\* A map's entries, in an order that nothing depends on.
Entries(map) == FoldSet(LAMBDA key, seq : Append(seq, <<key, map[key]>>), <<>>, DOMAIN map)

ItemsOf(k, kind, v) ==
  IF kind \in {"strings", "map"}
  THEN LET elements == IF kind = "map" THEN Entries(v) ELSE v
       IN [j \in DOMAIN elements |-> Item(k, kind, elements[j])]
  ELSE IF IsDefault(kind, v) THEN <<>> ELSE <<Item(k, kind, v)>>

Serialize(schema, m) == FlattenSeq([k \in DOMAIN schema |-> ItemsOf(k, schema[k], m[k])])

VarintSize(n) ==
  IF n < 2^7 THEN 1 ELSE IF n < 2^14 THEN 2 ELSE IF n < 2^21 THEN 3 ELSE IF n < 2^28 THEN 4 ELSE 5
StringSize(s) == VarintSize(Len(s)) + Len(s)

EntrySize(entry) ==
  LET inner == 2 + StringSize(entry[1]) + StringSize(entry[2]) IN VarintSize(inner) + inner

\* What += makes of a counter, size by size.
Total(start, sizes) == FoldLeft(LAMBDA sum, size_of : sum + size_of, start, sizes)

\* The sizes of a field's elements, without their tags.
Sizes(kind, elements) ==
  [n \in DOMAIN elements |-> IF kind = "map" THEN EntrySize(elements[n]) ELSE StringSize(elements[n])]

\* Mutant: the tags of a repeated field are not counted.
ByteSizeLong_NoTags(kind, v) ==
  IF kind = "map" THEN Total(Cardinality(DOMAIN v), Sizes(kind, Entries(v))) ELSE Total(0, Sizes(kind, v))

\* The size of wifi_services_v1 and diagnostics_v1, whose only field is repeated or a
\* map: a byte of tag for each element, and the elements.
ByteSizeLong(kind, v) ==
  IF kind = "map" THEN Total(Cardinality(DOMAIN v), Sizes(kind, Entries(v))) ELSE Total(Len(v), Sizes(kind, v))

\* The bytes that such items take in the array, one behind the other, each with its
\* tag.
Written(kind, items) ==
  LET sizes == Sizes(kind, [n \in DOMAIN items |-> items[n].val])
  IN Total(0, [n \in DOMAIN sizes |-> 1 + sizes[n]])

-----------------------------------------------------------------------------
(* Reading.                                                                 *)

VARIABLES
  schema, payload,
  cut,      \* the last item is incomplete
  parsed,   \* items read
  msg, unknown_fields,
  sent,     \* history: what the peer put into the payload
  msg_pc    \* "idle", "parse", "ok" or "failed"

msgVars == <<schema, payload, cut, parsed, msg, unknown_fields, sent, msg_pc>>

\* The handler called says which message it expects.
MessagesInit(expected) ==
  /\ schema \in expected /\ payload = <<>> /\ cut = FALSE /\ parsed = 0
  /\ msg = <<>> /\ unknown_fields = <<>> /\ sent = <<>> /\ msg_pc = "idle"

\* The case of the switch and its tag.
IsKnown(s, item) == item.num \in DOMAIN s /\ item.wire = Wire(s[item.num])

IsList(seq) == seq \in Seq({seq[n] : n \in DOMAIN seq})

IsValue(kind, v) ==
  /\ kind = "strings" => IsList(v)
  /\ kind = "map" => IsFiniteSet(DOMAIN v) /\ v = [key \in DOMAIN v |-> v[key]]

IsPart(s, part) ==
  /\ DOMAIN part.msg = DOMAIN s /\ \A k \in DOMAIN s : IsValue(s[k], part.msg[k])
  /\ IsList(part.foreign)
  /\ \A j \in DOMAIN part.foreign : ~IsKnown(s, part.foreign[j])

\* A peer sends messages of the schema, one behind the other, and among them items
\* of fields that the schema does not have: a part is a message and what follows
\* it.  Tag 0 and the end of a group are items with the wire type "end".
Receive(payloads) ==
  /\ msg_pc = "idle"
  /\ sent' \in payloads[schema]
  /\ payload' = FlattenSeq([n \in DOMAIN sent' |-> Serialize(schema, sent'[n].msg) \o sent'[n].foreign])
  /\ cut' \in IF payload' = <<>> THEN {FALSE} ELSE BOOLEAN
  /\ msg' = Clear(schema)
  /\ msg_pc' = "parse"
  /\ UNCHANGED <<schema, parsed, unknown_fields>>

Next_item == payload[parsed + 1]
Whole_item == ~(cut /\ parsed + 1 = Len(payload))
Known == IsKnown(schema, Next_item)

\* Mutant: a field that was set keeps its value.
Stored_First(kind, old, v) ==
  CASE kind = "strings" -> Append(old, v)
    [] kind = "map" -> [key \in DOMAIN old \cup {v[1]} |-> IF key = v[1] THEN v[2] ELSE old[key]]
    [] OTHER -> IF old = Default(kind) THEN v ELSE old

Stored(kind, old, v) ==
  CASE kind = "strings" -> Append(old, v)
    [] kind = "map" -> [key \in DOMAIN old \cup {v[1]} |-> IF key = v[1] THEN v[2] ELSE old[key]]
    [] OTHER -> v

\* The strings that VerifyUTF8 looks at.
Texts(kind, v) == CASE kind \in {"string", "strings"} -> {v}
                    [] kind = "map" -> {v[1], v[2]}
                    [] OTHER -> {}

\* The string is stored before it is verified; a map's entry after.
Field ==
  /\ msg_pc = "parse" /\ parsed < Len(payload) /\ Known /\ Whole_item
  /\ LET k == Next_item.num
         valid == Texts(schema[k], Next_item.val) \cap NotUtf8 = {}
     IN /\ msg' = IF valid \/ schema[k] # "map"
                  THEN [msg EXCEPT ![k] = Stored(schema[k], @, Next_item.val)] ELSE msg
        /\ parsed' = IF valid THEN parsed + 1 ELSE parsed
        /\ msg_pc' = IF valid THEN "parse" ELSE "failed"
  /\ UNCHANGED <<schema, payload, cut, unknown_fields, sent>>

\* The payload ends inside the item: what was there, or was read beyond the end, is
\* stored before that is noticed, but for a map's entry.
FieldCut ==
  /\ msg_pc = "parse" /\ parsed < Len(payload) /\ Known /\ ~Whole_item
  /\ LET k == Next_item.num
         kind == schema[k]
     IN IF kind = "map" THEN UNCHANGED msg
        ELSE \E v \in Garbage[kind] : msg' = [msg EXCEPT ![k] = Stored(kind, @, v)]
  /\ msg_pc' = "failed"
  /\ UNCHANGED <<schema, payload, cut, parsed, unknown_fields, sent>>

\* handle_unusual.
Unusual ==
  /\ msg_pc = "parse" /\ parsed < Len(payload) /\ ~Known
  /\ IF Next_item.wire = "end" \/ ~Whole_item
     THEN msg_pc' = "failed" /\ UNCHANGED <<parsed, unknown_fields>>
     ELSE /\ unknown_fields' = Append(unknown_fields, Next_item) /\ parsed' = parsed + 1
          /\ UNCHANGED msg_pc
  /\ UNCHANGED <<schema, payload, cut, msg, sent>>

Done ==
  /\ msg_pc = "parse" /\ parsed = Len(payload)
  /\ msg_pc' = "ok"
  /\ UNCHANGED <<schema, payload, cut, parsed, msg, unknown_fields, sent>>

ParseNext == Field \/ FieldCut \/ Unusual \/ Done

-----------------------------------------------------------------------------
(* Properties                                                               *)

\* The first n parts, merged.
MergedParts(n) == FoldLeft(LAMBDA m, part : MergeFrom(schema, m, part.msg), Clear(schema), SubSeq(sent, 1, n))
Foreign == FlattenSeq([n \in DOMAIN sent |-> sent[n].foreign])
TextsIn(kind, v) == CASE kind = "string" -> {v}
                      [] kind = "strings" -> {v[n] : n \in DOMAIN v}
                      [] kind = "map" -> DOMAIN v \cup {v[key] : key \in DOMAIN v}
                      [] OTHER -> {}
ValidText(m) == \A k \in DOMAIN schema : TextsIn(schema[k], m[k]) \cap NotUtf8 = {}

\* Parsing succeeds exactly for a payload that is whole, and the message is then
\* what the peer's messages merge to, whatever fields of other versions stand
\* between them, which are kept apart in order.  If it fails, as the handlers do
\* not notice, every field but the one that failed holds what the peer's messages
\* up to some one of them merge to (WiFiConnect.pb.cpp:142-187, 267-277;
\* char_respond.cpp:497, 526, 552, 576).
ParsedAsSent ==
  /\ msg_pc = "ok" =>
       /\ ~cut /\ \A n \in DOMAIN sent : ValidText(sent[n].msg)
       /\ msg = MergedParts(Len(sent)) /\ unknown_fields = Foreign
  /\ msg_pc = "failed" =>
       /\ cut \/ (\E n \in DOMAIN payload : payload[n].wire = "end") \/ \E n \in DOMAIN sent : ~ValidText(sent[n].msg)
       /\ \A k \in DOMAIN schema \ {Next_item.num} :
            \E n \in 0..Len(sent) : msg[k] = MergedParts(n)[k]
=============================================================================
