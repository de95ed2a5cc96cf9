-------------------------------- MODULE Json ---------------------------------
(***************************************************************************)
(* How the SDK writes and reads JSON: values are found by scanning for     *)
(* quotes, colons and brackets, without a tree (json_parser.c,             *)
(* json_token.c), and documents are printed piece by piece into a buffer,  *)
(* each piece over the last character of the one before it                 *)
(* (data_template_client_json.c and its callers). A document is a          *)
(* sequence of symbols; a number is its digits, true, false and null are   *)
(* one symbol each.                                                        *)
(***************************************************************************)
EXTENDS Integers, Sequences, SequencesExt, FiniteSetsExt

CONSTANTS
    Keys,      \* bound: keys of a document
    StringValues,   \* bound: contents of strings, sequences of symbols
    Sizes,     \* bound: sizes of the buffer a document is printed into
    Rooms,     \* bound: entries there is room for when an array is parsed
    Null

VARIABLE jsDone   \* what was written or read: [op, meant, ...], or Null

Quote == "quote"
Digits == {"1", "2"}
-----------------------------------------------------------------------------
\* Documents as they are meant: trees and their text.
Leaves  == [t : {"num"}, v : {<<"1">>, <<"2", "1">>}] \cup [t : {"str"}, v : StringValues]
           \cup [t : {"word"}, v : {<<"true">>, <<"null">>}]
Members(values) ==
    UNION {{[i \in 1 .. n |-> [key |-> k[i], value |-> u[i]]] :
               k \in {f \in [1 .. n -> Keys] : IsInjective(f)}, u \in [1 .. n -> values]} :
           n \in 1 .. 2}

String(s) == <<Quote>> \o s \o <<Quote>>
Pair(key, text) == String(<<key>>) \o <<":">> \o text
Joined(texts) == FoldLeft(LAMBDA a, b : IF a = <<>> THEN b ELSE a \o <<",">> \o b, <<>>, texts)
Object(pairs) == <<"{">> \o Joined(pairs) \o <<"}">>

\* A value whose members or entries have their text by Of. No value has more than two
\* objects or arrays in one another.
Around(u, Of(_)) ==
    CASE u.t = "obj" -> Object([i \in DOMAIN u.members |-> Pair(u.members[i].key, Of(u.members[i].value))])
      [] u.t = "arr" -> <<"[">> \o Joined([i \in DOMAIN u.entries |-> Of(u.entries[i])]) \o <<"]">>
      [] u.t = "str" -> String(u.v)
      [] OTHER       -> u.v
Flat(u)  == Around(u, LAMBDA v : IF v.t = "str" THEN String(v.v) ELSE v.v)
Text(u)  == Around(u, Flat)
Pairs(members) == [i \in DOMAIN members |-> Pair(members[i].key, Text(members[i].value))]
-----------------------------------------------------------------------------
\* The first of these positions, or 0, and the positions of s from i on, none from 0.
First(places) == IF places = {} THEN 0 ELSE Min(places)
From(s, i) == IF i = 0 THEN {} ELSE i .. Len(s)

Starts == {Quote, "{", "["} \cup Digits \cup {"true", "false", "null"}

Depth(s, i, j, open, close) ==
    Cardinality({k \in i .. j : s[k] = open}) - Cardinality({k \in i .. j : s[k] = close})

\* The bracket that closes the one at this place; those inside of strings count too.
Closing(s, at, open, close) ==
    First({j \in From(s, at + 1) : s[j] = close /\ Depth(s, at + 1, j - 1, open, close) = 0})

(* json_get_next_object, the end of the value that begins at this place, or 0. *)
(* A quote behind a backslash does not end a string.                           *)
EndOf(s, at) ==
    CASE s[at] = Quote ->
             First({j \in From(s, at + 1) : s[j] = Quote /\ s[j - 1] # "backslash"})
      [] s[at] = "{" -> Closing(s, at, "{", "}")
      [] s[at] = "[" -> Closing(s, at, "[", "]")
      [] s[at] \in Digits -> First({j \in From(s, at + 1) : s[j] \notin Digits})
      [] OTHER -> at

\* The value there, without its quotes, and where to read on; its length is 0 when its end
\* is not found.
Value(s, at, end) ==
    IF at = 0 THEN [at |-> 0, len |-> 0, next |-> 0, kind |-> "none"]
    ELSE LET quoted == IF s[at] = Quote THEN 1 ELSE 0
             len    == CASE end = 0 -> 0
                         [] s[at] = Quote \/ s[at] \in Digits -> end - at - quoted
                         [] OTHER -> end - at + 1
         IN  [at |-> at + quoted, len |-> len, next |-> at + len + 2 * quoted, kind |-> s[at]]
ValueFrom(s, at) == Value(s, at, IF at = 0 THEN 0 ELSE EndOf(s, at))
ValueAt(s, colon) == ValueFrom(s, First({j \in From(s, colon) : s[j] \in Starts}))

(* json_get_next_object: the key between the next two quotes, the value behind *)
(* the next colon. Nothing ends the object: what follows it is read on.        *)
NextQuote(s, i) == First({j \in From(s, i) : s[j] = Quote})
PairOf(s, open, close) ==
    IF close = 0 THEN Null
    ELSE [key |-> SubSeq(s, open + 1, close - 1),
          value |-> ValueAt(s, First({j \in From(s, close) : s[j] = ":"}))]
KeyedAt(s, open) == PairOf(s, open, IF open = 0 THEN 0 ELSE NextQuote(s, open + 1))
NextPair(s, i) == KeyedAt(s, NextQuote(s, i))

(* json_parse_name_value, json_get_value_by_name: the value of the first pair *)
(* with this key; a key or a value without a symbol is passed over.            *)
FindKey(s, i, key) ==
    LET IsKey(pair) == pair.key = <<key>> /\ pair.value.len > 0
        find[k \in Nat] ==
            IF k = 0 \/ k > Len(s) THEN Null
            ELSE LET pair == NextPair(s, k)
                 IN  IF pair = Null THEN Null
                     ELSE IF pair.value.next # 0 /\ IsKey(pair) THEN pair.value
                     ELSE find[pair.value.next]
    IN  find[i]

(* json_get_object *)
Lookup(s, i, key) == IF s[i] = "{" THEN FindKey(s, i, key) ELSE Null

(* LITE_json_value_of: a path of one key or of two. The object of the first key *)
(* is not cut off before the second is looked up in it.                         *)
Inside(s, outer, path) ==
    IF Len(path) = 1 \/ outer = Null THEN outer ELSE Lookup(s, outer.at, path[2])
Extract(s, found) == IF found = Null THEN Null ELSE SubSeq(s, found.at, found.at + found.len - 1)
ValueOf(s, path) == Extract(s, Inside(s, Lookup(s, 1, path[1]), path))

(* json_array_for_each_entry: the entries with their kinds *)
EntriesFrom(s, i) ==
    LET entries[k \in Nat] ==
            IF k = 0 \/ k > Len(s) THEN <<>>
            ELSE LET v == ValueAt(s, k + 1)
                 IN  IF v.next = 0 THEN <<>>
                     ELSE <<[kind |-> v.kind, text |-> Extract(s, v)]>> \o entries[v.next]
    IN  entries[i]

(* LITE_dt_parse_primitive_array, LITE_dt_parse_str_array: entries of another *)
(* kind are passed over, those there is no room for end the loop.             *)
ParsedArray(s, strings, room) ==
    LET wanted == SelectSeq(EntriesFrom(s, 1),
                            LAMBDA e : IF strings THEN e.kind = Quote ELSE e.kind \in Digits)
    IN  [i \in 1 .. Min({room, Len(wanted)}) |-> wanted[i].text]
-----------------------------------------------------------------------------
\* A document that is printed: whether all went well, its text, and the size of its buffer
\* as it is known where it is printed.
Sized(doc, size) == [doc EXCEPT !.size = size]
Room(doc) == doc.size - Len(doc.text)

(* HAL_Snprintf behind the text, less the symbols of it that are overwritten; *)
(* check_snprintf_return. A caller may have measured the room before.         *)
PrintedIn(doc, over, piece, room) ==
    IF ~doc.ok \/ Len(piece) >= room THEN [doc EXCEPT !.ok = FALSE]
    ELSE [doc EXCEPT !.text = SubSeq(@, 1, Len(@) - over) \o piece]
Printed(doc, over, piece) == PrintedIn(doc, over, piece, Room(doc))

(* put_json_node: a key and a value; _format_json_buffer prints the value.     *)
PutKey(doc, key) == Printed(doc, 0, String(<<key>>) \o <<":">>)
PutValue(doc, text) == Printed(doc, 0, text \o <<",">>)
PutLeaf(doc, node) == PutValue(PutKey(doc, node.key), Text(node.value))

PutNode(doc, node) ==
    IF node.value.t # "obj" THEN PutLeaf(doc, node)
    ELSE LET open == Printed(PutKey(doc, node.key), 0, <<"{">>)
         IN  Printed(FoldLeft(PutLeaf, open, node.value.members), 1, <<"}", ",">>)

PutAll(doc, nodes) == FoldLeft(PutNode, doc, nodes)

(* template_put_json_node: a Boolean is printed as a number. *)
Plain(u) == IF u.v = <<"true">> THEN <<"1">> ELSE Text(u)
PutPlain(doc, nodes) ==
    FoldLeft(LAMBDA d, n : PutValue(PutKey(d, n.key), Plain(n.value)), doc, nodes)

(* build_empty_json *)
Token == String(<<"t">>)
Empty(size) == [ok |-> TRUE, text |-> <<"{">> \o Pair("clientToken", Token) \o <<"}">>, size |-> size]
Open(key) == <<",">> \o String(<<key>>) \o <<":", "{">>

(* The params of a document: the nodes are given as the size of their buffer what *)
(* was left of it in front of them.                                               *)
Params(nodes, size) ==
    Sized(PutAll(Sized(Printed(Empty(size), 1, Open("params")), Room(Empty(size))), nodes), size)

(* IOT_Template_JSON_ConstructReportArray *)
Report(nodes, size) == Printed(Params(nodes, size), 1, <<"}", "}">>)

(* IOT_Template_JSON_ConstructSysInfo *)
SysInfo(nodes, labels, size) ==
    LET params == Printed(Params(nodes, size), 1, <<"}", ",">>)
        left   == Room(params)
        self   == PutAll(Sized(Printed(params, 2, Open("device_label")), left), labels)
        done   == IF labels = <<>> THEN params ELSE PrintedIn(self, 1, <<"}", "}", ",">>, left)
    IN  Printed(Sized(done, size), 1, <<"}">>)

(* _iot_event_json_init, _iot_action_json_init *)
Begun(method, size) ==
    Printed([ok |-> TRUE, text |-> <<>>, size |-> size], 0,
            <<"{">> \o Pair("method", String(<<method>>)) \o <<",">> \o Pair("clientToken", Token)
                \o <<",">>)
EventHead(key) == Pair(key, String(<<key>>)) \o <<",">> \o String(<<"params">>) \o <<":", "{">>

(* The nodes behind a head have what is left of the buffer for its size. *)
PutBehind(head, nodes) == Sized(PutPlain(Sized(head, Room(head)), nodes), head.size)

(* _iot_construct_event_json: the head of an event is given the room there was in *)
(* front of the brackets that end the one before it.                              *)
Events(events, size) ==
    LET many  == Len(events) > 1
        begun == Begun("event", size)
        open  == IF many THEN Printed(begun, 0, String(<<"events">>) \o <<":", "[", "{">>) ELSE begun
        Put(acc, i) ==
            LET all == PutBehind(PrintedIn(acc.doc, 0, EventHead("id"), acc.room), events[i])
                end == CASE ~many           -> <<"}">>
                         [] i = Len(events) -> <<"}", "}">>
                         [] OTHER           -> <<"}", "}", ",", "{">>
            IN  [doc |-> Printed(all, 1, end), room |-> Room(all)]
        last  == FoldLeft(Put, [doc |-> open, room |-> Room(open)], [i \in DOMAIN events |-> i]).doc
    IN  Printed(IF many THEN Printed(last, 1, <<"}", "]">>) ELSE last, 0, <<"}">>)

(* _iot_construct_action_json *)
Action(nodes, size) ==
    LET all == PutBehind(Printed(Begun("action", size), 0, EventHead("code")), nodes)
    IN  Printed(Printed(all, 1, <<"}">>), 0, <<"}">>)

(* _set_template_json_type, insert_str: the method goes behind the first bracket. *)
WithMethod(doc) ==
    LET piece == Pair("method", String(<<"report">>)) \o <<",">>
    IN  IF Len(piece) >= Room(doc) - 1 THEN [doc EXCEPT !.ok = FALSE]
        ELSE [doc EXCEPT !.text = <<@[1]>> \o piece \o Tail(@)]
-----------------------------------------------------------------------------
Nodes == Members(Leaves \cup [t : {"obj"}, members : Members([t : {"num"}, v : {<<"1">>}])])
Plains == Members([t : {"num"}, v : {<<"1">>}] \cup [t : {"word"}, v : {<<"true">>}])
Inner  == [t : {"num"}, v : {<<"1">>}]
Deep   == [t : {"obj"}, members : {m \in Members(Inner) : Len(m) = 1}]
Nested == [t : {"num"}, v : {<<"2", "1">>}] \cup [t : {"str"}, v : StringValues]
          \cup [t : {"obj"}, members : Members(Inner \cup Deep)]
Arrays == [t : {"arr"}, entries : UNION {[1 .. n -> Leaves] : n \in 0 .. 2}]
Paths  == {<<k>> : k \in Keys} \cup {<<k, l>> : k \in Keys, l \in Keys}

Write(op, meant, doc) == jsDone' = [op |-> op, meant |-> meant, doc |-> doc]

WriteReport(nodes, size) ==
    LET doc == Report(nodes, size)
    IN  Write("report", nodes, IF doc.ok THEN WithMethod(doc) ELSE doc)
WriteSysInfo(nodes, labels, size) == Write("info", <<nodes, labels>>, SysInfo(nodes, labels, size))
WriteEvents(events, size) == Write("events", events, Events(events, size))
WriteAction(nodes, size) == Write("action", nodes, Action(nodes, size))

(* parse_client_token, parse_template_get_control, update_value_if_key_match and others *)
Read(members) ==
    jsDone' = [op |-> "read", meant |-> members,
                  found |-> [p \in Paths |-> ValueOf(Object(Pairs(members)), p)]]

ParseArray(u, strings, room) ==
    jsDone' = [op |-> "array", meant |-> u.entries, strings |-> strings, room |-> room,
                  found |-> ParsedArray(Text(u), strings, room)]

Init == jsDone = Null

Writes ==
    \/ \E nodes \in Nodes, size \in Sizes : WriteReport(nodes, size)
    \/ \E nodes \in Plains, labels \in Plains \cup {<<>>}, size \in Sizes :
         WriteSysInfo(nodes, labels, size)
    \/ \E first \in Plains, rest \in Plains, n \in 1 .. 2, size \in Sizes :
         WriteEvents(SubSeq(<<first, rest>>, 1, n), size)
    \/ \E nodes \in Plains, size \in Sizes : WriteAction(nodes, size)

Reads ==
    \/ \E members \in Members(Nested) : Read(members)
    \/ \E u \in Arrays, strings \in BOOLEAN, room \in Rooms : ParseArray(u, strings, room)

Next == jsDone = Null /\ (Writes \/ Reads)

Spec == Init /\ [][Next]_jsDone
-----------------------------------------------------------------------------
Written == {"report", "info", "events", "action"}

\* What was done is recorded with its outcome.
TypeOK == jsDone # Null => jsDone.op \in Written \cup {"read", "array"}

\* The document that is meant: the text of its tree.
PlainText(nodes) == Object([i \in DOMAIN nodes |-> Pair(nodes[i].key, Plain(nodes[i].value))])
Meant ==
    LET m == jsDone.meant
        token == Pair("clientToken", Token)
        Named(name) == Pair("method", String(<<name>>))
        Event(nodes) == <<Pair("id", String(<<"id">>)), Pair("params", PlainText(nodes))>>
    IN  CASE jsDone.op = "report" ->
                 Object(<<Named("report"), token, Pair("params", Object(Pairs(m)))>>)
          [] jsDone.op = "info" ->
                 Object(<<token, Pair("params", Object(Pairs(m[1]) \o
                            IF m[2] = <<>> THEN <<>> ELSE <<Pair("device_label", Object(Pairs(m[2])))>>))>>)
          [] jsDone.op = "events" ->
                 Object(<<Named("event"), token>> \o
                        IF Len(m) = 1 THEN Event(m[1])
                        ELSE <<Pair("events", <<"[">> \o Joined([i \in DOMAIN m |-> Object(Event(m[i]))])
                                              \o <<"]">>)>>)
          [] OTHER ->
                 Object(<<Named("action"), token, Pair("code", String(<<"code">>)),
                          Pair("params", PlainText(m))>>)

\* A document that is printed piece by piece, each piece over the end of the one before it,
\* is that of its tree, and it ends within the buffer (_iot_construct_event_json and others);
\* a list of events alone may run past it, as the room for a head is measured too early.
DocumentAsMeant ==
    jsDone # Null /\ jsDone.op \in Written =>
        (jsDone.doc.ok => /\ jsDone.doc.text = Meant
                          /\ \/ Len(jsDone.doc.text) < jsDone.doc.size
                             \/ jsDone.op = "events" /\ Len(jsDone.meant) > 1)

\* The value of a key is that of the tree, for a key of the document and for a key of an
\* object in it, whatever stands in front of them; an empty string counts as no value, and a
\* key that is nowhere has none. (A key that the inner object lacks may be found behind it.)
Member(members, key) == {i \in DOMAIN members : members[i].key = key}
LookupFinds ==
    jsDone # Null /\ jsDone.op = "read" =>
        \A p \in Paths :
            LET m     == jsDone.meant
                outer == Member(m, p[1])
                at    == CHOOSE i \in outer : TRUE
                u     == m[at].value
                Expected(v) == IF v.t = "str" THEN (IF v.v = <<>> THEN Null ELSE v.v) ELSE Text(v)
                inner == Member(u.members, p[2])
            IN  CASE outer = {}   -> jsDone.found[p] = Null
                  [] Len(p) = 1   -> jsDone.found[p] = Expected(u)
                  [] u.t # "obj"  -> jsDone.found[p] = Null
                  [] inner # {}   -> LET v == u.members[CHOOSE i \in inner : TRUE].value
                                     IN  Text(v) # String(<<>>) => jsDone.found[p] = Expected(v)
                  [] OTHER        -> TRUE

\* The entries of an array that are of the kind asked for, as many as there is room for.
ArrayEntries ==
    jsDone # Null /\ jsDone.op = "array" =>
        LET kind   == IF jsDone.strings THEN "str" ELSE "num"
            wanted == SelectSeq(jsDone.meant, LAMBDA e : e.t = kind)
        IN  /\ Len(jsDone.found) = Min({jsDone.room, Len(wanted)})
            /\ \A i \in DOMAIN jsDone.found : jsDone.found[i] = wanted[i].v
=============================================================================
