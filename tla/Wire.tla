-------------------------------- MODULE Wire --------------------------------
(* wire.py, and the half of connection.py that cuts the socket's bytes into  *)
(* messages.  A byte is a cell <<what, of, i, size>>: byte i of a number, a   *)
(* character, or the NUL that pads and ends; the byte order is left out.      *)
(* A value is <<type code, contents>>, a variant <<"v", signature, value>>.   *)
EXTENDS Integers, Sequences, SequencesExt, FiniteSetsExt
CONSTANTS Messages,     \* what peers send, by name: type, version, serial, attrs, body
          Chunks,       \* how many bytes one recv() may return
          MaxMessages   \* bound: messages on the stream
VARIABLES sent, wire, buffer, received
vars == <<sent, wire, buffer, received>>

SizeOf(code) == CASE code \in {"y"} -> 1 [] code \in {"n", "q"} -> 2
                  [] code \in {"b", "i", "u", "h"} -> 4 [] code \in {"x", "t", "d"} -> 8
Fixed == {"y", "b", "n", "q", "i", "u", "x", "t", "d", "h"}
Bracket == {"(", "{"}
alignment(sig) ==
    IF sig[1] \in Fixed THEN SizeOf(sig[1])
    ELSE CASE sig[1] \in {"s", "o", "a"} -> 4 [] sig[1] \in Bracket -> 8 [] OTHER -> 1
Pad(p, to) == (-p) % to

\* How much of sig its first complete type takes: a bracket reaches to its partner.
RECURSIVE CompleteType(_)
CompleteType(sig) ==
    LET Count(n, S) == Quantify(1..n, LAMBDA k : sig[k] \in S)
    IN  CASE sig[1] = "a" -> 1 + CompleteType(Tail(sig))
          [] sig[1] \in Bracket ->
               Min({n \in 1..Len(sig) : Count(n, Bracket) = Count(n, {")", "}"})})
          [] OTHER -> 1
RECURSIVE split_signature(_)
split_signature(sig) ==
    IF sig = <<>> THEN <<>>
    ELSE LET n == CompleteType(sig)
         IN <<SubSeq(sig, 1, n)>> \o split_signature(SubSeq(sig, n + 1, Len(sig)))
Members(sig) == split_signature(SubSeq(sig, 2, Len(sig) - 1))

(*-------------------------------- sending --------------------------------*)
Nul == <<"nul", 0, 0, 0>>
Nuls(n) == [i \in 1..n |-> Nul]
Number(n, size) == [i \in 1..size |-> <<"number", n, i, size>>]
Text(t, size) == Number(Len(t), size) \o [i \in DOMAIN t |-> <<"char", t[i], 0, 0>>] \o <<Nul>>

RECURSIVE MarshalOne(_, _, _)
\* marshal: values one behind the other, each aligned to where it starts.
MarshalAll(types, values, p) ==
    FoldLeftDomain(LAMBDA cells, i : cells \o MarshalOne(types[i], values[i], p + Len(cells)),
                   <<>>, values)
MarshalArray(element, items, p) ==
    LET gap == Pad(p + 4, alignment(element))
        body == MarshalAll([i \in DOMAIN items |-> element], items, p + 4 + gap)
    IN  Number(Len(body), 4) \o Nuls(gap) \o body
MarshalStruct(sig, members, p) == MarshalAll(Members(sig), members, p)
MarshalOne(sig, value, p) ==
    LET code == sig[1]
        gap == Pad(p, alignment(sig))
        at == p + gap
        inner == Text(value[2], 1)
    IN  Nuls(gap) \o
        CASE code \in Fixed -> Number(value[2], SizeOf(code))
          [] code \in {"s", "o"} -> Text(value[2], 4)
          [] code = "g" -> Text(value[2], 1)
          [] code = "v" -> inner \o MarshalOne(value[2], value[3], at + Len(inner))
          [] code = "a" -> MarshalArray(Tail(sig), value[2], at)
          [] code \in Bracket -> MarshalStruct(sig, value[2], at)

\* The header fields in the order to_bytes writes them; the daemon adds the sender and
\* whatever else a peer may send, such as the count of file descriptors.
FieldNames == <<"path", "interface", "member", "error_name", "reply_serial", "destination",
                "sender", "signature", "unix_fds">>
FieldType(f) == CASE f = "path" -> "o" [] f = "signature" -> "g"
                  [] f \in {"reply_serial", "unix_fds"} -> "u" [] OTHER -> "s"
to_bytes(m) ==
    LET present == SelectSeq([i \in DOMAIN FieldNames |-> i], LAMBDA i : FieldNames[i] \in DOMAIN m.attrs)
        fields == [k \in DOMAIN present |->
                     LET f == FieldNames[present[k]]
                     IN <<"(", <<<<"y", present[k]>>,
                                 <<"v", <<FieldType(f)>>, <<FieldType(f), m.attrs[f]>>>>>>>>]
        body == IF "signature" \in DOMAIN m.attrs
                THEN MarshalAll(split_signature(m.attrs["signature"]), m.body, 0) ELSE <<>>
        head == <<Nul, <<"number", m.type, 1, 1>>, Nul, <<"number", m.version, 1, 1>>>>
                \o Number(Len(body), 4) \o Number(m.serial, 4)
        whole == head \o MarshalOne(<<"a", "(", "y", "v", ")">>, <<"a", fields>>, Len(head))
    IN  whole \o Nuls(Pad(Len(whole), 8)) \o body

(*-------------------------------- reading --------------------------------*)
\* A WireError; so is, here, a number or a text read where none was written.
WireError == [value |-> <<"WireError">>, at |-> -1]
Failed(r) == r.at = -1

take(data, p, size) ==
    IF p + size > Len(data) \/ data[p + 1][1] # "number" THEN WireError
    ELSE IF \A i \in 1..size : data[p + i] = <<"number", data[p + 1][2], i, size>>
         THEN [value |-> data[p + 1][2], at |-> p + size] ELSE WireError
ReadText(code, data, p, size) ==
    LET n == take(data, p, size) IN
    IF Failed(n) \/ n.at + n.value + 1 > Len(data) THEN WireError
    ELSE IF \E i \in 1..n.value : data[n.at + i][1] # "char" THEN WireError
    ELSE [value |-> <<code, [i \in 1..n.value |-> data[n.at + i][2]]>>, at |-> n.at + n.value + 1]

RECURSIVE read(_, _, _)
\* The values of the types in turn.
ReadAll(types, data, p) ==
    FoldLeft(LAMBDA r, type : IF Failed(r) THEN r
                 ELSE LET one == read(type, data, r.at)
                      IN IF Failed(one) THEN one
                         ELSE [value |-> Append(r.value, one.value), at |-> one.at],
             [value |-> <<>>, at |-> p], types)
\* Elements until the array's bytes are used up.
RECURSIVE ReadItems(_, _, _, _)
ReadItems(element, data, r, end) ==
    IF Failed(r) \/ r.at >= end THEN r
    ELSE LET one == read(element, data, r.at)
         IN IF Failed(one) THEN one
            ELSE ReadItems(element, data, [value |-> Append(r.value, one.value), at |-> one.at], end)
_read_array(element, data, p) ==
    LET n == take(data, p + Pad(p, 4), 4)
        start == n.at + Pad(n.at, alignment(element))
    IN  IF Failed(n) \/ start + n.value > Len(data) THEN WireError
        ELSE ReadItems(element, data, [value |-> <<>>, at |-> start], start + n.value)
\* A variant gives the value it holds, and holds exactly one type.
ReadVariant(data, p) ==
    LET inner == ReadText("g", data, p, 1) IN
    IF Failed(inner) THEN WireError
    ELSE LET types == split_signature(inner.value[2])
         IN IF Len(types) # 1 THEN WireError ELSE read(types[1], data, inner.at)
Tagged(code, r) == IF Failed(r) THEN r ELSE [r EXCEPT !.value = <<code, r.value>>]
read(sig, data, p) ==
    LET code == sig[1] IN
    CASE code \in Fixed -> Tagged(code, take(data, p + Pad(p, SizeOf(code)), SizeOf(code)))
      [] code \in {"s", "o"} -> ReadText(code, data, p + Pad(p, 4), 4)
      [] code = "g" -> ReadText(code, data, p, 1)
      [] code = "v" -> ReadVariant(data, p)
      [] code = "a" -> Tagged(code, _read_array(Tail(sig), data, p))
      [] code \in Bracket -> Tagged(code, ReadAll(Members(sig), data, p + Pad(p, 8)))

\* What the header fields say; fields it does not know are passed over.
Attrs(fields) ==
    [f \in {FieldNames[x[2][1][2]] : x \in ToSet(fields)} \ {"unix_fds"} |->
        LET x == CHOOSE x \in ToSet(fields) : FieldNames[x[2][1][2]] = f IN x[2][2][2]]
ReadBody(attrs, data, p) ==
    IF "signature" \in DOMAIN attrs THEN ReadAll(split_signature(attrs["signature"]), data, p)
    ELSE [value |-> <<>>, at |-> p]
Assembled(data, fields, body, end) ==
    IF end > Len(data) \/ Failed(body) THEN WireError
    ELSE [at |-> end, value |-> [type |-> data[2][2], serial |-> data[9][2],
                                 attrs |-> Attrs(fields), body |-> body.value]]
Behind(fields, data) ==
    LET start == fields.at + Pad(fields.at, 8)
    IN  IF data[4][2] # 1 \/ Failed(fields) THEN WireError
        ELSE Assembled(data, fields.value[2], ReadBody(Attrs(fields.value[2]), data, start),
                       start + data[5][2])
\* The message in data, or a WireError.
from_bytes(data) == Behind(read(<<"a", "(", "y", "v", ")">>, data, 12), data)

\* Mutant: the padding behind the header fields is forgotten.
message_length_unpadded(data) ==
    IF Len(data) < 16 THEN 0 ELSE 16 + data[13][2] + data[5][2]

\* How long the first message of data is, or 0 while its header is incomplete.
message_length(data) ==
    IF Len(data) < 16 THEN 0
    ELSE LET end == 16 + data[13][2] IN end + Pad(end, 8) + data[5][2]
Complete(data) == message_length(data) \in 1..Len(data)

(*------------------------------ the connection ------------------------------*)
Init == sent = <<>> /\ wire = <<>> /\ buffer = <<>> /\ received = <<>>

\* A peer, through the daemon.
Send(m) ==
    /\ Len(sent) < MaxMessages
    /\ sent' = Append(sent, m)
    /\ wire' = wire \o to_bytes(Messages[m])
    /\ UNCHANGED <<buffer, received>>

\* _take_buffered: the bytes are gone before from_bytes may refuse them.
_take_buffered(data) ==
    IF ~Complete(data) THEN buffer' = data /\ UNCHANGED received
    ELSE LET n == message_length(data)
             message == from_bytes(SubSeq(data, 1, n))
         IN /\ buffer' = SubSeq(data, n + 1, Len(data))
            /\ received' = IF Failed(message) THEN received ELSE Append(received, message.value)

\* _read_message: a message that is complete already comes before another recv().
_read_message(n) ==
    /\ Complete(buffer) \/ wire # <<>>
    /\ LET some == IF Complete(buffer) THEN 0 ELSE Min({n, Len(wire)})
       IN /\ wire' = SubSeq(wire, some + 1, Len(wire))
          /\ _take_buffered(buffer \o SubSeq(wire, 1, some))
    /\ UNCHANGED sent

Next ==
    \/ \E m \in DOMAIN Messages : Send(m)
    \/ \E n \in Chunks : _read_message(n)

(*------------------------------- properties -------------------------------*)
\* What a value is once its variants are opened.
RECURSIVE Plain(_)
Plain(value) ==
    CASE value[1] = "v" -> Plain(value[3])
      [] value[1] \in {"a"} \cup Bracket ->
           <<value[1], [i \in DOMAIN value[2] |-> Plain(value[2][i])]>>
      [] OTHER -> value
\* What a receiver is owed: messages of our protocol version, but for a variant of two types.
Sound(m) == m.version = 1 /\ \A i \in DOMAIN m.body : m.body[i][1] = "v" => Len(split_signature(m.body[i][2])) = 1
Owed == LET good == SelectSeq(sent, LAMBDA m : Sound(Messages[m]))
        IN [i \in DOMAIN good |->
              LET m == Messages[good[i]]
              IN [type |-> m.type, serial |-> m.serial,
                  attrs |-> [f \in DOMAIN m.attrs \ {"unix_fds"} |-> m.attrs[f]],
                  body |-> [k \in DOMAIN m.body |-> Plain(m.body[k])]]]

\* Every message arrives as it was sent, once and in order, wherever the socket cuts
\* the stream, whatever its types are aligned to, and although one before it could
\* not be parsed (wire.py; _read_message and _take_buffered of connection.py).
RoundTrip ==
    /\ IsPrefix(received, Owed)
    /\ (wire = <<>> /\ ~Complete(buffer)) => buffer = <<>> /\ received = Owed
=============================================================================
