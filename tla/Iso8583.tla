------------------------------ MODULE Iso8583 ------------------------------
(***************************************************************************)
(* ISO 8583 messages of nexus-iso on the wire.  A wire is the sequence of  *)
(* the type, one or two bitmaps (sets of field numbers) and then bytes; a  *)
(* length prefix is one number.  Lengths are scaled down per field class.  *)
(***************************************************************************)
EXTENDS Integers, Sequences, FiniteSets

CONSTANTS
    IsoField,               \* the fields that are set, of 2..128 (see SetElement)
    IsoValue,               \* byte sequences
    FixedLen, LlMax, LllMax,
    MaxFields

VARIABLES iso   \* mti, primary, secondary (none or one set), elements

Space == 0

\* The k-th of a set of field numbers in ascending order.
Nth(ids, k) == CHOOSE id \in ids : Cardinality({x \in ids : x <= id}) = k

Put(f, k, v) == [x \in DOMAIN f \cup {k} |-> IF x = k THEN v ELSE f[x]]

\* field_encoding; every other field is fixed.
LlVar == {2, 32, 33, 34, 35, 44, 45} \cup 99..103
LllVar == {36, 46, 47, 48} \cup 54..63 \cup 104..127
Variable(id) == id \in LlVar \cup LllVar
TooLong(id, v) == \/ id \in LlVar /\ Len(v) > LlMax
                  \/ id \in LllVar /\ Len(v) > LllMax

NewMessage(mti) == [mti |-> mti, primary |-> {}, secondary |-> << >>, elements |-> << >>]

\* Bit 1 of the primary bitmap announces the secondary one.
WithElement(m, id, v) ==
    IF id <= 64
    THEN [m EXCEPT !.primary = @ \cup {id}, !.elements = Put(@, id, v)]
    ELSE [m EXCEPT !.primary = @ \cup {1},
                   !.secondary = IF @ = << >> THEN <<{id}>> ELSE <<@[1] \cup {id}>>,
                   !.elements = Put(@, id, v)]

\* A fixed field is padded or cut to its length.
Fitted(v) == [i \in 1..FixedLen |-> IF i <= Len(v) THEN v[i] ELSE Space]

EncodeField(id, v) == IF Variable(id) THEN <<Len(v)>> \o v ELSE Fitted(v)

\* serialize_iso8583 fails for a variable field that is too long.
Serializes(m) == \A id \in DOMAIN m.elements : ~TooLong(id, m.elements[id])
Serialize(m) ==
    LET ids == DOMAIN m.elements
        data[k \in 0..Cardinality(ids)] ==
            IF k = 0 THEN <<m.mti, m.primary>> \o m.secondary
            ELSE data[k - 1] \o EncodeField(Nth(ids, k), m.elements[Nth(ids, k)])
    IN data[Cardinality(ids)]

\* Mutant: a variable field ends where the data ends.
DecodeFieldClamps(id, data, pos) ==
    LET head == IF Variable(id) THEN 1 ELSE 0
        len == IF head = 0 THEN FixedLen ELSE IF pos < Len(data) THEN data[pos + 1] ELSE 0
        end == IF pos + head + len > Len(data) THEN Len(data) ELSE pos + head + len
    IN [ok |-> TRUE, value |-> SubSeq(data, pos + head + 1, end), pos |-> end]

\* decode_field: the value at pos, or an error where the data ends before it.
DecodeField(id, data, pos) ==
    LET head == IF Variable(id) THEN 1 ELSE 0
        len == IF head = 0 THEN FixedLen ELSE IF pos < Len(data) THEN data[pos + 1] ELSE 0
        end == pos + head + len
    IN IF end > Len(data) THEN [ok |-> FALSE, value |-> << >>, pos |-> pos]
       ELSE [ok |-> TRUE, value |-> SubSeq(data, pos + head + 1, end), pos |-> end]

\* The fields the bitmaps announce; bits 1 and 65 are no fields.
Announced(m) ==
    (m.primary \ {1}) \cup (IF m.secondary = << >> THEN {} ELSE m.secondary[1] \ {65})

\* One round of the loops over the bits.
ReadBit(wire, s, id) ==
    IF ~s.ok THEN s
    ELSE LET d == DecodeField(id, wire, s.pos)
         IN [ok |-> d.ok, pos |-> d.pos, msg |-> [s.msg EXCEPT !.elements = Put(@, id, d.value)]]

Parse(wire) ==
    LET two == Len(wire) >= 2 /\ 1 \in wire[2]
        start == IF two THEN 3 ELSE 2
        head == [NewMessage(wire[1]) EXCEPT !.primary = wire[2],
                                            !.secondary = IF two THEN <<wire[3]>> ELSE << >>]
        ids == Announced(head)
        read[k \in 0..Cardinality(ids)] ==
            IF k = 0 THEN [ok |-> TRUE, pos |-> start, msg |-> head]
            ELSE ReadBit(wire, read[k - 1], Nth(ids, k))
    IN IF Len(wire) < start THEN [ok |-> FALSE] ELSE read[Cardinality(ids)]

\* create_auth_response: account, amount and trace number of the request.
AuthResponse(request, c) ==
    LET Copy(m, id) == IF id \in DOMAIN request.elements
                       THEN WithElement(m, id, request.elements[id]) ELSE m
        copied == Copy(Copy(Copy(NewMessage("auth_response"), 2), 4), 11)
    IN WithElement(WithElement(copied, 38, c), 39, c)

Init == iso = NewMessage("auth_request")

\* set_element takes any u8.  The fields of the standard are 2..128; the code
\* does not refuse the others: 0 and those above 128 shift out of the bitmap,
\* and field 1 would be read back as the announcement of a second bitmap.
SetElement ==
    /\ iso.mti = "auth_request"
    /\ \E id \in IsoField, v \in IsoValue :
        /\ id \in DOMAIN iso.elements \/ Cardinality(DOMAIN iso.elements) < MaxFields
        /\ iso' = WithElement(iso, id, v)

\* The issuer parses the request and answers it.
Answer ==
    /\ iso.mti = "auth_request" /\ Serializes(iso)
    /\ LET r == Parse(Serialize(iso))
       IN r.ok /\ \E c \in IsoValue : iso' = AuthResponse(r.msg, c)

Next == SetElement \/ Answer

-----------------------------------------------------------------------------
(* Properties *)

Normal(m) ==
    [m EXCEPT !.elements = [id \in DOMAIN @ |-> IF Variable(id) THEN @[id] ELSE Fitted(@[id])]]

\* Parsing what was serialized gives the message back, fixed fields at their
\* length, for every order in which fields were set and overwritten, across
\* both bitmaps, unless field 65 is used (serialize_iso8583, parse_iso8583).
ParsesBack ==
    Serializes(iso) /\ 65 \notin DOMAIN iso.elements =>
        LET r == Parse(Serialize(iso)) IN r.ok /\ r.msg = Normal(iso)

\* A message that arrives cut short is refused; it never parses as a message
\* with shorter or fewer fields (decode_field, parse_iso8583).
CutOffIsRefused ==
    Serializes(iso) /\ 65 \notin DOMAIN iso.elements =>
        LET wire == Serialize(iso)
        IN \A n \in 0..(Len(wire) - 1) : ~Parse(SubSeq(wire, 1, n)).ok

\* The wire carries the whole message or none (serialize_iso8583,
\* parse_iso8583).
WireIsFaithful == ParsesBack /\ CutOffIsRefused
=============================================================================
