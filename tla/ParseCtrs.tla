----------------------------- MODULE ParseCtrs -----------------------------
(***************************************************************************)
(* LTE/parseCTRS.py: from the bytes of a record to the values of its       *)
(* fields.  A value, a text in the code, is a pair of how it is written    *)
(* and what is written.  Python's text of a bytes object stands for the    *)
(* bytes; that convByteA cuts it at 100 characters is left out.            *)
(***************************************************************************)
EXTENDS Schema

None    == <<"None">>
Raised  == <<"raised">>
null    == <<"null">>
missing == <<"missing">>

\* raw[a:b] of Python, which stops at the end.
Slice(raw, a, b) == SubSeq(raw, a + 1, Min({b, Len(raw)}))

\* int.from_bytes(raw, 'big')
Number(raw) ==
    LET n[i \in 0 .. Len(raw)] == IF i = 0 THEN 0 ELSE 256 * n[i - 1] + raw[i]
    IN  n[Len(raw)]

\* raw.hex(): two digits a byte.
Nibbles(raw) ==
    [i \in 1 .. 2 * Len(raw) |-> IF i % 2 = 1 THEN raw[(i + 1) \div 2] \div 16
                                              ELSE raw[i \div 2] % 16]

\* The last n bytes of a number, with zeros in front when it is shorter.
LowBytes(n, raw) == LET p == [i \in 1 .. n |-> 0] \o raw
                    IN  SubSeq(p, Len(p) - n + 1, Len(p))

\* %02x, or %x when n is 1: zeros in front are not written beyond n digits.
Hex(n, digits) ==
    LET from == Min({i \in DOMAIN digits : digits[i] # 0 \/ Len(digits) - i < n})
    IN  SubSeq(digits, from, Len(digits))

convInt(raw)   == <<"int", Number(raw)>>
convBin(raw)   == <<"0x", Nibbles(raw)>>
convStr(raw)   == IF raw = <<>> THEN null ELSE <<"text", raw>>
convByteA(raw) == IF raw = <<>> THEN null ELSE <<"text", raw>>

\* The labels are looked for in the text of the bytes, whose first character,
\* a b, asks for a label of 98: a text of at most 99 characters comes out in
\* one piece.  Longer ones, whose characters behind it are taken for labels
\* again, are not modelled, and neither are those convByteA cuts at 100.
convDNS(raw)  == IF raw = <<>> THEN null ELSE <<"text", raw>>
convIBCD(raw) == IF raw = <<>> THEN null ELSE <<"digits", Reverse(Nibbles(raw))>>

\* The nibbles of each byte change places, and one f at the end is dropped.
convTBCD(raw) ==
    LET n    == Nibbles(raw)
        imsi == [i \in DOMAIN n |-> n[IF i % 2 = 1 THEN i + 1 ELSE i - 1]]
    IN  IF raw = <<>> THEN null
        ELSE <<"digits", IF Last(imsi) = 15 THEN Front(imsi) ELSE imsi>>

convIPv4(raw) == IF raw = <<>> THEN null ELSE <<"0x", Nibbles(LowBytes(4, raw))>>

\* Eight groups, one after the other.
convIPv6(raw) ==
    LET n == Nibbles(LowBytes(16, raw))
        group(g) == Hex(IF g = 8 THEN 1 ELSE 2, SubSeq(n, 4 * g - 3, 4 * g))
    IN  IF raw = <<>> THEN null ELSE <<"0x", FlattenSeq([g \in 1 .. 8 |-> group(g)])>>

rawConv(type, raw) ==
    CASE type \in {"UINT", "ENUM", "LONG"} -> convInt(raw)
      [] type \in {"FROREF", "BINARY", "BCD"} -> convBin(raw)
      [] type = "STRING" -> convStr(raw)
      [] type = "IPADDRESS" -> convIPv4(raw)
      [] type = "IPADDRESSV6" -> convIPv6(raw)
      [] type = "TBCD" -> convTBCD(raw)
      [] type = "IBCD" -> convIBCD(raw)
      [] type = "DNSNAME" -> convDNS(raw)
      [] type = "BYTEARRAY" -> convByteA(raw)
      [] OTHER -> Raised

\* The value of a field that is filtered, or of any when isFiltered is FALSE.
\* The first bit of a field with a valid bit is set when it is not valid.
decodeField(raw, field, isFiltered) ==
    IF isFiltered /\ ~field.isFiltered THEN None
    ELSE IF field.isValidBit /\ raw = <<>> THEN Raised
    ELSE IF field.isValidBit /\ raw[1] >= 128 THEN None
    ELSE rawConv(field.fieldType, raw)

\* The fields whose value is the length of the next one.
IsLength(field) == field.dbName \in {<<"L3MESSAGELENGTH", 0>>, <<"MESSAGELENGTH", 0>>}

\* result[name] = value, and result.pop(name).
Set(result, name, value) ==
    [n \in DOMAIN result \cup {name} |-> IF n = name THEN value ELSE result[n]]
Pop(result, name) == [n \in DOMAIN result \ {name} |-> result[n]]

\* Mutant of parseField: nvl is never reset.
parseFieldOn(st, field, raw, isFiltered) ==
    LET end   == st.offset + field.fieldLen + st.nvl
        value == decodeField(Slice(raw, st.offset, end), field, isFiltered)
    IN  IF st.stop # "no" THEN st
        ELSE IF end >= Len(raw) THEN [st EXCEPT !.stop = "end"]
        ELSE IF value = Raised THEN [st EXCEPT !.stop = "raised"]
        ELSE [stop   |-> "no", offset |-> end,
              nvl    |-> IF IsLength(field) /\ value[1] = "int" THEN value[2] ELSE st.nvl,
              result |-> IF value = None THEN st.result
                         ELSE Set(st.result, field.fieldName, value)]

\* One turn of parseEvent's loop: the field is field.fieldLen + nvl bytes from
\* offset on.  The record is given up at a field that reaches its end.
parseField(st, field, raw, isFiltered) ==
    LET end   == st.offset + field.fieldLen + st.nvl
        value == decodeField(Slice(raw, st.offset, end), field, isFiltered)
    IN  IF st.stop # "no" THEN st
        ELSE IF end >= Len(raw) THEN [st EXCEPT !.stop = "end"]
        ELSE IF value = Raised THEN [st EXCEPT !.stop = "raised"]
        ELSE [stop   |-> "no", offset |-> end,
              nvl    |-> IF IsLength(field) /\ value[1] = "int" THEN value[2] ELSE 0,
              result |-> IF value = None THEN st.result
                         ELSE Set(st.result, field.fieldName, value)]

\* Record length (2), record type (2), event id (3).
HeaderLen == 7

\* All the turns.
parseFields(fields, raw, isFiltered) ==
    LET st[i \in 0 .. Len(fields)] ==
            IF i = 0 THEN [stop |-> "no", offset |-> HeaderLen, nvl |-> 0, result |-> <<>>]
            ELSE parseField(st[i - 1], fields[i], raw, isFiltered)
    IN  st[Len(fields)]

\* kind is "None" for an event that is not in the schema, or not filtered.
\* A second field of a name takes the place of the first's value.
parseEvent(schema, id, raw, isFiltered) ==
    LET found == getEvent(schema, id, isFiltered)
        done  == parseFields((CHOOSE e \in found : TRUE).fields, raw, isFiltered)
    IN  IF found = {} THEN [kind |-> "None"]
        ELSE IF done.stop = "raised" THEN [kind |-> "raised"]
        ELSE [kind |-> "result", result |-> done.result]

\* Parser.__init__: the keys of the schema, or these.
DefaultKeys ==
    <<"EVENT_PARAM_GLOBAL_CELL_ID", "EVENT_PARAM_ENBS1APID", "EVENT_PARAM_RAC_UE_REF">>
sessionKeys(schema) == IF schema.keys = <<>> THEN DefaultKeys ELSE schema.keys

\* A key is taken out of the result, if it is there.
takeKey(acc, k) ==
    [keys   |-> Append(acc.keys, IF k \in DOMAIN acc.result THEN acc.result[k] ELSE missing),
     result |-> Pop(acc.result, k)]

takeKeys(result, ks) ==
    LET taken[i \in 0 .. Len(ks)] ==
            IF i = 0 THEN [keys |-> <<>>, result |-> result]
            ELSE takeKey(taken[i - 1], ks[i])
    IN  taken[Len(ks)]

\* The values of the keys, which leave the result.
parseRaw(schema, id, raw) ==
    LET p     == parseEvent(schema, id, raw, TRUE)
        taken == takeKeys(p.result, sessionKeys(schema))
    IN  IF p.kind # "result" THEN p
        ELSE [kind |-> "result", keys |-> taken.keys, result |-> taken.result]

Cut == [id |-> -1, raw |-> <<>>]

\* Mutant of nextEvt: records of every type.
nextEvtAll(st, raw) ==
    LET o      == st.offset
        evtLen == Number(Slice(raw, o, o + 2))
        evt    == [id |-> Number(Slice(raw, o + 4, o + 7)), raw |-> Slice(raw, o, o + evtLen)]
    IN  IF st.stop # "no" \/ o >= Len(raw) THEN st
        ELSE IF o + 4 > Len(raw) \/ evtLen < 2 \/ evtLen > 4999
          THEN [stop |-> "raised", offset |-> o, evts |-> Append(st.evts, Cut)]
        ELSE [stop |-> "no", offset |-> o + evtLen, evts |-> Append(st.evts, evt)]

\* One turn of getNextEvt's loop: the records of type 4, and Cut where it
\* raises, at a length that cannot be or at the end of half a header.
nextEvt(st, raw) ==
    LET o       == st.offset
        evtLen  == Number(Slice(raw, o, o + 2))
        evtType == Number(Slice(raw, o + 2, o + 4))
        evt     == [id |-> Number(Slice(raw, o + 4, o + 7)), raw |-> Slice(raw, o, o + evtLen)]
    IN  IF st.stop # "no" \/ o >= Len(raw) THEN st
        ELSE IF o + 4 > Len(raw) \/ evtLen < 2 \/ evtLen > 4999
          THEN [stop |-> "raised", offset |-> o, evts |-> Append(st.evts, Cut)]
        ELSE [stop |-> "no", offset |-> o + evtLen,
              evts |-> IF evtType = 4 THEN Append(st.evts, evt) ELSE st.evts]

\* A turn moves on by two bytes at least.
getNextEvt(raw) ==
    LET st[i \in 0 .. Len(raw)] ==
            IF i = 0 THEN [stop |-> "no", offset |-> 0, evts |-> <<>>]
            ELSE nextEvt(st[i - 1], raw)
    IN  st[Len(raw)].evts

\* The line of an event: its values, those of the keys also in front.
lineOf(schema, evt) ==
    LET p  == parseEvent(schema, evt.id, evt.raw, schema.isFiltered)
        ks == sessionKeys(schema)
    IN  IF evt = Cut THEN [kind |-> "raised"]
        ELSE IF p.kind # "result" THEN p
        ELSE [kind |-> "line", result |-> p.result,
              keys |-> [i \in DOMAIN ks |->
                           IF ks[i] \in DOMAIN p.result THEN p.result[ks[i]] ELSE missing]]

addLine(schema, lines, evt) ==
    IF lines # <<>> /\ Last(lines).kind = "raised" THEN lines
    ELSE IF lineOf(schema, evt).kind = "None" THEN lines
    ELSE Append(lines, lineOf(schema, evt))

\* parseFile: a line for each event it knows, until it raises.
parseFile(schema, raw) ==
    LET evts == getNextEvt(raw)
        lines[i \in 0 .. Len(evts)] ==
            IF i = 0 THEN <<>> ELSE addLine(schema, lines[i - 1], evts[i])
    IN  lines[Len(evts)]
=============================================================================
