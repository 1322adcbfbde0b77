-------------------------------- MODULE Asn1 --------------------------------
(***************************************************************************)
(* utils/asn1.py: a value is written by an Encoder, its output may be cut  *)
(* short on the way, and a Decoder reads it.                               *)
(*                                                                         *)
(* Bytes are bytes here: a tag, a length and a value are turned into       *)
(* sequences of numbers below 256 and back, since that they come back is   *)
(* what the module is for.  A value is a record of its kind and a sequence *)
(* of numbers: the number itself (int, bool), the octets (bytes, and a str *)
(* as UTF-8), the components (an object identifier), nothing (None).       *)
(*                                                                         *)
(* The Decoder keeps, beside its stack of levels, the tag peek has read;   *)
(* the offset has then already moved past it.  made, place and calls are   *)
(* not in the code: they are what has been written, where in it the caller *)
(* of the Decoder is, and the count that MaxItems bounds.                  *)
(***************************************************************************)
EXTENDS Integers, Sequences, SequencesExt

CONSTANTS
    Calls,      \* the write(value, nr, cls) that may be called
    Enters,     \* the enter(nr, cls) that may be called
    NotGiven,       \* an nr that is not given
    NoTag,      \* m_tag is None
    MaxItems,   \* bound: calls of write and enter
    MaxCut      \* bound: bytes missing at the end of what is decoded

\* Numbers.
Boolean == 1
Integer == 2
OctetString == 4
Null == 5
ObjectIdentifier == 6
Enumerated == 10
PrintableString == 19
IA5String == 22
UTCTime == 23

\* Types and Classes.
Primitive == 0
Constructed == 32
Classes == {0, 64, 128, 192}

IntegerNumbers == {Integer, Enumerated}
StringNumbers == {PrintableString, IA5String, UTCTime}
Decoded ==
    {Boolean, OctetString, Null, ObjectIdentifier}
        \cup IntegerNumbers \cup StringNumbers

\* Whether a value can be written under a number: others raise.
Fits(nr, kind) ==
    CASE nr \in IntegerNumbers \cup {Boolean} -> kind \in {"int", "bool"}
      [] nr = ObjectIdentifier -> kind = "oid"
      [] nr = Null -> TRUE
      [] nr \in {OctetString, PrintableString} -> kind \in {"bytes", "str"}
      [] OTHER -> kind = "bytes"

\* What there is of each kind of value.
IsValue(kind, v) ==
    CASE kind = "int"  -> v \in Seq(Int) /\ Len(v) = 1
      [] kind = "bool" -> v \in {<<0>>, <<1>>}
      [] kind = "oid"  -> v \in Seq(Nat) /\ Len(v) > 1 /\ v[1] <= 39 /\ v[2] <= 39
      [] kind = "none" -> v = <<>>
      [] OTHER         -> kind \in {"bytes", "str"} /\ v \in Seq(0 .. 255)

Tags == [nr : Nat, typ : {Primitive, Constructed}, cls : Classes]

ASSUME Asn1Constants ==
    /\ \A c \in Calls :
          /\ c.cls \in Classes /\ IsValue(c.kind, c.v)
          /\ \/ c.nr = NotGiven /\ c.kind # "oid"
             \/ c.nr \in Nat /\ Fits(c.nr, c.kind)
    /\ \A e \in Enters : e.nr \in Nat \ Decoded /\ e.cls \in Classes
    /\ MaxItems \in Nat /\ MaxCut \in Nat /\ NotGiven \notin Nat /\ NoTag \notin Tags

VARIABLES
    enc,    \* Encoder.m_stack: the bytes of each level
    dec,    \* Decoder.m_stack: offset and bytes of each level
    tag,    \* Decoder.m_tag
    last,   \* what the Decoder's last method gave
    made,   \* the items of each level of the Encoder, with the tag it has
    place,  \* the items of each level of the Decoder, and how many are done
    calls   \* how often write and enter were called

vars == <<enc, dec, tag, last, made, place, calls>>

-----------------------------------------------------------------------------
(***************************************************************************)
(* Numbers as bytes.                                                       *)
(***************************************************************************)

\* n in base b, the most significant digit first; what is not above limit
\* is the first.
Digits(b, limit, n) ==
    LET d[k \in Nat] == IF k > limit THEN Append(d[k \div b], k % b) ELSE <<k>>
    IN  d[n]

\* The inverse.
Number(b, s) ==
    LET num[i \in 0 .. Len(s)] == IF i = 0 THEN 0 ELSE (b * num[i - 1]) + (s[i] % b)
    IN  num[Len(s)]

\* Base 128 with the high bit set in all bytes but the last.
Septets(n) ==
    LET s == Digits(128, 127, n)
    IN  [i \in 1 .. Len(s) |-> IF i < Len(s) THEN s[i] + 128 ELSE s[i]]

\* _emit_tag.
TagBytes(nr, typ, cls) ==
    IF nr < 31 THEN <<nr + typ + cls>>
               ELSE <<31 + typ + cls>> \o Septets(nr)

\* _emit_length, and the lengths it asserts it can write.
LengthBytes(n) ==
    IF n < 128 THEN <<n>>
               ELSE <<128 + Len(Digits(256, 255, n))>> \o Digits(256, 255, n)
Writable(n) == n >= 128 => Len(Digits(256, 255, n)) < 127

\* Two's complement in as many bytes as the absolute value takes, where the
\* first one may be 128: their bits inverted, plus 1.
Invert(s)     == [i \in 1 .. Len(s) |-> 255 - s[i]]
Complement(m) == Digits(256, 255, Number(256, Invert(Digits(256, 128, m))) + 1)

\* Mutant of EncodeInteger: the corner case for every byte with that bit.
EncodeIntegerWide(v) ==
    IF v >= 0 THEN Digits(256, 127, v)
    ELSE IF Complement(-v)[1] >= 127 THEN <<255>> \o Complement(-v)
                                     ELSE Complement(-v)

\* _encode_integer.  A negative number whose first byte is 0x7f would be read
\* as a positive one.
EncodeInteger(v) ==
    IF v >= 0 THEN Digits(256, 127, v)
    ELSE IF Complement(-v)[1] = 127 THEN <<255>> \o Complement(-v)
                                    ELSE Complement(-v)

\* _encode_object_identifier: the first two components are one number.
EncodeObjectIdentifier(c) ==
    LET e[i \in 2 .. Len(c)] == IF i = 2 THEN Septets(40 * c[1] + c[2])
                                        ELSE e[i - 1] \o Septets(c[i])
    IN  e[Len(c)]

\* _encode_value goes by the number alone, whatever the class.
EncodeValue(nr, c) ==
    CASE nr \in IntegerNumbers -> EncodeInteger(c.v[1])
      [] nr = Boolean -> IF c.v[1] # 0 THEN <<255>> ELSE <<0>>
      [] nr = Null -> <<>>
      [] nr = ObjectIdentifier -> EncodeObjectIdentifier(c.v)
      [] OTHER -> c.v

\* An nr that is not given is found from the value; a bool is an int.
WriteNr(c) ==
    IF c.nr # NotGiven THEN c.nr
    ELSE CASE c.kind \in {"int", "bool"} -> Integer
           [] c.kind \in {"bytes", "str"} -> OctetString
           [] c.kind = "none" -> Null

-----------------------------------------------------------------------------
(***************************************************************************)
(* Bytes as values.  l is a level: an offset and the bytes.                *)
(***************************************************************************)
AtEnd(l) == l.at = Len(l.data)

\* _read_tag.  The high bit is clear in the last byte of a long number.
LongEnds(l) == {j \in l.at + 2 .. Len(l.data) : l.data[j] < 128}
IsLong(l)   == l.data[l.at + 1] % 32 = 31
TagEnd(l)   == IF IsLong(l) THEN Min(LongEnds(l)) ELSE l.at + 1

ReadTag(l) ==
    [nr  |-> IF IsLong(l) THEN Number(128, SubSeq(l.data, l.at + 2, TagEnd(l)))
                          ELSE l.data[l.at + 1] % 32,
     typ |-> IF (l.data[l.at + 1] \div 32) % 2 = 1 THEN Constructed ELSE Primitive,
     cls |-> 64 * (l.data[l.at + 1] \div 64)]

\* Otherwise it raises: the data end in it, or the name of a primitive type
\* is to be logged and ASNTagLookup has no such number.
TagReadable(l) ==
    /\ ~AtEnd(l)
    /\ IsLong(l) => LongEnds(l) # {}
    /\ ReadTag(l).typ = Primitive => ReadTag(l).nr <= 30

\* _read_length, at an offset i, and _read_bytes.
CountAt(d, i)   == IF d[i + 1] < 128 THEN 0 ELSE d[i + 1] - 128
LengthAt(d, i)  == IF d[i + 1] < 128 THEN d[i + 1]
                   ELSE Number(256, SubSeq(d, i + 2, i + 1 + CountAt(d, i)))
ValueFrom(d, i) == i + 1 + CountAt(d, i)
ValueReadable(d, i) ==
    /\ i < Len(d)
    /\ CountAt(d, i) # 127
    /\ ValueFrom(d, i) <= Len(d)
    /\ ValueFrom(d, i) + LengthAt(d, i) <= Len(d)
ValueAt(d, i) == SubSeq(d, ValueFrom(d, i) + 1, ValueFrom(d, i) + LengthAt(d, i))

\* _decode_integer.
Normalized(s) ==
    Len(s) > 1 => /\ s[1] = 255 => s[2] < 128
                  /\ s[1] = 0 => s[2] >= 128
DecodeInteger(s) ==
    IF s[1] >= 128 THEN -(Number(256, Invert(s)) + 1) ELSE Number(256, s)

\* _decode_object_identifier: the numbers found in the first i bytes, and
\* the value of the one begun.  A byte below 128 ends a number.
Found(s) ==
    LET f[i \in 0 .. Len(s)] ==
            IF i = 0 THEN [ids |-> <<>>, value |-> 0]
            ELSE LET v == (128 * f[i - 1].value) + (s[i] % 128)
                 IN  IF s[i] < 128 THEN [ids |-> Append(f[i - 1].ids, v), value |-> 0]
                                   ELSE [ids |-> f[i - 1].ids, value |-> v]
    IN  f
Components(s) == Found(s)[Len(s)].ids
IdentifierReadable(s) ==
    /\ \A i \in 1 .. Len(s) : s[i] = 128 => Found(s)[i - 1].value # 0
    /\ Components(s) # <<>> /\ Components(s)[1] <= 1599

\* _read_value goes by the number alone, too.  The length of a boolean is
\* only complained of in the log.  Strings are taken to be UTF-8.
Decodable(nr, s) ==
    CASE nr = Boolean -> s # <<>>
      [] nr \in IntegerNumbers -> s # <<>> /\ Normalized(s)
      [] nr = Null -> s = <<>>
      [] nr = ObjectIdentifier -> IdentifierReadable(s)
      [] OTHER -> TRUE

Value(k, v) == [kind |-> k, v |-> v]

Decode(nr, s) ==
    CASE nr = Boolean -> Value("bool", <<IF s[1] = 0 THEN 0 ELSE 1>>)
      [] nr \in IntegerNumbers -> Value("int", <<DecodeInteger(s)>>)
      [] nr = Null -> Value("none", <<>>)
      [] nr = ObjectIdentifier ->
           LET c == Components(s)
           IN  Value("oid", <<c[1] \div 40, c[1] % 40>> \o Tail(c))
      [] nr \in StringNumbers -> Value("str", s)
      [] OTHER -> Value("bytes", s)

-----------------------------------------------------------------------------
(***************************************************************************)
(* The Encoder.  What its methods refuse they refuse before they change    *)
(* anything: enter and write before start, leave at the outermost level,   *)
(* output inside another one.                                              *)
(***************************************************************************)
Idle == dec = <<>>

EmitTo(stack, s) == Append(Front(stack), Last(stack) \o s)

\* What reading an item gives: the value, as the number says.
Promised(nr, c) ==
    CASE nr \in IntegerNumbers -> Value("int", c.v)
      [] nr = Boolean -> Value("bool", <<IF c.v[1] # 0 THEN 1 ELSE 0>>)
      [] nr = Null -> Value("none", <<>>)
      [] nr = ObjectIdentifier -> Value("oid", c.v)
      [] nr \in StringNumbers -> Value("str", c.v)
      [] OTHER -> Value("bytes", c.v)

\* A new item on the innermost of the levels.  Its end is where the bytes of
\* the level end then.
Made(stack, item) ==
    Append(Front(stack), [Last(stack) EXCEPT !.items = Append(@, item)])

Called == Idle /\ calls < MaxItems /\ calls' = calls + 1

Write(c) ==
    /\ Called
    /\ LET nr == WriteNr(c)
           s  == EncodeValue(nr, c)
       IN  /\ Writable(Len(s))
           /\ enc' = EmitTo(enc, TagBytes(nr, Primitive, c.cls) \o LengthBytes(Len(s)) \o s)
           /\ made' = Made(made, [tag |-> [nr |-> nr, typ |-> Primitive, cls |-> c.cls],
                                  val |-> Promised(nr, c), items |-> <<>>,
                                  end |-> Len(Last(enc'))])
    /\ UNCHANGED <<dec, tag, last, place>>

\* enter: the tag goes to this level, what follows to a new one.
Enter(e) ==
    /\ Called
    /\ enc' = Append(EmitTo(enc, TagBytes(e.nr, Constructed, e.cls)), <<>>)
    /\ made' = Append(made, [tag |-> [nr |-> e.nr, typ |-> Constructed, cls |-> e.cls],
                             items |-> <<>>])
    /\ UNCHANGED <<dec, tag, last, place>>

\* leave: now the length of the innermost level is known.
Leave ==
    /\ Idle /\ Len(enc) > 1
    /\ LET s == Last(enc)
       IN  /\ Writable(Len(s))
           /\ enc' = EmitTo(Front(enc), LengthBytes(Len(s)) \o s)
           /\ made' = Made(Front(made),
                           [tag |-> Last(made).tag, val |-> Value("bytes", s),
                            items |-> Last(made).items, end |-> Len(Last(enc'))])
    /\ UNCHANGED <<dec, tag, last, place, calls>>

-----------------------------------------------------------------------------
(***************************************************************************)
(* The Decoder.  After an exception its caller gives up (asn1Test.py:115). *)
(***************************************************************************)
Level == Last(dec)
Here  == Last(place)
Reading == dec # <<>> /\ last # [op |-> "raised"]

Give(op) == last' = [op |-> op]

\* start, with what output gave, all of it or all but the end.
Start(cut) ==
    /\ Idle /\ Len(enc) = 1 /\ cut <= Len(enc[1])
    /\ dec' = <<[at |-> 0, data |-> SubSeq(enc[1], 1, Len(enc[1]) - cut)]>>
    /\ tag' = NoTag
    /\ place' = <<[items |-> made[1].items, done |-> 0]>>
    /\ Give("start")
    /\ UNCHANGED <<enc, made, calls>>

\* The tag at the offset, which peek may have read before, and where it ends.
Peekable == tag # NoTag \/ TagReadable(Level)
Peeked   == IF tag # NoTag THEN tag ELSE ReadTag(Level)
After    == IF tag # NoTag THEN Level.at ELSE TagEnd(Level)

MoveTo(i) == [dec EXCEPT ![Len(dec)].at = i]

Raise == Give("raised") /\ UNCHANGED <<dec, tag, place>>

Peek ==
    /\ Reading
    /\ \/ /\ AtEnd(Level)
          /\ Give("end") /\ UNCHANGED <<dec, tag, place>>
       \/ /\ ~AtEnd(Level) /\ Peekable
          /\ tag' = Peeked
          /\ dec' = MoveTo(After)
          /\ last' = [op |-> "peek", tag |-> Peeked]
          /\ UNCHANGED place
       \/ ~AtEnd(Level) /\ ~Peekable /\ Raise
    /\ UNCHANGED <<enc, made, calls>>

ReadOk ==
    /\ Peekable
    /\ ValueReadable(Level.data, After)
    /\ Decodable(Peeked.nr, ValueAt(Level.data, After))

PastValue == ValueFrom(Level.data, After) + LengthAt(Level.data, After)

\* read looks for the end before it asks peek for the tag.
Read ==
    /\ Reading
    /\ \/ /\ AtEnd(Level)
          /\ Give("end") /\ UNCHANGED <<dec, tag, place>>
       \/ /\ ~AtEnd(Level) /\ ReadOk
          /\ last' = [op |-> "read", tag |-> Peeked,
                      val |-> Decode(Peeked.nr, ValueAt(Level.data, After))]
          /\ dec' = MoveTo(PastValue)
          /\ tag' = NoTag
          /\ place' = [place EXCEPT ![Len(place)].done = @ + 1]
       \/ ~AtEnd(Level) /\ ~ReadOk /\ Raise
    /\ UNCHANGED <<enc, made, calls>>

EnterOk ==
    /\ ~AtEnd(Level) /\ Peekable /\ Peeked.typ = Constructed
    /\ ValueReadable(Level.data, After)
IsPrimitive == ~AtEnd(Level) /\ Peekable /\ Peeked.typ = Primitive

\* enter goes one level down.  A primitive item is refused, its tag now read;
\* at the end there is no tag at all, and that raises, too.
EnterItem ==
    /\ Reading
    /\ \/ /\ EnterOk
          /\ dec' = Append(MoveTo(PastValue),
                           [at |-> 0, data |-> ValueAt(Level.data, After)])
          /\ tag' = NoTag
          /\ place' = Append([place EXCEPT ![Len(place)].done = @ + 1],
                             [items |-> Here.items[Here.done + 1].items, done |-> 0])
          /\ Give("enter")
       \/ /\ IsPrimitive
          /\ dec' = MoveTo(After)
          /\ tag' = Peeked
          /\ Give("refused")
          /\ UNCHANGED place
       \/ ~EnterOk /\ ~IsPrimitive /\ Raise
    /\ UNCHANGED <<enc, made, calls>>

\* Mutant of LeaveItem: a tag peeked inside is kept.
LeaveItemKeepingTag ==
    /\ Reading /\ Len(dec) > 1
    /\ dec' = Front(dec) /\ place' = Front(place)
    /\ Give("leave")
    /\ UNCHANGED <<tag, enc, made, calls>>

\* leave goes back up, wherever in the level it is.
LeaveItem ==
    /\ Reading /\ Len(dec) > 1
    /\ dec' = Front(dec) /\ place' = Front(place)
    /\ tag' = NoTag
    /\ Give("leave")
    /\ UNCHANGED <<enc, made, calls>>

-----------------------------------------------------------------------------
Init ==
    /\ enc = <<<<>>>>
    /\ made = <<[tag |-> NoTag, items |-> <<>>]>>
    /\ dec = <<>> /\ tag = NoTag /\ place = <<>> /\ calls = 0
    /\ last = [op |-> "start"]

Next ==
    \/ \E c \in Calls : Write(c)
    \/ \E e \in Enters : Enter(e)
    \/ Leave
    \/ \E cut \in 0 .. MaxCut : Start(cut)
    \/ Peek \/ Read \/ EnterItem \/ LeaveItem

Spec == Init /\ [][Next]_vars

-----------------------------------------------------------------------------
(***************************************************************************)
(* Properties.                                                             *)
(***************************************************************************)

\* What peek and read give is the tag and the value of the item at that
\* place, after any tags peeked and levels left in the middle
\* (asn1.py:413, 442, 473, 491), also from data that are cut short.
ReadsWritten ==
    /\ last.op = "peek" => last.tag = Here.items[Here.done + 1].tag
    /\ last.op = "read" => /\ last.tag = Here.items[Here.done].tag
                           /\ last.val = Here.items[Here.done].val

\* The next item of the level, if all its bytes are there.
NextWhole ==
    /\ dec # <<>>
    /\ Here.done < Len(Here.items)
    /\ Here.items[Here.done + 1].end <= Len(Level.data)

\* An item whose bytes are all there is read: it is not taken for the end of
\* the data, and raises nothing, unless it is of a primitive type whose
\* number asn1.py:508 has no name for.
WholeItemsAreRead ==
    NextWhole =>
        /\ last.op # "end"
        /\ last.op = "raised" =>
             LET t == Here.items[Here.done + 1].tag
             IN  t.typ = Primitive /\ t.nr > 30
=============================================================================
