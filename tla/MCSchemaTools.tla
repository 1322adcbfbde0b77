--------------------------- MODULE MCSchemaTools ---------------------------
(* Documents of one event of up to two chunks of lines, and a fixed one.   *)
EXTENDS SchemaTools, TLC

GCI  == "EVENT_PARAM_GLOBAL_CELL_ID"
RES  == "EVENT_PARAM_RESULT"
IMSI == "EVENT_PARAM_IMSI"
LEN  == "EVENT_PARAM_L3MESSAGE_LENGTH"
CONT == "EVENT_PARAM_L3MESSAGE_CONTENTS"
CLEN == "EVENT_PARAM_COMMON_LENGTH"
COMM == "EVENT_PARAM_COMMON"
ADDR == "EVENT_ARRAY_ADDR_"
Addr(i) == ADDR \o ToString(i)

MCDbName ==
    (GCI :> "GLOBALCELLID") @@ (RES :> "RESULT") @@ (IMSI :> "IMSI")
    @@ (LEN :> "L3MESSAGELENGTH") @@ (CONT :> "L3MESSAGECONTENTS")
    @@ (CLEN :> "COMMONLENGTH") @@ (COMM :> "COMMON")
    @@ (Addr(0) :> "ADDR0") @@ (Addr(1) :> "ADDR1") @@ ("EVENT_PARAM_A-B" :> "A-B")
MCBadNames == {"A-B"}

Def(name, type, len, lenName, valid) ==
    [name |-> name, type |-> type, len |-> len, lenName |-> lenName, valid |-> valid]

Params ==
    << Def(RES, "UINT", 9, "", FALSE),
       Def(GCI, "UINT", 2, "", FALSE), Def(RES, "ENUM", 1, "", TRUE),
       Def(IMSI, "TBCD", 2, "", FALSE), Def(LEN, "UINT", 1, "", TRUE),
       Def(CONT, "BINARY", 0, LEN, FALSE), Def(CLEN, "UINT", 1, "", FALSE),
       Def(COMM, "BINARY", 0, CLEN, FALSE), Def(Addr(0), "IPADDRESS", 4, "", FALSE),
       Def(Addr(1), "IPADDRESSV6", 16, "", FALSE),
       Def("EVENT_PARAM_A-B", "UINT", 1, "", FALSE) >>

Param(name, valid) == [kind |-> "param", name |-> name, valid |-> valid, seqmaxlen |-> -1]
Struct(name, n)    == [kind |-> "struct", name |-> name, valid |-> FALSE, seqmaxlen |-> n]

\* OUT has INNER's parameters and one more.
Structs ==
    << [name |-> "INNER", elems |-> <<Param(IMSI, FALSE), Param(RES, FALSE)>>],
       [name |-> "OUT", elems |-> <<Struct("INNER", -1), Param(GCI, FALSE)>>],
       [name |-> "INNER", elems |-> <<>>] >>

P(name, bit) == [name |-> name, bit |-> bit]

\* Lines of an event, with the layout they say.
Chunks ==
    { [elems |-> <<Param(GCI, FALSE)>>, layout |-> <<P(GCI, FALSE)>>],
      [elems |-> <<Param(IMSI, TRUE), Param(RES, FALSE)>>,
       layout |-> <<P(IMSI, TRUE), P(RES, TRUE)>>],
      [elems |-> <<Param(LEN, FALSE), Param(CONT, FALSE)>>,
       layout |-> <<P(LEN, TRUE), P(CONT, FALSE)>>],
      [elems |-> <<Param(CLEN, FALSE), Param(COMM, FALSE)>>,
       layout |-> <<P(CLEN, FALSE), P(COMM, FALSE)>>],
      [elems |-> <<Param(Addr(0), FALSE), Param(Addr(1), FALSE)>>,
       layout |-> <<P(Addr(0), FALSE), P(Addr(1), FALSE)>>],
      [elems |-> <<Struct("INNER", 2)>>,
       layout |-> <<P(IMSI, FALSE), P(RES, TRUE), P(IMSI, FALSE), P(RES, TRUE)>>],
      [elems |-> <<Struct("INNER", 1)>>, layout |-> <<P(IMSI, FALSE), P(RES, TRUE)>>],
      [elems |-> <<Struct("OUT", -1)>>,
       layout |-> <<P(IMSI, FALSE), P(RES, TRUE), P(GCI, FALSE)>>],
      [elems |-> <<Struct("NONE", -1)>>, layout |-> <<>>],
      [elems |-> <<Param("EVENT_PARAM_A-B", FALSE)>>, layout |-> <<>>] }

Doc(cs) ==
    [params |-> Params, structs |-> Structs,
     events |-> << [name |-> "OTHER", id |-> 5, elems |-> <<>>, layout |-> <<>>],
                   [name |-> "FAIL", id |-> 13,
                    elems |-> <<Param(RES, FALSE), Param(GCI, FALSE)>>,
                    layout |-> <<P(RES, TRUE), P(GCI, FALSE)>>],
                   [name |-> "EVT", id |-> 5,
                    elems |-> FlattenSeq([i \in DOMAIN cs |-> cs[i].elems]),
                    layout |-> FlattenSeq([i \in DOMAIN cs |-> cs[i].layout])] >>]

MCDocs == {Doc(<<c>>) : c \in Chunks} \cup {Doc(<<c, d>>) : c, d \in Chunks}

Field(name) == [kind |-> "field", name |-> name]
Row(name, version, evts, fields) ==
    [name |-> name, version |-> version, source_event |-> evts, field_s |-> fields]

RowEvt   == Row(<<"a">>, 1, {"EVT"}, <<Field(RES), Field(CONT), Field(LEN)>>)
RowArray == Row(<<"a">>, 1, {"EVT", "FAIL"},
                <<[kind |-> "array", name |-> ADDR, from |-> 0, to |-> 2], Field(RES), Field(IMSI)>>)
RowNone  == Row(<<"b">>, 1, {"N/A"}, <<>>)
RowAlias == Row(<<"a", 2>>, 1, {"SHORT", "GONE"}, <<Field(GCI)>>)
RowNew   == Row(<<"c">>, 2, {"EVT"}, <<Field(CONT)>>)

\* The last one gives two sections of one name.
MCTables == {<<RowEvt>>, <<RowNone, RowArray>>, <<RowAlias, RowNew>>,
             <<RowEvt, RowArray, RowAlias>>}

\* 13 is an event that a document may have by another name, 8 is in none.
MCAlias == ("SHORT" :> 13) @@ ("GONE" :> 8) @@ ("EVT" :> 13)

V(bytes, shown) == [bytes |-> bytes, shown |-> shown]
MCSample ==
    (GCI :> {V(<<1, 44>>, <<"int", 300>>)})
    @@ (RES :> {V(<<0>>, <<"int", 0>>)})
    @@ (IMSI :> {V(<<33, 67>>, <<"digits", <<1, 2, 3, 4>>>>),
                 V(<<33, 243>>, <<"digits", <<1, 2, 3>>>>)})
    @@ (LEN :> {V(<<0>>, <<"int", 0>>), V(<<2>>, <<"int", 2>>)})
    @@ (CLEN :> {V(<<0>>, <<"int", 0>>), V(<<1>>, <<"int", 1>>)})
    @@ (Addr(0) :> {V(<<10, 0, 0, 31>>, <<"0x", <<0, 10, 0, 0, 0, 0, 1, 15>>>>)})
    @@ (Addr(1) :> {V([i \in 1 .. 16 |-> IF i = 2 THEN 18 ELSE 0],
                      <<"0x", <<1, 2, 0, 0, 0, 0, 0, 0, 0, 0, 0, 0, 0, 0, 0>>>>)})

MCContent == [n \in 0 .. 2 |-> <<"0x", [i \in 1 .. 2 * n |-> IF i % 2 = 1 THEN 10 ELSE 11]>>]
=============================================================================
