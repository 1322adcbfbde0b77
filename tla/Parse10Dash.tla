---------------------------- MODULE Parse10Dash ----------------------------
(***************************************************************************)
(* admin/parse10dash.py: from the XML document that describes a release of *)
(* the nodes, a "10dash", to a schema.  A document is a record of three    *)
(* sequences, in the order of its lines:                                   *)
(*   params   [name, type, len, lenName, valid], lenName being "" or the   *)
(*            name that stands for a length;                               *)
(*   structs  [name, elems];                                               *)
(*   events   [name, id, elems].                                           *)
(* An element is a parameter or a struct that appears seqmaxlen times, -1  *)
(* where that is not said: [kind, name, valid, seqmaxlen].                 *)
(* Left out: how lines are cut up, comments, the header of the schema, and *)
(* whether a parameter is optional, which nothing asks.                    *)
(***************************************************************************)
EXTENDS Schema

CONSTANTS
    DbName,         \* From a document's name to the name in the data base:
                    \* no underscore, EVENTPARAM or EVENTARRAY, and an r after
                    \* a reserved word.  Two names may have one.
    BadNames        \* Those of them that are not letters and digits only.

\* The names of lengths that are known to be variable.
VarLengths == {"EVENT_PARAM_L3MESSAGE_LENGTH", "EVENT_PARAM_MESSAGE_LENGTH",
               "EVENT_PARAM_COMMON_LENGTH"}

\* First pass.  paramDict is a dictionary: the last definition counts.
ParamsRaise(doc) == \E p \in Range(doc.params) : p.lenName \notin VarLengths \cup {""}

Defined(doc, name) == {i \in DOMAIN doc.params : doc.params[i].name = name}
getParam(doc, name) == doc.params[Max(Defined(doc, name))]

\* Its length is not a number, but the name of one.
isVarLen(param) == param.lenName # ""

\* Mutant of getStructure: the last of a name counts.
getStructureLast(structs, name) ==
    {structs[i].parameters :
        i \in {j \in DOMAIN structs : structs[j].name = name
                   /\ \A k \in j + 1 .. Len(structs) : structs[k].name # name}}

\* The dictionary of structures is a list: the first of a name counts.
getStructure(structs, name) ==
    {structs[i].parameters :
        i \in {j \in DOMAIN structs : structs[j].name = name
                   /\ \A k \in 1 .. j - 1 : structs[k].name # name}}

\* One line of a structure.  A structure inside takes its parameters over;
\* leak, the valid bit of the last of them, stays with a parameter on the
\* next line.
structLine(acc, elem, structs) ==
    LET inner == getStructure(structs, elem.name)
        ps    == CHOOSE s \in inner : TRUE
        param == [name |-> elem.name, valid |-> elem.valid \/ acc.leak]
    IN  CASE elem.kind = "param" ->
                 [acc EXCEPT !.ps = Append(@, param), !.leak = FALSE]
          [] elem.kind = "struct" /\ inner = {} -> [acc EXCEPT !.raised = TRUE]
          [] elem.kind = "struct" /\ inner # {} ->
                 [acc EXCEPT !.ps = @ \o ps,
                             !.leak = ps # <<>> /\ Last(ps).valid]

\* What has been read of a structure, after all of its lines.
structLines(elems, structs) ==
    LET read[i \in 0 .. Len(elems)] ==
            IF i = 0 THEN [ps |-> <<>>, leak |-> FALSE, raised |-> FALSE]
            ELSE structLine(read[i - 1], elems[i], structs)
    IN  read[Len(elems)]

\* The structures of the document, each with its parameters.
addStructure(acc, struct) ==
    LET body == structLines(struct.elems, acc.structs)
    IN  [structs |-> Append(acc.structs, [name |-> struct.name, parameters |-> body.ps]),
         raised  |-> acc.raised \/ body.raised]

structures(doc) ==
    LET read[i \in 0 .. Len(doc.structs)] ==
            IF i = 0 THEN [structs |-> <<>>, raised |-> FALSE]
            ELSE addStructure(read[i - 1], doc.structs[i])
    IN  read[Len(doc.structs)]

\* One line of an event.  curSeq is the number of the sequence, 0 for none,
\* -1 before it is first set; a sequence of one leaves it as it is.
eventLine(acc, elem, structs) ==
    LET inner  == getStructure(structs, elem.name)
        ps     == CHOOSE s \in inner : TRUE
        count  == IF elem.seqmaxlen = -1 THEN 1 ELSE elem.seqmaxlen
        seqNum == IF elem.seqmaxlen > 1 THEN acc.seqNum + 1 ELSE acc.seqNum
        curSeq == CASE elem.seqmaxlen = -1 -> 0
                    [] elem.seqmaxlen > 1  -> seqNum
                    [] OTHER               -> acc.curSeq
        params == FlattenSeq([i \in 1 .. count |-> [j \in DOMAIN ps |->
                     [name |-> ps[j].name, valid |-> ps[j].valid,
                      seqNum |-> curSeq, instNum |-> i - 1]]])
    IN  CASE elem.kind = "param" ->
                 [acc EXCEPT !.param = Append(@, [name |-> elem.name, valid |-> elem.valid,
                                                  seqNum |-> 0, instNum |-> 0])]
          [] elem.kind = "struct" /\ inner = {} -> [acc EXCEPT !.raised = TRUE]
          [] elem.kind = "struct" /\ inner # {} ->
                 [acc EXCEPT !.param = @ \o params, !.seqNum = seqNum, !.curSeq = curSeq,
                             !.raised = @ \/ (curSeq = -1 /\ params # <<>>)]

\* One parameter of an event: its definition is looked up, and it starts
\* where those in front of it end.
newField(acc, p, doc) ==
    LET d == getParam(doc, p.name)
    IN  IF acc.raised \/ Defined(doc, p.name) = {} \/ DbName[p.name] \in BadNames
          THEN [acc EXCEPT !.raised = TRUE]
          ELSE [acc EXCEPT
                   !.msgLen = @ + d.len,
                   !.event = addField(@, NewField(p.name, DbName[p.name], d.type, d.len,
                                 acc.msgLen, isVarLen(d), p.valid \/ d.valid,
                                 p.seqNum, p.instNum))]

\* What has been read of an event, after all of its lines.
eventLines(elems, curSeq, structs) ==
    LET read[i \in 0 .. Len(elems)] ==
            IF i = 0 THEN [param |-> <<>>, seqNum |-> 0, curSeq |-> curSeq, raised |-> FALSE]
            ELSE eventLine(read[i - 1], elems[i], structs)
    IN  read[Len(elems)]

\* The event, after all of its parameters.
eventFields(event, lines, doc) ==
    LET read[i \in 0 .. Len(lines.param)] ==
            IF i = 0 THEN [event |-> NewEvent(event.name, event.id), msgLen |-> 0,
                           raised |-> lines.raised]
            ELSE newField(read[i - 1], lines.param[i], doc)
    IN  read[Len(lines.param)]

\* One event of the document.
newEvent(acc, event, structs, doc) ==
    LET lines  == eventLines(event.elems, acc.curSeq, structs)
        fields == eventFields(event, lines, doc)
    IN  [schema |-> addEvent(acc.schema, fields.event),
         curSeq |-> lines.curSeq,
         raised |-> acc.raised \/ fields.raised]

\* The schema, after all of the document's events.
schemaEvents(doc, structs) ==
    LET read[i \in 0 .. Len(doc.events)] ==
            IF i = 0 THEN [schema |-> NewSchema, curSeq |-> -1, raised |-> FALSE]
            ELSE newEvent(read[i - 1], doc.events[i], structs, doc)
    IN  read[Len(doc.events)]

\* The schema of a document, as a set: empty where it raises.
read10Dash(doc) ==
    LET structs == structures(doc)
        read    == schemaEvents(doc, structs.structs)
    IN  IF ParamsRaise(doc) \/ structs.raised \/ read.raised THEN {} ELSE {read.schema}
=============================================================================
