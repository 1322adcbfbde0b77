---------------------------- MODULE SessionDesc ----------------------------
(***************************************************************************)
(* admin/parserASRDesc.py, from a table of session attributes to a session *)
(* description, and admin/sessionDesc.py, from that to the events and      *)
(* fields a schema is to be filtered by.  A row, and a section of a        *)
(* description, has its name (<<text, k>> for "text_k", <<text>> for       *)
(* "text"), its source events and its fields; a field is a name or an      *)
(* array, {from..to}.  How lines are wrapped, the other columns, that only *)
(* fields EVENT_... are asked for (an event has no others), and eventDict, *)
(* which is only counted for the log, are left out.                        *)
(***************************************************************************)
EXTENDS ParseCtrs, InterestingEvents

CONSTANT Alias      \* The members of InterestingEvents: from name to id.

\* A name met for the n-th time gets n; a row of a version above 1 is passed
\* over.  The keys of every section are the default ones.
addRow(acc, row) ==
    LET n == 1 + Cardinality({i \in DOMAIN acc : acc[i].row = row.name})
    IN  IF row.version > 1 THEN acc
        ELSE Append(acc, [row |-> row.name,
                          name |-> IF n = 1 THEN row.name ELSE Append(row.name, n),
                          source_event |-> row.source_event,
                          field_s |-> row.field_s, keys |-> DefaultKeys])

doStuff(rows) ==
    LET secs[i \in 0 .. Len(rows)] ==
            IF i = 0 THEN <<>> ELSE addRow(secs[i - 1], rows[i])
    IN  secs[Len(rows)]

\* loadIni: two sections of a name raise.
IniRaises(ini) == \E i, j \in DOMAIN ini : i # j /\ ini[i].name = ini[j].name

\* The names a field stands for: an array's last index is left out.
Expand(f) == IF f.kind = "array"
               THEN {f.name \o ToString(i) : i \in f.from .. f.to - 1} ELSE {f.name}

\* Mutant of fldLst: the keys are asked for with the first section only.
fldLstFirst(ini, i) ==
    (UNION {Expand(ini[i].field_s[j]) : j \in DOMAIN ini[i].field_s})
        \cup (IF i = 1 THEN Range(ini[1].keys) ELSE {})

\* The fields a section asks for, with the keys, which are those of the first
\* section.
fldLst(ini, i) ==
    (UNION {Expand(ini[i].field_s[j]) : j \in DOMAIN ini[i].field_s})
        \cup Range(ini[1].keys)

\* The id of an event's name, in the schema or else as an alias, as a set:
\* empty when it is unknown.
evtIds(schema, evt) ==
    IF getEventId(schema, evt) # {} THEN {CHOOSE id \in getEventId(schema, evt) : TRUE}
    ELSE IF evt \in DOMAIN Alias THEN {Alias[evt]} ELSE {}

\* getEventFldList: for each event, the fields it has of those asked for by
\* the sections that name it.
getEventFldList(schema, ini) ==
    LET ids(i) == UNION {evtIds(schema, e) : e \in ini[i].source_event}
        asked(id) == UNION {fldLst(ini, i) : i \in {j \in DOMAIN ini : id \in ids(j)}}
        has(id, f) == \E e \in getEvent(schema, id, FALSE) : hasField(e, f)
    IN  [id \in UNION {ids(i) : i \in DOMAIN ini} |-> {f \in asked(id) : has(id, f)}]

\* main: the schema filtered by what the description asks for, and its keys.
\* A description that cannot be read, <<>>, asks for nothing and has no keys.
describe(schema, ini) ==
    [filterSchema(schema, getEventFldList(schema, ini)) EXCEPT
        !.keys = IF ini = <<>> THEN <<>> ELSE ini[1].keys]
=============================================================================
