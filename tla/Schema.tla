------------------------------- MODULE Schema -------------------------------
(***************************************************************************)
(* LTE/schema.py: what the units know of the layout of the events a node   *)
(* reports.  A field is named twice: fieldName, the name the document      *)
(* gives it, which an event may use several times, and dbName, <<base, k>> *)
(* for "base_k", or "base" when k is 0, which is unique in an event.  The  *)
(* fields of an event, an OrderedDict by dbName, are a sequence.           *)
(* The totals written to the text forms of a schema, and those forms, are  *)
(* left out.                                                               *)
(***************************************************************************)
EXTENDS Integers, Sequences, SequencesExt, FiniteSetsExt

NewField(name, base, type, len, offset, isVar, valid, seqNum, instNum) ==
    [fieldName |-> name, dbName |-> <<base, 0>>, fieldType |-> type, fieldLen |-> len,
     offset |-> offset, isVarLenParam |-> isVar, isValidBit |-> valid,
     seqNum |-> seqNum, instNum |-> instNum, isFiltered |-> FALSE]

NewEvent(name, id) ==
    [eventName |-> name, eventId |-> id, fields |-> <<>>, isFiltered |-> FALSE]

NewSchema == [events |-> <<>>, keys |-> <<>>, isFiltered |-> FALSE]

dbNames(event) == {f.dbName : f \in Range(event.fields)}

\* _dedup: the first free base_1, base_2, ... of a name that is taken.
dedup(event, base) ==
    <<base, Min({k \in 1 .. Len(event.fields) + 1 : <<base, k>> \notin dbNames(event)})>>

\* Mutant of addField: a name that is taken is used again.
addFieldOver(event, field) ==
    IF field.dbName \in dbNames(event)
      THEN [event EXCEPT !.fields = [i \in DOMAIN @ |->
                IF @[i].dbName = field.dbName THEN field ELSE @[i]]]
      ELSE [event EXCEPT !.fields = Append(@, field)]

addField(event, field) ==
    LET name == IF field.dbName \in dbNames(event)
                  THEN dedup(event, field.dbName[1]) ELSE field.dbName
    IN  [event EXCEPT !.fields = Append(@, [field EXCEPT !.dbName = name])]

\* By the name the document gives it.  (Brackets, which hasField strips, are
\* in none of the descriptions.)
hasField(event, name) == \E f \in Range(event.fields) : f.fieldName = name

filterFields(event, names) ==
    [event EXCEPT !.fields =
        [i \in DOMAIN @ |-> IF @[i].fieldName \in names
                              THEN [@[i] EXCEPT !.isFiltered = TRUE] ELSE @[i]]]

\* "Clear filter flag" sets it.
clearFields(event) ==
    [event EXCEPT !.fields = [i \in DOMAIN @ |-> [@[i] EXCEPT !.isFiltered = TRUE]]]

\* events is a dictionary: a second event with an id replaces the first.
addEvent(schema, event) ==
    [schema EXCEPT !.events = [id \in DOMAIN @ \cup {event.eventId} |->
                                  IF id = event.eventId THEN event ELSE @[id]]]

getFilterdEvents(schema) == {id \in DOMAIN schema.events : schema.events[id].isFiltered}

\* The ids of the events of a name; getEventId takes the first.
getEventId(schema, name) == {id \in DOMAIN schema.events : schema.events[id].eventName = name}

\* The event of an id, as a set: empty for None.
getEvent(schema, id, filtered) ==
    {schema.events[i] : i \in {j \in DOMAIN schema.events :
                                  j = id /\ (filtered => schema.events[j].isFiltered)}}

\* Mutant of filterSchema: what an earlier list asked for stays.
filterSchemaOnto(schema, evtList) ==
    [schema EXCEPT
        !.isFiltered = TRUE,
        !.events = [id \in DOMAIN @ |->
            IF id \in DOMAIN evtList
              THEN [filterFields(@[id], evtList[id]) EXCEPT !.isFiltered = TRUE]
              ELSE @[id]]]

\* A schema that is filtered already is cleared first.  evtList has a set of
\* field names for each event id asked for.
filterSchema(schema, evtList) ==
    LET cleared(event) == IF schema.isFiltered
                            THEN [clearFields(event) EXCEPT !.isFiltered = FALSE]
                            ELSE event
    IN  [schema EXCEPT
            !.isFiltered = TRUE,
            !.events = [id \in DOMAIN @ |->
                IF id \in DOMAIN evtList
                  THEN [filterFields(cleared(@[id]), evtList[id]) EXCEPT !.isFiltered = TRUE]
                  ELSE cleared(@[id])]]
=============================================================================
