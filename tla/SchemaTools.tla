---------------------------- MODULE SchemaTools ----------------------------
(***************************************************************************)
(* bobsburgers.py, the tools that prepare what a session builder parses    *)
(* by: the schema of a release, a session description, the schema filtered *)
(* by it; then the parser a unit makes of a schema file, and the records   *)
(* it is given.                                                            *)
(* The documents, and the nodes that report by them, are the environment:  *)
(* an event of a document has, beside its elements, its layout, the        *)
(* parameters the nodes send, in order, with their valid bits.             *)
(***************************************************************************)
EXTENDS Parse10Dash, SessionDesc

CONSTANTS
    Docs,           \* The documents.
    Tables,         \* The tables of session attributes, sequences of rows.
    Sample,         \* From a parameter's name to what nodes send for it: the
                    \* bytes, and what a reader should be shown.
    Content         \* From a length to what a message of it is shown as.

\* What a document is made of.
ParamDefs  == [name : STRING, type : STRING, len : Nat, lenName : STRING, valid : BOOLEAN]
Elements   == [kind : {"param", "struct"}, name : STRING, valid : BOOLEAN, seqmaxlen : Int]
StructDefs == [name : STRING, elems : Seq(Elements)]
EventDefs  == [name : STRING, id : Nat, elems : Seq(Elements),
               layout : Seq([name : STRING, bit : BOOLEAN])]
Documents  == [params : Seq(ParamDefs), structs : Seq(StructDefs), events : Seq(EventDefs)]

\* Every parameter has a name in the data base, and every name of an event
\* one id.
ASSUME DocsAssumption ==
    /\ Docs \subseteq Documents
    /\ \A d \in Docs :
          /\ \A i \in DOMAIN d.params : d.params[i].name \in DOMAIN DbName
          /\ \A i, j \in DOMAIN d.events :
                 d.events[i].name = d.events[j].name => d.events[i].id = d.events[j].id

ASSUME TablesAssumption == \A rows \in Tables : rows \in Seq(Range(rows))

VARIABLES
    doc,            \* The document of the release.
    ini,            \* The session description, <<>> for a file not there.
    files,          \* The schema files: "raw" and "filt".
    filtBy,         \* The description "filt" was last made by.
    parser,         \* The schema the unit has loaded.
    last            \* The last record: what was sent, and what came of it.

vars == <<doc, ini, files, filtBy, parser, last>>

NoFile   == [keys |-> <<"no file">>]
NoRecord == [kind |-> "no record"]

Init ==
    /\ doc \in Docs
    /\ ini = <<>>
    /\ files = [f \in {"raw", "filt"} |-> NoFile]
    /\ filtBy = <<>>
    /\ parser = NoFile
    /\ last = NoRecord

-----------------------------------------------------------------------------
(* The tools.  Whatever raises is caught, and nothing is written.  Bound:  *)
(* they run before the unit loads a schema, of which it keeps a copy.      *)

Preparing == parser = NoFile

\* -a 1
MakeSchema ==
    /\ Preparing
    /\ \E s \in read10Dash(doc) : files' = [files EXCEPT !["raw"] = s]
    /\ UNCHANGED <<doc, ini, filtBy, parser, last>>

\* -a 2
MakeIni ==
    /\ Preparing
    /\ \E rows \in Tables : ini' = doStuff(rows)
    /\ UNCHANGED <<doc, files, filtBy, parser, last>>

\* -a 3, on a schema that is filtered already or not.
MakeFiltered(from) ==
    /\ Preparing /\ files[from] # NoFile /\ ~IniRaises(ini)
    /\ files' = [files EXCEPT !["filt"] = describe(files[from], ini)]
    /\ filtBy' = ini
    /\ UNCHANGED <<doc, ini, parser, last>>

-----------------------------------------------------------------------------
(* The unit.  A file that is not there ends it.  Bound: it is given one    *)
(* record, or file; nothing of the parser changes with a record.           *)

Load(f) ==
    /\ parser = NoFile /\ files[f] # NoFile
    /\ parser' = files[f]
    /\ UNCHANGED <<doc, ini, files, filtBy, last>>

\* What a node may send for the next parameter, after what it has sent: a
\* sample, or a value that is not valid; or as many bytes as the length in
\* front of it says.
MaySend(d, p, sent) ==
    LET par == getParam(d, p.name)
        n == IF Last(sent).shown = None THEN 0 ELSE Last(sent).shown[2]
        invalid == [name |-> p.name, shown |-> None,
                    bytes |-> [i \in 1 .. par.len |-> 128]]
    IN  IF par.lenName = ""
          THEN {[name |-> p.name, bytes |-> v.bytes, shown |-> v.shown] : v \in Sample[p.name]}
               \cup (IF p.bit THEN {invalid} ELSE {})
          ELSE {[name |-> p.name, bytes |-> [i \in 1 .. n |-> 171], shown |-> Content[n]]}

\* The values of all of a layout of a document.
Sendings(d, layout) ==
    FoldLeft(LAMBDA S, p : UNION {{Append(s, x) : x \in MaySend(d, p, s)} : s \in S},
             {<<>>}, layout)

\* What the values of a record are shown as.
Showns == ({"int"} \X Nat) \cup ({"0x", "digits", "text"} \X Seq(Nat)) \cup {None, null}
Parts  == [name : STRING, bytes : Seq(Nat), shown : Showns]

\* What nodes send are such values.
ASSUME SendingsAssumption ==
    \A d \in Docs : \A e \in Range(d.events) :
        Sendings(d, e.layout) # {} /\ Sendings(d, e.layout) \subseteq Seq(Parts)

\* A record of the values, with pad bytes behind them.
Record(id, sent, pad) ==
    LET body == FlattenSeq([i \in DOMAIN sent |-> sent[i].bytes]) \o [i \in 1 .. pad |-> 0]
    IN  <<0, HeaderLen + Len(body), 0, 4, 0, 0, id>> \o body

\* A record comes in: the session builder's parseRaw.  Nodes of an older
\* release send fewer parameters, those of a later one something behind them.
Receive ==
    /\ parser # NoFile /\ last = NoRecord
    /\ \E e \in Range(doc.events) : \E sent \in Sendings(doc, e.layout) :
           \E n \in {Len(sent), Len(sent) \div 2}, pad \in 0 .. 1 :
               /\ pad > 0 => n = Len(sent)
               /\ LET got == SubSeq(sent, 1, n)
                  IN  last' = [kind |-> "record", id |-> e.id, sent |-> got, pad |-> pad,
                               parsed |-> parseRaw(parser, e.id, Record(e.id, got, pad))]
    /\ UNCHANGED <<doc, ini, files, filtBy, parser>>

\* -a 9: a file with a record of another type that looks like an event, the
\* records, and nothing, half a header or a length that cannot be behind them.
OtherRecord == <<0, 8, 0, 0, 0, 0, 13, 0>>
Ends        == {<<>>, <<0, 9, 0>>, <<0, 1, 0, 4>>}

FileOf(records, end) ==
    FlattenSeq(<<OtherRecord>>
               \o [i \in DOMAIN records |-> Record(records[i].id, records[i].sent, 1)])
    \o end

\* A record of each event, and one that is not in the schema.
ReadFile ==
    /\ parser # NoFile /\ last = NoRecord
    /\ LET es == doc.events
           records == Append([i \in DOMAIN es |->
                                 [id   |-> es[i].id,
                                  sent |-> CHOOSE s \in Sendings(doc, es[i].layout) : TRUE]],
                             [id |-> 99, sent |-> <<>>])
       IN  \E end \in Ends :
               last' = [kind |-> "file", sent |-> records, end |-> end,
                        lines |-> parseFile(parser, FileOf(records, end))]
    /\ UNCHANGED <<doc, ini, files, filtBy, parser>>

Next ==
    \/ MakeSchema
    \/ MakeIni
    \/ \E f \in {"raw", "filt"} : MakeFiltered(f) \/ Load(f)
    \/ Receive
    \/ ReadFile

Spec == Init /\ [][Next]_vars

-----------------------------------------------------------------------------
Schemas == Range(files) \ {NoFile}

\* The events of a document by id: the last of an id counts.
EventOf(id) == LET is == {i \in DOMAIN doc.events : doc.events[i].id = id}
               IN  doc.events[Max(is)]

\* A schema has every event its document says, each once by id, and the
\* fields of an event do not meet: each starts where the one in front ends,
\* and has a name in the data base of its own, however often structures are
\* nested and repeated or a parameter comes back, and whatever has been
\* filtered since (parse10dash.py:476-507, schema.py:76-90, :111-114).
FieldsInPlace ==
    \A s \in Schemas :
        /\ DOMAIN s.events = {e.id : e \in Range(doc.events)}
        /\ \A id \in DOMAIN s.events :
               LET fs == s.events[id].fields
               IN  /\ \A i \in DOMAIN fs :
                          fs[i].offset = IF i = 1 THEN 0
                                         ELSE fs[i-1].offset + fs[i-1].fieldLen
                   /\ IsInjective([i \in DOMAIN fs |-> fs[i].dbName])

\* The bytes a value has beside those of its field, as the length in front of
\* it tells.
Told(fs, sent, i) == IF i > 1 /\ fs[i].isVarLenParam /\ sent[i - 1].shown[1] = "int"
                       THEN sent[i - 1].shown[2] ELSE 0

\* The values of a record are those of an event's first fields: each has the
\* name and the length of its field, and its bytes, read as the type of the
\* field, are what it is shown as; a length is in front of what it is for.
AsSaid(event, sent, pad) ==
    LET fs == event.fields
    IN  /\ sent \in Seq(Parts) /\ Len(sent) <= Len(fs)
        /\ Len(sent) < Len(fs) => pad <= fs[Len(sent) + 1].fieldLen
        /\ \A i \in DOMAIN sent :
              /\ sent[i].name = fs[i].fieldName
              /\ sent[i].shown = decodeField(sent[i].bytes, fs[i], FALSE)
              /\ Len(sent[i].bytes) = fs[i].fieldLen + Told(fs, sent, i)
              /\ i > 1 /\ IsLength(fs[i - 1]) => fs[i].isVarLenParam

\* They are the parameters of the event's layout, in order: a structure inside
\* stands for its own, the first of its name, as often as the event repeats it
\* (parse10dash.py:34-45, :338-474).  So the values of a record are those of
\* its fields, each by itself read as what it is (parseCTRS.py:25-135).
FieldsAsSaid ==
    /\ \A s \in Schemas : \A id \in DOMAIN s.events :
           LET fs == s.events[id].fields
               ps == EventOf(id).layout
           IN  [i \in DOMAIN fs |-> fs[i].fieldName] = [i \in DOMAIN ps |-> ps[i].name]
    /\ last.kind = "record" =>
           \A event \in getEvent(parser, last.id, TRUE) : AsSaid(event, last.sent, last.pad)

\* The rows of the last table whose section names an event, in the schema or
\* by its alias.
Names(row, s, id) ==
    \E n \in row.source_event :
        \/ s.events[id].eventName = n
        \/ n \in DOMAIN Alias /\ Alias[n] = id
               /\ \A other \in DOMAIN s.events : s.events[other].eventName # n

\* A schema that is filtered, also again and from one that was, has just the
\* events its last description names, and of these every field that is asked
\* for (sessionDesc.py:101-168, schema.py:267-282).  The converse, that no
\* other field is filtered, does not hold once a schema is filtered again,
\* since clearFields sets the flag (schema.py:111-114).
LatestFilter ==
    files["filt"] # NoFile =>
        LET s == files["filt"]
        IN  \A id \in DOMAIN s.events :
               /\ s.events[id].isFiltered <=> \E row \in Range(filtBy) : Names(row, s, id)
               /\ \A f \in Range(s.events[id].fields), row \in Range(filtBy) :
                      Names(row, s, id)
                      /\ [kind |-> "field", name |-> f.fieldName] \in Range(row.field_s)
                      => f.isFiltered

\* The unit can tell whose event a record is: of every event it parses, the
\* schema it has loaded has all the key fields the event has filtered, so that
\* a key is "missing" only when the node did not send it or the event has no
\* such field (sessionDesc.py:131-135, parseCTRS.py:205-213).
KeysReach ==
    \A s \in {files["filt"], parser} \ {NoFile} : s.isFiltered /\ s.keys # <<>> =>
        \A id \in getFilterdEvents(s) : \A f \in Range(s.events[id].fields) :
            f.fieldName \in Range(s.keys) => f.isFiltered

\* The positions of a record whose values the unit should show: the field is
\* filtered, what was sent is valid, and it is followed by at least one more
\* byte, since a field that reaches the end is given up (parseCTRS.py:240).
Shown(event, sent, pad) ==
    {i \in DOMAIN sent :
        /\ event.fields[i].isFiltered
        /\ sent[i].shown # None
        /\ \/ pad > 0
           \/ \E j \in i + 1 .. Len(sent) : sent[j].bytes # <<>>}

\* Every length with a message behind it is filtered and one the parser knows.
LengthsRead(event, sent) ==
    \A i \in DOMAIN sent :
        event.fields[i].isVarLenParam /\ sent[i].bytes # <<>> =>
            event.fields[i - 1].isFiltered /\ IsLength(event.fields[i - 1])

\* The parser finds its place: whatever fields are left out of a filtered
\* schema, are not valid or come twice, and however long the messages inside,
\* each filtered value of a record is shown as it was sent, the last one where
\* a name comes back; and nothing else is shown (parseCTRS.py:217-261).
DecodedRight ==
    last.kind = "record" =>
        LET known == getEvent(parser, last.id, TRUE)
            event == CHOOSE e \in known : TRUE
            at    == Shown(event, last.sent, last.pad)
            names == {last.sent[i].name : i \in at}
            value(n) == last.sent[Max({i \in at : last.sent[i].name = n})].shown
            keys  == sessionKeys(parser)
        IN  IF known = {} THEN last.parsed.kind = "None"
            ELSE LengthsRead(event, last.sent) =>
                 /\ last.parsed.kind = "result"
                 /\ last.parsed.result = [n \in names \ Range(keys) |-> value(n)]
                 /\ last.parsed.keys = [i \in DOMAIN keys |->
                        IF keys[i] \in names THEN value(keys[i]) ELSE missing]

\* A file is cut into its records: there is a line for each record of an event
\* of the schema, with what that record alone gives; the records of other
\* types and events have none; and what is no record ends it (parseCTRS.py:
\* 263-296, 356-377).  Bound: no record that itself raises.
FileInRecords ==
    last.kind = "file" =>
        LET raw(r)   == Record(r.id, r.sent, 1)
            alone(r) == parseEvent(parser, r.id, raw(r), parser.isFiltered)
            known == {i \in DOMAIN last.sent :
                         getEvent(parser, last.sent[i].id, parser.isFiltered) # {}}
            at(i) == Cardinality({j \in known : j <= i})
        IN  (\A r \in Range(last.sent) : Len(raw(r)) <= 4999 /\ alone(r).kind # "raised") =>
            /\ Len(last.lines) = Cardinality(known) + (IF last.end = <<>> THEN 0 ELSE 1)
            /\ last.end # <<>> => Last(last.lines).kind = "raised"
            /\ \A i \in known : /\ last.lines[at(i)].kind = "line"
                                /\ last.lines[at(i)].result = alone(last.sent[i]).result
=============================================================================
