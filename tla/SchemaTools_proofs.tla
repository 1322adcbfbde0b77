-------------------------- MODULE SchemaTools_proofs --------------------------
(***************************************************************************)
(* Theorems about SchemaTools, for any documents and descriptions, however *)
(* structures are nested and repeated, and however often a schema is       *)
(* filtered again.                                                         *)
(***************************************************************************)
EXTENDS SchemaTools, Recursion, FiniteSetTheorems

-----------------------------------------------------------------------------
(***************************************************************************)
(* Structures.                                                             *)
(***************************************************************************)

Pars       == [name : STRING, valid : BOOLEAN]
Structures == [name : STRING, parameters : Seq(Pars)]
Bodies     == [ps : Seq(Pars), leak : BOOLEAN, raised : BOOLEAN]
Readings   == [structs : Seq(Structures), raised : BOOLEAN]

LEMMA StructureFound ==
    ASSUME NEW structs \in Seq(Structures), NEW name, getStructure(structs, name) # {}
    PROVE  (CHOOSE s \in getStructure(structs, name) : TRUE) \in Seq(Pars)
<1>1. \A i \in DOMAIN structs : structs[i].parameters \in Seq(Pars)
  <2>1. \A i \in DOMAIN structs : structs[i] \in Structures  OBVIOUS
  <2> QED BY <2>1 DEF Structures
<1>2. getStructure(structs, name) \subseteq Seq(Pars)  BY <1>1 DEF getStructure
<1> QED BY <1>2

LEMMA StructLineType ==
    ASSUME NEW acc \in Bodies, NEW elem \in Elements, NEW structs \in Seq(Structures)
    PROVE  structLine(acc, elem, structs) \in Bodies
<1> DEFINE inner == getStructure(structs, elem.name)
           ps    == CHOOSE s \in inner : TRUE
           param == [name |-> elem.name, valid |-> elem.valid \/ acc.leak]
<1>1. /\ elem.kind \in {"param", "struct"} /\ elem.name \in STRING /\ elem.valid \in BOOLEAN
  BY DEF Elements
<1>2. acc.ps \in Seq(Pars) /\ acc.leak \in BOOLEAN /\ acc.raised \in BOOLEAN  BY DEF Bodies
<1>3. CASE elem.kind = "param"
  <2>1. param \in Pars  BY <1>1, <1>2 DEF Pars
  <2>2. structLine(acc, elem, structs) = [acc EXCEPT !.ps = Append(@, param), !.leak = FALSE]
    BY <1>3 DEF structLine
  <2>3. Append(acc.ps, param) \in Seq(Pars)  BY <2>1, <1>2
  <2> HIDE DEF param
  <2> QED BY <2>2, <2>3, <1>2 DEF Bodies
<1>4. CASE elem.kind = "struct" /\ inner = {}
  <2>1. structLine(acc, elem, structs) = [acc EXCEPT !.raised = TRUE]
    BY <1>4 DEF structLine
  <2> QED BY <2>1 DEF Bodies
<1>5. CASE elem.kind = "struct" /\ inner # {}
  <2>1. structLine(acc, elem, structs)
          = [acc EXCEPT !.ps = @ \o ps, !.leak = ps # <<>> /\ Last(ps).valid]
    BY <1>5 DEF structLine
  <2>2. ps \in Seq(Pars)  BY <1>5, StructureFound
  <2> HIDE DEF ps
  <2>3. acc.ps \o ps \in Seq(Pars)  BY <1>2, <2>2
  <2>4. (ps # <<>> /\ Last(ps).valid) \in BOOLEAN
    <3>1. ps # <<>> => Last(ps) \in Pars  BY <2>2 DEF Last
    <3> QED BY <3>1 DEF Pars
  <2> QED BY <2>1, <2>3, <2>4 DEF Bodies
<1> QED BY <1>1, <1>3, <1>4, <1>5

LEMMA StructLinesType ==
    ASSUME NEW elems \in Seq(Elements), NEW structs \in Seq(Structures)
    PROVE  structLines(elems, structs) \in Bodies
<1> DEFINE a == [ps |-> <<>>, leak |-> FALSE, raised |-> FALSE]
           g == [p \in Bodies \X Elements |-> structLine(p[1], p[2], structs)]
           Is(e) == e = [i \in 0 .. Len(elems) |->
                           IF i = 0 THEN [ps |-> <<>>, leak |-> FALSE, raised |-> FALSE]
                           ELSE structLine(e[i - 1], elems[i], structs)]
           h == CHOOSE e : Is(e)
<1>0. Len(elems) \in Nat /\ \A i \in 1 .. Len(elems) : elems[i] \in Elements
  BY ElementOfSeq, LenProperties
<1>1. a \in Bodies  BY DEF Bodies
<1>2. g \in [Bodies \X Elements -> Bodies]  BY StructLineType
<1>3. \A x \in Bodies, e \in Elements : g[<<x, e>>] = structLine(x, e, structs)  OBVIOUS
<1> HIDE DEF g
<1>4. PICK f \in [0 .. Len(elems) -> Bodies] : Folds(f, a, g, elems)
  <2> HIDE DEF a
  <2> QED BY <1>1, <1>2, Folding
<1>5. Is(f)
  <2>1. ASSUME NEW i \in 0 .. Len(elems)
        PROVE  (IF i = 0 THEN a ELSE g[<<f[i - 1], elems[i]>>])
                 = (IF i = 0 THEN a ELSE structLine(f[i - 1], elems[i], structs))
    <3>1. CASE i # 0
      <4>1. f[i - 1] \in Bodies /\ elems[i] \in Elements  BY <1>0, <3>1
      <4> QED BY <4>1, <1>3
    <3> QED BY <3>1
  <2>2. f = [i \in 0 .. Len(elems) |-> IF i = 0 THEN a ELSE g[<<f[i - 1], elems[i]>>]]
    BY <1>4 DEF Folds
  <2>3. f = [i \in 0 .. Len(elems) |->
               IF i = 0 THEN a ELSE structLine(f[i - 1], elems[i], structs)]
    <3> HIDE DEF a
    <3> QED BY <2>1, <2>2, Zenon
  <2> QED BY <2>3, Zenon
<1>6. Is(h)
  <2> HIDE DEF Is
  <2> QED BY <1>5, Zenon
<1>7. structLines(elems, structs) = h[Len(elems)]  BY Zenon DEF structLines
<1>8. h = [i \in 0 .. Len(elems) |-> IF i = 0 THEN a ELSE structLine(h[i - 1], elems[i], structs)]
  <2> HIDE DEF h
  <2> QED BY <1>6, Zenon
<1> HIDE DEF h, a, Is
<1>9. h[0] = a  BY <1>8, <1>0
<1>10. ASSUME NEW i \in 1 .. Len(elems), h[i - 1] \in Bodies
       PROVE  h[i] = g[<<h[i - 1], elems[i]>>]
  <2>1. h[i] = structLine(h[i - 1], elems[i], structs)
    <3>1. i \in 0 .. Len(elems) /\ i # 0  BY <1>0
    <3> QED BY <3>1, <1>8, Zenon
  <2> QED BY <2>1, <1>0, <1>3, <1>10
<1>11. Follows(h, Bodies, g, elems)  BY <1>10 DEF Follows
<1>12. h[0] \in Bodies  BY <1>1, <1>9
<1>13. \A i \in 0 .. Len(elems) : h[i] \in Bodies  BY <1>2, <1>11, <1>12, Folded
<1> QED BY <1>0, <1>7, <1>13

LEMMA AddStructureType ==
    ASSUME NEW acc \in Readings, NEW struct \in StructDefs
    PROVE  addStructure(acc, struct) \in Readings
<1> DEFINE body == structLines(struct.elems, acc.structs)
<1>1. acc.structs \in Seq(Structures) /\ acc.raised \in BOOLEAN  BY DEF Readings
<1>2. struct.name \in STRING /\ struct.elems \in Seq(Elements)  BY DEF StructDefs
<1>3. body \in Bodies  BY <1>1, <1>2, StructLinesType
<1> HIDE DEF body
<1>4. [name |-> struct.name, parameters |-> body.ps] \in Structures
  BY <1>2, <1>3 DEF Structures, Bodies
<1>5. Append(acc.structs, [name |-> struct.name, parameters |-> body.ps]) \in Seq(Structures)
  BY <1>1, <1>4
<1>6. (acc.raised \/ body.raised) \in BOOLEAN  OBVIOUS
<1>7. addStructure(acc, struct)
        = [structs |-> Append(acc.structs, [name |-> struct.name, parameters |-> body.ps]),
           raised  |-> acc.raised \/ body.raised]
  BY DEF addStructure, body
<1> QED BY <1>5, <1>6, <1>7 DEF Readings

LEMMA StructuresType ==
    ASSUME NEW d \in Documents
    PROVE  structures(d) \in Readings
<1> DEFINE a == [structs |-> <<>>, raised |-> FALSE]
           g == [p \in Readings \X StructDefs |-> addStructure(p[1], p[2])]
           Is(e) == e = [i \in 0 .. Len(d.structs) |->
                           IF i = 0 THEN [structs |-> <<>>, raised |-> FALSE]
                           ELSE addStructure(e[i - 1], d.structs[i])]
           h == CHOOSE e : Is(e)
<1>t. d.structs \in Seq(StructDefs)  BY DEF Documents
<1>0. Len(d.structs) \in Nat /\ \A i \in 1 .. Len(d.structs) : d.structs[i] \in StructDefs
  BY <1>t, ElementOfSeq, LenProperties
<1>1. a \in Readings  BY DEF Readings
<1>2. g \in [Readings \X StructDefs -> Readings]  BY AddStructureType
<1>3. \A x \in Readings, e \in StructDefs : g[<<x, e>>] = addStructure(x, e)  OBVIOUS
<1> HIDE DEF g
<1>4. PICK f \in [0 .. Len(d.structs) -> Readings] : Folds(f, a, g, d.structs)
  <2> HIDE DEF a
  <2> QED BY <1>t, <1>1, <1>2, Folding
<1>5. Is(f)
  <2>1. ASSUME NEW i \in 0 .. Len(d.structs)
        PROVE  (IF i = 0 THEN a ELSE g[<<f[i - 1], d.structs[i]>>])
                 = (IF i = 0 THEN a ELSE addStructure(f[i - 1], d.structs[i]))
    <3>1. CASE i # 0
      <4>1. f[i - 1] \in Readings /\ d.structs[i] \in StructDefs  BY <1>0, <3>1
      <4> QED BY <4>1, <1>3
    <3> QED BY <3>1
  <2>2. f = [i \in 0 .. Len(d.structs) |-> IF i = 0 THEN a ELSE g[<<f[i - 1], d.structs[i]>>]]
    BY <1>4 DEF Folds
  <2>3. f = [i \in 0 .. Len(d.structs) |->
               IF i = 0 THEN a ELSE addStructure(f[i - 1], d.structs[i])]
    <3> HIDE DEF a
    <3> QED BY <2>1, <2>2, Zenon
  <2> QED BY <2>3, Zenon
<1>6. Is(h)
  <2> HIDE DEF Is
  <2> QED BY <1>5, Zenon
<1>7. structures(d) = h[Len(d.structs)]  BY Zenon DEF structures
<1>8. h = [i \in 0 .. Len(d.structs) |-> IF i = 0 THEN a ELSE addStructure(h[i - 1], d.structs[i])]
  <2> HIDE DEF h
  <2> QED BY <1>6, Zenon
<1> HIDE DEF h, a, Is
<1>9. h[0] = a  BY <1>8, <1>0
<1>10. ASSUME NEW i \in 1 .. Len(d.structs), h[i - 1] \in Readings
       PROVE  h[i] = g[<<h[i - 1], d.structs[i]>>]
  <2>1. h[i] = addStructure(h[i - 1], d.structs[i])
    <3>1. i \in 0 .. Len(d.structs) /\ i # 0  BY <1>0
    <3> QED BY <3>1, <1>8, Zenon
  <2> QED BY <2>1, <1>0, <1>3, <1>10
<1>11. Follows(h, Readings, g, d.structs)  BY <1>10 DEF Follows
<1>12. h[0] \in Readings  BY <1>1, <1>9
<1>13. \A i \in 0 .. Len(d.structs) : h[i] \in Readings  BY <1>t, <1>2, <1>11, <1>12, Folded
<1> QED BY <1>0, <1>7, <1>13

-----------------------------------------------------------------------------
(***************************************************************************)
(* The lines of an event.                                                  *)
(***************************************************************************)

Lines    == [name : STRING, valid : BOOLEAN, seqNum : Int, instNum : Int]
LineAccs == [param : Seq(Lines), seqNum : Int, curSeq : Int, raised : BOOLEAN]

\* Sequences that are joined make one of their elements.
LEMMA FlattenType ==
    ASSUME NEW S, NEW s \in Seq(Seq(S))
    PROVE  FlattenSeq(s) \in Seq(S)
<1>0. Len(s) \in Nat /\ \A i \in 1 .. Len(s) : s[i] \in Seq(S)
  BY ElementOfSeq, LenProperties
<1>a. CASE Len(s) = 0
  <2>1. FlattenSeq(s) = s  BY <1>a DEF FlattenSeq
  <2>2. s = <<>>  BY <1>a
  <2> QED BY <2>1, <2>2
<1>b. CASE Len(s) # 0
  <2> DEFINE g == [p \in Seq(S) \X Nat |->
                     IF p[2] \in 1 .. Len(s) THEN p[1] \o s[p[2]] ELSE <<>>]
             Is(e) == e = [i \in 1 .. Len(s) |-> IF i = 1 THEN s[i] ELSE e[i - 1] \o s[i]]
             h == CHOOSE e : Is(e)
  <2>1. g \in [Seq(S) \X Nat -> Seq(S)]
    <3>1. ASSUME NEW p \in Seq(S) \X Nat
          PROVE  (IF p[2] \in 1 .. Len(s) THEN p[1] \o s[p[2]] ELSE <<>>) \in Seq(S)
      <4>1. CASE p[2] \in 1 .. Len(s)
        <5>1. p[1] \in Seq(S) /\ s[p[2]] \in Seq(S)  BY <1>0, <4>1
        <5>2. p[1] \o s[p[2]] \in Seq(S)  BY <5>1
        <5> QED BY <4>1, <5>2
      <4>2. CASE p[2] \notin 1 .. Len(s)  BY <4>2
      <4> QED BY <4>1, <4>2
    <3> QED BY <3>1, Zenon
  <2>2. s[1] \in Seq(S) /\ 1 \in Nat /\ Len(s) \in Int  BY <1>0, <1>b
  <2>3. PICK f \in [1 .. Len(s) -> Seq(S)] : Iterates(f, 1, Len(s), s[1], g)
    <3> HIDE DEF g
    <3> QED BY <2>1, <2>2, Iteration
  <2>4. Is(f)
    <3>1. ASSUME NEW i \in 1 .. Len(s)
          PROVE  (IF i = 1 THEN s[1] ELSE g[<<f[i - 1], i>>])
                   = (IF i = 1 THEN s[i] ELSE f[i - 1] \o s[i])
      <4>1. CASE i # 1
        <5>1. i - 1 \in 1 .. Len(s) /\ i \in Nat  BY <1>0, <4>1
        <5>2. f[i - 1] \in Seq(S)  BY <5>1
        <5>3. g[<<f[i - 1], i>>] = f[i - 1] \o s[i]  BY <5>1, <5>2
        <5> HIDE DEF g
        <5> QED BY <5>3, <4>1
      <4> QED BY <4>1
    <3>2. f = [i \in 1 .. Len(s) |-> IF i = 1 THEN s[1] ELSE g[<<f[i - 1], i>>]]
      <4> HIDE DEF g
      <4> QED BY <2>3 DEF Iterates
    <3> HIDE DEF g
    <3> QED BY <3>1, <3>2, Zenon
  <2>5. Is(h)
    <3> HIDE DEF Is
    <3> QED BY <2>4, Zenon
  <2>6. FlattenSeq(s) = h[Len(s)]  BY <1>b, Zenon DEF FlattenSeq
  <2>7. h = [i \in 1 .. Len(s) |-> IF i = 1 THEN s[i] ELSE h[i - 1] \o s[i]]
    <3> HIDE DEF h
    <3> QED BY <2>5, Zenon
  <2> HIDE DEF h, g, Is
  <2> DEFINE U == {i \in Nat : i + 1 \in 1 .. Len(s) => h[i + 1] \in Seq(S)}
  <2>8. 0 \in U
    <3>1. 1 \in 1 .. Len(s)  BY <1>0, <1>b
    <3>2. h[1] = s[1]  BY <3>1, <2>7
    <3> QED BY <3>2, <2>2
  <2>9. ASSUME NEW i \in Nat, i \in U PROVE i + 1 \in U
    <3>1. CASE (i + 1) + 1 \in 1 .. Len(s)
      <4>1. h[i + 1] \in Seq(S)  BY <2>9, <3>1, <1>0
      <4>2. ((i + 1) + 1) - 1 = i + 1 /\ (i + 1) + 1 # 1  OBVIOUS
      <4>3. h[(i + 1) + 1] = h[i + 1] \o s[(i + 1) + 1]  BY <2>7, <3>1, <4>2
      <4>4. s[(i + 1) + 1] \in Seq(S)  BY <1>0, <3>1
      <4>5. h[(i + 1) + 1] \in Seq(S)  BY <4>1, <4>3, <4>4
      <4> QED BY <4>5
    <3> QED BY <3>1
  <2> HIDE DEF U
  <2>10. Nat \subseteq U  BY <2>8, <2>9, Successors
  <2>11. Len(s) - 1 \in Nat /\ (Len(s) - 1) + 1 = Len(s)  BY <1>0, <1>b
  <2>12. Len(s) - 1 \in U  BY <2>10, <2>11
  <2>13. Len(s) \in 1 .. Len(s)  BY <1>0, <1>b
  <2>14. h[Len(s)] \in Seq(S)  BY <2>11, <2>12, <2>13 DEF U
  <2> QED BY <2>6, <2>14
<1> QED BY <1>a, <1>b

\* The parameters of a structure that is there count times.
Repeated(ps, count, curSeq) ==
    FlattenSeq([i \in 1 .. count |-> [j \in DOMAIN ps |->
        [name |-> ps[j].name, valid |-> ps[j].valid, seqNum |-> curSeq, instNum |-> i - 1]]])

LEMMA RepeatedType ==
    ASSUME NEW ps \in Seq(Pars), NEW count \in Int, NEW curSeq \in Int
    PROVE  Repeated(ps, count, curSeq) \in Seq(Lines)
<1> DEFINE line(i, j) == [name |-> ps[j].name, valid |-> ps[j].valid,
                          seqNum |-> curSeq, instNum |-> i - 1]
           one(i) == [j \in DOMAIN ps |-> line(i, j)]
           all == [i \in 1 .. count |-> one(i)]
<1>1. ASSUME NEW i \in 1 .. count PROVE one(i) \in Seq(Lines)
  <2>1. Len(ps) \in Nat /\ DOMAIN ps = 1 .. Len(ps)  OBVIOUS
  <2>2. \A j \in 1 .. Len(ps) : line(i, j) \in Lines
    <3>1. \A j \in 1 .. Len(ps) : ps[j] \in Pars  OBVIOUS
    <3> QED BY <3>1 DEF Lines, Pars
  <2> HIDE DEF line
  <2>3. one(i) = [j \in 1 .. Len(ps) |-> line(i, j)]  BY <2>1
  <2>4. one(i) \in [1 .. Len(ps) -> Lines]  BY <2>2, <2>3
  <2> HIDE DEF one
  <2> QED BY <2>1, <2>4, SeqDef
<1> HIDE DEF one
<1>2. all \in Seq(Seq(Lines))
  <2>1. all \in [1 .. count -> Seq(Lines)]  BY <1>1
  <2>2. CASE count \in Nat  BY <2>1, <2>2, SeqDef
  <2>3. CASE count \notin Nat
    <3>1. 1 .. count = 1 .. 0  BY <2>3
    <3>2. all \in [1 .. 0 -> Seq(Lines)]  BY <2>1, <3>1
    <3> HIDE DEF all
    <3> QED BY <3>2, SeqDef
  <2> QED BY <2>2, <2>3
<1>3. Repeated(ps, count, curSeq) = FlattenSeq(all)  BY Zenon DEF Repeated, all, one, line
<1> HIDE DEF all
<1> QED BY <1>2, <1>3, FlattenType

LEMMA EventLineType ==
    ASSUME NEW acc \in LineAccs, NEW elem \in Elements, NEW structs \in Seq(Structures)
    PROVE  eventLine(acc, elem, structs) \in LineAccs
<1> DEFINE inner  == getStructure(structs, elem.name)
           ps     == CHOOSE s \in inner : TRUE
           count  == IF elem.seqmaxlen = -1 THEN 1 ELSE elem.seqmaxlen
           seqNum == IF elem.seqmaxlen > 1 THEN acc.seqNum + 1 ELSE acc.seqNum
           curSeq == CASE elem.seqmaxlen = -1 -> 0
                       [] elem.seqmaxlen > 1  -> seqNum
                       [] OTHER               -> acc.curSeq
           params == Repeated(ps, count, curSeq)
           line   == [name |-> elem.name, valid |-> elem.valid, seqNum |-> 0, instNum |-> 0]
<1>1. /\ elem.kind \in {"param", "struct"} /\ elem.name \in STRING /\ elem.valid \in BOOLEAN
      /\ elem.seqmaxlen \in Int
  BY DEF Elements
<1>2. /\ acc.param \in Seq(Lines) /\ acc.seqNum \in Int /\ acc.curSeq \in Int
      /\ acc.raised \in BOOLEAN
  BY DEF LineAccs
<1>3. CASE elem.kind = "param"
  <2>1. line \in Lines  BY <1>1 DEF Lines
  <2>2. eventLine(acc, elem, structs) = [acc EXCEPT !.param = Append(@, line)]
    BY <1>3 DEF eventLine
  <2> HIDE DEF line
  <2>3. Append(acc.param, line) \in Seq(Lines)  BY <2>1, <1>2
  <2> QED BY <2>2, <2>3, <1>2 DEF LineAccs
<1>4. CASE elem.kind = "struct" /\ inner = {}
  <2>1. eventLine(acc, elem, structs) = [acc EXCEPT !.raised = TRUE]
    BY <1>4 DEF eventLine
  <2> QED BY <2>1 DEF LineAccs
<1>5. CASE elem.kind = "struct" /\ inner # {}
  <2>1. eventLine(acc, elem, structs)
          = [acc EXCEPT !.param = @ \o params, !.seqNum = seqNum, !.curSeq = curSeq,
                        !.raised = @ \/ (curSeq = -1 /\ params # <<>>)]
    BY <1>5 DEF eventLine, Repeated
  <2>2. ps \in Seq(Pars)  BY <1>5, StructureFound
  <2>3. count \in Int /\ seqNum \in Int  BY <1>1, <1>2
  <2> HIDE DEF ps, count, seqNum
  <2>4. curSeq \in Int  BY <1>1, <1>2, <2>3
  <2> HIDE DEF curSeq
  <2>5. params \in Seq(Lines)  BY <2>2, <2>3, <2>4, RepeatedType
  <2> HIDE DEF params
  <2>6. acc.param \o params \in Seq(Lines)  BY <1>2, <2>5
  <2>7. (acc.raised \/ (curSeq = -1 /\ params # <<>>)) \in BOOLEAN  OBVIOUS
  <2> QED BY <2>1, <2>3, <2>4, <2>6, <2>7 DEF LineAccs
<1> QED BY <1>1, <1>3, <1>4, <1>5

LEMMA EventLinesType ==
    ASSUME NEW elems \in Seq(Elements), NEW structs \in Seq(Structures),
           NEW curSeq \in Int
    PROVE  eventLines(elems, curSeq, structs) \in LineAccs
<1> DEFINE a == [param |-> <<>>, seqNum |-> 0, curSeq |-> curSeq, raised |-> FALSE]
           g == [p \in LineAccs \X Elements |-> eventLine(p[1], p[2], structs)]
           Is(e) == e = [i \in 0 .. Len(elems) |->
                           IF i = 0 THEN [param |-> <<>>, seqNum |-> 0, curSeq |-> curSeq, raised |-> FALSE]
                           ELSE eventLine(e[i - 1], elems[i], structs)]
           h == CHOOSE e : Is(e)
<1>0. Len(elems) \in Nat /\ \A i \in 1 .. Len(elems) : elems[i] \in Elements
  BY ElementOfSeq, LenProperties
<1>1. a \in LineAccs  BY DEF LineAccs
<1>2. g \in [LineAccs \X Elements -> LineAccs]  BY EventLineType
<1>3. \A x \in LineAccs, e \in Elements : g[<<x, e>>] = eventLine(x, e, structs)  OBVIOUS
<1> HIDE DEF g
<1>4. PICK f \in [0 .. Len(elems) -> LineAccs] : Folds(f, a, g, elems)
  <2> HIDE DEF a
  <2> QED BY <1>1, <1>2, Folding
<1>5. Is(f)
  <2>1. ASSUME NEW i \in 0 .. Len(elems)
        PROVE  (IF i = 0 THEN a ELSE g[<<f[i - 1], elems[i]>>])
                 = (IF i = 0 THEN a ELSE eventLine(f[i - 1], elems[i], structs))
    <3>1. CASE i # 0
      <4>1. f[i - 1] \in LineAccs /\ elems[i] \in Elements  BY <1>0, <3>1
      <4> QED BY <4>1, <1>3
    <3> QED BY <3>1
  <2>2. f = [i \in 0 .. Len(elems) |-> IF i = 0 THEN a ELSE g[<<f[i - 1], elems[i]>>]]
    BY <1>4 DEF Folds
  <2>3. f = [i \in 0 .. Len(elems) |->
               IF i = 0 THEN a ELSE eventLine(f[i - 1], elems[i], structs)]
    <3> HIDE DEF a
    <3> QED BY <2>1, <2>2, Zenon
  <2> QED BY <2>3, Zenon
<1>6. Is(h)
  <2> HIDE DEF Is
  <2> QED BY <1>5, Zenon
<1>7. eventLines(elems, curSeq, structs) = h[Len(elems)]  BY Zenon DEF eventLines
<1>8. h = [i \in 0 .. Len(elems) |-> IF i = 0 THEN a ELSE eventLine(h[i - 1], elems[i], structs)]
  <2> HIDE DEF h
  <2> QED BY <1>6, Zenon
<1> HIDE DEF h, a, Is
<1>9. h[0] = a  BY <1>8, <1>0
<1>10. ASSUME NEW i \in 1 .. Len(elems), h[i - 1] \in LineAccs
       PROVE  h[i] = g[<<h[i - 1], elems[i]>>]
  <2>1. h[i] = eventLine(h[i - 1], elems[i], structs)
    <3>1. i \in 0 .. Len(elems) /\ i # 0  BY <1>0
    <3> QED BY <3>1, <1>8, Zenon
  <2> QED BY <2>1, <1>0, <1>3, <1>10
<1>11. Follows(h, LineAccs, g, elems)  BY <1>10 DEF Follows
<1>12. h[0] \in LineAccs  BY <1>1, <1>9
<1>13. \A i \in 0 .. Len(elems) : h[i] \in LineAccs  BY <1>2, <1>11, <1>12, Folded
<1> QED BY <1>0, <1>7, <1>13

-----------------------------------------------------------------------------
(***************************************************************************)
(* The fields of an event.                                                 *)
(***************************************************************************)

Bases   == {DbName[n] : n \in DOMAIN DbName}
Fields  == [fieldName : STRING, dbName : Bases \X Nat, fieldType : STRING, fieldLen : Nat,
            offset : Nat, isVarLenParam : BOOLEAN, isValidBit : BOOLEAN,
            seqNum : Int, instNum : Int, isFiltered : BOOLEAN]
Events  == [eventName : STRING, eventId : Nat, fields : Seq(Fields), isFiltered : BOOLEAN]

\* Where the field at i starts, and where the last one ends.
StartOf(fs, i) == IF i = 1 THEN 0 ELSE fs[i-1].offset + fs[i-1].fieldLen
EndOf(fs)      == StartOf(fs, Len(fs) + 1)

InPlace(fs) ==
    /\ \A i \in 1 .. Len(fs) : fs[i].offset = StartOf(fs, i)
    /\ \A i, j \in 1 .. Len(fs) : fs[i].dbName = fs[j].dbName => i = j

\* The least and the greatest number of a set.
LEMMA MinIn ==
    ASSUME NEW S \in SUBSET Nat, S # {}
    PROVE  Min(S) \in S
<1>1. \E x \in S : \A y \in S : x =< y  BY Least
<1> QED BY <1>1 DEF Min

LEMMA MaxIn ==
    ASSUME NEW n \in Nat, NEW S \in SUBSET (0 .. n), S # {}
    PROVE  Max(S) \in S
<1> DEFINE T == {k \in Nat : \E x \in S : k = n - x}
<1>1. T # {}
  <2>1. PICK x \in S : TRUE  OBVIOUS
  <2>2. n - x \in Nat  BY <2>1
  <2> QED BY <2>2
<1>2. PICK k \in T : \A l \in T : k <= l  BY <1>1, Least
<1>3. PICK x \in S : k = n - x  BY <1>2
<1>4. ASSUME NEW y \in S PROVE x >= y
  <2>1. n - y \in T  OBVIOUS
  <2>2. k <= n - y  BY <1>2, <2>1
  <2> QED BY <1>3, <2>2
<1> QED BY <1>4 DEF Max

\* Of n + 1 names one is free.
LEMMA NameIsFree ==
    ASSUME NEW fs \in Seq(Fields), NEW base
    PROVE  {k \in 1 .. Len(fs) + 1 : <<base, k>> \notin {f.dbName : f \in Range(fs)}} # {}
<1> SUFFICES ASSUME \A k \in 1 .. Len(fs) + 1 : <<base, k>> \in {f.dbName : f \in Range(fs)}
             PROVE  FALSE
  OBVIOUS
<1>0. Len(fs) \in Nat /\ DOMAIN fs = 1 .. Len(fs)  OBVIOUS
<1>1. ASSUME NEW k \in 1 .. Len(fs) + 1
      PROVE  \E i \in 1 .. Len(fs) : fs[i].dbName = <<base, k>>
  BY <1>0 DEF Range
<1> DEFINE w == [k \in 1 .. Len(fs) + 1 |->
                   CHOOSE i \in 1 .. Len(fs) : fs[i].dbName = <<base, k>>]
<1>2. ASSUME NEW k \in 1 .. Len(fs) + 1
      PROVE  w[k] \in 1 .. Len(fs) /\ fs[w[k]].dbName = <<base, k>>
  BY <1>1
<1>3. w \in [1 .. Len(fs) + 1 -> 1 .. Len(fs)]  BY <1>1
<1> HIDE DEF w
<1>4. /\ IsFiniteSet(1 .. Len(fs)) /\ Cardinality(1 .. Len(fs)) = Len(fs)
      /\ IsFiniteSet(1 .. Len(fs) + 1) /\ Cardinality(1 .. Len(fs) + 1) = Len(fs) + 1
  <2>1. 1 \in Int /\ Len(fs) \in Int /\ Len(fs) + 1 \in Int  BY <1>0
  <2>2. /\ IsFiniteSet(1 .. Len(fs)) /\ IsFiniteSet(1 .. Len(fs) + 1)
        /\ Cardinality(1 .. Len(fs)) = IF 1 > Len(fs) THEN 0 ELSE Len(fs) - 1 + 1
        /\ Cardinality(1 .. Len(fs) + 1)
             = IF 1 > Len(fs) + 1 THEN 0 ELSE Len(fs) + 1 - 1 + 1
    BY <2>1, FS_Interval
  <2> QED BY <1>0, <2>2
<1>5. Cardinality(1 .. Len(fs)) < Cardinality(1 .. Len(fs) + 1)  BY <1>0, <1>4
<1>6. PICK x, y \in 1 .. Len(fs) + 1 : x # y /\ w[x] = w[y]
  BY <1>3, <1>4, <1>5, FS_PigeonHole
<1>7. <<base, x>> = <<base, y>>  BY <1>2, <1>6
<1> QED BY <1>6, <1>7

\* A field that is put behind the others has a name of its own.
LEMMA AddFieldPlace ==
    ASSUME NEW event \in Events, InPlace(event.fields),
           NEW field \in Fields, field.offset = EndOf(event.fields)
    PROVE  /\ addField(event, field) \in Events
           /\ addField(event, field) = [event EXCEPT !.fields = addField(event, field).fields]
           /\ InPlace(addField(event, field).fields)
           /\ EndOf(addField(event, field).fields) = field.offset + field.fieldLen
<1> DEFINE fs    == event.fields
           names == {f.dbName : f \in Range(fs)}
           free  == {k \in 1 .. Len(fs) + 1 : <<field.dbName[1], k>> \notin names}
           name  == IF field.dbName \in names THEN <<field.dbName[1], Min(free)>> ELSE field.dbName
           new   == [field EXCEPT !.dbName = name]
           gs    == Append(fs, new)
<1>0. fs \in Seq(Fields) /\ Len(fs) \in Nat /\ DOMAIN fs = 1 .. Len(fs)  BY DEF Events
<1>1. addField(event, field) = [event EXCEPT !.fields = gs]
  BY DEF addField, dedup, dbNames
<1>2. name \in Bases \X Nat /\ name \notin names
  <2>1. field.dbName \in Bases \X Nat  BY DEF Fields
  <2>2. CASE field.dbName \notin names
    <3>1. name = field.dbName  BY <2>2
    <3> QED BY <2>1, <2>2, <3>1
  <2>3. CASE field.dbName \in names
    <3>1. free # {}
      <4>1. fs \in Seq(Fields)  BY <1>0
      <4> QED BY <4>1, NameIsFree
    <3>2. free \in SUBSET Nat  BY <1>0
    <3> HIDE DEF free
    <3>3. Min(free) \in free  BY <3>1, <3>2, MinIn
    <3>4. Min(free) \in Nat /\ <<field.dbName[1], Min(free)>> \notin names
      BY <3>2, <3>3 DEF free
    <3>5. name = <<field.dbName[1], Min(free)>>  BY <2>3
    <3>6. field.dbName[1] \in Bases  BY <2>1
    <3> HIDE DEF name, names
    <3> QED BY <3>4, <3>5, <3>6
  <2> QED BY <2>2, <2>3
<1> HIDE DEF name
<1>3. new \in Fields /\ new.dbName = name /\ new.offset = field.offset
      /\ new.fieldLen = field.fieldLen
  BY <1>2 DEF Fields
<1> HIDE DEF new
<1>4. /\ gs \in Seq(Fields) /\ Len(gs) = Len(fs) + 1 /\ gs[Len(fs) + 1] = new
      /\ \A i \in 1 .. Len(fs) : gs[i] = fs[i]
  BY <1>0, <1>3, AppendProperties
<1> HIDE DEF gs
<1>5. [event EXCEPT !.fields = gs] \in Events /\ [event EXCEPT !.fields = gs].fields = gs
  BY <1>4 DEF Events
<1>6. EndOf(gs) = field.offset + field.fieldLen
  <2>1. Len(gs) + 1 # 1 /\ (Len(gs) + 1) - 1 = Len(fs) + 1  BY <1>0, <1>4
  <2> QED BY <2>1, <1>3, <1>4 DEF EndOf, StartOf
<1>7. InPlace(gs)
  <2>1. ASSUME NEW i \in 1 .. Len(gs) PROVE gs[i].offset = StartOf(gs, i)
    <3>1. CASE i = Len(fs) + 1
      <4>1. gs[i].offset = StartOf(fs, i)  BY <3>1, <1>3, <1>4 DEF EndOf
      <4>2. CASE i = 1  BY <4>1, <4>2 DEF StartOf
      <4>3. CASE i # 1
        <5>1. gs[i - 1] = fs[i - 1]  BY <1>0, <1>4, <3>1, <4>3
        <5> QED BY <4>1, <4>3, <5>1 DEF StartOf
      <4> QED BY <4>2, <4>3
    <3>2. CASE i # Len(fs) + 1
      <4>1. i \in 1 .. Len(fs) /\ gs[i] = fs[i]  BY <1>0, <1>4, <3>2
      <4>2. fs[i].offset = StartOf(fs, i)  BY <4>1 DEF InPlace
      <4>3. CASE i = 1  BY <4>1, <4>2, <4>3 DEF StartOf
      <4>4. CASE i # 1
        <5>1. gs[i - 1] = fs[i - 1]  BY <1>0, <1>4, <4>1, <4>4
        <5> QED BY <4>1, <4>2, <4>4, <5>1 DEF StartOf
      <4> QED BY <4>3, <4>4
    <3> QED BY <3>1, <3>2
  <2>2. ASSUME NEW i \in 1 .. Len(fs) PROVE gs[i].dbName # new.dbName
    <3>1. gs[i].dbName \in names  BY <1>0, <1>4 DEF Range
    <3> QED BY <3>1, <1>2, <1>3
  <2>3. ASSUME NEW i \in 1 .. Len(gs), NEW j \in 1 .. Len(gs), gs[i].dbName = gs[j].dbName
        PROVE  i = j
    <3>1. i \in 1 .. Len(fs) \/ i = Len(fs) + 1  BY <1>0, <1>4
    <3>2. j \in 1 .. Len(fs) \/ j = Len(fs) + 1  BY <1>0, <1>4
    <3>3. CASE i \in 1 .. Len(fs) /\ j \in 1 .. Len(fs)
      <4>1. fs[i].dbName = fs[j].dbName  BY <2>3, <3>3, <1>4
      <4> QED BY <4>1, <3>3 DEF InPlace
    <3> QED BY <3>1, <3>2, <3>3, <2>2, <2>3, <1>4
  <2> QED BY <2>1, <2>3 DEF InPlace
<1> QED BY <1>1, <1>5, <1>6, <1>7

\* An event of a document that has some of its fields.
Reads(event) ==
    {x \in [event : Events, msgLen : Nat, raised : BOOLEAN] :
        /\ x.event.eventName = event.name
        /\ x.event.eventId = event.id
        /\ ~x.event.isFiltered
        /\ InPlace(x.event.fields)
        /\ x.msgLen = EndOf(x.event.fields)}

LEMMA ParamFound ==
    ASSUME NEW d \in Documents, NEW name, Defined(d, name) # {}
    PROVE  getParam(d, name) \in ParamDefs /\ getParam(d, name).name = name
<1>1. d.params \in Seq(ParamDefs)  BY DEF Documents
<1>2. Len(d.params) \in Nat /\ DOMAIN d.params = 1 .. Len(d.params)  BY <1>1
<1>3. Defined(d, name) \in SUBSET (0 .. Len(d.params))  BY <1>2 DEF Defined
<1>4. Max(Defined(d, name)) \in Defined(d, name)  BY <1>2, <1>3, MaxIn
<1>5. Max(Defined(d, name)) \in 1 .. Len(d.params)  BY <1>2, <1>4 DEF Defined
<1> QED BY <1>1, <1>4, <1>5, ElementOfSeq DEF getParam, Defined

LEMMA NewFieldReads ==
    ASSUME NEW event \in EventDefs, NEW acc \in Reads(event), NEW p \in Lines, NEW d \in Docs
    PROVE  newField(acc, p, d) \in Reads(event)
<1> DEFINE q == getParam(d, p.name)
           bad == acc.raised \/ Defined(d, p.name) = {} \/ DbName[p.name] \in BadNames
           f == NewField(p.name, DbName[p.name], q.type, q.len, acc.msgLen, isVarLen(q),
                         p.valid \/ q.valid, p.seqNum, p.instNum)
<1>0. d \in Documents /\ \A i \in DOMAIN d.params : d.params[i].name \in DOMAIN DbName
  BY DocsAssumption
<1>1. /\ acc \in [event : Events, msgLen : Nat, raised : BOOLEAN]
      /\ acc.event \in Events /\ acc.msgLen \in Nat
      /\ acc.event.eventName = event.name /\ acc.event.eventId = event.id
      /\ ~acc.event.isFiltered
      /\ InPlace(acc.event.fields) /\ acc.msgLen = EndOf(acc.event.fields)
  BY DEF Reads
<1>2. CASE bad
  <2>1. newField(acc, p, d) = [acc EXCEPT !.raised = TRUE]  BY <1>2, Zenon DEF newField
  <2>2. [acc EXCEPT !.raised = TRUE] \in [event : Events, msgLen : Nat, raised : BOOLEAN]
    BY <1>1
  <2>3. [acc EXCEPT !.raised = TRUE].event = acc.event
        /\ [acc EXCEPT !.raised = TRUE].msgLen = acc.msgLen
    BY <1>1
  <2> QED BY <1>1, <2>1, <2>2, <2>3 DEF Reads
<1>3. CASE ~bad
  <2>1. newField(acc, p, d)
          = [acc EXCEPT !.msgLen = @ + q.len, !.event = addField(@, f)]
    BY <1>3, Zenon DEF newField
  <2>2. q \in ParamDefs  BY <1>0, <1>3, ParamFound
  <2>3. p.name \in DOMAIN DbName
    <3>1. PICK i \in DOMAIN d.params : d.params[i].name = p.name  BY <1>3 DEF Defined
    <3> QED BY <1>0, <3>1
  <2>4. DbName[p.name] \in Bases  BY <2>3 DEF Bases
  <2>5. isVarLen(q) \in BOOLEAN  BY Zenon DEF isVarLen
  <2>6. q.type \in STRING /\ q.len \in Nat  BY <2>2 DEF ParamDefs
  <2>7. /\ p.name \in STRING /\ p.seqNum \in Int /\ p.instNum \in Int
    BY DEF Lines
  <2>8. (p.valid \/ q.valid) \in BOOLEAN  OBVIOUS
  <2> HIDE DEF q
  <2>9. f \in Fields /\ f.offset = acc.msgLen /\ f.fieldLen = q.len
    BY <1>1, <2>4, <2>5, <2>6, <2>7, <2>8 DEF NewField, Fields
  <2> HIDE DEF f
  <2> DEFINE e == addField(acc.event, f)
  <2>10. /\ e \in Events /\ e = [acc.event EXCEPT !.fields = e.fields]
         /\ InPlace(e.fields) /\ EndOf(e.fields) = f.offset + f.fieldLen
    BY <1>1, <2>9, AddFieldPlace
  <2> HIDE DEF e
  <2>11. /\ e.eventName = event.name /\ e.eventId = event.id /\ ~e.isFiltered
    BY <1>1, <2>10 DEF Events
  <2> DEFINE new == [acc EXCEPT !.msgLen = @ + q.len, !.event = e]
  <2>12. new \in [event : Events, msgLen : Nat, raised : BOOLEAN]
         /\ new.event = e /\ new.msgLen = acc.msgLen + q.len
    <3>1. PICK m \in Nat : m = acc.msgLen + q.len  BY <1>1, <2>6
    <3>2. e \in Events  BY <2>10
    <3>3. new = [acc EXCEPT !.msgLen = m, !.event = e]  BY <3>1
    <3>4. acc \in [event : Events, msgLen : Nat, raised : BOOLEAN]  BY <1>1
    <3> HIDE DEF new
    <3> QED BY <3>1, <3>2, <3>3, <3>4
  <2>13. newField(acc, p, d) = new  BY <2>1, Zenon DEF e
  <2> HIDE DEF new
  <2>14. new.msgLen = EndOf(new.event.fields)  BY <2>9, <2>10, <2>12
  <2> QED BY <2>10, <2>11, <2>12, <2>13, <2>14 DEF Reads
<1> QED BY <1>2, <1>3

LEMMA EventFieldsRead ==
    ASSUME NEW event \in EventDefs, NEW lines \in LineAccs, NEW d \in Docs
    PROVE  eventFields(event, lines, d) \in Reads(event)
<1> DEFINE a == [event |-> NewEvent(event.name, event.id), msgLen |-> 0, raised |-> lines.raised]
           g == [p \in Reads(event) \X Lines |-> newField(p[1], p[2], d)]
           Is(e) == e = [i \in 0 .. Len(lines.param) |->
                           IF i = 0 THEN [event |-> NewEvent(event.name, event.id), msgLen |-> 0, raised |-> lines.raised]
                           ELSE newField(e[i - 1], lines.param[i], d)]
           h == CHOOSE e : Is(e)
<1>t. lines.param \in Seq(Lines)  BY DEF LineAccs
<1>0. Len(lines.param) \in Nat /\ \A i \in 1 .. Len(lines.param) : lines.param[i] \in Lines
  BY <1>t, ElementOfSeq, LenProperties
<1>1. a \in Reads(event)
  <2>1. NewEvent(event.name, event.id)
          = [eventName |-> event.name, eventId |-> event.id, fields |-> <<>>, isFiltered |-> FALSE]
    BY DEF NewEvent
  <2>2. NewEvent(event.name, event.id) \in Events /\ event.name \in STRING /\ event.id \in Nat
    BY <2>1 DEF Events, EventDefs
  <2>3. InPlace(<<>>) /\ EndOf(<<>>) = 0  BY DEF InPlace, EndOf, StartOf
  <2>4. lines.raised \in BOOLEAN  BY DEF LineAccs
  <2> QED BY <2>1, <2>2, <2>3, <2>4 DEF Reads
<1>2. g \in [Reads(event) \X Lines -> Reads(event)]  BY NewFieldReads
<1>3. \A x \in Reads(event), e \in Lines : g[<<x, e>>] = newField(x, e, d)  OBVIOUS
<1> HIDE DEF g
<1>4. PICK f \in [0 .. Len(lines.param) -> Reads(event)] : Folds(f, a, g, lines.param)
  <2> HIDE DEF a
  <2> QED BY <1>t, <1>1, <1>2, Folding
<1>5. Is(f)
  <2>1. ASSUME NEW i \in 0 .. Len(lines.param)
        PROVE  (IF i = 0 THEN a ELSE g[<<f[i - 1], lines.param[i]>>])
                 = (IF i = 0 THEN a ELSE newField(f[i - 1], lines.param[i], d))
    <3>1. CASE i # 0
      <4>1. f[i - 1] \in Reads(event) /\ lines.param[i] \in Lines  BY <1>0, <3>1
      <4> QED BY <4>1, <1>3
    <3> QED BY <3>1
  <2>2. f = [i \in 0 .. Len(lines.param) |-> IF i = 0 THEN a ELSE g[<<f[i - 1], lines.param[i]>>]]
    BY <1>4 DEF Folds
  <2>3. f = [i \in 0 .. Len(lines.param) |->
               IF i = 0 THEN a ELSE newField(f[i - 1], lines.param[i], d)]
    <3> HIDE DEF a
    <3> QED BY <2>1, <2>2, Zenon
  <2> QED BY <2>3, Zenon
<1>6. Is(h)
  <2> HIDE DEF Is
  <2> QED BY <1>5, Zenon
<1>7. eventFields(event, lines, d) = h[Len(lines.param)]  BY Zenon DEF eventFields
<1>8. h = [i \in 0 .. Len(lines.param) |-> IF i = 0 THEN a ELSE newField(h[i - 1], lines.param[i], d)]
  <2> HIDE DEF h
  <2> QED BY <1>6, Zenon
<1> HIDE DEF h, a, Is
<1>9. h[0] = a  BY <1>8, <1>0
<1>10. ASSUME NEW i \in 1 .. Len(lines.param), h[i - 1] \in Reads(event)
       PROVE  h[i] = g[<<h[i - 1], lines.param[i]>>]
  <2>1. h[i] = newField(h[i - 1], lines.param[i], d)
    <3>1. i \in 0 .. Len(lines.param) /\ i # 0  BY <1>0
    <3> QED BY <3>1, <1>8, Zenon
  <2> QED BY <2>1, <1>0, <1>3, <1>10
<1>11. Follows(h, Reads(event), g, lines.param)  BY <1>10 DEF Follows
<1>12. h[0] \in Reads(event)  BY <1>1, <1>9
<1>13. \A i \in 0 .. Len(lines.param) : h[i] \in Reads(event)  BY <1>t, <1>2, <1>11, <1>12, Folded
<1> QED BY <1>0, <1>7, <1>13

-----------------------------------------------------------------------------
(***************************************************************************)
(* The schema of a document.                                               *)
(***************************************************************************)

\* The events of the document, and their ids.
Says(d) == {d.events[j] : j \in DOMAIN d.events}
Ids(d)  == {e.id : e \in Says(d)}

\* e is an event of the document, with the id.
IsEventOf(d, e, id) ==
    /\ e \in Events /\ e.eventId = id /\ InPlace(e.fields)
    /\ \E said \in Says(d) : said.name = e.eventName /\ said.id = id

EventsOf(d) == {es \in UNION {[I -> Events] : I \in SUBSET Nat} :
                   \A id \in DOMAIN es : IsEventOf(d, es[id], id)}

\* A schema of some of them, with no filter.
Plain(d) == {s \in [events : EventsOf(d), keys : {<<>>}, isFiltered : {FALSE}] :
                \A id \in DOMAIN s.events : ~s.events[id].isFiltered}
Plains(d) == [schema : Plain(d), curSeq : Int, raised : BOOLEAN]

LEMMA SaysType ==
    ASSUME NEW d \in Documents
    PROVE  d.events \in Seq(Says(d)) /\ Says(d) \subseteq EventDefs
<1>1. d.events \in Seq(EventDefs)  BY DEF Documents
<1>2. Len(d.events) \in Nat /\ DOMAIN d.events = 1 .. Len(d.events)  BY <1>1
<1>3. d.events = [i \in 1 .. Len(d.events) |-> d.events[i]]  BY <1>1
<1>4. \A i \in 1 .. Len(d.events) : d.events[i] \in Says(d)  BY <1>2 DEF Says
<1>5. d.events \in [1 .. Len(d.events) -> Says(d)]  BY <1>3, <1>4
<1>6. Says(d) \subseteq EventDefs  BY <1>1, <1>2 DEF Says
<1> QED BY <1>2, <1>5, <1>6, SeqDef

\* A second event with an id replaces the first.
LEMMA AddEventPlain ==
    ASSUME NEW d, NEW s \in Plain(d), NEW e, ~e.isFiltered,
           IsEventOf(d, e, e.eventId), e.eventId \in Nat
    PROVE  /\ addEvent(s, e) \in Plain(d)
           /\ DOMAIN addEvent(s, e).events = DOMAIN s.events \cup {e.eventId}
<1>1. /\ s \in [events : EventsOf(d), keys : {<<>>}, isFiltered : {FALSE}]
      /\ s.events \in EventsOf(d) /\ \A id \in DOMAIN s.events : ~s.events[id].isFiltered
  BY DEF Plain
<1>2. PICK I \in SUBSET Nat : s.events \in [I -> Events]
  BY <1>1 DEF EventsOf
<1>3. \A id \in DOMAIN s.events : IsEventOf(d, s.events[id], id)  BY <1>1 DEF EventsOf
<1> DEFINE es == [id \in DOMAIN s.events \cup {e.eventId} |->
                    IF id = e.eventId THEN e ELSE s.events[id]]
<1>4. es \in [I \cup {e.eventId} -> Events]
  <2>1. e \in Events  BY DEF IsEventOf
  <2> QED BY <1>2, <2>1
<1>5. \A id \in DOMAIN es : IsEventOf(d, es[id], id) /\ ~es[id].isFiltered
  BY <1>1, <1>3
<1>6. DOMAIN es = DOMAIN s.events \cup {e.eventId}  OBVIOUS
<1> HIDE DEF es
<1>7. es \in EventsOf(d)
  <2>1. I \cup {e.eventId} \in SUBSET Nat  OBVIOUS
  <2> QED BY <1>4, <1>5, <2>1 DEF EventsOf
<1>8. addEvent(s, e) = [s EXCEPT !.events = es]  BY DEF addEvent, es
<1>9. /\ addEvent(s, e) \in [events : EventsOf(d), keys : {<<>>}, isFiltered : {FALSE}]
      /\ addEvent(s, e).events = es
  BY <1>1, <1>7, <1>8
<1> QED BY <1>5, <1>6, <1>9 DEF Plain

LEMMA NewEventPlain ==
    ASSUME NEW d \in Docs, NEW structs \in Seq(Structures),
           NEW acc \in Plains(d), NEW event \in Says(d)
    PROVE  /\ newEvent(acc, event, structs, d) \in Plains(d)
           /\ DOMAIN newEvent(acc, event, structs, d).schema.events
                = DOMAIN acc.schema.events \cup {event.id}
<1> DEFINE lines  == eventLines(event.elems, acc.curSeq, structs)
           fields == eventFields(event, lines, d)
<1>0. d \in Documents  BY DocsAssumption
<1>1. event \in EventDefs  BY <1>0, SaysType
<1>2. event.elems \in Seq(Elements) /\ event.id \in Nat  BY <1>1 DEF EventDefs
<1>3. acc.schema \in Plain(d) /\ acc.curSeq \in Int /\ acc.raised \in BOOLEAN  BY DEF Plains
<1>4. lines \in LineAccs  BY <1>2, <1>3, EventLinesType
<1>5. newEvent(acc, event, structs, d)
        = [schema |-> addEvent(acc.schema, fields.event), curSeq |-> lines.curSeq,
           raised |-> acc.raised \/ fields.raised]
  BY Zenon DEF newEvent
<1> HIDE DEF lines
<1>6. fields \in Reads(event)  BY <1>1, <1>4, EventFieldsRead
<1> HIDE DEF fields
<1>7. IsEventOf(d, fields.event, event.id) /\ ~fields.event.isFiltered
      /\ fields.event.eventId = event.id
  BY <1>6 DEF IsEventOf, Reads
<1>8. /\ addEvent(acc.schema, fields.event) \in Plain(d)
      /\ DOMAIN addEvent(acc.schema, fields.event).events
           = DOMAIN acc.schema.events \cup {event.id}
  BY <1>2, <1>3, <1>7, AddEventPlain
<1>9. lines.curSeq \in Int  BY <1>4 DEF LineAccs
<1>10. (acc.raised \/ fields.raised) \in BOOLEAN  OBVIOUS
<1> QED BY <1>5, <1>8, <1>9, <1>10 DEF Plains

LEMMA SchemaEventsPlain ==
    ASSUME NEW d \in Docs, NEW structs \in Seq(Structures)
    PROVE  /\ schemaEvents(d, structs) \in Plains(d)
           /\ DOMAIN schemaEvents(d, structs).schema.events = Ids(d)
<1> DEFINE a == [schema |-> NewSchema, curSeq |-> -1, raised |-> FALSE]
           g == [p \in Plains(d) \X Says(d) |-> newEvent(p[1], p[2], structs, d)]
           Is(e) == e = [i \in 0 .. Len(d.events) |->
                           IF i = 0 THEN [schema |-> NewSchema, curSeq |-> -1, raised |-> FALSE]
                           ELSE newEvent(e[i - 1], d.events[i], structs, d)]
           h == CHOOSE e : Is(e)
<1>t. d.events \in Seq(Says(d))  BY DocsAssumption, SaysType
<1>0. Len(d.events) \in Nat /\ \A i \in 1 .. Len(d.events) : d.events[i] \in Says(d)
  BY <1>t, ElementOfSeq, LenProperties
<1>1. a \in Plains(d)
  <2>1. NewSchema = [events |-> <<>>, keys |-> <<>>, isFiltered |-> FALSE]  BY DEF NewSchema
  <2>2. DOMAIN <<>> = {} /\ <<>> \in [{} -> Events]  OBVIOUS
  <2>3. NewSchema.events \in EventsOf(d) /\ DOMAIN NewSchema.events = {}
    BY <2>1, <2>2 DEF EventsOf
  <2>4. NewSchema \in Plain(d)  BY <2>1, <2>3 DEF Plain
  <2> QED BY <2>4 DEF Plains
<1>2. g \in [Plains(d) \X Says(d) -> Plains(d)]  BY NewEventPlain
<1>3. \A x \in Plains(d), e \in Says(d) : g[<<x, e>>] = newEvent(x, e, structs, d)  OBVIOUS
<1> HIDE DEF g
<1>4. PICK f \in [0 .. Len(d.events) -> Plains(d)] : Folds(f, a, g, d.events)
  <2> HIDE DEF a
  <2> QED BY <1>t, <1>1, <1>2, Folding
<1>5. Is(f)
  <2>1. ASSUME NEW i \in 0 .. Len(d.events)
        PROVE  (IF i = 0 THEN a ELSE g[<<f[i - 1], d.events[i]>>])
                 = (IF i = 0 THEN a ELSE newEvent(f[i - 1], d.events[i], structs, d))
    <3>1. CASE i # 0
      <4>1. f[i - 1] \in Plains(d) /\ d.events[i] \in Says(d)  BY <1>0, <3>1
      <4> QED BY <4>1, <1>3
    <3> QED BY <3>1
  <2>2. f = [i \in 0 .. Len(d.events) |-> IF i = 0 THEN a ELSE g[<<f[i - 1], d.events[i]>>]]
    BY <1>4 DEF Folds
  <2>3. f = [i \in 0 .. Len(d.events) |->
               IF i = 0 THEN a ELSE newEvent(f[i - 1], d.events[i], structs, d)]
    <3> HIDE DEF a
    <3> QED BY <2>1, <2>2, Zenon
  <2> QED BY <2>3, Zenon
<1>6. Is(h)
  <2> HIDE DEF Is
  <2> QED BY <1>5, Zenon
<1>7. schemaEvents(d, structs) = h[Len(d.events)]  BY Zenon DEF schemaEvents
<1>8. h = [i \in 0 .. Len(d.events) |-> IF i = 0 THEN a ELSE newEvent(h[i - 1], d.events[i], structs, d)]
  <2> HIDE DEF h
  <2> QED BY <1>6, Zenon
<1> HIDE DEF h, a, Is
<1>9. h[0] = a  BY <1>8, <1>0
<1>10. ASSUME NEW i \in 1 .. Len(d.events), h[i - 1] \in Plains(d)
       PROVE  h[i] = g[<<h[i - 1], d.events[i]>>]
  <2>1. h[i] = newEvent(h[i - 1], d.events[i], structs, d)
    <3>1. i \in 0 .. Len(d.events) /\ i # 0  BY <1>0
    <3> QED BY <3>1, <1>8, Zenon
  <2> QED BY <2>1, <1>0, <1>3, <1>10
<1>11. Follows(h, Plains(d), g, d.events)  BY <1>10 DEF Follows
<1>12. h[0] \in Plains(d)  BY <1>1, <1>9
<1>13. \A i \in 0 .. Len(d.events) : h[i] \in Plains(d)  BY <1>t, <1>2, <1>11, <1>12, Folded
<1> DEFINE U == {i \in Nat : i \in 0 .. Len(d.events) =>
                   DOMAIN h[i].schema.events = {d.events[j].id : j \in 1 .. i}}
<1>14. 0 \in U
  <2>1. a.schema.events = <<>>  BY DEF a, NewSchema
  <2>2. DOMAIN <<>> = {} /\ 1 .. 0 = {}  OBVIOUS
  <2> QED BY <1>9, <2>1, <2>2
<1>15. ASSUME NEW i \in Nat, i \in U PROVE i + 1 \in U
  <2>1. CASE i + 1 \in 0 .. Len(d.events)
    <3>1. i \in 0 .. Len(d.events) /\ i + 1 \in 1 .. Len(d.events) /\ (i + 1) - 1 = i
      BY <1>0, <2>1
    <3>2. h[i] \in Plains(d) /\ d.events[i + 1] \in Says(d)  BY <1>0, <1>13, <3>1
    <3>3. h[i + 1] = newEvent(h[i], d.events[i + 1], structs, d)
      <4>1. i + 1 \in 0 .. Len(d.events) /\ i + 1 # 0  BY <3>1
      <4>2. h[i + 1] = newEvent(h[(i + 1) - 1], d.events[i + 1], structs, d)
        BY <4>1, <1>8, Zenon
      <4> QED BY <4>2, <3>1
    <3>4. DOMAIN h[i + 1].schema.events = DOMAIN h[i].schema.events \cup {d.events[i + 1].id}
      BY <3>2, <3>3, NewEventPlain
    <3>5. DOMAIN h[i].schema.events = {d.events[j].id : j \in 1 .. i}  BY <1>15, <3>1
    <3>6. 1 .. i + 1 = (1 .. i) \cup {i + 1}  OBVIOUS
    <3>7. DOMAIN h[i + 1].schema.events = {d.events[j].id : j \in 1 .. i + 1}
      BY <3>4, <3>5, <3>6
    <3> QED BY <3>7
  <2> QED BY <2>1
<1> HIDE DEF U
<1>16. Nat \subseteq U  BY <1>14, <1>15, Successors
<1>17. DOMAIN h[Len(d.events)].schema.events = {d.events[j].id : j \in 1 .. Len(d.events)}
  BY <1>0, <1>16 DEF U
<1>18. DOMAIN d.events = 1 .. Len(d.events)  BY <1>t
<1>19. Ids(d) = {d.events[j].id : j \in 1 .. Len(d.events)}  BY <1>18 DEF Ids, Says
<1> QED BY <1>0, <1>7, <1>13, <1>17, <1>19

LEMMA ReadPlain ==
    ASSUME NEW d \in Docs, NEW s \in read10Dash(d)
    PROVE  s \in Plain(d) /\ DOMAIN s.events = Ids(d)
<1> DEFINE structs == structures(d)
           read    == schemaEvents(d, structs.structs)
<1>1. s = read.schema  BY DEF read10Dash
<1>2. structs.structs \in Seq(Structures)  BY DocsAssumption, StructuresType DEF Readings
<1> HIDE DEF structs
<1>3. read \in Plains(d) /\ DOMAIN read.schema.events = Ids(d)  BY <1>2, SchemaEventsPlain
<1> HIDE DEF read
<1> QED BY <1>1, <1>3 DEF Plains

-----------------------------------------------------------------------------
(***************************************************************************)
(* Filtering.                                                              *)
(***************************************************************************)

\* s is a schema of the document, filtered or not.
IsSchema(d, s) ==
    /\ s = [events |-> s.events, keys |-> s.keys, isFiltered |-> s.isFiltered]
    /\ s.events \in EventsOf(d)
    /\ DOMAIN s.events = Ids(d)
    /\ s.isFiltered \in BOOLEAN
    /\ ~s.isFiltered => \A id \in DOMAIN s.events : ~s.events[id].isFiltered

\* Fields that differ in nothing but what is filtered.
Alike(fs, gs) ==
    /\ Len(gs) = Len(fs)
    /\ \A i \in 1 .. Len(fs) : /\ gs[i].fieldName = fs[i].fieldName
                               /\ gs[i].dbName = fs[i].dbName
                               /\ gs[i].offset = fs[i].offset
                               /\ gs[i].fieldLen = fs[i].fieldLen

\* What filtering leaves of an event.
Kept(x, y) ==
    /\ y \in Events
    /\ y.eventName = x.eventName /\ y.eventId = x.eventId
    /\ Alike(x.fields, y.fields)

LEMMA AlikeInPlace ==
    ASSUME NEW fs \in Seq(Fields), NEW gs, Alike(fs, gs), InPlace(fs)
    PROVE  InPlace(gs)
<1>0. Len(fs) \in Nat /\ Len(gs) = Len(fs)  BY DEF Alike
<1>1. ASSUME NEW i \in 1 .. Len(gs) PROVE gs[i].offset = StartOf(gs, i)
  <2>1. gs[i].offset = StartOf(fs, i)  BY <1>0 DEF Alike, InPlace
  <2>2. CASE i = 1  BY <2>1, <2>2 DEF StartOf
  <2>3. CASE i # 1
    <3>1. i - 1 \in 1 .. Len(fs)  BY <1>0, <2>3
    <3>2. gs[i-1].offset = fs[i-1].offset /\ gs[i-1].fieldLen = fs[i-1].fieldLen
      BY <3>1 DEF Alike
    <3> QED BY <2>1, <2>3, <3>2 DEF StartOf
  <2> QED BY <2>2, <2>3
<1>2. ASSUME NEW i \in 1 .. Len(gs), NEW j \in 1 .. Len(gs), gs[i].dbName = gs[j].dbName
      PROVE  i = j
  <2>1. fs[i].dbName = fs[j].dbName  BY <1>0, <1>2 DEF Alike
  <2> QED BY <1>0, <2>1 DEF InPlace
<1> QED BY <1>1, <1>2 DEF InPlace

\* Fields of which some get the flag.
LEMMA Flagged ==
    ASSUME NEW fs \in Seq(Fields), NEW P,
           NEW gs, gs = [i \in DOMAIN fs |->
                           IF i \in P THEN [fs[i] EXCEPT !.isFiltered = TRUE] ELSE fs[i]]
    PROVE  /\ gs \in Seq(Fields) /\ Alike(fs, gs)
           /\ \A i \in 1 .. Len(fs) : i \in P => gs[i].isFiltered
<1>0. Len(fs) \in Nat /\ DOMAIN fs = 1 .. Len(fs) /\ \A i \in 1 .. Len(fs) : fs[i] \in Fields
  BY ElementOfSeq, LenProperties
<1>1. ASSUME NEW i \in 1 .. Len(fs)
      PROVE  /\ gs[i] \in Fields
             /\ gs[i].fieldName = fs[i].fieldName /\ gs[i].dbName = fs[i].dbName
             /\ gs[i].offset = fs[i].offset /\ gs[i].fieldLen = fs[i].fieldLen
             /\ i \in P => gs[i].isFiltered
  <2>1. fs[i] \in Fields /\ i \in DOMAIN fs  BY <1>0
  <2>2. gs[i] = IF i \in P THEN [fs[i] EXCEPT !.isFiltered = TRUE] ELSE fs[i]  BY <2>1
  <2>3. CASE i \notin P  BY <2>1, <2>2, <2>3
  <2>4. CASE i \in P
    <3>1. gs[i] = [fs[i] EXCEPT !.isFiltered = TRUE]  BY <2>2, <2>4
    <3> QED BY <2>1, <3>1 DEF Fields
  <2> QED BY <2>3, <2>4
<1>2. gs \in [1 .. Len(fs) -> Fields]  BY <1>0, <1>1
<1>3. gs \in Seq(Fields) /\ Len(gs) = Len(fs)  BY <1>0, <1>2, SeqDef, LenProperties
<1> QED BY <1>1, <1>3 DEF Alike

LEMMA FilterFieldsKept ==
    ASSUME NEW x \in Events, NEW names
    PROVE  /\ Kept(x, filterFields(x, names))
           /\ \A i \in 1 .. Len(x.fields) :
                 x.fields[i].fieldName \in names => filterFields(x, names).fields[i].isFiltered
<1> DEFINE fs == x.fields
           P  == {i \in DOMAIN fs : fs[i].fieldName \in names}
           gs == [i \in DOMAIN fs |->
                    IF i \in P THEN [fs[i] EXCEPT !.isFiltered = TRUE] ELSE fs[i]]
<1>0. fs \in Seq(Fields) /\ DOMAIN fs = 1 .. Len(fs)  BY DEF Events
<1>1. filterFields(x, names) = [x EXCEPT !.fields = gs]
  <2>1. gs = [i \in DOMAIN fs |-> IF fs[i].fieldName \in names
                                    THEN [fs[i] EXCEPT !.isFiltered = TRUE] ELSE fs[i]]
    OBVIOUS
  <2> QED BY <2>1, Zenon DEF filterFields
<1>2. /\ gs \in Seq(Fields) /\ Alike(fs, gs)
      /\ \A i \in 1 .. Len(fs) : i \in P => gs[i].isFiltered
  <2> HIDE DEF P
  <2> QED BY <1>0, Flagged
<1>3. \A i \in 1 .. Len(fs) : fs[i].fieldName \in names => gs[i].isFiltered
  BY <1>0, <1>2
<1> HIDE DEF gs, P
<1>4. /\ [x EXCEPT !.fields = gs] \in Events /\ [x EXCEPT !.fields = gs].fields = gs
      /\ [x EXCEPT !.fields = gs].eventName = x.eventName
      /\ [x EXCEPT !.fields = gs].eventId = x.eventId
  BY <1>2 DEF Events
<1> QED BY <1>1, <1>2, <1>3, <1>4 DEF Kept

LEMMA ClearFieldsKept ==
    ASSUME NEW x \in Events
    PROVE  Kept(x, clearFields(x))
<1> DEFINE fs == x.fields
           P  == DOMAIN fs
           gs == [i \in DOMAIN fs |->
                    IF i \in P THEN [fs[i] EXCEPT !.isFiltered = TRUE] ELSE fs[i]]
<1>0. fs \in Seq(Fields)  BY DEF Events
<1>1. clearFields(x) = [x EXCEPT !.fields = gs]
  <2>1. gs = [i \in DOMAIN fs |-> [fs[i] EXCEPT !.isFiltered = TRUE]]  OBVIOUS
  <2> QED BY <2>1, Zenon DEF clearFields
<1>2. gs \in Seq(Fields) /\ Alike(fs, gs)
  <2> HIDE DEF P
  <2> QED BY <1>0, Flagged
<1> HIDE DEF gs, P
<1>3. /\ [x EXCEPT !.fields = gs] \in Events /\ [x EXCEPT !.fields = gs].fields = gs
      /\ [x EXCEPT !.fields = gs].eventName = x.eventName
      /\ [x EXCEPT !.fields = gs].eventId = x.eventId
  BY <1>2 DEF Events
<1> QED BY <1>1, <1>2, <1>3 DEF Kept

\* The flag of the event itself.
LEMMA FlagKept ==
    ASSUME NEW x \in Events, NEW y, Kept(x, y), NEW b \in BOOLEAN
    PROVE  /\ Kept(x, [y EXCEPT !.isFiltered = b])
           /\ [y EXCEPT !.isFiltered = b].isFiltered = b
           /\ [y EXCEPT !.isFiltered = b].fields = y.fields
<1>1. y \in Events  BY DEF Kept
<1>2. /\ [y EXCEPT !.isFiltered = b] \in Events
      /\ [y EXCEPT !.isFiltered = b].isFiltered = b
      /\ [y EXCEPT !.isFiltered = b].fields = y.fields
      /\ [y EXCEPT !.isFiltered = b].eventName = y.eventName
      /\ [y EXCEPT !.isFiltered = b].eventId = y.eventId
  BY <1>1 DEF Events
<1> QED BY <1>2 DEF Kept

LEMMA KeptTwice ==
    ASSUME NEW x \in Events, NEW y, Kept(x, y), NEW z, Kept(y, z)
    PROVE  Kept(x, z)
<1>1. Len(x.fields) \in Nat /\ Len(y.fields) = Len(x.fields)  BY DEF Events, Kept, Alike
<1>2. Alike(x.fields, z.fields)  BY <1>1 DEF Kept, Alike
<1> QED BY <1>2 DEF Kept

\* What filterSchema makes of one event: asked is whether the list has it, and
\* names the fields it asks for.
Cleared(s, x) == IF s.isFiltered THEN [clearFields(x) EXCEPT !.isFiltered = FALSE] ELSE x
Filtered(s, x, asked, names) ==
    IF asked THEN [filterFields(Cleared(s, x), names) EXCEPT !.isFiltered = TRUE]
    ELSE Cleared(s, x)

LEMMA ClearedKept ==
    ASSUME NEW s, NEW x \in Events, s.isFiltered \in BOOLEAN, s.isFiltered \/ ~x.isFiltered
    PROVE  Kept(x, Cleared(s, x)) /\ ~Cleared(s, x).isFiltered
<1>1. CASE s.isFiltered
  <2>1. Kept(x, clearFields(x))  BY ClearFieldsKept
  <2>2. /\ Kept(x, [clearFields(x) EXCEPT !.isFiltered = FALSE])
        /\ [clearFields(x) EXCEPT !.isFiltered = FALSE].isFiltered = FALSE
    BY <2>1, FlagKept
  <2>3. Cleared(s, x) = [clearFields(x) EXCEPT !.isFiltered = FALSE]  BY <1>1 DEF Cleared
  <2> QED BY <2>2, <2>3
<1>2. CASE ~s.isFiltered
  <2>1. Cleared(s, x) = x  BY <1>2 DEF Cleared
  <2>2. Kept(x, x)  BY DEF Kept, Alike
  <2> QED BY <1>2, <2>1, <2>2
<1> QED BY <1>1, <1>2

\* y is x, filtered just when asked, with the named fields.
FilteredAs(x, y, asked, names) ==
    /\ Kept(x, y)
    /\ y.isFiltered = asked
    /\ asked => \A i \in 1 .. Len(x.fields) :
          x.fields[i].fieldName \in names => y.fields[i].isFiltered

LEMMA FilteredKept ==
    ASSUME NEW s, NEW x \in Events, s.isFiltered \in BOOLEAN, s.isFiltered \/ ~x.isFiltered,
           NEW asked \in BOOLEAN, NEW names
    PROVE  FilteredAs(x, Filtered(s, x, asked, names), asked, names)
<1> DEFINE c == Cleared(s, x)
           f == filterFields(c, names)
           y == [f EXCEPT !.isFiltered = TRUE]
<1>1. Kept(x, c) /\ ~c.isFiltered  BY ClearedKept
<1>2. c \in Events  BY <1>1 DEF Kept
<1>3. CASE ~asked
  <2>1. Filtered(s, x, asked, names) = c  BY <1>3 DEF Filtered
  <2>2. c.isFiltered \in BOOLEAN  BY <1>2 DEF Events
  <2> HIDE DEF c
  <2> QED BY <1>1, <1>3, <2>1, <2>2 DEF FilteredAs
<1>4. CASE asked
  <2>1. Filtered(s, x, asked, names) = y  BY <1>4 DEF Filtered
  <2> HIDE DEF c
  <2>2. /\ Kept(c, f)
        /\ \A i \in 1 .. Len(c.fields) :
              c.fields[i].fieldName \in names => f.fields[i].isFiltered
    BY <1>2, FilterFieldsKept
  <2> HIDE DEF f
  <2>3. Kept(x, f)  BY <1>1, <2>2, KeptTwice
  <2>4. Kept(x, y) /\ y.isFiltered = TRUE /\ y.fields = f.fields  BY <2>3, FlagKept
  <2> HIDE DEF y
  <2>5. ASSUME NEW i \in 1 .. Len(x.fields), x.fields[i].fieldName \in names
        PROVE  y.fields[i].isFiltered
    <3>1. i \in 1 .. Len(c.fields) /\ c.fields[i].fieldName = x.fields[i].fieldName
      BY <1>1 DEF Kept, Alike
    <3> QED BY <2>2, <2>4, <2>5, <3>1
  <2> QED BY <1>4, <2>1, <2>4, <2>5 DEF FilteredAs
<1> QED BY <1>3, <1>4

\* A schema, filtered by a description.
DescribedAs(d, s, desc, t) ==
    /\ IsSchema(d, t)
    /\ t.isFiltered = TRUE
    /\ t.keys = IF desc = <<>> THEN <<>> ELSE desc[1].keys
    /\ DOMAIN t.events = DOMAIN s.events
    /\ \A id \in DOMAIN s.events :
          t.events[id] = Filtered(s, s.events[id], id \in DOMAIN getEventFldList(s, desc),
                                  getEventFldList(s, desc)[id])

LEMMA Described ==
    ASSUME NEW d, NEW s, IsSchema(d, s), NEW desc
    PROVE  DescribedAs(d, s, desc, describe(s, desc))
<1> DEFINE list == getEventFldList(s, desc)
           t    == describe(s, desc)
           es   == [id \in DOMAIN s.events |->
                      Filtered(s, s.events[id], id \in DOMAIN list, list[id])]
           keys == IF desc = <<>> THEN <<>> ELSE desc[1].keys
<1>1. t = [filterSchema(s, list) EXCEPT !.keys = keys]  BY Zenon DEF describe
<1>2. filterSchema(s, list) = [s EXCEPT !.isFiltered = TRUE, !.events = es]
  <2> HIDE DEF list
  <2>1. es = [id \in DOMAIN s.events |->
                IF id \in DOMAIN list
                  THEN [filterFields(Cleared(s, s.events[id]), list[id])
                           EXCEPT !.isFiltered = TRUE]
                  ELSE Cleared(s, s.events[id])]
    BY Zenon DEF Filtered
  <2> HIDE DEF es
  <2> QED BY <2>1, Zenon DEF filterSchema, Cleared
<1> HIDE DEF list, keys
<1>3. s = [events |-> s.events, keys |-> s.keys, isFiltered |-> s.isFiltered]
  BY DEF IsSchema
<1> HIDE DEF es, t
<1>4. t = [events |-> es, keys |-> keys, isFiltered |-> TRUE]
  <2>1. [s EXCEPT !.isFiltered = TRUE, !.events = es]
          = [events |-> es, keys |-> s.keys, isFiltered |-> TRUE]
    <3>1. PICK e, k, b : s = [events |-> e, keys |-> k, isFiltered |-> b]  BY <1>3
    <3> DEFINE q == [s EXCEPT !.isFiltered = TRUE, !.events = es]
    <3>2. q \in [events : {es}, keys : {k}, isFiltered : {TRUE}]
      <4>1. s \in [events : {e}, keys : {k}, isFiltered : {b}]  BY <3>1
      <4> QED BY <4>1
    <3> HIDE DEF q
    <3>3. q.events = es /\ q.keys = k /\ q.isFiltered = TRUE  BY <3>2
    <3>4. q = [events |-> q.events, keys |-> q.keys, isFiltered |-> q.isFiltered]  BY <3>2
    <3>5. s.keys = k  BY <3>1
    <3> QED BY <3>3, <3>4, <3>5 DEF q
  <2>2. t = [[events |-> es, keys |-> s.keys, isFiltered |-> TRUE] EXCEPT !.keys = keys]
    BY <1>1, <1>2, <2>1
  <2> QED BY <2>2
<1>5. t.events = es /\ t.keys = keys /\ t.isFiltered = TRUE  BY <1>4
<1>6. DOMAIN es = DOMAIN s.events  BY DEF es
<1>7. PICK I \in SUBSET Nat : s.events \in [I -> Events]  BY DEF IsSchema, EventsOf
<1>8. ASSUME NEW id \in DOMAIN s.events PROVE IsEventOf(d, es[id], id)
  <2> DEFINE x == s.events[id]
             y == es[id]
  <2>1. y = Filtered(s, x, id \in DOMAIN list, list[id])  BY DEF es
  <2>2. IsEventOf(d, x, id)  BY DEF IsSchema, EventsOf
  <2>3. x \in Events  BY <2>2 DEF IsEventOf
  <2>4. s.isFiltered \in BOOLEAN /\ (s.isFiltered \/ ~x.isFiltered)  BY DEF IsSchema
  <2>5. (id \in DOMAIN list) \in BOOLEAN  OBVIOUS
  <2> HIDE DEF x
  <2>6. Kept(x, Filtered(s, x, id \in DOMAIN list, list[id]))
    BY <2>3, <2>4, <2>5, FilteredKept DEF FilteredAs
  <2> HIDE DEF y
  <2>7. Kept(x, y)  BY <2>1, <2>6
  <2>8. x.fields \in Seq(Fields)  BY <2>3 DEF Events
  <2>9. InPlace(x.fields) /\ Alike(x.fields, y.fields)  BY <2>2, <2>7 DEF IsEventOf, Kept
  <2>10. InPlace(y.fields)  BY <2>8, <2>9, AlikeInPlace
  <2>11. IsEventOf(d, y, id)  BY <2>2, <2>7, <2>10 DEF IsEventOf, Kept
  <2> QED BY <2>11 DEF y
<1>9. es \in EventsOf(d)
  <2>1. es \in [I -> Events]
    <3>1. es = [id \in DOMAIN s.events |-> es[id]]  BY DEF es
    <3>2. DOMAIN s.events = I  BY <1>7
    <3>3. \A id \in I : es[id] \in Events  BY <1>8, <3>2 DEF IsEventOf
    <3> QED BY <3>1, <3>2, <3>3
  <2> QED BY <2>1, <1>6, <1>8 DEF EventsOf
<1>10. IsSchema(d, t)  BY <1>4, <1>5, <1>6, <1>9 DEF IsSchema
<1>11. \A id \in DOMAIN s.events :
         t.events[id] = Filtered(s, s.events[id], id \in DOMAIN list, list[id])
  BY <1>5 DEF es
<1> QED BY <1>5, <1>6, <1>10, <1>11 DEF DescribedAs, t, list, keys

-----------------------------------------------------------------------------
(***************************************************************************)
(* What a description names.                                               *)
(***************************************************************************)

\* The event of an id is named by n, itself or by its alias.
NamedBy(s, id, n) ==
    \/ s.events[id].eventName = n
    \/ n \in DOMAIN Alias /\ Alias[n] = id
           /\ \A other \in DOMAIN s.events : s.events[other].eventName # n

LEMMA OneId ==
    ASSUME NEW d \in Docs, NEW s, IsSchema(d, s),
           NEW i \in DOMAIN s.events, NEW j \in DOMAIN s.events,
           s.events[i].eventName = s.events[j].eventName
    PROVE  i = j
<1>1. IsEventOf(d, s.events[i], i) /\ IsEventOf(d, s.events[j], j)
  BY DEF IsSchema, EventsOf
<1>2. PICK k \in DOMAIN d.events :
         d.events[k].name = s.events[i].eventName /\ d.events[k].id = i
  BY <1>1 DEF IsEventOf, Says
<1>3. PICK l \in DOMAIN d.events :
         d.events[l].name = s.events[j].eventName /\ d.events[l].id = j
  BY <1>1 DEF IsEventOf, Says
<1> QED BY <1>2, <1>3, DocsAssumption

LEMMA EvtIds ==
    ASSUME NEW d \in Docs, NEW s, IsSchema(d, s), NEW id \in DOMAIN s.events, NEW n
    PROVE  id \in evtIds(s, n) <=> NamedBy(s, id, n)
<1> DEFINE G == getEventId(s, n)
<1>1. G = {i \in DOMAIN s.events : s.events[i].eventName = n}  BY DEF getEventId
<1>2. CASE G # {}
  <2>1. evtIds(s, n) = {CHOOSE i \in G : TRUE}  BY <1>2, Zenon DEF evtIds
  <2>2. (CHOOSE i \in G : TRUE) \in G  BY <1>2
  <2>3. PICK i \in DOMAIN s.events : s.events[i].eventName = n /\ evtIds(s, n) = {i}
    BY <1>1, <2>1, <2>2
  <2>4. s.events[id].eventName = n => id = i  BY <2>3, OneId
  <2> QED BY <2>3, <2>4 DEF NamedBy
<1>3. CASE G = {}
  <2>1. evtIds(s, n) = IF n \in DOMAIN Alias THEN {Alias[n]} ELSE {}
    BY <1>3, Zenon DEF evtIds
  <2>2. \A other \in DOMAIN s.events : s.events[other].eventName # n  BY <1>1, <1>3
  <2> QED BY <2>1, <2>2 DEF NamedBy
<1> QED BY <1>2, <1>3

\* A section of a description names an event.
SectionNames(s, id, desc, i) == i \in DOMAIN desc /\ \E n \in desc[i].source_event : NamedBy(s, id, n)

\* The list asks for the events that are named, and for the fields they have
\* of those that a section which names them asks for.
LEMMA Listed ==
    ASSUME NEW d \in Docs, NEW s, IsSchema(d, s), NEW desc, NEW id \in DOMAIN s.events
    PROVE  /\ id \in DOMAIN getEventFldList(s, desc)
                <=> \E i \in DOMAIN desc : SectionNames(s, id, desc, i)
           /\ \A i, k : SectionNames(s, id, desc, i) /\ k \in 1 .. Len(s.events[id].fields)
                        /\ s.events[id].fields[k].fieldName \in fldLst(desc, i)
                  => s.events[id].fields[k].fieldName \in getEventFldList(s, desc)[id]
<1> DEFINE ids(i) == UNION {evtIds(s, e) : e \in desc[i].source_event}
           asked(e) == UNION {fldLst(desc, i) : i \in {j \in DOMAIN desc : e \in ids(j)}}
           has(e, f) == \E x \in getEvent(s, e, FALSE) : hasField(x, f)
           dom == UNION {ids(i) : i \in DOMAIN desc}
           of(e) == {f \in asked(e) : has(e, f)}
           list == [e \in dom |-> of(e)]
<1>1. getEventFldList(s, desc) = list  BY Zenon DEF getEventFldList
<1>2. ASSUME NEW i PROVE i \in DOMAIN desc /\ id \in ids(i) <=> SectionNames(s, id, desc, i)
  <2>1. id \in ids(i) <=> \E n \in desc[i].source_event : id \in evtIds(s, n)  OBVIOUS
  <2>2. \A n : id \in evtIds(s, n) <=> NamedBy(s, id, n)  BY EvtIds
  <2> QED BY <2>1, <2>2 DEF SectionNames
<1> HIDE DEF ids
<1>3. id \in dom <=> \E i \in DOMAIN desc : SectionNames(s, id, desc, i)
  BY <1>2
<1>4. ASSUME NEW i, NEW k, SectionNames(s, id, desc, i),
             k \in 1 .. Len(s.events[id].fields),
             s.events[id].fields[k].fieldName \in fldLst(desc, i)
      PROVE  s.events[id].fields[k].fieldName \in of(id) /\ id \in dom
  <2> DEFINE f == s.events[id].fields[k].fieldName
  <2>1. i \in DOMAIN desc /\ id \in ids(i)  BY <1>2, <1>4
  <2>2. f \in asked(id)  BY <1>4, <2>1
  <2>3. s.events[id].fields \in Seq(Fields)  BY DEF IsSchema, EventsOf, IsEventOf, Events
  <2>4. hasField(s.events[id], f)
    <3>1. k \in DOMAIN s.events[id].fields  BY <1>4, <2>3
    <3> QED BY <3>1 DEF hasField, Range
  <2>5. s.events[id] \in getEvent(s, id, FALSE)  BY DEF getEvent
  <2>6. has(id, f)  BY <2>4, <2>5
  <2> HIDE DEF f, asked, has
  <2> QED BY <2>1, <2>2, <2>6 DEF f
<1> HIDE DEF dom, of
<1>5. DOMAIN list = dom /\ \A e \in dom : list[e] = of(e)  OBVIOUS
<1> HIDE DEF list
<1> QED BY <1>1, <1>3, <1>4, <1>5

\* What is filtered of a schema that a description was given for.
Shows(t, desc, id) ==
    /\ t.events[id].isFiltered <=> \E i \in DOMAIN desc : SectionNames(t, id, desc, i)
    /\ t.events[id].fields \in Seq(Fields)
    /\ \A i : \A k \in 1 .. Len(t.events[id].fields) :
          SectionNames(t, id, desc, i)
          /\ t.events[id].fields[k].fieldName \in fldLst(desc, i)
            => t.events[id].fields[k].isFiltered

LEMMA FilterOf ==
    ASSUME NEW d \in Docs, NEW s, IsSchema(d, s), NEW desc,
           NEW t, t = describe(s, desc), NEW id \in DOMAIN t.events
    PROVE  Shows(t, desc, id)
<1> DEFINE list == getEventFldList(s, desc)
<1>1. /\ DOMAIN t.events = DOMAIN s.events
      /\ \A e \in DOMAIN s.events :
            t.events[e] = Filtered(s, s.events[e], e \in DOMAIN list, list[e])
  <2>1. DescribedAs(d, s, desc, t)  BY Described
  <2> QED BY <2>1, Zenon DEF DescribedAs
<1> HIDE DEF list
<1>2. ASSUME NEW e \in DOMAIN s.events
      PROVE  /\ Kept(s.events[e], t.events[e])
             /\ t.events[e].isFiltered <=> e \in DOMAIN list
             /\ e \in DOMAIN list => \A k \in 1 .. Len(s.events[e].fields) :
                   s.events[e].fields[k].fieldName \in list[e] => t.events[e].fields[k].isFiltered
  <2> DEFINE x == s.events[e]
  <2>1. x \in Events /\ s.isFiltered \in BOOLEAN /\ (s.isFiltered \/ ~x.isFiltered)
    BY DEF IsSchema, EventsOf, IsEventOf
  <2>2. (e \in DOMAIN list) \in BOOLEAN  OBVIOUS
  <2>3. t.events[e] = Filtered(s, x, e \in DOMAIN list, list[e])  BY <1>1
  <2> HIDE DEF x
  <2>4. FilteredAs(x, t.events[e], e \in DOMAIN list, list[e])
    BY <2>1, <2>2, <2>3, FilteredKept
  <2> QED BY <2>4 DEF FilteredAs, x
<1>3. \A n : NamedBy(t, id, n) <=> NamedBy(s, id, n)
  <2>1. \A e \in DOMAIN s.events : t.events[e].eventName = s.events[e].eventName
    BY <1>2 DEF Kept
  <2> QED BY <1>1, <2>1 DEF NamedBy
<1>4. \A i : SectionNames(t, id, desc, i) <=> SectionNames(s, id, desc, i)
  BY <1>3 DEF SectionNames
<1>5. id \in DOMAIN s.events  BY <1>1
<1>6. /\ id \in DOMAIN list <=> \E i \in DOMAIN desc : SectionNames(s, id, desc, i)
      /\ \A i, k : SectionNames(s, id, desc, i) /\ k \in 1 .. Len(s.events[id].fields)
                   /\ s.events[id].fields[k].fieldName \in fldLst(desc, i)
             => s.events[id].fields[k].fieldName \in list[id]
  BY <1>5, Listed DEF list
<1>7. t.events[id].isFiltered <=> \E i \in DOMAIN desc : SectionNames(t, id, desc, i)
  BY <1>2, <1>4, <1>5, <1>6
<1>8. t.events[id].fields \in Seq(Fields)  BY <1>2, <1>5 DEF Kept, Events
<1>9. ASSUME NEW i, NEW k \in 1 .. Len(t.events[id].fields), SectionNames(t, id, desc, i),
             t.events[id].fields[k].fieldName \in fldLst(desc, i)
      PROVE  t.events[id].fields[k].isFiltered
  <2>1. /\ k \in 1 .. Len(s.events[id].fields)
        /\ t.events[id].fields[k].fieldName = s.events[id].fields[k].fieldName
    BY <1>2, <1>5 DEF Kept, Alike
  <2>2. SectionNames(s, id, desc, i)  BY <1>4, <1>9
  <2>3. s.events[id].fields[k].fieldName \in list[id]  BY <1>6, <1>9, <2>1, <2>2
  <2>4. id \in DOMAIN list  BY <1>6, <2>2 DEF SectionNames
  <2> QED BY <1>2, <1>5, <2>1, <2>3, <2>4
<1> QED BY <1>7, <1>8, <1>9 DEF Shows

-----------------------------------------------------------------------------
(***************************************************************************)
(* The files.  Whatever is in one is a schema of the document, and the     *)
(* filtered one is what the last description made of such a schema.        *)
(***************************************************************************)

FilesInv ==
    /\ doc \in Docs
    /\ files = [f \in {"raw", "filt"} |-> files[f]]
    /\ \A f \in {"raw", "filt"} : files[f] # NoFile => IsSchema(doc, files[f])
    /\ files["raw"] # NoFile => ~files["raw"].isFiltered
    /\ files["filt"] # NoFile => \E s : IsSchema(doc, s) /\ files["filt"] = describe(s, filtBy)
    /\ parser \in {NoFile, files["raw"], files["filt"]}

LEMMA FilesInit == Init => FilesInv
  BY DEF Init, FilesInv

LEMMA FilesStep == FilesInv /\ [Next]_vars => FilesInv'
<1> SUFFICES ASSUME FilesInv, [Next]_vars PROVE FilesInv'
  OBVIOUS
<1>1. CASE MakeSchema
  <2>1. PICK s \in read10Dash(doc) : files' = [files EXCEPT !["raw"] = s]
    BY <1>1 DEF MakeSchema
  <2>2. UNCHANGED <<doc, ini, filtBy, parser, last>> /\ parser = NoFile
    BY <1>1 DEF MakeSchema, Preparing
  <2>3. doc \in Docs /\ files = [f \in {"raw", "filt"} |-> files[f]]  BY DEF FilesInv
  <2>4. files' = [f \in {"raw", "filt"} |-> files'[f]] /\ files'["raw"] = s
        /\ files'["filt"] = files["filt"]
    BY <2>1, <2>3
  <2>5. s \in Plain(doc) /\ DOMAIN s.events = Ids(doc)  BY <2>3, ReadPlain
  <2>6. IsSchema(doc, s) /\ ~s.isFiltered  BY <2>5 DEF Plain, IsSchema
  <2> QED BY <2>2, <2>3, <2>4, <2>6 DEF FilesInv
<1>2. CASE MakeIni
  <2>1. UNCHANGED <<doc, files, filtBy, parser>>  BY <1>2 DEF MakeIni
  <2> QED BY <2>1 DEF FilesInv
<1>3. ASSUME NEW from \in {"raw", "filt"}, MakeFiltered(from) PROVE FilesInv'
  <2>1. /\ files[from] # NoFile /\ parser = NoFile
        /\ files' = [files EXCEPT !["filt"] = describe(files[from], ini)]
        /\ filtBy' = ini /\ UNCHANGED <<doc, ini, parser, last>>
    BY <1>3 DEF MakeFiltered, Preparing
  <2>2. doc \in Docs /\ files = [f \in {"raw", "filt"} |-> files[f]]  BY DEF FilesInv
  <2>3. IsSchema(doc, files[from])  BY <2>1 DEF FilesInv
  <2> DEFINE t == describe(files[from], ini)
  <2>4. IsSchema(doc, t)  BY <2>3, Described DEF DescribedAs
  <2>5. files' = [f \in {"raw", "filt"} |-> files'[f]] /\ files'["filt"] = t
        /\ files'["raw"] = files["raw"]
    BY <2>1, <2>2
  <2>6. \E s : IsSchema(doc, s) /\ files'["filt"] = describe(s, filtBy')
    BY <2>1, <2>3, <2>5
  <2> HIDE DEF t
  <2> QED BY <2>1, <2>2, <2>4, <2>5, <2>6 DEF FilesInv
<1>4. ASSUME NEW f \in {"raw", "filt"}, Load(f) PROVE FilesInv'
  <2>1. parser' = files[f] /\ UNCHANGED <<doc, files, filtBy>>  BY <1>4 DEF Load
  <2> QED BY <2>1 DEF FilesInv
<1>5. CASE Receive \/ ReadFile
  <2>1. UNCHANGED <<doc, files, filtBy, parser>>  BY <1>5, Zenon DEF Receive, ReadFile
  <2> QED BY <2>1 DEF FilesInv
<1>6. CASE UNCHANGED vars
  <2>1. UNCHANGED <<doc, files, filtBy, parser>>  BY <1>6 DEF vars
  <2> QED BY <2>1 DEF FilesInv
<1> QED BY <1>1, <1>2, <1>3, <1>4, <1>5, <1>6 DEF Next

LEMMA SchemasAre ==
    ASSUME FilesInv
    PROVE  \A s \in Schemas : IsSchema(doc, s)
<1>1. DOMAIN files = {"raw", "filt"}  BY DEF FilesInv
<1> QED BY <1>1 DEF FilesInv, Schemas, Range

\* Of every event its document says a schema has the fields in a row, none in
\* another's place, and each under a name of its own, however structures are
\* nested and repeated and whatever has been filtered (parse10dash.py:476-507,
\* schema.py:76-90).
THEOREM FieldsStayInPlace == Spec => []FieldsInPlace
<1>1. FilesInv => FieldsInPlace
  <2> SUFFICES ASSUME FilesInv, NEW s \in Schemas
               PROVE  /\ DOMAIN s.events = {e.id : e \in Range(doc.events)}
                      /\ \A id \in DOMAIN s.events :
                           LET fs == s.events[id].fields
                           IN  /\ \A i \in DOMAIN fs :
                                     fs[i].offset = IF i = 1 THEN 0
                                                    ELSE fs[i-1].offset + fs[i-1].fieldLen
                               /\ IsInjective([i \in DOMAIN fs |-> fs[i].dbName])
    BY Zenon DEF FieldsInPlace
  <2>1. IsSchema(doc, s)  BY SchemasAre
  <2>2. DOMAIN s.events = {e.id : e \in Range(doc.events)}
    BY <2>1 DEF IsSchema, Ids, Says, Range
  <2>3. ASSUME NEW id \in DOMAIN s.events
        PROVE  LET fs == s.events[id].fields
               IN  /\ \A i \in DOMAIN fs :
                         fs[i].offset = IF i = 1 THEN 0
                                        ELSE fs[i-1].offset + fs[i-1].fieldLen
                   /\ IsInjective([i \in DOMAIN fs |-> fs[i].dbName])
    <3> DEFINE fs == s.events[id].fields
               ns == [i \in DOMAIN fs |-> fs[i].dbName]
    <3>1. IsEventOf(doc, s.events[id], id)  BY <2>1 DEF IsSchema, EventsOf
    <3>2. InPlace(fs) /\ fs \in Seq(Fields)  BY <3>1 DEF IsEventOf, Events
    <3> HIDE DEF fs
    <3>3. DOMAIN fs = 1 .. Len(fs)  BY <3>2
    <3>4. \A i \in DOMAIN fs : fs[i].offset = IF i = 1 THEN 0
                                              ELSE fs[i-1].offset + fs[i-1].fieldLen
      BY <3>2, <3>3 DEF InPlace, StartOf
    <3>5. IsInjective(ns)  BY <3>2, <3>3 DEF InPlace, IsInjective
    <3> QED BY <3>4, <3>5 DEF fs
  <2> QED BY <2>2, <2>3
<1> QED BY <1>1, FilesInit, FilesStep, PTL DEF Spec

\* However often a schema is filtered, also from one that was, just the events
\* its last description names are filtered, and of these every field it asks
\* for (sessionDesc.py:101-168, schema.py:267-282).
THEOREM FilterIsLatest == Spec => []LatestFilter
<1>1. FilesInv => LatestFilter
  <2> SUFFICES ASSUME FilesInv, files["filt"] # NoFile,
                      NEW id \in DOMAIN files["filt"].events
               PROVE  /\ files["filt"].events[id].isFiltered
                           <=> \E row \in Range(filtBy) : Names(row, files["filt"], id)
                      /\ \A f \in Range(files["filt"].events[id].fields),
                            row \in Range(filtBy) :
                            Names(row, files["filt"], id)
                            /\ [kind |-> "field", name |-> f.fieldName] \in Range(row.field_s)
                            => f.isFiltered
    BY Zenon DEF LatestFilter
  <2> DEFINE t == files["filt"]
  <2>1. doc \in Docs  BY DEF FilesInv
  <2>2. PICK s : IsSchema(doc, s) /\ t = describe(s, filtBy)  BY DEF FilesInv
  <2> HIDE DEF t
  <2>3. PICK d, desc, u : d = doc /\ desc = filtBy /\ u = t  OBVIOUS
  <2>4. d \in Docs /\ IsSchema(d, s) /\ u = describe(s, desc) /\ id \in DOMAIN u.events
    BY <2>1, <2>2, <2>3 DEF t
  <2>5. /\ u.events[id].isFiltered <=> \E i \in DOMAIN desc : SectionNames(u, id, desc, i)
        /\ u.events[id].fields \in Seq(Fields)
        /\ \A i : \A k \in 1 .. Len(u.events[id].fields) :
              SectionNames(u, id, desc, i)
              /\ u.events[id].fields[k].fieldName \in fldLst(desc, i)
                => u.events[id].fields[k].isFiltered
    BY <2>4, FilterOf DEF Shows
  <2>6. \A i \in DOMAIN desc : SectionNames(u, id, desc, i) <=> Names(desc[i], u, id)
    BY DEF SectionNames, NamedBy, Names
  <2>7. u.events[id].isFiltered <=> \E row \in Range(desc) : Names(row, u, id)
    BY <2>5, <2>6 DEF Range
  <2>8. ASSUME NEW f \in Range(u.events[id].fields), NEW row \in Range(desc),
               Names(row, u, id),
               [kind |-> "field", name |-> f.fieldName] \in Range(row.field_s)
        PROVE  f.isFiltered
    <3>1. PICK k \in DOMAIN u.events[id].fields : f = u.events[id].fields[k]  BY <2>8 DEF Range
    <3>2. k \in 1 .. Len(u.events[id].fields)  BY <2>5, <3>1
    <3>3. PICK i \in DOMAIN desc : row = desc[i]  BY <2>8 DEF Range
    <3>4. PICK j \in DOMAIN row.field_s :
             row.field_s[j] = [kind |-> "field", name |-> f.fieldName]
      BY <2>8 DEF Range
    <3>5. f.fieldName \in Expand(row.field_s[j])
      <4>1. row.field_s[j].kind # "array" /\ row.field_s[j].name = f.fieldName  BY <3>4
      <4> QED BY <4>1, Zenon DEF Expand
    <3>6. f.fieldName \in fldLst(desc, i)
      <4> HIDE DEF t
      <4> QED BY <3>3, <3>5, Zenon DEF fldLst
    <3>7. SectionNames(u, id, desc, i)  BY <2>6, <2>8, <3>3
    <3> QED BY <2>5, <3>1, <3>2, <3>6, <3>7
  <2> QED BY <2>3, <2>7, <2>8 DEF t
<1> QED BY <1>1, FilesInit, FilesStep, PTL DEF Spec

\* The unit can tell whose event a record is: every event it parses has all of
\* its keys filtered (sessionDesc.py:131-135, parseCTRS.py:205-213).
THEOREM KeysAlwaysReach == Spec => []KeysReach
<1>1. FilesInv => KeysReach
  <2> SUFFICES ASSUME FilesInv, NEW t \in {files["filt"], parser} \ {NoFile},
                      t.isFiltered, t.keys # <<>>,
                      NEW id \in getFilterdEvents(t), NEW f \in Range(t.events[id].fields),
                      f.fieldName \in Range(t.keys)
               PROVE  f.isFiltered
    BY Zenon DEF KeysReach
  <2>1. t = files["filt"] /\ files["filt"] # NoFile  BY DEF FilesInv
  <2>2. PICK s : IsSchema(doc, s) /\ t = describe(s, filtBy)  BY <2>1 DEF FilesInv
  <2>3. PICK d, desc : d = doc /\ desc = filtBy  OBVIOUS
  <2>4. d \in Docs /\ IsSchema(d, s) /\ t = describe(s, desc)  BY <2>2, <2>3 DEF FilesInv
  <2>5. DescribedAs(d, s, desc, t)  BY <2>4, Described
  <2>6. t.keys = desc[1].keys  BY <2>5 DEF DescribedAs
  <2>7. id \in DOMAIN t.events /\ t.events[id].isFiltered  BY DEF getFilterdEvents
  <2>8. Shows(t, desc, id)  BY <2>4, <2>7, FilterOf
  <2>9. PICK i \in DOMAIN desc : SectionNames(t, id, desc, i)  BY <2>7, <2>8 DEF Shows
  <2>10. f.fieldName \in fldLst(desc, i)  BY <2>6 DEF fldLst
  <2>11. PICK k \in DOMAIN t.events[id].fields : f = t.events[id].fields[k]  BY DEF Range
  <2>12. k \in 1 .. Len(t.events[id].fields)  BY <2>8, <2>11 DEF Shows
  <2> QED BY <2>8, <2>9, <2>10, <2>11, <2>12 DEF Shows
<1> QED BY <1>1, FilesInit, FilesStep, PTL DEF Spec

-----------------------------------------------------------------------------
(***************************************************************************)
(* Records.  The values of a record lie one behind the other, each where   *)
(* the lengths of those in front of it put it.                             *)
(***************************************************************************)

LEMMA MinOfTwo ==
    ASSUME NEW a \in Int, NEW b \in Int
    PROVE  Min({a, b}) = IF a <= b THEN a ELSE b
  BY DEF Min

LEMMA SubOfLeft ==
    ASSUME NEW S, NEW a \in Seq(S), NEW b \in Seq(S), NEW m \in Nat \ {0}, NEW n \in Nat,
           n <= Len(a)
    PROVE  SubSeq(a \o b, m, n) = SubSeq(a, m, n)
<1>1. \A i \in 1 .. Len(a) : (a \o b)[i] = a[i]  OBVIOUS
<1>2. Len(a \o b) >= Len(a)  OBVIOUS
<1>3. Len(SubSeq(a \o b, m, n)) = Len(SubSeq(a, m, n))  BY <1>2
<1> QED BY <1>1, <1>2, <1>3

LEMMA SubOfRight ==
    ASSUME NEW S, NEW a \in Seq(S), NEW b \in Seq(S), NEW m \in Nat \ {0}, NEW n \in Nat,
           n <= Len(b)
    PROVE  SubSeq(a \o b, Len(a) + m, Len(a) + n) = SubSeq(b, m, n)
  OBVIOUS

LEMMA SubOfAll ==
    ASSUME NEW S, NEW a \in Seq(S)
    PROVE  SubSeq(a, 1, Len(a)) = a
  OBVIOUS

LEMMA JoinedType ==
    ASSUME NEW S, NEW a \in Seq(S), NEW b \in Seq(S)
    PROVE  /\ a \o b \in Seq(S) /\ Len(a \o b) = Len(a) + Len(b)
           /\ Len(a) \in Nat /\ Len(b) \in Nat
  OBVIOUS

\* Sequences that are joined lie one behind the other.
Pieces(s, at, whole) ==
    /\ at[0] = 0 /\ at[Len(s)] = Len(whole)
    /\ \A i \in 1 .. Len(s) :
           /\ at[i] = at[i - 1] + Len(s[i]) /\ at[i] <= Len(whole)
           /\ SubSeq(whole, at[i - 1] + 1, at[i]) = s[i]

LEMMA FlattenPieces ==
    ASSUME NEW S, NEW s \in Seq(Seq(S))
    PROVE  \E at \in [0 .. Len(s) -> Nat] : Pieces(s, at, FlattenSeq(s))
<1>0. Len(s) \in Nat /\ \A i \in 1 .. Len(s) : s[i] \in Seq(S)
  BY ElementOfSeq, LenProperties
<1>a. CASE Len(s) = 0
  <2>1. FlattenSeq(s) = s  BY <1>a DEF FlattenSeq
  <2>2. s = <<>>  BY <1>a
  <2> DEFINE at == [i \in 0 .. Len(s) |-> 0]
  <2>3. at \in [0 .. Len(s) -> Nat] /\ at[0] = 0 /\ at[Len(s)] = 0  BY <1>0
  <2>4. Pieces(s, at, FlattenSeq(s))
    <3> HIDE DEF at
    <3> QED BY <1>a, <2>1, <2>3 DEF Pieces
  <2> QED BY <2>3, <2>4
<1>b. CASE Len(s) # 0
  <2> DEFINE g == [p \in Seq(S) \X Nat |->
                     IF p[2] \in 1 .. Len(s) THEN p[1] \o s[p[2]] ELSE <<>>]
             Is(e) == e = [i \in 1 .. Len(s) |-> IF i = 1 THEN s[i] ELSE e[i - 1] \o s[i]]
             h == CHOOSE e : Is(e)
  <2>1. g \in [Seq(S) \X Nat -> Seq(S)]
    <3>1. ASSUME NEW p \in Seq(S) \X Nat
          PROVE  (IF p[2] \in 1 .. Len(s) THEN p[1] \o s[p[2]] ELSE <<>>) \in Seq(S)
      <4>1. CASE p[2] \in 1 .. Len(s)
        <5>1. p[1] \in Seq(S) /\ s[p[2]] \in Seq(S)  BY <1>0, <4>1
        <5>2. p[1] \o s[p[2]] \in Seq(S)  BY <5>1
        <5> QED BY <4>1, <5>2
      <4>2. CASE p[2] \notin 1 .. Len(s)  BY <4>2
      <4> QED BY <4>1, <4>2
    <3> QED BY <3>1, Zenon
  <2>2. s[1] \in Seq(S) /\ 1 \in Nat /\ Len(s) \in Int  BY <1>0, <1>b
  <2>3. PICK f \in [1 .. Len(s) -> Seq(S)] : Iterates(f, 1, Len(s), s[1], g)
    <3> HIDE DEF g
    <3> QED BY <2>1, <2>2, Iteration
  <2>4. Is(f)
    <3>1. ASSUME NEW i \in 1 .. Len(s)
          PROVE  (IF i = 1 THEN s[1] ELSE g[<<f[i - 1], i>>])
                   = (IF i = 1 THEN s[i] ELSE f[i - 1] \o s[i])
      <4>1. CASE i # 1
        <5>1. i - 1 \in 1 .. Len(s) /\ i \in Nat  BY <1>0, <4>1
        <5>2. f[i - 1] \in Seq(S)  BY <5>1
        <5>3. g[<<f[i - 1], i>>] = f[i - 1] \o s[i]  BY <5>1, <5>2
        <5> HIDE DEF g
        <5> QED BY <5>3, <4>1
      <4> QED BY <4>1
    <3>2. f = [i \in 1 .. Len(s) |-> IF i = 1 THEN s[1] ELSE g[<<f[i - 1], i>>]]
      <4> HIDE DEF g
      <4> QED BY <2>3 DEF Iterates
    <3> HIDE DEF g
    <3> QED BY <3>1, <3>2, Zenon
  <2>5. Is(h)
    <3> HIDE DEF Is
    <3> QED BY <2>4, Zenon
  <2>6. FlattenSeq(s) = h[Len(s)]  BY <1>b, Zenon DEF FlattenSeq
  <2>7. h = [i \in 1 .. Len(s) |-> IF i = 1 THEN s[i] ELSE h[i - 1] \o s[i]]
    <3> HIDE DEF h
    <3> QED BY <2>5, Zenon
  <2> HIDE DEF h, g, Is
  <2> DEFINE at == [i \in 0 .. Len(s) |-> IF i = 0 THEN 0 ELSE Len(h[i])]
             Good(i) == /\ h[i] \in Seq(S) /\ at[i] = Len(h[i])
                        /\ \A j \in 1 .. i :
                              /\ at[j] \in Nat
                              /\ at[j] = at[j - 1] + Len(s[j]) /\ at[j] <= at[i]
                              /\ SubSeq(h[i], at[j - 1] + 1, at[j]) = s[j]
             U == {i \in Nat : i + 1 \in 1 .. Len(s) => Good(i + 1)}
  <2>at. at[0] = 0 /\ \A i \in 1 .. Len(s) : at[i] = Len(h[i])  BY <1>0
  <2> HIDE DEF at
  <2>8. 0 \in U
    <3>1. 1 \in 1 .. Len(s)  BY <1>0, <1>b
    <3>2. h[1] = s[1]  BY <3>1, <2>7
    <3>3. at[1] = Len(s[1]) /\ s[1] \in Seq(S)  BY <2>2, <2>at, <3>1, <3>2
    <3>4. SubSeq(s[1], 1, Len(s[1])) = s[1] /\ Len(s[1]) \in Nat  BY <3>3, SubOfAll, LenProperties
    <3>5. Good(1)  BY <2>at, <3>2, <3>3, <3>4
    <3> QED BY <3>5
  <2>9. ASSUME NEW i \in Nat, i \in U PROVE i + 1 \in U
    <3>1. CASE (i + 1) + 1 \in 1 .. Len(s)
      <4>1. PICK k \in Nat : k = i + 1  OBVIOUS
      <4> DEFINE a == h[k]
                 b == s[k + 1]
      <4>2. Good(k)  BY <2>9, <3>1, <1>0, <4>1
      <4>3. k + 1 \in 1 .. Len(s) /\ k \in 1 .. Len(s) /\ (k + 1) - 1 = k /\ k + 1 # 1
        BY <1>0, <3>1, <4>1
      <4>4. h[k + 1] = a \o b  BY <2>7, <4>3
      <4>5. b \in Seq(S) /\ a \in Seq(S)  BY <1>0, <4>2, <4>3
      <4>6. at[k + 1] = Len(a \o b) /\ at[k] = Len(a)  BY <2>at, <4>3, <4>4
      <4>7. /\ a \o b \in Seq(S) /\ Len(a \o b) = Len(a) + Len(b)
            /\ Len(a) \in Nat /\ Len(b) \in Nat
        <5> HIDE DEF a, b
        <5> QED BY <4>5, LenProperties
      <4>8. ASSUME NEW j \in 1 .. k
            PROVE  /\ at[j] \in Nat
                   /\ at[j] = at[j - 1] + Len(s[j]) /\ at[j] <= at[k + 1]
                   /\ SubSeq(a \o b, at[j - 1] + 1, at[j]) = s[j]
        <5>1. /\ at[j] \in Nat
              /\ at[j] = at[j - 1] + Len(s[j]) /\ at[j] <= at[k]
              /\ SubSeq(a, at[j - 1] + 1, at[j]) = s[j]
          BY <4>2
        <5>2. at[j - 1] \in Nat
          <6>1. CASE j = 1  BY <6>1, <2>at
          <6>2. CASE j # 1
            <7>1. j - 1 \in 1 .. k  BY <6>2
            <7> QED BY <4>2, <7>1
          <6> QED BY <6>1, <6>2
        <5>3. SubSeq(a \o b, at[j - 1] + 1, at[j]) = SubSeq(a, at[j - 1] + 1, at[j])
          <6> HIDE DEF a, b
          <6>1. at[j - 1] + 1 \in Nat \ {0} /\ at[j] <= Len(a)
            <7>1. at[k] = Len(a) /\ at[k] \in Nat  BY <4>6, <4>7
            <7>2. at[j] <= at[k]  BY <5>1
            <7> QED BY <5>2, <7>1, <7>2
          <6>2. at[j] \in Nat  BY <5>1
          <6>3. \A m \in Nat \ {0}, n \in Nat :
                   n <= Len(a) => SubSeq(a \o b, m, n) = SubSeq(a, m, n)
            BY <4>5, SubOfLeft
          <6> QED BY <6>1, <6>2, <6>3, Zenon
        <5>4. at[j] <= at[k + 1]
          <6> HIDE DEF a, b
          <6> QED BY <4>6, <4>7, <5>1
        <5> QED BY <5>1, <5>3, <5>4
      <4>9. /\ at[k + 1] \in Nat
            /\ at[k + 1] = at[k] + Len(b)
            /\ SubSeq(a \o b, at[k] + 1, at[k + 1]) = b
        <5> HIDE DEF a, b
        <5>1. SubSeq(a \o b, Len(a) + 1, Len(a) + Len(b)) = SubSeq(b, 1, Len(b))
          BY <4>5, <4>7, SubOfRight
        <5>2. SubSeq(b, 1, Len(b)) = b  BY <4>5, SubOfAll
        <5> QED BY <4>6, <4>7, <5>1, <5>2
      <4>10. h[k + 1] \in Seq(S) /\ at[k + 1] = Len(h[k + 1])
        BY <4>4, <4>6, <4>7
      <4>11. ASSUME NEW j \in 1 .. k + 1
             PROVE  /\ at[j] \in Nat
                    /\ at[j] = at[j - 1] + Len(s[j]) /\ at[j] <= at[k + 1]
                    /\ SubSeq(h[k + 1], at[j - 1] + 1, at[j]) = s[j]
        <5>1. CASE j \in 1 .. k  BY <4>4, <4>8, <5>1
        <5>2. CASE j = k + 1
          <6>1. j - 1 = k  BY <5>2
          <6>2. at[k + 1] = at[k] + Len(s[k + 1])
                /\ SubSeq(h[k + 1], at[k] + 1, at[k + 1]) = s[k + 1]
            BY <4>4, <4>9
          <6> HIDE DEF a, b
          <6> QED BY <4>9, <5>2, <6>1, <6>2
        <5> QED BY <5>1, <5>2
      <4>12. Good(k + 1)  BY <4>10, <4>11
      <4> HIDE DEF Good
      <4> QED BY <4>1, <4>12
    <3> QED BY <3>1
  <2> HIDE DEF U
  <2>10. Nat \subseteq U  BY <2>8, <2>9, Successors
  <2>11. Good(Len(s))
    <3>1. Len(s) - 1 \in Nat /\ (Len(s) - 1) + 1 = Len(s) /\ Len(s) \in 1 .. Len(s)
      BY <1>0, <1>b
    <3>2. Len(s) - 1 \in U  BY <3>1, <2>10
    <3> QED BY <3>1, <3>2 DEF U
  <2>12. at \in [0 .. Len(s) -> Nat]
    <3>1. \A i \in 0 .. Len(s) : (IF i = 0 THEN 0 ELSE Len(h[i])) \in Nat
      <4>1. ASSUME NEW i \in 1 .. Len(s) PROVE Len(h[i]) \in Nat
        BY <2>11, <2>at
      <4> QED BY <4>1, <1>0
    <3> QED BY <3>1 DEF at
  <2>13. Pieces(s, at, FlattenSeq(s))  BY <2>6, <2>11, <2>at DEF Pieces
  <2> QED BY <2>12, <2>13
<1> QED BY <1>a, <1>b

\* Where the values of a record end, the first one behind the header.
Lies(sent, at, raw, pad) ==
    /\ at[0] = HeaderLen /\ Len(raw) = at[Len(sent)] + pad
    /\ \A i \in 1 .. Len(sent) :
           /\ at[i] = at[i - 1] + Len(sent[i].bytes) /\ at[i] <= Len(raw)
           /\ Slice(raw, at[i - 1], at[i]) = sent[i].bytes

Bodied(sent) == FlattenSeq([i \in DOMAIN sent |-> sent[i].bytes])
Padding0(pad) == [i \in 1 .. pad |-> 0]

LEMMA RecordParts ==
    ASSUME NEW sent \in Seq(Parts), NEW id \in Nat, NEW pad \in Nat
    PROVE  /\ Bodied(sent) \in Seq(Nat) /\ Padding0(pad) \in Seq(Nat)
           /\ Len(Padding0(pad)) = pad
           /\ Record(id, sent, pad)
                = <<0, HeaderLen + Len(Bodied(sent) \o Padding0(pad)), 0, 4, 0, 0, id>>
                  \o (Bodied(sent) \o Padding0(pad))
<1> DEFINE bs == [i \in DOMAIN sent |-> sent[i].bytes]
<1>1. bs \in Seq(Seq(Nat))
  <2>1. DOMAIN sent = 1 .. Len(sent) /\ Len(sent) \in Nat  OBVIOUS
  <2>2. \A i \in 1 .. Len(sent) : sent[i].bytes \in Seq(Nat)
    <3>1. \A i \in 1 .. Len(sent) : sent[i] \in Parts  OBVIOUS
    <3> QED BY <3>1 DEF Parts
  <2>3. bs \in [1 .. Len(sent) -> Seq(Nat)]  BY <2>1, <2>2
  <2> HIDE DEF bs
  <2> QED BY <2>1, <2>3, SeqDef
<1>2. Bodied(sent) \in Seq(Nat)
  <2>1. Bodied(sent) = FlattenSeq(bs)  BY DEF Bodied
  <2> HIDE DEF bs
  <2> QED BY <1>1, <2>1, FlattenType
<1>3. Padding0(pad) \in Seq(Nat) /\ Len(Padding0(pad)) = pad
  <2>1. Padding0(pad) \in [1 .. pad -> Nat]  BY DEF Padding0
  <2>2. Padding0(pad) \in Seq(Nat)  BY <2>1, SeqDef
  <2>3. DOMAIN Padding0(pad) = 1 .. pad  BY DEF Padding0
  <2>4. DOMAIN Padding0(pad) = 1 .. Len(Padding0(pad)) /\ Len(Padding0(pad)) \in Nat
    BY <2>2, LenProperties
  <2> QED BY <2>2, <2>3, <2>4
<1>4. Record(id, sent, pad)
        = <<0, HeaderLen + Len(Bodied(sent) \o Padding0(pad)), 0, 4, 0, 0, id>>
          \o (Bodied(sent) \o Padding0(pad))
  BY DEF Record, Bodied, Padding0
<1> QED BY <1>2, <1>3, <1>4

LEMMA RecordLies ==
    ASSUME NEW sent \in Seq(Parts), NEW id \in Nat, NEW pad \in Nat
    PROVE  \E at \in [0 .. Len(sent) -> Nat] : Lies(sent, at, Record(id, sent, pad), pad)
<1> DEFINE body == Bodied(sent)
           zs   == Padding0(pad)
           bs   == [i \in DOMAIN sent |-> sent[i].bytes]
           hdr  == <<0, HeaderLen + Len(body \o zs), 0, 4, 0, 0, id>>
           raw  == Record(id, sent, pad)
<1>1. body \in Seq(Nat) /\ zs \in Seq(Nat) /\ Len(zs) = pad /\ raw = hdr \o (body \o zs)
  BY RecordParts
<1>2. body \o zs \in Seq(Nat) /\ Len(body \o zs) = Len(body) + pad /\ Len(body) \in Nat
  <2> HIDE DEF body, zs, hdr, raw
  <2> QED BY <1>1, JoinedType
<1>3. hdr \in Seq(Nat) /\ Len(hdr) = HeaderLen
  <2> HIDE DEF body, zs
  <2> QED BY <1>2 DEF HeaderLen
<1>4. DOMAIN sent = 1 .. Len(sent) /\ Len(sent) \in Nat  OBVIOUS
<1>5. bs \in Seq(Seq(Nat)) /\ Len(bs) = Len(sent) /\ \A i \in 1 .. Len(sent) : bs[i] = sent[i].bytes
  <2>2. \A i \in 1 .. Len(sent) : sent[i].bytes \in Seq(Nat)
    <3>1. \A i \in 1 .. Len(sent) : sent[i] \in Parts  OBVIOUS
    <3> QED BY <3>1 DEF Parts
  <2>3. bs \in [1 .. Len(sent) -> Seq(Nat)]  BY <1>4, <2>2
  <2>4. \A i \in 1 .. Len(sent) : bs[i] = sent[i].bytes  BY <1>4
  <2>5. DOMAIN bs = 1 .. Len(sent)  BY <1>4
  <2> HIDE DEF bs
  <2>6. bs \in Seq(Seq(Nat))  BY <1>4, <2>3, SeqDef
  <2> QED BY <1>4, <2>4, <2>5, <2>6, LenProperties
<1>6. body = FlattenSeq(bs)  BY DEF Bodied
<1> HIDE DEF bs, body
<1>7. PICK p \in [0 .. Len(sent) -> Nat] : Pieces(bs, p, body)
  BY <1>5, <1>6, FlattenPieces
<1> DEFINE at == [i \in 0 .. Len(sent) |-> HeaderLen + p[i]]
<1>8. at \in [0 .. Len(sent) -> Nat] /\ \A i \in 0 .. Len(sent) : at[i] = HeaderLen + p[i]
  <2>1. \A i \in 0 .. Len(sent) : HeaderLen + p[i] \in Nat  BY <1>7 DEF HeaderLen
  <2> QED BY <2>1
<1> HIDE DEF at, zs
<1>9. Len(raw) = HeaderLen + Len(body) + pad /\ raw \in Seq(Nat)
  <2>1. Len(hdr \o (body \o zs)) = Len(hdr) + Len(body \o zs) /\ hdr \o (body \o zs) \in Seq(Nat)
    <3> HIDE DEF hdr
    <3> QED BY <1>2, <1>3, JoinedType
  <2> HIDE DEF hdr, raw
  <2> QED BY <1>1, <1>2, <1>3, <2>1 DEF HeaderLen
<1>10. at[0] = HeaderLen /\ Len(raw) = at[Len(sent)] + pad
  <2> HIDE DEF raw
  <2>1. at[0] = HeaderLen + p[0] /\ at[Len(sent)] = HeaderLen + p[Len(sent)]  BY <1>4, <1>8
  <2>2. p[0] = 0 /\ p[Len(sent)] = Len(body)  BY <1>5, <1>7 DEF Pieces
  <2> QED BY <1>2, <1>9, <2>1, <2>2 DEF HeaderLen
<1>11. ASSUME NEW i \in 1 .. Len(sent)
       PROVE  /\ at[i] = at[i - 1] + Len(sent[i].bytes) /\ at[i] <= Len(raw)
              /\ Slice(raw, at[i - 1], at[i]) = sent[i].bytes
  <2>1. i - 1 \in 0 .. Len(sent) /\ i \in 0 .. Len(sent)  BY <1>4
  <2>2. at[i] = HeaderLen + p[i] /\ at[i - 1] = HeaderLen + p[i - 1]  BY <1>8, <2>1
  <2>3. p[i] \in Nat /\ p[i - 1] \in Nat  BY <1>7, <2>1
  <2>4. p[i] = p[i - 1] + Len(bs[i]) /\ p[i] <= Len(body) /\ SubSeq(body, p[i - 1] + 1, p[i]) = bs[i]
    BY <1>5, <1>7 DEF Pieces
  <2>5. at[i] <= Len(raw)
    <3> HIDE DEF raw
    <3> QED BY <1>2, <1>9, <2>2, <2>3, <2>4 DEF HeaderLen
  <2>6. Min({at[i], Len(raw)}) = at[i]
    <3> HIDE DEF raw
    <3>1. at[i] \in Int /\ Len(raw) \in Int
      <4>1. at[i] \in Nat  BY <1>8, <2>1
      <4> QED BY <1>9, <4>1
    <3> QED BY <2>5, <3>1, MinOfTwo
  <2>7. Slice(raw, at[i - 1], at[i]) = SubSeq(raw, at[i - 1] + 1, at[i])
    <3> HIDE DEF raw
    <3> QED BY <2>6, Zenon DEF Slice
  <2>8. SubSeq(raw, at[i - 1] + 1, at[i]) = SubSeq(body \o zs, p[i - 1] + 1, p[i])
    <3>1. \A m \in Nat \ {0}, n \in Nat : n <= Len(body \o zs) =>
             SubSeq(hdr \o (body \o zs), Len(hdr) + m, Len(hdr) + n) = SubSeq(body \o zs, m, n)
      <4> HIDE DEF hdr
      <4>1. body \o zs \in Seq(Nat) /\ hdr \in Seq(Nat)  BY <1>2, <1>3
      <4> QED BY <4>1, SubOfRight
    <3>2. p[i - 1] + 1 \in Nat \ {0} /\ p[i] \in Nat /\ p[i] <= Len(body \o zs)
      <4>1. Len(body) <= Len(body \o zs) /\ Len(body \o zs) \in Nat /\ Len(body) \in Nat
        BY <1>2
      <4>2. p[i] <= Len(body)  BY <2>4
      <4>3. p[i] <= Len(body \o zs)  BY <2>3, <4>1, <4>2
      <4> QED BY <2>3, <4>3
    <3>3. Len(hdr) + (p[i - 1] + 1) = at[i - 1] + 1 /\ Len(hdr) + p[i] = at[i]
      <4> HIDE DEF hdr
      <4> QED BY <1>3, <2>2, <2>3 DEF HeaderLen
    <3> HIDE DEF hdr, raw
    <3> QED BY <1>1, <3>1, <3>2, <3>3, Zenon
  <2>9. SubSeq(body \o zs, p[i - 1] + 1, p[i]) = SubSeq(body, p[i - 1] + 1, p[i])
    <3>1. \A m \in Nat \ {0}, n \in Nat : n <= Len(body) =>
             SubSeq(body \o zs, m, n) = SubSeq(body, m, n)
      BY <1>1, SubOfLeft
    <3>2. p[i - 1] + 1 \in Nat \ {0} /\ p[i] \in Nat /\ p[i] <= Len(body)
      BY <2>3, <2>4
    <3> QED BY <3>1, <3>2, Zenon
  <2>10. Slice(raw, at[i - 1], at[i]) = sent[i].bytes
    <3> HIDE DEF raw
    <3> QED BY <1>5, <2>4, <2>7, <2>8, <2>9
  <2>11. at[i] = at[i - 1] + Len(sent[i].bytes)
    <3>1. bs[i] \in Seq(Nat)  BY <1>5
    <3>2. Len(bs[i]) \in Nat /\ bs[i] = sent[i].bytes  BY <1>5, <3>1, LenProperties
    <3> QED BY <3>2, <1>5, <2>2, <2>3, <2>4, <3>1 DEF HeaderLen
  <2> QED BY <2>5, <2>10, <2>11
<1> HIDE DEF raw
<1>12. Lies(sent, at, raw, pad)  BY <1>10, <1>11 DEF Lies
<1> QED BY <1>8, <1>12 DEF raw

-----------------------------------------------------------------------------
(***************************************************************************)
(* The parser's turns.  After each field it is where the next value is, or *)
(* past the end of the record.                                             *)
(***************************************************************************)

\* What the parser takes the value at i for, how many bytes more it makes the
\* next field.
Value(fs, sent, i) == IF fs[i].isFiltered THEN sent[i].shown ELSE None
More(fs, sent, i)  == IF i > 0 /\ IsLength(fs[i]) /\ Value(fs, sent, i)[1] = "int"
                        THEN Value(fs, sent, i)[2] ELSE 0

LEMMA ShownType ==
    ASSUME NEW v \in Showns
    PROVE  v # Raised /\ (v[1] = "int" => v[2] \in Nat)
<1>1. CASE v \in {"int"} \X Nat  BY <1>1 DEF Raised
<1>2. CASE v \in {"0x", "digits", "text"} \X Seq(Nat)  BY <1>2 DEF Raised
<1>3. CASE v \in {None, null}  BY <1>3 DEF Raised, None, null
<1> QED BY <1>1, <1>2, <1>3 DEF Showns

LEMMA MoreType ==
    ASSUME NEW fs \in Seq(Fields), NEW sent \in Seq(Parts), NEW i \in 0 .. Len(sent)
    PROVE  More(fs, sent, i) \in Nat
<1>1. CASE i = 0  BY <1>1 DEF More
<1>2. CASE i # 0
  <2>1. i \in 1 .. Len(sent)  BY <1>2
  <2>2. sent[i].shown \in Showns
    <3>1. sent[i] \in Parts  BY <2>1
    <3> QED BY <3>1 DEF Parts
  <2>3. Value(fs, sent, i) \in Showns  BY <2>2 DEF Value, Showns
  <2>4. Value(fs, sent, i)[1] = "int" => Value(fs, sent, i)[2] \in Nat  BY <2>3, ShownType
  <2> QED BY <2>4 DEF More
<1> QED BY <1>1, <1>2

LEMMA MoreIsTold ==
    ASSUME NEW event, event.fields \in Seq(Fields), NEW sent, NEW pad,
           AsSaid(event, sent, pad), LengthsRead(event, sent), NEW i \in 1 .. Len(sent)
    PROVE  More(event.fields, sent, i - 1) = Told(event.fields, sent, i)
<1> DEFINE fs == event.fields
<1>0. /\ sent \in Seq(Parts) /\ Len(sent) <= Len(fs) /\ i \in DOMAIN sent
      /\ sent[i].bytes \in Seq(Nat) /\ Len(sent) \in Nat
  <2>1. sent \in Seq(Parts) /\ Len(sent) <= Len(fs)  BY DEF AsSaid
  <2>2. sent[i] \in Parts  BY <2>1
  <2> QED BY <2>1, <2>2 DEF Parts
<1>1. /\ Len(sent[i].bytes) = fs[i].fieldLen + Told(fs, sent, i)
      /\ i > 1 /\ IsLength(fs[i - 1]) => fs[i].isVarLenParam
  BY <1>0 DEF AsSaid
<1>2. fs[i].fieldLen \in Nat
  <2>1. i \in 1 .. Len(fs)
    <3>1. Len(fs) \in Nat  OBVIOUS
    <3> QED BY <1>0, <3>1
  <2>2. fs[i] \in Fields  BY <2>1
  <2> QED BY <2>2 DEF Fields
<1>3. CASE i = 1  BY <1>3 DEF More, Told
<1>4. CASE i > 1 /\ ~fs[i].isVarLenParam  BY <1>1, <1>4 DEF More, Told
<1>5. CASE i > 1 /\ fs[i].isVarLenParam
  <2> DEFINE v == sent[i - 1].shown
  <2>1. i - 1 \in 1 .. Len(sent)  BY <1>5
  <2>2. v \in Showns /\ (v[1] = "int" => v[2] \in Nat)
    <3>1. sent[i - 1] \in Parts  BY <1>0, <2>1
    <3>2. v \in Showns  BY <3>1 DEF Parts
    <3> QED BY <3>2, ShownType
  <2>3. Value(fs, sent, i - 1) = IF fs[i - 1].isFiltered THEN v ELSE None  BY DEF Value
  <2>4. None[1] # "int"  BY DEF None
  <2>5. Told(fs, sent, i) = IF v[1] = "int" THEN v[2] ELSE 0  BY <1>5 DEF Told
  <2>6. More(fs, sent, i - 1)
          = IF IsLength(fs[i - 1]) /\ fs[i - 1].isFiltered /\ v[1] = "int" THEN v[2] ELSE 0
    BY <2>1, <2>3, <2>4 DEF More
  <2> HIDE DEF v
  <2>7. CASE sent[i].bytes = <<>>
    <3>1. Len(sent[i].bytes) = 0  BY <2>7
    <3>2. Told(fs, sent, i) = 0  BY <1>1, <1>2, <2>2, <2>5, <3>1
    <3> QED BY <2>5, <2>6, <3>2
  <2>8. CASE sent[i].bytes # <<>>
    <3>1. fs[i - 1].isFiltered /\ IsLength(fs[i - 1])  BY <1>0, <1>5, <2>8 DEF LengthsRead
    <3> QED BY <2>5, <2>6, <3>1
  <2> QED BY <2>7, <2>8
<1> QED BY <1>3, <1>4, <1>5

\* The values kept of the first i fields, and the result so far.
Kinds(fs, sent, i) == {k \in 1 .. i : Value(fs, sent, k) # None}
Values(fs, sent, i) ==
    [nm \in {fs[k].fieldName : k \in Kinds(fs, sent, i)} |->
        Value(fs, sent, Max({k \in Kinds(fs, sent, i) : fs[k].fieldName = nm}))]

LEMMA ValuesStep ==
    ASSUME NEW fs, NEW sent, NEW i \in Nat \ {0}
    PROVE  Values(fs, sent, i)
             = IF Value(fs, sent, i) = None THEN Values(fs, sent, i - 1)
               ELSE Set(Values(fs, sent, i - 1), fs[i].fieldName, Value(fs, sent, i))
<1> DEFINE K == Kinds(fs, sent, i - 1)
           L == Kinds(fs, sent, i)
           N(I) == {fs[k].fieldName : k \in I}
           V(I) == [nm \in N(I) |-> Value(fs, sent, Max({k \in I : fs[k].fieldName = nm}))]
<1>1. Values(fs, sent, i) = V(L) /\ Values(fs, sent, i - 1) = V(K)  BY DEF Values
<1>2. L = IF Value(fs, sent, i) = None THEN K ELSE K \cup {i}  BY DEF Kinds
<1>3. \A k \in K : k \in Nat /\ k < i  BY DEF Kinds
<1> HIDE DEF K, L
<1>4. CASE Value(fs, sent, i) = None  BY <1>1, <1>2, <1>4
<1>5. CASE Value(fs, sent, i) # None
  <2> DEFINE n == fs[i].fieldName
             v == Value(fs, sent, i)
  <2>1. L = K \cup {i}  BY <1>2, <1>5
  <2>2. Set(V(K), n, v) = [nm \in N(K) \cup {n} |-> IF nm = n THEN v ELSE V(K)[nm]]
    BY DEF Set
  <2>3. N(L) = N(K) \cup {n}  BY <2>1
  <2>4. ASSUME NEW nm \in N(L)
        PROVE  Value(fs, sent, Max({k \in L : fs[k].fieldName = nm}))
                 = IF nm = n THEN v ELSE V(K)[nm]
    <3>1. CASE nm = n
      <4> DEFINE M == {k \in L : fs[k].fieldName = n}
      <4>1. i \in M /\ \A k \in M : k <= i /\ k \in Nat  BY <1>3, <2>1
      <4> HIDE DEF M
      <4>2. Max(M) = i
        <5>1. \A k \in M : i >= k  BY <4>1
        <5>2. Max(M) \in M /\ \A k \in M : Max(M) >= k  BY <4>1, <5>1, Zenon DEF Max
        <5>3. Max(M) <= i /\ Max(M) >= i /\ Max(M) \in Nat  BY <4>1, <5>2
        <5> QED BY <5>3
      <4> QED BY <3>1, <4>2 DEF M
    <3>2. CASE nm # n
      <4>1. {k \in L : fs[k].fieldName = nm} = {k \in K : fs[k].fieldName = nm}
        BY <2>1, <3>2
      <4>2. nm \in N(K)  BY <2>3, <3>2
      <4> QED BY <3>2, <4>1, <4>2
    <3> QED BY <3>1, <3>2
  <2>5. V(L) = Set(V(K), n, v)
    <3>1. V(L) = [nm \in N(L) |-> IF nm = n THEN v ELSE V(K)[nm]]
      BY <2>4, Zenon
    <3> HIDE DEF V, N, n, v
    <3> QED BY <2>2, <2>3, <3>1
  <2> QED BY <1>1, <1>5, <2>5
<1> QED BY <1>4, <1>5

Reading(a, m, r)   == [stop |-> "no", offset |-> a, nvl |-> m, result |-> r]
GivenUp(a, m, r) == [stop |-> "end", offset |-> a, nvl |-> m, result |-> r]

\* A turn that takes v for the value of f, from a to b.
Turn(a, m, r, f, raw, v, b, l, q) ==
    /\ a \in Nat /\ m \in Nat /\ f \in Fields /\ b = a + f.fieldLen + m /\ b < Len(raw)
    /\ v # Raised /\ decodeField(Slice(raw, a, b), f, TRUE) = v
    /\ l = IF IsLength(f) /\ v[1] = "int" THEN v[2] ELSE 0
    /\ q = IF v = None THEN r ELSE Set(r, f.fieldName, v)

Turns(a, m, r, f, raw, b, l, q) ==
    parseField(Reading(a, m, r), f, raw, TRUE) = Reading(b, l, q)

LEMMA FieldParsed ==
    ASSUME NEW a, NEW m, NEW r, NEW f, NEW raw, NEW v, NEW b, NEW l, NEW q,
           Turn(a, m, r, f, raw, v, b, l, q), Len(raw) \in Nat
    PROVE  Turns(a, m, r, f, raw, b, l, q)
<1>0. PICK st : st = Reading(a, m, r)  BY Zenon
<1>t. /\ a \in Nat /\ m \in Nat /\ f \in Fields /\ b = a + f.fieldLen + m /\ b < Len(raw)
      /\ v # Raised /\ decodeField(Slice(raw, a, b), f, TRUE) = v
      /\ l = IF IsLength(f) /\ v[1] = "int" THEN v[2] ELSE 0
      /\ q = IF v = None THEN r ELSE Set(r, f.fieldName, v)
  BY DEF Turn
<1>1. st.offset = a /\ st.nvl = m /\ st.stop = "no" /\ st.result = r
  BY <1>0 DEF Reading
<1>2. ~(b >= Len(raw))
  <2>1. b \in Int  BY <1>t DEF Fields
  <2> QED BY <1>t, <2>1
<1>3. parseField(st, f, raw, TRUE)
        = [stop |-> "no", offset |-> b,
           nvl |-> IF IsLength(f) /\ v[1] = "int" THEN v[2] ELSE 0,
           result |-> IF v = None THEN st.result ELSE Set(st.result, f.fieldName, v)]
  <2>1. st.offset + f.fieldLen + st.nvl = b  BY <1>1, <1>t
  <2> QED BY <1>1, <1>2, <1>t, <2>1, Zenon DEF parseField
<1>4. parseField(st, f, raw, TRUE) = Reading(b, l, q)
  BY <1>1, <1>3, <1>t, Zenon DEF Reading
<1> QED BY <1>0, <1>4 DEF Turns

LEMMA FieldGivenUp ==
    ASSUME NEW a \in Nat, NEW m \in Nat, NEW r, NEW f, NEW raw,
           a + f.fieldLen + m >= Len(raw)
    PROVE  parseField(Reading(a, m, r), f, raw, TRUE) = GivenUp(a, m, r)
<1>0. PICK st : st = Reading(a, m, r)  BY Zenon
<1>1. st.offset = a /\ st.nvl = m /\ st.stop = "no"  BY <1>0 DEF Reading
<1>2. parseField(st, f, raw, TRUE) = [st EXCEPT !.stop = "end"]
  BY <1>1, Zenon DEF parseField
<1>3. [st EXCEPT !.stop = "end"] = GivenUp(a, m, r)  BY <1>0 DEF Reading, GivenUp
<1> QED BY <1>0, <1>2, <1>3, Zenon

LEMMA FieldPassed ==
    ASSUME NEW a, NEW m, NEW r, NEW f, NEW raw
    PROVE  parseField(GivenUp(a, m, r), f, raw, TRUE) = GivenUp(a, m, r)
<1>0. PICK st : st = GivenUp(a, m, r)  BY Zenon
<1>1. st.stop # "no"  BY <1>0 DEF GivenUp
<1> QED BY <1>0, <1>1, Zenon DEF parseField

LEMMA Decoded ==
    ASSUME NEW raw, NEW f
    PROVE  decodeField(raw, f, TRUE) = IF f.isFiltered THEN decodeField(raw, f, FALSE) ELSE None
  BY DEF decodeField

\* The parser finds its place, up to where the record ends.
LEMMA FieldsParsed ==
    ASSUME NEW event, event.fields \in Seq(Fields), NEW sent, NEW pad \in Nat,
           AsSaid(event, sent, pad), LengthsRead(event, sent),
           NEW raw, NEW at \in [0 .. Len(sent) -> Nat], Lies(sent, at, raw, pad),
           Len(raw) \in Nat
    PROVE  \E m \in 0 .. Len(sent) :
              /\ \A k \in 1 .. Len(sent) : k <= m <=> at[k] < Len(raw)
              /\ parseFields(event.fields, raw, TRUE).stop # "raised"
              /\ parseFields(event.fields, raw, TRUE).result = Values(event.fields, sent, m)
<1> DEFINE fs == event.fields
           n  == Len(sent)
           L  == Len(raw)
           T  == {k \in 0 .. n : k = n \/ at[k + 1] >= L}
<1>0. /\ sent \in Seq(Parts) /\ n <= Len(fs) /\ n \in Nat /\ Len(fs) \in Nat
      /\ n < Len(fs) => pad <= fs[n + 1].fieldLen
  <2>1. sent \in Seq(Parts) /\ n <= Len(fs) /\ (n < Len(fs) => pad <= fs[n + 1].fieldLen)
    BY DEF AsSaid
  <2> QED BY <2>1
<1>f. \A i \in 1 .. Len(fs) : fs[i] \in Fields /\ fs[i].fieldLen \in Nat
  <2>1. \A i \in 1 .. Len(fs) : fs[i] \in Fields  OBVIOUS
  <2> QED BY <2>1 DEF Fields
<1>1. PICK m \in T : \A k \in T : m <= k
  <2>1. T \in SUBSET Nat /\ n \in T  BY <1>0
  <2> HIDE DEF T
  <2> QED BY <2>1, Least
<1>2. /\ m \in 0 .. n /\ (m < n => at[m + 1] >= L)
      /\ \A k \in 1 .. n : k <= m => at[k] < L
  <2>1. m \in 0 .. n /\ (m < n => at[m + 1] >= L)  BY <1>1, <1>0
  <2>2. ASSUME NEW k \in 1 .. n, k <= m PROVE at[k] < L
    <3>1. k - 1 \in 0 .. n /\ k - 1 < m /\ (k - 1) + 1 = k  BY <1>0, <2>1, <2>2
    <3>2. k - 1 \notin T
      <4> HIDE DEF T
      <4> QED BY <1>1, <2>1, <3>1
    <3>3. ~(at[k] >= L)  BY <3>1, <3>2
    <3>4. at[k] \in Nat  BY <1>0
    <3> QED BY <3>3, <3>4
  <2> QED BY <2>1, <2>2
<1> HIDE DEF T
<1>3. \A i \in 1 .. n : /\ at[i] = at[i - 1] + Len(sent[i].bytes) /\ at[i] \in Nat
                        /\ at[i - 1] \in Nat /\ Len(sent[i].bytes) \in Nat
                        /\ Slice(raw, at[i - 1], at[i]) = sent[i].bytes
  <2> TAKE i \in 1 .. n
  <2>1. at[i] = at[i - 1] + Len(sent[i].bytes) /\ Slice(raw, at[i - 1], at[i]) = sent[i].bytes
    BY DEF Lies
  <2>2. at[i] \in Nat /\ at[i - 1] \in Nat  BY <1>0
  <2>3. sent[i] \in Parts  BY <1>0
  <2>4. Len(sent[i].bytes) \in Nat  BY <2>3 DEF Parts
  <2> QED BY <2>1, <2>2, <2>4
<1>4. \A k \in 1 .. n : k <= m <=> at[k] < L
  <2> DEFINE U == {j \in Nat : m + 1 + j <= n => at[m + 1 + j] >= L}
  <2>1. 0 \in U  BY <1>0, <1>2
  <2>2. ASSUME NEW j \in Nat, j \in U PROVE j + 1 \in U
    <3>1. CASE m + 1 + (j + 1) <= n
      <4>1. PICK k \in 1 .. n : k = m + 1 + (j + 1) /\ k - 1 = m + 1 + j  BY <1>0, <1>2, <3>1
      <4>2. at[k - 1] >= L  BY <2>2, <3>1, <4>1, <1>0, <1>2
      <4>3. at[k] = at[k - 1] + Len(sent[k].bytes) /\ at[k - 1] \in Nat /\ Len(sent[k].bytes) \in Nat
        BY <1>3
      <4>4. at[k] >= L
        <5> HIDE DEF L
        <5>1. L \in Nat  BY DEF L
        <5> QED BY <4>2, <4>3, <5>1
      <4> QED BY <4>1, <4>4
    <3> QED BY <3>1
  <2> HIDE DEF U
  <2>3. Nat \subseteq U  BY <2>1, <2>2, Successors
  <2>4. ASSUME NEW k \in 1 .. n, k > m PROVE at[k] >= L
    <3>1. k - m - 1 \in Nat /\ m + 1 + (k - m - 1) = k  BY <1>0, <1>2, <2>4
    <3>2. k - m - 1 \in U  BY <2>3, <3>1
    <3> QED BY <3>1, <3>2 DEF U
  <2>5. ASSUME NEW k \in 1 .. n PROVE k <= m <=> at[k] < L
    <3>1. at[k] \in Nat  BY <1>3
    <3> QED BY <1>2, <2>4, <3>1
  <2> QED BY <2>5
<1>5. ASSUME NEW i \in 1 .. n
      PROVE  /\ at[i] = at[i - 1] + fs[i].fieldLen + More(fs, sent, i - 1)
             /\ decodeField(sent[i].bytes, fs[i], TRUE) = Value(fs, sent, i)
             /\ Value(fs, sent, i) # Raised
             /\ More(fs, sent, i - 1) \in Nat
  <2>1. i \in DOMAIN sent  BY <1>0
  <2>2. /\ sent[i].shown = decodeField(sent[i].bytes, fs[i], FALSE)
        /\ Len(sent[i].bytes) = fs[i].fieldLen + Told(fs, sent, i)
    BY <2>1 DEF AsSaid
  <2>3. More(fs, sent, i - 1) = Told(fs, sent, i)  BY MoreIsTold
  <2>4. More(fs, sent, i - 1) \in Nat
    <3>1. i - 1 \in 0 .. n  BY <1>0
    <3> QED BY <1>0, <3>1, MoreType
  <2>5. fs[i].fieldLen \in Nat  BY <1>0, <1>f
  <2>6. decodeField(sent[i].bytes, fs[i], TRUE) = Value(fs, sent, i)
    BY <2>2, Decoded DEF Value
  <2>7. Value(fs, sent, i) # Raised
    <3>1. sent[i] \in Parts  BY <1>0
    <3>2. Value(fs, sent, i) \in Showns  BY <3>1 DEF Parts, Value, Showns
    <3> QED BY <3>2, ShownType
  <2>8. at[i] = at[i - 1] + Len(sent[i].bytes) /\ at[i - 1] \in Nat  BY <1>3
  <2>9. at[i] = at[i - 1] + fs[i].fieldLen + More(fs, sent, i - 1)
    <3> HIDE DEF fs
    <3> QED BY <2>2, <2>3, <2>4, <2>5, <2>8
  <2> QED BY <2>4, <2>6, <2>7, <2>9
<1> DEFINE st0 == [stop |-> "no", offset |-> HeaderLen, nvl |-> 0, result |-> <<>>]
           Live(i) == Reading(at[i], More(fs, sent, i), Values(fs, sent, i))
           E(i) == IF i <= m THEN Live(i)
                   ELSE GivenUp(at[m], More(fs, sent, m), Values(fs, sent, m))
           Is(e) == e = [i \in 0 .. Len(fs) |->
                           IF i = 0 THEN st0
                           ELSE parseField(e[i - 1], fs[i], raw, TRUE)]
           h == CHOOSE e : Is(e)
           f == [i \in 0 .. Len(fs) |-> E(i)]
<1>6. Live(0) = st0
  <2>1. at[0] = HeaderLen  BY DEF Lies
  <2>2. More(fs, sent, 0) = 0  BY DEF More
  <2>3. Values(fs, sent, 0) = <<>>
    <3>1. Kinds(fs, sent, 0) = {}  BY DEF Kinds
    <3> QED BY <3>1 DEF Values
  <2> QED BY <2>1, <2>2, <2>3 DEF Reading
<1>7. ASSUME NEW i \in 1 .. Len(fs)
      PROVE  E(i) = parseField(E(i - 1), fs[i], raw, TRUE)
  <2>1. CASE i <= m
    <3> DEFINE v == Value(fs, sent, i)
    <3>1. i \in 1 .. n /\ i - 1 <= m /\ i \in Nat \ {0}  BY <1>0, <1>2, <2>1
    <3>2. E(i - 1) = Live(i - 1) /\ E(i) = Live(i)  BY <2>1, <3>1
    <3>3. at[i] < L  BY <1>2, <2>1, <3>1
    <3>4. decodeField(Slice(raw, at[i - 1], at[i]), fs[i], TRUE) = v /\ v # Raised
      BY <1>3, <1>5, <3>1
    <3>5. parseField(Live(i - 1), fs[i], raw, TRUE)
            = Reading(at[i], IF IsLength(fs[i]) /\ v[1] = "int" THEN v[2] ELSE 0,
                 IF v = None THEN Values(fs, sent, i - 1)
                 ELSE Set(Values(fs, sent, i - 1), fs[i].fieldName, v))
      <4>1. /\ at[i] = at[i - 1] + fs[i].fieldLen + More(fs, sent, i - 1)
            /\ at[i - 1] \in Nat /\ More(fs, sent, i - 1) \in Nat /\ fs[i] \in Fields
        BY <1>3, <1>5, <1>f, <3>1
      <4>2. at[i] < Len(raw)  BY <3>3
      <4>3. PICK l, q : /\ l = IF IsLength(fs[i]) /\ v[1] = "int" THEN v[2] ELSE 0
                        /\ q = IF v = None THEN Values(fs, sent, i - 1)
                              ELSE Set(Values(fs, sent, i - 1), fs[i].fieldName, v)
        <5> HIDE DEF v
        <5> QED BY Zenon
      <4> HIDE DEF v, fs, L, n
      <4>4. parseField(Live(i - 1), fs[i], raw, TRUE) = Reading(at[i], l, q)
        <5>1. Turn(at[i - 1], More(fs, sent, i - 1), Values(fs, sent, i - 1), fs[i], raw, v,
                   at[i], l, q)
          BY <3>4, <4>1, <4>2, <4>3, Zenon DEF Turn
        <5>2. parseField(Reading(at[i - 1], More(fs, sent, i - 1), Values(fs, sent, i - 1)), fs[i], raw, TRUE)
                = Reading(at[i], l, q)
          <6>1. Turns(at[i - 1], More(fs, sent, i - 1), Values(fs, sent, i - 1), fs[i], raw,
                      at[i], l, q)
            BY <5>1, FieldParsed
          <6> QED BY <6>1 DEF Turns
        <5> QED BY <5>2 DEF Live
      <4> QED BY <4>3, <4>4
    <3>6. Values(fs, sent, i) = IF v = None THEN Values(fs, sent, i - 1)
                                ELSE Set(Values(fs, sent, i - 1), fs[i].fieldName, v)
      BY <3>1, ValuesStep
    <3>7. More(fs, sent, i) = IF IsLength(fs[i]) /\ v[1] = "int" THEN v[2] ELSE 0
      BY <3>1 DEF More
    <3> HIDE DEF v, fs
    <3> QED BY <3>2, <3>5, <3>6, <3>7
  <2>2. CASE i = m + 1
    <3>1. E(i - 1) = Live(m) /\ E(i) = GivenUp(at[m], More(fs, sent, m), Values(fs, sent, m))
      BY <1>2, <2>2
    <3>2. at[m] \in Nat /\ More(fs, sent, m) \in Nat /\ fs[i] \in Fields /\ fs[i].fieldLen \in Nat
      <4>1. More(fs, sent, m) \in Nat  BY <1>0, <1>2, MoreType
      <4> QED BY <1>2, <1>f, <4>1
    <3>3. at[m] + fs[i].fieldLen + More(fs, sent, m) >= L
      <4>1. CASE m < n
        <5>1. i \in 1 .. n /\ i - 1 = m  BY <1>0, <1>2, <2>2, <4>1
        <5>2. at[i] = at[m] + fs[i].fieldLen + More(fs, sent, m)  BY <1>5, <5>1
        <5> QED BY <1>2, <2>2, <4>1, <5>2
      <4>2. CASE m = n
        <5>1. n < Len(fs) /\ i = n + 1  BY <1>0, <2>2, <4>2
        <5>2. pad <= fs[i].fieldLen  BY <1>0, <5>1
        <5>3. L = at[m] + pad  BY <4>2 DEF Lies
        <5> HIDE DEF fs, L
        <5> QED BY <3>2, <5>2, <5>3
      <4> QED BY <1>0, <1>2, <4>1, <4>2
    <3>4. parseField(Live(m), fs[i], raw, TRUE) = GivenUp(at[m], More(fs, sent, m), Values(fs, sent, m))
      <4> HIDE DEF fs
      <4> QED BY <3>2, <3>3, FieldGivenUp
    <3> HIDE DEF E, Live
    <3> QED BY <3>1, <3>4
  <2>3. CASE i > m + 1
    <3>1. /\ E(i - 1) = GivenUp(at[m], More(fs, sent, m), Values(fs, sent, m))
          /\ E(i) = GivenUp(at[m], More(fs, sent, m), Values(fs, sent, m))
      BY <1>0, <1>2, <2>3
    <3> HIDE DEF E
    <3> QED BY <3>1, FieldPassed
  <2>4. i <= m \/ i = m + 1 \/ i > m + 1
    <3>1. i \in Nat /\ m \in Nat  BY <1>0, <1>2
    <3> HIDE DEF E, fs
    <3> QED BY <3>1
  <2> HIDE DEF E, fs
  <2> QED BY <2>1, <2>2, <2>3, <2>4, Zenon
<1>8. E(0) = Live(0)  BY <1>2
<1> HIDE DEF E, Live
<1>9. Is(f)
  <2>1. \A i \in 0 .. Len(fs) :
           E(i) = IF i = 0 THEN st0
                  ELSE parseField(f[i - 1], fs[i], raw, TRUE)
    <3> TAKE i \in 0 .. Len(fs)
    <3>1. CASE i = 0  BY <3>1, <1>6, <1>8
    <3>2. CASE i # 0
      <4>1. i \in 1 .. Len(fs) /\ i - 1 \in 0 .. Len(fs)  BY <1>0, <3>2
      <4>2. f[i - 1] = E(i - 1)  BY <4>1
      <4> HIDE DEF f
      <4> QED BY <1>7, <3>2, <4>1, <4>2
    <3> QED BY <3>1, <3>2
  <2>2. f = [i \in 0 .. Len(fs) |->
                IF i = 0 THEN st0
                ELSE parseField(f[i - 1], fs[i], raw, TRUE)]
    BY <2>1, Zenon
  <2> HIDE DEF f
  <2> QED BY <2>2
<1>10. Is(h)
  <2> HIDE DEF Is, f
  <2> QED BY <1>9, Zenon
<1>11. parseFields(fs, raw, TRUE) = h[Len(fs)]  BY Zenon DEF parseFields
<1>12. h = [i \in 0 .. Len(fs) |-> IF i = 0 THEN st0 ELSE parseField(h[i - 1], fs[i], raw, TRUE)]
  <2> HIDE DEF h
  <2> QED BY <1>10, Zenon
<1> HIDE DEF h, Is, f, st0
<1> DEFINE U == {i \in Nat : i <= Len(fs) => h[i] = E(i)}
<1>13. 0 \in U
  <2>1. h[0] = st0  BY <1>0, <1>12
  <2> QED BY <1>6, <1>8, <2>1 DEF st0
<1>14. ASSUME NEW i \in Nat, i \in U PROVE i + 1 \in U
  <2>1. CASE i + 1 <= Len(fs)
    <3>1. i + 1 \in 0 .. Len(fs) /\ i + 1 # 0 /\ (i + 1) - 1 = i /\ i + 1 \in 1 .. Len(fs)
      BY <1>0, <2>1
    <3>2. h[i + 1] = parseField(h[i], fs[i + 1], raw, TRUE)  BY <1>12, <3>1
    <3>3. h[i] = E(i)
      <4>1. i <= Len(fs)  BY <1>0, <2>1
      <4> QED BY <1>14, <4>1
    <3>4. E(i + 1) = parseField(E((i + 1) - 1), fs[i + 1], raw, TRUE)  BY <1>7, <3>1
    <3>5. h[i + 1] = E(i + 1)  BY <3>1, <3>2, <3>3, <3>4
    <3> HIDE DEF fs
    <3> QED BY <3>5
  <2> QED BY <2>1
<1> HIDE DEF U
<1>15. Nat \subseteq U  BY <1>13, <1>14, Successors
<1>16. h[Len(fs)] = E(Len(fs))
  <2>1. Len(fs) \in U /\ Len(fs) <= Len(fs)  BY <1>0, <1>15
  <2> QED BY <2>1 DEF U
<1>17. /\ E(Len(fs)).stop # "raised"
       /\ E(Len(fs)).result = Values(fs, sent, m)
  <2>1. CASE Len(fs) <= m
    <3>1. m = Len(fs)  BY <1>0, <1>2, <2>1
    <3>2. E(Len(fs)) = Reading(at[m], More(fs, sent, m), Values(fs, sent, m))
      BY <2>1, <3>1 DEF E, Live
    <3> QED BY <3>2 DEF Reading
  <2>2. CASE ~(Len(fs) <= m)
    <3>1. E(Len(fs)) = GivenUp(at[m], More(fs, sent, m), Values(fs, sent, m))
      BY <2>2 DEF E
    <3> QED BY <3>1 DEF GivenUp
  <2> QED BY <2>1, <2>2
<1> HIDE DEF fs, n, L
<1>18. parseFields(fs, raw, TRUE).stop # "raised" /\ parseFields(fs, raw, TRUE).result = Values(fs, sent, m)
  BY <1>11, <1>16, <1>17
<1> QED BY <1>2, <1>4, <1>18 DEF fs, n, L

-----------------------------------------------------------------------------
(***************************************************************************)
(* The keys, which are taken out of what it has read.                      *)
(***************************************************************************)

\* What the keys leave of a result, and their values.
Left(result, ks, i) == [n \in DOMAIN result \ {ks[j] : j \in 1 .. i} |-> result[n]]
Taken(result, ks, i) ==
    [j \in 1 .. i |-> IF ks[j] \in DOMAIN result THEN result[ks[j]] ELSE missing]
Apart(ks) == \A i, j \in 1 .. Len(ks) : ks[i] = ks[j] => i = j

LEMMA TakenLength ==
    ASSUME NEW result, NEW ks, NEW i \in Nat
    PROVE  /\ Taken(result, ks, i) \in Seq(Range(result) \cup {missing})
           /\ Len(Taken(result, ks, i)) = i
<1> DEFINE t == Taken(result, ks, i)
           S == Range(result) \cup {missing}
<1>1. t \in [1 .. i -> S]  BY DEF Taken, Range
<1>2. DOMAIN t = 1 .. i  BY DEF Taken
<1> HIDE DEF t, S
<1>3. t \in Seq(S)  BY <1>1, SeqDef
<1>4. Len(t) \in Nat /\ DOMAIN t = 1 .. Len(t)  BY <1>3, LenProperties
<1>5. Len(t) = i  BY <1>2, <1>4
<1> QED BY <1>3, <1>5 DEF t, S

LEMMA KeyTaken ==
    ASSUME NEW result, NEW ks, Apart(ks), Len(ks) \in Nat, NEW i \in 1 .. Len(ks)
    PROVE  takeKey([keys |-> Taken(result, ks, i - 1), result |-> Left(result, ks, i - 1)], ks[i])
             = [keys |-> Taken(result, ks, i), result |-> Left(result, ks, i)]
<1> DEFINE k   == ks[i]
           old == Left(result, ks, i - 1)
           val == IF k \in DOMAIN result THEN result[k] ELSE missing
           t   == Taken(result, ks, i - 1)
           S   == Range(result) \cup {missing}
<1>0. i \in Nat \ {0} /\ i - 1 \in Nat  OBVIOUS
<1>1. k \notin {ks[j] : j \in 1 .. i - 1}
  <2>1. \A j \in 1 .. i - 1 : ks[j] # ks[i]  BY DEF Apart
  <2> QED BY <2>1
<1>2. DOMAIN old = DOMAIN result \ {ks[j] : j \in 1 .. i - 1}  BY DEF Left
<1>3. k \in DOMAIN old <=> k \in DOMAIN result  BY <1>1, <1>2
<1>4. \A n \in DOMAIN old : old[n] = result[n]  BY <1>2 DEF Left
<1>5. (IF k \in DOMAIN old THEN old[k] ELSE missing) = val  BY <1>3, <1>4
<1>6. Pop(old, k) = Left(result, ks, i)
  <2>1. DOMAIN old \ {k} = DOMAIN result \ {ks[j] : j \in 1 .. i}
    <3>1. {ks[j] : j \in 1 .. i} = {ks[j] : j \in 1 .. i - 1} \cup {k}
      <4>1. 1 .. i = (1 .. i - 1) \cup {i}  BY <1>0
      <4> QED BY <4>1
    <3> HIDE DEF old, k
    <3> QED BY <1>2, <3>1
  <2>2. [n \in DOMAIN old \ {k} |-> old[n]] = [n \in DOMAIN old \ {k} |-> result[n]]
    <3> HIDE DEF old, k
    <3> QED BY <1>4
  <2> HIDE DEF old, k
  <2> QED BY <2>1, <2>2, Zenon DEF Pop, Left
<1>7. Append(t, val) = Taken(result, ks, i)
  <2>1. t \in Seq(S) /\ Len(t) = i - 1  BY <1>0, TakenLength
  <2>2. Taken(result, ks, i) \in Seq(S) /\ Len(Taken(result, ks, i)) = i  BY <1>0, TakenLength
  <2>3. val \in S
    <3>1. k \in DOMAIN result => result[k] \in Range(result)  BY DEF Range
    <3> QED BY <3>1
  <2>4. \A j \in 1 .. i : Taken(result, ks, i)[j] = IF j = i THEN val ELSE t[j]
    <3>1. \A j \in 1 .. i : Taken(result, ks, i)[j]
             = IF ks[j] \in DOMAIN result THEN result[ks[j]] ELSE missing  BY DEF Taken
    <3>2. \A j \in 1 .. i - 1 : t[j]
             = IF ks[j] \in DOMAIN result THEN result[ks[j]] ELSE missing  BY DEF Taken
    <3>3. \A j \in 1 .. i : j = i \/ j \in 1 .. i - 1  BY <1>0
    <3> HIDE DEF t
    <3> QED BY <3>1, <3>2, <3>3
  <2> HIDE DEF t, val, S
  <2>5. Append(t, val) \in Seq(S) /\ Len(Append(t, val)) = i
    BY <1>0, <2>1, <2>3
  <2>6. \A j \in 1 .. i : Append(t, val)[j] = IF j = i THEN val ELSE t[j]
    BY <1>0, <2>1, <2>3
  <2>7. \A j \in 1 .. i : Append(t, val)[j] = Taken(result, ks, i)[j]  BY <2>4, <2>6
  <2> QED BY <2>2, <2>5, <2>7
<1> DEFINE acc == [keys |-> t, result |-> old]
<1>8. acc.keys = t /\ acc.result = old  OBVIOUS
<1> HIDE DEF acc, t, old
<1>9. takeKey(acc, k) = [keys |-> Append(t, IF k \in DOMAIN old THEN old[k] ELSE missing),
                         result |-> Pop(old, k)]
  BY <1>8, Zenon DEF takeKey
<1>10. takeKey(acc, k) = [keys |-> Taken(result, ks, i), result |-> Left(result, ks, i)]
  <2> HIDE DEF val
  <2> QED BY <1>5, <1>6, <1>7, <1>9
<1> QED BY <1>10 DEF acc, t, old

\* The keys get their values and leave the result.
LEMMA KeysTaken ==
    ASSUME NEW result, NEW ks, Apart(ks), Len(ks) \in Nat,
           result = [n \in DOMAIN result |-> result[n]]
    PROVE  takeKeys(result, ks)
             = [keys |-> Taken(result, ks, Len(ks)), result |-> Left(result, ks, Len(ks))]
<1> DEFINE E(i) == [keys |-> Taken(result, ks, i), result |-> Left(result, ks, i)]
           a == [keys |-> <<>>, result |-> result]
           Is(e) == e = [i \in 0 .. Len(ks) |-> IF i = 0 THEN a ELSE takeKey(e[i - 1], ks[i])]
           h == CHOOSE e : Is(e)
           f == [i \in 0 .. Len(ks) |-> E(i)]
<1>1. E(0) = a
  <2>1. Taken(result, ks, 0) = <<>>
    <3>1. /\ Taken(result, ks, 0) \in Seq(Range(result) \cup {missing})
          /\ Len(Taken(result, ks, 0)) = 0
      BY TakenLength
    <3> QED BY <3>1
  <2>2. Left(result, ks, 0) = [n \in DOMAIN result |-> result[n]]
    <3>1. {ks[j] : j \in 1 .. 0} = {}  OBVIOUS
    <3> QED BY <3>1 DEF Left
  <2> QED BY <2>1, <2>2
<1>2. \A i \in 1 .. Len(ks) : E(i) = takeKey(E(i - 1), ks[i])
  BY KeyTaken
<1> HIDE DEF E, a
<1>3. Is(f)
  <2>1. \A i \in 0 .. Len(ks) : E(i) = IF i = 0 THEN a ELSE takeKey(f[i - 1], ks[i])
    <3> TAKE i \in 0 .. Len(ks)
    <3>1. CASE i # 0
      <4>1. i \in 1 .. Len(ks) /\ i - 1 \in 0 .. Len(ks)  BY <3>1
      <4>2. f[i - 1] = E(i - 1)  BY <4>1
      <4> HIDE DEF f
      <4> QED BY <1>2, <3>1, <4>1, <4>2
    <3> QED BY <1>1, <3>1
  <2>2. f = [i \in 0 .. Len(ks) |-> IF i = 0 THEN a ELSE takeKey(f[i - 1], ks[i])]
    BY <2>1, Zenon
  <2> HIDE DEF f
  <2> QED BY <2>2
<1>4. Is(h)
  <2> HIDE DEF Is, f
  <2> QED BY <1>3, Zenon
<1>5. takeKeys(result, ks) = h[Len(ks)]  BY Zenon DEF takeKeys, a
<1>6. h = [i \in 0 .. Len(ks) |-> IF i = 0 THEN a ELSE takeKey(h[i - 1], ks[i])]
  <2> HIDE DEF h
  <2> QED BY <1>4, Zenon
<1> HIDE DEF h, Is, f
<1> DEFINE U == {i \in Nat : i <= Len(ks) => h[i] = E(i)}
<1>7. 0 \in U
  <2>1. h[0] = a  BY <1>6
  <2> QED BY <1>1, <2>1
<1>8. ASSUME NEW i \in Nat, i \in U PROVE i + 1 \in U
  <2>1. CASE i + 1 <= Len(ks)
    <3>1. /\ i + 1 \in 0 .. Len(ks) /\ i + 1 # 0 /\ (i + 1) - 1 = i /\ i + 1 \in 1 .. Len(ks)
          /\ i <= Len(ks)
      BY <2>1
    <3>2. h[i + 1] = takeKey(h[i], ks[i + 1])  BY <1>6, <3>1
    <3>3. h[i] = E(i)  BY <1>8, <3>1
    <3>4. E(i + 1) = takeKey(E((i + 1) - 1), ks[i + 1])  BY <1>2, <3>1
    <3> QED BY <3>1, <3>2, <3>3, <3>4
  <2> QED BY <2>1
<1> HIDE DEF U
<1>9. Nat \subseteq U  BY <1>7, <1>8, Successors
<1>10. h[Len(ks)] = E(Len(ks))
  <2>1. Len(ks) \in U /\ Len(ks) <= Len(ks)  BY <1>9
  <2> QED BY <2>1 DEF U
<1> QED BY <1>5, <1>10 DEF E

\* The sections that rows may become.
Marks(R)    == {x.name : x \in R}
                 \cup {Append(x.name, 1 + Cardinality(I)) : x \in R, I \in SUBSET Nat}
Sections(R) == {[row |-> x.name, name |-> n, source_event |-> x.source_event,
                 field_s |-> x.field_s, keys |-> DefaultKeys] : x \in R, n \in Marks(R)}

LEMMA AddRowType ==
    ASSUME NEW R, NEW acc \in Seq(Sections(R)), NEW x \in R
    PROVE  addRow(acc, x) \in Seq(Sections(R))
<1> DEFINE I == {i \in DOMAIN acc : acc[i].row = x.name}
           c == 1 + Cardinality(I)
           n == IF c = 1 THEN x.name ELSE Append(x.name, c)
           s == [row |-> x.name, name |-> n, source_event |-> x.source_event,
                 field_s |-> x.field_s, keys |-> DefaultKeys]
<1>1. I \in SUBSET Nat
  <2>1. DOMAIN acc = 1 .. Len(acc) /\ Len(acc) \in Nat  OBVIOUS
  <2> QED BY <2>1
<1>2. n \in Marks(R)
  <2> HIDE DEF I
  <2>1. Append(x.name, c) \in Marks(R)  BY <1>1 DEF Marks
  <2>2. x.name \in Marks(R)  BY DEF Marks
  <2> QED BY <2>1, <2>2
<1>3. addRow(acc, x) = IF x.version > 1 THEN acc ELSE Append(acc, s)
  BY Zenon DEF addRow
<1>4. s \in Sections(R)
  <2> HIDE DEF n
  <2> QED BY <1>2 DEF Sections
<1> HIDE DEF s
<1>5. Append(acc, s) \in Seq(Sections(R))  BY <1>4
<1> QED BY <1>3, <1>5

\* The keys of a description are the default ones.
LEMMA IniKeys ==
    ASSUME NEW R, NEW rows \in Seq(R)
    PROVE  doStuff(rows) = <<>> \/ doStuff(rows)[1].keys = DefaultKeys
<1> DEFINE S == Seq(Sections(R))
           a == <<>>
           g == [p \in S \X R |-> addRow(p[1], p[2])]
           Is(e) == e = [i \in 0 .. Len(rows) |-> IF i = 0 THEN <<>> ELSE addRow(e[i - 1], rows[i])]
           h == CHOOSE e : Is(e)
<1>0. Len(rows) \in Nat /\ \A i \in 1 .. Len(rows) : rows[i] \in R
  BY ElementOfSeq, LenProperties
<1>1. a \in S  OBVIOUS
<1>2. g \in [S \X R -> S]  BY AddRowType
<1>3. \A x \in S, e \in R : g[<<x, e>>] = addRow(x, e)  OBVIOUS
<1> HIDE DEF g, a, S
<1>4. PICK f \in [0 .. Len(rows) -> S] : Folds(f, a, g, rows)
  BY <1>1, <1>2, Folding
<1>5. Is(f)
  <2>1. ASSUME NEW i \in 0 .. Len(rows)
        PROVE  (IF i = 0 THEN a ELSE g[<<f[i - 1], rows[i]>>])
                 = (IF i = 0 THEN a ELSE addRow(f[i - 1], rows[i]))
    <3>1. CASE i # 0
      <4>1. f[i - 1] \in S /\ rows[i] \in R  BY <1>0, <3>1
      <4> QED BY <4>1, <1>3
    <3> QED BY <3>1
  <2>2. f = [i \in 0 .. Len(rows) |-> IF i = 0 THEN a ELSE g[<<f[i - 1], rows[i]>>]]
    BY <1>4 DEF Folds
  <2>3. f = [i \in 0 .. Len(rows) |-> IF i = 0 THEN a ELSE addRow(f[i - 1], rows[i])]
    BY <2>1, <2>2, Zenon
  <2> QED BY <2>3, Zenon DEF a
<1>6. Is(h)
  <2> HIDE DEF Is
  <2> QED BY <1>5, Zenon
<1>7. doStuff(rows) = h[Len(rows)]  BY Zenon DEF doStuff
<1>8. h = [i \in 0 .. Len(rows) |-> IF i = 0 THEN a ELSE addRow(h[i - 1], rows[i])]
  <2> HIDE DEF h
  <2> QED BY <1>6, Zenon DEF a
<1> HIDE DEF h, Is
<1>9. h[0] = a  BY <1>8, <1>0
<1>10. ASSUME NEW i \in 1 .. Len(rows), h[i - 1] \in S
       PROVE  h[i] = g[<<h[i - 1], rows[i]>>]
  <2>1. h[i] = addRow(h[i - 1], rows[i])
    <3>1. i \in 0 .. Len(rows) /\ i # 0  BY <1>0
    <3> QED BY <3>1, <1>8, Zenon
  <2> QED BY <2>1, <1>0, <1>3, <1>10
<1>11. Follows(h, S, g, rows)  BY <1>10 DEF Follows
<1>12. h[0] \in S  BY <1>1, <1>9
<1>13. \A i \in 0 .. Len(rows) : h[i] \in S  BY <1>2, <1>11, <1>12, Folded
<1>14. doStuff(rows) \in Seq(Sections(R))  BY <1>0, <1>7, <1>13 DEF S
<1>15. ASSUME NEW d \in Seq(Sections(R)), d # <<>> PROVE d[1].keys = DefaultKeys
  <2>1. d[1] \in Sections(R)  BY <1>15
  <2> QED BY <2>1 DEF Sections
<1> QED BY <1>14, <1>15

\* The keys are the default ones or not set, and what the parser made of the
\* last record is what it makes of it.
Sent == [id : Nat, sent : Seq(Parts)]
RecordInv ==
    /\ FilesInv
    /\ ini # <<>> => ini[1].keys = DefaultKeys
    /\ \A f \in {"raw", "filt"} : files[f] # NoFile => files[f].keys \in {<<>>, DefaultKeys}
    /\ last.kind # "no record" => parser # NoFile
    /\ last.kind = "record" =>
          /\ last.id \in Nat /\ last.pad \in Nat
          /\ last.parsed = parseRaw(parser, last.id, Record(last.id, last.sent, last.pad))
    /\ last.kind = "file" =>
          /\ last.sent \in Seq(Sent) /\ last.end \in Ends
          /\ last.lines = parseFile(parser, FileOf(last.sent, last.end))

LEMMA RecordInit == Init => RecordInv
<1>1. NoRecord.kind = "no record"  BY DEF NoRecord
<1> QED BY <1>1, FilesInit DEF Init, RecordInv

LEMMA RecordStep == RecordInv /\ [Next]_vars => RecordInv'
<1> SUFFICES ASSUME RecordInv, [Next]_vars PROVE RecordInv'
  OBVIOUS
<1>0. FilesInv' /\ FilesInv  BY FilesStep DEF RecordInv
<1> DEFINE Same == UNCHANGED <<files, parser>>
           Still == UNCHANGED last
<1>f. files = [f \in {"raw", "filt"} |-> files[f]] /\ doc \in Docs  BY <1>0 DEF FilesInv
<1>n. parser = NoFile => last.kind = "no record"  BY DEF RecordInv
<1>k. \A f \in {"raw", "filt"} : files[f] # NoFile => files[f].keys \in {<<>>, DefaultKeys}
  BY DEF RecordInv
<1>1. CASE MakeSchema
  <2>1. PICK s \in read10Dash(doc) : files' = [files EXCEPT !["raw"] = s]
    BY <1>1 DEF MakeSchema
  <2>2. UNCHANGED <<doc, ini, filtBy, parser, last>> /\ parser = NoFile
    BY <1>1 DEF MakeSchema, Preparing
  <2>3. s.keys = <<>>
    <3>1. s \in Plain(doc)  BY <1>f, ReadPlain
    <3> QED BY <3>1 DEF Plain
  <2>4. files'["raw"] = s /\ files'["filt"] = files["filt"]  BY <1>f, <2>1
  <2>5. \A f \in {"raw", "filt"} : files'[f] # NoFile => files'[f].keys \in {<<>>, DefaultKeys}
    BY <1>k, <2>3, <2>4
  <2>6. last.kind = "no record"  BY <1>n, <2>2
  <2> QED BY <1>0, <2>2, <2>5, <2>6 DEF RecordInv
<1>2. CASE MakeIni
  <2>1. PICK rows \in Tables : ini' = doStuff(rows)  BY <1>2 DEF MakeIni
  <2>2. UNCHANGED <<doc, files, filtBy, parser, last>>  BY <1>2 DEF MakeIni
  <2>3. rows \in Seq(Range(rows))  BY TablesAssumption
  <2>4. ini' # <<>> => ini'[1].keys = DefaultKeys  BY <2>1, <2>3, IniKeys
  <2> QED BY <1>0, <2>2, <2>4 DEF RecordInv
<1>3. ASSUME NEW from \in {"raw", "filt"}, MakeFiltered(from) PROVE RecordInv'
  <2>1. /\ files[from] # NoFile /\ parser = NoFile
        /\ files' = [files EXCEPT !["filt"] = describe(files[from], ini)]
        /\ filtBy' = ini /\ UNCHANGED <<doc, ini, parser, last>>
    BY <1>3 DEF MakeFiltered, Preparing
  <2> DEFINE t == describe(files[from], ini)
  <2>2. IsSchema(doc, files[from])  BY <1>0, <2>1 DEF FilesInv
  <2>3. t.keys \in {<<>>, DefaultKeys}
    <3>1. DescribedAs(doc, files[from], ini, t)  BY <2>2, Described
    <3>2. t.keys = IF ini = <<>> THEN <<>> ELSE ini[1].keys  BY <3>1 DEF DescribedAs
    <3> HIDE DEF t
    <3> QED BY <3>2 DEF RecordInv
  <2>4. files'["filt"] = t /\ files'["raw"] = files["raw"]  BY <1>f, <2>1
  <2> HIDE DEF t
  <2>5. \A f \in {"raw", "filt"} : files'[f] # NoFile => files'[f].keys \in {<<>>, DefaultKeys}
    BY <1>k, <2>3, <2>4
  <2>6. last.kind = "no record"  BY <1>n, <2>1
  <2> QED BY <1>0, <2>1, <2>5, <2>6 DEF RecordInv
<1>4. ASSUME NEW f \in {"raw", "filt"}, Load(f) PROVE RecordInv'
  <2>1. parser = NoFile /\ UNCHANGED <<doc, ini, files, filtBy, last>>  BY <1>4 DEF Load
  <2>2. last.kind = "no record"  BY <1>n, <2>1
  <2> QED BY <1>0, <2>1, <2>2 DEF RecordInv
<1>5. CASE Receive
  <2>1. PICK e \in Range(doc.events) : \E sent \in Sendings(doc, e.layout) :
           \E n \in {Len(sent), Len(sent) \div 2}, pad \in 0 .. 1 :
               /\ pad > 0 => n = Len(sent)
               /\ LET got == SubSeq(sent, 1, n)
                  IN  last' = [kind |-> "record", id |-> e.id, sent |-> got, pad |-> pad,
                               parsed |-> parseRaw(parser, e.id, Record(e.id, got, pad))]
    BY <1>5, Zenon DEF Receive
  <2>2. PICK got, pad :
           pad \in 0 .. 1 /\ last' = [kind |-> "record", id |-> e.id, sent |-> got, pad |-> pad,
                                      parsed |-> parseRaw(parser, e.id, Record(e.id, got, pad))]
    <3>0. PICK sent \in Sendings(doc, e.layout) :
             \E n \in {Len(sent), Len(sent) \div 2}, pad \in 0 .. 1 :
                 /\ pad > 0 => n = Len(sent)
                 /\ LET got == SubSeq(sent, 1, n)
                    IN  last' = [kind |-> "record", id |-> e.id, sent |-> got, pad |-> pad,
                                 parsed |-> parseRaw(parser, e.id, Record(e.id, got, pad))]
      BY <2>1, Zenon
    <3>1. PICK n \in {Len(sent), Len(sent) \div 2}, pad \in 0 .. 1 :
             last' = [kind |-> "record", id |-> e.id, sent |-> SubSeq(sent, 1, n), pad |-> pad,
                      parsed |-> parseRaw(parser, e.id, Record(e.id, SubSeq(sent, 1, n), pad))]
      BY <3>0, Zenon
    <3> QED BY <3>1, Zenon
  <2>3. UNCHANGED <<doc, ini, files, filtBy, parser>> /\ parser # NoFile
    BY <1>5, Zenon DEF Receive
  <2>4. e.id \in Nat
    <3>1. doc.events \in Seq(Says(doc)) /\ Says(doc) \subseteq EventDefs
      BY <1>f, SaysType, DocsAssumption
    <3>2. PICK i \in DOMAIN doc.events : e = doc.events[i]  BY DEF Range
    <3>3. DOMAIN doc.events = 1 .. Len(doc.events)  BY <3>1
    <3>4. e \in EventDefs  BY <3>1, <3>2, <3>3
    <3> QED BY <3>4 DEF EventDefs
  <2>5. /\ last'.kind = "record" /\ last'.id = e.id /\ last'.sent = got /\ last'.pad = pad
        /\ last'.parsed = parseRaw(parser, e.id, Record(e.id, got, pad))
    BY <2>2
  <2>6. pad \in Nat  BY <2>2
  <2> QED BY <1>0, <1>k, <2>3, <2>4, <2>5, <2>6 DEF RecordInv
<1>6. CASE ReadFile
  <2> DEFINE es == doc.events
             sends(i) == CHOOSE s \in Sendings(doc, es[i].layout) : TRUE
             evts == [i \in DOMAIN es |-> [id |-> es[i].id, sent |-> sends(i)]]
             records == Append(evts, [id |-> 99, sent |-> <<>>])
  <2>1. UNCHANGED <<doc, ini, files, filtBy, parser>> /\ parser # NoFile
    BY <1>6, Zenon DEF ReadFile
  <2>2. PICK end \in Ends : last' = [kind |-> "file", sent |-> records, end |-> end,
                                     lines |-> parseFile(parser, FileOf(records, end))]
    BY <1>6, Zenon DEF ReadFile
  <2>3. records \in Seq(Sent)
    <3>1. es \in Seq(Says(doc)) /\ Says(doc) \subseteq EventDefs
      BY <1>f, SaysType, DocsAssumption
    <3>2. DOMAIN es = 1 .. Len(es) /\ Len(es) \in Nat  BY <3>1
    <3>3. ASSUME NEW i \in 1 .. Len(es)
          PROVE  [id |-> es[i].id, sent |-> sends(i)] \in Sent
      <4>1. es[i] \in EventDefs  BY <3>1
      <4>2. es[i].id \in Nat  BY <4>1 DEF EventDefs
      <4>3. es[i] \in Range(doc.events)  BY <3>2 DEF Range
      <4>4. Sendings(doc, es[i].layout) # {} /\ Sendings(doc, es[i].layout) \subseteq Seq(Parts)
        BY <1>f, <4>3, SendingsAssumption
      <4>5. sends(i) \in Seq(Parts)  BY <4>4
      <4> HIDE DEF sends
      <4> QED BY <4>2, <4>5 DEF Sent
    <3> HIDE DEF sends
    <3>4. evts \in [1 .. Len(es) -> Sent]  BY <3>2, <3>3
    <3> HIDE DEF evts, es
    <3>5. evts \in Seq(Sent)  BY <3>2, <3>4, SeqDef
    <3>6. [id |-> 99, sent |-> <<>>] \in Sent  BY DEF Sent
    <3> QED BY <3>5, <3>6
  <2> HIDE DEF records
  <2>4. /\ last'.kind = "file" /\ last'.sent = records /\ last'.end = end
        /\ last'.lines = parseFile(parser, FileOf(records, end))
    BY <2>2
  <2> QED BY <1>0, <1>k, <2>1, <2>3, <2>4 DEF RecordInv
<1>7. CASE UNCHANGED vars
  <2>1. UNCHANGED <<doc, ini, files, filtBy, parser, last>>  BY <1>7 DEF vars
  <2> QED BY <1>0, <2>1 DEF RecordInv
<1> QED BY <1>1, <1>2, <1>3, <1>4, <1>5, <1>6, <1>7 DEF Next

-----------------------------------------------------------------------------
(***************************************************************************)
(* What is shown of a record.                                              *)
(***************************************************************************)

\* Values of no bytes do not move the next one, others do.
LEMMA Moves ==
    ASSUME NEW sent \in Seq(Parts), NEW at \in [0 .. Len(sent) -> Nat],
           NEW raw, NEW pad, Lies(sent, at, raw, pad), NEW i \in 0 .. Len(sent)
    PROVE  \A k \in i .. Len(sent) :
              /\ at[i] <= at[k]
              /\ at[i] < at[k] <=> \E j \in i + 1 .. k : sent[j].bytes # <<>>
<1> DEFINE n == Len(sent)
           Moved(k) == \E j \in i + 1 .. k : sent[j].bytes # <<>>
           Good(k) == at[i] <= at[k] /\ (at[i] < at[k] <=> Moved(k))
           U == {m \in Nat : i + m <= n => Good(i + m)}
<1>0. n \in Nat /\ i \in Nat /\ i <= n  OBVIOUS
<1>1. \A k \in 1 .. n : /\ at[k] = at[k - 1] + Len(sent[k].bytes) /\ at[k] \in Nat
                        /\ at[k - 1] \in Nat /\ Len(sent[k].bytes) \in Nat
                        /\ Len(sent[k].bytes) = 0 <=> sent[k].bytes = <<>>
  <2> TAKE k \in 1 .. n
  <2>1. at[k] = at[k - 1] + Len(sent[k].bytes)  BY DEF Lies
  <2>2. at[k] \in Nat /\ at[k - 1] \in Nat  BY <1>0
  <2>3. sent[k] \in Parts  BY <1>0
  <2>4. sent[k].bytes \in Seq(Nat)  BY <2>3 DEF Parts
  <2> QED BY <2>1, <2>2, <2>4
<1>2. 0 \in U
  <2>1. i + 0 = i /\ at[i] \in Nat  BY <1>0
  <2>2. ~Moved(i)  BY <1>0
  <2> QED BY <2>1, <2>2
<1>3. ASSUME NEW m \in Nat, m \in U PROVE m + 1 \in U
  <2>1. CASE i + (m + 1) <= n
    <3>1. PICK k \in 1 .. n : k = i + (m + 1) /\ k - 1 = i + m  BY <1>0, <2>1
    <3>2. Good(k - 1)
      <4>1. i + m <= n  BY <1>0, <2>1
      <4> QED BY <1>3, <3>1, <4>1
    <3>3. /\ at[k] = at[k - 1] + Len(sent[k].bytes) /\ at[k] \in Nat
          /\ at[k - 1] \in Nat /\ Len(sent[k].bytes) \in Nat
          /\ Len(sent[k].bytes) = 0 <=> sent[k].bytes = <<>>
      BY <1>1
    <3>4. Moved(k) <=> Moved(k - 1) \/ sent[k].bytes # <<>>
      <4>1. i + 1 .. k = (i + 1 .. k - 1) \cup {k}  BY <1>0, <3>1
      <4> QED BY <4>1
    <3>5. at[i] \in Nat  BY <1>0
    <3> HIDE DEF Moved
    <3>6. Good(k)  BY <3>2, <3>3, <3>4, <3>5
    <3> QED BY <3>1, <3>6
  <2> QED BY <2>1
<1> HIDE DEF U
<1>4. Nat \subseteq U  BY <1>2, <1>3, Successors
<1>5. ASSUME NEW k \in i .. n PROVE Good(k)
  <2>1. k - i \in Nat /\ i + (k - i) = k /\ k <= n  BY <1>0
  <2>2. k - i \in U  BY <2>1, <1>4
  <2> QED BY <2>1, <2>2 DEF U
<1> QED BY <1>5

\* The values that are shown are those the parser comes to and keeps.
LEMMA ShownAre ==
    ASSUME NEW event, NEW sent \in Seq(Parts), NEW at \in [0 .. Len(sent) -> Nat],
           NEW raw, NEW pad \in Nat, Lies(sent, at, raw, pad), Len(raw) \in Nat,
           NEW m \in 0 .. Len(sent), \A k \in 1 .. Len(sent) : k <= m <=> at[k] < Len(raw)
    PROVE  Shown(event, sent, pad) = Kinds(event.fields, sent, m)
<1> DEFINE n == Len(sent)
<1>0. n \in Nat /\ DOMAIN sent = 1 .. n  OBVIOUS
<1>1. Len(raw) = at[n] + pad /\ at[n] \in Nat  BY <1>0 DEF Lies
<1>2. ASSUME NEW i \in 1 .. n
      PROVE  /\ i <= m <=> (pad > 0 \/ \E j \in i + 1 .. n : sent[j].bytes # <<>>)
             /\ Value(event.fields, sent, i) # None
                  <=> event.fields[i].isFiltered /\ sent[i].shown # None
  <2>1. i \in 0 .. n /\ n \in i .. n  BY <1>0
  <2>2. /\ at[i] <= at[n]
        /\ at[i] < at[n] <=> \E j \in i + 1 .. n : sent[j].bytes # <<>>
    BY <2>1, Moves
  <2>3. at[i] < Len(raw) <=> pad > 0 \/ at[i] < at[n]
    <3>1. at[i] \in Nat  BY <2>1
    <3> QED BY <1>1, <2>2, <3>1
  <2>4. i <= m <=> at[i] < Len(raw)  OBVIOUS
  <2> QED BY <2>2, <2>3, <2>4, Zenon DEF Value
<1>3. Kinds(event.fields, sent, m)
        = {i \in 1 .. n : i <= m /\ Value(event.fields, sent, i) # None}
  <2>1. 1 .. m = {i \in 1 .. n : i <= m}  BY <1>0
  <2> QED BY <2>1 DEF Kinds
<1>4. Shown(event, sent, pad)
        = {i \in 1 .. n : /\ event.fields[i].isFiltered /\ sent[i].shown # None
                          /\ pad > 0 \/ \E j \in i + 1 .. n : sent[j].bytes # <<>>}
  BY <1>0 DEF Shown
<1> HIDE DEF n
<1> QED BY <1>2, <1>3, <1>4, Zenon

\* What a record of the values gives.
IsFor(event, schema, id) ==
    /\ getEvent(schema, id, TRUE) # {}
    /\ event = CHOOSE e \in getEvent(schema, id, TRUE) : TRUE
    /\ event.fields \in Seq(Fields)
Gives(event, schema, id, sent, pad) ==
    \E m \in 0 .. Len(sent) :
        /\ Shown(event, sent, pad) = Kinds(event.fields, sent, m)
        /\ parseEvent(schema, id, Record(id, sent, pad), TRUE)
             = [kind |-> "result", result |-> Values(event.fields, sent, m)]

LEMMA RecordParsed ==
    ASSUME NEW schema, NEW id \in Nat, NEW pad \in Nat, NEW sent,
           NEW event, IsFor(event, schema, id),
           AsSaid(event, sent, pad), LengthsRead(event, sent)
    PROVE  Gives(event, schema, id, sent, pad)
<1> DEFINE raw == Record(id, sent, pad)
           fs  == event.fields
<1>0. sent \in Seq(Parts) /\ fs \in Seq(Fields)  BY DEF AsSaid, IsFor
<1>1. PICK at \in [0 .. Len(sent) -> Nat] : Lies(sent, at, raw, pad)
  BY <1>0, RecordLies
<1>2. Len(raw) \in Nat
  <2>1. Len(raw) = at[Len(sent)] + pad  BY <1>1 DEF Lies
  <2>2. Len(sent) \in 0 .. Len(sent)  BY <1>0
  <2>3. at[Len(sent)] \in Nat  BY <2>2
  <2> HIDE DEF raw
  <2> QED BY <2>1, <2>3
<1> HIDE DEF raw
<1>3. PICK m \in 0 .. Len(sent) :
              /\ \A k \in 1 .. Len(sent) : k <= m <=> at[k] < Len(raw)
              /\ parseFields(fs, raw, TRUE).stop # "raised"
              /\ parseFields(fs, raw, TRUE).result = Values(fs, sent, m)
  <2>1. event.fields \in Seq(Fields)  BY <1>0
  <2> HIDE DEF fs
  <2>2. \E m \in 0 .. Len(sent) :
              /\ \A k \in 1 .. Len(sent) : k <= m <=> at[k] < Len(raw)
              /\ parseFields(event.fields, raw, TRUE).stop # "raised"
              /\ parseFields(event.fields, raw, TRUE).result = Values(event.fields, sent, m)
    BY <2>1, <1>1, <1>2, FieldsParsed
  <2> QED BY <2>2 DEF fs
<1>4. Shown(event, sent, pad) = Kinds(fs, sent, m)
  BY <1>0, <1>1, <1>2, <1>3, ShownAre
<1>5. parseEvent(schema, id, raw, TRUE) = [kind |-> "result", result |-> Values(fs, sent, m)]
  BY <1>3, Zenon DEF parseEvent, IsFor
<1> QED BY <1>4, <1>5 DEF raw, Gives

LEMMA SessionKeys ==
    ASSUME RecordInv, parser # NoFile
    PROVE  sessionKeys(parser) = DefaultKeys
<1>1. parser \in {files["raw"], files["filt"]}  BY DEF RecordInv, FilesInv
<1>2. parser.keys \in {<<>>, DefaultKeys}  BY <1>1 DEF RecordInv
<1> QED BY <1>2 DEF sessionKeys

\* The value of a name is the last of the values kept that has it.
LastOf(fs, sent, m) ==
    /\ DOMAIN Values(fs, sent, m) = {sent[i].name : i \in Kinds(fs, sent, m)}
    /\ \A nm \in DOMAIN Values(fs, sent, m) :
          Values(fs, sent, m)[nm]
            = sent[Max({i \in Kinds(fs, sent, m) : sent[i].name = nm})].shown

LEMMA ValueOf ==
    ASSUME NEW fs, NEW sent, NEW m \in Nat,
           \A i \in 1 .. m : sent[i].name = fs[i].fieldName
    PROVE  LastOf(fs, sent, m)
<1> DEFINE K == Kinds(fs, sent, m)
           V == Values(fs, sent, m)
           value(nm) == sent[Max({i \in K : sent[i].name = nm})].shown
<1>1. K \subseteq 1 .. m /\ \A i \in K : fs[i].isFiltered
  BY DEF Kinds, Value
<1>2. \A i \in K : sent[i].name = fs[i].fieldName  BY <1>1
<1>3. DOMAIN V = {fs[i].fieldName : i \in K}  BY DEF Values
<1>4. \A nm \in DOMAIN V : V[nm] = Value(fs, sent, Max({k \in K : fs[k].fieldName = nm}))
  BY DEF Values
<1> HIDE DEF K, V
<1>5. DOMAIN V = {sent[i].name : i \in K}  BY <1>2, <1>3
<1>6. ASSUME NEW nm \in DOMAIN V PROVE V[nm] = value(nm)
  <2> DEFINE M == {i \in K : sent[i].name = nm}
  <2>1. M = {k \in K : fs[k].fieldName = nm}  BY <1>2
  <2>2. M # {} /\ M \subseteq 1 .. m  BY <1>1, <1>5
  <2>3. Max(M) \in M
    <3>1. M \in SUBSET (0 .. m)  BY <2>2
    <3> HIDE DEF M
    <3> QED BY <2>2, <3>1, MaxIn
  <2> HIDE DEF M
  <2>4. Max(M) \in K  BY <2>3 DEF M
  <2>5. V[nm] = Value(fs, sent, Max(M))  BY <1>4, <2>1
  <2>6. Value(fs, sent, Max(M)) = sent[Max(M)].shown  BY <1>1, <2>4 DEF Value
  <2> QED BY <2>5, <2>6 DEF M
<1> QED BY <1>5, <1>6 DEF K, V, LastOf

\* Wherever the values of a record are those of its fields, the parser shows
\* each that is filtered as it was sent, and nothing else: it finds its place
\* whatever is left out, not valid, empty or repeated, and whatever lengths
\* are sent (parseCTRS.py:217-261).
THEOREM RecordsDecodeRight == Spec => [](FieldsAsSaid => DecodedRight)
<1>1. RecordInv => (FieldsAsSaid => DecodedRight)
  <2> SUFFICES ASSUME RecordInv, FieldsAsSaid, last.kind = "record"
               PROVE  DecodedRight
    BY DEF DecodedRight
  <2> DEFINE known == getEvent(parser, last.id, TRUE)
             event == CHOOSE e \in known : TRUE
             at    == Shown(event, last.sent, last.pad)
             names == {last.sent[i].name : i \in at}
             value(n) == last.sent[Max({i \in at : last.sent[i].name = n})].shown
             keys  == sessionKeys(parser)
             raw   == Record(last.id, last.sent, last.pad)
             p     == parseEvent(parser, last.id, raw, TRUE)
  <2>1. /\ parser # NoFile /\ last.id \in Nat /\ last.pad \in Nat
        /\ last.parsed = parseRaw(parser, last.id, raw)
    BY DEF RecordInv
  <2>2. keys = DefaultKeys  BY <2>1, SessionKeys
  <2>3. CASE known = {}
    <3>1. p = [kind |-> "None"]  BY <2>3, Zenon DEF parseEvent
    <3>2. p.kind = "None"
      <4> HIDE DEF p
      <4> QED BY <3>1
    <3>3. last.parsed = p  BY <2>1, <3>2, Zenon DEF parseRaw
    <3>4. last.parsed.kind = "None"
      <4> HIDE DEF p
      <4> QED BY <3>2, <3>3
    <3> QED BY <2>3, <3>4, Zenon DEF DecodedRight
  <2>4. CASE known # {}
    <3>1. event \in known  BY <2>4
    <3>2. AsSaid(event, last.sent, last.pad)  BY <3>1 DEF FieldsAsSaid
    <3>3. event.fields \in Seq(Fields)
      <4>1. IsSchema(doc, parser)
        <5>1. parser \in {files["raw"], files["filt"]}  BY <2>1 DEF RecordInv, FilesInv
        <5> QED BY <2>1, <5>1 DEF RecordInv, FilesInv
      <4>2. PICK id \in DOMAIN parser.events : event = parser.events[id]
        BY <3>1 DEF getEvent
      <4>3. IsEventOf(doc, parser.events[id], id)  BY <4>1 DEF IsSchema, EventsOf
      <4> HIDE DEF event
      <4> QED BY <4>2, <4>3 DEF IsEventOf, Events
    <3> SUFFICES ASSUME LengthsRead(event, last.sent)
                 PROVE  /\ last.parsed.kind = "result"
                        /\ last.parsed.result = [n \in names \ Range(keys) |-> value(n)]
                        /\ last.parsed.keys = [i \in DOMAIN keys |->
                               IF keys[i] \in names THEN value(keys[i]) ELSE missing]
      <4> HIDE DEF event, at, names, value, keys
      <4> QED BY <2>4, Zenon DEF DecodedRight, event, at, names, value, keys
    <3>4. PICK m \in 0 .. Len(last.sent) :
              /\ at = Kinds(event.fields, last.sent, m)
              /\ p = [kind |-> "result", result |-> Values(event.fields, last.sent, m)]
      <4>1. PICK e : e = event  OBVIOUS
      <4>2. Gives(e, parser, last.id, last.sent, last.pad)
        <5>1. IsFor(e, parser, last.id) /\ AsSaid(e, last.sent, last.pad)
              /\ LengthsRead(e, last.sent)
          BY <2>4, <3>2, <3>3, <4>1 DEF IsFor
        <5> QED BY <2>1, <5>1, RecordParsed
      <4> HIDE DEF event
      <4>3. at = Shown(e, last.sent, last.pad)  BY <4>1
      <4> HIDE DEF at
      <4> QED BY <4>1, <4>2, <4>3, Zenon DEF Gives
    <3> DEFINE V == Values(event.fields, last.sent, m)
    <3>5. \A i \in 1 .. m : last.sent[i].name = event.fields[i].fieldName
      <4>1. last.sent \in Seq(Parts)
            /\ \A i \in DOMAIN last.sent : last.sent[i].name = event.fields[i].fieldName
        BY <3>2 DEF AsSaid
      <4>2. DOMAIN last.sent = 1 .. Len(last.sent) /\ Len(last.sent) \in Nat  BY <4>1
      <4> HIDE DEF event
      <4> QED BY <4>1, <4>2
    <3>6. DOMAIN V = names /\ \A n \in names : V[n] = value(n)
      <4>1. m \in Nat  OBVIOUS
      <4>2. PICK fs : fs = event.fields  OBVIOUS
      <4> HIDE DEF event, at
      <4>3. at = Kinds(fs, last.sent, m) /\ V = Values(fs, last.sent, m)  BY <3>4, <4>2
      <4>4. LastOf(fs, last.sent, m)
        <5>1. \A i \in 1 .. m : last.sent[i].name = fs[i].fieldName  BY <3>5, <4>2
        <5> QED BY <4>1, <5>1, ValueOf
      <4> HIDE DEF V
      <4>5. DOMAIN V = names  BY <4>3, <4>4 DEF LastOf
      <4> QED BY <4>3, <4>4, <4>5 DEF LastOf
    <3> HIDE DEF V, at, names, value, event
    <3>7. p.kind = "result" /\ p.result = V
      <4> HIDE DEF p
      <4> QED BY <3>4 DEF V
    <3>8. Len(keys) \in Nat /\ Apart(keys) /\ DOMAIN keys = 1 .. Len(keys)
      BY <2>2 DEF DefaultKeys, Apart
    <3>9. V = [n \in DOMAIN V |-> V[n]]  BY DEF V, Values
    <3>10. takeKeys(V, keys) = [keys |-> Taken(V, keys, Len(keys)), result |-> Left(V, keys, Len(keys))]
      <4> HIDE DEF keys
      <4> QED BY <3>8, <3>9, KeysTaken
    <3>11. last.parsed = [kind |-> "result", keys |-> Taken(V, keys, Len(keys)),
                          result |-> Left(V, keys, Len(keys))]
      <4> DEFINE t == takeKeys(p.result, keys)
      <4>1. last.parsed = [kind |-> "result", keys |-> t.keys, result |-> t.result]
        BY <2>1, <3>7, Zenon DEF parseRaw
      <4>2. t = [keys |-> Taken(V, keys, Len(keys)), result |-> Left(V, keys, Len(keys))]
        BY <3>7, <3>10
      <4> HIDE DEF t
      <4> QED BY <4>1, <4>2
    <3>12. Range(keys) = {keys[j] : j \in 1 .. Len(keys)}
      <4> HIDE DEF keys
      <4> QED BY <3>8 DEF Range
    <3> HIDE DEF keys, p
    <3>13. Left(V, keys, Len(keys)) = [n \in names \ Range(keys) |-> value(n)]
      BY <3>6, <3>12 DEF Left
    <3>14. Taken(V, keys, Len(keys)) = [i \in DOMAIN keys |->
                               IF keys[i] \in names THEN value(keys[i]) ELSE missing]
      BY <3>6, <3>8 DEF Taken
    <3> QED BY <3>11, <3>13, <3>14
  <2> QED BY <2>3, <2>4
<1> QED BY <1>1, RecordInit, RecordStep, PTL DEF Spec

-----------------------------------------------------------------------------
(***************************************************************************)
(* Files.  A file is made of chunks, each as long as it says.              *)
(***************************************************************************)

LEMMA NumberOfTwo ==
    ASSUME NEW a \in Nat, NEW b \in Nat
    PROVE  Number(<<a, b>>) = 256 * a + b
<1> DEFINE raw == <<a, b>>
           f == [i \in 0 .. Len(raw) |-> IF i = 0 THEN 0 ELSE IF i = 1 THEN a ELSE 256 * a + b]
           Is(e) == e = [i \in 0 .. Len(raw) |-> IF i = 0 THEN 0 ELSE 256 * e[i - 1] + raw[i]]
           h == CHOOSE e : Is(e)
<1>1. Len(raw) = 2 /\ raw[1] = a /\ raw[2] = b  OBVIOUS
<1> HIDE DEF raw
<1>2. Is(f)
  <2>1. \A i \in 0 .. 2 : f[i] = IF i = 0 THEN 0 ELSE 256 * f[i - 1] + raw[i]
    <3>1. f[0] = 0 /\ f[1] = a /\ f[2] = 256 * a + b  BY <1>1
    <3> HIDE DEF f
    <3> QED BY <1>1, <3>1
  <2>2. f = [i \in 0 .. Len(raw) |-> f[i]]  OBVIOUS
  <2> HIDE DEF f
  <2> QED BY <1>1, <2>1, <2>2
<1>3. Is(h)
  <2> HIDE DEF Is, f
  <2> QED BY <1>2, Zenon
<1>4. Number(raw) = h[Len(raw)]  BY Zenon DEF Number
<1>5. \A i \in 0 .. 2 : h[i] = IF i = 0 THEN 0 ELSE 256 * h[i - 1] + raw[i]
  <2> HIDE DEF h
  <2> QED BY <1>1, <1>3
<1> HIDE DEF h, Is, f
<1>6. h[0] = 0  BY <1>5
<1>7. h[1] = 256 * h[0] + raw[1]  BY <1>5
<1>8. h[2] = 256 * h[1] + raw[2]  BY <1>5
<1> QED BY <1>1, <1>4, <1>6, <1>7, <1>8 DEF raw

LEMMA NumberOfThree ==
    ASSUME NEW a \in Nat
    PROVE  Number(<<0, 0, a>>) = a
<1> DEFINE raw == <<0, 0, a>>
           f == [i \in 0 .. Len(raw) |-> IF i = 3 THEN a ELSE 0]
           Is(e) == e = [i \in 0 .. Len(raw) |-> IF i = 0 THEN 0 ELSE 256 * e[i - 1] + raw[i]]
           h == CHOOSE e : Is(e)
<1>1. Len(raw) = 3 /\ raw[1] = 0 /\ raw[2] = 0 /\ raw[3] = a  OBVIOUS
<1> HIDE DEF raw
<1>2. Is(f)
  <2>1. \A i \in 0 .. 3 : f[i] = IF i = 0 THEN 0 ELSE 256 * f[i - 1] + raw[i]
    <3>1. f[0] = 0 /\ f[1] = 0 /\ f[2] = 0 /\ f[3] = a  BY <1>1
    <3> HIDE DEF f
    <3> QED BY <1>1, <3>1
  <2>2. f = [i \in 0 .. Len(raw) |-> f[i]]  OBVIOUS
  <2> HIDE DEF f
  <2> QED BY <1>1, <2>1, <2>2
<1>3. Is(h)
  <2> HIDE DEF Is, f
  <2> QED BY <1>2, Zenon
<1>4. Number(raw) = h[Len(raw)]  BY Zenon DEF Number
<1>5. \A i \in 0 .. 3 : h[i] = IF i = 0 THEN 0 ELSE 256 * h[i - 1] + raw[i]
  <2> HIDE DEF h
  <2> QED BY <1>1, <1>3
<1> HIDE DEF h, Is, f
<1>6. h[0] = 0  BY <1>5
<1>7. h[1] = 256 * h[0] + raw[1]  BY <1>5
<1>8. h[2] = 256 * h[1] + raw[2]  BY <1>5
<1>9. h[3] = 256 * h[2] + raw[3]  BY <1>5
<1> QED BY <1>1, <1>4, <1>6, <1>7, <1>8, <1>9 DEF raw

\* p is a part of raw, from o on.
In(p, raw, o) ==
    /\ p \in Seq(Nat) /\ raw \in Seq(Nat) /\ o \in Nat
    /\ o + Len(p) <= Len(raw) /\ SubSeq(raw, o + 1, o + Len(p)) = p

Sliced(p, raw, o, a, b) == Slice(raw, o + a, o + b) = SubSeq(p, a + 1, b)

LEMMA SliceOf ==
    ASSUME NEW p, NEW raw, NEW o, In(p, raw, o), NEW a \in Nat, NEW b \in Nat, b <= Len(p)
    PROVE  Sliced(p, raw, o, a, b)
<1>1. /\ p \in Seq(Nat) /\ raw \in Seq(Nat) /\ o \in Nat /\ Len(p) \in Nat /\ Len(raw) \in Nat
      /\ o + Len(p) <= Len(raw) /\ SubSeq(raw, o + 1, o + Len(p)) = p
  BY DEF In
<1>2. Min({o + b, Len(raw)}) = o + b
  <2>1. o + b <= Len(raw) /\ o + b \in Int /\ Len(raw) \in Int  BY <1>1
  <2> QED BY <2>1, MinOfTwo
<1>3. Slice(raw, o + a, o + b) = SubSeq(raw, o + a + 1, o + b)
  BY <1>2, Zenon DEF Slice
<1>4. \A k \in 1 .. Len(p) : p[k] = raw[o + k]
  <2> TAKE k \in 1 .. Len(p)
  <2>1. SubSeq(raw, o + 1, o + Len(p))[k] = raw[o + k]  BY <1>1
  <2> QED BY <1>1, <2>1
<1>5. SubSeq(raw, o + a + 1, o + b) = SubSeq(p, a + 1, b)
  <2>1. \A i \in 1 .. b - a : a + i \in 1 .. Len(p)  BY <1>1
  <2>2. SubSeq(raw, o + a + 1, o + b) = [i \in 1 .. b - a |-> raw[o + (a + i)]]
    BY <1>1
  <2>3. SubSeq(p, a + 1, b) = [i \in 1 .. b - a |-> p[a + i]]
    BY <1>1
  <2>4. \A i \in 1 .. b - a : raw[o + (a + i)] = p[a + i]  BY <1>4, <2>1
  <2> QED BY <2>2, <2>3, <2>4, Zenon
<1> QED BY <1>3, <1>5 DEF Sliced

LEMMA TwoOf ==
    ASSUME NEW p \in Seq(Nat), NEW a \in Nat \ {0}, a + 1 <= Len(p)
    PROVE  SubSeq(p, a, a + 1) = <<p[a], p[a + 1]>>
<1>1. SubSeq(p, a, a + 1) = [i \in 1 .. 2 |-> p[a + i - 1]]  OBVIOUS
<1>2. <<p[a], p[a + 1]>> = [i \in 1 .. 2 |-> IF i = 1 THEN p[a] ELSE p[a + 1]]  OBVIOUS
<1>3. \A i \in 1 .. 2 : p[a + i - 1] = IF i = 1 THEN p[a] ELSE p[a + 1]  OBVIOUS
<1> QED BY <1>1, <1>2, <1>3, Zenon

LEMMA ThreeOf ==
    ASSUME NEW p \in Seq(Nat), NEW a \in Nat \ {0}, a + 2 <= Len(p)
    PROVE  SubSeq(p, a, a + 2) = <<p[a], p[a + 1], p[a + 2]>>
<1> DEFINE v(i) == IF i = 1 THEN p[a] ELSE IF i = 2 THEN p[a + 1] ELSE p[a + 2]
<1>1. SubSeq(p, a, a + 2) = [i \in 1 .. 3 |-> p[a + i - 1]]  OBVIOUS
<1>2. <<p[a], p[a + 1], p[a + 2]>> = [i \in 1 .. 3 |-> v(i)]  OBVIOUS
<1>3. \A i \in 1 .. 3 : p[a + i - 1] = v(i)  OBVIOUS
<1> QED BY <1>1, <1>2, <1>3, Zenon

\* A chunk: a length, which is right, a type, which is 4 or another, an id.
Chunk(p) ==
    /\ p \in Seq(Nat) /\ Len(p) >= 7 /\ Len(p) <= 4999
    /\ p[1] = 0 /\ p[2] = Len(p) /\ p[3] = 0 /\ p[5] = 0 /\ p[6] = 0

Cutting(o, evts) == [stop |-> "no", offset |-> o, evts |-> evts]
Event(p) == [id |-> p[7], raw |-> p]

\* What a turn makes of a chunk.
Cuts(p, raw, o, evts) ==
    nextEvt(Cutting(o, evts), raw)
      = Cutting(o + Len(p), IF p[4] = 4 THEN Append(evts, Event(p)) ELSE evts)

\* A turn that does not raise, and one that does.
LEMMA TurnMoves ==
    ASSUME NEW st, NEW raw, st.stop = "no",
           ~(st.offset >= Len(raw)), ~(st.offset + 4 > Len(raw)),
           NEW l, l = Number(Slice(raw, st.offset, st.offset + 2)), ~(l < 2), ~(l > 4999)
    PROVE  nextEvt(st, raw)
             = [stop |-> "no", offset |-> st.offset + l,
                evts |-> IF Number(Slice(raw, st.offset + 2, st.offset + 4)) = 4
                         THEN Append(st.evts,
                                [id  |-> Number(Slice(raw, st.offset + 4, st.offset + 7)),
                                 raw |-> Slice(raw, st.offset, st.offset + l)])
                         ELSE st.evts]
  BY SMT DEF nextEvt

LEMMA TurnRaises ==
    ASSUME NEW st, NEW raw, st.stop = "no", ~(st.offset >= Len(raw)),
           \/ st.offset + 4 > Len(raw)
           \/ Number(Slice(raw, st.offset, st.offset + 2)) < 2
    PROVE  nextEvt(st, raw)
             = [stop |-> "raised", offset |-> st.offset, evts |-> Append(st.evts, Cut)]
  BY SMT DEF nextEvt

LEMMA ChunkCut ==
    ASSUME NEW p, NEW raw, NEW o, In(p, raw, o), Chunk(p), NEW evts
    PROVE  Cuts(p, raw, o, evts)
<1>1. /\ p \in Seq(Nat) /\ o \in Nat /\ Len(p) \in Nat /\ Len(raw) \in Nat
      /\ o + Len(p) <= Len(raw) /\ Len(p) >= 7 /\ Len(p) <= 4999
      /\ p[1] = 0 /\ p[2] = Len(p) /\ p[3] = 0 /\ p[5] = 0 /\ p[6] = 0
      /\ p[4] \in Nat /\ p[7] \in Nat
  <2>1. /\ p \in Seq(Nat) /\ o \in Nat /\ raw \in Seq(Nat) /\ o + Len(p) <= Len(raw)
        /\ Len(p) >= 7 /\ Len(p) <= 4999
        /\ p[1] = 0 /\ p[2] = Len(p) /\ p[3] = 0 /\ p[5] = 0 /\ p[6] = 0
    BY DEF In, Chunk
  <2>2. Len(p) \in Nat /\ Len(raw) \in Nat
    <3>1. p \in Seq(Nat) /\ raw \in Seq(Nat)  BY <2>1
    <3> QED BY <3>1, LenProperties
  <2>3. 4 \in 1 .. Len(p) /\ 7 \in 1 .. Len(p)  BY <2>1, <2>2
  <2>4. \A i \in 1 .. Len(p) : p[i] \in Nat
    <3>1. p \in Seq(Nat)  BY <2>1
    <3> QED BY <3>1, ElementOfSeq
  <2>5. p[4] \in Nat /\ p[7] \in Nat  BY <2>3, <2>4
  <2> QED BY <2>1, <2>2, <2>5
<1> DEFINE evtLen  == Number(Slice(raw, o, o + 2))
           evtType == Number(Slice(raw, o + 2, o + 4))
           id      == Number(Slice(raw, o + 4, o + 7))
           evt     == [id |-> id, raw |-> Slice(raw, o, o + evtLen)]
           st      == Cutting(o, evts)
<1>2. evtLen = Len(p)
  <2>1. 0 \in Nat /\ 2 \in Nat /\ 2 <= Len(p) /\ 0 + 1 = 1 /\ o + 0 = o  BY <1>1
  <2>2. Sliced(p, raw, o, 0, 2)  BY <2>1, SliceOf
  <2>3. Slice(raw, o, o + 2) = SubSeq(p, 1, 2)  BY <2>1, <2>2, Zenon DEF Sliced
  <2>4. SubSeq(p, 1, 1 + 1) = <<p[1], p[1 + 1]>>  BY <1>1, <2>1, TwoOf
  <2>5. Slice(raw, o, o + 2) = <<0, Len(p)>>  BY <1>1, <2>3, <2>4
  <2>6. Number(<<0, Len(p)>>) = Len(p)  BY <1>1, NumberOfTwo
  <2> QED BY <2>5, <2>6, Zenon
<1>3. evtType = p[4]
  <2>1. 2 \in Nat /\ 4 \in Nat /\ 4 <= Len(p) /\ 2 + 1 = 3  BY <1>1
  <2>2. Sliced(p, raw, o, 2, 4)  BY <2>1, SliceOf
  <2>3. Slice(raw, o + 2, o + 4) = SubSeq(p, 3, 4)  BY <2>1, <2>2, Zenon DEF Sliced
  <2>4. SubSeq(p, 3, 3 + 1) = <<p[3], p[3 + 1]>>  BY <1>1, <2>1, TwoOf
  <2>5. Slice(raw, o + 2, o + 4) = <<0, p[4]>>  BY <1>1, <2>3, <2>4
  <2>6. Number(<<0, p[4]>>) = p[4]  BY <1>1, NumberOfTwo
  <2> QED BY <2>5, <2>6, Zenon
<1>4. id = p[7]
  <2>1. 4 \in Nat /\ 7 \in Nat /\ 7 <= Len(p) /\ 4 + 1 = 5  BY <1>1
  <2>2. Sliced(p, raw, o, 4, 7)  BY <2>1, SliceOf
  <2>3. Slice(raw, o + 4, o + 7) = SubSeq(p, 5, 7)  BY <2>1, <2>2, Zenon DEF Sliced
  <2>4. SubSeq(p, 5, 7) = <<p[5], p[6], p[7]>>
    <3>1. 5 \in Nat \ {0} /\ 5 + 2 <= Len(p) /\ p \in Seq(Nat)  BY <1>1
    <3>2. SubSeq(p, 5, 5 + 2) = <<p[5], p[5 + 1], p[5 + 2]>>  BY <3>1, ThreeOf
    <3>3. 5 + 1 = 6 /\ 5 + 2 = 7  OBVIOUS
    <3> QED BY <3>2, <3>3, Zenon
  <2>5. Slice(raw, o + 4, o + 7) = <<0, 0, p[7]>>
    <3>1. p[5] = 0 /\ p[6] = 0  BY <1>1
    <3> QED BY <2>3, <2>4, <3>1, Zenon
  <2>6. Number(<<0, 0, p[7]>>) = p[7]  BY <1>1, NumberOfThree
  <2> QED BY <2>5, <2>6, Zenon
<1>5. Slice(raw, o, o + Len(p)) = p
  <2>1. 0 \in Nat /\ Len(p) <= Len(p) /\ 0 + 1 = 1 /\ o + 0 = o  BY <1>1
  <2>2. Sliced(p, raw, o, 0, Len(p))  BY <1>1, <2>1, SliceOf
  <2>3. SubSeq(p, 1, Len(p)) = p  BY <1>1, SubOfAll
  <2> QED BY <2>1, <2>2, <2>3 DEF Sliced
<1>6. evt = Event(p)  BY <1>2, <1>4, <1>5, Zenon DEF Event
<1>7. st.stop = "no" /\ st.offset = o /\ st.evts = evts  BY DEF Cutting
<1>8. /\ ~(o >= Len(raw)) /\ ~(o + 4 > Len(raw)) /\ ~(Len(p) < 2) /\ ~(Len(p) > 4999)
  BY <1>1
<1>9. nextEvt(st, raw)
        = [stop |-> "no", offset |-> o + evtLen,
           evts |-> IF evtType = 4 THEN Append(evts, evt) ELSE evts]
  <2>1. ~(evtLen < 2) /\ ~(evtLen > 4999)
    <3> HIDE DEF evtLen
    <3> QED BY <1>2, <1>8
  <2>2. PICK l : l = evtLen  OBVIOUS
  <2>3. /\ l = Number(Slice(raw, st.offset, st.offset + 2)) /\ ~(l < 2) /\ ~(l > 4999)
        /\ ~(st.offset >= Len(raw)) /\ ~(st.offset + 4 > Len(raw))
    <3> HIDE DEF st
    <3> QED BY <1>7, <1>8, <2>1, <2>2
  <2>4. nextEvt(st, raw)
             = [stop |-> "no", offset |-> st.offset + l,
                evts |-> IF Number(Slice(raw, st.offset + 2, st.offset + 4)) = 4
                         THEN Append(st.evts,
                                [id  |-> Number(Slice(raw, st.offset + 4, st.offset + 7)),
                                 raw |-> Slice(raw, st.offset, st.offset + l)])
                         ELSE st.evts]
    <3> HIDE DEF st
    <3> QED BY <1>7, <2>3, TurnMoves
  <2> HIDE DEF st
  <2> QED BY <1>7, <2>2, <2>4
<1> HIDE DEF evtLen, evtType, evt
<1> QED BY <1>2, <1>3, <1>6, <1>9 DEF Cuts, Cutting

\* The end of a file.
Ended(o, evts, end) ==
    IF end = <<>> THEN Cutting(o, evts)
    ELSE [stop |-> "raised", offset |-> o, evts |-> Append(evts, Cut)]
Ending(raw, o, evts, end) == nextEvt(Cutting(o, evts), raw) = Ended(o, evts, end)
Resting(raw, o, evts, end) == nextEvt(Ended(o, evts, end), raw) = Ended(o, evts, end)

LEMMA EndCut ==
    ASSUME NEW raw, NEW end \in Ends, NEW o, In(end, raw, o), o + Len(end) = Len(raw), NEW evts
    PROVE  Ending(raw, o, evts, end) /\ Resting(raw, o, evts, end)
<1>1. o \in Nat /\ Len(raw) \in Nat /\ Len(end) \in Nat  BY DEF In
<1> DEFINE st == Cutting(o, evts)
           evtLen  == Number(Slice(raw, o, o + 2))
<1>2. st.stop = "no" /\ st.offset = o /\ st.evts = evts  BY DEF Cutting
<1>3. CASE end = <<>>
  <2>1. Len(end) = 0  BY <1>3
  <2>2. o >= Len(raw)  BY <1>1, <2>1
  <2>3. nextEvt(st, raw) = st
    <3> HIDE DEF st
    <3> QED BY <1>2, <2>2, Zenon DEF nextEvt
  <2> QED BY <1>3, <2>3 DEF Ending, Resting, Ended
<1>4. CASE end # <<>>
  <2>1. end = <<0, 9, 0>> \/ end = <<0, 1, 0, 4>>  BY <1>4 DEF Ends
  <2>2. o + 4 > Len(raw) \/ evtLen < 2
    <3>1. CASE end = <<0, 9, 0>>
      <4>1. Len(end) = 3  BY <3>1
      <4> QED BY <1>1, <4>1
    <3>2. CASE end = <<0, 1, 0, 4>>
      <4>1. Len(end) = 4 /\ SubSeq(end, 1, 2) = <<0, 1>>
        <5>1. end \in Seq(Nat) /\ Len(end) = 4 /\ end[1] = 0 /\ end[2] = 1  BY <3>2
        <5>2. SubSeq(end, 1, 1 + 1) = <<end[1], end[1 + 1]>>  BY <5>1, TwoOf
        <5> QED BY <5>1, <5>2
      <4>2. Sliced(end, raw, o, 0, 2)
        <5>1. 0 \in Nat /\ 2 \in Nat /\ 2 <= Len(end)  BY <4>1
        <5> QED BY <5>1, SliceOf
      <4>3. o + 0 = o /\ 0 + 1 = 1  BY <1>1
      <4>4. Number(<<0, 1>>) = 1  BY NumberOfTwo
      <4>5. evtLen = 1  BY <4>1, <4>2, <4>3, <4>4 DEF Sliced
      <4> QED BY <4>5
    <3> QED BY <2>1, <3>1, <3>2
  <2>3. ~(o >= Len(raw))
    <3>1. Len(end) >= 3  BY <2>1
    <3> QED BY <1>1, <3>1
  <2>4. nextEvt(st, raw) = Ended(o, evts, end)
    <3> HIDE DEF st
    <3>1. nextEvt(st, raw) = [stop |-> "raised", offset |-> o, evts |-> Append(evts, Cut)]
      <4>1. \/ st.offset + 4 > Len(raw)
            \/ Number(Slice(raw, st.offset, st.offset + 2)) < 2
        BY <1>2, <2>2
      <4>2. ~(st.offset >= Len(raw))  BY <1>2, <2>3
      <4> QED BY <1>2, <4>1, <4>2, TurnRaises
    <3> QED BY <1>4, <3>1 DEF Ended
  <2>5. Ended(o, evts, end).stop = "raised"  BY <1>4 DEF Ended
  <2>6. nextEvt(Ended(o, evts, end), raw) = Ended(o, evts, end)
    <3>1. "raised" # "no"  OBVIOUS
    <3> QED BY <2>5, <3>1, Zenon DEF nextEvt
  <2> QED BY <2>4, <2>6 DEF Ending, Resting
<1> QED BY <1>3, <1>4

\* A file's chunks: the first one is of another type, the others are events.
Chunks(C) ==
    /\ C \in Seq(Seq(Nat)) /\ Len(C) > 0
    /\ \A i \in 1 .. Len(C) : Chunk(C[i]) /\ (C[i][4] = 4 <=> i > 1)

\* The events of the first i chunks.
Upto(C, i) == [j \in 1 .. i - 1 |-> Event(C[j + 1])]
Evts(C, end) == IF end = <<>> THEN Upto(C, Len(C)) ELSE Append(Upto(C, Len(C)), Cut)

LEMMA AppendAs ==
    ASSUME NEW T, NEW u \in Seq(T), NEW x \in T
    PROVE  Append(u, x) = [j \in 1 .. Len(u) + 1 |-> IF j = Len(u) + 1 THEN x ELSE u[j]]
<1>1. /\ Append(u, x) \in Seq(T) /\ Len(Append(u, x)) = Len(u) + 1
      /\ \A j \in 1 .. Len(u) : Append(u, x)[j] = u[j]
      /\ Append(u, x)[Len(u) + 1] = x
  BY AppendProperties
<1>2. Append(u, x) = [j \in 1 .. Len(u) + 1 |-> Append(u, x)[j]]
  <2>1. \A s \in Seq(T) : s = [j \in 1 .. Len(s) |-> s[j]]  OBVIOUS
  <2>2. Append(u, x) = [j \in 1 .. Len(Append(u, x)) |-> Append(u, x)[j]]  BY <1>1, <2>1, Zenon
  <2> QED BY <1>1, <2>2, Zenon
<1>3. \A j \in 1 .. Len(u) + 1 : Append(u, x)[j] = IF j = Len(u) + 1 THEN x ELSE u[j]
  <2> TAKE j \in 1 .. Len(u) + 1
  <2>1. Len(u) \in Nat  BY LenProperties
  <2>2. j = Len(u) + 1 \/ j \in 1 .. Len(u)  BY <2>1
  <2> QED BY <1>1, <2>2
<1> QED BY <1>2, <1>3, Zenon

LEMMA UptoStep ==
    ASSUME NEW C, Chunks(C), NEW i \in 1 .. Len(C)
    PROVE  Upto(C, i) = IF C[i][4] = 4 THEN Append(Upto(C, i - 1), Event(C[i])) ELSE Upto(C, i - 1)
<1>0. C \in Seq(Seq(Nat)) /\ (C[i][4] = 4 <=> i > 1)  BY DEF Chunks
<1>1. i \in Nat \ {0}  BY <1>0
<1>2. CASE i = 1
  <2>1. 1 .. 1 - 1 = {} /\ 1 .. (1 - 1) - 1 = {}  OBVIOUS
  <2>2. Upto(C, 1) = [j \in {} |-> Event(C[j + 1])]  BY <2>1, Zenon DEF Upto
  <2>3. Upto(C, 1 - 1) = [j \in {} |-> Event(C[j + 1])]  BY <2>1, Zenon DEF Upto
  <2>4. C[i][4] # 4  BY <1>0, <1>2
  <2> QED BY <1>2, <2>2, <2>3, <2>4, Zenon
<1>3. CASE i > 1
  <2> DEFINE u == Upto(C, i - 1)
             T == {Event(C[j + 1]) : j \in 1 .. i - 1}
  <2>1. u \in Seq(T) /\ Len(u) = i - 2 /\ \A j \in 1 .. i - 2 : u[j] = Event(C[j + 1])
    <3>1. i - 2 \in Nat /\ (i - 1) - 1 = i - 2  BY <1>1, <1>3
    <3>2. u = [j \in 1 .. i - 2 |-> Event(C[j + 1])]  BY <3>1 DEF Upto
    <3>3. \A j \in 1 .. i - 2 : Event(C[j + 1]) \in T  BY <1>1
    <3> HIDE DEF u, T
    <3>4. u \in [1 .. i - 2 -> T]  BY <3>2, <3>3
    <3>5. u \in Seq(T)  BY <3>1, <3>4, SeqDef
    <3> QED BY <3>1, <3>2, <3>5
  <2>2. Event(C[i]) \in T
    <3>1. i - 1 \in 1 .. i - 1 /\ (i - 1) + 1 = i  BY <1>1, <1>3
    <3> QED BY <3>1
  <2> HIDE DEF u, T
  <2>3. Append(u, Event(C[i])) = [j \in 1 .. i - 1 |-> IF j = i - 1 THEN Event(C[i]) ELSE u[j]]
    <3>1. Len(u) + 1 = i - 1  BY <1>1, <2>1
    <3>2. Append(u, Event(C[i])) = [j \in 1 .. Len(u) + 1 |-> IF j = Len(u) + 1 THEN Event(C[i]) ELSE u[j]]
      <4>1. PICK x \in T : x = Event(C[i])  BY <2>2
      <4>2. u \in Seq(T)  BY <2>1
      <4>3. Append(u, x) = [j \in 1 .. Len(u) + 1 |-> IF j = Len(u) + 1 THEN x ELSE u[j]]
        BY <4>1, <4>2, AppendAs
      <4> QED BY <4>1, <4>3
    <3> QED BY <3>1, <3>2
  <2>4. \A j \in 1 .. i - 1 : (IF j = i - 1 THEN Event(C[i]) ELSE u[j]) = Event(C[j + 1])
    <3> TAKE j \in 1 .. i - 1
    <3>1. CASE j = i - 1
      <4>1. j + 1 = i  BY <1>1, <3>1
      <4> QED BY <3>1, <4>1
    <3>2. CASE j # i - 1
      <4>1. j \in 1 .. i - 2  BY <1>1, <3>2
      <4> QED BY <2>1, <3>2, <4>1
    <3> QED BY <3>1, <3>2
  <2>5. Upto(C, i) = [j \in 1 .. i - 1 |-> IF j = i - 1 THEN Event(C[i]) ELSE u[j]]
    BY <2>4, Zenon DEF Upto
  <2> QED BY <1>0, <1>3, <2>3, <2>5 DEF u
<1> QED BY <1>1, <1>2, <1>3

LEMMA FileCut ==
    ASSUME NEW C, Chunks(C), NEW end \in Ends
    PROVE  getNextEvt(FlattenSeq(C) \o end) = Evts(C, end)
<1> DEFINE whole == FlattenSeq(C)
           raw   == whole \o end
           k     == Len(C)
           N     == Len(raw)
<1>0. /\ C \in Seq(Seq(Nat)) /\ k \in Nat /\ k > 0
      /\ \A i \in 1 .. k : C[i] \in Seq(Nat) /\ Chunk(C[i]) /\ Len(C[i]) \in Nat
  <2>1. C \in Seq(Seq(Nat)) /\ k > 0 /\ \A i \in 1 .. k : Chunk(C[i])  BY DEF Chunks
  <2>2. \A i \in 1 .. k : C[i] \in Seq(Nat)  BY <2>1 DEF Chunk
  <2>3. \A i \in 1 .. k : Len(C[i]) \in Nat  BY <2>2
  <2> QED BY <2>1, <2>2, <2>3
<1>1. PICK at \in [0 .. k -> Nat] : Pieces(C, at, whole)
  BY <1>0, FlattenPieces
<1>2. whole \in Seq(Nat)  BY <1>0, FlattenType
<1>e. end \in Seq(Nat)
  <2>1. end = <<>> \/ end = <<0, 9, 0>> \/ end = <<0, 1, 0, 4>>  BY DEF Ends
  <2>2. <<>> \in Seq(Nat) /\ <<0, 9, 0>> \in Seq(Nat) /\ <<0, 1, 0, 4>> \in Seq(Nat)
    OBVIOUS
  <2> QED BY <2>1, <2>2
<1> HIDE DEF whole
<1>3. /\ raw \in Seq(Nat) /\ N \in Nat /\ N = Len(whole) + Len(end)
      /\ Len(whole) \in Nat /\ Len(end) \in Nat /\ Len(whole) = at[k]
  <2>1. Len(whole) = at[k]  BY <1>1 DEF Pieces
  <2> QED BY <1>2, <1>e, <2>1, JoinedType
<1>4. ASSUME NEW i \in 1 .. k
      PROVE  /\ In(C[i], raw, at[i - 1]) /\ at[i] = at[i - 1] + Len(C[i])
             /\ at[i] \in Nat /\ at[i - 1] \in Nat
  <2>1. /\ at[i] = at[i - 1] + Len(C[i]) /\ at[i] <= Len(whole)
        /\ SubSeq(whole, at[i - 1] + 1, at[i]) = C[i]
    BY <1>1 DEF Pieces
  <2>2. i \in 0 .. k /\ i - 1 \in 0 .. k  BY <1>0
  <2>3. at[i] \in Nat /\ at[i - 1] \in Nat /\ at[i - 1] + 1 \in Nat \ {0}  BY <1>1, <2>2
  <2>4. \A m \in Nat \ {0}, n \in Nat : n <= Len(whole) =>
           SubSeq(whole \o end, m, n) = SubSeq(whole, m, n)
    BY <1>2, <1>e, SubOfLeft
  <2>5. SubSeq(raw, at[i - 1] + 1, at[i]) = C[i]
    BY <2>1, <2>3, <2>4, Zenon
  <2>6. at[i] <= N
    <3> HIDE DEF N, raw
    <3> QED BY <1>3, <2>1, <2>3
  <2> HIDE DEF raw
  <2> QED BY <1>0, <1>3, <2>1, <2>3, <2>5, <2>6 DEF In
<1>5. In(end, raw, at[k]) /\ at[k] + Len(end) = N
  <2>1. \A m \in Nat, n \in Nat : m # 0 /\ n <= Len(end) =>
           SubSeq(whole \o end, Len(whole) + m, Len(whole) + n) = SubSeq(end, m, n)
    BY <1>2, <1>e, SubOfRight
  <2>2. SubSeq(raw, Len(whole) + 1, Len(whole) + Len(end)) = SubSeq(end, 1, Len(end))
    <3>1. 1 \in Nat /\ 1 # 0 /\ Len(end) \in Nat /\ Len(end) <= Len(end)  BY <1>3
    <3> QED BY <2>1, <3>1, Zenon
  <2>3. SubSeq(end, 1, Len(end)) = end  BY <1>e, SubOfAll
  <2>4. at[k] + Len(end) = N /\ at[k] \in Nat /\ N = Len(raw)
    <3> HIDE DEF raw
    <3> QED BY <1>3
  <2>5. SubSeq(raw, at[k] + 1, at[k] + Len(end)) = end
    <3> HIDE DEF raw
    <3> QED BY <1>3, <2>2, <2>3
  <2>6. at[k] + Len(end) <= Len(raw)
    <3> HIDE DEF raw
    <3> QED BY <1>3, <2>4
  <2> HIDE DEF raw
  <2> QED BY <1>3, <1>e, <2>4, <2>5, <2>6 DEF In
<1> HIDE DEF raw, k, N
<1>6. k <= at[k]
  <2> DEFINE U == {i \in Nat : i <= k => i <= at[i]}
  <2>1. 0 \in U
    <3>1. 0 \in 0 .. k  BY <1>0
    <3>2. at[0] \in Nat  BY <1>1, <3>1
    <3> QED BY <3>2
  <2>2. ASSUME NEW i \in Nat, i \in U PROVE i + 1 \in U
    <3>1. CASE i + 1 <= k
      <4>1. i + 1 \in 1 .. k /\ (i + 1) - 1 = i /\ i <= at[i]  BY <1>0, <2>2, <3>1
      <4>2. at[i + 1] = at[i] + Len(C[i + 1]) /\ at[i] \in Nat  BY <1>4, <4>1
      <4>3. Len(C[i + 1]) >= 7 /\ Len(C[i + 1]) \in Nat  BY <1>0, <4>1 DEF Chunk
      <4>4. i + 1 <= at[i + 1]  BY <4>1, <4>2, <4>3
      <4> QED BY <4>4
    <3> QED BY <3>1
  <2> HIDE DEF U
  <2>3. Nat \subseteq U  BY <2>1, <2>2, Successors
  <2>4. k \in U /\ k <= k  BY <1>0, <2>3
  <2> QED BY <2>4 DEF U
<1> DEFINE st0  == [stop |-> "no", offset |-> 0, evts |-> <<>>]
           R    == Ended(at[k], Upto(C, k), end)
           E(i) == IF i <= k THEN Cutting(at[i], Upto(C, i)) ELSE R
           Is(e) == e = [i \in 0 .. N |-> IF i = 0 THEN st0 ELSE nextEvt(e[i - 1], raw)]
           h    == CHOOSE e : Is(e)
           f    == [i \in 0 .. N |-> E(i)]
<1>7. E(0) = st0
  <2>1. 0 <= k  BY <1>0
  <2>2. E(0) = Cutting(at[0], Upto(C, 0))  BY <2>1
  <2>3. at[0] = 0  BY <1>1 DEF Pieces
  <2>4. Upto(C, 0) = <<>>
    <3>1. 1 .. 0 - 1 = {}  OBVIOUS
    <3>2. Upto(C, 0) = [j \in {} |-> Event(C[j + 1])]  BY <3>1, Zenon DEF Upto
    <3> QED BY <3>2
  <2> QED BY <2>2, <2>3, <2>4 DEF Cutting
<1>8. ASSUME NEW i \in 1 .. N
      PROVE  E(i) = nextEvt(E(i - 1), raw)
  <2>1. CASE i <= k
    <3>1. i \in 1 .. k /\ i - 1 <= k  BY <1>0, <2>1
    <3>2. E(i) = Cutting(at[i], Upto(C, i)) /\ E(i - 1) = Cutting(at[i - 1], Upto(C, i - 1))
      BY <2>1, <3>1
    <3>3. Cuts(C[i], raw, at[i - 1], Upto(C, i - 1))  BY <1>0, <1>4, <3>1, ChunkCut
    <3>4. Upto(C, i) = IF C[i][4] = 4 THEN Append(Upto(C, i - 1), Event(C[i])) ELSE Upto(C, i - 1)
      BY <3>1, UptoStep DEF k
    <3>5. at[i] = at[i - 1] + Len(C[i])  BY <1>4, <3>1
    <3> HIDE DEF E
    <3> QED BY <3>2, <3>3, <3>4, <3>5 DEF Cuts
  <2>2. CASE i = k + 1
    <3>1. E(i) = R /\ E(i - 1) = Cutting(at[k], Upto(C, k))  BY <1>0, <2>2
    <3>2. Ending(raw, at[k], Upto(C, k), end)  BY <1>5, EndCut DEF N
    <3> HIDE DEF E
    <3> QED BY <3>1, <3>2 DEF Ending
  <2>3. CASE i > k + 1
    <3>1. E(i) = R /\ E(i - 1) = R  BY <1>0, <2>3
    <3>2. Resting(raw, at[k], Upto(C, k), end)  BY <1>5, EndCut DEF N
    <3> HIDE DEF E
    <3> QED BY <3>1, <3>2 DEF Resting
  <2>4. i <= k \/ i = k + 1 \/ i > k + 1  BY <1>0
  <2> HIDE DEF E
  <2> QED BY <2>1, <2>2, <2>3, <2>4
<1> HIDE DEF E
<1>9. Is(f)
  <2>1. \A i \in 0 .. N : E(i) = IF i = 0 THEN st0 ELSE nextEvt(f[i - 1], raw)
    <3> TAKE i \in 0 .. N
    <3>1. CASE i = 0  BY <3>1, <1>7
    <3>2. CASE i # 0
      <4>1. i \in 1 .. N /\ i - 1 \in 0 .. N  BY <1>3, <3>2
      <4>2. f[i - 1] = E(i - 1)  BY <4>1
      <4> HIDE DEF f
      <4> QED BY <1>8, <3>2, <4>1, <4>2
    <3> QED BY <3>1, <3>2
  <2>2. f = [i \in 0 .. N |-> IF i = 0 THEN st0 ELSE nextEvt(f[i - 1], raw)]
    BY <2>1, Zenon
  <2> HIDE DEF f
  <2> QED BY <2>2
<1>10. Is(h)
  <2> HIDE DEF Is, f
  <2> QED BY <1>9, Zenon
<1>11. getNextEvt(raw) = h[N].evts  BY Zenon DEF getNextEvt, N
<1>12. h = [i \in 0 .. N |-> IF i = 0 THEN st0 ELSE nextEvt(h[i - 1], raw)]
  <2> HIDE DEF h
  <2> QED BY <1>10, Zenon
<1> HIDE DEF h, Is, f, st0
<1> DEFINE U == {i \in Nat : i <= N => h[i] = E(i)}
<1>13. 0 \in U
  <2>1. h[0] = st0  BY <1>3, <1>12
  <2> QED BY <1>7, <2>1
<1>14. ASSUME NEW i \in Nat, i \in U PROVE i + 1 \in U
  <2>1. CASE i + 1 <= N
    <3>1. i + 1 \in 0 .. N /\ i + 1 # 0 /\ (i + 1) - 1 = i /\ i + 1 \in 1 .. N /\ i <= N
      BY <1>3, <2>1
    <3>2. h[i + 1] = nextEvt(h[i], raw)  BY <1>12, <3>1
    <3>3. h[i] = E(i)  BY <1>14, <3>1
    <3>4. E(i + 1) = nextEvt(E((i + 1) - 1), raw)  BY <1>8, <3>1
    <3>5. h[i + 1] = E(i + 1)  BY <3>1, <3>2, <3>3, <3>4
    <3> QED BY <3>5
  <2> QED BY <2>1
<1> HIDE DEF U
<1>15. Nat \subseteq U  BY <1>13, <1>14, Successors
<1>16. h[N] = E(N)
  <2>1. N \in U /\ N <= N  BY <1>3, <1>15
  <2> QED BY <2>1 DEF U
<1>17. E(N).evts = Evts(C, end)
  <2>1. CASE end = <<>>
    <3>1. R = Cutting(at[k], Upto(C, k))  BY <2>1 DEF Ended
    <3>2. N = k \/ N > k
      <4>1. at[k] \in Nat  BY <1>3
      <4> QED BY <1>0, <1>3, <1>5, <1>6, <4>1
    <3>3. E(N) = Cutting(at[k], Upto(C, k))
      <4>1. CASE N = k  BY <1>0, <4>1 DEF E
      <4>2. CASE N > k
        <5>1. ~(N <= k)  BY <1>0, <1>3, <4>2
        <5> QED BY <3>1, <5>1 DEF E
      <4> QED BY <3>2, <4>1, <4>2
    <3> QED BY <2>1, <3>3 DEF Cutting, Evts, k
  <2>2. CASE end # <<>>
    <3>1. Len(end) > 0  BY <2>2 DEF Ends
    <3>2. ~(N <= k)
      <4>1. at[k] \in Nat  BY <1>3
      <4> QED BY <1>0, <1>3, <1>5, <1>6, <3>1, <4>1
    <3>3. E(N) = [stop |-> "raised", offset |-> at[k], evts |-> Append(Upto(C, k), Cut)]
      BY <2>2, <3>2 DEF E, Ended
    <3> QED BY <2>2, <3>3 DEF Evts, k
  <2> QED BY <2>1, <2>2
<1> QED BY <1>11, <1>16, <1>17 DEF raw, whole

\* The lines of events, the first n of which do not raise, while one behind
\* them, if there is one, does.
Kind(schema, X, i) == lineOf(schema, X[i]).kind
Quiet(schema, X, n) ==
    /\ \A i \in 1 .. n : Kind(schema, X, i) \in {"None", "line"}
    /\ Len(X) = n \/ (Len(X) = n + 1 /\ Kind(schema, X, n + 1) = "raised")
Seen(schema, X, n) == {i \in 1 .. n : Kind(schema, X, i) = "line"}
Pos(K, i) == Cardinality({j \in K : j <= i})

Lined(schema, X, n, lines) ==
    LET K == Seen(schema, X, n)
    IN  /\ Len(lines) = Cardinality(K) + (Len(X) - n)
        /\ Len(X) = n + 1 => Last(lines).kind = "raised"
        /\ \A i \in K : lines[Pos(K, i)] = lineOf(schema, X[i])

\* Where the places of the lines begin, and how they go on.
Places(K, n) ==
    /\ Pos(K, 0) = 0 /\ Pos(K, n) = Cardinality(K)
    /\ \A i \in Nat :
          /\ Pos(K, i) \in Nat
          /\ i + 1 \in K => Pos(K, i + 1) = Pos(K, i) + 1
          /\ i + 1 \notin K => Pos(K, i + 1) = Pos(K, i)

LEMMA PosStep ==
    ASSUME NEW n \in Nat, NEW K \in SUBSET (1 .. n)
    PROVE  Places(K, n)
<1>0. \A j \in K : j \in Nat /\ j >= 1 /\ j <= n  OBVIOUS
<1>1. IsFiniteSet(K)
  <2>1. IsFiniteSet(1 .. n)  BY FS_Interval
  <2> QED BY <2>1, FS_Subset
<1>2. Pos(K, 0) = 0
  <2>0. \A j \in K : ~(j <= 0)  BY <1>0
  <2>1. {j \in K : j <= 0} = {}  BY <2>0, Zenon
  <2>2. Cardinality({}) = 0  BY FS_EmptySet
  <2> QED BY <2>1, <2>2 DEF Pos
<1>3. Pos(K, n) = Cardinality(K)
  <2>1. {j \in K : j <= n} = K  BY <1>0
  <2> QED BY <2>1 DEF Pos
<1>4. ASSUME NEW i \in Nat
      PROVE  /\ Pos(K, i) \in Nat
             /\ i + 1 \in K => Pos(K, i + 1) = Pos(K, i) + 1
             /\ i + 1 \notin K => Pos(K, i + 1) = Pos(K, i)
  <2> DEFINE A == {j \in K : j <= i}
             B == {j \in K : j <= i + 1}
  <2>1. Pos(K, i) = Cardinality(A) /\ Pos(K, i + 1) = Cardinality(B)  BY DEF Pos
  <2>2. A \subseteq K /\ i + 1 \notin A  OBVIOUS
  <2>b. i + 1 <= i + 1 /\ \A j \in K : j <= i + 1 <=> j <= i \/ j = i + 1  BY <1>0
  <2>3. i + 1 \in K => B = A \cup {i + 1}  BY <2>b, Zenon
  <2>4. i + 1 \notin K => B = A  BY <2>b, Zenon
  <2> HIDE DEF A, B
  <2>5. IsFiniteSet(A)  BY <1>1, <2>2, FS_Subset
  <2>6. Cardinality(A) \in Nat  BY <2>5, FS_CardinalityType
  <2>7. Cardinality(A \cup {i + 1}) = Cardinality(A) + 1  BY <2>2, <2>5, FS_AddElement
  <2> QED BY <2>1, <2>3, <2>4, <2>6, <2>7
<1> QED BY <1>2, <1>3, <1>4 DEF Places

LEMMA LinesAre ==
    ASSUME NEW schema, NEW raw, NEW T, NEW X \in Seq(T), getNextEvt(raw) = X,
           NEW n \in Nat, Quiet(schema, X, n)
    PROVE  Lined(schema, X, n, parseFile(schema, raw))
<1> DEFINE LL == {lineOf(schema, x) : x \in T}
           N  == Len(X)
           g  == [p \in Seq(LL) \X T |-> addLine(schema, p[1], p[2])]
           Is(e) == e = [i \in 0 .. N |-> IF i = 0 THEN <<>> ELSE addLine(schema, e[i - 1], X[i])]
           h  == CHOOSE e : Is(e)
           K  == Seen(schema, X, n)
<1>0. /\ N \in Nat /\ \A i \in 1 .. N : X[i] \in T /\ lineOf(schema, X[i]) \in LL
      /\ N = n \/ N = n + 1
  BY DEF Quiet
<1>1. g \in [Seq(LL) \X T -> Seq(LL)]
  <2>1. ASSUME NEW p \in Seq(LL) \X T PROVE addLine(schema, p[1], p[2]) \in Seq(LL)
    <3>1. PICK ls \in Seq(LL), x \in T : ls = p[1] /\ x = p[2]  OBVIOUS
    <3>2. PICK l \in LL : l = lineOf(schema, x)  OBVIOUS
    <3>3. Append(ls, l) \in Seq(LL)
      <4> HIDE DEF LL
      <4> QED OBVIOUS
    <3>4. addLine(schema, ls, x) = ls \/ addLine(schema, ls, x) = Append(ls, l)
      <4> HIDE DEF LL
      <4> QED BY <3>2, Zenon DEF addLine
    <3> HIDE DEF LL
    <3> QED BY <3>1, <3>3, <3>4
  <2> HIDE DEF LL
  <2> QED BY <2>1, Zenon
<1>2. PICK f \in [0 .. N -> Seq(LL)] : Folds(f, <<>>, g, X)
  <2>1. <<>> \in Seq(LL)  OBVIOUS
  <2> HIDE DEF g, LL
  <2> QED BY <1>1, <2>1, Folding
<1> HIDE DEF LL
<1>3. Is(f)
  <2>1. ASSUME NEW i \in 0 .. N
        PROVE  (IF i = 0 THEN <<>> ELSE g[<<f[i - 1], X[i]>>])
                 = (IF i = 0 THEN <<>> ELSE addLine(schema, f[i - 1], X[i]))
    <3>1. CASE i # 0
      <4>1. i - 1 \in 0 .. N /\ i \in 1 .. N  BY <1>0, <3>1
      <4>2. <<f[i - 1], X[i]>> \in Seq(LL) \X T  BY <1>0, <1>2, <4>1
      <4>3. g[<<f[i - 1], X[i]>>] = addLine(schema, f[i - 1], X[i])  BY <4>2
      <4> HIDE DEF g
      <4> QED BY <3>1, <4>3
    <3> QED BY <3>1
  <2>2. f = [i \in 0 .. N |-> IF i = 0 THEN <<>> ELSE g[<<f[i - 1], X[i]>>]]
    <3> HIDE DEF g
    <3> QED BY <1>2 DEF Folds
  <2> HIDE DEF g
  <2> QED BY <2>1, <2>2, Zenon
<1>4. Is(h)
  <2> HIDE DEF Is
  <2> QED BY <1>3, Zenon
<1>5. parseFile(schema, raw) = h[N]
  <2>1. parseFile(schema, raw)
          = (CHOOSE e : e = [i \in 0 .. Len(getNextEvt(raw)) |->
                               IF i = 0 THEN <<>>
                               ELSE addLine(schema, e[i - 1], getNextEvt(raw)[i])])[Len(getNextEvt(raw))]
    BY Zenon DEF parseFile
  <2> QED BY <2>1
<1>6. h = [i \in 0 .. N |-> IF i = 0 THEN <<>> ELSE addLine(schema, h[i - 1], X[i])]
  <2> HIDE DEF h
  <2> QED BY <1>4, Zenon
<1> HIDE DEF h, Is, g, N
<1>7. K \in SUBSET (1 .. n) /\ Places(K, n)
  <2>1. K \in SUBSET (1 .. n)  BY DEF Seen
  <2> HIDE DEF K
  <2> QED BY <2>1, PosStep
<1>k. \A i \in 1 .. n : i \in K <=> Kind(schema, X, i) = "line"  BY DEF Seen
<1> HIDE DEF K
<1> DEFINE Good(i) ==
             /\ h[i] \in Seq(LL) /\ Len(h[i]) = Pos(K, i)
             /\ \A q \in 1 .. Len(h[i]) : h[i][q].kind = "line"
             /\ \A j \in K : j <= i => /\ Pos(K, j) \in 1 .. Len(h[i])
                                       /\ h[i][Pos(K, j)] = lineOf(schema, X[j])
           U == {i \in Nat : i <= n => Good(i)}
<1>8. 0 \in U
  <2>1. h[0] = <<>>  BY <1>0, <1>6
  <2>2. \A j \in K : ~(j <= 0)  BY <1>7
  <2>3. Pos(K, 0) = 0  BY <1>7 DEF Places
  <2>4. Good(0)
    <3>1. <<>> \in Seq(LL) /\ Len(<<>>) = 0 /\ 1 .. 0 = {}  OBVIOUS
    <3> QED BY <2>1, <2>2, <2>3, <3>1
  <2> HIDE DEF Good
  <2> QED BY <2>4
<1>9. ASSUME NEW i \in Nat, i \in U PROVE i + 1 \in U
  <2>1. CASE i + 1 <= n
    <3> DEFINE l == lineOf(schema, X[i + 1])
    <3>1. i + 1 \in 1 .. n /\ i + 1 \in 1 .. N /\ (i + 1) - 1 = i /\ i <= n /\ i + 1 # 0
      BY <1>0, <2>1
    <3>2. Good(i)
      <4>1. i \in U => (i <= n => Good(i))
        <5> HIDE DEF Good
        <5> QED OBVIOUS
      <4> HIDE DEF U, Good
      <4> QED BY <1>9, <3>1, <4>1
    <3>3. h[i + 1] = addLine(schema, h[i], X[i + 1])
      <4>1. \A k \in 0 .. N : k # 0 => h[k] = addLine(schema, h[k - 1], X[k])
        <5> HIDE DEF U, Good
        <5> QED BY <1>6
      <4>2. i + 1 \in 0 .. N  BY <1>0, <3>1
      <4>3. h[i + 1] = addLine(schema, h[(i + 1) - 1], X[i + 1])
        <5> HIDE DEF U, Good
        <5> QED BY <3>1, <4>1, <4>2
      <4> QED BY <3>1, <4>3
    <3>4. ~(h[i] # <<>> /\ Last(h[i]).kind = "raised")
      <4>1. CASE h[i] # <<>>
        <5>1. Len(h[i]) \in 1 .. Len(h[i])  BY <3>2, <4>1
        <5>2. h[i][Len(h[i])].kind = "line"  BY <3>2, <5>1
        <5> QED BY <5>2 DEF Last
      <4> QED BY <4>1
    <3>5. /\ Pos(K, i) \in Nat
          /\ Pos(K, i + 1) = IF i + 1 \in K THEN Pos(K, i) + 1 ELSE Pos(K, i)
      BY <1>7 DEF Places
    <3>6. Kind(schema, X, i + 1) \in {"None", "line"} /\ Kind(schema, X, i + 1) = l.kind
      BY <3>1 DEF Quiet, Kind
    <3>7. CASE i + 1 \notin K
      <4>1. l.kind = "None"  BY <1>k, <3>1, <3>6, <3>7
      <4>2. h[i + 1] = h[i]  BY <3>3, <3>4, <4>1, Zenon DEF addLine
      <4>3. \A j \in K : j <= i + 1 => j <= i
        <5>1. \A j \in K : j \in Nat /\ j # i + 1  BY <1>7, <3>7
        <5> QED BY <5>1
      <4> HIDE DEF l
      <4> QED BY <3>2, <3>5, <3>7, <4>2, <4>3
    <3>8. CASE i + 1 \in K
      <4>1. l.kind = "line"  BY <1>k, <3>1, <3>6, <3>8
      <4>2. h[i + 1] = Append(h[i], l)
        <5>1. l.kind # "None"  BY <4>1
        <5> QED BY <3>3, <3>4, <5>1, Zenon DEF addLine
      <4>3. l \in LL  BY <1>0, <3>1
      <4> DEFINE a == h[i]
      <4>4. a \in Seq(LL) /\ Len(a) = Pos(K, i) /\ Len(a) \in Nat  BY <3>2, <3>5
      <4>5. /\ Append(a, l) \in Seq(LL) /\ Len(Append(a, l)) = Len(a) + 1
            /\ \A q \in 1 .. Len(a) : Append(a, l)[q] = a[q]
            /\ Append(a, l)[Len(a) + 1] = l
        <5> HIDE DEF a, l
        <5> QED BY <4>3, <4>4, AppendProperties
      <4>6. Len(h[i + 1]) = Pos(K, i + 1)  BY <3>5, <3>8, <4>2, <4>4, <4>5
      <4>7. \A q \in 1 .. Len(h[i + 1]) : h[i + 1][q].kind = "line"
        <5> TAKE q \in 1 .. Len(h[i + 1])
        <5>1. q \in 1 .. Len(a) \/ q = Len(a) + 1  BY <4>2, <4>4, <4>5
        <5>2. CASE q \in 1 .. Len(a)
          <6>1. a[q].kind = "line"  BY <3>2, <5>2
          <6>2. h[i + 1][q] = a[q]  BY <4>2, <4>5, <5>2
          <6> QED BY <6>1, <6>2
        <5>3. CASE q = Len(a) + 1
          <6>1. h[i + 1][q] = l  BY <4>2, <4>5, <5>3
          <6> QED BY <4>1, <6>1
        <5> QED BY <5>1, <5>2, <5>3
      <4>8. ASSUME NEW j \in K, j <= i + 1
            PROVE  /\ Pos(K, j) \in 1 .. Len(h[i + 1])
                   /\ h[i + 1][Pos(K, j)] = lineOf(schema, X[j])
        <5>1. j \in Nat  BY <1>7
        <5>2. CASE j = i + 1
          <6>1. Pos(K, j) = Len(a) + 1  BY <3>5, <3>8, <4>4, <5>2
          <6>2. h[i + 1][Pos(K, j)] = l  BY <4>2, <4>5, <6>1
          <6>3. Pos(K, j) \in 1 .. Len(h[i + 1])  BY <4>2, <4>4, <4>5, <6>1
          <6> QED BY <5>2, <6>2, <6>3
        <5>3. CASE j # i + 1
          <6>1. j <= i  BY <4>8, <5>1, <5>3
          <6>2. Pos(K, j) \in 1 .. Len(a) /\ a[Pos(K, j)] = lineOf(schema, X[j])
            BY <3>2, <6>1
          <6>3. h[i + 1][Pos(K, j)] = a[Pos(K, j)]  BY <4>2, <4>5, <6>2
          <6>4. Pos(K, j) \in 1 .. Len(h[i + 1])  BY <4>2, <4>4, <4>5, <6>2
          <6> QED BY <6>2, <6>3, <6>4
        <5> QED BY <5>2, <5>3
      <4>9. h[i + 1] \in Seq(LL)  BY <4>2, <4>5
      <4> HIDE DEF a, l
      <4> QED BY <4>6, <4>7, <4>8, <4>9
    <3> HIDE DEF Good
    <3> QED BY <3>7, <3>8
  <2> QED BY <2>1
<1> HIDE DEF U
<1>10. Nat \subseteq U  BY <1>8, <1>9, Successors
<1>11. Good(n)
  <2>1. n \in U /\ n <= n  BY <1>10
  <2> HIDE DEF Good
  <2> QED BY <2>1 DEF U
<1>12. Pos(K, n) = Cardinality(K) /\ Pos(K, n) \in Nat  BY <1>7 DEF Places
<1>13. CASE N = n
  <2>1. Len(h[N]) = Cardinality(K) + (N - n)
    <3>1. Cardinality(K) \in Nat  BY <1>12
    <3> QED BY <1>11, <1>12, <1>13, <3>1
  <2>2. N # n + 1  BY <1>13
  <2>3. \A j \in K : h[N][Pos(K, j)] = lineOf(schema, X[j])
    <3>1. \A j \in K : j <= n  BY <1>7
    <3> QED BY <1>11, <1>13, <3>1
  <2> QED BY <1>5, <2>1, <2>2, <2>3 DEF Lined, N, K
<1>14. CASE N = n + 1
  <2> DEFINE l == lineOf(schema, X[n + 1])
             a == h[n]
  <2>1. n + 1 \in 0 .. N /\ n + 1 # 0 /\ (n + 1) - 1 = n /\ n + 1 \in 1 .. N  BY <1>14
  <2>2. h[n + 1] = addLine(schema, a, X[n + 1])  BY <1>6, <2>1
  <2>3. l.kind = "raised"
    <3>1. Len(X) # n  BY <1>14 DEF N
    <3> QED BY <3>1 DEF Quiet, Kind
  <2>4. ~(a # <<>> /\ Last(a).kind = "raised")
    <3>1. CASE a # <<>>
      <4>1. Len(a) \in 1 .. Len(a)  BY <1>11, <3>1
      <4>2. a[Len(a)].kind = "line"  BY <1>11, <4>1
      <4> QED BY <4>2 DEF Last
    <3> QED BY <3>1
  <2>5. h[n + 1] = Append(a, l)
    <3>1. l.kind # "None"  BY <2>3
    <3> QED BY <2>2, <2>4, <3>1, Zenon DEF addLine
  <2>6. l \in LL  BY <1>0, <2>1
  <2>7. a \in Seq(LL) /\ Len(a) = Cardinality(K) /\ Len(a) \in Nat
    <3>1. a \in Seq(LL)  BY <1>11
    <3> QED BY <3>1, <1>11, <1>12, LenProperties
  <2>8. /\ Append(a, l) \in Seq(LL) /\ Len(Append(a, l)) = Len(a) + 1
        /\ \A q \in 1 .. Len(a) : Append(a, l)[q] = a[q]
        /\ Append(a, l)[Len(a) + 1] = l
    <3> HIDE DEF a, l
    <3> QED BY <2>6, <2>7, AppendProperties
  <2>9. Len(h[N]) = Cardinality(K) + (N - n)  BY <1>14, <2>5, <2>7, <2>8
  <2>10. Last(h[N]).kind = "raised"
    <3>1. Last(h[N]) = l  BY <1>14, <2>5, <2>8 DEF Last
    <3> QED BY <2>3, <3>1
  <2>11. ASSUME NEW j \in K PROVE h[N][Pos(K, j)] = lineOf(schema, X[j])
    <3>1. j <= n  BY <1>7
    <3>2. Pos(K, j) \in 1 .. Len(a) /\ a[Pos(K, j)] = lineOf(schema, X[j])  BY <1>11, <3>1
    <3>3. h[N][Pos(K, j)] = a[Pos(K, j)]  BY <1>14, <2>5, <2>8, <3>2
    <3> QED BY <3>2, <3>3
  <2> HIDE DEF a, l
  <2> QED BY <1>5, <1>14, <2>9, <2>10, <2>11 DEF Lined, N, K
<1> QED BY <1>0, <1>13, <1>14 DEF N

FileParts(records) ==
    <<OtherRecord>> \o [i \in DOMAIN records |-> Record(records[i].id, records[i].sent, 1)]
RawOf(r) == Record(r.id, r.sent, 1)

LEMMA JoinedAt ==
    ASSUME NEW S, NEW a \in Seq(S), NEW b \in Seq(S)
    PROVE  /\ \A i \in 1 .. Len(a) : (a \o b)[i] = a[i]
           /\ \A i \in 1 .. Len(b) : (a \o b)[Len(a) + i] = b[i]
  OBVIOUS

SameSeven(w, a) ==
    /\ w[1] = a[1] /\ w[2] = a[2] /\ w[3] = a[3] /\ w[4] = a[4]
    /\ w[5] = a[5] /\ w[6] = a[6] /\ w[7] = a[7]

LEMMA SevenFirst ==
    ASSUME NEW a \in Seq(Nat), NEW b \in Seq(Nat), Len(a) = 7
    PROVE  SameSeven(a \o b, a) /\ a \o b \in Seq(Nat) /\ Len(a \o b) = 7 + Len(b)
<1>1. \A i \in 1 .. Len(a) : (a \o b)[i] = a[i]  BY JoinedAt
<1>2. a \o b \in Seq(Nat) /\ Len(a \o b) = Len(a) + Len(b)  BY JoinedType
<1>3. PICK w : w = a \o b  OBVIOUS
<1>4. \A i \in 1 .. Len(a) : w[i] = a[i]  BY <1>1, <1>3, Zenon
<1>5. SameSeven(w, a)  BY <1>4 DEF SameSeven
<1>6. Len(a \o b) = 7 + Len(b)
  <2>1. w \in Seq(Nat) /\ Len(w) = Len(a) + Len(b)  BY <1>2, <1>3, Zenon
  <2>2. Len(w) = 7 + Len(b)  BY <2>1, Zenon
  <2> QED BY <1>3, <2>2, Zenon
<1> QED BY <1>2, <1>3, <1>5, <1>6, Zenon

LEMMA RecordChunk ==
    ASSUME NEW r \in Sent, Len(RawOf(r)) <= 4999
    PROVE  RawOf(r) \in Seq(Nat) /\ Chunk(RawOf(r)) /\ RawOf(r)[4] = 4 /\ RawOf(r)[7] = r.id
<1>0. PICK id \in Nat, sent \in Seq(Parts) : id = r.id /\ sent = r.sent  BY DEF Sent
<1>1. id \in Nat /\ sent \in Seq(Parts) /\ 1 \in Nat  OBVIOUS
<1> DEFINE b == Bodied(sent) \o Padding0(1)
           hdr == <<0, HeaderLen + Len(b), 0, 4, 0, 0, id>>
<1>2. b \in Seq(Nat) /\ Len(b) \in Nat /\ RawOf(r) = hdr \o b
  <2>1. /\ Bodied(sent) \in Seq(Nat) /\ Padding0(1) \in Seq(Nat)
        /\ Record(id, sent, 1) = hdr \o b
    BY <1>1, RecordParts
  <2>2. b \in Seq(Nat)
    <3> HIDE DEF hdr
    <3> QED BY <2>1, JoinedType
  <2> HIDE DEF hdr, b
  <2>3. Len(b) \in Nat  BY <2>2, LenProperties
  <2> QED BY <1>0, <2>1, <2>2, <2>3 DEF RawOf
<1> HIDE DEF b
<1>3. /\ hdr \in Seq(Nat) /\ Len(hdr) = 7
      /\ hdr[1] = 0 /\ hdr[2] = 7 + Len(b) /\ hdr[3] = 0 /\ hdr[4] = 4
      /\ hdr[5] = 0 /\ hdr[6] = 0 /\ hdr[7] = id
  BY <1>1, <1>2 DEF HeaderLen
<1> HIDE DEF hdr
<1> DEFINE w == hdr \o b
<1>4. SameSeven(w, hdr) /\ w \in Seq(Nat) /\ Len(w) = 7 + Len(b)
  BY <1>2, <1>3, SevenFirst
<1>5. RawOf(r) = w  BY <1>2
<1> HIDE DEF w
<1> QED BY <1>0, <1>2, <1>3, <1>4, <1>5 DEF Chunk, SameSeven

\* The parts of a file are chunks.
FileMade(records) ==
    /\ Chunks(FileParts(records)) /\ Len(FileParts(records)) = Len(records) + 1
    /\ \A i \in 1 .. Len(records) : FileParts(records)[i + 1] = RawOf(records[i])

LEMMA FileChunks ==
    ASSUME NEW records \in Seq(Sent), \A i \in 1 .. Len(records) : Len(RawOf(records[i])) <= 4999
    PROVE  FileMade(records)
<1> DEFINE n == Len(records)
           a == <<OtherRecord>>
           b == [i \in DOMAIN records |-> Record(records[i].id, records[i].sent, 1)]
           C == a \o b
<1>1. n \in Nat /\ DOMAIN records = 1 .. n /\ \A i \in 1 .. n : records[i] \in Sent  OBVIOUS
<1>2. \A i \in 1 .. n : b[i] = RawOf(records[i])  BY <1>1 DEF RawOf
<1>3. ASSUME NEW i \in 1 .. n
      PROVE  b[i] \in Seq(Nat) /\ Chunk(b[i]) /\ b[i][4] = 4
  <2>1. records[i] \in Sent /\ Len(RawOf(records[i])) <= 4999  BY <1>1
  <2>2. Chunk(RawOf(records[i])) /\ RawOf(records[i]) \in Seq(Nat) /\ RawOf(records[i])[4] = 4
    BY <2>1, RecordChunk
  <2> HIDE DEF b
  <2> QED BY <1>2, <2>2
<1>4. b \in Seq(Seq(Nat)) /\ Len(b) = n
  <2>0. DOMAIN b = 1 .. n  BY <1>1
  <2>1. b = [i \in 1 .. n |-> b[i]]  BY <1>1
  <2> HIDE DEF b
  <2>2. b \in [1 .. n -> Seq(Nat)]  BY <1>3, <2>1
  <2>3. b \in Seq(Seq(Nat))  BY <1>1, <2>2, SeqDef
  <2>4. DOMAIN b = 1 .. Len(b) /\ Len(b) \in Nat  BY <2>3, LenProperties
  <2> QED BY <1>1, <2>0, <2>3, <2>4
<1> HIDE DEF b
<1>5. OtherRecord \in Seq(Nat) /\ Chunk(OtherRecord) /\ OtherRecord[4] # 4
  <2>1. OtherRecord \in Seq(Nat) /\ Len(OtherRecord) = 8  BY DEF OtherRecord
  <2>2. /\ OtherRecord[1] = 0 /\ OtherRecord[2] = 8 /\ OtherRecord[3] = 0 /\ OtherRecord[4] = 0
        /\ OtherRecord[5] = 0 /\ OtherRecord[6] = 0
    BY DEF OtherRecord
  <2> QED BY <2>1, <2>2 DEF Chunk
<1>6. a \in Seq(Seq(Nat)) /\ Len(a) = 1 /\ a[1] = OtherRecord  BY <1>5
<1> HIDE DEF a
<1>7. C \in Seq(Seq(Nat)) /\ Len(C) = n + 1
  <2>1. C \in Seq(Seq(Nat)) /\ Len(C) = Len(a) + Len(b)
    <3>1. a \in Seq(Seq(Nat)) /\ b \in Seq(Seq(Nat))  BY <1>4, <1>6
    <3> QED BY <3>1, JoinedType
  <2> HIDE DEF C, n
  <2> QED BY <1>1, <1>4, <1>6, <2>1
<1>j. /\ \A i \in 1 .. Len(a) : C[i] = a[i]
      /\ \A i \in 1 .. Len(b) : C[Len(a) + i] = b[i]
  <2>1. a \in Seq(Seq(Nat)) /\ b \in Seq(Seq(Nat))  BY <1>4, <1>6
  <2> QED BY <2>1, JoinedAt
<1>8. C[1] = OtherRecord
  <2>1. 1 \in 1 .. Len(a)  BY <1>6
  <2> HIDE DEF C
  <2> QED BY <1>6, <1>j, <2>1
<1>9. \A i \in 1 .. n : C[i + 1] = b[i]
  <2> TAKE i \in 1 .. n
  <2>1. i \in 1 .. Len(b) /\ i + 1 = Len(a) + i  BY <1>1, <1>4, <1>6
  <2> HIDE DEF C
  <2> QED BY <2>1, <1>j
<1>10. FileParts(records) = C  BY DEF FileParts, a, b
<1> HIDE DEF C
<1>11. Chunks(C)
  <2>1. ASSUME NEW i \in 1 .. Len(C) PROVE Chunk(C[i]) /\ (C[i][4] = 4 <=> i > 1)
    <3>1. CASE i = 1  BY <1>5, <1>8, <3>1
    <3>2. CASE i # 1
      <4>1. PICK j \in 1 .. n : i = j + 1
        <5>1. i - 1 \in 1 .. n /\ i = (i - 1) + 1  BY <1>1, <1>7, <3>2
        <5> QED BY <5>1
      <4>2. C[i] = b[j] /\ i > 1  BY <1>9, <4>1
      <4> QED BY <1>3, <4>2
    <3> QED BY <3>1, <3>2
  <2>2. Len(C) > 0  BY <1>1, <1>7
  <2> QED BY <1>7, <2>1, <2>2 DEF Chunks
<1>12. \A i \in 1 .. n : C[i + 1] = RawOf(records[i])  BY <1>2, <1>9
<1> QED BY <1>7, <1>10, <1>11, <1>12 DEF FileMade

\* The events of a file: those of its records, and perhaps Cut.
EventsMade(records, end, X) ==
    /\ \E T : X \in Seq(T)
    /\ Len(X) = Len(records) + (IF end = <<>> THEN 0 ELSE 1)
    /\ \A i \in 1 .. Len(records) : X[i] = [id |-> records[i].id, raw |-> RawOf(records[i])]
    /\ end # <<>> => X[Len(records) + 1] = Cut

LEMMA FileEvents ==
    ASSUME NEW records \in Seq(Sent), NEW end \in Ends,
           \A i \in 1 .. Len(records) : Len(RawOf(records[i])) <= 4999
    PROVE  EventsMade(records, end, getNextEvt(FileOf(records, end)))
<1> DEFINE C == FileParts(records)
           n == Len(records)
           u == Upto(C, n + 1)
           T == {Event(C[j + 1]) : j \in 1 .. n} \cup {Cut}
<1>0. n \in Nat /\ \A i \in 1 .. n : records[i] \in Sent  OBVIOUS
<1>1. FileMade(records)  BY FileChunks
<1>2. FileOf(records, end) = FlattenSeq(C) \o end  BY DEF FileOf, FileParts
<1>3. Chunks(C) /\ Len(C) = n + 1 /\ \A i \in 1 .. n : C[i + 1] = RawOf(records[i])
  BY <1>1 DEF FileMade
<1> HIDE DEF C
<1>4. getNextEvt(FileOf(records, end)) = Evts(C, end)
  <2>1. getNextEvt(FlattenSeq(C) \o end) = Evts(C, end)  BY <1>3, FileCut
  <2> QED BY <1>2, <2>1
<1>5. u \in Seq(T) /\ Len(u) = n /\ \A i \in 1 .. n : u[i] = Event(C[i + 1])
  <2>1. (n + 1) - 1 = n  BY <1>0
  <2>2. u = [j \in 1 .. n |-> Event(C[j + 1])]  BY <2>1 DEF Upto
  <2>3. \A j \in 1 .. n : Event(C[j + 1]) \in T  OBVIOUS
  <2> HIDE DEF u, T
  <2>4. u \in [1 .. n -> T]  BY <2>2, <2>3
  <2>5. u \in Seq(T)  BY <1>0, <2>4, SeqDef
  <2> QED BY <1>0, <2>2, <2>5
<1>6. \A i \in 1 .. n : Event(C[i + 1]) = [id |-> records[i].id, raw |-> RawOf(records[i])]
  <2> TAKE i \in 1 .. n
  <2>1. RawOf(records[i])[7] = records[i].id  BY <1>0, RecordChunk
  <2> QED BY <1>3, <2>1 DEF Event
<1>7. Cut \in T  OBVIOUS
<1> HIDE DEF u, T
<1>8. CASE end = <<>>
  <2>1. Evts(C, end) = u  BY <1>3, <1>8 DEF Evts, u
  <2> QED BY <1>0, <1>4, <1>5, <1>6, <1>8, <2>1 DEF EventsMade
<1>9. CASE end # <<>>
  <2>1. Evts(C, end) = Append(u, Cut)  BY <1>3, <1>9 DEF Evts, u
  <2>2. /\ Append(u, Cut) \in Seq(T) /\ Len(Append(u, Cut)) = n + 1
        /\ \A i \in 1 .. n : Append(u, Cut)[i] = u[i]
        /\ Append(u, Cut)[n + 1] = Cut
    BY <1>5, <1>7, AppendProperties
  <2>3. \A i \in 1 .. n : Append(u, Cut)[i] = [id |-> records[i].id, raw |-> RawOf(records[i])]
    BY <1>5, <1>6, <2>2
  <2> HIDE DEF n
  <2>4. Len(Append(u, Cut)) = n + (IF end = <<>> THEN 0 ELSE 1)  BY <1>9, <2>2
  <2> QED BY <1>4, <1>9, <2>1, <2>2, <2>3, <2>4 DEF EventsMade, n
<1> QED BY <1>8, <1>9

\* The line of a record.
LineIs(schema, r, x, p) ==
    IF getEvent(schema, r.id, schema.isFiltered) = {} THEN lineOf(schema, x).kind = "None"
    ELSE lineOf(schema, x).kind = "line" /\ lineOf(schema, x).result = p.result

LEMMA RecordLine ==
    ASSUME NEW schema, NEW r \in Sent, NEW x, x = [id |-> r.id, raw |-> RawOf(r)],
           NEW p, p = parseEvent(schema, r.id, RawOf(r), schema.isFiltered),
           p.kind # "raised"
    PROVE  LineIs(schema, r, x, p)
<1>1. x.id = r.id /\ x.raw = RawOf(r)  OBVIOUS
<1>2. x # Cut
  <2>1. r.id \in Nat  BY DEF Sent
  <2>2. Cut.id = -1  BY DEF Cut
  <2> QED BY <1>1, <2>1, <2>2
<1>3. p = parseEvent(schema, x.id, x.raw, schema.isFiltered)  BY <1>1
<1> DEFINE done == parseFields((CHOOSE e \in getEvent(schema, r.id, schema.isFiltered) : TRUE).fields,
                               RawOf(r), schema.isFiltered)
<1>4. CASE getEvent(schema, r.id, schema.isFiltered) = {}
  <2>1. p = [kind |-> "None"]  BY <1>4, Zenon DEF parseEvent
  <2>2. p.kind = "None"  BY <2>1
  <2>3. "None" # "result"  OBVIOUS
  <2>4. lineOf(schema, x) = p  BY <1>2, <1>3, <2>2, <2>3, Zenon DEF lineOf
  <2> QED BY <1>4, <2>2, <2>4 DEF LineIs
<1>5. CASE getEvent(schema, r.id, schema.isFiltered) # {}
  <2>1. p = [kind |-> "raised"] \/ p = [kind |-> "result", result |-> done.result]
    BY <1>5, Zenon DEF parseEvent
  <2> HIDE DEF done
  <2>2. p.kind = "result"  BY <2>1
  <2>3. PICK k : lineOf(schema, x) = [kind |-> "line", result |-> p.result, keys |-> k]
    BY <1>2, <1>3, <2>2, Zenon DEF lineOf
  <2> QED BY <1>5, <2>3 DEF LineIs
<1> QED BY <1>4, <1>5

\* The lines of a file's records, those at K being known to the schema.
AloneOf(schema, r) == parseEvent(schema, r.id, RawOf(r), schema.isFiltered)
KnownOf(schema, records) ==
    {i \in DOMAIN records : getEvent(schema, records[i].id, schema.isFiltered) # {}}
LinesMade(schema, records, K, end, lines) ==
    /\ Len(lines) = Cardinality(K) + (IF end = <<>> THEN 0 ELSE 1)
    /\ end # <<>> => Last(lines).kind = "raised"
    /\ \A i \in K : /\ lines[Pos(K, i)].kind = "line"
                    /\ lines[Pos(K, i)].result = AloneOf(schema, records[i]).result

\* What the events of a file are, one by one.
LineAt(schema, r, x, known) ==
    /\ ~known => lineOf(schema, x).kind = "None"
    /\ known => /\ lineOf(schema, x).kind = "line"
                /\ lineOf(schema, x).result = AloneOf(schema, r).result

LEMMA RecordLineAt ==
    ASSUME NEW schema, NEW r \in Sent, NEW x, x = [id |-> r.id, raw |-> RawOf(r)],
           AloneOf(schema, r).kind # "raised"
    PROVE  LineAt(schema, r, x, getEvent(schema, r.id, schema.isFiltered) # {})
<1>1. PICK p : p = AloneOf(schema, r)  OBVIOUS
<1>2. p = parseEvent(schema, r.id, RawOf(r), schema.isFiltered)  BY <1>1 DEF AloneOf
<1>3. p.kind # "raised"  BY <1>1
<1>4. LineIs(schema, r, x, p)  BY <1>2, <1>3, RecordLine
<1> QED BY <1>1, <1>4, Zenon DEF LineIs, LineAt

LEMMA FileLines ==
    ASSUME NEW schema, NEW records \in Seq(Sent), NEW end \in Ends,
           NEW n \in Nat, n = Len(records),
           NEW K, K = KnownOf(schema, records),
           NEW X, EventsMade(records, end, X), NEW raw, getNextEvt(raw) = X,
           \A i \in 1 .. n : AloneOf(schema, records[i]).kind # "raised"
    PROVE  LinesMade(schema, records, K, end, parseFile(schema, raw))
<1>1. DOMAIN records = 1 .. n /\ \A i \in 1 .. n : records[i] \in Sent  OBVIOUS
<1>2. K \subseteq 1 .. n  BY <1>1 DEF KnownOf
<1>3. /\ Len(X) = n + (IF end = <<>> THEN 0 ELSE 1)
      /\ \A i \in 1 .. n : X[i] = [id |-> records[i].id, raw |-> RawOf(records[i])]
      /\ end # <<>> => X[n + 1] = Cut
  BY DEF EventsMade
<1>4. ASSUME NEW i \in 1 .. n
      PROVE  LineAt(schema, records[i], X[i], i \in K)
  <2>a. PICK r \in Sent : r = records[i]  BY <1>1
  <2>b. PICK x : x = X[i]  OBVIOUS
  <2>1. r = records[i] /\ x = X[i]  BY <2>a, <2>b
  <2>2. x = [id |-> r.id, raw |-> RawOf(r)]  BY <1>3, <2>1
  <2>3. AloneOf(schema, r).kind # "raised"  BY <2>1
  <2>4. LineAt(schema, r, x, getEvent(schema, r.id, schema.isFiltered) # {})
    BY <2>2, <2>3, RecordLineAt
  <2>5. i \in K <=> getEvent(schema, r.id, schema.isFiltered) # {}  BY <1>1, <2>1 DEF KnownOf
  <2> QED BY <2>1, <2>4, <2>5, Zenon DEF LineAt
<1>5. \A i \in 1 .. n : i \in K <=> Kind(schema, X, i) = "line"
  BY <1>4 DEF LineAt, Kind
<1>6. K = Seen(schema, X, n)
  <2>1. \A i : i \in K <=> i \in 1 .. n /\ Kind(schema, X, i) = "line"  BY <1>2, <1>5, Zenon
  <2>2. \A i : i \in Seen(schema, X, n) <=> i \in 1 .. n /\ Kind(schema, X, i) = "line"
    BY Zenon DEF Seen
  <2>3. \A i : i \in K <=> i \in Seen(schema, X, n)  BY <2>1, <2>2, Zenon
  <2> QED BY <2>3, Zenon
<1>7. \A i \in 1 .. n : Kind(schema, X, i) \in {"None", "line"}
  BY <1>4 DEF LineAt, Kind
<1>8. CASE end = <<>>
  <2>1. Len(X) = n
    <3>1. Len(X) = n + 0  BY <1>3, <1>8, Zenon
    <3> QED BY <3>1
  <2>2. Quiet(schema, X, n)  BY <1>7, <2>1 DEF Quiet
  <2>3. Lined(schema, X, n, parseFile(schema, raw))
    <3>1. PICK T : X \in Seq(T)  BY DEF EventsMade
    <3> QED BY <2>2, <3>1, LinesAre
  <2>4. LinesMade(schema, records, K, end, parseFile(schema, raw))
    <3>1. PICK lines : lines = parseFile(schema, raw)  OBVIOUS
    <3>2. Len(lines) = Cardinality(K) + (Len(X) - n) /\ \A i \in K : lines[Pos(K, i)] = lineOf(schema, X[i])
      BY <1>6, <2>3, <3>1, Zenon DEF Lined
    <3>3. Len(X) - n = 0  BY <2>1
    <3>4. \A i \in K : /\ lineOf(schema, X[i]).kind = "line"
                       /\ lineOf(schema, X[i]).result = AloneOf(schema, records[i]).result
      BY <1>2, <1>4 DEF LineAt
    <3>5. Len(lines) = Cardinality(K) + (IF end = <<>> THEN 0 ELSE 1)  BY <1>8, <3>2, <3>3, Zenon
    <3>6. LinesMade(schema, records, K, end, lines)  BY <1>8, <3>2, <3>4, <3>5, Zenon DEF LinesMade
    <3> QED BY <3>1, <3>6
  <2> QED BY <2>4
<1>9. CASE end # <<>>
  <2>1. Len(X) = n + 1 /\ X[n + 1] = Cut  BY <1>3, <1>9
  <2>2. lineOf(schema, Cut).kind = "raised"
    <3>1. PICK c : c = Cut  OBVIOUS
    <3>2. lineOf(schema, c) = [kind |-> "raised"]  BY <3>1, Zenon DEF lineOf
    <3>3. [kind |-> "raised"].kind = "raised"  OBVIOUS
    <3> QED BY <3>1, <3>2, <3>3, Zenon
  <2>3. Quiet(schema, X, n)  BY <1>7, <2>1, <2>2 DEF Quiet, Kind
  <2>4. Lined(schema, X, n, parseFile(schema, raw))
    <3>1. PICK T : X \in Seq(T)  BY DEF EventsMade
    <3> QED BY <2>3, <3>1, LinesAre
  <2>5. LinesMade(schema, records, K, end, parseFile(schema, raw))
    <3>1. PICK lines : lines = parseFile(schema, raw)  OBVIOUS
    <3>2. /\ Len(lines) = Cardinality(K) + (Len(X) - n)
          /\ Last(lines).kind = "raised"
          /\ \A i \in K : lines[Pos(K, i)] = lineOf(schema, X[i])
      BY <1>6, <2>1, <2>4, <3>1, Zenon DEF Lined
    <3>3. Len(X) - n = 1  BY <2>1
    <3>4. \A i \in K : /\ lineOf(schema, X[i]).kind = "line"
                       /\ lineOf(schema, X[i]).result = AloneOf(schema, records[i]).result
      BY <1>2, <1>4 DEF LineAt
    <3>5. Len(lines) = Cardinality(K) + (IF end = <<>> THEN 0 ELSE 1)  BY <1>9, <3>2, <3>3, Zenon
    <3>6. LinesMade(schema, records, K, end, lines)  BY <3>2, <3>4, <3>5, Zenon DEF LinesMade
    <3> QED BY <3>1, <3>6
  <2> QED BY <2>5
<1> QED BY <1>8, <1>9

\* There is a line for each record of a file whose event the schema has, with
\* what that record alone gives, and what is no record ends it, however many
\* records there are and whatever is in them (parseCTRS.py:263-296, 356-377).
THEOREM FilesComeInRecords == Spec => []FileInRecords
<1>1. RecordInv => FileInRecords
  <2> SUFFICES ASSUME RecordInv, last.kind = "file",
                      \A r \in Range(last.sent) : /\ Len(RawOf(r)) <= 4999
                                                  /\ AloneOf(parser, r).kind # "raised"
               PROVE  LinesMade(parser, last.sent, KnownOf(parser, last.sent), last.end, last.lines)
    BY Zenon DEF FileInRecords, LinesMade, KnownOf, AloneOf, RawOf, Pos
  <2>1. /\ last.sent \in Seq(Sent) /\ last.end \in Ends
        /\ last.lines = parseFile(parser, FileOf(last.sent, last.end))
    BY DEF RecordInv
  <2>a. PICK records \in Seq(Sent), end \in Ends : records = last.sent /\ end = last.end
    BY <2>1
  <2>b. PICK n \in Nat : n = Len(records)  OBVIOUS
  <2>c. PICK raw : raw = FileOf(records, end)  OBVIOUS
  <2>d. PICK K, X : K = KnownOf(parser, records) /\ X = getNextEvt(raw)  OBVIOUS
  <2>2. /\ records = last.sent /\ end = last.end /\ K = KnownOf(parser, records)
        /\ raw = FileOf(records, end) /\ X = getNextEvt(raw) /\ n = Len(records)
    BY <2>a, <2>b, <2>c, <2>d
  <2>3. \A i \in 1 .. n : /\ Len(RawOf(records[i])) <= 4999
                          /\ AloneOf(parser, records[i]).kind # "raised"
    <3>1. \A i \in 1 .. n : records[i] \in Range(records)  BY <2>2 DEF Range
    <3> QED BY <2>2, <3>1
  <2>4. EventsMade(records, end, getNextEvt(FileOf(records, end)))  BY <2>2, <2>3, FileEvents
  <2>5. EventsMade(records, end, X)  BY <2>2, <2>4
  <2>6. LinesMade(parser, records, K, end, parseFile(parser, raw))
    BY <2>2, <2>3, <2>5, FileLines
  <2> QED BY <2>1, <2>2, <2>6
<1> QED BY <1>1, RecordInit, RecordStep, PTL DEF Spec
=============================================================================
