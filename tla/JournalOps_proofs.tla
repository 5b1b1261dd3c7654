-------------------------- MODULE JournalOps_proofs ---------------------------
(***************************************************************************)
(* Every operation of JournalOps keeps a database consistent, for any      *)
(* number of events, any texts and tuples and batches of any length.  At   *)
(* the end, what every proof about a loop starts from.                     *)
(***************************************************************************)
EXTENDS JournalOps, SequenceTheorems, FiniteSetTheorems, WellFoundedInduction, TLAPS

-------------------------------------------------------------------------------
(* The inductive invariant, as a predicate on database values: the rows    *)
(* have their shapes, meta and fts have a row set per live event, parents  *)
(* are alive, index rows say what their events say, and the rules about    *)
(* authors and body rows hold.  An operation reads rows of all three       *)
(* tables, so none of these is preserved without the first ones.           *)

Shape(d) ==
  /\ IsJournal(d)
  /\ DOMAIN d.meta = Live(d) /\ DOMAIN d.fts = Live(d)
  /\ \A i \in Live(d) : d.events[i].parent \in Live(d) \cup {NoParent}

RowsAgree(d, i) ==
  /\ d.fts[i] = FTSColumns(d.events[i], d.meta[i])
  /\ OneAuthor(Carried(d, i))
  /\ \A t \in Tuples : d.meta[i][t] = "body" => t \in BodyTags(d.events[i])

Consistent(d) == Shape(d) /\ \A i \in Live(d) : RowsAgree(d, i)

-------------------------------------------------------------------------------
(* AddMany.                                                                *)

(* What AddMany may be handed, whatever texts, tuples and ids it names.    *)
Records == [ title : Texts, body : Texts, meta : SUBSET Tuples,
             parent : Ids \cup {NoParent}, index : Nat,
             at : Stamps \cup {BadStamp} ]

LEMMA BatchShape ==
  ASSUME NEW ins \in Seq(Records)
  PROVE  /\ Len(ins) \in Nat /\ DOMAIN ins = 1..Len(ins)
         /\ \A k \in 1..Len(ins) : ins[k] \in Records
OBVIOUS

LEMMA TextInputs ==
  ASSUME NEW in \in Records
  PROVE  /\ in.title \in Texts /\ in.body \in Texts
         /\ in.parent \in Ids \cup {NoParent}
         /\ in.index \in Nat
         /\ in.at \in Stamps \cup {BadStamp}
         /\ in.meta \subseteq Tuples
BY DEF Records

LEMMA NewRows ==
  ASSUME NEW d, Shape(d), NEW ins \in Seq(Records),
         d.seq + Len(ins) <= MaxId, ValidBatch(ins),
         \A k \in 1..Len(ins) : ~RecordFails(d, ins, k),
         NEW k \in 1..Len(ins)
  PROVE  /\ NewEvent(d, ins[k]) \in EventRow
         /\ NewEvent(d, ins[k]).parent \in
              Live(d) \cup (d.seq+1 .. d.seq+Len(ins)) \cup {NoParent}
         /\ NewMeta(ins[k]) \in [Tuples -> Provenance]
         /\ FTSColumns(ins[k], NewMeta(ins[k])) \in FTSRow
<1> DEFINE in == ins[k]
<1>1. /\ in \in Records /\ Len(ins) \in Nat /\ d.seq \in Nat
      /\ Live(d) \subseteq 1..d.seq
  BY BatchShape DEF Shape, IsJournal, Live
<1>2. ~RecordFails(d, ins, k)  OBVIOUS
<1>3. /\ in.at \in Stamps
      /\ in.parent \in {NoParent} \cup Live(d) \cup (d.seq+1 .. d.seq+k-1)
  BY <1>1, <1>2, TextInputs DEF RecordFails, ParentFound
<1>4. in.index # 0 => d.seq + in.index \in Ids /\ in.index \in 1..Len(ins)
  BY <1>1, MaxIdAssumption DEF ValidBatch, ValidInput, Ids
<1>5. /\ NewEvent(d, in) \in EventRow
      /\ NewEvent(d, in).parent \in
              Live(d) \cup (d.seq+1 .. d.seq+Len(ins)) \cup {NoParent}
  BY <1>1, <1>3, <1>4, TextInputs, MaxIdAssumption DEF NewEvent, EventRow
<1>6. NewMeta(in) \in [Tuples -> Provenance]  BY DEF NewMeta, Provenance
<1>7. FTSColumns(in, NewMeta(in)) \in FTSRow
  BY <1>1, TextInputs DEF FTSColumns, FTSRow
<1> QED  BY <1>5, <1>6, <1>7

LEMMA InsertedShape ==
  ASSUME NEW d, Shape(d), NEW ins \in Seq(Records),
         d.seq + Len(ins) <= MaxId, ValidBatch(ins),
         \A k \in 1..Len(ins) : ~RecordFails(d, ins, k)
  PROVE  Shape(Inserted(d, ins))
<1> DEFINE new == d.seq+1 .. d.seq+Len(ins)
           e == Inserted(d, ins)
<1>1. /\ Len(ins) \in Nat /\ d.seq \in Nat /\ MaxId \in Nat
      /\ Live(d) \subseteq 1..d.seq
  BY BatchShape, MaxIdAssumption DEF Shape, IsJournal, Live
<1>2. /\ DOMAIN e.events = Live(d) \cup new /\ DOMAIN e.meta = Live(d) \cup new
      /\ DOMAIN e.fts = Live(d) \cup new /\ e.seq = d.seq + Len(ins)
      /\ e = [events |-> e.events, meta |-> e.meta, fts |-> e.fts, seq |-> e.seq]
      /\ Live(e) = Live(d) \cup new
  BY DEF Inserted, Live
<1>3. /\ e.seq \in 0..MaxId /\ DOMAIN e.events \subseteq 1..e.seq  BY <1>1, <1>2
<1>4. ASSUME NEW i \in Live(d) \cup new
      PROVE  /\ e.events[i] \in EventRow
             /\ e.events[i].parent \in Live(d) \cup new \cup {NoParent}
             /\ e.meta[i] \in [Tuples -> Provenance]
             /\ e.fts[i] \in FTSRow
  <2>1. CASE i \in Live(d)
    BY <2>1 DEF Inserted, Shape, IsJournal, Live
  <2>2. CASE i \notin Live(d)
    <3>1. i - d.seq \in 1..Len(ins)  BY <1>1, <2>2
    <3>2. /\ e.events[i] = NewEvent(d, ins[i - d.seq])
          /\ e.meta[i] = NewMeta(ins[i - d.seq])
          /\ e.fts[i] = FTSColumns(ins[i - d.seq], NewMeta(ins[i - d.seq]))
      BY <2>2 DEF Inserted
    <3> QED  BY <3>1, <3>2, NewRows
  <2> QED  BY <2>1, <2>2
<1>5. /\ e.events \in [DOMAIN e.events -> EventRow]
      /\ e.meta \in [DOMAIN e.meta -> [Tuples -> Provenance]]
      /\ e.fts \in [DOMAIN e.fts -> FTSRow]
  <2>1. e.events = [i \in Live(d) \cup new |-> e.events[i]]  BY DEF Inserted
  <2>2. e.meta = [i \in Live(d) \cup new |-> e.meta[i]]  BY DEF Inserted
  <2>3. e.fts = [i \in Live(d) \cup new |-> e.fts[i]]  BY DEF Inserted
  <2> QED  BY <1>2, <1>4, <2>1, <2>2, <2>3
<1>6. IsJournal(e)  BY <1>2, <1>3, <1>5 DEF IsJournal
<1> QED  BY <1>2, <1>4, <1>6 DEF Shape

LEMMA NewRowsAgree ==
  ASSUME NEW d, NEW in \in Records, OneAuthor(in.meta)
  PROVE  /\ OneAuthor({t \in Tuples : NewMeta(in)[t] # "none"})
         /\ \A t \in Tuples : NewMeta(in)[t] = "body" => t \in BodyTags(NewEvent(d, in))
BY TextInputs DEF NewMeta, NewEvent, OneAuthor, BodyTags

LEMMA InsertedConsistent ==
  ASSUME NEW d, Consistent(d), NEW ins \in Seq(Records),
         d.seq + Len(ins) <= MaxId, ValidBatch(ins),
         \A k \in 1..Len(ins) : ~RecordFails(d, ins, k)
  PROVE  Consistent(Inserted(d, ins))
<1> DEFINE new == d.seq+1 .. d.seq+Len(ins)
           e == Inserted(d, ins)
<1>1. Shape(e)  BY InsertedShape DEF Consistent
<1>2. /\ Live(e) = Live(d) \cup new /\ Len(ins) \in Nat /\ d.seq \in Nat
      /\ Live(d) \subseteq 1..d.seq
  BY BatchShape DEF Inserted, Live, Consistent, Shape, IsJournal
<1>3. ASSUME NEW i \in Live(e)
      PROVE  RowsAgree(e, i)
  <2>1. CASE i \in Live(d)
    <3>1. /\ e.events[i] = d.events[i] /\ e.meta[i] = d.meta[i] /\ e.fts[i] = d.fts[i]
      BY <2>1 DEF Inserted
    <3> QED  BY <2>1, <3>1 DEF Consistent, RowsAgree, Carried
  <2>2. CASE i \notin Live(d)
    <3> DEFINE in == ins[i - d.seq]
    <3>1. i - d.seq \in 1..Len(ins) /\ i \in Live(d) \cup new  BY <1>2, <2>2
    <3>2. in \in Records /\ OneAuthor(in.meta)
      BY <3>1, BatchShape DEF ValidBatch, ValidInput
    <3>3. /\ e.events[i] = NewEvent(d, in) /\ e.meta[i] = NewMeta(in)
          /\ e.fts[i] = FTSColumns(in, NewMeta(in))
      BY <2>2, <3>1 DEF Inserted
    <3>4. FTSColumns(in, NewMeta(in)) = FTSColumns(NewEvent(d, in), NewMeta(in))
      BY DEF FTSColumns, NewEvent
    <3>5. Carried(e, i) = {t \in Tuples : NewMeta(in)[t] # "none"}
      BY <3>3 DEF Carried
    <3> QED  BY <3>2, <3>3, <3>4, <3>5, NewRowsAgree DEF RowsAgree
  <2> QED  BY <2>1, <2>2
<1> QED  BY <1>1, <1>3 DEF Consistent

LEMMA AddManyConsistent ==
  ASSUME NEW d, Consistent(d), NEW ins \in Seq(Records), d.seq + Len(ins) <= MaxId
  PROVE  Consistent(AddMany(d, ins).db)
<1> DEFINE bad == {k \in 1..Len(ins) : RecordFails(d, ins, k)}
<1>1. CASE ValidBatch(ins) /\ bad = {}
  <2>1. AddMany(d, ins).db = Inserted(d, ins)  BY <1>1 DEF AddMany, Done
  <2>2. \A k \in 1..Len(ins) : ~RecordFails(d, ins, k)  BY <1>1
  <2> QED  BY <1>1, <2>1, <2>2, InsertedConsistent
<1>2. CASE ~(ValidBatch(ins) /\ bad = {})
  <2>1. AddMany(d, ins).db = d  BY <1>2 DEF AddMany, Fail
  <2> QED  BY <2>1
<1> QED  BY <1>1, <1>2

-------------------------------------------------------------------------------
(* Update, AddTags, RemoveTags, UpdateMeta and DeleteMeta: rows of some    *)
(* events change, in place, and their index rows are written again.        *)

DbRecord(d) == d = [events |-> d.events, meta |-> d.meta, fts |-> d.fts, seq |-> d.seq]

Rebuilt(d, ev, m, ids) ==
  [i \in DOMAIN d.fts |-> IF i \in ids THEN FTSColumns(ev[i], m[i]) ELSE d.fts[i]]

Retagged(d, ev, m, ids) ==
  [events |-> ev, meta |-> m, fts |-> Rebuilt(d, ev, m, ids), seq |-> d.seq]

LEMMA RebuildIs ==
  ASSUME NEW d, NEW ev, NEW m, NEW f, NEW s, NEW ids,
         d = [events |-> ev, meta |-> m, fts |-> f, seq |-> s]
  PROVE  RebuildFTS(d, ids) =
           [ events |-> ev, meta |-> m, seq |-> s,
             fts |-> [i \in DOMAIN f |-> IF i \in ids THEN FTSColumns(ev[i], m[i]) ELSE f[i]] ]
<1> DEFINE f2 == [i \in DOMAIN f |-> IF i \in ids THEN FTSColumns(ev[i], m[i]) ELSE f[i]]
           e == RebuildFTS(d, ids)
<1>1. /\ DbRecord(d) /\ d.events = ev /\ d.meta = m /\ d.fts = f /\ d.seq = s
  BY DEF DbRecord
<1>2. e = [d EXCEPT !.fts = f2]  BY <1>1 DEF RebuildFTS
<1> HIDE DEF e, f2
<1>3. e = [events |-> ev, meta |-> m, fts |-> f2, seq |-> s]  BY <1>1, <1>2 DEF DbRecord
<1> QED  BY <1>3 DEF e, f2

LEMMA RetaggedConsistent ==
  ASSUME NEW d, Consistent(d), NEW ids,
         NEW ev \in [Live(d) -> EventRow], NEW m \in [Live(d) -> [Tuples -> Provenance]],
         \A i \in Live(d) : ev[i].parent = d.events[i].parent,
         \A i \in Live(d) \ ids : /\ m[i] = d.meta[i]
                                  /\ ev[i].title = d.events[i].title
                                  /\ ev[i].body = d.events[i].body,
         \A i \in Live(d) \cap ids :
           /\ OneAuthor({t \in Tuples : m[i][t] # "none"})
           /\ \A t \in Tuples : m[i][t] = "body" => t \in BodyTags(ev[i])
  PROVE  Consistent(Retagged(d, ev, m, ids))
<1> DEFINE e == Retagged(d, ev, m, ids)
<1>1. Shape(d)  BY DEF Consistent
<1>2. /\ e = [events |-> ev, meta |-> m, fts |-> e.fts, seq |-> d.seq]
      /\ e.events = ev /\ e.meta = m /\ e.seq = d.seq
      /\ e.fts = [i \in DOMAIN d.fts |->
                    IF i \in ids THEN FTSColumns(ev[i], m[i]) ELSE d.fts[i]]
      /\ Live(e) = Live(d)
  BY DEF Live, Retagged, Rebuilt
<1>3. ASSUME NEW i \in Live(d)
      PROVE  RowsAgree(e, i) /\ e.fts[i] \in FTSRow
  <2>1. RowsAgree(d, i) /\ DOMAIN d.fts = Live(d)  BY DEF Consistent, Shape
  <2>2. Carried(e, i) = {t \in Tuples : m[i][t] # "none"}  BY <1>2 DEF Carried
  <2>3. /\ ev[i].title \in Texts /\ ev[i].body \in Texts  BY DEF EventRow
  <2>4. FTSColumns(ev[i], m[i]) \in FTSRow  BY <2>3 DEF FTSColumns, FTSRow
  <2>5. CASE i \in ids
    BY <1>2, <2>1, <2>2, <2>4, <2>5 DEF RowsAgree
  <2>6. CASE i \notin ids
    <3>1. BodyTags(ev[i]) = BodyTags(d.events[i])  BY <2>6 DEF BodyTags
    <3>2. FTSColumns(ev[i], m[i]) = FTSColumns(d.events[i], d.meta[i])
      BY <2>6 DEF FTSColumns
    <3>3. m[i] = d.meta[i] /\ e.fts[i] = d.fts[i]  BY <1>2, <2>1, <2>6
    <3>4. d.fts[i] \in FTSRow  BY <1>1, <2>1 DEF Shape, IsJournal
    <3> QED  BY <1>2, <2>1, <3>1, <3>2, <3>3, <3>4 DEF RowsAgree, Carried
  <2> QED  BY <2>5, <2>6
<1>4. DOMAIN e.fts = Live(d)  BY <1>1, <1>2 DEF Shape
<1>5. e.fts \in [DOMAIN e.fts -> FTSRow]
  <2>1. e.fts = [i \in DOMAIN e.fts |-> e.fts[i]]  BY <1>2
  <2> QED  BY <1>3, <1>4, <2>1
<1>6. IsJournal(e)
  BY <1>1, <1>2, <1>5 DEF Shape, IsJournal, Live
<1>7. Shape(e)  BY <1>1, <1>2, <1>4, <1>6 DEF Shape
<1> QED  BY <1>2, <1>3, <1>7 DEF Consistent

LEMMA UpdateConsistent ==
  ASSUME NEW d, Consistent(d), NEW id, NEW title \in Texts \cup {Keep},
         NEW body \in Texts \cup {Keep}, NEW at \in Stamps \cup {BadStamp, Keep}
  PROVE  Consistent(Update(d, id, title, body, at).db)
<1> DEFINE e  == d.events[id]
           e2 == Edited(e, title, body, at)
           m2 == SyncedMeta(d.meta[id], BodyTags(e), BodyTags(e2))
           ev == [d.events EXCEPT ![id] = e2]
           m  == [d.meta EXCEPT ![id] = m2]
<1>0. (Shape(d) /\ RowsAgree(d, id)) \/ id \notin Live(d)  BY DEF Consistent
<1>1. CASE Update(d, id, title, body, at).db = d  BY <1>1
<1>2. CASE id \in Live(d) /\ at # BadStamp /\ title # Empty
  <2>1. /\ DbRecord(d)
        /\ d.events \in [Live(d) -> EventRow]
        /\ d.meta \in [Live(d) -> [Tuples -> Provenance]]
        /\ DOMAIN d.fts = Live(d) /\ e \in EventRow
    BY <1>0, <1>2 DEF Shape, IsJournal, Live, DbRecord
  <2>2. e2 \in EventRow /\ e2.parent = e.parent
    BY <1>2, <2>1, TextAssumption, StampAssumption DEF Edited, Or, EventRow
  <2>3. m2 \in [Tuples -> Provenance]  BY <1>2, <2>1 DEF SyncedMeta, Provenance
  <2>4. ev \in [Live(d) -> EventRow] /\ m \in [Live(d) -> [Tuples -> Provenance]]
    BY <2>1, <2>2, <2>3
  <2>5. CASE title = Keep /\ body = Keep
    <3> DEFINE d2 == [d EXCEPT !.events[id] = e2]
    <3>0. Rebuilt(d, ev, d.meta, {}) = d.fts  BY <1>0, <1>2 DEF Rebuilt, Shape, IsJournal
    <3>a. d2 = [d EXCEPT !.events[id] = e2]  OBVIOUS
    <3>b. d2 = [events |-> ev, meta |-> d.meta, fts |-> d.fts, seq |-> d.seq]
      <4> HIDE DEF d2, e2
      <4> QED  BY <2>1, <3>a DEF DbRecord
    <3>1. Retagged(d, ev, d.meta, {}) = d2  BY <3>0, <3>b DEF Retagged
    <3>2. e2.title = e.title /\ e2.body = e.body
      BY <2>1, <2>5 DEF Edited, Or, EventRow
    <3>3. Consistent(Retagged(d, ev, d.meta, {}))
      BY <2>1, <2>2, <2>4, <3>2, RetaggedConsistent
    <3> QED  BY <1>2, <2>5, <3>1, <3>3 DEF Update, Done, Fail
  <2>6. CASE ~(title = Keep /\ body = Keep)
    <3> DEFINE d2 == [d EXCEPT !.events[id] = e2]
               d3 == [d2 EXCEPT !.meta[id] = m2]
    <3>a. d2 = [d EXCEPT !.events[id] = e2] /\ d3 = [d2 EXCEPT !.meta[id] = m2]  OBVIOUS
    <3>b. d2 = [events |-> ev, meta |-> d.meta, fts |-> d.fts, seq |-> d.seq]
      <4> HIDE DEF d2, e2
      <4> QED  BY <2>1, <3>a DEF DbRecord
    <3>c. d3 = [events |-> ev, meta |-> m, fts |-> d.fts, seq |-> d.seq]
      <4> HIDE DEF d2, d3, ev, m2
      <4>1. /\ DbRecord(d2) /\ d2.events = ev /\ d2.meta = d.meta
            /\ d2.fts = d.fts /\ d2.seq = d.seq
        BY <3>b DEF DbRecord
      <4>2. d3 = [events |-> ev, meta |-> [d2.meta EXCEPT ![id] = m2],
                  fts |-> d.fts, seq |-> d.seq]
        BY <3>a, <4>1 DEF DbRecord
      <4> QED  BY <4>1, <4>2 DEF m
    <3>d. RebuildFTS(d3, {id}) = Retagged(d, ev, m, {id})
      <4> HIDE DEF d3, ev, m
      <4> QED  BY <3>c, RebuildIs DEF Retagged, Rebuilt
    <3>1. Update(d, id, title, body, at).db = Retagged(d, ev, m, {id})
      BY <1>2, <2>6, <3>d DEF Update, Done
    <3>2. OneAuthor({t \in Tuples : m2[t] # "none"})
      <4>1. \A t \in Tuples : IsAuthor(t) /\ m2[t] # "none" => d.meta[id][t] # "none"
        <5>1. \A t \in BodyTags(e2) : ~IsAuthor(t)
          BY <2>2, TagAssumption DEF BodyTags, EventRow
        <5> QED  BY <5>1 DEF SyncedMeta
      <4> QED  BY <1>0, <1>2, <4>1 DEF RowsAgree, Carried, OneAuthor
    <3>3. \A t \in Tuples : m2[t] = "body" => t \in BodyTags(e2)
      BY <1>0, <1>2 DEF SyncedMeta, RowsAgree
    <3>4. Consistent(Retagged(d, ev, m, {id}))
      BY <1>2, <2>1, <2>2, <2>4, <3>2, <3>3, RetaggedConsistent
    <3> QED  BY <3>1, <3>4
  <2> QED  BY <2>5, <2>6
<1> QED  BY <1>1, <1>2 DEF Update, Done, Fail

(* Writing the tuples of one event, as AddTags and RemoveTags do.          *)
LEMMA TagsConsistent ==
  ASSUME NEW d, Consistent(d), NEW id \in Live(d), NEW m2 \in [Tuples -> Provenance],
         \A t \in Tuples : \/ m2[t] = d.meta[id][t] \/ m2[t] = "none"
                           \/ m2[t] = "explicit" /\ ~IsAuthor(t)
  PROVE  Consistent(RebuildFTS([d EXCEPT !.meta[id] = m2], {id}))
<1> DEFINE m == [d.meta EXCEPT ![id] = m2]
<1>1. /\ DbRecord(d)
      /\ d.events \in [Live(d) -> EventRow]
      /\ d.meta \in [Live(d) -> [Tuples -> Provenance]]
  BY DEF Consistent, Shape, IsJournal, Live, DbRecord
<1> DEFINE d2 == [d EXCEPT !.meta[id] = m2]
<1>a. d2 = [d EXCEPT !.meta[id] = m2]  OBVIOUS
<1>b. d2 = [events |-> d.events, meta |-> m, fts |-> d.fts, seq |-> d.seq]
  <2> HIDE DEF d2
  <2> QED  BY <1>1, <1>a DEF DbRecord
<1>2. RebuildFTS(d2, {id}) = Retagged(d, d.events, m, {id})
  <2> HIDE DEF d2, m
  <2> QED  BY <1>b, RebuildIs DEF Retagged, Rebuilt
<1>3. m \in [Live(d) -> [Tuples -> Provenance]] /\ m[id] = m2  BY <1>1
<1>4. RowsAgree(d, id)  BY DEF Consistent
<1>5. OneAuthor({t \in Tuples : m2[t] # "none"})
  BY <1>4 DEF RowsAgree, Carried, OneAuthor
<1>6. \A t \in Tuples : m2[t] = "body" => t \in BodyTags(d.events[id])
  BY <1>4 DEF RowsAgree
<1>7. \A i \in Live(d) \ {id} : m[i] = d.meta[i]  BY <1>1
<1>8. Consistent(Retagged(d, d.events, m, {id}))
  <2> HIDE DEF m
  <2> QED  BY <1>1, <1>3, <1>5, <1>6, <1>7, RetaggedConsistent
<1> QED  BY <1>2, <1>8

LEMMA AddTagsConsistent ==
  ASSUME NEW d, Consistent(d), NEW id, NEW tags
  PROVE  Consistent(AddTags(d, id, tags).db)
<1> DEFINE m2 == [t \in Tuples |-> IF t \in tags THEN "explicit" ELSE d.meta[id][t]]
<1>1. CASE AddTags(d, id, tags).db = d  BY <1>1
<1>2. CASE id \in Live(d) /\ \A t \in tags : ~IsAuthor(t)
  <2>1. d.meta[id] \in [Tuples -> Provenance]
    BY <1>2 DEF Consistent, Shape, IsJournal, Live
  <2>2. m2 \in [Tuples -> Provenance]  BY <2>1 DEF Provenance
  <2>3. Consistent(RebuildFTS([d EXCEPT !.meta[id] = m2], {id}))
    BY <1>2, <2>2, TagsConsistent
  <2> QED  BY <1>2, <2>3 DEF AddTags, Done, Fail
<1> QED  BY <1>1, <1>2 DEF AddTags, Done, Fail

LEMMA RemoveTagsConsistent ==
  ASSUME NEW d, Consistent(d), NEW id, NEW tags
  PROVE  Consistent(RemoveTags(d, id, tags).db)
<1> DEFINE m2 == [t \in Tuples |-> IF t \in tags THEN "none" ELSE d.meta[id][t]]
<1>1. CASE RemoveTags(d, id, tags).db = d  BY <1>1
<1>2. CASE id \in Live(d)
  <2>1. d.meta[id] \in [Tuples -> Provenance]
    BY <1>2 DEF Consistent, Shape, IsJournal, Live
  <2>2. m2 \in [Tuples -> Provenance]  BY <2>1 DEF Provenance
  <2>3. Consistent(RebuildFTS([d EXCEPT !.meta[id] = m2], {id}))
    BY <1>2, <2>2, TagsConsistent
  <2> QED  BY <1>2, <2>3 DEF RemoveTags, Done, Fail
<1> QED  BY <1>1, <1>2 DEF RemoveTags, Done, Fail

(* Rewriting one tuple on every event that carries it.                     *)
LEMMA RewriteConsistent ==
  ASSUME NEW d, Consistent(d), NEW t \in Tuples, NEW rows,
         \A i \in MetaEventIDs(d, t) :
           /\ rows[i] \in [Tuples -> Provenance]
           /\ OneAuthor({u \in Tuples : rows[i][u] # "none"})
           /\ \A u \in Tuples : rows[i][u] = "body" => d.meta[i][u] = "body"
  PROVE  Consistent(RewriteMetaTuple(d, t, rows))
<1> DEFINE ids == MetaEventIDs(d, t)
           m2 == [i \in DOMAIN d.meta |-> IF i \in ids THEN rows[i] ELSE d.meta[i]]
           d2 == [d EXCEPT !.meta = m2]
<1>1. /\ DbRecord(d) /\ DOMAIN d.meta = Live(d)
      /\ d.events \in [Live(d) -> EventRow]
      /\ d.meta \in [Live(d) -> [Tuples -> Provenance]]
  BY DEF Consistent, Shape, IsJournal, Live, DbRecord
<1>2. d2 = [d EXCEPT !.meta = m2]  OBVIOUS
<1>3. d2 = [events |-> d.events, meta |-> m2, fts |-> d.fts, seq |-> d.seq]
  <2> HIDE DEF d2, m2
  <2> QED  BY <1>1, <1>2 DEF DbRecord
<1>4. RebuildFTS(d2, ids) = Retagged(d, d.events, m2, ids)
  <2> HIDE DEF d2, m2, ids
  <2> QED  BY <1>3, RebuildIs DEF Retagged, Rebuilt
<1>5. m2 \in [Live(d) -> [Tuples -> Provenance]]
  <2>1. \A i \in Live(d) : (IF i \in ids THEN rows[i] ELSE d.meta[i])
                             \in [Tuples -> Provenance]
    BY <1>1
  <2> QED  BY <1>1, <2>1
<1>6. \A i \in Live(d) \ ids : m2[i] = d.meta[i]  BY <1>1
<1>7. \A i \in Live(d) \cap ids :
        /\ OneAuthor({u \in Tuples : m2[i][u] # "none"})
        /\ \A u \in Tuples : m2[i][u] = "body" => u \in BodyTags(d.events[i])
  <2> TAKE i \in Live(d) \cap ids
  <2>1. m2[i] = rows[i]  BY <1>1
  <2>2. RowsAgree(d, i)  BY DEF Consistent
  <2> QED  BY <2>1, <2>2 DEF RowsAgree
<1>8. Consistent(Retagged(d, d.events, m2, ids))
  <2> HIDE DEF m2, ids
  <2> QED  BY <1>1, <1>5, <1>6, <1>7, RetaggedConsistent
<1> QED  BY <1>4, <1>8 DEF RewriteMetaTuple

LEMMA UpdateMetaConsistent ==
  ASSUME NEW d, Consistent(d), NEW old \in Tuples, NEW new \in Tuples
  PROVE  Consistent(UpdateMeta(d, old, new).db)
<1> DEFINE rows == [i \in MetaEventIDs(d, old) |-> Renamed(d.meta[i], old, new)]
<1>1. CASE ~Renamable(old, new)  BY <1>1 DEF UpdateMeta, Fail
<1>2. CASE Renamable(old, new)
  <2>1. ASSUME NEW i \in MetaEventIDs(d, old)
        PROVE  /\ rows[i] \in [Tuples -> Provenance]
               /\ OneAuthor({u \in Tuples : rows[i][u] # "none"})
               /\ \A u \in Tuples : rows[i][u] = "body" => d.meta[i][u] = "body"
    <3>1. /\ i \in Live(d) /\ d.meta[i] \in [Tuples -> Provenance]
          /\ d.meta[i][old] # "none" /\ RowsAgree(d, i)
      BY DEF MetaEventIDs, Consistent, Shape, IsJournal, Live
    <3>2. /\ rows[i] \in [Tuples -> Provenance]
          /\ \A u \in Tuples :
               rows[i][u] = IF u = new THEN "explicit"
                            ELSE IF u = old THEN "none" ELSE d.meta[i][u]
      BY <3>1 DEF Renamed, Provenance
    <3>3. \A t, u \in Tuples : (/\ IsAuthor(t) /\ d.meta[i][t] # "none"
                                /\ IsAuthor(u) /\ d.meta[i][u] # "none") => t = u
      BY <3>1 DEF RowsAgree, Carried, OneAuthor
    <3>4. IsAuthor(new) => IsAuthor(old)  BY <1>2 DEF Renamable, IsAuthor
    <3>5. OneAuthor({u \in Tuples : rows[i][u] # "none"})
      <4> HIDE DEF rows
      <4> QED  BY <3>1, <3>2, <3>3, <3>4 DEF OneAuthor
    <3> QED  BY <3>1, <3>2, <3>5
  <2>2. Consistent(RewriteMetaTuple(d, old, rows))
    <3> HIDE DEF rows
    <3> QED  BY <2>1, RewriteConsistent
  <2> QED  BY <1>2, <2>2 DEF UpdateMeta, Done
<1> QED  BY <1>1, <1>2

LEMMA DeleteMetaConsistent ==
  ASSUME NEW d, Consistent(d), NEW t \in Tuples
  PROVE  Consistent(DeleteMeta(d, t).db)
<1> DEFINE rows == [i \in MetaEventIDs(d, t) |-> [d.meta[i] EXCEPT ![t] = "none"]]
<1>1. CASE IsAuthor(t)  BY <1>1 DEF DeleteMeta, Fail
<1>2. CASE ~IsAuthor(t)
  <2>1. ASSUME NEW i \in MetaEventIDs(d, t)
        PROVE  /\ rows[i] \in [Tuples -> Provenance]
               /\ OneAuthor({u \in Tuples : rows[i][u] # "none"})
               /\ \A u \in Tuples : rows[i][u] = "body" => d.meta[i][u] = "body"
    <3>1. i \in Live(d) /\ d.meta[i] \in [Tuples -> Provenance] /\ RowsAgree(d, i)
      BY DEF MetaEventIDs, Consistent, Shape, IsJournal, Live
    <3>2. /\ rows[i] \in [Tuples -> Provenance]
          /\ \A u \in Tuples : rows[i][u] \in {"none", d.meta[i][u]}
      BY <3>1 DEF Provenance
    <3>3. OneAuthor({u \in Tuples : rows[i][u] # "none"})
      <4> HIDE DEF rows
      <4> QED  BY <3>1, <3>2 DEF RowsAgree, Carried, OneAuthor
    <3> QED  BY <3>2, <3>3
  <2>2. Consistent(RewriteMetaTuple(d, t, rows))
    <3> HIDE DEF rows
    <3> QED  BY <2>1, RewriteConsistent
  <2> QED  BY <1>2, <2>2 DEF DeleteMeta, Done
<1> QED  BY <1>1, <1>2

-------------------------------------------------------------------------------
(* Reparent and Delete.                                                    *)

LEMMA ReparentIs ==
  ASSUME NEW d, Shape(d), NEW id \in Ids, NEW p \in Ids \cup {NoParent}
  PROVE  LET e == Reparent(d, id, p).db IN
         \/ e = d
         \/ /\ id \in Live(d) /\ p \in Live(d) \cup {NoParent}
            /\ p # NoParent => id \notin Chain(d, p)
            /\ e = [ events |-> [d.events EXCEPT ![id].parent = p],
                     meta |-> d.meta, fts |-> d.fts, seq |-> d.seq ]
<1> DEFINE e == [d EXCEPT !.events[id].parent = p]
<1>1. e = [d EXCEPT !.events[id].parent = p]  OBVIOUS
<1>2. e = [ events |-> [d.events EXCEPT ![id].parent = p],
            meta |-> d.meta, fts |-> d.fts, seq |-> d.seq ]
  <2> HIDE DEF e
  <2> QED  BY <1>1 DEF Shape, IsJournal
<1> HIDE DEF e
<1> QED  BY <1>1, <1>2 DEF Reparent, Done, Fail

LEMMA ReparentConsistent ==
  ASSUME NEW d, Consistent(d), NEW id \in Ids, NEW p \in Ids \cup {NoParent}
  PROVE  Consistent(Reparent(d, id, p).db)
<1> DEFINE e == Reparent(d, id, p).db
           ev == [d.events EXCEPT ![id].parent = p]
<1>0. Shape(d)  BY DEF Consistent
<1>1. CASE e = d  BY <1>1
<1>2. CASE /\ id \in Live(d) /\ p \in Live(d) \cup {NoParent}
           /\ e = [events |-> ev, meta |-> d.meta, fts |-> d.fts, seq |-> d.seq]
  <2>1. d.events \in [Live(d) -> EventRow]  BY <1>0 DEF Shape, IsJournal, Live
  <2>2. /\ ev \in [Live(d) -> EventRow]
        /\ \A i \in Live(d) : /\ ev[i].title = d.events[i].title
                              /\ ev[i].body = d.events[i].body
                              /\ ev[i].parent \in {p, d.events[i].parent}
    BY <1>2, <2>1 DEF EventRow
  <2> HIDE DEF ev
  <2>3. /\ e.events = ev /\ e.meta = d.meta /\ e.fts = d.fts /\ e.seq = d.seq
        /\ Live(e) = Live(d)
        /\ e = [events |-> e.events, meta |-> e.meta, fts |-> e.fts, seq |-> e.seq]
    BY <1>2, <2>2 DEF Live
  <2> HIDE DEF e
  <2>4. Shape(e)
    BY <1>0, <1>2, <2>2, <2>3 DEF Shape, IsJournal, Live
  <2>5. ASSUME NEW i \in Live(d)
        PROVE  RowsAgree(e, i)
    <3>1. RowsAgree(d, i)  BY DEF Consistent
    <3>2. BodyTags(ev[i]) = BodyTags(d.events[i])  BY <2>2 DEF BodyTags
    <3>3. FTSColumns(ev[i], d.meta[i]) = FTSColumns(d.events[i], d.meta[i])
      BY <2>2 DEF FTSColumns
    <3> QED  BY <2>3, <3>1, <3>2, <3>3 DEF RowsAgree, Carried
  <2> QED  BY <2>3, <2>4, <2>5 DEF Consistent, e
<1> QED  BY <1>0, <1>1, <1>2, ReparentIs

(* A surviving event's parent survives: the parent's chain is part of the  *)
(* event's own.                                                            *)
LEMMA ParentSurvives ==
  ASSUME NEW d, Shape(d), NEW id, NEW i \in Live(d) \ Subtree(d, id)
  PROVE  d.events[i].parent \in (Live(d) \ Subtree(d, id)) \cup {NoParent}
<1> DEFINE p == d.events[i].parent
<1>1. p \in Live(d) \cup {NoParent}  BY DEF Shape
<1>2. CASE p \in Subtree(d, id)
  <2>1. p \in Live(d) /\ id \in Chain(d, p)  BY <1>2 DEF Subtree
  <2>2. \A S \in SUBSET Live(d) : i \in S /\ ClosedUpward(d, S) => p \in S
    BY <2>1 DEF ClosedUpward
  <2>3. id \in Chain(d, i)  BY <2>1, <2>2 DEF Chain
  <2> QED  BY <2>3 DEF Subtree
<1> QED  BY <1>1, <1>2

LEMMA DeleteConsistent ==
  ASSUME NEW d, Consistent(d), NEW id
  PROVE  Consistent(Delete(d, id).db)
<1> DEFINE rest == Live(d) \ Subtree(d, id)
           e == [ events |-> [i \in rest |-> d.events[i]],
                  meta   |-> [i \in rest |-> d.meta[i]],
                  fts    |-> [i \in DOMAIN d.fts \cap rest |-> d.fts[i]],
                  seq    |-> d.seq ]
<1>1. CASE id \notin Live(d)  BY <1>1 DEF Delete, Fail
<1>2. CASE id \in Live(d)
  <2>0. Shape(d)  BY DEF Consistent
  <2>1. Delete(d, id).db = e  BY <1>2 DEF Delete, Done, Remaining
  <2>2. /\ Live(e) = rest /\ DOMAIN e.meta = rest /\ DOMAIN e.fts = rest
        /\ \A i \in rest : /\ e.events[i] = d.events[i] /\ e.meta[i] = d.meta[i]
                           /\ e.fts[i] = d.fts[i]
        /\ e.events = [i \in rest |-> e.events[i]]
        /\ e.meta = [i \in rest |-> e.meta[i]] /\ e.fts = [i \in rest |-> e.fts[i]]
        /\ e.seq = d.seq
        /\ e = [events |-> e.events, meta |-> e.meta, fts |-> e.fts, seq |-> e.seq]
    BY <2>0 DEF Shape, Live
  <2>3. \A i \in rest : d.events[i].parent \in rest \cup {NoParent}
    BY <2>0, ParentSurvives
  <2> HIDE DEF e
  <2>4. \A i \in rest : /\ e.events[i] \in EventRow
                        /\ e.meta[i] \in [Tuples -> Provenance]
                        /\ e.fts[i] \in FTSRow
    BY <2>0, <2>2 DEF Shape, IsJournal, Live
  <2>5. IsJournal(e)
    <3>1. DOMAIN e.events = rest /\ rest \subseteq 1..e.seq
      BY <2>0, <2>2 DEF Shape, IsJournal, Live
    <3> QED  BY <2>0, <2>2, <2>4, <3>1 DEF Shape, IsJournal
  <2>6. Shape(e)  BY <2>2, <2>3, <2>5 DEF Shape
  <2>7. ASSUME NEW i \in rest PROVE RowsAgree(e, i)
    <3>1. RowsAgree(d, i)  BY DEF Consistent
    <3>2. e.events[i] = d.events[i] /\ e.meta[i] = d.meta[i] /\ e.fts[i] = d.fts[i]
      BY <2>2
    <3> QED  BY <3>1, <3>2 DEF RowsAgree, Carried
  <2> QED  BY <2>1, <2>2, <2>6, <2>7 DEF Consistent
<1> QED  BY <1>1, <1>2

-------------------------------------------------------------------------------
(* Chains and rings of parents.                                            *)

LEMMA ChainGoesUp ==
  ASSUME NEW d, NEW i, NEW j \in Chain(d, i), d.events[j].parent \in Live(d)
  PROVE  d.events[j].parent \in Chain(d, i)
BY DEF Chain, ClosedUpward

LEMMA ChainIn ==
  ASSUME NEW d, NEW i, NEW S \in SUBSET Live(d), ClosedUpward(d, S), i \in S
  PROVE  Chain(d, i) \subseteq S
BY DEF Chain

LEMMA ChainIsClosed ==
  ASSUME NEW d, NEW i
  PROVE  Chain(d, i) \in SUBSET Live(d) /\ ClosedUpward(d, Chain(d, i))
BY ChainGoesUp DEF ClosedUpward, Chain

LEMMA ChainStarts == ASSUME NEW d, NEW i \in Live(d) PROVE i \in Chain(d, i)
BY DEF Chain

LEMMA ChainIsTransitive ==
  ASSUME NEW d, NEW i, NEW j \in Chain(d, i)
  PROVE  Chain(d, j) \subseteq Chain(d, i)
BY ChainIsClosed, ChainIn

(* Above an event other than itself is its parent's chain.                 *)
LEMMA ChainStep ==
  ASSUME NEW d, NEW i \in Live(d), NEW j \in Chain(d, i), j # i
  PROVE  d.events[i].parent \in Live(d) /\ j \in Chain(d, d.events[i].parent)
<1> DEFINE p == d.events[i].parent
<1>1. CASE p \in Live(d)
  <2>1. {i} \cup Chain(d, p) \in SUBSET Live(d)  BY ChainIsClosed
  <2>2. p \in Chain(d, p)  BY <1>1, ChainStarts
  <2>3. ClosedUpward(d, {i} \cup Chain(d, p))
    BY <2>2, ChainIsClosed DEF ClosedUpward
  <2>4. j \in {i} \cup Chain(d, p)  BY <2>1, <2>3, ChainIn
  <2> QED  BY <1>1, <2>4
<1>2. CASE p \notin Live(d)
  <2>1. ClosedUpward(d, {i})  BY <1>2 DEF ClosedUpward
  <2> QED  BY <2>1, ChainIn
<1> QED  BY <1>1, <1>2

(* A ring is above each of its events.                                     *)
LEMMA RingIsOneChain ==
  ASSUME NEW d, NEW i \in OnRing(d), NEW j \in Chain(d, d.events[i].parent)
  PROVE  d.events[i].parent \in Chain(d, j)
<1> DEFINE q == d.events[i].parent
           B == {x \in Chain(d, q) : q \in Chain(d, x)}
<1>1. i \in Live(d) /\ q \in Live(d) /\ i \in Chain(d, q)  BY DEF OnRing
<1>2. q \in B  BY <1>1, ChainStarts
<1>3. q \in Chain(d, i)  BY <1>1, ChainStarts, ChainGoesUp
<1> HIDE DEF q
<1>4. ASSUME NEW x \in B, d.events[x].parent \in Live(d)
      PROVE  d.events[x].parent \in B
  <2>1. d.events[x].parent \in Chain(d, q)  BY <1>4, ChainGoesUp
  <2>2. x \in Live(d) /\ q \in Chain(d, x)  BY ChainIsClosed
  <2>3. CASE x # q  BY <2>1, <2>2, <2>3, ChainStep
  <2>4. CASE x = q /\ i = q
    <3>1. d.events[x].parent = q  BY <2>4 DEF q
    <3> QED  BY <1>2, <3>1
  <2>5. CASE x = q /\ i # q
    <3>1. i \in Chain(d, d.events[x].parent)  BY <1>1, <2>5, ChainStep
    <3>2. q \in Chain(d, d.events[x].parent)  BY <1>3, <3>1, ChainIsTransitive
    <3> QED  BY <2>1, <3>2
  <2> QED  BY <2>3, <2>4, <2>5
<1>5. B \in SUBSET Live(d) /\ ClosedUpward(d, B)  BY <1>4, ChainIsClosed DEF ClosedUpward
<1>6. Chain(d, q) \subseteq B  BY <1>2, <1>5, ChainIn
<1> QED  BY <1>6 DEF q

(* Removing events and parent links closes no ring.                        *)
LEMMA FewerLinksRings ==
  ASSUME NEW d, NEW e, Live(e) \subseteq Live(d),
         \A x \in Live(e) : \/ e.events[x].parent = d.events[x].parent
                           \/ e.events[x].parent \notin Live(e)
  PROVE  OnRing(e) \subseteq OnRing(d)
<1> SUFFICES ASSUME NEW i \in OnRing(e) PROVE i \in OnRing(d)  OBVIOUS
<1> DEFINE q == e.events[i].parent
<1>1. i \in Live(e) /\ q \in Live(e) /\ i \in Chain(e, q) /\ d.events[i].parent = q
  BY DEF OnRing
<1> HIDE DEF q
<1>2. ASSUME NEW S \in SUBSET Live(d), q \in S, ClosedUpward(d, S) PROVE i \in S
  <2>1. ClosedUpward(e, S \cap Live(e))  BY <1>2 DEF ClosedUpward
  <2>2. Chain(e, q) \subseteq S \cap Live(e)  BY <1>1, <1>2, <2>1, ChainIn
  <2> QED  BY <1>1, <2>2
<1>3. i \in Chain(d, q)  BY <1>1, <1>2 DEF Chain
<1> QED  BY <1>1, <1>3 DEF OnRing

-------------------------------------------------------------------------------
(* Loops.  A loop takes a state x of D to nxt[x] until it is in stop,      *)
(* where its answer is r[x].                                               *)

(* The recursive function that stands for a loop exists: its value is what *)
(* the loop answers at a stop it reaches.                                  *)
Runs(f, D, stop, r, nxt) == f = [x \in D |-> IF x \in stop THEN r[x] ELSE f[nxt[x]]]

LEMMA LoopExists ==
  ASSUME NEW D, NEW stop, NEW r, NEW nxt, \A x \in D \ stop : nxt[x] \in D
  PROVE  \E f : Runs(f, D, stop, r, nxt)
<1> DEFINE Closed(S) == \A x \in S \ stop : nxt[x] \in S
           Reach(x) == {y \in D : \A S \in SUBSET D : x \in S /\ Closed(S) => y \in S}
           End(x) == CHOOSE y : y \in Reach(x) \cap stop
           f == [x \in D |-> r[End(x)]]
<1>1. ASSUME NEW x \in D, x \in stop PROVE End(x) = x
  <2>1. {x} \in SUBSET D /\ Closed({x})  BY <1>1
  <2>2. Reach(x) \cap stop = {x}  BY <1>1, <2>1
  <2> QED  BY <2>2
<1>2. ASSUME NEW x \in D, x \notin stop PROVE End(x) = End(nxt[x])
  <2>1. ASSUME NEW y \in Reach(x) \cap stop PROVE y \in Reach(nxt[x])
    <3> SUFFICES ASSUME NEW S \in SUBSET D, nxt[x] \in S, Closed(S) PROVE y \in S
      BY <2>1
    <3>1. S \cup {x} \in SUBSET D /\ Closed(S \cup {x})  OBVIOUS
    <3>2. y \in S \cup {x}  BY <2>1, <3>1
    <3> QED  BY <1>2, <2>1, <3>2
  <2>2. ASSUME NEW y \in Reach(nxt[x]) PROVE y \in Reach(x)
    BY <1>2, <2>2
  <2>3. Reach(x) \cap stop = Reach(nxt[x]) \cap stop  BY <2>1, <2>2
  <2> QED  BY <2>3
<1>3. ASSUME NEW x \in D PROVE f[x] = IF x \in stop THEN r[x] ELSE f[nxt[x]]
  <2>1. f[x] = r[End(x)] /\ (x \notin stop => f[nxt[x]] = r[End(nxt[x])])  OBVIOUS
  <2> HIDE DEF f, End
  <2> QED  BY <1>1, <1>2, <2>1
<1>4. f = [x \in D |-> f[x]]  OBVIOUS
<1> HIDE DEF f
<1> QED  BY <1>3, <1>4 DEF Runs

(* What holds of a state whenever it holds of all that have less left to   *)
(* do, m measuring what is left by a finite set, holds of all states.      *)
Inductive(G, D, m, U) ==
  \A x \in D :
    /\ m[x] \in SUBSET U
    /\ (\A y \in D : m[y] \subseteq m[x] /\ m[y] # m[x] => y \in G) => x \in G

LEMMA LoopInduction ==
  ASSUME NEW U, IsFiniteSet(U), NEW D, NEW m, NEW G, Inductive(G, D, m, U)
  PROVE  D \subseteq G
<1> SUFFICES ASSUME ~(D \subseteq G) PROVE FALSE  OBVIOUS
<1> DEFINE T == {m[x] : x \in D \ G}
<1>1. T # {} /\ T \subseteq FiniteSubsetsOf(U)
  BY FS_FiniteSubsetsOfFinite DEF Inductive
<1>2. PICK t \in T : \A u \in T : ~(<<u, t>> \in StrictSubsetOrdering(U))
  <2>1. IsWellFoundedOn(StrictSubsetOrdering(U), FiniteSubsetsOf(U))
    BY FS_StrictSubsetOrderingWellFounded
  <2> HIDE DEF T
  <2> QED  BY <1>1, <2>1, WFMin
<1>3. PICK x \in D \ G : t = m[x]  BY <1>2
<1>4. PICK y \in D : m[y] \subseteq m[x] /\ m[y] # m[x] /\ y \notin G  BY <1>3 DEF Inductive
<1>5. m[y] \in T  BY <1>4
<1>6. <<m[y], m[x]>> \in StrictSubsetOrdering(U)
  <2>1. m[x] \in SUBSET U /\ m[y] \in SUBSET U  BY DEF Inductive
  <2> QED  BY <1>4, <2>1 DEF StrictSubsetOrdering
<1> QED  BY <1>2, <1>3, <1>5, <1>6

(* As LoopInduction, for a loop with turns that leave the set as it is and *)
(* shorten a list.                                                         *)
Inductive2(G, D, m, U, len) ==
  \A x \in D :
    /\ m[x] \in SUBSET U /\ len[x] \in Nat
    /\ (\A y \in D : \/ m[y] \subseteq m[x] /\ m[y] # m[x]
                     \/ m[y] = m[x] /\ len[y] < len[x]
                     => y \in G) => x \in G

LEMMA LoopInduction2 ==
  ASSUME NEW U, IsFiniteSet(U), NEW D, NEW m, NEW len, NEW G, Inductive2(G, D, m, U, len)
  PROVE  D \subseteq G
<1> DEFINE Level(x) == {y \in D : m[y] = m[x]}
           H == {x \in D : Level(x) \subseteq G}
<1>1. ASSUME NEW x \in D, \A y \in D : m[y] \subseteq m[x] /\ m[y] # m[x] => y \in H
      PROVE  x \in H
  <2> DEFINE short == [y \in Level(x) |-> 1..len[y]]
  <2>1. ASSUME NEW y \in D, m[y] \subseteq m[x], m[y] # m[x] PROVE y \in G
    BY <1>1, <2>1
  <2>2. ASSUME NEW y \in Level(x), \A z \in Level(x) : len[z] < len[y] => z \in G
        PROVE  y \in G
    BY <2>1, <2>2 DEF Inductive2
  <2>3. ASSUME NEW y \in Level(x) PROVE y \in G
    <3>1. len[y] \in Nat  BY DEF Inductive2
    <3> DEFINE E == {z \in Level(x) : len[z] <= len[y]}
    <3>2. Inductive(G, E, short, 1..len[y])
      <4> SUFFICES ASSUME NEW z \in E
                   PROVE  /\ short[z] \in SUBSET (1..len[y])
                          /\ (\A w \in E : short[w] \subseteq short[z] /\ short[w] # short[z]
                                           => w \in G) => z \in G
        BY DEF Inductive
      <4>1. z \in D /\ len[z] \in Nat  BY DEF Inductive2
      <4>2. ASSUME NEW w \in Level(x), len[w] < len[z]
            PROVE  w \in E /\ short[w] \subseteq short[z] /\ short[w] # short[z]
        <5>1. len[w] \in Nat  BY DEF Inductive2
        <5> QED  BY <3>1, <4>1, <4>2, <5>1
      <4> QED  BY <2>2, <3>1, <4>1, <4>2
    <3>3. IsFiniteSet(1..len[y])  BY <3>1, FS_Interval
    <3>4. y \in E  BY <3>1
    <3> HIDE DEF E, short
    <3> QED  BY <3>2, <3>3, <3>4, LoopInduction
  <2> QED  BY <2>3
<1>2. Inductive(H, D, m, U)
  <2> HIDE DEF H
  <2> QED  BY <1>1 DEF Inductive, Inductive2
<1>3. D \subseteq H
  <2> HIDE DEF H
  <2> QED  BY <1>2, LoopInduction
<1> QED  BY <1>3

===============================================================================
