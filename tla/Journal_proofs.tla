---------------------------- MODULE Journal_proofs ----------------------------
(***************************************************************************)
(* Proofs about Journal and Walks: what JournalOps_proofs shows of each    *)
(* operation, put together over the steps of the specification, what a step*)
(* may never do, and what the loops along parent links answer.             *)
(***************************************************************************)
EXTENDS Walks, JournalOps_proofs

-------------------------------------------------------------------------------
(* The theorems of Spec.                                                   *)

LEMMA ConsistentInit == ASSUME Init PROVE Consistent(db)
BY MaxIdAssumption
   DEF Init, EmptyJournal, EmptyMap, Consistent, Shape, IsJournal, Live

LEMMA BatchesAre == ASSUME NEW ins \in Batches PROVE ins \in Seq(Records)
<1>1. AddInput \subseteq Records  BY InputAssumption DEF AddInput, Records
<1>2. PICK n \in 1..MaxBatch : ins \in [1..n -> AddInput]  BY DEF Batches
<1> QED  BY <1>1, <1>2, InputAssumption

LEMMA ConsistentStep == ASSUME Consistent(db), [Next]_db PROVE Consistent(db)'
<1>1. ASSUME NEW ins \in Batches, Adds(ins) PROVE Consistent(db)'
  BY <1>1, BatchesAre, AddManyConsistent DEF Adds
<1>2. CASE Updates  BY <1>2, UpdateConsistent, InputAssumption DEF Updates
<1>3. CASE Reparents  BY <1>3, ReparentConsistent DEF Reparents
<1>4. CASE Deletes  BY <1>4, DeleteConsistent DEF Deletes
<1>5. CASE AddsTags  BY <1>5, AddTagsConsistent DEF AddsTags
<1>6. CASE RemovesTags  BY <1>6, RemoveTagsConsistent DEF RemovesTags
<1>7. CASE UpdatesMeta  BY <1>7, UpdateMetaConsistent DEF UpdatesMeta
<1>8. CASE DeletesMeta  BY <1>8, DeleteMetaConsistent DEF DeletesMeta
<1>9. CASE UNCHANGED db  BY <1>9 DEF Consistent, Shape, IsJournal, RowsAgree, Live, Carried
<1> QED  BY <1>1, <1>2, <1>3, <1>4, <1>5, <1>6, <1>7, <1>8, <1>9 DEF Next, Changes

(* The inductive invariant holds whatever is called.                       *)
THEOREM AlwaysConsistent == Spec => []Consistent(db)
<1>1. Init => Consistent(db)  BY ConsistentInit
<1>2. Consistent(db) /\ [Next]_db => Consistent(db)'  BY ConsistentStep
<1> QED  BY <1>1, <1>2, PTL DEF Spec

(* Every operation leaves rows of the right shape, ids below the counter.  *)
THEOREM TypeCorrect == Spec => []TypeOK
<1>1. Consistent(db) => TypeOK  BY DEF Consistent, Shape, TypeOK
<1> QED  BY <1>1, AlwaysConsistent, PTL

(* No operation leaves a parent link or a metadata row dangling, and the   *)
(* index follows the events and their metadata through every verb.         *)
THEOREM TablesAlwaysAgree == Spec => []TablesAgree
<1>1. Consistent(db) => TablesAgree
  BY DEF Consistent, Shape, RowsAgree, TablesAgree
<1> QED  BY <1>1, AlwaysConsistent, PTL

(* No sequence of verbs gives an event a second author.                    *)
THEOREM OneAuthorAlways == Spec => []AtMostOneAuthor
<1>1. Consistent(db) => AtMostOneAuthor
  BY DEF Consistent, Shape, RowsAgree, AtMostOneAuthor
<1> QED  BY <1>1, AlwaysConsistent, PTL

(* A row stays marked body-derived only while the text mentions it.        *)
THEOREM BodyRowsStayMentioned == Spec => []BodyRowsMentioned
<1>1. Consistent(db) => BodyRowsMentioned
  BY DEF Consistent, RowsAgree, BodyRowsMentioned
<1> QED  BY <1>1, AlwaysConsistent, PTL

-------------------------------------------------------------------------------
(* The tree, for batches whose ParentIDs were allocated before them.       *)

(* A ring among old and new events would have to lie wholly among the old  *)
(* ones, or wholly among the new ones: an old event never points at a new. *)
LEMMA AddManyAcyclic ==
  ASSUME NEW d, Consistent(d), AcyclicTree(d), NEW ins \in Seq(Records),
         d.seq + Len(ins) <= MaxId, \A k \in DOMAIN ins : ins[k].parent <= d.seq
  PROVE  AcyclicTree(AddMany(d, ins).db)
<1> DEFINE e == AddMany(d, ins).db
<1>1. CASE e = d  BY <1>1
<1>2. CASE e = Inserted(d, ins) /\ ValidBatch(ins)
  <2>1. /\ Live(e) = Live(d) \cup (d.seq+1 .. d.seq+Len(ins))
        /\ Len(ins) \in Nat /\ d.seq \in Nat /\ Live(d) \subseteq 1..d.seq
        /\ DOMAIN ins = 1..Len(ins)
    BY <1>2, BatchShape
       DEF Inserted, Live, Consistent, Shape, IsJournal
  <2>2. ASSUME NEW S \in (SUBSET Live(e)) \ {{}}
        PROVE  \E i \in S : e.events[i].parent \notin S
    <3>1. CASE S \cap Live(d) # {}
      <4>1. PICK i \in S \cap Live(d) : d.events[i].parent \notin S \cap Live(d)
        BY <3>1 DEF AcyclicTree
      <4>2. d.events[i].parent \in Live(d) \cup {NoParent}
        BY <4>1 DEF Consistent, Shape
      <4>3. NoParent \notin S  BY <2>1 DEF NoParent
      <4>4. e.events[i] = d.events[i]  BY <1>2, <4>1 DEF Inserted
      <4> QED  BY <4>1, <4>2, <4>3, <4>4
    <3>2. CASE S \cap Live(d) = {}
      <4> DEFINE K == {k \in 1..Len(ins) : d.seq + k \in S}
      <4>1. S \subseteq d.seq+1 .. d.seq+Len(ins)  BY <2>1, <3>2
      <4>2. PICK j \in S : TRUE  OBVIOUS
      <4>3. j - d.seq \in K  BY <2>1, <4>1, <4>2
      <4>4. PICK k \in K : ins[k].index \notin K
        BY <1>2, <4>3 DEF ValidBatch, AcyclicIndexes
      <4>5. ins[k] \in Records /\ ins[k].parent <= d.seq
        BY <2>1, <4>4, BatchShape
      <4>6. /\ ins[k].parent \in Nat
            /\ ins[k].index # 0 => ins[k].index \in 1..Len(ins)
        BY <1>2, <4>4, <4>5, TextInputs, MaxIdAssumption
           DEF ValidBatch, ValidInput, Ids, NoParent
      <4>7. e.events[d.seq + k] = NewEvent(d, ins[k])
        <5>1. d.seq + k \in Live(e) \ Live(d) /\ (d.seq + k) - d.seq = k  BY <2>1, <3>2, <4>4
        <5>2. e.events[d.seq + k] = NewEvent(d, ins[(d.seq + k) - d.seq])
          BY <1>2, <2>1, <5>1 DEF Inserted
        <5> QED  BY <5>1, <5>2
      <4>8. CASE ins[k].index = 0
        <5>1. e.events[d.seq + k].parent = ins[k].parent  BY <4>7, <4>8 DEF NewEvent
        <5> QED  BY <2>1, <4>1, <4>4, <4>5, <4>6, <5>1
      <4>9. CASE ins[k].index # 0
        <5>1. e.events[d.seq + k].parent = d.seq + ins[k].index
          BY <4>7, <4>9 DEF NewEvent
        <5> QED  BY <4>4, <4>6, <4>9, <5>1
      <4> QED  BY <4>8, <4>9
    <3> QED  BY <3>1, <3>2
  <2> QED  BY <2>2 DEF AcyclicTree
<1> QED  BY <1>1, <1>2 DEF AddMany, Done, Fail

(* A ring closed by the move would hold p and everything above p, and id   *)
(* is not above p: those events already formed a ring.                     *)
LEMMA ReparentAcyclic ==
  ASSUME NEW d, Consistent(d), AcyclicTree(d), NEW id \in Ids, NEW p \in Ids \cup {NoParent}
  PROVE  AcyclicTree(Reparent(d, id, p).db)
<1> DEFINE e == Reparent(d, id, p).db
<1>0. Shape(d)  BY DEF Consistent
<1>1. CASE e = d  BY <1>1
<1>2. CASE /\ id \in Live(d) /\ p \in Live(d) \cup {NoParent}
           /\ p # NoParent => id \notin Chain(d, p)
           /\ e = [ events |-> [d.events EXCEPT ![id].parent = p],
                    meta |-> d.meta, fts |-> d.fts, seq |-> d.seq ]
  <2>1. /\ Live(e) = Live(d) /\ NoParent \notin Live(d)
        /\ \A i \in Live(d) : e.events[i].parent = IF i = id THEN p ELSE d.events[i].parent
    <3>1. \A i \in Live(d) : d.events[i] \in EventRow  BY <1>0 DEF Shape, IsJournal, Live
    <3> QED  BY <1>0, <1>2, <3>1 DEF Live, Shape, IsJournal, NoParent, EventRow
  <2> HIDE DEF e
  <2>2. ASSUME NEW S \in (SUBSET Live(d)) \ {{}}, \A i \in S : e.events[i].parent \in S
        PROVE  FALSE
    <3>1. id \in S
      <4>1. PICK i \in S : d.events[i].parent \notin S  BY DEF AcyclicTree
      <4> QED  BY <2>1, <2>2, <4>1
    <3>2. p \in S /\ p # NoParent  BY <2>1, <2>2, <3>1
    <3> DEFINE T == Chain(d, p) \cap S
    <3>3. p \in T  BY <3>2 DEF Chain
    <3>4. T \in (SUBSET Live(d)) \ {{}}  BY <3>3
    <3>5. PICK i \in T : d.events[i].parent \notin T  BY <3>4 DEF AcyclicTree
    <3>6. i # id  BY <1>2, <3>2
    <3>7. d.events[i].parent \in S  BY <2>1, <2>2, <3>5, <3>6
    <3>8. d.events[i].parent \in Chain(d, p)  BY <3>5, <3>7, ChainGoesUp
    <3> QED  BY <3>5, <3>7, <3>8
  <2> QED  BY <2>1, <2>2 DEF AcyclicTree, e
<1> QED  BY <1>0, <1>1, <1>2, ReparentIs

(* Every other operation keeps the parents of the events it leaves.        *)
LEMMA SameParentsAcyclic ==
  ASSUME NEW d, AcyclicTree(d), NEW e, Live(e) \subseteq Live(d),
         \A i \in Live(e) : e.events[i].parent = d.events[i].parent
  PROVE  AcyclicTree(e)
BY DEF AcyclicTree

-------------------------------------------------------------------------------
(* What each operation leaves behind, field by field.                      *)

LEMMA RebuiltFields ==
  ASSUME NEW d, DbRecord(d), NEW ids
  PROVE  LET e == RebuildFTS(d, ids)
         IN e.events = d.events /\ e.meta = d.meta /\ e.seq = d.seq
<1> DEFINE e == RebuildFTS(d, ids)
           f == [i \in DOMAIN d.fts |-> IF i \in ids THEN FTSColumns(d.events[i], d.meta[i])
                                                     ELSE d.fts[i]]
<1>1. e = [d EXCEPT !.fts = f]  BY DEF RebuildFTS
<1> HIDE DEF e, f
<1> QED  BY <1>1 DEF DbRecord, e

UpdatedTo(d, e, id, e2, m2, textKept) ==
  \/ e = d
  \/ /\ id \in Live(d) /\ e.events = [d.events EXCEPT ![id] = e2] /\ e.seq = d.seq
     /\ (textKept /\ e.meta = d.meta) \/ e.meta = [d.meta EXCEPT ![id] = m2]

UpdateEffect(d, id, title, body, at) ==
  LET e2 == Edited(d.events[id], title, body, at)
  IN UpdatedTo(d, Update(d, id, title, body, at).db, id, e2,
               SyncedMeta(d.meta[id], BodyTags(d.events[id]), BodyTags(e2)),
               title = Keep /\ body = Keep)

LEMMA UpdateIs ==
  ASSUME NEW d, Shape(d), NEW id, NEW title, NEW body, NEW at
  PROVE  UpdateEffect(d, id, title, body, at)
<1> DEFINE e2 == Edited(d.events[id], title, body, at)
           m2 == SyncedMeta(d.meta[id], BodyTags(d.events[id]), BodyTags(e2))
           e  == Update(d, id, title, body, at).db
           d2 == [d EXCEPT !.events[id] = e2]
           d3 == [d2 EXCEPT !.meta[id] = m2]
<1>0. d2 = [d EXCEPT !.events[id] = e2] /\ d3 = [d2 EXCEPT !.meta[id] = m2]  OBVIOUS
<1>1. \/ e = d
      \/ id \in Live(d) /\ title = Keep /\ body = Keep /\ e = d2
      \/ id \in Live(d) /\ e = RebuildFTS(d3, {id})
  BY DEF Update, Done, Fail
<1> HIDE DEF d2, d3, e, e2, m2
<1>2. /\ DbRecord(d2) /\ d2.events = [d.events EXCEPT ![id] = e2]
      /\ d2.meta = d.meta /\ d2.seq = d.seq
  BY <1>0 DEF Shape, IsJournal, DbRecord
<1>3. /\ DbRecord(d3) /\ d3.events = d2.events /\ d3.seq = d.seq
      /\ d3.meta = [d.meta EXCEPT ![id] = m2]
  BY <1>0, <1>2 DEF DbRecord
<1>4. LET r == RebuildFTS(d3, {id})
      IN r.events = d3.events /\ r.meta = d3.meta /\ r.seq = d3.seq
  BY <1>3, RebuiltFields
<1>5. UpdatedTo(d, e, id, e2, m2, title = Keep /\ body = Keep)
  BY <1>1, <1>2, <1>3, <1>4 DEF UpdatedTo
<1> QED  BY <1>5 DEF UpdateEffect, e, e2, m2

LEMMA TagsAre ==
  ASSUME NEW d, Shape(d), NEW id \in Live(d), NEW m2
  PROVE  LET e == RebuildFTS([d EXCEPT !.meta[id] = m2], {id})
         IN /\ e.events = d.events /\ e.seq = d.seq
            /\ e.meta = [d.meta EXCEPT ![id] = m2]
<1> DEFINE d2 == [d EXCEPT !.meta[id] = m2]
<1>1. d2 = [d EXCEPT !.meta[id] = m2]  OBVIOUS
<1> HIDE DEF d2
<1>2. /\ DbRecord(d2) /\ d2.events = d.events /\ d2.seq = d.seq
      /\ d2.meta = [d.meta EXCEPT ![id] = m2]
  BY <1>1 DEF Shape, IsJournal, DbRecord
<1>3. LET r == RebuildFTS(d2, {id})
      IN r.events = d2.events /\ r.meta = d2.meta /\ r.seq = d2.seq
  BY <1>2, RebuiltFields
<1> QED  BY <1>1, <1>2, <1>3

LEMMA AddTagsIs ==
  ASSUME NEW d, Shape(d), NEW id, NEW tags
  PROVE  LET e == AddTags(d, id, tags).db
         IN \/ e = d
            \/ /\ id \in Live(d) /\ e.events = d.events /\ e.seq = d.seq
               /\ \A t \in tags : ~IsAuthor(t) /\ t \notin Unfindable
               /\ \A i \in Live(d), t \in Tuples :
                    e.meta[i][t] = IF i = id /\ t \in tags THEN "explicit" ELSE d.meta[i][t]
<1> DEFINE m2 == [t \in Tuples |-> IF t \in tags THEN "explicit" ELSE d.meta[id][t]]
           r == RebuildFTS([d EXCEPT !.meta[id] = m2], {id})
<1>1. CASE id \in Live(d) /\ \A t \in tags : ~IsAuthor(t) /\ t \notin Unfindable
  <2>1. r.events = d.events /\ r.seq = d.seq /\ r.meta = [d.meta EXCEPT ![id] = m2]
    <3> HIDE DEF m2
    <3>1. id \in Live(d)  BY <1>1
    <3> QED  BY <3>1, TagsAre, Zenon
  <2>2. AddTags(d, id, tags).db \in {d, r}  BY DEF AddTags, Done, Fail
  <2>3. DOMAIN d.meta = Live(d)  BY DEF Shape
  <2> HIDE DEF r
  <2> QED  BY <1>1, <2>1, <2>2, <2>3
<1>2. CASE ~(id \in Live(d) /\ \A t \in tags : ~IsAuthor(t) /\ t \notin Unfindable)
  <2>1. AddTags(d, id, tags).db = d  BY <1>2 DEF AddTags, Done, Fail
  <2> QED  BY <2>1
<1> QED  BY <1>1, <1>2

LEMMA RemoveTagsIs ==
  ASSUME NEW d, Shape(d), NEW id, NEW tags
  PROVE  LET e == RemoveTags(d, id, tags).db
         IN \/ e = d
            \/ /\ id \in Live(d) /\ e.events = d.events /\ e.seq = d.seq
               /\ \A t \in tags : ~IsAuthor(t)
               /\ \A i \in Live(d), t \in Tuples :
                    e.meta[i][t] = IF i = id /\ t \in tags THEN "none" ELSE d.meta[i][t]
<1> DEFINE m2 == [t \in Tuples |-> IF t \in tags THEN "none" ELSE d.meta[id][t]]
           r == RebuildFTS([d EXCEPT !.meta[id] = m2], {id})
<1>1. CASE id \in Live(d) /\ \A t \in tags : ~IsAuthor(t)
  <2>1. r.events = d.events /\ r.seq = d.seq /\ r.meta = [d.meta EXCEPT ![id] = m2]
    <3> HIDE DEF m2
    <3>1. id \in Live(d)  BY <1>1
    <3> QED  BY <3>1, TagsAre, Zenon
  <2>2. RemoveTags(d, id, tags).db \in {d, r}  BY DEF RemoveTags, Done, Fail
  <2>3. DOMAIN d.meta = Live(d)  BY DEF Shape
  <2> HIDE DEF r
  <2> QED  BY <1>1, <2>1, <2>2, <2>3
<1>2. CASE ~(id \in Live(d) /\ \A t \in tags : ~IsAuthor(t))
  <2>1. RemoveTags(d, id, tags).db = d  BY <1>2 DEF RemoveTags, Done, Fail
  <2> QED  BY <2>1
<1> QED  BY <1>1, <1>2

LEMMA RewriteIs ==
  ASSUME NEW d, Shape(d), NEW t, NEW rows
  PROVE  LET e == RewriteMetaTuple(d, t, rows)
         IN /\ e.events = d.events /\ e.seq = d.seq /\ DOMAIN e.meta = Live(d)
            /\ \A i \in Live(d) :
                 e.meta[i] = IF i \in MetaEventIDs(d, t) THEN rows[i] ELSE d.meta[i]
<1> DEFINE ids == MetaEventIDs(d, t)
           m2 == [i \in DOMAIN d.meta |-> IF i \in ids THEN rows[i] ELSE d.meta[i]]
           d2 == [d EXCEPT !.meta = m2]
<1>1. d2 = [d EXCEPT !.meta = m2]  OBVIOUS
<1>2. /\ DOMAIN m2 = Live(d)
      /\ \A i \in Live(d) : m2[i] = IF i \in ids THEN rows[i] ELSE d.meta[i]
  BY DEF Shape
<1> HIDE DEF d2, m2, ids
<1>3. DbRecord(d2) /\ d2.events = d.events /\ d2.seq = d.seq /\ d2.meta = m2
  BY <1>1 DEF Shape, IsJournal, DbRecord
<1>4. LET r == RebuildFTS(d2, ids)
      IN r.events = d2.events /\ r.meta = d2.meta /\ r.seq = d2.seq
  BY <1>3, RebuiltFields
<1>5. RewriteMetaTuple(d, t, rows) = RebuildFTS(d2, ids)
  BY DEF RewriteMetaTuple, d2, m2, ids
<1> QED  BY <1>2, <1>3, <1>4, <1>5 DEF ids

LEMMA UpdateMetaIs ==
  ASSUME NEW d, Shape(d), NEW old, NEW new
  PROVE  LET e == UpdateMeta(d, old, new).db
         IN \/ e = d
            \/ /\ e.events = d.events /\ e.seq = d.seq /\ DOMAIN e.meta = Live(d)
               /\ Renamable(old, new)
               /\ \A i \in Live(d) :
                    e.meta[i] = IF i \in MetaEventIDs(d, old)
                                THEN Renamed(d.meta[i], old, new) ELSE d.meta[i]
<1> DEFINE rows == [i \in MetaEventIDs(d, old) |-> Renamed(d.meta[i], old, new)]
           r == RewriteMetaTuple(d, old, rows)
<1>1. /\ r.events = d.events /\ r.seq = d.seq /\ DOMAIN r.meta = Live(d)
      /\ \A i \in Live(d) :
           r.meta[i] = IF i \in MetaEventIDs(d, old) THEN rows[i] ELSE d.meta[i]
  BY RewriteIs
<1>2. \/ UpdateMeta(d, old, new).db = d
      \/ Renamable(old, new) /\ UpdateMeta(d, old, new).db = r
  BY DEF UpdateMeta, Done, Fail
<1> HIDE DEF r
<1> QED  BY <1>1, <1>2

LEMMA DeleteMetaIs ==
  ASSUME NEW d, Shape(d), NEW t
  PROVE  LET e == DeleteMeta(d, t).db
         IN \/ e = d
            \/ /\ e.events = d.events /\ e.seq = d.seq /\ DOMAIN e.meta = Live(d)
               /\ ~IsAuthor(t)
               /\ \A i \in Live(d) :
                    e.meta[i] = IF i \in MetaEventIDs(d, t)
                                THEN [d.meta[i] EXCEPT ![t] = "none"] ELSE d.meta[i]
<1> DEFINE rows == [i \in MetaEventIDs(d, t) |-> [d.meta[i] EXCEPT ![t] = "none"]]
           r == RewriteMetaTuple(d, t, rows)
<1>1. /\ r.events = d.events /\ r.seq = d.seq /\ DOMAIN r.meta = Live(d)
      /\ \A i \in Live(d) :
           r.meta[i] = IF i \in MetaEventIDs(d, t) THEN rows[i] ELSE d.meta[i]
  BY RewriteIs
<1>2. DeleteMeta(d, t).db = d \/ (~IsAuthor(t) /\ DeleteMeta(d, t).db = r)
  BY DEF DeleteMeta, Done, Fail
<1> HIDE DEF r
<1> QED  BY <1>1, <1>2

-------------------------------------------------------------------------------
(* The action properties, as one relation between two database values.     *)

NewIds(d, e) == /\ d.seq <= e.seq
                /\ \A i \in Live(e) \ Live(d) : i \in d.seq+1 .. e.seq

RowsKept(d, e) ==
  \A i \in Live(d) \cap Live(e) :
    /\ Authored(d, i) => Authored(e, i)
    /\ \/ e.events[i].title # d.events[i].title
       \/ e.events[i].body # d.events[i].body
       => /\ \A t \in Tuples : d.meta[i][t] = "explicit" => e.meta[i][t] = "explicit"
          /\ BodyTags(e.events[i]) \subseteq Carried(e, i)

NoneOrphaned(d, e) == \A i \in Live(d), p \in Live(d) \ Live(e) :
                        d.events[i].parent = p => i \notin Live(e)

NoneMinted(d, e) == \A i \in Live(e) : \A t \in Unfindable \cap Carried(e, i) :
                      i \in Live(d) /\ t \in Carried(d, i)

Keeps(d, e) == NewIds(d, e) /\ RowsKept(d, e) /\ NoneOrphaned(d, e) /\ NoneMinted(d, e)

LEMMA NothingKeeps ==
  ASSUME NEW d, Shape(d)
  PROVE  Keeps(d, d)
BY DEF Keeps, NewIds, RowsKept, NoneOrphaned, NoneMinted, Shape, IsJournal

(* Operations that write tuples and leave every text alone.                *)
LEMMA TuplesKeep ==
  ASSUME NEW d, Shape(d), NEW e, Live(e) = Live(d), e.seq = d.seq,
         \A i \in Live(d) : /\ e.events[i].title = d.events[i].title
                            /\ e.events[i].body = d.events[i].body
                            /\ Authored(d, i) => Authored(e, i)
                            /\ Unfindable \cap Carried(e, i) \subseteq Carried(d, i)
  PROVE  Keeps(d, e)
BY DEF Keeps, NewIds, RowsKept, NoneOrphaned, NoneMinted, Shape, IsJournal

LEMMA AddTagsKeeps ==
  ASSUME NEW d, Shape(d), NEW id, NEW tags
  PROVE  Keeps(d, AddTags(d, id, tags).db)
<1> DEFINE e == AddTags(d, id, tags).db
<1>1. CASE e = d  BY <1>1, NothingKeeps
<1>2. CASE /\ id \in Live(d) /\ e.events = d.events /\ e.seq = d.seq
           /\ \A t \in tags : ~IsAuthor(t) /\ t \notin Unfindable
           /\ \A i \in Live(d), t \in Tuples :
                e.meta[i][t] = IF i = id /\ t \in tags THEN "explicit" ELSE d.meta[i][t]
  <2> HIDE DEF e
  <2>1. Live(e) = Live(d)  BY <1>2 DEF Live
  <2>2. \A i \in Live(d) : /\ Authored(d, i) => Authored(e, i)
                           /\ Unfindable \cap Carried(e, i) \subseteq Carried(d, i)
    BY <1>2 DEF Authored, Carried
  <2>3. Keeps(d, e)  BY <1>2, <2>1, <2>2, TuplesKeep
  <2> QED  BY <2>3 DEF e
<1> QED  BY <1>1, <1>2, AddTagsIs

LEMMA RemoveTagsKeeps ==
  ASSUME NEW d, Shape(d), NEW id, NEW tags
  PROVE  Keeps(d, RemoveTags(d, id, tags).db)
<1> DEFINE e == RemoveTags(d, id, tags).db
<1>1. CASE e = d  BY <1>1, NothingKeeps
<1>2. CASE /\ id \in Live(d) /\ e.events = d.events /\ e.seq = d.seq
           /\ \A t \in tags : ~IsAuthor(t)
           /\ \A i \in Live(d), t \in Tuples :
                e.meta[i][t] = IF i = id /\ t \in tags THEN "none" ELSE d.meta[i][t]
  <2> HIDE DEF e
  <2>1. Live(e) = Live(d)  BY <1>2 DEF Live
  <2>2. \A i \in Live(d) : /\ Authored(d, i) => Authored(e, i)
                           /\ Unfindable \cap Carried(e, i) \subseteq Carried(d, i)
    BY <1>2 DEF Authored, Carried
  <2>3. Keeps(d, e)  BY <1>2, <2>1, <2>2, TuplesKeep
  <2> QED  BY <2>3 DEF e
<1> QED  BY <1>1, <1>2, RemoveTagsIs

LEMMA UpdateMetaKeeps ==
  ASSUME NEW d, Shape(d), NEW old \in Tuples, NEW new \in Tuples
  PROVE  Keeps(d, UpdateMeta(d, old, new).db)
<1> DEFINE e == UpdateMeta(d, old, new).db
<1>1. CASE e = d  BY <1>1, NothingKeeps
<1>2. CASE /\ e.events = d.events /\ e.seq = d.seq /\ DOMAIN e.meta = Live(d)
           /\ Renamable(old, new)
           /\ \A i \in Live(d) :
                e.meta[i] = IF i \in MetaEventIDs(d, old)
                            THEN Renamed(d.meta[i], old, new) ELSE d.meta[i]
  <2> HIDE DEF e
  <2>1. Live(e) = Live(d) /\ IsAuthor(old) = IsAuthor(new) /\ new \notin Unfindable
    BY <1>2 DEF Live, Renamable, IsAuthor
  <2>2. \A i \in Live(d), t \in Tuples :
          \/ e.meta[i][t] = d.meta[i][t] \/ t = new
          \/ t = old /\ e.meta[i][new] = "explicit"
    BY <1>2 DEF Renamed
  <2>3. \A i \in Live(d), t \in Tuples :
          e.meta[i][t] \in {"none", "explicit", d.meta[i][t]} /\
          (e.meta[i][t] # "none" => t = new \/ d.meta[i][t] # "none") /\
          (d.meta[i][new] # "none" => e.meta[i][new] # "none")
    BY <1>2 DEF Renamed
  <2>4. \A i \in Live(d) : /\ Authored(d, i) => Authored(e, i)
                           /\ Unfindable \cap Carried(e, i) \subseteq Carried(d, i)
    BY <2>1, <2>2, <2>3 DEF Authored, Carried
  <2>5. Keeps(d, e)  BY <1>2, <2>1, <2>4, TuplesKeep
  <2> QED  BY <2>5 DEF e
<1> QED  BY <1>1, <1>2, UpdateMetaIs

LEMMA DeleteMetaKeeps ==
  ASSUME NEW d, Shape(d), NEW t \in Tuples
  PROVE  Keeps(d, DeleteMeta(d, t).db)
<1> DEFINE e == DeleteMeta(d, t).db
<1>1. CASE e = d  BY <1>1, NothingKeeps
<1>2. CASE /\ e.events = d.events /\ e.seq = d.seq /\ DOMAIN e.meta = Live(d)
           /\ ~IsAuthor(t)
           /\ \A i \in Live(d) :
                e.meta[i] = IF i \in MetaEventIDs(d, t)
                            THEN [d.meta[i] EXCEPT ![t] = "none"] ELSE d.meta[i]
  <2> HIDE DEF e
  <2>1. Live(e) = Live(d)  BY <1>2 DEF Live
  <2>2. \A i \in Live(d) : d.meta[i] \in [Tuples -> Provenance]
    BY DEF Shape, IsJournal
  <2>3. \A i \in Live(d), u \in Tuples :
          \/ e.meta[i][u] = d.meta[i][u]
          \/ u = t /\ e.meta[i][u] = "none"
    BY <1>2, <2>2
  <2>4. \A i \in Live(d) : /\ Authored(d, i) => Authored(e, i)
                           /\ Unfindable \cap Carried(e, i) \subseteq Carried(d, i)
    BY <1>2, <2>3 DEF Authored, Carried
  <2>5. Keeps(d, e)  BY <1>2, <2>1, <2>4, TuplesKeep
  <2> QED  BY <2>5 DEF e
<1> QED  BY <1>1, <1>2, DeleteMetaIs

LEMMA ReparentKeeps ==
  ASSUME NEW d, Shape(d), NEW id \in Ids, NEW p \in Ids \cup {NoParent}
  PROVE  Keeps(d, Reparent(d, id, p).db)
<1> DEFINE e == Reparent(d, id, p).db
<1>1. CASE e = d  BY <1>1, NothingKeeps
<1>2. CASE /\ id \in Live(d)
           /\ e = [ events |-> [d.events EXCEPT ![id].parent = p],
                    meta |-> d.meta, fts |-> d.fts, seq |-> d.seq ]
  <2> HIDE DEF e
  <2>1. \A i \in Live(d) : d.events[i] \in EventRow  BY DEF Shape, IsJournal, Live
  <2>2. /\ Live(e) = Live(d) /\ e.meta = d.meta /\ e.seq = d.seq
        /\ \A i \in Live(d) : /\ e.events[i].title = d.events[i].title
                              /\ e.events[i].body = d.events[i].body
    BY <1>2, <2>1 DEF Live, EventRow
  <2>3. Keeps(d, e)  BY <2>2, TuplesKeep DEF Authored, Carried
  <2> QED  BY <2>3 DEF e
<1> QED  BY <1>1, <1>2, ReparentIs

LEMMA UpdateKeeps ==
  ASSUME NEW d, Shape(d), NEW id, NEW title \in Texts \cup {Keep},
         NEW body \in Texts \cup {Keep}, NEW at
  PROVE  Keeps(d, Update(d, id, title, body, at).db)
<1> DEFINE e  == Update(d, id, title, body, at).db
           e2 == Edited(d.events[id], title, body, at)
           m2 == SyncedMeta(d.meta[id], BodyTags(d.events[id]), BodyTags(e2))
<1>1. CASE e = d  BY <1>1, NothingKeeps
<1>2. CASE /\ id \in Live(d) /\ e.events = [d.events EXCEPT ![id] = e2] /\ e.seq = d.seq
           /\ \/ title = Keep /\ body = Keep /\ e.meta = d.meta
              \/ e.meta = [d.meta EXCEPT ![id] = m2]
  <2>1. /\ d.events[id] \in EventRow /\ d.meta[id] \in [Tuples -> Provenance]
        /\ DOMAIN d.meta = Live(d)
    BY <1>2 DEF Shape, IsJournal, Live
  <2>2. /\ e2.parent = d.events[id].parent /\ e2.title \in Texts /\ e2.body \in Texts
        /\ title = Keep /\ body = Keep => e2.title = d.events[id].title
                                          /\ e2.body = d.events[id].body
    BY <2>1 DEF Edited, Or, EventRow
  <2>3. BodyTags(e2) \subseteq Tuples /\ \A t \in BodyTags(e2) : t \notin Unfindable
    BY <2>2, TextAssumption, TagAssumption DEF BodyTags
  <2>4. \A t \in BodyTags(d.events[id]) : ~IsAuthor(t)
    BY <2>1, TagAssumption DEF BodyTags, EventRow
  <2>5. \A t \in Tuples :
          /\ IsAuthor(t) /\ d.meta[id][t] # "none" => m2[t] # "none"
          /\ d.meta[id][t] = "explicit" => m2[t] = "explicit"
          /\ m2[t] # "none" => d.meta[id][t] # "none" \/ t \in BodyTags(e2)
          /\ t \in BodyTags(e2) => m2[t] # "none"
    BY <2>4 DEF SyncedMeta
  <2> HIDE DEF e, e2, m2
  <2>6. /\ Live(e) = Live(d) /\ e.events[id] = e2
        /\ e.meta[id] = m2
           \/ (e.meta[id] = d.meta[id] /\ title = Keep /\ body = Keep)
        /\ \A i \in Live(d) \ {id} : e.events[i] = d.events[i] /\ e.meta[i] = d.meta[i]
    BY <1>2, <2>1 DEF Live
  <2>7. NewIds(d, e) /\ NoneOrphaned(d, e)
    BY <1>2, <2>6 DEF NewIds, NoneOrphaned, Shape, IsJournal
  <2>8. NoneMinted(d, e)
    BY <2>3, <2>5, <2>6 DEF NoneMinted, Carried
  <2>9. ASSUME NEW i \in Live(d)
        PROVE  /\ Authored(d, i) => Authored(e, i)
               /\ \/ e.events[i].title # d.events[i].title
                  \/ e.events[i].body # d.events[i].body
                  => /\ \A t \in Tuples : d.meta[i][t] = "explicit"
                                            => e.meta[i][t] = "explicit"
                     /\ BodyTags(e.events[i]) \subseteq Carried(e, i)
    <3>1. CASE i # id  BY <2>6, <3>1 DEF Authored, Carried
    <3>2. CASE i = id /\ e.meta[id] = m2
      BY <2>3, <2>5, <2>6, <3>2 DEF Authored, Carried
    <3>3. CASE i = id /\ e.meta[id] = d.meta[id] /\ title = Keep /\ body = Keep
      BY <2>2, <2>6, <3>3 DEF Authored, Carried
    <3> QED  BY <2>6, <3>1, <3>2, <3>3
  <2>10. RowsKept(d, e)  BY <2>9 DEF RowsKept
  <2> QED  BY <2>7, <2>8, <2>10 DEF Keeps, e
<1> QED
  <2>1. UpdatedTo(d, e, id, e2, m2, title = Keep /\ body = Keep)
    BY UpdateIs DEF UpdateEffect
  <2> HIDE DEF e, e2, m2
  <2> QED  BY <1>1, <1>2, <2>1 DEF e, UpdatedTo

LEMMA DeleteKeeps ==
  ASSUME NEW d, Shape(d), NEW id
  PROVE  Keeps(d, Delete(d, id).db)
<1> DEFINE e    == Delete(d, id).db
           rest == Live(d) \ Subtree(d, id)
<1>1. CASE e = d  BY <1>1, NothingKeeps
<1>2. CASE /\ Live(e) = rest /\ e.seq = d.seq
           /\ \A i \in rest : e.events[i] = d.events[i] /\ e.meta[i] = d.meta[i]
  <2>1. \A i \in rest : d.events[i].parent \in rest \cup {NoParent}  BY ParentSurvives
  <2>2. NoParent \notin Live(d)  BY DEF Shape, IsJournal, Live, NoParent
  <2> HIDE DEF e
  <2>3. NewIds(d, e)  BY <1>2 DEF NewIds, Shape, IsJournal
  <2>4. NoneOrphaned(d, e)  BY <1>2, <2>1, <2>2 DEF NoneOrphaned
  <2>5. RowsKept(d, e) /\ NoneMinted(d, e)
    BY <1>2 DEF RowsKept, NoneMinted, Authored, Carried
  <2> QED  BY <2>3, <2>4, <2>5 DEF Keeps, e
<1> QED  BY <1>1, <1>2 DEF Delete, Done, Fail, Remaining, Live, Shape

LEMMA AddManyKeeps ==
  ASSUME NEW d, Shape(d), NEW ins \in Seq(Records)
  PROVE  Keeps(d, AddMany(d, ins).db)
<1> DEFINE e   == AddMany(d, ins).db
           new == d.seq+1 .. d.seq+Len(ins)
<1>1. CASE e = d  BY <1>1, NothingKeeps
<1>2. CASE e = Inserted(d, ins) /\ ValidBatch(ins)
  <2>1. /\ Live(e) = Live(d) \cup new /\ e.seq = d.seq + Len(ins)
        /\ \A i \in Live(d) : e.events[i] = d.events[i] /\ e.meta[i] = d.meta[i]
        /\ \A i \in new \ Live(d) : e.meta[i] = NewMeta(ins[i - d.seq])
    BY <1>2 DEF Inserted, Live
  <2>2. Len(ins) \in Nat /\ d.seq \in Nat  BY BatchShape DEF Shape, IsJournal
  <2>3. \A k \in 1..Len(ins) : \A t \in Unfindable \cap Tuples :
          NewMeta(ins[k])[t] = "none"
    BY <1>2 DEF ValidBatch, ValidInput, NewMeta
  <2> HIDE DEF e
  <2>4. NewIds(d, e)  BY <2>1, <2>2 DEF NewIds
  <2>5. RowsKept(d, e)  BY <2>1 DEF RowsKept, Authored, Carried
  <2>6. NoneOrphaned(d, e)  BY <2>1 DEF NoneOrphaned
  <2>7. NoneMinted(d, e)
    <3> SUFFICES ASSUME NEW i \in Live(e), NEW t \in Unfindable \cap Carried(e, i)
                 PROVE  i \in Live(d) /\ t \in Carried(d, i)
      BY DEF NoneMinted
    <3>1. CASE i \in Live(d)  BY <2>1, <3>1 DEF Carried
    <3>2. CASE i \notin Live(d)
      <4>1. i - d.seq \in 1..Len(ins)  BY <2>1, <2>2, <3>2
      <4> QED  BY <2>1, <2>3, <3>2, <4>1 DEF Carried
    <3> QED  BY <3>1, <3>2
  <2> QED  BY <2>4, <2>5, <2>6, <2>7 DEF Keeps, e
<1> QED  BY <1>1, <1>2 DEF AddMany, Done, Fail

LEMMA KeepsStep == ASSUME Consistent(db), [Next]_db PROVE Keeps(db, db')
<1>0. Shape(db)  BY DEF Consistent
<1>1. ASSUME NEW ins \in Batches, Adds(ins) PROVE Keeps(db, db')
  BY <1>0, <1>1, BatchesAre, AddManyKeeps DEF Adds
<1>2. CASE Updates  BY <1>0, <1>2, UpdateKeeps, InputAssumption DEF Updates
<1>3. CASE Reparents  BY <1>0, <1>3, ReparentKeeps DEF Reparents
<1>4. CASE Deletes  BY <1>0, <1>4, DeleteKeeps DEF Deletes
<1>5. CASE AddsTags  BY <1>0, <1>5, AddTagsKeeps DEF AddsTags
<1>6. CASE RemovesTags  BY <1>0, <1>6, RemoveTagsKeeps DEF RemovesTags
<1>7. CASE UpdatesMeta  BY <1>0, <1>7, UpdateMetaKeeps DEF UpdatesMeta
<1>8. CASE DeletesMeta  BY <1>0, <1>8, DeleteMetaKeeps DEF DeletesMeta
<1>9. CASE UNCHANGED db  BY <1>0, <1>9, NothingKeeps
<1> QED  BY <1>1, <1>2, <1>3, <1>4, <1>5, <1>6, <1>7, <1>8, <1>9 DEF Next, Changes

(* No id of a deleted event is handed out again.                           *)
THEOREM IdsNeverComeBack == Spec => IdsNeverReused
<1>1. Consistent(db) /\ [Next]_db => [NeverReused]_db
  BY KeepsStep DEF Keeps, NewIds, NeverReused, Live
<1> QED  BY <1>1, AlwaysConsistent, PTL DEF Spec, IdsNeverReused

(* No verb takes the last author of an event that stays.                   *)
THEOREM AuthorsStay == Spec => AuthorNeverLost
<1>1. Consistent(db) /\ [Next]_db => [AuthorKept]_db
  BY KeepsStep DEF Keeps, RowsKept, AuthorKept, Survivors, Live
<1> QED  BY <1>1, AlwaysConsistent, PTL DEF Spec, AuthorNeverLost

(* An edit of the text retracts nothing the operator asked for and adds    *)
(* every tag the new text mentions.                                        *)
THEOREM EditsKeepExplicit == Spec => EditsRespectProvenance
<1>1. Consistent(db) /\ [Next]_db => [EditSynced]_db
  BY KeepsStep DEF Keeps, RowsKept, EditSynced, TextEdited, Survivors, Live
<1> QED  BY <1>1, AlwaysConsistent, PTL DEF Spec, EditsRespectProvenance

(* No verb writes a tuple that a search could not reach.                   *)
THEOREM NothingUnfindable == Spec => MintsFindable
<1>1. Consistent(db) /\ [Next]_db => [NothingUnfindableMinted]_db
  BY KeepsStep DEF Keeps, NoneMinted, NothingUnfindableMinted, Live
<1> QED  BY <1>1, AlwaysConsistent, PTL DEF Spec, MintsFindable

(* A subtree leaves with its root.                                         *)
THEOREM NothingOrphaned == Spec => DeleteTakesSubtree
<1>1. Consistent(db) /\ [Next]_db => [NoOrphans]_db
  BY KeepsStep DEF Keeps, NoneOrphaned, NoOrphans, Live
<1> QED  BY <1>1, AlwaysConsistent, PTL DEF Spec, DeleteTakesSubtree

-------------------------------------------------------------------------------
(* The tree stays a tree.                                                  *)

KeepsParents(d, e) == /\ Live(e) \subseteq Live(d)
                      /\ \A i \in Live(e) : e.events[i].parent = d.events[i].parent

LEMMA UpdateKeepsParents ==
  ASSUME NEW d, Shape(d), NEW id, NEW title, NEW body, NEW at
  PROVE  KeepsParents(d, Update(d, id, title, body, at).db)
<1> DEFINE e  == Update(d, id, title, body, at).db
           e2 == Edited(d.events[id], title, body, at)
           m2 == SyncedMeta(d.meta[id], BodyTags(d.events[id]), BodyTags(e2))
<1>0. UpdatedTo(d, e, id, e2, m2, title = Keep /\ body = Keep)
  BY UpdateIs DEF UpdateEffect
<1>1. e = d \/ (id \in Live(d) /\ e.events = [d.events EXCEPT ![id] = e2])
  <2> HIDE DEF e, e2, m2
  <2> QED  BY <1>0 DEF UpdatedTo
<1>2. CASE id \in Live(d) /\ e.events = [d.events EXCEPT ![id] = e2]
  <2>1. d.events[id] \in EventRow  BY <1>2 DEF Shape, IsJournal, Live
  <2>2. e2.parent = d.events[id].parent  BY <2>1 DEF Edited, EventRow
  <2> HIDE DEF e, e2
  <2>3. KeepsParents(d, e)  BY <1>2, <2>2 DEF KeepsParents, Live
  <2> QED  BY <2>3 DEF e
<1>3. CASE e = d  BY <1>3 DEF KeepsParents
<1> QED  BY <1>1, <1>2, <1>3

(* What every step of the journal is to the tree: an add, a move, or none  *)
(* of its business.                                                        *)
LEMMA StepOnTree ==
  ASSUME Consistent(db), [SettledNext]_db
  PROVE  \/ \E ins \in Batches : Settled(ins) /\ Adds(ins)
         \/ Reparents
         \/ KeepsParents(db, db')
<1>0. Shape(db)  BY DEF Consistent
<1>1. CASE Updates  BY <1>0, <1>1, UpdateKeepsParents DEF Updates
<1>2. CASE Deletes
  <2>1. PICK id \in Ids : db' = Delete(db, id).db  BY <1>2 DEF Deletes
  <2>2. Live(db') \subseteq Live(db) /\ \A i \in Live(db') : db'.events[i] = db.events[i]
    BY <2>1 DEF Delete, Done, Fail, Remaining, Live
  <2> QED  BY <2>2 DEF KeepsParents
<1>3. CASE AddsTags \/ RemovesTags \/ UpdatesMeta \/ DeletesMeta
  <2>1. db'.events = db.events
    <3>1. CASE AddsTags  BY <1>0, <3>1, AddTagsIs DEF AddsTags
    <3>2. CASE RemovesTags  BY <1>0, <3>2, RemoveTagsIs DEF RemovesTags
    <3>3. CASE UpdatesMeta  BY <1>0, <3>3, UpdateMetaIs DEF UpdatesMeta
    <3>4. CASE DeletesMeta  BY <1>0, <3>4, DeleteMetaIs DEF DeletesMeta
    <3> QED  BY <1>3, <3>1, <3>2, <3>3, <3>4
  <2> QED  BY <2>1 DEF KeepsParents, Live
<1>4. CASE UNCHANGED db  BY <1>4 DEF KeepsParents
<1> QED  BY <1>1, <1>2, <1>3, <1>4 DEF SettledNext, Changes

LEMMA AcyclicStep ==
  ASSUME Consistent(db), Acyclic, [SettledNext]_db
  PROVE  Acyclic'
<1>0. AcyclicTree(db)  BY DEF Acyclic
<1> SUFFICES AcyclicTree(db')  BY DEF Acyclic, AcyclicTree, Live
<1>1. ASSUME NEW ins \in Batches, Settled(ins), Adds(ins) PROVE AcyclicTree(db')
  BY <1>0, <1>1, BatchesAre, BatchShape, AddManyAcyclic DEF Adds, Settled
<1>2. CASE Reparents  BY <1>0, <1>2, ReparentAcyclic DEF Reparents
<1>3. CASE KeepsParents(db, db')  BY <1>0, <1>3, SameParentsAcyclic DEF KeepsParents
<1> QED  BY <1>1, <1>2, <1>3, StepOnTree

LEMMA SettledConsistent == SettledSpec => []Consistent(db)
<1>1. Init => Consistent(db)  BY ConsistentInit
<1>2. [SettledNext]_db => [Next]_db  BY DEF SettledNext, Next
<1>3. Consistent(db) /\ [SettledNext]_db => Consistent(db)'  BY <1>2, ConsistentStep
<1> QED  BY <1>1, <1>3, PTL DEF SettledSpec

(* No sequence of adds, moves and deletions links events into a ring, as   *)
(* long as no batch names an id that is yet to be allocated.               *)
THEOREM StaysAcyclic == SettledSpec => []Acyclic
<1>1. Init => Acyclic  BY DEF Init, Acyclic, AcyclicTree, EmptyJournal, EmptyMap, Live
<1>2. Consistent(db) /\ Acyclic /\ [SettledNext]_db => Acyclic'  BY AcyclicStep
<1> QED  BY <1>1, <1>2, SettledConsistent, PTL DEF SettledSpec

-------------------------------------------------------------------------------
(* A file that arrives with a ring of parents: the verbs never add an      *)
(* event to it, nor make another.                                          *)

(* An old event has nothing new above it, and the chain of a new one       *)
(* leaves the batch or ends: ParentIndex links alone close no ring.        *)
LEMMA AddManyRings ==
  ASSUME NEW d, Consistent(d), NEW ins \in Seq(Records),
         d.seq + Len(ins) <= MaxId, \A k \in DOMAIN ins : ins[k].parent <= d.seq
  PROVE  OnRing(AddMany(d, ins).db) \subseteq OnRing(d)
<1> DEFINE e == AddMany(d, ins).db
<1>1. CASE e = d  BY <1>1
<1>2. CASE e = Inserted(d, ins) /\ ValidBatch(ins)
  <2> DEFINE new == d.seq+1 .. d.seq+Len(ins)
  <2>1. /\ Live(e) = Live(d) \cup new
        /\ Len(ins) \in Nat /\ d.seq \in Nat /\ Live(d) \subseteq 1..d.seq
        /\ DOMAIN ins = 1..Len(ins)
        /\ \A i \in Live(d) : e.events[i] = d.events[i]
        /\ \A i \in Live(d) : d.events[i].parent \in Live(d) \cup {NoParent}
    BY <1>2, BatchShape DEF Inserted, Live, Consistent, Shape, IsJournal
  <2>2. ASSUME NEW k \in 1..Len(ins)
        PROVE  /\ ins[k].index # 0 => /\ ins[k].index \in 1..Len(ins)
                                      /\ e.events[d.seq + k].parent = d.seq + ins[k].index
               /\ ins[k].index = 0 => e.events[d.seq + k].parent \notin new
    <3>1. ins[k] \in Records /\ ins[k].parent <= d.seq  BY <2>1, BatchShape
    <3>2. /\ ins[k].parent \in Nat
          /\ ins[k].index # 0 => ins[k].index \in 1..Len(ins)
      BY <1>2, <3>1, TextInputs, MaxIdAssumption DEF ValidBatch, ValidInput, Ids, NoParent
    <3>3. d.seq + k \in Live(e) \ Live(d) /\ (d.seq + k) - d.seq = k  BY <2>1
    <3>4. e.events[d.seq + k] = NewEvent(d, ins[(d.seq + k) - d.seq])
      BY <1>2, <2>1, <3>3 DEF Inserted
    <3>5. e.events[d.seq + k] = NewEvent(d, ins[k])  BY <3>3, <3>4
    <3> QED  BY <2>1, <3>1, <3>2, <3>5 DEF NewEvent
  <2> HIDE DEF e
  <2>3. \A S \in SUBSET Live(d) : ClosedUpward(d, S) => ClosedUpward(e, S)
    <3>1. NoParent \notin Live(e)  BY <2>1 DEF NoParent
    <3> QED  BY <2>1, <3>1 DEF ClosedUpward
  <2> SUFFICES ASSUME NEW i \in OnRing(e) PROVE i \in OnRing(d)
    BY DEF e
  <2> DEFINE q == e.events[i].parent
  <2>4. i \in Live(e) /\ q \in Live(e) /\ i \in Chain(e, q)  BY DEF OnRing
  <2>5. Live(d) \in SUBSET Live(e) /\ ClosedUpward(e, Live(d))
    BY <2>1, <2>3 DEF ClosedUpward
  <2>6. CASE i \in Live(d)
    <3>1. q = d.events[i].parent /\ q \in Live(d)
      BY <2>1, <2>4, <2>6 DEF NoParent
    <3> HIDE DEF q
    <3>2. ASSUME NEW S \in SUBSET Live(d), q \in S, ClosedUpward(d, S) PROVE i \in S
      BY <2>1, <2>3, <2>4, <3>2, ChainIn
    <3>3. i \in Chain(d, q)  BY <2>6, <3>2 DEF Chain
    <3> QED  BY <2>6, <3>1, <3>3 DEF OnRing
  <2>7. CASE i \notin Live(d)
    <3> DEFINE C == Chain(e, q)
               K == {k \in 1..Len(ins) : d.seq + k \in C}
    <3>1. i - d.seq \in K /\ i \in new  BY <2>1, <2>4, <2>7
    <3>2. PICK k \in K : ins[k].index \notin K
      BY <1>2, <3>1 DEF ValidBatch, AcyclicIndexes
    <3> DEFINE j == d.seq + k
    <3>3. j \in C /\ j \in new /\ j \in Live(e)  BY <2>1, <3>2
    <3>4. e.events[j].parent \notin new
      <4>1. CASE ins[k].index = 0  BY <2>2, <3>2, <4>1
      <4>2. CASE ins[k].index # 0
        <5>1. ins[k].index \in 1..Len(ins) /\ e.events[j].parent = d.seq + ins[k].index
          BY <2>2, <3>2, <4>2
        <5>2. e.events[j].parent \in Live(e)  BY <2>1, <5>1
        <5>3. e.events[j].parent \in C  BY <3>3, <5>2, ChainGoesUp
        <5> QED  BY <3>2, <5>1, <5>3
      <4> QED  BY <4>1, <4>2
    <3>5. {j} \cup Live(d) \in SUBSET Live(e) /\ ClosedUpward(e, {j} \cup Live(d))
      BY <2>1, <2>5, <3>3, <3>4 DEF ClosedUpward
    <3>6. q \in Chain(e, j)  BY <3>3, RingIsOneChain
    <3> HIDE DEF q, j
    <3>7. q \in {j} \cup Live(d)  BY <3>5, <3>6, ChainIn
    <3>8. i \in {j} \cup Live(d)  BY <2>4, <3>5, <3>7, ChainIn
    <3>9. i = j /\ q \notin new  BY <2>7, <3>4, <3>8 DEF q
    <3>10. q \in Live(d)  BY <3>3, <3>7, <3>9
    <3> QED  BY <2>4, <2>5, <2>7, <3>10, ChainIn
  <2> QED  BY <2>6, <2>7
<1> QED  BY <1>1, <1>2 DEF AddMany, Done, Fail

(* A new ring would go through id, and the chain of the new parent, which  *)
(* does not, would have to lead to it.                                     *)
LEMMA ReparentRings ==
  ASSUME NEW d, Consistent(d), NEW id \in Ids, NEW p \in Ids \cup {NoParent}
  PROVE  OnRing(Reparent(d, id, p).db) \subseteq OnRing(d)
<1> DEFINE e == Reparent(d, id, p).db
<1>0. Shape(d)  BY DEF Consistent
<1>1. CASE e = d  BY <1>1
<1>2. CASE /\ id \in Live(d) /\ p \in Live(d) \cup {NoParent}
           /\ p # NoParent => id \notin Chain(d, p)
           /\ e = [ events |-> [d.events EXCEPT ![id].parent = p],
                    meta |-> d.meta, fts |-> d.fts, seq |-> d.seq ]
  <2>1. /\ Live(e) = Live(d) /\ NoParent \notin Live(d)
        /\ \A i \in Live(d) : e.events[i].parent = IF i = id THEN p ELSE d.events[i].parent
    <3>1. \A i \in Live(d) : d.events[i] \in EventRow  BY <1>0 DEF Shape, IsJournal, Live
    <3> QED  BY <1>0, <1>2, <3>1 DEF Live, Shape, IsJournal, NoParent, EventRow
  <2> HIDE DEF e
  <2> SUFFICES ASSUME NEW i \in OnRing(e) PROVE i \in OnRing(d)
    BY DEF e
  <2> DEFINE q == e.events[i].parent
             D == Chain(d, p)
  <2>2. i \in Live(d) /\ q \in Live(d) /\ i \in Chain(e, q)  BY <2>1 DEF OnRing
  <2>3. ~(p # NoParent /\ id \in Chain(e, q))
    <3> SUFFICES ASSUME p # NoParent, id \in Chain(e, q) PROVE FALSE  OBVIOUS
    <3>1. p \in D /\ id \notin D /\ D \in SUBSET Live(d) /\ ClosedUpward(d, D)
      BY <1>2, ChainStarts, ChainIsClosed
    <3>2. ClosedUpward(e, D)  BY <2>1, <3>1 DEF ClosedUpward
    <3>3. ClosedUpward(e, {id} \cup D)
      <4>1. e.events[id].parent \in D  BY <1>2, <2>1, <3>1
      <4> HIDE DEF D
      <4> QED  BY <3>2, <4>1 DEF ClosedUpward
    <3>4. q \in Chain(e, id)  BY RingIsOneChain
    <3>5. q \in {id} \cup D  BY <1>2, <2>1, <3>1, <3>3, <3>4, ChainIn
    <3>6. q \notin D  BY <2>1, <3>1, <3>2, ChainIn
    <3>7. q = id  BY <3>5, <3>6
    <3>8. i \in {id} \cup D  BY <1>2, <2>1, <2>2, <3>1, <3>3, <3>7, ChainIn
    <3>9. CASE i = id  BY <2>1, <2>2, <3>1, <3>7, <3>9
    <3>10. CASE i \in D /\ i # id  BY <1>2, <2>1, <2>2, <3>1, <3>7, <3>10 DEF ClosedUpward
    <3> QED  BY <3>8, <3>9, <3>10
  <2>4. i # id  BY <2>1, <2>2, <2>3
  <2>5. d.events[i].parent = q  BY <2>1, <2>2, <2>4
  <2> HIDE DEF q
  <2>6. ASSUME NEW S \in SUBSET Live(d), q \in S, ClosedUpward(d, S) PROVE i \in S
    <3> DEFINE T == S \cap Chain(e, q)
    <3>1. ClosedUpward(e, Chain(e, q)) /\ q \in Chain(e, q)
      BY <2>1, <2>2, ChainIsClosed, ChainStarts
    <3>2. ASSUME NEW x \in T, e.events[x].parent \in Live(e)
          PROVE  e.events[x].parent \in T
      <4>1. e.events[x].parent \in Chain(e, q)  BY <3>1, <3>2 DEF ClosedUpward
      <4>2. x # id  BY <2>1, <2>3, <3>2
      <4>3. e.events[x].parent = d.events[x].parent  BY <2>1, <4>2
      <4>4. e.events[x].parent \in S  BY <2>1, <2>6, <3>2, <4>3 DEF ClosedUpward
      <4> QED  BY <4>1, <4>4
    <3>3. ClosedUpward(e, T)  BY <3>2 DEF ClosedUpward
    <3>4. Chain(e, q) \subseteq T  BY <2>1, <2>6, <3>1, <3>3, ChainIn
    <3> QED  BY <2>2, <3>4
  <2>7. i \in Chain(d, q)  BY <2>2, <2>6 DEF Chain
  <2> QED  BY <2>2, <2>5, <2>7 DEF OnRing
<1> QED  BY <1>0, <1>1, <1>2, ReparentIs

LEMMA RingsStep ==
  ASSUME Consistent(db), [SettledNext]_db
  PROVE  OnRing(db') \subseteq OnRing(db)
<1>1. ASSUME NEW ins \in Batches, Settled(ins), Adds(ins)
      PROVE  OnRing(db') \subseteq OnRing(db)
  BY <1>1, BatchesAre, BatchShape, AddManyRings DEF Adds, Settled
<1>2. CASE Reparents  BY <1>2, ReparentRings DEF Reparents
<1>3. CASE KeepsParents(db, db')  BY <1>3, FewerLinksRings DEF KeepsParents
<1> QED  BY <1>1, <1>2, <1>3, StepOnTree

(* Whatever file the verbs start from, with whatever rings a hand edit     *)
(* left in it: they never put another event on a ring.  Batches that name  *)
(* an id yet to be allocated are left out, since they can close one.       *)
THEOREM RingsOnlyShrink ==
  Consistent(db) /\ [][SettledNext]_db => RingsNeverGrow
<1>1. Consistent(db) /\ [SettledNext]_db => Consistent(db)'
  BY ConsistentStep DEF SettledNext, Next
<1>2. Consistent(db) /\ [SettledNext]_db => [NoNewRing]_db
  <2> SUFFICES ASSUME Consistent(db), [SettledNext]_db PROVE NoNewRing  OBVIOUS
  <2>1. OnRing(db') \subseteq OnRing(db)  BY RingsStep
  <2> QED  BY <2>1 DEF NoNewRing, OnRing, Chain, ClosedUpward, Live
<1> QED  BY <1>1, <1>2, PTL DEF RingsNeverGrow

-------------------------------------------------------------------------------
(* The walk up from a new parent.                                          *)

LEMMA LinksAre ==
  ASSUME Consistent(db)
  PROVE  /\ db.seq \in 0..MaxId /\ MaxId \in Nat
         /\ Live(db) \subseteq 1..db.seq /\ Live(db) \subseteq Ids /\ NoParent \notin Live(db)
         /\ \A i \in Live(db) : Parent(i) \in Live(db) \cup {NoParent}
BY MaxIdAssumption DEF Consistent, Shape, RowsAgree, IsJournal, Live, Ids, NoParent, Parent

(* One turn of the loop, W what the turns after it answer.                 *)
MoveTurn(W, at, id) ==
  LET cursor == at[1]  seen == at[2]  q == Parent(cursor) IN
  IF cursor \notin Live(db) THEN Found("not_found", cursor)
  ELSE IF q = NoParent THEN Found("ok", cursor)
  ELSE IF MeetsMover(q, id) THEN Found("cycle", q)
  ELSE IF q \in seen THEN Found("corrupt_tree", q)
  ELSE W[<<q, seen \cup {q}>>]

LEMMA MoveWalkIs ==
  ASSUME Consistent(db), NEW id, NEW p
  PROVE  \E W : /\ \A at \in Ids \X SUBSET Ids : W[at] = MoveTurn(W, at, id)
                /\ MoveWalk(id, p) = W[<<p, {p}>>]
<1> DEFINE D == Ids \X SUBSET Ids
           stop == {at \in D : \/ at[1] \notin Live(db)
                               \/ Parent(at[1]) = NoParent
                               \/ MeetsMover(Parent(at[1]), id)
                               \/ Parent(at[1]) \in at[2]}
           r == [at \in D |-> MoveTurn([x \in {} |-> 0], at, id)]
           nxt == [at \in D |-> <<Parent(at[1]), at[2] \cup {Parent(at[1])}>>]
<1>1. \A at \in D \ stop : nxt[at] \in D  BY LinksAre
<1>2. PICK f : f = [x \in D |-> IF x \in stop THEN r[x] ELSE f[nxt[x]]]
  <2>1. \E f : Runs(f, D, stop, r, nxt)
    <3> HIDE DEF D, stop, r, nxt
    <3> QED  BY <1>1, LoopExists
  <2> QED  BY <2>1 DEF Runs
<1>3. ASSUME NEW at \in D
      PROVE  (IF at \in stop THEN r[at] ELSE f[nxt[at]]) = MoveTurn(f, at, id)
  BY DEF MoveTurn
<1>4. f = [at \in D |-> MoveTurn(f, at, id)]
  <2> HIDE DEF D, stop, r, nxt
  <2> QED  BY <1>2, <1>3
<1> DEFINE W == CHOOSE W : W = [at \in D |-> MoveTurn(W, at, id)]
<1>5. W = [at \in D |-> MoveTurn(W, at, id)]
  <2> HIDE DEF D
  <2> QED  BY <1>4
<1>6. MoveWalk(id, p) = W[<<p, {p}>>]  BY DEF MoveWalk, MoveTurn
<1> HIDE DEF W
<1> QED  BY <1>5, <1>6

LEMMA MoveWalkAnswers ==
  ASSUME Consistent(db), NEW id \in Live(db), NEW p \in Ids \ {id}
  PROVE  LET walk == MoveWalk(id, p) IN
         /\ walk.err = Reparent(db, id, p).err
         /\ walk.err = "corrupt_tree" => walk.at \in OnRing(db)
<1> DEFINE D == Ids \X SUBSET Ids
           C == Chain(db, p)
           Right(v) == /\ v.err = Reparent(db, id, p).err
                       /\ v.err = "corrupt_tree" => v.at \in OnRing(db)
           Way(at) == /\ at[1] \in at[2] /\ at[2] \subseteq C /\ p \in at[2] /\ id \notin at[2]
                      /\ \A x \in at[2] \ {at[1]} : Parent(x) \in at[2]
                      /\ \A x \in at[2] : at[1] \in Chain(db, x)
<1>1. PICK W : /\ \A at \in D : W[at] = MoveTurn(W, at, id)
               /\ MoveWalk(id, p) = W[<<p, {p}>>]
  BY MoveWalkIs
<1>2. <<p, {p}>> \in D  OBVIOUS
<1>3. CASE p \notin Live(db)
  <2>1. W[<<p, {p}>>] = Found("not_found", p)  BY <1>1, <1>2, <1>3 DEF MoveTurn
  <2>2. Reparent(db, id, p).err = "not_found"
    BY <1>3, LinksAre DEF Reparent, Fail, Ids, NoParent
  <2> QED  BY <1>1, <2>1, <2>2 DEF Found
<1>4. CASE p \in Live(db)
  <2>1. p # NoParent /\ C \in SUBSET Live(db) /\ ClosedUpward(db, C) /\ p \in C
    BY <1>4, LinksAre, ChainIsClosed, ChainStarts
  <2>2. Reparent(db, id, p).err =
          IF id \in C THEN "cycle"
          ELSE IF \A j \in C : Parent(j) # NoParent THEN "corrupt_tree" ELSE "ok"
    BY <1>4, <2>1 DEF Reparent, Fail, Done, Parent
  <2> DEFINE G == {at \in D : Way(at) => Right(W[at])}
             m == [at \in D |-> Ids \ at[2]]
  <2>3. ASSUME NEW at \in D, \A y \in D : m[y] \subseteq m[at] /\ m[y] # m[at] => y \in G
        PROVE  at \in G
    <3> SUFFICES ASSUME Way(at) PROVE Right(W[at])  OBVIOUS
    <3> DEFINE c == at[1]  S == at[2]  q == Parent(c)
    <3>1. c \in Live(db) /\ S \subseteq Live(db) /\ q \in Live(db) \cup {NoParent}
      BY <2>1, LinksAre
    <3>2. W[at] = MoveTurn(W, at, id)  BY <1>1
    <3>3. (q = NoParent \/ q \in S) => C = S
      <4> SUFFICES ASSUME q = NoParent \/ q \in S PROVE C \subseteq S  OBVIOUS
      <4>1. ClosedUpward(db, S)  BY LinksAre DEF ClosedUpward, Parent
      <4> QED  BY <3>1, <4>1, ChainIn
    <3>4. CASE q = NoParent
      <4>1. W[at] = Found("ok", c)  BY <3>1, <3>2, <3>4 DEF MoveTurn
      <4> QED  BY <2>2, <3>3, <3>4, <4>1 DEF Found
    <3>5. CASE q # NoParent /\ q = id
      <4>1. W[at] = Found("cycle", q)  BY <3>1, <3>2, <3>5 DEF MoveTurn, MeetsMover
      <4>2. id \in C  BY <2>1, <3>5 DEF ClosedUpward, Parent
      <4> QED  BY <2>2, <4>1, <4>2 DEF Found
    <3>6. CASE q # NoParent /\ q # id /\ q \in S
      <4>1. W[at] = Found("corrupt_tree", q)  BY <3>1, <3>2, <3>6 DEF MoveTurn, MeetsMover
      <4>2. \A j \in C : Parent(j) # NoParent  BY <3>1, <3>3, <3>6, LinksAre
      <4>3. q \in OnRing(db)
        <5>1. c \in Chain(db, q) /\ q \in Live(db)  BY <3>1, <3>6
        <5>2. CASE c = q
          BY <5>1, <5>2 DEF OnRing, Parent
        <5>3. CASE c # q
          <6>1. Parent(q) \in Live(db) /\ c \in Chain(db, Parent(q))
            BY <5>1, <5>3, ChainStep DEF Parent
          <6> QED  BY <5>1, <6>1, ChainGoesUp DEF OnRing, Parent
        <5> QED  BY <5>2, <5>3
      <4> QED  BY <2>2, <3>3, <3>6, <4>1, <4>2, <4>3 DEF Found
    <3>7. CASE q # NoParent /\ q # id /\ q \notin S
      <4> DEFINE y == <<q, S \cup {q}>>
      <4>1. W[at] = W[y]  BY <3>1, <3>2, <3>7 DEF MoveTurn, MeetsMover
      <4>2. y \in D /\ y[1] = q /\ y[2] = S \cup {q}  BY <3>1, <3>7, LinksAre
      <4>3. m[y] \subseteq m[at] /\ m[y] # m[at]  BY <3>1, <3>7, <4>2, LinksAre
      <4>4. Way(y)
        <5>1. q \in Live(db) /\ q \in C  BY <2>1, <3>1, <3>7 DEF ClosedUpward, Parent
        <5>2. \A x \in S : q \in Chain(db, x)
          BY <5>1, ChainGoesUp DEF Parent
        <5>3. q \in Chain(db, q)  BY <5>1, ChainStarts
        <5> HIDE DEF y, q
        <5>4. \A x \in (S \cup {q}) \ {q} : Parent(x) \in S \cup {q}
          BY DEF q
        <5> QED  BY <3>7, <4>2, <5>1, <5>2, <5>3, <5>4
      <4>5. y \in G  BY <2>3, <4>2, <4>3
      <4> QED  BY <4>1, <4>4, <4>5
    <3> HIDE DEF Right, Way
    <3> QED  BY <3>1, <3>4, <3>5, <3>6, <3>7
  <2>4. D \subseteq G
    <3>1. IsFiniteSet(Ids)  BY LinksAre, FS_Interval DEF Ids
    <3>2. \A x \in D : m[x] \in SUBSET Ids  OBVIOUS
    <3>3. Inductive(G, D, m, Ids)
      <4> HIDE DEF D, G, m
      <4> QED  BY <2>3, <3>2 DEF Inductive
    <3> HIDE DEF D, G, m
    <3> QED  BY <3>1, <3>3, LoopInduction
  <2>5. Way(<<p, {p}>>)  BY <1>4, <2>1, ChainStarts
  <2>6. Right(W[<<p, {p}>>])  BY <1>2, <2>4, <2>5
  <2> QED  BY <1>1, <2>6
<1> QED  BY <1>3, <1>4

LEMMA MoveWalkIsExact == ASSUME Consistent(db) PROVE MoveWalkExact
BY MoveWalkAnswers DEF MoveWalkExact

-------------------------------------------------------------------------------
(* The recursion down from an event.                                       *)

GrowTurn(W, S) == IF ChildrenOf(S) \subseteq S THEN S ELSE W[S \cup ChildrenOf(S)]

LEMMA SubtreeRowsAre ==
  ASSUME Consistent(db), NEW root
  PROVE  \E W : /\ \A S \in SUBSET Ids : W[S] = GrowTurn(W, S)
                /\ SubtreeRows(root) = W[{root} \cap Live(db)]
<1> DEFINE D == SUBSET Ids
           stop == {S \in D : ChildrenOf(S) \subseteq S}
           r == [S \in D |-> S]
           nxt == [S \in D |-> S \cup ChildrenOf(S)]
<1>1. \A S \in D \ stop : nxt[S] \in D  BY LinksAre DEF ChildrenOf
<1>2. PICK f : f = [S \in D |-> IF S \in stop THEN r[S] ELSE f[nxt[S]]]
  <2>1. \E f : Runs(f, D, stop, r, nxt)
    <3> HIDE DEF D, stop, r, nxt
    <3> QED  BY <1>1, LoopExists
  <2> QED  BY <2>1 DEF Runs
<1>3. ASSUME NEW S \in D
      PROVE  (IF S \in stop THEN r[S] ELSE f[nxt[S]]) = GrowTurn(f, S)
  BY DEF GrowTurn
<1>4. f = [S \in D |-> GrowTurn(f, S)]
  <2> HIDE DEF D, stop, r, nxt
  <2> QED  BY <1>2, <1>3
<1> DEFINE W == CHOOSE W : W = [S \in D |-> GrowTurn(W, S)]
<1>5. W = [S \in D |-> GrowTurn(W, S)]
  <2> HIDE DEF D
  <2> QED  BY <1>4
<1>6. SubtreeRows(root) = W[{root} \cap Live(db)]  BY DEF SubtreeRows, GrowTurn
<1> HIDE DEF W
<1> QED  BY <1>5, <1>6

LEMMA SubtreeRowsFound ==
  ASSUME Consistent(db), NEW root
  PROVE  SubtreeRows(root) = IF root \in Live(db) THEN Subtree(db, root) ELSE {}
<1> DEFINE D == SUBSET Ids
           T == Subtree(db, root)
<1>1. PICK W : /\ \A S \in D : W[S] = GrowTurn(W, S)
               /\ SubtreeRows(root) = W[{root} \cap Live(db)]
  BY SubtreeRowsAre
<1>2. CASE root \notin Live(db)
  <2>1. ChildrenOf({}) = {} /\ {root} \cap Live(db) = {}  BY <1>2 DEF ChildrenOf
  <2>2. W[{}] = {}  BY <1>1, <2>1 DEF GrowTurn
  <2> QED  BY <1>1, <1>2, <2>1, <2>2
<1>3. CASE root \in Live(db)
  <2> DEFINE G == {S \in D : root \in S /\ S \subseteq T => W[S] = T}
             m == [S \in D |-> Ids \ S]
  <2>1. ASSUME NEW S \in D, \A y \in D : m[y] \subseteq m[S] /\ m[y] # m[S] => y \in G
        PROVE  S \in G
    <3> SUFFICES ASSUME root \in S, S \subseteq T PROVE W[S] = T  OBVIOUS
    <3>1. CASE ChildrenOf(S) \subseteq S
      <4>1. ClosedUpward(db, Live(db) \ S)
        BY <3>1 DEF ClosedUpward, ChildrenOf, Parent
      <4>2. ASSUME NEW j \in T, j \notin S PROVE FALSE
        <5>1. j \in Live(db) /\ root \in Chain(db, j)  BY <4>2 DEF Subtree
        <5>2. Chain(db, j) \subseteq Live(db) \ S  BY <4>1, <4>2, <5>1, ChainIn
        <5> QED  BY <5>1, <5>2
      <4> QED  BY <1>1, <3>1, <4>2 DEF GrowTurn
    <3>2. CASE ~(ChildrenOf(S) \subseteq S)
      <4> DEFINE y == S \cup ChildrenOf(S)
      <4>1. W[S] = W[y]  BY <1>1, <3>2 DEF GrowTurn
      <4>2. y \in D  BY LinksAre DEF ChildrenOf
      <4>3. m[y] \subseteq m[S] /\ m[y] # m[S]  BY <3>2, <4>2
      <4>4. ASSUME NEW j \in ChildrenOf(S) PROVE j \in T
        <5>1. j \in Live(db) /\ Parent(j) \in S /\ Parent(j) \in Live(db)
                /\ root \in Chain(db, Parent(j))
          BY DEF ChildrenOf, Subtree
        <5>2. Parent(j) \in Chain(db, j)  BY <5>1, ChainStarts, ChainGoesUp DEF Parent
        <5> QED  BY <5>1, <5>2, ChainIsTransitive DEF Subtree
      <4>5. y \in G  BY <2>1, <4>2, <4>3
      <4> QED  BY <4>1, <4>4, <4>5
    <3> QED  BY <3>1, <3>2
  <2>2. D \subseteq G
    <3>1. IsFiniteSet(Ids)  BY LinksAre, FS_Interval DEF Ids
    <3>2. \A x \in D : m[x] \in SUBSET Ids  OBVIOUS
    <3>3. Inductive(G, D, m, Ids)
      <4> HIDE DEF D, G, m
      <4> QED  BY <2>1, <3>2 DEF Inductive
    <3> HIDE DEF D, G, m
    <3> QED  BY <3>1, <3>3, LoopInduction
  <2>3. {root} \in D /\ {root} \subseteq T  BY <1>3, LinksAre, ChainStarts DEF Subtree
  <2>4. W[{root}] = T  BY <2>2, <2>3
  <2>5. {root} \cap Live(db) = {root}  BY <1>3
  <2> QED  BY <1>1, <1>3, <2>4, <2>5
<1> QED  BY <1>2, <1>3

LEMMA SubtreeIsExact == ASSUME Consistent(db) PROVE SubtreeExact
<1> SUFFICES ASSUME NEW i \in Ids
             PROVE  LET answer == GetSubtree(i) IN
                    /\ answer.err = "ok" <=> i \in Live(db) \ OnRing(db)
                    /\ answer.err = "corrupt_tree" <=> i \in OnRing(db)
                    /\ answer.err = "ok" => answer.at = Live(db) \ Live(Delete(db, i).db)
  BY DEF SubtreeExact
<1>1. CASE i \notin Live(db)
  <2>1. GetSubtree(i) = Found("not_found", {})  BY <1>1, SubtreeRowsFound DEF GetSubtree
  <2>2. i \notin OnRing(db)  BY <1>1 DEF OnRing
  <2> QED  BY <1>1, <2>1, <2>2 DEF Found
<1>2. CASE i \in Live(db)
  <2> DEFINE T == Subtree(db, i)
  <2>1. SubtreeRows(i) = T /\ i \in T  BY <1>2, SubtreeRowsFound, ChainStarts DEF Subtree
  <2>2. LoopsBack(i) <=> i \in OnRing(db)
    BY <1>2, <2>1 DEF LoopsBack, OnRing, Subtree, Parent
  <2>3. T = Live(db) \ Live(Delete(db, i).db)
    BY <1>2 DEF Delete, Remaining, Done, Live, Subtree
  <2>4. GetSubtree(i) = IF i \in OnRing(db) THEN Found("corrupt_tree", {}) ELSE Found("ok", T)
    <3> HIDE DEF T
    <3> QED  BY <2>1, <2>2 DEF GetSubtree
  <2> QED  BY <1>2, <2>3, <2>4 DEF Found
<1> QED  BY <1>1, <1>2

-------------------------------------------------------------------------------
(* The colouring of a batch's links.                                       *)

PathTurn(W, at, index) ==
  LET k == at[1]  path == at[2]  safe == at[3] IN
  IF ClosesPath(path, k) THEN {0}
  ELSE IF k \in safe \cup path THEN safe \cup path
  ELSE IF index[k] = 0 THEN safe \cup path \cup {k}
  ELSE W[<<index[k], path \cup {k}, safe>>]

FromTurn(W, at, n, P) ==
  LET k == at[1]  safe == at[2] IN
  IF 0 \in safe THEN FALSE
  ELSE IF k > n THEN TRUE
  ELSE W[<<k + 1, P[<<k, {}, safe>>]>>]

PathStates(n) == (1..n) \X (SUBSET (1..n)) \X (SUBSET (1..n))
IsPath(P, index, n) == \A at \in PathStates(n) : P[at] = PathTurn(P, at, index)

LEMMA PathExists ==
  ASSUME NEW n \in Nat, NEW index \in [1..n -> 0..n]
  PROVE  \E f : f = [at \in PathStates(n) |-> PathTurn(f, at, index)]
<1> DEFINE D == PathStates(n)
           stop == {at \in D : \/ ClosesPath(at[2], at[1]) \/ at[1] \in at[3] \cup at[2]
                               \/ index[at[1]] = 0}
           r == [at \in D |-> PathTurn([x \in {} |-> 0], at, index)]
           nxt == [at \in D |-> <<index[at[1]], at[2] \cup {at[1]}, at[3]>>]
<1>1. \A at \in D \ stop : nxt[at] \in D
  <2> SUFFICES ASSUME NEW at \in D, at \notin stop PROVE nxt[at] \in D  OBVIOUS
  <2>1. at[1] \in 1..n /\ at[2] \in SUBSET (1..n) /\ at[3] \in SUBSET (1..n)
    BY DEF PathStates
  <2>2. index[at[1]] \in 1..n  BY <2>1
  <2>3. nxt[at] = <<index[at[1]], at[2] \cup {at[1]}, at[3]>>  OBVIOUS
  <2> HIDE DEF nxt, stop
  <2> QED  BY <2>1, <2>2, <2>3 DEF PathStates
<1>2. PICK f : f = [x \in D |-> IF x \in stop THEN r[x] ELSE f[nxt[x]]]
  <2>1. \E f : Runs(f, D, stop, r, nxt)
    <3> HIDE DEF D, stop, r, nxt
    <3> QED  BY <1>1, LoopExists
  <2> QED  BY <2>1 DEF Runs
<1>3. ASSUME NEW at \in D
      PROVE  (IF at \in stop THEN r[at] ELSE f[nxt[at]]) = PathTurn(f, at, index)
  <2> HIDE DEF D
  <2> QED  BY DEF PathTurn
<1> HIDE DEF D, stop, r, nxt
<1>4. f = [at \in D |-> PathTurn(f, at, index)]  BY <1>2, <1>3
<1> QED  BY <1>4 DEF D

(* No record of T is its own ancestor within T.                            *)
Acyc(index, T) == \A S \in (SUBSET T) \ {{}} : \E k \in S : index[k] \notin S

(* A set of coloured records: their links stay inside, and have no ring.   *)
Sound(index, safe) == /\ \A x \in safe : index[x] \in safe \cup {0}
                      /\ Acyc(index, safe)

LEMMA AcycJoins ==
  ASSUME NEW n \in Nat, NEW index \in [1..n -> 0..n],
         NEW safe \in SUBSET (1..n), NEW path \in SUBSET (1..n),
         Sound(index, safe), Acyc(index, path)
  PROVE  Acyc(index, safe \cup path)
<1> SUFFICES ASSUME NEW S \in (SUBSET (safe \cup path)) \ {{}}, \A k \in S : index[k] \in S
             PROVE  FALSE
  BY DEF Acyc
<1>1. 0 \notin S  OBVIOUS
<1>2. \A k \in S \cap safe : index[k] \in S \cap safe  BY <1>1 DEF Sound
<1>3. S \cap safe = {}  BY <1>2 DEF Sound, Acyc
<1>4. S \in SUBSET path  BY <1>3
<1> QED  BY <1>4 DEF Acyc

(* A walk from k ends in a ring, or with more records coloured, k too.     *)
Coloured(index, n, k, safe, R) ==
  \/ R = {0} /\ ~Acyc(index, 1..n)
  \/ R \in SUBSET (1..n) /\ Sound(index, R) /\ safe \subseteq R /\ k \in R

LEMMA PathColours ==
  ASSUME NEW n \in Nat, NEW index \in [1..n -> 0..n], NEW P, IsPath(P, index, n),
         NEW k \in 1..n, NEW safe \in SUBSET (1..n), Sound(index, safe)
  PROVE  Coloured(index, n, k, safe, P[<<k, {}, safe>>])
<1> DEFINE D == PathStates(n)
           Way(at) == /\ at[3] = safe
                      /\ \A x \in at[2] : index[x] \in at[2] \cup {at[1]}
                      /\ at[1] \notin at[2] => Acyc(index, at[2])
           m == [at \in D |-> (1..n) \ at[2]]
           G == {at \in D : Way(at) => /\ Coloured(index, n, at[1], safe, P[at])
                                       /\ 0 \notin P[at] => at[2] \subseteq P[at]}
<1>1. ASSUME NEW at \in D, \A y \in D : m[y] \subseteq m[at] /\ m[y] # m[at] => y \in G
      PROVE  at \in G
  <2> DEFINE c == at[1]  path == at[2]
  <2> SUFFICES ASSUME Way(at)
               PROVE  /\ Coloured(index, n, c, safe, P[at])
                      /\ 0 \notin P[at] => path \subseteq P[at]
    OBVIOUS
  <2>1. c \in 1..n /\ path \in SUBSET (1..n) /\ at[3] = safe  BY DEF PathStates
  <2>2. P[at] = PathTurn(P, at, index)  BY DEF IsPath
  <2>3. CASE c \in path
    <3>1. P[at] = {0}  BY <2>2, <2>3 DEF PathTurn, ClosesPath
    <3>2. path \in (SUBSET (1..n)) \ {{}} /\ \A x \in path : index[x] \in path  BY <2>1, <2>3
    <3>3. ~Acyc(index, 1..n)  BY <3>2 DEF Acyc
    <3> QED  BY <3>1, <3>3 DEF Coloured
  <2>4. CASE c \notin path /\ c \in safe
    <3>1. P[at] = safe \cup path  BY <2>1, <2>2, <2>4 DEF PathTurn, ClosesPath
    <3>2. Acyc(index, safe \cup path)  BY <2>1, <2>4, AcycJoins
    <3>3. Sound(index, safe \cup path)  BY <2>4, <3>2 DEF Sound
    <3> QED  BY <2>1, <2>4, <3>1, <3>3 DEF Coloured
  <2>5. CASE c \notin path /\ c \notin safe /\ index[c] = 0
    <3>1. P[at] = safe \cup (path \cup {c})
      BY <2>1, <2>2, <2>5 DEF PathTurn, ClosesPath
    <3>2. Acyc(index, path \cup {c})
      <4> SUFFICES ASSUME NEW S \in (SUBSET (path \cup {c})) \ {{}}, \A x \in S : index[x] \in S
                   PROVE  FALSE
        BY DEF Acyc
      <4>1. c \notin S  BY <2>1, <2>5
      <4> QED  BY <2>5, <4>1 DEF Acyc
    <3>3. path \cup {c} \in SUBSET (1..n)  BY <2>1
    <3>4. Acyc(index, safe \cup (path \cup {c}))  BY <3>2, <3>3, AcycJoins
    <3>5. Sound(index, safe \cup (path \cup {c}))  BY <2>5, <3>4 DEF Sound
    <3> QED  BY <2>1, <3>1, <3>3, <3>5 DEF Coloured
  <2>6. CASE c \notin path /\ c \notin safe /\ index[c] # 0
    <3> DEFINE y == <<index[c], path \cup {c}, safe>>
    <3>1. P[at] = P[y]  BY <2>1, <2>2, <2>6 DEF PathTurn, ClosesPath
    <3>2. y \in D /\ y[1] = index[c] /\ y[2] = path \cup {c} /\ y[3] = safe
      BY <2>1, <2>6 DEF PathStates
    <3> HIDE DEF y
    <3>3. m[y] \subseteq m[at] /\ m[y] # m[at]  BY <2>1, <2>6, <3>2
    <3>4. y \in G  BY <1>1, <3>2, <3>3
    <3>5. Way(y)
      <4>1. \A x \in path \cup {c} : index[x] \in path \cup {c} \cup {index[c]}  OBVIOUS
      <4>2. ASSUME index[c] \notin path \cup {c} PROVE Acyc(index, path \cup {c})
        <5> SUFFICES ASSUME NEW S \in (SUBSET (path \cup {c})) \ {{}},
                            \A x \in S : index[x] \in S
                     PROVE  FALSE
          BY DEF Acyc
        <5>1. c \notin S  BY <4>2
        <5> QED  BY <2>6, <5>1 DEF Acyc
      <4> QED  BY <3>2, <4>1, <4>2
    <3>6. Coloured(index, n, index[c], safe, P[y]) /\ (0 \notin P[y] => path \cup {c} \subseteq P[y])
      BY <3>2, <3>4, <3>5
    <3> QED  BY <3>1, <3>6 DEF Coloured
  <2> QED  BY <2>3, <2>4, <2>5, <2>6
<1>2. D \subseteq G
  <2>1. IsFiniteSet(1..n) /\ \A x \in D : m[x] \in SUBSET (1..n)  BY FS_Interval
  <2>2. Inductive(G, D, m, 1..n)
    <3> HIDE DEF D, G, m
    <3> QED  BY <1>1, <2>1 DEF Inductive
  <2> HIDE DEF D, G, m
  <2> QED  BY <2>1, <2>2, LoopInduction
<1> DEFINE at == <<k, {}, safe>>
<1>3. at \in D /\ at[1] = k /\ at[2] = {} /\ at[3] = safe  BY DEF PathStates
<1>4. Acyc(index, {})  BY DEF Acyc
<1> HIDE DEF at
<1>5. Way(at)  BY <1>3, <1>4
<1>6. Coloured(index, n, k, safe, P[at])  BY <1>2, <1>3, <1>5
<1> QED  BY <1>6 DEF at

LEMMA PathType ==
  ASSUME NEW n \in Nat, NEW index \in [1..n -> 0..n], NEW P, IsPath(P, index, n)
  PROVE  \A at \in PathStates(n) : P[at] \in SUBSET (0..n)
<1> DEFINE D == PathStates(n)
           m == [at \in D |-> (1..n) \ at[2]]
           G == {at \in D : P[at] \in SUBSET (0..n)}
<1>1. ASSUME NEW at \in D, \A y \in D : m[y] \subseteq m[at] /\ m[y] # m[at] => y \in G
      PROVE  at \in G
  <2> DEFINE c == at[1]  path == at[2]  safe == at[3]
  <2>1. c \in 1..n /\ path \in SUBSET (1..n) /\ safe \in SUBSET (1..n)  BY DEF PathStates
  <2>2. P[at] = PathTurn(P, at, index)  BY DEF IsPath
  <2>3. CASE c \in path \/ c \in safe \/ index[c] = 0
    BY <2>1, <2>2, <2>3 DEF PathTurn, ClosesPath
  <2>4. CASE c \notin path /\ c \notin safe /\ index[c] # 0
    <3> DEFINE y == <<index[c], path \cup {c}, safe>>
    <3>1. P[at] = P[y]  BY <2>1, <2>2, <2>4 DEF PathTurn, ClosesPath
    <3>2. y \in D /\ y[2] = path \cup {c}  BY <2>1, <2>4 DEF PathStates
    <3> HIDE DEF y
    <3>3. m[y] \subseteq m[at] /\ m[y] # m[at]  BY <2>1, <2>4, <3>2
    <3> QED  BY <1>1, <3>1, <3>2, <3>3
  <2> QED  BY <2>3, <2>4
<1>2. D \subseteq G
  <2>1. IsFiniteSet(1..n) /\ \A x \in D : m[x] \in SUBSET (1..n)  BY FS_Interval
  <2>2. Inductive(G, D, m, 1..n)
    <3> HIDE DEF D, G, m
    <3> QED  BY <1>1, <2>1 DEF Inductive
  <2> HIDE DEF D, G, m
  <2> QED  BY <2>1, <2>2, LoopInduction
<1> QED  BY <1>2

FromStates(n) == (1..n+1) \X (SUBSET (0..n))
IsFrom(F, n, P) == \A at \in FromStates(n) : F[at] = FromTurn(F, at, n, P)

LEMMA FromExists ==
  ASSUME NEW n \in Nat, NEW P,
         \A k \in 1..n, safe \in SUBSET (1..n) : P[<<k, {}, safe>>] \in SUBSET (0..n)
  PROVE  \E f : f = [at \in FromStates(n) |-> FromTurn(f, at, n, P)]
<1> DEFINE D == FromStates(n)
           stop == {at \in D : 0 \in at[2] \/ at[1] > n}
           r == [at \in D |-> FromTurn([x \in {} |-> 0], at, n, P)]
           nxt == [at \in D |-> <<at[1] + 1, P[<<at[1], {}, at[2]>>]>>]
<1>1. \A at \in D \ stop : nxt[at] \in D
  <2> SUFFICES ASSUME NEW at \in D, at \notin stop PROVE nxt[at] \in D  OBVIOUS
  <2>1. at[1] \in 1..n /\ at[2] \in SUBSET (1..n)  BY DEF FromStates
  <2> DEFINE R == P[<<at[1], {}, at[2]>>]
  <2>2. R \in SUBSET (0..n) /\ at[1] + 1 \in 1..n+1  BY <2>1
  <2>3. nxt[at] = <<at[1] + 1, R>>  OBVIOUS
  <2> HIDE DEF R
  <2>4. <<at[1] + 1, R>> \in D  BY <2>2 DEF FromStates
  <2> HIDE DEF nxt, D
  <2> QED  BY <2>3, <2>4
<1>2. PICK f : f = [x \in D |-> IF x \in stop THEN r[x] ELSE f[nxt[x]]]
  <2>1. \E f : Runs(f, D, stop, r, nxt)
    <3> HIDE DEF D, stop, r, nxt
    <3> QED  BY <1>1, LoopExists
  <2> QED  BY <2>1 DEF Runs
<1>3. ASSUME NEW at \in D
      PROVE  (IF at \in stop THEN r[at] ELSE f[nxt[at]]) = FromTurn(f, at, n, P)
  <2> HIDE DEF D
  <2> QED  BY DEF FromTurn
<1> HIDE DEF D, stop, r, nxt
<1>4. f = [at \in D |-> FromTurn(f, at, n, P)]  BY <1>2, <1>3
<1> QED  BY <1>4 DEF D

LEMMA IndexWalkIs ==
  ASSUME NEW n \in Nat, NEW index \in [1..n -> 0..n]
  PROVE  \E P, F : /\ IsPath(P, index, n)
                   /\ IsFrom(F, n, P)
                   /\ IndexWalk(index) = F[<<1, {}>>]
<1> DEFINE P == CHOOSE f : f = [at \in PathStates(n) |-> PathTurn(f, at, index)]
           F == CHOOSE f : f = [at \in FromStates(n) |-> FromTurn(f, at, n, P)]
<1>1. Len(index) = n  OBVIOUS
<1>2. IndexWalk(index) = F[<<1, {}>>]
  BY <1>1 DEF IndexWalk, PathStates, FromStates, PathTurn, FromTurn
<1>3. P = [at \in PathStates(n) |-> PathTurn(P, at, index)]  BY PathExists
<1> HIDE DEF P
<1>4. IsPath(P, index, n)  BY <1>3 DEF IsPath
<1>5. \A k \in 1..n, safe \in SUBSET (1..n) : P[<<k, {}, safe>>] \in SUBSET (0..n)
  <2> SUFFICES ASSUME NEW k \in 1..n, NEW safe \in SUBSET (1..n)
               PROVE  P[<<k, {}, safe>>] \in SUBSET (0..n)
    OBVIOUS
  <2>1. <<k, {}, safe>> \in PathStates(n)  BY DEF PathStates
  <2> QED  BY <1>4, <2>1, PathType
<1>6. F = [at \in FromStates(n) |-> FromTurn(F, at, n, P)]  BY <1>5, FromExists
<1> HIDE DEF F
<1>7. IsFrom(F, n, P)  BY <1>6 DEF IsFrom
<1> QED  BY <1>2, <1>4, <1>7

(* The colouring accepts the links in which no record is its own ancestor. *)
LEMMA IndexWalkAnswers ==
  ASSUME NEW n \in Nat, NEW index \in [1..n -> 0..n]
  PROVE  IndexWalk(index) <=> Acyc(index, 1..n)
<1>1. PICK P, F : /\ IsPath(P, index, n)
                  /\ IsFrom(F, n, P)
                  /\ IndexWalk(index) = F[<<1, {}>>]
  BY IndexWalkIs
<1> DEFINE D == FromStates(n)
           Way(at) == IF 0 \in at[2] THEN ~Acyc(index, 1..n)
                      ELSE Sound(index, at[2]) /\ 1..at[1]-1 \subseteq at[2]
           m == [at \in D |-> at[1]..n]
           G == {at \in D : Way(at) => (F[at] <=> Acyc(index, 1..n))}
<1>2. ASSUME NEW at \in D, \A y \in D : m[y] \subseteq m[at] /\ m[y] # m[at] => y \in G
      PROVE  at \in G
  <2> DEFINE k == at[1]  safe == at[2]
  <2> SUFFICES ASSUME Way(at) PROVE F[at] <=> Acyc(index, 1..n)  OBVIOUS
  <2>1. k \in 1..n+1 /\ safe \in SUBSET (0..n)  BY DEF FromStates
  <2>2. F[at] = FromTurn(F, at, n, P)  BY <1>1 DEF IsFrom
  <2>3. CASE 0 \in safe  BY <2>2, <2>3 DEF FromTurn
  <2>4. CASE 0 \notin safe /\ k > n
    <3>1. F[at] = TRUE  BY <2>2, <2>4 DEF FromTurn
    <3>2. safe = 1..n
      <4>1. k = n + 1 /\ 1..k-1 \subseteq safe  BY <2>1, <2>4
      <4>2. \A x \in safe : x \in 0..n /\ x # 0  BY <2>1, <2>4
      <4>3. \A x \in safe : x \in 1..n  BY <4>2
      <4>4. 1..n \subseteq safe
        <5>1. k - 1 = n  BY <4>1
        <5> QED  BY <4>1, <5>1
      <4> HIDE DEF k, safe
      <4> QED  BY <4>3, <4>4
    <3> QED  BY <2>4, <3>1, <3>2 DEF Sound
  <2>5. CASE 0 \notin safe /\ k <= n
    <3> DEFINE R == P[<<k, {}, safe>>]  y == <<k + 1, R>>
    <3>1. k \in 1..n /\ safe \in SUBSET (1..n) /\ Sound(index, safe)  BY <2>1, <2>5
    <3>2. Coloured(index, n, k, safe, R)  BY <1>1, <3>1, PathColours
    <3>3. F[at] = F[y]
      <4>1. FromTurn(F, at, n, P) = IF 0 \in safe THEN FALSE ELSE IF k > n THEN TRUE ELSE F[y]
        <5> HIDE DEF D, G, m
        <5> QED  BY DEF FromTurn
      <4>2. ~(k > n)  BY <2>1, <2>5
      <4> QED  BY <2>2, <2>5, <4>1, <4>2
    <3> HIDE DEF R
    <3>4. y \in D /\ y[1] = k + 1 /\ y[2] = R  BY <3>1, <3>2 DEF Coloured, FromStates
    <3> HIDE DEF y
    <3>5. m[y] \subseteq m[at] /\ m[y] # m[at]  BY <3>1, <3>4
    <3>6. Way(y)
      <4>1. CASE R = {0} /\ ~Acyc(index, 1..n)  BY <3>4, <4>1
      <4>2. CASE R \in SUBSET (1..n) /\ Sound(index, R) /\ safe \subseteq R /\ k \in R
        <5>1. 0 \notin R  BY <4>2
        <5>2. 1..(k + 1) - 1 \subseteq R  BY <2>5, <3>1, <4>2
        <5> QED  BY <3>4, <4>2, <5>1, <5>2
      <4> QED  BY <3>2, <4>1, <4>2 DEF Coloured
    <3> QED  BY <1>2, <3>3, <3>4, <3>5, <3>6
  <2> QED  BY <2>1, <2>3, <2>4, <2>5
<1>3. D \subseteq G
  <2>1. IsFiniteSet(1..n) /\ \A x \in D : m[x] \in SUBSET (1..n)
    <3>1. \A x \in D : x[1] \in 1..n+1  BY DEF FromStates
    <3>2. \A x \in D : x[1]..n \subseteq 1..n  BY <3>1
    <3>3. IsFiniteSet(1..n)  BY FS_Interval
    <3> HIDE DEF D
    <3> QED  BY <3>2, <3>3
  <2>2. Inductive(G, D, m, 1..n)
    <3> HIDE DEF D, G, m
    <3> QED  BY <1>2, <2>1 DEF Inductive
  <2> HIDE DEF D, G, m
  <2> QED  BY <2>1, <2>2, LoopInduction
<1> DEFINE at == <<1, {}>>
<1>4. at \in D /\ at[1] = 1 /\ at[2] = {}  BY DEF FromStates
<1> HIDE DEF at
<1>5. Way(at)  BY <1>4 DEF Sound, Acyc
<1>6. F[at] <=> Acyc(index, 1..n)  BY <1>3, <1>4, <1>5
<1> QED  BY <1>1, <1>6 DEF at

LEMMA IndexWalkIsExact == ASSUME Consistent(db) PROVE IndexWalkExact
<1> SUFFICES ASSUME NEW j \in 1..db.seq, NEW k \in 0..db.seq
             PROVE  LET index == [LinksAsBatch EXCEPT ![j] = k] IN
                    IndexWalk(index) <=>
                      AcyclicIndexes([i \in 1..db.seq |-> [index |-> index[i]]])
  BY DEF IndexWalkExact
<1> DEFINE n == db.seq
           index == [LinksAsBatch EXCEPT ![j] = k]
           ins == [i \in 1..n |-> [index |-> index[i]]]
<1>1. n \in Nat  BY LinksAre
<1>2. LinksAsBatch \in [1..n -> 0..n]  BY LinksAre DEF LinksAsBatch, NoParent
<1>3. index \in [1..n -> 0..n]  BY <1>1, <1>2
<1>4. IndexWalk(index) <=> Acyc(index, 1..n)
  <2> HIDE DEF index, n
  <2> QED  BY <1>1, <1>3, IndexWalkAnswers
<1>5. Len(ins) = n /\ \A i \in 1..n : ins[i].index = index[i]
  <2> HIDE DEF index, n
  <2> QED  BY <1>1
<1>6. AcyclicIndexes(ins) <=> Acyc(index, 1..n)
  <2> HIDE DEF index, n, ins
  <2> QED  BY <1>5 DEF AcyclicIndexes, Acyc
<1> QED  BY <1>4, <1>6

LEMMA WalksAreExact == ASSUME Consistent(db) PROVE WalksExact
BY MoveWalkIsExact, SubtreeIsExact, IndexWalkIsExact DEF WalksExact

(* On whatever consistent file the verbs work, with whatever rings a hand  *)
(* edit left in it, and after every step: the walk that may refuse a move, *)
(* the recursion that reads a subtree and the check of a batch's links end,*)
(* and answer what the whole relation of parents decides.                  *)
THEOREM WalksAlwaysExact == Consistent(db) /\ [][Next]_db => []WalksExact
<1>1. Consistent(db) /\ [Next]_db => Consistent(db)'  BY ConsistentStep
<1>2. Consistent(db) => WalksExact  BY WalksAreExact
<1> QED  BY <1>1, <1>2, PTL

--------------------------------------------------------------
(* The tree view.                                                          *)

(* The events from which one only ever climbs to others of the same kind,  *)
(* never to a root, all hang below a ring.                                 *)
LEMMA ClimbMeetsRing ==
  ASSUME Consistent(db), NEW U \in SUBSET Live(db), \A x \in U : Parent(x) \in U
  PROVE  \A x \in U : Chain(db, x) \cap OnRing(db) # {}
<1> DEFINE m == [x \in U |-> Chain(db, x)]
           G == {x \in U : Chain(db, x) \cap OnRing(db) # {}}
<1>1. ASSUME NEW x \in U, \A y \in U : m[y] \subseteq m[x] /\ m[y] # m[x] => y \in G
      PROVE  x \in G
  <2> DEFINE p == Parent(x)
  <2>1. p \in U /\ p \in Live(db) /\ x \in Live(db)  OBVIOUS
  <2>2. ClosedUpward(db, Chain(db, x)) /\ x \in Chain(db, x)
    BY <2>1, ChainIsClosed, ChainStarts, LinksAre
  <2>3. p \in Chain(db, x)  BY <2>1, <2>2 DEF ClosedUpward, Parent
  <2>4. Chain(db, p) \subseteq Chain(db, x)
    BY <2>1, <2>2, <2>3, ChainIn, LinksAre DEF Chain
  <2>5. CASE Chain(db, p) # Chain(db, x)  BY <1>1, <2>1, <2>4, <2>5
  <2>6. CASE Chain(db, p) = Chain(db, x)
    <3>1. x \in OnRing(db)  BY <2>1, <2>2, <2>6 DEF OnRing, Parent
    <3> QED  BY <2>2, <3>1
  <2> QED  BY <2>5, <2>6
<1>2. IsFiniteSet(Live(db))
  <2>1. db.seq \in Int /\ Live(db) \in SUBSET (1..db.seq)  BY LinksAre
  <2>2. IsFiniteSet(1..db.seq)  BY <2>1, FS_Interval
  <2> QED  BY <2>1, <2>2, FS_Subset
<1>3. \A x \in U : m[x] \in SUBSET Live(db)  BY DEF Chain
<1>4. U \subseteq G
  <2>1. Inductive(G, U, m, Live(db))
    <3> HIDE DEF G, m
    <3> QED  BY <1>1, <1>3 DEF Inductive
  <2> HIDE DEF G, m
  <2> QED  BY <1>2, <2>1, LoopInduction
<1> QED  BY <1>4

(* A listing put in order has the events of its places.                    *)
Rises(f, k) == \A i, j \in 1..k : i < j => f[i] < f[j]

LEMMA Enumerated ==
  ASSUME NEW n \in Nat, NEW T \in SUBSET (1..n)
  PROVE  \E f \in [1..Cardinality(T) -> T] : Rises(f, Cardinality(T))
<1> DEFINE D == SUBSET (1..n)
           m == [X \in D |-> X]
           G == {X \in D : \E f \in [1..Cardinality(X) -> X] : Rises(f, Cardinality(X))}
<1>1. ASSUME NEW X \in D, \A Y \in D : m[Y] \subseteq m[X] /\ m[Y] # m[X] => Y \in G
      PROVE  X \in G
  <2>1. IsFiniteSet(X) /\ Cardinality(X) \in Nat
    <3>1. IsFiniteSet(1..n)  BY FS_Interval
    <3>2. IsFiniteSet(X)  BY <3>1, FS_Subset
    <3> QED  BY <3>2, FS_CardinalityType
  <2>2. CASE X = {}
    <3>1. Cardinality(X) = 0  BY <2>2, FS_EmptySet
    <3> DEFINE f == [i \in 1..Cardinality(X) |-> 0]
    <3>2. f \in [1..Cardinality(X) -> X]  BY <3>1
    <3>3. Rises(f, Cardinality(X))  BY <3>1 DEF Rises
    <3> HIDE DEF f
    <3> QED  BY <3>2, <3>3
  <2>3. CASE X # {}
    <3>1. PICK x \in X : \A y \in X : y <= x
      <4> DEFINE above == [y \in X |-> {z \in X : z > y}]
                 none == {y \in X : \E x \in X : \A z \in X : z <= x}
      <4>1. Inductive(none, X, above, X)
        <5> SUFFICES ASSUME NEW y \in X,
                            \A z \in X : above[z] \subseteq above[y] /\ above[z] # above[y]
                                         => z \in none
                     PROVE  y \in none
          BY DEF Inductive
        <5>1. CASE \A z \in X : z <= y  BY <5>1
        <5>2. CASE \E z \in X : z > y
          <6>1. PICK z \in X : z > y  BY <5>2
          <6>2. above[z] \subseteq above[y] /\ z \in above[y] /\ z \notin above[z]
            <7>1. \A v \in X : v \in 1..n  OBVIOUS
            <7>2. z \in 1..n /\ y \in 1..n  BY <7>1
            <7>3. \A v \in X : v > z => v > y  BY <6>1, <7>1, <7>2
            <7>4. above[z] = {v \in X : v > z} /\ above[y] = {v \in X : v > y}  OBVIOUS
            <7>5. ~(z > z)  BY <7>2
            <7> HIDE DEF above
            <7> QED  BY <6>1, <7>3, <7>4, <7>5
          <6>3. z \in none  BY <6>2
          <6> QED  BY <6>3
        <5> QED  BY <5>1, <5>2
      <4>2. X \subseteq none
        <5> HIDE DEF above, none
        <5> QED  BY <2>1, <4>1, LoopInduction
      <4> QED  BY <2>3, <4>2
    <3> DEFINE Y == X \ {x}  c == Cardinality(X)
    <3>2. Cardinality(Y) = c - 1 /\ c >= 1
      <4>1. Cardinality(Y) = c - 1  BY <2>1, FS_RemoveElement
      <4>2. Cardinality(Y) \in Nat  BY <2>1, FS_RemoveElement, FS_CardinalityType
      <4> QED  BY <2>1, <4>1, <4>2
    <3>3. Y \in G  BY <1>1
    <3>4. PICK g \in [1..c-1 -> Y] : Rises(g, c - 1)  BY <3>2, <3>3
    <3> DEFINE f == [i \in 1..c |-> IF i = c THEN x ELSE g[i]]
    <3>5. f \in [1..c -> X]
      <4> SUFFICES ASSUME NEW i \in 1..c, i # c PROVE g[i] \in X  OBVIOUS
      <4>1. i \in 1..c-1  BY <2>1
      <4> QED  BY <3>4, <4>1
    <3>6. Rises(f, c)
      <4> SUFFICES ASSUME NEW i \in 1..c, NEW j \in 1..c, i < j PROVE f[i] < f[j]  BY DEF Rises
      <4>1. i \in 1..c-1 /\ f[i] = g[i] /\ g[i] \in X /\ g[i] # x  BY <2>1, <3>4
      <4>2. CASE j = c
        <5>1. f[j] = x /\ x \in 1..n /\ g[i] \in 1..n /\ g[i] <= x  BY <3>1, <4>1, <4>2
        <5> QED  BY <4>1, <5>1
      <4>3. CASE j # c
        <5>1. j \in 1..c-1 /\ f[j] = g[j]  BY <2>1, <4>3
        <5> QED  BY <3>4, <4>1, <5>1 DEF Rises
      <4> QED  BY <4>2, <4>3
    <3> HIDE DEF f
    <3> QED  BY <3>5, <3>6
  <2> QED  BY <2>2, <2>3
<1>2. D \subseteq G
  <2>1. IsFiniteSet(1..n)  BY FS_Interval
  <2>2. Inductive(G, D, m, 1..n)
    <3>1. \A X \in D : m[X] \in SUBSET (1..n)  OBVIOUS
    <3> HIDE DEF D, G, m
    <3> QED  BY <1>1, <3>1 DEF Inductive
  <2> HIDE DEF D, G, m
  <2> QED  BY <2>1, <2>2, LoopInduction
<1> QED  BY <1>2

Picks(o, c, listing, places, S) ==
  /\ o \in [1..c -> S]
  /\ \A k \in places : \E j \in 1..c : o[j] = listing[k]
  /\ \A j \in 1..c : \E k \in places : o[j] = listing[k]

LEMMA InOrderIs ==
  ASSUME NEW n \in Nat, NEW S, NEW listing \in [1..n -> S], NEW places \in SUBSET (1..n)
  PROVE  \E c \in Nat : Picks(InOrder(listing, places), c, listing, places, S)
<1> DEFINE c == Cardinality(places)
           place == CHOOSE f \in [1..c -> places] : \A j, k \in 1..c : j < k => f[j] < f[k]
<1>1. InOrder(listing, places) = [k \in 1..c |-> listing[place[k]]]  BY DEF InOrder
<1>2. IsFiniteSet(places) /\ c \in Nat
  <2>1. IsFiniteSet(1..n)  BY FS_Interval
  <2>2. IsFiniteSet(places)  BY <2>1, FS_Subset
  <2> QED  BY <2>2, FS_CardinalityType
<1>3. place \in [1..c -> places] /\ Rises(place, c)
  BY Enumerated DEF Rises
<1> HIDE DEF place
<1>4. place \in Injection(1..c, places)
  <2>1. ASSUME NEW i \in 1..c, NEW j \in 1..c, place[i] = place[j] PROVE i = j
    <3>1. ~(i < j) /\ ~(j < i)
      <4>1. place[i] \in 1..n /\ place[j] \in 1..n  BY <1>3
      <4> QED  BY <1>3, <2>1, <4>1 DEF Rises
    <3> QED  BY <1>2, <3>1
  <2> QED  BY <1>3, <2>1 DEF Injection, IsInjective
<1>5. place \in Surjection(1..c, places)
  <2>1. IsFiniteSet(1..c) /\ Cardinality(1..c) = c  BY <1>2, FS_Interval
  <2> QED  BY <1>2, <1>4, <2>1, FS_Injection
<1>6. \A k \in places : \E j \in 1..c : place[j] = k  BY <1>5 DEF Surjection
<1>7. \A j \in 1..c : place[j] \in places  BY <1>3
<1>8. InOrder(listing, places) \in [1..c -> S]  BY <1>1, <1>7
<1>9. \A j \in 1..c : InOrder(listing, places)[j] = listing[place[j]]  BY <1>1
<1>10. \A k \in places : \E j \in 1..c : InOrder(listing, places)[j] = listing[k]
  <2> SUFFICES ASSUME NEW k \in places
               PROVE  \E j \in 1..c : InOrder(listing, places)[j] = listing[k]
    OBVIOUS
  <2>1. PICK j \in 1..c : place[j] = k  BY <1>6
  <2> QED  BY <1>9, <2>1
<1>11. \A j \in 1..c : \E k \in places : InOrder(listing, places)[j] = listing[k]
  BY <1>7, <1>9
<1> HIDE DEF c
<1> QED  BY <1>2, <1>8, <1>10, <1>11 DEF Picks

Lines(S) == [id : S, depth : Nat, orphan : BOOLEAN]

KidsOf(listing, line) ==
  LET kids == InOrder(listing, {k \in DOMAIN listing : Parent(listing[k]) = line.id})
  IN [k \in DOMAIN kids |-> Drawing(kids[k], line.depth + 1, FALSE)]
RootsOf(listing) ==
  LET roots == InOrder(listing, {k \in DOMAIN listing : Parent(listing[k]) \notin Listed(listing)})
  IN [k \in DOMAIN roots |-> Top(roots[k])]

IsDrawn(drawn, i) == \E k \in DOMAIN drawn : drawn[k].id = i

(* One turn of node, W what the turns after it draw.                       *)
DrawTurn(W, at, listing) ==
  LET todo == at[1]  drawn == at[2] IN
  IF todo = <<>> THEN drawn
  ELSE IF IsDrawn(drawn, Head(todo).id) THEN W[<<Tail(todo), drawn>>]
  ELSE W[<<KidsOf(listing, Head(todo)) \o Tail(todo), Append(drawn, Head(todo))>>]

DrawStates == Seq(Drawings) \X Seq(Drawings)
IsDraw(W, listing) == \A at \in DrawStates : W[at] = DrawTurn(W, at, listing)

LEMMA ListingIs ==
  ASSUME Consistent(db), NEW S \in SUBSET Live(db), NEW listing \in Listings(S)
  PROVE  /\ IsFiniteSet(S) /\ Cardinality(S) \in Nat
         /\ listing \in [1..Cardinality(S) -> S]
         /\ \A i \in S : \E k \in 1..Cardinality(S) : listing[k] = i
         /\ Listed(listing) = S
<1> DEFINE n == Cardinality(S)
<1>1. IsFiniteSet(S) /\ n \in Nat
  <2>1. db.seq \in Int /\ S \in SUBSET (1..db.seq)  BY LinksAre
  <2>2. IsFiniteSet(1..db.seq)  BY <2>1, FS_Interval
  <2>3. IsFiniteSet(S)  BY <2>1, <2>2, FS_Subset
  <2> QED  BY <2>3, FS_CardinalityType
<1>2. listing \in [1..n -> S] /\ \A j, k \in 1..n : listing[j] = listing[k] => j = k
  BY DEF Listings
<1>3. listing \in Surjection(1..n, S)
  <2>1. listing \in Injection(1..n, S)  BY <1>2 DEF Injection, IsInjective
  <2>2. Cardinality(1..n) = n  BY <1>1, FS_Interval
  <2> QED  BY <1>1, <2>1, <2>2, FS_Injection
<1>4. \A i \in S : \E k \in 1..n : listing[k] = i  BY <1>3 DEF Surjection
<1>5. Listed(listing) = S  BY <1>2, <1>4 DEF Listed
<1> QED  BY <1>1, <1>2, <1>4, <1>5

LEMMA KidsAre ==
  ASSUME Consistent(db), NEW S \in SUBSET Live(db), NEW listing \in Listings(S),
         NEW line \in Drawings
  PROVE  LET kids == KidsOf(listing, line) IN
         /\ kids \in Seq(Lines(S))
         /\ \A j \in 1..Len(kids) : kids[j].depth = line.depth + 1 /\ Parent(kids[j].id) = line.id
         /\ \A i \in S : Parent(i) = line.id => \E j \in 1..Len(kids) : kids[j].id = i
<1> DEFINE n == Cardinality(S)
           places == {k \in 1..n : Parent(listing[k]) = line.id}
           below == InOrder(listing, places)
<1>1. n \in Nat /\ listing \in [1..n -> S] /\ \A i \in S : \E k \in 1..n : listing[k] = i
  BY ListingIs
<1>2. PICK c \in Nat : Picks(below, c, listing, places, S)
  <2>1. places \in SUBSET (1..n)  OBVIOUS
  <2> HIDE DEF places, n
  <2> QED  BY <1>1, <2>1, InOrderIs
<1>3. DOMAIN listing = 1..n  BY <1>1
<1>4. KidsOf(listing, line) = [k \in DOMAIN below |-> Drawing(below[k], line.depth + 1, FALSE)]
  BY <1>3 DEF KidsOf
<1>5. \A j \in 1..c : Parent(below[j]) = line.id  BY <1>2 DEF Picks
<1>6. \A i \in S : Parent(i) = line.id => \E j \in 1..c : below[j] = i
  <2> SUFFICES ASSUME NEW i \in S, Parent(i) = line.id PROVE \E j \in 1..c : below[j] = i
    OBVIOUS
  <2>1. PICK k \in 1..n : listing[k] = i  BY <1>1
  <2>2. k \in places  BY <2>1
  <2> HIDE DEF below, places
  <2> QED  BY <1>2, <2>1, <2>2 DEF Picks
<1> HIDE DEF below
<1>7. KidsOf(listing, line) = [k \in 1..c |-> Drawing(below[k], line.depth + 1, FALSE)]
  BY <1>2, <1>4 DEF Picks
<1>8. line.depth + 1 \in Nat  BY DEF Drawings
<1>9. \A j \in 1..c : Drawing(below[j], line.depth + 1, FALSE) \in Lines(S)
  BY <1>2, <1>8 DEF Drawing, Lines, Picks
<1>10. KidsOf(listing, line) \in [1..c -> Lines(S)]  BY <1>7, <1>9
<1>11. KidsOf(listing, line) \in Seq(Lines(S)) /\ Len(KidsOf(listing, line)) = c
  <2> HIDE DEF places
  <2> QED  BY <1>10
<1> QED  BY <1>5, <1>6, <1>7, <1>11 DEF Drawing

LEMMA RootsAre ==
  ASSUME Consistent(db), NEW S \in SUBSET Live(db), NEW listing \in Listings(S)
  PROVE  LET roots == RootsOf(listing) IN
         /\ roots \in Seq(Lines(S))
         /\ \A j \in 1..Len(roots) : roots[j] = Top(roots[j].id) /\ Parent(roots[j].id) \notin S
         /\ \A i \in S : Parent(i) \notin S => \E j \in 1..Len(roots) : roots[j].id = i
<1> DEFINE n == Cardinality(S)
           places == {k \in 1..n : Parent(listing[k]) \notin S}
           tops == InOrder(listing, places)
<1>1. /\ n \in Nat /\ listing \in [1..n -> S] /\ \A i \in S : \E k \in 1..n : listing[k] = i
      /\ Listed(listing) = S
  BY ListingIs
<1>2. PICK c \in Nat : Picks(tops, c, listing, places, S)
  <2>1. places \in SUBSET (1..n)  OBVIOUS
  <2> HIDE DEF places, n
  <2> QED  BY <1>1, <2>1, InOrderIs
<1>3. DOMAIN listing = 1..n  BY <1>1
<1>4. RootsOf(listing) = [k \in DOMAIN tops |-> Top(tops[k])]
  BY <1>1, <1>3 DEF RootsOf
<1>5. \A j \in 1..c : Parent(tops[j]) \notin S  BY <1>2 DEF Picks
<1>6. \A i \in S : Parent(i) \notin S => \E j \in 1..c : tops[j] = i
  <2> SUFFICES ASSUME NEW i \in S, Parent(i) \notin S PROVE \E j \in 1..c : tops[j] = i
    OBVIOUS
  <2>1. PICK k \in 1..n : listing[k] = i  BY <1>1
  <2>2. k \in places  BY <2>1
  <2> HIDE DEF tops, places
  <2> QED  BY <1>2, <2>1, <2>2 DEF Picks
<1> HIDE DEF tops
<1>7. RootsOf(listing) = [k \in 1..c |-> Top(tops[k])]  BY <1>2, <1>4 DEF Picks
<1>8. \A j \in 1..c : Top(tops[j]) \in Lines(S)
  BY <1>2 DEF Top, Drawing, Lines, Picks
<1>9. RootsOf(listing) \in Seq(Lines(S)) /\ Len(RootsOf(listing)) = c
  BY <1>7, <1>8
<1> QED  BY <1>5, <1>6, <1>7, <1>9 DEF Top, Drawing

LEMMA SweepIs ==
  ASSUME Consistent(db), NEW S \in SUBSET Live(db), NEW listing \in Listings(S)
  PROVE  LET sweep == Sweep(listing) IN
         /\ sweep \in Seq(Lines(S))
         /\ \A j \in 1..Len(sweep) : sweep[j] = Top(sweep[j].id)
         /\ \A i \in S : \E j \in 1..Len(sweep) : sweep[j].id = i
<1> DEFINE n == Cardinality(S)
<1>1. n \in Nat /\ listing \in [1..n -> S] /\ \A i \in S : \E k \in 1..n : listing[k] = i
  BY ListingIs
<1> HIDE DEF n
<1>2. Sweep(listing) = [k \in 1..n |-> Top(listing[k])]  BY <1>1 DEF Sweep
<1>3. \A j \in 1..n : Top(listing[j]) \in Lines(S)
  BY <1>1 DEF Top, Drawing, Lines
<1>4. Sweep(listing) \in Seq(Lines(S)) /\ Len(Sweep(listing)) = n  BY <1>1, <1>2, <1>3
<1> QED  BY <1>1, <1>2, <1>4 DEF Top, Drawing

LEMMA LinesAreDrawings ==
  ASSUME Consistent(db), NEW S \in SUBSET Live(db)
  PROVE  Lines(S) \subseteq Drawings /\ Seq(Lines(S)) \subseteq Seq(Drawings)
<1>1. Lines(S) \subseteq Drawings  BY LinksAre DEF Lines, Drawings
<1> QED  BY <1>1

LEMMA TreeIs ==
  ASSUME Consistent(db), NEW S \in SUBSET Live(db), NEW listing \in Listings(S)
  PROVE  \E W : /\ IsDraw(W, listing)
                /\ Tree(listing) = W[<<RootsOf(listing) \o Sweep(listing), <<>>>>]
<1> DEFINE D == DrawStates
           stop == {at \in D : at[1] = <<>>}
           r == [at \in D |-> at[2]]
           nxt == [at \in D |->
                    IF IsDrawn(at[2], Head(at[1]).id) THEN <<Tail(at[1]), at[2]>>
                    ELSE <<KidsOf(listing, Head(at[1])) \o Tail(at[1]), Append(at[2], Head(at[1]))>>]
           W == CHOOSE f : f = [at \in D |-> DrawTurn(f, at, listing)]
<1>1. Tree(listing) = W[<<RootsOf(listing) \o Sweep(listing), <<>>>>]
  BY DEF Tree, DrawTurn, KidsOf, RootsOf, IsDrawn, DrawStates
<1>2. \A at \in D \ stop : nxt[at] \in D
  <2> SUFFICES ASSUME NEW todo \in Seq(Drawings), NEW drawn \in Seq(Drawings), todo # <<>>
               PROVE  /\ Tail(todo) \in Seq(Drawings)
                      /\ KidsOf(listing, Head(todo)) \o Tail(todo) \in Seq(Drawings)
                      /\ Append(drawn, Head(todo)) \in Seq(Drawings)
    BY DEF DrawStates
  <2>1. Head(todo) \in Drawings /\ Tail(todo) \in Seq(Drawings)  OBVIOUS
  <2>2. KidsOf(listing, Head(todo)) \in Seq(Drawings)
    BY <2>1, KidsAre, LinesAreDrawings
  <2> QED  BY <2>1, <2>2
<1>3. PICK f : f = [x \in D |-> IF x \in stop THEN r[x] ELSE f[nxt[x]]]
  <2>1. \E f : Runs(f, D, stop, r, nxt)
    <3> HIDE DEF D, stop, r, nxt
    <3> QED  BY <1>2, LoopExists
  <2> QED  BY <2>1 DEF Runs
<1>4. ASSUME NEW at \in D
      PROVE  (IF at \in stop THEN r[at] ELSE f[nxt[at]]) = DrawTurn(f, at, listing)
  <2> HIDE DEF D
  <2> QED  BY DEF DrawTurn
<1>5. f = [at \in D |-> DrawTurn(f, at, listing)]
  <2> HIDE DEF D, stop, r, nxt
  <2> QED  BY <1>3, <1>4
<1>6. W = [at \in D |-> DrawTurn(W, at, listing)]  BY <1>5
<1> HIDE DEF W
<1>7. IsDraw(W, listing)  BY <1>6 DEF IsDraw
<1> QED  BY <1>1, <1>7

(* What the turns of node keep true.  A drawn line has its parent above it,*)
(* with only deeper lines between, or is a top that says whether it has a  *)
(* parent.  A line still to draw can be put below all that is drawn, after *)
(* what comes before it.                                                   *)
Below(drawn, k, line) ==
  \E j \in 1..k-1 :
    /\ drawn[j].id = Parent(line.id) /\ drawn[j].depth < line.depth
    /\ \A i \in j+1..k-1 : drawn[i].depth >= line.depth
Marked(line) == line.orphan <=> Parent(line.id) # NoParent
Rootless(S, i) == Parent(i) \in S => Chain(db, i) \cap OnRing(db) # {}
Placed(S, drawn, k) ==
  LET line == drawn[k] IN
  IF line.depth = 0 THEN Marked(line) /\ Rootless(S, line.id) ELSE Below(drawn, k, line)

Drawn(S, drawn) ==
  /\ drawn \in Seq(Lines(S))
  /\ \A j, k \in 1..Len(drawn) : drawn[j].id = drawn[k].id => j = k
  /\ \A k \in 1..Len(drawn) : Placed(S, drawn, k)

Pending(S, todo, drawn) ==
  /\ todo \in Seq(Lines(S))
  /\ \A p, q \in 1..Len(todo) : p < q => todo[q].depth <= todo[p].depth
  /\ \A p \in 1..Len(todo) :
       IF todo[p].depth = 0 THEN Marked(todo[p]) ELSE Below(drawn, Len(drawn) + 1, todo[p])

(* The sweep begins after place a.  Before it are roots and what hangs     *)
(* below the lines drawn, all of them.                                     *)
Within(todo, from, i) == \E p \in from..Len(todo) : todo[p].id = i
Owed(S, todo, drawn, a) ==
  /\ \A i \in S : IsDrawn(drawn, i) \/ Within(todo, a + 1, i)
  /\ \A p \in 1..a : todo[p].depth = 0 => Parent(todo[p].id) \notin S
  /\ \A i \in S : Parent(i) \notin S \/ IsDrawn(drawn, Parent(i)) =>
       IsDrawn(drawn, i) \/ \E p \in 1..a : todo[p].id = i

DrawWay(S, todo, drawn) ==
  /\ Drawn(S, drawn) /\ Pending(S, todo, drawn)
  /\ \E a \in 0..Len(todo) : Owed(S, todo, drawn, a)

LEMMA SkipsDrawn ==
  ASSUME NEW S, NEW todo, NEW drawn, DrawWay(S, todo, drawn),
         todo # <<>>, IsDrawn(drawn, Head(todo).id)
  PROVE  DrawWay(S, Tail(todo), drawn)
<1> DEFINE rest == Tail(todo)
<1>1. todo \in Seq(Lines(S)) /\ Len(todo) \in Nat /\ Len(todo) > 0  BY DEF DrawWay, Pending
<1>2. /\ rest \in Seq(Lines(S)) /\ Len(rest) = Len(todo) - 1
      /\ \A p \in 1..Len(rest) : p + 1 \in 1..Len(todo) /\ rest[p] = todo[p + 1]
      /\ Head(todo) = todo[1]
  BY <1>1
<1> HIDE DEF rest
<1>3. Pending(S, rest, drawn)
  <2>1. \A p, q \in 1..Len(rest) : p < q => rest[q].depth <= rest[p].depth
    <3> SUFFICES ASSUME NEW p \in 1..Len(rest), NEW q \in 1..Len(rest), p < q
                 PROVE  rest[q].depth <= rest[p].depth
      OBVIOUS
    <3>1. p + 1 < q + 1  OBVIOUS
    <3> QED  BY <1>2, <3>1 DEF DrawWay, Pending
  <2> QED  BY <1>2, <2>1 DEF DrawWay, Pending
<1>4. PICK a \in 0..Len(todo) : Owed(S, todo, drawn, a)  BY DEF DrawWay
<1> DEFINE b == IF a = 0 THEN 0 ELSE a - 1
<1>5. b \in 0..Len(rest)  BY <1>1, <1>2
<1>6. Owed(S, rest, drawn, b)
  <2>1. ASSUME NEW i, NEW p \in 2..Len(todo), todo[p].id = i
        PROVE  p - 1 \in 1..Len(rest) /\ rest[p - 1].id = i
    <3>1. p - 1 \in 1..Len(rest) /\ (p - 1) + 1 = p  BY <1>1, <1>2
    <3> QED  BY <1>2, <2>1, <3>1
  <2>2. ASSUME NEW i \in S, ~IsDrawn(drawn, i) PROVE Within(rest, b + 1, i)
    <3>1. PICK p \in a+1..Len(todo) : todo[p].id = i  BY <1>4, <2>2 DEF Owed, Within
    <3>2. p # 1  BY <1>2, <2>2, <3>1
    <3>3. p \in 2..Len(todo) /\ p - 1 \in b+1..Len(rest)  BY <1>1, <1>2, <3>1, <3>2
    <3>4. rest[p - 1].id = i  BY <2>1, <3>1, <3>3
    <3> QED  BY <3>3, <3>4 DEF Within
  <2>3. ASSUME NEW p \in 1..b, rest[p].depth = 0 PROVE Parent(rest[p].id) \notin S
    <3>1. p \in 1..Len(rest) /\ p + 1 \in 1..a  BY <1>1, <1>2
    <3> QED  BY <1>2, <1>4, <2>3, <3>1 DEF Owed
  <2>4. ASSUME NEW i \in S, Parent(i) \notin S \/ IsDrawn(drawn, Parent(i)), ~IsDrawn(drawn, i)
        PROVE  \E p \in 1..b : rest[p].id = i
    <3>1. PICK p \in 1..a : todo[p].id = i  BY <1>4, <2>4 DEF Owed
    <3>2. p # 1  BY <1>2, <2>4, <3>1
    <3>3. p \in 2..Len(todo) /\ p - 1 \in 1..b  BY <1>1, <3>1, <3>2
    <3>4. rest[p - 1].id = i  BY <2>1, <3>1, <3>3
    <3> QED  BY <3>3, <3>4
  <2> HIDE DEF b
  <2> QED  BY <2>2, <2>3, <2>4 DEF Owed
<1> HIDE DEF b
<1>7. DrawWay(S, rest, drawn)  BY <1>3, <1>5, <1>6 DEF DrawWay
<1> QED  BY <1>7 DEF rest

LEMMA DrawStarts ==
  ASSUME Consistent(db), NEW S \in SUBSET Live(db), NEW listing \in Listings(S)
  PROVE  DrawWay(S, RootsOf(listing) \o Sweep(listing), <<>>)
<1> DEFINE roots == RootsOf(listing)  sweep == Sweep(listing)  todo == roots \o sweep
           a == Len(roots)
<1>1. /\ roots \in Seq(Lines(S)) /\ sweep \in Seq(Lines(S))
      /\ \A j \in 1..Len(roots) : roots[j] = Top(roots[j].id) /\ Parent(roots[j].id) \notin S
      /\ \A i \in S : Parent(i) \notin S => \E j \in 1..Len(roots) : roots[j].id = i
      /\ \A j \in 1..Len(sweep) : sweep[j] = Top(sweep[j].id)
      /\ \A i \in S : \E j \in 1..Len(sweep) : sweep[j].id = i
  BY RootsAre, SweepIs
<1> HIDE DEF roots, sweep
<1>2. /\ todo \in Seq(Lines(S)) /\ Len(todo) = a + Len(sweep) /\ a \in Nat /\ Len(sweep) \in Nat
      /\ \A p \in 1..a : todo[p] = roots[p]
      /\ \A p \in 1..Len(sweep) : todo[a + p] = sweep[p]
  BY <1>1
<1> HIDE DEF todo, a
<1>3. \A p \in 1..Len(todo) : todo[p] = Top(todo[p].id)
  <2> SUFFICES ASSUME NEW p \in 1..Len(todo) PROVE todo[p] = Top(todo[p].id)  OBVIOUS
  <2>1. CASE p <= a
    <3>1. p \in 1..a  BY <1>2, <2>1
    <3> QED  BY <1>1, <1>2, <3>1 DEF a
  <2>2. CASE p > a
    <3> DEFINE q == p - a
    <3>1. q \in 1..Len(sweep) /\ a + q = p  BY <1>2, <2>2
    <3> HIDE DEF q
    <3>2. todo[p] = sweep[q]  BY <1>2, <3>1
    <3> QED  BY <1>1, <3>1, <3>2
  <2> QED  BY <1>2, <2>1, <2>2
<1>4. \A i : Top(i).id = i /\ Top(i).depth = 0 /\ Marked(Top(i))
  BY DEF Top, Drawing, Marked
<1>5. Drawn(S, <<>>)  BY DEF Drawn
<1>6. Pending(S, todo, <<>>)
  <2>1. \A p \in 1..Len(todo) : todo[p].depth = 0 /\ Marked(todo[p])  BY <1>3, <1>4
  <2> QED  BY <1>2, <2>1 DEF Pending
<1>7. a \in 0..Len(todo)  BY <1>2
<1>8. Owed(S, todo, <<>>, a)
  <2>1. ASSUME NEW i \in S PROVE Within(todo, a + 1, i)
    <3>1. PICK j \in 1..Len(sweep) : sweep[j].id = i  BY <1>1
    <3>2. a + j \in a+1..Len(todo) /\ todo[a + j].id = i  BY <1>2, <3>1
    <3> QED  BY <3>2 DEF Within
  <2>2. \A p \in 1..a : Parent(todo[p].id) \notin S  BY <1>1, <1>2 DEF a
  <2>3. \A i \in S : Parent(i) \notin S => \E p \in 1..a : todo[p].id = i
    BY <1>1, <1>2 DEF a
  <2>4. \A i : ~IsDrawn(<<>>, i)  BY DEF IsDrawn
  <2> QED  BY <2>1, <2>2, <2>3, <2>4 DEF Owed
<1>9. DrawWay(S, todo, <<>>)  BY <1>5, <1>6, <1>7, <1>8 DEF DrawWay
<1> QED  BY <1>9 DEF todo, roots, sweep

LEMMA DrawEnds ==
  ASSUME Consistent(db), NEW S \in SUBSET Live(db), IsFiniteSet(S), NEW drawn,
         DrawWay(S, <<>>, drawn)
  PROVE  /\ Len(drawn) = Cardinality(S) /\ {drawn[k].id : k \in DOMAIN drawn} = S
         /\ \A k \in DOMAIN drawn :
              IF drawn[k].depth = 0
              THEN /\ drawn[k].orphan <=> Parent(drawn[k].id) # NoParent
                   /\ Parent(drawn[k].id) \in S => Chain(db, drawn[k].id) \cap OnRing(db) # {}
              ELSE drawn[DrawnUnder(drawn, k)].id = Parent(drawn[k].id)
<1> DEFINE n == Len(drawn)  ids == [k \in 1..n |-> drawn[k].id]
<1>1. drawn \in Seq(Lines(S)) /\ n \in Nat /\ DOMAIN drawn = 1..n
  BY DEF DrawWay, Drawn
<1>2. \A k \in 1..n : drawn[k].id \in S /\ drawn[k].depth \in Nat
  <2>1. \A k \in 1..n : drawn[k] \in Lines(S)  BY <1>1
  <2> QED  BY <2>1 DEF Lines
<1>3. \A i \in S : \E k \in 1..n : drawn[k].id = i
  BY <1>1 DEF DrawWay, Owed, Within, IsDrawn
<1>4. ids \in Injection(1..n, S)
  <2>1. ids \in [1..n -> S]  BY <1>2
  <2>2. \A j, k \in 1..n : ids[j] = ids[k] => j = k  BY DEF DrawWay, Drawn
  <2> HIDE DEF ids
  <2> QED  BY <2>1, <2>2 DEF Injection, IsInjective
<1>5. ids \in Surjection(1..n, S)
  <2>1. ids \in [1..n -> S] /\ \A i \in S : \E k \in 1..n : ids[k] = i  BY <1>2, <1>3
  <2> HIDE DEF ids
  <2> QED  BY <2>1 DEF Surjection
<1>6. n = Cardinality(S)
  <2> HIDE DEF n, ids
  <2>1. IsFiniteSet(1..n) /\ Cardinality(1..n) = n  BY <1>1, FS_Interval
  <2> QED  BY <1>4, <1>5, <2>1, FS_Injection
<1>7. {drawn[k].id : k \in DOMAIN drawn} = S  BY <1>1, <1>2, <1>3
<1>8. ASSUME NEW k \in 1..n, drawn[k].depth # 0
      PROVE  drawn[DrawnUnder(drawn, k)].id = Parent(drawn[k].id)
  <2> DEFINE above == {j \in 1..k-1 : drawn[j].depth < drawn[k].depth}
  <2>1. Below(drawn, k, drawn[k])  BY <1>8 DEF DrawWay, Drawn, Placed
  <2>2. PICK j \in 1..k-1 : /\ drawn[j].id = Parent(drawn[k].id)
                           /\ drawn[j].depth < drawn[k].depth
                           /\ \A i \in j+1..k-1 : drawn[i].depth >= drawn[k].depth
    BY <2>1 DEF Below
  <2>3. j \in above  BY <2>2
  <2>4. \A i \in above : i <= j
    <3> SUFFICES ASSUME NEW i \in above, i > j PROVE FALSE
      BY <1>1
    <3>1. i \in 1..n /\ drawn[i].depth \in Nat /\ drawn[k].depth \in Nat  BY <1>1, <1>2
    <3> QED  BY <2>2, <3>1
  <2>5. \A x \in above : (\A i \in above : i <= x) => x = j
    BY <1>1, <2>3, <2>4
  <2>6. DrawnUnder(drawn, k) = CHOOSE x \in above : \A i \in above : i <= x  BY DEF DrawnUnder
  <2> HIDE DEF above
  <2>7. DrawnUnder(drawn, k) = j  BY <2>3, <2>4, <2>5, <2>6
  <2> QED  BY <2>2, <2>7
<1>9. \A k \in 1..n : drawn[k].depth = 0 => Marked(drawn[k]) /\ Rootless(S, drawn[k].id)
  BY DEF DrawWay, Drawn, Placed
<1> QED  BY <1>1, <1>6, <1>7, <1>8, <1>9 DEF Marked, Rootless

LEMMA AppendDraws ==
  ASSUME NEW X, NEW drawn \in Seq(X), NEW h \in X
  PROVE  \A i : IsDrawn(Append(drawn, h), i) <=> IsDrawn(drawn, i) \/ i = h.id
<1> DEFINE now == Append(drawn, h)  n == Len(drawn)
<1>1. DOMAIN now = 1..n+1 /\ DOMAIN drawn = 1..n /\ n \in Nat  OBVIOUS
<1>2. now[n + 1] = h /\ \A k \in 1..n : now[k] = drawn[k]  OBVIOUS
<1>3. \A k : k \in 1..n+1 <=> k \in 1..n \/ k = n + 1  BY <1>1
<1> HIDE DEF n, now
<1>4. \A i : IsDrawn(now, i) <=> IsDrawn(drawn, i) \/ i = h.id
  BY <1>1, <1>2, <1>3 DEF IsDrawn
<1> QED  BY <1>4 DEF now

LEMMA DrawsNext ==
  ASSUME Consistent(db), NEW S \in SUBSET Live(db), NEW listing \in Listings(S),
         NEW todo, NEW drawn, DrawWay(S, todo, drawn),
         todo # <<>>, ~IsDrawn(drawn, Head(todo).id)
  PROVE  DrawWay(S, KidsOf(listing, Head(todo)) \o Tail(todo), Append(drawn, Head(todo)))
<1> DEFINE h == Head(todo)  kids == KidsOf(listing, h)  rest == Tail(todo)
           next == kids \o rest  now == Append(drawn, h)  n == Len(drawn)  c == Len(kids)
<1>1. /\ todo \in Seq(Lines(S)) /\ Len(todo) \in Nat /\ Len(todo) > 0
      /\ drawn \in Seq(Lines(S)) /\ n \in Nat
  BY DEF DrawWay, Pending, Drawn
<1>2. h = todo[1] /\ h \in Lines(S) /\ h \in Drawings
  BY <1>1, LinesAreDrawings
<1>3. /\ rest \in Seq(Lines(S)) /\ Len(rest) = Len(todo) - 1
      /\ \A p \in 1..Len(rest) : rest[p] = todo[p + 1]
  BY <1>1
<1>4. /\ now \in Seq(Lines(S)) /\ Len(now) = n + 1 /\ now[n + 1] = h
      /\ \A k \in 1..n : now[k] = drawn[k]
  BY <1>1, <1>2
<1>5. /\ kids \in Seq(Lines(S)) /\ c \in Nat
      /\ \A j \in 1..c : kids[j].depth = h.depth + 1 /\ Parent(kids[j].id) = h.id
      /\ \A i \in S : Parent(i) = h.id => \E j \in 1..c : kids[j].id = i
  BY <1>2, KidsAre
<1> HIDE DEF h, kids, rest, now
<1>6. /\ next \in Seq(Lines(S)) /\ Len(next) = c + Len(rest)
      /\ \A p \in 1..c : next[p] = kids[p]
      /\ \A p \in 1..Len(rest) : next[c + p] = rest[p]
  <2>1. kids \in Seq(Lines(S)) /\ rest \in Seq(Lines(S))  BY <1>3, <1>5
  <2> QED  BY <2>1
<1> HIDE DEF next, c
<1>7. \A p \in 2..Len(todo) : /\ c + p - 1 \in c+1..Len(next)
                             /\ next[c + p - 1] = todo[p]
  <2> SUFFICES ASSUME NEW p \in 2..Len(todo)
               PROVE  c + p - 1 \in c+1..Len(next) /\ next[c + p - 1] = todo[p]
    OBVIOUS
  <2> DEFINE q == p - 1
  <2>1. q \in 1..Len(rest) /\ q + 1 = p /\ c + q = c + p - 1  BY <1>1, <1>3, <1>5
  <2> HIDE DEF q
  <2>2. next[c + q] = todo[q + 1]  BY <1>3, <1>6, <2>1
  <2> QED  BY <1>3, <1>5, <1>6, <2>1, <2>2
<1>8. \A p \in c+1..Len(next) : p - c + 1 \in 2..Len(todo) /\ next[p] = todo[p - c + 1]
  <2> SUFFICES ASSUME NEW p \in c+1..Len(next)
               PROVE  p - c + 1 \in 2..Len(todo) /\ next[p] = todo[p - c + 1]
    OBVIOUS
  <2> DEFINE q == p - c
  <2>1. q \in 1..Len(rest) /\ q + 1 = p - c + 1 /\ c + q = p  BY <1>1, <1>3, <1>5, <1>6
  <2> HIDE DEF q
  <2>2. next[c + q] = todo[q + 1]  BY <1>3, <1>6, <2>1
  <2> QED  BY <1>1, <1>3, <2>1, <2>2
<1>9. PICK a \in 0..Len(todo) : Owed(S, todo, drawn, a)  BY DEF DrawWay
<1>10. \A i : IsDrawn(now, i) <=> IsDrawn(drawn, i) \/ i = h.id
  BY <1>1, <1>2, AppendDraws DEF now
<1>11. \A k \in 1..Len(todo) : todo[k] \in Lines(S)  BY <1>1
<1>12. \A k \in 1..n : drawn[k] \in Lines(S)  BY <1>1
<1>13. Placed(S, now, n + 1)
  <2>1. CASE h.depth = 0
    <3>1. Marked(h)  BY <1>1, <1>2, <2>1 DEF DrawWay, Pending
    <3>2. Rootless(S, h.id)
      <4> SUFFICES ASSUME Parent(h.id) \in S
                   PROVE  Chain(db, h.id) \cap OnRing(db) # {}
        BY DEF Rootless
      <4>1. a = 0
        <5> SUFFICES ASSUME a # 0 PROVE FALSE  OBVIOUS
        <5>1. 1 \in 1..a  BY <1>1
        <5> QED  BY <1>2, <1>9, <2>1, <5>1 DEF Owed
      <4> DEFINE U == {i \in S : ~IsDrawn(drawn, i)}
      <4>2. \A i \in U : Parent(i) \in U  BY <1>9, <4>1 DEF Owed
      <4>3. h.id \in U  BY <1>2 DEF Lines, h
      <4>4. U \in SUBSET Live(db)  OBVIOUS
      <4> HIDE DEF U
      <4> QED  BY <4>2, <4>3, <4>4, ClimbMeetsRing
    <3> QED  BY <1>4, <2>1, <3>1, <3>2 DEF Placed
  <2>2. CASE h.depth # 0
    <3>1. Below(drawn, n + 1, h)  BY <1>1, <1>2, <2>2 DEF DrawWay, Pending
    <3>2. Below(now, n + 1, h)
      <4>1. PICK j \in 1..(n+1)-1 : /\ drawn[j].id = Parent(h.id) /\ drawn[j].depth < h.depth
                                   /\ \A i \in j+1..(n+1)-1 : drawn[i].depth >= h.depth
        BY <3>1 DEF Below
      <4>2. j \in 1..n /\ \A i \in j+1..(n+1)-1 : i \in 1..n  BY <1>1
      <4> QED  BY <1>4, <4>1, <4>2 DEF Below
    <3> QED  BY <1>4, <2>2, <3>2 DEF Placed
  <2> QED  BY <2>1, <2>2
<1>14. Drawn(S, now)
  <2>1. ASSUME NEW k \in 1..n PROVE Placed(S, now, k)
    <3>1. Placed(S, drawn, k)  BY DEF DrawWay, Drawn
    <3>2. now[k] = drawn[k] /\ \A j \in 1..k-1 : j \in 1..n /\ now[j] = drawn[j]  BY <1>1, <1>4
    <3>3. \A line : Below(drawn, k, line) => Below(now, k, line)
      <4> SUFFICES ASSUME NEW line, Below(drawn, k, line) PROVE Below(now, k, line)  OBVIOUS
      <4>1. PICK j \in 1..k-1 : /\ drawn[j].id = Parent(line.id) /\ drawn[j].depth < line.depth
                               /\ \A i \in j+1..k-1 : drawn[i].depth >= line.depth
        BY DEF Below
      <4>2. \A i \in j+1..k-1 : i \in 1..k-1  OBVIOUS
      <4> QED  BY <3>2, <4>1, <4>2 DEF Below
    <3> QED  BY <3>1, <3>2, <3>3 DEF Placed
  <2>2. \A k \in 1..n+1 : k \in 1..n \/ k = n + 1  BY <1>1
  <2>3. \A k \in 1..n : drawn[k].id # h.id
    <3>1. DOMAIN drawn = 1..n  BY <1>1
    <3> QED  BY <3>1 DEF IsDrawn, h
  <2>4. \A j, k \in 1..n : drawn[j].id = drawn[k].id => j = k  BY DEF DrawWay, Drawn
  <2> HIDE DEF n
  <2> QED  BY <1>4, <1>13, <2>1, <2>2, <2>3, <2>4 DEF Drawn
<1>15. Pending(S, next, now)
  <2>0. \A p \in 1..Len(next) : p \in 1..c \/ p \in c+1..Len(next)  BY <1>5, <1>6
  <2>1. ASSUME NEW p \in 1..Len(next), NEW q \in 1..Len(next), p < q
        PROVE  next[q].depth <= next[p].depth
    <3>1. h.depth \in Nat  BY <1>2 DEF Lines
    <3>2. CASE q \in 1..c
      <4>1. p \in 1..c
        <5>1. c \in Nat /\ p \in Nat  BY <1>5
        <5> HIDE DEF c
        <5> QED  BY <2>1, <3>2, <5>1
      <4> QED  BY <1>5, <1>6, <3>1, <3>2, <4>1
    <3>3. CASE q \in c+1..Len(next)
      <4> DEFINE v == q - c + 1
      <4>1. v \in 2..Len(todo) /\ next[q] = todo[v]  BY <1>8, <3>3
      <4>2. CASE p \in 1..c
        <5>1. 1 \in 1..Len(todo) /\ 1 < v /\ v \in 1..Len(todo)  BY <1>1, <4>1
        <5>2. todo[v].depth <= h.depth  BY <1>2, <5>1 DEF DrawWay, Pending
        <5>3. todo[v].depth \in Nat  BY <1>11, <5>1 DEF Lines
        <5>4. next[p].depth = h.depth + 1  BY <1>5, <1>6, <4>2
        <5> HIDE DEF v
        <5> QED  BY <3>1, <4>1, <5>2, <5>3, <5>4
      <4>3. CASE p \in c+1..Len(next)
        <5> DEFINE u == p - c + 1
        <5>1. u \in 2..Len(todo) /\ next[p] = todo[u]  BY <1>8, <4>3
        <5>2. u < v  BY <1>5, <2>1
        <5>3. u \in 1..Len(todo) /\ v \in 1..Len(todo)  BY <1>1, <4>1, <5>1
        <5> HIDE DEF u, v
        <5> QED  BY <4>1, <5>1, <5>2, <5>3 DEF DrawWay, Pending
      <4> QED  BY <2>0, <4>2, <4>3
    <3> QED  BY <2>0, <3>2, <3>3
  <2>2. ASSUME NEW p \in 1..Len(next)
        PROVE  IF next[p].depth = 0 THEN Marked(next[p]) ELSE Below(now, Len(now) + 1, next[p])
    <3>1. h.depth \in Nat  BY <1>2 DEF Lines
    <3>2. CASE p \in 1..c
      <4>1. next[p].depth = h.depth + 1 /\ Parent(next[p].id) = h.id  BY <1>5, <1>6, <3>2
      <4>2. n + 1 \in 1..(n + 2) - 1 /\ \A i \in (n+1)+1..(n+2)-1 : FALSE  BY <1>1
      <4>3. Below(now, n + 2, next[p])
        <5> HIDE DEF n
        <5> QED  BY <1>4, <3>1, <4>1, <4>2 DEF Below
      <4>4. next[p].depth # 0 /\ Len(now) + 1 = n + 2  BY <1>1, <1>4, <3>1, <4>1
      <4> QED  BY <4>3, <4>4
    <3>3. CASE p \in c+1..Len(next)
      <4> DEFINE v == p - c + 1
      <4>1. v \in 2..Len(todo) /\ next[p] = todo[v]  BY <1>8, <3>3
      <4>2. 1 \in 1..Len(todo) /\ 1 < v /\ v \in 1..Len(todo)  BY <1>1, <4>1
      <4> HIDE DEF v
      <4>3. CASE todo[v].depth = 0
        BY <4>1, <4>2, <4>3 DEF DrawWay, Pending
      <4>4. CASE todo[v].depth # 0
        <5>1. todo[v].depth <= h.depth  BY <1>2, <4>2 DEF DrawWay, Pending
        <5>2. Below(drawn, n + 1, todo[v])  BY <4>2, <4>4 DEF DrawWay, Pending
        <5>3. Below(now, n + 2, todo[v])
          <6> DEFINE line == todo[v]
          <6> HIDE DEF line
          <6>1. PICK j \in 1..(n+1)-1 : /\ drawn[j].id = Parent(line.id) /\ drawn[j].depth < line.depth
                                       /\ \A i \in j+1..(n+1)-1 : drawn[i].depth >= line.depth
            BY <5>2 DEF Below, line
          <6>2. j \in 1..n /\ j \in 1..(n+2)-1  BY <1>1
          <6>3. \A i \in j+1..(n+2)-1 : (i \in j+1..(n+1)-1 /\ i \in 1..n) \/ i = n + 1  BY <1>1
          <6>4. h.depth >= line.depth
            <7>1. todo[v].depth \in Nat  BY <1>11, <4>2 DEF Lines
            <7> QED  BY <3>1, <5>1, <7>1 DEF line
          <6>5. Below(now, n + 2, line)
            <7> HIDE DEF n
            <7> QED  BY <1>4, <6>1, <6>2, <6>3, <6>4 DEF Below
          <6> QED  BY <6>5 DEF line
        <5>4. Len(now) + 1 = n + 2  BY <1>1, <1>4
        <5> QED  BY <4>1, <4>4, <5>3, <5>4
      <4> QED  BY <4>3, <4>4
    <3> QED  BY <2>0, <3>2, <3>3
  <2> QED  BY <1>6, <2>1, <2>2 DEF Pending
<1> DEFINE b == c + (IF a = 0 THEN 0 ELSE a - 1)
<1>16. b \in 0..Len(next)  BY <1>1, <1>3, <1>5, <1>6
<1>17. Owed(S, next, now, b)
  <2>1. ASSUME NEW i \in S, ~IsDrawn(now, i) PROVE Within(next, b + 1, i)
    <3>1. PICK p \in a+1..Len(todo) : todo[p].id = i  BY <1>9, <1>10, <2>1 DEF Owed, Within
    <3>2. p # 1  BY <1>2, <1>10, <2>1, <3>1
    <3>3. p \in 2..Len(todo)  BY <1>1, <3>1, <3>2
    <3>4. next[c + p - 1] = todo[p] /\ c + p - 1 \in c+1..Len(next)  BY <1>7, <3>3
    <3>5. c + p - 1 \in b+1..Len(next)  BY <1>1, <1>5, <3>3, <3>4
    <3> QED  BY <3>1, <3>4, <3>5 DEF Within
  <2>2. ASSUME NEW p \in 1..b, next[p].depth = 0 PROVE Parent(next[p].id) \notin S
    <3>1. CASE p \in 1..c
      <4>1. h.depth \in Nat /\ next[p].depth = h.depth + 1  BY <1>2, <1>5, <1>6, <3>1 DEF Lines
      <4> QED  BY <2>2, <4>1
    <3>2. CASE p \notin 1..c
      <4> DEFINE v == p - c + 1
      <4>1. p \in c+1..Len(next) /\ v \in 1..a  BY <1>1, <1>5, <1>16, <3>2
      <4>2. next[p] = todo[v]  BY <1>8, <4>1
      <4> HIDE DEF v
      <4> QED  BY <1>9, <2>2, <4>1, <4>2 DEF Owed
    <3> QED  BY <3>1, <3>2
  <2>3. ASSUME NEW i \in S, Parent(i) \notin S \/ IsDrawn(now, Parent(i)), ~IsDrawn(now, i)
        PROVE  \E p \in 1..b : next[p].id = i
    <3>1. CASE Parent(i) = h.id
      <4>1. PICK j \in 1..c : kids[j].id = i  BY <1>5, <3>1
      <4>2. j \in 1..b  BY <1>1, <1>5
      <4> QED  BY <1>6, <4>1, <4>2
    <3>2. CASE Parent(i) # h.id
      <4>1. ~IsDrawn(drawn, i) /\ (Parent(i) \notin S \/ IsDrawn(drawn, Parent(i)))
        BY <1>10, <2>3, <3>2
      <4>2. PICK p \in 1..a : todo[p].id = i  BY <1>9, <4>1 DEF Owed
      <4>3. p # 1  BY <1>2, <1>10, <2>3, <4>2
      <4>4. p \in 2..Len(todo) /\ c + p - 1 \in 1..b  BY <1>1, <1>5, <4>2, <4>3
      <4>5. next[c + p - 1] = todo[p]  BY <1>7, <4>4
      <4> QED  BY <4>2, <4>4, <4>5
    <3> QED  BY <3>1, <3>2
  <2> HIDE DEF b
  <2> QED  BY <2>1, <2>2, <2>3 DEF Owed
<1> HIDE DEF b
<1>18. DrawWay(S, next, now)  BY <1>14, <1>15, <1>16, <1>17 DEF DrawWay
<1> QED  BY <1>18 DEF next, now, kids, rest, h

LEMMA TreeDraws ==
  ASSUME Consistent(db), NEW S \in SUBSET Live(db), NEW listing \in Listings(S)
  PROVE  DrawWay(S, <<>>, Tree(listing))
<1>1. PICK W : /\ IsDraw(W, listing)
               /\ Tree(listing) = W[<<RootsOf(listing) \o Sweep(listing), <<>>>>]
  BY TreeIs
<1> DEFINE D == DrawStates
           m == [at \in D |-> {i \in S : ~IsDrawn(at[2], i)}]
           len == [at \in D |-> Len(at[1])]
           G == {at \in D : DrawWay(S, at[1], at[2]) => DrawWay(S, <<>>, W[at])}
<1>2. \A todo, drawn : DrawWay(S, todo, drawn) => <<todo, drawn>> \in D
  BY LinesAreDrawings DEF DrawWay, Drawn, Pending, DrawStates
<1>3. ASSUME NEW at \in D, \A y \in D : \/ m[y] \subseteq m[at] /\ m[y] # m[at]
                                        \/ m[y] = m[at] /\ len[y] < len[at]
                                        => y \in G
      PROVE  at \in G
  <2> DEFINE todo == at[1]  drawn == at[2]
  <2> SUFFICES ASSUME DrawWay(S, todo, drawn) PROVE DrawWay(S, <<>>, W[at])  OBVIOUS
  <2>1. todo \in Seq(Drawings) /\ drawn \in Seq(Drawings)  BY DEF DrawStates
  <2>2. W[at] = DrawTurn(W, at, listing)  BY <1>1 DEF IsDraw
  <2>3. CASE todo = <<>>  BY <2>2, <2>3 DEF DrawTurn
  <2>4. CASE todo # <<>> /\ IsDrawn(drawn, Head(todo).id)
    <3> DEFINE y == <<Tail(todo), drawn>>
    <3>1. W[at] = W[y]  BY <2>2, <2>4 DEF DrawTurn
    <3>2. DrawWay(S, y[1], y[2])  BY <2>4, SkipsDrawn
    <3>3. y \in D /\ m[y] = m[at]  BY <1>2, <3>2
    <3>4. len[y] < len[at]
      <4>1. Len(Tail(todo)) < Len(todo)  BY <2>1, <2>4
      <4> QED  BY <3>3, <4>1
    <3> HIDE DEF y, D, m, len
    <3> QED  BY <1>3, <3>1, <3>2, <3>3, <3>4
  <2>5. CASE todo # <<>> /\ ~IsDrawn(drawn, Head(todo).id)
    <3> DEFINE h == Head(todo)
               y == <<KidsOf(listing, h) \o Tail(todo), Append(drawn, h)>>
    <3>1. W[at] = W[y]  BY <2>2, <2>5 DEF DrawTurn
    <3>2. DrawWay(S, y[1], y[2])  BY <2>5, DrawsNext
    <3>3. y \in D  BY <1>2, <3>2
    <3>4. m[y] \subseteq m[at] /\ m[y] # m[at]
      <4>1. \A i : IsDrawn(Append(drawn, h), i) <=> IsDrawn(drawn, i) \/ i = h.id
        <5>1. h \in Drawings  BY <2>1, <2>5
        <5> HIDE DEF h
        <5> QED  BY <2>1, <5>1, AppendDraws
      <4>2. h.id \in S
        <5>1. todo \in Seq(Lines(S))  BY DEF DrawWay, Pending
        <5>2. h \in Lines(S)  BY <2>5, <5>1
        <5> HIDE DEF h
        <5> QED  BY <5>2 DEF Lines
      <4>3. m[at] = {i \in S : ~IsDrawn(drawn, i)}  OBVIOUS
      <4>4. m[y] = {i \in S : ~IsDrawn(Append(drawn, h), i)}  BY <3>3
      <4> HIDE DEF m, y, h
      <4> QED  BY <2>5, <4>1, <4>2, <4>3, <4>4 DEF h
    <3> HIDE DEF y, D, m, len
    <3> QED  BY <1>3, <3>1, <3>2, <3>3, <3>4
  <2> QED  BY <2>3, <2>4, <2>5
<1>4. D \subseteq G
  <2>1. IsFiniteSet(S)  BY ListingIs
  <2>2. \A x \in D : m[x] \in SUBSET S /\ len[x] \in Nat  BY DEF DrawStates
  <2>3. Inductive2(G, D, m, S, len)
    <3> HIDE DEF D, G, m, len
    <3> QED  BY <1>3, <2>2 DEF Inductive2
  <2> HIDE DEF D, G, m, len
  <2> QED  BY <2>1, <2>3, LoopInduction2
<1> DEFINE start == <<RootsOf(listing) \o Sweep(listing), <<>>>>
<1>5. DrawWay(S, start[1], start[2])  BY DrawStarts
<1>6. start \in D  BY <1>2, <1>5
<1> HIDE DEF start, D
<1>7. DrawWay(S, <<>>, W[start])  BY <1>4, <1>5, <1>6
<1> QED  BY <1>1, <1>7 DEF start

LEMMA TreeIsExact == ASSUME Consistent(db) PROVE TreeDrawsEachOnce
<1> SUFFICES ASSUME NEW S \in SUBSET Live(db), NEW listing \in Listings(S)
             PROVE  LET drawn == Tree(listing) IN
                    /\ Len(drawn) = Cardinality(S) /\ {drawn[k].id : k \in DOMAIN drawn} = S
                    /\ \A k \in DOMAIN drawn :
                         IF drawn[k].depth = 0
                         THEN /\ drawn[k].orphan <=> Parent(drawn[k].id) # NoParent
                              /\ Parent(drawn[k].id) \in S =>
                                   Chain(db, drawn[k].id) \cap OnRing(db) # {}
                         ELSE drawn[DrawnUnder(drawn, k)].id = Parent(drawn[k].id)
  BY DEF TreeDrawsEachOnce
<1>1. IsFiniteSet(S) /\ DrawWay(S, <<>>, Tree(listing))  BY ListingIs, TreeDraws
<1> QED  BY <1>1, DrawEnds

(* The tree view of any selection of events, in any order, draws each of   *)
(* them once and in its place, whatever consistent file the verbs started  *)
(* from, rings included, and after every step.                             *)
THEOREM TreeAlwaysDrawsEachOnce == Consistent(db) /\ [][Next]_db => []TreeDrawsEachOnce
<1>1. Consistent(db) /\ [Next]_db => Consistent(db)'  BY ConsistentStep
<1>2. Consistent(db) => TreeDrawsEachOnce  BY TreeIsExact
<1> QED  BY <1>1, <1>2, PTL

===============================================================================
