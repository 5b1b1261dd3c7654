---------------------------- MODULE Sessions_proofs ----------------------------
(***************************************************************************)
(* Sessions for any number of processes and any calls: the holder of the   *)
(* lock is on the newest commit, and all the processes together implement  *)
(* the atomic Journal.                                                     *)
(***************************************************************************)
EXTENDS Sessions, JournalOps_proofs, FiniteSetTheorems

-------------------------------------------------------------------------------
(* A call as Journal has it.                                               *)

LEMMA BatchesAre == ASSUME NEW ins \in J!Batches
                    PROVE  ins \in Seq(Records) /\ Len(ins) \in 1..MaxBatch
<1>1. J!AddInput \subseteq Records
  BY InputAssumption DEF J!AddInput, Records, J!Ids, Ids, J!NoParent, NoParent
<1>2. PICK n \in 1..MaxBatch : ins \in [1..n -> J!AddInput]  BY DEF J!Batches
<1>3. ins \in Seq(J!AddInput) /\ Len(ins) = n  BY <1>2, InputAssumption
<1> QED  BY <1>1, <1>2, <1>3

LEMMA SameAddMany == \A d, ins : J!AddMany(d, ins) = AddMany(d, ins)
BY DEF AddMany, J!AddMany, Fail, J!Fail, Done, J!Done, Live, J!Live,
       RecordFails, J!RecordFails, ParentFound, J!ParentFound,
       ValidBatch, J!ValidBatch, ValidInput, J!ValidInput,
       AcyclicIndexes, J!AcyclicIndexes, Inserted, J!Inserted,
       NewEvent, J!NewEvent, NewMeta, J!NewMeta, FTSColumns, J!FTSColumns,
       BodyTags, J!BodyTags, OneAuthor, J!OneAuthor, IsAuthor, J!IsAuthor,
       NoParent, J!NoParent

LEMMA SameUpdate ==
  \A d, id, title, body, at : J!Update(d, id, title, body, at) = Update(d, id, title, body, at)
BY DEF Update, J!Update, Fail, J!Fail, Done, J!Done, Live, J!Live,
       RebuildFTS, J!RebuildFTS, FTSColumns, J!FTSColumns, Edited, J!Edited,
       Or, J!Or, BodyTags, J!BodyTags, SyncedMeta, J!SyncedMeta

LEMMA SameMoves ==
  \A d, id, p : J!Reparent(d, id, p) = Reparent(d, id, p) /\ J!Delete(d, id) = Delete(d, id)
BY DEF Reparent, J!Reparent, Delete, J!Delete, Fail, J!Fail, Done, J!Done,
       Live, J!Live, NoParent, J!NoParent, Chain, J!Chain,
       ClosedUpward, J!ClosedUpward, Subtree, J!Subtree, Remaining, J!Remaining

LEMMA SameTags ==
  \A d, id, tags : /\ J!AddTags(d, id, tags) = AddTags(d, id, tags)
                   /\ J!RemoveTags(d, id, tags) = RemoveTags(d, id, tags)
BY DEF AddTags, J!AddTags, RemoveTags, J!RemoveTags, Fail, J!Fail, Done, J!Done,
       Live, J!Live, RebuildFTS, J!RebuildFTS, FTSColumns, J!FTSColumns,
       IsAuthor, J!IsAuthor

LEMMA SameMeta ==
  \A d, t, u : /\ J!UpdateMeta(d, t, u) = UpdateMeta(d, t, u)
               /\ J!DeleteMeta(d, t) = DeleteMeta(d, t)
BY DEF UpdateMeta, J!UpdateMeta, DeleteMeta, J!DeleteMeta, Fail, J!Fail, Done, J!Done,
       Renamable, J!Renamable, Renamed, J!Renamed, MetaEventIDs, J!MetaEventIDs,
       RewriteMetaTuple, J!RewriteMetaTuple, RebuildFTS, J!RebuildFTS,
       FTSColumns, J!FTSColumns, IsAuthor, J!IsAuthor

(* A call that runs on the newest commit is a step of Journal.             *)
LEMMA CallIsStep ==
  ASSUME NEW o \in Calls, db' = Apply(db, o).db,
         o.kind = "add" => db.seq + Len(o.ins) <= MaxId
  PROVE  J!Next
<1>1. CASE o.kind = "add"
  <2>1. o.ins \in J!Batches  BY <1>1 DEF Calls
  <2>2. J!Adds(o.ins)  BY <1>1, SameAddMany DEF Apply, J!Adds
  <2> QED  BY <2>1, <2>2 DEF J!Next
<1>2. CASE o.kind = "update"
  <2>1. /\ o.id \in Ids /\ o.title \in NewTexts \cup {Keep} /\ o.body \in NewTexts \cup {Keep}
        /\ o.at \in Stamps \cup {BadStamp, Keep}
    BY <1>2 DEF Calls
  <2>2. db' = J!Update(db, o.id, o.title, o.body, o.at).db
    BY <1>2, SameUpdate DEF Apply
  <2>3. J!Updates  BY <2>1, <2>2 DEF J!Updates, Ids, J!Ids
  <2> QED  BY <2>3 DEF J!Next, J!Changes
<1>3. CASE o.kind = "reparent"
  <2>1. o.id \in Ids /\ o.parent \in Ids \cup {NoParent}  BY <1>3 DEF Calls
  <2>2. J!Reparents
    BY <1>3, <2>1, SameMoves DEF Apply, J!Reparents, Ids, J!Ids, NoParent, J!NoParent
  <2> QED  BY <2>2 DEF J!Next, J!Changes
<1>4. CASE o.kind = "delete"
  <2>1. o.id \in Ids  BY <1>4 DEF Calls
  <2>2. J!Deletes  BY <1>4, <2>1, SameMoves DEF Apply, J!Deletes, Ids, J!Ids
  <2> QED  BY <2>2 DEF J!Next, J!Changes
<1>5. CASE o.kind = "addTags"
  <2>1. o.id \in Ids /\ o.tags \in MetaArgs  BY <1>5 DEF Calls
  <2>2. J!AddsTags  BY <1>5, <2>1, SameTags DEF Apply, J!AddsTags, Ids, J!Ids
  <2> QED  BY <2>2 DEF J!Next, J!Changes
<1>6. CASE o.kind = "removeTags"
  <2>1. o.id \in Ids /\ o.tags \in MetaArgs  BY <1>6 DEF Calls
  <2>2. J!RemovesTags  BY <1>6, <2>1, SameTags DEF Apply, J!RemovesTags, Ids, J!Ids
  <2> QED  BY <2>2 DEF J!Next, J!Changes
<1>7. CASE o.kind = "updateMeta"
  <2>1. o.old \in Tuples /\ o.new \in Tuples  BY <1>7 DEF Calls
  <2>2. J!UpdatesMeta  BY <1>7, <2>1, SameMeta DEF Apply, J!UpdatesMeta
  <2> QED  BY <2>2 DEF J!Next, J!Changes
<1>8. CASE o.kind = "deleteMeta"
  <2>1. o.tuple \in Tuples  BY <1>8 DEF Calls
  <2>2. J!DeletesMeta  BY <1>8, <2>1, SameMeta DEF Apply, J!DeletesMeta
  <2> QED  BY <2>2 DEF J!Next, J!Changes
<1> QED  BY <1>1, <1>2, <1>3, <1>4, <1>5, <1>6, <1>7, <1>8 DEF Calls

-------------------------------------------------------------------------------
(* What a call leaves behind.                                              *)

LEMMA ApplyConsistent ==
  ASSUME NEW d, Consistent(d), NEW o \in Calls,
         o.kind = "add" => d.seq + Len(o.ins) <= MaxId
  PROVE  Consistent(Apply(d, o).db)
<1>1. CASE o.kind = "add"
  <2>1. o.ins \in Seq(Records)  BY <1>1, BatchesAre DEF Calls
  <2> QED  BY <1>1, <2>1, AddManyConsistent DEF Apply
<1>2. CASE o.kind = "update"
  <2>1. /\ o.title \in Texts \cup {Keep} /\ o.body \in Texts \cup {Keep}
        /\ o.at \in Stamps \cup {BadStamp, Keep}
    BY <1>2, InputAssumption DEF Calls
  <2> QED  BY <1>2, <2>1, UpdateConsistent DEF Apply
<1>3. CASE o.kind = "reparent"
  <2>1. o.id \in Ids /\ o.parent \in Ids \cup {NoParent}  BY <1>3 DEF Calls
  <2> QED  BY <1>3, <2>1, ReparentConsistent DEF Apply
<1>4. CASE o.kind = "delete"  BY <1>4, DeleteConsistent DEF Apply
<1>5. CASE o.kind = "addTags"  BY <1>5, AddTagsConsistent DEF Apply
<1>6. CASE o.kind = "removeTags"  BY <1>6, RemoveTagsConsistent DEF Apply
<1>7. CASE o.kind = "updateMeta"
  <2>1. o.old \in Tuples /\ o.new \in Tuples  BY <1>7 DEF Calls
  <2> QED  BY <1>7, <2>1, UpdateMetaConsistent DEF Apply
<1>8. CASE o.kind = "deleteMeta"
  <2>1. o.tuple \in Tuples  BY <1>8 DEF Calls
  <2> QED  BY <1>8, <2>1, DeleteMetaConsistent DEF Apply
<1> QED  BY <1>1, <1>2, <1>3, <1>4, <1>5, <1>6, <1>7, <1>8 DEF Calls

(* Only AddMany allocates ids, at most one for each of its records.        *)
LEMMA RebuildKeepsSeq ==
  ASSUME NEW d, NEW e, NEW ids, e.seq = d.seq,
         e = [events |-> e.events, meta |-> e.meta, fts |-> e.fts, seq |-> e.seq]
  PROVE  RebuildFTS(e, ids).seq = d.seq
BY DEF RebuildFTS

LEMMA ApplySeq ==
  ASSUME NEW d, Consistent(d), NEW o \in Calls
  PROVE  /\ o.kind # "add" => Apply(d, o).db.seq = d.seq
         /\ o.kind = "add" => Apply(d, o).db.seq \in {d.seq, d.seq + Len(o.ins)}
<1>0. DbRecord(d)  BY DEF Consistent, Shape, IsJournal, DbRecord
<1>1. CASE o.kind = "add"
  BY <1>1 DEF Apply, AddMany, Inserted, Done, Fail
<1>2. CASE o.kind = "update"
  <2> DEFINE e2 == Edited(d.events[o.id], o.title, o.body, o.at)
             m2 == SyncedMeta(d.meta[o.id], BodyTags(d.events[o.id]), BodyTags(e2))
             d2 == [d EXCEPT !.events[o.id] = e2]
             d3 == [d2 EXCEPT !.meta[o.id] = m2]
  <2>1. /\ d2 = [events |-> d2.events, meta |-> d2.meta, fts |-> d2.fts, seq |-> d2.seq]
        /\ d2.seq = d.seq
    <3> HIDE DEF e2
    <3> QED  BY <1>0 DEF DbRecord
  <2>2. /\ d3 = [events |-> d3.events, meta |-> d3.meta, fts |-> d3.fts, seq |-> d3.seq]
        /\ d3.seq = d.seq
    <3> HIDE DEF d2, m2
    <3> QED  BY <2>1
  <2>3. RebuildFTS(d3, {o.id}).seq = d.seq
    <3> HIDE DEF d3
    <3> QED  BY <2>2, RebuildKeepsSeq
  <2> QED  BY <1>2, <2>1, <2>3 DEF Apply, Update, Done, Fail
<1>3. CASE o.kind = "reparent"  BY <1>0, <1>3 DEF Apply, Reparent, Done, Fail, DbRecord
<1>4. CASE o.kind = "delete"  BY <1>4 DEF Apply, Delete, Remaining, Done, Fail
<1>5. CASE o.kind \in {"addTags", "removeTags"}
  <2>1. ASSUME NEW m2
        PROVE  RebuildFTS([d EXCEPT !.meta[o.id] = m2], {o.id}).seq = d.seq
    <3> DEFINE d2 == [d EXCEPT !.meta[o.id] = m2]
    <3>1. /\ d2 = [events |-> d2.events, meta |-> d2.meta, fts |-> d2.fts, seq |-> d2.seq]
          /\ d2.seq = d.seq
      BY <1>0 DEF DbRecord
    <3> HIDE DEF d2
    <3>2. RebuildFTS(d2, {o.id}).seq = d.seq  BY <3>1, RebuildKeepsSeq
    <3> QED  BY <3>2 DEF d2
  <2> QED  BY <1>5, <2>1 DEF Apply, AddTags, RemoveTags, Done, Fail
<1>6. CASE o.kind \in {"updateMeta", "deleteMeta"}
  <2>1. ASSUME NEW t, NEW rows PROVE RewriteMetaTuple(d, t, rows).seq = d.seq
    <3> DEFINE m2 == [i \in DOMAIN d.meta |-> IF i \in MetaEventIDs(d, t) THEN rows[i] ELSE d.meta[i]]
               d2 == [d EXCEPT !.meta = m2]
    <3>1. /\ d2 = [events |-> d2.events, meta |-> d2.meta, fts |-> d2.fts, seq |-> d2.seq]
          /\ d2.seq = d.seq
      <4> HIDE DEF m2
      <4> QED  BY <1>0 DEF DbRecord
    <3>2. RewriteMetaTuple(d, t, rows) = RebuildFTS(d2, MetaEventIDs(d, t))
      BY DEF RewriteMetaTuple
    <3> HIDE DEF d2
    <3> QED  BY <3>1, <3>2, RebuildKeepsSeq
  <2> QED  BY <1>6, <2>1 DEF Apply, UpdateMeta, DeleteMeta, Done, Fail
<1> QED  BY <1>1, <1>2, <1>3, <1>4, <1>5, <1>6 DEF Calls

(* A metadata write that finds no row leaves the database as it was, so a  *)
(* snapshot older than its commit is still the newest commit.              *)
LEMMA UntouchedIsUnchanged ==
  ASSUME NEW d, Consistent(d), NEW o \in Calls, ~TouchesRows(d, o)
  PROVE  Apply(d, o).db = d
<1>1. ASSUME NEW t, MetaEventIDs(d, t) = {}, NEW rows
      PROVE  RewriteMetaTuple(d, t, rows) = d
  <2>1. /\ DbRecord(d) /\ d.meta = [i \in DOMAIN d.meta |-> d.meta[i]]
        /\ d.fts = [i \in DOMAIN d.fts |-> d.fts[i]]
    BY DEF Consistent, Shape, IsJournal, DbRecord
  <2>2. [i \in DOMAIN d.meta |-> IF i \in MetaEventIDs(d, t) THEN rows[i] ELSE d.meta[i]]
        = d.meta
    BY <1>1, <2>1
  <2>3. [d EXCEPT !.meta = d.meta] = d  BY <2>1 DEF DbRecord
  <2>4. RebuildFTS(d, {}) = d
    <3>1. [i \in DOMAIN d.fts |-> IF i \in {} THEN FTSColumns(d.events[i], d.meta[i])
                                  ELSE d.fts[i]] = d.fts
      BY <2>1
    <3>2. [d EXCEPT !.fts = d.fts] = d  BY <2>1 DEF DbRecord
    <3> QED  BY <3>1, <3>2 DEF RebuildFTS
  <2> QED  BY <1>1, <2>2, <2>3, <2>4 DEF RewriteMetaTuple
<1>2. o.kind \in {"updateMeta", "deleteMeta"}  BY DEF TouchesRows, Calls
<1> QED  BY <1>1, <1>2 DEF TouchesRows, Apply, UpdateMeta, DeleteMeta, Done, Fail

-------------------------------------------------------------------------------
(* The inductive invariant.                                                *)

Shapes ==
  /\ pc \in [Procs -> {"idle", "begun", "reading", "writing"}]
  /\ req \in [Procs -> Calls \cup {NoCall}] /\ req \in [Procs -> Requests \cup {NoCall}]
  /\ \A p \in Procs : pc[p] # "idle" <=> req[p] # NoCall
  /\ stale \in [Procs -> BOOLEAN]
  /\ lock \in Procs \cup {Nobody}
  /\ DOMAIN snap = Procs /\ snap = [p \in Procs |-> snap[p]]
  /\ DOMAIN reply = Procs /\ reply = [p \in Procs |-> reply[p]]

Data == Consistent(db) /\ \A p \in Procs : Consistent(snap[p])

(* A reader whose snapshot nobody has overtaken may still become holder.   *)
ReaderIsCurrent == \A p \in Procs : pc[p] = "reading" /\ ~stale[p] => snap[p] = db

(* The ids left are enough for the batches under way.                      *)
RoomForAdds == db.seq + MaxBatch * Cardinality(AddsInFlight) <= MaxId

Inv == Shapes /\ Data /\ HolderIsCurrent /\ ReaderIsCurrent /\ RoomForAdds

LEMMA EmptyConsistent == Consistent(EmptyJournal)
BY MaxIdAssumption
   DEF EmptyJournal, EmptyMap, Consistent, Shape, IsJournal, Live

LEMMA NoCallIsNone == NoCall \notin Calls /\ \A o \in Calls : o.kind # "none"
BY DEF NoCall, Calls

LEMMA InitInv == Init => Inv
<1> SUFFICES ASSUME Init PROVE Inv  OBVIOUS
<1>1. Shapes  BY NoCallIsNone DEF Init, Shapes
<1>2. Data  BY EmptyConsistent DEF Init, Data
<1>3. HolderIsCurrent /\ ReaderIsCurrent
  BY DEF Init, HolderIsCurrent, ReaderIsCurrent
<1>4. RoomForAdds
  <2>1. AddsInFlight = {}  BY DEF Init, AddsInFlight, NoCall
  <2>2. Cardinality(AddsInFlight) = 0  BY <2>1, FS_EmptySet
  <2> QED  BY <2>2, MaxIdAssumption, InputAssumption DEF Init, EmptyJournal, RoomForAdds
<1> QED  BY <1>1, <1>2, <1>3, <1>4 DEF Inv

(* One process more or less in an AddMany.                                 *)
LEMMA AddsCounted ==
  /\ IsFiniteSet(AddsInFlight) /\ Cardinality(AddsInFlight) \in Nat
  /\ \A p \in AddsInFlight : Cardinality(AddsInFlight \ {p}) = Cardinality(AddsInFlight) - 1
  /\ \A p \in Procs \ AddsInFlight :
       Cardinality(AddsInFlight \cup {p}) = Cardinality(AddsInFlight) + 1
<1>1. AddsInFlight \subseteq Procs  BY DEF AddsInFlight
<1>2. IsFiniteSet(AddsInFlight)  BY <1>1, ProcsAssumption, FS_Subset
<1> QED  BY <1>2, FS_CardinalityType, FS_RemoveElement, FS_AddElement

(* The end of a call that changed nothing.                                 *)
LEMMA ReturnInv ==
  ASSUME Inv, NEW p \in Procs, NEW from, NEW r, Return(p, from, r), from # "idle",
         db' = db, stale' = stale
  PROVE  Inv'
<1> USE DEF Inv
<1>1. /\ pc[p] = from /\ pc' = [pc EXCEPT ![p] = "idle"]
      /\ reply' = [reply EXCEPT ![p] = r]
      /\ snap' = [snap EXCEPT ![p] = EmptyJournal] /\ req' = [req EXCEPT ![p] = NoCall]
      /\ lock' = IF lock = p THEN Nobody ELSE lock
  BY DEF Return, Transition, Released
<1>2. Shapes'  BY <1>1 DEF Shapes
<1>3. Data'
  <2>1. \A q \in Procs : Consistent(snap'[q])  BY <1>1, EmptyConsistent DEF Data, Shapes
  <2>2. Consistent(db')  BY DEF Data
  <2> QED  BY <2>1, <2>2 DEF Data, Consistent, Shape, IsJournal, RowsAgree, Live, Carried
<1>4. HolderIsCurrent'  BY <1>1, NobodyAssumption DEF HolderIsCurrent, Shapes
<1>5. ReaderIsCurrent'  BY <1>1 DEF ReaderIsCurrent, Shapes
<1>6. RoomForAdds'
  <2>1. AddsInFlight' = AddsInFlight \ {p}  BY <1>1 DEF AddsInFlight, Shapes, NoCall
  <2>2. Cardinality(AddsInFlight') \in Nat /\ Cardinality(AddsInFlight') <= Cardinality(AddsInFlight)
    <3>1. CASE p \in AddsInFlight
      <4>1. Cardinality(AddsInFlight') = Cardinality(AddsInFlight) - 1
        BY <2>1, <3>1, AddsCounted
      <4>2. Cardinality(AddsInFlight') \in Nat
        BY <2>1, AddsCounted, FS_RemoveElement, FS_CardinalityType
      <4> QED  BY <4>1, <4>2, AddsCounted
    <3>2. CASE p \notin AddsInFlight
      <4>1. AddsInFlight' = AddsInFlight  BY <2>1, <3>2
      <4> QED  BY <4>1, AddsCounted
    <3> QED  BY <3>1, <3>2
  <2> DEFINE m == Cardinality(AddsInFlight')
             n == Cardinality(AddsInFlight)
  <2>3. MaxBatch * m <= MaxBatch * n /\ MaxBatch * m \in Int /\ MaxBatch * n \in Int
    <3>1. m \in Nat /\ n \in Nat /\ m <= n /\ MaxBatch \in Nat
      BY <2>2, AddsCounted, InputAssumption
    <3> HIDE DEF m, n
    <3> QED  BY <3>1
  <2>4. db.seq \in Int  BY DEF Data, Consistent, Shape, IsJournal
  <2> QED  BY <2>3, <2>4, MaxIdAssumption DEF RoomForAdds
<1> QED  BY <1>2, <1>3, <1>4, <1>5, <1>6

(* A process about to commit an AddMany has room for its records.          *)
LEMMA RoomForOne ==
  ASSUME Inv, NEW p \in Procs, req[p].kind = "add", req[p] \in Calls
  PROVE  /\ p \in AddsInFlight
         /\ Len(req[p].ins) \in Nat /\ Len(req[p].ins) <= MaxBatch
         /\ db.seq \in Nat /\ db.seq + Len(req[p].ins) <= MaxId
<1>1. p \in AddsInFlight  BY DEF AddsInFlight
<1>2. req[p].ins \in J!Batches  BY DEF Calls
<1>3. Len(req[p].ins) \in Nat /\ Len(req[p].ins) <= MaxBatch
  BY <1>2, BatchesAre, InputAssumption
<1>4. db.seq \in Nat  BY DEF Inv, Data, Consistent, Shape, IsJournal
<1> DEFINE n == Cardinality(AddsInFlight)
           k == Cardinality(AddsInFlight \ {p})
<1>5. n \in Nat /\ k \in Nat /\ n = k + 1
  BY <1>1, AddsCounted, FS_RemoveElement, FS_CardinalityType
<1>6. MaxBatch * n = MaxBatch * k + MaxBatch /\ MaxBatch * k \in Nat
  <2> HIDE DEF n, k
  <2> QED  BY <1>5, InputAssumption
<1>7. db.seq + MaxBatch * n <= MaxId  BY DEF Inv, RoomForAdds
<1> HIDE DEF n, k
<1> QED  BY <1>1, <1>3, <1>4, <1>6, <1>7, MaxIdAssumption, InputAssumption

(* A commit is a step of Journal on the newest commit.                     *)
LEMMA CommitIs ==
  ASSUME Inv, NEW p \in Procs, Finish(p), Apply(snap[p], req[p]).err = "ok"
  PROVE  /\ req[p] \in Calls /\ snap[p] = db /\ lock = p
         /\ req[p].kind = "add" => db.seq + Len(req[p].ins) <= MaxId
         /\ db' = Apply(db, req[p]).db
         /\ stale' = [q \in Procs |-> stale[q] \/ TouchesRows(db, req[p])]
         /\ pc[p] = "writing" /\ pc' = [pc EXCEPT ![p] = "idle"]
         /\ snap' = [snap EXCEPT ![p] = EmptyJournal] /\ req' = [req EXCEPT ![p] = NoCall]
         /\ \E r : reply' = [reply EXCEPT ![p] = r]
         /\ lock' = Nobody
<1>1. req[p] \in Calls /\ pc[p] = "writing"  BY DEF Inv, Shapes, Finish
<1>2. snap[p] = db /\ lock = p  BY <1>1 DEF Inv, HolderIsCurrent
<1>3. req[p].kind = "add" => db.seq + Len(req[p].ins) <= MaxId  BY <1>1, RoomForOne
<1> QED  BY <1>1, <1>2, <1>3 DEF Finish, Return, Transition, Released

LEMMA CommitInv ==
  ASSUME Inv, NEW p \in Procs, Finish(p), Apply(snap[p], req[p]).err = "ok"
  PROVE  Inv'
<1> DEFINE o == req[p]
<1>1. /\ o \in Calls /\ snap[p] = db /\ lock = p
      /\ o.kind = "add" => db.seq + Len(o.ins) <= MaxId
      /\ db' = Apply(db, o).db
      /\ stale' = [q \in Procs |-> stale[q] \/ TouchesRows(db, o)]
      /\ pc[p] = "writing" /\ pc' = [pc EXCEPT ![p] = "idle"]
      /\ snap' = [snap EXCEPT ![p] = EmptyJournal] /\ req' = [req EXCEPT ![p] = NoCall]
      /\ \E r : reply' = [reply EXCEPT ![p] = r]
      /\ lock' = Nobody
  BY CommitIs
<1> HIDE DEF o
<1>2. Shapes'
  <2>1. TouchesRows(db, o) \in BOOLEAN  BY DEF TouchesRows
  <2>2. stale' \in [Procs -> BOOLEAN]  BY <1>1, <2>1 DEF Inv, Shapes
  <2> QED  BY <1>1, <2>2 DEF Inv, Shapes
<1>3. Consistent(db) /\ Consistent(Apply(db, o).db)
  BY <1>1, ApplyConsistent DEF Inv, Data
<1>4. Data'
  <2>1. \A q \in Procs : Consistent(snap'[q])
    BY <1>1, EmptyConsistent DEF Inv, Data, Shapes
  <2> QED  BY <1>1, <1>3, <2>1 DEF Data, Consistent, Shape, IsJournal, RowsAgree, Live, Carried
<1>5. HolderIsCurrent'
  BY <1>1 DEF Inv, HolderIsCurrent, Shapes
<1>6. ReaderIsCurrent'
  <2> SUFFICES ASSUME NEW q \in Procs, pc'[q] = "reading", ~stale'[q]
               PROVE  snap'[q] = db'
    BY DEF ReaderIsCurrent
  <2>1. q # p /\ pc[q] = "reading" /\ snap'[q] = snap[q]  BY <1>1 DEF Inv, Shapes
  <2>2. ~stale[q] /\ ~TouchesRows(db, o)  BY <1>1
  <2>3. db' = db  BY <1>1, <1>3, <2>2, UntouchedIsUnchanged
  <2> QED  BY <2>1, <2>2, <2>3 DEF Inv, ReaderIsCurrent
<1>7. RoomForAdds'
  <2> DEFINE n == Cardinality(AddsInFlight)
             k == Cardinality(AddsInFlight \ {p})
  <2>1. AddsInFlight' = AddsInFlight \ {p}
    BY <1>1 DEF AddsInFlight, Inv, Shapes, NoCall
  <2>2. Cardinality(AddsInFlight') = k  BY <2>1
  <2>3. db.seq \in Nat /\ db'.seq \in Nat /\ db.seq + MaxBatch * n <= MaxId
    BY <1>1, <1>3 DEF Inv, RoomForAdds, Consistent, Shape, IsJournal
  <2>4. CASE o.kind = "add"
    <3>1. p \in AddsInFlight /\ Len(o.ins) \in Nat /\ Len(o.ins) <= MaxBatch
      BY <1>1, <2>4, RoomForOne DEF o
    <3>2. n \in Nat /\ k \in Nat /\ n = k + 1
      BY <3>1, AddsCounted, FS_RemoveElement, FS_CardinalityType
    <3>3. MaxBatch * n = MaxBatch * k + MaxBatch /\ MaxBatch * k \in Nat
      <4> HIDE DEF n, k
      <4> QED  BY <3>2, InputAssumption
    <3>4. db'.seq <= db.seq + MaxBatch
      <4>1. db'.seq \in {db.seq, db.seq + Len(o.ins)}  BY <1>1, <1>3, <2>4, ApplySeq
      <4> QED  BY <2>3, <3>1, <4>1, InputAssumption
    <3>5. db'.seq + MaxBatch * k <= MaxId
      <4> HIDE DEF n, k
      <4> QED  BY <2>3, <3>3, <3>4, MaxIdAssumption, InputAssumption
    <3> QED  BY <2>2, <3>5 DEF RoomForAdds
  <2>5. CASE o.kind # "add"
    <3>1. p \notin AddsInFlight  BY <2>5 DEF AddsInFlight, o
    <3>2. AddsInFlight' = AddsInFlight  BY <2>1, <3>1
    <3>3. db'.seq = db.seq  BY <1>1, <1>3, <2>5, ApplySeq
    <3> QED  BY <2>3, <3>2, <3>3 DEF RoomForAdds
  <2> QED  BY <2>4, <2>5
<1> QED  BY <1>2, <1>4, <1>5, <1>6, <1>7 DEF Inv

(* A new call.  Only one that adds needs ids.                              *)
LEMMA CallInv ==
  ASSUME Inv, NEW p \in Procs, NEW o \in Requests, Call(p, o)
  PROVE  Inv'
<1>1. /\ pc[p] = "idle" /\ pc' = [pc EXCEPT ![p] = "begun"]
      /\ o.kind = "add" => db.seq + MaxBatch * (1 + Cardinality(AddsInFlight)) <= MaxId
      /\ req' = [req EXCEPT ![p] = o] /\ reply' = [reply EXCEPT ![p] = "none"]
      /\ db' = db /\ snap' = snap /\ stale' = stale /\ lock' = lock
      /\ o \in Calls /\ o # NoCall /\ req[p] = NoCall
  BY RequestAssumption, NoCallIsNone DEF Call, Transition, Inv, Shapes
<1>2. Shapes'  BY <1>1 DEF Inv, Shapes
<1>3. Data'
  BY <1>1 DEF Inv, Data, Consistent, Shape, IsJournal, RowsAgree, Live, Carried
<1>4. HolderIsCurrent' /\ ReaderIsCurrent'
  BY <1>1 DEF Inv, Shapes, HolderIsCurrent, ReaderIsCurrent
<1>5. RoomForAdds'
  <2>1. p \notin AddsInFlight  BY <1>1 DEF AddsInFlight, NoCall
  <2>2. CASE o.kind = "add"
    <3>1. AddsInFlight' = AddsInFlight \cup {p}  BY <1>1, <2>2 DEF AddsInFlight, Inv, Shapes
    <3>2. Cardinality(AddsInFlight') = 1 + Cardinality(AddsInFlight)
      BY <2>1, <3>1, AddsCounted
    <3> QED  BY <1>1, <2>2, <3>2 DEF RoomForAdds
  <2>3. CASE o.kind # "add"
    <3>1. AddsInFlight' = AddsInFlight  BY <1>1, <2>1, <2>3 DEF AddsInFlight, Inv, Shapes
    <3> QED  BY <1>1, <3>1 DEF Inv, RoomForAdds
  <2> QED  BY <2>2, <2>3
<1> QED  BY <1>2, <1>3, <1>4, <1>5 DEF Inv

(* A process takes the newest commit as its snapshot.                      *)
LEMMA SnapshotInv ==
  ASSUME Inv, NEW p \in Procs, pc[p] = "begun",
         \/ pc' = [pc EXCEPT ![p] = "reading"] /\ lock' = lock
            /\ stale' = [stale EXCEPT ![p] = FALSE]
         \/ pc' = [pc EXCEPT ![p] = "writing"] /\ lock = Nobody /\ lock' = p /\ stale' = stale,
         snap' = [snap EXCEPT ![p] = db],
         db' = db, req' = req, reply' = reply
  PROVE  Inv'
<1>1. Shapes'  BY DEF Inv, Shapes
<1>2. Data'
  <2>1. \A q \in Procs : Consistent(snap'[q])  BY DEF Inv, Data, Shapes
  <2> QED  BY <2>1 DEF Inv, Data, Consistent, Shape, IsJournal, RowsAgree, Live, Carried
<1>3. HolderIsCurrent'  BY NobodyAssumption DEF Inv, Shapes, HolderIsCurrent
<1>4. ReaderIsCurrent'  BY DEF Inv, Shapes, ReaderIsCurrent
<1>5. RoomForAdds'  BY DEF Inv, RoomForAdds, AddsInFlight
<1> QED  BY <1>1, <1>2, <1>3, <1>4, <1>5 DEF Inv

(* A reader nobody has overtaken becomes the holder.                       *)
LEMMA UpgradeInv ==
  ASSUME Inv, NEW p \in Procs, Upgrade(p)
  PROVE  Inv'
<1>1. /\ pc[p] = "reading" /\ pc' = [pc EXCEPT ![p] = "writing"]
      /\ lock = Nobody /\ ~stale[p] /\ lock' = p
      /\ db' = db /\ req' = req /\ snap' = snap /\ stale' = stale /\ reply' = reply
  BY DEF Upgrade, Transition, CanUpgrade
<1>2. snap[p] = db  BY <1>1 DEF Inv, ReaderIsCurrent
<1>3. Shapes'  BY <1>1 DEF Inv, Shapes
<1>4. Data'
  BY <1>1 DEF Inv, Data, Consistent, Shape, IsJournal, RowsAgree, Live, Carried
<1>5. HolderIsCurrent'  BY <1>1, <1>2, NobodyAssumption DEF Inv, Shapes, HolderIsCurrent
<1>6. ReaderIsCurrent'  BY <1>1 DEF Inv, Shapes, ReaderIsCurrent
<1>7. RoomForAdds'  BY <1>1 DEF Inv, RoomForAdds, AddsInFlight
<1> QED  BY <1>3, <1>4, <1>5, <1>6, <1>7 DEF Inv

LEMMA StutterInv == ASSUME Inv, UNCHANGED vars PROVE Inv'
<1>1. /\ db' = db /\ pc' = pc /\ req' = req /\ snap' = snap
      /\ stale' = stale /\ lock' = lock /\ reply' = reply
  BY DEF vars
<1>2. Shapes'  BY <1>1 DEF Inv, Shapes
<1>3. Data'
  BY <1>1 DEF Inv, Data, Consistent, Shape, IsJournal, RowsAgree, Live, Carried
<1>4. HolderIsCurrent' /\ ReaderIsCurrent' /\ RoomForAdds'
  BY <1>1 DEF Inv, HolderIsCurrent, ReaderIsCurrent, RoomForAdds, AddsInFlight
<1> QED  BY <1>2, <1>3, <1>4 DEF Inv

(* The steps that end a call without a commit.                             *)
Ends(p) == \/ Reject(p) \/ FailOnRead(p) \/ RefuseUpgrade(p) \/ WaitTimeout(p) \/ Crash(p)
           \/ Finish(p) /\ Apply(snap[p], req[p]).err # "ok"

LEMMA EndsReturn ==
  ASSUME NEW p \in Procs, Ends(p)
  PROVE  /\ db' = db /\ stale' = stale
         /\ \E from, r : Return(p, from, r) /\ from # "idle"
<1>1. CASE Reject(p)  BY <1>1 DEF Reject
<1>2. CASE FailOnRead(p)  BY <1>2 DEF FailOnRead
<1>3. CASE RefuseUpgrade(p)  BY <1>3 DEF RefuseUpgrade
<1>4. CASE WaitTimeout(p)  BY <1>4 DEF WaitTimeout
<1>5. CASE Crash(p)  BY <1>5 DEF Crash
<1>6. CASE Finish(p) /\ Apply(snap[p], req[p]).err # "ok"  BY <1>6 DEF Finish
<1> QED  BY <1>1, <1>2, <1>3, <1>4, <1>5, <1>6 DEF Ends

(* What a step may be.                                                     *)
LEMMA StepCases ==
  ASSUME Next
  PROVE  \E p \in Procs :
           \/ Ends(p)
           \/ Finish(p) /\ Apply(snap[p], req[p]).err = "ok"
           \/ FirstRead(p) \/ FirstWrite(p) \/ Upgrade(p)
           \/ \E o \in Requests : Call(p, o)
BY DEF Next, Step, Ends

LEMMA StepInv == Inv /\ [Next]_vars => Inv'
<1> SUFFICES ASSUME Inv, [Next]_vars PROVE Inv'  OBVIOUS
<1>1. CASE UNCHANGED vars  BY <1>1, StutterInv
<1>2. CASE Next
  <2>1. PICK p \in Procs :
           \/ Ends(p)
           \/ Finish(p) /\ Apply(snap[p], req[p]).err = "ok"
           \/ FirstRead(p) \/ FirstWrite(p) \/ Upgrade(p)
           \/ \E o \in Requests : Call(p, o)
    BY <1>2, StepCases
  <2>2. CASE Ends(p)
    <3>1. PICK from, r : Return(p, from, r) /\ from # "idle"  BY <2>2, EndsReturn
    <3>2. db' = db /\ stale' = stale  BY <2>2, EndsReturn
    <3> QED  BY <3>1, <3>2, ReturnInv
  <2>3. CASE Finish(p) /\ Apply(snap[p], req[p]).err = "ok"  BY <2>3, CommitInv
  <2>4. CASE FirstRead(p)
    <3>1. /\ pc[p] = "begun" /\ pc' = [pc EXCEPT ![p] = "reading"] /\ lock' = lock
          /\ stale' = [stale EXCEPT ![p] = FALSE] /\ snap' = [snap EXCEPT ![p] = db]
          /\ db' = db /\ req' = req /\ reply' = reply
      BY <2>4 DEF FirstRead, Transition
    <3> QED  BY <3>1, SnapshotInv
  <2>5. CASE FirstWrite(p)
    <3>1. /\ pc[p] = "begun" /\ pc' = [pc EXCEPT ![p] = "writing"]
          /\ lock = Nobody /\ lock' = p /\ stale' = stale /\ snap' = [snap EXCEPT ![p] = db]
          /\ db' = db /\ req' = req /\ reply' = reply
      BY <2>5 DEF FirstWrite, Transition
    <3> QED  BY <3>1, SnapshotInv
  <2>6. CASE Upgrade(p)  BY <2>6, UpgradeInv
  <2>7. CASE \E o \in Requests : Call(p, o)  BY <2>7, CallInv
  <2> QED  BY <2>1, <2>2, <2>3, <2>4, <2>5, <2>6, <2>7
<1> QED  BY <1>1, <1>2

-------------------------------------------------------------------------------
(* The theorems.                                                           *)

(* The inductive invariant holds in every state of every process.          *)
THEOREM InvHolds == Spec => []Inv
<1>1. Init => Inv  BY InitInv
<1>2. Inv /\ [Next]_vars => Inv'  BY StepInv
<1> QED  BY <1>1, <1>2, PTL DEF Spec

(* The committed database and every snapshot are well-formed journals, and *)
(* the processes' own state keeps to what inTx can be in.                  *)
THEOREM TypeCorrect == Spec => []TypeOK
<1>1. Inv => TypeOK
  BY DEF Inv, Shapes, Data, TypeOK, Consistent, Shape
<1> QED  BY <1>1, InvHolds, PTL

(* However many processes there are, the one that holds the write lock     *)
(* works on the newest commit.                                             *)
THEOREM HolderAlwaysCurrent == Spec => []HolderIsCurrent
<1>1. Inv => HolderIsCurrent  BY DEF Inv
<1> QED  BY <1>1, InvHolds, PTL

LEMMA InitRefines == Init => J!Init
BY DEF Init, J!Init, EmptyJournal, J!EmptyJournal, EmptyMap, J!EmptyMap

LEMMA StepRefines == Inv /\ [Next]_vars => [J!Next]_db
<1> SUFFICES ASSUME Inv, [Next]_vars PROVE J!Next \/ db' = db  OBVIOUS
<1>1. CASE UNCHANGED vars  BY <1>1 DEF vars
<1>2. CASE Next
  <2>1. PICK p \in Procs :
           \/ Ends(p)
           \/ Finish(p) /\ Apply(snap[p], req[p]).err = "ok"
           \/ FirstRead(p) \/ FirstWrite(p) \/ Upgrade(p)
           \/ \E o \in Requests : Call(p, o)
    BY <1>2, StepCases
  <2>2. CASE Ends(p)  BY <2>2, EndsReturn
  <2>3. CASE Finish(p) /\ Apply(snap[p], req[p]).err = "ok"
    <3> DEFINE o == req[p]
    <3>1. /\ o \in Calls /\ db' = Apply(db, o).db
          /\ o.kind = "add" => db.seq + Len(o.ins) <= MaxId
      BY <2>3, CommitIs
    <3> HIDE DEF o
    <3> QED  BY <3>1, CallIsStep
  <2>4. CASE FirstRead(p) \/ FirstWrite(p) \/ Upgrade(p)
    BY <2>4 DEF FirstRead, FirstWrite, Upgrade
  <2>5. CASE \E o \in Requests : Call(p, o)  BY <2>5 DEF Call
  <2> QED  BY <2>1, <2>2, <2>3, <2>4, <2>5
<1> QED  BY <1>1, <1>2

(* Whatever the processes interleave, time out on or lose to a crash, the  *)
(* commits are those of a journal whose operations are atomic: every       *)
(* theorem of Journal_proofs holds of the shared file too.                 *)
THEOREM SessionsImplementJournal == Spec => ImplementsJournal
<1>1. Init => J!Init  BY InitRefines
<1>2. Inv /\ [Next]_vars => [J!Next]_db  BY StepRefines
<1> QED  BY <1>1, <1>2, InvHolds, PTL DEF Spec, ImplementsJournal, J!Spec

===============================================================================
