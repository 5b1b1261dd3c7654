-------------------------------- MODULE Journal --------------------------------
(***************************************************************************)
(* The journal as its callers should see it: one database, each operation  *)
(* of the event store taking effect at once or not at all.  Sessions.tla   *)
(* shows what the transactions of several processes make of this.          *)
(***************************************************************************)
EXTENDS JournalOps

CONSTANTS
  MaxBatch,   (* Records in one AddMany.  Bounds the model.                 *)
  MetaArgs,   (* The tuple sets callers hand to AddMany, AddTags and        *)
              (* RemoveTags.                                                *)
  NewTexts    (* The texts callers write, a subset of Texts.                *)

ASSUME InputAssumption == /\ MaxBatch \in Nat
                          /\ MetaArgs \subseteq SUBSET Tuples
                          /\ NewTexts \subseteq Texts

VARIABLE db

TypeOK == IsJournal(db)

AddInput == [ title : NewTexts, body : NewTexts, meta : MetaArgs,
              parent : Ids \cup {NoParent}, index : 0..MaxBatch,
              at : Stamps \cup {BadStamp} ]

Batches == UNION {[1..n -> AddInput] : n \in 1..MaxBatch}

(* Every ParentID of the batch names an id allocated before the batch.     *)
Settled(ins) == \A k \in DOMAIN ins : ins[k].parent <= db.seq

Init == db = EmptyJournal

Adds(ins) == /\ db.seq + Len(ins) <= MaxId
             /\ db' = AddMany(db, ins).db

Updates == \E id \in Ids, title, body \in NewTexts \cup {Keep},
              at \in Stamps \cup {BadStamp, Keep} :
             db' = Update(db, id, title, body, at).db

Reparents == \E id \in Ids, p \in Ids \cup {NoParent} : db' = Reparent(db, id, p).db

Deletes == \E id \in Ids : db' = Delete(db, id).db

AddsTags == \E id \in Ids, tags \in MetaArgs : db' = AddTags(db, id, tags).db

RemovesTags == \E id \in Ids, tags \in MetaArgs : db' = RemoveTags(db, id, tags).db

UpdatesMeta == \E old, new \in Tuples : db' = UpdateMeta(db, old, new).db

DeletesMeta == \E t \in Tuples : db' = DeleteMeta(db, t).db

Changes == \/ Updates  \/ Reparents   \/ Deletes
           \/ AddsTags \/ RemovesTags \/ UpdatesMeta \/ DeletesMeta

Next        == (\E ins \in Batches : Adds(ins)) \/ Changes
SettledNext == (\E ins \in Batches : Settled(ins) /\ Adds(ins)) \/ Changes

(* Everything AddMany's signature admits.                                  *)
Spec == Init /\ [][Next]_db

(* Batches whose ParentIDs name events that were there before them.        *)
SettledSpec == Init /\ [][SettledNext]_db

-------------------------------------------------------------------------------
(* Safety.                                                                 *)

(* The events tree never loops back on itself: no operation, and no batch  *)
(* of records, may link events into a ring that no root reaches.           *)
Acyclic == AcyclicTree(db)

(* The three tables are about the same events: parent links and metadata   *)
(* rows refer to events that exist, and the search index has one row for   *)
(* each event, which says what its text and its metadata say.              *)
TablesAgree ==
  /\ DOMAIN db.meta = Live(db) /\ DOMAIN db.fts = Live(db)
  /\ \A i \in Live(db) : /\ db.events[i].parent \in Live(db) \cup {NoParent}
                         /\ db.fts[i] = FTSColumns(db.events[i], db.meta[i])

(* No event has two authors, whichever verbs its metadata went through.    *)
AtMostOneAuthor == \A i \in DOMAIN db.meta : OneAuthor(Carried(db, i))

(* A row marked body-derived is one the event's present text still         *)
(* mentions, so an edit never retracts a tuple the operator asked for.     *)
BodyRowsMentioned ==
  \A i \in Live(db) : \A t \in Tuples :
    db.meta[i][t] = "body" => t \in BodyTags(db.events[i])

-------------------------------------------------------------------------------
(* What a step may never do.                                               *)

Survivors == Live(db) \cap Live(db)'

(* An id names one event for ever: AUTOINCREMENT never hands out an id     *)
(* that a deleted event had.                                               *)
NeverReused == /\ db.seq <= db'.seq
               /\ \A i \in Live(db)' \ Live(db) : i \in db.seq+1 .. db'.seq
IdsNeverReused == [][NeverReused]_db

(* An event that has an author keeps one as long as it exists.             *)
Authored(d, i) == \E t \in Carried(d, i) : IsAuthor(t)
AuthorKept == \A i \in Survivors : Authored(db, i) => Authored(db', i)
AuthorNeverLost == [][AuthorKept]_db

(* Editing an event's text leaves every tuple the operator asked for, and  *)
(* leaves the event carrying every tag the new text mentions.              *)
TextEdited(i) == \/ db'.events[i].title # db.events[i].title
                 \/ db'.events[i].body # db.events[i].body
EditSynced == \A i \in Survivors : TextEdited(i) =>
                /\ \A t \in Tuples : db.meta[i][t] = "explicit" => db'.meta[i][t] = "explicit"
                /\ BodyTags(db'.events[i]) \subseteq Carried(db', i)
EditsRespectProvenance == [][EditSynced]_db

(* An event moves only by Reparent: its id stays, and a subtree leaves     *)
(* with its root.  No event loses its parent because the parent went.      *)
NoOrphans == \A i \in Live(db) : \A p \in Live(db) \ Live(db)' :
               db.events[i].parent = p => i \notin Live(db)'
DeleteTakesSubtree == [][NoOrphans]_db

(* No verb mints a tuple that a search cannot reach, though rows an older  *)
(* build wrote may stay until a rename or a removal takes them.            *)
NothingUnfindableMinted ==
  \A i \in Live(db)' : \A t \in Unfindable \cap Carried(db', i) :
    i \in Live(db) /\ t \in Carried(db, i)
MintsFindable == [][NothingUnfindableMinted]_db

(* A file that already holds a ring of parent links (a hand edit, an       *)
(* interrupted write) is never made worse.                                 *)
NoNewRing == OnRing(db)' \subseteq OnRing(db)
RingsNeverGrow == [][NoNewRing]_db

===============================================================================
