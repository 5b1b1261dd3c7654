------------------------------ MODULE JournalOps ------------------------------
(***************************************************************************)
(* The write operations of package internal/event as functions from one    *)
(* committed state of the database file to the next.                       *)
(*                                                                         *)
(* A database value is a record with the three tables and the rowid        *)
(* counter SQLite keeps for an AUTOINCREMENT column:                       *)
(*   events : live id -> [parent, title, body, at]                         *)
(*   meta   : live id -> [tuple -> "none" | "body" | "explicit"]           *)
(*   fts    : live id -> [content, tokens]                                 *)
(*   seq    : the largest id ever committed                                *)
(*                                                                         *)
(* meta[i][t] is the source column of the row (i, t.key, t.value), "none"  *)
(* when there is no such row: the UNIQUE(key, value, event_id) index of    *)
(* migration 2 allows at most one.                                         *)
(*                                                                         *)
(* An operation returns [err, db].  Every one runs in a single transaction *)
(* (inTx), so an error returns the database it was given.                  *)
(***************************************************************************)
EXTENDS Integers, Sequences, FiniteSets

CONSTANTS
  MaxId,      (* Ids are 1..MaxId.  Bounds the model.                       *)
  Texts,      (* Titles and bodies, as far as the tags they mention differ. *)
  Empty,      (* The empty text, a member of Texts.                         *)
  Tuples,     (* Metadata tuples, records [key, value].                     *)
  TagsIn,     (* Texts -> the @person and #tag tuples a text mentions.      *)
  Unfindable, (* The tuples parse.ValidateMeta refuses to mint.             *)
  Stamps,     (* Values created_at can store.                               *)
  BadStamp,   (* A time outside the range formatTimestamp accepts.          *)
  Keep        (* The nil pointer of Update: leave this field alone.         *)

NoParent == 0
Ids == 1..MaxId

IsAuthor(t) == t.key = "author"

ASSUME MaxIdAssumption == MaxId \in Nat
ASSUME TextAssumption == /\ Empty \in Texts
                         /\ TagsIn \in [Texts -> SUBSET Tuples]
                         /\ TagsIn[Empty] = {}
                         /\ Keep \notin Texts
ASSUME TagAssumption ==
  \A x \in Texts : \A t \in TagsIn[x] : ~IsAuthor(t) /\ t \notin Unfindable
ASSUME StampAssumption == BadStamp \notin Stamps /\ Keep \notin Stamps \cup {BadStamp}

-------------------------------------------------------------------------------
(* The shapes of rows and of database values.                              *)

Provenance == {"none", "body", "explicit"}
EventRow == [parent : Ids \cup {NoParent}, title : Texts, body : Texts, at : Stamps]
FTSRow   == [content : Texts \X Texts, tokens : SUBSET Tuples]

IsJournal(d) ==
  /\ d = [events |-> d.events, meta |-> d.meta, fts |-> d.fts, seq |-> d.seq]
  /\ d.seq \in 0..MaxId
  /\ DOMAIN d.events \subseteq 1..d.seq
  /\ d.events \in [DOMAIN d.events -> EventRow]
  /\ d.meta \in [DOMAIN d.meta -> [Tuples -> Provenance]]
  /\ d.fts \in [DOMAIN d.fts -> FTSRow]

EmptyMap == [i \in {} |-> Keep]
EmptyJournal == [events |-> EmptyMap, meta |-> EmptyMap, fts |-> EmptyMap, seq |-> 0]

Live(d) == DOMAIN d.events
Carried(d, i) == {t \in Tuples : d.meta[i][t] # "none"}

(* The tags an event's own text mentions: BodyTags over EventText, whose   *)
(* joining space keeps a tag of the title apart from the body.             *)
BodyTags(e) == TagsIn[e.title] \cup TagsIn[e.body]

FTSColumns(e, m) == [content |-> <<e.title, e.body>>,
                     tokens  |-> {t \in Tuples : m[t] # "none"}]

Done(d)    == [err |-> "ok", db |-> d]
Fail(d, e) == [err |-> e,    db |-> d]

-------------------------------------------------------------------------------
(* The parent relation.                                                    *)

(* A set of events that is left by no parent link of a member.             *)
ClosedUpward(d, S) ==
  \A i \in S : d.events[i].parent \in Live(d) => d.events[i].parent \in S

(* i, its parent, its parent's parent ...: the smallest such set with i.   *)
Chain(d, i) ==
  {j \in Live(d) : \A S \in SUBSET Live(d) : i \in S /\ ClosedUpward(d, S) => j \in S}

(* No set of live events has all its parents inside itself.                *)
AcyclicTree(d) ==
  \A S \in (SUBSET Live(d)) \ {{}} : \E i \in S : d.events[i].parent \notin S

(* The events that are their own ancestors.                                *)
OnRing(d) == {i \in Live(d) : d.events[i].parent \in Live(d)
                              /\ i \in Chain(d, d.events[i].parent)}

(* The event and everything ON DELETE CASCADE takes with it.               *)
Subtree(d, i) == {j \in Live(d) : i \in Chain(d, j)}

-------------------------------------------------------------------------------
(* Add and AddMany.  An input is a record                                  *)
(*   [title, body, meta, parent, index, at]                                *)
(* meta the tuples after MergeMeta, parent a ParentID or NoParent, index a *)
(* 1-based ParentIndex or 0.                                               *)

OneAuthor(m) == \A t, u \in m : IsAuthor(t) /\ IsAuthor(u) => t = u

ValidInput(in, n) ==
  /\ in.index # 0 => in.parent = NoParent /\ in.index \in 1..n
  /\ in.title # Empty
  /\ OneAuthor(in.meta)
  /\ in.meta \cap Unfindable = {}

(* requireAcyclicParentIndexes: no set of records is its own ancestry.     *)
AcyclicIndexes(ins) ==
  \A S \in (SUBSET (1..Len(ins))) \ {{}} : \E k \in S : ins[k].index \notin S

ValidBatch(ins) == /\ \A k \in 1..Len(ins) : ValidInput(ins[k], Len(ins))
                   /\ AcyclicIndexes(ins)

(* The parent lookup of record k runs after records 1..k-1 are inserted.   *)
ParentFound(d, ins, k) ==
  ins[k].parent = NoParent \/ ins[k].parent \in Live(d) \cup (d.seq+1 .. d.seq+k-1)

(* Bug: created_at stored whatever its year.                               *)
RecordFailsUnranged(d, ins, k) == ~ParentFound(d, ins, k)

RecordFails(d, ins, k) == ~ParentFound(d, ins, k) \/ ins[k].at = BadStamp

(* Record k becomes event seq + k; its ParentIndex is applied last.        *)
NewEvent(d, in) ==
  [ parent |-> IF in.index = 0 THEN in.parent ELSE d.seq + in.index,
    title  |-> in.title, body |-> in.body, at |-> in.at ]

NewMeta(in) ==
  [t \in Tuples |-> IF t \notin in.meta THEN "none"
                    ELSE IF t \in BodyTags(in) THEN "body" ELSE "explicit"]

Inserted(d, ins) ==
  LET ids   == Live(d) \cup (d.seq+1 .. d.seq+Len(ins))
      in(i) == ins[i - d.seq]
  IN [ events |-> [i \in ids |-> IF i \in Live(d) THEN d.events[i] ELSE NewEvent(d, in(i))],
       meta   |-> [i \in ids |-> IF i \in Live(d) THEN d.meta[i] ELSE NewMeta(in(i))],
       fts    |-> [i \in ids |-> IF i \in Live(d) THEN d.fts[i]
                                 ELSE FTSColumns(in(i), NewMeta(in(i)))],
       seq    |-> d.seq + Len(ins) ]

AddMany(d, ins) ==
  LET failing == {k \in 1..Len(ins) : RecordFails(d, ins, k)} IN
  IF ~ValidBatch(ins) THEN Fail(d, "invalid")
  ELSE IF failing = {} THEN Done(Inserted(d, ins))
  ELSE IF \E k \in failing : ~ParentFound(d, ins, k) /\ \A j \in failing : k <= j
       THEN Fail(d, "not_found")
       ELSE Fail(d, "time_range")

-------------------------------------------------------------------------------
(* Operations on one event.                                                *)

RebuildFTS(d, ids) ==
  [d EXCEPT !.fts = [i \in DOMAIN d.fts |->
     IF i \in ids THEN FTSColumns(d.events[i], d.meta[i]) ELSE d.fts[i]]]

Or(new, old) == IF new = Keep THEN old ELSE new

Edited(e, title, body, at) ==
  [e EXCEPT !.title = Or(title, @), !.body = Or(body, @), !.at = Or(at, @)]

(* Bug: the old tags dropped whoever asked for them.                       *)
SyncedMetaUnfiltered(m, old, new) ==
  [t \in Tuples |-> IF t \in new THEN (IF m[t] = "none" THEN "body" ELSE m[t])
                    ELSE IF t \in old THEN "none" ELSE m[t]]

(* Bug: the new tags added, the ones the text lost left behind.            *)
SyncedMetaAdding(m, old, new) ==
  [t \in Tuples |-> IF t \in new /\ m[t] = "none" THEN "body" ELSE m[t]]

(* Update's sync: drop the body rows the new text lost, then insert its    *)
(* tags ON CONFLICT DO NOTHING.                                            *)
SyncedMeta(m, old, new) ==
  [t \in Tuples |-> IF t \in new THEN (IF m[t] = "none" THEN "body" ELSE m[t])
                    ELSE IF t \in old /\ m[t] = "body" THEN "none" ELSE m[t]]

Update(d, id, title, body, at) ==
  IF title = Keep /\ body = Keep /\ at = Keep THEN Done(d)
  ELSE IF title = Empty THEN Fail(d, "invalid")
  ELSE IF at = BadStamp THEN Fail(d, "time_range")
  ELSE IF id \notin Live(d) THEN Fail(d, "not_found")
  ELSE LET e  == d.events[id]
           e2 == Edited(e, title, body, at)
           m2 == SyncedMeta(d.meta[id], BodyTags(e), BodyTags(e2))
           d2 == [d EXCEPT !.events[id] = e2]
       IN IF title = Keep /\ body = Keep THEN Done(d2)
          ELSE Done(RebuildFTS([d2 EXCEPT !.meta[id] = m2], {id}))

(* Bug: a move checked against the new parent only, not its ancestors.     *)
ReparentUnwalked(d, id, p) ==
  IF id \notin Live(d) \/ (p # NoParent /\ p \notin Live(d)) THEN Fail(d, "not_found")
  ELSE IF p = id THEN Fail(d, "cycle") ELSE Done([d EXCEPT !.events[id].parent = p])

(* The upward walk of Reparent meets the whole chain of the new parent     *)
(* unless it stops at a root, at id, or at an event it has seen.           *)
Reparent(d, id, p) ==
  IF id \notin Live(d) THEN Fail(d, "not_found")
  ELSE IF p = id THEN Fail(d, "cycle")
  ELSE IF p # NoParent /\ p \notin Live(d) THEN Fail(d, "not_found")
  ELSE IF p # NoParent /\ id \in Chain(d, p) THEN Fail(d, "cycle")
  ELSE IF p # NoParent /\ \A j \in Chain(d, p) : d.events[j].parent # NoParent
       THEN Fail(d, "corrupt_tree")
  ELSE Done([d EXCEPT !.events[id].parent = p])

(* The database with only some of its events.                              *)
Remaining(d, rest) == [ events |-> [i \in rest |-> d.events[i]],
                        meta   |-> [i \in rest |-> d.meta[i]],
                        fts    |-> [i \in DOMAIN d.fts \cap rest |-> d.fts[i]],
                        seq    |-> d.seq ]

(* Bug: a plain rowid key, which takes up freed ids.                       *)
DeleteFreeingIds(d, id) ==
  LET rest == Live(d) \ Subtree(d, id)
  IN IF id \notin Live(d) THEN Fail(d, "not_found")
     ELSE Done([Remaining(d, rest) EXCEPT !.seq =
                  CHOOSE n \in rest \cup {0} : \A i \in rest : i <= n])

Delete(d, id) == IF id \notin Live(d) THEN Fail(d, "not_found")
                 ELSE Done(Remaining(d, Live(d) \ Subtree(d, id)))

(* Insert, or promote a row the body put there.                            *)
AddTags(d, id, tags) ==
  IF tags = {} THEN Done(d)
  ELSE IF \E t \in tags : IsAuthor(t) \/ t \in Unfindable THEN Fail(d, "invalid")
  ELSE IF id \notin Live(d) THEN Fail(d, "not_found")
  ELSE LET m2 == [t \in Tuples |-> IF t \in tags THEN "explicit" ELSE d.meta[id][t]]
       IN Done(RebuildFTS([d EXCEPT !.meta[id] = m2], {id}))

RemoveTags(d, id, tags) ==
  IF tags = {} THEN Done(d)
  ELSE IF \E t \in tags : IsAuthor(t) THEN Fail(d, "invalid")
  ELSE IF id \notin Live(d) THEN Fail(d, "not_found")
  ELSE LET m2 == [t \in Tuples |-> IF t \in tags THEN "none" ELSE d.meta[id][t]]
       IN Done(RebuildFTS([d EXCEPT !.meta[id] = m2], {id}))

-------------------------------------------------------------------------------
(* Operations on one tuple, over every event that carries it.              *)

MetaEventIDs(d, t) == {i \in DOMAIN d.meta : d.meta[i][t] # "none"}

(* Bug: the ids of the index rows taken after the statement.               *)
RewriteMetaTupleLate(d, t, rows) ==
  LET m2 == [i \in DOMAIN d.meta |-> IF i \in MetaEventIDs(d, t) THEN rows[i] ELSE d.meta[i]]
      d2 == [d EXCEPT !.meta = m2]
  IN RebuildFTS(d2, MetaEventIDs(d2, t))

(* Rewrite the rows of the events that carried t, then their index rows:   *)
(* the ids are taken before the statement runs.                            *)
RewriteMetaTuple(d, t, rows) ==
  LET ids == MetaEventIDs(d, t)
      m2  == [i \in DOMAIN d.meta |-> IF i \in ids THEN rows[i] ELSE d.meta[i]]
  IN RebuildFTS([d EXCEPT !.meta = m2], ids)

(* Bugs: the author rule checked on one side only; no shape check.         *)
RenamableSource(old, new) == new \notin Unfindable /\ (old.key = new.key \/ ~IsAuthor(old))
RenamableTarget(old, new) == new \notin Unfindable /\ (old.key = new.key \/ ~IsAuthor(new))
RenamableAnyShape(old, new) == old.key = new.key \/ (~IsAuthor(old) /\ ~IsAuthor(new))

Renamable(old, new) ==
  /\ new \notin Unfindable
  /\ old.key = new.key \/ (~IsAuthor(old) /\ ~IsAuthor(new))

(* UPDATE OR REPLACE: the renamed row wins over the one in its way.        *)
Renamed(m, old, new) ==
  [t \in Tuples |-> IF t = new THEN "explicit" ELSE IF t = old THEN "none" ELSE m[t]]

UpdateMeta(d, old, new) ==
  IF ~Renamable(old, new) THEN Fail(d, "invalid")
  ELSE Done(RewriteMetaTuple(d, old,
              [i \in MetaEventIDs(d, old) |-> Renamed(d.meta[i], old, new)]))

DeleteMeta(d, t) ==
  IF IsAuthor(t) THEN Fail(d, "invalid")
  ELSE Done(RewriteMetaTuple(d, t,
              [i \in MetaEventIDs(d, t) |-> [d.meta[i] EXCEPT ![t] = "none"]]))

===============================================================================
