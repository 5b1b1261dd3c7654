--------------------------------- MODULE Import ---------------------------------
(***************************************************************************)
(* fngr add --format=json: a batch of records, usually written by          *)
(* fngr --format=json from this journal or from another one, becomes one   *)
(* AddMany.  A record's id is that of the journal it came from; a          *)
(* parent_id is the id of another record when one has it, and an id of the *)
(* target journal otherwise.  It is one more verb beside those of Commands,*)
(* which may change the target between the export and the import.          *)
(***************************************************************************)
EXTENDS Commands

CONSTANTS
  Journals,  (* The journals that are exported and that import.             *)
  ByHand,    (* Batches written by hand.                                    *)
  FlagSets,  (* The flags of add: [parent, meta, author, at], author a set  *)
             (* of at most one tuple.                                       *)
  MaxExport, (* Records in one export.  Bounds the model.                   *)
  Meanwhile  (* The command lines that come between an export and its       *)
             (* import.  Bounds the model.                                  *)

(* The journals are ones the verbs make (Journal_proofs): no ring, every   *)
(* event with a title and at most one author, and nothing unfindable.      *)
MadeByVerbs(d) ==
  /\ IsJournal(d) /\ AcyclicTree(d) /\ Live(d) \subseteq DOMAIN d.meta
  /\ \A i \in Live(d) : /\ d.events[i].title # Empty
                         /\ OneAuthor(Carried(d, i)) /\ Carried(d, i) \cap Unfindable = {}
ASSUME JournalsAssumption == \A d \in Journals : MadeByVerbs(d)
ASSUME BatchesAssumption == /\ MaxExport \in Nat
                            /\ \A w \in ByHand : w \in Seq({w[k] : k \in DOMAIN w})
                            /\ \A m \in SUBSET Tuples : m # Keep
ASSUME FlagsAssumption == \A f \in FlagSets : f # Keep /\ \A t \in f.author : IsAuthor(t)
ASSUME MeanwhileAssumption == \A c \in Meanwhile : Typed(c)

(* A record: [id, title, body, parent, at, meta].  NoParent as an id or a  *)
(* parent, and Keep as at or meta, are fields the record leaves out.       *)

VARIABLES
  wire,      (* The records on their way, <<>> when there are none.         *)
  origin,    (* Where they were exported from: the journal as it was then,  *)
             (* and the ids in the order of the records.                    *)
  flags      (* The flags of the import once it is over, Keep until then.   *)

batch == <<wire, origin, flags>>
all == <<vars, batch>>

Unknown == [journal |-> EmptyJournal, ids |-> <<>>]

-------------------------------------------------------------------------------
(* Export.                                                                 *)

(* toJSONEvent: a root leaves parent_id out, a bare event meta.            *)
ToRecord(d, i) ==
  [ id |-> i, title |-> d.events[i].title, body |-> d.events[i].body,
    parent |-> d.events[i].parent, at |-> d.events[i].at,
    meta |-> IF Carried(d, i) = {} THEN Keep ELSE Carried(d, i) ]

(* The listings of a journal: filters choose the events, and events of one *)
(* stamp come in any order.                                                *)
Listings(d) == {ids \in UNION {[1..n -> Live(d)] : n \in 1..MaxExport} :
                  \A j, k \in DOMAIN ids : ids[j] = ids[k] => j = k}

Export(d, ids) == /\ wire = [k \in DOMAIN ids |-> ToRecord(d, ids[k])]
                  /\ origin = [journal |-> d, ids |-> ids]

(* No batch, or one written before the behaviour begins: one import.       *)
ImportInit ==
  /\ flags = Keep /\ Idle
  /\ \/ db \in Openings /\ wire = <<>> /\ origin = Unknown
     \/ db \in Journals /\ \E d \in Journals : \E ids \in Listings(d) : Export(d, ids)
     \/ db \in Journals /\ wire \in ByHand /\ origin = Unknown

-------------------------------------------------------------------------------
(* Import.                                                                 *)

(* indexBySourceID, and its error.                                         *)
RecordsWithId(w, id) == {k \in DOMAIN w : id # NoParent /\ w[k].id = id}
AmbiguousIds(w) == \E k \in DOMAIN w : Cardinality(RecordsWithId(w, w[k].id)) > 1

(* Bug: the source id carried into the target as it is.                    *)
BatchIndexNever(w, id) == 0

BatchIndex(w, id) ==
  IF RecordsWithId(w, id) = {} THEN 0 ELSE CHOOSE k \in RecordsWithId(w, id) : TRUE

(* Bug: the default author joins the record's own.                         *)
MergeMetaJoining(tags, explicit, author) == tags \cup explicit \cup author

(* Bug: the default author wins.                                           *)
MergeMetaDefault(tags, explicit, author) ==
  tags \cup author \cup {t \in explicit : author = {} \/ ~IsAuthor(t)}

(* An author the record names replaces the default one.                    *)
MergeMeta(tags, explicit, author) ==
  tags \cup explicit \cup (IF \E t \in explicit : IsAuthor(t) THEN {} ELSE author)

(* jsonInputToAddInput.                                                    *)
ToAddInput(w, r, f) ==
  LET index == BatchIndex(w, r.parent) IN
  [ title |-> r.title, body |-> r.body, at |-> Or(r.at, f.at),
    meta |-> MergeMeta(BodyTags(r), Or(r.meta, f.meta), f.author),
    index |-> index,
    parent |-> IF r.parent = NoParent THEN f.parent
               ELSE IF index = 0 THEN r.parent ELSE NoParent ]

RecordRefused(in) ==
  in.title = Empty \/ ~OneAuthor(in.meta) \/ ~\E t \in in.meta : IsAuthor(t)

(* runJSON: the whole batch or nothing.                                    *)
Imported(d, w, f) ==
  LET ins == [k \in DOMAIN w |-> ToAddInput(w, w[k], f)] IN
  IF AmbiguousIds(w) \/ \E k \in DOMAIN w : RecordRefused(ins[k])
  THEN Fail(d, "invalid")
  ELSE AddMany(d, ins)

Import(f) ==
  /\ wire # <<>> /\ flags = Keep /\ db.seq + Len(wire) <= MaxId
  /\ \A p \in Procs : pc[p] = "idle"
  /\ db' = Imported(db, wire, f).db
  /\ flags' = f
  /\ UNCHANGED <<pc, line, subject, stamp, answer, wire, origin>>

(* Other verbs, on any journal and on the target of an import.             *)
Elsewhere ==
  /\ flags = Keep
  /\ Steps(IF wire = <<>> THEN Lines ELSE Meanwhile)
  /\ UNCHANGED batch

ImportNext == (\E f \in FlagSets : Import(f)) \/ Elsewhere

VerbsSpec == ImportInit /\ [][ImportNext]_all

-------------------------------------------------------------------------------
(* The event record k became.                                              *)
Loads == flags = Keep /\ flags' # Keep
Accepted == Loads /\ db' # db
New(k) == db'.events[db.seq + k]

(* A parent_id that some record's id answers leads to that record's event, *)
(* in either direction and whatever events of the target have those ids;   *)
(* any other leads to the event of the target it names.                    *)
ParentsAsNamed ==
  [][Accepted => \A k \in DOMAIN wire :
       LET named == {j \in DOMAIN wire : wire[j].id = wire[k].parent} IN
       IF wire[k].parent = NoParent THEN New(k).parent = flags'.parent
       ELSE IF named = {} THEN New(k).parent = wire[k].parent
       ELSE \A j \in named : New(k).parent = db.seq + j]_all

(* An export that was not cut off from its parents can always be imported, *)
(* whatever happened to the target since and whatever the flags say, as    *)
(* long as every event has an author and --parent names an event.          *)
WholeExport ==
  /\ origin # Unknown
  /\ \A k \in DOMAIN wire : /\ \E t \in Carried(origin.journal, origin.ids[k]) : IsAuthor(t)
                            /\ wire[k].parent \in {NoParent} \cup {wire[j].id : j \in DOMAIN wire}
ExportsImport ==
  [][Loads /\ WholeExport /\ flags'.parent \in Live(db) \cup {NoParent} => Accepted]_all

(* The copy of an event carries what the event carried, author included,   *)
(* besides the tags of its own text, and a tuple no text mentions stays    *)
(* the operator's.                                                         *)
CopiesKeepMetadata ==
  [][Accepted /\ origin # Unknown => \A k \in DOMAIN wire :
       LET old == Carried(origin.journal, origin.ids[k])
           tags == BodyTags(origin.journal.events[origin.ids[k]])
           copy == db'.meta[db.seq + k]
           authored == \E t \in old : IsAuthor(t)
       IN /\ old # {} => \A t \in Tuples \ (old \cup tags) :
                          copy[t] # "none" => IsAuthor(t) /\ ~authored
          /\ \A t \in old \ tags : copy[t] = "explicit"
          /\ \A t \in tags : copy[t] = "body"]_all

===============================================================================
