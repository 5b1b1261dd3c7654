---------------------------------- MODULE Reads ----------------------------------
(***************************************************************************)
(* internal/event/query.go: a listing reads its rows from one query and    *)
(* the metadata of each batch of rows from another, on another connection. *)
(* The rows are those of the commit the first query saw; the metadata is   *)
(* whatever other processes have committed by then.                        *)
(*                                                                         *)
(* A request is a record [search, from, to, limit, reverse, ...]: the text *)
(* of -S, values of --from and --to as Clocks has them (or NoBound), -n    *)
(* and -r.  Chars spells titles, bodies, keys and values in the symbols of *)
(* Filter.                                                                 *)
(***************************************************************************)
EXTENDS JournalOps, Clocks, Filter

CONSTANTS
  BatchSize,  (* metaBatchSize.                                             *)
  Now,        (* The instant at which --from and --to are resolved.         *)
  MaxWrites,  (* Commits of others during a listing.  Bounds the model.     *)
  Chars       (* [texts, keys and values -> sequences of symbols].          *)

ASSUME BatchAssumption == BatchSize \in Nat \ {0} /\ Now \in Int /\ MaxWrites \in Nat
ASSUME CharsAssumption ==
  \A t \in Tuples : \A x \in {t.key, t.value} : Chars[x] \in Seq(Symbols(Chars[x]))

VARIABLES
  db,       (* The committed database.                                      *)
  commits,  (* What it was since the listing opened its query, in order.    *)
  cursor,   (* The query: "unopened", "open", "done" or "failed".           *)
  rows,     (* The ids it has still to give.                                *)
  batch     (* The events of the present batch still to be yielded.         *)

reading == <<db, commits, cursor, rows, batch>>

NoBound == [form |-> "none"]

-------------------------------------------------------------------------------
(* events_fts, as its tokenizer "unicode61 tokenchars '=/'" makes it: words*)
(* end at every mark but "=", and a phrase is a run of words of one text.  *)
(* A symbol is a letter in either case.  The tuples of a row are texts of  *)
(* their own here, though a phrase of several words, which takes a mark    *)
(* inside a term, may run from one into the next.                          *)

Separators == Marks \ {"="}
WordStarts(s) ==
  {i \in DOMAIN s : s[i] \notin Separators /\ (i > 1 => s[i-1] \in Separators)}
Words(s) ==
  [k \in 1..Cardinality(WordStarts(s)) |->
     LET i == CHOOSE i \in WordStarts(s) : Cardinality(WordStarts(s) \cap 1..i) = k
     IN SubSeq(s, i, EndOf(s, i, Separators))]

Begins(w, v) == Len(w) <= Len(v) /\ SubSeq(v, 1, Len(w)) = w
Says(s, phrase, prefix) ==
  LET text == Words(s) p == Words(phrase) n == Len(Words(phrase)) IN
  /\ n > 0
  /\ \E k \in 0..Len(text) - n :
       /\ \A j \in 1..n-1 : text[k+j] = p[j]
       /\ IF prefix THEN Begins(p[n], text[k+n]) ELSE text[k+n] = p[n]

Written(t) == [key |-> Chars[t.key], value |-> Chars[t.value]]

Indexed(d, i, column) ==
  IF column = "meta" THEN {Spelled(Written(t)) : t \in d.fts[i].tokens}
  ELSE {Chars[d.fts[i].content[1]] \o <<Space>> \o Chars[d.fts[i].content[2]]}

(* filterMatch.                                                            *)
Hits(d, text) ==
  LET f == FTSTerm(text) IN
  {i \in DOMAIN d.fts : \E s \in Indexed(d, i, f.column) : Says(s, f.phrase, f.prefix)}

-------------------------------------------------------------------------------
(* toListOpts and buildListQuery.                                          *)

TrimSpace(s) ==
  LET kept == {k \in DOMAIN s : s[k] # Space}
      first == CHOOSE k \in kept : \A j \in kept : k <= j
      last == CHOOSE k \in kept : \A j \in kept : j <= k
  IN IF kept = {} THEN <<>> ELSE SubSeq(s, first, last)

Tokens(q) == Tokenize(TrimSpace(q.search))
HitsOf(d, toks) ==
  [k \in DOMAIN toks |-> IF toks[k].kind = "term" THEN Hits(d, toks[k].text) ELSE {}]
Compiled(d, q) == CompileFilter(Tokens(q), HitsOf(d, Tokens(q)), Live(d))

(* Bug: the filter left to the query.                                      *)
RequestRefusedLate(q) == q.limit < 0

RequestRefused(q) == \/ q.limit < 0
                     \/ Tokens(q) # <<>> /\ Compiled(db, q) = Failed

Within(q, at) == /\ q.from # NoBound => at >= ParseBound(q.from, FALSE, Now)
                 /\ q.to # NoBound => at < ParseBound(q.to, TRUE, Now)

Found(d, q) == IF Tokens(q) = <<>> THEN Live(d) ELSE Compiled(d, q).found
Matching(d, q) == {i \in Live(d) : i \in Found(d, q) /\ Within(q, d.events[i].at)}

At(d, i) == d.events[i].at
Smaller(m, n) == IF m < n THEN m ELSE n
Kept(S, q) == IF q.limit = 0 THEN Cardinality(S) ELSE Smaller(q.limit, Cardinality(S))

(* Bug: the limit takes what the display order puts first.                 *)
SurvivesDisplayed(d, q, i, j) ==
  IF q.reverse THEN At(d, i) <= At(d, j) ELSE At(d, i) >= At(d, j)

(* i may be kept by a limit that leaves j out.                             *)
Survives(d, q, i, j) == At(d, i) >= At(d, j)

(* What the query may answer: events of one created_at come in any order,  *)
(* and any of them may be the ones a limit leaves out.                     *)
Orders(d, q, S) ==
  {ids \in [1..Kept(S, q) -> S] :
     /\ \A j, k \in DOMAIN ids : j < k =>
          /\ ids[j] # ids[k]
          /\ IF q.reverse THEN At(d, ids[j]) <= At(d, ids[k])
             ELSE At(d, ids[j]) >= At(d, ids[k])
     /\ \A j \in DOMAIN ids : \A i \in S \ Symbols(ids) : Survives(d, q, ids[j], i)}
Answers(d, q) == UNION {Orders(d, q, S) : S \in {Matching(d, q)}}

-------------------------------------------------------------------------------
(* ListSeq.                                                                *)

Unopened == commits = <<>> /\ cursor = "unopened" /\ rows = <<>> /\ batch = <<>>

OpenQuery(q) ==
  /\ cursor = "unopened"
  /\ rows' \in Answers(db, q)
  /\ cursor' = "open" /\ commits' = <<db>>
  /\ UNCHANGED <<db, batch>>

(* Bug: the metadata of the row before.                                    *)
MetaOfShifted(ids, k) ==
  LET i == ids[IF k = 1 THEN Len(ids) ELSE k - 1] IN
  IF i \in Live(db) THEN Carried(db, i) ELSE {}

(* The rows of event_meta loadMetaChunk finds for the k-th event.          *)
MetaOf(ids, k) == IF ids[k] \in Live(db) THEN Carried(db, ids[k]) ELSE {}

(* Bug: only whole batches are loaded.                                     *)
NextBatchWhole == IF Len(rows) < BatchSize THEN 0 ELSE BatchSize

NextBatch == Smaller(BatchSize, Len(rows))

LoadMeta ==
  /\ cursor = "open" /\ batch = <<>> /\ NextBatch > 0
  /\ LET ids == SubSeq(rows, 1, NextBatch) IN
       batch' = [k \in DOMAIN ids |-> [id |-> ids[k], meta |-> MetaOf(ids, k)]]
  /\ rows' = SubSeq(rows, NextBatch + 1, Len(rows))
  /\ UNCHANGED <<db, commits, cursor>>

(* A query that fails: the error is yielded and the iteration over.        *)
FailQuery ==
  /\ cursor = "open" /\ batch = <<>>
  /\ cursor' = "failed" /\ rows' = <<>>
  /\ UNCHANGED <<db, commits, batch>>

Yield ==
  /\ batch # <<>>
  /\ batch' = Tail(batch)
  /\ UNCHANGED <<db, commits, cursor, rows>>

EndOfRows ==
  /\ cursor = "open" /\ batch = <<>> /\ NextBatch = 0
  /\ cursor' = "done"
  /\ UNCHANGED <<db, commits, rows, batch>>

(* The consumer stops: rows.Close.                                         *)
StopReading ==
  /\ cursor' = "failed" /\ rows' = <<>> /\ batch' = <<>>
  /\ UNCHANGED <<db, commits>>

(* Others delete events and change their metadata.                         *)
Elsewhere ==
  /\ commits # <<>> /\ Len(commits) <= MaxWrites
  /\ \E i \in Live(db) :
       \/ db' = Delete(db, i).db
       \/ \E t \in Tuples : db' \in {AddTags(db, i, {t}).db, RemoveTags(db, i, {t}).db} \ {db}
  /\ commits' = Append(commits, db')
  /\ UNCHANGED <<cursor, rows, batch>>

===============================================================================
