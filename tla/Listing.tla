--------------------------------- MODULE Listing ---------------------------------
(***************************************************************************)
(* cmd/fngr/list.go over the stores it joins: the rows of Reads are        *)
(* rendered one at a time into the buffered output of Terminal, with a     *)
(* pager in between or without.  The requests of both modules are one      *)
(* record, with the fields format and paged besides those of Reads.        *)
(*                                                                         *)
(* An event is one item, [what, id, meta].  Where in the tree view it is   *)
(* drawn is the subject of Walks.                                          *)
(***************************************************************************)
EXTENDS Reads, Terminal

CONSTANT Openings  (* The journals a run may find.                          *)

ASSUME OpeningsAssumption ==
  \A d \in Openings :
    /\ Live(d) \subseteq Ids /\ DOMAIN d.fts = Live(d)
    /\ \A i \in Live(d) : At(d, i) \in Int /\ d.fts[i] = FTSColumns(d.events[i], d.meta[i])
ASSUME RequestAssumption ==
  \A j \in Jobs : j.kind = "list" =>
    /\ j.limit \in Int /\ j.search \in Seq(Symbols(j.search))
    /\ {j.from, j.to} \subseteq
         {NoBound} \cup [form : Forms, day : Int, hour : Int, ago : Int]

VARIABLE got  (* The events the tree view has collected and not yet drawn.  *)

vars == <<terminal, reading, got>>

Init == /\ db \in Openings /\ Unopened /\ TerminalInit /\ got = {}

Listed(e) == [what |-> "event", id |-> e.id, meta |-> e.meta]

Outside == <<sink, editor, screen, code>>

-------------------------------------------------------------------------------

(* toListOpts, before anything is started.                                 *)
Refuse == /\ Here("start") /\ job.kind = "list" /\ RequestRefused(job)
          /\ err' = TRUE /\ Goto("returning")
          /\ UNCHANGED <<job, stream, Outside, pager, reading, got>>

(* A pager that cannot be started is done without.                         *)
Start == /\ Here("start") /\ job.kind = "list" /\ ~RequestRefused(job)
         /\ \/ job.paged /\ StartPager
            \/ UNCHANGED <<out, pipe, pager>>
         /\ Goto(IF job.format = "csv" THEN "header" ELSE "query")
         /\ UNCHANGED <<job, err, said, Outside, reading, got>>

Header == /\ Here("header") /\ Say(Item("header"), "query")
          /\ UNCHANGED <<job, err, pipe, pager, Outside, reading, got>>

(* buildListQuery compiles the filter once more.                           *)
Query == /\ Here("query") /\ ~RequestRefused(job)
         /\ OpenQuery(job) /\ Goto("rows")
         /\ UNCHANGED <<job, err, stream, pager, Outside, got>>

Load == /\ Here("rows") /\ LoadMeta
        /\ UNCHANGED <<terminal, got>>

Write == /\ Here("rows") /\ job.format # "tree"
         /\ Yield /\ Say(Listed(Head(batch)), "rows")
         /\ UNCHANGED <<job, err, pipe, pager, Outside, got>>

(* The tree view has to see every row before it can draw a line.           *)
Collect == /\ Here("rows") /\ job.format = "tree"
           /\ Yield /\ got' = got \cup {Listed(Head(batch))}
           /\ UNCHANGED terminal
Draw == /\ Here("drawing") /\ \E e \in got : got' = got \ {e} /\ Say(e, "drawing")
        /\ UNCHANGED <<job, err, pipe, pager, Outside, reading>>

(* Bug: an array that a failed read leaves open.                           *)
AfterReadErrorOpen == "finish"

(* JSONStream closes its array whatever ended the rows.                    *)
AfterReadError == IF job.format = "json" THEN "tail" ELSE "finish"

AfterRows == CASE job.format = "json" -> "tail"
               [] job.format = "tree" -> "drawing"
               [] OTHER -> "finish"

ReadFails == /\ \/ Here("rows") /\ job \in Stirred /\ FailQuery
                \/ Here("query") /\ RequestRefused(job) /\ StopReading
                \/ Here("query") /\ job \in Stirred /\ StopReading
             /\ err' = TRUE /\ Goto(AfterReadError)
             /\ UNCHANGED <<job, stream, pager, Outside, got>>

RowsEnd == /\ Here("rows") /\ EndOfRows /\ Goto(AfterRows)
           /\ UNCHANGED <<job, err, stream, pager, Outside, got>>

Drawn == /\ Here("drawing") /\ got = {} /\ Goto("finish")
         /\ UNCHANGED <<job, err, stream, pager, Outside, reading, got>>

CloseArray == /\ Here("tail") /\ Say(Item("tail"), "finish")
              /\ UNCHANGED <<job, err, pipe, pager, Outside, reading, got>>

(* A renderer whose write fails returns the error and stops the query.     *)
WriteFails == /\ out.failed
              /\ \/ Here("header") \/ Here("tail")
                 \/ Here("drawing") /\ got # {}
                 \/ Here("rows") /\ batch # <<>> /\ job.format # "tree"
              /\ StopReading /\ got' = {}
              /\ err' = TRUE /\ Goto("finish")
              /\ UNCHANGED <<job, stream, pager, Outside>>

(* ListCmd.Run's deferred closer, when there is a pager.                   *)
Finish == /\ Here("finish")
          /\ IF out.dest = "pager" THEN out' = Flushing(out) /\ Goto("closing")
             ELSE Goto("returning") /\ UNCHANGED out
          /\ UNCHANGED <<job, err, pipe, said, pager, Outside, reading, got>>

List == \/ Refuse \/ Start \/ Header \/ Query \/ Load \/ Write \/ Collect \/ Draw
        \/ ReadFails \/ RowsEnd \/ Drawn \/ CloseArray \/ WriteFails \/ Finish

Others == job \in Stirred /\ job.kind = "list" /\ pc # "over" /\ Elsewhere
          /\ UNCHANGED <<terminal, got>>

Run == List \/ (Process /\ UNCHANGED <<reading, got>>)
Reader == Pager /\ UNCHANGED <<reading, got>>

Next == Run \/ Reader \/ Others \/ (World /\ UNCHANGED <<reading, got>>)

Spec == Init /\ [][Next]_vars

(* The process and its pager are scheduled; their user answers, leaves the *)
(* editor, and reads on or quits.  Stated of the stirred runs alone, which *)
(* bounds what TLC has to look at.                                         *)
FairSpec == /\ Spec
            /\ WF_vars(job \in Stirred /\ Run) /\ WF_vars(job \in Stirred /\ Reader)

-------------------------------------------------------------------------------

Told == {k \in DOMAIN said : said[k].what = "event"}
ToldIds == {said[k].id : k \in Told}
Ended == pc = "over" /\ code = "ok" /\ job.kind = "list"
Unbounded(q) == q.from = NoBound /\ q.to = NoBound
Asked == commits[1]

(* -S selects what its expression means by the precedence filter.go states *)
(* ("`!` binds tighter than `&`, which binds tighter than `|`"), whatever  *)
(* the order of the operands.                                              *)
SelectsAsMeant ==
  Ended /\ job.limit = 0 /\ Unbounded(job) /\ Tokens(job) # <<>> =>
    ToldIds = Meaning(Tokens(job), HitsOf(Asked, Tokens(job)), Live(Asked))

(* An expression that does not fit the grammar, like a limit below 0, is   *)
(* refused before a pager is started or a byte written ("Validate before   *)
(* spawning a pager"), and no other listing fails by itself.               *)
RefusedBeforeOutput ==
  LET bad == job.limit < 0 \/ (Tokens(job) # <<>> /\ ~WellFormed(Tokens(job))) IN
  job.kind = "list" =>
    /\ bad => said = <<>> /\ pager = "none" /\ cursor = "unopened" /\ code # "ok"
    /\ ~bad /\ pc = "over" /\ job \notin Stirred /\ pager # "quit" => code = "ok"

(* A limit keeps the newest of what matches, whichever end -r shows first. *)
KeepsNewest ==
  Ended /\ job.limit > 0 =>
    /\ Cardinality(ToldIds) = Smaller(job.limit, Cardinality(Matching(Asked, job)))
    /\ \A i \in ToldIds, j \in Matching(Asked, job) \ ToldIds : At(Asked, j) <= At(Asked, i)

(* --from and --to are inclusive of all the user named: the whole of a     *)
(* day, long or short as the clocks make it, or the one moment.            *)
NamedDay(v) == IF v.form = "date" THEN v.day ELSE Day(Shown(Now)) - v.ago
NotBefore(t, v) == IF HasTime(v) THEN t >= ParsePartial(v, Now).t
                   ELSE Day(Shown(t)) >= NamedDay(v)
NotAfter(t, v) == IF HasTime(v) THEN t <= ParsePartial(v, Now).t
                  ELSE Day(Shown(t)) <= NamedDay(v)
RangeInclusive ==
  Ended /\ job.limit = 0 /\ Tokens(job) = <<>> =>
    ToldIds = {i \in Live(Asked) :
      /\ job.from # NoBound => NotBefore(At(Asked, i), job.from)
      /\ job.to # NoBound => NotAfter(At(Asked, i), job.to)}

(* A listing that succeeds shows every row of its query, once: no event is *)
(* lost or doubled where a batch of metadata ends.                         *)
EachOnce ==
  Ended => /\ Cardinality(Told) = Cardinality(ToldIds)
           /\ Cardinality(ToldIds) = Kept(Matching(Asked, job), job)

(* An event is listed with the metadata it had at one commit since the     *)
(* listing began, never with another event's or with parts of two edits.   *)
MetaOfOneCommit ==
  \A k \in Told : \E c \in DOMAIN commits :
    said[k].meta = IF said[k].id \in Live(commits[c])
                   THEN Carried(commits[c], said[k].id) ELSE {}

(* What a JSON listing leaves behind is one closed array, a failed read    *)
(* included (JSONStream); only output that cannot be written is cut off.   *)
Framed ==
  job.kind = "list" /\ code \in {"ok", "error"} /\ ~RequestRefused(job)
    /\ job.format = "json" /\ sink = "ok" /\ pager # "quit" =>
      \E n \in DOMAIN said : said[n] = Item("tail") /\ n = Len(said)
                             /\ \A k \in 1..n-1 : said[k].what = "event"

(* ValidateMeta refuses "a key/value pair fngr can store but not find      *)
(* again": what it lets through, -S finds by as much of it as is one term  *)
(* ("key=firstword is enough to reach the row").                           *)
Typed(t) == LET s == Spelled(Written(t)) IN SubSeq(s, 1, EndOf(s, 1, Delims))
AskedFor(t) == /\ pc = "over" /\ job \notin Stirred /\ pager # "quit"
               /\ job.kind = "list" /\ job.limit = 0 /\ Unbounded(job)
               /\ ValidateMeta(Written(t)) /\ job.search = Typed(t)
Carrying(t) == {i \in Live(db) : t \in Carried(db, i)}
StorableIsFound == \A t \in Tuples : AskedFor(t) => Carrying(t) \subseteq ToldIds

(* The same but for keys that open with a sigil or "="; and no text of an  *)
(* event's own writes it into such a view: it has a tuple that says what   *)
(* was typed as one of its words (ftsTerm).  Typed words with a mark in    *)
(* them are excepted there, as FTS5 drops the mark.                        *)
SaysWord(u, w) ==
  LET s == Spelled(Written(u)) IN
  \E i \in WordStarts(s) : SubSeq(s, i, EndOf(s, i, Separators)) = w
TagViewsExact ==
  \A t \in Tuples : AskedFor(t) /\ ~Opens(Chars[t.key], {"#", "@", "="}) =>
    /\ Carrying(t) \subseteq ToldIds
    /\ Symbols(Typed(t)) \cap Separators = {} =>
         \A i \in ToldIds : \E u \in Carried(db, i) : SaysWord(u, Typed(t))

===============================================================================
