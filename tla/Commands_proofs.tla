---------------------------- MODULE Commands_proofs ----------------------------
(***************************************************************************)
(* What the verbs promise, for any journals, command lines, batches and    *)
(* clocks: some of it for any number of processes, some for one alone.     *)
(***************************************************************************)
EXTENDS Import, Text_proofs

-------------------------------------------------------------------------------
(* The events table, as far as the verbs rely on it.                       *)

Row == [parent : Nat, title : Texts, body : Texts, at : Stamps]

Rows(d) == /\ d = [events |-> d.events, meta |-> d.meta, fts |-> d.fts, seq |-> d.seq]
           /\ d.seq \in Nat /\ Live(d) \subseteq 1..d.seq
           /\ d.events \in [Live(d) -> Row]

LEMMA JournalRows == ASSUME NEW d, IsJournal(d) PROVE Rows(d)
<1>1. EventRow \subseteq Row  BY MaxIdAssumption DEF EventRow, Row, Ids, NoParent
<1>2. d.seq \in Nat  BY MaxIdAssumption DEF IsJournal
<1> QED  BY <1>1, <1>2 DEF IsJournal, Rows, Live

LEMMA NoParentNotLive == ASSUME NEW d, Rows(d) PROVE NoParent \notin Live(d)
BY DEF Rows, NoParent

LEMMA DeleteIs ==
  ASSUME NEW d, Rows(d), NEW id
  PROVE  LET e == Delete(d, id).db IN
         \/ e = d
         \/ /\ id \in Live(d) /\ Live(e) = Live(d) \ Subtree(d, id) /\ Rows(e)
            /\ \A i \in Live(e) : e.events[i] = d.events[i]
<1> DEFINE rest == Live(d) \ Subtree(d, id)
           e == Delete(d, id).db
<1>1. CASE id \notin Live(d)  BY <1>1 DEF Delete, Fail
<1>2. CASE id \in Live(d)
  <2>1. e = [ events |-> [i \in rest |-> d.events[i]], meta |-> [i \in rest |-> d.meta[i]],
              fts |-> [i \in DOMAIN d.fts \cap rest |-> d.fts[i]], seq |-> d.seq ]
    BY <1>2 DEF Delete, Done, Remaining
  <2> HIDE DEF e
  <2>2. Live(e) = rest /\ \A i \in rest : e.events[i] = d.events[i]  BY <2>1 DEF Live
  <2>3. Rows(e)  BY <2>1, <2>2 DEF Rows, Live
  <2> QED  BY <1>2, <2>2, <2>3 DEF e
<1> QED  BY <1>1, <1>2

LEMMA RetagIs ==
  ASSUME NEW d, Rows(d), NEW t, NEW rows
  PROVE  LET e == RewriteMetaTuple(d, t, rows) IN e.events = d.events /\ Rows(e)
<1> DEFINE ids == MetaEventIDs(d, t)
           m == [i \in DOMAIN d.meta |-> IF i \in ids THEN rows[i] ELSE d.meta[i]]
           e == RewriteMetaTuple(d, t, rows)
<1>1. e = RebuildFTS([d EXCEPT !.meta = m], ids)  BY DEF RewriteMetaTuple
<1> HIDE DEF m, ids
<1>2. [d EXCEPT !.meta = m] = [events |-> d.events, meta |-> m, fts |-> d.fts, seq |-> d.seq]
  BY DEF Rows
<1>3. /\ e.events = d.events /\ e.seq = d.seq
      /\ e = [events |-> e.events, meta |-> e.meta, fts |-> e.fts, seq |-> e.seq]
  BY <1>1, <1>2, RebuildIs
<1> QED  BY <1>3 DEF Rows, Live

LEMMA UpdateIs ==
  ASSUME NEW d, Rows(d), NEW id, NEW at \in Stamps \cup {BadStamp}
  PROVE  LET e == Update(d, id, Keep, Keep, at).db IN
         \/ e = d
         \/ /\ id \in Live(d) /\ at \in Stamps /\ Live(e) = Live(d) /\ Rows(e)
            /\ e.events[id].at = at /\ e.events[id].parent = d.events[id].parent
            /\ \A i \in Live(d) \ {id} : e.events[i] = d.events[i]
<1> DEFINE e == Update(d, id, Keep, Keep, at).db
           r == [d.events[id] EXCEPT !.at = at]
<1>1. at # Keep  BY StampAssumption
<1>2. CASE e = d  BY <1>2
<1>3. CASE /\ id \in Live(d) /\ at \in Stamps
           /\ e = [d EXCEPT !.events[id] = Edited(@, Keep, Keep, at)]
  <2>1. d.events[id] \in Row  BY <1>3 DEF Rows
  <2>2. Edited(d.events[id], Keep, Keep, at) = r
    BY <1>1, <2>1 DEF Edited, Or, Row
  <2>3. r \in Row /\ r.at = at /\ r.parent = d.events[id].parent  BY <1>3, <2>1 DEF Row
  <2>4. e = [events |-> [d.events EXCEPT ![id] = r], meta |-> d.meta,
             fts |-> d.fts, seq |-> d.seq]
    BY <1>3, <2>2 DEF Rows
  <2> HIDE DEF e, r
  <2>5. /\ Live(e) = Live(d) /\ e.events[id] = r /\ e.events \in [Live(d) -> Row]
        /\ \A i \in Live(d) \ {id} : e.events[i] = d.events[i]
    BY <1>3, <2>3, <2>4 DEF Rows, Live
  <2>6. Rows(e)  BY <2>4, <2>5 DEF Rows
  <2> QED  BY <1>3, <2>3, <2>5, <2>6 DEF e
<1>4. e = d \/ (id \in Live(d) /\ at \in Stamps
                /\ e = [d EXCEPT !.events[id] = Edited(@, Keep, Keep, at)])
  BY <1>1, TextAssumption DEF Update, Done, Fail
<1> QED  BY <1>2, <1>3, <1>4

LEMMA MoveIs ==
  ASSUME NEW d, Rows(d), NEW id, NEW p
  PROVE  LET e == Reparent(d, id, p).db IN
         \/ e = d /\ (p = NoParent => id \notin Live(d))
         \/ /\ id \in Live(d) /\ Live(e) = Live(d) /\ Rows(e)
            /\ \A i \in Live(d) : e.events[i].at = d.events[i].at
            /\ e.events[id].parent = p
            /\ \A i \in Live(d) \ {id} : e.events[i].parent = d.events[i].parent
<1> DEFINE e == Reparent(d, id, p).db
           r == [d.events[id] EXCEPT !.parent = p]
<1>1. CASE e = d /\ (p = NoParent => id \notin Live(d))  BY <1>1
<1>2. CASE /\ id \in Live(d) /\ p \in Live(d) \cup {NoParent}
           /\ e = [d EXCEPT !.events[id].parent = p]
  <2>1. d.events[id] \in Row /\ p \in Nat  BY <1>2 DEF Rows, NoParent
  <2>2. r \in Row /\ r.at = d.events[id].at /\ r.parent = p  BY <2>1 DEF Row
  <2>3. e = [events |-> [d.events EXCEPT ![id] = r], meta |-> d.meta,
             fts |-> d.fts, seq |-> d.seq]
    BY <1>2 DEF Rows
  <2> HIDE DEF e, r
  <2>4. /\ Live(e) = Live(d) /\ e.events[id] = r /\ e.events \in [Live(d) -> Row]
        /\ \A i \in Live(d) \ {id} : e.events[i] = d.events[i]
    BY <1>2, <2>2, <2>3 DEF Rows, Live
  <2>5. Rows(e)  BY <2>3, <2>4 DEF Rows
  <2> QED  BY <1>2, <2>2, <2>4, <2>5 DEF e
<1>3. \/ e = d /\ (p = NoParent => id \notin Live(d))
      \/ /\ id \in Live(d) /\ p \in Live(d) \cup {NoParent}
         /\ e = [d EXCEPT !.events[id].parent = p]
  BY NoParentNotLive DEF Reparent, Done, Fail
<1> QED  BY <1>1, <1>2, <1>3

LEMMA AddedIs ==
  ASSUME Rows(db), NEW c, NEW at \in Stamps \cup {BadStamp}
  PROVE  LET e == Added(c, at).db IN
         \/ e = db
         \/ /\ Live(e) = Live(db) \cup {db.seq + 1} /\ Rows(e)
            /\ e.events[db.seq + 1].at = at
            /\ \A i \in Live(db) : e.events[i] = db.events[i]
<1> DEFINE title == CHOOSE x \in Texts : x # Empty
           in == [title |-> title, body |-> Empty, meta |-> {},
                  parent |-> c.parent, index |-> 0, at |-> at]
           e == Added(c, at).db  n == db.seq + 1
<1>1. title \in Texts /\ Empty \in Texts  BY TitleAssumption, TextAssumption
<1> HIDE DEF title
<1>2. Len(<<in>>) = 1 /\ <<in>>[1] = in  OBVIOUS
<1>3. e = AddMany(db, <<in>>).db  BY DEF Added, title
<1>4. CASE e = db  BY <1>4
<1>5. CASE e = Inserted(db, <<in>>) /\ ~RecordFails(db, <<in>>, 1)
  <2>1. db.seq \in Nat /\ n \in Nat /\ n \notin Live(db) /\ db.seq+1..db.seq+1 = {n}
    BY DEF Rows
  <2>2. NewEvent(db, in) \in Row /\ NewEvent(db, in).at = at
    <3>1. at \in Stamps /\ (c.parent = NoParent \/ c.parent \in Live(db) \cup (db.seq+1..db.seq+1-1))
      BY <1>2, <1>5 DEF RecordFails, ParentFound
    <3>2. c.parent \in Nat  BY <2>1, <3>1 DEF Rows, NoParent
    <3> QED  BY <1>1, <3>1, <3>2 DEF NewEvent, Row
  <2>3. /\ e = [events |-> e.events, meta |-> e.meta, fts |-> e.fts, seq |-> n]
        /\ e.events = [i \in Live(db) \cup {n} |->
                         IF i \in Live(db) THEN db.events[i]
                         ELSE NewEvent(db, <<in>>[i - db.seq])]
    BY <1>2, <1>5, <2>1 DEF Inserted
  <2> HIDE DEF e, in
  <2>4. n - db.seq = 1  BY <2>1 DEF n
  <2>5. e.events[n] = NewEvent(db, in)  BY <1>2, <2>1, <2>3, <2>4
  <2>6. Live(e) = Live(db) \cup {n} /\ \A i \in Live(db) : e.events[i] = db.events[i]
    BY <2>3 DEF Live
  <2>7. e.events \in [Live(e) -> Row]
    <3>1. \A i \in Live(e) : e.events[i] \in Row  BY <2>2, <2>5, <2>6 DEF Rows
    <3>2. e.events = [i \in Live(e) |-> e.events[i]]  BY <2>3 DEF Live
    <3> QED  BY <3>1, <3>2
  <2>8. Rows(e)
    <3>1. e.seq = n  BY <2>3
    <3>2. Live(e) \subseteq 1..n  BY <2>1, <2>6 DEF Rows
    <3> QED  BY <2>1, <2>3, <2>7, <3>1, <3>2 DEF Rows
  <2> QED  BY <2>2, <2>5, <2>6, <2>8 DEF e
<1>6. e = db \/ (e = Inserted(db, <<in>>) /\ ~RecordFails(db, <<in>>, 1))
  BY <1>2, <1>3 DEF AddMany, Done, Fail
<1> QED  BY <1>4, <1>5, <1>6

-------------------------------------------------------------------------------
(* The processes.                                                          *)

Places == {"idle", "reading", "probing", "counting", "asking", "acting"}

FrameInv ==
  /\ pc \in [Procs -> Places]
  /\ DOMAIN line = Procs /\ DOMAIN subject = Procs
  /\ DOMAIN stamp = Procs /\ DOMAIN answer = Procs
  /\ \A p \in Procs : pc[p] # "idle" => line[p] \in Lines \cup Meanwhile

(* One process takes one step of its verb.                                 *)
Step(p) == \/ \E c \in Lines \cup Meanwhile : Start(p, c)
           \/ GetSubject(p)  \/ ProbeChildren(p) \/ CountDamage(p)
           \/ RefuseParent(p) \/ CountOccurrences(p)
           \/ ReadParent(p)  \/ NothingToDetach(p) \/ NothingThere(p)
           \/ \E now \in Nows : ReadStamp(p, now) \/ RefuseStamp(p, now)
           \/ \E a \in Answers : Ask(p, a) \/ Abort(p, a)
           \/ Act(p)

Same(p) == /\ pc'[p] = pc[p] /\ line'[p] = line[p] /\ subject'[p] = subject[p]
           /\ stamp'[p] = stamp[p] /\ answer'[p] = answer[p]

LEMMA StepOf ==
  ASSUME [ImportNext]_all
  PROVE  \/ flags = Keep /\ UNCHANGED batch /\ \E p \in Procs : Step(p)
         \/ \E f \in FlagSets : Import(f)
         \/ UNCHANGED all
BY DEF ImportNext, Elsewhere, Steps, Step

(* Where a process may go from where it is, and which steps go there.      *)
LEMMA StepIs ==
  ASSUME FrameInv, NEW p \in Procs, Step(p)
  PROVE  /\ FrameInv'
         /\ \A q \in Procs \ {p} : Same(q)
         /\ \/ /\ pc[p] = "idle" /\ pc'[p] = "reading" /\ db' = db
            \/ /\ pc'[p] = "idle" /\ pc[p] # "acting" /\ db' = db
            \/ /\ pc'[p] = "idle" /\ pc[p] = "acting" /\ db' = Written(p).db
            \/ /\ pc[p] # "idle" /\ line'[p] = line[p] /\ db' = db
               /\ \/ GetSubject(p) \/ ProbeChildren(p) \/ CountDamage(p)
                  \/ CountOccurrences(p) \/ ReadParent(p)
                  \/ (\E now \in Nows : ReadStamp(p, now)) \/ (\E a \in Answers : Ask(p, a))
<1>1. CASE \E c \in Lines \cup Meanwhile : Start(p, c)
  BY <1>1 DEF Start, Goto, FrameInv, Same, Places
<1>2. CASE RefuseParent(p) \/ NothingToDetach(p) \/ NothingThere(p)
           \/ (\E now \in Nows : RefuseStamp(p, now)) \/ (\E a \in Answers : Abort(p, a))
  BY <1>2 DEF RefuseParent, NothingToDetach, NothingThere, RefuseStamp, Abort, Return, Goto,
              FrameInv, Same, Places
<1>3. CASE Act(p)
  <2> HIDE DEF Written
  <2> QED  BY <1>3 DEF Act, Return, Goto, FrameInv, Same, Places
<1>4. CASE GetSubject(p) \/ ProbeChildren(p) \/ CountDamage(p) \/ CountOccurrences(p) \/ ReadParent(p)
  BY <1>4 DEF GetSubject, ProbeChildren, CountDamage, CountOccurrences, ReadParent, Goto,
              FrameInv, Same, Places
<1>5. CASE \E now \in Nows : ReadStamp(p, now)
  BY <1>5 DEF ReadStamp, Goto, FrameInv, Same, Places
<1>6. CASE \E a \in Answers : Ask(p, a)
  BY <1>6 DEF Ask, Goto, FrameInv, Same, Places
<1> QED  BY <1>1, <1>2, <1>3, <1>4, <1>5, <1>6 DEF Step

LEMMA FrameInit == ImportInit => FrameInv
BY DEF ImportInit, Idle, FrameInv, Places

LEMMA FrameStep == FrameInv /\ [ImportNext]_all => FrameInv'
<1> SUFFICES ASSUME FrameInv, [ImportNext]_all PROVE FrameInv'  OBVIOUS
<1>1. CASE \E p \in Procs : Step(p)  BY <1>1, StepIs
<1>2. CASE (\E f \in FlagSets : Import(f)) \/ UNCHANGED all
  BY <1>2 DEF Import, FrameInv, all, vars
<1> QED  BY <1>1, <1>2, StepOf

(* Whoever ends its verb with a write is the one that steps.               *)
LEMMA WhoActs ==
  ASSUME FrameInv, [ImportNext]_all, NEW p \in Procs, NEW verb, Acts(p, verb)
  PROVE  /\ db' = Written(p).db /\ line[p].verb = verb /\ pc[p] = "acting"
         /\ flags = Keep /\ UNCHANGED batch
<1>1. CASE (\E f \in FlagSets : Import(f)) \/ UNCHANGED all
  BY <1>1 DEF Import, Acts, all, vars
<1>2. ASSUME NEW q \in Procs, Step(q)
      PROVE  db' = Written(p).db /\ line[p].verb = verb /\ pc[p] = "acting"
  <2>1. pc[p] = "acting" /\ pc'[p] = "idle" /\ line[p].verb = verb  BY DEF Acts
  <2>2. p = q  BY <1>2, <2>1, StepIs DEF Same
  <2>3. pc[p] # "acting" \/ db' = Written(p).db
    <3>1. ~(GetSubject(p) \/ ProbeChildren(p) \/ CountDamage(p)
            \/ CountOccurrences(p) \/ ReadParent(p)
            \/ (\E now \in Nows : ReadStamp(p, now)) \/ (\E a \in Answers : Ask(p, a)))
      BY <2>1 DEF GetSubject, ProbeChildren, CountDamage, CountOccurrences, ReadParent,
                  ReadStamp, Ask, Goto
    <3> HIDE DEF Written
    <3> QED  BY <1>2, <2>1, <2>2, <3>1, StepIs
  <2> QED  BY <2>1, <2>3
<1> QED  BY <1>1, <1>2, StepOf

-------------------------------------------------------------------------------
(* Consent.                                                                *)

ConsentInv ==
  \A p \in Procs : pc[p] = "acting" /\ line[p].verb \in Prompting => Consented(p)

LEMMA ConsentStep == FrameInv /\ ConsentInv /\ [ImportNext]_all => ConsentInv'
<1> SUFFICES ASSUME FrameInv, ConsentInv, [ImportNext]_all PROVE ConsentInv'  OBVIOUS
<1>1. CASE (\E f \in FlagSets : Import(f)) \/ UNCHANGED all
  BY <1>1 DEF Import, ConsentInv, Consented, all, vars
<1>2. ASSUME NEW p \in Procs, Step(p), NEW q \in Procs,
             pc'[q] = "acting", line'[q].verb \in Prompting
      PROVE  Consented(q)'
  <2>1. CASE q # p
    <3>1. Same(q)  BY <1>2, <2>1, StepIs
    <3> QED  BY <1>2, <3>1 DEF Same, ConsentInv, Consented
  <2>2. CASE q = p /\ \E a \in Answers : Ask(p, a)
    <3>1. PICK a \in Answers : Ask(p, a)  BY <2>2
    <3>2. /\ line' = line /\ answer'[p] = IF line[p].force THEN "none" ELSE a
          /\ line[p].force \/ Confirmed(a, DefaultYes(line[p]))
      BY <3>1 DEF Ask, FrameInv
    <3> QED  BY <2>2, <3>2 DEF Confirmed, DefaultYes, Consented
  <2>3. CASE q = p /\ (ReadParent(p) \/ \E now \in Nows : ReadStamp(p, now))
    BY <1>2, <2>3 DEF ReadParent, ReadStamp, Moving, Stamping, Prompting
  <2>4. ~(GetSubject(p) \/ ProbeChildren(p) \/ CountDamage(p) \/ CountOccurrences(p)) \/ q # p
    BY <1>2 DEF GetSubject, ProbeChildren, CountDamage, CountOccurrences, Goto, FrameInv
  <2> QED  BY <1>2, <2>1, <2>2, <2>3, <2>4, StepIs
<1> QED  BY <1>1, <1>2, StepOf DEF ConsentInv

(* Nobody's events, tags or keys are deleted or renamed without --force, a *)
(* yes, or Enter at a [Y/n]: not when the input ends, and not through the  *)
(* other ways a verb has to its write (confirm, deleteSubject).            *)
THEOREM ConsentAlways == VerbsSpec => ConsentRequired
<1>1. ImportInit => FrameInv /\ ConsentInv
  BY FrameInit DEF ConsentInv, ImportInit, Idle
<1>2. FrameInv /\ ConsentInv /\ [ImportNext]_all => FrameInv' /\ ConsentInv'
  BY FrameStep, ConsentStep
<1>3. FrameInv /\ ConsentInv /\ [ImportNext]_all =>
        [\A p \in Procs, v \in Prompting : Acts(p, v) /\ db' # db => Consented(p)]_vars
  BY WhoActs DEF ConsentInv
<1> QED  BY <1>1, <1>2, <1>3, PTL DEF VerbsSpec, ConsentRequired

-------------------------------------------------------------------------------
(* The events table through every step but the import, after which nothing *)
(* happens any more.                                                       *)

RowsInv == flags = Keep => Rows(db)

LEMMA WrittenIs ==
  ASSUME NEW p \in Procs
  PROVE  LET c == line[p]  at == Storable(stamp[p].at) IN
         /\ at \in Stamps \cup {BadStamp}
         /\ c.verb = "delete" => Written(p) = Delete(db, c.id)
         /\ c.verb = "rename" => Written(p) = UpdateMeta(db, c.tuple, c.new)
         /\ c.verb = "metaDelete" => Written(p) = DeleteMeta(db, c.tuple)
         /\ c.verb = "attach" => Written(p) = Reparent(db, c.id, c.parent)
         /\ c.verb = "detach" => Written(p) = Reparent(db, c.id, NoParent)
         /\ c.verb \in {"time", "date"} => Written(p) = Update(db, c.id, Keep, Keep, at)
         /\ c.verb = "add" => Written(p) = Added(c, at)
BY DEF Written, Moved, Moving, Storable

LEMMA WrittenRows ==
  ASSUME Rows(db), NEW p \in Procs, line[p].verb \in Prompting \cup Moving \cup Stamping
  PROVE  Rows(Written(p).db)
<1> DEFINE c == line[p]
<1>1. /\ UpdateMeta(db, c.tuple, c.new).db = db \/ \E t, rows :
            UpdateMeta(db, c.tuple, c.new).db = RewriteMetaTuple(db, t, rows)
      /\ DeleteMeta(db, c.tuple).db = db \/ \E t, rows :
            DeleteMeta(db, c.tuple).db = RewriteMetaTuple(db, t, rows)
  BY DEF UpdateMeta, DeleteMeta, Done, Fail
<1>2. CASE c.verb = "delete"  BY <1>2, WrittenIs, DeleteIs
<1>3. CASE c.verb \in {"rename", "metaDelete"}  BY <1>1, <1>3, WrittenIs, RetagIs
<1>4. CASE c.verb \in Moving  BY <1>4, WrittenIs, MoveIs DEF Moving
<1>5. CASE c.verb \in {"time", "date"}  BY <1>5, WrittenIs, UpdateIs
<1>6. CASE c.verb = "add"  BY <1>6, WrittenIs, AddedIs
<1> QED  BY <1>2, <1>3, <1>4, <1>5, <1>6 DEF Prompting, Stamping

ActsInv == \A p \in Procs : pc[p] \in {"acting", "asking", "counting", "probing"} =>
             /\ line[p].verb \in Prompting \cup Moving \cup Stamping
             /\ pc[p] \in {"counting", "probing"} => line[p].verb = "delete"
             /\ pc[p] = "asking" => line[p].verb \in Prompting

LEMMA ActsStep == FrameInv /\ ActsInv /\ [ImportNext]_all => ActsInv'
<1> SUFFICES ASSUME FrameInv, ActsInv, [ImportNext]_all PROVE ActsInv'  OBVIOUS
<1>1. CASE (\E f \in FlagSets : Import(f)) \/ UNCHANGED all
  BY <1>1 DEF Import, ActsInv, all, vars
<1>2. ASSUME NEW p \in Procs, Step(p), NEW q \in Procs,
             pc'[q] \in {"acting", "asking", "counting", "probing"}
      PROVE  /\ line'[q].verb \in Prompting \cup Moving \cup Stamping
             /\ pc'[q] \in {"counting", "probing"} => line'[q].verb = "delete"
             /\ pc'[q] = "asking" => line'[q].verb \in Prompting
  <2>1. CASE q # p
    <3>1. Same(q)  BY <1>2, <2>1, StepIs
    <3> QED  BY <1>2, <3>1 DEF Same, ActsInv
  <2>2. CASE q = p /\ (GetSubject(p) \/ CountOccurrences(p) \/ ReadParent(p)
                       \/ \E now \in Nows : ReadStamp(p, now))
    BY <2>2 DEF GetSubject, CountOccurrences, ReadParent, ReadStamp, Goto, FrameInv, Prompting
  <2>3. CASE q = p /\ (ProbeChildren(p) \/ CountDamage(p) \/ \E a \in Answers : Ask(p, a))
    BY <2>3 DEF ProbeChildren, CountDamage, Ask, Goto, FrameInv, ActsInv, Prompting
  <2> HIDE DEF Written
  <2> QED  BY <1>2, <2>1, <2>2, <2>3, StepIs
<1> QED  BY <1>1, <1>2, StepOf DEF ActsInv

LEMMA RowsStep == FrameInv /\ ActsInv /\ RowsInv /\ [ImportNext]_all => RowsInv'
<1> SUFFICES ASSUME FrameInv, ActsInv, RowsInv, [ImportNext]_all, flags' = Keep
             PROVE  Rows(db')
  BY DEF RowsInv
<1>1. CASE UNCHANGED all  BY <1>1 DEF RowsInv, all, vars, batch
<1>2. ASSUME NEW f \in FlagSets, Import(f) PROVE FALSE
  BY <1>2, FlagsAssumption DEF Import
<1>3. ASSUME NEW p \in Procs, Step(p), flags = Keep PROVE Rows(db')
  <2>1. Rows(db)  BY <1>3 DEF RowsInv
  <2>2. db' = db \/ (db' = Written(p).db /\ pc[p] = "acting")
    BY <1>3, StepIs
  <2>3. pc[p] = "acting" => Rows(Written(p).db)
    BY <2>1, WrittenRows DEF ActsInv
  <2> QED  BY <2>1, <2>2, <2>3
<1> QED  BY <1>1, <1>2, <1>3, StepOf

VerbInv == FrameInv /\ ActsInv /\ RowsInv

LEMMA VerbInvariant == VerbsSpec => []VerbInv
<1>1. ImportInit => VerbInv
  <2> SUFFICES ASSUME ImportInit PROVE RowsInv /\ ActsInv
    BY FrameInit DEF VerbInv
  <2>1. IsJournal(db)
    BY OpeningAssumption, JournalsAssumption DEF ImportInit, MadeByVerbs
  <2> QED  BY <2>1, JournalRows DEF RowsInv, ActsInv, ImportInit, Idle
<1>2. VerbInv /\ [ImportNext]_all => VerbInv'
  BY FrameStep, ActsStep, RowsStep DEF VerbInv
<1> QED  BY <1>1, <1>2, PTL DEF VerbsSpec

(* What fngr tells the user to do about a corrupt tree works on that tree: *)
(* detaching any event of a ring takes it off the ring and closes no other *)
(* one, whoever else writes (Reparent with a nil parent).                  *)
THEOREM DetachesMend == VerbsSpec => DetachMends
<1> DEFINE Mends(p) == OnRing(db') \subseteq OnRing(db) \ {line[p].id}
<1>1. ASSUME VerbInv, [ImportNext]_all, NEW p \in Procs, Acts(p, "detach") PROVE Mends(p)
  <2> DEFINE id == line[p].id
  <2>1. db' = Reparent(db, id, NoParent).db /\ Rows(db)
    <3>1. db' = Written(p).db /\ line[p].verb = "detach" /\ flags = Keep
      BY <1>1, WhoActs DEF VerbInv
    <3> QED  BY <1>1, <3>1, WrittenIs DEF VerbInv, RowsInv
  <2> HIDE DEF id
  <2>2. CASE db' = db /\ id \notin Live(db)  BY <2>2 DEF OnRing, id
  <2>3. CASE /\ Live(db') = Live(db) /\ Rows(db') /\ db'.events[id].parent = NoParent
             /\ \A i \in Live(db) \ {id} : db'.events[i].parent = db.events[i].parent
    <3>1. NoParent \notin Live(db')  BY <2>3, NoParentNotLive
    <3>2. OnRing(db') \subseteq OnRing(db)
      <4>1. \A x \in Live(db') : \/ db'.events[x].parent = db.events[x].parent
                                 \/ db'.events[x].parent \notin Live(db')
        BY <2>3, <3>1
      <4> QED  BY <2>3, <4>1, FewerLinksRings
    <3>3. id \notin OnRing(db')  BY <2>3, <3>1 DEF OnRing
    <3> QED  BY <3>2, <3>3 DEF id
  <2> QED  BY <2>1, <2>2, <2>3, MoveIs
<1>2. VerbInv /\ [ImportNext]_all =>
        [\A p \in Procs : Acts(p, "detach") =>
           OnRing(db') \subseteq OnRing(db) \ {line[p].id}]_vars
  BY <1>1
<1> QED  BY <1>2, VerbInvariant, PTL DEF VerbsSpec, DetachMends

-------------------------------------------------------------------------------
(* What is stored for what was typed.                                      *)

(* No clock is skipped on the days on which the commands run.              *)
TodayHasEveryClock ==
  \A now \in Nows, h \in 0..DayHours-1 : LocalClock(Reading(Day(Shown(now)), h)).exists

(* A clock the zone has is the clock that is shown.                        *)
LEMMA ClockIsShown ==
  ASSUME NEW d \in Int, NEW h \in 0..DayHours-1
  PROVE  LET r == LocalClock(Reading(d, h)) IN
         /\ r.t \in Int
         /\ r.exists => Day(Shown(r.t)) = d /\ Hour(Shown(r.t)) = h
<1>1. Reading(d, h) \in Int  BY ReadingParts
<1> QED  BY <1>1, ReadingParts, DateType DEF LocalClock

LEMMA ParsedIsShown ==
  ASSUME MidnightsKept, NEW v \in [form : Forms, day : Int, hour : 0..DayHours-1, ago : Int],
         NEW now \in Int, ParsePartial(v, now).exists
  PROVE  ParsePartial(v, now).t \in Int /\ ShowsTyped(ParsePartial(v, now).t, v, now)
<1>1. v \in Values /\ v.day \in Int /\ v.hour \in 0..DayHours-1 /\ v.ago \in Int
  BY ZoneAssumption DEF Values
<1>2. ParsePartial(v, now).t \in Int  BY <1>1, ParseType
<1>3. Day(Shown(now)) \in Int  BY ShownType
<1>4. /\ -v.ago \in Int /\ Day(Shown(now)) + (-v.ago) = Day(Shown(now)) - v.ago
      /\ Day(Shown(now)) - v.ago \in Int
  BY <1>1, <1>3
<1>5. Day(Shown(AddDays(now, -v.ago))) = Day(Shown(now)) - v.ago
  BY <1>4, AddDaysDay
<1>6. CASE v.form = "clock"
  BY <1>1, <1>3, <1>6, ClockIsShown DEF ParsePartial, ShowsTyped
<1>7. CASE v.form = "date"
  <2>1. 0 \in 0..DayHours-1  BY ZoneAssumption
  <2>2. Reading(v.day, 0) \in Int /\ Day(Reading(v.day, 0)) = v.day
    BY <1>1, <2>1, ReadingParts
  <2>3. Day(Shown(Date(Reading(v.day, 0)))) = v.day  BY <2>2, DateKeepsDay
  <2>4. ParsePartial(v, now).t = Date(Reading(v.day, 0))
    BY <1>7 DEF ParsePartial, LocalClock
  <2> QED  BY <1>2, <1>7, <2>3, <2>4 DEF ShowsTyped, NamedDay
<1>8. CASE v.form = "both"
  BY <1>1, <1>8, ClockIsShown DEF ParsePartial, ShowsTyped, NamedDay
<1>9. CASE v.form = "instant"  BY <1>2, <1>9 DEF ShowsTyped
<1>10. CASE v.form = "dayAgo"
  BY <1>2, <1>5, <1>10 DEF ParsePartial, ShowsTyped, NamedDay
<1>11. CASE v.form = "dayAgoAt"
  <2>1. ParsePartial(v, now) = LocalClock(Reading(Day(Shown(now)) - v.ago, v.hour))
    BY <1>5, <1>11 DEF ParsePartial
  <2> QED  BY <1>1, <1>4, <1>11, <2>1, ClockIsShown DEF ShowsTyped, NamedDay
<1> QED  BY <1>2, <1>6, <1>7, <1>8, <1>9, <1>10, <1>11 DEF Forms

(* What a splice takes from the event it leaves alone.                     *)
LEMMA ResolvedKeepsHalf ==
  ASSUME NEW d, Rows(d), NEW c \in Lines \cup Meanwhile, c.verb \in {"time", "date"},
         Half(c), c.id \in Live(d), NEW now \in Nows, Resolved(d, c, now).exists
  PROVE  LET old == Shown(d.events[c.id].at)
             new == Shown(Resolved(d, c, now).t)
             typed == Shown(ParsePartial(c.value, now).t)
         IN /\ c.verb = "time" => Day(new) = Day(old) /\ Hour(new) = Hour(typed)
            /\ c.verb = "date" => Hour(new) = Hour(old) /\ Day(new) = Day(typed)
<1> DEFINE at == d.events[c.id].at  t == ParsePartial(c.value, now).t
<1>1. c.value \in Values
  BY LinesAssumption, MeanwhileAssumption, ZoneAssumption DEF Typed, Stamping, Values
<1>2. now \in Int /\ t \in Int  BY <1>1, InstantsAssumption, ParseType
<1>3. at \in Int  BY InstantsAssumption DEF Rows, Row
<1> HIDE DEF at, t
<1>4. /\ Day(Shown(at)) \in Int /\ Hour(Shown(at)) \in 0..DayHours-1
      /\ Day(Shown(t)) \in Int /\ Hour(Shown(t)) \in 0..DayHours-1
  BY <1>2, <1>3, ShownType
<1>5. CASE c.verb = "time"
  <2>1. Resolved(d, c, now) = LocalClock(Reading(Day(Shown(at)), Hour(Shown(t))))
    BY <1>5 DEF Resolved, SpliceTime, at, t
  <2> QED  BY <1>4, <1>5, <2>1, ClockIsShown DEF at, t
<1>6. CASE c.verb = "date"
  <2>1. Resolved(d, c, now) = LocalClock(Reading(Day(Shown(t)), Hour(Shown(at))))
    BY <1>6 DEF Resolved, SpliceDate, at, t
  <2> QED  BY <1>4, <1>6, <2>1, ClockIsShown DEF at, t
<1> QED  BY <1>5, <1>6

LEMMA ResolvedIsShown ==
  ASSUME MidnightsKept, TodayHasEveryClock, NEW d, Rows(d),
         NEW c \in Lines \cup Meanwhile, c.verb \in Stamping, NEW now \in Nows,
         ~Refused(c, now), Half(c) => c.id \in Live(d), Resolved(d, c, now).exists
  PROVE  ShowsTyped(Resolved(d, c, now).t, c.value, now)
<1> DEFINE v == c.value
<1>1. v \in [form : Forms, day : Int, hour : 0..DayHours-1, ago : Int]
  BY LinesAssumption, MeanwhileAssumption DEF Typed
<1>2. now \in Int  BY InstantsAssumption
<1>3. CASE ~Half(c)
  <2>1. Resolved(d, c, now) = ParsePartial(v, now)  BY <1>3 DEF Resolved
  <2> HIDE DEF v
  <2> QED  BY <1>1, <1>2, <2>1, ParsedIsShown DEF v
<1>4. CASE Half(c) /\ c.verb = "time"
  <2>1. v.form = "clock"  BY <1>1, <1>4 DEF Half, HasDate
  <2>2. ParsePartial(v, now).exists
    BY <1>1, <2>1 DEF ParsePartial, TodayHasEveryClock
  <2>3. Hour(Shown(ParsePartial(v, now).t)) = v.hour
    BY <1>1, <1>2, <2>1, <2>2, ParsedIsShown DEF ShowsTyped
  <2> QED  BY <1>4, <2>1, <2>3, ResolvedKeepsHalf DEF ShowsTyped
<1>5. CASE Half(c) /\ c.verb = "date"
  <2>1. v.form \in {"date", "dayAgo"}
    BY <1>1, <1>5 DEF Half, HasTime, Refused, HasDate
  <2>2. ParsePartial(v, now).exists
    BY <2>1 DEF ParsePartial, LocalClock
  <2>3. Day(Shown(ParsePartial(v, now).t)) = NamedDay(v, now)
    BY <1>1, <1>2, <2>1, <2>2, ParsedIsShown DEF ShowsTyped
  <2> QED  BY <1>5, <2>1, <2>3, ResolvedKeepsHalf DEF ShowsTyped
<1> QED  BY <1>3, <1>4, <1>5 DEF Half

StampInv ==
  \A p \in Procs : pc[p] = "acting" /\ line[p].verb \in Stamping /\ ~stamp[p].warned
    => ShowsTyped(stamp[p].at, line[p].value, stamp[p].now)

LEMMA StampStep ==
  ASSUME MidnightsKept, TodayHasEveryClock
  PROVE  VerbInv /\ StampInv /\ [ImportNext]_all => StampInv'
<1> SUFFICES ASSUME VerbInv, StampInv, [ImportNext]_all PROVE StampInv'  OBVIOUS
<1>1. CASE (\E f \in FlagSets : Import(f)) \/ UNCHANGED all
  BY <1>1 DEF Import, StampInv, all, vars
<1>2. ASSUME NEW p \in Procs, Step(p), flags = Keep, NEW q \in Procs,
             pc'[q] = "acting", line'[q].verb \in Stamping, ~stamp'[q].warned
      PROVE  ShowsTyped(stamp'[q].at, line'[q].value, stamp'[q].now)
  <2>1. CASE q # p
    <3>1. Same(q)  BY <1>2, <2>1, StepIs DEF VerbInv
    <3> QED  BY <1>2, <3>1 DEF Same, StampInv
  <2>2. CASE q = p /\ \E now \in Nows : ReadStamp(p, now)
    <3>1. PICK now \in Nows : ReadStamp(p, now)  BY <2>2
    <3> DEFINE c == line[p]  r == Resolved(db, c, now)
    <3>2. /\ c \in Lines \cup Meanwhile /\ c.verb \in Stamping /\ ~Refused(c, now)
          /\ Half(c) => c.id \in Live(db)
          /\ line' = line /\ stamp' = [stamp EXCEPT ![p] = [now |-> now, at |-> r.t, warned |-> ~r.exists]]
      BY <3>1 DEF ReadStamp, Goto, VerbInv, FrameInv
    <3> HIDE DEF r, c
    <3>3. stamp'[p] = [now |-> now, at |-> r.t, warned |-> ~r.exists]
      BY <3>2 DEF VerbInv, FrameInv
    <3>4. r.exists
      <4>1. stamp'[p].warned = ~r.exists  BY <3>3
      <4> QED  BY <1>2, <2>2, <4>1, Zenon
    <3>5. Rows(db)  BY <1>2 DEF VerbInv, RowsInv
    <3>6. ShowsTyped(r.t, c.value, now)  BY <3>2, <3>4, <3>5, ResolvedIsShown DEF r
    <3> QED  BY <2>2, <3>2, <3>3, <3>6 DEF c
  <2>3. CASE q = p /\ (ReadParent(p) \/ \E a \in Answers : Ask(p, a))
    BY <1>2, <2>3 DEF ReadParent, Ask, Goto, VerbInv, ActsInv, Moving, Prompting, Stamping
  <2>4. ~(GetSubject(p) \/ ProbeChildren(p) \/ CountDamage(p) \/ CountOccurrences(p)) \/ q # p
    BY <1>2 DEF GetSubject, ProbeChildren, CountDamage, CountOccurrences, Goto, VerbInv, FrameInv
  <2> HIDE DEF Written
  <2> QED  BY <1>2, <2>1, <2>2, <2>3, <2>4, StepIs DEF VerbInv
<1> QED  BY <1>1, <1>2, StepOf DEF StampInv

(* In a zone that keeps its midnights, on a day on which no clock is       *)
(* skipped: what add, event time and event date store shows the day and    *)
(* the clock that were typed, or they warned.  A day that skips the typed  *)
(* clock is the one case that escapes the warning.                         *)
THEOREM StampsAreTyped ==
  MidnightsKept /\ TodayHasEveryClock => (VerbsSpec => TypedOrWarned)
<1> SUFFICES ASSUME MidnightsKept, TodayHasEveryClock PROVE VerbsSpec => TypedOrWarned
  OBVIOUS
<1>1. ImportInit => StampInv  BY DEF StampInv, ImportInit, Idle
<1>2. VerbInv /\ StampInv /\ [ImportNext]_all => StampInv'  BY StampStep
<1>3. ASSUME VerbInv, StampInv, [ImportNext]_all, NEW p \in Procs, NEW v \in Stamping,
             Acts(p, v), db' # db, ~stamp[p].warned, NEW i \in Stamped(p)
      PROVE  ShowsTyped(db'.events[i].at, line[p].value, stamp[p].now)
  <2> DEFINE at == Storable(stamp[p].at)
  <2>1. /\ db' = Written(p).db /\ line[p].verb = v /\ pc[p] = "acting" /\ Rows(db)
    BY <1>3, WhoActs DEF VerbInv, RowsInv
  <2>2. at \in Stamps \cup {BadStamp}  BY DEF Storable
  <2>3. db'.events[i].at = at /\ at \in Stamps
    <3>1. CASE v \in {"time", "date"}
      <4>1. db' = Update(db, line[p].id, Keep, Keep, at).db  BY <2>1, <3>1, WrittenIs
      <4>2. i = line[p].id  BY <2>1, <3>1 DEF Stamped
      <4> QED  BY <1>3, <2>1, <2>2, <4>1, <4>2, UpdateIs
    <3>2. CASE v = "add"
      <4>1. db' = Added(line[p], at).db  BY <2>1, <3>2, WrittenIs
      <4> HIDE DEF at
      <4>2. /\ Live(db') = Live(db) \cup {db.seq + 1} /\ Rows(db')
            /\ db'.events[db.seq + 1].at = at
        BY <1>3, <2>1, <2>2, <4>1, AddedIs
      <4>3. i = db.seq + 1  BY <1>3, <2>1, <3>2, <4>2 DEF Stamped
      <4>4. db'.events[i] \in Row  BY <4>2, <4>3 DEF Rows
      <4> QED  BY <4>2, <4>3, <4>4 DEF Row
    <3> QED  BY <1>3, <3>1, <3>2 DEF Stamping
  <2>4. at = stamp[p].at  BY <2>3, StampAssumption DEF Storable
  <2> QED  BY <1>3, <2>1, <2>3, <2>4 DEF StampInv
<1>4. VerbInv /\ StampInv /\ [ImportNext]_all =>
        [\A p \in Procs, v \in Stamping : Acts(p, v) /\ db' # db /\ ~stamp[p].warned =>
           \A i \in Stamped(p) : ShowsTyped(db'.events[i].at, line[p].value, stamp[p].now)]_vars
  BY <1>3
<1> QED  BY <1>1, <1>2, <1>4, VerbInvariant, PTL DEF VerbsSpec, TypedOrWarned

-------------------------------------------------------------------------------
(* One process alone: what a verb read is still so when it writes.  With   *)
(* two, none of this holds.                                                *)

OneProcess == \A p, q \in Procs : p = q

Spliced(p) ==
  LET old == Shown(db.events[line[p].id].at)  new == Shown(stamp[p].at) IN
  /\ line[p].verb = "time" => Day(new) = Day(old)
  /\ line[p].verb = "date" => Hour(new) = Hour(old)

FreshInv ==
  \A p \in Procs : LET c == line[p] IN
    /\ pc[p] = "counting" => c.recursive
    /\ pc[p] \in {"asking", "acting"} /\ c.verb = "delete" =>
         \/ subject[p] = 1 /\ ~HasChildren(db, c.id)
         \/ c.recursive /\ subject[p] = CountSubtree(db, c.id)
    /\ pc[p] = "acting" /\ c.verb \in Moving => subject[p] = Displaced(db, c)
    /\ pc[p] = "acting" /\ c.verb \in {"time", "date"} /\ Half(c) /\ ~stamp[p].warned
         => Spliced(p)

LEMMA FreshStep ==
  ASSUME OneProcess
  PROVE  VerbInv /\ FreshInv /\ [ImportNext]_all => FreshInv'
<1> SUFFICES ASSUME VerbInv, FreshInv, [ImportNext]_all PROVE FreshInv'  OBVIOUS
<1>1. CASE \E f \in FlagSets : Import(f)
  BY <1>1 DEF Import, FreshInv
<1>2. CASE UNCHANGED all
  BY <1>2 DEF FreshInv, Spliced, all, vars
<1>3. ASSUME NEW p \in Procs, Step(p), flags = Keep
      PROVE  FreshInv'
  <2>1. \A q \in Procs : q = p  BY DEF OneProcess
  <2>2. /\ Rows(db) /\ FrameInv /\ ActsInv
    BY <1>3 DEF VerbInv, RowsInv
  <2>3. CASE pc'[p] \in {"idle", "reading"}
    BY <2>1, <2>3 DEF FreshInv
  <2>4. CASE GetSubject(p)
    BY <2>1, <2>2, <2>4 DEF GetSubject, Goto, FrameInv, FreshInv
  <2>5. CASE ProbeChildren(p)
    <3>1. /\ pc'[p] = (IF HasChildren(db, line[p].id) THEN "counting" ELSE "asking")
          /\ HasChildren(db, line[p].id) => line[p].recursive
          /\ subject'[p] = 1 /\ line' = line /\ db' = db
      BY <2>2, <2>5 DEF ProbeChildren, Goto, FrameInv
    <3> QED  BY <2>1, <3>1 DEF FreshInv
  <2>6. CASE CountDamage(p)
    <3>1. /\ pc[p] = "counting" /\ pc'[p] = "asking" /\ line' = line /\ db' = db
          /\ subject'[p] = CountSubtree(db, line[p].id)
      BY <2>2, <2>6 DEF CountDamage, Goto, FrameInv
    <3>2. line[p].recursive  BY <3>1 DEF FreshInv
    <3> HIDE DEF CountSubtree
    <3> QED  BY <2>1, <3>1, <3>2 DEF FreshInv
  <2>7. CASE CountOccurrences(p)
    BY <2>1, <2>2, <2>7 DEF CountOccurrences, Goto, FrameInv, FreshInv
  <2>8. CASE ReadParent(p)
    <3>1. /\ line[p].verb \in Moving /\ pc'[p] = "acting" /\ line' = line /\ db' = db
          /\ subject'[p] = Displaced(db, line[p])
      BY <2>2, <2>8 DEF ReadParent, Goto, FrameInv
    <3> QED  BY <2>1, <3>1 DEF FreshInv, Moving
  <2>9. CASE \E now \in Nows : ReadStamp(p, now)
    <3>1. PICK now \in Nows : ReadStamp(p, now)  BY <2>9
    <3> DEFINE c == line[p]  r == Resolved(db, c, now)
    <3>2. /\ c \in Lines \cup Meanwhile /\ c.verb \in Stamping
          /\ Half(c) => c.id \in Live(db)
          /\ pc'[p] = "acting" /\ line' = line /\ db' = db
          /\ stamp'[p] = [now |-> now, at |-> r.t, warned |-> ~r.exists]
      BY <2>2, <3>1 DEF ReadStamp, Goto, FrameInv
    <3>3. ~stamp'[p].warned => r.exists
      <4>1. stamp'[p].warned = ~r.exists  BY <3>2
      <4> QED  BY <4>1, Zenon
    <3>4. stamp'[p].at = r.t  BY <3>2
    <3> HIDE DEF r, c
    <3>5. c.verb \in {"time", "date"} /\ Half(c) /\ ~stamp'[p].warned => Spliced(p)'
      BY <2>2, <3>2, <3>3, <3>4, ResolvedKeepsHalf DEF Spliced, r, c
    <3> QED  BY <2>1, <3>2, <3>5 DEF FreshInv, Stamping, Moving, c
  <2>10. CASE \E a \in Answers : Ask(p, a)
    <3>1. /\ pc[p] = "asking" /\ line' = line /\ db' = db /\ subject' = subject
      BY <2>10 DEF Ask, Goto
    <3>2. line[p].verb \in Prompting  BY <2>2, <3>1 DEF ActsInv
    <3>3. pc'[p] = "acting"  BY <2>2, <2>10 DEF Ask, Goto, FrameInv
    <3> HIDE DEF CountSubtree
    <3> QED  BY <2>1, <3>1, <3>2, <3>3 DEF FreshInv, Prompting, Moving
  <2> HIDE DEF Written
  <2> QED
    BY <1>3, <2>2, <2>3, <2>4, <2>5, <2>6, <2>7, <2>8, <2>9, <2>10, StepIs
<1> QED  BY <1>1, <1>2, <1>3, StepOf

LEMMA FreshInvariant == OneProcess => (VerbsSpec => [](VerbInv /\ FreshInv))
<1> SUFFICES ASSUME OneProcess PROVE VerbsSpec => [](VerbInv /\ FreshInv)  OBVIOUS
<1>1. ImportInit => FreshInv  BY DEF FreshInv, ImportInit, Idle
<1>2. VerbInv /\ FreshInv /\ [ImportNext]_all => FreshInv'  BY FreshStep
<1> QED  BY <1>1, <1>2, VerbInvariant, PTL DEF VerbsSpec

LEMMA LeafSubtree ==
  ASSUME NEW d, NEW id \in Live(d), ~HasChildren(d, id)
  PROVE  Subtree(d, id) = {id}
<1>1. ClosedUpward(d, Live(d) \ {id})  BY DEF ClosedUpward, HasChildren
<1>2. ASSUME NEW j \in Live(d), j # id PROVE id \notin Chain(d, j)
  <2>1. Chain(d, j) \subseteq Live(d) \ {id}  BY <1>1, <1>2, ChainIn
  <2> QED  BY <2>1
<1> QED  BY <1>2, ChainStarts DEF Subtree

(* What a delete takes is the subtree of its event, when it takes anything.*)
LEMMA DeleteTakes ==
  ASSUME VerbInv, [ImportNext]_all, NEW p \in Procs, Acts(p, "delete")
  PROVE  /\ pc[p] = "acting" /\ line[p].verb = "delete"
         /\ Taken = {} \/ (line[p].id \in Live(db) /\ Taken = Subtree(db, line[p].id))
<1>1. db' = Delete(db, line[p].id).db /\ Rows(db) /\ pc[p] = "acting" /\ line[p].verb = "delete"
  BY WhoActs, WrittenIs DEF VerbInv, RowsInv
<1>2. Subtree(db, line[p].id) \subseteq Live(db)  BY DEF Subtree
<1>3. CASE db' = db  BY <1>1, <1>3 DEF Taken
<1>4. CASE line[p].id \in Live(db) /\ Live(db') = Live(db) \ Subtree(db, line[p].id)
  BY <1>1, <1>2, <1>4 DEF Taken
<1> QED  BY <1>1, <1>3, <1>4, DeleteIs

(* A delete without -r takes its event and nothing below it                *)
(* (deleteSubject, HasChildren).                                           *)
THEOREM ChildrenTakeRecursive == OneProcess => (VerbsSpec => ChildrenNeedRecursive)
<1> SUFFICES ASSUME OneProcess PROVE VerbsSpec => ChildrenNeedRecursive  OBVIOUS
<1>1. ASSUME VerbInv, FreshInv, [ImportNext]_all, NEW p \in Procs,
             Acts(p, "delete"), ~line[p].recursive
      PROVE  Cardinality(Taken) <= 1
  <2>1. Taken = {} \/ Taken = {line[p].id}
    BY <1>1, DeleteTakes, LeafSubtree DEF FreshInv
  <2>2. Cardinality({}) = 0 /\ Cardinality({line[p].id}) = 1
    BY FS_EmptySet, FS_Singleton
  <2> QED  BY <2>1, <2>2
<1>2. VerbInv /\ FreshInv /\ [ImportNext]_all =>
        [\A p \in Procs : Acts(p, "delete") /\ ~line[p].recursive => Cardinality(Taken) <= 1]_vars
  BY <1>1
<1> QED  BY <1>2, FreshInvariant, PTL DEF VerbsSpec, ChildrenNeedRecursive

(* The number a delete reports is the number of events it took, and the    *)
(* parent an attach or a detach reports is the one the event had.          *)
THEOREM DoneIsNamed == OneProcess => (VerbsSpec => DoneAsNamed)
<1> SUFFICES ASSUME OneProcess PROVE VerbsSpec => DoneAsNamed  OBVIOUS
<1>1. ASSUME VerbInv, FreshInv, [ImportNext]_all, NEW p \in Procs
      PROVE  /\ Acts(p, "delete") /\ Taken # {} /\ subject[p] # Uncounted
                  => Cardinality(Taken) = subject[p]
             /\ \A v \in Moving : Acts(p, v) /\ db' # db
                  => subject[p] = db.events[line[p].id].parent
  <2>1. ASSUME Acts(p, "delete"), Taken # {}, subject[p] # Uncounted
        PROVE  Cardinality(Taken) = subject[p]
    <3> DEFINE id == line[p].id
    <3>1. /\ pc[p] = "acting" /\ line[p].verb = "delete"
          /\ id \in Live(db) /\ Taken = Subtree(db, id)
      BY <1>1, <2>1, DeleteTakes
    <3>2. CASE subject[p] = 1 /\ ~HasChildren(db, id)
      <4>1. Taken = {id}  BY <3>1, <3>2, LeafSubtree
      <4>2. Cardinality({id}) = 1  BY FS_Singleton
      <4> QED  BY <3>2, <4>1, <4>2
    <3>3. CASE subject[p] = CountSubtree(db, id)
      BY <2>1, <3>1, <3>3 DEF CountSubtree
    <3> QED  BY <1>1, <3>1, <3>2, <3>3 DEF FreshInv
  <2>2. ASSUME NEW v \in Moving, Acts(p, v)
        PROVE  subject[p] = db.events[line[p].id].parent
    BY <1>1, <2>2, WhoActs DEF VerbInv, FreshInv, Displaced
  <2> QED  BY <2>1, <2>2
<1>2. VerbInv /\ FreshInv /\ [ImportNext]_all =>
        [\A p \in Procs :
           /\ Acts(p, "delete") /\ Taken # {} /\ subject[p] # Uncounted
                => Cardinality(Taken) = subject[p]
           /\ \A v \in Moving : Acts(p, v) /\ db' # db
                => subject[p] = db.events[line[p].id].parent]_vars
  BY <1>1
<1> QED  BY <1>2, FreshInvariant, PTL DEF VerbsSpec, DoneAsNamed

(* event time with a bare clock leaves the event on its day, event date    *)
(* with a bare date at its clock, or a warning said otherwise              *)
(* (SpliceTime, SpliceDate).                                               *)
THEOREM OtherHalfStays == OneProcess => (VerbsSpec => OtherHalfKept)
<1> SUFFICES ASSUME OneProcess PROVE VerbsSpec => OtherHalfKept  OBVIOUS
<1>1. ASSUME VerbInv, FreshInv, [ImportNext]_all, NEW p \in Procs,
             NEW i \in Live(db) \cap Live(db'), NEW v \in {"time", "date"},
             Acts(p, v), Half(line[p]), ~stamp[p].warned
      PROVE  LET old == Shown(db.events[i].at) new == Shown(db'.events[i].at) IN
             /\ v = "time" => Day(new) = Day(old)
             /\ v = "date" => Hour(new) = Hour(old)
  <2> DEFINE id == line[p].id  at == Storable(stamp[p].at)
  <2>1. /\ db' = Update(db, id, Keep, Keep, at).db /\ Rows(db) /\ at \in Stamps \cup {BadStamp}
        /\ line[p].verb = v /\ pc[p] = "acting"
    BY <1>1, WhoActs, WrittenIs DEF VerbInv, RowsInv
  <2>2. Spliced(p)  BY <1>1, <2>1 DEF FreshInv
  <2> HIDE DEF at, id
  <2>3. CASE db' = db  BY <2>3
  <2>4. CASE i # id /\ \A j \in Live(db) \ {id} : db'.events[j] = db.events[j]
    BY <1>1, <2>4
  <2>5. CASE i = id /\ at \in Stamps /\ db'.events[id].at = at
    <3>1. at = stamp[p].at  BY <2>5, StampAssumption DEF Storable, at
    <3> QED  BY <2>1, <2>2, <2>5, <3>1 DEF Spliced, id
  <2> QED  BY <2>1, <2>3, <2>4, <2>5, UpdateIs
<1>2. VerbInv /\ FreshInv /\ [ImportNext]_all =>
        [\A p \in Procs : \A i \in Live(db) \cap Live(db') :
           LET old == Shown(db.events[i].at) new == Shown(db'.events[i].at) IN
           /\ Acts(p, "time") /\ Half(line[p]) /\ ~stamp[p].warned => Day(new) = Day(old)
           /\ Acts(p, "date") /\ Half(line[p]) /\ ~stamp[p].warned => Hour(new) = Hour(old)]_vars
  BY <1>1
<1> QED  BY <1>2, FreshInvariant, PTL DEF VerbsSpec, OtherHalfKept

-------------------------------------------------------------------------------
(* Imports.                                                                *)

Exported == /\ origin.journal \in Journals /\ origin.ids \in Listings(origin.journal)
            /\ Export(origin.journal, origin.ids)

BatchInv == /\ Len(wire) \in Nat /\ DOMAIN wire = 1..Len(wire)
            /\ origin = Unknown \/ Exported

LEMMA ExportedShape ==
  ASSUME NEW d, NEW ids \in Listings(d), Export(d, ids)
  PROVE  /\ Len(wire) \in Nat /\ DOMAIN wire = 1..Len(wire) /\ DOMAIN ids = 1..Len(wire)
         /\ \A k \in 1..Len(wire) : ids[k] \in Live(d) /\ wire[k] = ToRecord(d, ids[k])
         /\ \A j, k \in 1..Len(wire) : ids[j] = ids[k] => j = k
<1>1. PICK n \in 1..MaxExport : ids \in [1..n -> Live(d)]  BY DEF Listings
<1>2. n \in Nat  BY BatchesAssumption
<1> DEFINE S == {ToRecord(d, i) : i \in Live(d)}
<1>3. wire \in [1..n -> S]  BY <1>1 DEF Export
<1>4. wire \in Seq(S) /\ Len(wire) = n  BY <1>2, <1>3
<1> QED  BY <1>1, <1>2, <1>4 DEF Export, Listings

LEMMA BatchInvariant == VerbsSpec => []BatchInv
<1>1. ImportInit => BatchInv
  <2> SUFFICES ASSUME ImportInit PROVE BatchInv  OBVIOUS
  <2>1. CASE wire = <<>> /\ origin = Unknown  BY <2>1 DEF BatchInv
  <2>2. CASE wire \in ByHand /\ origin = Unknown
    <3>1. wire \in Seq({wire[k] : k \in DOMAIN wire})  BY <2>2, BatchesAssumption
    <3> DEFINE S == {wire[k] : k \in DOMAIN wire}
    <3> HIDE DEF S
    <3>2. wire \in Seq(S)  BY <3>1 DEF S
    <3>3. Len(wire) \in Nat /\ DOMAIN wire = 1..Len(wire)  BY <3>2
    <3> QED  BY <2>2, <3>3 DEF BatchInv
  <2>3. ASSUME NEW d \in Journals, NEW ids \in Listings(d), Export(d, ids) PROVE BatchInv
    <3>1. origin.journal = d /\ origin.ids = ids  BY <2>3 DEF Export
    <3> QED  BY <2>3, <3>1, ExportedShape DEF BatchInv, Exported
  <2> QED  BY <2>1, <2>2, <2>3 DEF ImportInit
<1>2. BatchInv /\ [ImportNext]_all => BatchInv'
  <2> SUFFICES ASSUME BatchInv, [ImportNext]_all PROVE BatchInv'  OBVIOUS
  <2>1. wire' = wire /\ origin' = origin
    BY DEF ImportNext, Import, Elsewhere, all, batch
  <2> QED  BY <2>1 DEF BatchInv, Exported, Export
<1> QED  BY <1>1, <1>2, PTL DEF VerbsSpec

(* The tuples AddMany is called with.                                      *)
Inputs(f) == [k \in DOMAIN wire |-> ToAddInput(wire, wire[k], f)]

LEMMA InputsShape ==
  ASSUME BatchInv, NEW f
  PROVE  /\ Len(Inputs(f)) = Len(wire) /\ DOMAIN Inputs(f) = 1..Len(wire)
         /\ \A k \in 1..Len(wire) : Inputs(f)[k] = ToAddInput(wire, wire[k], f)
<1> DEFINE S == {ToAddInput(wire, wire[k], f) : k \in DOMAIN wire}  n == Len(wire)
<1>1. n \in Nat /\ DOMAIN wire = 1..n  BY DEF BatchInv
<1>2. Inputs(f) \in [1..n -> S]  BY <1>1 DEF Inputs
<1> HIDE DEF S
<1>3. Inputs(f) \in Seq(S) /\ Len(Inputs(f)) = n  BY <1>1, <1>2
<1> QED  BY <1>1, <1>3 DEF Inputs

LEMMA WhoLoads ==
  ASSUME [ImportNext]_all, Loads
  PROVE  /\ flags' \in FlagSets /\ wire # <<>> /\ UNCHANGED <<wire, origin>>
         /\ db' = Imported(db, wire, flags').db
BY StepOf DEF Loads, all, batch, Import

LEMMA AcceptedIs ==
  ASSUME BatchInv, VerbInv, [ImportNext]_all, Accepted
  PROVE  /\ flags' \in FlagSets /\ ~AmbiguousIds(wire)
         /\ \A k \in 1..Len(wire) :
              /\ New(k) = NewEvent(db, ToAddInput(wire, wire[k], flags'))
              /\ db'.meta[db.seq + k] = NewMeta(ToAddInput(wire, wire[k], flags'))
<1> DEFINE f == flags'  ins == Inputs(flags')
<1>1. /\ f \in FlagSets /\ db' # db /\ Rows(db) /\ db' = Imported(db, wire, f).db
  BY WhoLoads DEF Accepted, Loads, VerbInv, RowsInv
<1>2. Imported(db, wire, f) =
        IF AmbiguousIds(wire) \/ \E k \in DOMAIN wire : RecordRefused(ins[k])
        THEN Fail(db, "invalid") ELSE AddMany(db, ins)
  BY DEF Imported, Inputs
<1>3. ~AmbiguousIds(wire) /\ db' = Inserted(db, ins)
  <2> HIDE DEF ins
  <2> QED  BY <1>1, <1>2 DEF AddMany, Fail, Done
<1>4. /\ Len(ins) = Len(wire) /\ Len(wire) \in Nat /\ db.seq \in Nat /\ Live(db) \subseteq 1..db.seq
      /\ \A k \in 1..Len(wire) : ins[k] = ToAddInput(wire, wire[k], f)
  BY <1>1, InputsShape DEF Rows, BatchInv
<1> HIDE DEF ins, f
<1>5. ASSUME NEW k \in 1..Len(wire)
      PROVE  New(k) = NewEvent(db, ins[k]) /\ db'.meta[db.seq + k] = NewMeta(ins[k])
  <2>1. /\ db.seq + k \in Live(db) \cup (db.seq+1..db.seq+Len(ins))
        /\ db.seq + k \notin Live(db) /\ (db.seq + k) - db.seq = k
    BY <1>4
  <2>2. New(k) = NewEvent(db, ins[(db.seq + k) - db.seq])
        /\ db'.meta[db.seq + k] = NewMeta(ins[(db.seq + k) - db.seq])
    BY <1>3, <2>1 DEF Inserted, New
  <2> QED  BY <2>1, <2>2
<1> QED  BY <1>1, <1>3, <1>4, <1>5 DEF f

(* The one record of an id.                                                *)
LEMMA IndexIs ==
  ASSUME BatchInv, ~AmbiguousIds(wire), NEW id
  PROVE  LET named == {j \in DOMAIN wire : wire[j].id = id}  x == BatchIndex(wire, id) IN
         IF id = NoParent \/ named = {} THEN x = 0
         ELSE x \in 1..Len(wire) /\ \A j \in named : x = j
<1> DEFINE named == {j \in DOMAIN wire : wire[j].id = id}
<1>1. CASE id = NoParent \/ named = {}
  BY <1>1 DEF BatchIndex, RecordsWithId
<1>2. CASE id # NoParent /\ named # {}
  <2>1. RecordsWithId(wire, id) = named  BY <1>2 DEF RecordsWithId
  <2>2. BatchIndex(wire, id) \in named  BY <1>2, <2>1 DEF BatchIndex
  <2>3. ASSUME NEW j \in named, NEW k \in named PROVE j = k
    <3>1. ~(Cardinality(named) > 1)  BY <2>1, <2>3 DEF AmbiguousIds
    <3>2. IsFiniteSet(named)
      <4>1. IsFiniteSet(1..Len(wire))  BY FS_Interval DEF BatchInv
      <4>2. named \subseteq 1..Len(wire)  BY DEF BatchInv
      <4> QED  BY <4>1, <4>2, FS_Subset
    <3> HIDE DEF named
    <3>3. {j, k} \subseteq named  BY <2>3
    <3>4. Cardinality({j, k}) <= Cardinality(named)  BY <3>2, <3>3, FS_Subset
    <3>5. Cardinality(named) \in Nat  BY <3>2, FS_CardinalityType
    <3>6. ASSUME j # k PROVE FALSE
      <4>1. Cardinality({j}) = 1 /\ IsFiniteSet({j})  BY FS_Singleton
      <4>2. {j, k} = {j} \cup {k} /\ k \notin {j}  BY <3>6
      <4>3. Cardinality({j} \cup {k}) = 2  BY <4>1, <4>2, FS_AddElement
      <4> QED  BY <3>1, <3>4, <3>5, <4>2, <4>3
    <3> QED  BY <3>6
  <2> QED  BY <1>2, <2>2, <2>3 DEF BatchInv
<1> QED  BY <1>1, <1>2

(* A parent_id that a record of the batch answers leads to that record's   *)
(* event, backward or forward and whatever ids the target uses; any other  *)
(* to the event of the target it names (indexBySourceID).                  *)
THEOREM ParentsLeadAsNamed == VerbsSpec => ParentsAsNamed
<1>1. ASSUME BatchInv, VerbInv, [ImportNext]_all, Accepted, NEW k \in DOMAIN wire
      PROVE  LET named == {j \in DOMAIN wire : wire[j].id = wire[k].parent} IN
             IF wire[k].parent = NoParent THEN New(k).parent = flags'.parent
             ELSE IF named = {} THEN New(k).parent = wire[k].parent
             ELSE \A j \in named : New(k).parent = db.seq + j
  <2> DEFINE r == wire[k]  in == ToAddInput(wire, r, flags')
             named == {j \in DOMAIN wire : wire[j].id = r.parent}
  <2>1. /\ New(k).parent = IF in.index = 0 THEN in.parent ELSE db.seq + in.index
        /\ ~AmbiguousIds(wire)
    BY <1>1, AcceptedIs DEF NewEvent, BatchInv
  <2>2. /\ in.index = BatchIndex(wire, r.parent)
        /\ in.parent = IF r.parent = NoParent THEN flags'.parent
                       ELSE IF in.index = 0 THEN r.parent ELSE NoParent
    BY DEF ToAddInput
  <2> HIDE DEF in
  <2>3. /\ r.parent = NoParent \/ named = {} => in.index = 0
        /\ r.parent # NoParent /\ named # {} =>
             in.index \in 1..Len(wire) /\ \A j \in named : in.index = j
    BY <1>1, <2>1, <2>2, IndexIs
  <2>4. 0 \notin 1..Len(wire)  OBVIOUS
  <2> QED  BY <2>1, <2>2, <2>3, <2>4
<1>2. BatchInv /\ VerbInv /\ [ImportNext]_all =>
        [Accepted => \A k \in DOMAIN wire :
           LET named == {j \in DOMAIN wire : wire[j].id = wire[k].parent} IN
           IF wire[k].parent = NoParent THEN New(k).parent = flags'.parent
           ELSE IF named = {} THEN New(k).parent = wire[k].parent
           ELSE \A j \in named : New(k).parent = db.seq + j]_all
  BY <1>1
<1> QED  BY <1>2, BatchInvariant, VerbInvariant, PTL DEF VerbsSpec, ParentsAsNamed

(* What an exported record becomes on its way in.                          *)
Original(k) == origin.journal.events[origin.ids[k]]
OriginalMeta(k) == Carried(origin.journal, origin.ids[k])
Input(f, k) == ToAddInput(wire, wire[k], f)

LEMMA CopyIs ==
  ASSUME BatchInv, Exported, NEW k \in 1..Len(wire), NEW f
  PROVE  /\ origin.journal \in Journals /\ origin.ids[k] \in Live(origin.journal)
         /\ wire[k].id = origin.ids[k] /\ wire[k].parent = Original(k).parent
         /\ Input(f, k).title = Original(k).title /\ Input(f, k).at = Original(k).at
         /\ BodyTags(Input(f, k)) = BodyTags(Original(k))
         /\ BodyTags(Original(k)) \subseteq Tuples /\ Original(k) \in EventRow
         /\ OriginalMeta(k) # {} =>
              Input(f, k).meta = MergeMeta(BodyTags(Original(k)), OriginalMeta(k), f.author)
         /\ BodyTags(Original(k)) \subseteq Input(f, k).meta
<1> DEFINE d == origin.journal  i == origin.ids[k]  r == wire[k]
           in == Input(f, k)  row == Original(k)
<1>1. d \in Journals /\ i \in Live(d) /\ r = ToRecord(d, i)
  BY ExportedShape DEF Exported
<1>2. row \in EventRow
  BY <1>1, JournalsAssumption DEF MadeByVerbs, IsJournal, Live, Original
<1>3. row.title \in Texts /\ row.body \in Texts /\ row.at # Keep
  BY <1>2, StampAssumption DEF EventRow
<1>4. /\ r.id = i /\ r.title = row.title /\ r.body = row.body /\ r.parent = row.parent
      /\ r.at = row.at
      /\ r.meta = IF OriginalMeta(k) = {} THEN Keep ELSE OriginalMeta(k)
  BY <1>1 DEF ToRecord, Original, OriginalMeta
<1>5. OriginalMeta(k) # Keep  BY BatchesAssumption DEF Carried, OriginalMeta
<1>6. /\ in.title = row.title /\ in.body = row.body /\ in.at = row.at
      /\ in.meta = MergeMeta(BodyTags(r), Or(r.meta, f.meta), f.author)
  BY <1>3, <1>4 DEF ToAddInput, Or, Input
<1> HIDE DEF r, row, in
<1>7. BodyTags(in) = BodyTags(row) /\ BodyTags(r) = BodyTags(row)
  BY <1>4, <1>6 DEF BodyTags
<1>8. BodyTags(row) \subseteq Tuples  BY <1>3, TextAssumption DEF BodyTags
<1>9. OriginalMeta(k) # {} => Or(r.meta, f.meta) = OriginalMeta(k)
  BY <1>4, <1>5 DEF Or
<1>10. BodyTags(r) \subseteq in.meta  BY <1>6 DEF MergeMeta
<1> QED
  BY <1>1, <1>2, <1>4, <1>6, <1>7, <1>8, <1>9, <1>10 DEF r, in, row

(* A copy keeps what the operator said of the event, takes the default     *)
(* author only when the event had none, and what its own text mentions is  *)
(* marked so (toJSONEvent, MergeMeta, AddMany).                            *)
THEOREM CopiesAreFaithful == VerbsSpec => CopiesKeepMetadata
<1>1. ASSUME BatchInv, VerbInv, [ImportNext]_all, Accepted, origin # Unknown,
             NEW k \in DOMAIN wire
      PROVE  LET old == Carried(origin.journal, origin.ids[k])
                 tags == BodyTags(origin.journal.events[origin.ids[k]])
                 copy == db'.meta[db.seq + k]
                 authored == \E t \in old : IsAuthor(t)
             IN /\ old # {} => \A t \in Tuples \ (old \cup tags) :
                                copy[t] # "none" => IsAuthor(t) /\ ~authored
                /\ \A t \in old \ tags : copy[t] = "explicit"
                /\ \A t \in tags : copy[t] = "body"
  <2> DEFINE old == OriginalMeta(k)  tags == BodyTags(Original(k))
             in == Input(flags', k)  copy == db'.meta[db.seq + k]
  <2>1. /\ copy = NewMeta(in) /\ \A t \in flags'.author : IsAuthor(t)
        /\ k \in 1..Len(wire)
    BY <1>1, AcceptedIs, FlagsAssumption DEF BatchInv, Input
  <2>2. Exported  BY <1>1 DEF BatchInv
  <2>3. /\ BodyTags(in) = tags /\ tags \subseteq Tuples /\ tags \subseteq in.meta
        /\ old # {} => in.meta = MergeMeta(tags, old, flags'.author)
    BY <1>1, <2>1, <2>2, CopyIs
  <2>4. old \subseteq Tuples  BY DEF Carried, OriginalMeta
  <2> HIDE DEF in, tags, old, copy
  <2>5. \A t \in Tuples : copy[t] = IF t \notin in.meta THEN "none"
                                    ELSE IF t \in tags THEN "body" ELSE "explicit"
    BY <2>1, <2>3 DEF NewMeta
  <2>6. \A t \in tags : copy[t] = "body"  BY <2>3, <2>5
  <2>7. \A t \in old \ tags : copy[t] = "explicit"
    BY <2>3, <2>4, <2>5 DEF MergeMeta
  <2>8. ASSUME old # {}, NEW t \in Tuples \ (old \cup tags), copy[t] # "none"
        PROVE  IsAuthor(t) /\ ~(\E u \in old : IsAuthor(u))
    <3>1. t \in MergeMeta(tags, old, flags'.author)  BY <2>3, <2>5, <2>8
    <3> QED  BY <2>1, <2>8, <3>1 DEF MergeMeta
  <2> QED  BY <2>6, <2>7, <2>8 DEF tags, old, copy, Original, OriginalMeta
<1>2. BatchInv /\ VerbInv /\ [ImportNext]_all =>
        [Accepted /\ origin # Unknown => \A k \in DOMAIN wire :
           LET old == Carried(origin.journal, origin.ids[k])
               tags == BodyTags(origin.journal.events[origin.ids[k]])
               copy == db'.meta[db.seq + k]
               authored == \E t \in old : IsAuthor(t)
           IN /\ old # {} => \A t \in Tuples \ (old \cup tags) :
                              copy[t] # "none" => IsAuthor(t) /\ ~authored
              /\ \A t \in old \ tags : copy[t] = "explicit"
              /\ \A t \in tags : copy[t] = "body"]_all
  BY <1>1
<1> QED  BY <1>2, BatchInvariant, VerbInvariant, PTL DEF VerbsSpec, CopiesKeepMetadata

(* An export whose events have an author, and their parents with them,     *)
(* passes every check of an import.                                        *)
LEMMA WholeExportValid ==
  ASSUME BatchInv, Exported, WholeExport, NEW f, Rows(db),
         f.parent \in Live(db) \cup {NoParent}
  PROVE  /\ ~AmbiguousIds(wire)
         /\ \A k \in 1..Len(wire) : /\ ~RecordRefused(Inputs(f)[k])
                                    /\ ~RecordFails(db, Inputs(f), k)
         /\ ValidBatch(Inputs(f))
<1> DEFINE d == origin.journal  ids == origin.ids  n == Len(wire)  ins == Inputs(f)
<1>1. /\ n \in Nat /\ DOMAIN wire = 1..n /\ d \in Journals
      /\ \A k \in 1..n : ids[k] \in Live(d) /\ wire[k] = ToRecord(d, ids[k])
      /\ \A j, k \in 1..n : ids[j] = ids[k] => j = k
  BY ExportedShape DEF Exported
<1>2. MadeByVerbs(d) /\ NoParent \notin Live(d)
  BY <1>1, JournalsAssumption, JournalRows, NoParentNotLive DEF MadeByVerbs
<1>3. Len(ins) = n /\ \A k \in 1..n : ins[k] = ToAddInput(wire, wire[k], f)
  BY InputsShape
<1>4. ASSUME NEW k \in 1..n
      PROVE  LET row == d.events[ids[k]] IN
             /\ ids[k] \in Live(d) /\ wire[k].id = ids[k] /\ wire[k].parent = row.parent
             /\ ins[k].title = row.title /\ ins[k].at = row.at /\ row \in EventRow
             /\ ins[k].meta = MergeMeta(BodyTags(row), Carried(d, ids[k]), f.author)
             /\ \E t \in Carried(d, ids[k]) : IsAuthor(t)
  <2>1. \E t \in OriginalMeta(k) : IsAuthor(t)  BY <1>1 DEF WholeExport, OriginalMeta
  <2>2. ins[k] = Input(f, k)  BY <1>3 DEF Input
  <2> HIDE DEF ins
  <2>3. OriginalMeta(k) # {}  BY <2>1
  <2>4. /\ ids[k] \in Live(d) /\ wire[k].id = ids[k] /\ wire[k].parent = Original(k).parent
        /\ ins[k].title = Original(k).title /\ ins[k].at = Original(k).at
        /\ Original(k) \in EventRow
        /\ ins[k].meta = MergeMeta(BodyTags(Original(k)), OriginalMeta(k), f.author)
    BY <2>2, <2>3, CopyIs
  <2> QED  BY <2>1, <2>4 DEF Original, OriginalMeta
<1>5. ~AmbiguousIds(wire)
  <2>1. ASSUME NEW k \in 1..n PROVE RecordsWithId(wire, wire[k].id) = {k}
    <3>1. wire[k].id # NoParent  BY <1>2, <1>4
    <3>2. \A j \in 1..n : wire[j].id = wire[k].id => j = k  BY <1>1, <1>4
    <3> QED  BY <1>1, <3>1, <3>2 DEF RecordsWithId
  <2>2. ASSUME NEW k \in 1..n PROVE ~(Cardinality(RecordsWithId(wire, wire[k].id)) > 1)
    <3>1. Cardinality({k}) = 1  BY FS_Singleton
    <3>2. Cardinality(RecordsWithId(wire, wire[k].id)) = 1  BY <2>1, <3>1
    <3> QED  BY <3>2
  <2> QED  BY <1>1, <2>2 DEF AmbiguousIds
<1>6. ASSUME NEW k \in 1..n
      PROVE  LET p == d.events[ids[k]].parent IN
             IF p = NoParent THEN ins[k].index = 0 /\ ins[k].parent = f.parent
             ELSE ins[k].index \in 1..n /\ ins[k].parent = NoParent /\ ids[ins[k].index] = p
  <2> DEFINE p == wire[k].parent  x == BatchIndex(wire, p)
             named == {j \in DOMAIN wire : wire[j].id = p}
  <2>1. p = d.events[ids[k]].parent  BY <1>4
  <2>2. /\ ins[k].index = x
        /\ ins[k].parent = IF p = NoParent THEN f.parent ELSE IF x = 0 THEN p ELSE NoParent
    <3>1. ins[k] = ToAddInput(wire, wire[k], f)  BY <1>3
    <3> HIDE DEF ins, x
    <3> QED  BY <3>1 DEF ToAddInput, x
  <2>3. p = NoParent => x = 0  BY <1>5, IndexIs
  <2>4. ASSUME p # NoParent PROVE x \in 1..n /\ wire[x].id = p
    <3>1. p \in {wire[j].id : j \in DOMAIN wire}  BY <1>1, <2>4 DEF WholeExport
    <3>2. PICK j \in DOMAIN wire : wire[j].id = p  BY <3>1
    <3>3. x \in 1..Len(wire) /\ \A m \in named : x = m  BY <1>5, <2>4, <3>2, IndexIs
    <3>4. x = j  BY <3>2, <3>3
    <3> QED  BY <3>2, <3>3, <3>4
  <2> HIDE DEF p, x, ins
  <2> QED  BY <1>4, <2>1, <2>2, <2>3, <2>4
<1>7. ASSUME NEW k \in 1..n
      PROVE  /\ OneAuthor(ins[k].meta) /\ ins[k].meta \cap Unfindable = {}
             /\ \E t \in ins[k].meta : IsAuthor(t)
             /\ ins[k].title # Empty
  <2> DEFINE row == d.events[ids[k]]  tags == BodyTags(row)  old == Carried(d, ids[k])
  <2>1. \A t \in tags : ~IsAuthor(t) /\ t \notin Unfindable
    <3>1. row.title \in Texts /\ row.body \in Texts  BY <1>4 DEF EventRow
    <3> QED  BY <3>1, TagAssumption DEF BodyTags
  <2>2. OneAuthor(old) /\ old \cap Unfindable = {} /\ row.title # Empty
    BY <1>2, <1>4 DEF MadeByVerbs
  <2>3. ins[k].meta = tags \cup old /\ ins[k].title = row.title /\ \E t \in old : IsAuthor(t)
    BY <1>4 DEF MergeMeta
  <2> HIDE DEF tags, old, row, ins
  <2> QED  BY <2>1, <2>2, <2>3 DEF OneAuthor
<1>8. AcyclicIndexes(ins)
  <2> SUFFICES ASSUME NEW S \in (SUBSET (1..n)) \ {{}} PROVE \E k \in S : ins[k].index \notin S
    BY <1>3 DEF AcyclicIndexes
  <2> DEFINE T == {ids[k] : k \in S}
  <2>1. T \subseteq Live(d) /\ T # {}  BY <1>4
  <2>2. PICK i \in T : d.events[i].parent \notin T
    BY <1>2, <2>1 DEF MadeByVerbs, AcyclicTree
  <2>3. PICK k \in S : i = ids[k]  BY <2>2
  <2>4. 0 \notin S  OBVIOUS
  <2> HIDE DEF ins
  <2>5. k \in 1..n /\ ins[k].index \notin S  BY <1>6, <2>2, <2>3, <2>4
  <2> QED  BY <2>5
<1>9. ASSUME NEW k \in 1..n PROVE ~RecordFails(db, ins, k)
  <2>1. ins[k].at # BadStamp
    BY <1>4, StampAssumption DEF EventRow
  <2>2. ins[k].parent \in Live(db) \cup {NoParent}  BY <1>6
  <2> HIDE DEF ins
  <2> QED  BY <2>1, <2>2 DEF RecordFails, ParentFound
<1>10. ASSUME NEW k \in 1..n PROVE ~RecordRefused(ins[k]) /\ ValidInput(ins[k], n)
  <2> HIDE DEF ins
  <2>1. ins[k].index # 0 => ins[k].parent = NoParent /\ ins[k].index \in 1..n
    BY <1>6
  <2> QED  BY <1>7, <2>1 DEF RecordRefused, ValidInput
<1> HIDE DEF ins
<1>11. ValidBatch(ins)  BY <1>3, <1>8, <1>10 DEF ValidBatch
<1> QED  BY <1>5, <1>9, <1>10, <1>11 DEF ins

(* fngr can read back what it wrote: the export of authored events with    *)
(* their parents goes into any journal, whatever its ids and however they  *)
(* moved since, as long as --parent names an event of it.                  *)
THEOREM ExportsComeBack == VerbsSpec => ExportsImport
<1>1. ASSUME BatchInv, VerbInv, [ImportNext]_all, Loads, WholeExport,
             flags'.parent \in Live(db) \cup {NoParent}
      PROVE  Accepted
  <2> DEFINE f == flags'  ins == Inputs(f)  n == Len(wire)
  <2>1. /\ wire # <<>> /\ db' = Imported(db, wire, f).db /\ Rows(db)
    BY <1>1, WhoLoads DEF Loads, VerbInv, RowsInv
  <2>2. Exported  BY <1>1 DEF BatchInv, WholeExport
  <2>3. /\ ~AmbiguousIds(wire) /\ ValidBatch(ins)
        /\ \A k \in 1..n : ~RecordRefused(ins[k]) /\ ~RecordFails(db, ins, k)
    BY <1>1, <2>1, <2>2, WholeExportValid
  <2>4. Len(ins) = n /\ n \in Nat /\ DOMAIN wire = 1..n /\ n # 0
    BY <1>1, <2>1, InputsShape DEF BatchInv
  <2>5. Imported(db, wire, f) =
          IF AmbiguousIds(wire) \/ \E k \in DOMAIN wire : RecordRefused(ins[k])
          THEN Fail(db, "invalid") ELSE AddMany(db, ins)
    BY DEF Imported, Inputs
  <2> HIDE DEF ins, f
  <2>6. db' = Inserted(db, ins)  BY <2>1, <2>3, <2>4, <2>5 DEF AddMany, Done
  <2>7. db'.seq = db.seq + n /\ db.seq \in Nat  BY <2>1, <2>4, <2>6 DEF Inserted, Rows
  <2>8. db' # db  BY <2>4, <2>7
  <2> QED  BY <1>1, <2>8 DEF Accepted
<1>2. BatchInv /\ VerbInv /\ [ImportNext]_all =>
        [Loads /\ WholeExport /\ flags'.parent \in Live(db) \cup {NoParent} => Accepted]_all
  BY <1>1
<1> QED  BY <1>2, BatchInvariant, VerbInvariant, PTL DEF VerbsSpec, ExportsImport

===============================================================================
