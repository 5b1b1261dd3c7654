-------------------------------- MODULE Commands --------------------------------
(***************************************************************************)
(* The verbs of cmd/fngr that read the journal, perhaps ask, and then      *)
(* write: delete, meta rename, meta delete, event attach and detach, event *)
(* time and event date, and add with its --time.  Every call on the store  *)
(* is one transaction (Sessions.tla), but a verb makes several: other      *)
(* processes write between them, and for as long as a prompt waits for its *)
(* answer.                                                                 *)
(***************************************************************************)
EXTENDS JournalOps, Clocks

CONSTANTS
  Procs,     (* The fngr processes.                                         *)
  Lines,     (* The command lines they may be given.                        *)
  Openings,  (* The journals they may find.                                 *)
  Nows,      (* The instants at which they run.                             *)
  AddLimit   (* The last id fngr add hands out.  Bounds the model.          *)

(* created_at is an instant.                                               *)
ASSUME InstantsAssumption == Stamps \subseteq Int /\ Nows \subseteq Stamps
ASSUME OpeningAssumption == \A d \in Openings : IsJournal(d)
ASSUME AddLimitAssumption == AddLimit \in 0..MaxId
ASSUME TitleAssumption == \E x \in Texts : x # Empty

VARIABLES
  db,
  pc,        (* Where each process is in its verb.                          *)
  line,      (* The command line it runs.                                   *)
  subject,   (* delete: how many events the prompt and the result line      *)
             (* name, Uncounted when the count failed.  attach, detach: the *)
             (* parent the result line names.                               *)
  stamp,     (* event time, event date, add: [now, at, warned], what it is  *)
             (* about to store and whether it has warned of a skipped clock.*)
  answer     (* What was typed at its prompt.                               *)

vars == <<db, pc, line, subject, stamp, answer>>

Uncounted == 0
NoLine  == [verb |-> "none"]
NoStamp == [now |-> 0, at |-> 0, warned |-> FALSE]
Prompting == {"delete", "rename", "metaDelete"}
Stamping == {"time", "date", "add"}
Moving == {"attach", "detach"}

(* A value names an hour of the day, as the layouts of timefmt do.         *)
Typed(c) == c.verb \in Stamping =>
              c.value \in [form : Forms, day : Int, hour : 0..DayHours-1, ago : Int]
ASSUME LinesAssumption == \A c \in Lines : Typed(c)

Answers == {"yes", "no", "enter", "eof"}

Idle == /\ pc = [p \in Procs |-> "idle"]
        /\ line = [p \in Procs |-> NoLine]
        /\ subject = [p \in Procs |-> Uncounted]
        /\ stamp = [p \in Procs |-> NoStamp]
        /\ answer = [p \in Procs |-> "none"]

Init == db \in Openings /\ Idle

Goto(p, from, to) == pc[p] = from /\ pc' = [pc EXCEPT ![p] = to]

Start(p, c) ==
  /\ Goto(p, "idle", "reading")
  /\ c.verb = "add" => db.seq < AddLimit
  /\ line' = [line EXCEPT ![p] = c]
  /\ UNCHANGED <<db, subject, stamp, answer>>

(* The verb returns: an error, an abort, or its result line.               *)
Return(p, from) ==
  /\ Goto(p, from, "idle")
  /\ line' = [line EXCEPT ![p] = NoLine]
  /\ subject' = [subject EXCEPT ![p] = Uncounted]
  /\ answer' = [answer EXCEPT ![p] = "none"]
  /\ stamp' = [stamp EXCEPT ![p] = NoStamp]

HasChildren(d, i) == \E j \in Live(d) : d.events[j].parent = i

(* Bug: only the direct children counted.                                  *)
CountChildren(d, i) ==
  IF i \notin Live(d) THEN Uncounted
  ELSE 1 + Cardinality({j \in Live(d) : d.events[j].parent = i})

(* CountSubtree fails on a missing root and on a subtree with its own root *)
(* below it; deleteSubject then names no number.                           *)
CountSubtree(d, i) ==
  IF i \notin Live(d) \/ d.events[i].parent \in Subtree(d, i)
  THEN Uncounted ELSE Cardinality(Subtree(d, i))

CountMeta(d, t) == Cardinality(MetaEventIDs(d, t))

(* delete: Get, then HasChildren, then CountSubtree, a query each.         *)
GetSubject(p) ==
  /\ Goto(p, "reading", "probing")
  /\ line[p].verb = "delete" /\ line[p].id \in Live(db)
  /\ UNCHANGED <<db, line, subject, stamp, answer>>

(* Bug: a parent deleted without -r.                                       *)
ProbeChildrenOnly(p) ==
  /\ Goto(p, "probing", IF HasChildren(db, line[p].id) THEN "counting" ELSE "asking")
  /\ subject' = [subject EXCEPT ![p] = 1]
  /\ UNCHANGED <<db, line, stamp, answer>>

ProbeChildren(p) ==
  LET c == line[p] IN
  /\ pc[p] = "probing"
  /\ HasChildren(db, c.id) => c.recursive
  /\ Goto(p, "probing", IF HasChildren(db, c.id) THEN "counting" ELSE "asking")
  /\ subject' = [subject EXCEPT ![p] = 1]
  /\ UNCHANGED <<db, line, stamp, answer>>

CountDamage(p) ==
  /\ Goto(p, "counting", "asking")
  /\ subject' = [subject EXCEPT ![p] = CountSubtree(db, line[p].id)]
  /\ UNCHANGED <<db, line, stamp, answer>>

(* delete of a parent without -r.                                          *)
RefuseParent(p) ==
  /\ pc[p] = "probing" /\ HasChildren(db, line[p].id) /\ ~line[p].recursive
  /\ Return(p, "probing")
  /\ UNCHANGED db

(* meta rename and meta delete: CountMeta.                                 *)
CountOccurrences(p) ==
  /\ Goto(p, "reading", "asking")
  /\ line[p].verb \in {"rename", "metaDelete"} /\ CountMeta(db, line[p].tuple) > 0
  /\ UNCHANGED <<db, line, subject, stamp, answer>>

Displaced(d, c) == d.events[c.id].parent

(* event attach and event detach: Get, for the parent the move displaces.  *)
ReadParent(p) ==
  /\ Goto(p, "reading", "acting")
  /\ line[p].verb \in Moving /\ line[p].id \in Live(db)
  /\ line[p].verb = "detach" => db.events[line[p].id].parent # NoParent
  /\ subject' = [subject EXCEPT ![p] = Displaced(db, line[p])]
  /\ UNCHANGED <<db, line, stamp, answer>>

NothingToDetach(p) ==
  /\ pc[p] = "reading"
  /\ line[p].verb = "detach" /\ line[p].id \in Live(db)
  /\ db.events[line[p].id].parent = NoParent
  /\ Return(p, "reading")
  /\ UNCHANGED db

(* Values event time and event date refuse, and stamps out of range.       *)
Refused(c, now) == \/ c.verb = "time" /\ ~HasTime(c.value)
                   \/ c.verb = "date" /\ ~HasDate(c.value)
                   \/ ParsePartial(c.value, now).t \notin Stamps

(* Only half a timestamp was typed: the other half is the event's.         *)
Half(c) == \/ c.verb = "time" /\ ~HasDate(c.value)
           \/ c.verb = "date" /\ ~HasTime(c.value)

Resolved(d, c, now) ==
  LET parsed == ParsePartial(c.value, now) IN
  IF ~Half(c) THEN parsed
  ELSE IF c.verb = "time" THEN SpliceTime(d.events[c.id].at, parsed.t)
  ELSE SpliceDate(d.events[c.id].at, parsed.t)

(* ParsePartial, the Get of a half timestamp, and warnSkippedClock.        *)
ReadStamp(p, now) ==
  LET c == line[p] IN
  /\ Goto(p, "reading", "acting")
  /\ c.verb \in Stamping /\ ~Refused(c, now)
  /\ Half(c) => c.id \in Live(db)
  /\ LET r == Resolved(db, c, now) IN
       stamp' = [stamp EXCEPT ![p] = [now |-> now, at |-> r.t, warned |-> ~r.exists]]
  /\ UNCHANGED <<db, line, subject, answer>>

RefuseStamp(p, now) ==
  /\ pc[p] = "reading" /\ line[p].verb \in Stamping /\ Refused(line[p], now)
  /\ Return(p, "reading")
  /\ UNCHANGED db

(* What the verb is about is not there.                                    *)
NothingThere(p) ==
  /\ pc[p] = "reading"
  /\ CASE line[p].verb \in {"rename", "metaDelete"} -> CountMeta(db, line[p].tuple) = 0
       [] line[p].verb \in {"delete"} \cup Moving   -> line[p].id \notin Live(db)
       [] OTHER -> Half(line[p]) /\ line[p].id \notin Live(db)
  /\ Return(p, "reading")
  /\ UNCHANGED db

(* Bug: the end of the input taken for an empty line.                      *)
ConfirmedAtEOF(a, default) == a = "yes" \/ (a \in {"enter", "eof"} /\ default)

(* confirm: y or yes, or an empty line where the prompt offers [Y/n].      *)
DefaultYes(c) == c.verb = "rename"
Confirmed(a, default) == a = "yes" \/ (a = "enter" /\ default)

Ask(p, a) ==
  /\ Goto(p, "asking", "acting")
  /\ line[p].force \/ Confirmed(a, DefaultYes(line[p]))
  /\ answer' = [answer EXCEPT ![p] = IF line[p].force THEN "none" ELSE a]
  /\ UNCHANGED <<db, line, subject, stamp>>

Abort(p, a) ==
  /\ pc[p] = "asking" /\ ~line[p].force /\ ~Confirmed(a, DefaultYes(line[p]))
  /\ Return(p, "asking")
  /\ UNCHANGED db

(* Bug: an attach that asks for a sound ancestry of the event it clears.   *)
MovedWalking(c) ==
  IF OnRing(db) # {} THEN Fail(db, "corrupt_tree")
  ELSE Reparent(db, c.id, IF c.verb = "attach" THEN c.parent ELSE NoParent)

Moved(c) == Reparent(db, c.id, IF c.verb = "attach" THEN c.parent ELSE NoParent)

(* formatTimestamp refuses what a splice took out of range.                *)
Storable(t) == IF t \in Stamps THEN t ELSE BadStamp

Added(c, at) ==
  AddMany(db, <<[title |-> CHOOSE x \in Texts : x # Empty, body |-> Empty, meta |-> {},
                 parent |-> c.parent, index |-> 0, at |-> at]>>)

(* The one write of the verb.                                              *)
Written(p) ==
  LET c == line[p] IN
  CASE c.verb = "delete"      -> Delete(db, c.id)
    [] c.verb = "rename"      -> UpdateMeta(db, c.tuple, c.new)
    [] c.verb = "metaDelete"  -> DeleteMeta(db, c.tuple)
    [] c.verb \in Moving      -> Moved(c)
    [] c.verb \in {"time", "date"} ->
         Update(db, c.id, Keep, Keep, Storable(stamp[p].at))
    [] c.verb = "add"         -> Added(c, Storable(stamp[p].at))

Act(p) ==
  /\ pc[p] = "acting"
  /\ db' = Written(p).db
  /\ Return(p, "acting")

Steps(lines) == \E p \in Procs :
                  \/ \E c \in lines : Start(p, c)
                  \/ GetSubject(p)  \/ ProbeChildren(p) \/ CountDamage(p)
                  \/ RefuseParent(p) \/ CountOccurrences(p)
                  \/ ReadParent(p)  \/ NothingToDetach(p) \/ NothingThere(p)
                  \/ \E now \in Nows : ReadStamp(p, now) \/ RefuseStamp(p, now)
                  \/ \E a \in Answers : Ask(p, a) \/ Abort(p, a)
                  \/ Act(p)

Next == Steps(Lines)

Spec == Init /\ [][Next]_vars

-------------------------------------------------------------------------------
Acts(p, verb) == pc[p] = "acting" /\ pc'[p] = "idle" /\ line[p].verb = verb
Taken == Live(db) \ Live(db')

(* Silence is not consent: what a verb that prompts writes was asked for   *)
(* with --force, a yes, or Enter where the prompt says that means yes.     *)
Consented(p) == \/ line[p].force
                \/ answer[p] = "yes"
                \/ answer[p] = "enter" /\ line[p].verb = "rename"
ConsentRequired ==
  [][\A p \in Procs, v \in Prompting : Acts(p, v) /\ db' # db => Consented(p)]_vars

(* delete takes children along only when it was given -r.                  *)
ChildrenNeedRecursive ==
  [][\A p \in Procs : Acts(p, "delete") /\ ~line[p].recursive => Cardinality(Taken) <= 1]_vars

(* The result line of a delete names what the delete took, that of attach  *)
(* and of detach the parent the event was moved away from.                 *)
DoneAsNamed ==
  [][\A p \in Procs :
       /\ Acts(p, "delete") /\ Taken # {} /\ subject[p] # Uncounted
            => Cardinality(Taken) = subject[p]
       /\ \A v \in Moving : Acts(p, v) /\ db' # db
            => subject[p] = db.events[line[p].id].parent]_vars

(* Detaching any event of a ring breaks the ring: what an error about a    *)
(* corrupt tree tells the user to do works on that very tree.              *)
DetachMends ==
  [][\A p \in Procs : Acts(p, "detach") =>
       OnRing(db') \subseteq OnRing(db) \ {line[p].id}]_vars

(* What stands in the journal shows the date and the clock that were typed *)
(* for it, or a warning said that it does not.                             *)
NamedDay(v, now) == IF v.form \in {"date", "both"} THEN v.day ELSE Day(Shown(now)) - v.ago
ShowsTyped(at, v, now) ==
  /\ v.form \in {"date", "both", "dayAgo", "dayAgoAt"} => Day(Shown(at)) = NamedDay(v, now)
  /\ v.form \in {"clock", "both", "dayAgoAt"} => Hour(Shown(at)) = v.hour
Stamped(p) == IF line[p].verb = "add" THEN Live(db') \ Live(db) ELSE {line[p].id} \cap Live(db')
TypedOrWarned ==
  [][\A p \in Procs, v \in Stamping : Acts(p, v) /\ db' # db /\ ~stamp[p].warned =>
       \A i \in Stamped(p) : ShowsTyped(db'.events[i].at, line[p].value, stamp[p].now)]_vars

(* event time with a bare clock preserves the date of the event, event     *)
(* date with a bare date its clock, or a warning said otherwise.           *)
OtherHalfKept ==
  [][\A p \in Procs : \A i \in Live(db) \cap Live(db') :
       LET old == Shown(db.events[i].at) new == Shown(db'.events[i].at) IN
       /\ Acts(p, "time") /\ Half(line[p]) /\ ~stamp[p].warned => Day(new) = Day(old)
       /\ Acts(p, "date") /\ Half(line[p]) /\ ~stamp[p].warned => Hour(new) = Hour(old)]_vars

===============================================================================
