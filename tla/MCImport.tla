-------------------------------- MODULE MCImport --------------------------------
(* Small instances of Import, beside the verbs of MCCommands: journals with*)
(* ids that collide with those of another, and batches written by hand.    *)
EXTENDS Import

CONSTANTS tagged, plain, bad

ada  == [key |-> "author", value |-> "ada"]
bob  == [key |-> "author", value |-> "bob"]
ops  == [key |-> "tag", value |-> "ops"]
wip  == [key |-> "tag", value |-> "wip"]
done == [key |-> "tag", value |-> "done"]

MCTexts    == {Empty, plain, tagged}
MCTagsIn   == [x \in MCTexts |-> IF x = tagged THEN {ops} ELSE {}]
MCTuples   == {ada, bob, ops, wip, done}
MCNone     == {}

(* A zone west of Greenwich whose clocks skip hour 2 of day 1, and the     *)
(* instants of days 0 and 1.                                               *)
MCZone   == [before |-> -2, at |-> 8, after |-> -1]
MCStamps == 2..8

(* Events under the given parents, of the given authors and text.          *)
Holding(parents, meta, text, at) ==
  LET n == 1..Len(parents)
      in(i) == [title |-> text, body |-> Empty, meta |-> meta[i], at |-> at,
                parent |-> parents[i], index |-> 0]
  IN AddMany(EmptyJournal, [i \in n |-> in(i)]).db

(* The ring no batch can make: a hand edit.                                *)
Ringed == [Holding(<<0, 1, 1>>, <<{ada}, {ada}, {wip}>>, plain, 7)
             EXCEPT !.events[1].parent = 2]

MCJournals == { Holding(<<0, 1>>, <<{ada, ops}, {bob, wip}>>, tagged, 2),
                Holding(<<0, 0, 2>>, <<{ada}, {ada, wip}, {}>>, plain, 2),
                Holding(<<0, 1, 2, 3>>, <<{ada}, {bob}, {ada, ops}, {bob}>>, plain, 2) }
MCOpenings == {Ringed, Holding(<<0, 1>>, <<{wip}, {wip}>>, plain, 2)}

MCFlagSets == { [parent |-> 0, meta |-> {}, author |-> {ada}, at |-> 3],
                [parent |-> 1, meta |-> {wip}, author |-> {}, at |-> 3] }

Rec(id, parent, meta) == [id |-> id, title |-> plain, body |-> Empty,
                          parent |-> parent, at |-> Keep, meta |-> meta]
MCByHand == { <<Rec(0, 2, Keep)>>,
              <<Rec(2, 0, {ada}), Rec(2, 0, {ada}), Rec(1, 2, {ada})>>,
              <<Rec(1, 2, {ada}), Rec(2, 1, {ada})>>,
              <<Rec(0, 0, {ada, bob})>> }

Value(form, day, hour, ago) == [form |-> form, day |-> day, hour |-> hour, ago |-> ago]
ClockValues == {Value("clock", 0, h, 0) : h \in {0, 2}}
DateValues  == {Value("date", 1, 0, 0), Value("dayAgo", 0, 0, 0), Value("dayAgo", 0, 0, 1)}
FullValues  == {Value("both", 1, 2, 0), Value("dayAgoAt", 0, 2, 0), Value("instant", 0, 0, 1)}

DeleteLines == [verb : {"delete"}, id : 1..2, recursive : BOOLEAN, force : BOOLEAN]
MoveLines   == [verb : {"attach"}, id : 1..3, parent : 1..2] \cup [verb : {"detach"}, id : 1..3]
StampLines  == [verb : {"time", "date"}, id : {2}, value : ClockValues \cup DateValues \cup FullValues]
AddLines    == [verb : {"add"}, parent : {0, 1, 2}, value : {Value("both", 1, 2, 0)}]
MetaLines   == [verb : {"rename"}, tuple : {wip}, new : {done}, force : BOOLEAN]
               \cup [verb : {"metaDelete"}, tuple : {wip, done}, force : BOOLEAN]
MCLines     == DeleteLines \cup MoveLines \cup StampLines \cup AddLines \cup MetaLines

(* While a batch is on its way.                                            *)
MCMeanwhile == [verb : {"delete"}, id : 1..3, recursive : {TRUE}, force : {TRUE}]
               \cup [verb : {"attach"}, id : 1..3, parent : 1..3]

===============================================================================
