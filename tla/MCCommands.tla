------------------------------ MODULE MCCommands ------------------------------
(* Small instances of Commands: a parent with a child, a ring of two with  *)
(* an event below it, and the verbs on them.                               *)
EXTENDS Commands

CONSTANTS plain, bad

wip  == [key |-> "tag", value |-> "wip"]
done == [key |-> "tag", value |-> "done"]

MCNone   == {}
MCTexts  == {Empty, plain}
MCTuples == {wip, done}
MCTagsIn == [x \in MCTexts |-> {}]
(* A zone west of Greenwich whose clocks skip hour 2 of day 1, and the     *)
(* instants of days 0 and 1.                                               *)
MCZone   == [before |-> -2, at |-> 8, after |-> -1]
MCStamps == 2..8

Event(p, at) == [parent |-> p, title |-> plain, body |-> Empty, at |-> at]
Tagged == [t \in MCTuples |-> IF t = wip THEN "explicit" ELSE "none"]
Holding(parents, at) ==
  LET n == 1..Len(parents) IN
  [ events |-> [i \in n |-> Event(parents[i], at)],
    meta   |-> [i \in n |-> Tagged],
    fts    |-> [i \in n |-> FTSColumns(Event(parents[i], at), Tagged)],
    seq    |-> Len(parents) ]
TreeOpenings == {Holding(<<0, 1>>, 2)}
DayOpenings  == {Holding(<<0, 1>>, 7)}

Value(form, day, hour, ago) == [form |-> form, day |-> day, hour |-> hour, ago |-> ago]
ClockValues == {Value("clock", 0, h, 0) : h \in {0, 2}}
DateValues  == {Value("date", 1, 0, 0), Value("dayAgo", 0, 0, 0), Value("dayAgo", 0, 0, 1)}
FullValues  == {Value("both", 1, 2, 0), Value("dayAgoAt", 0, 2, 0), Value("instant", 0, 0, 1)}

DeleteLines == [verb : {"delete"}, id : 1..2, recursive : BOOLEAN, force : BOOLEAN]
StampLines  == [verb : {"time", "date"}, id : {2}, value : ClockValues \cup DateValues \cup FullValues]
AddLines    == [verb : {"add"}, parent : {0, 1, 2}, value : {Value("both", 1, 2, 0)}]

(* The race of a delete with an add under the same parent.                 *)
RaceLines == DeleteLines \cup AddLines

===============================================================================
