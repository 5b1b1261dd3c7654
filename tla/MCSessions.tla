------------------------------ MODULE MCSessions ------------------------------
(* A small instance of Sessions: two processes, and the calls they make.   *)
EXTENDS Sessions

CONSTANTS plain, tagged, t1, bad

ada == [key |-> "author", value |-> "ada"]
ops == [key |-> "tag", value |-> "ops"]

MCNone     == {}
MCStamps   == {t1}
MCTexts    == {Empty, plain, tagged}
MCTagsIn   == [x \in MCTexts |-> IF x = tagged THEN {ops} ELSE {}]
MCNewTexts == {plain, tagged}
MCTuples   == {ada, ops}
MCMetaArgs == {{ada}, {ops}}

Record(p, at) == [title |-> plain, body |-> plain, meta |-> {ada},
                  parent |-> p, index |-> 0, at |-> at]

(* Write first and read first, moves that close a ring together, every     *)
(* metadata verb, failures on the arguments, on what is read, and with     *)
(* the lock held.                                                          *)
MCRequests ==
  { [kind |-> "add", ins |-> <<Record(NoParent, t1)>>],
    [kind |-> "add", ins |-> <<Record(1, t1)>>],
    [kind |-> "add", ins |-> <<Record(NoParent, BadStamp)>>],
    [kind |-> "reparent", id |-> 1, parent |-> 2],
    [kind |-> "reparent", id |-> 2, parent |-> 1],
    [kind |-> "delete", id |-> 1],
    [kind |-> "update", id |-> 1, title |-> Keep, body |-> tagged, at |-> Keep],
    [kind |-> "addTags", id |-> 1, tags |-> {ops}],
    [kind |-> "updateMeta", old |-> ops, new |-> ops],
    [kind |-> "deleteMeta", tuple |-> ops] }

===============================================================================
