------------------------------- MODULE MCJournal -------------------------------
(***************************************************************************)
(* Small instances of Journal: values for its constants, and journals an   *)
(* older build or a hand edit can leave behind.                            *)
(***************************************************************************)
EXTENDS Walks

CONSTANTS plain, tagged, t1, bad

(* Two authors, a tag the text can mention, a key of the operator's own    *)
(* and one an older build stored though no search finds it.                *)
ada   == [key |-> "author", value |-> "ada"]
bob   == [key |-> "author", value |-> "bob"]
ops   == [key |-> "tag", value |-> "ops"]
env   == [key |-> "env", value |-> "prod"]
blank == [key |-> "env", value |-> ""]

MCTexts    == {Empty, plain, tagged}
MCTuples   == {ada, bob, ops, env, blank}
MCTagsIn   == [x \in MCTexts |-> IF x = tagged THEN {ops} ELSE {}]
MCNone     == {}
MCStamps   == {t1}
MCMetaArgs == {{}, {ada}, {ada, bob}, {ada, ops}, {ops}, {env}, {blank}}
MCUnfindable == {blank}

(* Trees: one text, one author.                                            *)
TreeTexts    == {Empty, plain}
TreeTagsIn   == [x \in TreeTexts |-> {}]
TreeTuples   == {ada}
TreeMetaArgs == {{ada}}
TreeNewTexts == {plain}

(* A file a hand edit broke: a ring 1 -> 2 -> 1 under which 3 hangs.       *)
RingMeta     == [t \in TreeTuples |-> "explicit"]
RingEvent(i) == [parent |-> IF i = 1 THEN 2 ELSE IF i = 2 THEN 1 ELSE 2,
                 title |-> plain, body |-> plain, at |-> t1]
RingJournal  ==
  [ events |-> [i \in 1..3 |-> RingEvent(i)],
    meta   |-> [i \in 1..3 |-> RingMeta],
    fts    |-> [i \in 1..3 |-> FTSColumns(RingEvent(i), RingMeta)],
    seq    |-> 3 ]

TreeSpec == db \in {EmptyJournal, RingJournal} /\ [][SettledNext]_db

===============================================================================
