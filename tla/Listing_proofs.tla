---------------------------- MODULE Listing_proofs ----------------------------
(***************************************************************************)
(* What a listing shows, for any journal, batch size, buffer and pipe, and *)
(* any number of commits of others while it runs.                          *)
(***************************************************************************)
EXTENDS Terminal_proofs, Text_proofs

-------------------------------------------------------------------------------
(* The metadata of what is listed: an event that waits in the batch, in    *)
(* the tree view or in what was said has that of one of the commits.       *)

Fits(e) == \E c \in DOMAIN commits :
             e.meta = IF e.id \in Live(commits[c]) THEN Carried(commits[c], e.id) ELSE {}

MetaInv ==
  /\ IsSeq(commits) /\ IsSeq(said) /\ IsSeq(batch) /\ IsSeq(rows)
  /\ commits = <<>> => db \in Openings /\ batch = <<>> /\ got = {} /\ Told = {}
  /\ commits # <<>> => commits[Len(commits)] = db /\ cursor # "unopened"
  /\ cursor = "open" => commits # <<>>
  /\ \A k \in Told : Fits(said[k])
  /\ \A k \in DOMAIN batch : Fits(batch[k])
  /\ \A e \in got : Fits(e)

LEMMA MetaInit == Init => MetaInv
<1>1. IsSeq(<<>>) /\ DOMAIN <<>> = {}  BY IdleShape
<1> QED  BY <1>1 DEF Init, TerminalInit, Unopened, MetaInv, Told

LEMMA SaidGrown ==
  ASSUME MetaInv, UNCHANGED <<db, commits, cursor, rows>>,
         IsSeq(batch'), \A k \in DOMAIN batch' : Fits(batch'[k]), \A e \in got' : Fits(e),
         commits = <<>> => batch' = <<>> /\ got' = {},
         \/ said' = said
         \/ \E x : said' = Append(said, x) /\ (x.what = "event" => Fits(x) /\ commits # <<>>)
  PROVE  MetaInv'
<1>1. \A e : Fits(e) => Fits(e)'  BY DEF Fits
<1>2. /\ IsSeq(said')
      /\ \A k \in Told' : \/ k \in Told /\ said'[k] = said[k]
                          \/ Fits(said'[k]) /\ commits # <<>>
  <2>1. CASE said' = said  BY <2>1 DEF MetaInv, Told
  <2>2. ASSUME NEW x, said' = Append(said, x), x.what = "event" => Fits(x) /\ commits # <<>>
        PROVE  <1>2!:
    <3>1. /\ IsSeq(said') /\ DOMAIN said' = 1..Len(said)+1 /\ said'[Len(said)+1] = x
          /\ Len(said) \in Nat /\ DOMAIN said = 1..Len(said)
          /\ \A k \in DOMAIN said : said'[k] = said[k]
      BY <2>2, Appended DEF MetaInv
    <3>2. \A k \in Told' : k \in DOMAIN said \/ k = Len(said)+1  BY <3>1 DEF Told
    <3> QED  BY <2>2, <3>1, <3>2 DEF Told
  <2> QED  BY <2>1, <2>2
<1>3. \A k \in Told' : Fits(said'[k])  BY <1>2 DEF MetaInv
<1>4. commits = <<>> => Told' = {}  BY <1>2 DEF MetaInv
<1> QED  BY <1>1, <1>2, <1>3, <1>4 DEF MetaInv

(* A step that reads nothing.                                              *)
LEMMA SaidFrame ==
  ASSUME MetaInv, UNCHANGED <<reading, got>>,
         said' = said \/ \E x : said' = Append(said, x) /\ x.what # "event"
  PROVE  MetaInv'
BY SaidGrown DEF MetaInv, reading

(* What the query answers is a sequence.                                   *)
LEMMA AnswersAreSeqs ==
  ASSUME NEW q \in Jobs, q.kind = "list", db \in Openings, ~RequestRefused(q),
         NEW ids \in Answers(db, q)
  PROVE  IsSeq(ids)
<1> DEFINE S == Matching(db, q)
<1>1. IsFiniteSet(S)
  <2>1. IsFiniteSet(Ids)  BY MaxIdAssumption, FS_Interval DEF Ids
  <2>2. S \subseteq Ids  BY OpeningsAssumption DEF Matching
  <2> QED  BY <2>1, <2>2, FS_Subset
<1>2. Cardinality(S) \in Nat  BY <1>1, FS_CardinalityType
<1>3. q.limit \in Int /\ q.limit >= 0  BY RequestAssumption DEF RequestRefused
<1>4. Kept(S, q) \in Nat  BY <1>2, <1>3 DEF Kept, Smaller
<1>5. ids \in [1..Kept(S, q) -> S]  BY DEF Answers, Orders
<1>6. ids \in Seq(S)  BY <1>4, <1>5
<1> QED  BY <1>6 DEF IsSeq

(* A query is opened for a list alone.                                     *)
KindInv == job \in Jobs /\ (pc \in {"header", "query"} => job.kind = "list")

LEMMA KindInit == Init => KindInv
BY DEF Init, TerminalInit, KindInv

LEMMA KindStep == KindInv /\ [Next]_vars => KindInv'
<1> SUFFICES ASSUME KindInv, [Next]_vars PROVE KindInv'  OBVIOUS
<1>1. CASE UNCHANGED vars  BY <1>1 DEF KindInv, vars, terminal
<1>2. CASE List
  BY <1>2
     DEF List, Refuse, Start, Header, Query, Load, Write, Collect, Draw, ReadFails, RowsEnd,
         Drawn, CloseArray, WriteFails, Finish, Here, Goto, Say, terminal, AfterReadError,
         AfterRows, KindInv
<1>3. CASE Reader \/ Others \/ World
  BY <1>3
     DEF Reader, Pager, PagerReads, PagerEnds, Others, World, PagerQuits, Interrupt, DiskFull,
         terminal, Goto, KindInv
<1>4. CASE Process
  BY <1>4
     DEF Process, MakeRoom, PushShown, PushPiped, PushFails, ClosePager, WaitPager, Help,
         ExitFlushed, HookExits, Usage, Ask, AwaitAnswer, Answer, Reply, ReplyFails, Edit,
         CreateTemp, EditorExits, RemoveTemp, LiftBracket, CommandReturned, Report, Exit,
         Say, Here, Goto, KindInv
<1> QED  BY <1>1, <1>2, <1>3, <1>4 DEF Next, Run

(* A step of the reading that loads, takes or gives up events.             *)
LEMMA LoadStep ==
  ASSUME MetaInv, LoadMeta, UNCHANGED <<said, got>> PROVE MetaInv'
<1> DEFINE n == NextBatch
<1>1. PICK S : rows \in Seq(S)  BY DEF MetaInv, IsSeq
<1>2. n \in 1..Len(rows) /\ Len(rows) \in Nat
  BY <1>1, BatchAssumption DEF LoadMeta, NextBatch, Smaller
<1>3. SubSeq(rows, 1, n) \in Seq(S) /\ Len(SubSeq(rows, 1, n)) = n
  BY <1>1, <1>2
<1>4. SubSeq(rows, n+1, Len(rows)) \in Seq(S)  BY <1>1, <1>2
<1>5. DOMAIN SubSeq(rows, 1, n) = 1..n  BY <1>2, <1>3
<1>6. commits # <<>> /\ commits[Len(commits)] = db /\ Len(commits) \in DOMAIN commits
  <2>1. commits # <<>>  BY DEF MetaInv, LoadMeta
  <2>2. PICK T : commits \in Seq(T)  BY DEF MetaInv, IsSeq
  <2> QED  BY <2>1, <2>2 DEF MetaInv
<1>7. batch' = [k \in 1..n |-> [id |-> SubSeq(rows, 1, n)[k],
                                 meta |-> MetaOf(SubSeq(rows, 1, n), k)]]
  BY <1>5 DEF LoadMeta
<1>8. IsSeq(batch')
  <2> DEFINE B == {batch'[k] : k \in 1..n}
  <2>1. batch' \in [1..n -> B]  BY <1>7
  <2>2. batch' \in Seq(B)  BY <1>2, <2>1
  <2> QED  BY <2>2 DEF IsSeq
<1>9. ASSUME NEW k \in DOMAIN batch' PROVE Fits(batch[k])'
  <2>1. batch'[k].meta = IF batch'[k].id \in Live(db) THEN Carried(db, batch'[k].id) ELSE {}
    BY <1>7 DEF MetaOf
  <2>2. commits' = commits  BY DEF LoadMeta
  <2> QED  BY <1>6, <2>1, <2>2 DEF Fits
<1>10. UNCHANGED <<db, commits, cursor>>  BY DEF LoadMeta
<1>11. \A e : Fits(e)' = Fits(e)  BY <1>10 DEF Fits
<1>12. IsSeq(rows')  BY <1>4 DEF LoadMeta, IsSeq
<1> QED  BY <1>6, <1>8, <1>9, <1>10, <1>11, <1>12 DEF MetaInv, Told

LEMMA Yielded ==
  ASSUME MetaInv, Yield
  PROVE  /\ IsSeq(batch') /\ \A k \in DOMAIN batch' : Fits(batch'[k])
         /\ Fits(Head(batch)) /\ commits # <<>>
<1>1. PICK S : batch \in Seq(S)  BY DEF MetaInv, IsSeq
<1>2. batch # <<>> /\ batch' = Tail(batch)  BY DEF Yield
<1>3. Len(batch) \in Nat \ {0} /\ DOMAIN batch = 1..Len(batch)  BY <1>1, <1>2
<1>4. /\ batch' \in Seq(S) /\ Len(batch') = Len(batch) - 1 /\ Head(batch) = batch[1]
      /\ \A k \in 1..Len(batch) - 1 : batch'[k] = batch[k+1]
  BY <1>1, <1>2, <1>3
<1>5. DOMAIN batch' = 1..Len(batch) - 1  BY <1>4
<1> QED  BY <1>2, <1>3, <1>4, <1>5 DEF MetaInv, IsSeq

LEMMA MetaStep == MetaInv /\ KindInv /\ [Next]_vars => MetaInv'
<1> SUFFICES ASSUME MetaInv, KindInv, [Next]_vars PROVE MetaInv'  OBVIOUS
<1>0. /\ Item("header").what # "event" /\ Item("tail").what # "event" /\ Item("help").what # "event"
      /\ Item("prompt").what # "event" /\ Item("result").what # "event"
  BY DEF Item
<1>1. CASE UNCHANGED vars  BY <1>1, SaidFrame DEF vars, terminal
<1>2. CASE Refuse \/ Start \/ Header \/ Drawn \/ CloseArray \/ Finish
  BY <1>0, <1>2, SaidFrame
     DEF Refuse, Start, Header, Drawn, CloseArray, Finish, Say, stream
<1>3. CASE Query
  <2>1. commits = <<>> /\ db \in Openings /\ rows' \in Answers(db, job) /\ commits' = <<db>> /\ cursor' = "open"
    BY <1>3 DEF Query, OpenQuery, MetaInv
  <2>2. IsSeq(rows')  BY <1>3, <2>1, AnswersAreSeqs DEF Query, KindInv, Here
  <2>3. <<db>> \in Seq({db}) /\ Len(<<db>>) = 1 /\ <<db>>[1] = db /\ <<db>> # <<>>  OBVIOUS
  <2> QED
    BY <1>3, <2>1, <2>2, <2>3 DEF MetaInv, Query, OpenQuery, stream, Told, IsSeq
<1>4. CASE Load  BY <1>4, LoadStep DEF Load, terminal
<1>5. CASE Write
  <2>1. /\ IsSeq(batch') /\ \A k \in DOMAIN batch' : Fits(batch'[k])
        /\ Fits(Listed(Head(batch))) /\ commits # <<>>
    BY <1>5, Yielded DEF Write, Listed, Fits
  <2>2. PICK x : said' = Append(said, x) /\ Fits(x)
    BY <1>5, <2>1 DEF Write, Say
  <2>3. \A e \in got : Fits(e)  BY DEF MetaInv
  <2> QED  BY <1>5, <2>1, <2>2, <2>3, SaidGrown DEF Write, Yield
<1>6. CASE Collect
  <2>1. /\ IsSeq(batch') /\ \A k \in DOMAIN batch' : Fits(batch'[k])
        /\ Fits(Listed(Head(batch))) /\ commits # <<>>
    BY <1>6, Yielded DEF Collect, Listed, Fits
  <2>2. \A e \in got' : Fits(e)  BY <1>6, <2>1 DEF MetaInv, Collect
  <2> QED  BY <1>6, <2>1, <2>2, SaidGrown DEF Collect, Yield, terminal
<1>7. CASE Draw
  <2>1. PICK e \in got : got' = got \ {e} /\ said' = Append(said, e)
    BY <1>7 DEF Draw, Say
  <2>2. Fits(e) /\ commits # <<>>  BY DEF MetaInv
  <2> QED  BY <1>7, <2>1, <2>2, SaidGrown DEF Draw, reading, MetaInv
<1>8. CASE ReadFails \/ WriteFails \/ RowsEnd
  <2>1. /\ UNCHANGED <<db, commits, said>> /\ cursor' \in {"failed", "done"}
        /\ got' = got \/ got' = {}
        /\ batch' = batch \/ batch' = <<>>
        /\ rows' = rows \/ rows' = <<>>
    BY <1>8 DEF ReadFails, WriteFails, RowsEnd, FailQuery, StopReading, EndOfRows, stream
  <2>2. \A e : Fits(e)' = Fits(e)  BY <2>1 DEF Fits
  <2>3. IsSeq(<<>>) /\ DOMAIN <<>> = {}  BY IdleShape
  <2> QED  BY <2>1, <2>2, <2>3 DEF MetaInv, Told
<1>9. CASE Others
  <2>1. /\ commits # <<>> /\ commits' = Append(commits, db')
        /\ UNCHANGED <<cursor, rows, batch, said, got>>
    BY <1>9 DEF Others, Elsewhere, terminal
  <2>2. /\ IsSeq(commits') /\ commits' # <<>> /\ commits'[Len(commits)+1] = db'
        /\ Len(commits') = Len(commits) + 1
        /\ \A c \in DOMAIN commits : c \in DOMAIN commits' /\ commits'[c] = commits[c]
    BY <2>1, Appended DEF MetaInv
  <2>3. \A e : Fits(e) => Fits(e)'  BY <2>2 DEF Fits
  <2> QED  BY <2>1, <2>2, <2>3 DEF MetaInv, Told
<1>10. CASE \/ Process /\ UNCHANGED <<reading, got>>
            \/ Reader \/ (World /\ UNCHANGED <<reading, got>>)
  BY <1>0, <1>10, SaidFrame
     DEF Reader, Pager, PagerReads, PagerEnds, World, PagerQuits, Interrupt, DiskFull,
         Process, MakeRoom, PushShown, PushPiped, PushFails, ClosePager, WaitPager, Help,
         ExitFlushed, HookExits, Usage, Ask, AwaitAnswer, Answer, Reply, ReplyFails, Edit,
         CreateTemp, EditorExits, RemoveTemp, LiftBracket, CommandReturned, Report, Exit, Say
<1> QED
  BY <1>1, <1>2, <1>3, <1>4, <1>5, <1>6, <1>7, <1>8, <1>9, <1>10 DEF Next, Run, List

(* Whatever the batches, and however many commits of others come between   *)
(* the rows and their metadata, an event is listed with the metadata it    *)
(* had at one of the commits, never with another's or with parts of two.   *)
THEOREM MetaIsOfOneCommit == Spec => []MetaOfOneCommit
<1>1. MetaInv => MetaOfOneCommit  BY DEF MetaInv, Fits, MetaOfOneCommit
<1> QED  BY <1>1, MetaInit, MetaStep, KindInit, KindStep, PTL DEF Spec

-------------------------------------------------------------------------------
(* The way of a listing: one that goes on without an error has read its    *)
(* query to the end.                                                       *)

WayInv ==
  /\ job.kind = "list" => pc \in {"start"} \cup Under \cup After
  /\ pc \in Under => job.kind = "list"
  /\ pc \in {"start", "header", "query"} => commits = <<>>
  /\ got # {} => job.format = "tree"
  /\ job.kind = "list" /\ code = "ok" => ~err
  /\ job.kind = "list" /\ ~err /\ code # "killed"
       /\ pc \in {"drawing", "tail", "finish", "closing"} \cup After =>
       cursor = "done" /\ (pc = "drawing" \/ got = {})

LEMMA WayInit == Init => WayInv
BY DEF Init, TerminalInit, Unopened, WayInv, Under, After

LEMMA WayStep == WayInv /\ VerdictInv /\ [Next]_vars => WayInv'
<1> SUFFICES ASSUME WayInv, VerdictInv, [Next]_vars PROVE WayInv'  OBVIOUS
<1>0. code # "none" => pc = "over"  BY DEF VerdictInv
<1>1. CASE UNCHANGED vars  BY <1>1 DEF WayInv, vars, terminal, reading
<1>2. CASE Refuse \/ Start \/ Header \/ Query \/ Load
  BY <1>0, <1>2
     DEF Refuse, Start, Header, Query, OpenQuery, Load, LoadMeta, Say, Here, Goto, Outside,
         stream, terminal, reading, WayInv, Under, After
<1>3. CASE Write \/ Collect \/ Draw \/ CloseArray
  BY <1>0, <1>3
     DEF Write, Collect, Draw, CloseArray, Yield, Say, Here, Goto, Outside, terminal, reading,
         WayInv, Under, After
<1>4. CASE ReadFails \/ WriteFails
  BY <1>0, <1>4
     DEF ReadFails, WriteFails, FailQuery, StopReading, AfterReadError, Here, Goto, Outside,
         stream, WayInv, Under, After
<1>5. CASE RowsEnd \/ Drawn \/ Finish
  BY <1>0, <1>5
     DEF RowsEnd, Drawn, Finish, EndOfRows, AfterRows, Here, Goto, Outside, stream, reading,
         WayInv, Under, After
<1>6. CASE Reader \/ Others
  BY <1>6
     DEF Reader, Pager, PagerReads, PagerEnds, Others, Elsewhere, terminal, reading, WayInv
<1>7. CASE World /\ UNCHANGED <<reading, got>>
  BY <1>7
     DEF World, PagerQuits, Interrupt, DiskFull, Goto, reading, WayInv, Under, After
<1>8. ASSUME \/ MakeRoom \/ PushShown \/ PushPiped \/ PushFails \/ ClosePager \/ WaitPager
             \/ CommandReturned \/ Report \/ Exit,
             UNCHANGED <<reading, got>>
      PROVE  WayInv'
  <2>1. CASE MakeRoom \/ PushShown \/ PushPiped \/ PushFails
    BY <1>8, <2>1 DEF MakeRoom, PushShown, PushPiped, PushFails, reading, WayInv
  <2>2. CASE WaitPager \/ CommandReturned \/ Exit
    BY <1>0, <1>8, <2>2
       DEF WaitPager, CommandReturned, Exit, Here, Goto, reading, WayInv, Under, After
  <2>3. CASE ClosePager \/ Report
    <3>1. /\ UNCHANGED <<job, code, got, cursor>> /\ (err => err')
          /\ \/ pc = "closing" /\ pc' = "waiting"
             \/ pc = "flushed" /\ pc' = "unwinding"
      BY <1>8, <2>3 DEF ClosePager, Restore, Report, Here, Goto, reading
    <3>2. code = "none"  BY <1>0, <3>1
    <3> QED  BY <3>1, <3>2 DEF WayInv, Under, After
  <2> QED  BY <1>8, <2>1, <2>2, <2>3
<1>9. ASSUME \/ Help \/ ExitFlushed \/ HookExits \/ Usage \/ Ask \/ AwaitAnswer \/ Answer
             \/ Reply \/ ReplyFails \/ Edit \/ CreateTemp \/ EditorExits \/ RemoveTemp
             \/ LiftBracket,
             UNCHANGED <<reading, got>>
      PROVE  WayInv'
  <2>1. job.kind # "list" /\ job' = job /\ pc' \notin Under \cup {"start"} /\ got' = got
    BY <1>9
       DEF Help, ExitFlushed, HookExits, Usage, Ask, AwaitAnswer, Answer, Reply, ReplyFails,
           Edit, CreateTemp, EditorExits, RemoveTemp, LiftBracket, Say, Here, Goto, WayInv,
           Under, After
  <2> QED  BY <2>1 DEF WayInv, Under
<1> QED
  BY <1>1, <1>2, <1>3, <1>4, <1>5, <1>6, <1>7, <1>8, <1>9
     DEF Next, Run, List, Process

-------------------------------------------------------------------------------
(* What a JSON listing leaves behind.                                      *)

Cut == sink = "full" \/ pager = "quit" \/ code = "killed"
Events == \A k \in DOMAIN said : said[k].what = "event"
Closed == \E n \in DOMAIN said : said[n] = Item("tail") /\ n = Len(said)
                                 /\ \A k \in 1..n-1 : said[k].what = "event"

FrameInv ==
  /\ IsSeq(said) /\ out = [buf |-> out.buf, dest |-> out.dest, failed |-> out.failed,
                           flushing |-> out.flushing]
  /\ out.failed => Cut
  /\ job.kind = "list" =>
       /\ pc = "header" => job.format = "csv"
       /\ pc = "drawing" => job.format = "tree"
       /\ job.format = "json" =>
            /\ pc \in {"start", "header", "query", "rows", "drawing", "tail"} => Events
            /\ pc \in {"finish", "closing"} \cup After =>
                 Cut \/ Closed \/ (commits = <<>> /\ RequestRefused(job))

LEMMA FrameInit == Init => FrameInv
BY IdleShape DEF Init, TerminalInit, FrameInv, Events, IdleOut, After

(* Steps that write nothing.                                               *)
LEMMA FrameKept ==
  ASSUME FrameInv, WayInv, UNCHANGED <<job, said>>, OutShape',
         out'.failed => out.failed \/ Cut', Cut => Cut',
         UNCHANGED <<db, commits>> \/ commits # <<>>,
         job.kind = "list" =>
           \/ pc' = pc
           \/ pc' \in {"finish", "closing"} \cup After /\ Cut'
           \/ pc' \in {"finish", "closing"} \cup After /\ pc \in {"finish", "closing"} \cup After
           \/ pc' \in After /\ commits = <<>> /\ RequestRefused(job)
           \/ pc' \in {"query", "rows", "tail"} /\ pc \in {"start", "query", "rows"}
           \/ job.format # "json" /\ (pc' = "header" => job.format = "csv")
                                  /\ (pc' = "drawing" => job.format = "tree")
  PROVE  FrameInv'
<1>2. UNCHANGED <<db, commits>> => RequestRefused(job)' = RequestRefused(job)
  BY DEF RequestRefused, Compiled, Tokens, HitsOf, Hits, Indexed, Live
<1>3. Events' = Events /\ Closed' = Closed  BY DEF Events, Closed, Item
<1> QED  BY <1>2, <1>3 DEF FrameInv, OutShape, After

(* A step that writes: an event, the end of the array, or for another      *)
(* format.                                                                 *)
LEMMA FrameSaid ==
  ASSUME FrameInv, OutShape', out'.failed => out.failed, NEW x, said' = Append(said, x),
         UNCHANGED <<job, sink, pager, code>>,
         job.kind = "list" =>
           \/ pc = "rows" /\ pc' = "rows" /\ x.what = "event"
           \/ pc = "tail" /\ pc' = "finish" /\ x = Item("tail")
           \/ job.format # "json" /\ pc' # "header" /\ (pc' = "drawing" => job.format = "tree")
  PROVE  FrameInv'
<1>1. /\ IsSeq(said') /\ DOMAIN said' = 1..Len(said)+1 /\ Len(said') = Len(said)+1
      /\ said'[Len(said)+1] = x
      /\ Len(said) \in Nat /\ DOMAIN said = 1..Len(said)
      /\ \A k \in DOMAIN said : said'[k] = said[k]
  BY Appended, Grown DEF FrameInv
<1>2. Events /\ x.what = "event" => Events'
  <2> SUFFICES ASSUME Events, x.what = "event", NEW k \in DOMAIN said'
               PROVE  said'[k].what = "event"
    BY DEF Events
  <2>1. k = Len(said)+1 \/ k \in DOMAIN said  BY <1>1
  <2> QED  BY <1>1, <2>1 DEF Events
<1>3. Events /\ x = Item("tail") => Closed'
  <2> SUFFICES ASSUME Events, x = Item("tail") PROVE Closed'  OBVIOUS
  <2>1. Len(said)+1 \in DOMAIN said' /\ Len(said)+1 = Len(said')  BY <1>1
  <2>2. said'[Len(said)+1] = Item("tail")'  BY <1>1 DEF Item
  <2>3. ASSUME NEW k \in 1..(Len(said)+1)-1 PROVE said'[k].what = "event"
    <3>1. k \in DOMAIN said  BY <1>1
    <3> QED  BY <1>1, <3>1 DEF Events
  <2> QED  BY <2>1, <2>2, <2>3 DEF Closed
<1>4. out'.failed => Cut'  BY DEF FrameInv, Cut
<1> QED  BY <1>1, <1>2, <1>3, <1>4 DEF FrameInv, OutShape, After

LEMMA FrameStep ==
  FrameInv /\ WayInv /\ OutputInv /\ MetaInv /\ PromptInv /\ [Next]_vars => FrameInv'
<1> SUFFICES ASSUME FrameInv, WayInv, OutputInv, MetaInv, PromptInv, [Next]_vars PROVE FrameInv'
  OBVIOUS
<1>0. OutShape /\ OutShape' /\ VerdictInv /\ PagerInv
  <2>1. PromptInv'  BY PromptStep
  <2> QED  BY <2>1 DEF PromptInv, OutputInv
<1>00. commits = <<>> => cursor # "open" /\ batch = <<>> /\ got = {}  BY DEF MetaInv
<1>1. CASE UNCHANGED vars  BY <1>0, <1>1, FrameKept DEF vars, terminal, reading, Cut
<1>2. CASE Refuse
  <2>1. UNCHANGED <<job, said, out, sink, pager, code, reading>> /\ pc' = "returning"
    BY <1>2 DEF Refuse, Goto, stream, Outside
  <2>2. commits = <<>> /\ RequestRefused(job)
    BY <1>2 DEF Refuse, Here, WayInv
  <2> QED  BY <1>0, <2>1, <2>2, FrameKept DEF reading, Cut, After
<1>3. CASE Start \/ Query
  <2>1. /\ UNCHANGED <<job, said, sink, code>> /\ out'.failed = out.failed
        /\ Cut => Cut'
        /\ UNCHANGED <<db, commits>> \/ UNCHANGED <<db, out, pager>>
    BY <1>0, <1>3
       DEF Start, StartPager, Query, OpenQuery, Here, Outside, stream, reading, Cut, OutShape,
           VerdictInv
  <2>2. \/ pc' = "query" /\ pc = "start"
        \/ pc' = "rows" /\ pc = "query"
        \/ pc' = "header" /\ job.format = "csv"
    BY <1>3 DEF Start, Query, Here, Goto
  <2> QED
    BY <1>0, <2>1, <2>2 DEF FrameInv, Events, OutShape, After
<1>33. CASE Load \/ Collect \/ RowsEnd \/ Drawn \/ Finish
  <2>1. /\ UNCHANGED <<job, said, sink, code, pager, db, commits>> /\ out'.failed = out.failed
        /\ Cut' = Cut
    BY <1>0, <1>33
       DEF Load, LoadMeta, Collect, Yield, RowsEnd, EndOfRows, Drawn, Finish, Flushing, Outside,
           stream, terminal, reading, Cut, OutShape
  <2>2. \/ pc' = pc
        \/ pc = "rows" /\ pc' = "tail"
        \/ pc = "rows" /\ job.format # "json" /\ pc' \in {"drawing", "finish"}
             /\ (pc' = "drawing" => job.format = "tree")
        \/ pc = "drawing" /\ pc' = "finish"
        \/ pc = "finish" /\ pc' \in {"closing", "returning"}
    BY <1>33
       DEF Load, Collect, RowsEnd, Drawn, Finish, Here, Goto, AfterRows, terminal
  <2>3. pc = "drawing" => job.kind = "list" /\ job.format = "tree"
    BY DEF WayInv, FrameInv, Under
  <2> QED
    BY <1>0, <2>1, <2>2, <2>3, FrameKept DEF After
<1>4. CASE ReadFails \/ WriteFails
  BY <1>0, <1>4, FrameKept
     DEF ReadFails, WriteFails, FailQuery, StopReading, AfterReadError, Here, Goto, Outside,
         stream, Cut, After, FrameInv
<1>5. CASE Header \/ Write \/ Draw \/ CloseArray
  <2>1. out'.failed = out.failed /\ UNCHANGED <<job, sink, pager, code>>
    BY <1>0, <1>5 DEF Header, Write, Draw, CloseArray, Say, OutShape, Outside
  <2>2. \A e : Listed(e).what = "event"  BY DEF Listed
  <2> QED
    BY <1>0, <1>5, <2>1, <2>2, FrameSaid
       DEF Header, Write, Draw, CloseArray, Say, Here, Goto, FrameInv
<1>6. CASE Reader \/ Others
  BY <1>0, <1>6, FrameKept
     DEF Reader, Pager, PagerReads, PagerEnds, Others, Elsewhere, terminal, reading, Cut
<1>7. CASE World /\ UNCHANGED <<reading, got>>
  BY <1>0, <1>7, FrameKept, IdleShape
     DEF World, PagerQuits, Interrupt, DiskFull, Goto, reading, Cut, After, PagerInv
<1>8. ASSUME \/ MakeRoom \/ PushShown \/ PushPiped \/ PushFails \/ ClosePager \/ WaitPager
             \/ CommandReturned \/ Report \/ Exit,
             UNCHANGED <<reading, got>>
      PROVE  FrameInv'
  BY <1>0, <1>8, FrameKept, IdleShape
     DEF MakeRoom, PushShown, PushPiped, PushFails, Rest, Flushing, ClosePager, Restore,
         WaitPager, CommandReturned, FinalOut, Report, Exit, Here, Goto, reading, Cut, After,
         OutShape, PagerInv, VerdictInv
<1>9. ASSUME \/ Help \/ ExitFlushed \/ HookExits \/ Usage \/ Ask \/ AwaitAnswer \/ Answer
             \/ Reply \/ ReplyFails \/ Edit \/ CreateTemp \/ EditorExits \/ RemoveTemp
             \/ LiftBracket,
             UNCHANGED <<reading, got>>
      PROVE  FrameInv'
  <2>1. /\ job.kind # "list" /\ job' = job /\ out'.failed = out.failed /\ UNCHANGED <<sink, pager>>
        /\ code # "killed" /\ (said' = said \/ \E x : said' = Append(said, x))
    BY <1>0, <1>9
       DEF Help, ExitFlushed, HookExits, Usage, Ask, AwaitAnswer, PromptOut, Answer, Reply,
           ReplyFails, Edit, CreateTemp, EditorExits, RemoveTemp, LiftBracket, Say, Here, Goto,
           Flushing, OutShape, WayInv, Under, After, VerdictInv
  <2>2. IsSeq(said')  BY <2>1, Appended DEF FrameInv
  <2> QED  BY <1>0, <2>1, <2>2 DEF FrameInv, OutShape, Cut
<1> QED
  BY <1>1, <1>2, <1>3, <1>33, <1>4, <1>5, <1>6, <1>7, <1>8, <1>9
     DEF Next, Run, List, Process

-------------------------------------------------------------------------------
(* The events of a listing: what its query answered is told, or waits in   *)
(* the tree view, in the batch or among the rows.                          *)

GotIds   == {e.id : e \in got}
BatchIds == {batch[k].id : k \in DOMAIN batch}
RowIds   == {rows[k] : k \in DOMAIN rows}

Apart(A, B, C, D) == /\ A \cap B = {} /\ A \cap C = {} /\ A \cap D = {}
                     /\ B \cap C = {} /\ B \cap D = {} /\ C \cap D = {}

(* No event is in two places or twice in one.                              *)
OnceEach ==
  /\ \A j, k \in Told : said[j].id = said[k].id => j = k
  /\ \A e, f \in got : e.id = f.id => e = f
  /\ \A j, k \in DOMAIN batch : batch[j].id = batch[k].id => j = k
  /\ \A j, k \in DOMAIN rows : rows[j] = rows[k] => j = k
  /\ Apart(ToldIds, GotIds, BatchIds, RowIds)

(* R is what a query may answer, in some order.                            *)
Picked(d, q, R) ==
  /\ R \subseteq Matching(d, q) /\ Cardinality(R) = Kept(Matching(d, q), q)
  /\ \A i \in R : \A j \in Matching(d, q) \ R : Survives(d, q, i, j)

Answered == ToldIds \cup GotIds \cup BatchIds \cup RowIds

PickInv ==
  /\ OnceEach
  /\ cursor \in {"open", "done"} =>
       commits # <<>> /\ Asked \in Openings /\ Picked(Asked, job, Answered)
  /\ cursor = "done" => rows = <<>> /\ batch = <<>>

LEMMA PickInit == Init => PickInv
<1>1. DOMAIN <<>> = {}  BY IdleShape
<1> QED
  BY <1>1 DEF Init, TerminalInit, Unopened, PickInv, OnceEach, Apart, Told, ToldIds, GotIds,
              BatchIds, RowIds

(* What has been told, as output is written.                               *)

LEMMA ToldGrows ==
  ASSUME MetaInv, NEW x, said' = Append(said, x)
  PROVE  /\ \A k \in Told : said'[k] = said[k]
         /\ x.what # "event" => Told' = Told
         /\ x.what = "event" => /\ Told' = Told \cup {Len(said)+1} /\ said'[Len(said)+1] = x
                                /\ Len(said)+1 \notin Told
<1>1. /\ IsSeq(said') /\ DOMAIN said' = 1..Len(said)+1 /\ said'[Len(said)+1] = x
      /\ Len(said) \in Nat /\ DOMAIN said = 1..Len(said)
      /\ \A k \in DOMAIN said : said'[k] = said[k]
  BY Appended DEF MetaInv
<1>2. Len(said)+1 \notin DOMAIN said /\ DOMAIN said' = DOMAIN said \cup {Len(said)+1}  BY <1>1
<1> QED  BY <1>1, <1>2 DEF Told

LEMMA ToldFrame ==
  ASSUME MetaInv, said' = said \/ \E x : said' = Append(said, x) /\ x.what # "event"
  PROVE  Told' = Told /\ ToldIds' = ToldIds /\ \A k \in Told : said'[k] = said[k]
<1>1. CASE said' = said  BY <1>1 DEF Told, ToldIds
<1>2. ASSUME NEW x, said' = Append(said, x), x.what # "event"
      PROVE  Told' = Told /\ ToldIds' = ToldIds /\ \A k \in Told : said'[k] = said[k]
  BY <1>2, ToldGrows DEF ToldIds
<1> QED  BY <1>1, <1>2

LEMMA ToldMore ==
  ASSUME MetaInv, OnceEach, NEW x, said' = Append(said, x), x.what = "event", x.id \notin ToldIds
  PROVE  /\ ToldIds' = ToldIds \cup {x.id}
         /\ \A j, k \in Told' : said'[j].id = said'[k].id => j = k
<1> DEFINE n == Len(said) + 1
<1>1. /\ \A k \in Told : said'[k] = said[k]
      /\ Told' = Told \cup {n} /\ said'[n] = x /\ n \notin Told
  BY ToldGrows
<1> HIDE DEF n
<1>2. \A k \in Told : said[k].id \in ToldIds  BY DEF ToldIds
<1>3. ToldIds' = ToldIds \cup {x.id}
  <2>1. ToldIds' = {said'[k].id : k \in Told'}  BY DEF ToldIds
  <2> QED  BY <1>1, <2>1 DEF ToldIds
<1>4. ASSUME NEW j \in Told', NEW k \in Told', said'[j].id = said'[k].id PROVE j = k
  <2>1. \A a, b \in Told : said[a].id = said[b].id => a = b  BY DEF OnceEach
  <2>2. \A k1 \in Told : said[k1].id # x.id  BY <1>2
  <2> QED  BY ONLY <1>1, <1>4, <2>1, <2>2, j \in Told', k \in Told'
<1> QED  BY <1>3, <1>4

(* One event taken from the batch.                                         *)
LEMMA IdsYielded ==
  ASSUME MetaInv, OnceEach, Yield
  PROVE  /\ Head(batch).id \in BatchIds /\ BatchIds' = BatchIds \ {Head(batch).id}
         /\ \A j, k \in DOMAIN batch' : batch'[j].id = batch'[k].id => j = k
<1>1. /\ IsSeq(batch') /\ Len(batch') = Len(batch) - 1 /\ Len(batch) \in Nat \ {0}
      /\ Head(batch) = batch[1] /\ \A k \in 1..Len(batch) - 1 : batch'[k] = batch[k + 1]
  BY Shrunk DEF Yield, MetaInv
<1>2. DOMAIN batch = 1..Len(batch) /\ DOMAIN batch' = 1..Len(batch)-1
  BY <1>1, SeqLen DEF MetaInv
<1>3. 1 \in DOMAIN batch /\ \A k \in DOMAIN batch' : k+1 \in DOMAIN batch /\ k+1 # 1
  BY <1>1, <1>2
<1>4. \A k \in DOMAIN batch : k = 1 \/ (k-1 \in DOMAIN batch' /\ batch'[k-1] = batch[k])
  <2> SUFFICES ASSUME NEW k \in DOMAIN batch, k # 1
               PROVE  k-1 \in DOMAIN batch' /\ batch'[k-1] = batch[k]
    OBVIOUS
  <2>1. k-1 \in 1..Len(batch)-1 /\ (k-1)+1 = k  BY <1>1, <1>2
  <2> QED  BY <1>1, <1>2, <2>1
<1>5. BatchIds' = BatchIds \ {Head(batch).id}
  <2>1. ASSUME NEW i \in BatchIds' PROVE i \in BatchIds /\ i # Head(batch).id
    <3>1. PICK k \in DOMAIN batch' : i = batch'[k].id  BY DEF BatchIds
    <3>2. i = batch[k+1].id  BY <1>1, <1>2, <3>1
    <3> QED  BY <1>1, <1>3, <3>1, <3>2 DEF BatchIds, OnceEach
  <2>2. ASSUME NEW i \in BatchIds, i # Head(batch).id PROVE i \in BatchIds'
    <3>1. PICK k \in DOMAIN batch : i = batch[k].id  BY DEF BatchIds
    <3> QED  BY <1>1, <1>4, <2>2, <3>1 DEF BatchIds
  <2> QED  BY <2>1, <2>2
<1>6. ASSUME NEW j \in DOMAIN batch', NEW k \in DOMAIN batch', batch'[j].id = batch'[k].id
      PROVE  j = k
  <2>1. j+1 \in DOMAIN batch /\ k+1 \in DOMAIN batch  BY <1>3
  <2>2. batch[j+1].id = batch[k+1].id  BY <1>1, <1>2, <1>6
  <2>3. j+1 = k+1  BY <2>1, <2>2 DEF OnceEach
  <2> QED  BY <1>1, <1>2, <2>3
<1> QED  BY <1>1, <1>3, <1>5, <1>6 DEF BatchIds

(* A batch taken from the rows.                                            *)
LEMMA IdsLoaded ==
  ASSUME MetaInv, OnceEach, LoadMeta
  PROVE  /\ BatchIds = {} /\ BatchIds' \cup RowIds' = RowIds /\ BatchIds' \cap RowIds' = {}
         /\ \A j, k \in DOMAIN batch' : batch'[j].id = batch'[k].id => j = k
         /\ \A j, k \in DOMAIN rows' : rows'[j] = rows'[k] => j = k
<1> DEFINE n == NextBatch  m == Len(rows)
<1>1. PICK S : rows \in Seq(S)  BY DEF MetaInv, IsSeq
<1>2. n \in 1..m /\ m \in Nat /\ DOMAIN rows = 1..m
  BY <1>1, BatchAssumption DEF LoadMeta, NextBatch, Smaller
<1> HIDE DEF n, m
<1>3. /\ SubSeq(rows, 1, n) \in Seq(S) /\ Len(SubSeq(rows, 1, n)) = n
      /\ \A k \in 1..n : SubSeq(rows, 1, n)[k] = rows[k]
  BY <1>1, <1>2 DEF m
<1>4. DOMAIN SubSeq(rows, 1, n) = 1..n  BY <1>2, <1>3
<1>5. batch' = [k \in 1..n |-> [id |-> SubSeq(rows, 1, n)[k],
                                 meta |-> MetaOf(SubSeq(rows, 1, n), k)]]
  BY <1>4 DEF LoadMeta, n
<1>6. DOMAIN batch' = 1..n /\ \A k \in 1..n : batch'[k].id = rows[k]  BY <1>3, <1>5
<1>7. /\ rows' = SubSeq(rows, n+1, m)
      /\ SubSeq(rows, n+1, m) \in Seq(S) /\ Len(SubSeq(rows, n+1, m)) = m - n
      /\ \A k \in 1..m-n : SubSeq(rows, n+1, m)[k] = rows[n+k]
  <2>1. rows' = SubSeq(rows, n+1, m)  BY DEF LoadMeta, n, m
  <2>2. Len(rows) = m  BY DEF m
  <2>3. SubSeq(rows, n+1, m) \in Seq(S)  BY <1>1, <1>2, <2>2
  <2>4. Len(SubSeq(rows, n+1, m)) = m - n  BY <1>1, <1>2, <2>2
  <2>5. ASSUME NEW k \in 1..m-n PROVE SubSeq(rows, n+1, m)[k] = rows[n+k]
    <3>1. (n+1) + k - 1 = n + k  BY <1>2
    <3> QED  BY <1>1, <1>2, <2>2, <3>1
  <2> QED  BY <2>1, <2>3, <2>4, <2>5
<1>8. DOMAIN rows' = 1..m-n /\ \A k \in 1..m-n : rows'[k] = rows[n+k]
  <2>1. m - n \in Nat  BY <1>2
  <2> QED  BY <1>7, <2>1
<1>9. /\ \A k \in 1..n : k \in DOMAIN rows
      /\ \A k \in 1..m-n : n+k \in DOMAIN rows /\ n+k \notin 1..n
      /\ \A k \in DOMAIN rows : k \in 1..n \/ (k-n \in 1..m-n /\ n+(k-n) = k)
  BY <1>2
<1>10. BatchIds' = {rows[k] : k \in 1..n}  BY <1>6 DEF BatchIds
<1>11. RowIds' = {rows[n+k] : k \in 1..m-n}  BY <1>8 DEF RowIds
<1>12. \A j, k \in DOMAIN rows : rows[j] = rows[k] => j = k  BY DEF OnceEach
<1>13. BatchIds' \cup RowIds' = RowIds
  <2>1. \A i \in RowIds : i \in BatchIds' \cup RowIds'
    <3> SUFFICES ASSUME NEW k \in DOMAIN rows PROVE rows[k] \in BatchIds' \cup RowIds'
      BY DEF RowIds
    <3>1. CASE k \in 1..n  BY <1>10, <3>1
    <3>2. CASE k-n \in 1..m-n /\ n+(k-n) = k  BY <1>11, <3>2
    <3> QED  BY <1>9, <3>1, <3>2
  <2>2. \A i \in BatchIds' \cup RowIds' : i \in RowIds  BY <1>9, <1>10, <1>11 DEF RowIds
  <2> QED  BY <2>1, <2>2
<1>14. BatchIds' \cap RowIds' = {}
  <2> SUFFICES ASSUME NEW j \in 1..n, NEW k \in 1..m-n, rows[j] = rows[n+k] PROVE FALSE
    BY <1>10, <1>11
  <2> QED  BY <1>9, <1>12
<1>15. \A j, k \in DOMAIN batch' : batch'[j].id = batch'[k].id => j = k  BY <1>6, <1>9, <1>12
<1>16. \A j, k \in DOMAIN rows' : rows'[j] = rows'[k] => j = k
  <2> SUFFICES ASSUME NEW j \in 1..m-n, NEW k \in 1..m-n, rows[n+j] = rows[n+k] PROVE j = k
    BY <1>8
  <2>1. n+j = n+k  BY <1>9, <1>12
  <2> QED  BY <1>2, <2>1
<1>17. BatchIds = {}
  <2>1. DOMAIN batch = {}  BY IdleShape DEF LoadMeta
  <2> QED  BY <2>1 DEF BatchIds
<1> QED  BY <1>13, <1>14, <1>15, <1>16, <1>17

(* What the query answers is picked, each event once.                      *)
LEMMA AnswersArePicked ==
  ASSUME NEW q \in Jobs, q.kind = "list", db \in Openings, ~RequestRefused(q),
         NEW ids \in Answers(db, q)
  PROVE  /\ Picked(db, q, {ids[k] : k \in DOMAIN ids})
         /\ \A j, k \in DOMAIN ids : ids[j] = ids[k] => j = k
<1> DEFINE S == Matching(db, q)  n == Kept(S, q)  R == {ids[k] : k \in DOMAIN ids}
<1>1. n \in Nat
  <2>1. IsFiniteSet(Ids)  BY MaxIdAssumption, FS_Interval DEF Ids
  <2>2. S \subseteq Ids  BY OpeningsAssumption DEF Matching
  <2>3. Cardinality(S) \in Nat  BY <2>1, <2>2, FS_Subset, FS_CardinalityType
  <2>4. q.limit \in Int /\ q.limit >= 0  BY RequestAssumption DEF RequestRefused
  <2> QED  BY <2>3, <2>4 DEF Kept, Smaller
<1>2. ids \in [1..n -> S]  BY DEF Answers, Orders
<1>3. \A j, k \in 1..n : j < k => ids[j] # ids[k]  BY <1>2 DEF Answers, Orders
<1>4. \A j \in 1..n : \A i \in S \ R : Survives(db, q, ids[j], i)
  BY <1>2 DEF Answers, Orders, Symbols
<1> HIDE DEF S, n
<1>5. \A j, k \in 1..n : ids[j] = ids[k] => j = k  BY <1>1, <1>3
<1>6. Cardinality(R) = n
  <2>1. ids \in Bijection(1..n, R)
    BY <1>2, <1>5 DEF Bijection, Injection, Surjection, IsInjective
  <2>2. IsFiniteSet(1..n) /\ Cardinality(1..n) = n  BY <1>1, FS_Interval
  <2> QED  BY <2>1, <2>2, FS_Bijection DEF ExistsBijection
<1>7. R \subseteq S  BY <1>2
<1> QED  BY <1>2, <1>4, <1>5, <1>6, <1>7 DEF Picked, S, n

(* Steps that tell and take nothing.                                       *)
LEMMA PickFrame ==
  ASSUME PickInv, MetaInv, job' = job, cursor' = cursor, rows' = rows, batch' = batch,
         got' = got, commits' = commits \/ (commits # <<>> /\ commits' = Append(commits, db')),
         said' = said \/ \E x : said' = Append(said, x) /\ x.what # "event"
  PROVE  PickInv'
<1>1. Told' = Told /\ ToldIds' = ToldIds /\ \A k \in Told : said'[k] = said[k]
  BY ToldFrame
<1>2. OnceEach'  BY <1>1 DEF PickInv, OnceEach, GotIds, BatchIds, RowIds
<1>3. Answered' = Answered  BY <1>1 DEF Answered, GotIds, BatchIds, RowIds
<1>4. commits # <<>> => commits' # <<>> /\ Asked' = Asked
  <2> SUFFICES ASSUME commits # <<>>, commits' = Append(commits, db')
               PROVE  commits' # <<>> /\ Asked' = Asked
    BY DEF Asked
  <2>1. PICK S : commits \in Seq(S)  BY DEF MetaInv, IsSeq
  <2>2. 1 \in DOMAIN commits  BY <2>1
  <2> QED  BY <2>2, Appended DEF MetaInv, Asked
<1> QED  BY <1>2, <1>3, <1>4 DEF PickInv, Picked

LEMMA PickStep == PickInv /\ MetaInv /\ KindInv /\ GotInv /\ [Next]_vars => PickInv'
<1> SUFFICES ASSUME PickInv, MetaInv, KindInv, GotInv, [Next]_vars PROVE PickInv'  OBVIOUS
<1>0. /\ Item("header").what # "event" /\ Item("tail").what # "event" /\ Item("help").what # "event"
      /\ Item("prompt").what # "event" /\ Item("result").what # "event"
  BY DEF Item
<1>1. CASE UNCHANGED vars  BY <1>1, PickFrame DEF vars, terminal, reading
<1>2. CASE Refuse \/ Start \/ Header \/ Drawn \/ CloseArray \/ Finish
  BY <1>0, <1>2, PickFrame
     DEF Refuse, Start, Header, Drawn, CloseArray, Finish, Say, stream, reading
<1>3. CASE \/ Process /\ UNCHANGED <<reading, got>>
           \/ Reader \/ (World /\ UNCHANGED <<reading, got>>)
  BY <1>0, <1>3, PickFrame
     DEF Reader, Pager, PagerReads, PagerEnds, World, PagerQuits, Interrupt, DiskFull,
         Process, MakeRoom, PushShown, PushPiped, PushFails, ClosePager, WaitPager, Help,
         ExitFlushed, HookExits, Usage, Ask, AwaitAnswer, Answer, Reply, ReplyFails, Edit,
         CreateTemp, EditorExits, RemoveTemp, LiftBracket, CommandReturned, Report, Exit, Say,
         reading
<1>4. CASE Others
  BY <1>4, PickFrame DEF Others, Elsewhere, terminal
<1>5. CASE Query
  <2>1. /\ commits = <<>> /\ db \in Openings /\ rows' \in Answers(db, job) /\ commits' = <<db>>
        /\ cursor' = "open" /\ UNCHANGED <<job, said, batch, got>>
    BY <1>5 DEF Query, OpenQuery, MetaInv, stream
  <2>2. /\ Picked(db, job, RowIds')
        /\ \A j, k \in DOMAIN rows' : rows'[j] = rows'[k] => j = k
    BY <1>5, <2>1, AnswersArePicked DEF Query, KindInv, Here, RowIds
  <2>3. ToldIds' = {} /\ Told' = {} /\ GotIds' = {} /\ BatchIds' = {} /\ DOMAIN batch' = {}
    BY <2>1, IdleShape DEF MetaInv, Told, ToldIds, GotIds, BatchIds
  <2>4. Asked' = db /\ commits' # <<>>  BY <2>1 DEF Asked
  <2>5. OnceEach'  BY <2>1, <2>2, <2>3 DEF OnceEach, Apart, PickInv
  <2>6. Answered' = RowIds'  BY <2>3 DEF Answered
  <2>7. Picked(db, job, Answered')  BY <2>2, <2>6
  <2>8. Picked(Asked, job, Answered)'  BY <2>1, <2>4, <2>7 DEF Picked
  <2> QED  BY <2>1, <2>4, <2>5, <2>8 DEF PickInv
<1>6. CASE Load
  <2>1. /\ LoadMeta /\ UNCHANGED <<job, said, got, cursor, commits>> /\ cursor = "open"
    BY <1>6 DEF Load, LoadMeta, terminal
  <2>2. /\ BatchIds = {} /\ BatchIds' \cup RowIds' = RowIds /\ BatchIds' \cap RowIds' = {}
        /\ \A j, k \in DOMAIN batch' : batch'[j].id = batch'[k].id => j = k
        /\ \A j, k \in DOMAIN rows' : rows'[j] = rows'[k] => j = k
    BY <2>1, IdsLoaded DEF PickInv
  <2>3. Told' = Told /\ ToldIds' = ToldIds /\ GotIds' = GotIds
    BY <2>1 DEF Told, ToldIds, GotIds
  <2>4. Answered' = Answered  BY <2>2, <2>3 DEF Answered
  <2>5. Apart(ToldIds, GotIds, BatchIds, RowIds)'
    BY <2>2, <2>3 DEF PickInv, OnceEach, Apart
  <2>6. OnceEach'  BY <2>1, <2>2, <2>3, <2>5 DEF PickInv, OnceEach
  <2> QED  BY <2>1, <2>4, <2>6 DEF PickInv, Picked, Asked
<1>7. CASE Write \/ Collect
  <2> DEFINE h == Head(batch).id
  <2>1. /\ Yield /\ UNCHANGED <<job, cursor, commits, rows>>
        /\ \/ said' = Append(said, Listed(Head(batch))) /\ got' = got
           \/ said' = said /\ got' = got \cup {Listed(Head(batch))}
    BY <1>7 DEF Write, Collect, Yield, Say, terminal
  <2>2. /\ h \in BatchIds /\ BatchIds' = BatchIds \ {h}
        /\ \A j, k \in DOMAIN batch' : batch'[j].id = batch'[k].id => j = k
    BY <2>1, IdsYielded DEF PickInv
  <2>3. Listed(Head(batch)).id = h /\ Listed(Head(batch)).what = "event"  BY DEF Listed
  <2> HIDE DEF h
  <2>4. h \notin ToldIds /\ h \notin GotIds  BY <2>2 DEF PickInv, OnceEach, Apart
  <2>5. /\ \/ ToldIds' = ToldIds \cup {h} /\ GotIds' = GotIds
           \/ ToldIds' = ToldIds /\ GotIds' = GotIds \cup {h}
        /\ \A j, k \in Told' : said'[j].id = said'[k].id => j = k
        /\ \A e, f \in got' : e.id = f.id => e = f
    <3>1. CASE said' = Append(said, Listed(Head(batch))) /\ got' = got
      BY <2>3, <2>4, <3>1, ToldMore DEF GotIds, PickInv, OnceEach
    <3>2. CASE said' = said /\ got' = got \cup {Listed(Head(batch))}
      <4>1. Told' = Told /\ ToldIds' = ToldIds  BY <3>2 DEF Told, ToldIds
      <4>2. GotIds' = GotIds \cup {h}  BY <2>3, <3>2 DEF GotIds
      <4>3. \A e \in got : e.id # h  BY <2>4 DEF GotIds
      <4>4. \A e, f \in got' : e.id = f.id => e = f
        BY <2>3, <3>2, <4>3 DEF PickInv, OnceEach
      <4> QED  BY <3>2, <4>1, <4>2, <4>4 DEF PickInv, OnceEach
    <3> QED  BY <2>1, <3>1, <3>2
  <2>6. RowIds' = RowIds  BY <2>1 DEF RowIds
  <2>7. Answered' = Answered  BY <2>2, <2>5, <2>6 DEF Answered
  <2>8. Apart(ToldIds, GotIds, BatchIds, RowIds)'
    BY <2>2, <2>5, <2>6 DEF PickInv, OnceEach, Apart
  <2>9. OnceEach'  BY <2>1, <2>2, <2>5, <2>8 DEF PickInv, OnceEach
  <2>10. cursor # "done"  BY <2>1 DEF PickInv, Yield
  <2> QED  BY <2>1, <2>7, <2>9, <2>10 DEF PickInv, Picked, Asked
<1>8. CASE Draw
  <2>1. PICK e \in got : got' = got \ {e} /\ said' = Append(said, e)
    BY <1>8 DEF Draw, Say
  <2>2. UNCHANGED <<job, cursor, commits, rows, batch>>  BY <1>8 DEF Draw, reading
  <2>3. e.id \in GotIds /\ e.what = "event"  BY DEF GotIds, GotInv
  <2>4. e.id \notin ToldIds  BY <2>3 DEF PickInv, OnceEach, Apart
  <2>5. /\ ToldIds' = ToldIds \cup {e.id}
        /\ \A j, k \in Told' : said'[j].id = said'[k].id => j = k
    BY <2>1, <2>3, <2>4, ToldMore DEF PickInv
  <2>6. GotIds' = GotIds \ {e.id}
    <3>1. \A f \in got : f.id = e.id => f = e  BY <2>1 DEF PickInv, OnceEach
    <3> QED  BY <2>1, <3>1 DEF GotIds
  <2>7. BatchIds' = BatchIds /\ RowIds' = RowIds  BY <2>2 DEF BatchIds, RowIds
  <2>8. Answered' = Answered  BY <2>3, <2>5, <2>6, <2>7 DEF Answered
  <2>9. Apart(ToldIds, GotIds, BatchIds, RowIds)'
    BY <2>3, <2>5, <2>6, <2>7 DEF PickInv, OnceEach, Apart
  <2>10. OnceEach'  BY <2>1, <2>2, <2>5, <2>9 DEF PickInv, OnceEach
  <2> QED  BY <2>2, <2>8, <2>10 DEF PickInv, Picked, Asked
<1>9. CASE ReadFails \/ WriteFails
  <2>1. /\ said' = said /\ cursor' = "failed" /\ got' \subseteq got /\ batch' = <<>> /\ rows' = <<>>
    BY <1>9 DEF ReadFails, WriteFails, FailQuery, StopReading, stream
  <2>2. DOMAIN batch' = {} /\ DOMAIN rows' = {}  BY <2>1, IdleShape
  <2>3. Told' = Told /\ ToldIds' = ToldIds  BY <2>1 DEF Told, ToldIds
  <2>4. GotIds' \subseteq GotIds /\ BatchIds' = {} /\ RowIds' = {}
    BY <2>1, <2>2 DEF GotIds, BatchIds, RowIds
  <2>5. OnceEach'  BY <2>1, <2>2, <2>3, <2>4 DEF PickInv, OnceEach, Apart
  <2> QED  BY <2>1, <2>5 DEF PickInv
<1>10. CASE RowsEnd
  <2>1. /\ cursor = "open" /\ cursor' = "done" /\ batch = <<>> /\ NextBatch = 0
        /\ UNCHANGED <<job, said, got, commits, rows, batch>>
    BY <1>10 DEF RowsEnd, EndOfRows, stream
  <2>2. rows = <<>>
    <3>1. PICK S : rows \in Seq(S)  BY DEF MetaInv, IsSeq
    <3>2. Len(rows) = 0  BY <2>1, <3>1, BatchAssumption DEF NextBatch, Smaller
    <3>3. \A t \in Seq(S) : Len(t) = 0 => t = <<>>  OBVIOUS
    <3> QED  BY ONLY <3>1, <3>2, <3>3
  <2>3. Told' = Told /\ ToldIds' = ToldIds /\ GotIds' = GotIds /\ BatchIds' = BatchIds
        /\ RowIds' = RowIds
    BY <2>1 DEF Told, ToldIds, GotIds, BatchIds, RowIds
  <2>4. OnceEach' /\ Answered' = Answered
    BY <2>1, <2>3 DEF PickInv, OnceEach, Apart, Answered
  <2> QED  BY <2>1, <2>2, <2>4 DEF PickInv, Picked, Asked
<1> QED
  BY <1>1, <1>2, <1>3, <1>4, <1>5, <1>6, <1>7, <1>8, <1>9, <1>10 DEF Next, Run, List

-------------------------------------------------------------------------------
(* What follows for what a listing shows.                                  *)

ListingInv == /\ OutputInv /\ GotInv /\ PromptInv
              /\ KindInv /\ MetaInv /\ WayInv /\ FrameInv /\ PickInv

LEMMA ListingInvariant == Spec => []ListingInv
<1>1. Init => ListingInv
  BY OutputInit, PromptInit, KindInit, MetaInit, WayInit, FrameInit, PickInit
     DEF ListingInv, GotInv, Init
<1>2. ListingInv /\ [Next]_vars => ListingInv'
  BY PagerStep, VerdictStep, StreamStep, GotStep, PromptStep, KindStep, MetaStep, WayStep,
     FrameStep, PickStep
     DEF ListingInv, OutputInv
<1> QED  BY <1>1, <1>2, PTL DEF Spec

(* A run that ends well has told all its query answered.                   *)
LEMMA AllTold ==
  ASSUME ListingInv, Ended
  PROVE  Picked(Asked, job, ToldIds)
<1>1. cursor = "done" /\ got = {}
  BY DEF Ended, ListingInv, WayInv, After
<1>2. rows = <<>> /\ batch = <<>> /\ Picked(Asked, job, Answered)
  BY <1>1 DEF ListingInv, PickInv
<1>3. Answered = ToldIds  BY <1>1, <1>2, IdleShape DEF Answered, GotIds, BatchIds, RowIds
<1> QED  BY <1>2, <1>3

(* A listing that succeeds shows every row of its query once, whatever the *)
(* batch size, the format and the commits of others meanwhile (ListSeq).   *)
THEOREM EachRowOnce == Spec => []EachOnce
<1>1. ListingInv => EachOnce
  <2> SUFFICES ASSUME ListingInv, Ended
               PROVE  /\ Cardinality(Told) = Cardinality(ToldIds)
                      /\ Cardinality(ToldIds) = Kept(Matching(Asked, job), job)
    BY DEF EachOnce
  <2>1. IsFiniteSet(Told)
    <3>1. Told \subseteq 1..Len(said) /\ Len(said) \in Nat
      BY SeqLen DEF Told, ListingInv, MetaInv
    <3>2. IsFiniteSet(1..Len(said))  BY <3>1, FS_Interval
    <3> QED  BY <3>1, <3>2, FS_Subset
  <2>2. [k \in Told |-> said[k].id] \in Bijection(Told, ToldIds)
    BY DEF ListingInv, PickInv, OnceEach, ToldIds, Bijection, Injection, Surjection, IsInjective
  <2>3. Cardinality(Told) = Cardinality(ToldIds)
    BY <2>1, <2>2, FS_Bijection DEF ExistsBijection
  <2> QED  BY <2>3, AllTold DEF Picked
<1> QED  BY <1>1, ListingInvariant, PTL

(* -n keeps the newest of what matches, whichever end -r shows first, and  *)
(* as many as there are up to the limit (buildListQuery).                  *)
THEOREM LimitKeepsNewest == Spec => []KeepsNewest
<1>1. ListingInv => KeepsNewest
  BY AllTold DEF KeepsNewest, Picked, Kept, Survives
<1> QED  BY <1>1, ListingInvariant, PTL

(* A JSON listing leaves one closed array behind, a failed read included,  *)
(* unless it was refused or its output could not be written (JSONStream).  *)
THEOREM JSONIsFramed == Spec => []Framed
<1>1. ListingInv => Framed
  <2> SUFFICES ASSUME ListingInv, job.kind = "list", code \in {"ok", "error"},
                      ~RequestRefused(job), job.format = "json", sink = "ok", pager # "quit"
               PROVE  Closed
    BY DEF Framed, Closed
  <2>1. pc = "over"  BY DEF ListingInv, OutputInv, VerdictInv
  <2> QED  BY <2>1 DEF ListingInv, FrameInv, Cut, After
<1> QED  BY <1>1, ListingInvariant, PTL

-------------------------------------------------------------------------------
(* Where a listing begins and ends.                                        *)

(* What a bare date or a day ago is parsed to is of the day it names.      *)
LEMMA ParsesToDay ==
  ASSUME MidnightsKept, NEW v \in Values, ~HasTime(v)
  PROVE  NamedDay(v) \in Int /\ Day(Shown(ParsePartial(v, Now).t)) = NamedDay(v)
<1>1. Now \in Int /\ DayHours \in Nat \ {0} /\ Shown(Now) \in Int /\ Day(Shown(Now)) \in Int
  BY BatchAssumption, ZoneAssumption, DayBounds DEF Shown, Offset
<1>2. CASE v.form = "date"
  <2>1. Reading(v.day, 0) \in Int /\ v.day \in Int  BY <1>1 DEF Reading, Values
  <2>2. ParsePartial(v, Now).t = Date(Reading(v.day, 0))
    BY <1>2 DEF ParsePartial, LocalClock
  <2>3. Day(Reading(v.day, 0)) = v.day
    <3> DEFINE m == Reading(v.day, 0)
    <3>1. m <= m /\ m < m + DayHours  BY <1>1, <2>1
    <3> QED  BY <2>1, <3>1, DayIs
  <2> QED  BY <1>2, <2>1, <2>2, <2>3, DateKeepsDay DEF NamedDay
<1>3. CASE v.form = "dayAgo"
  <2>1. -v.ago \in Int /\ Day(Shown(Now)) + (-v.ago) = Day(Shown(Now)) - v.ago
    BY <1>1 DEF Values
  <2>2. Day(Shown(AddDays(Now, -v.ago))) = Day(Shown(Now)) - v.ago
    BY <1>1, <2>1, AddDaysDay
  <2> QED  BY <1>1, <1>3, <2>1, <2>2 DEF ParsePartial, NamedDay, Values
<1> QED  BY <1>2, <1>3 DEF HasTime, Values, Forms

LEMMA BoundsAreInclusive ==
  ASSUME MidnightsKept, NEW v \in Values, NEW t \in Int
  PROVE  /\ t >= ParseBound(v, FALSE, Now) <=> NotBefore(t, v)
         /\ t < ParseBound(v, TRUE, Now) <=> NotAfter(t, v)
<1> DEFINE p == ParsePartial(v, Now).t
<1>1. p \in Int  BY BatchAssumption, ParseType
<1> HIDE DEF p
<1>2. CASE HasTime(v)
  BY <1>1, <1>2 DEF ParseBound, NotBefore, NotAfter, p
<1>3. CASE ~HasTime(v)
  <2> DEFINE d == NamedDay(v)
  <2>1. d \in Int /\ Day(Shown(p)) = d  BY <1>3, ParsesToDay DEF p
  <2> HIDE DEF d
  <2>2. StartOfDay(p) = Date(Reading(d, 0))  BY <2>1 DEF StartOfDay
  <2>3. AddDays(StartOfDay(p), 1) = Date(Reading(d + 1, 0))
    <3>1. Shown(StartOfDay(p)) = Reading(d, 0)  BY <2>1, <2>2, MidnightOnce
    <3>2. Reading(d, 0) + 1 * DayHours = Reading(d + 1, 0)  BY <2>1, DayIs, ZoneAssumption
    <3> QED  BY <3>1, <3>2 DEF AddDays
  <2>4. Day(Shown(t)) \in Int  BY DayBounds, ZoneAssumption DEF Shown, Offset
  <2>5. t >= Date(Reading(d, 0)) <=> Day(Shown(t)) >= d  BY <2>1, MidnightOnce
  <2>6. /\ t >= Date(Reading(d + 1, 0)) <=> Day(Shown(t)) >= d + 1
        /\ Date(Reading(d + 1, 0)) \in Int
    BY <2>1, MidnightOnce
  <2>7. t < Date(Reading(d + 1, 0)) <=> Day(Shown(t)) <= d  BY <2>1, <2>4, <2>6
  <2> QED
    BY <1>3, <2>2, <2>3, <2>5, <2>7 DEF ParseBound, NotBefore, NotAfter, p, d
<1> QED  BY <1>2, <1>3

(* In a zone that keeps its midnights, once each, a range holds all of     *)
(* the days it was given by, 23 or 25 hours long as they may be, and the   *)
(* moments, and nothing else (parseBound, startOfDay).                     *)
THEOREM RangeIsInclusive == MidnightsKept => (Spec => []RangeInclusive)
<1> SUFFICES ASSUME MidnightsKept PROVE Spec => []RangeInclusive  OBVIOUS
<1>1. ListingInv => RangeInclusive
  <2> SUFFICES ASSUME ListingInv, Ended, job.limit = 0, Tokens(job) = <<>>
               PROVE  ToldIds = {i \in Live(Asked) :
                        /\ job.from # NoBound => NotBefore(At(Asked, i), job.from)
                        /\ job.to # NoBound => NotAfter(At(Asked, i), job.to)}
    BY DEF RangeInclusive
  <2>1. cursor = "done" /\ job \in Jobs /\ job.kind = "list"
    BY DEF Ended, ListingInv, WayInv, KindInv, After
  <2>2. Asked \in Openings /\ Picked(Asked, job, ToldIds)
    BY <2>1, AllTold DEF ListingInv, PickInv
  <2>3. Matching(Asked, job) \subseteq Ids
    BY <2>2, OpeningsAssumption DEF Matching
  <2>4. IsFiniteSet(Matching(Asked, job))
    <3>1. IsFiniteSet(Ids)  BY MaxIdAssumption, FS_Interval DEF Ids
    <3> QED  BY <2>3, <3>1, FS_Subset
  <2>5. ToldIds = Matching(Asked, job)
    <3>1. Cardinality(ToldIds) = Cardinality(Matching(Asked, job))
      BY <2>2 DEF Picked, Kept
    <3> QED  BY <2>2, <2>4, <3>1, FS_Subset DEF Picked
  <2>6. Matching(Asked, job) = {i \in Live(Asked) : Within(job, At(Asked, i))}
    BY DEF Matching, Found, At
  <2>7. ASSUME NEW i \in Live(Asked)
        PROVE  Within(job, At(Asked, i)) <=>
                 /\ job.from # NoBound => NotBefore(At(Asked, i), job.from)
                 /\ job.to # NoBound => NotAfter(At(Asked, i), job.to)
    <3>1. At(Asked, i) \in Int  BY <2>2, OpeningsAssumption
    <3>2. /\ job.from # NoBound => job.from \in Values
          /\ job.to # NoBound => job.to \in Values
      BY <2>1, RequestAssumption DEF Values
    <3> QED  BY <3>1, <3>2, BoundsAreInclusive DEF Within
  <2> QED  BY <2>5, <2>6, <2>7
<1> QED  BY <1>1, ListingInvariant, PTL

-------------------------------------------------------------------------------
(* What -S selects, and which requests are refused.                        *)

LEMMA TrimIs ==
  ASSUME NEW T, NEW s \in Seq(T)
  PROVE  TrimSpace(s) \in Seq(T)
<1> DEFINE kept == {k \in DOMAIN s : s[k] # Space}  n == Len(s)
           first == CHOOSE k \in kept : \A j \in kept : k <= j
           last == CHOOSE k \in kept : \A j \in kept : j <= k
<1>1. n \in Nat /\ DOMAIN s = 1..n  OBVIOUS
<1>2. CASE kept = {}  BY <1>2 DEF TrimSpace
<1>3. CASE kept # {}
  <2>1. kept \in SUBSET (1..n) /\ kept \in SUBSET Nat  BY <1>1
  <2>2. TrimSpace(s) = SubSeq(s, first, last)  BY <1>3 DEF TrimSpace
  <2> HIDE DEF kept
  <2>3. \E k \in kept : \A j \in kept : k <= j  BY <1>3, <2>1, LeastNat
  <2>4. \E k \in kept : \A j \in kept : j <= k
    <3> DEFINE S == {n - k : k \in kept}
    <3>1. S \in SUBSET Nat /\ S # {}
      <4>1. \A k \in kept : n - k \in Nat  BY <1>1, <2>1
      <4> HIDE DEF n
      <4> QED  BY <1>3, <4>1
    <3>2. PICK x \in S : \A y \in S : x <= y
      <4> HIDE DEF S
      <4> QED  BY <3>1, LeastNat
    <3>3. PICK k \in kept : x = n - k  BY <3>2
    <3>4. ASSUME NEW j \in kept PROVE j <= k
      <4>1. n - k <= n - j  BY <3>2, <3>3, <3>4
      <4> QED  BY <1>1, <2>1, <4>1
    <3> QED  BY <3>4
  <2>5. first \in 1..n /\ last \in 1..n  BY <2>1, <2>3, <2>4
  <2> HIDE DEF first, last
  <2> QED  BY <1>1, <2>2, <2>5
<1> QED  BY <1>2, <1>3

LEMMA TokensAre ==
  ASSUME NEW q, q.search \in Seq(Symbols(q.search))
  PROVE  IsTokens(Tokens(q))
<1> DEFINE s == TrimSpace(q.search)
<1>1. s \in Seq(Symbols(q.search))  BY TrimIs
<1> HIDE DEF s
<1>2. Tokenize(s) \in Seq(TokensOf(s))  BY <1>1, TokenizeIs
<1>3. \A t \in TokensOf(s) : t.kind \in Operators \cup {"term"}  BY DEF TokensOf
<1> QED  BY <1>2, <1>3 DEF Tokens, IsTokens, s

Bad(q) == q.limit < 0 \/ (Tokens(q) # <<>> /\ ~WellFormed(Tokens(q)))

(* The filter of a request, looked up in a journal a run may find.         *)
LEMMA CompiledIs ==
  ASSUME NEW q \in Jobs, q.kind = "list", NEW d \in Openings
  PROVE  OrAnswers(Tokens(q), HitsOf(d, Tokens(q)), Live(d), Compiled(d, q))
<1>1. IsTokens(Tokens(q))  BY RequestAssumption, TokensAre
<1>2. HitsOf(d, Tokens(q)) \in [1..Len(Tokens(q)) -> SUBSET Live(d)]
  <2>1. \A text : Hits(d, text) \in SUBSET Live(d)  BY OpeningsAssumption DEF Hits
  <2> QED  BY <1>1, <2>1 DEF HitsOf, IsTokens
<1> QED  BY <1>1, <1>2, CompileFilterIs DEF Compiled

LEMMA RefusedIs ==
  ASSUME job \in Jobs, job.kind = "list", db \in Openings
  PROVE  RequestRefused(job) <=> Bad(job)
BY CompiledIs DEF RequestRefused, Bad, OrAnswers

(* A bad request gets no further than the refusal; any other that nobody   *)
(* disturbs meets no error.                                                *)
RefusalInv ==
  job.kind = "list" /\ Bad(job) =>
    /\ said = <<>> /\ pager = "none" /\ cursor = "unopened" /\ code # "ok"
    /\ \/ pc = "start"
       \/ pc \in {"returning", "flushed", "unwinding", "over"} /\ (err \/ code = "killed")

CalmInv ==
  job.kind = "list" /\ ~Bad(job) /\ job \notin Stirred /\ pager # "quit" =>
    /\ ~err /\ ~out.failed /\ sink = "ok"
    /\ pc = "over" => code = "ok"

LEMMA BadKept == [Next]_vars => job' = job /\ (Bad(job)' <=> Bad(job))
<1> SUFFICES ASSUME [Next]_vars PROVE job' = job
  BY DEF Bad, Tokens
<1>1. CASE UNCHANGED vars  BY <1>1 DEF vars, terminal
<1>2. CASE List
  BY <1>2
     DEF List, Refuse, Start, Header, Query, Load, Write, Collect, Draw, ReadFails, RowsEnd,
         Drawn, CloseArray, WriteFails, Finish, terminal
<1>3. CASE Process
  BY <1>3
     DEF Process, MakeRoom, PushShown, PushPiped, PushFails, ClosePager, WaitPager, Help,
         ExitFlushed, HookExits, Usage, Ask, AwaitAnswer, Answer, Reply, ReplyFails, Edit,
         CreateTemp, EditorExits, RemoveTemp, LiftBracket, CommandReturned, Report, Exit
<1>4. CASE Reader \/ Others \/ World
  BY <1>4
     DEF Reader, Pager, PagerReads, PagerEnds, Others, World, PagerQuits, Interrupt, DiskFull,
         terminal
<1> QED  BY <1>1, <1>2, <1>3, <1>4 DEF Next, Run

(* Where a run decides on a request it has the journal it opened.          *)
LEMMA DecidedAsMeant ==
  ASSUME KindInv, MetaInv, WayInv, pc \in {"start", "query"}, job.kind = "list"
  PROVE  RequestRefused(job) <=> Bad(job)
BY RefusedIs DEF KindInv, MetaInv, WayInv

LEMMA RefusalStep ==
  RefusalInv /\ KindInv /\ MetaInv /\ WayInv /\ VerdictInv /\ [Next]_vars => RefusalInv'
<1> SUFFICES ASSUME RefusalInv, KindInv, MetaInv, WayInv, VerdictInv, [Next]_vars,
                    job.kind = "list", Bad(job)
             PROVE  RefusalInv'
  BY BadKept DEF RefusalInv
<1>0. /\ said = <<>> /\ pager = "none" /\ cursor = "unopened" /\ code # "ok"
      /\ \/ pc = "start"
         \/ pc \in {"returning", "flushed", "unwinding", "over"} /\ (err \/ code = "killed")
      /\ pc = "start" => RequestRefused(job)
      /\ code # "none" => pc = "over"
  BY DecidedAsMeant DEF RefusalInv, VerdictInv
<1>1. CASE UNCHANGED vars  BY <1>0, <1>1 DEF vars, terminal, reading, RefusalInv
<1>2. CASE List
  BY <1>0, <1>2
     DEF List, Refuse, Start, Header, Query, Load, Write, Collect, Draw, ReadFails, RowsEnd,
         Drawn, CloseArray, WriteFails, Finish, Here, Goto, stream, Outside, reading, RefusalInv
<1>3. CASE Process /\ UNCHANGED <<reading, got>>
  <2>1. CASE MakeRoom \/ PushShown \/ PushPiped \/ PushFails
    BY <1>0, <1>3, <2>1 DEF MakeRoom, PushShown, PushPiped, PushFails, reading, RefusalInv
  <2>2. CASE CommandReturned \/ Report \/ Exit
    BY <1>0, <1>3, <2>2 DEF CommandReturned, Report, Exit, Here, Goto, reading, RefusalInv
  <2>3. CASE ~(MakeRoom \/ PushShown \/ PushPiped \/ PushFails \/ CommandReturned \/ Report \/ Exit)
    BY <1>0, <1>3, <2>3
       DEF Process, ClosePager, WaitPager, Help, ExitFlushed, HookExits, Usage, Ask,
           AwaitAnswer, Answer, Reply, ReplyFails, Edit, CreateTemp, EditorExits, RemoveTemp,
           LiftBracket, Here
  <2> QED  BY <2>1, <2>2, <2>3
<1>4. CASE Reader \/ Others
  BY <1>0, <1>4
     DEF Reader, Pager, PagerReads, PagerEnds, Others, Elsewhere, terminal, reading, RefusalInv
<1>5. CASE World /\ UNCHANGED <<reading, got>>
  BY <1>0, <1>5 DEF World, PagerQuits, Interrupt, DiskFull, Goto, reading, RefusalInv
<1> QED  BY <1>1, <1>2, <1>3, <1>4, <1>5 DEF Next, Run

LEMMA CalmStep ==
  CalmInv /\ KindInv /\ MetaInv /\ WayInv /\ OutputInv /\ OutShape /\ [Next]_vars => CalmInv'
<1> SUFFICES ASSUME CalmInv, KindInv, MetaInv, WayInv, PagerInv, VerdictInv, OutShape,
                    [Next]_vars, job.kind = "list", ~Bad(job), job \notin Stirred, pager' # "quit"
             PROVE  ~err' /\ ~out'.failed /\ sink' = "ok" /\ (pc' = "over" => code' = "ok")
  BY BadKept DEF CalmInv, OutputInv
<1>0. /\ pc \in {"start", "query"} => ~RequestRefused(job)
      /\ pc = "start" => pager = "none" /\ out = IdleOut
      /\ code # "none" => pc = "over"
      /\ pc \in {"start"} \cup Under \cup After
  BY DecidedAsMeant DEF VerdictInv, WayInv
<1>00. pager # "quit"
  <2> SUFFICES ASSUME pager = "quit" PROVE pager' = "quit"  OBVIOUS
  <2>1. CASE UNCHANGED vars  BY <2>1 DEF vars, terminal
  <2>2. CASE List
    BY <1>0, <2>2
       DEF List, Refuse, Start, Header, Query, Load, Write, Collect, Draw, ReadFails, RowsEnd,
           Drawn, CloseArray, WriteFails, Finish, Here, terminal
  <2>3. CASE Process
    BY <2>3
       DEF Process, MakeRoom, PushShown, PushPiped, PushFails, ClosePager, WaitPager, Help,
           ExitFlushed, HookExits, Usage, Ask, AwaitAnswer, Answer, Reply, ReplyFails, Edit,
           CreateTemp, EditorExits, RemoveTemp, LiftBracket, CommandReturned, Report, Exit
  <2>4. CASE Reader \/ Others \/ World
    BY <2>4
       DEF Reader, Pager, PagerReads, PagerEnds, Others, World, PagerQuits, Interrupt, DiskFull,
           terminal
  <2> QED  BY <2>1, <2>2, <2>3, <2>4 DEF Next, Run
<1>01. ~err /\ ~out.failed /\ sink = "ok" /\ (pc = "over" => code = "ok")
  BY <1>00 DEF CalmInv
<1>1. CASE UNCHANGED vars  BY <1>01, <1>1 DEF vars, terminal
<1>2. CASE List
  <2>1. CASE Refuse \/ Start
    BY <1>0, <1>01, <2>1
       DEF Refuse, Start, StartPager, Here, Goto, stream, Outside, OutShape
  <2>2. CASE Header \/ Write \/ Draw \/ CloseArray
    BY <1>01, <2>2 DEF Header, Write, Draw, CloseArray, Say, Goto, Outside, OutShape
  <2>3. CASE Query \/ Load \/ Collect \/ RowsEnd \/ Drawn \/ Finish
    BY <1>01, <2>3
       DEF Query, Load, Collect, RowsEnd, AfterRows, Drawn, Finish, Flushing, Goto, stream,
           Outside, terminal, OutShape
  <2>4. CASE ReadFails \/ WriteFails
    BY <1>0, <1>01, <2>4 DEF ReadFails, WriteFails, Here
  <2> QED  BY <1>2, <2>1, <2>2, <2>3, <2>4 DEF List
<1>3. CASE Process
  <2>1. CASE MakeRoom \/ PushShown \/ PushPiped
    <3>1. UNCHANGED <<err, sink, pc, code>>  BY <2>1 DEF MakeRoom, PushShown, PushPiped
    <3>2. out'.failed = out.failed
      BY <2>1 DEF MakeRoom, PushShown, PushPiped, Rest, Flushing, OutShape
    <3> QED  BY <1>01, <3>1, <3>2
  <2>2. CASE PushFails
    BY <1>00, <1>01, <2>2 DEF PushFails, PagerInv
  <2>3. CASE ClosePager \/ WaitPager \/ CommandReturned \/ Report
    <3>0. sink' = sink /\ pc' # "over"
      BY <2>3 DEF ClosePager, WaitPager, CommandReturned, Report, Goto
    <3>1. ~err'
      BY <1>01, <2>3, Zenon DEF ClosePager, Restore, WaitPager, CommandReturned, Report
    <3>2. ~out'.failed
      BY <1>01, <2>3, IdleShape
         DEF ClosePager, Restore, WaitPager, CommandReturned, FinalOut, Report, Flushing, OutShape
    <3> QED  BY <1>01, <3>0, <3>1, <3>2
  <2>4. CASE Exit
    BY <1>01, <2>4 DEF Exit, Goto
  <2>5. CASE ~(\/ MakeRoom \/ PushShown \/ PushPiped \/ PushFails \/ ClosePager \/ WaitPager
               \/ CommandReturned \/ Report \/ Exit)
    BY <1>0, <1>3, <2>5
       DEF Process, Help, ExitFlushed, HookExits, Usage, Ask, AwaitAnswer, Answer, Reply,
           ReplyFails, Edit, CreateTemp, EditorExits, RemoveTemp, LiftBracket, Here, Under, After
  <2> QED  BY <2>1, <2>2, <2>3, <2>4, <2>5
<1>4. CASE Reader \/ Others \/ World
  BY <1>01, <1>4
     DEF Reader, Pager, PagerReads, PagerEnds, Others, World, PagerQuits, Interrupt, DiskFull,
         terminal
<1> QED  BY <1>1, <1>2, <1>3, <1>4 DEF Next, Run

(* What the two invariants say, once every other holds too.                *)
LEMMA RequestsInvariant == Spec => [](ListingInv /\ RefusalInv /\ CalmInv)
<1>1. Init => RefusalInv /\ CalmInv
  BY IdleShape DEF Init, TerminalInit, Unopened, RefusalInv, CalmInv
<1>2. ListingInv /\ RefusalInv /\ [Next]_vars => RefusalInv'
  BY RefusalStep DEF ListingInv, OutputInv
<1>3. ListingInv /\ CalmInv /\ [Next]_vars => CalmInv'
  BY CalmStep DEF ListingInv, OutputInv, PromptInv
<1> QED  BY <1>1, <1>2, <1>3, ListingInvariant, PTL DEF Spec

(* An expression that does not fit the grammar, like a limit below 0, is   *)
(* refused before a pager is started, a query opened or a byte written, and*)
(* no other listing fails by itself (toListOpts).                          *)
THEOREM RefusalsComeFirst == Spec => []RefusedBeforeOutput
<1>1. RefusalInv /\ CalmInv => RefusedBeforeOutput
  BY DEF RefusalInv, CalmInv, RefusedBeforeOutput, Bad
<1> QED  BY <1>1, RequestsInvariant, PTL

(* -S selects what its expression means by the precedence filter.go states,*)
(* for every text of an expression and every journal with an index of its  *)
(* own events (CompileFilter, parseOr, parseAnd, parseUnary).              *)
THEOREM SelectionIsMeant == Spec => []SelectsAsMeant
<1>1. ListingInv /\ RefusalInv => SelectsAsMeant
  <2> DEFINE toks == Tokens(job)  hits == HitsOf(Asked, toks)  all == Live(Asked)
             c == Compiled(Asked, job)
  <2> SUFFICES ASSUME ListingInv, RefusalInv, Ended, job.limit = 0, Unbounded(job), toks # <<>>
               PROVE  ToldIds = Meaning(toks, hits, all)
    BY DEF SelectsAsMeant
  <2>1. cursor = "done" /\ job \in Jobs /\ job.kind = "list"
    BY DEF Ended, ListingInv, WayInv, KindInv, After
  <2>2. Asked \in Openings /\ Picked(Asked, job, ToldIds)
    BY <2>1, AllTold DEF ListingInv, PickInv
  <2>3. WellFormed(toks)  BY DEF RefusalInv, Bad, Ended
  <2>4. c.found = Meaning(toks, hits, all)
    <3>1. OrAnswers(toks, hits, all, c)  BY <2>1, <2>2, CompiledIs
    <3> QED  BY <2>3, <3>1 DEF OrAnswers
  <2>5. Meaning(toks, hits, all) \subseteq all  BY DEF Meaning
  <2>6. Matching(Asked, job) = Meaning(toks, hits, all)
    <3>1. Found(Asked, job) = c.found  BY DEF Found
    <3>2. \A at : Within(job, at)  BY DEF Within, Unbounded
    <3> HIDE DEF c, hits, toks
    <3> QED  BY <2>4, <2>5, <3>1, <3>2 DEF Matching
  <2>7. ToldIds = Matching(Asked, job)
    <3>1. Matching(Asked, job) \subseteq Ids  BY <2>2, OpeningsAssumption DEF Matching
    <3>2. IsFiniteSet(Ids)  BY MaxIdAssumption, FS_Interval DEF Ids
    <3>3. Cardinality(ToldIds) = Cardinality(Matching(Asked, job))  BY <2>2 DEF Picked, Kept
    <3> QED  BY <2>2, <3>1, <3>2, <3>3, FS_Subset DEF Picked
  <2> QED  BY <2>6, <2>7
<1> QED  BY <1>1, RequestsInvariant, PTL

-------------------------------------------------------------------------------
(* The words of a text, as FTS5 finds them.                                *)

(* The elements of a set of positions can be counted off.                  *)
LEMMA RanksAre ==
  ASSUME NEW n \in Nat, NEW W \in SUBSET (1..n)
  PROVE  /\ IsFiniteSet(W) /\ Cardinality(W) \in Nat
         /\ \A k \in 1..Cardinality(W) : \E i \in W : Cardinality(W \cap 1..i) = k
         /\ \A i, j \in W : Cardinality(W \cap 1..i) = Cardinality(W \cap 1..j) => i = j
<1> DEFINE rank == [i \in W |-> Cardinality(W \cap 1..i)]  N == Cardinality(W)
<1>1. IsFiniteSet(W) /\ N \in Nat
  <2>1. IsFiniteSet(1..n)  BY FS_Interval
  <2> QED  BY <2>1, FS_Subset, FS_CardinalityType
<1>2. ASSUME NEW i \in W PROVE IsFiniteSet(W \cap 1..i) /\ rank[i] \in 1..N
  <2>1. W \cap 1..i \subseteq W /\ i \in W \cap 1..i  OBVIOUS
  <2>2. /\ IsFiniteSet(W \cap 1..i) /\ Cardinality(W \cap 1..i) \in Nat
        /\ Cardinality(W \cap 1..i) <= N
    BY <1>1, <2>1, FS_Subset, FS_CardinalityType
  <2>3. Cardinality(W \cap 1..i) # 0  BY <2>1, <2>2, FS_EmptySet
  <2> QED  BY <1>1, <2>2, <2>3
<1>3. ASSUME NEW i \in W, NEW j \in W, rank[i] = rank[j], i < j PROVE FALSE
  <2>1. W \cap 1..i \subseteq W \cap 1..j /\ j \in W \cap 1..j /\ j \notin W \cap 1..i
    BY <1>3
  <2>2. Cardinality(W \cap 1..i) = Cardinality(W \cap 1..j)  BY <1>3
  <2> QED  BY <1>2, <2>1, <2>2, FS_Subset
<1>4. \A i, j \in W : rank[i] = rank[j] => i = j
  <2> SUFFICES ASSUME NEW i \in W, NEW j \in W, rank[i] = rank[j] PROVE i = j  OBVIOUS
  <2>1. ~(i < j) /\ ~(j < i) /\ i \in Nat /\ j \in Nat  BY <1>3
  <2> QED  BY <2>1
<1>5. rank \in Surjection(W, 1..N)
  <2>1. rank \in [W -> 1..N]  BY <1>2
  <2>2. rank \in Injection(W, 1..N)  BY <1>4, <2>1 DEF Injection, IsInjective
  <2>3. IsFiniteSet(1..N) /\ Cardinality(1..N) = N  BY <1>1, FS_Interval
  <2> HIDE DEF rank
  <2> QED  BY <2>2, <2>3, FS_Injection
<1>6. \A k \in 1..N : \E i \in W : rank[i] = k  BY <1>5 DEF Surjection
<1> QED  BY <1>1, <1>4, <1>6

KthStart(s, k) == CHOOSE i \in WordStarts(s) : Cardinality(WordStarts(s) \cap 1..i) = k
WordAt(s, i) == SubSeq(s, i, EndOf(s, i, Separators))

LEMMA WordsAre ==
  ASSUME NEW T, NEW s \in Seq(T)
  PROVE  /\ WordStarts(s) \in SUBSET (1..Len(s))
         /\ Cardinality(WordStarts(s)) \in Nat /\ Len(Words(s)) = Cardinality(WordStarts(s))
         /\ \A k \in 1..Cardinality(WordStarts(s)) :
              KthStart(s, k) \in WordStarts(s) /\ Words(s)[k] = WordAt(s, KthStart(s, k))
<1>1. WordStarts(s) \in SUBSET (1..Len(s)) /\ Len(s) \in Nat  BY DEF WordStarts
<1> DEFINE W == WordStarts(s)
<1>2. Cardinality(W) \in Nat /\ \A k \in 1..Cardinality(W) : \E i \in W : Cardinality(W \cap 1..i) = k
  BY <1>1, RanksAre
<1>3. \A k \in 1..Cardinality(W) : KthStart(s, k) \in W  BY <1>2 DEF KthStart
<1>4. Words(s) = [k \in 1..Cardinality(W) |-> WordAt(s, KthStart(s, k))]
  BY DEF Words, KthStart, WordAt
<1> HIDE DEF W
<1>5. Len(Words(s)) = Cardinality(W)  BY <1>2, <1>4
<1> QED  BY <1>1, <1>2, <1>3, <1>4, <1>5 DEF W

(* The words of a part that is cut off before a mark are the first words.  *)
LEMMA WordsOfPrefix ==
  ASSUME NEW T, NEW s \in Seq(T), NEW m \in 0..Len(s),
         m < Len(s) => s[m+1] \in Separators
  PROVE  LET b == SubSeq(s, 1, m) IN
         /\ Len(Words(b)) <= Len(Words(s))
         /\ \A k \in 1..Len(Words(b)) : Words(b)[k] = Words(s)[k]
<1> DEFINE b == SubSeq(s, 1, m)  V == WordStarts(b)  W == WordStarts(s)
<1>1. b \in Seq(T) /\ Len(b) = m /\ m \in Nat /\ \A k \in 1..m : b[k] = s[k]  OBVIOUS
<1>2. V = W \cap 1..m
  <2>1. DOMAIN b = 1..m /\ DOMAIN s = 1..Len(s) /\ 1..m \subseteq 1..Len(s)  BY <1>1
  <2>2. \A i \in 1..m : i > 1 => i - 1 \in 1..m  BY <1>1
  <2> HIDE DEF b
  <2> QED  BY <1>1, <2>1, <2>2 DEF WordStarts
<1>3. /\ W \in SUBSET (1..Len(s)) /\ IsFiniteSet(W) /\ Cardinality(V) <= Cardinality(W)
      /\ Len(Words(s)) = Cardinality(W) /\ Len(Words(b)) = Cardinality(V)
      /\ Cardinality(V) \in Nat /\ Cardinality(W) \in Nat
  <2>1. W \in SUBSET (1..Len(s)) /\ Len(Words(s)) = Cardinality(W)  BY WordsAre
  <2>2. Len(Words(b)) = Cardinality(V)  BY <1>1, WordsAre
  <2>3. IsFiniteSet(W)
    <3>1. Len(s) \in Nat  OBVIOUS
    <3> HIDE DEF W
    <3> QED  BY <2>1, <3>1, RanksAre
  <2>4. V \subseteq W  BY <1>2
  <2> HIDE DEF V, W
  <2> QED  BY <2>1, <2>2, <2>3, <2>4, FS_Subset, FS_CardinalityType
<1>4. ASSUME NEW i \in V PROVE WordAt(b, i) = WordAt(s, i)
  <2> DEFINE e == EndOf(b, i, Separators)
  <2>1. i \in 1..m /\ b[i] \notin Separators /\ s[i] \notin Separators /\ i \in 1..Len(s)
    BY <1>1, <1>2 DEF WordStarts
  <2>2. EndsAt(b, i, Separators, e)  BY <1>1, <2>1, EndOfIs
  <2> HIDE DEF e
  <2>3. /\ e \in i..m /\ \A k \in i..e : b[k] \notin Separators
        /\ e < m => b[e+1] \in Separators
    BY <1>1, <2>2 DEF EndsAt
  <2> HIDE DEF b
  <2>4. \A k \in i..e : s[k] \notin Separators  BY <1>1, <2>1, <2>3
  <2>5. e < Len(s) => s[e+1] \in Separators
    <3>1. CASE e < m
      <4>1. e + 1 \in 1..m  BY <1>1, <2>1, <2>3, <3>1
      <4> QED  BY <1>1, <2>3, <3>1, <4>1
    <3>2. CASE e = m  BY <3>2
    <3> QED  BY <1>1, <2>1, <2>3, <3>1, <3>2
  <2>6. e \in i..Len(s)  BY <1>1, <2>1, <2>3
  <2>7. EndsAt(s, i, Separators, e)  BY <2>4, <2>5, <2>6 DEF EndsAt
  <2>8. EndOf(s, i, Separators) = e  BY <2>1, <2>7, EndOfIs
  <2>9. SubSeq(b, i, e) = SubSeq(s, i, e)
    <3>1. \A k \in 1..(e - i + 1) : (i + k - 1) \in 1..m  BY <1>1, <2>1, <2>3
    <3>2. \A k \in 1..(e - i + 1) : b[i + k - 1] = s[i + k - 1]  BY <1>1, <3>1
    <3>3. SubSeq(b, i, e) = [k \in 1..(e - i + 1) |-> b[i + k - 1]]
      BY <1>1, <2>1, <2>3
    <3>4. SubSeq(s, i, e) = [k \in 1..(e - i + 1) |-> s[i + k - 1]]
      BY <1>1, <2>1, <2>3
    <3> QED  BY <3>2, <3>3, <3>4
  <2> QED  BY <2>8, <2>9 DEF WordAt, e
<1>5. ASSUME NEW k \in 1..Cardinality(V) PROVE Words(b)[k] = Words(s)[k]
  <2>1. /\ KthStart(b, k) \in V /\ Words(b)[k] = WordAt(b, KthStart(b, k))
    BY <1>1, WordsAre
  <2>2. KthStart(s, k) \in W /\ Words(s)[k] = WordAt(s, KthStart(s, k))  BY <1>3, WordsAre
  <2>3. Len(s) \in Nat /\ V \in SUBSET (1..Len(s))  BY <1>2, <1>3
  <2>4. Cardinality(V \cap 1..KthStart(b, k)) = k
    <3> DEFINE is(i) == Cardinality(V \cap 1..i) = k
    <3>1. \E i \in V : is(i)
      <4> HIDE DEF V
      <4> QED  BY <2>3, RanksAre
    <3>2. KthStart(b, k) = CHOOSE i \in V : is(i)  BY DEF KthStart
    <3> HIDE DEF V, is
    <3>3. is(KthStart(b, k))  BY <3>1, <3>2
    <3> QED  BY <3>3 DEF is
  <2>5. Cardinality(W \cap 1..KthStart(s, k)) = k
    <3> DEFINE is(i) == Cardinality(W \cap 1..i) = k
    <3>1. \E i \in W : is(i)
      <4>1. k \in 1..Cardinality(W)  BY <1>3
      <4> HIDE DEF W, V
      <4> QED  BY <1>3, <2>3, <4>1, RanksAre
    <3>2. KthStart(s, k) = CHOOSE i \in W : is(i)  BY DEF KthStart
    <3> HIDE DEF W, is
    <3>3. is(KthStart(s, k))  BY <3>1, <3>2
    <3> QED  BY <3>3 DEF is
  <2> DEFINE i == KthStart(b, k)  j == KthStart(s, k)
  <2>6. i = j
    <3>1. i \in V /\ i \in W /\ j \in W  BY <1>2, <2>1, <2>2
    <3>2. i \in Nat /\ i <= m  BY <1>1, <1>2, <3>1
    <3> HIDE DEF i, j, V, W, b
    <3>3. V \cap 1..i = W \cap 1..i  BY <1>1, <1>2, <3>2
    <3>4. Cardinality(W \cap 1..i) = Cardinality(W \cap 1..j)
      BY <2>4, <2>5, <3>3 DEF i, j
    <3> QED  BY <1>3, <2>3, <3>1, <3>4, RanksAre
  <2> QED  BY <1>4, <2>1, <2>2, <2>6
<1> QED  BY <1>3, <1>5

(* A text without marks is one word.                                       *)
LEMMA OneWordIs ==
  ASSUME NEW T, NEW w \in Seq(T), w # <<>>, Symbols(w) \cap Separators = {}
  PROVE  Words(w) = <<w>>
<1> DEFINE n == Len(w)
<1>1. n \in Nat \ {0} /\ DOMAIN w = 1..n /\ \A k \in 1..n : w[k] \notin Separators
  BY DEF Symbols
<1>2. WordStarts(w) = {1}
  <2>1. \A i \in 1..n : i > 1 => i - 1 \in 1..n  BY <1>1
  <2>2. 1 \in 1..n /\ ~(1 > 1) /\ \A i \in 1..n : i = 1 \/ i > 1  BY <1>1
  <2> QED  BY <1>1, <2>1, <2>2 DEF WordStarts
<1>3. Cardinality(WordStarts(w)) = 1  BY <1>2, FS_Singleton
<1>4. KthStart(w, 1) = 1 /\ Words(w)[1] = WordAt(w, 1) /\ Len(Words(w)) = 1
  <2>1. 1 \in 1..Cardinality(WordStarts(w))  BY <1>3
  <2>2. KthStart(w, 1) \in WordStarts(w) /\ Words(w)[1] = WordAt(w, KthStart(w, 1))
        /\ Len(Words(w)) = Cardinality(WordStarts(w))
    BY <2>1, WordsAre
  <2> QED  BY <1>2, <1>3, <2>2
<1>5. EndOf(w, 1, Separators) = n
  <2>1. EndsAt(w, 1, Separators, n)  BY <1>1 DEF EndsAt
  <2> QED  BY <1>1, <2>1, EndOfIs
<1>6. WordAt(w, 1) = w  BY <1>1, <1>5 DEF WordAt
<1>7. Words(w) = [k \in 1..1 |-> Words(w)[k]]  BY <1>3 DEF Words
<1> QED  BY <1>4, <1>6, <1>7

(* A tuple whose key opens with no sigil, and what is typed to find it.    *)
Findable(m) == ValidateMeta(m) /\ ~Opens(m.key, {"#", "@", "="})
FirstTerm(s) == SubSeq(s, 1, EndOf(s, 1, Delims))

LEMMA SpelledIs ==
  ASSUME NEW T, "=" \in T, NEW m, m.key \in Seq(T), m.value \in Seq(T), Findable(m)
  PROVE  LET s == Spelled(m)  k == Len(m.key) IN
         /\ s \in Seq(T) /\ k \in Nat \ {0} /\ k < Len(s) /\ Len(s) \in Nat
         /\ s[k+1] = "=" /\ \A j \in 1..k : s[j] \notin Delims
         /\ s[1] \notin {"!", "#", "@", "="}
<1> DEFINE key == m.key  value == m.value  k == Len(key)  s == Spelled(m)
<1>1. /\ k \in Nat \ {0} /\ \A j \in 1..k : key[j] \notin Delims
      /\ key[1] \notin {"!", "#", "@", "="}
  BY DEF Findable, ValidateMeta, Opens, Symbols
<1>2. s = key \o <<"=">> \o value  BY DEF Spelled
<1> HIDE DEF s, key, value
<1>3. key \in Seq(T) /\ value \in Seq(T) /\ k = Len(key)  BY DEF key, value
<1> HIDE DEF k
<1>4. s \in Seq(T)  BY <1>2, <1>3
<1>5. Len(s) = k + 1 + Len(value) /\ s[k+1] = "=" /\ \A j \in 1..k : s[j] = key[j]
  BY <1>1, <1>2, <1>3
<1>6. Len(s) \in Nat /\ k < Len(s) /\ 1 \in 1..k  BY <1>1, <1>3, <1>5
<1> QED  BY <1>1, <1>4, <1>5, <1>6 DEF key, k, s

LEMMA FirstTermIs ==
  ASSUME NEW T, NEW s \in Seq(T), NEW k \in Nat \ {0}, k < Len(s),
         s[k+1] = "=", \A j \in 1..k : s[j] \notin Delims
  PROVE  LET w == FirstTerm(s) IN
         /\ w \in Seq(T) /\ k < Len(w) /\ Len(w) <= Len(s) /\ w = SubSeq(s, 1, Len(w))
         /\ Symbols(w) \cap Delims = {}
         /\ Len(w) < Len(s) => s[Len(w) + 1] \in Delims
<1> DEFINE e == EndOf(s, 1, Delims)  w == FirstTerm(s)
<1>0. "=" \notin Delims /\ Len(s) \in Nat /\ 1 \in 1..k
  <2>1. "=" \notin Delims  BY DEF Delims, Space
  <2> QED  BY <2>1
<1>1. 1 \in 1..Len(s) /\ s[1] \notin Delims  BY <1>0
<1>2. /\ e \in 1..Len(s) /\ \A j \in 1..e : s[j] \notin Delims
      /\ e < Len(s) => s[e+1] \in Delims
  BY <1>1, EndOfIs DEF EndsAt
<1> HIDE DEF e
<1>3. k < e
  <2> SUFFICES ASSUME e <= k PROVE FALSE  BY <1>2
  <2>1. e < Len(s) /\ e + 1 \in 1..k+1  BY <1>2
  <2>2. s[e+1] \in Delims  BY <1>2, <2>1
  <2>3. e + 1 \in 1..k \/ e + 1 = k + 1  BY <1>2, <2>1
  <2> QED  BY <1>0, <2>2, <2>3
<1>4. w = SubSeq(s, 1, e)  BY DEF FirstTerm, e
<1>5. w \in Seq(T) /\ Len(w) = e /\ DOMAIN w = 1..e /\ \A j \in 1..e : w[j] = s[j]
  BY <1>2, <1>4
<1> HIDE DEF w
<1>6. Symbols(w) \cap Delims = {}  BY <1>2, <1>5 DEF Symbols
<1> QED  BY <1>2, <1>3, <1>4, <1>5, <1>6 DEF w

(* Such a term is looked up among the tuples, by a phrase that ends where  *)
(* a word of the text does.                                                *)
LEMMA BareTermIs ==
  ASSUME NEW T, NEW s \in Seq(T), NEW k \in Nat \ {0}, k < Len(s),
         s[k+1] = "=", s[1] \notin {"#", "@", "="}, \A j \in 1..k : s[j] \notin Delims
  PROVE  LET w == FirstTerm(s) IN
         /\ ~TermRefused(w)
         /\ FTSTerm(w) = [column |-> "meta", prefix |-> Starred(w), phrase |-> Bare(w)]
         /\ \E m \in 1..Len(s) : /\ Bare(w) = SubSeq(s, 1, m) /\ k < m
                                 /\ m < Len(s) => s[m+1] \in Separators
         /\ Symbols(w) \cap Separators = {} => Bare(w) = w /\ ~Starred(w)
<1> DEFINE w == FirstTerm(s)  b == Bare(w)  n == Len(w)
<1>1. /\ w \in Seq(T) /\ k < n /\ n <= Len(s) /\ w = SubSeq(s, 1, n)
      /\ n < Len(s) => s[n + 1] \in Delims
  BY FirstTermIs
<1> HIDE DEF w
<1>2. n \in Nat /\ Len(s) \in Nat /\ \A j \in 1..n : w[j] = s[j]  BY <1>1
<1>3. Delims \subseteq Separators /\ "*" \in Separators
  BY DEF Delims, Separators, Marks, Space
<1>4. \E m \in 1..Len(s) : /\ b = SubSeq(s, 1, m) /\ k < m
                           /\ m < Len(s) => s[m+1] \in Separators
  <2>1. CASE Starred(w)
    <3>1. b = SubSeq(w, 1, n - 1) /\ w[n] = "*" /\ n > 1  BY <2>1 DEF Bare, Starred
    <3>2. s[n] = "*" /\ n # k + 1
      <4>1. n \in 1..n  BY <1>2, <3>1
      <4>2. s[n] = "*"  BY <1>2, <3>1, <4>1
      <4> QED  BY <4>2
    <3>3. k < n - 1 /\ n - 1 \in 1..Len(s) /\ (n - 1) + 1 = n
      <4>1. k \in Nat \ {0} /\ n \in Nat /\ Len(s) \in Nat /\ k < n /\ n # k + 1 /\ n <= Len(s)
        BY <1>1, <1>2, <3>2
      <4> HIDE DEF n
      <4> QED  BY <4>1
    <3>4. SubSeq(w, 1, n - 1) = SubSeq(s, 1, n - 1)
      <4>1. SubSeq(w, 1, n - 1) = [j \in 1..n-1 |-> w[j]]  BY <1>1, <1>2, <3>3
      <4>2. SubSeq(s, 1, n - 1) = [j \in 1..n-1 |-> s[j]]  BY <1>1, <1>2, <3>3
      <4>3. \A j \in 1..n-1 : w[j] = s[j]  BY <1>2
      <4> QED  BY <4>1, <4>2, <4>3
    <3> QED  BY <1>3, <3>1, <3>2, <3>3, <3>4
  <2>2. CASE ~Starred(w)
    <3>1. b = w  BY <2>2 DEF Bare
    <3>2. n \in 1..Len(s)  BY <1>1, <1>2
    <3> QED  BY <1>1, <1>3, <3>1, <3>2
  <2> QED  BY <2>1, <2>2
<1>5. PICK m \in 1..Len(s) : b = SubSeq(s, 1, m) /\ k < m  BY <1>4
<1>6. b \in Seq(T) /\ b # <<>> /\ DOMAIN b = 1..m /\ b[1] = s[1] /\ b[k+1] = "="
  BY <1>5
<1> HIDE DEF b
<1>7. HasEq(b) /\ Key(b) # <<>>
  <2> DEFINE S == {x \in DOMAIN b : b[x] = "="}
  <2>1. k + 1 \in S /\ S \in SUBSET Nat  BY <1>5, <1>6
  <2>2. PICK x \in S : \A y \in S : x <= y
    <3> HIDE DEF S
    <3> QED  BY <2>1, LeastNat
  <2>3. \A j \in 1..x-1 : b[j] # "="
    <3> SUFFICES ASSUME NEW j \in 1..x-1, b[j] = "=" PROVE FALSE  OBVIOUS
    <3>1. j \in S /\ j < x  BY <1>6, <2>2
    <3> QED  BY <2>1, <2>2, <3>1
  <2>4. FirstEq(b) \in DOMAIN b /\ b[FirstEq(b)] = "="  BY <2>2, <2>3 DEF FirstEq
  <2>5. FirstEq(b) \in 2..m  BY <1>5, <1>6, <2>4
  <2>6. Len(Key(b)) = FirstEq(b) - 1  BY <1>6, <2>5 DEF Key
  <2>7. Key(b) # <<>>  BY <2>5, <2>6
  <2> QED  BY <2>4, <2>7 DEF HasEq, Symbols
<1>8. ~Opens(b, {"#", "@"}) /\ ~Opens(b, {"#"}) /\ ~Opens(b, {"@"})  BY <1>6 DEF Opens
<1>9. Column(b) = "meta"  BY <1>7 DEF Column
<1>10. ~TermRefused(w)  BY <1>8 DEF TermRefused, b
<1>11. FTSTerm(w) = [column |-> "meta", prefix |-> Starred(w), phrase |-> b]
  BY <1>8, <1>9 DEF FTSTerm, b
<1>12. Symbols(w) \cap Separators = {} => b = w /\ ~Starred(w)
  <2> SUFFICES ASSUME Symbols(w) \cap Separators = {} PROVE ~Starred(w)  BY DEF Bare, b
  <2>1. n \in DOMAIN w  BY <1>1, <1>2
  <2>2. w[n] # "*"  BY <1>3, <2>1 DEF Symbols
  <2> QED  BY <2>2 DEF Starred
<1> QED  BY <1>4, <1>10, <1>11, <1>12 DEF w, b

(* The tuple itself says what was typed for it.                            *)
LEMMA SaysItself ==
  ASSUME NEW T, NEW s \in Seq(T), NEW k \in Nat \ {0}, NEW m \in 1..Len(s), k < m,
         s[k+1] = "=", m < Len(s) => s[m+1] \in Separators, NEW prefix
  PROVE  Says(s, SubSeq(s, 1, m), prefix)
<1> DEFINE b == SubSeq(s, 1, m)  text == Words(s)  p == Words(b)  n == Len(p)
<1>1. n <= Len(text) /\ \A j \in 1..n : p[j] = text[j]
  BY WordsOfPrefix
<1>2. b \in Seq(T) /\ DOMAIN b = 1..m /\ m \in Nat /\ b[k+1] = "=" /\ k + 1 \in 1..m  OBVIOUS
<1> HIDE DEF b
<1>3. WordStarts(b) # {}
  <2> DEFINE S == {i \in 1..k+1 : \A j \in i..k+1 : b[j] \notin Separators}
  <2>1. k + 1 \in S /\ S \in SUBSET Nat
    <3>1. "=" \notin Separators  BY DEF Separators
    <3>2. \A j \in k+1..k+1 : j = k + 1  OBVIOUS
    <3> QED  BY <1>2, <3>1, <3>2
  <2>2. PICK i \in S : \A j \in S : i <= j
    <3> HIDE DEF S
    <3> QED  BY <2>1, LeastNat
  <2>3. i > 1 => b[i-1] \in Separators
    <3> SUFFICES ASSUME i > 1, b[i-1] \notin Separators PROVE FALSE  OBVIOUS
    <3>1. i \in 1..k+1 /\ \A j \in i..k+1 : b[j] \notin Separators  BY <2>2
    <3>2. \A j \in i-1..k+1 : j = i - 1 \/ j \in i..k+1  BY <3>1
    <3>3. i - 1 \in S  BY <3>1, <3>2
    <3> QED  BY <2>2, <3>1, <3>3
  <2>4. i \in 1..m /\ b[i] \notin Separators  BY <1>2, <2>2
  <2> QED  BY <1>2, <2>3, <2>4 DEF WordStarts
<1>4. n \in Nat /\ n > 0
  <2> DEFINE V == WordStarts(b)
  <2>1. V \in SUBSET (1..Len(b)) /\ Len(b) \in Nat /\ n = Cardinality(V)  BY <1>2, WordsAre
  <2> HIDE DEF V
  <2>2. IsFiniteSet(V) /\ Cardinality(V) \in Nat  BY <2>1, RanksAre
  <2>3. V # {}  BY <1>3 DEF V
  <2> HIDE DEF n
  <2> QED  BY <2>1, <2>2, <2>3, FS_EmptySet
<1>5. p[n] = text[n] /\ Begins(p[n], p[n])
  <2>1. n \in 1..Cardinality(WordStarts(b))  BY <1>2, <1>4, WordsAre
  <2>2. p[n] = WordAt(b, KthStart(b, n))  BY <1>2, <2>1, WordsAre
  <2> DEFINE i == KthStart(b, n)  e == EndOf(b, i, Separators)
  <2>3. i \in WordStarts(b) /\ Len(b) = m  BY <1>2, <2>1, WordsAre
  <2>4. i \in 1..m /\ b[i] \notin Separators  BY <1>2, <2>3 DEF WordStarts
  <2>5. e \in i..m  BY <1>2, <2>3, <2>4, EndOfIs DEF EndsAt
  <2> HIDE DEF i, e
  <2>6. SubSeq(b, i, e) \in Seq(T)  BY <1>2, <2>4, <2>5
  <2>7. p[n] \in Seq(T)  BY <2>2, <2>6 DEF WordAt, i, e
  <2>8. n \in 1..n  BY <1>4
  <2> HIDE DEF p, text, n
  <2>9. p[n] = text[n]  BY <1>1, <2>8
  <2>10. \A x \in Seq(T) : Begins(x, x)  BY DEF Begins
  <2> QED  BY <2>7, <2>9, <2>10
<1>6. Len(text) \in Nat  BY WordsAre
<1>7. 0 \in 0..Len(text) - n  BY <1>1, <1>4, <1>6
<1> HIDE DEF text, p
<1> QED  BY <1>1, <1>4, <1>5, <1>7 DEF Says, text, p, b

-------------------------------------------------------------------------------
(* Tag views.                                                              *)

(* An expression of one term asks for what the term finds.                 *)
LEMMA OneTermMeans ==
  ASSUME NEW w, ~TermRefused(w), NEW hits, NEW all
  PROVE  WellFormed(<<Term(w)>>) /\ Meaning(<<Term(w)>>, hits, all) = all \cap hits[1]
<1> DEFINE toks == <<Term(w)>>
<1>1. /\ DOMAIN toks = {1} /\ toks[1].kind = "term" /\ toks[1].text = w /\ toks # <<>>
      /\ Kind(toks, 0) = "end" /\ Kind(toks, 2) = "end"
  BY DEF Term, Kind
<1> HIDE DEF toks
<1>2. WellFormed(toks)  BY <1>1 DEF WellFormed
<1>3. Alternatives(toks) = {<<1, 1>>}
  <2>1. \A alt \in (DOMAIN toks) \X (DOMAIN toks) : alt = <<1, 1>>  BY <1>1
  <2>2. <<1, 1>> \in Alternatives(toks)
    <3>1. \A i \in 1..1 : i = 1  OBVIOUS
    <3> QED  BY <1>1, <3>1 DEF Alternatives
  <2> QED  BY <2>1, <2>2 DEF Alternatives
<1>4. Negations(toks, 1) = 0
  <2>1. 0..1-1 = {0} /\ 1-0..1-1 = {} /\ 1 - 0 - 1 = 0  OBVIOUS
  <2>2. Kind(toks, 1 - 0 - 1) # "!"  BY <1>1
  <2> QED  BY <2>1, <2>2 DEF Negations
<1>5. ASSUME NEW e \in all PROVE e \in Meaning(toks, hits, all) <=> e \in hits[1]
  <2>1. \A i \in 1..1 : i = 1  OBVIOUS
  <2>2. 0 % 2 = 0  OBVIOUS
  <2> QED  BY <1>1, <1>3, <1>4, <2>1, <2>2 DEF Meaning
<1>6. Meaning(toks, hits, all) \subseteq all  BY DEF Meaning
<1> QED  BY <1>2, <1>5, <1>6 DEF toks

LEMMA TrimNothing ==
  ASSUME NEW T, NEW w \in Seq(T), w # <<>>, Symbols(w) \cap Delims = {}
  PROVE  TrimSpace(w) = w
<1> DEFINE n == Len(w)
           kept == {k \in DOMAIN w : w[k] # Space}
           first == CHOOSE k \in kept : \A j \in kept : k <= j
           last == CHOOSE k \in kept : \A j \in kept : j <= k
<1>1. n \in Nat \ {0} /\ DOMAIN w = 1..n  OBVIOUS
<1>2. kept = 1..n  BY <1>1 DEF Symbols, Delims
<1>3. TrimSpace(w) = SubSeq(w, first, last)
  <2>1. 1 \in kept  BY <1>1, <1>2
  <2>2. kept # {}  BY <2>1
  <2>3. TrimSpace(w) = IF kept = {} THEN <<>> ELSE SubSeq(w, first, last)  BY DEF TrimSpace
  <2> HIDE DEF kept, first, last
  <2> QED  BY <2>2, <2>3
<1> HIDE DEF kept
<1>4. first = 1 /\ last = n
  <2>1. 1 \in kept /\ n \in kept /\ \A j \in kept : 1 <= j /\ j <= n  BY <1>1, <1>2
  <2>2. first \in kept /\ \A j \in kept : first <= j  BY <2>1
  <2>3. last \in kept /\ \A j \in kept : j <= last  BY <2>1
  <2> HIDE DEF first, last
  <2>4. first <= 1 /\ n <= last  BY <2>1, <2>2, <2>3
  <2>5. first \in 1..n /\ last \in 1..n  BY <1>2, <2>2, <2>3
  <2> HIDE DEF n
  <2> QED  BY <1>1, <2>4, <2>5
<1> HIDE DEF first, last
<1> QED  BY <1>3, <1>4

(* A job that nobody disturbs is alone with the journal it found.          *)
StillInv ==
  job \notin Stirred =>
    /\ db \in Openings /\ commits \in {<<>>, <<db>>}
    /\ cursor \in {"open", "done"} => commits = <<db>>

LEMMA StillStep == StillInv /\ [Next]_vars => StillInv'
<1> SUFFICES ASSUME StillInv, [Next]_vars, job \notin Stirred
             PROVE  /\ db' = db /\ commits' \in {<<>>, <<db>>}
                    /\ cursor' \in {"open", "done"} => commits' = <<db>>
  BY BadKept DEF StillInv
<1>0. /\ db \in Openings /\ commits \in {<<>>, <<db>>}
      /\ cursor \in {"open", "done"} => commits = <<db>>
  BY DEF StillInv
<1>1. CASE UNCHANGED vars  BY <1>0, <1>1 DEF vars, reading
<1>2. CASE List
  BY <1>0, <1>2
     DEF List, Refuse, Start, Header, Query, OpenQuery, Load, LoadMeta, Write, Yield, Collect,
         Draw, ReadFails, FailQuery, StopReading, RowsEnd, EndOfRows, Drawn, CloseArray,
         WriteFails, Finish, Here, reading
<1>3. CASE Process /\ UNCHANGED <<reading, got>>  BY <1>0, <1>3 DEF reading
<1>4. CASE Reader \/ (World /\ UNCHANGED <<reading, got>>)
  BY <1>0, <1>4 DEF Reader, reading
<1>5. CASE Others  BY <1>5 DEF Others
<1> QED  BY <1>1, <1>2, <1>3, <1>4, <1>5 DEF Next, Run

LEMMA AloneInvariant == Spec => []StillInv
<1>1. Init => StillInv  BY DEF Init, Unopened, StillInv
<1> QED  BY <1>1, StillStep, PTL DEF Spec

(* A tag view finds exactly the tuples that spell what was typed, whatever *)
(* symbols keys, values and texts are made of: the events with the tuple,  *)
(* and none for what its own text says (ValidateMeta, ftsTerm).            *)
THEOREM TagViewsAreExact == Spec => []TagViewsExact
<1>1. /\ ListingInv /\ RefusalInv /\ CalmInv /\ StillInv /\ SelectsAsMeant
      => TagViewsExact
  <2> SUFFICES ASSUME ListingInv, CalmInv, StillInv, SelectsAsMeant,
                      NEW t \in Tuples, AskedFor(t), ~Opens(Chars[t.key], {"#", "@", "="})
               PROVE  /\ Carrying(t) \subseteq ToldIds
                      /\ Symbols(Typed(t)) \cap Separators = {} =>
                           \A i \in ToldIds : \E u \in Carried(db, i) : SaysWord(u, Typed(t))
    BY DEF TagViewsExact
  <2> DEFINE m == Written(t)  s == Spelled(m)  k == Len(m.key)  w == Typed(t)
             S == Symbols(m.key) \cup Symbols(m.value) \cup {"="}
  <2>1. Findable(m)  BY DEF Findable, AskedFor, Written
  <2>2. m.key \in Seq(S) /\ m.value \in Seq(S) /\ "=" \in S
    <3>1. m.key \in Seq(Symbols(m.key)) /\ m.value \in Seq(Symbols(m.value))
      BY CharsAssumption DEF Written
    <3> HIDE DEF m
    <3> QED  BY <3>1
  <2> HIDE DEF m
  <2>3. /\ s \in Seq(S) /\ k \in Nat \ {0} /\ k < Len(s) /\ Len(s) \in Nat
        /\ s[k+1] = "=" /\ \A j \in 1..k : s[j] \notin Delims
        /\ s[1] \notin {"!", "#", "@", "="}
    BY <2>1, <2>2, SpelledIs
  <2>4. w = FirstTerm(s)  BY DEF Typed, FirstTerm, m
  <2> HIDE DEF s, k, S
  <2>5. /\ w \in Seq(S) /\ k < Len(w) /\ w = SubSeq(s, 1, Len(w))
        /\ Symbols(w) \cap Delims = {}
    BY <2>3, <2>4, FirstTermIs
  <2>6. w # <<>> /\ w[1] = s[1]  BY <2>3, <2>5
  <2>7. /\ ~TermRefused(w)
        /\ FTSTerm(w) = [column |-> "meta", prefix |-> Starred(w), phrase |-> Bare(w)]
        /\ \E x \in 1..Len(s) : /\ Bare(w) = SubSeq(s, 1, x) /\ k < x
                                /\ x < Len(s) => s[x+1] \in Separators
        /\ Symbols(w) \cap Separators = {} => Bare(w) = w /\ ~Starred(w)
    BY <2>3, <2>4, BareTermIs
  <2>8. Tokens(job) = <<Term(w)>>
    <3>1. job.search = w  BY DEF AskedFor
    <3> HIDE DEF w
    <3>2. TrimSpace(w) = w  BY <2>5, <2>6, TrimNothing
    <3>3. Tokenize(w) = <<Term(w)>>  BY <2>3, <2>5, <2>6, OneTermIs
    <3> QED  BY <3>1, <3>2, <3>3 DEF Tokens
  <2> HIDE DEF w
  <2>9. job.kind = "list" /\ job.limit = 0 /\ Unbounded(job) /\ pc = "over"
        /\ job \notin Stirred /\ pager # "quit"
    BY DEF AskedFor
  <2>10. ~Bad(job)
    <3>1. WellFormed(<<Term(w)>>)  BY <2>7, OneTermMeans
    <3> QED  BY <2>8, <2>9, <3>1 DEF Bad
  <2>11. Ended  BY <2>9, <2>10 DEF CalmInv, Ended
  <2>12. db \in Openings /\ Asked = db
    <3>1. cursor = "done"  BY <2>11 DEF Ended, ListingInv, WayInv, After
    <3> QED  BY <2>9, <3>1 DEF StillInv, Asked
  <2>13. ToldIds = Live(db) \cap Hits(db, w)
    <3> DEFINE toks == <<Term(w)>>  hits == HitsOf(db, toks)
    <3>1. ToldIds = Meaning(toks, hits, Live(db))
      BY <2>8, <2>9, <2>11, <2>12 DEF SelectsAsMeant
    <3>2. hits[1] = Hits(db, w)  BY DEF HitsOf, Term
    <3> HIDE DEF hits
    <3>3. Meaning(toks, hits, Live(db)) = Live(db) \cap hits[1]  BY <2>7, OneTermMeans
    <3> QED  BY <3>1, <3>2, <3>3
  <2>14. Hits(db, w) = {i \in Live(db) : \E u \in Carried(db, i) :
                         Says(Spelled(Written(u)), Bare(w), Starred(w))}
    <3>1. DOMAIN db.fts = Live(db) /\ \A i \in Live(db) : db.fts[i].tokens = Carried(db, i)
      <4>1. /\ DOMAIN db.fts = Live(db)
            /\ \A i \in Live(db) : db.fts[i] = FTSColumns(db.events[i], db.meta[i])
        BY <2>12, OpeningsAssumption
      <4>2. ASSUME NEW i \in Live(db) PROVE db.fts[i].tokens = Carried(db, i)
        <5>1. db.fts[i] = FTSColumns(db.events[i], db.meta[i])  BY <4>1
        <5>2. FTSColumns(db.events[i], db.meta[i]).tokens = Carried(db, i)
          BY DEF FTSColumns, Carried
        <5> QED  BY <5>1, <5>2
      <4> QED  BY <4>1, <4>2
    <3>2. FTSTerm(w).column = "meta" /\ FTSTerm(w).prefix = Starred(w) /\ FTSTerm(w).phrase = Bare(w)
      BY <2>7
    <3>3. \A i \in Live(db) : Indexed(db, i, "meta") = {Spelled(Written(u)) : u \in Carried(db, i)}
      BY <3>1 DEF Indexed
    <3>4. Hits(db, w) = {i \in Live(db) : \E x \in Indexed(db, i, "meta") :
                          Says(x, Bare(w), Starred(w))}
      BY <3>1, <3>2 DEF Hits
    <3> QED  BY <3>3, <3>4
  <2>15. Carrying(t) \subseteq ToldIds
    <3>1. PICK x \in 1..Len(s) : /\ Bare(w) = SubSeq(s, 1, x) /\ k < x
                                 /\ x < Len(s) => s[x+1] \in Separators
      BY <2>7
    <3>2. Says(s, Bare(w), Starred(w))  BY <2>3, <3>1, SaysItself
    <3> QED  BY <2>13, <2>14, <3>2 DEF Carrying, s, m
  <2>16. ASSUME Symbols(w) \cap Separators = {}, NEW i \in ToldIds
         PROVE  \E u \in Carried(db, i) : SaysWord(u, w)
    <3>1. Bare(w) = w /\ ~Starred(w) /\ Words(w) = <<w>>  BY <2>5, <2>6, <2>7, <2>16, OneWordIs
    <3>2. PICK u \in Carried(db, i) : Says(Spelled(Written(u)), w, FALSE)
      <4>1. PICK u \in Carried(db, i) : Says(Spelled(Written(u)), Bare(w), Starred(w))
        BY <2>13, <2>14, <2>16
      <4>2. Starred(w) \in BOOLEAN  BY DEF Starred
      <4> QED  BY <3>1, <4>1, <4>2
    <3> DEFINE v == Spelled(Written(u))
    <3>3. \E X : v \in Seq(X)
      <4>1. u \in Tuples  BY DEF Carried
      <4> DEFINE a == Chars[u.key]  b == Chars[u.value]  X == Symbols(a) \cup Symbols(b) \cup {"="}
      <4>2. a \in Seq(Symbols(a)) /\ b \in Seq(Symbols(b))  BY <4>1, CharsAssumption
      <4>3. v = a \o <<"=">> \o b  BY DEF Spelled, Written
      <4> HIDE DEF a, b, v
      <4>4. a \in Seq(X) /\ b \in Seq(X) /\ <<"=">> \in Seq(X)  BY <4>2
      <4> HIDE DEF X
      <4> QED  BY <4>3, <4>4
    <3> HIDE DEF v
    <3>4. PICK X : v \in Seq(X)  BY <3>3
    <3>5. \E j \in 0..Len(Words(v)) - 1 : Words(v)[j+1] = w
      BY <3>1, <3>2 DEF Says, v
    <3>6. PICK j \in 1..Len(Words(v)) : Words(v)[j] = w
      <4>1. Len(Words(v)) \in Nat  BY <3>4, WordsAre
      <4> QED  BY <3>5, <4>1
    <3>7. KthStart(v, j) \in WordStarts(v) /\ w = WordAt(v, KthStart(v, j))
      BY <3>4, <3>6, WordsAre
    <3> QED  BY <3>7 DEF SaysWord, WordAt, v
  <2> QED  BY <2>15, <2>16 DEF w
<1> QED  BY <1>1, RequestsInvariant, AloneInvariant, SelectionIsMeant, PTL

===============================================================================
