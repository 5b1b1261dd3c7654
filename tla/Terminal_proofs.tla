---------------------------- MODULE Terminal_proofs ----------------------------
(***************************************************************************)
(* What stands between a run of fngr and its user, for any journal, batch  *)
(* size, buffer and pipe, and any number of commits of others.             *)
(***************************************************************************)
EXTENDS Listing, FiniteSetTheorems, TLAPS

-------------------------------------------------------------------------------
(* The editor's temporary file: while there is one, signals are ignored    *)
(* and the deferred removal is still to come.                              *)

EditorInv ==
  /\ editor \in [bracket : BOOLEAN, temp : BOOLEAN]
  /\ pc = "bracketed" => editor.bracket
  /\ editor.temp => editor.bracket /\ pc \in {"editing", "cleaning"}

LEMMA EditorInit == Init => EditorInv
BY DEF Init, TerminalInit, EditorInv

(* Steps that leave the editor alone.                                      *)
LEMMA EditorFrame ==
  ASSUME EditorInv, editor' = editor,
         \/ pc' = pc
         \/ pc' # "bracketed" /\ (pc \notin {"editing", "cleaning"} \/ ~editor.bracket)
  PROVE  EditorInv'
BY DEF EditorInv

LEMMA EditorStep == EditorInv /\ [Next]_vars => EditorInv'
<1> SUFFICES ASSUME EditorInv, [Next]_vars PROVE EditorInv'  OBVIOUS
<1>1. CASE UNCHANGED vars  BY <1>1, EditorFrame DEF vars, terminal
<1>2. CASE List
  BY <1>2, EditorFrame
     DEF List, Refuse, Start, Header, Query, Load, Write, Collect, Draw, ReadFails, RowsEnd,
         Drawn, CloseArray, WriteFails, Finish, Here, Goto, Say, Outside, terminal,
         AfterReadError, AfterRows
<1>3. CASE Reader \/ Others \/ World
  BY <1>3, EditorFrame
     DEF Reader, Pager, PagerReads, PagerEnds, Others, World, PagerQuits, Interrupt, DiskFull,
         terminal, Goto
<1>4. CASE Edit \/ CreateTemp \/ EditorExits \/ RemoveTemp \/ LiftBracket
  BY <1>4 DEF EditorInv, Edit, CreateTemp, EditorExits, AfterEditor, RemoveTemp, LiftBracket,
              Here, Goto
<1>5. CASE MakeRoom \/ PushShown \/ PushPiped \/ PushFails \/ ClosePager \/ WaitPager
  BY <1>5, EditorFrame
     DEF MakeRoom, PushShown, PushPiped, PushFails, ClosePager, WaitPager, Here, Goto
<1>6. CASE \/ Help \/ ExitFlushed \/ HookExits \/ Usage \/ Ask \/ AwaitAnswer \/ Answer
           \/ Reply \/ ReplyFails \/ CommandReturned \/ Report \/ Exit
  BY <1>6, EditorFrame
     DEF Help, ExitFlushed, HookExits, Usage, Ask, AwaitAnswer, Answer, Reply, ReplyFails,
         CommandReturned, Report, Exit, Say, Here, Goto
<1> QED  BY <1>1, <1>2, <1>3, <1>4, <1>5, <1>6 DEF Next, Run, Process

(* However a run ends, by Ctrl-C at any point or otherwise, the editor's   *)
(* temporary file is gone (ignoreTerminalSignals, realLaunchEditor).       *)
THEOREM NothingStranded == Spec => []TempRemoved
<1>1. EditorInv => TempRemoved  BY DEF EditorInv, TempRemoved
<1> QED  BY <1>1, EditorInit, EditorStep, PTL DEF Spec

-------------------------------------------------------------------------------
(* The prompt: until it is answered it is on the screen, in the buffer, or *)
(* lost to an error the answer will report.                                *)

Prompt == Item("prompt")

IsSeq(s) == \E S : s \in Seq(S)

LEMMA Appended ==
  ASSUME NEW s, IsSeq(s), NEW x
  PROVE  /\ IsSeq(Append(s, x)) /\ DOMAIN Append(s, x) = 1..Len(s)+1
         /\ Len(s) \in Nat /\ DOMAIN s = 1..Len(s)
         /\ Append(s, x)[Len(s)+1] = x
         /\ \A k \in DOMAIN s : k \in DOMAIN Append(s, x) /\ Append(s, x)[k] = s[k]
         /\ Append(s, x) # <<>>
<1>1. PICK S : s \in Seq(S)  BY DEF IsSeq
<1>2. s \in Seq(S \cup {x})  BY <1>1
<1>3. Append(s, x) \in Seq(S \cup {x})  BY <1>2
<1> QED  BY <1>2, <1>3 DEF IsSeq

LEMMA Rested ==
  ASSUME NEW s, IsSeq(s), s # <<>>
  PROVE  /\ IsSeq(Tail(s)) /\ Head(s) = s[1] /\ 1 \in DOMAIN s
         /\ Len(s) > 1 => Tail(s) # <<>>
<1>1. PICK S : s \in Seq(S)  BY DEF IsSeq
<1>2. Len(s) \in Nat \ {0} /\ DOMAIN s = 1..Len(s)  BY <1>1
<1>3. Tail(s) \in Seq(S) /\ Len(Tail(s)) = Len(s) - 1  BY <1>1, <1>2
<1>4. ASSUME Len(s) > 1 PROVE Tail(s) # <<>>
  <2>1. \A t \in Seq(S) : Len(t) # 0 => t # <<>>  OBVIOUS
  <2>2. Len(Tail(s)) # 0  BY <1>2, <1>3, <1>4
  <2>3. Tail(s) \in Seq(S)  BY <1>3
  <2> QED  BY ONLY <2>1, <2>2, <2>3
<1>5. Head(s) = s[1]  BY <1>1
<1> QED  BY <1>2, <1>3, <1>4, <1>5 DEF IsSeq

OutShape ==
  /\ out = [buf |-> out.buf, dest |-> out.dest, failed |-> out.failed, flushing |-> out.flushing]
  /\ IsSeq(out.buf) /\ IsSeq(screen)
  /\ out.flushing => out.buf # <<>>

Coming == /\ out.dest = "stdout"
          /\ \/ OnScreen(Prompt) \/ out.failed
             \/ out.buf = <<Prompt>> /\ (pc = "answering" => out.flushing)

PromptInv == /\ OutShape
             /\ pc = "start" => out = IdleOut
             /\ pc \in {"asked", "answering"} => Coming

LEMMA IdleShape == IdleOut.buf = <<>> /\ ~IdleOut.flushing /\ IdleOut.dest = "stdout" /\ IsSeq(<<>>)
                   /\ IdleOut = [buf |-> IdleOut.buf, dest |-> IdleOut.dest,
                                 failed |-> IdleOut.failed, flushing |-> IdleOut.flushing]
                   /\ ~IdleOut.failed
<1>1. <<>> \in Seq({})  OBVIOUS
<1> QED  BY <1>1 DEF IdleOut, IsSeq

LEMMA PromptInit == Init => PromptInv
BY IdleShape DEF Init, TerminalInit, PromptInv, OutShape

(* The buffer's and the screen's shape.                                    *)
LEMMA ShapeFrame ==
  ASSUME OutShape,
         \/ out' = out \/ out' = IdleOut \/ out' = Flushing(out) \/ out' = [out EXCEPT !.dest = "pager"]
         \/ out' = [out EXCEPT !.failed = TRUE, !.flushing = FALSE]
         \/ \E x : out' = [out EXCEPT !.buf = Append(@, x)]
         \/ out.buf # <<>> /\ out' = Rest(out),
         screen' = screen \/ \E y : screen' = Append(screen, y)
  PROVE  OutShape'
<1>1. IsSeq(screen')
  <2>1. CASE screen' = screen  BY <2>1 DEF OutShape
  <2>2. ASSUME NEW y, screen' = Append(screen, y) PROVE IsSeq(screen')
    BY <2>2, Appended DEF OutShape
  <2> QED  BY <2>1, <2>2
<1>2. CASE out' = out \/ out' = IdleOut \/ out' = Flushing(out) \/ out' = [out EXCEPT !.dest = "pager"]
           \/ out' = [out EXCEPT !.failed = TRUE, !.flushing = FALSE]
  BY <1>1, <1>2, IdleShape DEF OutShape, Flushing
<1>3. CASE \E x : out' = [out EXCEPT !.buf = Append(@, x)]
  <2>1. PICK x : out' = [out EXCEPT !.buf = Append(@, x)]  BY <1>3
  <2>2. IsSeq(Append(out.buf, x)) /\ Append(out.buf, x) # <<>>  BY Appended DEF OutShape
  <2>3. out'.buf = Append(out.buf, x)  BY <2>1 DEF OutShape
  <2>4. IsSeq(out'.buf) /\ out'.buf # <<>>  BY <2>2, <2>3
  <2> QED  BY <1>1, <2>1, <2>4 DEF OutShape
<1>4. CASE out.buf # <<>> /\ out' = Rest(out)
  BY <1>1, <1>4, Rested DEF OutShape, Rest
<1> QED  BY <1>2, <1>3, <1>4

LEMMA ComingFrame ==
  ASSUME OutShape, Coming, pc' = pc, out' = out,
         screen' = screen \/ \E y : screen' = Append(screen, y)
  PROVE  Coming'
<1>1. OnScreen(Prompt) => OnScreen(Prompt)'
  BY Appended DEF OnScreen, OutShape, Prompt, Item
<1> QED  BY <1>1 DEF Coming

LEMMA PromptStep == PromptInv /\ [Next]_vars => PromptInv'
<1> SUFFICES ASSUME PromptInv, [Next]_vars PROVE PromptInv'  OBVIOUS
<1>0. OutShape  BY DEF PromptInv
<1>1. CASE UNCHANGED vars
  <2>1. OutShape'  BY <1>1, <1>0, ShapeFrame DEF vars, terminal
  <2>2. pc \in {"asked", "answering"} => Coming'
    BY <1>1, <1>0, ComingFrame DEF PromptInv, vars, terminal
  <2> QED  BY <1>1, <2>1, <2>2 DEF PromptInv, vars, terminal
<1>2. CASE List
  <2>1. OutShape'
    BY <1>2, <1>0, ShapeFrame
       DEF List, Refuse, Start, StartPager, Header, Query, Load, Write, Collect, Draw,
           ReadFails, RowsEnd, Drawn, CloseArray, WriteFails, Finish, Say, Outside, stream,
           terminal
  <2>2. pc' \notin {"start", "asked", "answering"}
    BY <1>2
       DEF List, Refuse, Start, Header, Query, Load, Write, Collect, Draw, ReadFails, RowsEnd,
           Drawn, CloseArray, WriteFails, Finish, Here, Goto, Say, terminal, AfterReadError,
           AfterRows
  <2> QED  BY <2>1, <2>2 DEF PromptInv
<1>3. CASE Reader \/ Others \/ PagerQuits \/ DiskFull
  <2>1. /\ pc' = pc /\ out' = out
        /\ screen' = screen \/ \E y : screen' = Append(screen, y)
    BY <1>3 DEF Reader, Pager, PagerReads, PagerEnds, Others, PagerQuits, DiskFull, terminal
  <2>2. OutShape'  BY <2>1, <1>0, ShapeFrame
  <2>3. pc \in {"asked", "answering"} => Coming'
    BY <2>1, <1>0, ComingFrame DEF PromptInv
  <2> QED  BY <2>1, <2>2, <2>3 DEF PromptInv
<1>4. CASE Interrupt
  <2>1. OutShape'  BY <1>4, <1>0, ShapeFrame DEF Interrupt
  <2> QED  BY <1>4, <2>1 DEF PromptInv, Interrupt, Goto
<1>5. CASE MakeRoom
  <2>1. OutShape'  BY <1>5, <1>0, ShapeFrame DEF MakeRoom
  <2>2. pc # "start"  BY <1>5, CapAssumption DEF MakeRoom, PromptInv, IdleOut
  <2>3. pc \in {"asked", "answering"} => Coming'
    BY <1>5, <1>0 DEF MakeRoom, Flushing, PromptInv, Coming, OnScreen, OutShape
  <2> QED  BY <1>5, <2>1, <2>2, <2>3 DEF PromptInv, MakeRoom
<1>6. CASE PushShown
  <2>1. OutShape'  BY <1>6, <1>0, ShapeFrame DEF PushShown, OutShape
  <2>2. pc # "start"  BY <1>6, IdleShape DEF PushShown, PromptInv
  <2>3. ASSUME pc \in {"asked", "answering"} PROVE Coming'
    <3>1. Coming  BY <2>3 DEF PromptInv
    <3>2. out'.dest = out.dest /\ out'.failed = out.failed
      BY <1>6, <1>0 DEF PushShown, Rest, OutShape
    <3>3. OnScreen(Prompt) => OnScreen(Prompt)'
      BY <1>6, Appended DEF PushShown, OutShape, PromptInv, OnScreen, Prompt, Item
    <3>4. out.buf = <<Prompt>> => OnScreen(Prompt)'
      BY <1>6, Appended DEF PushShown, OutShape, PromptInv, OnScreen, Prompt, Item
    <3> QED  BY <3>1, <3>2, <3>3, <3>4 DEF Coming
  <2> QED  BY <1>6, <2>1, <2>2, <2>3 DEF PromptInv, PushShown
<1>7. CASE PushPiped \/ PushFails
  <2>1. OutShape'  BY <1>7, <1>0, ShapeFrame DEF PushPiped, PushFails, OutShape
  <2>2. pc # "start"  BY <1>7, IdleShape DEF PushPiped, PushFails, PromptInv
  <2>3. ASSUME pc \in {"asked", "answering"} PROVE Coming'
    <3>1. Coming  BY <2>3 DEF PromptInv
    <3>2. PushFails  BY <1>7, <3>1 DEF PushPiped, Coming
    <3> QED  BY <3>1, <3>2, <1>0 DEF PushFails, Coming, OutShape
  <2> QED  BY <1>7, <2>1, <2>2, <2>3 DEF PromptInv, PushPiped, PushFails
<1>8. CASE Ask
  <2>1. OutShape'  BY <1>8, <1>0, ShapeFrame DEF Ask, Say
  <2>2. out = IdleOut  BY <1>8 DEF Ask, Here, PromptInv
  <2>3. out'.buf = <<Prompt>> /\ out'.dest = "stdout" /\ pc' = "asked"
    BY <1>8, <2>2 DEF Ask, Say, Goto, IdleOut, Prompt
  <2> QED  BY <2>1, <2>3 DEF PromptInv, Coming
<1>9. CASE AwaitAnswer
  <2>1. OutShape'  BY <1>9, <1>0, ShapeFrame DEF AwaitAnswer, PromptOut
  <2>2. pc = "asked" /\ pc' = "answering" /\ out' = Flushing(out) /\ screen' = screen
    BY <1>9 DEF AwaitAnswer, PromptOut, Here, Goto
  <2>3. Coming  BY <2>2 DEF PromptInv
  <2>4. /\ out'.buf = out.buf /\ out'.dest = out.dest /\ out'.failed = out.failed
        /\ out'.flushing = (out.buf # <<>> /\ ~out.failed)
    BY <2>2, <1>0 DEF Flushing, OutShape
  <2>5. OnScreen(Prompt) => OnScreen(Prompt)'  BY <2>2 DEF OnScreen
  <2>6. <<Prompt>> # <<>>  OBVIOUS
  <2>7. Coming'  BY <2>2, <2>3, <2>4, <2>5, <2>6 DEF Coming
  <2> QED  BY <2>1, <2>2, <2>7 DEF PromptInv
<1>10. CASE \/ ClosePager \/ WaitPager \/ Help \/ ExitFlushed \/ HookExits \/ Usage
            \/ Answer \/ Reply \/ ReplyFails \/ Edit \/ CreateTemp \/ EditorExits
            \/ RemoveTemp \/ LiftBracket \/ CommandReturned \/ Report \/ Exit
  <2>1. OutShape'
    BY <1>10, <1>0, ShapeFrame
       DEF ClosePager, Restore, WaitPager, Help, ExitFlushed, HookExits, Usage, Answer, Reply,
           ReplyFails, Edit, CreateTemp, EditorExits, RemoveTemp, LiftBracket,
           CommandReturned, FinalOut, Report, Exit, Say
  <2>2. pc' \notin {"start", "asked", "answering"}
    BY <1>10
       DEF ClosePager, WaitPager, Help, ExitFlushed, HookExits, Usage, Answer, Reply,
           ReplyFails, Edit, CreateTemp, EditorExits, RemoveTemp, LiftBracket,
           CommandReturned, Report, Exit, Say, Goto
  <2> QED  BY <2>1, <2>2 DEF PromptInv
<1> QED
  BY <1>1, <1>2, <1>3, <1>4, <1>5, <1>6, <1>7, <1>8, <1>9, <1>10 DEF Next, Run, Process, World

(* Whatever the buffer holds and whatever fails, nobody is waited for at a *)
(* prompt that has not reached the screen (confirm), unless the write that *)
(* would have shown it failed and the answer is an error.                  *)
THEOREM PromptShown == Spec => []PromptSeen
<1>1. PromptInv => PromptSeen
  BY DEF PromptInv, Coming, PromptSeen, Here, Prompt
<1> QED  BY <1>1, PromptInit, PromptStep, PTL DEF Spec

-------------------------------------------------------------------------------
(* Output.  Where a run is decides who may be shown what is left of it.    *)

Under == {"header", "query", "rows", "drawing", "tail", "finish", "closing"}
After == {"waiting", "returning", "flushed", "unwinding", "over"}

(* The pager runs from StartPager on; its pipe is open for as long as the  *)
(* buffer leads to it, and it is waited for before anything is returned.   *)
PagerInv ==
  /\ pager \in {"none", "reading", "quit", "ended"}
  /\ pager # "none" => \/ out.dest = "pager" /\ pc \in Under
                       \/ out.dest = "stdout" /\ out.buf = <<>> /\ pc \in After
  /\ out.dest = "pager" => pipe.open /\ pager \in {"reading", "quit"}
  /\ out.dest \in {"stdout", "pager"}
  /\ pc = "closing" => out.dest = "pager"
  /\ pager # "reading" => pipe.items = <<>>
  /\ pc \in {"returning", "flushed", "unwinding"} => pager # "reading"
  /\ pager = "reading" /\ pc = "over" => code = "killed"
  /\ out.failed /\ out.dest = "pager" => pager = "quit"

(* A run is past a flush only with an empty buffer or a failed one, and    *)
(* its verdict comes after the last one.                                   *)
VerdictInv ==
  /\ pc = "start" => out = IdleOut /\ pager = "none"
  /\ pc \in {"closing", "flushed", "leaving", "unwinding"} =>
       out.flushing \/ out.failed \/ out.buf = <<>>
  /\ pc \in {"unwinding", "over"} => ~out.flushing
  /\ pc = "unwinding" => IF err THEN OnScreen(Verdict) ELSE out.buf = <<>>
  /\ code # "none" => pc = "over"
  /\ code = "killed" => out.buf = <<>>
  /\ OnScreen(Verdict) => pc \in {"unwinding", "over"} /\ pager # "reading"

Plain(s) == \A k \in DOMAIN s : s[k] # Verdict

(* t is what follows the first n items of s.                               *)
Follows(t, n, s) == \A k \in 1..Len(t) : n + k <= Len(s) /\ t[k] = s[n + k]

(* What has been written is what has been shown, what the pipe holds and   *)
(* what the buffer holds, in this order, but for what a pager that quit    *)
(* or a run that was killed takes with it.                                 *)
ChainInv ==
  /\ OutShape /\ IsSeq(said) /\ IsSeq(pipe.items)
  /\ pipe = [items |-> pipe.items, open |-> pipe.open]
  /\ Plain(out.buf) /\ Plain(pipe.items)
  /\ Follows(Seen, 0, said)
  /\ pager # "quit" => Follows(pipe.items, Len(Seen), said)
  /\ pager # "quit" /\ code # "killed" =>
       /\ Len(said) = Len(Seen) + Len(pipe.items) + Len(out.buf)
       /\ Follows(out.buf, Len(Seen) + Len(pipe.items), said)

OutputInv == PagerInv /\ VerdictInv /\ ChainInv

LEMMA OutputInit == Init => OutputInv
<1> SUFFICES ASSUME Init PROVE OutputInv  OBVIOUS
<1>1. /\ out = IdleOut /\ screen = <<>> /\ said = <<>> /\ pager = "none" /\ pc = "start"
      /\ code = "none" /\ pipe = [items |-> <<>>, open |-> FALSE]
  BY DEF Init, TerminalInit
<1>2. IsSeq(<<>>) /\ DOMAIN <<>> = {} /\ Len(<<>>) = 0  BY IdleShape
<1>3. ~OnScreen(Verdict) /\ Seen = <<>>  BY <1>1, <1>2 DEF OnScreen, Seen
<1>4. PagerInv  BY <1>1, IdleShape DEF PagerInv
<1>5. VerdictInv  BY <1>1, <1>3, IdleShape DEF VerdictInv
<1>6. OutShape  BY <1>1, IdleShape DEF OutShape
<1>7. Plain(<<>>) /\ \A n, s : Follows(<<>>, n, s)  BY <1>2 DEF Plain, Follows
<1>8. out.buf = <<>> /\ pipe.items = <<>> /\ pipe = [items |-> pipe.items, open |-> pipe.open]
  BY <1>1, IdleShape
<1>9. ChainInv  BY <1>1, <1>2, <1>3, <1>6, <1>7, <1>8 DEF ChainInv
<1> QED  BY <1>4, <1>5, <1>9 DEF OutputInv

LEMMA PagerStep == OutputInv /\ [Next]_vars => PagerInv'
<1> SUFFICES ASSUME OutputInv, [Next]_vars PROVE PagerInv'  OBVIOUS
<1>0. PagerInv /\ VerdictInv /\ OutShape /\ pipe = [items |-> pipe.items, open |-> pipe.open]
  BY DEF OutputInv, ChainInv
<1>1. CASE UNCHANGED vars  BY <1>0, <1>1 DEF PagerInv, vars, terminal
<1>2. CASE Refuse \/ Start
  BY <1>0, <1>2, IdleShape
     DEF Refuse, Start, StartPager, Here, Goto, PagerInv, VerdictInv, OutShape, stream, Under, After
<1>3. CASE Header \/ Query \/ Load \/ Write \/ Collect \/ Draw \/ CloseArray
  BY <1>0, <1>3
     DEF Header, Query, Load, Write, Collect, Draw, CloseArray, Say, Here, Goto, terminal,
         stream, PagerInv, OutShape, Under, After
<1>4. CASE ReadFails \/ RowsEnd \/ Drawn \/ WriteFails
  BY <1>0, <1>4
     DEF ReadFails, RowsEnd, Drawn, WriteFails, AfterReadError, AfterRows, Here, Goto, stream,
         PagerInv, Under, After
<1>5. CASE Finish
  BY <1>0, <1>5 DEF Finish, Flushing, Here, Goto, PagerInv, OutShape, Under, After
<1>6. CASE Reader \/ Others
  BY <1>0, <1>6
     DEF Reader, Pager, PagerReads, PagerEnds, Others, terminal, PagerInv, Under, After
<1>7. CASE World
  BY <1>0, <1>7, IdleShape
     DEF World, PagerQuits, Interrupt, DiskFull, Goto, PagerInv, VerdictInv, Under, After
<1>8. CASE MakeRoom \/ PushShown \/ PushPiped \/ PushFails
  BY <1>0, <1>8
     DEF MakeRoom, PushShown, PushPiped, PushFails, Rest, Flushing, PagerInv, VerdictInv,
         OutShape, Under, After
<1>9. CASE ClosePager \/ WaitPager
  BY <1>0, <1>9, IdleShape
     DEF ClosePager, WaitPager, Restore, Here, Goto, PagerInv, Under, After
<1>10. CASE Help \/ Ask \/ Reply
  BY <1>0, <1>10 DEF Help, Ask, Reply, Say, Here, Goto, PagerInv, OutShape, Under, After
<1>11. CASE \/ ExitFlushed \/ HookExits \/ Usage \/ AwaitAnswer \/ Answer \/ ReplyFails \/ Edit
            \/ CreateTemp \/ EditorExits \/ RemoveTemp \/ LiftBracket \/ CommandReturned
            \/ Report \/ Exit
  BY <1>0, <1>11
     DEF ExitFlushed, HookExits, Usage, AwaitAnswer, Answer, ReplyFails, Edit, CreateTemp,
         EditorExits, RemoveTemp, LiftBracket, CommandReturned, Report, Exit, PromptOut,
         FinalOut, Flushing, Here, Goto, PagerInv, VerdictInv, OutShape, Under, After
<1> QED
  BY <1>1, <1>2, <1>3, <1>4, <1>5, <1>6, <1>7, <1>8, <1>9, <1>10, <1>11
     DEF Next, Run, List, Process

LEMMA ScreenGrows ==
  ASSUME OutShape, NEW x, screen' = Append(screen, x)
  PROVE  OnScreen(Verdict)' <=> OnScreen(Verdict) \/ x = Verdict
<1>1. /\ DOMAIN screen' = 1..Len(screen)+1 /\ Len(screen) \in Nat /\ DOMAIN screen = 1..Len(screen)
      /\ screen'[Len(screen)+1] = x /\ \A k \in DOMAIN screen : screen'[k] = screen[k]
  BY Appended DEF OutShape
<1> QED  BY <1>1 DEF OnScreen, Verdict, Item

(* A flush is over when it has moved on the last item.                     *)
LEMMA RestEnds ==
  ASSUME OutShape, out.buf # <<>>, out' = Rest(out)
  PROVE  out'.flushing \/ out'.buf = <<>>
<1>1. PICK S : out.buf \in Seq(S)  BY DEF OutShape, IsSeq
<1>2. Len(out.buf) \in Nat \ {0} /\ Tail(out.buf) \in Seq(S) /\ Len(Tail(out.buf)) = Len(out.buf) - 1
  BY <1>1
<1>3. \A t \in Seq(S) : Len(t) = 0 => t = <<>>  OBVIOUS
<1>4. Len(out.buf) > 1 \/ Tail(out.buf) = <<>>  BY ONLY <1>2, <1>3
<1>5. out'.buf = Tail(out.buf) /\ out'.flushing = (Len(out.buf) > 1)  BY DEF Rest, OutShape
<1> QED  BY <1>4, <1>5

LEMMA VerdictStep == OutputInv /\ [Next]_vars => VerdictInv'
<1> SUFFICES ASSUME OutputInv, [Next]_vars PROVE VerdictInv'  OBVIOUS
<1>0. PagerInv /\ VerdictInv /\ OutShape /\ Plain(out.buf) /\ Plain(pipe.items) /\ IsSeq(pipe.items)
  BY DEF OutputInv, ChainInv
<1>00. screen' = screen => (OnScreen(Verdict)' <=> OnScreen(Verdict))
  BY DEF OnScreen, Verdict, Item
<1>1. CASE UNCHANGED vars  BY <1>0, <1>00, <1>1 DEF VerdictInv, vars, terminal
<1>2. CASE Refuse \/ Start \/ Header \/ Query \/ Load \/ Write \/ Collect \/ Draw \/ CloseArray
  BY <1>0, <1>00, <1>2
     DEF Refuse, Start, StartPager, Header, Query, Load, Write, Collect, Draw, CloseArray, Say,
         Here, Goto, Outside, terminal, stream, VerdictInv
<1>3. CASE ReadFails \/ RowsEnd \/ Drawn \/ WriteFails \/ Finish
  BY <1>0, <1>00, <1>3
     DEF ReadFails, RowsEnd, Drawn, WriteFails, Finish, Flushing, AfterReadError, AfterRows,
         Here, Goto, Outside, stream, VerdictInv, OutShape
<1>4. CASE Reader \/ Others
  <2>1. CASE PagerReads
    <3>1. Head(pipe.items) # Verdict  BY <1>0, <2>1, Rested DEF PagerReads, Plain
    <3>2. OnScreen(Verdict)' <=> OnScreen(Verdict)
      BY <1>0, <2>1, <3>1, ScreenGrows DEF PagerReads
    <3> QED  BY <1>0, <2>1, <3>2 DEF PagerReads, VerdictInv
  <2>2. CASE PagerEnds \/ Others
    BY <1>0, <1>00, <2>2 DEF PagerEnds, Others, terminal, VerdictInv
  <2> QED  BY <1>4, <2>1, <2>2 DEF Reader, Pager
<1>5. CASE World
  BY <1>0, <1>00, <1>5, IdleShape
     DEF World, PagerQuits, Interrupt, DiskFull, Goto, PagerInv, VerdictInv
<1>6. CASE PushShown
  <2>1. Head(out.buf) # Verdict  BY <1>0, <1>6, Rested DEF PushShown, Plain, OutShape
  <2>2. OnScreen(Verdict)' <=> OnScreen(Verdict)  BY <1>0, <1>6, <2>1, ScreenGrows DEF PushShown
  <2>3. out'.flushing \/ out'.buf = <<>>  BY <1>0, <1>6, RestEnds DEF PushShown, OutShape
  <2> QED  BY <1>0, <1>6, <2>2, <2>3, IdleShape DEF PushShown, Rest, VerdictInv, OutShape
<1>7. CASE PushPiped
  <2>1. out'.flushing \/ out'.buf = <<>>  BY <1>0, <1>7, RestEnds DEF PushPiped, OutShape
  <2> QED  BY <1>0, <1>00, <1>7, <2>1, IdleShape DEF PushPiped, Rest, VerdictInv, OutShape
<1>8. CASE MakeRoom \/ PushFails
  <2>1. MakeRoom => ~out.failed /\ ~out.flushing /\ out.buf # <<>> /\ pc # "over"
    BY CapAssumption DEF MakeRoom
  <2> QED
    BY <1>0, <1>00, <1>8, <2>1, IdleShape DEF MakeRoom, PushFails, Flushing, VerdictInv, OutShape
<1>9. CASE ClosePager \/ WaitPager
  BY <1>0, <1>00, <1>9, IdleShape
     DEF ClosePager, WaitPager, Restore, Here, Goto, VerdictInv
<1>10. CASE Help \/ Ask \/ Reply
  BY <1>0, <1>00, <1>10 DEF Help, Ask, Reply, Say, Here, Goto, VerdictInv, OutShape
<1>11. CASE \/ ExitFlushed \/ HookExits \/ AwaitAnswer \/ Answer \/ ReplyFails \/ Edit
            \/ CreateTemp \/ EditorExits \/ RemoveTemp \/ LiftBracket \/ CommandReturned
            \/ Exit
  BY <1>0, <1>00, <1>11
     DEF ExitFlushed, HookExits, AwaitAnswer, Answer, ReplyFails, Edit, CreateTemp,
         EditorExits, RemoveTemp, LiftBracket, CommandReturned, Exit, PromptOut,
         FinalOut, Flushing, Here, Goto, VerdictInv, OutShape
<1>12. CASE Usage
  <2>1. OnScreen(Verdict)'  BY <1>0, <1>12, ScreenGrows DEF Usage
  <2>2. ~out'.flushing /\ out'.buf = <<>>
    <3>1. out.buf = <<>> /\ ~out.flushing  BY <1>0, <1>12, IdleShape DEF Usage, Here, VerdictInv
    <3> QED  BY <1>0, <1>12, <3>1 DEF Usage, Flushing, OutShape
  <2> QED  BY <1>0, <1>12, <2>1, <2>2 DEF Usage, Here, Goto, VerdictInv
<1>13. CASE Report
  <2>1. out'.buf = out.buf /\ ~out'.flushing /\ out'.failed = out.failed
    BY <1>0, <1>13 DEF Report, Flushing, Here, VerdictInv, OutShape
  <2>2. IF err' THEN OnScreen(Verdict)' ELSE out'.buf = <<>>
    BY <1>0, <1>13, <2>1, ScreenGrows DEF Report, Here, VerdictInv
  <2> QED  BY <1>0, <1>13, <2>1, <2>2 DEF Report, Here, Goto, VerdictInv, PagerInv
<1> QED
  BY <1>1, <1>2, <1>3, <1>4, <1>5, <1>6, <1>7, <1>8, <1>9, <1>10, <1>11, <1>12, <1>13
     DEF Next, Run, List, Process

(* What has been shown, as the screen grows.                               *)
LEMMA SeenIsSeq == OutShape => IsSeq(Seen)
<1> SUFFICES ASSUME OutShape PROVE IsSeq(Seen)  OBVIOUS
<1>1. PICK S : screen \in Seq(S)  BY DEF OutShape, IsSeq
<1>2. SubSeq(screen, 1, Len(screen) - 1) \in Seq(S)  BY <1>1
<1> QED  BY <1>1, <1>2 DEF Seen, IsSeq

LEMMA SeenFrame == screen' = screen => Seen' = Seen
BY DEF Seen, OnScreen, Verdict, Item

LEMMA SeenGrows ==
  ASSUME OutShape, NEW x, screen' = Append(screen, x), x # Verdict, ~OnScreen(Verdict)
  PROVE  Seen' = Append(Seen, x)
<1>1. ~OnScreen(Verdict)'  BY ScreenGrows
<1> QED  BY <1>1 DEF Seen

LEMMA SeenVerdict ==
  ASSUME OutShape, screen' = Append(screen, Verdict), ~OnScreen(Verdict)
  PROVE  Seen' = Seen
<1>1. OnScreen(Verdict)'  BY ScreenGrows
<1>2. PICK S : screen \in Seq(S)  BY DEF OutShape, IsSeq
<1>3. screen \in Seq(S \cup {Verdict}) /\ Len(screen) \in Nat  BY <1>2
<1>4. Append(screen, Verdict) \in Seq(S \cup {Verdict})  BY <1>3
<1>5. Len(Append(screen, Verdict)) = Len(screen) + 1  BY <1>3
<1>6. SubSeq(Append(screen, Verdict), 1, Len(screen)) = screen
  BY <1>3, <1>4, <1>5
<1> QED  BY <1>1, <1>3, <1>5, <1>6 DEF Seen

(* Indices into the items written so far.                                  *)
LEMMA SeqLen == \A s : IsSeq(s) => Len(s) \in Nat /\ DOMAIN s = 1..Len(s)
BY DEF IsSeq

LEMMA Grown ==
  ASSUME NEW s, IsSeq(s), NEW x
  PROVE  /\ IsSeq(Append(s, x)) /\ Len(Append(s, x)) = Len(s) + 1 /\ Len(s) \in Nat
         /\ Append(s, x)[Len(s) + 1] = x
         /\ \A k \in 1..Len(s) : Append(s, x)[k] = s[k]
<1>1. Len(Append(s, x)) = Len(s) + 1
  <2>1. PICK S : s \in Seq(S)  BY DEF IsSeq
  <2>2. s \in Seq(S \cup {x})  BY <2>1
  <2> QED  BY <2>2
<1> QED  BY <1>1, Appended

LEMMA Shrunk ==
  ASSUME NEW s, IsSeq(s), s # <<>>
  PROVE  /\ IsSeq(Tail(s)) /\ Len(Tail(s)) = Len(s) - 1 /\ Len(s) \in Nat \ {0}
         /\ Head(s) = s[1]
         /\ \A k \in 1..Len(s) - 1 : Tail(s)[k] = s[k + 1]
<1>1. PICK S : s \in Seq(S)  BY DEF IsSeq
<1>2. Len(s) \in Nat \ {0}  BY <1>1
<1>3. Tail(s) \in Seq(S)  BY <1>1, <1>2
<1> QED  BY <1>1, <1>2, <1>3 DEF IsSeq

LEMMA PlainGrown ==
  ASSUME NEW s, IsSeq(s), NEW x, Plain(s), x # Verdict
  PROVE  Plain(Append(s, x))
<1>1. DOMAIN Append(s, x) = 1..Len(s)+1 /\ DOMAIN s = 1..Len(s) /\ Len(s) \in Nat
  BY Appended
<1>2. ASSUME NEW k \in DOMAIN Append(s, x) PROVE Append(s, x)[k] # Verdict
  <2>1. CASE k = Len(s) + 1  BY <2>1, Appended
  <2>2. CASE k # Len(s) + 1
    <3>1. k \in DOMAIN s  BY ONLY <1>1, <1>2, <2>2
    <3> QED  BY <3>1, Appended DEF Plain
  <2> QED  BY <2>1, <2>2
<1> QED  BY <1>2 DEF Plain

LEMMA PlainShrunk ==
  ASSUME NEW s, IsSeq(s), Plain(s), s # <<>>
  PROVE  Plain(Tail(s)) /\ Head(s) # Verdict
<1>1. /\ DOMAIN Tail(s) = 1..Len(s)-1 /\ DOMAIN s = 1..Len(s) /\ Len(s) \in Nat \ {0}
      /\ Head(s) = s[1] /\ \A k \in 1..Len(s) - 1 : Tail(s)[k] = s[k + 1]
  BY Shrunk, SeqLen
<1>2. ASSUME NEW k \in 1..Len(s)-1 PROVE k + 1 \in 1..Len(s)  BY <1>1
<1> QED  BY <1>1, <1>2 DEF Plain

LEMMA FollowsSaid ==
  ASSUME NEW t, NEW n \in Nat, NEW s, IsSeq(t), IsSeq(s), NEW x, Follows(t, n, s)
  PROVE  Follows(t, n, Append(s, x))
<1>1. Len(t) \in Nat  BY SeqLen
<1>2. ASSUME NEW k \in 1..Len(t)
      PROVE  n + k <= Len(Append(s, x)) /\ t[k] = Append(s, x)[n + k]
  <2>1. n + k <= Len(s) /\ t[k] = s[n + k]  BY DEF Follows
  <2>2. n + k \in 1..Len(s)  BY <1>1, <2>1, SeqLen
  <2> QED  BY <2>1, <2>2, Grown
<1> QED  BY <1>2 DEF Follows

LEMMA FollowsBoth ==
  ASSUME NEW t, NEW n \in Nat, NEW s, IsSeq(t), IsSeq(s), NEW x, Follows(t, n, s),
         Len(s) = n + Len(t)
  PROVE  Follows(Append(t, x), n, Append(s, x))
<1>1. /\ Len(t) \in Nat /\ Len(Append(t, x)) = Len(t) + 1
      /\ Append(t, x)[Len(t) + 1] = x
      /\ \A k \in 1..Len(t) : Append(t, x)[k] = t[k]
  BY Grown
<1>2. Len(Append(s, x)) = Len(s) + 1 /\ Append(s, x)[Len(s) + 1] = x  BY Grown
<1>3. Follows(t, n, Append(s, x))  BY FollowsSaid
<1>4. ASSUME NEW k \in 1..Len(t) + 1
      PROVE  n + k <= Len(Append(s, x)) /\ Append(t, x)[k] = Append(s, x)[n + k]
  <2>1. CASE k = Len(t) + 1
    <3>1. n + k = Len(s) + 1  BY <1>1, <2>1
    <3> QED  BY <1>1, <1>2, <2>1, <3>1
  <2>2. CASE k # Len(t) + 1
    <3>1. k \in 1..Len(t)  BY <1>1, <2>2
    <3> QED  BY <1>1, <1>3, <3>1 DEF Follows
  <2> QED  BY <2>1, <2>2
<1> QED  BY <1>1, <1>4 DEF Follows

LEMMA FollowsTail ==
  ASSUME NEW t, NEW n \in Nat, NEW s, IsSeq(t), IsSeq(s), t # <<>>, Follows(t, n, s)
  PROVE  n < Len(s) /\ Head(t) = s[n + 1] /\ Follows(Tail(t), n + 1, s)
<1>1. /\ IsSeq(Tail(t)) /\ Len(Tail(t)) = Len(t) - 1 /\ Len(t) \in Nat \ {0}
      /\ Head(t) = t[1] /\ \A k \in 1..Len(t) - 1 : Tail(t)[k] = t[k + 1]
  BY Shrunk
<1>2. 1 \in 1..Len(t)  BY <1>1
<1>3. n + 1 <= Len(s) /\ t[1] = s[n + 1]  BY <1>2 DEF Follows
<1>4. ASSUME NEW k \in 1..Len(t) - 1
      PROVE  (n + 1) + k <= Len(s) /\ Tail(t)[k] = s[(n + 1) + k]
  <2>1. k + 1 \in 1..Len(t) /\ n + (k + 1) = (n + 1) + k  BY <1>1
  <2>2. n + (k + 1) <= Len(s) /\ t[k + 1] = s[n + (k + 1)]  BY <2>1 DEF Follows
  <2> QED  BY <1>1, <2>1, <2>2
<1>5. n < Len(s)  BY <1>3, SeqLen
<1> QED  BY <1>1, <1>3, <1>4, <1>5 DEF Follows

LEMMA FollowsMore ==
  ASSUME NEW t, NEW n \in Nat, NEW s, IsSeq(t), IsSeq(s), Follows(t, n, s),
         n + Len(t) < Len(s)
  PROVE  Follows(Append(t, s[n + Len(t) + 1]), n, s)
<1> DEFINE x == s[n + Len(t) + 1]
<1> HIDE DEF x
<1>1. /\ Len(t) \in Nat /\ Len(Append(t, x)) = Len(t) + 1
      /\ Append(t, x)[Len(t) + 1] = x
      /\ \A k \in 1..Len(t) : Append(t, x)[k] = t[k]
  BY Grown
<1>2. ASSUME NEW k \in 1..Len(t) + 1
      PROVE  n + k <= Len(s) /\ Append(t, x)[k] = s[n + k]
  <2>1. CASE k = Len(t) + 1
    <3>1. n + k = n + Len(t) + 1 /\ n + k <= Len(s)  BY <1>1, <2>1, SeqLen
    <3> QED  BY <1>1, <2>1, <3>1 DEF x
  <2>2. CASE k # Len(t) + 1
    <3>1. k \in 1..Len(t)  BY <1>1, <2>2
    <3> QED  BY <1>1, <3>1 DEF Follows
  <2> QED  BY <2>1, <2>2
<1>3. Follows(Append(t, x), n, s)  BY <1>1, <1>2 DEF Follows
<1> QED  BY <1>3 DEF x

LEMMA FollowsNothing == \A n, s : Follows(<<>>, n, s)
BY DEF Follows

(* Steps that write nothing and show nothing; one may drop the buffer of a *)
(* run whose pager quit or that was killed.                                *)
LEMMA ChainFrame ==
  ASSUME ChainInv, OutShape', said' = said, Seen' = Seen, pipe'.items = pipe.items,
         pipe' = [items |-> pipe'.items, open |-> pipe'.open],
         \/ out'.buf = out.buf
         \/ out'.buf = <<>> /\ (pager' = "quit" \/ code' = "killed"),
         pager = "quit" => pager' = "quit", code = "killed" => code' = "killed"
  PROVE  ChainInv'
<1>1. Plain(out'.buf) /\ Plain(pipe'.items)  BY IdleShape DEF ChainInv, Plain
<1> QED  BY <1>1 DEF ChainInv

LEMMA Moved ==
  ASSUME NEW a \in Nat, NEW b \in Nat \ {0}  PROVE (a + 1) + (b - 1) = a + b
OBVIOUS

(* How much of what was written is where.                                  *)
LEMMA ChainLens == ChainInv => /\ Len(Seen) \in Nat /\ Len(pipe.items) \in Nat
                               /\ Len(out.buf) \in Nat /\ Len(said) \in Nat /\ IsSeq(Seen)
BY SeenIsSeq, SeqLen DEF ChainInv, OutShape

(* A write.                                                                *)
LEMMA ChainSaid ==
  ASSUME ChainInv, OutShape', NEW x, x # Verdict, UNCHANGED <<screen, pipe, pager, code>>,
         said' = Append(said, x), out'.buf = Append(out.buf, x)
  PROVE  ChainInv'
<1>0. /\ IsSeq(said) /\ IsSeq(out.buf) /\ IsSeq(pipe.items) /\ IsSeq(Seen)
      /\ Len(Seen) \in Nat /\ Len(pipe.items) \in Nat /\ Len(said) \in Nat /\ 0 \in Nat
      /\ Len(Seen) + Len(pipe.items) \in Nat
  BY ChainLens DEF ChainInv, OutShape
<1>1. Seen' = Seen /\ pipe' = pipe  BY SeenFrame
<1>2. IsSeq(said') /\ Len(said') = Len(said) + 1  BY Grown, <1>0
<1>3. Plain(out'.buf)  BY <1>0, PlainGrown DEF ChainInv
<1>4. Follows(Seen, 0, said')  BY <1>0, FollowsSaid DEF ChainInv
<1>5. pager # "quit" => Follows(pipe.items, Len(Seen), said')
  BY <1>0, FollowsSaid DEF ChainInv
<1>6. ASSUME pager # "quit", code # "killed"
      PROVE  /\ Len(said') = Len(Seen) + Len(pipe.items) + Len(out'.buf)
             /\ Follows(out'.buf, Len(Seen) + Len(pipe.items), said')
  <2>1. /\ Len(said) = Len(Seen) + Len(pipe.items) + Len(out.buf)
        /\ Follows(out.buf, Len(Seen) + Len(pipe.items), said)
    BY <1>6 DEF ChainInv
  <2>2. Follows(out'.buf, Len(Seen) + Len(pipe.items), said')
    BY <1>0, <2>1, FollowsBoth
  <2>3. Len(out'.buf) = Len(out.buf) + 1 /\ Len(out.buf) \in Nat  BY <1>0, Grown
  <2>4. Len(said') = Len(Seen) + Len(pipe.items) + Len(out'.buf)
    <3> DEFINE a == Len(Seen)  b == Len(pipe.items)  c == Len(out.buf)  l == Len(said)
    <3>1. a \in Nat /\ b \in Nat /\ c \in Nat /\ l \in Nat /\ l = a + b + c  BY <1>0, <2>1, <2>3
    <3> HIDE DEF a, b, c, l
    <3>2. l + 1 = a + b + (c + 1)  BY ONLY <3>1
    <3> USE DEF a, b, c, l
    <3> QED  BY ONLY <1>2, <2>3, <3>2
  <2> QED  BY <2>2, <2>4
<1> QED  BY <1>1, <1>2, <1>3, <1>4, <1>5, <1>6 DEF ChainInv

(* An item of the buffer is shown.                                         *)
LEMMA ChainShown ==
  ASSUME ChainInv, OutShape', out.buf # <<>>, out'.buf = Tail(out.buf), pipe.items = <<>>,
         pager # "quit", code # "killed",
         UNCHANGED <<said, pipe, pager, code>>, Seen' = Append(Seen, Head(out.buf))
  PROVE  /\ ChainInv'
         /\ Len(Seen) < Len(said) /\ Head(out.buf) = said[Len(Seen) + 1]
<1>0. /\ IsSeq(said) /\ IsSeq(out.buf) /\ IsSeq(Seen) /\ Len(Seen) \in Nat /\ 0 \in Nat
      /\ Len(pipe.items) = 0 /\ Len(said) \in Nat
  BY ChainLens DEF ChainInv, OutShape
<1>1. Len(said) = Len(Seen) + Len(out.buf) /\ Follows(out.buf, Len(Seen), said)
  <2>1. Len(Seen) + Len(pipe.items) = Len(Seen)  BY <1>0
  <2> QED  BY <2>1 DEF ChainInv
<1>2. /\ Len(Seen) < Len(said) /\ Head(out.buf) = said[Len(Seen) + 1]
      /\ Follows(out'.buf, Len(Seen) + 1, said)
  BY <1>0, <1>1, FollowsTail
<1>3. Len(Seen') = Len(Seen) + 1 /\ IsSeq(Seen')  BY <1>0, Grown
<1>4. Plain(out'.buf)  BY <1>0, PlainShrunk DEF ChainInv
<1>5. Follows(Seen', 0, said)
  <2>1. 0 + Len(Seen) < Len(said) /\ Follows(Seen, 0, said)  BY <1>0, <1>2 DEF ChainInv
  <2>2. Follows(Append(Seen, said[0 + Len(Seen) + 1]), 0, said)  BY <1>0, <2>1, FollowsMore
  <2>3. 0 + Len(Seen) + 1 = Len(Seen) + 1  BY <1>0
  <2> QED  BY <1>2, <2>2, <2>3
<1>6. Len(said) = Len(Seen') + Len(pipe.items) + Len(out'.buf)
  <2>1. Len(out'.buf) = Len(out.buf) - 1 /\ Len(out.buf) \in Nat \ {0}  BY <1>0, Shrunk
  <2>2. Len(said) = Len(Seen) + 0 + Len(out.buf)  BY <1>0, <1>1
  <2>3. Len(said) = Len(Seen) + 0 + 1 + (Len(out.buf) - 1)
    <3> DEFINE a == Len(Seen)  c == Len(out.buf)  l == Len(said)
    <3>1. a \in Nat /\ c \in Nat \ {0} /\ l \in Nat /\ l = a + 0 + c  BY <1>0, <2>1, <2>2
    <3> HIDE DEF a, c, l
    <3>2. l = a + 0 + 1 + (c - 1)  BY ONLY <3>1
    <3> QED  BY ONLY <3>2 DEF a, c, l
  <2>4. Len(Seen) + 0 + 1 = Len(Seen') + Len(pipe.items)  BY <1>0, <1>3
  <2> QED  BY ONLY <2>1, <2>3, <2>4
<1>7. Follows(out'.buf, Len(Seen') + Len(pipe.items), said)
  <2>1. Len(Seen') + Len(pipe.items) = Len(Seen) + 1  BY <1>0, <1>3
  <2> QED  BY <1>2, <2>1
<1> QED  BY <1>2, <1>4, <1>5, <1>6, <1>7, FollowsNothing DEF ChainInv

(* An item of the buffer goes into the pipe.                               *)
LEMMA ChainPiped ==
  ASSUME ChainInv, OutShape', out.buf # <<>>, out'.buf = Tail(out.buf),
         pager # "quit", code # "killed", UNCHANGED <<said, screen, pager, code>>,
         pipe' = [pipe EXCEPT !.items = Append(@, Head(out.buf))]
  PROVE  ChainInv'
<1> DEFINE n == Len(Seen) + Len(pipe.items)
<1>0. /\ IsSeq(said) /\ IsSeq(out.buf) /\ IsSeq(pipe.items) /\ Len(Seen) \in Nat
      /\ Len(pipe.items) \in Nat /\ n \in Nat
  BY ChainLens DEF ChainInv, OutShape
<1>1. Len(said) = n + Len(out.buf) /\ Follows(out.buf, n, said)  BY DEF ChainInv
<1> HIDE DEF n
<1>2. n < Len(said) /\ Head(out.buf) = said[n + 1] /\ Follows(out'.buf, n + 1, said)
  BY <1>0, <1>1, FollowsTail
<1>3. /\ pipe'.items = Append(pipe.items, Head(out.buf))
      /\ pipe' = [items |-> pipe'.items, open |-> pipe'.open]
  BY DEF ChainInv
<1>4. Len(pipe'.items) = Len(pipe.items) + 1 /\ IsSeq(pipe'.items)  BY <1>0, <1>3, Grown
<1>5. Seen' = Seen  BY SeenFrame
<1>6. Plain(out'.buf) /\ Plain(pipe'.items)
  BY <1>0, <1>3, PlainShrunk, PlainGrown DEF ChainInv
<1>7. Follows(pipe'.items, Len(Seen), said)
  <2>1. Len(Seen) + Len(pipe.items) < Len(said)  BY <1>2 DEF n
  <2>2. Follows(pipe.items, Len(Seen), said)  BY DEF ChainInv
  <2>3. Follows(Append(pipe.items, said[Len(Seen) + Len(pipe.items) + 1]), Len(Seen), said)
    BY <1>0, <2>1, <2>2, FollowsMore
  <2> QED  BY <1>2, <1>3, <2>3 DEF n
<1>8. Len(Seen) + Len(pipe'.items) = n + 1  BY <1>0, <1>4 DEF n
<1>9. Len(said) = n + 1 + Len(out'.buf)
  <2>1. Len(out'.buf) = Len(out.buf) - 1 /\ Len(out.buf) \in Nat \ {0}  BY <1>0, Shrunk
  <2>2. Len(said) = n + 1 + (Len(out.buf) - 1)  BY <1>0, <1>1, <2>1
  <2> QED  BY <2>1, <2>2
<1> QED  BY <1>2, <1>3, <1>4, <1>5, <1>6, <1>7, <1>8, <1>9 DEF ChainInv

(* An item of the pipe is shown.                                           *)
LEMMA ChainRead ==
  ASSUME ChainInv, pager = "reading", pipe.items # <<>>, UNCHANGED <<said, out, pager, code>>,
         OutShape', pipe' = [pipe EXCEPT !.items = Tail(pipe.items)],
         Seen' = Append(Seen, Head(pipe.items))
  PROVE  /\ ChainInv'
         /\ Len(Seen) < Len(said) /\ Head(pipe.items) = said[Len(Seen) + 1]
<1>0. /\ IsSeq(said) /\ IsSeq(pipe.items) /\ IsSeq(Seen) /\ Len(Seen) \in Nat /\ 0 \in Nat
      /\ Len(pipe.items) \in Nat /\ Len(out.buf) \in Nat
  BY ChainLens DEF ChainInv
<1>1. pipe'.items = Tail(pipe.items) /\ pipe' = [items |-> pipe'.items, open |-> pipe'.open]
  BY DEF ChainInv
<1>2. Follows(pipe.items, Len(Seen), said) /\ Follows(Seen, 0, said)  BY DEF ChainInv
<1>3. /\ Len(Seen) < Len(said) /\ Head(pipe.items) = said[Len(Seen) + 1]
      /\ Follows(pipe'.items, Len(Seen) + 1, said)
  <2>1. pipe.items # <<>>  OBVIOUS
  <2> QED  BY ONLY <1>0, <1>1, <1>2, <2>1, FollowsTail
<1>4. Len(Seen') = Len(Seen) + 1  BY <1>0, Grown
<1>5. IsSeq(pipe'.items) /\ Len(pipe'.items) = Len(pipe.items) - 1  BY <1>0, <1>1, Shrunk
<1>6. Plain(pipe'.items)  BY <1>0, <1>1, PlainShrunk DEF ChainInv
<1>7. Follows(Seen', 0, said)
  <2>1. 0 + Len(Seen) < Len(said)  BY <1>0, <1>3
  <2>2. Follows(Append(Seen, said[0 + Len(Seen) + 1]), 0, said)
    BY <1>0, <1>2, <2>1, FollowsMore
  <2>3. 0 + Len(Seen) + 1 = Len(Seen) + 1  BY <1>0
  <2> QED  BY <1>3, <2>2, <2>3
<1>8. Len(Seen') + Len(pipe'.items) = Len(Seen) + Len(pipe.items)
  <2>1. Len(pipe.items) # 0  BY <1>0, Shrunk
  <2>2. (Len(Seen) + 1) + (Len(pipe.items) - 1) = Len(Seen) + Len(pipe.items)
    BY <1>0, <2>1, Moved
  <2> QED  BY <1>4, <1>5, <2>2
<1> QED  BY <1>1, <1>3, <1>4, <1>5, <1>6, <1>7, <1>8 DEF ChainInv

(* Seen of the stream, once nothing is left on the way.                    *)
LEMMA SeenAll ==
  ASSUME ChainInv, pager # "quit", code # "killed", pipe.items = <<>>, out.buf = <<>>
  PROVE  Seen = said
<1>1. IsSeq(Seen) /\ IsSeq(said) /\ Len(Seen) \in Nat  BY ChainLens DEF ChainInv
<1>2. Len(said) = Len(Seen)
  <2>1. Len(pipe.items) = 0 /\ Len(out.buf) = 0  OBVIOUS
  <2>2. Len(said) = Len(Seen) + Len(pipe.items) + Len(out.buf)  BY DEF ChainInv
  <2>3. Len(said) = Len(Seen) + 0 + 0  BY ONLY <2>1, <2>2
  <2> QED  BY ONLY <1>1, <2>3
<1>3. ASSUME NEW k \in 1..Len(Seen) PROVE Seen[k] = said[k]
  <2>1. Seen[k] = said[0 + k]  BY DEF ChainInv, Follows
  <2> QED  BY <1>1, <2>1
<1>4. PICK S : Seen \in Seq(S)  BY <1>1 DEF IsSeq
<1>5. PICK T : said \in Seq(T)  BY <1>1 DEF IsSeq
<1>6. Seen \in Seq(S \cup T) /\ said \in Seq(S \cup T)  BY <1>4, <1>5
<1> QED  BY ONLY <1>2, <1>3, <1>6

LEMMA SaidGrows ==
  ASSUME NEW s, IsSeq(s), NEW x
  PROVE  Len(Append(s, x)) = Len(s) + 1 /\ SubSeq(Append(s, x), 1, Len(s)) = s
<1>1. PICK S : s \in Seq(S)  BY DEF IsSeq
<1>2. s \in Seq(S \cup {x}) /\ Len(s) \in Nat  BY <1>1
<1>3. Append(s, x) \in Seq(S \cup {x})  BY <1>2
<1> QED  BY <1>2, <1>3

(* What a stream sees of a run.                                            *)
streamed == <<said, Seen, pager = "quit", Outcome>>

LEMMA Quiet ==
  ASSUME ChainInv, OutShape', UNCHANGED <<said, screen, code>>,
         pipe'.items = pipe.items, pipe' = [items |-> pipe'.items, open |-> pipe'.open],
         (pager' = "quit") = (pager = "quit"), out'.buf = out.buf
  PROVE  ChainInv' /\ UNCHANGED streamed
<1>1. Seen' = Seen /\ Outcome' = Outcome  BY SeenFrame DEF Outcome, OnScreen, Verdict, Item
<1>2. ChainInv'  BY <1>1, ChainFrame
<1> QED  BY <1>1, <1>2 DEF streamed

LEMMA Wrote ==
  ASSUME OutputInv, OutShape', NEW x, x # Verdict, NEW there, Say(x, there),
         pc \notin {"unwinding", "over"}, UNCHANGED <<screen, pipe, pager, code>>
  PROVE  ChainInv' /\ St!Say
<1>1. out'.buf = Append(out.buf, x) /\ said' = Append(said, x)
  BY DEF Say, OutputInv, ChainInv, OutShape
<1>2. ChainInv'  BY <1>1, ChainSaid DEF OutputInv
<1>3. Outcome = "none" /\ Outcome' = Outcome
  BY DEF OutputInv, VerdictInv, Outcome, OnScreen, Verdict, Item
<1>4. Seen' = Seen  BY SeenFrame
<1>5. Len(said') = Len(said) + 1 /\ SubSeq(said', 1, Len(said)) = said
  BY <1>1, SaidGrows DEF OutputInv, ChainInv
<1> QED  BY <1>2, <1>3, <1>4, <1>5 DEF St!Say

(* What the tree view has collected is events.                             *)
GotInv == \A e \in got : e.what = "event"

LEMMA EventIsPlain ==
  \A e : Listed(e).what = "event" /\ (e.what = "event" => e # Verdict)
BY DEF Listed, Verdict, Item

LEMMA GotStep == GotInv /\ [Next]_vars => GotInv'
<1> SUFFICES ASSUME GotInv, [Next]_vars PROVE GotInv'  OBVIOUS
<1>1. \/ got' \subseteq got
      \/ \E e : got' = got \cup {Listed(e)}
  BY DEF Next, Run, List, Refuse, Start, Header, Query, Load, Write, Collect, Draw, ReadFails,
         RowsEnd, Drawn, CloseArray, WriteFails, Finish, Reader, Others, vars
<1> QED  BY <1>1, EventIsPlain DEF GotInv

(* Every step keeps the chain whole, and is a step of a stream or none.    *)
LEMMA StreamStep ==
  OutputInv /\ GotInv /\ PromptInv /\ [Next]_vars => ChainInv' /\ (St!Next \/ UNCHANGED streamed)
<1> SUFFICES ASSUME OutputInv, GotInv, PromptInv, [Next]_vars
             PROVE  ChainInv' /\ (St!Next \/ UNCHANGED streamed)
  OBVIOUS
<1>0. PagerInv /\ VerdictInv /\ ChainInv /\ OutShape /\ OutShape'
  <2>1. PromptInv'  BY PromptStep
  <2> QED  BY <2>1 DEF OutputInv, ChainInv, PromptInv
<1>00. pipe = [items |-> pipe.items, open |-> pipe.open]  BY <1>0 DEF ChainInv
<1>1. CASE UNCHANGED vars
  BY <1>0, <1>00, <1>1, Quiet DEF vars, terminal
<1>2. CASE Refuse \/ Query \/ Load \/ Collect \/ ReadFails \/ RowsEnd \/ Drawn \/ WriteFails
  BY <1>0, <1>00, <1>2, Quiet
     DEF Refuse, Query, Load, Collect, ReadFails, RowsEnd, Drawn, WriteFails, Outside, stream,
         terminal
<1>3. CASE Start
  <2>1. UNCHANGED <<said, screen, code>> /\ pager = "none"
    BY <1>0, <1>3 DEF Start, Outside, Here, VerdictInv
  <2>2. /\ out'.buf = out.buf /\ pipe'.items = pipe.items
        /\ pipe' = [items |-> pipe'.items, open |-> pipe'.open]
        /\ pager' \in {pager, "reading"}
    BY <1>0, <1>00, <1>3 DEF Start, StartPager, OutShape
  <2> QED  BY <1>0, <2>1, <2>2, Quiet
<1>4. CASE Finish
  <2>1. out'.buf = out.buf  BY <1>0, <1>4 DEF Finish, Flushing, OutShape
  <2> QED  BY <1>0, <1>00, <1>4, <2>1, Quiet DEF Finish, Outside
<1>5. CASE Header \/ Write \/ Draw \/ CloseArray
  <2>1. PICK x : x # Verdict /\ \E there : Say(x, there)
    BY <1>5, EventIsPlain DEF Header, Write, Draw, CloseArray, GotInv, Verdict, Item
  <2>2. pc \notin {"unwinding", "over"} /\ UNCHANGED <<screen, pipe, pager, code>>
    BY <1>5 DEF Header, Write, Draw, CloseArray, Here, Outside
  <2> QED  BY <1>0, <2>1, <2>2, Wrote DEF St!Next
<1>6. CASE Help \/ Ask \/ Reply
  <2>1. PICK x : x # Verdict /\ \E there : Say(x, there)
    BY <1>6 DEF Help, Ask, Reply, Verdict, Item
  <2>2. pc \notin {"unwinding", "over"} /\ UNCHANGED <<screen, pipe, pager, code>>
    BY <1>6 DEF Help, Ask, Reply, Here
  <2> QED  BY <1>0, <2>1, <2>2, Wrote DEF St!Next
<1>7. CASE PagerReads
  <2>1. /\ pipe.items # <<>> /\ Head(pipe.items) # Verdict /\ ~OnScreen(Verdict)
        /\ screen' = Append(screen, Head(pipe.items))
    BY <1>0, <1>7, PlainShrunk DEF PagerReads, ChainInv, VerdictInv
  <2>2. Seen' = Append(Seen, Head(pipe.items)) /\ ~OnScreen(Verdict)'
    BY <1>0, <2>1, SeenGrows, ScreenGrows
  <2>3. ChainInv' /\ Len(Seen) < Len(said) /\ Head(pipe.items) = said[Len(Seen) + 1]
    BY <1>0, <1>7, <2>1, <2>2, ChainRead DEF PagerReads
  <2>4. Outcome \in {"none", "killed"} /\ Outcome' = Outcome
    BY <1>0, <1>7, <2>1, <2>2 DEF PagerReads, PagerInv, VerdictInv, Outcome
  <2>5. St!Show  BY <1>7, <2>2, <2>3, <2>4 DEF St!Show, PagerReads
  <2> QED  BY <2>3, <2>5 DEF St!Next
<1>8. CASE PagerEnds \/ Others
  BY <1>0, <1>00, <1>8, Quiet DEF PagerEnds, Others, terminal
<1>9. CASE PagerQuits
  <2>1. /\ UNCHANGED <<said, screen, code, out>> /\ pager' = "quit" /\ pager # "quit"
        /\ pipe'.items = <<>> /\ pipe' = [items |-> pipe'.items, open |-> pipe'.open]
    BY <1>00, <1>9 DEF PagerQuits
  <2>2. Seen' = Seen /\ Outcome' = Outcome
    BY <2>1, SeenFrame DEF Outcome, OnScreen, Verdict, Item
  <2>3. IsSeq(<<>>) /\ Plain(<<>>)  BY IdleShape DEF Plain
  <2>4. ChainInv'  BY <1>0, <2>1, <2>2, <2>3 DEF ChainInv
  <2> QED  BY <2>1, <2>2, <2>4 DEF St!Next, St!Leave
<1>10. CASE Interrupt
  <2>1. /\ UNCHANGED <<said, screen, pager>> /\ code' = "killed" /\ code = "none" /\ out'.buf = <<>>
        /\ pipe'.items = pipe.items /\ pipe' = [items |-> pipe'.items, open |-> pipe'.open]
    BY <1>0, <1>00, <1>10, IdleShape DEF Interrupt, VerdictInv
  <2>2. Seen' = Seen /\ (OnScreen(Verdict)' <=> OnScreen(Verdict))
    BY <2>1, SeenFrame DEF OnScreen, Verdict, Item
  <2>3. ChainInv'  BY <1>0, <2>1, <2>2, ChainFrame
  <2>4. \/ Outcome = "failed" /\ Outcome' = "failed"
        \/ Outcome = "none" /\ Outcome' = "killed"
    BY <2>1, <2>2 DEF Outcome
  <2> QED  BY <2>1, <2>2, <2>3, <2>4 DEF St!Next, St!Report, streamed
<1>11. CASE DiskFull
  BY <1>0, <1>00, <1>11, Quiet DEF DiskFull
<1>12. CASE PushShown
  <2>1. /\ out.buf # <<>> /\ out'.buf = Tail(out.buf) /\ pager = "none" /\ pipe.items = <<>>
        /\ code = "none" /\ pc # "over" /\ ~OnScreen(Verdict)
    BY <1>0, <1>12 DEF PushShown, Rest, OutShape, PagerInv, VerdictInv
  <2>2. Head(out.buf) # Verdict /\ screen' = Append(screen, Head(out.buf))
    BY <1>0, <1>12, <2>1, PlainShrunk DEF PushShown, ChainInv, OutShape
  <2>3. Seen' = Append(Seen, Head(out.buf)) /\ ~OnScreen(Verdict)'
    BY <1>0, <2>1, <2>2, SeenGrows, ScreenGrows
  <2>4. ChainInv' /\ Len(Seen) < Len(said) /\ Head(out.buf) = said[Len(Seen) + 1]
    BY <1>0, <1>12, <2>1, <2>3, ChainShown DEF PushShown
  <2>5. Outcome = "none" /\ Outcome' = "none"  BY <1>12, <2>1, <2>3 DEF PushShown, Outcome
  <2>6. St!Show  BY <1>12, <2>3, <2>4, <2>5 DEF St!Show, PushShown
  <2> QED  BY <2>4, <2>6 DEF St!Next
<1>13. CASE PushPiped
  <2>1. /\ out.buf # <<>> /\ out'.buf = Tail(out.buf) /\ pager # "quit" /\ code # "killed"
        /\ UNCHANGED <<said, screen, pager, code>>
        /\ pipe' = [pipe EXCEPT !.items = Append(@, Head(out.buf))]
    BY <1>0, <1>13 DEF PushPiped, Rest, OutShape, VerdictInv
  <2>2. ChainInv'  BY <1>0, <2>1, ChainPiped
  <2>3. UNCHANGED streamed
    BY <2>1, SeenFrame DEF streamed, Outcome, OnScreen, Verdict, Item
  <2> QED  BY <2>2, <2>3
<1>14. CASE MakeRoom \/ PushFails
  <2>1. out'.buf = out.buf  BY <1>0, <1>14 DEF MakeRoom, PushFails, Flushing, OutShape
  <2> QED  BY <1>0, <1>00, <1>14, <2>1, Quiet DEF MakeRoom, PushFails
<1>15. CASE ClosePager
  <2>1. out'.buf = <<>> /\ (out.buf = <<>> \/ pager = "quit")
    BY <1>0, <1>15, IdleShape DEF ClosePager, Restore, Here, PagerInv, VerdictInv
  <2>2. /\ UNCHANGED <<said, screen, pager, code>> /\ pipe'.items = pipe.items
        /\ pipe' = [items |-> pipe'.items, open |-> pipe'.open]
    BY <1>00, <1>15 DEF ClosePager, Restore
  <2>3. Seen' = Seen /\ Outcome' = Outcome
    BY <2>2, SeenFrame DEF Outcome, OnScreen, Verdict, Item
  <2>4. ChainInv'  BY <1>0, <2>1, <2>2, <2>3, ChainFrame
  <2> QED  BY <2>2, <2>3, <2>4 DEF streamed
<1>16. CASE \/ WaitPager \/ ExitFlushed \/ AwaitAnswer \/ Answer \/ ReplyFails \/ Edit
            \/ CreateTemp \/ EditorExits \/ RemoveTemp \/ LiftBracket \/ CommandReturned
  <2>1. out'.buf = out.buf /\ UNCHANGED <<said, screen, code, pipe, pager>>
    BY <1>0, <1>16
       DEF WaitPager, ExitFlushed, AwaitAnswer, Answer, ReplyFails, Edit, CreateTemp,
           EditorExits, RemoveTemp, LiftBracket, CommandReturned, PromptOut, FinalOut,
           Flushing, OutShape
  <2> QED  BY <1>0, <1>00, <2>1, Quiet
<1>17. CASE HookExits \/ Exit
  <2>1. /\ UNCHANGED <<said, screen, pipe, pager>> /\ out' = out
        /\ code' \in {"ok", "error", "usage"} /\ code = "none"
    BY <1>0, <1>17 DEF HookExits, Exit, Here, VerdictInv
  <2>2. Seen' = Seen /\ (OnScreen(Verdict)' <=> OnScreen(Verdict))
    BY <2>1, SeenFrame DEF OnScreen, Verdict, Item
  <2>3. ChainInv'  BY <1>0, <1>00, <2>1, <2>2, ChainFrame
  <2>4. code' = "ok" /\ ~OnScreen(Verdict) => Seen = said \/ pager = "quit"
    <3>1. pager = "quit" \/ pipe.items = <<>>
      BY <1>0, <1>17 DEF HookExits, Exit, Here, PagerInv, Under, After
    <3>2. code' = "ok" /\ ~OnScreen(Verdict) => out.buf = <<>>
      BY <1>0, <1>17 DEF HookExits, Exit, Here, VerdictInv
    <3> QED  BY <1>0, <2>1, <3>1, <3>2, SeenAll
  <2>5. CASE OnScreen(Verdict)
    BY <2>1, <2>2, <2>3, <2>5 DEF streamed, Outcome
  <2>6. CASE ~OnScreen(Verdict)
    <3>1. Outcome = "none" /\ Outcome' = IF code' = "ok" THEN "ok" ELSE "failed"
      BY <2>1, <2>2, <2>6 DEF Outcome
    <3> QED  BY <2>1, <2>2, <2>3, <2>4, <2>6, <3>1 DEF St!Next, St!Report
  <2> QED  BY <2>5, <2>6
<1>18. CASE Usage \/ Report
  <2>1. /\ out'.buf = out.buf /\ UNCHANGED <<said, pipe, pager, code>>
        /\ code = "none" /\ ~OnScreen(Verdict)
    BY <1>0, <1>18 DEF Usage, Report, Flushing, OutShape, VerdictInv, Here
  <2>2. CASE screen' = screen  BY <1>0, <1>00, <2>1, <2>2, Quiet
  <2>3. CASE screen' = Append(screen, Verdict)
    <3>1. Seen' = Seen /\ OnScreen(Verdict)'  BY <1>0, <2>1, <2>3, SeenVerdict, ScreenGrows
    <3>2. ChainInv'  BY <1>0, <1>00, <2>1, <3>1, ChainFrame
    <3>3. Outcome = "none" /\ Outcome' = "failed"  BY <2>1, <3>1 DEF Outcome
    <3> QED  BY <2>1, <3>1, <3>2, <3>3 DEF St!Next, St!Report
  <2> QED  BY <1>18, <2>2, <2>3 DEF Usage, Report
<1> QED
  BY <1>1, <1>2, <1>3, <1>4, <1>5, <1>6, <1>7, <1>8, <1>9, <1>10, <1>11, <1>12, <1>13, <1>14,
     <1>15, <1>16, <1>17, <1>18
     DEF Next, Run, List, Process, Reader, Pager, World

(* What a run writes is shown in the order it was written, nothing lost    *)
(* and nothing twice, nothing below the verdict, and no exit status 0 over *)
(* output nobody received: every run, through a pager or not, is a stream  *)
(* (output.go, pager.go, run and fail of main.go).                         *)
THEOREM TerminalImplementsStream == Spec => ImplementsStream
<1>1. Init => OutputInv /\ GotInv /\ PromptInv /\ St!Init
  <2> SUFFICES ASSUME Init PROVE OutputInv /\ GotInv /\ PromptInv /\ St!Init  OBVIOUS
  <2>1. said = <<>> /\ screen = <<>> /\ pager = "none" /\ code = "none" /\ got = {}
    BY DEF Init, TerminalInit
  <2>2. ~OnScreen(Verdict)  BY <2>1 DEF OnScreen
  <2>3. St!Init  BY <2>1, <2>2 DEF St!Init, Seen, Outcome
  <2> QED  BY <2>1, <2>3, OutputInit, PromptInit DEF GotInv
<1>2. OutputInv /\ GotInv /\ PromptInv /\ [Next]_vars
        => OutputInv' /\ GotInv' /\ PromptInv' /\ [St!Next]_streamed
  BY PagerStep, VerdictStep, StreamStep, GotStep, PromptStep DEF OutputInv
<1> QED  BY <1>1, <1>2, PTL DEF Spec, ImplementsStream, St!Spec, streamed

===============================================================================
