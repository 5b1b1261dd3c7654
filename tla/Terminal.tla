-------------------------------- MODULE Terminal --------------------------------
(***************************************************************************)
(* One run of fngr and what stands between it and its user: the buffer     *)
(* every byte of standard output goes through, the pager a listing may be  *)
(* piped into, the prompt, the editor with its temporary file, and the     *)
(* exit status.  Standard error is not buffered.                           *)
(*                                                                         *)
(* Output is a sequence of items; an item is a line, a prompt or a whole   *)
(* event.  A flush moves them on one at a time, and the run waits for it.  *)
(* Listing supplies the items of a listing.                                *)
(***************************************************************************)
EXTENDS Integers, Sequences

CONSTANTS
  Jobs,     (* What runs do: records with a field kind.                     *)
  Stirred,  (* The jobs during which the disk fills, Ctrl-C is typed or     *)
            (* others write.  Bounds the model.                             *)
  Cap,      (* Items the buffer holds.                                      *)
  PipeCap   (* Items the pipe to the pager holds.                           *)

ASSUME CapAssumption == Cap \in Nat \ {0} /\ PipeCap \in Nat \ {0}

VARIABLES
  job,      (* What this run does.                                          *)
  pc,       (* Where it is.                                                 *)
  err,      (* Whether an error is on its way out.                          *)
  out,      (* bufferedOut: [buf, dest, failed, flushing], failed the error *)
            (* a bufio.Writer sticks to, flushing while a flush is at work. *)
  sink,     (* Standard output: "ok", or "full" when no write succeeds.     *)
  pipe,     (* The pager's: [items, open], open until fngr's end is closed. *)
  pager,    (* "none", "reading", "quit" when its user left early, "ended". *)
  editor,   (* [bracket, temp]: signals ignored, a temporary file exists.   *)
  said,     (* Every item written so far.                                   *)
  screen,   (* What the user has been shown, the verdict included.          *)
  code      (* The exit status, "none" until then, "killed" by a signal.    *)

stream == <<out, pipe, said>>
terminal == <<job, pc, err, out, sink, pipe, pager, editor, said, screen, code>>

Item(what) == [what |-> what]
Verdict == Item("verdict")

IdleOut == [buf |-> <<>>, dest |-> "stdout", failed |-> FALSE, flushing |-> FALSE]

TerminalInit ==
  /\ job \in Jobs /\ pc = "start" /\ err = FALSE /\ code = "none"
  /\ out = IdleOut /\ sink = "ok"
  /\ pipe = [items |-> <<>>, open |-> FALSE] /\ pager = "none"
  /\ editor = [bracket |-> FALSE, temp |-> FALSE]
  /\ said = <<>> /\ screen = <<>>

-------------------------------------------------------------------------------
(* The buffer.                                                             *)

(* A flush of an empty buffer, or after an error, is over at once.         *)
Flushing(o) == [o EXCEPT !.flushing = o.buf # <<>> /\ ~o.failed]

Here(here) == pc = here /\ ~out.flushing
Goto(there) == pc' = there

(* A write, by a run that goes on at there; a full buffer is flushed first *)
(* and a failed one fails the write.                                       *)
Say(item, there) ==
  /\ ~out.failed /\ Len(out.buf) < Cap
  /\ out' = [out EXCEPT !.buf = Append(@, item)] /\ said' = Append(said, item)
  /\ Goto(there)
MakeRoom == /\ ~out.failed /\ ~out.flushing /\ Len(out.buf) = Cap /\ pc # "over"
            /\ out' = Flushing(out)
            /\ UNCHANGED <<job, pc, err, sink, pipe, pager, editor, said, screen, code>>

Rest(o) == [o EXCEPT !.buf = Tail(@), !.flushing = Len(o.buf) > 1]

PushShown == /\ out.flushing /\ out.dest = "stdout" /\ sink = "ok"
             /\ out' = Rest(out) /\ screen' = Append(screen, Head(out.buf))
             /\ UNCHANGED <<job, pc, err, sink, pipe, pager, editor, said, code>>

PushPiped == /\ out.flushing /\ out.dest = "pager" /\ pager = "reading"
             /\ Len(pipe.items) < PipeCap
             /\ out' = Rest(out) /\ pipe' = [pipe EXCEPT !.items = Append(@, Head(out.buf))]
             /\ UNCHANGED <<job, pc, err, sink, pager, editor, said, screen, code>>

(* ENOSPC, or EPIPE from a pager that is gone.                             *)
PushFails == /\ out.flushing
             /\ IF out.dest = "stdout" THEN sink = "full" ELSE pager # "reading"
             /\ out' = [out EXCEPT !.failed = TRUE, !.flushing = FALSE]
             /\ UNCHANGED <<job, pc, err, sink, pipe, pager, editor, said, screen, code>>

-------------------------------------------------------------------------------
(* The pager.                                                              *)

(* withPager: redirect, once the child runs.  Nothing has been said yet.   *)
StartPager == /\ pager' = "reading"
              /\ pipe' = [pipe EXCEPT !.open = TRUE]
              /\ out' = [out EXCEPT !.dest = "pager"]

PagerReads == /\ pager = "reading" /\ pipe.items # <<>>
              /\ screen' = Append(screen, Head(pipe.items))
              /\ pipe' = [pipe EXCEPT !.items = Tail(@)]
              /\ UNCHANGED <<job, pc, err, out, sink, pager, editor, said, code>>

PagerEnds == /\ pager = "reading" /\ pipe.items = <<>> /\ ~pipe.open
             /\ pager' = "ended"
             /\ UNCHANGED <<job, pc, err, out, sink, pipe, editor, said, screen, code>>

PagerQuits == /\ pager = "reading"
              /\ pager' = "quit" /\ pipe' = [pipe EXCEPT !.items = <<>>]
              /\ UNCHANGED <<job, pc, err, out, sink, editor, said, screen, code>>

(* Bug: the pipe left open for the pager.                                  *)
RestoreOpen ==
  /\ err' = (err \/ out.failed)
  /\ out' = IdleOut /\ UNCHANGED pipe

(* After its flush redirect's restore points the buffer back, which clears *)
(* what it held and its error, and withPager's closer closes the pipe.     *)
Restore ==
  /\ err' = (err \/ out.failed)
  /\ out' = IdleOut /\ pipe' = [pipe EXCEPT !.open = FALSE]

ClosePager == /\ Here("closing") /\ Restore /\ Goto("waiting")
              /\ UNCHANGED <<job, sink, pager, editor, said, screen, code>>

(* cmd.Wait.                                                               *)
WaitPager == /\ Here("waiting") /\ pager # "reading"
             /\ Goto("returning")
             /\ UNCHANGED <<job, err, out, sink, pipe, pager, editor, said, screen, code>>

-------------------------------------------------------------------------------
(* Commands, up to their return.                                           *)

(* --help and --version: the hooks write, then exitFlushed leaves.         *)
Help == /\ Here("start") /\ job.kind = "help"
        /\ Say(Item("help"), "hook")
        /\ UNCHANGED <<job, err, sink, pipe, pager, editor, screen, code>>
ExitFlushed == /\ Here("hook")
               /\ out' = Flushing(out) /\ Goto("leaving")
               /\ UNCHANGED <<job, err, sink, pipe, pager, editor, said, screen, code>>
HookExits == /\ Here("leaving")
             /\ code' = IF out.failed THEN "error" ELSE "ok"
             /\ Goto("over")
             /\ UNCHANGED <<job, err, out, sink, pipe, pager, editor, said, screen>>

(* reportParseError: all of it on standard error.                          *)
Usage == /\ Here("start") /\ job.kind = "usage"
         /\ err' = TRUE /\ screen' = Append(screen, Verdict)
         /\ out' = Flushing(out) /\ Goto("unwinding")
         /\ UNCHANGED <<job, sink, pipe, pager, editor, said, code>>

(* A verb that asks, then reports what it did: confirm flushes its prompt, *)
(* reads a line, and the answer is an error when there is none.            *)
Ask == /\ Here("start") /\ job.kind = "ask"
       /\ Say(Item("prompt"), "asked")
       /\ UNCHANGED <<job, err, sink, pipe, pager, editor, screen, code>>

(* Bug: the prompt left in the buffer.                                     *)
PromptOutHeld == out

PromptOut == Flushing(out)
AwaitAnswer == /\ Here("asked")
               /\ out' = PromptOut /\ Goto("answering")
               /\ UNCHANGED <<job, err, sink, pipe, pager, editor, said, screen, code>>
Answer == /\ Here("answering")
          /\ \E refused \in {out.failed, TRUE} :
               err' = refused /\ Goto(IF refused THEN "returning" ELSE "replying")
          /\ UNCHANGED <<job, out, sink, pipe, pager, editor, said, screen, code>>

Reply == /\ Here("replying")
         /\ Say(Item("result"), "returning")
         /\ UNCHANGED <<job, err, sink, pipe, pager, editor, screen, code>>
ReplyFails == /\ Here("replying") /\ out.failed
              /\ err' = TRUE /\ Goto("returning")
              /\ UNCHANGED <<job, out, sink, pipe, pager, editor, said, screen, code>>

(* add with an editor: realLaunchEditor, whose deferred calls run in the   *)
(* order opposite to that of their registration.                           *)
Edit == /\ Here("start") /\ job.kind = "edit"
        /\ out' = Flushing(out)
        /\ editor' = [editor EXCEPT !.bracket = TRUE] /\ Goto("bracketed")
        /\ UNCHANGED <<job, err, sink, pipe, pager, said, screen, code>>
CreateTemp == /\ Here("bracketed")
              /\ \/ editor' = [editor EXCEPT !.temp = TRUE] /\ Goto("editing") /\ UNCHANGED err
                 \/ err' = TRUE /\ Goto("lifting") /\ UNCHANGED editor
              /\ UNCHANGED <<job, out, sink, pipe, pager, said, screen, code>>

(* Bug: the bracket registered below the temporary file.                   *)
AfterEditorUnbracketed == [editor EXCEPT !.bracket = FALSE]

AfterEditor == editor
EditorExits == /\ Here("editing")
               /\ err' \in BOOLEAN /\ editor' = AfterEditor /\ Goto("cleaning")
               /\ UNCHANGED <<job, out, sink, pipe, pager, said, screen, code>>
RemoveTemp == /\ Here("cleaning")
              /\ editor' = [editor EXCEPT !.temp = FALSE] /\ Goto("lifting")
              /\ UNCHANGED <<job, err, out, sink, pipe, pager, said, screen, code>>
LiftBracket == /\ Here("lifting")
               /\ editor' = [editor EXCEPT !.bracket = FALSE]
               /\ Goto(IF err THEN "returning" ELSE "replying")
               /\ UNCHANGED <<job, err, out, sink, pipe, pager, said, screen, code>>

-------------------------------------------------------------------------------
(* run, from the command's return to the exit of the process.              *)

(* Bug: the flush left to run's deferred call.                             *)
FinalOutHeld == out

FinalOut == Flushing(out)
CommandReturned == /\ Here("returning")
                   /\ out' = FinalOut /\ Goto("flushed")
                   /\ UNCHANGED <<job, err, sink, pipe, pager, editor, said, screen, code>>

(* cmp.Or(ctx.Run(), flushOut(out)), fail, and the deferred flush.         *)
Report == /\ Here("flushed")
          /\ err' = (err \/ out.failed)
          /\ screen' = IF err' THEN Append(screen, Verdict) ELSE screen
          /\ out' = Flushing(out) /\ Goto("unwinding")
          /\ UNCHANGED <<job, sink, pipe, pager, editor, said, code>>

Exit == /\ Here("unwinding")
        /\ code' = (IF job.kind = "usage" THEN "usage" ELSE IF err THEN "error" ELSE "ok")
        /\ Goto("over")
        /\ UNCHANGED <<job, err, out, sink, pipe, pager, editor, said, screen>>

-------------------------------------------------------------------------------
(* The world around a run.                                                 *)

(* Ctrl-C, or the SIGPIPE of a write to a closed standard output.  Notify  *)
(* swallows it while the bracket is up.                                    *)
Interrupt == /\ job \in Stirred /\ pc # "over" /\ ~editor.bracket
             /\ code' = "killed" /\ Goto("over")
             /\ out' = IdleOut /\ pipe' = [pipe EXCEPT !.open = FALSE]
             /\ UNCHANGED <<job, err, sink, pager, editor, said, screen>>

DiskFull == /\ job \in Stirred /\ pc # "over"
            /\ sink = "ok" /\ sink' = "full"
            /\ UNCHANGED <<job, pc, err, out, pipe, pager, editor, said, screen, code>>

Process == \/ MakeRoom \/ PushShown \/ PushPiped \/ PushFails
           \/ ClosePager \/ WaitPager \/ Help \/ ExitFlushed \/ HookExits \/ Usage
           \/ Ask \/ AwaitAnswer \/ Answer \/ Reply \/ ReplyFails
           \/ Edit \/ CreateTemp \/ EditorExits \/ RemoveTemp \/ LiftBracket
           \/ CommandReturned \/ Report \/ Exit
Pager == PagerReads \/ PagerEnds
World == PagerQuits \/ Interrupt \/ DiskFull

-------------------------------------------------------------------------------
(* What this is an implementation of.                                      *)

OnScreen(item) == \E n \in DOMAIN screen : screen[n] = item
Seen == IF OnScreen(Verdict) THEN SubSeq(screen, 1, Len(screen) - 1) ELSE screen
Outcome == IF code \in {"error", "usage"} \/ OnScreen(Verdict) THEN "failed" ELSE code

St == INSTANCE Stream WITH seen <- Seen, left <- pager = "quit", outcome <- Outcome

(* Every run, whatever it lists or asks and however it ends, is a stream   *)
(* as Stream has it: output.go's "no byte written for one destination can  *)
(* reach the other", run's flush "before anything is said about the        *)
(* result", and no exit status 0 over output nobody received.              *)
ImplementsStream == St!Spec

(* Nobody is waited for at a prompt that is still in the buffer (confirm). *)
PromptSeen ==
  Here("answering") /\ ~out.failed => OnScreen(Item("prompt"))

(* No end of the process, by Ctrl-C at any point or otherwise, strands the *)
(* editor's temporary file (ignoreTerminalSignals).                        *)
TempRemoved == pc = "over" => ~editor.temp

(* A run ends, be its pager quit, its disk full or its editor gone.        *)
RunEnds == job \in Stirred => <>(pc = "over")

===============================================================================
