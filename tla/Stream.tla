--------------------------------- MODULE Stream ---------------------------------
(***************************************************************************)
(* What a run of fngr promises whoever reads its standard output: the      *)
(* items it writes are shown in the order it wrote them, none lost and     *)
(* none twice; nothing is shown below the verdict; and it reports success  *)
(* only over output that was all shown, unless the reader left.            *)
(***************************************************************************)
EXTENDS Sequences, Naturals

VARIABLES
  said,    (* What the run has written.                                     *)
  seen,    (* What has been shown.                                          *)
  left,    (* Whether the reader went away.                                 *)
  outcome  (* "none" until the run has reported how it went; "killed" when  *)
           (* it never will.                                                *)

Init == said = <<>> /\ seen = <<>> /\ left = FALSE /\ outcome = "none"

Say == /\ outcome = "none"
       /\ Len(said') = Len(said) + 1 /\ SubSeq(said', 1, Len(said)) = said
       /\ UNCHANGED <<seen, left, outcome>>

(* The one item after those that have been shown.                          *)
Show == /\ outcome \in {"none", "killed"} /\ Len(seen) < Len(said)
        /\ seen' = Append(seen, said[Len(seen) + 1])
        /\ UNCHANGED <<said, left, outcome>>

Leave == left' = TRUE /\ UNCHANGED <<said, seen, outcome>>

Report == /\ outcome = "none"
          /\ outcome' \in {"ok", "failed", "killed"}
          /\ outcome' = "ok" => seen = said \/ left
          /\ UNCHANGED <<said, seen, left>>

Next == Say \/ Show \/ Leave \/ Report

Spec == Init /\ [][Next]_<<said, seen, left, outcome>>

===============================================================================
