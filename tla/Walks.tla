--------------------------------- MODULE Walks ---------------------------------
(***************************************************************************)
(* The loops that follow parent links, step by step as the code takes      *)
(* them, on every journal that Journal reaches.  JournalOps states what    *)
(* they are to find.                                                       *)
(*                                                                         *)
(* A file may hold a ring of parents, which fngr cannot write (Journal)    *)
(* but can be handed, so each loop has a rule that ends it.                *)
(***************************************************************************)
EXTENDS Journal

Found(err, at) == [err |-> err, at |-> at]
Parent(i) == db.events[i].parent

-------------------------------------------------------------------------------
(* reparentInTx: up from the new parent p, to a root, to the event that    *)
(* moves, or to an event the walk has seen.                                *)

(* Bug: the walk looks for repeats alone.                                  *)
MeetsMoverNever(q, id) == FALSE

MeetsMover(q, id) == q = id

MoveWalk(id, p) ==
  LET Walk[at \in Ids \X SUBSET Ids] ==
        LET cursor == at[1]  seen == at[2]  q == Parent(cursor) IN
        IF cursor \notin Live(db) THEN Found("not_found", cursor)
        ELSE IF q = NoParent THEN Found("ok", cursor)
        ELSE IF MeetsMover(q, id) THEN Found("cycle", q)
        ELSE IF q \in seen THEN Found("corrupt_tree", q)
        ELSE Walk[<<q, seen \cup {q}>>]
  IN Walk[<<p, {p}>>]

(* It answers as the whole chain above p does, and the event it names in a *)
(* corrupt tree is one whose detaching would help.                         *)
MoveWalkExact ==
  \A id \in Live(db) : \A p \in Ids \ {id} :
    LET walk == MoveWalk(id, p) IN
    /\ walk.err = Reparent(db, id, p).err
    /\ walk.err = "corrupt_tree" => walk.at \in OnRing(db)

-------------------------------------------------------------------------------
(* GetSubtree and CountSubtree: the UNION recursion down from an event,    *)
(* and the look at where the event's own parent came back.                 *)

ChildrenOf(S) == {j \in Live(db) : Parent(j) \in S}

SubtreeRows(root) ==
  LET Grow[S \in SUBSET Ids] ==
        IF ChildrenOf(S) \subseteq S THEN S ELSE Grow[S \cup ChildrenOf(S)]
  IN Grow[{root} \cap Live(db)]

LoopsBack(root) == Parent(root) \in SubtreeRows(root)

GetSubtree(root) ==
  IF SubtreeRows(root) = {} THEN Found("not_found", {})
  ELSE IF LoopsBack(root) THEN Found("corrupt_tree", {})
  ELSE Found("ok", SubtreeRows(root))

(* What it reads as the subtree of an event is what deleting that takes,   *)
(* and it is refused exactly when the event is its own ancestor.           *)
SubtreeExact ==
  \A i \in Ids :
    LET answer == GetSubtree(i) IN
    /\ answer.err = "ok" <=> i \in Live(db) \ OnRing(db)
    /\ answer.err = "corrupt_tree" <=> i \in OnRing(db)
    /\ answer.err = "ok" => answer.at = Live(db) \ Live(Delete(db, i).db)

-------------------------------------------------------------------------------
(* requireAcyclicParentIndexes: from each record along its ParentIndex     *)
(* links, colouring the records of a walk that ended well.                 *)

ClosesPath(path, k) == k \in path

IndexWalk(index) ==
  LET n == Len(index)
      (* The records coloured safe by a walk from k, or {0} for a ring.    *)
      Path[at \in (1..n) \X (SUBSET (1..n)) \X (SUBSET (1..n))] ==
        LET k == at[1]  path == at[2]  safe == at[3] IN
        IF ClosesPath(path, k) THEN {0}
        ELSE IF k \in safe \cup path THEN safe \cup path
        ELSE IF index[k] = 0 THEN safe \cup path \cup {k}
        ELSE Path[<<index[k], path \cup {k}, safe>>]
      From[at \in (1..n+1) \X SUBSET (0..n)] ==
        LET k == at[1]  safe == at[2] IN
        IF 0 \in safe THEN FALSE
        ELSE IF k > n THEN TRUE
        ELSE From[<<k + 1, Path[<<k, {}, safe>>]>>]
  IN From[<<1, {}>>]

(* The links of a batch are accepted exactly when no record is its own     *)
(* ancestor: here for a batch linked as the live events are, and for every *)
(* change of one of its links.                                             *)
LinksAsBatch == [k \in 1..db.seq |-> IF k \in Live(db) THEN Parent(k) ELSE 0]
IndexWalkExact ==
  \A j \in 1..db.seq : \A k \in 0..db.seq :
    LET index == [LinksAsBatch EXCEPT ![j] = k] IN
    IndexWalk(index) <=> AcyclicIndexes([i \in 1..db.seq |-> [index |-> index[i]]])

(* Every loop along parent links ends, on sound and on ringed journals, and*)
(* decides what the whole relation decides: the walk that may refuse a move,*)
(* the recursion that reads a subtree, the check of a batch's own links.   *)
WalksExact == MoveWalkExact /\ SubtreeExact /\ IndexWalkExact

-------------------------------------------------------------------------------
(* render.Tree over the events of a listing, in its order.                 *)

(* A drawn line: the event, its depth, and whether it is marked as having  *)
(* a parent that is not drawn above it.                                    *)
Drawing(i, depth, orphan) == [id |-> i, depth |-> depth, orphan |-> orphan]
Drawings == [id : Ids, depth : Nat, orphan : BOOLEAN]

Listed(listing) == {listing[k] : k \in DOMAIN listing}
Top(i) == Drawing(i, 0, Parent(i) # NoParent)

(* Bug: what no root reaches is left out.                                  *)
SweepNothing(listing) == <<>>

Sweep(listing) == [k \in DOMAIN listing |-> Top(listing[k])]

(* The events at some places of a listing, in its order.                   *)
InOrder(listing, places) ==
  LET n == Cardinality(places)
      place == CHOOSE f \in [1..n -> places] : \A j, k \in 1..n : j < k => f[j] < f[k]
  IN [k \in 1..n |-> listing[place[k]]]

(* treeWriter.node: what is still to draw, deepest first, past what is     *)
(* drawn already.                                                          *)
Tree(listing) ==
  LET roots == InOrder(listing, {k \in DOMAIN listing : Parent(listing[k]) \notin Listed(listing)})
      Kids(line) ==
        LET kids == InOrder(listing, {k \in DOMAIN listing : Parent(listing[k]) = line.id})
        IN [k \in DOMAIN kids |-> Drawing(kids[k], line.depth + 1, FALSE)]
      Draw[at \in Seq(Drawings) \X Seq(Drawings)] ==
        LET todo == at[1]  drawn == at[2] IN
        IF todo = <<>> THEN drawn
        ELSE IF \E k \in DOMAIN drawn : drawn[k].id = Head(todo).id
             THEN Draw[<<Tail(todo), drawn>>]
             ELSE Draw[<<Kids(Head(todo)) \o Tail(todo), Append(drawn, Head(todo))>>]
  IN Draw[<<[k \in DOMAIN roots |-> Top(roots[k])] \o Sweep(listing), <<>>>>]

(* Every event of a listing is drawn exactly once, filtered, cut short or  *)
(* ringed as it may be: under its parent, or at the top.  There it is      *)
(* marked when it has a parent at all, which is then outside the listing   *)
(* unless no root is above it.                                             *)
DrawnUnder(drawn, k) ==
  LET above == {j \in 1..k-1 : drawn[j].depth < drawn[k].depth}
  IN CHOOSE j \in above : \A i \in above : i <= j
Listings(S) == {l \in [1..Cardinality(S) -> S] : \A j, k \in DOMAIN l : l[j] = l[k] => j = k}
TreeDrawsEachOnce ==
  \A S \in SUBSET Live(db) : \A listing \in Listings(S) :
    LET drawn == Tree(listing) IN
    /\ Len(drawn) = Cardinality(S) /\ {drawn[k].id : k \in DOMAIN drawn} = S
    /\ \A k \in DOMAIN drawn :
         IF drawn[k].depth = 0
         THEN /\ drawn[k].orphan <=> Parent(drawn[k].id) # NoParent
              /\ Parent(drawn[k].id) \in S => Chain(db, drawn[k].id) \cap OnRing(db) # {}
         ELSE drawn[DrawnUnder(drawn, k)].id = Parent(drawn[k].id)

===============================================================================
