------------------------------- MODULE Sessions -------------------------------
(***************************************************************************)
(* Several fngr processes writing to one database file.  Each runs one     *)
(* write call at a time through inTx: a deferred BEGIN on a WAL database   *)
(* opened with busy_timeout.                                               *)
(*                                                                         *)
(* A transaction whose first statement is a SELECT takes a snapshot then,  *)
(* and asks for the write lock only at its first write: SQLite refuses at  *)
(* once when another process holds the lock or has committed since the     *)
(* snapshot.  A transaction whose first statement writes waits for the     *)
(* lock up to the timeout and takes its snapshot with it.                  *)
(***************************************************************************)
EXTENDS JournalOps

CONSTANTS
  Procs,      (* The processes with the file open.                          *)
  Nobody,     (* The holder of a free write lock.                           *)
  Requests,   (* The write calls they make.                                 *)
  MaxBatch, MetaArgs, NewTexts
              (* What those calls are made of, as in Journal.               *)

ASSUME NobodyAssumption == Nobody \notin Procs
ASSUME ProcsAssumption == IsFiniteSet(Procs)
ASSUME InputAssumption == /\ MaxBatch \in Nat
                          /\ MetaArgs \subseteq SUBSET Tuples
                          /\ NewTexts \subseteq Texts

VARIABLES
  db,         (* The committed database.                                    *)
  pc,         (* Where each process is in its call.                         *)
  req,        (* The call it is making.                                     *)
  snap,       (* The snapshot its transaction reads.                        *)
  stale,      (* Whether somebody has committed since that snapshot.        *)
  lock,       (* The holder of the write lock.                              *)
  reply       (* What its last call returned.                               *)

vars == <<db, pc, req, snap, stale, lock, reply>>

J == INSTANCE Journal

(* A call and its arguments; one as a function of the database it runs     *)
(* against.                                                                *)
Calls ==
       [kind : {"add"}, ins : J!Batches]
  \cup [kind : {"update"}, id : Ids, title : NewTexts \cup {Keep},
        body : NewTexts \cup {Keep}, at : Stamps \cup {BadStamp, Keep}]
  \cup [kind : {"reparent"}, id : Ids, parent : Ids \cup {NoParent}]
  \cup [kind : {"delete"}, id : Ids]
  \cup [kind : {"addTags", "removeTags"}, id : Ids, tags : MetaArgs]
  \cup [kind : {"updateMeta"}, old : Tuples, new : Tuples]
  \cup [kind : {"deleteMeta"}, tuple : Tuples]

ASSUME RequestAssumption == Requests \subseteq Calls

Apply(d, o) ==
  CASE o.kind = "add"        -> AddMany(d, o.ins)
    [] o.kind = "update"     -> Update(d, o.id, o.title, o.body, o.at)
    [] o.kind = "reparent"   -> Reparent(d, o.id, o.parent)
    [] o.kind = "delete"     -> Delete(d, o.id)
    [] o.kind = "addTags"    -> AddTags(d, o.id, o.tags)
    [] o.kind = "removeTags" -> RemoveTags(d, o.id, o.tags)
    [] o.kind = "updateMeta" -> UpdateMeta(d, o.old, o.new)
    [] o.kind = "deleteMeta" -> DeleteMeta(d, o.tuple)

(* Delete, and an AddMany whose first record names no parent, start with   *)
(* their INSERT or DELETE; every other call looks something up first.      *)
WritesFirst(o) == o.kind = "delete" \/ (o.kind = "add" /\ o.ins[1].parent = NoParent)

(* The arguments alone make the call fail, before its first statement.     *)
Rejected(o) ==
  CASE o.kind = "add"    -> \/ ~ValidBatch(o.ins)
                            \/ WritesFirst(o) /\ RecordFails(EmptyJournal, o.ins, 1)
    [] o.kind = "delete" -> FALSE
    [] OTHER             -> Apply(EmptyJournal, o).err \notin {"ok", "not_found"}

(* The call fails on what it has read, before its first write statement.   *)
FailsOnRead(d, o) ==
  CASE o.kind = "add"    -> RecordFails(d, o.ins, 1)
    [] o.kind = "delete" -> FALSE
    [] OTHER             -> Apply(d, o).err # "ok"

(* The call touches some row: renaming or deleting a tuple nobody carries  *)
(* takes the lock but commits nothing.                                     *)
TouchesRows(d, o) ==
  CASE o.kind = "updateMeta" -> MetaEventIDs(d, o.old) # {}
    [] o.kind = "deleteMeta" -> MetaEventIDs(d, o.tuple) # {}
    [] OTHER                 -> TRUE

NoCall == [kind |-> "none"]

Init == /\ db = EmptyJournal
        /\ pc = [p \in Procs |-> "idle"]
        /\ req = [p \in Procs |-> NoCall]
        /\ snap = [p \in Procs |-> EmptyJournal]
        /\ stale = [p \in Procs |-> FALSE]
        /\ lock = Nobody
        /\ reply = [p \in Procs |-> "none"]

Transition(p, from, to) == pc[p] = from /\ pc' = [pc EXCEPT ![p] = to]

(* Bug: an error path that leaves its transaction open.                    *)
ReleasedOnCommit(p, r) == IF lock = p /\ r = "ok" THEN Nobody ELSE lock

(* A transaction that ends, by COMMIT or Rollback, drops the lock.         *)
Released(p, r) == IF lock = p THEN Nobody ELSE lock

(* The end of a call.  A transaction still open is rolled back.            *)
Return(p, from, r) ==
  /\ Transition(p, from, "idle")
  /\ reply' = [reply EXCEPT ![p] = r]
  /\ snap' = [snap EXCEPT ![p] = EmptyJournal]
  /\ req' = [req EXCEPT ![p] = NoCall]
  /\ lock' = Released(p, r)

(* No AddMany is called that could run past MaxId, whichever commits first. *)
AddsInFlight == {q \in Procs : req[q].kind = "add"}

Call(p, o) ==
  /\ Transition(p, "idle", "begun")
  /\ o.kind = "add" => db.seq + MaxBatch * (1 + Cardinality(AddsInFlight)) <= MaxId
  /\ req' = [req EXCEPT ![p] = o]
  /\ reply' = [reply EXCEPT ![p] = "none"]
  /\ UNCHANGED <<db, snap, stale, lock>>

Reject(p) ==
  /\ pc[p] = "begun" /\ Rejected(req[p])
  /\ Return(p, "begun", Apply(db, req[p]).err)
  /\ UNCHANGED <<db, stale>>

(* The first SELECT fixes the snapshot; later ones read the same.          *)
FirstRead(p) ==
  /\ Transition(p, "begun", "reading")
  /\ ~WritesFirst(req[p]) /\ ~Rejected(req[p])
  /\ snap' = [snap EXCEPT ![p] = db]
  /\ stale' = [stale EXCEPT ![p] = FALSE]
  /\ UNCHANGED <<db, req, lock, reply>>

FailOnRead(p) ==
  /\ pc[p] = "reading" /\ Return(p, "reading", Apply(snap[p], req[p]).err)
  /\ FailsOnRead(snap[p], req[p])
  /\ UNCHANGED <<db, stale>>

(* Bug: a stale snapshot written over what was committed since.            *)
CanUpgradeStale(p) == lock = Nobody

(* The first write statement after a read.                                 *)
CanUpgrade(p) == lock = Nobody /\ ~stale[p]

Upgrade(p) ==
  /\ Transition(p, "reading", "writing")
  /\ ~FailsOnRead(snap[p], req[p])
  /\ CanUpgrade(p)
  /\ lock' = p
  /\ UNCHANGED <<db, req, snap, stale, reply>>

RefuseUpgrade(p) ==
  /\ Return(p, "reading", "busy")
  /\ ~FailsOnRead(snap[p], req[p])
  /\ ~CanUpgrade(p)
  /\ UNCHANGED <<db, stale>>

(* A first statement that writes: wait, then take lock and snapshot.       *)
FirstWrite(p) ==
  /\ Transition(p, "begun", "writing")
  /\ WritesFirst(req[p]) /\ ~Rejected(req[p])
  /\ lock = Nobody
  /\ lock' = p
  /\ snap' = [snap EXCEPT ![p] = db]
  /\ UNCHANGED <<db, req, stale, reply>>

(* busy_timeout runs out while somebody holds the lock.                    *)
WaitTimeout(p) ==
  /\ Return(p, "begun", "busy")
  /\ WritesFirst(req[p]) /\ ~Rejected(req[p])
  /\ lock # Nobody
  /\ UNCHANGED <<db, stale>>

(* The rest of the body, and COMMIT, or the deferred Rollback on an error. *)
Finish(p) ==
  LET r == Apply(snap[p], req[p]) IN
  /\ pc[p] = "writing" /\ Return(p, "writing", r.err)
  /\ IF r.err = "ok"
     THEN /\ db' = r.db
          /\ stale' = [q \in Procs |-> stale[q] \/ TouchesRows(snap[p], req[p])]
     ELSE UNCHANGED <<db, stale>>

(* The process dies: its transaction is as if it had never begun.          *)
Crash(p) ==
  /\ pc[p] # "idle"
  /\ Return(p, pc[p], "none")
  /\ UNCHANGED <<db, stale>>

Step(p) == \/ Reject(p)        \/ FirstRead(p)  \/ FailOnRead(p) \/ Upgrade(p)
           \/ RefuseUpgrade(p) \/ FirstWrite(p) \/ WaitTimeout(p) \/ Finish(p)

Next == \E p \in Procs : Step(p) \/ Crash(p) \/ \E o \in Requests : Call(p, o)

(* A process that is in a call goes on with it, unless it dies.            *)
Fairness == \A p \in Procs : WF_vars(Step(p))

Spec == Init /\ [][Next]_vars
FairSpec == Spec /\ Fairness

-------------------------------------------------------------------------------
(* The steps of all processes together are steps of the atomic journal.    *)
ImplementsJournal == J!Spec

TypeOK == /\ IsJournal(db)
          /\ pc \in [Procs -> {"idle", "begun", "reading", "writing"}]
          /\ \A p \in Procs : req[p] \in Requests \cup {NoCall} /\ IsJournal(snap[p])
          /\ stale \in [Procs -> BOOLEAN]
          /\ lock \in Procs \cup {Nobody}

(* Whoever holds the write lock works on the newest commit: what it read   *)
(* before it asked for the lock still holds, so that two moves, each fine  *)
(* on its own snapshot, close no ring together.                            *)
HolderIsCurrent ==
  \A p \in Procs : pc[p] = "writing" => lock = p /\ snap[p] = db

(* Every call returns, whoever else holds the lock, and has then given up  *)
(* the lock, whatever way it went.                                         *)
CallsEnd == \A p \in Procs : pc[p] # "idle" ~> pc[p] = "idle" /\ lock # p

(* "database is locked" is the answer only while another process holds     *)
(* the lock.                                                               *)
BusyOnlyWhenLocked ==
  [][\A p \in Procs : reply[p] # "busy" /\ reply'[p] = "busy" => lock \notin {p, Nobody}]_vars

===============================================================================
