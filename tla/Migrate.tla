-------------------------------- MODULE Migrate --------------------------------
(***************************************************************************)
(* internal/db: Open brings the file's schema to the newest version.       *)
(*                                                                         *)
(* migrate reads user_version once, outside any transaction, and decides   *)
(* from that number which steps to run; each step and its user_version     *)
(* bump then commit together.  Every step starts with a statement that     *)
(* writes, so it waits for the lock and sees the newest commit: a step is  *)
(* one action.  A step that runs on a schema it was not written for fails  *)
(* (its table, index or column is already there), save for the two that    *)
(* can run again: 4, which rewrites the index in the old one-column form,  *)
(* and 6, which drops and refills it.                                      *)
(***************************************************************************)
EXTENDS Integers, FiniteSets

CONSTANTS
  Openers,    (* Processes that open the file.                              *)
  MaxCrashes  (* How often one of them dies on the way.  Bounds the model.  *)

ASSUME CrashAssumption == MaxCrashes \in Nat

Newest == 6   (* The number of embedded <N>.sql files.                      *)
Versions == 0..Newest

VARIABLES
  schema,     (* The last step whose effect the file has; 0: no tables.     *)
  version,    (* PRAGMA user_version.                                       *)
  split,      (* events_fts holds text and tokens in their own columns.     *)
  pc,         (* Where each process is in Open.                             *)
  current,    (* migrate's local: the version it believes the file has.     *)
  crashes,
  overlapped  (* Some pass began while another was under way (a history     *)
              (* variable: no action reads it).                             *)

vars == <<schema, version, split, pc, current, crashes, overlapped>>
file == <<schema, version, split>>

Locations == {"closed", "probing", "stamping", "applying", "open", "failed"}

TypeOK == /\ schema \in Versions /\ version \in Versions
          /\ split \in BOOLEAN
          /\ pc \in [Openers -> Locations]
          /\ current \in [Openers -> Versions]
          /\ crashes \in 0..MaxCrashes
          /\ overlapped \in BOOLEAN

Goto(p, from, to) == pc[p] = from /\ pc' = [pc EXCEPT ![p] = to]

(* A new or empty file, a file from before user_version was kept, or a     *)
(* file some earlier build brought up to its own newest step.              *)
InitFile == /\ schema \in Versions
            /\ version \in {schema} \cup (IF schema = 1 THEN {0} ELSE {})
            /\ split = (schema = Newest)

Init == /\ InitFile
        /\ pc = [p \in Openers |-> "closed"]
        /\ current = [p \in Openers |-> 0]
        /\ crashes = 0
        /\ overlapped = FALSE

(* Bug: the step the file's version already names is run once more.        *)
ReadVersionRerunning(p) ==
  /\ Goto(p, "closed", IF version = 0 THEN "probing" ELSE "applying")
  /\ current' = [current EXCEPT ![p] = IF version = 0 THEN 0 ELSE version - 1]
  /\ UNCHANGED <<file, crashes>>

(* migrate reads user_version.                                             *)
ReadVersion(p) ==
  /\ Goto(p, "closed", IF version = 0 THEN "probing" ELSE "applying")
  /\ current' = [current EXCEPT ![p] = version]
  /\ UNCHANGED <<file, crashes>>

(* Bug: no probe for a file from before versions were kept.                *)
ProbeLegacySkipped(p) ==
  /\ Goto(p, "probing", "applying")
  /\ UNCHANGED <<file, current, crashes>>

(* hasLegacyV1Schema: is there a table called events?                      *)
ProbeLegacy(p) ==
  /\ Goto(p, "probing", IF schema > 0 THEN "stamping" ELSE "applying")
  /\ UNCHANGED <<file, current, crashes>>

(* Bug: an unversioned file taken to be up to date.                        *)
StampLegacyNewest(p) ==
  /\ Goto(p, "stamping", "applying")
  /\ version' = Newest
  /\ current' = [current EXCEPT ![p] = Newest]
  /\ UNCHANGED <<schema, split, crashes>>

(* A database without a version is taken to be at version 1.               *)
StampLegacy(p) ==
  /\ Goto(p, "stamping", "applying")
  /\ version' = 1
  /\ current' = [current EXCEPT ![p] = 1]
  /\ UNCHANGED <<schema, split, crashes>>

(* Step n runs on the schema as it is now.                                 *)
Applies(n) == CASE n = 4 -> schema >= 3
                [] n = 6 -> schema >= 5
                [] OTHER -> schema = n - 1

(* Bug: a step 6 that leaves the index in one column.                      *)
SplitAfterNever(n) == n # 4 /\ split

(* Step 4 on a later schema changes the index and nothing else.            *)
SchemaAfter(n) == IF schema < n THEN n ELSE schema
SplitAfter(n) == CASE n = 4 -> FALSE [] n = 6 -> TRUE [] OTHER -> split

(* applyMigration: script, Go step and version bump in one transaction.    *)
ApplyStep(p, n) ==
  /\ pc[p] = "applying" /\ current[p] < Newest
  /\ n = current[p] + 1
  /\ Applies(n)
  /\ schema' = SchemaAfter(n)
  /\ version' = n
  /\ split' = SplitAfter(n)
  /\ current' = [current EXCEPT ![p] = n]
  /\ UNCHANGED <<pc, crashes>>

(* A step that cannot run rolls back, and Open returns the error.          *)
FailStep(p, n) ==
  /\ Goto(p, "applying", "failed")
  /\ n = current[p] + 1 /\ n <= Newest
  /\ ~Applies(n)
  /\ UNCHANGED <<file, current, crashes>>

(* busy_timeout runs out while another process is in its own write.        *)
LoseWait(p) ==
  /\ \E q \in Openers \ {p} : pc[q] \in {"stamping", "applying"}
  /\ \/ Goto(p, "stamping", "failed")
     \/ Goto(p, "applying", "failed") /\ current[p] < Newest
  /\ UNCHANGED <<file, current, crashes>>

Finish(p) ==
  /\ Goto(p, "applying", "open")
  /\ current[p] = Newest
  /\ UNCHANGED <<file, current, crashes>>

(* The process ends: done with its command, after a failed Open, or dying  *)
(* between two statements.  The next command opens the file afresh.        *)
Close(p) ==
  /\ pc[p] \in {"open", "failed"}
  /\ pc' = [pc EXCEPT ![p] = "closed"]
  /\ current' = [current EXCEPT ![p] = 0]
  /\ UNCHANGED <<file, crashes>>

Crash(p) ==
  /\ pc[p] \in {"probing", "stamping", "applying"} /\ crashes < MaxCrashes
  /\ pc' = [pc EXCEPT ![p] = "closed"]
  /\ current' = [current EXCEPT ![p] = 0]
  /\ crashes' = crashes + 1
  /\ UNCHANGED file

(* The processes in a migration pass, and whether two ever were.           *)
Migrating == {q \in Openers : pc[q] \in {"probing", "stamping", "applying"}}
Recorded  == overlapped' = (overlapped \/ \E p, q \in Migrating' : p # q)

Step(p) == /\ \/ ReadVersion(p) \/ ProbeLegacy(p) \/ StampLegacy(p)
              \/ (\E n \in Versions : ApplyStep(p, n) \/ FailStep(p, n))
              \/ LoseWait(p) \/ Finish(p) \/ Close(p)
           /\ Recorded

Dies(p) == Crash(p) /\ Recorded

Next == \E p \in Openers : Step(p) \/ Dies(p)

Spec == Init /\ [][Next]_vars

(* Processes keep opening the file, and one whose next step can run is not *)
(* kept from it for ever by the others' turns at the lock.                 *)
Applying(p) == (\E n \in Versions : ApplyStep(p, n)) /\ Recorded
Fairness == \A p \in Openers : WF_vars(Step(p)) /\ SF_vars(Applying(p))
FairSpec == Spec /\ Fairness

-------------------------------------------------------------------------------
(* Whatever opens the file and whenever one dies, neither user_version nor *)
(* a process past its own migration pass counts on a step whose effect the *)
(* file does not have.                                                     *)
NeverAhead == /\ version <= schema
              /\ \A p \in Openers : pc[p] = "open" => schema = Newest

(* Once a file has step 4, overlap does no harm: however many passes go by *)
(* a version they read earlier, and wherever they die, user_version says   *)
(* which steps the file has, and the index has the form of the last one.   *)
(* Below 4 that is false (see MigrateNew): the stamp and step 4 can take a *)
(* file back that another pass has brought further.                        *)
Exact == version = schema /\ split = (schema = Newest)
OverlapHarmless == version >= 4 => []Exact

Truthful == version = schema \/ (schema = 1 /\ version = 0)

(* As long as opens come one after the other, whichever of them died on    *)
(* the way, none fails, and the version says exactly which steps the file  *)
(* has, save for the file from before versions were kept.                  *)
CrashesHarmless ==
  ~overlapped => Truthful /\ \A p \in Openers : pc[p] # "failed"

(* A file some process keeps opening gets to the newest schema and index.  *)
Migrated == schema = Newest /\ version = Newest /\ split
GetsMigrated == <>[]Migrated

(* It does if the opens come one after the other.                          *)
AloneGetsMigrated == []~overlapped => GetsMigrated

===============================================================================
