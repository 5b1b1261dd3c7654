---------------------------- MODULE Migrate_proofs ----------------------------
(***************************************************************************)
(* Migrate for every set of openers and every number of crashes.           *)
(*                                                                         *)
(* What a pass knows of the file between its steps is in Known; what holds *)
(* of it only while passes do not overlap is in Alone, and what holds once *)
(* the file has step 4 in FromFour.                                        *)
(***************************************************************************)
EXTENDS Migrate, TLAPS

(* A pass about to stamp has seen a table, one that probes believes in no  *)
(* step, one about to apply steps never in a step the file does not have.  *)
Known == \A p \in Openers :
           /\ pc[p] = "probing"  => current[p] = 0
           /\ pc[p] = "stamping" => schema >= 1
           /\ pc[p] = "applying" => current[p] <= schema

(* Without overlap the one pass under way has the file's own version.      *)
OnePass == \A p, q \in Migrating : p = q
InStep(p) == /\ pc[p] = "probing"  => version = 0 /\ current[p] = 0
             /\ pc[p] = "stamping" => version = 0 /\ schema = 1
             /\ pc[p] = "applying" => version = schema /\ current[p] = version
Alone == ~overlapped => /\ OnePass
                        /\ Truthful
                        /\ \A p \in Openers : InStep(p) /\ pc[p] # "failed"

Inv == TypeOK /\ NeverAhead /\ Known /\ Alone

LEMMA InitInv == Init => Inv
<1> SUFFICES ASSUME Init PROVE Inv
  OBVIOUS
<1>0. schema \in Versions /\ version \in Versions /\ version <= schema
  BY DEF Init, InitFile, Versions, Newest
<1>1. TypeOK
  <2>1. pc \in [Openers -> Locations] /\ current \in [Openers -> Versions]
    BY DEF Init, Locations, Versions, Newest
  <2>2. split \in BOOLEAN /\ overlapped \in BOOLEAN
    BY Zenon DEF Init, InitFile
  <2>3. crashes \in 0..MaxCrashes
    BY CrashAssumption DEF Init
  <2>4. QED
    BY <1>0, <2>1, <2>2, <2>3 DEF TypeOK
<1>2. NeverAhead /\ Known
  BY DEF Init, InitFile, NeverAhead, Known, Versions, Newest
<1>3. Alone
  BY DEF Init, InitFile, Alone, OnePass, Truthful, InStep, Migrating
<1>4. QED
  BY <1>1, <1>2, <1>3 DEF Inv

(* A step's number is one past what its process believes, and the schema   *)
(* after it is the larger of the two.                                      *)
LEMMA AppliedStep ==
  ASSUME TypeOK, NEW p \in Openers, NEW n \in Versions, ApplyStep(p, n)
  PROVE  /\ schema' \in Versions
         /\ schema <= schema' /\ n <= schema'
         /\ version' = n /\ current' = [current EXCEPT ![p] = n]
         /\ pc[p] = "applying" /\ pc' = pc /\ n = current[p] + 1
         /\ split' \in BOOLEAN /\ crashes' = crashes
<1>1. /\ schema \in Versions /\ current[p] \in Versions
      /\ n \in 1..Newest /\ split \in BOOLEAN
  BY DEF TypeOK, ApplyStep, Versions, Newest
<1>2. split' \in BOOLEAN
  BY <1>1 DEF ApplyStep, SplitAfter
<1>3. schema' \in Versions /\ schema <= schema' /\ n <= schema'
  BY <1>1 DEF ApplyStep, SchemaAfter, Applies, Versions, Newest
<1>4. QED
  BY <1>2, <1>3 DEF ApplyStep

LEMMA StepType == TypeOK /\ [Next]_vars => TypeOK'
<1> SUFFICES ASSUME TypeOK, [Next]_vars PROVE TypeOK'
  OBVIOUS
<1> USE DEF TypeOK
<1>1. CASE UNCHANGED vars
  BY <1>1 DEF vars
<1>2. CASE Next
  <2>1. PICK p \in Openers : Step(p) \/ Dies(p)
    BY <1>2 DEF Next
  <2>2. overlapped' \in BOOLEAN
    BY <2>1 DEF Step, Dies, Recorded
  <2> USE <2>2
  <2>3. CASE ReadVersion(p)
    BY <2>3 DEF ReadVersion, Goto, file, Locations
  <2>4. CASE ProbeLegacy(p)
    BY <2>4 DEF ProbeLegacy, Goto, file, Locations
  <2>5. CASE StampLegacy(p)
    BY <2>5 DEF StampLegacy, Goto, Locations, Versions, Newest
  <2>6. CASE \E n \in Versions : ApplyStep(p, n)
    <3>1. PICK n \in Versions : ApplyStep(p, n)
      BY <2>6
    <3>2. QED
      BY <3>1, AppliedStep
  <2>7. CASE \/ \E n \in Versions : FailStep(p, n)
             \/ LoseWait(p) \/ Finish(p)
    BY <2>7 DEF FailStep, LoseWait, Finish, Goto, file, Locations
  <2>8. CASE Close(p)
    BY <2>8 DEF Close, file, Locations, Versions, Newest
  <2>9. CASE Crash(p)
    BY <2>9, CrashAssumption DEF Crash, file, Locations, Versions, Newest
  <2>10. QED
    BY <2>1, <2>3, <2>4, <2>5, <2>6, <2>7, <2>8, <2>9 DEF Step, Dies
<1>3. QED
  BY <1>1, <1>2

(* What holds whatever the interleaving.                                   *)
LEMMA StepKnown == TypeOK /\ NeverAhead /\ Known /\ [Next]_vars => NeverAhead' /\ Known'
<1> SUFFICES ASSUME TypeOK, NeverAhead, Known, [Next]_vars PROVE NeverAhead' /\ Known'
  OBVIOUS
<1>0. /\ schema \in Int /\ version \in Int /\ 0 <= schema /\ schema <= Newest /\ Newest \in Int
      /\ \A q \in Openers : current[q] \in Int
      /\ DOMAIN pc = Openers /\ DOMAIN current = Openers
  BY DEF TypeOK, Versions, Newest
<1> USE <1>0 DEF NeverAhead, Known
<1>1. CASE UNCHANGED vars
  BY <1>1 DEF vars
<1>2. CASE Next
  <2>1. PICK p \in Openers : Step(p) \/ Dies(p)
    BY <1>2 DEF Next
  <2>2. CASE ReadVersion(p)
    BY <2>2 DEF ReadVersion, Goto, file, TypeOK
  <2>3. CASE ProbeLegacy(p)
    BY <2>3 DEF ProbeLegacy, Goto, file, TypeOK
  <2>4. CASE StampLegacy(p)
    BY <2>4 DEF StampLegacy, Goto, file, TypeOK
  <2>5. CASE \E n \in Versions : ApplyStep(p, n)
    <3>1. PICK n \in Versions : ApplyStep(p, n)
      BY <2>5
    <3>2. n \in Int /\ schema' \in Versions
      BY <3>1, AppliedStep DEF Versions
    <3>3. QED
      BY <3>1, <3>2, AppliedStep DEF Versions, Newest
  <2>6. CASE \/ \E n \in Versions : FailStep(p, n)
             \/ LoseWait(p) \/ Finish(p)
    BY <2>6 DEF FailStep, LoseWait, Finish, Goto, file, TypeOK
  <2>7. CASE Close(p) \/ Crash(p)
    BY <2>7 DEF Close, Crash, file, TypeOK
  <2>8. QED
    BY <2>1, <2>2, <2>3, <2>4, <2>5, <2>6, <2>7 DEF Step, Dies
<1>3. QED
  BY <1>1, <1>2

(* What holds until two passes overlap: the pass under way is alone.       *)
LEMMA StepAlone == TypeOK /\ Alone /\ [Next]_vars => Alone'
<1> SUFFICES ASSUME TypeOK, Alone, [Next]_vars, ~overlapped'
             PROVE  /\ OnePass' /\ Truthful'
                    /\ \A q \in Openers : InStep(q)' /\ (pc[q] # "failed")'
  BY DEF Alone
<1>0. /\ schema \in Int /\ version \in Int /\ 0 <= schema /\ schema <= Newest
      /\ Newest \in Int /\ DOMAIN pc = Openers /\ DOMAIN current = Openers
  BY DEF TypeOK, Versions, Newest
<1>1. CASE UNCHANGED vars
  BY <1>1 DEF vars, Alone, OnePass, Truthful, InStep, Migrating
<1>2. CASE Next
  <2>1. PICK p \in Openers : Step(p) \/ Dies(p)
    BY <1>2 DEF Next
  <2>2. ~overlapped /\ \A q, r \in Migrating' : q = r
    BY <2>1 DEF Step, Dies, Recorded
  <2>3. /\ OnePass' /\ OnePass /\ Truthful
        /\ \A q \in Openers : InStep(q) /\ pc[q] # "failed"
    BY <2>2 DEF Alone, OnePass
  <2>4. /\ \A q \in Openers \ {p} : pc'[q] = pc[q] /\ current'[q] = current[q]
        /\ DOMAIN pc' = Openers
    BY <2>1, <1>0, AppliedStep
       DEF Step, Dies, ReadVersion, ProbeLegacy, StampLegacy, ApplyStep, FailStep,
           LoseWait, Finish, Close, Crash, Goto
  <2>5. ASSUME p \in Migrating, NEW q \in Openers \ {p}
        PROVE  InStep(q)' /\ pc[q]' # "failed"
    BY <2>5, <2>3, <2>4 DEF OnePass, InStep, Migrating
  <2>6. CASE ReadVersion(p)
    BY <2>6, <1>0, <2>3, <2>4 DEF ReadVersion, Goto, file, InStep, Truthful
  <2>7. CASE ProbeLegacy(p)
    BY <2>7, <1>0, <2>3, <2>4, <2>5 DEF ProbeLegacy, Goto, file, InStep, Truthful, Migrating
  <2>8. CASE StampLegacy(p)
    BY <2>8, <1>0, <2>3, <2>4, <2>5 DEF StampLegacy, Goto, InStep, Truthful, Migrating
  <2>9. CASE \E n \in Versions : ApplyStep(p, n)
    <3>1. PICK n \in Versions : ApplyStep(p, n)
      BY <2>9
    <3>2. p \in Migrating /\ n = schema + 1 /\ schema' = n
      BY <3>1, <1>0, <2>3 DEF ApplyStep, SchemaAfter, InStep, Migrating
    <3>3. QED
      BY <3>1, <3>2, <1>0, <2>3, <2>4, <2>5 DEF ApplyStep, InStep, Truthful
  <2>10. CASE \E n \in Versions : FailStep(p, n)
    BY <2>10, <1>0, <2>3 DEF FailStep, Goto, Applies, InStep, Newest
  <2>11. CASE LoseWait(p)
    BY <2>11, <2>3 DEF LoseWait, Goto, OnePass, Migrating
  <2>12. CASE Finish(p)
    BY <2>12, <1>0, <2>3, <2>4, <2>5 DEF Finish, Goto, file, InStep, Truthful, Migrating
  <2>13. CASE Close(p) \/ Crash(p)
    BY <2>13, <1>0, <2>3, <2>4 DEF Close, Crash, file, InStep, Truthful
  <2>14. QED
    BY <2>1, <2>3, <2>6, <2>7, <2>8, <2>9, <2>10, <2>11, <2>12, <2>13 DEF Step, Dies
<1>3. QED
  BY <1>1, <1>2

LEMMA InvStep == Inv /\ [Next]_vars => Inv'
BY StepType, StepKnown, StepAlone DEF Inv

THEOREM InvHolds == Spec => []Inv
BY InitInv, InvStep, PTL DEF Spec

(* Every opener is where Open can be, with versions that exist.            *)
THEOREM TypeCorrect == Spec => []TypeOK
BY InvHolds, PTL DEF Inv

(* user_version never claims a step the file lacks, nor does Open hand out *)
(* a database that lacks one, whatever interleaves with migrate and        *)
(* whenever a process dies in it.                                          *)
THEOREM NobodyAhead == Spec => []NeverAhead
BY InvHolds, PTL DEF Inv

(* Until two passes overlap the version is exact and no Open fails, however*)
(* many died between two steps.                                            *)
THEOREM CrashesNeverHarm == Spec => []CrashesHarmless
<1>1. Inv => CrashesHarmless
  BY DEF Inv, Alone, CrashesHarmless
<1>2. QED
  BY <1>1, InvHolds, PTL

(* From version 4 on the file is exact, nobody probes or stamps, and what a*)
(* pass believes is a version the file has or has had since step 4.        *)
FromFour == /\ Exact /\ version >= 4
            /\ \A p \in Openers :
                 /\ pc[p] \notin {"probing", "stamping"}
                 /\ pc[p] = "applying" => current[p] \in 4..version

LEMMA FromFourStep == TypeOK /\ FromFour /\ [Next]_vars => FromFour'
<1> SUFFICES ASSUME TypeOK, FromFour, [Next]_vars PROVE FromFour'
  OBVIOUS
<1>0. /\ version \in 4..Newest /\ schema = version /\ Newest = 6
      /\ DOMAIN pc = Openers /\ DOMAIN current = Openers
  BY DEF TypeOK, FromFour, Exact, Versions, Newest
<1>1. CASE UNCHANGED vars
  BY <1>1 DEF vars, FromFour, Exact
<1>2. CASE Next
  <2>1. PICK p \in Openers : Step(p) \/ Dies(p)
    BY <1>2 DEF Next
  <2>2. CASE ReadVersion(p)
    BY <2>2, <1>0 DEF ReadVersion, Goto, file, FromFour, Exact
  (* No pass got to a probe or a stamp, as no version read was 0.            *)
  <2>3. ~ProbeLegacy(p) /\ ~StampLegacy(p)
    BY DEF ProbeLegacy, StampLegacy, Goto, FromFour
  (* Step 5 runs on schema 4 alone, step 6 on 5 or, once more, on 6.         *)
  <2>4. CASE \E n \in Versions : ApplyStep(p, n)
    <3>1. PICK n \in Versions : ApplyStep(p, n)
      BY <2>4
    <3>2. /\ n \in {5, 6} /\ version <= n /\ (n = 5 => version = 4)
      BY <3>1, <1>0 DEF ApplyStep, Applies, FromFour
    <3>3. version' = n /\ schema' = n
      BY <3>1, <3>2, <1>0 DEF ApplyStep, SchemaAfter
    <3>4. split' = (n = Newest)
      <4>1. CASE n = 5
        <5>0. n # 4 /\ n # 6 /\ split' = SplitAfter(n)
          BY <4>1, <3>1 DEF ApplyStep
        <5>1. split' = split
          BY <5>0, Zenon DEF SplitAfter
        <5>2. split = (schema = Newest)
          BY DEF FromFour, Exact
        <5>3. schema # Newest /\ n # Newest
          BY <4>1, <3>2, <1>0
        <5>4. QED
          BY <5>1, <5>2, <5>3
      <4>2. CASE n = 6
        <5>1. n # 4 /\ n = Newest /\ split' = SplitAfter(n)
          BY <4>2, <3>1, <1>0 DEF ApplyStep
        <5>2. split' = TRUE
          BY <4>2, <5>1, Zenon DEF SplitAfter
        <5>3. QED
          BY <5>1, <5>2
      <4>3. QED
        BY <3>2, <4>1, <4>2
    <3>5. QED
      BY <3>1, <3>2, <3>3, <3>4, <1>0 DEF ApplyStep, FromFour, Exact
  <2>5. CASE \/ \E n \in Versions : FailStep(p, n)
             \/ LoseWait(p) \/ Finish(p)
    BY <2>5, <1>0 DEF FailStep, LoseWait, Finish, Goto, file, FromFour, Exact
  <2>6. CASE Close(p) \/ Crash(p)
    BY <2>6, <1>0 DEF Close, Crash, file, FromFour, Exact
  <2>7. QED
    BY <2>1, <2>2, <2>3, <2>4, <2>5, <2>6 DEF Step, Dies
<1>3. QED
  BY <1>1, <1>2

(* A file that has step 4 stays exact, whatever passes overlap on it, by   *)
(* whatever versions they read before, and whenever they die.              *)
THEOREM OverlapNeverHarms == Spec => OverlapHarmless
<1>1. Init /\ version >= 4 => FromFour
  BY DEF Init, InitFile, FromFour, Exact, Versions, Newest
<1>2. FromFour => Exact
  BY DEF FromFour
<1>3. QED
  BY <1>1, <1>2, FromFourStep, TypeCorrect, PTL DEF Spec, OverlapHarmless

===============================================================================
