# A model of fngr

fngr is a command-line journal: events in one SQLite file, with a parent-child
tree, `key=value` metadata and a full-text index. Each command is a process of
its own. It opens the file, brings its schema up to date, makes a few calls on
the event store and ends. Nothing in fngr coordinates two commands; SQLite's
transactions do. The models are about what follows from that, about what a
command does between its first query and its exit status, and about the rules
for text and time that its answers rest on.

## Inventory

| Component | State it keeps | Operations | What makes it correct |
|---|---|---|---|
| event store, writes: `internal/event/{event,mutate,meta,tx,store}.go` | tables `events`, `event_meta`, `events_fts`, the AUTOINCREMENT counter | Add, AddMany, Update, Reparent, Delete, AddTags, RemoveTags, UpdateMeta, DeleteMeta | forest of live events, index equal to the tables, at most one author, body-derived rows follow the text and operator rows survive it, ids never reused, all or nothing |
| event store, reads: `internal/event/query.go` | none | Get, ListSeq, GetSubtree, CountSubtree, HasChildren | an answer belongs to one state of the journal, walks end on broken files, limits keep the newest |
| transactions: `internal/event/tx.go`, the DSN of `internal/db/db.go` | snapshot and write lock of each process | BEGIN (deferred), read, write, COMMIT, ROLLBACK | calls of several processes are atomic, every call ends, no lock stays |
| database file: `internal/db` | `user_version`, schema, form of the index | Open, migrate, one transaction per step | version never ahead of the schema, no open fails, the file gets to the newest schema |
| verbs: `cmd/fngr/{delete,event,meta,prompt}.go` | what was read before the prompt or the splice | read, ask, write | nothing without consent, nothing taken that was not named, the other half of a timestamp kept |
| add and JSON import: `cmd/fngr/{add,add_json}.go` | the batch | parse, resolve parents, merge metadata, AddMany | a copy keeps its tree and metadata, whatever ids the target uses |
| text: `internal/parse` | none | tags of a text, index columns, shape of a tuple | index and metadata agree on what a tag is |
| search: `internal/event/filter.go` | none | tokenize, compile to FTS5 | the compiled query means what the expression says |
| time: `internal/timefmt` | none | parse, splice, format for storage | stored order is time order, skipped clocks are noticed |
| rendering: `internal/render` | none | tree, flat, JSON, CSV, Markdown | each event exactly once, also on broken trees |
| output, pager, editor: `cmd/fngr/{output,pager,list,body}.go` | buffer, child process, temporary file, signal disposition | write, flush, spawn, wait | nothing lost at exit, nothing left behind |
| command line: `cmd/fngr/{main,help,envcmd,plural}.go` | the exit status | flags, dispatch, the ways out | what was printed is out before the verdict, success means it arrived |

The verbs call the store through the `eventStore` interface, the store calls
SQLite inside `inTx`, and everything two processes share is the file. The hard
behaviours are what a process has read and may no longer rely on (a snapshot, a
version, a count, a timestamp), what several verbs do to the same row one after
the other, batches that are linked while they are inserted, files that arrive
already broken, processes that die, and output that is buffered while a pager,
a prompt or an editor has the terminal. PROJECT.json lists these hazards at
their lines with the properties that watch them.

## Modules

    JournalOps   the write calls as functions on a database value  -> JournalOps_proofs
      Journal      the atomic journal: one call, one step
        Walks        the loops that follow parent links            -> Journal_proofs
      Sessions     processes, snapshots, the lock; implements Journal
                                                                   -> Sessions_proofs
      Commands     the verbs: several calls with gaps between them (with Clocks)
        Import       JSON export and import around AddMany         -> Commands_proofs
      Reads        a listing's queries and metadata batches (with Clocks, Filter)
        Listing      Reads and Terminal: one run of fngr           -> Terminal_proofs,
                                                                      Listing_proofs
    Clocks       wall clocks, zones, the values --time, --from and --to take
    Filter       search expressions and the shape of metadata      -> Text_proofs
                                                                      (both)
    Terminal     buffer, pager, prompt, editor, exit; implements Stream
    Stream       what whoever reads standard output is promised
    Migrate      Open and the schema steps                         -> Migrate_proofs

`MCJournal`, `MCSessions`, `MCCommands`, `MCImport`, `MCListing` and
`MCMigrate` give the constants small values.

**JournalOps.** A database is a record `[events, meta, fts, seq]`; `meta[i][t]`
is the `source` column of the row for tuple `t`, or `"none"`. Each operator is
a whole call, in the code's order of checks, and returns `[err, db]`. Since
`inTx` is one transaction per call, an error returns the database it was given.
Three things are stated by what they compute rather than how. Reparent's upward
walk with its `seen` map is `Chain`, the least set closed under parents, and
its ErrCorruptTree is a chain without a root. The depth-first colouring of
`requireAcyclicParentIndexes` is `AcyclicIndexes`: no set of records is its own
ancestry. ON DELETE CASCADE is `Subtree`. A text is a member of a small set
with the tags it mentions (`TagsIn`), so a title or a body matters only for its
tags and its identity. A tuple `parse.ValidateMeta` refuses is in `Unfindable`.

**Journal.** One action per call, arguments from small sets. `Spec` admits
every batch the signature of AddMany admits; `SettledSpec` only those whose
ParentIDs name ids that were allocated before the batch. The difference is a
finding, below.

**Walks.** The loops as the code has them: `MoveWalk` is reparentInTx with its
`seen` map, `IndexWalk` the colouring of a batch, `GetSubtree` the UNION
recursion with its look at whether the root's own parent came back, `Tree` the
tree view with its sweep over what no root reaches. `WalksExact` compares the
first three with the sets of JournalOps, and `TreeDrawsEachOnce` asks that every
event of a listing, in whatever order it is listed, is drawn once and in its
place, on every journal Journal reaches. A loop is a function of one state, a
tuple of the code's variables.

**Sessions.** `Call` is BeginTx with a deferred transaction. `FirstRead` fixes
the snapshot, `Upgrade` is the first write after it and needs the lock and an
unchanged database, `RefuseUpgrade` is SQLITE_BUSY and SQLITE_BUSY_SNAPSHOT,
`FirstWrite` waits for the lock and takes its snapshot with it, `WaitTimeout`
is `busy_timeout` running out, `Finish` is the rest of the body with COMMIT or
the deferred Rollback, `Crash` the death of the process. `Reject` is a call
whose arguments fail before any statement. What SQLite does is external: it is
modelled as far as `inTx` relies on it. The abstract specification is Journal,
with `db` the committed database (`ImplementsJournal`).

**Migrate.** `migrate` reads `user_version` (`ReadVersion`), probes for a
file without one (`ProbeLegacy`, `StampLegacy`), and then runs every step
above its local `current` (`ApplyStep`, `FailStep`). `schema` is the last step
whose effect the file has and `split` whether the index has its two columns.
`Applies` says which steps can run on a schema that has them already: 4 and 6.
The history variable `overlapped` remembers whether two passes were ever under
way at once, which is what the stronger properties depend on.

**Clocks.** Time in whole hours and a zone whose clocks change once. `Date` is
Go's `time.Date` with its guess at the offset, `LocalClock`, `SpliceTime`,
`SpliceDate`, `ParsePartial` and `ParseBound` are the functions of `timefmt`
and `list.go` over it. A value is a form (date, clock, both, so many days ago,
an instant) with its fields.

**Commands.** `delete`, `meta rename`, `meta delete`, `event attach`, `event
detach`, `event time`, `event date` and `add --time`. Each query and each write
of a verb is an action, so that another process may act in between. `confirm`
is `Ask`, with the end of the input as one of the answers. The verbs that are
one store call each are already actions of Journal.

**Import.** `Export` is `fngr --format=json` of any listing of a journal,
`ByHand` a batch made by hand, `Import` the whole of `runJSON`: the index by
source id, the resolution of each parent, the merge of metadata, AddMany.
Between the reading of the batch and its AddMany, `Elsewhere` deletes and moves
events of the target.

**Filter.** A text is a sequence of symbols: the marks the rules tell apart,
and letters. `Tokenize`, `Unary`, `AndFrom`, `Conjunction` and `CompileFilter`
are the recursive descent, with the set of events each operand selects in place
of its SQL. `Meaning` and `WellFormed` state the grammar's own reading of a
token list: split at `|`, then into operands, then count negations.

**Reads.** `ListSeq`: one query gives the rows of one commit, and the metadata
of each batch comes from another query on another connection, after whatever
others have committed (`Elsewhere`). `Answers` is `buildListQuery` with its
order and limit; ties of `created_at` come in any order. FTS5 is external: its
tokenizer and its phrase and prefix queries are `Words` and `Says`, tuple by
tuple.

**Terminal.** Output is a sequence of items in a buffer, `flushing` while a
flush moves them one at a time to the screen or the pager's pipe. `Restore` is
redirect's restore, `ClosePager` and `WaitPager` the closer, `AwaitAnswer` the
flush before a prompt's read, `Edit` to `LiftBracket` the editor with its
deferred calls in the order they run, `CommandReturned` and `Report` run's last
lines. The pager quits, the disk fills and Ctrl-C comes at any time.

**Listing.** `ListCmd.Run` on Reads and Terminal: a row is yielded, written,
and perhaps waits for the pager, while others commit. The four formats differ
in what frames the rows and in what an error leaves behind.

**Stream.** `Say`, `Show`, `Leave`, `Report`. Terminal implements it with
`seen` the items on the screen above the verdict and `outcome` the exit status
or the verdict printed on standard error.

## What TLC checks

| Run | Instance | What it shows |
|---|---|---|
| JournalTree | 5 ids, batches of 3, from an empty file and from a ring 1, 2 with 3 below it | the loops of Walks give the right answers, the tree view draws each event once, rings never grow, ids never come back |
| JournalMeta | 2 ids, 3 texts, 5 tuples: two authors, a tag, a key, one no search finds | the tables agree, no ring, one author that is never lost, provenance of rows, nothing unfindable is minted |
| JournalBatch | 2 ids, batches of 2, all ParentIDs | **violated**: `Acyclic` |
| Sessions | 2 processes; adds, moves, deletes, edits of text and metadata, calls that fail at every stage; 2 ids | lock holders are current, refinement of Journal, every call returns without the lock |
| SessionsBusy | the same | **violated**: `BusyOnlyWhenLocked` |
| Migrate | any earlier file, 3 openers, 2 deaths, overlapping or not | version never ahead, an open file has the schema; without overlap the version is exact, no open fails, the file gets migrated; with overlap a file that has step 4 keeps an exact version and index |
| MigrateNew | 2 processes, new file | **violated**: `GetsMigrated` |
| Verbs | 1 process; trees, a ring with an event below, a zone with a gap; exports and hand-written batches; 7 ids | consent, `-r`, what was named, the repair of rings, skipped clocks, the other half of a stamp, and imports that keep tree and metadata |
| CommandsDelete | 2 processes, deletes and adds | **violated**: `ChildrenNeedRecursive` |
| CommandsClock | `event time` and `event date` on the day clocks change | **violated**: `TypedOrWarned` |
| Listing | 4 events, two of one `created_at`; batches of 2; buffer of 2, pipe of 1; all search strings of up to 4 symbols over two alphabets; ranges around a change of clocks; limits -1 to 3; one commit by others | search, limit and range select what they mean, batches lose nothing, output is a Stream, nothing is left behind, every run ends |
| Search | the search strings of the tuples in the file | **violated**: `StorableIsFound` |

Bounds. Every one of `MaxId`, `MaxBatch`, `AddLimit`, `MaxExport`,
`MaxCrashes`, `MaxWrites`, `Cap`, `PipeCap`, `DayHours`, `Meanwhile` and
`Stirred` bounds a model and no code; `BatchSize` is the code's 500. Five ids
and batches of three allow a ring of every length up to three inside one batch,
a ring closed by a move after a batch, and a delete of a subtree of depth three
followed by another add. Metadata operations act on each event on its own or on
all events carrying a tuple, so two events show everything one and many can.
Two processes are enough for a stale snapshot, and three openers for a version
read between two others' steps. Four symbols hold a negation before, after and
across another operator, and a key, `=`, a value and a mark; strings of five
symbols are added for `&` and `|` between three terms. Four events
in batches of two put a batch's edge inside every listing, and a buffer of two
in front of a pipe of one blocks a listing before its end. Days of four or six
hours have a first, a last, and a skipped or doubled hour.

In Listing the disk, Ctrl-C, failing reads and other processes disturb the
`Stirred` jobs: each format, paged and not, a prompt, an editor, help, and a
command line that does not parse. Searches, ranges, limits and the requests that
must be refused, these in each format, paged and not, run undisturbed, since what
they check is decided before any of that matters.

Verbs has one process because with two the writes of one come between the reads
and the write of the other, and the properties that compare the two fail:
`ChildrenNeedRecursive` in CommandsDelete, `OtherHalfKept` and `DoneAsNamed`
under the same constants. Verbs, Listing and Search check no deadlock, as their
behaviours end: with an import, or with the exit of the run.

Each property of a passing run also comes with a mutant: an operator commented
`Bug:` in the module, which put in place of the one it follows makes the run
fail.

Fairness. Sessions assumes that a process in a call goes on with it
(`WF_vars(Step(p))`): the driver calls are synchronous and `busy_timeout` is
finite. A process in a call may still die, and a call that does is over.
Migrate assumes that processes keep opening the file, and strongly that one
whose step can run is not kept from it for ever by the turns of the others at
the lock: `busy_timeout` is a wait in line, and a user who is told "database is
locked" tries again. Listing assumes that the process and its pager are
scheduled, that the user answers a prompt and leaves the editor, and that the
pager reads on or quits; nothing makes it quit, and nobody is assumed to stop
committing.

## What the runs found

1. **A batch can close a ring** (JournalBatch). The parent lookup of a record
   sees the records inserted before it, and ParentIndex links come last. A
   record whose ParentID is the id the batch gives to its own child's record
   passes both checks (`event.go:141`, `event.go:267`). From the command line:
   an import whose first record has as `parent_id` the source id of the second,
   and whose second has the next free id of the target. `ParentsAsNamed` in
   Import holds all the same: the link leads to the id that was named.
2. **"database is locked" with nobody holding the lock** (SessionsBusy). A
   deferred transaction that read first is refused at once when another
   process has committed since; `busy_timeout` does not apply. The refusal is
   what keeps `HolderIsCurrent` true.
3. **Two commands creating one file can leave it unusable** (MigrateNew).
   `user_version` is read once. In the run both processes read 0, and one comes
   to its probe for tables after the other has taken steps 1 and 2: it finds
   `events`, takes the file for one from before versions were kept, and stamps
   version 1 over the 2 (`migrate.go:107`). The other gives up its wait for the
   lock, and step 2 fails on its index in every Open from then on. A stamp after
   all six steps does the same without that wait. The number read once has a
   second way to do harm, which is not this run's: a process that has read 3
   runs step 4 after another's step 5 or 6, the version goes back to 4, and step
   5 fails on its column for good. A file that has step 4 is out of reach of both
   (`OverlapHarmless`).
4. **Between the check and the write** (CommandsDelete). A child added while
   `delete` prompts is deleted without `-r`. `event time` and `event date` at
   the same time lose one of the two edits in the same way.
5. **A clock that today skips** (CommandsClock). `event time 2:30` on the day
   whose clocks skip 2:30 first builds that clock on today's date, gets 1:30,
   and splices 1:30 into the event's own day, where it exists: another clock is
   stored than was typed, and nothing warns (`event.go:144`).
6. **A tuple that can be stored and not be searched for** (Search).
   `-m '#a=b'` passes ValidateMeta and is stored; `-S '#a=b'` is an error, as a
   term that opens with a sigil must be a name (`filter.go:229`). The other keys
   of this kind open with `=`, which a `meta` pair of an import can bring: `=a`
   is stored, and `-S '=a=b'` looks for it in the text. `TagViewsAreExact`
   below says that there are no more.

Four more things came up that no property states as a violation. Where the
clocks skip midnight, west of Greenwich, `startOfDay` of that day is 23:00 of
the day before, not the "forward" of its comment (`list.go:184-190`), and a
range that begins or ends there is an hour off. The zone of Listing changes at
another hour, and `RangeIsInclusive` below excludes such zones by name. A pager
that is quit while the listing is being written makes fngr exit with status 1
for EPIPE, where `docs/architecture.md:289-290` and `pager_test.go:168-170` take
early quitting for no failure; Stream allows either. A clock that occurs twice
resolves to its second instant east of Greenwich, where `timefmt.go:451` says
the first. And as the tokenizer keeps `=` and drops `#` and `.`, `-S a=b` also
finds an event whose key is `#a` or `x.a`.

## What is proved

For every value of the constants that satisfies the named assumptions:

| Module | Theorem | Statement |
|---|---|---|
| Journal_proofs | AlwaysConsistent | `Spec => []Consistent(db)`, the inductive invariant |
| | TypeCorrect, TablesAlwaysAgree, OneAuthorAlways, BodyRowsStayMentioned | `Spec => []` TypeOK, TablesAgree, AtMostOneAuthor, BodyRowsMentioned |
| | StaysAcyclic | `SettledSpec => []Acyclic` |
| | IdsNeverComeBack, AuthorsStay, EditsKeepExplicit, NothingUnfindable, NothingOrphaned | `Spec =>` IdsNeverReused, AuthorNeverLost, EditsRespectProvenance, MintsFindable, DeleteTakesSubtree |
| | RingsOnlyShrink | `Consistent(db) /\ [][SettledNext]_db => RingsNeverGrow` |
| | WalksAlwaysExact, TreeAlwaysDrawsEachOnce | `Consistent(db) /\ [][Next]_db => []` WalksExact, TreeDrawsEachOnce |
| Sessions_proofs | InvHolds | `Spec => []Inv`, the inductive invariant |
| | TypeCorrect, HolderAlwaysCurrent | `Spec => []` TypeOK, HolderIsCurrent |
| | SessionsImplementJournal | `Spec => ImplementsJournal` |
| Migrate_proofs | InvHolds | `Spec => []Inv`, the inductive invariant |
| | TypeCorrect, NobodyAhead, CrashesNeverHarm | `Spec => []` TypeOK, NeverAhead, CrashesHarmless |
| | OverlapNeverHarms | `Spec => OverlapHarmless` |
| Terminal_proofs | TerminalImplementsStream | `Spec => ImplementsStream` |
| | PromptShown, NothingStranded | `Spec => []` PromptSeen, TempRemoved |
| Listing_proofs | MetaIsOfOneCommit, EachRowOnce, LimitKeepsNewest, JSONIsFramed | `Spec => []` MetaOfOneCommit, EachOnce, KeepsNewest, Framed |
| | SelectionIsMeant, RefusalsComeFirst | `Spec => []` SelectsAsMeant, RefusedBeforeOutput |
| | TagViewsAreExact | `Spec => []TagViewsExact` |
| | RangeIsInclusive | `MidnightsKept => (Spec => []RangeInclusive)` |
| Commands_proofs | ConsentAlways, DetachesMend | `VerbsSpec =>` ConsentRequired, DetachMends |
| | ParentsLeadAsNamed, CopiesAreFaithful, ExportsComeBack | `VerbsSpec =>` ParentsAsNamed, CopiesKeepMetadata, ExportsImport |
| | ChildrenTakeRecursive, DoneIsNamed, OtherHalfStays | `OneProcess => (VerbsSpec => ...)` ChildrenNeedRecursive, DoneAsNamed, OtherHalfKept |
| | StampsAreTyped | `MidnightsKept /\ TodayHasEveryClock => (VerbsSpec => TypedOrWarned)` |

**The journal.** `Consistent` is the shape of the tables together with
`RowsAgree`: the three tables have the same ids, parents are live, index rows
equal what the tables say, body rows are mentioned by the text, no event has two
authors. None of the invariants it implies is inductive alone. That the index
stays in sync after a rename needs every metadata row to belong to a live event;
that body rows stay mentioned needs the shape; that a delete leaves no dangling
link needs the links to be live before it. JournalOps_proofs has one lemma per
call that it keeps `Consistent` (`AddManyConsistent`, `UpdateConsistent` and so
on), Journal_proofs one per call that describes its result for the action
properties.

`StaysAcyclic` says that no set of live events has all its parents inside
itself. A batch keeps it because a set closed under parents is split into old
events, which have no link into the batch, and new ones, where the parents of
settled records are old and the indexed ones are acyclic by validation.
Reparent keeps it because a new ring would go through the moved event, and then
the chain of the new parent, the smallest set closed upward, would contain it.
`RingsOnlyShrink` is about files that arrive broken: it starts from any
consistent database, whatever rings are in it. A ring is one chain, so that
every event on it has the same chain (`RingIsOneChain`); a new ring would
contain a link the step made, and the argument for Reparent and for batches
above, made for an arbitrary set of events on a ring instead of for all of
them, excludes each (`StepOnTree`).

**The loops.** What the loops of Walks answer is proved for every consistent
file (`WalksAlwaysExact`, `TreeAlwaysDrawsEachOnce`). A recursive function has
to exist before anything can be said of it: `LoopExists` gives one for every
loop, a tail call being a step to the next state. `LoopInduction` carries an
invariant along it, by the finite set of what is left to do; the library's
orderings of finite sets are well-founded without a predicate as parameter. Both
are at the end of JournalOps_proofs, since the tokenizer and the parser are
loops too.

- `MoveWalk`: the events seen are a prefix of the chain, each with its parent
  among them but the last (`Way` in `MoveWalkAnswers`). Where the walk stops at
  one seen before, that one is on a ring.
- `SubtreeRows`: the rows have all their chains lead to the root
  (`SubtreeRowsFound`).
- `IndexWalk`: the records coloured have links among themselves and no ring
  (`Sound`), and those of the walk under way have no ring unless it closes now.
  Two such sets together have none (`AcycJoins`).
- `Tree`: `DrawWay` says what is drawn and what is still to draw. The depths to
  come never increase, and a line to come can be put below its parent, past only
  deeper lines. All that hangs below the roots and the lines drawn comes before
  the sweep begins, so that what the sweep draws climbs to no root, and so to a
  ring (`ClimbMeetsRing`).

The assumptions: `TagsIn` yields no author and nothing unfindable (which is how
`parse.BodyTags` forms its tuples), the empty text mentions nothing, and the
nil values differ from real ones.

**The processes.** Any finite number of them, making any calls
(`Requests \subseteq Calls`). `Inv` is `HolderIsCurrent` with three things it
needs. A reader that nobody has overtaken is on the newest commit
(`ReaderIsCurrent`), for it may be the next holder. Every snapshot is
`Consistent` (`Data`), which is the first part's lemmas used once more. And the
ids left are enough for every batch under way (`RoomForAdds`), which is the
model's bound on adds and no claim about the code. The step that needs an
argument is a commit: it overtakes every other reader, so that their snapshots
are stale, unless it is a rename or a removal of a tuple no event carries, which
touches no row and overtakes nobody; `UntouchedIsUnchanged` shows that it leaves
the database as it was. With `Inv` a commit is the same call on the newest
commit, hence a step of Journal (`CallIsStep`), and every other action leaves
`db` alone. So whatever the theorems of Journal_proofs say of `Spec` holds of a
file that any number of processes share.

**The migrations.** Any number of openers and crashes. `Inv` adds to
`NeverAhead` what a pass may believe of the file (`Known`: every step up to its
`current` has been taken) and what holds until two passes overlap (`Alone`: the
version is truthful, and the one pass under way knows it exactly).
`OverlapHarmless` is about every behaviour on a file that begins at version 4 or
later, and has an invariant of its own, `FromFour`: no pass probes or stamps, and
each believes in a version between 4 and the file's. So a step that a stale pass
takes is 5, which schema 4 alone lets run, or 6, which leaves a file that has it
as it was; step 4, which would take the index and the version back, is behind
all of them.

**A run.** Any requests, journals, sizes of batch, buffer and pipe, and any
number of commits by others (`MaxWrites`).

That a run is a Stream rests on what is where. `PagerInv`: the pager, where the
buffer leads and whether the pipe is open depend on each other and on how far
the run is, and nobody returns from a command before its pager was waited for.
`VerdictInv`: a run is past a flush only with an empty buffer or a failed one,
and its verdict comes after the last. `ChainInv`: what was written is what was
shown, then what the pipe holds, then what the buffer holds, but for what a
pager that quit, or a kill, took with it. Every step of Terminal then moves an
item along this chain, which Stream sees when it reaches the screen, or is a
stutter; that no failure ends in status 0 is read off the three at `Report` and
`Exit`. `PromptSeen` and `TempRemoved` have an invariant each: a prompt that
waits is on the screen, lost to an error, or the buffer's one item with a flush
at work (`PromptInv`); while the editor's file exists the signals are ignored
and its removal is still to come (`EditorInv`).

That a listing is right rests on five more. `KindInv` and `WayInv`: where each
kind and format of run can be, and that one which goes on without an error has
read its query to the end. `PickInv`: what was told, what the tree view
collected, what waits in the batch and what the query has still to give are
apart, each once, and together one admissible answer to the query. At the end
the last three are empty, and what was told is the answer: `EachRowOnce` and
`LimitKeepsNewest`. `MetaInv`: what waits anywhere fits one of the commits since
the query, of which the newest is the database the next batch is read from.
`FrameInv`: where a JSON array stands between its brackets.

`RangeIsInclusive` needs time as well, for any zone whose clocks change once
(Text_proofs). `MidnightsKept` says that no midnight is skipped or comes
twice, nor lies nearer to a skipped clock than `time.Date` may move that clock.
Where a zone skips a midnight the statement is false: that is the remark on
`startOfDay` above.

`SelectionIsMeant` and `RefusalsComeFirst` need what an expression becomes, for
every text there is (Text_proofs). Negations recurse to a term: `BangsEnd` says
where, `UnaryIs` with what. The loops of parseAnd and parseOr keep `AndState` and
`OrState`: all tokens so far stand where the grammar lets them (`Stands`), the
last of them is a term, and what was found is what the terms of this
conjunction, or the alternatives up to here, ask for. A loop that fails has met
a token that cannot stand where it is (`AndTurn`, `OrTurn`); one that ends has
met none. So the parser refuses exactly what is not `WellFormed`, and finds
`Meaning` in all else (`CompileFilterIs`). In a run, `RefusalInv` keeps a request
that has to be refused from everything but the way out, and `CalmInv` keeps any
other, if nobody disturbs it, from every error.

`TagViewsAreExact` adds what the index makes of a term. What is typed for a tuple
is its spelling up to the first delimiter, hence one token (`OneTermIs`), and the
`=` after its key sends it to the metadata column (`BareTermIs`). Without its
star, if it has one, it ends where a word of the tuple's text does, so that its
words are the first words of that text (`WordsOfPrefix`, `SaysItself`): the tuple
is found. If there is no mark in it, it is a single word, and whatever is found
has this word in one of its tuples. Keys and values may be of any symbols, but
for the first of a key. For a job that nobody disturbs, `StillInv` has one
database from beginning to end.

The assumptions: events are numbered and dated in the journals a run finds, and
indexed, each with a row of its own (`OpeningsAssumption`; AlwaysConsistent is
the proof that journals are so), a limit is a number, a bound a value that was
parsed and a search a sequence of symbols (`RequestAssumption`), keys and values
are spelled as such sequences (`CharsAssumption`), and the sizes are positive.

**The verbs.** Commands_proofs is about `VerbsSpec`, the verbs beside exports
and imports. Three invariants hold for any number of processes: `FrameInv` has
the shape of their state, `ActsInv` which verbs can be at which query, and
`RowsInv` the events table through every write. On them rest `ConsentInv`, where
a prompting verb gets to its write only with consent, and `DetachesMend`.

`StampsAreTyped` follows from `StampInv`: whatever is about to be stored shows
what was typed, or the warning was given. It holds on days on which no clock is
skipped (`TodayHasEveryClock`), in zones that keep their midnights. Finding 5 is
the complement of the first hypothesis: on any other day the typed clock is lost
before it is spliced, and the theorem says that in these zones it is lost in no
other way.

`ChildrenTakeRecursive`, `DoneIsNamed` and `OtherHalfStays` follow from
`FreshInv`: what a verb has read is still so when it writes. With two processes
it is not (finding 4), and `OneProcess` is the hypothesis that says so. It makes
no claim about fngr, which has no such lock; it says that the gap between read
and write is the only thing that can go wrong. A verb's own steps leave the
database alone up to its one write, and that write is the one it counted for.

**Imports.** What an export carries is its journal's (`BatchInv`), whatever the
target is and whatever others write between the reading of the batch and
AddMany. A record's parent is found in an index with the source ids of the whole
batch, so that a link leads to the record's place in it, and AddMany hands out
ids in that order (`ParentsLeadAsNamed`). For `ExportsComeBack` each of
AddMany's refusals is excluded: titles and tuples passed them once, ids that
were apart stay apart, and an export of events with their parents has no ring,
as its journal has none. That is `JournalsAssumption`: exports are from journals
the verbs make, in the sense Journal_proofs proves, so that a file with a ring,
which finding 1 can produce, is left out there. The journals the verbs work in
(`Openings`) are any well-formed ones, rings included. A behaviour ends with its
import, so that an import may come after any writes of the verbs and nothing
comes after it.

The assumptions: a line of `Lines` or `Meanwhile` names hours of the day
(`LinesAssumption`, `MeanwhileAssumption`), an author flag names authors
(`FlagsAssumption`), batches by hand are sequences (`BatchesAssumption`), and
there is a title to add (`TitleAssumption`).

Only model-checked, and why. Every safety property of the passing runs is
proved, some under a hypothesis named above. Liveness and the ENABLED in its fairness are out of the provers' reach:
`CallsEnd`, `AloneGetsMigrated` and `RunEnds`.

## Not modelled

- `ListMeta`, which only counts, and the text of every output: Markdown, the
  layout of lines, the escaping of control characters, wording of errors.
- Flags and their help, dispatch, and the discovery of the file's path.
- Decoding of JSON, and the cap of 10 000 records on an import.
- Which of arguments, standard input and editor supplies a text
  (`resolveBody`), and how a text splits into title and body. An editor left
  with an empty file, after which `add` says "cancelled" on standard error and
  ends with status 0 and no reply, is not a path of Terminal, nor is a child
  that goes on after fngr has died.
- Half a call on the store. What follows the first write of a transaction is one
  step with its commit or rollback, so that no model has a batch whose first
  records are in and whose next has failed.
- The regular expressions for tags in a text: `TagsIn` is any function from
  texts to tags.
- Layouts of dates, months and the formats of display; Clocks has values that
  are already parsed.
- What migrations 3 to 5 do to the text of single rows.
- Phrases of several words across tuples. FTS5 has all tuples of an event in one
  column, so that a term with a mark in it, which becomes such a phrase, can also
  match the end of one tuple and the beginning of the next, in the order they
  were added in or, after an edit, sorted. `TagViewsExact` says nothing of what
  else such terms find, and that they find their own tuple is not affected.
- SQLite itself: transactions, FTS5 and the cascade are modelled as far as the
  code relies on them. A chain of events deeper than SQLite's limit on nested
  triggers (`mutate.go:187`) cannot be deleted from its root; the bounds here
  are far below that limit.
