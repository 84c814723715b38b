# A specification of PyTeXML

LaTeXAI forks the LaTeXML converter and adds `src/python/PyTeXML`, a Python program that *prepares* a TeX paper:
it reads the author's files the way TeX would, executes the little it understands, retains everything else
verbatim, and publishes one self-contained `master.tex` with a manifest and an event journal.  This directory is a
TLA+ development of that program.  The Perl converter, the vendored Python and the PowerShell drivers are other
people's programs or test drivers and are left out (see *What is not modelled*).

All source paths below are relative to `src/python/PyTeXML/src/`; `PROJECT.json` maps every definition that models
code to its lines, and lists components, runs, mutants, findings, hazards and theorems.

## 1. The system

### The central question

PyTeXML does not run TeX.  It executes assignments and macros it knows, and *retains* source it cannot or may not
execute.  Everything rests on never claiming more than is known: after source was retained, a register, a meaning
or a category code may be whatever that source made it, inside the current group or globally.  The stores therefore
carry an explicit doubt (`uncertain` entries that raise when read), and doubt has to obey TeX's grouping exactly as
values do.  The second half of the program is about failures: a command that cannot be completed is undone, its
failure is kept as evidence, and the output of a failed attempt must never damage the output of a good one.

### Components

| component | state it keeps | operations | who calls it |
|---|---|---|---|
| save journals (`engine/parameters.py`) | current values, one journal per open group | push, pop, assign, read, invalidate | the reader context, primitives |
| token registers (`engine/token_registers.py`) | the same and `default_uncertain` | the same, invalidation by name or of the whole store | the reader context |
| state cells (`engine/state_cells.py`) | the same and writes that save nothing | the same, `update_current` | content primitives |
| scoped reading context (`reading/context.py`, `reading/effects.py`, `engine/transactions.py`) | meanings, category table, namespace barriers, `_scope_stack`, the stores above | push_scope, pop_scope, record_meaning, assignments, three invalidations, summaries of unexecuted bodies | primitives' handlers, the session |
| dispatcher (`reading/dispatcher.py`) | groups, conditional stack, input stack, skipped branches | next_item, resume, rollback | the session |
| TeX's mouth (`reading/tex_reader.py`) | physical lines, cursor, reading state N/M/S, pushback | next token, checkpoint, restore, raw handoff | dispatcher, expansion |
| raw scanners (`reading/*_scanner.py`) | position, depth, partial result | one token at a time | dispatcher, primitives |
| expansion (`engine/expansion.py`, `engine/programs.py`) | expansion stack, remaining budget, nested programs | expand, `\expandafter`, `\noexpand`, evaluate, `\scantokens` | dispatcher |
| input streams (`engine/read_streams.py`) | open streams, one sticky doubt | open, read, close | primitives |
| load history (`reading/loads.py`, `reading/options.py`, `reading/configuration.py`) | load markers (ordinary meanings), option scopes, named recipes | request, declare, process, apply | primitives, session |
| integers and dimensions (`engine/dimensions.py`, `engine/integers.py`) | registers, `\mag` | scan, assign, advance, multiply, divide, print | primitives |
| content construction (`engine/content.py`) | stack of open lists, box registers, node budget | character, paragraph, box, math, alignment, close | the content builder |
| reading units (`reading/units.py`) | units, retained evidence, uncertainty causes | register, decide, retain | dispatcher, manifest |
| checkpoints (`engine/checkpoints.py`, `prepare/checkpoints.py`) | snapshots of the participants of an attempt | commit, rollback | session, recovery |
| recovery coordinator (`prepare/recovery.py`) | evidence of committed failures, item serial | begin, recover, restore_committed | session, pipeline |
| preparation session (`prepare/session.py`) | input frames, pending pieces, the attempt of the command in progress | traverse, enter, leave, retain, resume | pipeline |
| materialization (`prepare/bibliography.py`, `assets.py`, `preservation.py`, ...) | files and literals of the payload | bibliography, images, listings, retained sources | pipeline |
| emission and locations (`reading/spans.py`, `coverage.py`, `edit_map.py`, `prepare/locations.py`, `provenance.py`) | pieces with their maps, tombstones, ledger | query, copy, edit, account, project | session, pipeline |
| publication (`prepare/publication.py`) | staging workspaces, the paths of retained journals, what a publish() has moved | enter, publish, failure, exit | pipeline |
| event journal (`event_log.py`) | per-run sequence, buffer, poison; the JSONL file | emit, flush, append | everything that reports |

They interact by synchronous calls on one thread.  Concurrency enters at the edges: several runs append to one
event journal (locks and several processes), the process may die between any two filesystem operations, and
`KeyboardInterrupt` may arrive at any bytecode.  Inside a run the hard part is *sequence*: groups, attempts and
inputs nest, each has a stack of saved state, and operations arrive in any order.

The document's flow: the session asks the dispatcher for an item; a command gets an attempt (checkpoint); its
handler changes the scoped context; success commits, failure rolls both participants back, re-establishes the
evidence of every committed failure and appends its own.  An input that cannot be read further is retained whole and
its caller resumes in the language state it had at the handoff.  When reading has ended, bibliographies and assets are
materialized, the payload is staged, and publication replaces the output directory by renames, carrying the journals
with it.

### What makes each component correct

* Stores and context: whatever is answered is what TeX would answer, now and after any number of group ends; one
  journal per open group in every store.
* Attempts and recovery: a failed command leaves nothing behind but its evidence; evidence is never lost or
  duplicated; a program that is unavailable leaves doubt about everything it could have redefined.
* Publication: all outputs change together or not at all, the last good payload is never deleted, payload and
  manifest stay together, journals are never lost.
* Event journal: append-only, per run a prefix of its events in order, confirmed means written, a failed sink is
  never retried.
* Dispatcher: every token is executed, skipped or captured as TeX's conditionals decide across all inputs; the stacks
  hold what the prepared document leaves open, also after an input was retained; no token is lost or published twice;
  reading stops only where it must.
* Mouth, scanners, streams: the tokens are TeX's, also after pushback, restored checkpoints and raw handoffs.
* Expansion and programs: what is still to be read is TeX's input; a program is published whole or not at all; one
  budget bounds all work, the work that is undone included.
* Loads, options, configuration: what is answered about a package is what LaTeX has, or no answer.
* Arithmetic: TeX's results, and refused where TeX reports an error.
* Content: each command's nodes stand once, in the list its groups and mode say.
* The package: it reads as the paper does, and the manifest says what it lost; what is said about an interval of
  the source is where its characters went.

The hazards behind these, each at its line, are in `PROJECT.json`.

## 2. Modules

| module | models | state ↔ code |
|---|---|---|
| `SaveJournal` | what the scoped stores share, as operators on a store `[values, scopes]` | `values` is the dictionary, `scopes[i]` the journal of group *i*; a missing item is `NotSaved`, a saved `None` is `Absent`, a record with `uncertain` set is `Uncertain` |
| `IntegerParameters` | `engine/parameters.py` and the reads of the two register primitives | `ints` is the store; `Push`, `Pop`, `Assign`, `Invalidate` are its methods |
| `TokenRegisters` | `engine/token_registers.py` | `toks`, `defaultUncertain`; invalidation split into its three paths |
| `StateCells` | `engine/state_cells.py` as box registers use it | `cells`, `initialUncertain`; `owner` is TeX's eq_level, not in the program |
| `ReaderContext` | `reading/context.py`, `engine/transactions.py` | one action per operation, with the code's names; `snapshots` is `_scope_stack` |
| `Effects` | `reading/effects.py`, `reading/effect_summary.py` over `ReaderContext` | a body is a list of tokens, the summary what one reading of it finds |
| `ReadStreams` | `engine/read_streams.py` and its primitives | `streams`, `uncertain`; a file is a list of characters |
| `Mouth`, `TeXLines` | `reading/tex_reader.py`; `TeXLines` is TeX's reading of a whole file | `mouth` holds the cursor's fields, `pending` the pushback; one call of `next_event` is one step |
| `Scanners` | the raw scanners | one record `scan`; one token is one step |
| `Expansion`, `TexInput` | `engine/expansion.py`, `engine/macro_arguments.py`; `TexInput` is TeX's expansion as rewriting | `cursor` is the ExpansionCursor, `ahead` TeX's input |
| `Programs` | `engine/programs.py`, `\scantokens`, inserted tokens | `hosts` is the document's dispatcher and its nested children, `fuel` the budgets |
| `Packages`, `Configuration` | `reading/loads.py`, `reading/options.py`, the session's queue; `reading/configuration.py` | `markers` and `forwarded` ↔ meanings and `forwarded_options`; `stack` is the explicit stack of recipes being applied |
| `Arithmetic` | `engine/dimensions.py`, `engine/integers.py`, `engine/primitives/registers.py` | `registers`, `mag`; `true` is tex.web's computation |
| `Content` | `engine/content.py`, `engine/format_builder.py` and its primitives | `build` is ContentState with the dispatcher's groups |
| `Recovery` | checkpoints, recovery coordinator and the control of the session | `language` and `prep` are the two participants, `attempts` the open checkpoints; `serial`, `assumptions`, `committed`, `lastUnit` lie outside every checkpoint as in the code |
| `Traversal`, `Assembly`, `PackageReading` | `prepare/session.py` over whole papers; the stages behind it; an abstract TeX that reads paper and package | `session` is the PreparationSession and its manifest, `package` the staging directory |
| `Dispatcher`, `SelectedText` | `reading/dispatcher.py`, the branch scanners and the traversal around them; `SelectedText` states TeX's conditionals of a whole text | `groups`, `conditionals` are the dispatcher's stacks, `inputs` its parents, `mode` its pending skip, `published` the pieces |
| `Spans`, `Coverage`, `Locations` | `reading/spans.py`; `reading/coverage.py`; `reading/edit_map.py` with `prepare/locations.py` and the ledger | `answer` is a query, `pieces` the emitted pieces with their EditMaps and the commands they replace |
| `Publication`, `Delivery` | `prepare/publication.py`, `prepare/pipeline.py`; `Delivery` is the abstract promise | `pc` names the stage of `preprocess_paper`; `undo` holds publish()'s three lists; a rename and its recording are two steps |
| `EventLog` | `event_log.py` | `run[r]` is `_Run`, `file` and `torn` the JSONL file; deciding to flush and appending are two steps |
| `Papers`, `MC...` | inputs and instances for TLC | |
| `...Proofs` | theorems and their lemmas (section 4) | |

**TeX beside the reader.**  In the store models a variable `truth` (`trueInts`, `trueBoxes`, `trueMarkers`, ...) is
*not* in the program: it is TeX's own state, a complete table per group level, moved by the same events.  An
assignment moves it as TeX does.  Retained source moves it *nondeterministically*: any value may have been written to
any key that the effect summary names, locally, or globally if the summary allows it (`UnknownWrites`).  Correctness
(`Sound`) then says that every read the store would answer, at the current depth or after any number of further group
ends, answers what `truth` has at that level.  This is the meaning of "uncertain" in the code, made checkable.

**A reference beside each algorithm.**  `TeXLines`, `TexInput`, `SelectedText` and the abstract TeX of
`PackageReading` say of a whole input at once what the incremental code computes step by step; `Arithmetic` computes
with tex.web's two machine words what the code does with exact fractions.  They share no operator with the model they
check.

**Composition.**  `SaveJournal` is instantiated by all stores, `Packages` and `Configuration`; `ReaderContext`
composes parameters, meanings, category tables and barriers under one group stack, with `\globaldefs` read by every
scope decision, and `Effects` adds bodies that define and call each other.  `Recovery` abstracts the language state to
the unit that established each definition, the assumptions in force and the doubt about loads.  `Publication` embeds
the journal's life as far as it lies in the directory that is replaced; `EventLog` refines what one append does.
`Publication` implements `Delivery` under the refinement mapping in `Promise`: between attempts the two outputs show
one payload, and an attempt either delivers its own to both or leaves both alone.

**A text and what becomes of it.**  `Dispatcher` does not choose its source in advance: reading a token reveals it, so
one run covers every text up to its bound.  What the document then consists of (`Stream`) is the tokens behind the
published pieces, in order, over all inputs that were not retained; the properties compare it with `SelectedText`.
In `Assembly` a piece of the package is the words it holds, with the source they come from, and a loss is a request
with its place; a complete preparation may lose only what a stored definition asks for (`prepare/manifest.py:237`).

**What is abstracted.**  Values, names, payloads and records are model values or small numbers.  Token text, messages
and file contents are left out.  A command's effect on the language state is a definition (`Define`), on the
preparation state a dependency row (`Edge`) or a requirement (`Require`).  In `Publication` a directory is the attempt
whose payload and whose manifest it holds and its two journals.  In `Dispatcher` a predicate is a truth already
evaluated, an `\ifcase` value or unknown; every other command has no effect on the stacks and is left out; the second,
agreeing scan of a capture is left out, since without verbatim text it sees the same markers.  Windows' bounded
retries in `_replace` are one step that succeeds or fails.  `Arithmetic` takes the sizes of TeX's integers and scaled
points as constants, because TLC's own have 32 bits.

## 3. Runs

Bounds are the constants of the `.cfg` files; each `Max...` is a guard in the module that uses it.  Components that do
not interact share a run: an MC module instantiates several, and its variable `part` says which of them a behaviour is
about while the others stay as they began.

| run | parts and instance | what it shows |
|---|---|---|
| `execution` | 2 parameters (one preset), 2 values, depth 2, no claimed initial state; 4 macro languages with all short sources; 14 programs that nest, fail, rescan and call themselves | `ReadsAreTrue`, `ExpandsAsTeX`, `AllOrNothing`, `OriginsDistinct`, `SharedBudget`, and `AllEnds` (liveness) |
| `reading` | 2 token registers, one box two deep with its slots, 2 streams over 2 files, all inputs of 5 to 6 tokens for 7 scanners, short files under 3 category tables | `ReadsAreTrue`, `CellsAreTrue`, `StreamsAreTrue`, `ScansFind`, `ReadsAsTeX` |
| `reader_context` | one name covered by a barrier, 3 settings of `\globaldefs`, one character, depth 2; 16 bodies that define, call and depend on each other | `ScopedTypeOK`, `MeaningsAreTrue`, `ScopesAreTrue` |
| `evidence` | 4 commands under an enclosing attempt, or 3 commands in 2 nested inputs; 2 runs of 3 events with a buffer of 2 (alike, so symmetric); 2 packages with one option; 2 recipes; six families of small papers | `FailuresSurvive`, `UndoneIsUndone`, `RequirementsKept`, `JournalIsTrue`, `AppendOnly`, `PackagesAreTrue`, `OptionsAsTeX`, `ConfigurationsAreTrue`, `PackageReadsAsPaper` |
| `publication` | both outputs, up to 2 attempts from an empty or an earlier release, failures, crashes, interrupts; arithmetic at the ends of a small range; 3 characters queried, copied, edited, replaced; 11 documents of a content build | `Delivers` (refinement), `GoodSurvives`, `WholePackages`, `HistoryIsTrue`, `NumbersAsTeX`, `SourceIsAccounted`, `ContentIsTrue` |
| `dispatcher` | all texts of 5 tokens in up to 3 inputs, two kinds of groups, one value of `\ifcase` | `SelectedAsTeX`, `StopsForCause`, `StructureIsTrue`, `NothingLost` |
| `integer_initex`, `held_tokens`, `rescanned_programs`, `recovery_retained`, `publication_interrupted`, `publication_failures` | the smallest instance of each | expected violations, section 5 |

Why these bounds suffice to be interesting:

* *Depth 2* has a group in which to save, one outside it whose journal a global operation must rewrite, and the base
  level.  Depth 3 adds journals that behave like the second.  Two keys are needed because journals are per key, two
  values because staleness needs an old and a new one.  For every store with a theorem the proof removes the bound.
* *`\globaldefs`* takes both signs and zero; its own doubt makes the scope of definitions unknown, which needs at least
  one open group, two to make "every enclosing journal" differ from "the last".
* *Four commands* under an enclosing attempt: one that defines, one that fails as a program, a rollback of both, and one that
  redefines.  Two items let two failures compete for an identity; two frames let an inner input be retained
  inside an outer one.
* *Two attempts* on top of nothing or of an earlier release give a first attempt, a rerun, and a rerun after a failed or
  crashed first attempt.  The five renames of a publish with a secondary output all occur, each may fail, and each
  rename of the rollback may fail.
* *Buffer of two, three events*: batches of one and of two, an overflow flush, a batch cut at every point and mid-record.
* *Five tokens in three inputs*, two kinds of groups, `\ifcase` with value 1: enough for an opener, a part that is skipped,
  a part that is executed, a nested conditional inside either, a group or conditional opened in a caller and closed in an
  input that is then retained, an input retained inside one that goes on, and every refusal of a capture.  An `\ifcase`
  with value 0 begins in the state that value 1 reaches at its first `\or`.
* *Scanner inputs* of 5 to 6 tokens over the tokens each scanner tells apart: every bracket or brace crossing, a
  terminator that overlaps itself (`aab`, `abab`, `abaab`), a parameter number at its limit, a number at its maximum; for
  commands also stars before and behind empty and other groups, and a bracket that is not of category other.
* *Files* of up to 6 characters: `^^` notation whose result is an escape, a superscript, a space or a line end, and
  which is looked at again; blank lines; a file that does not end in a line end; a category or an `\endlinechar` that
  changes on the way, also behind characters that were looked at.  After a change, or a raw extent, the rest of the file is
  compared with what TeX reads from there (`since`), so that an assignment that came too late or too early shows.
* *Budgets* of 9 to 17 tokens are small enough to run out in the middle of every construct of the four languages.
* *Papers* are single files of up to three or four requests with the few files they can name, in families that concern
  inputs, packages, images, bibliographies, listings, and names that collide; the sources may be unreadable, ambiguous,
  cut by a boundary, or asked for again.
* Category codes are interchangeable in `reader_context` and declared symmetric; no property there is temporal.

Deadlock is not checked where the system really stops: reading ends, attempts run out, processes die, inputs are used
up.  `integer_initex` and the store parts have no end and need no such exception.

**Fairness and liveness.**  `AllEnds` is the one liveness property: every expansion, also of macros that call
themselves and of readings that are restored and begun again, ends; and so does every program, nested or rescanned.
The fairness is the code's: `ProgramsFair` is weak fairness of a program's own steps, for `evaluate` runs to completion
on one thread; `Reading` is weak fairness of `Expand`, for `next_expanded` loops until it has a token or an error.
`Reading` is written out instead of `WF_`, because TLC would evaluate `ENABLED Expand` by expanding every macro again; `Expand`
is enabled exactly while the cursor is neither done nor failed.  Nothing is assumed of the environment: a checkpoint, a
pushback or another start may or may not come.  What makes the property true is that no restoration refunds the budget
(its mutant refunds it).  All other properties are safety properties under `Init /\ [][Next]_vars`.

Every property of a passing run has a mutant, a plausible bug in a mapped definition, under which TLC reports the
property violated.  The mutated forms stand before the definitions they replace.

## 4. Proofs

Seven modules of theorems; four of them rest on the lemmas of an eighth.  All hold for every value of the constants, under the
named assumptions of the modules, which TLC evaluates in the runs.

**The lemmas of the stores** (`SaveJournalProofs`): each operation of `SaveJournal` keeps the shape of a store
(`PushedType`, `PoppedType`, `AssignedType`, `DoubtedType`, `MarkedEntries`) and, key by key, keeps a store sound
(`PushedSound`, `PoppedSound`, `AssignedSound`, and the lemmas for doubted, saved and untouched keys).

| theorem | states | run |
|---|---|---|
| `IntegerParametersProofs!TypeStaysOK`, `ReadsStayTrue` | `Spec => []TypeOK`; `~Initex` and `Spec => []ReadsAreTrue` | `execution` |
| `RegistersProofs!TypeStaysOK`, `ReadsStayTrue` | the same of the token registers, with or without a claimed initial state | `reading` |
| `RegistersProofs!CellsStayTyped`, `SlotsStayShared`, `CellsStayTrue` | box registers never answer with a box that TeX has used up, resized or replaced | `reading` |
| `ReaderContextProofs!ScopesStayAligned`, `MeaningsStayTrue`, `ScopesStayTrue` | meanings, `\globaldefs` and category codes that are claimed are TeX's | `reader_context` |
| `EvidenceProofs!LogStaysTyped`, `JournalStaysTrue`, `HistoryStands` | the journal holds each run's first events in order and all that was confirmed; the action property `AppendOnly` | `evidence` |
| `EvidenceProofs!FailuresStay`, `UndoneStaysUndone` | committed failures stay in force, nothing else of a rolled back command does | `evidence` |
| `PublicationProofs!TypeStaysOK`, `GoodStaysSafe`, `PackagesStayWhole`, `DeliversAll` | the last good payload survives, payload and manifest are of one attempt, and `Publication` implements `Delivery` | `publication` |
| `PublicationProofs!HistoryStaysTrue` | every event written stays in a journal, each journal in the order of writing, and the last event tells the truth about the payload | `publication` |
| `PackagesProofs!PackagesStayTrue` | `LoadsSpec => []PackagesAreTrue`: answers about packages and their options are TeX's, but of the names in `missed` | `evidence` |
| `DispatcherProofs!DispatcherType`, `DispatcherSelects`, `DispatcherStops`, `DispatcherStructure`, `DispatcherLosesNothing` | every token is published once, in its place, with the fate TeX gives it; the stacks are what the document leaves open; reading stops for a cause | `dispatcher` |

*Stores.*  "The current value is right or in doubt" is not inductive: a group end brings back journal entries that were
saved long ago.  `Sound` strengthens it to *every level at once*: for level *i*, the first journal at or above *i*
that holds an entry supplies what will be read when *i - 1* groups remain, and that entry must be honest about
`truth[i]`.  `TypeOK` with it is inductive.  A push adds a level that reads the current values; a pop removes
one and moves its entries down without changing which entry supplies the outer levels; a local write saves the old
entry once, so outer levels keep their supplier; a global write erases the key from every journal, so every level reads
the new value; an invalidation doubts the current entry (local) or all entries (global) of the keys it visits.  A
key it does not visit has no entry to be wrong about: that is where `~Initex` is used for the integer parameters, for which
the property is false otherwise (finding 1), and where the token registers' `default_uncertain` and the exemption
`missed` are used.

*State cells.*  A write that saves nothing changes the slot the current group sees, whichever group filled it, so
soundness needs to know which levels share a slot.  `SlotsAreShared` says that two levels share one in TeX
(`owner`, its eq_level) exactly when no journal between them saved the register; it is inductive with the types, and with it
soundness is.  It is checked by TLC as a part of `TypesOK`.

*Reading context.*  Meanings depend on `\globaldefs`, which depends on its own doubt, and the category tables are
snapshots rather than journals; the three are one induction (`Typed /\ Truthful`).  The scope of a definition is
claimed only if the parameter is established, hence TeX's (`ScopeAgrees`); a scope in doubt writes the current
meaning and doubts every saved one; a barrier raised in a group is in every snapshot when its writes may be global.

*Event journal.*  `JournalIsTrue` is strengthened by `JournalStays`: what is pending belongs to its run and continues the file,
a poisoned run has nothing more to write, nothing emitted is dropped before the run dies.  Each append is then a prefix of
the pending records behind the file, and a confirmation comes only with the whole of them.

*Recovery.*  That the present state keeps the evidence is not inductive, for a rollback restores an older state.
`RecoveryIsSound` says of every open attempt what `Moment` says could be known when it began: every definition, row
and frame it saved is of commands not undone since, every assumption and unit it saved existed, and among older
attempts moments are older (`AttemptsStand`).  Restoring any of them and re-establishing the committed failures is then
sound.  The conjunct of `UndoneIsUndone` on doubt holds where no input is retained whole; finding 2 is why.

*Publication.*  `PromiseIsKept` says where the old and the new payload of each target are, from the order of the renames
(`RenamesInOrder`) and from what has been recorded or just happened: the new one is staged until it is committed
(`NewIsStaged`), the old one is in place unless it was displaced, then it is in its workspace (`OldIsInPlace`, `OldIsHeld`).
After a crash, an interrupt or a failed rollback (`stranded`) `Delivery` promises nothing of the outputs until the next
delivery.  The refinement has one step per action: `Start` is `Delivery`'s `Begin`, the `Record` of the last rename its
`Deliver`, `Exit` its `End`, a crash, an interrupt or a failed rollback its `Strand`, every other step a stutter.

*Journals of publication.*  The journal is a file in the directories that `publish()` renames, so where it is at a
moment decides whether an append goes to the history or beside it.  `HistoryStays` says that: the live journal is at its recorded
path, but for a rename that has happened and is not recorded yet (`Home`, `HomeIsKnown`); it leaves the displaced
directory once, before the commit, and comes back before the old directory does (`CarriedOnce`); every event is in the
live journal or in a directory left behind (`JournalIsLive`).  That no event is written twice, and so that "in the order of
writing" is kept by an append, follows from what an attempt can have said at each step (`SaidSoFar`).  `LastIsTrue` relates the
last event to the last good payload; with `PromiseIsKept`, which knows where that payload is, it gives
`JournalTellsTruth`.  An interrupt can lose the journal with the workspace, so the second half is claimed of the
others only.

*Packages.*  A load sets a marker globally, but source may `\let` one in any group, and retained source can undo a local
one, load the name itself, or do neither.  So markers are followed one by one and at every level (`Honestly`, the
`SoundAt` of the stores for each name but the missed ones): saved entries count as much as the present meaning.  Retained
source in which no load is visible leaves a marker that was absent at a level absent there, and puts every set entry of
every journal in doubt; with a load in sight everything absent is in doubt.  A name that retained source may load itself
is either in doubt in every entry or in `missed`.  A package that is retained whole takes the markers of its handoff back,
which are of the depth it was entered at and hold its name globally (`HandoffOK`); the groups open now include those of
the handoff (`FramesOK`).  The theorem has no hypothesis: local markers and the group ends behind them are part of it.

*Dispatcher.*  The reference reads a whole text; the dispatcher has two stacks, a pending skip and the pieces published
so far.  The first part of `DispatcherProofs` is about texts only: how the conditionals, groups and branches of a text
change when one more token follows it.  What a text leaves open is a stack of positions (`IsStack`), an opener pushes, a
closer pops, and no later token changes the fate of an earlier one.  `Reached` then places the pieces: each was read
from an input that exists, open inputs nest, and the command that entered each is the last thing its caller has read.  `Structure`
says that the stacks and the scan stand for the text the pieces spell: each frame is an open conditional with the
alternative and the case count TeX gives it, each open group was executed, a skip began where a branch ends, and
the branches of a capture are those of the conditional it began at.  Each action is then one more token of a text.
Retaining an input replaces its pieces by one: the stacks must be those of the text before its command, which
`HandedSound` says of the handoff.  `NothingLost` has an invariant of its own (`Pieces`): the pieces of each
input are its tokens up to the cursor, in order, and an input withdrawn with its caller owes nothing.

The strengthenings were checked by TLC before they were proved: `PromiseIsKept` and `HistoryStays` with both outputs and two
attempts and with one output and three, `RecoveryIsSound` on the shapes of `evidence` and on one with an enclosing attempt
around inputs; the first version of each had counterexamples there, which its present conjuncts answer.

Assumptions: `SentinelsDiffer`, `ParametersAssumption`, `RegistersAssumption`, `BoxesAssumption`,
`ContextAssumption`, `LogAssumption`, `MarkersAssumption`, `RecoveryAssumption`, `PublicationAssumption`, `MissingAssumption`, `DispatcherAssumption`.  They say that sentinels are not
values, that bounds are numbers and that summaries have their shape.  `ReadsStayTrue` of the integer parameters has one
hypothesis besides, `~Initex`; no other theorem has any.

**What stays with TLC.**

* `AllEnds`: liveness under fairness.
* `ExpandsAsTeX`, `AllOrNothing`, `OriginsDistinct`, `SharedBudget`, `StreamsAreTrue`, `ScansFind`, `ReadsAsTeX`,
  `NumbersAsTeX`, `SourceIsAccounted`, `ContentIsTrue`, `PackageReadsAsPaper` and the `Effects` part of
  `MeaningsAreTrue` compare with a reference that is computed by recursion over the data: they need induction over
  it, which is out of the prover's reach, and most of the modules use `RECURSIVE` operators.
* `RequirementsKept` and the `TypeOK` of `Recovery`: the rows of the captured requirements are a fold over the committed failures.
* `ConfigurationsAreTrue`: the option table is compared with the list that all recipes, written out, come to, by a fold over it.
* `OptionsAsTeX`: counts the members of a plan that is a fold.
* `PartsTypeOK`, `TypesOK` and `ScopedTypeOK` gather the types of the modules that a run composes.  Where a module has
  theorems its part is proved (`TypeStaysOK`, `CellsStayTyped`, `LogStaysTyped`, `ScopesStayAligned`); the others are not.

## 5. Where code and documentation disagree

Six disagreements are kept as runs that TLC must find violated (`findings` in `PROJECT.json` quotes the lines):

1. `integer_initex`: with `primitive_initial_state`, an invalidation visits only keys that are in a dictionary, so a
   count register that retained source may have written still reads 0.  Token registers and state cells have
   `default_uncertain` against this; integer parameters do not.
2. `recovery_retained`: retaining an input whole restores the caller's language state without the reconciliation that a
   rollback performs; the assumptions made inside the input are merged by hand, the author's definitions come back as facts.
3. `publication_interrupted`: an interrupt between a rename and its record hides the rename from the rollback, and
   `__exit__` removes the workspace that holds the only copy of the previous payload.
4. `publication_failures`: after a failed first attempt has left its journal, the directory "existed", so a second
   failed attempt leaves no manifest although there is no earlier payload.
5. `held_tokens`: a token that `\noexpand` holds, put back by `\expandafter` and read as a macro's operand, stays held
   behind the macro, where TeX drops the mark when the operand is read.
6. `rescanned_programs`: a program that `\scantokens` runs finds neither budget nor depth, so that inserted tokens end
   in an `AttributeError` and mutual recursion in Python's `RecursionError`.

More are described in the models and excepted in a property's condition or in the inputs:

* A named global invalidation skips journals that saved `None` (`engine/token_registers.py:69`): a register first
  written inside a group is popped back to absent and reads as the initial list.  `missed` records such registers, and
  `ReadsAreTrue` promises nothing of their default.
* Requirement identities count rows (`prepare/manifest.py:170`): after a rollback around several commands an identity is
  handed out twice and one committed failure replaces the other's requirement.  `RequirementsSurvive` is checked
  without an enclosing attempt.
* `flush()` poisons a run for `Exception` only (`event_log.py:158`): after a `KeyboardInterrupt` inside the append the
  batch is still pending and is written again.  `RunsAreOrdered` exempts interrupted runs; `ConfirmedIsWritten` and
  `AppendOnly` hold of them too.  Likewise, an interrupted publication is exempt from `GoodSurvives` and from the first half of
  `HistoryKept`; `WholePackages` is not.
* The summary of a body ignores `\globaldefs` (`reading/effects.py:42`): a positive setting makes writes of the body
  global that the summary calls local.  `Effects` is instantiated with settings that are never positive.
* An edit over an earlier edit can leave a run of the map exact although its text is gone (`reading/edit_map.py:87`,
  whose docstring says it stays coarse).
* An alignment's templates are put around a cell that a macro begins or ends, but inside the macro's program
  (`engine/primitives/alignments.py`); `TemplatesSurround` is limited to other cells.
* A content build whose budget runs out while `finish` closes the last paragraph loses that paragraph
  (`engine/content.py:144`).
* A bibliography supplied at a reading boundary removes a later, deferred `\bibliography` as well
  (`prepare/bibliography.py:174`, against lines 34-35), `\includeonly` is dropped from `master.tex` although unread
  `\include` commands remain (`prepare/session.py:792`), and the bibliography stage overwrites a retained
  `master.bbl`.  The families of `Papers` leave these combinations out.
* A load marker whose absence a group's journal keeps cannot be put in doubt (`reading/context.py:293-310` marks
  meanings that exist).  When such a marker is in doubt inside the group and a request for the name is retained
  (`prepare/session.py:583-607`), TeX may load the package globally, but after the group the name reads as "not loaded".
  `missed` has such names until their marker is assigned globally or loads come into doubt; `PackagesAreTrue` promises
  nothing of them.  Markers made by `\def` are not in the model: an invalidation does not mark a stored definition at all.
* An unknown command takes a `*` whenever nothing was put behind it yet, and the contents of a group are put there
  without its braces (`reading/deferred_scanner.py:21`, `:27`): behind `\foo{}` or `\foo[]` a star, and every group behind it, is kept
  with the command.  `ScansFind` allows the scan to go on behind a star that stands behind nothing but
  empty groups, and is exact otherwise.
* A bracket is taken for an option's whatever its category, but an option needs category other
  (`reading/deferred_scanner.py:24`, `reading/argument_scanner.py:110-116`): a `[` of another category behind an unknown command ends
  in an `AttributeError`.  `ScansFind` says that it is an error there.
* A raw handoff that ends before the line end, after that line end has been looked at, loses it, since the queue is cleared
  and `_endline_queued` stays (`reading/tex_reader.py:364`).  A line end is looked at only with nothing or superscript characters
  before it, where no literal's delimiter is expected to end; `ConsumeRawTo` has it as a condition.

## 6. Plan

1. **Proofs.**  The recipes of `Configuration` and the bound of its stack from the lemmas of `SaveJournalProofs`; the
   assumptions and units of `Recovery` that `RequirementsKept` rests on, but for its fold.
2. **The rest of the dispatcher**: environments as groups that hold definitions, and the replay of a branch whose
   predicate an assumption settles.
3. **Bindings**: the catalogue's validation and the bindings it resolves.
4. **Units**: the activity lattice of `decide()`.

## 7. What is not modelled

* Text: tokens as characters beyond what the mouth and the scanners tell apart, the JSON encoding, wording, layout.
* Pure lookups and developer tools: bindings catalogue, lint, survey, policy, `validation/`.
* External processes: conversions of images and bibliographies succeed or fail, their products are opaque.
* In `ReaderContext`: environments, capture settings, the expl3 switch, `endlinechar`, reading profiles.  In
  `Publication`: failures of `rmtree` in `__exit__` (they leave workspaces behind) and custom loggers.  In `Recovery`:
  cursors of continuation points and files owned by an attempt.  In `Mouth`: layered category tables and synthetic profiles.
* In `Traversal` and `Assembly`: file hooks, optional inputs, options and class requests, lint's repair of a boundary, true input
  cycles, packages asked for from an import's own directory, a `\graphicspath` behind a boundary, more than one
  bibliography with a boundary, and the bytes of undecodable sources.
* In `Content`: measurement, space factors, shifts and dimensions; one stream and one file; leaders are followed by
  glue, and the alternatives of `\mathchoice` by a brace.
* In `Arithmetic`: math glue, font units and `engine/tfm.py`.
* Formats, hooks, fonts: see the notes in `PROJECT.json`.
* The Perl converter and its Markdown post-processor (`lib/`), vendored Python (`python/arvix-cleaner`, `python/others`),
  test drivers (`scripts/`, `tools/`, `t/`), data and prose.
