------------------------------- MODULE Recovery -------------------------------
(***************************************************************************)
(* engine/checkpoints.py, prepare/checkpoints.py and prepare/recovery.py,  *)
(* as the traversal of prepare/session.py drives them: a command runs in   *)
(* an attempt, a failed attempt is rolled back, and its failure is         *)
(* committed as evidence that later rollbacks must not take away.          *)
(*                                                                         *)
(* `language' and `prep' are what the two participants of a checkpoint     *)
(* save and restore; serial, assumptions, committed and lastUnit are       *)
(* evidence, outside every checkpoint.                                     *)
(***************************************************************************)
EXTENDS Naturals, Sequences, SequencesExt

CONSTANTS
  Names,       (* Macros the author defines: stored definitions, which
                  defer_effects does not mark uncertain.                      *)
  Undefined, InDoubt,
  MaxUnits,    (* Bound on the commands the dispatcher returns.               *)
  MaxItems,    (* Bound on the item identities handed out.                    *)
  Shapes       (* The documents considered: whether a caller of
                  RecoveryCoordinator.begin may hold an attempt open around
                  several commands, and bounds on the commands and on the
                  nested input files.                                         *)

ASSUME RecoveryAssumption ==
  /\ MaxUnits \in Nat /\ MaxItems \in Nat
  /\ Shapes \subseteq [enclosing: BOOLEAN, units: 0..MaxUnits, frames: Nat]
  /\ Undefined # InDoubt /\ {Undefined, InDoubt} \cap Nat = {}

VARIABLES
  language,    (* defs: the unit that established each name; contexts: the
                  assumption ids in force; loads: whether load facts are in
                  doubt; units, causes: the registered units and those with
                  an uncertainty cause.                                       *)
  prep,        (* deps: dependency rows; rows: the requirements in order;
                  frames: the language state each open input was entered in.  *)
  attempts,    (* The open attempts, the outermost first.                     *)
  lastUnit,    (* units._serial: unit identities are never recycled.          *)
  serial,      (* RecoveryCoordinator.serial.                                 *)
  assumptions, (* len(manifest.recovery_contexts).                            *)
  committed,   (* RecoveryCoordinator.committed.                              *)
  phase,       (* Reading, then materializing what was read.                  *)
  failed,      (* History: the units a rollback has undone.                   *)
  shape        (* The document's shape; it never changes.                     *)

vars == <<language, prep, attempts, lastUnit, serial, assumptions, committed, phase, failed, shape>>

None == 0   (* No item, unit or assumption: their serials start at 1. *)

Units == 1..MaxUnits
Contexts == [defs: [Names -> {Undefined, InDoubt} \cup Units], contexts: SUBSET Nat, loads: BOOLEAN]
Languages == [defs: [Names -> {Undefined, InDoubt} \cup Units], contexts: SUBSET Nat, loads: BOOLEAN,
              units: SUBSET Units, causes: SUBSET Units]
Rows == [id: Nat, unit: Units \cup {None}, item: Nat]
Preps == [deps: SUBSET [item: Nat, unit: Units], rows: Seq(Rows), frames: Seq(Contexts)]
Attempts == [unit: Units \cup {None}, since: Nat, language: Languages, prep: Preps]
Failures == [item: Nat, unit: Units, row: Rows, program: BOOLEAN, assumption: Nat]

TypeOK ==
  /\ language \in Languages
  /\ prep \in Preps /\ Len(prep.frames) <= shape.frames
  /\ attempts \in Seq(Attempts)
  /\ lastUnit \in 0..shape.units /\ serial \in 0..MaxItems /\ assumptions \in Nat
  /\ committed \in Seq(Failures)
  /\ phase \in {"reading", "materializing"}
  /\ failed \in SUBSET Units

Init ==
  /\ language = [defs |-> [n \in Names |-> Undefined], contexts |-> {}, loads |-> FALSE,
                 units |-> {}, causes |-> {}]
  /\ prep = [deps |-> {}, rows |-> <<>>, frames |-> <<>>]
  /\ attempts = <<>>
  /\ lastUnit = 0 /\ serial = 0 /\ assumptions = 0
  /\ committed = <<>>
  /\ phase = "reading"
  /\ failed = {}
  /\ shape \in Shapes

-----------------------------------------------------------------------------
(* Restoring. *)

(* Mutants of Invalidated: the meanings are dropped, or kept. *)
DroppedDefinitions(defs) == [n \in Names |-> None]

(* context.invalidate_meanings(context.meaning_names()). *)
Invalidated(defs) == [n \in Names |-> IF defs[n] = Undefined THEN Undefined ELSE InDoubt]

(* keep(rows, record, "id"): replace the first row with the record's id, or *)
(* append the record.                                                       *)
Keep(rows, c) ==
  LET index == SelectInSeq(rows, LAMBDA row : row.id = c.row.id)
  IN  IF index = 0 THEN Append(rows, c.row) ELSE [rows EXCEPT ![index] = c.row]

(* restore_committed, on restored states l and p. *)
Reconciled(l, p) ==
  LET failures == ToSet(committed)
      ids == { c.assumption : c \in failures } \ {None}
      missing == ids \ l.contexts
  IN  [language |-> [defs     |-> IF missing = {} THEN l.defs ELSE Invalidated(l.defs),
                     contexts |-> l.contexts \cup ids,
                     loads    |-> l.loads \/ missing # {},
                     units    |-> l.units \cup { c.unit : c \in failures },
                     causes   |-> l.causes \cup { c.unit : c \in failures }],
       prep     |-> [p EXCEPT !.deps = @ \cup { [item |-> c.item, unit |-> c.unit] : c \in failures },
                              !.rows = FoldLeft(Keep, @, committed)]]

(* Mutant of RolledBack: the checkpoint has no preparation participant. *)
RolledBackLanguage(a) == Reconciled(a.language, prep)

(* Checkpoint.rollback of an attempt with both participants: preparation,  *)
(* language, then preparation's after_restore.                             *)
RolledBack(a) == Reconciled(a.language, a.prep)
Undone(a) == (a.since + 1)..lastUnit

(* manifest.add_requirement: identities count the rows in force. *)
Required(rows, unit, item) == Append(rows, [id |-> Len(rows) + 1, unit |-> unit, item |-> item])

-----------------------------------------------------------------------------
(* Attempts. *)

Top == attempts[Len(attempts)]
InCommand == attempts # <<>> /\ Top.unit # None
Opened(unit) == [unit |-> unit, since |-> lastUnit, language |-> language, prep |-> prep]

(* A caller encloses the commands to come in an attempt of its own. *)
Enclose ==
  /\ shape.enclosing /\ phase = "reading" /\ attempts = <<>>
  /\ attempts' = <<Opened(None)>>
  /\ UNCHANGED <<language, prep, lastUnit, serial, assumptions, committed, phase, failed, shape>>

(* next_item returns a source command: its checkpoint is taken before it is *)
(* expanded, its unit registered after.                                     *)
Dispatch ==
  /\ phase = "reading" /\ ~InCommand /\ lastUnit < shape.units
  /\ lastUnit' = lastUnit + 1
  /\ attempts' = Append(attempts, Opened(lastUnit + 1))
  /\ language' = [language EXCEPT !.units = @ \cup {lastUnit + 1}]
  /\ UNCHANGED <<prep, serial, assumptions, committed, phase, failed, shape>>

(* The command's effects: a definition, a resource found, a requirement. *)
Define(n) ==
  /\ InCommand
  /\ language' = [language EXCEPT !.defs[n] = Top.unit]
  /\ UNCHANGED <<prep, attempts, lastUnit, serial, assumptions, committed, phase, failed, shape>>

Edge ==
  /\ InCommand /\ serial < MaxItems
  /\ serial' = serial + 1
  /\ prep' = [prep EXCEPT !.deps = @ \cup {[item |-> serial + 1, unit |-> Top.unit]}]
  /\ UNCHANGED <<language, attempts, lastUnit, assumptions, committed, phase, failed, shape>>

Require ==
  /\ InCommand /\ \A i \in DOMAIN prep.rows : prep.rows[i].unit # Top.unit
  /\ prep' = [prep EXCEPT !.rows = Required(@, Top.unit, None)]
  /\ UNCHANGED <<language, attempts, lastUnit, serial, assumptions, committed, phase, failed, shape>>

Commit ==
  /\ InCommand
  /\ attempts' = Front(attempts)
  /\ UNCHANGED <<language, prep, lastUnit, serial, assumptions, committed, phase, failed, shape>>

(* _enter: the handler's last act is to suspend the mouth and enter a file, *)
(* remembering the language state (not its observations) at the handoff.    *)
EnterInput ==
  /\ InCommand /\ Len(prep.frames) < shape.frames
  /\ prep' = [prep EXCEPT !.frames = Append(@, [defs     |-> language.defs,
                                                contexts |-> language.contexts,
                                                loads    |-> language.loads])]
  /\ attempts' = Front(attempts)
  /\ UNCHANGED <<language, lastUnit, serial, assumptions, committed, phase, failed, shape>>

LeaveInput ==
  /\ phase = "reading" /\ ~InCommand /\ prep.frames # <<>>
  /\ prep' = [prep EXCEPT !.frames = Front(@)]
  /\ UNCHANGED <<language, attempts, lastUnit, serial, assumptions, committed, phase, failed, shape>>

(* The caller gives its enclosing attempt up. *)
RollbackEnclosing ==
  /\ attempts # <<>> /\ ~InCommand
  /\ LET r == RolledBack(Top) IN language' = r.language /\ prep' = r.prep
  /\ failed' = failed \cup Undone(Top)
  /\ attempts' = Front(attempts)
  /\ UNCHANGED <<lastUnit, serial, assumptions, committed, phase, shape>>

CommitEnclosing ==
  /\ attempts # <<>> /\ ~InCommand
  /\ attempts' = Front(attempts)
  /\ UNCHANGED <<language, prep, lastUnit, serial, assumptions, committed, phase, failed, shape>>

-----------------------------------------------------------------------------
(* Failures. *)

(* Recorded(l, p, unit, item, program) is _record_recovery and the commit  *)
(* of its evidence: item is the row found for the request, or a new one.   *)
Recorded(l, p, unit, item, program) ==
  LET id == IF program THEN assumptions + 1 ELSE None
      rows == Required(p.rows, unit, item)
  IN  /\ language' =
           [defs     |-> IF program THEN Invalidated(l.defs) ELSE l.defs,
            contexts |-> IF program THEN l.contexts \cup {id} ELSE l.contexts,
            loads    |-> l.loads \/ program,
            units    |-> l.units \cup {unit},
            causes   |-> l.causes \cup {unit}]
      /\ prep' = [p EXCEPT !.deps = @ \cup {[item |-> item, unit |-> unit]}, !.rows = rows]
      /\ assumptions' = IF program THEN assumptions + 1 ELSE assumptions
      /\ committed' = Append(committed, [item |-> item, unit |-> unit, row |-> Last(rows),
                                         program |-> program, assumption |-> id])
      /\ serial' = IF item > serial THEN item ELSE serial

(* Mutant of ItemFor: any request's row will do. *)
ItemOfAnyone(unit) ==
  { d.item : d \in prep.deps } \cup (IF serial < MaxItems THEN {serial + 1} ELSE {})

(* The item of the request's own row, if it has one, or a fresh identity. *)
ItemFor(unit) ==
  { d.item : d \in { e \in prep.deps : e.unit = unit } } \cup
  (IF serial < MaxItems THEN {serial + 1} ELSE {})

(* RecoveryCoordinator.recover for the command's attempt: an unavailable   *)
(* program (input, package, class) invalidates what the author defined.    *)
Recover(program, item) ==
  /\ InCommand /\ item \in ItemFor(Top.unit)
  /\ LET r == RolledBack(Top) IN Recorded(r.language, r.prep, Top.unit, item, program)
  /\ failed' = failed \cup Undone(Top)
  /\ attempts' = Front(attempts)
  /\ UNCHANGED <<lastUnit, phase, shape>>

(* A reading boundary: the command in progress is rolled back, keeping its *)
(* unit as evidence, and either the innermost input is retained whole and  *)
(* its caller resumed in the state it was entered in, or reading ends.     *)
AtBoundary ==
  IF InCommand
    THEN LET r == RolledBack(Top)
         IN  [r EXCEPT !.language.units = @ \cup {Top.unit}]
    ELSE [language |-> language, prep |-> prep]

(* Mutant of RetainInput: the caller resumes in its entry state alone. *)
RetainInputForgetting ==
  LET at == AtBoundary
      entry == Last(at.prep.frames)
  IN  /\ phase = "reading" /\ at.prep.frames # <<>>
      /\ assumptions' = assumptions + 1
      /\ language' = [at.language EXCEPT !.defs = entry.defs, !.loads = TRUE,
                                         !.contexts = entry.contexts \cup {assumptions + 1}]
      /\ prep' = [at.prep EXCEPT !.frames = Front(@), !.rows = Required(@, None, None)]
      /\ failed' = IF InCommand THEN failed \cup Undone(Top) ELSE failed
      /\ attempts' = IF InCommand THEN Front(attempts) ELSE attempts
      /\ UNCHANGED <<lastUnit, serial, committed, phase, shape>>

RetainInput ==
  LET at == AtBoundary
      entry == Last(at.prep.frames)
  IN  /\ phase = "reading" /\ at.prep.frames # <<>>
      /\ assumptions' = assumptions + 1
      /\ language' = [at.language EXCEPT
                        !.defs = entry.defs,
                        !.contexts = entry.contexts \cup @ \cup {assumptions + 1},
                        !.loads = TRUE]
      /\ prep' = [at.prep EXCEPT !.frames = Front(@), !.rows = Required(@, None, None)]
      /\ failed' = IF InCommand THEN failed \cup Undone(Top) ELSE failed
      /\ attempts' = IF InCommand THEN Front(attempts) ELSE attempts
      /\ UNCHANGED <<lastUnit, serial, committed, phase, shape>>

(* Reading ends, at the end of the source or preserving the remainder. *)
EndReading ==
  /\ phase = "reading" /\ Len(attempts) = (IF InCommand THEN 1 ELSE 0)
  /\ language' = AtBoundary.language /\ prep' = AtBoundary.prep
  /\ failed' = IF InCommand THEN failed \cup Undone(Top) ELSE failed
  /\ attempts' = <<>>
  /\ phase' = "materializing"
  /\ UNCHANGED <<lastUnit, serial, assumptions, committed, shape>>

(* A bibliography or asset of a read command fails later: its attempt has  *)
(* no language or preparation participant, so nothing is rewound.          *)
MaterialFailure(unit, item) ==
  /\ phase = "materializing"
  /\ unit \in language.units \ failed /\ item \in ItemFor(unit)
  /\ \A c \in ToSet(committed) : c.item # item
  /\ Recorded(language, prep, unit, item, FALSE)
  /\ UNCHANGED <<attempts, lastUnit, phase, failed, shape>>

Next ==
  \/ Enclose \/ RollbackEnclosing \/ CommitEnclosing
  \/ Dispatch
  \/ \E n \in Names : Define(n)
  \/ Edge \/ Require \/ Commit
  \/ EnterInput \/ LeaveInput \/ RetainInput \/ EndReading
  \/ \E program \in BOOLEAN, item \in 1..MaxItems : Recover(program, item)
  \/ \E unit \in Units, item \in 1..MaxItems : MaterialFailure(unit, item)

Spec == Init /\ [][Next]_vars

-----------------------------------------------------------------------------
(* A failure's evidence in the states l and p of the two participants.     *)
InForce(c, l, p) ==
  /\ [item |-> c.item, unit |-> c.unit] \in p.deps
  /\ c.unit \in l.units \cap l.causes
  /\ c.program => c.assumption \in l.contexts /\ l.loads

(* A committed failure survives every later rollback: its dependency row,  *)
(* its unit, its cause and its assumption are all in force, whatever was   *)
(* restored around them (resource-recovery.md: committed failures survive  *)
(* enclosing rollback).                                                    *)
FailuresSurvive == \A c \in ToSet(committed) : InForce(c, language, prep)

(* So does the requirement that reports it.  Without an enclosing attempt: *)
(* the identity of a requirement counts the rows in force, and a rollback  *)
(* around several commands lets the next failure take the identity of a    *)
(* committed one.                                                          *)
RequirementsSurvive ==
  ~shape.enclosing => \A c \in ToSet(committed) : c.row \in ToSet(prep.rows)

(* Each consumption fails at most once, and each requirement that a reader *)
(* of the manifest can name is one row: repeated recovery and restored     *)
(* lists never duplicate an identity.                                      *)
IdentitiesDistinct ==
  /\ \A i, j \in DOMAIN committed : committed[i].item = committed[j].item => i = j
  /\ ~shape.enclosing =>
       \A i, j \in DOMAIN prep.rows : prep.rows[i].id = prep.rows[j].id => i = j

(* Failed attempts undo effects, not committed evidence: what a rolled     *)
(* back command established or found is gone, unless it is the failure     *)
(* itself.                                                                 *)
EffectsUndone ==
  /\ \A n \in Names : language.defs[n] \notin failed
  /\ \A d \in prep.deps : d.unit \in failed => \E c \in ToSet(committed) : c.item = d.item

(* So are the requirements it added.                                       *)
RequirementsUndone == \A r \in ToSet(prep.rows) : r.unit \in failed => r.item # None

(* Known author definitions cannot survive an unavailable program as facts *)
(* (recovery.py:201): an established name was written by a later command.  *)
ProgramsLeaveDoubt ==
  \A n \in Names : language.defs[n] \in Units =>
    \A c \in ToSet(committed) : c.program => c.unit < language.defs[n]

(* Where no input file is retained whole, it does hold.                    *)
DoubtWithoutInputs == shape.frames = 0 => ProgramsLeaveDoubt

(* What an attempt undid is undone everywhere, and what its programs may   *)
(* have written stays in doubt.                                            *)
UndoneIsUndone == EffectsUndone /\ DoubtWithoutInputs

-----------------------------------------------------------------------------
(* Why: what an attempt saved is as old as the attempt, and nothing in it  *)
(* belongs to a command that was undone since.                             *)

(* What could be known of a moment: the commands up to it that are not     *)
(* undone by now, the assumptions and the failures that there are.         *)
Moment(since) ==
  [live |-> (1..since) \ failed, assumed |-> 1..assumptions, units |-> 1..lastUnit,
   failures |-> ToSet(committed), inputs |-> shape.frames # 0]

Meanings(m) == [Names -> {Undefined, InDoubt} \cup m.live]

(* A language state of a moment: an assumption in force puts load facts in *)
(* doubt, and without inputs what was defined came after each unavailable  *)
(* program whose assumption is in force.                                   *)
LanguageAt(l, m) ==
  /\ l \in [defs: Meanings(m), contexts: SUBSET m.assumed, loads: BOOLEAN,
            units: SUBSET m.units, causes: SUBSET m.units]
  /\ l.contexts # {} => l.loads
  /\ ~m.inputs =>
       \A n \in Names, c \in m.failures :
         c.program /\ c.assumption \in l.contexts /\ l.defs[n] \in Nat => c.unit < l.defs[n]

EntriesAt(m) == [defs: Meanings(m), contexts: SUBSET m.assumed, loads: BOOLEAN]

PreparationAt(p, m) ==
  /\ p = [deps |-> p.deps, rows |-> p.rows, frames |-> p.frames]
  /\ \A d \in p.deps : d.unit \in m.live \/ \E c \in m.failures : c.item = d.item
  /\ p.frames \in Seq(EntriesAt(m))
  /\ ~m.inputs => p.frames = <<>>

Stands(a) ==
  /\ a = [unit |-> a.unit, since |-> a.since, language |-> a.language, prep |-> a.prep]
  /\ a.since \in 0..lastUnit
  /\ LanguageAt(a.language, Moment(a.since)) /\ PreparationAt(a.prep, Moment(a.since))

AttemptsStand ==
  /\ \A i \in 1..Len(attempts) :
       /\ Stands(attempts[i])
       /\ i # Len(attempts) => attempts[i].unit = None
       /\ \A j \in 1..i : attempts[j].since <= attempts[i].since
  /\ phase = "materializing" => attempts = <<>>

(* Commands are not nested: the command in progress is the last one.       *)
CommandIsLast ==
  InCommand =>
    /\ Top.unit = lastUnit /\ Top.since < lastUnit /\ lastUnit \notin failed
    /\ \A c \in ToSet(committed) : c.unit < lastUnit

EvidenceStands ==
  /\ failed \subseteq 1..lastUnit
  /\ \A c \in ToSet(committed) :
       /\ c.unit \in 1..lastUnit
       /\ c.assumption \in IF c.program THEN 1..assumptions ELSE {None}

RecoveryIsSound ==
  /\ EvidenceStands /\ FailuresSurvive
  /\ LanguageAt(language, Moment(lastUnit)) /\ PreparationAt(prep, Moment(lastUnit))
  /\ AttemptsStand /\ CommandIsLast

=============================================================================
