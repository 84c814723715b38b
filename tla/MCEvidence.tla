------------------------------ MODULE MCEvidence ------------------------------
(* For TLC: what a preparation session keeps and what it makes of a paper, *)
(* in one run: its failures, its event journal, the packages it has loaded *)
(* and their options, the configuration of the packages, and the assembly  *)
(* of the package from the sources of small papers.  `part' says           *)
(* which of them a behaviour is about; the others stay as they began.      *)
EXTENDS Recovery, EventLog, Packages, Papers

CONSTANTS
  Styles, Lists, Exclusive, Known, MaxCommands,
  Projects, Bound

VARIABLES
  part,
  contract, values, styles, stack, result, asked, status, commands, true, trueStyles,
  project, session, stage, package

configurationVars ==
  <<contract, values, styles, stack, result, asked, status, commands, true, trueStyles>>
paperVars == <<project, session, stage, package>>

Configuring == INSTANCE Configuration
Assembling == INSTANCE PackageReading WITH phase <- stage

Shape(around, units, inputs) == [enclosing |-> around, units |-> units, frames |-> inputs]

(* An attempt around several commands, and commands inside nested inputs.   *)
MCShapes == {Shape(TRUE, 4, 0), Shape(FALSE, 3, 2)}

(* Two options that exclude each other, one the contract does not know, and *)
(* recipes that use recipes, themselves among them.                        *)
Use(name) == [key |-> "style", value |-> name]
Setting(key) == [key |-> key, value |-> 1]
MCLists == {<<Setting("a")>>, <<Use("s")>>, <<Use("t")>>, <<Setting("b"), Use("s")>>,
            <<Use("t"), Setting("a")>>, <<Setting("u")>>}
MCExclusive == {{"a", "b"}}

(* The runs that share the journal are alike. *)
MCSymmetry == Permutations(Runs)

-----------------------------------------------------------------------------
MCInit ==
  /\ part \in {"recovery", "log", "packages", "configuration", "assembly"}
  /\ Init /\ LogInit /\ LoadsInit /\ Configuring!Init
  /\ part # "recovery" => shape = Shape(FALSE, 3, 2)
  /\ part # "packages" => classOptions = <<>>
  /\ part # "configuration" => contract \in [assignment: {FALSE}, definition: {FALSE}, preserve: {FALSE}]
  /\ IF part = "assembly" THEN Assembling!Init ELSE Assembling!Idle

MCNext ==
  \/ part = "recovery" /\ Next /\ UNCHANGED <<part, logVars, loadVars, configurationVars, paperVars>>
  \/ part = "log" /\ LogNext /\ UNCHANGED <<part, vars, loadVars, configurationVars, paperVars>>
  \/ part = "packages" /\ LoadsNext /\ UNCHANGED <<part, vars, logVars, configurationVars, paperVars>>
  \/ part = "configuration" /\ Configuring!Next /\ UNCHANGED <<part, vars, logVars, loadVars, paperVars>>
  \/ part = "assembly" /\ Assembling!Next /\ UNCHANGED <<part, vars, logVars, loadVars, configurationVars>>

MCSpec == MCInit /\ [][MCNext]_<<part, vars, logVars, loadVars, configurationVars, paperVars>>

(* The fields of the coordinator, the journal and the traversal have their  *)
(* types.                                                                  *)
TypesOK ==
  (part = "recovery" => TypeOK) /\ (part = "log" => LogTypeOK /\ JournalStays) /\ (part = "assembly" => Assembling!StagesTypeOK)

(* A committed failure keeps its requirement, one that was undone does not, *)
(* and no two failures or requirements have one identity.                  *)
RequirementsKept ==
  part = "recovery" => RequirementsSurvive /\ RequirementsUndone /\ IdentitiesDistinct

(* The options in effect are those an executing implementation has, and an  *)
(* option list is refused only when it cannot be applied.                   *)
ConfigurationsAreTrue == part = "configuration" => Configuring!ConfigurationsAreTrue /\ Configuring!RefusedForCause

(* The package that is assembled from a paper reads as the paper does. *)
PackageReadsAsPaper == part = "assembly" => Assembling!PackageReadsAsPaper
==============================================================================
