-------------------------------- MODULE Programs --------------------------------
(***************************************************************************)
(* engine/programs.py with the rescanning primitive and the dispatcher's   *)
(* insert_tokens: frozen token lists run by child dispatchers against the  *)
(* document's own context.  A program is published whole or restored, its  *)
(* children share one work budget that nothing refunds, and every frozen   *)
(* reader draws a new serial number for its diagnostic coordinates.        *)
(*                                                                         *)
(* A body is a list of items: assignments, group and conditional ends,     *)
(* text, a boundary, and calls of another body in the four ways the code   *)
(* has: a macro, inserted tokens, a nested program and \scantokens.        *)
(***************************************************************************)
EXTENDS Integers, Sequences, SequencesExt, FiniteSetsExt

CONSTANTS
  Bodies,      (* The bodies, by name.                                     *)
  Programs,    (* The names a document starts.                             *)
  Budget,      (* The work budget of a program.                            *)
  MaxDepth,    (* Nesting limit (48 in the code).                          *)
  MaxStack,    (* Children that Python's own stack allows.                 *)
  MaxStarts    (* Bound on the programs of a behaviour.                    *)

VARIABLES
  context,     (* The shared reading state.                                *)
  sources,     (* The serial numbers of the generated sources in force.    *)
  hosts,       (* The document's dispatcher and its nested children.       *)
  fuel,        (* The budgets made.                                        *)
  error,       (* The exception on its way up; "" when there is none.      *)
  running,     (* The program the document started, and the state then.    *)
  outcome,     (* What became of it.                                       *)
  starts

programVars == <<context, sources, hosts, fuel, error, running, outcome, starts>>

Do(what) == [what |-> what, name |-> "none", value |-> 0]
Put(value) == [what |-> "set", name |-> "none", value |-> value]
Run(what, name) == [what |-> what, name |-> name, value |-> 0]
Running == Len(hosts) > 1

(* A value, the values that open groups save, and a mark for each opening. *)
Outermost == [value |-> 0, scopes |-> <<>>, opened |-> 0]
Idle == [name |-> "none", how |-> "none", context |-> Outermost]

(* The document: no budget, and readings that are not limited.             *)
Document == [kind |-> "document", input |-> <<>>, conds |-> 0, serial |-> 0,
             policy |-> "hook", cell |-> 0, local |-> 0, depth |-> 0, saved |-> <<>>]

ProgramsInit ==
  /\ context = Outermost
  /\ sources = <<>> /\ hosts = <<Document>> /\ fuel = <<>>
  /\ error = "" /\ running = Idle /\ outcome = "none" /\ starts = 0

-----------------------------------------------------------------------------
Host == Last(hosts)
Replaced(h) == [hosts EXCEPT ![Len(hosts)] = h]

Checkpointed == [context |-> context, sources |-> sources, conds |-> Host.conds, serial |-> Host.serial]

(* A frozen reader for h: the serial is drawn from the dispatcher's.       *)
Frozen(h, input) == [h EXCEPT !.input = input, !.serial = @ + 1]

Fails(reason) == /\ error' = reason /\ UNCHANGED <<context, sources, hosts>>

(* Mutant of ChildCell: every program has its own budget. *)
OwnCell == Len(fuel) + 1

(* The budget a nested program charges: its host's, when it has one.       *)
ChildCell == IF Host.cell = 0 THEN Len(fuel) + 1 ELSE Host.cell

TooDeep(caller) == caller.depth >= MaxDepth

(* evaluate: a child that has the caller's conditionals, its policy and,   *)
(* in a program, its budget.                                               *)
Evaluate(caller, name, policy, charged) ==
  LET child == Frozen([caller EXCEPT !.kind = "program", !.policy = policy, !.cell = ChildCell, !.local = ChildCell,
                         !.depth = @ + 1, !.saved = <<[Checkpointed EXCEPT !.conds = caller.conds]>>], Bodies[name])
  IN  IF Len(hosts) >= MaxStack THEN Fails("RecursionError") /\ fuel' = charged
      ELSE IF TooDeep(caller) THEN Fails("program_budget") /\ fuel' = charged
      ELSE /\ hosts' = Append(Replaced([caller EXCEPT !.serial = @ + 1]), child)
           /\ sources' = Append(sources, child.serial)
           /\ fuel' = IF ChildCell > Len(fuel) THEN Append(charged, Budget) ELSE charged
           /\ UNCHANGED <<context, error>>

(* scantokens makes a child of its own that is given no budget to pass on  *)
(* and no depth; it charges the caller's budget, or a fresh one.           *)
Scan(caller, name, charged) ==
  LET child == Frozen([caller EXCEPT !.kind = "scan", !.policy = "setup", !.cell = 0, !.local = ChildCell, !.depth = 0,
                         !.conds = 0, !.saved = <<[Checkpointed EXCEPT !.conds = caller.conds]>>], Bodies[name])
  IN  IF Len(hosts) >= MaxStack THEN Fails("RecursionError") /\ fuel' = charged
      ELSE /\ hosts' = Append(Replaced([caller EXCEPT !.serial = @ + 1]), child)
           /\ sources' = Append(sources, child.serial)
           /\ fuel' = IF ChildCell > Len(fuel) THEN Append(charged, Budget) ELSE charged
           /\ UNCHANGED <<context, error>>

Start(name, how) ==
  /\ ~Running /\ error = "" /\ starts < MaxStarts
  /\ starts' = starts + 1
  /\ running' = [name |-> name, how |-> how, context |-> context]
  /\ outcome' = "running"
  /\ IF how = "scan" THEN Scan(Host, name, fuel) ELSE Evaluate(Host, name, how, fuel)

(* What a child lets stand: a scan only definitions, a setup no text.      *)
Accepts(h, what) ==
  CASE what = "text" -> h.kind = "program" /\ h.policy = "hook"
    [] what \in {"set", "bad"} -> TRUE
    [] OTHER -> h.kind = "program"

Popped(c) == [c EXCEPT !.value = Last(c.scopes).value, !.scopes = Front(@)]
Pushed(c) == [c EXCEPT !.scopes = Append(@, [value |-> c.value, mark |-> c.opened]), !.opened = @ + 1]

(* An item that the child executes itself. *)
Execute(item, rest) ==
  LET h == [Host EXCEPT !.input = rest]
  IN  CASE ~Accepts(h, item.what) -> Fails("program_effect")
        [] item.what = "bad" -> Fails("boundary")
        [] item.what = "end" /\ context.scopes = <<>> -> Fails("unmatched_group")
        [] item.what = "fi" /\ h.conds = 0 -> Fails("unmatched_conditional")
        [] OTHER ->
             /\ context' = CASE item.what = "set" -> [context EXCEPT !.value = item.value]
                             [] item.what = "begin" -> Pushed(context)
                             [] item.what = "end" -> Popped(context)
                             [] OTHER -> context
             /\ hosts' = Replaced(CASE item.what = "if" -> [h EXCEPT !.conds = @ + 1]
                                    [] item.what = "fi" -> [h EXCEPT !.conds = @ - 1]
                                    [] OTHER -> h)
             /\ UNCHANGED <<sources, error>>

Charged(amount) == [fuel EXCEPT ![Host.local] = @ - amount]

(* A macro's body, or inserted tokens, in front of the unread rest: one    *)
(* new frozen reader, charged for all of it.                               *)
Splice(name, rest) ==
  LET h == Frozen(Host, Bodies[name] \o rest)
      left == Charged(1 + Len(h.input))
  IN  /\ fuel' = left
      /\ IF left[Host.local] < 0 THEN Fails("program_budget")
         ELSE /\ hosts' = Replaced(h) /\ sources' = Append(sources, h.serial)
              /\ UNCHANGED <<context, error>>

(* One turn of the loop: an item is charged, and executed or expanded.     *)
Turn ==
  /\ Running /\ error = "" /\ Host.input # <<>>
  /\ UNCHANGED <<running, outcome, starts>>
  /\ LET item == Head(Host.input)
         rest == Tail(Host.input)
         caller == [Host EXCEPT !.input = rest]
     IN  CASE fuel[Host.local] < 1 -> fuel' = Charged(1) /\ Fails("program_budget")
           [] fuel[Host.local] >= 1 /\ item.what = "call" /\ Host.kind = "program" -> Splice(item.name, rest)
           [] fuel[Host.local] >= 1 /\ item.what = "insert" /\ Host.cell # 0 -> Splice(item.name, rest)
           [] fuel[Host.local] >= 1 /\ item.what = "insert" /\ Host.cell = 0 -> UNCHANGED fuel /\ Fails("AttributeError")
           [] fuel[Host.local] >= 1 /\ item.what = "use" -> Evaluate(caller, item.name, Host.policy, Charged(1))
           [] fuel[Host.local] >= 1 /\ item.what = "scan" -> Scan(caller, item.name, Charged(1))
           [] OTHER -> fuel' = Charged(1) /\ Execute(item, rest)

(* Mutant of Settled: groups are not compared in a setup program. *)
SettledConditionals(h) == h.kind = "program" => h.conds = h.saved[1].conds

(* What a child that has read everything has to leave as it found it.      *)
Settled(h) ==
  /\ h.kind = "program" => h.conds = h.saved[1].conds
  /\ h.kind = "program" /\ h.policy = "setup" => context.scopes = h.saved[1].context.scopes

(* A program's end is charged too.  The caller goes on behind it, unless   *)
(* it is a scan, where only a definition may stand.                        *)
Finish ==
  /\ Running /\ error = "" /\ Host.input = <<>>
  /\ fuel' = Charged(IF Host.kind = "program" THEN 1 ELSE 0)
  /\ IF fuel'[Host.local] < 0 THEN Fails("program_budget") /\ UNCHANGED outcome
     ELSE IF ~Settled(Host) THEN Fails("unsettled") /\ UNCHANGED outcome
     ELSE /\ hosts' = [Front(hosts) EXCEPT ![Len(hosts) - 1].serial = Host.serial]
          /\ outcome' = IF Len(hosts) = 2 THEN "published" ELSE outcome
          /\ error' = IF hosts[Len(hosts) - 1].kind = "scan" THEN "rescan_effect" ELSE error
          /\ UNCHANGED <<context, sources>>
  /\ UNCHANGED <<running, starts>>

(* evaluate keeps the serials its child drew; scantokens does not, but has *)
(* undone the sources that had them.                                       *)
SerialAfter(h) ==
  IF h.kind = "scan" THEN h.saved[1].serial + 1 ELSE h.serial

(* Mutant of RolledBack: the generated sources outlive the failure. *)
RolledBackContext(h) ==
  /\ context' = h.saved[1].context /\ UNCHANGED sources
  /\ hosts' = [Front(hosts) EXCEPT ![Len(hosts) - 1].conds = h.saved[1].conds,
                                   ![Len(hosts) - 1].serial = SerialAfter(h)]

(* The caller's language checkpoint, of which the serial is not part.      *)
RolledBack(h) ==
  /\ context' = h.saved[1].context /\ sources' = h.saved[1].sources
  /\ hosts' = [Front(hosts) EXCEPT ![Len(hosts) - 1].conds = h.saved[1].conds,
                                   ![Len(hosts) - 1].serial = SerialAfter(h)]

(* The exception leaves one child after the other.  The document keeps the *)
(* request unexecuted, if the exception is one that it expects.            *)
Unexpected == error \in {"AttributeError", "RecursionError"}
Unwind ==
  /\ Running /\ error # ""
  /\ RolledBack(Host)
  /\ IF Len(hosts) = 2
       THEN outcome' = "restored" /\ error' = IF Unexpected THEN error ELSE ""
       ELSE UNCHANGED <<outcome, error>>
  /\ UNCHANGED <<fuel, running, starts>>

ProgramsNext ==
  \/ \E name \in Programs, how \in {"hook", "setup", "scan"} : Start(name, how)
  \/ Turn \/ Finish \/ Unwind

ProgramsFair == WF_programVars(Turn \/ Finish \/ Unwind)

-----------------------------------------------------------------------------
(* TeX's way: every call puts its body in front of the input.  Gives up    *)
(* after fuel items.                                                       *)
RECURSIVE TrueEffect(_, _, _)
TrueEffect(input, c, steps) ==
  LET item == Head(input)
      rest == Tail(input)
  IN  IF input = <<>> \/ steps = 0 THEN c
      ELSE CASE item.what \in {"call", "insert", "use", "scan"} -> TrueEffect(Bodies[item.name] \o rest, c, steps - 1)
             [] item.what = "set" -> TrueEffect(rest, [c EXCEPT !.value = item.value], steps - 1)
             [] item.what = "begin" -> TrueEffect(rest, Pushed(c), steps - 1)
             [] item.what = "end" /\ c.scopes # <<>> -> TrueEffect(rest, Popped(c), steps - 1)
             [] OTHER -> TrueEffect(rest, c, steps - 1)

ProgramsTypeOK ==
  /\ \A n \in DOMAIN fuel : fuel[n] <= Budget
  /\ Host.depth \in 0..MaxDepth /\ Host.conds >= 0
  /\ ~Running => error = "" \/ Unexpected

(* A program that is published had TeX's effect on the document, and one   *)
(* that failed anywhere, however deep, has had none.  A setup opens and    *)
(* closes no group of its caller's.                                        *)
AllOrNothing ==
  /\ outcome = "restored" => context = running.context
  /\ outcome = "published" => context = TrueEffect(Bodies[running.name], running.context, Budget)
  /\ outcome = "published" /\ running.how = "setup" => context.scopes = running.context.scopes

(* Nested programs charge the budget of the one that runs them, so that    *)
(* repeated nesting cannot multiply the work; scantokens breaks the chain. *)
SharedBudget ==
  \A n \in 2..Len(hosts) :
    (\A k \in 2..n : hosts[k].kind = "program") => hosts[n].cell = hosts[2].cell

(* Source origins are found by their coordinates: no two generated sources *)
(* in force have the same, also after failures in between.                 *)
OriginsDistinct == \A m, n \in DOMAIN sources : sources[m] = sources[n] => m = n

(* Nested execution shares one work budget and one nesting limit, and      *)
(* every failure is an issue for which the reader keeps the source.        *)
FailsAsIssue == ~Unexpected

(* Also macros that call themselves end.                                   *)
ProgramsEnd == Running ~> ~Running
==================================================================================
